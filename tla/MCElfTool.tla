----------------------------- MODULE MCElfTool ------------------------------
(* Small files for ElfTool. *)
EXTENDS ElfTool

Section(t, l) == [type |-> t, link |-> l]
File(c, p, s) == [class |-> c, phnum |-> p, ehdr |-> TRUE, phdrs |-> TRUE, shdrs |-> TRUE,
                  sect |-> s]

\* Two symbol tables, each with names of its own; a file without program headers whose
\* symbol table links to itself; truncated files; and a file of an unknown class.
MCFiles == {
    File(2, 1, <<Section("dynsym", 2), Section("strtab", 0),
                 Section("symtab", 4), Section("strtab", 0)>>),
    File(1, 0, <<Section("symtab", 1), Section("strtab", 0)>>),
    [File(2, 1, <<>>) EXCEPT !.phdrs = FALSE],
    [File(2, 1, <<>>) EXCEPT !.ehdr = FALSE],
    [File(2, 1, <<Section("strtab", 0)>>) EXCEPT !.shdrs = FALSE],
    File(3, 1, <<>>)}
=============================================================================
