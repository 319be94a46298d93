------------------------------ MODULE ElfTool -------------------------------
(***************************************************************************)
(* elftool.c: a handle of an ELF file whose tables are loaded on demand    *)
(* and kept until the handle is closed.  The client calls the functions of *)
(* elftool.h in any order; memory may run out and reads may fail at any    *)
(* point.  What is followed is who owns which resource: the descriptor,    *)
(* libelf's descriptor and every allocated block.                          *)
(*                                                                         *)
(* A function that works on the handle is an operator that maps a state to *)
(* the set of states its call may end in.  It returns the table it leaves  *)
(* in the handle, so a NULL result is a table that is still missing.       *)
(***************************************************************************)
EXTENDS Naturals, Sequences

CONSTANTS
    Files,      \* the files the client opens
    MaxCalls,   \* bound: the number of calls, but for elf_init
    NULL,
    Junk        \* a pointer that nobody has assigned

Header == [type : {"strtab", "symtab", "dynsym", "other"}, link : Nat]

\* A file: its class byte, the number of its program headers, and the type and link of its
\* sections from section 1 on (none: no section header table).
\* ehdr, phdrs, shdrs: libelf finds the header, the program headers and the header of every
\* section in the file.
ASSUME FilesAssumption ==
    /\ \A f \in Files : /\ f.class \in Nat /\ f.phnum \in Nat
                        /\ f.ehdr \in BOOLEAN /\ f.phdrs \in BOOLEAN /\ f.shdrs \in BOOLEAN
                        /\ f.sect \in Seq(Header)
    /\ MaxCalls \in Nat

\* A resource: what it is, the section it was allocated for (0 if none), and the number of the
\* call that did.  No call allocates twice for the same purpose and section.
Block == [kind : {"fd", "elf", "handle", "phdr", "shdr", "tab", "data", "sym", "symbols"},
          sect : Nat, call : Nat]

VARIABLES
    live,           \* the resources that are held
    e,              \* the client's handle, or NULL
    crashed,        \* "no", or what the program died of: "header" or "memory"
    initialized,    \* _elf_tool_initialized
    calls

vars == <<live, e, crashed, initialized, calls>>

Fresh(kind, i) == [kind |-> kind, sect |-> i, call |-> calls]

\* A node of the list of string tables; a symbol table.
Tab == [id : Nat, node : Block, data : Block]
Sym == [block : Block, symbols : Block, sect : Nat, strtab : Block \cup {Junk}]

\* zero: what the entry 0 of the array at shdr holds; the others hold the file's sections.
Handle == [block : Block, fd : Block, elf : Block, file : Files,
           phdr : Block \cup {NULL}, shdr : Block \cup {NULL}, zero : Header,
           strtab : SUBSET Tab, sym : Sym \cup {NULL}, dsym : Sym \cup {NULL}]

ASSUME PointerAssumption ==
    NULL \notin Block /\ NULL \notin Sym /\ NULL \notin Handle /\ Junk \notin Block

Shnum(f) == IF f.sect = <<>> THEN 0 ELSE Len(f.sect) + 1

-----------------------------------------------------------------------------
(* Memory *)

State == [live : SUBSET Block, e : Handle \cup {NULL}, crashed : {"no", "header", "memory"}]

Alloc(s, B) == [s EXCEPT !.live = @ \cup B]

\* Freeing what is not held, or reading it, is the end.
Touch(s, B) == IF B \subseteq s.live THEN s ELSE [s EXCEPT !.crashed = "memory"]
Free(s, B) == [Touch(s, B) EXCEPT !.live = @ \ B]

\* Fields of a handle and the blocks they refer to.
Ptr(b) == {b} \ {NULL}
SymPtr(t) == IF t = NULL THEN {} ELSE {t.block}
TabPtrs(T) == {t.node : t \in T} \cup {t.data : t \in T}

-----------------------------------------------------------------------------
(* Loading *)

elf_load_phdr(s) ==
    IF s.e.phdr # NULL \/ s.e.file.phnum = 0 THEN {s}
    ELSE LET b == Fresh("phdr", 0)
         IN  {s, IF s.e.file.phdrs THEN [Alloc(s, {b}) EXCEPT !.e.phdr = b]
                 ELSE [Alloc(s, {b}) EXCEPT !.crashed = "header"]}

\* elf_nextscn begins with section 1: entry 0 keeps what malloc returned.  A section whose
\* header libelf does not find is read through NULL.
elf_load_shdr(s) ==
    IF s.e.shdr # NULL \/ Shnum(s.e.file) = 0 THEN {s}
    ELSE LET b == Fresh("shdr", 0)
         IN  {s} \cup IF ~s.e.file.shdrs THEN {[Alloc(s, {b}) EXCEPT !.crashed = "header"]}
                      ELSE {[Alloc(s, {b}) EXCEPT !.e.shdr = b, !.e.zero = z] :
                               z \in [type : {"strtab", "symtab", "dynsym", "other"},
                                      link : 0 .. Len(s.e.file.sect)]}

\* The loaded header of section i, and the sections whose header has type t.
Shdr(x, i) == IF i = 0 THEN x.zero ELSE x.file.sect[i]
OfType(x, t) == {i \in 0 .. Len(x.file.sect) : Shdr(x, i).type = t}

\* The list is built section by section.  On a failure it is freed again, but not the node
\* in hand (its data could not be allocated), nor that node and its data (a short read).
elf_load_strtab(s) ==
    IF s.e.strtab # {} THEN {s}
    ELSE UNION {
        IF t.e.shdr = NULL THEN {t}
        ELSE LET r == Touch(t, {t.e.shdr})
                 T == OfType(t.e, "strtab")
                 node(i) == Fresh("tab", i)
                 data(i) == Fresh("data", i)
             IN  {[Alloc(r, {node(i) : i \in T} \cup {data(i) : i \in T}) EXCEPT
                      !.e.strtab = {[id |-> i, node |-> node(i), data |-> data(i)] : i \in T}]}
                 \cup {r}
                 \cup {Alloc(r, {node(i)}) : i \in T}
                 \cup {Alloc(r, {node(i), data(i)}) : i \in T}
        : t \in elf_load_shdr(s)}

\* Mutant: the table's own number is compared, not its link.
SearchOwn(x, i) ==
    LET found == {t \in x.strtab : t.id = i}
    IN  IF found = {} THEN {Junk} ELSE {t.node : t \in found}

\* What symtab->strtab holds after the search: the table with the linked id or, when there
\* is none, what malloc returned (NULL is caught, anything else is not).
Search(x, i) ==
    LET found == {t \in x.strtab : t.id = Shdr(x, i).link}
    IN  IF found = {} THEN {Junk} ELSE {t.node : t \in found}

\* Reads the symbols of section i into field f of the handle.
elf_load_symtab_internal(s, f, i) ==
    UNION {
        IF t.e.strtab = {} THEN {t}
        ELSE LET r == Touch(t, TabPtrs(t.e.strtab))
                 b == Fresh("sym", i)
                 d == Fresh("symbols", i)
             IN  {r, Free(Alloc(r, {b}), {b}), Free(Alloc(r, {b, d}), {b})}
                 \cup {[Alloc(r, {b, d}) EXCEPT !.e[f] =
                           [block |-> b, symbols |-> d, sect |-> i, strtab |-> x]] :
                          x \in Search(t.e, i)}
        : t \in elf_load_strtab(s)}

First(S) == {i \in S : \A j \in S : i <= j}

\* elf_load_symtab and elf_load_dsymtab: the first section of the type.
LoadSymbols(s, f, type) ==
    IF s.e[f] # NULL THEN {s}
    ELSE UNION {
        IF t.e.shdr = NULL \/ OfType(t.e, type) = {} THEN {t}
        ELSE UNION {elf_load_symtab_internal(Touch(t, {t.e.shdr}), f, i) :
                       i \in First(OfType(t.e, type))}
        : t \in elf_load_shdr(s)}

elf_load_symtab(s) == LoadSymbols(s, "sym", "symtab")
elf_load_dsymtab(s) == LoadSymbols(s, "dsym", "dynsym")

\* Mutant: the field of the freed string tables is not reset.
FreeTablesKeep(s) ==
    LET s1 == Free(s, SymPtr(s.e.dsym))
        s2 == Free(s1, SymPtr(s.e.sym))
        s3 == Free(s2, TabPtrs(s.e.strtab))
        s4 == Free(s3, Ptr(s.e.shdr))
        s5 == Free(s4, Ptr(s.e.phdr))
    IN  [s5 EXCEPT !.e.dsym = NULL, !.e.sym = NULL,
                   !.e.shdr = NULL, !.e.phdr = NULL]

\* The tables go, in elf_close and after a failure of elf_load_all.
FreeTables(s) ==
    LET s1 == Free(s, SymPtr(s.e.dsym))
        s2 == Free(s1, SymPtr(s.e.sym))
        s3 == Free(s2, TabPtrs(s.e.strtab))
        s4 == Free(s3, Ptr(s.e.shdr))
        s5 == Free(s4, Ptr(s.e.phdr))
    IN  [s5 EXCEPT !.e.dsym = NULL, !.e.sym = NULL, !.e.strtab = {},
                   !.e.shdr = NULL, !.e.phdr = NULL]

elf_load_all(s) ==
    LET A == elf_load_phdr(s)
        B == UNION {elf_load_shdr(t) : t \in {a \in A : a.e.phdr # NULL}}
        C == UNION {elf_load_strtab(t) : t \in {b \in B : b.e.shdr # NULL}}
        D == UNION {elf_load_symtab(t) : t \in {c \in C : c.e.strtab # {}}}
    IN  (UNION {elf_load_dsymtab(t) : t \in D})
        \cup {FreeTables(t) : t \in {a \in A : a.crashed = "no" /\ a.e.phdr = NULL}
                                     \cup {b \in B : b.crashed = "no" /\ b.e.shdr = NULL}
                                     \cup {c \in C : c.e.strtab = {}}}
        \cup {t \in A \cup B : t.crashed # "no"}

-----------------------------------------------------------------------------
(* The client *)

Now == [live |-> live, e |-> e, crashed |-> crashed]

Become(s) == live' = s.live /\ e' = s.e /\ crashed' = s.crashed

Calling ==
    /\ crashed = "no" /\ calls < MaxCalls
    /\ calls' = calls + 1

elf_init ==
    /\ crashed = "no"
    /\ initialized' = TRUE
    /\ UNCHANGED <<live, e, crashed, calls>>

\* The outcomes of elf_open: on a failure, what has been acquired is given back.
Opened(f) ==
    LET fd == Fresh("fd", 0)
        elf == Fresh("elf", 0)
        h == Fresh("handle", 0)
        all == Alloc(Now, {fd, elf, h})
    IN  {Now, Free(Alloc(Now, {fd}), {fd})}
        \cup IF ~initialized THEN {}
             ELSE {Free(Alloc(Now, {fd, elf}), {fd, elf})}
                  \cup IF f.class \notin {1, 2} THEN {Free(all, {fd, elf, h})}
                       ELSE IF ~f.ehdr THEN {[all EXCEPT !.crashed = "header"]}
                       ELSE {[all EXCEPT !.e =
                                [block |-> h, fd |-> fd, elf |-> elf, file |-> f,
                                 phdr |-> NULL, shdr |-> NULL,
                                 zero |-> [type |-> "other", link |-> 0],
                                 strtab |-> {}, sym |-> NULL, dsym |-> NULL]]}

elf_open ==
    /\ Calling /\ e = NULL
    /\ \E f \in Files : \E s \in Opened(f) : Become(s)
    /\ UNCHANGED initialized

\* Mutant: the descriptor stays open.
ClosedOpen(s) ==
    [Free(FreeTables(s), {s.e.elf, s.e.block}) EXCEPT !.e = NULL]

Closed(s) ==
    [Free(FreeTables(s), {s.e.elf, s.e.fd, s.e.block}) EXCEPT !.e = NULL]

elf_close ==
    /\ Calling
    /\ Become(IF e = NULL THEN Now ELSE Closed(Now))
    /\ UNCHANGED initialized

Loads == elf_load_phdr(Now) \cup elf_load_shdr(Now) \cup elf_load_strtab(Now)
         \cup elf_load_symtab(Now) \cup elf_load_dsymtab(Now)

LoadOne ==
    /\ Calling /\ e # NULL
    /\ \E s \in Loads : Become(s)
    /\ UNCHANGED initialized

LoadAll ==
    /\ Calling /\ e # NULL
    /\ \E s \in elf_load_all(Now) : Become(s)
    /\ UNCHANGED initialized

Init ==
    /\ live = {} /\ e = NULL /\ crashed = "no"
    /\ initialized = FALSE
    /\ calls = 0

Next == elf_init \/ elf_open \/ elf_close \/ LoadOne \/ LoadAll

Spec == Init /\ [][Next]_vars

-----------------------------------------------------------------------------
(* Properties *)

TypeOK ==
    /\ live \subseteq Block
    /\ e \in Handle \cup {NULL}
    /\ crashed \in {"no", "header", "memory"}
    /\ initialized \in BOOLEAN
    /\ calls \in 0 .. MaxCalls

\* What a handle owns.
SymOwned(t) == IF t = NULL THEN {} ELSE {t.block, t.symbols}
Owned(x) == IF x = NULL THEN {}
            ELSE {x.block, x.fd, x.elf} \cup Ptr(x.phdr) \cup Ptr(x.shdr) \cup TabPtrs(x.strtab)
                 \cup SymOwned(x.sym) \cup SymOwned(x.dsym)

\* No sequence of calls and failures frees or reads a block that is not held any more.
MemorySafe == crashed # "memory"

\* What a handle lets go unfreed: the symbols of a symbol table it closes or fails to read,
\* and the string table in hand when loading fails.  Descriptors, handles, headers and
\* symbol tables never leak, however elf_open and elf_load_all fail.
Leaky == {"symbols", "tab", "data"}
OnlyTablesLeak == crashed = "no" => \A b \in live \ Owned(e) : b.kind \in Leaky

\* If the entry nobody fills in does not look like a table, the symbols are those of the
\* file's first section of their type, and their names are in the string table that this
\* section links to, which is loaded.
RightSymbols(x, f, type) ==
    LET S == x.file.sect
        i == x[f].sect
    IN  /\ i \in 1 .. Len(S) /\ S[i].type = type
        /\ \A j \in 1 .. i - 1 : S[j].type # type
        /\ S[i].link \in 1 .. Len(S) /\ S[S[i].link].type = "strtab"
           => \E t \in x.strtab : /\ t.id = S[i].link /\ x[f].strtab = t.node
                                  /\ {t.node, t.data} \subseteq live
SymbolsRight == crashed = "no" /\ e # NULL /\ e.zero.type = "other" =>
    /\ e.sym # NULL => RightSymbols(e, "sym", "symtab")
    /\ e.dsym # NULL => RightSymbols(e, "dsym", "dynsym")

\* A table that a load has returned stays where it is until the handle is closed or
\* elf_load_all fails, and then none is left: no other call drops one, whatever fails in it.
Kept(x, y) == /\ x.phdr # NULL => y.phdr = x.phdr
              /\ x.shdr # NULL => y.shdr = x.shdr /\ y.zero = x.zero
              /\ x.strtab # {} => y.strtab = x.strtab
              /\ x.sym # NULL => y.sym = x.sym
              /\ x.dsym # NULL => y.dsym = x.dsym
Bare(y) == y.phdr = NULL /\ y.shdr = NULL /\ y.strtab = {} /\ y.sym = NULL /\ y.dsym = NULL
KeptOrDropped == [][e # NULL /\ e' # NULL => Kept(e, e') \/ (LoadAll /\ Bare(e'))]_vars

-----------------------------------------------------------------------------
(* The inductive invariant *)

\* Each field holds a block of its own kind.
Kinds(x) ==
    /\ x.block.kind = "handle" /\ x.fd.kind = "fd" /\ x.elf.kind = "elf"
    /\ x.phdr # NULL => x.phdr.kind = "phdr"
    /\ x.shdr # NULL => x.shdr.kind = "shdr"
    /\ \A t \in x.strtab : t.node.kind = "tab" /\ t.data.kind = "data"

\* A symbol table is that of the first section of its type, and its names are where the
\* search has found them.
SymOK(x, f, type) == x[f] # NULL =>
    /\ x[f].block.kind = "sym" /\ x[f].symbols.kind = "symbols"
    /\ x[f].block.sect = x[f].sect
    /\ x[f].sect \in First(OfType(x, type))
    /\ x[f].strtab \in Search(x, x[f].sect)
    /\ x.strtab # {}

\* The string tables are those of the loaded headers.
Listed(x) == x.strtab # {} => x.shdr # NULL /\ {t.id : t \in x.strtab} = OfType(x, "strtab")

HandleOK(x) == Kinds(x) /\ Listed(x) /\ SymOK(x, "sym", "symtab") /\ SymOK(x, "dsym", "dynsym")

Good(s) ==
    /\ s \in State /\ s.crashed # "memory"
    /\ Owned(s.e) \subseteq s.live
    /\ s.crashed = "no" => \A b \in s.live \ Owned(s.e) : b.kind \in Leaky
    /\ s.e # NULL => HandleOK(s.e)

\* Every call finds and leaves a handle in order.
ElfInv == TypeOK /\ Good(Now)
=============================================================================
