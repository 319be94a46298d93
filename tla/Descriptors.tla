---------------------------- MODULE Descriptors -----------------------------
(***************************************************************************)
(* What a program does to its own descriptor table, with no monitor        *)
(* preloaded: one open, close, dup or dup2 at a time, each new descriptor  *)
(* the lowest that is free.  Module Fsmon, with the log's descriptors      *)
(* taken away, must show nothing else; the numbers they have for the       *)
(* moment are taken, as they would be by a file of any other library.      *)
(***************************************************************************)
EXTENDS Naturals
CONSTANTS Fds, Names, Free
VARIABLE table

\* The descriptor a call gets when those in taken are not to be had: none if all are used.
Available(taken) == {d \in Fds \ taken : table[d] = Free}
LowestOf(taken) == {d \in Available(taken) : \A e \in Available(taken) : d <= e}

\* open fails for want of a descriptor or for any other reason, dup only for want of one
\* or of a file to duplicate, dup2 and close only for the latter.
Open(n, taken) == \/ \E d \in LowestOf(taken) : table' = [table EXCEPT ![d] = n]
                  \/ UNCHANGED table
Close(d) == table' = [table EXCEPT ![d] = Free]
Dup(d, taken) == IF table[d] = Free \/ Available(taken) = {}
                 THEN UNCHANGED table
                 ELSE \E e \in LowestOf(taken) : table' = [table EXCEPT ![e] = table[d]]
Dup2(d, e) == IF table[d] = Free THEN UNCHANGED table
              ELSE table' = [table EXCEPT ![e] = table[d]]

Next(taken) == \/ \E n \in Names : Open(n, taken)
               \/ \E d \in Fds : Close(d) \/ Dup(d, taken)
               \/ \E d, e \in Fds : Dup2(d, e)
=============================================================================
