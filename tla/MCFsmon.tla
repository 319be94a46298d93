------------------------------ MODULE MCFsmon -------------------------------
(***************************************************************************)
(* Module Fsmon for TLC: two texts, the shorter of which may follow.       *)
(***************************************************************************)
EXTENDS Fsmon

MCTexts == {<<1>>, <<2, 3>>}

\* Threads are alike, and so are files.
Alike == Permutations(Threads) \cup Permutations(Names)
=============================================================================
