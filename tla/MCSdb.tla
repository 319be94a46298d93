------------------------------- MODULE MCSdb --------------------------------
(***************************************************************************)
(* Small programs for module Sdb: a few instructions of one or two bytes,  *)
(* a jump back, and an end.  mov and jmp are two bytes, nop and ret one.   *)
(***************************************************************************)
EXTENDS Sdb

\*   0 mov   2 mov   4 mov   6 nop, back to 0 or on   7 ret
MCInsn == {0, 2, 4, 6, 7}
MCLength == [o \in MCInsn |-> IF o \in {6, 7} THEN 1 ELSE 2]
LoopSucc == [o \in MCInsn |->
    CASE o = 0 -> {2} [] o = 2 -> {4} [] o = 4 -> {6} [] o = 6 -> {0, 7} [] o = 7 -> {}]
\* The same program without the jump back: it always ends.
LineSucc == [LoopSucc EXCEPT ![6] = {7}]

\* A shorter one for the user who tries everything:  0 mov, to itself or on   2 ret
TinyInsn == {0, 2}
TinyLength == [o \in TinyInsn |-> IF o = 0 THEN 2 ELSE 1]
TinySucc == [o \in TinyInsn |-> CASE o = 0 -> {0, 2} [] o = 2 -> {}]
=============================================================================
