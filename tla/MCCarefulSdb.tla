---------------------------- MODULE MCCarefulSdb ----------------------------
(***************************************************************************)
(* The small programs of MCSdb for module CarefulSdb.                      *)
(***************************************************************************)
EXTENDS CarefulSdb, MCSdb
=============================================================================
