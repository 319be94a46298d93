---------------------------- MODULE MCMiniErrno -----------------------------
(***************************************************************************)
(* Module MiniErrno for TLC: EINTR, which a write may return, and          *)
(* ENAMETOOLONG, which has no message.                                     *)
(***************************************************************************)
EXTENDS MiniErrno
=============================================================================
