--------------------------- MODULE MCChildProcess ---------------------------
(***************************************************************************)
(* Small instances of ChildProcess for TLC.                                *)
(***************************************************************************)
EXTENDS ChildProcess
=============================================================================
