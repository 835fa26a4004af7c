---------------------------- MODULE MCRendezvous ----------------------------
(***************************************************************************)
(* Small instances of Rendezvous for TLC.                                  *)
(***************************************************************************)
EXTENDS Rendezvous, TLC

\* Requests and worker calls are interchangeable (safety runs only).
Symmetry == Permutations(Requests) \union Permutations(Calls)
=============================================================================
