--------------------------- MODULE MCReconcileAll ---------------------------
(***************************************************************************)
(* Small instances of ReconcileAll for TLC.                                *)
(***************************************************************************)
EXTENDS ReconcileAll, TLC

Symmetry == Permutations(Coins) \union Permutations(Peers)
=============================================================================
