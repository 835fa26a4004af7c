------------------------------ MODULE MCSplice ------------------------------
(***************************************************************************)
(* Small instances of Splice for TLC, and a statement of the repository's  *)
(* README that a splice-out does not keep.                                 *)
(***************************************************************************)
EXTENDS Splice, TLC

Symmetry == Permutations(Coins)

\* Every point of the try block but the one right after the wallet has reserved
\* a coin, and before `locked` has it.
Interruptible == TryBlock \ {"own"}

\* README.md:437: an ambiguous CLN outcome is left in recovery "rather than
\* assuming the splice was abandoned", before STARTED as well.
AmbiguousRecorded ==
  [][op = "out" /\ Live /\ rec.present /\ ~rec'.present =>
       cln = "none" \/ (cln = "signed" /\ lc.phase = "signed")]_SpliceVars
=============================================================================
