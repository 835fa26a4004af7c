------------------------- MODULE MCMultiOpenChannel -------------------------
(***************************************************************************)
(* Small instances of MultiOpenChannel for TLC.                            *)
(***************************************************************************)
EXTENDS MultiOpenChannel, TLC

Symmetry == Permutations(Coins) \union Permutations(Peers)

\* Every point of the try block but those at which the operation has started
\* some fundings and does not keep the inputs yet, where only a second Ctrl-C
\* can surface.
Interruptible == TryBlock \ {"start", "withdraw"}

\* A channel that CLN reports as no longer withheld is never cancelled
\* (cln.py:559-562: "never attempt to cancel or reuse inputs").
BroadcastNotCancelled ==
  pc = "withdraw" => \A p \in Peers : states[p] # "BROADCAST"
=============================================================================
