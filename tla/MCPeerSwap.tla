----------------------------- MODULE MCPeerSwap -----------------------------
(***************************************************************************)
(* Small instances of PeerSwap for TLC, and statements of the repository   *)
(* that the code does not keep: TLC refutes each of them.                  *)
(***************************************************************************)
EXTENDS PeerSwap, TLC

Symmetry == Permutations(Coins) \union Permutations(Txs)

\* One send: prepared, sent, discarded.
OneSend == {"txprepare", "txsend", "txdiscard"} \X Txs

\* Several transactions, each prepared and sent.
PrepareAndSend == {"txprepare", "txsend"} \X Txs

\* PeerSwap repeats a send it has not had an answer to.
TwoSends == {"txprepare", "txsend", "txsend again"} \X Txs

\* peerswap.py:444-446: "Let the backend call finish before the operation is
\* allowed to clean up its prepared state."
CleanupWaits == \A q \in Requests : bc[q] = "flight" => given[q[2]] = {}

\* README.md:913: "a successful broadcast is terminal and releases the
\* JoinMarket locks".
SendUnlocks ==
  \A q \in Requests : q[1] \in Sends /\ out[q] = "ok" => lease[q[2]] = {}
=============================================================================
