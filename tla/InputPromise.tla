---------------------------- MODULE InputPromise ----------------------------
(***************************************************************************)
(* What a funding operation promises about the JoinMarket inputs of its    *)
(* transaction, whatever happens in between: they are given back only      *)
(* while no signed transaction exists that could still spend them, and a   *)
(* transaction is never handed over once they have been given back.        *)
(***************************************************************************)
VARIABLES
  funding,   \* the signed transaction: not handed over, withheld, or sent
  back       \* whether any input has been given back to the wallet

Init == funding = "none" /\ back = FALSE

HandOver == ~back /\ funding = "none" /\ funding' = "withheld" /\ UNCHANGED back

Send == ~back /\ funding \in {"none", "withheld"} /\ funding' = "sent" /\ UNCHANGED back

\* The hand-over is cancelled, or forgotten by the receiver.
Withdraw == funding = "withheld" /\ funding' = "none" /\ UNCHANGED back

GiveBack == funding = "none" /\ back' = TRUE /\ UNCHANGED funding

Next == HandOver \/ Send \/ Withdraw \/ GiveBack

Spec == Init /\ [][Next]_<<funding, back>>
=============================================================================
