------------------------------ MODULE Journal ------------------------------
(***************************************************************************)
(* One record of the durable RecoveryJournal (recovery.py).  A write       *)
(* replaces the file atomically, so each operator below is the durable     *)
(* record after one write.  The fields a record needs for reconciliation:  *)
(*   outs    locked_outpoints                                              *)
(*   owners  the outpoints that have an owner token (one generation each)  *)
(*   txid    whether the transaction id has been recorded                  *)
(* The PSBT is written with the transaction id and adds nothing to it.     *)
(***************************************************************************)

Records(coins, phases, actions) ==
  [present : BOOLEAN, phase : phases, action : actions,
   outs : SUBSET coins, owners : SUBSET coins, txid : BOOLEAN]

NoRecord == [present |-> FALSE, phase |-> "none", action |-> "none",
             outs |-> {}, owners |-> {}, txid |-> FALSE]

\* create()
CreateRecord == [present |-> TRUE, phase |-> "prestart", action |-> "none",
                 outs |-> {}, owners |-> {}, txid |-> FALSE]

(***************************************************************************)
(* before_mutation(): phase, action, outpoints and owner tokens are always *)
(* written; a caller without a transaction id leaves the recorded one.     *)
(***************************************************************************)
BeforeMutation(r, action, phase, outs, owners, txid) ==
  [r EXCEPT !.phase = phase, !.action = action, !.outs = outs,
            !.owners = owners, !.txid = @ \/ txid]

\* Mutant: a writer that knows no transaction id clears the recorded one.
MutAfterMutation(r, phase, txid) ==
  [r EXCEPT !.phase = phase, !.action = "none", !.txid = txid]

\* after_mutation(): the mutation is no longer pending.
AfterMutation(r, phase, txid) ==
  [r EXCEPT !.phase = phase, !.action = "none", !.txid = @ \/ txid]

\* resolve()
ResolveRecord(r) == NoRecord
=============================================================================
