------------------------------ MODULE Recovery ------------------------------
(***************************************************************************)
(* RecoveryManager (recovery.py): reconciliation of a durable record with  *)
(* what CLN and the Bitcoin backend report, by a separate jm-lightning     *)
(* recover process.  The journal's lifetime lock excludes it while an      *)
(* operation is live.                                                      *)
(***************************************************************************)
EXTENDS Reservations

VARIABLES
  flock,     \* holder of the journal's lifetime lock
  rcv,       \* where the recover process is
  rtodo      \* recorded coins it still has to release

recoveryVars == <<flock, rcv, rtodo>>

LockHolders == {"none", "op", "recovery"}

RecoveryInit == flock = "none" /\ rcv = "off" /\ rtodo = {}

\* ChannelFundingStatus, and what _bitcoin_has_transaction() may answer.
FundingStatus == {"BROADCAST", "WITHHELD", "ABSENT"}

BitcoinAnswers == {"yes", "no", "unknown"}

\* reconcile_all(): acquire_lifetime(nonblocking) or RecoveryJournalBusyError.
RecoverBegin ==
  /\ flock = "none" /\ rec.present
  /\ flock' = "recovery" /\ rcv' = "check"
  /\ UNCHANGED <<resVars, rtodo>>

(***************************************************************************)
(* _reconcile(): a recorded transaction must be provably unknown to the    *)
(* Bitcoin backend, and CLN must report no funding at all.                 *)
(***************************************************************************)
SafelyAbsent(bitcoin, status) ==
  /\ rec.txid => bitcoin = "no"
  /\ status = "ABSENT"

TokensComplete == rec.outs = rec.owners

RecoverDecides(bitcoin, status) ==
  /\ rcv = "check" /\ SafelyAbsent(bitcoin, status) /\ TokensComplete
  /\ rcv' = "release" /\ rtodo' = rec.owners
  /\ UNCHANGED <<resVars, flock>>

\* The record stays: not safely absent, or an owner token is missing.
RecoverKeeps(bitcoin, status) ==
  /\ rcv = "check" /\ ~(SafelyAbsent(bitcoin, status) /\ TokensComplete)
  /\ rcv' = "off" /\ flock' = "none"
  /\ UNCHANGED <<resVars, rtodo>>

RecoverReleases(c) ==
  /\ rcv = "release" /\ c \in rtodo
  /\ rec' = BeforeMutation(rec, "recovery_release", rec.phase, rec.outs,
                           rec.owners, rec.txid)
  /\ ReleaseIfOwned(c)
  /\ rtodo' = rtodo \ {c}
  /\ UNCHANGED <<held, thrVars, flock, rcv>>

RecoverResolves ==
  /\ rcv = "release" /\ rtodo = {}
  /\ rec' = ResolveRecord(rec)
  /\ rcv' = "off" /\ flock' = "none"
  /\ UNCHANGED <<lease, held, released, thrVars, rtodo>>

\* A crash, or an RPC or wallet error out of reconcile_all().
RecoverAborts ==
  /\ rcv # "off"
  /\ rcv' = "off" /\ flock' = "none" /\ rtodo' = {}
  /\ UNCHANGED resVars
=============================================================================
