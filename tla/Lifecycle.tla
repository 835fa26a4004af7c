----------------------------- MODULE Lifecycle -----------------------------
(***************************************************************************)
(* The bookkeeping every operation shares: OperationLifecycle of           *)
(* operations/lifecycle.py.  Pure definitions: the lifecycle of a running  *)
(* operation is a record that the operation modules keep in a variable.    *)
(***************************************************************************)

Phases == {"prestart", "locked", "started", "withheld", "updated", "signed",
           "prepared", "broadcast", "discarded"}

(***************************************************************************)
(* The table of transition(): anything else raises ValueError.             *)
(***************************************************************************)
AllowedTransitions ==
  [p \in Phases |->
     CASE p = "prestart"  -> {"locked", "started"}
       [] p = "locked"    -> {"locked", "started", "withheld", "broadcast"}
       [] p = "started"   -> {"locked", "started", "withheld", "updated",
                              "signed", "broadcast"}
       [] p = "withheld"  -> {"locked", "broadcast"}
       [] p = "updated"   -> {"started", "signed"}
       [] p = "signed"    -> {"signed", "broadcast"}
       [] p = "prepared"  -> {"prepared", "broadcast", "discarded"}
       [] p = "broadcast" -> {"broadcast"}
       [] p = "discarded" -> {"discarded"}]

\* "errors" stands for a non-empty cleanup_errors list.
Lifecycles == [phase : Phases, release : BOOLEAN, errors : BOOLEAN]

NewLifecycle == [phase |-> "prestart", release |-> TRUE, errors |-> FALSE]

Transition(lc, p) == [lc EXCEPT !.phase = p]

KeepLocks(lc) == [lc EXCEPT !.release = FALSE]

ReleaseLocks(lc) == [lc EXCEPT !.release = TRUE]

CleanupFailed(lc) == [lc EXCEPT !.errors = TRUE]

(***************************************************************************)
(* resolve_if_clean(): when the durable record may be dropped.             *)
(***************************************************************************)
ResolvableIfClean(lc, terminal) ==
  ~lc.errors /\ (lc.release \/ lc.phase = terminal)
=============================================================================
