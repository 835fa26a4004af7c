----------------------------- MODULE CallAnswers ----------------------------
(***************************************************************************)
(* What the plugin promises the two sides of each intercepted call.        *)
(* PeerSwap gets at most one answer, and the watcher of the client that    *)
(* worked on the call gets at most one verdict, which is true and stays    *)
(* true: "completed" when PeerSwap has the result, and "cancelled" only    *)
(* when it does not have it and never will.                                *)
(***************************************************************************)
CONSTANT Requests        \* the intercepted calls

VARIABLES
  answer,    \* what PeerSwap has received
  verdict    \* what the cancellation watcher has been told

Init ==
  /\ answer = [r \in Requests |-> "nothing"]
  /\ verdict = [r \in Requests |-> "nothing"]

Answer(r, what) ==
  /\ answer[r] = "nothing"
  /\ what = "result" => verdict[r] # "cancelled"
  /\ answer' = [answer EXCEPT ![r] = what]

Judge(r, what) ==
  /\ verdict[r] = "nothing"
  /\ what = "completed" <=> answer'[r] = "result"
  /\ verdict' = [verdict EXCEPT ![r] = what]

Next ==
  \E r \in Requests :
    \/ \E what \in {"result", "error"} : Answer(r, what) /\ UNCHANGED verdict
    \/ \E what \in {"completed", "cancelled"} : UNCHANGED answer /\ Judge(r, what)
    \/ Answer(r, "result") /\ Judge(r, "completed")

Spec == Init /\ [][Next]_<<answer, verdict>>
=============================================================================
