------------------------------- MODULE Splice -------------------------------
(***************************************************************************)
(* One run of the splice command is one of the two operations, splice-in   *)
(* or splice-out, over the same journal, lifecycle and CLN.                *)
(***************************************************************************)
EXTENDS SpliceIn

VARIABLES
  op,       \* which operation this is
  pays      \* of a splice-out: whether the PSBT pays the approved output

\* A splice-out is interrupted where it awaits.
Out == INSTANCE SpliceOut WITH InterruptAt <- {"plan"}

SpliceVars == <<vars, op, pays>>

SpliceInit ==
  \/ op = "in" /\ Init /\ pays = FALSE
  \/ op = "out" /\ Out!Init

SpliceNext ==
  /\ UNCHANGED op
  /\ \/ op = "in" /\ Next /\ UNCHANGED pays
     \/ op = "out" /\ Out!Next

SpliceSpec == SpliceInit /\ [][SpliceNext]_SpliceVars

\* Recovery finds what it needs, in any crash.  Of a splice-in, CLN holds our
\* signature only while the transaction id is durable, or success is reported
\* (splice.py:663); of a splice-out, which journals its id late (1121), neither
\* the operation nor recovery loses the record while the outcome is open.
SpliceRecorded ==
  /\ op = "in" => HandOffRecorded
  /\ op = "out" => Out!InflightRecorded

\* CLN is only asked to sign a splice-out that pays the approved amount to the
\* approved address, although every update may replace the PSBT (splice.py:1043-1068).
PaysDestination == op = "out" => Out!PaysDestination

\* Once it has STARTED, an operation drops its record only when CLN has no
\* splice of it left, or when the splice is signed (lifecycle.py:120-130): no
\* other way out of the update loop.
DroppedWhenOver ==
  [][Live /\ lc.phase \in {"started", "updated", "signed"}
       /\ rec.present /\ ~rec'.present =>
       cln = "none" \/ (cln = "signed" /\ lc.phase = "signed")]_SpliceVars
=============================================================================
