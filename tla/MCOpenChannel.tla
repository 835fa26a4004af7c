--------------------------- MODULE MCOpenChannel ---------------------------
(***************************************************************************)
(* Small instances of OpenChannel for TLC, and statements of the           *)
(* repository's documentation that the code does not keep: TLC refutes     *)
(* each of them with the constants named in the README.                    *)
(***************************************************************************)
EXTENDS OpenChannel

\* The await points of the try block, where a first Ctrl-C surfaces.
Awaits == {"plan", "prep"}

\* A second one raises KeyboardInterrupt anywhere in it; right after the wallet
\* has reserved a coin, and before `locked` has it, nothing accounts for it.
Interruptible == TryBlock \ {"own"}

\* open_channel.py:550-553: the operation that takes a lost sendpsbt for
\* successful does so because "CLN confirms funding transaction {} was
\* broadcast".
SuccessIsBroadcast == lc.phase = "broadcast" => broadcast

\* open_channel.py:351-353: once fundchannel_start has succeeded, "Never unlock
\* JoinMarket inputs while that operation may still exist."
LiveFundingKeepsInputs ==
  [][Live /\ released' # released => cln \notin {"started", "withheld"}]_vars

\* README.md:550: "A record is not released when ... CLN still has a live or
\* withheld funding state".
RecoveryKeepsLiveFunding ==
  [][rcv = "release" /\ rec.txid /\ released' # released
       => cln \notin {"started", "withheld"}]_vars

\* recovery.py:127-130: the thread lock is there so that the renewal worker does
\* not overwrite a newer record.  While an RPC runs, the record names it.
PendingCallRecorded ==
  pc \in {"complete", "sendpsbt"} /\ stage = "rpc" => rec.action = pc

\* recovery.py:501-506: a record has an owner token for each locked outpoint.
TokensRecorded == rcv = "check" => TokensComplete

\* README.md:539: an operation that ended in an ambiguous state retains its
\* JoinMarket locks, in particular while CLN withholds the signed transaction.
AmbiguousKeepsInputs ==
  pc = "done" /\ cln = "withheld" => rec.owners \subseteq Leased

\* README.md:1295: the reservation record is not silently lost.  (ResolvedClean
\* after a failed journal write.)
ReservationNotForgotten ==
  ~rec.present /\ pc # "idle" => lc.phase = "broadcast" \/ Leased = {}
=============================================================================
