------------------------------ MODULE LogView ------------------------------
(***************************************************************************)
(* The contract of a ChainLogBatch, seen from its consumer: a reorganised   *)
(* batch makes the consumer drop what it holds above                        *)
(* canonicalRebuildBoundary, every batch adds its logs.                     *)
(***************************************************************************)
EXTENDS ChainLogSource

VARIABLES
  view,    \* the blocks whose logs the consumer holds as canonical
  told,    \* history: every block whose log was ever handed over
  origin   \* history: the block the first poll started at

vars == <<logVars, view, told, origin>>

Init == LogInit /\ view = {} /\ told = {} /\ origin = 0

\* The consumer takes the batch poll() returned.
Take ==
  /\ batch # NoBatch
  /\ view' = (IF batch.reorg THEN {b \in view : b[1] <= batch.finalized[1]} ELSE view)
                \cup batch.logs
  /\ told' = told \cup batch.logs
  /\ origin' = IF origin = 0 THEN batch.finalized[1] ELSE origin
  /\ batch' = NoBatch
  /\ UNCHANGED <<chainVars, rowVars, poll, faults, met>>

Next == \/ (ChainNext \/ PollStep \/ PollFails) /\ UNCHANGED <<view, told, origin>>
        \/ Take

\* The chain grows and becomes final, and the loop keeps polling.
Spec == /\ Init /\ [][Next]_vars
        /\ WF_vars(Mine /\ UNCHANGED <<view, told, origin>>)
        /\ WF_vars(Finalize /\ UNCHANGED <<view, told, origin>>)
        /\ WF_vars(PollStep /\ UNCHANGED <<view, told, origin>>)
        /\ WF_vars(Take)

-----------------------------------------------------------------------------
AtRest == poll.pc = "idle" /\ batch = NoBatch /\ Polled

\* The durable checkpoint is a block that can no longer be displaced, so
\* everything at or below it may be pruned.
CheckpointCanonical ==
  Polled => OnChain(row.finalized) /\ row.finalized[1] <= fin

\* When the cursor is a canonical block, the consumer holds exactly the logs
\* of the canonical chain from the first block polled up to the cursor:
\* poll() skipped none and left none of an abandoned fork behind.  (No change
\* became final before a poll saw it; the chain did not both change under a
\* poll and come back to a fork it had left.)
ViewMatchesChain ==
  /\ AtRest /\ OnChain(row.live)
  /\ "passed" \notin met /\ ~({"torn", "returned"} \subseteq met)
  => view = {At(h) : h \in origin..row.live[1]}

\* When the cursor is a canonical block, every block that was handed over and
\* is no longer canonical has been reported as displaced: the announcements
\* made from it can be retracted.  (The chain changed between polls only, and
\* no change became final before a poll saw it.)
DisplacedReported ==
  AtRest /\ OnChain(row.live) /\ met \cap {"passed", "torn"} = {} =>
    \A b \in told : OnChain(b) \/ b \in orphans

\* Once the chain stops changing, polling brings the cursor to its head.
CatchesUp == <>[](Polled /\ row.live = Latest)
=============================================================================
