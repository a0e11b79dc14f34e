---------------------------- MODULE NativeClaim ----------------------------
(***************************************************************************)
(* operator/src/daemon/native-claim-coordinator.ts: how an operator's worker*)
(* claims one task.  The intent is durable before the wallet is called; the *)
(* outcome is whatever the canonical reader (claimCanonical in              *)
(* native-base-sepolia-infrastructure.ts) finds on chain, read again after  *)
(* every failure and restart.  A worker needs the worker lease to admit,    *)
(* reconcile or broadcast.                                                  *)
(*                                                                          *)
(* Data.  One engagement and its claim operation; the transactions are the  *)
(* ones the Safe broadcaster sends for it, numbered.  A block is named by   *)
(* the inclusion that made it, so it stands for hash and number.  Cards are *)
(* the announcements of the task, all with the same sealed inputs.          *)
(***************************************************************************)
EXTENDS Integers, Sequences, FiniteSets

CONSTANTS
  Workers,     \* process incarnations: a restart is another worker
  Cards,       \* bound: announcements of the task
  MaxTx,       \* bound: transactions sent
  MaxFaults    \* bound: how many of the conditions in met are met

ASSUME ClaimAssumption ==
  /\ Cards \in Nat /\ MaxTx \in Nat /\ MaxFaults \in Nat
  /\ << >> \notin Workers   \* no owner of a lease is taken for none

VARIABLES
  log,        \* canonical claim transactions of this operator and task
  finals,     \* how many of them are finalized
  displaced,  \* what reorganisations removed from log
  pool,       \* sent and not mined
  txs, blocks, \* transactions sent and inclusions so far
  closed,     \* claimTask reverts from now on
  lease,      \* native_worker_leases: the owner of a lease that has not expired
  cards,      \* announcements not yet acknowledged
  op,         \* native_operations: the claim operation
  eng,        \* native_engagements
  loc,        \* the local variables of each worker
  faults,     \* history: how many faults happened
  met         \* history: which, as far as a guarantee depends on them

chainVars == <<log, finals, displaced, pool, txs, blocks, closed>>
rowVars   == <<lease, cards, op, eng>>
history   == <<faults, met>>
vars      == <<chainVars, rowVars, loc, history>>

NoWorker == <<>>
NoEntry  == [tx |-> 0, block |-> 0, ok |-> FALSE, attempt |-> 0]
NoIndex  == -1
NoOp     == [status |-> "none", tx |-> 0, block |-> 0]
NoEng    == [state |-> "none", attempt |-> NoIndex]
Intent   == [status |-> "intent", tx |-> 0, block |-> 0]
New      == [pc |-> "new", tx |-> 0, event |-> NoEntry, sent |-> 0, first |-> TRUE]

Terminal == {"finalized", "failed-terminal"}

Init ==
  /\ log = << >> /\ finals = 0 /\ displaced = {} /\ pool = {}
  /\ txs = 0 /\ blocks = 0 /\ closed = FALSE
  /\ lease = NoWorker /\ cards = Cards
  /\ op = NoOp /\ eng = NoEng
  /\ loc = [w \in Workers |-> New]
  /\ faults = 0 /\ met = {}

\* Conditions the guarantees are stated under: a broadcast whose outcome its
\* worker does not learn ("untracked"), a lease that runs out while its owner
\* works ("lapsed"), a reorganisation of a claim ("reorg"), a replica that
\* lags ("lag"), a replica that serves a displaced fork as the canonical one
\* ("stale"), a task closed or filled by others ("closed").
Fault(name) == faults < MaxFaults /\ faults' = faults + 1 /\ met' = met \cup {name}
FaultIf(condition, name) == IF condition THEN Fault(name) ELSE UNCHANGED history

-----------------------------------------------------------------------------
(* The chain.                                                               *)

Position(e) == {i \in 1..Len(log) : log[i] = e}
Holding     == {i \in 1..Len(log) : log[i].ok}

\* claimTask numbers the attempts in the order of the chain.
Include(tx) ==
  /\ tx \in pool
  /\ pool' = pool \ {tx}
  /\ blocks' = blocks + 1
  /\ log' = Append(log, [tx |-> tx, block |-> blocks + 1, ok |-> ~closed,
                         attempt |-> Cardinality(Holding)])
  /\ UNCHANGED <<finals, displaced, txs, closed, rowVars, loc, history>>

\* Displaced transactions go back to the pool.
Reorg ==
  /\ \E keep \in finals..(Len(log) - 1) :
       /\ log' = SubSeq(log, 1, keep)
       /\ displaced' = displaced \cup {log[i] : i \in (keep + 1)..Len(log)}
       /\ pool' = pool \cup {log[i].tx : i \in (keep + 1)..Len(log)}
  /\ Fault("reorg")
  /\ UNCHANGED <<finals, txs, blocks, closed, rowVars, loc>>

Finalize ==
  /\ \E n \in (finals + 1)..Len(log) : finals' = n
  /\ UNCHANGED <<log, displaced, pool, txs, blocks, closed, rowVars, loc, history>>

Close ==
  /\ ~closed
  /\ closed' = TRUE
  /\ Fault("closed")
  /\ UNCHANGED <<log, finals, displaced, pool, txs, blocks, rowVars, loc>>

-----------------------------------------------------------------------------
(* The lease and the worker's life.                                         *)

At(w, here) == loc[w].pc = here
Goto(w, there) == loc' = [loc EXCEPT ![w].pc = there]
\* The call returns or throws, or the process ends: its locals are gone.
Leave(w, there) == loc' = [loc EXCEPT ![w] = [New EXCEPT !.pc = there]]

\* requireLiveWorker: renew, or take a lease that has expired.
Live(w) == lease \in {w, NoWorker}

StartWorker(w) ==
  /\ At(w, "new") /\ lease = NoWorker
  /\ lease' = w
  /\ Leave(w, "idle")
  /\ UNCHANGED <<chainVars, cards, op, eng, history>>

\* The operator keeps a worker to start.
Replaceable(w) == \E v \in Workers \ {w} : ~At(v, "gone")

StopWorker(w) ==
  /\ At(w, "idle") /\ Replaceable(w)
  /\ lease' = IF lease = w THEN NoWorker ELSE lease
  /\ Leave(w, "gone")
  /\ UNCHANGED <<chainVars, cards, op, eng, history>>

Crash(w) ==
  /\ Replaceable(w)
  /\ ~At(w, "new") /\ ~At(w, "gone")
  /\ Leave(w, "gone")
  /\ FaultIf(loc[w].pc \in {"send", "sending"}, "untracked")
  /\ UNCHANGED <<chainVars, rowVars>>

Lapse ==
  /\ lease # NoWorker
  /\ lease' = NoWorker
  /\ FaultIf(loc[lease].pc \notin {"idle", "gone"}, "lapsed")
  /\ UNCHANGED <<chainVars, cards, op, eng, loc>>

-----------------------------------------------------------------------------
(* process() and reconcileStartup() up to the first read of the chain.      *)

\* The head of drive(): an orphaned operation is prepared for a retry.
Drive(w, o) ==
  LET kept == IF o.status = "orphaned" THEN Intent ELSE o IN
  /\ op' = kept
  /\ loc' = [loc EXCEPT ![w] = [New EXCEPT !.pc = IF o.status \in Terminal THEN "idle" ELSE "read",
                                           !.tx = kept.tx]]

Process(w) ==
  /\ At(w, "idle") /\ cards > 0 /\ Live(w)
  /\ lease' = w
  /\ Goto(w, "admit")
  /\ UNCHANGED <<chainVars, cards, op, eng, history>>

\* recordDecision: the card is acknowledged, the engagement and its intent
\* are inserted once, in one transaction.  A card that another worker admitted
\* meanwhile is a duplicate, and its operation is driven on.
Admit(w) ==
  /\ At(w, "admit") /\ (cards > 0 \/ op # NoOp)
  /\ cards' = IF cards > 0 THEN cards - 1 ELSE 0
  /\ Drive(w, IF op = NoOp THEN Intent ELSE op)
  /\ eng' = IF op = NoOp \/ op.status = "orphaned"
             THEN [eng EXCEPT !.state = "claim-pending"] ELSE eng
  /\ UNCHANGED <<chainVars, lease, history>>

\* A refusal acknowledges the card; a deferral, or a card that another worker
\* refused meanwhile, changes nothing.
Decline(w) ==
  /\ At(w, "admit")
  /\ cards' \in {cards, IF cards > 0 THEN cards - 1 ELSE 0}
  /\ Leave(w, "idle")
  /\ UNCHANGED <<chainVars, lease, op, eng, history>>

ReconcileStartup(w) ==
  /\ At(w, "idle") /\ Live(w)
  /\ op # NoOp /\ op.status \notin Terminal
  /\ lease' = w
  /\ Drive(w, op)
  /\ eng' = IF op.status = "orphaned" THEN [eng EXCEPT !.state = "claim-pending"] ELSE eng
  /\ UNCHANGED <<chainVars, cards, history>>

-----------------------------------------------------------------------------
(* The transactions of native-operator-state.ts.  Each checks the status it *)
(* finds; a refused one throws, and the tick ends there.                    *)

Throws == UNCHANGED <<op, eng>>

RecordBroadcast(tx) ==
  IF op.status \in {"intent", "broadcast"} /\ (tx = 0 \/ op.tx \in {0, tx})
  THEN /\ op' = [op EXCEPT !.status = "broadcast", !.tx = IF tx = 0 THEN @ ELSE tx]
       /\ UNCHANGED eng
  ELSE Throws

RecordReplacement(prior, tx) ==
  IF op.status \in {"broadcast", "replaced"} /\ op.tx = prior
  THEN op' = [op EXCEPT !.status = "replaced", !.tx = tx] /\ UNCHANGED eng
  ELSE Throws

\* recordClaimCanonical and validateClaimObservation.
RecordCanonical(e, final) ==
  IF /\ op.status \in {"broadcast", "replaced", "observed-safe"}
                        \cup (IF final THEN {"intent", "finalized"} ELSE {})
     /\ op.tx \in {0, e.tx} /\ op.block \in {0, e.block}
     /\ eng.attempt \in {NoIndex, e.attempt}
  THEN /\ op' = [status |-> IF final THEN "finalized" ELSE "observed-safe",
                 tx |-> e.tx, block |-> e.block]
       /\ eng' = [state |-> IF final THEN "claim-finalized" ELSE "claim-pending",
                  attempt |-> e.attempt]
  ELSE Throws

\* Mutant: an orphaned claim keeps its attempt.
RecordOrphaned_KeepsAttempt(tx) ==
  IF op.status \notin Terminal /\ op.tx \in {0, tx}
  THEN /\ op' = [op EXCEPT !.status = "orphaned", !.tx = tx]
       /\ eng' = [eng EXCEPT !.state = "eligible"]
  ELSE Throws

RecordOrphaned(tx) ==
  IF op.status \notin Terminal /\ op.tx \in {0, tx}
  THEN /\ op' = [op EXCEPT !.status = "orphaned", !.tx = tx]
       /\ eng' = [state |-> "eligible", attempt |-> NoIndex]
  ELSE Throws

RecordLost ==
  IF op.status # "finalized"
  THEN /\ op' = [op EXCEPT !.status = "failed-terminal"]
       /\ eng' = [state |-> "lost", attempt |-> NoIndex]
  ELSE Throws

-----------------------------------------------------------------------------
(* claimCanonical.read() and applyCanonical().                              *)

\* The events a replica serves: all of them, or what it has yet.
Served == 0..Len(log)

\* The last claim among the first n.
Latest(n) ==
  LET seen == {i \in Holding : i <= n} IN
  IF seen = {} THEN NoEntry ELSE log[CHOOSE i \in seen : \A j \in seen : j <= i]

\* Another transaction than the recorded one is reported at once as its
\* replacement.
TakeEvent(w, event) ==
  LET known == loc[w].tx IN
  IF event # NoEntry /\ known \notin {0, event.tx}
  THEN RecordReplacement(known, event.tx) /\ Leave(w, "idle")
  ELSE /\ loc' = [loc EXCEPT ![w].event = event,
                             ![w].pc = IF event # NoEntry THEN "check"
                                       ELSE IF known = 0 THEN "absent" ELSE "receipt"]
       /\ UNCHANGED <<op, eng>>

\* getContractEvents: the last claim of this operator.
ReadEvents(w) ==
  /\ At(w, "read")
  /\ \/ \E n \in Served : TakeEvent(w, Latest(n)) /\ FaultIf(n < Len(log), "lag")
     \/ \E e \in displaced : e.ok /\ TakeEvent(w, e) /\ Fault("stale")
  /\ UNCHANGED <<chainVars, lease, cards>>

\* Mutant: the event is final without a look at its block.
CheckBlock_Unchecked(w) ==
  /\ At(w, "check")
  /\ RecordCanonical(loc[w].event, TRUE)
  /\ Leave(w, "idle")
  /\ UNCHANGED <<chainVars, lease, cards, history>>

\* canonicalTransactionBlock of the event: canonical and final, canonical, or
\* displaced.  A replica that lags has an older finalized head, or not the
\* block.  The block and the finalized head are two reads: one may be answered
\* by a replica that is still on a displaced fork, the other by one that is not.
CheckBlock(w) ==
  LET e == loc[w].event IN
  /\ At(w, "check")
  /\ \/ Position(e) = {} /\ RecordOrphaned(e.tx) /\ UNCHANGED history
     \/ \E i \in Position(e) : i <= finals /\ RecordCanonical(e, TRUE) /\ UNCHANGED history
     \/ \E i \in Position(e) : RecordCanonical(e, FALSE) /\ FaultIf(i <= finals, "lag")
     \/ Throws /\ Fault("lag")
     \/ /\ Position(e) = {} /\ Fault("stale")
        /\ \E final \in BOOLEAN : RecordCanonical(e, final)
     \/ displaced # {} /\ RecordOrphaned(e.tx) /\ Fault("stale")
  /\ Leave(w, "idle")
  /\ UNCHANGED <<chainVars, lease, cards>>

\* No event for a recorded transaction: its receipt decides.  A receipt that
\* was displaced since, or that no provider has, is possible too, and so is a
\* replica that takes the displaced block for canonical or the other way round.
ReadReceipt(w) ==
  LET tx    == loc[w].tx
      mined == \E i \in 1..Len(log) : log[i].tx = tx
      gone  == \E e \in displaced : e.tx = tx IN
  /\ At(w, "receipt")
  /\ \/ mined /\ RecordLost /\ UNCHANGED history
     \/ gone /\ RecordOrphaned(tx) /\ UNCHANGED history
     \/ RecordBroadcast(tx) /\ FaultIf(mined, "lag")
     \/ gone /\ RecordLost /\ Fault("stale")
     \/ mined /\ displaced # {} /\ RecordOrphaned(tx) /\ Fault("stale")
  /\ Leave(w, "idle")
  /\ UNCHANGED <<chainVars, lease, cards>>

\* requireLiveWorker and the call of the broadcaster, in one turn.  A refused
\* lease is caught and recorded like a broadcast of unknown outcome.
AfterAbsent(w) ==
  IF Live(w)
  THEN lease' = w /\ op' = Intent /\ Goto(w, "send")
  ELSE op' = [Intent EXCEPT !.status = "broadcast"] /\ Leave(w, "idle") /\ UNCHANGED lease

\* Mutant: only an intent is broadcast again.
Absent_IntentOnly(w) ==
  /\ At(w, "absent")
  /\ IF op.status = "intent" THEN AfterAbsent(w)
     ELSE Leave(w, "idle") /\ UNCHANGED <<op, lease>>
  /\ UNCHANGED <<chainVars, cards, eng, history>>

\* recordClaimAbsent, and the broadcast on the first read of a drive.
Absent(w) ==
  /\ At(w, "absent")
  /\ IF op.status \notin {"intent", "broadcast", "replaced"}
     THEN Leave(w, "idle") /\ UNCHANGED <<op, lease>>
     ELSE IF loc[w].first THEN AfterAbsent(w)
     ELSE op' = Intent /\ Leave(w, "idle") /\ UNCHANGED lease
  /\ UNCHANGED <<chainVars, cards, eng, history>>

-----------------------------------------------------------------------------
(* claim.broadcast(): claimTask through the Safe broadcaster.               *)

Send(w) ==
  /\ At(w, "send") /\ ~closed /\ txs < MaxTx
  /\ txs' = txs + 1
  /\ pool' = pool \cup {txs + 1}
  /\ loc' = [loc EXCEPT ![w].pc = "sending", ![w].sent = txs + 1]
  /\ UNCHANGED <<log, finals, displaced, blocks, closed, rowVars, history>>

\* The answer to a submission that was mined is lost: the broadcaster's retry
\* loop signs and sends again.
Resend(w) ==
  /\ At(w, "sending") /\ ~closed /\ txs < MaxTx /\ Fault("untracked")
  /\ \E i \in 1..Len(log) : log[i].tx = loc[w].sent
  /\ txs' = txs + 1
  /\ pool' = pool \cup {txs + 1}
  /\ loc' = [loc EXCEPT ![w].sent = txs + 1]
  /\ UNCHANGED <<log, finals, displaced, blocks, closed, rowVars>>

\* The simulation reverts, or nothing reaches a node.
SendFails(w) ==
  /\ At(w, "send")
  /\ RecordBroadcast(0)
  /\ Leave(w, "idle")
  /\ UNCHANGED <<chainVars, lease, cards, history>>

\* Mutant: the hash of the receipt is not recorded.
Receipt_HashDropped(w) ==
  /\ At(w, "sending")
  /\ \E i \in Holding : log[i].tx = loc[w].sent
  /\ RecordBroadcast(0)
  /\ Leave(w, "idle")
  /\ UNCHANGED <<chainVars, lease, cards, history>>

\* The receipt carries a TaskAttemptCreated: its hash is recorded and the
\* chain read once more.
Receipt(w) ==
  /\ At(w, "sending")
  /\ \E i \in Holding : log[i].tx = loc[w].sent
  /\ RecordBroadcast(loc[w].sent)
  /\ LET recorded == op.status \in {"intent", "broadcast"} /\ op.tx \in {0, loc[w].sent} IN
     loc' = [loc EXCEPT ![w] = [New EXCEPT !.pc = IF recorded THEN "read" ELSE "idle",
                                           !.tx = loc[w].sent, !.first = FALSE]]
  /\ UNCHANGED <<chainVars, lease, cards, history>>

\* The receipt reverts: claimTask throws.
Reverted(w) ==
  /\ At(w, "sending")
  /\ \E i \in 1..Len(log) : log[i].tx = loc[w].sent /\ ~log[i].ok
  /\ RecordBroadcast(0)
  /\ Leave(w, "idle")
  /\ UNCHANGED <<chainVars, lease, cards, history>>

\* The caller gets an error while the transaction is on its way, or mined.
AnswerLost(w) ==
  /\ At(w, "sending") /\ Fault("untracked")
  /\ RecordBroadcast(0)
  /\ Leave(w, "idle")
  /\ UNCHANGED <<chainVars, lease, cards>>

-----------------------------------------------------------------------------
WorkerStep(w) ==
  \/ Process(w) \/ Admit(w) \/ ReconcileStartup(w)
  \/ ReadEvents(w) \/ CheckBlock(w) \/ ReadReceipt(w) \/ Absent(w) \/ Receipt(w)

Next ==
  \/ \E tx \in pool : Include(tx)
  \/ Reorg \/ Finalize \/ Close \/ Lapse
  \/ \E w \in Workers : \/ StartWorker(w) \/ StopWorker(w) \/ Crash(w) \/ Decline(w)
                         \/ WorkerStep(w) \/ Send(w) \/ Resend(w) \/ SendFails(w) \/ Reverted(w) \/ AnswerLost(w)

\* The chain includes and finalizes; a worker that is up keeps ticking, and
\* every tick ends with reconcileStartup; a new worker starts when the lease
\* is free; sending succeeds now and then.
Spec == /\ Init /\ [][Next]_vars
        /\ \A n \in 1..MaxTx : WF_vars(Include(n))
        /\ WF_vars(Finalize) /\ WF_vars(lease # NoWorker /\ At(lease, "gone") /\ Lapse)
        /\ \A w \in Workers :
             /\ WF_vars(StartWorker(w)) /\ WF_vars(WorkerStep(w))
             /\ SF_vars(ReconcileStartup(w)) /\ SF_vars(Send(w))
             /\ WF_vars(Decline(w)) /\ WF_vars(SendFails(w)) /\ WF_vars(Reverted(w))

-----------------------------------------------------------------------------
\* A claim recorded as final is an attempt on the finalized chain, in the
\* recorded block and under the recorded index: execution never starts on a
\* claim that a reorganisation can still take away.  (No replica passes off a
\* displaced block as canonical.)
FinalizedIsHeld ==
  op.status = "finalized" /\ "stale" \notin met =>
    \E i \in 1..finals : log[i] = [tx |-> op.tx, block |-> op.block, ok |-> TRUE,
                                   attempt |-> eng.attempt]

\* The engagement names an attempt exactly while its operation stands on an
\* observation of the chain, whichever worker wrote last.
AttemptIsObserved ==
  /\ eng.attempt # NoIndex <=> op.status \in {"observed-safe", "finalized"}
  /\ eng.state = "claim-finalized" <=> op.status = "finalized"

\* Every broadcast that was sent was answered while its worker held the lease,
\* and no claim was displaced.
Tracked == met \cap {"untracked", "lapsed", "reorg"} = {}

\* The operator holds at most one attempt of the task, although any worker may
\* die or be replaced, replicas lag and broadcasts fail.
OneAttempt == Tracked => Cardinality(Holding) <= 1

\* Every admitted claim is finalized or given up in the end, also when replicas
\* lag, workers are replaced and broadcasts fail.  (The task stays open.)
ClaimSettles ==
  (op # NoOp) ~> (op.status \in Terminal \/ ~Tracked \/ "closed" \in met)
=============================================================================
