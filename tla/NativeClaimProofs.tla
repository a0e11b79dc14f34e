------------------------- MODULE NativeClaimProofs --------------------------
(***************************************************************************)
(* Theorems about an operator's claim of a task: what is recorded as final *)
(* is held on the finalized chain, the engagement names an attempt exactly *)
(* while its operation stands on an observation, and the operator never    *)
(* holds two attempts.                                                     *)
(***************************************************************************)
EXTENDS NativeClaim, SequenceTheorems, FiniteSetTheorems, WellFoundedInduction, TLAPS

Entries   == [tx : Nat, block : Nat, ok : BOOLEAN, attempt : Nat]
Statuses  == {"none", "intent", "broadcast", "replaced", "observed-safe",
              "orphaned"} \cup Terminal
OpType    == [status : Statuses, tx : Nat, block : Nat]
EngType   == [state : {"none", "eligible", "claim-pending", "claim-finalized", "lost"},
              attempt : Int]
Places    == {"new", "idle", "gone", "admit", "read", "check", "receipt",
              "absent", "send", "sending"}
LocalType == [pc : Places, tx : Nat, event : Entries, sent : Nat, first : BOOLEAN]

ChainOK ==
  /\ log \in Seq(Entries) /\ finals \in Nat /\ finals <= Len(log)
  /\ displaced \subseteq Entries
  /\ txs \in Nat /\ blocks \in Nat /\ closed \in BOOLEAN
  /\ pool \subseteq 1..txs
  /\ \A i \in 1..Len(log) : log[i].tx \in 1..txs

RowsOK ==
  /\ lease \in Workers \cup {NoWorker}
  /\ op \in OpType /\ eng \in EngType
  /\ loc \in [Workers -> LocalType]

TypeOK == ChainOK /\ RowsOK

\* The event a worker is about to check is a claim that succeeded.
CheckedIsOk == \A w \in Workers : At(w, "check") => loc[w].event.ok

ClaimInv == TypeOK /\ CheckedIsOk /\ AttemptIsObserved /\ FinalizedIsHeld
-----------------------------------------------------------------------------
(* The rows *)

\* The ways a step changes the operation and the engagement.
Admits == /\ op.status \in {"none", "orphaned"}
          /\ op' = Intent /\ eng' = [eng EXCEPT !.state = "claim-pending"]
Observes == \E e \in Entries, final \in BOOLEAN :
              /\ e.ok /\ RecordCanonical(e, final)
              /\ final /\ "stale" \notin met' => \E i \in 1..finals : log[i] = e
Records == \/ RecordLost
           \/ \E tx \in Nat : RecordBroadcast(tx) \/ RecordOrphaned(tx)
           \/ \E tx \in Nat, prior \in Nat : RecordReplacement(prior, tx)
Retries == /\ op.status \in {"intent", "broadcast", "replaced"}
           /\ op' \in {Intent, [Intent EXCEPT !.status = "broadcast"]}
           /\ UNCHANGED eng
RowMove == Throws \/ Admits \/ Observes \/ Records \/ Retries

\* The number of attempts held is a number.
LEMMA HoldingType ==
  ASSUME TypeOK
  PROVE  Cardinality(Holding) \in Nat
<1>1. IsFiniteSet(1..Len(log))
  BY FS_Interval DEF TypeOK, ChainOK
<1>2. IsFiniteSet(Holding)
  BY <1>1, FS_Subset DEF Holding
<1> QED BY <1>2, FS_CardinalityType

\* Whatever a step does to the rows, the engagement goes on to name an attempt
\* exactly while its operation stands on an observation.
LEMMA RowMoveKeeps ==
  ASSUME TypeOK, AttemptIsObserved, RowMove
  PROVE  op' \in OpType /\ eng' \in EngType /\ AttemptIsObserved'
<1>1. op \in OpType /\ eng \in EngType
  BY DEF TypeOK, RowsOK
<1> USE <1>1 DEF OpType, EngType, Statuses, Terminal, AttemptIsObserved, NoIndex
<1>2. CASE Throws
  BY <1>2 DEF Throws
<1>3. CASE Admits
  BY <1>3 DEF Admits, Intent
<1>4. CASE Observes
  <2>1. PICK e \in Entries, final \in BOOLEAN : RecordCanonical(e, final)
    BY <1>4 DEF Observes
  <2> QED BY <2>1 DEF RecordCanonical, Throws, Entries
<1>5. CASE Records
  <2>1. CASE RecordLost
    BY <2>1 DEF RecordLost, Throws
  <2>2. ASSUME NEW tx \in Nat, RecordBroadcast(tx)
        PROVE  op' \in OpType /\ eng' \in EngType /\ AttemptIsObserved'
    BY <2>2 DEF RecordBroadcast, Throws
  <2>3. ASSUME NEW tx \in Nat, RecordOrphaned(tx)
        PROVE  op' \in OpType /\ eng' \in EngType /\ AttemptIsObserved'
    <3>1. CASE UNCHANGED <<op, eng>>
      BY <3>1
    <3>2. CASE /\ op' = [op EXCEPT !.status = "orphaned", !.tx = tx]
               /\ eng' = [state |-> "eligible", attempt |-> NoIndex]
      <4>1. op'.status = "orphaned" /\ op' \in OpType
        BY <2>3, <3>2
      <4>2. eng' \in EngType /\ eng'.attempt = NoIndex /\ eng'.state = "eligible"
        BY <3>2
      <4> QED BY <4>1, <4>2
    <3> QED BY <2>3, <3>1, <3>2 DEF RecordOrphaned, Throws
  <2>4. ASSUME NEW tx \in Nat, NEW prior \in Nat, RecordReplacement(prior, tx)
        PROVE  op' \in OpType /\ eng' \in EngType /\ AttemptIsObserved'
    BY <2>4 DEF RecordReplacement, Throws
  <2> QED BY <1>5, <2>1, <2>2, <2>3, <2>4 DEF Records
<1>6. CASE Retries
  BY <1>6 DEF Retries, Intent
<1> QED BY <1>2, <1>3, <1>4, <1>5, <1>6 DEF RowMove

\* What is recorded as final is held, whatever a step does to the rows.
LEMMA RowMoveHolds ==
  ASSUME TypeOK, FinalizedIsHeld, RowMove, log' = log, finals' = finals, met \subseteq met'
  PROVE  FinalizedIsHeld'
<1>1. /\ op \in OpType /\ eng \in EngType
      /\ log \in Seq(Entries) /\ finals \in Nat /\ finals <= Len(log)
  BY DEF TypeOK, RowsOK, ChainOK
<1>2. SUFFICES ASSUME "stale" \notin met' PROVE FinalizedIsHeld'
  BY DEF FinalizedIsHeld
<1>3. CASE op' = op /\ eng' = eng
  BY <1>2, <1>3 DEF FinalizedIsHeld
<1>4. CASE op'.status # "finalized"
  BY <1>4 DEF FinalizedIsHeld
<1>5. CASE Observes
  <2>1. PICK e \in Entries, final \in BOOLEAN :
               /\ e.ok /\ RecordCanonical(e, final)
               /\ final => \E i \in 1..finals : log[i] = e
    BY <1>2, <1>5 DEF Observes
  <2>2. CASE op'.status = "finalized" /\ ~(op' = op /\ eng' = eng)
    <3>1. /\ op' = [status |-> "finalized", tx |-> e.tx, block |-> e.block]
          /\ eng'.attempt = e.attempt /\ final
      BY <2>1, <2>2 DEF RecordCanonical, Throws
    <3>2. e = [tx |-> e.tx, block |-> e.block, ok |-> TRUE, attempt |-> e.attempt]
      BY <2>1 DEF Entries
    <3>3. PICK i \in 1..finals : log[i] = e
      BY <2>1, <3>1
    <3> QED BY <3>1, <3>2, <3>3 DEF FinalizedIsHeld
  <2> QED BY <1>3, <1>4, <2>2
<1>6. CASE Admits \/ Retries
  BY <1>4, <1>6 DEF Admits, Retries, Intent
<1>7. CASE Records
  <2>1. CASE RecordLost
    BY <1>1, <1>3, <1>4, <2>1 DEF RecordLost, Throws, OpType
  <2>2. ASSUME NEW tx \in Nat, RecordBroadcast(tx) PROVE FinalizedIsHeld'
    BY <1>1, <1>3, <1>4, <2>2 DEF RecordBroadcast, Throws, OpType
  <2>3. ASSUME NEW tx \in Nat, RecordOrphaned(tx) PROVE FinalizedIsHeld'
    BY <1>1, <1>3, <1>4, <2>3 DEF RecordOrphaned, Throws, OpType
  <2>4. ASSUME NEW tx \in Nat, NEW prior \in Nat, RecordReplacement(prior, tx)
        PROVE  FinalizedIsHeld'
    BY <1>1, <1>3, <1>4, <2>4 DEF RecordReplacement, Throws, OpType
  <2> QED BY <1>7, <2>1, <2>2, <2>3, <2>4 DEF Records
<1> QED BY <1>3, <1>5, <1>6, <1>7 DEF RowMove, Throws

-----------------------------------------------------------------------------
(* A worker *)

\* Everything a worker does other than Send leaves the chain alone; what it
\* records of the chain is there, and it checks only claims that succeeded.
ActsOnRows ==
  /\ UNCHANGED chainVars /\ met \subseteq met'
  /\ RowMove
  /\ lease' \in Workers \cup {NoWorker}
  /\ loc' \in [Workers -> LocalType]
  /\ CheckedIsOk'

\* The local variables of a worker are its own.
LEMMA LocalMove ==
  ASSUME TypeOK, CheckedIsOk, NEW w \in Workers, NEW l \in LocalType,
         loc' = [loc EXCEPT ![w] = l], l.pc = "check" => l.event.ok
  PROVE  loc' \in [Workers -> LocalType] /\ CheckedIsOk'
<1>1. loc \in [Workers -> LocalType]
  BY DEF TypeOK, RowsOK
<1>2. loc' \in [Workers -> LocalType]
  BY <1>1
<1>3. \A v \in Workers : loc'[v] = IF v = w THEN l ELSE loc[v]
  BY <1>1
<1> QED BY <1>2, <1>3 DEF CheckedIsOk, At

\* A worker that returns, throws or dies, and one that goes on elsewhere.
LEMMA LeaveMove ==
  ASSUME TypeOK, CheckedIsOk, NEW w \in Workers,
         NEW there \in Places \ {"check"}, Leave(w, there) \/ Goto(w, there)
  PROVE  loc' \in [Workers -> LocalType] /\ CheckedIsOk'
<1>1. loc[w] \in LocalType /\ loc \in [Workers -> LocalType]
  BY DEF TypeOK, RowsOK
<1>2. CASE Leave(w, there)
  <2> DEFINE l == [New EXCEPT !.pc = there]
  <2>1. l \in LocalType /\ l.pc = there
    BY DEF LocalType, New, Places, NoEntry, Entries
  <2>2. loc' = [loc EXCEPT ![w] = l]
    BY <1>2 DEF Leave
  <2> HIDE DEF l
  <2> QED BY <2>1, <2>2, LocalMove
<1>3. CASE Goto(w, there)
  <2> DEFINE l == [loc[w] EXCEPT !.pc = there]
  <2>1. l \in LocalType /\ l.pc = there
    BY <1>1 DEF LocalType
  <2>2. loc' = [loc EXCEPT ![w] = l]
    BY <1>3 DEF Goto
  <2> HIDE DEF l
  <2> QED BY <2>1, <2>2, LocalMove
<1> QED BY <1>2, <1>3

\* drive() keeps an operation or prepares an orphaned one for its retry.
LEMMA DriveMove ==
  ASSUME TypeOK, CheckedIsOk, NEW w \in Workers, NEW o \in OpType, Drive(w, o)
  PROVE  /\ loc' \in [Workers -> LocalType] /\ CheckedIsOk'
         /\ op' = IF o.status = "orphaned" THEN Intent ELSE o
<1> DEFINE kept == IF o.status = "orphaned" THEN Intent ELSE o
           there == IF o.status \in Terminal THEN "idle" ELSE "read"
           l == [New EXCEPT !.pc = there, !.tx = kept.tx]
<1>1. op' = kept /\ loc' = [loc EXCEPT ![w] = l]
  BY DEF Drive
<1>2. kept.tx \in Nat
  BY DEF OpType, Intent
<1>3. l \in LocalType /\ l.pc # "check"
  BY <1>2 DEF LocalType, New, Places, NoEntry, Entries
<1> HIDE DEF l
<1>4. loc' \in [Workers -> LocalType] /\ CheckedIsOk'
  BY <1>1, <1>3, LocalMove
<1> QED BY <1>1, <1>4

\* The life of a worker.
LEMMA LifeActs ==
  ASSUME TypeOK, CheckedIsOk, NEW w \in Workers,
         StartWorker(w) \/ StopWorker(w) \/ Crash(w) \/ Process(w) \/ Decline(w)
  PROVE  ActsOnRows
<1>1. lease \in Workers \cup {NoWorker}
  BY DEF TypeOK, RowsOK
<1>2. UNCHANGED chainVars /\ UNCHANGED <<op, eng>>
  BY DEF StartWorker, StopWorker, Crash, Process, Decline, rowVars
<1>3. lease' \in Workers \cup {NoWorker}
  BY <1>1 DEF StartWorker, StopWorker, Crash, Process, Decline, rowVars
<1>4. \E there \in Places \ {"check"} : Leave(w, there) \/ Goto(w, there)
  BY DEF StartWorker, StopWorker, Crash, Process, Decline, Places
<1>5. loc' \in [Workers -> LocalType] /\ CheckedIsOk'
  BY <1>4, LeaveMove
<1>6. met \subseteq met'
  BY DEF StartWorker, StopWorker, Crash, Process, Decline, history, FaultIf, Fault
<1> QED BY <1>2, <1>3, <1>5, <1>6 DEF ActsOnRows, RowMove, Throws

\* A card is admitted, or a started worker takes up what it finds.
LEMMA AdmitActs ==
  ASSUME TypeOK, CheckedIsOk, NEW w \in Workers, Admit(w) \/ ReconcileStartup(w)
  PROVE  ActsOnRows
<1>1. op \in OpType /\ lease \in Workers \cup {NoWorker} /\ Intent \in OpType
  BY DEF TypeOK, RowsOK, Intent, OpType, Statuses
<1>2. UNCHANGED chainVars /\ met' = met /\ lease' \in Workers \cup {NoWorker}
  BY <1>1 DEF Admit, ReconcileStartup, history
<1>3. CASE Admit(w)
  <2> DEFINE o == IF op = NoOp THEN Intent ELSE op
  <2>1. o \in OpType /\ Drive(w, o)
    BY <1>1, <1>3 DEF Admit
  <2>2. /\ loc' \in [Workers -> LocalType] /\ CheckedIsOk'
        /\ op' = IF o.status = "orphaned" THEN Intent ELSE o
    BY <2>1, DriveMove
  <2>3. eng' = IF op = NoOp \/ op.status = "orphaned"
               THEN [eng EXCEPT !.state = "claim-pending"] ELSE eng
    BY <1>3 DEF Admit
  <2>4. Admits \/ Throws
    BY <2>2, <2>3 DEF Admits, Throws, NoOp, Intent
  <2> QED BY <1>2, <2>2, <2>4 DEF ActsOnRows, RowMove
<1>4. CASE ReconcileStartup(w)
  <2>1. Drive(w, op)
    BY <1>4 DEF ReconcileStartup
  <2>2. /\ loc' \in [Workers -> LocalType] /\ CheckedIsOk'
        /\ op' = IF op.status = "orphaned" THEN Intent ELSE op
    BY <1>1, <2>1, DriveMove
  <2>3. eng' = IF op.status = "orphaned"
               THEN [eng EXCEPT !.state = "claim-pending"] ELSE eng
    BY <1>4 DEF ReconcileStartup
  <2>4. Admits \/ Throws
    BY <2>2, <2>3 DEF Admits, Throws
  <2> QED BY <1>2, <2>2, <2>4 DEF ActsOnRows, RowMove
<1> QED BY <1>3, <1>4

\* A set of numbers with a bound has a largest one.
LEMMA LargestOf ==
  ASSUME NEW n \in Nat, NEW S, S \subseteq 0..n, S # {}
  PROVE  \E i \in S : \A j \in S : j <= i
<1> DEFINE R == OpToRel(<, Nat)
           U == {n - i : i \in S}
<1>1. U \subseteq Nat /\ U # {} /\ \A i \in S : n - i \in U
  <2>1. \A i \in S : n - i \in Nat
    OBVIOUS
  <2> QED BY <2>1
<1>2. IsWellFoundedOn(R, Nat)
  BY NatLessThanWellFounded
<1> HIDE DEF R, U
<1>3. PICK x \in U : \A y \in U : ~(<<y, x>> \in R)
  BY <1>1, <1>2, WFMin
<1>4. \A y \in U : ~(y < x)
  BY <1>1, <1>3 DEF R, OpToRel
<1>5. PICK i \in S : x = n - i
  BY DEF U
<1>6. ASSUME NEW j \in S PROVE j <= i
  <2>1. ~(n - j < n - i)
    BY <1>1, <1>4, <1>5
  <2> QED BY <2>1
<1> QED BY <1>6

\* What is served as the last claim is one that is held, or none.
LEMMA ServedEvent ==
  ASSUME TypeOK, NEW n \in Served
  PROVE  Latest(n) = NoEntry \/ \E i \in Holding : Latest(n) = log[i]
<1> DEFINE seen == {i \in Holding : i <= n}
<1>1. log \in Seq(Entries)
  BY DEF TypeOK, ChainOK
<1>2. CASE seen # {}
  <2>1. seen \subseteq 0..n /\ n \in Nat
    BY <1>1 DEF Holding, Served
  <2>2. \E i \in seen : \A j \in seen : j <= i
    <3> HIDE DEF seen
    <3> QED BY <1>2, <2>1, LargestOf
  <2>3. (CHOOSE i \in seen : \A j \in seen : j <= i) \in Holding
    BY <2>2
  <2> QED BY <1>2, <2>3 DEF Latest
<1> QED BY <1>2 DEF Latest

\* An event that is a claim that succeeded, or none, is recorded or looked into.
LEMMA TakeEventActs ==
  ASSUME TypeOK, CheckedIsOk, NEW w \in Workers, NEW event \in Entries,
         event # NoEntry => event.ok, TakeEvent(w, event)
  PROVE  RowMove /\ loc' \in [Workers -> LocalType] /\ CheckedIsOk'
<1> DEFINE known == loc[w].tx
<1>1. /\ loc \in [Workers -> LocalType] /\ loc[w] \in LocalType
      /\ known \in Nat /\ event.tx \in Nat
  BY DEF TypeOK, RowsOK, LocalType, Entries
<1>2. CASE event # NoEntry /\ known \notin {0, event.tx}
  <2>1. RecordReplacement(known, event.tx) /\ Leave(w, "idle")
    BY <1>2 DEF TakeEvent
  <2>2. loc' \in [Workers -> LocalType] /\ CheckedIsOk'
    BY <2>1, LeaveMove DEF Places
  <2> QED BY <1>1, <2>1, <2>2 DEF RowMove, Records
<1>3. CASE ~(event # NoEntry /\ known \notin {0, event.tx})
  <2> DEFINE there == IF event # NoEntry THEN "check"
                      ELSE IF known = 0 THEN "absent" ELSE "receipt"
             l == [loc[w] EXCEPT !.event = event, !.pc = there]
  <2>1. loc' = [loc EXCEPT ![w] = l] /\ UNCHANGED <<op, eng>>
    BY <1>1, <1>3 DEF TakeEvent
  <2>2. l \in LocalType /\ (l.pc = "check" => l.event.ok)
    BY <1>1 DEF LocalType, Places
  <2> HIDE DEF l
  <2>3. loc' \in [Workers -> LocalType] /\ CheckedIsOk'
    BY <2>1, <2>2, LocalMove
  <2> QED BY <2>1, <2>3 DEF RowMove, Throws
<1> QED BY <1>2, <1>3

\* getContractEvents serves a claim that succeeded, displaced or not, or none.
LEMMA ReadEventsActs ==
  ASSUME TypeOK, CheckedIsOk, NEW w \in Workers, ReadEvents(w)
  PROVE  ActsOnRows
<1>1. /\ log \in Seq(Entries) /\ displaced \subseteq Entries
      /\ lease \in Workers \cup {NoWorker}
  BY DEF TypeOK, ChainOK, RowsOK
<1>2. UNCHANGED chainVars /\ lease' = lease /\ met \subseteq met'
  BY DEF ReadEvents, FaultIf, Fault, history
<1>3. PICK event \in {Latest(n) : n \in Served} \cup {e \in displaced : e.ok} :
             TakeEvent(w, event)
  BY DEF ReadEvents
<1>4. event \in Entries /\ (event # NoEntry => event.ok)
  <2>1. ASSUME NEW n \in Served, event = Latest(n)
        PROVE  event \in Entries /\ (event # NoEntry => event.ok)
    <3>1. CASE event = NoEntry
      BY <3>1 DEF NoEntry, Entries
    <3>2. ASSUME NEW i \in Holding, event = log[i]
          PROVE  event \in Entries /\ event.ok
      BY <1>1, <3>2 DEF Holding
    <3> QED BY <2>1, <3>1, <3>2, ServedEvent
  <2> QED BY <1>1, <1>3, <2>1
<1>5. RowMove /\ loc' \in [Workers -> LocalType] /\ CheckedIsOk'
  BY <1>3, <1>4, TakeEventActs
<1> QED BY <1>1, <1>2, <1>5 DEF ActsOnRows

\* The event's block is compared with the canonical one, and recorded.
LEMMA CheckBlockActs ==
  ASSUME TypeOK, CheckedIsOk, NEW w \in Workers, CheckBlock(w)
  PROVE  ActsOnRows
<1> DEFINE e == loc[w].event
<1>1. /\ e \in Entries /\ e.tx \in Nat /\ lease \in Workers \cup {NoWorker}
      /\ log \in Seq(Entries) /\ finals \in Nat
  BY DEF TypeOK, RowsOK, ChainOK, LocalType, Entries
<1>2. e.ok
  BY DEF CheckBlock, CheckedIsOk
<1>3. UNCHANGED chainVars /\ lease' = lease /\ Leave(w, "idle") /\ met \subseteq met'
  BY DEF CheckBlock, FaultIf, Fault, history
<1>4. loc' \in [Workers -> LocalType] /\ CheckedIsOk'
  BY <1>3, LeaveMove DEF Places
<1>5. \/ RecordOrphaned(e.tx)
      \/ (\E i \in Position(e) : i <= finals) /\ RecordCanonical(e, TRUE)
      \/ RecordCanonical(e, FALSE)
      \/ "stale" \in met' /\ \E final \in BOOLEAN : RecordCanonical(e, final)
      \/ Throws
  BY DEF CheckBlock, Fault
<1> HIDE DEF e
<1>6. RowMove
  <2>1. CASE RecordOrphaned(e.tx)
    BY <1>1, <2>1 DEF RowMove, Records
  <2>2. ASSUME NEW i \in Position(e), i <= finals, RecordCanonical(e, TRUE)
        PROVE  RowMove
    <3>1. i \in 1..finals /\ log[i] = e
      BY <1>1, <2>2 DEF Position
    <3> QED BY <1>1, <1>2, <2>2, <3>1 DEF RowMove, Observes
  <2>3. CASE RecordCanonical(e, FALSE)
    BY <1>1, <1>2, <2>3 DEF RowMove, Observes
  <2>4. CASE "stale" \in met' /\ \E final \in BOOLEAN : RecordCanonical(e, final)
    BY <1>1, <1>2, <2>4 DEF RowMove, Observes
  <2> QED BY <1>5, <2>1, <2>2, <2>3, <2>4 DEF RowMove
<1> QED BY <1>1, <1>3, <1>4, <1>6 DEF ActsOnRows

\* No event, but a receipt: the claim was lost.
LEMMA ReadReceiptActs ==
  ASSUME TypeOK, CheckedIsOk, NEW w \in Workers, ReadReceipt(w)
  PROVE  ActsOnRows
<1>1. loc[w].tx \in Nat /\ lease \in Workers \cup {NoWorker}
  BY DEF TypeOK, RowsOK, LocalType
<1>2. UNCHANGED chainVars /\ lease' = lease /\ Leave(w, "idle") /\ met \subseteq met'
  BY DEF ReadReceipt, FaultIf, Fault, history
<1>3. loc' \in [Workers -> LocalType] /\ CheckedIsOk'
  BY <1>2, LeaveMove DEF Places
<1>4. Records
  BY <1>1 DEF ReadReceipt, Records
<1> QED BY <1>1, <1>2, <1>3, <1>4 DEF ActsOnRows, RowMove

\* Neither event nor receipt: the claim is tried again, or given up.
LEMMA AbsentActs ==
  ASSUME TypeOK, CheckedIsOk, NEW w \in Workers, Absent(w)
  PROVE  ActsOnRows
<1>1. lease \in Workers \cup {NoWorker}
  BY DEF TypeOK, RowsOK
<1>2. UNCHANGED chainVars /\ UNCHANGED eng /\ met' = met
  BY DEF Absent, history
<1>3. lease' \in Workers \cup {NoWorker}
  BY <1>1 DEF Absent, AfterAbsent
<1>4. \E there \in Places \ {"check"} : Leave(w, there) \/ Goto(w, there)
  BY DEF Absent, AfterAbsent, Places
<1>5. loc' \in [Workers -> LocalType] /\ CheckedIsOk'
  BY <1>4, LeaveMove
<1>6. Throws \/ Retries
  BY <1>2 DEF Absent, AfterAbsent, Throws, Retries
<1> QED BY <1>2, <1>3, <1>5, <1>6 DEF ActsOnRows, RowMove

\* The ways a broadcast ends.
LEMMA SendingActs ==
  ASSUME TypeOK, CheckedIsOk, NEW w \in Workers,
         SendFails(w) \/ Reverted(w) \/ AnswerLost(w) \/ Receipt(w)
  PROVE  ActsOnRows
<1>1. loc[w].sent \in Nat /\ lease \in Workers \cup {NoWorker}
  BY DEF TypeOK, RowsOK, LocalType
<1>2. UNCHANGED chainVars /\ lease' = lease /\ met \subseteq met'
  BY DEF SendFails, Reverted, AnswerLost, Receipt, Fault, history
<1>3. Records
  BY <1>1 DEF SendFails, Reverted, AnswerLost, Receipt, Records
<1>4. loc' \in [Workers -> LocalType] /\ CheckedIsOk'
  <2>1. CASE Leave(w, "idle")
    BY <2>1, LeaveMove DEF Places
  <2>2. CASE Receipt(w)
    <3> DEFINE recorded == op.status \in {"intent", "broadcast"} /\ op.tx \in {0, loc[w].sent}
               l == [New EXCEPT !.pc = IF recorded THEN "read" ELSE "idle",
                                !.tx = loc[w].sent, !.first = FALSE]
    <3>1. loc' = [loc EXCEPT ![w] = l]
      BY <2>2 DEF Receipt
    <3>2. l \in LocalType /\ l.pc # "check"
      BY <1>1 DEF LocalType, New, Places, NoEntry, Entries
    <3> HIDE DEF l
    <3> QED BY <3>1, <3>2, LocalMove
  <2> QED BY <2>1, <2>2 DEF SendFails, Reverted, AnswerLost
<1> QED BY <1>1, <1>2, <1>3, <1>4 DEF ActsOnRows, RowMove

-----------------------------------------------------------------------------
(* The chain *)

\* The finalized part of the chain only grows, so what is held there stays.
LEMMA HeldStays ==
  ASSUME TypeOK, FinalizedIsHeld, UNCHANGED <<op, eng>>, met \subseteq met',
         finals' \in Nat, finals <= finals',
         \A i \in 1..finals : log'[i] = log[i]
  PROVE  FinalizedIsHeld'
<1>1. finals \in Nat
  BY DEF TypeOK, ChainOK
<1>2. SUFFICES ASSUME op.status = "finalized", "stale" \notin met
               PROVE  FinalizedIsHeld'
  BY DEF FinalizedIsHeld
<1>3. PICK i \in 1..finals : log[i] = [tx |-> op.tx, block |-> op.block, ok |-> TRUE,
                                      attempt |-> eng.attempt]
  BY <1>2 DEF FinalizedIsHeld
<1>4. i \in 1..finals'
  BY <1>1
<1> QED BY <1>3, <1>4 DEF FinalizedIsHeld

\* A transaction is included, a suffix of the chain is displaced, or a prefix
\* of it becomes final.
LEMMA ChainMoves ==
  ASSUME TypeOK, (\E tx \in pool : Include(tx)) \/ Reorg \/ Finalize
  PROVE  /\ ChainOK'
         /\ finals <= finals' /\ \A i \in 1..finals : log'[i] = log[i]
         /\ UNCHANGED <<lease, op, eng, loc>> /\ met \subseteq met'
<1>1. /\ displaced \subseteq Entries /\ log \in Seq(Entries) /\ finals \in Nat /\ finals <= Len(log)
      /\ txs \in Nat /\ blocks \in Nat /\ closed \in BOOLEAN
      /\ pool \subseteq 1..txs
      /\ \A i \in 1..Len(log) : log[i].tx \in 1..txs /\ log[i] \in Entries
      /\ Len(log) \in Nat
  BY DEF TypeOK, ChainOK
<1>2. ASSUME NEW tx \in pool, Include(tx)
      PROVE  /\ ChainOK'
             /\ finals <= finals' /\ \A i \in 1..finals : log'[i] = log[i]
             /\ UNCHANGED <<lease, op, eng, loc>> /\ met \subseteq met'
  <2> DEFINE e == [tx |-> tx, block |-> blocks + 1, ok |-> ~closed,
                   attempt |-> Cardinality(Holding)]
  <2>1. /\ log' = Append(log, e) /\ pool' = pool \ {tx} /\ blocks' = blocks + 1
        /\ UNCHANGED <<displaced, finals, txs, closed, lease, op, eng, loc, met>>
    BY <1>2 DEF Include, rowVars, history
  <2>2. tx \in 1..txs /\ e \in Entries /\ e.tx = tx
    BY <1>1, HoldingType DEF Entries
  <2> HIDE DEF e
  <2>3. /\ log' \in Seq(Entries) /\ Len(log') = Len(log) + 1
        /\ \A i \in 1..Len(log) : log'[i] = log[i]
        /\ log'[Len(log) + 1] = e
    BY <1>1, <2>1, <2>2, AppendProperties
  <2>4. ASSUME NEW i \in 1..Len(log') PROVE log'[i].tx \in 1..txs
    <3>1. i \in 1..Len(log) \/ i = Len(log) + 1
      BY <1>1, <2>3
    <3> QED BY <1>1, <2>2, <2>3, <3>1
  <2>5. \A i \in 1..finals : i \in 1..Len(log)
    BY <1>1
  <2> QED BY <1>1, <2>1, <2>3, <2>4, <2>5 DEF ChainOK
<1>3. CASE Reorg
  <2>1. PICK keep \in finals..(Len(log) - 1) :
          /\ log' = SubSeq(log, 1, keep)
          /\ displaced' = displaced \cup {log[i] : i \in (keep + 1)..Len(log)}
          /\ pool' = pool \cup {log[i].tx : i \in (keep + 1)..Len(log)}
    BY <1>3 DEF Reorg
  <2>2. UNCHANGED <<finals, txs, blocks, closed, lease, op, eng, loc>> /\ met \subseteq met'
    BY <1>3 DEF Reorg, rowVars, Fault
  <2>3. keep \in Nat /\ finals <= keep /\ keep <= Len(log) /\ keep \in 0..Len(log)
    BY <1>1
  <2>4. /\ log' \in Seq(Entries) /\ Len(log') = keep
        /\ \A i \in 1..keep : log'[i] = log[i]
    <3>1. \A i \in 1..keep : log[i] \in Entries
      BY <1>1, <2>3
    <3> QED BY <1>1, <2>1, <2>3, <3>1, SubSeqProperties
  <2>5. \A i \in (keep + 1)..Len(log) : i \in 1..Len(log)
    BY <1>1, <2>3
  <2>6. pool' \subseteq 1..txs /\ displaced' \subseteq Entries
    BY <1>1, <2>1, <2>5
  <2>7. /\ \A i \in 1..keep : i \in 1..Len(log)
        /\ \A i \in 1..finals : i \in 1..keep
    BY <1>1, <2>3
  <2> QED BY <1>1, <2>2, <2>3, <2>4, <2>6, <2>7 DEF ChainOK
<1>4. CASE Finalize
  BY <1>1, <1>4 DEF Finalize, ChainOK, rowVars, history
<1> QED BY <1>2, <1>3, <1>4

\* A submission takes the next number and leaves the rest alone.
LEMMA SendMoves ==
  ASSUME TypeOK, CheckedIsOk, NEW w \in Workers, Send(w) \/ Resend(w)
  PROVE  /\ ChainOK' /\ loc' \in [Workers -> LocalType] /\ CheckedIsOk'
         /\ UNCHANGED <<log, finals, lease, op, eng>> /\ met \subseteq met'
<1>1. /\ UNCHANGED <<log, displaced, finals, blocks, closed, lease, op, eng>>
      /\ met \subseteq met'
  BY DEF Send, Resend, rowVars, history, Fault
<1>2. pool' = pool \cup {txs + 1} /\ txs' = txs + 1
  BY DEF Send, Resend
<1>3. ChainOK'
  <2>1. /\ txs \in Nat /\ pool \subseteq 1..txs
        /\ \A i \in 1..Len(log) : log[i].tx \in 1..txs
    BY DEF TypeOK, ChainOK
  <2>2. 1..txs \subseteq 1..txs' /\ txs + 1 \in 1..txs' /\ txs' \in Nat
    BY <1>2, <2>1
  <2>3. pool' \subseteq 1..txs' /\ \A i \in 1..Len(log) : log[i].tx \in 1..txs'
    BY <1>2, <2>1, <2>2
  <2> QED BY <1>1, <2>2, <2>3 DEF TypeOK, ChainOK
<1> DEFINE l == [loc[w] EXCEPT !.pc = "sending", !.sent = txs + 1]
<1>4. loc' = [loc EXCEPT ![w] = l]
  <2>1. loc \in [Workers -> LocalType] /\ loc[w] \in LocalType
    BY DEF TypeOK, RowsOK
  <2>2. CASE Send(w)
    BY <2>1, <2>2 DEF Send
  <2>3. CASE Resend(w)
    <3>1. loc' = [loc EXCEPT ![w].sent = txs + 1] /\ loc[w].pc = "sending"
      BY <2>3 DEF Resend, At
    <3>2. [loc[w] EXCEPT !.sent = txs + 1] = l
      BY <2>1, <3>1 DEF LocalType
    <3> HIDE DEF l
    <3> QED BY <2>1, <3>1, <3>2
  <2> QED BY <2>2, <2>3
<1>5. l \in LocalType /\ l.pc # "check"
  <2>1. loc[w] \in LocalType /\ txs + 1 \in Nat
    BY DEF TypeOK, RowsOK, ChainOK
  <2> QED BY <2>1 DEF LocalType, Places
<1> HIDE DEF l
<1>6. loc' \in [Workers -> LocalType] /\ CheckedIsOk'
  BY <1>4, <1>5, LocalMove
<1> QED BY <1>1, <1>3, <1>6

-----------------------------------------------------------------------------
(* The inductive invariant *)

\* The first worker has not started.
LEMMA ClaimInit == Init => ClaimInv
<1> SUFFICES ASSUME Init PROVE ClaimInv
  OBVIOUS
<1>1. ChainOK
  <2>1. log = << >> /\ Len(log) = 0 /\ log \in Seq(Entries)
    BY EmptySeq DEF Init
  <2>2. \A i \in 1..Len(log) : FALSE
    BY <2>1
  <2>3. finals = 0 /\ txs = 0 /\ blocks = 0 /\ closed = FALSE /\ pool = {} /\ displaced = {}
    BY DEF Init
  <2>4. finals \in Nat /\ finals <= Len(log) /\ txs \in Nat /\ blocks \in Nat
    BY <2>1, <2>3
  <2>5. closed \in BOOLEAN /\ pool \subseteq 1..txs /\ displaced \subseteq Entries
    BY <2>3
  <2>6. \A i \in 1..Len(log) : log[i].tx \in 1..txs
    BY <2>2
  <2> QED BY <2>1, <2>4, <2>5, <2>6 DEF ChainOK
<1>2. New \in LocalType /\ NoOp \in OpType /\ NoEng \in EngType
  BY DEF New, LocalType, NoOp, OpType, NoEng, EngType, Places, Statuses,
     NoEntry, Entries, NoIndex
<1>3. RowsOK
  BY <1>2 DEF Init, RowsOK
<1>4. CheckedIsOk
  BY DEF Init, CheckedIsOk, At, New
<1>5. AttemptIsObserved /\ FinalizedIsHeld
  BY DEF Init, AttemptIsObserved, FinalizedIsHeld, NoOp, NoEng, NoIndex
<1> QED BY <1>1, <1>3, <1>4, <1>5 DEF ClaimInv, TypeOK

\* What a worker does on the rows keeps the invariant.
LEMMA ActsKeep ==
  ASSUME ClaimInv, ActsOnRows
  PROVE  ClaimInv'
<1>1. TypeOK /\ AttemptIsObserved /\ FinalizedIsHeld
  BY DEF ClaimInv
<1>2. /\ RowMove /\ log' = log /\ finals' = finals /\ met \subseteq met'
      /\ UNCHANGED <<log, displaced, finals, pool, txs, blocks, closed>>
  BY DEF ActsOnRows, chainVars
<1>3. op' \in OpType /\ eng' \in EngType /\ AttemptIsObserved'
  BY <1>1, <1>2, RowMoveKeeps
<1>4. FinalizedIsHeld'
  BY <1>1, <1>2, RowMoveHolds
<1>5. ChainOK'
  BY <1>1, <1>2 DEF TypeOK, ChainOK
<1>6. RowsOK' /\ CheckedIsOk'
  BY <1>3 DEF RowsOK, ActsOnRows
<1> QED BY <1>3, <1>4, <1>5, <1>6 DEF ClaimInv, TypeOK

\* Every step keeps the rows and what was read.
LEMMA ClaimNext == ClaimInv /\ [Next]_vars => ClaimInv'
<1> SUFFICES ASSUME ClaimInv, [Next]_vars PROVE ClaimInv'
  OBVIOUS
<1>1. TypeOK /\ CheckedIsOk /\ AttemptIsObserved /\ FinalizedIsHeld
  BY DEF ClaimInv
<1>2. CASE (\E tx \in pool : Include(tx)) \/ Reorg \/ Finalize
  <2>1. /\ ChainOK' /\ finals <= finals' /\ \A i \in 1..finals : log'[i] = log[i]
        /\ UNCHANGED <<lease, op, eng, loc>> /\ met \subseteq met'
    BY <1>1, <1>2, ChainMoves
  <2>2. FinalizedIsHeld'
    BY <1>1, <2>1, HeldStays DEF ChainOK
  <2>3. RowsOK' /\ CheckedIsOk' /\ AttemptIsObserved'
    BY <1>1, <2>1 DEF TypeOK, RowsOK, CheckedIsOk, At, AttemptIsObserved
  <2> QED BY <2>1, <2>2, <2>3 DEF ClaimInv, TypeOK
<1>3. CASE Close \/ Lapse \/ UNCHANGED vars
  <2>1. /\ UNCHANGED <<log, displaced, finals, pool, txs, blocks, op, eng, loc>>
        /\ closed' \in BOOLEAN /\ lease' \in {lease, NoWorker} /\ met \subseteq met'
    BY <1>1, <1>3 DEF Close, Lapse, vars, chainVars, rowVars, TypeOK, ChainOK,
       history, FaultIf, Fault
  <2>2. ChainOK' /\ RowsOK'
    BY <1>1, <2>1 DEF TypeOK, ChainOK, RowsOK
  <2>3. FinalizedIsHeld'
    BY <1>1, <2>1 DEF FinalizedIsHeld
  <2>4. CheckedIsOk' /\ AttemptIsObserved'
    BY <1>1, <2>1 DEF CheckedIsOk, At, AttemptIsObserved
  <2> QED BY <2>2, <2>3, <2>4 DEF ClaimInv, TypeOK
<1>4. ASSUME NEW w \in Workers, Send(w) \/ Resend(w) PROVE ClaimInv'
  <2>1. /\ ChainOK' /\ loc' \in [Workers -> LocalType] /\ CheckedIsOk'
        /\ UNCHANGED <<log, finals, lease, op, eng>> /\ met \subseteq met'
    BY <1>1, <1>4, SendMoves
  <2>2. FinalizedIsHeld' /\ AttemptIsObserved'
    BY <1>1, <2>1 DEF FinalizedIsHeld, AttemptIsObserved
  <2>3. RowsOK'
    BY <1>1, <2>1 DEF TypeOK, RowsOK
  <2> QED BY <2>1, <2>2, <2>3 DEF ClaimInv, TypeOK
<1>5. ASSUME NEW w \in Workers,
             \/ StartWorker(w) \/ StopWorker(w) \/ Crash(w) \/ Decline(w)
             \/ WorkerStep(w) \/ SendFails(w) \/ Reverted(w) \/ AnswerLost(w)
      PROVE  ClaimInv'
  <2>1. ActsOnRows
    BY <1>1, <1>5, LifeActs, AdmitActs, ReadEventsActs, CheckBlockActs,
       ReadReceiptActs, AbsentActs, SendingActs DEF WorkerStep
  <2> QED BY <2>1, ActsKeep
<1> QED BY <1>2, <1>3, <1>4, <1>5 DEF Next

\* ClaimInv is an invariant.
LEMMA ClaimInvariant == Spec => []ClaimInv
<1> QED BY ClaimInit, ClaimNext, PTL DEF Spec

\* A claim recorded as final is an attempt of this operator on the finalized
\* chain, in the recorded block and under the recorded index, for any number
\* of workers, transactions and faults, while no replica passes off a displaced
\* block as canonical.
THEOREM FinalIsHeld == Spec => []FinalizedIsHeld
<1>1. ClaimInv => FinalizedIsHeld
  BY DEF ClaimInv
<1> QED BY <1>1, ClaimInvariant, PTL

\* The engagement names an attempt exactly while its operation stands on an
\* observation of the chain, whichever worker wrote last.
THEOREM AttemptsAreObserved == Spec => []AttemptIsObserved
<1>1. ClaimInv => AttemptIsObserved
  BY DEF ClaimInv
<1> QED BY <1>1, ClaimInvariant, PTL

-----------------------------------------------------------------------------
(* One attempt.  While no answer is lost, no lease lapses under its owner   *)
(* and no claim is displaced, one worker at a time is at work, and what it  *)
(* sent is in its hands until the operation records it.                     *)

\* No transaction is in the chain twice, or in the chain and in the pool.
MinedOnce ==
  /\ \A i \in 1..Len(log) : log[i].tx \notin pool
  /\ \A i, j \in 1..Len(log) : log[i].tx = log[j].tx => i = j

Working == Places \ {"new", "idle", "gone"}

\* The operation names a transaction, or nothing more will be sent for it.
Known == op.tx # 0 \/ op.status \in Terminal

\* What the local variables l of a worker at work say of an operation o and
\* of the claims that are held.
Held == {log[i] : i \in Holding}
Consistent(l, o, held) ==
  /\ l.pc \in {"read", "receipt"} => l.tx = o.tx
  /\ l.pc = "receipt" => o.tx # 0
  /\ l.pc = "absent" => o.tx = 0
  /\ l.pc \in {"send", "sending"} => o = Intent
  /\ l.pc = "check" => l.event \in held

Sent(l, tx) == l.pc = "sending" /\ l.sent = tx

Orderly ==
  /\ displaced = {} /\ op.status # "orphaned"
  /\ \A w \in Workers : loc[w].pc \in Working => lease = w
  /\ \A tx \in pool : \E w \in Workers : Sent(loc[w], tx)
  /\ \A i \in Holding : Known \/ \E w \in Workers : Sent(loc[w], log[i].tx)
  /\ \A w \in Workers : Consistent(loc[w], op, Held)
  /\ \A i, j \in Holding : i = j

AttemptInv == ClaimInv /\ MinedOnce /\ (Tracked => Orderly)

\* While the other workers rest, the locals of the one that moves decide.
LEMMA OrderlySole ==
  ASSUME NEW w \in Workers, NEW l, loc \in [Workers -> LocalType],
         loc' = [loc EXCEPT ![w] = l],
         \A v \in Workers \ {w} : loc[v].pc \notin Working,
         displaced' = {}, op'.status # "orphaned",
         l.pc \in Working => lease' = w,
         \A tx \in pool' : Sent(l, tx),
         \A i \in Holding' : Known' \/ Sent(l, log'[i].tx),
         l.pc \in Working => Consistent(l, op', Held'),
         \A i, j \in Holding' : i = j
  PROVE  Orderly'
<1>1. loc'[w] = l /\ \A v \in Workers \ {w} : loc'[v] = loc[v]
  OBVIOUS
<1>2. \A v \in Workers : loc'[v].pc \in Working => v = w
  BY <1>1
<1>3. \A v \in Workers : Consistent(loc'[v], op', Held')
  <2>1. ASSUME NEW v \in Workers, loc'[v].pc \notin Working
        PROVE  Consistent(loc'[v], op', Held')
    BY <2>1 DEF Consistent, Working, Places
  <2> QED BY <1>1, <1>2, <2>1
<1>4. \A v \in Workers : loc'[v].pc \in Working => lease' = v
  BY <1>1, <1>2
<1>5. /\ \A tx \in pool' : \E v \in Workers : Sent(loc'[v], tx)
      /\ \A i \in Holding' : Known' \/ \E v \in Workers : Sent(loc'[v], log'[i].tx)
  BY <1>1
<1> QED BY <1>3, <1>4, <1>5 DEF Orderly, Consistent, Sent

\* One worker at a time is at work.
LEMMA Sole ==
  ASSUME Orderly, NEW w \in Workers, loc[w].pc \in Working
  PROVE  lease = w /\ \A v \in Workers \ {w} : loc[v].pc \notin Working
BY DEF Orderly

\* While nothing is being sent, nothing is in the pool and an attempt that is
\* held is known.
LEMMA NobodySends ==
  ASSUME Orderly, \A v \in Workers : loc[v].pc # "sending"
  PROVE  pool = {} /\ \A i \in Holding : Known
BY DEF Orderly, Sent

\* No transaction is included twice.
LEMMA MinedOnceNext ==
  ASSUME ClaimInv, MinedOnce, [Next]_vars
  PROVE  MinedOnce'
<1>1. /\ log \in Seq(Entries) /\ Len(log) \in Nat /\ finals \in Nat
      /\ txs \in Nat /\ pool \subseteq 1..txs /\ blocks \in Nat
      /\ \A i \in 1..Len(log) : log[i].tx \in 1..txs
  BY DEF ClaimInv, TypeOK, ChainOK
<1>2. ASSUME NEW tx \in pool, Include(tx) PROVE MinedOnce'
  <2> DEFINE e == [tx |-> tx, block |-> blocks + 1, ok |-> ~closed,
                   attempt |-> Cardinality(Holding)]
  <2>1. log' = Append(log, e) /\ pool' = pool \ {tx} /\ e.tx = tx
    BY <1>2 DEF Include
  <2>2. e \in Entries
    BY <1>1, HoldingType DEF Entries, ClaimInv, TypeOK, ChainOK
  <2> HIDE DEF e
  <2>3. /\ Len(log') = Len(log) + 1 /\ log'[Len(log) + 1] = e
        /\ \A i \in 1..Len(log) : log'[i] = log[i]
    BY <1>1, <2>1, <2>2, AppendProperties
  <2>4. \A i \in 1..Len(log') : i \in 1..Len(log) \/ i = Len(log) + 1
    BY <1>1, <2>3
  <2>5. \A i \in 1..Len(log) : log[i].tx # tx
    BY DEF MinedOnce
  <2> QED BY <2>1, <2>3, <2>4, <2>5 DEF MinedOnce
<1>3. CASE Reorg
  <2>1. PICK keep \in finals..(Len(log) - 1) :
          /\ log' = SubSeq(log, 1, keep)
          /\ pool' = pool \cup {log[i].tx : i \in (keep + 1)..Len(log)}
    BY <1>3 DEF Reorg
  <2>2. keep \in Nat /\ keep <= Len(log)
    BY <1>1
  <2>3. Len(log') = keep /\ \A i \in 1..keep : log'[i] = log[i]
    <3>1. \A i \in 1..keep : log[i] \in Entries
      BY <1>1, <2>2
    <3> QED BY <1>1, <2>1, <2>2, <3>1, SubSeqProperties
  <2>4. \A i \in 1..keep : i \in 1..Len(log)
    BY <1>1, <2>2
  <2>5. \A i \in (keep + 1)..Len(log) : i \in 1..Len(log) /\ i \notin 1..keep
    BY <1>1, <2>2
  <2> QED BY <2>1, <2>3, <2>4, <2>5 DEF MinedOnce
<1>4. ASSUME NEW w \in Workers, Send(w) \/ Resend(w) PROVE MinedOnce'
  <2>1. log' = log /\ pool' = pool \cup {txs + 1}
    BY <1>4 DEF Send, Resend
  <2>2. \A i \in 1..Len(log) : log[i].tx # txs + 1
    BY <1>1
  <2> QED BY <2>1, <2>2 DEF MinedOnce
<1>5. CASE UNCHANGED <<log, pool>>
  BY <1>5 DEF MinedOnce
<1>6. \/ \E tx \in pool : Include(tx)
      \/ Reorg
      \/ \E w \in Workers : Send(w) \/ Resend(w)
      \/ UNCHANGED <<log, pool>>
  <2>1. CASE Finalize \/ Close \/ Lapse \/ UNCHANGED vars
    BY <2>1 DEF Finalize, Close, Lapse, vars, chainVars
  <2>2. ASSUME NEW w \in Workers,
               \/ StartWorker(w) \/ StopWorker(w) \/ Crash(w) \/ Decline(w)
               \/ WorkerStep(w) \/ SendFails(w) \/ Reverted(w) \/ AnswerLost(w)
        PROVE  UNCHANGED <<log, pool>>
    <3>1. UNCHANGED chainVars
      BY <2>2 DEF StartWorker, StopWorker, Crash, Decline, WorkerStep, SendFails,
         Reverted, AnswerLost, Process, Admit, ReconcileStartup, ReadEvents,
         CheckBlock, ReadReceipt, Absent, Receipt
    <3> QED BY <3>1 DEF chainVars
  <2> QED BY <2>1, <2>2 DEF Next
<1> QED BY <1>2, <1>3, <1>4, <1>5, <1>6

\* The claims held depend on the chain only.
LEMMA HeldKept ==
  ASSUME log' = log
  PROVE  Holding' = Holding /\ Held' = Held
BY DEF Holding, Held

\* What every step of a worker that is not sending starts from.
LEMMA AtWork ==
  ASSUME ClaimInv, Orderly, NEW w \in Workers,
         loc[w].pc \in Working \ {"sending"}
  PROVE  /\ loc \in [Workers -> LocalType] /\ loc[w] \in LocalType
         /\ lease = w /\ \A v \in Workers \ {w} : loc[v].pc \notin Working
         /\ pool = {} /\ \A i \in Holding : Known
         /\ displaced = {} /\ op.status # "orphaned"
         /\ Consistent(loc[w], op, Held)
         /\ \A i, j \in Holding : i = j
<1>1. loc \in [Workers -> LocalType] /\ loc[w] \in LocalType
  BY DEF ClaimInv, TypeOK, RowsOK
<1>2. lease = w /\ \A v \in Workers \ {w} : loc[v].pc \notin Working
  BY Sole
<1>3. \A v \in Workers : loc[v].pc # "sending"
  BY <1>2 DEF Working, Places
<1>4. pool = {} /\ \A i \in Holding : Known
  BY <1>3, NobodySends
<1> QED BY <1>1, <1>2, <1>4 DEF Orderly

\* A worker that returns with a known claim still known, or nothing held.
LEMMA Returns ==
  ASSUME ClaimInv, Orderly, NEW w \in Workers,
         loc[w].pc \in Working \ {"sending"},
         Leave(w, "idle") \/ Leave(w, "gone"), UNCHANGED chainVars,
         op'.status # "orphaned", Holding = {} \/ (Known => Known')
  PROVE  Orderly'
<1>1. PICK there \in {"idle", "gone"} : Leave(w, there)
  OBVIOUS
<1> DEFINE l == [New EXCEPT !.pc = there]
<1>2. loc' = [loc EXCEPT ![w] = l] /\ l.pc \notin Working
  BY <1>1 DEF Leave, Working, New
<1> HIDE DEF l
<1>3. /\ loc \in [Workers -> LocalType]
      /\ \A v \in Workers \ {w} : loc[v].pc \notin Working
      /\ pool = {} /\ \A i \in Holding : Known
      /\ displaced = {} /\ \A i, j \in Holding : i = j
  BY AtWork
<1>4. /\ Holding' = Holding /\ pool' = {} /\ displaced' = {}
  BY <1>3, HeldKept DEF chainVars
<1>5. \A i \in Holding' : Known'
  BY <1>3, <1>4
<1>6. \A i, j \in Holding' : i = j
  BY <1>3, <1>4
<1>7. \A tx \in pool' : Sent(l, tx)
  BY <1>4
<1> QED BY <1>2, <1>3, <1>4, <1>5, <1>6, <1>7, OrderlySole

\* process(), admission and reconcileStartup() start where nobody is at work,
\* and keep the operation.
LEMMA StartsOrderly ==
  ASSUME ClaimInv, Orderly, NEW w \in Workers, NEW l,
         \A v \in Workers \ {w} : loc[v].pc \notin Working,
         loc[w].pc # "sending", l.pc \in {"idle", "admit", "read"},
         l.pc = "read" => l.tx = op'.tx,
         loc' = [loc EXCEPT ![w] = l], UNCHANGED chainVars, lease' = w,
         op' = op \/ (op = NoOp /\ op' = Intent)
  PROVE  Orderly'
<1>1. loc \in [Workers -> LocalType]
  BY DEF ClaimInv, TypeOK, RowsOK
<1>2. \A v \in Workers : loc[v].pc # "sending"
  BY DEF Working, Places
<1>3. pool = {} /\ \A i \in Holding : Known
  BY <1>2, NobodySends
<1>4. op'.status # "orphaned" /\ (Known => Known')
  BY DEF Orderly, Known, NoOp, Intent, Terminal
<1>5. /\ Holding' = Holding /\ pool' = {} /\ displaced' = {}
      /\ \A i, j \in Holding' : i = j
  BY <1>3, HeldKept DEF chainVars, Orderly
<1>6. Consistent(l, op', Held')
  BY DEF Consistent
<1>7. \A i \in Holding' : Known'
  BY <1>3, <1>4, <1>5
<1>8. \A tx \in pool' : Sent(l, tx)
  BY <1>5
<1> QED BY <1>1, <1>4, <1>5, <1>6, <1>7, <1>8, OrderlySole

\* Admitting an operation, with no broadcast under way.
LEMMA AdmitOrderly ==
  ASSUME ClaimInv, Orderly, NEW w \in Workers,
         Process(w) \/ Admit(w) \/ ReconcileStartup(w)
  PROVE  Orderly'
<1>1. op.status # "orphaned" /\ op \in OpType /\ loc \in [Workers -> LocalType]
  BY DEF Orderly, ClaimInv, TypeOK, RowsOK
<1>2. ASSUME Live(w) PROVE \A v \in Workers \ {w} : loc[v].pc \notin Working
  BY <1>2, ClaimAssumption DEF Live, NoWorker, Orderly
<1>3. CASE Process(w)
  <2> DEFINE l == [loc[w] EXCEPT !.pc = "admit"]
  <2>1. loc' = [loc EXCEPT ![w] = l] /\ l.pc = "admit"
    BY <1>1, <1>3 DEF Process, Goto, LocalType
  <2>2. /\ UNCHANGED chainVars /\ lease' = w /\ op' = op /\ Live(w)
        /\ loc[w].pc = "idle"
    BY <1>3 DEF Process, At
  <2> HIDE DEF l
  <2> QED BY <1>2, <2>1, <2>2, StartsOrderly
<1>4. CASE Admit(w)
  <2> DEFINE o == IF op = NoOp THEN Intent ELSE op
             l == [New EXCEPT !.pc = IF o.status \in Terminal THEN "idle" ELSE "read",
                              !.tx = o.tx]
  <2>1. o.status # "orphaned"
    BY <1>1 DEF Intent
  <2>2. op' = o /\ loc' = [loc EXCEPT ![w] = l]
    BY <1>4, <2>1 DEF Admit, Drive
  <2>3. l.pc \in {"idle", "read"} /\ l.tx = o.tx
    BY DEF New
  <2>4. /\ loc[w].pc = "admit" /\ UNCHANGED chainVars /\ lease' = lease
    BY <1>4 DEF Admit, At
  <2>5. lease = w /\ \A v \in Workers \ {w} : loc[v].pc \notin Working
    BY <2>4, Sole DEF Working, Places
  <2> HIDE DEF l
  <2> QED BY <2>2, <2>3, <2>4, <2>5, StartsOrderly
<1>5. CASE ReconcileStartup(w)
  <2> DEFINE l == [New EXCEPT !.pc = IF op.status \in Terminal THEN "idle" ELSE "read",
                              !.tx = op.tx]
  <2>1. op' = op /\ loc' = [loc EXCEPT ![w] = l]
    BY <1>1, <1>5 DEF ReconcileStartup, Drive
  <2>2. l.pc \in {"idle", "read"} /\ l.tx = op.tx
    BY DEF New
  <2>3. /\ loc[w].pc = "idle" /\ UNCHANGED chainVars /\ lease' = w /\ Live(w)
    BY <1>5 DEF ReconcileStartup, At
  <2> HIDE DEF l
  <2> QED BY <1>2, <2>1, <2>2, <2>3, StartsOrderly
<1> QED BY <1>3, <1>4, <1>5

\* A worker that starts, stops or dies at rest leaves the others alone.
LEMMA RestOrderly ==
  ASSUME ClaimInv, Orderly, NEW w \in Workers, NEW there \in {"idle", "gone"},
         loc[w].pc \notin Working, Leave(w, there), UNCHANGED <<chainVars, op>>,
         lease = NoWorker \/ lease' = lease \/ lease = w
  PROVE  Orderly'
<1> DEFINE l == [New EXCEPT !.pc = there]
<1>1. loc' = [loc EXCEPT ![w] = l] /\ l.pc \notin Working
  BY DEF Leave, Working, New
<1> HIDE DEF l
<1>2. loc \in [Workers -> LocalType]
  BY DEF ClaimInv, TypeOK, RowsOK
<1>3. loc'[w] = l /\ \A v \in Workers \ {w} : loc'[v] = loc[v]
  BY <1>1, <1>2
<1>4. \A v \in Workers : loc'[v].pc \in Working => lease' = v
  <2>1. SUFFICES ASSUME NEW v \in Workers, loc'[v].pc \in Working
                 PROVE  lease' = v
    OBVIOUS
  <2>2. v # w /\ loc[v].pc \in Working
    BY <1>1, <1>3, <2>1
  <2>3. lease = v /\ v # NoWorker
    BY <2>2, ClaimAssumption DEF Orderly, NoWorker
  <2> QED BY <2>2, <2>3
<1>5. /\ Holding' = Holding /\ Held' = Held /\ pool' = pool /\ log' = log
      /\ displaced' = displaced /\ op' = op
  BY HeldKept DEF chainVars
<1>6. \A v \in Workers, tx \in Nat : Sent(loc[v], tx) => v # w /\ Sent(loc'[v], tx)
  BY <1>3 DEF Sent, Working, Places
<1>7. \A tx \in pool' : \E v \in Workers : Sent(loc'[v], tx)
  <2>1. pool \subseteq Nat
    BY DEF ClaimInv, TypeOK, ChainOK
  <2> QED BY <1>5, <1>6, <2>1 DEF Orderly
<1>8. \A i \in Holding' : Known' \/ \E v \in Workers : Sent(loc'[v], log'[i].tx)
  <2>1. \A i \in Holding : log[i].tx \in Nat
    BY DEF ClaimInv, TypeOK, ChainOK, Holding
  <2>2. Known' = Known
    BY <1>5 DEF Known
  <2> QED BY <1>5, <1>6, <2>1, <2>2 DEF Orderly
<1>9. \A v \in Workers : Consistent(loc'[v], op', Held')
  <2>1. Consistent(l, op, Held)
    BY <1>1 DEF Consistent, Working, Places
  <2> QED BY <1>3, <1>5, <2>1 DEF Orderly
<1> QED BY <1>4, <1>5, <1>7, <1>8, <1>9 DEF Orderly, Sent, Consistent

\* Workers start, stop and crash.
LEMMA LifeOrderly ==
  ASSUME ClaimInv, Orderly, Tracked', NEW w \in Workers,
         StartWorker(w) \/ StopWorker(w) \/ Crash(w)
  PROVE  Orderly'
<1>1. CASE StartWorker(w)
  BY <1>1, RestOrderly DEF StartWorker, At, Working
<1>2. CASE StopWorker(w)
  BY <1>2, RestOrderly DEF StopWorker, At, Working
<1>3. CASE Crash(w)
  <2>1. UNCHANGED <<chainVars, op, lease>> /\ Leave(w, "gone")
    BY <1>3 DEF Crash, rowVars
  <2>2. loc[w].pc # "sending" /\ loc[w].pc # "send"
    BY <1>3 DEF Crash, FaultIf, Fault, Tracked
  <2>3. CASE loc[w].pc \in Working
    <3>1. op'.status # "orphaned" /\ (Known => Known')
      BY <2>1 DEF Orderly, Known
    <3> QED BY <2>1, <2>2, <2>3, <3>1, Returns
  <2>4. CASE loc[w].pc \notin Working
    BY <2>1, <2>4, RestOrderly
  <2> QED BY <2>3, <2>4
<1> QED BY <1>1, <1>2, <1>3

\* A tick that declines leaves the claim as it is.
LEMMA DeclineOrderly ==
  ASSUME ClaimInv, Orderly, NEW w \in Workers, Decline(w)
  PROVE  Orderly'
<1>1. /\ loc[w].pc \in Working \ {"sending"} /\ Leave(w, "idle")
      /\ UNCHANGED <<chainVars, op>>
  BY DEF Decline, At, Working, Places
<1>2. op'.status # "orphaned" /\ (Known => Known')
  BY <1>1 DEF Orderly, Known
<1> QED BY <1>1, <1>2, Returns

\* An event is recorded as a replacement, or the worker looks further with
\* the operation as it is.
LEMMA ReadEventsOrderly ==
  ASSUME ClaimInv, Orderly, NEW w \in Workers, ReadEvents(w)
  PROVE  Orderly'
<1> DEFINE known == loc[w].tx
<1>0. displaced = {}
  BY DEF Orderly
<1>1. PICK n \in Served : TakeEvent(w, Latest(n))
  BY <1>0 DEF ReadEvents
<1> DEFINE event == Latest(n)
<1>2. event = NoEntry \/ event \in Held
  BY ServedEvent DEF ClaimInv, Held
<1> HIDE DEF event
<1>3. \A e \in Held : e.tx \in Nat \ {0}
  BY DEF Held, Holding, ClaimInv, TypeOK, ChainOK
<1>4. loc[w].pc = "read" /\ UNCHANGED chainVars /\ lease' = lease
  BY DEF ReadEvents, At
<1>5. loc[w].pc \in Working \ {"sending"}
  BY <1>4 DEF Working, Places
<1>6. /\ loc \in [Workers -> LocalType] /\ loc[w] \in LocalType
      /\ lease = w /\ \A v \in Workers \ {w} : loc[v].pc \notin Working
      /\ pool = {} /\ \A i \in Holding : Known
      /\ displaced = {} /\ op.status # "orphaned"
      /\ Consistent(loc[w], op, Held)
      /\ \A i, j \in Holding : i = j
  BY <1>5, AtWork
<1>7. CASE event # NoEntry /\ known \notin {0, event.tx}
  <2>1. RecordReplacement(known, event.tx) /\ Leave(w, "idle")
    BY <1>1, <1>7 DEF TakeEvent, event
  <2>2. event.tx # 0
    BY <1>2, <1>3, <1>7
  <2>3. op'.status # "orphaned" /\ (Known => Known')
    BY <1>6, <2>1, <2>2 DEF RecordReplacement, Throws, Known, ClaimInv, TypeOK,
       RowsOK, OpType
  <2> QED BY <1>4, <1>5, <2>1, <2>3, Returns
<1>8. CASE ~(event # NoEntry /\ known \notin {0, event.tx})
  <2> DEFINE there == IF event # NoEntry THEN "check"
                      ELSE IF known = 0 THEN "absent" ELSE "receipt"
             l == [loc[w] EXCEPT !.event = event, !.pc = there]
  <2>1. loc' = [loc EXCEPT ![w] = l] /\ op' = op
    BY <1>1, <1>6, <1>8 DEF TakeEvent, event
  <2>2. /\ l.pc = there /\ l.tx = known /\ l.event = event
        /\ there \in {"check", "absent", "receipt"}
    BY <1>6 DEF LocalType
  <2>3. known = op.tx
    BY <1>4, <1>6 DEF Consistent
  <2>4. Consistent(l, op, Held)
    BY <1>2, <2>2, <2>3 DEF Consistent
  <2>5. /\ Holding' = Holding /\ Held' = Held /\ Known' = Known
        /\ pool' = {} /\ displaced' = {} /\ log' = log
    BY <1>4, <1>6, <2>1, HeldKept DEF chainVars, Known
  <2> HIDE DEF l
  <2>6. /\ \A tx \in pool' : Sent(l, tx)
        /\ \A i \in Holding' : Known'
        /\ \A i, j \in Holding' : i = j
        /\ Consistent(l, op', Held') /\ lease' = w /\ op'.status # "orphaned"
    BY <1>4, <1>6, <2>1, <2>4, <2>5
  <2> QED BY <1>6, <2>1, <2>5, <2>6, OrderlySole
<1> QED BY <1>7, <1>8

\* The event is on the chain, so it is recorded or refused.
LEMMA CheckBlockOrderly ==
  ASSUME ClaimInv, Orderly, NEW w \in Workers, CheckBlock(w)
  PROVE  Orderly'
<1> DEFINE e == loc[w].event
<1>1. loc[w].pc \in Working \ {"sending"} /\ loc[w].pc = "check"
  BY DEF CheckBlock, At, Working, Places
<1>2. op.status # "orphaned" /\ Consistent(loc[w], op, Held) /\ displaced = {}
  BY <1>1, AtWork
<1>3. e \in Held
  BY <1>1, <1>2 DEF Consistent
<1>4. Position(e) # {} /\ e.tx # 0
  BY <1>3, SMTT(20) DEF Held, Holding, Position, ClaimInv, TypeOK, ChainOK
<1>5. (\E final \in BOOLEAN : RecordCanonical(e, final)) \/ Throws
  BY <1>2, <1>4 DEF CheckBlock
<1> HIDE DEF e
<1>6. op'.status # "orphaned" /\ (Known => Known')
  BY <1>2, <1>4, <1>5 DEF RecordCanonical, Throws, Known
<1>7. Leave(w, "idle") /\ UNCHANGED chainVars
  BY DEF CheckBlock
<1> QED BY <1>1, <1>6, <1>7, Returns

\* No claim was displaced: a receipt that reverted ends the operation, else
\* the transaction stays recorded.
LEMMA ReadReceiptOrderly ==
  ASSUME ClaimInv, Orderly, NEW w \in Workers, ReadReceipt(w)
  PROVE  Orderly'
<1>1. loc[w].pc \in Working \ {"sending"} /\ loc[w].pc = "receipt"
  BY DEF ReadReceipt, At, Working, Places
<1>2. /\ op.status # "orphaned" /\ Consistent(loc[w], op, Held)
      /\ displaced = {} /\ op \in OpType
  BY <1>1, AtWork DEF ClaimInv, TypeOK, RowsOK
<1>3. loc[w].tx = op.tx /\ op.tx # 0
  BY <1>1, <1>2 DEF Consistent
<1>4. RecordLost \/ RecordBroadcast(loc[w].tx)
  BY <1>2 DEF ReadReceipt
<1>5. op'.status # "orphaned" /\ (Known => Known')
  BY <1>2, <1>3, <1>4 DEF RecordLost, RecordBroadcast, Throws, Known, OpType, Terminal
<1>6. Leave(w, "idle") /\ UNCHANGED chainVars
  BY DEF ReadReceipt
<1> QED BY <1>1, <1>5, <1>6, Returns

\* An absent claim is one that nothing is held of.
LEMMA AbsentOrderly ==
  ASSUME ClaimInv, Orderly, NEW w \in Workers, Absent(w)
  PROVE  Orderly'
<1>1. loc[w].pc \in Working \ {"sending"} /\ loc[w].pc = "absent"
  BY DEF Absent, At, Working, Places
<1>2. /\ loc \in [Workers -> LocalType] /\ loc[w] \in LocalType
      /\ lease = w /\ \A v \in Workers \ {w} : loc[v].pc \notin Working
      /\ pool = {} /\ \A i \in Holding : Known
      /\ displaced = {} /\ op.status # "orphaned"
      /\ Consistent(loc[w], op, Held)
      /\ \A i, j \in Holding : i = j
  BY <1>1, AtWork
<1>3. op.tx = 0 /\ UNCHANGED chainVars
  BY <1>1, <1>2 DEF Consistent, Absent
<1>4. CASE op.status \notin {"intent", "broadcast", "replaced"}
  <2>1. Leave(w, "idle") /\ op' = op
    BY <1>4 DEF Absent
  <2>2. op'.status # "orphaned" /\ (Known => Known')
    BY <1>2, <2>1 DEF Known
  <2> QED BY <1>1, <1>3, <2>1, <2>2, Returns
<1>5. CASE op.status \in {"intent", "broadcast", "replaced"}
  <2>1. Holding = {}
    BY <1>2, <1>3, <1>5 DEF Known, Terminal
  <2>2. CASE Leave(w, "idle") /\ op' \in {Intent, [Intent EXCEPT !.status = "broadcast"]}
    <3>1. op'.status # "orphaned"
      BY <2>2 DEF Intent
    <3> QED BY <1>1, <1>3, <2>1, <2>2, <3>1, Returns
  <2>3. CASE Goto(w, "send") /\ op' = Intent /\ lease' = w
    <3> DEFINE l == [loc[w] EXCEPT !.pc = "send"]
    <3>1. loc' = [loc EXCEPT ![w] = l] /\ l.pc = "send"
      BY <1>2, <2>3 DEF Goto, LocalType
    <3>2. Holding' = {} /\ pool' = {} /\ displaced' = {}
      BY <1>2, <1>3, <2>1, HeldKept DEF chainVars
    <3> HIDE DEF l
    <3>3. op'.status # "orphaned" /\ Consistent(l, op', Held')
      BY <2>3, <3>1 DEF Consistent, Intent
    <3>4. /\ \A tx \in pool' : Sent(l, tx)
          /\ \A i \in Holding' : Known'
          /\ \A i, j \in Holding' : i = j
      BY <3>2
    <3> QED BY <1>2, <2>3, <3>1, <3>2, <3>3, <3>4, OrderlySole
  <2> QED BY <1>5, <2>2, <2>3 DEF Absent, AfterAbsent
<1> QED BY <1>4, <1>5

\* A broadcast begins, or fails before it left.
LEMMA SendOrderly ==
  ASSUME ClaimInv, Orderly, NEW w \in Workers, Send(w) \/ SendFails(w)
  PROVE  Orderly'
<1>1. loc[w].pc \in Working \ {"sending"} /\ loc[w].pc = "send"
  BY DEF Send, SendFails, At, Working, Places
<1>2. /\ loc \in [Workers -> LocalType] /\ loc[w] \in LocalType
      /\ lease = w /\ \A v \in Workers \ {w} : loc[v].pc \notin Working
      /\ pool = {} /\ \A i \in Holding : Known
      /\ displaced = {} /\ Consistent(loc[w], op, Held)
  BY <1>1, AtWork
<1>3. op = Intent /\ Holding = {}
  BY <1>1, <1>2 DEF Consistent, Known, Intent, Terminal
<1>4. CASE SendFails(w)
  <2>1. Leave(w, "idle") /\ UNCHANGED chainVars /\ RecordBroadcast(0)
    BY <1>4 DEF SendFails
  <2>2. op'.status # "orphaned"
    BY <1>3, <2>1 DEF RecordBroadcast, Intent, Throws
  <2> QED BY <1>1, <1>3, <2>1, <2>2, Returns
<1>5. CASE Send(w)
  <2> DEFINE l == [loc[w] EXCEPT !.pc = "sending", !.sent = txs + 1]
  <2>1. loc' = [loc EXCEPT ![w] = l] /\ l.pc = "sending" /\ l.sent = txs + 1
    BY <1>2, <1>5 DEF Send, LocalType
  <2>2. /\ log' = log /\ pool' = {txs + 1} /\ displaced' = {} /\ op' = op
        /\ lease' = w
    BY <1>2, <1>5 DEF Send, rowVars
  <2> HIDE DEF l
  <2>3. /\ Holding' = {} /\ op'.status # "orphaned" /\ Consistent(l, op', Held')
    BY <1>3, <2>1, <2>2, HeldKept DEF Consistent, Intent
  <2>4. /\ \A tx \in pool' : Sent(l, tx)
        /\ \A i \in Holding' : Known'
        /\ \A i, j \in Holding' : i = j
    BY <2>1, <2>2, <2>3 DEF Sent
  <2> QED BY <1>2, <2>1, <2>2, <2>3, <2>4, OrderlySole
<1> QED BY <1>4, <1>5

\* The receipt of what was sent: its hash is recorded, or it reverted and
\* nothing is held.
LEMMA ReceiptOrderly ==
  ASSUME ClaimInv, MinedOnce, Orderly, NEW w \in Workers, Receipt(w) \/ Reverted(w)
  PROVE  Orderly'
<1>1. loc[w].pc = "sending" /\ loc[w].pc \in Working
  BY DEF Receipt, Reverted, At, Working, Places
<1>2. /\ loc \in [Workers -> LocalType] /\ loc[w] \in LocalType
      /\ pool \subseteq Nat /\ \A i \in Holding : log[i].tx \in Nat
  BY DEF ClaimInv, TypeOK, RowsOK, ChainOK, Holding
<1>3. lease = w /\ \A v \in Workers \ {w} : loc[v].pc \notin Working
  BY <1>1, Sole
<1>4. \A v \in Workers : loc[v].pc = "sending" => v = w
  BY <1>3 DEF Working, Places
<1>5. op = Intent /\ displaced = {} /\ \A i, j \in Holding : i = j
  BY <1>1 DEF Orderly, Consistent
<1>6. \A i \in Holding : log[i].tx = loc[w].sent
  BY <1>4, <1>5 DEF Orderly, Known, Sent, Intent, Terminal
<1>7. PICK k \in 1..Len(log) : log[k].tx = loc[w].sent
  BY DEF Receipt, Reverted, Holding
<1>8. pool = {}
  BY <1>4, <1>7 DEF Orderly, Sent, MinedOnce
<1>9. UNCHANGED chainVars /\ lease' = lease
  BY DEF Receipt, Reverted
<1>10. Holding' = Holding /\ pool' = {} /\ displaced' = {} /\ log' = log
  BY <1>5, <1>8, <1>9, HeldKept DEF chainVars
<1>11. CASE Receipt(w)
  <2> DEFINE l == [New EXCEPT !.pc = "read", !.tx = loc[w].sent, !.first = FALSE]
  <2>1. op.status = "intent" /\ op.tx = 0
    BY <1>5 DEF Intent
  <2>2. loc' = [loc EXCEPT ![w] = l] /\ l.pc = "read" /\ l.tx = loc[w].sent
    BY <1>11, <2>1 DEF Receipt, New
  <2>3. loc[w].sent \in Nat \ {0}
    BY <1>7 DEF ClaimInv, TypeOK, ChainOK
  <2>4. op' = [op EXCEPT !.status = "broadcast", !.tx = loc[w].sent]
    BY <1>11, <2>1, <2>3 DEF Receipt, RecordBroadcast
  <2>5. op'.tx = loc[w].sent /\ op'.status = "broadcast"
    BY <1>5, <2>4 DEF Intent
  <2> HIDE DEF l
  <2>6. Known' /\ Consistent(l, op', Held')
    BY <2>2, <2>3, <2>5 DEF Known, Consistent
  <2>7. /\ \A tx \in pool' : Sent(l, tx)
        /\ \A i, j \in Holding' : i = j
    BY <1>5, <1>10
  <2> QED BY <1>2, <1>3, <1>9, <1>10, <2>2, <2>5, <2>6, <2>7, OrderlySole
<1>12. CASE Reverted(w)
  <2> DEFINE l == [New EXCEPT !.pc = "idle"]
  <2>1. loc' = [loc EXCEPT ![w] = l] /\ l.pc \notin Working
    BY <1>12 DEF Reverted, Leave, New, Working
  <2>2. op'.status # "orphaned"
    BY <1>5, <1>12 DEF Reverted, RecordBroadcast, Throws, Intent
  <2>3. Holding = {}
    <3>1. PICK i \in 1..Len(log) : log[i].tx = loc[w].sent /\ ~log[i].ok
      BY <1>12 DEF Reverted
    <3> QED BY <1>6, <3>1 DEF MinedOnce, Holding
  <2> HIDE DEF l
  <2>4. /\ \A tx \in pool' : Sent(l, tx)
        /\ \A i \in Holding' : Known'
        /\ \A i, j \in Holding' : i = j
    BY <1>10, <2>3
  <2> QED BY <1>2, <1>3, <1>10, <2>1, <2>2, <2>4, OrderlySole
<1> QED BY <1>11, <1>12

\* What is mined is in the hands of the one worker that sends, and nothing was
\* held before.
LEMMA IncludeOrderly ==
  ASSUME ClaimInv, MinedOnce, Orderly, NEW tx \in pool, Include(tx)
  PROVE  Orderly'
<1> DEFINE e == [tx |-> tx, block |-> blocks + 1, ok |-> ~closed,
                 attempt |-> Cardinality(Holding)]
<1>1. /\ log' = Append(log, e) /\ pool' = pool \ {tx} /\ e.tx = tx
      /\ UNCHANGED <<displaced, lease, op, loc>>
  BY DEF Include, rowVars
<1>2. e \in Entries /\ log \in Seq(Entries) /\ Len(log) \in Nat
  <2>1. TypeOK /\ Cardinality(Holding) \in Nat
    BY HoldingType DEF ClaimInv
  <2> QED BY <2>1 DEF Entries, TypeOK, ChainOK
<1> HIDE DEF e
<1>3. /\ Len(log') = Len(log) + 1 /\ log'[Len(log) + 1] = e
      /\ \A i \in 1..Len(log) : log'[i] = log[i]
  BY <1>1, <1>2, AppendProperties
<1>4. PICK w \in Workers : Sent(loc[w], tx)
  BY DEF Orderly
<1>5. \A v \in Workers \ {w} : loc[v].pc \notin Working
  BY <1>4, Sole DEF Sent, Working, Places
<1>6. op = Intent
  BY <1>4 DEF Orderly, Consistent, Sent
<1>7. Holding = {}
  <2>1. \A i \in Holding : \E v \in Workers : Sent(loc[v], log[i].tx)
    BY <1>6 DEF Orderly, Known, Intent, Terminal
  <2>2. \A i \in Holding : log[i].tx = tx
    BY <1>4, <1>5, <2>1 DEF Sent, Working, Places
  <2> QED BY <2>2 DEF MinedOnce, Holding
<1>8. \A i \in Holding' : i = Len(log) + 1 /\ log'[i].tx = tx
  <2>1. \A i \in 1..Len(log') : i \in 1..Len(log) \/ i = Len(log) + 1
    BY <1>2, <1>3
  <2> QED BY <1>1, <1>3, <1>7, <2>1 DEF Holding
<1>9. \A v \in Workers : Consistent(loc[v], op, Held')
  BY <1>7 DEF Orderly, Consistent, Held
<1>10. /\ \A x \in pool' : \E v \in Workers : Sent(loc'[v], x)
       /\ \A i \in Holding' : Known' \/ \E v \in Workers : Sent(loc'[v], log'[i].tx)
       /\ \A i, j \in Holding' : i = j
  BY <1>1, <1>4, <1>8 DEF Orderly
<1> QED BY <1>1, <1>9, <1>10, ZenonT(30) DEF Orderly, Sent, Consistent

\* A lease that lapses belonged to a worker at rest.
LEMMA OtherOrderly ==
  ASSUME ClaimInv, Orderly, Tracked', Finalize \/ Close \/ Lapse \/ UNCHANGED vars
  PROVE  Orderly'
<1>1. UNCHANGED <<log, displaced, pool, op, loc>>
  BY DEF Finalize, Close, Lapse, vars, chainVars, rowVars
<1>2. Holding' = Holding /\ Held' = Held /\ Known' = Known
  BY <1>1, HeldKept DEF Known
<1>3. \A w \in Workers : loc[w].pc \in Working => lease' = w
  <2>1. CASE Lapse
    <3>1. loc[lease].pc \in {"idle", "gone"}
      BY <2>1 DEF Lapse, FaultIf, Fault, Tracked
    <3> QED BY <3>1 DEF Orderly, Working
  <2>2. CASE lease' = lease
    BY <2>2 DEF Orderly
  <2> QED BY <2>1, <2>2 DEF Finalize, Close, vars, rowVars
<1> QED BY <1>1, <1>2, <1>3 DEF Orderly, Consistent, Sent

\* A condition that was met stays so.
LEMMA TrackedBefore ==
  ASSUME [Next]_vars, Tracked'
  PROVE  Tracked
<1>1. SUFFICES met \subseteq met'
  BY DEF Tracked
<1> USE DEF Fault, FaultIf, history
<1>2. CASE (\E tx \in pool : Include(tx)) \/ Reorg \/ Finalize \/ Close \/ Lapse
  BY <1>2 DEF Include, Reorg, Finalize, Close, Lapse
<1>3. ASSUME NEW w \in Workers,
             \/ StartWorker(w) \/ StopWorker(w) \/ Crash(w) \/ Decline(w)
             \/ Send(w) \/ Resend(w) \/ SendFails(w) \/ Reverted(w) \/ AnswerLost(w)
      PROVE  met \subseteq met'
  BY <1>3 DEF StartWorker, StopWorker, Crash, Decline, Send, Resend, SendFails, Reverted,
     AnswerLost
<1>4. ASSUME NEW w \in Workers, WorkerStep(w)
      PROVE  met \subseteq met'
  BY <1>4 DEF WorkerStep, Process, Admit, ReconcileStartup, ReadEvents, CheckBlock,
     ReadReceipt, Absent, Receipt
<1>5. CASE UNCHANGED vars
  BY <1>5 DEF vars
<1> QED BY <1>2, <1>3, <1>4, <1>5 DEF Next

\* Every step keeps the attempt orderly.
LEMMA AttemptNext == AttemptInv /\ [Next]_vars => AttemptInv'
<1> SUFFICES ASSUME AttemptInv, [Next]_vars PROVE AttemptInv'
  OBVIOUS
<1>1. ClaimInv /\ MinedOnce /\ ClaimInv' /\ MinedOnce'
  BY ClaimNext, MinedOnceNext DEF AttemptInv
<1>2. SUFFICES ASSUME Tracked' PROVE Orderly'
  BY <1>1 DEF AttemptInv
<1>3. Orderly
  BY <1>2, TrackedBefore DEF AttemptInv
<1>4. CASE \E tx \in pool : Include(tx)
  BY <1>1, <1>3, <1>4, IncludeOrderly
<1>5. ~Reorg
  BY <1>2 DEF Reorg, Fault, Tracked
<1>6. CASE Finalize \/ Close \/ Lapse \/ UNCHANGED vars
  BY <1>1, <1>2, <1>3, <1>6, OtherOrderly
<1>7. ASSUME NEW w \in Workers,
             \/ StartWorker(w) \/ StopWorker(w) \/ Crash(w) \/ Decline(w)
             \/ Send(w) \/ Resend(w) \/ SendFails(w) \/ Reverted(w) \/ AnswerLost(w)
      PROVE  Orderly'
  <2>1. ~AnswerLost(w) /\ ~Resend(w)
    BY <1>2 DEF AnswerLost, Resend, Fault, Tracked
  <2> QED BY <1>1, <1>2, <1>3, <1>7, <2>1, LifeOrderly, DeclineOrderly, SendOrderly,
             ReceiptOrderly
<1>8. ASSUME NEW w \in Workers, WorkerStep(w) PROVE Orderly'
  BY <1>1, <1>3, <1>8, AdmitOrderly, ReadEventsOrderly, CheckBlockOrderly,
     ReadReceiptOrderly, AbsentOrderly, ReceiptOrderly DEF WorkerStep
<1> QED BY <1>4, <1>5, <1>6, <1>7, <1>8 DEF Next

\* Nothing was attempted yet.
LEMMA AttemptInit == Init => AttemptInv
<1> SUFFICES ASSUME Init PROVE AttemptInv
  OBVIOUS
<1>1. ClaimInv
  BY ClaimInit
<1>2. \A i \in 1..Len(log) : FALSE
  BY EmptySeq DEF Init
<1>3. MinedOnce /\ Holding = {}
  BY <1>2 DEF MinedOnce, Holding
<1>4. Orderly
  <2>1. \A w \in Workers : loc[w].pc = "new"
    BY DEF Init, New
  <2> QED BY <1>3, <2>1 DEF Init, Orderly, Consistent, Working, NoOp
<1> QED BY <1>1, <1>3, <1>4 DEF AttemptInv

\* The operator holds at most one attempt of the task, for any number of
\* workers, broadcasts, lagging replicas and announcements, while every
\* broadcast is answered under the lease and no claim is displaced.
THEOREM OneAttemptHeld == Spec => []OneAttempt
<1>1. AttemptInv => OneAttempt
  <2> SUFFICES ASSUME AttemptInv, Tracked PROVE Cardinality(Holding) <= 1
    BY DEF OneAttempt
  <2>1. \A i, j \in Holding : i = j
    BY DEF AttemptInv, Orderly
  <2>2. CASE Holding = {}
    <3>1. Cardinality({}) = 0
      BY FS_EmptySet
    <3> QED BY <2>2, <3>1
  <2>3. ASSUME NEW i \in Holding PROVE Cardinality(Holding) <= 1
    <3>1. Holding = {i}
      BY <2>1
    <3>2. Cardinality({i}) = 1
      BY FS_Singleton
    <3> QED BY <3>1, <3>2
  <2> QED BY <2>2, <2>3
<1> QED BY <1>1, AttemptInit, AttemptNext, PTL DEF Spec

=============================================================================
