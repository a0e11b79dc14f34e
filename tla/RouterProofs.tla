---------------------------- MODULE RouterProofs ----------------------------
(***************************************************************************)
(* Theorems about the marketplace contracts, for every number of tasks,    *)
(* attempts, verdicts, accounts, Mechs, policies, rates and any horizon.   *)
(*                                                                         *)
(* 1. Types, conservation of every purse, that nobody but its own party    *)
(*    ends a live, unpaid reservation, and that a reservation that was     *)
(*    paid for is never given back to the budget.                          *)
(* 2. Router and coordinator agree on every reservation. This rests on one *)
(*    lemma, StepMoves, about what any transaction may do to one slot in   *)
(*    both contracts at once; agreement, nothing stranded, paid records    *)
(*    and the reserved totals follow from it. The totals of the escrow are *)
(*    the sums they stand for, and the balance covers every task at once.  *)
(* 3. The coordinator's counters count what they say: occupancy, settled   *)
(*    and finalized attempts, live claims per operator, delivered          *)
(*    verdicts, and the activity credit these earn.                        *)
(***************************************************************************)
EXTENDS RouterProperties, FiniteSetTheorems, TLAPS

-----------------------------------------------------------------------------
(* Finiteness: every loop of _reap and reapExpired is over a finite set. *)

\* Tasks, attempt indices and legs are finite.
LEMMA TaskBoundsFinite ==
  IsFiniteSet(Tasks) /\ IsFiniteSet(AttemptIndices) /\ IsFiniteSet(Legs)
  BY FS_Interval, CoordinatorAssumption DEF Tasks, AttemptIndices, Legs

\* There are finitely many attempts.
LEMMA AttemptKeysFinite == IsFiniteSet(AttemptKeys)
  BY FS_Product, TaskBoundsFinite DEF AttemptKeys

\* There are finitely many slots: they are an image of a product of pairs.
LEMMA SlotsFinite == IsFiniteSet(Slots)
<1> DEFINE P == (Tasks \X AttemptIndices) \X Legs
           f == [p \in P |-> <<p[1][1], p[1][2], p[2]>>]
<1>1. IsFiniteSet(P)
  BY FS_Product, TaskBoundsFinite
<1>2. f \in Surjection(P, Slots)
  <2>1. f \in [P -> Slots]
    BY DEF Slots
  <2>2. ASSUME NEW s \in Slots PROVE \E p \in P : f[p] = s
    <3>1. <<<<s[1], s[2]>>, s[3]>> \in P
      BY DEF Slots
    <3>2. s = <<s[1], s[2], s[3]>>
      BY DEF Slots
    <3> QED BY <3>1, <3>2
  <2> QED BY <2>1, <2>2 DEF Surjection
<1> QED BY <1>1, <1>2, FS_Surjection

\* The number of expired attempts, of a task or of one operator, is a natural.
LEMMA ExpiredCount ==
  ASSUME NEW t
  PROVE  /\ IsFiniteSet(ExpiredAttempts(t))
         /\ Cardinality(ExpiredAttempts(t)) \in Nat
         /\ \A o : Cardinality(ExpiredAttemptsOf(t, o)) \in Nat
<1>1. ExpiredAttempts(t) \subseteq AttemptKeys
  BY DEF ExpiredAttempts
<1>2. \A o : ExpiredAttemptsOf(t, o) \subseteq AttemptKeys
  BY <1>1 DEF ExpiredAttemptsOf
<1> QED BY <1>1, <1>2, AttemptKeysFinite, FS_Subset, FS_CardinalityType

\* A sum of rates is a natural.
LEMMA SumRatesNat ==
  ASSUME NEW S \in SUBSET Slots
  PROVE  IsFiniteSet(Units(S)) /\ SumRates(S) \in Nat
<1>1. IsFiniteSet(S)
  BY SlotsFinite, FS_Subset
<1>2. IsFiniteSet(Rates)
  BY FS_Interval, RouterAssumption DEF Rates
<1>3. IsFiniteSet(S \X Rates)
  BY <1>1, <1>2, FS_Product
<1>4. Units(S) \subseteq S \X Rates
  BY DEF Units
<1> QED BY <1>3, <1>4, FS_Subset, FS_CardinalityType DEF SumRates

\* What _reap gives back to a purse is a natural number.
LEMMA ReapableSum ==
  \A x : SumRates(ReapableFrom(x)) \in Nat
  BY SumRatesNat DEF ReapableFrom, Reapable

-----------------------------------------------------------------------------
(* Types of the coordinator's storage *)

CoordStorageOK ==
  /\ nextTaskId \in Nat
  /\ tasks \in [Tasks -> TaskType]
  /\ attempts \in [AttemptKeys -> AttemptType]
  /\ verdicts \in [VerdictKeys -> VerdictType]
  /\ operatorLiveClaims \in [Accounts -> Nat]

\* reapExpired, where it does not revert, leaves well-typed storage.
LEMMA ReapedTypes ==
  ASSUME CoordTypeOK, NEW t \in Tasks, CanReapExpired(t)
  PROVE  /\ ReapedTasks(t) \in [Tasks -> TaskType]
         /\ ReapedAttempts(t) \in [AttemptKeys -> AttemptType]
         /\ ReapedVerdicts(t) \in [VerdictKeys -> VerdictType]
         /\ ReapedLiveClaims(t) \in [Accounts -> Nat]
<1>1. tasks[t].liveOccupancy - Cardinality(ExpiredAttempts(t)) \in Nat
  BY ExpiredCount DEF CanReapExpired, CoordTypeOK, TaskType
<1>2. ReapedTasks(t) \in [Tasks -> TaskType]
  BY <1>1 DEF ReapedTasks, CoordTypeOK, TaskType
<1>3. ReapedAttempts(t) \in [AttemptKeys -> AttemptType]
  BY DEF ReapedAttempts, CoordTypeOK, AttemptType, AttemptStatuses
<1>4. ReapedVerdicts(t) \in [VerdictKeys -> VerdictType]
  BY DEF ReapedVerdicts, CoordTypeOK, VerdictType, VerdictStatuses
<1>5. ReapedLiveClaims(t) \in [Accounts -> Nat]
  BY ExpiredCount DEF ReapedLiveClaims, CanReapExpired, CoordTypeOK
<1> QED BY <1>2, <1>3, <1>4, <1>5

\* The record updates the coordinator makes keep a record's type.
LEMMA TaskUpdates ==
  ASSUME NEW r \in TaskType, NEW m \in Nat, NEW n \in Nat
  PROVE  /\ [r EXCEPT !.liveOccupancy = m] \in TaskType
         /\ [r EXCEPT !.policy.maxTotal = m] \in TaskType
         /\ [r EXCEPT !.nextAttemptIndex = m, !.liveOccupancy = n] \in TaskType
         /\ [r EXCEPT !.status = "Closed", !.terminalCause = "CreatorClose"]
              \in TaskType
         /\ [r EXCEPT !.liveOccupancy = m, !.settledAttemptCount = n]
              \in TaskType
         /\ [r EXCEPT !.finalizedAttemptCount = m, !.creatorCredited = TRUE]
              \in TaskType
  BY DEF TaskType, PolicyType, TaskStatuses, TerminalCauses

\* The record updates of an attempt keep its type.
LEMMA AttemptUpdates ==
  ASSUME NEW r \in AttemptType, NEW st \in AttemptStatuses, NEW n \in Nat,
         NEW p \in Payloads
  PROVE  /\ [r EXCEPT !.digest = p, !.status = st] \in AttemptType
         /\ [r EXCEPT !.deliveredVerdictCount = n, !.status = st]
              \in AttemptType
  BY DEF AttemptType

\* The record updates of a verdict keep its type.
LEMMA VerdictUpdates ==
  ASSUME NEW r \in VerdictType, NEW st \in VerdictStatuses, NEW p \in Payloads
  PROVE  [r EXCEPT !.digest = p, !.status = st] \in VerdictType
  BY DEF VerdictType

\* createTask, in the coordinator.
LEMMA CreateTaskTypes ==
  ASSUME CoordTypeOK, NEW t \in Tasks, NEW c \in Accounts, NEW p \in Policies,
         CoordCreateTask(t, c, p)
  PROVE  CoordStorageOK'
<1>1. p \in PolicyType
  BY CoordinatorAssumption
<1>2. [NoTask EXCEPT !.creator = c, !.status = "Open", !.policy = p]
        \in TaskType
  BY <1>1 DEF NoTask, NoPolicy, TaskType, TaskStatuses, TerminalCauses
<1> QED BY <1>2 DEF CoordCreateTask, CoordTypeOK, CoordStorageOK

\* addAttempts, in the coordinator.
LEMMA AddAttemptsTypes ==
  ASSUME CoordTypeOK, NEW t \in Tasks, NEW n \in Nat, CoordAddAttempts(t, n)
  PROVE  CoordStorageOK'
<1> DEFINE T == ReapedTasks(t)
<1>1. CanReapExpired(t)
  BY DEF CoordAddAttempts
<1>2. T[t] \in TaskType /\ T[t].policy.maxTotal + n \in Nat
  BY <1>1, ReapedTypes DEF TaskType, PolicyType
<1>3. [T[t] EXCEPT !.policy.maxTotal = T[t].policy.maxTotal + n] \in TaskType
  BY <1>2, TaskUpdates
<1>4. tasks' = [T EXCEPT ![t] = [T[t] EXCEPT !.policy.maxTotal =
                                   T[t].policy.maxTotal + n]]
  BY DEF CoordAddAttempts
<1>5. tasks' \in [Tasks -> TaskType]
  BY <1>1, <1>3, <1>4, ReapedTypes
<1> QED BY <1>1, <1>5, ReapedTypes DEF CoordAddAttempts, CoordTypeOK,
           CoordStorageOK

\* claimTask, in the coordinator.
LEMMA ClaimTaskTypes ==
  ASSUME CoordTypeOK, NEW t \in Tasks, NEW o \in Accounts, NEW d \in Nat,
         CoordClaimTask(t, o, d)
  PROVE  CoordStorageOK'
<1> USE ReapedTypes DEF CoordClaimTask, CoordTypeOK
<1>1. tasks' \in [Tasks -> TaskType]
  BY DEF TaskType
<1>2. [NoAttempt EXCEPT !.operator = o, !.deadline = d, !.claimedAt = now,
                        !.status = "Live"] \in AttemptType
  BY DEF NoAttempt, AttemptType, AttemptStatuses
<1>3. attempts' \in [AttemptKeys -> AttemptType]
  BY <1>2
<1>4. operatorLiveClaims' \in [Accounts -> Nat]
  OBVIOUS
<1> QED BY <1>1, <1>3, <1>4 DEF CoordStorageOK

\* One Live attempt fewer, for the task and its operator.
LEMMA FreedTypes ==
  ASSUME NEW T \in [Tasks -> TaskType], NEW t \in Tasks,
         T[t].liveOccupancy >= 1
  PROVE  [T EXCEPT ![t].liveOccupancy = @ - 1] \in [Tasks -> TaskType]
<1>1. T[t] \in TaskType /\ T[t].liveOccupancy - 1 \in Nat
  BY DEF TaskType
<1>2. [T[t] EXCEPT !.liveOccupancy = T[t].liveOccupancy - 1] \in TaskType
  BY <1>1, TaskUpdates
<1> QED BY <1>2

\* A new status for one attempt keeps the attempts' type.
LEMMA AttemptStatusTypes ==
  ASSUME NEW A \in [AttemptKeys -> AttemptType], NEW k \in AttemptKeys,
         NEW st \in AttemptStatuses
  PROVE  [A EXCEPT ![k].status = st] \in [AttemptKeys -> AttemptType]
<1>1. [A[k] EXCEPT !.status = st] \in AttemptType
  BY DEF AttemptType
<1> QED BY <1>1

\* A new status for one verdict keeps the verdicts' type.
LEMMA VerdictStatusTypes ==
  ASSUME NEW V \in [VerdictKeys -> VerdictType], NEW k \in VerdictKeys,
         NEW st \in VerdictStatuses
  PROVE  [V EXCEPT ![k].status = st] \in [VerdictKeys -> VerdictType]
<1>1. [V[k] EXCEPT !.status = st] \in VerdictType
  BY DEF VerdictType
<1> QED BY <1>1

\* releaseAttempt, in the coordinator.
LEMMA ReleaseAttemptTypes ==
  ASSUME CoordTypeOK, NEW t \in Tasks, NEW i \in AttemptIndices,
         NEW o \in Accounts, CoordReleaseAttempt(t, i, o)
  PROVE  CoordStorageOK'
<1>0. CanReapExpired(t) /\ <<t, i>> \in AttemptKeys
  BY DEF CoordReleaseAttempt, AttemptKeys
<1>1. tasks' \in [Tasks -> TaskType]
  BY <1>0, ReapedTypes, FreedTypes DEF CoordReleaseAttempt
<1>2. attempts' \in [AttemptKeys -> AttemptType]
  BY <1>0, ReapedTypes, AttemptStatusTypes
     DEF CoordReleaseAttempt, AttemptStatuses
<1>3. operatorLiveClaims' \in [Accounts -> Nat]
  BY <1>0, ReapedTypes DEF CoordReleaseAttempt
<1> QED BY <1>0, <1>1, <1>2, <1>3, ReapedTypes
           DEF CoordReleaseAttempt, CoordTypeOK, CoordStorageOK

\* forfeitAttempt, in the coordinator, for a Live and for an Expired attempt.
LEMMA ForfeitAttemptTypes ==
  ASSUME CoordTypeOK, NEW t \in Tasks, NEW i \in AttemptIndices,
         CoordForfeitAttempt(t, i)
  PROVE  CoordStorageOK'
<1>0. <<t, i>> \in AttemptKeys
  BY DEF AttemptKeys
<1>1. tasks' \in [Tasks -> TaskType]
  BY FreedTypes DEF CoordForfeitAttempt, CoordTypeOK
<1>2. attempts' \in [AttemptKeys -> AttemptType]
  BY <1>0, AttemptStatusTypes
     DEF CoordForfeitAttempt, CoordTypeOK, AttemptStatuses
<1>3. operatorLiveClaims' \in [Accounts -> Nat]
  BY DEF CoordForfeitAttempt, CoordTypeOK
<1> QED BY <1>1, <1>2, <1>3
           DEF CoordForfeitAttempt, CoordTypeOK, CoordStorageOK

\* forfeitVerdict, in the coordinator.
LEMMA ForfeitVerdictTypes ==
  ASSUME CoordTypeOK, NEW k \in VerdictKeys, CoordForfeitVerdict(k)
  PROVE  CoordStorageOK'
  BY VerdictStatusTypes DEF CoordForfeitVerdict, CoordTypeOK, CoordStorageOK,
     VerdictStatuses

\* closeTask, and a reap alone, in the coordinator.
LEMMA CloseTaskTypes ==
  ASSUME CoordTypeOK, NEW t \in Tasks, CoordCloseTask(t) \/ CoordReap(t)
  PROVE  CoordStorageOK'
<1> DEFINE T == ReapedTasks(t)
<1>1. CASE CoordCloseTask(t)
  <2>1. CanReapExpired(t)
    BY <1>1 DEF CoordCloseTask
  <2>2. [T[t] EXCEPT !.status = "Closed", !.terminalCause = "CreatorClose"]
          \in TaskType
    BY <2>1, ReapedTypes, TaskUpdates
  <2>3. tasks' = [T EXCEPT ![t] = [T[t] EXCEPT
                    !.status = "Closed", !.terminalCause = "CreatorClose"]]
    BY <1>1, <2>1, ReapedTypes DEF CoordCloseTask
  <2>4. tasks' \in [Tasks -> TaskType]
    BY <2>1, <2>2, <2>3, ReapedTypes
  <2> QED BY <1>1, <2>1, <2>4, ReapedTypes
             DEF CoordCloseTask, CoordStorageOK, CoordTypeOK
<1>2. CASE CoordReap(t)
  BY <1>2, ReapedTypes DEF CoordReap, CoordStorageOK, CoordTypeOK
<1> QED BY <1>1, <1>2

\* _maybeMarkCapacityExhausted keeps a task's type.
LEMMA MarkCapacityType ==
  ASSUME NEW r \in TaskType
  PROVE  MarkCapacity(r) \in TaskType
  BY DEF MarkCapacity, TaskType, TerminalCauses

\* recordSolutionDelivery, in the coordinator.
LEMMA RecordSolutionTypes ==
  ASSUME CoordTypeOK, NEW t \in Tasks, NEW i \in AttemptIndices,
         NEW o \in Accounts, NEW p \in Payloads,
         CoordRecordSolutionDelivery(t, i, o, p)
  PROVE  CoordStorageOK'
<1> DEFINE r == tasks[t]
           k == <<t, i>>
<1>1. r \in TaskType /\ r.liveOccupancy - 1 \in Nat
        /\ r.settledAttemptCount + 1 \in Nat
  BY DEF CoordRecordSolutionDelivery, CoordTypeOK, TaskType
<1>2. [r EXCEPT !.liveOccupancy = r.liveOccupancy - 1,
                !.settledAttemptCount = r.settledAttemptCount + 1] \in TaskType
  BY <1>1, TaskUpdates
<1>3. tasks' \in [Tasks -> TaskType]
  BY <1>2, MarkCapacityType DEF CoordRecordSolutionDelivery, CoordTypeOK
<1>4. k \in AttemptKeys /\ attempts[k] \in AttemptType
  BY DEF AttemptKeys, CoordTypeOK
<1>5. [attempts[k] EXCEPT !.digest = p, !.status = "Submitted"] \in AttemptType
  BY <1>4, AttemptUpdates DEF AttemptStatuses
<1>6. attempts' = [attempts EXCEPT ![k] = [attempts[k] EXCEPT
                     !.digest = p, !.status = "Submitted"]]
  BY <1>4 DEF CoordRecordSolutionDelivery, CoordTypeOK
<1>7. attempts' \in [AttemptKeys -> AttemptType]
  BY <1>4, <1>5, <1>6 DEF CoordTypeOK
<1>8. operatorLiveClaims' \in [Accounts -> Nat]
  BY DEF CoordRecordSolutionDelivery, CoordTypeOK
<1> QED BY <1>3, <1>7, <1>8
           DEF CoordRecordSolutionDelivery, CoordTypeOK, CoordStorageOK

\* claimEvaluation, in the coordinator.
LEMMA ClaimEvaluationTypes ==
  ASSUME CoordTypeOK, NEW t \in Tasks, NEW i \in AttemptIndices,
         NEW e \in Accounts, NEW d \in Nat,
         CoordClaimEvaluation(t, i, e, d)
  PROVE  CoordStorageOK'
<1> DEFINE A == ReapedAttempts(t)
           k == <<t, i>>
<1>1. CanReapExpired(t) /\ k \in AttemptKeys
  BY DEF CoordClaimEvaluation, AttemptKeys
<1>2. A[k] \in AttemptType /\ A[k].nextVerdictIndex + 1 \in Nat
  BY <1>1, ReapedTypes DEF AttemptType
<1>3. [A[k] EXCEPT !.nextVerdictIndex = A[k].nextVerdictIndex + 1]
        \in AttemptType
  BY <1>2 DEF AttemptType
<1>4. attempts' \in [AttemptKeys -> AttemptType]
  BY <1>1, <1>3, ReapedTypes DEF CoordClaimEvaluation
<1>5. [NoVerdict EXCEPT !.evaluator = e, !.deadline = d, !.claimedAt = now,
                        !.status = "Live"] \in VerdictType
  BY DEF NoVerdict, VerdictType, VerdictStatuses, CoordTypeOK
<1>6. verdicts' \in [VerdictKeys -> VerdictType]
  BY <1>1, <1>5, ReapedTypes DEF CoordClaimEvaluation
<1> QED BY <1>1, <1>4, <1>6, ReapedTypes
           DEF CoordClaimEvaluation, CoordTypeOK, CoordStorageOK

\* releaseVerdict, in the coordinator.
LEMMA ReleaseVerdictTypes ==
  ASSUME CoordTypeOK, NEW k \in VerdictKeys, NEW e \in Accounts,
         CoordReleaseVerdict(k, e)
  PROVE  CoordStorageOK'
<1>1. k[1] \in Tasks /\ CanReapExpired(k[1])
  BY DEF VerdictKeys, CoordReleaseVerdict
<1>2. verdicts' \in [VerdictKeys -> VerdictType]
  BY <1>1, ReapedTypes, VerdictStatusTypes
     DEF CoordReleaseVerdict, VerdictStatuses
<1> QED BY <1>1, <1>2, ReapedTypes
           DEF CoordReleaseVerdict, CoordTypeOK, CoordStorageOK

\* recordVerdict, in the coordinator, with or without finalization.
LEMMA RecordVerdictTypes ==
  ASSUME CoordTypeOK, NEW k \in VerdictKeys, NEW e \in Accounts,
         NEW p \in Payloads, CoordRecordVerdict(k, e, p)
  PROVE  CoordStorageOK'
<1> DEFINE t == k[1]
           a == <<k[1], k[2]>>
           st == IF Finalizes(k) THEN "Finalized" ELSE attempts[a].status
<1>1. t \in Tasks /\ a \in AttemptKeys
  BY DEF VerdictKeys, AttemptKeys
<1>2. verdicts' \in [VerdictKeys -> VerdictType]
  <2>1. [verdicts[k] EXCEPT !.digest = p, !.status = "Delivered"]
          \in VerdictType
    BY VerdictUpdates DEF CoordTypeOK, VerdictStatuses
  <2>2. verdicts' = [verdicts EXCEPT ![k] = [verdicts[k] EXCEPT
                       !.digest = p, !.status = "Delivered"]]
    BY DEF CoordRecordVerdict, CoordTypeOK
  <2> QED BY <2>1, <2>2 DEF CoordTypeOK
<1>3. attempts' \in [AttemptKeys -> AttemptType]
  <2>1. /\ attempts[a] \in AttemptType
        /\ attempts[a].deliveredVerdictCount + 1 \in Nat
        /\ st \in AttemptStatuses
    BY <1>1 DEF CoordTypeOK, AttemptType, AttemptStatuses
  <2>2. [attempts[a] EXCEPT
           !.deliveredVerdictCount = attempts[a].deliveredVerdictCount + 1,
           !.status = st] \in AttemptType
    BY <2>1, AttemptUpdates
  <2>3. attempts' = [attempts EXCEPT ![a] = [attempts[a] EXCEPT
           !.deliveredVerdictCount = attempts[a].deliveredVerdictCount + 1,
           !.status = st]]
    BY <1>1 DEF CoordRecordVerdict, CoordTypeOK
  <2> QED BY <1>1, <2>2, <2>3 DEF CoordTypeOK
<1>4. tasks' \in [Tasks -> TaskType]
  <2>1. tasks[t] \in TaskType /\ tasks[t].finalizedAttemptCount + 1 \in Nat
    BY <1>1 DEF CoordTypeOK, TaskType
  <2>2. [tasks[t] EXCEPT
           !.finalizedAttemptCount = tasks[t].finalizedAttemptCount + 1,
           !.creatorCredited = TRUE] \in TaskType
    BY <2>1, TaskUpdates
  <2> QED BY <1>1, <2>2, MarkCapacityType DEF CoordRecordVerdict, CoordTypeOK
<1> QED BY <1>2, <1>3, <1>4 DEF CoordRecordVerdict, CoordTypeOK,
           CoordStorageOK

-----------------------------------------------------------------------------
(* Types of the router's storage and of what surrounds it *)

EscrowOK ==
  /\ maxRate \in [Purses -> Nat]
  /\ remaining \in [Purses -> Nat]
  /\ reserved \in [Purses -> Nat]
  /\ spentOut \in [Purses -> Nat]
  /\ deposited \in [Purses -> Nat]
  /\ refunded \in [Purses -> Nat]
  /\ reservations \in [Slots -> ReservationType \cup {NoReservation}]
  /\ preparations \in [Slots -> RequestType \cup {NoRequest}]
  /\ claimed \subseteq RequestType
  /\ delivered \subseteq RequestType
  /\ nonce \in Nat
  /\ routerBalance \in Nat
  /\ endedBy \in [Slots -> Accounts \cup {NoOne}]

AroundOK ==
  /\ now \in Nat
  /\ authorizedRouter \in BOOLEAN
  /\ activityChecker \in BOOLEAN
  /\ mechOperator \in [Mechs -> Accounts]
  /\ credits \in [Accounts -> Nat]
  /\ creationCredited \subseteq Tasks

\* TypeOK is the types of the coordinator, the escrow and what is around it.
LEMMA TypeOKParts ==
  /\ TypeOK <=> CoordStorageOK /\ EscrowOK /\ AroundOK
  /\ TypeOK' <=> CoordStorageOK' /\ EscrowOK' /\ AroundOK'
  BY DEF TypeOK, CoordTypeOK, CoordStorageOK, EscrowOK, AroundOK

\* The purse of a slot is one of its task's two.
LEMMA PurseInPurses ==
  ASSUME NEW s \in Slots
  PROVE  Purse(s) \in Purses /\ Purse(s)[1] = s[1] /\ s[1] \in Tasks
  BY DEF Slots, Purse, Purses, Kind, Kinds

\* An open reservation has a party, a Mech and a rate.
LEMMA OpenReservation ==
  ASSUME EscrowOK, NEW s \in Slots, Open(s)
  PROVE  /\ reservations[s] \in ReservationType
         /\ reservations[s].party \in Accounts
         /\ reservations[s].mech \in Mechs
         /\ reservations[s].rate \in Rates /\ reservations[s].rate \in Nat
         /\ \A st \in ReservationStates \ {"None"} :
              [reservations[s] EXCEPT !.state = st] \in ReservationType
<1>1. reservations[s] \in ReservationType
  BY DEF EscrowOK, Open, NoReservation
<1> QED BY <1>1, RouterAssumption DEF ReservationType, Rates

\* _reap, where it does not revert, leaves well-typed storage.
LEMMA ReapedEscrow ==
  ASSUME EscrowOK, NEW t \in Tasks, CanReap(t)
  PROVE  /\ ReapedRemaining(t) \in [Purses -> Nat]
         /\ ReapedReserved(t) \in [Purses -> Nat]
         /\ ReapedReservations(t)
              \in [Slots -> ReservationType \cup {NoReservation}]
         /\ ReapedPreparations(t) \in [Slots -> RequestType \cup {NoRequest}]
<1>1. ReapedRemaining(t) \in [Purses -> Nat]
  BY ReapableSum DEF ReapedRemaining, EscrowOK
<1>2. ReapedReserved(t) \in [Purses -> Nat]
  BY ReapableSum DEF ReapedReserved, EscrowOK, CanReap
<1>3. ASSUME NEW s \in Slots, s \in Reapable(t)
      PROVE  [reservations[s] EXCEPT !.state = "Released"] \in ReservationType
  BY <1>3, OpenReservation DEF Reapable, Lapsed, ReservationStates
<1>4. ReapedReservations(t) \in [Slots -> ReservationType \cup {NoReservation}]
  BY <1>3 DEF ReapedReservations, EscrowOK
<1>5. ReapedPreparations(t) \in [Slots -> RequestType \cup {NoRequest}]
  BY DEF ReapedPreparations, EscrowOK
<1> QED BY <1>1, <1>2, <1>4, <1>5

\* A budget is a natural.
LEMMA BudgetNat ==
  ASSUME NEW n \in Nat, NEW r \in Nat, NEW m \in Nat
  PROVE  SolutionBudget(n, r) \in Nat /\ VerdictBudget(n, r, m) \in Nat
<1>1. r * n \in Nat
  OBVIOUS
<1>2. r * n * m \in Nat
  BY <1>1
<1> QED BY <1>1, <1>2 DEF SolutionBudget, VerdictBudget

\* Setting or adding to a task's two purses keeps an amount per purse.
LEMMA PurseUpdates ==
  ASSUME NEW f \in [Purses -> Nat], NEW t \in Tasks, NEW a \in Nat, NEW b \in Nat
  PROVE  /\ SetPurses(f, t, a, b) \in [Purses -> Nat]
         /\ AddToPurses(f, t, a, b) \in [Purses -> Nat]
  BY DEF SetPurses, AddToPurses, Purses, Kinds

\* createTask, in the escrow.
LEMMA CreateTaskEscrow ==
  ASSUME EscrowOK, NEW t \in Tasks, NEW c, NEW p \in PolicyType,
         NEW r1 \in Rates, NEW r2 \in Rates, createTask(t, c, p, r1, r2)
  PROVE  EscrowOK'
<1>1. /\ r1 \in Nat /\ r2 \in Nat
      /\ SolutionBudget(p.maxTotal, r1) \in Nat
      /\ VerdictBudget(p.maxTotal, r2, p.minVerdicts) \in Nat
  <2>1. r1 \in Nat /\ r2 \in Nat /\ p.maxTotal \in Nat /\ p.minVerdicts \in Nat
    BY RouterAssumption DEF Rates, PolicyType
  <2> QED BY <2>1, BudgetNat
<1>2. /\ maxRate' \in [Purses -> Nat]
      /\ remaining' \in [Purses -> Nat]
      /\ reserved' \in [Purses -> Nat]
      /\ spentOut' \in [Purses -> Nat]
      /\ deposited' \in [Purses -> Nat]
  BY <1>1, PurseUpdates DEF createTask, EscrowOK
<1>3. routerBalance' \in Nat
  BY <1>1 DEF createTask, EscrowOK
<1>4. UNCHANGED <<refunded, reservations, preparations, claimed, nonce,
                  delivered, endedBy>>
  BY DEF createTask, marketVars
<1> QED BY <1>2, <1>3, <1>4 DEF EscrowOK

\* addAttempts, in the escrow.
LEMMA AddAttemptsEscrow ==
  ASSUME TypeOK, NEW t \in Tasks, NEW n \in Nat, addAttempts(t, n)
  PROVE  EscrowOK'
<1>1. /\ SolutionBudget(n, maxRate[<<t, "solution">>]) \in Nat
      /\ VerdictBudget(n, maxRate[<<t, "verdict">>],
                       tasks[t].policy.minVerdicts) \in Nat
  <2>1. /\ maxRate[<<t, "solution">>] \in Nat
        /\ maxRate[<<t, "verdict">>] \in Nat
        /\ tasks[t].policy.minVerdicts \in Nat
    BY DEF TypeOK, CoordTypeOK, Purses, Kinds, TaskType, PolicyType
  <2> QED BY <2>1, BudgetNat
<1>2. EscrowOK /\ CanReap(t)
  BY TypeOKParts DEF addAttempts
<1>3. remaining' \in [Purses -> Nat] /\ deposited' \in [Purses -> Nat]
  BY <1>1, <1>2, ReapedEscrow, PurseUpdates DEF addAttempts, EscrowOK
<1>4. /\ reserved' \in [Purses -> Nat]
      /\ reservations' \in [Slots -> ReservationType \cup {NoReservation}]
      /\ preparations' \in [Slots -> RequestType \cup {NoRequest}]
  BY <1>2, ReapedEscrow DEF addAttempts
<1>5. routerBalance' \in Nat
  BY <1>1, <1>2 DEF addAttempts, EscrowOK
<1>6. UNCHANGED <<maxRate, spentOut, refunded, claimed, nonce, delivered,
                  endedBy>>
  BY DEF addAttempts, marketVars
<1> QED BY <1>2, <1>3, <1>4, <1>5, <1>6 DEF EscrowOK

\* _refundUnreserved, in the escrow: the balance does not go negative.
LEMMA RefundEscrow ==
  ASSUME EscrowOK, NEW t \in Tasks, CanReap(t), RefundUnreserved(t)
  PROVE  EscrowOK'
<1>1. /\ ReapedRemaining(t)[<<t, "solution">>] \in Nat
      /\ ReapedRemaining(t)[<<t, "verdict">>] \in Nat
  BY ReapedEscrow DEF Purses, Kinds
<1>2. routerBalance' \in Nat
  BY <1>1 DEF RefundUnreserved, EscrowOK
<1>3. /\ remaining' \in [Purses -> Nat]
      /\ refunded' \in [Purses -> Nat]
  BY ReapedEscrow DEF RefundUnreserved, EscrowOK
<1>4. /\ reserved' \in [Purses -> Nat]
      /\ reservations' \in [Slots -> ReservationType \cup {NoReservation}]
      /\ preparations' \in [Slots -> RequestType \cup {NoRequest}]
  BY ReapedEscrow DEF RefundUnreserved
<1>5. UNCHANGED <<maxRate, spentOut, deposited, claimed, nonce, delivered,
                  endedBy>>
  BY DEF RefundUnreserved, marketVars
<1> QED BY <1>2, <1>3, <1>4, <1>5 DEF EscrowOK

\* Both claims, in the escrow: the remaining budget does not go negative.
LEMMA ReserveEscrow ==
  ASSUME EscrowOK, NEW s \in Slots, NEW party \in Accounts, NEW mech \in Mechs,
         NEW rate \in Rates, NEW d \in Nat, Reserve(s, party, mech, rate, d)
  PROVE  EscrowOK'
<1>1. CanReap(s[1]) /\ rate \in Nat
  BY RouterAssumption DEF Reserve, Rates
<1>2. [state |-> "Open", party |-> party, mech |-> mech, rate |-> rate,
       deadline |-> d] \in ReservationType
  BY DEF ReservationType, ReservationStates
<1>3. /\ remaining' \in [Purses -> Nat]
      /\ reserved' \in [Purses -> Nat]
  BY <1>1, PurseInPurses, ReapedEscrow DEF Reserve
<1>4. /\ reservations' \in [Slots -> ReservationType \cup {NoReservation}]
      /\ preparations' \in [Slots -> RequestType \cup {NoRequest}]
  BY <1>1, <1>2, PurseInPurses, ReapedEscrow DEF Reserve
<1> QED BY <1>3, <1>4 DEF Reserve, EscrowOK, marketVars

\* Both prepares, in the escrow.
LEMMA PrepareEscrow ==
  ASSUME EscrowOK, NEW s \in Slots, NEW p \in Payloads, Prepare(s, p)
  PROVE  EscrowOK'
<1>1. [mech |-> reservations[s].mech, slot |-> s, payload |-> p,
       rate |-> reservations[s].rate, nonce |-> nonce] \in RequestType
  BY OpenReservation DEF Prepare, Live, RequestType, EscrowOK
<1> QED BY <1>1 DEF Prepare, EscrowOK, purseVars, marketVars

\* The Mech marketplace's delivery, in the escrow.
LEMMA DeliverEscrow ==
  ASSUME EscrowOK, NEW s \in Slots, deliverMarketplaceWithSignatures(s)
  PROVE  EscrowOK'
<1>1. preparations[s] \in RequestType /\ preparations[s].rate \in Nat
  BY RouterAssumption DEF deliverMarketplaceWithSignatures, isValidSignature,
     EscrowOK, RequestType, Rates
<1> QED BY <1>1 DEF deliverMarketplaceWithSignatures,
                    adjustMechRequesterBalances, EscrowOK, purseVars

\* Settlement, in the escrow: the reserved total does not go negative.
LEMMA SettleEscrow ==
  ASSUME EscrowOK, NEW s \in Slots, NEW c \in Accounts, Open(s),
         preparations[s] \in RequestType, Settle(s, c)
  PROVE  EscrowOK'
<1>1. /\ reserved' \in [Purses -> Nat]
      /\ spentOut' \in [Purses -> Nat]
  BY PurseInPurses, OpenReservation DEF Settle, EscrowOK
<1>2. reservations' \in [Slots -> ReservationType \cup {NoReservation}]
  BY OpenReservation DEF Settle, EscrowOK, ReservationStates
<1> QED BY <1>1, <1>2 DEF Settle, EscrowOK, marketVars

\* Both releases, in the escrow.
LEMMA ReleaseEscrow ==
  ASSUME EscrowOK, now \in Nat, NEW s \in Slots, Release(s)
  PROVE  EscrowOK'
<1>1. CanReap(s[1]) /\ Open(s) /\ s \notin Reapable(s[1])
  <2>1. CanReap(s[1]) /\ Live(s)
    BY DEF Release
  <2>2. reservations[s].deadline \in Nat
    BY <2>1, OpenReservation DEF Live, ReservationType
  <2> QED BY <2>1, <2>2 DEF Live, Reapable, Lapsed
<1>2. /\ remaining' \in [Purses -> Nat]
      /\ reserved' \in [Purses -> Nat]
  BY <1>1, PurseInPurses, ReapedEscrow, OpenReservation DEF Release
<1>3. ReapedReservations(s[1])[s] = reservations[s]
  BY <1>1 DEF ReapedReservations
<1>4. reservations' \in [Slots -> ReservationType \cup {NoReservation}]
  BY <1>1, <1>3, PurseInPurses, ReapedEscrow, OpenReservation
     DEF Release, ReservationStates
<1> QED BY <1>1, <1>2, <1>4, PurseInPurses, ReapedEscrow, OpenReservation
           DEF Release, EscrowOK, marketVars

-----------------------------------------------------------------------------
(* One action at a time *)

\* A slot names a task and an attempt, and a verdict's slot its verdict.
LEMMA SlotParts ==
  ASSUME NEW s \in Slots
  PROVE  /\ s[1] \in Tasks /\ s[2] \in AttemptIndices /\ s[3] \in Legs
         /\ <<s[1], s[2]>> \in AttemptKeys
         /\ s[3] # 0 => s \in VerdictKeys
<1>1. /\ s[1] \in Tasks /\ s[2] \in AttemptIndices /\ s[3] \in Legs
      /\ s = <<s[1], s[2], s[3]>>
  BY DEF Slots
<1>2. s[3] # 0 => s[3] \in VerdictLegs
  BY <1>1, CoordinatorAssumption DEF Legs, VerdictLegs
<1> QED BY <1>1, <1>2 DEF AttemptKeys, VerdictKeys

\* The solution and the verdict slots are slots.
LEMMA KeySlots ==
  /\ \A t \in Tasks, i \in AttemptIndices : <<t, i, 0>> \in Slots
  /\ \A k \in VerdictKeys : k \in Slots /\ k[3] # 0
  /\ \A k \in AttemptKeys : k[1] \in Tasks /\ k[2] \in AttemptIndices
<1>1. 0 \in Legs /\ \A l \in VerdictLegs : l \in Legs /\ l # 0
  BY CoordinatorAssumption DEF Legs, VerdictLegs
<1> QED BY <1>1 DEF Slots, VerdictKeys, AttemptKeys

\* The deadline both claims set.
LEMMA DeadlineNat ==
  ASSUME CoordTypeOK, NEW t \in Tasks
  PROVE  now + tasks[t].policy.responseTimeout \in Nat
<1>1. tasks[t].policy.responseTimeout \in Nat /\ now \in Nat
  BY DEF CoordTypeOK, TaskType, PolicyType
<1> QED BY <1>1

\* createTask preserves TypeOK.
LEMMA CreateTaskTypeOK ==
  ASSUME TypeOK, NEW t \in Tasks, NEW c \in Accounts, NEW p \in Policies,
         NEW r1 \in Rates, NEW r2 \in Rates, createTask(t, c, p, r1, r2)
  PROVE  TypeOK'
<1>1. CoordTypeOK /\ EscrowOK /\ AroundOK /\ p \in PolicyType
  BY TypeOKParts, CoordinatorAssumption DEF TypeOK
<1>2. CoordStorageOK'
  BY <1>1, CreateTaskTypes DEF createTask
<1>3. EscrowOK'
  BY <1>1, CreateTaskEscrow
<1>4. AroundOK'
  BY <1>1 DEF createTask, AroundOK, creditVars
<1> QED BY <1>2, <1>3, <1>4, TypeOKParts

\* addAttempts, closeTask and the refund preserve TypeOK.
LEMMA CreatorStepTypeOK ==
  ASSUME TypeOK, NEW t \in Tasks, CreatorStep(t)
  PROVE  TypeOK'
<1>1. CoordTypeOK /\ EscrowOK /\ AroundOK
  BY TypeOKParts DEF TypeOK
<1>2. ASSUME NEW n \in 1..MaxAttempts, addAttempts(t, n) PROVE TypeOK'
  <2>1. n \in Nat
    BY CoordinatorAssumption
  <2>2. CoordStorageOK' /\ EscrowOK'
    BY <1>1, <1>2, <2>1, AddAttemptsTypes, AddAttemptsEscrow DEF addAttempts
  <2>3. AroundOK'
    BY <1>1, <1>2 DEF addAttempts, AroundOK, creditVars
  <2> QED BY <2>2, <2>3, TypeOKParts
<1>3. ASSUME closeTask(t) \/ refundUnusedTaskBudget(t) PROVE TypeOK'
  <2>1. /\ CanReap(t) /\ RefundUnreserved(t)
        /\ CoordCloseTask(t) \/ CoordReap(t)
    BY <1>3 DEF closeTask, refundUnusedTaskBudget
  <2>2. CoordStorageOK' /\ EscrowOK'
    BY <1>1, <2>1, CloseTaskTypes, RefundEscrow
  <2>3. AroundOK'
    BY <1>1, <2>1 DEF RefundUnreserved, AroundOK, creditVars
  <2> QED BY <2>2, <2>3, TypeOKParts
<1> QED BY <1>2, <1>3 DEF CreatorStep

\* claimTask and claimEvaluation preserve TypeOK.
LEMMA ClaimStepTypeOK ==
  ASSUME TypeOK, NEW t \in Tasks, ClaimStep(t)
  PROVE  TypeOK'
<1>1. CoordTypeOK /\ EscrowOK /\ AroundOK
  BY TypeOKParts DEF TypeOK
<1> DEFINE d == now + tasks[t].policy.responseTimeout
<1>2. d \in Nat
  BY <1>1, DeadlineNat
<1>3. ASSUME NEW s \in Slots, NEW o \in Accounts, NEW m \in Mechs,
             NEW r \in Rates, Reserve(s, o, m, r, d)
      PROVE  EscrowOK' /\ AroundOK'
  <2>1. EscrowOK'
    BY <1>1, <1>2, <1>3, ReserveEscrow
  <2>2. AroundOK'
    BY <1>1, <1>3 DEF Reserve, AroundOK, creditVars
  <2> QED BY <2>1, <2>2
<1>4. ASSUME NEW o \in Accounts, NEW m \in Mechs, NEW r \in Rates,
             claimTask(t, o, m, r)
      PROVE  TypeOK'
  <2>1. CoordStorageOK'
    BY <1>1, <1>2, <1>4, ClaimTaskTypes DEF claimTask
  <2>2. <<t, tasks[t].nextAttemptIndex, 0>> \in Slots
    BY <1>4, KeySlots DEF claimTask
  <2> QED BY <1>3, <1>4, <2>1, <2>2, TypeOKParts DEF claimTask
<1>5. ASSUME NEW o \in Accounts, NEW m \in Mechs, NEW r \in Rates,
             NEW i \in AttemptIndices, claimEvaluation(t, i, o, m, r)
      PROVE  TypeOK'
  <2>1. CoordStorageOK'
    BY <1>1, <1>2, <1>5, ClaimEvaluationTypes DEF claimEvaluation
  <2>2. <<t, i, attempts[<<t, i>>].nextVerdictIndex + 1>> \in Slots
    BY <1>5, KeySlots DEF claimEvaluation, VerdictKeys
  <2> QED BY <1>3, <1>5, <2>1, <2>2, TypeOKParts DEF claimEvaluation
<1> QED BY <1>4, <1>5 DEF ClaimStep

\* A claimable request is that of an open slot, prepared.
LEMMA ClaimableSlot ==
  ASSUME EscrowOK, NEW req \in delivered, CanClaimDelivery(req.slot, req)
  PROVE  /\ req \in RequestType
         /\ req.slot \in Slots /\ Open(req.slot) /\ req.payload \in Payloads
         /\ preparations[req.slot] \in RequestType
         /\ reservations[req.slot].party \in Accounts
<1>1. req \in RequestType /\ req.slot \in Slots /\ req.payload \in Payloads
  BY DEF EscrowOK, RequestType
<1>2. Open(req.slot) /\ preparations[req.slot] = req
  BY DEF CanClaimDelivery, Live
<1> QED BY <1>1, <1>2, OpenReservation

\* Credits stay naturals: each verdict adds at most three.
LEMMA CreditTypes ==
  ASSUME AroundOK, NEW k, k[1] \in Tasks, FinalizeVerdictCredit(k)
  PROVE  /\ credits' \in [Accounts -> Nat]
         /\ creationCredited' \subseteq Tasks
<1>1. \A o : Weight(k, o) \in Nat
  BY DEF Weight
<1>2. CASE activityChecker
  BY <1>1, <1>2 DEF FinalizeVerdictCredit, AroundOK
<1>3. CASE ~activityChecker
  BY <1>3 DEF FinalizeVerdictCredit, AroundOK, creditVars
<1> QED BY <1>2, <1>3

\* Preparation, delivery and settlement preserve TypeOK.
LEMMA DeliveryStepTypeOK ==
  ASSUME TypeOK, DeliveryStep
  PROVE  TypeOK'
<1>1. CoordTypeOK /\ CoordStorageOK /\ EscrowOK /\ AroundOK
  BY TypeOKParts DEF TypeOK
<1>2. ASSUME NEW s \in Slots, NEW p \in Payloads, Prepare(s, p)
      PROVE  TypeOK'
  <2>1. CoordStorageOK' /\ AroundOK'
    BY <1>1, <1>2 DEF Prepare, CoordStorageOK, AroundOK, coordVars, creditVars
  <2> QED BY <1>1, <1>2, <2>1, PrepareEscrow, TypeOKParts
<1>3. ASSUME NEW s \in Slots, deliverMarketplaceWithSignatures(s)
      PROVE  TypeOK'
  <2>1. CoordStorageOK' /\ AroundOK'
    BY <1>1, <1>3 DEF deliverMarketplaceWithSignatures, CoordStorageOK,
       AroundOK, coordVars, creditVars
  <2> QED BY <1>1, <1>3, <2>1, DeliverEscrow, TypeOKParts
<1>4. ASSUME NEW req \in delivered, claimSolutionDelivery(req)
      PROVE  TypeOK'
  <2> DEFINE s == req.slot
  <2>1. CanClaimDelivery(s, req) /\ Settle(s, reservations[s].party)
    BY <1>4 DEF claimSolutionDelivery
  <2>2. /\ s \in Slots /\ Open(s) /\ req.payload \in Payloads
        /\ preparations[s] \in RequestType /\ reservations[s].party \in Accounts
    BY <1>1, <2>1, ClaimableSlot
  <2>3. CoordStorageOK'
    BY <1>1, <1>4, <2>2, SlotParts, RecordSolutionTypes
       DEF claimSolutionDelivery
  <2>4. EscrowOK'
    BY <1>1, <2>1, <2>2, SettleEscrow
  <2>5. AroundOK'
    BY <1>1, <1>4 DEF claimSolutionDelivery, Settle, AroundOK, creditVars
  <2> QED BY <2>3, <2>4, <2>5, TypeOKParts
<1>5. ASSUME NEW req \in delivered, claimVerdictDelivery(req)
      PROVE  TypeOK'
  <2> DEFINE s == req.slot
  <2>1. /\ CanClaimDelivery(s, req) /\ Settle(s, reservations[s].party)
        /\ FinalizeVerdictCredit(s) /\ s[3] # 0
    BY <1>5 DEF claimVerdictDelivery
  <2>2. /\ s \in Slots /\ Open(s) /\ req.payload \in Payloads
        /\ preparations[s] \in RequestType /\ reservations[s].party \in Accounts
    BY <1>1, <2>1, ClaimableSlot
  <2>3. CoordStorageOK'
    BY <1>1, <1>5, <2>1, <2>2, SlotParts, RecordVerdictTypes
       DEF claimVerdictDelivery
  <2>4. EscrowOK'
    BY <1>1, <2>1, <2>2, SettleEscrow
  <2>5. credits' \in [Accounts -> Nat] /\ creationCredited' \subseteq Tasks
    BY <1>1, <2>1, <2>2, SlotParts, CreditTypes
  <2>6. AroundOK'
    BY <1>1, <2>1, <2>5 DEF Settle, AroundOK
  <2> QED BY <2>3, <2>4, <2>6, TypeOKParts
<1>6. ASSUME NEW k \in AttemptKeys, NEW p \in Payloads,
             prepareSolutionDelivery(k[1], k[2], p)
      PROVE  TypeOK'
  BY <1>2, <1>6, KeySlots DEF prepareSolutionDelivery
<1>7. ASSUME NEW k \in VerdictKeys, NEW p \in Payloads,
             prepareVerdictDelivery(k, p)
      PROVE  TypeOK'
  BY <1>2, <1>7, KeySlots DEF prepareVerdictDelivery
<1> QED BY <1>3, <1>4, <1>5, <1>6, <1>7 DEF DeliveryStep

\* Releases and forfeits preserve TypeOK.
LEMMA ExitStepTypeOK ==
  ASSUME TypeOK, ExitStep
  PROVE  TypeOK'
<1>1. CoordTypeOK /\ EscrowOK /\ AroundOK /\ now \in Nat
  BY TypeOKParts DEF TypeOK, CoordTypeOK
<1>2. ASSUME NEW s \in Slots, Release(s)
      PROVE  EscrowOK' /\ AroundOK' /\ reservations[s].party \in Accounts
  <2>1. Open(s)
    BY <1>2 DEF Release, Live
  <2>2. AroundOK'
    BY <1>1, <1>2 DEF Release, AroundOK, creditVars
  <2> QED BY <1>1, <1>2, <2>1, <2>2, ReleaseEscrow, OpenReservation
<1>3. ASSUME NEW k \in AttemptKeys, releaseAttempt(k[1], k[2]) PROVE TypeOK'
  <2>1. /\ Release(<<k[1], k[2], 0>>)
        /\ CoordReleaseAttempt(k[1], k[2], reservations[<<k[1], k[2], 0>>].party)
        /\ <<k[1], k[2], 0>> \in Slots
        /\ k[1] \in Tasks /\ k[2] \in AttemptIndices
    BY <1>3, KeySlots DEF releaseAttempt
  <2>2. CoordStorageOK'
    BY <1>1, <1>2, <2>1, ReleaseAttemptTypes
  <2> QED BY <1>2, <2>1, <2>2, TypeOKParts
<1>4. ASSUME NEW k \in VerdictKeys, releaseVerdict(k) PROVE TypeOK'
  <2>1. Release(k) /\ CoordReleaseVerdict(k, reservations[k].party) /\ k \in Slots
    BY <1>4, KeySlots DEF releaseVerdict
  <2>2. CoordStorageOK'
    BY <1>1, <1>2, <2>1, ReleaseVerdictTypes
  <2> QED BY <1>2, <2>1, <2>2, TypeOKParts
<1>5. ASSUME NEW s \in Slots, NEW c \in Accounts, CanForfeit(s, c),
             Settle(s, c), UNCHANGED creditVars
      PROVE  EscrowOK' /\ AroundOK'
  <2>1. Open(s) /\ preparations[s] \in RequestType
    BY <1>1, <1>5 DEF CanForfeit, Paid, EscrowOK
  <2>2. AroundOK'
    BY <1>1, <1>5 DEF Settle, AroundOK, creditVars
  <2> QED BY <1>1, <1>5, <2>1, <2>2, SettleEscrow
<1>6. ASSUME NEW s \in Slots, NEW c \in Accounts, forfeitSolution(s, c)
      PROVE  TypeOK'
  <2>1. CoordStorageOK'
    BY <1>1, <1>6, SlotParts, ForfeitAttemptTypes DEF forfeitSolution
  <2> QED BY <1>5, <1>6, <2>1, TypeOKParts DEF forfeitSolution
<1>7. ASSUME NEW s \in Slots, NEW c \in Accounts, forfeitVerdict(s, c)
      PROVE  TypeOK'
  <2>1. CoordStorageOK'
    BY <1>1, <1>7, SlotParts, ForfeitVerdictTypes DEF forfeitVerdict
  <2> QED BY <1>5, <1>7, <2>1, TypeOKParts DEF forfeitVerdict
<1> QED BY <1>3, <1>4, <1>6, <1>7 DEF ExitStep

\* The owners' actions, a Mech changing hands and the clock.
LEMMA OtherStepTypeOK ==
  ASSUME TypeOK, OwnerStep \/ Tick \/ UNCHANGED vars
  PROVE  TypeOK'
<1>1. CoordStorageOK /\ EscrowOK /\ AroundOK
  BY TypeOKParts
<1> SUFFICES CoordStorageOK' /\ EscrowOK' /\ AroundOK'
  BY TypeOKParts
<1> USE <1>1 DEF CoordStorageOK, EscrowOK, AroundOK, coordVars, purseVars,
                 marketVars, creditVars, routerVars
<1>2. CASE \E on \in BOOLEAN : setActivityChecker(on)
  BY <1>2 DEF setActivityChecker
<1>3. CASE \E on \in BOOLEAN : setAuthorizedRouter(on)
  BY <1>3 DEF setAuthorizedRouter
<1>4. CASE \E mech \in Mechs, o \in Accounts : changeMechOperator(mech, o)
  BY <1>4 DEF changeMechOperator
<1>5. CASE Tick
  BY <1>5 DEF Tick
<1>6. CASE UNCHANGED vars
  BY <1>6 DEF vars
<1> QED BY <1>2, <1>3, <1>4, <1>5, <1>6 DEF OwnerStep

\* Deployment satisfies TypeOK.
LEMMA InitTypeOK == Init => TypeOK
<1> SUFFICES ASSUME Init PROVE TypeOK
  OBVIOUS
<1>1. NoTask \in TaskType
  BY DEF NoTask, NoPolicy, TaskType, PolicyType, TaskStatuses, TerminalCauses
<1>2. NoAttempt \in AttemptType
  BY DEF NoAttempt, AttemptType, AttemptStatuses
<1>3. NoVerdict \in VerdictType
  BY DEF NoVerdict, VerdictType, VerdictStatuses
<1>4. CoordStorageOK /\ now \in Nat /\ authorizedRouter \in BOOLEAN
  BY <1>1, <1>2, <1>3 DEF Init, CoordInit, CoordStorageOK
<1>5. EscrowOK
  BY DEF Init, EscrowOK
<1>6. AroundOK
  BY <1>4, RouterAssumption DEF Init, AroundOK
<1> QED BY <1>4, <1>5, <1>6, TypeOKParts

\* Every transaction leaves well-typed storage; in particular no counter,
\* budget or balance of either contract goes below zero.
LEMMA StepTypeOK == TypeOK /\ [Next]_vars => TypeOK'
  BY CreateTaskTypeOK, CreatorStepTypeOK, ClaimStepTypeOK, DeliveryStepTypeOK,
     ExitStepTypeOK, OtherStepTypeOK DEF Next

\* Type correctness of both contracts' storage in every reachable state: no
\* unsigned subtraction of any transaction that succeeds wraps below zero.
THEOREM TypeCorrect == Spec => []TypeOK
  BY InitTypeOK, StepTypeOK, PTL DEF Spec

-----------------------------------------------------------------------------
(* Conservation, and who ends a reservation *)

-----------------------------------------------------------------------------
(* What a coordinator function leaves alone *)

\* No attempt or evaluation is allotted and no task created: the indices are
\* kept, and no attempt comes into being.
IndicesKept ==
  /\ nextTaskId' = nextTaskId
  /\ \A t \in Tasks : tasks'[t].nextAttemptIndex = tasks[t].nextAttemptIndex
  /\ \A k \in AttemptKeys :
       /\ attempts'[k].nextVerdictIndex = attempts[k].nextVerdictIndex
       /\ attempts[k].status = "None" => attempts'[k].status = "None"

StatusesKept == \A t \in Tasks : tasks'[t].status = tasks[t].status

\* reapExpired changes no index and no task status.
LEMMA ReapKeeps ==
  ASSUME CoordTypeOK, NEW t \in Tasks
  PROVE  /\ \A u \in Tasks :
              /\ ReapedTasks(t)[u].nextAttemptIndex = tasks[u].nextAttemptIndex
              /\ ReapedTasks(t)[u].status = tasks[u].status
         /\ \A k \in AttemptKeys :
              /\ ReapedAttempts(t)[k].nextVerdictIndex
                   = attempts[k].nextVerdictIndex
              /\ attempts[k].status = "None" =>
                   ReapedAttempts(t)[k].status = "None"
              /\ attempts[k].status # "Live" =>
                   ReapedAttempts(t)[k] = attempts[k]
<1>1. \A u \in Tasks :
        /\ ReapedTasks(t)[u].nextAttemptIndex = tasks[u].nextAttemptIndex
        /\ ReapedTasks(t)[u].status = tasks[u].status
  BY DEF ReapedTasks, CoordTypeOK, TaskType
<1>2. ASSUME NEW k \in AttemptKeys
      PROVE  /\ ReapedAttempts(t)[k].nextVerdictIndex
                  = attempts[k].nextVerdictIndex
             /\ attempts[k].status = "None" =>
                  ReapedAttempts(t)[k].status = "None"
             /\ attempts[k].status # "Live" =>
                  ReapedAttempts(t)[k] = attempts[k]
  BY DEF ReapedAttempts, ExpiredAttempts, CoordTypeOK, AttemptType
<1> QED BY <1>1, <1>2

\* MarkCapacity touches the terminal cause only.
LEMMA MarkCapacityKeeps ==
  ASSUME NEW r \in TaskType
  PROVE  /\ MarkCapacity(r).nextAttemptIndex = r.nextAttemptIndex
         /\ MarkCapacity(r).status = r.status
  BY DEF MarkCapacity, TaskType

\* closeTask changes the status of its own task only, and no index.
LEMMA CloseKeeps ==
  ASSUME CoordTypeOK, NEW t \in Tasks, CoordCloseTask(t)
  PROVE  /\ IndicesKept
         /\ tasks[t].status # "None"
         /\ \A u \in Tasks : u # t => tasks'[u].status = tasks[u].status
<1>1. CanReapExpired(t) /\ tasks[t].status = "Open"
  BY DEF CoordCloseTask
<1>2. ReapedTasks(t) \in [Tasks -> TaskType]
  BY <1>1, ReapedTypes
<1>3. \A u \in Tasks :
        /\ tasks'[u].nextAttemptIndex = ReapedTasks(t)[u].nextAttemptIndex
        /\ u # t => tasks'[u].status = ReapedTasks(t)[u].status
  BY <1>2 DEF CoordCloseTask, TaskType
<1>4. IndicesKept
  BY <1>3, ReapKeeps, ZenonT(30) DEF CoordCloseTask, IndicesKept
<1> QED BY <1>1, <1>3, <1>4, ReapKeeps

\* A reap with nothing after it changes no index and no status.
LEMMA ReapAloneKeeps ==
  ASSUME CoordTypeOK, NEW t \in Tasks, CoordReap(t)
  PROVE  IndicesKept /\ StatusesKept
  BY ReapKeeps DEF CoordReap, IndicesKept, StatusesKept

\* addAttempts changes a policy: no index, no status.
LEMMA AddAttemptsKeeps ==
  ASSUME CoordTypeOK, NEW t \in Tasks, NEW n \in Nat, CoordAddAttempts(t, n)
  PROVE  IndicesKept /\ StatusesKept
<1>1. ReapedTasks(t) \in [Tasks -> TaskType]
  BY ReapedTypes DEF CoordAddAttempts
<1>2. \A u \in Tasks :
        /\ tasks'[u].nextAttemptIndex = ReapedTasks(t)[u].nextAttemptIndex
        /\ tasks'[u].status = ReapedTasks(t)[u].status
  BY <1>1 DEF CoordAddAttempts, TaskType
<1> QED BY <1>2, ReapKeeps DEF CoordAddAttempts, IndicesKept, StatusesKept

\* releaseAttempt changes no index and no task status.
LEMMA ReleaseAttemptKeeps ==
  ASSUME CoordTypeOK, NEW t \in Tasks, NEW i \in AttemptIndices, NEW o,
         CoordReleaseAttempt(t, i, o)
  PROVE  IndicesKept /\ StatusesKept
<1>1. /\ ReapedTasks(t) \in [Tasks -> TaskType]
      /\ ReapedAttempts(t) \in [AttemptKeys -> AttemptType]
  BY ReapedTypes DEF CoordReleaseAttempt
<1>2. \A u \in Tasks :
        /\ tasks'[u].nextAttemptIndex = ReapedTasks(t)[u].nextAttemptIndex
        /\ tasks'[u].status = ReapedTasks(t)[u].status
  BY <1>1 DEF CoordReleaseAttempt, TaskType
<1>3. \A k \in AttemptKeys :
        /\ attempts'[k].nextVerdictIndex = ReapedAttempts(t)[k].nextVerdictIndex
        /\ ReapedAttempts(t)[k].status = "None" => attempts'[k].status = "None"
  BY <1>1 DEF CoordReleaseAttempt, AttemptType
<1> QED BY <1>2, <1>3, ReapKeeps
           DEF CoordReleaseAttempt, IndicesKept, StatusesKept

\* releaseVerdict changes no index and no task status.
LEMMA ReleaseVerdictKeeps ==
  ASSUME CoordTypeOK, NEW k \in VerdictKeys, NEW o, CoordReleaseVerdict(k, o)
  PROVE  IndicesKept /\ StatusesKept
<1>1. k[1] \in Tasks
  BY DEF VerdictKeys
<1> QED BY <1>1, ReapKeeps DEF CoordReleaseVerdict, IndicesKept, StatusesKept

\* A forfeit changes no index and no task status.
LEMMA ForfeitKeeps ==
  ASSUME CoordTypeOK, NEW s \in Slots,
         CoordForfeitAttempt(s[1], s[2]) \/ CoordForfeitVerdict(s)
  PROVE  IndicesKept /\ StatusesKept
<1>1. CASE CoordForfeitAttempt(s[1], s[2])
  <2>1. \A u \in Tasks :
          /\ tasks'[u].nextAttemptIndex = tasks[u].nextAttemptIndex
          /\ tasks'[u].status = tasks[u].status
    BY <1>1, SlotParts, SMTT(20) DEF CoordForfeitAttempt, CoordTypeOK, TaskType
  <2>2. \A k \in AttemptKeys :
          /\ attempts'[k].nextVerdictIndex = attempts[k].nextVerdictIndex
          /\ attempts[k].status = "None" => attempts'[k].status = "None"
    BY <1>1, SlotParts DEF CoordForfeitAttempt, CoordTypeOK, AttemptType
  <2> QED BY <1>1, <2>1, <2>2
             DEF CoordForfeitAttempt, IndicesKept, StatusesKept
<1>2. CASE CoordForfeitVerdict(s)
  BY <1>2 DEF CoordForfeitVerdict, IndicesKept, StatusesKept
<1> QED BY <1>1, <1>2

\* recordSolutionDelivery changes no index and no task status.
LEMMA RecordSolutionKeeps ==
  ASSUME CoordTypeOK, NEW t \in Tasks, NEW i \in AttemptIndices, NEW o, NEW p,
         CoordRecordSolutionDelivery(t, i, o, p)
  PROVE  IndicesKept /\ StatusesKept
<1> DEFINE r == [tasks[t] EXCEPT
                   !.liveOccupancy = tasks[t].liveOccupancy - 1,
                   !.settledAttemptCount = tasks[t].settledAttemptCount + 1]
<1>1. /\ r \in TaskType /\ r.nextAttemptIndex = tasks[t].nextAttemptIndex
      /\ r.status = tasks[t].status
  <2>1. tasks[t] \in TaskType /\ tasks[t].liveOccupancy - 1 \in Nat
          /\ tasks[t].settledAttemptCount + 1 \in Nat
    BY DEF CoordRecordSolutionDelivery, CoordTypeOK, TaskType
  <2> QED BY <2>1, TaskUpdates DEF TaskType
<1>2. tasks' = [tasks EXCEPT ![t] = MarkCapacity(r)]
  BY DEF CoordRecordSolutionDelivery
<1>3. \A u \in Tasks :
        /\ tasks'[u].nextAttemptIndex = tasks[u].nextAttemptIndex
        /\ tasks'[u].status = tasks[u].status
  BY <1>1, <1>2, MarkCapacityKeeps DEF CoordTypeOK
<1>4. \A k \in AttemptKeys :
        /\ attempts'[k].nextVerdictIndex = attempts[k].nextVerdictIndex
        /\ attempts[k].status = "None" => attempts'[k].status = "None"
  BY DEF CoordRecordSolutionDelivery, CoordTypeOK, AttemptType
<1> QED BY <1>3, <1>4
           DEF CoordRecordSolutionDelivery, IndicesKept, StatusesKept

\* recordVerdict changes no index and no task status.
LEMMA RecordVerdictKeeps ==
  ASSUME CoordTypeOK, NEW v \in VerdictKeys, NEW e, NEW p,
         CoordRecordVerdict(v, e, p)
  PROVE  IndicesKept /\ StatusesKept
<1> DEFINE t == v[1]
           a == <<v[1], v[2]>>
           r == [tasks[t] EXCEPT
                   !.finalizedAttemptCount = tasks[t].finalizedAttemptCount + 1,
                   !.creatorCredited = TRUE]
<1>0. t \in Tasks /\ a \in AttemptKeys
  BY DEF VerdictKeys, AttemptKeys
<1>1. /\ r \in TaskType /\ r.nextAttemptIndex = tasks[t].nextAttemptIndex
      /\ r.status = tasks[t].status
  <2>1. tasks[t] \in TaskType /\ tasks[t].finalizedAttemptCount + 1 \in Nat
    BY <1>0 DEF CoordTypeOK, TaskType
  <2> QED BY <2>1, TaskUpdates DEF TaskType
<1>2. tasks' = [tasks EXCEPT ![t] = MarkCapacity(r)] \/ tasks' = tasks
  BY DEF CoordRecordVerdict
<1>3. \A u \in Tasks :
        /\ tasks'[u].nextAttemptIndex = tasks[u].nextAttemptIndex
        /\ tasks'[u].status = tasks[u].status
  BY <1>0, <1>1, <1>2, MarkCapacityKeeps DEF CoordTypeOK
<1>4. \A k \in AttemptKeys :
        attempts'[k].nextVerdictIndex = attempts[k].nextVerdictIndex
  BY <1>0 DEF CoordRecordVerdict, CoordTypeOK, AttemptType
<1>5. \A k \in AttemptKeys :
        attempts[k].status = "None" => attempts'[k].status = "None"
  BY <1>0 DEF CoordRecordVerdict, CoordTypeOK, AttemptType, Finalizes
<1> QED BY <1>3, <1>4, <1>5 DEF CoordRecordVerdict, IndicesKept, StatusesKept

-----------------------------------------------------------------------------
(* Conservation *)

\* Nothing was refunded for, and nothing is known of, a task not yet created:
\* createTask sets the task's other totals but never resets refunded.
UnusedIsEmpty ==
  /\ \A t \in Tasks : t >= nextTaskId => tasks[t].status = "None"
  /\ \A x \in Purses : x[1] >= nextTaskId => refunded[x] = 0

ConservationInv == TypeOK /\ Conservation /\ UnusedIsEmpty

\* _reap moves what it gives back from reserved to remaining.
LEMMA ReapConserves ==
  ASSUME EscrowOK, NEW t, NEW x \in Purses
  PROVE  ReapedRemaining(t)[x] + ReapedReserved(t)[x] = remaining[x] + reserved[x]
<1>1. remaining[x] \in Nat /\ reserved[x] \in Nat
        /\ SumRates(ReapableFrom(x)) \in Nat
  BY ReapableSum DEF EscrowOK
<1> QED BY <1>1 DEF ReapedRemaining, ReapedReserved

\* A step that keeps refunded, the task ids and the statuses of tasks.
LEMMA UnusedKept ==
  ASSUME UnusedIsEmpty, nextTaskId' = nextTaskId, StatusesKept,
         UNCHANGED refunded
  PROVE  UnusedIsEmpty'
  BY DEF UnusedIsEmpty, StatusesKept

\* A step that leaves every purse alone.
LEMMA PursesKept ==
  ASSUME Conservation,
         UNCHANGED <<remaining, reserved, spentOut, deposited, refunded>>
  PROVE  Conservation'
  BY DEF Conservation

\* createTask deposits what it makes available, in purses that were empty.
LEMMA CreateTaskConserves ==
  ASSUME ConservationInv, NEW t \in Tasks, NEW c \in Accounts,
         NEW p \in Policies, NEW r1 \in Rates, NEW r2 \in Rates,
         createTask(t, c, p, r1, r2)
  PROVE  Conservation' /\ UnusedIsEmpty'
<1> DEFINE sb == SolutionBudget(p.maxTotal, r1)
           vb == VerdictBudget(p.maxTotal, r2, p.minVerdicts)
<1>1. /\ EscrowOK /\ nextTaskId \in Nat /\ tasks \in [Tasks -> TaskType]
      /\ t = nextTaskId /\ nextTaskId' = nextTaskId + 1
      /\ UNCHANGED refunded
  BY TypeOKParts DEF ConservationInv, createTask, CoordCreateTask,
     CoordStorageOK
<1>2. sb \in Nat /\ vb \in Nat
  <2>1. /\ r1 \in Nat /\ r2 \in Nat /\ p.maxTotal \in Nat
        /\ p.minVerdicts \in Nat
    BY RouterAssumption, CoordinatorAssumption DEF Rates, PolicyType
  <2> QED BY <2>1, BudgetNat
<1>3. ASSUME NEW x \in Purses
      PROVE  deposited'[x] = remaining'[x] + reserved'[x] + spentOut'[x]
                               + refunded'[x]
  <2>1. CASE x = <<t, "solution">>
    <3>1. refunded[x] = 0
      BY <1>1, <2>1 DEF ConservationInv, UnusedIsEmpty
    <3>2. /\ deposited'[x] = sb /\ remaining'[x] = sb /\ reserved'[x] = 0
          /\ spentOut'[x] = 0
      BY <1>1, <2>1 DEF createTask, SetPurses, EscrowOK
    <3> QED BY <1>1, <1>2, <3>1, <3>2
  <2>2. CASE x = <<t, "verdict">>
    <3>1. refunded[x] = 0
      BY <1>1, <2>2 DEF ConservationInv, UnusedIsEmpty
    <3>2. /\ deposited'[x] = vb /\ remaining'[x] = vb /\ reserved'[x] = 0
          /\ spentOut'[x] = 0
      BY <1>1, <2>2 DEF createTask, SetPurses, EscrowOK
    <3> QED BY <1>1, <1>2, <3>1, <3>2
  <2>3. CASE x # <<t, "solution">> /\ x # <<t, "verdict">>
    <3>1. /\ deposited'[x] = deposited[x] /\ remaining'[x] = remaining[x]
          /\ reserved'[x] = reserved[x] /\ spentOut'[x] = spentOut[x]
      BY <1>1, <2>3 DEF createTask, SetPurses, EscrowOK
    <3> QED BY <1>1, <3>1 DEF ConservationInv, Conservation
  <2> QED BY <2>1, <2>2, <2>3
<1>4. UnusedIsEmpty'
  <2>1. ASSUME NEW u \in Tasks, u >= nextTaskId'
        PROVE  tasks'[u].status = "None"
    <3>1. u # t /\ u >= nextTaskId /\ u \in Nat
      BY <1>1, <2>1, CoordinatorAssumption DEF Tasks
    <3> QED BY <1>1, <3>1 DEF createTask, CoordCreateTask, ConservationInv,
               UnusedIsEmpty
  <2>2. ASSUME NEW x \in Purses, x[1] >= nextTaskId' PROVE refunded'[x] = 0
    <3>1. x[1] >= nextTaskId /\ x[1] \in Nat
      BY <1>1, <2>2, CoordinatorAssumption DEF Purses, Tasks
    <3> QED BY <1>1, <3>1 DEF ConservationInv, UnusedIsEmpty
  <2> QED BY <2>1, <2>2 DEF UnusedIsEmpty
<1> QED BY <1>3, <1>4 DEF Conservation

\* addAttempts deposits what it adds to the remaining budget.
LEMMA AddAttemptsConserves ==
  ASSUME ConservationInv, NEW t \in Tasks, NEW n \in Nat, addAttempts(t, n)
  PROVE  Conservation' /\ UnusedIsEmpty'
<1> DEFINE sb == SolutionBudget(n, maxRate[<<t, "solution">>])
           vb == VerdictBudget(n, maxRate[<<t, "verdict">>],
                               tasks[t].policy.minVerdicts)
<1>1. CoordTypeOK /\ EscrowOK /\ CanReap(t)
  BY TypeOKParts DEF ConservationInv, TypeOK, addAttempts
<1>2. sb \in Nat /\ vb \in Nat
  <2>1. /\ maxRate[<<t, "solution">>] \in Nat
        /\ maxRate[<<t, "verdict">>] \in Nat
        /\ tasks[t].policy.minVerdicts \in Nat
    BY <1>1 DEF EscrowOK, CoordTypeOK, Purses, Kinds, TaskType, PolicyType
  <2> QED BY <2>1, BudgetNat
<1>3. ASSUME NEW x \in Purses
      PROVE  deposited'[x] = remaining'[x] + reserved'[x] + spentOut'[x]
                               + refunded'[x]
  <2> DEFINE RR == ReapedRemaining(t)
             RS == ReapedReserved(t)
  <2>1. /\ RR \in [Purses -> Nat] /\ RS \in [Purses -> Nat]
        /\ RR[x] + RS[x] = remaining[x] + reserved[x]
    BY <1>1, ReapedEscrow, ReapConserves
  <2>2. /\ deposited[x] = remaining[x] + reserved[x] + spentOut[x] + refunded[x]
        /\ deposited[x] \in Nat /\ remaining[x] \in Nat /\ reserved[x] \in Nat
        /\ spentOut[x] \in Nat /\ refunded[x] \in Nat
    BY <1>1 DEF ConservationInv, Conservation, EscrowOK
  <2>3. reserved' = RS /\ UNCHANGED <<spentOut, refunded>>
    BY DEF addAttempts
  <2>4. \E a \in Nat : deposited'[x] = deposited[x] + a /\ remaining'[x] = RR[x] + a
    <3>1. CASE x = <<t, "solution">>
      <4>1. deposited'[x] = deposited[x] + sb /\ remaining'[x] = RR[x] + sb
        BY <1>1, <2>1, <3>1 DEF addAttempts, AddToPurses, EscrowOK
      <4> QED BY <1>2, <4>1
    <3>2. CASE x = <<t, "verdict">>
      <4>1. deposited'[x] = deposited[x] + vb /\ remaining'[x] = RR[x] + vb
        BY <1>1, <2>1, <3>2 DEF addAttempts, AddToPurses, EscrowOK
      <4> QED BY <1>2, <4>1
    <3>3. CASE x # <<t, "solution">> /\ x # <<t, "verdict">>
      <4>1. deposited'[x] = deposited[x] /\ remaining'[x] = RR[x]
        BY <1>1, <2>1, <3>3 DEF addAttempts, AddToPurses, EscrowOK
      <4>2. deposited'[x] = deposited[x] + 0 /\ remaining'[x] = RR[x] + 0
        BY <2>1, <2>2, <4>1
      <4> QED BY <4>2
    <3> QED BY <3>1, <3>2, <3>3
  <2>5. RR[x] \in Nat /\ RS[x] \in Nat
    BY <2>1
  <2> HIDE DEF RR, RS
  <2> QED BY <2>1, <2>2, <2>3, <2>4, <2>5
<1>4. UnusedIsEmpty'
  <2>1. IndicesKept /\ StatusesKept
    BY <1>1, AddAttemptsKeeps DEF addAttempts
  <2>2. UNCHANGED refunded
    BY DEF addAttempts
  <2> QED BY <2>1, <2>2, UnusedKept DEF ConservationInv, IndicesKept
<1> QED BY <1>3, <1>4 DEF Conservation

\* A refund moves what remains, after the reap, to what was refunded.
LEMMA RefundConserves ==
  ASSUME ConservationInv, NEW t \in Tasks,
         closeTask(t) \/ refundUnusedTaskBudget(t)
  PROVE  Conservation' /\ UnusedIsEmpty'
<1>1. /\ CoordTypeOK /\ EscrowOK /\ CanReap(t) /\ RefundUnreserved(t)
      /\ CoordCloseTask(t) \/ CoordReap(t)
  BY TypeOKParts DEF ConservationInv, TypeOK, closeTask,
     refundUnusedTaskBudget
<1>2. /\ IndicesKept /\ tasks[t].status # "None"
      /\ \A u \in Tasks : u # t => tasks'[u].status = tasks[u].status
  BY <1>1, CloseKeeps, ReapAloneKeeps DEF StatusesKept, CanReap, CanReapExpired
<1>3. nextTaskId \in Nat /\ ~(t >= nextTaskId)
  BY <1>1, <1>2 DEF ConservationInv, UnusedIsEmpty, CoordTypeOK
<1>4. ASSUME NEW x \in Purses
      PROVE  deposited'[x] = remaining'[x] + reserved'[x] + spentOut'[x]
                               + refunded'[x]
  <2> DEFINE RR == ReapedRemaining(t)
             RS == ReapedReserved(t)
  <2>1. /\ RR[x] \in Nat /\ RS[x] \in Nat
        /\ RR[x] + RS[x] = remaining[x] + reserved[x]
    BY <1>1, ReapedEscrow, ReapConserves
  <2>2. /\ deposited[x] = remaining[x] + reserved[x] + spentOut[x] + refunded[x]
        /\ deposited[x] \in Nat /\ remaining[x] \in Nat /\ reserved[x] \in Nat
        /\ spentOut[x] \in Nat /\ refunded[x] \in Nat
    BY <1>1 DEF ConservationInv, Conservation, EscrowOK
  <2>3. reserved'[x] = RS[x] /\ UNCHANGED <<spentOut, deposited>>
    BY <1>1 DEF RefundUnreserved
  <2>4. CASE x[1] = t
    <3>1. remaining'[x] = 0 /\ refunded'[x] = refunded[x] + RR[x]
      BY <1>1, <2>4 DEF RefundUnreserved
    <3> HIDE DEF RR, RS
    <3> QED BY <2>1, <2>2, <2>3, <3>1
  <2>5. CASE x[1] # t
    <3>1. /\ remaining'[x] = remaining[x] /\ refunded'[x] = refunded[x]
          /\ RS[x] = reserved[x]
      BY <1>1, <2>5 DEF RefundUnreserved, ReapedReserved
    <3> HIDE DEF RR, RS
    <3> QED BY <2>1, <2>2, <2>3, <3>1
  <2> QED BY <2>4, <2>5
<1>5. UnusedIsEmpty'
  <2>1. nextTaskId' = nextTaskId
    BY <1>2 DEF IndicesKept
  <2>2. ASSUME NEW u \in Tasks, u >= nextTaskId PROVE tasks'[u].status = "None"
    BY <1>2, <1>3, <2>2 DEF ConservationInv, UnusedIsEmpty
  <2>3. ASSUME NEW x \in Purses, x[1] >= nextTaskId PROVE refunded'[x] = 0
    <3>1. x[1] # t
      BY <1>3, <2>3
    <3> QED BY <1>1, <2>3, <3>1 DEF RefundUnreserved, ConservationInv,
               UnusedIsEmpty
  <2> QED BY <2>1, <2>2, <2>3 DEF UnusedIsEmpty
<1> QED BY <1>4, <1>5 DEF Conservation

\* Claims keep the statuses of tasks.
LEMMA ClaimKeepsStatuses ==
  ASSUME CoordTypeOK, NEW t \in Tasks, NEW i \in AttemptIndices, NEW o, NEW d,
         CoordClaimTask(t, o, d) \/ CoordClaimEvaluation(t, i, o, d)
  PROVE  StatusesKept /\ nextTaskId' = nextTaskId
<1>1. CASE CoordClaimTask(t, o, d)
  <2>1. ReapedTasks(t) \in [Tasks -> TaskType]
    BY <1>1, ReapedTypes DEF CoordClaimTask
  <2>2. \A u \in Tasks : tasks'[u].status = ReapedTasks(t)[u].status
    BY <1>1, <2>1 DEF CoordClaimTask, TaskType
  <2> QED BY <1>1, <2>2, ReapKeeps, ZenonT(30) DEF CoordClaimTask, StatusesKept
<1>2. CASE CoordClaimEvaluation(t, i, o, d)
  BY <1>2, ReapKeeps DEF CoordClaimEvaluation, StatusesKept
<1> QED BY <1>1, <1>2

\* A claim moves the rate from remaining to reserved, a release moves it back.
LEMMA ReserveConserves ==
  ASSUME EscrowOK, Conservation, NEW s \in Slots, NEW o, NEW m,
         NEW r \in Rates, NEW d, Reserve(s, o, m, r, d)
  PROVE  Conservation' /\ UNCHANGED refunded
<1> DEFINE t == s[1]
           RR == ReapedRemaining(t)
           RS == ReapedReserved(t)
<1>1. /\ t \in Tasks /\ CanReap(t) /\ r \in Nat /\ Purse(s) \in Purses
      /\ r <= RR[Purse(s)]
  BY PurseInPurses, RouterAssumption DEF Reserve, Rates
<1>2. RR \in [Purses -> Nat] /\ RS \in [Purses -> Nat]
  BY <1>1, ReapedEscrow
<1>3. ASSUME NEW x \in Purses
      PROVE  deposited'[x] = remaining'[x] + reserved'[x] + spentOut'[x]
                               + refunded'[x]
  <2>1. /\ RR[x] \in Nat /\ RS[x] \in Nat
        /\ RR[x] + RS[x] = remaining[x] + reserved[x]
    BY <1>2, ReapConserves
  <2>2. /\ deposited[x] = remaining[x] + reserved[x] + spentOut[x] + refunded[x]
        /\ deposited[x] \in Nat /\ remaining[x] \in Nat /\ reserved[x] \in Nat
        /\ spentOut[x] \in Nat /\ refunded[x] \in Nat
    BY DEF Conservation, EscrowOK
  <2>3. UNCHANGED <<spentOut, deposited, refunded>>
    BY DEF Reserve
  <2>4. \/ remaining'[x] = RR[x] - r /\ reserved'[x] = RS[x] + r
        \/ remaining'[x] = RR[x] /\ reserved'[x] = RS[x]
    BY <1>1, <1>2 DEF Reserve
  <2> HIDE DEF RR, RS
  <2> QED BY <1>1, <2>1, <2>2, <2>3, <2>4
<1> QED BY <1>3 DEF Conservation, Reserve

\* A release moves the slot's rate from reserved back to remaining.
LEMMA ReleaseConserves ==
  ASSUME EscrowOK, Conservation, NEW s \in Slots, Release(s)
  PROVE  Conservation' /\ UNCHANGED refunded
<1> DEFINE t == s[1]
           r == reservations[s].rate
           RR == ReapedRemaining(t)
           RS == ReapedReserved(t)
<1>1. /\ t \in Tasks /\ CanReap(t) /\ r \in Nat /\ Purse(s) \in Purses
      /\ r <= RS[Purse(s)]
  BY PurseInPurses, OpenReservation DEF Release, Live
<1>2. RR \in [Purses -> Nat] /\ RS \in [Purses -> Nat]
  BY <1>1, ReapedEscrow
<1>3. ASSUME NEW x \in Purses
      PROVE  deposited'[x] = remaining'[x] + reserved'[x] + spentOut'[x]
                               + refunded'[x]
  <2>1. /\ RR[x] \in Nat /\ RS[x] \in Nat
        /\ RR[x] + RS[x] = remaining[x] + reserved[x]
    BY <1>2, ReapConserves
  <2>2. /\ deposited[x] = remaining[x] + reserved[x] + spentOut[x] + refunded[x]
        /\ deposited[x] \in Nat /\ remaining[x] \in Nat /\ reserved[x] \in Nat
        /\ spentOut[x] \in Nat /\ refunded[x] \in Nat
    BY DEF Conservation, EscrowOK
  <2>3. UNCHANGED <<spentOut, deposited, refunded>>
    BY DEF Release
  <2>4. \/ remaining'[x] = RR[x] + r /\ reserved'[x] = RS[x] - r
        \/ remaining'[x] = RR[x] /\ reserved'[x] = RS[x]
    BY <1>1, <1>2 DEF Release
  <2> HIDE DEF RR, RS, r
  <2> QED BY <1>1, <2>1, <2>2, <2>3, <2>4
<1> QED BY <1>3 DEF Conservation, Release

\* Settlement and forfeit move the rate from reserved to spentOut.
LEMMA SettleConserves ==
  ASSUME EscrowOK, Conservation, NEW s \in Slots, NEW c, Open(s), Settle(s, c)
  PROVE  Conservation' /\ UNCHANGED refunded
<1> DEFINE r == reservations[s].rate
<1>1. r \in Nat /\ Purse(s) \in Purses /\ r <= reserved[Purse(s)]
  BY PurseInPurses, OpenReservation DEF Settle
<1>2. ASSUME NEW x \in Purses
      PROVE  deposited'[x] = remaining'[x] + reserved'[x] + spentOut'[x]
                               + refunded'[x]
  <2>1. /\ deposited[x] = remaining[x] + reserved[x] + spentOut[x] + refunded[x]
        /\ deposited[x] \in Nat /\ remaining[x] \in Nat /\ reserved[x] \in Nat
        /\ spentOut[x] \in Nat /\ refunded[x] \in Nat
    BY DEF Conservation, EscrowOK
  <2>2. UNCHANGED <<remaining, deposited, refunded>>
    BY DEF Settle
  <2>3. \/ spentOut'[x] = spentOut[x] + r /\ reserved'[x] = reserved[x] - r
        \/ spentOut'[x] = spentOut[x] /\ reserved'[x] = reserved[x]
    BY <1>1 DEF Settle, EscrowOK
  <2> HIDE DEF r
  <2> QED BY <1>1, <2>1, <2>2, <2>3
<1> QED BY <1>2 DEF Conservation, Settle

\* Claims move a rate from remaining to reserved, and open no task.
LEMMA ClaimStepConserves ==
  ASSUME ConservationInv, NEW t \in Tasks, ClaimStep(t)
  PROVE  Conservation' /\ UnusedIsEmpty'
<1>1. CoordTypeOK /\ EscrowOK /\ Conservation /\ UnusedIsEmpty
  BY TypeOKParts DEF ConservationInv, TypeOK
<1> DEFINE d == now + tasks[t].policy.responseTimeout
<1>2. ASSUME NEW o \in Accounts, NEW m \in Mechs, NEW r \in Rates,
             claimTask(t, o, m, r)
      PROVE  Conservation' /\ UnusedIsEmpty'
  <2>1. /\ tasks[t].nextAttemptIndex \in AttemptIndices
        /\ CoordClaimTask(t, o, d)
        /\ Reserve(<<t, tasks[t].nextAttemptIndex, 0>>, o, m, r, d)
    BY <1>2 DEF claimTask
  <2>2. Conservation' /\ UNCHANGED refunded
    BY <1>1, <2>1, KeySlots, ReserveConserves
  <2>3. StatusesKept /\ nextTaskId' = nextTaskId
    BY <1>1, <2>1, ClaimKeepsStatuses
  <2> QED BY <1>1, <2>2, <2>3, UnusedKept
<1>3. ASSUME NEW o \in Accounts, NEW m \in Mechs, NEW r \in Rates,
             NEW i \in AttemptIndices, claimEvaluation(t, i, o, m, r)
      PROVE  Conservation' /\ UnusedIsEmpty'
  <2> DEFINE s == <<t, i, attempts[<<t, i>>].nextVerdictIndex + 1>>
  <2>1. /\ CoordClaimEvaluation(t, i, o, d)
        /\ Reserve(s, o, m, r, d)
    BY <1>3 DEF claimEvaluation
  <2>2. s \in Slots
    BY <1>3, KeySlots DEF claimEvaluation, VerdictKeys
  <2>3. Conservation' /\ UNCHANGED refunded
    BY <1>1, <2>1, <2>2, ReserveConserves
  <2>4. StatusesKept /\ nextTaskId' = nextTaskId
    BY <1>1, <2>1, ClaimKeepsStatuses
  <2> QED BY <1>1, <2>3, <2>4, UnusedKept
<1> QED BY <1>2, <1>3 DEF ClaimStep

\* Delivery touches a purse only when it settles: reserved becomes spent.
LEMMA DeliveryStepConserves ==
  ASSUME ConservationInv, DeliveryStep
  PROVE  Conservation' /\ UnusedIsEmpty'
<1>1. CoordTypeOK /\ EscrowOK /\ Conservation /\ UnusedIsEmpty
  BY TypeOKParts DEF ConservationInv, TypeOK
<1>2. ASSUME UNCHANGED <<nextTaskId, coordVars, purseVars>>
      PROVE  Conservation' /\ UnusedIsEmpty'
  BY <1>1, <1>2, PursesKept, UnusedKept DEF coordVars, purseVars, StatusesKept
<1>3. ASSUME NEW s, NEW p, Prepare(s, p)
      PROVE  UNCHANGED <<nextTaskId, coordVars, purseVars>>
  BY <1>3 DEF Prepare
<1>4. ASSUME NEW s, deliverMarketplaceWithSignatures(s)
      PROVE  UNCHANGED <<nextTaskId, coordVars, purseVars>>
  BY <1>4 DEF deliverMarketplaceWithSignatures
<1>5. ASSUME NEW req \in delivered, claimSolutionDelivery(req)
      PROVE  Conservation' /\ UnusedIsEmpty'
  <2> DEFINE s == req.slot
  <2>1. /\ CanClaimDelivery(s, req) /\ Settle(s, reservations[s].party)
        /\ CoordRecordSolutionDelivery(s[1], s[2], reservations[s].party,
                                       req.payload)
    BY <1>5 DEF claimSolutionDelivery
  <2>2. s \in Slots /\ Open(s)
    BY <1>1, <2>1, ClaimableSlot
  <2>3. Conservation' /\ UNCHANGED refunded
    BY <1>1, <2>1, <2>2, SettleConserves
  <2>4. IndicesKept /\ StatusesKept
    BY <1>1, <2>1, <2>2, SlotParts, RecordSolutionKeeps
  <2> QED BY <1>1, <2>3, <2>4, UnusedKept DEF IndicesKept
<1>6. ASSUME NEW req \in delivered, claimVerdictDelivery(req)
      PROVE  Conservation' /\ UnusedIsEmpty'
  <2> DEFINE s == req.slot
  <2>1. /\ CanClaimDelivery(s, req) /\ Settle(s, reservations[s].party)
        /\ CoordRecordVerdict(s, reservations[s].party, req.payload)
        /\ s[3] # 0
    BY <1>6 DEF claimVerdictDelivery
  <2>2. s \in Slots /\ Open(s)
    BY <1>1, <2>1, ClaimableSlot
  <2>3. Conservation' /\ UNCHANGED refunded
    BY <1>1, <2>1, <2>2, SettleConserves
  <2>4. IndicesKept /\ StatusesKept
    BY <1>1, <2>1, <2>2, SlotParts, RecordVerdictKeeps
  <2> QED BY <1>1, <2>3, <2>4, UnusedKept DEF IndicesKept
<1> QED BY <1>2, <1>3, <1>4, <1>5, <1>6
           DEF DeliveryStep, prepareSolutionDelivery, prepareVerdictDelivery

\* Releases and forfeits keep the sum of every purse.
LEMMA ExitStepConserves ==
  ASSUME ConservationInv, ExitStep
  PROVE  Conservation' /\ UnusedIsEmpty'
<1>1. CoordTypeOK /\ EscrowOK /\ Conservation /\ UnusedIsEmpty
  BY TypeOKParts DEF ConservationInv, TypeOK
<1>2. ASSUME NEW k \in AttemptKeys, releaseAttempt(k[1], k[2])
      PROVE  Conservation' /\ UnusedIsEmpty'
  <2> DEFINE s == <<k[1], k[2], 0>>
  <2>1. /\ k[1] \in Tasks /\ k[2] \in AttemptIndices /\ s \in Slots
        /\ Release(s)
        /\ CoordReleaseAttempt(k[1], k[2], reservations[s].party)
    BY <1>2, KeySlots DEF releaseAttempt
  <2>2. Conservation' /\ UNCHANGED refunded
    BY <1>1, <2>1, ReleaseConserves
  <2>3. IndicesKept /\ StatusesKept
    BY <1>1, <2>1, ReleaseAttemptKeeps
  <2> QED BY <1>1, <2>2, <2>3, UnusedKept DEF IndicesKept
<1>3. ASSUME NEW k \in VerdictKeys, releaseVerdict(k)
      PROVE  Conservation' /\ UnusedIsEmpty'
  <2>1. /\ Release(k) /\ CoordReleaseVerdict(k, reservations[k].party)
        /\ k \in Slots
    BY <1>3, KeySlots DEF releaseVerdict
  <2>2. Conservation' /\ UNCHANGED refunded
    BY <1>1, <2>1, ReleaseConserves
  <2>3. IndicesKept /\ StatusesKept
    BY <1>1, <2>1, ReleaseVerdictKeeps
  <2> QED BY <1>1, <2>2, <2>3, UnusedKept DEF IndicesKept
<1>4. ASSUME NEW s \in Slots, NEW c \in Accounts,
             forfeitSolution(s, c) \/ forfeitVerdict(s, c)
      PROVE  Conservation' /\ UnusedIsEmpty'
  <2>1. /\ Open(s) /\ Settle(s, c)
        /\ CoordForfeitAttempt(s[1], s[2]) \/ CoordForfeitVerdict(s)
    BY <1>4 DEF forfeitSolution, forfeitVerdict, CanForfeit
  <2>2. Conservation' /\ UNCHANGED refunded
    BY <1>1, <2>1, SettleConserves
  <2>3. IndicesKept /\ StatusesKept
    BY <1>1, <2>1, ForfeitKeeps
  <2> QED BY <1>1, <2>2, <2>3, UnusedKept DEF IndicesKept
<1> QED BY <1>2, <1>3, <1>4 DEF ExitStep

\* The owners, the clock and stuttering leave both contracts' books alone.
LEMMA OtherStepKeeps ==
  ASSUME OwnerStep \/ Tick \/ UNCHANGED vars
  PROVE  UNCHANGED <<nextTaskId, coordVars, purseVars, reservations,
                     preparations, claimed, marketVars>>
  BY DEF OwnerStep, Tick, vars, setActivityChecker, setAuthorizedRouter,
     changeMechOperator, routerVars

\* Every purse starts empty.
LEMMA InitConserves == Init => Conservation /\ UnusedIsEmpty
  BY DEF Init, CoordInit, Conservation, UnusedIsEmpty, NoTask

\* The invariant behind ConservationHolds is inductive.
LEMMA StepConserves == ConservationInv /\ [Next]_vars => ConservationInv'
<1> SUFFICES ASSUME ConservationInv, [Next]_vars
             PROVE  ConservationInv'
  OBVIOUS
<1>1. TypeOK'
  BY StepTypeOK DEF ConservationInv
<1>2. ASSUME NEW t \in Tasks, CreatorStep(t)
      PROVE  Conservation' /\ UnusedIsEmpty'
  <2>1. \A n \in 1..MaxAttempts : n \in Nat
    BY CoordinatorAssumption
  <2> QED BY <1>2, <2>1, AddAttemptsConserves, RefundConserves DEF CreatorStep
<1>3. ASSUME OwnerStep \/ Tick \/ UNCHANGED vars
      PROVE  Conservation' /\ UnusedIsEmpty'
  BY <1>3, OtherStepKeeps, PursesKept, UnusedKept
     DEF ConservationInv, coordVars, purseVars, StatusesKept
<1>4. Conservation' /\ UnusedIsEmpty'
  BY <1>2, <1>3, CreateTaskConserves, ClaimStepConserves,
     DeliveryStepConserves, ExitStepConserves DEF Next
<1> QED BY <1>1, <1>4 DEF ConservationInv

\* Exact conservation, for every purse of every task in every reachable state:
\* what was paid in is what remains, is reserved, was spent or was refunded.
THEOREM ConservationHolds == Spec => []Conservation
<1>1. Init => ConservationInv
  BY InitTypeOK, InitConserves DEF ConservationInv
<1>2. ConservationInv => Conservation
  BY DEF ConservationInv
<1> QED BY <1>1, <1>2, StepConserves, PTL DEF Spec

-----------------------------------------------------------------------------
(* A live reservation is its holder's *)

\* _reap passes over a live reservation.
LEMMA LiveNotReaped ==
  ASSUME TypeOK, NEW s \in Slots, Live(s), NEW t
  PROVE  s \notin Reapable(t) /\ ReapedReservations(t)[s] = reservations[s]
<1>1. EscrowOK /\ now \in Nat /\ Open(s) /\ now <= reservations[s].deadline
  BY TypeOKParts DEF AroundOK, Live
<1>2. reservations[s].deadline \in Nat
  BY <1>1, OpenReservation DEF ReservationType
<1>3. s \notin Reapable(t)
  BY <1>1, <1>2 DEF Reapable, Lapsed
<1> QED BY <1>3 DEF ReapedReservations

\* What a step that ends a live, unpaid reservation must be.
Relinquished(s) ==
  /\ reservations'[s].state = "Released"
  /\ endedBy'[s] = reservations[s].party
  /\ now >= ReleaseMinHold + IF s[3] = 0 THEN AttemptOf(s).claimedAt
                                         ELSE verdicts[s].claimedAt

\* Only its party's release ends a live, unpaid reservation, action by action.
LEMMA StepProtects ==
  ASSUME TypeOK, [Next]_vars, NEW s \in Slots, Live(s), ~Paid(s), ~Open(s)'
  PROVE  Relinquished(s)
<1>1. CoordTypeOK /\ EscrowOK /\ Open(s)
  BY TypeOKParts DEF TypeOK, Live
<1>2. reservations'[s].state # "Open" /\ reservations'[s] # reservations[s]
  BY <1>1 DEF Open
<1>3. ASSUME NEW t \in Tasks, reservations' = ReapedReservations(t)
      PROVE  FALSE
  BY <1>2, <1>3, LiveNotReaped
<1>4. ASSUME NEW u \in Slots, NEW o, NEW m, NEW r, NEW d, Reserve(u, o, m, r, d)
      PROVE  FALSE
  <2>1. reservations' = [ReapedReservations(u[1]) EXCEPT ![u] =
                           [state |-> "Open", party |-> o, mech |-> m,
                            rate |-> r, deadline |-> d]]
    BY <1>4 DEF Reserve
  <2>2. /\ ReapedReservations(u[1])[s] = reservations[s]
        /\ DOMAIN ReapedReservations(u[1]) = Slots
    BY LiveNotReaped DEF ReapedReservations
  <2>3. CASE u = s
    BY <1>2, <2>1, <2>2, <2>3
  <2>4. CASE u # s
    BY <1>2, <2>1, <2>2, <2>4
  <2> QED BY <2>3, <2>4
<1>5. ASSUME NEW u \in Slots, NEW c, Paid(u), Settle(u, c)
      PROVE  FALSE
  <2>1. u # s
    BY <1>5
  <2> QED BY <1>1, <1>2, <1>5, <2>1 DEF Settle, EscrowOK
<1>6. ASSUME NEW u \in Slots, Release(u), u # s
      PROVE  FALSE
  <2>1. /\ ReapedReservations(u[1])[s] = reservations[s]
        /\ DOMAIN ReapedReservations(u[1]) = Slots
    BY LiveNotReaped DEF ReapedReservations
  <2> QED BY <1>2, <1>6, <2>1 DEF Release
<1>7. ASSUME Release(s)
      PROVE  /\ reservations'[s].state = "Released"
             /\ endedBy'[s] = reservations[s].party
  <2>1. /\ ReapedReservations(s[1])[s] = reservations[s]
        /\ DOMAIN ReapedReservations(s[1]) = Slots
    BY LiveNotReaped DEF ReapedReservations
  <2>2. reservations[s] \in ReservationType
    BY <1>1, OpenReservation
  <2>3. endedBy'[s] = reservations[s].party
    BY <1>1, <1>7 DEF Release, EscrowOK
  <2>4. reservations'[s] = [reservations[s] EXCEPT !.state = "Released"]
    BY <1>7, <2>1 DEF Release
  <2>5. reservations'[s].state = "Released"
    BY <2>2, <2>4 DEF ReservationType
  <2> QED BY <2>3, <2>5
<1>8. ASSUME NEW t \in Tasks, CreatorStep(t) PROVE FALSE
  BY <1>3, <1>8 DEF CreatorStep, addAttempts, closeTask,
     refundUnusedTaskBudget, RefundUnreserved
<1>9. ASSUME NEW t \in Tasks, ClaimStep(t) PROVE FALSE
  <2>1. ASSUME NEW o \in Accounts, NEW m \in Mechs, NEW r \in Rates,
               claimTask(t, o, m, r)
        PROVE  FALSE
    BY <1>4, <2>1, KeySlots DEF claimTask
  <2>2. ASSUME NEW o \in Accounts, NEW m \in Mechs, NEW r \in Rates,
               NEW i \in AttemptIndices, claimEvaluation(t, i, o, m, r)
        PROVE  FALSE
    <3>1. <<t, i, attempts[<<t, i>>].nextVerdictIndex + 1>> \in Slots
      BY <2>2, KeySlots DEF claimEvaluation, VerdictKeys
    <3> QED BY <1>4, <2>2, <3>1 DEF claimEvaluation
  <2> QED BY <1>9, <2>1, <2>2 DEF ClaimStep
<1>10. ASSUME DeliveryStep PROVE FALSE
  <2>1. ASSUME NEW u, NEW p, Prepare(u, p) PROVE FALSE
    BY <1>2, <2>1 DEF Prepare
  <2>2. ASSUME NEW u, deliverMarketplaceWithSignatures(u) PROVE FALSE
    BY <1>2, <2>2 DEF deliverMarketplaceWithSignatures
  <2>3. ASSUME NEW req \in delivered,
               claimSolutionDelivery(req) \/ claimVerdictDelivery(req)
        PROVE  FALSE
    <3>1. /\ CanClaimDelivery(req.slot, req)
          /\ Settle(req.slot, reservations[req.slot].party)
      BY <2>3 DEF claimSolutionDelivery, claimVerdictDelivery
    <3>2. req.slot \in Slots /\ Paid(req.slot)
      BY <1>1, <3>1, ClaimableSlot
         DEF CanClaimDelivery, DeliveredExact, Paid
    <3> QED BY <1>5, <3>1, <3>2
  <2> QED BY <1>10, <2>1, <2>2, <2>3
             DEF DeliveryStep, prepareSolutionDelivery, prepareVerdictDelivery
<1>11. ASSUME NEW k \in AttemptKeys, releaseAttempt(k[1], k[2])
       PROVE  Relinquished(s)
  <2> DEFINE u == <<k[1], k[2], 0>>
  <2>1. /\ u \in Slots /\ Release(u)
        /\ CoordReleaseAttempt(k[1], k[2], reservations[u].party)
        /\ <<k[1], k[2]>> \in AttemptKeys
    BY <1>11, KeySlots, SlotParts DEF releaseAttempt
  <2>2. u = s
    BY <1>6, <2>1
  <2>3. now >= AttemptOf(s).claimedAt + ReleaseMinHold
    BY <2>1, <2>2 DEF CoordReleaseAttempt, AttemptOf
  <2>4. AttemptOf(s).claimedAt \in Nat /\ s[3] = 0
    BY <1>1, <2>1, <2>2 DEF AttemptOf, CoordTypeOK, AttemptType
  <2>5. now >= ReleaseMinHold + AttemptOf(s).claimedAt
    BY <2>3, <2>4, CoordinatorAssumption
  <2> QED BY <1>7, <2>1, <2>2, <2>4, <2>5 DEF Relinquished
<1>12. ASSUME NEW k \in VerdictKeys, releaseVerdict(k)
       PROVE  Relinquished(s)
  <2>1. k \in Slots /\ k[3] # 0 /\ Release(k)
          /\ CoordReleaseVerdict(k, reservations[k].party)
    BY <1>12, KeySlots DEF releaseVerdict
  <2>2. k = s
    BY <1>6, <2>1
  <2>3. now >= verdicts[s].claimedAt + ReleaseMinHold
    BY <2>1, <2>2 DEF CoordReleaseVerdict
  <2>4. verdicts[s].claimedAt \in Nat
    BY <1>1, <2>2 DEF CoordTypeOK, VerdictType
  <2>5. now >= ReleaseMinHold + verdicts[s].claimedAt
    BY <2>3, <2>4, CoordinatorAssumption
  <2> QED BY <1>7, <2>1, <2>2, <2>5 DEF Relinquished
<1>13. ASSUME NEW u \in Slots, NEW c \in Accounts,
              forfeitSolution(u, c) \/ forfeitVerdict(u, c)
       PROVE  FALSE
  BY <1>5, <1>13 DEF forfeitSolution, forfeitVerdict, CanForfeit
<1>14. ASSUME NEW t \in Tasks, NEW c, NEW p, NEW r1, NEW r2,
              createTask(t, c, p, r1, r2)
       PROVE  FALSE
  BY <1>2, <1>14 DEF createTask
<1>15. ASSUME OwnerStep \/ Tick \/ UNCHANGED vars PROVE FALSE
  BY <1>2, <1>15, OtherStepKeeps
<1> QED BY <1>8, <1>9, <1>10, <1>11, <1>12, <1>13, <1>14, <1>15
           DEF Next, ExitStep

\* Closing, refunding, reaping and claiming leave a live, unpaid reservation
\* open: only its own party's release, after the minimum hold, ends it.
THEOREM HolderIsProtected == Spec => HolderProtected
<1> DEFINE A == \A s \in Slots :
                  Live(s) /\ ~Paid(s) /\ ~Open(s)' =>
                    /\ reservations'[s].state = "Released"
                    /\ endedBy'[s] = reservations[s].party
                    /\ now >= ReleaseMinHold +
                         IF s[3] = 0 THEN AttemptOf(s).claimedAt
                                     ELSE verdicts[s].claimedAt
<1>1. TypeOK /\ [Next]_vars => [A]_vars
  BY StepProtects DEF Relinquished
<1>2. HolderProtected <=> [][A]_vars
  BY DEF HolderProtected
<1>3. Spec => [][A]_vars
  BY <1>1, TypeCorrect, PTL DEF Spec
<1> QED BY <1>2, <1>3

-----------------------------------------------------------------------------
(* A Mech delivery is paid once for a reservation, and a reservation that   *)
(* was paid for is never given back. The invariant is inductive only with   *)
(* what the coordinator's indices say of the slots that were never claimed: *)
(* a claim takes a slot nobody has used.                                    *)

\* A preparation is for its own slot, and only what was delivered is claimed.
PreparedForSlot ==
  /\ \A s \in Slots : preparations[s] # NoRequest => preparations[s].slot = s
  /\ claimed \subseteq delivered

\* What lies beyond the coordinator's indices was never used.
BeyondIndices ==
  /\ \A t \in Tasks : t >= nextTaskId => tasks[t].nextAttemptIndex = 0
  /\ \A k \in AttemptKeys :
       k[2] >= tasks[k[1]].nextAttemptIndex => attempts[k].status = "None"
  /\ \A s \in Slots :
       \/ s[2] >= tasks[s[1]].nextAttemptIndex
       \/ s[3] > attempts[<<s[1], s[2]>>].nextVerdictIndex
       => reservations[s].state = "None"

DeliveryOK == PaidIsNeverRestored /\ PreparedForSlot

PaidInv == ConservationInv /\ DeliveryOK /\ BeyondIndices

\* A slot that was never claimed stays so.
UnclaimedKept ==
  \A s \in Slots : reservations[s].state = "None" =>
                     reservations'[s].state = "None"

-----------------------------------------------------------------------------
(* The delivery books *)

\* _reap leaves the slot of a delivered request alone, and every slot that is
\* not open.
LEMMA ReapKeepsPaid ==
  ASSUME EscrowOK, DeliveryOK, NEW t
  PROVE  /\ \A req \in delivered :
              /\ req.slot \in Slots
              /\ ReapedReservations(t)[req.slot] = reservations[req.slot]
              /\ ReapedPreparations(t)[req.slot] = preparations[req.slot]
         /\ \A s \in Slots :
              reservations[s].state = "None" =>
                ReapedReservations(t)[s].state = "None"
         /\ \A s \in Slots :
              ReapedPreparations(t)[s] \in {NoRequest, preparations[s]}
<1>1. ASSUME NEW req \in delivered
      PROVE  req.slot \in Slots /\ req.slot \notin Reapable(t)
  <2>1. req.slot \in Slots
    BY DEF EscrowOK, RequestType
  <2>2. \/ Paid(req.slot)
        \/ reservations[req.slot].state = "Settled"
    BY DEF DeliveryOK, PaidIsNeverRestored, Paid
  <2>3. req.slot \in Reapable(t) => ~Paid(req.slot) /\ Open(req.slot)
    BY DEF Reapable, Lapsed
  <2> QED BY <2>1, <2>2, <2>3 DEF Open
<1>2. ASSUME NEW s \in Slots, reservations[s].state = "None"
      PROVE  s \notin Reapable(t)
  BY <1>2 DEF Reapable, Lapsed, Open
<1> QED BY <1>1, <1>2 DEF ReapedReservations, ReapedPreparations

\* Reaping alone.
LEMMA ReapDelivery ==
  ASSUME EscrowOK, DeliveryOK, NEW t,
         reservations' = ReapedReservations(t),
         preparations' = ReapedPreparations(t),
         UNCHANGED <<claimed, delivered>>
  PROVE  DeliveryOK' /\ UnclaimedKept
<1>1. PaidIsNeverRestored'
  BY ReapKeepsPaid DEF DeliveryOK, PaidIsNeverRestored, Open
<1>2. PreparedForSlot'
  BY ReapKeepsPaid DEF DeliveryOK, PreparedForSlot
<1> QED BY <1>1, <1>2, ReapKeepsPaid DEF DeliveryOK, UnclaimedKept

\* A claim takes a slot that was never used.
LEMMA ReserveDelivery ==
  ASSUME EscrowOK, DeliveryOK, NEW s \in Slots, NEW o, NEW m, NEW r, NEW d,
         reservations[s].state = "None", Reserve(s, o, m, r, d)
  PROVE  /\ DeliveryOK'
         /\ \A u \in Slots : /\ u # s
                             /\ reservations[u].state = "None"
                             => reservations'[u].state = "None"
<1> DEFINE RR == ReapedReservations(s[1])
           RP == ReapedPreparations(s[1])
<1>1. /\ \A u \in Slots : u # s => reservations'[u] = RR[u]
      /\ \A u \in Slots : u # s => preparations'[u] = RP[u]
      /\ preparations'[s] = NoRequest
      /\ UNCHANGED <<claimed, delivered>>
  BY DEF Reserve, marketVars, ReapedReservations, ReapedPreparations
<1>2. \A req \in delivered : req.slot # s
  BY DEF DeliveryOK, PaidIsNeverRestored, Open
<1>3. \A req \in delivered :
        /\ reservations'[req.slot] = reservations[req.slot]
        /\ preparations'[req.slot] = preparations[req.slot]
  BY <1>1, <1>2, ReapKeepsPaid
<1>4. PaidIsNeverRestored'
  BY <1>1, <1>3 DEF DeliveryOK, PaidIsNeverRestored, Open
<1>5. PreparedForSlot'
  BY <1>1, ReapKeepsPaid DEF DeliveryOK, PreparedForSlot
<1> QED BY <1>1, <1>4, <1>5, ReapKeepsPaid DEF DeliveryOK

\* Releasing an unpaid reservation.
LEMMA ReleaseDelivery ==
  ASSUME EscrowOK, DeliveryOK, NEW s \in Slots, Release(s)
  PROVE  DeliveryOK' /\ UnclaimedKept
<1> DEFINE RR == ReapedReservations(s[1])
           RP == ReapedPreparations(s[1])
<1>1. /\ \A u \in Slots : u # s => reservations'[u] = RR[u]
      /\ \A u \in Slots : u # s => preparations'[u] = RP[u]
      /\ preparations'[s] = NoRequest
      /\ UNCHANGED <<claimed, delivered>>
      /\ Open(s) /\ ~Paid(s)
  BY DEF Release, Live, marketVars, ReapedReservations, ReapedPreparations
<1>2. \A req \in delivered : req.slot # s
  BY <1>1 DEF DeliveryOK, PaidIsNeverRestored, Open, Paid
<1>3. \A req \in delivered :
        /\ reservations'[req.slot] = reservations[req.slot]
        /\ preparations'[req.slot] = preparations[req.slot]
  BY <1>1, <1>2, ReapKeepsPaid
<1>4. PaidIsNeverRestored'
  BY <1>1, <1>3 DEF DeliveryOK, PaidIsNeverRestored, Open
<1>5. PreparedForSlot'
  BY <1>1, ReapKeepsPaid DEF DeliveryOK, PreparedForSlot
<1>6. UnclaimedKept
  BY <1>1, ReapKeepsPaid DEF UnclaimedKept, Open
<1> QED BY <1>4, <1>5, <1>6 DEF DeliveryOK

\* Preparing an unpaid reservation.
LEMMA PrepareDelivery ==
  ASSUME EscrowOK, DeliveryOK, NEW s \in Slots, NEW p, Prepare(s, p)
  PROVE  DeliveryOK' /\ UnclaimedKept
<1>1. /\ \A u \in Slots : u # s => preparations'[u] = preparations[u]
      /\ preparations'[s].slot = s
      /\ UNCHANGED <<claimed, delivered, reservations>>
      /\ Open(s) /\ ~Paid(s)
  BY DEF Prepare, Live, marketVars, EscrowOK
<1>2. \A req \in delivered : req.slot # s /\ req.slot \in Slots
  BY <1>1 DEF DeliveryOK, PaidIsNeverRestored, Open, Paid, EscrowOK,
     RequestType
<1>3. PaidIsNeverRestored'
  BY <1>1, <1>2 DEF DeliveryOK, PaidIsNeverRestored, Open
<1>4. PreparedForSlot'
  BY <1>1 DEF DeliveryOK, PreparedForSlot
<1> QED BY <1>1, <1>3, <1>4 DEF DeliveryOK, UnclaimedKept

\* The Mech marketplace delivers a prepared request: it is the slot's first.
LEMMA DeliverDelivery ==
  ASSUME EscrowOK, DeliveryOK, NEW s \in Slots,
         deliverMarketplaceWithSignatures(s)
  PROVE  DeliveryOK' /\ UnclaimedKept
<1> DEFINE new == preparations[s]
<1>1. /\ delivered' = delivered \cup {new} /\ new \notin delivered
      /\ UNCHANGED <<reservations, preparations, claimed>>
      /\ Open(s) /\ new # NoRequest
  BY DEF deliverMarketplaceWithSignatures, isValidSignature, Live
<1>2. new.slot = s /\ new \notin claimed
  BY <1>1 DEF DeliveryOK, PreparedForSlot
<1>3. \A req \in delivered : req.slot # s
  BY <1>1 DEF DeliveryOK, PaidIsNeverRestored, Open
<1>4. PaidIsNeverRestored'
  BY <1>1, <1>2, <1>3 DEF DeliveryOK, PaidIsNeverRestored, Open
<1>5. PreparedForSlot'
  BY <1>1 DEF DeliveryOK, PreparedForSlot
<1> QED BY <1>1, <1>4, <1>5 DEF DeliveryOK, UnclaimedKept

\* Settling or forfeiting a paid reservation.
LEMMA SettleDelivery ==
  ASSUME EscrowOK, DeliveryOK, NEW s \in Slots, NEW c, Open(s), Paid(s),
         Settle(s, c)
  PROVE  DeliveryOK' /\ UnclaimedKept
<1> DEFINE done == preparations[s]
<1>1. /\ \A u \in Slots : u # s => /\ reservations'[u] = reservations[u]
                                   /\ preparations'[u] = preparations[u]
      /\ preparations'[s] = NoRequest
      /\ claimed' = claimed \cup {done}
      /\ UNCHANGED delivered
  BY DEF Settle, EscrowOK, marketVars
<1>2. reservations'[s].state = "Settled"
  <2>1. reservations[s] \in ReservationType
    BY OpenReservation
  <2>2. reservations'[s] = [reservations[s] EXCEPT !.state = "Settled"]
    BY DEF Settle, EscrowOK
  <2> QED BY <2>1, <2>2 DEF ReservationType
<1>3. done \in delivered /\ done # NoRequest
  BY RequestAssumption DEF Paid, EscrowOK
<1>4. done.slot = s
  BY <1>3 DEF DeliveryOK, PreparedForSlot
<1>5. \A req \in delivered : req.slot \in Slots /\ (req.slot = s => req = done)
  BY <1>3, <1>4 DEF DeliveryOK, PaidIsNeverRestored, EscrowOK, RequestType
<1>6. PaidIsNeverRestored'
  BY <1>1, <1>2, <1>4, <1>5 DEF DeliveryOK, PaidIsNeverRestored, Open
<1>7. PreparedForSlot'
  BY <1>1, <1>3 DEF DeliveryOK, PreparedForSlot
<1>8. UnclaimedKept
  BY <1>1 DEF UnclaimedKept, Open
<1> QED BY <1>6, <1>7, <1>8 DEF DeliveryOK

-----------------------------------------------------------------------------
(* The indices *)

\* A step that allots no index opens no slot beyond one.
LEMMA IndicesKeptBeyond ==
  ASSUME BeyondIndices, IndicesKept, UnclaimedKept
  PROVE  BeyondIndices'
<1>1. \A s \in Slots : s[1] \in Tasks /\ <<s[1], s[2]>> \in AttemptKeys
  BY SlotParts
<1>2. \A k \in AttemptKeys : k[1] \in Tasks
  BY KeySlots
<1>3. \A t \in Tasks : t >= nextTaskId' => tasks'[t].nextAttemptIndex = 0
  BY DEF BeyondIndices, IndicesKept
<1>4. \A k \in AttemptKeys :
        k[2] >= tasks'[k[1]].nextAttemptIndex => attempts'[k].status = "None"
  BY <1>2 DEF BeyondIndices, IndicesKept
<1>5. \A s \in Slots :
        \/ s[2] >= tasks'[s[1]].nextAttemptIndex
        \/ s[3] > attempts'[<<s[1], s[2]>>].nextVerdictIndex
        => reservations'[s].state = "None"
  BY <1>1 DEF BeyondIndices, IndicesKept, UnclaimedKept
<1> QED BY <1>3, <1>4, <1>5 DEF BeyondIndices

\* A new task starts with no attempt and no open slot.
LEMMA CreateTaskBeyond ==
  ASSUME CoordTypeOK, BeyondIndices, NEW t \in Tasks, NEW c, NEW p, NEW r1,
         NEW r2, createTask(t, c, p, r1, r2)
  PROVE  BeyondIndices'
<1>1. /\ t = nextTaskId /\ nextTaskId' = nextTaskId + 1 /\ nextTaskId \in Nat
      /\ UNCHANGED <<attempts, reservations>>
      /\ tasks' = [tasks EXCEPT ![t] = [NoTask EXCEPT !.creator = c,
                                          !.status = "Open", !.policy = p]]
  BY DEF createTask, CoordCreateTask, CoordTypeOK
<1>2. \A u \in Tasks : tasks'[u].nextAttemptIndex = tasks[u].nextAttemptIndex
  <2>1. tasks[t].nextAttemptIndex = 0
    BY <1>1 DEF BeyondIndices
  <2>2. tasks'[t].nextAttemptIndex = 0
    BY <1>1 DEF CoordTypeOK, NoTask
  <2>3. \A u \in Tasks : u # t => tasks'[u] = tasks[u]
    BY <1>1 DEF CoordTypeOK
  <2> QED BY <2>1, <2>2, <2>3
<1>3. \A u \in Tasks : u >= nextTaskId' => u >= nextTaskId
  BY <1>1, CoordinatorAssumption DEF Tasks
<1>4. \A s \in Slots : s[1] \in Tasks
  BY SlotParts
<1>5. \A k \in AttemptKeys : k[1] \in Tasks
  BY KeySlots
<1>6. \A u \in Tasks : u >= nextTaskId' => tasks'[u].nextAttemptIndex = 0
  BY <1>2, <1>3 DEF BeyondIndices
<1>7. \A k \in AttemptKeys :
        k[2] >= tasks'[k[1]].nextAttemptIndex => attempts'[k].status = "None"
  BY <1>1, <1>2, <1>5 DEF BeyondIndices
<1>8. \A s \in Slots :
        \/ s[2] >= tasks'[s[1]].nextAttemptIndex
        \/ s[3] > attempts'[<<s[1], s[2]>>].nextVerdictIndex
        => reservations'[s].state = "None"
  BY <1>1, <1>2, <1>4 DEF BeyondIndices
<1> QED BY <1>6, <1>7, <1>8 DEF BeyondIndices

\* claimTask allots the first slot beyond the task's index.
LEMMA ClaimTaskPaid ==
  ASSUME PaidInv, NEW t \in Tasks, NEW o \in Accounts, NEW m \in Mechs,
         NEW r \in Rates, claimTask(t, o, m, r)
  PROVE  DeliveryOK' /\ BeyondIndices'
<1> DEFINE i == tasks[t].nextAttemptIndex
           d == now + tasks[t].policy.responseTimeout
           s == <<t, i, 0>>
<1>1. /\ CoordTypeOK /\ EscrowOK /\ UnusedIsEmpty /\ DeliveryOK /\ BeyondIndices
      /\ i \in AttemptIndices /\ CoordClaimTask(t, o, d) /\ Reserve(s, o, m, r, d)
  BY TypeOKParts DEF PaidInv, ConservationInv, TypeOK, claimTask
<1>2. s \in Slots /\ <<t, i>> \in AttemptKeys /\ i \in Nat
  BY <1>1, KeySlots, CoordinatorAssumption DEF AttemptKeys, AttemptIndices
<1>3. reservations[s].state = "None"
  BY <1>1, <1>2, SMTT(20) DEF BeyondIndices
<1>4. /\ DeliveryOK'
      /\ \A u \in Slots : u # s /\ reservations[u].state = "None"
                            => reservations'[u].state = "None"
  BY <1>1, <1>2, <1>3, ReserveDelivery
<1>5. /\ ReapedTasks(t) \in [Tasks -> TaskType]
      /\ ReapedAttempts(t) \in [AttemptKeys -> AttemptType]
  BY <1>1, ReapedTypes DEF CoordClaimTask
<1>6. /\ tasks'[t].nextAttemptIndex = i + 1
      /\ \A u \in Tasks : u # t =>
           tasks'[u].nextAttemptIndex = tasks[u].nextAttemptIndex
  <2>1. ReapedTasks(t)[t].nextAttemptIndex = i
    BY <1>1, ReapKeeps
  <2>2. tasks'[t].nextAttemptIndex = ReapedTasks(t)[t].nextAttemptIndex + 1
    BY <1>1, <1>5 DEF CoordClaimTask, TaskType
  <2>3. \A u \in Tasks : u # t => tasks'[u] = ReapedTasks(t)[u]
    BY <1>1, <1>5 DEF CoordClaimTask
  <2> QED BY <1>1, <2>1, <2>2, <2>3, ReapKeeps
<1>7. /\ attempts'[<<t, i>>].nextVerdictIndex = 0
      /\ \A k \in AttemptKeys : k # <<t, i>> =>
           /\ attempts'[k].nextVerdictIndex = attempts[k].nextVerdictIndex
           /\ attempts[k].status = "None" => attempts'[k].status = "None"
  <2>1. \A k \in AttemptKeys : k # <<t, i>> =>
          attempts'[k] = ReapedAttempts(t)[k]
    BY <1>1, <1>5 DEF CoordClaimTask
  <2>2. attempts'[<<t, i>>] = [NoAttempt EXCEPT !.operator = o, !.deadline = d,
                                 !.claimedAt = now, !.status = "Live"]
    BY <1>1, <1>2, <1>5 DEF CoordClaimTask
  <2>3. attempts'[<<t, i>>].nextVerdictIndex = 0
    BY <2>2 DEF NoAttempt
  <2> QED BY <1>1, <2>1, <2>3, ReapKeeps
<1>8. ASSUME NEW u \in Tasks, u >= nextTaskId'
      PROVE  tasks'[u].nextAttemptIndex = 0
  <2>1. nextTaskId' = nextTaskId /\ tasks[t].status = "Open"
    BY <1>1 DEF CoordClaimTask
  <2>2. u # t
    BY <1>1, <1>8, <2>1 DEF UnusedIsEmpty
  <2> QED BY <1>1, <1>6, <1>8, <2>1, <2>2 DEF BeyondIndices
<1>9. ASSUME NEW k \in AttemptKeys, k[2] >= tasks'[k[1]].nextAttemptIndex
      PROVE  attempts'[k].status = "None"
  <2>1. k[1] \in Tasks /\ k[2] \in Nat
    BY KeySlots, CoordinatorAssumption DEF AttemptIndices
  <2>2. k # <<t, i>> /\ k[2] >= tasks[k[1]].nextAttemptIndex
    BY <1>2, <1>6, <1>9, <2>1
  <2> QED BY <1>1, <1>7, <2>2 DEF BeyondIndices
<1>10. ASSUME NEW u \in Slots,
              \/ u[2] >= tasks'[u[1]].nextAttemptIndex
              \/ u[3] > attempts'[<<u[1], u[2]>>].nextVerdictIndex
       PROVE  reservations'[u].state = "None"
  <2>1. /\ u[1] \in Tasks /\ u[2] \in Nat /\ u[3] \in Nat
        /\ <<u[1], u[2]>> \in AttemptKeys
    BY SlotParts, CoordinatorAssumption DEF AttemptIndices, Legs
  <2>2. u # s
    BY <1>2, <1>6, <1>7, <1>10, <2>1
  <2>3. \/ u[2] >= tasks[u[1]].nextAttemptIndex
        \/ u[3] > attempts[<<u[1], u[2]>>].nextVerdictIndex
    <3>1. CASE u[2] >= tasks'[u[1]].nextAttemptIndex
      BY <1>2, <1>6, <2>1, <3>1
    <3>2. CASE u[3] > attempts'[<<u[1], u[2]>>].nextVerdictIndex
      <4>1. CASE <<u[1], u[2]>> = <<t, i>>
        BY <1>2, <4>1
      <4>2. CASE <<u[1], u[2]>> # <<t, i>>
        BY <1>7, <2>1, <3>2, <4>2
      <4> QED BY <4>1, <4>2
    <3> QED BY <1>10, <3>1, <3>2
  <2> QED BY <1>1, <1>4, <2>2, <2>3 DEF BeyondIndices
<1> QED BY <1>4, <1>8, <1>9, <1>10 DEF BeyondIndices

\* claimEvaluation allots the first slot beyond the attempt's index.
LEMMA ClaimEvaluationPaid ==
  ASSUME PaidInv, NEW t \in Tasks, NEW i \in AttemptIndices,
         NEW o \in Accounts, NEW m \in Mechs, NEW r \in Rates,
         claimEvaluation(t, i, o, m, r)
  PROVE  DeliveryOK' /\ BeyondIndices'
<1> DEFINE a == <<t, i>>
           n == attempts[a].nextVerdictIndex
           d == now + tasks[t].policy.responseTimeout
           s == <<t, i, n + 1>>
<1>1. /\ CoordTypeOK /\ EscrowOK /\ DeliveryOK /\ BeyondIndices
      /\ CoordClaimEvaluation(t, i, o, d) /\ Reserve(s, o, m, r, d)
      /\ n + 1 \in VerdictLegs
  BY TypeOKParts DEF PaidInv, ConservationInv, TypeOK, claimEvaluation
<1>2. s \in Slots /\ a \in AttemptKeys /\ i \in Nat
  BY <1>1, KeySlots, CoordinatorAssumption
     DEF AttemptKeys, AttemptIndices, VerdictKeys
<1>3. n \in Nat
  BY <1>1, <1>2 DEF CoordTypeOK, AttemptType
<1>4. reservations[s].state = "None"
  BY <1>1, <1>2, <1>3, SMTT(20) DEF BeyondIndices
<1>5. /\ DeliveryOK'
      /\ \A u \in Slots : u # s /\ reservations[u].state = "None"
                            => reservations'[u].state = "None"
  BY <1>1, <1>2, <1>4, ReserveDelivery
<1>6. /\ \A u \in Tasks :
           tasks'[u].nextAttemptIndex = tasks[u].nextAttemptIndex
      /\ nextTaskId' = nextTaskId
  BY <1>1, ReapKeeps DEF CoordClaimEvaluation
<1>7. /\ attempts'[a].nextVerdictIndex = n + 1
      /\ \A k \in AttemptKeys : k # a =>
           attempts'[k].nextVerdictIndex = attempts[k].nextVerdictIndex
      /\ \A k \in AttemptKeys :
           attempts[k].status = "None" => attempts'[k].status = "None"
  <2>0. ReapedAttempts(t) \in [AttemptKeys -> AttemptType]
    BY <1>1, ReapedTypes DEF CoordClaimEvaluation
  <2>1. \A k \in AttemptKeys : k # a => attempts'[k] = ReapedAttempts(t)[k]
    BY <1>1, <2>0 DEF CoordClaimEvaluation
  <2>2. ReapedAttempts(t)[a].nextVerdictIndex = n
    BY <1>1, <1>2, ReapKeeps
  <2>3. attempts'[a] = [ReapedAttempts(t)[a] EXCEPT !.nextVerdictIndex =
                          ReapedAttempts(t)[a].nextVerdictIndex + 1]
    BY <1>1, <1>2, <2>0 DEF CoordClaimEvaluation
  <2>4. attempts'[a].nextVerdictIndex = n + 1
    BY <1>2, <2>0, <2>2, <2>3 DEF AttemptType
  <2>5. attempts[a].status # "None"
    BY <1>1 DEF CoordClaimEvaluation
  <2> QED BY <1>1, <2>1, <2>4, <2>5, ReapKeeps
<1>8. ASSUME NEW u \in Tasks, u >= nextTaskId'
      PROVE  tasks'[u].nextAttemptIndex = 0
  BY <1>1, <1>6, <1>8 DEF BeyondIndices
<1>9. ASSUME NEW k \in AttemptKeys, k[2] >= tasks'[k[1]].nextAttemptIndex
      PROVE  attempts'[k].status = "None"
  BY <1>1, <1>6, <1>7, <1>9, KeySlots DEF BeyondIndices
<1>10. ASSUME NEW u \in Slots,
              \/ u[2] >= tasks'[u[1]].nextAttemptIndex
              \/ u[3] > attempts'[<<u[1], u[2]>>].nextVerdictIndex
       PROVE  reservations'[u].state = "None"
  <2>1. /\ u[1] \in Tasks /\ u[2] \in Nat /\ u[3] \in Nat
        /\ <<u[1], u[2]>> \in AttemptKeys
    BY SlotParts, CoordinatorAssumption DEF AttemptIndices, Legs
  <2>2. ~(i >= tasks[t].nextAttemptIndex)
    BY <1>1, <1>2 DEF BeyondIndices, CoordClaimEvaluation
  <2>3. u # s
    BY <1>3, <1>6, <1>7, <1>10, <2>1, <2>2
  <2>4. \/ u[2] >= tasks[u[1]].nextAttemptIndex
        \/ u[3] > attempts[<<u[1], u[2]>>].nextVerdictIndex
    <3>1. CASE u[2] >= tasks'[u[1]].nextAttemptIndex
      BY <1>6, <2>1, <3>1
    <3>2. CASE u[3] > attempts'[<<u[1], u[2]>>].nextVerdictIndex
      <4>1. CASE <<u[1], u[2]>> = a
        BY <1>3, <1>7, <2>1, <3>2, <4>1
      <4>2. CASE <<u[1], u[2]>> # a
        BY <1>7, <2>1, <3>2, <4>2
      <4> QED BY <4>1, <4>2
    <3> QED BY <1>10, <3>1, <3>2
  <2> QED BY <1>1, <1>5, <2>3, <2>4 DEF BeyondIndices
<1> QED BY <1>5, <1>8, <1>9, <1>10 DEF BeyondIndices

-----------------------------------------------------------------------------
(* The theorem *)

\* addAttempts, closeTask and the refund preserve PaidInv.
LEMMA CreatorStepPaid ==
  ASSUME PaidInv, NEW t \in Tasks, CreatorStep(t)
  PROVE  DeliveryOK' /\ BeyondIndices'
<1>1. CoordTypeOK /\ EscrowOK /\ DeliveryOK /\ BeyondIndices
  BY TypeOKParts DEF PaidInv, ConservationInv, TypeOK
<1>2. /\ reservations' = ReapedReservations(t)
      /\ preparations' = ReapedPreparations(t)
      /\ UNCHANGED <<claimed, delivered>>
  BY DEF CreatorStep, addAttempts, closeTask, refundUnusedTaskBudget,
     RefundUnreserved, marketVars
<1>3. DeliveryOK' /\ UnclaimedKept
  BY <1>1, <1>2, ReapDelivery
<1>4. \A n \in 1..MaxAttempts : n \in Nat
  BY CoordinatorAssumption
<1>5. IndicesKept
  BY <1>1, <1>4, AddAttemptsKeeps, CloseKeeps, ReapAloneKeeps
     DEF CreatorStep, addAttempts, closeTask, refundUnusedTaskBudget
<1> QED BY <1>1, <1>3, <1>5, IndicesKeptBeyond

\* Preparation, delivery and settlement preserve PaidInv.
LEMMA DeliveryStepPaid ==
  ASSUME PaidInv, DeliveryStep
  PROVE  DeliveryOK' /\ BeyondIndices'
<1>1. CoordTypeOK /\ EscrowOK /\ DeliveryOK /\ BeyondIndices
  BY TypeOKParts DEF PaidInv, ConservationInv, TypeOK
<1> SUFFICES DeliveryOK' /\ UnclaimedKept /\ IndicesKept
  BY <1>1, IndicesKeptBeyond
<1>2. ASSUME UNCHANGED <<nextTaskId, coordVars>> PROVE IndicesKept
  BY <1>2 DEF IndicesKept, coordVars
<1>3. ASSUME NEW s \in Slots, NEW p, Prepare(s, p)
      PROVE  DeliveryOK' /\ UnclaimedKept /\ IndicesKept
  BY <1>1, <1>2, <1>3, PrepareDelivery DEF Prepare
<1>4. ASSUME NEW s \in Slots, deliverMarketplaceWithSignatures(s)
      PROVE  DeliveryOK' /\ UnclaimedKept /\ IndicesKept
  BY <1>1, <1>2, <1>4, DeliverDelivery DEF deliverMarketplaceWithSignatures
<1>5. ASSUME NEW req \in delivered,
             claimSolutionDelivery(req) \/ claimVerdictDelivery(req)
      PROVE  DeliveryOK' /\ UnclaimedKept /\ IndicesKept
  <2> DEFINE s == req.slot
             o == reservations[s].party
  <2>1. /\ CanClaimDelivery(s, req) /\ Settle(s, o)
        /\ \/ CoordRecordSolutionDelivery(s[1], s[2], o, req.payload)
           \/ s[3] # 0 /\ CoordRecordVerdict(s, o, req.payload)
    BY <1>5 DEF claimSolutionDelivery, claimVerdictDelivery
  <2>2. s \in Slots /\ Open(s) /\ Paid(s)
    BY <1>1, <2>1, ClaimableSlot
       DEF CanClaimDelivery, DeliveredExact, Paid
  <2>3. DeliveryOK' /\ UnclaimedKept
    BY <1>1, <2>1, <2>2, SettleDelivery
  <2>4. IndicesKept
    BY <1>1, <2>1, <2>2, SlotParts, RecordSolutionKeeps, RecordVerdictKeeps
  <2> QED BY <2>3, <2>4
<1>6. ASSUME NEW k \in AttemptKeys, NEW p \in Payloads,
             prepareSolutionDelivery(k[1], k[2], p)
      PROVE  DeliveryOK' /\ UnclaimedKept /\ IndicesKept
  BY <1>3, <1>6, KeySlots DEF prepareSolutionDelivery
<1>7. ASSUME NEW k \in VerdictKeys, NEW p \in Payloads,
             prepareVerdictDelivery(k, p)
      PROVE  DeliveryOK' /\ UnclaimedKept /\ IndicesKept
  BY <1>3, <1>7, KeySlots DEF prepareVerdictDelivery
<1> QED BY <1>4, <1>5, <1>6, <1>7 DEF DeliveryStep

\* Releases and forfeits preserve PaidInv.
LEMMA ExitStepPaid ==
  ASSUME PaidInv, ExitStep
  PROVE  DeliveryOK' /\ BeyondIndices'
<1>1. CoordTypeOK /\ EscrowOK /\ DeliveryOK /\ BeyondIndices
  BY TypeOKParts DEF PaidInv, ConservationInv, TypeOK
<1> SUFFICES DeliveryOK' /\ UnclaimedKept /\ IndicesKept
  BY <1>1, IndicesKeptBeyond
<1>2. ASSUME NEW k \in AttemptKeys, releaseAttempt(k[1], k[2])
      PROVE  DeliveryOK' /\ UnclaimedKept /\ IndicesKept
  BY <1>1, <1>2, KeySlots, ReleaseDelivery, ReleaseAttemptKeeps
     DEF releaseAttempt
<1>3. ASSUME NEW k \in VerdictKeys, releaseVerdict(k)
      PROVE  DeliveryOK' /\ UnclaimedKept /\ IndicesKept
  BY <1>1, <1>3, KeySlots, ReleaseDelivery, ReleaseVerdictKeeps
     DEF releaseVerdict
<1>4. ASSUME NEW s \in Slots, NEW c \in Accounts,
             forfeitSolution(s, c) \/ forfeitVerdict(s, c)
      PROVE  DeliveryOK' /\ UnclaimedKept /\ IndicesKept
  <2>1. /\ Open(s) /\ Paid(s) /\ Settle(s, c)
        /\ CoordForfeitAttempt(s[1], s[2]) \/ CoordForfeitVerdict(s)
    BY <1>4 DEF forfeitSolution, forfeitVerdict, CanForfeit
  <2> QED BY <1>1, <2>1, SettleDelivery, ForfeitKeeps
<1> QED BY <1>2, <1>3, <1>4 DEF ExitStep

\* The invariant behind PaidNeverRestored is inductive.
LEMMA StepPaid == PaidInv /\ [Next]_vars => PaidInv'
<1> SUFFICES ASSUME PaidInv, [Next]_vars
             PROVE  PaidInv'
  OBVIOUS
<1>1. ConservationInv'
  BY StepConserves DEF PaidInv
<1>2. ASSUME NEW t \in Tasks, NEW c \in Accounts, NEW p \in Policies,
             NEW r1 \in Rates, NEW r2 \in Rates, createTask(t, c, p, r1, r2)
      PROVE  DeliveryOK' /\ BeyondIndices'
  <2>1. UNCHANGED <<reservations, preparations, claimed, delivered>>
    BY <1>2 DEF createTask, marketVars
  <2>2. DeliveryOK'
    BY <2>1 DEF PaidInv, DeliveryOK, PaidIsNeverRestored, PreparedForSlot, Open
  <2>3. BeyondIndices'
    BY <1>2, CreateTaskBeyond DEF PaidInv, ConservationInv, TypeOK
  <2> QED BY <2>2, <2>3
<1>3. ASSUME NEW t \in Tasks, ClaimStep(t)
      PROVE  DeliveryOK' /\ BeyondIndices'
  BY <1>3, ClaimTaskPaid, ClaimEvaluationPaid DEF ClaimStep
<1>4. ASSUME OwnerStep \/ Tick \/ UNCHANGED vars
      PROVE  DeliveryOK' /\ BeyondIndices'
  <2>1. UNCHANGED <<nextTaskId, coordVars, reservations, preparations, claimed,
                    marketVars>>
    BY <1>4, OtherStepKeeps
  <2>2. DeliveryOK'
    BY <2>1 DEF PaidInv, DeliveryOK, PaidIsNeverRestored, PreparedForSlot,
       Open, marketVars
  <2>3. BeyondIndices'
    BY <2>1 DEF PaidInv, BeyondIndices, coordVars
  <2> QED BY <2>2, <2>3
<1>5. DeliveryOK' /\ BeyondIndices'
  BY <1>2, <1>3, <1>4, CreatorStepPaid, DeliveryStepPaid, ExitStepPaid DEF Next
<1> QED BY <1>1, <1>5 DEF PaidInv

\* Deployment satisfies PaidInv: nothing is delivered, no index allotted.
LEMMA InitPaid == Init => PaidInv
<1> SUFFICES ASSUME Init PROVE PaidInv
  OBVIOUS
<1>1. ConservationInv
  BY InitTypeOK, InitConserves DEF ConservationInv
<1>2. DeliveryOK
  BY DEF Init, DeliveryOK, PaidIsNeverRestored, PreparedForSlot
<1>3. BeyondIndices
  <2>1. \A k \in AttemptKeys : attempts[k].status = "None"
    BY DEF Init, CoordInit, NoAttempt
  <2>2. \A s \in Slots : reservations[s].state = "None"
    BY DEF Init, NoReservation
  <2>3. \A t \in Tasks : tasks[t].nextAttemptIndex = 0
    BY DEF Init, CoordInit, NoTask
  <2> QED BY <2>1, <2>2, <2>3 DEF BeyondIndices
<1> QED BY <1>1, <1>2, <1>3 DEF PaidInv

\* In every reachable state a delivered request pins its reservation until it
\* is settled: no delivery is paid twice for a slot, and no release, reap,
\* close, refund or new preparation gives a paid reservation back.
THEOREM PaidNeverRestored == Spec => []PaidIsNeverRestored
<1>1. PaidInv => PaidIsNeverRestored
  BY DEF PaidInv, DeliveryOK
<1> QED BY <1>1, InitPaid, StepPaid, PTL DEF Spec

-----------------------------------------------------------------------------
(* What a transaction may do to a slot, in both contracts at once *)

Deadline(s) == IF s[3] = 0 THEN AttemptOf(s).deadline ELSE verdicts[s].deadline
Digest(s)   == IF s[3] = 0 THEN AttemptOf(s).digest ELSE verdicts[s].digest

\* Only a submitted attempt is evaluated.
EvaluatedIsSubmitted ==
  \A k \in VerdictKeys :
    verdicts[k].status # "None" => AttemptOf(k).status \in {"Submitted", "Finalized"}

\* Nothing changes, but for an attempt that its quorum finalizes.
Stays(s) ==
  /\ reservations'[s] = reservations[s]
  /\ \/ StatusOf(s)' = StatusOf(s)
     \/ StatusOf(s) = "Submitted" /\ StatusOf(s)' = "Finalized"
  /\ Deadline(s)' = Deadline(s) /\ Digest(s)' = Digest(s)
  /\ Paid(s) => Paid(s)'

\* A claim: the slot was never used, and only a submission is evaluated.
Opens(s) ==
  /\ reservations[s].state = "None" /\ Open(s)'
  /\ StatusOf(s)' = "Live" /\ Deadline(s)' = reservations'[s].deadline
  /\ s[3] # 0 => AttemptOf(s).status \in {"Submitted", "Finalized"}

\* Reservation s ends in a state, and the coordinator's record in a status.
Ends(s, state, status) ==
  /\ Open(s)
  /\ reservations'[s] = [reservations[s] EXCEPT !.state = state]
  /\ StatusOf(s)' = status

\* The coordinator lets a paid reservation expire that the router keeps.
ExpiresPaid(s) ==
  /\ Lapsed(s) /\ Paid(s) /\ reservations'[s] = reservations[s]
  /\ StatusOf(s)' = "Expired" /\ Paid(s)'

\* The coordinator records the paid, prepared delivery of the slot.
IsRecorded(s) ==
  \E st \in {"Submitted", "Delivered"}, req \in delivered :
    /\ Ends(s, "Settled", st)
    /\ st = "Submitted" <=> s[3] = 0
    /\ preparations[s] = req /\ req.slot = s /\ req \in claimed'
    /\ req.mech = reservations[s].mech /\ req.rate = reservations[s].rate
    /\ Digest(s)' = req.payload

Moves(s) ==
  \/ Stays(s) \/ Opens(s) \/ ExpiresPaid(s) \/ IsRecorded(s)
  \/ Ends(s, "Settled", "Forfeited")
  \/ Ends(s, "Released", "Released")
  \/ Ends(s, "Released", "Expired")

LedgerInv == PaidInv /\ LedgersAgree /\ EvaluatedIsSubmitted

\* An evaluated attempt's solution slot is not open.
LEMMA EvaluatedNotOpen ==
  ASSUME LedgersAgree, EvaluatedIsSubmitted, NEW s \in Slots, s[3] # 0,
         StatusOf(s) # "None"
  PROVE  SolutionSlot(s) \in Slots /\ ~Open(SolutionSlot(s))
<1> DEFINE u == SolutionSlot(s)
<1>1. s \in VerdictKeys /\ u \in Slots /\ u[1] = s[1] /\ u[2] = s[2] /\ u[3] = 0
  BY SlotParts, KeySlots DEF SolutionSlot
<1>2. AttemptOf(s).status \in {"Submitted", "Finalized"}
  BY <1>1 DEF EvaluatedIsSubmitted, StatusOf
<1>3. StatusOf(u) = AttemptOf(s).status
  BY <1>1 DEF StatusOf, AttemptOf
<1>4. Open(u) => StatusOf(u) \in {"Live", "Expired"}
  BY <1>1 DEF LedgersAgree
<1> QED BY <1>1, <1>2, <1>3, <1>4

\* The coordinator's record of a slot after reapExpired.
ReapedStatus(t, s) == IF s[3] = 0 THEN ReapedAttempts(t)[<<s[1], s[2]>>].status
                                  ELSE ReapedVerdicts(t)[s].status

\* The slots whose record reapExpired turns to Expired.
ExpiresIn(t, s) ==
  /\ s[1] = t
  /\ s[2] < tasks[t].nextAttemptIndex
  /\ s[3] <= AttemptOf(s).nextVerdictIndex
  /\ StatusOf(s) = "Live"
  /\ now > Deadline(s)

\* reapExpired turns the status of those slots, and of no other.
LEMMA ReapedStatusIs ==
  ASSUME CoordTypeOK, NEW t \in Tasks, NEW s \in Slots
  PROVE  ReapedStatus(t, s) = IF ExpiresIn(t, s) THEN "Expired" ELSE StatusOf(s)
<1> DEFINE k == <<s[1], s[2]>>
<1>1. /\ k \in AttemptKeys /\ k[1] = s[1] /\ k[2] = s[2]
      /\ s[3] # 0 => s \in VerdictKeys
      /\ AttemptOf(s) = attempts[k] /\ attempts[k] \in AttemptType
  BY SlotParts DEF AttemptOf, CoordTypeOK
<1>2. CASE s[3] = 0
  <2>1. 0 <= attempts[k].nextVerdictIndex
    BY <1>1 DEF AttemptType
  <2>2. ExpiresIn(t, s) <=> k \in ExpiredAttempts(t)
    BY <1>1, <1>2, <2>1 DEF ExpiresIn, ExpiredAttempts, StatusOf, Deadline
  <2>3. ReapedAttempts(t)[k].status = IF k \in ExpiredAttempts(t)
                                        THEN "Expired" ELSE attempts[k].status
    BY <1>1 DEF ReapedAttempts, AttemptType
  <2> QED BY <1>1, <1>2, <2>2, <2>3 DEF ReapedStatus, StatusOf
<1>3. CASE s[3] # 0
  <2>1. s \in VerdictKeys /\ verdicts[s] \in VerdictType
    BY <1>1, <1>3 DEF CoordTypeOK
  <2>2. s[1] = t => <<t, s[2]>> = k
    OBVIOUS
  <2>3. ReapedVerdicts(t)[s].status = IF ExpiresIn(t, s)
                                        THEN "Expired" ELSE verdicts[s].status
    BY <1>1, <1>3, <2>1, <2>2
       DEF ReapedVerdicts, ExpiresIn, StatusOf, Deadline, VerdictType
  <2> QED BY <1>3, <2>3 DEF ReapedStatus, StatusOf
<1> QED BY <1>2, <1>3

\* _reap and reapExpired together: a slot lapses in both contracts, or it was
\* paid for and lapses in the coordinator only, or it stays.
LEMMA ReapMoves ==
  ASSUME LedgerInv, NEW t \in Tasks, NEW s \in Slots,
         reservations'[s] = ReapedReservations(t)[s],
         preparations'[s] = ReapedPreparations(t)[s],
         delivered \subseteq delivered',
         StatusOf(s)' = ReapedStatus(t, s),
         Deadline(s)' = Deadline(s), Digest(s)' = Digest(s)
  PROVE  Moves(s)
<1>1. /\ CoordTypeOK /\ EscrowOK /\ LedgersAgree /\ EvaluatedIsSubmitted
  BY TypeOKParts DEF LedgerInv, PaidInv, ConservationInv, TypeOK
<1>2. StatusOf(s)' = IF ExpiresIn(t, s) THEN "Expired" ELSE StatusOf(s)
  BY <1>1, ReapedStatusIs
<1>3. ASSUME s \in Reapable(t)
      PROVE  Ends(s, "Released", "Expired")
  <2>1. /\ s[1] = t /\ s[2] < tasks[t].nextAttemptIndex
        /\ s[3] <= AttemptOf(s).nextVerdictIndex
        /\ Open(s) /\ now > reservations[s].deadline /\ ~Paid(s)
    BY <1>3 DEF Reapable, Lapsed, AttemptOf
  <2>2. StatusOf(s) = "Live" /\ reservations[s].deadline = Deadline(s)
    BY <1>1, <2>1 DEF LedgersAgree, Deadline
  <2>3. ExpiresIn(t, s)
    BY <2>1, <2>2 DEF ExpiresIn
  <2>4. reservations'[s] = [reservations[s] EXCEPT !.state = "Released"]
    BY <1>3 DEF ReapedReservations
  <2> QED BY <1>2, <2>1, <2>3, <2>4 DEF Ends
<1>4. ASSUME s \notin Reapable(t)
      PROVE  /\ reservations'[s] = reservations[s]
             /\ preparations'[s] = preparations[s]
             /\ Paid(s) => Paid(s)'
  BY <1>4 DEF ReapedReservations, ReapedPreparations, Paid
<1>5. ASSUME s \notin Reapable(t), ExpiresIn(t, s)
      PROVE  ExpiresPaid(s)
  <2>1. Open(s) /\ reservations[s].deadline = Deadline(s) /\ Lapsed(s)
    BY <1>1, <1>5 DEF ExpiresIn, LedgersAgree, Deadline, Lapsed
  <2>2. s[3] # 0 => ~Lapsed(SolutionSlot(s))
    BY <1>1, <1>5, EvaluatedNotOpen DEF ExpiresIn, Lapsed
  <2>3. Paid(s)
    BY <1>5, <2>1, <2>2 DEF Reapable, ExpiresIn, AttemptOf
  <2> QED BY <1>2, <1>4, <1>5, <2>1, <2>3 DEF ExpiresPaid
<1>6. ASSUME s \notin Reapable(t), ~ExpiresIn(t, s)
      PROVE  Stays(s)
  BY <1>2, <1>4, <1>6 DEF Stays
<1> QED BY <1>3, <1>5, <1>6 DEF Moves

\* The coordinator's record of a slot, when its storage is what reapExpired
\* leaves of it.
LEMMA ReapedRecord ==
  ASSUME CoordTypeOK, NEW t \in Tasks, NEW s \in Slots,
         s[3] = 0 =>
           LET k == <<s[1], s[2]>> IN
           /\ attempts'[k].status = ReapedAttempts(t)[k].status
           /\ attempts'[k].deadline = ReapedAttempts(t)[k].deadline
           /\ attempts'[k].digest = ReapedAttempts(t)[k].digest,
         s[3] # 0 => verdicts'[s] = ReapedVerdicts(t)[s]
  PROVE  /\ StatusOf(s)' = ReapedStatus(t, s)
         /\ Deadline(s)' = Deadline(s) /\ Digest(s)' = Digest(s)
<1> DEFINE k == <<s[1], s[2]>>
<1>1. k \in AttemptKeys /\ (s[3] # 0 => s \in VerdictKeys)
  BY SlotParts
<1>2. StatusOf(s)' = ReapedStatus(t, s)
  BY DEF StatusOf, AttemptOf, ReapedStatus
<1>3. /\ ReapedAttempts(t)[k].deadline = attempts[k].deadline
      /\ ReapedAttempts(t)[k].digest = attempts[k].digest
  BY <1>1 DEF ReapedAttempts, CoordTypeOK, AttemptType
<1>4. s[3] # 0 => /\ ReapedVerdicts(t)[s].deadline = verdicts[s].deadline
                  /\ ReapedVerdicts(t)[s].digest = verdicts[s].digest
  BY <1>1 DEF ReapedVerdicts, CoordTypeOK, VerdictType
<1> QED BY <1>2, <1>3, <1>4 DEF Deadline, Digest, AttemptOf

\* A slot whose reservation and record a step leaves alone stays.
LEMMA UntouchedStays ==
  ASSUME NEW s \in Slots, reservations'[s] = reservations[s],
         Paid(s) => Paid(s)',
         s[3] = 0 => AttemptOf(s)' = AttemptOf(s),
         s[3] # 0 => verdicts'[s] = verdicts[s]
  PROVE  Stays(s)
  BY DEF Stays, StatusOf, Deadline, Digest

-----------------------------------------------------------------------------
(* One action at a time *)

\* addAttempts, closeTask and the refund only reap.
LEMMA CreatorStepMoves ==
  ASSUME LedgerInv, NEW t \in Tasks, CreatorStep(t), NEW s \in Slots
  PROVE  Moves(s)
<1>1. CoordTypeOK
  BY DEF LedgerInv, PaidInv, ConservationInv, TypeOK
<1>2. /\ reservations' = ReapedReservations(t)
      /\ preparations' = ReapedPreparations(t)
      /\ UNCHANGED delivered
      /\ attempts' = ReapedAttempts(t) /\ verdicts' = ReapedVerdicts(t)
  BY DEF CreatorStep, addAttempts, closeTask, refundUnusedTaskBudget,
     RefundUnreserved, marketVars, CoordAddAttempts, CoordCloseTask, CoordReap
<1> QED BY <1>1, <1>2, ReapedRecord, ReapMoves

\* claimTask opens the slot of the new attempt and reaps the others.
LEMMA ClaimTaskMoves ==
  ASSUME LedgerInv, NEW t \in Tasks, NEW o \in Accounts, NEW m \in Mechs,
         NEW r \in Rates, claimTask(t, o, m, r), NEW s \in Slots
  PROVE  Moves(s)
<1> DEFINE i == tasks[t].nextAttemptIndex
           d == now + tasks[t].policy.responseTimeout
           a == <<t, i>>
           u == <<t, i, 0>>
<1>1. /\ CoordTypeOK /\ EscrowOK /\ BeyondIndices
      /\ i \in AttemptIndices /\ CoordClaimTask(t, o, d) /\ Reserve(u, o, m, r, d)
  BY TypeOKParts DEF LedgerInv, PaidInv, ConservationInv, TypeOK, claimTask
<1>2. /\ u \in Slots /\ a \in AttemptKeys /\ i \in Nat
      /\ u[1] = t /\ u[2] = i /\ u[3] = 0
  BY <1>1, KeySlots, CoordinatorAssumption DEF AttemptKeys, AttemptIndices
<1>3. /\ reservations' = [ReapedReservations(t) EXCEPT ![u] =
                            [state |-> "Open", party |-> o, mech |-> m,
                             rate |-> r, deadline |-> d]]
      /\ preparations' = [ReapedPreparations(t) EXCEPT ![u] = NoRequest]
      /\ UNCHANGED delivered
  BY <1>1, <1>2 DEF Reserve, marketVars
<1>4. /\ attempts' = [ReapedAttempts(t) EXCEPT ![a] =
                        [NoAttempt EXCEPT !.operator = o, !.deadline = d,
                           !.claimedAt = now, !.status = "Live"]]
      /\ verdicts' = ReapedVerdicts(t)
  BY <1>1 DEF CoordClaimTask
<1>5. CASE s = u
  <2>1. reservations[u].state = "None"
    BY <1>1, <1>2, SMTT(20) DEF BeyondIndices
  <2>2. reservations'[u].state = "Open" /\ reservations'[u].deadline = d
    BY <1>2, <1>3 DEF ReapedReservations
  <2>3. attempts'[a] = [NoAttempt EXCEPT !.operator = o, !.deadline = d,
                          !.claimedAt = now, !.status = "Live"]
    BY <1>2, <1>4 DEF ReapedAttempts
  <2>4. attempts'[a].status = "Live" /\ attempts'[a].deadline = d
    BY <2>3 DEF NoAttempt
  <2>5. StatusOf(s)' = "Live" /\ Deadline(s)' = d
    BY <1>2, <1>5, <2>4 DEF StatusOf, Deadline, AttemptOf
  <2>6. Opens(s)
    BY <1>2, <1>5, <2>1, <2>2, <2>5 DEF Opens, Open
  <2> QED BY <2>6 DEF Moves
<1>6. CASE s # u
  <2>1. /\ reservations'[s] = ReapedReservations(t)[s]
        /\ preparations'[s] = ReapedPreparations(t)[s]
    BY <1>3, <1>6 DEF ReapedReservations, ReapedPreparations
  <2>2. s[3] = 0 => <<s[1], s[2]>> # a
    BY <1>6 DEF Slots
  <2>3. s[3] = 0 => attempts'[<<s[1], s[2]>>] = ReapedAttempts(t)[<<s[1], s[2]>>]
    BY <1>4, <2>2, SlotParts DEF ReapedAttempts
  <2> QED BY <1>1, <1>3, <1>4, <2>1, <2>3, ReapedRecord, ReapMoves
<1> QED BY <1>5, <1>6

\* claimEvaluation opens the slot of the new verdict and reaps the others.
LEMMA ClaimEvaluationMoves ==
  ASSUME LedgerInv, NEW t \in Tasks, NEW i \in AttemptIndices,
         NEW o \in Accounts, NEW m \in Mechs, NEW r \in Rates,
         claimEvaluation(t, i, o, m, r), NEW s \in Slots
  PROVE  Moves(s)
<1> DEFINE a == <<t, i>>
           n == attempts[a].nextVerdictIndex
           d == now + tasks[t].policy.responseTimeout
           u == <<t, i, n + 1>>
<1>1. /\ CoordTypeOK /\ EscrowOK /\ BeyondIndices
      /\ CoordClaimEvaluation(t, i, o, d) /\ Reserve(u, o, m, r, d)
      /\ n + 1 \in VerdictLegs
  BY TypeOKParts DEF LedgerInv, PaidInv, ConservationInv, TypeOK,
     claimEvaluation
<1>2. /\ u \in Slots /\ u \in VerdictKeys /\ a \in AttemptKeys
      /\ u[1] = t /\ u[2] = i /\ u[3] = n + 1 /\ u[3] # 0
  BY <1>1, KeySlots DEF AttemptKeys, VerdictKeys
<1>3. n \in Nat
  BY <1>1, <1>2 DEF CoordTypeOK, AttemptType
<1>4. /\ reservations' = [ReapedReservations(t) EXCEPT ![u] =
                            [state |-> "Open", party |-> o, mech |-> m,
                             rate |-> r, deadline |-> d]]
      /\ preparations' = [ReapedPreparations(t) EXCEPT ![u] = NoRequest]
      /\ UNCHANGED delivered
  BY <1>1, <1>2 DEF Reserve, marketVars
<1>5. /\ attempts' = [ReapedAttempts(t) EXCEPT ![a].nextVerdictIndex = @ + 1]
      /\ verdicts' = [ReapedVerdicts(t) EXCEPT ![u] =
                        [NoVerdict EXCEPT !.evaluator = o, !.deadline = d,
                           !.claimedAt = now, !.status = "Live"]]
      /\ attempts[a].status \in {"Submitted", "Finalized"}
      /\ ReapedAttempts(t) \in [AttemptKeys -> AttemptType]
  BY <1>1, ReapedTypes DEF CoordClaimEvaluation
<1>6. CASE s = u
  <2>1. reservations[u].state = "None"
    BY <1>1, <1>2, <1>3 DEF BeyondIndices
  <2>2. reservations'[u].state = "Open" /\ reservations'[u].deadline = d
    BY <1>2, <1>4 DEF ReapedReservations
  <2>3. verdicts'[u] = [NoVerdict EXCEPT !.evaluator = o, !.deadline = d,
                          !.claimedAt = now, !.status = "Live"]
    BY <1>2, <1>5 DEF ReapedVerdicts
  <2>4. verdicts'[u].status = "Live" /\ verdicts'[u].deadline = d
    BY <2>3 DEF NoVerdict
  <2>5. StatusOf(s)' = "Live" /\ Deadline(s)' = d
    BY <1>2, <1>6, <2>4 DEF StatusOf, Deadline
  <2>6. AttemptOf(s) = attempts[a]
    BY <1>2, <1>6 DEF AttemptOf
  <2>7. Opens(s)
    BY <1>5, <1>6, <2>1, <2>2, <2>5, <2>6 DEF Opens, Open
  <2> QED BY <2>7 DEF Moves
<1>7. CASE s # u
  <2>1. /\ reservations'[s] = ReapedReservations(t)[s]
        /\ preparations'[s] = ReapedPreparations(t)[s]
    BY <1>4, <1>7 DEF ReapedReservations, ReapedPreparations
  <2>2. ASSUME NEW k \in AttemptKeys
        PROVE  /\ attempts'[k].status = ReapedAttempts(t)[k].status
               /\ attempts'[k].deadline = ReapedAttempts(t)[k].deadline
               /\ attempts'[k].digest = ReapedAttempts(t)[k].digest
    <3>1. CASE k # a
      BY <1>5, <3>1
    <3>2. CASE k = a
      <4>1. attempts'[a] = [ReapedAttempts(t)[a] EXCEPT !.nextVerdictIndex =
                              ReapedAttempts(t)[a].nextVerdictIndex + 1]
        BY <1>2, <1>5
      <4> QED BY <1>2, <1>5, <3>2, <4>1 DEF AttemptType
    <3> QED BY <3>1, <3>2
  <2>3. s[3] # 0 => verdicts'[s] = ReapedVerdicts(t)[s]
    BY <1>5, <1>7, SlotParts DEF ReapedVerdicts
  <2> QED BY <1>1, <1>4, <2>1, <2>2, <2>3, SlotParts, ReapedRecord, ReapMoves
<1> QED BY <1>6, <1>7

\* Preparing and delivering touch no reservation and no record.
LEMMA PrepareMoves ==
  ASSUME LedgerInv, NEW u \in Slots, NEW s \in Slots,
         (\E p \in Payloads : Prepare(u, p)) \/ deliverMarketplaceWithSignatures(u)
  PROVE  Moves(s)
<1>1. EscrowOK
  BY TypeOKParts DEF LedgerInv, PaidInv, ConservationInv
<1>2. UNCHANGED <<reservations, attempts, verdicts>>
  BY DEF Prepare, deliverMarketplaceWithSignatures, coordVars
<1>3. Paid(s) => Paid(s)'
  BY <1>1 DEF Prepare, deliverMarketplaceWithSignatures, Paid, marketVars,
     EscrowOK
<1> QED BY <1>2, <1>3, UntouchedStays DEF Moves, AttemptOf

\* Settling a slot leaves the reservation of every other alone.
LEMMA SettleOthers ==
  ASSUME EscrowOK, NEW u \in Slots, NEW c, Settle(u, c), NEW s \in Slots, s # u
  PROVE  reservations'[s] = reservations[s] /\ (Paid(s) => Paid(s)')
  BY DEF Settle, EscrowOK, Paid, marketVars

\* claimSolutionDelivery records the solution of its slot.
LEMMA ClaimSolutionMoves ==
  ASSUME LedgerInv, NEW req \in delivered, claimSolutionDelivery(req),
         NEW s \in Slots
  PROVE  Moves(s)
<1> DEFINE u == req.slot
           a == <<u[1], u[2]>>
           o == reservations[u].party
<1>1. /\ CoordTypeOK /\ EscrowOK /\ u[3] = 0
      /\ CanClaimDelivery(u, req) /\ Settle(u, o)
      /\ CoordRecordSolutionDelivery(u[1], u[2], o, req.payload)
  BY TypeOKParts DEF LedgerInv, PaidInv, ConservationInv, TypeOK,
     claimSolutionDelivery
<1>2. u \in Slots /\ Open(u) /\ preparations[u] = req /\ a \in AttemptKeys
  BY <1>1, ClaimableSlot, SlotParts DEF CanClaimDelivery
<1>3. /\ attempts' = [attempts EXCEPT ![a].digest = req.payload,
                                      ![a].status = "Submitted"]
      /\ UNCHANGED verdicts
  BY <1>1 DEF CoordRecordSolutionDelivery
<1>4. CASE s = u
  <2>1. /\ attempts'[a].status = "Submitted"
        /\ attempts'[a].digest = req.payload
    BY <1>1, <1>2, <1>3 DEF CoordTypeOK, AttemptType
  <2>2. StatusOf(s)' = "Submitted" /\ Digest(s)' = req.payload
    BY <1>1, <1>4, <2>1 DEF StatusOf, Digest, AttemptOf
  <2>3. /\ reservations'[s] = [reservations[s] EXCEPT !.state = "Settled"]
        /\ req \in claimed'
    BY <1>1, <1>2, <1>4 DEF Settle, EscrowOK
  <2>4. req.mech = reservations[s].mech /\ req.rate = reservations[s].rate
    BY <1>1, <1>4 DEF CanClaimDelivery, DeliveredExact
  <2>5. Ends(s, "Settled", "Submitted")
    BY <1>2, <1>4, <2>2, <2>3 DEF Ends
  <2>6. IsRecorded(s)
    BY <1>1, <1>2, <1>4, <2>2, <2>3, <2>4, <2>5 DEF IsRecorded
  <2> QED BY <2>6 DEF Moves
<1>5. CASE s # u
  <2>1. s[3] = 0 => <<s[1], s[2]>> # a
    BY <1>1, <1>2, <1>5 DEF Slots
  <2>2. s[3] = 0 => AttemptOf(s)' = AttemptOf(s)
    BY <1>1, <1>3, <2>1, SlotParts DEF AttemptOf, CoordTypeOK
  <2> QED BY <1>1, <1>2, <1>3, <1>5, <2>2, SettleOthers, UntouchedStays
             DEF Moves
<1> QED BY <1>4, <1>5

\* claimVerdictDelivery records the verdict of its slot, and may finalize the
\* attempt it is about.
LEMMA ClaimVerdictMoves ==
  ASSUME LedgerInv, NEW req \in delivered, claimVerdictDelivery(req),
         NEW s \in Slots
  PROVE  Moves(s)
<1> DEFINE u == req.slot
           a == <<u[1], u[2]>>
           o == reservations[u].party
<1>1. /\ CoordTypeOK /\ EscrowOK /\ u[3] # 0
      /\ CanClaimDelivery(u, req) /\ Settle(u, o)
      /\ CoordRecordVerdict(u, o, req.payload)
  BY TypeOKParts DEF LedgerInv, PaidInv, ConservationInv, TypeOK,
     claimVerdictDelivery
<1>2. /\ u \in Slots /\ Open(u) /\ preparations[u] = req /\ a \in AttemptKeys
      /\ u \in VerdictKeys
  BY <1>1, ClaimableSlot, SlotParts DEF CanClaimDelivery
<1>3. /\ verdicts' = [verdicts EXCEPT ![u].digest = req.payload,
                                      ![u].status = "Delivered"]
      /\ attempts' = [attempts EXCEPT
                        ![a].deliveredVerdictCount = @ + 1,
                        ![a].status = IF Finalizes(u) THEN "Finalized" ELSE @]
  BY <1>1 DEF CoordRecordVerdict
<1>4. CASE s = u
  <2>1. verdicts'[u].status = "Delivered" /\ verdicts'[u].digest = req.payload
    BY <1>1, <1>2, <1>3 DEF CoordTypeOK, VerdictType
  <2>2. StatusOf(s)' = "Delivered" /\ Digest(s)' = req.payload
    BY <1>1, <1>4, <2>1 DEF StatusOf, Digest
  <2>3. /\ reservations'[s] = [reservations[s] EXCEPT !.state = "Settled"]
        /\ req \in claimed'
    BY <1>1, <1>2, <1>4 DEF Settle, EscrowOK
  <2>4. req.mech = reservations[s].mech /\ req.rate = reservations[s].rate
    BY <1>1, <1>4 DEF CanClaimDelivery, DeliveredExact
  <2>5. Ends(s, "Settled", "Delivered")
    BY <1>2, <1>4, <2>2, <2>3 DEF Ends
  <2>6. IsRecorded(s)
    BY <1>1, <1>2, <1>4, <2>2, <2>3, <2>4, <2>5 DEF IsRecorded
  <2> QED BY <2>6 DEF Moves
<1>5. CASE s # u /\ s[3] # 0
  <2>1. verdicts'[s] = verdicts[s]
    BY <1>1, <1>3, <1>5, SlotParts DEF CoordTypeOK
  <2> QED BY <1>1, <1>2, <1>5, <2>1, SettleOthers, UntouchedStays DEF Moves
<1>6. CASE s[3] = 0
  <2> DEFINE k == <<s[1], s[2]>>
  <2>1. k \in AttemptKeys /\ s # u
    BY <1>1, <1>6, SlotParts
  <2>2. /\ \/ attempts'[k].status = attempts[k].status
           \/ attempts[k].status = "Submitted" /\ attempts'[k].status = "Finalized"
        /\ attempts'[k].deadline = attempts[k].deadline
        /\ attempts'[k].digest = attempts[k].digest
    <3>1. CASE k # a
      BY <1>1, <1>3, <2>1, <3>1 DEF CoordTypeOK
    <3>2. CASE k = a
      <4>1. attempts'[a] = [attempts[a] EXCEPT
              !.deliveredVerdictCount = attempts[a].deliveredVerdictCount + 1,
              !.status = IF Finalizes(u) THEN "Finalized" ELSE attempts[a].status]
        BY <1>1, <1>2, <1>3 DEF CoordTypeOK
      <4>2. Finalizes(u) => attempts[a].status = "Submitted"
        BY DEF Finalizes
      <4> QED BY <1>1, <1>2, <3>2, <4>1, <4>2 DEF CoordTypeOK, AttemptType
    <3> QED BY <3>1, <3>2
  <2> QED BY <1>1, <1>2, <1>6, <2>1, <2>2, SettleOthers
             DEF Moves, Stays, StatusOf, Deadline, Digest, AttemptOf
<1> QED BY <1>4, <1>5, <1>6

\* Both releases end their slot, released in both contracts, and reap.
LEMMA ReleaseMoves ==
  ASSUME LedgerInv, NEW u \in Slots, NEW s \in Slots, Release(u),
         \/ u[3] = 0 /\ CoordReleaseAttempt(u[1], u[2], reservations[u].party)
         \/ u[3] # 0 /\ CoordReleaseVerdict(u, reservations[u].party)
  PROVE  Moves(s)
<1> DEFINE t == u[1]
           a == <<u[1], u[2]>>
<1>1. /\ CoordTypeOK /\ EscrowOK /\ t \in Tasks /\ a \in AttemptKeys
      /\ u[3] # 0 => u \in VerdictKeys
  BY TypeOKParts, SlotParts DEF LedgerInv, PaidInv, ConservationInv, TypeOK
<1>2. /\ reservations' = [ReapedReservations(t) EXCEPT ![u].state = "Released"]
      /\ preparations' = [ReapedPreparations(t) EXCEPT ![u] = NoRequest]
      /\ UNCHANGED delivered
      /\ Live(u) /\ CanReapExpired(t)
  BY DEF Release, marketVars, CanReap
<1>3. /\ ReapedAttempts(t) \in [AttemptKeys -> AttemptType]
      /\ ReapedVerdicts(t) \in [VerdictKeys -> VerdictType]
  BY <1>1, <1>2, ReapedTypes
<1>4. /\ u[3] = 0 => /\ attempts' = [ReapedAttempts(t) EXCEPT ![a].status = "Released"]
                     /\ verdicts' = ReapedVerdicts(t)
      /\ u[3] # 0 => /\ verdicts' = [ReapedVerdicts(t) EXCEPT ![u].status = "Released"]
                     /\ attempts' = ReapedAttempts(t)
  BY DEF CoordReleaseAttempt, CoordReleaseVerdict
<1>5. CASE s = u
  <2>1. Open(s) /\ ReapedReservations(t)[s] = reservations[s]
    BY <1>2, <1>5, LiveNotReaped DEF Live, LedgerInv, PaidInv, ConservationInv
  <2>2. reservations'[s] = [reservations[s] EXCEPT !.state = "Released"]
    BY <1>2, <1>5, <2>1 DEF ReapedReservations
  <2>3. StatusOf(s)' = "Released"
    <3>1. CASE s[3] = 0
      <4>1. attempts'[a].status = "Released"
        BY <1>1, <1>3, <1>4, <1>5, <3>1 DEF AttemptType
      <4> QED BY <1>5, <3>1, <4>1 DEF StatusOf, AttemptOf
    <3>2. CASE s[3] # 0
      <4>1. verdicts'[u].status = "Released"
        BY <1>1, <1>3, <1>4, <1>5, <3>2 DEF VerdictType
      <4> QED BY <1>5, <3>2, <4>1 DEF StatusOf
    <3> QED BY <3>1, <3>2
  <2> QED BY <2>1, <2>2, <2>3 DEF Ends, Moves
<1>6. CASE s # u
  <2>1. /\ reservations'[s] = ReapedReservations(t)[s]
        /\ preparations'[s] = ReapedPreparations(t)[s]
    BY <1>2, <1>6 DEF ReapedReservations, ReapedPreparations
  <2>2. s[3] = 0 => attempts'[<<s[1], s[2]>>] = ReapedAttempts(t)[<<s[1], s[2]>>]
    <3>1. s[3] = 0 /\ u[3] = 0 => <<s[1], s[2]>> # a
      BY <1>6 DEF Slots
    <3> QED BY <1>3, <1>4, <3>1, SlotParts
  <2>3. s[3] # 0 => verdicts'[s] = ReapedVerdicts(t)[s]
    BY <1>3, <1>4, <1>6, SlotParts
  <2> QED BY <1>1, <1>2, <2>1, <2>2, <2>3, ReapedRecord, ReapMoves
<1> QED BY <1>5, <1>6

\* Both forfeits end their slot, settled in the router, forfeited in the
\* coordinator.
LEMMA ForfeitMoves ==
  ASSUME LedgerInv, NEW u \in Slots, NEW c \in Accounts, NEW s \in Slots,
         forfeitSolution(u, c) \/ forfeitVerdict(u, c)
  PROVE  Moves(s)
<1> DEFINE a == <<u[1], u[2]>>
<1>1. /\ CoordTypeOK /\ EscrowOK /\ Open(u) /\ Settle(u, c) /\ a \in AttemptKeys
      /\ u[3] # 0 => u \in VerdictKeys
  BY TypeOKParts, SlotParts DEF LedgerInv, PaidInv, ConservationInv, TypeOK,
     forfeitSolution, forfeitVerdict, CanForfeit
<1>2. \/ /\ u[3] = 0 /\ UNCHANGED verdicts
         /\ attempts' = [attempts EXCEPT ![a].status = "Forfeited"]
      \/ /\ u[3] # 0 /\ UNCHANGED attempts
         /\ verdicts' = [verdicts EXCEPT ![u].status = "Forfeited"]
  BY DEF forfeitSolution, forfeitVerdict, CoordForfeitAttempt,
     CoordForfeitVerdict
<1>3. CASE s = u
  <2>1. reservations'[s] = [reservations[s] EXCEPT !.state = "Settled"]
    BY <1>1, <1>3 DEF Settle, EscrowOK
  <2>2. StatusOf(s)' = "Forfeited"
    <3>1. CASE s[3] = 0
      <4>1. attempts'[a].status = "Forfeited"
        BY <1>1, <1>2, <1>3, <3>1 DEF CoordTypeOK, AttemptType
      <4> QED BY <1>3, <3>1, <4>1 DEF StatusOf, AttemptOf
    <3>2. CASE s[3] # 0
      <4>1. verdicts'[u].status = "Forfeited"
        BY <1>1, <1>2, <1>3, <3>2 DEF CoordTypeOK, VerdictType
      <4> QED BY <1>3, <3>2, <4>1 DEF StatusOf
    <3> QED BY <3>1, <3>2
  <2> QED BY <1>1, <1>3, <2>1, <2>2 DEF Ends, Moves
<1>4. CASE s # u
  <2>1. s[3] = 0 /\ u[3] = 0 => <<s[1], s[2]>> # a
    BY <1>4 DEF Slots
  <2>2. s[3] = 0 => AttemptOf(s)' = AttemptOf(s)
    BY <1>1, <1>2, <2>1, SlotParts DEF AttemptOf, CoordTypeOK
  <2>3. s[3] # 0 => verdicts'[s] = verdicts[s]
    BY <1>1, <1>2, <1>4, SlotParts DEF CoordTypeOK
  <2> QED BY <1>1, <1>4, <2>2, <2>3, SettleOthers, UntouchedStays DEF Moves
<1> QED BY <1>3, <1>4

\* createTask, the owners' actions, the clock and stuttering.
LEMMA OtherMoves ==
  ASSUME NEW s \in Slots,
         \/ \E t \in Tasks, c \in Accounts, p \in Policies, r1, r2 \in Rates :
              createTask(t, c, p, r1, r2)
         \/ OwnerStep \/ Tick \/ UNCHANGED vars
  PROVE  Moves(s)
<1>1. ASSUME NEW t \in Tasks, NEW c \in Accounts, NEW p \in Policies,
             NEW r1 \in Rates, NEW r2 \in Rates, createTask(t, c, p, r1, r2)
      PROVE  Moves(s)
  <2>1. UNCHANGED <<attempts, verdicts, reservations, preparations, delivered>>
    BY <1>1 DEF createTask, CoordCreateTask, marketVars
  <2> QED BY <2>1, UntouchedStays DEF Moves, AttemptOf, Paid
<1>2. CASE OwnerStep \/ Tick \/ UNCHANGED vars
  <2>1. UNCHANGED <<coordVars, reservations, preparations, marketVars>>
    BY <1>2, OtherStepKeeps
  <2>2. UNCHANGED <<attempts, verdicts, reservations, preparations, delivered>>
    BY <2>1 DEF coordVars, marketVars
  <2> QED BY <2>2, UntouchedStays DEF Moves, AttemptOf, Paid
<1> QED BY <1>1, <1>2

\* Every transaction makes one of these moves on every slot; the clock does
\* not go back, and what was delivered or claimed stays so.
LEMMA StepMoves ==
  ASSUME LedgerInv, [Next]_vars
  PROVE  /\ \A s \in Slots : Moves(s)
         /\ now' >= now /\ delivered \subseteq delivered' /\ claimed \subseteq claimed'
<1>1. ASSUME NEW s \in Slots PROVE Moves(s)
  <2>1. ASSUME NEW t \in Tasks, ClaimStep(t) PROVE Moves(s)
    BY <2>1, ClaimTaskMoves, ClaimEvaluationMoves DEF ClaimStep
  <2>2. ASSUME DeliveryStep PROVE Moves(s)
    BY <2>2, KeySlots, PrepareMoves, ClaimSolutionMoves, ClaimVerdictMoves
       DEF DeliveryStep, prepareSolutionDelivery, prepareVerdictDelivery
  <2>3. ASSUME ExitStep PROVE Moves(s)
    <3>1. ASSUME NEW k \in AttemptKeys, releaseAttempt(k[1], k[2]) PROVE Moves(s)
      <4> DEFINE u == <<k[1], k[2], 0>>
      <4>1. /\ u \in Slots /\ u[3] = 0 /\ Release(u)
            /\ CoordReleaseAttempt(u[1], u[2], reservations[u].party)
        BY <3>1, KeySlots DEF releaseAttempt
      <4> QED BY <4>1, ReleaseMoves
    <3>2. ASSUME NEW k \in VerdictKeys, releaseVerdict(k) PROVE Moves(s)
      BY <3>2, KeySlots, ReleaseMoves DEF releaseVerdict
    <3> QED BY <2>3, <3>1, <3>2, ForfeitMoves DEF ExitStep
  <2> QED BY <2>1, <2>2, <2>3, CreatorStepMoves, OtherMoves DEF Next
<1>2. now' >= now /\ delivered \subseteq delivered' /\ claimed \subseteq claimed'
  <2>1. now \in Nat
    BY DEF LedgerInv, PaidInv, ConservationInv, TypeOK, CoordTypeOK
  <2>2. ASSUME NEW t \in Tasks, CreatorStep(t) \/ ClaimStep(t)
        PROVE  UNCHANGED <<now, delivered, claimed>>
    <3>1. ASSUME NEW u, NEW o, NEW m, NEW r, NEW d, Reserve(u, o, m, r, d)
          PROVE  UNCHANGED <<now, delivered, claimed>>
      BY <3>1 DEF Reserve, marketVars
    <3>2. ClaimStep(t) => UNCHANGED <<now, delivered, claimed>>
      BY <3>1 DEF ClaimStep, claimTask, claimEvaluation
    <3>3. CreatorStep(t) => UNCHANGED <<now, delivered, claimed>>
      BY DEF CreatorStep, addAttempts, closeTask, refundUnusedTaskBudget,
         RefundUnreserved, marketVars
    <3> QED BY <2>2, <3>2, <3>3
  <2>3. ASSUME NEW t \in Tasks, NEW c \in Accounts, NEW p \in Policies,
               NEW r1 \in Rates, NEW r2 \in Rates, createTask(t, c, p, r1, r2)
        PROVE  UNCHANGED <<now, delivered, claimed>>
    BY <2>3 DEF createTask, marketVars
  <2>4. ASSUME DeliveryStep \/ ExitStep
        PROVE  now' = now /\ delivered \subseteq delivered' /\ claimed \subseteq claimed'
    BY <2>4 DEF DeliveryStep, ExitStep, prepareSolutionDelivery,
       prepareVerdictDelivery, Prepare, deliverMarketplaceWithSignatures,
       claimSolutionDelivery, claimVerdictDelivery, Settle, releaseAttempt,
       releaseVerdict, Release, forfeitSolution, forfeitVerdict, marketVars
  <2>5. ASSUME OwnerStep \/ UNCHANGED vars
        PROVE  UNCHANGED <<now, delivered, claimed>>
    <3>1. UNCHANGED <<claimed, marketVars>>
      BY <2>5, OtherStepKeeps
    <3>2. UNCHANGED now
      BY <2>5 DEF OwnerStep, setActivityChecker, setAuthorizedRouter,
         changeMechOperator, vars
    <3> QED BY <3>1, <3>2 DEF marketVars
  <2>6. ASSUME Tick
        PROVE  now' = now + 1 /\ UNCHANGED <<delivered, claimed>>
    <3>1. UNCHANGED <<claimed, marketVars>>
      BY <2>6, OtherStepKeeps
    <3> QED BY <2>6, <3>1 DEF Tick, marketVars
  <2> QED BY <2>1, <2>2, <2>3, <2>4, <2>5, <2>6 DEF Next
<1> QED BY <1>1, <1>2

-----------------------------------------------------------------------------
(* What follows from the moves *)

\* The status of a slot's record is one of the coordinator's.
LEMMA StatusKnown ==
  ASSUME CoordTypeOK, NEW s \in Slots
  PROVE  StatusOf(s) \in {"None", "Live", "Submitted", "Delivered", "Released",
                          "Expired", "Finalized", "Forfeited"}
  BY SlotParts DEF StatusOf, AttemptOf, CoordTypeOK, AttemptType, VerdictType,
     AttemptStatuses, VerdictStatuses

\* The state a reservation ends in, and what it keeps.
LEMMA EndedReservation ==
  ASSUME EscrowOK, NEW s \in Slots, NEW st, NEW status, Ends(s, st, status)
  PROVE  /\ reservations'[s].state = st
         /\ reservations'[s].mech = reservations[s].mech
         /\ reservations'[s].rate = reservations[s].rate
<1>1. reservations[s] \in ReservationType
  BY OpenReservation DEF Ends
<1> QED BY <1>1 DEF Ends, ReservationType

\* A move keeps a slot's two records in agreement.
LEMMA MovesAgree ==
  ASSUME LedgerInv, [Next]_vars
  PROVE  LedgersAgree'
<1>1. CoordTypeOK /\ EscrowOK /\ LedgersAgree /\ now \in Nat
  BY TypeOKParts DEF LedgerInv, PaidInv, ConservationInv, TypeOK, CoordTypeOK
<1>2. now' >= now /\ delivered \subseteq delivered' /\ now' \in Nat
  BY StepMoves, StepTypeOK DEF LedgerInv, PaidInv, ConservationInv, TypeOK,
     CoordTypeOK
<1> DEFINE Agree(s) ==
      /\ reservations[s].state = "None" <=> StatusOf(s) = "None"
      /\ Open(s) => \/ StatusOf(s) = "Live"
                    \/ StatusOf(s) = "Expired" /\ Paid(s) /\ Lapsed(s)
      /\ reservations[s].state = "Released" =>
           StatusOf(s) \in {"Released", "Expired"}
      /\ reservations[s].state = "Settled" =>
           StatusOf(s) \in {"Submitted", "Finalized", "Delivered", "Forfeited"}
      /\ StatusOf(s) = "Live" =>
           Open(s) /\ reservations[s].deadline = Deadline(s)
<1>3. ASSUME NEW s \in Slots PROVE Agree(s)'
  <2>1. Agree(s) /\ Moves(s)
    BY <1>1, StepMoves DEF LedgersAgree, Deadline
  <2>2. Open(s) => reservations[s].deadline \in Nat
    BY <1>1, OpenReservation DEF ReservationType
  <2>3. CASE Stays(s)
    <3>1. Lapsed(s) => Lapsed(s)'
      BY <1>1, <1>2, <2>2, <2>3 DEF Stays, Lapsed, Open
    <3> QED BY <2>1, <2>3, <3>1 DEF Stays, Open
  <2>4. CASE Opens(s)
    BY <2>4 DEF Opens, Open
  <2>5. CASE ExpiresPaid(s)
    <3>1. Lapsed(s)'
      BY <1>1, <1>2, <2>2, <2>5 DEF ExpiresPaid, Lapsed, Open
    <3> QED BY <2>5, <3>1 DEF ExpiresPaid, Lapsed, Open
  <2>6. CASE IsRecorded(s)
    BY <1>1, <2>6, EndedReservation DEF IsRecorded, Ends, Open
  <2>7. CASE Ends(s, "Settled", "Forfeited")
    BY <1>1, <2>7, EndedReservation DEF Ends, Open
  <2>8. CASE Ends(s, "Released", "Released")
    BY <1>1, <2>8, EndedReservation DEF Ends, Open
  <2>9. CASE Ends(s, "Released", "Expired")
    BY <1>1, <2>9, EndedReservation DEF Ends, Open
  <2> QED BY <2>1, <2>3, <2>4, <2>5, <2>6, <2>7, <2>8, <2>9 DEF Moves
<1> QED BY <1>3 DEF LedgersAgree, Deadline

\* A slot settled with a submission stays as it is, but for finalization.
LEMMA SubmittedStays ==
  ASSUME LedgerInv, NEW s \in Slots, Moves(s),
         StatusOf(s) \in {"Submitted", "Finalized", "Delivered"}
  PROVE  /\ Stays(s) /\ reservations[s].state = "Settled"
         /\ StatusOf(s) \in {"Submitted", "Finalized"} =>
              StatusOf(s)' \in {"Submitted", "Finalized"}
<1>0. EscrowOK /\ LedgersAgree
  BY TypeOKParts DEF LedgerInv, PaidInv, ConservationInv
<1>1. ~Open(s) /\ reservations[s].state # "None"
  BY <1>0 DEF LedgersAgree
<1>2. Stays(s)
  BY <1>1 DEF Moves, Opens, ExpiresPaid, Lapsed, IsRecorded, Ends
<1>3. reservations[s].state \in {"Open", "None", "Settled", "Released"}
  BY <1>0 DEF EscrowOK, ReservationType, NoReservation, ReservationStates
<1>4. reservations[s].state # "Released"
  BY <1>0 DEF LedgersAgree
<1> QED BY <1>1, <1>2, <1>3, <1>4 DEF Stays, Open

\* Only submitted attempts are evaluated, after every step.
LEMMA EvaluatedStep ==
  ASSUME LedgerInv, [Next]_vars
  PROVE  EvaluatedIsSubmitted'
<1> SUFFICES ASSUME NEW k \in VerdictKeys, verdicts'[k].status # "None"
             PROVE  AttemptOf(k)'.status \in {"Submitted", "Finalized"}
  BY DEF EvaluatedIsSubmitted
<1> DEFINE u == SolutionSlot(k)
<1>1. /\ k \in Slots /\ k[3] # 0 /\ u \in Slots
      /\ u[1] = k[1] /\ u[2] = k[2] /\ u[3] = 0
  BY KeySlots, SlotParts DEF SolutionSlot
<1>2. /\ StatusOf(k) = verdicts[k].status /\ StatusOf(k)' = verdicts'[k].status
      /\ StatusOf(u) = AttemptOf(k).status /\ StatusOf(u)' = AttemptOf(k)'.status
  BY <1>1 DEF StatusOf, AttemptOf
<1>3. Moves(k) /\ Moves(u) /\ LedgersAgree
  BY <1>1, StepMoves DEF LedgerInv
<1>4. AttemptOf(k).status \in {"Submitted", "Finalized"}
  <2>1. CASE Opens(k)
    BY <1>1, <2>1 DEF Opens
  <2>2. CASE verdicts[k].status # "None"
    BY <2>2 DEF LedgerInv, EvaluatedIsSubmitted
  <2>3. CASE ~Opens(k) /\ verdicts[k].status = "None"
    <3>1. reservations[k].state = "None" /\ ~Open(k)
      BY <1>1, <1>2, <1>3, <2>3 DEF LedgersAgree, Open
    <3>2. Stays(k)
      BY <1>3, <2>3, <3>1 DEF Moves, ExpiresPaid, Lapsed, IsRecorded, Ends
    <3> QED BY <1>2, <2>3, <3>2 DEF Stays
  <2> QED BY <2>1, <2>2, <2>3
<1> QED BY <1>1, <1>2, <1>3, <1>4, SubmittedStays

\* The invariant behind LedgersStayAgreed is inductive.
LEMMA StepLedger == LedgerInv /\ [Next]_vars => LedgerInv'
  BY StepPaid, MovesAgree, EvaluatedStep DEF LedgerInv

\* Deployment satisfies LedgerInv: both ledgers are empty.
LEMMA InitLedger == Init => LedgerInv
<1> SUFFICES ASSUME Init PROVE LedgerInv
  OBVIOUS
<1>1. ASSUME NEW s \in Slots
      PROVE  StatusOf(s) = "None" /\ reservations[s].state = "None"
  BY SlotParts DEF Init, CoordInit, StatusOf, AttemptOf, NoAttempt, NoVerdict,
     NoReservation
<1>2. LedgersAgree
  BY <1>1 DEF LedgersAgree, Open
<1>3. EvaluatedIsSubmitted
  BY DEF Init, CoordInit, NoVerdict, EvaluatedIsSubmitted
<1> QED BY <1>2, <1>3, InitPaid DEF LedgerInv

\* In every reachable state the reservation the router keeps for a slot and
\* the attempt or verdict the coordinator keeps for it agree; a reservation
\* that was paid and then expired is the only one they part on.
THEOREM LedgersStayAgreed == Spec => []LedgersAgree
<1>1. LedgerInv => LedgersAgree
  BY DEF LedgerInv
<1> QED BY <1>1, InitLedger, StepLedger, PTL DEF Spec

\* LedgerInv leaves nothing stranded: what is open has an index _reap visits,
\* and the solution of an evaluated attempt is never open.
LEMMA LedgerStrandsNothing == LedgerInv => NothingStranded
<1> SUFFICES ASSUME LedgerInv, NEW s \in Slots, Lapsed(s)
             PROVE  IF Paid(s) THEN StatusOf(s) \in {"Live", "Expired"}
                               ELSE s \in Reapable(s[1])
  BY DEF NothingStranded
<1>1. /\ CoordTypeOK /\ LedgersAgree /\ EvaluatedIsSubmitted /\ BeyondIndices
      /\ Open(s)
  BY DEF LedgerInv, PaidInv, ConservationInv, TypeOK, Lapsed
<1>2. StatusOf(s) \in {"Live", "Expired"}
  BY <1>1 DEF LedgersAgree
<1>3. ASSUME ~Paid(s) PROVE s \in Reapable(s[1])
  <2>1. /\ s[1] \in Tasks /\ s[2] \in Nat /\ s[3] \in Nat
        /\ tasks[s[1]].nextAttemptIndex \in Nat
        /\ attempts[<<s[1], s[2]>>].nextVerdictIndex \in Nat
    BY <1>1, SlotParts, CoordinatorAssumption
       DEF AttemptIndices, Legs, CoordTypeOK, TaskType, AttemptType
  <2>2. /\ s[2] < tasks[s[1]].nextAttemptIndex
        /\ s[3] <= attempts[<<s[1], s[2]>>].nextVerdictIndex
    BY <1>1, <2>1 DEF BeyondIndices, Open
  <2>3. s[3] # 0 => ~Lapsed(SolutionSlot(s))
    BY <1>1, <1>2, EvaluatedNotOpen DEF Lapsed
  <2> QED BY <1>3, <2>2, <2>3 DEF Reapable
<1> QED BY <1>2, <1>3

\* In every reachable state an expired reservation has a way out: the next
\* _reap gives back an unpaid one, and a paid one can be forfeited.
THEOREM NothingIsStranded == Spec => []NothingStranded
  BY InitLedger, StepLedger, LedgerStrandsNothing, PTL DEF Spec

\* What is on record keeps its paid, claimed request.
LEMMA StepRecorded ==
  LedgerInv /\ RecordedWorkWasPaid /\ [Next]_vars => RecordedWorkWasPaid'
<1> SUFFICES ASSUME LedgerInv, RecordedWorkWasPaid, [Next]_vars, NEW s \in Slots,
                    StatusOf(s)' \in {"Submitted", "Finalized", "Delivered"}
             PROVE  \E req \in delivered' \cap claimed' :
                      /\ req.slot = s
                      /\ req.mech = reservations'[s].mech
                      /\ req.rate = reservations'[s].rate
                      /\ req.payload = Digest(s)'
  BY DEF RecordedWorkWasPaid, Digest
<1>1. /\ EscrowOK /\ Moves(s)
      /\ delivered \subseteq delivered' /\ claimed \subseteq claimed'
  BY TypeOKParts, StepMoves DEF LedgerInv, PaidInv, ConservationInv
<1>2. CASE Stays(s)
  <2>1. StatusOf(s) \in {"Submitted", "Finalized", "Delivered"}
    BY <1>2 DEF Stays
  <2>2. PICK req \in delivered \cap claimed :
          /\ req.slot = s /\ req.mech = reservations[s].mech
          /\ req.rate = reservations[s].rate /\ req.payload = Digest(s)
    BY <2>1 DEF RecordedWorkWasPaid, Digest
  <2> QED BY <1>1, <1>2, <2>2 DEF Stays
<1>3. CASE IsRecorded(s)
  <2>1. PICK st \in {"Submitted", "Delivered"}, req \in delivered :
          /\ Ends(s, "Settled", st) /\ req.slot = s /\ req \in claimed'
          /\ req.mech = reservations[s].mech /\ req.rate = reservations[s].rate
          /\ Digest(s)' = req.payload
    BY <1>3 DEF IsRecorded
  <2>2. /\ reservations'[s].mech = reservations[s].mech
        /\ reservations'[s].rate = reservations[s].rate
    BY <1>1, <2>1, EndedReservation
  <2> QED BY <1>1, <2>1, <2>2
<1>4. Stays(s) \/ IsRecorded(s)
  BY <1>1 DEF Moves, Opens, ExpiresPaid, Ends
<1> QED BY <1>2, <1>3, <1>4

\* In every reachable state, work the coordinator has on record was prepared
\* under its reservation, delivered and paid at the reserved rate, and claimed
\* once: the digest on record is the one that was paid for.
THEOREM RecordedIsPaid == Spec => []RecordedWorkWasPaid
<1>1. Init => RecordedWorkWasPaid
  BY SlotParts DEF Init, CoordInit, RecordedWorkWasPaid, StatusOf, AttemptOf,
     NoAttempt, NoVerdict
<1> QED BY <1>1, InitLedger, StepLedger, StepRecorded, PTL DEF Spec

-----------------------------------------------------------------------------
(* Sums of rates, for any assignment of reservations to slots *)

Ledger == [Slots -> ReservationType \cup {NoReservation}]

UnitsOf(res, S) == {u \in S \X Rates : u[2] <= res[u[1]].rate}
RateSum(res, S) == Cardinality(UnitsOf(res, S))
OpenIn(res, x)  == {s \in Slots : res[s].state = "Open" /\ Purse(s) = x}

\* What an assignment of reservations owes out of a purse.
Owed(res, x) == RateSum(res, OpenIn(res, x))

\* The cardinality of a disjoint union.
LEMMA DisjointCount ==
  ASSUME NEW S, NEW T, IsFiniteSet(S), IsFiniteSet(T), S \cap T = {}
  PROVE  /\ IsFiniteSet(S \cup T)
         /\ Cardinality(S \cup T) = Cardinality(S) + Cardinality(T)
         /\ Cardinality(S) \in Nat /\ Cardinality(T) \in Nat
<1>1. /\ IsFiniteSet(S \cup T)
      /\ Cardinality(S \cup T)
           = Cardinality(S) + Cardinality(T) - Cardinality(S \cap T)
  BY FS_Union
<1>2. Cardinality(S \cap T) = 0
  BY FS_EmptySet
<1>3. Cardinality(S) \in Nat /\ Cardinality(T) \in Nat
  BY FS_CardinalityType
<1> QED BY <1>1, <1>2, <1>3

\* A column of n units.
LEMMA ColumnCount ==
  ASSUME NEW x, NEW n \in Nat
  PROVE  IsFiniteSet({x} \X (1..n)) /\ Cardinality({x} \X (1..n)) = n
<1>1. IsFiniteSet(1..n) /\ Cardinality(1..n) = IF 1 > n THEN 0 ELSE n - 1 + 1
  BY FS_Interval
<1>2. Cardinality(1..n) = n
  BY <1>1
<1>3. IsFiniteSet({x}) /\ Cardinality({x}) = 1
  BY FS_Singleton
<1>4. IsFiniteSet({x} \X (1..n)) /\ Cardinality({x} \X (1..n)) = 1 * n
  BY <1>1, <1>2, <1>3, FS_Product
<1> QED BY <1>4

\* There are finitely many units, so a sum of rates is a natural.
LEMMA UnitsFinite ==
  ASSUME NEW res, NEW S \in SUBSET Slots
  PROVE  IsFiniteSet(UnitsOf(res, S)) /\ RateSum(res, S) \in Nat
<1>1. IsFiniteSet(S)
  BY SlotsFinite, FS_Subset
<1>2. IsFiniteSet(Rates)
  BY FS_Interval, RouterAssumption DEF Rates
<1>3. IsFiniteSet(S \X Rates)
  BY <1>1, <1>2, FS_Product
<1>4. UnitsOf(res, S) \subseteq S \X Rates
  BY DEF UnitsOf
<1> QED BY <1>3, <1>4, FS_Subset, FS_CardinalityType DEF RateSum

\* The sum over two disjoint sets of slots.
LEMMA RateSumUnion ==
  ASSUME NEW res, NEW S \in SUBSET Slots, NEW T \in SUBSET Slots, S \cap T = {}
  PROVE  RateSum(res, S \cup T) = RateSum(res, S) + RateSum(res, T)
<1>1. UnitsOf(res, S \cup T) = UnitsOf(res, S) \cup UnitsOf(res, T)
  BY DEF UnitsOf
<1>2. UnitsOf(res, S) \cap UnitsOf(res, T) = {}
  BY DEF UnitsOf
<1>3. /\ IsFiniteSet(UnitsOf(res, S)) /\ IsFiniteSet(UnitsOf(res, T))
      /\ RateSum(res, S) \in Nat /\ RateSum(res, T) \in Nat
  BY UnitsFinite
<1> QED BY <1>1, <1>2, <1>3, DisjointCount DEF RateSum

\* The sum over one slot is its rate.
LEMMA RateSumOne ==
  ASSUME NEW res, NEW s \in Slots, res[s].rate \in Rates
  PROVE  RateSum(res, {s}) = res[s].rate
<1> DEFINE r == res[s].rate
<1>1. r \in Nat /\ r >= 1 /\ r <= MaxRate /\ MaxRate \in Nat
  BY RouterAssumption DEF Rates
<1>2. UnitsOf(res, {s}) = {s} \X (1..r)
  BY <1>1 DEF UnitsOf, Rates
<1>3. Cardinality({s} \X (1..r)) = r
  BY <1>1, ColumnCount
<1> QED BY <1>2, <1>3 DEF RateSum

\* The sum depends on the rates of its slots only.
LEMMA RateSumSame ==
  ASSUME NEW res, NEW res2, NEW S \in SUBSET Slots,
         \A s \in S : res2[s].rate = res[s].rate
  PROVE  RateSum(res2, S) = RateSum(res, S)
<1>1. UnitsOf(res2, S) = UnitsOf(res, S)
  BY DEF UnitsOf
<1> QED BY <1>1 DEF RateSum

\* Ending the open reservations of E takes their rates off what is owed.
LEMMA OwedLess ==
  ASSUME NEW res, NEW res2, NEW x, NEW E \in SUBSET OpenIn(res, x),
         OpenIn(res2, x) = OpenIn(res, x) \ E,
         \A s \in OpenIn(res2, x) : res2[s].rate = res[s].rate
  PROVE  /\ Owed(res2, x) = Owed(res, x) - RateSum(res, E)
         /\ RateSum(res, E) <= Owed(res, x)
<1> DEFINE O == OpenIn(res, x)
<1>1. O \in SUBSET Slots /\ E \in SUBSET Slots /\ O \ E \in SUBSET Slots
  BY DEF OpenIn
<1>2. (O \ E) \cup E = O /\ (O \ E) \cap E = {}
  OBVIOUS
<1>3. RateSum(res, O) = RateSum(res, O \ E) + RateSum(res, E)
  BY <1>1, <1>2, RateSumUnion
<1>4. RateSum(res2, O \ E) = RateSum(res, O \ E)
  BY <1>1, RateSumSame
<1>5. /\ RateSum(res, O) \in Nat /\ RateSum(res, E) \in Nat
      /\ RateSum(res, O \ E) \in Nat
  BY <1>1, UnitsFinite
<1> QED BY <1>3, <1>4, <1>5 DEF Owed

\* Opening the reservation of one slot adds its rate to what is owed.
LEMMA OwedMore ==
  ASSUME NEW res \in Ledger, NEW s \in Slots, NEW r \in ReservationType,
         r.state = "Open", res[s].state # "Open", NEW x
  PROVE  Owed([res EXCEPT ![s] = r], x)
           = Owed(res, x) + IF x = Purse(s) THEN r.rate ELSE 0
<1> DEFINE res2 == [res EXCEPT ![s] = r]
           O == OpenIn(res, x)
<1>1. O \in SUBSET Slots /\ {s} \in SUBSET Slots /\ s \notin O /\ r.rate \in Rates
  BY DEF OpenIn, ReservationType
<1>2. /\ res2[s] = r
      /\ \A u \in Slots : u # s => res2[u] = res[u]
  BY DEF Ledger
<1>3. OpenIn(res2, x) = IF x = Purse(s) THEN O \cup {s} ELSE O
  BY <1>2 DEF OpenIn
<1>4. RateSum(res2, O) = RateSum(res, O)
  <2>1. \A u \in O : res2[u].rate = res[u].rate
    BY <1>1, <1>2
  <2> HIDE DEF res2, O
  <2> QED BY <1>1, <2>1, RateSumSame
<1>5. RateSum(res2, O \cup {s}) = RateSum(res2, O) + RateSum(res2, {s})
  BY <1>1, RateSumUnion
<1>6. RateSum(res2, {s}) = r.rate
  BY <1>1, <1>2, RateSumOne
<1>7. RateSum(res, O) \in Nat
  BY <1>1, UnitsFinite
<1> HIDE DEF res2
<1>8. Owed(res2, x) = Owed(res, x) + IF x = Purse(s) THEN r.rate ELSE 0
  BY <1>3, <1>4, <1>5, <1>6, <1>7 DEF Owed
<1> QED BY <1>8 DEF res2

\* Ending the open reservation of one slot takes its rate off what is owed.
LEMMA OwedEnded ==
  ASSUME NEW res \in Ledger, NEW s \in Slots, res[s].state = "Open",
         NEW st \in {"Settled", "Released"}, NEW x
  PROVE  Owed([res EXCEPT ![s].state = st], x)
           = Owed(res, x) - IF x = Purse(s) THEN res[s].rate ELSE 0
<1> DEFINE res2 == [res EXCEPT ![s].state = st]
           O == OpenIn(res, x)
           E == IF x = Purse(s) THEN {s} ELSE {}
<1>1. res[s] \in ReservationType /\ res[s].rate \in Rates
  BY DEF Ledger, NoReservation, ReservationType
<1>2. /\ res2[s].state = st
      /\ \A u \in Slots : u # s => res2[u] = res[u]
  BY <1>1 DEF Ledger, ReservationType
<1>3. E \in SUBSET O /\ OpenIn(res2, x) = O \ E
  BY <1>2 DEF OpenIn
<1>4. \A u \in OpenIn(res2, x) : res2[u].rate = res[u].rate
  BY <1>2 DEF OpenIn
<1> HIDE DEF res2
<1>5. Owed(res2, x) = Owed(res, x) - RateSum(res, E)
  BY <1>3, <1>4, OwedLess
<1>6. RateSum(res, E) = IF x = Purse(s) THEN res[s].rate ELSE 0
  <2>1. RateSum(res, {s}) = res[s].rate
    BY <1>1, RateSumOne
  <2>2. RateSum(res, {}) = 0
    <3>1. UnitsOf(res, {}) = {}
      BY DEF UnitsOf
    <3> QED BY <3>1, FS_EmptySet DEF RateSum
  <2> QED BY <2>1, <2>2
<1>7. Owed(res2, x) = Owed(res, x) - IF x = Purse(s) THEN res[s].rate ELSE 0
  BY <1>5, <1>6
<1> QED BY <1>7 DEF res2

\* Nothing is owed by no slots.
LEMMA RateSumNone == \A res : RateSum(res, {}) = 0
<1>1. \A res : UnitsOf(res, {}) = {}
  BY DEF UnitsOf
<1> QED BY <1>1, FS_EmptySet DEF RateSum

-----------------------------------------------------------------------------
(* What is reserved is owed *)

\* ReservedIsOwed, as a statement about the assignment of reservations.
LEMMA OwedIs ==
  /\ ReservedIsOwed <=> \A x \in Purses : reserved[x] = Owed(reservations, x)
  /\ ReservedIsOwed' <=> \A x \in Purses : reserved'[x] = Owed(reservations', x)
<1>1. \A S : SumRates(S) = RateSum(reservations, S)
  BY DEF SumRates, Units, RateSum, UnitsOf
<1>2. \A S : SumRates(S)' = RateSum(reservations', S)
  BY DEF SumRates, Units, RateSum, UnitsOf
<1>3. \A x : OpenSlots(x) = OpenIn(reservations, x)
  BY DEF OpenSlots, OpenIn, Open
<1>4. \A x : OpenSlots(x)' = OpenIn(reservations', x)
  BY DEF OpenSlots, OpenIn, Open
<1>5. \A x : SumRates(OpenSlots(x)) = Owed(reservations, x)
  BY <1>1, <1>3 DEF Owed
<1>6. \A x : SumRates(OpenSlots(x))' = Owed(reservations', x)
  BY <1>2, <1>4 DEF Owed, SumRates, Units, RateSum, UnitsOf
<1> QED BY <1>5, <1>6 DEF ReservedIsOwed

\* _reap gives back exactly the rates of the reservations it releases, and
\* never more than is reserved.
LEMMA ReapOwed ==
  ASSUME EscrowOK, ReservedIsOwed, NEW t \in Tasks, NEW x \in Purses
  PROVE  /\ ReapedReserved(t)[x] = Owed(ReapedReservations(t), x)
         /\ x[1] = t => SumRates(ReapableFrom(x)) <= reserved[x]
<1> DEFINE RR == ReapedReservations(t)
           E == {s \in Reapable(t) : Purse(s) = x}
<1>1. E \in SUBSET OpenIn(reservations, x)
  BY DEF OpenIn, Reapable, Lapsed, Open
<1>2. \A s \in Slots : /\ s \in Reapable(t) => RR[s].state = "Released"
                       /\ s \notin Reapable(t) => RR[s] = reservations[s]
  <2>1. \A s \in Slots : s \in Reapable(t) => reservations[s] \in ReservationType
    BY OpenReservation DEF Reapable, Lapsed
  <2> QED BY <2>1 DEF ReapedReservations, ReservationType
<1>3. OpenIn(RR, x) = OpenIn(reservations, x) \ E
  <2> HIDE DEF RR
  <2> QED BY <1>2 DEF OpenIn
<1>4. \A s \in OpenIn(RR, x) : RR[s].rate = reservations[s].rate
  <2> HIDE DEF RR
  <2> QED BY <1>2 DEF OpenIn
<1>5. /\ Owed(RR, x) = Owed(reservations, x) - RateSum(reservations, E)
      /\ RateSum(reservations, E) <= Owed(reservations, x)
  <2> HIDE DEF RR, E
  <2> QED BY <1>1, <1>3, <1>4, OwedLess
<1>6. RateSum(reservations, E) = SumRates(E)
  BY DEF SumRates, Units, RateSum, UnitsOf
<1>7. reserved[x] = Owed(reservations, x) /\ reserved[x] \in Nat
  BY OwedIs DEF EscrowOK
<1>8. CASE x[1] = t
  <2>1. E = ReapableFrom(x)
    BY <1>8 DEF ReapableFrom
  <2> QED BY <1>5, <1>6, <1>7, <1>8, <2>1 DEF ReapedReserved
<1>9. CASE x[1] # t
  <2>1. E = {}
    BY <1>9, PurseInPurses DEF Reapable
  <2>2. RateSum(reservations, E) = 0
    BY <2>1, RateSumNone
  <2> HIDE DEF RR, E
  <2> QED BY <1>5, <1>7, <1>9, <2>2 DEF ReapedReserved, RR
<1> QED BY <1>8, <1>9

\* A claim reserves the rate of the reservation it opens.
LEMMA ReserveOwed ==
  ASSUME EscrowOK, ReservedIsOwed, NEW s \in Slots, NEW o \in Accounts,
         NEW m \in Mechs, NEW r \in Rates, NEW d \in Nat,
         reservations[s].state = "None", Reserve(s, o, m, r, d)
  PROVE  ReservedIsOwed'
<1> DEFINE t == s[1]
           RR == ReapedReservations(t)
           new == [state |-> "Open", party |-> o, mech |-> m, rate |-> r,
                   deadline |-> d]
<1>1. t \in Tasks /\ Purse(s) \in Purses
  BY PurseInPurses
<1>2. RR \in Ledger /\ ReapedReserved(t) \in [Purses -> Nat]
  BY <1>1, ReapedEscrow DEF Reserve, Ledger
<1>3. RR[s].state # "Open"
  BY DEF ReapedReservations, Reapable, Lapsed, Open
<1>4. new \in ReservationType /\ new.state = "Open" /\ new.rate = r /\ r \in Nat
  BY RouterAssumption DEF ReservationType, ReservationStates, Rates
<1>5. /\ reservations' = [RR EXCEPT ![s] = new]
      /\ reserved' = [ReapedReserved(t) EXCEPT ![Purse(s)] = @ + r]
  BY DEF Reserve
<1> SUFFICES ASSUME NEW x \in Purses
             PROVE  reserved'[x] = Owed(reservations', x)
  BY OwedIs
<1> HIDE DEF RR, new
<1>6. Owed(reservations', x)
        = Owed(RR, x) + IF x = Purse(s) THEN r ELSE 0
  BY <1>2, <1>3, <1>4, <1>5, OwedMore, ZenonT(30)
<1>7. ReapedReserved(t)[x] = Owed(RR, x)
  BY <1>1, ReapOwed DEF RR
<1> HIDE DEF t
<1> QED BY <1>1, <1>2, <1>4, <1>5, <1>6, <1>7

\* A release gives back the rate of the reservation it ends.
LEMMA ReleaseOwed ==
  ASSUME TypeOK, ReservedIsOwed, NEW s \in Slots, Release(s)
  PROVE  ReservedIsOwed'
<1> DEFINE t == s[1]
           RR == ReapedReservations(t)
           r == reservations[s].rate
<1>0. EscrowOK /\ Live(s) /\ Open(s)
  BY TypeOKParts DEF Release, Live
<1>1. t \in Tasks /\ Purse(s) \in Purses
  BY PurseInPurses
<1>2. RR \in Ledger /\ ReapedReserved(t) \in [Purses -> Nat]
  BY <1>0, <1>1, ReapedEscrow DEF Release, Ledger
<1>3. RR[s] = reservations[s] /\ r \in Nat
  BY <1>0, LiveNotReaped, OpenReservation
<1>4. /\ reservations' = [RR EXCEPT ![s].state = "Released"]
      /\ reserved' = [ReapedReserved(t) EXCEPT ![Purse(s)] = @ - r]
  BY DEF Release
<1> SUFFICES ASSUME NEW x \in Purses
             PROVE  reserved'[x] = Owed(reservations', x)
  BY OwedIs
<1> HIDE DEF RR
<1>6. Owed(reservations', x) = Owed(RR, x) - IF x = Purse(s) THEN r ELSE 0
  <2>1. RR[s].state = "Open" /\ RR[s].rate = r
    BY <1>0, <1>3 DEF Open
  <2> HIDE DEF t, r
  <2> QED BY <1>2, <1>4, <2>1, OwedEnded, ZenonT(30)
<1>7. ReapedReserved(t)[x] = Owed(RR, x)
  BY <1>0, <1>1, ReapOwed DEF RR
<1> HIDE DEF t, r
<1> QED BY <1>1, <1>2, <1>3, <1>4, <1>6, <1>7

\* A settlement or forfeit spends the rate of the reservation it ends.
LEMMA SettleOwed ==
  ASSUME EscrowOK, ReservedIsOwed, NEW s \in Slots, NEW c, Open(s), Settle(s, c)
  PROVE  ReservedIsOwed'
<1> DEFINE r == reservations[s].rate
<1>1. Purse(s) \in Purses /\ r \in Nat
  BY PurseInPurses, OpenReservation
<1>2. reservations \in Ledger /\ reserved \in [Purses -> Nat]
  BY DEF EscrowOK, Ledger
<1>4. /\ reservations' = [reservations EXCEPT ![s].state = "Settled"]
      /\ reserved' = [reserved EXCEPT ![Purse(s)] = @ - r]
  BY DEF Settle
<1> SUFFICES ASSUME NEW x \in Purses
             PROVE  reserved'[x] = Owed(reservations', x)
  BY OwedIs
<1>6. Owed(reservations', x)
        = Owed(reservations, x) - IF x = Purse(s) THEN r ELSE 0
  BY <1>2, <1>4, OwedEnded DEF Open
<1>7. reserved[x] = Owed(reservations, x)
  BY OwedIs
<1> HIDE DEF r
<1> QED BY <1>1, <1>2, <1>4, <1>6, <1>7

\* createTask starts with nothing reserved, and no slot of it is open.
LEMMA CreateTaskOwed ==
  ASSUME PaidInv, ReservedIsOwed, NEW t \in Tasks, NEW c, NEW p, NEW r1, NEW r2,
         createTask(t, c, p, r1, r2)
  PROVE  ReservedIsOwed'
<1>1. /\ EscrowOK /\ BeyondIndices /\ CoordTypeOK
      /\ t = nextTaskId /\ UNCHANGED reservations
      /\ reserved' = SetPurses(reserved, t, 0, 0)
  BY TypeOKParts DEF PaidInv, ConservationInv, TypeOK, createTask,
     CoordCreateTask
<1> SUFFICES ASSUME NEW x \in Purses
             PROVE  reserved'[x] = Owed(reservations', x)
  BY OwedIs
<1>2. reserved[x] = Owed(reservations, x) /\ reserved \in [Purses -> Nat]
  BY <1>1, OwedIs DEF EscrowOK
<1>3. CASE x[1] = t
  <2>1. \A s \in Slots : s[1] = t => ~Open(s)
    <3>1. tasks[t].nextAttemptIndex = 0
      BY <1>1, CoordinatorAssumption DEF BeyondIndices, Tasks
    <3>2. ASSUME NEW s \in Slots, s[1] = t PROVE ~Open(s)
      <4>1. s[2] \in AttemptIndices
        BY SlotParts
      <4>2. s[2] \in Nat
        BY <4>1, CoordinatorAssumption DEF AttemptIndices
      <4>3. s[2] >= tasks[s[1]].nextAttemptIndex
        BY <3>1, <3>2, <4>2
      <4> QED BY <1>1, <4>3 DEF BeyondIndices, Open
    <3> QED BY <3>2
  <2>2. OpenIn(reservations, x) = {}
    BY <1>3, <2>1, PurseInPurses DEF OpenIn, Open
  <2>3. Owed(reservations, x) = 0
    BY <2>2, RateSumNone DEF Owed
  <2>4. x \in {<<t, "solution">>, <<t, "verdict">>}
    BY <1>3 DEF Purses, Kinds
  <2> QED BY <1>1, <1>2, <2>3, <2>4 DEF SetPurses
<1>4. CASE x[1] # t
  BY <1>1, <1>2, <1>4 DEF SetPurses
<1> QED BY <1>3, <1>4

\* The invariant behind ReservedIsWhatIsOwed is inductive.
LEMMA StepOwed == LedgerInv /\ ReservedIsOwed /\ [Next]_vars => ReservedIsOwed'
<1> SUFFICES ASSUME LedgerInv, ReservedIsOwed, [Next]_vars
             PROVE  ReservedIsOwed'
  OBVIOUS
<1>1. TypeOK /\ CoordTypeOK /\ EscrowOK /\ BeyondIndices /\ PaidInv
  BY TypeOKParts DEF LedgerInv, PaidInv, ConservationInv, TypeOK
<1>2. ASSUME UNCHANGED <<reserved, reservations>> PROVE ReservedIsOwed'
  BY <1>2, OwedIs
<1>3. ASSUME NEW t \in Tasks, CreatorStep(t) PROVE ReservedIsOwed'
  <2>1. reserved' = ReapedReserved(t) /\ reservations' = ReapedReservations(t)
    BY <1>3 DEF CreatorStep, addAttempts, closeTask, refundUnusedTaskBudget,
       RefundUnreserved
  <2> QED BY <1>1, <2>1, ReapOwed, OwedIs
<1>4. ASSUME NEW t \in Tasks, NEW o \in Accounts, NEW m \in Mechs,
             NEW r \in Rates, claimTask(t, o, m, r)
      PROVE  ReservedIsOwed'
  <2> DEFINE i == tasks[t].nextAttemptIndex
             d == now + tasks[t].policy.responseTimeout
             s == <<t, i, 0>>
  <2>1. i \in AttemptIndices /\ Reserve(s, o, m, r, d) /\ d \in Nat
    BY <1>1, <1>4, DeadlineNat DEF claimTask
  <2>2. s \in Slots /\ i \in Nat /\ s[1] = t /\ s[2] = i
    BY <2>1, KeySlots, CoordinatorAssumption DEF AttemptIndices
  <2>3. reservations[s].state = "None"
    <3>1. s[2] >= tasks[s[1]].nextAttemptIndex
      BY <2>2
    <3> HIDE DEF s
    <3> QED BY <1>1, <2>2, <3>1 DEF BeyondIndices
  <2> QED BY <1>1, <2>1, <2>2, <2>3, ReserveOwed
<1>5. ASSUME NEW t \in Tasks, NEW i \in AttemptIndices, NEW o \in Accounts,
             NEW m \in Mechs, NEW r \in Rates, claimEvaluation(t, i, o, m, r)
      PROVE  ReservedIsOwed'
  <2> DEFINE n == attempts[<<t, i>>].nextVerdictIndex
             d == now + tasks[t].policy.responseTimeout
             s == <<t, i, n + 1>>
  <2>1. n + 1 \in VerdictLegs /\ Reserve(s, o, m, r, d) /\ d \in Nat
    BY <1>1, <1>5, DeadlineNat DEF claimEvaluation
  <2>2. s \in Slots /\ n \in Nat
    <3>1. s \in VerdictKeys
      BY <2>1 DEF VerdictKeys
    <3>2. <<t, i>> \in AttemptKeys
      BY DEF AttemptKeys
    <3> QED BY <1>1, <3>1, <3>2, KeySlots DEF CoordTypeOK, AttemptType
  <2>3. reservations[s].state = "None"
    BY <1>1, <2>2 DEF BeyondIndices
  <2> QED BY <1>1, <2>1, <2>2, <2>3, ReserveOwed
<1>6. ASSUME DeliveryStep PROVE ReservedIsOwed'
  <2>1. ASSUME NEW req \in delivered,
               claimSolutionDelivery(req) \/ claimVerdictDelivery(req)
        PROVE  ReservedIsOwed'
    <3> DEFINE s == req.slot
    <3>1. CanClaimDelivery(s, req) /\ Settle(s, reservations[s].party)
      BY <2>1 DEF claimSolutionDelivery, claimVerdictDelivery
    <3>2. s \in Slots /\ Open(s)
      BY <1>1, <3>1, ClaimableSlot
    <3> QED BY <1>1, <3>1, <3>2, SettleOwed
  <2>2. ASSUME NEW s, NEW p, Prepare(s, p) PROVE ReservedIsOwed'
    BY <1>2, <2>2 DEF Prepare, purseVars
  <2>3. ASSUME NEW s, deliverMarketplaceWithSignatures(s) PROVE ReservedIsOwed'
    BY <1>2, <2>3 DEF deliverMarketplaceWithSignatures, purseVars
  <2> QED BY <1>6, <2>1, <2>2, <2>3
     DEF DeliveryStep, prepareSolutionDelivery, prepareVerdictDelivery
<1>7. ASSUME ExitStep PROVE ReservedIsOwed'
  <2>1. ASSUME NEW k \in AttemptKeys, releaseAttempt(k[1], k[2])
        PROVE  ReservedIsOwed'
    BY <1>1, <2>1, KeySlots, ReleaseOwed DEF releaseAttempt
  <2>2. ASSUME NEW k \in VerdictKeys, releaseVerdict(k) PROVE ReservedIsOwed'
    BY <1>1, <2>2, KeySlots, ReleaseOwed DEF releaseVerdict
  <2>3. ASSUME NEW s \in Slots, NEW c \in Accounts,
               forfeitSolution(s, c) \/ forfeitVerdict(s, c)
        PROVE  ReservedIsOwed'
    BY <1>1, <2>3, SettleOwed DEF forfeitSolution, forfeitVerdict, CanForfeit
  <2> QED BY <1>7, <2>1, <2>2, <2>3 DEF ExitStep
<1>8. ASSUME OwnerStep \/ Tick \/ UNCHANGED vars PROVE ReservedIsOwed'
  BY <1>2, <1>8, OtherStepKeeps DEF purseVars
<1>9. ASSUME NEW t \in Tasks, ClaimStep(t) PROVE ReservedIsOwed'
  BY <1>4, <1>5, <1>9 DEF ClaimStep
<1> QED BY <1>1, <1>3, <1>6, <1>7, <1>8, <1>9, CreateTaskOwed DEF Next

\* At deployment nothing is reserved and nothing is owed.
LEMMA InitOwed == Init => ReservedIsOwed
<1> SUFFICES ASSUME Init, NEW x \in Purses
             PROVE  reserved[x] = Owed(reservations, x)
  BY OwedIs
<1>1. OpenIn(reservations, x) = {}
  BY DEF Init, OpenIn, NoReservation
<1> QED BY <1>1, RateSumNone DEF Init, Owed

\* In every reachable state what a purse has reserved is the sum of the rates
\* of its open reservations, so that no settlement, release or reap takes more
\* from it than is there.
THEOREM ReservedIsWhatIsOwed == Spec => []ReservedIsOwed
  BY InitLedger, StepLedger, InitOwed, StepOwed, PTL DEF Spec

-----------------------------------------------------------------------------
(* Totals over the purses *)

Cells(f)   == UNION {{x} \X (1..f[x]) : x \in Purses}
Rest(f, x) == {c \in Cells(f) : c[1] # x}

\* The total of an assignment of naturals to purses is a natural.
LEMMA CellsFinite ==
  ASSUME NEW f \in [Purses -> Nat]
  PROVE  IsFiniteSet(Cells(f)) /\ Total(f) \in Nat
<1> DEFINE T == {{x} \X (1..f[x]) : x \in Purses}
           g == [x \in Purses |-> {x} \X (1..f[x])]
<1>1. IsFiniteSet(Purses)
  <2>0. IsFiniteSet({"solution"}) /\ IsFiniteSet({"verdict"})
    BY FS_Singleton
  <2>1. IsFiniteSet({"solution"} \cup {"verdict"})
    BY <2>0, FS_Union
  <2>2. Kinds = {"solution"} \cup {"verdict"}
    BY DEF Kinds
  <2> QED BY <2>1, <2>2, TaskBoundsFinite, FS_Product DEF Purses
<1>2. g \in Surjection(Purses, T)
  BY DEF Surjection
<1>3. IsFiniteSet(T)
  BY <1>1, <1>2, FS_Surjection
<1>4. ASSUME NEW S \in T PROVE IsFiniteSet(S)
  <2>1. PICK x \in Purses : S = {x} \X (1..f[x])
    OBVIOUS
  <2>2. f[x] \in Nat
    OBVIOUS
  <2> QED BY <2>1, <2>2, ColumnCount
<1>5. IsFiniteSet(UNION T)
  BY <1>3, <1>4, FS_UNION
<1> QED BY <1>5, FS_CardinalityType DEF Cells, Total

\* A total is what one purse holds and what the others hold.
LEMMA TotalSplit ==
  ASSUME NEW f \in [Purses -> Nat], NEW x \in Purses
  PROVE  /\ Total(f) = Cardinality(Rest(f, x)) + f[x]
         /\ Cardinality(Rest(f, x)) \in Nat
<1> DEFINE C == {x} \X (1..f[x])
<1>1. Cells(f) = Rest(f, x) \cup C /\ Rest(f, x) \cap C = {}
  BY DEF Cells, Rest
<1>2. IsFiniteSet(C) /\ Cardinality(C) = f[x]
  BY ColumnCount
<1>3. Rest(f, x) \subseteq Cells(f)
  BY DEF Rest
<1>4. IsFiniteSet(Rest(f, x))
  BY <1>3, CellsFinite, FS_Subset
<1>5. Cardinality(Cells(f)) = Cardinality(Rest(f, x)) + Cardinality(C)
  BY <1>1, <1>2, <1>4, DisjointCount
<1> QED BY <1>2, <1>4, <1>5, FS_CardinalityType DEF Total, Cells

\* Two assignments that differ at one purse at most.
LEMMA TotalOne ==
  ASSUME NEW f \in [Purses -> Nat], NEW g \in [Purses -> Nat], NEW x \in Purses,
         \A y \in Purses : y # x => g[y] = f[y]
  PROVE  Total(g) + f[x] = Total(f) + g[x]
<1>1. Rest(g, x) = Rest(f, x)
  BY DEF Rest, Cells
<1>2. f[x] \in Nat /\ g[x] \in Nat
  OBVIOUS
<1>3. /\ Total(f) = Cardinality(Rest(f, x)) + f[x]
      /\ Total(g) = Cardinality(Rest(f, x)) + g[x]
      /\ Cardinality(Rest(f, x)) \in Nat
  BY <1>1, TotalSplit
<1> QED BY <1>2, <1>3

\* Two assignments that differ at the two purses of one task at most.
LEMMA TotalTask ==
  ASSUME NEW f \in [Purses -> Nat], NEW g \in [Purses -> Nat], NEW t \in Tasks,
         \A y \in Purses : y[1] # t => g[y] = f[y]
  PROVE  LET a == <<t, "solution">>
             b == <<t, "verdict">> IN
         Total(g) + f[a] + f[b] = Total(f) + g[a] + g[b]
<1> DEFINE a == <<t, "solution">>
           b == <<t, "verdict">>
           h == [f EXCEPT ![a] = g[a]]
<1>1. a \in Purses /\ b \in Purses /\ a # b
  BY DEF Purses, Kinds
<1>2. \A y \in Purses : y[1] = t => y \in {a, b}
  BY DEF Purses, Kinds
<1>3. /\ h \in [Purses -> Nat] /\ h[a] = g[a] /\ h[b] = f[b]
      /\ \A y \in Purses : y # a => h[y] = f[y]
      /\ \A y \in Purses : y # b => g[y] = h[y]
  BY <1>1, <1>2
<1> HIDE DEF h
<1>4. Total(h) + f[a] = Total(f) + h[a]
  BY <1>1, <1>3, TotalOne
<1>5. Total(g) + h[b] = Total(h) + g[b]
  BY <1>1, <1>3, TotalOne
<1>6. Total(f) \in Nat /\ Total(g) \in Nat /\ Total(h) \in Nat
  BY <1>3, CellsFinite
<1>7. f[a] \in Nat /\ f[b] \in Nat /\ g[a] \in Nat /\ g[b] \in Nat
  BY <1>1
<1> HIDE DEF a, b
<1>8. Total(g) + f[a] + f[b] = Total(f) + g[a] + g[b]
  BY <1>3, <1>4, <1>5, <1>6, <1>7
<1> QED BY <1>8 DEF a, b

-----------------------------------------------------------------------------
(* The router's OLAS covers every task *)

\* A task not yet created has nothing in its purses.
NotYetFunded ==
  \A x \in Purses : x[1] >= nextTaskId => remaining[x] = 0 /\ reserved[x] = 0

SolventInv == LedgerInv /\ ReservedIsOwed /\ NotYetFunded /\ Solvent

PaidOpen(s) == Open(s) /\ Paid(s)
PaidSlots   == {s \in Slots : PaidOpen(s)}
PaidSum     == RateSum(reservations, PaidSlots)
Escrow      == Total(remaining) + Total(reserved)

\* A slot is paid and open after a step as it was before, at the same rate.
PaidKept(s) ==
  /\ PaidOpen(s)' <=> PaidOpen(s)
  /\ PaidOpen(s) => reservations'[s].rate = reservations[s].rate

\* Solvent, in these words.
LEMMA SolventIs ==
  /\ Solvent <=> routerBalance + PaidSum = Escrow
  /\ Solvent' <=> routerBalance' + PaidSum' = Escrow'
<1> DEFINE S == {s \in Slots : Open(s) /\ Paid(s)}
<1>1. SumRates(S) = PaidSum
  BY DEF SumRates, Units, RateSum, UnitsOf, PaidSum, PaidSlots, PaidOpen
<1>2. SumRates(S)' = PaidSum'
  BY DEF SumRates, Units, RateSum, UnitsOf, PaidSum, PaidSlots, PaidOpen
<1> QED BY <1>1, <1>2 DEF Solvent, Escrow

\* The sum of the paid rates stays when every slot's part of it does.
LEMMA PaidSumKept ==
  ASSUME \A s \in Slots : PaidKept(s)
  PROVE  PaidSum' = PaidSum
<1>1. PaidSlots' = PaidSlots
  BY DEF PaidSlots, PaidKept
<1>2. \A s \in PaidSlots : reservations'[s].rate = reservations[s].rate
  BY DEF PaidSlots, PaidKept
<1>3. PaidSlots \in SUBSET Slots
  BY DEF PaidSlots
<1>4. RateSum(reservations', PaidSlots) = RateSum(reservations, PaidSlots)
  BY <1>2, <1>3, RateSumSame
<1>5. PaidSum' = RateSum(reservations', PaidSlots')
  BY DEF PaidSum, RateSum, UnitsOf
<1> QED BY <1>1, <1>4, <1>5 DEF PaidSum

\* What the purses of one task gain or lose, the escrow gains or loses.
LEMMA EscrowChange ==
  ASSUME EscrowOK, EscrowOK', NEW t \in Tasks,
         \A x \in Purses : x[1] # t => /\ remaining'[x] = remaining[x]
                                       /\ reserved'[x] = reserved[x]
  PROVE  LET a == <<t, "solution">>
             b == <<t, "verdict">> IN
         /\ Escrow' + (remaining[a] + reserved[a]) + (remaining[b] + reserved[b])
              = Escrow + (remaining'[a] + reserved'[a])
                       + (remaining'[b] + reserved'[b])
         /\ Escrow \in Nat /\ Escrow' \in Nat
<1> DEFINE a == <<t, "solution">>
           b == <<t, "verdict">>
<1>1. /\ remaining \in [Purses -> Nat] /\ remaining' \in [Purses -> Nat]
      /\ reserved \in [Purses -> Nat] /\ reserved' \in [Purses -> Nat]
      /\ a \in Purses /\ b \in Purses
  BY DEF EscrowOK, Purses, Kinds
<1>2. /\ Total(remaining') + remaining[a] + remaining[b]
           = Total(remaining) + remaining'[a] + remaining'[b]
      /\ Total(reserved') + reserved[a] + reserved[b]
           = Total(reserved) + reserved'[a] + reserved'[b]
  BY <1>1, TotalTask
<1>3. /\ Total(remaining) \in Nat /\ Total(remaining') \in Nat
      /\ Total(reserved) \in Nat /\ Total(reserved') \in Nat
  BY <1>1, CellsFinite
<1>4. /\ remaining[a] \in Nat /\ remaining[b] \in Nat
      /\ remaining'[a] \in Nat /\ remaining'[b] \in Nat
      /\ reserved[a] \in Nat /\ reserved[b] \in Nat
      /\ reserved'[a] \in Nat /\ reserved'[b] \in Nat
  BY <1>1
<1>5. Escrow' = Total(remaining') + Total(reserved')
  BY DEF Escrow, Total
<1> HIDE DEF a, b
<1>6. /\ Escrow' + (remaining[a] + reserved[a]) + (remaining[b] + reserved[b])
           = Escrow + (remaining'[a] + reserved'[a])
                    + (remaining'[b] + reserved'[b])
      /\ Escrow \in Nat /\ Escrow' \in Nat
  BY <1>2, <1>3, <1>4, <1>5 DEF Escrow
<1> QED BY <1>6 DEF a, b

\* A step that moves what a task has between its purses' two totals, and
\* leaves the balance and the paid reservations alone.
LEMMA MovedWithin ==
  ASSUME SolventInv, EscrowOK', NEW t \in Tasks,
         \A x \in Purses : x[1] # t => /\ remaining'[x] = remaining[x]
                                       /\ reserved'[x] = reserved[x],
         \A x \in Purses : remaining'[x] + reserved'[x]
                             = remaining[x] + reserved[x],
         UNCHANGED routerBalance, \A s \in Slots : PaidKept(s)
  PROVE  Solvent'
<1> DEFINE a == <<t, "solution">>
           b == <<t, "verdict">>
<1>1. EscrowOK /\ a \in Purses /\ b \in Purses
  BY TypeOKParts DEF SolventInv, LedgerInv, PaidInv, ConservationInv, Purses,
     Kinds
<1>2. /\ Escrow' + (remaining[a] + reserved[a]) + (remaining[b] + reserved[b])
           = Escrow + (remaining'[a] + reserved'[a])
                    + (remaining'[b] + reserved'[b])
      /\ Escrow \in Nat /\ Escrow' \in Nat
  BY <1>1, EscrowChange
<1>3. /\ remaining[a] + reserved[a] \in Nat /\ remaining[b] + reserved[b] \in Nat
      /\ remaining'[a] + reserved'[a] = remaining[a] + reserved[a]
      /\ remaining'[b] + reserved'[b] = remaining[b] + reserved[b]
  BY <1>1 DEF EscrowOK
<1>4. Escrow' = Escrow
  BY <1>2, <1>3
<1> QED BY <1>4, PaidSumKept, SolventIs DEF SolventInv

\* _reap leaves paid reservations alone.
LEMMA ReapPaidKept ==
  ASSUME EscrowOK, NEW t, NEW s \in Slots,
         reservations'[s] = ReapedReservations(t)[s],
         preparations'[s] = ReapedPreparations(t)[s],
         UNCHANGED delivered
  PROVE  PaidKept(s)
<1>1. CASE s \in Reapable(t)
  <2>1. Open(s) /\ ~Paid(s) /\ reservations[s] \in ReservationType
    BY <1>1, OpenReservation DEF Reapable, Lapsed
  <2>2. reservations'[s].state = "Released"
    BY <1>1, <2>1 DEF ReapedReservations, ReservationType
  <2> QED BY <2>1, <2>2 DEF PaidKept, PaidOpen, Open
<1>2. CASE s \notin Reapable(t)
  <2>1. reservations'[s] = reservations[s] /\ preparations'[s] = preparations[s]
    BY <1>2 DEF ReapedReservations, ReapedPreparations
  <2> QED BY <2>1 DEF PaidKept, PaidOpen, Open, Paid
<1> QED BY <1>1, <1>2

\* A slot nothing happens to.
LEMMA UntouchedPaidKept ==
  ASSUME NEW s \in Slots, reservations'[s] = reservations[s],
         preparations'[s] = preparations[s], UNCHANGED delivered
  PROVE  PaidKept(s)
  BY DEF PaidKept, PaidOpen, Open, Paid

\* A slot that is not both paid and open, before and after.
LEMMA UnpaidKept ==
  ASSUME NEW s \in Slots, ~PaidOpen(s), ~PaidOpen(s)'
  PROVE  PaidKept(s)
  BY DEF PaidKept

\* createTask takes in what it makes available.
LEMMA CreateTaskSolvent ==
  ASSUME SolventInv, EscrowOK', NEW t \in Tasks, NEW c \in Accounts,
         NEW p \in Policies, NEW r1 \in Rates, NEW r2 \in Rates,
         createTask(t, c, p, r1, r2)
  PROVE  Solvent' /\ NotYetFunded'
<1> DEFINE a == <<t, "solution">>
           b == <<t, "verdict">>
           sb == SolutionBudget(p.maxTotal, r1)
           vb == VerdictBudget(p.maxTotal, r2, p.minVerdicts)
<1>1. /\ EscrowOK /\ a \in Purses /\ b \in Purses /\ a # b
      /\ a[1] = t /\ b[1] = t /\ t \in Nat
  BY TypeOKParts, CoordinatorAssumption
     DEF SolventInv, LedgerInv, PaidInv, ConservationInv, Purses, Kinds, Tasks
<1>2. /\ t = nextTaskId /\ nextTaskId' = nextTaskId + 1
      /\ remaining' = SetPurses(remaining, t, sb, vb)
      /\ reserved' = SetPurses(reserved, t, 0, 0)
      /\ routerBalance' = routerBalance + sb + vb
      /\ UNCHANGED <<reservations, preparations, delivered>>
  BY DEF createTask, CoordCreateTask, marketVars
<1>3. sb \in Nat /\ vb \in Nat
  <2>1. /\ p.maxTotal \in Nat /\ p.minVerdicts \in Nat
        /\ r1 \in Nat /\ r2 \in Nat
    BY CoordinatorAssumption, RouterAssumption DEF PolicyType, Rates
  <2> QED BY <2>1, BudgetNat
<1>4. /\ remaining'[a] = sb /\ remaining'[b] = vb
      /\ reserved'[a] = 0 /\ reserved'[b] = 0
      /\ \A x \in Purses : x[1] # t => /\ remaining'[x] = remaining[x]
                                       /\ reserved'[x] = reserved[x]
  BY <1>1, <1>2 DEF SetPurses, EscrowOK
<1>5. /\ remaining[a] = 0 /\ remaining[b] = 0
      /\ reserved[a] = 0 /\ reserved[b] = 0
  BY <1>1, <1>2 DEF SolventInv, NotYetFunded
<1>6. /\ Escrow' + (remaining[a] + reserved[a]) + (remaining[b] + reserved[b])
           = Escrow + (remaining'[a] + reserved'[a])
                    + (remaining'[b] + reserved'[b])
      /\ Escrow \in Nat /\ Escrow' \in Nat
  BY <1>1, <1>4, EscrowChange
<1>7. PaidSum' = PaidSum
  BY <1>2, UntouchedPaidKept, PaidSumKept
<1>8. routerBalance \in Nat /\ routerBalance + PaidSum = Escrow
  BY <1>1, SolventIs DEF EscrowOK, SolventInv
<1>9. PaidSum \in Nat
  BY UnitsFinite DEF PaidSum, PaidSlots
<1>10. NotYetFunded'
  <2>1. ASSUME NEW x \in Purses, x[1] >= nextTaskId'
        PROVE  x[1] >= nextTaskId /\ x[1] # t
    <3>1. x[1] \in Nat
      BY CoordinatorAssumption DEF Purses, Tasks
    <3> QED BY <1>1, <1>2, <2>1, <3>1
  <2> QED BY <1>4, <2>1 DEF SolventInv, NotYetFunded
<1> HIDE DEF sb, vb, a, b
<1>11. routerBalance' + PaidSum' = Escrow'
  BY <1>2, <1>3, <1>4, <1>5, <1>6, <1>7, <1>8, <1>9
<1> QED BY <1>10, <1>11, SolventIs

\* addAttempts takes in what it makes available.
LEMMA AddAttemptsSolvent ==
  ASSUME SolventInv, EscrowOK', NEW t \in Tasks, NEW n \in Nat, addAttempts(t, n)
  PROVE  Solvent'
<1> DEFINE a == <<t, "solution">>
           b == <<t, "verdict">>
           sb == SolutionBudget(n, maxRate[a])
           vb == VerdictBudget(n, maxRate[b], tasks[t].policy.minVerdicts)
<1>1. /\ CoordTypeOK /\ EscrowOK /\ a \in Purses /\ b \in Purses /\ a # b
      /\ a[1] = t /\ b[1] = t
  BY TypeOKParts DEF SolventInv, LedgerInv, PaidInv, ConservationInv, TypeOK,
     Purses, Kinds
<1>2. /\ CanReap(t)
      /\ remaining' = AddToPurses(ReapedRemaining(t), t, sb, vb)
      /\ reserved' = ReapedReserved(t)
      /\ routerBalance' = routerBalance + sb + vb
      /\ reservations' = ReapedReservations(t)
      /\ preparations' = ReapedPreparations(t)
      /\ UNCHANGED delivered
  BY DEF addAttempts, marketVars
<1>3. sb \in Nat /\ vb \in Nat
  <2>1. /\ maxRate[a] \in Nat /\ maxRate[b] \in Nat
        /\ tasks[t].policy.minVerdicts \in Nat
    BY <1>1 DEF EscrowOK, CoordTypeOK, TaskType, PolicyType
  <2> QED BY <2>1, BudgetNat
<1>4. /\ ReapedRemaining(t) \in [Purses -> Nat]
      /\ ReapedReserved(t) \in [Purses -> Nat]
  BY <1>1, <1>2, ReapedEscrow
<1>5. /\ remaining'[a] = ReapedRemaining(t)[a] + sb
      /\ remaining'[b] = ReapedRemaining(t)[b] + vb
      /\ \A x \in Purses : x[1] # t => remaining'[x] = ReapedRemaining(t)[x]
  BY <1>1, <1>2, <1>4 DEF AddToPurses
<1>6. \A x \in Purses : x[1] # t => /\ remaining'[x] = remaining[x]
                                    /\ reserved'[x] = reserved[x]
  BY <1>2, <1>5 DEF ReapedRemaining, ReapedReserved
<1>7. /\ ReapedRemaining(t)[a] + reserved'[a] = remaining[a] + reserved[a]
      /\ ReapedRemaining(t)[b] + reserved'[b] = remaining[b] + reserved[b]
  BY <1>1, <1>2, ReapConserves
<1>8. /\ Escrow' + (remaining[a] + reserved[a]) + (remaining[b] + reserved[b])
           = Escrow + (remaining'[a] + reserved'[a])
                    + (remaining'[b] + reserved'[b])
      /\ Escrow \in Nat /\ Escrow' \in Nat
  BY <1>1, <1>6, EscrowChange
<1>9. PaidSum' = PaidSum
  BY <1>1, <1>2, ReapPaidKept, PaidSumKept
<1>10. /\ routerBalance \in Nat /\ routerBalance + PaidSum = Escrow
       /\ remaining[a] \in Nat /\ remaining[b] \in Nat
       /\ reserved[a] \in Nat /\ reserved[b] \in Nat
       /\ ReapedRemaining(t)[a] \in Nat /\ ReapedRemaining(t)[b] \in Nat
       /\ reserved'[a] \in Nat /\ reserved'[b] \in Nat
  BY <1>1, <1>2, <1>4, SolventIs DEF EscrowOK, SolventInv
<1>11. PaidSum \in Nat
  BY UnitsFinite DEF PaidSum, PaidSlots
<1> HIDE DEF sb, vb, a, b
<1>12. /\ remaining'[a] + reserved'[a] = (remaining[a] + reserved[a]) + sb
       /\ remaining'[b] + reserved'[b] = (remaining[b] + reserved[b]) + vb
       /\ remaining[a] + reserved[a] \in Nat /\ remaining[b] + reserved[b] \in Nat
  BY <1>3, <1>5, <1>7, <1>10
<1>13. Escrow' = Escrow + sb + vb
  BY <1>3, <1>8, <1>12
<1>14. routerBalance' + PaidSum' = Escrow'
  BY <1>2, <1>3, <1>9, <1>10, <1>11, <1>13
<1> QED BY <1>14, SolventIs

\* A refund pays out what it takes from the purses.
LEMMA RefundSolvent ==
  ASSUME SolventInv, EscrowOK', NEW t \in Tasks, CanReap(t), RefundUnreserved(t)
  PROVE  Solvent'
<1> DEFINE a == <<t, "solution">>
           b == <<t, "verdict">>
           ra == ReapedRemaining(t)[a]
           rb == ReapedRemaining(t)[b]
<1>1. /\ EscrowOK /\ a \in Purses /\ b \in Purses
      /\ a[1] = t /\ b[1] = t
  BY TypeOKParts DEF SolventInv, LedgerInv, PaidInv, ConservationInv,
     Purses, Kinds
<1>2. /\ ra + rb <= routerBalance
      /\ remaining' = [x \in Purses |-> IF x[1] = t THEN 0 ELSE remaining[x]]
      /\ reserved' = ReapedReserved(t)
      /\ routerBalance' = routerBalance - (ra + rb)
      /\ reservations' = ReapedReservations(t)
      /\ preparations' = ReapedPreparations(t)
      /\ UNCHANGED delivered
  BY DEF RefundUnreserved, marketVars
<1>3. /\ ReapedRemaining(t) \in [Purses -> Nat]
      /\ ReapedReserved(t) \in [Purses -> Nat]
  BY <1>1, ReapedEscrow
<1>4. remaining'[a] = 0 /\ remaining'[b] = 0
  BY <1>1, <1>2
<1>6. \A x \in Purses : x[1] # t => /\ remaining'[x] = remaining[x]
                                    /\ reserved'[x] = reserved[x]
  BY <1>2 DEF ReapedReserved
<1>7. /\ ra + reserved'[a] = remaining[a] + reserved[a]
      /\ rb + reserved'[b] = remaining[b] + reserved[b]
  BY <1>1, <1>2, ReapConserves
<1>8. /\ Escrow' + (remaining[a] + reserved[a]) + (remaining[b] + reserved[b])
           = Escrow + (remaining'[a] + reserved'[a])
                    + (remaining'[b] + reserved'[b])
      /\ Escrow \in Nat /\ Escrow' \in Nat
  BY <1>1, <1>6, EscrowChange
<1>9. PaidSum' = PaidSum
  BY <1>1, <1>2, ReapPaidKept, PaidSumKept
<1>10. /\ routerBalance \in Nat /\ routerBalance + PaidSum = Escrow
       /\ ra \in Nat /\ rb \in Nat
       /\ remaining[a] \in Nat /\ remaining[b] \in Nat
       /\ reserved[a] \in Nat /\ reserved[b] \in Nat
       /\ reserved'[a] \in Nat /\ reserved'[b] \in Nat
  BY <1>1, <1>2, <1>3, SolventIs DEF EscrowOK, SolventInv
<1>11. PaidSum \in Nat
  BY UnitsFinite DEF PaidSum, PaidSlots
<1> HIDE DEF a, b, ra, rb
<1>12. /\ remaining'[a] + reserved'[a] = reserved'[a]
       /\ remaining'[b] + reserved'[b] = reserved'[b]
  BY <1>4, <1>10
<1>13. Escrow' = Escrow - (ra + rb)
  <2>1. PICK m \in Nat, n \in Nat : m = reserved'[a] /\ n = reserved'[b]
    BY <1>10
  <2>2. Escrow' + (ra + m) + (rb + n) = Escrow + m + n
    BY <1>7, <1>8, <1>12, <2>1
  <2>3. PICK e1 \in Nat, e \in Nat : e1 = Escrow' /\ e = Escrow
    BY <1>8
  <2>4. PICK u \in Nat, v \in Nat : u = ra /\ v = rb
    BY <1>10
  <2>5. e1 + (u + m) + (v + n) = e + m + n
    BY <2>2, <2>3, <2>4
  <2>6. e1 = e - (u + v)
    BY <2>5
  <2> QED BY <2>3, <2>4, <2>6
<1>14. routerBalance' + PaidSum' = Escrow'
  <2>1. routerBalance' = routerBalance - (ra + rb)
    BY <1>2
  <2> QED BY <2>1, <1>8, <1>9, <1>10, <1>11, <1>13
<1> QED BY <1>14, SolventIs

\* The purses other than s's, after _reap and a change at s's.
LEMMA ReapedElsewhere ==
  ASSUME NEW s \in Slots, NEW x \in Purses, x[1] # s[1]
  PROVE  /\ x # Purse(s)
         /\ ReapedRemaining(s[1])[x] = remaining[x]
         /\ ReapedReserved(s[1])[x] = reserved[x]
  BY PurseInPurses DEF ReapedRemaining, ReapedReserved

\* A claim moves its rate from remaining to reserved.
LEMMA ReserveSolvent ==
  ASSUME SolventInv, EscrowOK', NEW s \in Slots, NEW o, NEW m, NEW r \in Rates,
         NEW d, reservations[s].state = "None", Reserve(s, o, m, r, d)
  PROVE  Solvent'
<1> DEFINE t == s[1]
           RR == ReapedRemaining(t)
           RS == ReapedReserved(t)
           x0 == Purse(s)
<1>1. EscrowOK /\ t \in Tasks /\ x0 \in Purses /\ r \in Nat
  BY TypeOKParts, PurseInPurses, RouterAssumption
     DEF SolventInv, LedgerInv, PaidInv, ConservationInv, Rates
<1>2. /\ CanReap(t) /\ r <= RR[x0]
      /\ remaining' = [RR EXCEPT ![x0] = @ - r]
      /\ reserved' = [RS EXCEPT ![x0] = @ + r]
      /\ UNCHANGED <<routerBalance, delivered>>
  BY DEF Reserve, marketVars
<1>3. RR \in [Purses -> Nat] /\ RS \in [Purses -> Nat]
  BY <1>1, <1>2, ReapedEscrow
<1>4. \A x \in Purses : RR[x] + RS[x] = remaining[x] + reserved[x]
  BY <1>1, ReapConserves
<1>5. \A x \in Purses : x[1] # t =>
        x # x0 /\ RR[x] = remaining[x] /\ RS[x] = reserved[x]
  BY ReapedElsewhere
<1>6. ASSUME NEW u \in Slots PROVE PaidKept(u)
  <2>1. CASE u = s
    <3>1. preparations'[s] = NoRequest
      BY DEF Reserve, ReapedPreparations
    <3>2. NoRequest \notin delivered
      BY <1>1, RequestAssumption DEF EscrowOK
    <3>3. ~PaidOpen(u) /\ ~PaidOpen(u)'
      BY <1>2, <2>1, <3>1, <3>2 DEF PaidOpen, Open, Paid
    <3> QED BY <3>3, UnpaidKept
  <2>2. CASE u # s
    <3>1. /\ reservations'[u] = ReapedReservations(t)[u]
          /\ preparations'[u] = ReapedPreparations(t)[u]
      BY <2>2 DEF Reserve, ReapedReservations, ReapedPreparations
    <3> QED BY <1>1, <1>2, <3>1, ReapPaidKept
  <2> QED BY <2>1, <2>2
<1> HIDE DEF RR, RS, x0, t
<1>7. \A x \in Purses : x[1] # t => /\ remaining'[x] = remaining[x]
                                    /\ reserved'[x] = reserved[x]
  BY <1>2, <1>3, <1>5
<1>8. \A x \in Purses : remaining'[x] + reserved'[x] = RR[x] + RS[x]
  BY <1>1, <1>2, <1>3
<1> QED BY <1>1, <1>2, <1>4, <1>6, <1>7, <1>8, MovedWithin

\* A release moves its rate from reserved to remaining.
LEMMA ReleaseSolvent ==
  ASSUME SolventInv, EscrowOK', NEW s \in Slots, Release(s)
  PROVE  Solvent'
<1> DEFINE t == s[1]
           RR == ReapedRemaining(t)
           RS == ReapedReserved(t)
           x0 == Purse(s)
           r  == reservations[s].rate
<1>1. /\ EscrowOK /\ t \in Tasks /\ x0 \in Purses /\ Open(s) /\ ~Paid(s)
      /\ r \in Nat
  BY TypeOKParts, PurseInPurses, OpenReservation
     DEF SolventInv, LedgerInv, PaidInv, ConservationInv, Release, Live
<1>2. /\ CanReap(t) /\ r <= RS[x0]
      /\ remaining' = [RR EXCEPT ![x0] = @ + r]
      /\ reserved' = [RS EXCEPT ![x0] = @ - r]
      /\ UNCHANGED <<routerBalance, delivered>>
  BY DEF Release, marketVars
<1>3. RR \in [Purses -> Nat] /\ RS \in [Purses -> Nat]
  BY <1>1, <1>2, ReapedEscrow
<1>4. \A x \in Purses : RR[x] + RS[x] = remaining[x] + reserved[x]
  BY <1>1, ReapConserves
<1>5. \A x \in Purses : x[1] # t =>
        x # x0 /\ RR[x] = remaining[x] /\ RS[x] = reserved[x]
  BY ReapedElsewhere
<1>6. ASSUME NEW u \in Slots PROVE PaidKept(u)
  <2>1. CASE u = s
    <3>1. preparations'[s] = NoRequest
      BY DEF Release, ReapedPreparations
    <3>2. NoRequest \notin delivered
      BY <1>1, RequestAssumption DEF EscrowOK
    <3>3. ~PaidOpen(u) /\ ~PaidOpen(u)'
      BY <1>1, <1>2, <2>1, <3>1, <3>2 DEF PaidOpen, Paid
    <3> QED BY <3>3, UnpaidKept
  <2>2. CASE u # s
    <3>1. /\ reservations'[u] = ReapedReservations(t)[u]
          /\ preparations'[u] = ReapedPreparations(t)[u]
      BY <2>2 DEF Release, ReapedReservations, ReapedPreparations
    <3> QED BY <1>1, <1>2, <3>1, ReapPaidKept
  <2> QED BY <2>1, <2>2
<1> HIDE DEF RR, RS, x0, t, r
<1>7. \A x \in Purses : x[1] # t => /\ remaining'[x] = remaining[x]
                                    /\ reserved'[x] = reserved[x]
  BY <1>2, <1>3, <1>5
<1>8. \A x \in Purses : remaining'[x] + reserved'[x] = RR[x] + RS[x]
  BY <1>1, <1>2, <1>3
<1> QED BY <1>1, <1>2, <1>4, <1>6, <1>7, <1>8, MovedWithin

\* A new preparation of an unpaid slot is not yet delivered.
LEMMA PrepareSolvent ==
  ASSUME SolventInv, NEW s \in Slots, NEW p, Prepare(s, p)
  PROVE  Solvent'
<1>1. /\ EscrowOK /\ DeliveryOK /\ Open(s) /\ ~Paid(s)
      /\ UNCHANGED <<reservations, delivered, remaining, reserved, routerBalance>>
      /\ preparations'[s].slot = s
      /\ \A u \in Slots : u # s => preparations'[u] = preparations[u]
  BY TypeOKParts DEF SolventInv, LedgerInv, PaidInv, ConservationInv, Prepare,
     Live, marketVars, purseVars, EscrowOK
<1>2. \A req \in delivered : req.slot # s
  BY <1>1 DEF DeliveryOK, PaidIsNeverRestored, Open, Paid
<1>3. ~PaidOpen(s) /\ ~PaidOpen(s)'
  BY <1>1, <1>2 DEF PaidOpen, Paid
<1>4. \A u \in Slots : PaidKept(u)
  BY <1>1, <1>3, UnpaidKept, UntouchedPaidKept
<1>5. Escrow' = Escrow
  BY <1>1 DEF Escrow, Total
<1> QED BY <1>1, <1>4, <1>5, PaidSumKept, SolventIs DEF SolventInv

\* A Mech delivery draws the rate of a reservation, which is paid from then on.
LEMMA DeliverSolvent ==
  ASSUME SolventInv, NEW s \in Slots, deliverMarketplaceWithSignatures(s)
  PROVE  Solvent'
<1> DEFINE req == preparations[s]
           r == reservations[s].rate
<1>1. /\ EscrowOK /\ DeliveryOK /\ Open(s) /\ req # NoRequest
      /\ req \notin delivered /\ delivered' = delivered \cup {req}
      /\ req.rate = r /\ r <= routerBalance
      /\ routerBalance' = routerBalance - r
      /\ UNCHANGED <<reservations, preparations, remaining, reserved>>
  BY TypeOKParts DEF SolventInv, LedgerInv, PaidInv, ConservationInv, Live,
     deliverMarketplaceWithSignatures, isValidSignature, purseVars,
     adjustMechRequesterBalances
<1>2. r \in Rates /\ r \in Nat /\ routerBalance \in Nat
  BY <1>1, OpenReservation DEF EscrowOK
<1>3. \A u \in Slots : u # s => preparations[u] # req
  <2>1. req.slot = s
    BY <1>1 DEF DeliveryOK, PreparedForSlot
  <2> QED BY <1>1, <2>1 DEF DeliveryOK, PreparedForSlot
<1>4. PaidSlots' = PaidSlots \cup {s} /\ s \notin PaidSlots
  <2>1. ASSUME NEW u \in Slots PROVE PaidOpen(u)' <=> PaidOpen(u) \/ u = s
    BY <1>1, <1>3 DEF PaidOpen, Open, Paid
  <2>2. ~PaidOpen(s)
    BY <1>1 DEF PaidOpen, Paid
  <2> QED BY <2>1, <2>2 DEF PaidSlots
<1>5. PaidSum' = PaidSum + r
  <2>1. PaidSlots \in SUBSET Slots /\ {s} \in SUBSET Slots /\ PaidSlots \cap {s} = {}
    BY <1>4 DEF PaidSlots
  <2>2. RateSum(reservations, PaidSlots \cup {s})
          = RateSum(reservations, PaidSlots) + RateSum(reservations, {s})
    BY <2>1, RateSumUnion
  <2>3. RateSum(reservations, {s}) = r
    BY <1>2, RateSumOne
  <2>4. PaidSum' = RateSum(reservations', PaidSlots')
    BY DEF PaidSum, RateSum, UnitsOf
  <2> QED BY <1>1, <1>4, <2>2, <2>3, <2>4 DEF PaidSum
<1>6. Escrow' = Escrow
  BY <1>1 DEF Escrow, Total
<1>7. PaidSum \in Nat /\ routerBalance + PaidSum = Escrow
  BY SolventIs, UnitsFinite DEF PaidSum, PaidSlots, SolventInv
<1> HIDE DEF req, r
<1>8. routerBalance' + PaidSum' = Escrow'
  BY <1>1, <1>2, <1>5, <1>6, <1>7
<1> QED BY <1>8, SolventIs

\* A settlement takes a paid reservation's rate out of the escrow.
LEMMA SettleSolvent ==
  ASSUME SolventInv, EscrowOK', NEW s \in Slots, NEW c, Open(s), Paid(s),
         Settle(s, c)
  PROVE  Solvent'
<1> DEFINE r == reservations[s].rate
           x0 == Purse(s)
<1>1. /\ EscrowOK /\ DeliveryOK /\ x0 \in Purses /\ r \in Rates /\ r \in Nat
      /\ reservations[s] \in ReservationType
  BY TypeOKParts, PurseInPurses, OpenReservation
     DEF SolventInv, LedgerInv, PaidInv, ConservationInv
<1>2. /\ r <= reserved[x0]
      /\ reserved' = [reserved EXCEPT ![x0] = @ - r]
      /\ reservations' = [reservations EXCEPT ![s].state = "Settled"]
      /\ preparations' = [preparations EXCEPT ![s] = NoRequest]
      /\ UNCHANGED <<remaining, delivered, routerBalance>>
  BY DEF Settle, marketVars
<1>3. /\ reservations'[s].state = "Settled"
      /\ \A u \in Slots : u # s => /\ reservations'[u] = reservations[u]
                                   /\ preparations'[u] = preparations[u]
  BY <1>1, <1>2 DEF EscrowOK, ReservationType
<1>4. PaidSlots' = PaidSlots \ {s} /\ s \in PaidSlots
  <2>1. ASSUME NEW u \in Slots PROVE PaidOpen(u)' <=> PaidOpen(u) /\ u # s
    BY <1>2, <1>3 DEF PaidOpen, Open, Paid
  <2> QED BY <2>1 DEF PaidSlots, PaidOpen
<1>5. PaidSum = PaidSum' + r /\ PaidSum' \in Nat
  <2> DEFINE P == PaidSlots \ {s}
  <2>1. P \in SUBSET Slots /\ {s} \in SUBSET Slots /\ P \cap {s} = {}
        /\ P \cup {s} = PaidSlots
    BY <1>4 DEF PaidSlots
  <2>2. RateSum(reservations, P \cup {s})
          = RateSum(reservations, P) + RateSum(reservations, {s})
    BY <2>1, RateSumUnion
  <2>3. RateSum(reservations, {s}) = r
    BY <1>1, RateSumOne
  <2>4. PaidSum' = RateSum(reservations', PaidSlots')
    BY DEF PaidSum, RateSum, UnitsOf
  <2>5. \A u \in P : reservations'[u].rate = reservations[u].rate
    BY <1>3, <2>1
  <2>6. RateSum(reservations', P) = RateSum(reservations, P)
    BY <2>1, <2>5, RateSumSame
  <2>7. RateSum(reservations, P) \in Nat
    BY <2>1, UnitsFinite
  <2> QED BY <1>4, <2>1, <2>2, <2>3, <2>4, <2>6, <2>7 DEF PaidSum
<1>6. Escrow = Escrow' + r /\ Escrow' \in Nat
  <2>1. /\ reserved \in [Purses -> Nat] /\ reserved' \in [Purses -> Nat]
        /\ remaining \in [Purses -> Nat]
        /\ \A y \in Purses : y # x0 => reserved'[y] = reserved[y]
        /\ reserved'[x0] = reserved[x0] - r /\ reserved[x0] \in Nat
    BY <1>1, <1>2 DEF EscrowOK
  <2>2. Total(reserved') + reserved[x0] = Total(reserved) + reserved'[x0]
    BY <1>1, <2>1, TotalOne
  <2>3. /\ Total(reserved) \in Nat /\ Total(reserved') \in Nat
        /\ Total(remaining) \in Nat
    BY <2>1, CellsFinite
  <2>4. Total(reserved) = Total(reserved') + r
    BY <1>1, <2>1, <2>2, <2>3
  <2>5. Escrow' = Total(remaining) + Total(reserved')
    BY <1>2 DEF Escrow, Total
  <2> QED BY <1>1, <2>3, <2>4, <2>5 DEF Escrow
<1>7. routerBalance + PaidSum = Escrow /\ routerBalance \in Nat
  BY <1>1, SolventIs DEF SolventInv, EscrowOK
<1> HIDE DEF r, x0
<1>8. routerBalance' + PaidSum' = Escrow'
  BY <1>1, <1>2, <1>5, <1>6, <1>7
<1> QED BY <1>8, SolventIs

\* Nothing comes into the purses of a task not yet created: whatever touches a
\* purse finds the task in the coordinator.
LEMMA NotYetFundedKept ==
  ASSUME SolventInv, NEW t \in Tasks, tasks[t].status # "None",
         nextTaskId' = nextTaskId,
         \A x \in Purses : x[1] # t => /\ remaining'[x] = remaining[x]
                                       /\ reserved'[x] = reserved[x]
  PROVE  NotYetFunded'
<1>1. ~(t >= nextTaskId)
  BY DEF SolventInv, LedgerInv, PaidInv, ConservationInv, UnusedIsEmpty
<1> QED BY <1>1 DEF SolventInv, NotYetFunded

\* A claim or a release finds its task in the coordinator.
LEMMA SlotStepFunded ==
  ASSUME SolventInv, NEW s \in Slots, nextTaskId' = nextTaskId,
         \/ \E o, m, r, d : Reserve(s, o, m, r, d)
         \/ Release(s)
  PROVE  NotYetFunded'
<1> DEFINE t == s[1]
           x0 == Purse(s)
<1>1. t \in Tasks /\ x0 \in Purses
  BY PurseInPurses
<1>2. tasks[t].status # "None"
  BY DEF Reserve, Release, CanReap, CanReapExpired
<1>3. ASSUME NEW x \in Purses, x[1] # t
      PROVE  remaining'[x] = remaining[x] /\ reserved'[x] = reserved[x]
  <2>1. /\ x # x0 /\ ReapedRemaining(t)[x] = remaining[x]
        /\ ReapedReserved(t)[x] = reserved[x]
    BY <1>3, ReapedElsewhere
  <2>2. /\ remaining'[x] = ReapedRemaining(t)[x]
        /\ reserved'[x] = ReapedReserved(t)[x]
    BY <2>1 DEF Reserve, Release, ReapedRemaining, ReapedReserved
  <2> QED BY <2>1, <2>2
<1> QED BY <1>1, <1>2, <1>3, NotYetFundedKept

\* A settlement takes a positive rate out of what is reserved.
LEMMA SettleFunded ==
  ASSUME SolventInv, NEW s \in Slots, NEW c, Open(s), Settle(s, c),
         nextTaskId' = nextTaskId
  PROVE  NotYetFunded'
<1> DEFINE x0 == Purse(s)
           r == reservations[s].rate
<1>1. EscrowOK /\ x0 \in Purses /\ r \in Nat /\ r >= 1
  BY TypeOKParts, PurseInPurses, OpenReservation, RouterAssumption
     DEF SolventInv, LedgerInv, PaidInv, ConservationInv, Rates
<1>2. /\ r <= reserved[x0] /\ UNCHANGED remaining
      /\ reserved' = [reserved EXCEPT ![x0] = @ - r]
  BY DEF Settle
<1>3. ~(x0[1] >= nextTaskId)
  BY <1>1, <1>2 DEF SolventInv, NotYetFunded
<1>4. \A x \in Purses : x # x0 => reserved'[x] = reserved[x]
  BY <1>1, <1>2 DEF EscrowOK
<1> QED BY <1>2, <1>3, <1>4 DEF SolventInv, NotYetFunded

\* The invariant behind AlwaysSolvent is inductive.
LEMMA StepSolvent == SolventInv /\ [Next]_vars => SolventInv'
<1> SUFFICES ASSUME SolventInv, [Next]_vars
             PROVE  Solvent' /\ NotYetFunded'
  BY StepLedger, StepOwed DEF SolventInv
<1>1. /\ TypeOK /\ CoordTypeOK /\ EscrowOK /\ BeyondIndices /\ EscrowOK'
  BY TypeOKParts, StepTypeOK DEF SolventInv, LedgerInv, PaidInv,
     ConservationInv, TypeOK
<1>2. ASSUME UNCHANGED <<nextTaskId, remaining, reserved>>
      PROVE  NotYetFunded'
  BY <1>2 DEF SolventInv, NotYetFunded
<1>3. ASSUME NEW t \in Tasks, CreatorStep(t) PROVE Solvent' /\ NotYetFunded'
  <2>1. Solvent'
    <3>1. \A n \in 1..MaxAttempts : n \in Nat
      BY CoordinatorAssumption
    <3> QED BY <1>1, <1>3, <3>1, AddAttemptsSolvent, RefundSolvent
       DEF CreatorStep, closeTask, refundUnusedTaskBudget
  <2>2. /\ tasks[t].status # "None" /\ nextTaskId' = nextTaskId
        /\ reserved' = ReapedReserved(t)
    BY <1>3 DEF CreatorStep, addAttempts, closeTask, refundUnusedTaskBudget,
       CanReap, CanReapExpired, CoordAddAttempts, CoordCloseTask, CoordReap,
       RefundUnreserved
  <2>3. ASSUME NEW x \in Purses, x[1] # t
        PROVE  remaining'[x] = remaining[x] /\ reserved'[x] = reserved[x]
    <3>1. reserved'[x] = reserved[x]
      BY <2>2, <2>3 DEF ReapedReserved
    <3>2. ASSUME NEW n, addAttempts(t, n) PROVE remaining'[x] = remaining[x]
      BY <2>3, <3>2 DEF addAttempts, AddToPurses, ReapedRemaining
    <3>3. RefundUnreserved(t) => remaining'[x] = remaining[x]
      BY <2>3 DEF RefundUnreserved
    <3> QED BY <1>3, <3>1, <3>2, <3>3
       DEF CreatorStep, closeTask, refundUnusedTaskBudget
  <2> QED BY <2>1, <2>2, <2>3, NotYetFundedKept
<1>4. ASSUME NEW t \in Tasks, NEW o \in Accounts, NEW m \in Mechs,
             NEW r \in Rates, claimTask(t, o, m, r)
      PROVE  Solvent' /\ NotYetFunded'
  <2> DEFINE i == tasks[t].nextAttemptIndex
             d == now + tasks[t].policy.responseTimeout
             s == <<t, i, 0>>
  <2>1. /\ i \in AttemptIndices /\ Reserve(s, o, m, r, d)
        /\ nextTaskId' = nextTaskId
    BY <1>4 DEF claimTask, CoordClaimTask
  <2>2. s \in Slots /\ i \in Nat /\ s[1] = t /\ s[2] = i
    BY <2>1, KeySlots, CoordinatorAssumption DEF AttemptIndices
  <2>3. reservations[s].state = "None"
    <3>1. s[2] >= tasks[s[1]].nextAttemptIndex
      BY <2>2
    <3> HIDE DEF s
    <3> QED BY <1>1, <2>2, <3>1 DEF BeyondIndices
  <2> HIDE DEF s, d
  <2> QED BY <1>1, <2>1, <2>2, <2>3, ReserveSolvent, SlotStepFunded
<1>5. ASSUME NEW t \in Tasks, NEW i \in AttemptIndices, NEW o \in Accounts,
             NEW m \in Mechs, NEW r \in Rates, claimEvaluation(t, i, o, m, r)
      PROVE  Solvent' /\ NotYetFunded'
  <2> DEFINE n == attempts[<<t, i>>].nextVerdictIndex
             d == now + tasks[t].policy.responseTimeout
             s == <<t, i, n + 1>>
  <2>1. /\ n + 1 \in VerdictLegs /\ Reserve(s, o, m, r, d)
        /\ nextTaskId' = nextTaskId
    BY <1>5 DEF claimEvaluation, CoordClaimEvaluation
  <2>2. s \in Slots /\ n \in Nat
    <3>1. s \in VerdictKeys
      BY <2>1 DEF VerdictKeys
    <3>2. <<t, i>> \in AttemptKeys
      BY DEF AttemptKeys
    <3> QED BY <1>1, <3>1, <3>2, KeySlots DEF CoordTypeOK, AttemptType
  <2>3. reservations[s].state = "None"
    BY <1>1, <2>2 DEF BeyondIndices
  <2> HIDE DEF s, d
  <2> QED BY <1>1, <2>1, <2>2, <2>3, ReserveSolvent, SlotStepFunded
<1>6. ASSUME DeliveryStep PROVE Solvent' /\ NotYetFunded'
  <2>1. ASSUME NEW req \in delivered,
               claimSolutionDelivery(req) \/ claimVerdictDelivery(req)
        PROVE  Solvent' /\ NotYetFunded'
    <3> DEFINE s == req.slot
               o == reservations[s].party
    <3>1. /\ CanClaimDelivery(s, req) /\ Settle(s, o)
          /\ nextTaskId' = nextTaskId
      BY <2>1 DEF claimSolutionDelivery, claimVerdictDelivery,
         CoordRecordSolutionDelivery, CoordRecordVerdict
    <3>2. s \in Slots /\ Open(s) /\ Paid(s)
      BY <1>1, <3>1, ClaimableSlot DEF CanClaimDelivery, DeliveredExact, Paid
    <3> HIDE DEF s, o
    <3> QED BY <1>1, <3>1, <3>2, SettleSolvent, SettleFunded
  <2>2. ASSUME NEW s \in Slots, NEW p, Prepare(s, p)
        PROVE  Solvent' /\ NotYetFunded'
    BY <1>2, <2>2, PrepareSolvent DEF Prepare, purseVars
  <2>3. ASSUME NEW s \in Slots, deliverMarketplaceWithSignatures(s)
        PROVE  Solvent' /\ NotYetFunded'
    BY <1>2, <2>3, DeliverSolvent
       DEF deliverMarketplaceWithSignatures, purseVars
  <2> QED BY <1>6, <2>1, <2>2, <2>3, KeySlots
     DEF DeliveryStep, prepareSolutionDelivery, prepareVerdictDelivery
<1>7. ASSUME ExitStep PROVE Solvent' /\ NotYetFunded'
  <2>1. ASSUME NEW s \in Slots, Release(s), nextTaskId' = nextTaskId
        PROVE  Solvent' /\ NotYetFunded'
    BY <1>1, <2>1, ReleaseSolvent, SlotStepFunded
  <2>2. ASSUME NEW k \in AttemptKeys, releaseAttempt(k[1], k[2])
        PROVE  Solvent' /\ NotYetFunded'
    BY <2>1, <2>2, KeySlots DEF releaseAttempt, CoordReleaseAttempt
  <2>3. ASSUME NEW k \in VerdictKeys, releaseVerdict(k)
        PROVE  Solvent' /\ NotYetFunded'
    BY <2>1, <2>3, KeySlots DEF releaseVerdict, CoordReleaseVerdict
  <2>4. ASSUME NEW s \in Slots, NEW c \in Accounts,
               forfeitSolution(s, c) \/ forfeitVerdict(s, c)
        PROVE  Solvent' /\ NotYetFunded'
    <3>1. Open(s) /\ Paid(s) /\ Settle(s, c) /\ nextTaskId' = nextTaskId
      BY <2>4 DEF forfeitSolution, forfeitVerdict, CanForfeit,
         CoordForfeitAttempt, CoordForfeitVerdict
    <3> QED BY <1>1, <3>1, SettleSolvent, SettleFunded
  <2> QED BY <1>7, <2>2, <2>3, <2>4 DEF ExitStep
<1>8. ASSUME OwnerStep \/ Tick \/ UNCHANGED vars
      PROVE  Solvent' /\ NotYetFunded'
  <2>1. UNCHANGED <<nextTaskId, remaining, reserved, reservations,
                    preparations, delivered>>
    BY <1>8, OtherStepKeeps DEF purseVars, marketVars
  <2>2. UNCHANGED routerBalance
    BY <1>8 DEF OwnerStep, setActivityChecker, setAuthorizedRouter,
       changeMechOperator, Tick, vars, routerVars
  <2>3. PaidSum' = PaidSum
    BY <2>1, UntouchedPaidKept, PaidSumKept
  <2>4. Escrow' = Escrow
    BY <2>1 DEF Escrow, Total
  <2> QED BY <1>2, <2>1, <2>2, <2>3, <2>4, SolventIs DEF SolventInv
<1>9. ASSUME NEW t \in Tasks, ClaimStep(t) PROVE Solvent' /\ NotYetFunded'
  BY <1>4, <1>5, <1>9 DEF ClaimStep
<1> QED BY <1>1, <1>3, <1>6, <1>7, <1>8, <1>9, CreateTaskSolvent DEF Next

\* At deployment the router holds nothing and owes nothing.
LEMMA InitSolvent == Init => SolventInv
<1> SUFFICES ASSUME Init PROVE Solvent /\ NotYetFunded
  BY InitLedger, InitOwed DEF SolventInv
<1>1. NotYetFunded
  BY DEF Init, NotYetFunded
<1>2. PaidSlots = {}
  BY DEF Init, PaidSlots, PaidOpen, Open, NoReservation
<1>3. PaidSum = 0
  BY <1>2, RateSumNone DEF PaidSum
<1>4. Cells(remaining) = {} /\ Cells(reserved) = {}
  BY DEF Init, Cells
<1>5. Escrow = 0
  <2>1. Total(remaining) = Cardinality({}) /\ Total(reserved) = Cardinality({})
    BY <1>4 DEF Total, Cells
  <2> QED BY <2>1, FS_EmptySet DEF Escrow
<1> QED BY <1>1, <1>3, <1>5, SolventIs DEF Init

\* In every reachable state the OLAS the router holds is what remains and is
\* reserved over all tasks, less the open reservations already paid: no task
\* is paid or refunded out of another task's escrow.
THEOREM AlwaysSolvent == Spec => []Solvent
<1>1. SolventInv => Solvent
  BY DEF SolventInv
<1> QED BY <1>1, InitSolvent, StepSolvent, PTL DEF Spec

-----------------------------------------------------------------------------
(* Counting attempts, for any assignment of attempts to keys *)

InStatus(A, t, st) == {k \in AttemptKeys : k[1] = t /\ A[k].status \in st}
LiveBy(A, o)       == {k \in AttemptKeys : A[k].status = "Live" /\ A[k].operator = o}

\* 1 for TRUE and 0 for FALSE.
One(b) == IF b THEN 1 ELSE 0

\* There are finitely many attempts to count.
LEMMA CountNat ==
  ASSUME NEW S \in SUBSET AttemptKeys
  PROVE  IsFiniteSet(S) /\ Cardinality(S) \in Nat
  BY AttemptKeysFinite, FS_Subset, FS_CardinalityType

\* One element more or less.
LEMMA CountOne ==
  ASSUME NEW S, NEW T, NEW k, IsFiniteSet(S), IsFiniteSet(T),
         \A j : j # k => (j \in T <=> j \in S)
  PROVE  /\ Cardinality(T) + One(k \in S) = Cardinality(S) + One(k \in T)
         /\ Cardinality(S) \in Nat /\ Cardinality(T) \in Nat
<1>1. Cardinality(S) \in Nat /\ Cardinality(T) \in Nat
  BY FS_CardinalityType
<1>2. CASE k \in S /\ k \notin T
  <2>1. T = S \ {k}
    BY <1>2
  <2>2. Cardinality(T) = Cardinality(S) - 1
    BY <1>2, <2>1, FS_RemoveElement
  <2> QED BY <1>1, <1>2, <2>2 DEF One
<1>3. CASE k \notin S /\ k \in T
  <2>1. T = S \cup {k}
    BY <1>3
  <2>2. Cardinality(T) = Cardinality(S) + 1
    BY <1>3, <2>1, FS_AddElement
  <2> QED BY <1>1, <1>3, <2>2 DEF One
<1>4. CASE k \in S <=> k \in T
  <2>1. T = S
    BY <1>4
  <2> QED BY <1>1, <1>4, <2>1
<1> QED BY <1>1, <1>2, <1>3, <1>4

\* A part of a set counted off.
LEMMA CountLess ==
  ASSUME NEW S, NEW E \in SUBSET S, IsFiniteSet(S)
  PROVE  /\ Cardinality(S \ E) = Cardinality(S) - Cardinality(E)
         /\ Cardinality(E) <= Cardinality(S)
         /\ Cardinality(E) \in Nat /\ Cardinality(S \ E) \in Nat
<1>1. IsFiniteSet(E) /\ IsFiniteSet(S \ E) /\ (S \ E) \cap E = {}
  BY FS_Subset
<1>2. (S \ E) \cup E = S
  OBVIOUS
<1>3. /\ Cardinality((S \ E) \cup E) = Cardinality(S \ E) + Cardinality(E)
      /\ Cardinality(S \ E) \in Nat /\ Cardinality(E) \in Nat
  BY <1>1, DisjointCount
<1>4. Cardinality(S) = Cardinality(S \ E) + Cardinality(E)
  BY <1>2, <1>3
<1> QED BY <1>3, <1>4

\* The counters of the coordinator's storage, given as values.
ExactTask(T, A, t) ==
  /\ T[t].liveOccupancy = Cardinality(InStatus(A, t, {"Live"}))
  /\ T[t].liveOccupancy <= T[t].policy.maxConcurrent
  /\ T[t].settledAttemptCount
       = Cardinality(InStatus(A, t, {"Submitted", "Finalized"}))
  /\ T[t].finalizedAttemptCount = Cardinality(InStatus(A, t, {"Finalized"}))
  /\ T[t].creatorCredited <=> InStatus(A, t, {"Finalized"}) # {}

ExactOperator(A, L, o) ==
  /\ L[o] = Cardinality(LiveBy(A, o))
  /\ MaxSimultaneousClaims # 0 => L[o] <= MaxSimultaneousClaims

Exact(T, A, L) == /\ \A t \in Tasks : ExactTask(T, A, t)
                  /\ \A o \in Accounts : ExactOperator(A, L, o)

\* CountersExact, as a statement about the storage.
LEMMA ExactIs ==
  /\ CountersExact <=> Exact(tasks, attempts, operatorLiveClaims)
  /\ CountersExact' <=> Exact(tasks', attempts', operatorLiveClaims')
<1>1. \A t, st : AttemptsOf(t, st) = InStatus(attempts, t, st)
  BY DEF AttemptsOf, InStatus
<1>2. \A t, st : AttemptsOf(t, st)' = InStatus(attempts', t, st)
  BY DEF AttemptsOf, InStatus
<1>3. CountersExact <=> Exact(tasks, attempts, operatorLiveClaims)
  BY <1>1 DEF CountersExact, Exact, ExactTask, ExactOperator, LiveBy
<1>4. CountersExact' <=> Exact(tasks', attempts', operatorLiveClaims')
  BY <1>2 DEF CountersExact, Exact, ExactTask, ExactOperator, LiveBy
<1> QED BY <1>3, <1>4

\* reapExpired gives back the occupancy of exactly what it expires.
LEMMA ReapExact ==
  ASSUME CoordTypeOK, CountersExact, NEW t \in Tasks
  PROVE  /\ Exact(ReapedTasks(t), ReapedAttempts(t), ReapedLiveClaims(t))
         /\ Cardinality(ExpiredAttempts(t)) <= tasks[t].liveOccupancy
         /\ \A o \in Accounts :
              Cardinality(ExpiredAttemptsOf(t, o)) <= operatorLiveClaims[o]
<1> DEFINE T == ReapedTasks(t)
           A == ReapedAttempts(t)
           L == ReapedLiveClaims(t)
           E == ExpiredAttempts(t)
<1>1. /\ \A k \in AttemptKeys : k \in E => /\ k[1] = t
                                           /\ attempts[k].status = "Live"
      /\ E \subseteq AttemptKeys
      /\ \A o : ExpiredAttemptsOf(t, o) = {k \in E : attempts[k].operator = o}
  BY DEF ExpiredAttempts, ExpiredAttemptsOf
<1>2. \A k \in AttemptKeys :
        /\ A[k].operator = attempts[k].operator
        /\ A[k].status = IF k \in E THEN "Expired" ELSE attempts[k].status
  BY DEF ReapedAttempts, CoordTypeOK, AttemptType
<1>3. /\ \A u \in Tasks : u # t => T[u] = tasks[u]
      /\ T[t].liveOccupancy = tasks[t].liveOccupancy - Cardinality(E)
      /\ T[t].policy = tasks[t].policy
      /\ T[t].settledAttemptCount = tasks[t].settledAttemptCount
      /\ T[t].finalizedAttemptCount = tasks[t].finalizedAttemptCount
      /\ T[t].creatorCredited = tasks[t].creatorCredited
  BY DEF ReapedTasks, CoordTypeOK, TaskType
<1>4. \A o \in Accounts :
        L[o] = operatorLiveClaims[o] - Cardinality(ExpiredAttemptsOf(t, o))
  BY DEF ReapedLiveClaims
<1>5. Exact(tasks, attempts, operatorLiveClaims)
  BY ExactIs
<1> HIDE DEF T, A, L, E
<1>6. \A u : /\ InStatus(A, u, {"Submitted", "Finalized"})
                  = InStatus(attempts, u, {"Submitted", "Finalized"})
             /\ InStatus(A, u, {"Finalized"}) = InStatus(attempts, u, {"Finalized"})
  BY <1>1, <1>2 DEF InStatus
<1>7. \A u : u # t => InStatus(A, u, {"Live"}) = InStatus(attempts, u, {"Live"})
  BY <1>1, <1>2 DEF InStatus
<1>8. /\ InStatus(A, t, {"Live"}) = InStatus(attempts, t, {"Live"}) \ E
      /\ E \in SUBSET InStatus(attempts, t, {"Live"})
      /\ InStatus(attempts, t, {"Live"}) \in SUBSET AttemptKeys
  BY <1>1, <1>2 DEF InStatus
<1>9. /\ Cardinality(InStatus(A, t, {"Live"}))
           = Cardinality(InStatus(attempts, t, {"Live"})) - Cardinality(E)
      /\ Cardinality(E) <= Cardinality(InStatus(attempts, t, {"Live"}))
      /\ Cardinality(InStatus(attempts, t, {"Live"})) \in Nat
      /\ Cardinality(E) \in Nat
  BY <1>8, CountLess, CountNat
<1>10. tasks[t].policy.maxConcurrent \in Nat /\ tasks[t].liveOccupancy \in Nat
  BY DEF CoordTypeOK, TaskType, PolicyType
<1>11. ASSUME NEW u \in Tasks PROVE ExactTask(T, A, u)
  <2>1. ExactTask(tasks, attempts, u)
    BY <1>5 DEF Exact
  <2>2. CASE u # t
    BY <1>3, <1>6, <1>7, <2>1, <2>2 DEF ExactTask
  <2>3. CASE u = t
    <3>1. /\ T[u].liveOccupancy = Cardinality(InStatus(A, u, {"Live"}))
          /\ T[u].liveOccupancy <= T[u].policy.maxConcurrent
      BY <1>3, <1>9, <1>10, <2>1, <2>3 DEF ExactTask
    <3> QED BY <1>3, <1>6, <2>1, <2>3, <3>1 DEF ExactTask
  <2> QED BY <2>2, <2>3
<1>12. ASSUME NEW o \in Accounts
       PROVE  /\ ExactOperator(A, L, o)
              /\ Cardinality(ExpiredAttemptsOf(t, o)) <= operatorLiveClaims[o]
  <2> DEFINE Eo == ExpiredAttemptsOf(t, o)
  <2>1. /\ LiveBy(A, o) = LiveBy(attempts, o) \ Eo
        /\ Eo \in SUBSET LiveBy(attempts, o)
        /\ LiveBy(attempts, o) \in SUBSET AttemptKeys
    BY <1>1, <1>2 DEF LiveBy
  <2>2. /\ Cardinality(LiveBy(A, o))
             = Cardinality(LiveBy(attempts, o)) - Cardinality(Eo)
        /\ Cardinality(Eo) <= Cardinality(LiveBy(attempts, o))
        /\ Cardinality(LiveBy(attempts, o)) \in Nat /\ Cardinality(Eo) \in Nat
    <3> HIDE DEF Eo
    <3> QED BY <2>1, CountLess, CountNat
  <2>3. ExactOperator(attempts, operatorLiveClaims, o)
    BY <1>5 DEF Exact
  <2>4. L[o] = operatorLiveClaims[o] - Cardinality(Eo)
    BY <1>4
  <2> QED BY <2>2, <2>3, <2>4, CoordinatorAssumption DEF ExactOperator
<1>13. Cardinality(E) <= tasks[t].liveOccupancy
  <2>1. ExactTask(tasks, attempts, t)
    BY <1>5 DEF Exact
  <2> QED BY <1>9, <2>1 DEF ExactTask
<1> QED BY <1>11, <1>12, <1>13 DEF Exact, T, A, L, E

\* The counters follow a change of attempt k.
Follows(T, T2, A, A2, L, L2, k) ==
  LET t == k[1]
      was == A[k].status
      is == A2[k].status IN
  /\ T \in [Tasks -> TaskType] /\ T2 \in [Tasks -> TaskType]
  /\ L \in [Accounts -> Nat] /\ L2 \in [Accounts -> Nat]
  /\ \A j \in AttemptKeys : j # k => /\ A2[j].status = A[j].status
                                     /\ A2[j].operator = A[j].operator
  /\ \A u \in Tasks : u # t => T2[u] = T[u]
  /\ T2[t].liveOccupancy + One(was = "Live")
       = T[t].liveOccupancy + One(is = "Live")
  /\ T2[t].liveOccupancy <= T2[t].policy.maxConcurrent
  /\ T2[t].settledAttemptCount + One(was \in {"Submitted", "Finalized"})
       = T[t].settledAttemptCount + One(is \in {"Submitted", "Finalized"})
  /\ T2[t].finalizedAttemptCount + One(was = "Finalized")
       = T[t].finalizedAttemptCount + One(is = "Finalized")
  /\ T2[t].creatorCredited <=> T[t].creatorCredited \/ is = "Finalized"
  /\ was = "Finalized" => is = "Finalized"
  /\ \A o \in Accounts :
       /\ L2[o] + One(was = "Live" /\ A[k].operator = o)
            = L[o] + One(is = "Live" /\ A2[k].operator = o)
       /\ MaxSimultaneousClaims # 0 => L2[o] <= MaxSimultaneousClaims

\* One attempt changes, and the counters follow it.
LEMMA ExactChange ==
  ASSUME NEW T, NEW T2, NEW A, NEW A2, NEW L, NEW L2, NEW k \in AttemptKeys,
         Exact(T, A, L), Follows(T, T2, A, A2, L, L2, k)
  PROVE  Exact(T2, A2, L2)
<1> DEFINE t == k[1]
           was == A[k].status
           is == A2[k].status
<1>0. t \in Tasks
  BY KeySlots
<1>1. \A b : One(b) \in {0, 1}
  BY DEF One
<1>2. ASSUME NEW st
      PROVE  /\ Cardinality(InStatus(A2, t, st)) + One(was \in st)
                  = Cardinality(InStatus(A, t, st)) + One(is \in st)
             /\ Cardinality(InStatus(A, t, st)) \in Nat
             /\ Cardinality(InStatus(A2, t, st)) \in Nat
             /\ \A u : u # t => InStatus(A2, u, st) = InStatus(A, u, st)
  <2> DEFINE S == InStatus(A, t, st)
             S2 == InStatus(A2, t, st)
  <2>1. IsFiniteSet(S) /\ IsFiniteSet(S2)
    BY CountNat DEF InStatus
  <2>2. \A j : j # k => (j \in S2 <=> j \in S)
    BY DEF InStatus, Follows
  <2>3. (k \in S <=> was \in st) /\ (k \in S2 <=> is \in st)
    BY DEF InStatus
  <2>4. \A u : u # t => InStatus(A2, u, st) = InStatus(A, u, st)
    BY DEF InStatus, Follows
  <2> HIDE DEF S, S2
  <2>5. /\ Cardinality(S2) + One(k \in S) = Cardinality(S) + One(k \in S2)
        /\ Cardinality(S) \in Nat /\ Cardinality(S2) \in Nat
    BY <2>1, <2>2, CountOne
  <2>6. One(k \in S) = One(was \in st) /\ One(k \in S2) = One(is \in st)
    BY <2>3 DEF One
  <2> QED BY <2>4, <2>5, <2>6 DEF S, S2
<1>3. ASSUME NEW u \in Tasks, u # t PROVE ExactTask(T2, A2, u)
  <2>1. T2[u] = T[u]
    BY <1>3 DEF Follows
  <2> HIDE DEF t
  <2> QED BY <1>2, <1>3, <2>1 DEF ExactTask, Exact
<1>4. ExactTask(T2, A2, t)
  <2>1. ExactTask(T, A, t)
    BY <1>0 DEF Exact
  <2>2. /\ T[t].liveOccupancy \in Nat /\ T2[t].liveOccupancy \in Nat
        /\ T[t].settledAttemptCount \in Nat /\ T2[t].settledAttemptCount \in Nat
        /\ T[t].finalizedAttemptCount \in Nat
        /\ T2[t].finalizedAttemptCount \in Nat
    BY <1>0 DEF TaskType, Follows
  <2>0. /\ T2[t].liveOccupancy + One(was = "Live")
             = T[t].liveOccupancy + One(is = "Live")
        /\ T2[t].liveOccupancy <= T2[t].policy.maxConcurrent
        /\ T2[t].settledAttemptCount + One(was \in {"Submitted", "Finalized"})
             = T[t].settledAttemptCount + One(is \in {"Submitted", "Finalized"})
        /\ T2[t].finalizedAttemptCount + One(was = "Finalized")
             = T[t].finalizedAttemptCount + One(is = "Finalized")
        /\ T2[t].creatorCredited <=> T[t].creatorCredited \/ is = "Finalized"
    BY DEF Follows
  <2>3. /\ One(was \in {"Live"}) = One(was = "Live")
        /\ One(is \in {"Live"}) = One(is = "Live")
        /\ One(was \in {"Finalized"}) = One(was = "Finalized")
        /\ One(is \in {"Finalized"}) = One(is = "Finalized")
    BY DEF One
  <2>4. T2[t].liveOccupancy = Cardinality(InStatus(A2, t, {"Live"}))
    <3>1. /\ Cardinality(InStatus(A2, t, {"Live"})) + One(was \in {"Live"})
               = Cardinality(InStatus(A, t, {"Live"})) + One(is \in {"Live"})
          /\ Cardinality(InStatus(A, t, {"Live"})) \in Nat
          /\ Cardinality(InStatus(A2, t, {"Live"})) \in Nat
      BY <1>2
    <3>2. T[t].liveOccupancy = Cardinality(InStatus(A, t, {"Live"}))
      BY <2>1 DEF ExactTask
    <3>3. One(was = "Live") \in {0, 1} /\ One(is = "Live") \in {0, 1}
      BY <1>1
    <3> HIDE DEF t, was, is
    <3> QED BY <2>0, <2>2, <2>3, <3>1, <3>2, <3>3
  <2>5. T2[t].settledAttemptCount
          = Cardinality(InStatus(A2, t, {"Submitted", "Finalized"}))
    BY <1>1, <1>2, <2>0, <2>1, <2>2 DEF ExactTask
  <2>6. T2[t].finalizedAttemptCount = Cardinality(InStatus(A2, t, {"Finalized"}))
    BY <1>1, <1>2, <2>0, <2>1, <2>2, <2>3 DEF ExactTask
  <2>7. InStatus(A2, t, {"Finalized"}) # {} <=>
          InStatus(A, t, {"Finalized"}) # {} \/ is = "Finalized"
    BY DEF InStatus, Follows
  <2> QED BY <2>0, <2>1, <2>4, <2>5, <2>6, <2>7 DEF ExactTask
<1>5. ASSUME NEW o \in Accounts PROVE ExactOperator(A2, L2, o)
  <2> DEFINE S == LiveBy(A, o)
             S2 == LiveBy(A2, o)
  <2>1. IsFiniteSet(S) /\ IsFiniteSet(S2)
    BY CountNat DEF LiveBy
  <2>2. \A j : j # k => (j \in S2 <=> j \in S)
    BY DEF LiveBy, Follows
  <2>3. /\ k \in S <=> was = "Live" /\ A[k].operator = o
        /\ k \in S2 <=> is = "Live" /\ A2[k].operator = o
    BY DEF LiveBy
  <2>4. /\ ExactOperator(A, L, o) /\ L[o] \in Nat /\ L2[o] \in Nat
        /\ L2[o] + One(was = "Live" /\ A[k].operator = o)
             = L[o] + One(is = "Live" /\ A2[k].operator = o)
        /\ MaxSimultaneousClaims # 0 => L2[o] <= MaxSimultaneousClaims
    BY DEF Exact, Follows
  <2> HIDE DEF S, S2
  <2>5. /\ Cardinality(S2) + One(k \in S) = Cardinality(S) + One(k \in S2)
        /\ Cardinality(S) \in Nat /\ Cardinality(S2) \in Nat
    BY <2>1, <2>2, CountOne
  <2>6. /\ One(k \in S) = One(was = "Live" /\ A[k].operator = o)
        /\ One(k \in S2) = One(is = "Live" /\ A2[k].operator = o)
    BY <2>3 DEF One
  <2>7. L[o] = Cardinality(S)
    BY <2>4 DEF ExactOperator, S
  <2>8. L2[o] = Cardinality(S2)
    BY <1>1, <2>4, <2>5, <2>6, <2>7
  <2> QED BY <2>4, <2>8 DEF ExactOperator, S2
<1> QED BY <1>3, <1>4, <1>5 DEF Exact

\* Storage that counts the same.
LEMMA ExactAs ==
  ASSUME NEW T, NEW T2, NEW A, NEW A2, NEW L, Exact(T, A, L),
         \A k \in AttemptKeys : /\ A2[k].status = A[k].status
                                /\ A2[k].operator = A[k].operator,
         \A t \in Tasks :
           /\ T2[t].liveOccupancy = T[t].liveOccupancy
           /\ T2[t].policy.maxConcurrent = T[t].policy.maxConcurrent
           /\ T2[t].settledAttemptCount = T[t].settledAttemptCount
           /\ T2[t].finalizedAttemptCount = T[t].finalizedAttemptCount
           /\ T2[t].creatorCredited = T[t].creatorCredited
  PROVE  Exact(T2, A2, L)
<1>1. \A t, st : InStatus(A2, t, st) = InStatus(A, t, st)
  BY DEF InStatus
<1>2. \A o : LiveBy(A2, o) = LiveBy(A, o)
  BY DEF LiveBy
<1> QED BY <1>1, <1>2 DEF Exact, ExactTask, ExactOperator

-----------------------------------------------------------------------------
(* One action at a time *)

CountInv == LedgerInv /\ CountersExact

\* A new task counts nothing: it has no attempts.
LEMMA CreateTaskCounts ==
  ASSUME CountInv, NEW t \in Tasks, NEW c \in Accounts, NEW p \in Policies,
         CoordCreateTask(t, c, p)
  PROVE  CountersExact'
<1>1. /\ CoordTypeOK /\ BeyondIndices /\ t = nextTaskId
      /\ tasks' = [tasks EXCEPT ![t] = [NoTask EXCEPT !.creator = c,
                                          !.status = "Open", !.policy = p]]
      /\ UNCHANGED <<attempts, operatorLiveClaims>>
  BY DEF CountInv, LedgerInv, PaidInv, ConservationInv, TypeOK, CoordCreateTask
<1>2. p.maxConcurrent \in Nat
  BY CoordinatorAssumption DEF PolicyType
<1>3. /\ tasks'[t].liveOccupancy = 0 /\ tasks'[t].settledAttemptCount = 0
      /\ tasks'[t].finalizedAttemptCount = 0
      /\ tasks'[t].creatorCredited = FALSE /\ tasks'[t].policy = p
      /\ \A u \in Tasks : u # t => tasks'[u] = tasks[u]
  BY <1>1 DEF CoordTypeOK, NoTask
<1>4. ASSUME NEW k \in AttemptKeys, k[1] = t PROVE attempts[k].status = "None"
  <2>1. tasks[t].nextAttemptIndex = 0
    BY <1>1, CoordinatorAssumption DEF BeyondIndices, Tasks
  <2>2. k[2] \in AttemptIndices
    BY KeySlots
  <2>3. k[2] >= 0
    BY <2>2, CoordinatorAssumption DEF AttemptIndices
  <2>4. k[2] >= tasks[k[1]].nextAttemptIndex
    BY <1>4, <2>1, <2>3
  <2> QED BY <1>1, <2>4 DEF BeyondIndices
<1>5. /\ InStatus(attempts, t, {"Live"}) = {}
      /\ InStatus(attempts, t, {"Submitted", "Finalized"}) = {}
      /\ InStatus(attempts, t, {"Finalized"}) = {}
  BY <1>4 DEF InStatus
<1>6. Exact(tasks, attempts, operatorLiveClaims)
  BY ExactIs DEF CountInv
<1>7. ExactTask(tasks', attempts, t)
  <2>1. /\ Cardinality(InStatus(attempts, t, {"Live"})) = 0
        /\ Cardinality(InStatus(attempts, t, {"Submitted", "Finalized"})) = 0
        /\ Cardinality(InStatus(attempts, t, {"Finalized"})) = 0
    BY <1>5, FS_EmptySet
  <2> QED BY <1>2, <1>3, <1>5, <2>1 DEF ExactTask
<1>8. \A u \in Tasks : u # t => ExactTask(tasks', attempts, u)
  BY <1>3, <1>6 DEF Exact, ExactTask
<1>9. Exact(tasks', attempts, operatorLiveClaims)
  BY <1>6, <1>7, <1>8 DEF Exact
<1> QED BY <1>1, <1>9, ExactIs

\* addAttempts, closeTask, the refund and a verdict's release only reap.
LEMMA ReapCounts ==
  ASSUME CountInv, NEW t \in Tasks,
         \/ \E n \in Nat : CoordAddAttempts(t, n)
         \/ CoordCloseTask(t)
         \/ CoordReap(t)
         \/ \E k, o : k[1] = t /\ CoordReleaseVerdict(k, o)
  PROVE  CountersExact'
<1>1. CoordTypeOK
  BY DEF CountInv, LedgerInv, PaidInv, ConservationInv, TypeOK
<1>2. CanReapExpired(t)
  BY DEF CoordAddAttempts, CoordCloseTask, CoordReap, CoordReleaseVerdict
<1>3. attempts' = ReapedAttempts(t) /\ operatorLiveClaims' = ReapedLiveClaims(t)
  BY DEF CoordAddAttempts, CoordCloseTask, CoordReap, CoordReleaseVerdict
<1>4. ReapedTasks(t) \in [Tasks -> TaskType]
  BY <1>1, <1>2, ReapedTypes
<1>5. ASSUME NEW u \in Tasks
      PROVE  LET T == ReapedTasks(t) IN
             /\ tasks'[u].liveOccupancy = T[u].liveOccupancy
             /\ tasks'[u].policy.maxConcurrent = T[u].policy.maxConcurrent
             /\ tasks'[u].settledAttemptCount = T[u].settledAttemptCount
             /\ tasks'[u].finalizedAttemptCount = T[u].finalizedAttemptCount
             /\ tasks'[u].creatorCredited = T[u].creatorCredited
  <2>1. ASSUME NEW n \in Nat, CoordAddAttempts(t, n)
        PROVE  tasks' = [ReapedTasks(t) EXCEPT ![t].policy.maxTotal = @ + n]
    BY <2>1 DEF CoordAddAttempts
  <2>2. CASE \E n \in Nat : CoordAddAttempts(t, n)
    BY <1>4, <2>1, <2>2 DEF TaskType, PolicyType
  <2>3. CASE CoordCloseTask(t)
    BY <1>4, <2>3 DEF CoordCloseTask, TaskType
  <2>4. CASE CoordReap(t) \/ \E k, o : k[1] = t /\ CoordReleaseVerdict(k, o)
    BY <2>4 DEF CoordReap, CoordReleaseVerdict
  <2> QED BY <2>2, <2>3, <2>4
<1>6. Exact(ReapedTasks(t), ReapedAttempts(t), ReapedLiveClaims(t))
  BY <1>1, ReapExact DEF CountInv
<1>7. Exact(tasks', attempts', operatorLiveClaims')
  BY <1>3, <1>5, <1>6, ExactAs
<1> QED BY <1>7, ExactIs

\* Claiming an evaluation reaps, and counts nothing of its own.
LEMMA ClaimEvaluationCounts ==
  ASSUME CountInv, NEW t \in Tasks, NEW i \in AttemptIndices, NEW o, NEW d,
         CoordClaimEvaluation(t, i, o, d)
  PROVE  CountersExact'
<1> DEFINE a == <<t, i>>
<1>1. CoordTypeOK /\ a \in AttemptKeys
  BY DEF CountInv, LedgerInv, PaidInv, ConservationInv, TypeOK, AttemptKeys
<1>2. ReapedAttempts(t) \in [AttemptKeys -> AttemptType]
  BY <1>1, ReapedTypes DEF CoordClaimEvaluation
<1>3. /\ attempts' = [ReapedAttempts(t) EXCEPT ![a].nextVerdictIndex = @ + 1]
      /\ tasks' = ReapedTasks(t) /\ operatorLiveClaims' = ReapedLiveClaims(t)
  BY DEF CoordClaimEvaluation
<1>4. \A k \in AttemptKeys :
        /\ attempts'[k].status = ReapedAttempts(t)[k].status
        /\ attempts'[k].operator = ReapedAttempts(t)[k].operator
  BY <1>1, <1>2, <1>3 DEF AttemptType
<1>5. Exact(ReapedTasks(t), ReapedAttempts(t), ReapedLiveClaims(t))
  BY <1>1, ReapExact DEF CountInv
<1>6. Exact(tasks', attempts', operatorLiveClaims')
  BY <1>3, <1>4, <1>5, ExactAs
<1> QED BY <1>6, ExactIs

\* claimTask adds one Live attempt where there is room for it.
LEMMA ClaimTaskCounts ==
  ASSUME CountInv, NEW t \in Tasks, NEW o \in Accounts, NEW d \in Nat,
         tasks[t].nextAttemptIndex \in AttemptIndices, CoordClaimTask(t, o, d),
         CoordTypeOK'
  PROVE  CountersExact'
<1> DEFINE i == tasks[t].nextAttemptIndex
           k == <<t, i>>
           T == ReapedTasks(t)
           A == ReapedAttempts(t)
           L == ReapedLiveClaims(t)
           new == [NoAttempt EXCEPT !.operator = o, !.deadline = d,
                     !.claimedAt = now, !.status = "Live"]
<1>1. /\ CoordTypeOK /\ BeyondIndices /\ k \in AttemptKeys /\ k[1] = t
      /\ k[2] = i /\ i \in Nat
  BY CoordinatorAssumption DEF CountInv, LedgerInv, PaidInv, ConservationInv,
     TypeOK, AttemptKeys, AttemptIndices
<1>2. /\ T \in [Tasks -> TaskType] /\ A \in [AttemptKeys -> AttemptType]
      /\ L \in [Accounts -> Nat]
      /\ tasks' \in [Tasks -> TaskType] /\ operatorLiveClaims' \in [Accounts -> Nat]
  BY <1>1, ReapedTypes DEF CoordClaimTask, CoordTypeOK
<1>3. /\ tasks' = [T EXCEPT ![t].nextAttemptIndex = @ + 1,
                            ![t].liveOccupancy = @ + 1]
      /\ attempts' = [A EXCEPT ![k] = new]
      /\ operatorLiveClaims' = [L EXCEPT ![o] = @ + 1]
      /\ T[t].liveOccupancy < tasks[t].policy.maxConcurrent
      /\ MaxSimultaneousClaims # 0 => L[o] < MaxSimultaneousClaims
  BY DEF CoordClaimTask, HasCapacity
<1>4. A[k].status = "None"
  <2>1. k[2] >= tasks[k[1]].nextAttemptIndex
    BY <1>1
  <2>2. attempts[k].status = "None"
    BY <1>1, <2>1 DEF BeyondIndices
  <2> QED BY <1>1, <2>2, ReapKeeps
<1>5. attempts'[k] = new /\ new.status = "Live" /\ new.operator = o
  BY <1>1, <1>2, <1>3 DEF NoAttempt
<1>6. T[t].policy = tasks[t].policy
  BY <1>1 DEF ReapedTasks, CoordTypeOK, TaskType
<1>7. /\ tasks'[t].liveOccupancy = T[t].liveOccupancy + 1
      /\ tasks'[t].settledAttemptCount = T[t].settledAttemptCount
      /\ tasks'[t].finalizedAttemptCount = T[t].finalizedAttemptCount
      /\ tasks'[t].creatorCredited = T[t].creatorCredited
      /\ tasks'[t].policy = T[t].policy
      /\ \A u \in Tasks : u # t => tasks'[u] = T[u]
  BY <1>2, <1>3 DEF TaskType
<1>8. Exact(T, A, L)
  BY <1>1, ReapExact DEF CountInv
<1>9. \A j \in AttemptKeys : j # k => attempts'[j] = A[j]
  BY <1>2, <1>3
<1>10. T[t].liveOccupancy \in Nat /\ tasks[t].policy.maxConcurrent \in Nat
       /\ T[t].settledAttemptCount \in Nat /\ T[t].finalizedAttemptCount \in Nat
  BY <1>1, <1>2 DEF TaskType, CoordTypeOK, PolicyType
<1> HIDE DEF T, A, L, k, new
<1>11. /\ tasks'[t].liveOccupancy <= tasks'[t].policy.maxConcurrent
       /\ tasks'[t].liveOccupancy + One(A[k].status = "Live")
            = T[t].liveOccupancy + One(attempts'[k].status = "Live")
  BY <1>3, <1>4, <1>5, <1>6, <1>7, <1>10 DEF One
<1>12. \A q \in Accounts :
         /\ operatorLiveClaims'[q] + One(A[k].status = "Live" /\ A[k].operator = q)
              = L[q] + One(attempts'[k].status = "Live" /\ attempts'[k].operator = q)
         /\ MaxSimultaneousClaims # 0 =>
              operatorLiveClaims'[q] <= MaxSimultaneousClaims
  <2> SUFFICES ASSUME NEW q \in Accounts
               PROVE  /\ operatorLiveClaims'[q] = L[q] + One(o = q)
                      /\ MaxSimultaneousClaims # 0 =>
                           operatorLiveClaims'[q] <= MaxSimultaneousClaims
    BY <1>2, <1>4, <1>5 DEF One
  <2>1. operatorLiveClaims'[q] = IF q = o THEN L[o] + 1 ELSE L[q]
    BY <1>2, <1>3
  <2>2. MaxSimultaneousClaims # 0 => L[q] <= MaxSimultaneousClaims
    BY <1>8 DEF Exact, ExactOperator
  <2>3. L[q] \in Nat /\ MaxSimultaneousClaims \in Nat
    BY <1>2, CoordinatorAssumption
  <2> QED BY <1>3, <2>1, <2>2, <2>3 DEF One
<1>13. /\ tasks'[t].settledAttemptCount
              + One(A[k].status \in {"Submitted", "Finalized"})
            = T[t].settledAttemptCount
              + One(attempts'[k].status \in {"Submitted", "Finalized"})
       /\ tasks'[t].finalizedAttemptCount + One(A[k].status = "Finalized")
            = T[t].finalizedAttemptCount + One(attempts'[k].status = "Finalized")
       /\ tasks'[t].creatorCredited <=>
            T[t].creatorCredited \/ attempts'[k].status = "Finalized"
       /\ A[k].status = "Finalized" => attempts'[k].status = "Finalized"
  BY <1>4, <1>5, <1>7, <1>10 DEF One
<1>14. Follows(T, tasks', A, attempts', L, operatorLiveClaims', k)
  BY <1>1, <1>2, <1>7, <1>9, <1>11, <1>12, <1>13 DEF Follows
<1>15. Exact(tasks', attempts', operatorLiveClaims')
  BY <1>1, <1>8, <1>14, ExactChange
<1> QED BY <1>15, ExactIs

\* An attempt that ends while Live gives its occupancy back, once.
LEMMA FreeExact ==
  ASSUME NEW T \in [Tasks -> TaskType], NEW A \in [AttemptKeys -> AttemptType],
         NEW L \in [Accounts -> Nat], NEW k \in AttemptKeys, NEW o,
         NEW st \in {"Released", "Forfeited"}, Exact(T, A, L),
         A[k].status = "Live", A[k].operator = o,
         T[k[1]].liveOccupancy >= 1, L[o] >= 1
  PROVE  Exact([T EXCEPT ![k[1]].liveOccupancy = @ - 1],
               [A EXCEPT ![k].status = st], [L EXCEPT ![o] = @ - 1])
<1> DEFINE t == k[1]
           T2 == [T EXCEPT ![t].liveOccupancy = @ - 1]
           A2 == [A EXCEPT ![k].status = st]
           L2 == [L EXCEPT ![o] = @ - 1]
<1>1. t \in Tasks
  BY KeySlots
<1>2. T2 \in [Tasks -> TaskType]
  BY <1>1, FreedTypes
<1>3. /\ T2[t].liveOccupancy = T[t].liveOccupancy - 1
      /\ T2[t].settledAttemptCount = T[t].settledAttemptCount
      /\ T2[t].finalizedAttemptCount = T[t].finalizedAttemptCount
      /\ T2[t].creatorCredited = T[t].creatorCredited
      /\ T2[t].policy = T[t].policy
      /\ \A u \in Tasks : u # t => T2[u] = T[u]
  BY <1>1 DEF TaskType
<1>4. /\ A2[k].status = st
      /\ \A j \in AttemptKeys : j # k => A2[j] = A[j]
  BY DEF AttemptType
<1>5. /\ \A q \in Accounts : L2[q] = IF q = o THEN L[q] - 1 ELSE L[q]
      /\ L2 \in [Accounts -> Nat]
  <2>1. o \in Accounts => L[o] - 1 \in Nat
    OBVIOUS
  <2>2. L2 = [q \in Accounts |-> IF q = o THEN L[o] - 1 ELSE L[q]]
    OBVIOUS
  <2> HIDE DEF L2
  <2> QED BY <2>1, <2>2
<1>6. /\ T[t].liveOccupancy \in Nat /\ T[t].policy.maxConcurrent \in Nat
      /\ T[t].settledAttemptCount \in Nat /\ T[t].finalizedAttemptCount \in Nat
  BY <1>1 DEF TaskType, PolicyType
<1>7. T[t].liveOccupancy <= T[t].policy.maxConcurrent
  BY <1>1 DEF Exact, ExactTask
<1> HIDE DEF T2, A2, L2, t
<1>8. /\ T2[t].liveOccupancy <= T2[t].policy.maxConcurrent
      /\ T2[t].liveOccupancy + One(A[k].status = "Live")
           = T[t].liveOccupancy + One(A2[k].status = "Live")
  BY <1>3, <1>4, <1>6, <1>7 DEF One
<1>9. ASSUME NEW q \in Accounts
      PROVE  /\ L2[q] + One(A[k].status = "Live" /\ A[k].operator = q)
                  = L[q] + One(A2[k].status = "Live" /\ A2[k].operator = q)
             /\ MaxSimultaneousClaims # 0 => L2[q] <= MaxSimultaneousClaims
  <2>1. /\ L[q] \in Nat /\ MaxSimultaneousClaims \in Nat
        /\ L2[q] = IF q = o THEN L[q] - 1 ELSE L[q]
    BY <1>5, CoordinatorAssumption
  <2>2. MaxSimultaneousClaims # 0 => L[q] <= MaxSimultaneousClaims
    BY DEF Exact, ExactOperator
  <2>3. /\ One(A[k].status = "Live" /\ A[k].operator = q) = One(q = o)
        /\ One(A2[k].status = "Live" /\ A2[k].operator = q) = 0
    BY <1>4 DEF One
  <2>4. L2[q] + One(q = o) = L[q]
    BY <2>1 DEF One
  <2> QED BY <2>1, <2>2, <2>3, <2>4
<1>10. /\ T2[t].settledAttemptCount + One(A[k].status \in {"Submitted", "Finalized"})
            = T[t].settledAttemptCount + One(A2[k].status \in {"Submitted", "Finalized"})
       /\ T2[t].finalizedAttemptCount + One(A[k].status = "Finalized")
            = T[t].finalizedAttemptCount + One(A2[k].status = "Finalized")
       /\ T2[t].creatorCredited <=> T[t].creatorCredited \/ A2[k].status = "Finalized"
       /\ A[k].status = "Finalized" => A2[k].status = "Finalized"
  BY <1>3, <1>4, <1>6 DEF One
<1>11. Follows(T, T2, A, A2, L, L2, k)
  BY <1>2, <1>3, <1>4, <1>5, <1>8, <1>9, <1>10 DEF Follows, t
<1>12. Exact(T2, A2, L2)
  BY <1>11, ExactChange
<1> QED BY <1>12 DEF T2, A2, L2, t

\* releaseAttempt ends a Live attempt of its operator, after reaping.
LEMMA ReleaseAttemptCounts ==
  ASSUME CountInv, NEW t \in Tasks, NEW i \in AttemptIndices, NEW o,
         CoordReleaseAttempt(t, i, o)
  PROVE  CountersExact'
<1> DEFINE k == <<t, i>>
           T == ReapedTasks(t)
           A == ReapedAttempts(t)
           L == ReapedLiveClaims(t)
<1>1. /\ CoordTypeOK /\ k \in AttemptKeys /\ k[1] = t
      /\ T \in [Tasks -> TaskType] /\ A \in [AttemptKeys -> AttemptType]
      /\ L \in [Accounts -> Nat]
  BY ReapedTypes DEF CountInv, LedgerInv, PaidInv, ConservationInv, TypeOK,
     CoordReleaseAttempt, AttemptKeys
<1>2. /\ tasks' = [T EXCEPT ![t].liveOccupancy = @ - 1]
      /\ attempts' = [A EXCEPT ![k].status = "Released"]
      /\ operatorLiveClaims' = [L EXCEPT ![o] = @ - 1]
      /\ T[t].liveOccupancy >= 1 /\ L[o] >= 1
      /\ A[k].status = "Live" /\ attempts[k].operator = o
  BY DEF CoordReleaseAttempt
<1>3. A[k].operator = o
  BY <1>1, <1>2 DEF ReapedAttempts, CoordTypeOK, AttemptType
<1>4. Exact(T, A, L)
  BY <1>1, ReapExact DEF CountInv
<1> HIDE DEF T, A, L, k
<1>5. Exact(tasks', attempts', operatorLiveClaims')
  BY <1>1, <1>2, <1>3, <1>4, FreeExact
<1> QED BY <1>5, ExactIs

\* forfeitAttempt gives occupancy back when it ends a Live attempt, and not
\* when reapExpired already has.
LEMMA ForfeitAttemptCounts ==
  ASSUME CountInv, NEW t \in Tasks, NEW i \in AttemptIndices,
         CoordForfeitAttempt(t, i)
  PROVE  CountersExact'
<1> DEFINE k == <<t, i>>
           o == attempts[k].operator
<1>1. /\ k \in AttemptKeys /\ k[1] = t
      /\ tasks \in [Tasks -> TaskType] /\ attempts \in [AttemptKeys -> AttemptType]
      /\ operatorLiveClaims \in [Accounts -> Nat]
      /\ Exact(tasks, attempts, operatorLiveClaims)
  BY ExactIs DEF CountInv, LedgerInv, PaidInv, ConservationInv, TypeOK,
     CoordTypeOK, AttemptKeys
<1>2. attempts' = [attempts EXCEPT ![k].status = "Forfeited"]
  BY DEF CoordForfeitAttempt
<1>3. CASE attempts[k].status = "Live"
  <2>1. /\ tasks[t].liveOccupancy >= 1 /\ operatorLiveClaims[o] >= 1
        /\ tasks' = [tasks EXCEPT ![t].liveOccupancy = @ - 1]
        /\ operatorLiveClaims' = [operatorLiveClaims EXCEPT ![o] = @ - 1]
    BY <1>3 DEF CoordForfeitAttempt
  <2> HIDE DEF k
  <2>2. Exact(tasks', attempts', operatorLiveClaims')
    BY <1>1, <1>2, <1>3, <2>1, FreeExact
  <2> QED BY <2>2, ExactIs
<1>4. CASE attempts[k].status = "Expired"
  <2>1. UNCHANGED <<tasks, operatorLiveClaims>>
    BY <1>4 DEF CoordForfeitAttempt
  <2>2. \A u, st : st \in {{"Live"}, {"Submitted", "Finalized"}, {"Finalized"}} =>
          InStatus(attempts', u, st) = InStatus(attempts, u, st)
    BY <1>1, <1>2, <1>4 DEF InStatus, AttemptType
  <2>3. \A q : LiveBy(attempts', q) = LiveBy(attempts, q)
    BY <1>1, <1>2, <1>4 DEF LiveBy, AttemptType
  <2>4. Exact(tasks', attempts', operatorLiveClaims')
    BY <1>1, <2>1, <2>2, <2>3 DEF Exact, ExactTask, ExactOperator
  <2> QED BY <2>4, ExactIs
<1> QED BY <1>3, <1>4 DEF CoordForfeitAttempt

\* _maybeMarkCapacityExhausted keeps a task's counters and policy.
LEMMA MarkCapacityCounts ==
  ASSUME NEW r \in TaskType
  PROVE  /\ MarkCapacity(r).liveOccupancy = r.liveOccupancy
         /\ MarkCapacity(r).settledAttemptCount = r.settledAttemptCount
         /\ MarkCapacity(r).finalizedAttemptCount = r.finalizedAttemptCount
         /\ MarkCapacity(r).creatorCredited = r.creatorCredited
         /\ MarkCapacity(r).creator = r.creator
         /\ MarkCapacity(r).policy = r.policy
  BY DEF MarkCapacity, TaskType

\* recordSolutionDelivery turns occupancy into a settled attempt.
LEMMA RecordSolutionCounts ==
  ASSUME CountInv, NEW t \in Tasks, NEW i \in AttemptIndices, NEW o, NEW p,
         CoordRecordSolutionDelivery(t, i, o, p), CoordTypeOK'
  PROVE  CountersExact'
<1> DEFINE k == <<t, i>>
           r == [tasks[t] EXCEPT
                   !.liveOccupancy = tasks[t].liveOccupancy - 1,
                   !.settledAttemptCount = tasks[t].settledAttemptCount + 1]
<1>1. /\ k \in AttemptKeys /\ k[1] = t
      /\ tasks \in [Tasks -> TaskType] /\ attempts \in [AttemptKeys -> AttemptType]
      /\ operatorLiveClaims \in [Accounts -> Nat]
      /\ Exact(tasks, attempts, operatorLiveClaims)
      /\ tasks' \in [Tasks -> TaskType] /\ operatorLiveClaims' \in [Accounts -> Nat]
  BY ExactIs DEF CountInv, LedgerInv, PaidInv, ConservationInv, TypeOK,
     CoordTypeOK, AttemptKeys
<1>2. /\ attempts[k].status = "Live" /\ attempts[k].operator = o
      /\ tasks[t].liveOccupancy >= 1 /\ operatorLiveClaims[o] >= 1
      /\ attempts' = [attempts EXCEPT ![k].digest = p, ![k].status = "Submitted"]
      /\ tasks' = [tasks EXCEPT ![t] = MarkCapacity(r)]
      /\ operatorLiveClaims' = [operatorLiveClaims EXCEPT ![o] = @ - 1]
  BY <1>1 DEF CoordRecordSolutionDelivery
<1>3. /\ tasks[t].liveOccupancy \in Nat /\ tasks[t].policy.maxConcurrent \in Nat
      /\ tasks[t].settledAttemptCount \in Nat
      /\ tasks[t].finalizedAttemptCount \in Nat
  BY <1>1 DEF TaskType, PolicyType
<1>4. /\ r \in TaskType
      /\ r.liveOccupancy = tasks[t].liveOccupancy - 1
      /\ r.settledAttemptCount = tasks[t].settledAttemptCount + 1
      /\ r.finalizedAttemptCount = tasks[t].finalizedAttemptCount
      /\ r.creatorCredited = tasks[t].creatorCredited
      /\ r.policy = tasks[t].policy
  <2>1. tasks[t] \in TaskType /\ tasks[t].liveOccupancy - 1 \in Nat
          /\ tasks[t].settledAttemptCount + 1 \in Nat
    BY <1>1, <1>2, <1>3
  <2> QED BY <2>1, TaskUpdates DEF TaskType
<1>5. /\ tasks'[t].liveOccupancy = tasks[t].liveOccupancy - 1
      /\ tasks'[t].settledAttemptCount = tasks[t].settledAttemptCount + 1
      /\ tasks'[t].finalizedAttemptCount = tasks[t].finalizedAttemptCount
      /\ tasks'[t].creatorCredited = tasks[t].creatorCredited
      /\ tasks'[t].policy = tasks[t].policy
      /\ \A u \in Tasks : u # t => tasks'[u] = tasks[u]
  <2>1. tasks'[t] = MarkCapacity(r) /\ \A u \in Tasks : u # t => tasks'[u] = tasks[u]
    BY <1>1, <1>2
  <2> HIDE DEF r
  <2> QED BY <1>4, <2>1, MarkCapacityCounts
<1>6. /\ attempts'[k].status = "Submitted"
      /\ \A j \in AttemptKeys : j # k => attempts'[j] = attempts[j]
  BY <1>1, <1>2 DEF AttemptType
<1>7. tasks[t].liveOccupancy <= tasks[t].policy.maxConcurrent
  BY <1>1 DEF Exact, ExactTask
<1> HIDE DEF k, r
<1>8. /\ tasks'[t].liveOccupancy <= tasks'[t].policy.maxConcurrent
      /\ tasks'[t].liveOccupancy + One(attempts[k].status = "Live")
           = tasks[t].liveOccupancy + One(attempts'[k].status = "Live")
  BY <1>2, <1>3, <1>5, <1>6, <1>7 DEF One
<1>9. ASSUME NEW q \in Accounts
      PROVE  LET L == operatorLiveClaims
                 L2 == operatorLiveClaims' IN
             /\ L2[q] + One(attempts[k].status = "Live" /\ attempts[k].operator = q)
                  = L[q] + One(attempts'[k].status = "Live" /\ attempts'[k].operator = q)
             /\ MaxSimultaneousClaims # 0 => L2[q] <= MaxSimultaneousClaims
  <2>1. /\ operatorLiveClaims[q] \in Nat /\ MaxSimultaneousClaims \in Nat
        /\ operatorLiveClaims'[q] = IF q = o THEN operatorLiveClaims[q] - 1
                                             ELSE operatorLiveClaims[q]
    BY <1>1, <1>2, CoordinatorAssumption
  <2>2. MaxSimultaneousClaims # 0 => operatorLiveClaims[q] <= MaxSimultaneousClaims
    BY <1>1 DEF Exact, ExactOperator
  <2>3. /\ One(attempts[k].status = "Live" /\ attempts[k].operator = q) = One(q = o)
        /\ One(attempts'[k].status = "Live" /\ attempts'[k].operator = q) = 0
    BY <1>2, <1>6 DEF One
  <2>4. operatorLiveClaims'[q] + One(q = o) = operatorLiveClaims[q]
    BY <2>1 DEF One
  <2> QED BY <2>1, <2>2, <2>3, <2>4
<1>10. /\ tasks'[t].settledAttemptCount
              + One(attempts[k].status \in {"Submitted", "Finalized"})
            = tasks[t].settledAttemptCount
              + One(attempts'[k].status \in {"Submitted", "Finalized"})
       /\ tasks'[t].finalizedAttemptCount + One(attempts[k].status = "Finalized")
            = tasks[t].finalizedAttemptCount + One(attempts'[k].status = "Finalized")
       /\ tasks'[t].creatorCredited <=>
            tasks[t].creatorCredited \/ attempts'[k].status = "Finalized"
       /\ attempts[k].status = "Finalized" => attempts'[k].status = "Finalized"
  BY <1>2, <1>3, <1>5, <1>6 DEF One
<1>11. Follows(tasks, tasks', attempts, attempts', operatorLiveClaims,
               operatorLiveClaims', k)
  BY <1>1, <1>5, <1>6, <1>8, <1>9, <1>10 DEF Follows
<1>12. Exact(tasks', attempts', operatorLiveClaims')
  BY <1>1, <1>11, ExactChange
<1> QED BY <1>12, ExactIs

\* recordVerdict finalizes a submitted attempt at its quorum, or counts nothing.
LEMMA RecordVerdictCounts ==
  ASSUME CountInv, NEW v \in VerdictKeys, NEW e, NEW p,
         CoordRecordVerdict(v, e, p), CoordTypeOK'
  PROVE  CountersExact'
<1> DEFINE t == v[1]
           k == <<v[1], v[2]>>
           r == [tasks[t] EXCEPT
                   !.finalizedAttemptCount = tasks[t].finalizedAttemptCount + 1,
                   !.creatorCredited = TRUE]
<1>1. /\ t \in Tasks /\ k \in AttemptKeys /\ k[1] = t
      /\ tasks \in [Tasks -> TaskType] /\ attempts \in [AttemptKeys -> AttemptType]
      /\ operatorLiveClaims \in [Accounts -> Nat]
      /\ Exact(tasks, attempts, operatorLiveClaims)
      /\ tasks' \in [Tasks -> TaskType]
  BY ExactIs DEF CountInv, LedgerInv, PaidInv, ConservationInv, TypeOK,
     CoordTypeOK, AttemptKeys, VerdictKeys
<1>2. /\ attempts' = [attempts EXCEPT
                        ![k].deliveredVerdictCount = @ + 1,
                        ![k].status = IF Finalizes(v) THEN "Finalized" ELSE @]
      /\ tasks' = IF Finalizes(v) THEN [tasks EXCEPT ![t] = MarkCapacity(r)]
                                  ELSE tasks
      /\ operatorLiveClaims' = operatorLiveClaims
      /\ Finalizes(v) => attempts[k].status = "Submitted"
  BY <1>1 DEF CoordRecordVerdict, Finalizes
<1>3. /\ attempts'[k].status = IF Finalizes(v) THEN "Finalized"
                                               ELSE attempts[k].status
      /\ \A j \in AttemptKeys : attempts'[j].operator = attempts[j].operator
      /\ \A j \in AttemptKeys : j # k => attempts'[j] = attempts[j]
  <2> HIDE DEF k
  <2> QED BY <1>1, <1>2 DEF AttemptType
<1>4. CASE ~Finalizes(v)
  <2>1. /\ tasks' = tasks
        /\ \A j \in AttemptKeys : attempts'[j].status = attempts[j].status
    BY <1>2, <1>3, <1>4
  <2>2. Exact(tasks', attempts', operatorLiveClaims)
    BY <1>1, <1>3, <2>1, ExactAs
  <2> QED BY <1>2, <2>2, ExactIs
<1>5. CASE Finalizes(v)
  <2>1. /\ tasks[t].liveOccupancy \in Nat
        /\ tasks[t].settledAttemptCount \in Nat
        /\ tasks[t].finalizedAttemptCount \in Nat
    BY <1>1 DEF TaskType
  <2>2. /\ r \in TaskType
        /\ r.liveOccupancy = tasks[t].liveOccupancy
        /\ r.settledAttemptCount = tasks[t].settledAttemptCount
        /\ r.finalizedAttemptCount = tasks[t].finalizedAttemptCount + 1
        /\ r.creatorCredited = TRUE
        /\ r.policy = tasks[t].policy
    <3>1. tasks[t] \in TaskType /\ tasks[t].finalizedAttemptCount + 1 \in Nat
      BY <1>1, <2>1
    <3> HIDE DEF t
    <3> QED BY <3>1, TaskUpdates DEF TaskType
  <2>3. /\ tasks'[t].liveOccupancy = tasks[t].liveOccupancy
        /\ tasks'[t].settledAttemptCount = tasks[t].settledAttemptCount
        /\ tasks'[t].finalizedAttemptCount = tasks[t].finalizedAttemptCount + 1
        /\ tasks'[t].creatorCredited = TRUE
        /\ tasks'[t].policy = tasks[t].policy
        /\ \A u \in Tasks : u # t => tasks'[u] = tasks[u]
    <3> HIDE DEF r, t
    <3>1. tasks'[t] = MarkCapacity(r) /\ \A u \in Tasks : u # t => tasks'[u] = tasks[u]
      BY <1>1, <1>2, <1>5
    <3> QED BY <2>2, <3>1, MarkCapacityCounts
  <2>4. /\ tasks[t].liveOccupancy <= tasks[t].policy.maxConcurrent
        /\ \A q \in Accounts : MaxSimultaneousClaims # 0 =>
             operatorLiveClaims[q] <= MaxSimultaneousClaims
    BY <1>1 DEF Exact, ExactTask, ExactOperator
  <2> HIDE DEF t, k, r
  <2>5. attempts[k].status = "Submitted" /\ attempts'[k].status = "Finalized"
    BY <1>2, <1>3, <1>5
  <2>6. /\ tasks'[t].liveOccupancy <= tasks'[t].policy.maxConcurrent
        /\ tasks'[t].liveOccupancy + One(attempts[k].status = "Live")
             = tasks[t].liveOccupancy + One(attempts'[k].status = "Live")
        /\ tasks'[t].settledAttemptCount
               + One(attempts[k].status \in {"Submitted", "Finalized"})
             = tasks[t].settledAttemptCount
               + One(attempts'[k].status \in {"Submitted", "Finalized"})
    BY <2>1, <2>3, <2>4, <2>5 DEF One
  <2>7. /\ tasks'[t].finalizedAttemptCount + One(attempts[k].status = "Finalized")
             = tasks[t].finalizedAttemptCount + One(attempts'[k].status = "Finalized")
        /\ tasks'[t].creatorCredited <=>
             tasks[t].creatorCredited \/ attempts'[k].status = "Finalized"
    BY <2>1, <2>3, <2>5 DEF One
  <2>8. ASSUME NEW q \in Accounts
        PROVE  One(attempts[k].status = "Live" /\ attempts[k].operator = q)
                 = One(attempts'[k].status = "Live" /\ attempts'[k].operator = q)
    BY <2>5 DEF One
  <2>9. Follows(tasks, tasks', attempts, attempts', operatorLiveClaims,
                operatorLiveClaims', k)
    BY <1>1, <1>2, <1>3, <2>3, <2>4, <2>5, <2>6, <2>7, <2>8 DEF Follows
  <2>10. Exact(tasks', attempts', operatorLiveClaims')
    BY <1>1, <2>9, ExactChange
  <2> QED BY <2>10, ExactIs
<1> QED BY <1>4, <1>5

-----------------------------------------------------------------------------
(* The counters over a step *)

\* Steps that leave the coordinator's storage alone, or only verdicts.
LEMMA StorageKeptCounts ==
  ASSUME CountersExact, UNCHANGED <<tasks, attempts, operatorLiveClaims>>
  PROVE  CountersExact'
<1>1. \A t, st : AttemptsOf(t, st)' = AttemptsOf(t, st)
  BY DEF AttemptsOf
<1> QED BY <1>1 DEF CountersExact

\* The invariant behind CountersAreExact is inductive.
LEMMA StepCounts == CountInv /\ [Next]_vars => CountInv'
<1> SUFFICES ASSUME CountInv, [Next]_vars PROVE CountersExact'
  BY StepLedger DEF CountInv
<1>1. /\ TypeOK /\ EscrowOK /\ CoordTypeOK /\ CoordTypeOK'
  BY TypeOKParts, StepTypeOK
     DEF CountInv, LedgerInv, PaidInv, ConservationInv, TypeOK
<1>2. ASSUME NEW t \in Tasks, CreatorStep(t) PROVE CountersExact'
  <2>1. \A n \in 1..MaxAttempts : n \in Nat
    BY CoordinatorAssumption
  <2> QED BY <1>2, <2>1, ReapCounts
             DEF CreatorStep, addAttempts, closeTask, refundUnusedTaskBudget
<1>3. ASSUME NEW t \in Tasks, ClaimStep(t) PROVE CountersExact'
  <2>1. now + tasks[t].policy.responseTimeout \in Nat
    BY <1>1, DeadlineNat
  <2> QED BY <1>1, <1>3, <2>1, ClaimTaskCounts, ClaimEvaluationCounts
             DEF ClaimStep, claimTask, claimEvaluation
<1>4. ASSUME DeliveryStep PROVE CountersExact'
  <2>1. ASSUME NEW s, NEW p, Prepare(s, p) PROVE CountersExact'
    BY <2>1, StorageKeptCounts DEF CountInv, Prepare, coordVars
  <2>2. ASSUME NEW s, deliverMarketplaceWithSignatures(s) PROVE CountersExact'
    BY <2>2, StorageKeptCounts
       DEF CountInv, deliverMarketplaceWithSignatures, coordVars
  <2>3. ASSUME NEW req \in delivered, claimSolutionDelivery(req)
        PROVE  CountersExact'
    <3>1. /\ CanClaimDelivery(req.slot, req)
          /\ CoordRecordSolutionDelivery(req.slot[1], req.slot[2],
               reservations[req.slot].party, req.payload)
      BY <2>3 DEF claimSolutionDelivery
    <3>2. req.slot[1] \in Tasks /\ req.slot[2] \in AttemptIndices
      BY <1>1, <3>1, ClaimableSlot, SlotParts
    <3> QED BY <1>1, <3>1, <3>2, RecordSolutionCounts
  <2>4. ASSUME NEW req \in delivered, claimVerdictDelivery(req)
        PROVE  CountersExact'
    <3>1. /\ CanClaimDelivery(req.slot, req) /\ req.slot[3] # 0
          /\ CoordRecordVerdict(req.slot, reservations[req.slot].party,
               req.payload)
      BY <2>4 DEF claimVerdictDelivery
    <3>2. req.slot \in VerdictKeys
      BY <1>1, <3>1, ClaimableSlot, SlotParts
    <3> QED BY <1>1, <3>1, <3>2, RecordVerdictCounts
  <2> QED BY <1>4, <2>1, <2>2, <2>3, <2>4
             DEF DeliveryStep, prepareSolutionDelivery, prepareVerdictDelivery
<1>5. ASSUME ExitStep PROVE CountersExact'
  <2>1. ASSUME NEW k \in AttemptKeys, releaseAttempt(k[1], k[2])
        PROVE  CountersExact'
    BY <2>1, KeySlots, ReleaseAttemptCounts DEF releaseAttempt
  <2>2. ASSUME NEW k \in VerdictKeys, releaseVerdict(k) PROVE CountersExact'
    <3>1. k[1] \in Tasks
      BY DEF VerdictKeys
    <3> QED BY <2>2, <3>1, ReapCounts DEF releaseVerdict
  <2>3. ASSUME NEW s \in Slots, NEW c, forfeitSolution(s, c)
        PROVE  CountersExact'
    BY <2>3, SlotParts, ForfeitAttemptCounts DEF forfeitSolution
  <2>4. ASSUME NEW s \in Slots, NEW c, forfeitVerdict(s, c)
        PROVE  CountersExact'
    BY <2>4, StorageKeptCounts DEF CountInv, forfeitVerdict, CoordForfeitVerdict
  <2> QED BY <1>5, <2>1, <2>2, <2>3, <2>4 DEF ExitStep
<1>6. ASSUME OwnerStep \/ Tick \/ UNCHANGED vars PROVE CountersExact'
  <2>1. UNCHANGED coordVars
    BY <1>6, OtherStepKeeps
  <2> QED BY <2>1, StorageKeptCounts DEF CountInv, coordVars
<1>7. ASSUME NEW t \in Tasks, NEW c \in Accounts, NEW p \in Policies,
             NEW r1 \in Rates, NEW r2 \in Rates, createTask(t, c, p, r1, r2)
      PROVE  CountersExact'
  BY <1>7, CreateTaskCounts DEF createTask
<1> QED BY <1>2, <1>3, <1>4, <1>5, <1>6, <1>7 DEF Next

\* Deployment satisfies CountInv: there is nothing to count.
LEMMA InitCounts == Init => CountInv
<1> SUFFICES ASSUME Init PROVE CountersExact
  BY InitLedger DEF CountInv
<1>1. /\ tasks = [t \in Tasks |-> NoTask]
      /\ attempts = [k \in AttemptKeys |-> NoAttempt]
      /\ operatorLiveClaims = [o \in Accounts |-> 0]
  BY DEF Init, CoordInit
<1>2. \A k \in AttemptKeys : attempts[k].status = "None"
  BY <1>1 DEF NoAttempt
<1>3. /\ \A t : /\ InStatus(attempts, t, {"Live"}) = {}
                /\ InStatus(attempts, t, {"Submitted", "Finalized"}) = {}
                /\ InStatus(attempts, t, {"Finalized"}) = {}
      /\ \A o : LiveBy(attempts, o) = {}
  BY <1>2 DEF InStatus, LiveBy
<1>4. Cardinality({}) = 0
  BY FS_EmptySet
<1>5. ASSUME NEW t \in Tasks PROVE ExactTask(tasks, attempts, t)
  <2>1. /\ tasks[t].liveOccupancy = 0 /\ tasks[t].policy.maxConcurrent = 0
        /\ tasks[t].settledAttemptCount = 0 /\ tasks[t].finalizedAttemptCount = 0
        /\ tasks[t].creatorCredited = FALSE
    BY <1>1 DEF NoTask, NoPolicy
  <2> QED BY <1>3, <1>4, <2>1 DEF ExactTask
<1>6. \A o \in Accounts : ExactOperator(attempts, operatorLiveClaims, o)
  BY <1>1, <1>3, <1>4, CoordinatorAssumption DEF ExactOperator
<1> QED BY <1>5, <1>6, ExactIs DEF Exact

\* In every reachable state the coordinator's counters are exact: whichever of
\* settlement, release, expiry and forfeit ends an attempt, its occupancy is
\* given back exactly once, on its task and to its operator, and neither the
\* task's concurrency nor the operator's limit is exceeded.
THEOREM CountersAreExact == Spec => []CountersExact
<1>1. CountInv => CountersExact
  BY DEF CountInv
<1> QED BY <1>1, InitCounts, StepCounts, PTL DEF Spec

-----------------------------------------------------------------------------
(* Steps that deliver no verdict *)

\* An attempt is not finalized, its operator and its verdict count stand.
AttemptQuiet(k) ==
  /\ attempts[k].status # "None" =>
       /\ attempts'[k].operator = attempts[k].operator
       /\ attempts'[k].deliveredVerdictCount = attempts[k].deliveredVerdictCount
  /\ attempts[k].status = "None" =>
       /\ attempts'[k].deliveredVerdictCount
            \in {0, attempts[k].deliveredVerdictCount}
       /\ attempts'[k].status \in {"None", "Live"}
       /\ attempts'[k].status = "Live" => attempts'[k].operator \in Accounts
  /\ attempts'[k].status = "Finalized" <=> attempts[k].status = "Finalized"
  /\ attempts'[k].status = "Submitted" => attempts[k].status \in {"Live", "Submitted"}

\* A verdict is not delivered, and its evaluator stands.
VerdictQuiet(v) ==
  /\ verdicts'[v].status = "Delivered" <=> verdicts[v].status = "Delivered"
  /\ verdicts[v].status # "None" =>
       verdicts'[v].evaluator = verdicts[v].evaluator

\* A task keeps its creator, its quorum and whether its creator was credited;
\* a new one asks for a quorum.
TaskQuiet(t) ==
  /\ t < nextTaskId =>
       /\ tasks'[t].creator = tasks[t].creator
       /\ tasks'[t].policy.minVerdicts = tasks[t].policy.minVerdicts
       /\ tasks'[t].creatorCredited = tasks[t].creatorCredited
  /\ t >= nextTaskId =>
       /\ tasks'[t].creatorCredited \in {FALSE, tasks[t].creatorCredited}
       /\ t < nextTaskId' => tasks'[t].policy.minVerdicts >= 1

Quiet == /\ \A k \in AttemptKeys : AttemptQuiet(k)
         /\ \A v \in VerdictKeys : VerdictQuiet(v)
         /\ \A t \in Tasks : TaskQuiet(t)

\* reapExpired only lets what is Live expire.
LEMMA ReapIsQuiet ==
  ASSUME CoordTypeOK, NEW t \in Tasks
  PROVE  /\ \A k \in AttemptKeys :
              /\ ReapedAttempts(t)[k].operator = attempts[k].operator
              /\ ReapedAttempts(t)[k].deliveredVerdictCount
                   = attempts[k].deliveredVerdictCount
              /\ \/ ReapedAttempts(t)[k].status = attempts[k].status
                 \/ /\ attempts[k].status = "Live"
                    /\ ReapedAttempts(t)[k].status = "Expired"
         /\ \A v \in VerdictKeys :
              /\ ReapedVerdicts(t)[v].evaluator = verdicts[v].evaluator
              /\ \/ ReapedVerdicts(t)[v].status = verdicts[v].status
                 \/ /\ verdicts[v].status = "Live"
                    /\ ReapedVerdicts(t)[v].status = "Expired"
         /\ \A u \in Tasks :
              /\ ReapedTasks(t)[u].creator = tasks[u].creator
              /\ ReapedTasks(t)[u].policy = tasks[u].policy
              /\ ReapedTasks(t)[u].creatorCredited = tasks[u].creatorCredited
<1>1. ASSUME NEW k \in AttemptKeys
      PROVE  /\ ReapedAttempts(t)[k].operator = attempts[k].operator
             /\ ReapedAttempts(t)[k].deliveredVerdictCount
                  = attempts[k].deliveredVerdictCount
             /\ \/ ReapedAttempts(t)[k].status = attempts[k].status
                \/ /\ attempts[k].status = "Live"
                   /\ ReapedAttempts(t)[k].status = "Expired"
  BY DEF ReapedAttempts, ExpiredAttempts, CoordTypeOK, AttemptType
<1>2. ASSUME NEW v \in VerdictKeys
      PROVE  /\ ReapedVerdicts(t)[v].evaluator = verdicts[v].evaluator
             /\ \/ ReapedVerdicts(t)[v].status = verdicts[v].status
                \/ /\ verdicts[v].status = "Live"
                   /\ ReapedVerdicts(t)[v].status = "Expired"
  BY DEF ReapedVerdicts, CoordTypeOK, VerdictType
<1>3. ASSUME NEW u \in Tasks
      PROVE  /\ ReapedTasks(t)[u].creator = tasks[u].creator
             /\ ReapedTasks(t)[u].policy = tasks[u].policy
             /\ ReapedTasks(t)[u].creatorCredited = tasks[u].creatorCredited
  BY DEF ReapedTasks, CoordTypeOK, TaskType
<1> QED BY <1>1, <1>2, <1>3

\* What a step must leave alone, apart from reaping, to be quiet.
LEMMA QuietTasks ==
  ASSUME CoordTypeOK, nextTaskId' = nextTaskId,
         \A u \in Tasks :
           /\ tasks'[u].creator = tasks[u].creator
           /\ tasks'[u].policy.minVerdicts = tasks[u].policy.minVerdicts
           /\ tasks'[u].creatorCredited = tasks[u].creatorCredited
  PROVE  \A u \in Tasks : TaskQuiet(u)
<1>1. \A u \in Tasks : u >= nextTaskId => ~(u < nextTaskId)
  BY CoordinatorAssumption DEF CoordTypeOK, Tasks
<1> QED BY <1>1 DEF TaskQuiet

\* createTask adds a task with a valid policy.
LEMMA CreateTaskQuiet ==
  ASSUME LedgerInv, NEW t \in Tasks, NEW c \in Accounts, NEW p \in Policies,
         CoordCreateTask(t, c, p)
  PROVE  Quiet
<1>1. CoordTypeOK
  BY DEF LedgerInv, PaidInv, ConservationInv, TypeOK
<1>2. /\ t = nextTaskId /\ nextTaskId' = nextTaskId + 1 /\ nextTaskId \in Nat
      /\ p.minVerdicts >= 1
      /\ tasks' = [tasks EXCEPT ![t] = [NoTask EXCEPT !.creator = c,
                                          !.status = "Open", !.policy = p]]
      /\ UNCHANGED <<attempts, verdicts>>
  BY <1>1 DEF CoordCreateTask, ValidPolicy, CoordTypeOK
<1>3. /\ \A u \in Tasks : u # t => tasks'[u] = tasks[u]
      /\ tasks'[t].creatorCredited = FALSE
      /\ tasks'[t].policy.minVerdicts = p.minVerdicts
  BY <1>1, <1>2 DEF CoordTypeOK, NoTask
<1>4. \A u \in Tasks : u \in Nat
  BY CoordinatorAssumption DEF Tasks
<1>5. ASSUME NEW u \in Tasks PROVE TaskQuiet(u)
  <2>1. CASE u = t
    <3>1. ~(u < nextTaskId) /\ tasks'[u].policy.minVerdicts >= 1
      BY <1>2, <1>3, <2>1
    <3> QED BY <1>3, <2>1, <3>1 DEF TaskQuiet
  <2>2. CASE u # t
    <3>1. u >= nextTaskId => ~(u < nextTaskId')
      BY <1>2, <1>4, <2>2
    <3>2. tasks'[u] = tasks[u]
      BY <1>3, <2>2
    <3> QED BY <3>1, <3>2 DEF TaskQuiet
  <2> QED BY <2>1, <2>2
<1>6. \A k \in AttemptKeys : AttemptQuiet(k)
  BY <1>2 DEF AttemptQuiet
<1>7. \A v \in VerdictKeys : VerdictQuiet(v)
  BY <1>2 DEF VerdictQuiet
<1> QED BY <1>5, <1>6, <1>7 DEF Quiet

\* addAttempts, closeTask, the refund and a verdict's release are quiet.
LEMMA ReapStepQuiet ==
  ASSUME LedgerInv, NEW t \in Tasks,
         \/ \E n \in Nat : CoordAddAttempts(t, n)
         \/ CoordCloseTask(t)
         \/ CoordReap(t)
         \/ \E k \in VerdictKeys : \E o : k[1] = t /\ CoordReleaseVerdict(k, o)
  PROVE  Quiet
<1>1. CoordTypeOK
  BY DEF LedgerInv, PaidInv, ConservationInv, TypeOK
<1>2. CanReapExpired(t) /\ attempts' = ReapedAttempts(t) /\ nextTaskId' = nextTaskId
  BY DEF CoordAddAttempts, CoordCloseTask, CoordReap, CoordReleaseVerdict
<1>3. /\ ReapedTasks(t) \in [Tasks -> TaskType]
      /\ ReapedVerdicts(t) \in [VerdictKeys -> VerdictType]
  BY <1>1, <1>2, ReapedTypes
<1>4. ASSUME NEW u \in Tasks
      PROVE  LET T == ReapedTasks(t) IN
             /\ tasks'[u].creator = T[u].creator
             /\ tasks'[u].policy.minVerdicts = T[u].policy.minVerdicts
             /\ tasks'[u].creatorCredited = T[u].creatorCredited
  <2>1. ASSUME NEW n \in Nat, CoordAddAttempts(t, n)
        PROVE  tasks' = [ReapedTasks(t) EXCEPT ![t].policy.maxTotal = @ + n]
    BY <2>1 DEF CoordAddAttempts
  <2>2. CASE \E n \in Nat : CoordAddAttempts(t, n)
    BY <1>3, <2>1, <2>2 DEF TaskType, PolicyType
  <2>3. CASE CoordCloseTask(t)
    BY <1>3, <2>3 DEF CoordCloseTask, TaskType
  <2>4. CASE \/ CoordReap(t)
             \/ \E k \in VerdictKeys : \E o : k[1] = t /\ CoordReleaseVerdict(k, o)
    BY <2>4 DEF CoordReap, CoordReleaseVerdict
  <2> QED BY <2>2, <2>3, <2>4
<1>5. \A u \in Tasks : TaskQuiet(u)
  <2>1. \A u \in Tasks :
          /\ tasks'[u].creator = tasks[u].creator
          /\ tasks'[u].policy.minVerdicts = tasks[u].policy.minVerdicts
          /\ tasks'[u].creatorCredited = tasks[u].creatorCredited
    BY <1>1, <1>4, ReapIsQuiet
  <2> QED BY <1>1, <1>2, <2>1, QuietTasks
<1>6. \A k \in AttemptKeys : AttemptQuiet(k)
  BY <1>1, <1>2, ReapIsQuiet DEF AttemptQuiet
<1>7. ASSUME NEW v \in VerdictKeys PROVE VerdictQuiet(v)
  <2>1. CASE verdicts' = ReapedVerdicts(t)
    BY <1>1, <2>1, ReapIsQuiet DEF VerdictQuiet
  <2>2. ASSUME NEW k \in VerdictKeys, NEW o, k[1] = t, CoordReleaseVerdict(k, o)
        PROVE  VerdictQuiet(v)
    <3>1. /\ verdicts' = [ReapedVerdicts(t) EXCEPT ![k].status = "Released"]
          /\ ReapedVerdicts(t)[k].status = "Live"
      BY <2>2 DEF CoordReleaseVerdict
    <3>2. /\ verdicts'[v].evaluator = ReapedVerdicts(t)[v].evaluator
          /\ verdicts'[v].status = IF v = k THEN "Released"
                                            ELSE ReapedVerdicts(t)[v].status
      BY <1>3, <3>1 DEF VerdictType
    <3> QED BY <1>1, <3>1, <3>2, ReapIsQuiet DEF VerdictQuiet
  <2> QED BY <2>1, <2>2 DEF CoordAddAttempts, CoordCloseTask, CoordReap
<1> QED BY <1>5, <1>6, <1>7 DEF Quiet

\* claimTask takes an attempt nobody has had.
LEMMA ClaimTaskQuiet ==
  ASSUME LedgerInv, NEW t \in Tasks, NEW o \in Accounts, NEW d \in Nat,
         tasks[t].nextAttemptIndex \in AttemptIndices, CoordClaimTask(t, o, d)
  PROVE  Quiet
<1> DEFINE i == tasks[t].nextAttemptIndex
           k == <<t, i>>
           new == [NoAttempt EXCEPT !.operator = o, !.deadline = d,
                     !.claimedAt = now, !.status = "Live"]
<1>1. /\ CoordTypeOK /\ BeyondIndices /\ k \in AttemptKeys /\ k[1] = t
      /\ k[2] = i /\ i \in Nat
  BY CoordinatorAssumption DEF LedgerInv, PaidInv, ConservationInv, TypeOK,
     AttemptKeys, AttemptIndices
<1>2. /\ ReapedTasks(t) \in [Tasks -> TaskType]
      /\ ReapedAttempts(t) \in [AttemptKeys -> AttemptType]
  BY <1>1, ReapedTypes DEF CoordClaimTask
<1>3. /\ tasks' = [ReapedTasks(t) EXCEPT ![t].nextAttemptIndex = @ + 1,
                                         ![t].liveOccupancy = @ + 1]
      /\ attempts' = [ReapedAttempts(t) EXCEPT ![k] = new]
      /\ verdicts' = ReapedVerdicts(t) /\ nextTaskId' = nextTaskId
  BY DEF CoordClaimTask
<1>4. attempts[k].status = "None"
  <2>1. k[2] >= tasks[k[1]].nextAttemptIndex
    BY <1>1
  <2> QED BY <1>1, <2>1 DEF BeyondIndices
<1>5. /\ attempts'[k].status = "Live" /\ attempts'[k].operator = o
      /\ attempts'[k].deliveredVerdictCount = 0
      /\ \A j \in AttemptKeys : j # k => attempts'[j] = ReapedAttempts(t)[j]
  BY <1>1, <1>2, <1>3 DEF NoAttempt
<1>6. \A u \in Tasks :
        /\ tasks'[u].creator = ReapedTasks(t)[u].creator
        /\ tasks'[u].policy = ReapedTasks(t)[u].policy
        /\ tasks'[u].creatorCredited = ReapedTasks(t)[u].creatorCredited
  BY <1>2, <1>3 DEF TaskType
<1> HIDE DEF k, new
<1>7. \A u \in Tasks : TaskQuiet(u)
  <2>1. \A u \in Tasks :
          /\ tasks'[u].creator = tasks[u].creator
          /\ tasks'[u].policy.minVerdicts = tasks[u].policy.minVerdicts
          /\ tasks'[u].creatorCredited = tasks[u].creatorCredited
    BY <1>1, <1>6, ReapIsQuiet
  <2> QED BY <1>1, <1>3, <2>1, QuietTasks
<1>8. ASSUME NEW j \in AttemptKeys PROVE AttemptQuiet(j)
  <2>1. CASE j = k
    BY <1>4, <1>5, <2>1 DEF AttemptQuiet
  <2>2. CASE j # k
    BY <1>1, <1>5, <2>2, ReapIsQuiet DEF AttemptQuiet
  <2> QED BY <2>1, <2>2
<1>9. \A v \in VerdictKeys : VerdictQuiet(v)
  BY <1>1, <1>3, ReapIsQuiet DEF VerdictQuiet
<1> QED BY <1>7, <1>8, <1>9 DEF Quiet

\* claimEvaluation takes a verdict nobody has had.
LEMMA ClaimEvaluationQuiet ==
  ASSUME LedgerInv, NEW t \in Tasks, NEW i \in AttemptIndices, NEW o, NEW d,
         attempts[<<t, i>>].nextVerdictIndex + 1 \in VerdictLegs,
         CoordClaimEvaluation(t, i, o, d)
  PROVE  Quiet
<1> DEFINE a == <<t, i>>
           l == attempts[a].nextVerdictIndex + 1
           w == <<t, i, l>>
           new == [NoVerdict EXCEPT !.evaluator = o, !.deadline = d,
                     !.claimedAt = now, !.status = "Live"]
<1>1. /\ CoordTypeOK /\ BeyondIndices /\ LedgersAgree /\ a \in AttemptKeys
      /\ w \in VerdictKeys /\ attempts[a].nextVerdictIndex \in Nat
  BY DEF LedgerInv, PaidInv, ConservationInv, TypeOK, AttemptKeys, VerdictKeys,
     CoordTypeOK, AttemptType
<1>2. /\ ReapedAttempts(t) \in [AttemptKeys -> AttemptType]
      /\ ReapedVerdicts(t) \in [VerdictKeys -> VerdictType]
  BY <1>1, ReapedTypes DEF CoordClaimEvaluation
<1>3. /\ attempts' = [ReapedAttempts(t) EXCEPT ![a].nextVerdictIndex = @ + 1]
      /\ verdicts' = [ReapedVerdicts(t) EXCEPT ![w] = new]
      /\ tasks' = ReapedTasks(t) /\ nextTaskId' = nextTaskId
  BY DEF CoordClaimEvaluation
<1>4. verdicts[w].status = "None"
  <2>1. /\ w[1] = t /\ w[2] = i /\ w[3] = l /\ w \in Slots /\ w[3] # 0
        /\ <<w[1], w[2]>> = a
    BY <1>1, KeySlots
  <2>2. w[3] > attempts[<<w[1], w[2]>>].nextVerdictIndex
    BY <1>1, <2>1
  <2> HIDE DEF w
  <2>3. reservations[w].state = "None"
    BY <1>1, <2>1, <2>2 DEF BeyondIndices
  <2> QED BY <1>1, <2>1, <2>3 DEF LedgersAgree, StatusOf
<1>5. \A k \in AttemptKeys :
        /\ attempts'[k].operator = ReapedAttempts(t)[k].operator
        /\ attempts'[k].status = ReapedAttempts(t)[k].status
        /\ attempts'[k].deliveredVerdictCount
             = ReapedAttempts(t)[k].deliveredVerdictCount
  BY <1>1, <1>2, <1>3 DEF AttemptType
<1>6. /\ verdicts'[w].status = "Live"
      /\ \A v \in VerdictKeys : v # w => verdicts'[v] = ReapedVerdicts(t)[v]
  BY <1>1, <1>2, <1>3 DEF NoVerdict
<1>7. \A u \in Tasks : TaskQuiet(u)
  <2>1. \A u \in Tasks :
          /\ tasks'[u].creator = tasks[u].creator
          /\ tasks'[u].policy.minVerdicts = tasks[u].policy.minVerdicts
          /\ tasks'[u].creatorCredited = tasks[u].creatorCredited
    BY <1>1, <1>3, ReapIsQuiet
  <2> QED BY <1>1, <1>3, <2>1, QuietTasks
<1> HIDE DEF w, a, new
<1>8. \A k \in AttemptKeys : AttemptQuiet(k)
  BY <1>1, <1>5, ReapIsQuiet DEF AttemptQuiet
<1>9. ASSUME NEW v \in VerdictKeys PROVE VerdictQuiet(v)
  <2>1. CASE v = w
    BY <1>4, <1>6, <2>1 DEF VerdictQuiet
  <2>2. CASE v # w
    BY <1>1, <1>6, <2>2, ReapIsQuiet DEF VerdictQuiet
  <2> QED BY <2>1, <2>2
<1> QED BY <1>7, <1>8, <1>9 DEF Quiet

\* releaseAttempt ends a Live attempt.
LEMMA ReleaseAttemptQuiet ==
  ASSUME LedgerInv, NEW t \in Tasks, NEW i \in AttemptIndices, NEW o,
         CoordReleaseAttempt(t, i, o)
  PROVE  Quiet
<1> DEFINE k == <<t, i>>
<1>1. CoordTypeOK /\ k \in AttemptKeys
  BY DEF LedgerInv, PaidInv, ConservationInv, TypeOK, AttemptKeys
<1>2. /\ ReapedTasks(t) \in [Tasks -> TaskType]
      /\ ReapedAttempts(t) \in [AttemptKeys -> AttemptType]
  BY <1>1, ReapedTypes DEF CoordReleaseAttempt
<1>3. /\ attempts' = [ReapedAttempts(t) EXCEPT ![k].status = "Released"]
      /\ ReapedAttempts(t)[k].status = "Live"
      /\ tasks' = [ReapedTasks(t) EXCEPT ![t].liveOccupancy = @ - 1]
      /\ verdicts' = ReapedVerdicts(t) /\ nextTaskId' = nextTaskId
  BY DEF CoordReleaseAttempt
<1> HIDE DEF k
<1>4. \A j \in AttemptKeys :
        /\ attempts'[j].operator = ReapedAttempts(t)[j].operator
        /\ attempts'[j].status = IF j = k THEN "Released"
                                          ELSE ReapedAttempts(t)[j].status
        /\ attempts'[j].deliveredVerdictCount
             = ReapedAttempts(t)[j].deliveredVerdictCount
  BY <1>1, <1>2, <1>3 DEF AttemptType
<1>5. \A u \in Tasks :
        /\ tasks'[u].creator = ReapedTasks(t)[u].creator
        /\ tasks'[u].policy = ReapedTasks(t)[u].policy
        /\ tasks'[u].creatorCredited = ReapedTasks(t)[u].creatorCredited
  BY <1>2, <1>3 DEF TaskType
<1>6. \A u \in Tasks : TaskQuiet(u)
  <2>1. \A u \in Tasks :
          /\ tasks'[u].creator = tasks[u].creator
          /\ tasks'[u].policy.minVerdicts = tasks[u].policy.minVerdicts
          /\ tasks'[u].creatorCredited = tasks[u].creatorCredited
    BY <1>1, <1>5, ReapIsQuiet
  <2> QED BY <1>1, <1>3, <2>1, QuietTasks
<1>7. \A j \in AttemptKeys : AttemptQuiet(j)
  BY <1>1, <1>3, <1>4, ReapIsQuiet DEF AttemptQuiet
<1>8. \A v \in VerdictKeys : VerdictQuiet(v)
  BY <1>1, <1>3, ReapIsQuiet DEF VerdictQuiet
<1> QED BY <1>6, <1>7, <1>8 DEF Quiet

\* A forfeit ends what is Live or Expired.
LEMMA ForfeitQuiet ==
  ASSUME LedgerInv, NEW s \in Slots,
         \/ CoordForfeitAttempt(s[1], s[2])
         \/ s[3] # 0 /\ CoordForfeitVerdict(s)
  PROVE  Quiet
<1> DEFINE t == s[1]
           k == <<s[1], s[2]>>
<1>1. /\ CoordTypeOK /\ t \in Tasks /\ k \in AttemptKeys
      /\ tasks \in [Tasks -> TaskType] /\ attempts \in [AttemptKeys -> AttemptType]
      /\ verdicts \in [VerdictKeys -> VerdictType]
  BY SlotParts DEF LedgerInv, PaidInv, ConservationInv, TypeOK, CoordTypeOK
<1>2. CASE CoordForfeitAttempt(s[1], s[2])
  <2>1. /\ attempts' = [attempts EXCEPT ![k].status = "Forfeited"]
        /\ attempts[k].status \in {"Live", "Expired"}
        /\ tasks' = tasks \/ tasks' = [tasks EXCEPT ![t].liveOccupancy = @ - 1]
        /\ verdicts' = verdicts /\ nextTaskId' = nextTaskId
    BY <1>2 DEF CoordForfeitAttempt
  <2> HIDE DEF k, t
  <2>2. \A j \in AttemptKeys :
          /\ attempts'[j].operator = attempts[j].operator
          /\ attempts'[j].status = IF j = k THEN "Forfeited" ELSE attempts[j].status
          /\ attempts'[j].deliveredVerdictCount = attempts[j].deliveredVerdictCount
    BY <1>1, <2>1 DEF AttemptType
  <2>3. \A u \in Tasks :
          /\ tasks'[u].creator = tasks[u].creator
          /\ tasks'[u].policy = tasks[u].policy
          /\ tasks'[u].creatorCredited = tasks[u].creatorCredited
    BY <1>1, <2>1 DEF TaskType
  <2>4. \A u \in Tasks : TaskQuiet(u)
    BY <1>1, <2>1, <2>3, QuietTasks
  <2>5. \A j \in AttemptKeys : AttemptQuiet(j)
    BY <2>1, <2>2 DEF AttemptQuiet
  <2>6. \A v \in VerdictKeys : VerdictQuiet(v)
    BY <2>1 DEF VerdictQuiet
  <2> QED BY <2>4, <2>5, <2>6 DEF Quiet
<1>3. CASE s[3] # 0 /\ CoordForfeitVerdict(s)
  <2>1. /\ verdicts' = [verdicts EXCEPT ![s].status = "Forfeited"]
        /\ verdicts[s].status \in {"Live", "Expired"} /\ s \in VerdictKeys
        /\ UNCHANGED <<tasks, attempts, nextTaskId>>
    BY <1>3, SlotParts DEF CoordForfeitVerdict
  <2>2. \A v \in VerdictKeys :
          /\ verdicts'[v].evaluator = verdicts[v].evaluator
          /\ verdicts'[v].status = IF v = s THEN "Forfeited" ELSE verdicts[v].status
    BY <1>1, <2>1 DEF VerdictType
  <2>3. \A u \in Tasks : TaskQuiet(u)
    BY <1>1, <2>1, QuietTasks
  <2>4. \A j \in AttemptKeys : AttemptQuiet(j)
    BY <2>1 DEF AttemptQuiet
  <2>5. \A v \in VerdictKeys : VerdictQuiet(v)
    BY <2>1, <2>2 DEF VerdictQuiet
  <2> QED BY <2>3, <2>4, <2>5 DEF Quiet
<1> QED BY <1>2, <1>3

\* recordSolutionDelivery submits a Live attempt.
LEMMA RecordSolutionQuiet ==
  ASSUME LedgerInv, NEW t \in Tasks, NEW i \in AttemptIndices, NEW o, NEW p,
         CoordRecordSolutionDelivery(t, i, o, p)
  PROVE  Quiet
<1> DEFINE k == <<t, i>>
           r == [tasks[t] EXCEPT
                   !.liveOccupancy = tasks[t].liveOccupancy - 1,
                   !.settledAttemptCount = tasks[t].settledAttemptCount + 1]
<1>1. /\ CoordTypeOK /\ k \in AttemptKeys
      /\ tasks \in [Tasks -> TaskType] /\ attempts \in [AttemptKeys -> AttemptType]
  BY DEF LedgerInv, PaidInv, ConservationInv, TypeOK, CoordTypeOK, AttemptKeys
<1>2. /\ attempts[k].status = "Live" /\ tasks[t].liveOccupancy >= 1
      /\ attempts' = [attempts EXCEPT ![k].digest = p, ![k].status = "Submitted"]
      /\ tasks' = [tasks EXCEPT ![t] = MarkCapacity(r)]
      /\ verdicts' = verdicts /\ nextTaskId' = nextTaskId
  BY <1>1 DEF CoordRecordSolutionDelivery
<1>3. /\ r \in TaskType /\ r.creatorCredited = tasks[t].creatorCredited
      /\ r.creator = tasks[t].creator /\ r.policy = tasks[t].policy
  <2>1. tasks[t] \in TaskType /\ tasks[t].liveOccupancy - 1 \in Nat
          /\ tasks[t].settledAttemptCount + 1 \in Nat
    BY <1>1, <1>2 DEF TaskType
  <2> QED BY <2>1, TaskUpdates DEF TaskType
<1> HIDE DEF k, r
<1>4. \A u \in Tasks :
        /\ tasks'[u].creator = tasks[u].creator
        /\ tasks'[u].policy = tasks[u].policy
        /\ tasks'[u].creatorCredited = tasks[u].creatorCredited
  <2>1. tasks'[t] = MarkCapacity(r) /\ \A u \in Tasks : u # t => tasks'[u] = tasks[u]
    BY <1>1, <1>2
  <2> QED BY <1>3, <2>1, MarkCapacityCounts
<1>5. \A j \in AttemptKeys :
        /\ attempts'[j].operator = attempts[j].operator
        /\ attempts'[j].status = IF j = k THEN "Submitted" ELSE attempts[j].status
        /\ attempts'[j].deliveredVerdictCount = attempts[j].deliveredVerdictCount
  BY <1>1, <1>2 DEF AttemptType
<1>6. \A u \in Tasks : TaskQuiet(u)
  BY <1>1, <1>2, <1>4, QuietTasks
<1>7. ASSUME NEW j \in AttemptKeys PROVE AttemptQuiet(j)
  <2>1. CASE j = k
    <3>1. /\ attempts[j].status = "Live" /\ attempts'[j].status = "Submitted"
          /\ attempts'[j].operator = attempts[j].operator
          /\ attempts'[j].deliveredVerdictCount = attempts[j].deliveredVerdictCount
      BY <1>2, <1>5, <2>1
    <3> QED BY <3>1 DEF AttemptQuiet
  <2>2. CASE j # k
    BY <1>5, <2>2 DEF AttemptQuiet
  <2> QED BY <2>1, <2>2
<1>8. \A v \in VerdictKeys : VerdictQuiet(v)
  BY <1>2 DEF VerdictQuiet
<1> QED BY <1>6, <1>7, <1>8 DEF Quiet

\* Every step is quiet and credits nobody, or delivers one verdict.
LEMMA StepQuiet ==
  ASSUME LedgerInv, [Next]_vars
  PROVE  \/ Quiet /\ UNCHANGED creditVars
         \/ \E req \in delivered : claimVerdictDelivery(req)
<1>1. TypeOK /\ EscrowOK /\ CoordTypeOK
  BY TypeOKParts DEF LedgerInv, PaidInv, ConservationInv, TypeOK
<1>0. ASSUME UNCHANGED <<nextTaskId, coordVars>> PROVE Quiet
  <2>1. UNCHANGED <<nextTaskId, tasks, attempts, verdicts>>
    BY <1>0 DEF coordVars
  <2>2. \A u \in Tasks : TaskQuiet(u)
    BY <1>1, <2>1, QuietTasks
  <2>3. \A j \in AttemptKeys : AttemptQuiet(j)
    BY <2>1 DEF AttemptQuiet
  <2>4. \A v \in VerdictKeys : VerdictQuiet(v)
    BY <2>1 DEF VerdictQuiet
  <2> QED BY <2>2, <2>3, <2>4 DEF Quiet
<1>2. ASSUME NEW t \in Tasks, CreatorStep(t)
      PROVE  Quiet /\ UNCHANGED creditVars
  <2>1. \A n \in 1..MaxAttempts : n \in Nat
    BY CoordinatorAssumption
  <2>2. Quiet
    BY <1>2, <2>1, ReapStepQuiet
       DEF CreatorStep, addAttempts, closeTask, refundUnusedTaskBudget
  <2>3. UNCHANGED creditVars
    BY <1>2 DEF CreatorStep, addAttempts, closeTask, refundUnusedTaskBudget,
       RefundUnreserved
  <2> QED BY <2>2, <2>3
<1>3. ASSUME NEW t \in Tasks, ClaimStep(t)
      PROVE  Quiet /\ UNCHANGED creditVars
  <2>1. now + tasks[t].policy.responseTimeout \in Nat
    BY <1>1, DeadlineNat
  <2>2. Quiet
    BY <1>3, <2>1, ClaimTaskQuiet, ClaimEvaluationQuiet
       DEF ClaimStep, claimTask, claimEvaluation
  <2>3. \A s, o, m, r, d : Reserve(s, o, m, r, d) => UNCHANGED creditVars
    BY DEF Reserve
  <2>4. UNCHANGED creditVars
    BY <1>3, <2>3 DEF ClaimStep, claimTask, claimEvaluation
  <2> QED BY <2>2, <2>4
<1>4. ASSUME DeliveryStep
      PROVE  \/ Quiet /\ UNCHANGED creditVars
             \/ \E req \in delivered : claimVerdictDelivery(req)
  <2>1. ASSUME NEW s, NEW p, Prepare(s, p) PROVE Quiet /\ UNCHANGED creditVars
    BY <1>0, <2>1 DEF Prepare
  <2>2. ASSUME NEW s, deliverMarketplaceWithSignatures(s)
        PROVE  Quiet /\ UNCHANGED creditVars
    BY <1>0, <2>2 DEF deliverMarketplaceWithSignatures
  <2>3. ASSUME NEW req \in delivered, claimSolutionDelivery(req)
        PROVE  Quiet /\ UNCHANGED creditVars
    <3>1. /\ CanClaimDelivery(req.slot, req) /\ UNCHANGED creditVars
          /\ CoordRecordSolutionDelivery(req.slot[1], req.slot[2],
               reservations[req.slot].party, req.payload)
      BY <2>3 DEF claimSolutionDelivery
    <3>2. req.slot[1] \in Tasks /\ req.slot[2] \in AttemptIndices
      BY <1>1, <3>1, ClaimableSlot, SlotParts
    <3> QED BY <3>1, <3>2, RecordSolutionQuiet
  <2> QED BY <1>4, <2>1, <2>2, <2>3
             DEF DeliveryStep, prepareSolutionDelivery, prepareVerdictDelivery
<1>5. ASSUME ExitStep PROVE Quiet /\ UNCHANGED creditVars
  <2>1. ASSUME NEW k \in AttemptKeys, releaseAttempt(k[1], k[2])
        PROVE  Quiet /\ UNCHANGED creditVars
    <3>1. /\ Release(<<k[1], k[2], 0>>)
          /\ CoordReleaseAttempt(k[1], k[2], reservations[<<k[1], k[2], 0>>].party)
          /\ k[1] \in Tasks /\ k[2] \in AttemptIndices
      BY <2>1, KeySlots DEF releaseAttempt
    <3>2. UNCHANGED creditVars
      BY <3>1 DEF Release
    <3> QED BY <3>1, <3>2, ReleaseAttemptQuiet
  <2>2. ASSUME NEW k \in VerdictKeys, releaseVerdict(k)
        PROVE  Quiet /\ UNCHANGED creditVars
    <3>1. k[1] \in Tasks
      BY DEF VerdictKeys
    <3> QED BY <2>2, <3>1, ReapStepQuiet DEF releaseVerdict, Release
  <2>3. ASSUME NEW s \in Slots, NEW c, forfeitSolution(s, c) \/ forfeitVerdict(s, c)
        PROVE  Quiet /\ UNCHANGED creditVars
    <3>1. /\ \/ CoordForfeitAttempt(s[1], s[2])
             \/ s[3] # 0 /\ CoordForfeitVerdict(s)
          /\ UNCHANGED creditVars
      BY <2>3 DEF forfeitSolution, forfeitVerdict
    <3> QED BY <3>1, ForfeitQuiet
  <2> QED BY <1>5, <2>1, <2>2, <2>3 DEF ExitStep
<1>6. ASSUME OwnerStep \/ Tick \/ UNCHANGED vars
      PROVE  Quiet /\ UNCHANGED creditVars
  <2>1. Quiet
    BY <1>0, <1>6, OtherStepKeeps
  <2>2. UNCHANGED creditVars
    BY <1>6 DEF OwnerStep, Tick, vars, setActivityChecker, setAuthorizedRouter,
       changeMechOperator, routerVars, creditVars
  <2> QED BY <2>1, <2>2
<1>7. ASSUME NEW t \in Tasks, NEW c \in Accounts, NEW p \in Policies,
             NEW r1 \in Rates, NEW r2 \in Rates, createTask(t, c, p, r1, r2)
      PROVE  Quiet /\ UNCHANGED creditVars
  BY <1>7, CreateTaskQuiet DEF createTask
<1> QED BY <1>2, <1>3, <1>4, <1>5, <1>6, <1>7 DEF Next

-----------------------------------------------------------------------------
(* The quorum *)

\* Every task that exists asks for a quorum, and every claimed attempt has an
\* operator.
Committed ==
  /\ \A t \in Tasks : t < nextTaskId => tasks[t].policy.minVerdicts >= 1
  /\ \A k \in AttemptKeys :
       attempts[k].status # "None" => attempts[k].operator \in Accounts

QuorumInv == CountInv /\ Committed /\ FinalizedByQuorum

\* The task of an attempt that was claimed exists.
LEMMA ClaimedTaskExists ==
  ASSUME LedgerInv, NEW k \in AttemptKeys, attempts[k].status # "None"
  PROVE  k[1] \in Tasks /\ k[1] < nextTaskId
<1>1. /\ CoordTypeOK /\ BeyondIndices /\ k[1] \in Tasks /\ k[2] \in AttemptIndices
  BY KeySlots DEF LedgerInv, PaidInv, ConservationInv, TypeOK
<1>2. k[1] \in Nat /\ k[2] \in Nat /\ nextTaskId \in Nat
  BY <1>1, CoordinatorAssumption DEF Tasks, AttemptIndices, CoordTypeOK
<1>3. tasks[k[1]].nextAttemptIndex \in Nat
  BY <1>1 DEF CoordTypeOK, TaskType
<1>4. k[2] < tasks[k[1]].nextAttemptIndex
  BY <1>1, <1>2, <1>3 DEF BeyondIndices
<1>5. tasks[k[1]].nextAttemptIndex # 0
  BY <1>2, <1>4
<1> QED BY <1>1, <1>2, <1>5 DEF BeyondIndices

\* There are finitely many verdicts.
LEMMA VerdictCount ==
  ASSUME NEW S \in SUBSET VerdictKeys
  PROVE  IsFiniteSet(S) /\ Cardinality(S) \in Nat
<1>1. S \in SUBSET Slots
  BY KeySlots
<1> QED BY <1>1, SlotsFinite, FS_Subset, FS_CardinalityType

\* An attempt that is not submitted has no delivered verdict.
LEMMA UnsubmittedUndelivered ==
  ASSUME LedgerInv, NEW k \in AttemptKeys,
         attempts[k].status \notin {"Submitted", "Finalized"}
  PROVE  DeliveredVerdicts(k) = {} /\ Cardinality(DeliveredVerdicts(k)) = 0
<1>1. \A v \in VerdictKeys : <<v[1], v[2]>> = k => verdicts[v].status = "None"
  BY DEF LedgerInv, EvaluatedIsSubmitted, AttemptOf
<1>2. DeliveredVerdicts(k) = {}
  BY <1>1 DEF DeliveredVerdicts
<1> QED BY <1>2, FS_EmptySet

\* A quiet step keeps the quorum's bookkeeping.
LEMMA QuietQuorum ==
  ASSUME QuorumInv, Quiet
  PROVE  Committed' /\ FinalizedByQuorum'
<1>1. LedgerInv /\ CoordTypeOK /\ EvaluatedIsSubmitted
  BY DEF QuorumInv, CountInv, LedgerInv, PaidInv, ConservationInv, TypeOK
<1>2. ASSUME NEW t \in Tasks, t < nextTaskId'
      PROVE  tasks'[t].policy.minVerdicts >= 1
  <2>1. t \in Nat /\ nextTaskId \in Nat
    BY <1>1, CoordinatorAssumption DEF Tasks, CoordTypeOK
  <2>2. CASE t < nextTaskId
    BY <2>2 DEF QuorumInv, Committed, Quiet, TaskQuiet
  <2>3. CASE t >= nextTaskId
    BY <1>2, <2>3 DEF Quiet, TaskQuiet
  <2> QED BY <2>1, <2>2, <2>3
<1>3. ASSUME NEW k \in AttemptKeys, attempts'[k].status # "None"
      PROVE  attempts'[k].operator \in Accounts
  BY <1>3 DEF QuorumInv, Committed, Quiet, AttemptQuiet
<1>4. ASSUME NEW k \in AttemptKeys
      PROVE  /\ attempts'[k].deliveredVerdictCount
                  = Cardinality(DeliveredVerdicts(k)')
             /\ attempts'[k].status \in {"Submitted", "Finalized"} =>
                  (attempts'[k].status = "Finalized" <=>
                     Cardinality(DeliveredVerdicts(k)')
                       >= tasks'[k[1]].policy.minVerdicts)
             /\ \A v \in DeliveredVerdicts(k)' :
                  verdicts'[v].evaluator # attempts'[k].operator
  <2>1. DeliveredVerdicts(k)' = DeliveredVerdicts(k)
    BY DEF DeliveredVerdicts, Quiet, VerdictQuiet
  <2>2. /\ attempts[k].deliveredVerdictCount = Cardinality(DeliveredVerdicts(k))
        /\ attempts[k].status \in {"Submitted", "Finalized"} =>
             (attempts[k].status = "Finalized" <=>
                Cardinality(DeliveredVerdicts(k))
                  >= tasks[k[1]].policy.minVerdicts)
        /\ \A v \in DeliveredVerdicts(k) :
             verdicts[v].evaluator # attempts[k].operator
    BY DEF QuorumInv, FinalizedByQuorum
  <2>3. AttemptQuiet(k)
    BY DEF Quiet
  <2>4. attempts'[k].deliveredVerdictCount = Cardinality(DeliveredVerdicts(k))
    <3>1. CASE attempts[k].status # "None"
      BY <2>2, <2>3, <3>1 DEF AttemptQuiet
    <3>2. CASE attempts[k].status = "None"
      <4>1. Cardinality(DeliveredVerdicts(k)) = 0
        BY <1>1, <3>2, UnsubmittedUndelivered
      <4> QED BY <2>2, <2>3, <3>2, <4>1 DEF AttemptQuiet
    <3> QED BY <3>1, <3>2
  <2>5. ASSUME attempts'[k].status \in {"Submitted", "Finalized"}
        PROVE  attempts'[k].status = "Finalized" <=>
                 Cardinality(DeliveredVerdicts(k))
                   >= tasks'[k[1]].policy.minVerdicts
    <3>1. attempts[k].status \in {"Live", "Submitted", "Finalized"}
      BY <2>3, <2>5 DEF AttemptQuiet
    <3>2. /\ k[1] \in Tasks /\ k[1] < nextTaskId
      BY <1>1, <3>1, ClaimedTaskExists
    <3>3. /\ tasks'[k[1]].policy.minVerdicts = tasks[k[1]].policy.minVerdicts
          /\ tasks[k[1]].policy.minVerdicts >= 1
      BY <3>2 DEF Quiet, TaskQuiet, QuorumInv, Committed
    <3>4. CASE attempts[k].status = "Live"
      <4>1. Cardinality(DeliveredVerdicts(k)) = 0
        BY <1>1, <3>4, UnsubmittedUndelivered
      <4>2. attempts'[k].status # "Finalized"
        BY <2>3, <3>4 DEF AttemptQuiet
      <4>3. tasks[k[1]].policy.minVerdicts \in Nat
        BY <1>1, <3>2 DEF CoordTypeOK, TaskType, PolicyType
      <4> QED BY <3>3, <4>1, <4>2, <4>3
    <3>5. CASE attempts[k].status \in {"Submitted", "Finalized"}
      <4>1. attempts'[k].status = "Finalized" <=> attempts[k].status = "Finalized"
        BY <2>3 DEF AttemptQuiet
      <4> QED BY <2>2, <3>3, <3>5, <4>1
    <3> QED BY <3>1, <3>4, <3>5
  <2>6. ASSUME NEW v \in DeliveredVerdicts(k)
        PROVE  verdicts'[v].evaluator # attempts'[k].operator
    <3>1. v \in VerdictKeys /\ <<v[1], v[2]>> = k /\ verdicts[v].status = "Delivered"
      BY DEF DeliveredVerdicts
    <3>2. attempts[k].status # "None"
      BY <1>1, <3>1 DEF EvaluatedIsSubmitted, AttemptOf
    <3>3. /\ verdicts'[v].evaluator = verdicts[v].evaluator
          /\ attempts'[k].operator = attempts[k].operator
      BY <2>3, <3>1, <3>2 DEF Quiet, VerdictQuiet, AttemptQuiet
    <3> QED BY <2>2, <3>3
  <2> QED BY <2>1, <2>4, <2>5, <2>6
<1>5. Committed'
  BY <1>2, <1>3 DEF Committed
<1>6. FinalizedByQuorum'
  BY <1>4 DEF FinalizedByQuorum
<1> QED BY <1>5, <1>6

\* What the coordinator does when verdict v is delivered.
Delivers(v) ==
  LET t == v[1]
      a == <<v[1], v[2]>> IN
  /\ v \in VerdictKeys /\ t \in Tasks /\ a \in AttemptKeys
  /\ verdicts[v].status = "Live" /\ verdicts'[v].status = "Delivered"
  /\ \A w \in VerdictKeys :
       /\ verdicts'[w].evaluator = verdicts[w].evaluator
       /\ w # v => verdicts'[w] = verdicts[w]
  /\ verdicts[v].evaluator # attempts[a].operator
  /\ attempts'[a].deliveredVerdictCount = attempts[a].deliveredVerdictCount + 1
  /\ attempts'[a].status = IF Finalizes(v) THEN "Finalized" ELSE attempts[a].status
  /\ \A k \in AttemptKeys :
       /\ attempts'[k].operator = attempts[k].operator
       /\ k # a => attempts'[k] = attempts[k]
  /\ \A u \in Tasks :
       /\ tasks'[u].creator = tasks[u].creator
       /\ tasks'[u].policy = tasks[u].policy
       /\ u # t => tasks'[u] = tasks[u]
  /\ tasks'[t].creatorCredited <=> tasks[t].creatorCredited \/ Finalizes(v)
  /\ nextTaskId' = nextTaskId

\* recordVerdict delivers a verdict.
LEMMA RecordVerdictDelivers ==
  ASSUME CoordTypeOK, NEW v \in VerdictKeys, NEW e, NEW p,
         CoordRecordVerdict(v, e, p)
  PROVE  Delivers(v)
<1> DEFINE t == v[1]
           a == <<v[1], v[2]>>
           r == [tasks[t] EXCEPT
                   !.finalizedAttemptCount = tasks[t].finalizedAttemptCount + 1,
                   !.creatorCredited = TRUE]
<1>1. /\ t \in Tasks /\ a \in AttemptKeys
      /\ tasks \in [Tasks -> TaskType] /\ attempts \in [AttemptKeys -> AttemptType]
      /\ verdicts \in [VerdictKeys -> VerdictType]
  BY DEF CoordTypeOK, AttemptKeys, VerdictKeys
<1>2. /\ verdicts[v].status = "Live" /\ verdicts[v].evaluator = e
      /\ e # attempts[a].operator /\ nextTaskId' = nextTaskId
      /\ verdicts' = [verdicts EXCEPT ![v].digest = p, ![v].status = "Delivered"]
      /\ attempts' = [attempts EXCEPT
                        ![a].deliveredVerdictCount = @ + 1,
                        ![a].status = IF Finalizes(v) THEN "Finalized" ELSE @]
      /\ tasks' = IF Finalizes(v) THEN [tasks EXCEPT ![t] = MarkCapacity(r)]
                                  ELSE tasks
  BY <1>1 DEF CoordRecordVerdict
<1>3. /\ verdicts'[v].status = "Delivered"
      /\ \A w \in VerdictKeys :
           /\ verdicts'[w].evaluator = verdicts[w].evaluator
           /\ w # v => verdicts'[w] = verdicts[w]
  BY <1>1, <1>2 DEF VerdictType
<1> HIDE DEF a
<1>4. /\ attempts'[a].deliveredVerdictCount = attempts[a].deliveredVerdictCount + 1
      /\ attempts'[a].status = IF Finalizes(v) THEN "Finalized" ELSE attempts[a].status
      /\ \A k \in AttemptKeys :
           /\ attempts'[k].operator = attempts[k].operator
           /\ k # a => attempts'[k] = attempts[k]
  BY <1>1, <1>2 DEF AttemptType
<1>5. /\ r \in TaskType /\ r.creatorCredited = TRUE
      /\ r.creator = tasks[t].creator /\ r.policy = tasks[t].policy
  <2>1. tasks[t] \in TaskType /\ tasks[t].finalizedAttemptCount + 1 \in Nat
    BY <1>1 DEF TaskType
  <2> HIDE DEF t
  <2> QED BY <2>1, TaskUpdates DEF TaskType
<1> HIDE DEF r, t
<1>6. /\ \A u \in Tasks :
           /\ tasks'[u].creator = tasks[u].creator
           /\ tasks'[u].policy = tasks[u].policy
           /\ u # t => tasks'[u] = tasks[u]
      /\ tasks'[t].creatorCredited <=> tasks[t].creatorCredited \/ Finalizes(v)
  <2>1. CASE Finalizes(v)
    <3>1. tasks'[t] = MarkCapacity(r) /\ \A u \in Tasks : u # t => tasks'[u] = tasks[u]
      BY <1>1, <1>2, <2>1
    <3> QED BY <1>5, <2>1, <3>1, MarkCapacityCounts
  <2>2. CASE ~Finalizes(v)
    BY <1>2, <2>2
  <2> QED BY <2>1, <2>2
<1> QED BY <1>1, <1>2, <1>3, <1>4, <1>6 DEF Delivers, t, a

\* Delivering a verdict keeps the quorum's bookkeeping.
LEMMA DeliversQuorum ==
  ASSUME QuorumInv, NEW v, Delivers(v)
  PROVE  Committed' /\ FinalizedByQuorum'
<1> DEFINE a == <<v[1], v[2]>>
<1>1. /\ LedgerInv /\ CoordTypeOK /\ EvaluatedIsSubmitted /\ v \in VerdictKeys
      /\ a \in AttemptKeys /\ v[1] \in Tasks
  BY DEF QuorumInv, CountInv, LedgerInv, PaidInv, ConservationInv, TypeOK,
     Delivers
<1>2. Committed'
  <2>1. \A k \in AttemptKeys : attempts'[k].status # "None" =>
                                 attempts[k].status # "None"
    <3>1. attempts[a].status # "None"
      BY <1>1 DEF EvaluatedIsSubmitted, AttemptOf, Delivers
    <3> QED BY <3>1 DEF Delivers
  <2> QED BY <2>1 DEF QuorumInv, Committed, Delivers
<1>3. ASSUME NEW k \in AttemptKeys
      PROVE  /\ attempts'[k].deliveredVerdictCount
                  = Cardinality(DeliveredVerdicts(k)')
             /\ attempts'[k].status \in {"Submitted", "Finalized"} =>
                  (attempts'[k].status = "Finalized" <=>
                     Cardinality(DeliveredVerdicts(k)')
                       >= tasks'[k[1]].policy.minVerdicts)
             /\ \A w \in DeliveredVerdicts(k)' :
                  verdicts'[w].evaluator # attempts'[k].operator
  <2>1. /\ attempts[k].deliveredVerdictCount = Cardinality(DeliveredVerdicts(k))
        /\ attempts[k].status \in {"Submitted", "Finalized"} =>
             (attempts[k].status = "Finalized" <=>
                Cardinality(DeliveredVerdicts(k))
                  >= tasks[k[1]].policy.minVerdicts)
        /\ \A w \in DeliveredVerdicts(k) :
             verdicts[w].evaluator # attempts[k].operator
    BY DEF QuorumInv, FinalizedByQuorum
  <2>2. k[1] \in Tasks /\ tasks'[k[1]].policy = tasks[k[1]].policy
    BY KeySlots DEF Delivers
  <2>3. CASE k # a
    <3>1. DeliveredVerdicts(k)' = DeliveredVerdicts(k)
      BY <2>3 DEF DeliveredVerdicts, Delivers
    <3>2. attempts'[k] = attempts[k]
      BY <2>3 DEF Delivers
    <3>3. \A w \in DeliveredVerdicts(k) : verdicts'[w].evaluator = verdicts[w].evaluator
      BY DEF DeliveredVerdicts, Delivers
    <3> QED BY <2>1, <2>2, <3>1, <3>2, <3>3
  <2>4. CASE k = a
    <3>1. /\ DeliveredVerdicts(k)' = DeliveredVerdicts(k) \cup {v}
          /\ v \notin DeliveredVerdicts(k)
      BY <1>1, <2>4 DEF DeliveredVerdicts, Delivers
    <3>2. /\ Cardinality(DeliveredVerdicts(k)')
               = Cardinality(DeliveredVerdicts(k)) + 1
          /\ Cardinality(DeliveredVerdicts(k)) \in Nat
      <4>1. DeliveredVerdicts(k) \in SUBSET VerdictKeys
        BY DEF DeliveredVerdicts
      <4>2. /\ IsFiniteSet(DeliveredVerdicts(k))
            /\ Cardinality(DeliveredVerdicts(k)) \in Nat
        BY <4>1, VerdictCount
      <4> QED BY <3>1, <4>2, FS_AddElement
    <3>3. attempts[k].status \in {"Submitted", "Finalized"}
      BY <1>1, <2>4 DEF EvaluatedIsSubmitted, AttemptOf, Delivers
    <3>4. /\ attempts'[k].deliveredVerdictCount
               = attempts[k].deliveredVerdictCount + 1
          /\ attempts'[k].status = IF Finalizes(v) THEN "Finalized"
                                                   ELSE attempts[k].status
          /\ attempts'[k].operator = attempts[k].operator
          /\ verdicts[v].evaluator # attempts[k].operator
      BY <2>4 DEF Delivers
    <3>5. Finalizes(v) <=> /\ attempts[k].status = "Submitted"
                           /\ attempts[k].deliveredVerdictCount + 1
                                >= tasks[k[1]].policy.minVerdicts
      BY <2>4 DEF Finalizes
    <3>6. tasks[k[1]].policy.minVerdicts \in Nat
      BY <1>1, <2>2 DEF CoordTypeOK, TaskType, PolicyType
    <3>7. \A w \in DeliveredVerdicts(k)' :
            verdicts'[w].evaluator # attempts'[k].operator
      <4>1. \A w \in DeliveredVerdicts(k)' : verdicts'[w].evaluator = verdicts[w].evaluator
        BY DEF DeliveredVerdicts, Delivers
      <4> QED BY <2>1, <3>1, <3>4, <4>1
    <3> HIDE DEF a
    <3>8. attempts'[k].status = "Finalized" <=>
            Cardinality(DeliveredVerdicts(k)) + 1 >= tasks[k[1]].policy.minVerdicts
      <4>1. CASE attempts[k].status = "Submitted"
        BY <2>1, <3>4, <3>5, <4>1
      <4>2. CASE attempts[k].status = "Finalized"
        BY <2>1, <3>2, <3>4, <3>6, <4>2
      <4> QED BY <3>3, <4>1, <4>2
    <3> QED BY <2>1, <2>2, <3>2, <3>4, <3>7, <3>8
  <2> QED BY <2>3, <2>4
<1>4. FinalizedByQuorum'
  BY <1>3 DEF FinalizedByQuorum
<1> QED BY <1>2, <1>4

\* Every step is quiet and credits nobody, or delivers a verdict and credits it.
LEMMA StepDelivers ==
  ASSUME LedgerInv, [Next]_vars
  PROVE  \/ Quiet /\ UNCHANGED creditVars
         \/ \E v \in VerdictKeys : Delivers(v) /\ FinalizeVerdictCredit(v)
                                   /\ UNCHANGED activityChecker
<1>1. ASSUME NEW req \in delivered, claimVerdictDelivery(req)
      PROVE  \E v \in VerdictKeys : Delivers(v) /\ FinalizeVerdictCredit(v)
                                    /\ UNCHANGED activityChecker
  <2>1. /\ CanClaimDelivery(req.slot, req) /\ req.slot[3] # 0
        /\ CoordRecordVerdict(req.slot, reservations[req.slot].party, req.payload)
        /\ FinalizeVerdictCredit(req.slot) /\ Settle(req.slot, reservations[req.slot].party)
    BY <1>1 DEF claimVerdictDelivery
  <2>2. EscrowOK /\ CoordTypeOK
    BY TypeOKParts DEF LedgerInv, PaidInv, ConservationInv, TypeOK
  <2>3. req.slot \in VerdictKeys
    BY <2>1, <2>2, ClaimableSlot, SlotParts
  <2>4. UNCHANGED activityChecker
    BY <2>1 DEF Settle
  <2> QED BY <2>1, <2>2, <2>3, <2>4, RecordVerdictDelivers
<1> QED BY <1>1, StepQuiet

\* The invariant behind FinalizedAtQuorum is inductive.
LEMMA StepQuorum == QuorumInv /\ [Next]_vars => QuorumInv'
<1> SUFFICES ASSUME QuorumInv, [Next]_vars PROVE Committed' /\ FinalizedByQuorum'
  BY StepCounts DEF QuorumInv
<1>1. LedgerInv
  BY DEF QuorumInv, CountInv
<1> QED BY <1>1, StepDelivers, QuietQuorum, DeliversQuorum

\* Deployment satisfies QuorumInv: there is no task and no attempt.
LEMMA InitQuorum == Init => QuorumInv
<1> SUFFICES ASSUME Init PROVE Committed /\ FinalizedByQuorum
  BY InitCounts DEF QuorumInv
<1>1. /\ \A k \in AttemptKeys : attempts[k] = NoAttempt
      /\ \A v \in VerdictKeys : verdicts[v] = NoVerdict
  BY DEF Init, CoordInit
<1>2. Committed
  BY <1>1, CoordinatorAssumption DEF Init, CoordInit, Committed, NoAttempt, Tasks
<1>3. \A k : DeliveredVerdicts(k) = {}
  BY <1>1 DEF DeliveredVerdicts, NoVerdict
<1>4. Cardinality({}) = 0
  BY FS_EmptySet
<1>5. FinalizedByQuorum
  BY <1>1, <1>3, <1>4 DEF FinalizedByQuorum, NoAttempt
<1> QED BY <1>2, <1>5

\* In every reachable state an attempt is Finalized exactly when the quorum its
\* task asked for has been delivered, whatever order claims, verdicts, expiries
\* and added attempts come in, and no operator is among its own evaluators.
THEOREM FinalizedAtQuorum == Spec => []FinalizedByQuorum
<1>1. QuorumInv => FinalizedByQuorum
  BY DEF QuorumInv
<1> QED BY <1>1, InitQuorum, StepQuorum, PTL DEF Spec

-----------------------------------------------------------------------------
(* Credit *)

DeliveredBy(o)  == {v \in VerdictKeys : /\ verdicts[v].status = "Delivered"
                                        /\ verdicts[v].evaluator = o}
FinalizedOf(o)  == {k \in AttemptKeys : /\ attempts[k].status = "Finalized"
                                        /\ attempts[k].operator = o}
CreditedFor(o)  == {t \in Tasks : tasks[t].creatorCredited /\ tasks[t].creator = o}

\* A creation is credited once, and the checker stays set if nobody unsets it.
CreditedOnce ==
  /\ \A t \in creationCredited : tasks[t].creatorCredited
  /\ "setActivityChecker" \notin OwnerActs => activityChecker

CreditInv == QuorumInv /\ CreditsEarned /\ CreditedOnce

\* What an account has earned is a natural number, in three parts.
LEMMA EarnedParts ==
  ASSUME NEW o
  PROVE  /\ Earned(o) = Cardinality(DeliveredBy(o)) + Cardinality(FinalizedOf(o))
                          + Cardinality(CreditedFor(o))
         /\ Earned(o)' = Cardinality(DeliveredBy(o)') + Cardinality(FinalizedOf(o)')
                           + Cardinality(CreditedFor(o)')
         /\ IsFiniteSet(DeliveredBy(o)) /\ IsFiniteSet(DeliveredBy(o)')
         /\ IsFiniteSet(FinalizedOf(o)) /\ IsFiniteSet(FinalizedOf(o)')
         /\ IsFiniteSet(CreditedFor(o)) /\ IsFiniteSet(CreditedFor(o)')
<1>1. IsFiniteSet(DeliveredBy(o)) /\ IsFiniteSet(DeliveredBy(o)')
  BY VerdictCount DEF DeliveredBy
<1>2. IsFiniteSet(FinalizedOf(o)) /\ IsFiniteSet(FinalizedOf(o)')
  BY CountNat DEF FinalizedOf
<1>3. IsFiniteSet(CreditedFor(o)) /\ IsFiniteSet(CreditedFor(o)')
  <2>1. CreditedFor(o) \in SUBSET Tasks /\ CreditedFor(o)' \in SUBSET Tasks
    BY DEF CreditedFor
  <2> QED BY <2>1, TaskBoundsFinite, FS_Subset
<1>4. Earned(o) = Cardinality(DeliveredBy(o)) + Cardinality(FinalizedOf(o))
                    + Cardinality(CreditedFor(o))
  BY DEF Earned, DeliveredBy, FinalizedOf, CreditedFor
<1>5. Earned(o)' = Cardinality(DeliveredBy(o)') + Cardinality(FinalizedOf(o)')
                     + Cardinality(CreditedFor(o)')
  BY DEF Earned, DeliveredBy, FinalizedOf, CreditedFor
<1> QED BY <1>1, <1>2, <1>3, <1>4, <1>5

\* The creator of a task not yet created was not credited.
LEMMA UncreatedUncredited ==
  ASSUME CountInv, NEW t \in Tasks, t >= nextTaskId
  PROVE  tasks[t].creatorCredited = FALSE
<1>1. LedgerInv /\ CoordTypeOK
  BY DEF CountInv, LedgerInv, PaidInv, ConservationInv, TypeOK
<1>2. t \in Nat /\ nextTaskId \in Nat
  BY <1>1, CoordinatorAssumption DEF Tasks, CoordTypeOK
<1>3. ~(t < nextTaskId)
  BY <1>2
<1>4. \A k \in AttemptKeys : k[1] = t => attempts[k].status = "None"
  BY <1>1, <1>3, ClaimedTaskExists
<1>5. AttemptsOf(t, {"Finalized"}) = {}
  BY <1>4 DEF AttemptsOf
<1>6. tasks[t].creatorCredited \in BOOLEAN
  BY <1>1 DEF CoordTypeOK, TaskType
<1> QED BY <1>5, <1>6 DEF CountInv, CountersExact

\* A quiet step earns nobody anything.
LEMMA QuietEarns ==
  ASSUME CreditInv, Quiet
  PROVE  /\ \A o : Earned(o)' = Earned(o)
         /\ \A t \in Tasks : tasks[t].creatorCredited => tasks'[t].creatorCredited
<1>1. LedgerInv /\ CountInv /\ CoordTypeOK /\ EvaluatedIsSubmitted
  BY DEF CreditInv, QuorumInv, CountInv, LedgerInv, PaidInv, ConservationInv,
     TypeOK
<1>2. ASSUME NEW t \in Tasks
      PROVE  /\ tasks'[t].creatorCredited = tasks[t].creatorCredited
             /\ tasks[t].creatorCredited => tasks'[t].creator = tasks[t].creator
  <2>1. t \in Nat /\ nextTaskId \in Nat
    BY <1>1, CoordinatorAssumption DEF Tasks, CoordTypeOK
  <2>2. CASE t < nextTaskId
    BY <2>2 DEF Quiet, TaskQuiet
  <2>3. CASE t >= nextTaskId
    BY <1>1, <2>3, UncreatedUncredited DEF Quiet, TaskQuiet
  <2> QED BY <2>1, <2>2, <2>3
<1>3. ASSUME NEW o
      PROVE  /\ DeliveredBy(o)' = DeliveredBy(o)
             /\ FinalizedOf(o)' = FinalizedOf(o)
             /\ CreditedFor(o)' = CreditedFor(o)
  <2>1. DeliveredBy(o)' = DeliveredBy(o)
    <3>1. \A v \in VerdictKeys : verdicts[v].status = "Delivered" =>
            verdicts'[v].evaluator = verdicts[v].evaluator
      BY DEF Quiet, VerdictQuiet
    <3> QED BY <3>1 DEF DeliveredBy, Quiet, VerdictQuiet
  <2>2. FinalizedOf(o)' = FinalizedOf(o)
    <3>1. \A k \in AttemptKeys : attempts[k].status = "Finalized" =>
            attempts'[k].operator = attempts[k].operator
      BY DEF Quiet, AttemptQuiet
    <3> QED BY <3>1 DEF FinalizedOf, Quiet, AttemptQuiet
  <2>3. CreditedFor(o)' = CreditedFor(o)
    BY <1>2 DEF CreditedFor
  <2> QED BY <2>1, <2>2, <2>3
<1>4. \A o : Earned(o)' = Earned(o)
  BY <1>3, EarnedParts
<1> QED BY <1>2, <1>4

\* A delivered verdict earns what _finalizeVerdictCredit weighs it.
LEMMA DeliversEarns ==
  ASSUME CreditInv, NEW v, Delivers(v), NEW o
  PROVE  /\ Earned(o)' = Earned(o) + Weight(v, o)
         /\ Earned(o) \in Nat /\ Weight(v, o) \in Nat
<1> DEFINE t == v[1]
           a == <<v[1], v[2]>>
<1>1. /\ CoordTypeOK /\ v \in VerdictKeys /\ a \in AttemptKeys /\ t \in Tasks
  BY DEF CreditInv, QuorumInv, CountInv, LedgerInv, PaidInv, ConservationInv,
     TypeOK, Delivers
<1>2. /\ IsFiniteSet(DeliveredBy(o)) /\ IsFiniteSet(DeliveredBy(o)')
      /\ IsFiniteSet(FinalizedOf(o)) /\ IsFiniteSet(FinalizedOf(o)')
      /\ IsFiniteSet(CreditedFor(o)) /\ IsFiniteSet(CreditedFor(o)')
  BY EarnedParts
<1>3. /\ Cardinality(DeliveredBy(o)')
           = Cardinality(DeliveredBy(o)) + One(o = verdicts[v].evaluator)
      /\ Cardinality(DeliveredBy(o)) \in Nat
  <2>1. \A w : w # v => (w \in DeliveredBy(o)' <=> w \in DeliveredBy(o))
    BY DEF DeliveredBy, Delivers
  <2>2. v \notin DeliveredBy(o)
    BY DEF DeliveredBy, Delivers
  <2>3. v \in DeliveredBy(o)' <=> o = verdicts[v].evaluator
    BY DEF DeliveredBy, Delivers
  <2>4. /\ Cardinality(DeliveredBy(o)') + One(v \in DeliveredBy(o))
             = Cardinality(DeliveredBy(o)) + One(v \in DeliveredBy(o)')
        /\ Cardinality(DeliveredBy(o)) \in Nat /\ Cardinality(DeliveredBy(o)') \in Nat
    BY <1>2, <2>1, CountOne
  <2>5. /\ One(v \in DeliveredBy(o)) = 0
        /\ One(v \in DeliveredBy(o)') = One(o = verdicts[v].evaluator)
    BY <2>2, <2>3 DEF One
  <2> QED BY <2>4, <2>5
<1>4. /\ Cardinality(FinalizedOf(o)')
           = Cardinality(FinalizedOf(o)) + One(Finalizes(v) /\ o = attempts[a].operator)
      /\ Cardinality(FinalizedOf(o)) \in Nat
  <2>1. \A k : k # a => (k \in FinalizedOf(o)' <=> k \in FinalizedOf(o))
    BY DEF FinalizedOf, Delivers
  <2>2. Finalizes(v) => attempts[a].status = "Submitted"
    BY DEF Finalizes
  <2>3. /\ attempts'[a].operator = attempts[a].operator
        /\ attempts'[a].status = IF Finalizes(v) THEN "Finalized"
                                                 ELSE attempts[a].status
    BY <1>1 DEF Delivers
  <2> HIDE DEF a
  <2>4. /\ Cardinality(FinalizedOf(o)') + One(a \in FinalizedOf(o))
             = Cardinality(FinalizedOf(o)) + One(a \in FinalizedOf(o)')
        /\ Cardinality(FinalizedOf(o)) \in Nat /\ Cardinality(FinalizedOf(o)') \in Nat
    BY <1>2, <2>1, CountOne
  <2>5. /\ a \in FinalizedOf(o) <=> attempts[a].status = "Finalized"
                                    /\ attempts[a].operator = o
        /\ a \in FinalizedOf(o)' <=> attempts'[a].status = "Finalized"
                                     /\ attempts'[a].operator = o
    BY <1>1 DEF FinalizedOf
  <2>6. CASE Finalizes(v)
    <3>1. /\ One(a \in FinalizedOf(o)) = 0
          /\ One(a \in FinalizedOf(o)')
               = One(Finalizes(v) /\ o = attempts[a].operator)
      BY <2>2, <2>3, <2>5, <2>6 DEF One
    <3>2. One(Finalizes(v) /\ o = attempts[a].operator) \in {0, 1}
      BY DEF One
    <3> QED BY <2>4, <3>1, <3>2
  <2>7. CASE ~Finalizes(v)
    <3>1. /\ One(a \in FinalizedOf(o)') = One(a \in FinalizedOf(o))
          /\ One(a \in FinalizedOf(o)) \in {0, 1}
          /\ One(Finalizes(v) /\ o = attempts[a].operator) = 0
      BY <2>3, <2>5, <2>7 DEF One
    <3> QED BY <2>4, <3>1
  <2> QED BY <2>6, <2>7
<1>5. /\ Cardinality(CreditedFor(o)')
           = Cardinality(CreditedFor(o))
               + One(CreditsCreator(v) /\ o = tasks[t].creator)
      /\ Cardinality(CreditedFor(o)) \in Nat
  <2>1. \A u : u # t => (u \in CreditedFor(o)' <=> u \in CreditedFor(o))
    BY DEF CreditedFor, Delivers
  <2>2. CreditsCreator(v) <=> Finalizes(v) /\ ~tasks[t].creatorCredited
    BY DEF CreditsCreator
  <2>3. /\ tasks'[t].creator = tasks[t].creator
        /\ tasks'[t].creatorCredited <=> tasks[t].creatorCredited \/ Finalizes(v)
    BY <1>1 DEF Delivers
  <2> HIDE DEF t
  <2>4. /\ Cardinality(CreditedFor(o)') + One(t \in CreditedFor(o))
             = Cardinality(CreditedFor(o)) + One(t \in CreditedFor(o)')
        /\ Cardinality(CreditedFor(o)) \in Nat /\ Cardinality(CreditedFor(o)') \in Nat
    BY <1>2, <2>1, CountOne
  <2>5. /\ t \in CreditedFor(o) <=> tasks[t].creatorCredited /\ tasks[t].creator = o
        /\ t \in CreditedFor(o)' <=> tasks'[t].creatorCredited /\ tasks'[t].creator = o
    BY <1>1 DEF CreditedFor
  <2>6. CASE CreditsCreator(v)
    <3>1. /\ One(t \in CreditedFor(o)) = 0
          /\ One(t \in CreditedFor(o)')
               = One(CreditsCreator(v) /\ o = tasks[t].creator)
      BY <2>2, <2>3, <2>5, <2>6 DEF One
    <3>2. One(CreditsCreator(v) /\ o = tasks[t].creator) \in {0, 1}
      BY DEF One
    <3> QED BY <2>4, <3>1, <3>2
  <2>7. CASE ~CreditsCreator(v)
    <3>1. /\ One(t \in CreditedFor(o)') = One(t \in CreditedFor(o))
          /\ One(t \in CreditedFor(o)) \in {0, 1}
          /\ One(CreditsCreator(v) /\ o = tasks[t].creator) = 0
      BY <2>2, <2>3, <2>5, <2>7 DEF One
    <3> QED BY <2>4, <3>1
  <2> QED BY <2>6, <2>7
<1>6. /\ Weight(v, o) = One(o = verdicts[v].evaluator)
                          + One(Finalizes(v) /\ o = attempts[a].operator)
                          + One(CreditsCreator(v) /\ o = tasks[t].creator)
      /\ One(o = verdicts[v].evaluator) \in Nat
      /\ One(Finalizes(v) /\ o = attempts[a].operator) \in Nat
      /\ One(CreditsCreator(v) /\ o = tasks[t].creator) \in Nat
  BY DEF Weight, One
<1> HIDE DEF a, t
<1>7. /\ Earned(o) = Cardinality(DeliveredBy(o)) + Cardinality(FinalizedOf(o))
                       + Cardinality(CreditedFor(o))
      /\ Earned(o)' = Cardinality(DeliveredBy(o)') + Cardinality(FinalizedOf(o)')
                        + Cardinality(CreditedFor(o)')
  BY EarnedParts
<1> QED BY <1>3, <1>4, <1>5, <1>6, <1>7

\* The invariant behind CreditsAreEarned is inductive.
LEMMA StepCredits == CreditInv /\ [Next]_vars => CreditInv'
<1> SUFFICES ASSUME CreditInv, [Next]_vars PROVE CreditsEarned' /\ CreditedOnce'
  BY StepQuorum DEF CreditInv
<1>1. /\ LedgerInv /\ AroundOK
      /\ \A o \in Accounts : credits[o] <= Earned(o) /\ credits[o] \in Nat
      /\ "setActivityChecker" \notin OwnerActs =>
           activityChecker /\ \A o \in Accounts : credits[o] = Earned(o)
      /\ \A t \in creationCredited : tasks[t].creatorCredited
  BY TypeOKParts DEF CreditInv, QuorumInv, CountInv, LedgerInv, PaidInv,
     ConservationInv, CreditsEarned, CreditedOnce, AroundOK
<1>2. ASSUME Quiet, UNCHANGED creditVars
      PROVE  CreditsEarned' /\ CreditedOnce'
  <2>1. /\ \A o : Earned(o)' = Earned(o)
        /\ \A t \in Tasks : tasks[t].creatorCredited => tasks'[t].creatorCredited
    BY <1>2, QuietEarns
  <2>2. credits' = credits /\ creationCredited' = creationCredited
    BY <1>2 DEF creditVars
  <2>3. "setActivityChecker" \notin OwnerActs => activityChecker'
    <3>1. "setActivityChecker" \notin OwnerActs => activityChecker' = activityChecker
      <4>1. ASSUME NEW t \in Tasks, CreatorStep(t) \/ ClaimStep(t)
            PROVE  UNCHANGED activityChecker
        <5>1. \A s, o, m, r, d : Reserve(s, o, m, r, d) => UNCHANGED activityChecker
          BY DEF Reserve
        <5>2. ClaimStep(t) => UNCHANGED activityChecker
          BY <5>1 DEF ClaimStep, claimTask, claimEvaluation
        <5>3. CreatorStep(t) => UNCHANGED activityChecker
          BY DEF CreatorStep, addAttempts, closeTask, refundUnusedTaskBudget,
             RefundUnreserved
        <5> QED BY <4>1, <5>2, <5>3
      <4>2. ASSUME NEW t \in Tasks, NEW c \in Accounts, NEW p \in Policies,
                   NEW r1 \in Rates, NEW r2 \in Rates, createTask(t, c, p, r1, r2)
            PROVE  UNCHANGED activityChecker
        BY <4>2 DEF createTask
      <4>3. DeliveryStep \/ ExitStep => UNCHANGED activityChecker
        <5>1. \A s, c : Settle(s, c) => UNCHANGED activityChecker
          BY DEF Settle
        <5>2. \A s : Release(s) => UNCHANGED activityChecker
          BY DEF Release
        <5>3. \A s, p : Prepare(s, p) => UNCHANGED activityChecker
          BY DEF Prepare
        <5>4. \A s : deliverMarketplaceWithSignatures(s) => UNCHANGED activityChecker
          BY DEF deliverMarketplaceWithSignatures
        <5> QED BY <5>1, <5>2, <5>3, <5>4
                DEF DeliveryStep, ExitStep, prepareSolutionDelivery,
                    prepareVerdictDelivery, claimSolutionDelivery,
                    claimVerdictDelivery, releaseAttempt, releaseVerdict,
                    forfeitSolution, forfeitVerdict
      <4>4. "setActivityChecker" \notin OwnerActs /\ OwnerStep =>
              UNCHANGED activityChecker
        BY DEF OwnerStep, setActivityChecker, setAuthorizedRouter,
           changeMechOperator, routerVars
      <4>5. Tick \/ UNCHANGED vars => UNCHANGED activityChecker
        BY DEF Tick, vars, routerVars
      <4> QED BY <4>1, <4>2, <4>3, <4>4, <4>5 DEF Next
    <3> QED BY <1>1, <3>1
  <2>4. CreditedOnce'
    <3>1. creationCredited \subseteq Tasks
      BY <1>1 DEF AroundOK
    <3> QED BY <1>1, <2>1, <2>2, <2>3, <3>1 DEF CreditedOnce
  <2>5. CreditsEarned'
    BY <1>1, <2>1, <2>2 DEF CreditsEarned
  <2> QED BY <2>4, <2>5
<1>3. ASSUME NEW v \in VerdictKeys, Delivers(v), FinalizeVerdictCredit(v),
             UNCHANGED activityChecker
      PROVE  CreditsEarned' /\ CreditedOnce'
  <2>1. \A o : /\ Earned(o)' = Earned(o) + Weight(v, o)
               /\ Earned(o) \in Nat /\ Weight(v, o) \in Nat
    BY <1>3, DeliversEarns
  <2>2. \A t \in Tasks : tasks[t].creatorCredited => tasks'[t].creatorCredited
    BY <1>3 DEF Delivers
  <2>3. CreditsCreator(v) => tasks'[v[1]].creatorCredited
    BY <1>3 DEF Delivers, CreditsCreator
  <2>4. creationCredited \subseteq Tasks
    BY <1>1 DEF AroundOK
  <2>5. CASE activityChecker
    <3>1. \A o \in Accounts : credits'[o] = credits[o] + Weight(v, o)
      BY <1>3, <2>5 DEF FinalizeVerdictCredit
    <3>2. creationCredited' \subseteq creationCredited \cup
            (IF CreditsCreator(v) THEN {v[1]} ELSE {})
      BY <1>3, <2>5 DEF FinalizeVerdictCredit
    <3>3. \A o \in Accounts : /\ credits'[o] <= Earned(o)'
                              /\ credits[o] = Earned(o) => credits'[o] = Earned(o)'
      <4> SUFFICES ASSUME NEW o \in Accounts
                   PROVE  /\ credits'[o] <= Earned(o)'
                          /\ credits[o] = Earned(o) => credits'[o] = Earned(o)'
        OBVIOUS
      <4>1. /\ credits[o] \in Nat /\ credits[o] <= Earned(o)
            /\ Earned(o)' = Earned(o) + Weight(v, o)
            /\ Earned(o) \in Nat /\ Weight(v, o) \in Nat
            /\ credits'[o] = credits[o] + Weight(v, o)
        BY <1>1, <2>1, <3>1
      <4> QED BY <4>1
    <3>4. CreditsEarned'
      BY <1>1, <3>3 DEF CreditsEarned
    <3>5. CreditedOnce'
      BY <1>1, <1>3, <2>2, <2>3, <2>4, <3>2 DEF CreditedOnce
    <3> QED BY <3>4, <3>5
  <2>6. CASE ~activityChecker
    <3>1. credits' = credits /\ creationCredited' = creationCredited
      BY <1>3, <2>6 DEF FinalizeVerdictCredit, creditVars
    <3>2. "setActivityChecker" \in OwnerActs
      BY <1>1, <2>6
    <3>3. ASSUME NEW o \in Accounts PROVE credits'[o] <= Earned(o)'
      <4>1. /\ credits[o] \in Nat /\ credits[o] <= Earned(o)
            /\ Earned(o)' = Earned(o) + Weight(v, o)
            /\ Earned(o) \in Nat /\ Weight(v, o) \in Nat
        BY <1>1, <2>1
      <4> QED BY <3>1, <4>1
    <3>4. CreditsEarned'
      BY <3>2, <3>3 DEF CreditsEarned
    <3>5. CreditedOnce'
      BY <1>1, <2>2, <2>4, <3>1, <3>2 DEF CreditedOnce
    <3> QED BY <3>4, <3>5
  <2> QED BY <2>5, <2>6
<1> QED BY <1>1, <1>2, <1>3, StepDelivers

\* Deployment satisfies CreditInv: nothing is earned.
LEMMA InitCredits == Init => CreditInv
<1> SUFFICES ASSUME Init PROVE CreditsEarned /\ CreditedOnce
  BY InitQuorum DEF CreditInv
<1>1. ASSUME NEW o PROVE Earned(o) = 0
  <2>1. DeliveredBy(o) = {} /\ FinalizedOf(o) = {} /\ CreditedFor(o) = {}
    BY DEF Init, CoordInit, DeliveredBy, FinalizedOf, CreditedFor, NoTask,
       NoAttempt, NoVerdict
  <2>2. Cardinality({}) = 0
    BY FS_EmptySet
  <2> QED BY <2>1, <2>2, EarnedParts
<1>2. /\ \A o \in Accounts : credits[o] = 0
      /\ creationCredited = {} /\ activityChecker
  BY DEF Init
<1> QED BY <1>1, <1>2 DEF CreditsEarned, CreditedOnce

\* In every reachable state activity credit is one per verdict delivered,
\* attempt finalized and task first finalized and never more, through forfeits,
\* expiries, releases and a checker that is switched off and on; while the
\* checker stays set none is lost.
THEOREM CreditsAreEarned == Spec => []CreditsEarned
<1>1. CreditInv => CreditsEarned
  BY DEF CreditInv
<1> QED BY <1>1, InitCredits, StepCredits, PTL DEF Spec
=============================================================================
