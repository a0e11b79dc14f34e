------------------------- MODULE TaskCoordinatorV4 -------------------------
(***************************************************************************)
(* The lifecycle half of the on-chain marketplace: tasks, the attempts     *)
(* operators claim on them, and the verdicts evaluators give on submitted  *)
(* attempts (contracts/src/tasks/TaskCoordinatorV4.sol).                   *)
(*                                                                         *)
(* Every mutating function of the contract is onlyRouter, so this module   *)
(* has no Next of its own: it defines, for each function, the guard it     *)
(* imposes and the change it makes to the coordinator's storage, and       *)
(* JinnRouterV4 conjoins them with what the router does in the same        *)
(* transaction. Six of them are only ever reached after the router's _reap *)
(* has called reapExpired in that transaction; those start from the        *)
(* storage reapExpired leaves (the Reaped* operators).                     *)
(***************************************************************************)
EXTENDS Integers, FiniteSets

CONSTANTS
  Accounts,              \* creators, operators and evaluators (addresses)
  NoOne,                 \* the zero address
  Payloads,              \* delivery digests, with a verdict's code
  NoPayload,             \* the zero digest
  Policies,              \* the TaskPolicy values creators post
  MaxTasks,              \* bound: tasks ever created
  MaxAttempts,           \* bound: attempts per task (stands for 2^32 - 1)
  MaxVerdicts,           \* bound: evaluations claimed per attempt
  ReleaseMinHold,        \* releaseMinHoldSeconds, fixed at deployment
  MaxSimultaneousClaims  \* maxSimultaneousClaimsPerOperator; 0 is off

Tasks          == 1..MaxTasks
AttemptIndices == 0..(MaxAttempts - 1)
VerdictLegs    == 1..MaxVerdicts   \* leg l is verdictIndex l - 1
AttemptKeys    == Tasks \X AttemptIndices
VerdictKeys    == Tasks \X AttemptIndices \X VerdictLegs

PolicyType ==
  [maxTotal: Nat, maxConcurrent: Nat, submissionDeadline: Nat,
   closeAt: Nat, responseTimeout: Nat, minVerdicts: Nat]

ASSUME CoordinatorAssumption ==
  /\ NoOne \notin Accounts
  /\ NoPayload \notin Payloads
  /\ MaxTasks \in Nat /\ MaxAttempts \in Nat /\ MaxVerdicts \in Nat
  /\ ReleaseMinHold \in Nat \ {0}
  /\ MaxSimultaneousClaims \in Nat
  /\ IsFiniteSet(Accounts)
  /\ Policies \subseteq PolicyType

VARIABLES
  now,                 \* block.timestamp
  authorizedRouter,    \* is this router still the coordinator's router?
  nextTaskId,
  tasks,               \* _tasks
  attempts,            \* _attempts
  verdicts,            \* _verdicts
  operatorLiveClaims   \* attempts each operator holds Live, over all tasks

coordVars == <<tasks, attempts, verdicts, operatorLiveClaims>>

TaskStatuses    == {"None", "Open", "Closed"}
AttemptStatuses == {"None", "Live", "Submitted", "Released", "Expired",
                    "Finalized", "Forfeited"}
VerdictStatuses == {"None", "Live", "Delivered", "Released", "Expired",
                    "Forfeited"}
TerminalCauses  == {"None", "CreatorClose", "CapacityExhausted"}

NoPolicy == [maxTotal |-> 0, maxConcurrent |-> 0, submissionDeadline |-> 0,
             closeAt |-> 0, responseTimeout |-> 0, minVerdicts |-> 0]

TaskType ==
  [creator: Accounts \cup {NoOne}, status: TaskStatuses, policy: PolicyType,
   nextAttemptIndex: Nat, liveOccupancy: Nat, settledAttemptCount: Nat,
   finalizedAttemptCount: Nat, creatorCredited: BOOLEAN,
   terminalCause: TerminalCauses]

AttemptType ==
  [operator: Accounts \cup {NoOne}, digest: Payloads \cup {NoPayload},
   deadline: Nat, claimedAt: Nat, nextVerdictIndex: Nat,
   deliveredVerdictCount: Nat, status: AttemptStatuses]

VerdictType ==
  [evaluator: Accounts \cup {NoOne}, digest: Payloads \cup {NoPayload},
   deadline: Nat, claimedAt: Nat, status: VerdictStatuses]

NoTask ==
  [creator |-> NoOne, status |-> "None", policy |-> NoPolicy,
   nextAttemptIndex |-> 0, liveOccupancy |-> 0, settledAttemptCount |-> 0,
   finalizedAttemptCount |-> 0, creatorCredited |-> FALSE,
   terminalCause |-> "None"]

NoAttempt ==
  [operator |-> NoOne, digest |-> NoPayload, deadline |-> 0, claimedAt |-> 0,
   nextVerdictIndex |-> 0, deliveredVerdictCount |-> 0, status |-> "None"]

NoVerdict ==
  [evaluator |-> NoOne, digest |-> NoPayload, deadline |-> 0,
   claimedAt |-> 0, status |-> "None"]

CoordTypeOK ==
  /\ now \in Nat
  /\ authorizedRouter \in BOOLEAN
  /\ nextTaskId \in Nat
  /\ tasks \in [Tasks -> TaskType]
  /\ attempts \in [AttemptKeys -> AttemptType]
  /\ verdicts \in [VerdictKeys -> VerdictType]
  /\ operatorLiveClaims \in [Accounts -> Nat]

\* initialize: nextTaskId starts at 1 and the mappings are empty.
CoordInit ==
  /\ now = 0
  /\ authorizedRouter = TRUE
  /\ nextTaskId = 1
  /\ tasks = [t \in Tasks |-> NoTask]
  /\ attempts = [k \in AttemptKeys |-> NoAttempt]
  /\ verdicts = [k \in VerdictKeys |-> NoVerdict]
  /\ operatorLiveClaims = [o \in Accounts |-> 0]

-----------------------------------------------------------------------------
(***************************************************************************)
(* reapExpired: every Live attempt and verdict whose deadline has passed   *)
(* becomes Expired, and expired attempts give back their occupancy. It     *)
(* does not look at the Mech marketplace: a delivered reservation expires  *)
(* here too.                                                               *)
(***************************************************************************)
ExpiredAttempts(t) ==
  {k \in AttemptKeys : /\ k[1] = t
                       /\ k[2] < tasks[t].nextAttemptIndex
                       /\ attempts[k].status = "Live"
                       /\ now > attempts[k].deadline}

ExpiredAttemptsOf(t, o) ==
  {k \in ExpiredAttempts(t) : attempts[k].operator = o}

ReapedTasks(t) ==
  [tasks EXCEPT ![t].liveOccupancy = @ - Cardinality(ExpiredAttempts(t))]

ReapedAttempts(t) ==
  LET expired == ExpiredAttempts(t) IN
  [k \in AttemptKeys |->
     IF k \in expired
       THEN [attempts[k] EXCEPT !.status = "Expired"]
       ELSE attempts[k]]

ReapedLiveClaims(t) ==
  [o \in Accounts |->
     operatorLiveClaims[o] - Cardinality(ExpiredAttemptsOf(t, o))]

ReapedVerdicts(t) ==
  [k \in VerdictKeys |->
     IF /\ k[1] = t
        /\ k[2] < tasks[t].nextAttemptIndex
        /\ k[3] <= attempts[<<t, k[2]>>].nextVerdictIndex
        /\ verdicts[k].status = "Live"
        /\ now > verdicts[k].deadline
       THEN [verdicts[k] EXCEPT !.status = "Expired"]
       ELSE verdicts[k]]

\* Checked arithmetic: an occupancy counter that would underflow reverts.
CanReapExpired(t) ==
  /\ authorizedRouter
  /\ tasks[t].status # "None"
  /\ Cardinality(ExpiredAttempts(t)) <= tasks[t].liveOccupancy
  /\ \A o \in Accounts :
       Cardinality(ExpiredAttemptsOf(t, o)) <= operatorLiveClaims[o]

-----------------------------------------------------------------------------
ValidPolicy(p) ==
  /\ p.maxTotal >= 1
  /\ p.maxConcurrent >= 1 /\ p.maxConcurrent <= p.maxTotal
  /\ p.minVerdicts >= 1
  /\ p.responseTimeout # 0
  /\ p.submissionDeadline > now
  /\ p.closeAt # 0 => p.closeAt >= p.submissionDeadline

CoordCreateTask(t, creator, p) ==
  /\ authorizedRouter
  /\ ValidPolicy(p)
  /\ t = nextTaskId
  /\ nextTaskId' = nextTaskId + 1
  /\ tasks' = [tasks EXCEPT ![t] =
                 [NoTask EXCEPT !.creator = creator, !.status = "Open",
                                !.policy = p]]
  /\ UNCHANGED <<attempts, verdicts, operatorLiveClaims>>

CoordAddAttempts(t, added) ==
  /\ CanReapExpired(t)
  /\ added # 0
  /\ tasks[t].status = "Open"
  /\ tasks[t].policy.maxTotal + added <= MaxAttempts
  /\ tasks[t].policy.maxConcurrent <= tasks[t].policy.maxTotal + added
  /\ tasks' = [ReapedTasks(t) EXCEPT ![t].policy.maxTotal = @ + added]
  /\ attempts' = ReapedAttempts(t)
  /\ verdicts' = ReapedVerdicts(t)
  /\ operatorLiveClaims' = ReapedLiveClaims(t)
  /\ UNCHANGED nextTaskId

\* Room for one more Live attempt, on the task and for the operator.
HasCapacity(t, operator) ==
  /\ tasks[t].nextAttemptIndex < tasks[t].policy.maxTotal
  /\ ReapedTasks(t)[t].liveOccupancy < tasks[t].policy.maxConcurrent
  /\ MaxSimultaneousClaims # 0 =>
       ReapedLiveClaims(t)[operator] < MaxSimultaneousClaims

CoordClaimTask(t, operator, deadline) ==
  /\ CanReapExpired(t)
  /\ deadline > now
  /\ tasks[t].status = "Open"
  /\ now <= tasks[t].policy.submissionDeadline
  /\ tasks[t].policy.closeAt # 0 => now < tasks[t].policy.closeAt
  /\ HasCapacity(t, operator)
  /\ tasks' = [ReapedTasks(t) EXCEPT ![t].nextAttemptIndex = @ + 1,
                                     ![t].liveOccupancy = @ + 1]
  /\ attempts' = [ReapedAttempts(t) EXCEPT
                    ![<<t, tasks[t].nextAttemptIndex>>] =
                      [NoAttempt EXCEPT !.operator = operator,
                                        !.deadline = deadline,
                                        !.claimedAt = now,
                                        !.status = "Live"]]
  /\ verdicts' = ReapedVerdicts(t)
  /\ operatorLiveClaims' = [ReapedLiveClaims(t) EXCEPT ![operator] = @ + 1]
  /\ UNCHANGED nextTaskId

CoordReleaseAttempt(t, i, operator) ==
  LET k == <<t, i>> IN
  /\ CanReapExpired(t)
  /\ attempts[k].operator = operator
  /\ ReapedAttempts(t)[k].status = "Live"
  /\ now >= attempts[k].claimedAt + ReleaseMinHold
  /\ ReapedTasks(t)[t].liveOccupancy >= 1
  /\ ReapedLiveClaims(t)[operator] >= 1
  /\ attempts' = [ReapedAttempts(t) EXCEPT ![k].status = "Released"]
  /\ tasks' = [ReapedTasks(t) EXCEPT ![t].liveOccupancy = @ - 1]
  /\ operatorLiveClaims' = [ReapedLiveClaims(t) EXCEPT ![operator] = @ - 1]
  /\ verdicts' = ReapedVerdicts(t)
  /\ UNCHANGED nextTaskId

\* Mutant: an attempt that expired gives its occupancy back a second time.
CoordForfeitAttempt_FreedTwice(t, i) ==
  LET k == <<t, i>> IN
  /\ authorizedRouter
  /\ attempts[k].status \in {"Live", "Expired"}
  /\ tasks' = [tasks EXCEPT ![t].liveOccupancy = @ - 1]
  /\ operatorLiveClaims' =
       [operatorLiveClaims EXCEPT ![attempts[k].operator] = @ - 1]
  /\ attempts' = [attempts EXCEPT ![k].status = "Forfeited"]
  /\ UNCHANGED <<verdicts, nextTaskId>>

\* forfeitAttempt: occupancy is given back once, by this call when the attempt
\* is still Live, or by the reapExpired that already moved it to Expired.
CoordForfeitAttempt(t, i) ==
  LET k == <<t, i>>
      o == attempts[k].operator IN
  /\ authorizedRouter
  /\ \/ /\ attempts[k].status = "Live"
        /\ tasks[t].liveOccupancy >= 1 /\ operatorLiveClaims[o] >= 1
        /\ tasks' = [tasks EXCEPT ![t].liveOccupancy = @ - 1]
        /\ operatorLiveClaims' = [operatorLiveClaims EXCEPT ![o] = @ - 1]
     \/ /\ attempts[k].status = "Expired"
        /\ UNCHANGED <<tasks, operatorLiveClaims>>
  /\ attempts' = [attempts EXCEPT ![k].status = "Forfeited"]
  /\ UNCHANGED <<verdicts, nextTaskId>>

\* Mutant: the coordinator's refusal of a router it no longer accepts is
\* swallowed, and the router goes on.
CoordForfeitVerdict_Swallowed(k) ==
  /\ verdicts' = IF authorizedRouter
                   THEN [verdicts EXCEPT ![k].status = "Forfeited"]
                   ELSE verdicts
  /\ UNCHANGED <<tasks, attempts, operatorLiveClaims, nextTaskId>>

CoordForfeitVerdict(k) ==
  /\ authorizedRouter
  /\ verdicts[k].status \in {"Live", "Expired"}
  /\ verdicts' = [verdicts EXCEPT ![k].status = "Forfeited"]
  /\ UNCHANGED <<tasks, attempts, operatorLiveClaims, nextTaskId>>

CoordCloseTask(t) ==
  /\ CanReapExpired(t)
  /\ tasks[t].status = "Open"
  /\ tasks' = [ReapedTasks(t) EXCEPT ![t].status = "Closed",
                                     ![t].terminalCause = "CreatorClose"]
  /\ attempts' = ReapedAttempts(t)
  /\ verdicts' = ReapedVerdicts(t)
  /\ operatorLiveClaims' = ReapedLiveClaims(t)
  /\ UNCHANGED nextTaskId

\* reapExpired alone: what a router touch leaves behind when the rest of the
\* transaction does not change the coordinator.
CoordReap(t) ==
  /\ CanReapExpired(t)
  /\ tasks' = ReapedTasks(t)
  /\ attempts' = ReapedAttempts(t)
  /\ verdicts' = ReapedVerdicts(t)
  /\ operatorLiveClaims' = ReapedLiveClaims(t)
  /\ UNCHANGED nextTaskId

\* _maybeMarkCapacityExhausted, on a task record.
MarkCapacity(r) ==
  IF /\ r.terminalCause = "None"
     /\ r.settledAttemptCount >= r.policy.maxTotal
     /\ r.liveOccupancy = 0
    THEN [r EXCEPT !.terminalCause = "CapacityExhausted"]
    ELSE r

\* Allowed while the task is Closed: only the deadline ends the window.
CoordRecordSolutionDelivery(t, i, operator, payload) ==
  LET k == <<t, i>> IN
  /\ authorizedRouter
  /\ attempts[k].operator = operator
  /\ attempts[k].status = "Live"
  /\ now <= attempts[k].deadline
  /\ tasks[t].liveOccupancy >= 1 /\ operatorLiveClaims[operator] >= 1
  /\ attempts' = [attempts EXCEPT ![k].digest = payload,
                                  ![k].status = "Submitted"]
  /\ tasks' = [tasks EXCEPT ![t] =
                 MarkCapacity([tasks[t] EXCEPT !.liveOccupancy = @ - 1,
                                               !.settledAttemptCount = @ + 1])]
  /\ operatorLiveClaims' = [operatorLiveClaims EXCEPT ![operator] = @ - 1]
  /\ UNCHANGED <<verdicts, nextTaskId>>

\* Mutant: an attempt may be evaluated while its solution is outstanding.
CoordClaimEvaluation_BeforeSubmission(t, i, evaluator, deadline) ==
  LET k == <<t, i>> IN
  /\ CanReapExpired(t)
  /\ tasks[t].status = "Open"
  /\ attempts[k].status \in {"Live", "Submitted", "Finalized"}
  /\ evaluator # attempts[k].operator
  /\ attempts' = [ReapedAttempts(t) EXCEPT ![k].nextVerdictIndex = @ + 1]
  /\ verdicts' = [ReapedVerdicts(t) EXCEPT
                    ![<<t, i, attempts[k].nextVerdictIndex + 1>>] =
                      [evaluator |-> evaluator, digest |-> NoPayload,
                       deadline |-> deadline, claimedAt |-> now,
                       status |-> "Live"]]
  /\ tasks' = ReapedTasks(t)
  /\ operatorLiveClaims' = ReapedLiveClaims(t)
  /\ UNCHANGED nextTaskId

\* The evaluator differs from the operator whatever the policy's
\* requireDistinctEvaluator says, so the policy field is left out.
CoordClaimEvaluation(t, i, evaluator, deadline) ==
  LET k == <<t, i>> IN
  /\ CanReapExpired(t)
  /\ deadline > now
  /\ tasks[t].status = "Open"
  /\ attempts[k].status \in {"Submitted", "Finalized"}
  /\ evaluator # attempts[k].operator
  /\ attempts' = [ReapedAttempts(t) EXCEPT ![k].nextVerdictIndex = @ + 1]
  /\ verdicts' = [ReapedVerdicts(t) EXCEPT
                    ![<<t, i, attempts[k].nextVerdictIndex + 1>>] =
                      [NoVerdict EXCEPT !.evaluator = evaluator,
                                        !.deadline = deadline,
                                        !.claimedAt = now,
                                        !.status = "Live"]]
  /\ tasks' = ReapedTasks(t)
  /\ operatorLiveClaims' = ReapedLiveClaims(t)
  /\ UNCHANGED nextTaskId

CoordReleaseVerdict(k, evaluator) ==
  LET t == k[1] IN
  /\ CanReapExpired(t)
  /\ verdicts[k].evaluator = evaluator
  /\ ReapedVerdicts(t)[k].status = "Live"
  /\ now >= verdicts[k].claimedAt + ReleaseMinHold
  /\ verdicts' = [ReapedVerdicts(t) EXCEPT ![k].status = "Released"]
  /\ tasks' = ReapedTasks(t)
  /\ attempts' = ReapedAttempts(t)
  /\ operatorLiveClaims' = ReapedLiveClaims(t)
  /\ UNCHANGED nextTaskId

\* Mutant: the quorum is compared before the verdict is counted.
Finalizes_CountedLate(k) ==
  LET a == <<k[1], k[2]>> IN
  /\ attempts[a].status = "Submitted"
  /\ attempts[a].deliveredVerdictCount >= tasks[k[1]].policy.minVerdicts

\* The verdict now being recorded completes the attempt's quorum.
Finalizes(k) ==
  LET a == <<k[1], k[2]>> IN
  /\ attempts[a].status = "Submitted"
  /\ attempts[a].deliveredVerdictCount + 1 >= tasks[k[1]].policy.minVerdicts

CreditsCreator(k) == Finalizes(k) /\ ~tasks[k[1]].creatorCredited

CoordRecordVerdict(k, evaluator, payload) ==
  LET t == k[1]
      a == <<k[1], k[2]>> IN
  /\ authorizedRouter
  /\ verdicts[k].evaluator = evaluator
  /\ verdicts[k].status = "Live"
  /\ now <= verdicts[k].deadline
  /\ evaluator # attempts[a].operator
  /\ verdicts' = [verdicts EXCEPT ![k].digest = payload,
                                  ![k].status = "Delivered"]
  /\ attempts' =
       [attempts EXCEPT
          ![a].deliveredVerdictCount = @ + 1,
          ![a].status = IF Finalizes(k) THEN "Finalized" ELSE @]
  /\ tasks' =
       IF Finalizes(k)
         THEN [tasks EXCEPT ![t] =
                 MarkCapacity([tasks[t] EXCEPT
                                 !.finalizedAttemptCount = @ + 1,
                                 !.creatorCredited = TRUE])]
         ELSE tasks
  /\ UNCHANGED <<operatorLiveClaims, nextTaskId>>
=============================================================================
