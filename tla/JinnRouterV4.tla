---------------------------- MODULE JinnRouterV4 ----------------------------
(***************************************************************************)
(* The money half of the on-chain marketplace                              *)
(* (contracts/src/staking/JinnRouterV4.sol) composed with its coordinator: *)
(* the escrow of every task, the reservation each claimed attempt or       *)
(* evaluation holds on it, the preparation that authorises one Mech        *)
(* delivery, and settlement, release, forfeit and refund.                  *)
(*                                                                         *)
(* Every action is one transaction: it runs to the end or reverts, so its  *)
(* guards are all of the reverts on its path. Processes interleave at the  *)
(* granularity of transactions.                                            *)
(*                                                                         *)
(* Around the router are the Mech marketplace (the router's nonce and the  *)
(* requests it delivered), the Mechs and who operates them, the OLAS token *)
(* and the activity checker; they are modelled by what the router's calls  *)
(* see of them.                                                            *)
(***************************************************************************)
EXTENDS TaskCoordinatorV4

CONSTANTS
  Mechs,         \* Mech contracts
  FirstOperator, \* who operates each Mech at the start
  NoRequest,     \* the zero request id
  MaxRate,       \* bound: delivery rates are 1..MaxRate
  Horizon,       \* bound: the clock stops here
  OwnerActs      \* which administrative actions this instance includes

Rates == 1..MaxRate
Kinds == {"solution", "verdict"}
Legs  == 0..MaxVerdicts            \* 0 is the solution leg, others verdicts
Slots == Tasks \X AttemptIndices \X Legs
Purses == Tasks \X Kinds           \* one budget per task and kind of leg

ASSUME RouterAssumption ==
  /\ FirstOperator \in [Mechs -> Accounts]
  /\ MaxRate \in Nat
  /\ Horizon \in Nat
  /\ NoOne \notin Mechs
  /\ OwnerActs \subseteq {"setActivityChecker", "setAuthorizedRouter",
                          "changeMechOperator"}

\* getRequestId is injective in what it hashes.
RequestType ==
  [mech: Mechs, slot: Slots, payload: Payloads, rate: Rates, nonce: Nat]

ASSUME RequestAssumption == NoRequest \notin RequestType

VARIABLES
  maxRate,         \* solutionMaxDeliveryRate, verdictMaxDeliveryRate
  remaining,       \* solutionBudgetRemaining, verdictBudgetRemaining
  reserved,        \* solutionReserved, verdictReserved
  spentOut,        \* solutionSpentOut, verdictSpentOut
  reservations,    \* solutionReservations, verdictReservations
  preparations,    \* expectedRequestId of solution- and verdictPreparations
  claimed,         \* request ids already claimed or forfeited
  activityChecker, \* is an activity checker set?
  nonce,           \* mapNonces[router] of the Mech marketplace
  delivered,       \* requests of the router with status Delivered
  mechOperator,    \* the account isOperator accepts, per Mech
  routerBalance,   \* OLAS the router holds
  credits,         \* eligibleActivityWeight, in units of 1e18
  creationCredited,\* taskCreationFinalized of the activity checker
  deposited,       \* history: OLAS paid in, per purse
  refunded,        \* history: OLAS refunded, per purse
  endedBy          \* history: whose call ended the reservation of a slot

purseVars   == <<maxRate, remaining, reserved, spentOut, deposited, refunded>>
marketVars  == <<nonce, delivered>>
creditVars  == <<credits, creationCredited>>
routerVars  == <<purseVars, reservations, preparations, claimed,
                 activityChecker, marketVars, mechOperator, routerBalance,
                 creditVars, endedBy>>
vars        == <<now, authorizedRouter, nextTaskId, coordVars, routerVars>>

Kind(s)         == IF s[3] = 0 THEN "solution" ELSE "verdict"
Purse(s)        == <<s[1], Kind(s)>>
SolutionSlot(s) == <<s[1], s[2], 0>>

(***************************************************************************)
(* A Reservation's kind, settled and released fields are one state here:   *)
(* every write to settled or released is guarded by kind # None, ~settled  *)
(* and ~released.                                                          *)
(***************************************************************************)
ReservationStates == {"None", "Open", "Settled", "Released"}

NoReservation ==
  [state |-> "None", party |-> NoOne, mech |-> NoOne, rate |-> 0,
   deadline |-> 0]

ReservationType ==
  [state: ReservationStates \ {"None"}, party: Accounts, mech: Mechs,
   rate: Rates, deadline: Nat]

Open(s)   == reservations[s].state = "Open"
Live(s)   == Open(s) /\ now <= reservations[s].deadline   \* _isLive
Lapsed(s) == Open(s) /\ now > reservations[s].deadline
\* A preparation whose request the marketplace reports Delivered: the Mech has
\* been paid out of the router's OLAS.
Paid(s)   == preparations[s] \in delivered

\* The sum of the rates of the slots in S, as the number of units <<s, j>>.
Units(S)    == {u \in S \X Rates : u[2] <= reservations[u[1]].rate}
SumRates(S) == Cardinality(Units(S))

TypeOK ==
  /\ CoordTypeOK
  /\ maxRate \in [Purses -> Nat]
  /\ remaining \in [Purses -> Nat]
  /\ reserved \in [Purses -> Nat]
  /\ spentOut \in [Purses -> Nat]
  /\ deposited \in [Purses -> Nat]
  /\ refunded \in [Purses -> Nat]
  /\ reservations \in [Slots -> ReservationType \cup {NoReservation}]
  /\ preparations \in [Slots -> RequestType \cup {NoRequest}]
  /\ claimed \subseteq RequestType
  /\ delivered \subseteq RequestType
  /\ activityChecker \in BOOLEAN
  /\ nonce \in Nat
  /\ mechOperator \in [Mechs -> Accounts]
  /\ routerBalance \in Nat
  /\ credits \in [Accounts -> Nat]
  /\ creationCredited \subseteq Tasks
  /\ endedBy \in [Slots -> Accounts \cup {NoOne}]

Init ==
  /\ CoordInit
  /\ maxRate = [x \in Purses |-> 0]
  /\ remaining = [x \in Purses |-> 0]
  /\ reserved = [x \in Purses |-> 0]
  /\ spentOut = [x \in Purses |-> 0]
  /\ deposited = [x \in Purses |-> 0]
  /\ refunded = [x \in Purses |-> 0]
  /\ reservations = [s \in Slots |-> NoReservation]
  /\ preparations = [s \in Slots |-> NoRequest]
  /\ claimed = {}
  /\ delivered = {}
  /\ activityChecker = TRUE
  /\ nonce = 0
  /\ mechOperator = FirstOperator
  /\ routerBalance = 0
  /\ credits = [o \in Accounts |-> 0]
  /\ creationCredited = {}
  /\ endedBy = [s \in Slots |-> NoOne]

-----------------------------------------------------------------------------
(***************************************************************************)
(* _reap: give back the rate of every lapsed reservation of the task whose *)
(* prepared request was not delivered. The loop's continue on a lapsed and *)
(* delivered solution also skips the verdicts of that attempt.             *)
(***************************************************************************)
\* Mutants: what was delivered is reaped too; a reservation lapses at its
\* deadline, not after it.
Reapable_Delivered(t) == {s \in Slots : s[1] = t /\ Lapsed(s)}
Reapable_AtDeadline(t) ==
  {s \in Slots : /\ s[1] = t /\ Open(s) /\ ~Paid(s)
                 /\ now >= reservations[s].deadline}

Reapable(t) ==
  {s \in Slots :
     /\ s[1] = t
     /\ s[2] < tasks[t].nextAttemptIndex
     /\ s[3] <= attempts[<<t, s[2]>>].nextVerdictIndex
     /\ Lapsed(s) /\ ~Paid(s)
     /\ s[3] # 0 => ~(Lapsed(SolutionSlot(s)) /\ Paid(SolutionSlot(s)))}

ReapableFrom(x) == {s \in Reapable(x[1]) : Purse(s) = x}

ReapedReservations(t) ==
  LET reaped == Reapable(t) IN
  [s \in Slots |-> IF s \in reaped
                     THEN [reservations[s] EXCEPT !.state = "Released"]
                     ELSE reservations[s]]

ReapedPreparations(t) ==
  LET reaped == Reapable(t) IN
  [s \in Slots |-> IF s \in reaped THEN NoRequest ELSE preparations[s]]

ReapedRemaining(t) ==
  [x \in Purses |-> IF x[1] = t THEN remaining[x] + SumRates(ReapableFrom(x))
                                ELSE remaining[x]]

ReapedReserved(t) ==
  [x \in Purses |-> IF x[1] = t THEN reserved[x] - SumRates(ReapableFrom(x))
                                ELSE reserved[x]]

\* Checked arithmetic: a reserved total that would underflow reverts.
CanReap(t) ==
  /\ CanReapExpired(t)
  /\ \A x \in Purses : x[1] = t => SumRates(ReapableFrom(x)) <= reserved[x]

-----------------------------------------------------------------------------
(* Creator operations *)

SolutionBudget(n, rate) == rate * n
VerdictBudget(n, rate, minVerdicts) == rate * n * minVerdicts

\* A task's two purses in f, set to a and b, or with a and b added.
SetPurses(f, t, a, b) == [f EXCEPT ![<<t, "solution">>] = a,
                                   ![<<t, "verdict">>] = b]
AddToPurses(f, t, a, b) == [f EXCEPT ![<<t, "solution">>] = @ + a,
                                     ![<<t, "verdict">>] = @ + b]

createTask(t, creator, p, solutionRate, verdictRate) ==
  LET sb == SolutionBudget(p.maxTotal, solutionRate)
      vb == VerdictBudget(p.maxTotal, verdictRate, p.minVerdicts) IN
  /\ CoordCreateTask(t, creator, p)
  /\ p.maxTotal <= MaxAttempts
  /\ maxRate' = SetPurses(maxRate, t, solutionRate, verdictRate)
  /\ remaining' = SetPurses(remaining, t, sb, vb)
  /\ deposited' = SetPurses(deposited, t, sb, vb)
  /\ reserved' = SetPurses(reserved, t, 0, 0)
  /\ spentOut' = SetPurses(spentOut, t, 0, 0)
  /\ routerBalance' = routerBalance + sb + vb
  /\ UNCHANGED <<now, authorizedRouter, refunded, reservations, preparations,
                 claimed, activityChecker, marketVars, mechOperator,
                 creditVars, endedBy>>

addAttempts(t, added) ==
  LET sb == SolutionBudget(added, maxRate[<<t, "solution">>])
      vb == VerdictBudget(added, maxRate[<<t, "verdict">>],
                          tasks[t].policy.minVerdicts) IN
  /\ CanReap(t)
  /\ CoordAddAttempts(t, added)
  /\ remaining' = AddToPurses(ReapedRemaining(t), t, sb, vb)
  /\ deposited' = AddToPurses(deposited, t, sb, vb)
  /\ reserved' = ReapedReserved(t)
  /\ reservations' = ReapedReservations(t)
  /\ preparations' = ReapedPreparations(t)
  /\ routerBalance' = routerBalance + sb + vb
  /\ UNCHANGED <<now, authorizedRouter, maxRate, spentOut, refunded, claimed,
                 activityChecker, marketVars, mechOperator, creditVars,
                 endedBy>>

\* _refundUnreserved, after _reap: all that is unreserved goes back.
RefundUnreserved(t) ==
  LET amount == ReapedRemaining(t)[<<t, "solution">>]
                  + ReapedRemaining(t)[<<t, "verdict">>] IN
  /\ amount <= routerBalance
  /\ remaining' = [x \in Purses |-> IF x[1] = t THEN 0 ELSE remaining[x]]
  /\ refunded' = [x \in Purses |->
                    IF x[1] = t THEN refunded[x] + ReapedRemaining(t)[x]
                                ELSE refunded[x]]
  /\ routerBalance' = routerBalance - amount
  /\ reserved' = ReapedReserved(t)
  /\ reservations' = ReapedReservations(t)
  /\ preparations' = ReapedPreparations(t)
  /\ UNCHANGED <<now, authorizedRouter, maxRate, spentOut, deposited, claimed,
                 activityChecker, marketVars, mechOperator, creditVars,
                 endedBy>>

closeTask(t) ==
  /\ CanReap(t)
  /\ CoordCloseTask(t)
  /\ RefundUnreserved(t)

\* Allowed while the task is Open; reverts when there is nothing to refund.
refundUnusedTaskBudget(t) ==
  /\ CanReap(t)
  /\ \E x \in Purses : x[1] = t /\ ReapedRemaining(t)[x] > 0
  /\ CoordReap(t)
  /\ RefundUnreserved(t)

-----------------------------------------------------------------------------
(* Claims *)

\* What both claims do to the router: slot s, whose index the coordinator has
\* just allotted, reserves the rate the Mech asks at this moment.
Reserve(s, party, mech, rate, deadline) ==
  LET x == Purse(s)
      t == s[1] IN
  /\ mechOperator[mech] = party
  /\ CanReap(t)
  /\ rate <= maxRate[x]
  /\ rate <= ReapedRemaining(t)[x]
  /\ deadline < Horizon
  /\ remaining' = [ReapedRemaining(t) EXCEPT ![x] = @ - rate]
  /\ reserved' = [ReapedReserved(t) EXCEPT ![x] = @ + rate]
  /\ reservations' = [ReapedReservations(t) EXCEPT ![s] =
                        [state |-> "Open", party |-> party, mech |-> mech,
                         rate |-> rate, deadline |-> deadline]]
  /\ preparations' = [ReapedPreparations(t) EXCEPT ![s] = NoRequest]
  /\ UNCHANGED <<now, authorizedRouter, maxRate, spentOut, deposited, refunded,
                 claimed, activityChecker, marketVars, mechOperator,
                 routerBalance, creditVars, endedBy>>

claimTask(t, operator, mech, rate) ==
  LET deadline == now + tasks[t].policy.responseTimeout
      i == tasks[t].nextAttemptIndex IN
  /\ i \in AttemptIndices
  /\ Reserve(<<t, i, 0>>, operator, mech, rate, deadline)
  /\ CoordClaimTask(t, operator, deadline)

claimEvaluation(t, i, evaluator, mech, rate) ==
  LET deadline == now + tasks[t].policy.responseTimeout
      leg == attempts[<<t, i>>].nextVerdictIndex + 1 IN
  /\ leg \in VerdictLegs
  /\ Reserve(<<t, i, leg>>, evaluator, mech, rate, deadline)
  /\ CoordClaimEvaluation(t, i, evaluator, deadline)

-----------------------------------------------------------------------------
(* Delivery: prepare, Mech delivery, settlement *)

\* Both prepare functions, called by the reservation's party. An undelivered
\* preparation is stale and is overwritten; a delivered one may not be.
Prepare(s, payload) ==
  /\ Live(s)
  /\ ~Paid(s)
  /\ preparations' = [preparations EXCEPT ![s] =
                        [mech |-> reservations[s].mech, slot |-> s,
                         payload |-> payload, rate |-> reservations[s].rate,
                         nonce |-> nonce]]
  /\ UNCHANGED <<now, authorizedRouter, nextTaskId, coordVars, purseVars,
                 reservations, claimed, activityChecker, marketVars,
                 mechOperator, routerBalance, creditVars, endedBy>>

prepareSolutionDelivery(t, i, payload) == Prepare(<<t, i, 0>>, payload)
prepareVerdictDelivery(k, payload)     == Prepare(k, payload)

\* _assertPreparedAuth: the router signs for request req.
isValidSignature(s, req) ==
  /\ Live(s)
  /\ req # NoRequest /\ preparations[s] = req
  /\ req.mech = reservations[s].mech
  /\ req.rate = reservations[s].rate
  /\ req.nonce = nonce

\* The balance tracker draws a delivery's rate from the router.
adjustMechRequesterBalances(rate) ==
  /\ rate <= routerBalance
  /\ routerBalance' = routerBalance - rate

\* The Mech marketplace's signed delivery, started by the Mech: the request
\* is recorded as Delivered, the router's nonce advances and the Mech is paid.
\* A call with several requests would give them successive nonces, and the
\* router signs for the current one only: it delivers one request or reverts.
deliverMarketplaceWithSignatures(s) ==
  LET req == preparations[s] IN
  /\ isValidSignature(s, req)
  /\ req \notin delivered
  /\ delivered' = delivered \cup {req}
  /\ nonce' = nonce + 1
  /\ adjustMechRequesterBalances(req.rate)
  /\ UNCHANGED <<now, authorizedRouter, nextTaskId, coordVars, purseVars,
                 reservations, preparations, claimed, activityChecker,
                 mechOperator, creditVars, endedBy>>

\* Mutant: what is settled stays reserved.
Settle_StaysReserved(s, caller) ==
  /\ spentOut' = [spentOut EXCEPT ![Purse(s)] = @ + reservations[s].rate]
  /\ reservations' = [reservations EXCEPT ![s].state = "Settled"]
  /\ claimed' = claimed \cup {preparations[s]}
  /\ preparations' = [preparations EXCEPT ![s] = NoRequest]
  /\ endedBy' = [endedBy EXCEPT ![s] = caller]
  /\ UNCHANGED <<now, authorizedRouter, maxRate, remaining, reserved,
                 deposited, refunded, activityChecker, marketVars,
                 mechOperator, routerBalance>>

\* reserved -> spentOut, the request is claimed, the reservation settled.
Settle(s, caller) ==
  LET x == Purse(s)
      r == reservations[s].rate IN
  /\ r <= reserved[x]
  /\ reserved' = [reserved EXCEPT ![x] = @ - r]
  /\ spentOut' = [spentOut EXCEPT ![x] = @ + r]
  /\ reservations' = [reservations EXCEPT ![s].state = "Settled"]
  /\ claimed' = claimed \cup {preparations[s]}
  /\ preparations' = [preparations EXCEPT ![s] = NoRequest]
  /\ endedBy' = [endedBy EXCEPT ![s] = caller]
  /\ UNCHANGED <<now, authorizedRouter, maxRate, remaining, deposited,
                 refunded, activityChecker, marketVars, mechOperator,
                 routerBalance>>

\* _requireDeliveredExact: delivered at the reserved rate by the reserved Mech,
\* which the caller, the reservation's party, still operates.
DeliveredExact(s, req) ==
  /\ req \in delivered
  /\ req.mech = reservations[s].mech
  /\ req.rate = reservations[s].rate
  /\ mechOperator[req.mech] = reservations[s].party

\* _assertClaimBinding and the checks around it: the request the party claims
\* is the prepared one and was never claimed.
CanClaimDelivery(s, req) ==
  /\ Live(s)
  /\ preparations[s] = req
  /\ req \notin claimed
  /\ DeliveredExact(s, req)

\* Mutant: the digest recorded is the caller's, not the prepared one.
claimSolutionDelivery_FreeDigest(req) ==
  LET s == req.slot
      party == reservations[s].party IN
  /\ s[3] = 0
  /\ CanClaimDelivery(s, req)
  /\ Settle(s, party)
  /\ \E p \in Payloads : CoordRecordSolutionDelivery(s[1], s[2], party, p)
  /\ UNCHANGED creditVars

claimSolutionDelivery(req) ==
  LET s == req.slot
      party == reservations[s].party IN
  /\ s[3] = 0
  /\ CanClaimDelivery(s, req)
  /\ Settle(s, party)
  /\ CoordRecordSolutionDelivery(s[1], s[2], party, req.payload)
  /\ UNCHANGED creditVars

\* The weights _finalizeVerdictCredit sends to account o for verdict k: one
\* for the evaluator, one for the operator of an attempt it finalizes and one
\* for the creator of a task it finalizes first.
Weight(k, o) ==
  (IF o = verdicts[k].evaluator THEN 1 ELSE 0)
  + (IF Finalizes(k) /\ o = attempts[<<k[1], k[2]>>].operator THEN 1 ELSE 0)
  + (IF CreditsCreator(k) /\ o = tasks[k[1]].creator THEN 1 ELSE 0)

FinalizeVerdictCredit(k) ==
  IF activityChecker
    THEN /\ CreditsCreator(k) => k[1] \notin creationCredited
         /\ credits' = [o \in Accounts |-> credits[o] + Weight(k, o)]
         /\ creationCredited' = IF CreditsCreator(k)
                                  THEN creationCredited \cup {k[1]}
                                  ELSE creationCredited
    ELSE UNCHANGED creditVars

claimVerdictDelivery(req) ==
  LET s == req.slot
      party == reservations[s].party IN
  /\ s[3] # 0
  /\ CanClaimDelivery(s, req)
  /\ Settle(s, party)
  /\ CoordRecordVerdict(s, party, req.payload)
  /\ FinalizeVerdictCredit(s)

-----------------------------------------------------------------------------
(* Giving a reservation up *)

\* Mutants: the posted maximum is given back, not the reserved rate; the
\* delivery check is missing.
Release_MaxRate(s) ==
  LET x == Purse(s) IN
  /\ CanReap(s[1]) /\ Live(s) /\ ~Paid(s)
  /\ reservations' = [ReapedReservations(s[1]) EXCEPT ![s].state = "Released"]
  /\ preparations' = [ReapedPreparations(s[1]) EXCEPT ![s] = NoRequest]
  /\ reserved' = [ReapedReserved(s[1]) EXCEPT ![x] = @ - reservations[s].rate]
  /\ remaining' = [ReapedRemaining(s[1]) EXCEPT ![x] = @ + maxRate[x]]
  /\ endedBy' = [endedBy EXCEPT ![s] = reservations[s].party]
  /\ UNCHANGED <<now, authorizedRouter, maxRate, spentOut, deposited, refunded,
                 claimed, activityChecker, marketVars, mechOperator,
                 routerBalance, creditVars>>

Release_Delivered(s) ==
  LET x == Purse(s)
      r == reservations[s].rate IN
  /\ CanReap(s[1]) /\ Live(s) /\ r <= ReapedReserved(s[1])[x]
  /\ reservations' = [ReapedReservations(s[1]) EXCEPT ![s].state = "Released"]
  /\ preparations' = [ReapedPreparations(s[1]) EXCEPT ![s] = NoRequest]
  /\ reserved' = [ReapedReserved(s[1]) EXCEPT ![x] = @ - r]
  /\ remaining' = [ReapedRemaining(s[1]) EXCEPT ![x] = @ + r]
  /\ endedBy' = [endedBy EXCEPT ![s] = reservations[s].party]
  /\ UNCHANGED <<now, authorizedRouter, maxRate, spentOut, deposited, refunded,
                 claimed, activityChecker, marketVars, mechOperator,
                 routerBalance, creditVars>>

\* Both releases, by the reservation's party, after _reap.
Release(s) ==
  LET x == Purse(s)
      t == s[1]
      r == reservations[s].rate IN
  /\ Live(s)
  /\ CanReap(t)
  /\ ~Paid(s)                      \* _requireUndeliveredForBudgetRestore
  /\ r <= ReapedReserved(t)[x]
  /\ reservations' = [ReapedReservations(t) EXCEPT ![s].state = "Released"]
  /\ preparations' = [ReapedPreparations(t) EXCEPT ![s] = NoRequest]
  /\ reserved' = [ReapedReserved(t) EXCEPT ![x] = @ - r]
  /\ remaining' = [ReapedRemaining(t) EXCEPT ![x] = @ + r]
  /\ endedBy' = [endedBy EXCEPT ![s] = reservations[s].party]
  /\ UNCHANGED <<now, authorizedRouter, maxRate, spentOut, deposited, refunded,
                 claimed, activityChecker, marketVars, mechOperator,
                 routerBalance, creditVars>>

releaseAttempt(t, i) ==
  /\ Release(<<t, i, 0>>)
  /\ CoordReleaseAttempt(t, i, reservations[<<t, i, 0>>].party)

releaseVerdict(k) ==
  /\ Release(k)
  /\ CoordReleaseVerdict(k, reservations[k].party)

\* Mutant: only the party may forfeit.
CanForfeit_PartyOnly(s, caller) ==
  Open(s) /\ caller = reservations[s].party /\ Paid(s)

\* forfeitDeliveredReservation, by the party or the task's creator, at any
\* time: the delivered reservation is spent without credit.
CanForfeit(s, caller) ==
  /\ Open(s)
  /\ caller \in {reservations[s].party, tasks[s[1]].creator}
  /\ Paid(s)

forfeitSolution(s, caller) ==
  /\ s[3] = 0
  /\ CanForfeit(s, caller)
  /\ CoordForfeitAttempt(s[1], s[2])
  /\ Settle(s, caller)
  /\ UNCHANGED creditVars

\* Mutant: a forfeited verdict is credited.
forfeitVerdict_Credited(s, caller) ==
  /\ s[3] # 0
  /\ CanForfeit(s, caller)
  /\ CoordForfeitVerdict(s)
  /\ Settle(s, caller)
  /\ FinalizeVerdictCredit(s)

forfeitVerdict(s, caller) ==
  /\ s[3] # 0
  /\ CanForfeit(s, caller)
  /\ CoordForfeitVerdict(s)
  /\ Settle(s, caller)
  /\ UNCHANGED creditVars

-----------------------------------------------------------------------------
(* Time, the owners and the Mechs' services *)

Tick ==
  /\ now < Horizon
  /\ now' = now + 1
  /\ UNCHANGED <<authorizedRouter, nextTaskId, coordVars, routerVars>>

setActivityChecker(on) ==
  /\ "setActivityChecker" \in OwnerActs
  /\ activityChecker' = on
  /\ UNCHANGED <<now, authorizedRouter, nextTaskId, coordVars, purseVars,
                 reservations, preparations, claimed, marketVars,
                 mechOperator, routerBalance, creditVars, endedBy>>

\* The coordinator's owner points it at another router, or back at this one.
setAuthorizedRouter(on) ==
  /\ "setAuthorizedRouter" \in OwnerActs
  /\ authorizedRouter' = on
  /\ UNCHANGED <<now, nextTaskId, coordVars, routerVars>>

\* A Mech's service changes hands between two transactions of its operator.
changeMechOperator(mech, o) ==
  /\ "changeMechOperator" \in OwnerActs
  /\ mechOperator' = [mechOperator EXCEPT ![mech] = o]
  /\ UNCHANGED <<now, authorizedRouter, nextTaskId, coordVars, purseVars,
                 reservations, preparations, claimed, activityChecker,
                 marketVars, routerBalance, creditVars, endedBy>>

-----------------------------------------------------------------------------
CreatorStep(t) ==
  \/ \E n \in 1..MaxAttempts : addAttempts(t, n)
  \/ closeTask(t)
  \/ refundUnusedTaskBudget(t)

ClaimStep(t) ==
  \E party \in Accounts, mech \in Mechs, rate \in Rates :
    \/ claimTask(t, party, mech, rate)
    \/ \E i \in AttemptIndices : claimEvaluation(t, i, party, mech, rate)

DeliveryStep ==
  \/ \E k \in AttemptKeys, p \in Payloads :
       prepareSolutionDelivery(k[1], k[2], p)
  \/ \E k \in VerdictKeys, p \in Payloads : prepareVerdictDelivery(k, p)
  \/ \E s \in Slots : deliverMarketplaceWithSignatures(s)
  \/ \E req \in delivered :
       \/ claimSolutionDelivery(req)
       \/ claimVerdictDelivery(req)

ExitStep ==
  \/ \E k \in AttemptKeys : releaseAttempt(k[1], k[2])
  \/ \E k \in VerdictKeys : releaseVerdict(k)
  \/ \E s \in Slots, caller \in Accounts :
       \/ forfeitSolution(s, caller)
       \/ forfeitVerdict(s, caller)

OwnerStep ==
  \/ \E on \in BOOLEAN : setActivityChecker(on)
  \/ \E on \in BOOLEAN : setAuthorizedRouter(on)
  \/ \E mech \in Mechs, o \in Accounts : changeMechOperator(mech, o)

Next ==
  \/ \E t \in Tasks, c \in Accounts, p \in Policies, r1, r2 \in Rates :
       createTask(t, c, p, r1, r2)
  \/ \E t \in Tasks : CreatorStep(t) \/ ClaimStep(t)
  \/ DeliveryStep
  \/ ExitStep
  \/ OwnerStep
  \/ Tick

Spec == Init /\ [][Next]_vars

\* The task's creator never gives up: it closes the task, refunds it and
\* forfeits what was delivered and left unclaimed, whenever it can; and time
\* passes. Operators and evaluators may stop at any point.
PersistentCreator(t) ==
  /\ WF_vars(closeTask(t))
  /\ WF_vars(refundUnusedTaskBudget(t))
  /\ \A i \in AttemptIndices, l \in Legs :
       WF_vars(\/ forfeitSolution(<<t, i, l>>, tasks[t].creator)
               \/ forfeitVerdict(<<t, i, l>>, tasks[t].creator))

FairSpec == Spec /\ WF_vars(Tick) /\ \A t \in Tasks : PersistentCreator(t)
=============================================================================
