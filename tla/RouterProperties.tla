-------------------------- MODULE RouterProperties --------------------------
(***************************************************************************)
(* What the marketplace contracts promise about money, occupancy, the      *)
(* agreement of router and coordinator, and credit.                        *)
(***************************************************************************)
EXTENDS JinnRouterV4

\* Per-task exact conservation (the header of JinnRouterV4): what was paid in
\* is what remains, is reserved, was spent or was refunded, for each purse.
Conservation ==
  \A x \in Purses :
    deposited[x] = remaining[x] + reserved[x] + spentOut[x] + refunded[x]

OpenSlots(x) == {s \in Slots : Open(s) /\ Purse(s) = x}

\* The reserved total of a purse is the sum of the rates of its open
\* reservations, through claims, settlements, forfeits and lazy reaping: no
\* subtraction from it ever underflows and reverts the transaction.
ReservedIsOwed ==
  \A x \in Purses : reserved[x] = SumRates(OpenSlots(x))

Total(f) == Cardinality(UNION {{x} \X (1..f[x]) : x \in Purses})

\* The router's OLAS covers every task at once: it holds what remains and is
\* reserved, less the open reservations whose Mech was already paid. No task
\* is paid or refunded out of another task's escrow.
Solvent ==
  routerBalance + SumRates({s \in Slots : Open(s) /\ Paid(s)})
    = Total(remaining) + Total(reserved)

\* A Mech delivery is paid at most once for a reservation, and a paid
\* reservation is never returned to the budget: it stays open, pinned by its
\* preparation, until it is settled with its request marked claimed.
PaidIsNeverRestored ==
  /\ \A req \in delivered :
       \/ Open(req.slot) /\ preparations[req.slot] = req /\ req \notin claimed
       \/ reservations[req.slot].state = "Settled" /\ req \in claimed
  /\ \A r1, r2 \in delivered : r1.slot = r2.slot => r1 = r2

AttemptOf(s) == attempts[<<s[1], s[2]>>]

\* The coordinator's status of the attempt or verdict behind a slot.
StatusOf(s) == IF s[3] = 0 THEN AttemptOf(s).status ELSE verdicts[s].status

\* Router and coordinator, which keep the state of a reservation and of its
\* attempt or verdict apart, agree on it; they part only on a reservation that
\* was paid and then expired, which the router keeps open for its forfeit.
LedgersAgree ==
  \A s \in Slots :
    /\ reservations[s].state = "None" <=> StatusOf(s) = "None"
    /\ Open(s) => \/ StatusOf(s) = "Live"
                  \/ StatusOf(s) = "Expired" /\ Paid(s) /\ Lapsed(s)
    /\ reservations[s].state = "Released" =>
         StatusOf(s) \in {"Released", "Expired"}
    /\ reservations[s].state = "Settled" =>
         StatusOf(s) \in {"Submitted", "Finalized", "Delivered", "Forfeited"}
    /\ StatusOf(s) = "Live" =>
         /\ Open(s)
         /\ reservations[s].deadline = IF s[3] = 0 THEN AttemptOf(s).deadline
                                                   ELSE verdicts[s].deadline

AttemptsOf(t, st) == {k \in AttemptKeys : k[1] = t /\ attempts[k].status \in st}

\* The coordinator's counters count what they say: occupancy is given back
\* exactly once whichever of settlement, release, expiry or forfeit ends an
\* attempt, per task and per operator, and no limit is exceeded.
CountersExact ==
  /\ \A t \in Tasks :
       /\ tasks[t].liveOccupancy = Cardinality(AttemptsOf(t, {"Live"}))
       /\ tasks[t].liveOccupancy <= tasks[t].policy.maxConcurrent
       /\ tasks[t].settledAttemptCount =
            Cardinality(AttemptsOf(t, {"Submitted", "Finalized"}))
       /\ tasks[t].finalizedAttemptCount =
            Cardinality(AttemptsOf(t, {"Finalized"}))
       /\ tasks[t].creatorCredited <=> AttemptsOf(t, {"Finalized"}) # {}
  /\ \A o \in Accounts :
       /\ operatorLiveClaims[o] =
            Cardinality({k \in AttemptKeys : /\ attempts[k].status = "Live"
                                             /\ attempts[k].operator = o})
       /\ MaxSimultaneousClaims # 0 =>
            operatorLiveClaims[o] <= MaxSimultaneousClaims

\* An expired reservation is never stranded: an unpaid one is among those the
\* next _reap gives back (the continue that skips a paid solution's verdicts
\* hides none), and a paid one can be forfeited.
NothingStranded ==
  \A s \in Slots :
    Lapsed(s) => IF Paid(s) THEN StatusOf(s) \in {"Live", "Expired"}
                            ELSE s \in Reapable(s[1])

DeliveredVerdicts(k) ==
  {v \in VerdictKeys : /\ <<v[1], v[2]>> = k
                       /\ verdicts[v].status = "Delivered"}

\* An attempt is Finalized exactly when the quorum its task asked for was
\* delivered, by evaluators other than its operator.
FinalizedByQuorum ==
  \A k \in AttemptKeys :
    /\ attempts[k].deliveredVerdictCount = Cardinality(DeliveredVerdicts(k))
    /\ attempts[k].status \in {"Submitted", "Finalized"} =>
         (attempts[k].status = "Finalized" <=>
            Cardinality(DeliveredVerdicts(k)) >= tasks[k[1]].policy.minVerdicts)
    /\ \A v \in DeliveredVerdicts(k) :
         verdicts[v].evaluator # attempts[k].operator

\* Work the coordinator has on record was prepared by its reservation's party
\* and paid for: its digest is that of the slot's delivered, claimed request.
RecordedWorkWasPaid ==
  \A s \in Slots :
    StatusOf(s) \in {"Submitted", "Finalized", "Delivered"} =>
      \E req \in delivered \cap claimed :
        /\ req.slot = s
        /\ req.mech = reservations[s].mech
        /\ req.rate = reservations[s].rate
        /\ req.payload = IF s[3] = 0 THEN AttemptOf(s).digest
                                     ELSE verdicts[s].digest

Earned(o) ==
  Cardinality({v \in VerdictKeys : /\ verdicts[v].status = "Delivered"
                                   /\ verdicts[v].evaluator = o})
  + Cardinality({k \in AttemptKeys : /\ attempts[k].status = "Finalized"
                                     /\ attempts[k].operator = o})
  + Cardinality({t \in Tasks : /\ tasks[t].creatorCredited
                               /\ tasks[t].creator = o})

\* Activity credit is one per verdict delivered, attempt finalized and task
\* first finalized, and never more: nothing is credited twice, and nothing
\* forfeited, released or expired is credited. While the checker stays set
\* no credit is lost either.
CreditsEarned ==
  /\ \A o \in Accounts : credits[o] <= Earned(o)
  /\ "setActivityChecker" \notin OwnerActs =>
       \A o \in Accounts : credits[o] = Earned(o)

\* The holder of a live, unpaid reservation keeps it: closing the task,
\* refunding it, reaping it or claiming more of it leaves the reservation
\* open; only its own party's release, after the minimum hold, ends it.
HolderProtected ==
  [][\A s \in Slots :
       Live(s) /\ ~Paid(s) /\ ~Open(s)' =>
         /\ reservations'[s].state = "Released"
         /\ endedBy'[s] = reservations[s].party
         /\ now >= ReleaseMinHold + IF s[3] = 0 THEN AttemptOf(s).claimedAt
                                                ELSE verdicts[s].claimedAt]_vars

\* "There is no unilateral on-chain revocation ... delivery within it
\* settles" (marketplace-binding design, 5.3): nobody but its party ends a
\* reservation before its deadline.
NoUnilateralRevocation ==
  [][\A s \in Slots :
       Live(s) /\ ~Open(s)' => endedBy'[s] = reservations[s].party]_vars

\* Whatever operators and evaluators do or stop doing, a creator that closes
\* its task and uses its exits gets all of its escrow accounted for: in the end
\* nothing of it is left unreserved or reserved in the router.
EscrowDrains ==
  \A t \in Tasks :
    tasks[t].status # "None" ~>
      [](\A x \in Purses : x[1] = t => remaining[x] = 0 /\ reserved[x] = 0)
=============================================================================
