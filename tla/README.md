# Verification of the Jinn marketplace

TLA+ models of the Jinn network's marketplace, the TLC instances that check them
and the TLAPS proofs of what matters most. Paths below are relative to the
repository (`contracts/…`, `packages/…`, `operator/…`).

## 1. The system

Jinn is a marketplace where *creators* post tasks with an escrow in OLAS,
*operators* claim attempts on them and deliver solutions, and *evaluators* claim
and deliver verdicts on submitted attempts. The contracts hold the money and the
lifecycle; off-chain daemons watch the chain, decide, execute and broadcast.

| Component | State it keeps | Operations | Hard part | What makes it correct |
|---|---|---|---|---|
| **Router** `JinnRouterV4.sol` | per task: budgets (remaining, reserved, spent, for solutions and for verdicts); per attempt or evaluation: reservation and preparation; claimed request ids; OLAS balance | createTask, addAttempts, claimTask, claimEvaluation, prepare*, isValidSignature, claim*Delivery, release*, forfeitDeliveredReservation, closeTask, refundUnusedTaskBudget | payment by the Mech and settlement are two transactions; reservations lapse lazily | money conserved; a paid reservation never restored; holders protected; escrow always recoverable |
| **Coordinator** `TaskCoordinatorV4.sol` | tasks, attempts, verdicts, live counters | the router-only half of each of the above, reapExpired, setAuthorizedRouter | counters decremented by five exits; agrees with the router without sharing state | counters exact, statuses agree with reservations, quorum counted once |
| **Activity checker** `TaskActivityCheckerV3.sol` | credit per account | record* | called at finalization only | credit is earned once |
| **Mech marketplace** (vendored) | requester nonce, delivered requests, balances | signed delivery | one nonce for all of the router's requests | (external to the code base; assumed) |
| **Safe broadcaster** `venue-base/src/broadcast` | sender lease, pending-transaction ledger, pinned nonce | withSender, execute, reconcile, evict a stuck nonce | lost responses, leases lost mid-flight, replacement | one body at a time; success means the effect is there; no call executes twice; every call ends |
| **Chain log source** `venue-base/src/log-source` | cursor, finalized checkpoint, sampled block hashes | poll | the chain changes between two RPC calls of one poll; regressing tags | every canonical log delivered once, displaced blocks reported, the checkpoint final |
| **Projector** `operator/src/daemon/projector-*.ts`, `marketplace/projector/src`, `discovery/serve/src` | projection state, event and availability journals, archive pages and head | tick, rewind | three stores written in turn; crash between any two; reorganisation under a tick | the projection is the canonical chain's; no stale or repeated announcement; the archive is append-only |
| **Posting** `binding/src`, `venue-base/src/intents`, `venue-base/src/observe` | scope per idempotency key, write-ahead intent with an owner token | submit, postTask, recoverPosting | two records claimed separately by concurrent calls that die anywhere | one createTask per Submission but for a lost answer, one Submission per key |
| **Claim coordinator** `operator/src/daemon/native-claim-coordinator.ts`, `native-operator-state.ts` | worker lease, operation, engagement | process, drive, reconcileStartup, claimCanonical.read | crash or lapse during a broadcast, replicas that lag, orphaned transactions | one attempt per decision, execution only on a final claim, every claim settles |
| **Pipeline** `marketplace/pipeline/src` | engagement | claim, finality gate, execute, settle, release | release owed on every failure path | claimed work is settled or released |
| Task execution, evidence, discovery, trust, indexer, benchmarking, apps | documents, containers, signatures | — | I/O and cryptography | not modelled |

Interaction: operators call the router through a Safe. A delivery is
`prepare…Delivery` on the router, then the Mech's signed delivery (the
marketplace calls back `isValidSignature` and has the balance tracker pull the
rate from the router), then `claim…Delivery`. The three may go in one Safe
transaction, but nothing on-chain requires it, so any other transaction may come
between them. The router calls the coordinator inside its own transactions.

Off chain, the log source feeds the projector (one `poll()` per tick), the
projector's state feeds the work loop, whose claims go through the claim
coordinator to the Safe broadcaster; a requester's `submit()` goes through the
posting intents to the same broadcaster. Every broadcast of one sender runs as
the body of `withSender`. They share SQLite files and the chain, and each of
them may be killed between any two awaits.

`PROJECT.json` lists every component with its status, and the hazards (what a
test would hardly reach) at the lines where they bite.

## 2. Modules

| Module | Content |
|---|---|
| `TaskCoordinatorV4` | storage of the coordinator; for every function its guard and effect |
| `JinnRouterV4` | extends it: storage of the router, the marketplace, credits; one action per transaction; `Spec`, `FairSpec` |
| `RouterProperties` | the router's invariants, action properties and liveness property |
| `MCRouter` + `Router*.cfg` | the instances of the router TLC checks |
| `ChainLogSource` | the provider's chain, the cursor store and `poll()`, one action per RPC call |
| `LogView` | extends it with a consumer of the batches; its properties |
| `ProjectorLoop` | extends `ChainLogSource`: the tick, its cursor and journals, the archive, the operator's rewind |
| `SenderMutex` | abstract: one body at a time |
| `BroadcastLock` | the lease lock, with time; refines `SenderMutex` |
| `SafeBroadcaster` | `execute()`, the ledger and stuck-nonce eviction, over `SenderMutex` |
| `AtMostOncePosting` | abstract: post a Submission once, and again only after a lost answer; acknowledge it after that |
| `RequesterBackend` | `submit()`, `postTask()`, `recoverPosting()` over the scope and intent tables |
| `RequesterProperties` | its properties; the refinement of `AtMostOncePosting` |
| `NativeClaim` | the claim coordinator, its rows, the canonical reader and the chain |
| `RouterProofs` | theorems about the router: types, conservation, protected holders, paid reservations; the two contracts agree, nothing is stranded, the totals are the sums they stand for; the counters, the quorum, the credits |
| `ChainLogProofs` | lemmas about the chain and `poll()`, over `ChainLogSource` alone: both consumers of the batches use them |
| `LogViewProofs` | extends it: the theorems about the log source |
| `ProjectorProofs` | extends it: the theorems about the projector |
| `BroadcastLockProofs`, `SafeBroadcasterProofs`, `RequesterProofs`, `NativeClaimProofs` | the theorems of one off-chain component each |

Composition: `ProjectorLoop` runs the real `poll()` of `ChainLogSource`, not an
abstraction of it, because the interesting failures lie between the two cursors.
`SafeBroadcaster` uses the lock through its abstract promise (`Lock!Enter`,
`Lock!Leave`), which `BroadcastLock` is shown to implement; what happens when the
promise breaks (a lease lost while its body runs) is an action of its own.

### The contracts and their model

* **A transaction is an action.** It runs to the end or reverts, so a guard is
  the conjunction of every revert on the path, including those of checked
  arithmetic (`liveOccupancy -= 1`, `reserved -= rate`). The coordinator's part
  of a transaction is an operator conjoined with the router's.
* **Reaping is part of the transaction that does it.** Six functions first call
  `_reap`, which calls `reapExpired`; their actions start from the `Reaped*`
  operators. `_reap`'s `continue` on a paid, lapsed solution, which also skips
  the verdicts of that attempt, is in `Reapable`.
* **A slot** `<<task, attempt, leg>>` names a reservation: leg 0 is the
  solution, leg *l* the verdict with index *l* − 1. **A purse** is a task's
  budget for one kind of leg.
* **Reservation**: `kind`, `settled`, `released` are one `state`; every write to
  the flags is guarded by the others, so no further combination exists.
* **Request id**: the hash of Mech, request data (slot, digest, verdict code),
  rate and nonce is the record of these; keccak is taken as injective. A digest
  together with a verdict code is one model value in `Payloads`; the zero digest
  and the codes `decode` rejects are not in the set.
* **Mech marketplace**: `nonce`, `delivered` and the charge on the router. A
  batch of signed deliveries gives its requests successive nonces and the router
  signs only for the current one, so a delivery is of one request. A Mech whose
  service is not deployed delivers and settles nothing; the model's Mech may
  simply not act, or be operated by an account that does not.
* **Credits** are counted in units of 1e18.
* **History variables** `deposited`, `refunded`, `endedBy` are read by no guard.
* **Left out**: `taskCidDigest`, `submissionDigest` and events (no guard reads
  them); `requireDistinctEvaluator` (the code refuses the operator as evaluator
  whatever it says); reentrancy (the calls out are to the fixed token, coordinator,
  checker and marketplace); `transferOwnership`; OLAS sent to the router or
  deposited for it with the balance tracker by third parties, which would only
  leave the router with more.

### The off-chain modules and their code

In all of them **an await is a step**: the chain, another process or a crash can
come between any two awaits of a function, and nothing can between the statements
of one turn. A SQLite transaction is one step.

**History variables.** `faults` counts the faults of a behaviour (bounded by
`MaxFaults`), `met` (and `missed` in the projector) remembers which conditions a
behaviour has met: a changed chain under a poll, a lost answer, a lapsed lease.
No guard but the bound of `faults` reads them. A property that the code keeps
only outside such a condition names it in its premise, so one run explores every
fault and still says exactly what each fault leaves intact. Section 6 lists what
goes wrong when the condition is met.

*`ChainLogSource`* — variables: the canonical chain, its finality and the fork it
left; the rows `log_cursors`, `scanned_block_hashes`, `orphaned_blocks`; the
locals of the running `poll()`. `ReadLatest`, `ReadFinalized`, the four `Check*`
branches, `FetchChunk`, `ScanBlock` and `Commit` are `poll()` in order;
`PollFails` is an RPC error or a restart. A block is `<<number, fork>>`, which
stands for number and hash, and carries one log. The chain reorganises only above
its finalized block, may return to the fork it left, and a block `Depth` below the
head does not change (the depth fallback takes that for granted). A stale
`finalized` tag may lag or equal the head; one equal to a head that went back
since `latest` was read is excluded, as it would name as final a block that the
provider itself has just replaced. `startBlock` is configured nowhere and left
out; the chain is longer than `Depth` when an installation starts.

*`ProjectorLoop`* — `Fold` is `tick()` up to its first write (read back, compare
the cursor's hash, rebuild or parse, select what is new), `CorrectPage` and
`CorrectHead` are `appendSignedReorgCorrections`, `PublishPage` and `PublishHead`
are `projectAnnouncements`, `Write` is the page counter's seed and the cursor
transaction. Page and head are separate file writes, so separate steps. `Rewind`
is `projector-replay.ts`. `origin`, history, is the first block polled: it is
fixed by the first commit of the source, whether or not its batch is ever folded.
An event is one fact of the state and one availability;
signatures and the fold of each event kind are left out. What they can do to the
rest is kept: `Fold` keeps any part of the batch, since `enrich` returns undefined
for a record it cannot resolve, the finality policy holds an event back and the
reducer refuses one it cannot place; such a log is not offered again but by a
rewind or a rollback, and `dropped`, history, remembers it. `projectAnnouncements`
may throw before its page (`PublishFails`) or between page and head (`HeadFails`);
`tick()` catches both and goes on with no announcements. A record that is refused by
itself is a part of `PublishFails`; the first publication is one page, though
`writeArchivePages` splits a long one.

*`BroadcastLock`* — the row of `broadcast_locks`, the queue of each process, the
renewal timers. Time is kept as differences (`row.ttl`, `since`), so the state
space is finite without a horizon. `Delay` bounds how late a timer runs, `DbFails`
lets a renewal throw. A call whose lease is lost is rejected (`Renew`) while its
body runs on until `Trail`.

*`SafeBroadcaster`* — `execute()` from the eviction of a stuck nonce to the
receipt. Transactions are records of nonce, kind, call and Safe nonce; mining one
replaces the others of its nonce, and `execTransaction` reverts on a Safe nonce it
was not signed for. `getTransactionCount(pending)` counts what is queued or, with
some providers, does not (`PendingIs`). The age of a ledger row is a choice: any
unresolved row may be the stale one. Fees are left out but for their effect: a
resubmission over a known row outbids it, one over an unknown transaction is
underpriced. The self-send that evicts a stuck nonce may fail too (`CancelFails`):
no fee estimate, a submission refused or its answer lost, or an unknown
transaction that outbids it.

*`RequesterBackend`* — the scope and intent rows, the transactions executed, and
where each call of `submit()` is. A Submission is `<<key, version>>`, the terms
stand for the command digest, an owner token for the call that drew it. `Dies` is
an await that throws or a process that is killed; a transaction already handed to
the broadcaster may still land. `broadcastCreateTask` is one `execute()` of the
broadcaster, of which the model keeps what a requester can tell: a transaction is
executed (`Land`), and when its answer is lost the retry loop signs and sends again
(`Resend`, up to `MaxAttempts`).

*`NativeClaim`* — one engagement: the claim operation and engagement rows, the
worker lease, the workers' locals, and the chain's claim transactions. The
`Record*` operators are the transactions of `native-operator-state.ts` with their
checks; `ReadEvents`, `CheckBlock` and `ReadReceipt` are `claimCanonical.read()`,
each a call that another replica may answer. A replica may lag, or still be on a
displaced fork: `canonicalTransactionBlock` reads the block and the finalized head
at once, and a displaced block served by one replica beside the newer finalized
head of another passes for final. A card that another worker admitted is a
duplicate and is driven on. A worker is a process incarnation; `Resend` is the
broadcaster's retry after a lost answer.

## 3. Runs

| Run | Instance | Shows |
|---|---|---|
| `one_task` | 1 task, 2 attempts at once or 1 extended by `addAttempts`, 1 evaluation each | `TypeOK`, `ReservedIsOwed`, `NothingStranded`, `HolderProtected` |
| `two_tasks` | 2 tasks, shared nonce and balance, cap of 1 live claim | `Solvent`, `CountersExact` |
| `rates` | 2 rates, 2 payloads, owners' switches and Mechs changing hands at any time | `Conservation`, `RecordedWorkWasPaid`, `PaidIsNeverRestored`, `LedgersAgree`, `CreditsEarned` |
| `quorum` | quorum of 2, three evaluations, fairness for the creator and the clock only | `FinalizedByQuorum`, `EscrowDrains` |
| `revocation` | 1 task, 1 attempt, 1 evaluation | `NoUnilateralRevocation` is **violated** (section 5) |
| `log` | chain of 7, 2 reorganisations, stale tags | `CheckpointCanonical`, `ViewMatchesChain`, `DisplacedReported`, `CatchesUp` |
| `projector` | chain of 5, depth 2, 2 reorganisations, 1 fault | `ProjectionMatchesChain`, `NoStaleState`, `NoStaleAvailability`, `ArchiveIsAChain`, `AnnouncedOnce` |
| `lock_punctual` | 2 processes with 2 calls each, 2 deaths, punctual timers | `MutualExclusion`, `ImplementsMutex` |
| `lock_faults` | the same with late and failing renewals | `LeaseRespected`, `NeverWedged` |
| `broadcast` | 2 requests, one executed twice under a cost cap, the other settling; 2 attempts per call, 1 fault | `AdoptedHasEffect`, `AtMostOncePerCall`, `SuccessHasEffect`, `NonceIsOwn`, `StuckNonceFreed`, `EveryCallEnds` |
| `posting` | 1 key, 2 versions, 2 sets of terms, 2 calls of each, 2 broadcast attempts, deaths anywhere after the first write | `OnePerKey`, `ImplementsPosting`, `OutcomeJoined`, `RetriesPost` |
| `claim` | 2 workers, 2 transactions, 2 faults | `FinalizedIsHeld`, `AttemptIsObserved`, `OneAttempt`, `ClaimSettles` |

Each property of a passing run has a mutant in `PROJECT.json`: a definition next
to the original, named `Original_Change`, that makes the mistake a maintainer
could make there (a dropped check, a comparison off by one, a counter given back
twice). TLC finds the property violated with it.

**Bounds.** *Router:* `MaxTasks`, `MaxAttempts`, `MaxVerdicts`, `MaxRate`,
`Horizon` bound the instance; a response window is one tick, so within a horizon
of 3 or 4 a reservation can be live, at its deadline and lapsed, and a second
claim can follow a lapsed one. A deadline is set below the horizon (a guard of
`Reserve`), so every reservation can lapse before time ends; this is what lets the
liveness run speak about lapsed reservations. Two accounts that operate Mechs and
one that does not cover self-dealing (a creator that operates), third parties and
a distinct evaluator. Two attempts, two tasks or three evaluations are the
smallest numbers at which counters, the shared nonce and the quorum can go wrong;
they are spread over runs because together they exceed what TLC can enumerate.
The operators are interchangeable, with the Mech named after each, so symmetry
over them is sound; the run with the liveness property does not use it.
*Log and projector:* the chain starts `Depth` + 2 high; in the log run it grows by
three, the least that lets the finalized block get more than a chunk ahead of the
cursor, so that a first poll, catching up in chunks, steady polling and a rollback
all happen. A failing poll is left to the projector's run and to the proofs: it
would double the log run, and a poll that fails leaves no state. `Depth` is 2, the
least at which a reorganisation can shorten the chain, or keep a block above the finalized one. Two reorganisations are needed for
one inside a poll and one after it, and for a return to the abandoned fork. In the
projector's run one fault falls at any step. Its chain grows by one; with a chain of 6 TLC
went through 22 million states without an error before the search was stopped.
*Lock:* a lease of four ticks with a renewal
at two has room for a timer that is on time, late within the lease, and late
beyond it. *Broadcaster:* two requests meet at one nonce, and the one issued
again meets its own earlier transaction; one fault, since each fault is a
condition of some property. *Posting:* two calls per Submission and terms are a
call and its retry; two versions under one key conflict. Calls die once they have
written something: before that a death leaves nothing behind. Two broadcast
attempts are one lost answer. *Claim:* a second worker
stands for every restart; two transactions are enough to hold two attempts.

**Deadlock.** It is checked for the log, the projector and the lock. In the other
runs the system stops by itself: a router's clock stops at `Horizon`, and the
calls, requests and announcements are bounded, so when the last has ended nothing
is left to do. That they end is what `EveryCallEnds` and `ClaimSettles` check.

**Fairness.** *Router:* `FairSpec` assumes that time passes and that the creator
keeps trying its own exits: `closeTask`, `refundUnusedTaskBudget` and the forfeit
of what was delivered and left. Each is a transaction it can send whenever it does
not revert. Weak fairness is enough: `closeTask` stays enabled until it is taken;
once the task is closed nobody reserves again, so what a lapse makes refundable
stays so, and a lapsed paid reservation can be ended by its forfeit only. Nothing
is assumed of operators, evaluators or Mechs: this is the point of the property.
*Log:* the chain grows and becomes final, the daemon's loop polls again, the
consumer takes what it is given. *Lock:* time passes, timers fire, and a call past
its gate asks again (`acquireLease` loops); nothing is assumed of the bodies.
*Broadcaster:* a call's next step runs, a receipt wait times out, and the
self-send that evicts a stuck nonce is mined, as it is priced above the
transaction it replaces; nothing is assumed of other transactions. *Posting:* calls go on, the
chain executes what a live call waits for, and the host runs `recoverPosting()`.
*Claim:* the chain includes and finalizes, a dead owner's lease expires, a worker
starts when the lease is free, and its tick goes on. Two assumptions are strong:
every tick ends with `reconcileStartup`, although cards keep coming in between,
and of the broadcasts tried again and again one is sent in the end.

## 4. Proofs

Every invariant, action property and refinement that a passing run of section 3
checks is proved for every value of the constants the
named assumptions allow: `CoordinatorAssumption`, `RouterAssumption` and
`RequestAssumption` (bounds are naturals, `Accounts` is finite, the "no …" values
are distinct), `LogAssumption` (the finality depth and the chunk are positive, the
chain may outgrow the depth), `LockAssumption` and `PostingAssumption` (bounds are
naturals, process names differ from the two special holders),
`BroadcastAssumption` (there are finitely many requests) and `ClaimAssumption`
(bounds are naturals, the owner of a free lease is no worker). TLC evaluates them
in the runs of these modules. The bounds on faults, forks, heights, transactions
and time are constants too: a theorem holds for any of their values, so for
behaviours of any length. Three of the lock's theorems assume `Punctual` besides,
as the run `lock_punctual` does.

Each invariant below was checked by TLC on a small instance before it was proved.

**Router** (`RouterProofs`)

| Theorem | Statement | Argument |
|---|---|---|
| `TypeCorrect` | `Spec => []TypeOK` | `TypeOK` is inductive. It is split into the coordinator's storage, the escrow and the rest (`TypeOKParts`); one lemma per coordinator function and one per router operation. The content is that no counter or amount commits a negative value: expired attempts and reaped rates are cardinalities of finite sets, which is why finiteness of the slots comes first. |
| `ConservationHolds` | `Spec => []Conservation` | Inductive with `UnusedIsEmpty`: the purses of a task id not yet used are empty, needed because `createTask` overwrites them. Every other operation moves an amount between two terms of the sum. |
| `HolderIsProtected` | `Spec => HolderProtected` | From `TypeOK` at each step: `_reap` selects lapsed slots only, a new claim takes an index whose reservation is not open, and settlement or forfeit needs a delivered preparation. |
| `PaidNeverRestored` | `Spec => []PaidIsNeverRestored` | Inductive with `PreparedForSlot` (a preparation names its own slot, so a delivery is attributed to the reservation that pays) and `BeyondIndices` (a slot beyond the coordinator's next index was never reserved, so a claim cannot overwrite a paid one). `BeyondIndices` in turn needs that a task id not yet used has no attempts. |
| `LedgersStayAgreed` | `Spec => []LedgersAgree` | One lemma, `StepMoves`, says what any transaction may do to one slot in both contracts at once: nothing, open it, record it, end it as forfeited, released or expired, or let a paid one expire. `LedgerInv` adds `EvaluatedIsSubmitted` (only a submitted attempt has verdicts): without it a reaped attempt could have verdicts that `_reap` passes over. |
| `NothingIsStranded` | `Spec => []NothingStranded` | From `LedgerInv`: the `continue` of `_reap` skips the verdicts of an attempt whose paid solution is open, and such an attempt has none. |
| `RecordedIsPaid` | `Spec => []RecordedWorkWasPaid` | Inductive over the moves of a slot: the move that records takes its digest from the preparation that was delivered. |
| `ReservedIsWhatIsOwed` | `Spec => []ReservedIsOwed` | A sum over slots is the cardinality of a set of pairs; the sum of a step's slots splits into what it opens, ends and leaves (`RateSum` lemmas). |
| `AlwaysSolvent` | `Spec => []Solvent` | `SolventInv` adds `ReservedIsOwed` and `NotYetFunded`. Per action, the change of the balance is the change of the escrow plus that of the paid and open reservations. |
| `CountersAreExact` | `Spec => []CountersExact` | Inductive with `LedgerInv`: each function of the coordinator changes the status of one attempt, or of the expired ones of a task, and the counter by the cardinality of that set. |
| `FinalizedAtQuorum` | `Spec => []FinalizedByQuorum` | `Committed`: the quorum of a task that exists is at least 1 and the operator of an attempt is an account. The verdict that reaches the quorum finalizes in its own transaction, so the comparison never lags. |
| `CreditsAreEarned` | `Spec => []CreditsEarned` | `CreditedOnce`: a task credited at creation is marked so. A credit is given in the transaction that makes its reason true, and no later one undoes the reason. |

**Log source** (`ChainLogProofs`, `LogViewProofs`)

| Theorem | Statement | Argument |
|---|---|---|
| `CheckpointIsCanonical` | `Spec => []CheckpointCanonical` | `PollInv`: the chain reaches past its final part by `Depth` at most (`ChainOK`), and what `poll()` holds as final is final from the read on (`PollOK`, `RowOK`). The depth fallback lands on a final block because the head that was read is at most `Depth` above what is final, also when finality has moved since. |
| `ViewIsTheChain` | `Spec => []ViewMatchesChain` | A block has one ancestry: `ChainMove` says what any change of the chain may do, and that a block canonical after it was so before, on this chain or on the fork that may come back. `HeldOK`: the view together with the batch under way is the canonical run from the first block to the cursor, on either fork that contains the cursor, and in any case up to the final block. `ReadOK`: the same of what the running poll has read. At the commit the two join (`RunsJoin`). |
| `DisplacedIsReported` | `Spec => []DisplacedReported` | `RowsOK`: the sampled rows are of the chain the cursor is on, and what was handed over is in the rows, reported, or final. `HashesOK`: an untorn poll's hashes are a run of the chain. A rollback compares exactly the rows above its boundary, so what it does not find again is reported. |

**Projector** (`ProjectorProofs`, over the poll lemmas of `ChainLogProofs`)

| Theorem | Statement | Argument |
|---|---|---|
| `ArchiveStaysAChain` | `Spec => []ArchiveIsAChain` | `BaseInv` is `PollInv`, the types, the fields of a running tick and that all that is counted is finite. While no tick died and no publication failed between page and head, `SequenceOK` (head, cursor and tick agree on the last sequence) and `ArchiveOK` (the pages are `1 .. Written`, their entries numbered `1 .. Top`, where both run ahead of counter and head between a page and its head). A page is numbered by the ranks of its blocks, a bijection onto an interval (`RankIs`, `EntriesNumbered`). |
| `AnnouncedAtMostOnce` | `Spec => []AnnouncedOnce` | `StableOK`: what an untorn poll reads is canonical, what was displaced stays off the chain, a batch holds no displaced block. Then what was ever announced is journalled, orphaned, or announced by the running tick (`Journalled`), which a fold subtracts; if a tick died unjournalled and nothing was replayed, it lies below every later batch (`Unforked`). |
| `StateIsCanonical` | `Spec => []NoStaleState` | `RowsOK`: every event handed over is reported as displaced, still on record in the source, or final. `JournalOK`: the journal is canonical when the cursor is, its final part always, and the state is part of it. So a dead tick costs events but leaves no stale one: either the source reports the rollback, or the cursor's own hash differs. |
| `AvailabilitiesAreCanonical` | `Spec => []NoStaleAvailability` | `AvailableOK`, under the same conditions: what the archive leaves open is what the journal has open, plus what the running tick announced, less what it withdrew; open rows are journalled, retracted ones displaced. With `JournalOK` the open ones are canonical. |
| `ProjectionIsExact` | `Spec => []ProjectionMatchesChain` | `LiveOK`, while no tick died: `WholeOK` (the state as the pending batch will leave it, with what was dropped, is the canonical run up to the source's cursor, or further after a rewind), `FollowOK` (the projector's cursor is canonical when the source's is, so a fold diverges or throws only when a later poll will report the rollback) and `CompleteOK` (the journal has all that is final, so a rebuild finds it). |

**Lock** (`BroadcastLockProofs`)

| Theorem | Statement | Argument |
|---|---|---|
| `LockExcludes` | `Punctual /\ Spec => []MutualExclusion` | `Punctual` says that no renewal throws and each runs before its lease ends; without it the theorem is false (section 6). The invariant `LockInv` adds to the types that a running body belongs to the head of its process's queue, and that a critical call holds the row with `ttl + since = Lease`: the lease has left what the timer has not used, so it cannot be free while a body runs. Two critical calls then share the holder, the process and the head of its queue. |
| `LockReturnsHolding` | `… => ReturnsHolding` | From `LockInv` at each step: a call that returns is critical, so it holds the row. |
| `LockImplementsMutex` | `… => ImplementsMutex` | Every step maps to `Enter`, `Leave` or a stutter. `Acquire` enters an empty mutex because of `LockInv`; `Crash` removes at most one body because of `OneCritical`. |
| `LeaseIsRespected` | `Spec => LeaseRespected` | Without `Punctual`. `HolderRuns`: whoever holds the row has a critical call whose body runs, so the step that gives up a lease in force is that body's end. |

**Broadcaster** (`SafeBroadcasterProofs`)

| Theorem | Statement | Argument |
|---|---|---|
| `AdoptedIsDone` | `Spec => []AdoptedHasEffect` | `CallInv`. The pending nonce is the first one free; that there is one within the ledger's bound rests on a count (`Counted`): every nonce in use was opened by another turn of some call's retry loop. |
| `CallExecutesOnce` | `Spec => []AtMostOncePerCall` | `OnceInv`: what a call has queued or executed is the last transaction it sent, not both, and nothing when the current turn sent nothing. A turn that sends again was told that the earlier transaction is gone. |
| `SuccessIsDone` | `Spec => []SuccessHasEffect` | `CleanInv`: as long as no lease was lost and the provider counts what is queued, the running call is alone inside, and the nonce it pinned is free or held by its own execution. So a receipt at that nonce is its own. |
| `NonceStaysOwn` | `Spec => []NonceIsOwn` | From `CleanInv`: a call pins a nonce that is free, nobody else is inside until it ends, and its own self-send is mined before it pins. |

**Posting** (`RequesterProofs`)

| Theorem | Statement | Argument |
|---|---|---|
| `PostedAtMostOnce` | `Spec => []PostedOnce` | `PostingInv` is `TypeOK` and: a call past the scope claim finds its own Submission bound to the key (`ScopeBinds`), and an intent belongs to the Submission its key is bound to (`IntentBinds`); only the intent's owner is between its claim and its resolution, has a transaction under way or sent one again, and before the fence there is none (`OwnerAlone`); what was created was intended, under the owner's terms, and at most once more than the owner sent it again (`CreatedOnce`); what is resolved or accepted was created (`DoneIsCreated`). The fence is where the owner alone passes; no later claim can make another call the owner. |
| `KeyPostsOneSubmission` | `Spec => []OnePerKey` | From `IntentBinds` and `CreatedOnce`: what is created has an intent, and a key's scope is bound to one Submission for good. |
| `AcceptanceIsPosted` | `Spec => []AcceptedIsPosted` | From `DoneIsCreated`. |
| `PostingRefinement` | `Spec => ImplementsPosting` | `Land` maps to `Post`, `Resend` to `Doubt`, a step to "accepted" to `Ack`, everything else to a stutter. |

**Claim coordinator** (`NativeClaimProofs`)

| Theorem | Statement | Argument |
|---|---|---|
| `FinalIsHeld` | `Spec => []FinalizedIsHeld` | `ClaimInv` adds to the types that the event a worker is about to check is a claim that succeeded; while no replica is stale, the check and the record are one step, so what is recorded as final is in the finalized part of the log, which no reorganisation shortens. |
| `AttemptsAreObserved` | `Spec => []AttemptIsObserved` | Part of `ClaimInv`: the rows move in the ways the `Record*` transactions allow (`RowMove`), whichever worker writes. |
| `OneAttemptHeld` | `Spec => []OneAttempt` | `Orderly`, while `Tracked`: only the lease's owner works, every transaction under way is the one it waits for, every attempt held is on record or is that transaction, and what the worker has read agrees with the row (`Consistent`). So when a worker sends, nothing is under way and nothing is held. `MinedOnce` (no transaction is included twice) makes a held attempt one entry of the log. |

**Only model-checked.** The liveness properties (`EscrowDrains`, `CatchesUp`,
`NeverWedged`, `StuckNonceFreed`, `EveryCallEnds`, `OutcomeJoined`, `RetriesPost`,
`ClaimSettles`): the prover has no fairness and no `ENABLED`.
Nothing here rests on induction over data or on recursive operators: sums are
cardinalities, and what a step adds or takes away is a finite set.

## 5. Finding

`revocation`: the binding design
(`docs/superpowers/specs/2026-07-28-marketplace-binding-design.md`, 5.3) says
there is "no unilateral on-chain revocation" and that delivery within the
exclusive window settles. `forfeitDeliveredReservation` accepts the task's
creator at any time once the Mech has delivered, also before the deadline. If it
comes between the delivery and the party's claim, the attempt becomes Forfeited
and the party's claim reverts: its Mech was paid, but the solution is not
recorded and no credit follows. `HolderProtected` shows that before the delivery
nobody can do this. A party that sends prepare, delivery and claim in one
transaction leaves no room for it.

## 6. Limits

Where the off-chain code keeps a promise only under a condition, the property
names the condition (a member of `met`, a history variable such as `dropped` or
`resent`, or `Punctual`). Dropping it makes TLC show the following; where a comment
or a document beside the code says otherwise, it is quoted.

**Two stores that are written in turn.**
* `chain-log-source.ts:184,261` fetch logs and block hashes in different awaits. A
  reorganisation between them ("torn") hands over logs of a fork whose blocks are
  recorded under the replacement's hashes; they are never reported as displaced
  (line 34 promises the "complete prior canonical suffix").
* `projector-loop.ts:104`: `poll()` commits its cursor before `tick()` records
  anything. A tick that dies between the two ("lost") never sees its batch again;
  lines 215–217 say a throw "must not … leave the chain-log cursor ahead of the
  projection cursor". `NoStaleState` still holds.
* `projector-loop.ts:157-167`: a log whose record `enrich` cannot resolve, or that
  the reducer refuses, is not in the state, and its batch is not handed over again
  ("that drop is PERMANENT", `projector-replay.ts:5`). `ProjectionMatchesChain`
  says that nothing but these is missing; a rewind offers them again.
* `projector-loop.ts:226-238`, `announce.ts:754-777`: when the head cannot be
  written after its page ("halfway"), `tick()` takes the whole publication for
  dropped. The page stays in the archive: its availabilities are in no journal and
  are not retracted by a reorganisation, and the next page uses its sequences again.
* `projector-loop.ts:261,126`: archive page, head and page counter are three
  writes. A tick that dies after the first page and before the counter makes the
  next one replace page 1; one that dies between a page and its head leaves
  a page whose sequences are used again (`projector-ports.ts:72-74` calls archive paths "immutable and contiguous by construction").
* `projector-loop.ts:113`, `projector-cursor.ts:369`: what a dead tick published is
  in the archive and not in the journals. A reorganisation before the next write
  does not retract it, and a rewind or a reorganisation that replays its batch after
  the next write ("unjournalled") announces it again (`projector-replay.ts:34-35`
  says such events "are still suppressed").
* `safe-broadcaster.ts:293`: the ledger row is written after the answer. When the
  answer is lost and the transaction mined, the retry finds no row and executes
  again at the next Safe nonce (lines 281–283 name this "NOT idempotent"). So a
  Submission is posted twice (`Resend` of `RequesterBackend`, a `Doubt` of the
  abstract specification), and a claim sent twice ("untracked" in `NativeClaim`).
* `native-claim-coordinator.ts:290`: a claim's hash is recorded after its receipt.
  A worker that dies before leaves an intent; the next reads no event yet and
  claims again, and both are mined where the task allows two attempts.
* `posting.ts:225`: the intent is claimed before the upload. A failed upload leaves
  it pending under a token nobody holds, and every retry is answered unavailable.
  Likewise a task created by a process that died is never joined to its
  Submission: `recoverPostingIntents` (`broadcast-intent.ts:203`) returns pending
  intents untouched and nothing resolves one from the chain.

**Finality that passes unseen.**
* `chain-log-source.ts:178-180` and `projector-loop.ts:142` roll back to the
  finalized block served now. When finality has passed an unseen reorganisation
  ("passed", `missed`), that block lies above the abandoned ones and their logs or
  facts stay.
* `projector-replay.ts:27`: while the cursor is rewound, a reorganisation above it
  is seen by nobody.
* `projector-cursor.ts:318`: an event whose block was orphaned and became canonical
  again ("returned") is inserted with ON CONFLICT DO NOTHING, stays orphaned, and
  the next rebuild drops it.

**Leases that end while their owner works.**
* `lock.ts:143`: a renewal later than the lease rejects the call, but its body runs
  on beside the next holder's (lines 132–134 say "aborting rather than continuing
  without exclusion"); a body that settles before the late renewal returns success.
  In the broadcaster ("lease") the two then work on one nonce, and one takes the
  receipt of the other's transaction for its own.
* `native-claim-coordinator.ts:107`: a worker that waits for a receipt longer than
  its lease ("lapsed") has its broadcast under way when another claims again.

**Answers that are taken for something else.**
* `safe-broadcaster.ts:298`: with a provider that does not count queued
  transactions ("blind") a request pins the nonce of another's unresolved row,
  and the wait returns the receipt of whichever is mined.
* `safe-broadcaster.ts:235`: with `maxCostWei` the gas is estimated outside the try
  block, so the revert of a settled request is thrown and never classified. The
  model has both paths; no property speaks of them.
* `stuck-nonce.ts:34,52`: a fee estimate or a self-send that fails ("cancel") ends
  the call with its error, and the nonce is as stuck for the next one.
* `backend.ts:330`: a resolved scope answers "accepted" before the command digest is
  compared, so the same Submission under other money terms is reported accepted
  under the first ones. The intent record does compare them (`posting.test.ts:170`:
  "the same Submission cannot replay under changed money-path terms"), so nothing
  is posted under the new terms; no property states more.
* `native-base-sepolia-infrastructure.ts:1302`: events and receipt are separate
  calls. When a replica that lags serves no event and another the receipt ("lag"),
  a claim the operator holds is recorded as lost.
* `native-base-sepolia-infrastructure.ts:1244-1247`: the block and the finalized head
  are two concurrent reads. When a replica still on the abandoned fork answers the
  first and another the second ("stale"), a displaced claim is recorded as final.
* `native-operator-state.ts:950`: a claim observed safe and then mined again in
  another block ("reorg") is refused by the observation check on every tick.
* `native-base-sepolia-infrastructure.ts:1317`: a claim whose task closed before it
  was sent ("closed") is read as absent and simulated again for ever.

## 7. Plan

1. *(done)* Router, coordinator, checker and marketplace; their runs and theorems.
2. *(done)* Log source, projector, lock, broadcaster, posting, claim coordinator;
   the two refinements and their proofs.
3. *(done)* Inductive invariants for every safety property of the router, the log
   source, the lock, the broadcaster, posting and the claim coordinator.
4. *(done)* The projector's invariants, over lemmas about `poll()` that are stated
   for `ChainLogSource` alone.
5. `EscrowLedger`, an abstract specification of a task's escrow (deposit, hold,
   pay, return, refund), with the router shown to implement it.
6. `Pipeline`: claim to settlement or release; the solution and evaluation
   transactions of `native-operator-state.ts`.

## 8. Not modelled

The repository has some 614,000 lines, of which the modules stand for a few
thousand: the contracts that hold the money and the off-chain code that shares
state across crashes, processes and reorganisations. What is left has little for
a model checker:

* task execution, evidence, discovery, trust, indexer, benchmarking, applications:
  containers, files, HTTP and cryptography around pure document checks, with no
  concurrent state of their own;
* the fee arithmetic of the broadcaster (`fees.ts`), the decoding of events and
  errors, and the projector's fold per event kind (`derivation.ts`): pure
  functions over wide data;
* operator supervision (watchdog, heartbeats, spend gates): timers around process
  restarts, which the modules take as crashes at any point;
* the solution and evaluation halves of `native-operator-state.ts` and the
  pipeline: in the plan;
* the V3 contracts, which the modelled ones replace.

Two hazards have no property: `terminalCause` (`TaskCoordinatorV4.sol:637`) is read
by no contract, so nothing modelled can go wrong with it; and what a settled request
under a cost cap should answer (`safe-broadcaster.ts:235`) is said nowhere.
