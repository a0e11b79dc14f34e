-------------------------- MODULE SafeBroadcaster --------------------------
(***************************************************************************)
(* packages/marketplace/venue-base/src/broadcast: createSafeBroadcaster's   *)
(* execute(), the submission ledger (tx_submissions) and evictStuckNonce,   *)
(* for one sender.  execute() runs as the body of withSender, of which only *)
(* the promise of SenderMutex is used.                                      *)
(*                                                                          *)
(* Every await of execute() is a step of its own: the chain mines, forgets  *)
(* or delays transactions between any two.  A call <<r, k>> is the k-th     *)
(* time a caller executes request r, after the earlier ones have ended.     *)
(*                                                                          *)
(* Data.  A request stands for (to, value, data, logicalTx).  The requests  *)
(* in Settling are refused by the contract once their effect is there, with *)
(* an error of ALREADY_SETTLED_INNER; the others (createTask) execute every *)
(* time.  Fees are left out: a resubmission over a ledger row is priced     *)
(* above it, one over an unknown transaction may be underpriced.            *)
(***************************************************************************)
EXTENDS Integers, Sequences, FiniteSets

CONSTANTS
  Requests, Settling,
  Again,        \* bound: the requests that a caller executes twice, the others once
  MaxAttempts,  \* maxAttempts
  MaxFaults,    \* bound: lost answers, failed submissions or self-sends, deaths, lost leases
  Capped        \* the requests sent through a broadcaster with maxCostWei configured

Calls == (Requests \X {1}) \cup (Again \X {2})

ASSUME BroadcastAssumption ==
  /\ IsFiniteSet(Requests)   \* MaxNonce counts the calls
  /\ Settling \subseteq Requests /\ Again \subseteq Requests
  /\ MaxAttempts \in Nat \ {0}
  /\ MaxFaults \in Nat /\ Capped \subseteq Requests

VARIABLES
  inside,  \* the calls that run as the body of withSender
  mined,   \* the sender's mined transactions: mined[n + 1] has nonce n
  pool,    \* submitted and not mined
  ledger,  \* tx_submissions: nonce -> row
  call,    \* the local variables of each execute()
  faults,  \* history: how many faults happened
  met      \* history: the conditions met so far that a guarantee may depend on

Lock == INSTANCE SenderMutex WITH Callers <- Calls

vars == <<inside, mined, pool, ledger, call, faults, met>>
history == <<faults, met>>

Request(c) == c[1]
MaxNonce   == Cardinality(Calls) * MaxAttempts

NoTx  == [nonce |-> -1, kind |-> "none", by |-> <<>>, safe |-> 0, attempt |-> 0]
NoRow == [tx |-> NoTx, resolved |-> TRUE]
Results == {"ok", "adopted", "settled", "refused", "failed", "dead"}
Fresh == [pc |-> "idle", attempt |-> 0, pinned |-> 0, safe |-> 0, tx |-> NoTx,
          lost |-> FALSE]

Init ==
  /\ Lock!MutexInit
  /\ mined = << >> /\ pool = {}
  /\ ledger = [n \in 0..MaxNonce |-> NoRow]
  /\ call = [c \in Calls |-> Fresh]
  /\ faults = 0 /\ met = {}

-----------------------------------------------------------------------------
(* The chain.                                                               *)

Latest    == Len(mined)
Of(r)     == {i \in 1..Len(mined) : mined[i].ok /\ mined[i].tx.kind = "exec"
                                      /\ Request(mined[i].tx.by) = r}
SafeNonce == Cardinality({i \in 1..Len(mined) : mined[i].ok /\ mined[i].tx.kind = "exec"})
Reverts(r) == r \in Settling /\ Of(r) # {}

\* getTransactionCount(pending).  Some providers do not count what is queued.
Queued == CHOOSE n \in Latest..(MaxNonce + 1) :
                  /\ \A m \in Latest..(n - 1) : \E tx \in pool : tx.nonce = m
                  /\ ~\E tx \in pool : tx.nonce = n
PendingIs(n) ==
  \/ n = Queued /\ UNCHANGED met
  \/ n = Latest /\ n # Queued /\ met' = met \cup {"blind"}
Counts == {Latest, Queued}

\* A transaction of the next nonce is mined.  execTransaction reverts when it
\* was signed for another Safe nonce or when the inner call reverts.
Mine(tx) ==
  /\ tx \in pool /\ tx.nonce = Latest
  /\ mined' = Append(mined,
       [tx |-> tx, ok |-> tx.kind = "cancel"
                            \/ (tx.safe = SafeNonce /\ ~Reverts(Request(tx.by)))])
  /\ pool' = {t \in pool : t.nonce # tx.nonce}
  /\ UNCHANGED <<inside, ledger, call, history>>

-----------------------------------------------------------------------------
(* execute() and evictStuckNonce().                                         *)

\* One of the faults a run allows.
Fault(name) == faults < MaxFaults /\ faults' = faults + 1 /\ met' = met \cup {name}

Running(c, at) == call[c].pc = at

Ended(c) == call[c].pc \in Results \/ call[c].lost

Goto(c, at) == call' = [call EXCEPT ![c].pc = at]

\* The call settles and withSender releases the sender.
End(c, result) ==
  /\ call' = [call EXCEPT ![c].pc = result]
  /\ inside' = inside \ {c}

\* Mutant: the retry loop has no end.
Retry_Uncounted(c, pinned) ==
  /\ call' = [call EXCEPT ![c].pc = "sign", ![c].pinned = pinned]
  /\ UNCHANGED inside

\* The next turn of the retry loop, or the error of the last one.
Retry(c, pinned) ==
  IF call[c].attempt + 1 < MaxAttempts
  THEN /\ call' = [call EXCEPT ![c].pc = "sign", ![c].attempt = @ + 1, ![c].pinned = pinned]
       /\ UNCHANGED inside
  ELSE End(c, "failed")

\* Mutant: the body runs without the lock.
Execute_Unlocked(c) ==
  /\ Running(c, "idle")
  /\ \A k \in 1..(c[2] - 1) : Ended(<<Request(c), k>>)
  /\ inside' = inside \cup {c}
  /\ Goto(c, "evict")
  /\ UNCHANGED <<mined, pool, ledger, history>>

Execute(c) ==
  /\ Running(c, "idle")
  /\ \A k \in 1..(c[2] - 1) : Ended(<<Request(c), k>>)
  /\ Lock!Enter(c)
  /\ Goto(c, "evict")
  /\ UNCHANGED <<mined, pool, ledger, history>>

Unresolved(from, to) == {n \in from..(to - 1) : ~ledger[n].resolved}

SelfSend(c, n) == [nonce |-> n, kind |-> "cancel", by |-> c, safe |-> 0, attempt |-> 0]

\* evictStuckNonce reads both counts and takes the lowest row between them
\* that is older than stuckNonceAfterMs, which can be any unresolved one.
FindStuck(c) ==
  /\ Running(c, "evict")
  /\ \E n \in Counts :
       /\ PendingIs(n)
       /\ \/ Goto(c, "pin")
          \/ \E stuck \in Unresolved(Latest, n) :
               call' = [call EXCEPT ![c].pc = "cancel", ![c].pinned = stuck]
  /\ UNCHANGED <<inside, mined, pool, ledger, faults>>

\* The self-send throws, and execute() with it: the fees cannot be estimated,
\* the submission is refused or its answer is lost, or what holds the nonce is
\* not the ledger's row and outbids it.
CancelFails(c) ==
  LET n == call[c].pinned IN
  /\ Running(c, "cancel")
  /\ \/ Fault("cancel") /\ UNCHANGED pool
     \/ Fault("cancel") /\ n >= Latest /\ pool' = pool \cup {SelfSend(c, n)}
     \/ /\ \E tx \in pool : tx.nonce = n /\ tx # ledger[n].tx
        /\ met' = met \cup {"cancel"} /\ UNCHANGED <<pool, faults>>
  /\ End(c, "failed")
  /\ UNCHANGED <<mined, ledger>>

\* Mutant: the self-send takes the next free nonce.
SendCancel_Unpinned(c) ==
  LET tx == SelfSend(c, Queued) IN
  /\ Running(c, "cancel")
  /\ pool' = pool \cup {tx}
  /\ call' = [call EXCEPT ![c].pc = "sent", ![c].tx = tx]
  /\ UNCHANGED <<inside, mined, ledger, history>>

\* The zero-value self-send at the stuck nonce.  When the stuck transaction is
\* mined first the submission throws, and execute() with it.
SendCancel(c) ==
  LET n  == call[c].pinned
      tx == SelfSend(c, n) IN
  /\ Running(c, "cancel")
  /\ IF n < Latest THEN End(c, "failed") /\ UNCHANGED pool
     ELSE /\ pool' = pool \cup {tx}
          /\ call' = [call EXCEPT ![c].pc = "sent", ![c].tx = tx]
          /\ UNCHANGED inside
  /\ UNCHANGED <<mined, ledger, history>>

\* Mutant: the nonce is counted at the latest block.
Pin_Latest(c) ==
  /\ Running(c, "pin")
  /\ call' = [call EXCEPT ![c].pc = "sign", ![c].pinned = Latest]
  /\ UNCHANGED <<inside, mined, pool, ledger, history>>

Pin(c) ==
  /\ Running(c, "pin")
  /\ \E n \in Counts :
       PendingIs(n) /\ call' = [call EXCEPT ![c].pc = "sign", ![c].pinned = n]
  /\ UNCHANGED <<inside, mined, pool, ledger, faults>>

\* The Safe nonce is read and signed for.
Sign(c) ==
  /\ Running(c, "sign")
  /\ call' = [call EXCEPT ![c].pc = IF Request(c) \in Capped THEN "estimate" ELSE "send",
                          ![c].safe = SafeNonce]
  /\ UNCHANGED <<inside, mined, pool, ledger, history>>

\* The inner call reverts, or the signature is for another Safe nonce.
Simulates(c) == call[c].safe = SafeNonce /\ ~Reverts(Request(c))

\* With a cap configured the exact gas is estimated first, outside the try
\* block: a revert is thrown as it is, and so is a cost above the cap.
Estimate(c) ==
  /\ Running(c, "estimate")
  /\ \/ Simulates(c) /\ Goto(c, "send") /\ UNCHANGED inside
     \/ Simulates(c) /\ End(c, "failed")
     \/ ~Simulates(c) /\ End(c, "refused")
  /\ UNCHANGED <<mined, pool, ledger, history>>

\* decodeInner finds why the call reverts: an effect that is already there is
\* a success, anything else is thrown.
Decoded(c) == IF Reverts(Request(c)) THEN "settled" ELSE "refused"

\* writeContract estimates gas before it submits: GS013 and GS026.
SimulationReverts(c) ==
  /\ Running(c, "send") /\ ~Simulates(c)
  /\ End(c, Decoded(c))
  /\ UNCHANGED <<mined, pool, ledger, history>>

Submission(c) == [nonce |-> call[c].pinned, kind |-> "exec", by |-> c,
                  safe |-> call[c].safe, attempt |-> call[c].attempt]

Resolve(n) == ledger' = [ledger EXCEPT ![n].resolved = TRUE]

\* Mutant: the row is adopted whatever its logicalTx.
Adoptable_Foreign(c, n) ==
  n < Latest /\ mined[n + 1].tx = ledger[n].tx /\ mined[n + 1].ok

\* Does the ledger hold, at this nonce, a transaction of this request that
\* was mined and succeeded.
Adoptable(c, n) ==
  /\ ledger[n].tx.kind = "exec" /\ Request(ledger[n].tx.by) = Request(c)
  /\ n < Latest /\ mined[n + 1].tx = ledger[n].tx /\ mined[n + 1].ok

\* "nonce too low" or "underpriced": reconcile at the nonce that was pinned,
\* else pin a fresh one and try again.
NonceTaken(c) ==
  LET n == call[c].pinned IN
  /\ Running(c, "send") /\ Simulates(c)
  /\ \/ n < Latest
     \/ \E tx \in pool : tx.nonce = n /\ (ledger[n].resolved \/ ledger[n].tx # tx)
  /\ IF Adoptable(c, n)
     THEN Resolve(n) /\ End(c, "adopted") /\ UNCHANGED met
     ELSE /\ UNCHANGED ledger
          /\ \E m \in Counts : PendingIs(m) /\ Retry(c, m)
  /\ UNCHANGED <<mined, pool, faults>>

CanSubmit(c) == Running(c, "send") /\ Simulates(c) /\ call[c].pinned >= Latest

Submit(c) ==
  /\ CanSubmit(c)
  /\ pool' = pool \cup {Submission(c)}
  /\ call' = [call EXCEPT ![c].pc = "sent", ![c].tx = Submission(c)]
  /\ UNCHANGED <<inside, mined, ledger, history>>

\* The node has the transaction, the caller a retryable network error.
AnswerLost(c) ==
  /\ CanSubmit(c) /\ Fault("answer")
  /\ pool' = pool \cup {Submission(c)}
  /\ Retry(c, call[c].pinned)
  /\ UNCHANGED <<mined, ledger>>

\* The node never saw it.  A permanent error ends the call.
SendFails(c) ==
  /\ CanSubmit(c) /\ Fault("send")
  /\ Retry(c, call[c].pinned) \/ End(c, "failed")
  /\ UNCHANGED <<mined, pool, ledger>>

\* ledger.record, in the turn that has the hash.
Record(c) ==
  /\ Running(c, "sent")
  /\ ledger' = [ledger EXCEPT ![call[c].tx.nonce] =
                  [tx |-> call[c].tx, resolved |-> FALSE]]
  /\ Goto(c, "wait")
  /\ UNCHANGED <<inside, mined, pool, history>>

\* waitForTransactionReceipt returns the receipt of the transaction that took
\* the nonce, be it the one asked for or one that replaced it.
Receipt(c) ==
  LET n == call[c].tx.nonce IN
  /\ Running(c, "wait") /\ n < Latest
  /\ \/ /\ call[c].tx.kind = "cancel"
        /\ Resolve(n) /\ Goto(c, "pin") /\ UNCHANGED <<inside, met>>
     \/ /\ call[c].tx.kind = "exec" /\ mined[n + 1].ok
        /\ Resolve(n) /\ End(c, "ok") /\ UNCHANGED met
     \/ /\ call[c].tx.kind = "exec" /\ ~mined[n + 1].ok /\ Reverts(Request(c))
        /\ Resolve(n) /\ End(c, Decoded(c)) /\ UNCHANGED met
     \/ /\ call[c].tx.kind = "exec" /\ ~mined[n + 1].ok /\ ~Reverts(Request(c))
        /\ \E m \in Counts : PendingIs(m) /\ Retry(c, m)
        /\ UNCHANGED ledger
  /\ UNCHANGED <<mined, pool, faults>>

\* Mutant: a receipt timeout is retried.
ReceiptTimesOut_Retried(c) ==
  /\ Running(c, "wait") /\ call[c].tx.nonce >= Latest
  /\ \E n \in Counts : PendingIs(n) /\ Retry(c, n)
  /\ UNCHANGED <<mined, pool, ledger, faults>>

\* The wait gives up: the error leaves execute(), the row stays unresolved.
ReceiptTimesOut(c) ==
  /\ Running(c, "wait") /\ call[c].tx.nonce >= Latest
  /\ End(c, "failed")
  /\ UNCHANGED <<mined, pool, ledger, history>>

Crash(c) ==
  /\ c \in inside
  /\ Fault("crash")
  /\ End(c, "dead")
  /\ UNCHANGED <<mined, pool, ledger>>

\* The lease is lost: the caller is told, the body goes on (see BroadcastLock).
LoseLease(c) ==
  /\ Fault("lease")
  /\ Lock!Leave(c)
  /\ call' = [call EXCEPT ![c].lost = TRUE]
  /\ UNCHANGED <<mined, pool, ledger>>

CallStep(c) ==
  \/ Execute(c) \/ FindStuck(c) \/ SendCancel(c) \/ Pin(c) \/ Sign(c) \/ Estimate(c)
  \/ SimulationReverts(c) \/ NonceTaken(c) \/ Submit(c) \/ Record(c) \/ Receipt(c)

Mishap(c) == \/ CancelFails(c) \/ AnswerLost(c) \/ SendFails(c) \/ ReceiptTimesOut(c)
             \/ Crash(c) \/ LoseLease(c)

Next == \/ \E c \in Calls : CallStep(c) \/ Mishap(c)
        \/ \E tx \in pool : Mine(tx)

\* The calls go on, a receipt wait ends, and a self-send, priced
\* above the current estimate and the stuck transaction, is mined.
Spec == /\ Init /\ [][Next]_vars
        /\ \A c \in Calls : WF_vars(CallStep(c)) /\ WF_vars(ReceiptTimesOut(c))
        /\ WF_vars(\E tx \in pool : tx.kind = "cancel" /\ Mine(tx))

-----------------------------------------------------------------------------
Answered(c, results) == call[c].pc \in results /\ ~call[c].lost

\* A call that reports success has its effect on chain: neither a foreign
\* transaction at its nonce nor a self-send is taken for it.  (No call lost its
\* lease, and the provider counted what was queued.)
SuccessHasEffect ==
  met \cap {"blind", "lease"} = {} =>
    \A c \in Calls : Answered(c, {"ok", "adopted", "settled"}) => Of(Request(c)) # {}

\* reconcile() never adopts a foreign transaction, and an already-settled
\* answer is never given for an effect that is not there.
AdoptedHasEffect ==
  \A c \in Calls : Answered(c, {"adopted", "settled"}) => Of(Request(c)) # {}

\* One call executes its request at most once, however often it submits it:
\* what it submitted is waited for, adopted or replaced, never repeated.  (No
\* answer to a submission was lost.)
AtMostOncePerCall ==
  "answer" \notin met =>
    \A c \in Calls : Cardinality({i \in Of(Request(c)) : mined[i].tx.by = c}) <= 1

\* While a call waits for the receipt of an execution, no other call's
\* transaction and no self-send is queued at its nonce or has taken it: the
\* receipt that comes is about its own request.  (No call lost its lease, and
\* the provider counted what was queued.)
NonceIsOwn ==
  met \cap {"blind", "lease"} = {} =>
    \A c \in Calls : Running(c, "wait") /\ call[c].tx.kind = "exec" =>
      \A tx \in pool \cup {mined[i].tx : i \in 1..Len(mined)} :
        tx.nonce = call[c].tx.nonce => tx.kind = "exec" /\ tx.by = c

\* A call that finds the next nonce blocked by a stale transaction frees it.
\* (It did not die, kept the lease, and the node took its self-send.)
StuckNonceFreed ==
  \A c \in Calls :
    (Running(c, "cancel") /\ call[c].pinned = Latest)
      ~> (call[c].pinned < Latest \/ met \cap {"crash", "lease", "cancel"} # {})

\* Every call comes to an end, and no two that run at once wait for each other.
EveryCallEnds == <>[](\A c \in Calls : call[c].pc \in Results)
=============================================================================
