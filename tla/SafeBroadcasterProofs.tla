----------------------- MODULE SafeBroadcasterProofs ------------------------
(***************************************************************************)
(* Theorems about execute(): what it reports as done is done, a call       *)
(* executes its request at most once, and the nonce it waits for is taken  *)
(* by nothing else.                                                        *)
(*                                                                         *)
(* getTransactionCount(pending) is the first nonce without a transaction.  *)
(* That there is one within the bound of the ledger's nonces rests on a    *)
(* count: every nonce in use was opened by another turn of some call's     *)
(* retry loop (Counted).                                                   *)
(***************************************************************************)
EXTENDS SafeBroadcaster, SequenceTheorems, FiniteSetTheorems, WellFoundedInduction, TLAPS

TxType   == [nonce : Int, kind : {"none", "exec", "cancel"}, by : Calls \cup {<< >>},
             safe : Nat, attempt : Nat]
SentTx   == [nonce : Nat, kind : {"exec", "cancel"}, by : Calls, safe : Nat, attempt : Nat]
MinedTx  == [tx : SentTx, ok : BOOLEAN]
RowType  == [tx : TxType, resolved : BOOLEAN]
Before   == {"idle", "evict", "cancel", "pin", "sign", "estimate", "send"}
Places   == Before \cup {"sent", "wait"} \cup Results
CallType == [pc : Places, attempt : 0..(MaxAttempts - 1), pinned : 0..MaxNonce,
             safe : Nat, tx : TxType, lost : BOOLEAN]

TypeOK ==
  /\ inside \subseteq Calls
  /\ mined \in Seq(MinedTx) /\ pool \subseteq SentTx
  /\ ledger \in [0..MaxNonce -> RowType]
  /\ call \in [Calls -> CallType]

\* A nonce is mined once, in order, and what is queued is above.
InOrder ==
  /\ \A tx \in pool : tx.nonce >= Latest
  /\ \A i \in 1..Len(mined) : mined[i].tx.nonce = i - 1

Occupied == {n \in Nat : n < Latest \/ \E tx \in pool : tx.nonce = n}

\* The current turn of a call's retry loop has submitted nothing.
Unsent(k) == k.pc \in Before \/ (k.pc \in {"sent", "wait"} /\ k.tx.kind = "cancel")

\* The turns of the retry loops that may have taken a nonce.
Turns == Calls \X (0..(MaxAttempts - 1))
Used  == {u \in Turns : \/ u[2] < call[u[1]].attempt
                        \/ u[2] = call[u[1]].attempt /\ ~Unsent(call[u[1]])}

Counted == IsFiniteSet(Occupied) /\ Cardinality(Occupied) <= Cardinality(Used)

\* An unresolved row, a self-send and a submission are about a nonce in use.
AboutOccupied ==
  /\ \A n \in 0..MaxNonce : ~ledger[n].resolved => n \in Occupied
  /\ \A c \in Calls :
       /\ call[c].pc = "cancel" => call[c].pinned \in Occupied
       /\ call[c].pc \in {"sent", "wait"} =>
            call[c].tx \in SentTx /\ call[c].tx.nonce \in Occupied

CallInv == TypeOK /\ InOrder /\ Counted /\ AboutOccupied /\ AdoptedHasEffect

-----------------------------------------------------------------------------
(* Counts *)

\* There are finitely many calls, and a number of nonces for their turns.
LEMMA TurnsFinite ==
  /\ IsFiniteSet(Calls) /\ IsFiniteSet(Turns)
  /\ MaxNonce \in Nat /\ Cardinality(Turns) = MaxNonce
<1>1. IsFiniteSet(Requests) /\ IsFiniteSet(Again) /\ MaxAttempts \in Nat \ {0}
  BY BroadcastAssumption, FS_Subset
<1>2. IsFiniteSet({1}) /\ IsFiniteSet({2})
  BY FS_Singleton
<1>3. IsFiniteSet(Requests \X {1}) /\ IsFiniteSet(Again \X {2})
  BY <1>1, <1>2, FS_Product
<1>4. IsFiniteSet(Calls)
  BY <1>3, FS_Union DEF Calls
<1>5. IsFiniteSet(0..(MaxAttempts - 1)) /\ Cardinality(0..(MaxAttempts - 1)) = MaxAttempts
  <2>1. 0 \in Int /\ MaxAttempts - 1 \in Int /\ ~(0 > MaxAttempts - 1)
    BY <1>1
  <2>2. /\ IsFiniteSet(0..(MaxAttempts - 1))
        /\ Cardinality(0..(MaxAttempts - 1)) =
             IF 0 > MaxAttempts - 1 THEN 0 ELSE MaxAttempts - 1 - 0 + 1
    BY <2>1, FS_Interval
  <2> QED BY <1>1, <2>1, <2>2
<1>6. /\ IsFiniteSet(Turns)
      /\ Cardinality(Turns) = Cardinality(Calls) * Cardinality(0..(MaxAttempts - 1))
  BY <1>4, <1>5, FS_Product DEF Turns
<1>7. Cardinality(Calls) \in Nat
  BY <1>4, FS_CardinalityType
<1> QED BY <1>1, <1>4, <1>5, <1>6, <1>7 DEF MaxNonce

\* The nonces a behaviour can use are bounded by its calls.
LEMMA UsedBounded ==
  /\ IsFiniteSet(Used) /\ Cardinality(Used) \in Nat /\ Cardinality(Used) <= MaxNonce
<1>1. Used \subseteq Turns
  BY DEF Used
<1> QED BY <1>1, TurnsFinite, FS_Subset, FS_CardinalityType

\* The Safe nonce is a number.
LEMMA SafeNonceType ==
  ASSUME TypeOK
  PROVE  SafeNonce \in Nat
<1>1. IsFiniteSet(1..Len(mined))
  <2>1. Len(mined) \in Nat
    BY DEF TypeOK
  <2> QED BY <2>1, FS_Interval
<1> DEFINE S == {i \in 1..Len(mined) : mined[i].ok /\ mined[i].tx.kind = "exec"}
<1>2. IsFiniteSet(S)
  BY <1>1, FS_Subset
<1> QED BY <1>2, FS_CardinalityType DEF SafeNonce

\* A set of numbers that is not empty has a least one.
LEMMA LeastOf ==
  ASSUME NEW S, S \subseteq Nat, S # {}
  PROVE  \E n \in S : \A m \in S : n <= m
<1> DEFINE R == OpToRel(<, Nat)
<1>1. IsWellFoundedOn(R, Nat)
  BY NatLessThanWellFounded
<1> HIDE DEF R
<1>2. PICK n \in S : \A m \in S : ~(<<m, n>> \in R)
  BY <1>1, WFMin
<1>3. \A m \in S : ~(m < n)
  BY <1>2 DEF R, OpToRel
<1> QED BY <1>3

\* The pending count is a nonce within the bound that nothing queued has.
LEMMA QueuedIsFree ==
  ASSUME TypeOK, Counted
  PROVE  /\ Queued \in 0..MaxNonce /\ Queued >= Latest
         /\ \A tx \in pool : tx.nonce # Queued
<1>1. Latest \in Nat /\ MaxNonce \in Nat /\ \A tx \in pool : tx.nonce \in Nat
  BY TurnsFinite DEF TypeOK, Latest, SentTx
<1> DEFINE Free == {n \in 0..MaxNonce : n \notin Occupied}
<1>2. Free # {}
  <2>1. SUFFICES ASSUME Free = {} PROVE FALSE
    OBVIOUS
  <2>2. 0..MaxNonce \subseteq Occupied
    BY <2>1
  <2>3. Cardinality(0..MaxNonce) <= Cardinality(Occupied)
    BY <2>2, FS_Subset DEF Counted
  <2>4. Cardinality(0..MaxNonce) = MaxNonce + 1
    <3>1. 0 \in Int /\ MaxNonce \in Int /\ ~(0 > MaxNonce)
      BY <1>1
    <3>2. Cardinality(0..MaxNonce) = IF 0 > MaxNonce THEN 0 ELSE MaxNonce - 0 + 1
      BY <3>1, FS_Interval
    <3> QED BY <1>1, <3>1, <3>2
  <2>5. Cardinality(Occupied) \in Nat /\ Cardinality(Occupied) <= MaxNonce
    BY <1>1, UsedBounded, FS_CardinalityType DEF Counted
  <2> QED BY <1>1, <2>3, <2>4, <2>5
<1>3. PICK n \in Free : \A m \in Free : n <= m
  <2>1. Free \subseteq Nat
    BY <1>1
  <2> HIDE DEF Free
  <2> QED BY <1>2, <2>1, LeastOf
<1>4. n \in Nat /\ n <= MaxNonce /\ n >= Latest /\ ~\E tx \in pool : tx.nonce = n
  BY <1>1, <1>3 DEF Occupied
<1>5. \A m \in Latest..(n - 1) : \E tx \in pool : tx.nonce = m
  <2>1. ASSUME NEW m \in Latest..(n - 1) PROVE \E tx \in pool : tx.nonce = m
    <3>1. m \in 0..MaxNonce /\ ~(n <= m) /\ ~(m < Latest) /\ m \in Nat
      BY <1>1, <1>4
    <3>2. m \in Occupied
      BY <1>3, <3>1
    <3> QED BY <3>1, <3>2 DEF Occupied
  <2> QED BY <2>1
<1> DEFINE Q(q) == /\ \A m \in Latest..(q - 1) : \E tx \in pool : tx.nonce = m
                   /\ ~\E tx \in pool : tx.nonce = q
<1>6. n \in Latest..(MaxNonce + 1) /\ Q(n)
  BY <1>1, <1>4, <1>5
<1>7. Queued = CHOOSE q \in Latest..(MaxNonce + 1) : Q(q)
  BY DEF Queued
<1>8. Queued \in Latest..(MaxNonce + 1) /\ Q(Queued)
  <2> HIDE DEF Q
  <2> QED BY <1>6, <1>7
<1>9. Queued <= n
  <2>1. SUFFICES ASSUME n < Queued PROVE FALSE
    BY <1>1, <1>4, <1>8
  <2>2. n \in Latest..(Queued - 1)
    BY <1>1, <1>4, <1>8, <2>1
  <2> QED BY <1>4, <1>8, <2>2
<1> QED BY <1>1, <1>4, <1>8, <1>9

\* Any count a provider gives is a nonce within the bound, and the counted
\* one unless the provider does not count what is queued.
LEMMA CountsAre ==
  ASSUME TypeOK, Counted, NEW n \in Counts, PendingIs(n)
  PROVE  /\ n \in 0..MaxNonce /\ n >= Latest
         /\ n = Queued \/ "blind" \in met'
<1>1. Queued \in 0..MaxNonce /\ Queued >= Latest /\ MaxNonce \in Nat
  BY QueuedIsFree, TurnsFinite
<1>2. Latest \in Nat
  BY DEF TypeOK, Latest
<1> QED BY <1>1, <1>2 DEF Counts, PendingIs

-----------------------------------------------------------------------------
(* What a step of a call may do.  k is the call's local variables before    *)
(* the step, l those after it.                                              *)

Active(k) == k.pc \notin Results \cup {"idle"}

\* Nothing queued has nonce n, and it is not mined.
FreeNonce(n) == n >= Latest /\ \A tx \in pool : tx.nonce # n

CancelTx(c) == SelfSend(c, call[c].pinned)

\* The next turn of the retry loop, or its end.
NextTurn(k, l) ==
  /\ l.tx = k.tx
  /\ \/ l.pc = "sign" /\ l.attempt = k.attempt + 1
     \/ l.pc = "failed" /\ l.attempt = k.attempt

\* Nothing is sent and no turn begins.
Continues(k, l) ==
  /\ pool' = pool /\ l.attempt = k.attempt /\ l.tx = k.tx
  /\ Unsent(l) => Unsent(k)
  /\ l.pc = "cancel" => l.pinned \in Occupied
  /\ l.pc \in {"sent", "wait"} => k.pc \in {"sent", "wait"}

\* Nothing of this turn was sent, or its nonce was taken without effect.
Retries(k, l) ==
  /\ pool' = pool /\ NextTurn(k, l)
  /\ \/ k.pc = "send"
     \/ /\ k.pc = "wait" /\ k.tx.kind = "exec"
        /\ k.tx.nonce < Latest /\ ~mined[k.tx.nonce + 1].ok

Sends(c, tx) == call[c].pinned >= Latest /\ pool' = pool \cup {tx}

Submits(c, k, l) ==
  /\ k.pc = "send" /\ Sends(c, Submission(c))
  /\ l.pc = "sent" /\ l.tx = Submission(c) /\ l.attempt = k.attempt

LosesAnswer(c, k, l) ==
  /\ k.pc = "send" /\ Sends(c, Submission(c)) /\ NextTurn(k, l) /\ "answer" \in met'

Cancels(c, k, l) ==
  /\ k.pc = "cancel" /\ Sends(c, CancelTx(c))
  /\ l.pc = "sent" /\ l.tx = CancelTx(c) /\ l.attempt = k.attempt

\* The self-send is queued, and the call is not told.
LosesCancel(c, k, l) ==
  /\ k.pc = "cancel" /\ Sends(c, CancelTx(c))
  /\ l.pc = "failed" /\ l.tx = k.tx /\ l.attempt = k.attempt

\* An unresolved row appears for what was just sent, and only for that.
LedgerMove(k) ==
  /\ ledger' \in [0..MaxNonce -> RowType]
  /\ \A n \in 0..MaxNonce : ~ledger'[n].resolved =>
       ~ledger[n].resolved \/ (k.pc = "sent" /\ n = k.tx.nonce)

\* The body enters, goes on or leaves, or the lease is lost.
InsideMove(c, k, l) ==
  \/ inside = {} /\ inside' = {c}
  \/ /\ Active(k) \/ c \in inside
     /\ inside' = (IF l.pc \in Results THEN inside \ {c} ELSE inside)
     /\ Active(l) => Active(k)
  \/ "lease" \in met'

\* A nonce is pinned that was free, or it stays the one that was pinned.
PinMove(k, l) ==
  /\ l.pc \in {"sign", "estimate", "send"} =>
       \/ k.pc \in {"sign", "estimate", "send"} /\ l.pinned = k.pinned
       \/ FreeNonce(l.pinned) \/ "blind" \in met'
  /\ l.pc \in {"sent", "wait"} => l.pinned = k.pinned

\* What is answered.
AnswerMove(c, k, l) ==
  /\ l.pc \in {"adopted", "settled"} /\ ~l.lost => Of(Request(c)) # {}
  /\ l.pc = "ok" => \/ "lease" \in met'
                    \/ /\ k.pc = "wait" /\ k.tx.kind = "exec"
                       /\ k.tx.nonce < Latest /\ mined[k.tx.nonce + 1].ok

Move(c, k, l) ==
  /\ call' = [call EXCEPT ![c] = l] /\ mined' = mined /\ inside' \subseteq Calls
  /\ LedgerMove(k) /\ InsideMove(c, k, l) /\ PinMove(k, l) /\ AnswerMove(c, k, l)
  /\ \/ Continues(k, l) \/ Retries(k, l) \/ Submits(c, k, l)
     \/ LosesAnswer(c, k, l) \/ Cancels(c, k, l) \/ LosesCancel(c, k, l)

Moves(c) == \E l \in CallType : Move(c, call[c], l)

\* A step that changes the place only.
LEMMA PlaceMove ==
  ASSUME TypeOK, NEW c \in Calls, NEW there \in Places,
         call' = [call EXCEPT ![c].pc = there]
  PROVE  \E l \in CallType :
           /\ call' = [call EXCEPT ![c] = l] /\ l.pc = there
           /\ l.attempt = call[c].attempt /\ l.pinned = call[c].pinned
           /\ l.tx = call[c].tx /\ l.lost = call[c].lost
<1> DEFINE l == [call[c] EXCEPT !.pc = there]
<1>1. call[c] \in CallType
  BY DEF TypeOK
<1>2. /\ l \in CallType /\ l.pc = there
      /\ l.attempt = call[c].attempt /\ l.pinned = call[c].pinned
      /\ l.tx = call[c].tx /\ l.lost = call[c].lost
  BY <1>1 DEF CallType
<1>3. call' = [call EXCEPT ![c] = l]
  BY DEF TypeOK
<1> QED BY <1>2, <1>3

\* Rows that are kept.
LEMMA LedgerKept ==
  ASSUME TypeOK, NEW k, ledger' = ledger
  PROVE  LedgerMove(k)
BY DEF LedgerMove, TypeOK

\* A row is resolved.
LEMMA LedgerResolved ==
  ASSUME TypeOK, NEW k, NEW n \in 0..MaxNonce, Resolve(n)
  PROVE  LedgerMove(k)
<1>1. ledger[n] \in RowType /\ ledger \in [0..MaxNonce -> RowType]
  BY DEF TypeOK
<1> DEFINE r == [ledger[n] EXCEPT !.resolved = TRUE]
<1>2. r \in RowType /\ r.resolved
  BY <1>1 DEF RowType
<1>3. ledger' = [ledger EXCEPT ![n] = r]
  BY <1>1 DEF Resolve
<1> HIDE DEF r
<1>4. /\ ledger' \in [0..MaxNonce -> RowType]
      /\ \A m \in 0..MaxNonce : ~ledger'[m].resolved => ~ledger[m].resolved
  BY <1>1, <1>2, <1>3
<1> QED BY <1>4 DEF LedgerMove

\* A step that changes the place, sends nothing and begins no turn.
LEMMA Advances ==
  ASSUME TypeOK, NEW c \in Calls, NEW there \in Places \ {"cancel"},
         call' = [call EXCEPT ![c].pc = there],
         pool' = pool, mined' = mined, inside' \subseteq Calls, LedgerMove(call[c]),
         \/ inside = {} /\ inside' = {c}
         \/ /\ Active(call[c]) \/ c \in inside
            /\ inside' = (IF there \in Results THEN inside \ {c} ELSE inside)
            /\ there \in Results \cup {"idle"} \/ Active(call[c]),
         there \in Before => Unsent(call[c]),
         there \in {"sent", "wait"} => call[c].pc \in {"sent", "wait"},
         there \in {"sign", "estimate", "send"} =>
           call[c].pc \in {"sign", "estimate", "send"},
         there \in {"adopted", "settled"} => Of(Request(c)) # {},
         there = "ok" => /\ call[c].pc = "wait" /\ call[c].tx.kind = "exec"
                         /\ call[c].tx.nonce < Latest
                         /\ mined[call[c].tx.nonce + 1].ok
  PROVE  Moves(c)
<1>1. PICK l \in CallType :
        /\ call' = [call EXCEPT ![c] = l] /\ l.pc = there
        /\ l.attempt = call[c].attempt /\ l.pinned = call[c].pinned
        /\ l.tx = call[c].tx /\ l.lost = call[c].lost
  BY PlaceMove
<1> DEFINE k == call[c]
<1>2. InsideMove(c, k, l)
  BY <1>1 DEF InsideMove, Active
<1>3. PinMove(k, l)
  BY <1>1 DEF PinMove
<1>4. AnswerMove(c, k, l)
  BY <1>1 DEF AnswerMove
<1>5. Continues(k, l)
  BY <1>1 DEF Continues, Unsent, Before
<1> QED BY <1>1, <1>2, <1>3, <1>4, <1>5 DEF Moves, Move

\* Retry() with a nonce within the bound.
LEMMA RetryMoves ==
  ASSUME TypeOK, NEW c \in Calls, NEW n \in 0..MaxNonce, Retry(c, n), Active(call[c]),
         mined' = mined, ledger' = ledger,
         \/ /\ pool' = pool
            /\ \/ call[c].pc = "send"
               \/ /\ call[c].pc = "wait" /\ call[c].tx.kind = "exec"
                  /\ call[c].tx.nonce < Latest /\ ~mined[call[c].tx.nonce + 1].ok
         \/ call[c].pc = "send" /\ Sends(c, Submission(c)) /\ "answer" \in met',
         \/ call[c].pc = "send" /\ n = call[c].pinned
         \/ FreeNonce(n) \/ "blind" \in met'
  PROVE  Moves(c)
<1> DEFINE k == call[c]
<1>1. /\ k \in CallType /\ inside \subseteq Calls /\ LedgerMove(k)
      /\ call \in [Calls -> CallType] /\ MaxAttempts \in Nat
  BY LedgerKept, BroadcastAssumption DEF TypeOK
<1>2. \E l \in CallType :
        /\ call' = [call EXCEPT ![c] = l] /\ l.tx = k.tx
        /\ \/ /\ l.pc = "sign" /\ l.attempt = k.attempt + 1 /\ l.pinned = n
              /\ inside' = inside
           \/ /\ l.pc = "failed" /\ l.attempt = k.attempt
              /\ inside' = inside \ {c}
  <2>1. CASE k.attempt + 1 < MaxAttempts
    <3> DEFINE l == [k EXCEPT !.pc = "sign", !.attempt = @ + 1, !.pinned = n]
    <3>1. k.attempt + 1 \in 0..(MaxAttempts - 1)
      BY <1>1, <2>1 DEF CallType
    <3>2. /\ l \in CallType /\ l.tx = k.tx /\ l.pc = "sign"
          /\ l.attempt = k.attempt + 1 /\ l.pinned = n
      BY <1>1, <3>1 DEF CallType, Places, Before
    <3>3. call' = [call EXCEPT ![c] = l] /\ inside' = inside
      BY <1>1, <2>1 DEF Retry
    <3> QED BY <3>2, <3>3
  <2>2. CASE ~(k.attempt + 1 < MaxAttempts)
    <3>1. call' = [call EXCEPT ![c].pc = "failed"] /\ inside' = inside \ {c}
      BY <2>2 DEF Retry, End
    <3> DEFINE l == [k EXCEPT !.pc = "failed"]
    <3>2. /\ l \in CallType /\ l.tx = k.tx /\ l.pc = "failed"
          /\ l.attempt = k.attempt
      BY <1>1 DEF CallType, Places, Results
    <3>3. call' = [call EXCEPT ![c] = l]
      BY <1>1, <3>1
    <3> QED BY <3>1, <3>2, <3>3
  <2> QED BY <2>1, <2>2
<1>3. PICK l \in CallType :
        /\ call' = [call EXCEPT ![c] = l] /\ l.tx = k.tx
        /\ \/ /\ l.pc = "sign" /\ l.attempt = k.attempt + 1 /\ l.pinned = n
              /\ inside' = inside
           \/ /\ l.pc = "failed" /\ l.attempt = k.attempt
              /\ inside' = inside \ {c}
  BY <1>2
<1>4. InsideMove(c, k, l) /\ inside' \subseteq Calls
  BY <1>1, <1>3 DEF InsideMove, Active, Results
<1>5. PinMove(k, l)
  BY <1>3 DEF PinMove
<1>6. AnswerMove(c, k, l)
  BY <1>3 DEF AnswerMove
<1>7. NextTurn(k, l)
  BY <1>3 DEF NextTurn
<1>8. Retries(k, l) \/ LosesAnswer(c, k, l)
  BY <1>7 DEF Retries, LosesAnswer
<1> QED BY <1>1, <1>3, <1>4, <1>5, <1>6, <1>8 DEF Moves, Move

\* Facts every step of a call starts from.
LEMMA CallFacts ==
  ASSUME CallInv, NEW c \in Calls
  PROVE  /\ TypeOK /\ Counted /\ call[c] \in CallType /\ call \in [Calls -> CallType]
         /\ inside \subseteq Calls /\ Latest \in Nat /\ MaxNonce \in Nat
         /\ call[c].pinned \in 0..MaxNonce
BY TurnsFinite DEF CallInv, TypeOK, CallType, Latest

\* execute() enters, signs, estimates and simulates.
LEMMA EntersMoves ==
  ASSUME CallInv, NEW c \in Calls, Execute(c)
  PROVE  Moves(c)
<1>1. TypeOK /\ inside \subseteq Calls
  BY CallFacts
<1>2. /\ call' = [call EXCEPT ![c].pc = "evict"] /\ inside = {} /\ inside' = {c}
      /\ call[c].pc = "idle" /\ pool' = pool /\ mined' = mined /\ ledger' = ledger
  BY DEF Execute, Running, Lock!Enter, Goto
<1>3. LedgerMove(call[c])
  BY <1>1, <1>2, LedgerKept
<1>4. Unsent(call[c]) /\ "evict" \in Places \ {"cancel"} /\ inside' \subseteq Calls
  BY <1>2 DEF Unsent, Before, Places
<1>5. PICK there \in Places \ {"cancel"} : there = "evict"
  BY <1>4
<1>6. there \notin {"sent", "wait", "sign", "estimate", "send", "adopted", "settled", "ok"}
  BY <1>5
<1> QED BY <1>1, <1>2, <1>3, <1>4, <1>5, <1>6, Advances

\* A step that ends the call.
LEMMA EndMoves ==
  ASSUME CallInv, NEW c \in Calls, NEW result \in Results, End(c, result),
         Active(call[c]) \/ c \in inside,
         pool' = pool, mined' = mined, LedgerMove(call[c]),
         result \in {"adopted", "settled"} => Of(Request(c)) # {},
         result = "ok" => /\ call[c].pc = "wait" /\ call[c].tx.kind = "exec"
                          /\ call[c].tx.nonce < Latest
                          /\ mined[call[c].tx.nonce + 1].ok
  PROVE  Moves(c)
<1>1. TypeOK /\ inside \subseteq Calls
  BY CallFacts
<1>2. call' = [call EXCEPT ![c].pc = result] /\ inside' = inside \ {c}
  BY DEF End
<1>3. /\ result \in Places \ {"cancel"} /\ inside' \subseteq Calls
      /\ result \notin Before \cup {"sent", "wait"}
  BY <1>1, <1>2 DEF Places, Results, Before
<1>4. result \notin {"sign", "estimate", "send"}
  BY DEF Results
<1> QED BY <1>1, <1>2, <1>3, <1>4, Advances

\* A step that goes on to another await.
LEMMA GotoMoves ==
  ASSUME CallInv, NEW c \in Calls, NEW there \in Places \ (Results \cup {"idle", "cancel"}),
         Goto(c, there), inside' = inside, Active(call[c]),
         pool' = pool, mined' = mined, LedgerMove(call[c]),
         there \in Before => Unsent(call[c]),
         there \in {"sent", "wait"} => call[c].pc \in {"sent", "wait"},
         there \in {"sign", "estimate", "send"} =>
           call[c].pc \in {"sign", "estimate", "send"}
  PROVE  Moves(c)
<1>1. TypeOK /\ inside \subseteq Calls
  BY CallFacts
<1>2. call' = [call EXCEPT ![c].pc = there]
  BY DEF Goto
<1>3. /\ there \in Places \ {"cancel"} /\ inside' \subseteq Calls
      /\ there \notin {"adopted", "settled", "ok"} /\ there \notin Results
  BY <1>1 DEF Results
<1> QED BY <1>1, <1>2, <1>3, Advances

\* evictStuckNonce finds a row that is unresolved, or none.
LEMMA FindStuckMoves ==
  ASSUME CallInv, NEW c \in Calls, FindStuck(c)
  PROVE  Moves(c)
<1> DEFINE k == call[c]
<1>1. /\ TypeOK /\ Counted /\ k \in CallType /\ inside \subseteq Calls
      /\ call \in [Calls -> CallType] /\ Latest \in Nat /\ MaxNonce \in Nat
  BY CallFacts
<1>2. /\ pool' = pool /\ mined' = mined /\ ledger' = ledger /\ inside' = inside
      /\ k.pc = "evict" /\ LedgerMove(k) /\ Active(k) /\ Unsent(k)
  BY <1>1, LedgerKept DEF FindStuck, Running, Active, Results, Unsent, Before
<1>3. PICK n \in Counts :
        /\ PendingIs(n)
        /\ \/ Goto(c, "pin")
           \/ \E stuck \in Unresolved(Latest, n) :
                call' = [call EXCEPT ![c].pc = "cancel", ![c].pinned = stuck]
  BY DEF FindStuck
<1>4. n \in 0..MaxNonce
  BY <1>1, <1>3, CountsAre
<1>5. CASE Goto(c, "pin")
  <2>1. PICK there \in Places \ (Results \cup {"idle", "cancel"}) : there = "pin"
    BY DEF Places, Before, Results
  <2> QED BY <1>2, <1>5, <2>1, GotoMoves
<1>6. ASSUME NEW stuck \in Unresolved(Latest, n),
             call' = [call EXCEPT ![c].pc = "cancel", ![c].pinned = stuck]
      PROVE  Moves(c)
  <2> DEFINE l == [k EXCEPT !.pc = "cancel", !.pinned = stuck]
  <2>1. stuck \in 0..MaxNonce /\ ~ledger[stuck].resolved
    BY <1>1, <1>4 DEF Unresolved
  <2>2. stuck \in Occupied
    BY <2>1 DEF CallInv, AboutOccupied
  <2>3. call' = [call EXCEPT ![c] = l]
    BY <1>1, <1>6
  <2>4. /\ l \in CallType /\ l.pc = "cancel" /\ l.pinned = stuck
        /\ l.attempt = k.attempt /\ l.tx = k.tx
    BY <1>1, <2>1 DEF CallType, Places, Before
  <2> HIDE DEF l
  <2>5. InsideMove(c, k, l) /\ PinMove(k, l) /\ AnswerMove(c, k, l) /\ Continues(k, l)
    BY <1>2, <2>2, <2>4 DEF InsideMove, PinMove, AnswerMove, Continues, Active, Results
  <2> QED BY <1>1, <1>2, <2>3, <2>4, <2>5 DEF Moves, Move
<1> QED BY <1>3, <1>5, <1>6

\* The nonce is pinned.
LEMMA PinMoves ==
  ASSUME CallInv, NEW c \in Calls, Pin(c)
  PROVE  Moves(c)
<1> DEFINE k == call[c]
<1>1. /\ TypeOK /\ Counted /\ k \in CallType /\ inside \subseteq Calls
      /\ call \in [Calls -> CallType] /\ Latest \in Nat /\ MaxNonce \in Nat
  BY CallFacts
<1>2. /\ pool' = pool /\ mined' = mined /\ ledger' = ledger /\ inside' = inside
      /\ k.pc = "pin" /\ LedgerMove(k) /\ Active(k) /\ Unsent(k)
  BY <1>1, LedgerKept DEF Pin, Running, Active, Results, Unsent, Before
<1>3. PICK n \in Counts :
        PendingIs(n) /\ call' = [call EXCEPT ![c].pc = "sign", ![c].pinned = n]
  BY DEF Pin
<1>4. n \in 0..MaxNonce /\ (FreeNonce(n) \/ "blind" \in met')
  BY <1>1, <1>3, CountsAre, QueuedIsFree DEF FreeNonce
<1> DEFINE l == [k EXCEPT !.pc = "sign", !.pinned = n]
<1>5. call' = [call EXCEPT ![c] = l]
  BY <1>1, <1>3
<1>6. /\ l \in CallType /\ l.pc = "sign" /\ l.pinned = n
      /\ l.attempt = k.attempt /\ l.tx = k.tx
  BY <1>1, <1>4 DEF CallType, Places, Before
<1> HIDE DEF l
<1>7. InsideMove(c, k, l) /\ PinMove(k, l) /\ AnswerMove(c, k, l) /\ Continues(k, l)
  BY <1>2, <1>4, <1>6 DEF InsideMove, PinMove, AnswerMove, Continues, Active, Results
<1> QED BY <1>1, <1>2, <1>5, <1>6, <1>7 DEF Moves, Move

\* The Safe transaction is signed for the Safe nonce read.
LEMMA SignMoves ==
  ASSUME CallInv, NEW c \in Calls, Sign(c)
  PROVE  Moves(c)
<1> DEFINE k == call[c]
           there == IF Request(c) \in Capped THEN "estimate" ELSE "send"
<1>1. /\ TypeOK /\ k \in CallType /\ inside \subseteq Calls
      /\ call \in [Calls -> CallType] /\ SafeNonce \in Nat
  BY CallFacts, SafeNonceType
<1>2. /\ pool' = pool /\ mined' = mined /\ ledger' = ledger /\ inside' = inside
      /\ k.pc = "sign" /\ LedgerMove(k) /\ Active(k) /\ Unsent(k)
      /\ call' = [call EXCEPT ![c].pc = there, ![c].safe = SafeNonce]
  BY <1>1, LedgerKept DEF Sign, Running, Active, Results, Unsent, Before
<1> DEFINE l == [k EXCEPT !.pc = there, !.safe = SafeNonce]
<1>3. call' = [call EXCEPT ![c] = l]
  BY <1>1, <1>2
<1>4. /\ l \in CallType /\ l.pc = there /\ l.pinned = k.pinned
      /\ l.attempt = k.attempt /\ l.tx = k.tx
  BY <1>1 DEF CallType, Places, Before
<1> HIDE DEF l
<1>5. InsideMove(c, k, l) /\ PinMove(k, l) /\ AnswerMove(c, k, l) /\ Continues(k, l)
  BY <1>2, <1>4 DEF InsideMove, PinMove, AnswerMove, Continues, Active, Results
<1> QED BY <1>1, <1>2, <1>3, <1>4, <1>5 DEF Moves, Move

\* A self-send evicts the stuck nonce.
LEMMA SendCancelMoves ==
  ASSUME CallInv, NEW c \in Calls, SendCancel(c)
  PROVE  Moves(c)
<1> DEFINE k == call[c]
           tx == CancelTx(c)
<1>1. /\ TypeOK /\ k \in CallType /\ inside \subseteq Calls
      /\ call \in [Calls -> CallType] /\ Latest \in Nat /\ k.pinned \in Nat
  BY CallFacts DEF CallType
<1>2. /\ mined' = mined /\ ledger' = ledger
      /\ k.pc = "cancel" /\ LedgerMove(k) /\ Active(k)
  BY <1>1, LedgerKept DEF SendCancel, Running, Active, Results
<1>3. CASE k.pinned < Latest
  <2>1. End(c, "failed") /\ pool' = pool
    BY <1>3 DEF SendCancel
  <2>2. PICK result \in Results : result = "failed"
    BY DEF Results
  <2> QED BY <1>2, <2>1, <2>2, EndMoves
<1>4. CASE ~(k.pinned < Latest)
  <2> DEFINE l == [k EXCEPT !.pc = "sent", !.tx = tx]
  <2>1. /\ pool' = pool \cup {tx} /\ inside' = inside
        /\ call' = [call EXCEPT ![c].pc = "sent", ![c].tx = tx]
    BY <1>4 DEF SendCancel, CancelTx
  <2>2. tx \in TxType /\ tx.kind = "cancel"
    BY <1>1 DEF CancelTx, SelfSend, TxType
  <2> HIDE DEF tx
  <2>3. call' = [call EXCEPT ![c] = l]
    BY <1>1, <2>1
  <2>4. /\ l \in CallType /\ l.pc = "sent" /\ l.tx = tx /\ l.pinned = k.pinned
        /\ l.attempt = k.attempt
    BY <1>1, <2>2 DEF CallType, Places
  <2> HIDE DEF l
  <2>5. InsideMove(c, k, l) /\ PinMove(k, l) /\ AnswerMove(c, k, l)
    BY <1>2, <2>1, <2>4 DEF InsideMove, PinMove, AnswerMove, Active, Results
  <2>6. Cancels(c, k, l)
    BY <1>1, <1>2, <1>4, <2>1, <2>4 DEF Cancels, Sends, tx
  <2> QED BY <1>1, <1>2, <2>1, <2>3, <2>4, <2>5, <2>6 DEF Moves, Move
<1> QED BY <1>3, <1>4

\* The self-send throws, queued or not.
LEMMA CancelFailsMoves ==
  ASSUME CallInv, NEW c \in Calls, CancelFails(c)
  PROVE  Moves(c)
<1> DEFINE k == call[c]
<1>1. /\ TypeOK /\ k \in CallType /\ inside \subseteq Calls
      /\ call \in [Calls -> CallType]
  BY CallFacts
<1>2. /\ mined' = mined /\ ledger' = ledger /\ End(c, "failed")
      /\ k.pc = "cancel" /\ LedgerMove(k) /\ Active(k)
  BY <1>1, LedgerKept DEF CancelFails, Running, Active, Results
<1>3. pool' = pool \/ Sends(c, CancelTx(c))
  BY DEF CancelFails, Sends, CancelTx
<1>4. PICK result \in Results : result = "failed"
  BY DEF Results
<1>5. CASE pool' = pool
  BY <1>2, <1>4, <1>5, EndMoves
<1>6. CASE Sends(c, CancelTx(c))
  <2>1. call' = [call EXCEPT ![c].pc = "failed"] /\ inside' = inside \ {c}
    BY <1>2 DEF End
  <2> DEFINE l == [k EXCEPT !.pc = "failed"]
  <2>2. /\ l \in CallType /\ l.pc = "failed" /\ l.attempt = k.attempt /\ l.tx = k.tx
        /\ call' = [call EXCEPT ![c] = l]
    <3>1. l \in CallType /\ l.pc = "failed" /\ l.attempt = k.attempt /\ l.tx = k.tx
      BY <1>1 DEF CallType, Places, Results
    <3> QED BY <1>1, <2>1, <3>1
  <2> HIDE DEF l
  <2>3. InsideMove(c, k, l) /\ PinMove(k, l) /\ AnswerMove(c, k, l)
    BY <1>2, <2>1, <2>2 DEF InsideMove, PinMove, AnswerMove, Active, Results
  <2>4. LosesCancel(c, k, l)
    BY <1>2, <1>6, <2>2 DEF LosesCancel
  <2> QED BY <1>1, <1>2, <2>1, <2>2, <2>3, <2>4 DEF Moves, Move
<1> QED BY <1>3, <1>5, <1>6

\* The gas is estimated under a cost cap.
LEMMA EstimateMoves ==
  ASSUME CallInv, NEW c \in Calls, Estimate(c)
  PROVE  Moves(c)
<1>1. TypeOK
  BY CallFacts
<1>2. /\ pool' = pool /\ mined' = mined /\ ledger' = ledger
      /\ call[c].pc = "estimate" /\ LedgerMove(call[c]) /\ Active(call[c])
      /\ Unsent(call[c])
  BY <1>1, LedgerKept DEF Estimate, Running, Active, Results, Unsent, Before
<1>3. CASE Goto(c, "send") /\ inside' = inside
  <2>1. PICK there \in Places \ (Results \cup {"idle", "cancel"}) : there = "send"
    BY DEF Places, Before, Results
  <2> QED BY <1>2, <1>3, <2>1, GotoMoves
<1>4. ASSUME NEW result \in {"failed", "refused"}, End(c, result) PROVE Moves(c)
  <2>1. result \in Results /\ result \notin {"adopted", "settled", "ok"}
    BY DEF Results
  <2> QED BY <1>2, <1>4, <2>1, EndMoves
<1> QED BY <1>3, <1>4 DEF Estimate

\* The simulation reverts and its reason is decoded.
LEMMA SimulationRevertsMoves ==
  ASSUME CallInv, NEW c \in Calls, SimulationReverts(c)
  PROVE  Moves(c)
<1>1. TypeOK
  BY CallFacts
<1>2. /\ pool' = pool /\ mined' = mined /\ ledger' = ledger
      /\ call[c].pc = "send" /\ LedgerMove(call[c]) /\ Active(call[c])
      /\ End(c, Decoded(c))
  BY <1>1, LedgerKept DEF SimulationReverts, Running, Active, Results
<1>3. /\ Decoded(c) \in Results /\ Decoded(c) \notin {"adopted", "ok"}
      /\ Decoded(c) = "settled" => Of(Request(c)) # {}
  BY DEF Decoded, Results, Reverts
<1> QED BY <1>2, <1>3, EndMoves

\* reconcile() adopts what the ledger holds at the pinned nonce, else the call
\* takes another turn.
LEMMA NonceTakenMoves ==
  ASSUME CallInv, NEW c \in Calls, NonceTaken(c)
  PROVE  Moves(c)
<1> DEFINE n == call[c].pinned
<1>1. TypeOK /\ Counted /\ n \in 0..MaxNonce /\ Latest \in Nat /\ MaxNonce \in Nat
  BY CallFacts
<1>2. pool' = pool /\ mined' = mined /\ call[c].pc = "send" /\ Active(call[c])
  BY DEF NonceTaken, Running, Active, Results
<1>3. CASE Adoptable(c, n)
  <2>1. Resolve(n) /\ End(c, "adopted")
    BY <1>3 DEF NonceTaken
  <2>2. LedgerMove(call[c])
    BY <1>1, <2>1, LedgerResolved
  <2>3. n + 1 \in Of(Request(c))
    <3>1. n + 1 \in 1..Len(mined)
      BY <1>1, <1>3 DEF Adoptable, Latest
    <3> QED BY <1>3, <3>1 DEF Of, Adoptable
  <2>4. PICK result \in Results : result = "adopted"
    BY DEF Results
  <2> QED BY <1>2, <2>1, <2>2, <2>3, <2>4, EndMoves
<1>4. CASE ~Adoptable(c, n)
  <2>1. ledger' = ledger /\ \E m \in Counts : PendingIs(m) /\ Retry(c, m)
    BY <1>4 DEF NonceTaken
  <2>2. PICK m \in Counts : PendingIs(m) /\ Retry(c, m)
    BY <2>1
  <2>3. m \in 0..MaxNonce /\ (FreeNonce(m) \/ "blind" \in met')
    BY <1>1, <2>2, CountsAre, QueuedIsFree DEF FreeNonce
  <2> QED BY <1>1, <1>2, <2>1, <2>2, <2>3, RetryMoves
<1> QED BY <1>3, <1>4

\* The transaction is sent.
LEMMA SubmitMoves ==
  ASSUME CallInv, NEW c \in Calls, Submit(c)
  PROVE  Moves(c)
<1> DEFINE k == call[c]
           tx == Submission(c)
<1>1. /\ TypeOK /\ k \in CallType /\ inside \subseteq Calls
      /\ call \in [Calls -> CallType] /\ MaxAttempts \in Nat /\ MaxNonce \in Nat
  BY CallFacts, BroadcastAssumption
<1>2. /\ mined' = mined /\ ledger' = ledger /\ inside' = inside
      /\ k.pc = "send" /\ LedgerMove(k) /\ Active(k) /\ k.pinned >= Latest
      /\ pool' = pool \cup {tx} /\ call' = [call EXCEPT ![c].pc = "sent", ![c].tx = tx]
  BY <1>1, LedgerKept DEF Submit, CanSubmit, Running, Active, Results
<1>3. tx \in TxType
  BY <1>1 DEF Submission, TxType, CallType
<1> HIDE DEF tx
<1> DEFINE l == [k EXCEPT !.pc = "sent", !.tx = tx]
<1>4. call' = [call EXCEPT ![c] = l]
  BY <1>1, <1>2
<1>5. /\ l \in CallType /\ l.pc = "sent" /\ l.tx = tx /\ l.pinned = k.pinned
      /\ l.attempt = k.attempt
  BY <1>1, <1>3 DEF CallType, Places
<1> HIDE DEF l
<1>6. InsideMove(c, k, l) /\ PinMove(k, l) /\ AnswerMove(c, k, l)
  BY <1>2, <1>5 DEF InsideMove, PinMove, AnswerMove, Active, Results
<1>7. Submits(c, k, l)
  BY <1>2, <1>5 DEF Submits, Sends, tx
<1> QED BY <1>1, <1>2, <1>4, <1>5, <1>6, <1>7 DEF Moves, Move

\* The send is refused, or its answer is lost.
LEMMA SendFailsMoves ==
  ASSUME CallInv, NEW c \in Calls, AnswerLost(c) \/ SendFails(c)
  PROVE  Moves(c)
<1>1. /\ TypeOK /\ call[c].pinned \in 0..MaxNonce
  BY CallFacts
<1>2. /\ mined' = mined /\ ledger' = ledger /\ call[c].pc = "send"
      /\ Active(call[c]) /\ LedgerMove(call[c]) /\ call[c].pinned >= Latest
  BY <1>1, LedgerKept DEF AnswerLost, SendFails, CanSubmit, Running, Active, Results
<1>3. CASE AnswerLost(c)
  <2>1. /\ Retry(c, call[c].pinned) /\ Sends(c, Submission(c)) /\ "answer" \in met'
    BY <1>2, <1>3 DEF AnswerLost, Sends, Fault
  <2> QED BY <1>1, <1>2, <2>1, RetryMoves
<1>4. CASE SendFails(c)
  <2>1. pool' = pool /\ (Retry(c, call[c].pinned) \/ End(c, "failed"))
    BY <1>4 DEF SendFails
  <2>2. CASE Retry(c, call[c].pinned)
    BY <1>1, <1>2, <2>1, <2>2, RetryMoves
  <2>3. CASE End(c, "failed")
    <3>1. PICK result \in Results : result = "failed"
      BY DEF Results
    <3> QED BY <1>2, <2>1, <2>3, <3>1, EndMoves
  <2> QED BY <2>1, <2>2, <2>3
<1> QED BY <1>3, <1>4

\* The row is recorded for what was sent.
LEMMA RecordMoves ==
  ASSUME CallInv, NEW c \in Calls, Record(c)
  PROVE  Moves(c)
<1> DEFINE k == call[c]
<1>1. TypeOK /\ k \in CallType /\ ledger \in [0..MaxNonce -> RowType]
  BY CallFacts DEF TypeOK
<1>2. /\ pool' = pool /\ mined' = mined /\ inside' = inside
      /\ k.pc = "sent" /\ Active(k) /\ Goto(c, "wait")
      /\ ledger' = [ledger EXCEPT ![k.tx.nonce] = [tx |-> k.tx, resolved |-> FALSE]]
  BY DEF Record, Running, Active, Results
<1>3. LedgerMove(k)
  <2>1. [tx |-> k.tx, resolved |-> FALSE] \in RowType
    BY <1>1 DEF RowType, CallType
  <2>2. \A n \in 0..MaxNonce :
          ledger'[n] = IF n = k.tx.nonce THEN [tx |-> k.tx, resolved |-> FALSE]
                       ELSE ledger[n]
    BY <1>1, <1>2
  <2>3. ledger' \in [0..MaxNonce -> RowType]
    BY <1>1, <1>2, <2>1
  <2> QED BY <1>2, <2>2, <2>3 DEF LedgerMove
<1>4. PICK there \in Places \ (Results \cup {"idle", "cancel"}) : there = "wait"
  BY DEF Places, Before, Results
<1>5. there \notin Before
  BY <1>4 DEF Before
<1> QED BY <1>2, <1>3, <1>4, <1>5, GotoMoves

\* The receipt of the transaction that took the nonce.
LEMMA ReceiptMoves ==
  ASSUME CallInv, NEW c \in Calls, Receipt(c)
  PROVE  Moves(c)
<1> DEFINE k == call[c]
           n == k.tx.nonce
<1>1. /\ TypeOK /\ Counted /\ k \in CallType /\ Latest \in Nat /\ MaxNonce \in Nat
  BY CallFacts
<1>2. /\ pool' = pool /\ mined' = mined /\ k.pc = "wait" /\ Active(k) /\ n < Latest
  BY DEF Receipt, Running, Active, Results
<1>3. n \in 0..MaxNonce
  <2>1. n \in Nat /\ n \in Occupied
    BY <1>2 DEF CallInv, AboutOccupied, SentTx
  <2>2. Queued \in 0..MaxNonce /\ Queued >= Latest
    BY <1>1, QueuedIsFree
  <2> QED BY <1>1, <1>2, <2>1, <2>2
<1>4. Resolve(n) => LedgerMove(k)
  BY <1>1, <1>3, LedgerResolved
<1>5. CASE k.tx.kind = "cancel" /\ Resolve(n) /\ Goto(c, "pin") /\ inside' = inside
  <2>1. PICK there \in Places \ (Results \cup {"idle", "cancel"}) : there = "pin"
    BY DEF Places, Before, Results
  <2>2. Unsent(k)
    BY <1>2, <1>5 DEF Unsent
  <2> QED BY <1>2, <1>4, <1>5, <2>1, <2>2, GotoMoves
<1>6. CASE /\ k.tx.kind = "exec" /\ mined[n + 1].ok /\ Resolve(n) /\ End(c, "ok")
  <2>1. PICK result \in Results : result = "ok"
    BY DEF Results
  <2> QED BY <1>2, <1>4, <1>6, <2>1, EndMoves
<1>7. CASE Reverts(Request(c)) /\ Resolve(n) /\ End(c, Decoded(c))
  <2>1. /\ Decoded(c) \in Results /\ Decoded(c) = "settled"
        /\ Of(Request(c)) # {}
    BY <1>7 DEF Decoded, Results, Reverts
  <2> QED BY <1>2, <1>4, <1>7, <2>1, EndMoves
<1>8. CASE /\ k.tx.kind = "exec" /\ ~mined[n + 1].ok /\ ledger' = ledger
           /\ \E m \in Counts : PendingIs(m) /\ Retry(c, m)
  <2>1. PICK m \in Counts : PendingIs(m) /\ Retry(c, m)
    BY <1>8
  <2>2. m \in 0..MaxNonce /\ (FreeNonce(m) \/ "blind" \in met')
    BY <1>1, <2>1, CountsAre, QueuedIsFree DEF FreeNonce
  <2> QED BY <1>1, <1>2, <1>8, <2>1, <2>2, RetryMoves
<1> QED BY <1>5, <1>6, <1>7, <1>8 DEF Receipt

\* The receipt does not come, or the process dies.
LEMMA EndsMoves ==
  ASSUME CallInv, NEW c \in Calls, ReceiptTimesOut(c) \/ Crash(c)
  PROVE  Moves(c)
<1>1. /\ pool' = pool /\ mined' = mined /\ ledger' = ledger
      /\ Active(call[c]) \/ c \in inside
  BY DEF ReceiptTimesOut, Crash, Running, Active, Results
<1>2. LedgerMove(call[c])
  BY <1>1, LedgerKept, CallFacts
<1>3. \E result \in {"failed", "dead"} : End(c, result)
  BY DEF ReceiptTimesOut, Crash
<1>4. PICK result \in Results : End(c, result) /\ result \in {"failed", "dead"}
  BY <1>3 DEF Results
<1> QED BY <1>1, <1>2, <1>4, EndMoves

\* A lost lease changes nothing of the body.
LEMMA LoseLeaseMoves ==
  ASSUME CallInv, NEW c \in Calls, LoseLease(c)
  PROVE  Moves(c)
<1> DEFINE k == call[c]
           l == [k EXCEPT !.lost = TRUE]
<1>1. /\ TypeOK /\ k \in CallType /\ inside \subseteq Calls
      /\ call \in [Calls -> CallType]
  BY CallFacts
<1>2. /\ pool' = pool /\ mined' = mined /\ ledger' = ledger /\ inside' = inside \ {c}
      /\ LedgerMove(k) /\ "lease" \in met'
      /\ call' = [call EXCEPT ![c].lost = TRUE]
  BY <1>1, LedgerKept DEF LoseLease, Lock!Leave, Fault
<1>3. call' = [call EXCEPT ![c] = l]
  BY <1>1, <1>2
<1>4. /\ l \in CallType /\ l.pc = k.pc /\ l.pinned = k.pinned
      /\ l.attempt = k.attempt /\ l.tx = k.tx /\ l.lost
  BY <1>1 DEF CallType
<1> HIDE DEF l
<1>5. InsideMove(c, k, l) /\ PinMove(k, l)
  BY <1>2, <1>4 DEF InsideMove, PinMove
<1>6. AnswerMove(c, k, l)
  BY <1>2, <1>4 DEF AnswerMove, CallInv
<1>7. Continues(k, l)
  BY <1>2, <1>4 DEF Continues, Unsent, CallInv, AboutOccupied
<1> QED BY <1>1, <1>2, <1>3, <1>4, <1>5, <1>6, <1>7 DEF Moves, Move

\* Every step of a call is one of the moves.
LEMMA StepMoves ==
  ASSUME CallInv, NEW c \in Calls, CallStep(c) \/ Mishap(c)
  PROVE  Moves(c)
BY EntersMoves, FindStuckMoves, SendCancelMoves, PinMoves, SignMoves, EstimateMoves,
   SimulationRevertsMoves, NonceTakenMoves, SubmitMoves, RecordMoves, ReceiptMoves,
   CancelFailsMoves, SendFailsMoves, EndsMoves, LoseLeaseMoves DEF CallStep, Mishap

-----------------------------------------------------------------------------
(* The invariant of the calls *)

\* What a call may send is a transaction of its own at the pinned nonce.
LEMMA SentIsOwn ==
  ASSUME CallInv, NEW c \in Calls
  PROVE  /\ Submission(c) \in SentTx /\ CancelTx(c) \in SentTx
         /\ Submission(c).nonce = call[c].pinned /\ CancelTx(c).nonce = call[c].pinned
         /\ Submission(c).by = c /\ Submission(c).kind = "exec"
         /\ CancelTx(c).kind = "cancel"
<1>1. /\ call[c] \in CallType /\ MaxNonce \in Nat /\ MaxAttempts \in Nat
  BY CallFacts, BroadcastAssumption
<1>2. call[c].pinned \in Nat /\ call[c].safe \in Nat /\ call[c].attempt \in Nat
  BY <1>1 DEF CallType
<1> QED BY <1>2 DEF Submission, CancelTx, SelfSend, SentTx

\* The other calls keep their local variables.
LEMMA OthersKept ==
  ASSUME CallInv, NEW c \in Calls, NEW l \in CallType, call' = [call EXCEPT ![c] = l]
  PROVE  /\ call' \in [Calls -> CallType] /\ call'[c] = l
         /\ \A d \in Calls : d # c => call'[d] = call[d]
BY DEF CallInv, TypeOK

\* A nonce in use stays so, and only a submission takes another one.
LEMMA OccupiedMove ==
  ASSUME CallInv, NEW c \in Calls, NEW l \in CallType, Move(c, call[c], l)
  PROVE  /\ Occupied \subseteq Occupied'
         /\ \/ Occupied' = Occupied
            \/ /\ Submits(c, call[c], l) \/ LosesAnswer(c, call[c], l)
               /\ Occupied' = Occupied \cup {call[c].pinned}
<1>1. mined' = mined /\ Latest' = Latest
  BY DEF Move, Latest
<1>2. CASE pool' = pool
  BY <1>1, <1>2 DEF Occupied
<1>3. ASSUME NEW tx \in SentTx, tx.nonce = call[c].pinned, Sends(c, tx)
      PROVE  Occupied' = Occupied \cup {call[c].pinned}
  <2>1. pool' = pool \cup {tx} /\ tx.nonce \in Nat
    BY <1>3 DEF Sends, SentTx
  <2> QED BY <1>1, <1>3, <2>1 DEF Occupied
<1>4. CASE Submits(c, call[c], l) \/ LosesAnswer(c, call[c], l)
  <2>1. Occupied' = Occupied \cup {call[c].pinned}
    BY <1>3, <1>4, SentIsOwn DEF Submits, LosesAnswer
  <2> QED BY <1>4, <2>1
<1>5. CASE Cancels(c, call[c], l) \/ LosesCancel(c, call[c], l)
  <2>1. Occupied' = Occupied \cup {call[c].pinned}
    BY <1>3, <1>5, SentIsOwn DEF Cancels, LosesCancel
  <2>2. call[c].pinned \in Occupied
    BY <1>5 DEF Cancels, LosesCancel, CallInv, AboutOccupied
  <2> QED BY <2>1, <2>2
<1> QED BY <1>2, <1>4, <1>5 DEF Move, Continues, Retries

\* A turn that was used stays so, and a submission uses one that was not.
LEMMA UsedMove ==
  ASSUME CallInv, NEW c \in Calls, NEW l \in CallType, Move(c, call[c], l)
  PROVE  /\ Used \subseteq Used'
         /\ Submits(c, call[c], l) \/ LosesAnswer(c, call[c], l) =>
              <<c, call[c].attempt>> \in Used' \ Used
<1> DEFINE k == call[c]
<1>1. /\ call'[c] = l /\ \A d \in Calls : d # c => call'[d] = call[d]
      /\ call \in [Calls -> CallType] /\ MaxAttempts \in Nat
  BY OthersKept, BroadcastAssumption DEF Move, CallInv, TypeOK
<1>2. /\ k.attempt \in 0..(MaxAttempts - 1) /\ k.attempt \in Nat
      /\ \A d \in Calls : call[d].attempt \in Nat
  BY <1>1 DEF CallType
<1>3. \/ Continues(k, l) \/ Cancels(c, k, l) \/ LosesCancel(c, k, l) \/ NextTurn(k, l)
      \/ Submits(c, k, l)
  BY DEF Move, Retries, LosesAnswer
<1>4. \/ l.attempt = k.attempt /\ (Unsent(l) => Unsent(k))
      \/ l.attempt = k.attempt + 1
  <2>1. CASE Continues(k, l)
    BY <2>1 DEF Continues
  <2>2. CASE Cancels(c, k, l) \/ LosesCancel(c, k, l)
    BY <2>2 DEF Cancels, LosesCancel, Unsent, Before
  <2>3. CASE NextTurn(k, l)
    BY <2>3 DEF NextTurn, Unsent, Before
  <2>4. CASE Submits(c, k, l)
    BY <2>4 DEF Submits, Unsent, Before
  <2> QED BY <1>3, <2>1, <2>2, <2>3, <2>4
<1>5. ASSUME NEW u \in Used PROVE u \in Used'
  <2>1. u \in Turns /\ u[1] \in Calls /\ u[2] \in Nat
    BY DEF Used, Turns
  <2>2. \/ u[2] < call[u[1]].attempt
        \/ u[2] = call[u[1]].attempt /\ ~Unsent(call[u[1]])
    BY DEF Used
  <2>3. CASE u[1] # c
    BY <1>1, <2>1, <2>2, <2>3 DEF Used, Turns, Unsent
  <2>4. CASE u[1] = c
    <3>1. u[2] < l.attempt \/ (u[2] = l.attempt /\ ~Unsent(l))
      BY <1>2, <1>4, <2>1, <2>2, <2>4
    <3> QED BY <1>1, <2>1, <2>4, <3>1 DEF Used, Turns, Unsent
  <2> QED BY <2>3, <2>4
<1>6. ASSUME Submits(c, k, l) \/ LosesAnswer(c, k, l)
      PROVE  <<c, k.attempt>> \in Used' \ Used
  <2> DEFINE u == <<c, k.attempt>>
  <2>1. u \in Turns /\ u[1] = c /\ u[2] = k.attempt
    BY <1>2 DEF Turns
  <2> HIDE DEF u
  <2>2. k.pc = "send" /\ Unsent(k)
    BY <1>6 DEF Submits, LosesAnswer, Unsent, Before
  <2>3. u \notin Used
    BY <1>2, <2>1, <2>2 DEF Used
  <2>4. u[2] < l.attempt \/ (u[2] = l.attempt /\ ~Unsent(l))
    <3>1. CASE Submits(c, k, l)
      BY <2>1, <3>1, SentIsOwn DEF Submits, Unsent, Before
    <3>2. CASE LosesAnswer(c, k, l)
      BY <1>2, <2>1, <3>2 DEF LosesAnswer, NextTurn, Unsent, Before
    <3> QED BY <1>6, <3>1, <3>2
  <2>5. u \in Used'
    BY <1>1, <2>1, <2>4 DEF Used, Turns, Unsent
  <2> QED BY <2>3, <2>5 DEF u
<1> QED BY <1>5, <1>6

\* A step of a call occupies no nonce it has not used.
LEMMA CountedMove ==
  ASSUME CallInv, NEW c \in Calls, NEW l \in CallType, Move(c, call[c], l)
  PROVE  Counted'
<1>1. IsFiniteSet(Occupied) /\ Cardinality(Occupied) <= Cardinality(Used)
  BY DEF CallInv, Counted
<1>2. Cardinality(Occupied) \in Nat /\ IsFiniteSet(Used) /\ Cardinality(Used) \in Nat
  BY <1>1, FS_CardinalityType, UsedBounded
<1>3. IsFiniteSet(Used')
  <2>1. Used' \subseteq Turns
    BY DEF Used, Turns
  <2> QED BY <2>1, TurnsFinite, FS_Subset
<1>4. Used \subseteq Used' /\ Cardinality(Used') \in Nat
      /\ Cardinality(Used) <= Cardinality(Used')
  BY <1>3, UsedMove, FS_Subset, FS_CardinalityType
<1>5. CASE Occupied' = Occupied
  <2>1. Cardinality(Occupied) <= Cardinality(Used')
    BY <1>1, <1>2, <1>4
  <2> QED BY <1>1, <1>5, <2>1 DEF Counted
<1>6. CASE /\ Submits(c, call[c], l) \/ LosesAnswer(c, call[c], l)
           /\ Occupied' = Occupied \cup {call[c].pinned}
  <2> DEFINE u == <<c, call[c].attempt>>
             n == call[c].pinned
  <2>1. u \in Used' \ Used
    BY <1>6, UsedMove
  <2> HIDE DEF u, n
  <2>2. /\ IsFiniteSet(Used \cup {u}) /\ Cardinality(Used \cup {u}) = Cardinality(Used) + 1
    BY <1>2, <2>1, FS_AddElement
  <2>3. Cardinality(Used \cup {u}) <= Cardinality(Used')
    <3>1. Used \cup {u} \subseteq Used'
      BY <1>4, <2>1
    <3> QED BY <1>3, <3>1, FS_Subset
  <2>4. /\ IsFiniteSet(Occupied \cup {n})
        /\ Cardinality(Occupied \cup {n}) =
             IF n \in Occupied THEN Cardinality(Occupied) ELSE Cardinality(Occupied) + 1
    BY <1>1, FS_AddElement
  <2>5. Cardinality(Occupied \cup {n}) <= Cardinality(Used')
    BY <1>1, <1>2, <1>4, <2>2, <2>3, <2>4
  <2>6. Occupied' = Occupied \cup {n}
    BY <1>6 DEF n
  <2> QED BY <2>4, <2>5, <2>6 DEF Counted
<1> QED BY <1>5, <1>6, OccupiedMove

\* A step of a call keeps the invariant of the calls.
LEMMA CallMoveKeeps ==
  ASSUME CallInv, NEW c \in Calls, Moves(c)
  PROVE  CallInv'
<1> DEFINE k == call[c]
<1>1. PICK l \in CallType : Move(c, k, l)
  BY DEF Moves
<1>2. /\ call' \in [Calls -> CallType] /\ call'[c] = l
      /\ \A d \in Calls : d # c => call'[d] = call[d]
      /\ mined' = mined /\ inside' \subseteq Calls /\ Latest' = Latest
  BY <1>1, OthersKept DEF Move, Latest
<1>3. LedgerMove(k) /\ AnswerMove(c, k, l)
  BY <1>1 DEF Move
<1>4. \/ pool' = pool
      \/ \E tx \in SentTx : tx.nonce >= Latest /\ pool' = pool \cup {tx}
  BY <1>1, SentIsOwn DEF Move, Continues, Retries, Submits, LosesAnswer, Cancels,
     LosesCancel, Sends
<1>5. TypeOK'
  BY <1>2, <1>3, <1>4 DEF CallInv, TypeOK, LedgerMove
<1>6. InOrder'
  BY <1>2, <1>4 DEF CallInv, InOrder
<1>7. Counted'
  BY <1>1, CountedMove
<1>8. AboutOccupied'
  <2>1. Occupied \subseteq Occupied'
    BY <1>1, OccupiedMove
  <2>2. \A n \in 0..MaxNonce : ~ledger'[n].resolved => n \in Occupied'
    BY <1>3, <2>1 DEF LedgerMove, CallInv, AboutOccupied
  <2>3. \A d \in Calls : d # c =>
          /\ call'[d].pc = "cancel" => call'[d].pinned \in Occupied'
          /\ call'[d].pc \in {"sent", "wait"} =>
               call'[d].tx \in SentTx /\ call'[d].tx.nonce \in Occupied'
    BY <1>2, <2>1 DEF CallInv, AboutOccupied
  <2>4. l.pc = "cancel" => l.pinned \in Occupied'
    BY <1>1, <2>1 DEF Move, Continues, Retries, Submits, LosesAnswer, Cancels,
       LosesCancel, NextTurn
  <2>5. l.pc \in {"sent", "wait"} => l.tx \in SentTx /\ l.tx.nonce \in Occupied'
    <3>1. CASE Continues(k, l)
      BY <2>1, <3>1 DEF Continues, CallInv, AboutOccupied
    <3>2. CASE Submits(c, k, l)
      <4>1. l.tx = Submission(c) /\ Submission(c) \in pool'
        BY <3>2 DEF Submits, Sends
      <4>2. Submission(c).nonce \in Nat
        BY SentIsOwn DEF SentTx
      <4> QED BY <4>1, <4>2, SentIsOwn DEF Occupied
    <3>3. CASE Cancels(c, k, l)
      <4>1. l.tx = CancelTx(c) /\ CancelTx(c) \in pool'
        BY <3>3 DEF Cancels, Sends
      <4>2. CancelTx(c).nonce \in Nat
        BY SentIsOwn DEF SentTx
      <4> QED BY <4>1, <4>2, SentIsOwn DEF Occupied
    <3> QED BY <1>1, <3>1, <3>2, <3>3 DEF Move, Retries, LosesAnswer, LosesCancel, NextTurn
  <2> QED BY <1>2, <2>2, <2>3, <2>4, <2>5 DEF AboutOccupied
<1>9. AdoptedHasEffect'
  <2>1. \A r : Of(r)' = Of(r)
    BY <1>2 DEF Of
  <2> QED BY <1>2, <1>3, <2>1 DEF CallInv, AdoptedHasEffect, Answered, AnswerMove
<1> QED BY <1>5, <1>6, <1>7, <1>8, <1>9 DEF CallInv

\* A block adds one transaction and frees no nonce.
LEMMA MineMoves ==
  ASSUME CallInv, NEW tx \in pool, Mine(tx)
  PROVE  \E ok \in BOOLEAN :
           /\ mined' = Append(mined, [tx |-> tx, ok |-> ok])
           /\ Len(mined') = Len(mined) + 1
           /\ mined'[Len(mined) + 1] = [tx |-> tx, ok |-> ok]
           /\ \A i \in 1..Len(mined) : mined'[i] = mined[i]
           /\ mined' \in Seq(MinedTx) /\ Latest' = Latest + 1
           /\ tx \in SentTx /\ tx.nonce = Latest /\ Latest \in Nat /\ Len(mined) = Latest
           /\ pool' = {t \in pool : t.nonce # tx.nonce}
           /\ UNCHANGED <<inside, ledger, call, met>>
           /\ Occupied' = Occupied
<1> DEFINE ok == tx.kind = "cancel" \/ (tx.safe = SafeNonce /\ ~Reverts(Request(tx.by)))
           e == [tx |-> tx, ok |-> ok]
<1>1. /\ mined \in Seq(MinedTx) /\ tx \in SentTx /\ Len(mined) \in Nat
      /\ Len(mined) = Latest /\ pool \subseteq SentTx
  BY DEF CallInv, TypeOK, Latest
<1>2. /\ mined' = Append(mined, e) /\ tx.nonce = Latest
      /\ pool' = {t \in pool : t.nonce # tx.nonce}
      /\ UNCHANGED <<inside, ledger, call, met>>
  BY DEF Mine, history
<1>3. ok \in BOOLEAN
  OBVIOUS
<1> HIDE DEF ok
<1>4. e \in MinedTx
  BY <1>1, <1>3 DEF MinedTx
<1> HIDE DEF e
<1>5. /\ Len(mined') = Len(mined) + 1 /\ mined'[Len(mined) + 1] = e
      /\ \A i \in 1..Len(mined) : mined'[i] = mined[i]
      /\ mined' \in Seq(MinedTx)
  BY <1>1, <1>2, <1>4, AppendProperties
<1>6. Latest' = Latest + 1
  BY <1>1, <1>5 DEF Latest
<1>7. Occupied' = Occupied
  <2>1. \A n \in Nat : (n < Latest' \/ \E t \in pool' : t.nonce = n)
                         <=> (n < Latest \/ \E t \in pool : t.nonce = n)
    BY <1>1, <1>2, <1>6
  <2> QED BY <2>1 DEF Occupied
<1> QED BY <1>1, <1>2, <1>3, <1>5, <1>6, <1>7 DEF e

\* What was executed stays executed.
LEMMA EffectStays ==
  ASSUME CallInv, NEW tx \in pool, Mine(tx), NEW r
  PROVE  Of(r) \subseteq Of(r)'
<1>1. /\ Len(mined') = Len(mined) + 1 /\ Len(mined) \in Nat
      /\ \A i \in 1..Len(mined) : mined'[i] = mined[i]
  BY MineMoves
<1>2. \A i \in 1..Len(mined) : i \in 1..Len(mined')
  BY <1>1
<1> QED BY <1>1, <1>2 DEF Of

\* So does a transaction that is mined.
LEMMA CallMine ==
  ASSUME CallInv, NEW tx \in pool, Mine(tx)
  PROVE  CallInv'
<1>1. PICK ok \in BOOLEAN :
        /\ Len(mined') = Len(mined) + 1
        /\ mined'[Len(mined) + 1] = [tx |-> tx, ok |-> ok]
        /\ \A i \in 1..Len(mined) : mined'[i] = mined[i]
        /\ mined' \in Seq(MinedTx) /\ Latest' = Latest + 1
        /\ tx \in SentTx /\ tx.nonce = Latest /\ Latest \in Nat /\ Len(mined) = Latest
        /\ pool' = {t \in pool : t.nonce # tx.nonce}
        /\ UNCHANGED <<inside, ledger, call, met>>
        /\ Occupied' = Occupied
  BY MineMoves
<1>2. TypeOK'
  BY <1>1 DEF CallInv, TypeOK
<1>3. InOrder'
  <2>1. ASSUME NEW t \in pool' PROVE t.nonce >= Latest'
    <3>1. t \in pool /\ t.nonce # Latest /\ t.nonce \in Nat /\ t.nonce >= Latest
      BY <1>1, <2>1 DEF CallInv, TypeOK, InOrder, SentTx
    <3> QED BY <1>1, <3>1
  <2>2. ASSUME NEW i \in 1..Len(mined') PROVE mined'[i].tx.nonce = i - 1
    <3>1. i \in 1..Len(mined) \/ i = Len(mined) + 1
      BY <1>1
    <3>2. CASE i \in 1..Len(mined)
      BY <1>1, <3>2 DEF CallInv, InOrder
    <3>3. CASE i = Len(mined) + 1
      BY <1>1, <3>3
    <3> QED BY <3>1, <3>2, <3>3
  <2> QED BY <2>1, <2>2 DEF InOrder
<1>4. Used' = Used
  BY <1>1 DEF Used, Unsent
<1>5. Counted' /\ AboutOccupied'
  BY <1>1, <1>4 DEF CallInv, Counted, AboutOccupied
<1>6. AdoptedHasEffect'
  BY <1>1, EffectStays DEF CallInv, AdoptedHasEffect, Answered
<1> QED BY <1>2, <1>3, <1>5, <1>6 DEF CallInv

\* No call has begun.
LEMMA CallInit == Init => CallInv
<1> SUFFICES ASSUME Init PROVE CallInv
  OBVIOUS
<1>1. mined = << >> /\ Len(mined) = 0 /\ mined \in Seq(MinedTx) /\ Latest = 0
  BY EmptySeq DEF Init, Latest
<1>2. NoTx \in TxType
  BY DEF NoTx, TxType
<1>3. Fresh \in CallType /\ NoRow \in RowType
  <2>1. 0 \in 0..(MaxAttempts - 1) /\ 0 \in 0..MaxNonce
    BY BroadcastAssumption, TurnsFinite
  <2> QED BY <1>2, <2>1 DEF Fresh, CallType, NoRow, RowType, Places, Before
<1>4. TypeOK
  BY <1>1, <1>3 DEF Init, TypeOK, Lock!MutexInit
<1>5. InOrder
  BY <1>1 DEF Init, InOrder
<1>6. Occupied = {}
  BY <1>1 DEF Init, Occupied
<1>7. Counted
  <2>1. IsFiniteSet({}) /\ Cardinality({}) = 0
    BY FS_EmptySet
  <2>2. Cardinality(Used) \in Nat
    BY UsedBounded
  <2>3. 0 <= Cardinality(Used)
    BY <2>2
  <2> QED BY <1>6, <2>1, <2>3 DEF Counted
<1>8. \A c \in Calls : call[c].pc = "idle"
  BY DEF Init, Fresh
<1>9. \A n \in 0..MaxNonce : ledger[n].resolved
  BY DEF Init, NoRow
<1>10. AboutOccupied /\ AdoptedHasEffect
  BY <1>8, <1>9 DEF AboutOccupied, AdoptedHasEffect, Answered
<1> QED BY <1>4, <1>5, <1>7, <1>10 DEF CallInv

\* A step that changes nothing.
LEMMA CallStutter ==
  ASSUME CallInv, UNCHANGED vars
  PROVE  CallInv'
<1>1. UNCHANGED <<inside, mined, pool, ledger, call>>
  BY DEF vars
<1>2. Latest' = Latest
  BY <1>1 DEF Latest
<1>3. Occupied' = Occupied /\ Used' = Used
  BY <1>1, <1>2 DEF Occupied, Used, Unsent
<1>4. TypeOK' /\ InOrder'
  BY <1>1, <1>2 DEF CallInv, TypeOK, InOrder
<1>5. Counted' /\ AboutOccupied'
  BY <1>1, <1>3 DEF CallInv, Counted, AboutOccupied
<1>6. AdoptedHasEffect'
  BY <1>1 DEF CallInv, AdoptedHasEffect, Answered, Of
<1> QED BY <1>4, <1>5, <1>6 DEF CallInv

\* Every step keeps the invariant of the calls.
LEMMA CallNext == CallInv /\ [Next]_vars => CallInv'
BY CallMoveKeeps, StepMoves, CallMine, CallStutter DEF Next

\* CallInv is an invariant.
LEMMA CallInvariant == Spec => []CallInv
BY CallInit, CallNext, PTL DEF Spec

\* A call that adopts a transaction or reports its request as settled has the
\* effect on chain, for any number of requests, attempts and faults.
THEOREM AdoptedIsDone == Spec => []AdoptedHasEffect
<1>1. CallInv => AdoptedHasEffect
  BY DEF CallInv
<1> QED BY <1>1, CallInvariant, PTL

-----------------------------------------------------------------------------
(* At most one execution per call *)

\* The executions that a call has queued, and those of it that were mined and
\* took effect.
InPool(c)  == {tx \in pool : tx.kind = "exec" /\ tx.by = c}
Done(c)    == {i \in 1..Len(mined) : /\ mined[i].ok /\ mined[i].tx.kind = "exec"
                                     /\ mined[i].tx.by = c}
Effects(c) == {mined[i].tx : i \in Done(c)}

\* A call with local variables k has queued or executed what it sent last, and
\* nothing when the current turn sent nothing.
SentOnce(k, queued, effects) ==
  /\ Unsent(k) => queued = {} /\ effects = {}
  /\ queued \subseteq {k.tx} /\ effects \subseteq {k.tx}
  /\ queued = {} \/ effects = {}

OnceInv == CallInv /\ ("answer" \notin met =>
             \A c \in Calls : SentOnce(call[c], InPool(c), Effects(c)))

\* A condition that was met stays so.
LEMMA MetGrows ==
  ASSUME [Next]_vars
  PROVE  met \subseteq met'
<1>1. ASSUME NEW n, PendingIs(n) PROVE met \subseteq met'
  BY <1>1 DEF PendingIs
<1>2. ASSUME NEW name, Fault(name) PROVE met \subseteq met'
  BY <1>2 DEF Fault
<1>3. ASSUME NEW c \in Calls, CallStep(c) PROVE met \subseteq met'
  BY <1>1, <1>3 DEF CallStep, Execute, FindStuck, SendCancel, Pin, Sign, Estimate,
     SimulationReverts, NonceTaken, Submit, Record, Receipt, history
<1>4. ASSUME NEW c \in Calls, Mishap(c) PROVE met \subseteq met'
  BY <1>2, <1>4 DEF Mishap, CancelFails, AnswerLost, SendFails, ReceiptTimesOut, Crash,
     LoseLease, history
<1>5. ASSUME NEW tx \in pool, Mine(tx) PROVE met \subseteq met'
  BY <1>5 DEF Mine, history
<1> QED BY <1>3, <1>4, <1>5 DEF Next, vars

\* What a call's step leaves of the executions, its own and those of the others.
LEMMA OnceMove ==
  ASSUME OnceInv, NEW c \in Calls, Moves(c), met \subseteq met'
  PROVE  OnceInv'
<1> DEFINE k == call[c]
<1>1. CallInv' /\ CallInv
  BY CallMoveKeeps DEF OnceInv
<1>2. PICK l \in CallType : Move(c, k, l)
  BY DEF Moves
<1>3. /\ call'[c] = l /\ \A d \in Calls : d # c => call'[d] = call[d]
      /\ mined' = mined /\ Latest' = Latest
  BY <1>1, <1>2, OthersKept DEF Move, Latest
<1>4. \A d \in Calls : Done(d)' = Done(d) /\ Effects(d)' = Effects(d)
  BY <1>3 DEF Done, Effects
<1>5. /\ Submission(c).by = c /\ Submission(c).kind = "exec" /\ CancelTx(c).kind = "cancel"
  BY <1>1, SentIsOwn
<1>6. \A d \in Calls : d # c => InPool(d)' = InPool(d)
  <2>1. \/ pool' = pool \/ pool' = pool \cup {Submission(c)} \/ pool' = pool \cup {CancelTx(c)}
    BY <1>2 DEF Move, Continues, Retries, Submits, LosesAnswer, Cancels, LosesCancel, Sends
  <2> QED BY <1>5, <2>1 DEF InPool
<1>7. ASSUME "answer" \notin met' PROVE SentOnce(l, InPool(c)', Effects(c))
  <2>1. SentOnce(k, InPool(c), Effects(c))
    BY <1>7 DEF OnceInv
  <2>2. CASE Continues(k, l)
    <3>1. InPool(c)' = InPool(c)
      BY <2>2 DEF Continues, InPool
    <3> QED BY <2>1, <2>2, <3>1 DEF SentOnce, Continues
  <2>3. CASE Retries(k, l)
    <3>1. InPool(c)' = InPool(c) /\ l.tx = k.tx
      BY <2>3 DEF Retries, NextTurn, InPool
    <3>2. CASE k.pc = "send"
      <4>1. InPool(c) = {} /\ Effects(c) = {}
        BY <2>1, <3>2 DEF SentOnce, Unsent, Before
      <4> QED BY <3>1, <4>1 DEF SentOnce
    <3>3. CASE k.tx.nonce < Latest /\ ~mined[k.tx.nonce + 1].ok /\ k.pc = "wait"
      <4>1. k.tx.nonce \in Nat /\ Latest \in Nat /\ pool \subseteq SentTx
        BY <1>1, <3>3 DEF CallInv, TypeOK, AboutOccupied, SentTx, Latest
      <4>2. ASSUME NEW tx \in InPool(c) PROVE FALSE
        <5>1. tx = k.tx /\ tx \in pool /\ tx.nonce >= Latest
          BY <1>1, <2>1, <4>2 DEF SentOnce, InPool, CallInv, InOrder
        <5> QED BY <3>3, <4>1, <5>1
      <4>3. ASSUME NEW i \in Done(c) PROVE FALSE
        <5>1. mined[i].tx = k.tx /\ i \in 1..Len(mined) /\ mined[i].ok
          BY <2>1, <4>3 DEF SentOnce, Effects, Done
        <5>2. k.tx.nonce = i - 1
          BY <1>1, <5>1 DEF CallInv, InOrder
        <5>3. k.tx.nonce + 1 = i
          BY <5>1, <5>2
        <5> QED BY <3>3, <5>1, <5>3
      <4> QED BY <3>1, <4>2, <4>3 DEF SentOnce, Effects
    <3> QED BY <2>3, <3>2, <3>3 DEF Retries
  <2>4. CASE Submits(c, k, l)
    <3>1. InPool(c) = {} /\ Effects(c) = {}
      BY <2>1, <2>4 DEF SentOnce, Submits, Unsent, Before
    <3>2. InPool(c)' \subseteq {l.tx} /\ l.tx.kind = "exec" /\ l.pc = "sent"
      BY <1>5, <2>4, <3>1 DEF Submits, Sends, InPool
    <3>3. ~Unsent(l)
      BY <3>2 DEF Unsent, Before
    <3> QED BY <3>1, <3>2, <3>3 DEF SentOnce
  <2>5. CASE Cancels(c, k, l) \/ LosesCancel(c, k, l)
    <3>1. InPool(c) = {} /\ Effects(c) = {}
      BY <2>1, <2>5 DEF SentOnce, Cancels, LosesCancel, Unsent, Before
    <3>2. InPool(c)' = {}
      BY <1>5, <2>5, <3>1 DEF Cancels, LosesCancel, Sends, InPool
    <3> QED BY <3>1, <3>2 DEF SentOnce
  <2> QED BY <1>2, <1>7, <2>2, <2>3, <2>4, <2>5 DEF Move, LosesAnswer
<1>8. ASSUME "answer" \notin met', NEW d \in Calls
      PROVE  SentOnce(call'[d], InPool(d)', Effects(d)')
  <2>1. CASE d = c
    BY <1>3, <1>4, <1>7, <1>8, <2>1
  <2>2. CASE d # c
    BY <1>3, <1>4, <1>6, <1>8, <2>2 DEF OnceInv
  <2> QED BY <2>1, <2>2
<1> QED BY <1>1, <1>8 DEF OnceInv, SentOnce, Unsent

\* A block executes what was queued, which leaves the pool.
LEMMA OnceMine ==
  ASSUME OnceInv, NEW tx \in pool, Mine(tx)
  PROVE  OnceInv'
<1>1. CallInv /\ CallInv'
  BY CallMine DEF OnceInv
<1>2. PICK ok \in BOOLEAN :
        /\ Len(mined') = Len(mined) + 1
        /\ mined'[Len(mined) + 1] = [tx |-> tx, ok |-> ok]
        /\ \A i \in 1..Len(mined) : mined'[i] = mined[i]
        /\ Latest \in Nat /\ Len(mined) = Latest
        /\ pool' = {t \in pool : t.nonce # tx.nonce}
        /\ UNCHANGED <<call, met>>
  BY <1>1, MineMoves
<1>3. ASSUME NEW d \in Calls
      PROVE  /\ InPool(d)' \subseteq InPool(d) \ {tx}
             /\ Effects(d)' \subseteq Effects(d)
                  \cup (IF tx \in InPool(d) THEN {tx} ELSE {})
  <2>1. InPool(d)' \subseteq InPool(d) \ {tx}
    BY <1>2 DEF InPool
  <2>2. ASSUME NEW i \in Done(d)'
        PROVE  mined'[i].tx \in Effects(d) \cup (IF tx \in InPool(d) THEN {tx} ELSE {})
    <3>1. /\ i \in 1..Len(mined') /\ mined'[i].ok /\ mined'[i].tx.kind = "exec"
          /\ mined'[i].tx.by = d
      BY <2>2 DEF Done
    <3>2. i \in 1..Len(mined) \/ i = Len(mined) + 1
      BY <1>2, <3>1
    <3>3. CASE i \in 1..Len(mined)
      BY <1>2, <3>1, <3>3 DEF Effects, Done
    <3>4. CASE i = Len(mined) + 1
      BY <1>2, <3>1, <3>4 DEF InPool
    <3> QED BY <3>2, <3>3, <3>4
  <2> QED BY <2>1, <2>2 DEF Effects
<1>4. ASSUME "answer" \notin met', NEW d \in Calls
      PROVE  SentOnce(call'[d], InPool(d)', Effects(d)')
  <2>1. SentOnce(call[d], InPool(d), Effects(d)) /\ call'[d] = call[d]
    BY <1>2, <1>4 DEF OnceInv
  <2> QED BY <1>3, <2>1 DEF SentOnce
<1> QED BY <1>1, <1>4 DEF OnceInv, SentOnce, Unsent

\* Nothing was sent at first.
LEMMA OnceInit == Init => OnceInv
<1> SUFFICES ASSUME Init PROVE OnceInv
  OBVIOUS
<1>1. mined = << >> /\ Len(mined) = 0 /\ pool = {}
  BY EmptySeq DEF Init
<1>2. \A c \in Calls : InPool(c) = {} /\ Effects(c) = {}
  BY <1>1 DEF InPool, Effects, Done
<1> QED BY <1>2, CallInit DEF OnceInv, SentOnce

\* A step that changes nothing.
LEMMA OnceStutter ==
  ASSUME OnceInv, UNCHANGED vars
  PROVE  OnceInv'
<1>1. UNCHANGED <<mined, pool, call, met>>
  BY DEF vars
<1>2. CallInv'
  BY CallStutter DEF OnceInv
<1>3. \A c \in Calls : InPool(c)' = InPool(c) /\ Effects(c)' = Effects(c)
  BY <1>1 DEF InPool, Effects, Done
<1> QED BY <1>1, <1>2, <1>3 DEF OnceInv, SentOnce, Unsent

\* OnceInv is an invariant.
LEMMA OnceInvariant == Spec => []OnceInv
<1>1. OnceInv /\ [Next]_vars => OnceInv'
  BY OnceMove, OnceMine, OnceStutter, StepMoves, MetGrows DEF Next, OnceInv
<1> QED BY <1>1, OnceInit, PTL DEF Spec

\* Of one transaction there is one execution: a nonce is mined once.
LEMMA OnceCounts ==
  ASSUME OnceInv
  PROVE  AtMostOncePerCall
<1> SUFFICES ASSUME "answer" \notin met, NEW c \in Calls
             PROVE  Cardinality({i \in Of(Request(c)) : mined[i].tx.by = c}) <= 1
  BY DEF AtMostOncePerCall
<1> DEFINE S == {i \in Of(Request(c)) : mined[i].tx.by = c}
<1>1. Effects(c) \subseteq {call[c].tx} /\ CallInv
  BY DEF OnceInv, SentOnce
<1>2. ASSUME NEW i \in S
      PROVE  i \in Int /\ i - 1 = call[c].tx.nonce
  <2>1. i \in Done(c) /\ i \in 1..Len(mined)
    BY <1>2 DEF Of, Done
  <2>2. mined[i].tx = call[c].tx
    BY <1>1, <2>1 DEF Effects
  <2> QED BY <1>1, <2>1, <2>2 DEF CallInv, InOrder
<1>3. \A i, j \in S : i = j
  BY <1>2
<1>4. S = {} \/ \E i : S = {i}
  BY <1>3
<1> HIDE DEF S
<1>5. Cardinality({}) = 0 /\ \A i : Cardinality({i}) = 1
  BY FS_EmptySet, FS_Singleton
<1>6. Cardinality(S) <= 1
  <2>1. CASE S = {}
    <3>1. Cardinality(S) = 0
      BY <1>5, <2>1
    <3> QED BY <3>1
  <2>2. CASE \E i : S = {i}
    <3>1. Cardinality(S) = 1
      BY <1>5, <2>2
    <3> QED BY <3>1
  <2> QED BY <1>4, <2>1, <2>2
<1> QED BY <1>6 DEF S

\* One call executes its request at most once, however often it submits it, for
\* any number of requests, attempts and faults: what it sent is waited for,
\* adopted or replaced, and another turn begins only when that had no effect.
\* (No answer to a submission was lost.)
THEOREM CallExecutesOnce == Spec => []AtMostOncePerCall
BY OnceInvariant, OnceCounts, PTL

-----------------------------------------------------------------------------
(* What is reported as done *)

\* No call lost its lease and the provider counted what was queued.
Clean == met \cap {"blind", "lease"} = {}

\* The call that runs is alone in the section.
Alone == \A c \in Calls : Active(call[c]) => inside = {c}

\* From the pin to the receipt of an execution.
Pins(k) == \/ k.pc \in {"sign", "estimate", "send"}
           \/ k.pc \in {"sent", "wait"} /\ k.tx.kind = "exec"

Own(c, tx) == tx.kind = "exec" /\ tx.by = c

\* The pinned nonce is the call's own: it is free, or held by one of its executions.
OwnsNonce(c, k) ==
  /\ \A tx \in pool : tx.nonce = k.pinned => Own(c, tx)
  /\ k.pinned < Latest => Own(c, mined[k.pinned + 1].tx)

PinsOwn == \A c \in Calls : Pins(call[c]) =>
  /\ OwnsNonce(c, call[c])
  /\ call[c].pc \in {"sent", "wait"} => call[c].tx.nonce = call[c].pinned

CleanInv == CallInv /\ (Clean => Alone /\ PinsOwn) /\ SuccessHasEffect

\* Who runs is inside, before and after, and nobody else runs.
LEMMA AloneMove ==
  ASSUME CleanInv, NEW c \in Calls, NEW l \in CallType, Move(c, call[c], l), Clean', Clean
  PROVE  /\ Alone'
         /\ \A d \in Calls : d # c => ~Active(call[d])
<1> DEFINE k == call[c]
<1>1. /\ call'[c] = l /\ \A d \in Calls : d # c => call'[d] = call[d]
  BY OthersKept DEF Move, CleanInv
<1>2. Alone
  BY DEF CleanInv
<1>3. \/ inside = {} /\ inside' = {c}
      \/ /\ Active(k) \/ c \in inside
         /\ inside' = (IF l.pc \in Results THEN inside \ {c} ELSE inside)
         /\ Active(l) => Active(k)
  BY DEF Move, InsideMove, Clean
<1>4. \A d \in Calls : d # c => ~Active(call[d])
  BY <1>2, <1>3 DEF Alone
<1>5. Active(l) => inside' = {c}
  BY <1>2, <1>3 DEF Alone, Active
<1> QED BY <1>1, <1>4, <1>5 DEF Alone, Active

\* A step of a call leaves it the only one with a transaction at its nonce.
LEMMA PinsOwnMove ==
  ASSUME CleanInv, NEW c \in Calls, NEW l \in CallType, Move(c, call[c], l), Clean', Clean
  PROVE  PinsOwn'
<1> DEFINE k == call[c]
<1>1. /\ call'[c] = l /\ \A d \in Calls : d # c => call'[d] = call[d]
      /\ mined' = mined /\ Latest' = Latest /\ CallInv
  BY OthersKept DEF Move, CleanInv, Latest
<1>2. \A d \in Calls : d # c => ~Pins(call'[d])
  BY <1>1, AloneMove DEF Pins, Active, Results
<1>3. PinMove(k, l)
  BY DEF Move
<1>4. Pins(k) => OwnsNonce(c, k) /\ (k.pc \in {"sent", "wait"} => k.tx.nonce = k.pinned)
  BY DEF CleanInv, PinsOwn
<1>5. Submission(c).nonce = k.pinned /\ Own(c, Submission(c)) /\ CancelTx(c).kind = "cancel"
  BY <1>1, SentIsOwn DEF Own
<1>6. ASSUME Pins(l) PROVE OwnsNonce(c, l)
  <2>1. CASE l.pc \in {"sign", "estimate", "send"}
    <3>1. \/ k.pc \in {"sign", "estimate", "send"} /\ l.pinned = k.pinned
          \/ FreeNonce(l.pinned)
      BY <1>3, <2>1 DEF PinMove, Clean
    <3>2. CASE FreeNonce(l.pinned)
      <4>1. l.pinned \in Nat /\ Latest \in Nat /\ l.pinned >= Latest
        <5>1. l.pinned \in 0..MaxNonce /\ MaxNonce \in Nat /\ Latest \in Nat
          BY <1>1, CallFacts DEF CallType, CallInv, TypeOK, Latest
        <5> QED BY <3>2, <5>1 DEF FreeNonce
      <4>2. ~(l.pinned < Latest)
        BY <4>1
      <4> QED BY <3>2, <4>2 DEF FreeNonce, OwnsNonce
    <3>3. CASE k.pc \in {"sign", "estimate", "send"} /\ l.pinned = k.pinned
      BY <1>4, <3>3 DEF Pins, OwnsNonce
    <3> QED BY <3>1, <3>2, <3>3
  <2>2. CASE l.pc \in {"sent", "wait"} /\ l.tx.kind = "exec"
    <3>1. l.pinned = k.pinned
      BY <1>3, <2>2 DEF PinMove
    <3>2. Pins(k)
      BY <1>5, <2>2 DEF Move, Continues, Retries, Submits, LosesAnswer, Cancels,
         LosesCancel, NextTurn, Pins
    <3> QED BY <1>4, <3>1, <3>2 DEF OwnsNonce
  <2> QED BY <1>6, <2>1, <2>2 DEF Pins
<1>7. ASSUME Pins(l) PROVE \A tx \in pool' : tx.nonce = l.pinned => Own(c, tx)
  <2>1. pool' = pool \/ pool' = pool \cup {Submission(c)}
    BY <1>5, <1>7 DEF Move, Continues, Retries, Submits, LosesAnswer, Cancels,
       LosesCancel, Sends, Pins
  <2> QED BY <1>5, <1>6, <1>7, <2>1 DEF OwnsNonce
<1>8. ASSUME Pins(l), l.pc \in {"sent", "wait"} PROVE l.tx.nonce = l.pinned
  <2>1. l.pinned = k.pinned
    BY <1>3, <1>8 DEF PinMove
  <2>2. \/ l.tx = Submission(c)
        \/ k.pc \in {"sent", "wait"} /\ l.tx = k.tx
    BY <1>5, <1>8 DEF Move, Continues, Retries, Submits, LosesAnswer, Cancels,
       LosesCancel, NextTurn, Pins
  <2> QED BY <1>4, <1>5, <1>8, <2>1, <2>2 DEF Pins
<1>9. Pins(l) => OwnsNonce(c, call[c])'
                   /\ (l.pc \in {"sent", "wait"} => l.tx.nonce = l.pinned)
  <2>1. ASSUME Pins(l), l.pinned < Latest' PROVE Own(c, mined'[l.pinned + 1].tx)
    BY <1>1, <1>6, <2>1 DEF OwnsNonce
  <2> QED BY <1>1, <1>7, <1>8, <2>1 DEF OwnsNonce, Own
<1> QED BY <1>1, <1>2, <1>9 DEF PinsOwn, Pins

\* A receipt that is taken for a success is the call's own.
LEMMA SuccessMove ==
  ASSUME CleanInv, NEW c \in Calls, NEW l \in CallType, Move(c, call[c], l), Clean', Clean
  PROVE  SuccessHasEffect'
<1> DEFINE k == call[c]
<1>1. /\ call'[c] = l /\ \A d \in Calls : d # c => call'[d] = call[d]
      /\ mined' = mined /\ CallInv
  BY OthersKept DEF Move, CleanInv
<1>2. \A r : Of(r)' = Of(r)
  BY <1>1 DEF Of
<1>3. AnswerMove(c, k, l)
  BY DEF Move
<1>4. ASSUME l.pc = "ok" PROVE Of(Request(c)) # {}
  <2>1. /\ k.pc = "wait" /\ k.tx.kind = "exec"
        /\ k.tx.nonce < Latest /\ mined[k.tx.nonce + 1].ok
    BY <1>3, <1>4 DEF AnswerMove, Clean
  <2>2. OwnsNonce(c, k) /\ k.tx.nonce = k.pinned
    BY <2>1 DEF CleanInv, PinsOwn, Pins
  <2>3. k.tx.nonce \in Nat /\ Latest \in Nat /\ Latest = Len(mined)
    BY <1>1, <2>1 DEF CallInv, TypeOK, AboutOccupied, SentTx, Latest
  <2>4. k.tx.nonce + 1 \in 1..Len(mined)
    BY <2>1, <2>3
  <2>5. Own(c, mined[k.tx.nonce + 1].tx)
    BY <2>1, <2>2 DEF OwnsNonce
  <2>6. k.tx.nonce + 1 \in Of(Request(c))
    BY <2>1, <2>4, <2>5 DEF Of, Own
  <2> QED BY <2>6
<1>5. l.pc \in {"ok", "adopted", "settled"} /\ ~l.lost => Of(Request(c)) # {}
  BY <1>3, <1>4 DEF AnswerMove
<1>6. SuccessHasEffect /\ met \cap {"blind", "lease"} = {}
  BY DEF CleanInv, Clean
<1> QED BY <1>1, <1>2, <1>5, <1>6 DEF SuccessHasEffect, Answered

\* A block gives the nonce to what was queued for it.
LEMMA CleanMine ==
  ASSUME CleanInv, NEW tx \in pool, Mine(tx)
  PROVE  CleanInv'
<1>1. CallInv /\ CallInv'
  BY CallMine DEF CleanInv
<1>2. PICK ok \in BOOLEAN :
        /\ Len(mined') = Len(mined) + 1
        /\ mined'[Len(mined) + 1] = [tx |-> tx, ok |-> ok]
        /\ \A i \in 1..Len(mined) : mined'[i] = mined[i]
        /\ Latest' = Latest + 1
        /\ tx \in SentTx /\ tx.nonce = Latest /\ Latest \in Nat /\ Len(mined) = Latest
        /\ pool' = {t \in pool : t.nonce # tx.nonce}
        /\ UNCHANGED <<inside, ledger, call, met>>
  BY <1>1, MineMoves
<1>3. ASSUME NEW c \in Calls, OwnsNonce(c, call[c]) PROVE OwnsNonce(c, call[c])'
  <2> DEFINE n == call[c].pinned
  <2>1. n \in Nat /\ call'[c] = call[c]
    <3>1. call[c] \in CallType /\ MaxNonce \in Nat
      BY <1>1, CallFacts
    <3> QED BY <1>2, <3>1 DEF CallType
  <2>2. \A t \in pool' : t.nonce = n => Own(c, t)
    BY <1>2, <1>3 DEF OwnsNonce
  <2>3. ASSUME n < Latest' PROVE Own(c, mined'[n + 1].tx)
    <3>1. CASE n < Latest
      <4>1. n + 1 \in 1..Len(mined)
        BY <1>2, <2>1, <3>1
      <4> QED BY <1>2, <1>3, <3>1, <4>1 DEF OwnsNonce
    <3>2. CASE n = Latest
      <4>1. mined'[n + 1].tx = tx
        BY <1>2, <3>2
      <4> QED BY <1>2, <1>3, <3>2, <4>1 DEF OwnsNonce
    <3> QED BY <1>2, <2>1, <2>3, <3>1, <3>2
  <2> QED BY <2>1, <2>2, <2>3 DEF OwnsNonce, Own
<1>4. Clean' => Alone' /\ PinsOwn'
  <2>1. Clean' => Clean
    BY <1>2 DEF Clean
  <2>2. Alone => Alone'
    BY <1>2 DEF Alone, Active
  <2>3. PinsOwn => PinsOwn'
    BY <1>2, <1>3 DEF PinsOwn, Pins
  <2> QED BY <2>1, <2>2, <2>3 DEF CleanInv
<1>5. SuccessHasEffect'
  BY <1>1, <1>2, EffectStays DEF CleanInv, SuccessHasEffect, Answered
<1> QED BY <1>1, <1>4, <1>5 DEF CleanInv

\* The invariant holds at first, and through stuttering.
LEMMA CleanInit == Init => CleanInv
<1> SUFFICES ASSUME Init PROVE CleanInv
  OBVIOUS
<1>1. \A c \in Calls : call[c].pc = "idle"
  BY DEF Init, Fresh
<1>2. Alone /\ PinsOwn /\ SuccessHasEffect
  BY <1>1 DEF Alone, Active, PinsOwn, Pins, SuccessHasEffect, Answered
<1> QED BY <1>2, CallInit DEF CleanInv

\* The rest of the step: a stuttering one.
LEMMA CleanStutter ==
  ASSUME CleanInv, UNCHANGED vars
  PROVE  CleanInv'
<1>1. UNCHANGED <<inside, mined, pool, call, met>> /\ CallInv'
  BY CallStutter DEF vars, CleanInv
<1>2. Latest' = Latest
  BY <1>1 DEF Latest
<1>3. \A c \in Calls : OwnsNonce(c, call[c]) => OwnsNonce(c, call[c])'
  BY <1>1, <1>2 DEF OwnsNonce, Own
<1>4. (Clean => Alone /\ PinsOwn) => (Clean' => Alone' /\ PinsOwn')
  BY <1>1, <1>3 DEF Clean, Alone, Active, PinsOwn, Pins
<1>5. SuccessHasEffect'
  BY <1>1 DEF CleanInv, SuccessHasEffect, Answered, Of
<1> QED BY <1>1, <1>4, <1>5 DEF CleanInv

\* Every step keeps it.
LEMMA CleanInvariant == Spec => []CleanInv
<1>1. ASSUME CleanInv, NEW c \in Calls, Moves(c), met \subseteq met' PROVE CleanInv'
  <2>1. PICK l \in CallType : Move(c, call[c], l)
    BY <1>1 DEF Moves
  <2>2. CallInv' /\ (Clean' => Clean)
    BY <1>1, CallMoveKeeps DEF CleanInv, Clean
  <2>3. Clean' => Alone' /\ PinsOwn' /\ SuccessHasEffect'
    BY <1>1, <2>1, <2>2, AloneMove, PinsOwnMove, SuccessMove
  <2>4. SuccessHasEffect'
    BY <2>3 DEF SuccessHasEffect, Clean
  <2> QED BY <2>2, <2>3, <2>4 DEF CleanInv
<1>2. CleanInv /\ [Next]_vars => CleanInv'
  BY <1>1, CleanMine, CleanStutter, StepMoves, MetGrows DEF Next, CleanInv
<1> QED BY <1>2, CleanInit, PTL DEF Spec

\* A call that reports success has its effect on chain, for any number of
\* requests, attempts and faults: nothing but its own execution can be at the
\* nonce it pinned.  (No call lost its lease, and the provider counted what was
\* queued.)
THEOREM SuccessIsDone == Spec => []SuccessHasEffect
<1>1. CleanInv => SuccessHasEffect
  BY DEF CleanInv
<1> QED BY <1>1, CleanInvariant, PTL

\* While a call waits for the receipt of an execution, its nonce is taken by
\* nothing but its own executions, for any number of requests, attempts and
\* faults: no self-send and no other call gets there.  (No call lost its lease,
\* and the provider counted what was queued.)
THEOREM NonceStaysOwn == Spec => []NonceIsOwn
<1>1. ASSUME CleanInv, Clean, NEW c \in Calls, Running(c, "wait"), call[c].tx.kind = "exec",
             NEW tx \in pool \cup {mined[i].tx : i \in 1..Len(mined)},
             tx.nonce = call[c].tx.nonce
      PROVE  tx.kind = "exec" /\ tx.by = c
  <2>1. CallInv /\ OwnsNonce(c, call[c]) /\ call[c].tx.nonce = call[c].pinned
    BY <1>1 DEF CleanInv, PinsOwn, Pins, Running
  <2>2. CASE tx \in pool
    BY <1>1, <2>1, <2>2 DEF OwnsNonce, Own
  <2>3. ASSUME NEW i \in 1..Len(mined), tx = mined[i].tx PROVE Own(c, tx)
    <3>1. call[c].pinned = i - 1 /\ Len(mined) \in Nat /\ Latest = Len(mined)
      BY <1>1, <2>1, <2>3 DEF CallInv, TypeOK, InOrder, Latest
    <3>2. call[c].pinned < Latest /\ call[c].pinned + 1 = i
      BY <3>1
    <3> QED BY <2>1, <2>3, <3>2 DEF OwnsNonce
  <2> QED BY <1>1, <2>2, <2>3 DEF Own
<1>2. CleanInv => NonceIsOwn
  BY <1>1 DEF NonceIsOwn, Clean
<1> QED BY <1>2, CleanInvariant, PTL

=============================================================================
