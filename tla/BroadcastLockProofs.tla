------------------------ MODULE BroadcastLockProofs ------------------------
(***************************************************************************)
(* The lease lock is a mutex whenever its renewals are punctual, for any   *)
(* number of processes and calls, any lease and any number of crashes.     *)
(***************************************************************************)
EXTENDS BroadcastLock, SequenceTheorems, TLAPS

\* Call c waits in, or heads, the queue of its process.
InQueue(c) == \E i \in 1..Len(queue[Proc(c)]) : queue[Proc(c)][i] = c

\* A call that waits or runs is in the queue of its process.
QueueHolds == \A c \in Callers : pc[c] # "idle" => InQueue(c)

\* A body runs for a call in its critical section only, and that call heads
\* its queue.
BodiesAreCritical ==
  \A c \in Callers : /\ body[c] => pc[c] = "critical"
                     /\ pc[c] = "critical" => Head(queue[Proc(c)]) = c

\* A critical call holds the row, its timer runs, and the lease has as much
\* left as the timer has not used up.
LeaseIsHeld ==
  \A c \in Callers : pc[c] = "critical" =>
    /\ row.holder = Proc(c)
    /\ since[c] # Off
    /\ row.ttl + since[c] = Lease

LockInv == TypeOK /\ QueueHolds /\ BodiesAreCritical /\ LeaseIsHeld

\* The renewal interval, half the lease, is at least one.
LEMMA IntervalType == Interval \in Nat \ {0}
  BY LockAssumption DEF Interval

\* Every caller belongs to a process.
LEMMA CallerType == \A c \in Callers : Proc(c) \in Procs
  BY DEF Callers, Proc

\* Two critical calls are one: they share the holder, hence the process, hence
\* the head of its queue.
LEMMA OneCritical ==
  ASSUME LockInv, NEW c \in Callers, NEW d \in Callers,
         pc[c] = "critical", pc[d] = "critical"
  PROVE  c = d
<1>1. Proc(c) = Proc(d)
  BY DEF LockInv, LeaseIsHeld
<1> QED
  BY <1>1 DEF LockInv, BodiesAreCritical

\* A queue with a call in it has a head and a tail that keeps the others.
LEMMA TailKeeps ==
  ASSUME NEW q \in Seq(Callers), NEW c \in Callers,
         \E i \in 1..Len(q) : q[i] = c
  PROVE  /\ q # << >>
         /\ Tail(q) \in Seq(Callers)
         /\ Head(q) # c => \E i \in 1..Len(Tail(q)) : Tail(q)[i] = c
<1>1. q # << >>
  OBVIOUS
<1>2. /\ Tail(q) \in Seq(Callers) /\ Len(Tail(q)) = Len(q) - 1
      /\ \A i \in 1..Len(Tail(q)) : Tail(q)[i] = q[i + 1]
      /\ Head(q) = q[1]
  BY <1>1, HeadTailProperties
<1>3. ASSUME Head(q) # c
      PROVE  \E i \in 1..Len(Tail(q)) : Tail(q)[i] = c
  <2>1. PICK i \in 1..Len(q) : q[i] = c
    OBVIOUS
  <2>2. i # 1
    BY <1>2, <1>3, <2>1
  <2>3. i - 1 \in 1..Len(Tail(q)) /\ Tail(q)[i - 1] = c
    BY <1>2, <2>1, <2>2
  <2> QED
    BY <2>3
<1> QED
  BY <1>1, <1>2, <1>3

\* Adding a call at the end keeps the calls before it and the head.
LEMMA AppendKeeps ==
  ASSUME NEW q \in Seq(Callers), NEW c \in Callers
  PROVE  /\ Append(q, c) \in Seq(Callers)
         /\ \E i \in 1..Len(Append(q, c)) : Append(q, c)[i] = c
         /\ \A d : (\E i \in 1..Len(q) : q[i] = d)
                     => /\ \E i \in 1..Len(Append(q, c)) : Append(q, c)[i] = d
                        /\ Head(Append(q, c)) = Head(q)
<1>1. /\ Append(q, c) \in Seq(Callers) /\ Len(Append(q, c)) = Len(q) + 1
      /\ Append(q, c)[Len(q) + 1] = c
      /\ \A i \in 1..Len(q) : Append(q, c)[i] = q[i]
  BY AppendProperties
<1>2. Len(q) \in Nat
  BY LenProperties
<1>3. \E i \in 1..Len(Append(q, c)) : Append(q, c)[i] = c
  <2>1. Len(q) + 1 \in 1..Len(Append(q, c))
    BY <1>1, <1>2
  <2> QED
    BY <1>1, <2>1
<1>4. ASSUME NEW d, NEW i \in 1..Len(q), q[i] = d
      PROVE  /\ \E j \in 1..Len(Append(q, c)) : Append(q, c)[j] = d
             /\ Head(Append(q, c)) = Head(q)
  <2>1. i \in 1..Len(Append(q, c)) /\ Append(q, c)[i] = d
    BY <1>1, <1>2, <1>4
  <2>2. Len(q) > 0 /\ Append(q, c)[1] = q[1]
    BY <1>1, <1>2
  <2>3. Head(Append(q, c)) = Append(q, c)[1] /\ Head(q) = q[1]
    OBVIOUS
  <2> QED
    BY <2>1, <2>2, <2>3
<1> QED
  BY <1>1, <1>3, <1>4

-----------------------------------------------------------------------------
(* One lemma per action. *)

\* The invariant holds before the first call.
LEMMA LockInitInv == Init => LockInv
<1> SUFFICES ASSUME Init PROVE LockInv
  OBVIOUS
<1>1. TypeOK
  <2>1. row \in [holder : Procs \cup {NoProc, Gone}, ttl : 0..Lease]
    BY LockAssumption DEF Init, NoRow
  <2>2. queue \in [Procs -> Seq(Callers)]
    BY EmptySeq DEF Init
  <2> QED
    BY <2>1, <2>2, LockAssumption, IntervalType DEF Init, TypeOK
<1>2. QueueHolds /\ BodiesAreCritical /\ LeaseIsHeld
  BY DEF Init, QueueHolds, BodiesAreCritical, LeaseIsHeld
<1> QED
  BY <1>1, <1>2 DEF LockInv

\* withSender: the call goes to the end of its queue.
LEMMA WithSenderInv ==
  ASSUME LockInv, NEW c \in Callers, WithSender(c)
  PROVE  LockInv'
<1> DEFINE q == queue[Proc(c)]
<1>1. q \in Seq(Callers) /\ queue' = [queue EXCEPT ![Proc(c)] = Append(q, c)]
  BY CallerType DEF WithSender, LockInv, TypeOK
<1>2. /\ Append(q, c) \in Seq(Callers)
      /\ \E i \in 1..Len(Append(q, c)) : Append(q, c)[i] = c
      /\ \A d : (\E i \in 1..Len(q) : q[i] = d)
                  => /\ \E i \in 1..Len(Append(q, c)) : Append(q, c)[i] = d
                     /\ Head(Append(q, c)) = Head(q)
  BY <1>1, AppendKeeps
<1> HIDE DEF q
<1>3. TypeOK'
  BY <1>1, <1>2, CallerType DEF WithSender, LockInv, TypeOK
<1>4. \A d \in Callers : queue'[Proc(d)] = IF Proc(d) = Proc(c) THEN Append(q, c) ELSE queue[Proc(d)]
  BY <1>1, CallerType DEF LockInv, TypeOK
<1>5. QueueHolds'
  <2> SUFFICES ASSUME NEW d \in Callers, pc'[d] # "idle" PROVE InQueue(d)'
    BY DEF QueueHolds
  <2>1. CASE d = c
    BY <2>1, <1>2, <1>4 DEF InQueue
  <2>2. CASE d # c
    <3>1. InQueue(d)
      BY <2>2 DEF WithSender, LockInv, TypeOK, QueueHolds
    <3> QED
      BY <3>1, <1>2, <1>4 DEF InQueue, q
  <2> QED
    BY <2>1, <2>2
<1>6. BodiesAreCritical'
  <2> SUFFICES ASSUME NEW d \in Callers
               PROVE  /\ body'[d] => pc'[d] = "critical"
                      /\ pc'[d] = "critical" => Head(queue'[Proc(d)]) = d
    BY DEF BodiesAreCritical
  <2>1. body'[d] => pc'[d] = "critical"
    BY DEF WithSender, LockInv, TypeOK, BodiesAreCritical
  <2>2. ASSUME pc'[d] = "critical" PROVE Head(queue'[Proc(d)]) = d
    <3>1. d # c /\ pc[d] = "critical"
      BY <2>2 DEF WithSender, LockInv, TypeOK
    <3>2. Head(queue[Proc(d)]) = d /\ InQueue(d)
      BY <3>1 DEF LockInv, BodiesAreCritical, QueueHolds
    <3> QED
      BY <3>2, <1>2, <1>4 DEF InQueue, q
  <2> QED
    BY <2>1, <2>2
<1>7. LeaseIsHeld'
  BY DEF WithSender, LockInv, TypeOK, LeaseIsHeld
<1> QED
  BY <1>3, <1>5, <1>6, <1>7 DEF LockInv

\* acquireLease succeeds on a row that ran out: nobody is critical then.
LEMMA AcquireInv ==
  ASSUME Punctual, LockInv, NEW c \in Callers, Acquire(c)
  PROVE  LockInv' /\ \A d \in Callers : ~body[d]
<1>1. \A d \in Callers : pc[d] # "critical"
  <2> SUFFICES ASSUME NEW d \in Callers, pc[d] = "critical" PROVE FALSE
    OBVIOUS
  <2>1. since[d] \in 0..(Interval + Delay) /\ row.ttl + since[d] = Lease
    BY DEF LockInv, TypeOK, LeaseIsHeld
  <2> QED
    BY <2>1, IntervalType, LockAssumption DEF Acquire, Free, Punctual
<1>2. TypeOK'
  <2>1. row' \in [holder : Procs \cup {NoProc, Gone}, ttl : 0..Lease]
    BY CallerType, LockAssumption DEF Acquire
  <2>2. since' \in [Callers -> {Off} \cup 0..(Interval + Delay)]
    BY IntervalType, LockAssumption DEF Acquire, LockInv, TypeOK
  <2> QED
    BY <2>1, <2>2 DEF Acquire, LockInv, TypeOK
<1>3. QueueHolds'
  BY DEF Acquire, LockInv, TypeOK, QueueHolds, InQueue
<1>4. BodiesAreCritical'
  BY <1>1 DEF Acquire, LockInv, TypeOK, BodiesAreCritical
<1>5. LeaseIsHeld'
  BY <1>1, LockAssumption DEF Acquire, LockInv, TypeOK, LeaseIsHeld, Off
<1> QED
  BY <1>1, <1>2, <1>3, <1>4, <1>5 DEF LockInv, BodiesAreCritical

\* A renewal finds the row its own: no lease is lost.
LEMMA RenewInv ==
  ASSUME LockInv, NEW c \in Callers, Renew(c)
  PROVE  LockInv' /\ body' = body
<1>1. /\ pc[c] = "critical" /\ row.holder = Proc(c)
      /\ row' = [row EXCEPT !.ttl = Lease]
      /\ since' = [since EXCEPT ![c] = 0]
      /\ UNCHANGED <<queue, pc, body, crashes>>
  BY DEF Renew, LockInv, LeaseIsHeld
<1>2. TypeOK'
  <2>1. row' \in [holder : Procs \cup {NoProc, Gone}, ttl : 0..Lease]
    BY <1>1, LockAssumption DEF LockInv, TypeOK
  <2>2. since' \in [Callers -> {Off} \cup 0..(Interval + Delay)]
    BY <1>1, IntervalType, LockAssumption DEF LockInv, TypeOK
  <2> QED
    BY <1>1, <2>1, <2>2 DEF LockInv, TypeOK
<1>3. QueueHolds' /\ BodiesAreCritical'
  BY <1>1 DEF LockInv, QueueHolds, BodiesAreCritical, InQueue
<1>4. LeaseIsHeld'
  <2> SUFFICES ASSUME NEW d \in Callers, pc'[d] = "critical"
               PROVE  /\ row'.holder = Proc(d) /\ since'[d] # Off
                      /\ row'.ttl + since'[d] = Lease
    BY DEF LeaseIsHeld
  <2>1. d = c
    BY <1>1, OneCritical
  <2> QED
    BY <1>1, <2>1, LockAssumption DEF LockInv, TypeOK, Off
<1> QED
  BY <1>1, <1>2, <1>3, <1>4 DEF LockInv

\* The body settles: the row is deleted and the queue moves on.
LEMMA ReturnInv ==
  ASSUME LockInv, NEW c \in Callers, Return(c)
  PROVE  LockInv'
<1> DEFINE q == queue[Proc(c)]
<1>1. /\ row' = NoRow /\ queue' = [queue EXCEPT ![Proc(c)] = Tail(q)]
      /\ since' = [since EXCEPT ![c] = Off]
      /\ pc[c] = "critical" /\ pc' = [pc EXCEPT ![c] = "idle"]
      /\ body' = [body EXCEPT ![c] = FALSE] /\ crashes' = crashes
  BY DEF Return, Settle, LockInv, LeaseIsHeld
<1>2. q \in Seq(Callers) /\ Head(q) = c /\ InQueue(c)
  BY <1>1, CallerType DEF LockInv, TypeOK, BodiesAreCritical, QueueHolds
<1>3. ASSUME NEW d \in Callers, d # c, \E i \in 1..Len(q) : q[i] = d
      PROVE  \E i \in 1..Len(Tail(q)) : Tail(q)[i] = d
  BY <1>2, <1>3, TailKeeps
<1>4. Tail(q) \in Seq(Callers)
  BY <1>2, TailKeeps DEF InQueue
<1> HIDE DEF q
<1>5. \A d \in Callers : queue'[Proc(d)] = IF Proc(d) = Proc(c) THEN Tail(q) ELSE queue[Proc(d)]
  BY <1>1, CallerType DEF LockInv, TypeOK
<1>6. \A d \in Callers : pc'[d] # "critical"
  <2> SUFFICES ASSUME NEW d \in Callers, pc'[d] = "critical" PROVE FALSE
    OBVIOUS
  <2>1. d # c /\ pc[d] = "critical"
    BY <1>1 DEF LockInv, TypeOK
  <2> QED
    BY <1>1, <2>1, OneCritical
<1>7. TypeOK'
  <2>1. row' \in [holder : Procs \cup {NoProc, Gone}, ttl : 0..Lease]
    BY <1>1, LockAssumption DEF NoRow
  <2> QED
    BY <1>1, <1>4, <2>1 DEF LockInv, TypeOK
<1>8. QueueHolds'
  <2> SUFFICES ASSUME NEW d \in Callers, pc'[d] # "idle" PROVE InQueue(d)'
    BY DEF QueueHolds
  <2>1. d # c /\ InQueue(d)
    BY <1>1 DEF LockInv, TypeOK, QueueHolds
  <2> QED
    BY <1>3, <1>5, <2>1 DEF InQueue, q
<1>9. BodiesAreCritical'
  <2>1. \A d \in Callers : ~body'[d]
    BY <1>1, <1>6 DEF LockInv, TypeOK, BodiesAreCritical
  <2> QED
    BY <1>6, <2>1 DEF BodiesAreCritical
<1>10. LeaseIsHeld'
  BY <1>6 DEF LeaseIsHeld
<1> QED
  BY <1>7, <1>8, <1>9, <1>10 DEF LockInv

\* No body outlives its call.
LEMMA NoTrail ==
  ASSUME LockInv, NEW c \in Callers, Trail(c)
  PROVE  FALSE
  BY DEF Trail, LockInv, BodiesAreCritical

\* A process that dies takes its calls and its holder id with it.
LEMMA CrashInv ==
  ASSUME LockInv, NEW p \in Procs, Crash(p)
  PROVE  LockInv'
<1>1. \A c \in Callers : pc'[c] # "idle" => /\ Proc(c) # p /\ pc'[c] = pc[c]
                                            /\ since'[c] = since[c]
                                            /\ queue'[Proc(c)] = queue[Proc(c)]
  BY CallerType DEF Crash, LockInv, TypeOK
<1>2. TypeOK'
  <2>1. row' \in [holder : Procs \cup {NoProc, Gone}, ttl : 0..Lease]
    BY DEF Crash, LockInv, TypeOK
  <2>2. queue' \in [Procs -> Seq(Callers)]
    BY EmptySeq DEF Crash, LockInv, TypeOK
  <2>3. body' \in [Callers -> BOOLEAN]
    BY DEF Crash, LockInv, TypeOK
  <2>4. pc' \in [Callers -> {"idle", "queued", "critical"}]
    BY DEF Crash, LockInv, TypeOK
  <2>5. since' \in [Callers -> {Off} \cup 0..(Interval + Delay)]
    BY DEF Crash, LockInv, TypeOK
  <2>6. crashes' \in 0..MaxCrashes
    BY LockAssumption DEF Crash, LockInv, TypeOK
  <2> QED
    BY <2>1, <2>2, <2>3, <2>4, <2>5, <2>6 DEF TypeOK
<1>3. QueueHolds'
  BY <1>1 DEF LockInv, QueueHolds, InQueue
<1>4. BodiesAreCritical'
  <2> SUFFICES ASSUME NEW c \in Callers
               PROVE  /\ body'[c] => pc'[c] = "critical"
                      /\ pc'[c] = "critical" => Head(queue'[Proc(c)]) = c
    BY DEF BodiesAreCritical
  <2>1. body'[c] => pc'[c] = "critical"
    BY DEF Crash, LockInv, TypeOK, BodiesAreCritical
  <2>2. pc'[c] = "critical" => Head(queue'[Proc(c)]) = c
    BY <1>1 DEF LockInv, BodiesAreCritical
  <2> QED
    BY <2>1, <2>2
<1>5. LeaseIsHeld'
  <2> SUFFICES ASSUME NEW c \in Callers, pc'[c] = "critical"
               PROVE  /\ row'.holder = Proc(c) /\ since'[c] # Off
                      /\ row'.ttl + since'[c] = Lease
    BY DEF LeaseIsHeld
  <2>1. row.holder = Proc(c) /\ row.holder # p
    BY <1>1 DEF LockInv, LeaseIsHeld
  <2>2. row' = row
    BY <2>1 DEF Crash
  <2> QED
    BY <1>1, <2>1, <2>2 DEF LockInv, LeaseIsHeld
<1> QED
  BY <1>2, <1>3, <1>4, <1>5 DEF LockInv

\* Time uses up the lease and the timer together; a punctual timer fires
\* before the lease is used up.
LEMMA TickInv ==
  ASSUME Punctual, LockInv, Tick
  PROVE  LockInv'
<1>1. \A c \in Callers : since[c] \in {Off} \cup 0..(Interval + Delay - 1)
  BY IntervalType, LockAssumption DEF Tick, LockInv, TypeOK, Off
<1>2. TypeOK'
  <2>1. row' \in [holder : Procs \cup {NoProc, Gone}, ttl : 0..Lease]
    BY LockAssumption, SMTT(20) DEF Tick, LockInv, TypeOK
  <2>2. since' \in [Callers -> {Off} \cup 0..(Interval + Delay)]
    BY <1>1, IntervalType, LockAssumption DEF Tick, Renewing, Off
  <2> QED
    BY <2>1, <2>2 DEF Tick, LockInv, TypeOK
<1>3. QueueHolds' /\ BodiesAreCritical'
  BY DEF Tick, LockInv, QueueHolds, BodiesAreCritical, InQueue
<1>4. LeaseIsHeld'
  <2> SUFFICES ASSUME NEW c \in Callers, pc'[c] = "critical"
               PROVE  /\ row'.holder = Proc(c) /\ since'[c] # Off
                      /\ row'.ttl + since'[c] = Lease
    BY DEF LeaseIsHeld
  <2>1. /\ row.holder = Proc(c) /\ since[c] # Off /\ row.ttl + since[c] = Lease
        /\ since[c] \in 0..(Interval + Delay - 1)
    BY <1>1 DEF Tick, LockInv, LeaseIsHeld
  <2>2. since'[c] = since[c] + 1
    BY <2>1 DEF Tick, Renewing
  <2>3. row.ttl \in 0..Lease /\ row.ttl # 0
    BY <2>1, IntervalType, LockAssumption DEF Punctual, LockInv, TypeOK
  <2>4. row'.holder = row.holder /\ row'.ttl = row.ttl - 1
    BY <2>3 DEF Tick, LockInv, TypeOK
  <2> QED
    BY <2>1, <2>2, <2>3, <2>4, LockAssumption DEF Off
<1> QED
  BY <1>2, <1>3, <1>4 DEF LockInv

-----------------------------------------------------------------------------
(* The theorems. *)

\* Every step keeps the invariant.
LEMMA LockStep ==
  ASSUME Punctual, LockInv, [Next]_vars
  PROVE  LockInv'
<1>1. CASE UNCHANGED vars
  BY <1>1 DEF vars, LockInv, TypeOK, QueueHolds, InQueue, BodiesAreCritical, LeaseIsHeld
<1>2. ASSUME NEW c \in Callers, WithSender(c) PROVE LockInv'
  BY <1>2, WithSenderInv
<1>3. ASSUME NEW c \in Callers, Acquire(c) PROVE LockInv'
  BY <1>3, AcquireInv
<1>4. ASSUME NEW c \in Callers, Renew(c) PROVE LockInv'
  BY <1>4, RenewInv
<1>5. ASSUME NEW c \in Callers, RenewThrows(c) PROVE LockInv'
  BY <1>5 DEF RenewThrows, Punctual
<1>6. ASSUME NEW c \in Callers, Return(c) PROVE LockInv'
  BY <1>6, ReturnInv
<1>7. ASSUME NEW c \in Callers, Trail(c) PROVE LockInv'
  BY <1>7, NoTrail
<1>8. ASSUME NEW p \in Procs, Crash(p) PROVE LockInv'
  BY <1>8, CrashInv
<1>9. CASE Tick
  BY <1>9, TickInv
<1> QED
  BY <1>1, <1>2, <1>3, <1>4, <1>5, <1>6, <1>7, <1>8, <1>9 DEF Next

\* Two running bodies are two critical calls.
LEMMA InvExcludes == LockInv => MutualExclusion
  BY OneCritical DEF LockInv, BodiesAreCritical, MutualExclusion

\* With punctual renewals the bodies passed to withSender for one sender never
\* overlap, in any number of processes, whoever dies and whenever.
THEOREM LockExcludes ==
  ASSUME Punctual
  PROVE  Spec => []MutualExclusion
<1>1. Init => LockInv
  BY LockInitInv
<1>2. LockInv /\ [Next]_vars => LockInv'
  BY LockStep
<1>3. LockInv => MutualExclusion
  BY InvExcludes
<1> QED
  BY <1>1, <1>2, <1>3, PTL DEF Spec

\* With punctual renewals a call that returns its body's result still holds
\* the lease.
THEOREM LockReturnsHolding ==
  ASSUME Punctual
  PROVE  Spec => ReturnsHolding
<1>1. Init => LockInv
  BY LockInitInv
<1>2. LockInv /\ [Next]_vars => LockInv'
  BY LockStep
<1>3. LockInv /\ [Next]_vars => [\A c \in Callers : Return(c) => row.holder = Proc(c)]_vars
  BY DEF LockInv, LeaseIsHeld, Return
<1> QED
  BY <1>1, <1>2, <1>3, PTL DEF Spec, ReturnsHolding

\* A step of the lock is a step of the mutex or leaves it alone.
LEMMA LockStepIsMutexStep ==
  ASSUME Punctual, LockInv, [Next]_vars
  PROVE  [Mutex!MutexNext]_({c \in Callers : body[c]})
<1> DEFINE inside == {c \in Callers : body[c]}
<1>1. ASSUME NEW c \in Callers, Acquire(c) PROVE Mutex!Enter(c)
  <2>1. inside = {}
    BY <1>1, AcquireInv
  <2>2. inside' = {c}
    BY <1>1, <2>1 DEF Acquire, LockInv, TypeOK
  <2> QED
    BY <2>1, <2>2 DEF Mutex!Enter
<1>2. ASSUME NEW c \in Callers, Return(c) PROVE Mutex!Leave(c) \/ inside' = inside
  BY <1>2 DEF Return, LockInv, TypeOK, Mutex!Leave
<1>3. ASSUME NEW p \in Procs, Crash(p)
      PROVE  inside' = inside \/ \E c \in Callers : Mutex!Leave(c)
  <2>1. inside' = {c \in inside : Proc(c) # p}
    BY <1>3 DEF Crash
  <2>2. \A c, d \in inside : c = d
    BY InvExcludes DEF MutualExclusion
  <2>3. CASE \E c \in inside : Proc(c) = p
    <3>1. PICK c \in inside : Proc(c) = p
      BY <2>3
    <3>2. c \in Callers /\ inside' = inside \ {c}
      BY <2>1, <2>2, <3>1
    <3> QED
      BY <3>1, <3>2 DEF Mutex!Leave
  <2> QED
    BY <2>1, <2>3
<1>4. ASSUME NEW c \in Callers, WithSender(c) \/ Renew(c) PROVE inside' = inside
  BY <1>4, RenewInv DEF WithSender
<1>5. ASSUME Tick \/ UNCHANGED vars PROVE inside' = inside
  BY <1>5 DEF Tick, vars
<1>6. ASSUME NEW c \in Callers PROVE ~RenewThrows(c) /\ ~Trail(c)
  BY NoTrail DEF RenewThrows, Punctual
<1> QED
  BY <1>1, <1>2, <1>3, <1>4, <1>5, <1>6 DEF Next, Mutex!MutexNext

\* With punctual renewals the lease, the timers and the queues implement the
\* mutex the broadcaster is written against.
THEOREM LockImplementsMutex ==
  ASSUME Punctual
  PROVE  Spec => ImplementsMutex
<1>1. Init => LockInv
  BY LockInitInv
<1>2. LockInv /\ [Next]_vars => LockInv'
  BY LockStep
<1>3. Init => Mutex!MutexInit
  BY DEF Init, Mutex!MutexInit
<1>4. LockInv /\ [Next]_vars => [Mutex!MutexNext]_({c \in Callers : body[c]})
  BY LockStepIsMutexStep
<1> QED
  BY <1>1, <1>2, <1>3, <1>4, PTL DEF Spec, ImplementsMutex, Mutex!MutexSpec

-----------------------------------------------------------------------------
(* The lease itself, however late the renewals are. *)

\* Whoever holds the row has a call in its critical section, and its body runs.
HolderRuns ==
  /\ row \in [holder : Procs \cup {NoProc, Gone}, ttl : Nat]
  /\ pc \in [Callers -> {"idle", "queued", "critical"}] /\ body \in [Callers -> BOOLEAN]
  /\ \A c \in Callers : pc[c] = "critical" => body[c]
  /\ row.holder \in Procs =>
       \E c \in Callers : Proc(c) = row.holder /\ pc[c] = "critical"

\* A call that leaves takes the row with it where the row is still its own.
LEMMA LeavingRuns ==
  ASSUME HolderRuns, NEW c \in Callers,
         row' = IF row.holder = Proc(c) THEN NoRow ELSE row,
         pc' = [pc EXCEPT ![c] = "idle"],
         body' = body \/ body' = [body EXCEPT ![c] = FALSE]
  PROVE  HolderRuns'
<1>1. /\ pc' \in [Callers -> {"idle", "queued", "critical"}] /\ body' \in [Callers -> BOOLEAN]
      /\ \A d \in Callers : pc'[d] = "critical" => body'[d]
  BY DEF HolderRuns
<1>2. CASE row.holder = Proc(c)
  BY <1>1, <1>2, LockAssumption DEF HolderRuns, NoRow, NoProc
<1>3. CASE row.holder # Proc(c)
  BY <1>1, <1>3 DEF HolderRuns
<1> QED BY <1>2, <1>3

\* Every step keeps it, late renewals and failing ones too.
LEMMA HolderRunsStep == HolderRuns /\ [Next]_vars => HolderRuns'
<1> SUFFICES ASSUME HolderRuns, [Next]_vars PROVE HolderRuns'
  OBVIOUS
<1>1. ASSUME NEW c \in Callers, WithSender(c) \/ RenewThrows(c) \/ Trail(c)
      PROVE  HolderRuns'
  BY <1>1 DEF WithSender, RenewThrows, Trail, HolderRuns
<1>2. ASSUME NEW c \in Callers, Acquire(c) PROVE HolderRuns'
  <2>1. /\ row'.holder = Proc(c) /\ row' \in [holder : Procs \cup {NoProc, Gone}, ttl : Nat]
    BY <1>2, CallerType, LockAssumption DEF Acquire
  <2> QED BY <1>2, <2>1 DEF Acquire, HolderRuns
<1>3. ASSUME NEW c \in Callers, Renew(c) PROVE HolderRuns'
  <2>1. CASE row.holder = Proc(c)
    <3>1. /\ row'.holder = row.holder /\ pc' = pc /\ body' = body
          /\ row' \in [holder : Procs \cup {NoProc, Gone}, ttl : Nat]
      BY <1>3, <2>1, LockAssumption DEF Renew, HolderRuns
    <3> QED BY <3>1 DEF HolderRuns
  <2>2. CASE row.holder # Proc(c)
    BY <1>3, <2>2, LeavingRuns DEF Renew, Settle
  <2> QED BY <2>1, <2>2
<1>4. ASSUME NEW c \in Callers, Return(c) PROVE HolderRuns'
  BY <1>4, LeavingRuns DEF Return, Settle
<1>5. ASSUME NEW p \in Procs, Crash(p) PROVE HolderRuns'
  <2>1. /\ pc' \in [Callers -> {"idle", "queued", "critical"}]
        /\ body' \in [Callers -> BOOLEAN]
        /\ \A c \in Callers : pc'[c] = "critical" => body'[c]
    BY <1>5 DEF Crash, HolderRuns
  <2>2. /\ row' \in [holder : Procs \cup {NoProc, Gone}, ttl : Nat]
        /\ row'.holder = IF row.holder = p THEN Gone ELSE row.holder
    BY <1>5 DEF Crash, HolderRuns
  <2>3. row'.holder \in Procs => row.holder # p /\ row'.holder = row.holder
    BY <2>2, LockAssumption DEF Gone
  <2> QED BY <1>5, <2>1, <2>2, <2>3 DEF Crash, HolderRuns
<1>6. ASSUME Tick PROVE HolderRuns'
  <2>1. /\ row'.holder = row.holder /\ pc' = pc /\ body' = body
        /\ row' \in [holder : Procs \cup {NoProc, Gone}, ttl : Nat]
    BY <1>6 DEF Tick, HolderRuns
  <2> QED BY <2>1 DEF HolderRuns
<1>7. CASE UNCHANGED vars
  BY <1>7 DEF vars, HolderRuns
<1> QED BY <1>1, <1>2, <1>3, <1>4, <1>5, <1>6, <1>7 DEF Next

\* A lease that has not run out is given up by its holder only, in any number
\* of processes, however late or failing the renewals: never by a call that lost
\* it, and never to one that asks for it.
THEOREM LeaseIsRespected == Spec => LeaseRespected
<1>1. Init => HolderRuns
  BY LockAssumption DEF Init, HolderRuns, NoRow, NoProc
<1> DEFINE Kept == row.ttl > 0 /\ row'.holder # row.holder =>
             \E c \in Callers : Proc(c) = row.holder /\ body[c] /\ ~body'[c]
<1>2. ASSUME HolderRuns, [Next]_vars PROVE Kept
  <2>1. ASSUME NEW c \in Callers, WithSender(c) \/ RenewThrows(c) \/ Trail(c) \/ Acquire(c)
        PROVE  Kept
    BY <1>2, <2>1 DEF WithSender, RenewThrows, Trail, Acquire, Free, HolderRuns
  <2>2. ASSUME NEW c \in Callers, Renew(c) PROVE Kept
    BY <1>2, <2>2 DEF Renew, Settle, HolderRuns
  <2>3. ASSUME NEW c \in Callers, Return(c) PROVE Kept
    BY <1>2, <2>3 DEF Return, Settle, HolderRuns
  <2>4. ASSUME NEW p \in Procs, Crash(p) PROVE Kept
    BY <1>2, <2>4 DEF Crash, HolderRuns
  <2>5. CASE Tick
    BY <1>2, <2>5 DEF Tick, HolderRuns
  <2>6. CASE UNCHANGED vars
    BY <2>6 DEF vars
  <2> QED BY <1>2, <2>1, <2>2, <2>3, <2>4, <2>5, <2>6 DEF Next
<1>3. HolderRuns /\ [Next]_vars => [Kept]_vars
  BY <1>2
<1> QED BY <1>1, <1>3, HolderRunsStep, PTL DEF Spec, LeaseRespected
=============================================================================
