--------------------------- MODULE BroadcastLock ---------------------------
(***************************************************************************)
(* packages/marketplace/venue-base/src/broadcast/lock.ts: the lease that    *)
(* serialises every transaction of one (chainId, sender).  Each process     *)
(* creates one lock object with its own holder id and queues its own calls; *)
(* the processes share one row of broadcast_locks.  The holder renews the   *)
(* row from a timer at half the lease.                                      *)
(*                                                                          *)
(* Time is kept as differences: row.ttl is expires_at_ms - now(), since[c]  *)
(* is the time since the renewal timer of c last fired.  Delay bounds how   *)
(* late a timer callback runs (a blocked event loop, a suspended host).     *)
(***************************************************************************)
EXTENDS Integers, Sequences

CONSTANTS
  Procs,       \* the processes that share the state file
  Slots,       \* the calls of one process
  Lease,       \* leaseMs
  Delay,       \* how late a renewal may run
  DbFails,     \* a renewal may throw (the database is closed or unavailable)
  MaxCrashes   \* bound: processes that die

ASSUME LockAssumption ==
  /\ <<>> \notin Procs /\ <<"gone">> \notin Procs
  /\ Lease \in Nat \ {0} /\ Delay \in Nat /\ MaxCrashes \in Nat
  /\ DbFails \in BOOLEAN

Callers  == Procs \X Slots
\* Mutant: the renewal runs once per lease, not twice.
Interval_Whole == Lease

Interval == IF Lease \div 2 > 1 THEN Lease \div 2 ELSE 1   \* renewIntervalMs

VARIABLES
  row,     \* broadcast_locks: who holds the lease and for how long, or NoRow
  queue,   \* queues: the calls of a process, the first one past its gate
  pc,      \* where each call is in withSender
  body,    \* does the body passed to the call run
  since,   \* the renewal timer of a call, Off when cleared
  crashes  \* history: processes that died

vars == <<row, queue, pc, body, since, crashes>>

NoProc == <<>>        \* no holder
Gone   == <<"gone">>  \* the holder id of a process that died
NoRow  == [holder |-> NoProc, ttl |-> 0]
Off    == -1

Proc(c)     == c[1]
Renewing(c) == since[c] # Off

Init ==
  /\ row = NoRow
  /\ queue = [p \in Procs |-> << >>]
  /\ pc = [c \in Callers |-> "idle"]
  /\ body = [c \in Callers |-> FALSE]
  /\ since = [c \in Callers |-> Off]
  /\ crashes = 0

\* withSender is called: the call waits for the gate of the one before it.
WithSender(c) ==
  /\ pc[c] = "idle" /\ ~body[c]
  /\ queue' = [queue EXCEPT ![Proc(c)] = Append(@, c)]
  /\ pc' = [pc EXCEPT ![c] = "queued"]
  /\ UNCHANGED <<row, body, since, crashes>>

\* Mutant: a lease counts as expired when its renewal is due.
Free_Late  == row.ttl <= Lease - Interval

Free       == row.ttl = 0

\* Mutant: an attempt to acquire a held row extends it.
Acquire_Extends(c) ==
  /\ pc[c] = "queued" /\ Head(queue[Proc(c)]) = c
  /\ row' = IF Free THEN [holder |-> Proc(c), ttl |-> Lease] ELSE [row EXCEPT !.ttl = Lease]
  /\ pc' = IF Free THEN [pc EXCEPT ![c] = "critical"] ELSE pc
  /\ body' = IF Free THEN [body EXCEPT ![c] = TRUE] ELSE body
  /\ since' = IF Free THEN [since EXCEPT ![c] = 0] ELSE since
  /\ UNCHANGED <<queue, crashes>>

\* acquireLease finds the row absent or expired; the body and the renewal
\* timer start.  An attempt that finds it held changes nothing.
Acquire(c) ==
  /\ pc[c] = "queued" /\ Head(queue[Proc(c)]) = c
  /\ Free
  /\ row' = [holder |-> Proc(c), ttl |-> Lease]
  /\ pc' = [pc EXCEPT ![c] = "critical"]
  /\ body' = [body EXCEPT ![c] = TRUE]
  /\ since' = [since EXCEPT ![c] = 0]
  /\ UNCHANGED <<queue, crashes>>

\* Mutant: the row is deleted whoever holds it.
Settle_AnyHolder(c) ==
  /\ row' = NoRow
  /\ queue' = [queue EXCEPT ![Proc(c)] = Tail(@)]
  /\ since' = [since EXCEPT ![c] = Off]

\* The finally blocks of withSender: the timer is cleared, the row deleted
\* where it is still this holder's, and the next call of the process let in.
Settle(c) ==
  /\ row' = IF row.holder = Proc(c) THEN NoRow ELSE row
  /\ queue' = [queue EXCEPT ![Proc(c)] = Tail(@)]
  /\ since' = [since EXCEPT ![c] = Off]

\* The timer fires.  A renewal that matches no row means that the lease was
\* lost: the race rejects the call, but the body is not stopped by that.
Renew(c) ==
  /\ pc[c] = "critical" /\ since[c] >= Interval
  /\ IF row.holder = Proc(c)
       THEN /\ row' = [row EXCEPT !.ttl = Lease]
            /\ since' = [since EXCEPT ![c] = 0]
            /\ UNCHANGED <<queue, pc>>
       ELSE /\ Settle(c)
            /\ pc' = [pc EXCEPT ![c] = "idle"]
  /\ UNCHANGED <<body, crashes>>

\* The renewal throws: the timer is cleared and nobody is told.
RenewThrows(c) ==
  /\ DbFails
  /\ pc[c] = "critical" /\ since[c] >= Interval
  /\ since' = [since EXCEPT ![c] = Off]
  /\ UNCHANGED <<row, queue, pc, body, crashes>>

\* The body settles and the call with it.
Return(c) ==
  /\ pc[c] = "critical"
  /\ Settle(c)
  /\ pc' = [pc EXCEPT ![c] = "idle"]
  /\ body' = [body EXCEPT ![c] = FALSE]
  /\ UNCHANGED crashes

\* A body settles whose call was rejected before.
Trail(c) ==
  /\ pc[c] # "critical" /\ body[c]
  /\ body' = [body EXCEPT ![c] = FALSE]
  /\ UNCHANGED <<row, queue, pc, since, crashes>>

\* A process dies and another one, with a new holder id, takes its place.
Crash(p) ==
  /\ crashes < MaxCrashes
  /\ crashes' = crashes + 1
  /\ row' = IF row.holder = p THEN [row EXCEPT !.holder = Gone] ELSE row
  /\ queue' = [queue EXCEPT ![p] = << >>]
  /\ pc' = [c \in Callers |-> IF Proc(c) = p THEN "idle" ELSE pc[c]]
  /\ body' = [c \in Callers |-> body[c] /\ Proc(c) # p]
  /\ since' = [c \in Callers |-> IF Proc(c) = p THEN Off ELSE since[c]]

\* Time passes, as long as no timer is later than Delay.
Tick ==
  /\ \A c \in Callers : since[c] < Interval + Delay
  /\ row' = [row EXCEPT !.ttl = IF @ = 0 THEN 0 ELSE @ - 1]
  /\ since' = [c \in Callers |-> IF Renewing(c) THEN since[c] + 1 ELSE Off]
  /\ row' # row \/ since' # since
  /\ UNCHANGED <<queue, pc, body, crashes>>

Next ==
  \/ \E c \in Callers : \/ WithSender(c) \/ Acquire(c) \/ Renew(c)
                         \/ RenewThrows(c) \/ Return(c) \/ Trail(c)
  \/ \E p \in Procs : Crash(p)
  \/ Tick

\* Time goes on, timers fire, a call past its gate keeps asking for the lease.
Spec == /\ Init /\ [][Next]_vars
        /\ WF_vars(Tick)
        /\ \A c \in Callers : WF_vars(Acquire(c)) /\ WF_vars(Renew(c))

-----------------------------------------------------------------------------
\* The renewals are punctual: none throws, and each runs before the lease ends.
Punctual == ~DbFails /\ Interval + Delay < Lease

\* Every variable has the shape the code gives it.
TypeOK ==
  /\ row \in [holder : Procs \cup {NoProc, Gone}, ttl : 0..Lease]
  /\ queue \in [Procs -> Seq(Callers)]
  /\ pc \in [Callers -> {"idle", "queued", "critical"}]
  /\ body \in [Callers -> BOOLEAN]
  /\ since \in [Callers -> {Off} \cup 0..(Interval + Delay)]
  /\ crashes \in 0..MaxCrashes

\* Two bodies never run at once, in one process or in two: no two nonce
\* stacks work on one sender.
MutualExclusion == \A c, d \in Callers : body[c] /\ body[d] => c = d

\* A call that returns what its body returned still holds the lease: the
\* body ran with exclusion to its end, else the caller is told.
ReturnsHolding ==
  [][\A c \in Callers : Return(c) => row.holder = Proc(c)]_vars

\* A lease that has not run out is given up by its holder only, never by a
\* call that lost it or by one that asks for it.
LeaseRespected ==
  [][row.ttl > 0 /\ row'.holder # row.holder =>
       \E c \in Callers : Proc(c) = row.holder /\ body[c] /\ ~body'[c]]_vars

Mutex == INSTANCE SenderMutex WITH inside <- {c \in Callers : body[c]}

\* The lease, the timers and the in-process queue implement the mutex the
\* broadcaster is written against.
ImplementsMutex == Mutex!MutexSpec

\* A process that dies holding the lease never wedges the sender: as long as
\* a call waits, some body runs sooner or later.
NeverWedged ==
  (\E c \in Callers : pc[c] = "queued")
    ~> ((\E c \in Callers : body[c]) \/ (\A c \in Callers : pc[c] # "queued"))
=============================================================================
