---------------------------- MODULE SenderMutex ----------------------------
(***************************************************************************)
(* What BroadcastLock.withSender promises its callers: the bodies passed to *)
(* it for one (chainId, sender) run one at a time.  A body leaves when it   *)
(* settles or when its process dies.                                        *)
(***************************************************************************)
CONSTANT Callers
VARIABLE inside   \* the callers whose body is running

MutexInit == inside = {}

Enter(c) == inside = {} /\ inside' = {c}
Leave(c) == c \in inside /\ inside' = inside \ {c}

MutexNext == \E c \in Callers : Enter(c) \/ Leave(c)
MutexSpec == MutexInit /\ [][MutexNext]_inside
=============================================================================
