\* A request that settles and one that is issued again under a cost cap, with
\* one fault: a lost answer, a failed self-send, a crash, a lost lease; the
\* provider may be blind to what is queued.
SPECIFICATION Spec
CONSTANTS
  r1 = r1
  r2 = r2
  Requests = {r1, r2}
  Settling = {r1}
  Again = {r2}
  MaxAttempts = 2
  MaxFaults = 1
  Capped = {r2}
INVARIANTS AdoptedHasEffect AtMostOncePerCall SuccessHasEffect NonceIsOwn
PROPERTIES StuckNonceFreed EveryCallEnds
CHECK_DEADLOCK FALSE
