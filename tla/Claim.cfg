\* Restarts, lost answers, failed broadcasts, lagging replicas, lapsed leases,
\* a reorganisation, and a task that closes.
SPECIFICATION Spec
CONSTANTS
  w1 = w1
  w2 = w2
  Workers = {w1, w2}
  Cards = 1
  MaxTx = 2
  MaxFaults = 2
INVARIANTS FinalizedIsHeld AttemptIsObserved OneAttempt
PROPERTIES ClaimSettles
CHECK_DEADLOCK FALSE
