\* Two versions sealed under one key and two sets of terms, each submitted
\* twice; calls die anywhere after their first write (before it a death leaves
\* nothing), and a broadcast is sent again after a lost answer.
SPECIFICATION Spec
CONSTANTS
  k1 = k1
  t1 = t1
  t2 = t2
  Keys = {k1}
  Versions = {1, 2}
  Terms = {t1, t2}
  Tries = 2
  MaxAttempts = 2
  FaultAt = {"intent", "upload", "fence", "await", "resolve", "finish"}
INVARIANTS OnePerKey
PROPERTIES ImplementsPosting OutcomeJoined RetriesPost
CHECK_DEADLOCK FALSE
