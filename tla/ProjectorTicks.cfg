\* Reorganisations between any two steps, any log dropped by the fold, and one
\* fault: a poll that fails, a tick that dies, a publication refused, a head not
\* written after its page, or a rewind.
SPECIFICATION Spec
CONSTANTS
  MaxHeight = 5
  MaxForks = 2
  MaxFaults = 1
  Depth = 2
  Chunk = 1
  StaleTags = FALSE
INVARIANTS ProjectionMatchesChain NoStaleState NoStaleAvailability ArchiveIsAChain AnnouncedOnce
