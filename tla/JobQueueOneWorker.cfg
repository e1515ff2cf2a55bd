SPECIFICATION FairSpec
CONSTANTS
  w1 = w1
  w2 = w2
  u1 = u1
  u2 = u2
  u3 = u3
  Listener = listener
  NULL = NULL
  QueueSize = 3
  Workers <- OneWorker
  Users <- ThreeUsers
INVARIANTS TypeOK QueuedOnce SerialUntilArmed SleepersHaveCause
PROPERTIES ImplementsService QueueGoesOn
