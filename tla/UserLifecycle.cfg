SPECIFICATION Spec
CONSTANTS
  w1 = w1
  cli = cli
  c1 = c1
  c2 = c2
  c3 = c3
  u1 = u1
  u2 = u2
  Listener = listener
  None = None
  MaxClients = 3
  Workers <- OneWorker
  Admins <- OneAdmin
  Conns <- ThreeConns
  Uids <- TwoUids
  Settings <- UsedAgain
INVARIANTS TypeOK TableSound OnlineInCircuit
PROPERTY HoldsSound
SYMMETRY Symmetry
CHECK_DEADLOCK FALSE
