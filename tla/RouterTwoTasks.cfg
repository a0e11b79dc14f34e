SPECIFICATION Spec
CONSTANTS
  requester = requester
  op1 = op1
  op2 = op2
  Accounts = {op1, op2}
  NoOne = NoOne
  Payloads = {d1}
  NoPayload = NoPayload
  Policies <- MCSingle
  MaxTasks = 2
  MaxAttempts = 1
  MaxVerdicts = 1
  ReleaseMinHold = 1
  MaxSimultaneousClaims = 1
  Mechs <- MCMechs
  FirstOperator <- MCFirstOperator
  NoRequest = NoRequest
  MaxRate = 1
  Horizon = 3
  OwnerActs = {}
SYMMETRY MCSymmetry
INVARIANTS
  Solvent
  CountersExact
CHECK_DEADLOCK FALSE
