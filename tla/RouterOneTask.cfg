SPECIFICATION Spec
CONSTANTS
  requester = requester
  op1 = op1
  op2 = op2
  Accounts = {requester, op1, op2}
  NoOne = NoOne
  Payloads = {d1}
  NoPayload = NoPayload
  Policies <- MCAttempts
  MaxTasks = 1
  MaxAttempts = 2
  MaxVerdicts = 1
  ReleaseMinHold = 1
  MaxSimultaneousClaims = 0
  Mechs <- MCMechs
  FirstOperator <- MCFirstOperator
  NoRequest = NoRequest
  MaxRate = 1
  Horizon = 3
  OwnerActs = {}
SYMMETRY MCSymmetry
INVARIANTS
  TypeOK
  ReservedIsOwed
  NothingStranded
PROPERTIES
  HolderProtected
CHECK_DEADLOCK FALSE
