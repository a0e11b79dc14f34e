SPECIFICATION FairSpec
CONSTANTS
  requester = requester
  op1 = op1
  op2 = op2
  Accounts = {requester, op1, op2}
  NoOne = NoOne
  Payloads = {d1}
  NoPayload = NoPayload
  Policies <- MCQuorum
  MaxTasks = 1
  MaxAttempts = 1
  MaxVerdicts = 3
  ReleaseMinHold = 1
  MaxSimultaneousClaims = 0
  Mechs <- MCMechs
  FirstOperator <- MCFirstOperator
  NoRequest = NoRequest
  MaxRate = 1
  Horizon = 4
  OwnerActs = {}
INVARIANTS
  FinalizedByQuorum
PROPERTIES
  EscrowDrains
CHECK_DEADLOCK FALSE
