SPECIFICATION Spec
CONSTANTS
  requester = requester
  op1 = op1
  op2 = op2
  Accounts = {op1, op2}
  NoOne = NoOne
  Payloads = {d1, d2}
  NoPayload = NoPayload
  Policies <- MCSingle
  MaxTasks = 1
  MaxAttempts = 1
  MaxVerdicts = 1
  ReleaseMinHold = 1
  MaxSimultaneousClaims = 0
  Mechs <- MCMechs
  FirstOperator <- MCFirstOperator
  NoRequest = NoRequest
  MaxRate = 2
  Horizon = 3
  OwnerActs = {"setActivityChecker", "setAuthorizedRouter", "changeMechOperator"}
SYMMETRY MCSymmetry
INVARIANTS
  Conservation
  RecordedWorkWasPaid
  PaidIsNeverRestored
  LedgersAgree
  CreditsEarned
CHECK_DEADLOCK FALSE
