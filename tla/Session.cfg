SPECIFICATION FairSpec
CONSTANTS
  n1 = n1
  n2 = n2
  ann = ann
  bob = bob
  Nil = Nil
  Node = {n1, n2}
  BOOTSTRAP_NODES <- TwoNodes
  User = {ann, bob}
  RoleOf <- Roles
  TTL = 1
  MaxTime = 2
  MaxLogins = 2
  MaxCalls = 1
  MaxFaults = 2
CHECK_DEADLOCK FALSE
INVARIANTS TypeOK MenuMatchesToken WorkIsInSession AnswersAreTrue
PROPERTIES ClientReturns FindsLeader ReachesLeaderAgain
