SPECIFICATION FairSpec
CONSTANTS
  u1 = u1
  u2 = u2
  Users = {u1, u2}
  NoUser = NoUser
  Faults = {"get", "token", "kill"}
  MaxCalls = 1
  MaxPages = 4
  MaxQueue = 2
  MaxBalance = 1
  MaxRestarts = 1
INVARIANTS
  TypeOK
  
  TokenStored
  RegisteredOnce
  WalletNotOverstated
PROPERTIES
  AppComesUp
CHECK_DEADLOCK FALSE
