SPECIFICATION MCSpec
CONSTANTS
  System = 2
  AccountIds <- MCAccountIds
  Accounts <- MCAccounts
  Commands <- MCCommands
  Requests <- MCRequests
  Transfers <- MCTransfers
  MaxAttempts = 2
  Keys = {k1, k2, k3}
  k1 = k1
  k2 = k2
  k3 = k3
INVARIANTS
  TypeOK
  NonNegative
  ExactlyOnce
  TruthfulAnswers
  ConflictCommitsNothing
PROPERTIES
  ImplementsContract
  RequestsEnd
