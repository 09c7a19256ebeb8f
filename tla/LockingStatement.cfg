SPECIFICATION MCSpec
CONSTANTS
  System = 2
  AccountIds <- MCAccountIds
  Accounts <- MCAccounts
  Commands <- MCCommands
  Requests <- MCRequests
  Transfers <- MCRequests
  Keys = {k1, k2, k3}
  k1 = k1
  k2 = k2
  k3 = k3
  Account = 2
  Limit = 1
  MaxInt = 31
INVARIANTS
  NonNegative
  ExactlyOnce
  TruthfulAnswers
  NoWaitCycle
  FreshBalance
  StablePages
  DebitsJudged
PROPERTIES
  ImplementsContract
  StatementComplete
  TransactionsEnd
