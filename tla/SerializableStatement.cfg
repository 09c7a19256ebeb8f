SPECIFICATION StatementSpec
CONSTANTS
  System = 2
  AccountIds <- MCAccountIds
  Accounts <- MCAccounts
  Commands <- MCCommands
  Requests = {r1, r2, r3}
  Transfers <- MCTransfers
  MaxAttempts = 1
  Keys = {k1, k2, k3}
  k1 = k1
  k2 = k2
  k3 = k3
  Account = 3
  Limit = 1
SYMMETRY MCSymmetry
INVARIANT
  StablePages
