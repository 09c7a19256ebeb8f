---------------------- MODULE MCSerializableStatement ----------------------
(* Instance of SerializableStatement: account 3 is credited by account 1    *)
(* and by the system account, which do not conflict.                        *)
EXTENDS SerializableStatement, TLC

CONSTANTS k1, k2, k3

MCAccountIds == 1 .. 3
MCAccounts == 1 .. 3

MCCommands ==
  { DepositCommand(k1, 1, 2), [key |-> k2, from |-> 1, to |-> 3, amount |-> 2],
    DepositCommand(k3, 3, 1) }

MCTransfers == Requests \X (1 .. MaxAttempts)

MCSymmetry == Permutations(Requests)
=============================================================================
