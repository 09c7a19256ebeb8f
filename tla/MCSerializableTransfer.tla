----------------------- MODULE MCSerializableTransfer -----------------------
(***************************************************************************)
(* Instance of SerializableTransfer: two attempts per request, accounts 1  *)
(* and 3 for customers, 2 for the system; id 4 has no row.                 *)
(***************************************************************************)
EXTENDS SerializableTransfer

CONSTANTS k1, k2, k3

MCAccountIds == 1 .. 4
MCAccounts == 1 .. 3
MCRequests == 1 .. 3

Move(k, from, to, amount) == [key |-> k, from |-> from, to |-> to, amount |-> amount]

\* Beside a deposit and a transfer that spends it: the transfer again, a
\* withdrawal that competes with it, its key with another body, a missing
\* account, and an input refused early.
MCCommands ==
  { DepositCommand(k1, 1, 2), Move(k2, 1, 3, 2), WithdrawCommand(k3, 1, 1),
    DepositCommand(k2, 3, 1), Move(k3, 1, 4, 1), Move(k1, 3, 3, 1) }

Workload ==
  \E c \in MCCommands \ {DepositCommand(k1, 1, 2)} :
    cmd = << DepositCommand(k1, 1, 2), Move(k2, 1, 3, 2), c >>

MCTransfers == Requests \X (1 .. MaxAttempts)

MCInit == Init /\ Workload

MCSpec == MCInit /\ [][Next]_vars /\ Fairness
=============================================================================
