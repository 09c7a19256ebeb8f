------------------------- MODULE MCLockingStatement -------------------------
(***************************************************************************)
(* Instance of LockingStatement.  The system account, whose statement is   *)
(* read, has the middle id: deposits and withdrawals lock in both          *)
(* directions.  Id 4 has no row.                                           *)
(***************************************************************************)
EXTENDS LockingStatement, LockingMoney

CONSTANTS k1, k2, k3

MCAccountIds == 1 .. 4
MCAccounts == 1 .. 3
MCRequests == 1 .. 3

Move(k, from, to, amount) == [key |-> k, from |-> from, to |-> to, amount |-> amount]

\* Funding, two competing spends, the way back, a missing account, a reused
\* key, and the two inputs refused early.
MCCommandList ==
  << DepositCommand(k1, 1, 2), Move(k2, 1, 3, 2), WithdrawCommand(k3, 1, 1),
     Move(k3, 3, 1, 2), Move(k3, 1, 4, 1), DepositCommand(k2, 3, 1),
     Move(k1, 3, 3, 1), Move(k2, 1, 3, 0) >>

MCCommands == { MCCommandList[i] : i \in DOMAIN MCCommandList }

\* Requests differ in their commands only, so one assignment of commands stands
\* for all its permutations: the one in the order of MCCommandList.
Sorted ==
  \E i, j, k \in DOMAIN MCCommandList :
    /\ i <= j /\ j <= k
    /\ cmd = << MCCommandList[i], MCCommandList[j], MCCommandList[k] >>

MCInit == StatementInit /\ Sorted

MCSpec == MCInit /\ [][StatementNext]_<<vars, readerVars>> /\ Fairness
=============================================================================
