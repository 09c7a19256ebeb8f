---------------------------- MODULE LockingMoney ----------------------------
(* Transfers of the locking strategy and the machine integers they compute  *)
(* with: LockingTransfer decides with true sums, the code with Money.       *)
EXTENDS LockingTransfer, Money

\* When a transfer is decided, CanDebit on machine integers agrees with the
\* ledger's rule on true sums, whatever balance the SUM returned: the inputs
\* that got this far are such that no wrapped difference lets a debit through
\* and no overflow refuses a good one.
DebitsJudged ==
  \A r \in Requests : pc[r] = "decide" /\ cmd[r].amount \in Int64 =>
    \A balance \in Int64 :
      DebitError(balance, cmd[r].amount, cmd[r].from) = "nil"
        <=> CanDebit(balance, cmd[r].amount, cmd[r].from)
=============================================================================
