------------------------------- MODULE Ledger -------------------------------
(***************************************************************************)
(* The append-only ledger of the wallet: what an entry is, what the SUM    *)
(* over an account's entries returns, the non-negative rule of a customer  *)
(* account, and the order in which a transfer locks its two accounts.      *)
(* There is no balance column: every balance is Balance(log, a).           *)
(***************************************************************************)
EXTENDS Integers, Sequences

CONSTANTS AccountIds,  \* every account id a request may name (ordered like the UUID bytes)
          Accounts,    \* the ids that have a row in the accounts table
          System,      \* the id of the one account of kind 'system'
          Transfers    \* transfer ids, one per execution of a transfer

ASSUME AccountsAssumption ==
  /\ AccountIds \subseteq Int
  /\ Accounts \subseteq AccountIds
  /\ System \in Accounts

\* Account.Kind = KindCustomer.
Customers == Accounts \ {System}

\* A row of the entries table; id is the BIGSERIAL the insert drew.
Entry == [id : Nat, transfer : Transfers, account : Accounts, amount : Int]

\* What the entry contributes to the sum of account a.
AmountFor(e, a) == IF e.account = a THEN e.amount ELSE 0

\* Partial sums of a's amounts along the committed log.
RunningSum(log, a) ==
  LET sum[i \in 0 .. Len(log)] ==
        IF i = 0 THEN 0 ELSE sum[i - 1] + AmountFor(log[i], a)
  IN  sum

\* SELECT COALESCE(SUM(amount_cents), 0) FROM entries WHERE account_id = a.
Balance(log, a) == RunningSum(log, a)[Len(log)]

\* domain.CanDebit: the system account may go negative, a customer may not.
CanDebit(balance, amount, a) == a = System \/ balance - amount >= 0

\* domain.NewTransferAmount accepts only strictly positive amounts.
ValidAmount(amount) == amount > 0

\* Variant: source first, then destination.
SourceFirst(from, to) == <<from, to>>

\* lockOrder: the two account ids in ascending order, whatever the direction.
LockOrder(from, to) == IF from < to THEN <<from, to>> ELSE <<to, from>>

\* The debit and the credit row of one transfer, with the ids they drew.
EntryPair(t, from, to, amount, n) ==
  << [id |-> n + 1, transfer |-> t, account |-> from, amount |-> -amount],
     [id |-> n + 2, transfer |-> t, account |-> to,   amount |-> amount] >>
=============================================================================
