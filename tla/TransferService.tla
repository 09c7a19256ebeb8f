--------------------------- MODULE TransferService ---------------------------
(***************************************************************************)
(* The idempotent transfer use case, without its storage: what a request   *)
(* asks, which requests are refused before any transaction starts, the     *)
(* idempotency row a transfer leaves behind, and how a later request with  *)
(* the same key is answered from it.  Both executors run this use case.    *)
(***************************************************************************)
EXTENDS Ledger, FiniteSets

CONSTANTS Requests,  \* calls of Transfer, Deposit or Withdraw; a retry is a new one
          Keys,      \* (scope, endpoint, key) triples
          Commands   \* what a request may ask: key, from, to and amount

ASSUME CommandsAssumption ==
  Commands \subseteq [key : Keys, from : AccountIds, to : AccountIds, amount : Int]

\* What Transfer returns: a result of its own or a replayed one, a refusal,
\* or an error after which the caller cannot tell whether it took effect.
Answers  == {"created", "replayed"}
Refusals == {"invalid_amount", "same_account", "account_not_found",
             "insufficient_funds", "idempotency_key_reuse", "request_in_flight"}

\* Deposit and Withdraw are transfers from and to the system account, and
\* their routes have keys of their own.
DepositCommand(k, a, amount)  == [key |-> k, from |-> System, to |-> a, amount |-> amount]
WithdrawCommand(k, a, amount) == [key |-> k, from |-> a, to |-> System, amount |-> amount]

\* Transfer's checks before InTx: the amount, then distinct accounts.
InputError(c) ==
  IF ~ ValidAmount(c.amount) THEN "invalid_amount"
  ELSE IF c.from = c.to THEN "same_account"
  ELSE "none"

\* app.Fingerprint: bodies that ask the same thing have the same fingerprint.
Fingerprint(c) == [from |-> c.from, to |-> c.to, amount |-> c.amount]

\* A row of idempotency_keys.  transfer_id is NULL until CompleteKey, and
\* replay does not read it while the row is in flight.
StoredKey(c, t, state) ==
  [key |-> c.key, fingerprint |-> Fingerprint(c), state |-> state, transfer |-> t]

StoredKeys ==
  [key : Keys, fingerprint : [from : AccountIds, to : AccountIds, amount : Int],
   state : {"in_flight", "completed"}, transfer : Transfers]

\* Variant: a used key answers any body.
ReplayAnyBody(row, c) == IF row.state # "completed" THEN "request_in_flight" ELSE "ok"

\* replay on the loaded row: "ok" is the stored response.
ReplayOutcome(row, c) ==
  IF row.fingerprint # Fingerprint(c) THEN "idempotency_key_reuse"
  ELSE IF row.state # "completed" THEN "request_in_flight"
  ELSE "ok"

\* Both accounts have a row.
AccountsExist(c) == {c.from, c.to} \subseteq Accounts
=============================================================================
