--------------------------- MODULE WalletContract ---------------------------
(***************************************************************************)
(* What the transfer API promises, whatever the concurrency strategy: a    *)
(* bank with one stored balance per account in which a transfer happens at *)
(* a single instant.  A key moves money at most once, a request is refused *)
(* only for a reason that holds at that instant, a request is answered     *)
(* with the transfer its key made, and a request whose caller got an error *)
(* either takes effect once, possibly later, or never.                     *)
(***************************************************************************)
EXTENDS TransferService

VARIABLES
  cmd,       \* cmd[r]: what request r asks
  balance,   \* balance[a]: the balance of account a
  done,      \* completed idempotency rows, one per transfer made
  announced, \* transfers with a transfer.completed event
  answer,    \* answer[r]: "pending", "unknown", "answered" or a refusal
  receipts   \* <<r, t>>: request r was answered with transfer t

vars == <<cmd, balance, done, announced, answer, receipts>>

Init ==
  /\ cmd \in [Requests -> Commands]
  /\ balance = [a \in Accounts |-> 0]
  /\ done = {}
  /\ announced = {}
  /\ answer = [r \in Requests |-> "pending"]
  /\ receipts = {}

KeyUsed(k) == \E row \in done : row.key = k

\* The transfer takes effect: money, key and event together.
Apply(r) ==
  LET c == cmd[r] IN
  /\ answer[r] \in {"pending", "unknown"}
  /\ InputError(c) = "none" /\ AccountsExist(c) /\ ~ KeyUsed(c.key)
  /\ CanDebit(balance[c.from], c.amount, c.from)
  /\ \E t \in Transfers \ announced :
       /\ done' = done \cup {StoredKey(c, t, "completed")}
       /\ announced' = announced \cup {t}
  /\ balance' = [balance EXCEPT ![c.from] = @ - c.amount, ![c.to] = @ + c.amount]
  /\ UNCHANGED <<cmd, answer, receipts>>

Answer(r) ==
  /\ answer[r] = "pending"
  /\ \E row \in done :
       /\ row.key = cmd[r].key /\ row.fingerprint = Fingerprint(cmd[r])
       /\ receipts' = receipts \cup {<<r, row.transfer>>}
  /\ answer' = [answer EXCEPT ![r] = "answered"]
  /\ UNCHANGED <<cmd, balance, done, announced>>

\* The reason for which r is refused is true of r and of the bank.
Justified(r, why) ==
  LET c == cmd[r] IN
  \/ why = InputError(c)
  \/ why = "account_not_found" /\ ~ AccountsExist(c)
  \/ /\ why = "insufficient_funds" /\ AccountsExist(c)
     /\ ~ CanDebit(balance[c.from], c.amount, c.from)
  \/ /\ why = "idempotency_key_reuse"
     /\ \E row \in done : row.key = c.key /\ row.fingerprint # Fingerprint(c)

Refuse(r) ==
  /\ answer[r] = "pending"
  /\ \E why \in Refusals :
       Justified(r, why) /\ answer' = [answer EXCEPT ![r] = why]
  /\ UNCHANGED <<cmd, balance, done, announced, receipts>>

\* The caller is told of a timeout or an internal error.
GiveUp(r) ==
  /\ answer[r] = "pending"
  /\ answer' = [answer EXCEPT ![r] = "unknown"]
  /\ UNCHANGED <<cmd, balance, done, announced, receipts>>

Next == \E r \in Requests : Apply(r) \/ Answer(r) \/ Refuse(r) \/ GiveUp(r)

Spec == Init /\ [][Next]_vars
=============================================================================
