--------------------------- MODULE LockingTransfer ---------------------------
(***************************************************************************)
(* TransferService.Transfer over the locking executor: the idempotent      *)
(* transfer use case, run by concurrent request handlers against one       *)
(* Postgres database at READ COMMITTED with SELECT ... FOR UPDATE.         *)
(*                                                                         *)
(* A request is one call of the use case (a client retry is another        *)
(* request with the same key).  Its transaction is driven by a handler     *)
(* goroutine and run by a server session.  The handler can go away first   *)
(* (deadline, lost connection, killed process): the session then keeps its *)
(* locks until the server ends it, and a COMMIT already sent may still     *)
(* take effect after the caller was told that the request failed.          *)
(***************************************************************************)
EXTENDS TransferService

\* Transfer draws one transfer id per call: the locking InTx runs it once.
ASSUME RequestsAssumption == Requests \subseteq Transfers

VARIABLES
  cmd,      \* cmd[r]: the command of request r
  pc,       \* pc[r]: the statement that r's transaction runs next
  resp,     \* resp[r]: what Transfer returned, "pending" until it does
  result,   \* result[r]: the transfer id r returns when it succeeds
  held,     \* held[r]: the account rows that r's session has locked
  seen,     \* seen[r]: the source balance that r's session read
  wrote,    \* wrote[r]: the uncommitted writes of r's transaction
  base,     \* base[r]: the entry sequence just before r's two inserts
  lastId,   \* last value drawn from the BIGSERIAL of entries
  entries,  \* committed ledger entries, in the order they became visible
  keyRows,  \* committed rows of idempotency_keys
  outbox    \* committed rows of outbox

tables == <<entries, keyRows, outbox>>
vars == <<cmd, pc, resp, result, held, seen, wrote, base, lastId,
          entries, keyRows, outbox>>

-----------------------------------------------------------------------------
\* Statements of the transaction that a waiting or running session can be at.
Statements == {"claim", "load", "lock1", "lock2", "sum", "decide",
               "event", "complete", "commit"}

\* The session has a transaction open: its writes are hidden, its locks held.
Open(r) == pc[r] \in Statements \cup {"rollback"}

\* The row that ClaimKey inserts and CompleteKey updates.
KeyRow(r) ==
  StoredKey(cmd[r], r, IF "response" \in wrote[r] THEN "completed" ELSE "in_flight")

Ids(r) == LockOrder(cmd[r].from, cmd[r].to)

\* The insert of r's key row waits for q's uncommitted row with the same key.
WaitsForKey(r, q) ==
  /\ q # r /\ pc[r] = "claim"
  /\ Open(q) /\ "claim" \in wrote[q] /\ cmd[q].key = cmd[r].key

\* The FOR UPDATE of r waits for a row lock that q holds.
WaitsForRow(r, q) ==
  /\ q # r
  /\ \/ pc[r] = "lock1" /\ Ids(r)[1] \in held[q]
     \/ pc[r] = "lock2" /\ Ids(r)[2] \in held[q]

WaitsFor(r, q) == WaitsForKey(r, q) \/ WaitsForRow(r, q)

-----------------------------------------------------------------------------
Init ==
  /\ cmd \in [Requests -> Commands]
  /\ pc = [r \in Requests |-> "idle"]
  /\ resp = [r \in Requests |-> "pending"]
  /\ result = [r \in Requests |-> r]
  /\ held = [r \in Requests |-> {}]
  /\ seen = [r \in Requests |-> 0]
  /\ wrote = [r \in Requests |-> {}]
  /\ base = [r \in Requests |-> 0]
  /\ lastId = 0
  /\ entries = << >>
  /\ keyRows = {}
  /\ outbox = {}

\* Transfer returns before any transaction.
RejectInput(r) ==
  /\ pc[r] = "idle"
  /\ InputError(cmd[r]) # "none"
  /\ resp' = [resp EXCEPT ![r] = InputError(cmd[r])]
  /\ pc' = [pc EXCEPT ![r] = "closed"]
  /\ UNCHANGED <<cmd, result, held, seen, wrote, base, lastId, tables>>

\* InTx: Begin on a pooled connection.
Begin(r) ==
  /\ pc[r] = "idle"
  /\ InputError(cmd[r]) = "none"
  /\ pc' = [pc EXCEPT ![r] = "claim"]
  /\ UNCHANGED <<cmd, resp, result, held, seen, wrote, base, lastId, tables>>

\* Variant: a claim that looks at committed rows only.
ClaimKeyNoWait(r) ==
  /\ pc[r] = "claim" /\ resp[r] = "pending"
  /\ LET taken == \E row \in keyRows : row.key = cmd[r].key IN
       /\ wrote' = [wrote EXCEPT ![r] = IF taken THEN @ ELSE @ \cup {"claim"}]
       /\ pc' = [pc EXCEPT ![r] = IF taken THEN "load" ELSE "lock1"]
  /\ UNCHANGED <<cmd, resp, result, held, seen, base, lastId, tables>>

\* INSERT ... ON CONFLICT DO NOTHING, once no other session has the key open.
\* The next statement is sent only by a handler that is still there.
ClaimKey(r) ==
  /\ pc[r] = "claim"
  /\ \A q \in Requests : ~ WaitsForKey(r, q)
  /\ LET taken == \E row \in keyRows : row.key = cmd[r].key IN
       /\ wrote' = [wrote EXCEPT ![r] = IF taken THEN @ ELSE @ \cup {"claim"}]
       /\ pc' = [pc EXCEPT ![r] = IF resp[r] # "pending" THEN "rollback"
                                  ELSE IF taken THEN "load" ELSE "lock1"]
  /\ UNCHANGED <<cmd, resp, result, held, seen, base, lastId, tables>>

\* replay on the row that LoadKey read; a refusal leaves the transaction to
\* be rolled back.
ReplayFrom(r, row) ==
  LET out == ReplayOutcome(row, cmd[r]) IN
  /\ resp' = [resp EXCEPT ![r] = IF out = "ok" THEN @ ELSE out]
  /\ result' = [result EXCEPT ![r] = IF out = "ok" THEN row.transfer ELSE @]
  /\ pc' = [pc EXCEPT ![r] = IF out = "ok" THEN "commit" ELSE "rollback"]

Replay(r) ==
  /\ pc[r] = "load" /\ resp[r] = "pending"
  /\ \E row \in keyRows : row.key = cmd[r].key /\ ReplayFrom(r, row)
  /\ UNCHANGED <<cmd, held, seen, wrote, base, lastId, tables>>

\* Variants of the lock batch: a first SELECT that does not wait, and no SELECT
\* of the second row.
LockFirstNoWait(r) ==
  /\ pc[r] = "lock1"
  /\ held' = [held EXCEPT ![r] = @ \cup ({Ids(r)[1]} \cap Accounts)]
  /\ pc' = [pc EXCEPT ![r] = "lock2"]
  /\ UNCHANGED <<cmd, resp, result, seen, wrote, base, lastId, tables>>

LockSecondSkipped(r) ==
  /\ pc[r] = "lock2"
  /\ pc' = [pc EXCEPT ![r] = "sum"]
  /\ UNCHANGED <<cmd, resp, result, held, seen, wrote, base, lastId, tables>>

\* The three statements of the lock batch, which the server runs in order.
\* An id without an account row locks nothing and is noticed in Decide.
LockFirst(r) ==
  /\ pc[r] = "lock1"
  /\ \A q \in Requests : ~ WaitsForRow(r, q)
  /\ held' = [held EXCEPT ![r] = @ \cup ({Ids(r)[1]} \cap Accounts)]
  /\ pc' = [pc EXCEPT ![r] = "lock2"]
  /\ UNCHANGED <<cmd, resp, result, seen, wrote, base, lastId, tables>>

LockSecond(r) ==
  /\ pc[r] = "lock2"
  /\ \A q \in Requests : ~ WaitsForRow(r, q)
  /\ held' = [held EXCEPT ![r] = @ \cup ({Ids(r)[2]} \cap Accounts)]
  /\ pc' = [pc EXCEPT ![r] = "sum"]
  /\ UNCHANGED <<cmd, resp, result, seen, wrote, base, lastId, tables>>

\* READ COMMITTED: the sum is over what is committed when it runs.
ReadBalance(r) ==
  /\ pc[r] = "sum"
  /\ seen' = [seen EXCEPT ![r] = Balance(entries, cmd[r].from)]
  /\ pc' = [pc EXCEPT ![r] = "decide"]
  /\ UNCHANGED <<cmd, resp, result, held, wrote, base, lastId, tables>>

\* Execute after the lock batch: existence, CanDebit, then the insert batch,
\* whose two entries draw ids from the sequence (never given back).
Refuse(r, why) ==
  /\ resp' = [resp EXCEPT ![r] = why]
  /\ pc' = [pc EXCEPT ![r] = "rollback"]
  /\ UNCHANGED <<wrote, base, lastId>>

InsertEntries(r) ==
  /\ wrote' = [wrote EXCEPT ![r] = @ \cup {"entries"}]
  /\ base' = [base EXCEPT ![r] = lastId]
  /\ lastId' = lastId + 2
  /\ pc' = [pc EXCEPT ![r] = "event"]
  /\ UNCHANGED resp

Decide(r) ==
  /\ pc[r] = "decide" /\ resp[r] = "pending"
  /\ IF ~ AccountsExist(cmd[r])
     THEN Refuse(r, "account_not_found")
     ELSE IF ~ CanDebit(seen[r], cmd[r].amount, cmd[r].from)
          THEN Refuse(r, "insufficient_funds")
          ELSE InsertEntries(r)
  /\ UNCHANGED <<cmd, result, held, seen, tables>>

\* Variant: the event is left to a step outside the transaction.
AppendEventLater(r) ==
  /\ pc[r] = "event" /\ resp[r] = "pending"
  /\ pc' = [pc EXCEPT ![r] = "complete"]
  /\ UNCHANGED <<cmd, resp, result, held, seen, wrote, base, lastId, tables>>

\* The outbox row, in the same transaction as the entries.
AppendEvent(r) ==
  /\ pc[r] = "event" /\ resp[r] = "pending"
  /\ wrote' = [wrote EXCEPT ![r] = @ \cup {"event"}]
  /\ pc' = [pc EXCEPT ![r] = "complete"]
  /\ UNCHANGED <<cmd, resp, result, held, seen, base, lastId, tables>>

\* The UPDATE must hit exactly the row this transaction inserted.
CompleteKey(r) ==
  /\ pc[r] = "complete" /\ resp[r] = "pending"
  /\ "claim" \in wrote[r]
  /\ wrote' = [wrote EXCEPT ![r] = @ \cup {"response"}]
  /\ pc' = [pc EXCEPT ![r] = "commit"]
  /\ UNCHANGED <<cmd, resp, result, held, seen, base, lastId, tables>>

\* The server applies the COMMIT: every write of the transaction becomes
\* visible and every lock is released, whether or not the handler is there.
Commit(r) ==
  /\ pc[r] = "commit"
  /\ entries' = IF "entries" \in wrote[r]
                THEN entries \o EntryPair(r, cmd[r].from, cmd[r].to, cmd[r].amount, base[r])
                ELSE entries
  /\ keyRows' = IF "claim" \in wrote[r] THEN keyRows \cup {KeyRow(r)} ELSE keyRows
  /\ outbox' = IF "event" \in wrote[r]
               THEN outbox \cup {[event |-> r, transfer |-> r]} ELSE outbox
  /\ held' = [held EXCEPT ![r] = {}]
  /\ pc' = [pc EXCEPT ![r] = IF resp[r] = "pending" THEN "committed" ELSE "closed"]
  /\ UNCHANGED <<cmd, resp, result, seen, wrote, base, lastId>>

\* InTx returned nil: Transfer returns its own or the replayed result.
Return(r) ==
  /\ pc[r] = "committed"
  /\ resp' = [resp EXCEPT ![r] = IF "claim" \in wrote[r] THEN "created" ELSE "replayed"]
  /\ pc' = [pc EXCEPT ![r] = "closed"]
  /\ UNCHANGED <<cmd, result, held, seen, wrote, base, lastId, tables>>

\* The handler is gone or gets an error from the driver: the deadline of
\* withAcquireTimeout, a cancelled request, a lost connection, a killed
\* process.  The caller does not learn what became of the transaction.
Abandon(r) ==
  /\ pc[r] \in Statements \cup {"committed"} /\ resp[r] = "pending"
  /\ resp' = [resp EXCEPT ![r] = "unknown"]
  /\ pc' = [pc EXCEPT ![r] = IF @ = "committed" THEN "closed" ELSE @]
  /\ UNCHANGED <<cmd, result, held, seen, wrote, base, lastId, tables>>

\* The server ends a transaction that was not committed: nothing it wrote
\* is ever visible, and its locks are released.
Rollback(r) ==
  /\ Open(r) /\ resp[r] # "pending"
  /\ held' = [held EXCEPT ![r] = {}]
  /\ wrote' = [wrote EXCEPT ![r] = {}]
  /\ pc' = [pc EXCEPT ![r] = "closed"]
  /\ UNCHANGED <<cmd, resp, result, seen, base, lastId, tables>>

\* What the handler and the server do for r once the request has arrived.
Progress(r) ==
  \/ ClaimKey(r) \/ Replay(r) \/ LockFirst(r) \/ LockSecond(r)
  \/ ReadBalance(r) \/ Decide(r) \/ AppendEvent(r) \/ CompleteKey(r)
  \/ Commit(r) \/ Return(r) \/ Rollback(r)

\* Every request has been answered and every session has ended.
AllClosed ==
  /\ \A r \in Requests : pc[r] = "closed"
  /\ UNCHANGED vars

Next ==
  \/ \E r \in Requests : RejectInput(r) \/ Begin(r) \/ Progress(r) \/ Abandon(r)
  \/ AllClosed

Spec == Init /\ [][Next]_vars

\* The scheduler runs every handler and every session; arrivals and failures
\* are not assumed.
Fairness == \A r \in Requests : WF_vars(Progress(r))

-----------------------------------------------------------------------------
\* Rows, locks and sessions have their types; only existing accounts are
\* locked.
TypeOK ==
  /\ cmd \in [Requests -> Commands]
  /\ pc \in [Requests -> Statements \cup {"idle", "rollback", "committed", "closed"}]
  /\ resp \in [Requests -> Answers \cup Refusals \cup {"pending", "unknown"}]
  /\ result \in [Requests -> Transfers]
  /\ held \in [Requests -> SUBSET Accounts]
  /\ seen \in [Requests -> Int]
  /\ wrote \in [Requests -> SUBSET {"claim", "entries", "event", "response"}]
  /\ base \in [Requests -> Nat] /\ lastId \in Nat
  /\ entries \in Seq(Entry)
  /\ keyRows \subseteq StoredKeys
  /\ outbox \subseteq [event : Requests, transfer : Requests]

\* No customer account is ever negative, however transfers, deposits and
\* withdrawals interleave and whatever fails (CanDebit under the row locks).
NonNegative == \A a \in Customers : Balance(entries, a) >= 0

\* The rows of transfer t are exactly its debit and its credit.
MovedOnce(t, f) ==
  LET mine == {i \in 1 .. Len(entries) : entries[i].transfer = t} IN
    \E i, j \in mine :
      /\ mine = {i, j} /\ i # j
      /\ entries[i].account = f.from /\ entries[i].amount = -f.amount
      /\ entries[j].account = f.to /\ entries[j].amount = f.amount

\* Money, key and event stand or fall together, once per key: committed keys
\* are unique and completed, each has moved the money its body asked for
\* exactly once and has exactly one event, and nothing else moved or was
\* announced (one transaction in Transfer; retries, races and lost answers
\* change nothing).
ExactlyOnce ==
  /\ \A x, y \in keyRows : x.key = y.key => x = y
  /\ \A x \in keyRows : x.state = "completed" /\ MovedOnce(x.transfer, x.fingerprint)
  /\ LET ids == {x.transfer : x \in keyRows} IN
       /\ {entries[i].transfer : i \in 1 .. Len(entries)} = ids
       /\ {o.transfer : o \in outbox} = ids
       /\ Cardinality(outbox) = Cardinality(keyRows)

\* An answer tells the truth about the committed state: success names the
\* transfer that this key and this body made, a key reuse names a key that
\* another body took, a refused request has moved nothing, and nobody is
\* ever told that the key is in flight, since the claim waits (ClaimKey,
\* replay).
TruthfulAnswers ==
  \A r \in Requests :
    LET mine == {x \in keyRows : x.key = cmd[r].key} IN
    /\ resp[r] \in Answers =>
         \E x \in mine : /\ x.transfer = result[r]
                         /\ x.fingerprint = Fingerprint(cmd[r])
                         /\ (resp[r] = "created") <=> (x.transfer = r)
    /\ resp[r] = "idempotency_key_reuse" =>
         \E x \in mine : x.fingerprint # Fingerprint(cmd[r])
    /\ resp[r] \in Refusals => \A x \in mine : x.transfer # r
    /\ resp[r] # "request_in_flight"

\* Sessions never wait for each other in a circle (lockOrder; a session that
\* waits for a key holds no row).
NoWaitCycle ==
  \A S \in (SUBSET Requests) \ {{}} :
    \E r \in S : \A q \in S : ~ WaitsFor(r, q)

\* The session has read the source balance and may still act on it.
Relying(r) ==
  \/ pc[r] \in {"decide", "event", "complete"}
  \/ pc[r] = "commit" /\ "entries" \in wrote[r]

\* A row has one holder, and from the balance read until its transaction ends
\* a session holds both accounts, so the balance that CanDebit judged is
\* still the committed one when the transaction commits.
FreshBalance ==
  \A r \in Requests :
    /\ \A q \in Requests \ {r} : held[r] \cap held[q] = {}
    /\ Relying(r) => /\ {cmd[r].from, cmd[r].to} \cap Accounts \subseteq held[r]
                     /\ seen[r] = Balance(entries, cmd[r].from)

\* A transaction that began ends, with no help from deadlines: the waits are
\* finite.
TransactionsEnd == \A r \in Requests : pc[r] = "claim" ~> pc[r] = "closed"

\* The sums over the ledger behave like a stored balance, and the concurrent
\* transactions like instantaneous transfers: the contract of the API.
Contract == INSTANCE WalletContract WITH
  balance   <- [a \in Accounts |-> Balance(entries, a)],
  done      <- keyRows,
  announced <- {o.transfer : o \in outbox},
  answer    <- [r \in Requests |-> IF resp[r] \in Answers THEN "answered" ELSE resp[r]],
  receipts  <- {<<r, result[r]>> : r \in {q \in Requests : resp[q] \in Answers}}

ImplementsContract == Contract!Spec
=============================================================================
