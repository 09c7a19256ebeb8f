------------------------- MODULE SerializableTransfer -------------------------
(***************************************************************************)
(* TransferService.Transfer over the serializable executor: no row locks,  *)
(* every attempt is a SERIALIZABLE transaction on its own snapshot, and    *)
(* InTx runs the whole use case again when Postgres aborts an attempt with *)
(* SQLSTATE 40001 or 40P01, up to MaxAttempts times.  Each attempt draws a *)
(* fresh transfer id <<r, n>>.                                             *)
(*                                                                         *)
(* Postgres is modelled by what SERIALIZABLE guarantees, not by how it     *)
(* tracks conflicts: a commit that would leave no serial order of the      *)
(* committed transfers is impossible, and any attempt may be aborted.      *)
(***************************************************************************)
EXTENDS TransferService

CONSTANT MaxAttempts  \* attempts of one InTx (defaultMaxAttempts)

ASSUME AttemptsAssumption ==
  /\ MaxAttempts \in Nat \ {0}
  /\ Transfers = Requests \X (1 .. MaxAttempts)

VARIABLES
  cmd,      \* cmd[r]: the command of request r
  pc,       \* pc[r]: the statement that r's transaction runs next
  resp,     \* resp[r]: what Transfer returned, "pending" until it does
  result,   \* result[r]: the transfer id r returns when it succeeds
  attempt,  \* attempt[r]: the number of the current attempt
  snap,     \* snap[r]: how much of the ledger r's snapshot shows
  seen,     \* seen[r]: the source balance that r read
  wrote,    \* wrote[r]: the uncommitted writes of r's transaction
  base,     \* base[r]: the entry sequence just before r's two inserts
  lastId,   \* last value drawn from the BIGSERIAL of entries
  entries,  \* committed ledger entries, in commit order
  keyRows,  \* committed rows of idempotency_keys
  outbox    \* committed rows of outbox

tables == <<entries, keyRows, outbox>>
vars == <<cmd, pc, resp, result, attempt, snap, seen, wrote, base, lastId,
          entries, keyRows, outbox>>

-----------------------------------------------------------------------------
Statements == {"claim", "load", "read", "decide", "event", "complete", "commit"}

Open(r) == pc[r] \in Statements \cup {"rollback"}

\* uuid.New() inside fn: a new transfer id for every attempt.
TransferId(r) == <<r, attempt[r]>>

KeyRow(r) ==
  StoredKey(cmd[r], TransferId(r),
            IF "response" \in wrote[r] THEN "completed" ELSE "in_flight")

\* r's snapshot shows the committed transfer t.
Shows(r, t) == \E i \in 1 .. snap[r] : entries[i].transfer = t

Committed == {entries[i].transfer[1] : i \in 1 .. Len(entries)}

SeesRequest(r, q) == \E i \in 1 .. snap[r] : entries[i].transfer[1] = q

\* In any serial order x comes before y: y read an account that x wrote and
\* saw it, or x read an account that y writes and did not see it.  A transfer
\* reads the entries of its source and writes to both accounts.
MustPrecede(x, y) ==
  \/ SeesRequest(y, x) /\ cmd[y].from \in {cmd[x].from, cmd[x].to}
  \/ ~ SeesRequest(x, y) /\ cmd[x].from \in {cmd[y].from, cmd[y].to}

\* What SERIALIZABLE promises of the set of committed transfers.
Serializable(C) ==
  \E pos \in [C -> 1 .. Cardinality(C)] :
    \A x, y \in C : x # y /\ MustPrecede(x, y) => pos[x] < pos[y]

WaitsForKey(r, q) ==
  /\ q # r /\ pc[r] = "claim"
  /\ Open(q) /\ "claim" \in wrote[q] /\ cmd[q].key = cmd[r].key

-----------------------------------------------------------------------------
Init ==
  /\ cmd \in [Requests -> Commands]
  /\ pc = [r \in Requests |-> "idle"]
  /\ resp = [r \in Requests |-> "pending"]
  /\ result = [r \in Requests |-> <<r, 1>>]
  /\ attempt = [r \in Requests |-> 1]
  /\ snap = [r \in Requests |-> 0]
  /\ seen = [r \in Requests |-> 0]
  /\ wrote = [r \in Requests |-> {}]
  /\ base = [r \in Requests |-> 0]
  /\ lastId = 0
  /\ entries = << >>
  /\ keyRows = {}
  /\ outbox = {}

RejectInput(r) ==
  /\ pc[r] = "idle"
  /\ InputError(cmd[r]) # "none"
  /\ resp' = [resp EXCEPT ![r] = InputError(cmd[r])]
  /\ pc' = [pc EXCEPT ![r] = "closed"]
  /\ UNCHANGED <<cmd, result, attempt, snap, seen, wrote, base, lastId, tables>>

\* Variant: the result of the first attempt survives into the next one.
StartAttemptStale(r) ==
  /\ pc' = [pc EXCEPT ![r] = "claim"]
  /\ snap' = [snap EXCEPT ![r] = Len(entries)]
  /\ UNCHANGED <<cmd, resp, result, attempt, seen, wrote, base, lastId, tables>>

\* BeginTx and the start of the claim, whose statement takes the snapshot.
\* fn starts by clearing the result.
StartAttempt(r) ==
  /\ pc' = [pc EXCEPT ![r] = "claim"]
  /\ snap' = [snap EXCEPT ![r] = Len(entries)]
  /\ result' = [result EXCEPT ![r] = TransferId(r)]
  /\ UNCHANGED <<cmd, resp, attempt, seen, wrote, base, lastId, tables>>

Begin(r) == pc[r] = "idle" /\ InputError(cmd[r]) = "none" /\ StartAttempt(r)

\* sleepBackoff returned: the next attempt.
Retry(r) == pc[r] = "backoff" /\ StartAttempt(r)

\* Variant: a claim that trusts its snapshot.
ClaimKeySnapshot(r) ==
  /\ pc[r] = "claim" /\ resp[r] = "pending"
  /\ LET taken == \E row \in keyRows : row.key = cmd[r].key /\ Shows(r, row.transfer) IN
       /\ wrote' = [wrote EXCEPT ![r] = IF taken THEN @ ELSE @ \cup {"claim"}]
       /\ pc' = [pc EXCEPT ![r] = IF taken THEN "load" ELSE "read"]
  /\ UNCHANGED <<cmd, resp, result, attempt, snap, seen, base, lastId, tables>>

\* The insert waits for an open claim of the same key.  A committed row that
\* the snapshot does not show cannot be skipped over: that attempt can only
\* end in Conflict.
ClaimKey(r) ==
  /\ pc[r] = "claim"
  /\ \A q \in Requests : ~ WaitsForKey(r, q)
  /\ \A row \in keyRows : row.key = cmd[r].key => Shows(r, row.transfer)
  /\ LET taken == \E row \in keyRows : row.key = cmd[r].key IN
       /\ wrote' = [wrote EXCEPT ![r] = IF taken THEN @ ELSE @ \cup {"claim"}]
       /\ pc' = [pc EXCEPT ![r] = IF resp[r] # "pending" THEN "rollback"
                                  ELSE IF taken THEN "load" ELSE "read"]
  /\ UNCHANGED <<cmd, resp, result, attempt, snap, seen, base, lastId, tables>>

ReplayFrom(r, row) ==
  LET out == ReplayOutcome(row, cmd[r]) IN
  /\ resp' = [resp EXCEPT ![r] = IF out = "ok" THEN @ ELSE out]
  /\ result' = [result EXCEPT ![r] = IF out = "ok" THEN row.transfer ELSE @]
  /\ pc' = [pc EXCEPT ![r] = IF out = "ok" THEN "commit" ELSE "rollback"]

Replay(r) ==
  /\ pc[r] = "load" /\ resp[r] = "pending"
  /\ \E row \in keyRows : row.key = cmd[r].key /\ ReplayFrom(r, row)
  /\ UNCHANGED <<cmd, attempt, snap, seen, wrote, base, lastId, tables>>

\* The read batch: kinds and source balance, all from the snapshot.
ReadBatch(r) ==
  /\ pc[r] = "read"
  /\ seen' = [seen EXCEPT ![r] = Balance(SubSeq(entries, 1, snap[r]), cmd[r].from)]
  /\ pc' = [pc EXCEPT ![r] = "decide"]
  /\ UNCHANGED <<cmd, resp, result, attempt, snap, wrote, base, lastId, tables>>

Refuse(r, why) ==
  /\ resp' = [resp EXCEPT ![r] = why]
  /\ pc' = [pc EXCEPT ![r] = "rollback"]
  /\ UNCHANGED <<wrote, base, lastId>>

InsertEntries(r) ==
  /\ wrote' = [wrote EXCEPT ![r] = @ \cup {"entries"}]
  /\ base' = [base EXCEPT ![r] = lastId]
  /\ lastId' = lastId + 2
  /\ pc' = [pc EXCEPT ![r] = "event"]
  /\ UNCHANGED resp

\* Execute after the read batch; a domain error is not retried.
Decide(r) ==
  /\ pc[r] = "decide" /\ resp[r] = "pending"
  /\ IF ~ AccountsExist(cmd[r])
     THEN Refuse(r, "account_not_found")
     ELSE IF ~ CanDebit(seen[r], cmd[r].amount, cmd[r].from)
          THEN Refuse(r, "insufficient_funds")
          ELSE InsertEntries(r)
  /\ UNCHANGED <<cmd, result, attempt, snap, seen, tables>>

AppendEvent(r) ==
  /\ pc[r] = "event" /\ resp[r] = "pending"
  /\ wrote' = [wrote EXCEPT ![r] = @ \cup {"event"}]
  /\ pc' = [pc EXCEPT ![r] = "complete"]
  /\ UNCHANGED <<cmd, resp, result, attempt, snap, seen, base, lastId, tables>>

CompleteKey(r) ==
  /\ pc[r] = "complete" /\ resp[r] = "pending"
  /\ "claim" \in wrote[r]
  /\ wrote' = [wrote EXCEPT ![r] = @ \cup {"response"}]
  /\ pc' = [pc EXCEPT ![r] = "commit"]
  /\ UNCHANGED <<cmd, resp, result, attempt, snap, seen, base, lastId, tables>>

\* Variant: the transaction began at REPEATABLE READ.
CommitSnapshotOnly(r) ==
  /\ pc[r] = "commit"
  /\ entries' = IF "entries" \in wrote[r]
                THEN entries \o EntryPair(TransferId(r), cmd[r].from, cmd[r].to,
                                          cmd[r].amount, base[r])
                ELSE entries
  /\ keyRows' = IF "claim" \in wrote[r] THEN keyRows \cup {KeyRow(r)} ELSE keyRows
  /\ outbox' = IF "event" \in wrote[r]
               THEN outbox \cup {[event |-> r, transfer |-> TransferId(r)]} ELSE outbox
  /\ pc' = [pc EXCEPT ![r] = IF resp[r] = "pending" THEN "committed" ELSE "closed"]
  /\ UNCHANGED <<cmd, resp, result, attempt, snap, seen, wrote, base, lastId>>

\* The COMMIT takes effect, if the result is still serializable.
Commit(r) ==
  /\ pc[r] = "commit"
  /\ "entries" \in wrote[r] => Serializable(Committed \cup {r})
  /\ entries' = IF "entries" \in wrote[r]
                THEN entries \o EntryPair(TransferId(r), cmd[r].from, cmd[r].to,
                                          cmd[r].amount, base[r])
                ELSE entries
  /\ keyRows' = IF "claim" \in wrote[r] THEN keyRows \cup {KeyRow(r)} ELSE keyRows
  /\ outbox' = IF "event" \in wrote[r]
               THEN outbox \cup {[event |-> r, transfer |-> TransferId(r)]} ELSE outbox
  /\ pc' = [pc EXCEPT ![r] = IF resp[r] = "pending" THEN "committed" ELSE "closed"]
  /\ UNCHANGED <<cmd, resp, result, attempt, snap, seen, wrote, base, lastId>>

Return(r) ==
  /\ pc[r] = "committed"
  /\ resp' = [resp EXCEPT ![r] = IF "claim" \in wrote[r] THEN "created" ELSE "replayed"]
  /\ pc' = [pc EXCEPT ![r] = "closed"]
  /\ UNCHANGED <<cmd, result, attempt, snap, seen, wrote, base, lastId, tables>>

\* An aborted transaction takes its snapshot, reads and writes with it.
EndTx(r) ==
  /\ wrote' = [wrote EXCEPT ![r] = {}]
  /\ snap' = [snap EXCEPT ![r] = 0]
  /\ seen' = [seen EXCEPT ![r] = 0]
  /\ base' = [base EXCEPT ![r] = 0]

\* Variants of the retry loop: one attempt too many, and attempts that are
\* never counted.
ConflictOneMore(r) ==
  /\ pc[r] \in Statements /\ resp[r] = "pending"
  /\ EndTx(r)
  /\ IF attempt[r] > MaxAttempts
     THEN /\ resp' = [resp EXCEPT ![r] = "concurrency_conflict"]
          /\ pc' = [pc EXCEPT ![r] = "closed"]
          /\ UNCHANGED attempt
     ELSE /\ attempt' = [attempt EXCEPT ![r] = @ + 1]
          /\ pc' = [pc EXCEPT ![r] = "backoff"]
          /\ UNCHANGED resp
  /\ UNCHANGED <<cmd, result, lastId, tables>>

ConflictUncounted(r) ==
  /\ pc[r] \in Statements /\ resp[r] = "pending"
  /\ EndTx(r)
  /\ pc' = [pc EXCEPT ![r] = "backoff"]
  /\ UNCHANGED <<cmd, resp, result, attempt, lastId, tables>>

\* Postgres aborts the attempt with a retryable SQLSTATE: nothing of it is
\* ever visible.  InTx backs off and tries again, or gives up.
Conflict(r) ==
  /\ pc[r] \in Statements /\ resp[r] = "pending"
  /\ EndTx(r)
  /\ IF attempt[r] >= MaxAttempts
     THEN /\ resp' = [resp EXCEPT ![r] = "concurrency_conflict"]
          /\ pc' = [pc EXCEPT ![r] = "closed"]
          /\ UNCHANGED attempt
     ELSE /\ attempt' = [attempt EXCEPT ![r] = @ + 1]
          /\ pc' = [pc EXCEPT ![r] = "backoff"]
          /\ UNCHANGED resp
  /\ UNCHANGED <<cmd, result, lastId, tables>>

\* Variant: a lost connection is taken for a serialization failure.
AbandonAsConflict(r) ==
  /\ pc[r] \in Statements \cup {"committed", "backoff"} /\ resp[r] = "pending"
  /\ resp' = [resp EXCEPT ![r] = "concurrency_conflict"]
  /\ pc' = [pc EXCEPT ![r] = IF @ \in {"committed", "backoff"} THEN "closed" ELSE @]
  /\ UNCHANGED <<cmd, result, attempt, snap, seen, wrote, base, lastId, tables>>

\* Deadline, cancelled request, lost connection or killed process: an error
\* that isSerializationFailure does not match, so it is not retried.
Abandon(r) ==
  /\ pc[r] \in Statements \cup {"committed", "backoff"} /\ resp[r] = "pending"
  /\ resp' = [resp EXCEPT ![r] = "unknown"]
  /\ pc' = [pc EXCEPT ![r] = IF @ \in {"committed", "backoff"} THEN "closed" ELSE @]
  /\ UNCHANGED <<cmd, result, attempt, snap, seen, wrote, base, lastId, tables>>

Rollback(r) ==
  /\ Open(r) /\ resp[r] # "pending"
  /\ EndTx(r)
  /\ pc' = [pc EXCEPT ![r] = "closed"]
  /\ UNCHANGED <<cmd, resp, result, attempt, lastId, tables>>

Progress(r) ==
  \/ Retry(r) \/ ClaimKey(r) \/ Replay(r) \/ ReadBatch(r) \/ Decide(r)
  \/ AppendEvent(r) \/ CompleteKey(r) \/ Commit(r) \/ Return(r)
  \/ Conflict(r) \/ Rollback(r)

AllClosed ==
  /\ \A r \in Requests : pc[r] = "closed"
  /\ UNCHANGED vars

Next ==
  \/ \E r \in Requests : RejectInput(r) \/ Begin(r) \/ Progress(r) \/ Abandon(r)
  \/ AllClosed

Spec == Init /\ [][Next]_vars

\* The scheduler runs every handler and every session; arrivals and failures
\* are not assumed.
Fairness == \A r \in Requests : WF_vars(Progress(r))

-----------------------------------------------------------------------------
\* Rows and sessions have their types.
TypeOK ==
  /\ cmd \in [Requests -> Commands]
  /\ pc \in [Requests -> Statements \cup {"idle", "backoff", "rollback", "committed", "closed"}]
  /\ resp \in [Requests -> Answers \cup Refusals
                           \cup {"pending", "unknown", "concurrency_conflict"}]
  /\ result \in [Requests -> Transfers]
  /\ attempt \in [Requests -> 1 .. MaxAttempts]
  /\ snap \in [Requests -> 0 .. Len(entries)]
  /\ seen \in [Requests -> Int]
  /\ wrote \in [Requests -> SUBSET {"claim", "entries", "event", "response"}]
  /\ base \in [Requests -> Nat] /\ lastId \in Nat
  /\ entries \in Seq(Entry)
  /\ keyRows \subseteq StoredKeys
  /\ outbox \subseteq [event : Requests, transfer : Transfers]

\* No customer account is negative in any committed prefix of the ledger,
\* although every attempt decides on a snapshot that may be out of date.
NonNegative == \A a \in Customers : Balance(entries, a) >= 0

\* A key moves money once, however many attempts the requests that carry it
\* make: one completed row, two entries and one event for each key used, and
\* no request commits more than one of its attempts.
ExactlyOnce ==
  /\ \A x, y \in keyRows : x.key = y.key \/ x.transfer[1] = y.transfer[1] => x = y
  /\ LET ids == {x.transfer : x \in keyRows} IN
       /\ \A x \in keyRows : x.state = "completed"
       /\ \A t \in ids : Cardinality({i \in 1 .. Len(entries) : entries[i].transfer = t}) = 2
       /\ Len(entries) = 2 * Cardinality(ids)
       /\ {o.transfer : o \in outbox} = ids /\ Cardinality(outbox) = Cardinality(ids)

\* Success names the transfer that this key and this body made, in whichever
\* attempt it was; no result of an aborted attempt is ever returned.
TruthfulAnswers ==
  \A r \in Requests :
    resp[r] \in Answers =>
      \E x \in keyRows : /\ x.key = cmd[r].key /\ x.transfer = result[r]
                         /\ x.fingerprint = Fingerprint(cmd[r])
                         /\ (resp[r] = "created") <=> (x.transfer[1] = r)

\* ErrConcurrencyConflict and every refusal mean that nothing was committed
\* and nothing will be: the request is safe to send again.
ConflictCommitsNothing ==
  \A r \in Requests :
    resp[r] \in Refusals \cup {"concurrency_conflict"} =>
      /\ r \notin Committed
      /\ \A x \in keyRows : x.transfer[1] # r

\* Every call of Transfer returns and its transaction ends: the attempts are
\* bounded and no wait is for ever.
RequestsEnd == \A r \in Requests : pc[r] = "claim" ~> pc[r] = "closed"

\* The attempts behave like instantaneous transfers on stored balances.  A
\* refusal is decided on the snapshot, so the contract takes it only as an
\* answer that promises nothing.
Contract == INSTANCE WalletContract WITH
  balance   <- [a \in Accounts |-> Balance(entries, a)],
  done      <- keyRows,
  announced <- {o.transfer : o \in outbox},
  answer    <- [r \in Requests |-> IF resp[r] \in Answers THEN "answered"
                                   ELSE IF resp[r] = "pending" THEN "pending" ELSE "unknown"],
  receipts  <- {<<r, result[r]>> : r \in {q \in Requests : resp[q] \in Answers}}

ImplementsContract == Contract!Spec
=============================================================================
