---------------------------- MODULE LockingAnswers ----------------------------
(***************************************************************************)
(* What the locking strategy stores and what it tells its callers, for any *)
(* set of accounts, requests and commands: each key moves money and has an *)
(* event once, every answer agrees with the committed rows, sessions never *)
(* wait in a circle, statements read page by page are whole, and machine   *)
(* arithmetic decides as true sums do.                                     *)
(***************************************************************************)
EXTENDS LockingProofs, LockingStatement, LockingMoney

\* The request that made a stored row has committed it, and was told so, was
\* told nothing definite, or is still to be told.
Made(x) ==
  /\ x.transfer \in Requests
  /\ pc[x.transfer] \in {"committed", "closed"}
  /\ pc[x.transfer] = "committed" => "claim" \in wrote[x.transfer]
  /\ resp[x.transfer] \in {"pending", "unknown", "created"}

Authors == \A x \in keyRows : Made(x)

\* TruthfulAnswers of one request, without what Authors already says.
Told(r) ==
  /\ resp[r] \in Answers =>
       \E x \in keyRows : /\ x.key = cmd[r].key
                          /\ x.transfer = result[r]
                          /\ x.fingerprint = Fingerprint(cmd[r])
                          /\ (resp[r] = "created") <=> (x.transfer = r)
  /\ resp[r] = "idempotency_key_reuse" =>
       \E x \in keyRows : x.key = cmd[r].key /\ x.fingerprint # Fingerprint(cmd[r])
  /\ resp[r] # "request_in_flight"

\* The inductive invariant, on top of Safety and Bookkeeping.
Books ==
  /\ Authors
  /\ \A r \in Requests : Told(r)
  /\ IsFiniteSet(keyRows) /\ IsFiniteSet(outbox)
  /\ ExactlyOnce

-----------------------------------------------------------------------------
LEMMA InitBooks == Init => Books
<1> SUFFICES ASSUME Init PROVE Books
  BY Zenon
<1>1. Authors /\ \A r \in Requests : Told(r)
  BY Zenon DEF Init, Authors, Told, Answers
<1>2. keyRows = {} /\ outbox = {} /\ entries = << >>
  BY DEF Init
<1>3. 1 .. Len(entries) = {}
  BY <1>2
<1>4. ExactlyOnce
  BY <1>2, <1>3, Zenon DEF ExactlyOnce
<1> QED
  BY <1>1, <1>2, <1>4, FS_EmptySet DEF Books

\* A commit that adds a row adds the first one of its key and of its request.
LEMMA CommitIsNew ==
  ASSUME Safety, Bookkeeping, Authors, NEW r \in Requests, Commit(r),
         wrote[r] = {"claim", "entries", "event", "response"}
  PROVE  /\ \A x \in keyRows : x.key # cmd[r].key /\ x.transfer # r
         /\ pc'[r] \in {"committed", "closed"} /\ wrote'[r] = wrote[r]
         /\ resp'[r] = resp[r] /\ resp[r] \in {"pending", "unknown"}
<1>1. TypeOK /\ Owned(r) /\ pc[r] = "commit"
  BY Zenon DEF Safety, Bookkeeping, Commit
<1>2. Claimed(r)
  BY <1>1, Zenon DEF Claimed, Open, Statements
<1>3. \A x \in keyRows : x.key # cmd[r].key
  BY <1>2, Zenon DEF Bookkeeping, KeysFree
<1>4. \A x \in keyRows : x.transfer # r
  BY <1>1 DEF Authors, Made
<1>5. resp[r] \in {"pending", "unknown"}
  BY <1>1, Zenon DEF Owned, Statements
<1> QED
  BY <1>1, <1>3, <1>4, <1>5, Zenon DEF TypeOK, Commit

\* The request of a stored row stays its author.
LEMMA MadeStep ==
  ASSUME Safety, Bookkeeping, NEW x, Made(x), NEW r \in Requests,
         RejectInput(r) \/ Begin(r) \/ Progress(r) \/ Abandon(r)
  PROVE  Made(x)'
<1>0. TypeOK /\ x.transfer \in Requests
  BY DEF Safety, Made
<1>1. CASE x.transfer # r
  BY <1>0, <1>1, Frame DEF Made
<1>2. CASE x.transfer = r
  <2>1. /\ r \in Requests /\ pc[r] \in {"committed", "closed"}
        /\ pc[r] = "committed" => "claim" \in wrote[r]
        /\ resp[r] \in {"pending", "unknown", "created"}
    BY <1>2 DEF Made
  <2>2. Return(r) \/ Abandon(r)
    BY <2>1, Zenon DEF Progress, RejectInput, Begin, ClaimKey, Replay, LockFirst, LockSecond,
       ReadBalance, Decide, AppendEvent, CompleteKey, Commit, Rollback, Open, Statements
  <2>3. pc'[r] = "closed" /\ resp'[r] \in {"unknown", "created"}
    <3>1. CASE Return(r)
      BY <1>0, <2>1, <3>1, Zenon DEF TypeOK, Return
    <3>2. CASE Abandon(r)
      BY <1>0, <2>1, <3>2, Zenon DEF TypeOK, Abandon, Statements
    <3> QED
      BY <2>2, <3>1, <3>2, Zenon
  <2> QED
    BY <1>2, <2>1, <2>3, Zenon DEF Made
<1> QED
  BY <1>1, <1>2, Zenon

LEMMA AuthorsStep ==
  ASSUME Safety, Bookkeeping, Authors, [Next]_vars
  PROVE  Authors'
<1>1. CASE UNCHANGED vars
  BY <1>1, Zenon DEF Authors, Made, vars
<1>2. ASSUME NEW r \in Requests, RejectInput(r) \/ Begin(r) \/ Progress(r) \/ Abandon(r)
      PROVE  Authors'
  <2>1. \A x \in keyRows : Made(x)'
    BY <1>2, MadeStep DEF Authors
  <2>2. CASE keyRows' = keyRows
    BY <2>1, <2>2, Zenon DEF Authors
  <2>3. CASE /\ Commit(r) /\ wrote[r] = {"claim", "entries", "event", "response"}
             /\ keyRows' = keyRows \cup {StoredKey(cmd[r], r, "completed")}
    <3>1. /\ pc'[r] \in {"committed", "closed"} /\ "claim" \in wrote'[r]
          /\ resp'[r] \in {"pending", "unknown"}
      BY <2>3, CommitIsNew
    <3>2. \A x \in keyRows' : x \in keyRows \/ x.transfer = r
      BY <2>3 DEF StoredKey
    <3>3. ASSUME NEW x, x.transfer = r PROVE Made(x)'
      BY <3>1, <3>3, Zenon DEF Made
    <3> QED
      BY <2>1, <3>2, <3>3, Zenon DEF Authors
  <2> QED
    BY <1>2, <2>2, <2>3, RowsStep, Zenon
<1> QED
  BY <1>1, <1>2, StepCases

\* What was told stays true as rows are added.
LEMMA ToldStays ==
  ASSUME NEW q \in Requests, Told(q), cmd' = cmd, resp'[q] = resp[q],
         resp[q] \in Answers => result'[q] = result[q], keyRows \subseteq keyRows'
  PROVE  Told(q)'
BY Zenon DEF Told

\* A refusal for any reason but the key needs no row.
LEMMA ToldRefused ==
  ASSUME NEW r \in Requests,
         resp'[r] \notin Answers \cup {"idempotency_key_reuse", "request_in_flight"}
  PROVE  Told(r)'
BY Zenon DEF Told

\* A step of r tells r the truth.
LEMMA OwnTold ==
  ASSUME Safety, Bookkeeping, Authors, NEW r \in Requests, Told(r),
         keyRows \subseteq keyRows',
         RejectInput(r) \/ Begin(r) \/ Progress(r) \/ Abandon(r)
  PROVE  Told(r)'
<1>0. TypeOK /\ Owned(r)
  BY Zenon DEF Safety, Bookkeeping
<1>1. CASE RejectInput(r)
  <2>1. resp'[r] = InputError(cmd[r]) /\ InputError(cmd[r]) \in {"invalid_amount", "same_account"}
    BY <1>0, <1>1, CommandFacts, Zenon DEF TypeOK, RejectInput
  <2> QED
    BY <2>1, ToldRefused, Zenon DEF Answers
<1>2. CASE Decide(r)
  <2>1. resp'[r] \in {"pending", "account_not_found", "insufficient_funds"}
    BY <1>0, <1>2, Zenon DEF TypeOK, Decide, Refuse, InsertEntries
  <2> QED
    BY <2>1, ToldRefused DEF Answers
<1>3. CASE Abandon(r)
  <2>1. resp'[r] = "unknown"
    BY <1>0, <1>3 DEF TypeOK, Abandon
  <2> QED
    BY <2>1, ToldRefused, Zenon DEF Answers
<1>4. CASE Replay(r)
  <2>1. PICK x \in keyRows : x.key = cmd[r].key /\ ReplayFrom(r, x)
    BY <1>4, Zenon DEF Replay
  <2>2. resp[r] = "pending" /\ keyRows' = keyRows /\ cmd' = cmd
    BY <1>4 DEF Replay, tables
  <2>3. x.state = "completed"
    BY Zenon DEF Bookkeeping, Announced
  <2>4. CASE ReplayOutcome(x, cmd[r]) = "ok"
    <3>1. resp'[r] = "pending"
      BY <1>0, <2>1, <2>2, <2>4 DEF TypeOK, ReplayFrom
    <3> QED
      BY <3>1, ToldRefused, Zenon DEF Answers
  <2>5. CASE ReplayOutcome(x, cmd[r]) # "ok"
    <3>1. ReplayOutcome(x, cmd[r]) = "idempotency_key_reuse" /\ x.fingerprint # Fingerprint(cmd[r])
      BY <2>3, <2>5 DEF ReplayOutcome
    <3>2. resp'[r] = "idempotency_key_reuse"
      BY <1>0, <2>1, <3>1, Zenon DEF TypeOK, ReplayFrom
    <3> QED
      BY <2>1, <2>2, <3>1, <3>2, Zenon DEF Told, Answers
  <2> QED
    BY <2>4, <2>5, Zenon
<1>5. CASE Return(r)
  <2>1. PICK x \in keyRows : /\ x.key = cmd[r].key /\ x.fingerprint = Fingerprint(cmd[r])
                             /\ x.transfer = result[r]
    BY <1>0, <1>5, Zenon DEF Owned, Return, RowFor
  <2>2. /\ keyRows' = keyRows /\ cmd' = cmd /\ result' = result
        /\ resp'[r] = IF "claim" \in wrote[r] THEN "created" ELSE "replayed"
    BY <1>0, <1>5, Zenon DEF TypeOK, Return, tables
  <2>3. "claim" \in wrote[r] => x.transfer = r
    BY <1>0, <2>1, Zenon DEF Owned
  <2>4. x.transfer = r => "claim" \in wrote[r]
    BY <1>5, Zenon DEF Return, Authors, Made
  <2> QED
    BY <2>1, <2>2, <2>3, <2>4, Zenon DEF Told
<1>6. CASE resp' = resp /\ result' = result /\ cmd' = cmd
  BY <1>6, ToldStays, Zenon
<1> QED
  BY <1>1, <1>2, <1>3, <1>4, <1>5, <1>6, Zenon DEF Progress, Begin, ClaimKey, LockFirst,
     LockSecond, ReadBalance, AppendEvent, CompleteKey, Commit, Rollback

LEMMA ToldStep ==
  ASSUME Safety, Bookkeeping, Books, [Next]_vars
  PROVE  \A r \in Requests : Told(r)'
<1>1. CASE UNCHANGED vars
  BY <1>1 DEF Books, Told, vars
<1>2. ASSUME NEW r \in Requests, RejectInput(r) \/ Begin(r) \/ Progress(r) \/ Abandon(r)
      PROVE  \A q \in Requests : Told(q)'
  <2>1. keyRows \subseteq keyRows'
    BY <1>2, RowsStep, Zenon
  <2>2. Told(r)'
    BY <1>2, <2>1, OwnTold DEF Books
  <2>3. ASSUME NEW q \in Requests, q # r PROVE Told(q)'
    <3>1. cmd' = cmd /\ resp'[q] = resp[q] /\ result'[q] = result[q]
      BY <1>2, <2>3, Frame, Zenon DEF Safety
    <3> QED
      BY <2>1, <3>1, ToldStays, Zenon DEF Books
  <2> QED
    BY <2>2, <2>3, Zenon
<1> QED
  BY <1>1, <1>2, StepCases, Zenon

-----------------------------------------------------------------------------
\* The commit that adds a row moves its money once and disturbs no other row.
LEMMA CommitMoves ==
  ASSUME Safety, NEW r \in Requests, Commit(r), "entries" \in wrote[r],
         r \notin {entries[i].transfer : i \in 1 .. Len(entries)}
  PROVE  /\ MovedOnce(r, Fingerprint(cmd[r]))'
         /\ \A t, f : t # r /\ MovedOnce(t, f) => MovedOnce(t, f)'
         /\ {entries'[i].transfer : i \in 1 .. Len(entries')} =
              {entries[i].transfer : i \in 1 .. Len(entries)} \cup {r}
<1> DEFINE m == Len(entries)
<1>1. /\ cmd[r].from \in Accounts /\ cmd[r].to \in Accounts /\ cmd[r].amount \in Int
      /\ entries \in Seq(Entry) /\ base[r] \in Nat /\ r \in Transfers /\ cmd' = cmd
      /\ entries' = entries \o EntryPair(r, cmd[r].from, cmd[r].to, cmd[r].amount, base[r])
  BY CommitBalances, RequestsAssumption, Zenon DEF Safety, TypeOK, Commit
<1>2. /\ Len(entries') = m + 2 /\ m \in Nat
      /\ \A i \in 1 .. m : entries'[i] = entries[i]
      /\ entries'[m + 1].transfer = r /\ entries'[m + 1].account = cmd[r].from
      /\ entries'[m + 1].amount = -cmd[r].amount
      /\ entries'[m + 2].transfer = r /\ entries'[m + 2].account = cmd[r].to
      /\ entries'[m + 2].amount = cmd[r].amount
  <2>1. PairAdded(entries', entries, r, cmd[r].from, cmd[r].to, cmd[r].amount)
    BY <1>1, PairMoves, Zenon
  <2> QED
    BY <2>1, Zenon DEF PairAdded
<1>3. \A i \in 1 .. m : entries[i].transfer # r
  BY Zenon
<1> HIDE DEF m
<1>4. 1 .. m + 2 = (1 .. m) \cup {m + 1, m + 2} /\ m + 1 # m + 2
  BY <1>2
<1>5. MovedOnce(r, Fingerprint(cmd[r]))'
  <2>1. {i \in 1 .. Len(entries') : entries'[i].transfer = r} = {m + 1, m + 2}
    BY <1>2, <1>3, <1>4
  <2>2. /\ Fingerprint(cmd[r]).from = cmd[r].from /\ Fingerprint(cmd[r]).to = cmd[r].to
        /\ Fingerprint(cmd[r]).amount = cmd[r].amount /\ Fingerprint(cmd'[r]) = Fingerprint(cmd[r])
    BY <1>1, Zenon DEF Fingerprint
  <2> QED
    BY <1>2, <1>4, <2>1, <2>2 DEF MovedOnce
<1>6. ASSUME NEW t, NEW f, t # r, MovedOnce(t, f)
      PROVE  MovedOnce(t, f)'
  <2> DEFINE mine == {i \in 1 .. m : entries[i].transfer = t}
  <2>1. {i \in 1 .. Len(entries') : entries'[i].transfer = t} = mine
    BY <1>2, <1>4, <1>6
  <2>2. PICK i \in mine, j \in mine :
          /\ mine = {i, j} /\ i # j
          /\ entries[i].account = f.from /\ entries[i].amount = -f.amount
          /\ entries[j].account = f.to /\ entries[j].amount = f.amount
    BY <1>6, Zenon DEF MovedOnce, m
  <2>3. entries'[i] = entries[i] /\ entries'[j] = entries[j]
    BY <1>2, Zenon
  <2> QED
    BY <2>1, <2>2, <2>3, Zenon DEF MovedOnce
<1>7. {entries'[i].transfer : i \in 1 .. Len(entries')} =
        {entries[i].transfer : i \in 1 .. m} \cup {r}
  BY <1>2, <1>4
<1> QED
  BY <1>5, <1>6, <1>7 DEF m

\* The rows, the money and the events of the keys grow together.
LEMMA ExactlyOnceStep ==
  ASSUME Safety, Bookkeeping, Books, [Next]_vars
  PROVE  (ExactlyOnce /\ IsFiniteSet(keyRows) /\ IsFiniteSet(outbox))'
<1>1. CASE UNCHANGED <<keyRows, outbox, entries>>
  <2>1. keyRows' = keyRows /\ outbox' = outbox /\ entries' = entries
    BY <1>1, Zenon
  <2>2. \A t, f : MovedOnce(t, f) => MovedOnce(t, f)'
    BY <2>1 DEF MovedOnce
  <2>3. IsFiniteSet(keyRows') /\ IsFiniteSet(outbox')
    BY <2>1, Zenon DEF Books
  <2>4. \A x \in keyRows' : x.state = "completed" /\ MovedOnce(x.transfer, x.fingerprint)'
    BY <2>1, <2>2, Zenon DEF Books, ExactlyOnce
  <2>5. /\ \A x, y \in keyRows' : x.key = y.key => x = y
        /\ {entries'[i].transfer : i \in 1 .. Len(entries')} = {x.transfer : x \in keyRows'}
        /\ {o.transfer : o \in outbox'} = {x.transfer : x \in keyRows'}
        /\ Cardinality(outbox') = Cardinality(keyRows')
    BY <2>1, Zenon DEF Books, ExactlyOnce
  <2> QED
    BY <2>3, <2>4, <2>5, Zenon DEF ExactlyOnce
<1>2. ASSUME NEW r \in Requests, Commit(r),
             wrote[r] = {"claim", "entries", "event", "response"},
             keyRows' = keyRows \cup {StoredKey(cmd[r], r, "completed")},
             outbox' = outbox \cup {[event |-> r, transfer |-> r]}
      PROVE  (ExactlyOnce /\ IsFiniteSet(keyRows) /\ IsFiniteSet(outbox))'
  <2> DEFINE ids == {x.transfer : x \in keyRows}
  <2>0. PICK row, event : /\ row = StoredKey(cmd[r], r, "completed")
                          /\ event = [event |-> r, transfer |-> r]
    BY Zenon
  <2>1. \A x \in keyRows : x.key # cmd[r].key /\ x.transfer # r
    BY <1>2, CommitIsNew DEF Books
  <2>2. /\ row.key = cmd[r].key /\ row.transfer = r /\ row.state = "completed"
        /\ row.fingerprint = Fingerprint(cmd[r]) /\ event.transfer = r
    BY <2>0, Zenon DEF StoredKey
  <2>3. /\ {entries[i].transfer : i \in 1 .. Len(entries)} = ids
        /\ {o.transfer : o \in outbox} = ids
        /\ Cardinality(outbox) = Cardinality(keyRows)
        /\ IsFiniteSet(keyRows) /\ IsFiniteSet(outbox)
    BY Zenon DEF Books, ExactlyOnce
  <2>4. r \notin ids
    BY <2>1, Zenon
  <2>5. /\ MovedOnce(r, Fingerprint(cmd[r]))'
        /\ \A t, f : t # r /\ MovedOnce(t, f) => MovedOnce(t, f)'
        /\ {entries'[i].transfer : i \in 1 .. Len(entries')} = ids \cup {r}
    BY <1>2, <2>3, <2>4, CommitMoves, Zenon
  <2>6. row \notin keyRows /\ event \notin outbox
    BY <2>2, <2>3, <2>4, Zenon
  <2>7. keyRows' = keyRows \cup {row} /\ outbox' = outbox \cup {event} /\ cmd' = cmd
    BY <1>2, <2>0 DEF Commit
  <2>8. \A x, y \in keyRows' : x.key = y.key => x = y
    BY <2>1, <2>2, <2>7 DEF Books, ExactlyOnce
  <2>9. \A x \in keyRows' : x.state = "completed" /\ MovedOnce(x.transfer, x.fingerprint)'
    <3>1. ASSUME NEW x \in keyRows
          PROVE  x.state = "completed" /\ MovedOnce(x.transfer, x.fingerprint)'
      BY <2>1, <2>5 DEF Books, ExactlyOnce
    <3>2. MovedOnce(row.transfer, row.fingerprint)'
      BY <2>2, <2>5, <2>7, Zenon
    <3> QED
      BY <2>2, <2>7, <3>1, <3>2
  <2>10. /\ {x.transfer : x \in keyRows'} = ids \cup {r}
         /\ {o.transfer : o \in outbox'} = ids \cup {r}
    BY <2>2, <2>3, <2>7, ZenonT(30)
  <2>11. /\ Cardinality(outbox') = Cardinality(keyRows')
         /\ IsFiniteSet(keyRows') /\ IsFiniteSet(outbox')
    <3>1. /\ IsFiniteSet(keyRows \cup {row})
          /\ Cardinality(keyRows \cup {row}) = Cardinality(keyRows) + 1
      BY <2>3, <2>6, FS_AddElement
    <3>2. /\ IsFiniteSet(outbox \cup {event})
          /\ Cardinality(outbox \cup {event}) = Cardinality(outbox) + 1
      BY <2>3, <2>6, FS_AddElement
    <3> QED
      BY <2>3, <2>7, <3>1, <3>2
  <2> QED
    BY <2>5, <2>8, <2>9, <2>10, <2>11, Zenon DEF ExactlyOnce
<1> QED
  BY <1>1, <1>2, StepCases, RowsStep, Zenon DEF vars

-----------------------------------------------------------------------------
LEMMA BooksInvariant == Spec => [](Bookkeeping /\ Books)
<1>1. Safety /\ Bookkeeping /\ Books /\ [Next]_vars => Books'
  <2> SUFFICES ASSUME Safety, Bookkeeping, Books, [Next]_vars PROVE Books'
    OBVIOUS
  <2>1. Authors'
    BY AuthorsStep, Zenon DEF Books
  <2> QED
    BY <2>1, ToldStep, ExactlyOnceStep, Zenon DEF Books
<1> QED
  BY InitBooks, BookkeepingInvariant, <1>1, PTL DEF Spec

(* For any accounts, requests and commands: each key moves its money and   *)
(* is announced once, and nothing else is moved or announced, whatever     *)
(* races, retries and lost answers there are (the one transaction of       *)
(* Transfer and the primary key of idempotency_keys).                      *)
THEOREM KeysActOnce == Spec => []ExactlyOnce
BY BooksInvariant, PTL DEF Books

(* For any accounts, requests and commands: every answer of Transfer is    *)
(* true of the committed rows, then and later, and nobody is told that the *)
(* key is in flight (ClaimKey waits, replay).                              *)
THEOREM AnswersAreTrue == Spec => []TruthfulAnswers
<1>1. Books => TruthfulAnswers
  <2> SUFFICES ASSUME Books, NEW r \in Requests
               PROVE  LET mine == {x \in keyRows : x.key = cmd[r].key} IN
                      /\ resp[r] \in Answers =>
                           \E x \in mine : /\ x.transfer = result[r]
                                           /\ x.fingerprint = Fingerprint(cmd[r])
                                           /\ (resp[r] = "created") <=> (x.transfer = r)
                      /\ resp[r] = "idempotency_key_reuse" =>
                           \E x \in mine : x.fingerprint # Fingerprint(cmd[r])
                      /\ resp[r] \in Refusals => \A x \in mine : x.transfer # r
                      /\ resp[r] # "request_in_flight"
    BY DEF TruthfulAnswers
  <2>1. Told(r)
    BY Zenon DEF Books
  <2>2. resp[r] \in Refusals => \A x \in keyRows : x.transfer # r
    BY Zenon DEF Books, Authors, Made, Refusals
  <2> QED
    BY <2>1, <2>2, Zenon DEF Told
<1> QED
  BY <1>1, BooksInvariant, PTL

-----------------------------------------------------------------------------
\* A session locks rows only in the lock batch, the first id first.
Locks(r) ==
  /\ pc[r] \in {"idle", "claim", "load", "lock1", "committed", "closed"} => held[r] = {}
  /\ pc[r] = "lock2" => held[r] \subseteq {Ids(r)[1]}

\* The requests that have arrived: finitely many, whatever Requests is.
Arrived == {r \in Requests : pc[r] # "idle"}

Waits == (\A r \in Requests : Locks(r)) /\ IsFiniteSet(Arrived)

LEMMA OwnLocks ==
  ASSUME Safety, NEW r \in Requests, Locks(r),
         RejectInput(r) \/ Begin(r) \/ Progress(r) \/ Abandon(r)
  PROVE  Locks(r)'
<1>0. TypeOK
  BY DEF Safety
<1>1. CASE LockFirst(r)
  <2>1. held[r] = {} /\ pc'[r] = "lock2" /\ cmd' = cmd
    BY <1>0, <1>1, Zenon DEF TypeOK, LockFirst, Locks
  <2>2. held'[r] \subseteq {Ids(r)[1]}
    BY <1>0, <1>1, <2>1 DEF TypeOK, LockFirst
  <2> QED
    BY <2>1, <2>2, Zenon DEF Locks, Ids
<1>2. CASE LockSecond(r)
  <2>1. pc'[r] = "sum"
    BY <1>0, <1>2 DEF TypeOK, LockSecond
  <2> QED
    BY <2>1, Zenon DEF Locks
<1>3. CASE Commit(r) \/ Rollback(r)
  <2>1. held'[r] = {} /\ pc'[r] # "lock2"
    BY <1>0, <1>3, Zenon DEF TypeOK, Commit, Rollback
  <2> QED
    BY <2>1, Zenon DEF Locks
<1>4. CASE held'[r] = {}
  BY <1>4 DEF Locks
<1>5. CASE RejectInput(r) \/ Begin(r) \/ ClaimKey(r) \/ Replay(r) \/ Return(r)
  <2>1. held'[r] = {}
    BY <1>0, <1>5, Zenon DEF Locks, RejectInput, Begin, ClaimKey, Replay, Return
  <2> QED
    BY <1>4, <2>1, Zenon
<1>6. CASE ReadBalance(r) \/ AppendEvent(r) \/ CompleteKey(r)
  <2>1. pc'[r] \in {"decide", "complete", "commit"}
    BY <1>0, <1>6, Zenon DEF TypeOK, ReadBalance, AppendEvent, CompleteKey
  <2> QED
    BY <2>1 DEF Locks
<1>7. CASE Decide(r)
  <2>1. pc'[r] \in {"rollback", "event"}
    BY <1>0, <1>7, Zenon DEF TypeOK, Decide, Refuse, InsertEntries
  <2> QED
    BY <2>1 DEF Locks
<1>8. CASE Abandon(r)
  <2>1. /\ held' = held /\ cmd' = cmd
        /\ pc'[r] = pc[r] \/ (pc[r] = "committed" /\ pc'[r] = "closed")
    BY <1>0, <1>8, Zenon DEF TypeOK, Abandon
  <2> QED
    BY <2>1 DEF Locks, Ids
<1> QED
  BY <1>1, <1>2, <1>3, <1>5, <1>6, <1>7, <1>8 DEF Progress

LEMMA WaitsStep ==
  ASSUME Safety, Waits, [Next]_vars
  PROVE  Waits'
<1>1. CASE UNCHANGED vars
  BY <1>1, Zenon DEF Waits, Locks, Ids, Arrived, vars
<1>2. ASSUME NEW r \in Requests, RejectInput(r) \/ Begin(r) \/ Progress(r) \/ Abandon(r)
      PROVE  Waits'
  <2>1. Locks(r)'
    BY <1>2, OwnLocks, Zenon DEF Waits
  <2>2. ASSUME NEW q \in Requests, q # r
        PROVE  pc'[q] = pc[q] /\ held'[q] = held[q] /\ cmd' = cmd
    BY <1>2, <2>2, Frame, Zenon DEF Safety
  <2>3. \A q \in Requests : Locks(q)'
    BY <2>1, <2>2 DEF Waits, Locks, Ids
  <2>4. IsFiniteSet(Arrived \cup {r})
    BY FS_AddElement, Zenon DEF Waits
  <2>5. Arrived' \subseteq Arrived \cup {r}
    BY <2>2, Zenon DEF Arrived
  <2>6. IsFiniteSet(Arrived')
    BY <2>4, <2>5, FS_Subset
  <2> QED
    BY <2>3, <2>6 DEF Waits
<1> QED
  BY <1>1, <1>2, StepCases

\* A session that is waited for has gone further than the one that waits,
\* unless both are in the lock batch.
LEMMA WaitingFor ==
  ASSUME Safety, Waits, NEW r \in Requests, NEW q \in Requests, WaitsFor(r, q),
         pc[q] \in {"claim", "lock1", "lock2"}
  PROVE  /\ pc[r] \in {"claim", "lock1", "lock2"}
         /\ pc[r] = "claim" => pc[q] \in {"lock1", "lock2"}
         /\ pc[r] # "claim" => pc[q] = "lock2"
         /\ pc[r] = "lock2" => Ids(r)[2] = Ids(q)[1]
<1>1. Stage(q) /\ Locks(q)
  BY DEF Safety, Stages, Waits
<1>2. CASE WaitsForKey(r, q)
  BY <1>1, <1>2, Zenon DEF WaitsForKey, Stage
<1>3. CASE WaitsForRow(r, q)
  BY <1>1, <1>3, Zenon DEF WaitsForRow, Locks
<1> QED
  BY <1>2, <1>3, Zenon DEF WaitsFor

\* The two ids of a session in its lock batch are in ascending order.
LEMMA IdsAscend ==
  ASSUME Safety, NEW r \in Requests, pc[r] = "lock2"
  PROVE  Ids(r)[1] \in Int /\ Ids(r)[2] \in Int /\ Ids(r)[1] < Ids(r)[2]
<1>1. TypeOK /\ InputError(cmd[r]) = "none"
  BY Zenon DEF Safety, Stages, Stage
<1>2. cmd[r].from \in Int /\ cmd[r].to \in Int /\ cmd[r].from # cmd[r].to
  BY <1>1, CommandFacts, Zenon
<1> QED
  BY <1>2 DEF Ids, LockOrder

\* In a circle some session would wait for a second row, and the session with
\* the greatest second row would wait for one with a greater still.
LEMMA NoCircle ==
  ASSUME Safety, Waits
  PROVE  NoWaitCycle
<1> SUFFICES ASSUME NEW S \in (SUBSET Requests) \ {{}},
                    \A r \in S : \E q \in S : WaitsFor(r, q)
             PROVE  FALSE
  BY Zenon DEF NoWaitCycle
<1> DEFINE W == {r \in S : pc[r] = "lock2"}
           f == [r \in W |-> Ids(r)[2]]
           T == {f[r] : r \in W}
<1>1. \A r \in S : pc[r] \in {"claim", "lock1", "lock2"}
  BY Zenon DEF WaitsFor, WaitsForKey, WaitsForRow
<1>2. ASSUME NEW r \in S
      PROVE  \E q \in S : /\ pc[r] = "claim" => pc[q] \in {"lock1", "lock2"}
                          /\ pc[r] # "claim" => pc[q] = "lock2"
                          /\ pc[r] = "lock2" => Ids(r)[2] = Ids(q)[1]
  BY <1>1, WaitingFor
<1>3. W # {}
  <2>1. S # {}
    OBVIOUS
  <2>2. PICK q \in S : pc[q] \in {"lock1", "lock2"}
    BY <1>1, <1>2, <2>1, Zenon
  <2> QED
    BY <1>2, <2>2, Zenon
<1>4. IsFiniteSet(W)
  <2>1. W \subseteq Arrived
    BY Zenon DEF Arrived
  <2> QED
    BY <2>1, FS_Subset DEF Waits
<1>5. T \in SUBSET Int /\ T # {}
  BY <1>3, IdsAscend, Zenon
<1>6. IsFiniteSet(T)
  <2>1. f \in Surjection(W, T)
    BY Zenon DEF Surjection
  <2> QED
    BY <1>4, <2>1, FS_Surjection
<1>7. PICK top \in T : \A x \in T : x <= top
  <2> HIDE DEF T
  <2> QED
    BY <1>5, <1>6, FiniteMax, Zenon
<1>8. PICK r \in W : top = Ids(r)[2]
  BY Zenon
<1>9. PICK q \in W : Ids(r)[2] = Ids(q)[1]
  BY <1>2, Zenon
<1>10. Ids(q)[2] <= Ids(r)[2]
  BY <1>7, <1>8, Zenon
<1>11. q \in Requests /\ r \in Requests /\ pc[q] = "lock2" /\ pc[r] = "lock2"
  OBVIOUS
<1>12. Ids(q)[1] \in Int /\ Ids(q)[2] \in Int /\ Ids(q)[1] < Ids(q)[2]
  BY <1>11, IdsAscend, Zenon
<1> QED
  BY <1>9, <1>10, <1>12

(* For any requests and accounts: whichever sessions one looks at, one of  *)
(* them waits for none of the others, so the key claims and the two row    *)
(* locks of every transfer never deadlock (lockOrder sorts the two ids,    *)
(* and the claim comes before any row lock).                               *)
THEOREM WaitsHaveNoCircle == Spec => []NoWaitCycle
<1>1. Init => Waits
  <2> SUFFICES ASSUME Init PROVE Waits
    BY Zenon
  <2>1. Arrived = {}
    BY Zenon DEF Init, Arrived
  <2> QED
    BY <2>1, FS_EmptySet DEF Init, Waits, Locks
<1>2. Safety /\ Waits /\ [Next]_vars => Waits'
  BY WaitsStep
<1>3. Safety /\ Waits => NoWaitCycle
  BY NoCircle, Zenon
<1> QED
  BY <1>1, <1>2, <1>3, SafetyInvariant, PTL DEF Spec

-----------------------------------------------------------------------------
(***************************************************************************)
(* Statements read page by page.  The ids that a transaction drew for its  *)
(* entries are above every committed id of its two accounts, because it    *)
(* holds their rows from before the draw until the commit.                 *)
(***************************************************************************)
\* The session has drawn the ids of its entries and not yet committed them.
Drawn(r) == Relying(r) /\ pc[r] # "decide"

Sequence ==
  /\ \A i \in 1 .. Len(entries) : entries[i].id \in 1 .. lastId
  /\ \A r \in Requests : Drawn(r) =>
       /\ base[r] + 2 <= lastId
       /\ \A i \in 1 .. Len(entries) :
            entries[i].account \in {cmd[r].from, cmd[r].to} => entries[i].id <= base[r]

\* The reader has been given a lower part of the account's entries.
Reading ==
  /\ got \subseteq EntryIds(entries) /\ cursor \in got \cup {0}
  /\ StablePages

\* The committed entries of a step of r: as before, or with r's pair, whose
\* ids r drew.
LEMMA EntriesStep ==
  ASSUME Safety, NEW r \in Requests,
         RejectInput(r) \/ Begin(r) \/ Progress(r) \/ Abandon(r)
  PROVE  \/ entries' = entries
         \/ /\ Commit(r) /\ Drawn(r) /\ ~ Drawn(r)' /\ UNCHANGED <<base, lastId>>
            /\ cmd[r].from \in Accounts /\ cmd[r].to \in Accounts
            /\ \E m \in Nat :
                 /\ m = Len(entries) /\ Len(entries') = m + 2
                 /\ 1 .. m + 2 = (1 .. m) \cup {m + 1, m + 2}
                 /\ \A i \in 1 .. m : entries'[i] = entries[i]
                 /\ entries'[m + 1].id = base[r] + 1 /\ entries'[m + 1].account = cmd[r].from
                 /\ entries'[m + 2].id = base[r] + 2 /\ entries'[m + 2].account = cmd[r].to
<1>1. CASE Commit(r) /\ "entries" \in wrote[r]
  <2>1. PICK m : m = Len(entries)
    BY Zenon
  <2>2. m \in Nat /\ entries \in Seq(Entry) /\ TypeOK
    BY <2>1 DEF Safety, TypeOK
  <2>3. 1 .. m + 2 = (1 .. m) \cup {m + 1, m + 2}
    BY <2>2
  <2>4. /\ entries \in Seq(Entry) /\ base[r] \in Nat /\ r \in Transfers
        /\ cmd[r].from \in Accounts /\ cmd[r].to \in Accounts /\ cmd[r].amount \in Int
        /\ entries' = entries \o EntryPair(r, cmd[r].from, cmd[r].to, cmd[r].amount, base[r])
    BY <1>1, CommitBalances, RequestsAssumption, Zenon DEF Safety, TypeOK, Commit
  <2>5. /\ PairAdded(entries', entries, r, cmd[r].from, cmd[r].to, cmd[r].amount)
        /\ PairNumbered(entries', entries, base[r])
    BY <2>4, PairMoves, Zenon
  <2>6. /\ Len(entries') = m + 2
        /\ \A i \in 1 .. m : entries'[i] = entries[i]
        /\ entries'[m + 1].account = cmd[r].from /\ entries'[m + 2].account = cmd[r].to
        /\ entries'[m + 1].id = base[r] + 1 /\ entries'[m + 2].id = base[r] + 2
    BY <2>1, <2>5 DEF PairAdded, PairNumbered
  <2>7. Drawn(r) /\ ~ Drawn(r)' /\ UNCHANGED <<base, lastId>>
    BY <1>1, <2>2, Zenon DEF Commit, Drawn, Relying, TypeOK
  <2> QED
    BY <1>1, <2>1, <2>2, <2>3, <2>4, <2>5, <2>6, <2>7, Zenon
<1>2. CASE Commit(r) /\ "entries" \notin wrote[r]
  BY <1>2 DEF Commit
<1> QED
  BY <1>1, <1>2, Zenon DEF Progress, RejectInput, Begin, ClaimKey, Replay, LockFirst, LockSecond,
     ReadBalance, Decide, AppendEvent, CompleteKey, Return, Abandon, Rollback, tables

\* Ids are drawn by Decide and by nothing else.
LEMMA DrawStep ==
  ASSUME Safety, NEW r \in Requests,
         RejectInput(r) \/ Begin(r) \/ Progress(r) \/ Abandon(r)
  PROVE  \/ /\ UNCHANGED <<base, lastId>>
            /\ \A q \in Requests : Drawn(q)' => Drawn(q)
         \/ /\ entries' = entries /\ lastId' = lastId + 2 /\ base'[r] = lastId
            /\ \A q \in Requests \ {r} : base'[q] = base[q] /\ (Drawn(q)' => Drawn(q))
<1>0. TypeOK /\ Stage(r)
  BY DEF Safety, Stages
<1>1. \A q \in Requests \ {r} : Drawn(q)' <=> Drawn(q)
  BY <1>0, Frame, Zenon DEF Drawn, Relying
<1>2. CASE Decide(r) /\ InsertEntries(r)
  BY <1>0, <1>1, <1>2 DEF TypeOK, Decide, InsertEntries, tables
<1>3. ASSUME UNCHANGED <<base, lastId>>, Drawn(r)' => Drawn(r)
      PROVE  UNCHANGED <<base, lastId>> /\ \A q \in Requests : Drawn(q)' => Drawn(q)
  BY <1>1, <1>3, Zenon
<1>4. CASE Decide(r) /\ ~ InsertEntries(r)
  <2>1. pc'[r] = "rollback" /\ UNCHANGED <<base, lastId>>
    BY <1>0, <1>4, Zenon DEF TypeOK, Decide, Refuse
  <2> QED
    BY <1>3, <2>1 DEF Drawn, Relying
<1>5. CASE RejectInput(r) \/ Begin(r) \/ LockFirst(r) \/ LockSecond(r) \/ ReadBalance(r)
           \/ Commit(r) \/ Return(r) \/ Rollback(r)
  <2>1. /\ pc'[r] \in {"closed", "claim", "lock2", "sum", "decide", "committed"}
        /\ UNCHANGED <<base, lastId>>
    BY <1>0, <1>5, Zenon DEF TypeOK, RejectInput, Begin, LockFirst, LockSecond, ReadBalance, Commit,
       Return, Rollback
  <2> QED
    BY <1>3, <2>1 DEF Drawn, Relying
<1>6. CASE ClaimKey(r)
  <2>1. pc'[r] \in {"rollback", "load", "lock1"} /\ UNCHANGED <<base, lastId>>
    BY <1>0, <1>6, Zenon DEF TypeOK, ClaimKey
  <2> QED
    BY <1>3, <2>1, Zenon DEF Drawn, Relying
<1>7. CASE Replay(r)
  <2>1. pc'[r] \in {"rollback", "commit"} /\ wrote'[r] = {} /\ UNCHANGED <<base, lastId>>
    BY <1>0, <1>7, Zenon DEF TypeOK, Stage, Replay, ReplayFrom
  <2> QED
    BY <1>3, <2>1, Zenon DEF Drawn, Relying
<1>8. CASE AppendEvent(r) \/ CompleteKey(r)
  BY <1>3, <1>8, Zenon DEF Drawn, Relying, AppendEvent, CompleteKey
<1>9. CASE Abandon(r)
  <2>1. /\ pc'[r] = pc[r] \/ pc'[r] = "closed"
        /\ wrote' = wrote /\ UNCHANGED <<base, lastId>>
    BY <1>0, <1>9 DEF TypeOK, Abandon
  <2> QED
    BY <1>3, <2>1, Zenon DEF Drawn, Relying
<1> QED
  BY <1>2, <1>4, <1>5, <1>6, <1>7, <1>8, <1>9, Zenon DEF Progress

\* Sessions that have drawn ids do not share an account.
LEMMA DrawnApart ==
  ASSUME Safety, NEW r \in Requests, NEW q \in Requests, q # r, Drawn(r), Drawn(q)
  PROVE  {cmd[r].from, cmd[r].to} \cap {cmd[q].from, cmd[q].to} = {}
<1>1. Stage(r) /\ Stage(q) /\ held[r] \cap held[q] = {}
  BY DEF Safety, Stages, FreshBalance
<1>2. {cmd[r].from, cmd[r].to} \subseteq Accounts /\ {cmd[q].from, cmd[q].to} \subseteq Accounts
  BY <1>1, Zenon DEF Stage, Drawn, AccountsExist
<1>3. /\ {cmd[r].from, cmd[r].to} \cap Accounts \subseteq held[r]
      /\ {cmd[q].from, cmd[q].to} \cap Accounts \subseteq held[q]
  BY DEF Safety, FreshBalance, Drawn
<1> QED
  BY <1>1, <1>2, <1>3, Zenon

LEMMA SequenceStep ==
  ASSUME Safety, Sequence, [Next]_vars
  PROVE  Sequence'
<1>1. CASE UNCHANGED vars
  BY <1>1, Zenon DEF Sequence, Drawn, Relying, vars
<1>2. ASSUME NEW r \in Requests, RejectInput(r) \/ Begin(r) \/ Progress(r) \/ Abandon(r)
      PROVE  Sequence'
  <2>0. /\ lastId \in Nat /\ \A q \in Requests : base[q] \in Nat
        /\ \A i \in 1 .. Len(entries) : entries[i].id \in 1 .. lastId
        /\ cmd' = cmd
    BY <1>2, Zenon DEF Safety, TypeOK, Sequence, Progress, RejectInput, Begin, ClaimKey, Replay, LockFirst,
       LockSecond, ReadBalance, Decide, AppendEvent, CompleteKey, Commit, Return,
       Abandon, Rollback
  <2>1. CASE entries' = entries
    <3>1. CASE UNCHANGED <<base, lastId>> /\ \A q \in Requests : Drawn(q)' => Drawn(q)
      BY <2>0, <2>1, <3>1 DEF Sequence
    <3>2. CASE /\ lastId' = lastId + 2 /\ base'[r] = lastId
               /\ \A q \in Requests \ {r} : base'[q] = base[q] /\ (Drawn(q)' => Drawn(q))
      <4>1. \A i \in 1 .. Len(entries) : entries[i].id \in 1 .. lastId' /\ entries[i].id <= lastId
        BY <2>0, <3>2
      <4>2. ASSUME NEW q \in Requests, Drawn(q)'
            PROVE  /\ base'[q] + 2 <= lastId'
                   /\ \A i \in 1 .. Len(entries) :
                        entries[i].account \in {cmd[q].from, cmd[q].to} => entries[i].id <= base'[q]
        <5>1. CASE q = r
          BY <2>0, <3>2, <4>1, <5>1
        <5>2. CASE q # r
          BY <2>0, <3>2, <4>2, <5>2 DEF Sequence
        <5> QED
          BY <5>1, <5>2, Zenon
      <4> QED
        BY <2>0, <2>1, <4>1, <4>2 DEF Sequence
    <3> QED
      BY <1>2, <3>1, <3>2, DrawStep
  <2>2. ASSUME Commit(r), Drawn(r), ~ Drawn(r)', UNCHANGED <<base, lastId>>,
               NEW m \in Nat, m = Len(entries), Len(entries') = m + 2,
               1 .. m + 2 = (1 .. m) \cup {m + 1, m + 2},
               \A i \in 1 .. m : entries'[i] = entries[i],
               entries'[m + 1].id = base[r] + 1, entries'[m + 1].account = cmd[r].from,
               entries'[m + 2].id = base[r] + 2, entries'[m + 2].account = cmd[r].to
        PROVE  Sequence'
    <3>1. \A i \in 1 .. Len(entries') : entries'[i].id \in 1 .. lastId
      <4>1. base[r] + 2 <= lastId
        BY <2>2, Zenon DEF Sequence
      <4>2. base[r] + 1 \in 1 .. lastId /\ base[r] + 2 \in 1 .. lastId
        BY <2>0, <4>1
      <4> QED
        BY <2>0, <2>2, <4>2, Zenon
    <3>2. ASSUME NEW q \in Requests, Drawn(q)'
          PROVE  /\ base[q] + 2 <= lastId
                 /\ \A i \in 1 .. Len(entries') :
                      entries'[i].account \in {cmd[q].from, cmd[q].to} => entries'[i].id <= base[q]
      <4>1. q # r
        BY <2>2, <3>2
      <4>2. Drawn(q)
        BY <1>2, <3>2, <4>1, Frame, Zenon DEF Safety, Drawn, Relying
      <4>3. {cmd[r].from, cmd[r].to} \cap {cmd[q].from, cmd[q].to} = {}
        BY <2>2, <4>1, <4>2, DrawnApart
      <4> QED
        BY <2>2, <4>2, <4>3, ZenonT(30) DEF Sequence
    <3> QED
      BY <2>0, <2>2, <3>1, <3>2 DEF Sequence
  <2> QED
    BY <1>2, <2>1, <2>2, EntriesStep, Zenon
<1> QED
  BY <1>1, <1>2, StepCases, Zenon

\* The ids of an account, without the sets of rows in between.
LEMMA EntryIdsAre ==
  ASSUME NEW log
  PROVE  \A x : x \in EntryIds(log) <=>
           \E i \in 1 .. Len(log) : log[i].account = Account /\ log[i].id = x
BY DEF EntryIds

LEMMA EntryIdsFinite ==
  ASSUME Safety, Sequence
  PROVE  IsFiniteSet(EntryIds(entries)) /\ EntryIds(entries) \subseteq Nat \ {0}
<1>0. Len(entries) \in Nat /\ lastId \in Nat
  BY DEF Safety, TypeOK
<1>1. EntryIds(entries) \subseteq Nat \ {0}
  <2>1. \A i \in 1 .. Len(entries) : entries[i].id \in Nat \ {0}
    BY <1>0 DEF Sequence
  <2> QED
    BY <2>1, EntryIdsAre
<1>2. PICK n, J, f, T :
        /\ n = Len(entries) /\ J = {j \in 1 .. n : entries[j].account = Account}
        /\ f = [j \in J |-> entries[j].id] /\ T = EntryIds(entries)
  BY Zenon
<1>3. n \in Nat /\ J \in SUBSET (1 .. n) /\ T = {f[j] : j \in J}
  BY <1>0, <1>2 DEF EntryIds
<1>4. IsFiniteSet(T)
  BY <1>3, FiniteImage, Zenon
<1> QED
  BY <1>1, <1>2, <1>4

\* What a step adds to the statement comes after everything in it.
LEMMA NewIds ==
  ASSUME Safety, Sequence, NEW r \in Requests,
         RejectInput(r) \/ Begin(r) \/ Progress(r) \/ Abandon(r)
  PROVE  /\ EntryIds(entries) \subseteq EntryIds(entries')
         /\ \A x \in EntryIds(entries') \ EntryIds(entries) :
              x \in Nat \ {0} /\ \A y \in EntryIds(entries) : y < x
<1>1. CASE entries' = entries
  BY <1>1
<1>2. ASSUME Drawn(r), NEW m \in Nat, m = Len(entries), Len(entries') = m + 2,
             1 .. m + 2 = (1 .. m) \cup {m + 1, m + 2},
             \A i \in 1 .. m : entries'[i] = entries[i],
             entries'[m + 1].id = base[r] + 1, entries'[m + 1].account = cmd[r].from,
             entries'[m + 2].id = base[r] + 2, entries'[m + 2].account = cmd[r].to
      PROVE  /\ EntryIds(entries) \subseteq EntryIds(entries')
             /\ \A x \in EntryIds(entries') \ EntryIds(entries) :
                  x \in Nat \ {0} /\ \A y \in EntryIds(entries) : y < x
  <2>0. base[r] \in Nat /\ EntryIds(entries) \subseteq Nat
    BY EntryIdsFinite DEF Safety, TypeOK
  <2>1. EntryIds(entries) \subseteq EntryIds(entries')
    BY <1>2, EntryIdsAre, SMTT(30)
  <2>2. ASSUME NEW x \in EntryIds(entries'), x \notin EntryIds(entries)
        PROVE  x \in Nat \ {0} /\ \A y \in EntryIds(entries) : y < x
    <3>1. PICK i \in 1 .. Len(entries') : entries'[i].account = Account /\ entries'[i].id = x
      BY EntryIdsAre, Zenon
    <3>2. i \notin 1 .. m
      BY <1>2, <2>2, <3>1, EntryIdsAre
    <3>3. Account \in {cmd[r].from, cmd[r].to} /\ x \in {base[r] + 1, base[r] + 2}
      BY <1>2, <3>1, <3>2
    <3>4. \A y \in EntryIds(entries) : y <= base[r]
      BY <1>2, <3>3, EntryIdsAre, SMTT(30) DEF Sequence
    <3> QED
      BY <2>0, <3>3, <3>4
  <2> QED
    BY <2>1, <2>2, Zenon
<1> QED
  BY <1>1, <1>2, EntriesStep, Zenon

\* While transfers commit, the reader's pages stay as they were.
LEMMA ReaderWaits ==
  ASSUME Safety, Sequence, Reading, [Next]_vars, UNCHANGED readerVars
  PROVE  Reading'
<1>0. got' = got /\ cursor' = cursor
  BY Zenon DEF readerVars
<1>1. CASE UNCHANGED vars
  <2>1. entries' = entries
    BY <1>1, Zenon DEF vars
  <2> QED
    BY <1>0, <2>1 DEF Reading, StablePages, PagesStable, EntryIds
<1>2. ASSUME NEW r \in Requests, RejectInput(r) \/ Begin(r) \/ Progress(r) \/ Abandon(r)
      PROVE  Reading'
  <2>1. /\ EntryIds(entries) \subseteq EntryIds(entries')
        /\ \A x \in EntryIds(entries') \ EntryIds(entries) :
             x \in Nat \ {0} /\ \A y \in EntryIds(entries) : y < x
    BY <1>2, NewIds
  <2>2. /\ EntryIds(entries) \subseteq Nat
        /\ got \subseteq EntryIds(entries) /\ cursor \in got \cup {0} /\ cursor \in Nat
    BY EntryIdsFinite DEF Reading
  <2>3. ASSUME NEW x \in EntryIds(entries'), NEW y \in got \cup {cursor}, x <= y
        PROVE  x \in got
    <3>1. CASE x \in EntryIds(entries)
      BY <2>3, <3>1 DEF Reading, StablePages, PagesStable
    <3>2. CASE x \notin EntryIds(entries)
      <4>1. y \in EntryIds(entries) \cup {0}
        BY <2>2
      <4>2. x \in Nat /\ y \in Nat /\ y < x
        BY <2>1, <2>2, <3>2, <4>1
      <4> QED
        BY <2>3, <4>2
    <3> QED
      BY <3>1, <3>2, Zenon
  <2> QED
    BY <1>0, <2>1, <2>2, <2>3 DEF Reading, StablePages, PagesStable
<1> QED
  BY <1>1, <1>2, StepCases

\* A page continues the lower part that was read, and the last one ends it.
LEMMA PageRead ==
  ASSUME Safety, Sequence, Reading, ReadPage(entries), UNCHANGED vars
  PROVE  Reading' /\ CompleteWhenDone(entries)
<1>1. PICK E, A, rows, page :
        /\ E = EntryIds(entries) /\ A = {x \in E : x > cursor}
        /\ rows = FirstOf(A, Limit + 1)
        /\ page = PageOf(rows, Limit)
  BY Zenon
<1>2. /\ got' = got \cup page
      /\ cursor' = IF Cardinality(rows) > Limit THEN Max(page) ELSE cursor
      /\ done' = ~ (Cardinality(rows) > Limit)
  BY <1>1, Zenon DEF ReadPage, ListByAccount, FirstOf, PageOf
<1>3. /\ E \in SUBSET Nat /\ IsFiniteSet(E) /\ got \subseteq E
      /\ cursor \in got \cup {0} /\ cursor \in Nat
      /\ \A x \in E, y \in got \cup {cursor} : x <= y => x \in got
  BY <1>1, EntryIdsFinite DEF Reading, StablePages, PagesStable
<1>4. A \in SUBSET Nat /\ IsFiniteSet(A) /\ A \in SUBSET E
  BY <1>1, <1>3, FS_Subset
<1>5. /\ page \subseteq A
      /\ \A x \in A, y \in page : x <= y => x \in page
      /\ Cardinality(rows) > Limit => Max(page) \in page
      /\ ~ (Cardinality(rows) > Limit) => page = A
  <2>1. Limit \in Nat \ {0}
    BY StatementAssumption
  <2>2. rows = FirstOf(A, Limit + 1) /\ page = PageOf(rows, Limit)
    BY <1>1, Zenon
  <2> QED
    BY <1>4, <2>1, <2>2, PageFacts
<1>6. entries' = entries /\ EntryIds(entries)' = E
  BY <1>1, Zenon DEF vars, EntryIds
<1>7. ASSUME NEW x \in E, x <= cursor PROVE x \in got
  BY <1>3, <1>7
<1>8. ASSUME NEW x \in E, ~ (x <= cursor) PROVE x \in A
  BY <1>1, <1>3, <1>8
<1>9. Reading'
  <2>1. got' \subseteq E /\ cursor' \in got' \cup {0}
    BY <1>2, <1>3, <1>4, <1>5
  <2>2. ASSUME NEW x \in E, NEW y \in got' \cup {cursor'}, x <= y
        PROVE  x \in got'
    <3>1. CASE y \in got \cup {cursor}
      BY <1>2, <1>3, <2>2, <3>1
    <3>2. CASE y \in page
      BY <1>2, <1>5, <1>7, <1>8, <2>2, <3>2
    <3> QED
      BY <1>2, <1>5, <3>1, <3>2
  <2> QED
    BY <1>6, <2>1, <2>2 DEF Reading, StablePages, PagesStable
<1>10. CompleteWhenDone(entries)
  <2> SUFFICES ASSUME done' PROVE got' = E
    BY <1>1, Zenon DEF CompleteWhenDone
  <2>1. page = A
    BY <1>2, <1>5, Zenon
  <2> QED
    BY <1>2, <1>3, <1>4, <1>7, <1>8, <2>1, Zenon
<1> QED
  BY <1>9, <1>10

\* The ledger under the reader is the locking executor's.
LEMMA StatementLedger == StatementSpec => [](Safety /\ Sequence /\ Reading)
<1>1. StatementInit => Safety /\ Sequence /\ Reading
  <2> SUFFICES ASSUME StatementInit PROVE Sequence /\ Reading
    BY InitSafety DEF StatementInit
  <2>1. Len(entries) = 0 /\ got = {} /\ cursor = 0
    BY Zenon DEF StatementInit, Init, ReaderInit
  <2>2. EntryIds(entries) = {}
    BY <2>1, EntryIdsAre
  <2>3. \A r \in Requests : ~ Drawn(r)
    BY Zenon DEF StatementInit, Init, Drawn, Relying
  <2>4. Sequence
    BY <2>1, <2>3 DEF Sequence
  <2> QED
    BY <2>1, <2>2, <2>4, Zenon DEF Reading, StablePages, PagesStable
<1>2. Safety /\ Sequence /\ Reading /\ [StatementNext]_<<vars, readerVars>>
        => (Safety /\ Sequence /\ Reading)'
  <2> SUFFICES ASSUME Safety, Sequence, Reading, [StatementNext]_<<vars, readerVars>>
               PROVE  (Safety /\ Sequence /\ Reading)'
    BY Zenon
  <2>1. [Next]_vars
    BY Zenon DEF StatementNext
  <2>2. Safety'
    BY <2>1, TypeStep, StagesStep, FreshStep, NonNegativeStep DEF Safety
  <2>3. Reading'
    <3>1. CASE UNCHANGED readerVars
      BY <2>1, <3>1, ReaderWaits
    <3>2. CASE ReadPage(entries) /\ UNCHANGED vars
      BY <3>2, PageRead
    <3> QED
      BY <3>1, <3>2 DEF StatementNext
  <2> QED
    BY <2>1, <2>2, <2>3, SequenceStep, Zenon
<1> QED
  BY <1>1, <1>2, PTL DEF StatementSpec

(* For any accounts, requests and page size: no transfer that commits later *)
(* puts an entry into a page that a client already read (ListByAccount      *)
(* pages by id, the id is drawn under the row lock that COMMIT releases).   *)
THEOREM PagesStayRead == StatementSpec => []StablePages
BY StatementLedger, PTL DEF Reading

(* For any page size: the statement a client put together from pages read   *)
(* at different moments is the account's ledger at the moment of the last   *)
(* page (AccountService.Entries).                                           *)
THEOREM StatementsAreWhole == StatementSpec => StatementComplete
<1>1. Safety /\ Sequence /\ Reading /\ [StatementNext]_<<vars, readerVars>>
        => [CompleteWhenDone(entries)]_<<vars, readerVars>>
  <2> SUFFICES ASSUME Safety, Sequence, Reading, StatementNext
               PROVE  CompleteWhenDone(entries)
    BY Zenon
  <2>1. CASE UNCHANGED readerVars
    BY <2>1, Zenon DEF readerVars, CompleteWhenDone
  <2>2. CASE ReadPage(entries) /\ UNCHANGED vars
    BY <2>2, PageRead, Zenon
  <2> QED
    BY <2>1, <2>2, Zenon DEF StatementNext
<1> QED
  BY <1>1, StatementLedger, PTL DEF StatementSpec, StatementComplete

-----------------------------------------------------------------------------
(***************************************************************************)
(* The integer arithmetic of domain.Money is exact for every width of the  *)
(* machine integer: MaxInt is any positive number, 2^63 - 1 included.      *)
(***************************************************************************)
\* Add agrees with the sum of integers wherever that is representable, and
\* reports every other sum.
LEMMA AddExact ==
  ASSUME NEW a \in Int64, NEW b \in Int64
  PROVE  Add(a, b) = IF a + b \in Int64 THEN Ok(a + b) ELSE Overflow
<1> USE MoneyAssumption
<1>1. a \in Int /\ b \in Int /\ MinInt <= a /\ a <= MaxInt /\ MinInt <= b /\ b <= MaxInt
  BY DEF Int64, MinInt
<1>2. CASE a + b > MaxInt
  <2>1. Wrap(a + b) = a + b - Modulus /\ b > 0 /\ a + b - Modulus < a
    BY <1>1, <1>2 DEF Wrap, Modulus, MinInt
  <2>2. a + b \notin Int64
    BY <1>1, <1>2 DEF Int64, MinInt
  <2> QED  BY <2>1, <2>2, Zenon DEF Add
<1>3. CASE a + b < MinInt
  <2>1. Wrap(a + b) = a + b + Modulus /\ b < 0 /\ a + b + Modulus > a
    BY <1>1, <1>3 DEF Wrap, Modulus, MinInt
  <2>2. a + b \notin Int64
    BY <1>1, <1>3 DEF Int64, MinInt
  <2> QED  BY <2>1, <2>2 DEF Add
<1>4. CASE MinInt <= a + b /\ a + b <= MaxInt
  <2>1. Wrap(a + b) = a + b /\ ~ (b > 0 /\ a + b < a) /\ ~ (b < 0 /\ a + b > a)
    BY <1>1, <1>4 DEF Wrap, MinInt
  <2>2. a + b \in Int64
    BY <1>1, <1>4 DEF Int64, MinInt
  <2> QED  BY <2>1, <2>2, Zenon DEF Add
<1> QED  BY <1>1, <1>2, <1>3, <1>4 DEF MinInt

\* Sub agrees with the difference, except that it refuses the least integer.
LEMMA SubExact ==
  ASSUME NEW a \in Int64, NEW b \in Int64
  PROVE  Sub(a, b) = IF b # MinInt /\ a - b \in Int64 THEN Ok(a - b) ELSE Overflow
<1> USE MoneyAssumption
<1>1. a \in Int /\ b \in Int /\ MinInt <= b /\ b <= MaxInt
  BY DEF Int64, MinInt
<1>2. CASE b = MinInt
  BY <1>2, Zenon DEF Sub
<1>3. CASE b # MinInt
  <2>1. Wrap(-b) = -b /\ -b \in Int64
    BY <1>1, <1>3 DEF Wrap, Int64, MinInt
  <2>2. a + (-b) = a - b
    BY <1>1, Zenon
  <2> QED  BY <1>3, <2>1, <2>2, AddExact DEF Sub
<1> QED  BY <1>2, <1>3, Zenon

\* Add, Sub and String are exact on every pair of machine integers.
THEOREM MoneyIsExact == MoneyExact
<1> SUFFICES ASSUME NEW a \in Int64, NEW b \in Int64
             PROVE  /\ Add(a, b) = IF a + b \in Int64 THEN Ok(a + b) ELSE Overflow
                    /\ Sub(a, b) = IF b # MinInt /\ a - b \in Int64 THEN Ok(a - b) ELSE Overflow
                    /\ Magnitude(a) = IF a < 0 THEN -a ELSE a
  BY Zenon DEF MoneyExact
<1>1. Magnitude(a) = IF a < 0 THEN -a ELSE a
  BY MoneyAssumption DEF Magnitude, Modulus, Int64, MinInt
<1> QED  BY <1>1, AddExact, SubExact

\* CanDebit computed with machine integers decides as the ledger rule does on
\* true sums, whatever the balance and the positive amount.
THEOREM DebitRuleIsExact == DebitRuleExact
<1> USE MoneyAssumption
<1> SUFFICES ASSUME NEW balance \in Int64, NEW amount \in 1 .. MaxInt, NEW acc \in AccountIds
             PROVE  DebitError(balance, amount, acc) = "nil" <=> CanDebit(balance, amount, acc)
  BY Zenon DEF DebitRuleExact
<1>1. balance \in Int /\ amount \in Int /\ MinInt <= balance /\ balance <= MaxInt /\ amount > 0
  BY DEF Int64, MinInt
<1>2. amount \in Int64 /\ amount # MinInt
  BY DEF Int64, MinInt
<1>3. CASE acc = System
  BY <1>3, Zenon DEF DebitError, CanDebit
<1>4. CASE acc # System /\ balance - amount \in Int64
  <2>1. Sub(balance, amount) = Ok(balance - amount)
    BY <1>2, <1>4, SubExact
  <2>2. Sub(balance, amount).err = "nil" /\ Sub(balance, amount).value = balance - amount
    BY <2>1 DEF Ok
  <2>3. balance - amount < 0 <=> ~ (balance - amount >= 0)
    BY <1>1
  <2> QED  BY <1>4, <2>2, <2>3 DEF DebitError, CanDebit
<1>5. CASE acc # System /\ balance - amount \notin Int64
  <2>1. Sub(balance, amount).err = "overflow"
    BY <1>2, <1>5, SubExact DEF Overflow
  <2>2. ~ (balance - amount >= 0)
    BY <1>1, <1>5 DEF Int64, MinInt
  <2> QED  BY <1>5, <2>1, <2>2, Zenon DEF DebitError, CanDebit
<1> QED  BY <1>3, <1>4, <1>5, Zenon

(* For any width of the machine integer, accounts, requests and commands:  *)
(* a transfer that is decided with CanDebit's machine arithmetic is        *)
(* decided as on true sums, because only positive amounts get that far.    *)
THEOREM DebitsAreJudged == Spec => []DebitsJudged
<1>1. Safety => DebitsJudged
  <2> SUFFICES ASSUME Safety, NEW r \in Requests, pc[r] = "decide", cmd[r].amount \in Int64,
                      NEW balance \in Int64
               PROVE  DebitError(balance, cmd[r].amount, cmd[r].from) = "nil"
                        <=> CanDebit(balance, cmd[r].amount, cmd[r].from)
    BY Zenon DEF DebitsJudged
  <2>1. InputError(cmd[r]) = "none" /\ TypeOK
    BY DEF Safety, Stages, Stage
  <2>2. cmd[r].amount \in 1 .. MaxInt /\ cmd[r].from \in AccountIds
    BY <2>1, CommandFacts, MoneyAssumption DEF Int64, MinInt
  <2> QED
    BY <2>2, DebitRuleIsExact DEF DebitRuleExact
<1> QED
  BY <1>1, SafetyInvariant, PTL
=============================================================================
