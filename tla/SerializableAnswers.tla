------------------------ MODULE SerializableAnswers ------------------------
(***************************************************************************)
(* What the serializable strategy promises, for any set of accounts,       *)
(* requests, commands and number of attempts.  Nothing is locked: that     *)
(* customers stay non-negative follows from the serial order of the        *)
(* committed transfers, in which the last debit of an account has seen all *)
(* the others.                                                             *)
(***************************************************************************)
EXTENDS SerializableProofs

-----------------------------------------------------------------------------
\* A step that leaves r with an open claim is the claim itself or finds r with
\* one; a step that commits a row leaves r without one.
LEMMA ClaimedStep ==
  ASSUME Inv, NEW r \in Requests, Claimed(r)', StepOf(r)
  PROVE  /\ keyRows' = keyRows
         /\ Claimed(r) \/ (ClaimKey(r) /\ \A x \in keyRows : x.key # cmd[r].key)
<1>0. TypeOK /\ Session(r)
  BY Zenon DEF Inv, Sessions
<1>1. CASE ClaimKey(r)
  BY <1>0, <1>1, Zenon DEF TypeOK, Session, ClaimKey, Claimed, Open, tables
<1>2. CASE Commit(r)
  BY <1>0, <1>2, Zenon DEF TypeOK, Commit, Claimed, Open, Statements
<1>3. CASE Begin(r) \/ Retry(r)
  BY <1>0, <1>3, Zenon DEF TypeOK, Session, Begin, Retry, StartAttempt, Claimed, Open, tables, Statements
<1>4. CASE Conflict(r) \/ Rollback(r)
  BY <1>0, <1>4, Zenon DEF TypeOK, Session, Conflict, Rollback, EndTx, Claimed, Open, tables, Statements
<1>5. CASE Replay(r)
  BY <1>0, <1>5, Zenon DEF TypeOK, Session, Replay, ReplayFrom, Claimed, Open, tables, Statements
<1>6. CASE ReadBatch(r) \/ AppendEvent(r) \/ CompleteKey(r)
  BY <1>0, <1>6, Zenon DEF TypeOK, Session, ReadBatch, AppendEvent, CompleteKey, Claimed, Open, tables, Statements
<1>7. CASE Decide(r)
  BY <1>0, <1>7, Zenon DEF TypeOK, Session, Decide, Refuse, InsertEntries, Claimed, Open, tables, Statements
<1>8. CASE RejectInput(r) \/ Return(r)
  BY <1>0, <1>8, Zenon DEF TypeOK, RejectInput, Return, Claimed, Open, Statements
<1>9. CASE Abandon(r)
  BY <1>0, <1>9, Zenon DEF TypeOK, Session, Abandon, Claimed, Open, tables, Statements
<1> QED
  BY <1>1, <1>2, <1>3, <1>4, <1>5, <1>6, <1>7, <1>8, <1>9, Zenon DEF StepOf, Progress

\* No committed row has the key, or the transfer, of a transaction that has
\* written everything and now commits.
LEMMA CommitIsNew ==
  ASSUME Inv, NEW r \in Requests, Commit(r), wrote[r] = Written
  PROVE  /\ Claimed(r)
         /\ \A x \in keyRows : /\ x.key # cmd[r].key
                               /\ x.transfer[1] # r /\ x.transfer # TransferId(r)
<1>1. Claimed(r)
  BY Zenon DEF Commit, Claimed, Open, Statements, Written
<1>2. \A x \in keyRows : x.key # cmd[r].key
  BY <1>1, Zenon DEF Inv, Books, KeysFree
<1>3. ~ Author(r)
  BY CommitAuthor
<1> QED
  BY <1>1, <1>2, <1>3, StrangerHasNothing, Zenon

LEMMA KeysFreeStep ==
  ASSUME Inv, NEW r \in Requests, StepOf(r)
  PROVE  KeysFree'
<1>0. TypeOK /\ KeysFree /\ cmd' = cmd
  BY Zenon DEF Inv, Books, StepOf, Progress, RejectInput, Begin, StartAttempt, Retry, ClaimKey, Replay,
     ReadBatch, Decide, AppendEvent, CompleteKey, Commit, Return, Conflict, Abandon, Rollback
<1>1. \A q \in Requests : q # r => (Claimed(q)' <=> Claimed(q))
  BY <1>0, Frame, Zenon DEF Claimed, Open
<1>2. ASSUME Claimed(r)'
      PROVE  /\ \A x \in keyRows' : x.key # cmd[r].key
             /\ \A q \in Requests : q # r /\ Claimed(q) => cmd[q].key # cmd[r].key
  <2>1. keyRows' = keyRows
    BY <1>2, ClaimedStep, Zenon
  <2>2. CASE Claimed(r)
    BY <1>0, <2>1, <2>2 DEF KeysFree
  <2>3. CASE ClaimKey(r) /\ \A x \in keyRows : x.key # cmd[r].key
    BY <2>1, <2>3, Zenon DEF ClaimKey, WaitsForKey, Claimed
  <2> QED
    BY <1>2, <2>2, <2>3, ClaimedStep, Zenon
<1>3. ASSUME NEW q \in Requests, q # r, Claimed(q)
      PROVE  \A x \in keyRows' : x.key # cmd[q].key
  <2>1. CASE keyRows' = keyRows
    BY <1>0, <1>3, <2>1 DEF KeysFree
  <2>2. CASE /\ Commit(r) /\ wrote[r] = Written
             /\ keyRows' = keyRows \cup {StoredKey(cmd[r], TransferId(r), "completed")}
    <3>1. cmd[r].key # cmd[q].key
      BY <1>0, <1>3, <2>2, CommitIsNew, Zenon DEF KeysFree
    <3> QED
      BY <1>0, <1>3, <2>2, <3>1 DEF KeysFree, StoredKey
  <2> QED
    BY <2>1, <2>2, RowsStep, Zenon
<1>4. \A p, q \in Requests : p # q /\ Claimed(p)' /\ Claimed(q)' => cmd[p].key # cmd[q].key
  BY <1>0, <1>1, <1>2, Zenon DEF KeysFree
<1> QED
  BY <1>0, <1>1, <1>2, <1>3, <1>4, Zenon DEF KeysFree

LEMMA RowsKept ==
  ASSUME Inv, NEW r \in Requests, StepOf(r)
  PROVE  Rows' /\ keyRows \subseteq keyRows'
<1>1. ASSUME NEW x \in keyRows
      PROVE  x.state = "completed" /\ Author(x.transfer[1])' /\ x.transfer = TransferId(x.transfer[1])'
  <2>1. x.state = "completed" /\ Author(x.transfer[1]) /\ x.transfer = TransferId(x.transfer[1])
    BY Zenon DEF Inv, Books, Rows
  <2>2. Author(x.transfer[1])' /\ attempt'[x.transfer[1]] = attempt[x.transfer[1]]
    BY <2>1, AuthorStays, Zenon
  <2> QED
    BY <2>1, <2>2, Zenon DEF TransferId
<1>2. CASE keyRows' = keyRows
  BY <1>1, <1>2, Zenon DEF Rows
<1>3. CASE /\ Commit(r) /\ wrote[r] = Written
           /\ keyRows' = keyRows \cup {StoredKey(cmd[r], TransferId(r), "completed")}
  <2>1. Author(r)' /\ attempt' = attempt
    BY <1>3, CommitAuthor, Zenon
  <2>2. TransferId(r)[1] = r /\ TransferId(r)' = TransferId(r)
    BY <2>1, IdFacts DEF Inv, TransferId
  <2> QED
    BY <1>1, <1>3, <2>1, <2>2 DEF Rows, StoredKey
<1> QED
  BY <1>2, <1>3, RowsStep, Zenon

\* A transaction that ends well has the row that it answers with.
LEMMA OwnAnswerable ==
  ASSUME Inv, NEW r \in Requests, StepOf(r)
  PROVE  Answerable(r)'
<1>0. TypeOK /\ Session(r) /\ Answerable(r)
  BY DEF Inv, Sessions, Books
<1>1. CASE Replay(r)
  <2>1. PICK x \in keyRows : x.key = cmd[r].key /\ ReplayFrom(r, x)
    BY <1>1, Zenon DEF Replay
  <2>2. keyRows' = keyRows /\ cmd' = cmd
    BY <1>1 DEF Replay, tables
  <2>3. CASE ReplayOutcome(x, cmd[r]) = "ok"
    <3>1. result'[r] = x.transfer /\ x.fingerprint = Fingerprint(cmd[r])
      BY <1>0, <2>1, <2>3, Zenon DEF TypeOK, ReplayFrom, ReplayOutcome
    <3> QED
      BY <2>1, <2>2, <3>1, Zenon DEF Answerable, RowFor
  <2>4. CASE ReplayOutcome(x, cmd[r]) # "ok"
    <3>1. pc'[r] = "rollback"
      BY <1>0, <2>1, <2>4, Zenon DEF TypeOK, ReplayFrom
    <3> QED
      BY <3>1 DEF Answerable
  <2> QED
    BY <2>3, <2>4, Zenon
<1>2. CASE Commit(r)
  <2>1. wrote[r] \in {{}, Written} /\ cmd' = cmd /\ result' = result
    BY <1>0, <1>2 DEF Session, Commit
  <2>2. CASE wrote[r] = {}
    BY <1>0, <1>2, <2>1, <2>2, RowsKept, Zenon DEF Commit, Answerable, RowFor
  <2>3. CASE wrote[r] = Written
    <3>1. result[r] = TransferId(r)
      BY <1>0, <2>3, Zenon DEF Session, Written
    <3>2. StoredKey(cmd[r], TransferId(r), "completed") \in keyRows'
      BY <1>2, <2>3, Zenon DEF Commit, KeyRow, Written
    <3> QED
      BY <2>1, <3>1, <3>2 DEF Answerable, RowFor, StoredKey
  <2> QED
    BY <2>1, <2>2, <2>3, Zenon
<1>3. CASE CompleteKey(r)
  <2>1. wrote'[r] # {} /\ pc'[r] = "commit"
    BY <1>0, <1>3, Zenon DEF TypeOK, CompleteKey
  <2> QED
    BY <2>1 DEF Answerable
<1>4. CASE Abandon(r)
  <2>1. /\ pc'[r] = pc[r] \/ pc'[r] = "closed"
        /\ wrote' = wrote /\ cmd' = cmd /\ result' = result /\ keyRows' = keyRows
    BY <1>0, <1>4 DEF TypeOK, Abandon, tables
  <2> QED
    BY <1>0, <2>1, Zenon DEF Answerable, RowFor
<1>5. CASE pc'[r] \notin {"committed", "commit"}
  BY <1>5, Zenon DEF Answerable
<1>6. CASE RejectInput(r) \/ Begin(r) \/ Retry(r) \/ ClaimKey(r) \/ ReadBatch(r) \/ AppendEvent(r)
           \/ Return(r) \/ Rollback(r)
  BY <1>0, <1>5, <1>6, Zenon DEF TypeOK, RejectInput, Begin, Retry, StartAttempt, ClaimKey, ReadBatch,
     AppendEvent, Return, Rollback
<1>7. CASE Decide(r) \/ Conflict(r)
  BY <1>0, <1>5, <1>7 DEF TypeOK, Decide, Refuse, InsertEntries, Conflict
<1> QED
  BY <1>1, <1>2, <1>3, <1>4, <1>6, <1>7, Zenon DEF StepOf, Progress

\* A step of r tells r the truth.
LEMMA OwnTold ==
  ASSUME Inv, NEW r \in Requests, StepOf(r)
  PROVE  Told(r)'
<1>0. TypeOK /\ Session(r) /\ Answerable(r) /\ Told(r)
  BY DEF Inv, Sessions, Books
<1>1. CASE Return(r)
  <2>1. PICK x \in keyRows : /\ x.key = cmd[r].key /\ x.fingerprint = Fingerprint(cmd[r])
                             /\ x.transfer = result[r]
    BY <1>0, <1>1, Zenon DEF Return, Answerable, RowFor
  <2>2. /\ keyRows' = keyRows /\ cmd' = cmd /\ result' = result
        /\ resp'[r] = IF "claim" \in wrote[r] THEN "created" ELSE "replayed"
    BY <1>0, <1>1 DEF TypeOK, Return, tables
  <2>3. "claim" \in wrote[r] => x.transfer[1] = r
    BY <1>0, <2>1, IdFacts DEF Session
  <2>4. x.transfer[1] = r => "claim" \in wrote[r]
    <3>1. ASSUME "claim" \notin wrote[r] PROVE ~ Author(r)
      BY <3>1, Zenon DEF Author, Written
    <3> QED
      BY <3>1, StrangerHasNothing, Zenon
  <2> QED
    BY <2>1, <2>2, <2>3, <2>4, Zenon DEF Told
<1>2. CASE resp'[r] \notin Answers
  BY <1>2 DEF Told
<1>3. CASE RejectInput(r) \/ Begin(r) \/ Retry(r) \/ Abandon(r)
  <2>1. resp'[r] \in {"invalid_amount", "same_account", "pending", "unknown"}
    BY <1>0, <1>3, CommandFacts, SMTT(30) DEF TypeOK, Session, RejectInput, Begin, Retry, StartAttempt, Abandon
  <2> QED
    BY <1>2, <2>1, Zenon DEF Answers
<1>4. CASE Replay(r)
  <2>1. resp'[r] \in {"pending", "idempotency_key_reuse", "request_in_flight"}
    BY <1>0, <1>4, Zenon DEF TypeOK, Replay, ReplayFrom, ReplayOutcome
  <2> QED
    BY <1>2, <2>1, Zenon DEF Answers
<1>5. CASE Decide(r) \/ Conflict(r)
  <2>1. resp'[r] \in {"pending", "account_not_found", "insufficient_funds", "concurrency_conflict"}
    BY <1>0, <1>5 DEF TypeOK, Decide, Refuse, InsertEntries, Conflict
  <2> QED
    BY <1>2, <2>1, Zenon DEF Answers
<1>6. CASE resp' = resp /\ result' = result /\ cmd' = cmd
  BY <1>0, <1>6, RowsKept, Zenon DEF Told
<1> QED
  BY <1>1, <1>3, <1>4, <1>5, <1>6, Zenon DEF StepOf, Progress, ClaimKey, ReadBatch, AppendEvent,
     CompleteKey, Commit, Rollback

LEMMA AnswersStep ==
  ASSUME Inv, NEW r \in Requests, StepOf(r)
  PROVE  \A q \in Requests : Answerable(q)' /\ Told(q)'
<1>1. ASSUME NEW q \in Requests, q # r PROVE Answerable(q)' /\ Told(q)'
  <2>1. /\ cmd' = cmd /\ pc'[q] = pc[q] /\ resp'[q] = resp[q] /\ result'[q] = result[q]
        /\ wrote'[q] = wrote[q]
    BY <1>1, Frame, Zenon DEF Inv
  <2>2. Answerable(q) /\ Told(q)
    BY Zenon DEF Inv, Books
  <2>3. keyRows \subseteq keyRows'
    BY RowsKept
  <2>4. RowFor(q) => RowFor(q)'
    BY <2>1, <2>3, Zenon DEF RowFor
  <2> QED
    BY <2>1, <2>2, <2>3, <2>4 DEF Answerable, Told
<1> QED
  BY <1>1, OwnAnswerable, OwnTold, Zenon

\* The rows, the entries and the events of the keys grow together.
LEMMA ExactlyOnceStep ==
  ASSUME Inv, NEW r \in Requests, StepOf(r)
  PROVE  (/\ ExactlyOnce
          /\ IsFiniteSet({x.transfer : x \in keyRows}) /\ IsFiniteSet(outbox))'
<1>0. /\ ExactlyOnce
      /\ IsFiniteSet({x.transfer : x \in keyRows}) /\ IsFiniteSet(outbox)
  BY DEF Inv, Books
<1>1. CASE keyRows' = keyRows /\ outbox' = outbox /\ entries' = entries
  BY <1>0, <1>1, Zenon DEF ExactlyOnce
<1>2. CASE /\ Commit(r) /\ wrote[r] = Written
           /\ keyRows' = keyRows \cup {StoredKey(cmd[r], TransferId(r), "completed")}
           /\ outbox' = outbox \cup {[event |-> r, transfer |-> TransferId(r)]}
  <2>0. PICK row, event, new, ids, m :
          /\ new = TransferId(r) /\ row = StoredKey(cmd[r], new, "completed")
          /\ event = [event |-> r, transfer |-> new]
          /\ ids = {x.transfer : x \in keyRows} /\ m = Len(entries)
    BY Zenon
  <2>1. /\ row.key = cmd[r].key /\ row.transfer = new /\ row.state = "completed"
        /\ event.transfer = new /\ new[1] = r
    BY <2>0, IdFacts, Zenon DEF StoredKey, Inv
  <2>2. \A x \in keyRows : x.key # cmd[r].key /\ x.transfer[1] # r /\ x.transfer # new
    BY <1>2, <2>0, CommitIsNew, Zenon
  <2>3. /\ keyRows' = keyRows \cup {row} /\ outbox' = outbox \cup {event}
        /\ new \notin ids
    BY <1>2, <2>0, <2>2
  <2>4. /\ IsFiniteSet(ids) /\ IsFiniteSet(outbox) /\ {o.transfer : o \in outbox} = ids
        /\ m = 2 * Cardinality(ids) /\ Cardinality(outbox) = Cardinality(ids)
        /\ \A t \in ids : Cardinality({i \in 1 .. m : entries[i].transfer = t}) = 2
        /\ \A x \in keyRows : x.state = "completed"
        /\ \A x, y \in keyRows : x.key = y.key \/ x.transfer[1] = y.transfer[1] => x = y
    BY <1>0, <2>0, Zenon DEF ExactlyOnce
  <2>5. event \notin outbox
    BY <2>1, <2>3, <2>4, Zenon
  <2>6. /\ {x.transfer : x \in keyRows'} = ids \cup {new}
        /\ {o.transfer : o \in outbox'} = ids \cup {new}
    <3>1. {x.transfer : x \in keyRows'} = {x.transfer : x \in keyRows} \cup {row.transfer}
      BY <2>3, Zenon
    <3>2. {o.transfer : o \in outbox'} = {o.transfer : o \in outbox} \cup {event.transfer}
      BY <2>3, Zenon
    <3> QED
      BY <2>0, <2>1, <2>4, <3>1, <3>2, Zenon
  <2>7. /\ IsFiniteSet(ids \cup {new}) /\ Cardinality(ids \cup {new}) = Cardinality(ids) + 1
        /\ IsFiniteSet(outbox') /\ Cardinality(outbox') = Cardinality(outbox) + 1
    BY <2>3, <2>4, <2>5, FS_AddElement
  <2>8. /\ m \in Nat /\ Len(entries') = m + 2 /\ m + 1 # m + 2
        /\ 1 .. m + 2 = (1 .. m) \cup {m + 1, m + 2}
        /\ \A i \in 1 .. m : entries'[i] = entries[i]
        /\ entries'[m + 1].transfer = new /\ entries'[m + 2].transfer = new
    BY <1>2, <2>0, CommitPositions, SMTT(30)
  <2>9. \A i \in 1 .. m : entries[i].transfer # new
    BY <1>2, <2>0, CommitAuthor, StrangerHasNothing, Zenon
  <2>10. Cardinality({i \in 1 .. Len(entries') : entries'[i].transfer = new}) = 2
    <3>1. {i \in 1 .. Len(entries') : entries'[i].transfer = new} = {m + 1, m + 2}
      BY <2>8, <2>9
    <3>2. IsFiniteSet({m + 1}) /\ Cardinality({m + 1}) = 1
      BY FS_Singleton, Zenon
    <3>3. Cardinality({m + 1} \cup {m + 2}) = Cardinality({m + 1}) + 1
      BY <2>8, <3>2, FS_AddElement, Zenon
    <3>4. {m + 1} \cup {m + 2} = {m + 1, m + 2}
      BY Zenon
    <3>5. Cardinality({m + 1} \cup {m + 2}) = 2
      BY <3>2, <3>3
    <3> QED
      BY <3>1, <3>4, <3>5, Zenon
  <2>11. ASSUME NEW t \in ids
         PROVE  Cardinality({i \in 1 .. Len(entries') : entries'[i].transfer = t}) = 2
    <3>1. {i \in 1 .. Len(entries') : entries'[i].transfer = t} = {i \in 1 .. m : entries[i].transfer = t}
      BY <2>3, <2>8, <2>11
    <3> QED
      BY <2>4, <3>1, Zenon
  <2>12. \A x, y \in keyRows' : x.key = y.key \/ x.transfer[1] = y.transfer[1] => x = y
    BY <2>1, <2>2, <2>3, <2>4
  <2>13. \A x \in keyRows' : x.state = "completed"
    BY <2>1, <2>3, <2>4, Zenon
  <2>14. /\ Len(entries') = 2 * Cardinality(ids \cup {new})
         /\ Cardinality(outbox') = Cardinality(ids \cup {new})
    <3>1. Cardinality(ids) \in Nat
      BY <2>4, FS_CardinalityType, Zenon
    <3> QED
      BY <2>4, <2>7, <2>8, <3>1
  <2>15. \A t \in ids \cup {new} :
           Cardinality({i \in 1 .. Len(entries') : entries'[i].transfer = t}) = 2
    BY <2>10, <2>11, Zenon
  <2> QED
    BY <2>6, <2>7, <2>12, <2>13, <2>14, <2>15, Zenon DEF ExactlyOnce
<1> QED
  BY <1>1, <1>2, RowsStep, Zenon

LEMMA InvInvariant == Spec => []Inv
<1>1. Inv /\ [Next]_vars => Inv'
  <2> SUFFICES ASSUME Inv, [Next]_vars PROVE Inv'
    BY Zenon
  <2>1. TypeOK' /\ Sessions' /\ Snapshots'
    BY TypeStep, SessionsStep, SnapshotsStep, Zenon
  <2>2. CASE UNCHANGED vars
    <3>0. Books /\ Log
      BY Zenon DEF Inv
    <3>u. /\ cmd' = cmd /\ pc' = pc /\ resp' = resp /\ result' = result /\ attempt' = attempt
          /\ snap' = snap /\ wrote' = wrote /\ entries' = entries /\ keyRows' = keyRows
          /\ outbox' = outbox
      BY <2>2, Zenon DEF vars
    <3>1. Books'
      <4>1. \A r \in Requests : Answerable(r)' /\ Told(r)'
        BY <3>0, <3>u, ZenonT(30) DEF Books, Answerable, RowFor, Told
      <4>2. KeysFree' /\ Rows'
        BY <3>0, <3>u, Zenon DEF Books, KeysFree, Claimed, Open, Rows, Author, TransferId
      <4>3. ExactlyOnce'
        BY <3>0, <3>u, ZenonT(30) DEF Books, ExactlyOnce
      <4> QED
        BY <3>0, <3>u, <4>1, <4>2, <4>3, Zenon DEF Books
    <3>2. Log'
      <4>1. Posted' /\ Single' /\ Whole'
        BY <3>0, <3>u DEF Log, Posted, Posting, Author, TransferId, Single, Whole
      <4>2. Serial'
        <5>1. PICK C : C = Committed
          BY Zenon
        <5>2. Committed' = C
          BY <3>u, <5>1 DEF Committed
        <5>3. \A x, y : MustPrecede(x, y)' <=> MustPrecede(x, y)
          BY <3>u, Zenon DEF MustPrecede, SeesRequest
        <5>4. Serializable(C)
          BY <3>0, <5>1, Zenon DEF Log, Serial
        <5> QED
          BY <5>2, <5>3, <5>4, Zenon DEF Serial, Serializable
      <4> QED
        BY <4>1, <4>2, Zenon DEF Log
    <3> QED
      BY <2>1, <3>1, <3>2, Zenon DEF Inv
  <2>3. ASSUME NEW r \in Requests, StepOf(r) PROVE Inv'
    <3>1. Books'
      BY <2>3, AnswersStep, KeysFreeStep, RowsKept, ExactlyOnceStep, Zenon DEF Books
    <3>2. Log'
      BY <2>3, PostedStep, SingleStep, WholeStep, SerialStep, Zenon DEF Log
    <3> QED
      BY <2>1, <3>1, <3>2 DEF Inv
  <2> QED
    BY <2>2, <2>3, StepCases, Zenon
<1> QED
  BY InitInv, <1>1, PTL DEF Spec

-----------------------------------------------------------------------------
\* What an author's session shows for ever: a valid command whose debit was
\* covered by the balance of its snapshot.
LEMMA AuthorFacts ==
  ASSUME Inv, NEW q, Author(q)
  PROVE  /\ q \in Requests /\ cmd[q].amount \in Nat /\ cmd[q].from # cmd[q].to
         /\ snap[q] \in 0 .. Len(entries)
         /\ CanDebit(RunningSum(entries, cmd[q].from)[snap[q]], cmd[q].amount, cmd[q].from)
<1>1. TypeOK /\ q \in Requests /\ Session(q) /\ Snapshot(q) /\ "entries" \in wrote[q]
  BY Zenon DEF Inv, Sessions, Snapshots, Author, Written
<1>2. cmd[q].amount \in Nat /\ cmd[q].from # cmd[q].to
  BY <1>1, CommandFacts DEF Session
<1>3. CanDebit(RunningSum(entries, cmd[q].from)[snap[q]], cmd[q].amount, cmd[q].from)
  BY <1>1, Zenon DEF Session, Snapshot
<1> QED
  BY <1>1, <1>2, <1>3, Zenon DEF TypeOK

\* Only the debit of a committed transfer from a takes money from a.
LEMMA DebitsOf ==
  ASSUME Inv, NEW a, NEW i \in 1 .. Len(entries), NEW q, q = entries[i].transfer[1]
  PROVE  /\ q \in Committed /\ Author(q) /\ entries[i].transfer = TransferId(q)
         /\ \/ AmountFor(entries[i], a) >= 0
            \/ /\ cmd[q].from = a /\ entries[i].account = a
               /\ AmountFor(entries[i], a) = -cmd[q].amount
<1>1. /\ Author(q) /\ entries[i].transfer = TransferId(q)
      /\ \/ entries[i].account = cmd[q].from /\ entries[i].amount = -cmd[q].amount
         \/ entries[i].account = cmd[q].to /\ entries[i].amount = cmd[q].amount
  BY Zenon DEF Inv, Log, Posted, Posting
<1>2. cmd[q].amount \in Nat
  BY <1>1, AuthorFacts, Zenon
<1>3. q \in Committed
  BY Zenon DEF Committed
<1>4. \/ AmountFor(entries[i], a) = 0
      \/ entries[i].account = a /\ AmountFor(entries[i], a) = entries[i].amount
  BY Zenon DEF AmountFor
<1>5. CASE AmountFor(entries[i], a) = 0 \/ AmountFor(entries[i], a) = cmd[q].amount
  <2>1. AmountFor(entries[i], a) >= 0
    BY <1>2, <1>5
  <2> QED
    BY <1>1, <1>3, <2>1, Zenon
<1>6. CASE /\ entries[i].account = a /\ AmountFor(entries[i], a) = entries[i].amount
           /\ entries[i].account = cmd[q].from /\ entries[i].amount = -cmd[q].amount
  BY <1>1, <1>3, <1>6, Zenon
<1> QED
  BY <1>1, <1>4, <1>5, <1>6, Zenon

\* Of all the debits of an account, the last one in the serial order has seen
\* the others.
LEMMA LastDebit ==
  ASSUME Inv, NEW a, NEW p \in Committed, cmd[p].from = a
  PROVE  \E x \in Committed :
           /\ cmd[x].from = a
           /\ \A q \in Committed : q # x /\ cmd[q].from = a => SeesRequest(x, q)
<1> DEFINE m == Len(entries)
           D == {q \in Committed : cmd[q].from = a}
           N == Cardinality(Committed)
<1>1. N \in Nat
  <2> DEFINE f == [i \in 1 .. m |-> entries[i].transfer[1]]
  <2>1. Committed = {f[i] : i \in 1 .. m}
    BY Zenon DEF Committed
  <2>2. m \in Nat
    BY DEF Inv, TypeOK
  <2> HIDE DEF f, m
  <2>3. IsFiniteSet(Committed)
    BY <2>1, <2>2, FiniteImage, Zenon
  <2> QED
    BY <2>3, FS_CardinalityType, Zenon
<1>2. PICK pos \in [Committed -> 1 .. N] :
        \A x, y \in Committed : x # y /\ MustPrecede(x, y) => pos[x] < pos[y]
  BY Zenon DEF Inv, Log, Serial, Serializable
<1> DEFINE P == {pos[q] : q \in D}
<1> HIDE DEF N
<1>3. P \in SUBSET Int /\ P # {} /\ N \in Int /\ \A k \in P : k <= N
  <2>1. \A q \in D : pos[q] \in 1 .. N
    BY <1>2, Zenon
  <2>2. p \in D
    BY Zenon
  <2> QED
    BY <1>1, <2>1, <2>2
<1>4. PICK top \in P : \A k \in P : k <= top
  <2> HIDE DEF P
  <2> QED
    BY <1>3, BoundedMax, Zenon
<1>5. PICK x \in D : top = pos[x]
  BY Zenon
<1>6. ASSUME NEW q \in Committed, q # x, cmd[q].from = a
      PROVE  SeesRequest(x, q)
  <2>1. pos[q] <= pos[x] /\ pos[q] \in 1 .. N /\ pos[x] \in 1 .. N
    BY <1>2, <1>4, <1>5, <1>6
  <2>2. ~ MustPrecede(x, q)
    BY <1>1, <1>2, <1>6, <2>1
  <2> QED
    BY <1>6, <2>2, Zenon DEF MustPrecede
<1> QED
  BY <1>5, <1>6, Zenon

\* A serial order of the committed transfers keeps every customer covered.
LEMMA SerialMeansNonNegative ==
  ASSUME Inv
  PROVE  NonNegative
<1> SUFFICES ASSUME NEW a \in Customers
             PROVE  Balance(entries, a) >= 0
  BY DEF NonNegative
<1>0. entries \in Seq(Entry) /\ Len(entries) \in Nat
  BY DEF Inv, TypeOK
<1>1. CASE \A p \in Committed : cmd[p].from # a
  <2>0. PICK n \in Nat : n = 0
    BY Zenon
  <2>1. OneDebit(entries, a, n, n, n)
    BY <1>1, <2>0, DebitsOf, SMTT(30) DEF OneDebit
  <2>2. Balance(entries, a) >= RunningSum(entries, a)[n] - n
    <3>1. n \in 0 .. Len(entries)
      BY <1>0, <2>0
    <3> QED
      BY <1>0, <2>1, <3>1, OneDebitLater, Zenon
  <2>3. RunningSum(entries, a)[n] = 0
    <3>1. IsRunningSum(RunningSum(entries, a), entries, a, Len(entries))
      BY <1>0, RunningSumDef, Zenon
    <3> QED
      BY <1>0, <2>0, <3>1, Zenon DEF IsRunningSum
  <2>4. Balance(entries, a) \in Int
    BY <1>0, BalanceType, Zenon
  <2> QED
    BY <2>0, <2>2, <2>3, <2>4
<1>2. ASSUME NEW p \in Committed, cmd[p].from = a
      PROVE  Balance(entries, a) >= 0
  <2>1. PICK x \in Committed :
          /\ cmd[x].from = a
          /\ \A q \in Committed : q # x /\ cmd[q].from = a => SeesRequest(x, q)
    BY <1>2, LastDebit, Zenon
  <2>2. PICK n, c : n = snap[x] /\ c = cmd[x].amount
    BY Zenon
  <2>3. Author(x)
    BY DEF Inv, Log, Posted, Posting, Committed
  <2>4. /\ n \in 0 .. Len(entries) /\ c \in Nat /\ x \in Requests
        /\ CanDebit(RunningSum(entries, a)[n], c, a)
    BY <2>1, <2>2, <2>3, AuthorFacts, Zenon
  <2>5. PICK d : \A j \in 1 .. Len(entries) :
                   entries[j].transfer[1] = x /\ entries[j].account = a => j = d
    <3>1. \A i, j \in 1 .. Len(entries) :
            /\ entries[i].transfer[1] = x /\ entries[i].account = a
            /\ entries[j].transfer[1] = x /\ entries[j].account = a
            => i = j
      <4>1. \A i \in 1 .. Len(entries) :
              entries[i].transfer[1] = x => entries[i].transfer = TransferId(x)
        BY DebitsOf, Zenon
      <4> QED
        BY <4>1, Zenon DEF Inv, Log, Single
    <3> QED
      BY <3>1, Zenon
  <2>6. ASSUME NEW i \in n + 1 .. Len(entries)
        PROVE  AmountFor(entries[i], a) >= 0 \/ (i = d /\ AmountFor(entries[i], a) = -c)
    <3>1. i \in 1 .. Len(entries) /\ ~ (i <= n) /\ n \in Nat
      BY <1>0, <2>4
    <3>2. PICK q : q = entries[i].transfer[1]
      BY Zenon
    <3>3. CASE cmd[q].from = a /\ entries[i].account = a /\ AmountFor(entries[i], a) = -cmd[q].amount
      <4>1. ASSUME q # x PROVE FALSE
        <5>1. q \in Committed
          BY <3>1, <3>2, DebitsOf, Zenon
        <5>2. PICK k \in 1 .. n : entries[k].transfer[1] = q
          BY <2>1, <2>2, <3>3, <4>1, <5>1, Zenon DEF SeesRequest
        <5>3. k \in 1 .. Len(entries) /\ k <= n
          BY <1>0, <2>4, <5>2
        <5>4. entries[k].transfer = TransferId(q) /\ entries[i].transfer = TransferId(q)
          BY <3>1, <3>2, <5>2, <5>3, DebitsOf, Zenon
        <5> QED
          BY <2>2, <2>4, <3>1, <5>3, <5>4 DEF Inv, Log, Whole
      <4> QED
        BY <2>2, <2>5, <3>1, <3>2, <3>3, <4>1, Zenon
    <3> QED
      BY <3>1, <3>2, <3>3, DebitsOf
  <2>7. Balance(entries, a) >= RunningSum(entries, a)[n] - c
    <3>1. OneDebit(entries, a, n, d, c)
      BY <2>6 DEF OneDebit
    <3> QED
      BY <1>0, <2>4, <3>1, OneDebitLater, Zenon
  <2>8. Balance(entries, a) \in Int /\ RunningSum(entries, a)[n] \in Int
    <3>1. IsRunningSum(RunningSum(entries, a), entries, a, Len(entries))
      BY <1>0, RunningSumDef, Zenon
    <3>2. RunningSum(entries, a)[n] \in Int
      BY <1>0, <2>4, <3>1 DEF IsRunningSum
    <3> QED
      BY <1>0, <3>2, BalanceType, Zenon
  <2>9. a # System
    BY Zenon DEF Customers
  <2> QED
    BY <2>4, <2>7, <2>8, <2>9 DEF CanDebit
<1> QED
  BY <1>1, <1>2, Zenon

-----------------------------------------------------------------------------
(* For any accounts, requests, commands and number of attempts: the rows   *)
(* and the sessions of the serializable strategy have their types, and the *)
(* attempts that InTx makes never exceed its maximum.                      *)
THEOREM SerializableTypes == Spec => []TypeOK
<1>1. Inv => TypeOK
  BY DEF Inv
<1> QED
  BY <1>1, InvInvariant, PTL

(* Without a single row lock no customer account is ever negative: the     *)
(* attempts may decide on stale snapshots, but a set of transfers that has *)
(* a serial order cannot overdraw (CanDebit on the read batch, the         *)
(* isolation level that BeginTx asks for).                                 *)
THEOREM SerializableNeverNegative == Spec => []NonNegative
<1>1. Inv => NonNegative
  BY SerialMeansNonNegative, Zenon
<1> QED
  BY <1>1, InvInvariant, PTL

(* However many attempts the requests with a key make, the key moves its   *)
(* money once and is announced once, and no request commits two attempts   *)
(* (the fresh transfer id of each attempt, the claim, the retry loop).     *)
THEOREM SerializableKeysActOnce == Spec => []ExactlyOnce
<1>1. Inv => ExactlyOnce
  BY Zenon DEF Inv, Books
<1> QED
  BY <1>1, InvInvariant, PTL

(* A success names the committed transfer of that key and body, never the  *)
(* result of an attempt that was aborted (the result that fn clears).      *)
THEOREM SerializableAnswersAreTrue == Spec => []TruthfulAnswers
<1>1. Inv => TruthfulAnswers
  BY Zenon DEF Inv, Books, Told, TruthfulAnswers
<1> QED
  BY <1>1, InvInvariant, PTL

(* ErrConcurrencyConflict and every refusal leave nothing behind: the      *)
(* caller may send the request again (InTx giving up, the rollbacks).      *)
THEOREM ConflictsAreSafe == Spec => []ConflictCommitsNothing
<1>1. Inv => ConflictCommitsNothing
  <2> SUFFICES ASSUME Inv, NEW r \in Requests,
                      resp[r] \in Refusals \cup {"concurrency_conflict"}
               PROVE  r \notin Committed /\ \A x \in keyRows : x.transfer[1] # r
    BY DEF ConflictCommitsNothing
  <2>1. ~ Author(r)
    BY DEF Author, Refusals
  <2> QED
    BY <2>1, StrangerHasNothing, Zenon DEF Committed
<1> QED
  BY <1>1, InvInvariant, PTL

-----------------------------------------------------------------------------
\* The abstract state that a state of the serializable strategy stands for.
BalanceMap  == [a \in Accounts |-> Balance(entries, a)]
AnswerMap   == [r \in Requests |-> IF resp[r] \in Answers THEN "answered"
                                   ELSE IF resp[r] = "pending" THEN "pending" ELSE "unknown"]
ReceiptMap  == {<<r, result[r]>> : r \in {q \in Requests : resp[q] \in Answers}}
AnnounceMap == {o.transfer : o \in outbox}

LEMMA InitContract == Init => Contract!Init
<1> SUFFICES ASSUME Init PROVE Contract!Init
  BY Zenon
<1>1. [a \in Accounts |-> Balance(entries, a)] = [a \in Accounts |-> 0]
  BY BalanceEmpty, Zenon DEF Init
<1>2. AnswerMap = [r \in Requests |-> "pending"]
  BY Zenon DEF Init, Answers, AnswerMap
<1>3. {<<r, result[r]>> : r \in {q \in Requests : resp[q] \in Answers}} = {}
  BY Zenon DEF Init, Answers
<1> QED
  BY <1>1, <1>2, <1>3, Zenon DEF Init, Contract!Init, AnswerMap

\* The vocabulary of the use case is the same on both sides.
LEMMA SameWords ==
  /\ \A c : Contract!InputError(c) = InputError(c)
  /\ \A c : Contract!AccountsExist(c) = AccountsExist(c)
  /\ \A c : Contract!Fingerprint(c) = Fingerprint(c)
  /\ \A c, t, st : Contract!StoredKey(c, t, st) = StoredKey(c, t, st)
  /\ \A b, n, a : Contract!CanDebit(b, n, a) = CanDebit(b, n, a)
BY Zenon DEF InputError, ValidAmount, AccountsExist, Fingerprint, StoredKey, CanDebit,
   Contract!InputError, Contract!ValidAmount, Contract!AccountsExist, Contract!Fingerprint,
   Contract!StoredKey, Contract!CanDebit

\* A step that keeps the rows, the answers and the results that were given
\* away is invisible.
LEMMA Invisible ==
  ASSUME UNCHANGED <<cmd, entries, keyRows, outbox, resp>>,
         \A q \in Requests : resp[q] \in Answers => result'[q] = result[q]
  PROVE  UNCHANGED Contract!vars
<1>1. BalanceMap' = BalanceMap /\ AnnounceMap' = AnnounceMap /\ AnswerMap' = AnswerMap
  BY Zenon DEF BalanceMap, AnnounceMap, AnswerMap
<1>2. ReceiptMap' = ReceiptMap
  BY Zenon DEF ReceiptMap
<1> QED
  BY <1>1, <1>2, Zenon DEF Contract!vars, BalanceMap, AnnounceMap, AnswerMap, ReceiptMap

\* Every refusal, conflict and lost answer is an answer without a promise.
LEMMA TellRefines ==
  ASSUME TypeOK, NEW r \in Requests, NEW word, word \notin Answers \cup {"pending"},
         resp[r] = "pending", resp' = [resp EXCEPT ![r] = word],
         UNCHANGED <<cmd, entries, keyRows, outbox, result>>
  PROVE  Contract!Next
<1>1. \A q \in Requests : resp'[q] = IF q = r THEN word ELSE resp[q]
  BY Zenon DEF TypeOK
<1>2. AnswerMap[r] = "pending"
  BY Zenon DEF AnswerMap, Answers
<1>3. AnswerMap' = [AnswerMap EXCEPT ![r] = "unknown"]
  BY <1>1, Zenon DEF AnswerMap
<1>4. {q \in Requests : resp'[q] \in Answers} = {q \in Requests : resp[q] \in Answers}
  BY <1>1 DEF Answers
<1>5. ReceiptMap' = ReceiptMap
  BY <1>4, Zenon DEF ReceiptMap
<1>6. BalanceMap' = BalanceMap /\ AnnounceMap' = AnnounceMap
  BY Zenon DEF BalanceMap, AnnounceMap
<1>7. Contract!GiveUp(r)
  BY <1>2, <1>3, <1>5, <1>6, Zenon
     DEF Contract!GiveUp, AnswerMap, ReceiptMap, BalanceMap, AnnounceMap
<1> QED
  BY <1>7, Zenon DEF Contract!Next

LEMMA TellingRefines ==
  ASSUME Inv, NEW r \in Requests, RejectInput(r) \/ Abandon(r) \/ Conflict(r) \/ Decide(r)
  PROVE  [Contract!Next]_(Contract!vars)
<1>0. TypeOK /\ Session(r)
  BY DEF Inv, Sessions
<1>1. CASE RejectInput(r)
  <2>1. resp[r] = "pending" /\ InputError(cmd[r]) \in {"invalid_amount", "same_account"}
    BY <1>0, <1>1, CommandFacts, ZenonT(30), Zenon DEF Session, RejectInput
  <2>2. InputError(cmd[r]) \notin Answers \cup {"pending"}
    BY <2>1 DEF Answers
  <2> QED
    BY <1>0, <1>1, <2>1, <2>2, TellRefines, Zenon DEF RejectInput, tables
<1>2. CASE Abandon(r)
  <2>1. "unknown" \notin Answers \cup {"pending"}
    BY Zenon DEF Answers
  <2> QED
    BY <1>0, <1>2, <2>1, TellRefines, Zenon DEF Abandon, tables
<1>3. CASE Conflict(r)
  <2>1. "concurrency_conflict" \notin Answers \cup {"pending"}
    BY Zenon DEF Answers
  <2>2. CASE resp' = [resp EXCEPT ![r] = "concurrency_conflict"]
    BY <1>0, <1>3, <2>1, <2>2, TellRefines, Zenon DEF Conflict, tables
  <2>3. CASE resp' = resp
    BY <1>3, <2>3, Invisible, Zenon DEF Conflict, tables
  <2> QED
    BY <1>3, <2>2, <2>3, Zenon DEF Conflict
<1>4. CASE Decide(r)
  <2>1. ASSUME NEW why \in {"account_not_found", "insufficient_funds"}, Refuse(r, why)
        PROVE  Contract!Next
    <3>1. why \notin Answers \cup {"pending"}
      BY Zenon DEF Answers
    <3> QED
      BY <1>0, <1>4, <2>1, <3>1, TellRefines, Zenon DEF Decide, Refuse, tables
  <2>2. CASE InsertEntries(r)
    BY <1>4, <2>2, Invisible, Zenon DEF Decide, InsertEntries, tables
  <2> QED
    BY <1>4, <2>1, <2>2, Zenon DEF Decide
<1> QED
  BY <1>1, <1>2, <1>3, <1>4, Zenon

LEMMA ReplayRefines ==
  ASSUME Inv, NEW r \in Requests, Replay(r)
  PROVE  [Contract!Next]_(Contract!vars)
<1>1. TypeOK /\ resp[r] = "pending"
  BY Zenon DEF Inv, Replay
<1>2. PICK x \in keyRows : x.key = cmd[r].key /\ ReplayFrom(r, x)
  BY Zenon DEF Replay
<1>3. CASE ReplayOutcome(x, cmd[r]) = "ok"
  <2>1. resp' = resp
    BY <1>1, <1>2, <1>3, Zenon DEF ReplayFrom, TypeOK
  <2>2. \A q \in Requests : resp[q] \in Answers => result'[q] = result[q]
    BY <1>1, <1>2 DEF ReplayFrom, TypeOK, Answers
  <2> QED
    BY <2>1, <2>2, Invisible, Zenon DEF Replay, tables
<1>4. CASE ReplayOutcome(x, cmd[r]) # "ok"
  <2>1. ReplayOutcome(x, cmd[r]) \notin Answers \cup {"pending"}
    BY <1>4 DEF ReplayOutcome, Answers
  <2>2. resp' = [resp EXCEPT ![r] = ReplayOutcome(x, cmd[r])] /\ result' = result
    BY <1>1, <1>2, <1>4, Zenon DEF ReplayFrom, TypeOK
  <2> QED
    BY <1>1, <2>1, <2>2, TellRefines, Zenon DEF Replay, tables
<1> QED
  BY <1>3, <1>4, Zenon

LEMMA ReturnRefines ==
  ASSUME Inv, NEW r \in Requests, Return(r)
  PROVE  Contract!Next
<1>1. TypeOK /\ resp[r] = "pending" /\ RowFor(r)
  BY Zenon DEF Inv, Sessions, Session, Books, Answerable, Return
<1>2. PICK x \in keyRows : /\ x.key = cmd[r].key /\ x.fingerprint = Fingerprint(cmd[r])
                            /\ x.transfer = result[r]
  BY <1>1, Zenon DEF RowFor
<1>3. \A q \in Requests : /\ q # r => resp'[q] = resp[q]
                          /\ resp'[q] \in Answers <=> q = r \/ resp[q] \in Answers
  BY <1>1, Zenon DEF TypeOK, Return, Answers
<1>4. ReceiptMap' = ReceiptMap \cup {<<r, result[r]>>}
  BY <1>3, Zenon DEF ReceiptMap, Return
<1>5. AnswerMap[r] = "pending" /\ AnswerMap' = [AnswerMap EXCEPT ![r] = "answered"]
  <2>1. AnswerMap[r] = "pending"
    BY <1>1, Zenon DEF AnswerMap, Answers
  <2> QED
    BY <1>3, <2>1, Zenon DEF AnswerMap
<1>6. BalanceMap' = BalanceMap /\ AnnounceMap' = AnnounceMap
  BY Zenon DEF BalanceMap, AnnounceMap, Return, tables
<1>7. Contract!Answer(r)
  BY <1>2, <1>4, <1>5, <1>6, SameWords, Zenon
     DEF Contract!Answer, AnswerMap, ReceiptMap, BalanceMap, AnnounceMap, Return, tables
<1> QED
  BY <1>7, Zenon DEF Contract!Next

\* The commit of an executed attempt is the transfer of the contract: its
\* debit is covered, for the ledger that it leaves is non-negative.
LEMMA CommitRefines ==
  ASSUME Inv, Inv', NEW r \in Requests, Commit(r)
  PROVE  [Contract!Next]_(Contract!vars)
<1>0. TypeOK /\ Session(r) /\ pc[r] = "commit"
  BY DEF Inv, Sessions, Commit
<1>1. CASE wrote[r] = {}
  BY <1>1, Invisible, Zenon DEF Commit
<1>2. CASE wrote[r] = Written
  <2>1. /\ cmd[r].from \in Accounts /\ cmd[r].to \in Accounts /\ cmd[r].from # cmd[r].to
        /\ Balance(entries', cmd[r].from) = Balance(entries, cmd[r].from) - cmd[r].amount
        /\ Balance(entries', cmd[r].to) = Balance(entries, cmd[r].to) + cmd[r].amount
        /\ \A a : a # cmd[r].from /\ a # cmd[r].to => Balance(entries', a) = Balance(entries, a)
    BY <1>2, CommitGrows
  <2>2. CanDebit(Balance(entries, cmd[r].from), cmd[r].amount, cmd[r].from)
    <3>1. NonNegative'
      BY SerialMeansNonNegative, PTL
    <3> QED
      BY <2>1, <3>1, Zenon DEF NonNegative, CanDebit, Customers
  <2>3. BalanceMap' = [BalanceMap EXCEPT ![cmd[r].from] = @ - cmd[r].amount,
                                         ![cmd[r].to] = @ + cmd[r].amount]
    BY <2>1, Zenon DEF BalanceMap
  <2>4. AnswerMap[r] \in {"pending", "unknown"}
    BY <1>0, Zenon DEF Session, Statements, AnswerMap, Answers
  <2>5. AnswerMap' = AnswerMap /\ ReceiptMap' = ReceiptMap /\ cmd' = cmd
    BY Zenon DEF AnswerMap, ReceiptMap, Commit
  <2>6. InputError(cmd[r]) = "none" /\ AccountsExist(cmd[r])
    BY <1>0, <1>2 DEF Session, Written
  <2>7. PICK t : t = TransferId(r)
    BY Zenon
  <2>8. /\ keyRows' = keyRows \cup {StoredKey(cmd[r], t, "completed")}
        /\ outbox' = outbox \cup {[event |-> r, transfer |-> t]}
    BY <1>2, <2>7, Zenon DEF Commit, KeyRow, Written
  <2>9. \A x \in keyRows : x.key # cmd[r].key /\ x.transfer # t
    BY <1>2, <2>7, CommitIsNew
  <2>10. t \in Transfers \ AnnounceMap
    <3>1. AnnounceMap = {x.transfer : x \in keyRows}
      BY Zenon DEF Inv, Books, ExactlyOnce, AnnounceMap
    <3> QED
      BY <1>0, <2>7, <2>9, <3>1, IdFacts, Zenon
  <2>11. AnnounceMap' = AnnounceMap \cup {t}
    <3>1. PICK event : event = [event |-> r, transfer |-> t]
      BY Zenon
    <3>2. event.transfer = t /\ outbox' = outbox \cup {event}
      BY <2>8, <3>1
    <3> QED
      BY <3>2, Zenon DEF AnnounceMap
  <2>12. BalanceMap[cmd[r].from] = Balance(entries, cmd[r].from)
    BY <2>1, Zenon DEF BalanceMap
  <2>13. Contract!Apply(r)
    BY <2>2, <2>3, <2>4, <2>5, <2>6, <2>8, <2>9, <2>10, <2>11, <2>12, SameWords
      , Zenon DEF Contract!Apply, Contract!KeyUsed, AnswerMap, ReceiptMap, BalanceMap, AnnounceMap
  <2> QED
    BY <2>13, Zenon DEF Contract!Next
<1> QED
  BY <1>0, <1>1, <1>2, Zenon DEF Session

\* Every step is a step of the contract or invisible to it.
LEMMA StepRefines ==
  ASSUME Inv, Inv', [Next]_vars
  PROVE  [Contract!Next]_(Contract!vars)
<1>1. CASE UNCHANGED vars
  BY <1>1, Invisible, Zenon DEF vars
<1>2. ASSUME NEW r \in Requests, StepOf(r)
      PROVE  [Contract!Next]_(Contract!vars)
  <2>1. CASE UNCHANGED <<cmd, entries, keyRows, outbox, resp, result>>
    BY <2>1, Invisible
  <2>2. CASE Begin(r) \/ Retry(r)
    <3>1. TypeOK /\ resp[r] = "pending" /\ StartAttempt(r)
      BY <2>2, Zenon DEF Inv, Sessions, Session, Begin, Retry
    <3>2. \A q \in Requests : resp[q] \in Answers => result'[q] = result[q]
      BY <3>1 DEF TypeOK, StartAttempt, Answers
    <3> QED
      BY <3>1, <3>2, Invisible, Zenon DEF StartAttempt, tables
  <2> QED
    BY <1>2, <2>1, <2>2, TellingRefines, ReplayRefines, ReturnRefines, CommitRefines
      , Zenon DEF StepOf, Progress, ClaimKey, ReadBatch, AppendEvent, CompleteKey, Rollback, tables
<1> QED
  BY <1>1, <1>2, StepCases

(* The serializable strategy implements the same contract of the API: for  *)
(* any accounts, requests, commands and number of attempts, with aborted   *)
(* and repeated attempts, races and late commits, what clients and the     *)
(* ledger show could have been produced by transfers that happen at single *)
(* instants on stored balances.                                            *)
THEOREM SerializableImplements == Spec => ImplementsContract
<1>1. Spec => []Inv
  BY InvInvariant, Zenon
<1>2. Init => Contract!Init
  BY InitContract, Zenon
<1>3. Inv /\ Inv' /\ [Next]_vars => [Contract!Next]_(Contract!vars)
  BY StepRefines, Zenon
<1> QED
  BY <1>1, <1>2, <1>3, PTL DEF Spec, ImplementsContract, Contract!Spec
=============================================================================
