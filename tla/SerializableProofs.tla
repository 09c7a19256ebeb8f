------------------------- MODULE SerializableProofs -------------------------
(***************************************************************************)
(* The serializable strategy, for any set of accounts, requests, commands  *)
(* and number of attempts: the inductive invariant, and that steps keep    *)
(* its parts about attempts, snapshots and the log of committed entries.   *)
(* SerializableAnswers has the parts about keys and answers, and the       *)
(* theorems.                                                               *)
(***************************************************************************)
EXTENDS SerializableTransfer, LedgerTheorems

\* One step of request r.
StepOf(r) == RejectInput(r) \/ Begin(r) \/ Progress(r) \/ Abandon(r)

\* Everything that the transaction of an executed transfer writes.
Written == {"claim", "entries", "event", "response"}

\* What an attempt at each statement has written, checked and may answer.
Session(r) ==
  /\ pc[r] \in {"idle", "backoff", "committed"} => resp[r] = "pending"
  /\ pc[r] \in Statements => resp[r] \in {"pending", "unknown"}
  /\ pc[r] \notin {"idle", "closed"} => InputError(cmd[r]) = "none"
  /\ pc[r] \in {"idle", "backoff", "claim", "load"} => wrote[r] = {}
  /\ pc[r] \in {"read", "decide"} => wrote[r] = {"claim"}
  /\ pc[r] = "event" => wrote[r] = {"claim", "entries"}
  /\ pc[r] = "complete" => wrote[r] = {"claim", "entries", "event"}
  /\ pc[r] \in {"commit", "committed", "closed"} => wrote[r] \in {{}, Written}
  /\ pc[r] = "rollback" => wrote[r] \subseteq {"claim"}
  /\ pc[r] \in {"claim", "load"} \/ "claim" \in wrote[r] => result[r] = TransferId(r)
  /\ "entries" \in wrote[r] => /\ InputError(cmd[r]) = "none" /\ AccountsExist(cmd[r])
                               /\ CanDebit(seen[r], cmd[r].amount, cmd[r].from)

\* The balance that r judged is the one that its snapshot shows, for ever.
Snapshot(r) ==
  pc[r] = "decide" \/ "entries" \in wrote[r] =>
    seen[r] = RunningSum(entries, cmd[r].from)[snap[r]]

\* The stored row that answers r with its result.
RowFor(r) ==
  \E x \in keyRows : /\ x.key = cmd[r].key /\ x.fingerprint = Fingerprint(cmd[r])
                     /\ x.transfer = result[r]

\* A transaction that ends well has, or is about to commit, the row it answers.
Answerable(r) ==
  pc[r] = "committed" \/ (pc[r] = "commit" /\ wrote[r] = {}) => RowFor(r)

\* r has inserted its key row and not yet ended its transaction.
Claimed(r) == Open(r) /\ "claim" \in wrote[r]

\* An open claim is the only row, committed or not, with its key.
KeysFree ==
  \A r \in Requests : Claimed(r) =>
    /\ \A x \in keyRows : x.key # cmd[r].key
    /\ \A q \in Requests : q # r /\ Claimed(q) => cmd[q].key # cmd[r].key

\* Request q has committed a transfer: its session will never act again.
Author(q) ==
  /\ q \in Requests /\ pc[q] \in {"committed", "closed"} /\ wrote[q] = Written
  /\ resp[q] \in {"pending", "unknown", "created"}

\* A committed entry is the debit or the credit of the last attempt of its
\* request, and that attempt's snapshot did not show it.
Posting(i) ==
  LET e == entries[i]
      q == e.transfer[1] IN
  /\ Author(q) /\ e.transfer = TransferId(q) /\ snap[q] < i
  /\ \/ e.account = cmd[q].from /\ e.amount = -cmd[q].amount
     \/ e.account = cmd[q].to /\ e.amount = cmd[q].amount

Posted == \A i \in 1 .. Len(entries) : Posting(i)

\* A transfer has one entry per account.
Single ==
  \A i, j \in 1 .. Len(entries) :
    entries[i].transfer = entries[j].transfer /\ entries[i].account = entries[j].account
      => i = j

\* A snapshot shows all of a transfer or nothing of it.
Whole ==
  \A r \in Requests, i, j \in 1 .. Len(entries) :
    entries[i].transfer = entries[j].transfer /\ i <= snap[r] => j <= snap[r]

\* A stored row is completed, and its request is the author of the transfer.
Rows ==
  \A x \in keyRows : /\ x.state = "completed"
                     /\ Author(x.transfer[1]) /\ x.transfer = TransferId(x.transfer[1])

\* TruthfulAnswers of one request.
Told(r) ==
  resp[r] \in Answers =>
    \E x \in keyRows : /\ x.key = cmd[r].key /\ x.transfer = result[r]
                       /\ x.fingerprint = Fingerprint(cmd[r])
                       /\ (resp[r] = "created") <=> (x.transfer[1] = r)

\* What Postgres kept: the committed transfers have a serial order.
Serial == Serializable(Committed)

\* The inductive invariant, in the parts that are proved separately.
Sessions == \A r \in Requests : Session(r)
Snapshots == \A r \in Requests : Snapshot(r)
Books ==
  /\ \A r \in Requests : Answerable(r) /\ Told(r)
  /\ KeysFree /\ Rows /\ ExactlyOnce
  /\ IsFiniteSet({x.transfer : x \in keyRows}) /\ IsFiniteSet(outbox)
Log == Posted /\ Single /\ Whole /\ Serial

Inv == TypeOK /\ Sessions /\ Snapshots /\ Books /\ Log

-----------------------------------------------------------------------------
\* Every step is a step of one request, or leaves everything alone.
LEMMA StepCases ==
  ASSUME [Next]_vars
  PROVE  UNCHANGED vars \/ \E r \in Requests : StepOf(r)
BY Zenon DEF Next, AllClosed, StepOf

\* What the command of a request is.
LEMMA CommandFacts ==
  ASSUME TypeOK, NEW r \in Requests
  PROVE  /\ cmd[r].key \in Keys
         /\ cmd[r].from \in AccountIds /\ cmd[r].to \in AccountIds
         /\ cmd[r].from \in Int /\ cmd[r].to \in Int /\ cmd[r].amount \in Int
         /\ InputError(cmd[r]) = "none" <=> cmd[r].amount > 0 /\ cmd[r].from # cmd[r].to
         /\ InputError(cmd[r]) \in {"none", "invalid_amount", "same_account"}
<1>1. cmd[r] \in Commands
  BY Zenon DEF TypeOK
<1> QED
  BY <1>1, CommandType, Zenon

\* The transfer id of an attempt names its request.
LEMMA IdFacts ==
  ASSUME TypeOK, NEW r \in Requests
  PROVE  TransferId(r) \in Transfers /\ TransferId(r)[1] = r
BY AttemptsAssumption DEF TypeOK, TransferId

LEMMA InitInv == Init => Inv
<1> SUFFICES ASSUME Init PROVE Inv
  BY Zenon
<1>0. entries = << >> /\ Len(entries) = 0 /\ 1 .. Len(entries) = {} /\ keyRows = {} /\ outbox = {}
  BY DEF Init
<1>1. TypeOK
  <2>1. \A r \in Requests : <<r, 1>> \in Transfers
    BY AttemptsAssumption
  <2> QED
    BY <1>0, <2>1, AttemptsAssumption DEF Init, TypeOK
<1>2. Sessions /\ Snapshots
  BY Zenon DEF Init, Sessions, Session, Snapshots, Snapshot, Statements, TransferId
<1>3. \A r \in Requests : Answerable(r) /\ Told(r)
  BY Zenon DEF Init, Answerable, Told, Answers
<1>4. KeysFree /\ Rows
  BY <1>0, Zenon DEF Init, KeysFree, Claimed, Rows
<1>5. ExactlyOnce
  <2>1. {x.transfer : x \in keyRows} = {} /\ {o.transfer : o \in outbox} = {}
    BY <1>0, Zenon
  <2> QED
    BY <1>0, <2>1, FS_EmptySet DEF ExactlyOnce
<1>6. Posted /\ Single /\ Whole
  BY <1>0, Zenon DEF Posted, Single, Whole
<1>7. Serial
  <2>1. Committed = {}
    BY <1>0, Zenon DEF Committed
  <2>2. [x \in {} |-> 1] \in [{} -> 1 .. Cardinality({})]
    BY Zenon
  <2> QED
    BY <2>1, <2>2, Zenon DEF Serial, Serializable
<1>8. {x.transfer : x \in keyRows} = {}
  BY <1>0, Zenon
<1> QED
  BY <1>0, <1>1, <1>2, <1>3, <1>4, <1>5, <1>6, <1>7, <1>8, FS_EmptySet, Zenon DEF Inv, Books, Log

\* The commit of an executed transfer, as a step of the ledger.
LEMMA CommitGrows ==
  ASSUME Inv, NEW r \in Requests, Commit(r), wrote[r] = Written
  PROVE  /\ cmd[r].from \in Accounts /\ cmd[r].to \in Accounts
         /\ cmd[r].from # cmd[r].to /\ cmd[r].amount > 0 /\ cmd[r].amount \in Int
         /\ entries' \in Seq(Entry)
         /\ PairAdded(entries', entries, TransferId(r), cmd[r].from, cmd[r].to, cmd[r].amount)
         /\ Balance(entries', cmd[r].from) = Balance(entries, cmd[r].from) - cmd[r].amount
         /\ Balance(entries', cmd[r].to) = Balance(entries, cmd[r].to) + cmd[r].amount
         /\ \A a : a # cmd[r].from /\ a # cmd[r].to => Balance(entries', a) = Balance(entries, a)
<1>1. TypeOK /\ Session(r)
  BY Zenon DEF Inv, Sessions
<1>2. /\ cmd[r].from \in Accounts /\ cmd[r].to \in Accounts
      /\ cmd[r].from # cmd[r].to /\ cmd[r].amount > 0 /\ cmd[r].amount \in Int
  BY <1>1, CommandFacts, Zenon DEF Session, Written, AccountsExist
<1>3. entries \in Seq(Entry) /\ base[r] \in Nat /\ TransferId(r) \in Transfers
  BY <1>1, IdFacts, SMTT(30) DEF TypeOK
<1>4. entries' = entries \o EntryPair(TransferId(r), cmd[r].from, cmd[r].to, cmd[r].amount, base[r])
  BY Zenon DEF Commit, Written
<1>5. PairAdded(entries', entries, TransferId(r), cmd[r].from, cmd[r].to, cmd[r].amount)
  BY <1>2, <1>3, <1>4, PairMoves, Zenon
<1>6. /\ entries' \in Seq(Entry)
      /\ Balance(entries', cmd[r].from) = Balance(entries, cmd[r].from) - cmd[r].amount
      /\ Balance(entries', cmd[r].to) = Balance(entries, cmd[r].to) + cmd[r].amount
      /\ \A a : a # cmd[r].from /\ a # cmd[r].to => Balance(entries', a) = Balance(entries, a)
  BY <1>2, <1>3, <1>4, BalancePair
<1> QED
  BY <1>2, <1>5, <1>6, Zenon

\* Rows are only added, and only by the commit of a transaction that has
\* executed everything.
LEMMA RowsStep ==
  ASSUME Inv, NEW r \in Requests, StepOf(r)
  PROVE  \/ keyRows' = keyRows /\ outbox' = outbox /\ entries' = entries
         \/ /\ Commit(r) /\ wrote[r] = Written
            /\ keyRows' = keyRows \cup {StoredKey(cmd[r], TransferId(r), "completed")}
            /\ outbox' = outbox \cup {[event |-> r, transfer |-> TransferId(r)]}
<1>1. CASE Commit(r)
  <2>1. wrote[r] \in {{}, Written}
    BY <1>1 DEF Commit, Inv, Sessions, Session
  <2> QED
    BY <1>1, <2>1, Zenon DEF Commit, KeyRow, Written
<1> QED
  BY <1>1, Zenon DEF StepOf, Progress, RejectInput, Begin, StartAttempt, Retry, ClaimKey, Replay,
     ReadBatch, Decide, AppendEvent, CompleteKey, Return, Conflict, Abandon, Rollback, tables

\* Types survive every step.
LEMMA TypeStep ==
  ASSUME Inv, [Next]_vars
  PROVE  TypeOK'
<1> USE DEF Statements
<1>t. TypeOK
  BY Zenon DEF Inv
<1>0. CASE UNCHANGED vars
  BY <1>t, <1>0, Zenon DEF TypeOK, vars
<1>1. ASSUME NEW r \in Requests, RejectInput(r) PROVE TypeOK'
  BY <1>t, <1>1, CommandFacts, SMTT(30) DEF TypeOK, RejectInput, tables, Refusals
<1>2. ASSUME NEW r \in Requests, Begin(r) \/ Retry(r) PROVE TypeOK'
  <2>1. StartAttempt(r) /\ TransferId(r) \in Transfers
    BY <1>t, <1>2, IdFacts, Zenon DEF Begin, Retry
  <2>2. Len(entries) \in 0 .. Len(entries)
    BY <1>t DEF TypeOK
  <2> QED
    BY <1>t, <2>1, <2>2, Zenon DEF TypeOK, StartAttempt, tables
<1>3. ASSUME NEW r \in Requests, ClaimKey(r) PROVE TypeOK'
  BY <1>t, <1>3, Zenon DEF TypeOK, ClaimKey, tables
<1>4. ASSUME NEW r \in Requests, Replay(r) PROVE TypeOK'
  <2>1. PICK row \in keyRows : row.key = cmd[r].key /\ ReplayFrom(r, row)
    BY <1>4, Zenon DEF Replay
  <2>2. row.transfer \in Transfers
    BY <1>t, Zenon DEF TypeOK, StoredKeys
  <2>3. ReplayOutcome(row, cmd[r]) \in Refusals \cup {"ok"}
    BY Zenon DEF ReplayOutcome, Refusals
  <2> QED
    BY <1>t, <1>4, <2>1, <2>2, <2>3, Zenon DEF TypeOK, Replay, ReplayFrom, tables
<1>5. ASSUME NEW r \in Requests, ReadBatch(r) PROVE TypeOK'
  <2>1. Balance(SubSeq(entries, 1, snap[r]), cmd[r].from) \in Int
    <3>1. SubSeq(entries, 1, snap[r]) \in Seq(Entry)
      BY <1>t DEF TypeOK
    <3> QED
      BY <3>1, BalanceType, Zenon
  <2> QED
    BY <1>t, <1>5, <2>1, Zenon DEF TypeOK, ReadBatch, tables
<1>6. ASSUME NEW r \in Requests, Decide(r) PROVE TypeOK'
  <2>1. CASE InsertEntries(r)
    BY <1>t, <1>6, <2>1 DEF TypeOK, Decide, InsertEntries, tables
  <2>2. ASSUME NEW why \in {"account_not_found", "insufficient_funds"}, Refuse(r, why)
        PROVE  TypeOK'
    BY <1>t, <1>6, <2>2, Zenon DEF TypeOK, Decide, Refuse, tables, Refusals
  <2> QED
    BY <1>6, <2>1, <2>2, Zenon DEF Decide
<1>7. ASSUME NEW r \in Requests, AppendEvent(r) PROVE TypeOK'
  BY <1>t, <1>7, Zenon DEF TypeOK, AppendEvent, tables
<1>8. ASSUME NEW r \in Requests, CompleteKey(r) PROVE TypeOK'
  BY <1>t, <1>8, Zenon DEF TypeOK, CompleteKey, tables
<1>9. ASSUME NEW r \in Requests, Commit(r) PROVE TypeOK'
  <2>1. wrote[r] \in {{}, Written}
    BY <1>9, Zenon DEF Inv, Sessions, Session, Commit
  <2>2. entries' \in Seq(Entry) /\ Len(entries) <= Len(entries') /\ Len(entries) \in Nat
        /\ Len(entries') \in Nat
    <3>1. CASE wrote[r] = {}
      BY <1>t, <1>9, <3>1 DEF Commit, TypeOK
    <3>2. CASE wrote[r] = Written
      BY <1>9, <3>2, CommitGrows DEF PairAdded
    <3> QED
      BY <2>1, <3>1, <3>2, Zenon
  <2>3. snap' \in [Requests -> 0 .. Len(entries')]
    BY <1>t, <1>9, <2>2 DEF TypeOK, Commit
  <2>4. KeyRow(r) \in StoredKeys /\ TransferId(r) \in Transfers
    BY <1>t, CommandFacts, IdFacts, Zenon DEF KeyRow, StoredKey, StoredKeys, Fingerprint
  <2>5. /\ keyRows' \subseteq StoredKeys
        /\ outbox' \subseteq [event : Requests, transfer : Transfers]
    BY <1>t, <1>9, <2>4 DEF TypeOK, Commit
  <2> QED
    BY <1>t, <1>9, <2>2, <2>3, <2>5, Zenon DEF TypeOK, Commit
<1>10. ASSUME NEW r \in Requests, Return(r) PROVE TypeOK'
  BY <1>t, <1>10, Zenon DEF TypeOK, Return, tables, Answers
<1>11. ASSUME NEW r \in Requests, Conflict(r) PROVE TypeOK'
  <2>1. 0 \in 0 .. Len(entries)
    BY <1>t DEF TypeOK
  <2>2. /\ wrote' \in [Requests -> SUBSET {"claim", "entries", "event", "response"}]
        /\ snap' \in [Requests -> 0 .. Len(entries)]
        /\ seen' \in [Requests -> Int] /\ base' \in [Requests -> Nat]
    BY <1>t, <1>11, <2>1 DEF TypeOK, Conflict, EndTx
  <2>3. /\ attempt' \in [Requests -> 1 .. MaxAttempts]
        /\ pc' \in [Requests -> Statements \cup {"idle", "backoff", "rollback", "committed", "closed"}]
        /\ resp' \in [Requests -> Answers \cup Refusals
                                   \cup {"pending", "unknown", "concurrency_conflict"}]
    <3>1. attempt[r] \in 1 .. MaxAttempts /\ MaxAttempts \in Nat
      BY <1>t, AttemptsAssumption, Zenon DEF TypeOK
    <3>2. CASE attempt[r] >= MaxAttempts
      BY <1>t, <1>11, <3>2, Zenon DEF TypeOK, Conflict
    <3>3. CASE ~ (attempt[r] >= MaxAttempts)
      <4>1. attempt[r] + 1 \in 1 .. MaxAttempts
        BY <3>1, <3>3
      <4>2. /\ attempt' = [attempt EXCEPT ![r] = attempt[r] + 1]
            /\ pc' = [pc EXCEPT ![r] = "backoff"] /\ resp' = resp
        BY <1>11, <3>3, Zenon DEF Conflict
      <4>3. attempt' \in [Requests -> 1 .. MaxAttempts]
        BY <1>t, <4>1, <4>2, Zenon DEF TypeOK
      <4> QED
        BY <1>t, <4>2, <4>3, Zenon DEF TypeOK
    <3> QED
      BY <3>2, <3>3, Zenon
  <2> QED
    BY <1>t, <1>11, <2>2, <2>3, Zenon DEF TypeOK, Conflict, tables
<1>12. ASSUME NEW r \in Requests, Abandon(r) PROVE TypeOK'
  BY <1>t, <1>12 DEF TypeOK, Abandon, tables
<1>13. ASSUME NEW r \in Requests, Rollback(r) PROVE TypeOK'
  <2>1. 0 \in 0 .. Len(entries)
    BY <1>t DEF TypeOK
  <2> QED
    BY <1>t, <1>13, <2>1 DEF TypeOK, Rollback, EndTx, tables
<1> QED
  BY StepCases, <1>0, <1>1, <1>2, <1>3, <1>4, <1>5, <1>6, <1>7, <1>8, <1>9, <1>10, <1>11, <1>12, <1>13, Zenon DEF StepOf, Progress

\* A step of r leaves every other session alone.
LEMMA Frame ==
  ASSUME TypeOK, NEW r \in Requests, NEW q \in Requests, q # r, StepOf(r)
  PROVE  /\ cmd' = cmd
         /\ pc'[q] = pc[q] /\ resp'[q] = resp[q] /\ result'[q] = result[q]
         /\ attempt'[q] = attempt[q] /\ snap'[q] = snap[q]
         /\ seen'[q] = seen[q] /\ wrote'[q] = wrote[q]
<1>1. CASE RejectInput(r)
  BY <1>1, Zenon DEF TypeOK, RejectInput
<1>2. CASE Begin(r) \/ Retry(r)
  BY <1>2, Zenon DEF TypeOK, Begin, Retry, StartAttempt
<1>3. CASE ClaimKey(r)
  BY <1>3, Zenon DEF TypeOK, ClaimKey
<1>4. CASE Replay(r)
  BY <1>4 DEF TypeOK, Replay, ReplayFrom
<1>5. CASE ReadBatch(r)
  BY <1>5, Zenon DEF TypeOK, ReadBatch
<1>6. CASE Decide(r)
  BY <1>6, SMTT(30) DEF TypeOK, Decide, Refuse, InsertEntries
<1>7. CASE AppendEvent(r)
  BY <1>7 DEF TypeOK, AppendEvent
<1>8. CASE CompleteKey(r)
  BY <1>8, Zenon DEF TypeOK, CompleteKey
<1>9. CASE Commit(r)
  BY <1>9, Zenon DEF TypeOK, Commit
<1>10. CASE Return(r)
  BY <1>10 DEF TypeOK, Return
<1>11. CASE Conflict(r)
  BY <1>11, Zenon DEF TypeOK, Conflict, EndTx
<1>12. CASE Abandon(r)
  BY <1>12, Zenon DEF TypeOK, Abandon
<1>13. CASE Rollback(r)
  BY <1>13 DEF TypeOK, Rollback, EndTx
<1> QED
  BY <1>1, <1>2, <1>3, <1>4, <1>5, <1>6, <1>7, <1>8, <1>9, <1>10, <1>11, <1>12, <1>13, Zenon DEF StepOf, Progress

\* A step of r takes r from one stage to another.
LEMMA OwnSession ==
  ASSUME Inv, NEW r \in Requests, StepOf(r)
  PROVE  Session(r)'
<1>0. TypeOK /\ Session(r)
  BY DEF Inv, Sessions
<1> USE DEF Session, Statements, TransferId, Written
<1>1. CASE RejectInput(r)
  BY <1>0, <1>1, SMTT(20) DEF TypeOK, RejectInput, tables
<1>2. CASE Begin(r) \/ Retry(r)
  BY <1>0, <1>2, SMTT(20) DEF TypeOK, Begin, Retry, StartAttempt, tables
<1>3. CASE ClaimKey(r)
  BY <1>0, <1>3, SMTT(20) DEF TypeOK, ClaimKey, tables
<1>4. CASE Replay(r)
  BY <1>0, <1>4, SMTT(20) DEF TypeOK, Replay, ReplayFrom, tables
<1>5. CASE ReadBatch(r)
  BY <1>0, <1>5, SMTT(20) DEF TypeOK, ReadBatch, tables
<1>6. CASE Decide(r)
  BY <1>0, <1>6, SMTT(20) DEF TypeOK, Decide, Refuse, InsertEntries, tables
<1>7. CASE AppendEvent(r)
  BY <1>0, <1>7, SMTT(20) DEF TypeOK, AppendEvent, tables
<1>8. CASE CompleteKey(r)
  BY <1>0, <1>8, SMTT(20) DEF TypeOK, CompleteKey, tables
<1>9. CASE Commit(r)
  BY <1>0, <1>9, SMTT(20) DEF TypeOK, Commit, tables
<1>10. CASE Return(r)
  BY <1>0, <1>10, SMTT(20) DEF TypeOK, Return, tables
<1>11. CASE Conflict(r)
  BY <1>0, <1>11, SMTT(20) DEF TypeOK, Conflict, EndTx, tables
<1>12. CASE Abandon(r)
  BY <1>0, <1>12, SMTT(20) DEF TypeOK, Abandon, tables
<1>13. CASE Rollback(r)
  BY <1>0, <1>13, SMTT(20) DEF TypeOK, Rollback, EndTx, tables
<1> HIDE DEF Session, Statements, TransferId, Written
<1> QED
  BY <1>1, <1>2, <1>3, <1>4, <1>5, <1>6, <1>7, <1>8, <1>9, <1>10, <1>11, <1>12, <1>13, Zenon DEF StepOf, Progress

LEMMA SessionsStep ==
  ASSUME Inv, [Next]_vars
  PROVE  Sessions'
<1>1. CASE UNCHANGED vars
  BY <1>1, ZenonT(30) DEF Inv, Sessions, Session, TransferId, vars
<1>2. ASSUME NEW r \in Requests, StepOf(r) PROVE Sessions'
  <2>1. Session(r)'
    BY <1>2, OwnSession, Zenon
  <2>2. ASSUME NEW q \in Requests, q # r PROVE Session(q)'
    <3>1. Session(q) /\ TypeOK
      BY Zenon DEF Inv, Sessions
    <3>2. /\ cmd' = cmd /\ pc'[q] = pc[q] /\ resp'[q] = resp[q] /\ result'[q] = result[q]
          /\ attempt'[q] = attempt[q] /\ seen'[q] = seen[q] /\ wrote'[q] = wrote[q]
      BY <1>2, <2>2, <3>1, Frame, Zenon
    <3> QED
      BY <3>1, <3>2, ZenonT(30) DEF Session, TransferId
  <2> QED
    BY <2>1, <2>2, Zenon DEF Sessions
<1> QED
  BY <1>1, <1>2, StepCases, Zenon

\* The committed log only grows, so the sums that a snapshot shows stay.
LEMMA LogGrows ==
  ASSUME Inv, NEW r \in Requests, StepOf(r)
  PROVE  /\ Len(entries) <= Len(entries') /\ Len(entries) \in Nat /\ Len(entries') \in Nat
         /\ \A i \in 1 .. Len(entries) : entries'[i] = entries[i]
         /\ \A a : \A n \in 0 .. Len(entries) :
              RunningSum(entries', a)[n] = RunningSum(entries, a)[n]
<1>0. entries \in Seq(Entry) /\ Len(entries) \in Nat
  BY DEF Inv, TypeOK
<1>1. CASE entries' = entries
  BY <1>0, <1>1
<1>2. CASE Commit(r) /\ wrote[r] = Written
  <2>1. /\ entries' \in Seq(Entry) /\ Len(entries') = Len(entries) + 2
        /\ \A i \in 1 .. Len(entries) : entries'[i] = entries[i]
    BY <1>2, CommitGrows, Zenon DEF PairAdded
  <2>2. Len(entries) <= Len(entries') /\ Len(entries') \in Nat
    BY <1>0, <2>1
  <2> QED
    BY <1>0, <2>1, <2>2, PrefixSums, Zenon
<1> QED
  BY <1>1, <1>2, RowsStep

LEMMA SnapshotsStep ==
  ASSUME Inv, [Next]_vars
  PROVE  Snapshots'
<1>1. CASE UNCHANGED vars
  BY <1>1, Zenon DEF Inv, Snapshots, Snapshot, vars
<1>2. ASSUME NEW r \in Requests, StepOf(r) PROVE Snapshots'
  <2>0. TypeOK /\ Snapshots
    BY Zenon DEF Inv
  <2>1. ASSUME NEW q \in Requests, NEW n \in 0 .. Len(entries),
               seen[q] = RunningSum(entries, cmd[q].from)[n]
        PROVE  seen[q] = RunningSum(entries', cmd[q].from)[n]
    BY <1>2, <2>1, LogGrows, Zenon
  <2>2. ASSUME NEW q \in Requests, q # r PROVE Snapshot(q)'
    <3>1. /\ cmd' = cmd /\ pc'[q] = pc[q] /\ snap'[q] = snap[q]
          /\ seen'[q] = seen[q] /\ wrote'[q] = wrote[q]
      BY <1>2, <2>0, <2>2, Frame, Zenon
    <3>2. Snapshot(q) /\ snap[q] \in 0 .. Len(entries)
      BY <2>0 DEF Snapshots, TypeOK
    <3> QED
      BY <2>1, <3>1, <3>2, Zenon DEF Snapshot
  <2>3. Snapshot(r)'
    <3>0. Session(r) /\ Snapshot(r) /\ snap[r] \in 0 .. Len(entries) /\ entries \in Seq(Entry)
      BY <2>0, Zenon DEF Inv, Sessions, Snapshots, TypeOK
    <3>1. CASE ReadBatch(r)
      <4>1. /\ seen'[r] = Balance(SubSeq(entries, 1, snap[r]), cmd[r].from)
            /\ entries' = entries /\ cmd' = cmd /\ snap' = snap
        BY <2>0, <3>1, Zenon DEF TypeOK, ReadBatch, tables
      <4> QED
        BY <3>0, <4>1, SnapshotBalance DEF Snapshot
    <3>2. CASE /\ pc'[r] # "decide" /\ "entries" \notin wrote'[r]
      BY <3>2, Zenon DEF Snapshot
    <3>3. CASE /\ pc[r] = "decide" \/ "entries" \in wrote[r]
               /\ seen'[r] = seen[r] /\ snap'[r] = snap[r] /\ cmd' = cmd
      BY <2>1, <3>0, <3>3 DEF Snapshot
    <3>f. r \in DOMAIN pc /\ r \in DOMAIN wrote
      BY <2>0, Zenon DEF TypeOK
    <3>4. CASE RejectInput(r) \/ Begin(r) \/ Retry(r)
      <4>1. wrote[r] = {} /\ wrote' = wrote
        BY <3>0, <3>4, Zenon DEF Session, RejectInput, Begin, Retry, StartAttempt
      <4>2. pc'[r] \in {"closed", "claim"}
        BY <3>f, <3>4, Zenon DEF RejectInput, Begin, Retry, StartAttempt
      <4> QED
        BY <3>2, <4>1, <4>2, Zenon
    <3>5. CASE ClaimKey(r)
      <4>1. wrote[r] = {}
        BY <3>0, <3>5, Zenon DEF Session, ClaimKey
      <4>2. wrote'[r] \subseteq {"claim"}
        BY <3>f, <3>5, <4>1, Zenon DEF ClaimKey
      <4>3. pc'[r] \in {"rollback", "load", "read"}
        BY <3>f, <3>5, Zenon DEF ClaimKey
      <4> QED
        BY <3>2, <4>2, <4>3, Zenon
    <3>9. CASE Replay(r)
      <4>1. wrote[r] = {} /\ wrote' = wrote
        BY <3>0, <3>9, Zenon DEF Session, Replay
      <4>2. pc'[r] \in {"commit", "rollback"}
        BY <3>f, <3>9, Zenon DEF Replay, ReplayFrom
      <4> QED
        BY <3>2, <4>1, <4>2
    <3>6. CASE Decide(r) \/ AppendEvent(r) \/ CompleteKey(r)
      <4>1. pc[r] = "decide" \/ "entries" \in wrote[r]
        BY <3>0, <3>6, Zenon DEF Session, Decide, AppendEvent, CompleteKey
      <4> QED
        BY <3>3, <3>6, <4>1 DEF Decide, AppendEvent, CompleteKey
    <3>7. CASE Commit(r) \/ Return(r) \/ Abandon(r)
      <4>1. \/ pc'[r] = pc[r] \/ pc'[r] \in {"committed", "closed"}
        BY <2>0, <3>7 DEF TypeOK, Commit, Return, Abandon
      <4>2. wrote' = wrote /\ snap' = snap /\ seen' = seen /\ cmd' = cmd
        BY <3>7, Zenon DEF Commit, Return, Abandon
      <4> QED
        BY <3>2, <3>3, <4>1, <4>2, Zenon
    <3>8. CASE Conflict(r) \/ Rollback(r)
      <4>1. wrote'[r] = {} /\ pc'[r] \in {"closed", "backoff"}
        BY <2>0, <3>8, Zenon DEF TypeOK, Conflict, Rollback, EndTx
      <4> QED
        BY <3>2, <4>1, Zenon
    <3> QED
      BY <1>2, <3>1, <3>4, <3>5, <3>9, <3>6, <3>7, <3>8 DEF StepOf, Progress
  <2> QED
    BY <2>2, <2>3, Zenon DEF Snapshots
<1> QED
  BY <1>1, <1>2, StepCases, Zenon

-----------------------------------------------------------------------------
\* A request that has committed a transfer keeps everything but its answer.
LEMMA AuthorStays ==
  ASSUME Inv, NEW q, Author(q), NEW r \in Requests, StepOf(r)
  PROVE  /\ Author(q)'
         /\ cmd' = cmd /\ attempt'[q] = attempt[q] /\ snap'[q] = snap[q] /\ result'[q] = result[q]
<1>0. TypeOK /\ q \in Requests
  BY Zenon DEF Inv, Author
<1>1. CASE q # r
  BY <1>0, <1>1, Frame, Zenon DEF Author
<1>2. CASE q = r
  <2>1. /\ pc[r] \in {"committed", "closed"} /\ wrote[r] = Written
        /\ resp[r] \in {"pending", "unknown", "created"}
    BY <1>2, Zenon DEF Author
  <2>2. Return(r) \/ Abandon(r)
    BY <2>1 DEF StepOf, Progress, RejectInput, Begin, Retry, ClaimKey, Replay, ReadBatch,
       Decide, AppendEvent, CompleteKey, Commit, Conflict, Rollback, Open, Statements
  <2>3. /\ pc'[r] = "closed" /\ resp'[r] \in {"unknown", "created"}
        /\ UNCHANGED <<cmd, attempt, snap, result, wrote>>
    <3>1. CASE Return(r)
      BY <1>0, <2>1, <3>1, Zenon DEF TypeOK, Return, Written
    <3>2. CASE Abandon(r)
      BY <1>0, <2>1, <3>2 DEF TypeOK, Abandon, Statements
    <3> QED
      BY <2>2, <3>1, <3>2, Zenon
  <2> QED
    BY <1>0, <1>2, <2>1, <2>3, Zenon DEF Author
<1> QED
  BY <1>1, <1>2, Zenon

\* The commit of an executed transfer makes r an author, which it was not.
LEMMA CommitAuthor ==
  ASSUME Inv, NEW r \in Requests, Commit(r), wrote[r] = Written
  PROVE  /\ ~ Author(r) /\ Author(r)'
         /\ UNCHANGED <<cmd, resp, result, attempt, snap, seen, wrote>>
         /\ resp[r] \in {"pending", "unknown"}
<1>1. TypeOK /\ Session(r) /\ pc[r] = "commit"
  BY Zenon DEF Inv, Sessions, Commit
<1>2. resp[r] \in {"pending", "unknown"}
  BY <1>1, Zenon DEF Session, Statements
<1>3. /\ UNCHANGED <<cmd, resp, result, attempt, snap, seen, wrote>>
      /\ pc'[r] \in {"committed", "closed"}
  BY <1>1, Zenon DEF TypeOK, Commit
<1>4. ~ Author(r)
  BY <1>1, Zenon DEF Author
<1>5. Author(r)'
  BY <1>2, <1>3 DEF Author
<1> QED
  BY <1>2, <1>3, <1>4, <1>5, Zenon

\* No entry and no row belongs to a request that is not an author.
LEMMA StrangerHasNothing ==
  ASSUME Inv, NEW r \in Requests, ~ Author(r)
  PROVE  /\ \A i \in 1 .. Len(entries) : entries[i].transfer[1] # r /\ entries[i].transfer # TransferId(r)
         /\ \A x \in keyRows : x.transfer[1] # r /\ x.transfer # TransferId(r)
<1>1. TransferId(r)[1] = r
  BY IdFacts, Zenon DEF Inv
<1>2. \A i \in 1 .. Len(entries) : Author(entries[i].transfer[1])
  BY Zenon DEF Inv, Log, Posted, Posting
<1>3. \A x \in keyRows : Author(x.transfer[1])
  BY Zenon DEF Inv, Books, Rows
<1> QED
  BY <1>1, <1>2, <1>3, Zenon

\* The log after r's commit: the old positions, the debit and the credit.
LEMMA CommitPositions ==
  ASSUME Inv, NEW r \in Requests, Commit(r), wrote[r] = Written,
         NEW m, m = Len(entries)
  PROVE  /\ m \in Nat /\ Len(entries') = m + 2 /\ m + 1 # m + 2
         /\ 1 .. m + 2 = (1 .. m) \cup {m + 1, m + 2}
         /\ \A i \in 1 .. m : entries'[i] = entries[i]
         /\ entries'[m + 1].transfer = TransferId(r) /\ entries'[m + 1].account = cmd[r].from
         /\ entries'[m + 1].amount = -cmd[r].amount
         /\ entries'[m + 2].transfer = TransferId(r) /\ entries'[m + 2].account = cmd[r].to
         /\ entries'[m + 2].amount = cmd[r].amount
<1>1. PairAdded(entries', entries, TransferId(r), cmd[r].from, cmd[r].to, cmd[r].amount)
  BY CommitGrows, Zenon
<1>2. m \in Nat
  BY DEF Inv, TypeOK
<1>3. 1 .. m + 2 = (1 .. m) \cup {m + 1, m + 2} /\ m + 1 # m + 2
  BY <1>2
<1> QED
  BY <1>1, <1>2, <1>3, Zenon DEF PairAdded

LEMMA PostedStep ==
  ASSUME Inv, NEW r \in Requests, StepOf(r)
  PROVE  Posted'
<1>0. Posted /\ TypeOK
  BY Zenon DEF Inv, Log
<1>1. ASSUME NEW i \in 1 .. Len(entries), entries'[i] = entries[i]
      PROVE  Posting(i)'
  <2>0. PICK q : q = entries[i].transfer[1]
    BY Zenon
  <2>1. /\ Author(q) /\ entries[i].transfer = <<q, attempt[q]>> /\ snap[q] < i
        /\ \/ entries[i].account = cmd[q].from /\ entries[i].amount = -cmd[q].amount
           \/ entries[i].account = cmd[q].to /\ entries[i].amount = cmd[q].amount
    BY <1>0, <2>0, Zenon DEF Posted, Posting, TransferId
  <2>2. Author(q)' /\ cmd' = cmd /\ attempt'[q] = attempt[q] /\ snap'[q] = snap[q]
    BY <2>1, AuthorStays, Zenon
  <2>3. entries'[i].transfer[1] = q
    BY <1>1, <2>0, Zenon
  <2> QED
    BY <1>1, <2>1, <2>2, <2>3, Zenon DEF Posting, TransferId
<1>2. CASE entries' = entries
  BY <1>1, <1>2, Zenon DEF Posted
<1>3. CASE Commit(r) /\ wrote[r] = Written
  <2>0. PICK m : m = Len(entries)
    BY Zenon
  <2>1. /\ m \in Nat /\ Len(entries') = m + 2
        /\ 1 .. m + 2 = (1 .. m) \cup {m + 1, m + 2}
        /\ \A i \in 1 .. m : entries'[i] = entries[i]
        /\ entries'[m + 1].transfer = TransferId(r) /\ entries'[m + 1].account = cmd[r].from
        /\ entries'[m + 1].amount = -cmd[r].amount
        /\ entries'[m + 2].transfer = TransferId(r) /\ entries'[m + 2].account = cmd[r].to
        /\ entries'[m + 2].amount = cmd[r].amount
    BY <1>3, <2>0, CommitPositions, Zenon
  <2>2. Author(r)' /\ UNCHANGED <<cmd, attempt, snap>>
    BY <1>3, CommitAuthor, Zenon
  <2>3. TransferId(r)[1] = r /\ TransferId(r)' = TransferId(r)
    BY <1>0, <2>2, IdFacts DEF TransferId
  <2>4. snap[r] \in Nat /\ snap[r] <= m
    BY <1>0, <2>0 DEF TypeOK
  <2>5. Posting(m + 1)' /\ Posting(m + 2)'
    <3>1. snap[r] < m + 1 /\ snap[r] < m + 2
      BY <2>1, <2>4
    <3> QED
      BY <2>1, <2>2, <2>3, <3>1, Zenon DEF Posting
  <2>6. \A i \in 1 .. m : Posting(i)'
    BY <1>1, <2>0, <2>1
  <2> QED
    BY <2>1, <2>5, <2>6, Zenon DEF Posted
<1> QED
  BY <1>2, <1>3, RowsStep, Zenon

LEMMA SingleStep ==
  ASSUME Inv, NEW r \in Requests, StepOf(r)
  PROVE  Single'
<1>0. Single
  BY Zenon DEF Inv, Log
<1>1. CASE entries' = entries
  BY <1>0, <1>1, Zenon DEF Single
<1>2. CASE Commit(r) /\ wrote[r] = Written
  <2>0. PICK m : m = Len(entries)
    BY Zenon
  <2>1. /\ Len(entries') = m + 2 /\ 1 .. m + 2 = (1 .. m) \cup {m + 1, m + 2}
        /\ \A i \in 1 .. m : entries'[i] = entries[i]
        /\ entries'[m + 1].transfer = TransferId(r) /\ entries'[m + 1].account = cmd[r].from
        /\ entries'[m + 2].transfer = TransferId(r) /\ entries'[m + 2].account = cmd[r].to
    BY <1>2, <2>0, CommitPositions, Zenon
  <2>2. cmd[r].from # cmd[r].to
    BY <1>2, CommitGrows, Zenon
  <2>3. \A i \in 1 .. m : entries[i].transfer # TransferId(r)
    BY <1>2, <2>0, CommitAuthor, StrangerHasNothing, Zenon
  <2>4. ASSUME NEW i \in 1 .. Len(entries'), NEW j \in 1 .. Len(entries'),
               entries'[i].transfer = entries'[j].transfer,
               entries'[i].account = entries'[j].account
        PROVE  i = j
    <3>1. CASE i \in 1 .. m
      <4>1. j \in 1 .. m
        BY <2>1, <2>3, <2>4, <3>1
      <4> QED
        BY <1>0, <2>0, <2>1, <2>4, <3>1, <4>1, Zenon DEF Single
    <3>2. CASE i \in {m + 1, m + 2}
      <4>1. j \in {m + 1, m + 2}
        BY <2>1, <2>3, <2>4, <3>2, Zenon
      <4> QED
        BY <2>1, <2>2, <2>4, <3>2, <4>1
    <3> QED
      BY <2>1, <3>1, <3>2
  <2> QED
    BY <2>4, Zenon DEF Single
<1> QED
  BY <1>1, <1>2, RowsStep, Zenon

\* A snapshot changes only when an attempt begins or is aborted.
LEMMA SnapStep ==
  ASSUME Inv, NEW r \in Requests, StepOf(r), NEW q \in Requests
  PROVE  snap'[q] = snap[q] \/ (entries' = entries /\ snap'[q] \in {0, Len(entries)})
<1>0. TypeOK
  BY Zenon DEF Inv
<1>1. CASE q # r
  BY <1>0, <1>1, Frame
<1>2. CASE q = r /\ (Begin(r) \/ Retry(r))
  BY <1>0, <1>2, Zenon DEF TypeOK, Begin, Retry, StartAttempt, tables
<1>3. CASE q = r /\ (Conflict(r) \/ Rollback(r))
  BY <1>0, <1>3, Zenon DEF TypeOK, Conflict, Rollback, EndTx, tables
<1> QED
  BY <1>1, <1>2, <1>3, Zenon DEF StepOf, Progress, RejectInput, ClaimKey, Replay, ReadBatch, Decide,
     AppendEvent, CompleteKey, Commit, Return, Abandon

LEMMA WholeStep ==
  ASSUME Inv, NEW r \in Requests, StepOf(r)
  PROVE  Whole'
<1>0. Whole /\ TypeOK /\ Len(entries) \in Nat
  BY SMTT(30) DEF Inv, Log, TypeOK
<1>1. CASE entries' = entries
  <2>1. ASSUME NEW q \in Requests, NEW i \in 1 .. Len(entries), NEW j \in 1 .. Len(entries),
               entries[i].transfer = entries[j].transfer, i <= snap'[q]
        PROVE  j <= snap'[q]
    <3>1. CASE snap'[q] = snap[q]
      BY <1>0, <2>1, <3>1, Zenon DEF Whole
    <3>2. CASE snap'[q] \in {0, Len(entries)}
      BY <1>0, <2>1, <3>2
    <3> QED
      BY <3>1, <3>2, SnapStep
  <2> QED
    BY <1>1, <2>1, Zenon DEF Whole
<1>2. CASE Commit(r) /\ wrote[r] = Written
  <2>0. PICK m : m = Len(entries)
    BY Zenon
  <2>1. /\ Len(entries') = m + 2 /\ 1 .. m + 2 = (1 .. m) \cup {m + 1, m + 2}
        /\ \A i \in 1 .. m : entries'[i] = entries[i]
        /\ entries'[m + 1].transfer = TransferId(r) /\ entries'[m + 2].transfer = TransferId(r)
    BY <1>2, <2>0, CommitPositions, Zenon
  <2>2. \A i \in 1 .. m : entries[i].transfer # TransferId(r)
    BY <1>2, <2>0, CommitAuthor, StrangerHasNothing, Zenon
  <2>3. snap' = snap
    BY <1>2 DEF Commit
  <2>4. ASSUME NEW q \in Requests, NEW i \in 1 .. Len(entries'), NEW j \in 1 .. Len(entries'),
               entries'[i].transfer = entries'[j].transfer, i <= snap[q]
        PROVE  j <= snap[q]
    <3>1. snap[q] \in 0 .. m
      BY <1>0, <2>0 DEF TypeOK
    <3>2. i \in 1 .. m
      <4>1. m \in Nat /\ Len(entries') = m + 2
        BY <1>0, <2>0, <2>1, Zenon
      <4> QED
        BY <2>4, <3>1, <4>1
    <3>3. j \in 1 .. m
      BY <2>1, <2>2, <2>4, <3>2
    <3> QED
      BY <1>0, <2>0, <2>1, <2>4, <3>2, <3>3, Zenon DEF Whole
  <2> QED
    BY <2>3, <2>4, Zenon DEF Whole
<1> QED
  BY <1>1, <1>2, RowsStep

\* Every committed request is an author, and a committed pair adds its own.
LEMMA CommittedStep ==
  ASSUME Inv, NEW r \in Requests, StepOf(r)
  PROVE  /\ \A q \in Committed : Author(q) /\ snap[q] \in 0 .. Len(entries)
         /\ \/ entries' = entries /\ Committed' = Committed
            \/ /\ Commit(r) /\ wrote[r] = Written /\ Committed' = Committed \cup {r}
               /\ Serializable(Committed \cup {r})
<1>0. TypeOK /\ Posted
  BY DEF Inv, Log
<1>1. \A q \in Committed : Author(q)
  BY <1>0, Zenon DEF Committed, Posted, Posting
<1>2. \A q \in Committed : snap[q] \in 0 .. Len(entries)
  BY <1>0, <1>1, Zenon DEF TypeOK, Author
<1>3. CASE entries' = entries
  BY <1>1, <1>2, <1>3 DEF Committed
<1>4. CASE Commit(r) /\ wrote[r] = Written
  <2>0. PICK m : m = Len(entries)
    BY Zenon
  <2>1. /\ Len(entries') = m + 2 /\ 1 .. m + 2 = (1 .. m) \cup {m + 1, m + 2}
        /\ \A i \in 1 .. m : entries'[i] = entries[i]
        /\ entries'[m + 1].transfer = TransferId(r) /\ entries'[m + 2].transfer = TransferId(r)
    BY <1>4, <2>0, CommitPositions, Zenon
  <2>2. TransferId(r)[1] = r
    BY <1>0, IdFacts, Zenon
  <2>3. Committed' = Committed \cup {r}
    BY <2>0, <2>1, <2>2 DEF Committed
  <2>4. Serializable(Committed \cup {r})
    BY <1>4, Zenon DEF Commit, Written
  <2> QED
    BY <1>1, <1>2, <1>4, <2>3, <2>4, Zenon
<1> QED
  BY <1>3, <1>4, RowsStep, Zenon

\* What a committed request, or the one that commits now, must precede does
\* not change with the log.
LEMMA SerialStep ==
  ASSUME Inv, NEW r \in Requests, StepOf(r)
  PROVE  Serial'
<1>1. ASSUME NEW x, NEW y, snap'[x] = snap[x], snap[x] \in 0 .. Len(entries)
      PROVE  SeesRequest(x, y)' <=> SeesRequest(x, y)
  <2>1. \A i \in 1 .. Len(entries) : entries'[i] = entries[i]
    BY LogGrows, Zenon
  <2>2. 1 .. snap[x] \subseteq 1 .. Len(entries)
    BY <1>1, LogGrows
  <2> QED
    BY <1>1, <2>1, <2>2, Zenon DEF SeesRequest
<1>2. ASSUME NEW C, Serializable(C), C = Committed',
             \A q \in C : snap'[q] = snap[q] /\ snap[q] \in 0 .. Len(entries), cmd' = cmd
      PROVE  Serial'
  <2>1. \A x, y \in C : MustPrecede(x, y)' <=> MustPrecede(x, y)
    BY <1>1, <1>2, Zenon DEF MustPrecede
  <2> QED
    BY <1>2, <2>1, Zenon DEF Serial, Serializable
<1>3. CASE Committed' = Committed
  <2>1. \A q \in Committed : Author(q) /\ snap[q] \in 0 .. Len(entries)
    BY CommittedStep, Zenon
  <2>2. PICK C : C = Committed
    BY Zenon
  <2>3. \A q \in C : snap'[q] = snap[q] /\ snap[q] \in 0 .. Len(entries)
    BY <2>1, <2>2, AuthorStays, Zenon
  <2>4. Serializable(C)
    BY <2>2 DEF Inv, Log, Serial
  <2>5. cmd' = cmd
    BY Zenon DEF StepOf, Progress, RejectInput, Begin, StartAttempt, Retry, ClaimKey, Replay,
       ReadBatch, Decide, AppendEvent, CompleteKey, Commit, Return, Conflict, Abandon, Rollback
  <2> QED
    BY <1>2, <1>3, <2>2, <2>3, <2>4, <2>5
<1>4. CASE /\ Commit(r) /\ wrote[r] = Written /\ Committed' = Committed \cup {r}
           /\ Serializable(Committed \cup {r})
  <2>1. \A q \in Committed \cup {r} : snap[q] \in 0 .. Len(entries)
    BY CommittedStep, Zenon DEF Inv, TypeOK
  <2>2. cmd' = cmd /\ snap' = snap
    BY <1>4, CommitAuthor, Zenon
  <2>3. PICK C : C = Committed \cup {r}
    BY Zenon
  <2> QED
    BY <1>2, <1>4, <2>1, <2>2, <2>3, Zenon
<1> QED
  BY <1>3, <1>4, CommittedStep, Zenon
=============================================================================
