---------------------------- MODULE LockingProofs ----------------------------
(***************************************************************************)
(* The locking strategy, for any set of accounts, requests and commands:   *)
(* types, exclusive row locks, non-negative customers, and the contract of *)
(* the API.                                                                *)
(***************************************************************************)
EXTENDS LockingTransfer, LedgerTheorems

\* What a session at each statement has written, locked and checked.
Stage(r) ==
  /\ pc[r] \notin {"idle", "closed"} => InputError(cmd[r]) = "none"
  /\ pc[r] \in {"idle", "claim", "load"} => wrote[r] = {}
  /\ pc[r] \in {"lock1", "lock2", "sum", "decide"} => wrote[r] = {"claim"}
  /\ pc[r] = "event" => wrote[r] = {"claim", "entries"}
  /\ pc[r] = "complete" => wrote[r] = {"claim", "entries", "event"}
  /\ pc[r] \in {"commit", "committed"} =>
       wrote[r] \in {{}, {"claim", "entries", "event", "response"}}
  /\ pc[r] = "rollback" => wrote[r] \subseteq {"claim"}
  /\ pc[r] = "lock2" => {Ids(r)[1]} \cap Accounts \subseteq held[r]
  /\ pc[r] = "sum" => {cmd[r].from, cmd[r].to} \cap Accounts \subseteq held[r]
  /\ Relying(r) /\ pc[r] # "decide" =>
       AccountsExist(cmd[r]) /\ CanDebit(seen[r], cmd[r].amount, cmd[r].from)

Stages == \A r \in Requests : Stage(r)

\* The inductive invariant behind the safety theorem.
Safety == TypeOK /\ Stages /\ FreshBalance /\ NonNegative

-----------------------------------------------------------------------------
LEMMA InitSafety == Init => Safety
<1> SUFFICES ASSUME Init PROVE Safety
  BY Zenon
<1>1. TypeOK
  BY RequestsAssumption DEF Init, TypeOK, Statements
<1>2. Stages
  BY Zenon DEF Init, Stages, Stage, Relying
<1>3. FreshBalance
  BY Zenon DEF Init, FreshBalance, Relying
<1>4. NonNegative
  BY BalanceEmpty DEF Init, NonNegative
<1> QED
  BY <1>1, <1>2, <1>3, <1>4, Zenon DEF Safety

\* Every step is a step of one request, or leaves everything alone.
LEMMA StepCases ==
  ASSUME [Next]_vars
  PROVE  \/ UNCHANGED vars
         \/ \E r \in Requests : RejectInput(r) \/ Begin(r) \/ Progress(r) \/ Abandon(r)
BY Zenon DEF Next, AllClosed

\* What the command of a request is.
LEMMA CommandFacts ==
  ASSUME TypeOK, NEW r \in Requests
  PROVE  /\ cmd[r].key \in Keys
         /\ cmd[r].from \in AccountIds /\ cmd[r].to \in AccountIds
         /\ cmd[r].from \in Int /\ cmd[r].to \in Int /\ cmd[r].amount \in Int
         /\ InputError(cmd[r]) = "none" <=> cmd[r].amount > 0 /\ cmd[r].from # cmd[r].to
         /\ InputError(cmd[r]) \in {"none", "invalid_amount", "same_account"}
<1>1. cmd[r] \in Commands
  BY Zenon DEF TypeOK
<1> QED
  BY <1>1, CommandType, Zenon

\* The two ids of the lock batch are the two accounts of the command.
LEMMA IdsFacts ==
  ASSUME TypeOK, NEW r \in Requests
  PROVE  {Ids(r)[1], Ids(r)[2]} = {cmd[r].from, cmd[r].to}
BY CommandFacts, Zenon DEF Ids, LockOrder

\* The commit of a transaction with entries, as a step of the balances.
LEMMA CommitBalances ==
  ASSUME Safety, NEW r \in Requests, Commit(r), "entries" \in wrote[r]
  PROVE  /\ cmd[r].from \in Accounts /\ cmd[r].to \in Accounts
         /\ cmd[r].from # cmd[r].to /\ cmd[r].amount > 0 /\ cmd[r].amount \in Int
         /\ entries' \in Seq(Entry)
         /\ CanDebit(Balance(entries, cmd[r].from), cmd[r].amount, cmd[r].from)
         /\ Balance(entries', cmd[r].from) = Balance(entries, cmd[r].from) - cmd[r].amount
         /\ Balance(entries', cmd[r].to) = Balance(entries, cmd[r].to) + cmd[r].amount
         /\ \A a : a # cmd[r].from /\ a # cmd[r].to => Balance(entries', a) = Balance(entries, a)
<1>1. pc[r] = "commit" /\ Relying(r)
  BY Zenon DEF Commit, Relying
<1>2. Stage(r) /\ TypeOK
  BY Zenon DEF Safety, Stages
<1>3. /\ cmd[r].from \in Accounts /\ cmd[r].to \in Accounts
      /\ CanDebit(seen[r], cmd[r].amount, cmd[r].from)
  BY <1>1, <1>2, Zenon DEF Stage, AccountsExist
<1>4. cmd[r].from # cmd[r].to /\ cmd[r].amount > 0 /\ cmd[r].amount \in Int
  BY <1>1, <1>2, CommandFacts, Zenon DEF Stage
<1>5. seen[r] = Balance(entries, cmd[r].from)
  BY <1>1, Zenon DEF Safety, FreshBalance
<1>6. entries \in Seq(Entry) /\ base[r] \in Nat /\ r \in Transfers
  BY <1>2, RequestsAssumption, Zenon DEF TypeOK
<1>7. entries' = entries \o EntryPair(r, cmd[r].from, cmd[r].to, cmd[r].amount, base[r])
  BY DEF Commit
<1> QED
  BY <1>3, <1>4, <1>5, <1>6, <1>7, BalancePair

\* Types survive every step.
LEMMA TypeStep ==
  ASSUME Safety, [Next]_vars
  PROVE  TypeOK'
<1>0. CASE UNCHANGED vars
  BY <1>0, Zenon DEF Safety, TypeOK, vars
<1>1. ASSUME NEW r \in Requests, RejectInput(r) PROVE TypeOK'
  BY <1>1, CommandFacts, SMTT(30) DEF Safety, TypeOK, RejectInput, tables, Statements, Refusals
<1>2. ASSUME NEW r \in Requests, Begin(r) PROVE TypeOK'
  BY <1>2, Zenon DEF Safety, TypeOK, Begin, tables, Statements
<1>3. ASSUME NEW r \in Requests, ClaimKey(r) PROVE TypeOK'
  BY <1>3, Zenon DEF Safety, TypeOK, ClaimKey, tables, Statements
<1>4. ASSUME NEW r \in Requests, Replay(r) PROVE TypeOK'
  <2>1. PICK row \in keyRows : row.key = cmd[r].key /\ ReplayFrom(r, row)
    BY <1>4, Zenon DEF Replay
  <2>2. row.transfer \in Transfers
    BY Zenon DEF Safety, TypeOK, StoredKeys
  <2>3. ReplayOutcome(row, cmd[r]) \in Refusals \cup {"ok"}
    BY Zenon DEF ReplayOutcome, Refusals
  <2> QED
    BY <1>4, <2>1, <2>2, <2>3, Zenon DEF Safety, TypeOK, Replay, ReplayFrom, tables, Statements
<1>5. ASSUME NEW r \in Requests, LockFirst(r) PROVE TypeOK'
  BY <1>5, Zenon DEF Safety, TypeOK, LockFirst, tables, Statements
<1>6. ASSUME NEW r \in Requests, LockSecond(r) PROVE TypeOK'
  BY <1>6, Zenon DEF Safety, TypeOK, LockSecond, tables, Statements
<1>7. ASSUME NEW r \in Requests, ReadBalance(r) PROVE TypeOK'
  <2>1. Balance(entries, cmd[r].from) \in Int
    BY BalanceType, Zenon DEF Safety, TypeOK
  <2> QED
    BY <1>7, <2>1, Zenon DEF Safety, TypeOK, ReadBalance, tables, Statements
<1>8. ASSUME NEW r \in Requests, Decide(r) PROVE TypeOK'
  <2>1. CASE InsertEntries(r)
    BY <1>8, <2>1 DEF Safety, TypeOK, Decide, InsertEntries, tables, Statements
  <2>2. ASSUME NEW why \in {"account_not_found", "insufficient_funds"}, Refuse(r, why)
        PROVE  TypeOK'
    BY <1>8, <2>2, Zenon DEF Safety, TypeOK, Decide, Refuse, tables, Statements, Refusals
  <2> QED
    BY <1>8, <2>1, <2>2, Zenon DEF Decide
<1>9. ASSUME NEW r \in Requests, AppendEvent(r) PROVE TypeOK'
  BY <1>9, Zenon DEF Safety, TypeOK, AppendEvent, tables, Statements
<1>10. ASSUME NEW r \in Requests, CompleteKey(r) PROVE TypeOK'
  BY <1>10, Zenon DEF Safety, TypeOK, CompleteKey, tables, Statements
<1>11. ASSUME NEW r \in Requests, Commit(r) PROVE TypeOK'
  <2>1. entries' \in Seq(Entry)
    BY <1>11, CommitBalances, Zenon DEF Safety, TypeOK, Commit
  <2>2. KeyRow(r) \in StoredKeys
    BY CommandFacts, RequestsAssumption, Zenon DEF Safety, TypeOK, KeyRow, StoredKey, StoredKeys, Fingerprint
  <2>3. /\ keyRows' \subseteq StoredKeys
        /\ outbox' \subseteq [event : Requests, transfer : Requests]
    BY <1>11, <2>2 DEF Safety, TypeOK, Commit
  <2> QED
    BY <1>11, <2>1, <2>3, Zenon DEF Safety, TypeOK, Commit, Statements
<1>12. ASSUME NEW r \in Requests, Return(r) PROVE TypeOK'
  BY <1>12, Zenon DEF Safety, TypeOK, Return, tables, Statements, Answers
<1>13. ASSUME NEW r \in Requests, Abandon(r) PROVE TypeOK'
  BY <1>13, Zenon DEF Safety, TypeOK, Abandon, tables, Statements
<1>14. ASSUME NEW r \in Requests, Rollback(r) PROVE TypeOK'
  BY <1>14, Zenon DEF Safety, TypeOK, Rollback, tables, Statements
<1> QED
  BY StepCases, <1>0, <1>1, <1>2, <1>3, <1>4, <1>5, <1>6, <1>7, <1>8, <1>9, <1>10, <1>11, <1>12, <1>13, <1>14 DEF Progress

\* A step of r leaves every other session alone.
LEMMA Frame ==
  ASSUME TypeOK, NEW r \in Requests, NEW q \in Requests, q # r,
         RejectInput(r) \/ Begin(r) \/ Progress(r) \/ Abandon(r)
  PROVE  /\ cmd' = cmd
         /\ pc'[q] = pc[q] /\ resp'[q] = resp[q] /\ result'[q] = result[q]
         /\ held'[q] = held[q] /\ seen'[q] = seen[q] /\ wrote'[q] = wrote[q]
<1>1. CASE RejectInput(r)
  BY <1>1, Zenon DEF TypeOK, RejectInput
<1>2. CASE Begin(r)
  BY <1>2, Zenon DEF TypeOK, Begin
<1>3. CASE ClaimKey(r)
  BY <1>3, Zenon DEF TypeOK, ClaimKey
<1>4. CASE Replay(r)
  BY <1>4, Zenon DEF TypeOK, Replay, ReplayFrom
<1>5. CASE LockFirst(r)
  BY <1>5, Zenon DEF TypeOK, LockFirst
<1>6. CASE LockSecond(r)
  BY <1>6, Zenon DEF TypeOK, LockSecond
<1>7. CASE ReadBalance(r)
  BY <1>7, Zenon DEF TypeOK, ReadBalance
<1>8. CASE Decide(r)
  BY <1>8 DEF TypeOK, Decide, Refuse, InsertEntries
<1>9. CASE AppendEvent(r)
  BY <1>9, Zenon DEF TypeOK, AppendEvent
<1>10. CASE CompleteKey(r)
  BY <1>10, Zenon DEF TypeOK, CompleteKey
<1>11. CASE Commit(r)
  BY <1>11, Zenon DEF TypeOK, Commit
<1>12. CASE Return(r)
  BY <1>12, Zenon DEF TypeOK, Return
<1>13. CASE Abandon(r)
  BY <1>13, Zenon DEF TypeOK, Abandon
<1>14. CASE Rollback(r)
  BY <1>14, Zenon DEF TypeOK, Rollback
<1> QED
  BY <1>1, <1>2, <1>3, <1>4, <1>5, <1>6, <1>7, <1>8, <1>9, <1>10, <1>11, <1>12, <1>13, <1>14, Zenon DEF Progress

\* A step of r takes r from one stage to another.
LEMMA OwnStage ==
  ASSUME Safety, NEW r \in Requests,
         RejectInput(r) \/ Begin(r) \/ Progress(r) \/ Abandon(r)
  PROVE  Stage(r)'
<1>0. TypeOK /\ Stage(r)
  BY Zenon DEF Safety, Stages
<1>c. {Ids(r)[1], Ids(r)[2]} = {cmd[r].from, cmd[r].to}
  BY <1>0, IdsFacts, Zenon
<1> USE DEF Stage, Relying
<1>1. CASE RejectInput(r)
  BY <1>0, <1>c, <1>1, SMTT(20) DEF TypeOK, RejectInput, Ids, tables
<1>2. CASE Begin(r)
  BY <1>0, <1>c, <1>2, SMTT(20) DEF TypeOK, Begin, Ids, tables
<1>3. CASE ClaimKey(r)
  BY <1>0, <1>c, <1>3, SMTT(20) DEF TypeOK, ClaimKey, Ids, tables
<1>4. CASE Replay(r)
  BY <1>0, <1>c, <1>4, SMTT(20) DEF TypeOK, Replay, ReplayFrom, tables
<1>5. CASE LockFirst(r)
  BY <1>0, <1>c, <1>5, SMTT(20) DEF TypeOK, LockFirst, Ids, tables
<1>6. CASE LockSecond(r)
  BY <1>0, <1>c, <1>6, Zenon DEF TypeOK, LockSecond, Ids, tables
<1>7. CASE ReadBalance(r)
  BY <1>0, <1>c, <1>7, Zenon DEF TypeOK, ReadBalance, Ids, tables
<1>8. CASE Decide(r)
  BY <1>0, <1>c, <1>8, SMTT(20) DEF TypeOK, Decide, Refuse, InsertEntries, tables
<1>9. CASE AppendEvent(r)
  BY <1>0, <1>c, <1>9, SMTT(20) DEF TypeOK, AppendEvent, Ids, tables
<1>10. CASE CompleteKey(r)
  BY <1>0, <1>c, <1>10, SMTT(20) DEF TypeOK, CompleteKey, Ids, tables
<1>11. CASE Commit(r)
  BY <1>0, <1>c, <1>11, SMTT(20) DEF TypeOK, Commit, Ids, tables
<1>12. CASE Return(r)
  BY <1>0, <1>c, <1>12, SMTT(20) DEF TypeOK, Return, Ids, tables
<1>13. CASE Abandon(r)
  BY <1>0, <1>c, <1>13, SMTT(20) DEF TypeOK, Abandon, Ids, tables
<1>14. CASE Rollback(r)
  BY <1>0, <1>c, <1>14, SMTT(20) DEF TypeOK, Rollback, Ids, tables
<1> HIDE DEF Stage, Relying
<1> QED
  BY <1>1, <1>2, <1>3, <1>4, <1>5, <1>6, <1>7, <1>8, <1>9, <1>10, <1>11, <1>12, <1>13, <1>14 DEF Progress

LEMMA StagesStep ==
  ASSUME Safety, [Next]_vars
  PROVE  Stages'
<1>1. CASE UNCHANGED vars
  BY <1>1, Zenon DEF Safety, Stages, Stage, Relying, Ids, vars
<1>2. ASSUME NEW r \in Requests, RejectInput(r) \/ Begin(r) \/ Progress(r) \/ Abandon(r)
      PROVE  Stages'
  <2>1. Stage(r)'
    BY <1>2, OwnStage, Zenon
  <2>2. ASSUME NEW q \in Requests, q # r
        PROVE  Stage(q)'
    <3>1. Stage(q) /\ TypeOK
      BY Zenon DEF Safety, Stages
    <3>2. /\ cmd' = cmd /\ pc'[q] = pc[q] /\ held'[q] = held[q]
          /\ seen'[q] = seen[q] /\ wrote'[q] = wrote[q]
      BY <1>2, <2>2, <3>1, Frame, Zenon
    <3> QED
      BY <3>1, <3>2, Zenon DEF Stage, Relying, Ids
  <2> QED
    BY <2>1, <2>2, Zenon DEF Stages
<1> QED
  BY <1>1, <1>2, StepCases, Zenon

\* No other session holds a row that a step of r leaves r holding.
LEMMA HeldStep ==
  ASSUME Safety, NEW r \in Requests, NEW q \in Requests, q # r,
         RejectInput(r) \/ Begin(r) \/ Progress(r) \/ Abandon(r)
  PROVE  held'[r] \cap held[q] = {}
<1>0. TypeOK /\ held[r] \cap held[q] = {}
  BY Zenon DEF Safety, FreshBalance
<1>1. CASE LockFirst(r)
  BY <1>0, <1>1, Zenon DEF TypeOK, LockFirst, WaitsForRow
<1>2. CASE LockSecond(r)
  BY <1>0, <1>2, Zenon DEF TypeOK, LockSecond, WaitsForRow
<1>3. CASE Commit(r)
  BY <1>0, <1>3, Zenon DEF TypeOK, Commit
<1>4. CASE Rollback(r)
  BY <1>0, <1>4, Zenon DEF TypeOK, Rollback
<1>5. CASE UNCHANGED held
  BY <1>0, <1>5
<1> QED
  BY <1>1, <1>2, <1>3, <1>4, <1>5 DEF Progress, RejectInput, Begin, ClaimKey, Replay,
     ReadBalance, Decide, AppendEvent, CompleteKey, Return, Abandon

\* A step of r does not change the balance that another session relies on:
\* the accounts of a committing transfer are locked, and so is that one.
LEMMA OthersBalance ==
  ASSUME Safety, NEW r \in Requests, NEW q \in Requests, q # r, Relying(q),
         RejectInput(r) \/ Begin(r) \/ Progress(r) \/ Abandon(r)
  PROVE  Balance(entries', cmd[q].from) = Balance(entries, cmd[q].from)
<1>1. CASE entries' = entries
  BY <1>1, Zenon
<1>2. CASE Commit(r) /\ "entries" \in wrote[r]
  <2>1. Relying(r)
    BY <1>2, Zenon DEF Commit, Relying
  <2>2. cmd[r].from \in Accounts /\ cmd[r].to \in Accounts
    BY <1>2, CommitBalances, Zenon
  <2>3. /\ {cmd[r].from, cmd[r].to} \cap Accounts \subseteq held[r]
        /\ {cmd[q].from, cmd[q].to} \cap Accounts \subseteq held[q]
        /\ held[r] \cap held[q] = {}
    BY <2>1 DEF Safety, FreshBalance
  <2>4. cmd[q].from # cmd[r].from /\ cmd[q].from # cmd[r].to
    BY <2>2, <2>3, Zenon
  <2> QED
    BY <1>2, <2>4, CommitBalances, Zenon
<1> QED
  BY <1>1, <1>2, Zenon DEF Progress, RejectInput, Begin, ClaimKey, Replay, LockFirst, LockSecond,
     ReadBalance, Decide, AppendEvent, CompleteKey, Commit, Return, Abandon, Rollback, tables

\* The balance that r relies on after its own step is the committed one.
LEMMA OwnBalance ==
  ASSUME Safety, NEW r \in Requests, Relying(r)',
         RejectInput(r) \/ Begin(r) \/ Progress(r) \/ Abandon(r)
  PROVE  /\ {cmd[r].from, cmd[r].to} \cap Accounts \subseteq held'[r]
         /\ seen'[r] = Balance(entries', cmd[r].from)
<1>0. /\ TypeOK /\ Stage(r)
      /\ Relying(r) => /\ {cmd[r].from, cmd[r].to} \cap Accounts \subseteq held[r]
                       /\ seen[r] = Balance(entries, cmd[r].from)
  BY Zenon DEF Safety, Stages, FreshBalance
<1>t. /\ pc \in [Requests -> Statements \cup {"idle", "rollback", "committed", "closed"}]
      /\ wrote \in [Requests -> SUBSET {"claim", "entries", "event", "response"}]
  BY Zenon DEF Safety, TypeOK
<1>s. pc[r] = "load" => wrote[r] = {}
  BY <1>0, Zenon DEF Stage
<1>1. CASE ReadBalance(r)
  BY <1>0, <1>1 DEF TypeOK, Stage, ReadBalance, tables
<1>2. CASE Relying(r) /\ UNCHANGED <<held, seen, entries>>
  BY <1>0, <1>2, Zenon
<1>3. CASE RejectInput(r)
  BY <1>t, <1>2, <1>3, Zenon DEF Relying, RejectInput, tables
<1>4. CASE Begin(r)
  BY <1>t, <1>2, <1>4 DEF Relying, Begin, tables
<1>5. CASE ClaimKey(r)
  BY <1>t, <1>2, <1>5, Zenon DEF Relying, ClaimKey, tables
<1>6. CASE Replay(r)
  BY <1>t, <1>s, <1>2, <1>6, Zenon DEF Relying, Replay, ReplayFrom, tables
<1>7. CASE LockFirst(r)
  BY <1>t, <1>2, <1>7 DEF Relying, LockFirst, tables
<1>8. CASE LockSecond(r)
  BY <1>t, <1>2, <1>8, Zenon DEF Relying, LockSecond, tables
<1>9. CASE Decide(r)
  BY <1>t, <1>2, <1>9, Zenon DEF Relying, Decide, Refuse, InsertEntries, tables
<1>10. CASE AppendEvent(r)
  BY <1>t, <1>2, <1>10 DEF Relying, AppendEvent, tables
<1>11. CASE CompleteKey(r)
  BY <1>t, <1>2, <1>11, Zenon DEF Relying, CompleteKey, tables
<1>12. CASE Commit(r)
  BY <1>t, <1>2, <1>12, Zenon DEF Relying, Commit, tables
<1>13. CASE Return(r)
  BY <1>t, <1>2, <1>13 DEF Relying, Return, tables
<1>14. CASE Abandon(r)
  BY <1>t, <1>2, <1>14, Zenon DEF Relying, Abandon, tables
<1>15. CASE Rollback(r)
  BY <1>t, <1>2, <1>15, Zenon DEF Relying, Rollback, tables
<1> QED
  BY <1>1, <1>3, <1>4, <1>5, <1>6, <1>7, <1>8, <1>9, <1>10, <1>11, <1>12, <1>13, <1>14, <1>15, Zenon DEF Progress

LEMMA FreshStep ==
  ASSUME Safety, [Next]_vars
  PROVE  FreshBalance'
<1>1. CASE UNCHANGED vars
  BY <1>1, Zenon DEF Safety, FreshBalance, Relying, vars
<1>2. ASSUME NEW r \in Requests, RejectInput(r) \/ Begin(r) \/ Progress(r) \/ Abandon(r)
      PROVE  FreshBalance'
  <2>0. TypeOK /\ cmd' = cmd
    BY <1>2 DEF Safety, Progress, RejectInput, Begin, ClaimKey, Replay, LockFirst,
       LockSecond, ReadBalance, Decide, AppendEvent, CompleteKey, Commit, Return,
       Abandon, Rollback
  <2>1. \A q \in Requests : q # r => /\ held'[r] \cap held'[q] = {}
                                     /\ held'[q] = held[q]
    BY <1>2, <2>0, HeldStep, Frame, Zenon
  <2>2. \A p, q \in Requests : p # q => held'[p] \cap held'[q] = {}
    BY <2>1 DEF Safety, FreshBalance
  <2>3. Relying(r)' => /\ {cmd[r].from, cmd[r].to} \cap Accounts \subseteq held'[r]
                       /\ seen'[r] = Balance(entries', cmd[r].from)
    BY <1>2, OwnBalance, Zenon
  <2>4. ASSUME NEW q \in Requests, q # r, Relying(q)'
        PROVE  /\ {cmd[q].from, cmd[q].to} \cap Accounts \subseteq held'[q]
               /\ seen'[q] = Balance(entries', cmd[q].from)
    <3>1. pc'[q] = pc[q] /\ wrote'[q] = wrote[q] /\ seen'[q] = seen[q]
      BY <1>2, <2>0, <2>4, Frame
    <3>2. Relying(q)
      BY <2>4, <3>1, Zenon DEF Relying
    <3>3. Balance(entries', cmd[q].from) = Balance(entries, cmd[q].from)
      BY <1>2, <2>4, <3>2, OthersBalance, Zenon
    <3> QED
      BY <2>1, <2>4, <3>1, <3>2, <3>3, Zenon DEF Safety, FreshBalance
  <2> QED
    BY <2>0, <2>2, <2>3, <2>4, Zenon DEF FreshBalance
<1> QED
  BY <1>1, <1>2, StepCases

LEMMA NonNegativeStep ==
  ASSUME Safety, [Next]_vars
  PROVE  NonNegative'
<1>1. CASE entries' = entries
  BY <1>1, Zenon DEF Safety, NonNegative
<1>2. ASSUME NEW r \in Requests, Commit(r), "entries" \in wrote[r]
      PROVE  NonNegative'
  <2> SUFFICES ASSUME NEW a \in Customers
               PROVE  Balance(entries', a) >= 0
    BY Zenon DEF NonNegative
  <2>1. Balance(entries, a) >= 0 /\ Balance(entries, a) \in Int
    BY BalanceType, Zenon DEF Safety, TypeOK, NonNegative
  <2>2. a # System
    BY Zenon DEF Customers
  <2> QED
    BY <1>2, <2>1, <2>2, CommitBalances, SMTT(20) DEF CanDebit
<1> QED
  BY <1>1, <1>2, StepCases DEF vars, tables, Progress, RejectInput, Begin, ClaimKey, Replay,
     LockFirst, LockSecond, ReadBalance, Decide, AppendEvent, CompleteKey, Commit, Return,
     Abandon, Rollback

LEMMA SafetyInvariant == Spec => []Safety
<1>1. Safety /\ [Next]_vars => Safety'
  BY TypeStep, StagesStep, FreshStep, NonNegativeStep, Zenon DEF Safety
<1> QED
  BY InitSafety, <1>1, PTL DEF Spec

(* Every reachable state is well typed.                                    *)
THEOREM TypeCorrect == Spec => []TypeOK
BY SafetyInvariant, PTL DEF Safety

(* For any accounts, requests and commands, no interleaving, lost answer   *)
(* or abandoned transaction ever makes a customer balance negative.        *)
THEOREM NeverNegative == Spec => []NonNegative
BY SafetyInvariant, PTL DEF Safety

(* A row lock has one holder, and the balance on which CanDebit decided is *)
(* still the committed balance when the transaction commits.               *)
THEOREM BalanceStaysFresh == Spec => []FreshBalance
BY SafetyInvariant, PTL DEF Safety

-----------------------------------------------------------------------------
(***************************************************************************)
(* The refinement: every behaviour of the locking strategy is a behaviour  *)
(* of the contract.  The commit of a transaction with entries is the       *)
(* instant at which the transfer happens; all statements before it are     *)
(* invisible.                                                              *)
(***************************************************************************)
\* The stored row that answers r with its result.
RowFor(r) ==
  \E x \in keyRows : /\ x.key = cmd[r].key /\ x.fingerprint = Fingerprint(cmd[r])
                     /\ x.transfer = result[r]

\* What a session may still answer, and with which transfer.
Owned(r) ==
  /\ pc[r] \in {"idle", "committed"} => resp[r] = "pending"
  /\ pc[r] \in Statements => resp[r] \in {"pending", "unknown"}
  /\ pc[r] \in {"idle", "claim", "load"} \/ "claim" \in wrote[r] => result[r] = r
  /\ pc[r] = "committed" \/ (pc[r] = "commit" /\ wrote[r] = {}) => RowFor(r)

\* r has inserted its key row and not yet ended its transaction.
Claimed(r) == Open(r) /\ "claim" \in wrote[r]

\* An open claim is the only row, committed or not, with its key.
KeysFree ==
  \A r \in Requests : Claimed(r) =>
    /\ \A x \in keyRows : x.key # cmd[r].key
    /\ \A q \in Requests : q # r /\ Claimed(q) => cmd[q].key # cmd[r].key

\* Only a committed transfer has an event, and only a completed key a row.
Announced ==
  /\ \A o \in outbox : o.transfer \in Requests /\ pc[o.transfer] \in {"committed", "closed"}
  /\ \A x \in keyRows : x.state = "completed"

\* The inductive invariant of the refinement, on top of Safety.
Bookkeeping == (\A r \in Requests : Owned(r)) /\ KeysFree /\ Announced

-----------------------------------------------------------------------------
LEMMA InitBookkeeping == Init => Bookkeeping
<1> SUFFICES ASSUME Init PROVE Bookkeeping
  BY Zenon
<1>1. \A r \in Requests : Owned(r)
  BY Zenon DEF Init, Owned, Statements
<1>2. KeysFree
  BY Zenon DEF Init, KeysFree, Claimed
<1>3. Announced
  BY DEF Init, Announced
<1> QED
  BY <1>1, <1>2, <1>3, Zenon DEF Bookkeeping

\* Rows are only added, and only by the commit of a transaction that has
\* executed everything.
LEMMA RowsStep ==
  ASSUME Safety, NEW r \in Requests,
         RejectInput(r) \/ Begin(r) \/ Progress(r) \/ Abandon(r)
  PROVE  \/ keyRows' = keyRows /\ outbox' = outbox /\ entries' = entries
         \/ /\ Commit(r)
            /\ wrote[r] = {"claim", "entries", "event", "response"}
            /\ keyRows' = keyRows \cup {StoredKey(cmd[r], r, "completed")}
            /\ outbox' = outbox \cup {[event |-> r, transfer |-> r]}
<1>1. CASE Commit(r)
  <2>1. wrote[r] \in {{}, {"claim", "entries", "event", "response"}}
    BY <1>1, Zenon DEF Commit, Safety, Stages, Stage
  <2> QED
    BY <1>1, <2>1, Zenon DEF Commit, KeyRow
<1> QED
  BY <1>1, Zenon DEF Progress, RejectInput, Begin, ClaimKey, Replay, LockFirst, LockSecond,
     ReadBalance, Decide, AppendEvent, CompleteKey, Return, Abandon, Rollback, tables

\* A step of r keeps what is known of r's own answer.
LEMMA OwnOwned ==
  ASSUME Safety, Bookkeeping, NEW r \in Requests,
         RejectInput(r) \/ Begin(r) \/ Progress(r) \/ Abandon(r)
  PROVE  Owned(r)'
<1>0. TypeOK /\ Stage(r) /\ Owned(r)
  BY Zenon DEF Safety, Stages, Bookkeeping
<1>1. CASE RejectInput(r)
  BY <1>0, <1>1, Zenon DEF TypeOK, Stage, Owned, RowFor, RejectInput, tables, Statements
<1>2. CASE Begin(r)
  BY <1>0, <1>2, Zenon DEF TypeOK, Stage, Owned, RowFor, Begin, tables, Statements
<1>3. CASE ClaimKey(r)
  BY <1>0, <1>3, Zenon DEF TypeOK, Stage, Owned, RowFor, ClaimKey, tables, Statements
<1>4. CASE LockFirst(r)
  BY <1>0, <1>4, Zenon DEF TypeOK, Stage, Owned, RowFor, LockFirst, tables, Statements
<1>5. CASE LockSecond(r)
  BY <1>0, <1>5, Zenon DEF TypeOK, Stage, Owned, RowFor, LockSecond, tables, Statements
<1>6. CASE ReadBalance(r)
  BY <1>0, <1>6, Zenon DEF TypeOK, Stage, Owned, RowFor, ReadBalance, tables, Statements
<1>7. CASE Decide(r)
  BY <1>0, <1>7, ZenonT(30) DEF TypeOK, Stage, Owned, RowFor, Decide, Refuse, InsertEntries, tables, Statements
<1>8. CASE AppendEvent(r) \/ CompleteKey(r)
  <2>1. resp[r] = "pending" /\ resp' = resp /\ result' = result /\ "claim" \in wrote[r]
    BY <1>0, <1>8, Zenon DEF AppendEvent, CompleteKey, Stage
  <2>2. pc'[r] \in {"complete", "commit"}
    BY <1>0, <1>8, Zenon DEF AppendEvent, CompleteKey, TypeOK
  <2>3. PICK w : wrote' = [wrote EXCEPT ![r] = @ \cup {w}]
    BY <1>8, Zenon DEF AppendEvent, CompleteKey
  <2>4. "claim" \in wrote'[r]
    BY <1>0, <2>1, <2>3 DEF TypeOK
  <2>5. result[r] = r
    BY <1>0, <2>1, Zenon DEF Owned
  <2> QED
    BY <2>1, <2>2, <2>4, <2>5, ZenonT(30), Zenon DEF Owned
<1>9. CASE Return(r)
  BY <1>0, <1>9, ZenonT(30), Zenon DEF TypeOK, Stage, Owned, RowFor, Return, tables, Statements
<1>10. CASE Abandon(r)
  BY <1>0, <1>10, Zenon DEF TypeOK, Stage, Owned, RowFor, Abandon, tables, Statements
<1>11. CASE Rollback(r)
  BY <1>0, <1>11, Zenon DEF TypeOK, Stage, Owned, RowFor, Rollback, Open, tables, Statements
<1>12. CASE Replay(r)
  <2>1. PICK x \in keyRows : x.key = cmd[r].key /\ ReplayFrom(r, x)
    BY <1>12, ZenonT(30) DEF Replay
  <2>2. wrote[r] = {} /\ wrote' = wrote /\ cmd' = cmd /\ keyRows' = keyRows
    BY <1>0, <1>12, ZenonT(30), Zenon DEF Replay, Stage, tables
  <2>3. CASE ReplayOutcome(x, cmd[r]) = "ok"
    <3>1. x.fingerprint = Fingerprint(cmd[r])
      BY <2>3 DEF ReplayOutcome
    <3>2. result'[r] = x.transfer /\ pc'[r] = "commit" /\ resp'[r] = "pending"
      BY <1>0, <1>12, <2>1, <2>3, Zenon DEF TypeOK, Replay, ReplayFrom
    <3> QED
      BY <2>1, <2>2, <3>1, <3>2, Zenon DEF Owned, RowFor, Statements
  <2>4. CASE ReplayOutcome(x, cmd[r]) # "ok"
    <3>1. pc'[r] = "rollback"
      BY <1>0, <2>1, <2>4 DEF TypeOK, ReplayFrom
    <3> QED
      BY <2>2, <3>1, Zenon DEF Owned, Statements
  <2> QED
    BY <2>3, <2>4, Zenon
<1>13. CASE Commit(r)
  <2>1. pc'[r] \in {"committed", "closed"} /\ result' = result /\ resp' = resp
        /\ wrote' = wrote /\ cmd' = cmd
    BY <1>0, <1>13, Zenon DEF TypeOK, Commit
  <2>2. pc'[r] = "committed" => resp[r] = "pending"
    BY <1>0, <1>13 DEF TypeOK, Commit
  <2>3. RowFor(r)'
    <3>1. CASE wrote[r] = {}
      <4>1. RowFor(r) /\ keyRows' = keyRows
        BY <1>0, <1>13, <3>1, Zenon DEF Owned, Commit
      <4> QED
        BY <2>1, <4>1, Zenon DEF RowFor
    <3>2. CASE wrote[r] = {"claim", "entries", "event", "response"}
      <4>1. StoredKey(cmd[r], r, "completed") \in keyRows'
        BY <1>13, <3>2, Zenon DEF Commit, KeyRow
      <4>2. result[r] = r
        BY <1>0, <3>2 DEF Owned
      <4> QED
        BY <2>1, <4>1, <4>2, Zenon DEF RowFor, StoredKey
    <3> QED
      BY <1>0, <1>13, <3>1, <3>2, ZenonT(30), Zenon DEF Stage, Commit
  <2>4. "claim" \in wrote[r] => result[r] = r
    BY <1>0, Zenon DEF Owned
  <2> QED
    BY <2>1, <2>2, <2>3, <2>4, Zenon DEF Owned, Statements
<1> QED
  BY <1>1, <1>2, <1>3, <1>4, <1>5, <1>6, <1>7, <1>8, <1>9, <1>10, <1>11, <1>12, <1>13, Zenon DEF Progress

LEMMA OwnedStep ==
  ASSUME Safety, Bookkeeping, [Next]_vars
  PROVE  \A r \in Requests : Owned(r)'
<1>1. CASE UNCHANGED vars
  BY <1>1, Zenon DEF Bookkeeping, Owned, RowFor, vars
<1>2. ASSUME NEW r \in Requests, RejectInput(r) \/ Begin(r) \/ Progress(r) \/ Abandon(r)
      PROVE  \A q \in Requests : Owned(q)'
  <2>1. Owned(r)'
    BY <1>2, OwnOwned, Zenon
  <2>2. ASSUME NEW q \in Requests, q # r
        PROVE  Owned(q)'
    <3>1. Owned(q) /\ TypeOK
      BY Zenon DEF Safety, Bookkeeping
    <3>2. /\ cmd' = cmd /\ pc'[q] = pc[q] /\ resp'[q] = resp[q]
          /\ result'[q] = result[q] /\ wrote'[q] = wrote[q]
      BY <1>2, <2>2, <3>1, Frame, Zenon
    <3>3. RowFor(q) => RowFor(q)'
      BY <1>2, <3>2, RowsStep DEF RowFor
    <3> QED
      BY <3>1, <3>2, <3>3 DEF Owned
  <2> QED
    BY <2>1, <2>2, Zenon
<1> QED
  BY <1>1, <1>2, StepCases, Zenon

\* A step that leaves r with an open claim is the claim itself or finds r with
\* one; a step that commits a row leaves r without one.
LEMMA ClaimedStep ==
  ASSUME Safety, NEW r \in Requests, Claimed(r)',
         RejectInput(r) \/ Begin(r) \/ Progress(r) \/ Abandon(r)
  PROVE  /\ keyRows' = keyRows
         /\ Claimed(r) \/ (ClaimKey(r) /\ \A x \in keyRows : x.key # cmd[r].key)
<1>0. TypeOK /\ Stage(r)
  BY DEF Safety, Stages
<1>1. CASE ClaimKey(r)
  BY <1>0, <1>1, Zenon DEF TypeOK, Stage, ClaimKey, Claimed, Open, tables
<1>2. CASE Commit(r)
  BY <1>0, <1>2, Zenon DEF TypeOK, Commit, Claimed, Open, Statements
<1>3. CASE RejectInput(r)
  BY <1>0, <1>3, Zenon DEF TypeOK, Stage, RejectInput, Claimed, Open, tables, Statements
<1>4. CASE Begin(r)
  BY <1>0, <1>4, Zenon DEF TypeOK, Stage, Begin, Claimed, Open, tables, Statements
<1>5. CASE LockFirst(r)
  BY <1>0, <1>5, Zenon DEF TypeOK, Stage, LockFirst, Claimed, Open, tables, Statements
<1>6. CASE LockSecond(r)
  BY <1>0, <1>6, Zenon DEF TypeOK, Stage, LockSecond, Claimed, Open, tables, Statements
<1>7. CASE ReadBalance(r)
  BY <1>0, <1>7, Zenon DEF TypeOK, Stage, ReadBalance, Claimed, Open, tables, Statements
<1>8. CASE Decide(r)
  BY <1>0, <1>8, Zenon DEF TypeOK, Stage, Decide, Refuse, InsertEntries, Claimed, Open, tables, Statements
<1>9. CASE AppendEvent(r)
  BY <1>0, <1>9, Zenon DEF TypeOK, Stage, AppendEvent, Claimed, Open, tables, Statements
<1>10. CASE CompleteKey(r)
  BY <1>0, <1>10, Zenon DEF TypeOK, Stage, CompleteKey, Claimed, Open, tables, Statements
<1>11. CASE Return(r)
  BY <1>0, <1>11, Zenon DEF TypeOK, Stage, Return, Claimed, Open, tables, Statements
<1>12. CASE Abandon(r)
  BY <1>0, <1>12, Zenon DEF TypeOK, Stage, Abandon, Claimed, Open, tables, Statements
<1>13. CASE Rollback(r)
  BY <1>0, <1>13, Zenon DEF TypeOK, Stage, Rollback, Claimed, Open, tables, Statements
<1>14. CASE Replay(r)
  BY <1>0, <1>14, Zenon DEF TypeOK, Stage, Replay, ReplayFrom, Claimed, Open, tables, Statements
<1> QED
  BY <1>1, <1>2, <1>3, <1>4, <1>5, <1>6, <1>7, <1>8, <1>9, <1>10, <1>11, <1>12, <1>13, <1>14, Zenon DEF Progress

LEMMA KeysFreeStep ==
  ASSUME Safety, Bookkeeping, [Next]_vars
  PROVE  KeysFree'
<1>1. CASE UNCHANGED vars
  BY <1>1, Zenon DEF Bookkeeping, KeysFree, Claimed, Open, vars
<1>2. ASSUME NEW r \in Requests, RejectInput(r) \/ Begin(r) \/ Progress(r) \/ Abandon(r)
      PROVE  KeysFree'
  <2>0. TypeOK /\ KeysFree /\ cmd' = cmd
    BY <1>2, Zenon DEF Safety, Bookkeeping, Progress, RejectInput, Begin, ClaimKey, Replay, LockFirst,
       LockSecond, ReadBalance, Decide, AppendEvent, CompleteKey, Commit, Return,
       Abandon, Rollback
  <2>1. \A q \in Requests : q # r => (Claimed(q)' <=> Claimed(q))
    BY <1>2, <2>0, Frame, Zenon DEF Claimed, Open
  <2>2. ASSUME Claimed(r)'
        PROVE  /\ \A x \in keyRows' : x.key # cmd[r].key
               /\ \A q \in Requests : q # r /\ Claimed(q) => cmd[q].key # cmd[r].key
    <3>1. keyRows' = keyRows
      BY <1>2, <2>2, ClaimedStep, Zenon
    <3>2. CASE Claimed(r)
      BY <2>0, <3>1, <3>2 DEF KeysFree
    <3>3. CASE ClaimKey(r) /\ \A x \in keyRows : x.key # cmd[r].key
      BY <3>1, <3>3, Zenon DEF ClaimKey, WaitsForKey, Claimed
    <3> QED
      BY <1>2, <2>2, <3>2, <3>3, ClaimedStep, Zenon
  <2>3. ASSUME NEW q \in Requests, q # r, Claimed(q)
        PROVE  \A x \in keyRows' : x.key # cmd[q].key
    <3>1. CASE keyRows' = keyRows
      BY <2>0, <2>3, <3>1 DEF KeysFree
    <3>2. CASE /\ Commit(r) /\ "claim" \in wrote[r]
               /\ keyRows' = keyRows \cup {StoredKey(cmd[r], r, "completed")}
      <4>1. Claimed(r)
        BY <3>2, Zenon DEF Commit, Claimed, Open, Statements
      <4>2. cmd[r].key # cmd[q].key
        BY <2>0, <2>3, <4>1, Zenon DEF KeysFree
      <4> QED
        BY <2>0, <2>3, <3>2, <4>2 DEF KeysFree, StoredKey
    <3>3. \/ keyRows' = keyRows
          \/ /\ Commit(r) /\ wrote[r] = {"claim", "entries", "event", "response"}
             /\ keyRows' = keyRows \cup {StoredKey(cmd[r], r, "completed")}
      BY <1>2, RowsStep, Zenon
    <3> QED
      BY <3>1, <3>2, <3>3, Zenon
  <2>4. \A p, q \in Requests : p # q /\ Claimed(p)' /\ Claimed(q)' => cmd[p].key # cmd[q].key
    BY <2>0, <2>1, <2>2, Zenon DEF KeysFree
  <2> QED
    BY <2>0, <2>1, <2>2, <2>3, <2>4, Zenon DEF KeysFree
<1> QED
  BY <1>1, <1>2, StepCases

LEMMA AnnouncedStep ==
  ASSUME Safety, Bookkeeping, [Next]_vars
  PROVE  Announced'
<1>1. CASE UNCHANGED vars
  BY <1>1, Zenon DEF Bookkeeping, Announced, vars
<1>2. ASSUME NEW r \in Requests, RejectInput(r) \/ Begin(r) \/ Progress(r) \/ Abandon(r)
      PROVE  Announced'
  <2>0. TypeOK /\ Announced
    BY Zenon DEF Safety, Bookkeeping
  <2>1. pc[r] \in {"committed", "closed"} => pc'[r] \in {"committed", "closed"}
    BY <1>2, <2>0, Zenon DEF TypeOK, Progress, RejectInput, Begin, ClaimKey, Replay, LockFirst,
       LockSecond, ReadBalance, Decide, AppendEvent, CompleteKey, Commit, Return,
       Abandon, Rollback, Open, Statements
  <2>2. \A q \in Requests : pc[q] \in {"committed", "closed"} => pc'[q] \in {"committed", "closed"}
    BY <1>2, <2>0, <2>1, Frame, Zenon
  <2>3. CASE keyRows' = keyRows /\ outbox' = outbox
    BY <2>0, <2>2, <2>3 DEF Announced
  <2>4. CASE /\ Commit(r)
             /\ keyRows' = keyRows \cup {StoredKey(cmd[r], r, "completed")}
             /\ outbox' = outbox \cup {[event |-> r, transfer |-> r]}
    <3>1. pc'[r] \in {"committed", "closed"}
      BY <2>0, <2>4, Zenon DEF TypeOK, Commit
    <3> QED
      BY <2>0, <2>2, <2>4, <3>1 DEF Announced, StoredKey
  <2> QED
    BY <1>2, <2>3, <2>4, RowsStep
<1> QED
  BY <1>1, <1>2, StepCases, Zenon

\* Safety and Bookkeeping hold together in every reachable state.
LEMMA BookkeepingInvariant == Spec => [](Safety /\ Bookkeeping)
<1>1. Init => Safety /\ Bookkeeping
  BY InitSafety, InitBookkeeping
<1>2. Safety /\ Bookkeeping /\ [Next]_vars => (Safety /\ Bookkeeping)'
  <2> SUFFICES ASSUME Safety, Bookkeeping, [Next]_vars PROVE (Safety /\ Bookkeeping)'
    BY Zenon
  <2>1. Safety'
    BY TypeStep, StagesStep, FreshStep, NonNegativeStep DEF Safety
  <2>2. Bookkeeping'
    BY OwnedStep, KeysFreeStep, AnnouncedStep, Zenon DEF Bookkeeping
  <2> QED
    BY <2>1, <2>2, Zenon
<1> QED
  BY <1>1, <1>2, PTL DEF Spec

-----------------------------------------------------------------------------
\* The abstract state that a state of the locking strategy stands for.
BalanceMap  == [a \in Accounts |-> Balance(entries, a)]
AnswerMap   == [r \in Requests |-> IF resp[r] \in Answers THEN "answered" ELSE resp[r]]
ReceiptMap  == {<<r, result[r]>> : r \in {q \in Requests : resp[q] \in Answers}}
AnnounceMap == {o.transfer : o \in outbox}

LEMMA InitContract == Init => Contract!Init
<1> SUFFICES ASSUME Init PROVE Contract!Init
  BY Zenon
<1>1. [a \in Accounts |-> Balance(entries, a)] = [a \in Accounts |-> 0]
  BY BalanceEmpty, Zenon DEF Init
<1>2. [r \in Requests |-> IF resp[r] \in Answers THEN "answered" ELSE resp[r]]
        = [r \in Requests |-> "pending"]
  BY Zenon DEF Init, Answers
<1>3. {<<r, result[r]>> : r \in {q \in Requests : resp[q] \in Answers}} = {}
  BY Zenon DEF Init, Answers
<1> QED
  BY <1>1, <1>2, <1>3, Zenon DEF Init, Contract!Init

\* A step that changes no row, no answer and no result of an answered request
\* is invisible.
LEMMA Invisible ==
  ASSUME UNCHANGED <<cmd, entries, keyRows, outbox, resp, result>>
  PROVE  UNCHANGED Contract!vars
BY Zenon DEF Contract!vars

\* The vocabulary of the use case is the same on both sides.
LEMMA SameWords ==
  /\ \A c : Contract!InputError(c) = InputError(c)
  /\ \A c : Contract!AccountsExist(c) = AccountsExist(c)
  /\ \A c : Contract!Fingerprint(c) = Fingerprint(c)
  /\ \A c, t, st : Contract!StoredKey(c, t, st) = StoredKey(c, t, st)
  /\ \A b, n, a : Contract!CanDebit(b, n, a) = CanDebit(b, n, a)
  /\ Contract!Refusals = Refusals
BY Zenon DEF InputError, ValidAmount, AccountsExist, Fingerprint, StoredKey, CanDebit, Refusals,
   Contract!InputError, Contract!ValidAmount, Contract!AccountsExist, Contract!Fingerprint,
   Contract!StoredKey, Contract!CanDebit, Contract!Refusals

\* Telling r something other than a success changes its answer only.
LEMMA Tell ==
  ASSUME TypeOK, NEW r \in Requests, NEW word, word \notin Answers,
         resp[r] = "pending", resp' = [resp EXCEPT ![r] = word], result' = result
  PROVE  /\ AnswerMap[r] = "pending"
         /\ AnswerMap' = [AnswerMap EXCEPT ![r] = word]
         /\ ReceiptMap' = ReceiptMap
<1>1. \A q \in Requests : resp'[q] = IF q = r THEN word ELSE resp[q]
  BY Zenon DEF TypeOK
<1>2. AnswerMap[r] = "pending"
  BY Zenon DEF AnswerMap, Answers
<1>3. AnswerMap' = [AnswerMap EXCEPT ![r] = word]
  BY <1>1, Zenon DEF AnswerMap
<1>4. {q \in Requests : resp'[q] \in Answers} = {q \in Requests : resp[q] \in Answers}
  BY <1>1, Zenon DEF Answers
<1>5. ReceiptMap' = ReceiptMap
  BY <1>4, Zenon DEF ReceiptMap
<1> QED
  BY <1>2, <1>3, <1>5, Zenon

\* A refusal with a true reason is a step of the contract.
LEMMA RefuseStep ==
  ASSUME TypeOK, NEW r \in Requests, NEW why \in Refusals, Contract!Justified(r, why),
         resp[r] = "pending", resp' = [resp EXCEPT ![r] = why],
         UNCHANGED <<cmd, entries, keyRows, outbox, result>>
  PROVE  Contract!Next
<1>1. why \notin Answers
  BY Zenon DEF Refusals, Answers
<1>2. /\ AnswerMap[r] = "pending"
      /\ AnswerMap' = [AnswerMap EXCEPT ![r] = why]
      /\ ReceiptMap' = ReceiptMap
  BY <1>1, Tell, Zenon
<1>3. BalanceMap' = BalanceMap /\ AnnounceMap' = AnnounceMap
  BY Zenon DEF BalanceMap, AnnounceMap
<1>4. why \in Contract!Refusals
  BY SameWords, Zenon
<1>5. Contract!Refuse(r)
  BY <1>2, <1>3, <1>4, Zenon DEF Contract!Refuse, AnswerMap, ReceiptMap, BalanceMap, AnnounceMap
<1> QED
  BY <1>5, Zenon DEF Contract!Next

LEMMA RejectInputRefines ==
  ASSUME Safety, Bookkeeping, NEW r \in Requests, RejectInput(r)
  PROVE  Contract!Next
<1>1. TypeOK /\ resp[r] = "pending"
  BY Zenon DEF Safety, Bookkeeping, Owned, RejectInput
<1>2. InputError(cmd[r]) \in Refusals
  BY <1>1, CommandFacts, Zenon DEF RejectInput, Refusals
<1>3. Contract!Justified(r, InputError(cmd[r]))
  BY SameWords, Zenon DEF Contract!Justified
<1> QED
  BY <1>1, <1>2, <1>3, RefuseStep, Zenon DEF RejectInput, tables

LEMMA DecideRefines ==
  ASSUME Safety, Bookkeeping, NEW r \in Requests, Decide(r)
  PROVE  [Contract!Next]_(Contract!vars)
<1>1. TypeOK /\ resp[r] = "pending" /\ pc[r] = "decide"
  BY Zenon DEF Safety, Decide
<1>2. seen[r] = Balance(entries, cmd[r].from)
  BY <1>1 DEF Safety, FreshBalance, Relying
<1>3. CASE InsertEntries(r)
  BY <1>3, Invisible, Zenon DEF Decide, InsertEntries, tables
<1>4. CASE ~ AccountsExist(cmd[r]) /\ Refuse(r, "account_not_found")
  <2>1. Contract!Justified(r, "account_not_found")
    BY <1>4, SameWords, Zenon DEF Contract!Justified
  <2> QED
    BY <1>1, <1>4, <2>1, RefuseStep, Zenon DEF Decide, Refuse, Refusals, tables
<1>5. CASE /\ AccountsExist(cmd[r]) /\ ~ CanDebit(seen[r], cmd[r].amount, cmd[r].from)
           /\ Refuse(r, "insufficient_funds")
  <2>1. BalanceMap[cmd[r].from] = seen[r]
    BY <1>2, <1>5, Zenon DEF BalanceMap, AccountsExist
  <2>2. Contract!Justified(r, "insufficient_funds")
    BY <1>5, <2>1, SameWords, Zenon DEF Contract!Justified, BalanceMap
  <2> QED
    BY <1>1, <1>5, <2>2, RefuseStep, Zenon DEF Decide, Refuse, Refusals, tables
<1> QED
  BY <1>3, <1>4, <1>5, Zenon DEF Decide

LEMMA ReplayRefines ==
  ASSUME Safety, Bookkeeping, NEW r \in Requests, Replay(r)
  PROVE  [Contract!Next]_(Contract!vars)
<1>1. TypeOK /\ resp[r] = "pending"
  BY Zenon DEF Safety, Replay
<1>2. PICK x \in keyRows : x.key = cmd[r].key /\ ReplayFrom(r, x)
  BY Zenon DEF Replay
<1>3. x.state = "completed"
  BY Zenon DEF Bookkeeping, Announced
<1>4. CASE ReplayOutcome(x, cmd[r]) = "ok"
  <2>1. resp' = resp
    BY <1>1, <1>2, <1>4 DEF ReplayFrom, TypeOK
  <2>2. \A q \in {p \in Requests : resp[p] \in Answers} : result'[q] = result[q]
    BY <1>1, <1>2, Zenon DEF ReplayFrom, TypeOK, Answers
  <2>3. ReceiptMap' = ReceiptMap
    BY <2>1, <2>2, Zenon DEF ReceiptMap
  <2> QED
    BY <2>1, <2>3, Zenon DEF Contract!vars, Replay, tables, ReceiptMap
<1>5. CASE ReplayOutcome(x, cmd[r]) # "ok"
  <2>1. ReplayOutcome(x, cmd[r]) = "idempotency_key_reuse" /\ x.fingerprint # Fingerprint(cmd[r])
    BY <1>3, <1>5, Zenon DEF ReplayOutcome
  <2>2. Contract!Justified(r, "idempotency_key_reuse")
    BY <1>2, <2>1, SameWords, Zenon DEF Contract!Justified
  <2>3. resp' = [resp EXCEPT ![r] = "idempotency_key_reuse"] /\ result' = result
    BY <1>1, <1>2, <1>5, <2>1 DEF ReplayFrom, TypeOK
  <2> QED
    BY <1>1, <2>2, <2>3, RefuseStep, Zenon DEF Replay, Refusals, tables
<1> QED
  BY <1>4, <1>5, Zenon

LEMMA AbandonRefines ==
  ASSUME Safety, NEW r \in Requests, Abandon(r)
  PROVE  Contract!Next
<1>1. /\ AnswerMap[r] = "pending"
      /\ AnswerMap' = [AnswerMap EXCEPT ![r] = "unknown"]
      /\ ReceiptMap' = ReceiptMap
  BY Tell, Zenon DEF Safety, Abandon, Answers
<1>2. BalanceMap' = BalanceMap /\ AnnounceMap' = AnnounceMap
  BY Zenon DEF BalanceMap, AnnounceMap, Abandon, tables
<1>3. Contract!GiveUp(r)
  BY <1>1, <1>2, Zenon DEF Contract!GiveUp, AnswerMap, ReceiptMap, BalanceMap, AnnounceMap, Abandon, tables
<1> QED
  BY <1>3, Zenon DEF Contract!Next

LEMMA ReturnRefines ==
  ASSUME Safety, Bookkeeping, NEW r \in Requests, Return(r)
  PROVE  Contract!Next
<1>1. TypeOK /\ resp[r] = "pending" /\ RowFor(r)
  BY Zenon DEF Safety, Bookkeeping, Owned, Return
<1>2. PICK x \in keyRows : /\ x.key = cmd[r].key /\ x.fingerprint = Fingerprint(cmd[r])
                            /\ x.transfer = result[r]
  BY <1>1, Zenon DEF RowFor
<1>3. \A q \in Requests : resp'[q] \in Answers <=> q = r \/ resp[q] \in Answers
  BY <1>1, Zenon DEF TypeOK, Return, Answers
<1>4. ReceiptMap' = ReceiptMap \cup {<<r, result[r]>>}
  BY <1>3, Zenon DEF ReceiptMap, Return
<1>5. AnswerMap[r] = "pending" /\ AnswerMap' = [AnswerMap EXCEPT ![r] = "answered"]
  BY <1>1, <1>3, Zenon DEF AnswerMap, TypeOK, Return, Answers
<1>6. BalanceMap' = BalanceMap /\ AnnounceMap' = AnnounceMap
  BY Zenon DEF BalanceMap, AnnounceMap, Return, tables
<1>7. Contract!Answer(r)
  BY <1>2, <1>4, <1>5, <1>6, SameWords, Zenon
     DEF Contract!Answer, AnswerMap, ReceiptMap, BalanceMap, AnnounceMap, Return, tables
<1> QED
  BY <1>7, Zenon DEF Contract!Next

\* The commit of a transaction that executed is the transfer of the contract.
LEMMA CommitRefines ==
  ASSUME Safety, Bookkeeping, NEW r \in Requests, Commit(r)
  PROVE  [Contract!Next]_(Contract!vars)
<1>0. TypeOK /\ Stage(r) /\ pc[r] = "commit" /\ Owned(r)
  BY Zenon DEF Safety, Stages, Bookkeeping, Commit
<1>1. CASE wrote[r] = {}
  BY <1>1, Invisible, Zenon DEF Commit
<1>2. CASE wrote[r] = {"claim", "entries", "event", "response"}
  <2>1. /\ cmd[r].from \in Accounts /\ cmd[r].to \in Accounts /\ cmd[r].from # cmd[r].to
        /\ CanDebit(Balance(entries, cmd[r].from), cmd[r].amount, cmd[r].from)
        /\ Balance(entries', cmd[r].from) = Balance(entries, cmd[r].from) - cmd[r].amount
        /\ Balance(entries', cmd[r].to) = Balance(entries, cmd[r].to) + cmd[r].amount
        /\ \A a : a # cmd[r].from /\ a # cmd[r].to => Balance(entries', a) = Balance(entries, a)
    BY <1>2, CommitBalances
  <2>2. BalanceMap' = [BalanceMap EXCEPT ![cmd[r].from] = @ - cmd[r].amount,
                                         ![cmd[r].to] = @ + cmd[r].amount]
    BY <2>1, Zenon DEF BalanceMap
  <2>3. AnswerMap[r] \in {"pending", "unknown"}
    BY <1>0, Zenon DEF Owned, Statements, AnswerMap, Answers
  <2>4. AnswerMap' = AnswerMap /\ ReceiptMap' = ReceiptMap /\ cmd' = cmd
    BY Zenon DEF AnswerMap, ReceiptMap, Commit
  <2>5. InputError(cmd[r]) = "none" /\ AccountsExist(cmd[r])
    BY <1>0, <2>1, Zenon DEF Stage, AccountsExist
  <2>6. \A x \in keyRows : x.key # cmd[r].key
    BY <1>0, <1>2, Zenon DEF Bookkeeping, KeysFree, Claimed, Open, Statements
  <2>7. /\ keyRows' = keyRows \cup {StoredKey(cmd[r], r, "completed")}
        /\ outbox' = outbox \cup {[event |-> r, transfer |-> r]}
    BY <1>2, Zenon DEF Commit, KeyRow
  <2>8. r \in Transfers \ AnnounceMap
    BY <1>0, RequestsAssumption, Zenon DEF Bookkeeping, Announced, AnnounceMap
  <2>9. AnnounceMap' = AnnounceMap \cup {r}
    <3> DEFINE event == [event |-> r, transfer |-> r]
    <3>1. event.transfer = r
      BY Zenon
    <3>2. outbox' = outbox \cup {event}
      BY <2>7, Zenon
    <3> HIDE DEF event
    <3> QED
      BY <3>1, <3>2, Zenon DEF AnnounceMap
  <2>10. BalanceMap[cmd[r].from] = Balance(entries, cmd[r].from)
    BY <2>1, Zenon DEF BalanceMap
  <2>11. Contract!Apply(r)
    BY <2>1, <2>2, <2>3, <2>4, <2>5, <2>6, <2>7, <2>8, <2>9, <2>10, SameWords
       DEF Contract!Apply, Contract!KeyUsed, AnswerMap, ReceiptMap, BalanceMap, AnnounceMap
  <2> QED
    BY <2>11, Zenon DEF Contract!Next
<1> QED
  BY <1>0, <1>1, <1>2, Zenon DEF Stage

\* Every step is a step of the contract or invisible to it.
LEMMA StepRefines ==
  ASSUME Safety, Bookkeeping, [Next]_vars
  PROVE  [Contract!Next]_(Contract!vars)
<1>1. CASE UNCHANGED vars
  BY <1>1, Invisible, Zenon DEF vars
<1>2. ASSUME NEW r \in Requests, RejectInput(r) \/ Begin(r) \/ Progress(r) \/ Abandon(r)
      PROVE  [Contract!Next]_(Contract!vars)
  <2>1. CASE UNCHANGED <<cmd, entries, keyRows, outbox, resp, result>>
    BY <2>1, Invisible
  <2> QED
    BY <1>2, <2>1, RejectInputRefines, DecideRefines, ReplayRefines, AbandonRefines,
       ReturnRefines, CommitRefines
      , Zenon DEF Progress, Begin, ClaimKey, LockFirst, LockSecond, ReadBalance, AppendEvent,
       CompleteKey, Rollback, tables
<1> QED
  BY <1>1, <1>2, StepCases

(* The locking strategy implements the contract of the API: for any        *)
(* accounts, requests and commands, with retries, races, abandoned         *)
(* handlers and late commits, what clients and the ledger show could have  *)
(* been produced by transfers that happen at single instants.              *)
THEOREM LockingImplements == Spec => ImplementsContract
<1>1. Spec => [](Safety /\ Bookkeeping)
  BY BookkeepingInvariant, Zenon
<1>2. Init => Contract!Init
  BY InitContract, Zenon
<1>3. Safety /\ Bookkeeping /\ [Next]_vars => [Contract!Next]_(Contract!vars)
  BY StepRefines, Zenon
<1> QED
  BY <1>1, <1>2, <1>3, PTL DEF Spec, ImplementsContract, Contract!Spec
=============================================================================
