---------------------------- MODULE TableProofs ----------------------------
(***************************************************************************)
(* The outbox and the accounts table.  The relay never loses an event,     *)
(* never works on one twice at a time and accounts for every duplicate,    *)
(* for any number of relays, events, rows per poll and failures; its wait  *)
(* before a retry is the capped doubling for any number of attempts.       *)
(* There is one system account and Create's answers are true, for any      *)
(* number of instances, starts and requests.                               *)
(***************************************************************************)
EXTENDS OutboxRelay, Accounts, FiniteSetTheorems, WellFoundedInduction, TLAPS

(***************************************************************************)
(* The accounts table.  The unique constraint makes the rows of a kind one *)
(* per owner; what is needed besides is which request every customer row   *)
(* came from, rows of callers that gave up included.                       *)
(***************************************************************************)
\* What the table and the requests hold.
AccountRows == [id : 1 .. lastId, owner : Owners, kind : {"system", "customer"}]

AccountsTyped ==
  /\ lastId \in Nat /\ rows \in SUBSET AccountRows /\ late \in SUBSET AccountRows
  /\ ipc \in [Instances -> {"down", "insert", "select", "up"}]
  /\ fresh \in [Instances -> 0 .. lastId] /\ sysId \in [Instances -> 0 .. lastId]
  /\ \A i \in Instances : ipc[i] = "insert" => fresh[i] # 0
  /\ owner \in [Creators -> Owners] /\ newId \in [Creators -> 0 .. lastId]
  /\ cpc \in [Creators -> {"new", "insert", "find"} \cup Answers]

UniqueRows == \A x, y \in rows : x.owner = y.owner /\ x.kind = y.kind => x = y

\* The system account that an instance found has not gone.
Used == \A i \in Instances : sysId[i] # 0 => Row(sysId[i], SystemOwner, "system") \in rows

\* A request has an id from its insert on, which no other has.
Drew ==
  \A c \in Creators :
    /\ newId[c] = 0 <=> cpc[c] \in {"new", "invalid_owner"}
    /\ \A d \in Creators : newId[c] = newId[d] /\ newId[c] # 0 => c = d

\* Customer rows, also those still on their way, are of requests that are past
\* their insert; what a request was told about them holds.
Inserted ==
  /\ \A x \in rows \cup late : x.kind = "customer" =>
       \E d \in Creators : x = CustomerRow(d) /\ cpc[d] \in {"find", "created", "error"}
  /\ \A c \in Creators :
       /\ cpc[c] \in {"find", "created"} => CustomerRow(c) \in rows
       /\ cpc[c] = "already_exists" =>
            \E d \in Creators \ {c} : CustomerRow(d) \in rows /\ owner[d] = owner[c]
       /\ cpc[c] # "not_found"

AccountsInv == AccountsTyped /\ UniqueRows /\ Used /\ Drew /\ Inserted

LEMMA AccountsInitially == AccountsInit => AccountsInv
<1> SUFFICES ASSUME AccountsInit PROVE AccountsInv
  BY Zenon
<1>1. AccountsTyped
  BY DEF AccountsInit, AccountsTyped, AccountRows
<1>2. UniqueRows /\ Used /\ Drew /\ Inserted
  BY Zenon DEF AccountsInit, UniqueRows, Used, Drew, Inserted
<1> QED
  BY <1>1, <1>2, Zenon DEF AccountsInv

\* A row of the table is its id, owner and kind.
LEMMA IsRow ==
  ASSUME AccountsTyped, NEW x \in rows
  PROVE  /\ x = Row(x.id, x.owner, x.kind)
         /\ x.id \in 1 .. lastId /\ x.owner \in Owners /\ x.kind \in {"system", "customer"}
BY Zenon DEF AccountsTyped, AccountRows, Row

\* The unique constraint: an insert keeps the rows apart.
LEMMA AddRow ==
  ASSUME UniqueRows, NEW x, rows' \in {rows, IF Taken(x) THEN rows ELSE rows \cup {x}}
  PROVE  UniqueRows' /\ rows \subseteq rows' /\ rows' \subseteq rows \cup {x}
BY Zenon DEF UniqueRows, Taken

\* Steps of an instance.
LEMMA InstanceKeeps ==
  ASSUME AccountsInv, NEW i \in Instances,
         Start(i) \/ InsertSystem(i) \/ SelectSystem(i) \/ Fall(i)
  PROVE  AccountsInv'
<1>0. AccountsTyped /\ UniqueRows /\ Used /\ Drew /\ Inserted
  BY Zenon DEF AccountsInv
<1>1. UNCHANGED <<owner, cpc, newId>>
  BY Zenon DEF Start, InsertSystem, SelectSystem, Fall, createVars
<1>2. CASE Start(i)
  <2>1. AccountsTyped'
    BY <1>0, <1>2 DEF AccountsTyped, AccountRows, Start, createVars
  <2>2. UniqueRows' /\ Used' /\ Drew' /\ Inserted'
    BY <1>0, <1>1, <1>2, Zenon DEF Start, UniqueRows, Used, Drew, Inserted, CustomerRow
  <2> QED
    BY <2>1, <2>2, Zenon DEF AccountsInv
<1>3. CASE InsertSystem(i)
  <2>1. SystemRow(i) \in AccountRows /\ SystemRow(i).kind # "customer"
    BY <1>0, <1>3, OwnersAssumption DEF AccountsTyped, AccountRows, SystemRow, Row, InsertSystem
  <2>2. UniqueRows' /\ rows \subseteq rows' /\ rows' \subseteq rows \cup {SystemRow(i)}
    BY <1>0, <1>3, AddRow DEF InsertSystem
  <2>3. AccountsTyped'
    BY <1>0, <1>1, <1>3, <2>1, <2>2 DEF AccountsTyped, AccountRows, InsertSystem
  <2>4. Used' /\ Drew' /\ Inserted'
    BY <1>0, <1>1, <1>3, <2>1, <2>2, Zenon DEF InsertSystem, Used, Drew, Inserted, CustomerRow
  <2> QED
    BY <2>2, <2>3, <2>4, Zenon DEF AccountsInv
<1>4. CASE SelectSystem(i)
  <2>1. PICK x \in rows : /\ x.owner = SystemOwner /\ x.kind = "system"
                          /\ sysId' = [sysId EXCEPT ![i] = x.id]
    BY <1>4, Zenon DEF SelectSystem
  <2>2. x = Row(x.id, SystemOwner, "system") /\ x.id \in 1 .. lastId
    BY <1>0, <2>1, IsRow, Zenon
  <2>3. AccountsTyped'
    BY <1>0, <1>1, <1>4, <2>1, <2>2 DEF AccountsTyped, AccountRows, SelectSystem
  <2>4. Used'
    BY <1>0, <1>4, <2>1, <2>2, Zenon DEF AccountsTyped, Used, SelectSystem
  <2>5. UniqueRows' /\ Drew' /\ Inserted'
    BY <1>0, <1>1, <1>4, ZenonT(30) DEF SelectSystem, UniqueRows, Drew, Inserted, CustomerRow
  <2> QED
    BY <2>3, <2>4, <2>5, Zenon DEF AccountsInv
<1>5. CASE Fall(i)
  <2>1. ipc[i] = "insert" => SystemRow(i) \in AccountRows /\ SystemRow(i).kind # "customer"
    BY <1>0, OwnersAssumption DEF AccountsTyped, AccountRows, SystemRow, Row
  <2>2. AccountsTyped'
    BY <1>0, <1>1, <1>5, <2>1, Zenon DEF AccountsTyped, AccountRows, Fall
  <2>3. UniqueRows' /\ Used' /\ Drew' /\ Inserted'
    BY <1>0, <1>1, <1>5, <2>1, Zenon DEF Fall, UniqueRows, Used, Drew, Inserted, CustomerRow
  <2> QED
    BY <2>2, <2>3, Zenon DEF AccountsInv
<1> QED
  BY <1>2, <1>3, <1>4, <1>5, Zenon

\* Steps of a request.
LEMMA CreatorKeeps ==
  ASSUME AccountsInv, NEW c \in Creators,
         Create(c) \/ InsertCustomer(c) \/ FindByID(c) \/ Fail(c)
  PROVE  AccountsInv'
<1>0. AccountsTyped /\ UniqueRows /\ Used /\ Drew /\ Inserted
  BY Zenon DEF AccountsInv
<1>1. UNCHANGED <<owner, starts, ipc, fresh, sysId>>
  BY Zenon DEF Create, InsertCustomer, FindByID, Fail, instVars
<1>2. CASE Create(c)
  <2>0. /\ cpc[c] = "new" /\ newId[c] = 0 /\ lastId \in Nat
        /\ UNCHANGED <<rows, late>>
        /\ \/ cpc' = [cpc EXCEPT ![c] = "invalid_owner"] /\ UNCHANGED <<newId, lastId>>
           \/ /\ cpc' = [cpc EXCEPT ![c] = "insert"] /\ lastId' = lastId + 1
              /\ newId' = [newId EXCEPT ![c] = lastId + 1]
    BY <1>0, <1>2, Zenon DEF Create, Drew, AccountsTyped
  <2>1. AccountsTyped'
    BY <1>0, <1>1, <2>0 DEF AccountsTyped, AccountRows, Answers
  <2>2. Drew'
    BY <1>0, <2>0 DEF AccountsTyped, Drew
  <2>3. \A d \in Creators : d # c => CustomerRow(d)' = CustomerRow(d) /\ cpc'[d] = cpc[d]
    BY <1>0, <1>1, <2>0, Zenon DEF AccountsTyped, CustomerRow
  <2>4. CustomerRow(c) \notin rows
    BY <1>0, <2>0 DEF AccountsTyped, AccountRows, CustomerRow, Row
  <2>5. Inserted'
    BY <1>0, <1>1, <2>0, <2>3, <2>4 DEF AccountsTyped, Inserted
  <2>6. UniqueRows' /\ Used'
    BY <1>0, <1>1, <2>0, Zenon DEF UniqueRows, Used
  <2> QED
    BY <2>1, <2>2, <2>5, <2>6, Zenon DEF AccountsInv
<1>3. CASE InsertCustomer(c)
  <2>0. /\ cpc[c] = "insert" /\ UNCHANGED <<late, lastId, newId>>
        /\ newId[c] \in 1 .. lastId
    BY <1>0, <1>3 DEF InsertCustomer, Drew, AccountsTyped
  <2>1. \A d \in Creators : CustomerRow(d)' = CustomerRow(d)
    BY <1>1, <2>0, Zenon DEF CustomerRow
  <2>2. CASE ~ Taken(CustomerRow(c)) /\ cpc' = [cpc EXCEPT ![c] = "find"]
             /\ rows' = rows \cup {CustomerRow(c)}
    <3>1. CustomerRow(c) \in AccountRows
      BY <1>0, <2>0, Zenon DEF AccountsTyped, AccountRows, CustomerRow, Row
    <3>2. UniqueRows'
      BY <1>0, <2>2, AddRow
    <3>3. AccountsTyped'
      BY <1>0, <1>1, <2>0, <2>2, <3>1, Zenon DEF AccountsTyped, AccountRows
    <3>4. Used' /\ Drew'
      BY <1>0, <1>1, <2>0, <2>2, Zenon DEF AccountsTyped, Used, Drew
    <3>5. Inserted'
      BY <1>0, <1>1, <2>0, <2>1, <2>2 DEF AccountsTyped, Inserted
    <3> QED
      BY <3>2, <3>3, <3>4, <3>5, Zenon DEF AccountsInv
  <2>3. CASE Taken(CustomerRow(c)) /\ cpc' = [cpc EXCEPT ![c] = "already_exists"]
             /\ rows' = rows
    <3>1. PICK x \in rows : x.owner = owner[c] /\ x.kind = "customer"
      BY <2>3, Zenon DEF Taken, CustomerRow, Row
    <3>2. PICK d \in Creators : x = CustomerRow(d) /\ cpc[d] \in {"find", "created", "error"}
      BY <1>0, <3>1, Zenon DEF Inserted
    <3>3. d # c /\ CustomerRow(d) \in rows /\ owner[d] = owner[c]
      BY <2>0, <3>1, <3>2, Zenon DEF CustomerRow, Row
    <3>4. AccountsTyped' /\ UniqueRows' /\ Used'
      BY <1>0, <1>1, <2>0, <2>3, Zenon DEF AccountsTyped, AccountRows, UniqueRows, Used, Answers
    <3>5. Drew'
      BY <1>0, <1>1, <2>0, <2>3, Zenon DEF AccountsTyped, Drew
    <3>6. Inserted'
      BY <1>0, <1>1, <2>0, <2>1, <2>3, <3>3 DEF AccountsTyped, Inserted
    <3> QED
      BY <3>4, <3>5, <3>6, Zenon DEF AccountsInv
  <2> QED
    BY <1>3, <2>2, <2>3, Zenon DEF InsertCustomer
<1>4. CASE FindByID(c)
  <2>0. /\ cpc[c] = "find" /\ UNCHANGED <<rows, late, lastId, newId>>
        /\ cpc' = [cpc EXCEPT ![c] = "created"] /\ CustomerRow(c) \in rows
    <3>1. cpc[c] = "find" /\ CustomerRow(c) \in rows
      BY <1>0, <1>4, Zenon DEF FindByID, Inserted
    <3>2. CustomerRow(c).id = newId[c]
      BY Zenon DEF CustomerRow, Row
    <3> QED
      BY <1>4, <3>1, <3>2, Zenon DEF FindByID
  <2>1. \A d \in Creators : CustomerRow(d)' = CustomerRow(d)
    BY <1>1, <2>0, Zenon DEF CustomerRow
  <2>2. AccountsTyped' /\ UniqueRows' /\ Used'
    BY <1>0, <1>1, <2>0, Zenon DEF AccountsTyped, AccountRows, UniqueRows, Used, Answers
  <2>3. Drew'
    BY <1>0, <1>1, <2>0, Zenon DEF AccountsTyped, Drew
  <2>4. Inserted'
    BY <1>0, <1>1, <2>0, <2>1 DEF AccountsTyped, Inserted
  <2> QED
    BY <2>2, <2>3, <2>4, Zenon DEF AccountsInv
<1>5. CASE Fail(c)
  <2>0. /\ cpc[c] \in {"insert", "find"} /\ UNCHANGED <<rows, lastId, newId>>
        /\ cpc' = [cpc EXCEPT ![c] = "error"]
        /\ late' \subseteq late \cup {CustomerRow(c)} /\ newId[c] \in 1 .. lastId
    BY <1>0, <1>5 DEF Fail, Drew, AccountsTyped
  <2>1. \A d \in Creators : CustomerRow(d)' = CustomerRow(d)
    BY <1>1, <2>0, Zenon DEF CustomerRow
  <2>2. CustomerRow(c) \in AccountRows
    BY <1>0, <2>0, Zenon DEF AccountsTyped, AccountRows, CustomerRow, Row
  <2>3. AccountsTyped' /\ UniqueRows' /\ Used'
    BY <1>0, <1>1, <2>0, <2>2, Zenon DEF AccountsTyped, AccountRows, UniqueRows, Used, Answers
  <2>4. Drew'
    BY <1>0, <1>1, <2>0, Zenon DEF AccountsTyped, Drew
  <2>5. Inserted'
    BY <1>0, <1>1, <2>0, <2>1 DEF AccountsTyped, Inserted
  <2> QED
    BY <2>3, <2>4, <2>5, Zenon DEF AccountsInv
<1> QED
  BY <1>2, <1>3, <1>4, <1>5, Zenon

\* An insert whose caller gave up.
LEMMA ArriveKeeps ==
  ASSUME AccountsInv, NEW x \in late, Arrive(x)
  PROVE  AccountsInv'
<1>0. AccountsTyped /\ UniqueRows /\ Used /\ Drew /\ Inserted
  BY Zenon DEF AccountsInv
<1>1. UNCHANGED <<lastId, owner, cpc, newId, ipc, fresh, sysId>> /\ late' \subseteq late
  BY Zenon DEF Arrive, instVars, createVars
<1>2. UniqueRows' /\ rows \subseteq rows' /\ rows' \subseteq rows \cup {x}
  BY <1>0, AddRow DEF Arrive
<1>3. AccountsTyped'
  BY <1>0, <1>1, <1>2, Zenon DEF AccountsTyped, AccountRows
<1>4. Used' /\ Drew'
  BY <1>0, <1>1, <1>2, Zenon DEF Used, Drew
<1>5. Inserted'
  BY <1>0, <1>1, <1>2, Zenon DEF Inserted, CustomerRow
<1> QED
  BY <1>2, <1>3, <1>4, <1>5, Zenon DEF AccountsInv

LEMMA AccountsInvariant == AccountsSpec => []AccountsInv
<1>1. AccountsInv /\ [AccountsNext]_accountVars => AccountsInv'
  <2> SUFFICES ASSUME AccountsInv, [AccountsNext]_accountVars PROVE AccountsInv'
    BY Zenon
  <2>1. CASE UNCHANGED accountVars
    BY <2>1, Zenon DEF accountVars, AccountsInv, AccountsTyped, AccountRows, UniqueRows, Used, Drew,
       Inserted, CustomerRow
  <2>2. CASE AccountsNext
    BY <2>1, <2>2, InstanceKeeps, CreatorKeeps, ArriveKeeps, Zenon DEF AccountsNext, AllDown
  <2> QED
    BY <2>1, <2>2, Zenon
<1> QED
  BY <1>1, AccountsInitially, PTL DEF AccountsSpec

(* For any number of instances, starts, falls and requests: there is one    *)
(* system account, and every instance that ever ran has used it             *)
(* (EnsureSystem and the unique constraint).                                *)
THEOREM OneSystemForAll == AccountsSpec => []OneSystemAccount
<1>1. AccountsInv => OneSystemAccount
  <2> SUFFICES ASSUME AccountsInv, NEW i \in Instances, NEW j \in Instances,
                      sysId[i] # 0, sysId[j] # 0
               PROVE  sysId[i] = sysId[j] /\ Row(sysId[i], SystemOwner, "system") \in rows
    BY Zenon DEF OneSystemAccount
  <2>1. /\ Row(sysId[i], SystemOwner, "system") \in rows
        /\ Row(sysId[j], SystemOwner, "system") \in rows
    BY Zenon DEF AccountsInv, Used
  <2> QED
    BY <2>1, Zenon DEF AccountsInv, UniqueRows, Row
<1> QED
  BY <1>1, AccountsInvariant, PTL

(* For any requests: what Create answers is true of the accounts table,     *)
(* whatever else is inserted, fails or arrives late.                        *)
THEOREM CreateTellsTruth == AccountsSpec => []CreateAnswers
<1>1. AccountsInv => CreateAnswers
  <2> SUFFICES ASSUME AccountsInv, NEW c \in Creators
               PROVE  /\ cpc[c] = "created" =>
                           /\ CustomerRow(c) \in rows
                           /\ \A d \in Creators \ {c} : cpc[d] = "created" => owner[d] # owner[c]
                      /\ cpc[c] = "already_exists" =>
                           /\ \E d \in Creators \ {c} : CustomerRow(d) \in rows /\ owner[d] = owner[c]
                           /\ CustomerRow(c) \notin rows
                      /\ cpc[c] # "not_found"
    BY Zenon DEF CreateAnswers
  <2>0. AccountsTyped /\ UniqueRows /\ Drew /\ Inserted
    BY Zenon DEF AccountsInv
  <2>1. ASSUME cpc[c] = "created", NEW d \in Creators \ {c}, cpc[d] = "created"
        PROVE  owner[d] # owner[c]
    <3>1. CustomerRow(c) \in rows /\ CustomerRow(d) \in rows /\ newId[c] # newId[d]
      BY <2>0, <2>1, Zenon DEF Drew, Inserted
    <3> QED
      BY <2>0, <3>1, Zenon DEF UniqueRows, CustomerRow, Row
  <2>2. ASSUME cpc[c] = "already_exists" PROVE CustomerRow(c) \notin rows
    <3> SUFFICES ASSUME CustomerRow(c) \in rows PROVE FALSE
      BY Zenon
    <3>1. PICK d \in Creators : /\ CustomerRow(c) = CustomerRow(d)
                                /\ cpc[d] \in {"find", "created", "error"}
      BY <2>0, Zenon DEF Inserted, CustomerRow, Row
    <3>2. newId[c] = newId[d] /\ newId[c] # 0
      BY <2>0, <2>2, <3>1, Zenon DEF Drew, CustomerRow, Row
    <3> QED
      BY <2>0, <2>2, <3>1, <3>2, Zenon DEF Drew
  <2> QED
    BY <2>0, <2>1, <2>2, Zenon DEF Inserted
<1> QED
  BY <1>1, AccountsInvariant, PTL

-----------------------------------------------------------------------------
\* processOne holds a row lock from its SELECT to the end of its transaction, has
\* delivered nothing before Publish, and runs only while PollOnce has rows left.
Claims ==
  \A i \in Relays :
    /\ pc[i] \in {"asleep", "select"} => claim[i] = 0
    /\ pc[i] \in {"publish", "mark", "commit", "committing"} => claim[i] # 0
    /\ pc[i] = "publish" => ~ ok[i]
    /\ pc[i] \in {"select", "publish", "mark", "commit"} => left[i] >= 1

\* A session that is to mark its row published has delivered it.
Acked == \A i \in Relays : ok[i] => claim[i] # 0 /\ sent[claim[i]] >= 1

\* A session has delivered e and may still commit that.
Delivering(e) == \E i \in Relays : claim[i] = e /\ ok[i]

\* One delivery beyond the lapses of e belongs to its published row or to a
\* session that may still publish it.
Excess(e) ==
  \/ sent[e] <= lapses[e]
  \/ sent[e] <= lapses[e] + 1 /\ (row[e] = "published" \/ Delivering(e))

Published == {e \in Events : row[e] = "published"}

IInv ==
  /\ TypeOK /\ Claims /\ OneSessionPerEvent /\ Acked
  /\ \A e \in Events : Excess(e)
  /\ NeverLost

-----------------------------------------------------------------------------
\* The oldest of some rows is one of them.
LEMMA MinOfNat ==
  ASSUME NEW S \in SUBSET Nat, S # {}
  PROVE  Min(S) \in S
<1> DEFINE less == {p \in Nat \X Nat : p[1] < p[2]}
<1>1. IsWellFoundedOn(less, Nat)
  BY NatLessThanWellFounded, Zenon DEF OpToRel
<1> HIDE DEF less
<1>2. PICK x \in S : \A y \in S : ~ (<<y, x>> \in less)
  BY <1>1, WFMin, Zenon
<1>3. ASSUME NEW y \in S PROVE x <= y
  <2>1. ~ (<<y, x>> \in less) /\ <<y, x>> \in Nat \X Nat
    BY <1>2, Zenon
  <2>2. ~ (y < x)
    BY <2>1, Zenon DEF less
  <2> QED  BY <2>2
<1> QED  BY <1>3, Zenon DEF Min

LEMMA PublishedFinite == IsFiniteSet(Published) /\ Cardinality(Published) \in Nat
<1>1. IsFiniteSet(Published)
  BY RelayAssumption, FS_Subset, Zenon DEF Published
<1> QED  BY <1>1, FS_CardinalityType, Zenon

\* The count of the published rows is not disturbed by a step that publishes none.
LEMMA CountKept ==
  ASSUME NeverLost, UNCHANGED <<row, counted>>, \A e \in Events : sent'[e] >= sent[e],
         TypeOK, TypeOK'
  PROVE  NeverLost'
<1>1. \A e \in Events : row'[e] = "published" => sent'[e] >= 1
  BY DEF NeverLost, TypeOK
<1>2. counted' <= Cardinality({e \in Events : row'[e] = "published"})
  BY Zenon DEF NeverLost
<1> QED  BY <1>1, <1>2, Zenon DEF NeverLost

\* A row's transaction commits: no session has locked a row that did not exist.
LEMMA AppendKeeps ==
  ASSUME IInv, NEW e \in Events, AppendEvent(e)
  PROVE  IInv'
<1> USE DEF AppendEvent, sessionVars
<1>1. TypeOK'
  BY Zenon DEF IInv, TypeOK
<1>2. Claims' /\ Acked'
  BY Zenon DEF IInv, Claims, Acked
<1>3. OneSessionPerEvent'
  BY Zenon DEF IInv, TypeOK, OneSessionPerEvent
<1>4. \A x \in Events : Excess(x)'
  BY Zenon DEF IInv, TypeOK, Excess, Delivering
<1>5. {x \in Events : row'[x] = "published"} = Published
  BY Zenon DEF IInv, TypeOK, Published
<1>6. NeverLost'
  BY <1>5, Zenon DEF IInv, TypeOK, NeverLost, Published
<1> QED  BY <1>1, <1>2, <1>3, <1>4, <1>6, Zenon DEF IInv

\* Steps that only move a clock or a program counter outside the transaction.
LEMMA WaitingKeeps ==
  ASSUME IInv,
         \/ \E e \in Events : BecomeDue(e)
         \/ \E i \in Relays : Tick(i) \/ NothingDue(i)
  PROVE  IInv'
<1>1. UNCHANGED <<row, attempts, sent, claim, ok, counted, failures, lapses>>
  BY Zenon DEF BecomeDue, Tick, NothingDue, sessionVars
<1>2. TypeOK'
  <2>1. ASSUME NEW e \in Events, BecomeDue(e) PROVE TypeOK'
    BY <1>1, <2>1, Zenon DEF BecomeDue, sessionVars, IInv, TypeOK
  <2>2. ASSUME NEW i \in Relays, Tick(i) PROVE TypeOK'
    BY <1>1, <2>2, RelayAssumption DEF Tick, IInv, TypeOK
  <2>3. ASSUME NEW i \in Relays, NothingDue(i) PROVE TypeOK'
    BY <1>1, <2>3, Zenon DEF NothingDue, IInv, TypeOK
  <2> QED  BY <2>1, <2>2, <2>3, Zenon
<1>3. Claims'
  BY RelayAssumption DEF BecomeDue, Tick, NothingDue, sessionVars, IInv, Claims, TypeOK
<1>4. OneSessionPerEvent' /\ Acked'
  BY <1>1, Zenon DEF IInv, OneSessionPerEvent, Acked
<1>5. \A j \in Relays : pc'[j] = pc[j] \/ pc[j] \in {"asleep", "select"}
  BY Zenon DEF BecomeDue, Tick, NothingDue, sessionVars, IInv, TypeOK
<1>6. \A e \in Events : Excess(e)'
  BY <1>1, <1>5, Zenon DEF IInv, Excess, Delivering
<1>7. NeverLost'
  BY <1>1, <1>2, CountKept DEF IInv, TypeOK
<1> QED  BY <1>2, <1>3, <1>4, <1>6, <1>7, Zenon DEF IInv

\* SKIP LOCKED: the row that a session takes is pending and locked by no other.
LEMMA SelectKeeps ==
  ASSUME IInv, NEW i \in Relays, Select(i)
  PROVE  IInv'
<1> DEFINE e == Min(Candidates)
<1>1. e \in Candidates
  BY RelayAssumption, MinOfNat, Zenon DEF Select, Candidates
<1> HIDE DEF e
<1>2. e \in Events /\ e # 0 /\ row[e] = "pending" /\ \A j \in Relays : claim[j] # e
  BY <1>1, RelayAssumption, Zenon DEF Candidates, Locked
<1>3. /\ claim' = [claim EXCEPT ![i] = e] /\ pc' = [pc EXCEPT ![i] = "publish"]
      /\ UNCHANGED <<row, due, attempts, sent, ok, left, counted, failures, lapses>>
  BY Zenon DEF Select, e
<1>4. pc[i] = "select" /\ claim[i] = 0 /\ ~ ok[i]
  BY Zenon DEF Select, IInv, Claims, Acked
<1>5. TypeOK'
  BY <1>2, <1>3, Zenon DEF IInv, TypeOK
<1>6. Claims'
  BY <1>2, <1>3, <1>4, Zenon DEF IInv, TypeOK, Claims
<1>7. OneSessionPerEvent'
  BY <1>2, <1>3, Zenon DEF IInv, TypeOK, OneSessionPerEvent
<1>8. Acked'
  BY <1>3, <1>4, Zenon DEF IInv, TypeOK, Acked
<1>9. \A x \in Events : Excess(x)'
  BY <1>3, <1>4, Zenon DEF IInv, TypeOK, Excess, Delivering
<1>10. NeverLost'
  BY <1>3, <1>5, CountKept DEF IInv, TypeOK
<1> QED  BY <1>5, <1>6, <1>7, <1>8, <1>9, <1>10, Zenon DEF IInv

\* Publish returns: the claimed row was delivered no more often than its lapses
\* account for, and its session has not delivered it yet.
LEMMA PublishKeeps ==
  ASSUME IInv, NEW i \in Relays, PublishOk(i) \/ PublishError(i)
  PROVE  IInv'
<1> DEFINE e == claim[i]
<1>1. pc[i] = "publish" /\ e \in Events /\ row[e] = "pending" /\ e # 0
  BY Zenon DEF PublishOk, PublishError, IInv, Claims, TypeOK, OneSessionPerEvent
<1>2. \A j \in Relays : j # i => claim[j] # e
  BY <1>1, Zenon DEF IInv, OneSessionPerEvent
<1>3. sent[e] <= lapses[e]
  BY <1>1, <1>2, Zenon DEF IInv, Excess, Delivering, Claims
<1>4. UNCHANGED <<row, due, attempts, claim, left, counted>> /\ pc' = [pc EXCEPT ![i] = "mark"]
  BY Zenon DEF PublishOk, PublishError
<1>5. PICK n \in {0, 1} :
        /\ sent' = [sent EXCEPT ![e] = @ + n]
        /\ \/ n = 1 /\ ok' = [ok EXCEPT ![i] = TRUE] /\ UNCHANGED <<failures, lapses>>
           \/ /\ ok' = [ok EXCEPT ![i] = FALSE]
              /\ failures' = failures + 1 /\ failures < MaxFailures
              /\ lapses' = [lapses EXCEPT ![e] = @ + 1]
  BY Zenon DEF PublishOk, PublishError
<1> HIDE DEF e
<1>6. TypeOK'
  <2>1. sent' \in [Events -> Nat]
    BY <1>1, <1>5 DEF IInv, TypeOK
  <2>2. ok' \in [Relays -> BOOLEAN]
    BY <1>5, Zenon DEF IInv, TypeOK
  <2>3. failures' \in 0 .. MaxFailures /\ lapses' \in [Events -> Nat]
    BY <1>1, <1>5, RelayAssumption DEF IInv, TypeOK
  <2>4. pc' \in [Relays -> {"asleep", "select", "publish", "mark", "commit",
                            "committing", "dead"}]
    BY <1>4, Zenon DEF IInv, TypeOK
  <2> QED  BY <1>4, <2>1, <2>2, <2>3, <2>4, Zenon DEF IInv, TypeOK
<1>7. Claims'
  BY <1>1, <1>4, <1>5, Zenon DEF IInv, TypeOK, Claims, e
<1>8. OneSessionPerEvent'
  BY <1>4, Zenon DEF IInv, OneSessionPerEvent
<1>9. \A x \in Events : sent'[x] \in Nat /\ sent[x] \in Nat /\ sent'[x] >= sent[x]
                        /\ (x # e => sent'[x] = sent[x])
  BY <1>1, <1>5 DEF IInv, TypeOK
<1>10. sent'[e] = sent[e] + n /\ sent[e] \in Nat /\ lapses[e] \in Nat
  BY <1>1, <1>5 DEF IInv, TypeOK
<1>11. Acked'
  <2> SUFFICES ASSUME NEW j \in Relays, ok'[j] PROVE claim'[j] # 0 /\ sent'[claim'[j]] >= 1
    BY Zenon DEF Acked
  <2>1. CASE j = i
    <3>1. n = 1
      BY <1>5, <2>1, Zenon DEF IInv, TypeOK
    <3> QED  BY <1>1, <1>4, <1>10, <2>1, <3>1 DEF e
  <2>2. CASE j # i
    <3>1. ok[j]
      BY <1>5, <2>2, Zenon DEF IInv, TypeOK
    <3>2. claim[j] \in Events /\ claim[j] # 0 /\ sent[claim[j]] >= 1
      BY <3>1, Zenon DEF IInv, TypeOK, Acked
    <3> QED  BY <1>4, <1>9, <3>2
  <2> QED  BY <2>1, <2>2, Zenon
<1>12. ASSUME NEW x \in Events PROVE Excess(x)'
  <2>1. CASE x # e
    <3>1. Delivering(x) => Delivering(x)'
      BY <1>4, <1>5, <2>1, Zenon DEF IInv, TypeOK, Delivering, e
    <3>2. Excess(x) /\ sent'[x] = sent[x] /\ row'[x] = row[x]
      BY <1>4, <1>9, <2>1, Zenon DEF IInv
    <3>3. lapses'[x] = lapses[x]
      BY <1>5, <2>1, Zenon DEF IInv, TypeOK
    <3> QED  BY <3>1, <3>2, <3>3, Zenon DEF Excess
  <2>2. CASE x = e /\ lapses' = [lapses EXCEPT ![e] = @ + 1]
    <3>1. lapses'[e] = lapses[e] + 1
      BY <1>1, <2>2, Zenon DEF IInv, TypeOK
    <3>2. sent'[x] <= lapses'[x]
      BY <1>3, <1>10, <2>2, <3>1
    <3> QED  BY <3>2, Zenon DEF Excess
  <2>3. CASE x = e /\ ok' = [ok EXCEPT ![i] = TRUE] /\ lapses' = lapses
    <3>1. Delivering(x)'
      BY <1>4, <2>3, Zenon DEF IInv, TypeOK, Delivering, e
    <3>2. sent'[x] <= lapses'[x] + 1
      BY <1>3, <1>10, <2>3
    <3> QED  BY <3>1, <3>2, Zenon DEF Excess
  <2> QED  BY <1>5, <2>1, <2>2, <2>3, Zenon
<1>13. NeverLost'
  BY <1>4, <1>6, <1>9, CountKept, Zenon DEF IInv
<1> QED  BY <1>6, <1>7, <1>8, <1>11, <1>12, <1>13, Zenon DEF IInv

LEMMA MarkKeeps ==
  ASSUME IInv, NEW i \in Relays, Mark(i)
  PROVE  IInv'
<1>1. /\ UNCHANGED <<row, due, attempts, sent, claim, ok, left, counted, failures, lapses>>
      /\ pc[i] = "mark" /\ pc' = [pc EXCEPT ![i] = "commit"]
  BY Zenon DEF Mark
<1>2. TypeOK' /\ Claims'
  BY <1>1, Zenon DEF IInv, TypeOK, Claims
<1>3. OneSessionPerEvent' /\ Acked'
  BY <1>1, Zenon DEF IInv, OneSessionPerEvent, Acked
<1>4. \A e \in Events : Excess(e)'
  BY <1>1 DEF IInv, TypeOK, Excess, Delivering
<1>5. NeverLost'
  BY <1>1, <1>2, CountKept DEF IInv, TypeOK
<1> QED  BY <1>2, <1>3, <1>4, <1>5, Zenon DEF IInv

\* A process dies: what its session delivered and has locked stays as it is.
LEMMA DieKeeps ==
  ASSUME IInv, NEW i \in Relays, Die(i)
  PROVE  IInv'
<1>1. /\ UNCHANGED <<row, due, attempts, sent, claim, ok, left, counted, lapses>>
      /\ failures' = failures + 1 /\ failures < MaxFailures
      /\ pc' = [pc EXCEPT ![i] = IF pc[i] = "commit" THEN "committing" ELSE "dead"]
  BY Zenon DEF Die
<1>2. TypeOK'
  BY <1>1, RelayAssumption DEF IInv, TypeOK
<1>3. Claims'
  BY <1>1, Zenon DEF IInv, TypeOK, Claims
<1>4. OneSessionPerEvent' /\ Acked'
  BY <1>1, Zenon DEF IInv, OneSessionPerEvent, Acked
<1>5. \A e \in Events : Excess(e)'
  BY <1>1, Zenon DEF IInv, Excess, Delivering
<1>6. NeverLost'
  BY <1>1, <1>2, CountKept DEF IInv, TypeOK
<1> QED  BY <1>2, <1>3, <1>4, <1>5, <1>6, Zenon DEF IInv

\* The rollback of a session that delivered its row is a lapse of that row.
LEMMA EndSessionKeeps ==
  ASSUME IInv, NEW i \in Relays, EndSession(i)
  PROVE  IInv'
<1>1. /\ UNCHANGED <<row, due, attempts, sent, left, counted, failures>>
      /\ claim' = [claim EXCEPT ![i] = 0] /\ ok' = [ok EXCEPT ![i] = FALSE]
      /\ pc' = [pc EXCEPT ![i] = "asleep"] /\ pc[i] \in {"dead", "committing"}
      /\ lapses' = IF ok[i] THEN [lapses EXCEPT ![claim[i]] = @ + 1] ELSE lapses
  BY Zenon DEF EndSession
<1>2. ok[i] => claim[i] \in Events
  BY Zenon DEF IInv, TypeOK, Acked
<1>3. lapses' \in [Events -> Nat]
  BY <1>2, <1>1 DEF IInv, TypeOK
<1>4. TypeOK'
  BY <1>1, <1>3, Zenon DEF IInv, TypeOK
<1>5. Claims'
  BY <1>1, Zenon DEF IInv, TypeOK, Claims
<1>6. OneSessionPerEvent'
  BY <1>1, Zenon DEF IInv, TypeOK, OneSessionPerEvent
<1>7. Acked'
  BY <1>1, Zenon DEF IInv, TypeOK, Acked
<1>8. ASSUME NEW e \in Events PROVE Excess(e)'
  <2>1. CASE ok[i] /\ claim[i] = e
    <3>1. lapses'[e] = lapses[e] + 1
      BY <1>1, <2>1, Zenon DEF IInv, TypeOK
    <3>2. sent[e] <= lapses[e] + 1
      BY DEF IInv, Excess, TypeOK
    <3> QED  BY <1>1, <3>1, <3>2, Zenon DEF Excess
  <2>2. CASE ~ (ok[i] /\ claim[i] = e)
    <3>1. lapses'[e] = lapses[e]
      BY <1>2, <1>1, <2>2, Zenon DEF IInv, TypeOK
    <3>2. Delivering(e) => Delivering(e)'
      BY <1>1, <2>2, Zenon DEF IInv, TypeOK, Delivering
    <3> QED  BY <1>1, <3>1, <3>2, Zenon DEF IInv, Excess
  <2> QED  BY <2>1, <2>2, Zenon
<1>9. NeverLost'
  BY <1>1, <1>4, CountKept DEF IInv, TypeOK
<1> QED  BY <1>4, <1>5, <1>6, <1>7, <1>8, <1>9, Zenon DEF IInv

\* COMMIT: the row was pending, so publishing it adds one to the published ones.
LEMMA CommitKeeps ==
  ASSUME IInv, NEW i \in Relays, Commit(i) \/ LateCommit(i)
  PROVE  IInv'
<1> DEFINE e == claim[i]
<1>1. pc[i] \in {"commit", "committing"} /\ e \in Events /\ e # 0 /\ row[e] = "pending"
  BY Zenon DEF Commit, LateCommit, IInv, Claims, TypeOK, OneSessionPerEvent
<1>2. Outcome(i) /\ UNCHANGED <<sent, failures, lapses>> /\ ok' = [ok EXCEPT ![i] = FALSE]
  BY Zenon DEF Commit, LateCommit
<1>3. /\ attempts' = [attempts EXCEPT ![e] = @ + 1] /\ claim' = [claim EXCEPT ![i] = 0]
      /\ row' = IF ok[i] THEN [row EXCEPT ![e] = "published"] ELSE row
  BY <1>2, Zenon DEF Outcome
<1>4. PICK to \in {"select", "asleep", "dead"}, n \in {0, 1} :
        /\ pc' = [pc EXCEPT ![i] = to] /\ left' = [left EXCEPT ![i] = @ - n]
        /\ n = 1 => pc[i] = "commit"
        /\ to = "select" => left[i] > 1
  BY DEF Commit, LateCommit, IInv, TypeOK
<1>5. counted' = counted \/ (ok[i] /\ counted' = counted + 1)
  BY Zenon DEF Commit, LateCommit
<1>6. left' \in [Relays -> 0 .. BatchSize]
  BY <1>1, <1>4, RelayAssumption DEF IInv, TypeOK, Claims
<1>7. due' \in [Events -> BOOLEAN]
  <2>1. CASE ok[i]
    BY <1>2, <2>1, Zenon DEF Outcome, IInv, TypeOK
  <2>2. CASE ~ ok[i]
    <3>1. PICK wait : due' = [due EXCEPT ![e] = wait = 0]
      BY <1>2, <2>2, Zenon DEF Outcome
    <3> QED  BY <3>1, Zenon DEF IInv, TypeOK
  <2> QED  BY <2>1, <2>2, Zenon
<1> HIDE DEF e
<1>8. TypeOK'
  <2>1. row' \in [Events -> {"absent", "pending", "published"}] /\ attempts' \in [Events -> Nat]
    BY <1>1, <1>3 DEF IInv, TypeOK
  <2>2. /\ claim' \in [Relays -> Events \cup {0}] /\ ok' \in [Relays -> BOOLEAN]
        /\ pc' \in [Relays -> {"asleep", "select", "publish", "mark", "commit",
                               "committing", "dead"}]
    BY <1>2, <1>3, <1>4, Zenon DEF IInv, TypeOK
  <2>3. counted' \in Nat
    BY <1>5 DEF IInv, TypeOK
  <2> QED  BY <1>2, <1>6, <1>7, <2>1, <2>2, <2>3, Zenon DEF IInv, TypeOK
<1>9. Claims'
  BY <1>2, <1>3, <1>4, RelayAssumption DEF IInv, TypeOK, Claims
<1>10. \A j \in Relays : j # i => claim[j] # e
  BY <1>1, Zenon DEF IInv, OneSessionPerEvent, e
<1>11. OneSessionPerEvent'
  BY <1>3, <1>10, Zenon DEF IInv, TypeOK, OneSessionPerEvent
<1>12. Acked'
  BY <1>2, <1>3, Zenon DEF IInv, TypeOK, Acked
<1>13. ASSUME NEW x \in Events PROVE Excess(x)'
  <2>1. CASE x # e
    <3>1. row'[x] = row[x] /\ (Delivering(x) => Delivering(x)')
      BY <1>2, <1>3, <1>4, <2>1, Zenon DEF IInv, TypeOK, Delivering, e
    <3> QED  BY <1>2, <3>1, Zenon DEF IInv, Excess
  <2>2. CASE x = e /\ ok[i]
    <3>1. row'[x] = "published"
      BY <1>1, <1>3, <2>2, Zenon DEF IInv, TypeOK
    <3>2. sent[x] <= lapses[x] + 1
      BY DEF IInv, Excess, TypeOK
    <3> QED  BY <1>2, <3>1, <3>2, Zenon DEF Excess
  <2>3. CASE x = e /\ ~ ok[i]
    <3>1. ~ Delivering(x) /\ row[x] # "published"
      BY <1>1, <1>10, <2>3, Zenon DEF Delivering
    <3>2. sent[x] <= lapses[x]
      BY <3>1, Zenon DEF IInv, Excess
    <3> QED  BY <1>2, <3>2, Zenon DEF Excess
  <2> QED  BY <2>1, <2>2, <2>3, Zenon
<1>14. \A x \in Events : row'[x] = "published" => sent'[x] >= 1
  BY <1>1, <1>2, <1>3, Zenon DEF IInv, TypeOK, NeverLost, Acked, e
<1>15. counted' <= Cardinality(Published')
  <2>1. CASE ok[i]
    <3>1. Published' = Published \cup {e} /\ e \notin Published
      BY <1>1, <1>3, <2>1, Zenon DEF IInv, TypeOK, Published
    <3>2. Cardinality(Published') = Cardinality(Published) + 1
      BY <3>1, PublishedFinite, FS_AddElement, Zenon
    <3>3. counted <= Cardinality(Published) /\ counted \in Nat
      BY Zenon DEF IInv, TypeOK, NeverLost, Published
    <3> QED  BY <1>5, <3>2, <3>3, PublishedFinite
  <2>2. CASE ~ ok[i]
    BY <1>3, <1>5, <2>2, Zenon DEF IInv, NeverLost, Published
  <2> QED  BY <2>1, <2>2, Zenon
<1>16. NeverLost'
  BY <1>14, <1>15, Zenon DEF NeverLost, Published
<1> QED  BY <1>8, <1>9, <1>11, <1>12, <1>13, <1>16, Zenon DEF IInv

LEMMA InitIInv == Init => IInv
<1> SUFFICES ASSUME Init PROVE IInv
  BY Zenon
<1>1. TypeOK
  BY RelayAssumption DEF Init, TypeOK
<1>2. Claims /\ OneSessionPerEvent /\ Acked
  BY Zenon DEF Init, Claims, OneSessionPerEvent, Acked
<1>3. \A e \in Events : Excess(e)
  BY DEF Init, Excess
<1>4. Published = {}
  BY Zenon DEF Init, Published
<1>5. NeverLost
  BY <1>4, PublishedFinite, FS_EmptySet DEF Init, NeverLost, Published
<1> QED  BY <1>1, <1>2, <1>3, <1>5, Zenon DEF IInv

LEMMA StepIInv == IInv /\ [Next]_vars => IInv'
<1> SUFFICES ASSUME IInv, [Next]_vars PROVE IInv'
  BY Zenon
<1>1. ASSUME NEW e \in Events, AppendEvent(e) PROVE IInv'
  BY <1>1, AppendKeeps, Zenon
<1>2. ASSUME NEW e \in Events, BecomeDue(e) PROVE IInv'
  BY <1>2, WaitingKeeps, Zenon
<1>3. ASSUME NEW i \in Relays, Tick(i) \/ NothingDue(i) PROVE IInv'
  BY <1>3, WaitingKeeps, Zenon
<1>4. ASSUME NEW i \in Relays, Select(i) PROVE IInv'
  BY <1>4, SelectKeeps, Zenon
<1>5. ASSUME NEW i \in Relays, PublishOk(i) \/ PublishError(i) PROVE IInv'
  BY <1>5, PublishKeeps, Zenon
<1>6. ASSUME NEW i \in Relays, Mark(i) PROVE IInv'
  BY <1>6, MarkKeeps, Zenon
<1>7. ASSUME NEW i \in Relays, Commit(i) \/ LateCommit(i) PROVE IInv'
  BY <1>7, CommitKeeps, Zenon
<1>8. ASSUME NEW i \in Relays, Die(i) PROVE IInv'
  BY <1>8, DieKeeps, Zenon
<1>9. ASSUME NEW i \in Relays, EndSession(i) PROVE IInv'
  BY <1>9, EndSessionKeeps, Zenon
<1>10. CASE UNCHANGED vars
  BY <1>10 DEF vars, IInv, TypeOK, Claims, OneSessionPerEvent, Acked, Excess, Delivering, NeverLost
<1> QED  BY <1>1, <1>2, <1>3, <1>4, <1>5, <1>6, <1>7, <1>8, <1>9, <1>10, Zenon DEF Next, Step

-----------------------------------------------------------------------------
\* The columns and the relays keep their types, and a poll takes no more rows
\* than its batch.
THEOREM TypeCorrect == Spec => []TypeOK
<1>1. IInv => TypeOK
  BY Zenon DEF IInv
<1> QED  BY InitIInv, StepIInv, <1>1, PTL DEF Spec

\* processOne marks only what reached the destination, and recordOutcome counts
\* only what is marked, wherever a process dies.
THEOREM NothingIsLost == Spec => []NeverLost
<1>1. IInv => NeverLost
  BY Zenon DEF IInv
<1> QED  BY InitIInv, StepIInv, <1>1, PTL DEF Spec

\* FOR UPDATE SKIP LOCKED gives an event to one session at a time.
THEOREM EventsAreExclusive == Spec => []OneSessionPerEvent
<1>1. IInv => OneSessionPerEvent
  BY Zenon DEF IInv
<1> QED  BY InitIInv, StepIInv, <1>1, PTL DEF Spec

\* At-least-once delivery: every delivery of an event beyond its first has a failed
\* Publish of that event, or the rollback of a session that delivered it, behind
\* it (processOne).
THEOREM DuplicatesAreCaused == Spec => []DuplicatesHaveCause
<1>1. IInv => DuplicatesHaveCause
  BY DEF IInv, TypeOK, Excess, DuplicatesHaveCause
<1> QED  BY InitIInv, StepIInv, <1>1, PTL DEF Spec

\* A row whose published_at is set is never claimed, delivered or changed again.
THEOREM PublishedStays == Spec => PublishedIsFinal
<1> DEFINE Final == \A e \in Events : row[e] = "published" =>
                      row'[e] = "published" /\ sent'[e] = sent[e] /\ attempts'[e] = attempts[e]
<1>1. ASSUME IInv, [Next]_vars PROVE [Final]_vars
  <2> SUFFICES ASSUME Next, NEW e \in Events, row[e] = "published"
               PROVE  row'[e] = "published" /\ sent'[e] = sent[e] /\ attempts'[e] = attempts[e]
    BY <1>1, Zenon
  <2>1. \A i \in Relays : claim[i] # e
    BY <1>1, RelayAssumption DEF IInv, TypeOK, OneSessionPerEvent
  <2>2. ASSUME NEW x \in Events, AppendEvent(x) \/ BecomeDue(x)
        PROVE  row'[e] = "published" /\ sent'[e] = sent[e] /\ attempts'[e] = attempts[e]
    BY <1>1, <2>2, Zenon DEF AppendEvent, BecomeDue, IInv, TypeOK
  <2>3. ASSUME NEW i \in Relays, PublishOk(i) \/ PublishError(i)
        PROVE  row'[e] = "published" /\ sent'[e] = sent[e] /\ attempts'[e] = attempts[e]
    BY <1>1, <2>1, <2>3, Zenon DEF PublishOk, PublishError, IInv, TypeOK
  <2>4. ASSUME NEW i \in Relays, Commit(i) \/ LateCommit(i)
        PROVE  row'[e] = "published" /\ sent'[e] = sent[e] /\ attempts'[e] = attempts[e]
    <3>1. Outcome(i) /\ sent' = sent
      BY <2>4, Zenon DEF Commit, LateCommit
    <3>2. /\ attempts' = [attempts EXCEPT ![claim[i]] = @ + 1]
          /\ row' = row \/ row' = [row EXCEPT ![claim[i]] = "published"]
      BY <3>1, Zenon DEF Outcome
    <3> QED  BY <1>1, <2>1, <3>1, <3>2, Zenon DEF IInv, TypeOK
  <2>5. ASSUME NEW i \in Relays,
               Tick(i) \/ NothingDue(i) \/ Select(i) \/ Mark(i) \/ Die(i) \/ EndSession(i)
        PROVE  row'[e] = "published" /\ sent'[e] = sent[e] /\ attempts'[e] = attempts[e]
    BY <2>5, Zenon DEF Tick, NothingDue, Select, Mark, Die, EndSession
  <2> QED  BY <2>2, <2>3, <2>4, <2>5, Zenon DEF Next, Step
<1> QED  BY InitIInv, StepIInv, <1>1, PTL DEF Spec, PublishedIsFinal

-----------------------------------------------------------------------------
\* Induction over the naturals, for membership in a set.
LEMMA NatInductionOnSet ==
  ASSUME NEW S, 0 \in S, \A n \in Nat : n \in S => n + 1 \in S
  PROVE  Nat \subseteq S
<1> DEFINE R == OpToRel(<, Nat)
           Bad == Nat \ S
<1>1. IsWellFoundedOn(R, Nat)
  BY NatLessThanWellFounded, Zenon
<1>2. \A x, y \in Nat : x < y => <<x, y>> \in R
  BY Zenon DEF OpToRel
<1> HIDE DEF R
<1> SUFFICES ASSUME Bad # {} PROVE FALSE
  BY Zenon
<1>3. PICK x \in Bad : \A y \in Bad : ~ (<<y, x>> \in R)
  <2>1. Bad \subseteq Nat
    BY Zenon
  <2> HIDE DEF Bad
  <2> QED
    BY <1>1, <2>1, WFMin, Zenon
<1>4. x # 0 /\ x - 1 \in Nat /\ x - 1 < x
  OBVIOUS
<1>5. x - 1 \in S
  BY <1>2, <1>3, <1>4, Zenon
<1> QED
  BY <1>4, <1>5

\* s starts with x and applies g at each of its n further places.
Iterates(s, g, x, n) ==
  /\ s \in [0 .. n -> Nat] /\ s[0] = x
  /\ \A k \in 0 .. n - 1 : s[k + 1] = g[s[k]]

\* A step from naturals to naturals can be iterated for ever.
LEMMA IterationExists ==
  ASSUME NEW g \in [Nat -> Nat], NEW x \in Nat
  PROVE  \E f \in [Nat -> Nat] : f[0] = x /\ \A n \in Nat : f[n + 1] = g[f[n]]
<1> DEFINE S == {n \in Nat : \E s : Iterates(s, g, x, n)}
<1>1. 0 \in S
  <2>1. Iterates([k \in 0 .. 0 |-> x], g, x, 0)
    BY DEF Iterates
  <2> QED
    BY <2>1, Zenon
<1>2. ASSUME NEW n \in Nat, n \in S PROVE n + 1 \in S
  <2>1. PICK s : Iterates(s, g, x, n)
    BY <1>2, Zenon
  <2> DEFINE t == [k \in 0 .. n + 1 |-> IF k = n + 1 THEN g[s[n]] ELSE s[k]]
  <2>a. /\ s \in [0 .. n -> Nat] /\ s[0] = x
        /\ \A k \in 0 .. n - 1 : s[k + 1] = g[s[k]]
    BY <2>1, Zenon DEF Iterates
  <2>2. t \in [0 .. n + 1 -> Nat] /\ t[0] = x
    <3>1. s[n] \in Nat /\ g[s[n]] \in Nat
      BY <2>a
    <3>2. ASSUME NEW k \in 0 .. n + 1, k # n + 1 PROVE s[k] \in Nat
      <4>1. k \in 0 .. n
        BY <3>2
      <4> QED
        BY <2>a, <4>1, Zenon
    <3>3. t \in [0 .. n + 1 -> Nat]
      BY <3>1, <3>2, Zenon
    <3>4. 0 \in 0 .. n + 1 /\ 0 # n + 1
      OBVIOUS
    <3>5. t[0] = s[0]
      BY <3>4, Zenon
    <3> QED
      BY <2>a, <3>3, <3>5, Zenon
  <2>3. ASSUME NEW k \in 0 .. (n + 1) - 1 PROVE t[k + 1] = g[t[k]]
    <3>1. CASE k = n
      BY <2>a, <3>1
    <3>2. CASE k # n
      <4>1. k \in 0 .. n - 1 /\ k \in 0 .. n + 1 /\ k + 1 \in 0 .. n + 1 /\ k # n + 1 /\ k + 1 # n + 1
        BY <3>2
      <4>2. t[k] = s[k] /\ t[k + 1] = s[k + 1]
        BY <4>1, Zenon
      <4> QED
        BY <2>a, <4>1, <4>2, Zenon
    <3> QED
      BY <3>1, <3>2, Zenon
  <2>4. Iterates(t, g, x, n + 1)
    BY <2>2, <2>3, Zenon DEF Iterates
  <2> QED
    BY <2>4
<1>3. Nat \subseteq S
  <2> HIDE DEF S
  <2> QED
    BY <1>1, <1>2, NatInductionOnSet, Zenon
<1> DEFINE prefix(n) == CHOOSE s : Iterates(s, g, x, n)
           f == [n \in Nat |-> prefix(n)[n]]
<1>4. ASSUME NEW n \in Nat PROVE Iterates(prefix(n), g, x, n)
  BY <1>3, Zenon
<1> HIDE DEF prefix
<1>5. ASSUME NEW n \in Nat PROVE prefix(n + 1)[n] = prefix(n)[n]
  <2> DEFINE T == {k \in Nat : k <= n => prefix(n + 1)[k] = prefix(n)[k]}
  <2>1. Iterates(prefix(n), g, x, n) /\ Iterates(prefix(n + 1), g, x, n + 1)
    BY <1>4
  <2>2. 0 \in T
    BY <2>1, Zenon DEF Iterates
  <2>3. ASSUME NEW k \in Nat, k \in T PROVE k + 1 \in T
    <3> SUFFICES ASSUME k + 1 <= n PROVE prefix(n + 1)[k + 1] = prefix(n)[k + 1]
      OBVIOUS
    <3>1. k \in 0 .. n - 1 /\ k \in 0 .. (n + 1) - 1 /\ prefix(n + 1)[k] = prefix(n)[k]
      BY <2>3
    <3> QED
      BY <2>1, <3>1, Zenon DEF Iterates
  <2>4. Nat \subseteq T
    <3> HIDE DEF T
    <3> QED
      BY <2>2, <2>3, NatInductionOnSet, Zenon
  <2> QED
    BY <2>4
<1>6. f \in [Nat -> Nat] /\ f[0] = x
  BY <1>4 DEF Iterates
<1>7. ASSUME NEW n \in Nat PROVE f[n + 1] = g[f[n]]
  <2>1. prefix(n + 1)[n + 1] = g[prefix(n + 1)[n]]
    <3>1. Iterates(prefix(n + 1), g, x, n + 1) /\ n \in 0 .. (n + 1) - 1
      BY <1>4
    <3> QED
      BY <3>1, Zenon DEF Iterates
  <2>2. f[n] = prefix(n)[n] /\ f[n + 1] = prefix(n + 1)[n + 1]
    OBVIOUS
  <2> QED
    BY <1>5, <2>1, <2>2, Zenon
<1> HIDE DEF f
<1> QED
  BY <1>6, <1>7, Zenon

\* The recursive definition of Two satisfies its equations.
LEMMA TwoDef ==
  /\ Two \in [Nat -> Nat] /\ Two[0] = 1
  /\ \A n \in Nat : Two[n + 1] = 2 * Two[n]
<1> DEFINE g == [y \in Nat |-> 2 * y]
           Eq(f) == f = [n \in Nat |-> IF n = 0 THEN 1 ELSE 2 * f[n - 1]]
<1>1. PICK f \in [Nat -> Nat] : f[0] = 1 /\ \A n \in Nat : f[n + 1] = g[f[n]]
  <2>1. g \in [Nat -> Nat] /\ 1 \in Nat
    OBVIOUS
  <2> HIDE DEF g
  <2> QED
    BY <2>1, IterationExists, Zenon
<1>2. ASSUME NEW n \in Nat PROVE f[n] = IF n = 0 THEN 1 ELSE 2 * f[n - 1]
  <2>1. CASE n # 0
    <3>1. n - 1 \in Nat /\ (n - 1) + 1 = n
      BY <2>1
    <3> QED
      BY <1>1, <2>1, <3>1, Zenon
  <2> QED
    BY <1>1, <2>1, Zenon
<1>3. Eq(f)
  BY <1>2, Zenon
<1>4. Eq(Two)
  BY <1>3, Zenon DEF Two
<1>5. ASSUME NEW n \in Nat PROVE Two[n] = IF n = 0 THEN 1 ELSE 2 * Two[n - 1]
  BY <1>4, Zenon
<1> HIDE DEF Eq
<1>6. \A n \in Nat : Two[n + 1] = 2 * Two[n]
  BY <1>5
<1>7. Two[0] = 1
  BY <1>5, Zenon
<1>8. Two \in [Nat -> Nat]
  <2> DEFINE S == {n \in Nat : Two[n] \in Nat}
  <2>1. 0 \in S /\ \A n \in Nat : n \in S => n + 1 \in S
    BY <1>6, <1>7
  <2>2. Nat \subseteq S
    <3> HIDE DEF S
    <3> QED
      BY <2>1, NatInductionOnSet, Zenon
  <2>3. Two = [n \in Nat |-> IF n = 0 THEN 1 ELSE 2 * Two[n - 1]]
    BY <1>4, Zenon DEF Eq
  <2> QED
    BY <2>2, <2>3, Zenon
<1> QED
  BY <1>6, <1>7, <1>8, Zenon

\* Powers of two: positive, and 2^(m + k) is 2^m * 2^k.
LEMMA TwoSplit ==
  ASSUME NEW m \in Nat
  PROVE  \A k \in Nat : Two[k] \in Nat \ {0} /\ Two[m + k] = Two[m] * Two[k]
<1>1. ASSUME NEW n \in Nat PROVE Two[n] \in Nat /\ Two[n + 1] = 2 * Two[n]
  BY TwoDef, Zenon
<1>2. Two[0] = 1
  BY TwoDef, Zenon
<1> DEFINE S == {k \in Nat : Two[k] \in Nat \ {0} /\ Two[m + k] = Two[m] * Two[k]}
<1>3. 0 \in S
  BY <1>1, <1>2
<1>4. ASSUME NEW k \in Nat, k \in S PROVE k + 1 \in S
  <2>1. m + k \in Nat /\ m + (k + 1) = (m + k) + 1
    OBVIOUS
  <2>2. Two[m + (k + 1)] = 2 * (Two[m] * Two[k]) /\ Two[k + 1] = 2 * Two[k]
    BY <1>1, <1>4, <2>1, Zenon
  <2>3. \A a, b \in Nat : 2 * (a * b) = a * (2 * b)
    OBVIOUS
  <2>4. Two[m] \in Nat /\ Two[k] \in Nat \ {0}
    BY <1>1, <1>4, Zenon
  <2> QED
    BY <2>2, <2>3, <2>4
<1>5. Nat \subseteq S
  <2> HIDE DEF S
  <2> QED
    BY <1>3, <1>4, NatInductionOnSet, Zenon
<1> QED
  BY <1>5, Zenon

\* The word of a duration, and its sign bit.
LEMMA WordFacts ==
  /\ Two[Bits] \in Nat \ {0} /\ Two[Bits - 1] \in Nat \ {0}
  /\ Two[Bits] = 2 * Two[Bits - 1]
  /\ BaseBackoff \in Nat \ {0} /\ MaxBackoff \in Nat \ {0}
  /\ BaseBackoff <= MaxBackoff /\ MaxBackoff < Two[Bits - 1]
<1>1. Bits \in Nat \ {0} /\ 0 \in Nat
  BY BackoffAssumption, Zenon
<1>2. Bits - 1 \in Nat /\ (Bits - 1) + 1 = Bits
  BY <1>1
<1>3. Two[Bits - 1] \in Nat \ {0} /\ Two[Bits] \in Nat \ {0}
  BY <1>1, <1>2, TwoSplit, Zenon
<1>4. Two[Bits] = 2 * Two[Bits - 1]
  BY <1>2, TwoDef, Zenon
<1>5. BaseBackoff \in 1 .. MaxBackoff /\ MaxBackoff \in 1 .. Two[Bits - 1] - 1
  BY BackoffAssumption, Zenon
<1> QED
  BY <1>3, <1>4, <1>5

\* What is left of y in a word of w values is y less some words.
LEMMA RestOfWord ==
  ASSUME NEW y \in Nat, NEW w \in Nat \ {0}
  PROVE  y % w \in 0 .. w - 1 /\ \E d \in Nat : y % w = y - w * d
<1>1. y \div w \in Nat /\ y % w \in 0 .. w - 1 /\ y % w = y - w * (y \div w)
  OBVIOUS
<1> QED
  BY <1>1, Zenon

\* Up to the shift j the base is doubled without overflow.
LEMMA ShiftedWithoutOverflow ==
  ASSUME NEW j \in Nat, BaseBackoff * Two[j] < Two[Bits - 1], NEW n \in 0 .. j
  PROVE  /\ BaseBackoff * Two[n] \in Nat \ {0} /\ BaseBackoff * Two[n] < Two[Bits - 1]
         /\ Shifted(n) = BaseBackoff * Two[n]
<1>0. /\ Two[Bits] \in Nat \ {0} /\ Two[Bits - 1] \in Nat \ {0}
      /\ Two[Bits] = 2 * Two[Bits - 1] /\ BaseBackoff \in Nat \ {0}
  BY WordFacts, Zenon
<1>1. n \in Nat /\ j - n \in Nat /\ n + (j - n) = j /\ 0 \in Nat
  OBVIOUS
<1>2. Two[n] \in Nat \ {0} /\ Two[j - n] \in Nat \ {0} /\ Two[j] = Two[n] * Two[j - n]
  <2>1. Two[n] \in Nat \ {0} /\ Two[j - n] \in Nat \ {0}
    BY <1>1, TwoSplit, Zenon
  <2>2. Two[j] = Two[n] * Two[j - n]
    <3>1. Two[n + (j - n)] = Two[n] * Two[j - n]
      BY <1>1, TwoSplit, Zenon
    <3> QED
      BY <1>1, <3>1, Zenon
  <2> QED
    BY <2>1, <2>2, Zenon
<1>3. \A a, b, c \in Nat \ {0} : a * b \in Nat \ {0} /\ a * b <= a * (b * c)
  OBVIOUS
<1>4. PICK x \in Nat \ {0} : x = BaseBackoff * Two[n]
  BY <1>0, <1>2, <1>3, Zenon
<1>5. x < Two[Bits - 1]
  BY <1>0, <1>2, <1>3, <1>4
<1>6. \A y \in Nat, w \in Nat \ {0} : y < w => y % w = y
  OBVIOUS
<1>7. x % Two[Bits] = x
  BY <1>0, <1>5, <1>6
<1> QED
  BY <1>4, <1>5, <1>7, Zenon DEF Shifted

\* From the shift j on, the true product is above the cap and only multiples of
\* 2^m are left in the word.
LEMMA ShiftedMultiple ==
  ASSUME NEW j \in Nat, NEW m \in 0 .. Bits - 1, NEW n \in Nat, n >= j,
         Two[m] > MaxBackoff, (BaseBackoff * Two[j]) % Two[m] = 0
  PROVE  /\ BaseBackoff * Two[n] \in Nat /\ BaseBackoff * Two[n] > MaxBackoff
         /\ Shifted(n) \in 0 .. Two[Bits] - 1
         /\ Shifted(n) = 0 \/ Shifted(n) > MaxBackoff
<1>0. Two[Bits] \in Nat \ {0} /\ BaseBackoff \in Nat \ {0} /\ MaxBackoff \in Nat
  BY WordFacts, Zenon
<1>1. /\ m \in Nat /\ Bits - m \in Nat /\ m + (Bits - m) = Bits
      /\ n - j \in Nat /\ j + (n - j) = n
  BY BackoffAssumption
<1>2. /\ Two[m] \in Nat \ {0} /\ Two[Bits - m] \in Nat
      /\ Two[Bits] = Two[m] * Two[Bits - m]
      /\ Two[j] \in Nat \ {0} /\ Two[n - j] \in Nat \ {0} /\ Two[n] = Two[j] * Two[n - j]
  <2>1. Two[m] \in Nat \ {0} /\ Two[Bits - m] \in Nat
    BY <1>1, TwoDef, TwoSplit, Zenon
  <2>2. Two[Bits] = Two[m] * Two[Bits - m]
    <3>1. Two[m + (Bits - m)] = Two[m] * Two[Bits - m]
      BY <1>1, TwoSplit, Zenon
    <3> QED
      BY <1>1, <3>1, Zenon
  <2>3. Two[j] \in Nat \ {0} /\ Two[n - j] \in Nat \ {0}
    BY <1>1, TwoSplit, Zenon
  <2>4. Two[n] = Two[j] * Two[n - j]
    <3>1. Two[j + (n - j)] = Two[j] * Two[n - j]
      BY <1>1, TwoSplit, Zenon
    <3> QED
      BY <1>1, <3>1, Zenon
  <2> QED
    BY <2>1, <2>2, <2>3, <2>4, Zenon
<1>3. PICK u \in Nat \ {0}, k \in Nat : u = Two[m] /\ Two[Bits] = u * k /\ u > MaxBackoff
  BY <1>2, Zenon
<1>4. PICK q \in Nat \ {0} : BaseBackoff * Two[j] = u * q
  <2>1. \A a, b \in Nat \ {0} : a * b \in Nat \ {0}
    OBVIOUS
  <2>2. PICK x \in Nat \ {0} : x = BaseBackoff * Two[j] /\ x % u = 0
    BY <1>0, <1>2, <1>3, <2>1, Zenon
  <2>3. PICK v \in Nat : x = u * v
    <3>1. x \div u \in Nat /\ x = u * (x \div u)
      BY <2>2
    <3> QED
      BY <3>1, Zenon
  <2>4. v # 0
    BY <2>2, <2>3
  <2> QED
    BY <2>2, <2>3, <2>4, Zenon
<1>5. PICK a \in Nat \ {0} : BaseBackoff * Two[n] = u * a
  <2>1. PICK b \in Nat \ {0}, c \in Nat \ {0}, t \in Nat \ {0} :
          b = BaseBackoff /\ c = Two[j] /\ t = Two[n - j]
    BY <1>0, <1>2, Zenon
  <2>2. b * (c * t) = (b * c) * t /\ (u * q) * t = u * (q * t) /\ q * t \in Nat \ {0}
    OBVIOUS
  <2> QED
    BY <1>2, <1>4, <2>1, <2>2, Zenon
<1>6. u * a \in Nat /\ u * a >= u
  OBVIOUS
<1>7. PICK d \in Nat : Shifted(n) = u * a - (u * k) * d
  <2>1. (u * k) \in Nat \ {0} /\ Shifted(n) = (u * a) % (u * k)
    BY <1>0, <1>3, <1>5, Zenon DEF Shifted
  <2>2. PICK y \in Nat, w \in Nat \ {0} : y = u * a /\ w = u * k /\ Shifted(n) = y % w
    BY <1>6, <2>1, Zenon
  <2>3. PICK d \in Nat : y % w = y - w * d
    BY RestOfWord, Zenon
  <2> QED
    BY <2>2, <2>3, Zenon
<1>8. PICK z \in Int : Shifted(n) = u * z
  <2>1. u * a - (u * k) * d = u * (a - k * d) /\ a - k * d \in Int
    OBVIOUS
  <2> QED
    BY <1>7, <2>1, Zenon
<1>9. Shifted(n) \in 0 .. Two[Bits] - 1
  BY <1>0, <1>5, <1>6, RestOfWord, Zenon DEF Shifted
<1>10. \A b \in Nat \ {0}, c \in Int : b * c >= 0 => b * c = 0 \/ b * c >= b
  OBVIOUS
<1>11. Shifted(n) = 0 \/ Shifted(n) >= u
  BY <1>0, <1>8, <1>9, <1>10
<1> QED
  BY <1>0, <1>3, <1>5, <1>6, <1>9, <1>11

\* The ceiling is the capped doubling, however many attempts there were and
\* however far the shift has overflowed (nextAttempt).
THEOREM CeilingIsCappedDoubling == \A n \in Nat : Ceiling(n) = Doubling(n)
<1> SUFFICES ASSUME NEW n \in Nat PROVE Ceiling(n) = Doubling(n)
  BY Zenon
<1>0. /\ Two[Bits] \in Nat \ {0} /\ Two[Bits - 1] \in Nat \ {0}
      /\ Two[Bits] = 2 * Two[Bits - 1]
      /\ MaxBackoff \in Nat \ {0} /\ MaxBackoff < Two[Bits - 1]
  BY WordFacts, Zenon
<1>1. PICK j \in 0 .. Bits - 1, m \in 0 .. Bits - 1 :
        /\ BaseBackoff * Two[j] < Two[Bits - 1]
        /\ Two[m] > MaxBackoff /\ (BaseBackoff * Two[j]) % Two[m] = 0
  BY BackoffAssumption, Zenon
<1>2. j \in Nat
  BY BackoffAssumption
<1>3. CASE n <= j
  <2>1. n \in 0 .. j
    BY <1>2, <1>3
  <2>2. PICK x \in Nat \ {0} :
          x = BaseBackoff * Two[n] /\ x < Two[Bits - 1] /\ Shifted(n) = x
    BY <1>1, <1>2, <2>1, ShiftedWithoutOverflow, Zenon
  <2> QED
    BY <1>0, <2>2 DEF Ceiling, Signed, Doubling
<1>4. CASE n >= j
  <2>1. /\ BaseBackoff * Two[n] > MaxBackoff
        /\ Shifted(n) \in 0 .. Two[Bits] - 1
        /\ Shifted(n) = 0 \/ Shifted(n) > MaxBackoff
    BY <1>1, <1>2, <1>4, ShiftedMultiple, Zenon
  <2>2. PICK x \in 0 .. Two[Bits] - 1 : x = Shifted(n) /\ (x = 0 \/ x > MaxBackoff)
    BY <2>1, Zenon
  <2> QED
    BY <1>0, <2>1, <2>2 DEF Ceiling, Signed, Doubling
<1> QED
  BY <1>2, <1>3, <1>4

\* A row that waits for its next attempt waits for a time below the capped
\* doubling, for all failures to come (nextAttempt).
THEOREM WaitsAreCapped == Spec => []BackoffCapped
<1>1. TypeOK => BackoffCapped
  <2> SUFFICES ASSUME TypeOK, NEW e \in Events, NEW n \in attempts[e] .. Bits + 1
               PROVE  Ceiling(n) = Doubling(n)
    BY Zenon DEF BackoffCapped
  <2>1. attempts[e] \in Nat /\ Bits \in Nat
    BY BackoffAssumption, Zenon DEF TypeOK
  <2>2. n \in Nat
    BY <2>1
  <2> QED
    BY <2>2, CeilingIsCappedDoubling, Zenon
<1> QED
  BY TypeCorrect, <1>1, PTL
=============================================================================
