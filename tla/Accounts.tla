------------------------------ MODULE Accounts ------------------------------
(***************************************************************************)
(* The accounts table: service instances that make sure of the system      *)
(* account whenever they start, and requests that create customer          *)
(* accounts.  Every statement commits by itself.  A statement whose caller *)
(* was told of an error may still reach the database, later or never.      *)
(* Rows are unique in (owner, kind); there is one currency.                *)
(***************************************************************************)
EXTENDS Naturals, FiniteSets

CONSTANTS Instances, Creators,
          Owners,       \* trimmed owner ids that requests carry
          SystemOwner,  \* the owner id 'system', which a request may carry too
          Blank,        \* the empty owner id
          MaxStarts     \* bound: starts of instances in a run

ASSUME OwnersAssumption == {SystemOwner, Blank} \subseteq Owners /\ MaxStarts \in Nat

VARIABLES rows,    \* the accounts table: records of id, owner and kind
          late,    \* inserts whose caller has given up
          lastId,  \* ids drawn so far: uuid.New() never repeats one
          starts,  \* number of starts so far
          ipc,     \* ipc[i]: "down", "insert", "select" or "up"
          fresh,   \* fresh[i]: the id that i drew for its insert
          sysId,   \* sysId[i]: the system account of i's last start, 0 before
          owner,   \* owner[c]: the owner id of request c
          cpc,     \* cpc[c]: "new", "insert", "find" or the answer
          newId    \* newId[c]: the id that c drew, 0 before

instVars == <<starts, ipc, fresh, sysId>>
createVars == <<owner, cpc, newId>>
accountVars == <<rows, late, lastId, starts, ipc, fresh, sysId, owner, cpc, newId>>

Answers == {"created", "invalid_owner", "already_exists", "not_found", "error"}

Row(n, o, kind) == [id |-> n, owner |-> o, kind |-> kind]

\* accounts has UNIQUE (owner_id, kind, currency).
Taken(new) == \E x \in rows : x.owner = new.owner /\ x.kind = new.kind

AccountsInit ==
  /\ rows = {} /\ late = {} /\ lastId = 0 /\ starts = 0
  /\ ipc = [i \in Instances |-> "down"]
  /\ fresh = [i \in Instances |-> 0]
  /\ sysId = [i \in Instances |-> 0]
  /\ owner \in [Creators -> Owners]
  /\ cpc = [c \in Creators |-> "new"]
  /\ newId = [c \in Creators |-> 0]

-----------------------------------------------------------------------------
Start(i) ==
  /\ ipc[i] = "down" /\ starts < MaxStarts
  /\ starts' = starts + 1
  /\ lastId' = lastId + 1
  /\ fresh' = [fresh EXCEPT ![i] = lastId + 1]
  /\ ipc' = [ipc EXCEPT ![i] = "insert"]
  /\ UNCHANGED <<rows, late, sysId, createVars>>

SystemRow(i) == Row(fresh[i], SystemOwner, "system")

\* INSERT ... ON CONFLICT DO NOTHING.
InsertSystem(i) ==
  /\ ipc[i] = "insert"
  /\ rows' = IF Taken(SystemRow(i)) THEN rows ELSE rows \cup {SystemRow(i)}
  /\ ipc' = [ipc EXCEPT ![i] = "select"]
  /\ UNCHANGED <<late, lastId, starts, fresh, sysId, createVars>>

\* Variant: the owner alone identifies the system account.
SelectSystemByOwner(i) ==
  /\ ipc[i] = "select"
  /\ \E x \in rows : x.owner = SystemOwner /\ sysId' = [sysId EXCEPT ![i] = x.id]
  /\ ipc' = [ipc EXCEPT ![i] = "up"]
  /\ UNCHANGED <<rows, late, lastId, starts, fresh, createVars>>

\* The id is read back: it may be another instance's.
SelectSystem(i) ==
  /\ ipc[i] = "select"
  /\ \E x \in rows : /\ x.owner = SystemOwner /\ x.kind = "system"
                     /\ sysId' = [sysId EXCEPT ![i] = x.id]
  /\ ipc' = [ipc EXCEPT ![i] = "up"]
  /\ UNCHANGED <<rows, late, lastId, starts, fresh, createVars>>

\* A statement of EnsureSystem fails and the process exits, or it is killed.
Fall(i) ==
  /\ ipc[i] # "down"
  /\ late' = IF ipc[i] = "insert" THEN late \cup {SystemRow(i)} ELSE late
  /\ ipc' = [ipc EXCEPT ![i] = "down"]
  /\ UNCHANGED <<rows, lastId, starts, fresh, sysId, createVars>>

-----------------------------------------------------------------------------
\* AccountService.Create up to the insert.  A request needs a running instance.
Create(c) ==
  /\ cpc[c] = "new" /\ \E i \in Instances : ipc[i] = "up"
  /\ IF owner[c] = Blank
     THEN cpc' = [cpc EXCEPT ![c] = "invalid_owner"] /\ UNCHANGED <<newId, lastId>>
     ELSE /\ cpc' = [cpc EXCEPT ![c] = "insert"]
          /\ newId' = [newId EXCEPT ![c] = lastId + 1]
          /\ lastId' = lastId + 1
  /\ UNCHANGED <<rows, late, owner, instVars>>

CustomerRow(c) == Row(newId[c], owner[c], "customer")

\* Variant: no unique constraint.
InsertAlways(c) ==
  /\ cpc[c] = "insert"
  /\ rows' = rows \cup {CustomerRow(c)}
  /\ cpc' = [cpc EXCEPT ![c] = "find"]
  /\ UNCHANGED <<late, lastId, owner, newId, instVars>>

InsertCustomer(c) ==
  /\ cpc[c] = "insert"
  /\ IF Taken(CustomerRow(c))
     THEN cpc' = [cpc EXCEPT ![c] = "already_exists"] /\ UNCHANGED rows
     ELSE cpc' = [cpc EXCEPT ![c] = "find"] /\ rows' = rows \cup {CustomerRow(c)}
  /\ UNCHANGED <<late, lastId, owner, newId, instVars>>

\* FindByID, whose row is the answer.
FindByID(c) ==
  /\ cpc[c] = "find"
  /\ cpc' = [cpc EXCEPT ![c] = IF \E x \in rows : x.id = newId[c]
                               THEN "created" ELSE "not_found"]
  /\ UNCHANGED <<rows, late, lastId, owner, newId, instVars>>

\* Either statement fails for the caller.
Fail(c) ==
  /\ cpc[c] \in {"insert", "find"}
  /\ late' = IF cpc[c] = "insert" THEN late \cup {CustomerRow(c)} ELSE late
  /\ cpc' = [cpc EXCEPT ![c] = "error"]
  /\ UNCHANGED <<rows, lastId, owner, newId, instVars>>

\* An insert that nobody waits for runs, or is lost.
Arrive(new) ==
  /\ new \in late
  /\ late' = late \ {new}
  /\ rows' \in {rows, IF Taken(new) THEN rows ELSE rows \cup {new}}
  /\ UNCHANGED <<lastId, instVars, createVars>>

\* The starts that the bound allows are used up and nothing is under way.
AllDown ==
  /\ starts = MaxStarts /\ late = {}
  /\ \A i \in Instances : ipc[i] = "down"
  /\ \A c \in Creators : cpc[c] \notin {"insert", "find"}
  /\ UNCHANGED accountVars

AccountsNext ==
  \/ AllDown
  \/ \E i \in Instances : Start(i) \/ InsertSystem(i) \/ SelectSystem(i) \/ Fall(i)
  \/ \E c \in Creators : Create(c) \/ InsertCustomer(c) \/ FindByID(c) \/ Fail(c)
  \/ \E new \in late : Arrive(new)

AccountsSpec == AccountsInit /\ [][AccountsNext]_accountVars

-----------------------------------------------------------------------------
\* However instances start, fall and restart at the same time, all of them
\* have ever used one system account, whose row exists and is of that kind,
\* even if a customer calls itself 'system' (EnsureSystem).
OneSystemAccount ==
  \A i, j \in Instances : sysId[i] # 0 /\ sysId[j] # 0 =>
    sysId[i] = sysId[j] /\ Row(sysId[i], SystemOwner, "system") \in rows

\* A request learns the truth: a created account is its own, nobody else was
\* told to have created one for that owner, a refusal names an account that
\* someone else inserted, and an account never vanishes between the insert
\* and the read (Create, FindByID).
CreateAnswers ==
  \A c \in Creators :
    /\ cpc[c] = "created" =>
         /\ CustomerRow(c) \in rows
         /\ \A d \in Creators \ {c} : cpc[d] = "created" => owner[d] # owner[c]
    /\ cpc[c] = "already_exists" =>
         /\ \E d \in Creators \ {c} : CustomerRow(d) \in rows /\ owner[d] = owner[c]
         /\ CustomerRow(c) \notin rows
    /\ cpc[c] # "not_found"
=============================================================================
