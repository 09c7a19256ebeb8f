----------------------------- MODULE OutboxRelay -----------------------------
(***************************************************************************)
(* The outbox relay: processes that poll the outbox table and deliver each *)
(* event at least once.  One transaction per event: claim the oldest due   *)
(* row with FOR UPDATE SKIP LOCKED, Publish, record the outcome, commit.   *)
(* Events are numbered by created_at, the start of the transaction of the  *)
(* transfer; they become visible when that transaction commits, in any     *)
(* order.  A process can die anywhere; its session keeps the row lock      *)
(* until the server ends it, and a COMMIT already sent may still apply.    *)
(***************************************************************************)
EXTENDS Backoff, FiniteSets, FiniteSetsExt

CONSTANTS Events,      \* outbox rows, ordered by created_at
          Relays,      \* relay processes (one today; SKIP LOCKED allows more)
          BatchSize,   \* rows per PollOnce
          MaxFailures  \* bound: failed publishes and deaths of processes

ASSUME RelayAssumption ==
  /\ Events \subseteq Nat \ {0} /\ IsFiniteSet(Events)
  /\ BatchSize \in Nat \ {0} /\ MaxFailures \in Nat

VARIABLES
  row,       \* row[e]: "absent", "pending" or "published" (published_at set)
  due,       \* due[e]: next_attempt_at has passed
  attempts,  \* attempts[e]: the attempts column
  sent,      \* sent[e]: times e reached the destination
  pc,        \* pc[i]: where relay i is in processOne
  claim,     \* claim[i]: the row that i's session has locked, 0 for none
  ok,        \* ok[i]: Publish returned nil
  left,      \* left[i]: rows that the current PollOnce may still take
  counted,   \* rows counted as published in the relay metrics
  failures,  \* failures that have happened, of all kinds (for the bound)
  lapses     \* history, lapses[e]: Publishes of e that returned an error, and
             \* deliveries of e whose session was rolled back before its COMMIT

sessionVars == <<pc, claim, ok, left>>
vars == <<row, due, attempts, sent, pc, claim, ok, left, counted, failures, lapses>>

Locked(e) == \E i \in Relays : claim[i] = e

\* Variants of the SELECT: without FOR UPDATE, and without published_at IS NULL.
CandidatesUnlocked == {e \in Events : row[e] = "pending" /\ due[e]}

CandidatesAnyState == {e \in Events : row[e] # "absent" /\ due[e] /\ ~ Locked(e)}

\* Rows the SELECT may return: pending, due, and not locked by a session.
Candidates == {e \in Events : row[e] = "pending" /\ due[e] /\ ~ Locked(e)}

Init ==
  /\ row = [e \in Events |-> "absent"]
  /\ due = [e \in Events |-> FALSE]
  /\ attempts = [e \in Events |-> 0]
  /\ sent = [e \in Events |-> 0]
  /\ pc = [i \in Relays |-> "asleep"]
  /\ claim = [i \in Relays |-> 0]
  /\ ok = [i \in Relays |-> FALSE]
  /\ left = [i \in Relays |-> 0]
  /\ counted = 0
  /\ failures = 0
  /\ lapses = [e \in Events |-> 0]

\* A transfer commits with its event: next_attempt_at defaults to now().
AppendEvent(e) ==
  /\ row[e] = "absent"
  /\ row' = [row EXCEPT ![e] = "pending"]
  /\ due' = [due EXCEPT ![e] = TRUE]
  /\ UNCHANGED <<attempts, sent, sessionVars, counted, failures, lapses>>

\* The backoff of a failed row runs out.
BecomeDue(e) ==
  /\ row[e] = "pending" /\ ~ due[e]
  /\ due' = [due EXCEPT ![e] = TRUE]
  /\ UNCHANGED <<row, attempts, sent, sessionVars, counted, failures, lapses>>

\* The ticker fires: PollOnce starts its loop.
Tick(i) ==
  /\ pc[i] = "asleep"
  /\ pc' = [pc EXCEPT ![i] = "select"]
  /\ left' = [left EXCEPT ![i] = BatchSize]
  /\ UNCHANGED <<row, due, attempts, sent, claim, ok, counted, failures, lapses>>

\* Begin and the SELECT, which locks the oldest candidate.
Select(i) ==
  /\ pc[i] = "select" /\ Candidates # {}
  /\ claim' = [claim EXCEPT ![i] = Min(Candidates)]
  /\ pc' = [pc EXCEPT ![i] = "publish"]
  /\ UNCHANGED <<row, due, attempts, sent, ok, left, counted, failures, lapses>>

\* pgx.ErrNoRows: the poll ends.
NothingDue(i) ==
  /\ pc[i] = "select" /\ Candidates = {}
  /\ pc' = [pc EXCEPT ![i] = "asleep"]
  /\ UNCHANGED <<row, due, attempts, sent, claim, ok, left, counted, failures, lapses>>

\* Publish returns nil.
PublishOk(i) ==
  /\ pc[i] = "publish"
  /\ sent' = [sent EXCEPT ![claim[i]] = @ + 1]
  /\ ok' = [ok EXCEPT ![i] = TRUE]
  /\ pc' = [pc EXCEPT ![i] = "mark"]
  /\ UNCHANGED <<row, due, attempts, claim, left, counted, failures, lapses>>

\* Variant: the error of Publish is dropped.
PublishErrorDropped(i) ==
  /\ pc[i] = "publish" /\ failures < MaxFailures
  /\ \E arrived \in {0, 1} : sent' = [sent EXCEPT ![claim[i]] = @ + arrived]
  /\ ok' = [ok EXCEPT ![i] = TRUE]
  /\ pc' = [pc EXCEPT ![i] = "mark"]
  /\ failures' = failures + 1
  /\ lapses' = [lapses EXCEPT ![claim[i]] = @ + 1]
  /\ UNCHANGED <<row, due, attempts, claim, left, counted>>

\* Publish returns an error, with or without the event having arrived.
PublishError(i) ==
  /\ pc[i] = "publish" /\ failures < MaxFailures
  /\ \E arrived \in {0, 1} : sent' = [sent EXCEPT ![claim[i]] = @ + arrived]
  /\ ok' = [ok EXCEPT ![i] = FALSE]
  /\ pc' = [pc EXCEPT ![i] = "mark"]
  /\ failures' = failures + 1
  /\ lapses' = [lapses EXCEPT ![claim[i]] = @ + 1]
  /\ UNCHANGED <<row, due, attempts, claim, left, counted>>

\* The UPDATE of either branch, not yet visible.
Mark(i) ==
  /\ pc[i] = "mark"
  /\ pc' = [pc EXCEPT ![i] = "commit"]
  /\ UNCHANGED <<row, due, attempts, sent, claim, ok, left, counted, failures, lapses>>

\* What the COMMIT makes visible: published, or one more attempt and a new
\* next_attempt_at (full jitter: any wait below the ceiling, zero included).
Outcome(i) ==
  LET e == claim[i] IN
  /\ attempts' = [attempts EXCEPT ![e] = @ + 1]
  /\ claim' = [claim EXCEPT ![i] = 0]
  /\ IF ok[i] THEN row' = [row EXCEPT ![e] = "published"] /\ UNCHANGED due
     ELSE /\ UNCHANGED row
          /\ \E wait \in {0, Ceiling(attempts[e] + 1) - 1} :
               due' = [due EXCEPT ![e] = wait = 0]

\* Commit returned: recordOutcome, and the loop goes on while rows are left.
Commit(i) ==
  /\ pc[i] = "commit"
  /\ Outcome(i)
  /\ counted' = IF ok[i] THEN counted + 1 ELSE counted
  /\ left' = [left EXCEPT ![i] = @ - 1]
  /\ pc' = [pc EXCEPT ![i] = IF left[i] > 1 THEN "select" ELSE "asleep"]
  /\ ok' = [ok EXCEPT ![i] = FALSE]
  /\ UNCHANGED <<sent, failures, lapses>>

\* The process is killed or stopped, or a statement fails: processOne does not
\* return normally and its session is left to the server.
Die(i) ==
  /\ pc[i] \in {"select", "publish", "mark", "commit"} /\ failures < MaxFailures
  /\ pc' = [pc EXCEPT ![i] = IF @ = "commit" THEN "committing" ELSE "dead"]
  /\ failures' = failures + 1
  /\ UNCHANGED <<row, due, attempts, sent, claim, ok, left, counted, lapses>>

\* The server still applies the COMMIT of a session whose client is gone.
LateCommit(i) ==
  /\ pc[i] = "committing"
  /\ Outcome(i)
  /\ pc' = [pc EXCEPT ![i] = "dead"]
  /\ ok' = [ok EXCEPT ![i] = FALSE]
  /\ UNCHANGED <<sent, left, counted, failures, lapses>>

\* Variant: no deferred rollback, so the lock outlives the poll.
EndSessionNoRollback(i) ==
  /\ pc[i] \in {"dead", "committing"}
  /\ ok' = [ok EXCEPT ![i] = FALSE]
  /\ pc' = [pc EXCEPT ![i] = "asleep"]
  /\ UNCHANGED <<row, due, attempts, sent, claim, left, counted, failures, lapses>>

\* The server ends the session (rollback, lock released); the relay polls
\* again, after a restart or on its next tick.
EndSession(i) ==
  /\ pc[i] \in {"dead", "committing"}
  /\ claim' = [claim EXCEPT ![i] = 0]
  /\ ok' = [ok EXCEPT ![i] = FALSE]
  /\ pc' = [pc EXCEPT ![i] = "asleep"]
  /\ lapses' = IF ok[i] THEN [lapses EXCEPT ![claim[i]] = @ + 1] ELSE lapses
  /\ UNCHANGED <<row, due, attempts, sent, left, counted, failures>>

Step(i) ==
  \/ Tick(i) \/ Select(i) \/ NothingDue(i) \/ PublishOk(i) \/ Mark(i)
  \/ Commit(i) \/ LateCommit(i) \/ EndSession(i)

Next ==
  \/ \E e \in Events : AppendEvent(e) \/ BecomeDue(e)
  \/ \E i \in Relays : Step(i) \/ PublishError(i) \/ Die(i)

Spec == Init /\ [][Next]_vars

\* Relays keep polling, sessions end, backoffs run out.
FairSpec ==
  /\ Spec
  /\ \A e \in Events : WF_vars(BecomeDue(e))
  /\ \A i \in Relays : WF_vars(Step(i))

-----------------------------------------------------------------------------
\* The columns and the relays' variables have their types; a poll never takes
\* more than its batch.
TypeOK ==
  /\ row \in [Events -> {"absent", "pending", "published"}]
  /\ due \in [Events -> BOOLEAN]
  /\ attempts \in [Events -> Nat] /\ sent \in [Events -> Nat]
  /\ pc \in [Relays -> {"asleep", "select", "publish", "mark", "commit",
                        "committing", "dead"}]
  /\ claim \in [Relays -> Events \cup {0}]
  /\ ok \in [Relays -> BOOLEAN]
  /\ left \in [Relays -> 0 .. BatchSize]
  /\ counted \in Nat /\ failures \in 0 .. MaxFailures
  /\ lapses \in [Events -> Nat]

\* An event is marked published only after it reached the destination, and
\* the metrics never count one that is not marked: whatever dies between
\* Publish, the UPDATE and the COMMIT, nothing is lost (PollOnce).
NeverLost ==
  /\ \A e \in Events : row[e] = "published" => sent[e] >= 1
  /\ counted <= Cardinality({e \in Events : row[e] = "published"})

\* Two sessions never work on one event, and a claimed event is still
\* unpublished: SKIP LOCKED passes over the rows that live and dead sessions
\* have locked.
OneSessionPerEvent ==
  \A i, j \in Relays :
    claim[i] # 0 => /\ row[claim[i]] = "pending"
                    /\ i # j => claim[i] # claim[j]

\* Every delivery of an event beyond its first has a cause of its own, in that
\* event: a Publish of it that returned an error, or a session that delivered it
\* and was rolled back before its COMMIT.  Another row's failure, a death before
\* Publish and a COMMIT whose answer is lost never repeat it (processOne: each
\* row's outcome is isolated from the others).
DuplicatesHaveCause == \A e \in Events : sent[e] <= 1 + lapses[e]

\* However often a row that waits for its next attempt fails again, its ceiling
\* stays the capped doubling: once the shift overflows it is never read as a
\* short, zero or negative wait, on which rand.Int64N would panic
\* (nextAttempt).  After Bits failures the shift is zero for good.
BackoffCapped ==
  \A e \in Events : row[e] = "pending" /\ ~ due[e] =>
    \A n \in attempts[e] .. Bits + 1 : Ceiling(n) = Doubling(n)

\* A published event is never sent again and stays published.
PublishedIsFinal ==
  [][\A e \in Events : row[e] = "published" =>
        row'[e] = "published" /\ sent'[e] = sent[e] /\ attempts'[e] = attempts[e]]_vars

\* Every event of a committed transfer is eventually published, once failures
\* stop.
EventuallyPublished ==
  \A e \in Events : row[e] = "pending" ~> row[e] = "published"

\* What the acceptance test says of a Publisher that fails: nothing of the
\* attempt is persisted, as if the process had been killed.
FailedPublishPersistsNothing ==
  [][\A e \in Events : row'[e] = "pending" => attempts'[e] = attempts[e]]_vars
=============================================================================
