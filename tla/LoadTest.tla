------------------------------ MODULE LoadTest ------------------------------
(***************************************************************************)
(* cmd/loadtest: fund accounts, run stages with twice the workers each,    *)
(* until a stage breaks a limit or the host guard trips, wait for the API  *)
(* to recover, and compare the sum of the balances with the deposits.      *)
(* The API is what its contract says: a transfer is applied once or not at *)
(* all, and an answer that says neither (503, or none before the client's  *)
(* timeout) leaves it open, also until later.                              *)
(***************************************************************************)
EXTENDS Integers

CONSTANTS Options,     \* command lines: local (-url), start, max (workers), scenario,
                       \* accounts
          MaxWorkers,  \* the largest -max among them
          Funding,     \* cents deposited in every account
          PerStage,    \* bound: requests of one worker in one stage
          MaxPolls,    \* polls of the recovery loop within its 60 seconds
          ErrLimit     \* -err-limit, in percent

ASSUME LoadAssumption ==
  /\ Funding \in Nat /\ PerStage \in Nat /\ MaxPolls \in Nat /\ ErrLimit \in 0 .. 100
  /\ MaxWorkers \in Nat
  /\ \A o \in Options :
       o.start \in Int /\ o.max \in Int /\ o.max <= MaxWorkers /\ o.accounts \in Int

VARIABLES
  opt,     \* the options of this run
  at,      \* where run() is
  idx,     \* index of its loop over the accounts, or polls made
  bal,     \* bal[a]: balance of account a in the API
  open,    \* open[p]: transfers over the pair p whose outcome is still open
  workers, \* workers of the current stage
  pc,      \* pc[k]: where worker k is in its loop
  sent,    \* sent[k]: requests of worker k in this stage
  tally,   \* tally[k]: its local latencies, statuses and errs
  res,     \* the stage's merged result
  tripped, \* guard.tripped
  stop,    \* report.StopKind
  sum,     \* balances added up
  passed,  \* report.Consistency: "none", "passed" or "failed"
  after,   \* history: after[k], requests k sent after the guard tripped
  landed   \* history: an open transfer took effect while balances were read

stageVars == <<workers, pc, sent, tally, res>>
checkVars == <<sum, passed, landed>>
vars == <<opt, at, idx, bal, open, stageVars, tripped, stop, checkVars, after>>

Workers == 1 .. MaxWorkers

\* The accounts of the run: two in the hot scenario.
NumAccounts(o) == IF o.scenario = "hot" THEN 2 ELSE o.accounts
Ids == 1 .. NumAccounts(opt)
Pairs == {p \in Ids \X Ids : p[1] # p[2]}

\* next: the pairs that a worker may draw a transfer for.
Targets == IF opt.scenario = "hot" THEN {<<1, 2>>} ELSE Pairs

\* Variant: -start is only compared with -max.
ValidOptionsAnyStart(o) ==
  /\ o.local
  /\ o.max >= o.start
  /\ o.scenario = "hot" \/ (o.scenario \in {"spread", "read"} /\ o.accounts >= 2)

\* run: the checks on the options, isLocal first.
ValidOptions(o) ==
  /\ o.local
  /\ o.start >= 1 /\ o.max >= o.start
  /\ o.scenario = "hot" \/ (o.scenario \in {"spread", "read"} /\ o.accounts >= 2)

\* What a stage counts: latencies, slow ones, non-2xx responses, transport errors.
Empty == [n |-> 0, slow |-> 0, bad |-> 0, errs |-> 0]
Plus(s, t) == [n |-> s.n + t.n, slow |-> s.slow + t.slow, bad |-> s.bad + t.bad,
               errs |-> s.errs + t.errs]

Init ==
  /\ opt \in Options
  /\ at = "options" /\ idx = 1
  /\ bal = [a \in Ids |-> 0] /\ open = [p \in Pairs |-> 0]
  /\ workers = 0 /\ pc = [k \in Workers |-> "off"] /\ sent = [k \in Workers |-> 0]
  /\ tally = [k \in Workers |-> Empty] /\ res = Empty
  /\ tripped = FALSE /\ stop = "max_workers"
  /\ sum = 0 /\ passed = "none" /\ after = [k \in Workers |-> 0] /\ landed = FALSE

\* run() goes on with n workers on a new result: runStage, or none.
Stage(n, where) ==
  /\ at' = where /\ workers' = n
  /\ pc' = [k \in Workers |-> IF k <= n THEN "check" ELSE "off"]
  /\ sent' = [k \in Workers |-> 0]
  /\ tally' = [k \in Workers |-> Empty] /\ res' = Empty

CheckOptions ==
  /\ at = "options"
  /\ at' = IF ValidOptions(opt) THEN "setup" ELSE "failed"
  /\ UNCHANGED <<opt, idx, bal, open, stageVars, tripped, stop, checkVars, after>>

\* createAccount and deposit for one account; the ramp begins after the last.
Setup ==
  /\ at = "setup"
  /\ bal' = [bal EXCEPT ![idx] = Funding]
  /\ idx' = IF idx + 1 \in Ids THEN idx + 1 ELSE 1
  /\ IF idx + 1 \in Ids THEN UNCHANGED <<at, stageVars>> ELSE Stage(opt.start, "stage")
  /\ UNCHANGED <<opt, open, tripped, stop, checkVars, after>>

\* Setup fails when the API does.
SetupFails ==
  /\ at = "setup"
  /\ at' = "failed"
  /\ UNCHANGED <<opt, idx, bal, open, stageVars, tripped, stop, checkVars, after>>

\* guard.watch sees the host above a limit, until stopWatch.
Trip ==
  /\ at \in {"stage", "judge"} /\ ~ tripped
  /\ tripped' = TRUE
  /\ UNCHANGED <<opt, at, idx, bal, open, stageVars, stop, checkVars, after>>

\* Variant: the loop does not look at the guard.
LoopNoGuard(k) ==
  /\ pc[k] = "check" /\ sent[k] < PerStage
  /\ pc' = [pc EXCEPT ![k] = "send"]
  /\ UNCHANGED <<opt, at, idx, bal, open, workers, sent, tally, res, tripped, stop, checkVars, after>>

\* The loop condition holds: before the deadline, guard not tripped.
Loop(k) ==
  /\ pc[k] = "check" /\ ~ tripped /\ sent[k] < PerStage
  /\ pc' = [pc EXCEPT ![k] = "send"]
  /\ UNCHANGED <<opt, at, idx, bal, open, workers, sent, tally, res, tripped, stop, checkVars, after>>

\* c.send puts the request on the wire.
Send(k) ==
  /\ pc[k] = "send"
  /\ pc' = [pc EXCEPT ![k] = "wait"]
  /\ sent' = [sent EXCEPT ![k] = @ + 1]
  /\ after' = [after EXCEPT ![k] = IF tripped THEN @ + 1 ELSE @]
  /\ UNCHANGED <<opt, at, idx, bal, open, workers, tally, res, tripped, stop, checkVars>>

\* The balances after a transfer of one cent.
Moved(p) == [bal EXCEPT ![p[1]] = @ - 1, ![p[2]] = @ + 1]

\* What the API does with a transfer, by the answer: 2xx applied, 4xx not
\* applied, 503 or no answer applied, not applied, or open.
Effect(kind) ==
  \E p \in Targets :
    CASE opt.scenario = "read" -> UNCHANGED <<bal, open>>
      [] kind = "ok"      -> bal[p[1]] > 0 /\ bal' = Moved(p) /\ UNCHANGED open
      [] kind = "refused" -> UNCHANGED <<bal, open>>
      [] OTHER            -> \/ UNCHANGED <<bal, open>>
                             \/ bal[p[1]] > 0 /\ bal' = Moved(p) /\ UNCHANGED open
                             \/ open' = [open EXCEPT ![p] = @ + 1] /\ UNCHANGED bal

\* send returns; the worker notes latency and status or error.
Return(k) ==
  /\ pc[k] = "wait"
  /\ \E kind \in {"ok", "refused", "unavailable", "error"}, slow \in {0, 1} :
       /\ Effect(kind)
       /\ tally' = [tally EXCEPT ![k] = Plus(@,
            [n |-> 1, slow |-> slow, errs |-> IF kind = "error" THEN 1 ELSE 0,
             bad |-> IF kind \in {"refused", "unavailable"} THEN 1 ELSE 0])]
  /\ pc' = [pc EXCEPT ![k] = "check"]
  /\ UNCHANGED <<opt, at, idx, workers, sent, res, tripped, stop, checkVars, after>>

\* Variant: the merge overwrites what other workers merged.
MergeOverwrites(k) ==
  /\ pc[k] = "check"
  /\ res' = tally[k]
  /\ pc' = [pc EXCEPT ![k] = "done"]
  /\ UNCHANGED <<opt, at, idx, bal, open, workers, sent, tally, tripped, stop, checkVars, after>>

\* The loop ends (deadline or guard): merge under the mutex, wg.Done.
Merge(k) ==
  /\ pc[k] = "check"
  /\ res' = Plus(res, tally[k])
  /\ pc' = [pc EXCEPT ![k] = "done"]
  /\ UNCHANGED <<opt, at, idx, bal, open, workers, sent, tally, tripped, stop, checkVars, after>>

\* wg.Wait returns.
StageEnds ==
  /\ at = "stage" /\ \A k \in 1 .. workers : pc[k] = "done"
  /\ at' = "judge"
  /\ UNCHANGED <<opt, idx, bal, open, stageVars, tripped, stop, checkVars, after>>

\* percentile(0.99) of the sorted latencies is a slow one.
SlowP99(r) ==
  LET j == (99 * r.n) \div 100
  IN  r.n > 0 /\ (IF j >= r.n THEN r.n - 1 ELSE j) >= r.n - r.slow

\* appFailureRatio or connFailureRatio is above the limit.
AboveLimit(bad, r) == 100 * bad > ErrLimit * r.n

\* evaluateStage
Broke(r) == SlowP99(r) \/ AboveLimit(r.bad, r) \/ AboveLimit(r.errs, r)

\* Variant: the ramp goes on past -max.
RampPastMax(n) == Stage(n, "stage")

\* The ramp's loop: a stage with n workers, unless they are more than -max.
Ramp(n) == IF n <= opt.max THEN Stage(n, "stage") ELSE Stage(0, "recover")

\* The verdict on a stage: stop, or go on with twice the workers.
Judge ==
  /\ at = "judge"
  /\ IF Broke(res) \/ tripped
     THEN /\ stop' = IF Broke(res) THEN "api_broke" ELSE "resource_limit"
          /\ Stage(0, "recover")
     ELSE /\ UNCHANGED stop
          /\ Ramp(2 * workers)
  /\ idx' = 1
  /\ UNCHANGED <<opt, bal, open, tripped, checkVars, after>>

\* A poll of the recovery loop is answered, fails, or is the last one allowed.
Recover ==
  /\ at = "recover"
  /\ \/ at' = "sum" /\ idx' = 1
     \/ idx < MaxPolls /\ idx' = idx + 1 /\ UNCHANGED at
     \/ idx = MaxPolls /\ at' = "failed" /\ UNCHANGED idx
  /\ UNCHANGED <<opt, bal, open, stageVars, tripped, stop, checkVars, after>>

\* The next balance of the consistency check.
ReadBalance ==
  /\ at = "sum"
  /\ sum' = sum + bal[idx]
  /\ idx' = idx + 1
  /\ at' = IF idx + 1 \in Ids THEN at ELSE "report"
  /\ UNCHANGED <<opt, bal, open, stageVars, tripped, stop, passed, landed, after>>

\* A balance cannot be read.
ReadFails ==
  /\ at = "sum"
  /\ at' = "failed"
  /\ UNCHANGED <<opt, idx, bal, open, stageVars, tripped, stop, checkVars, after>>

\* The verdict of the consistency check; a failed one is the run's error.
Report ==
  /\ at = "report"
  /\ passed' = IF sum = Funding * NumAccounts(opt) THEN "passed" ELSE "failed"
  /\ at' = IF sum = Funding * NumAccounts(opt) THEN "ok" ELSE "failed"
  /\ UNCHANGED <<opt, idx, bal, open, stageVars, tripped, stop, sum, landed, after>>

\* An open transfer is applied after all: its transaction outlived the client.
Land(p) ==
  /\ open[p] > 0 /\ bal[p[1]] > 0 /\ at \notin {"ok", "failed"}
  /\ bal' = Moved(p)
  /\ open' = [open EXCEPT ![p] = @ - 1]
  /\ landed' = (landed \/ (at = "sum" /\ idx > 1))
  /\ UNCHANGED <<opt, at, idx, stageVars, tripped, stop, sum, passed, after>>

Work(k) == Loop(k) \/ Send(k) \/ Return(k) \/ Merge(k)

\* Steps of run() after its setup.
Advance == CheckOptions \/ Setup \/ StageEnds \/ Judge \/ Recover \/ ReadBalance \/ Report

Ended == at \in {"ok", "failed"} /\ UNCHANGED vars

Next ==
  \/ Advance \/ SetupFails \/ ReadFails \/ Trip \/ Ended
  \/ \E k \in Workers : Work(k)
  \/ \E p \in Pairs : Land(p)

Spec == Init /\ [][Next]_vars

\* run() and its goroutines are scheduled; every request returns, with an
\* answer or with the client's timeout.
FairSpec == Spec /\ WF_vars(Advance) /\ \A k \in Workers : WF_vars(Work(k))

-----------------------------------------------------------------------------
\* The variables have their types; no stage has more workers than -max.
TypeOK ==
  /\ opt \in Options
  /\ at \in {"options", "setup", "stage", "judge", "recover", "sum", "report", "ok", "failed"}
  /\ idx \in Nat /\ bal \in [Ids -> Nat] /\ open \in [Pairs -> Nat]
  /\ workers \in {0} \cup 1 .. opt.max /\ sent \in [Workers -> 0 .. PerStage]
  /\ pc \in [Workers -> {"off", "check", "send", "wait", "done"}]
  /\ tally \in [Workers -> [n : Nat, slow : Nat, bad : Nat, errs : Nat]]
  /\ res \in [n : Nat, slow : Nat, bad : Nat, errs : Nat]
  /\ tripped \in BOOLEAN /\ stop \in {"max_workers", "api_broke", "resource_limit"}
  /\ sum \in Nat /\ passed \in {"none", "passed", "failed"}
  /\ after \in [Workers -> Nat] /\ landed \in BOOLEAN

\* f[1] + ... + f[n]
Totals(f) == LET s[n \in Nat] == IF n = 0 THEN 0 ELSE s[n - 1] + f[n] IN s
Total(f, n) == Totals(f)[n]

\* A stage is judged on every request it sent, each counted once, whatever the
\* order in which the workers finish and merge (runStage).
JudgedOnAll == at = "judge" => res.n = Total(sent, MaxWorkers)

\* Once the guard has tripped no worker sends more than the one request it had
\* already decided on, and no later stage sends any.
StopsWhenTripped == \A k \in Workers : after[k] <= 1

\* What docs/loadtest.md says of "Consistency check FAILED": the balances in the
\* API no longer add up to what was deposited.
FailedCheckMeansLoss ==
  passed = "failed" => Total(bal, NumAccounts(opt)) # Funding * NumAccounts(opt)

\* A run ends, with a report or an error.
RunEnds == <>(at \in {"ok", "failed"})
=============================================================================
