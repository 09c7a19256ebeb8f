# Verification of wallet-go

TLA+ models of the wallet service in `src/`, the TLC runs that check them on
small instances, and TLAPS proofs of the properties that matter most.
`PROJECT.json` is the index: components, runs, the map from definitions to
source lines, hazards, findings and theorems.

## The system

wallet-go is a money-transfer API over Postgres. It has no stored balance: a
transfer appends a debit and a credit row to `entries`, and a balance is the
`SUM` of an account's rows. Deposits and withdrawals are transfers from and to
one system account.

| Part | Source | State | Operations that change it |
|---|---|---|---|
| Ledger, money, debit rule | `domain/account.go`, `domain/money.go`, `postgres/entry_repository.go` | `entries` | insert of an entry pair |
| Transfer use case | `app/transfer.go`, `app/cash.go`, `app/idempotency.go` | `idempotency_keys` | claim, replay, execute, append event, complete |
| Locking executor | `postgres/transfer_executor.go` | one transaction per request, row locks | every statement of `InTx` |
| Serializable executor | `postgres/serializable_executor.go` | one snapshot per attempt, attempt counter | the same statements, retry loop |
| Outbox and relay | `postgres/outbox.go`, `postgres/relay.go`, `cmd/relay` | `outbox`, the relays' sessions | append, claim, publish, mark, commit, backoff |
| Statement paging | `app/account.go` `Entries`, `ListByAccount` | reader's cursor | read a page |
| Accounts | `app/account.go`, `account_repository.go` | `accounts` | create, ensure system account |
| Elastic pool | `pool.go`, `pool_resize.go`, `pool_resize_policy.go` | current pool under an RWMutex, draining pools, streaks, cooldown | forwarded calls, tick, resize, close |
| HTTP API | `adapters/http` | requests on connections, token buckets, deadlines | middleware chain, handlers, panics |
| Wallet process | `cmd/wallet` | where `run` is, pool, signal, error to return | load, open, seed, serve, drain, close |
| Load generator | `cmd/loadtest` | workers, shared result, guard, balances | run a stage, judge it, ramp, check |

`cmd/wallet` wires these together: the HTTP handlers call the use cases, which
run in a transaction of one executor on a connection of the pool; `cmd/relay`
reads the outbox rows that the transfers committed. The models are composed
along the same lines where the parts share state: a statement reader with
either executor, the HTTP adapter with the process that starts and stops it.
Between the others the interface is narrow enough to be a set of outcomes
(what a handler can bring back from the database) or of arrivals (events that
become visible, commands that come in).

What makes it hard: handlers race for keys and rows; a handler can disappear
(deadline, cancelled request, lost connection, killed process) while its
session keeps its locks, and a COMMIT it sent can still take effect after the
caller was told of an error; clients retry with the same key; a serializable
attempt decides on a snapshot that is out of date when it commits; a relay can
die between Publish and COMMIT; events and entries get their order numbers
before they become visible; rejected requests take rate tokens and give them
back in any order; a shutdown races slow clients and slow queries. The
`hazards` of `PROJECT.json` list these at the lines where they bite.

## Modules

```
Ledger ── LedgerTheorems              (balances and pages, used by the proofs below)
  └─ TransferService
       ├─ WalletContract              (what the API promises)
       ├─ LockingTransfer ── LockingProofs ── LockingAnswers
       └─ SerializableTransfer ── SerializableProofs ── SerializableAnswers
Statement + LockingTransfer = LockingStatement       (proofs in LockingAnswers)
Statement + SerializableTransfer = SerializableStatement
Ledger ── Money
LockingTransfer + Money = LockingMoney               (proofs in LockingAnswers)
Backoff ── OutboxRelay, Accounts ── TableProofs
RateLimiter ── HttpApi ── WalletProcess ── WalletProcessProofs
ResizePolicy ── ElasticPool, LoadTest ── LoadAndPoolProofs
```

* **Ledger**: an entry, `Balance` (the SUM, as a recursive function over the
  log), `CanDebit`, `LockOrder`, the `EntryPair` of a transfer.
* **Money**: `Add` and `Sub` with their overflow checks on a machine integer
  that wraps (`Wrap`), the magnitude that `String` prints, and `DebitError`,
  CanDebit as it is computed from them. `MaxInt` stands for `math.MaxInt64`.
  **LockingMoney** puts it beside the transfers that are decided with it.
* **TransferService**: commands, the checks before the transaction
  (`InputError`), the fingerprint, the stored key row, `ReplayOutcome`. Both
  executors run this code.
* **WalletContract**: the abstract specification. One stored balance per
  account, a transfer at a single instant that moves the money, uses the key
  and announces the event; a refusal only for a reason that holds at that
  instant; a success names the transfer the key made; a caller that got an
  error may see its transfer applied later, once, or never.
* **LockingTransfer**: one action per statement of `Transfer` inside the
  locking `InTx`: `Begin`, `ClaimKey` (waits for an open claim of the same
  key), `Replay` (LoadKey and replay), `LockFirst`, `LockSecond`,
  `ReadBalance` (the three statements of the lock batch, which the server runs
  in order even if the handler is gone), `Decide` (existence, CanDebit, the
  insert batch), `AppendEvent`, `CompleteKey`, `Commit`, `Return`. `Abandon`
  is the loss of the handler; the session stays open until `Commit` or
  `Rollback`.
* **SerializableTransfer**: the same use case with a snapshot taken by the
  first statement, no row locks, `Conflict` (SQLSTATE 40001 or 40P01, at any
  statement), the bounded retry loop, and a new transfer id per attempt.
  Postgres is external: `Serializable` states what the isolation level
  promises of the set of committed transfers, not how conflicts are tracked.
  A claim that meets a committed row outside its snapshot can only conflict.
* **OutboxRelay**: `Tick`, `Select` (oldest due row, SKIP LOCKED),
  `PublishOk`, `PublishError` (with or without the event having arrived),
  `Mark`, `Commit`, `Die`, `LateCommit`, `EndSession`. Event numbers are
  `created_at`; they become visible in any order. `sent` and `lapses` are
  histories per event: its deliveries, and its failed Publishes and deliveries
  that were rolled back.
* **Backoff**: the ceiling of `nextAttempt`: a shift in a word of `Bits` bits,
  read as signed, then capped. `Doubling` is the reference without overflow,
  `Two[n]` is 2^n.
* **Statement**: a client that pages through a statement (`ReadPage` is
  `AccountService.Entries` over `ListByAccount`), composed with either executor
  in **LockingStatement** and **SerializableStatement**, whose `entries` it
  reads.
* **Accounts**: `Start`, `InsertSystem`, `SelectSystem`, `Fall` of a service
  instance; `Create`, `InsertCustomer`, `FindByID`, `Fail` of a request;
  `Arrive`, a statement that runs after its caller gave up.
* **ResizePolicy**: `decide` (`Count`, `Decision`, `Decided`) and
  `nextMaxConns`. Streaks are counted up to the hysteresis and times up to the
  cooldown, beyond which the code does not tell them apart.
* **ElasticPool**: `Call`, `RLock`, `Acquire`, `GiveUp`, `Detach`, `Release`
  are the steps of a forwarding method and of the connection that `Begin` or
  `Query` hands out; `Tick`, `Built`, `BuildFailed`, `Swap` the resize loop;
  `CloseOld`, `Drained` the goroutine of an old pool; `Stop`, `LoopExits`,
  `CloseCurrent` the two halves of Close. The RWMutex is Go's: a waiting
  writer holds back new readers, and its Unlock admits those that wait.
* **RateLimiter**: `rate.Limiter` as the middleware uses it (`Reserve`,
  `Cancel`, refill), external code. Amounts are in ticks, a token is
  `TokenTicks` of them; times are relative to now, so a bucket needs no clock.
* **HttpApi**: a connection carries one request through `Connect`, `Dispatch`
  (outer middleware, routing, apiKeyAuth), `Admit` or `HoldReservation`, `Delay`
  and `CancelReservation` (rateLimit, whose Reserve, Delay and Cancel each read
  the clock and are steps of their own),
  `Serve` (requireWriteScope), `BodyRead`, `Acquire`, `Finish`; it can end early in
  `HeaderTimesOut`, `BodyTimesOut`, `BadInput`, `AcquireFails`,
  `DeadlineExceeded` or `Panic`. `Chain` is the order of the outer middleware, from
  which `Resumes` derives who sees the answer of a recovered panic. `ideal` is
  a history variable: a bucket that only admitted requests drain, those whose
  reservation falls due before its Delay is read at the moment it falls due
  (`FallingDue`).
* **WalletProcess**: `run` of `cmd/wallet` step by step (`LoadConfig`,
  `OpenPool`, `EnsureSystem`, `Shutdown`, `Drained` or `DrainTimesOut`,
  `ClosePool`, `PoolClosed`), `Signal`, `ListenerFails`, and the connections,
  which are served while it runs.
* **LoadTest**: `CheckOptions`, `Setup`, one `Loop`, `Send`, `Return`, `Merge` per worker,
  `Trip` of the resource guard, `StageEnds`, `Judge` with `Ramp`, `Recover`,
  `ReadBalance`, `Report`. The API under load is external: a transfer is
  applied, refused, or left open and applied later (`Land`).

Definitions named as variants (`ClaimKeyNoWait`, `SourceFirst`,
`CandidatesUnlocked` ...) are plausible mistakes in the same code. The
`mutants` of `PROJECT.json` put each one in the place of the real definition
and name the property that then fails.

## Runs

| Run | Instance | Shows |
|---|---|---|
| `locking` | 3 requests out of 8 commands, 3 accounts and a missing one, a statement reader with pages of one entry, 358k states | `NonNegative`, `ExactlyOnce`, `TruthfulAnswers`, `NoWaitCycle`, `FreshBalance`; every behaviour is one of `WalletContract`; `StablePages`, `StatementComplete`; `DebitsJudged`; `TransactionsEnd`: the waits are finite without any deadline |
| `serializable` | a deposit, a transfer and each of 5 third requests, 2 attempts each, 355k states | `TypeOK`, `NonNegative`, `ExactlyOnce`, `TruthfulAnswers`, `ConflictCommitsNothing`, `WalletContract`; `RequestsEnd`: the retry loop returns |
| `relay` | 3 events, 2 relays, batch of 2, 2 failures, 238k states | `NeverLost`, `OneSessionPerEvent`, `DuplicatesHaveCause`, `BackoffCapped`, `PublishedIsFinal`, `EventuallyPublished` |
| `relay_failed_publish` | the same | a finding, see below |
| `serializable_statement` | 3 requests and a reader | a finding, see below |
| `accounts_safety` | 2 instances with 3 starts, 2 requests, 143k states | `OneSystemAccount`, `CreateAnswers` |
| `pool` | 2 callers, 2 pools at a time, 73k states | `CallsOnOpenPool`, `NoLeak`, `ResizeJustified`, `CallsEnd`, `CloseCompletes` |
| `pool_ceiling` | 4 callers, 3 pools at a time | a finding, see below |
| `server` | 2 connections, 7 configurations, a tick of 5 s, 558k states | `RateBound`, `AnswersLogged`, `DrainedBeforeClose`, `ShutdownEnds` |
| `request_metrics` | the same | a finding, see below |
| `loadtest` | 1 and 2 workers, 2 requests per worker and stage, 7 option sets, 688k states | `TypeOK`, `JudgedOnAll`, `StopsWhenTripped`, `RunEnds` |
| `loadtest_alarm` | the same | a finding, see below |

**Bounds.** Three requests are one to fund an account and two to compete for
it, or an original, its retry and a stranger with the same key. The commands
contain a deposit, a withdrawal, both directions of a pair, a key used with
two bodies, a missing account and both inputs refused early. The system
account has the middle id, so deposits and withdrawals lock in both orders.
Two attempts are enough for a first attempt to leave something behind and for
the loop to give up; in `serializable` two of the three requests are fixed, a
deposit and a transfer that spends it, and the third is the transfer's retry, a
competitor, a stranger with its key, a missing account or a refused input.
Three events and a batch of two make a poll end with work
left; two failures can hit both relays, or a relay and its retry. `MaxFailures` and
`MaxAttempts` are the only counters that are cut off (the code uses 10
attempts). In the ledger, amounts are mathematical integers, as Postgres sums
them; `DebitsJudged` justifies this for the one place where Go computes with
a balance (CanDebit). TLC tries it on 6-bit integers, the proof covers every width. The
backoff runs with a word of 16 bits, 40 for the base and 2400 for the cap, the
code's times in units of 25 ms; a shift by 9 is below 2^15 and a multiple of
2^12, so the constants meet `BackoffAssumption`. The shift overflows, turns
negative and becomes zero within the further failures of a waiting row that `BackoffCapped`
enumerates, and stays zero from there on. The pool
grows from 1 to 3 connections with a step of 3, so both clamps apply; one of
three and two of three connections lie between the watermarks; the cooldown of
3 ticks outlasts the hysteresis of 2, as in the code. `Slots` bounds the pools
that exist at one time: a tick that would start a resize waits for a free one.

The reader's account is the system account, which some transfers lock first
and others second. `MaxStarts` bounds the starts of instances; `AllDown` is
the stuttering step when they are used up.

In the server a tick is 5 s, so that the header takes one tick, a body two, a
request one once it is served and Shutdown two, as in the code. With a burst
of one and a token per tick, two connections already overlap as two
reservations, of which the earlier one cancels before or after the later.
`MaxDebt` bounds the tokens that a bucket may owe when a request arrives. Of
the seven configurations two start: one with a limit and a read key, one without
either; the others are refused by one check each. In the load generator,
`MaxWorkers` is the largest `-max` of the option sets, `PerStage` bounds the
requests of a worker in a stage, `MaxPolls` the polls of
the recovery loop and `Funding` is what each account starts with; an
`ErrLimit` of 50 percent makes one bad request of two pass and two of two
break the stage. Four of the option sets are refused, the
others ramp up, start at the maximum, or only read.

**Symmetry** is used for requests, instances and callers in runs without liveness
(`serializable_statement`, `accounts_safety`, `pool_ceiling`); transfers are
compared by identity and never ordered. `locking`, which also checks liveness, starts
from one order of each choice of commands instead (`Sorted`): requests differ
in their commands only, so every other behaviour is a renaming of one of these.

**Fairness.** Weak fairness of `Progress(r)`: the Go scheduler runs every
handler, Postgres runs every session that is not blocked, and ends a session
whose client is gone. Arrivals, `Abandon` and `Conflict` alone are not assumed
to happen. In the pool, a call gets a connection or meets its deadline
(`withAcquireTimeout`, or the request's deadline around `Begin`), transactions
and rows end, goroutines run, and the loop's `select`, which picks at random
among ready cases, takes `done` in the end (strong fairness); ticks, resizes
and Close are not assumed to happen. The relay's ticker keeps firing, backoffs are bounded by
`relayMaxBackoff`, and failures are finitely many by `MaxFailures`. In the
server, `run`, the clock and those steps of a goroutine that need neither
client nor database are fair (`Forced`: timeouts, deadlines, the middleware);
nothing is assumed of clients, queries, signals or the listener, so
`ShutdownEnds` holds whatever they do. In the load generator every request
returns, because the HTTP client has a timeout. Before its setup it asks the
database for its settings without a deadline (`captureEnvironment`,
`cmd/loadtest/main.go:593`), which is not modelled: `RunEnds` takes it to
return.

**End of a run.** Transfers are finite: `AllClosed` is the stuttering step of a
system in which every request is answered, so TLC still reports real
deadlocks.

## What the two strategies promise differently

Under the locking strategy every refusal is justified at one instant
(`FreshBalance` at the moment of `Decide`). Under the serializable strategy a
refusal is decided on a snapshot and the transaction is rolled back without
validation, so `SerializableTransfer` maps refusals to answers that promise
nothing about balances; `ConflictCommitsNothing` still says that they
committed nothing. `StablePages` holds for the locking strategy only: row
locks are taken before entry ids are drawn.

## Findings

`serializable_statement`: `docs/plano-execucao-wallet-go.md:210-211` prescribes
a cursor because offsets give unstable pages. Under the serializable strategy
two credits of one account from different sources may commit in the opposite
order of their ids (`serializable_executor.go:135-137`), so a page that was
read can gain an entry and a client that has moved on never gets it.

`pool_ceiling`: ADR 6 (`docs/adr/0006-rate-limiting-per-api-key.md:9-11`) calls
`WALLET_DB_MAX_CONNS` the real ceiling on concurrent database work. With an
elastic pool, transactions on the draining old pool and a full new pool add up
to more (`pool_resize.go:153`).

`relay_failed_publish`: the comment at
`src/internal/adapters/postgres/relay_test.go:101-104` says that a Publisher
that returns an error takes the rollback path of a killed process and nothing
of the attempt is persisted. `processOne` (`relay.go:118-129`) commits one more
attempt and a new `next_attempt_at`. Redelivery, which the test is about,
holds either way.

`request_metrics`: `http/metrics.go:58` says that `httpMetrics` records every
request. It sits inside `recoverer` (`router.go:53`) and counts after the
handler returns, so a recovered panic is answered 500 and logged
(`AnswersLogged` holds), and not counted.

`loadtest_alarm`: `docs/loadtest.md:143` reads a failed consistency check as
money created or lost. The balances are read one by one
(`cmd/loadtest/main.go:731-738`), and a transfer that the client gave up on may
commit between two reads: the check fails while the balances in the API add up
to the deposits. `FailedChecksAreCaused` proves that there is no other way for
it to fail as long as the API keeps its ledger.

## Notes on the code and its comments

Smaller differences between comments and code that the models had to settle;
each is modelled as the code behaves.

* `ratelimit.go:36-38` says that a cancelled reservation does not consume a
  future token. `Reservation.Cancel` gives back only what was not reserved
  after it: of two rejected requests that overlap, the first to cancel may
  lose its token. The limit is then stricter than configured, never laxer
  (`RateBound`).
* `cmd/wallet/main.go:173-176` says that the pool is closed after the last
  request. This holds when `run` returns nil (`DrainedBeforeClose`); after a
  listener error or when Shutdown runs into its 10 s, requests are still in
  flight while the pool closes, and those that ask it for a connection are
  answered 500.
* `Money.Sub` refuses to subtract the least integer from anything, also where
  the difference would fit; amounts are positive, so nothing depends on it.

## Proofs

All theorems hold for every value of the constants: any set of accounts,
requests, keys and commands, any number of attempts, relays, instances,
callers or connections. Assumptions on constants: account ids are integers
(they are compared), the system account exists, commands are well typed
(`AccountsAssumption`, `CommandsAssumption`); a request's transfer id is its own
(`RequestsAssumption`), or its own and the attempt's (`AttemptsAssumption`,
which also asks for at least one attempt); a page has room for an entry of an
existing account (`StatementAssumption`); the assumptions of the other parts
are named with them.

**LedgerTheorems** has what the other modules keep needing. The recursive
`Balance` is an integer, empty ledgers sum to zero, one more entry moves its own
account only, and an entry pair moves the amount from source to destination
(`BalancePair`) and adds one debit and one credit, numbered in order
(`PairMoves`). The first `n` of a finite set of numbers exist, and whatever is
not among them is larger (`FirstAll`), so a page is the next part of the
statement after the cursor (`PageFacts`). The induction over the log is
`NatSetInduction`, natural induction for membership in a set, derived from the
well-foundedness of `<`.

### Locking strategy

* **LockingProofs** proves `TypeCorrect`, `NeverNegative` and
  `BalanceStaysFresh`. `NonNegative` is not inductive: a commit appends entries
  that were judged several steps earlier. The invariant `Safety` adds `Stages`
  (what a session at each statement has written, locked and checked) and
  `FreshBalance` (row locks are exclusive and a session that has read the
  balance holds both rows). The argument: a commit of another session changes
  only balances of rows which that session holds, so never the one that this
  session relies on (`OthersBalance`); hence CanDebit, true of the balance
  read, is true of the committed balance at COMMIT (`CommitBalances`).
* It also proves `LockingImplements`: `Spec => ImplementsContract`.
  `Bookkeeping` adds what the contract needs: an open claim is the only row
  with its key, committed or not (`KeysFree`); committed rows are completed
  and only committed transfers are announced; a session about to answer has
  its row (`Owned`). Commit maps to `Apply`, Return to `Answer`, the refusals
  to `Refuse`, Abandon to `GiveUp`, everything else to stuttering.
* **LockingAnswers** proves `KeysActOnce` (`ExactlyOnce`) and `AnswersAreTrue`
  (`TruthfulAnswers`). They speak of rows that a request finds later, so the
  invariant `Books` names the author of a stored row (`Made`: it has committed,
  and was told "created" or nothing definite). An open claim is alone with its
  key (`KeysFree`), so a commit adds the first row of its key, the first
  entries of its transfer and its first event together (`CommitIsNew`,
  `CommitMoves`); rows are only added, so what was told stays true.
* `WaitsHaveNoCircle` (`NoWaitCycle`): no set of sessions waits within itself,
  for any number of requests. `Waits` says that rows are locked in the lock
  batch only, the first id first, and that the requests which have arrived are
  finitely many. In a set that waits within itself, whoever waits for a key
  waits for a session in its lock batch, and whoever waits for a row waits for
  a session that holds its first row and waits for its second, the larger id
  (`WaitingFor`, `IdsAscend`); so the one that waits for the largest second row
  would wait for one that waits for a larger still (`NoCircle`).
* `PagesStayRead` (`StablePages`) and `StatementsAreWhole`
  (`StatementComplete`) are about a reader beside the transfers. `Sequence`
  says that the ids a session drew for its entries lie above every committed
  id of its two accounts: it has held both rows since before it drew them, so
  nobody else can commit to these accounts meanwhile, and whoever locks them
  next draws larger ids. `Reading` says that the reader has been given a lower
  part of the statement. A commit then adds only above the cursor (`NewIds`),
  and a page only extends the part (`PageRead`).
* `MoneyIsExact` and `DebitRuleIsExact` hold for any `MaxInt`
  (`MoneyAssumption`): a wrapped sum lies on the wrong side of its first
  operand, which is what Add looks for. `DebitsAreJudged` follows with
  `Stages`.

### Serializable strategy

**SerializableProofs** has the invariant `Inv` and its steps,
**SerializableAnswers** the theorems: `SerializableTypes`,
`SerializableNeverNegative`, `SerializableKeysActOnce`,
`SerializableAnswersAreTrue`, `ConflictsAreSafe` and `SerializableImplements`.
Everything rests on what Postgres promises, that the committed transfers have a
serial order which agrees with what each one read (`Serial`); how it tracks
conflicts is not used.

* `Sessions` and `Snapshots`: what an attempt at each statement has written,
  and that the balance it judged is the one that its snapshot shows, a prefix
  of the log that later commits do not change.
* `Log`: every entry is the debit or the credit of the last attempt of its
  request, which did not see it (`Posted`); a transfer has one entry per
  account (`Single`); a snapshot shows all of a transfer or nothing (`Whole`).
* `Books`: as under the locking strategy, with the transfer id of the attempt.
  A conflict leaves the attempt's id behind, so a row or entry of an abandoned
  attempt would show as one whose author is elsewhere.

`SerializableNeverNegative` has no fresh balance to lean on. Of the transfers
that debit an account, take the last one in the serial order (`LastDebit`): it
saw all the other debits, perhaps not all credits, and CanDebit held of what it
saw; so the sum of all entries is at least what it left
(`SerialMeansNonNegative`). `SerializableImplements` maps Commit to `Apply`; a
refusal was decided on a snapshot and maps to an answer that promises nothing
about balances.

### Outbox and accounts

**TableProofs** has the two tables that are worked on outside the transfers'
transactions.

* Outbox: `TypeCorrect`, `NothingIsLost`, `EventsAreExclusive`,
  `DuplicatesAreCaused` and the action property `PublishedStays` for any
  relays, events, batches and failures (`RelayAssumption`). `Claims` ties the
  row lock to the program counter, `Acked` says that a session which will mark
  its row has delivered it, and `Excess` that one delivery of an event beyond its own
  lapses belongs to a published row or to a session that is about to publish it
  (`Delivering`): the error, or the end of the session without COMMIT, pays for
  the delivery that is going to be repeated, and for no other event's.
* Backoff: `CeilingIsCappedDoubling` for every number of attempts, and with it
  `WaitsAreCapped` (`BackoffCapped`). This is not true of every base, cap and
  width: with a base of 5, a cap of 7 and a word of 4 bits the shift wraps to a
  positive 4, below the cap. `BackoffAssumption` therefore states what makes
  the code's numbers safe: some shift that does not overflow yet makes the base
  a multiple of a power of two above the cap. One second is 5^9 * 2^9
  nanoseconds; shifted by 27 it is below 2^63 and a multiple of 2^36, which is
  more than the 60 seconds of the cap. The argument: up to that shift the word
  holds the true product (`ShiftedWithoutOverflow`); from there on it stays a
  multiple of that power, also after it has wrapped (`ShiftedMultiple`, since
  the word's 2^`Bits` is a multiple of it too), so read as signed it is zero,
  negative or above the cap, and `Ceiling` takes the cap in all three cases.
* Accounts: `OneSystemForAll` (`OneSystemAccount`) and `CreateTellsTruth`
  (`CreateAnswers`) for any instances, starts and requests
  (`OwnersAssumption`). Rows may be inserted by callers that are gone, so the
  invariant follows every row to where it came from. `UniqueRows`: one row per
  owner and kind; `Used`: the system account that an instance found is still
  there; `Drew`: no two requests have the same id; `Inserted`: a customer row,
  in the table or still on its way, is that of a request past its insert, a
  request that created or goes on to find its account has its row there, and
  one that was told the account exists has another request's row of that owner.

### Server, pool and load generator

* **WalletProcessProofs** proves `TypeCorrect`, `RateBounded`,
  `AnswersAreLogged` and `DrainsBeforeClose` for any
  connections, configurations, rates and timeouts (`TokenAssumption`,
  `HttpAssumption`, `ProcessAssumption`). `RateBound` speaks of a bucket that
  is drained by admitted requests only, and Cancel raises the real one, so the
  two must be compared while reservations are pending. `Bucket` does it: the
  real bucket holds no more than the ideal one; it is in debt for every
  pending reservation; pending reservations lie at least a token apart, in
  time, and none after the last event; and each is at least a token after the
  moment at which the ideal bucket is empty. A Cancel that gives something
  back finds every other pending reservation a token earlier (`CancelBuckets`),
  so the refund never covers what another request still holds. A reservation
  that falls due while it is held is no longer pending, and the ideal bucket is
  charged for it; since they lie a token apart, at most one falls due per tick
  (`OneFallsDue`, `TickBuckets`).
  `DrainedBeforeClose` needs that no request starts while `run` is about to
  return nil, and that the pool closes in `run` only (`Lifecycle`).
* **LoadAndPoolProofs** proves, of the pool, `PoolTypeCorrect`,
  `NoCallOnClosedPool`, `NoPoolLeaks` and `EveryResizeJustified` for any
  callers, pools, limits, watermarks, hysteresis, cooldown and step
  (`PolicyAssumption`, `SlotsAssumption`). `Pools` adds that the current pool
  is open until Close, that the pool to install is another one, and that Close
  has joined the loop; `Streaks` says that a streak of k is backed by the last
  k samples of this pool and that a resize under way has used its streak up,
  which is why the samples of one pool never justify a resize of the next.
* Of the load generator it proves `LoadTypeCorrect` (`TypeOK`),
  `VerdictsCountAll` (`JudgedOnAll`), `GuardStopsWorkers`
  (`StopsWhenTripped`) and `FailedChecksAreCaused` for any
  option sets, valid or not, any number of workers, requests per stage, polls,
  accounts and funding (`LoadAssumption`, which asks for integers and that
  `MaxWorkers` bounds every `-max`). `Total` adds up a function over 1 .. n;
  a change of one value changes the total by as much (`TotalAdded`), so moving
  a cent between two accounts keeps it (`TransferConserves`). The invariant
  `LoadInvariant` has four parts beside the types. `Places`: workers exist in a
  stage only and have all finished when it is judged. `Counts`: a worker has
  counted what it sent but for the request it waits for, and the stage's
  result is the total over the workers that have merged, hence over all of
  them in the end. `Guarded`: a worker that is about to send has sent nothing
  since the guard tripped; it looked before, and will look again. `Deposits`:
  accounts are funded in order, the balances then always add up to the
  deposits, and the running sum of the check is the total of the balances
  before the next one to read, unless an open transfer has landed meanwhile.

### Only model-checked

* Liveness (`TransactionsEnd`, `RequestsEnd`, `EventuallyPublished`,
  `CallsEnd`, `CloseCompletes`, `ShutdownEnds`, `RunEnds`): fairness and
  ENABLED are outside the proof system.
* The findings: a counterexample needs one instance.

## Not modelled

* Parsing and encoding of bodies, paths, cursors and single environment
  variables: a request or configuration is good or bad in a given way
  (`wellFormed` for what loadConfig refuses in a single variable).
* The relay's configuration, metrics server and signal handling: the polling
  loop is modelled, and its end at any point is a death (`Die`).
* Histograms, gauges and log wording: nothing reads them back.
* Grants and constraints that no statement of the program can meet.
* The load generator's pacing, ramp delays, random choice of pairs beyond the
  set they are chosen from, environment capture and report files.
* Wall-clock lengths: each timeout is a count of ticks in the server model and
  a step that may happen elsewhere. `readyz`'s own limit of 2 s is shorter
  than a tick of the request timeout and is one of its outcomes.
* `http.ErrAbortHandler`, which `recoverer` passes on: no handler raises it.
* `WriteTimeout` and `IdleTimeout`: an answer that cannot be written changes
  nothing in the process, and Shutdown closes idle connections itself.
