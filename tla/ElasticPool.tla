----------------------------- MODULE ElasticPool -----------------------------
(***************************************************************************)
(* The elastic connection pool of cmd/wallet: database calls that hold the *)
(* read lock while they work on the current pgxpool, a resizer that builds *)
(* another pgxpool, swaps it in under the write lock and lets the old one  *)
(* drain, and Close, which joins the resizer first.                        *)
(*                                                                         *)
(* A pgxpool is a slot of Slots; a closed slot can be built again.  Begin, *)
(* Query, QueryRow and SendBatch return with a connection that outlives    *)
(* the call ("detached"); Exec and Ping give it back inside.  The RWMutex  *)
(* is Go's: a waiting writer holds back new readers, and Unlock admits     *)
(* every reader that waits.                                                *)
(***************************************************************************)
EXTENDS ResizePolicy, Sequences, FiniteSets

CONSTANTS Callers,  \* goroutines that use the pool
          Slots     \* bound: pgxpools that exist at one time

ASSUME SlotsAssumption == IsFiniteSet(Callers) /\ IsFiniteSet(Slots) /\ Cardinality(Slots) >= 2

VARIABLES
  current,  \* Pool.pool
  phase,    \* phase[s]: "absent", "open", "retired" (swapped out), "closing"
  size,     \* size[s]: MaxConns of s
  call,     \* call[c]: "idle", "rlock", "acquire", "inside" or "detached"
  on,       \* on[c]: the pgxpool that c uses
  resizer,  \* "select", "build", "lock" or "stopped"
  newPool,  \* the pgxpool that the resizer has built
  target,   \* the size that the last tick decided on
  policy,   \* resizeState
  closer,   \* Close: "no", "stopping" (joins the resizer) or "closed"
  samples   \* history: the last HysteresisTicks samples of the current pool

poolVars == <<current, phase, size>>
callVars == <<call, on>>
loopVars == <<resizer, newPool, target, policy, samples>>
elasticVars == <<current, phase, size, call, on, resizer, newPool, target,
                 policy, closer, samples>>

-----------------------------------------------------------------------------
\* Connections of s that are checked out.
Acquired(s) == Cardinality({c \in Callers : on[c] = s /\ call[c] \in {"inside", "detached"}})

\* c holds the read lock.
Reading(c) == call[c] \in {"acquire", "inside"}

PoolInit ==
  /\ current \in Slots
  /\ phase = [s \in Slots |-> IF s = current THEN "open" ELSE "absent"]
  /\ size = [s \in Slots |-> IF s = current THEN MinConns ELSE 0]
  /\ call = [c \in Callers |-> "idle"]
  /\ on = [c \in Callers |-> current]
  /\ resizer = "select"
  /\ newPool = current
  /\ target = MinConns
  /\ policy = FirstState
  /\ closer = "no"
  /\ samples = << >>

-----------------------------------------------------------------------------
\* A forwarding method is called.
Call(c) ==
  /\ call[c] = "idle"
  /\ call' = [call EXCEPT ![c] = "rlock"]
  /\ UNCHANGED <<on, poolVars, loopVars, closer>>

\* RLock returns unless a writer waits; the pool is read under it.
RLock(c) ==
  /\ call[c] = "rlock" /\ resizer # "lock"
  /\ call' = [call EXCEPT ![c] = "acquire"]
  /\ on' = [on EXCEPT ![c] = current]
  /\ UNCHANGED <<poolVars, loopVars, closer>>

Acquire(c) ==
  /\ call[c] = "acquire"
  /\ phase[on[c]] = "open" /\ Acquired(on[c]) < size[on[c]]
  /\ call' = [call EXCEPT ![c] = "inside"]
  /\ UNCHANGED <<on, poolVars, loopVars, closer>>

\* Variant: no deadline on the wait for a connection.
GiveUpNoDeadline(c) ==
  /\ call[c] = "acquire" /\ phase[on[c]] # "open"
  /\ call' = [call EXCEPT ![c] = "idle"]
  /\ UNCHANGED <<on, poolVars, loopVars, closer>>

\* The call fails: its deadline has passed, or the pgxpool is closed.
GiveUp(c) ==
  /\ call[c] = "acquire"
  /\ call' = [call EXCEPT ![c] = "idle"]
  /\ UNCHANGED <<on, poolVars, loopVars, closer>>

\* Begin, Query, QueryRow or SendBatch returns: RUnlock, connection kept.
Detach(c) ==
  /\ call[c] = "inside"
  /\ call' = [call EXCEPT ![c] = "detached"]
  /\ UNCHANGED <<on, poolVars, loopVars, closer>>

\* The connection goes back: Exec returns, or the transaction or the rows end.
Release(c) ==
  /\ call[c] \in {"inside", "detached"}
  /\ call' = [call EXCEPT ![c] = "idle"]
  /\ UNCHANGED <<on, poolVars, loopVars, closer>>

-----------------------------------------------------------------------------
\* The history after one more sample.
Recent(old, sample) ==
  Append(IF Len(old) < HysteresisTicks THEN old ELSE Tail(old), sample)

\* tick: sample, decide, and start a resize if the size would change.  Bound:
\* a resize needs a free slot.
Tick(elapsed) ==
  /\ resizer = "select"
  /\ LET now == size[current]
         sample == Sample(Acquired(current), now)
         counted == Count(sample, policy, elapsed)
         next == NextMaxConns(now, Decision(now, counted))
     IN  /\ next # now => \E s \in Slots : phase[s] = "absent"
         /\ policy' = Decided(now, counted)
         /\ target' = next
         /\ resizer' = IF next # now THEN "build" ELSE "select"
         /\ samples' = Recent(samples, sample)
  /\ UNCHANGED <<newPool, poolVars, callVars, closer>>

\* resize: NewWithConfig and Ping, outside the lock; then Lock is called.
Built ==
  /\ resizer = "build"
  /\ \E s \in Slots :
       /\ phase[s] = "absent"
       /\ phase' = [phase EXCEPT ![s] = "open"]
       /\ size' = [size EXCEPT ![s] = target]
       /\ newPool' = s
  /\ resizer' = "lock"
  /\ UNCHANGED <<current, callVars, target, policy, closer, samples>>

\* Variant: the new pool is not closed when its Ping fails.
BuildFailedOpen ==
  /\ resizer = "build"
  /\ \E s \in Slots : phase[s] = "absent" /\ phase' = [phase EXCEPT ![s] = "open"]
  /\ resizer' = "select"
  /\ UNCHANGED <<current, size, callVars, newPool, target, policy, closer, samples>>

\* The new pool cannot be made or pinged: it is closed and the resize given up.
BuildFailed ==
  /\ resizer = "build"
  /\ resizer' = "select"
  /\ UNCHANGED <<poolVars, callVars, newPool, target, policy, closer, samples>>

\* Variant: an atomic pointer, which waits for no reader.
SwapPointer ==
  /\ resizer = "lock"
  /\ current' = newPool
  /\ phase' = [phase EXCEPT ![current] = "retired"]
  /\ resizer' = "select"
  /\ samples' = << >>
  /\ UNCHANGED <<size, callVars, newPool, target, policy, closer>>

\* The write lock is granted when no call is inside; the swap; Unlock, which
\* lets the waiting calls in.  The old pool is left to a goroutine.
Swap ==
  /\ resizer = "lock" /\ \A c \in Callers : ~ Reading(c)
  /\ current' = newPool
  /\ phase' = [phase EXCEPT ![current] = "retired"]
  /\ call' = [c \in Callers |-> IF call[c] = "rlock" THEN "acquire" ELSE call[c]]
  /\ on' = [c \in Callers |-> IF call[c] = "rlock" THEN newPool ELSE on[c]]
  /\ resizer' = "select"
  /\ samples' = << >>
  /\ UNCHANGED <<size, newPool, target, policy, closer>>

\* go old.Close(): no new connections, and it waits for those checked out.
CloseOld(s) ==
  /\ phase[s] = "retired"
  /\ phase' = [phase EXCEPT ![s] = "closing"]
  /\ UNCHANGED <<current, size, callVars, loopVars, closer>>

\* The last connection of a closing pgxpool is back.
Drained(s) ==
  /\ phase[s] = "closing" /\ Acquired(s) = 0
  /\ phase' = [phase EXCEPT ![s] = "absent"]
  /\ size' = [size EXCEPT ![s] = 0]
  /\ UNCHANGED <<current, callVars, loopVars, closer>>

-----------------------------------------------------------------------------
\* Close, first half: stop() closes the done channel and waits for the loop.
Stop ==
  /\ closer = "no"
  /\ closer' = "stopping"
  /\ UNCHANGED <<poolVars, callVars, loopVars>>

\* Variant: the done channel is closed after the pool, not before.
LoopExitsLate ==
  /\ resizer = "select" /\ closer = "closed"
  /\ resizer' = "stopped"
  /\ UNCHANGED <<poolVars, callVars, newPool, target, policy, closer, samples>>

LoopExits ==
  /\ resizer = "select" /\ closer = "stopping"
  /\ resizer' = "stopped"
  /\ UNCHANGED <<poolVars, callVars, newPool, target, policy, closer, samples>>

\* Close, second half: the loop has exited; the current pgxpool is closed.
CloseCurrent ==
  /\ closer = "stopping" /\ resizer = "stopped"
  /\ phase' = [phase EXCEPT ![current] = "closing"]
  /\ closer' = "closed"
  /\ UNCHANGED <<current, size, callVars, loopVars>>

PoolNext ==
  \/ \E c \in Callers : \/ Call(c) \/ RLock(c) \/ Acquire(c) \/ GiveUp(c)
                         \/ Detach(c) \/ Release(c)
  \/ \E elapsed \in 0 .. Cooldown : Tick(elapsed)
  \/ Built \/ BuildFailed \/ Swap
  \/ \E s \in Slots : CloseOld(s) \/ Drained(s)
  \/ Stop \/ LoopExits \/ CloseCurrent

PoolSpec == PoolInit /\ [][PoolNext]_elasticVars

\* Deadlines fire, transactions end, goroutines run; a select that keeps
\* finding done ready takes it in the end.
FairPoolSpec ==
  /\ PoolSpec
  /\ \A c \in Callers : /\ WF_elasticVars(RLock(c)) /\ WF_elasticVars(Release(c))
                        /\ WF_elasticVars(Acquire(c) \/ GiveUp(c))
  /\ WF_elasticVars(Built \/ BuildFailed) /\ WF_elasticVars(Swap)
  /\ \A s \in Slots : WF_elasticVars(CloseOld(s)) /\ WF_elasticVars(Drained(s))
  /\ SF_elasticVars(LoopExits) /\ WF_elasticVars(CloseCurrent)

-----------------------------------------------------------------------------
\* The pools, the calls and the loop have their types; no pool is larger than
\* the ceiling.
PoolTypeOK ==
  /\ current \in Slots /\ newPool \in Slots
  /\ phase \in [Slots -> {"absent", "open", "retired", "closing"}]
  /\ size \in [Slots -> {0} \cup MinConns .. MaxConns]
  /\ target \in MinConns .. MaxConns
  /\ call \in [Callers -> {"idle", "rlock", "acquire", "inside", "detached"}]
  /\ on \in [Callers -> Slots]
  /\ resizer \in {"select", "build", "lock", "stopped"}
  /\ policy \in PolicyStates
  /\ closer \in {"no", "stopping", "closed"}
  /\ samples \in Seq(Kinds)

\* A call never meets a closed pool because of a resize: whoever is inside a
\* forwarding method works on the current pool, which is open until Close
\* (the read lock is held for the whole call).
CallsOnOpenPool ==
  \A c \in Callers : Reading(c) =>
    /\ on[c] = current
    /\ closer # "closed" => phase[current] = "open"

\* Every pool ever built is in use or on its way to being closed, whatever
\* fails and however Close races a resize: the only open pools are the current
\* one and the one about to replace it, and none once Close is done.
NoLeak ==
  \A s \in Slots : phase[s] = "open" =>
    /\ s = current \/ (s = newPool /\ resizer = "lock")
    /\ closer # "closed"

\* A resize is backed by HysteresisTicks consecutive samples of the pool that
\* it replaces, all on the side it reacts to; none was taken of an earlier pool,
\* and none between the watermarks was skipped (decide's streaks, tick).
ResizeJustified ==
  resizer \in {"build", "lock"} =>
    samples = [i \in 1 .. HysteresisTicks |->
                 IF target > size[current] THEN "high" ELSE "low"]

\* Every call gets past the lock and ends: neither a waiting writer nor a
\* saturated pool blocks it for ever.
CallsEnd == \A c \in Callers : call[c] = "rlock" ~> call[c] = "idle"

\* Close returns with the loop joined, and every pool, also those that were
\* still draining, is closed.
CloseCompletes == closer = "stopping" ~> \A s \in Slots : phase[s] = "absent"

\* What ADR 6 says of MaxConns: the ceiling on concurrent database work.
MaxConnsIsCeiling ==
  Cardinality({c \in Callers : call[c] \in {"inside", "detached"}}) <= MaxConns
=============================================================================
