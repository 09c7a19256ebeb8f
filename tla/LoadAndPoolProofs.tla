------------------------- MODULE LoadAndPoolProofs -------------------------
(***************************************************************************)
(* The load generator: stages are judged on all they sent, the guard stops *)
(* the workers and the consistency check raises no false alarm, for any    *)
(* options, workers and requests.  The connection pool: types and size     *)
(* limits, no call on a closed pool, no pool forgotten, no resize without  *)
(* its samples, for any callers, slots and policy parameters.              *)
(***************************************************************************)
EXTENDS LoadTest, ElasticPool, WellFoundedInduction, TLAPS

\* The current pool is open until Close, a pool to install is another open
\* one, calls that hold the read lock use the current one, and Close has
\* joined the loop.
Pools ==
  /\ \A c \in Callers : Reading(c) => on[c] = current
  /\ closer # "closed" => phase[current] = "open"
  /\ closer = "closed" => resizer = "stopped"
  /\ resizer = "lock" => newPool # current /\ phase[newPool] = "open"
  /\ \A s \in Slots : phase[s] = "open" => size[s] # 0
  /\ NoLeak

\* Each streak is backed by as many samples of this pool, the latest ones; a
\* resize that is under way has used them up.
Streaks ==
  /\ Len(samples) <= HysteresisTicks
  /\ policy.high <= Len(samples) /\ policy.low <= Len(samples)
  /\ \A i \in 1 .. Len(samples) :
       /\ Len(samples) - i < policy.high => samples[i] = "high"
       /\ Len(samples) - i < policy.low => samples[i] = "low"
  /\ resizer \in {"build", "lock"} => policy.high = 0 /\ policy.low = 0

PoolInvariant == PoolTypeOK /\ Pools /\ Streaks /\ ResizeJustified

-----------------------------------------------------------------------------
\* The history keeps the latest samples, in order, the new one last.
LEMMA RecentFacts ==
  ASSUME NEW old \in Seq(Kinds), NEW sample \in Kinds, Len(old) <= HysteresisTicks
  PROVE  LET new == Recent(old, sample) IN
           /\ new \in Seq(Kinds)
           /\ Len(new) = IF Len(old) < HysteresisTicks THEN Len(old) + 1
                         ELSE HysteresisTicks
           /\ new[Len(new)] = sample
           /\ \A i \in 1 .. Len(new) - 1 : new[i] = old[i + Len(old) + 1 - Len(new)]
<1>1. HysteresisTicks \in Nat \ {0}
  BY PolicyAssumption
<1>2. CASE Len(old) < HysteresisTicks
  BY <1>1, <1>2 DEF Recent
<1>3. CASE ~ (Len(old) < HysteresisTicks)
  <2> DEFINE rest == Tail(old)
  <2>1. Len(old) = HysteresisTicks /\ old # << >>
    BY <1>1, <1>3
  <2>2. rest \in Seq(Kinds) /\ Len(rest) = HysteresisTicks - 1
    BY <1>1, <2>1
  <2>3. \A i \in 1 .. Len(rest) : rest[i] = old[i + 1]
    BY <1>1, <2>1
  <2>4. Recent(old, sample) = Append(rest, sample)
    BY <1>3 DEF Recent
  <2> HIDE DEF rest
  <2> QED
    BY <1>1, <2>1, <2>2, <2>3, <2>4
<1> QED
  BY <1>2, <1>3

\* Counting keeps the type of the state; a streak grows by its own kind of
\* sample and ends with any other.
LEMMA CountFacts ==
  ASSUME NEW sample \in Kinds, NEW state \in PolicyStates, NEW elapsed \in Nat
  PROVE  LET counted == Count(sample, state, elapsed) IN
           /\ counted \in PolicyStates
           /\ counted.high <= state.high + 1 /\ counted.low <= state.low + 1
           /\ counted.high # 0 => sample = "high" /\ counted.low = 0
           /\ counted.low # 0 => sample = "low" /\ counted.high = 0
BY PolicyAssumption DEF Kinds, Count, UpTo, PolicyStates

\* decide and nextMaxConns: the next size is within the limits; it differs from
\* this one only after a full streak, which is then used up.
LEMMA DecideFacts ==
  ASSUME NEW size0 \in MinConns .. MaxConns, NEW counted \in PolicyStates,
         counted.high # 0 => counted.low = 0
  PROVE  LET next == NextMaxConns(size0, Decision(size0, counted))
             decided == Decided(size0, counted)
         IN  /\ next \in MinConns .. MaxConns
             /\ decided \in PolicyStates
             /\ decided.high <= counted.high /\ decided.low <= counted.low
             /\ next > size0 => counted.high = HysteresisTicks
             /\ next < size0 => counted.low = HysteresisTicks
             /\ next # size0 => decided.high = 0 /\ decided.low = 0
<1>0. /\ MinConns \in Nat /\ MaxConns \in Nat /\ ResizeStep \in Nat \ {0}
      /\ HysteresisTicks \in Nat \ {0} /\ Cooldown \in Nat
  BY PolicyAssumption
<1>1. CASE Decision(size0, counted) = "grow"
  <2>1. counted.high = HysteresisTicks /\ counted.low = 0 /\ size0 < MaxConns
    BY <1>0, <1>1 DEF Decision, PolicyStates
  <2>2. Decided(size0, counted) = [high |-> 0, low |-> counted.low, since |-> 0]
    BY <1>1 DEF Decided
  <2>3. NextMaxConns(size0, "grow") \in size0 + 1 .. MaxConns
    BY <1>0, <2>1 DEF NextMaxConns, UpTo
  <2> QED
    BY <1>0, <1>1, <2>1, <2>2, <2>3 DEF PolicyStates
<1>2. CASE Decision(size0, counted) = "shrink"
  <2>1. counted.low = HysteresisTicks /\ counted.high = 0 /\ size0 > MinConns
    BY <1>0, <1>2 DEF Decision, PolicyStates
  <2>2. Decided(size0, counted) = [high |-> counted.high, low |-> 0, since |-> 0]
    BY <1>2 DEF Decided
  <2>3. NextMaxConns(size0, "shrink") \in MinConns .. size0 - 1
    BY <1>0, <2>1 DEF NextMaxConns
  <2> QED
    BY <1>0, <1>2, <2>1, <2>2, <2>3 DEF PolicyStates
<1>3. CASE Decision(size0, counted) = "hold"
  <2>1. Decided(size0, counted) = counted
    BY <1>3 DEF Decided
  <2>2. NextMaxConns(size0, "hold") = size0
    BY DEF NextMaxConns
  <2> QED
    BY <1>0, <1>3, <2>1, <2>2 DEF PolicyStates
<1>4. Decision(size0, counted) \in {"grow", "shrink", "hold"}
  BY DEF Decision
<1> QED
  BY <1>1, <1>2, <1>3, <1>4

-----------------------------------------------------------------------------
\* The state after NewPool satisfies the invariant.
LEMMA InitInvariant == PoolInit => PoolInvariant
<1> SUFFICES ASSUME PoolInit PROVE PoolInvariant
  OBVIOUS
<1>1. /\ MinConns \in Nat \ {0} /\ MaxConns \in Nat /\ MinConns <= MaxConns
      /\ HysteresisTicks \in Nat \ {0} /\ Cooldown \in Nat
  BY PolicyAssumption
<1>2. samples \in Seq(Kinds) /\ Len(samples) = 0
  BY DEF PoolInit
<1>3. PoolTypeOK
  BY <1>1, <1>2 DEF PoolInit, PoolTypeOK, FirstState, PolicyStates
<1>4. Pools
  BY <1>1 DEF PoolInit, Pools, NoLeak, Reading
<1>5. Streaks /\ ResizeJustified
  BY <1>1, <1>2 DEF PoolInit, Streaks, ResizeJustified, FirstState
<1> QED
  BY <1>3, <1>4, <1>5 DEF PoolInvariant

\* The steps of a call: only the caller's own place changes, and a call that
\* gets the read lock reads the current pool under it.
LEMMA CallerStep ==
  ASSUME PoolInvariant, NEW c \in Callers,
         Call(c) \/ RLock(c) \/ Acquire(c) \/ GiveUp(c) \/ Detach(c) \/ Release(c)
  PROVE  PoolInvariant'
<1> USE DEF PoolInvariant
<1>1. UNCHANGED <<current, phase, size, resizer, newPool, target, policy, closer, samples>>
  BY DEF Call, RLock, Acquire, GiveUp, Detach, Release, poolVars, loopVars
<1>2. /\ call' \in [Callers -> {"idle", "rlock", "acquire", "inside", "detached"}]
      /\ on' \in [Callers -> Slots]
  BY DEF PoolTypeOK, Call, RLock, Acquire, GiveUp, Detach, Release
<1>3. \A d \in Callers : Reading(d)' => on'[d] = current
  BY DEF PoolTypeOK, Pools, Reading, Call, RLock, Acquire, GiveUp, Detach, Release
<1>4. PoolTypeOK'
  BY <1>1, <1>2 DEF PoolTypeOK
<1>5. Pools'
  BY <1>1, <1>3 DEF Pools, NoLeak
<1>6. Streaks' /\ ResizeJustified'
  BY <1>1 DEF Streaks, ResizeJustified
<1> QED
  BY <1>4, <1>5, <1>6

\* A tick: streaks stay backed by samples, and a resize starts only on a full
\* streak and within the limits.
LEMMA TickStep ==
  ASSUME PoolInvariant, NEW elapsed \in 0 .. Cooldown, Tick(elapsed)
  PROVE  PoolInvariant'
<1> USE DEF PoolInvariant
<1> DEFINE now == size[current]
           sample == Sample(Acquired(current), now)
           counted == Count(sample, policy, elapsed)
           next == NextMaxConns(now, Decision(now, counted))
           decided == Decided(now, counted)
<1>1. /\ resizer = "select"
      /\ policy' = decided /\ target' = next /\ samples' = Recent(samples, sample)
      /\ resizer' = IF next # now THEN "build" ELSE "select"
      /\ UNCHANGED <<current, phase, size, call, on, newPool, closer>>
  BY DEF Tick, poolVars, callVars
<1>2. now \in MinConns .. MaxConns
  BY <1>1 DEF PoolTypeOK, Pools
<1>3. sample \in Kinds
  BY DEF Sample, Kinds
<1>4. /\ HysteresisTicks \in Nat \ {0} /\ Cooldown \in Nat /\ elapsed \in Nat
      /\ MinConns \in Nat /\ MaxConns \in Nat
  BY PolicyAssumption
<1>5. policy \in PolicyStates /\ samples \in Seq(Kinds) /\ Len(samples) <= HysteresisTicks
  BY DEF PoolTypeOK, Streaks
<1> HIDE DEF sample
<1>6. /\ counted \in PolicyStates
      /\ counted.high <= policy.high + 1 /\ counted.low <= policy.low + 1
      /\ counted.high # 0 => sample = "high" /\ counted.low = 0
      /\ counted.low # 0 => sample = "low" /\ counted.high = 0
  BY <1>3, <1>4, <1>5, CountFacts
<1> HIDE DEF counted
<1>7. /\ next \in MinConns .. MaxConns /\ decided \in PolicyStates
      /\ decided.high <= counted.high /\ decided.low <= counted.low
      /\ next > now => counted.high = HysteresisTicks
      /\ next < now => counted.low = HysteresisTicks
      /\ next # now => decided.high = 0 /\ decided.low = 0
  <2> HIDE DEF now
  <2> QED
    BY <1>2, <1>6, DecideFacts
<1> HIDE DEF next, decided
<1>8. /\ samples' \in Seq(Kinds)
      /\ Len(samples') = IF Len(samples) < HysteresisTicks THEN Len(samples) + 1
                         ELSE HysteresisTicks
      /\ samples'[Len(samples')] = sample
      /\ \A i \in 1 .. Len(samples') - 1 :
           samples'[i] = samples[i + Len(samples) + 1 - Len(samples')]
  BY <1>1, <1>3, <1>5, RecentFacts, Zenon
<1>9. PoolTypeOK'
  BY <1>1, <1>7, <1>8 DEF PoolTypeOK
<1>10. Pools'
  BY <1>1 DEF Pools, NoLeak, Reading
<1>11. \A i \in 1 .. Len(samples') :
        /\ Len(samples') - i < counted.high => samples'[i] = "high"
        /\ Len(samples') - i < counted.low => samples'[i] = "low"
  <2> SUFFICES ASSUME NEW i \in 1 .. Len(samples')
               PROVE  /\ Len(samples') - i < counted.high => samples'[i] = "high"
                      /\ Len(samples') - i < counted.low => samples'[i] = "low"
    OBVIOUS
  <2>0. /\ counted.high \in Nat /\ counted.low \in Nat /\ Len(samples) \in Nat
        /\ policy.high \in Nat /\ policy.low \in Nat /\ Len(samples') \in Nat
    <3>1. \A p \in PolicyStates : p.high \in Nat /\ p.low \in Nat
      BY <1>4 DEF PolicyStates
    <3>2. Len(samples) \in Nat
      BY <1>5
    <3>3. Len(samples') \in Nat
      BY <1>8
    <3> QED
      BY <1>5, <1>6, <3>1, <3>2, <3>3
  <2>1. CASE i = Len(samples')
    BY <1>6, <1>8, <2>0, <2>1, SMTT(30)
  <2>2. CASE i # Len(samples')
    <3>1. PICK n \in Nat : n = Len(samples')
      BY <2>0
    <3>2. PICK m \in Nat : m = Len(samples)
      BY <2>0
    <3>3. n = IF m < HysteresisTicks THEN m + 1 ELSE HysteresisTicks
      BY <1>8, <3>1, <3>2
    <3>4. m <= HysteresisTicks /\ i \in 1 .. n - 1
      BY <1>5, <2>2, <3>1, <3>2
    <3>5. PICK j \in 1 .. m : j = i + m + 1 - n
      <4>1. i + m + 1 - n \in 1 .. m
        BY <1>4, <3>3, <3>4
      <4> QED
        BY <4>1
    <3>6. samples'[i] = samples[j]
      BY <1>8, <3>1, <3>2, <3>4, <3>5, Zenon
    <3>7. /\ m - j < policy.high => samples[j] = "high"
          /\ m - j < policy.low => samples[j] = "low"
      BY <3>2, <3>5 DEF Streaks
    <3>8. /\ n - i < counted.high => m - j < policy.high
          /\ n - i < counted.low => m - j < policy.low
      <4>1. m - j = n - i - 1 /\ n - i \in Int
        BY <3>4, <3>5
      <4>2. \A x \in Int : \A a, b \in Nat : a <= b + 1 /\ x < a => x - 1 < b
        OBVIOUS
      <4>3. counted.high <= policy.high + 1 /\ counted.low <= policy.low + 1
        BY <1>6
      <4> QED
        BY <2>0, <4>1, <4>2, <4>3, SMTT(30)
    <3> QED
      BY <3>1, <3>6, <3>7, <3>8
  <2> QED
    BY <2>1, <2>2
<1>12. counted.high <= Len(samples') /\ counted.low <= Len(samples')
  BY <1>4, <1>5, <1>6, <1>8, SMTT(20) DEF Streaks, PolicyStates
<1>13. Streaks'
  <2>1. /\ decided.high \in Nat /\ decided.low \in Nat /\ Len(samples') \in Nat
        /\ counted.high \in Nat /\ counted.low \in Nat
        /\ Len(samples') <= HysteresisTicks
    <3>1. \A p \in PolicyStates : p.high \in Nat /\ p.low \in Nat
      BY <1>4 DEF PolicyStates
    <3>2. Len(samples') \in Nat /\ Len(samples') <= HysteresisTicks
      BY <1>4, <1>5, <1>8
    <3> QED
      BY <1>6, <1>7, <3>1, <3>2
  <2>2. \A i \in 1 .. Len(samples') :
          /\ Len(samples') - i < decided.high => samples'[i] = "high"
          /\ Len(samples') - i < decided.low => samples'[i] = "low"
    BY <1>7, <1>11, <2>1
  <2> QED
    BY <1>1, <1>7, <1>12, <2>1, <2>2 DEF Streaks
<1>14. ResizeJustified'
  <2> SUFFICES ASSUME next # now
               PROVE  samples' = [i \in 1 .. HysteresisTicks |->
                                    IF next > now THEN "high" ELSE "low"]
    BY <1>1 DEF ResizeJustified
  <2>1. Len(samples') = HysteresisTicks
    BY <1>2, <1>4, <1>5, <1>7, <1>8, <1>12
  <2>2. \A i \in 1 .. HysteresisTicks :
          samples'[i] = IF next > now THEN "high" ELSE "low"
    BY <1>2, <1>4, <1>7, <1>11, <2>1
  <2>3. samples' = [i \in 1 .. HysteresisTicks |-> samples'[i]]
    BY <1>8, <2>1
  <2> QED
    BY <2>2, <2>3
<1> QED
  BY <1>9, <1>10, <1>13, <1>14

\* The steps of a resize after the decision, and of Close.
LEMMA PoolStep ==
  ASSUME PoolInvariant,
         \/ Built \/ BuildFailed \/ Swap \/ Stop \/ LoopExits \/ CloseCurrent
         \/ \E s \in Slots : CloseOld(s) \/ Drained(s)
  PROVE  PoolInvariant'
<1> USE DEF PoolInvariant
<1>0. MinConns \in Nat \ {0} /\ MaxConns \in Nat /\ HysteresisTicks \in Nat \ {0}
  BY PolicyAssumption
<1>1. CASE Built
  <2>1. PICK s \in Slots :
          /\ phase[s] = "absent" /\ phase' = [phase EXCEPT ![s] = "open"]
          /\ size' = [size EXCEPT ![s] = target] /\ newPool' = s
    BY <1>1, Zenon DEF Built
  <2>2. /\ resizer = "build" /\ resizer' = "lock"
        /\ UNCHANGED <<current, call, on, target, policy, closer, samples>>
    BY <1>1 DEF Built, callVars
  <2>3. s # current /\ closer # "closed"
    BY <2>1, <2>2 DEF Pools
  <2>4. PoolTypeOK'
    BY <1>0, <2>1, <2>2 DEF PoolTypeOK
  <2>5. Pools'
    BY <1>0, <2>1, <2>2, <2>3 DEF Pools, NoLeak, Reading, PoolTypeOK
  <2>6. Streaks' /\ ResizeJustified'
    BY <2>1, <2>2, <2>3 DEF Streaks, ResizeJustified, PoolTypeOK
  <2> QED
    BY <2>4, <2>5, <2>6
<1>2. CASE BuildFailed \/ Stop \/ LoopExits
  <2>1. /\ resizer' \in {resizer, "select", "stopped"}
        /\ UNCHANGED <<current, phase, size, call, on, newPool, target, policy, samples>>
    BY <1>2 DEF BuildFailed, Stop, LoopExits, poolVars, callVars, loopVars
  <2>2. PoolTypeOK'
    BY <1>2, <2>1 DEF PoolTypeOK, BuildFailed, Stop, LoopExits
  <2>3. Pools'
    BY <1>2, <2>1 DEF Pools, NoLeak, Reading, BuildFailed, Stop, LoopExits, loopVars
  <2>4. Streaks' /\ ResizeJustified'
    BY <2>1 DEF Streaks, ResizeJustified
  <2> QED
    BY <2>2, <2>3, <2>4
<1>3. CASE Swap
  <2>1. /\ resizer = "lock" /\ \A c \in Callers : ~ Reading(c)
        /\ resizer' = "select" /\ current' = newPool /\ samples' = << >>
        /\ phase' = [phase EXCEPT ![current] = "retired"]
        /\ call' = [c \in Callers |-> IF call[c] = "rlock" THEN "acquire" ELSE call[c]]
        /\ on' = [c \in Callers |-> IF call[c] = "rlock" THEN newPool ELSE on[c]]
        /\ UNCHANGED <<size, newPool, target, policy, closer>>
    BY <1>3 DEF Swap
  <2>2. newPool # current /\ closer # "closed" /\ policy.high = 0 /\ policy.low = 0
    BY <2>1 DEF Pools, Streaks
  <2>3. samples' \in Seq(Kinds) /\ Len(samples') = 0
    BY <2>1
  <2>4. PoolTypeOK'
    <3>1. current' \in Slots /\ phase' \in [Slots -> {"absent", "open", "retired", "closing"}]
      BY <2>1 DEF PoolTypeOK
    <3>2. /\ call' \in [Callers -> {"idle", "rlock", "acquire", "inside", "detached"}]
          /\ on' \in [Callers -> Slots]
      BY <2>1 DEF PoolTypeOK
    <3> QED
      BY <2>1, <2>3, <3>1, <3>2 DEF PoolTypeOK
  <2>5. Streaks' /\ ResizeJustified'
    BY <1>0, <2>1, <2>2, <2>3 DEF Streaks, ResizeJustified
  <2>6. \A c \in Callers : Reading(c)' => on'[c] = current'
    BY <2>1 DEF Reading, PoolTypeOK
  <2>7. phase'[current'] = "open"
    BY <2>1, <2>2 DEF Pools, PoolTypeOK
  <2>8. NoLeak'
    BY <2>1, <2>2 DEF NoLeak, Pools, PoolTypeOK
  <2>9. Pools'
    BY <2>1, <2>2, <2>6, <2>7, <2>8 DEF Pools, PoolTypeOK
  <2> QED
    BY <2>4, <2>5, <2>9
<1>4. CASE \E s \in Slots : CloseOld(s) \/ Drained(s)
  <2>1. PICK s \in Slots : CloseOld(s) \/ Drained(s)
    BY <1>4
  <2>2. UNCHANGED <<current, call, on, resizer, newPool, target, policy, closer, samples>>
    BY <2>1 DEF CloseOld, Drained, callVars, loopVars
  <2>3. /\ phase[s] \in {"retired", "closing"}
        /\ \E p \in {"closing", "absent"} : phase' = [phase EXCEPT ![s] = p]
        /\ size' = size \/ size' = [size EXCEPT ![s] = 0]
    BY <2>1 DEF CloseOld, Drained
  <2>4. PoolTypeOK'
    BY <2>2, <2>3 DEF PoolTypeOK
  <2>5. Pools'
    BY <2>2, <2>3 DEF Pools, NoLeak, Reading, PoolTypeOK
  <2>6. Streaks' /\ ResizeJustified'
    <3>1. resizer \in {"build", "lock"} => size'[current] = size[current]
      BY <2>2, <2>3 DEF Pools, PoolTypeOK
    <3> QED
      BY <2>2, <3>1 DEF Streaks, ResizeJustified
  <2> QED
    BY <2>4, <2>5, <2>6
<1>5. CASE CloseCurrent
  <2>1. /\ closer = "stopping" /\ closer' = "closed" /\ resizer = "stopped"
        /\ phase' = [phase EXCEPT ![current] = "closing"]
        /\ UNCHANGED <<current, size, call, on, resizer, newPool, target, policy, samples>>
    BY <1>5 DEF CloseCurrent, callVars, loopVars
  <2>2. PoolTypeOK'
    BY <2>1 DEF PoolTypeOK
  <2>3. Pools'
    BY <2>1 DEF Pools, NoLeak, Reading, PoolTypeOK
  <2>4. Streaks' /\ ResizeJustified'
    BY <2>1 DEF Streaks, ResizeJustified
  <2> QED
    BY <2>2, <2>3, <2>4
<1> QED
  BY <1>1, <1>2, <1>3, <1>4, <1>5

-----------------------------------------------------------------------------
\* PoolInvariant holds in every reachable state.
THEOREM PoolInvariantHolds == PoolSpec => []PoolInvariant
<1>1. PoolInvariant /\ [PoolNext]_elasticVars => PoolInvariant'
  <2> SUFFICES ASSUME PoolInvariant, [PoolNext]_elasticVars PROVE PoolInvariant'
    OBVIOUS
  <2>1. CASE UNCHANGED elasticVars
    BY <2>1 DEF PoolInvariant, PoolTypeOK, Pools, NoLeak, Reading, Streaks, ResizeJustified,
                elasticVars
  <2>2. CASE PoolNext
    BY <2>2, CallerStep, TickStep, PoolStep DEF PoolNext
  <2> QED
    BY <2>1, <2>2
<1> QED
  BY InitInvariant, <1>1, PTL DEF PoolSpec

\* Types, and the limits on the size of a pool: nextMaxConns never leaves
\* [MinConns, MaxConns], whatever the sequence of grows, shrinks and failures.
THEOREM PoolTypeCorrect == PoolSpec => []PoolTypeOK
<1>1. PoolInvariant => PoolTypeOK
  BY DEF PoolInvariant
<1> QED
  BY PoolInvariantHolds, <1>1, PTL

\* The read lock held for the whole call keeps every call on the current, open
\* pool (pool.go, the doc comment of Pool).
THEOREM NoCallOnClosedPool == PoolSpec => []CallsOnOpenPool
<1>1. PoolInvariant => CallsOnOpenPool
  BY DEF PoolInvariant, Pools, CallsOnOpenPool
<1> QED
  BY PoolInvariantHolds, <1>1, PTL

\* No pool is forgotten: not by a failed resize, a swap, or a Close that comes
\* while a resize is under way (resize, poolResizer.stop, Pool.Close).
THEOREM NoPoolLeaks == PoolSpec => []NoLeak
<1>1. PoolInvariant => NoLeak
  BY DEF PoolInvariant, Pools
<1> QED
  BY PoolInvariantHolds, <1>1, PTL

\* Every resize follows a full streak of samples of the pool it replaces, for
\* any watermarks, hysteresis, cooldown and step (decide, tick).
THEOREM EveryResizeJustified == PoolSpec => []ResizeJustified
<1>1. PoolInvariant => ResizeJustified
  BY DEF PoolInvariant
<1> QED
  BY PoolInvariantHolds, <1>1, PTL

-----------------------------------------------------------------------------
\* run() passes valid options on, starts workers in a stage only and waits for
\* them before it judges.
Places ==
  /\ at \notin {"options", "failed"} => ValidOptions(opt)
  /\ at \in {"stage", "judge"} => workers >= 1
  /\ \A k \in Workers :
       /\ k > workers \/ at \notin {"stage", "judge"} => pc[k] = "off"
       /\ at = "judge" => pc[k] \in {"off", "done"}

\* What a worker has counted is what it has sent, but for the request it waits
\* for; the stage's result holds what the finished workers have sent.
Merged == [k \in Workers |-> IF pc[k] = "done" THEN sent[k] ELSE 0]

Counts ==
  /\ \A k \in Workers :
       /\ sent[k] = tally[k].n + (IF pc[k] = "wait" THEN 1 ELSE 0)
       /\ pc[k] = "send" => sent[k] < PerStage
       /\ pc[k] = "off" => sent[k] = 0
  /\ res.n = Total(Merged, MaxWorkers)

\* A worker that is about to send has sent nothing since the guard tripped.
Guarded ==
  \A k \in Workers :
    /\ ~ tripped \/ pc[k] = "send" => after[k] = 0
    /\ after[k] <= 1

\* What a failed check does show: a transfer whose outcome was left open took
\* effect while the balances were being read.
FailedCheckHasCause == passed = "failed" => landed

\* Accounts are funded in order and transfers conserve their sum; unless an open
\* transfer has landed in between, sum is the total of the balances read so far.
Deposits ==
  /\ at \in {"options", "setup"} =>
       /\ at = "options" => idx = 1
       /\ at = "setup" => idx \in Ids
       /\ \A a \in Ids : bal[a] = IF a < idx THEN Funding ELSE 0
       /\ \A p \in Pairs : open[p] = 0
  /\ at \notin {"options", "setup", "failed"} =>
       Total(bal, NumAccounts(opt)) = Funding * NumAccounts(opt)
  /\ at \notin {"sum", "report", "ok", "failed"} => sum = 0
  /\ at = "sum" => idx \in Ids /\ (landed \/ sum = Total(bal, idx - 1))
  /\ at = "report" => landed \/ sum = Funding * NumAccounts(opt)
  /\ at \notin {"ok", "failed"} => passed = "none"
  /\ FailedCheckHasCause

LoadInvariant == TypeOK /\ Places /\ Counts /\ Guarded /\ Deposits

\* Induction over the naturals, for membership in a set.
LEMMA NatInductionOnSet ==
  ASSUME NEW S, 0 \in S, \A n \in Nat : n \in S => n + 1 \in S
  PROVE  Nat \subseteq S
<1> DEFINE R == OpToRel(<, Nat)
           Bad == Nat \ S
<1>1. IsWellFoundedOn(R, Nat)
  BY NatLessThanWellFounded, Zenon
<1>2. \A x, y \in Nat : x < y => <<x, y>> \in R
  BY DEF OpToRel
<1> HIDE DEF R
<1> SUFFICES ASSUME Bad # {} PROVE FALSE
  OBVIOUS
<1>3. PICK x \in Bad : \A y \in Bad : ~ (<<y, x>> \in R)
  <2>1. Bad \subseteq Nat
    OBVIOUS
  <2> HIDE DEF Bad
  <2> QED
    BY <1>1, <2>1, WFMin, Zenon
<1>4. x # 0 /\ x - 1 \in Nat /\ x - 1 < x
  OBVIOUS
<1>5. x - 1 \in S
  BY <1>2, <1>3, <1>4, Zenon
<1> QED
  BY <1>4, <1>5

\* s holds the first n totals of f.
IsTotals(s, f, n) == s = [j \in 0 .. n |-> IF j = 0 THEN 0 ELSE s[j - 1] + f[j]]

\* The totals of f exist for every n, and agree.
LEMMA TotalsExist ==
  ASSUME NEW f
  PROVE  \A n \in Nat : \E s : IsTotals(s, f, n)
<1> DEFINE S == {n \in Nat : \E s : IsTotals(s, f, n)}
<1>1. 0 \in S
  <2> DEFINE z == [j \in 0 .. 0 |-> 0]
  <2>1. z = [j \in 0 .. 0 |-> IF j = 0 THEN 0 ELSE z[j - 1] + f[j]]
    OBVIOUS
  <2>2. IsTotals(z, f, 0)
    BY <2>1, Zenon DEF IsTotals
  <2> QED
    BY <2>2
<1>2. ASSUME NEW n \in Nat, n \in S PROVE n + 1 \in S
  <2>1. PICK s : IsTotals(s, f, n)
    BY <1>2
  <2> DEFINE t == [j \in 0 .. n + 1 |-> IF j = n + 1 THEN s[n] + f[n + 1] ELSE s[j]]
  <2>2. ASSUME NEW j \in 0 .. n PROVE s[j] = IF j = 0 THEN 0 ELSE s[j - 1] + f[j]
    BY <2>1, Zenon DEF IsTotals
  <2>3. ASSUME NEW j \in 0 .. n + 1
        PROVE  t[j] = IF j = 0 THEN 0 ELSE t[j - 1] + f[j]
    <3>1. CASE j = n + 1
      <4>1. j # 0 /\ j - 1 = n /\ n \in 0 .. n + 1 /\ n # n + 1
        BY <3>1
      <4>2. t[j] = s[n] + f[j] /\ t[n] = s[n]
        BY <3>1, <4>1, Zenon
      <4> QED
        BY <4>1, <4>2, Zenon
    <3>2. CASE j # n + 1
      <4>1. j \in 0 .. n /\ (j # 0 => j - 1 \in 0 .. n + 1 /\ j - 1 # n + 1)
        BY <3>2
      <4>2. t[j] = s[j] /\ (j # 0 => t[j - 1] = s[j - 1])
        BY <3>2, <4>1, Zenon
      <4>3. s[j] = IF j = 0 THEN 0 ELSE s[j - 1] + f[j]
        BY <2>2, <4>1, Zenon
      <4> QED
        BY <4>2, <4>3, Zenon
    <3> QED
      BY <3>1, <3>2, Zenon
  <2>4. t = [j \in 0 .. n + 1 |-> t[j]]
    BY Zenon
  <2>5. t = [j \in 0 .. n + 1 |-> IF j = 0 THEN 0 ELSE t[j - 1] + f[j]]
    <3> HIDE DEF t
    <3> QED
      BY <2>3, <2>4, Zenon
  <2>6. \E u : IsTotals(u, f, n + 1)
    <3> HIDE DEF t
    <3> QED
      BY <2>5, Zenon DEF IsTotals
  <2>7. n + 1 \in Nat
    OBVIOUS
  <2> QED
    BY <2>6, <2>7, Zenon
<1>3. Nat \subseteq S
  <2> HIDE DEF S
  <2> QED
    BY <1>1, <1>2, NatInductionOnSet
<1> QED
  BY <1>3, Zenon

\* The recursive definition of Total satisfies its equations.
LEMMA TotalDef ==
  ASSUME NEW f
  PROVE  Total(f, 0) = 0 /\ \A n \in Nat : Total(f, n + 1) = Total(f, n) + f[n + 1]
<1> DEFINE first(n) == CHOOSE s : IsTotals(s, f, n)
           h == [n \in Nat |-> first(n)[n]]
           Eq(s) == s = [n \in Nat |-> IF n = 0 THEN 0 ELSE s[n - 1] + f[n]]
<1>1. ASSUME NEW n \in Nat PROVE IsTotals(first(n), f, n)
  BY TotalsExist, Zenon
<1> HIDE DEF first
<1>2. ASSUME NEW n \in Nat, NEW j \in 0 .. n
      PROVE  first(n)[j] = IF j = 0 THEN 0 ELSE first(n)[j - 1] + f[j]
  <2>1. IsTotals(first(n), f, n)
    BY <1>1
  <2> QED
    BY <2>1, Zenon DEF IsTotals
<1>3. ASSUME NEW n \in Nat PROVE first(n + 1)[n] = first(n)[n]
  <2> DEFINE T == {j \in Nat : j <= n => first(n + 1)[j] = first(n)[j]}
  <2>1. 0 \in T
    <3>1. 0 \in 0 .. n /\ 0 \in 0 .. n + 1 /\ n + 1 \in Nat
      OBVIOUS
    <3>2. first(n)[0] = 0 /\ first(n + 1)[0] = 0
      BY <1>2, <3>1, Zenon
    <3> QED
      BY <3>2
  <2>2. ASSUME NEW j \in Nat, j \in T PROVE j + 1 \in T
    <3> SUFFICES ASSUME j + 1 <= n PROVE first(n + 1)[j + 1] = first(n)[j + 1]
      OBVIOUS
    <3>1. /\ j + 1 \in 0 .. n /\ j + 1 \in 0 .. n + 1 /\ n + 1 \in Nat /\ j + 1 # 0
          /\ (j + 1) - 1 = j /\ first(n + 1)[j] = first(n)[j]
      BY <2>2
    <3>2. first(n)[j + 1] = first(n)[j] + f[j + 1]
      BY <1>2, <3>1, Zenon
    <3>3. first(n + 1)[j + 1] = first(n + 1)[j] + f[j + 1]
      BY <1>2, <3>1, Zenon
    <3> QED
      BY <3>1, <3>2, <3>3, Zenon
  <2>3. Nat \subseteq T
    <3> HIDE DEF T
    <3> QED
      BY <2>1, <2>2, NatInductionOnSet
  <2> QED
    BY <2>3
<1>4. ASSUME NEW n \in Nat PROVE h[n] = IF n = 0 THEN 0 ELSE h[n - 1] + f[n]
  <2>1. n \in 0 .. n /\ h[n] = first(n)[n]
    OBVIOUS
  <2>2. CASE n = 0
    BY <1>2, <2>1, <2>2, Zenon
  <2>3. CASE n # 0
    <3>1. PICK m \in Nat : n = m + 1
      <4>1. n - 1 \in Nat /\ n = (n - 1) + 1
        BY <2>3
      <4> QED
        BY <4>1
    <3>2. n - 1 = m
      BY <3>1
    <3>3. first(n)[n] = first(n)[m] + f[n]
      BY <1>2, <2>1, <2>3, <3>2, Zenon
    <3>4. first(n)[m] = first(m)[m] /\ h[m] = first(m)[m]
      BY <1>3, <3>1, Zenon
    <3> QED
      BY <2>1, <2>3, <3>2, <3>3, <3>4, Zenon
  <2> QED
    BY <2>2, <2>3, Zenon
<1>5. Eq(h)
  <2>1. h = [n \in Nat |-> h[n]]
    BY Zenon
  <2> HIDE DEF h
  <2> QED
    BY <1>4, <2>1, Zenon
<1>6. Eq(Totals(f))
  <2> HIDE DEF h
  <2> QED
    BY <1>5, Zenon DEF Totals
<1>7. ASSUME NEW n \in Nat
      PROVE  Total(f, n) = IF n = 0 THEN 0 ELSE Total(f, n - 1) + f[n]
  BY <1>6, Zenon DEF Total
<1>8. Total(f, 0) = 0
  <2>1. 0 \in Nat
    OBVIOUS
  <2> QED
    BY <1>7, <2>1, Zenon
<1>9. ASSUME NEW n \in Nat PROVE Total(f, n + 1) = Total(f, n) + f[n + 1]
  <2>1. n + 1 \in Nat /\ n + 1 # 0 /\ (n + 1) - 1 = n
    OBVIOUS
  <2>2. Total(f, n + 1) = Total(f, (n + 1) - 1) + f[n + 1]
    BY <1>7, <2>1, Zenon
  <2> QED
    BY <2>1, <2>2, Zenon
<1> QED
  BY <1>8, <1>9

\* A total of integers is an integer.
LEMMA TotalInt ==
  ASSUME NEW f, NEW N \in Nat, \A j \in 1 .. N : f[j] \in Int
  PROVE  \A n \in 0 .. N : Total(f, n) \in Int
<1> DEFINE S == {n \in Nat : n <= N => Total(f, n) \in Int}
<1>1. 0 \in S
  BY TotalDef
<1>2. ASSUME NEW n \in Nat, n \in S PROVE n + 1 \in S
  <2> SUFFICES ASSUME n + 1 <= N PROVE Total(f, n + 1) \in Int
    OBVIOUS
  <2>1. Total(f, n) \in Int /\ f[n + 1] \in Int
    BY <1>2
  <2>2. Total(f, n + 1) = Total(f, n) + f[n + 1]
    BY TotalDef
  <2> QED
    BY <2>1, <2>2
<1>3. Nat \subseteq S
  <2> HIDE DEF S
  <2> QED
    BY <1>1, <1>2, NatInductionOnSet
<1> QED
  BY <1>3

\* g is f with d added to its entry k.
Added(g, f, N, k, d) ==
  \A j \in 1 .. N : f[j] \in Int /\ g[j] = IF j = k THEN f[j] + d ELSE f[j]

\* Adding d to one entry adds d to the total.
LEMMA TotalAdded ==
  ASSUME NEW f, NEW g, NEW N \in Nat, NEW k \in 1 .. N, NEW d \in Int, Added(g, f, N, k, d)
  PROVE  Total(f, N) \in Int /\ Total(g, N) = Total(f, N) + d
<1>0. ASSUME NEW j \in 1 .. N PROVE f[j] \in Int /\ g[j] = IF j = k THEN f[j] + d ELSE f[j]
  BY DEF Added
<1>a. \A n \in 0 .. N : Total(f, n) \in Int
  BY <1>0, TotalInt
<1> DEFINE S == {n \in Nat : n <= N =>
                   Total(g, n) = IF k <= n THEN Total(f, n) + d ELSE Total(f, n)}
<1>1. 0 \in S
  <2>1. Total(f, 0) = 0 /\ Total(g, 0) = 0
    BY TotalDef
  <2> QED
    BY <2>1
<1>2. ASSUME NEW n \in Nat, n \in S PROVE n + 1 \in S
  <2> SUFFICES ASSUME n + 1 <= N
               PROVE  Total(g, n + 1) = IF k <= n + 1 THEN Total(f, n + 1) + d
                                        ELSE Total(f, n + 1)
    OBVIOUS
  <2>1. Total(g, n) = IF k <= n THEN Total(f, n) + d ELSE Total(f, n)
    BY <1>2
  <2>2. Total(f, n + 1) = Total(f, n) + f[n + 1] /\ Total(g, n + 1) = Total(g, n) + g[n + 1]
    BY TotalDef
  <2>3. f[n + 1] \in Int /\ g[n + 1] = IF n + 1 = k THEN f[n + 1] + d ELSE f[n + 1]
    BY <1>0
  <2>4. Total(f, n) \in Int
    BY <1>a
  <2> QED
    BY <2>1, <2>2, <2>3, <2>4
<1>3. Nat \subseteq S
  <2> HIDE DEF S
  <2> QED
    BY <1>1, <1>2, NatInductionOnSet
<1> QED
  BY <1>a, <1>3

\* A total depends on the entries it includes only.
LEMMA TotalSame ==
  ASSUME NEW f, NEW g, NEW N \in Nat, \A j \in 1 .. N : g[j] = f[j]
  PROVE  Total(g, N) = Total(f, N)
<1> DEFINE S == {n \in Nat : n <= N => Total(g, n) = Total(f, n)}
<1>1. 0 \in S
  BY TotalDef
<1>2. ASSUME NEW n \in Nat, n \in S PROVE n + 1 \in S
  <2> SUFFICES ASSUME n + 1 <= N PROVE Total(g, n + 1) = Total(f, n + 1)
    OBVIOUS
  <2>1. Total(g, n) = Total(f, n) /\ g[n + 1] = f[n + 1]
    BY <1>2
  <2>2. Total(f, n + 1) = Total(f, n) + f[n + 1] /\ Total(g, n + 1) = Total(g, n) + g[n + 1]
    BY TotalDef
  <2> QED
    BY <2>1, <2>2, Zenon
<1>3. Nat \subseteq S
  <2> HIDE DEF S
  <2> QED
    BY <1>1, <1>2, NatInductionOnSet
<1> QED
  BY <1>3

\* The total of n equal entries is n times that entry.
LEMMA TotalEqual ==
  ASSUME NEW f, NEW N \in Nat, NEW c \in Int, \A j \in 1 .. N : f[j] = c
  PROVE  Total(f, N) = c * N
<1> DEFINE S == {n \in Nat : n <= N => Total(f, n) = c * n}
<1>1. 0 \in S
  BY TotalDef
<1>2. ASSUME NEW n \in Nat, n \in S PROVE n + 1 \in S
  <2> SUFFICES ASSUME n + 1 <= N PROVE Total(f, n + 1) = c * (n + 1)
    OBVIOUS
  <2>1. Total(f, n) = c * n /\ f[n + 1] = c
    BY <1>2
  <2>2. Total(f, n + 1) = Total(f, n) + f[n + 1]
    BY TotalDef
  <2>3. \A a, b \in Int : a * (b + 1) = a * b + a
    OBVIOUS
  <2> QED
    BY <2>1, <2>2, <2>3
<1>3. Nat \subseteq S
  <2> HIDE DEF S
  <2> QED
    BY <1>1, <1>2, NatInductionOnSet
<1> QED
  BY <1>3

\* The balances f after a transfer of one cent from a to b.
Transferred(f, a, b) == [f EXCEPT ![a] = @ - 1, ![b] = @ + 1]

\* A transfer between two accounts leaves the sum of the balances as it was, and
\* no balance negative.
LEMMA TransferConserves ==
  ASSUME NEW N \in Nat, NEW f \in [1 .. N -> Nat], NEW a \in 1 .. N, NEW b \in 1 .. N,
         a # b, f[a] > 0
  PROVE  /\ Transferred(f, a, b) \in [1 .. N -> Nat]
         /\ Total(Transferred(f, a, b), N) = Total(f, N)
<1> DEFINE taken == [f EXCEPT ![a] = @ - 1]
<1>1. PICK t : t = taken
  BY Zenon
<1>2. PICK u : u = Transferred(f, a, b)
  OBVIOUS
<1>3. t \in [1 .. N -> Nat]
  BY <1>1
<1>4. u \in [1 .. N -> Nat]
  BY <1>2 DEF Transferred
<1>5. -1 \in Int /\ 1 \in Int
  OBVIOUS
<1>6. Added(t, f, N, a, -1)
  BY <1>1 DEF Added
<1>7. Added(u, t, N, b, 1)
  BY <1>1, <1>2, <1>3 DEF Added, Transferred
<1> HIDE DEF taken
<1>8. Total(f, N) \in Int /\ Total(t, N) = Total(f, N) + (-1)
  BY <1>5, <1>6, TotalAdded, Zenon
<1>9. Total(u, N) = Total(t, N) + 1
  BY <1>5, <1>7, TotalAdded, Zenon
<1>10. Total(u, N) = Total(f, N)
  BY <1>8, <1>9
<1> QED
  BY <1>2, <1>4, <1>10, Zenon

-----------------------------------------------------------------------------
\* What the options of a run may be.
LEMMA OptionFacts ==
  ASSUME opt \in Options
  PROVE  /\ MaxWorkers \in Nat /\ Funding \in Nat /\ PerStage \in Nat /\ MaxPolls \in Nat
         /\ opt.start \in Int /\ opt.max \in Int /\ opt.max <= MaxWorkers
         /\ NumAccounts(opt) \in Int
         /\ ValidOptions(opt) =>
              NumAccounts(opt) >= 2 /\ opt.start >= 1 /\ opt.start <= opt.max
BY LoadAssumption DEF NumAccounts, ValidOptions

\* The accounts of a run are fixed with its options.
LEMMA SameIds ==
  ASSUME opt' = opt
  PROVE  Ids' = Ids /\ Pairs' = Pairs
BY Zenon DEF Ids, Pairs

\* The types of what a stage works with.
StageTyped ==
  /\ workers \in {0} \cup 1 .. opt.max /\ sent \in [Workers -> 0 .. PerStage]
  /\ pc \in [Workers -> {"off", "check", "send", "wait", "done"}]
  /\ tally \in [Workers -> [n : Nat, slow : Nat, bad : Nat, errs : Nat]]
  /\ res \in [n : Nat, slow : Nat, bad : Nat, errs : Nat]

\* A new stage, or none, starts with nothing counted.
LEMMA NewStage ==
  ASSUME opt \in Options, opt' = opt, NEW n \in {0} \cup 1 .. opt.max, NEW where,
         Stage(n, where)
  PROVE  /\ StageTyped' /\ Counts'
         /\ workers' = n /\ at' = where
         /\ \A k \in Workers : pc'[k] = IF k <= n THEN "check" ELSE "off"
<1>0. MaxWorkers \in Nat /\ PerStage \in Nat /\ opt.max \in Int
  BY OptionFacts, Zenon
<1>1. /\ workers' = n /\ at' = where /\ res' = Empty
      /\ pc' = [k \in Workers |-> IF k <= n THEN "check" ELSE "off"]
      /\ sent' = [k \in Workers |-> 0] /\ tally' = [k \in Workers |-> Empty]
  BY Zenon DEF Stage
<1>2. Empty \in [n : Nat, slow : Nat, bad : Nat, errs : Nat] /\ Empty.n = 0
  BY Zenon DEF Empty
<1>3. StageTyped'
  BY <1>0, <1>1, <1>2 DEF StageTyped
<1>4. PICK m : m = Merged'
  BY Zenon
<1>5. \A j \in 1 .. MaxWorkers : m[j] = 0
  BY <1>1, <1>4, Zenon DEF Merged, Workers
<1>6. Total(m, MaxWorkers) = 0
  <2>1. 0 * MaxWorkers = 0 /\ 0 \in Int
    BY <1>0
  <2>2. Total(m, MaxWorkers) = 0 * MaxWorkers
    BY <1>0, <1>5, <2>1, TotalEqual, Zenon
  <2> QED
    BY <2>1, <2>2, Zenon
<1>7. \A k \in Workers :
        /\ sent'[k] = tally'[k].n + (IF pc'[k] = "wait" THEN 1 ELSE 0)
        /\ pc'[k] # "send" /\ sent'[k] = 0
  BY <1>1, <1>2
<1>8. Counts'
  BY <1>1, <1>2, <1>4, <1>6, <1>7, Zenon DEF Counts
<1> QED
  BY <1>1, <1>3, <1>8, Zenon

\* A transfer of the API conserves the sum of the balances.
LEMMA MovedFacts ==
  ASSUME TypeOK, NEW p \in Pairs, bal[p[1]] > 0
  PROVE  /\ Moved(p) \in [Ids -> Nat]
         /\ Total(Moved(p), NumAccounts(opt)) = Total(bal, NumAccounts(opt))
<1>1. NumAccounts(opt) \in Int /\ bal \in [Ids -> Nat]
  BY OptionFacts, Zenon DEF TypeOK
<1>2. PICK a \in Ids, b \in Ids : a = p[1] /\ b = p[2] /\ a # b
  BY Zenon DEF Pairs
<1>3. PICK N \in Nat : N = NumAccounts(opt)
  BY <1>1, <1>2 DEF Ids
<1>4. PICK f \in [1 .. N -> Nat] : f = bal
  BY <1>1, <1>3, Zenon DEF Ids
<1>5. a \in 1 .. N /\ b \in 1 .. N /\ f[a] > 0
  BY <1>2, <1>3, <1>4, Zenon DEF Ids
<1>6. Moved(p) = Transferred(f, a, b)
  BY <1>2, <1>4, Zenon DEF Moved, Transferred
<1>7. /\ Transferred(f, a, b) \in [1 .. N -> Nat]
      /\ Total(Transferred(f, a, b), N) = Total(f, N)
  BY <1>2, <1>5, TransferConserves, Zenon
<1> QED
  BY <1>3, <1>4, <1>6, <1>7, Zenon DEF Ids

\* Whatever the API does with a request conserves it too.
LEMMA EffectFacts ==
  ASSUME TypeOK, NEW kind, Effect(kind)
  PROVE  /\ bal' \in [Ids -> Nat] /\ open' \in [Pairs -> Nat]
         /\ Total(bal', NumAccounts(opt)) = Total(bal, NumAccounts(opt))
<1>1. PICK p \in Targets :
        \/ UNCHANGED <<bal, open>>
        \/ bal[p[1]] > 0 /\ bal' = Moved(p) /\ UNCHANGED open
        \/ open' = [open EXCEPT ![p] = @ + 1] /\ UNCHANGED bal
  BY Zenon DEF Effect
<1>2. p \in Pairs
  BY DEF Targets, Pairs, Ids, NumAccounts
<1>3. bal \in [Ids -> Nat] /\ open \in [Pairs -> Nat]
  BY Zenon DEF TypeOK
<1>4. CASE UNCHANGED <<bal, open>>
  BY <1>3, <1>4, Zenon
<1>5. CASE bal[p[1]] > 0 /\ bal' = Moved(p) /\ UNCHANGED open
  BY <1>2, <1>3, <1>5, MovedFacts, Zenon
<1>6. CASE open' = [open EXCEPT ![p] = @ + 1] /\ UNCHANGED bal
  BY <1>2, <1>3, <1>6
<1> QED
  BY <1>1, <1>4, <1>5, <1>6, Zenon

-----------------------------------------------------------------------------
\* A worker that works is one of the current stage, which is not judged yet.
LEMMA AtWork ==
  ASSUME LoadInvariant, NEW k \in Workers, pc[k] \in {"check", "send", "wait"}
  PROVE  at = "stage" /\ k <= workers
<1>1. k \in Int /\ workers \in Int
  BY OptionFacts DEF LoadInvariant, TypeOK, Workers
<1>2. at \in {"stage", "judge"} /\ ~ (k > workers)
  BY Zenon DEF LoadInvariant, Places
<1>3. at # "judge"
  BY Zenon DEF LoadInvariant, Places
<1> QED
  BY <1>1, <1>2, <1>3

\* A step of a worker k to the place x keeps the places.
LEMMA WorkerPlaces ==
  ASSUME LoadInvariant, NEW k \in Workers, pc[k] \in {"check", "send", "wait"},
         NEW x \in {"check", "send", "wait", "done"}, pc' = [pc EXCEPT ![k] = x],
         UNCHANGED <<opt, at, workers>>
  PROVE  Places'
<1>1. at = "stage" /\ k <= workers /\ k \in Int /\ workers \in Int
  <2>1. k \in Int /\ workers \in Int
    BY OptionFacts DEF LoadInvariant, TypeOK, Workers
  <2> QED
    BY <2>1, AtWork, Zenon
<1>2. pc \in [Workers -> {"off", "check", "send", "wait", "done"}] /\ Places
  BY Zenon DEF LoadInvariant, TypeOK
<1>3. \A j \in Workers : j > workers => pc'[j] = "off"
  BY <1>1, <1>2, Zenon DEF Places
<1>4. workers >= 1 /\ ValidOptions(opt)
  BY <1>1, <1>2, Zenon DEF Places
<1> QED
  BY <1>1, <1>3, <1>4, Zenon DEF Places

\* While a worker goes on with its loop the merged counts stay as they are.
LEMMA MergedKept ==
  ASSUME LoadInvariant, NEW k \in Workers, pc[k] # "done",
         NEW x \in {"check", "send", "wait"}, pc' = [pc EXCEPT ![k] = x],
         NEW s, sent' = [sent EXCEPT ![k] = s]
  PROVE  Merged' = Merged
<1>1. /\ pc \in [Workers -> {"off", "check", "send", "wait", "done"}]
      /\ sent \in [Workers -> 0 .. PerStage]
  BY Zenon DEF LoadInvariant, TypeOK
<1>2. ASSUME NEW j \in Workers
      PROVE  (IF pc'[j] = "done" THEN sent'[j] ELSE 0) = IF pc[j] = "done" THEN sent[j] ELSE 0
  BY <1>1, Zenon
<1> QED
  BY <1>2, Zenon DEF Merged

\* The loop condition and the send.
LEMMA LoopSendStep ==
  ASSUME LoadInvariant, NEW k \in Workers, Loop(k) \/ Send(k)
  PROVE  LoadInvariant'
<1>0. /\ TypeOK /\ Places /\ Counts /\ Guarded /\ Deposits
      /\ PerStage \in Nat /\ k \in Int
  <2>1. TypeOK /\ Places /\ Counts /\ Guarded /\ Deposits
    BY Zenon DEF LoadInvariant
  <2>2. PerStage \in Nat /\ k \in Int
    BY LoadAssumption DEF Workers
  <2> QED
    BY <2>1, <2>2, Zenon
<1>1. UNCHANGED <<opt, at, idx, bal, open, workers, tally, res, tripped, stop, sum, passed, landed>>
  BY Zenon DEF Loop, Send, checkVars
<1>2. PICK x \in {"send", "wait"} :
        /\ pc' = [pc EXCEPT ![k] = x]
        /\ x = "send" => /\ pc[k] = "check" /\ ~ tripped /\ sent[k] < PerStage
                         /\ UNCHANGED <<sent, after>>
        /\ x = "wait" => /\ pc[k] = "send" /\ sent' = [sent EXCEPT ![k] = @ + 1]
                         /\ after' = [after EXCEPT ![k] = IF tripped THEN @ + 1 ELSE @]
  BY Zenon DEF Loop, Send
<1>3. Places'
  BY <1>1, <1>2, WorkerPlaces, Zenon
<1>4. /\ pc \in [Workers -> {"off", "check", "send", "wait", "done"}]
      /\ sent \in [Workers -> 0 .. PerStage] /\ after \in [Workers -> Nat]
      /\ tally \in [Workers -> [n : Nat, slow : Nat, bad : Nat, errs : Nat]]
  BY <1>0, Zenon DEF TypeOK
<1>5. pc[k] = "send" => sent[k] < PerStage /\ after[k] = 0
  BY <1>0, Zenon DEF Counts, Guarded
<1>6. /\ pc' \in [Workers -> {"off", "check", "send", "wait", "done"}]
      /\ sent' \in [Workers -> 0 .. PerStage] /\ after' \in [Workers -> Nat]
  BY <1>0, <1>2, <1>4, <1>5
<1>7. TypeOK'
  BY <1>0, <1>1, <1>6, SameIds, Zenon DEF TypeOK
<1>8. Counts'
  <2>1. PICK s : sent' = [sent EXCEPT ![k] = s]
    <3>1. sent = [sent EXCEPT ![k] = sent[k]]
      BY <1>4, Zenon
    <3> QED
      BY <1>2, <3>1, Zenon
  <2>2. Merged' = Merged
    BY <1>2, <2>1, MergedKept, Zenon
  <2>3. ASSUME NEW j \in Workers
        PROVE  /\ sent'[j] = tally'[j].n + (IF pc'[j] = "wait" THEN 1 ELSE 0)
               /\ pc'[j] = "send" => sent'[j] < PerStage
               /\ pc'[j] = "off" => sent'[j] = 0
    <3>1. /\ sent[j] = tally[j].n + (IF pc[j] = "wait" THEN 1 ELSE 0)
          /\ pc[j] = "send" => sent[j] < PerStage
          /\ pc[j] = "off" => sent[j] = 0
          /\ sent[j] \in Nat /\ tally[j].n \in Nat
      BY <1>0, <1>4 DEF Counts
    <3> QED
      BY <1>1, <1>2, <1>4, <3>1
  <2> QED
    BY <1>0, <1>1, <2>2, <2>3, Zenon DEF Counts
<1>9. Guarded'
  BY <1>0, <1>1, <1>2, <1>4, <1>5 DEF Guarded
<1>10. Deposits'
  BY <1>0, <1>1, Zenon DEF Deposits, Ids, Pairs, FailedCheckHasCause
<1> QED
  BY <1>3, <1>7, <1>8, <1>9, <1>10, Zenon DEF LoadInvariant

\* A request returns: it is counted, and the API may have moved money.
LEMMA ReturnStep ==
  ASSUME LoadInvariant, NEW k \in Workers, Return(k)
  PROVE  LoadInvariant'
<1>0. TypeOK /\ Places /\ Counts /\ Guarded /\ Deposits
  BY Zenon DEF LoadInvariant
<1>1. /\ pc[k] = "wait" /\ pc' = [pc EXCEPT ![k] = "check"]
      /\ UNCHANGED <<opt, at, idx, workers, sent, res, tripped, stop, sum, passed, landed, after>>
  BY Zenon DEF Return, checkVars
<1>2. PICK kind \in {"ok", "refused", "unavailable", "error"}, slow \in {0, 1} :
        /\ Effect(kind)
        /\ tally' = [tally EXCEPT ![k] = Plus(@,
             [n |-> 1, slow |-> slow, errs |-> IF kind = "error" THEN 1 ELSE 0,
              bad |-> IF kind \in {"refused", "unavailable"} THEN 1 ELSE 0])]
  BY Zenon DEF Return
<1>3. /\ bal' \in [Ids -> Nat] /\ open' \in [Pairs -> Nat]
      /\ Total(bal', NumAccounts(opt)) = Total(bal, NumAccounts(opt))
  BY <1>0, <1>2, EffectFacts, Zenon
<1>4. /\ pc \in [Workers -> {"off", "check", "send", "wait", "done"}]
      /\ sent \in [Workers -> 0 .. PerStage]
      /\ tally \in [Workers -> [n : Nat, slow : Nat, bad : Nat, errs : Nat]]
  BY <1>0, Zenon DEF TypeOK
<1>5. /\ tally' \in [Workers -> [n : Nat, slow : Nat, bad : Nat, errs : Nat]]
      /\ \A j \in Workers : tally'[j].n = IF j = k THEN tally[j].n + 1 ELSE tally[j].n
  BY <1>2, <1>4 DEF Plus
<1>6. at = "stage"
  BY <1>1, AtWork, Zenon
<1>7. Places'
  BY <1>1, WorkerPlaces, Zenon
<1>8. TypeOK'
  BY <1>0, <1>1, <1>3, <1>4, <1>5, SameIds, Zenon DEF TypeOK
<1>9. Counts'
  <2>1. sent' = [sent EXCEPT ![k] = sent[k]]
    BY <1>1, <1>4, Zenon
  <2>2. Merged' = Merged
    <3>1. PICK s : s = sent[k]
      BY Zenon
    <3> QED
      BY <1>1, <2>1, <3>1, MergedKept, Zenon
  <2>3. ASSUME NEW j \in Workers
        PROVE  /\ sent'[j] = tally'[j].n + (IF pc'[j] = "wait" THEN 1 ELSE 0)
               /\ pc'[j] = "send" => sent'[j] < PerStage
               /\ pc'[j] = "off" => sent'[j] = 0
    <3>1. /\ sent[j] = tally[j].n + (IF pc[j] = "wait" THEN 1 ELSE 0)
          /\ pc[j] = "send" => sent[j] < PerStage
          /\ pc[j] = "off" => sent[j] = 0
          /\ tally[j].n \in Nat
      BY <1>0, <1>4, Zenon DEF Counts
    <3>2. tally'[j].n = IF j = k THEN tally[j].n + 1 ELSE tally[j].n
      BY <1>5, Zenon
    <3>3. sent'[j] = sent[j] /\ pc'[j] = IF j = k THEN "check" ELSE pc[j]
      BY <1>1, <1>4, Zenon
    <3>4. pc[k] = "wait"
      BY <1>1, Zenon
    <3>5. CASE j = k
      BY <3>1, <3>2, <3>3, <3>4, <3>5
    <3>6. CASE j # k
      BY <3>1, <3>2, <3>3, <3>6, Zenon
    <3> QED
      BY <3>5, <3>6, Zenon
  <2> QED
    BY <1>0, <1>1, <2>2, <2>3, Zenon DEF Counts
<1>10. Guarded'
  BY <1>0, <1>1, <1>4, Zenon DEF Guarded
<1>11. Deposits'
  BY <1>0, <1>1, <1>3, <1>6, Zenon DEF Deposits, FailedCheckHasCause
<1> QED
  BY <1>7, <1>8, <1>9, <1>10, <1>11, Zenon DEF LoadInvariant

\* A worker that is done adds what it has sent to the stage's result.
LEMMA MergeStep ==
  ASSUME LoadInvariant, NEW k \in Workers, Merge(k)
  PROVE  LoadInvariant'
<1>0. TypeOK /\ Places /\ Counts /\ Guarded /\ Deposits /\ MaxWorkers \in Nat
  BY OptionFacts, Zenon DEF LoadInvariant, TypeOK
<1>1. /\ pc[k] = "check" /\ pc' = [pc EXCEPT ![k] = "done"] /\ res' = Plus(res, tally[k])
      /\ UNCHANGED <<opt, at, idx, bal, open, workers, sent, tally, tripped, stop, sum,
                     passed, landed, after>>
  BY Zenon DEF Merge, checkVars
<1>2. /\ pc \in [Workers -> {"off", "check", "send", "wait", "done"}]
      /\ sent \in [Workers -> 0 .. PerStage]
      /\ tally \in [Workers -> [n : Nat, slow : Nat, bad : Nat, errs : Nat]]
      /\ res \in [n : Nat, slow : Nat, bad : Nat, errs : Nat]
  BY <1>0, Zenon DEF TypeOK
<1>3. /\ res' \in [n : Nat, slow : Nat, bad : Nat, errs : Nat]
      /\ res'.n = res.n + tally[k].n
  BY <1>1, <1>2 DEF Plus
<1>4. Places'
  BY <1>1, WorkerPlaces, Zenon
<1>5. TypeOK'
  BY <1>0, <1>1, <1>2, <1>3, SameIds, Zenon DEF TypeOK
<1>6. Counts'
  <2>1. sent[k] \in Int /\ sent[k] = tally[k].n
    BY <1>0, <1>1, <1>2, LoadAssumption DEF Counts
  <2>a. PICK f : f = Merged
    BY Zenon
  <2>b. PICK g : g = Merged'
    BY Zenon
  <2>2. PICK d \in Int : f = Merged /\ g = Merged' /\ d = sent[k]
    BY <2>1, <2>a, <2>b, Zenon
  <2>3. Added(g, f, MaxWorkers, k, d)
    <3> SUFFICES ASSUME NEW j \in Workers
                 PROVE  f[j] \in Int /\ g[j] = IF j = k THEN f[j] + d ELSE f[j]
      BY Zenon DEF Added, Workers
    <3>1. f[j] = IF pc[j] = "done" THEN sent[j] ELSE 0
      BY <2>2, Zenon DEF Merged
    <3>2. g[j] = IF pc'[j] = "done" THEN sent[j] ELSE 0
      BY <1>1, <2>2, Zenon DEF Merged
    <3>3. sent[j] \in Int
      BY <1>2, LoadAssumption
    <3>4. pc'[j] = IF j = k THEN "done" ELSE pc[j]
      BY <1>1, <1>2, Zenon
    <3>5. pc[k] = "check" /\ d = sent[k] /\ d \in Int
      BY <1>1, <2>2, Zenon
    <3>6. f[j] \in Int
      BY <3>1, <3>3
    <3>7. CASE j = k
      BY <3>1, <3>2, <3>4, <3>5, <3>6, <3>7
    <3>8. CASE j # k
      BY <3>1, <3>2, <3>4, <3>6, <3>8, Zenon
    <3> QED
      BY <3>7, <3>8, Zenon
  <2>4. k \in 1 .. MaxWorkers
    BY Zenon DEF Workers
  <2>5. Total(g, MaxWorkers) = Total(f, MaxWorkers) + d
    BY <1>0, <2>2, <2>3, <2>4, TotalAdded, Zenon
  <2>6. res'.n = Total(Merged, MaxWorkers)'
    <3>1. res.n = Total(f, MaxWorkers)
      BY <1>0, <2>2, Zenon DEF Counts
    <3> QED
      BY <1>3, <2>1, <2>2, <2>5, <3>1, Zenon
  <2>7. \A j \in Workers :
          /\ sent'[j] = tally'[j].n + (IF pc'[j] = "wait" THEN 1 ELSE 0)
          /\ pc'[j] = "send" => sent'[j] < PerStage
          /\ pc'[j] = "off" => sent'[j] = 0
    BY <1>0, <1>1, <1>2, Zenon DEF Counts
  <2> QED
    BY <2>6, <2>7, Zenon DEF Counts
<1>7. Guarded'
  BY <1>0, <1>1, <1>2, Zenon DEF Guarded
<1>8. Deposits'
  BY <1>0, <1>1, Zenon DEF Deposits, Ids, Pairs, FailedCheckHasCause
<1> QED
  BY <1>4, <1>5, <1>6, <1>7, <1>8, Zenon DEF LoadInvariant

-----------------------------------------------------------------------------
\* Steps that leave the stage alone leave its counts alone.
LEMMA CountsKept ==
  ASSUME Counts, UNCHANGED <<pc, sent, tally, res>>
  PROVE  Counts'
<1>1. Merged' = Merged
  BY Zenon DEF Merged
<1> QED
  BY <1>1, Zenon DEF Counts

\* An open transfer lands: what has been read may no longer be what is there,
\* and landed says so.
LEMMA LandStep ==
  ASSUME LoadInvariant, NEW p \in Pairs, Land(p)
  PROVE  LoadInvariant'
<1>0. TypeOK /\ Places /\ Counts /\ Guarded /\ Deposits
  BY Zenon DEF LoadInvariant
<1>1. /\ open[p] > 0 /\ bal[p[1]] > 0 /\ at \notin {"ok", "failed"} /\ bal' = Moved(p)
      /\ open' = [open EXCEPT ![p] = @ - 1]
      /\ landed' = (landed \/ (at = "sum" /\ idx > 1))
      /\ UNCHANGED <<opt, at, idx, workers, pc, sent, tally, res, tripped, stop, sum,
                     passed, after>>
  BY Zenon DEF Land, stageVars
<1>2. /\ bal' \in [Ids -> Nat]
      /\ Total(bal', NumAccounts(opt)) = Total(bal, NumAccounts(opt))
  BY <1>0, <1>1, MovedFacts, Zenon
<1>3. TypeOK'
  <2>1. open' \in [Pairs -> Nat] /\ landed' \in BOOLEAN
    BY <1>0, <1>1 DEF TypeOK
  <2> QED
    BY <1>0, <1>1, <1>2, <2>1, SameIds, Zenon DEF TypeOK
<1>4. Places'
  BY <1>0, <1>1, Zenon DEF Places
<1>5. Counts'
  BY <1>0, <1>1, CountsKept, Zenon
<1>6. Guarded'
  BY <1>0, <1>1, Zenon DEF Guarded
<1>7. at \notin {"options", "setup"}
  BY <1>0, <1>1 DEF Deposits, TypeOK
<1>8. at = "sum" => landed' \/ sum = Total(bal', idx - 1)
  <2> SUFFICES ASSUME at = "sum", ~ landed' PROVE sum = Total(bal', idx - 1)
    BY Zenon
  <2>1. idx \in Ids /\ ~ (idx > 1) /\ sum = Total(bal, idx - 1)
    BY <1>0, <1>1, Zenon DEF Deposits
  <2>2. idx - 1 = 0
    BY <2>1 DEF Ids
  <2>3. PICK f : f = bal
    BY Zenon
  <2>4. PICK g : g = bal'
    BY Zenon
  <2>5. Total(f, 0) = 0 /\ Total(g, 0) = 0
    BY TotalDef, Zenon
  <2> QED
    BY <2>1, <2>2, <2>3, <2>4, <2>5, Zenon
<1>9. Deposits'
  <2>1. /\ at \notin {"failed"} => Total(bal', NumAccounts(opt)) = Funding * NumAccounts(opt)
        /\ at \notin {"sum", "report", "ok", "failed"} => sum = 0
        /\ at = "sum" => idx \in Ids
        /\ at = "report" => landed' \/ sum = Funding * NumAccounts(opt)
        /\ passed = "none"
    BY <1>0, <1>1, <1>2, <1>7, Zenon DEF Deposits
  <2> QED
    BY <1>1, <1>7, <1>8, <2>1, Zenon DEF Deposits, Ids, FailedCheckHasCause
<1> QED
  BY <1>3, <1>4, <1>5, <1>6, <1>9, Zenon DEF LoadInvariant

\* Steps of run() that start no stage and read no balance.
LEMMA PlainStep ==
  ASSUME LoadInvariant,
         CheckOptions \/ SetupFails \/ StageEnds \/ Recover \/ ReadFails \/ Trip \/ Ended
  PROVE  LoadInvariant'
<1>0. TypeOK /\ Places /\ Counts /\ Guarded /\ Deposits
  BY Zenon DEF LoadInvariant
<1>1. UNCHANGED <<opt, bal, open, workers, pc, sent, tally, res, stop, sum, passed, landed, after>>
  BY Zenon DEF CheckOptions, SetupFails, StageEnds, Recover, ReadFails, Trip, Ended, vars,
         stageVars, checkVars
<1>2. Counts'
  BY <1>0, <1>1, CountsKept, Zenon
<1>3. tripped' \in BOOLEAN /\ (tripped => tripped')
  BY <1>0, Zenon DEF TypeOK, CheckOptions, SetupFails, StageEnds, Recover, ReadFails,
                     Trip, Ended, vars
<1>4. Guarded'
  BY <1>0, <1>1, <1>3, Zenon DEF Guarded
<1>5. /\ at' \in {"options", "setup", "stage", "judge", "recover", "sum", "report", "ok", "failed"}
      /\ idx' \in Nat
  BY <1>0 DEF TypeOK, CheckOptions, SetupFails, StageEnds, Recover, ReadFails, Trip, Ended, vars
<1>6. TypeOK'
  BY <1>0, <1>1, <1>3, <1>5, SameIds, Zenon DEF TypeOK
<1>7. Places'
  <2>1. CASE StageEnds
    <3>1. at = "stage" /\ at' = "judge" /\ \A k \in 1 .. workers : pc[k] = "done"
      BY <2>1, Zenon DEF StageEnds
    <3>2. ASSUME NEW k \in Workers PROVE pc[k] \in {"off", "done"}
      <4>1. k \in Int /\ k >= 1 /\ workers \in Int
        BY <1>0, OptionFacts DEF TypeOK, Workers
      <4>2. CASE k > workers
        BY <1>0, <4>2, Zenon DEF Places
      <4>3. CASE ~ (k > workers)
        BY <3>1, <4>1, <4>3
      <4> QED
        BY <4>2, <4>3, Zenon
    <3> QED
      BY <1>0, <1>1, <3>1, <3>2, Zenon DEF Places
  <2>2. CASE ~ StageEnds
    <3>1. /\ at' \in {"stage", "judge"} => at' = at
          /\ at \in {"stage", "judge"} => at' = at
          /\ at' \notin {"options", "failed"} => at \notin {"options", "failed"} \/ ValidOptions(opt)
      BY <1>0, <2>2, Zenon DEF TypeOK, CheckOptions, SetupFails, Recover, ReadFails, Trip, Ended, vars
    <3> QED
      BY <1>0, <1>1, <3>1, Zenon DEF Places
  <2> QED
    BY <2>1, <2>2, Zenon
<1>8. Deposits'
  <2>0. /\ opt \in Options /\ FailedCheckHasCause'
        /\ at' = "failed" => Deposits'
    BY <1>0, <1>1, Zenon DEF Deposits, TypeOK, FailedCheckHasCause
  <2>1. CASE UNCHANGED <<at, idx>>
    BY <1>0, <1>1, <2>1, Zenon DEF Deposits, Ids, Pairs, FailedCheckHasCause
  <2>2. CASE CheckOptions /\ at' # "failed"
    <3>1. at = "options" /\ at' = "setup" /\ idx' = idx /\ ValidOptions(opt)
      BY <2>2, Zenon DEF CheckOptions
    <3>2. idx = 1 /\ NumAccounts(opt) \in Int /\ NumAccounts(opt) >= 2
      BY <1>0, <2>0, <3>1, OptionFacts, Zenon DEF Deposits
    <3>3. idx \in Ids
      BY <3>2 DEF Ids
    <3> QED
      BY <1>0, <1>1, <2>0, <3>1, <3>3, Zenon DEF Deposits, Ids, Pairs
  <2>3. CASE StageEnds
    <3>1. at = "stage" /\ at' = "judge"
      BY <2>3, Zenon DEF StageEnds
    <3> QED
      BY <1>0, <1>1, <2>0, <3>1, Zenon DEF Deposits
  <2>4. CASE Recover /\ at' # "failed"
    <3>1. at = "recover" /\ at' \in {"recover", "sum"} /\ (at' = "sum" => idx' = 1)
      BY <2>4, Zenon DEF Recover
    <3>2. /\ sum = 0 /\ passed = "none"
          /\ Total(bal, NumAccounts(opt)) = Funding * NumAccounts(opt)
      BY <1>0, <3>1, Zenon DEF Deposits
    <3>3. at' = "sum" => idx' \in Ids /\ Total(bal, idx' - 1) = 0
      <4> SUFFICES ASSUME at' = "sum" PROVE idx' \in Ids /\ Total(bal, idx' - 1) = 0
        BY Zenon
      <4>1. NumAccounts(opt) \in Int /\ NumAccounts(opt) >= 2 /\ idx' = 1
        BY <1>0, <2>0, <3>1, OptionFacts, Zenon DEF Places
      <4>2. idx' \in Ids /\ idx' - 1 = 0
        BY <4>1 DEF Ids
      <4>3. PICK f : f = bal
        BY Zenon
      <4>4. Total(f, 0) = 0
        BY TotalDef, Zenon
      <4> QED
        BY <4>2, <4>3, <4>4, Zenon
    <3> QED
      BY <1>1, <2>0, <3>1, <3>2, <3>3, Zenon DEF Deposits, Ids
  <2>5. \/ at' = "failed" \/ UNCHANGED <<at, idx>> \/ (CheckOptions /\ at' # "failed")
        \/ StageEnds \/ (Recover /\ at' # "failed")
    BY Zenon DEF CheckOptions, SetupFails, StageEnds, Recover, ReadFails, Trip, Ended, vars
  <2> QED
    BY <2>0, <2>1, <2>2, <2>3, <2>4, <2>5, Zenon
<1> QED
  BY <1>2, <1>4, <1>6, <1>7, <1>8, Zenon DEF LoadInvariant

\* The next balance is added to the sum; after the last one it is compared with
\* the deposits.
LEMMA CheckStep ==
  ASSUME LoadInvariant, ReadBalance \/ Report
  PROVE  LoadInvariant'
<1>0. TypeOK /\ Places /\ Counts /\ Guarded /\ Deposits /\ opt \in Options
  BY Zenon DEF LoadInvariant, TypeOK
<1>1. UNCHANGED <<opt, bal, open, workers, pc, sent, tally, res, tripped, stop, landed, after>>
  BY Zenon DEF ReadBalance, Report, stageVars
<1>2. at \in {"sum", "report"} /\ at' \in {"sum", "report", "ok", "failed"}
  BY Zenon DEF ReadBalance, Report
<1>3. Counts' /\ Guarded'
  <2>1. Counts'
    BY <1>0, <1>1, CountsKept, Zenon
  <2> QED
    BY <1>0, <1>1, <2>1, Zenon DEF Guarded
<1>4. Places'
  BY <1>0, <1>1, <1>2, Zenon DEF Places
<1>5. CASE ReadBalance
  <2>1. /\ at = "sum" /\ sum' = sum + bal[idx] /\ idx' = idx + 1 /\ passed' = passed
        /\ at' = IF idx + 1 \in Ids THEN "sum" ELSE "report"
    BY <1>5, Zenon DEF ReadBalance
  <2>2. /\ idx \in Ids /\ (landed \/ sum = Total(bal, idx - 1)) /\ passed = "none"
        /\ Total(bal, NumAccounts(opt)) = Funding * NumAccounts(opt)
    BY <1>0, <2>1, Zenon DEF Deposits
  <2>3. NumAccounts(opt) \in Int /\ sum \in Nat /\ bal \in [Ids -> Nat]
    BY <1>0, OptionFacts, Zenon DEF TypeOK
  <2>4. idx \in Nat /\ bal[idx] \in Nat /\ idx - 1 \in Nat
    BY <2>2, <2>3 DEF Ids
  <2>5. TypeOK'
    <3>1. sum' \in Nat /\ idx' \in Nat
      BY <2>1, <2>3, <2>4
    <3>2. at' \in {"sum", "report"}
      BY <2>1, Zenon
    <3> QED
      BY <1>0, <1>1, <2>1, <3>1, <3>2, SameIds, Zenon DEF TypeOK
  <2>6. landed \/ sum' = Total(bal, idx)
    <3>1. PICK f : f = bal
      BY Zenon
    <3>2. PICK n \in Nat : n = idx - 1
      BY <2>4, Zenon
    <3>3. n + 1 = idx /\ Total(f, n + 1) = Total(f, n) + f[n + 1]
      BY <2>4, <3>2, TotalDef
    <3> QED
      BY <2>1, <2>2, <3>1, <3>2, <3>3, Zenon
  <2>7. idx + 1 \notin Ids => idx = NumAccounts(opt)
    BY <2>2, <2>3 DEF Ids
  <2>8. idx' - 1 = idx
    BY <2>1, <2>4
  <2>9. Deposits'
    BY <1>1, <2>1, <2>2, <2>6, <2>7, <2>8, Zenon DEF Deposits, Ids, FailedCheckHasCause
  <2> QED
    BY <1>3, <1>4, <2>5, <2>9, Zenon DEF LoadInvariant
<1>6. CASE Report
  <2>1. /\ at = "report" /\ idx' = idx /\ sum' = sum
        /\ passed' = IF sum = Funding * NumAccounts(opt) THEN "passed" ELSE "failed"
        /\ at' = IF sum = Funding * NumAccounts(opt) THEN "ok" ELSE "failed"
    BY <1>6, Zenon DEF Report
  <2>2. /\ landed \/ sum = Funding * NumAccounts(opt)
        /\ Total(bal, NumAccounts(opt)) = Funding * NumAccounts(opt)
    BY <1>0, <2>1, Zenon DEF Deposits
  <2>3. TypeOK'
    BY <1>0, <1>1, <2>1, SameIds, Zenon DEF TypeOK
  <2>4. Deposits'
    BY <1>1, <2>1, <2>2, Zenon DEF Deposits, FailedCheckHasCause
  <2> QED
    BY <1>3, <1>4, <2>3, <2>4, Zenon DEF LoadInvariant
<1> QED
  BY <1>5, <1>6, Zenon

\* An account is funded; after the last one the first stage begins.
LEMMA SetupStep ==
  ASSUME LoadInvariant, Setup
  PROVE  LoadInvariant'
<1>0. TypeOK /\ Places /\ Counts /\ Guarded /\ Deposits /\ opt \in Options
  BY Zenon DEF LoadInvariant, TypeOK
<1>1. /\ at = "setup" /\ bal' = [bal EXCEPT ![idx] = Funding]
      /\ idx' = IF idx + 1 \in Ids THEN idx + 1 ELSE 1
      /\ UNCHANGED <<opt, open, tripped, stop, sum, passed, landed, after>>
  BY Zenon DEF Setup, checkVars
<1>2. /\ Funding \in Nat /\ NumAccounts(opt) \in Nat /\ NumAccounts(opt) >= 2
      /\ opt.start \in 1 .. opt.max /\ ValidOptions(opt)
  BY <1>0, <1>1, OptionFacts DEF Places
<1>3. /\ idx \in Ids /\ sum = 0 /\ passed = "none"
      /\ \A a \in Ids : bal[a] = IF a < idx THEN Funding ELSE 0
      /\ \A p \in Pairs : open[p] = 0
  BY <1>0, <1>1, Zenon DEF Deposits
<1>4. /\ bal' \in [Ids -> Nat] /\ idx' \in Nat
      /\ \A a \in Ids : bal'[a] = IF a < idx + 1 THEN Funding ELSE 0
  BY <1>0, <1>1, <1>2, <1>3 DEF TypeOK, Ids
<1>5. CASE idx + 1 \in Ids
  <2>1. idx' = idx + 1 /\ UNCHANGED <<at, workers, pc, sent, tally, res>>
    BY <1>1, <1>5, Zenon DEF Setup, stageVars
  <2>2. TypeOK'
    BY <1>0, <1>1, <1>4, <2>1, SameIds, Zenon DEF TypeOK
  <2>3. Counts'
    BY <1>0, <2>1, CountsKept, Zenon
  <2>4. Places' /\ Guarded'
    BY <1>0, <1>1, <2>1, Zenon DEF Places, Guarded
  <2>5. Deposits'
    BY <1>1, <1>3, <1>4, <1>5, <2>1, Zenon DEF Deposits, Ids, Pairs, FailedCheckHasCause
  <2> QED
    BY <2>2, <2>3, <2>4, <2>5, Zenon DEF LoadInvariant
<1>6. CASE idx + 1 \notin Ids
  <2>1. Stage(opt.start, "stage")
    BY <1>6, Zenon DEF Setup
  <2>2. PICK n \in 1 .. opt.max : n = opt.start
    BY <1>2, Zenon
  <2>3. /\ StageTyped' /\ Counts' /\ workers' = n /\ at' = "stage"
        /\ \A k \in Workers : pc'[k] = IF k <= n THEN "check" ELSE "off"
    BY <1>0, <1>1, <2>1, <2>2, NewStage, Zenon
  <2>4. TypeOK'
    BY <1>0, <1>1, <1>4, <2>3, SameIds, Zenon DEF TypeOK, StageTyped
  <2>5. Places'
    <3>1. n \in Int /\ n >= 1 /\ \A k \in Workers : k \in Int
      BY <2>2 DEF Workers
    <3> QED
      BY <1>1, <1>2, <2>3, <3>1 DEF Places
  <2>6. Guarded'
    BY <1>0, <1>1, <2>3, Zenon DEF Guarded
  <2>7. Total(bal', NumAccounts(opt)) = Funding * NumAccounts(opt)
    <3>1. PICK f : f = bal'
      BY Zenon
    <3>2. PICK N \in Nat : N = NumAccounts(opt)
      BY <1>2, Zenon
    <3>3. \A j \in 1 .. N : f[j] = Funding
      BY <1>3, <1>4, <1>6, <3>1, <3>2 DEF Ids
    <3>4. Total(f, N) = Funding * N
      BY <1>2, <3>3, TotalEqual
    <3> QED
      BY <3>1, <3>2, <3>4, Zenon
  <2>8. Deposits'
    BY <1>1, <1>3, <2>3, <2>7, Zenon DEF Deposits, FailedCheckHasCause
  <2> QED
    BY <2>3, <2>4, <2>5, <2>6, <2>8, Zenon DEF LoadInvariant
<1> QED
  BY <1>5, <1>6, Zenon

\* The verdict on a stage: another stage with twice the workers, or none.
LEMMA JudgeStep ==
  ASSUME LoadInvariant, Judge
  PROVE  LoadInvariant'
<1>0. TypeOK /\ Places /\ Counts /\ Guarded /\ Deposits /\ opt \in Options
  BY Zenon DEF LoadInvariant, TypeOK
<1>1. /\ at = "judge" /\ idx' = 1
      /\ UNCHANGED <<opt, bal, open, tripped, sum, passed, landed, after>>
      /\ stop' \in {stop, "api_broke", "resource_limit"}
  BY Zenon DEF Judge, checkVars
<1>2. workers \in 1 .. opt.max /\ opt.max \in Int /\ ValidOptions(opt)
  BY <1>0, <1>1, OptionFacts DEF Places, TypeOK
<1>3. PICK n \in {0} \cup 1 .. opt.max, where \in {"stage", "recover"} :
        Stage(n, where) /\ (where = "stage" <=> n # 0)
  <2>1. \/ Stage(0, "recover")
        \/ 2 * workers <= opt.max /\ Stage(2 * workers, "stage")
    BY Zenon DEF Judge, Ramp
  <2>2. CASE Stage(0, "recover")
    BY <2>2, Zenon
  <2>3. CASE 2 * workers <= opt.max /\ Stage(2 * workers, "stage")
    <3>1. 2 * workers \in 1 .. opt.max /\ 2 * workers # 0
      BY <1>2, <2>3
    <3> QED
      BY <2>3, <3>1, Zenon
  <2> QED
    BY <2>1, <2>2, <2>3, Zenon
<1>4. /\ StageTyped' /\ Counts' /\ workers' = n /\ at' = where
      /\ \A k \in Workers : pc'[k] = IF k <= n THEN "check" ELSE "off"
  BY <1>0, <1>1, <1>3, NewStage, Zenon
<1>5. TypeOK'
  BY <1>0, <1>1, <1>4, SameIds, Zenon DEF TypeOK, StageTyped
<1>6. Places'
  <2>1. n \in Int /\ (where = "stage" => n >= 1) /\ \A k \in Workers : k \in Int /\ k >= 1
    BY <1>2, <1>3 DEF Workers
  <2>2. where = "recover" => \A k \in Workers : pc'[k] = "off"
    BY <1>3, <1>4, <2>1
  <2> QED
    BY <1>1, <1>2, <1>4, <2>1, <2>2 DEF Places
<1>7. Guarded'
  BY <1>0, <1>1, <1>4, Zenon DEF Guarded
<1>8. Deposits'
  BY <1>0, <1>1, <1>4, Zenon DEF Deposits, FailedCheckHasCause
<1> QED
  BY <1>4, <1>5, <1>6, <1>7, <1>8, Zenon DEF LoadInvariant

\* Before run() has looked at its options.
LEMMA LoadInitially == Init => LoadInvariant
<1> SUFFICES ASSUME Init PROVE LoadInvariant
  BY Zenon
<1>1. /\ opt \in Options /\ at = "options" /\ idx = 1 /\ bal = [a \in Ids |-> 0]
      /\ open = [p \in Pairs |-> 0] /\ workers = 0 /\ pc = [k \in Workers |-> "off"]
      /\ sent = [k \in Workers |-> 0] /\ tally = [k \in Workers |-> Empty] /\ res = Empty
      /\ tripped = FALSE /\ stop = "max_workers" /\ sum = 0 /\ passed = "none"
      /\ after = [k \in Workers |-> 0] /\ landed = FALSE
  BY Zenon DEF Init
<1>2. MaxWorkers \in Nat /\ PerStage \in Nat
  BY <1>1, OptionFacts, Zenon
<1>3. Empty \in [n : Nat, slow : Nat, bad : Nat, errs : Nat] /\ Empty.n = 0
  BY Zenon DEF Empty
<1>4. TypeOK
  <2>1. /\ bal \in [Ids -> Nat] /\ open \in [Pairs -> Nat] /\ sent \in [Workers -> 0 .. PerStage]
        /\ after \in [Workers -> Nat]
    BY <1>1, <1>2
  <2>2. /\ pc \in [Workers -> {"off", "check", "send", "wait", "done"}]
        /\ tally \in [Workers -> [n : Nat, slow : Nat, bad : Nat, errs : Nat]]
    BY <1>1, <1>3, Zenon
  <2> QED
    BY <1>1, <1>3, <2>1, <2>2, Zenon DEF TypeOK
<1>5. Places /\ Guarded
  BY <1>1 DEF Places, Guarded
<1>6. Counts
  <2>1. PICK m : m = Merged
    BY Zenon
  <2>2. \A j \in 1 .. MaxWorkers : m[j] = 0
    BY <1>1, <2>1, Zenon DEF Merged, Workers
  <2>3. 0 * MaxWorkers = 0 /\ 0 \in Int
    BY <1>2
  <2>4. Total(m, MaxWorkers) = 0 * MaxWorkers
    BY <1>2, <2>2, <2>3, TotalEqual, Zenon
  <2> QED
    BY <1>1, <1>3, <2>1, <2>3, <2>4 DEF Counts
<1>7. Deposits
  BY <1>1 DEF Deposits, Ids, FailedCheckHasCause
<1> QED
  BY <1>4, <1>5, <1>6, <1>7, Zenon DEF LoadInvariant

\* LoadInvariant holds in every reachable state.
LEMMA LoadInvariantHolds == Spec => []LoadInvariant
<1>1. LoadInvariant /\ [Next]_vars => LoadInvariant'
  <2> SUFFICES ASSUME LoadInvariant, [Next]_vars PROVE LoadInvariant'
    BY Zenon
  <2>1. CASE UNCHANGED vars
    <3>1. UNCHANGED <<opt, at, idx, bal, open, workers, pc, sent, tally, res, tripped,
                      stop, sum, passed, landed, after>>
      BY <2>1, Zenon DEF vars, stageVars, checkVars
    <3>2. Counts'
      BY <3>1, CountsKept, Zenon DEF LoadInvariant
    <3>3. TypeOK'
      BY <3>1, SameIds, Zenon DEF LoadInvariant, TypeOK
    <3>4. Places' /\ Guarded'
      BY <3>1, Zenon DEF LoadInvariant, Places, Guarded
    <3>5. Deposits'
      BY <3>1, SameIds, Zenon DEF LoadInvariant, Deposits, FailedCheckHasCause
    <3> QED
      BY <3>2, <3>3, <3>4, <3>5, Zenon DEF LoadInvariant
  <2>2. CASE Next
    BY <2>2, PlainStep, CheckStep, SetupStep, JudgeStep, LoopSendStep, ReturnStep,
       MergeStep, LandStep, Zenon DEF Next, Advance, Work
  <2> QED
    BY <2>1, <2>2, Zenon
<1> QED
  BY LoadInitially, <1>1, PTL DEF Spec

\* Types, and no stage ever has more workers than -max, for any options.
THEOREM LoadTypeCorrect == Spec => []TypeOK
<1>1. LoadInvariant => TypeOK
  BY Zenon DEF LoadInvariant
<1> QED
  BY LoadInvariantHolds, <1>1, PTL

\* A stage is judged on every request sent in it, for any number of workers and
\* whatever the order of their merges (runStage).
THEOREM VerdictsCountAll == Spec => []JudgedOnAll
<1>1. LoadInvariant => JudgedOnAll
  <2> SUFFICES ASSUME LoadInvariant, at = "judge"
               PROVE  res.n = Total(sent, MaxWorkers)
    BY Zenon DEF JudgedOnAll
  <2>1. MaxWorkers \in Nat
    BY LoadAssumption, Zenon
  <2>2. PICK f : f = Merged
    BY Zenon
  <2>3. PICK g : g = sent
    BY Zenon
  <2>4. ASSUME NEW j \in Workers PROVE g[j] = f[j]
    <3>1. pc[j] \in {"off", "done"} /\ (pc[j] = "off" => sent[j] = 0)
      BY Zenon DEF LoadInvariant, Places, Counts
    <3> QED
      BY <2>2, <2>3, <3>1, Zenon DEF Merged
  <2>5. Total(g, MaxWorkers) = Total(f, MaxWorkers)
    BY <2>1, <2>4, TotalSame, Zenon DEF Workers
  <2> QED
    BY <2>2, <2>3, <2>5, Zenon DEF LoadInvariant, Counts
<1> QED
  BY LoadInvariantHolds, <1>1, PTL

\* Once the host guard has tripped, a worker sends at most the request that it
\* was about to send (runStage's loop condition).
THEOREM GuardStopsWorkers == Spec => []StopsWhenTripped
<1>1. LoadInvariant => StopsWhenTripped
  BY Zenon DEF LoadInvariant, Guarded, StopsWhenTripped
<1> QED
  BY LoadInvariantHolds, <1>1, PTL

\* The consistency check fails only when an open transfer landed between two of
\* its reads (finalTotal): for any accounts, workers and requests there is no
\* other cause.
THEOREM FailedChecksAreCaused == Spec => []FailedCheckHasCause
<1>1. LoadInvariant => FailedCheckHasCause
  BY Zenon DEF LoadInvariant, Deposits
<1> QED
  BY LoadInvariantHolds, <1>1, PTL
=============================================================================
