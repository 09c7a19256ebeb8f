------------------------- MODULE WalletProcessProofs -------------------------
(***************************************************************************)
(* The rate bound, the access log and the shutdown order hold for any       *)
(* number of connections, any environments, timeouts and rates.             *)
(***************************************************************************)
EXTENDS WalletProcess, FiniteSetTheorems, TLAPS

\* Where run() may be: nothing is served under a refused configuration, whose
\* buckets stay as they are, and the pool is closed by run() only.
Lifecycle ==
  /\ proc \in {"config", "pool"} => pool = "none"
  /\ pool = "closing" => proc = "closing"
  /\ \/ ValidConfig(config)
     \/ proc \in {"config", "exited"} /\ \A s \in Scopes : ideal[s] >= 0

\* What is known of a request behind apiKeyAuth and before its handler: its key is
\* valid, and it holds a reservation only where a rate is configured.
Proper(r) ==
  /\ r.phase \in {"limit", "delay", "cancel"} => ValidKey(r.key)
  /\ r.phase \in {"delay", "cancel"} => config.rps > 0

Authenticated == \A c \in Conns : Proper(req[c])

\* Requests that hold a reservation of s that may still be given back: its Delay
\* was positive or is still to come.
Pending(s) ==
  {c \in Conns : /\ req[c].key = s
                 /\ \/ req[c].phase = "cancel" /\ req[c].act >= 0
                    \/ req[c].phase = "delay" /\ req[c].act > 0}

\* No reservation becomes pending, and those that stay keep their time.
PendingKept == \A s \in Scopes : \A c \in Pending(s)' : c \in Pending(s) /\ req'[c].act = req[c].act

\* The bucket of s never holds more than the ideal one.  It is in debt for every
\* pending reservation, the pending reservations lie a token apart, and each was
\* preceded by what the ideal bucket still has.
Bucket(s) ==
  /\ lim[s].tokens <= ideal[s] /\ 0 <= ideal[s] /\ ideal[s] <= Capacity(config.burst)
  /\ \A c \in Pending(s) :
       /\ lim[s].tokens <= - req[c].act
       /\ req[c].act <= lim[s].event
       /\ TokenTicks - req[c].act <= ideal[s]
  /\ \A c, d \in Pending(s) : c # d =>
       req[c].act - req[d].act >= TokenTicks \/ req[d].act - req[c].act >= TokenTicks

Limited == ValidConfig(config) /\ config.rps > 0
Buckets == Limited => \A s \in Scopes : Bucket(s)

IInv ==
  /\ TypeOK /\ Lifecycle /\ Authenticated /\ DrainedBeforeClose /\ Buckets
  /\ AnswersLogged

-----------------------------------------------------------------------------
LEMMA CapacityIsInt ==
  ASSUME NEW burst \in Int
  PROVE  Capacity(burst) \in Int
<1>1. burst * TokenTicks \in Int
  BY TokenAssumption, SMT
<1> QED  BY <1>1 DEF Capacity

\* A bucket that is full holds at least a token.
LEMMA CapacityAtLeastToken ==
  ASSUME NEW burst \in Int, burst > 0
  PROVE  Capacity(burst) \in Int /\ Capacity(burst) >= TokenTicks
<1>1. TokenTicks \in Nat \ {0}
  BY TokenAssumption
<1>2. burst * TokenTicks \in Int /\ burst * TokenTicks >= TokenTicks
  BY <1>1, SMT
<1> QED  BY <1>2 DEF Capacity

\* The configurations that pass loadConfig with a rate have a burst.
LEMMA LimitedBurst ==
  ASSUME config \in Configs, Limited
  PROVE  config.burst \in Int /\ config.burst > 0
BY ProcessAssumption DEF Limited, ValidConfig

\* Buckets survive a step that touches no bucket and makes no reservation.
LEMMA QuietBuckets ==
  ASSUME TypeOK, Buckets, config' = config, lim' = lim, ideal' = ideal, PendingKept
  PROVE  Buckets'
<1> SUFFICES ASSUME Limited', NEW s \in Scopes PROVE Bucket(s)'
  BY DEF Buckets
<1>1. Bucket(s)
  BY DEF Buckets, Limited, ValidConfig
<1>2. \A c \in Pending(s)' : c \in Pending(s) /\ req'[c].act = req[c].act
  BY DEF PendingKept
<1>3. (lim[s].tokens)' = lim[s].tokens /\ (lim[s].event)' = lim[s].event /\ (ideal[s])' = ideal[s]
      /\ Capacity(config.burst)' = Capacity(config.burst)
  BY DEF Capacity
<1> QED  BY <1>1, <1>2, <1>3 DEF Bucket

\* Reserve of a request that is let through.
LEMMA AdmitBuckets ==
  ASSUME TypeOK, Authenticated, Buckets, config' = config, config.rps > 0,
         NEW c \in Conns, req[c].phase = "limit", Passes(lim[req[c].key], config.burst),
         lim' = [lim EXCEPT ![req[c].key] = Reserve(lim[req[c].key], config.burst)],
         ideal' = [ideal EXCEPT ![req[c].key] = @ - TokenTicks], PendingKept
  PROVE  Buckets'
<1> DEFINE k == req[c].key
<1>0. k \in Scopes /\ TokenTicks \in Nat \ {0}
  BY TokenAssumption DEF Authenticated, Proper, ValidKey, Scopes
<1> SUFFICES ASSUME Limited', NEW s \in Scopes PROVE Bucket(s)'
  BY DEF Buckets
<1>1. Limited /\ Bucket(s) /\ Bucket(k)
  BY <1>0 DEF Buckets, Limited, ValidConfig
<1>2. config.burst \in Int /\ config.burst > 0
  BY <1>1, LimitedBurst DEF TypeOK
<1>3. \A d \in Pending(s)' : d \in Pending(s) /\ req'[d].act = req[d].act
  BY DEF PendingKept
<1>4. Capacity(config.burst)' = Capacity(config.burst) /\ Capacity(config.burst) \in Int
  BY <1>2, CapacityAtLeastToken DEF Capacity
<1>5. CASE s # k
  <2>1. lim'[s] = lim[s] /\ ideal'[s] = ideal[s]
    BY <1>5, <1>0 DEF TypeOK
  <2> QED  BY <1>1, <1>3, <1>4, <2>1 DEF Bucket
<1>6. CASE s = k
  <2>1. lim[s].tokens \in Int /\ ideal[s] \in Int
    BY DEF TypeOK
  <2>2. lim[s].tokens >= TokenTicks
    BY <1>2, <1>6 DEF Passes
  <2>3. Pending(s) = {}
    <3> SUFFICES ASSUME NEW d \in Pending(s) PROVE FALSE
      OBVIOUS
    <3>1. req[d].act >= 0 /\ lim[s].tokens <= - req[d].act /\ req[d].act \in Int
      BY <1>1 DEF Bucket, Pending, TypeOK, Requests
    <3> QED  BY <3>1, <2>1, <2>2, <1>0
  <2>4. ideal'[s] = ideal[s] - TokenTicks /\ lim'[s].tokens = lim[s].tokens - TokenTicks
    BY <1>0, <1>2, <1>6 DEF TypeOK, Reserve
  <2>5. lim'[s].tokens <= ideal'[s] /\ 0 <= ideal'[s] /\ ideal'[s] <= Capacity(config.burst)
    BY <1>0, <1>1, <1>4, <2>1, <2>2, <2>4 DEF Bucket
  <2>6. Pending(s)' = {}
    BY <1>3, <2>3
  <2> QED  BY <1>4, <2>5, <2>6 DEF Bucket
<1> QED  BY <1>5, <1>6

\* Reserve of a request that has to wait: its reservation comes a token after every
\* pending one.
LEMMA HoldBuckets ==
  ASSUME TypeOK, Authenticated, Buckets, config' = config, config.rps > 0,
         NEW c \in Conns, req[c].phase = "limit", ~ Passes(lim[req[c].key], config.burst),
         lim' = [lim EXCEPT ![req[c].key] = Reserve(lim[req[c].key], config.burst)],
         ideal' = ideal,
         req'[c].key = req[c].key, req'[c].act = TimeToAct(lim[req[c].key]),
         \A d \in Conns \ {c} : req'[d] = req[d]
  PROVE  Buckets'
<1> DEFINE k == req[c].key
<1>0. k \in Scopes /\ TokenTicks \in Nat \ {0}
  BY TokenAssumption DEF Authenticated, Proper, ValidKey, Scopes
<1> SUFFICES ASSUME Limited', NEW s \in Scopes PROVE Bucket(s)'
  BY DEF Buckets
<1>1. Limited /\ Bucket(s) /\ Bucket(k)
  BY <1>0 DEF Buckets, Limited, ValidConfig
<1>2. config.burst \in Int /\ config.burst > 0
  BY <1>1, LimitedBurst DEF TypeOK
<1>3. Capacity(config.burst)' = Capacity(config.burst)
  BY DEF Capacity
<1>4. \A d \in Conns : req[d].act \in Int
  BY DEF TypeOK, Requests
<1>5. CASE s # k
  <2>1. lim'[s] = lim[s] /\ ideal'[s] = ideal[s]
    BY <1>5, <1>0 DEF TypeOK
  <2>2. \A d \in Pending(s)' : d \in Pending(s) /\ req'[d] = req[d]
    BY <1>5 DEF Pending
  <2> QED  BY <1>1, <1>3, <2>1, <2>2 DEF Bucket
<1>6. CASE s = k
  <2> DEFINE t == lim[s].tokens
             a == TokenTicks - t
  <2>1. t \in Int /\ ideal[s] \in Int /\ lim[s].event \in Int
    BY DEF TypeOK
  <2>2. t < TokenTicks
    BY <1>0, <1>2, <1>6, <2>1 DEF Passes
  <2>3. req'[c].act = a /\ lim'[s] = [tokens |-> t - TokenTicks, event |-> a]
    BY <1>0, <1>2, <1>6, <2>2 DEF TypeOK, Reserve, TimeToAct
  <2>4. lim'[s].tokens = - a /\ lim'[s].event = a
    BY <1>0, <2>1, <2>3
  <2>5. \A d \in Pending(s)' : d = c \/ (d \in Pending(s) /\ req'[d] = req[d])
    BY DEF Pending
  <2>6. \A d \in Pending(s) : req[d].act \in Int /\ t <= - req[d].act /\ TokenTicks - req[d].act <= ideal[s]
    BY <1>1, <1>4 DEF Bucket, Pending
  <2>7. \A d \in Pending(s) : a - req[d].act >= TokenTicks
    BY <1>0, <2>1, <2>6
  <2>8. t <= ideal[s] /\ 0 <= ideal[s] /\ ideal[s] <= Capacity(config.burst)
    BY <1>1 DEF Bucket
  <2>9. lim'[s].tokens <= ideal'[s]
    BY <1>0, <2>1, <2>4, <2>8
  <2>10. ASSUME NEW d \in Pending(s)'
         PROVE  /\ lim'[s].tokens <= - req'[d].act
                /\ req'[d].act <= lim'[s].event
                /\ TokenTicks - req'[d].act <= ideal'[s]
    <3>1. CASE d = c
      BY <1>0, <2>1, <2>3, <2>4, <2>8, <3>1
    <3>2. CASE d # c
      <4>1. req'[d] = req[d] /\ d \in Pending(s)
        BY <2>5, <3>2
      <4>2. a - req[d].act >= TokenTicks /\ req[d].act \in Int /\ TokenTicks - req[d].act <= ideal[s]
        BY <2>6, <2>7, <4>1
      <4> QED  BY <1>0, <2>1, <2>4, <4>1, <4>2
    <3> QED  BY <3>1, <3>2
  <2>11. ASSUME NEW d \in Pending(s)', NEW e \in Pending(s)', d # e
         PROVE  \/ req'[d].act - req'[e].act >= TokenTicks
                \/ req'[e].act - req'[d].act >= TokenTicks
    <3>1. CASE d # c /\ e # c
      BY <1>1, <2>5, <2>11, <3>1 DEF Bucket
    <3>2. CASE d = c
      BY <2>3, <2>5, <2>7, <2>11, <3>2
    <3>3. CASE e = c
      BY <2>3, <2>5, <2>7, <2>11, <3>3
    <3> QED  BY <3>1, <3>2, <3>3
  <2> QED  BY <1>3, <2>8, <2>9, <2>10, <2>11 DEF Bucket
<1> QED  BY <1>5, <1>6

\* Cancel gives back no more than lies between this reservation and the next.
LEMMA CancelBuckets ==
  ASSUME TypeOK, Authenticated, Buckets, config' = config,
         NEW c \in Conns, req[c].phase = "cancel",
         lim' = [lim EXCEPT ![req[c].key] = Cancel(lim[req[c].key], req[c].act, config.burst)],
         ideal' = ideal, req'[c].phase = "idle",
         \A d \in Conns \ {c} : req'[d] = req[d]
  PROVE  Buckets'
<1> DEFINE k == req[c].key
<1>0. k \in Scopes /\ TokenTicks \in Nat \ {0}
  BY TokenAssumption DEF Authenticated, Proper, ValidKey, Scopes
<1> SUFFICES ASSUME Limited', NEW s \in Scopes PROVE Bucket(s)'
  BY DEF Buckets
<1>1. Limited /\ Bucket(s) /\ Bucket(k)
  BY <1>0 DEF Buckets, Limited, ValidConfig
<1>2. config.burst \in Int /\ config.burst > 0
  BY <1>1, LimitedBurst DEF TypeOK
<1>3. Capacity(config.burst)' = Capacity(config.burst) /\ Capacity(config.burst) \in Int
  BY <1>2, CapacityAtLeastToken DEF Capacity
<1>4. \A d \in Conns : req[d].act \in Int
  BY DEF TypeOK, Requests
<1>5. \A d \in Pending(s)' : d # c /\ d \in Pending(s) /\ req'[d] = req[d]
  BY DEF Pending
<1>6. CASE lim'[s] = lim[s]
  BY <1>1, <1>3, <1>5, <1>6 DEF Bucket
<1>7. CASE lim'[s] # lim[s]
  <2> DEFINE t == lim[s].tokens
             v == lim[s].event
             a == req[c].act
  <2>1. s = k /\ ~ (a < 0 \/ Restored(lim[s], a) <= 0)
    BY <1>0, <1>7 DEF TypeOK, Cancel
  <2>2. t \in Int /\ v \in Int /\ a \in Int /\ ideal[s] \in Int
    BY <1>4 DEF TypeOK
  <2>3. TokenTicks - (v - a) > 0 /\ a >= 0
    BY <1>0, <2>1, <2>2 DEF Restored
  <2>4. c \in Pending(s)
    BY <2>1, <2>3 DEF Pending
  <2>5. t <= - a /\ a <= v /\ TokenTicks - a <= ideal[s] /\ t <= ideal[s] /\ 0 <= ideal[s]
        /\ ideal[s] <= Capacity(config.burst)
    BY <1>1, <2>4 DEF Bucket
  <2>6. lim'[s] = Cancel(lim[s], a, config.burst)
    BY <1>0, <2>1 DEF TypeOK
  <2>7. /\ lim'[s].tokens = AtMost(t + (TokenTicks - (v - a)), Capacity(config.burst))
        /\ lim'[s].event = v \/ (lim'[s].event = a - TokenTicks)
    BY <2>1, <2>6 DEF Cancel, Restored
  <2>8. lim'[s].tokens \in Int /\ lim'[s].tokens <= TokenTicks - a
    BY <1>0, <1>3, <2>2, <2>5, <2>7 DEF AtMost
  <2>9. lim'[s].tokens <= ideal'[s]
    BY <1>0, <2>2, <2>5, <2>8
  <2>10. ASSUME NEW d \in Pending(s)'
         PROVE  /\ lim'[s].tokens <= - req'[d].act
                /\ req'[d].act <= lim'[s].event
                /\ TokenTicks - req'[d].act <= ideal'[s]
    <3>1. d # c /\ d \in Pending(s) /\ req'[d] = req[d] /\ req[d].act \in Int
      BY <1>4, <1>5 DEF Pending
    <3>2. req[d].act <= v /\ TokenTicks - req[d].act <= ideal[s]
      BY <1>1, <3>1 DEF Bucket
    <3>3. req[d].act - a >= TokenTicks \/ a - req[d].act >= TokenTicks
      BY <1>1, <2>4, <3>1 DEF Bucket
    <3>4. a - req[d].act >= TokenTicks
      BY <1>0, <2>2, <2>3, <3>1, <3>2, <3>3
    <3> QED  BY <1>0, <2>2, <2>7, <2>8, <3>1, <3>2, <3>4
  <2>11. \A d, e \in Pending(s)' : d # e =>
           req'[d].act - req'[e].act >= TokenTicks \/ req'[e].act - req'[d].act >= TokenTicks
    BY <1>1, <1>5 DEF Bucket
  <2> QED  BY <1>3, <2>5, <2>9, <2>10, <2>11 DEF Bucket
<1> QED  BY <1>6, <1>7

\* At most one reservation falls due with a tick, and the ideal bucket has earned
\* its token by then.
LEMMA OneFallsDue ==
  ASSUME TypeOK, NEW s \in Scopes, Bucket(s)
  PROVE  \/ FallingDue(s) = {} /\ Cardinality(FallingDue(s)) = 0
         \/ /\ Cardinality(FallingDue(s)) = 1
            /\ \E c \in Pending(s) : FallingDue(s) = {c} /\ req[c].act = 1
<1>1. CASE FallingDue(s) = {}
  BY <1>1, FS_EmptySet, Zenon
<1>2. CASE FallingDue(s) # {}
  <2>1. PICK c \in Conns : c \in FallingDue(s)
    BY <1>2 DEF FallingDue
  <2>2. \A d \in FallingDue(s) : d \in Pending(s) /\ req[d].act = 1
    BY DEF FallingDue, Pending
  <2>3. ASSUME NEW d \in FallingDue(s) PROVE d = c
    <3>1. d # c => req[d].act - req[c].act >= TokenTicks \/ req[c].act - req[d].act >= TokenTicks
      BY <2>1, <2>2 DEF Bucket
    <3> QED  BY <2>1, <2>2, <3>1, TokenAssumption
  <2>4. FallingDue(s) = {c}
    BY <2>1, <2>3, Zenon
  <2>5. Cardinality({c}) = 1
    BY FS_Singleton, Zenon
  <2> QED  BY <2>1, <2>2, <2>4, <2>5, Zenon
<1> QED  BY <1>1, <1>2, Zenon

\* A tick brings every pending reservation nearer as it refills the bucket.  The
\* one that falls due is let through with the token its wait has earned.
LEMMA TickBuckets ==
  ASSUME TypeOK, Buckets, config' = config, HttpTick
  PROVE  Buckets'
<1> SUFFICES ASSUME Limited', NEW s \in Scopes PROVE Bucket(s)'
  BY DEF Buckets
<1>0. TokenTicks \in Nat \ {0}
  BY TokenAssumption
<1>1. Limited /\ Bucket(s)
  BY DEF Buckets, Limited, ValidConfig
<1> DEFINE cap == Capacity(config.burst)
           owed == TokenTicks * Cardinality(FallingDue(s))
<1>2. cap' = cap /\ cap \in Int /\ cap >= TokenTicks
  BY <1>1, LimitedBurst, CapacityAtLeastToken DEF Capacity, TypeOK
<1>3. lim[s].tokens \in Int /\ lim[s].event \in Int /\ ideal[s] \in Int
  BY DEF TypeOK
<1>4. /\ lim'[s].tokens = AtMost(lim[s].tokens + 1, cap)
      /\ lim'[s].event = Nearer(lim[s].event)
      /\ ideal'[s] = AtMost(ideal[s] + 1, cap) - owed
  BY DEF HttpTick, Elapse
<1>5. ASSUME NEW d \in Pending(s)'
      PROVE  d \in Pending(s) /\ req[d].act \in Int /\ req'[d].act = req[d].act - 1 /\ req'[d].act >= 0
  <2>1. /\ d \in Conns /\ req'[d].phase \in {"delay", "cancel"} /\ req'[d].key = s
        /\ \/ req'[d].act >= 0
           \/ req'[d].act > 0
    BY Zenon DEF Pending
  <2>2. /\ req[d].phase \in {"delay", "cancel"} /\ req[d].key = s
        /\ req'[d].act = Nearer(req[d].act) /\ req[d].act \in Int
    BY <2>1 DEF HttpTick, TypeOK, Requests
  <2>3. req[d].act > 0 /\ req'[d].act = req[d].act - 1
    BY <2>1, <2>2 DEF Nearer
  <2> QED  BY <2>1, <2>2, <2>3 DEF Pending
<1>6. lim[s].tokens <= ideal[s] /\ 0 <= ideal[s] /\ ideal[s] <= cap
  BY <1>1 DEF Bucket
<1>7. \/ owed = 0
      \/ /\ owed = TokenTicks
         /\ \E c \in Pending(s) : /\ req[c].act = 1 /\ c \notin Pending(s)'
                                /\ lim[s].tokens <= - 1 /\ TokenTicks - 1 <= ideal[s]
  <2>1. CASE Cardinality(FallingDue(s)) = 0
    BY <1>0, <2>1
  <2>2. CASE Cardinality(FallingDue(s)) = 1
    <3>1. PICK c \in Pending(s) : FallingDue(s) = {c} /\ req[c].act = 1
      BY <1>1, <2>2, OneFallsDue
    <3>2. lim[s].tokens <= - 1 /\ TokenTicks - 1 <= ideal[s]
      BY <1>1, <3>1 DEF Bucket
    <3>3. c \in Conns /\ req[c].phase = "delay" /\ req'[c].phase = "delay" /\ req'[c].act = 0
      BY <3>1 DEF FallingDue, HttpTick, Nearer
    <3>4. c \notin Pending(s)'
      BY <3>3 DEF Pending
    <3>5. owed = TokenTicks
      BY <1>0, <2>2
    <3> QED  BY <3>1, <3>2, <3>4, <3>5, Zenon
  <2> QED  BY <1>1, <2>1, <2>2, OneFallsDue
<1> HIDE DEF owed, cap
<1>8. /\ lim'[s].tokens <= ideal'[s] /\ 0 <= ideal'[s] /\ ideal'[s] <= cap
  BY <1>0, <1>2, <1>3, <1>4, <1>6, <1>7 DEF AtMost
<1>9. ASSUME NEW d \in Pending(s)'
      PROVE  /\ lim'[s].tokens <= - req'[d].act
             /\ req'[d].act <= lim'[s].event
             /\ TokenTicks - req'[d].act <= ideal'[s]
  <2>1. d \in Pending(s) /\ req[d].act \in Int /\ req'[d].act = req[d].act - 1 /\ req'[d].act >= 0
    BY <1>5
  <2>2. lim[s].tokens <= - req[d].act /\ req[d].act <= lim[s].event
        /\ TokenTicks - req[d].act <= ideal[s]
    BY <1>1, <2>1 DEF Bucket
  <2>3. lim'[s].tokens <= - req'[d].act
    BY <1>2, <1>3, <1>4, <2>1, <2>2 DEF AtMost
  <2>4. req'[d].act <= lim'[s].event
    BY <1>3, <1>4, <2>1, <2>2 DEF Nearer
  <2>5. CASE owed = 0
    <3>1. TokenTicks - req'[d].act <= ideal'[s]
      BY <1>0, <1>2, <1>3, <1>4, <2>1, <2>2, <2>5 DEF AtMost
    <3> QED  BY <2>3, <2>4, <3>1
  <2>6. CASE owed # 0
    <3>1. PICK c \in Pending(s) : req[c].act = 1 /\ c \notin Pending(s)'
      BY <1>7, <2>6
    <3>2. req[c].act - req[d].act >= TokenTicks \/ req[d].act - req[c].act >= TokenTicks
      BY <1>1, <2>1, <3>1 DEF Bucket
    <3>3. req'[d].act >= TokenTicks
      BY <1>0, <2>1, <3>1, <3>2
    <3>4. TokenTicks - req'[d].act <= ideal'[s]
      BY <1>0, <1>2, <1>3, <1>4, <1>7, <1>8, <2>1, <2>6, <3>3 DEF AtMost
    <3> QED  BY <2>3, <2>4, <3>4
  <2> QED  BY <2>5, <2>6
<1>10. ASSUME NEW d \in Pending(s)', NEW e \in Pending(s)', d # e
      PROVE  \/ req'[d].act - req'[e].act >= TokenTicks
             \/ req'[e].act - req'[d].act >= TokenTicks
  <2>1. req[d].act - req[e].act >= TokenTicks \/ req[e].act - req[d].act >= TokenTicks
    BY <1>1, <1>5, <1>10, Zenon DEF Bucket
  <2> QED  BY <1>0, <1>5, <2>1
<1> QED  BY <1>2, <1>8, <1>9, <1>10, Zenon DEF Bucket, cap

-----------------------------------------------------------------------------
\* accessLog runs outside recoverer.
LEMMA Positions == Position("accessLog") = 2 /\ Position("recoverer") = 3
BY DEF Position, Chain

\* Every answer is logged.
LEMMA AnswerRecorded ==
  ASSUME NEW c, NEW status \in Nat, NEW panicked \in BOOLEAN, Answer(c, status, panicked)
  PROVE  AnswersLogged' /\ reply' \in [status : Nat, logged : Nat, counted : Nat]
<1>1. reply' = [status |-> status, logged |-> Logged(status, panicked),
                counted |-> Counted(status, panicked)]
  BY Zenon DEF Answer
<1>2. Logged(status, panicked) = status
  BY Positions DEF Logged, Resumes
<1>3. Counted(status, panicked) \in Nat
  BY Zenon DEF Counted
<1> QED  BY <1>1, <1>2, <1>3, Zenon DEF AnswersLogged

LEMMA RefuseRecorded ==
  ASSUME NEW c, NEW status \in Nat, Refuse(c, status)
  PROVE  /\ AnswersLogged' /\ reply' \in [status : Nat, logged : Nat, counted : Nat]
         /\ req' = [req EXCEPT ![c] = NoRequest]
<1>1. Answer(c, status, FALSE)
  BY Zenon DEF Refuse
<1>2. req' = [req EXCEPT ![c] = NoRequest]
  BY <1>1, Zenon DEF Answer
<1> QED  BY <1>1, <1>2, AnswerRecorded, Zenon

\* A step that answers nothing records nothing.
LEMMA NoReplyRecorded ==
  ASSUME reply' = NoReply
  PROVE  AnswersLogged' /\ reply' \in [status : Nat, logged : Nat, counted : Nat]
BY Zenon DEF NoReply, AnswersLogged

LEMMA StatusIsNat == \A e : StatusFor(e) \in Nat
BY DEF StatusFor

-----------------------------------------------------------------------------
\* A step of one connection keeps the invariant if the request it leaves there
\* is proper and the buckets are right.
LEMMA OneRequest ==
  ASSUME IInv, ValidConfig(config), UNCHANGED <<config, procVars>>, NEW c \in Conns, NEW r \in Requests,
         Proper(r), req' = [req EXCEPT ![c] = r],
         proc \in {"closing", "exited"} /\ err = "nil" => req[c].phase # "idle",
         lim' \in [Scopes -> [tokens : Int, event : Int]], ideal' \in [Scopes -> Int],
         AnswersLogged', reply' \in [status : Nat, logged : Nat, counted : Nat],
         Buckets'
  PROVE  IInv'
<1> USE DEF procVars
<1>1. TypeOK'
  BY Zenon DEF IInv, TypeOK
<1>2. Lifecycle'
  BY Zenon DEF IInv, Lifecycle, ValidConfig
<1>3. \A d \in Conns : Proper(req'[d])
  BY Zenon DEF IInv, TypeOK, Authenticated
<1>4. Authenticated'
  BY <1>3, Zenon DEF Authenticated, Proper, ValidKey
<1>5. DrainedBeforeClose'
  BY Zenon DEF IInv, DrainedBeforeClose
<1> QED  BY <1>1, <1>2, <1>4, <1>5, Zenon DEF IInv

\* A request that is left without a reservation leaves the pending ones as they
\* are.
LEMMA OtherPhase ==
  ASSUME TypeOK, NEW c \in Conns, NEW r, r.phase \notin {"delay", "cancel"},
         req' = [req EXCEPT ![c] = r]
  PROVE  PendingKept
BY Zenon DEF TypeOK, Pending, PendingKept

LEMMA NoRequestIsProper ==
  NoRequest \in Requests /\ Proper(NoRequest) /\ NoRequest.phase = "idle"
BY HttpAssumption DEF NoRequest, Requests, Proper, Phases, Scopes, Routes

\* A step that answers, or goes on, without touching a bucket.
LEMMA QuietAnswer ==
  ASSUME IInv, ValidConfig(config), UNCHANGED <<config, procVars, lim, ideal>>, NEW c \in Conns,
         req[c].phase # "idle", NEW status \in Nat, NEW panicked \in BOOLEAN,
         Answer(c, status, panicked)
  PROVE  IInv'
<1>1. req' = [req EXCEPT ![c] = NoRequest]
  BY Zenon DEF Answer
<1>2. Buckets'
  BY <1>1, OtherPhase, NoRequestIsProper, QuietBuckets, Zenon DEF IInv
<1>3. lim' \in [Scopes -> [tokens : Int, event : Int]] /\ ideal' \in [Scopes -> Int]
  BY Zenon DEF IInv, TypeOK
<1> QED  BY <1>1, <1>2, <1>3, AnswerRecorded, NoRequestIsProper, OneRequest, Zenon

LEMMA QuietRefuse ==
  ASSUME IInv, ValidConfig(config), UNCHANGED <<config, procVars, lim, ideal>>, NEW c \in Conns,
         req[c].phase # "idle", NEW status \in Nat, Refuse(c, status)
  PROVE  IInv'
<1>1. Answer(c, status, FALSE)
  BY Zenon DEF Refuse
<1> QED  BY <1>1, QuietAnswer, Zenon

LEMMA QuietGoto ==
  ASSUME IInv, ValidConfig(config), UNCHANGED <<config, procVars, lim, ideal>>, NEW c \in Conns,
         req[c].phase # "idle", NEW phase \in Phases \ {"delay", "cancel"},
         NEW read \in 0 .. ReadTimeout, NEW ctx \in 0 .. RequestTimeout,
         Goto(c, phase, read, ctx, 0),
         Proper([phase |-> phase, key |-> req[c].key, route |-> req[c].route,
                 read |-> read, ctx |-> ctx, act |-> 0])
  PROVE  IInv'
<1> DEFINE r == [phase |-> phase, key |-> req[c].key, route |-> req[c].route,
                 read |-> read, ctx |-> ctx, act |-> 0]
<1>1. req' = [req EXCEPT ![c] = r] /\ reply' = NoReply
  BY Zenon DEF Goto
<1>2. r \in Requests /\ r.phase \notin {"delay", "cancel"}
  BY DEF IInv, TypeOK, Requests
<1>3. Proper(r)
  BY Zenon
<1>4. lim' \in [Scopes -> [tokens : Int, event : Int]] /\ ideal' \in [Scopes -> Int]
  BY Zenon DEF IInv, TypeOK
<1> HIDE DEF r
<1>5. Buckets'
  BY <1>1, <1>2, OtherPhase, QuietBuckets, Zenon DEF IInv
<1> QED  BY <1>1, <1>2, <1>3, <1>4, <1>5, NoReplyRecorded, OneRequest, Zenon

-----------------------------------------------------------------------------
\* apiKeyAuth lets a request in only with a valid key.
LEMMA DispatchKeeps ==
  ASSUME IInv, ValidConfig(config), UNCHANGED <<config, procVars>>, NEW c \in Conns, Dispatch(c)
  PROVE  IInv'
<1>1. /\ req[c].phase # "idle" /\ UNCHANGED <<config, procVars, lim, ideal>>
      /\ req[c].read \in 0 .. ReadTimeout /\ RequestTimeout \in 0 .. RequestTimeout
      /\ 0 \in 0 .. ReadTimeout
  BY HttpAssumption DEF Dispatch, IInv, TypeOK, Requests
<1>2. CASE req[c].route = "unmatched" /\ Refuse(c, 404)
  BY <1>1, <1>2, QuietRefuse
<1>3. CASE req[c].route = "healthz" /\ Answer(c, 200, FALSE)
  BY <1>1, <1>3, QuietAnswer, ZenonT(30)
<1>4. CASE req[c].route = "readyz" /\ Goto(c, "acquire", 0, RequestTimeout, 0)
  <2>1. Proper([phase |-> "acquire", key |-> req[c].key, route |-> req[c].route,
                read |-> 0, ctx |-> RequestTimeout, act |-> 0])
    BY <1>4, Zenon DEF Proper
  <2>2. "acquire" \in Phases \ {"delay", "cancel"}
    BY Zenon DEF Phases
  <2> QED  BY <1>1, <1>4, <2>1, <2>2, QuietGoto, Zenon
<1>5. CASE req[c].route \in {"get", "post"} /\ ValidKey(req[c].key)
           /\ Goto(c, "limit", req[c].read, RequestTimeout, 0)
  <2>1. Proper([phase |-> "limit", key |-> req[c].key, route |-> req[c].route,
                read |-> req[c].read, ctx |-> RequestTimeout, act |-> 0])
    BY <1>5, Zenon DEF Proper
  <2>2. "limit" \in Phases \ {"delay", "cancel"}
    BY Zenon DEF Phases
  <2> QED  BY <1>1, <1>5, <2>1, <2>2, QuietGoto, Zenon
<1>6. CASE Refuse(c, 401)
  BY <1>1, <1>6, QuietRefuse
<1> QED  BY <1>2, <1>3, <1>4, <1>5, <1>6, Zenon DEF Dispatch

\* A connection takes part in a request only with a header on its way.
LEMMA ConnectKeeps ==
  ASSUME IInv, NEW c \in Conns, ConnectStep(c)
  PROVE  IInv'
<1>1. PICK k \in Scopes \cup {"unknown"}, route \in Routes :
        req' = [req EXCEPT ![c] = [phase |-> "header", key |-> k, route |-> route,
                                   read |-> ReadTimeout, ctx |-> 0, act |-> 0]]
  BY Zenon DEF ConnectStep, Connect
<1> DEFINE r == [phase |-> "header", key |-> k, route |-> route,
                 read |-> ReadTimeout, ctx |-> 0, act |-> 0]
<1>2. r \in Requests /\ r.phase \notin {"delay", "cancel"}
  BY HttpAssumption DEF Requests, Phases, Scopes
<1>3. Proper(r)
  BY Zenon DEF Proper
<1>4. /\ UNCHANGED <<config, procVars, lim, ideal>> /\ reply' = NoReply
      /\ ~ (proc \in {"closing", "exited"} /\ err = "nil")
  BY Zenon DEF ConnectStep, Connect, Accepting
<1>5. lim' \in [Scopes -> [tokens : Int, event : Int]] /\ ideal' \in [Scopes -> Int]
  BY <1>4, Zenon DEF IInv, TypeOK
<1> HIDE DEF r
<1>6. Buckets'
  BY <1>1, <1>2, <1>4, OtherPhase, QuietBuckets, Zenon DEF IInv, r
<1>7. ValidConfig(config)
  BY Zenon DEF ConnectStep, Accepting, IInv, Lifecycle
<1> QED  BY <1>7, <1>1, <1>2, <1>3, <1>4, <1>5, <1>6, NoReplyRecorded, OneRequest, Zenon DEF r

\* rateLimit calls the next handler: requireWriteScope refuses, or the handler
\* starts; the request holds no reservation any more.
LEMMA ServeHolds ==
  ASSUME TypeOK, NEW c \in Conns, Serve(c)
  PROVE  PendingKept
<1>1. CASE Refuse(c, 403)
  BY <1>1, RefuseRecorded, NoRequestIsProper, OtherPhase
<1>2. CASE Goto(c, "acquire", 0, req[c].ctx, 0)
  BY <1>2, OtherPhase, Zenon DEF Goto
<1>3. CASE Goto(c, "body", req[c].read, req[c].ctx, 0)
  BY <1>3, OtherPhase, Zenon DEF Goto
<1> QED  BY <1>1, <1>2, <1>3, Zenon DEF Serve

LEMMA ServeKeeps ==
  ASSUME IInv, ValidConfig(config), UNCHANGED <<config, procVars>>, NEW c \in Conns,
         req[c].phase # "idle", Serve(c), Buckets',
         lim' \in [Scopes -> [tokens : Int, event : Int]], ideal' \in [Scopes -> Int]
  PROVE  IInv'
<1>1. /\ req[c] \in Requests
      /\ req[c].read \in 0 .. ReadTimeout /\ req[c].ctx \in 0 .. RequestTimeout
  BY Zenon DEF IInv, TypeOK, Requests
<1>2. CASE req[c].route = "get" /\ Goto(c, "acquire", 0, req[c].ctx, 0)
  <2> DEFINE r == [phase |-> "acquire", key |-> req[c].key, route |-> req[c].route,
                   read |-> 0, ctx |-> req[c].ctx, act |-> 0]
  <2>1. r \in Requests
    BY <1>1, HttpAssumption DEF Requests, Phases
  <2>2. Proper(r)
    BY <1>1, <1>2, Zenon DEF Proper
  <2>3. req' = [req EXCEPT ![c] = r] /\ reply' = NoReply
    BY <1>2, Zenon DEF Goto
  <2> HIDE DEF r
  <2> QED  BY <1>1, <2>1, <2>2, <2>3, NoReplyRecorded, OneRequest, Zenon
<1>3. CASE req[c].key = "write" /\ Goto(c, "body", req[c].read, req[c].ctx, 0)
  <2> DEFINE r == [phase |-> "body", key |-> req[c].key, route |-> req[c].route,
                   read |-> req[c].read, ctx |-> req[c].ctx, act |-> 0]
  <2>1. r \in Requests
    BY <1>1 DEF Requests, Phases
  <2>2. Proper(r)
    BY <1>1, <1>3, Zenon DEF Proper
  <2>3. req' = [req EXCEPT ![c] = r] /\ reply' = NoReply
    BY <1>3, Zenon DEF Goto
  <2> HIDE DEF r
  <2> QED  BY <1>1, <2>1, <2>2, <2>3, NoReplyRecorded, OneRequest, Zenon
<1>4. CASE Refuse(c, 403)
  BY <1>1, <1>4, RefuseRecorded, NoRequestIsProper, OneRequest
<1> QED  BY <1>2, <1>3, <1>4, Zenon DEF Serve

\* The limiter's steps.
LEMMA AdmitKeeps ==
  ASSUME IInv, ValidConfig(config), UNCHANGED <<config, procVars>>, NEW c \in Conns, Admit(c)
  PROVE  IInv'
<1>0. /\ req[c].phase = "limit" /\ Serve(c) /\ req[c].key \in Scopes
      /\ TypeOK /\ Authenticated /\ Buckets /\ config' = config /\ TokenTicks \in Int
  BY TokenAssumption DEF IInv, Admit, Authenticated, Proper, ValidKey, Scopes
<1>1. PendingKept
  BY <1>0, ServeHolds, Zenon
<1>2. CASE config.rps = 0
  <2>1. UNCHANGED <<lim, ideal>>
    BY <1>2, Zenon DEF Admit
  <2>2. lim' \in [Scopes -> [tokens : Int, event : Int]] /\ ideal' \in [Scopes -> Int]
    BY <1>0, <2>1, Zenon DEF TypeOK
  <2>3. Buckets'
    BY <1>0, <1>1, <2>1, QuietBuckets, Zenon
  <2> QED  BY <1>0, <2>2, <2>3, ServeKeeps, Zenon
<1>3. CASE config.rps # 0
  <2>1. /\ Passes(lim[req[c].key], config.burst)
        /\ lim' = [lim EXCEPT ![req[c].key] = Reserve(lim[req[c].key], config.burst)]
        /\ ideal' = [ideal EXCEPT ![req[c].key] = @ - TokenTicks]
    BY <1>3, Zenon DEF Admit
  <2>2. config.rps > 0
    BY <1>0, <1>3, ProcessAssumption DEF TypeOK
  <2>3. Reserve(lim[req[c].key], config.burst) \in [tokens : Int, event : Int]
    BY <1>0 DEF Reserve, TimeToAct, TypeOK
  <2>4. lim' \in [Scopes -> [tokens : Int, event : Int]]
    BY <1>0, <2>1, <2>3, Zenon DEF TypeOK
  <2>5. ideal' \in [Scopes -> Int]
    BY <1>0, <2>1 DEF TypeOK
  <2>6. Buckets'
    BY <1>0, <1>1, <2>1, <2>2, AdmitBuckets, Zenon
  <2> QED  BY <1>0, <2>4, <2>5, <2>6, ServeKeeps, Zenon
<1> QED  BY <1>2, <1>3, Zenon

LEMMA HoldKeeps ==
  ASSUME IInv, ValidConfig(config), UNCHANGED <<config, procVars>>, NEW c \in Conns,
         HoldReservation(c)
  PROVE  IInv'
<1> DEFINE r == [phase |-> "delay", key |-> req[c].key, route |-> req[c].route,
                 read |-> req[c].read, ctx |-> req[c].ctx, act |-> TimeToAct(lim[req[c].key])]
<1>0. /\ req[c].phase = "limit" /\ req[c].key \in Scopes /\ ValidKey(req[c].key)
      /\ TypeOK /\ Authenticated /\ Buckets /\ config' = config /\ TokenTicks \in Int
  BY TokenAssumption DEF IInv, HoldReservation, Authenticated, Proper, ValidKey, Scopes
<1>1. /\ config.rps > 0 /\ ~ Passes(lim[req[c].key], config.burst)
      /\ lim' = [lim EXCEPT ![req[c].key] = Reserve(lim[req[c].key], config.burst)]
      /\ req' = [req EXCEPT ![c] = r] /\ reply' = NoReply /\ ideal' = ideal
  BY Zenon DEF HoldReservation, Goto
<1>2. r \in Requests
  BY <1>0, HttpAssumption DEF Requests, Phases, TimeToAct, TypeOK
<1>3. Proper(r)
  BY <1>0, <1>1, Zenon DEF Proper
<1>4. Reserve(lim[req[c].key], config.burst) \in [tokens : Int, event : Int]
  BY <1>0 DEF Reserve, TimeToAct, TypeOK
<1>5. lim' \in [Scopes -> [tokens : Int, event : Int]] /\ ideal' \in [Scopes -> Int]
  BY <1>0, <1>1, <1>4, Zenon DEF TypeOK
<1>6. /\ req'[c].key = req[c].key /\ req'[c].act = TimeToAct(lim[req[c].key])
      /\ \A d \in Conns \ {c} : req'[d] = req[d]
  BY <1>0, <1>1, Zenon DEF TypeOK
<1> HIDE DEF r
<1>7. Buckets'
  BY <1>0, <1>1, <1>6, HoldBuckets, Zenon
<1> QED  BY <1>0, <1>1, <1>2, <1>3, <1>5, <1>7, NoReplyRecorded, OneRequest, Zenon

\* Delay is read: the reservation is due, or it stays pending until its Cancel.
LEMMA DelayKeeps ==
  ASSUME IInv, ValidConfig(config), UNCHANGED <<config, procVars>>, NEW c \in Conns, Delay(c)
  PROVE  IInv'
<1>1. /\ req[c].phase = "delay" /\ UNCHANGED <<lim, ideal>> /\ req[c].phase # "idle"
      /\ TypeOK /\ Buckets /\ config' = config
  BY Zenon DEF Delay, IInv
<1>2. lim' \in [Scopes -> [tokens : Int, event : Int]] /\ ideal' \in [Scopes -> Int]
  BY <1>1, Zenon DEF TypeOK
<1>3. CASE Serve(c)
  BY <1>1, <1>2, <1>3, ServeHolds, QuietBuckets, ServeKeeps, Zenon
<1>4. CASE req[c].act > 0 /\ Goto(c, "cancel", 0, req[c].ctx, req[c].act)
  <2> DEFINE r == [phase |-> "cancel", key |-> req[c].key, route |-> req[c].route,
                   read |-> 0, ctx |-> req[c].ctx, act |-> req[c].act]
  <2>1. req' = [req EXCEPT ![c] = r] /\ reply' = NoReply
    BY <1>4, Zenon DEF Goto
  <2>2. r \in Requests
    BY <1>1, HttpAssumption DEF TypeOK, Requests, Phases
  <2>3. Proper(r)
    BY <1>1, Zenon DEF IInv, Authenticated, Proper
  <2>4. PendingKept
    BY <1>1, <1>4, <2>1, Zenon DEF TypeOK, Pending, PendingKept
  <2> HIDE DEF r
  <2>5. Buckets'
    BY <1>1, <2>4, QuietBuckets, Zenon
  <2> QED  BY <1>1, <1>2, <2>1, <2>2, <2>3, <2>5, NoReplyRecorded, OneRequest, Zenon
<1> QED  BY <1>3, <1>4, Zenon DEF Delay

LEMMA CancelKeeps ==
  ASSUME IInv, ValidConfig(config), UNCHANGED <<config, procVars>>, NEW c \in Conns, CancelReservation(c)
  PROVE  IInv'
<1>0. /\ req[c].phase = "cancel" /\ req[c].key \in Scopes /\ config.burst \in Int
      /\ TypeOK /\ Authenticated /\ Buckets /\ config' = config /\ TokenTicks \in Int
  BY TokenAssumption, ProcessAssumption
     DEF IInv, CancelReservation, Authenticated, Proper, ValidKey, Scopes, TypeOK
<1> DEFINE l == lim[req[c].key]
<1>1. /\ lim' = [lim EXCEPT ![req[c].key] = Cancel(l, req[c].act, config.burst)]
      /\ ideal' = ideal /\ Refuse(c, 429)
  BY Zenon DEF CancelReservation
<1>2. /\ req' = [req EXCEPT ![c] = NoRequest] /\ AnswersLogged'
      /\ reply' \in [status : Nat, logged : Nat, counted : Nat]
  BY <1>1, RefuseRecorded
<1>3. l \in [tokens : Int, event : Int] /\ req[c].act \in Int
  BY <1>0, Zenon DEF TypeOK, Requests
<1>4. Capacity(config.burst) \in Int /\ Restored(l, req[c].act) \in Int
  BY <1>0, <1>3, CapacityIsInt DEF Restored
<1>5. Cancel(l, req[c].act, config.burst) \in [tokens : Int, event : Int]
  BY <1>0, <1>3, <1>4 DEF Cancel, AtMost
<1>6. lim' \in [Scopes -> [tokens : Int, event : Int]] /\ ideal' \in [Scopes -> Int]
  BY <1>0, <1>1, <1>5, Zenon DEF TypeOK
<1>7. req'[c].phase = "idle" /\ \A d \in Conns \ {c} : req'[d] = req[d]
  BY <1>0, <1>2, NoRequestIsProper, Zenon DEF TypeOK
<1>8. Buckets'
  BY <1>0, <1>1, <1>7, CancelBuckets, Zenon
<1> QED  BY <1>0, <1>2, <1>6, <1>8, NoRequestIsProper, OneRequest, Zenon

\* The steps of a goroutine behind the middleware, and its timeouts.
LEMMA HandlerKeeps ==
  ASSUME IInv, ValidConfig(config), UNCHANGED <<config, procVars>>, NEW c \in Conns, NEW open,
         \/ HeaderTimesOut(c) \/ BodyTimesOut(c) \/ DeadlineExceeded(c) \/ BodyRead(c)
         \/ BadInput(c) \/ Acquire(c, open) \/ AcquireFails(c, open) \/ Finish(c) \/ Panic(c)
  PROVE  IInv'
<1>1. UNCHANGED <<config, procVars, lim, ideal>> /\ req[c].phase # "idle"
  BY Zenon DEF HeaderTimesOut, BodyTimesOut, DeadlineExceeded, BodyRead, BadInput, Acquire,
         AcquireFails, Finish, Panic
<1>2. ASSUME NEW status \in Nat, Refuse(c, status) PROVE IInv'
  BY <1>1, <1>2, QuietRefuse, Zenon
<1>3. CASE HeaderTimesOut(c)
  <2>1. req' = [req EXCEPT ![c] = NoRequest] /\ reply' = NoReply
    BY <1>3, Zenon DEF HeaderTimesOut
  <2>2. Buckets'
    BY <1>1, <2>1, OtherPhase, NoRequestIsProper, QuietBuckets, Zenon DEF IInv
  <2>3. lim' \in [Scopes -> [tokens : Int, event : Int]] /\ ideal' \in [Scopes -> Int]
    BY <1>1, Zenon DEF IInv, TypeOK
  <2> QED  BY <1>1, <2>1, <2>2, <2>3, NoReplyRecorded, NoRequestIsProper, OneRequest, Zenon
<1>4. CASE BodyTimesOut(c)
  BY <1>2, <1>4, StatusIsNat, Zenon DEF BodyTimesOut
<1>5. CASE DeadlineExceeded(c)
  BY <1>2, <1>5, StatusIsNat, Zenon DEF DeadlineExceeded
<1>6. CASE BadInput(c)
  BY <1>2, <1>6, StatusIsNat, Zenon DEF BadInput
<1>7. CASE AcquireFails(c, open)
  BY <1>2, <1>7, StatusIsNat, Zenon DEF AcquireFails
<1>8. CASE Finish(c)
  <2>1. PICK e \in Outcomes(req[c].route) : Answer(c, StatusFor(e), FALSE)
    BY <1>8, Zenon DEF Finish
  <2>2. Refuse(c, StatusFor(e))
    BY <2>1, Zenon DEF Refuse
  <2> QED  BY <1>2, <2>2, StatusIsNat, Zenon
<1>9. CASE Panic(c)
  <2>1. Answer(c, 500, TRUE)
    BY <1>9, Zenon DEF Panic
  <2>2. ASSUME NEW status \in Nat, NEW panicked \in BOOLEAN, Answer(c, status, panicked)
        PROVE  IInv'
    BY <1>1, <2>2, QuietAnswer, Zenon
  <2>3. 500 \in Nat /\ TRUE \in BOOLEAN
    OBVIOUS
  <2> QED  BY <2>1, <2>2, <2>3, Zenon
<1>10. /\ req[c].ctx \in 0 .. RequestTimeout /\ 0 \in 0 .. ReadTimeout
       /\ {"acquire", "busy"} \subseteq Phases \ {"delay", "cancel"}
  BY HttpAssumption DEF IInv, TypeOK, Requests, Phases
<1>11. CASE BodyRead(c)
  <2>1. Goto(c, "acquire", 0, req[c].ctx, 0)
    BY <1>11, Zenon DEF BodyRead
  <2>2. Proper([phase |-> "acquire", key |-> req[c].key, route |-> req[c].route,
                read |-> 0, ctx |-> req[c].ctx, act |-> 0])
    BY Zenon DEF Proper
  <2> QED  BY <1>1, <1>10, <2>1, <2>2, QuietGoto, Zenon
<1>12. CASE Acquire(c, open)
  <2>1. Goto(c, "busy", 0, req[c].ctx, 0)
    BY <1>12, Zenon DEF Acquire
  <2>2. Proper([phase |-> "busy", key |-> req[c].key, route |-> req[c].route,
                read |-> 0, ctx |-> req[c].ctx, act |-> 0])
    BY Zenon DEF Proper
  <2> QED  BY <1>1, <1>10, <2>1, <2>2, QuietGoto, Zenon
<1> QED  BY <1>3, <1>4, <1>5, <1>6, <1>7, <1>8, <1>9, <1>11, <1>12, Zenon

\* The steps of run(), of the listener and of signals.
LEMMA ProcessKeeps ==
  ASSUME IInv, Run \/ Signal \/ ListenerFails
  PROVE  IInv'
<1>1. NoRequestStep
  BY Zenon DEF Run, LoadConfig, OpenPool, EnsureSystem, Shutdown, Drained, DrainTimesOut, ClosePool,
         PoolClosed, Signal, ListenerFails
<1>2. UNCHANGED <<config, req, lim, ideal>> /\ reply' = NoReply
  BY <1>1, Zenon DEF NoRequestStep
<1>3. Buckets'
  BY <1>2, QuietBuckets, Zenon DEF IInv, Pending, PendingKept
<1>4. Authenticated'
  BY <1>2, Zenon DEF IInv, Authenticated, Proper, ValidKey
<1>5. AnswersLogged' /\ reply' \in [status : Nat, logged : Nat, counted : Nat]
  BY <1>2, NoReplyRecorded, Zenon
<1>6. TypeOK' /\ Lifecycle' /\ DrainedBeforeClose'
  <2> USE <1>2, <1>5, ProcessAssumption
      DEF IInv, TypeOK, Lifecycle, DrainedBeforeClose, Proceed, Return, ValidConfig
  <2>1. CASE LoadConfig
    BY <2>1, Zenon DEF LoadConfig
  <2>2. CASE OpenPool
    BY <2>2, Zenon DEF OpenPool
  <2>3. CASE EnsureSystem
    BY <2>3, Zenon DEF EnsureSystem
  <2>4. CASE Shutdown
    BY <2>4 DEF Shutdown
  <2>5. CASE Drained
    BY <2>5 DEF Drained
  <2>6. CASE DrainTimesOut
    BY <2>6, Zenon DEF DrainTimesOut
  <2>7. CASE ClosePool
    BY <2>7, Zenon DEF ClosePool
  <2>8. CASE PoolClosed
    BY <2>8, Zenon DEF PoolClosed
  <2>9. CASE Signal
    BY <2>9, Zenon DEF Signal
  <2>10. CASE ListenerFails
    BY <2>10, Zenon DEF ListenerFails
  <2> QED  BY <2>1, <2>2, <2>3, <2>4, <2>5, <2>6, <2>7, <2>8, <2>9, <2>10, Zenon DEF Run
<1> QED  BY <1>3, <1>4, <1>5, <1>6, Zenon DEF IInv

LEMMA CountDownInRange ==
  ASSUME NEW n \in Nat, NEW t \in 0 .. n
  PROVE  CountDown(t) \in 0 .. n
BY DEF CountDown

LEMMA TickKeeps ==
  ASSUME IInv, Tick
  PROVE  IInv'
<1>1. /\ HttpTick /\ UNCHANGED <<config, proc, signal, err, pool>> /\ reply' = NoReply
      /\ TypeOK /\ Buckets
  BY Zenon DEF Tick, HttpTick, IInv
<1>2. Buckets'
  BY <1>1, TickBuckets, Zenon
<1>3. \A c \in Conns : /\ req'[c].phase = req[c].phase /\ req'[c].key = req[c].key
                       /\ req'[c].route = req[c].route
  BY <1>1, Zenon DEF HttpTick
<1>4. Authenticated' /\ DrainedBeforeClose' /\ Lifecycle'
  BY <1>1, <1>3, Zenon DEF Tick, Serving, IInv, Authenticated, Proper, DrainedBeforeClose, Lifecycle,
                    ValidKey, ValidConfig
<1>5. AnswersLogged' /\ reply' \in [status : Nat, logged : Nat, counted : Nat]
  BY <1>1, NoReplyRecorded, Zenon
<1>6. left' \in 0 .. ShutdownTimeout
  BY <1>1, ProcessAssumption, CountDownInRange, Zenon DEF Tick, TypeOK
<1>7. req' \in [Conns -> Requests]
  <2>1. ASSUME NEW c \in Conns
        PROVE  /\ req[c].phase \in Phases /\ req[c].key \in Scopes \cup {"unknown", "none"}
               /\ req[c].route \in Routes \cup {"none"}
               /\ CountDown(req[c].read) \in 0 .. ReadTimeout
               /\ CountDown(req[c].ctx) \in 0 .. RequestTimeout
               /\ (IF req[c].phase \in {"delay", "cancel"} THEN Nearer(req[c].act) ELSE 0) \in Int
    <3>1. req[c] \in Requests
      BY <1>1, Zenon DEF TypeOK
    <3>2. req[c].read \in 0 .. ReadTimeout /\ req[c].ctx \in 0 .. RequestTimeout
      BY <3>1, Zenon DEF Requests
    <3>3. CountDown(req[c].read) \in 0 .. ReadTimeout /\ CountDown(req[c].ctx) \in 0 .. RequestTimeout
      BY <3>2, HttpAssumption, CountDownInRange, Zenon
    <3> QED  BY <3>1, <3>3 DEF Requests, Nearer
  <2> QED  BY <1>1, <2>1, Zenon DEF HttpTick, Requests
<1>8. config.burst \in Int /\ Capacity(config.burst) \in Int
  BY <1>1, ProcessAssumption, CapacityIsInt, Zenon DEF TypeOK
<1>9. lim' \in [Scopes -> [tokens : Int, event : Int]] /\ ideal' \in [Scopes -> Int]
  <2>1. ASSUME NEW s \in Scopes PROVE Cardinality(FallingDue(s)) \in Nat
    <3>1. CASE config.rps > 0
      <4>1. Bucket(s)
        BY <1>1, <3>1, Zenon DEF Tick, Serving, IInv, Lifecycle, Buckets, Limited
      <4> QED  BY <1>1, <4>1, OneFallsDue
    <3>2. CASE ~ config.rps > 0
      <4>1. FallingDue(s) = {}
        BY <3>2, Zenon DEF FallingDue, IInv, Authenticated, Proper
      <4> QED  BY <4>1, FS_EmptySet
    <3> QED  BY <3>1, <3>2, Zenon
  <2>2. ASSUME NEW s \in Scopes
        PROVE  AtMost(ideal[s] + 1, Capacity(config.burst))
                 - TokenTicks * Cardinality(FallingDue(s)) \in Int
    BY <1>1, <1>8, <2>1, TokenAssumption DEF AtMost, TypeOK
  <2>3. ideal' \in [Scopes -> Int]
    BY <1>1, <2>2, Zenon DEF HttpTick
  <2> QED  BY <1>1, <1>8, <2>3 DEF HttpTick, Elapse, AtMost, Nearer, TypeOK
<1>10. TypeOK'
  BY <1>1, <1>5, <1>6, <1>7, <1>9, Zenon DEF TypeOK
<1> QED  BY <1>2, <1>4, <1>5, <1>10, Zenon DEF IInv

LEMMA InitIInv == Init => IInv
<1> SUFFICES ASSUME Init PROVE IInv
  BY Zenon
<1>1. config.burst \in Int /\ Capacity(config.burst) \in Int /\ Capacity(config.burst) >= 0
  BY ProcessAssumption, TokenAssumption, CapacityAtLeastToken DEF Init, Capacity
<1>2. \A c \in Conns : req[c] = NoRequest /\ req[c].phase = "idle"
  BY NoRequestIsProper, Zenon DEF Init, HttpInit
<1>3. \A s \in Scopes : Pending(s) = {}
  BY <1>2, Zenon DEF Pending
<1>4. \A s \in Scopes : lim[s].tokens = Capacity(config.burst) /\ ideal[s] = Capacity(config.burst)
  BY Zenon DEF Init, HttpInit, NewLimiter
<1>5. Buckets
  BY <1>1, <1>3, <1>4 DEF Buckets, Bucket
<1>6. TypeOK
  <2>1. req \in [Conns -> Requests]
    BY NoRequestIsProper, Zenon DEF Init, HttpInit
  <2>2. lim \in [Scopes -> [tokens : Int, event : Int]] /\ ideal \in [Scopes -> Int]
    BY <1>1 DEF Init, HttpInit, NewLimiter
  <2>3. reply \in [status : Nat, logged : Nat, counted : Nat]
    BY Zenon DEF Init, HttpInit, NoReply
  <2>4. left \in 0 .. ShutdownTimeout
    BY ProcessAssumption DEF Init
  <2> QED  BY <2>1, <2>2, <2>3, <2>4, Zenon DEF Init, TypeOK
<1>7. Lifecycle /\ Authenticated /\ DrainedBeforeClose /\ AnswersLogged
  BY <1>1, <1>2, <1>4, Zenon DEF Init, HttpInit, NoReply, Lifecycle, Authenticated, Proper,
              DrainedBeforeClose, AnswersLogged
<1> QED  BY <1>5, <1>6, <1>7, Zenon DEF IInv

LEMMA StepIInv == IInv /\ [Next]_vars => IInv'
<1> SUFFICES ASSUME IInv, [Next]_vars PROVE IInv'
  BY Zenon
<1>1. CASE Run \/ Signal \/ ListenerFails
  BY <1>1, ProcessKeeps, Zenon
<1>2. CASE Tick
  BY <1>2, TickKeeps, Zenon
<1>3. CASE Gone \/ UNCHANGED vars
  <2>1. UNCHANGED <<config, req, reply, lim, ideal, procVars>>
    BY <1>3, Zenon DEF Gone, vars, httpVars
  <2>2. TypeOK' /\ Lifecycle' /\ Authenticated' /\ DrainedBeforeClose' /\ AnswersLogged'
    BY <2>1, Zenon DEF IInv, TypeOK, Lifecycle, Authenticated, Proper, ValidKey,
                ValidConfig, DrainedBeforeClose, AnswersLogged, procVars
  <2>3. Buckets'
    BY <2>1, QuietBuckets, Zenon DEF IInv, Pending, PendingKept
  <2> QED  BY <2>2, <2>3, Zenon DEF IInv
<1>4. ASSUME NEW c \in Conns, ConnectStep(c) PROVE IInv'
  BY <1>4, ConnectKeeps, Zenon
<1>5. ASSUME NEW c \in Conns, ServeStep(c) PROVE IInv'
  <2>1. Handle(c, pool = "open") /\ UNCHANGED <<config, procVars>> /\ ValidConfig(config)
    BY <1>5, Zenon DEF ServeStep, Serving, IInv, Lifecycle
  <2> DEFINE open == pool = "open"
  <2>2. Handle(c, open)
    BY <2>1, Zenon
  <2> HIDE DEF open
  <2>3. CASE Admit(c)
    BY <2>1, <2>3, AdmitKeeps, Zenon
  <2>4. CASE HoldReservation(c)
    BY <2>1, <2>4, HoldKeeps, Zenon
  <2>8. CASE Delay(c)
    BY <2>1, <2>8, DelayKeeps, Zenon
  <2>5. CASE CancelReservation(c)
    BY <2>1, <2>5, CancelKeeps, Zenon
  <2>6. CASE Dispatch(c)
    BY <2>1, <2>6, DispatchKeeps, Zenon
  <2>7. CASE \/ HeaderTimesOut(c) \/ BodyTimesOut(c) \/ DeadlineExceeded(c) \/ BodyRead(c)
             \/ BadInput(c) \/ Acquire(c, open) \/ AcquireFails(c, open) \/ Finish(c) \/ Panic(c)
    BY <2>1, <2>7, HandlerKeeps, Zenon
  <2> QED  BY <2>2, <2>3, <2>4, <2>5, <2>6, <2>7, <2>8, Zenon DEF Handle, Forced
<1> QED  BY <1>1, <1>2, <1>3, <1>4, <1>5, Zenon DEF Next

-----------------------------------------------------------------------------
\* The process, its requests and its limiters keep their types.
THEOREM TypeCorrect == Spec => []TypeOK
<1>1. IInv => TypeOK
  BY Zenon DEF IInv
<1> QED  BY InitIInv, StepIInv, <1>1, PTL DEF Spec

\* rateLimit: however many waiting or rejected requests hold a reservation at once,
\* a key is let through at most burst requests plus what the rate earns.
THEOREM RateBounded == Spec => []RateBound
<1>1. IInv => RateBound
  <2> SUFFICES ASSUME IInv, config.rps > 0, NEW s \in Scopes PROVE ideal[s] >= 0
    BY Zenon DEF RateBound
  <2> QED  BY Zenon DEF IInv, TypeOK, Lifecycle, Buckets, Limited, Bucket
<1> QED  BY InitIInv, StepIInv, <1>1, PTL DEF Spec

\* NewRouter's order of the middleware: accessLog sees every answer, those of
\* recovered panics included.
THEOREM AnswersAreLogged == Spec => []AnswersLogged
<1>1. IInv => AnswersLogged
  BY Zenon DEF IInv
<1> QED  BY InitIInv, StepIInv, <1>1, PTL DEF Spec

\* run() that returns nil has drained every request before it closes the pool.
THEOREM DrainsBeforeClose == Spec => []DrainedBeforeClose
<1>1. IInv => DrainedBeforeClose
  BY Zenon DEF IInv
<1> QED  BY InitIInv, StepIInv, <1>1, PTL DEF Spec
=============================================================================
