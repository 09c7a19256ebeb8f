----------------------------- MODULE RateLimiter -----------------------------
(***************************************************************************)
(* The token bucket behind the rateLimit middleware: rate.Limiter of        *)
(* golang.org/x/time, as http/ratelimit.go uses it (Reserve, Delay,         *)
(* Cancel).  Amounts are in clock ticks: a token is TokenTicks ticks of     *)
(* refill.  A bucket is kept as of now, so Elapse refills it eagerly where  *)
(* the library does it on the next call, and times are relative to now.     *)
(* An event at -1 lies in the past.                                         *)
(***************************************************************************)
EXTENDS Integers

CONSTANT TokenTicks  \* ticks that earn one token: 1/rps

ASSUME TokenAssumption == TokenTicks \in Nat \ {0}

\* The smaller of two amounts.
AtMost(x, y) == IF x < y THEN x ELSE y

\* What a full bucket holds.
Capacity(burst) == IF burst > 0 THEN burst * TokenTicks ELSE 0

\* newPerScopeLimiters: a new limiter is full.
NewLimiter(burst) == [tokens |-> Capacity(burst), event |-> -1]

\* Reserve is OK and its Delay is zero.  With no burst at all Reserve is not OK,
\* and the middleware lets the request pass.
Passes(l, burst) == burst < 1 \/ l.tokens >= TokenTicks

\* timeToAct of the reservation that Reserve makes now.
TimeToAct(l) == IF l.tokens < TokenTicks THEN TokenTicks - l.tokens ELSE 0

\* Reserve takes a token that the bucket may not have yet.
Reserve(l, burst) ==
  IF burst < 1 THEN l
  ELSE [tokens |-> l.tokens - TokenTicks, event |-> TimeToAct(l)]

\* What Cancel gives back: not what was reserved after this reservation.
Restored(l, act) == TokenTicks - (l.event - act)

\* Variant: Cancel gives the whole token back whatever the reservation's age.
CancelWholeToken(l, act, burst) ==
  [tokens |-> AtMost(l.tokens + TokenTicks, Capacity(burst)), event |-> l.event]

\* Cancel of a reservation that acts at act; one whose time is past keeps its token.
Cancel(l, act, burst) ==
  IF act < 0 \/ Restored(l, act) <= 0 THEN l
  ELSE [tokens |-> AtMost(l.tokens + Restored(l, act), Capacity(burst)),
        event  |-> IF act = l.event /\ act - TokenTicks >= 0 THEN act - TokenTicks
                   ELSE l.event]

\* A moment nearer by one tick.
Nearer(t) == IF t > 0 THEN t - 1 ELSE -1

\* One tick passes.
Elapse(l, burst) ==
  [tokens |-> AtMost(l.tokens + 1, Capacity(burst)), event |-> Nearer(l.event)]
=============================================================================
