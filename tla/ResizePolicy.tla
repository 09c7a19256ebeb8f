---------------------------- MODULE ResizePolicy ----------------------------
(***************************************************************************)
(* The pure decision core of the elastic pool: from one sample of the      *)
(* saturation and the memory of earlier samples, grow, shrink or hold.     *)
(* Watermarks are percentages.  Streaks are only ever compared with        *)
(* HysteresisTicks, so they are counted up to it; since is the time since  *)
(* lastResizeAt in ticks, counted up to Cooldown (a zero lastResizeAt is   *)
(* past every cooldown).                                                   *)
(***************************************************************************)
EXTENDS Integers

CONSTANTS MinConns, MaxConns, HighWatermark, LowWatermark,
          HysteresisTicks, Cooldown, ResizeStep

ASSUME PolicyAssumption ==
  /\ MinConns \in Nat \ {0} /\ MaxConns \in Nat /\ MinConns <= MaxConns
  /\ LowWatermark \in 0 .. 100 /\ HighWatermark \in LowWatermark + 1 .. 100
  /\ HysteresisTicks \in Nat \ {0} /\ Cooldown \in Nat /\ ResizeStep \in Nat \ {0}

PolicyStates ==
  [high : 0 .. HysteresisTicks, low : 0 .. HysteresisTicks, since : 0 .. Cooldown]

FirstState == [high |-> 0, low |-> 0, since |-> Cooldown]

UpTo(bound, n) == IF n < bound THEN n ELSE bound

Kinds == {"high", "low", "middle"}

\* Which side of the watermarks acquired / size is on.
Sample(acquired, size) ==
  IF acquired * 100 >= HighWatermark * size THEN "high"
  ELSE IF acquired * 100 <= LowWatermark * size THEN "low"
  ELSE "middle"

\* Variant: a sample between the watermarks keeps the streaks.
CountKeep(sample, state, elapsed) ==
  [high  |-> IF sample = "high" THEN UpTo(HysteresisTicks, state.high + 1)
             ELSE IF sample = "low" THEN 0 ELSE state.high,
   low   |-> IF sample = "low" THEN UpTo(HysteresisTicks, state.low + 1)
             ELSE IF sample = "high" THEN 0 ELSE state.low,
   since |-> UpTo(Cooldown, state.since + elapsed)]

\* The streaks after one more sample, elapsed ticks after the last one.
Count(sample, state, elapsed) ==
  [high  |-> IF sample = "high" THEN UpTo(HysteresisTicks, state.high + 1) ELSE 0,
   low   |-> IF sample = "low" THEN UpTo(HysteresisTicks, state.low + 1) ELSE 0,
   since |-> UpTo(Cooldown, state.since + elapsed)]

\* decide after counting: what to do at the current size.
Decision(size, state) ==
  IF state.since < Cooldown THEN "hold"
  ELSE IF state.high >= HysteresisTicks /\ size < MaxConns THEN "grow"
  ELSE IF state.low >= HysteresisTicks /\ size > MinConns THEN "shrink"
  ELSE "hold"

\* The state that decide returns: a decision to act resets its own streak and
\* starts the cooldown, whether or not the resize then succeeds.
Decided(size, state) ==
  LET decision == Decision(size, state) IN
    IF decision = "hold" THEN state
    ELSE [high  |-> IF decision = "grow" THEN 0 ELSE state.high,
          low   |-> IF decision = "shrink" THEN 0 ELSE state.low,
          since |-> 0]

\* nextMaxConns: one step, clamped to the floor and the ceiling.
NextMaxConns(current, decision) ==
  IF decision = "grow" THEN UpTo(MaxConns, current + ResizeStep)
  ELSE IF decision = "shrink"
       THEN IF current >= MinConns + ResizeStep THEN current - ResizeStep ELSE MinConns
  ELSE current
=============================================================================
