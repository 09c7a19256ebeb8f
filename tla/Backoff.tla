------------------------------- MODULE Backoff -------------------------------
(***************************************************************************)
(* The ceiling of a retry's random wait: a base shifted left by the number  *)
(* of attempts in a signed machine integer, then capped.  Nothing bounds    *)
(* the attempts of an outbox row, so the shift does overflow.               *)
(***************************************************************************)
EXTENDS Integers

CONSTANTS Bits,         \* width of time.Duration
          BaseBackoff,  \* relayBaseBackoff
          MaxBackoff    \* relayMaxBackoff

\* 2^n
Two[n \in Nat] == IF n = 0 THEN 1 ELSE 2 * Two[n - 1]

\* The constants fit the word, and before the shift overflows it has brought in
\* so many zeros that what is left of the base is either zero or above the
\* cap: 1 s is 5^9 * 2^9 ns, and 5^9 * 2^36 is below 2^63 and 2^36 above 60 s.
ASSUME BackoffAssumption ==
  /\ Bits \in Nat \ {0}
  /\ BaseBackoff \in 1 .. MaxBackoff /\ MaxBackoff \in 1 .. Two[Bits - 1] - 1
  /\ \E j \in 0 .. Bits - 1 : \E m \in 0 .. Bits - 1 :
       /\ BaseBackoff * Two[j] < Two[Bits - 1]
       /\ Two[m] > MaxBackoff /\ (BaseBackoff * Two[j]) % Two[m] = 0

\* relayBaseBackoff << n, as the bits of the machine word.
Shifted(n) == (BaseBackoff * Two[n]) % Two[Bits]

\* Those bits read as a signed integer.
Signed(x) == IF x >= Two[Bits - 1] THEN x - Two[Bits] ELSE x

\* Variant: only the upper limit is checked.
CeilingUpperOnly(attempts) ==
  LET ceiling == Signed(Shifted(attempts))
  IN  IF ceiling > MaxBackoff THEN MaxBackoff ELSE ceiling

\* The ceiling that nextAttempt computes.
Ceiling(attempts) ==
  LET ceiling == Signed(Shifted(attempts))
  IN  IF ceiling > MaxBackoff \/ ceiling <= 0 THEN MaxBackoff ELSE ceiling

\* "Doubling with attempts, capped" on numbers that do not overflow.
Doubling(n) ==
  IF BaseBackoff * Two[n] > MaxBackoff THEN MaxBackoff ELSE BaseBackoff * Two[n]
=============================================================================
