-------------------------------- MODULE Money --------------------------------
(***************************************************************************)
(* domain.Money: cents in a signed machine integer that wraps, the checks   *)
(* of Add and Sub, and the debit rule as it is computed from them.          *)
(***************************************************************************)
EXTENDS Ledger

CONSTANT MaxInt  \* math.MaxInt64; the least integer is -MaxInt - 1

ASSUME MoneyAssumption == MaxInt \in Nat \ {0}

MinInt == -MaxInt - 1
Int64 == MinInt .. MaxInt
Modulus == 2 * (MaxInt + 1)

\* The machine's sum and negation of two Int64 values.
Wrap(x) == IF x > MaxInt THEN x - Modulus ELSE IF x < MinInt THEN x + Modulus ELSE x

Overflow == [err |-> "overflow", value |-> 0]
Ok(x) == [err |-> "nil", value |-> x]

\* Money.Add
Add(a, b) ==
  LET sum == Wrap(a + b) IN
  IF (b > 0 /\ sum < a) \/ (b < 0 /\ sum > a) THEN Overflow ELSE Ok(sum)

\* Money.Sub
Sub(a, b) == IF b = MinInt THEN Overflow ELSE Add(a, Wrap(-b))

\* The magnitude that Money.String prints: negation in the unsigned type.
Magnitude(cents) ==
  LET abs == IF cents < 0 THEN cents + Modulus ELSE cents
  IN  IF cents < 0 THEN Modulus - abs ELSE abs

\* Variant: CanDebit on the wrapped difference, without Sub.
DebitErrorUnchecked(balance, amount, a) ==
  IF a = System THEN "nil"
  ELSE IF Wrap(balance - amount) < 0 THEN "insufficient" ELSE "nil"

\* domain.CanDebit as computed: the error it returns.
DebitError(balance, amount, a) ==
  IF a = System THEN "nil"
  ELSE IF Sub(balance, amount).err # "nil" THEN Sub(balance, amount).err
  ELSE IF Sub(balance, amount).value < 0 THEN "insufficient" ELSE "nil"

-----------------------------------------------------------------------------
\* Add and Sub return the exact result or report that there is none in range,
\* and never report an overflow that is not one, except Sub of the least
\* integer, which it always refuses; String prints the true magnitude.
MoneyExact ==
  \A a, b \in Int64 :
    /\ Add(a, b) = IF a + b \in Int64 THEN Ok(a + b) ELSE Overflow
    /\ Sub(a, b) = IF b # MinInt /\ a - b \in Int64 THEN Ok(a - b) ELSE Overflow
    /\ Magnitude(a) = IF a < 0 THEN -a ELSE a

\* The debit rule on machine integers is the ledger's rule on true sums: no
\* wrapped difference lets a debit through or refuses one.
DebitRuleExact ==
  \A balance \in Int64, amount \in 1 .. MaxInt, a \in AccountIds :
    DebitError(balance, amount, a) = "nil" <=> CanDebit(balance, amount, a)
=============================================================================
