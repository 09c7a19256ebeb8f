--------------------------- MODULE LedgerTheorems ---------------------------
(***************************************************************************)
(* Facts that the proofs of both strategies share: balances of a log and   *)
(* of its prefixes, proved for every log, what a typed command is, the     *)
(* greatest element of a finite set of ids, and its first elements, which  *)
(* are a page.  The inductions go through the well-foundedness of < on     *)
(* Nat, stated once as NatSetInduction.                                    *)
(***************************************************************************)
EXTENDS TransferService, FiniteSetsExt, FiniteSetTheorems, WellFoundedInduction, TLAPS

(* Induction over the naturals, for membership in a set. *)
LEMMA NatSetInduction ==
  ASSUME NEW S, 0 \in S, \A n \in Nat : n \in S => n + 1 \in S
  PROVE  Nat \subseteq S
<1> DEFINE R == OpToRel(<, Nat)
           Bad == Nat \ S
<1>1. IsWellFoundedOn(R, Nat)
  BY NatLessThanWellFounded, Zenon
<1>2. \A x, y \in Nat : x < y => <<x, y>> \in R
  BY DEF OpToRel
<1> HIDE DEF R
<1> SUFFICES ASSUME Bad # {} PROVE FALSE
  OBVIOUS
<1>3. PICK x \in Bad : \A y \in Bad : ~ (<<y, x>> \in R)
  <2>1. Bad \subseteq Nat
    OBVIOUS
  <2> HIDE DEF Bad
  <2> QED
    BY <1>1, <2>1, WFMin, Zenon
<1>4. x # 0 /\ x - 1 \in Nat /\ x - 1 < x
  OBVIOUS
<1>5. x - 1 \in S
  BY <1>2, <1>3, <1>4, Zenon
<1> QED
  BY <1>4, <1>5

(* s holds the partial sums of a's amounts over the first n rows of log. *)
IsRunningSum(s, log, a, n) ==
  /\ s \in [0 .. n -> Int]
  /\ s[0] = 0
  /\ \A i \in 1 .. n : s[i] = s[i - 1] + AmountFor(log[i], a)

(* Every row contributes an integer. *)
LEMMA AmountType ==
  ASSUME NEW log \in Seq(Entry), NEW a, NEW i \in 1 .. Len(log)
  PROVE  AmountFor(log[i], a) \in Int
<1>1. log[i] \in Entry
  OBVIOUS
<1>2. log[i].amount \in Int
  BY <1>1 DEF Entry
<1> QED
  BY <1>2 DEF AmountFor

(* Partial sums exist for every prefix of a log. *)
LEMMA RunningSumExists ==
  ASSUME NEW log \in Seq(Entry), NEW a
  PROVE  \A n \in 0 .. Len(log) : \E s : IsRunningSum(s, log, a, n)
<1> DEFINE S == {n \in Nat : n <= Len(log) => \E s : IsRunningSum(s, log, a, n)}
<1>1. 0 \in S
  <2>1. IsRunningSum([i \in 0 .. 0 |-> 0], log, a, 0)
    BY DEF IsRunningSum
  <2> QED
    BY <2>1
<1>2. ASSUME NEW n \in Nat, n \in S
      PROVE  n + 1 \in S
  <2> SUFFICES ASSUME n + 1 <= Len(log)
               PROVE  \E s : IsRunningSum(s, log, a, n + 1)
    OBVIOUS
  <2>1. Len(log) \in Nat
    OBVIOUS
  <2>2. PICK s : IsRunningSum(s, log, a, n)
    BY <1>2, <2>1
  <2> DEFINE x == s[n] + AmountFor(log[n + 1], a)
             t == [i \in 0 .. n + 1 |-> IF i = n + 1 THEN x ELSE s[i]]
  <2>3. x \in Int
    <3>1. n + 1 \in 1 .. Len(log) /\ n \in 0 .. n
      BY <2>1
    <3>2. AmountFor(log[n + 1], a) \in Int
      BY <3>1, AmountType, Zenon
    <3> QED
      BY <2>2, <3>1, <3>2 DEF IsRunningSum
  <2>4. t \in [0 .. n + 1 -> Int] /\ t[0] = 0
    BY <2>2, <2>3 DEF IsRunningSum
  <2>5. ASSUME NEW i \in 1 .. n + 1
        PROVE  t[i] = t[i - 1] + AmountFor(log[i], a)
    BY <2>2 DEF IsRunningSum
  <2>6. IsRunningSum(t, log, a, n + 1)
    BY <2>4, <2>5, Zenon DEF IsRunningSum
  <2> QED
    BY <2>6
<1>3. Nat \subseteq S
  <2> HIDE DEF S
  <2> QED
    BY <1>1, <1>2, NatSetInduction
<1> QED
  BY <1>3

(* Partial sums over a prefix are determined by the rows of that prefix. *)
LEMMA RunningSumUnique ==
  ASSUME NEW log, NEW olog, NEW a, NEW n \in Nat, NEW m \in Nat, n <= m,
         NEW s, IsRunningSum(s, log, a, n),
         NEW t, IsRunningSum(t, olog, a, m),
         \A i \in 1 .. n : olog[i] = log[i]
  PROVE  \A i \in 0 .. n : t[i] = s[i]
<1> DEFINE S == {i \in Nat : i <= n => t[i] = s[i]}
<1>1. 0 \in S
  BY DEF IsRunningSum
<1>2. ASSUME NEW i \in Nat, i \in S
      PROVE  i + 1 \in S
  <2> SUFFICES ASSUME i + 1 <= n
               PROVE  t[i + 1] = s[i + 1]
    OBVIOUS
  <2>1. i + 1 \in 1 .. n /\ i + 1 \in 1 .. m /\ (i + 1) - 1 = i /\ t[i] = s[i]
    BY <1>2
  <2> QED
    BY <2>1 DEF IsRunningSum
<1>3. Nat \subseteq S
  <2> HIDE DEF S
  <2> QED
    BY <1>1, <1>2, NatSetInduction
<1> QED
  BY <1>3

(* The recursive definition of RunningSum satisfies its equations. *)
LEMMA RunningSumDef ==
  ASSUME NEW log \in Seq(Entry), NEW a
  PROVE  IsRunningSum(RunningSum(log, a), log, a, Len(log))
<1> DEFINE N == Len(log)
           Eq(s) == s = [i \in 0 .. N |->
                           IF i = 0 THEN 0 ELSE s[i - 1] + AmountFor(log[i], a)]
<1>0. N \in Nat
  OBVIOUS
<1>1. PICK s : IsRunningSum(s, log, a, N)
  <2>1. N \in 0 .. Len(log)
    BY <1>0
  <2> QED
    BY <2>1, RunningSumExists, Zenon
<1>2. Eq(s)
  BY <1>0, <1>1 DEF IsRunningSum
<1>3. Eq(RunningSum(log, a))
  <2>1. RunningSum(log, a) = CHOOSE r : Eq(r)
    BY DEF RunningSum
  <2> HIDE DEF Eq
  <2> QED
    BY <1>2, <2>1
<1> DEFINE r == RunningSum(log, a)
<1> HIDE DEF r
<1>4. Eq(r)
  BY <1>3 DEF r
<1>5. DOMAIN r = 0 .. N /\ r[0] = 0
  BY <1>0, <1>4
<1>6. \A i \in 1 .. N : r[i] = r[i - 1] + AmountFor(log[i], a)
  BY <1>0, <1>4
<1>7. \A i \in 0 .. N : r[i] = s[i]
  <2> DEFINE S == {i \in Nat : i <= N => r[i] = s[i]}
  <2>1. 0 \in S
    BY <1>1, <1>5 DEF IsRunningSum
  <2>2. ASSUME NEW i \in Nat, i \in S
        PROVE  i + 1 \in S
    <3> SUFFICES ASSUME i + 1 <= N
                 PROVE  r[i + 1] = s[i + 1]
      OBVIOUS
    <3>1. i + 1 \in 1 .. N /\ (i + 1) - 1 = i /\ r[i] = s[i]
      BY <1>0, <2>2
    <3> QED
      BY <1>1, <1>6, <3>1 DEF IsRunningSum
  <2>3. Nat \subseteq S
    <3> HIDE DEF S
    <3> QED
      BY <2>1, <2>2, NatSetInduction
  <2> QED
    BY <1>0, <2>3
<1>8. r = s
  <2>1. r = [i \in 0 .. N |-> r[i]]
    BY <1>4, <1>5
  <2>2. s = [i \in 0 .. N |-> s[i]]
    BY <1>1 DEF IsRunningSum
  <2> QED
    BY <1>7, <2>1, <2>2
<1> QED
  BY <1>1, <1>8 DEF r

(***************************************************************************)
(* A balance is an integer, and appending a row changes only the balance   *)
(* of the row's account, by the row's amount.                              *)
(***************************************************************************)
THEOREM BalanceType ==
  ASSUME NEW log \in Seq(Entry), NEW a
  PROVE  Balance(log, a) \in Int
<1>1. Len(log) \in 0 .. Len(log)
  OBVIOUS
<1> QED
  BY <1>1, RunningSumDef DEF Balance, IsRunningSum

(* A ledger without rows gives every account the balance zero. *)
THEOREM BalanceEmpty ==
  ASSUME NEW a
  PROVE  Balance(<< >>, a) = 0
<1>1. << >> \in Seq(Entry) /\ Len(<< >>) = 0
  OBVIOUS
<1> QED
  BY <1>1, RunningSumDef, Zenon DEF Balance, IsRunningSum

(* One more entry moves its own account by its amount, and no other. *)
THEOREM BalanceAppend ==
  ASSUME NEW log \in Seq(Entry), NEW e \in Entry, NEW a
  PROVE  Balance(Append(log, e), a) = Balance(log, a) + AmountFor(e, a)
<1> DEFINE N == Len(log)
           more == Append(log, e)
           s == RunningSum(log, a)
           t == RunningSum(more, a)
<1>1. /\ more \in Seq(Entry)
      /\ N \in Nat
      /\ Len(more) = N + 1
      /\ more[N + 1] = e
      /\ \A i \in 1 .. N : more[i] = log[i]
  OBVIOUS
<1>2. IsRunningSum(s, log, a, N)
  BY RunningSumDef
<1>3. IsRunningSum(t, more, a, N + 1)
  BY <1>1, RunningSumDef, Zenon
<1> HIDE DEF more, s, t, N
<1>4. t[N] = s[N]
  <2>1. N <= N + 1 /\ N + 1 \in Nat /\ N \in 0 .. N
    BY <1>1
  <2>2. \A i \in 0 .. N : t[i] = s[i]
    BY <1>1, <1>2, <1>3, <2>1, RunningSumUnique
  <2> QED
    BY <2>1, <2>2
<1>5. t[N + 1] = t[N] + AmountFor(e, a)
  <2>1. N + 1 \in 1 .. N + 1 /\ (N + 1) - 1 = N
    BY <1>1
  <2> QED
    BY <1>1, <1>3, <2>1 DEF IsRunningSum
<1> QED
  BY <1>1, <1>4, <1>5 DEF Balance, more, s, t, N

(* The two entries of a transfer between distinct accounts keep the log    *)
(* well formed, take the amount from the source, give it to the            *)
(* destination and leave every other balance alone (Execute's inserts).    *)
THEOREM BalancePair ==
  ASSUME NEW log \in Seq(Entry), NEW t \in Transfers,
         NEW from \in Accounts, NEW to \in Accounts, from # to,
         NEW amount \in Int, NEW n \in Nat
  PROVE  LET more == log \o EntryPair(t, from, to, amount, n) IN
         /\ more \in Seq(Entry)
         /\ Balance(more, from) = Balance(log, from) - amount
         /\ Balance(more, to) = Balance(log, to) + amount
         /\ \A a : a # from /\ a # to => Balance(more, a) = Balance(log, a)
<1> DEFINE debit == [id |-> n + 1, transfer |-> t, account |-> from, amount |-> -amount]
           credit == [id |-> n + 2, transfer |-> t, account |-> to, amount |-> amount]
           once == Append(log, debit)
           more == log \o EntryPair(t, from, to, amount, n)
<1>1. debit \in Entry /\ credit \in Entry
  BY DEF Entry
<1>2. once \in Seq(Entry)
  BY <1>1
<1>3. more = Append(once, credit)
  BY <1>1, SMTT(20) DEF EntryPair
<1>4. more \in Seq(Entry)
  BY <1>1, <1>2, <1>3
<1>5. \A a : Balance(more, a) = Balance(log, a) + AmountFor(debit, a) + AmountFor(credit, a)
  <2> TAKE a
  <2>1. Balance(once, a) = Balance(log, a) + AmountFor(debit, a)
    BY <1>1, BalanceAppend
  <2>2. Balance(Append(once, credit), a) = Balance(once, a) + AmountFor(credit, a)
    BY <1>1, <1>2, BalanceAppend, Zenon
  <2> QED
    BY <2>1, <2>2, <1>3
<1>6. \A a : Balance(log, a) \in Int
  BY BalanceType
<1>7. /\ AmountFor(debit, from) = -amount /\ AmountFor(credit, from) = 0
      /\ AmountFor(debit, to) = 0 /\ AmountFor(credit, to) = amount
      /\ \A a : a # from /\ a # to => AmountFor(debit, a) = 0 /\ AmountFor(credit, a) = 0
  BY AccountsAssumption DEF AmountFor
<1> HIDE DEF debit, credit, once, more
<1> SUFFICES /\ more \in Seq(Entry)
             /\ Balance(more, from) = Balance(log, from) - amount
             /\ Balance(more, to) = Balance(log, to) + amount
             /\ \A a : a # from /\ a # to => Balance(more, a) = Balance(log, a)
  BY DEF more
<1> QED
  BY <1>4, <1>5, <1>6, <1>7

\* more is log with a debit of f and a credit of g, of transfer t, at its end.
PairAdded(more, log, t, f, g, a) ==
  /\ Len(more) = Len(log) + 2 /\ Len(log) \in Nat
  /\ \A i \in 1 .. Len(log) : more[i] = log[i]
  /\ more[Len(log) + 1].transfer = t /\ more[Len(log) + 1].account = f
  /\ more[Len(log) + 1].amount = -a
  /\ more[Len(log) + 2].transfer = t /\ more[Len(log) + 2].account = g
  /\ more[Len(log) + 2].amount = a

\* Their ids follow n.
PairNumbered(more, log, n) ==
  more[Len(log) + 1].id = n + 1 /\ more[Len(log) + 2].id = n + 2

\* That is what the insert batch of a transfer does to the ledger.
LEMMA PairMoves ==
  ASSUME NEW log \in Seq(Entry), NEW t \in Transfers, NEW f \in Accounts, NEW g \in Accounts,
         NEW a \in Int, NEW n \in Nat, NEW more, more = log \o EntryPair(t, f, g, a, n)
  PROVE  PairAdded(more, log, t, f, g, a) /\ PairNumbered(more, log, n)
<1> DEFINE debit == [id |-> n + 1, transfer |-> t, account |-> f, amount |-> -a]
           credit == [id |-> n + 2, transfer |-> t, account |-> g, amount |-> a]
           half == Append(log, debit)
<1>1. debit \in Entry /\ credit \in Entry
  BY DEF Entry
<1>2. more = Append(half, credit)
  BY <1>1, SMTT(20) DEF EntryPair
<1>3. /\ debit.transfer = t /\ debit.account = f /\ debit.amount = -a
      /\ credit.transfer = t /\ credit.account = g /\ credit.amount = a
      /\ debit.id = n + 1 /\ credit.id = n + 2
  OBVIOUS
<1> HIDE DEF debit, credit
<1>4. /\ half \in Seq(Entry) /\ Len(half) = Len(log) + 1 /\ Len(log) \in Nat
      /\ half[Len(log) + 1] = debit /\ \A i \in 1 .. Len(log) : half[i] = log[i]
  BY <1>1
<1> HIDE DEF half
<1>5. /\ more \in Seq(Entry) /\ Len(more) = Len(half) + 1
      /\ more[Len(half) + 1] = credit /\ \A i \in 1 .. Len(half) : more[i] = half[i]
  BY <1>1, <1>2, <1>4
<1>6. more[Len(log) + 1] = debit /\ more[Len(log) + 2] = credit
  <2>1. Len(half) + 1 = Len(log) + 2 /\ Len(log) + 1 \in 1 .. Len(half)
    BY <1>4
  <2> QED
    BY <1>4, <1>5, <2>1
<1>7. \A i \in 1 .. Len(log) : more[i] = log[i]
  BY <1>4, <1>5
<1>8. Len(more) = Len(log) + 2
  BY <1>4, <1>5
<1> QED
  BY <1>3, <1>4, <1>5, <1>6, <1>7, <1>8 DEF PairAdded, PairNumbered

-----------------------------------------------------------------------------
\* The sums along a log are those along any log that extends it.
LEMMA PrefixSums ==
  ASSUME NEW log \in Seq(Entry), NEW more \in Seq(Entry), NEW a, Len(log) <= Len(more),
         \A i \in 1 .. Len(log) : more[i] = log[i]
  PROVE  \A n \in 0 .. Len(log) : RunningSum(more, a)[n] = RunningSum(log, a)[n]
<1> DEFINE s == RunningSum(log, a)
           t == RunningSum(more, a)
<1>1. /\ IsRunningSum(s, log, a, Len(log))
      /\ IsRunningSum(t, more, a, Len(more))
  BY RunningSumDef
<1>2. Len(log) \in Nat /\ Len(more) \in Nat
  OBVIOUS
<1> HIDE DEF s, t
<1>3. ASSUME NEW N \in Nat, NEW M \in Nat, N = Len(log), M = Len(more)
      PROVE  \A n \in 0 .. N : t[n] = s[n]
  <2>1. /\ N <= M /\ IsRunningSum(s, log, a, N) /\ IsRunningSum(t, more, a, M)
        /\ \A i \in 1 .. N : more[i] = log[i]
    BY <1>1, <1>3
  <2> HIDE <1>3
  <2> QED
    BY <2>1, RunningSumUnique
<1> QED
  BY <1>2, <1>3 DEF s, t

\* The balance that a snapshot of the first n rows shows.
LEMMA SnapshotBalance ==
  ASSUME NEW log \in Seq(Entry), NEW a, NEW n \in 0 .. Len(log)
  PROVE  Balance(SubSeq(log, 1, n), a) = RunningSum(log, a)[n]
<1> DEFINE prefix == SubSeq(log, 1, n)
<1>1. /\ prefix \in Seq(Entry) /\ Len(prefix) = n
      /\ \A i \in 1 .. Len(prefix) : log[i] = prefix[i]
  OBVIOUS
<1>2. n <= Len(log) /\ n \in 0 .. n
  OBVIOUS
<1> HIDE DEF prefix
<1>3. RunningSum(log, a)[n] = RunningSum(prefix, a)[n]
  BY <1>1, <1>2, PrefixSums
<1> QED
  BY <1>1, <1>3 DEF Balance, prefix

\* After its first n rows the log takes money from a at most once: the amount
\* c, at position d.
OneDebit(log, a, n, d, c) ==
  \A i \in n + 1 .. Len(log) :
    AmountFor(log[i], a) >= 0 \/ (i = d /\ AmountFor(log[i], a) = -c)

\* Then the balance is at most that debit below the sum at n.
LEMMA OneDebitLater ==
  ASSUME NEW log \in Seq(Entry), NEW a, NEW n \in 0 .. Len(log), NEW d, NEW c \in Nat,
         OneDebit(log, a, n, d, c)
  PROVE  Balance(log, a) >= RunningSum(log, a)[n] - c
<1> DEFINE N == Len(log)
           s == RunningSum(log, a)
           S == {k \in Nat : n + k <= N =>
                   /\ s[n + k] >= s[n] - c
                   /\ (\A i \in n + 1 .. n + k : i # d) => s[n + k] >= s[n]}
<1>1. /\ N \in Nat /\ n \in Nat /\ n <= N
      /\ s \in [0 .. N -> Int]
      /\ \A i \in 1 .. N : s[i] = s[i - 1] + AmountFor(log[i], a)
  BY RunningSumDef DEF IsRunningSum
<1>2. \A i \in 1 .. N : AmountFor(log[i], a) \in Int
  BY AmountType, Zenon
<1> HIDE DEF N, s
<1>3. 0 \in S
  BY <1>1
<1>4. ASSUME NEW k \in Nat, k \in S
      PROVE  k + 1 \in S
  <2> SUFFICES ASSUME n + (k + 1) <= N
               PROVE  /\ s[n + (k + 1)] >= s[n] - c
                      /\ (\A i \in n + 1 .. n + (k + 1) : i # d) => s[n + (k + 1)] >= s[n]
    OBVIOUS
  <2> DEFINE j == n + (k + 1)
  <2>1. /\ j \in 1 .. N /\ j \in n + 1 .. N /\ j - 1 = n + k /\ n + k <= N
        /\ n + k \in 0 .. N /\ n \in 0 .. N /\ j \in n + 1 .. j
        /\ \A i \in n + 1 .. n + k : i \in n + 1 .. j /\ i # j
    BY <1>1
  <2>2. /\ s[n + k] >= s[n] - c
        /\ (\A i \in n + 1 .. n + k : i # d) => s[n + k] >= s[n]
    BY <1>4, <2>1
  <2>3. /\ s[j] = s[n + k] + AmountFor(log[j], a) /\ AmountFor(log[j], a) \in Int
        /\ s[n + k] \in Int /\ s[n] \in Int /\ s[j] \in Int
    BY <1>1, <1>2, <2>1
  <2>4. AmountFor(log[j], a) >= 0 \/ (j = d /\ AmountFor(log[j], a) = -c)
    BY <2>1 DEF N, OneDebit
  <2> HIDE DEF j
  <2>5. CASE AmountFor(log[j], a) >= 0
    <3>1. s[j] >= s[n] - c
      BY <2>2, <2>3, <2>5, SMTT(30)
    <3>2. (\A i \in n + 1 .. j : i # d) => s[j] >= s[n]
      BY <2>1, <2>2, <2>3, <2>5, SMTT(30)
    <3> QED
      BY <3>1, <3>2 DEF j
  <2>6. CASE j = d /\ AmountFor(log[j], a) = -c
    <3>1. s[n + k] >= s[n]
      BY <2>1, <2>2, <2>6
    <3>2. s[j] >= s[n] - c
      BY <2>3, <2>6, <3>1
    <3> QED
      BY <2>1, <2>6, <3>2 DEF j
  <2> QED
    BY <2>4, <2>5, <2>6
<1>5. Nat \subseteq S
  <2> HIDE DEF S
  <2> QED
    BY <1>3, <1>4, NatSetInduction
<1>6. N - n \in Nat /\ n + (N - n) = N
  BY <1>1
<1>7. s[N] >= s[n] - c
  <2>1. N - n \in S
    <3> HIDE DEF S
    <3> QED
      BY <1>5, <1>6
  <2>2. s[n + (N - n)] >= s[n] - c
    BY <1>1, <1>6, <2>1
  <2> QED
    BY <1>6, <2>2
<1> QED
  BY <1>7 DEF Balance, N, s

-----------------------------------------------------------------------------
\* What a typed command is, and what Transfer's first checks say of it.
LEMMA CommandType ==
  ASSUME NEW c \in Commands
  PROVE  /\ c.key \in Keys
         /\ c.from \in AccountIds /\ c.to \in AccountIds
         /\ c.from \in Int /\ c.to \in Int /\ c.amount \in Int
         /\ InputError(c) = "none" <=> c.amount > 0 /\ c.from # c.to
         /\ InputError(c) \in {"none", "invalid_amount", "same_account"}
<1>1. c \in [key : Keys, from : AccountIds, to : AccountIds, amount : Int]
  BY CommandsAssumption
<1> QED
  BY <1>1, AccountsAssumption, Zenon DEF InputError, ValidAmount

\* A nonempty set of integers with an upper bound has a greatest element.
LEMMA BoundedMax ==
  ASSUME NEW S \in SUBSET Int, S # {}, NEW N \in Int, \A x \in S : x <= N
  PROVE  \E m \in S : \A x \in S : x <= m
<1> SUFFICES ASSUME \A m \in S : \E x \in S : ~ (x <= m)
             PROVE  FALSE
  OBVIOUS
<1> DEFINE T == {k \in Nat : \A x \in S : x <= N - k}
<1>1. 0 \in T
  OBVIOUS
<1>2. ASSUME NEW k \in Nat, k \in T
      PROVE  k + 1 \in T
  <2> SUFFICES ASSUME NEW x \in S PROVE x <= N - (k + 1)
    OBVIOUS
  <2>1. PICK y \in S : ~ (y <= x)
    OBVIOUS
  <2>2. y <= N - k /\ x \in Int /\ y \in Int
    BY <1>2
  <2> QED
    BY <2>1, <2>2
<1>3. Nat \subseteq T
  <2> HIDE DEF T
  <2> QED
    BY <1>1, <1>2, NatSetInduction
<1>4. PICK x \in S : TRUE
  BY Zenon
<1>5. x \in Int /\ x <= N /\ N - x + 1 \in Nat
  BY <1>4
<1>6. x <= N - (N - x + 1)
  BY <1>3, <1>5, Zenon
<1> QED
  BY <1>5, <1>6

\* A nonempty finite set of integers has a greatest element.
LEMMA FiniteMax ==
  ASSUME NEW S \in SUBSET Int, S # {}, IsFiniteSet(S)
  PROVE  \E m \in S : \A x \in S : x <= m
<1> DEFINE Bounded(T) == \E N \in Int : \A x \in T : x <= N
           G == {n \in Nat : \A T \in SUBSET Int :
                   IsFiniteSet(T) /\ Cardinality(T) = n => Bounded(T)}
<1>1. 0 \in G
  <2> SUFFICES ASSUME NEW T \in SUBSET Int, IsFiniteSet(T), Cardinality(T) = 0
               PROVE  Bounded(T)
    OBVIOUS
  <2>1. T = {}
    BY FS_EmptySet
  <2> QED
    BY <2>1
<1>2. ASSUME NEW n \in Nat, n \in G
      PROVE  n + 1 \in G
  <2> SUFFICES ASSUME NEW T \in SUBSET Int, IsFiniteSet(T), Cardinality(T) = n + 1
               PROVE  Bounded(T)
    OBVIOUS
  <2>1. CASE T = {}
    BY <2>1
  <2>2. ASSUME NEW y \in T PROVE Bounded(T)
    <3>1. IsFiniteSet(T \ {y}) /\ Cardinality(T \ {y}) = n
      <4>1. IsFiniteSet(T \ {y}) /\ Cardinality(T \ {y}) = (n + 1) - 1
        BY FS_RemoveElement, Zenon
      <4> QED
        BY <4>1
    <3>2. PICK N \in Int : \A x \in T \ {y} : x <= N
      BY <1>2, <3>1
    <3>3. y \in Int /\ \A x \in T : x \in Int
      OBVIOUS
    <3>4. CASE y <= N
      BY <3>2, <3>4
    <3>5. CASE ~ (y <= N)
      <4>1. \A x \in T : x <= y
        BY <3>2, <3>3, <3>5
      <4> QED
        BY <3>3, <4>1
    <3> QED
      BY <3>4, <3>5
  <2> QED
    BY <2>1, <2>2
<1>3. Nat \subseteq G
  <2> HIDE DEF G
  <2> QED
    BY <1>1, <1>2, NatSetInduction
<1>4. Cardinality(S) \in Nat
  BY FS_CardinalityType
<1>5. Bounded(S)
  BY <1>3, <1>4
<1> QED
  BY <1>5, BoundedMax, Zenon

\* The positions of a log give finitely many values.
LEMMA FiniteImage ==
  ASSUME NEW n \in Nat, NEW J \in SUBSET (1 .. n), NEW f, NEW T,
         T = {f[i] : i \in J}
  PROVE  IsFiniteSet(T)
<1> DEFINE g == [i \in J |-> f[i]]
<1>1. IsFiniteSet(J)
  <2>1. IsFiniteSet(1 .. n)
    BY FS_Interval
  <2> QED
    BY <2>1, FS_Subset, Zenon
<1>2. g \in Surjection(J, T)
  BY DEF Surjection
<1> QED
  BY <1>1, <1>2, FS_Surjection

\* The first n elements of a finite set of numbers (ListByAccount).
FirstOf(A, n) == {x \in A : Cardinality({y \in A : y <= x}) <= n}

\* They are a lower part of the set.
LEMMA FirstDown ==
  ASSUME NEW A \in SUBSET Nat, IsFiniteSet(A), NEW n \in Nat,
         NEW x \in A, NEW y \in FirstOf(A, n), x <= y
  PROVE  x \in FirstOf(A, n)
<1>1. IsFiniteSet({z \in A : z <= y}) /\ {z \in A : z <= x} \in SUBSET {z \in A : z <= y}
  <2>1. {z \in A : z <= y} \in SUBSET A /\ y \in Nat /\ x \in Nat
    BY DEF FirstOf
  <2>2. IsFiniteSet({z \in A : z <= y})
    BY <2>1, FS_Subset, Zenon
  <2>3. \A z \in A : z <= x => z <= y
    BY <2>1
  <2> QED
    BY <2>2, <2>3, Zenon
<1>2. IsFiniteSet({z \in A : z <= x}) /\ Cardinality({z \in A : z <= x}) <= Cardinality({z \in A : z <= y})
  BY <1>1, FS_Subset
<1>3. Cardinality({z \in A : z <= x}) \in Nat /\ Cardinality({z \in A : z <= y}) \in Nat
  BY <1>1, <1>2, FS_CardinalityType
<1>4. Cardinality({z \in A : z <= y}) <= n
  BY DEF FirstOf
<1>5. Cardinality({z \in A : z <= x}) <= n
  BY <1>2, <1>3, <1>4
<1> QED
  BY <1>5 DEF FirstOf

\* When there are fewer than n of them, they are all: the least element left
\* out would have been among the first n.
LEMMA FirstAll ==
  ASSUME NEW A \in SUBSET Nat, IsFiniteSet(A), NEW n \in Nat,
         Cardinality(FirstOf(A, n)) < n
  PROVE  FirstOf(A, n) = A
<1> SUFFICES ASSUME A \ FirstOf(A, n) # {} PROVE FALSE
  BY DEF FirstOf
<1>1. PICK F, R, N : F = FirstOf(A, n) /\ R = A \ F /\ N = {0 - x : x \in R}
  BY Zenon
<1>2. F \in SUBSET A /\ IsFiniteSet(F) /\ Cardinality(F) \in Nat /\ Cardinality(F) < n
  <2>1. F \in SUBSET A
    BY <1>1 DEF FirstOf
  <2>2. IsFiniteSet(F)
    BY <2>1, FS_Subset, Zenon
  <2> QED
    BY <1>1, <2>1, <2>2, FS_CardinalityType
<1>3. N \in SUBSET Int /\ N # {} /\ 0 \in Int /\ \A k \in N : k <= 0
  <2>1. R # {} /\ \A x \in R : x \in Nat
    BY <1>1, Zenon
  <2>2. \A x \in R : 0 - x \in Int /\ 0 - x <= 0
    BY <2>1
  <2>3. N # {}
    BY <1>1, <2>1, Zenon
  <2> QED
    BY <1>1, <2>2, <2>3
<1>4. PICK top \in N : \A k \in N : k <= top
  BY <1>3, BoundedMax
<1>5. PICK z \in R : top = 0 - z
  BY <1>1
<1>6. \A x \in R : z <= x
  BY <1>1, <1>4, <1>5
<1>7. {y \in A : y <= z} \subseteq F \cup {z}
  <2> SUFFICES ASSUME NEW y \in A, y <= z, y \notin F PROVE y = z
    BY Zenon
  <2>1. y \in R
    BY <1>1, Zenon
  <2>2. z <= y /\ y \in Nat /\ z \in Nat
    BY <1>1, <1>6, <2>1
  <2> QED
    BY <2>2
<1>8. IsFiniteSet(F \cup {z}) /\ Cardinality(F \cup {z}) = Cardinality(F) + 1
  BY <1>1, <1>2, <1>5, FS_AddElement, Zenon
<1>9. /\ Cardinality({y \in A : y <= z}) <= Cardinality(F \cup {z})
      /\ Cardinality({y \in A : y <= z}) \in Nat
  <2>1. PICK L : L = {y \in A : y <= z}
    BY Zenon
  <2>2. L \in SUBSET (F \cup {z})
    BY <1>7, <2>1
  <2>3. IsFiniteSet(L) /\ Cardinality(L) <= Cardinality(F \cup {z})
    BY <1>8, <2>2, FS_Subset
  <2> QED
    BY <2>1, <2>3, FS_CardinalityType
<1>10. Cardinality({y \in A : y <= z}) <= n
  BY <1>2, <1>8, <1>9
<1> QED
  BY <1>1, <1>10 DEF FirstOf

\* The greatest element of a finite set is one.
LEMMA MaxIs ==
  ASSUME NEW S \in SUBSET Int, S # {}, IsFiniteSet(S)
  PROVE  Max(S) \in S /\ \A x \in S : x <= Max(S)
<1>1. PICK m \in S : \A x \in S : x <= m
  BY FiniteMax
<1>2. \E x \in S : \A y \in S : x >= y
  BY <1>1
<1> QED
  BY <1>2, Zenon DEF Max

\* The page that AccountService.Entries makes of the rows it fetched.
PageOf(rows, n) == IF Cardinality(rows) > n THEN rows \ {Max(rows)} ELSE rows

\* What one request for a page does to a reader of a set of ids.
LEMMA PageFacts ==
  ASSUME NEW A \in SUBSET Nat, IsFiniteSet(A), NEW n \in Nat \ {0},
         NEW rows, rows = FirstOf(A, n + 1), NEW page, page = PageOf(rows, n)
  PROVE  /\ page \subseteq A
         /\ \A x \in A, y \in page : x <= y => x \in page
         /\ Cardinality(rows) > n => Max(page) \in page
         /\ ~ (Cardinality(rows) > n) => page = A
<1>1. rows \in SUBSET A /\ rows \in SUBSET Int /\ n + 1 \in Nat
  <2>1. \A x \in rows : x \in A
    BY Zenon DEF FirstOf
  <2>2. \A x \in A : x \in Int
    OBVIOUS
  <2>3. rows \in SUBSET A /\ rows \in SUBSET Int
    BY <2>1, <2>2, Zenon
  <2>4. n + 1 \in Nat
    OBVIOUS
  <2> QED
    BY <2>3, <2>4
<1>2. IsFiniteSet(rows)
  BY <1>1, FS_Subset
<1>3. Cardinality(rows) \in Nat
  BY <1>2, FS_CardinalityType
<1>4. CASE Cardinality(rows) > n
  <2>1. rows # {}
    BY <1>4, FS_EmptySet
  <2>2. PICK top : top = Max(rows)
    BY Zenon
  <2>3. top \in rows /\ \A x \in rows : x <= top
    BY <1>1, <1>2, <2>1, <2>2, MaxIs
  <2>4. page = rows \ {top}
    BY <1>4, <2>2 DEF PageOf
  <2>5. \A x \in A, y \in page : x <= y => x \in page
    <3> SUFFICES ASSUME NEW x \in A, NEW y \in page, x <= y PROVE x \in page
      OBVIOUS
    <3>1. y \in rows /\ y # top
      BY <2>4
    <3>2. x \in rows
      BY <1>1, <3>1, FirstDown
    <3>3. x # top
      BY <1>1, <2>3, <3>1
    <3> QED
      BY <2>4, <3>2, <3>3
  <2>6. IsFiniteSet(page) /\ Cardinality(page) = Cardinality(rows) - 1
    <3>1. IsFiniteSet(rows \ {top}) /\ Cardinality(rows \ {top}) = Cardinality(rows) - 1
      BY <1>2, <2>3, FS_RemoveElement
    <3> QED
      BY <2>4, <3>1, Zenon
  <2>7. Cardinality(page) > 0
    BY <1>3, <1>4, <2>6
  <2>8. page # {} /\ page \in SUBSET Int
    BY <1>1, <2>4, <2>7, FS_EmptySet
  <2>9. Max(page) \in page
    BY <2>6, <2>8, MaxIs
  <2> QED
    BY <1>1, <1>4, <2>4, <2>5, <2>9
<1>5. CASE ~ (Cardinality(rows) > n)
  <2>1. Cardinality(rows) < n + 1
    BY <1>3, <1>5
  <2>2. rows = A
    BY <1>1, <2>1, FirstAll
  <2>3. page = rows
    BY <1>5 DEF PageOf
  <2> QED
    BY <1>5, <2>2, <2>3
<1> QED
  BY <1>4, <1>5
=============================================================================
