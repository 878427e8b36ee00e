--------------------------- MODULE CreditLedgerProofs ---------------------------
(* The ledger for any accounts, jobs, keys, terms and length: every appended   *)
(* entry is new under its key and its effect, a settlement or refund repeats   *)
(* an earlier entry, and the sums that are the balances move as an account     *)
(* of CreditAccount does.  The same of the transactions of LedgerSessions,     *)
(* and of the repository in memory that MemoryLedger runs beside.              *)
EXTENDS LedgerTables, MemoryLedger, LedgerSessions, FiniteSetTheorems,
        WellFoundedInduction, TLAPS

-----------------------------------------------------------------------------
(* Induction over sets, which stand for what is to be shown of their members. *)

\* A set that has 0 and every successor of its numbers has all of them.
LEMMA NatSetInduction ==
    ASSUME NEW S, 0 \in S, \A n \in Nat : n \in S => n + 1 \in S
    PROVE  Nat \subseteq S
<1> DEFINE T == Nat \ S
           R == OpToRel(<, Nat)
<1> SUFFICES ASSUME T # {} PROVE FALSE
  OBVIOUS
<1>1. PICK n \in T : \A m \in T : ~(<<m, n>> \in R)
  <2> HIDE DEF R, T
  <2>1. IsWellFoundedOn(R, Nat)
    BY NatLessThanWellFounded DEF R
  <2>2. T \subseteq Nat
    BY DEF T
  <2> QED  BY <2>1, <2>2, WFMin
<1>2. n # 0 /\ n - 1 \in Nat
  OBVIOUS
<1>3. <<n - 1, n>> \in R
  BY <1>2 DEF OpToRel
<1>4. n - 1 \in S
  BY <1>1, <1>2, <1>3
<1> QED  BY <1>2, <1>4

\* What holds of a subset whenever it holds of its proper subsets holds of
\* the whole finite set.
LEMMA SubsetInduction ==
    ASSUME NEW S, IsFiniteSet(S), NEW C,
           \A U \in SUBSET S : (\A V \in SUBSET U : V # U => V \in C) => U \in C
    PROVE  S \in C
<1> DEFINE N == {n \in Nat : \A U \in SUBSET S : Cardinality(U) <= n => U \in C}
<1>1. \A U \in SUBSET S : IsFiniteSet(U) /\ Cardinality(U) \in Nat
  BY FS_Subset, FS_CardinalityType
<1>2. 0 \in N
  <2> SUFFICES ASSUME NEW U \in SUBSET S, Cardinality(U) <= 0 PROVE U \in C
    OBVIOUS
  <2>1. U = {}
    BY <1>1, FS_EmptySet
  <2>2. \A V \in SUBSET U : V = U
    BY <2>1
  <2> QED  BY <2>2
<1>3. \A n \in Nat : n \in N => n + 1 \in N
  <2> SUFFICES ASSUME NEW n \in Nat, n \in N, NEW U \in SUBSET S, Cardinality(U) <= n + 1
               PROVE  U \in C
    OBVIOUS
  <2>1. ASSUME NEW V \in SUBSET U, V # U PROVE V \in C
    <3>1. Cardinality(V) < Cardinality(U)
      BY <1>1, <2>1, FS_Subset
    <3>2. V \in SUBSET S /\ Cardinality(V) <= n
      BY <1>1, <3>1
    <3> QED  BY <3>2
  <2> QED  BY <2>1
<1>4. Cardinality(S) \in N
  <2> HIDE DEF N
  <2> QED  BY <1>1, <1>2, <1>3, NatSetInduction
<1> QED  BY <1>1, <1>4

-----------------------------------------------------------------------------
(* Sums over finite sets: SumFunctionOnSet takes the elements out one by one,  *)
(* chosen by CHOOSE, and what it computes is the same in any order.            *)

Choice(s) == CHOOSE x \in s : TRUE

Summand(f, iter, s) == IF s = {} THEN 0 ELSE f[Choice(s)] + iter[s \ {Choice(s)}]

Iterates(iter, f, S) == iter = [s \in SUBSET S |-> Summand(f, iter, s)]

\* A sum is the value of the iteration that SumFunctionOnSet defines.
LEMMA SumIsIterated ==
    ASSUME NEW f, NEW S
    PROVE  SumFunctionOnSet(f, S) = (CHOOSE iter : Iterates(iter, f, S))[S]
BY DEF SumFunctionOnSet, FoldFunctionOnSet, MapThenFoldSet, Iterates, Summand, Choice

LEMMA Chosen == ASSUME NEW s, s # {} PROVE Choice(s) \in s
BY DEF Choice

\* An iteration that is right for the sets of up to n elements.
RightUpTo(iter, f, S, n) ==
    /\ iter = [U \in SUBSET S |-> iter[U]]
    /\ \A U \in SUBSET S : Cardinality(U) <= n => iter[U] = Summand(f, iter, U)

LEMMA OneChosenLess ==
    ASSUME NEW S, IsFiniteSet(S), NEW U \in SUBSET S, U # {}
    PROVE  /\ U \ {Choice(U)} \in SUBSET S
           /\ Cardinality(U \ {Choice(U)}) \in Nat /\ Cardinality(U) \in Nat
           /\ Cardinality(U \ {Choice(U)}) = Cardinality(U) - 1
<1>1. IsFiniteSet(U)
  BY FS_Subset
<1>2. Choice(U) \in U
  BY Chosen
<1> QED  BY <1>1, <1>2, FS_RemoveElement, FS_CardinalityType

\* There is an iteration over the subsets of a finite set: it is made for the
\* subsets of n elements from one that is right for the smaller ones.
LEMMA IterationExists ==
    ASSUME NEW f, NEW S, IsFiniteSet(S)
    PROVE  \E iter : Iterates(iter, f, S)
<1> DEFINE N == {n \in Nat : \E iter : RightUpTo(iter, f, S, n)}
<1>1. \A U \in SUBSET S : IsFiniteSet(U) /\ Cardinality(U) \in Nat /\ Cardinality(U) <= Cardinality(S)
  BY FS_Subset, FS_CardinalityType
<1>2. 0 \in N
  <2> DEFINE iter == [U \in SUBSET S |-> 0]
  <2>1. \A U \in SUBSET S : Cardinality(U) <= 0 => U = {}
    BY <1>1, FS_EmptySet
  <2>2. RightUpTo(iter, f, S, 0)
    BY <2>1 DEF RightUpTo, Summand
  <2> QED  BY <2>2
<1>3. \A n \in Nat : n \in N => n + 1 \in N
  <2> SUFFICES ASSUME NEW n \in Nat, NEW iter, RightUpTo(iter, f, S, n)
               PROVE  \E next : RightUpTo(next, f, S, n + 1)
    OBVIOUS
  <2> DEFINE next == [U \in SUBSET S |-> IF Cardinality(U) <= n THEN iter[U] ELSE Summand(f, iter, U)]
  <2>1. \A U \in SUBSET S : Cardinality(U) <= n => next[U] = Summand(f, iter, U)
    BY DEF RightUpTo
  <2>2. \A U \in SUBSET S : next[U] = Summand(f, iter, U)
    BY <2>1
  <2>3. ASSUME NEW U \in SUBSET S, Cardinality(U) <= n + 1
        PROVE  Summand(f, iter, U) = Summand(f, next, U)
    <3>1. CASE U = {}
      BY <3>1 DEF Summand
    <3>2. CASE U # {}
      <4> DEFINE V == U \ {Choice(U)}
      <4>1. V \in SUBSET S /\ Cardinality(V) <= n
        BY <2>3, <3>2, OneChosenLess
      <4>2. next[V] = iter[V]
        BY <4>1
      <4> QED  BY <3>2, <4>2 DEF Summand
    <3> QED  BY <3>1, <3>2
  <2>4. next = [U \in SUBSET S |-> next[U]]
    OBVIOUS
  <2> HIDE DEF next
  <2>5. RightUpTo(next, f, S, n + 1)
    BY <2>2, <2>3, <2>4 DEF RightUpTo
  <2> QED  BY <2>5
<1>4. Cardinality(S) \in N
  <2> HIDE DEF N
  <2> QED  BY <1>1, <1>2, <1>3, NatSetInduction
<1>5. PICK iter : RightUpTo(iter, f, S, Cardinality(S))
  BY <1>4
<1>6. \A U \in SUBSET S : iter[U] = Summand(f, iter, U)
  BY <1>1, <1>5 DEF RightUpTo
<1>7. iter = [U \in SUBSET S |-> Summand(f, iter, U)]
  BY <1>5, <1>6 DEF RightUpTo
<1> QED  BY <1>7 DEF Iterates

\* Iterations over a set and a subset give one value, and so do those of two
\* functions that agree.
LEMMA IterationsAgree ==
    ASSUME NEW S, IsFiniteSet(S), NEW T \in SUBSET S, NEW f, NEW g, \A x \in T : f[x] = g[x],
           NEW iter, Iterates(iter, f, S), NEW other, Iterates(other, g, T)
    PROVE  iter[T] = other[T]
<1> DEFINE C == {U \in SUBSET T : iter[U] = other[U]}
<1>1. IsFiniteSet(T)
  BY FS_Subset
<1>2. ASSUME NEW U \in SUBSET T, \A V \in SUBSET U : V # U => V \in C
      PROVE  U \in C
  <2>1. iter[U] = Summand(f, iter, U) /\ other[U] = Summand(g, other, U)
    BY DEF Iterates
  <2>2. CASE U = {}
    BY <2>1, <2>2 DEF Summand
  <2>3. CASE U # {}
    <3> DEFINE c == Choice(U)
    <3>1. c \in U
      BY <2>3, Chosen
    <3>2. U \ {c} \in C
      BY <1>2, <3>1
    <3> QED  BY <2>1, <2>3, <3>1, <3>2 DEF Summand
  <2> QED  BY <2>2, <2>3
<1>3. T \in C
  <2> HIDE DEF C
  <2> QED  BY <1>1, <1>2, SubsetInduction
<1> QED  BY <1>3

\* The defining equation of a sum.
LEMMA SumChoice ==
    ASSUME NEW f, NEW S, IsFiniteSet(S)
    PROVE  /\ S = {} => SumFunctionOnSet(f, S) = 0
           /\ S # {} => /\ Choice(S) \in S
                        /\ SumFunctionOnSet(f, S) =
                              f[Choice(S)] + SumFunctionOnSet(f, S \ {Choice(S)})
<1> DEFINE iter == CHOOSE i : Iterates(i, f, S)
<1>1. Iterates(iter, f, S) /\ SumFunctionOnSet(f, S) = iter[S]
  BY IterationExists, SumIsIterated
<1> HIDE DEF iter
<1>2. iter[S] = Summand(f, iter, S)
  BY <1>1 DEF Iterates
<1>3. CASE S = {}
  BY <1>1, <1>2, <1>3 DEF Summand
<1>4. CASE S # {}
  <2> DEFINE T == S \ {Choice(S)}
             other == CHOOSE i : Iterates(i, f, T)
  <2>1. IsFiniteSet(T)
    BY FS_Subset
  <2>2. Iterates(other, f, T) /\ SumFunctionOnSet(f, T) = other[T]
    BY <2>1, IterationExists, SumIsIterated
  <2> HIDE DEF other
  <2>3. iter[T] = other[T]
    BY <1>1, <2>2, IterationsAgree
  <2> QED  BY <1>1, <1>2, <1>4, <2>2, <2>3, Chosen DEF Summand
<1> QED  BY <1>3, <1>4

\* A sum depends on the values it adds up only.
LEMMA SumCongruent ==
    ASSUME NEW f, NEW g, NEW S, IsFiniteSet(S), \A x \in S : f[x] = g[x]
    PROVE  SumFunctionOnSet(f, S) = SumFunctionOnSet(g, S)
<1>1. PICK i : Iterates(i, f, S) /\ SumFunctionOnSet(f, S) = i[S]
  BY IterationExists, SumIsIterated
<1>2. PICK j : Iterates(j, g, S) /\ SumFunctionOnSet(g, S) = j[S]
  BY IterationExists, SumIsIterated
<1> QED  BY <1>1, <1>2, IterationsAgree

LEMMA SumType ==
    ASSUME NEW f, NEW S, IsFiniteSet(S), \A x \in S : f[x] \in Int
    PROVE  SumFunctionOnSet(f, S) \in Int
<1> DEFINE C == {U \in SUBSET S : SumFunctionOnSet(f, U) \in Int}
<1>1. ASSUME NEW U \in SUBSET S, \A V \in SUBSET U : V # U => V \in C
      PROVE  U \in C
  <2>1. IsFiniteSet(U)
    BY FS_Subset
  <2>2. CASE U = {}
    <3>1. SumFunctionOnSet(f, U) = 0
      BY <2>1, <2>2, SumChoice
    <3> QED  BY <3>1
  <2>3. CASE U # {}
    <3>1. Choice(U) \in U
      BY <2>3, Chosen
    <3>2. U \ {Choice(U)} \in C
      BY <1>1, <3>1
    <3> QED  BY <2>1, <2>3, <3>1, <3>2, SumChoice
  <2> QED  BY <2>2, <2>3
<1>2. S \in C
  <2> HIDE DEF C
  <2> QED  BY <1>1, SubsetInduction
<1> QED  BY <1>2

\* Any element can be taken out of a sum first.
LEMMA SumRemove ==
    ASSUME NEW f, NEW S, IsFiniteSet(S), \A x \in S : f[x] \in Int, NEW x \in S
    PROVE  SumFunctionOnSet(f, S) = SumFunctionOnSet(f, S \ {x}) + f[x]
<1> DEFINE Sum(U) == SumFunctionOnSet(f, U)
           C == {U \in SUBSET S : \A y \in U : Sum(U) = Sum(U \ {y}) + f[y]}
<1>1. \A U \in SUBSET S : IsFiniteSet(U) /\ Sum(U) \in Int
  BY FS_Subset, SumType
<1>2. \A U \in SUBSET S : U # {} => Choice(U) \in U /\ Sum(U) = f[Choice(U)] + Sum(U \ {Choice(U)})
  BY <1>1, SumChoice
<1> HIDE DEF Sum
<1>3. ASSUME NEW U \in SUBSET S, \A V \in SUBSET U : V # U => V \in C, NEW y \in U
      PROVE  Sum(U) = Sum(U \ {y}) + f[y]
  <2> DEFINE c == Choice(U)
  <2>1. c \in U /\ Sum(U) = f[c] + Sum(U \ {c}) /\ f[c] \in Int /\ f[y] \in Int
    BY <1>2
  <2> HIDE DEF c
  <2>2. CASE y = c
    BY <1>1, <2>1, <2>2
  <2>3. CASE y # c
    <3>1. U \ {c} \in C /\ U \ {y} \in C
      BY <1>3, <2>1
    <3>2. Sum(U \ {c}) = Sum((U \ {c}) \ {y}) + f[y]
      BY <2>3, <3>1
    <3>3. Sum(U \ {y}) = Sum((U \ {y}) \ {c}) + f[c]
      BY <2>1, <2>3, <3>1
    <3>4. (U \ {c}) \ {y} = (U \ {y}) \ {c}
      OBVIOUS
    <3>5. Sum((U \ {c}) \ {y}) \in Int
      BY <1>1
    <3>6. Sum(U \ {y}) = Sum((U \ {c}) \ {y}) + f[c]
      BY <3>3, <3>4
    <3>7. Sum(U) = f[c] + (Sum((U \ {c}) \ {y}) + f[y])
      BY <2>1, <3>2
    <3> QED  BY <2>1, <3>5, <3>6, <3>7
  <2> QED  BY <2>2, <2>3
<1>4. S \in C
  <2>1. \A U \in SUBSET S : (\A V \in SUBSET U : V # U => V \in C) => U \in C
    BY <1>3
  <2> HIDE DEF C
  <2> QED  BY <2>1, SubsetInduction
<1> QED  BY <1>4 DEF Sum

\* One element more adds its value.
LEMMA SumAdd ==
    ASSUME NEW f, NEW S, IsFiniteSet(S), NEW x, x \notin S, \A y \in S \cup {x} : f[y] \in Int
    PROVE  SumFunctionOnSet(f, S \cup {x}) = SumFunctionOnSet(f, S) + f[x]
<1>1. IsFiniteSet(S \cup {x})
  BY FS_AddElement
<1>2. (S \cup {x}) \ {x} = S
  OBVIOUS
<1> QED  BY <1>1, <1>2, SumRemove

\* Sums of natural numbers are natural numbers.
LEMMA SumNat ==
    ASSUME NEW f, NEW S, IsFiniteSet(S), \A x \in S : f[x] \in Nat
    PROVE  SumFunctionOnSet(f, S) \in Nat
<1> DEFINE C == {U \in SUBSET S : SumFunctionOnSet(f, U) \in Nat}
<1>1. ASSUME NEW U \in SUBSET S, \A V \in SUBSET U : V # U => V \in C
      PROVE  U \in C
  <2>1. IsFiniteSet(U)
    BY FS_Subset
  <2>2. CASE U = {}
    <3>1. SumFunctionOnSet(f, U) = 0
      BY <2>1, <2>2, SumChoice
    <3> QED  BY <3>1
  <2>3. CASE U # {}
    <3>1. Choice(U) \in U
      BY <2>3, Chosen
    <3>2. U \ {Choice(U)} \in C
      BY <1>1, <3>1
    <3> QED  BY <2>1, <2>3, <3>1, <3>2, SumChoice
  <2> QED  BY <2>2, <2>3
<1>2. S \in C
  <2> HIDE DEF C
  <2> QED  BY <1>1, SubsetInduction
<1> QED  BY <1>2

-----------------------------------------------------------------------------
(* What is appended. *)

WellFormed == ledger \in Seq(Entry)

\* The types of a settlement's or refund's origin.
OriginType(type) == IF type = "refund" THEN "debit" ELSE "reservation"

\* e may be appended as far as the entry it refers to is concerned.
RefersBack(e) ==
    e.entry_type \in Settlements \cup {"refund"} =>
        \E o \in DOMAIN ledger :
            /\ e.origin = o
            /\ ledger[o].entry_type = OriginType(e.entry_type)
            /\ e.account = ledger[o].account
            /\ e.amount = ledger[o].amount
            /\ e.job = ledger[o].job

\* e has the deltas, the origin and the job of its type.
Shaped(e) == DeltaConvention(e) /\ CorrelationShape(e) /\ AuthorityShape(e)

EntriesShaped == \A i \in DOMAIN ledger : Shaped(ledger[i])

Fits(e) == e \in Entry /\ Shaped(e) /\ RefersBack(e)

\* What appendLocked has ensured when it inserts e.
Appends(e) ==
    /\ Fits(e)
    /\ ~KeyUsed(e.key)
    /\ ~DuplicateEffect(e)
    /\ Affordable(e)
    /\ ledger' = Append(ledger, e)

LEMMA CreditsAreIntegers == \A n \in Credits : n \in Int /\ -n \in Int /\ n \in Nat /\ n > 0
BY CreditsAssumption

LEMMA IntentType ==
    ASSUME NEW type \in EntryTypes, NEW a \in Accounts, NEW n \in Credits,
           NEW bal \in Int, NEW res \in Int, NEW k \in Keys, NEW origin \in Origins,
           NEW j \in Jobs \cup {NoOrigin}
    PROVE  Intent(type, a, n, bal, res, k, origin, j) \in Entry
BY DEF Intent, Entry

LEMMA EntryType ==
    ASSUME WellFormed, NEW i \in DOMAIN ledger
    PROVE  ledger[i] \in Entry /\ i \in Nat
BY DEF WellFormed

\* The intents of grants, adjustments, expiries and reservations.
LEMMA GrantFits ==
    ASSUME NEW type \in {"monthly_grant", "bolt_on_grant"}, NEW a \in Accounts,
           NEW n \in Credits, NEW k \in Keys,
           NEW origin \in IF type = "monthly_grant" THEN Periods ELSE Payments
    PROVE  Fits(GrantIntent(type, a, n, k, origin))
<1> DEFINE e == GrantIntent(type, a, n, k, origin)
<1>1. e \in Entry
  BY CreditsAreIntegers, IntentType DEF GrantIntent, EntryTypes, Origins
<1>2. Shaped(e)
  BY CreditsAreIntegers DEF Shaped, DeltaConvention, CorrelationShape, AuthorityShape, GrantIntent,
     Intent, Settlements
<1>3. RefersBack(e)
  BY DEF RefersBack, GrantIntent, Intent, Settlements
<1> QED  BY <1>1, <1>2, <1>3 DEF Fits

LEMMA AdjustmentFits ==
    ASSUME NEW type, NEW a \in Accounts, NEW n \in Credits, NEW bal, NEW k \in Keys,
           <<type, bal>> \in {<<"admin_adjustment", n>>, <<"admin_adjustment", -n>>,
                              <<"expiry_reset", -n>>}
    PROVE  Fits(Intent(type, a, n, bal, 0, k, NoOrigin, NoOrigin))
<1> DEFINE e == Intent(type, a, n, bal, 0, k, NoOrigin, NoOrigin)
<1>1. e \in Entry
  BY CreditsAreIntegers, IntentType DEF EntryTypes, Origins
<1>2. Shaped(e)
  BY CreditsAreIntegers DEF Shaped, DeltaConvention, CorrelationShape, AuthorityShape, Intent,
     Settlements
<1>3. RefersBack(e)
  BY DEF RefersBack, Intent, Settlements
<1> QED  BY <1>1, <1>2, <1>3 DEF Fits

LEMMA ReservationFits ==
    ASSUME NEW j \in Jobs, NEW n \in Credits, NEW k \in Keys
    PROVE  Fits(ReservationIntent(j, n, k))
<1> DEFINE e == ReservationIntent(j, n, k)
<1>1. e \in Entry
  BY CreditsAreIntegers, IntentType, JobAccountAssumption
     DEF ReservationIntent, EntryTypes, Origins
<1>2. Shaped(e)
  BY CreditsAreIntegers DEF Shaped, DeltaConvention, CorrelationShape, AuthorityShape,
     ReservationIntent, Intent, Settlements
<1>3. RefersBack(e)
  BY DEF RefersBack, ReservationIntent, Intent, Settlements
<1> QED  BY <1>1, <1>2, <1>3 DEF Fits

\* What a settlement or a refund copies: a reservation or a debit has a job, of
\* the account it is charged to.
LEMMA HasJob ==
    ASSUME WellFormed, EntriesShaped, NEW i \in DOMAIN ledger,
           ledger[i].entry_type \in {"reservation", "debit"}
    PROVE  /\ ledger[i].account \in Accounts /\ ledger[i].amount \in Credits
           /\ ledger[i].job \in Jobs /\ JobAccount[ledger[i].job] = ledger[i].account
           /\ i \in Nat
BY EntryType DEF EntriesShaped, Shaped, AuthorityShape, Settlements, Entry

LEMMA SettlementFits ==
    ASSUME WellFormed, EntriesShaped, NEW i \in DOMAIN ledger, NEW k \in Keys,
           ledger[i].entry_type = "reservation", NEW type \in Settlements
    PROVE  Fits(SettlementIntent(type, i, k))
<1> DEFINE e == SettlementIntent(type, i, k)
<1>1. e \in Entry
  BY HasJob, CreditsAreIntegers, IntentType DEF SettlementIntent, EntryTypes, Origins, Settlements
<1>2. Shaped(e)
  BY HasJob, CreditsAreIntegers
     DEF Shaped, DeltaConvention, CorrelationShape, AuthorityShape, SettlementIntent, Intent,
         Settlements
<1>3. RefersBack(e)
  BY DEF RefersBack, SettlementIntent, Intent, OriginType, Settlements
<1> QED  BY <1>1, <1>2, <1>3 DEF Fits

LEMMA RefundFits ==
    ASSUME WellFormed, EntriesShaped, NEW i \in DOMAIN ledger, NEW k \in Keys,
           ledger[i].entry_type = "debit"
    PROVE  Fits(RefundIntent(i, k))
<1> DEFINE e == RefundIntent(i, k)
<1>1. e \in Entry
  <2>1. /\ ledger[i].account \in Accounts /\ ledger[i].amount \in Credits
        /\ ledger[i].amount \in Int /\ i \in Origins
        /\ ledger[i].job \in Jobs \cup {NoOrigin} /\ "refund" \in EntryTypes
    BY HasJob, CreditsAreIntegers DEF Origins, EntryTypes
  <2> QED  BY <2>1, IntentType DEF RefundIntent
<1>2. Shaped(e)
  BY HasJob, CreditsAreIntegers
     DEF Shaped, DeltaConvention, CorrelationShape, AuthorityShape, RefundIntent, Intent,
         Settlements
<1>3. RefersBack(e)
  BY DEF RefersBack, RefundIntent, Intent, OriginType, Settlements
<1> QED  BY <1>1, <1>2, <1>3 DEF Fits

\* The account's status and the authority as it was when appendLocked asked.
Accepted(e) == Appends(e) /\ status[e.account] = "active" /\ AuthorityHolds(e)

\* Every step on the ledger appends one intent that refers back correctly.
LEMMA StepsAppend ==
    ASSUME WellFormed, EntriesShaped, [Next]_vars
    PROVE  UNCHANGED ledger \/ \E e : Accepted(e)
<1>1. ASSUME NEW e, Fits(e), AppendLocked(e) PROVE Accepted(e)
  BY <1>1 DEF AppendLocked, Appends, Accepted
<1>2. ASSUME NEW a \in Accounts, NEW k \in Keys, NEW t \in Terms,
             GrantMonthlyCredits(a, t, k)
      PROVE  \E e : Accepted(e)
  <2>1. t.grant \in Credits /\ t.period \in Periods
    BY TermsAssumption
  <2> QED  BY <1>1, <1>2, <2>1, GrantFits DEF GrantMonthlyCredits
<1>3. ASSUME NEW a \in Accounts, NEW k \in Keys, NEW t \in Terms, NEW p \in Payments,
             NEW n \in Credits, GrantBoltOnCredits(a, t, p, n, k)
      PROVE  \E e : Accepted(e)
  BY <1>1, <1>3, GrantFits DEF GrantBoltOnCredits
<1>4. ASSUME NEW a \in Accounts, NEW k \in Keys, NEW n \in Credits, NEW d \in {"credit", "debit"},
             AdjustCredits(a, n, d, k) \/ ExpireCredits(a, n, k)
      PROVE  \E e : Accepted(e)
  BY <1>1, <1>4, AdjustmentFits DEF AdjustCredits, ExpireCredits
<1>5. ASSUME NEW j \in Jobs, NEW t \in Terms, NEW k \in Keys, CreateReservation(j, t, k)
      PROVE  \E e : Accepted(e)
  <2>1. t.price \in Credits
    BY TermsAssumption
  <2> QED  BY <1>1, <1>5, <2>1, ReservationFits DEF CreateReservation
<1>6. ASSUME NEW i \in DOMAIN ledger, NEW k \in Keys,
             ReleaseReservation(i, k) \/ FinalizeDebit(i, k)
      PROVE  \E e : Accepted(e)
  <2>1. PICK type \in Settlements :
           /\ ledger[i].entry_type = "reservation"
           /\ AppendLocked(SettlementIntent(type, i, k))
    BY <1>6 DEF ReleaseReservation, FinalizeDebit, Related, Settlements
  <2> QED  BY <1>1, <2>1, SettlementFits
<1>7. ASSUME NEW i \in DOMAIN ledger, NEW k \in Keys, Refund(i, k)
      PROVE  \E e : Accepted(e)
  BY <1>1, <1>7, RefundFits DEF Refund, Related
<1>8. ASSUME NEW a \in Accounts, NEW t \in Terms \cup {NoTerms}, ChangeTerms(a, t)
      PROVE  UNCHANGED ledger
  BY <1>8 DEF ChangeTerms
<1>9. CASE UNCHANGED vars
  BY <1>9 DEF vars
<1> QED
  BY <1>2, <1>3, <1>4, <1>5, <1>6, <1>7, <1>8, <1>9 DEF Next

\* What an append leaves and adds.
LEMMA AppendedLedger ==
    ASSUME WellFormed, NEW e, Appends(e)
    PROVE  /\ Len(ledger) \in Nat
           /\ DOMAIN ledger = 1 .. Len(ledger)
           /\ DOMAIN ledger' = 1 .. (Len(ledger) + 1)
           /\ \A i \in DOMAIN ledger : ledger'[i] = ledger[i]
           /\ ledger'[Len(ledger) + 1] = e
BY DEF WellFormed, Appends, Fits

LEMMA AppendKeepsForm ==
    ASSUME WellFormed, EntriesShaped, NEW e, Appends(e)
    PROVE  WellFormed' /\ EntriesShaped'
<1>1. WellFormed'
  BY DEF WellFormed, Appends, Fits
<1>2. ASSUME NEW x \in Entry, Shaped(x) PROVE Shaped(x)'
  <2>1. DOMAIN ledger \subseteq DOMAIN ledger'
    BY AppendedLedger
  <2>2. CorrelationShape(x)'
    BY <1>2, <2>1 DEF Shaped, CorrelationShape, Entry, EntryTypes, Settlements
  <2> QED  BY <1>2, <2>2 DEF Shaped, DeltaConvention, AuthorityShape
<1>3. ASSUME NEW i \in DOMAIN ledger' PROVE Shaped(ledger[i])'
  <2>1. Shaped(e)'
    BY <1>2 DEF Appends, Fits
  <2>2. CASE i \in DOMAIN ledger
    <3>1. ledger[i] \in Entry /\ Shaped(ledger[i])
      BY <2>2, EntryType DEF EntriesShaped
    <3> QED  BY <1>2, <2>2, <3>1, AppendedLedger DEF Shaped, DeltaConvention, CorrelationShape, AuthorityShape
  <2>3. CASE i = Len(ledger) + 1
    BY <2>1, <2>3, AppendedLedger DEF Shaped, DeltaConvention, CorrelationShape, AuthorityShape
  <2> QED  BY <2>2, <2>3, AppendedLedger
<1> QED  BY <1>1, <1>3 DEF EntriesShaped

-----------------------------------------------------------------------------
(* The history: keys, effects and origins. *)

\* One key, one intent: across all accounts and operations.
LEMMA AppendKeepsKeys ==
    ASSUME WellFormed, KeysAreGlobal, NEW e, Appends(e)
    PROVE  KeysAreGlobal'
<1> SUFFICES ASSUME NEW i \in DOMAIN ledger', NEW j \in DOMAIN ledger',
                    ledger'[i].key = ledger'[j].key
             PROVE  i = j
  BY DEF KeysAreGlobal
<1>1. \A n \in DOMAIN ledger : ledger[n].key # e.key
  BY DEF Appends, KeyUsed
<1> QED  BY <1>1, AppendedLedger DEF KeysAreGlobal

\* Types that may happen once belong to one class of effects.
LEMMA OnceOnlyIsOneClass ==
    ASSUME NEW types \in OnceOnly, NEW a \in types, NEW b \in types
    PROVE  EffectClass(a) # "none" /\ EffectClass(a) = EffectClass(b)
BY DEF OnceOnly, EffectClass, Settlements

LEMMA AppendKeepsEffects ==
    ASSUME WellFormed, EffectsHappenOnce, NEW e, Appends(e)
    PROVE  EffectsHappenOnce'
<1> SUFFICES ASSUME NEW types \in OnceOnly,
                    NEW i \in DOMAIN ledger', NEW j \in DOMAIN ledger', i # j,
                    ledger'[i].entry_type \in types, ledger'[j].entry_type \in types,
                    ledger'[i].account = ledger'[j].account
             PROVE  ledger'[i].origin # ledger'[j].origin
  BY DEF EffectsHappenOnce, EntriesOfType
<1>1. CASE i \in DOMAIN ledger /\ j \in DOMAIN ledger
  BY <1>1, AppendedLedger DEF EffectsHappenOnce, EntriesOfType
<1>2. ASSUME NEW n \in DOMAIN ledger, ledger[n].entry_type \in types,
             e.entry_type \in types, ledger[n].account = e.account
      PROVE  ledger[n].origin # e.origin
  <2>1. ~SameEffect(ledger[n], e)
    BY DEF Appends, DuplicateEffect
  <2> QED  BY <1>2, <2>1, OnceOnlyIsOneClass DEF SameEffect
<1>3. CASE i \notin DOMAIN ledger \/ j \notin DOMAIN ledger
  BY <1>2, <1>3, AppendedLedger
<1> QED  BY <1>1, <1>3

\* The entry that entry i refers to.
IsOriginOf(o, i) ==
    /\ ledger[i].origin = o
    /\ ledger[o].entry_type = OriginType(ledger[i].entry_type)
    /\ ledger[i].account = ledger[o].account
    /\ ledger[i].amount = ledger[o].amount
    /\ ledger[i].job = ledger[o].job

LEMMA MatchedOrigins ==
    SettlementsMatchOrigin <=>
        \A i \in DOMAIN ledger : ledger[i].entry_type \in Settlements \cup {"refund"} =>
            \E o \in 1 .. (i - 1) : IsOriginOf(o, i)
BY DEF SettlementsMatchOrigin, EntriesOfType, CorrelatedWith, IsOriginOf, OriginType

LEMMA AppendKeepsOrigins ==
    ASSUME WellFormed, SettlementsMatchOrigin, NEW e, Appends(e)
    PROVE  SettlementsMatchOrigin'
<1> SUFFICES ASSUME NEW i \in DOMAIN ledger',
                    ledger'[i].entry_type \in Settlements \cup {"refund"}
             PROVE  \E o \in 1 .. (i - 1) : IsOriginOf(o, i)'
  BY DEF SettlementsMatchOrigin, EntriesOfType, CorrelatedWith, IsOriginOf, OriginType
<1>1. CASE i \in DOMAIN ledger
  <2>1. PICK o \in 1 .. (i - 1) : IsOriginOf(o, i)
    BY <1>1, AppendedLedger, MatchedOrigins
  <2>2. o \in DOMAIN ledger
    BY <1>1, AppendedLedger
  <2> QED  BY <1>1, <2>1, <2>2, AppendedLedger DEF IsOriginOf
<1>2. CASE i = Len(ledger) + 1
  <2>1. e = ledger'[i]
    BY <1>2, AppendedLedger
  <2>2. PICK o \in DOMAIN ledger :
           /\ e.origin = o
           /\ ledger[o].entry_type = OriginType(e.entry_type)
           /\ e.account = ledger[o].account
           /\ e.amount = ledger[o].amount
           /\ e.job = ledger[o].job
    BY <2>1 DEF Appends, Fits, RefersBack
  <2>3. o \in 1 .. (i - 1)
    BY <1>2, AppendedLedger
  <2> QED  BY <2>1, <2>2, <2>3, AppendedLedger DEF IsOriginOf
<1> QED  BY <1>1, <1>2, AppendedLedger

-----------------------------------------------------------------------------
(* The sums. *)

LEMMA SumsAreIntegers ==
    ASSUME WellFormed, NEW a
    PROVE  /\ IsFiniteSet(EntriesOf(a))
           /\ LedgerBalance(a) \in Int /\ ReservedBalance(a) \in Int
<1>1. EntriesOf(a) \in SUBSET (1 .. Len(ledger)) /\ Len(ledger) \in Nat
  BY DEF EntriesOf, WellFormed
<1>2. IsFiniteSet(EntriesOf(a))
  <2>1. IsFiniteSet(1 .. Len(ledger))
    BY <1>1, FS_Interval
  <2> QED  BY <1>1, <2>1, FS_Subset
<1>3. \A i \in EntriesOf(a) :
         /\ [n \in DOMAIN ledger |-> ledger[n].balance_delta][i] \in Int
         /\ [n \in DOMAIN ledger |-> ledger[n].reserved_delta][i] \in Int
  BY EntryType DEF EntriesOf, Entry
<1> QED  BY <1>2, <1>3, SumType DEF LedgerBalance, ReservedBalance

LEMMA EntriesOfAppended ==
    ASSUME WellFormed, NEW e, Appends(e), NEW a
    PROVE  EntriesOf(a)' = IF e.account = a THEN EntriesOf(a) \cup {Len(ledger) + 1}
                           ELSE EntriesOf(a)
BY AppendedLedger DEF EntriesOf

\* The balances an append leaves: those appendLocked has projected.
LEMMA AppendedBalances ==
    ASSUME WellFormed, NEW e, Appends(e), NEW a
    PROVE  /\ LedgerBalance(a)' = LedgerBalance(a) + (IF e.account = a THEN e.balance_delta ELSE 0)
           /\ ReservedBalance(a)' = ReservedBalance(a) + (IF e.account = a THEN e.reserved_delta ELSE 0)
<1> DEFINE n == Len(ledger)
           f == [i \in DOMAIN ledger |-> ledger[i].balance_delta]
           g == [i \in DOMAIN ledger |-> ledger[i].reserved_delta]
           fNext == [i \in DOMAIN ledger' |-> ledger'[i].balance_delta]
           gNext == [i \in DOMAIN ledger' |-> ledger'[i].reserved_delta]
<1>1. /\ n \in Nat /\ EntriesOf(a) \subseteq 1 .. n /\ n + 1 \notin EntriesOf(a)
      /\ DOMAIN ledger = 1 .. n /\ IsFiniteSet(EntriesOf(a))
      /\ e.balance_delta \in Int /\ e.reserved_delta \in Int
  <2>1. n \in Nat /\ DOMAIN ledger = 1 .. n
    BY AppendedLedger
  <2>2. EntriesOf(a) \subseteq 1 .. n /\ IsFiniteSet(EntriesOf(a))
    BY <2>1, SumsAreIntegers DEF EntriesOf
  <2>3. e.balance_delta \in Int /\ e.reserved_delta \in Int
    BY DEF Appends, Fits, Entry
  <2> QED  BY <2>1, <2>2, <2>3
<1>2. /\ \A i \in 1 .. n : f[i] \in Int /\ fNext[i] = f[i]
      /\ \A i \in 1 .. n : g[i] \in Int /\ gNext[i] = g[i]
      /\ fNext[n + 1] = e.balance_delta /\ gNext[n + 1] = e.reserved_delta
  BY AppendedLedger, EntryType DEF Entry
<1>3. /\ LedgerBalance(a) = SumFunctionOnSet(f, EntriesOf(a))
      /\ LedgerBalance(a)' = SumFunctionOnSet(fNext, EntriesOf(a)')
      /\ ReservedBalance(a) = SumFunctionOnSet(g, EntriesOf(a))
      /\ ReservedBalance(a)' = SumFunctionOnSet(gNext, EntriesOf(a)')
  BY DEF LedgerBalance, ReservedBalance
<1> HIDE DEF f, g, fNext, gNext, n
<1>4. /\ SumFunctionOnSet(fNext, EntriesOf(a)) = SumFunctionOnSet(f, EntriesOf(a))
      /\ SumFunctionOnSet(fNext, EntriesOf(a) \cup {n + 1}) = SumFunctionOnSet(f, EntriesOf(a)) + fNext[n + 1]
  <2>1. \A i \in EntriesOf(a) : fNext[i] = f[i]
    BY <1>1, <1>2
  <2>2. \A i \in EntriesOf(a) \cup {n + 1} : fNext[i] \in Int
    BY <1>1, <1>2
  <2>3. SumFunctionOnSet(fNext, EntriesOf(a)) = SumFunctionOnSet(f, EntriesOf(a))
    BY <1>1, <2>1, SumCongruent
  <2>4. SumFunctionOnSet(fNext, EntriesOf(a) \cup {n + 1}) = SumFunctionOnSet(fNext, EntriesOf(a)) + fNext[n + 1]
    BY <1>1, <2>2, SumAdd
  <2> QED  BY <2>3, <2>4
<1>5. /\ SumFunctionOnSet(gNext, EntriesOf(a)) = SumFunctionOnSet(g, EntriesOf(a))
      /\ SumFunctionOnSet(gNext, EntriesOf(a) \cup {n + 1}) = SumFunctionOnSet(g, EntriesOf(a)) + gNext[n + 1]
  <2>1. \A i \in EntriesOf(a) : gNext[i] = g[i]
    BY <1>1, <1>2
  <2>2. \A i \in EntriesOf(a) \cup {n + 1} : gNext[i] \in Int
    BY <1>1, <1>2
  <2>3. SumFunctionOnSet(gNext, EntriesOf(a)) = SumFunctionOnSet(g, EntriesOf(a))
    BY <1>1, <2>1, SumCongruent
  <2>4. SumFunctionOnSet(gNext, EntriesOf(a) \cup {n + 1}) = SumFunctionOnSet(gNext, EntriesOf(a)) + gNext[n + 1]
    BY <1>1, <2>2, SumAdd
  <2> QED  BY <2>3, <2>4
<1>6. CASE e.account = a
  <2>1. EntriesOf(a)' = EntriesOf(a) \cup {n + 1}
    BY <1>6, EntriesOfAppended DEF n
  <2> QED  BY <1>2, <1>3, <1>4, <1>5, <1>6, <2>1
<1>7. CASE e.account # a
  <2>1. EntriesOf(a)' = EntriesOf(a)
    BY <1>7, EntriesOfAppended
  <2> QED  BY <1>3, <1>4, <1>5, <1>7, <2>1, SumsAreIntegers
<1> QED  BY <1>6, <1>7

-----------------------------------------------------------------------------
(* The reserve and the holds it stands for. *)

\* No account is in debt and none reserves what it does not have.
Solvent ==
    \A a \in Accounts :
        /\ ReservedBalance(a) >= 0
        /\ LedgerBalance(a) - ReservedBalance(a) >= 0

LEMMA AppendKeepsSolvent ==
    ASSUME WellFormed, Solvent, NEW e, Appends(e)
    PROVE  Solvent'
<1> SUFFICES ASSUME NEW a \in Accounts
             PROVE  ReservedBalance(a)' >= 0 /\ LedgerBalance(a)' - ReservedBalance(a)' >= 0
  BY DEF Solvent
<1>1. /\ LedgerBalance(a) \in Int /\ ReservedBalance(a) \in Int
      /\ LedgerBalance(e.account) \in Int /\ ReservedBalance(e.account) \in Int
      /\ e.balance_delta \in Int /\ e.reserved_delta \in Int
  BY SumsAreIntegers DEF Appends, Fits, Entry
<1>2. CASE e.account = a
  <2>1. /\ LedgerBalance(a)' = LedgerBalance(a) + e.balance_delta
        /\ ReservedBalance(a)' = ReservedBalance(a) + e.reserved_delta
    BY <1>2, AppendedBalances
  <2>2. /\ ReservedBalance(a) + e.reserved_delta >= 0
        /\ LedgerBalance(a) + e.balance_delta - (ReservedBalance(a) + e.reserved_delta) >= 0
    BY <1>1, <1>2 DEF Appends, Affordable
  <2> QED  BY <1>1, <2>1, <2>2
<1>3. CASE e.account # a
  <2>1. LedgerBalance(a)' = LedgerBalance(a) + 0 /\ ReservedBalance(a)' = ReservedBalance(a) + 0
    BY <1>3, AppendedBalances
  <2> QED  BY <1>1, <2>1 DEF Solvent
<1> QED  BY <1>2, <1>3

\* Each settlement in the ledger refers to a reservation before it.
LEMMA OriginsBefore ==
    ASSUME WellFormed, SettlementsMatchOrigin,
           NEW i \in EntriesOfType(Settlements \cup {"refund"})
    PROVE  /\ i \in DOMAIN ledger /\ i \in Nat
           /\ ledger[i].origin \in DOMAIN ledger /\ ledger[i].origin < i
           /\ IsOriginOf(ledger[i].origin, i)
<1>1. i \in 1 .. Len(ledger) /\ Len(ledger) \in Nat
  BY DEF EntriesOfType, WellFormed
<1>2. PICK o \in 1 .. (i - 1) : IsOriginOf(o, i)
  BY <1>1, MatchedOrigins DEF EntriesOfType
<1>3. o \in DOMAIN ledger /\ o < i
  BY <1>1, <1>2 DEF WellFormed
<1> QED  BY <1>1, <1>2, <1>3 DEF EntriesOfType, IsOriginOf

\* What is outstanding of an account after an append.
LEMMA OutstandingAppended ==
    ASSUME WellFormed, SettlementsMatchOrigin, NEW e, Appends(e), NEW a
    PROVE  Outstanding(a)' =
              IF e.account = a /\ e.entry_type = "reservation"
              THEN Outstanding(a) \cup {Len(ledger) + 1}
              ELSE IF e.account = a /\ e.entry_type \in Settlements
              THEN Outstanding(a) \ {e.origin}
              ELSE Outstanding(a)
<1> DEFINE n == Len(ledger)
<1>1. /\ n \in Nat /\ DOMAIN ledger = 1 .. n /\ DOMAIN ledger' = 1 .. (n + 1)
      /\ \A i \in 1 .. n : ledger'[i] = ledger[i]
      /\ ledger'[n + 1] = e
  BY AppendedLedger
<1>2. \A i : i \in Outstanding(a) <=>
        /\ i \in 1 .. n /\ ledger[i].account = a /\ ledger[i].entry_type = "reservation"
        /\ \A s \in 1 .. n : ledger[s].entry_type \in Settlements => ledger[s].origin # i
  BY <1>1 DEF Outstanding, EntriesOf, Settled, EntriesOfType
<1>3. \A i : i \in Outstanding(a)' <=>
        /\ i \in 1 .. (n + 1) /\ ledger'[i].account = a /\ ledger'[i].entry_type = "reservation"
        /\ \A s \in 1 .. (n + 1) : ledger'[s].entry_type \in Settlements => ledger'[s].origin # i
  BY <1>1 DEF Outstanding, EntriesOf, Settled, EntriesOfType
<1>4. \A s \in 1 .. n : ledger[s].entry_type \in Settlements => ledger[s].origin # n + 1
  BY <1>1, OriginsBefore DEF EntriesOfType
<1>5. e.entry_type \in Settlements =>
        /\ e.origin \in 1 .. n
        /\ ledger[e.origin].account = e.account
  BY <1>1 DEF Appends, Fits, RefersBack
<1> HIDE DEF n
<1>6. \A i \in 1 .. n : i \in Outstanding(a)' <=>
        i \in Outstanding(a) /\ ~(e.entry_type \in Settlements /\ e.origin = i)
  BY <1>1, <1>2, <1>3
<1>7. n + 1 \in Outstanding(a)' <=> e.account = a /\ e.entry_type = "reservation"
  BY <1>1, <1>3, <1>4 DEF Settlements
<1>8. "reservation" \notin Settlements
  BY DEF Settlements
<1>9. \A i : i \in Outstanding(a)' => i \in 1 .. n \/ i = n + 1
  BY <1>1, <1>3
<1>10. \A i : i \in Outstanding(a) => i \in 1 .. n /\ ledger[i].account = a
  BY <1>2
<1>11. n + 1 \notin 1 .. n
  BY <1>1
<1>12. CASE e.account = a /\ e.entry_type = "reservation"
  BY <1>6, <1>7, <1>8, <1>9, <1>10, <1>12 DEF n
<1>13. CASE e.account = a /\ e.entry_type \in Settlements
  BY <1>6, <1>7, <1>8, <1>9, <1>10, <1>11, <1>13 DEF n
<1>14. CASE ~(e.account = a /\ e.entry_type \in Settlements \cup {"reservation"})
  <2>1. \A i \in Outstanding(a) : ~(e.entry_type \in Settlements /\ e.origin = i)
    BY <1>5, <1>10, <1>14
  <2>2. \A i : i \in Outstanding(a)' <=> i \in Outstanding(a)
    BY <1>6, <1>7, <1>9, <1>10, <1>11, <1>14, <2>1
  <2> QED  BY <1>14, <2>2
<1> QED  BY <1>12, <1>13, <1>14

\* What a settlement refers to has not been settled.
LEMMA SettledOnce ==
    ASSUME WellFormed, SettlementsMatchOrigin, NEW e, Appends(e), e.entry_type \in Settlements
    PROVE  /\ e.origin \in Outstanding(e.account)
           /\ ledger[e.origin].amount = e.amount
<1>1. /\ e.origin \in DOMAIN ledger /\ ledger[e.origin].entry_type = "reservation"
      /\ ledger[e.origin].account = e.account /\ ledger[e.origin].amount = e.amount
  BY DEF Appends, Fits, RefersBack, OriginType, Settlements
<1>2. ASSUME NEW s \in EntriesOfType(Settlements), ledger[s].origin = e.origin PROVE FALSE
  <2>1. s \in DOMAIN ledger /\ ledger[s].entry_type \in Settlements
    BY DEF EntriesOfType
  <2>2. ledger[s].account = e.account
    BY <1>1, <1>2, <2>1, OriginsBefore DEF EntriesOfType, IsOriginOf
  <2>3. SameEffect(ledger[s], e)
    BY <1>2, <2>1, <2>2, OnceOnlyIsOneClass DEF SameEffect, OnceOnly
  <2> QED  BY <2>1, <2>3 DEF Appends, DuplicateEffect
<1> QED  BY <1>1, <1>2 DEF Outstanding, EntriesOf, Settled

LEMMA OutstandingIsFinite ==
    ASSUME WellFormed, NEW a
    PROVE  /\ IsFiniteSet(Outstanding(a))
           /\ Outstanding(a) \subseteq DOMAIN ledger
           /\ \A i \in Outstanding(a) : ledger[i].amount \in Nat
<1>1. Outstanding(a) \subseteq EntriesOf(a)
  BY DEF Outstanding
<1>2. IsFiniteSet(EntriesOf(a))
  BY SumsAreIntegers
<1>3. IsFiniteSet(Outstanding(a))
  BY <1>1, <1>2, FS_Subset
<1>4. Outstanding(a) \subseteq DOMAIN ledger
  BY DEF Outstanding, EntriesOf
<1> QED  BY <1>3, <1>4, EntryType, CreditsAreIntegers DEF Entry

\* What the outstanding reservations of an account hold.
HeldBy(a) == SumFunctionOnSet([i \in DOMAIN ledger |-> ledger[i].amount], Outstanding(a))

LEMMA AppendedHolds ==
    ASSUME WellFormed, EntriesShaped, SettlementsMatchOrigin, NEW e, Appends(e), NEW a
    PROVE  /\ HeldBy(a) \in Int
           /\ HeldBy(a)' = HeldBy(a) + (IF e.account = a THEN e.reserved_delta ELSE 0)
<1> DEFINE n == Len(ledger)
           f == [i \in DOMAIN ledger |-> ledger[i].amount]
           fNext == [i \in DOMAIN ledger' |-> ledger'[i].amount]
           S == Outstanding(a)
<1>1. /\ n \in Nat /\ DOMAIN ledger = 1 .. n /\ S \subseteq 1 .. n /\ IsFiniteSet(S)
  BY AppendedLedger, OutstandingIsFinite
<1>2. e.amount \in Int /\ e.entry_type \in EntryTypes
  BY CreditsAreIntegers DEF Appends, Fits, Entry
<1>3. /\ \A i \in 1 .. n : f[i] \in Int /\ fNext[i] = f[i]
      /\ fNext[n + 1] = e.amount
  BY AppendedLedger, EntryType, CreditsAreIntegers DEF Entry
<1>4. HeldBy(a) = SumFunctionOnSet(f, S) /\ HeldBy(a)' = SumFunctionOnSet(fNext, S')
  BY DEF HeldBy
<1>5. S' = IF e.account = a /\ e.entry_type = "reservation" THEN S \cup {n + 1}
           ELSE IF e.account = a /\ e.entry_type \in Settlements THEN S \ {e.origin}
           ELSE S
  BY OutstandingAppended
<1>6. /\ e.entry_type = "reservation" => e.reserved_delta = e.amount
      /\ e.entry_type \in Settlements => e.reserved_delta = -e.amount
      /\ e.entry_type \notin Settlements \cup {"reservation"} => e.reserved_delta = 0
  BY <1>2 DEF Appends, Fits, Shaped, DeltaConvention, Settlements, EntryTypes
<1>7. e.entry_type \in Settlements /\ e.account = a =>
         e.origin \in S /\ f[e.origin] = e.amount
  BY <1>1, SettledOnce
<1> HIDE DEF n, f, fNext, S
<1>8. SumFunctionOnSet(f, S) \in Int
  BY <1>1, <1>3, SumType
<1>9. ASSUME NEW U \in SUBSET S PROVE SumFunctionOnSet(fNext, U) = SumFunctionOnSet(f, U)
  <2>1. IsFiniteSet(U)
    BY <1>1, FS_Subset
  <2>2. \A i \in U : fNext[i] = f[i]
    BY <1>1, <1>3
  <2> QED  BY <2>1, <2>2, SumCongruent
<1>10. CASE e.account = a /\ e.entry_type = "reservation"
  <2>1. \A i \in S \cup {n + 1} : fNext[i] \in Int
    BY <1>1, <1>2, <1>3
  <2>2. n + 1 \notin S
    BY <1>1
  <2>3. SumFunctionOnSet(fNext, S \cup {n + 1}) = SumFunctionOnSet(fNext, S) + fNext[n + 1]
    BY <1>1, <2>1, <2>2, SumAdd
  <2>4. SumFunctionOnSet(fNext, S) = SumFunctionOnSet(f, S)
    BY <1>9
  <2> QED  BY <1>3, <1>4, <1>5, <1>6, <1>8, <1>10, <2>3, <2>4
<1>11. CASE e.account = a /\ e.entry_type \in Settlements
  <2>1. e.origin \in S /\ f[e.origin] = e.amount
    BY <1>7, <1>11
  <2>2. \A i \in S : f[i] \in Int
    BY <1>1, <1>3
  <2>3. SumFunctionOnSet(f, S) = SumFunctionOnSet(f, S \ {e.origin}) + f[e.origin]
    BY <1>1, <2>1, <2>2, SumRemove
  <2>4. SumFunctionOnSet(fNext, S \ {e.origin}) = SumFunctionOnSet(f, S \ {e.origin})
    BY <1>9
  <2>5. SumFunctionOnSet(f, S \ {e.origin}) \in Int
    <3>1. IsFiniteSet(S \ {e.origin})
      BY <1>1, FS_Subset
    <3> QED  BY <2>2, <3>1, SumType
  <2>6. e.entry_type # "reservation"
    BY <1>11 DEF Settlements
  <2> QED  BY <1>2, <1>4, <1>5, <1>6, <1>8, <1>11, <2>1, <2>3, <2>4, <2>5, <2>6
<1>12. CASE ~(e.account = a /\ e.entry_type \in Settlements \cup {"reservation"})
  <2>1. SumFunctionOnSet(fNext, S) = SumFunctionOnSet(f, S)
    BY <1>9
  <2> QED  BY <1>4, <1>5, <1>6, <1>8, <1>12, <2>1
<1> QED  BY <1>4, <1>8, <1>10, <1>11, <1>12

LEMMA AppendKeepsReserve ==
    ASSUME WellFormed, EntriesShaped, SettlementsMatchOrigin, ReservedIsOutstanding,
           NEW e, Appends(e)
    PROVE  ReservedIsOutstanding'
<1>1. ASSUME NEW a \in Accounts PROVE ReservedBalance(a)' = HeldBy(a)'
  <2>1. ReservedBalance(a) = HeldBy(a)
    BY DEF ReservedIsOutstanding, HeldBy
  <2> QED  BY <2>1, AppendedBalances, AppendedHolds
<1> QED  BY <1>1 DEF ReservedIsOutstanding, HeldBy

\* What stands can be settled: the reserve covers each hold, and the balance
\* covers the reserve.
LEMMA HoldsCanBeSettled ==
    ASSUME WellFormed, EntriesShaped, Solvent, ReservedIsOutstanding
    PROVE  HoldsStaySettleable
<1> SUFFICES ASSUME NEW a \in Accounts, NEW i \in Outstanding(a),
                    NEW type \in Settlements, NEW k \in Keys
             PROVE  Affordable(SettlementIntent(type, i, k))
  BY DEF HoldsStaySettleable
<1> DEFINE f == [j \in DOMAIN ledger |-> ledger[j].amount]
           n == ledger[i].amount
<1>1. /\ IsFiniteSet(Outstanding(a)) /\ i \in DOMAIN ledger /\ n \in Nat
      /\ \A j \in Outstanding(a) : f[j] \in Nat
      /\ ledger[i].account = a
  BY OutstandingIsFinite DEF Outstanding, EntriesOf
<1>2. SumFunctionOnSet(f, Outstanding(a)) =
         SumFunctionOnSet(f, Outstanding(a) \ {i}) + f[i]
  <2>1. \A j \in Outstanding(a) : f[j] \in Int
    BY <1>1
  <2> HIDE DEF f
  <2> QED  BY <1>1, <2>1, SumRemove
<1>3. SumFunctionOnSet(f, Outstanding(a) \ {i}) \in Nat
  <2>1. IsFiniteSet(Outstanding(a) \ {i})
    BY <1>1, FS_Subset
  <2> HIDE DEF f
  <2> QED  BY <1>1, <2>1, SumNat
<1>4. ReservedBalance(a) >= n
  <2>1. ReservedBalance(a) = SumFunctionOnSet(f, Outstanding(a)) /\ f[i] = n
    BY <1>1 DEF ReservedIsOutstanding
  <2> HIDE DEF f, n
  <2> QED  BY <1>1, <1>2, <1>3, <2>1
<1>5. /\ LedgerBalance(a) \in Int /\ ReservedBalance(a) \in Int
      /\ LedgerBalance(a) - ReservedBalance(a) >= 0
  BY SumsAreIntegers DEF Solvent
<1>6. LET s == SettlementIntent(type, i, k)
      IN  /\ s.account = a /\ s.reserved_delta = -n
          /\ s.balance_delta = IF type = "debit" THEN -n ELSE 0
  BY <1>1 DEF SettlementIntent, Intent
<1> HIDE DEF f, n
<1> QED  BY <1>1, <1>4, <1>5, <1>6 DEF Affordable

-----------------------------------------------------------------------------
(* The inductive invariant of the ledger, for whatever appends to it. *)

HistoryInv ==
    /\ WellFormed
    /\ EntriesShaped
    /\ KeysAreGlobal
    /\ EffectsHappenOnce
    /\ SettlementsMatchOrigin
    /\ ReservedIsOutstanding
    /\ Solvent

LEMMA EmptyHistory == ASSUME ledger = <<>> PROVE HistoryInv
<1>1. DOMAIN ledger = {} /\ WellFormed
  BY DEF WellFormed
<1>2. \A a : EntriesOf(a) = {} /\ Outstanding(a) = {}
  BY <1>1 DEF EntriesOf, Outstanding
<1>3. \A a : LedgerBalance(a) = 0 /\ ReservedBalance(a) = 0
  BY <1>2, FS_EmptySet, SumChoice DEF LedgerBalance, ReservedBalance
<1>4. ReservedIsOutstanding
  BY <1>2, <1>3, FS_EmptySet, SumChoice DEF ReservedIsOutstanding
<1>5. EntriesShaped /\ KeysAreGlobal /\ EffectsHappenOnce /\ SettlementsMatchOrigin
  BY <1>1 DEF EntriesShaped, KeysAreGlobal, EffectsHappenOnce, SettlementsMatchOrigin, EntriesOfType
<1>6. Solvent
  BY <1>3 DEF Solvent
<1> QED  BY <1>1, <1>4, <1>5, <1>6 DEF HistoryInv

LEMMA AppendKeepsHistory ==
    ASSUME HistoryInv, NEW e, Appends(e)
    PROVE  HistoryInv'
<1>1. WellFormed' /\ EntriesShaped'
  BY AppendKeepsForm DEF HistoryInv
<1>2. KeysAreGlobal' /\ EffectsHappenOnce' /\ SettlementsMatchOrigin'
  BY AppendKeepsKeys, AppendKeepsEffects, AppendKeepsOrigins DEF HistoryInv
<1>3. ReservedIsOutstanding' /\ Solvent'
  BY AppendKeepsReserve, AppendKeepsSolvent DEF HistoryInv
<1> QED  BY <1>1, <1>2, <1>3 DEF HistoryInv

\* It is about the ledger only.
LEMMA HistoryUnchanged ==
    ASSUME HistoryInv, UNCHANGED ledger
    PROVE  HistoryInv'
<1>1. WellFormed' /\ EntriesShaped'
  BY DEF HistoryInv, WellFormed, EntriesShaped, Shaped, DeltaConvention, CorrelationShape, AuthorityShape
<1>2. KeysAreGlobal' /\ EffectsHappenOnce' /\ SettlementsMatchOrigin'
  BY DEF HistoryInv, KeysAreGlobal, EffectsHappenOnce, SettlementsMatchOrigin, EntriesOfType,
     CorrelatedWith
<1>3. ASSUME NEW a
      PROVE  /\ EntriesOf(a)' = EntriesOf(a) /\ Outstanding(a)' = Outstanding(a)
             /\ LedgerBalance(a)' = LedgerBalance(a) /\ ReservedBalance(a)' = ReservedBalance(a)
  <2>1. EntriesOf(a)' = EntriesOf(a) /\ Outstanding(a)' = Outstanding(a)
    BY DEF EntriesOf, Outstanding, Settled, EntriesOfType
  <2> QED  BY <2>1 DEF LedgerBalance, ReservedBalance
<1>4. ReservedIsOutstanding'
  BY <1>3 DEF HistoryInv, ReservedIsOutstanding
<1>5. Solvent'
  BY <1>3 DEF HistoryInv, Solvent
<1> QED  BY <1>1, <1>2, <1>4, <1>5 DEF HistoryInv

-----------------------------------------------------------------------------
(* The entries of a job. *)

JobTypes == Settlements \cup {"reservation", "refund"}

\* A job has one reservation, at most one settlement, which settles it, and its
\* refunds return its debit.
LEMMA JobHistory ==
    ASSUME HistoryInv, NEW j \in Jobs
    PROVE  /\ \A i \in JobEntries(j, JobTypes) : ledger[i].account = JobAccount[j]
           /\ \A i, m \in JobEntries(j, {"reservation"}) : i = m
           /\ \A i \in JobEntries(j, Settlements) :
                 /\ ledger[i].origin \in JobEntries(j, {"reservation"})
                 /\ ledger[ledger[i].origin].amount = ledger[i].amount
           /\ \A i, m \in JobEntries(j, Settlements) : i = m
           /\ \A i \in JobEntries(j, {"refund"}) : ledger[i].origin \in JobEntries(j, {"debit"})
<1>1. ASSUME NEW i \in JobEntries(j, JobTypes)
      PROVE  /\ ledger[i].account = JobAccount[j]
             /\ ledger[i].entry_type = "reservation" => ledger[i].origin = j
  BY DEF JobEntries, EntriesOfType, JobTypes, HistoryInv, EntriesShaped, Shaped, AuthorityShape,
     CorrelationShape, Settlements
<1>2. \A i, m \in JobEntries(j, {"reservation"}) : i = m
  <2> SUFFICES ASSUME NEW i \in JobEntries(j, {"reservation"}),
                      NEW m \in JobEntries(j, {"reservation"})
               PROVE  i = m
    OBVIOUS
  <2>1. /\ i \in JobEntries(j, JobTypes) /\ m \in JobEntries(j, JobTypes)
        /\ i \in EntriesOfType({"reservation"}) /\ m \in EntriesOfType({"reservation"})
    BY DEF JobEntries, EntriesOfType, JobTypes
  <2>2. ledger[i].origin = ledger[m].origin /\ ledger[i].account = ledger[m].account
    BY <1>1, <2>1 DEF EntriesOfType
  <2> QED  BY <2>1, <2>2 DEF HistoryInv, EffectsHappenOnce, OnceOnly
<1>3. ASSUME NEW i \in JobEntries(j, Settlements)
      PROVE  /\ ledger[i].origin \in JobEntries(j, {"reservation"})
             /\ ledger[ledger[i].origin].amount = ledger[i].amount
  <2>1. /\ i \in EntriesOfType(Settlements \cup {"refund"})
        /\ ledger[i].entry_type # "refund" /\ ledger[i].job = j
    BY DEF JobEntries, EntriesOfType, Settlements
  <2> QED  BY <2>1, OriginsBefore DEF HistoryInv, IsOriginOf, OriginType, JobEntries, EntriesOfType
<1>4. \A i, m \in JobEntries(j, Settlements) : i = m
  <2> SUFFICES ASSUME NEW i \in JobEntries(j, Settlements), NEW m \in JobEntries(j, Settlements)
               PROVE  i = m
    OBVIOUS
  <2>1. /\ i \in JobEntries(j, JobTypes) /\ m \in JobEntries(j, JobTypes)
        /\ i \in EntriesOfType(Settlements) /\ m \in EntriesOfType(Settlements)
    BY DEF JobEntries, EntriesOfType, JobTypes
  <2>2. ledger[i].account = ledger[m].account
    BY <1>1, <2>1
  <2>3. ledger[i].origin = ledger[m].origin
    BY <1>2, <1>3
  <2> QED  BY <2>1, <2>2, <2>3 DEF HistoryInv, EffectsHappenOnce, OnceOnly
<1>5. ASSUME NEW i \in JobEntries(j, {"refund"})
      PROVE  ledger[i].origin \in JobEntries(j, {"debit"})
  <2>1. /\ i \in EntriesOfType(Settlements \cup {"refund"})
        /\ ledger[i].entry_type = "refund" /\ ledger[i].job = j
    BY DEF JobEntries, EntriesOfType
  <2> QED  BY <2>1, OriginsBefore DEF HistoryInv, IsOriginOf, OriginType, JobEntries, EntriesOfType
<1> QED  BY <1>1, <1>2, <1>3, <1>4, <1>5

LEMMA JobEntriesAppended ==
    ASSUME WellFormed, NEW e, Appends(e), NEW j, NEW types
    PROVE  /\ JobEntries(j, types)' =
                 IF e.job = j /\ e.entry_type \in types
                 THEN JobEntries(j, types) \cup {Len(ledger) + 1}
                 ELSE JobEntries(j, types)
           /\ Len(ledger) + 1 \notin JobEntries(j, types)
           /\ \A i \in JobEntries(j, types) : ledger'[i] = ledger[i]
BY AppendedLedger DEF JobEntries, EntriesOfType

LEMMA HeldStays ==
    ASSUME WellFormed, NEW e, Appends(e), NEW j, ~(e.job = j /\ e.entry_type = "reservation")
    PROVE  JobHeld(j)' = JobHeld(j)
<1> DEFINE S == JobEntries(j, {"reservation"})
<1>1. S' = S /\ \A n \in S : ledger'[n] = ledger[n]
  BY JobEntriesAppended
<1>2. JobHeld(j) = IF S = {} THEN 0 ELSE ledger[Choice(S)].amount
  BY DEF JobHeld, Choice
<1>3. JobHeld(j)' = IF S' = {} THEN 0 ELSE ledger'[Choice(S')].amount
  BY DEF JobHeld, Choice
<1>4. S # {} => Choice(S) \in S
  BY Chosen
<1> QED  BY <1>1, <1>2, <1>3, <1>4

\* An append that is not about the job leaves it where it is.
LEMMA JobUntouched ==
    ASSUME WellFormed, NEW e, Appends(e), NEW j, e.job # j \/ e.entry_type \notin JobTypes
    PROVE  JobPhase(j)' = JobPhase(j) /\ JobHeld(j)' = JobHeld(j)
<1>1. \A types \in SUBSET JobTypes :
         /\ JobEntries(j, types)' = JobEntries(j, types)
         /\ \A i \in JobEntries(j, types) : ledger'[i] = ledger[i]
  BY JobEntriesAppended
<1>2. {"reservation"} \in SUBSET JobTypes /\ Settlements \in SUBSET JobTypes
      /\ {"debit"} \in SUBSET JobTypes /\ {"reservation_release"} \in SUBSET JobTypes
      /\ {"refund"} \in SUBSET JobTypes
  BY DEF JobTypes, Settlements
<1>3. JobPhase(j)' = JobPhase(j)
  BY <1>1, <1>2 DEF JobPhase
<1>4. JobHeld(j)' = JobHeld(j)
  BY HeldStays DEF JobTypes
<1> QED  BY <1>3, <1>4

LEMMA JobReserved ==
    ASSUME HistoryInv, NEW e, Appends(e), e.entry_type = "reservation"
    PROVE  /\ e.job \in Jobs /\ JobAccount[e.job] = e.account
           /\ JobPhase(e.job) = "none"
           /\ JobPhase(e.job)' = "held" /\ JobHeld(e.job)' = e.amount
<1> DEFINE j == e.job
<1> USE DEF HistoryInv
<1>1. e.job \in Jobs /\ JobAccount[e.job] = e.account /\ e.origin = j
  BY DEF Appends, Fits, Shaped, AuthorityShape, CorrelationShape, Settlements
<1>2. JobEntries(j, {"reservation"}) = {}
  <2> SUFFICES ASSUME NEW i \in JobEntries(j, {"reservation"}) PROVE FALSE
    OBVIOUS
  <2>1. /\ i \in DOMAIN ledger /\ ledger[i].entry_type = "reservation" /\ ledger[i].job = j
        /\ ledger[i].account = e.account /\ ledger[i].origin = e.origin
    BY <1>1 DEF JobEntries, EntriesOfType, EntriesShaped, Shaped, AuthorityShape, CorrelationShape,
       Settlements
  <2>2. SameEffect(ledger[i], e)
    BY <2>1, OnceOnlyIsOneClass DEF SameEffect, OnceOnly
  <2> QED  BY <2>1, <2>2 DEF Appends, DuplicateEffect
<1>3. JobEntries(j, Settlements) = {}
  BY <1>1, <1>2, JobHistory
<1>4. /\ JobEntries(j, {"debit"}) = {} /\ JobEntries(j, {"reservation_release"}) = {}
      /\ JobEntries(j, {"refund"}) = {}
  <2>1. JobEntries(j, {"debit"}) = {} /\ JobEntries(j, {"reservation_release"}) = {}
    BY <1>3 DEF JobEntries, EntriesOfType, Settlements
  <2> QED  BY <1>1, <2>1, JobHistory
<1>5. JobPhase(j) = "none"
  BY <1>2, <1>4 DEF JobPhase
<1>6. /\ JobEntries(j, {"reservation"})' = {Len(ledger) + 1}
      /\ JobEntries(j, Settlements)' = {} /\ JobEntries(j, {"debit"})' = {}
      /\ JobEntries(j, {"reservation_release"})' = {} /\ JobEntries(j, {"refund"})' = {}
      /\ ledger'[Len(ledger) + 1] = e
  BY <1>2, <1>3, <1>4, JobEntriesAppended, AppendedLedger DEF Settlements
<1>7. JobPhase(j)' = "held"
  BY <1>6 DEF JobPhase
<1>8. JobHeld(j)' = e.amount
  BY <1>6 DEF JobHeld
<1> QED  BY <1>1, <1>5, <1>7, <1>8

LEMMA JobHeldSince ==
    ASSUME HistoryInv, NEW j \in Jobs, NEW i \in JobEntries(j, {"reservation"})
    PROVE  JobHeld(j) = ledger[i].amount
<1>1. JobEntries(j, {"reservation"}) = {i}
  BY JobHistory
<1> QED  BY <1>1 DEF JobHeld

LEMMA JobSettled ==
    ASSUME HistoryInv, NEW e, Appends(e), e.entry_type \in Settlements
    PROVE  /\ e.job \in Jobs /\ JobAccount[e.job] = e.account
           /\ JobPhase(e.job) = "held" /\ JobHeld(e.job) = e.amount
           /\ JobPhase(e.job)' = IF e.entry_type = "debit" THEN "debited" ELSE "released"
           /\ JobHeld(e.job)' = JobHeld(e.job)
<1> DEFINE j == e.job
<1> USE DEF HistoryInv
<1>1. e.job \in Jobs /\ JobAccount[e.job] = e.account
  BY DEF Appends, Fits, Shaped, AuthorityShape
<1>2. /\ e.origin \in JobEntries(j, {"reservation"})
      /\ ledger[e.origin].amount = e.amount
  BY DEF Appends, Fits, RefersBack, OriginType, Settlements, JobEntries, EntriesOfType
<1>3. JobHeld(j) = e.amount
  BY <1>1, <1>2, JobHeldSince
<1>4. JobEntries(j, Settlements) = {}
  <2> SUFFICES ASSUME NEW i \in JobEntries(j, Settlements) PROVE FALSE
    OBVIOUS
  <2>1. i \in DOMAIN ledger /\ ledger[i].entry_type \in Settlements
    BY DEF JobEntries, EntriesOfType
  <2>2. ledger[i].origin = e.origin
    BY <1>1, <1>2, JobHistory
  <2>3. ledger[i].account = e.account
    <3>1. i \in JobEntries(j, JobTypes)
      BY DEF JobEntries, EntriesOfType, JobTypes
    <3> QED  BY <1>1, <3>1, JobHistory
  <2>4. SameEffect(ledger[i], e)
    BY <2>1, <2>2, <2>3, OnceOnlyIsOneClass DEF SameEffect, OnceOnly
  <2> QED  BY <2>1, <2>4 DEF Appends, DuplicateEffect
<1>5. /\ JobEntries(j, {"debit"}) = {} /\ JobEntries(j, {"reservation_release"}) = {}
      /\ JobEntries(j, {"refund"}) = {}
  <2>1. JobEntries(j, {"debit"}) = {} /\ JobEntries(j, {"reservation_release"}) = {}
    BY <1>4 DEF JobEntries, EntriesOfType, Settlements
  <2> QED  BY <1>1, <2>1, JobHistory
<1>6. JobPhase(j) = "held"
  BY <1>2, <1>4, <1>5 DEF JobPhase
<1>7. /\ JobEntries(j, {"reservation"})' = JobEntries(j, {"reservation"})
      /\ JobEntries(j, Settlements)' # {}
      /\ JobEntries(j, {"debit"})' = IF e.entry_type = "debit" THEN {Len(ledger) + 1} ELSE {}
      /\ JobEntries(j, {"reservation_release"})' =
            IF e.entry_type = "debit" THEN {} ELSE {Len(ledger) + 1}
      /\ JobEntries(j, {"refund"})' = {}
  BY <1>5, JobEntriesAppended DEF Settlements
<1>8. JobPhase(j)' = IF e.entry_type = "debit" THEN "debited" ELSE "released"
  BY <1>7 DEF JobPhase
<1>9. JobHeld(j)' = JobHeld(j)
  BY HeldStays DEF Settlements
<1> QED  BY <1>1, <1>3, <1>6, <1>8, <1>9

LEMMA JobRefunded ==
    ASSUME HistoryInv, NEW e, Appends(e), e.entry_type = "refund"
    PROVE  /\ e.job \in Jobs /\ JobAccount[e.job] = e.account
           /\ JobPhase(e.job) = "debited" /\ JobHeld(e.job) = e.amount
           /\ JobPhase(e.job)' = "refunded"
           /\ JobHeld(e.job)' = JobHeld(e.job)
<1> DEFINE j == e.job
           d == e.origin
<1> USE DEF HistoryInv
<1>1. e.job \in Jobs /\ JobAccount[e.job] = e.account
  BY DEF Appends, Fits, Shaped, AuthorityShape
<1>2. /\ d \in JobEntries(j, {"debit"}) /\ d \in JobEntries(j, Settlements)
      /\ ledger[d].amount = e.amount
  BY DEF Appends, Fits, RefersBack, OriginType, Settlements, JobEntries, EntriesOfType
<1>3. JobHeld(j) = e.amount
  BY <1>1, <1>2, JobHistory, JobHeldSince
<1>4. JobEntries(j, {"reservation_release"}) = {}
  <2> SUFFICES ASSUME NEW i \in JobEntries(j, {"reservation_release"}) PROVE FALSE
    OBVIOUS
  <2>1. i \in JobEntries(j, Settlements) /\ ledger[i].entry_type # ledger[d].entry_type
    BY <1>2 DEF JobEntries, EntriesOfType, Settlements
  <2> QED  BY <1>1, <1>2, <2>1, JobHistory
<1>5. JobEntries(j, {"refund"}) = {}
  <2> SUFFICES ASSUME NEW i \in JobEntries(j, {"refund"}) PROVE FALSE
    OBVIOUS
  <2>1. i \in DOMAIN ledger /\ ledger[i].entry_type = "refund"
    BY DEF JobEntries, EntriesOfType
  <2>2. ledger[i].origin = d
    <3>1. ledger[i].origin \in JobEntries(j, {"debit"})
      BY <1>1, JobHistory
    <3>2. ledger[i].origin \in JobEntries(j, Settlements)
      BY <3>1 DEF JobEntries, EntriesOfType, Settlements
    <3> QED  BY <1>1, <1>2, <3>2, JobHistory
  <2>3. ledger[i].account = e.account
    <3>1. i \in JobEntries(j, JobTypes)
      BY DEF JobEntries, EntriesOfType, JobTypes
    <3> QED  BY <1>1, <3>1, JobHistory
  <2>4. SameEffect(ledger[i], e)
    BY <2>1, <2>2, <2>3, OnceOnlyIsOneClass DEF SameEffect, OnceOnly
  <2> QED  BY <2>1, <2>4 DEF Appends, DuplicateEffect
<1>6. JobPhase(j) = "debited"
  BY <1>2, <1>4, <1>5 DEF JobPhase
<1>7. /\ JobEntries(j, {"reservation"})' = JobEntries(j, {"reservation"})
      /\ JobEntries(j, Settlements)' # {}
      /\ JobEntries(j, {"reservation_release"})' = {}
      /\ JobEntries(j, {"refund"})' # {}
  BY <1>2, <1>4, JobEntriesAppended DEF Settlements
<1>8. JobPhase(j)' = "refunded"
  BY <1>7 DEF JobPhase
<1>9. JobHeld(j)' = JobHeld(j)
  BY HeldStays DEF Settlements
<1> QED  BY <1>1, <1>3, <1>6, <1>8, <1>9

-----------------------------------------------------------------------------
(* The ledger implements CreditAccount. *)

\* What CreditAccount sees of an append: the balances of one account and, for
\* the entries of a job, where that job's charge stands.
LEMMA AccountSees ==
    ASSUME HistoryInv, NEW e, Appends(e)
    PROVE  /\ e.account \in Accounts /\ e.amount \in Credits
           /\ LedgerBalance(e.account) \in Int /\ ReservedBalance(e.account) \in Int
           /\ [a \in Accounts |-> LedgerBalance(a)'] =
                 [[a \in Accounts |-> LedgerBalance(a)] EXCEPT ![e.account] = @ + e.balance_delta]
           /\ [a \in Accounts |-> ReservedBalance(a)'] =
                 [[a \in Accounts |-> ReservedBalance(a)] EXCEPT ![e.account] = @ + e.reserved_delta]
           /\ LedgerBalance(e.account) + e.balance_delta
                 - (ReservedBalance(e.account) + e.reserved_delta) >= 0
<1>1. e.account \in Accounts /\ e.amount \in Credits
  BY DEF Appends, Fits, Entry
<1>2. ASSUME NEW a \in Accounts
      PROVE  /\ LedgerBalance(a) \in Int /\ ReservedBalance(a) \in Int
             /\ LedgerBalance(a)' = IF a = e.account THEN LedgerBalance(a) + e.balance_delta
                                    ELSE LedgerBalance(a)
             /\ ReservedBalance(a)' = IF a = e.account THEN ReservedBalance(a) + e.reserved_delta
                                      ELSE ReservedBalance(a)
  <2>1. LedgerBalance(a) \in Int /\ ReservedBalance(a) \in Int
    BY SumsAreIntegers DEF HistoryInv
  <2>2. /\ LedgerBalance(a)' = LedgerBalance(a) + (IF e.account = a THEN e.balance_delta ELSE 0)
        /\ ReservedBalance(a)' = ReservedBalance(a) + (IF e.account = a THEN e.reserved_delta ELSE 0)
    BY AppendedBalances DEF HistoryInv
  <2> QED  BY <2>1, <2>2
<1>3. LedgerBalance(e.account) + e.balance_delta
         - (ReservedBalance(e.account) + e.reserved_delta) >= 0
  BY <1>1, <1>2 DEF Appends, Affordable, Fits, Entry
<1> QED  BY <1>1, <1>2, <1>3

\* The jobs an append is not about stay where they are.
LEMMA OtherJobsStay ==
    ASSUME HistoryInv, NEW e, Appends(e)
    PROVE  /\ e.entry_type \notin JobTypes =>
                 /\ [j \in Jobs |-> JobPhase(j)'] = [j \in Jobs |-> JobPhase(j)]
                 /\ [j \in Jobs |-> JobHeld(j)'] = [j \in Jobs |-> JobHeld(j)]
           /\ /\ [j \in Jobs |-> JobPhase(j)'] =
                    [[j \in Jobs |-> JobPhase(j)] EXCEPT ![e.job] = JobPhase(e.job)']
              /\ [j \in Jobs |-> JobHeld(j)'] =
                    [[j \in Jobs |-> JobHeld(j)] EXCEPT ![e.job] = JobHeld(e.job)']
<1>1. ASSUME NEW j \in Jobs, e.job # j \/ e.entry_type \notin JobTypes
      PROVE  JobPhase(j)' = JobPhase(j) /\ JobHeld(j)' = JobHeld(j)
  BY <1>1, JobUntouched DEF HistoryInv
<1> QED  BY <1>1

\* Each append is one operation of CreditAccount.
LEMMA AppendIsAccountStep ==
    ASSUME HistoryInv, NEW e, Appends(e)
    PROVE  Account!AccountNext
<1> DEFINE bal == [a \in Accounts |-> LedgerBalance(a)]
           res == [a \in Accounts |-> ReservedBalance(a)]
           ph == [j \in Jobs |-> JobPhase(j)]
           hd == [j \in Jobs |-> JobHeld(j)]
           n == e.amount
           b == e.account
<1>1. /\ b \in Accounts /\ n \in Credits /\ n \in Int
      /\ bal[b] \in Int /\ res[b] \in Int
      /\ bal' = [bal EXCEPT ![b] = @ + e.balance_delta]
      /\ res' = [res EXCEPT ![b] = @ + e.reserved_delta]
      /\ bal[b] + e.balance_delta - (res[b] + e.reserved_delta) >= 0
  BY AccountSees, CreditsAreIntegers
<1>2. /\ e.entry_type \notin JobTypes => ph' = ph /\ hd' = hd
      /\ ph' = [ph EXCEPT ![e.job] = JobPhase(e.job)']
      /\ hd' = [hd EXCEPT ![e.job] = JobHeld(e.job)']
  BY OtherJobsStay
<1>3. e.entry_type \in EntryTypes /\ DeltaConvention(e)
  BY DEF Appends, Fits, Shaped, Entry
<1>4. CASE e.entry_type \in {"monthly_grant", "bolt_on_grant", "admin_adjustment", "expiry_reset"}
  <2>1. /\ e.reserved_delta = 0
        /\ e.balance_delta = n \/ e.balance_delta = -n
        /\ e.entry_type \notin JobTypes
    BY <1>3, <1>4 DEF DeltaConvention, JobTypes, Settlements
  <2>2. res' = res
    BY <1>1, <2>1
  <2>3. CASE e.balance_delta = n
    <3>1. Account!Deposit(b, n)
      BY <1>1, <1>2, <2>1, <2>2, <2>3 DEF Account!Deposit
    <3> QED  BY <1>1, <3>1 DEF Account!AccountNext
  <2>4. CASE e.balance_delta = -n
    <3> HIDE DEF bal, res, ph, hd
    <3>1. bal[b] - res[b] >= n
      BY <1>1, <2>1, <2>4
    <3>2. bal[b] + e.balance_delta = bal[b] - n
      BY <1>1, <2>4
    <3>3. bal' = [bal EXCEPT ![b] = @ - n]
      BY <1>1, <3>2
    <3> USE DEF bal, res, ph, hd
    <3>4. Account!Withdraw(b, n)
      BY <1>2, <2>1, <2>2, <3>1, <3>3 DEF Account!Withdraw, Account!Available
    <3> QED  BY <1>1, <3>4 DEF Account!AccountNext
  <2> QED  BY <2>1, <2>3, <2>4
<1>5. CASE e.entry_type = "reservation"
  <2>1. e.reserved_delta = n /\ e.balance_delta = 0
    BY <1>3, <1>5 DEF DeltaConvention
  <2>2. /\ e.job \in Jobs /\ JobAccount[e.job] = b /\ ph[e.job] = "none"
        /\ ph' = [ph EXCEPT ![e.job] = "held"] /\ hd' = [hd EXCEPT ![e.job] = n]
    BY <1>2, <1>5, JobReserved
  <2>3. bal' = bal
    BY <1>1, <2>1
  <2>4. Account!Hold(e.job, n)
    BY <1>1, <2>1, <2>2, <2>3 DEF Account!Hold, Account!Available
  <2> QED  BY <1>1, <2>2, <2>4 DEF Account!AccountNext
<1>6. CASE e.entry_type \in Settlements
  <2>1. /\ e.job \in Jobs /\ JobAccount[e.job] = b /\ ph[e.job] = "held" /\ hd[e.job] = n
        /\ ph' = [ph EXCEPT ![e.job] = IF e.entry_type = "debit" THEN "debited" ELSE "released"]
        /\ hd' = hd
    <3>1. /\ e.job \in Jobs /\ JobAccount[e.job] = b /\ ph[e.job] = "held" /\ hd[e.job] = n
          /\ JobPhase(e.job)' = IF e.entry_type = "debit" THEN "debited" ELSE "released"
          /\ JobHeld(e.job)' = hd[e.job]
      BY <1>6, JobSettled
    <3>2. hd \in [Jobs -> {hd[j] : j \in Jobs}]
      OBVIOUS
    <3> HIDE DEF ph, hd
    <3> QED  BY <1>2, <3>1, <3>2
  <2>2. res' = [res EXCEPT ![b] = @ - n]
    BY <1>1, <1>3, <1>6 DEF DeltaConvention, Settlements
  <2>3. CASE e.entry_type = "debit"
    <3>1. bal' = [bal EXCEPT ![b] = @ - n]
      BY <1>1, <1>3, <2>3 DEF DeltaConvention
    <3>2. Account!Debit(e.job)
      BY <2>1, <2>2, <2>3, <3>1 DEF Account!Debit
    <3> QED  BY <2>1, <3>2 DEF Account!AccountNext
  <2>4. CASE e.entry_type = "reservation_release"
    <3>1. bal' = bal
      BY <1>1, <1>3, <2>4 DEF DeltaConvention
    <3>2. Account!Release(e.job)
      BY <2>1, <2>2, <2>4, <3>1 DEF Account!Release
    <3> QED  BY <2>1, <3>2 DEF Account!AccountNext
  <2> QED  BY <1>6, <2>3, <2>4 DEF Settlements
<1>7. CASE e.entry_type = "refund"
  <2>1. e.reserved_delta = 0 /\ e.balance_delta = n
    BY <1>3, <1>7 DEF DeltaConvention
  <2>2. /\ e.job \in Jobs /\ JobAccount[e.job] = b /\ ph[e.job] = "debited" /\ hd[e.job] = n
        /\ ph' = [ph EXCEPT ![e.job] = "refunded"] /\ hd' = hd
    <3>1. /\ e.job \in Jobs /\ JobAccount[e.job] = b /\ ph[e.job] = "debited" /\ hd[e.job] = n
          /\ JobPhase(e.job)' = "refunded"
          /\ JobHeld(e.job)' = hd[e.job]
      BY <1>7, JobRefunded
    <3>2. hd \in [Jobs -> {hd[j] : j \in Jobs}]
      OBVIOUS
    <3> HIDE DEF ph, hd
    <3> QED  BY <1>2, <3>1, <3>2
  <2>3. res' = res
    BY <1>1, <2>1
  <2>4. Account!Refund(e.job)
    BY <1>1, <2>1, <2>2, <2>3 DEF Account!Refund
  <2> QED  BY <2>2, <2>4 DEF Account!AccountNext
<1> QED  BY <1>3, <1>4, <1>5, <1>6, <1>7 DEF EntryTypes, Settlements

\* An empty ledger is an account on which nothing has happened.
LEMMA EmptyIsAccountInit ==
    ASSUME ledger = <<>>
    PROVE  Account!AccountInit
<1>1. \A a : EntriesOf(a) = {}
  BY DEF EntriesOf
<1>2. \A a : LedgerBalance(a) = 0 /\ ReservedBalance(a) = 0
  BY <1>1, FS_EmptySet, SumChoice DEF LedgerBalance, ReservedBalance
<1>3. \A j, types : JobEntries(j, types) = {}
  BY DEF JobEntries, EntriesOfType
<1>4. \A j : JobPhase(j) = "none" /\ JobHeld(j) = 0
  BY <1>3 DEF JobPhase, JobHeld
<1> QED  BY <1>2, <1>4 DEF Account!AccountInit

\* Nothing of the account moves while the ledger stays.
LEMMA AccountUnchanged ==
    ASSUME UNCHANGED ledger
    PROVE  UNCHANGED Account!accountVars
<1>1. ASSUME NEW a
      PROVE  LedgerBalance(a)' = LedgerBalance(a) /\ ReservedBalance(a)' = ReservedBalance(a)
  <2>1. EntriesOf(a)' = EntriesOf(a)
    BY DEF EntriesOf
  <2> QED  BY <2>1 DEF LedgerBalance, ReservedBalance
<1>2. ASSUME NEW j
      PROVE  JobPhase(j)' = JobPhase(j) /\ JobHeld(j)' = JobHeld(j)
  <2>1. \A types : JobEntries(j, types)' = JobEntries(j, types)
    BY DEF JobEntries, EntriesOfType
  <2>2. JobPhase(j)' = JobPhase(j)
    BY <2>1 DEF JobPhase
  <2>3. JobHeld(j) = IF JobEntries(j, {"reservation"}) = {} THEN 0
                     ELSE ledger[Choice(JobEntries(j, {"reservation"}))].amount
    BY DEF JobHeld, Choice
  <2>4. JobHeld(j)' = IF JobEntries(j, {"reservation"})' = {} THEN 0
                      ELSE ledger'[Choice(JobEntries(j, {"reservation"})')].amount
    BY DEF JobHeld, Choice
  <2> QED  BY <2>1, <2>2, <2>3, <2>4
<1> QED  BY <1>1, <1>2 DEF Account!accountVars

-----------------------------------------------------------------------------
(* The theorems of the ledger. *)

LedgerInv == TypeOK /\ HistoryInv

LEMMA InitLedger == Init => LedgerInv
<1> SUFFICES ASSUME Init PROVE LedgerInv
  OBVIOUS
<1>1. HistoryInv
  BY EmptyHistory DEF Init
<1>2. TypeOK
  BY <1>1 DEF Init, TypeOK, HistoryInv, WellFormed
<1> QED  BY <1>1, <1>2 DEF LedgerInv

LEMMA NextKeepsLedger == LedgerInv /\ [Next]_vars => LedgerInv'
<1> SUFFICES ASSUME LedgerInv, [Next]_vars PROVE LedgerInv'
  OBVIOUS
<1>1. HistoryInv'
  BY StepsAppend, AppendKeepsHistory, HistoryUnchanged DEF LedgerInv, HistoryInv, Accepted
<1>2. /\ terms' \in [Accounts -> Terms \cup {NoTerms}]
      /\ status' \in [Accounts -> {"active", "frozen", "closed"}]
  BY DEF LedgerInv, TypeOK, Next, vars, GrantMonthlyCredits, GrantBoltOnCredits, AdjustCredits,
     ExpireCredits, CreateReservation, ReleaseReservation, FinalizeDebit, Refund, ChangeTerms,
     AppendLocked
<1> QED  BY <1>1, <1>2 DEF LedgerInv, TypeOK, HistoryInv, WellFormed

LEMMA LedgerInvariant == Spec => []LedgerInv
BY InitLedger, NextKeepsLedger, PTL DEF Spec

\* Every entry that is ever appended is well-formed.
THEOREM LedgerTypeCorrect == Spec => []TypeOK
<1>1. LedgerInv => TypeOK
  BY DEF LedgerInv
<1> QED  BY <1>1, LedgerInvariant, PTL

\* One key, one intent: across all accounts and operations.
THEOREM KeysStayGlobal == Spec => []KeysAreGlobal
<1>1. LedgerInv => KeysAreGlobal
  BY DEF LedgerInv, HistoryInv
<1> QED  BY <1>1, LedgerInvariant, PTL

\* A reservation per job, a settlement per reservation, a refund per debit,
\* a grant per period and payment: whatever keys the callers choose.
THEOREM EffectsStayOnce == Spec => []EffectsHappenOnce
<1>1. LedgerInv => EffectsHappenOnce
  BY DEF LedgerInv, HistoryInv
<1> QED  BY <1>1, LedgerInvariant, PTL

\* No settlement or refund ever disagrees, in amount, account or job, with
\* the earlier entry it refers to.
THEOREM SettlementsStayMatched == Spec => []SettlementsMatchOrigin
<1>1. LedgerInv => SettlementsMatchOrigin
  BY DEF LedgerInv, HistoryInv
<1> QED  BY <1>1, LedgerInvariant, PTL

\* The reserved balance that the projection sums up is, after any operations,
\* the sum of the reservations nobody has settled.
THEOREM ReserveStaysOutstanding == Spec => []ReservedIsOutstanding
<1>1. LedgerInv => ReservedIsOutstanding
  BY DEF LedgerInv, HistoryInv
<1> QED  BY <1>1, LedgerInvariant, PTL

\* Whatever happens to an account, appendLocked can afford the debit and the
\* release of every reservation that stands.
THEOREM HoldsCanAlwaysBeSettled == Spec => []HoldsStaySettleable
<1>1. LedgerInv => HoldsStaySettleable
  BY HoldsCanBeSettled DEF LedgerInv, HistoryInv
<1> QED  BY <1>1, LedgerInvariant, PTL

\* The ledger, its sums and the entries of a job are an account of
\* CreditAccount: every append is one of its operations, under its guard.
THEOREM LedgerImplementsAccount == Spec => ImplementsCreditAccount
<1>1. Init => Account!AccountInit
  BY EmptyIsAccountInit DEF Init
<1>2. LedgerInv /\ [Next]_vars => [Account!AccountNext]_(Account!accountVars)
  <2> SUFFICES ASSUME LedgerInv, [Next]_vars
               PROVE  Account!AccountNext \/ UNCHANGED Account!accountVars
    OBVIOUS
  <2> QED  BY StepsAppend, AppendIsAccountStep, AccountUnchanged DEF LedgerInv, HistoryInv, Accepted
<1> QED  BY <1>1, <1>2, LedgerInvariant, PTL DEF Spec, ImplementsCreditAccount, Account!AccountSpec

\* The checks, unique indexes and triggers of the table, which the database
\* runs on its own, never refuse what the operations put into the ledger.
THEOREM DatabaseAlwaysAccepts == Spec => DatabaseAcceptsEntries
<1> DEFINE Fine == /\ AppendedOnly
                   /\ \A i \in DOMAIN ledger' \ DOMAIN ledger :
                         LET e == ledger'[i]
                         IN  /\ DeltaConvention(e)
                             /\ CorrelationShape(e)
                             /\ AuthorityShape(e)
                             /\ SettlementAccepted(e)
                             /\ IndexesAccept(e)
<1>1. ASSUME LedgerInv, NEW e, Appends(e) PROVE Fine
  <2>1. AppendedOnly
    BY <1>1 DEF AppendedOnly, Appends, Fits, LedgerInv, HistoryInv, WellFormed
  <2>2. \A i \in DOMAIN ledger' \ DOMAIN ledger : ledger'[i] = e
    BY <1>1, AppendedLedger DEF LedgerInv, HistoryInv
  <2>3. DeltaConvention(e) /\ CorrelationShape(e) /\ AuthorityShape(e)
    BY <1>1 DEF Appends, Fits, Shaped
  <2>4. SettlementAccepted(e)
    BY <1>1 DEF SettlementAccepted, Appends, Fits, RefersBack, OriginType, Settlements
  <2>5. IndexesAccept(e)
    <3> SUFFICES ASSUME NEW i \in DOMAIN ledger
                 PROVE  /\ ledger[i].key # e.key
                        /\ \A types \in Indexes :
                              {e.entry_type, ledger[i].entry_type} \subseteq types
                                 /\ ledger[i].account = e.account
                              => ledger[i].origin # e.origin
      BY DEF IndexesAccept
    <3>1. ledger[i].key # e.key /\ ~SameEffect(ledger[i], e)
      BY <1>1 DEF Appends, KeyUsed, DuplicateEffect
    <3> QED  BY <3>1, OnceOnlyIsOneClass DEF SameEffect, Indexes, OnceOnly
  <2> HIDE DEF Fine
  <2> QED  BY <2>1, <2>2, <2>3, <2>4, <2>5 DEF Fine
<1>2. LedgerInv /\ [Next]_vars => [Fine]_ledger
  <2> HIDE DEF Fine
  <2> QED  BY <1>1, StepsAppend DEF LedgerInv, HistoryInv, Accepted
<1>3. [Fine]_ledger => [Fine]_ledger
  OBVIOUS
<1> QED  BY <1>2, LedgerInvariant, PTL DEF Spec, DatabaseAcceptsEntries

-----------------------------------------------------------------------------
(* The repository in memory answers as the durable one does. *)

MemoryInv ==
    /\ LedgerInv
    /\ entries = ledger
    /\ DOMAIN idempotency = {ledger[i].key : i \in DOMAIN ledger}
    /\ \A i \in DOMAIN ledger : idempotency[ledger[i].key] = i
    /\ logicalEffects = UNION {logicalKeyFor(ledger[i]) : i \in DOMAIN ledger}

\* The in-memory key of an effect tells effects apart as the durable query does.
LEMMA EffectsAlike ==
    ASSUME NEW e, NEW f, e.entry_type \in EntryTypes, f.entry_type \in EntryTypes
    PROVE  SameEffect(e, f) <=> logicalKeyFor(e) \cap logicalKeyFor(f) # {}
<1> DEFINE class(t) == IF t \in Settlements THEN "reservation-settlement" ELSE t
           none == {"admin_adjustment", "expiry_reset"}
<1>1. ASSUME NEW t \in EntryTypes
      PROVE  /\ EffectClass(t) # "none" <=> t \notin none
             /\ t \notin none => class(t) \notin Settlements
  BY DEF EffectClass, EntryTypes, Settlements
<1>2. ASSUME NEW t \in EntryTypes, NEW u \in EntryTypes, t \notin none, u \notin none
      PROVE  EffectClass(t) = EffectClass(u) <=> class(t) = class(u)
  BY <1>2 DEF EffectClass, EntryTypes, Settlements
<1>3. ASSUME NEW x, x.entry_type \in EntryTypes
      PROVE  logicalKeyFor(x) = IF x.entry_type \in none THEN {}
                                ELSE {<<x.account, class(x.entry_type), x.origin>>}
  BY <1>3 DEF logicalKeyFor, EntryTypes, Settlements
<1> HIDE DEF class, none
<1>4. CASE e.entry_type \in none \/ f.entry_type \in none
  <2>1. logicalKeyFor(e) \cap logicalKeyFor(f) = {}
    BY <1>3, <1>4
  <2>2. EffectClass(e.entry_type) = "none" \/ EffectClass(f.entry_type) = "none"
    BY <1>1, <1>4
  <2> QED  BY <2>1, <2>2 DEF SameEffect
<1>5. CASE e.entry_type \notin none /\ f.entry_type \notin none
  <2>1. logicalKeyFor(e) \cap logicalKeyFor(f) # {} <=>
           <<e.account, class(e.entry_type), e.origin>> = <<f.account, class(f.entry_type), f.origin>>
    BY <1>3, <1>5
  <2>2. EffectClass(e.entry_type) # "none"
    BY <1>1, <1>5
  <2>3. EffectClass(e.entry_type) = EffectClass(f.entry_type) <=> class(e.entry_type) = class(f.entry_type)
    BY <1>2, <1>5
  <2> QED  BY <2>1, <2>2, <2>3 DEF SameEffect
<1> QED  BY <1>4, <1>5

LEMMA AnswersAgree ==
    ASSUME MemoryInv, NEW intent, intent.entry_type \in EntryTypes
    PROVE  AnsweredAlike(intent)
<1>1. intent.key \in DOMAIN idempotency <=> KeyUsed(intent.key)
  BY DEF MemoryInv, KeyUsed
<1>2. KeyUsed(intent.key) =>
         (replayFor(intent) = IF Replays(intent) THEN "replayed" ELSE "conflict")
  <2> SUFFICES ASSUME NEW i \in DOMAIN ledger, ledger[i].key = intent.key
               PROVE  replayFor(intent) = IF Replays(intent) THEN "replayed" ELSE "conflict"
    BY DEF KeyUsed
  <2>1. idempotency[intent.key] = i
    BY DEF MemoryInv
  <2>2. Replays(intent) <=> ledger[i] = intent
    BY DEF Replays, MemoryInv, LedgerInv, HistoryInv, KeysAreGlobal
  <2> QED  BY <2>1, <2>2 DEF replayFor, MemoryInv
<1>3. Replays(intent) => KeyUsed(intent.key)
  BY DEF Replays, KeyUsed
<1>4. DuplicateEffect(intent) <=> logicalKeyFor(intent) \cap logicalEffects # {}
  <2>1. \A i \in DOMAIN ledger :
           SameEffect(ledger[i], intent) <=> logicalKeyFor(ledger[i]) \cap logicalKeyFor(intent) # {}
    BY EffectsAlike, EntryType DEF MemoryInv, LedgerInv, HistoryInv, Entry
  <2> QED  BY <2>1 DEF DuplicateEffect, MemoryInv
<1>5. MemoryAffordable(intent) <=> Affordable(intent)
  BY DEF MemoryAffordable, Affordable, MemoryLedgerBalance, MemoryReserved, LedgerBalance,
     ReservedBalance, MemoryEntriesOf, EntriesOf, MemoryInv
<1> QED  BY <1>1, <1>2, <1>3, <1>4, <1>5 DEF AnsweredAlike, DurableAnswer, MemoryAnswer

LEMMA BothKeepMemory == MemoryInv /\ [BothNext]_<<vars, memory>> => MemoryInv'
<1> SUFFICES ASSUME MemoryInv, [BothNext]_<<vars, memory>> PROVE MemoryInv'
  OBVIOUS
<1>1. [Next]_vars
  BY DEF BothNext
<1>2. LedgerInv'
  BY <1>1, NextKeepsLedger DEF MemoryInv
<1>3. CASE UNCHANGED ledger /\ UNCHANGED memory
  BY <1>2, <1>3 DEF MemoryInv, memory, logicalKeyFor
<1>4. CASE ledger' # ledger /\ MemoryAppendLocked(ledger'[Len(ledger')])
  <2>1. PICK e : Accepted(e)
    BY <1>1, <1>4, StepsAppend DEF MemoryInv, LedgerInv, HistoryInv
  <2>2. /\ Len(ledger) \in Nat
        /\ DOMAIN ledger = 1 .. Len(ledger)
        /\ DOMAIN ledger' = 1 .. (Len(ledger) + 1)
        /\ \A i \in DOMAIN ledger : ledger'[i] = ledger[i]
        /\ ledger'[Len(ledger) + 1] = e
        /\ Len(ledger') = Len(ledger) + 1
        /\ ledger' = Append(ledger, e)
    BY <2>1, AppendedLedger DEF Accepted, Appends, Fits, MemoryInv, LedgerInv, HistoryInv, WellFormed
  <2>3. MemoryAnswer(e) = "appended"
    <3>1. e.entry_type \in EntryTypes
      BY <2>1 DEF Accepted, Appends, Fits, Entry
    <3>2. AnsweredAlike(e)
      BY <3>1, AnswersAgree
    <3>3. ~Replays(e)
      BY <2>1 DEF Accepted, Appends, Replays, KeyUsed
    <3>4. DurableAnswer(e) = "appended"
      BY <2>1, <3>3 DEF DurableAnswer, Accepted, Appends
    <3> QED  BY <3>2, <3>4 DEF AnsweredAlike
  <2>4. /\ entries' = Append(entries, e)
        /\ idempotency' = [k \in DOMAIN idempotency \cup {e.key} |->
                              IF k = e.key THEN Len(entries) + 1 ELSE idempotency[k]]
        /\ logicalEffects' = logicalEffects \cup logicalKeyFor(e)
    BY <1>4, <2>2, <2>3 DEF MemoryAppendLocked
  <2>5. \A i \in DOMAIN ledger : ledger[i].key # e.key
    BY <2>1 DEF Accepted, Appends, KeyUsed
  <2>6. entries' = ledger'
    BY <2>2, <2>4 DEF MemoryInv
  <2>7. DOMAIN idempotency' = {ledger'[i].key : i \in DOMAIN ledger'}
    BY <2>2, <2>4 DEF MemoryInv
  <2>8. \A i \in DOMAIN ledger' : idempotency'[ledger'[i].key] = i
    BY <2>2, <2>4, <2>5 DEF MemoryInv
  <2>9. logicalEffects' = UNION {logicalKeyFor(ledger'[i]) : i \in DOMAIN ledger'}
    BY <2>2, <2>4 DEF MemoryInv
  <2> QED  BY <1>2, <2>6, <2>7, <2>8, <2>9 DEF MemoryInv, logicalKeyFor
<1> QED  BY <1>3, <1>4 DEF BothNext, vars

LEMMA MemoryInvariant == BothSpec => []MemoryInv
<1>1. BothInit => MemoryInv
  <2> SUFFICES ASSUME BothInit PROVE MemoryInv
    OBVIOUS
  <2>1. LedgerInv /\ ledger = << >>
    BY InitLedger DEF BothInit, Init
  <2> QED  BY <2>1 DEF BothInit, MemoryInit, MemoryInv
<1> QED  BY <1>1, BothKeepMemory, PTL DEF BothSpec

\* After any operations the repository in memory gives every further intent the
\* answer of the durable one, finds the same entries to settle and refund, and
\* reads the same billing state of every job and key.
THEOREM DoubleAlwaysAnswersAlike == BothSpec => []DoubleAnswersAlike
<1>1. ASSUME MemoryInv PROVE DoubleAnswersAlike
  <2> SUFFICES ASSUME NEW k \in Keys
               PROVE  /\ \A intent \in Asked(k) : AnsweredAlike(intent)
                      /\ \A i \in 1 .. (Len(ledger) + 1) :
                            /\ \A type \in Settlements :
                                  /\ MemorySettlement(type, i, k) = DurableSettlement(type, i, k)
                                  /\ \A intent \in MemorySettlement(type, i, k) : AnsweredAlike(intent)
                            /\ MemoryRefund(i, k) = DurableRefund(i, k)
                            /\ \A intent \in MemoryRefund(i, k) : AnsweredAlike(intent)
                      /\ \A j \in Jobs : MemoryBillingState(j, k) = DurableBillingState(j, k)
    BY DEF DoubleAnswersAlike
  <2>1. \A intent \in Asked(k) : AnsweredAlike(intent)
    <3>1. \A intent \in Asked(k) : intent.entry_type \in EntryTypes
      BY DEF Asked, GrantIntent, ReservationIntent, Intent, EntryTypes
    <3> QED  BY <1>1, <3>1, AnswersAgree
  <2>2. ASSUME NEW i, NEW type \in Settlements
        PROVE  /\ MemorySettlement(type, i, k) = DurableSettlement(type, i, k)
               /\ \A intent \in MemorySettlement(type, i, k) : AnsweredAlike(intent)
    <3>1. MemorySettlement(type, i, k) = DurableSettlement(type, i, k)
      BY <1>1 DEF MemorySettlement, DurableSettlement, SettlementIntent, MemoryRelated, Related,
         MemoryInv
    <3>2. \A intent \in MemorySettlement(type, i, k) : intent.entry_type \in EntryTypes
      BY DEF MemorySettlement, Intent, EntryTypes, Settlements
    <3> QED  BY <1>1, <3>1, <3>2, AnswersAgree
  <2>3. ASSUME NEW i
        PROVE  /\ MemoryRefund(i, k) = DurableRefund(i, k)
               /\ \A intent \in MemoryRefund(i, k) : AnsweredAlike(intent)
    <3>1. MemoryRefund(i, k) = DurableRefund(i, k)
      BY <1>1 DEF MemoryRefund, DurableRefund, RefundIntent, MemoryRelated, Related, MemoryInv
    <3>2. \A intent \in MemoryRefund(i, k) : intent.entry_type \in EntryTypes
      BY DEF MemoryRefund, Intent, EntryTypes
    <3> QED  BY <1>1, <3>1, <3>2, AnswersAgree
  <2>4. ASSUME NEW j \in Jobs PROVE MemoryBillingState(j, k) = DurableBillingState(j, k)
    <3> DEFINE R == {i \in EntriesOfType({"reservation"}) : ledger[i].key = k \/ ledger[i].origin = j}
               M == {i \in EntriesOfType(Settlements) : ledger[i].origin \in R}
               D == {i \in EntriesOfType(Settlements) :
                       \E o \in R : ledger[i].origin = o /\ ledger[i].account = ledger[o].account}
    <3>1. ASSUME NEW i \in EntriesOfType(Settlements)
          PROVE  ledger[i].account = ledger[ledger[i].origin].account
      <4>1. i \in EntriesOfType(Settlements \cup {"refund"})
        BY DEF EntriesOfType
      <4> QED  BY <1>1, <4>1, OriginsBefore DEF IsOriginOf, MemoryInv, LedgerInv, HistoryInv
    <3>2. M = D
      BY <3>1
    <3>3. MemoryBillingState(j, k) = [reservation |-> R, settlement |-> M]
      BY <1>1 DEF MemoryBillingState, MemoryInv, EntriesOfType
    <3>4. DurableBillingState(j, k) = [reservation |-> R, settlement |-> D]
      BY DEF DurableBillingState
    <3> QED  BY <3>2, <3>3, <3>4
  <2> QED  BY <2>1, <2>2, <2>3, <2>4
<1> QED  BY <1>1, MemoryInvariant, PTL

\* Reconciliation reports nothing of a ledger that the operations made but the
\* reservations nobody has settled.
THEOREM OnlyStaleHoldsAreReported == BothSpec => []OnlyStaleHoldsReported
<1>1. ASSUME MemoryInv PROVE OnlyStaleHoldsReported
  <2> USE <1>1 DEF MemoryInv, LedgerInv, HistoryInv
  <2>1. InvalidSettlements = {} /\ OrphanRefunds = {}
    <3>1. ASSUME NEW i \in EntriesOfType(Settlements \cup {"refund"})
          PROVE  \E o \in EntriesOfType({OriginType(ledger[i].entry_type)}) :
                    ledger[i].origin = o /\ CorrelatedWith(i, o)
      BY OriginsBefore DEF IsOriginOf, CorrelatedWith, EntriesOfType
    <3> QED  BY <3>1 DEF InvalidSettlements, OrphanRefunds, EntriesOfType, OriginType, Settlements
  <2>2. ASSUME NEW i \in DOMAIN ledger, NEW o \in DOMAIN ledger, i # o
        PROVE  ~SameEffect(ledger[i], ledger[o])
    <3> SUFFICES ASSUME SameEffect(ledger[i], ledger[o]) PROVE FALSE
      OBVIOUS
    <3>1. ledger[i].entry_type \in EntryTypes /\ ledger[o].entry_type \in EntryTypes
      BY EntryType DEF Entry
    <3>2. PICK types \in OnceOnly : ledger[i].entry_type \in types /\ ledger[o].entry_type \in types
      BY <3>1 DEF SameEffect, EffectClass, EntryTypes, Settlements, OnceOnly
    <3> QED  BY <2>2, <3>2 DEF SameEffect, EffectsHappenOnce, EntriesOfType
  <2>3. DuplicateEffects = {}
    BY <2>2 DEF DuplicateEffects
  <2>4. MemoryDuplicates = {}
    <3> SUFFICES ASSUME NEW i \in DOMAIN ledger, NEW o \in 1 .. (i - 1)
                 PROVE  logicalKeyFor(ledger[i]) \cap logicalKeyFor(ledger[o]) = {}
      BY DEF MemoryDuplicates
    <3>1. o \in DOMAIN ledger /\ i # o
      BY DEF WellFormed
    <3>2. ledger[i].entry_type \in EntryTypes /\ ledger[o].entry_type \in EntryTypes
      BY <3>1, EntryType DEF Entry
    <3> QED  BY <2>2, <3>1, <3>2, EffectsAlike
  <2>5. MemoryStale = StaleReservations
    <3>1. \A i \in DOMAIN ledger : ledger[i].account \in Accounts
      BY EntryType DEF Entry
    <3> QED  BY <3>1 DEF MemoryStale, StaleReservations, Outstanding, EntriesOf, Settled, EntriesOfType
  <2> QED  BY <2>1, <2>3, <2>4, <2>5 DEF OnlyStaleHoldsReported
<1> QED  BY <1>1, MemoryInvariant, PTL

-----------------------------------------------------------------------------
(* The transactions of LedgerSessions commit what appendLocked would append.  *)

\* An answer to the request: an intent of its operation, under its key.
Answers(e, r) ==
    /\ e.key = r.key
    /\ e.account = r.account
    /\ e.job = r.job
    /\ CASE r.op = "credit" -> e.balance_delta = r.amount
         [] r.op = "debit_adjustment" -> e.balance_delta = -r.amount
         [] OTHER -> e.entry_type = r.op

Connections == [at : Steps, request : Requests \cup {NoRequest},
                price : Credits \cup {0}, intent : Entry \cup {NoIntent}]

Transacting(c) == c.at \in {"replay", "verify", "insert", "commit"}

\* What a connection has established about the committed ledger when it is at
\* a statement, and what stays so while it holds its account's lock.
Established(c) ==
    /\ c \in Connections
    /\ c.at # "idle" => c.request \in Requests
    /\ c.at = "lock" =>
          /\ c.price \in Credits
          /\ c.request.op \notin {"monthly_grant", "reservation"} => c.price = c.request.amount
    /\ Transacting(c) => Fits(c.intent) /\ Answers(c.intent, c.request)
    /\ c.at \in {"verify", "insert", "commit"} => ~DuplicateEffect(c.intent)
    /\ c.at \in {"insert", "commit"} => Affordable(c.intent)
    /\ c.at = "commit" => ~KeyUsed(c.intent.key)
    /\ c.at = "acknowledge" =>
          /\ \E i \in DOMAIN ledger : ledger[i] = c.intent
          /\ Answers(c.intent, c.request)

\* Two transactions hold the locks of different accounts, and two inserted
\* rows have different keys.
Apart(c, d) ==
    /\ Transacting(c) /\ Transacting(d) => c.request.account # d.request.account
    /\ c.at = "commit" /\ d.at = "commit" => c.intent.key # d.intent.key

SessionInv ==
    /\ HistoryInv
    /\ terms \in [Accounts -> Terms \cup {NoTerms}]
    /\ session = [s \in Sessions |-> session[s]]
    /\ \A s \in Sessions : Established(session[s])
    /\ \A s, t \in Sessions : s # t => Apart(session[s], session[t])

\* What is established is about the committed ledger only.
LEMMA EstablishedUnchanged ==
    ASSUME UNCHANGED ledger, NEW c, Established(c)
    PROVE  Established(c)'
<1>1. /\ Fits(c.intent)' <=> Fits(c.intent)
      /\ DuplicateEffect(c.intent)' <=> DuplicateEffect(c.intent)
      /\ KeyUsed(c.intent.key)' <=> KeyUsed(c.intent.key)
  BY DEF Fits, Shaped, DeltaConvention, CorrelationShape, AuthorityShape, RefersBack,
     DuplicateEffect, KeyUsed
<1>2. Affordable(c.intent)' <=> Affordable(c.intent)
  <2>1. \A a : EntriesOf(a)' = EntriesOf(a)
    BY DEF EntriesOf
  <2>2. \A a : LedgerBalance(a)' = LedgerBalance(a) /\ ReservedBalance(a)' = ReservedBalance(a)
    BY <2>1 DEF LedgerBalance, ReservedBalance
  <2> QED  BY <2>2 DEF Affordable
<1> QED  BY <1>1, <1>2 DEF Established

\* It survives what another connection commits to another account.
LEMMA FitsStays ==
    ASSUME WellFormed, NEW e, Appends(e), NEW x, Fits(x)
    PROVE  Fits(x)'
<1>1. DOMAIN ledger \subseteq DOMAIN ledger' /\ \A i \in DOMAIN ledger : ledger'[i] = ledger[i]
  BY AppendedLedger
<1>2. CorrelationShape(x)'
  BY <1>1 DEF Fits, Shaped, CorrelationShape, Entry, EntryTypes, Settlements
<1>3. RefersBack(x)'
  BY <1>1 DEF Fits, RefersBack
<1> QED  BY <1>2, <1>3 DEF Fits, Shaped, DeltaConvention, AuthorityShape

LEMMA EstablishedStays ==
    ASSUME WellFormed, NEW e, Appends(e), NEW c, Established(c),
           Transacting(c) => c.request.account # e.account,
           c.at = "commit" => c.intent.key # e.key
    PROVE  Established(c)'
<1>1. /\ DOMAIN ledger \subseteq DOMAIN ledger'
      /\ \A i \in DOMAIN ledger : ledger'[i] = ledger[i]
      /\ \A i \in DOMAIN ledger' : i \in DOMAIN ledger \/ ledger'[i] = e
  BY AppendedLedger
<1>2. Transacting(c) => Fits(c.intent)' /\ c.intent.account # e.account
  BY FitsStays DEF Established, Answers
<1>3. c.at \in {"verify", "insert", "commit"} => ~DuplicateEffect(c.intent)'
  BY <1>1, <1>2 DEF Established, DuplicateEffect, SameEffect, Transacting
<1>4. c.at \in {"insert", "commit"} => Affordable(c.intent)'
  <2> SUFFICES ASSUME c.at \in {"insert", "commit"} PROVE Affordable(c.intent)'
    OBVIOUS
  <2>1. c.intent.account # e.account
    BY <1>2 DEF Transacting
  <2>2. /\ LedgerBalance(c.intent.account)' = LedgerBalance(c.intent.account)
        /\ ReservedBalance(c.intent.account)' = ReservedBalance(c.intent.account)
    BY <2>1, AppendedBalances, SumsAreIntegers
  <2> QED  BY <2>2 DEF Affordable, Established
<1>5. c.at = "commit" => ~KeyUsed(c.intent.key)'
  BY <1>1 DEF Established, KeyUsed
<1>6. c.at = "acknowledge" => \E i \in DOMAIN ledger' : ledger'[i] = c.intent
  BY <1>1 DEF Established
<1> QED  BY <1>2, <1>3, <1>4, <1>5, <1>6 DEF Established

\* A statement that commits nothing moves one connection.
LEMMA ConnectionMoves ==
    ASSUME SessionInv, UNCHANGED <<ledger, terms>>, NEW s \in Sessions, NEW d,
           session' = [session EXCEPT ![s] = d], Established(d),
           \A t \in Sessions \ {s} : Apart(d, session[t])
    PROVE  SessionInv'
<1>1. HistoryInv'
  BY HistoryUnchanged DEF SessionInv
<1>2. /\ session' = [t \in Sessions |-> session'[t]]
      /\ session'[s] = d /\ \A t \in Sessions \ {s} : session'[t] = session[t]
  BY DEF SessionInv
<1>3. ASSUME NEW t \in Sessions PROVE Established(session[t])'
  <2>1. Established(session'[t])
    BY <1>2 DEF SessionInv
  <2>2. PICK c : c = session'[t]
    OBVIOUS
  <2>3. Established(c)'
    BY <2>1, <2>2, EstablishedUnchanged
  <2> QED  BY <2>2, <2>3 DEF Established
<1>4. ASSUME NEW t \in Sessions, NEW u \in Sessions, t # u PROVE Apart(session'[t], session'[u])
  BY <1>2, <1>4 DEF SessionInv, Apart
<1> QED  BY <1>1, <1>2, <1>3, <1>4 DEF SessionInv, Apart, Transacting

LEMMA SessionInitially == SessionInit => SessionInv
<1> SUFFICES ASSUME SessionInit PROVE SessionInv
  OBVIOUS
<1>1. HistoryInv
  BY EmptyHistory DEF SessionInit, Init
<1>2. \A s \in Sessions : session[s].at = "idle" /\ session[s] \in Connections
  BY DEF SessionInit, Idle, Connections, Steps
<1> QED  BY <1>1, <1>2 DEF SessionInit, Init, SessionInv, Established, Apart, Transacting, Steps

\* The intents that a call may come to insert.
LEMMA IntentsFit ==
    ASSUME SessionInv, NEW r \in Requests, NEW n \in Credits,
           r.op \notin {"monthly_grant", "reservation"} => n = r.amount,
           NEW e \in IntentsOf(r, n)
    PROVE  Fits(e) /\ Answers(e, r)
<1> USE DEF SessionInv, HistoryInv
<1>1. r.op \in Operations /\ r.account \in Accounts /\ r.key \in Keys
  BY RequestsAssumption
<1>2. CASE r.op = "monthly_grant"
  <2>1. PICK p \in Periods : e = GrantIntent("monthly_grant", r.account, n, r.key, p)
    BY <1>2 DEF IntentsOf, Settlements
  <2>2. Fits(e)
    BY <1>1, <2>1, GrantFits
  <2> QED  BY <1>2, <2>1, <2>2, JobRequestsAssumption DEF Answers, GrantIntent, Intent, OnJob
<1>3. CASE r.op = "bolt_on_grant"
  <2>1. PICK p \in Payments : e = GrantIntent("bolt_on_grant", r.account, n, r.key, p)
    BY <1>3 DEF IntentsOf, Settlements
  <2>2. Fits(e)
    BY <1>1, <2>1, GrantFits
  <2> QED  BY <1>3, <2>1, <2>2, JobRequestsAssumption DEF Answers, GrantIntent, Intent, OnJob
<1>4. CASE r.op = "expiry_reset"
  <2>1. e = Intent("expiry_reset", r.account, n, -n, 0, r.key, NoOrigin, NoOrigin)
    BY <1>4 DEF IntentsOf, Settlements
  <2>2. Fits(e)
    BY <1>1, <2>1, AdjustmentFits
  <2> QED  BY <1>4, <2>1, <2>2, JobRequestsAssumption DEF Answers, Intent, OnJob
<1>5. CASE r.op \in {"credit", "debit_adjustment"}
  <2>1. PICK bal \in {n, -n} :
           /\ e = Intent("admin_adjustment", r.account, n, bal, 0, r.key, NoOrigin, NoOrigin)
           /\ bal = IF r.op = "credit" THEN n ELSE -n
    BY <1>5 DEF IntentsOf, Settlements
  <2>2. Fits(e)
    BY <1>1, <2>1, AdjustmentFits
  <2>3. n = r.amount /\ r.job = NoOrigin
    BY <1>5, JobRequestsAssumption DEF OnJob
  <2> QED  BY <1>5, <2>1, <2>2, <2>3 DEF Answers, Intent
<1>6. CASE r.op = "reservation"
  <2>1. e = ReservationIntent(r.job, n, r.key) /\ r.job \in Jobs /\ JobAccount[r.job] = r.account
    BY <1>6, JobRequestsAssumption DEF IntentsOf, Settlements
  <2>2. Fits(e)
    BY <1>1, <2>1, ReservationFits
  <2> QED  BY <1>6, <2>1, <2>2 DEF Answers, ReservationIntent, Intent
<1>7. CASE r.op \in Settlements
  <2>1. PICK i \in RelatedTo(r) : e = SettlementIntent(r.op, i, r.key)
    BY <1>7 DEF IntentsOf, Settlements
  <2>2. /\ i \in DOMAIN ledger /\ ledger[i].account = r.account /\ ledger[i].job = r.job
        /\ ledger[i].entry_type = "reservation"
    BY <1>7, <2>1 DEF RelatedTo, Settlements
  <2>3. Fits(e)
    BY <1>1, <1>7, <2>1, <2>2, SettlementFits
  <2> QED  BY <1>7, <2>1, <2>2, <2>3 DEF Answers, SettlementIntent, Intent, Settlements
<1>8. CASE r.op = "refund"
  <2>1. PICK i \in RelatedTo(r) : e = RefundIntent(i, r.key)
    BY <1>8 DEF IntentsOf, Settlements
  <2>2. /\ i \in DOMAIN ledger /\ ledger[i].account = r.account /\ ledger[i].job = r.job
        /\ ledger[i].entry_type = "debit"
    BY <1>8, <2>1 DEF RelatedTo
  <2>3. Fits(e)
    BY <1>1, <2>1, <2>2, RefundFits
  <2> QED  BY <1>8, <2>1, <2>2, <2>3 DEF Answers, RefundIntent, Intent
<1> QED  BY <1>1, <1>2, <1>3, <1>4, <1>5, <1>6, <1>7, <1>8 DEF Operations, Settlements

\* A connection that has ended, and one that is not in a transaction, hold nothing.
LEMMA OutsideIsApart ==
    ASSUME NEW c, ~Transacting(c), NEW d
    PROVE  Apart(c, d) /\ Apart(d, c)
BY DEF Apart, Transacting

LEMMA EndKeeps ==
    ASSUME SessionInv, NEW s \in Sessions, End(s)
    PROVE  SessionInv'
<1>1. ~Transacting(Idle) /\ Established(Idle)
  BY DEF Idle, Transacting, Established, Steps, Connections
<1>2. session' = [session EXCEPT ![s] = Idle] /\ UNCHANGED <<ledger, terms>>
  BY DEF End
<1> QED  BY <1>1, <1>2, OutsideIsApart, ConnectionMoves

LEMMA CallKeeps ==
    ASSUME SessionInv, NEW s \in Sessions, NEW r \in Requests, Call(s, r)
    PROVE  SessionInv'
<1> DEFINE price == CASE r.op = "reservation" -> terms[r.account].price
                      [] r.op = "monthly_grant" -> terms[r.account].grant
                      [] OTHER -> r.amount
           d == [at |-> "lock", request |-> r, intent |-> NoIntent, price |-> price]
<1>1. session' = [session EXCEPT ![s] = d] /\ UNCHANGED <<ledger, terms>>
  BY DEF Call
<1>2. /\ r.op \in {"monthly_grant", "reservation"} => terms[r.account] \in Terms
      /\ r.amount \in Credits
  BY RequestsAssumption DEF Call, SessionInv
<1>3. price \in Credits /\ (r.op \notin {"monthly_grant", "reservation"} => price = r.amount)
  BY <1>2, TermsAssumption
<1>4. Established(d) /\ ~Transacting(d)
  BY <1>3 DEF Established, Transacting, Steps, Connections
<1> HIDE DEF d
<1> QED  BY <1>1, <1>4, OutsideIsApart, ConnectionMoves

LEMMA LockKeeps ==
    ASSUME SessionInv, NEW s \in Sessions, Lock(s)
    PROVE  SessionInv'
<1> DEFINE c == session[s]
<1>1. PICK e \in IntentsOf(c.request, c.price) :
         session' = [session EXCEPT ![s].at = "replay", ![s].intent = e]
  BY DEF Lock
<1> DEFINE d == [[c EXCEPT !.at = "replay"] EXCEPT !.intent = e]
<1>2. session' = [session EXCEPT ![s] = d]
  BY <1>1
<1>3. /\ c.at = "lock" /\ Established(c) /\ UNCHANGED <<ledger, terms>>
      /\ \A t \in Sessions : Transacting(session[t]) => session[t].request.account # c.request.account
  BY DEF Lock, SessionInv, Locked, InTransaction, AccountOf, Transacting
<1>4. Fits(e) /\ Answers(e, c.request)
  BY <1>3, IntentsFit DEF Established
<1>5. d.at = "replay" /\ d.request = c.request /\ d.intent = e /\ d \in Connections
  BY <1>3, <1>4 DEF Established, Connections, Steps, Fits
<1> HIDE DEF d
<1>6. Established(d)
  BY <1>3, <1>4, <1>5 DEF Established, Steps
<1>7. \A t \in Sessions \ {s} : Apart(d, session[t])
  BY <1>3, <1>5 DEF Apart
<1> QED  BY <1>2, <1>3, <1>6, <1>7, ConnectionMoves

\* A statement that moves a connection on in its transaction, or out of it.
LEMMA GotoKeeps ==
    ASSUME SessionInv, NEW s \in Sessions, NEW step, Goto(s, step), UNCHANGED <<ledger, terms>>,
           Transacting(session[s]),
           NEW d, d = [session[s] EXCEPT !.at = step], Established(d),
           step = "commit" =>
               \A t \in Sessions \ {s} :
                   session[t].at = "commit" => session[t].intent.key # session[s].intent.key
    PROVE  SessionInv'
<1>1. session' = [session EXCEPT ![s] = d]
  BY DEF Goto
<1>2. d.at = step /\ d.request = session[s].request /\ d.intent = session[s].intent
  BY DEF SessionInv, Established, Connections
<1>3. \A t \in Sessions \ {s} : Apart(d, session[t])
  BY <1>2 DEF SessionInv, Apart
<1> QED  BY <1>1, <1>3, ConnectionMoves

LEMMA MovedOn ==
    ASSUME NEW c \in Connections, NEW step \in Steps, NEW d, d = [c EXCEPT !.at = step]
    PROVE  /\ d \in Connections
           /\ d.at = step /\ d.request = c.request /\ d.intent = c.intent /\ d.price = c.price
BY DEF Connections

LEMMA StatementsKeep ==
    ASSUME SessionInv, NEW s \in Sessions, FindReplay(s) \/ Verify(s) \/ Insert(s)
    PROVE  SessionInv'
<1> DEFINE c == session[s]
           To(step) == [c EXCEPT !.at = step]
<1>1. Established(c) /\ c \in Connections /\ UNCHANGED <<ledger, terms>>
  BY DEF SessionInv, Established, FindReplay, Verify, Insert
<1>2. Transacting(c)
  BY DEF Transacting, FindReplay, Verify, Insert
<1>3. Fits(c.intent) /\ Answers(c.intent, c.request) /\ c.request \in Requests
  BY <1>1, <1>2 DEF Established, Transacting
<1> HIDE DEF c
<1>4. ASSUME NEW step \in Steps, NEW d, d = To(step),
             step \in {"verify", "insert", "commit"} => ~DuplicateEffect(c.intent),
             step \in {"insert", "commit"} => Affordable(c.intent),
             step = "commit" => ~KeyUsed(c.intent.key),
             step = "acknowledge" => \E i \in DOMAIN ledger : ledger[i] = c.intent,
             step \notin {"idle", "lock"}
      PROVE  Established(d)
  <2>1. /\ d \in Connections
        /\ d.at = step /\ d.request = c.request /\ d.intent = c.intent /\ d.price = c.price
    BY <1>1, <1>4, MovedOn
  <2> HIDE DEF To
  <2> QED  BY <1>3, <1>4, <2>1 DEF Established
<1>5. CASE FindReplay(s) /\ Replays(c.intent) /\ Goto(s, "acknowledge")
  <2>1. Established(To("acknowledge"))
    BY <1>4, <1>5 DEF Replays, Steps
  <2> QED  BY <1>1, <1>2, <1>5, <2>1, GotoKeeps DEF c
<1>6. CASE FindReplay(s) /\ ~DuplicateEffect(c.intent) /\ Goto(s, "verify")
  <2>1. Established(To("verify"))
    BY <1>4, <1>6 DEF Steps
  <2> QED  BY <1>1, <1>2, <1>6, <2>1, GotoKeeps DEF c
<1>7. CASE Verify(s)
  <2>1. ~DuplicateEffect(c.intent) /\ Affordable(c.intent) /\ Goto(s, "insert")
    BY <1>1, <1>7 DEF Verify, Established, c
  <2>2. Established(To("insert"))
    BY <1>4, <2>1 DEF Steps
  <2> QED  BY <1>1, <1>2, <2>1, <2>2, GotoKeeps DEF c
<1>8. CASE Insert(s)
  <2>1. /\ ~DuplicateEffect(c.intent) /\ Affordable(c.intent) /\ ~KeyUsed(c.intent.key)
        /\ ~KeyPending(s) /\ Goto(s, "commit")
    BY <1>1, <1>8 DEF Insert, Established, c
  <2>2. Established(To("commit"))
    BY <1>4, <2>1 DEF Steps
  <2>3. \A t \in Sessions \ {s} :
           session[t].at = "commit" => session[t].intent.key # session[s].intent.key
    BY <2>1 DEF KeyPending
  <2> QED  BY <1>1, <1>2, <2>1, <2>2, <2>3, GotoKeeps DEF c
<1> QED  BY <1>5, <1>6, <1>7, <1>8 DEF FindReplay, c

\* A commit appends what the transaction has inserted, as appendLocked would
\* on the ledger as it is at the commit.
LEMMA CommitAppends ==
    ASSUME SessionInv, NEW s \in Sessions, Commit(s)
    PROVE  Appends(session[s].intent)
BY DEF SessionInv, Established, Transacting, Commit, Appends

LEMMA CommitKeeps ==
    ASSUME SessionInv, NEW s \in Sessions, Commit(s)
    PROVE  SessionInv'
<1> DEFINE c == session[s]
           e == c.intent
           d == [c EXCEPT !.at = "acknowledge"]
<1>1. /\ Appends(e) /\ HistoryInv /\ WellFormed
      /\ c.at = "commit" /\ session' = [session EXCEPT ![s] = d] /\ UNCHANGED terms
  BY CommitAppends DEF SessionInv, HistoryInv, Commit, Goto
<1>2. /\ c \in Connections /\ c.request \in Requests /\ Answers(e, c.request)
      /\ Transacting(c)
  BY <1>1 DEF SessionInv, Established, Transacting
<1>3. /\ d \in Connections
      /\ d.at = "acknowledge" /\ d.request = c.request /\ d.intent = e
  BY <1>2, MovedOn DEF Steps
<1>4. HistoryInv'
  BY <1>1, AppendKeepsHistory
<1> HIDE DEF d
<1>5. /\ session' = [t \in Sessions |-> session'[t]]
      /\ session'[s] = d /\ \A t \in Sessions \ {s} : session'[t] = session[t]
  BY <1>1 DEF SessionInv
<1>6. ASSUME NEW t \in Sessions PROVE Established(session[t])'
  <2>1. CASE t = s
    <3>1. \E i \in DOMAIN ledger' : ledger'[i] = e
      BY <1>1, AppendedLedger
    <3>2. session'[t] = d
      BY <1>5, <2>1
    <3>3. ~Transacting(d)
      BY <1>3 DEF Transacting
    <3> HIDE DEF e, c
    <3> QED  BY <1>2, <1>3, <3>1, <3>2, <3>3 DEF Established, Transacting
  <2>2. CASE t # s
    <3>1. Established(session[t]) /\ Apart(session[t], c)
      BY <2>2 DEF SessionInv
    <3>2. PICK b : b = session[t]
      OBVIOUS
    <3>3. /\ Transacting(b) => b.request.account # e.account
          /\ b.at = "commit" => b.intent.key # e.key
      BY <1>1, <1>2, <3>1, <3>2 DEF Apart, Answers
    <3>4. Established(b)'
      BY <1>1, <3>1, <3>2, <3>3, EstablishedStays
    <3>5. session'[t] = b
      BY <1>5, <2>2, <3>2
    <3> QED  BY <3>4, <3>5 DEF Established
  <2> QED  BY <2>1, <2>2
<1>7. ASSUME NEW t \in Sessions, NEW u \in Sessions, t # u PROVE Apart(session'[t], session'[u])
  <2>1. ~Transacting(d)
    BY <1>3 DEF Transacting
  <2> QED  BY <1>5, <1>7, <2>1, OutsideIsApart DEF SessionInv
<1>8. terms' \in [Accounts -> Terms \cup {NoTerms}]
  BY <1>1 DEF SessionInv
<1> QED  BY <1>4, <1>5, <1>6, <1>7, <1>8 DEF SessionInv, Apart, Transacting

LEMMA SessionStepsKeep == SessionInv /\ [SessionNext]_sessionVars => SessionInv'
<1> SUFFICES ASSUME SessionInv, [SessionNext]_sessionVars PROVE SessionInv'
  OBVIOUS
<1>1. ASSUME NEW s \in Sessions, Advance(s) PROVE SessionInv'
  BY <1>1, LockKeeps, StatementsKeep, CommitKeeps, EndKeeps DEF Advance, Acknowledge, Refuse
<1>2. ASSUME UNCHANGED <<ledger, session>>, terms' \in [Accounts -> Terms \cup {NoTerms}]
      PROVE  SessionInv'
  <2>1. HistoryInv'
    BY <1>2, HistoryUnchanged DEF SessionInv
  <2>2. ASSUME NEW t \in Sessions PROVE Established(session[t])'
    <3>1. PICK c : c = session[t]
      OBVIOUS
    <3>2. Established(c)'
      BY <1>2, <3>1, EstablishedUnchanged DEF SessionInv
    <3> QED  BY <1>2, <3>1, <3>2 DEF Established
  <2> QED  BY <1>2, <2>1, <2>2 DEF SessionInv, Apart, Transacting
<1>3. ASSUME NEW a \in Accounts, NEW t \in Terms \cup {NoTerms}, ChangeTerms(a, t),
             UNCHANGED session
      PROVE  SessionInv'
  BY <1>2, <1>3 DEF ChangeTerms, SessionInv
<1>4. CASE UNCHANGED sessionVars
  BY <1>2, <1>4 DEF sessionVars, SessionInv
<1> QED  BY <1>1, <1>3, <1>4, CallKeeps, EndKeeps DEF SessionNext, Break

LEMMA SessionInvariant == SessionSpec => []SessionInv
BY SessionInitially, SessionStepsKeep, PTL DEF SessionSpec

\* Whatever transactions interleave, break off and are asked again: a key
\* stands for one committed intent, also when two accounts race with it.
THEOREM KeysStayGlobalAcrossSessions == SessionSpec => []KeysAreGlobal
<1>1. SessionInv => KeysAreGlobal
  BY DEF SessionInv, HistoryInv
<1> QED  BY <1>1, SessionInvariant, PTL

\* A caller is only ever told of a committed entry, and of the one asked for.
THEOREM AnswersStayDurable == SessionSpec => []AnswersAreDurable
<1>1. SessionInv => AnswersAreDurable
  BY DEF SessionInv, Established, Answers, AnswersAreDurable
<1> QED  BY <1>1, SessionInvariant, PTL

\* The interleaved transactions are an account of CreditAccount: each commit is
\* one of its operations under its guard, though the guard was checked earlier.
THEOREM SessionsImplementAccount == SessionSpec => ImplementsCreditAccount
<1>1. SessionInit => Account!AccountInit
  BY EmptyIsAccountInit DEF SessionInit, Init
<1>2. SessionInv /\ [SessionNext]_sessionVars => [Account!AccountNext]_(Account!accountVars)
  <2> SUFFICES ASSUME SessionInv, [SessionNext]_sessionVars
               PROVE  Account!AccountNext \/ UNCHANGED Account!accountVars
    OBVIOUS
  <2>1. UNCHANGED ledger \/ \E s \in Sessions : Commit(s)
    BY DEF SessionNext, sessionVars, Call, Advance, Break, Lock, FindReplay, Verify, Insert,
       Acknowledge, Refuse, End, ChangeTerms
  <2> QED  BY <2>1, CommitAppends, AppendIsAccountStep, AccountUnchanged DEF SessionInv
<1> QED  BY <1>1, <1>2, SessionInvariant, PTL DEF SessionSpec, ImplementsCreditAccount,
            Account!AccountSpec

\* No interleaving of transactions leaves an account with less than nothing to
\* spend: what a transaction has read holds until it commits.
THEOREM SessionsNeverOverspend == SessionSpec => []Account!NeverOverspent
<1>1. SessionInv => Account!NeverOverspent
  BY DEF SessionInv, HistoryInv, Solvent, Account!NeverOverspent, Account!Available
<1> QED  BY <1>1, SessionInvariant, PTL

=============================================================================
