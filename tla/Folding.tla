-------------------------------- MODULE Folding --------------------------------
(***************************************************************************)
(* What a fold over a sequence computes, for every sequence: the folds of  *)
(* the community modules take the elements of an index set one by one, and *)
(* a chain of values, one per element taken, ends in the value of the fold.*)
(***************************************************************************)
EXTENDS Naturals, SequencesExt, FiniteSetTheorems, WellFoundedInduction, TLAPS

CONSTANTS
    Then(_, _),     \* what the fold makes of the value so far and an element
    Pick(_)         \* the index taken out of a set of indices

(* Among any natural numbers there is a least one. *)
LEMMA Least ==
    ASSUME NEW T \in SUBSET Nat, T # {}
    PROVE  \E n \in T : \A m \in T : n <= m
<1> DEFINE R == {ss \in Nat \X Nat : ss[1] < ss[2]}
<1>1. IsWellFoundedOn(R, Nat)
  BY NatLessThanWellFounded DEF OpToRel
<1>2. PICK n \in T : \A m \in T : ~(<<m, n>> \in R)
  <2> HIDE DEF R
  <2>1. QED
    BY <1>1, WFMin
<1>3. \A m \in T : ~(m < n)
  BY <1>2
<1>4. QED
  BY <1>3

(* A set of numbers that starts at 0 and always goes on holds them all. *)
LEMMA Grows ==
    ASSUME NEW T \in SUBSET Nat, 0 \in T, \A n \in T : n + 1 \in T
    PROVE  T = Nat
<1> SUFFICES ASSUME T # Nat PROVE FALSE
  OBVIOUS
<1>1. PICK n \in Nat \ T : \A m \in Nat \ T : n <= m
  BY Least
<1>2. n # 0 /\ n - 1 \in Nat
  BY <1>1
<1>3. n - 1 \in T
  BY <1>1, <1>2
<1>4. n - 1 + 1 = n
  BY <1>2
<1>5. QED
  BY <1>1, <1>3, <1>4

(* A set of indices has a highest and a lowest one of its own.             *)
LEMMA Extremes ==
    ASSUME NEW N \in Nat, NEW t \in SUBSET (1..N), t # {}
    PROVE  /\ \E x \in t : \A y \in t : x >= y
           /\ \E x \in t : \A y \in t : x <= y
<1>1. t \in SUBSET Nat
  OBVIOUS
<1>2. PICK n \in t : \A m \in t : n <= m
  BY <1>1, Least
<1> DEFINE u == {m \in Nat : \E x \in t : m = N - x}
<1>3. u \in SUBSET Nat /\ u # {}
  <2>1. \A x \in t : N - x \in Nat
    OBVIOUS
  <2>2. QED
    BY <2>1
<1>4. PICK m \in u : \A l \in u : m <= l
  <2> HIDE DEF u
  <2>1. QED
    BY <1>3, Least
<1>5. PICK z \in t : m = N - z
  OBVIOUS
<1>6. ASSUME NEW y \in t PROVE z >= y
  <2>1. N - y \in u /\ y \in Nat /\ z \in Nat
    OBVIOUS
  <2>2. N - z <= N - y
    BY <1>4, <1>5, <2>1
  <2>3. QED
    BY <2>1, <2>2
<1>7. QED
  BY <1>2, <1>6

(* One turn of the fold over the index set t, the value for smaller sets   *)
(* being f's.                                                              *)
Turn(f, s, base, t) ==
    IF t = {} THEN base ELSE Then(f[t \ {Pick(t)}], s[Pick(t)])

IsFold(f, s, base, D) == f = [t \in SUBSET D |-> Turn(f, s, base, t)]

(* The recursion the folds are defined by has a solution. *)
LEMMA FoldExists ==
    ASSUME NEW N \in Nat, NEW s, NEW base,
           \A t \in SUBSET (1..N) : t # {} => Pick(t) \in t
    PROVE  \E f : IsFold(f, s, base, 1..N)
<1> DEFINE D == 1..N
<1>a. IsFiniteSet(D)
  BY FS_Interval
<1>b. \A t \in SUBSET D : t # {} => Pick(t) \in t
  OBVIOUS
<1> HIDE DEF D
<1> SUFFICES \E f : IsFold(f, s, base, D)
  BY DEF D
<1> DEFINE UpTo(f, n) == \A t \in SUBSET D : Cardinality(t) <= n => f[t] = Turn(f, s, base, t)
           T == {n \in Nat : \E f : UpTo(f, n)}
<1>0. \A t \in SUBSET D : IsFiniteSet(t) /\ Cardinality(t) \in Nat
                          /\ (Cardinality(t) = 0 <=> t = {})
  BY <1>a, FS_Subset, FS_CardinalityType, FS_EmptySet
<1>1. 0 \in T
  <2> DEFINE f == [t \in SUBSET D |-> base]
  <2>1. UpTo(f, 0)
    BY <1>0 DEF Turn
  <2>2. QED
    BY <2>1
<1>2. ASSUME NEW n \in T PROVE n + 1 \in T
  <2>1. PICK f : UpTo(f, n)
    OBVIOUS
  <2>2. n \in Nat
    OBVIOUS
  <2> DEFINE g == [t \in SUBSET D |-> Turn(f, s, base, t)]
  <2>3. ASSUME NEW t \in SUBSET D, Cardinality(t) <= n + 1
        PROVE  g[t] = Turn(g, s, base, t)
    <3>1. CASE t = {}
      BY <3>1 DEF Turn
    <3>2. CASE t # {}
      <4> DEFINE u == t \ {Pick(t)}
      <4>1. u \in SUBSET D /\ Pick(t) \in t
        BY <1>b, <3>2
      <4>2. Cardinality(u) = Cardinality(t) - 1
        BY <1>0, <4>1, FS_RemoveElement
      <4>3. Cardinality(u) <= n
        BY <1>0, <2>2, <2>3, <4>1, <4>2
      <4> HIDE DEF u
      <4>4. f[u] = Turn(f, s, base, u)
        BY <2>1, <4>1, <4>3
      <4>5. g[u] = f[u]
        BY <4>1, <4>4
      <4>6. g[t] = Then(f[u], s[Pick(t)])
        BY <3>2 DEF Turn, u
      <4>7. Turn(g, s, base, t) = Then(g[u], s[Pick(t)])
        BY <3>2 DEF Turn, u
      <4>8. QED
        BY <4>5, <4>6, <4>7
    <3>3. QED
      BY <3>1, <3>2
  <2>4. UpTo(g, n + 1)
    BY <2>3
  <2> HIDE DEF g
  <2>5. \E h : UpTo(h, n + 1)
    BY <2>4
  <2>6. QED
    BY <2>2, <2>5
<1>3. T = Nat
  <2> HIDE DEF T
  <2>1. T \in SUBSET Nat
    BY DEF T
  <2>2. QED
    BY <1>1, <1>2, <2>1, Grows
<1>4. Cardinality(D) \in T /\ \A t \in SUBSET D : Cardinality(t) <= Cardinality(D)
  BY <1>a, <1>0, <1>3, FS_Subset
<1>5. PICK f : UpTo(f, Cardinality(D))
  BY <1>4
<1> DEFINE g == [t \in SUBSET D |-> Turn(f, s, base, t)]
<1>6. \A t \in SUBSET D : g[t] = f[t]
  BY <1>4, <1>5
<1>7. \A t \in SUBSET D : Turn(f, s, base, t) = Turn(g, s, base, t)
  <2> SUFFICES ASSUME NEW t \in SUBSET D PROVE Turn(f, s, base, t) = Turn(g, s, base, t)
    OBVIOUS
  <2>1. t \ {Pick(t)} \in SUBSET D
    OBVIOUS
  <2>2. g[t \ {Pick(t)}] = f[t \ {Pick(t)}]
    BY <1>6, <2>1
  <2> HIDE DEF g
  <2>3. QED
    BY <2>2 DEF Turn
<1>8. g = [t \in SUBSET D |-> Turn(g, s, base, t)]
  BY <1>7
<1>9. QED
  BY <1>8 DEF IsFold

(* The indices 1..N taken one after the other: the nth set S[n] has one    *)
(* more than the set before, the one the fold takes out of it, and c[n] is *)
(* the value when the indices in S[n] are taken.                           *)
IsChain(c, S, s, base, N) ==
    /\ S[0] = {} /\ S[N] = 1..N /\ c[0] = base
    /\ \A n \in 1..N :
         /\ S[n] \in SUBSET (1..N) /\ S[n] # {}
         /\ S[n] \ {Pick(S[n])} = S[n - 1]
         /\ c[n] = Then(c[n - 1], s[Pick(S[n])])

(* A chain of values ends in the value of the fold.                        *)
LEMMA FoldIsChain ==
    ASSUME NEW N \in Nat, NEW s, NEW base, NEW c, NEW S, IsChain(c, S, s, base, N),
           NEW f, IsFold(f, s, base, 1..N)
    PROVE  f[1..N] = c[N]
<1> DEFINE T == {n \in Nat : n <= N => f[S[n]] = c[n]}
<1>2. 0 \in T
  <2>1. {} \in SUBSET (1..N)
    OBVIOUS
  <2>2. f[{}] = base
    BY <2>1 DEF IsFold, Turn
  <2>3. QED
    BY <2>2 DEF IsChain
<1>3. ASSUME NEW n \in T PROVE n + 1 \in T
  <2> SUFFICES ASSUME n + 1 <= N PROVE f[S[n + 1]] = c[n + 1]
    OBVIOUS
  <2>1. n \in Nat /\ n + 1 \in 1..N /\ n + 1 - 1 = n
    OBVIOUS
  <2>2. /\ S[n + 1] \in SUBSET (1..N) /\ S[n + 1] # {}
        /\ S[n + 1] \ {Pick(S[n + 1])} = S[n]
        /\ c[n + 1] = Then(c[n], s[Pick(S[n + 1])])
    BY <2>1 DEF IsChain
  <2>3. f[S[n + 1]] = Then(f[S[n]], s[Pick(S[n + 1])])
    BY <2>2 DEF IsFold, Turn
  <2>4. f[S[n]] = c[n]
    BY <2>1
  <2>5. QED
    BY <2>2, <2>3, <2>4
<1>4. T = Nat
  <2> HIDE DEF T
  <2>1. T \in SUBSET Nat
    BY DEF T
  <2>2. QED
    BY <1>2, <1>3, <2>1, Grows
<1>5. QED
  BY <1>4 DEF IsChain

(* A value worked out from the one before it, element by element. *)
IsUnrolled(c, s, v, N) == c = [n \in 0..N |-> IF n = 0 THEN v ELSE Then(c[n - 1], s[n])]

LEMMA Unrolls ==
    ASSUME NEW N \in Nat, NEW s, NEW v
    PROVE  \E c : IsUnrolled(c, s, v, N)
<1> DEFINE T == {m \in Nat : \E c : IsUnrolled(c, s, v, m)}
<1>1. 0 \in T
  <2> DEFINE c == [n \in 0..0 |-> v]
  <2>1. IsUnrolled(c, s, v, 0)
    BY DEF IsUnrolled
  <2>2. QED
    BY <2>1
<1>2. ASSUME NEW m \in T PROVE m + 1 \in T
  <2>1. m \in Nat
    OBVIOUS
  <2>2. PICK c : IsUnrolled(c, s, v, m)
    OBVIOUS
  <2> DEFINE e == [n \in 0..(m + 1) |-> IF n = 0 THEN v ELSE Then(c[n - 1], s[n])]
  <2>3. \A n \in 0..m : e[n] = c[n]
    BY <2>1, <2>2 DEF IsUnrolled
  <2>4. ASSUME NEW n \in 1..(m + 1) PROVE e[n] = Then(e[n - 1], s[n])
    <3>1. n - 1 \in 0..m
      BY <2>1
    <3>2. n \in 0..(m + 1) /\ n # 0
      BY <2>1
    <3>3. e[n] = Then(c[n - 1], s[n])
      BY <3>2
    <3>4. e[n - 1] = c[n - 1]
      <4> HIDE DEF e
      <4>1. QED
        BY <2>3, <3>1
    <3>5. QED
      BY <3>3, <3>4
  <2>5. e[0] = v
    BY <2>1
  <2>6. DOMAIN e = 0..(m + 1) /\ e = [n \in 0..(m + 1) |-> e[n]]
    OBVIOUS
  <2> HIDE DEF e
  <2>7. \A n \in 0..(m + 1) : e[n] = IF n = 0 THEN v ELSE Then(e[n - 1], s[n])
    BY <2>1, <2>4, <2>5
  <2>8. IsUnrolled(e, s, v, m + 1)
    BY <2>6, <2>7 DEF IsUnrolled
  <2>9. \E h : IsUnrolled(h, s, v, m + 1)
    BY <2>8
  <2>10. QED
    BY <2>1, <2>9
<1>3. T = Nat
  <2> HIDE DEF T
  <2>1. T \in SUBSET Nat
    BY DEF T
  <2>2. QED
    BY <1>1, <1>2, <2>1, Grows
<1>4. PICK c : IsUnrolled(c, s, v, N)
  BY <1>3
<1>5. QED
  BY <1>4

(* A fold that takes the highest index last, as FoldLeft does, takes the   *)
(* elements of a sequence from the first to the last: c has the values.    *)
PicksLast(N) == \A t \in SUBSET (1..N) : t # {} => Pick(t) \in t /\ \A m \in t : m <= Pick(t)
Onwards(c, s, v, N) == c[0] = v /\ \A n \in 1..N : c[n] = Then(c[n - 1], s[n])

LEMMA LeftIsChain ==
    ASSUME NEW N \in Nat, NEW s, NEW v, PicksLast(N), NEW f, IsFold(f, s, v, 1..N)
    PROVE  \E c : Onwards(c, s, v, N) /\ f[1..N] = c[N]
<1>3. \A n \in 1..N : Pick(1..n) = n
  <2> SUFFICES ASSUME NEW n \in 1..N PROVE Pick(1..n) = n
    OBVIOUS
  <2>1. 1..n \in SUBSET (1..N) /\ n \in 1..n
    OBVIOUS
  <2>2. PICK x \in 1..n : x = Pick(1..n) /\ n <= x
    BY <2>1 DEF PicksLast
  <2>3. QED
    BY <2>2
<1>5. \A t \in SUBSET (1..N) : f[t] = Turn(f, s, v, t)
  BY DEF IsFold
<1> DEFINE c == [n \in 0..N |-> f[1..n]]
<1>6. c[0] = v
  <2>1. 1..0 = {} /\ {} \in SUBSET (1..N)
    OBVIOUS
  <2>2. f[{}] = v
    BY <1>5, <2>1 DEF Turn
  <2>3. QED
    BY <2>1, <2>2
<1>7. ASSUME NEW n \in 1..N PROVE c[n] = Then(c[n - 1], s[n])
  <2>1. 1..n \in SUBSET (1..N) /\ n \in 1..n
    OBVIOUS
  <2>2. (1..n) \ {n} = 1..(n - 1)
    OBVIOUS
  <2>3. f[1..n] = Then(f[1..(n - 1)], s[n])
    BY <1>3, <1>5, <2>1, <2>2 DEF Turn
  <2>4. QED
    BY <2>3
<1>8. c[N] = f[1..N]
  OBVIOUS
<1> HIDE DEF c
<1>9. Onwards(c, s, v, N) /\ f[1..N] = c[N]
  BY <1>6, <1>7, <1>8 DEF Onwards
<1>10. QED
  BY <1>9
================================================================================
