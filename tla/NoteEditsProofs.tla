--------------------------- MODULE NoteEditsProofs ---------------------------
(***************************************************************************)
(* Proofs about NoteEdits and the text functions it is built from: what    *)
(* the lines, the headings and the sections of any text are, what the      *)
(* splices of a call make of it, and the invariants of the three tools.    *)
(***************************************************************************)
EXTENDS NoteEdits, FiniteSetTheorems, SequenceTheorems, TLAPS

-----------------------------------------------------------------------------
(* Sequences of numbers, and the parts of a sequence that pass a test. *)

Highest(t) == Max(t)
Take(x, e) == IF e.in = 1 THEN Append(x, e.at) ELSE x
Taking == INSTANCE Folding WITH Then <- Take, Pick <- Highest

(* a has the numbers of S below k in their order. *)
IsRow(a, S, k) ==
    /\ a \in Seq(Nat)
    /\ \A i \in 1..Len(a) : a[i] < k /\ a[i] \in S
    /\ \A i, j \in 1..Len(a) : i < j => a[i] < a[j]
    /\ \A p \in S : p \in Nat /\ p < k => \E i \in 1..Len(a) : a[i] = p

(* One more number: it is put behind the others if it is in the set.       *)
LEMMA RowGrows ==
    ASSUME NEW S, NEW k \in Nat, NEW a, IsRow(a, S, k)
    PROVE  IsRow(IF k \in S THEN Append(a, k) ELSE a, S, k + 1)
<1>1. CASE k \notin S
  <2>1. \A p \in S : p \in Nat /\ p < k + 1 => p < k
    BY <1>1
  <2>2. \A i \in 1..Len(a) : a[i] < k + 1
    <3>1. \A i \in 1..Len(a) : a[i] \in Nat /\ a[i] < k
      BY DEF IsRow
    <3>2. QED
      BY <3>1
  <2>3. QED
    BY <1>1, <2>1, <2>2 DEF IsRow
<1>2. CASE k \in S
  <2> DEFINE b == Append(a, k)
  <2>0. a \in Seq(Nat) /\ Len(a) \in Nat
    BY DEF IsRow
  <2>1. /\ b \in Seq(Nat) /\ Len(b) = Len(a) + 1 /\ b[Len(a) + 1] = k
        /\ \A i \in 1..Len(a) : b[i] = a[i]
    BY <2>0
  <2> HIDE DEF b
  <2>2. \A i \in 1..Len(b) : i \in 1..Len(a) \/ i = Len(a) + 1
    BY <2>0, <2>1
  <2>3. \A i \in 1..Len(a) : a[i] \in Nat /\ a[i] < k /\ a[i] \in S
    BY DEF IsRow
  <2>4. \A i \in 1..Len(b) : b[i] < k + 1 /\ b[i] \in S
    BY <1>2, <2>1, <2>2, <2>3
  <2>5. ASSUME NEW i \in 1..Len(b), NEW j \in 1..Len(b), i < j PROVE b[i] < b[j]
    <3>1. i \in 1..Len(a)
      BY <2>0, <2>1, <2>5
    <3>2. CASE j \in 1..Len(a)
      BY <2>1, <2>5, <3>1, <3>2 DEF IsRow
    <3>3. CASE j = Len(a) + 1
      BY <2>1, <2>3, <3>1, <3>3
    <3>4. QED
      BY <2>2, <3>2, <3>3
  <2>6. ASSUME NEW p \in S, p \in Nat, p < k + 1 PROVE \E i \in 1..Len(b) : b[i] = p
    <3>1. CASE p = k
      <4>1. Len(a) + 1 \in 1..Len(b)
        BY <2>0, <2>1
      <4>2. QED
        BY <2>1, <3>1, <4>1
    <3>2. CASE p < k
      <4>1. PICK i \in 1..Len(a) : a[i] = p
        BY <2>6, <3>2 DEF IsRow
      <4>2. i \in 1..Len(b)
        BY <2>0, <2>1
      <4>3. QED
        BY <2>1, <4>1, <4>2
    <3>3. QED
      BY <2>6, <3>1, <3>2
  <2>7. IsRow(b, S, k + 1)
    BY <2>1, <2>4, <2>5, <2>6 DEF IsRow
  <2>8. QED
    BY <1>2, <2>7 DEF b
<1>3. QED
  BY <1>1, <1>2

(* What Ascending returns: the numbers of S from 0 to n, in their order.   *)
LEMMA AscendingIs ==
    ASSUME NEW S, NEW n \in Nat
    PROVE  IsRow(Ascending(S, n), S, n + 1)
<1> DEFINE Below(b) == b = [k \in 0 .. n + 1 |->
                              IF k = 0 THEN <<>>
                              ELSE IF k - 1 \in S THEN Append(b[k - 1], k - 1) ELSE b[k - 1]]
           c == CHOOSE b : Below(b)
           s == [k \in 1 .. n + 1 |-> [at |-> k - 1, in |-> IF k - 1 \in S THEN 1 ELSE 0]]
<1>1. Ascending(S, n) = c[n + 1]
  BY DEF Ascending
<1>2. \E b : Below(b)
  <2>1. n + 1 \in Nat
    OBVIOUS
  <2>2. PICK b : Taking!IsUnrolled(b, s, <<>>, n + 1)
    BY <2>1, Taking!Unrolls
  <2>3. ASSUME NEW k \in 0 .. n + 1
        PROVE  b[k] = IF k = 0 THEN <<>>
                      ELSE IF k - 1 \in S THEN Append(b[k - 1], k - 1) ELSE b[k - 1]
    <3>1. b[k] = IF k = 0 THEN <<>> ELSE Take(b[k - 1], s[k])
      BY <2>2 DEF Taking!IsUnrolled
    <3>2. k # 0 => s[k].at = k - 1 /\ (s[k].in = 1 <=> k - 1 \in S)
      OBVIOUS
    <3> HIDE DEF s
    <3>3. QED
      BY <3>1, <3>2 DEF Take
  <2>4. b = [k \in 0 .. n + 1 |-> b[k]]
    BY <2>2 DEF Taking!IsUnrolled
  <2>5. QED
    BY <2>3, <2>4
<1>a. Below(c)
  BY <1>2
<1> HIDE DEF c
<1>3. \A k \in 0 .. n + 1 :
        c[k] = IF k = 0 THEN <<>>
               ELSE IF k - 1 \in S THEN Append(c[k - 1], k - 1) ELSE c[k - 1]
  BY <1>a
<1> HIDE DEF Below
<1> DEFINE T == {k \in Nat : k <= n + 1 => IsRow(c[k], S, k)}
<1>4. 0 \in T
  <2>1. c[0] = <<>>
    BY <1>3
  <2>2. IsRow(<<>>, S, 0)
    BY DEF IsRow
  <2>3. QED
    BY <2>1, <2>2
<1>5. ASSUME NEW k \in T PROVE k + 1 \in T
  <2> SUFFICES ASSUME k + 1 <= n + 1 PROVE IsRow(c[k + 1], S, k + 1)
    OBVIOUS
  <2>1. k \in Nat /\ k + 1 \in 0 .. n + 1 /\ k + 1 - 1 = k /\ k + 1 # 0
    OBVIOUS
  <2>2. c[k + 1] = IF k \in S THEN Append(c[k], k) ELSE c[k]
    BY <1>3, <2>1
  <2>3. IsRow(c[k], S, k)
    BY <2>1
  <2>4. QED
    BY <2>1, <2>2, <2>3, RowGrows
<1>6. T = Nat
  <2> HIDE DEF T
  <2>1. T \in SUBSET Nat
    BY DEF T
  <2>2. QED
    BY <1>4, <1>5, <2>1, Taking!Grows
<1>7. QED
  BY <1>1, <1>6

-----------------------------------------------------------------------------
(* The lines of a text. *)

(* L are the lines of t: they lie side by side from 0 to the end of the     *)
(* text, each but a last one ends with a newline, and there is none inside.*)
IsLines(L, t) ==
    /\ Len(L) \in Nat /\ DOMAIN L = 1..Len(L)
    /\ \A k \in 1..Len(L) :
         /\ L[k][1] \in Nat /\ L[k][2] \in Nat
         /\ L[k][1] < L[k][2] /\ L[k][2] <= Len(t)
         /\ L[k][1] = 0 \/ t[L[k][1]] = NL
         /\ L[k][2] = Len(t) \/ t[L[k][2]] = NL
         /\ \A q \in L[k][1] + 1 .. L[k][2] - 1 : t[q] # NL
         /\ IF k = Len(L) THEN L[k][2] = Len(t) ELSE L[k][2] = L[k + 1][1]
    /\ \A j, k \in 1..Len(L) : j < k => L[j][2] <= L[k][1]
    /\ t # <<>> => L # <<>> /\ Len(L) # 0 /\ L[1][1] = 0

(* The lines of a text are just that, whatever the text.                   *)
LEMMA LinesAre ==
    ASSUME NEW t \in Texts
    PROVE  IsLines(Lines(t), t)
<1> DEFINE S == {p \in 0 .. Len(t) - 1 : p = 0 \/ t[p] = NL}
           a == Ascending(S, Len(t))
           L == Lines(t)
<1>0. Len(t) \in Nat /\ t \in Seq(Tokens)
  BY DEF Texts
<1>1. IsRow(a, S, Len(t) + 1)
  BY <1>0, AscendingIs
<1>2. L = [k \in DOMAIN a |-> <<a[k], IF k = Len(a) THEN Len(t) ELSE a[k + 1]>>]
  BY DEF Lines
<1> HIDE DEF a, L
<1>3. a \in Seq(Nat) /\ Len(a) \in Nat /\ DOMAIN a = 1..Len(a)
  BY <1>1 DEF IsRow
<1>b. Len(a) \in Nat
  BY <1>3
<1>4. Len(L) = Len(a) /\ DOMAIN L = 1..Len(a)
  BY <1>2, <1>3
<1>5. \A k \in 1..Len(a) : L[k][1] = a[k] /\ L[k][2] = IF k = Len(a) THEN Len(t) ELSE a[k + 1]
  BY <1>2, <1>3
<1>6. /\ \A k \in 1..Len(a) : a[k] \in S
      /\ \A i, j \in 1..Len(a) : i < j => a[i] < a[j]
      /\ \A p \in S : \E k \in 1..Len(a) : a[k] = p
  <2>1. \A p \in S : p \in Nat /\ p < Len(t) + 1
    BY <1>0
  <2>2. QED
    BY <1>1, <2>1 DEF IsRow
<1>7. ASSUME NEW k \in 1..Len(a)
      PROVE  /\ L[k][1] \in Nat /\ L[k][2] \in Nat
             /\ L[k][1] < L[k][2] /\ L[k][2] <= Len(t)
             /\ L[k][1] = 0 \/ t[L[k][1]] = NL
             /\ L[k][2] = Len(t) \/ t[L[k][2]] = NL
             /\ \A q \in L[k][1] + 1 .. L[k][2] - 1 : t[q] # NL
             /\ IF k = Len(L) THEN L[k][2] = Len(t) ELSE L[k][2] = L[k + 1][1]
  <2>1. L[k][1] = a[k] /\ a[k] \in 0 .. Len(t) - 1 /\ (a[k] = 0 \/ t[a[k]] = NL)
    BY <1>5, <1>6
  <2>2. CASE k = Len(a)
    <3>1. L[k][2] = Len(t)
      BY <1>5, <2>2
    <3>2. ASSUME NEW q \in a[k] + 1 .. Len(t) - 1, t[q] = NL PROVE FALSE
      <4>1. q \in S
        BY <1>0, <2>1, <3>2
      <4>2. PICK j \in 1..Len(a) : a[j] = q
        BY <1>6, <4>1
      <4>3. j <= k
        BY <1>3, <2>2
      <4>4. j # k /\ ~(j < k)
        BY <1>6, <2>1, <3>2, <4>2
      <4>5. QED
        BY <4>3, <4>4
    <3>3. QED
      BY <1>0, <1>4, <2>1, <2>2, <3>1, <3>2
  <2>3. CASE k # Len(a)
    <3>0. k + 1 \in 1..Len(a)
      BY <1>b, <2>3
    <3>1. L[k][2] = a[k + 1] /\ L[k + 1][1] = a[k + 1] /\ a[k + 1] \in S /\ a[k] < a[k + 1]
      BY <1>5, <1>6, <2>3, <3>0
    <3>2. ASSUME NEW q \in a[k] + 1 .. a[k + 1] - 1, t[q] = NL PROVE FALSE
      <4>1. q \in S /\ a[k] < q /\ q < a[k + 1]
        BY <1>0, <2>1, <3>1, <3>2
      <4>2. PICK j \in 1..Len(a) : a[j] = q
        BY <1>6, <4>1
      <4>3. ~(j < k) /\ j # k /\ j # k + 1 /\ ~(k + 1 < j)
        BY <1>6, <2>1, <3>0, <3>1, <4>1, <4>2, SMTT(60)
      <4>4. QED
        BY <1>3, <4>3
    <3>3. k # Len(L) /\ a[k + 1] \in 0 .. Len(t) - 1 /\ (a[k + 1] = 0 \/ t[a[k + 1]] = NL)
      BY <1>4, <2>3, <3>1
    <3>4. a[k + 1] # 0 /\ a[k + 1] <= Len(t)
      BY <1>0, <2>1, <3>1, <3>3
    <3>5. L[k][2] = Len(t) \/ t[L[k][2]] = NL
      BY <3>1, <3>3, <3>4
    <3>6. \A q \in L[k][1] + 1 .. L[k][2] - 1 : t[q] # NL
      BY <2>1, <3>1, <3>2
    <3>7. L[k][1] \in Nat /\ L[k][2] \in Nat /\ L[k][1] < L[k][2] /\ L[k][2] <= Len(t)
      BY <1>0, <2>1, <3>1, <3>3
    <3>8. QED
      BY <2>1, <3>1, <3>3, <3>5, <3>6, <3>7
  <2>4. QED
    BY <2>2, <2>3
<1>8. ASSUME NEW j \in 1..Len(a), NEW k \in 1..Len(a), j < k
      PROVE  L[j][2] <= L[k][1]
  <2>1. j # Len(a) /\ j + 1 \in 1..Len(a) /\ (j + 1 = k \/ j + 1 < k)
    BY <1>b, <1>8
  <2>2. L[j][2] = a[j + 1] /\ L[k][1] = a[k]
    BY <1>5, <2>1
  <2>3. a[j + 1] \in Nat /\ a[k] \in Nat /\ (j + 1 < k => a[j + 1] < a[k])
    BY <1>6, <2>1
  <2>4. QED
    BY <2>1, <2>2, <2>3
<1>9. ASSUME t # <<>> PROVE L # <<>> /\ Len(L) # 0 /\ L[1][1] = 0
  <2>1. 0 \in S
    BY <1>0, <1>9
  <2>2. PICK k \in 1..Len(a) : a[k] = 0
    BY <1>6, <2>1
  <2>3. k = 1
    <3>1. 1 \in 1..Len(a) /\ a[1] \in Nat
      BY <1>3, <1>6
    <3>2. ~(1 < k)
      BY <1>6, <2>2, <3>1
    <3>3. QED
      BY <1>3, <3>2
  <2>4. L[1][1] = 0 /\ Len(L) # 0
    BY <1>4, <1>5, <2>2, <2>3
  <2>5. QED
    BY <2>4
<1>10. IsLines(L, t)
  BY <1>3, <1>4, <1>7, <1>8, <1>9 DEF IsLines
<1>11. QED
  BY <1>10 DEF L

(* A line without its newline holds no newline.                            *)
LEMMA LineTextIs ==
    ASSUME NEW t \in Texts, NEW L, IsLines(L, t), NEW k \in 1..Len(L)
    PROVE  /\ LineText(t, L[k]) \in Texts
           /\ \A q \in 1..Len(LineText(t, L[k])) :
                 LineText(t, L[k])[q] = t[L[k][1] + q] /\ t[L[k][1] + q] # NL
           /\ Len(LineText(t, L[k])) = (IF t[L[k][2]] = NL THEN L[k][2] - 1 ELSE L[k][2]) - L[k][1]
<1> DEFINE a == L[k][1]
           e == IF t[L[k][2]] = NL THEN L[k][2] - 1 ELSE L[k][2]
<1>1. /\ a \in Nat /\ L[k][2] \in Nat /\ a < L[k][2] /\ L[k][2] <= Len(t)
      /\ \A q \in a + 1 .. L[k][2] - 1 : t[q] # NL
  BY DEF IsLines
<1>2. LineText(t, L[k]) = SubSeq(t, a + 1, e)
  BY DEF LineText, Slice
<1>3. e \in Nat /\ a <= e /\ e <= L[k][2]
  BY <1>1
<1>4. \A q \in a + 1 .. e : t[q] # NL
  BY <1>1
<1>5. t \in Seq(Tokens) /\ Len(t) \in Nat
  BY DEF Texts
<1> HIDE DEF a, e
<1>6. /\ SubSeq(t, a + 1, e) \in Seq(Tokens) /\ Len(SubSeq(t, a + 1, e)) = e - a
      /\ \A q \in 1 .. e - a : SubSeq(t, a + 1, e)[q] = t[a + q]
  BY <1>1, <1>3, <1>5
<1>7. \A q \in 1 .. e - a : a + q \in a + 1 .. e
  BY <1>1, <1>3
<1>8. QED
  BY <1>2, <1>4, <1>6, <1>7, SMTT(60) DEF Texts, a, e

(* The frontmatter ends with a line of the text.                           *)
LEMMA FrontIs ==
    ASSUME NEW t, NEW L, Len(L) \in Nat
    PROVE  /\ FrontLines(t, L) \in 0..Len(L) /\ FrontLines(t, L) # 1
           /\ FrontLines(t, L) # 0 =>
                 /\ LineText(t, L[1]) = <<Dashes>>
                 /\ LineText(t, L[FrontLines(t, L)]) = <<Dashes>>
                 /\ \A j \in 2 .. FrontLines(t, L) - 1 : LineText(t, L[j]) # <<Dashes>>
           /\ FrontLines(t, L) = 0 =>
                 \/ L = <<>> \/ LineText(t, L[1]) # <<Dashes>>
                 \/ \A k \in 2..Len(L) : LineText(t, L[k]) # <<Dashes>>
<1> DEFINE closing == {k \in 2..Len(L) : LineText(t, L[k]) = <<Dashes>>}
           k == CHOOSE k \in closing : \A j \in closing : k <= j
<1>1. CASE L = <<>> \/ LineText(t, L[1]) # <<Dashes>> \/ closing = {}
  BY <1>1 DEF FrontLines
<1>2. CASE ~(L = <<>> \/ LineText(t, L[1]) # <<Dashes>> \/ closing = {})
  <2>1. FrontLines(t, L) = k
    BY <1>2 DEF FrontLines
  <2>2. closing \in SUBSET Nat
    OBVIOUS
  <2>3. \E i \in closing : \A j \in closing : i <= j
    <3> HIDE DEF closing
    <3>1. QED
      BY <1>2, <2>2, Taking!Least
  <2>4. k \in closing /\ \A j \in closing : k <= j
    BY <2>3
  <2> HIDE DEF k
  <2>5. \A j \in 2 .. k - 1 : j \notin closing
    BY <2>2, <2>4
  <2>6. \A j \in 2 .. k - 1 : j \in 2..Len(L)
    BY <2>4
  <2>7. QED
    BY <1>2, <2>1, <2>4, <2>5, <2>6
<1>3. QED
  BY <1>1, <1>2

(* The lines that are headings, in their order.                            *)
LEMMA RowsAre ==
    ASSUME NEW t, NEW L, Len(L) \in Nat, NEW front \in 0..Len(L)
    PROVE  LET rows == HeadingLines(t, L, front) IN
           /\ rows \in Seq(Nat)
           /\ \A i \in 1..Len(rows) : /\ rows[i] \in front + 1 .. Len(L)
                                      /\ \E l \in DOMAIN Marks : t[L[rows[i]][1] + 1] = Marks[l]
           /\ \A i, j \in 1..Len(rows) : i < j => rows[i] < rows[j]
<1> DEFINE S == {k \in front + 1 .. Len(L) :
                    /\ k \notin Fenced(t, L, front)
                    /\ \E l \in DOMAIN Marks : t[L[k][1] + 1] = Marks[l]}
<1>1. HeadingLines(t, L, front) = Ascending(S, Len(L))
  BY DEF HeadingLines
<1>2. IsRow(HeadingLines(t, L, front), S, Len(L) + 1)
  <2> HIDE DEF S
  <2>1. QED
    BY <1>1, AscendingIs
<1>3. QED
  BY <1>2 DEF IsRow

(* The chains of titles, each made from that of a heading further up.      *)
AreChains(c, par, tit, N) ==
    c = [i \in 1..N |-> IF par[i] = 0 THEN <<tit[i]>> ELSE Append(c[par[i]], tit[i])]

(* There are such chains, since a parent comes before its children.        *)
LEMMA ChainsExist ==
    ASSUME NEW N \in Nat, NEW par, NEW tit, \A i \in 1..N : par[i] \in Nat /\ par[i] < i
    PROVE  \E c : AreChains(c, par, tit, N)
<1> DEFINE T == {m \in Nat : m <= N => \E c : AreChains(c, par, tit, m)}
<1>1. 0 \in T
  <2> DEFINE c == [i \in 1..0 |-> <<>>]
  <2>1. AreChains(c, par, tit, 0)
    BY DEF AreChains
  <2>2. QED
    BY <2>1
<1>2. ASSUME NEW m \in T PROVE m + 1 \in T
  <2> SUFFICES ASSUME m + 1 <= N PROVE \E c : AreChains(c, par, tit, m + 1)
    OBVIOUS
  <2>1. m \in Nat /\ m + 1 \in 1..N
    OBVIOUS
  <2>2. PICK c : AreChains(c, par, tit, m)
    BY <2>1
  <2> DEFINE e == [i \in 1 .. m + 1 |-> IF par[i] = 0 THEN <<tit[i]>> ELSE Append(c[par[i]], tit[i])]
  <2>3. ASSUME NEW i \in 1..m PROVE e[i] = c[i]
    <3>1. c[i] = IF par[i] = 0 THEN <<tit[i]>> ELSE Append(c[par[i]], tit[i])
      BY <2>2 DEF AreChains
    <3>2. i \in 1 .. m + 1
      BY <2>1
    <3>3. QED
      BY <3>1, <3>2
  <2>4. ASSUME NEW i \in 1 .. m + 1
        PROVE  e[i] = IF par[i] = 0 THEN <<tit[i]>> ELSE Append(e[par[i]], tit[i])
    <3>1. i \in 1..N /\ i <= m + 1
      BY <2>1
    <3>2. par[i] # 0 => par[i] \in 1..m
      <4>1. par[i] \in Nat /\ par[i] < i /\ i \in Nat
        BY <3>1
      <4>2. QED
        BY <2>1, <3>1, <4>1
    <3>3. par[i] # 0 => e[par[i]] = c[par[i]]
      BY <2>3, <3>2
    <3>4. e[i] = IF par[i] = 0 THEN <<tit[i]>> ELSE Append(c[par[i]], tit[i])
      OBVIOUS
    <3> HIDE DEF e
    <3>5. QED
      BY <3>3, <3>4
  <2>5. e = [i \in 1 .. m + 1 |-> e[i]]
    OBVIOUS
  <2> HIDE DEF e
  <2>6. AreChains(e, par, tit, m + 1)
    BY <2>4, <2>5 DEF AreChains
  <2>7. QED
    BY <2>6
<1>3. T = Nat
  <2> HIDE DEF T
  <2>1. T \in SUBSET Nat
    BY DEF T
  <2>2. QED
    BY <1>1, <1>2, <2>1, Taking!Grows
<1>4. QED
  BY <1>3

(* Chains are made of titles, and none is empty.                           *)
LEMMA ChainsAreTexts ==
    ASSUME NEW N \in Nat, NEW par, NEW tit, NEW c, AreChains(c, par, tit, N),
           \A i \in 1..N : par[i] \in Nat /\ par[i] < i /\ tit[i] \in Texts
    PROVE  \A i \in 1..N : c[i] \in Seq(Texts) /\ c[i] # <<>>
<1> DEFINE Good(i) == c[i] \in Seq(Texts) /\ c[i] # <<>>
           T == {i \in 1..N : ~Good(i)}
<1> SUFFICES ASSUME T # {} PROVE FALSE
  OBVIOUS
<1>1. T \in SUBSET Nat
  OBVIOUS
<1>2. PICK i \in T : \A j \in T : i <= j
  <2> HIDE DEF T
  <2>1. QED
    BY <1>1, Taking!Least
<1>3. i \in 1..N /\ ~Good(i) /\ par[i] \in Nat /\ par[i] < i /\ tit[i] \in Texts
  OBVIOUS
<1>4. c[i] = IF par[i] = 0 THEN <<tit[i]>> ELSE Append(c[par[i]], tit[i])
  BY DEF AreChains
<1>5. CASE par[i] = 0
  <2>1. <<tit[i]>> \in Seq(Texts) /\ <<tit[i]>> # <<>>
    BY <1>3
  <2>2. QED
    BY <1>3, <1>4, <1>5, <2>1
<1>6. CASE par[i] # 0
  <2>1. par[i] \in 1..N /\ ~(i <= par[i])
    BY <1>3, <1>6
  <2>2. Good(par[i])
    BY <1>2, <2>1
  <2>3. Append(c[par[i]], tit[i]) \in Seq(Texts) /\ Append(c[par[i]], tit[i]) # <<>>
    <3> DEFINE u == c[par[i]]
    <3>1. u \in Seq(Texts)
      BY <2>2
    <3> HIDE DEF u
    <3>2. Append(u, tit[i]) \in Seq(Texts) /\ Append(u, tit[i]) # <<>>
      BY <1>3, <3>1
    <3>3. QED
      BY <3>2 DEF u
  <2>4. QED
    BY <1>3, <1>4, <1>6, <2>3
<1>7. QED
  BY <1>5, <1>6

-----------------------------------------------------------------------------
(* The structure of a text. *)

(* A place where a line of t begins or the text ends. *)
AtLine(t, p) == p \in 0..Len(t) /\ (p = 0 \/ p = Len(t) \/ t[p] = NL)

(* The frontmatter and the headings of t lie one behind the other, each     *)
(* from the start of a line to the end of one; a heading begins with the   *)
(* marker of its level, and its chain of titles is not empty.              *)
IsDoc(d, t) ==
    /\ Len(d.heads) \in Nat /\ DOMAIN d.heads = 1..Len(d.heads)
    /\ d.size = Len(t)
    /\ AtLine(t, d.body)
    /\ \A i \in 1..Len(d.heads) :
         /\ AtLine(t, d.heads[i].start) /\ AtLine(t, d.heads[i].stop)
         /\ d.body <= d.heads[i].start /\ d.heads[i].start < d.heads[i].stop
         /\ d.heads[i].level \in 1..3
         /\ t[d.heads[i].start + 1] = Marks[d.heads[i].level]
         /\ d.heads[i].chain \in Seq(Texts) /\ d.heads[i].chain # <<>>
    /\ \A i, j \in 1..Len(d.heads) : i < j => d.heads[i].stop <= d.heads[j].start

(* The level of a marker is its place in Marks.                            *)
LEMMA LevelIs ==
    ASSUME NEW tok, \E l \in DOMAIN Marks : tok = Marks[l]
    PROVE  Level(tok) \in 1..3 /\ Marks[Level(tok)] = tok
<1>1. DOMAIN Marks = 1..3
  BY DEF Marks
<1>2. Level(tok) \in DOMAIN Marks /\ Marks[Level(tok)] = tok
  BY DEF Level
<1>3. QED
  BY <1>1, <1>2

(* The markers of headings are tokens, and none is a newline.              *)
LEMMA MarkIsNoNewline ==
    \A l \in DOMAIN Marks : Marks[l] # NL /\ Marks[l] \in Tokens
<1>1. \A l \in DOMAIN Marks : Marks[l] \in Tokens
  <2>1. Range(Marks) \subseteq Tokens
    BY InputAssumption
  <2> HIDE DEF Marks
  <2>2. QED
    BY <2>1 DEF Range
<1>2. DOMAIN Marks = 1..3
  BY DEF Marks
<1>3. Marks[1] = "#" /\ Marks[2] = "##" /\ Marks[3] = "###"
  BY DEF Marks
<1>4. "#" # NL /\ "##" # NL /\ "###" # NL
  BY DEF NL
<1>5. \A l \in DOMAIN Marks : l = 1 \/ l = 2 \/ l = 3
  BY <1>2
<1> HIDE DEF Marks, NL
<1>6. QED
  BY <1>1, <1>3, <1>4, <1>5

(* What Parse makes of the lines of a text.                                *)
LEMMA StructureIs ==
    ASSUME NEW t \in Texts, NEW L, IsLines(L, t), NEW front \in 0..Len(L), NEW rows \in Seq(Nat),
           \A i \in 1..Len(rows) : /\ rows[i] \in front + 1 .. Len(L)
                                   /\ \E l \in DOMAIN Marks : t[L[rows[i]][1] + 1] = Marks[l],
           \A i, j \in 1..Len(rows) : i < j => rows[i] < rows[j]
    PROVE  /\ IsDoc(Structure(t, L, front, rows), t)
           /\ Structure(t, L, front, rows).body = IF front = 0 THEN 0 ELSE L[front][2]
<1> DEFINE level(i) == Level(t[L[rows[i]][1] + 1])
           above(i) == {j \in 1 .. i - 1 : level(j) < level(i)}
           parent(i) == IF above(i) = {} THEN 0
                        ELSE CHOOSE j \in above(i) : \A k \in above(i) : k <= j
           title(i) == Tail(LineText(t, L[rows[i]]))
           N == Len(rows)
           par == [i \in 1..N |-> parent(i)]
           tit == [i \in 1..N |-> title(i)]
           IsChain(c) == c = [i \in DOMAIN rows |->
                                IF parent(i) = 0 THEN <<title(i)>> ELSE Append(c[parent(i)], title(i))]
           chain == CHOOSE c : IsChain(c)
           d == Structure(t, L, front, rows)
<1>1. d = [body |-> IF front = 0 THEN 0 ELSE L[front][2],
           size |-> Len(t),
           heads |-> [i \in DOMAIN rows |->
              [level |-> level(i), chain |-> chain[i], parent |-> parent(i),
               line |-> rows[i], start |-> L[rows[i]][1], stop |-> L[rows[i]][2]]]]
  BY DEF Structure
<1> HIDE DEF d
<1>2. N \in Nat /\ DOMAIN rows = 1..N
  OBVIOUS
<1>a. Len(L) \in Nat
  BY DEF IsLines
<1>3. ASSUME NEW i \in 1..N
      PROVE  level(i) \in 1..3 /\ t[L[rows[i]][1] + 1] = Marks[level(i)]
  BY LevelIs
<1>4. ASSUME NEW i \in 1..N
      PROVE  parent(i) \in Nat /\ parent(i) < i
  <2>1. CASE above(i) = {}
    BY <1>2, <2>1
  <2>2. CASE above(i) # {}
    <3>1. above(i) \in SUBSET (1..N)
      BY <1>2
    <3>2. \E j \in above(i) : \A k \in above(i) : k <= j
      <4> HIDE DEF above
      <4>1. PICK x \in above(i) : \A y \in above(i) : x >= y
        BY <1>2, <2>2, <3>1, Taking!Extremes
      <4>2. x \in Nat /\ \A y \in above(i) : y \in Nat
        BY <3>1
      <4>3. QED
        BY <4>1, <4>2
    <3>3. parent(i) \in above(i)
      BY <2>2, <3>2
    <3>4. above(i) \subseteq 1 .. i - 1
      OBVIOUS
    <3> HIDE DEF parent, above
    <3>5. parent(i) \in 1 .. i - 1 /\ i \in Nat
      BY <1>2, <3>3, <3>4
    <3>6. QED
      BY <3>5
  <2>3. QED
    BY <2>1, <2>2
<1>5. ASSUME NEW i \in 1..N
      PROVE  /\ rows[i] \in 1..Len(L) /\ rows[i] > front
             /\ title(i) \in Texts
  <2>1. rows[i] \in 1..Len(L) /\ rows[i] > front
    <3>1. rows[i] \in front + 1 .. Len(L) /\ front \in Nat
      BY <1>a
    <3>2. QED
      BY <1>a, <3>1
  <2> DEFINE r == rows[i]
             u == LineText(t, L[r])
  <2>2. /\ u \in Texts
        /\ Len(u) = (IF t[L[r][2]] = NL THEN L[r][2] - 1 ELSE L[r][2]) - L[r][1]
    BY <2>1, LineTextIs
  <2>3. L[r][1] \in Nat /\ L[r][2] \in Nat /\ L[r][1] < L[r][2]
    BY <2>1 DEF IsLines
  <2>4. t[L[r][1] + 1] # NL
    BY MarkIsNoNewline
  <2>5. t[L[r][2]] = NL => L[r][2] # L[r][1] + 1
    BY <2>4
  <2> HIDE DEF u, r
  <2>6. Len(u) > 0
    BY <2>2, <2>3, <2>5, SMTT(60)
  <2>7. u \in Seq(Tokens) /\ u # <<>>
    BY <2>2, <2>6 DEF Texts
  <2>8. Tail(u) \in Seq(Tokens)
    BY <2>7
  <2>9. title(i) = Tail(u)
    BY DEF u, r
  <2>10. QED
    BY <2>1, <2>8, <2>9 DEF Texts
<1>6. \A i \in 1..N : par[i] = parent(i) /\ tit[i] = title(i)
  OBVIOUS
<1>7. \A c : IsChain(c) <=> AreChains(c, par, tit, N)
  BY <1>2, <1>6 DEF AreChains
<1> HIDE DEF parent, title, level
<1>8. \A i \in 1..N : par[i] \in Nat /\ par[i] < i /\ tit[i] \in Texts
  BY <1>4, <1>5, <1>6
<1> HIDE DEF par, tit
<1>9. AreChains(chain, par, tit, N)
  <2>1. \E c : IsChain(c)
    BY <1>2, <1>7, <1>8, ChainsExist
  <2>2. IsChain(chain)
    BY <2>1
  <2>3. QED
    BY <1>7, <2>2
<1>10. \A i \in 1..N : chain[i] \in Seq(Texts) /\ chain[i] # <<>>
  BY <1>2, <1>8, <1>9, ChainsAreTexts
<1> HIDE DEF chain
<1>11. /\ d.body = IF front = 0 THEN 0 ELSE L[front][2]
       /\ d.size = Len(t)
       /\ DOMAIN d.heads = 1..N /\ Len(d.heads) = N
       /\ \A i \in 1..N :
            /\ d.heads[i].level = level(i) /\ d.heads[i].chain = chain[i]
            /\ d.heads[i].start = L[rows[i]][1] /\ d.heads[i].stop = L[rows[i]][2]
  BY <1>1, <1>2
<1>12. Len(t) \in Nat
  BY DEF Texts
<1>13. ASSUME NEW k \in 1..Len(L)
       PROVE  AtLine(t, L[k][1]) /\ AtLine(t, L[k][2]) /\ L[k][1] < L[k][2]
  <2>1. /\ L[k][1] \in Nat /\ L[k][2] \in Nat
        /\ L[k][1] < L[k][2] /\ L[k][2] <= Len(t)
        /\ L[k][1] = 0 \/ t[L[k][1]] = NL
        /\ L[k][2] = Len(t) \/ t[L[k][2]] = NL
    BY DEF IsLines
  <2>2. L[k][1] \in 0..Len(t) /\ L[k][2] \in 0..Len(t)
    BY <1>12, <2>1
  <2>3. QED
    BY <2>1, <2>2 DEF AtLine
<1>14. AtLine(t, d.body)
  <2>1. CASE front = 0
    BY <1>11, <1>12, <2>1 DEF AtLine
  <2>2. CASE front # 0
    <3>1. front \in 1..Len(L)
      BY <1>a, <2>2
    <3>2. QED
      BY <1>11, <1>13, <2>2, <3>1
  <2>3. QED
    BY <2>1, <2>2
<1>15. ASSUME NEW i \in 1..N PROVE d.body <= d.heads[i].start
  <2>1. rows[i] \in 1..Len(L) /\ rows[i] > front /\ L[rows[i]][1] \in Nat
    BY <1>5 DEF IsLines
  <2>2. CASE front = 0
    BY <1>11, <2>1, <2>2, SMTT(60)
  <2>3. CASE front # 0
    <3>1. front \in 1..Len(L) /\ front < rows[i]
      BY <1>a, <2>1, <2>3
    <3>2. L[front][2] <= L[rows[i]][1]
      BY <2>1, <3>1 DEF IsLines
    <3>3. QED
      BY <1>11, <2>3, <3>2
  <2>4. QED
    BY <2>2, <2>3
<1>16. ASSUME NEW i \in 1..N, NEW j \in 1..N, i < j
       PROVE  d.heads[i].stop <= d.heads[j].start
  <2>1. rows[i] \in 1..Len(L) /\ rows[j] \in 1..Len(L) /\ rows[i] < rows[j]
    BY <1>5, <1>16
  <2>2. QED
    BY <1>11, <2>1 DEF IsLines
<1>17. IsDoc(d, t)
  <2>1. ASSUME NEW i \in 1..N
        PROVE  /\ AtLine(t, d.heads[i].start) /\ AtLine(t, d.heads[i].stop)
               /\ d.body <= d.heads[i].start /\ d.heads[i].start < d.heads[i].stop
               /\ d.heads[i].level \in 1..3
               /\ t[d.heads[i].start + 1] = Marks[d.heads[i].level]
               /\ d.heads[i].chain \in Seq(Texts) /\ d.heads[i].chain # <<>>
    <3>1. rows[i] \in 1..Len(L)
      BY <1>5
    <3>2. AtLine(t, L[rows[i]][1]) /\ AtLine(t, L[rows[i]][2]) /\ L[rows[i]][1] < L[rows[i]][2]
      BY <1>13, <3>1
    <3>3. d.heads[i].chain \in Seq(Texts) /\ d.heads[i].chain # <<>>
      BY <1>10, <1>11
    <3>4. QED
      BY <1>3, <1>11, <1>15, <3>2, <3>3
  <2>2. QED
    BY <1>2, <1>11, <1>14, <1>16, <2>1 DEF IsDoc
<1>18. QED
  BY <1>11, <1>17 DEF d

(* What the parser makes of any text is such a document.                   *)
LEMMA DocIs ==
    ASSUME NEW t \in Texts
    PROVE  IsDoc(Parse(t), t)
<1> DEFINE L == Lines(t)
           front == FrontLines(t, L)
           rows == HeadingLines(t, L, front)
<1>1. IsLines(L, t)
  BY LinesAre
<1>2. Parse(t) = Structure(t, L, front, rows)
  BY DEF Parse, ParseLines
<1> HIDE DEF L
<1>3. Len(L) \in Nat
  BY <1>1 DEF IsLines
<1>4. front \in 0..Len(L)
  BY <1>3, FrontIs
<1> HIDE DEF front
<1>5. /\ rows \in Seq(Nat)
      /\ \A i \in 1..Len(rows) : /\ rows[i] \in front + 1 .. Len(L)
                                 /\ \E l \in DOMAIN Marks : t[L[rows[i]][1] + 1] = Marks[l]
      /\ \A i, j \in 1..Len(rows) : i < j => rows[i] < rows[j]
  BY <1>3, <1>4, RowsAre
<1> HIDE DEF rows
<1>6. IsDoc(Structure(t, L, front, rows), t)
  BY ONLY t \in Texts, <1>1, <1>4, <1>5, StructureIs, SMTT(60)
<1>7. QED
  BY ONLY <1>2, <1>6

(* A section ends at the next heading that ends it, or with the text.      *)
LEMMA EndOfIs ==
    ASSUME NEW t \in Texts, NEW d, IsDoc(d, t), NEW i \in 0..Len(d.heads),
           NEW is \in SUBSET (i + 1 .. Len(d.heads))
    PROVE  /\ AtLine(t, EndOf(d, is))
           /\ (IF i = 0 THEN d.body ELSE d.heads[i].stop) <= EndOf(d, is)
<1>1. Len(d.heads) \in Nat /\ Len(t) \in Nat /\ d.size = Len(t)
  BY DEF IsDoc, Texts
<1> DEFINE N == Len(d.heads)
<1>2. CASE is = {}
  <2>1. EndOf(d, is) = Len(t)
    BY <1>1, <1>2 DEF EndOf
  <2>2. i # 0 => i \in 1..N
    BY <1>1
  <2>3. AtLine(t, d.body) /\ (i # 0 => AtLine(t, d.heads[i].stop))
    BY <2>2 DEF IsDoc
  <2>4. QED
    BY <1>1, <2>1, <2>3 DEF AtLine
<1>3. CASE is # {}
  <2>1. is \in SUBSET Nat
    BY <1>1
  <2>2. \E j \in is : \A k \in is : j <= k
    BY <1>3, <2>1, Taking!Least
  <2>3. PICK j \in is : EndOf(d, is) = d.heads[j].start
    BY <1>3, <2>2 DEF EndOf
  <2>4. j \in 1..N /\ i < j
    BY <1>1, <2>3
  <2>5. AtLine(t, d.heads[j].start) /\ d.body <= d.heads[j].start
    BY <2>4 DEF IsDoc
  <2>6. CASE i = 0
    BY <2>3, <2>5, <2>6
  <2>7. CASE i # 0
    <3>1. i \in 1..N
      BY <1>1, <2>7
    <3>2. d.heads[i].stop <= d.heads[j].start
      BY <2>4, <3>1 DEF IsDoc
    <3>3. QED
      BY <2>3, <2>5, <2>7, <3>2
  <2>8. QED
    BY <2>6, <2>7
<1>4. QED
  BY <1>2, <1>3

(* The content of a section and the section itself reach from the start of *)
(* a line to the end of one.                                               *)
LEMMA SpansAre ==
    ASSUME NEW t \in Texts, NEW d, IsDoc(d, t), NEW i \in 0..Len(d.heads),
           NEW scope \in {"body", "section"}
    PROVE  /\ AtLine(t, ContentSpan(d, i, scope)[1]) /\ AtLine(t, ContentSpan(d, i, scope)[2])
           /\ ContentSpan(d, i, scope)[1] <= ContentSpan(d, i, scope)[2]
           /\ AtLine(t, SectionSpan(d, i)[1]) /\ AtLine(t, SectionSpan(d, i)[2])
           /\ SectionSpan(d, i)[1] <= SectionSpan(d, i)[2]
<1> DEFINE from == IF i = 0 THEN d.body ELSE d.heads[i].stop
           own == {j \in i + 1 .. Len(d.heads) : d.heads[j].level <= d.heads[i].level}
<1>1. Len(d.heads) \in Nat /\ Len(t) \in Nat /\ d.size = Len(t)
  BY DEF IsDoc, Texts
<1>2. AtLine(t, d.body)
  BY DEF IsDoc
<1>3. i # 0 => /\ i \in 1..Len(d.heads)
               /\ AtLine(t, d.heads[i].start) /\ AtLine(t, d.heads[i].stop)
               /\ d.heads[i].start < d.heads[i].stop
  <2>1. i # 0 => i \in 1..Len(d.heads)
    BY <1>1
  <2>2. QED
    BY <2>1 DEF IsDoc
<1>4. AtLine(t, EndOf(d, own)) /\ from <= EndOf(d, own)
  BY EndOfIs
<1>5. /\ AtLine(t, EndOf(d, i + 1 .. Len(d.heads)))
      /\ from <= EndOf(d, i + 1 .. Len(d.heads))
  BY EndOfIs
<1>6. AtLine(t, d.size) /\ d.body <= d.size
  BY <1>1, <1>2 DEF AtLine
<1> DEFINE S == SectionSpan(d, i)
           C == ContentSpan(d, i, scope)
<1>7. S = IF i = 0 THEN <<d.body, d.size>> ELSE <<d.heads[i].start, EndOf(d, own)>>
  BY DEF SectionSpan
<1>8. C = <<from, IF scope = "section" THEN S[2] ELSE EndOf(d, i + 1 .. Len(d.heads))>>
  BY DEF ContentSpan
<1>a. C[1] = from /\ C[2] = IF scope = "section" THEN S[2] ELSE EndOf(d, i + 1 .. Len(d.heads))
  BY <1>8
<1> HIDE DEF own
<1>9. AtLine(t, from)
  BY <1>2, <1>3
<1>10. CASE i = 0
  <2>1. S[1] = d.body /\ S[2] = d.size /\ from = d.body
    BY <1>7, <1>10
  <2>2. QED
    BY <1>2, <1>5, <1>6, <1>a, <1>10, <2>1
<1>11. CASE i # 0
  <2>1. S[1] = d.heads[i].start /\ S[2] = EndOf(d, own) /\ from = d.heads[i].stop
    BY <1>7, <1>11
  <2>2. S[1] <= S[2]
    <3>1. d.heads[i].start \in Nat /\ d.heads[i].stop \in Nat /\ EndOf(d, own) \in Nat
      BY <1>3, <1>4, <1>11 DEF AtLine
    <3>2. QED
      BY <1>3, <1>4, <1>11, <2>1, <3>1
  <2> HIDE DEF from
  <2>3. QED
    BY <1>3, <1>4, <1>5, <1>a, <1>9, <1>11, <2>1, <2>2
<1>12. QED
  BY <1>10, <1>11

-----------------------------------------------------------------------------
(* Addresses of headings. *)

(* The headings of a set in their order.                                   *)
LEMMA MatchesAre ==
    ASSUME NEW t, NEW d, IsDoc(d, t), NEW S \in SUBSET (1..Len(d.heads))
    PROVE  LET a == Ascending(S, Len(d.heads)) IN
           /\ a \in Seq(Nat) /\ DOMAIN a = 1..Len(a)
           /\ \A n \in 1..Len(a) : a[n] \in S
           /\ \A i \in S : \E n \in 1..Len(a) : a[n] = i
           /\ \A m, n \in 1..Len(a) : a[m] = a[n] => m = n
<1> DEFINE a == Ascending(S, Len(d.heads))
<1>1. Len(d.heads) \in Nat
  BY DEF IsDoc
<1>2. IsRow(a, S, Len(d.heads) + 1)
  BY <1>1, AscendingIs
<1> HIDE DEF a
<1>3. a \in Seq(Nat) /\ DOMAIN a = 1..Len(a) /\ Len(a) \in Nat
  BY <1>2 DEF IsRow
<1>4. \A n \in 1..Len(a) : a[n] \in S
  BY <1>2 DEF IsRow
<1>5. \A i \in S : i \in Nat /\ i < Len(d.heads) + 1
  BY <1>1
<1>6. \A i \in S : \E n \in 1..Len(a) : a[n] = i
  BY <1>2, <1>5 DEF IsRow
<1>7. ASSUME NEW m \in 1..Len(a), NEW n \in 1..Len(a), a[m] = a[n] PROVE m = n
  <2>1. m \in Nat /\ n \in Nat /\ a[m] \in Nat
    BY <1>3, <1>4, <1>5
  <2>2. ~(m < n) /\ ~(n < m)
    <3>1. m < n => a[m] < a[n]
      BY <1>2 DEF IsRow
    <3>2. n < m => a[n] < a[m]
      BY <1>2 DEF IsRow
    <3>3. QED
      BY <1>7, <2>1, <3>1, <3>2
  <2>3. QED
    BY <2>1, <2>2
<1>8. QED
  BY <1>3, <1>4, <1>6, <1>7 DEF a

(* What an address leads to is a heading, or none.                         *)
LEMMA ResolveIs ==
    ASSUME NEW t, NEW d, IsDoc(d, t), NEW path, NEW occ \in Nat
    PROVE  Resolve(d, path, occ) \in 0..Len(d.heads)
<1> DEFINE N == Len(d.heads)
           E == {i \in DOMAIN d.heads : d.heads[i].chain = path}
           S == {i \in DOMAIN d.heads : IsSuffix(path, d.heads[i].chain)}
           exact == Ascending(E, N)
           suffix == Ascending(S, N)
           found == IF exact # <<>> THEN exact ELSE suffix
<1>1. N \in Nat /\ DOMAIN d.heads = 1..N
  BY DEF IsDoc
<1>2. /\ exact \in Seq(Nat) /\ DOMAIN exact = 1..Len(exact)
      /\ \A n \in 1..Len(exact) : exact[n] \in 1..N
  BY <1>1, MatchesAre
<1>3. /\ suffix \in Seq(Nat) /\ DOMAIN suffix = 1..Len(suffix)
      /\ \A n \in 1..Len(suffix) : suffix[n] \in 1..N
  BY <1>1, MatchesAre, SMTT(60)
<1>4. Resolve(d, path, occ) = IF occ # 0 THEN IF occ \in DOMAIN exact THEN exact[occ] ELSE 0
                              ELSE IF Len(found) = 1 THEN found[1] ELSE 0
  BY DEF Resolve, Matches
<1> HIDE DEF exact, suffix
<1>5. Len(exact) \in Nat /\ Len(suffix) \in Nat
  BY <1>2, <1>3
<1>6. Len(found) = 1 => found[1] \in 1..N
  BY <1>2, <1>3, <1>5
<1> HIDE DEF found
<1>7. occ \in DOMAIN exact => exact[occ] \in 1..N
  BY <1>2
<1>8. QED
  BY <1>1, <1>4, <1>6, <1>7

(* An address leads to the root or to one of the headings.                 *)
LEMMA IndexIs ==
    ASSUME NEW t, NEW d, IsDoc(d, t), NEW path, NEW occ \in Nat
    PROVE  Index(d, path, occ) \in 0..Len(d.heads)
<1>1. Len(d.heads) \in Nat
  BY DEF IsDoc
<1>2. QED
  BY <1>1, ResolveIs DEF Index

(* The address an outline gives for a heading leads back to it, by the      *)
(* shortest suffix of its chain that does or by its number among equals.   *)
THEOREM AddressLeadsBack ==
    ASSUME NEW t, NEW d, IsDoc(d, t), NEW i \in 1..Len(d.heads)
    PROVE  /\ Resolve(d, Address(d, i).path, Address(d, i).occ) = i
           /\ Address(d, i).occ \in Nat
<1> DEFINE N == Len(d.heads)
           chain == d.heads[i].chain
           last(k) == SubSeq(chain, Len(chain) - k + 1, Len(chain))
           good == {k \in DOMAIN chain : Resolve(d, last(k), 0) = i}
           E == {j \in DOMAIN d.heads : d.heads[j].chain = chain}
           same == Ascending(E, N)
           k0 == CHOOSE k \in good : \A j \in good : k <= j
           n0 == CHOOSE n \in DOMAIN same : same[n] = i
<1>1. N \in Nat /\ DOMAIN d.heads = 1..N /\ chain \in Seq(Texts)
  BY DEF IsDoc
<1>2. Address(d, i) = IF good # {} THEN [path |-> last(k0), occ |-> 0] ELSE [path |-> chain, occ |-> n0]
  BY DEF Address, Matches
<1>3. CASE good # {}
  <2>1. good \in SUBSET Nat
    BY <1>1
  <2>2. \E k \in good : \A j \in good : k <= j
    <3> HIDE DEF good
    <3>1. QED
      BY <1>3, <2>1, Taking!Least
  <2>3. k0 \in good
    BY <2>2
  <2>4. Resolve(d, last(k0), 0) = i
    BY <2>3
  <2> HIDE DEF k0, good, last
  <2>5. Address(d, i).path = last(k0) /\ Address(d, i).occ = 0
    BY <1>2, <1>3
  <2>6. QED
    BY <2>4, <2>5
<1>4. CASE good = {}
  <2>1. /\ same \in Seq(Nat) /\ DOMAIN same = 1..Len(same)
        /\ \A j \in E : \E n \in 1..Len(same) : same[n] = j
    <3>1. E \in SUBSET (1..N)
      BY <1>1
    <3> HIDE DEF E
    <3>2. QED
      BY <3>1, MatchesAre
  <2>2. i \in E
    BY <1>1
  <2>3. n0 \in DOMAIN same /\ same[n0] = i
    <3> HIDE DEF same, E
    <3>1. \E n \in DOMAIN same : same[n] = i
      BY <2>1, <2>2
    <3>2. QED
      BY <3>1
  <2>4. n0 \in Nat /\ n0 # 0
    <3> HIDE DEF same, E, n0
    <3>1. Len(same) \in Nat
      BY <2>1
    <3>2. QED
      BY <2>1, <2>3, <3>1
  <2>5. Resolve(d, chain, n0) = IF n0 # 0 THEN IF n0 \in DOMAIN same THEN same[n0] ELSE 0
                                ELSE Resolve(d, chain, n0)
    BY <2>4 DEF Resolve, Matches
  <2>6. Address(d, i).path = chain /\ Address(d, i).occ = n0
    <3> HIDE DEF good, n0, k0, last
    <3>1. QED
      BY <1>2, <1>4
  <2> HIDE DEF same, n0, E
  <2>7. QED
    BY <2>3, <2>4, <2>5, <2>6
<1>5. QED
  BY <1>3, <1>4

-----------------------------------------------------------------------------
(* What replaces the content of a section. *)

(* A sequence ends with its last element, and with its last two.           *)
LEMMA EndsWithItsEnd ==
    ASSUME NEW s \in Texts
    PROVE  /\ Len(s) >= 1 => EndsWith(s, <<s[Len(s)]>>)
           /\ Len(s) >= 2 => EndsWith(s, <<s[Len(s) - 1], s[Len(s)]>>)
<1> DEFINE r == Reverse(s)
<1>1. Len(s) \in Nat /\ s \in Seq(Tokens)
  BY DEF Texts
<1>2. r \in Seq(Tokens) /\ Len(r) = Len(s) /\ \A i \in 1..Len(s) : r[i] = s[Len(s) - i + 1]
  <2>1. r = [i \in 1..Len(s) |-> s[Len(s) - i + 1]]
    BY DEF Reverse
  <2>2. \A i \in 1..Len(s) : Len(s) - i + 1 \in 1..Len(s)
    BY <1>1
  <2>3. \A i \in 1..Len(s) : s[Len(s) - i + 1] \in Tokens
    BY <1>1, <2>2
  <2>4. r \in [1..Len(s) -> Tokens]
    BY <2>1, <2>3
  <2> HIDE DEF r
  <2>5. QED
    BY <1>1, <2>1, <2>4
<1> HIDE DEF r
<1>3. ASSUME Len(s) >= 1 PROVE EndsWith(s, <<s[Len(s)]>>)
  <2> DEFINE x == s[Len(s)]
  <2>1. r[1] = x /\ x \in Tokens
    BY <1>1, <1>2, <1>3
  <2> HIDE DEF x
  <2>2. Reverse(<<x>>) = <<x>>
    BY DEF Reverse
  <2>a. <<x>> \in Seq(Tokens) /\ Len(<<x>>) = 1 /\ <<x>>[1] = x
    BY <2>1
  <2>b. SubSeq(r, 1, 1) \in Seq(Tokens) /\ Len(SubSeq(r, 1, 1)) = 1 /\ SubSeq(r, 1, 1)[1] = x
    BY <1>1, <1>2, <1>3, <2>1
  <2>c. \A i \in 1..1 : i = 1
    OBVIOUS
  <2>3. SubSeq(<<x>>, 1, 1) = <<x>> /\ SubSeq(r, 1, 1) = <<x>>
    BY <2>a, <2>b, <2>c, SeqEqual, SubSeqFull
  <2>4. IsPrefix(<<x>>, r)
    BY <1>1, <1>2, <1>3, <2>3 DEF IsPrefix
  <2>5. EndsWith(s, <<x>>)
    BY <2>2, <2>4 DEF EndsWith, IsSuffix, r
  <2>6. QED
    BY <2>5 DEF x
<1>4. ASSUME Len(s) >= 2 PROVE EndsWith(s, <<s[Len(s) - 1], s[Len(s)]>>)
  <2> DEFINE x == s[Len(s)]
             y == s[Len(s) - 1]
  <2>1. r[1] = x /\ r[2] = y /\ x \in Tokens /\ y \in Tokens
    BY <1>1, <1>2, <1>4
  <2> HIDE DEF x, y
  <2>2. Reverse(<<y, x>>) = <<x, y>>
    BY DEF Reverse
  <2>a. <<x, y>> \in Seq(Tokens) /\ Len(<<x, y>>) = 2 /\ <<x, y>>[1] = x /\ <<x, y>>[2] = y
    BY <2>1
  <2>b. /\ SubSeq(r, 1, 2) \in Seq(Tokens) /\ Len(SubSeq(r, 1, 2)) = 2
        /\ SubSeq(r, 1, 2)[1] = x /\ SubSeq(r, 1, 2)[2] = y
    BY <1>1, <1>2, <1>4, <2>1
  <2>c. \A i \in 1..2 : i = 1 \/ i = 2
    OBVIOUS
  <2>3. SubSeq(<<x, y>>, 1, 2) = <<x, y>> /\ SubSeq(r, 1, 2) = <<x, y>>
    BY <2>a, <2>b, <2>c, SeqEqual, SubSeqFull
  <2>4. IsPrefix(<<x, y>>, r)
    BY <1>1, <1>2, <1>4, <2>3 DEF IsPrefix
  <2>5. EndsWith(s, <<y, x>>)
    BY <2>2, <2>4 DEF EndsWith, IsSuffix, r
  <2>6. QED
    BY <2>5 DEF x, y
<1>5. QED
  BY <1>3, <1>4

(* A slice of a text.                                                      *)
LEMMA SliceIs ==
    ASSUME NEW t \in Texts, NEW a \in 0..Len(t), NEW b \in a..Len(t)
    PROVE  /\ Slice(t, <<a, b>>) \in Texts /\ Len(Slice(t, <<a, b>>)) = b - a
           /\ \A i \in 1 .. b - a : Slice(t, <<a, b>>)[i] = t[a + i]
<1>1. Len(t) \in Nat /\ t \in Seq(Tokens)
  BY DEF Texts
<1>2. Slice(t, <<a, b>>) = SubSeq(t, a + 1, b)
  BY DEF Slice
<1>3. /\ SubSeq(t, a + 1, b) \in Seq(Tokens) /\ Len(SubSeq(t, a + 1, b)) = b - a
      /\ \A i \in 1 .. b - a : SubSeq(t, a + 1, b)[i] = t[a + i]
  BY <1>1
<1>4. QED
  BY <1>2, <1>3 DEF Texts

(* The blank lines a span begins with end at the first other line, and     *)
(* those it ends with begin behind the last other line.                    *)
LEMMA LeadEndIs ==
    ASSUME NEW t, NEW a \in Nat, NEW b \in Nat, a <= b
    PROVE  /\ LeadEnd(t, a, b) \in a..b
           /\ \A q \in a + 1 .. LeadEnd(t, a, b) : t[q] = NL
           /\ LeadEnd(t, a, b) = b \/ t[LeadEnd(t, a, b) + 1] # NL
<1> DEFINE S == {p \in a..b : p = b \/ t[p + 1] # NL}
           Good(p) == /\ \A q \in a + 1 .. p : t[q] = NL
                      /\ p = b \/ t[p + 1] # NL
<1>1. S \in SUBSET Nat /\ b \in S
  OBVIOUS
<1>2. PICK p \in S : \A r \in S : p <= r
  <2> HIDE DEF S
  <2>1. QED
    BY <1>1, Taking!Least
<1>3. ASSUME NEW q \in a + 1 .. p, t[q] # NL PROVE FALSE
  <2>1. q - 1 \in a..b /\ q - 1 + 1 = q /\ q - 1 < p
    BY <1>2
  <2>2. q - 1 \in S
    BY <1>3, <2>1
  <2>3. QED
    BY <1>2, <2>1, <2>2
<1>4. p \in a..b /\ Good(p)
  BY <1>2, <1>3
<1>5. LeadEnd(t, a, b) = CHOOSE r \in a..b : Good(r)
  BY DEF LeadEnd
<1> HIDE DEF Good
<1>6. LeadEnd(t, a, b) \in a..b /\ Good(LeadEnd(t, a, b))
  BY <1>4, <1>5
<1>7. QED
  BY <1>6 DEF Good

EndsAt(t, a, b, z) ==
    /\ \A q \in z + 1 .. b : t[q] = NL
    /\ z = a \/ t[z] # NL
    /\ TrailStart(t, a, b) = IF z \in {a, b} THEN z ELSE z + 1

(* There is such a place in every span.                                    *)
LEMMA TrailStartIs ==
    ASSUME NEW t, NEW a \in Nat, NEW b \in Nat, a <= b
    PROVE  \E z \in a..b : EndsAt(t, a, b, z)
<1> DEFINE Good(p) == /\ \A q \in p + 1 .. b : t[q] = NL
                      /\ p = a \/ t[p] # NL
           u == {m \in Nat : \E p \in a..b : m = b - p /\ (p = a \/ t[p] # NL)}
           z == CHOOSE p \in a..b : Good(p)
<1>1. b - a \in u
  OBVIOUS
<1>2. PICK m \in u : \A r \in u : m <= r
  <2>1. u \in SUBSET Nat /\ u # {}
    BY <1>1
  <2> HIDE DEF u
  <2>2. QED
    BY <2>1, Taking!Least
<1>3. PICK p \in a..b : m = b - p /\ (p = a \/ t[p] # NL)
  OBVIOUS
<1>4. ASSUME NEW q \in p + 1 .. b, t[q] # NL PROVE FALSE
  <2>1. q \in a..b /\ b - q \in Nat /\ b - q < b - p
    BY <1>3
  <2>2. b - q \in u
    BY <1>4, <2>1
  <2>3. m <= b - q
    BY <1>2, <2>2
  <2>4. QED
    BY <1>3, <2>1, <2>3
<1>5. Good(p)
  BY <1>3, <1>4
<1>6. z \in a..b /\ Good(z)
  <2> HIDE DEF Good
  <2>1. QED
    BY <1>3, <1>5
<1>7. TrailStart(t, a, b) = IF z \in {a, b} THEN z ELSE z + 1
  BY DEF TrailStart
<1> HIDE DEF z
<1>8. EndsAt(t, a, b, z)
  BY <1>6, <1>7 DEF EndsAt
<1>9. QED
  BY <1>6, <1>8

(* The content of a section given back as it is replaces itself: it needs   *)
(* no separator in front or behind, and no seam twice.                     *)
THEOREM EchoReplacesItself ==
    ASSUME NEW t \in Texts, NEW a, NEW b, AtLine(t, a), AtLine(t, b), a <= b
    PROVE  Replacement(Slice(t, <<a, b>>), t, a, b) = Slice(t, <<a, b>>)
<1> DEFINE c == Slice(t, <<a, b>>)
           lead == LeadEnd(t, a, b)
           seams == Seams(t, a, b)
<1>0. Len(t) \in Nat /\ a \in Nat /\ b \in Nat /\ b <= Len(t)
  BY DEF AtLine, Texts
<1>1. c \in Texts /\ Len(c) = b - a /\ \A i \in 1 .. b - a : c[i] = t[a + i]
  BY <1>0, SliceIs
<1> DEFINE led == IF seams[1] # <<>> /\ ~StartsBlank(c) THEN seams[1] \o c ELSE c
           split == IF a > 0 /\ t[a] # NL THEN <<NL>> \o led ELSE led
           ended == IF /\ ~EndsWith(split, <<NL>>)
                       /\ \/ b < Len(t) /\ t[b + 1] # NL
                          \/ b > a /\ t[b] = NL
                    THEN Append(split, NL) ELSE split
<1>2. Replacement(c, t, a, b) = IF c = <<>> THEN <<>>
                                ELSE IF EndsBlank(ended) THEN ended ELSE ended \o seams[2]
  BY DEF Replacement
<1> HIDE DEF c
<1> SUFFICES ASSUME c # <<>> PROVE Replacement(c, t, a, b) = c
  BY <1>2 DEF c
<1>3. a < b
  <2>1. Len(c) # 0
    BY <1>1 DEF Texts
  <2>2. QED
    BY <1>0, <1>1, <2>1
<1>4. /\ lead \in a..b
      /\ \A q \in a + 1 .. lead : t[q] = NL
      /\ lead = b \/ t[lead + 1] # NL
  BY <1>0, <1>3, LeadEndIs
<1> HIDE DEF lead
<1>5. Head(c) = t[a + 1] /\ c[Len(c)] = t[b] /\ (b - a >= 2 => c[Len(c) - 1] = t[b - 1])
  <2>1. c[1] = t[a + 1] /\ c[b - a] = t[a + (b - a)] /\ (b - a >= 2 => c[b - a - 1] = t[a + (b - a - 1)])
    BY <1>0, <1>1, <1>3
  <2>2. a + (b - a) = b /\ a + (b - a - 1) = b - 1
    BY <1>0
  <2>3. Head(c) = c[1]
    BY <1>1 DEF Texts
  <2>4. QED
    BY <1>1, <2>1, <2>2, <2>3
<1>6. lead = b => seams[2] = SubSeq(t, a + 1, a + 1) /\ seams[1] = SubSeq(t, a + 1, a + 1)
  BY <1>0, <1>3 DEF Seams, lead
<1>7. lead # b => /\ seams[1] = Slice(t, <<a, lead>>)
                  /\ seams[2] = Slice(t, <<TrailStart(t, lead, b), b>>)
  BY DEF Seams, lead
<1> HIDE DEF seams
<1>8. led = c
  <2>1. ASSUME seams[1] # <<>> PROVE t[a + 1] = NL
    <3>1. CASE lead = b
      BY <1>0, <1>3, <1>4, <3>1
    <3>2. CASE lead # b
      <4>1. lead \in a..Len(t) /\ a \in 0..Len(t)
        BY <1>0, <1>4
      <4>2. Len(seams[1]) = lead - a /\ seams[1] \in Seq(Tokens)
        BY <1>7, <3>2, <4>1, SliceIs DEF Texts
      <4>3. lead # a
        BY <1>0, <2>1, <4>2
      <4>4. a + 1 \in a + 1 .. lead
        BY <1>0, <1>4, <4>3
      <4>5. QED
        BY <1>4, <4>4
    <3>3. QED
      BY <3>1, <3>2
  <2>2. seams[1] # <<>> => StartsBlank(c)
    BY <1>5, <2>1 DEF StartsBlank
  <2>3. QED
    BY <2>2
<1>9. split = c
  <2>1. a = 0 \/ t[a] = NL
    BY <1>0, <1>3 DEF AtLine
  <2> HIDE DEF led
  <2>2. QED
    BY <1>0, <1>8, <2>1
<1>10. Len(c) >= 1
  BY <1>0, <1>1, <1>3
<1>11. t[b] = NL => EndsWith(c, <<NL>>)
  BY <1>1, <1>5, <1>10, EndsWithItsEnd
<1>12. ended = c
  <2>1. b = Len(t) \/ t[b] = NL
    BY <1>0, <1>3 DEF AtLine
  <2> HIDE DEF split
  <2>2. QED
    BY <1>0, <1>9, <1>11, <2>1
<1>13. (b - a >= 2 /\ t[b] = NL /\ t[b - 1] = NL) => EndsBlank(c)
  BY <1>1, <1>5, EndsWithItsEnd DEF EndsBlank
<1>14. EndsBlank(c) \/ c \o seams[2] = c
  <2>0. c \in Seq(Tokens)
    BY <1>1 DEF Texts
  <2>1. CASE lead = b
    <3>1. CASE b - a >= 2
      <4>1. b \in a + 1 .. lead /\ b - 1 \in a + 1 .. lead
        BY <1>0, <2>1, <3>1
      <4>2. QED
        BY <1>4, <1>13, <3>1, <4>1
    <3>2. CASE ~(b - a >= 2)
      <4>1. b = a + 1 /\ b \in a + 1 .. lead
        BY <1>0, <1>3, <2>1, <3>2
      <4>2. Len(c) = 1 /\ c[1] = NL
        BY <1>0, <1>1, <1>4, <1>5, <4>1
      <4>3. c = <<NL>>
        BY <2>0, <4>2
      <4>4. QED
        BY <4>3 DEF EndsBlank
    <3>3. QED
      BY <3>1, <3>2
  <2>2. CASE lead # b
    <3>0. lead \in Nat /\ lead < b /\ a <= lead
      BY <1>0, <1>4, <2>2
    <3>a. lead \in Nat /\ b \in Nat /\ lead <= b
      BY <1>0, <3>0
    <3>b. PICK z \in lead..b : EndsAt(t, lead, b, z)
      BY <3>a, TrailStartIs
    <3>1. /\ \A q \in z + 1 .. b : t[q] = NL
          /\ z = lead \/ t[z] # NL
          /\ TrailStart(t, lead, b) = IF z \in {lead, b} THEN z ELSE z + 1
      BY <3>b DEF EndsAt
    <3>2. z # lead
      <4>1. lead + 1 \in lead + 1 .. b
        BY <1>0, <3>0
      <4>2. QED
        BY <1>4, <2>2, <3>1, <4>1
    <3>3. CASE z = b \/ z + 1 = b
      <4>1. TrailStart(t, lead, b) = b
        BY <3>1, <3>2, <3>3
      <4>2. seams[2] = Slice(t, <<b, b>>)
        BY <1>7, <2>2, <4>1
      <4>3. Len(seams[2]) = 0 /\ seams[2] \in Seq(Tokens)
        BY <1>0, <4>2, SliceIs DEF Texts
      <4>4. seams[2] = <<>>
        BY <4>3
      <4>5. QED
        BY <2>0, <4>4
    <3>4. CASE ~(z = b \/ z + 1 = b)
      <4>1. z \in Nat /\ z + 2 <= b /\ a <= z
        BY <1>0, <3>0, <3>1, <3>4
      <4>2. b \in z + 1 .. b /\ b - 1 \in z + 1 .. b /\ b - a >= 2
        BY <1>0, <4>1
      <4>3. QED
        BY <1>13, <3>1, <4>2
    <3>5. QED
      BY <3>3, <3>4
  <2>3. QED
    BY <2>1, <2>2
<1> HIDE DEF ended
<1>15. QED
  BY <1>2, <1>12, <1>14

-----------------------------------------------------------------------------
(* Splices in their order. *)

(* Splice j goes in front of splice k. *)
Ahead(ss, j, k) ==
    \/ ss[j].start < ss[k].start
    \/ ss[j].start = ss[k].start /\ ss[j].stop < ss[k].stop
    \/ ss[j].start = ss[k].start /\ ss[j].stop = ss[k].stop /\ j < k

(* p lists the indices of the N splices in the order the sorting gives.    *)
IsOrder(p, ss, N) ==
    /\ p \in [1..N -> 1..N] /\ \A k \in 1..N : \E n \in 1..N : p[n] = k
    /\ Sorted(ss) = [n \in 1..N |-> ss[p[n]]]
    /\ \A m, n \in 1..N : m < n => Ahead(ss, p[m], p[n])

(* Splices can be put in this order, whatever their number.                *)
LEMMA SortedIs ==
    ASSUME NEW N \in Nat, NEW ss, DOMAIN ss = 1..N,
           \A k \in 1..N : ss[k].start \in Nat /\ ss[k].stop \in Nat
    PROVE  \E p : IsOrder(p, ss, N)
<1> DEFINE D == 1..N
           Lower(k) == {j \in D : Ahead(ss, j, k)}
           rank == [k \in D |-> Cardinality(Lower(k)) + 1]
           p == [n \in D |-> CHOOSE k \in D : rank[k] = n]
<1>1. IsFiniteSet(D) /\ Cardinality(D) = N
  BY FS_Interval
<1>2. \A j, k \in D : j # k => Ahead(ss, j, k) \/ Ahead(ss, k, j)
  BY DEF Ahead
<1>3. \A j, k \in D : ~(Ahead(ss, j, k) /\ Ahead(ss, k, j)) /\ ~Ahead(ss, k, k)
  BY DEF Ahead
<1>4. \A i, j, k \in D : Ahead(ss, i, j) /\ Ahead(ss, j, k) => Ahead(ss, i, k)
  BY DEF Ahead
<1>5. \A k \in D : /\ Lower(k) \in SUBSET D /\ k \notin Lower(k)
                   /\ IsFiniteSet(Lower(k)) /\ Cardinality(Lower(k)) \in Nat
  <2> SUFFICES ASSUME NEW k \in D
               PROVE /\ Lower(k) \in SUBSET D /\ k \notin Lower(k)
                     /\ IsFiniteSet(Lower(k)) /\ Cardinality(Lower(k)) \in Nat
    OBVIOUS
  <2>1. Lower(k) \in SUBSET D /\ k \notin Lower(k)
    BY <1>3
  <2> HIDE DEF Lower, D
  <2>2. IsFiniteSet(Lower(k))
    BY <1>1, <2>1, FS_Subset
  <2>3. QED
    BY <2>1, <2>2, FS_CardinalityType
<1>6. ASSUME NEW j \in D, NEW k \in D, Ahead(ss, j, k)
      PROVE  rank[j] < rank[k]
  <2>1. Lower(j) \subseteq Lower(k) /\ j \in Lower(k) /\ j \notin Lower(j)
    BY <1>3, <1>4, <1>6
  <2>2. rank[j] = Cardinality(Lower(j)) + 1 /\ rank[k] = Cardinality(Lower(k)) + 1
    OBVIOUS
  <2> HIDE DEF Lower, D, rank
  <2>3. IsFiniteSet(Lower(k)) /\ Cardinality(Lower(j)) \in Nat /\ Cardinality(Lower(k)) \in Nat
    BY <1>5
  <2>4. Cardinality(Lower(j)) <= Cardinality(Lower(k)) /\ Cardinality(Lower(j)) # Cardinality(Lower(k))
    BY <2>1, <2>3, FS_Subset
  <2>5. QED
    BY <2>2, <2>3, <2>4
<1>7. rank \in [D -> D]
  <2> SUFFICES ASSUME NEW k \in D PROVE rank[k] \in D
    OBVIOUS
  <2>1. rank[k] = Cardinality(Lower(k)) + 1
    OBVIOUS
  <2>2. Cardinality(Lower(k)) \in Nat /\ Cardinality(Lower(k)) < N
    <3> HIDE DEF Lower, D, rank
    <3>1. Lower(k) \in SUBSET D /\ Lower(k) # D /\ Cardinality(Lower(k)) \in Nat
      BY <1>5
    <3>2. Cardinality(Lower(k)) <= Cardinality(D) /\ Cardinality(Lower(k)) # Cardinality(D)
      BY <1>1, <3>1, FS_Subset
    <3>3. QED
      BY <1>1, <3>1, <3>2
  <2> HIDE DEF Lower, rank
  <2>3. QED
    BY <2>1, <2>2
<1>8. \A j, k \in D : rank[j] = rank[k] => j = k
  <2>1. \A j \in D : rank[j] \in Nat
    BY <1>7
  <2> HIDE DEF rank, Lower
  <2>2. QED
    BY <1>2, <1>6, <2>1
<1>9. \A n \in D : \E k \in D : rank[k] = n
  <2> HIDE DEF rank, D
  <2>1. rank \in Injection(D, D)
    BY <1>7, <1>8 DEF Injection, IsInjective
  <2>2. rank \in Surjection(D, D)
    BY <1>1, <2>1, FS_Injection
  <2>3. QED
    BY <2>2 DEF Surjection
<1>10. \A n \in D : p[n] \in D /\ rank[p[n]] = n
  <2> HIDE DEF rank, D
  <2> SUFFICES ASSUME NEW n \in D PROVE p[n] \in D /\ rank[p[n]] = n
    OBVIOUS
  <2>1. p[n] = CHOOSE k \in D : rank[k] = n
    OBVIOUS
  <2>2. QED
    BY <1>9, <2>1
<1>11. Sorted(ss) = [n \in D |-> ss[p[n]]]
  <2> DEFINE rk(k) == Cardinality(Lower(k)) + 1
  <2>1. Sorted(ss) = [n \in D |-> ss[CHOOSE k \in D : rk(k) = n]]
    BY DEF Sorted, Ahead
  <2>2. \A k \in D : rank[k] = rk(k)
    OBVIOUS
  <2>3. \A n \in D : p[n] = CHOOSE k \in D : rk(k) = n
    <3> HIDE DEF rk, rank, D
    <3> SUFFICES ASSUME NEW n \in D PROVE p[n] = CHOOSE k \in D : rk(k) = n
      OBVIOUS
    <3>1. p[n] = CHOOSE k \in D : rank[k] = n
      OBVIOUS
    <3>2. \A k : (k \in D /\ rank[k] = n) <=> (k \in D /\ rk(k) = n)
      BY <2>2
    <3>3. QED
      BY <3>1, <3>2
  <2> HIDE DEF rk, p, D
  <2>4. QED
    BY <2>1, <2>3
<1>12. \A k \in D : \E n \in D : p[n] = k
  <2> HIDE DEF p, rank, D
  <2>1. \A k \in D : rank[k] \in D /\ p[rank[k]] \in D /\ rank[p[rank[k]]] = rank[k]
    BY <1>7, <1>10
  <2>2. QED
    BY <1>8, <2>1
<1>13. ASSUME NEW m \in D, NEW n \in D, m < n PROVE Ahead(ss, p[m], p[n])
  <2> HIDE DEF p, rank, Lower
  <2>1. p[m] \in D /\ p[n] \in D /\ rank[p[m]] = m /\ rank[p[n]] = n
    BY <1>10
  <2>2. p[m] # p[n]
    BY <1>13, <2>1
  <2>3. ~Ahead(ss, p[n], p[m])
    BY <1>6, <1>13, <2>1
  <2>4. QED
    BY <1>2, <2>1, <2>2, <2>3
<1>14. p \in [D -> D]
  <2> HIDE DEF D, rank
  <2>1. QED
    BY <1>10
<1> HIDE DEF p
<1>15. IsOrder(p, ss, N)
  BY <1>11, <1>12, <1>13, <1>14 DEF IsOrder
<1>16. QED
  BY <1>15

(* The highest of a set of indices.                                        *)
LEMMA HighestIs ==
    ASSUME NEW N \in Nat, NEW t \in SUBSET (1..N), t # {}
    PROVE  Highest(t) \in t /\ \A m \in t : m <= Highest(t)
<1>1. PICK x \in t : \A y \in t : x >= y
  BY Taking!Extremes
<1>2. PICK z : z = Highest(t)
  OBVIOUS
<1>3. z \in t /\ \A y \in t : z >= y
  BY <1>1, <1>2 DEF Highest, Max
<1>4. QED
  BY <1>2, <1>3

Splicing == INSTANCE Folding WITH Then <- Spliced, Pick <- Highest

(* The texts while the splices o are applied to t from the last on. *)
Backwards(x, o, t, N) == x[N] = t /\ \A k \in 1..N : x[k - 1] = Spliced(x[k], o[k])

(* Applied is the text that is left when the first of them is done.        *)
LEMMA AppliedIsChain ==
    ASSUME NEW N \in Nat, NEW ss, NEW t, NEW o, o = Sorted(ss), o \in Seq(Range(o)), Len(o) = N
    PROVE  \E x : Backwards(x, o, t, N) /\ Applied(t, ss) = x[0]
<1> DEFINE s == Reverse(o)
           f == CHOOSE g : Splicing!IsFold(g, s, t, DOMAIN s)
<1>1. DOMAIN s = 1..N /\ \A n \in 1..N : s[n] = o[N - n + 1]
  BY DEF Reverse
<1> HIDE DEF s
<1>2. FoldLeft(Spliced, t, s) = f[DOMAIN s]
  BY DEF FoldLeft, MapThenFoldSet, Splicing!IsFold, Splicing!Turn, Highest
<1>3. f = CHOOSE g : Splicing!IsFold(g, s, t, 1..N)
  BY <1>1
<1> HIDE DEF f
<1>4. \A u \in SUBSET (1..N) : u # {} => Highest(u) \in u
  BY HighestIs
<1>5. Splicing!IsFold(f, s, t, 1..N)
  BY <1>3, <1>4, Splicing!FoldExists
<1>6. Splicing!PicksLast(N)
  BY HighestIs DEF Splicing!PicksLast
<1>7. PICK c : Splicing!Onwards(c, s, t, N) /\ f[1..N] = c[N]
  BY <1>5, <1>6, Splicing!LeftIsChain
<1> DEFINE x == [k \in 0..N |-> c[N - k]]
<1>8. x[N] = t /\ x[0] = c[N]
  BY <1>7 DEF Splicing!Onwards
<1>9. ASSUME NEW k \in 1..N PROVE x[k - 1] = Spliced(x[k], o[k])
  <2> DEFINE n == N - k + 1
  <2>1. n \in 1..N /\ n - 1 = N - k /\ N - n + 1 = k /\ N - (k - 1) = n
    OBVIOUS
  <2>2. x[k - 1] = c[n] /\ x[k] = c[n - 1]
    BY <2>1
  <2> HIDE DEF x, n
  <2>3. c[n] = Spliced(c[n - 1], s[n]) /\ s[n] = o[k]
    BY <1>1, <1>7, <2>1 DEF Splicing!Onwards
  <2>4. QED
    BY <2>2, <2>3
<1>10. Applied(t, ss) = x[0]
  <2>1. Applied(t, ss) = FoldLeft(Spliced, t, s)
    BY DEF Applied, s
  <2>2. QED
    BY <1>1, <1>2, <1>7, <1>8, <2>1
<1> HIDE DEF x
<1>11. QED
  BY <1>8, <1>9, <1>10 DEF Backwards

Glue(x, y) == x \o y
Gluing == INSTANCE Folding WITH Then <- Glue, Pick <- Highest

(* q consists of N sequences; the sequences of q glued together one after  *)
(* the other.                                                              *)
Pieces(q, N, S) == (N = 0 => q = <<>>) /\ \A k \in 1..N : q[k] \in Seq(S)
IsGlued(c, q, N, S) ==
    /\ c[0] = <<>> /\ \A k \in 1..N : c[k] = c[k - 1] \o q[k]
    /\ \A k \in 0..N : c[k] \in Seq(S)

(* There are such sequences, and FlattenSeq is the last.                   *)
LEMMA FlattenIs ==
    ASSUME NEW S, NEW N \in Nat, NEW q, Len(q) = N, Pieces(q, N, S)
    PROVE  \E c : IsGlued(c, q, N, S) /\ FlattenSeq(q) = c[N]
<1> DEFINE IsFlat(f) == f = [i \in 1..N |-> IF i = 1 THEN q[i] ELSE f[i - 1] \o q[i]]
           f == CHOOSE g : IsFlat(g)
<1>1. \A k \in 1..N : q[k] \in Seq(S)
  BY DEF Pieces
<1>a. N \in Nat
  OBVIOUS
<1>b. N = 0 => q = <<>>
  BY DEF Pieces
<1>c. FlattenSeq(q) = IF N = 0 THEN q ELSE f[N]
  BY DEF FlattenSeq
<1> HIDE DEF f
<1>2. PICK c : Gluing!IsUnrolled(c, q, <<>>, N)
  BY <1>a, Gluing!Unrolls
<1>d. c[0] = <<>>
  BY <1>a, <1>2 DEF Gluing!IsUnrolled
<1>3. \A k \in 1..N : c[k] = c[k - 1] \o q[k]
  <2> SUFFICES ASSUME NEW k \in 1..N PROVE c[k] = c[k - 1] \o q[k]
    OBVIOUS
  <2>1. k \in 0..N /\ k # 0
    BY <1>a
  <2>2. c[k] = Glue(c[k - 1], q[k])
    BY <1>2, <2>1 DEF Gluing!IsUnrolled
  <2>3. QED
    BY <2>2 DEF Glue
<1>e. ASSUME NEW k \in Nat, k + 1 <= N
      PROVE  c[k + 1] = c[k] \o q[k + 1] /\ q[k + 1] \in Seq(S) /\ k + 1 \in 1..N
  <2>1. k + 1 \in 1..N
    BY <1>a, <1>e
  <2>2. c[k + 1] = c[(k + 1) - 1] \o q[k + 1]
    BY ONLY <1>3, <2>1, Zenon
  <2>3. (k + 1) - 1 = k
    BY ONLY k \in Nat
  <2>4. q[k + 1] \in Seq(S)
    BY ONLY <1>1, <2>1, Zenon
  <2>5. c[k + 1] = c[k] \o q[k + 1]
    BY ONLY <2>2, <2>3
  <2>6. QED
    BY <2>1, <2>4, <2>5
<1>4. \A k \in Nat : k <= N => c[k] \in Seq(S)
  <2> DEFINE P(k) == k <= N => c[k] \in Seq(S)
             T == {k \in Nat : P(k)}
  <2>1. P(0)
    <3>1. <<>> \in Seq(S)
      OBVIOUS
    <3>2. QED
      BY ONLY <1>d, <3>1
  <2>2. ASSUME NEW k \in Nat, P(k) PROVE P(k + 1)
    <3> SUFFICES ASSUME k + 1 <= N PROVE c[k + 1] \in Seq(S)
      OBVIOUS
    <3>1. k <= N
      BY <1>a
    <3>2. c[k] \in Seq(S)
      BY <2>2, <3>1
    <3>3. c[k + 1] = c[k] \o q[k + 1] /\ q[k + 1] \in Seq(S)
      BY <1>e
    <3>4. QED
      BY ONLY <3>2, <3>3
  <2> HIDE DEF P
  <2>3. \A k \in T : k + 1 \in T
    BY <2>2
  <2>4. 0 \in T /\ T \in SUBSET Nat
    BY <2>1
  <2> HIDE DEF T
  <2>5. T = Nat
    BY ONLY <2>3, <2>4, Taking!Grows
  <2>6. QED
    BY <2>5 DEF T, P
<1>6. ASSUME N # 0 PROVE f[N] = c[N]
  <2> DEFINE e == [k \in 1..N |-> c[k]]
  <2>1. ASSUME NEW i \in 1..N PROVE e[i] = IF i = 1 THEN q[i] ELSE e[i - 1] \o q[i]
    <3>1. i - 1 \in Nat /\ (i - 1) + 1 = i /\ i <= N
      BY <1>a
    <3>2. c[i] = c[i - 1] \o q[i] /\ q[i] \in Seq(S)
      BY <1>e, <3>1
    <3>3. CASE i = 1
      <4>1. c[i - 1] = <<>>
        BY ONLY <1>d, <3>3
      <4>a. c[i] = <<>> \o q[i]
        BY ONLY <3>2, <4>1, Zenon
      <4>2. <<>> \o q[i] = q[i]
        BY ONLY <3>2
      <4>3. QED
        BY <3>3, <4>a, <4>2
    <3>4. CASE i # 1
      <4>1. i - 1 \in 1..N
        BY <1>a, <3>4
      <4>2. e[i - 1] = c[i - 1] /\ e[i] = c[i]
        BY <4>1
      <4>3. QED
        BY ONLY <3>2, <3>4, <4>2
    <3>5. QED
      BY <3>3, <3>4
  <2>2. e = [i \in 1..N |-> e[i]]
    OBVIOUS
  <2> HIDE DEF e
  <2>3. e = [i \in 1..N |-> IF i = 1 THEN q[i] ELSE e[i - 1] \o q[i]]
    BY <2>1, <2>2
  <2>4. IsFlat(e)
    BY <2>3
  <2>5. IsFlat(f)
    <3> HIDE DEF IsFlat
    <3>1. QED
      BY <2>4 DEF f
  <2>6. \A i \in 1..N : f[i] = IF i = 1 THEN q[i] ELSE f[i - 1] \o q[i]
    BY <2>5
  <2>7. \A i \in 1..N : e[i] = c[i]
    BY DEF e
  <2> HIDE DEF f, IsFlat
  <2> DEFINE P(k) == (1 <= k /\ k <= N) => f[k] = e[k]
             U == {k \in Nat : P(k)}
  <2>8. P(0)
    OBVIOUS
  <2>9. ASSUME NEW k \in Nat, P(k) PROVE P(k + 1)
    <3> SUFFICES ASSUME k + 1 <= N PROVE f[k + 1] = e[k + 1]
      OBVIOUS
    <3>1. k + 1 \in 1..N /\ (k + 1) - 1 = k
      BY <1>a
    <3>2. f[k + 1] = IF k + 1 = 1 THEN q[k + 1] ELSE f[(k + 1) - 1] \o q[k + 1]
      BY ONLY <2>6, <3>1, Zenon
    <3>3. e[k + 1] = IF k + 1 = 1 THEN q[k + 1] ELSE e[(k + 1) - 1] \o q[k + 1]
      BY ONLY <2>1, <3>1, Zenon
    <3>4. k # 0 => f[k] = e[k]
      BY <1>a, <2>9, <3>1
    <3>5. QED
      BY ONLY k \in Nat, <3>1, <3>2, <3>3, <3>4
  <2> HIDE DEF P
  <2>10. \A k \in U : k + 1 \in U
    BY <2>9
  <2>11. 0 \in U /\ U \in SUBSET Nat
    BY <2>8
  <2> HIDE DEF U
  <2>12. U = Nat
    BY ONLY <2>10, <2>11, Taking!Grows
  <2>13. P(N)
    BY <1>a, <2>12 DEF U
  <2>14. N \in 1..N
    BY <1>a, <1>6
  <2>15. QED
    BY <2>7, <2>13, <2>14 DEF P
<1>7. IsGlued(c, q, N, S)
  <2>1. \A k \in 0..N : c[k] \in Seq(S)
    BY <1>4
  <2>2. QED
    BY <1>3, <1>d, <2>1 DEF IsGlued
<1>8. FlattenSeq(q) = c[N]
  BY <1>b, <1>c, <1>d, <1>6
<1>9. QED
  BY <1>7, <1>8

-----------------------------------------------------------------------------
(* One splice, and the section that is given back as it was read. *)

(* A splice that begins within a text makes a text of it.                  *)
LEMMA SplicedIs ==
    ASSUME NEW t \in Texts, NEW s, s.start \in 0..Len(t), s.stop \in Nat, s.text \in Texts
    PROVE  Spliced(t, s) \in Texts
<1> DEFINE x == SubSeq(t, 1, s.start)
           y == SubSeq(t, s.stop + 1, Len(t))
<1>1. t \in Seq(Tokens) /\ Len(t) \in Nat /\ s.text \in Seq(Tokens)
  BY DEF Texts
<1>2. x \in Seq(Tokens) /\ y \in Seq(Tokens)
  <2>1. \A i \in 1..s.start : t[i] \in Tokens
    BY <1>1
  <2>2. \A i \in s.stop + 1 .. Len(t) : t[i] \in Tokens
    BY <1>1
  <2>3. QED
    BY <1>1, <2>1, <2>2, SubSeqProperties
<1>3. Spliced(t, s) = x \o s.text \o y
  BY DEF Spliced
<1> HIDE DEF x, y
<1>4. x \o s.text \o y \in Seq(Tokens)
  BY <1>1, <1>2
<1>5. QED
  BY <1>3, <1>4 DEF Texts

(* Two sequences put together.                                             *)
LEMMA JoinIs ==
    ASSUME NEW S, NEW x \in Seq(S), NEW y \in Seq(S)
    PROVE  /\ x \o y \in Seq(S) /\ Len(x \o y) = Len(x) + Len(y) /\ Len(x \o y) \in Nat
           /\ \A i \in 1..Len(x) : (x \o y)[i] = x[i]
           /\ \A i \in 1..Len(y) : (x \o y)[Len(x) + i] = y[i]
<1>1. Len(x) \in Nat /\ Len(y) \in Nat
  OBVIOUS
<1>2. x \o y \in Seq(S) /\ Len(x \o y) = Len(x) + Len(y)
  OBVIOUS
<1>3. \A i \in 1..Len(x) : (x \o y)[i] = x[i]
  OBVIOUS
<1>4. ASSUME NEW i \in 1..Len(y) PROVE (x \o y)[Len(x) + i] = y[i]
  <2>1. Len(x) + i > Len(x) /\ Len(x) + i <= Len(x) + Len(y) /\ Len(x) + i - Len(x) = i
    BY <1>1
  <2>2. QED
    BY <2>1
<1>5. QED
  BY <1>1, <1>2, <1>3, <1>4

(* What goes on with y after x is x and y put together.                    *)
LEMMA JoinedIs ==
    ASSUME NEW S, NEW x \in Seq(S), NEW y \in Seq(S), NEW z \in Seq(S), Len(z) = Len(x) + Len(y),
           \A k \in 1..Len(x) : z[k] = x[k],
           \A k \in 1..Len(y) : z[Len(x) + k] = y[k]
    PROVE  x \o y = z
<1> DEFINE w == x \o y
<1>1. /\ w \in Seq(S) /\ Len(w) = Len(x) + Len(y)
      /\ \A k \in 1..Len(x) : w[k] = x[k]
      /\ \A k \in 1..Len(y) : w[Len(x) + k] = y[k]
  BY ONLY x \in Seq(S), y \in Seq(S), JoinIs
<1>2. Len(x) \in Nat /\ Len(y) \in Nat
  OBVIOUS
<1> HIDE DEF w
<1>3. ASSUME NEW k \in 1..Len(z) PROVE w[k] = z[k]
  <2>1. CASE k \in 1..Len(x)
    BY <1>1, <2>1
  <2>2. CASE k \notin 1..Len(x)
    <3> DEFINE j == k - Len(x)
    <3>1. j \in 1..Len(y) /\ Len(x) + j = k
      BY <1>2, <2>2
    <3> HIDE DEF j
    <3>2. w[Len(x) + j] = z[Len(x) + j]
      BY <1>1, <3>1
    <3>3. QED
      BY <3>1, <3>2
  <2>3. QED
    BY <2>1, <2>2
<1>4. w = z
  BY <1>1, <1>3
<1>5. QED
  BY <1>4 DEF w

(* A text that is cut at two places and put together again is as it was.   *)
LEMMA CutTogether ==
    ASSUME NEW t \in Texts, NEW a \in 0..Len(t), NEW b \in a..Len(t)
    PROVE  SubSeq(t, 1, a) \o SubSeq(t, a + 1, b) \o SubSeq(t, b + 1, Len(t)) = t
<1> DEFINE x == SubSeq(t, 1, a)
           y == SubSeq(t, a + 1, b)
           z == SubSeq(t, b + 1, Len(t))
           u == x \o y \o z
<1>1. t \in Seq(Tokens) /\ Len(t) \in Nat
  BY DEF Texts
<1>2. x \in Seq(Tokens) /\ Len(x) = a /\ \A i \in 1..a : x[i] = t[i]
  BY <1>1
<1>3. y \in Seq(Tokens) /\ Len(y) = b - a /\ \A i \in 1 .. b - a : y[i] = t[a + i]
  BY <1>1
<1>4. z \in Seq(Tokens) /\ Len(z) = Len(t) - b /\ \A i \in 1 .. Len(t) - b : z[i] = t[b + i]
  BY <1>1
<1> HIDE DEF x, y, z
<1> DEFINE v == x \o y
<1>5. /\ v \in Seq(Tokens) /\ Len(v) = Len(x) + Len(y)
      /\ \A i \in 1..Len(x) : v[i] = x[i]
      /\ \A i \in 1..Len(y) : v[Len(x) + i] = y[i]
  <2>1. x \in Seq(Tokens) /\ y \in Seq(Tokens)
    BY <1>2, <1>3
  <2>2. QED
    BY ONLY <2>1, JoinIs
<1> HIDE DEF v
<1>6. v \in Seq(Tokens) /\ Len(v) = b /\ \A i \in 1..b : v[i] = t[i]
  <2>1. ASSUME NEW i \in 1..b PROVE v[i] = t[i]
    <3>1. CASE i <= a
      BY <1>1, <1>2, <1>5, <3>1
    <3>2. CASE i > a
      <4>1. i - a \in 1 .. b - a /\ a + (i - a) = i
        BY <1>1, <3>2
      <4>2. v[a + (i - a)] = t[a + (i - a)]
        BY <1>2, <1>3, <1>5, <4>1
      <4>3. QED
        BY <4>1, <4>2
    <3>3. QED
      BY <1>1, <3>1, <3>2
  <2>2. QED
    BY <1>1, <1>2, <1>3, <1>5, <2>1
<1> DEFINE w == v \o z
<1>7. /\ w \in Seq(Tokens) /\ Len(w) = Len(v) + Len(z)
      /\ \A i \in 1..Len(v) : w[i] = v[i]
      /\ \A i \in 1..Len(z) : w[Len(v) + i] = z[i]
  BY <1>4, <1>6, JoinIs
<1> HIDE DEF w
<1>8. ASSUME NEW i \in 1..Len(t) PROVE w[i] = t[i]
  <2>1. CASE i <= b
    BY <1>1, <1>6, <1>7, <2>1
  <2>2. CASE i > b
    <3>1. i - b \in 1 .. Len(t) - b /\ b + (i - b) = i
      BY <1>1, <2>2
    <3>2. w[b + (i - b)] = t[b + (i - b)]
      BY <1>4, <1>6, <1>7, <3>1
    <3>3. QED
      BY <3>1, <3>2
  <2>3. QED
    BY <1>1, <2>1, <2>2
<1>9. w = t
  <2>1. Len(w) = Len(t)
    BY <1>1, <1>4, <1>6, <1>7
  <2>2. QED
    BY <1>1, <1>7, <1>8, <2>1, SeqEqual
<1>10. QED
  BY <1>9 DEF w, v, x, y, z

(* One splice alone is applied as it is.                                   *)
LEMMA AppliedOne ==
    ASSUME NEW t, NEW sp, sp.start \in Nat, sp.stop \in Nat
    PROVE  Applied(t, <<sp>>) = Spliced(t, sp)
<1> DEFINE ss == <<sp>>
           o == Sorted(ss)
<1>1. DOMAIN ss = 1..1 /\ ss[1] = sp
  OBVIOUS
<1> HIDE DEF ss
<1>2. \A k \in 1..1 : ss[k].start \in Nat /\ ss[k].stop \in Nat
  BY <1>1
<1>3. PICK p : IsOrder(p, ss, 1)
  BY <1>1, <1>2, SortedIs
<1>4. p[1] = 1 /\ o = [n \in 1..1 |-> ss[p[n]]]
  BY <1>3 DEF IsOrder
<1>5. o \in Seq(Range(o)) /\ Len(o) = 1 /\ o[1] = sp
  <2>1. 1 \in 1..1 /\ 1 \in Nat
    OBVIOUS
  <2>2. o[1] = ss[p[1]]
    BY ONLY <1>4, <2>1, Zenon
  <2>3. DOMAIN o = 1..1 /\ o[1] = sp
    BY <1>1, <1>4, <2>2
  <2>4. o = [n \in 1..1 |-> o[n]] /\ \A n \in 1..1 : o[n] \in Range(o)
    BY <1>4, <2>3 DEF Range
  <2> HIDE DEF o
  <2>5. o \in Seq(Range(o))
    BY <2>1, <2>4
  <2>6. QED
    BY <2>3, <2>5
<1>6. PICK x : Backwards(x, o, t, 1) /\ Applied(t, ss) = x[0]
  <2>1. 1 \in Nat /\ o = Sorted(ss)
    OBVIOUS
  <2> HIDE DEF o
  <2>2. QED
    BY ONLY <1>5, <2>1, AppliedIsChain
<1>7. x[1] = t /\ x[0] = Spliced(x[1], o[1])
  BY <1>6 DEF Backwards
<1>8. QED
  BY <1>5, <1>6, <1>7 DEF ss

(* A sequence of one sequence is flattened into that one.                  *)
LEMMA FlattenOne ==
    ASSUME NEW S, NEW v \in Seq(S), NEW q, DOMAIN q = 1..1, q = <<v>>
    PROVE  FlattenSeq(q) = v
<1>1. Len(q) = 1 /\ q[1] = v /\ 1 \in Nat /\ 1 \in 1..1
  OBVIOUS
<1>2. Pieces(q, 1, S)
  BY <1>1 DEF Pieces
<1>3. PICK c : IsGlued(c, q, 1, S) /\ FlattenSeq(q) = c[1]
  BY ONLY <1>1, <1>2, FlattenIs
<1>4. c[1] = c[1 - 1] \o q[1] /\ c[0] = <<>>
  BY ONLY <1>1, <1>3 DEF IsGlued
<1>5. c[1] = <<>> \o v
  BY ONLY <1>1, <1>4
<1>6. <<>> \o v = v
  OBVIOUS
<1>7. QED
  BY <1>3, <1>5, <1>6

(* A section given back as it was read leaves the text as it was.          *)
LEMMA EchoKeepsText ==
    ASSUME NEW t \in Texts, NEW e, NEW scope \in {"body", "section"},
           e.op = "replace", e.scope = scope,
           Index(Parse(t), e.path, e.occ) \in 0..Len(Parse(t).heads),
           e.content = Content(t, Index(Parse(t), e.path, e.occ), scope)
    PROVE  Patched(t, <<e>>) = t
<1> DEFINE d == Parse(t)
           i == Index(d, e.path, e.occ)
           span == ContentSpan(d, i, scope)
           a == span[1]
           b == span[2]
           new == Replacement(Slice(t, span), t, a, b)
           sp == Splice(a, b, new, span)
<1>1. IsDoc(d, t)
  BY DocIs
<1>2. e.content = Slice(t, span)
  BY DEF Content
<1>a. i \in 0..Len(d.heads)
  OBVIOUS
<1>3. EditSplices(t, d, e) = <<sp>>
  <2>1. EditSplices(t, d, e) = <<Splice(a, b, Replacement(e.content, t, a, b), span)>>
    <3> HIDE DEF d
    <3>1. QED
      BY DEF EditSplices
  <2>2. QED
    BY <1>2, <2>1
<1> HIDE DEF d
<1> HIDE DEF i
<1>4. AtLine(t, a) /\ AtLine(t, b) /\ a <= b /\ span = <<a, b>>
  <2>1. span = <<a, b>>
    BY DEF ContentSpan
  <2> HIDE DEF span
  <2>2. AtLine(t, a) /\ AtLine(t, b) /\ a <= b
    BY <1>1, <1>a, SpansAre DEF span
  <2>3. QED
    BY <2>1, <2>2
<1> HIDE DEF span
<1> HIDE DEF a, b
<1>5. new = Slice(t, <<a, b>>)
  BY <1>4, EchoReplacesItself
<1> HIDE DEF new
<1>6. Len(t) \in Nat /\ a \in 0..Len(t) /\ b \in a..Len(t)
  BY <1>4 DEF AtLine, Texts
<1>7. sp.start = a /\ sp.stop = b /\ sp.text = SubSeq(t, a + 1, b)
  BY <1>5 DEF Splice, Slice
<1>8. Patched(t, <<e>>) = Applied(t, <<sp>>)
  <2> DEFINE q == [k \in DOMAIN <<e>> |-> EditSplices(t, d, <<e>>[k])]
  <2>1. Patched(t, <<e>>) = Applied(t, FlattenSeq(q))
    BY DEF Patched, d
  <2>2. DOMAIN q = 1..1 /\ q = <<<<sp>>>>
    BY <1>3
  <2> HIDE DEF q
  <2>3. <<sp>> \in Seq({sp})
    OBVIOUS
  <2> HIDE DEF sp
  <2>4. FlattenSeq(q) = <<sp>>
    BY <2>2, <2>3, FlattenOne
  <2>5. QED
    BY <2>1, <2>4
<1> HIDE DEF sp
<1>9. Applied(t, <<sp>>) = Spliced(t, sp)
  BY <1>6, <1>7, AppliedOne
<1>10. Spliced(t, sp) = SubSeq(t, 1, a) \o SubSeq(t, a + 1, b) \o SubSeq(t, b + 1, Len(t))
  BY <1>7 DEF Spliced
<1>11. SubSeq(t, 1, a) \o SubSeq(t, a + 1, b) \o SubSeq(t, b + 1, Len(t)) = t
  BY ONLY t \in Texts, <1>6, CutTogether
<1>12. QED
  BY ONLY <1>8, <1>9, <1>10, <1>11

(* In a vault of texts EchoIsNeutral holds.                                *)
LEMMA EchoHolds ==
    ASSUME text \in [Notes -> Texts]
    PROVE  EchoIsNeutral
<1> SUFFICES ASSUME NEW n \in Notes
             PROVE  /\ \A i \in DOMAIN ReadOutline(n) : LET row == ReadOutline(n)[i] IN
                        Resolve(Parse(text[n]), row.path, row.occ) = i
                    /\ \A row \in Range(ReadOutline(n)) \cup {Root}, scope \in {"body", "section"} :
                        LET read == ReadSection(n, row.path, row.occ, scope)
                            echo == [op |-> "replace", path |-> row.path, occ |-> row.occ, scope |-> scope,
                                     content |-> CHOOSE c \in read : TRUE, hash |-> read]
                        IN  /\ read # {}
                            /\ PatchOk(text[n], <<echo>>) => Patched(text[n], <<echo>>) = text[n]
  BY DEF EchoIsNeutral
<1> DEFINE t == text[n]
           d == Parse(t)
           O == ReadOutline(n)
<1>1. t \in Texts
  OBVIOUS
<1>2. IsDoc(d, t)
  BY <1>1, DocIs
<1>3. DOMAIN O = DOMAIN d.heads /\ \A i \in DOMAIN d.heads : O[i] = Address(d, i)
  BY DEF ReadOutline, Outline
<1>4. DOMAIN d.heads = 1..Len(d.heads) /\ Len(d.heads) \in Nat
  BY <1>2 DEF IsDoc
<1> HIDE DEF t, d, O
<1>5. \A i \in 1..Len(d.heads) : /\ Resolve(d, O[i].path, O[i].occ) = i
                                 /\ O[i].occ \in Nat
  <2> SUFFICES ASSUME NEW i \in 1..Len(d.heads)
               PROVE  Resolve(d, O[i].path, O[i].occ) = i /\ O[i].occ \in Nat
    OBVIOUS
  <2>1. O[i] = Address(d, i)
    BY <1>3, <1>4
  <2>2. QED
    BY <1>2, <2>1, AddressLeadsBack
<1>6. ASSUME NEW row \in Range(O) \cup {Root}, NEW scope \in {"body", "section"}
      PROVE  LET read == ReadSection(n, row.path, row.occ, scope)
                 echo == [op |-> "replace", path |-> row.path, occ |-> row.occ, scope |-> scope,
                          content |-> CHOOSE c \in read : TRUE, hash |-> read]
             IN  /\ read # {}
                 /\ PatchOk(t, <<echo>>) => Patched(t, <<echo>>) = t
  <2> DEFINE i == Index(d, row.path, row.occ)
             read == ReadSection(n, row.path, row.occ, scope)
             x == Content(t, i, scope)
             echo == [op |-> "replace", path |-> row.path, occ |-> row.occ, scope |-> scope,
                      content |-> CHOOSE c \in read : TRUE, hash |-> read]
  <2>1. row.occ \in Nat /\ Found(d, row.path, row.occ)
    <3>1. CASE row = Root
      BY <3>1 DEF Root, Found
    <3>2. CASE row \in Range(O)
      <4>1. PICK k \in 1..Len(d.heads) : row = O[k]
        BY <1>3, <1>4, <3>2 DEF Range
      <4>2. k # 0 /\ Resolve(d, row.path, row.occ) = k /\ row.occ \in Nat
        BY <1>4, <1>5, <4>1
      <4>3. QED
        BY <4>2 DEF Found
    <3>3. QED
      BY <3>1, <3>2
  <2>2. i \in 0..Len(d.heads)
    BY <1>2, <2>1, IndexIs
  <2>3. read = {x}
    BY <2>1 DEF ReadSection, t, d
  <2>4. (CHOOSE c \in read : TRUE) = x
    <3> HIDE DEF read, x
    <3>1. QED
      BY <2>3
  <2> HIDE DEF read, x
  <2>5. /\ echo.op = "replace" /\ echo.scope = scope /\ echo.path = row.path
        /\ echo.occ = row.occ /\ echo.content = x
    BY <2>4
  <2> HIDE DEF echo
  <2>6. /\ Index(Parse(t), echo.path, echo.occ) \in 0..Len(Parse(t).heads)
        /\ echo.content = Content(t, Index(Parse(t), echo.path, echo.occ), scope)
    BY <2>2, <2>5 DEF d, x
  <2>7. Patched(t, <<echo>>) = t
    BY <1>1, <2>5, <2>6, EchoKeepsText
  <2>8. read # {}
    BY <2>3
  <2>9. QED
    BY <2>7, <2>8 DEF echo, read
<1>7. QED
  BY <1>3, <1>4, <1>5, <1>6 DEF t, d, O

-----------------------------------------------------------------------------
(* Texts stay texts. *)

Picked(s, K) == LET at == Ascending(K, Len(s)) IN [k \in DOMAIN at |-> s[at[k]]]

(* The elements of a sequence at the indices of a set, in their order.     *)
LEMMA PickedIs ==
    ASSUME NEW S, NEW s \in Seq(S), NEW K \in SUBSET (1..Len(s))
    PROVE  /\ Picked(s, K) \in Seq(S)
           /\ \A k \in 1..Len(Picked(s, K)) : \E i \in K : Picked(s, K)[k] = s[i]
           /\ \A i \in K : \E k \in 1..Len(Picked(s, K)) : Picked(s, K)[k] = s[i]
<1> DEFINE at == Ascending(K, Len(s))
           u == Picked(s, K)
<1>1. Len(s) \in Nat
  OBVIOUS
<1>2. IsRow(at, K, Len(s) + 1)
  BY <1>1, AscendingIs
<1>3. u = [k \in DOMAIN at |-> s[at[k]]]
  BY DEF Picked
<1> HIDE DEF at, u
<1>4. Len(at) \in Nat /\ DOMAIN at = 1..Len(at)
  BY <1>2 DEF IsRow
<1>5. \A k \in 1..Len(at) : at[k] \in K
  BY <1>2 DEF IsRow
<1>a. \A i \in K : s[i] \in S
  OBVIOUS
<1>6. \A k \in 1..Len(at) : u[k] = s[at[k]] /\ s[at[k]] \in S
  BY ONLY <1>3, <1>4, <1>5, <1>a
<1>7. u \in Seq(S) /\ Len(u) = Len(at)
  <2>1. u = [k \in 1..Len(at) |-> u[k]]
    BY <1>3, <1>4, <1>6
  <2>2. \A k \in 1..Len(at) : u[k] \in S
    BY <1>6
  <2>3. QED
    BY ONLY <1>4, <2>1, <2>2
<1>8. ASSUME NEW i \in K PROVE \E k \in 1..Len(at) : at[k] = i
  <2>1. i \in Nat /\ i < Len(s) + 1
    BY <1>1
  <2>2. QED
    BY <1>2, <2>1 DEF IsRow
<1>9. \A i \in K : \E k \in 1..Len(u) : u[k] = s[i]
  BY ONLY <1>6, <1>7, <1>8
<1>10. \A k \in 1..Len(u) : \E i \in K : u[k] = s[i]
  BY ONLY <1>5, <1>6, <1>7
<1>11. QED
  BY ONLY <1>7, <1>9, <1>10 DEF u

(* Splices of a text: each lies within it and puts a text in its place.    *)
Spots(t) == [start : 0..Len(t), stop : 0..Len(t), text : Texts, foot : (0..Len(t)) \X (0..Len(t))]
Cuts(t) == {s \in Spots(t) : s.start <= s.stop}

(* Splices in the order in which they are sorted, by where they start.     *)
LEMMA SortedCuts ==
    ASSUME NEW t \in Texts, NEW ss \in Seq(Cuts(t))
    PROVE  /\ Sorted(ss) \in Seq(Cuts(t)) /\ Len(Sorted(ss)) = Len(ss)
           /\ \A j, k \in 1..Len(ss) : j < k => Sorted(ss)[j].start <= Sorted(ss)[k].start
<1> DEFINE N == Len(ss)
           o == Sorted(ss)
<1>1. N \in Nat /\ DOMAIN ss = 1..N
  OBVIOUS
<1>2. \A k \in 1..N : ss[k] \in Cuts(t)
  OBVIOUS
<1>3. Len(t) \in Nat
  BY DEF Texts
<1>4. \A k \in 1..N : ss[k].start \in Nat /\ ss[k].stop \in Nat
  BY <1>2, <1>3 DEF Cuts, Spots
<1> HIDE DEF N
<1>5. PICK p : IsOrder(p, ss, N)
  BY <1>1, <1>4, SortedIs
<1>6. /\ p \in [1..N -> 1..N] /\ o = [n \in 1..N |-> ss[p[n]]]
      /\ \A m, n \in 1..N : m < n => Ahead(ss, p[m], p[n])
  BY <1>5 DEF IsOrder
<1>7. o \in Seq(Cuts(t)) /\ Len(o) = N
  <2>1. \A n \in 1..N : ss[p[n]] \in Cuts(t)
    BY <1>2, <1>6
  <2> HIDE DEF o
  <2>2. QED
    BY ONLY <1>1, <1>6, <2>1
<1>8. ASSUME NEW j \in 1..N, NEW k \in 1..N, j < k PROVE o[j].start <= o[k].start
  <2>1. Ahead(ss, p[j], p[k]) /\ o[j] = ss[p[j]] /\ o[k] = ss[p[k]] /\ p[j] \in 1..N /\ p[k] \in 1..N
    BY <1>6, <1>8
  <2>2. ss[p[j]].start \in Nat /\ ss[p[k]].start \in Nat
    BY <1>4, <2>1
  <2>3. ss[p[j]].start <= ss[p[k]].start
    BY <2>1, <2>2 DEF Ahead
  <2>4. QED
    BY <2>1, <2>3
<1>9. QED
  BY <1>7, <1>8 DEF N

(* Splices applied to a text from the last to the first make a text of it. *)
LEMMA AppliedKeeps ==
    ASSUME NEW t \in Texts, NEW ss \in Seq(Cuts(t))
    PROVE  Applied(t, ss) \in Texts
<1> DEFINE N == Len(ss)
           o == Sorted(ss)
<1>1. N \in Nat
  OBVIOUS
<1>2. /\ o \in Seq(Cuts(t)) /\ Len(o) = N
      /\ \A j, k \in 1..N : j < k => o[j].start <= o[k].start
  BY SortedCuts
<1> HIDE DEF N
<1>a. o = Sorted(ss)
  OBVIOUS
<1> HIDE DEF o
<1>3. o \in Seq(Range(o))
  BY ONLY <1>2 DEF Range
<1>4. PICK x : Backwards(x, o, t, N) /\ Applied(t, ss) = x[0]
  BY ONLY <1>1, <1>2, <1>3, <1>a, AppliedIsChain
<1>5. Len(t) \in Nat
  BY DEF Texts
<1>6. \A k \in 1..N : /\ o[k].start \in 0..Len(t) /\ o[k].stop \in Nat /\ o[k].text \in Texts
  <2> SUFFICES ASSUME NEW k \in 1..N
               PROVE o[k].start \in 0..Len(t) /\ o[k].stop \in Nat /\ o[k].text \in Texts
    OBVIOUS
  <2>1. o[k] \in Cuts(t)
    BY <1>2
  <2>2. QED
    BY <1>5, <2>1 DEF Cuts, Spots
<1> DEFINE Fits(u, k) == u \in Texts /\ \A j \in 1..k : o[j].start <= Len(u)
           T == {m \in Nat : m <= N => Fits(x[N - m], N - m)}
<1>7. 0 \in T
  <2>1. x[N] = t /\ N - 0 = N
    BY <1>1, <1>4 DEF Backwards
  <2>2. Fits(t, N)
    BY <1>6, <1>5
  <2> HIDE DEF Fits
  <2>3. QED
    BY <2>1, <2>2
<1>8. ASSUME NEW m \in T PROVE m + 1 \in T
  <2> SUFFICES ASSUME m + 1 <= N PROVE Fits(x[N - (m + 1)], N - (m + 1))
    OBVIOUS
  <2> DEFINE k == N - m
             u == x[k]
             w == x[k - 1]
             a == o[k].start
  <2>1. m \in Nat /\ k \in 1..N /\ k - 1 = N - (m + 1) /\ k \in Nat
    BY <1>1
  <2>2. Fits(u, k)
    BY <1>1, <2>1
  <2>3. w = Spliced(u, o[k])
    BY <1>4, <2>1 DEF Backwards
  <2> HIDE DEF k, u, w
  <2>4. u \in Texts /\ a <= Len(u) /\ a \in Nat /\ Len(u) \in Nat
    BY <1>5, <1>6, <2>1, <2>2 DEF Texts
  <2>5. w \in Texts
    BY <1>6, <2>1, <2>3, <2>4, SplicedIs
  <2>6. a <= Len(w)
    <3> DEFINE y == SubSeq(u, 1, a)
               v == o[k].text
               z == SubSeq(u, o[k].stop + 1, Len(u))
    <3>1. w = y \o v \o z
      BY <2>3 DEF Spliced
    <3>2. y \in Seq(Tokens) /\ Len(y) = a
      BY <2>4 DEF Texts
    <3>3. v \in Seq(Tokens) /\ z \in Seq(Tokens)
      <4>1. o[k].stop \in Nat /\ u \in Seq(Tokens) /\ v \in Seq(Tokens)
        BY <1>6, <2>1, <2>4 DEF Texts
      <4>2. \A i \in o[k].stop + 1 .. Len(u) : u[i] \in Tokens
        BY <2>4, <4>1
      <4>3. QED
        BY <2>4, <4>1, <4>2, SubSeqProperties
    <3> HIDE DEF y, v, z, a
    <3>4. Len(y \o v \o z) >= Len(y)
      BY ONLY <3>2, <3>3
    <3>5. QED
      BY <3>1, <3>2, <3>4
  <2>7. ASSUME NEW j \in 1 .. k - 1 PROVE o[j].start <= Len(w)
    <3>1. j \in 1..N /\ j < k
      BY <1>1, <2>1
    <3>2. o[j].start <= a /\ o[j].start \in Nat
      BY <1>2, <1>6, <2>1, <3>1
    <3>3. Len(w) \in Nat
      BY <2>5 DEF Texts
    <3> HIDE DEF a
    <3>4. QED
      BY <2>4, <2>6, <3>2, <3>3
  <2>8. Fits(w, k - 1)
    BY <2>5, <2>7
  <2> HIDE DEF Fits
  <2>9. QED
    BY <2>1, <2>8 DEF w
<1>9. T = Nat
  <2> HIDE DEF T
  <2>1. T \in SUBSET Nat
    BY DEF T
  <2>2. QED
    BY <1>7, <1>8, <2>1, Taking!Grows
<1>10. Fits(x[N - N], N - N)
  <2> HIDE DEF Fits, T
  <2>1. N \in T /\ N <= N
    BY <1>1, <1>9
  <2>2. QED
    BY <2>1 DEF T
<1>11. N - N = 0
  BY <1>1
<1>12. x[0] \in Texts
  BY <1>10, <1>11
<1>13. QED
  BY <1>4, <1>12

(* What texts and newlines make is a text.                                 *)
LEMMA TextsMake ==
    /\ <<>> \in Texts /\ <<NL>> \in Texts /\ <<NL, NL>> \in Texts
    /\ \A u \in Texts : Append(u, NL) \in Texts
    /\ \A u, v \in Texts : u \o v \in Texts
<1>1. NL \in Tokens
  BY InputAssumption
<1> HIDE DEF NL
<1>2. <<>> \in Seq(Tokens) /\ <<NL>> \in Seq(Tokens) /\ <<NL, NL>> \in Seq(Tokens)
  BY <1>1
<1>3. ASSUME NEW u \in Seq(Tokens) PROVE Append(u, NL) \in Seq(Tokens)
  BY <1>1
<1>4. ASSUME NEW u \in Seq(Tokens), NEW v \in Seq(Tokens) PROVE u \o v \in Seq(Tokens)
  OBVIOUS
<1>5. QED
  BY <1>2, <1>3, <1>4 DEF Texts

(* A block with its blank lines is a text.                                 *)
LEMMA PaddedIs ==
    ASSUME NEW block \in Texts, NEW t, NEW pos
    PROVE  Padded(block, t, pos) \in Texts
<1> DEFINE ended == IF EndsWith(block, <<NL>>) THEN block ELSE Append(block, NL)
           headed == IF pos > 0 /\ t[pos] # NL THEN <<NL, NL>> \o ended
                     ELSE IF pos >= 2 /\ t[pos - 1] # NL THEN <<NL>> \o ended ELSE ended
<1>1. ended \in Texts
  BY TextsMake
<1>2. Padded(block, t, pos) = IF pos = Len(t) \/ EndsWith(headed, <<NL, NL>>) THEN headed
                              ELSE Append(headed, NL)
  BY DEF Padded
<1> HIDE DEF ended
<1>3. headed \in Texts
  BY <1>1, TextsMake
<1> HIDE DEF headed
<1>4. QED
  BY <1>2, <1>3, TextsMake

(* So is what replaces the content of a section, and appended text; it is  *)
(* put somewhere in the section.                                           *)
LEMMA ReplacementIs ==
    ASSUME NEW t \in Texts, NEW a \in 0..Len(t), NEW b \in a..Len(t), NEW content \in Texts
    PROVE  Replacement(content, t, a, b) \in Texts
<1> DEFINE lead == LeadEnd(t, a, b)
           trail == TrailStart(t, lead, b)
           one == SubSeq(t, a + 1, IF a < b THEN a + 1 ELSE a)
           seams == Seams(t, a, b)
           led == IF seams[1] # <<>> /\ ~StartsBlank(content) THEN seams[1] \o content ELSE content
           split == IF a > 0 /\ t[a] # NL THEN <<NL>> \o led ELSE led
           ended == IF /\ ~EndsWith(split, <<NL>>)
                       /\ \/ b < Len(t) /\ t[b + 1] # NL
                          \/ b > a /\ t[b] = NL
                    THEN Append(split, NL) ELSE split
<1>1. Len(t) \in Nat /\ t \in Seq(Tokens) /\ a \in Nat /\ b \in Nat /\ a <= b /\ b <= Len(t)
  BY DEF Texts
<1>2. lead \in a..b
  BY <1>1, LeadEndIs
<1>3. one \in Texts
  <2>1. CASE a < b
    BY <1>1, <2>1 DEF Texts
  <2>2. CASE ~(a < b)
    BY <1>1, <2>2 DEF Texts
  <2>3. QED
    BY <2>1, <2>2
<1>4. seams = IF lead = b THEN <<one, one>>
              ELSE <<Slice(t, <<a, lead>>), Slice(t, <<trail, b>>)>>
  BY DEF Seams
<1> HIDE DEF lead, one, seams
<1>5. lead \in Nat /\ lead <= b /\ lead \in a..Len(t)
  BY <1>1, <1>2
<1>6. trail \in 0..Len(t) /\ trail <= b
  <2>1. PICK z \in lead..b : EndsAt(t, lead, b, z)
    BY <1>1, <1>5, TrailStartIs
  <2>2. trail = IF z \in {lead, b} THEN z ELSE z + 1
    BY <2>1 DEF EndsAt
  <2> HIDE DEF trail
  <2>3. QED
    BY <1>1, <1>5, <2>2
<1> HIDE DEF trail
<1>7. seams[1] \in Texts /\ seams[2] \in Texts
  <2>1. CASE lead = b
    BY <1>3, <1>4, <2>1
  <2>2. CASE lead # b
    <3>1. seams[1] = Slice(t, <<a, lead>>) /\ seams[2] = Slice(t, <<trail, b>>)
      BY <1>4, <2>2
    <3>2. Slice(t, <<a, lead>>) \in Texts
      BY <1>5, SliceIs
    <3>3. b \in trail..Len(t)
      BY <1>1, <1>6
    <3>4. Slice(t, <<trail, b>>) \in Texts
      BY <1>6, <3>3, SliceIs
    <3>5. QED
      BY <3>1, <3>2, <3>4
  <2>3. QED
    BY <2>1, <2>2
<1>8. Replacement(content, t, a, b) = IF content = <<>> THEN <<>>
                                      ELSE IF EndsBlank(ended) THEN ended ELSE ended \o seams[2]
  BY DEF Replacement, seams
<1>9. led \in Texts
  BY <1>7, TextsMake
<1> HIDE DEF led
<1>10. split \in Texts
  BY <1>9, TextsMake
<1> HIDE DEF split
<1>11. ended \in Texts
  BY <1>10, TextsMake
<1> HIDE DEF ended
<1>12. QED
  BY <1>7, <1>8, <1>11, TextsMake

(* Appended text goes somewhere into the section, and is a text.           *)
LEMMA AppendedIs ==
    ASSUME NEW t \in Texts, NEW a \in 0..Len(t), NEW b \in a..Len(t), NEW content \in Texts, NEW pos
    PROVE  AppendPos(t, a, b) \in a..b /\ AppendedText(content, t, pos) \in Texts
<1> DEFINE split == IF pos > 0 /\ t[pos] # NL THEN <<NL>> \o content ELSE content
<1>1. Len(t) \in Nat /\ a \in Nat /\ b \in Nat /\ a <= b /\ b <= Len(t)
  BY DEF Texts
<1>2. AppendPos(t, a, b) \in a..b
  <2>1. PICK z \in a..b : EndsAt(t, a, b, z)
    BY <1>1, TrailStartIs
  <2>2. TrailStart(t, a, b) = IF z \in {a, b} THEN z ELSE z + 1
    BY <2>1 DEF EndsAt
  <2>3. TrailStart(t, a, b) \in a..b
    BY <1>1, <2>2
  <2>4. QED
    BY <1>1, <2>3 DEF AppendPos
<1>3. split \in Texts
  BY TextsMake
<1>4. AppendedText(content, t, pos) = IF EndsWith(split, <<NL>>) THEN split ELSE Append(split, NL)
  BY DEF AppendedText
<1> HIDE DEF split
<1>5. QED
  BY <1>2, <1>3, <1>4, TextsMake

(* An edit that may be made is made of splices of the text.                *)
LEMMA EditIsCuts ==
    ASSUME NEW t \in Texts, NEW d, IsDoc(d, t), NEW e \in Edits, EditOk(t, d, e)
    PROVE  EditSplices(t, d, e) \in Seq(Cuts(t))
<1> DEFINE i == Index(d, e.path, e.occ)
           j == Index(d, e.dest, e.destocc)
           span == ContentSpan(d, i, e.scope)
           section == SectionSpan(d, i)
           dest == SectionSpan(d, j)
           pos == AppendPos(t, span[1], span[2])
           line == <<d.heads[i].start, d.heads[i].stop>>
           heading == <<Marks[d.heads[i].level]>> \o e.content
           ops == {"replace", "append", "delete", "insert_before", "insert_after", "rename", "move"}
<1>0. Len(t) \in Nat /\ Len(d.heads) \in Nat
  BY DEF Texts, IsDoc
<1>1. /\ e.op \in ops /\ e.content \in Texts /\ e.scope \in {"body", "section"}
      /\ e.occ \in Nat /\ e.destocc \in Nat
  BY DEF Edits
<1>2. i \in 0..Len(d.heads) /\ j \in 0..Len(d.heads)
  BY <1>1, IndexIs
<1> DEFINE Within(s) == s = <<s[1], s[2]>> /\ s[1] \in 0..Len(t) /\ s[2] \in 0..Len(t) /\ s[1] <= s[2]
<1> HIDE DEF i, j
<1>3. Within(span)
  <2>1. span = <<span[1], span[2]>>
    BY DEF ContentSpan
  <2>2. AtLine(t, span[1]) /\ AtLine(t, span[2]) /\ span[1] <= span[2]
    BY <1>1, <1>2, SpansAre
  <2> HIDE DEF span
  <2>3. QED
    BY <2>1, <2>2 DEF AtLine
<1>4. ASSUME NEW k \in 0..Len(d.heads) PROVE Within(SectionSpan(d, k))
  <2> DEFINE s == SectionSpan(d, k)
  <2>1. s = <<s[1], s[2]>>
    BY DEF SectionSpan
  <2>2. AtLine(t, s[1]) /\ AtLine(t, s[2]) /\ s[1] <= s[2]
    <3>1. "body" \in {"body", "section"}
      OBVIOUS
    <3>2. QED
      BY <3>1, SpansAre
  <2> HIDE DEF s
  <2>3. QED
    BY <2>1, <2>2 DEF AtLine, s
<1>5. Within(section) /\ Within(dest)
  BY <1>2, <1>4
<1>6. i # 0 => /\ Within(line) /\ heading \in Texts
               /\ (IF t[line[2]] = NL THEN Append(heading, NL) ELSE heading) \in Texts
  <2> SUFFICES ASSUME i # 0 PROVE /\ Within(line) /\ heading \in Texts
               /\ (IF t[line[2]] = NL THEN Append(heading, NL) ELSE heading) \in Texts
    OBVIOUS
  <2>1. i \in 1..Len(d.heads)
    BY <1>0, <1>2
  <2>2. /\ AtLine(t, d.heads[i].start) /\ AtLine(t, d.heads[i].stop)
        /\ d.heads[i].start < d.heads[i].stop /\ d.heads[i].level \in 1..3
    BY <2>1 DEF IsDoc
  <2>3. Within(line)
    BY <1>0, <2>2 DEF AtLine
  <2>4. Marks[d.heads[i].level] \in Tokens
    <3>1. DOMAIN Marks = 1..3
      BY DEF Marks
    <3> HIDE DEF Marks
    <3>2. QED
      BY <2>2, <3>1, MarkIsNoNewline
  <2>5. <<Marks[d.heads[i].level]>> \in Texts
    <3> DEFINE m == Marks[d.heads[i].level]
    <3> HIDE DEF m
    <3>1. <<m>> \in Texts
      BY <2>4 DEF m, Texts
    <3>2. QED
      BY <3>1 DEF m
  <2>6. heading \in Texts
    BY <1>1, <2>5, TextsMake
  <2> HIDE DEF heading
  <2>7. QED
    BY <2>3, <2>6, TextsMake
<1>7. EditSplices(t, d, e) =
        CASE e.op = "replace" ->
             <<Splice(span[1], span[2], Replacement(e.content, t, span[1], span[2]), span)>>
          [] e.op = "append" -> <<Splice(pos, pos, AppendedText(e.content, t, pos), span)>>
          [] e.op = "delete" -> <<Cut(IF e.scope = "body" THEN span ELSE section)>>
          [] e.op \in {"insert_before", "insert_after"} ->
             <<Inserted(t, e.content, Side(section, e.op = "insert_before"))>>
          [] e.op = "rename" ->
             <<Splice(line[1], line[2],
                      IF t[line[2]] = NL THEN Append(heading, NL) ELSE heading, line)>>
          [] e.op = "move" ->
             <<Cut(section), Inserted(t, Slice(t, section), Side(dest, e.pos = "before"))>>
  BY DEF EditSplices, i, j
<1>8. e.op \in {"rename", "move"} => i # 0
  BY DEF EditOk, MoveOk, i
<1> HIDE DEF span, section, dest, pos, line, heading
<1>9. ASSUME NEW s, Within(s) PROVE s \in (0..Len(t)) \X (0..Len(t))
  BY <1>9
<1>10. ASSUME NEW a, NEW b, NEW u \in Texts, NEW f, Within(<<a, b>>), Within(f)
       PROVE  Splice(a, b, u, f) \in Cuts(t)
  <2>1. f \in (0..Len(t)) \X (0..Len(t))
    BY <1>9, <1>10
  <2>2. a \in 0..Len(t) /\ b \in 0..Len(t) /\ a <= b
    BY <1>10
  <2>3. QED
    BY <2>1, <2>2 DEF Splice, Cuts, Spots
<1>11. ASSUME NEW s, Within(s) PROVE Cut(s) \in Cuts(t)
  <2>1. Within(<<s[1], s[2]>>) /\ <<>> \in Texts
    BY <1>11, TextsMake
  <2> HIDE DEF Within
  <2>2. QED
    BY <1>10, <1>11, <2>1 DEF Cut
<1>12. ASSUME NEW u \in Texts, NEW p \in 0..Len(t) PROVE Inserted(t, u, p) \in Cuts(t)
  <2>1. Within(<<p, p>>)
    BY <1>0
  <2>2. Padded(u, t, p) \in Texts
    BY PaddedIs
  <2> HIDE DEF Within
  <2>3. QED
    BY <1>10, <2>1, <2>2 DEF Inserted
<1>13. \A s, first : Within(s) => Side(s, first) \in 0..Len(t)
  BY DEF Side
<1>14. ASSUME NEW x \in Cuts(t) PROVE <<x>> \in Seq(Cuts(t))
  BY <1>14
<1>15. CASE e.op = "replace"
  <2>1. EditSplices(t, d, e) = <<Splice(span[1], span[2], Replacement(e.content, t, span[1], span[2]), span)>>
    BY <1>7, <1>15
  <2>2. Replacement(e.content, t, span[1], span[2]) \in Texts
    <3>1. span[1] \in 0..Len(t) /\ span[2] \in span[1]..Len(t)
      BY <1>0, <1>3
    <3>2. QED
      BY <1>1, <3>1, ReplacementIs
  <2>3. Within(<<span[1], span[2]>>)
    BY <1>3
  <2> HIDE DEF Within
  <2>4. QED
    BY <1>3, <1>10, <1>14, <2>1, <2>2, <2>3
<1>16. CASE e.op = "append"
  <2>1. EditSplices(t, d, e) = <<Splice(pos, pos, AppendedText(e.content, t, pos), span)>>
    BY <1>7, <1>16
  <2>2. pos \in span[1]..span[2] /\ AppendedText(e.content, t, pos) \in Texts
    <3>1. span[1] \in 0..Len(t) /\ span[2] \in span[1]..Len(t)
      BY <1>0, <1>3
    <3>2. QED
      BY <1>1, <3>1, AppendedIs DEF pos
  <2>3. Within(<<pos, pos>>)
    BY <1>0, <1>3, <2>2
  <2> HIDE DEF Within
  <2>4. QED
    BY <1>3, <1>10, <1>14, <2>1, <2>2, <2>3
<1>17. CASE e.op = "delete"
  <2>1. EditSplices(t, d, e) = <<Cut(IF e.scope = "body" THEN span ELSE section)>>
    BY <1>7, <1>17
  <2> HIDE DEF Within
  <2>2. QED
    BY <1>3, <1>5, <1>11, <1>14, <2>1
<1>18. CASE e.op \in {"insert_before", "insert_after"}
  <2>1. EditSplices(t, d, e) = <<Inserted(t, e.content, Side(section, e.op = "insert_before"))>>
    BY <1>7, <1>18
  <2> HIDE DEF Within
  <2>2. Side(section, e.op = "insert_before") \in 0..Len(t)
    BY <1>5, <1>13
  <2>3. QED
    BY <1>1, <1>12, <1>14, <2>1, <2>2
<1>19. CASE e.op = "rename"
  <2>1. EditSplices(t, d, e) =
          <<Splice(line[1], line[2], IF t[line[2]] = NL THEN Append(heading, NL) ELSE heading, line)>>
    BY <1>7, <1>19
  <2>2. i # 0
    BY <1>8, <1>19
  <2>3. Within(<<line[1], line[2]>>) /\ Within(line)
    BY <1>6, <2>2
  <2> HIDE DEF Within
  <2>4. QED
    BY <1>6, <1>10, <1>14, <2>1, <2>2, <2>3
<1>20. CASE e.op = "move"
  <2>1. EditSplices(t, d, e) =
          <<Cut(section), Inserted(t, Slice(t, section), Side(dest, e.pos = "before"))>>
    BY <1>7, <1>20
  <2>2. Slice(t, section) \in Texts
    <3>1. section[1] \in 0..Len(t) /\ section[2] \in section[1]..Len(t) /\ section = <<section[1], section[2]>>
      BY <1>0, <1>5
    <3>2. Slice(t, <<section[1], section[2]>>) \in Texts
      BY <3>1, SliceIs
    <3>3. QED
      BY <3>1, <3>2
  <2> HIDE DEF Within
  <2>3. Side(dest, e.pos = "before") \in 0..Len(t)
    BY <1>5, <1>13
  <2>4. Cut(section) \in Cuts(t) /\ Inserted(t, Slice(t, section), Side(dest, e.pos = "before")) \in Cuts(t)
    BY <1>5, <1>11, <1>12, <2>2, <2>3
  <2>5. ASSUME NEW x \in Cuts(t), NEW y \in Cuts(t) PROVE <<x, y>> \in Seq(Cuts(t))
    BY <2>5
  <2>6. QED
    BY <2>1, <2>4, <2>5
<1>21. QED
  BY <1>1, <1>15, <1>16, <1>17, <1>18, <1>19, <1>20

(* Sequences of splices, one for each item of a call, make one of splices. *)
LEMMA FlattenKeeps ==
    ASSUME NEW S, NEW N \in Nat, NEW q, DOMAIN q = 1..N, q = [k \in 1..N |-> q[k]],
           \A k \in 1..N : q[k] \in Seq(S)
    PROVE  FlattenSeq(q) \in Seq(S)
<1>1. Len(q) = N /\ (N = 0 => q = <<>>)
  <2>1. q \in Seq(Seq(S)) /\ Len(q) = N
    OBVIOUS
  <2>2. QED
    BY ONLY <2>1
<1>2. Pieces(q, N, S)
  BY <1>1 DEF Pieces
<1>3. PICK c : IsGlued(c, q, N, S) /\ FlattenSeq(q) = c[N]
  BY ONLY N \in Nat, <1>1, <1>2, FlattenIs
<1>4. N \in 0..N
  OBVIOUS
<1>5. c[N] \in Seq(S)
  BY ONLY <1>3, <1>4 DEF IsGlued
<1>6. QED
  BY <1>3, <1>5

(* An accepted call of edit_sections makes a text of a text.               *)
LEMMA PatchedKeeps ==
    ASSUME NEW t \in Texts, NEW edits \in Seq(Edits), PatchOk(t, edits)
    PROVE  Patched(t, edits) \in Texts
<1> DEFINE d == Parse(t)
           q == [k \in DOMAIN edits |-> EditSplices(t, d, edits[k])]
<1>1. Patched(t, edits) = Applied(t, FlattenSeq(q))
  BY DEF Patched
<1>2. IsDoc(d, t)
  BY DocIs
<1>3. Len(edits) \in Nat /\ DOMAIN edits = 1..Len(edits)
  OBVIOUS
<1>4. \A k \in 1..Len(edits) : edits[k] \in Edits /\ EditOk(t, d, edits[k])
  BY <1>3 DEF PatchOk
<1> HIDE DEF d
<1>5. \A k \in 1..Len(edits) : EditSplices(t, d, edits[k]) \in Seq(Cuts(t))
  BY <1>2, <1>4, EditIsCuts
<1>6. DOMAIN q = 1..Len(edits) /\ q = [k \in 1..Len(edits) |-> q[k]]
      /\ \A k \in 1..Len(edits) : q[k] \in Seq(Cuts(t))
  BY <1>3, <1>5
<1> HIDE DEF q
<1>7. FlattenSeq(q) \in Seq(Cuts(t))
  BY ONLY <1>3, <1>6, FlattenKeeps
<1>8. QED
  BY <1>1, <1>7, AppliedKeeps

(* K has the places from a to b that are taken by matches: those of A that *)
(* the matches before them leave free.                                     *)
IsTaken(K, A, n, a, b) ==
    /\ K \in SUBSET (a..b)
    /\ \A p \in a..b : p \in K <=> (p \in A /\ \A q \in a .. p - 1 : q + n > p => q \notin K)

(* There is such a set of places.                                          *)
LEMMA TakenExists ==
    ASSUME NEW A, NEW n \in Nat, NEW a \in Nat, NEW b \in Nat, a <= b
    PROVE  \E K : IsTaken(K, A, n, a, b)
<1> DEFINE T == {m \in Nat : \E K : IsTaken(K, A, n, a, a + m)}
           Free(K, p) == p \in A /\ \A q \in a .. p - 1 : q + n > p => q \notin K
<1>1. 0 \in T
  <2> DEFINE K == IF a \in A THEN {a} ELSE {}
  <2>1. \A p \in a .. a + 0 : p = a
    OBVIOUS
  <2>2. a .. a - 1 = {}
    OBVIOUS
  <2>3. IsTaken(K, A, n, a, a + 0)
    BY <2>1, <2>2 DEF IsTaken
  <2>4. QED
    BY <2>3
<1>2. ASSUME NEW m \in T PROVE m + 1 \in T
  <2>1. m \in Nat
    OBVIOUS
  <2>2. PICK K : IsTaken(K, A, n, a, a + m)
    OBVIOUS
  <2> DEFINE z == a + (m + 1)
             J == IF Free(K, z) THEN K \cup {z} ELSE K
  <2>3. \A p \in a..z : p \in a .. a + m \/ p = z
    BY <2>1
  <2>4. z \in Nat /\ z \notin K /\ \A p \in K : p < z
    BY <2>1, <2>2 DEF IsTaken
  <2>5. \A q : q # z => (q \in J <=> q \in K)
    OBVIOUS
  <2>6. z \in J <=> Free(K, z)
    <3> HIDE DEF z, Free
    <3>1. QED
      BY <2>4
  <2>7. J \in SUBSET (a..z)
    <3>1. K \in SUBSET (a..z) /\ z \in a..z
      BY <2>1, <2>2 DEF IsTaken
    <3> HIDE DEF z, Free
    <3>2. QED
      BY <3>1
  <2> HIDE DEF J
  <2>8. \A p \in a..z : Free(J, p) <=> Free(K, p)
    <3> SUFFICES ASSUME NEW p \in a..z PROVE Free(J, p) <=> Free(K, p)
      OBVIOUS
    <3>1. \A q \in a .. p - 1 : q # z
      BY <2>1, <2>4
    <3> HIDE DEF z
    <3>2. QED
      BY <2>5, <3>1
  <2>9. \A p \in a..z : p \in J <=> Free(J, p)
    <3>1. \A p \in a .. a + m : p \in K <=> Free(K, p)
      BY <2>2 DEF IsTaken
    <3>2. \A p \in a .. a + m : p # z
      BY <2>1
    <3> HIDE DEF z, Free
    <3>3. QED
      BY <2>3, <2>5, <2>6, <2>8, <3>1, <3>2
  <2>10. IsTaken(J, A, n, a, z)
    BY <2>7, <2>9 DEF IsTaken
  <2>11. QED
    BY <2>1, <2>10
<1>3. T = Nat
  <2> HIDE DEF T
  <2>1. T \in SUBSET Nat
    BY DEF T
  <2>2. QED
    BY <1>1, <1>2, <2>1, Taking!Grows
<1>4. b - a \in Nat /\ a + (b - a) = b
  OBVIOUS
<1>5. b - a \in T
  BY <1>3, <1>4
<1>6. QED
  BY <1>4, <1>5

(* The matches of a text in a span, from the left, none overlapping.       *)
LEMMA FoundAre ==
    ASSUME NEW t \in Texts, NEW find \in Texts, NEW span,
           span[1] \in 0..Len(t), span[2] \in 0..Len(t), span[1] <= span[2]
    PROVE  LET m == MatchesIn(t, find, span) IN
           /\ Len(m) \in Nat /\ DOMAIN m = 1..Len(m)
           /\ \A k \in 1..Len(m) :
                /\ m[k] \in Nat /\ span[1] <= m[k] /\ m[k] + Len(find) <= span[2]
                /\ SubSeq(t, m[k] + 1, m[k] + Len(find)) = find
           /\ \A j, k \in 1..Len(m) : j < k => m[j] + Len(find) <= m[k] /\ m[j] < m[k]
<1> DEFINE n == Len(find)
           a == span[1]
           b == span[2]
           A == {p \in a..b : p + n <= b /\ SubSeq(t, p + 1, p + n) = find}
           Rec(f) == f = [p \in a..b |-> /\ p + n <= b /\ SubSeq(t, p + 1, p + n) = find
                                         /\ \A q \in a .. p - 1 : q + n > p => ~f[q]]
           f == CHOOSE f : Rec(f)
           S == {p \in a..b : f[p]}
           m == MatchesIn(t, find, span)
<1>1. n \in Nat /\ Len(t) \in Nat /\ a \in Nat /\ b \in Nat /\ a <= b
  BY DEF Texts
<1>2. m = Ascending(S, b)
  BY DEF MatchesIn
<1> HIDE DEF m
<1>3. \E g : Rec(g)
  <2>1. PICK K : IsTaken(K, A, n, a, b)
    BY <1>1, TakenExists
  <2> DEFINE g == [p \in a..b |-> p \in K]
  <2>2. \A p \in a..b : \A q \in a .. p - 1 : q \in a..b
    BY <1>1
  <2>3. \A q \in a..b : g[q] <=> q \in K
    OBVIOUS
  <2>4. ASSUME NEW p \in a..b
        PROVE (p \in K) = (/\ p + n <= b /\ SubSeq(t, p + 1, p + n) = find
                           /\ \A q \in a .. p - 1 : q + n > p => ~g[q])
    <3> HIDE DEF g
    <3>1. p \in K <=> (p \in A /\ \A q \in a .. p - 1 : q + n > p => q \notin K)
      BY <2>1 DEF IsTaken
    <3>2. (\A q \in a .. p - 1 : q + n > p => q \notin K) <=> (\A q \in a .. p - 1 : q + n > p => ~g[q])
      BY <2>2, <2>3
    <3>3. p \in A <=> p + n <= b /\ SubSeq(t, p + 1, p + n) = find
      OBVIOUS
    <3> HIDE DEF A, n, a, b
    <3>4. p \in K <=> (/\ p + n <= b /\ SubSeq(t, p + 1, p + n) = find
                       /\ \A q \in a .. p - 1 : q + n > p => ~g[q])
      BY <3>1, <3>2, <3>3
    <3> DEFINE R == /\ p + n <= b /\ SubSeq(t, p + 1, p + n) = find
                    /\ \A q \in a .. p - 1 : q + n > p => ~g[q]
    <3>5. R \in BOOLEAN /\ (p \in K) \in BOOLEAN
      OBVIOUS
    <3>6. (p \in K) <=> R
      BY <3>4
    <3> HIDE DEF R
    <3>7. (p \in K) = R
      BY ONLY <3>5, <3>6
    <3>8. QED
      BY <3>7 DEF R
  <2>5. [p \in a..b |-> p \in K] = [p \in a..b |-> /\ p + n <= b /\ SubSeq(t, p + 1, p + n) = find
                                                   /\ \A q \in a .. p - 1 : q + n > p => ~g[q]]
    <3> HIDE DEF g, A, n, a, b
    <3>1. QED
      BY <2>4
  <2>6. Rec(g)
    BY <2>5
  <2>7. QED
    BY <2>6
<1>4. Rec(f)
  <2> HIDE DEF Rec
  <2>1. QED
    BY <1>3
<1>5. \A p \in a..b : f[p] <=> (/\ p + n <= b /\ SubSeq(t, p + 1, p + n) = find
                                /\ \A q \in a .. p - 1 : q + n > p => ~f[q])
  <2> HIDE DEF f
  <2>1. QED
    BY <1>4
<1> HIDE DEF f, Rec
<1>6. IsRow(m, S, b + 1)
  BY <1>1, <1>2, AscendingIs
<1>7. Len(m) \in Nat /\ DOMAIN m = 1..Len(m)
  BY <1>6 DEF IsRow
<1>8. \A k \in 1..Len(m) : m[k] \in a..b /\ f[m[k]]
  BY <1>6 DEF IsRow
<1>9. ASSUME NEW j \in 1..Len(m), NEW k \in 1..Len(m), j < k PROVE m[j] + n <= m[k] /\ m[j] < m[k]
  <2>1. m[j] < m[k]
    BY <1>6, <1>9 DEF IsRow
  <2>2. m[j] \in a..b /\ m[k] \in a..b /\ f[m[j]] /\ f[m[k]]
    BY <1>8
  <2>3. m[j] \in a .. m[k] - 1
    BY <1>1, <2>1, <2>2
  <2>4. ~(m[j] + n > m[k])
    BY <1>5, <2>2, <2>3
  <2>5. m[j] \in Nat /\ m[k] \in Nat
    BY <1>1, <2>2
  <2> HIDE DEF n
  <2>6. QED
    BY <1>1, <2>1, <2>4, <2>5
<1>10. \A k \in 1..Len(m) : /\ m[k] \in Nat /\ a <= m[k] /\ m[k] + n <= b
                            /\ SubSeq(t, m[k] + 1, m[k] + n) = find
  <2>1. \A p \in a..b : p \in Nat /\ a <= p
    BY <1>1
  <2> HIDE DEF n, a, b
  <2>2. QED
    BY <1>5, <1>8, <2>1
<1>11. QED
  BY <1>7, <1>9, <1>10 DEF m

(* The splices of an item of replace_text: its text takes the place of      *)
(* each match, and the matches lie one behind the other.                   *)
LEMMA ItemIsCuts ==
    ASSUME NEW t \in Texts, NEW d, IsDoc(d, t), NEW e \in Replacements
    PROVE  LET ss == ItemSplices(t, d, e) IN
           /\ ss \in Seq(Cuts(t))
           /\ \A k \in 1..Len(ss) : /\ ss[k].stop = ss[k].start + Len(e.find)
                                    /\ ss[k].text = e.with /\ ss[k].foot = <<ss[k].start, ss[k].stop>>
           /\ \A j, k \in 1..Len(ss) : j < k => ss[j].stop <= ss[k].start
<1> DEFINE i == Index(d, e.path, e.occ)
           span == ContentSpan(d, i, e.scope)
           n == Len(e.find)
           m == MatchesIn(t, e.find, span)
           ss == ItemSplices(t, d, e)
<1>1. /\ e.find \in Texts /\ e.with \in Texts /\ e.scope \in {"body", "section"} /\ e.occ \in Nat
      /\ n \in Nat /\ Len(t) \in Nat
  BY DEF Replacements, Texts
<1>2. i \in 0..Len(d.heads)
  BY <1>1, IndexIs
<1>3. ss = [k \in DOMAIN m |-> Splice(m[k], m[k] + n, e.with, <<m[k], m[k] + n>>)]
  BY DEF ItemSplices
<1> HIDE DEF i
<1>4. span[1] \in 0..Len(t) /\ span[2] \in 0..Len(t) /\ span[1] <= span[2]
  <2>1. AtLine(t, span[1]) /\ AtLine(t, span[2]) /\ span[1] <= span[2]
    BY <1>1, <1>2, SpansAre
  <2> HIDE DEF span
  <2>2. QED
    BY <2>1 DEF AtLine
<1> HIDE DEF span
<1>5. /\ Len(m) \in Nat /\ DOMAIN m = 1..Len(m)
      /\ \A k \in 1..Len(m) : m[k] \in Nat /\ span[1] <= m[k] /\ m[k] + n <= span[2]
      /\ \A j, k \in 1..Len(m) : j < k => m[j] + n <= m[k] /\ m[j] < m[k]
  BY <1>1, <1>4, FoundAre
<1> HIDE DEF m, ss
<1>6. DOMAIN ss = 1..Len(m)
  BY <1>3, <1>5
<1>7. ASSUME NEW k \in 1..Len(m)
      PROVE  /\ ss[k] \in Cuts(t)
             /\ ss[k].start = m[k] /\ ss[k].stop = m[k] + n
             /\ ss[k].text = e.with /\ ss[k].foot = <<m[k], m[k] + n>>
  <2>1. ss[k] = Splice(m[k], m[k] + n, e.with, <<m[k], m[k] + n>>)
    BY <1>3, <1>5
  <2>2. m[k] \in Nat /\ m[k] + n <= span[2]
    BY <1>5
  <2> HIDE DEF n
  <2>3. m[k] \in 0..Len(t) /\ m[k] + n \in 0..Len(t) /\ m[k] <= m[k] + n
    BY <1>1, <1>4, <2>2
  <2> DEFINE a == m[k]
             b == m[k] + n
  <2> HIDE DEF a, b
  <2>4. ss[k] = [start |-> a, stop |-> b, text |-> e.with, foot |-> <<a, b>>]
    BY <2>1 DEF Splice, a, b
  <2>5. a \in 0..Len(t) /\ b \in 0..Len(t) /\ a <= b
    BY <2>3 DEF a, b
  <2>6. <<a, b>> \in (0..Len(t)) \X (0..Len(t))
    BY <2>5
  <2>7. ss[k] \in Cuts(t)
    BY <1>1, <2>4, <2>5, <2>6 DEF Cuts, Spots
  <2>8. QED
    BY <2>4, <2>7 DEF a, b
<1>8. ss \in Seq(Cuts(t)) /\ Len(ss) = Len(m)
  <2>1. ss = [k \in 1..Len(m) |-> ss[k]]
    BY <1>3, <1>5, <1>6
  <2>2. \A k \in 1..Len(m) : ss[k] \in Cuts(t)
    BY <1>7
  <2>3. QED
    BY ONLY <1>5, <2>1, <2>2
<1>9. \A j, k \in 1..Len(m) : j < k => ss[j].stop <= ss[k].start
  <2> HIDE DEF n
  <2>1. QED
    BY <1>5, <1>7
<1>10. \A k \in 1..Len(m) : /\ ss[k].stop = ss[k].start + n
                            /\ ss[k].text = e.with /\ ss[k].foot = <<ss[k].start, ss[k].stop>>
  BY <1>7
<1>11. QED
  BY <1>8, <1>9, <1>10 DEF ss

(* A call of replace_text makes a text of a text.                          *)
LEMMA ReplacedKeeps ==
    ASSUME NEW t \in Texts, NEW items \in Seq(Replacements)
    PROVE  AllSplices(t, items) \in Seq(Cuts(t)) /\ Replaced(t, items) \in Texts
<1> DEFINE d == Parse(t)
           q == [k \in DOMAIN items |-> ItemSplices(t, d, items[k])]
<1>1. AllSplices(t, items) = FlattenSeq(q) /\ Replaced(t, items) = Applied(t, AllSplices(t, items))
  BY DEF AllSplices, Replaced
<1>2. IsDoc(d, t)
  BY DocIs
<1> HIDE DEF d
<1>3. Len(items) \in Nat /\ DOMAIN items = 1..Len(items)
  OBVIOUS
<1>4. \A k \in 1..Len(items) : items[k] \in Replacements
  BY <1>3
<1>5. \A k \in 1..Len(items) : ItemSplices(t, d, items[k]) \in Seq(Cuts(t))
  BY <1>2, <1>4, ItemIsCuts
<1>6. DOMAIN q = 1..Len(items) /\ q = [k \in 1..Len(items) |-> q[k]]
      /\ \A k \in 1..Len(items) : q[k] \in Seq(Cuts(t))
  BY <1>3, <1>5
<1> HIDE DEF q
<1>7. FlattenSeq(q) \in Seq(Cuts(t))
  BY ONLY <1>3, <1>6, FlattenKeeps
<1>8. QED
  BY <1>1, <1>7, AppliedKeeps

-----------------------------------------------------------------------------
(* The lines of the frontmatter. *)

(* The lines between the delimiters are texts, and so is what follows them.*)
LEMMA InnerIs ==
    ASSUME NEW t \in Texts
    PROVE  InnerLines(t) \in Seq(Texts) /\ Rest(t) \in Texts
<1> DEFINE L == Lines(t)
           front == FrontLines(t, L)
           N == IF front = 0 THEN 0 ELSE front - 2
           u == InnerLines(t)
<1>1. u = [k \in 1..N |-> LineText(t, L[k + 1])]
  BY DEF InnerLines
<1>2. IsLines(L, t)
  BY LinesAre
<1> HIDE DEF L, u
<1>3. Len(L) \in Nat
  BY <1>2 DEF IsLines
<1>4. front \in 0..Len(L) /\ front # 1
  BY <1>3, FrontIs
<1> HIDE DEF front
<1>5. (N \in Nat /\ N + 1 <= Len(L)) \/ N = 0
  BY <1>3, <1>4
<1>6. N \in Nat
  BY <1>3, <1>4
<1> HIDE DEF N
<1>7. ASSUME NEW k \in 1..N PROVE LineText(t, L[k + 1]) \in Texts
  <2>1. k + 1 \in 1..Len(L)
    BY <1>3, <1>5, <1>6
  <2>2. QED
    BY <1>2, <2>1, LineTextIs
<1>8. u \in Seq(Texts)
  BY ONLY <1>1, <1>6, <1>7
<1>9. Rest(t) \in Texts
  <2>1. IsDoc(Parse(t), t)
    BY DocIs
  <2>2. AtLine(t, Parse(t).body)
    BY <2>1 DEF IsDoc
  <2> DEFINE a == Parse(t).body
  <2>3. a \in 0..Len(t) /\ Len(t) \in Nat /\ t \in Seq(Tokens)
    BY <2>2 DEF AtLine, Texts
  <2> HIDE DEF a
  <2>4. SubSeq(t, a + 1, Len(t)) \in Seq(Tokens)
    BY <2>3
  <2>5. QED
    BY <2>4 DEF Rest, Texts, a
<1>10. QED
  BY <1>8, <1>9 DEF u

(* A note put together from lines and the text below is a text.            *)
LEMMA RebuiltIs ==
    ASSUME NEW lines \in Seq(Texts), NEW rest \in Texts
    PROVE  Rebuilt(lines, rest) \in Texts
<1> DEFINE q == [k \in DOMAIN lines |-> Append(lines[k], NL)]
           v == FlattenSeq(q)
           w == <<Dashes, NL>>
<1>1. Len(lines) \in Nat /\ DOMAIN lines = 1..Len(lines)
  OBVIOUS
<1>2. \A k \in 1..Len(lines) : Append(lines[k], NL) \in Seq(Tokens)
  <2>1. \A k \in 1..Len(lines) : lines[k] \in Texts
    BY <1>1
  <2>2. \A k \in 1..Len(lines) : Append(lines[k], NL) \in Texts
    BY <2>1, TextsMake
  <2>3. QED
    BY <2>2 DEF Texts
<1>3. /\ DOMAIN q = 1..Len(lines) /\ q = [k \in 1..Len(lines) |-> q[k]]
      /\ \A k \in 1..Len(lines) : q[k] \in Seq(Tokens)
  BY <1>1, <1>2
<1>4. Rebuilt(lines, rest) = w \o v \o w \o rest
  BY DEF Rebuilt
<1> HIDE DEF q
<1>5. v \in Texts
  BY <1>1, <1>3, FlattenKeeps DEF Texts
<1>6. w \in Texts
  <2>1. Dashes \in Tokens /\ NL \in Tokens
    BY InputAssumption
  <2> HIDE DEF Dashes, NL
  <2>2. QED
    BY <2>1 DEF Texts
<1> HIDE DEF v, w
<1>7. w \o v \in Texts
  BY <1>5, <1>6, TextsMake
<1>8. w \o v \o w \in Texts
  BY <1>6, <1>7, TextsMake
<1>9. w \o v \o w \o rest \in Texts
  BY <1>8, TextsMake
<1>10. QED
  BY <1>4, <1>9

(* The lines of a key and its value begin with the key's own, and behind    *)
(* it are items and empty lines.                                           *)
LEMMA ExtentIs ==
    ASSUME NEW lines, Len(lines) \in Nat, NEW k \in 1..Len(lines)
    PROVE  /\ Extent(lines, k) \in k..Len(lines)
           /\ \A i \in k + 1 .. Extent(lines, k) : Continues(lines[i]) \/ lines[i] = <<>>
<1> DEFINE within(j) == \A i \in k + 1 .. j : Continues(lines[i]) \/ lines[i] = <<>>
           ends == {j \in k .. Len(lines) : within(j) /\ (j = k \/ Continues(lines[j]))}
<1>1. k \in ends
  OBVIOUS
<1>2. ends \in SUBSET (1..Len(lines))
  OBVIOUS
<1>3. Extent(lines, k) = CHOOSE j \in ends : \A i \in ends : i <= j
  BY DEF Extent
<1>4. \A i \in ends : i \in Nat /\ i \in k..Len(lines) /\ within(i)
  OBVIOUS
<1> HIDE DEF ends
<1>5. PICK j \in ends : \A i \in ends : j >= i
  BY <1>1, <1>2, Taking!Extremes
<1>6. \A i \in ends : i <= j
  BY <1>4, <1>5
<1>7. Extent(lines, k) \in ends
  BY <1>3, <1>6
<1>8. QED
  BY <1>4, <1>7

(* Lines with a key's block replaced or taken out.                         *)
LEMMA WithoutIs ==
    ASSUME NEW S, NEW lines \in Seq(S), NEW key, NEW new \in Seq(S)
    PROVE  Without(lines, key, new) \in Seq(S)
<1> DEFINE k == CHOOSE j \in KeyLines(lines, key) : TRUE
           x == Extent(lines, k)
<1>1. CASE ~Has(lines, key)
  <2>1. lines \o new \in Seq(S)
    OBVIOUS
  <2>2. QED
    BY <1>1, <2>1 DEF Without
<1>2. CASE Has(lines, key)
  <2>1. k \in 1..Len(lines) /\ Len(lines) \in Nat
    BY <1>2 DEF Has, KeyLines
  <2>2. Without(lines, key, new) = SubSeq(lines, 1, k - 1) \o new \o SubSeq(lines, x + 1, Len(lines))
    BY <1>2 DEF Without
  <2> HIDE DEF k
  <2>3. x \in k..Len(lines)
    BY <2>1, ExtentIs
  <2> HIDE DEF x
  <2>4. SubSeq(lines, 1, k - 1) \in Seq(S) /\ SubSeq(lines, x + 1, Len(lines)) \in Seq(S)
    BY <2>1, <2>3
  <2> DEFINE u == SubSeq(lines, 1, k - 1)
             v == SubSeq(lines, x + 1, Len(lines))
  <2> HIDE DEF u, v
  <2>5. u \o new \o v \in Seq(S)
    BY <2>4 DEF u, v
  <2>6. QED
    BY <2>2, <2>5 DEF u, v
<1>3. QED
  BY <1>1, <1>2

(* The lines of a value that is set.                                       *)
LEMMA EmittedIs ==
    ASSUME NEW key \in Keys, NEW value \in Texts
    PROVE  Emitted(key, value) \in Seq(Texts)
<1>1. key \in Tokens /\ Item \in Tokens
  BY InputAssumption
<1> HIDE DEF Item
<1>2. value \in Seq(Tokens) /\ Len(value) \in Nat /\ \A k \in 1..Len(value) : value[k] \in Tokens
  BY DEF Texts
<1>3. <<key>> \in Seq(Tokens)
  BY <1>1
<1>4. <<key>> \o value \in Seq(Tokens)
  BY <1>2, <1>3
<1>5. <<<<key>>>> \in Seq(Texts) /\ <<<<key>> \o value>> \in Seq(Texts)
  <2> DEFINE a == <<key>>
             b == a \o value
  <2>1. a \in Texts /\ b \in Texts
    BY <1>3, <1>4 DEF Texts
  <2> HIDE DEF a, b
  <2>2. <<a>> \in Seq(Texts) /\ <<b>> \in Seq(Texts)
    BY <2>1
  <2>3. QED
    BY <2>2 DEF a, b
<1> DEFINE q == [k \in DOMAIN value |-> <<Item, value[k]>>]
<1>6. q \in Seq(Texts)
  <2>1. \A k \in 1..Len(value) : <<Item, value[k]>> \in Texts
    BY <1>1, <1>2 DEF Texts
  <2>2. q = [k \in 1..Len(value) |-> <<Item, value[k]>>]
    BY <1>2
  <2>3. QED
    BY <1>2, <2>1, <2>2
<1> DEFINE a == <<<<key>>>>
           b == <<<<key>> \o value>>
<1>7. Emitted(key, value) = IF Len(value) = 1 THEN b ELSE a \o q
  BY DEF Emitted
<1>8. a \in Seq(Texts) /\ b \in Seq(Texts)
  BY <1>5
<1> HIDE DEF a, b, q
<1>9. a \o q \in Seq(Texts)
  BY <1>6, <1>8
<1>10. QED
  BY <1>7, <1>8, <1>9

(* Setting and removing a property make a text of a text.                  *)
LEMMA PropertyKeeps ==
    ASSUME NEW t \in Texts, NEW e \in PropertyItems
    PROVE  PropertyTo(t, e) \in Texts
<1> DEFINE kept == Without(InnerLines(t), e.key, <<>>)
           set == Without(InnerLines(t), e.key, Emitted(e.key, e.value))
<1>1. e.key \in Keys /\ e.value \in Texts
  <2>1. e.key \in Keys /\ e.value \in Seq(Tokens \ {NL})
    BY DEF PropertyItems
  <2>2. e.value \in Seq(Tokens)
    BY <2>1
  <2>3. QED
    BY <2>1, <2>2 DEF Texts
<1>2. InnerLines(t) \in Seq(Texts) /\ Rest(t) \in Texts
  BY InnerIs
<1>3. Emitted(e.key, e.value) \in Seq(Texts)
  BY <1>1, EmittedIs
<1>4. set \in Seq(Texts) /\ kept \in Seq(Texts)
  <2>1. <<>> \in Seq(Texts)
    OBVIOUS
  <2>2. kept \in Seq(Texts)
    BY <1>2, <2>1, WithoutIs
  <2>3. set \in Seq(Texts)
    BY <1>2, <1>3, WithoutIs
  <2>4. QED
    BY <2>2, <2>3
<1>5. SetTo(t, e.key, e.value) = IF Parse(t).body = 0 THEN Rebuilt(Emitted(e.key, e.value), t)
                                 ELSE Rebuilt(set, Rest(t))
  BY DEF SetTo
<1>6. Removed(t, e.key) = IF \A k \in DOMAIN kept : kept[k] = <<>> THEN Rest(t) ELSE Rebuilt(kept, Rest(t))
  BY DEF Removed
<1> HIDE DEF set, kept
<1>7. SetTo(t, e.key, e.value) \in Texts
  <2>1. Rebuilt(Emitted(e.key, e.value), t) \in Texts
    BY <1>3, RebuiltIs
  <2>2. Rebuilt(set, Rest(t)) \in Texts
    BY <1>2, <1>4, RebuiltIs
  <2>3. QED
    BY <1>5, <2>1, <2>2
<1>8. Removed(t, e.key) \in Texts
  <2>1. Rebuilt(kept, Rest(t)) \in Texts
    BY <1>2, <1>4, RebuiltIs
  <2>2. QED
    BY <1>2, <1>6, <2>1
<1>9. QED
  BY <1>7, <1>8 DEF PropertyTo

Setting == INSTANCE Folding WITH Then <- PropertyTo, Pick <- Highest

(* The texts while items of edit_properties are applied one by one.        *)
Onward(c, items, t, N) == c[0] = t /\ \A n \in 1..N : c[n] = PropertyTo(c[n - 1], items[n])

(* There are such texts, and PropertiesTo is the last.                     *)
LEMMA PropertiesAre ==
    ASSUME NEW t, NEW items, NEW N \in Nat, DOMAIN items = 1..N
    PROVE  \E c : Onward(c, items, t, N) /\ PropertiesTo(t, items) = c[N]
<1> DEFINE f == CHOOSE g : Setting!IsFold(g, items, t, DOMAIN items)
<1>1. PropertiesTo(t, items) = f[DOMAIN items]
  BY DEF PropertiesTo, FoldLeft, MapThenFoldSet, Setting!IsFold, Setting!Turn, Highest
<1>2. f = CHOOSE g : Setting!IsFold(g, items, t, 1..N)
  OBVIOUS
<1> HIDE DEF f
<1>3. \A u \in SUBSET (1..N) : u # {} => Highest(u) \in u
  BY HighestIs
<1>4. Setting!IsFold(f, items, t, 1..N)
  BY <1>2, <1>3, Setting!FoldExists
<1>5. Setting!PicksLast(N)
  BY HighestIs DEF Setting!PicksLast
<1>6. PICK c : Setting!Onwards(c, items, t, N) /\ f[1..N] = c[N]
  BY <1>4, <1>5, Setting!LeftIsChain
<1>7. Onward(c, items, t, N)
  BY <1>6 DEF Onward, Setting!Onwards
<1>8. QED
  BY <1>1, <1>6, <1>7

(* A call of edit_properties makes a text of a text.                       *)
LEMMA PropertiesKeep ==
    ASSUME NEW t \in Texts, NEW items \in Seq(PropertyItems)
    PROVE  PropertiesTo(t, items) \in Texts
<1> DEFINE N == Len(items)
<1>1. N \in Nat /\ DOMAIN items = 1..N /\ \A k \in 1..N : items[k] \in PropertyItems
  OBVIOUS
<1> HIDE DEF N
<1>2. PICK c : Onward(c, items, t, N) /\ PropertiesTo(t, items) = c[N]
  BY <1>1, PropertiesAre
<1> DEFINE T == {n \in Nat : n <= N => c[n] \in Texts}
<1>3. 0 \in T
  BY <1>2 DEF Onward
<1>4. ASSUME NEW n \in T PROVE n + 1 \in T
  <2> SUFFICES ASSUME n + 1 <= N PROVE c[n + 1] \in Texts
    OBVIOUS
  <2>1. n \in Nat /\ n + 1 \in 1..N /\ (n + 1) - 1 = n
    BY <1>1
  <2>2. c[n + 1] = PropertyTo(c[n], items[n + 1])
    BY <1>2, <2>1 DEF Onward
  <2>3. c[n] \in Texts
    BY <1>1, <2>1
  <2>4. QED
    BY <1>1, <2>1, <2>2, <2>3, PropertyKeeps
<1>5. T = Nat
  <2> HIDE DEF T
  <2>1. T \in SUBSET Nat
    BY DEF T
  <2>2. QED
    BY <1>3, <1>4, <2>1, Taking!Grows
<1>6. QED
  BY <1>1, <1>2, <1>5

-----------------------------------------------------------------------------
(* Calls on the vault. *)

(* The items of a batch under one spelling, and the spellings of a note.   *)
GroupAt(batch, s) == {k \in DOMAIN batch : batch[k].note = s}
WriterAt(batch, n) == {k \in DOMAIN Groups(batch) : NoteOf[Groups(batch)[k]] = n}
Writers(batch, n) == Picked(Groups(batch), WriterAt(batch, n))

(* A group holds items of the batch.                                       *)
LEMMA GroupIs ==
    ASSUME NEW S, NEW batch \in Seq(S), NEW s
    PROVE  Group(batch, s) \in Seq(S) /\ Group(batch, s) = Picked(batch, GroupAt(batch, s))
<1>1. Group(batch, s) = Picked(batch, GroupAt(batch, s))
  BY DEF Group, Only, Picked, GroupAt
<1>2. GroupAt(batch, s) \in SUBSET (1..Len(batch))
  BY DEF GroupAt
<1>3. Picked(batch, GroupAt(batch, s)) \in Seq(S)
  BY <1>2, PickedIs
<1>4. QED
  BY <1>1, <1>3

(* The spelling whose group is written to a note is one of its spellings,  *)
(* and its group was looked at.                                            *)
LEMMA WriterIs ==
    ASSUME NEW batch, NEW n
    PROVE  /\ Groups(batch) \in Seq(Range(Spellings))
           /\ Writers(batch, n) # <<>> =>
                 Last(Writers(batch, n)) \in Range(Groups(batch)) /\ NoteOf[Last(Writers(batch, n))] = n
<1> DEFINE G == Groups(batch)
           W == Writers(batch, n)
           K == {k \in DOMAIN Spellings : Group(batch, Spellings[k]) # <<>>}
<1>1. G = Picked(Spellings, K)
  BY DEF Groups, Only, Picked
<1>2. Spellings \in Seq(Range(Spellings)) /\ K \in SUBSET (1..Len(Spellings))
  BY InputAssumption
<1> HIDE DEF K, G, W
<1>3. G \in Seq(Range(Spellings))
  BY <1>1, <1>2, PickedIs
<1>4. WriterAt(batch, n) \in SUBSET (1..Len(G)) /\ DOMAIN G = 1..Len(G) /\ Len(G) \in Nat
  BY <1>3 DEF WriterAt, G
<1>5. W = Picked(G, WriterAt(batch, n))
  BY DEF W, Writers, G
<1>6. W \in Seq(Range(Spellings)) /\ \A k \in 1..Len(W) : \E i \in WriterAt(batch, n) : W[k] = G[i]
  BY <1>3, <1>4, <1>5, PickedIs
<1>7. ASSUME W # <<>> PROVE Last(W) \in Range(G) /\ NoteOf[Last(W)] = n
  <2>1. Len(W) \in 1..Len(W)
    BY <1>6, <1>7
  <2>2. PICK i \in WriterAt(batch, n) : W[Len(W)] = G[i]
    BY <1>6, <2>1
  <2>3. i \in DOMAIN G /\ NoteOf[G[i]] = n
    BY DEF WriterAt, G
  <2>4. QED
    BY <2>2, <2>3 DEF Last, Range
<1>8. QED
  BY <1>3, <1>7 DEF G, W

(* What the three tools write to a note.                                   *)
LEMMA WrittenIs ==
    ASSUME NEW batch
    PROVE  LET W(n) == Writers(batch, n)
               G(n) == Group(batch, Last(W(n)))
           IN  /\ Written(batch, Patched) =
                     [n \in Notes |-> IF W(n) = <<>> THEN text[n] ELSE Patched(text[n], G(n))]
               /\ Written(batch, Replaced) =
                     [n \in Notes |-> IF W(n) = <<>> THEN text[n] ELSE Replaced(text[n], G(n))]
               /\ Written(batch, PropertiesTo) =
                     [n \in Notes |-> IF W(n) = <<>> THEN text[n] ELSE PropertiesTo(text[n], G(n))]
BY DEF Written, Only, Writers, WriterAt, Picked

(* Every note stays a sequence of tokens. *)
THEOREM TextsStay == Spec => []TypeOK
<1>1. Init => TypeOK
  BY InputAssumption DEF Init, TypeOK
<1>2. ASSUME TypeOK, [Next]_vars PROVE TypeOK'
  <2>1. text \in [Notes -> Texts] /\ calls \in Nat
    BY <1>2 DEF TypeOK
  <2>2. CASE UNCHANGED vars
    BY <2>1, <2>2 DEF vars, TypeOK
  <2>3. CASE Type
    <3>a. PICK n \in Notes : \E tok \in Alphabet[n] :
             text' = [text EXCEPT ![n] = Append(@, tok)] /\ UNCHANGED calls
      BY <2>3 DEF Type
    <3>1. PICK tok \in Alphabet[n] : text' = [text EXCEPT ![n] = Append(@, tok)] /\ UNCHANGED calls
      BY <3>a
    <3>2. tok \in Tokens /\ text[n] \in Texts
      BY <2>1, InputAssumption
    <3>3. Append(text[n], tok) \in Texts
      BY <3>2 DEF Texts
    <3>4. text' \in [Notes -> Texts]
      BY <2>1, <3>1, <3>3
    <3>5. QED
      BY <2>1, <3>1, <3>4 DEF TypeOK
  <2>4. CASE EditSections
    <3>1. PICK batch \in EditBatches : Run("edit_sections", batch, PatchOk, Patched)
      BY <2>4 DEF EditSections
    <3> DEFINE good == \A s \in Range(Groups(batch)) : PatchOk(text[NoteOf[s]], Group(batch, s))
               G(n) == Group(batch, Last(Writers(batch, n)))
    <3>2. calls' = calls + 1 /\ text' = IF good THEN Written(batch, Patched) ELSE text
      BY <3>1 DEF Run
    <3>3. batch \in Seq(Edits)
      BY InputAssumption
    <3>4. ASSUME NEW n \in Notes, good, Writers(batch, n) # <<>>
          PROVE  Patched(text[n], G(n)) \in Texts
      <4>1. Last(Writers(batch, n)) \in Range(Groups(batch)) /\ NoteOf[Last(Writers(batch, n))] = n
        BY <3>4, WriterIs
      <4>2. PatchOk(text[n], G(n))
        BY <3>4, <4>1
      <4>3. G(n) \in Seq(Edits) /\ text[n] \in Texts
        BY <2>1, <3>3, GroupIs
      <4>4. QED
        BY <4>2, <4>3, PatchedKeeps
    <3>5. Written(batch, Patched) =
             [n \in Notes |-> IF Writers(batch, n) = <<>> THEN text[n] ELSE Patched(text[n], G(n))]
      BY WrittenIs
    <3> HIDE DEF good, G
    <3>6. text' \in [Notes -> Texts]
      BY <2>1, <3>2, <3>4, <3>5
    <3>7. QED
      BY <2>1, <3>2, <3>6 DEF TypeOK
  <2>5. CASE ReplaceText
    <3>1. PICK batch \in ReplaceBatches : Run("replace_text", batch, ReplaceOk, Replaced)
      BY <2>5 DEF ReplaceText
    <3> DEFINE G(n) == Group(batch, Last(Writers(batch, n)))
    <3>2. calls' = calls + 1 /\ (text' = Written(batch, Replaced) \/ text' = text)
      BY <3>1 DEF Run
    <3>3. batch \in Seq(Replacements)
      BY InputAssumption
    <3>4. ASSUME NEW n \in Notes PROVE Replaced(text[n], G(n)) \in Texts
      <4>1. G(n) \in Seq(Replacements) /\ text[n] \in Texts
        BY <2>1, <3>3, GroupIs
      <4>2. QED
        BY <4>1, ReplacedKeeps
    <3>5. Written(batch, Replaced) =
             [n \in Notes |-> IF Writers(batch, n) = <<>> THEN text[n] ELSE Replaced(text[n], G(n))]
      BY WrittenIs
    <3> HIDE DEF G
    <3>6. text' \in [Notes -> Texts]
      BY <2>1, <3>2, <3>4, <3>5
    <3>7. QED
      BY <2>1, <3>2, <3>6 DEF TypeOK
  <2>6. CASE EditProperties
    <3>1. PICK batch \in PropertyBatches : Run("edit_properties", batch, PropertiesOk, PropertiesTo)
      BY <2>6 DEF EditProperties
    <3> DEFINE G(n) == Group(batch, Last(Writers(batch, n)))
    <3>2. calls' = calls + 1 /\ (text' = Written(batch, PropertiesTo) \/ text' = text)
      BY <3>1 DEF Run
    <3>3. batch \in Seq(PropertyItems)
      BY InputAssumption
    <3>4. ASSUME NEW n \in Notes PROVE PropertiesTo(text[n], G(n)) \in Texts
      <4>1. G(n) \in Seq(PropertyItems) /\ text[n] \in Texts
        BY <2>1, <3>3, GroupIs
      <4>2. QED
        BY <4>1, PropertiesKeep
    <3>5. Written(batch, PropertiesTo) =
             [n \in Notes |-> IF Writers(batch, n) = <<>> THEN text[n] ELSE PropertiesTo(text[n], G(n))]
      BY WrittenIs
    <3> HIDE DEF G
    <3>6. text' \in [Notes -> Texts]
      BY <2>1, <3>2, <3>4, <3>5
    <3>7. QED
      BY <2>1, <3>2, <3>6 DEF TypeOK
  <2>7. QED
    BY <1>2, <2>2, <2>3, <2>4, <2>5, <2>6 DEF Next
<1>3. QED
  BY <1>1, <1>2, PTL DEF Spec

(* An outline's rows lead back to their headings, and a section or the root *)
(* given back as it was read changes nothing, whatever the text.           *)
THEOREM EchoesAreNeutral == Spec => []EchoIsNeutral
<1>1. TypeOK => EchoIsNeutral
  BY EchoHolds DEF TypeOK
<1>2. QED
  BY <1>1, TextsStay, PTL

-----------------------------------------------------------------------------
(* Where the splices of replace_text go. *)

(* Two splices that take something and leave each other alone.             *)
Clear(a, b) == a.stop <= b.start \/ b.stop <= a.start
AllClear(u) ==
    /\ \A i \in 1..Len(u) : u[i].start < u[i].stop
    /\ \A i, j \in 1..Len(u) : i # j => Clear(u[i], u[j])
(* u has the elements of q[1] to q[k] and no other. *)
HasAll(u, q, k) ==
    /\ \A x \in 1..Len(u) : \E i \in 1..k : \E y \in 1..Len(q[i]) : u[x] = q[i][y]
    /\ \A i \in 1..k : \A y \in 1..Len(q[i]) : \E x \in 1..Len(u) : u[x] = q[i][y]
AcrossClear(q, N) ==
    \A i, j \in 1..N : i # j =>
        \A x \in 1..Len(q[i]), y \in 1..Len(q[j]) : Clear(q[i][x], q[j][y])

(* One more sequence of splices that leave the others alone.               *)
LEMMA ClearGrows ==
    ASSUME NEW S, NEW N \in Nat, NEW q, NEW k \in Nat, k + 1 <= N,
           NEW u \in Seq(S), q[k + 1] \in Seq(S), \A i \in 1..N : AllClear(q[i]), AcrossClear(q, N),
           AllClear(u), HasAll(u, q, k)
    PROVE  AllClear(u \o q[k + 1]) /\ HasAll(u \o q[k + 1], q, k + 1)
<1> DEFINE v == q[k + 1]
           w == u \o v
<1>1. k + 1 \in 1..N /\ \A i \in 1..k : i \in 1..N /\ i # k + 1 /\ i \in 1 .. k + 1
  OBVIOUS
<1>2. u \in Seq(S) /\ v \in Seq(S) /\ AllClear(v)
  BY <1>1
<1>3. \A i \in 1..k : \A y \in 1..Len(q[i]), z \in 1..Len(v) : Clear(q[i][y], v[z]) /\ Clear(v[z], q[i][y])
  BY <1>1 DEF AcrossClear
<1> HIDE DEF v, w
<1>4. Len(u) \in Nat /\ Len(v) \in Nat
  BY <1>2
<1>5. /\ Len(w) = Len(u) + Len(v)
      /\ \A i \in 1..Len(u) : w[i] = u[i]
      /\ \A i \in 1..Len(v) : w[Len(u) + i] = v[i]
  BY ONLY <1>2, JoinIs DEF w
<1>6. \A x \in 1..Len(w) : x \in 1..Len(u) \/ \E z \in 1..Len(v) : x = Len(u) + z
  <2> SUFFICES ASSUME NEW x \in 1..Len(w), x \notin 1..Len(u) PROVE \E z \in 1..Len(v) : x = Len(u) + z
    OBVIOUS
  <2>1. x - Len(u) \in 1..Len(v) /\ x = Len(u) + (x - Len(u))
    BY <1>4, <1>5
  <2>2. QED
    BY <2>1
<1>7. \A x \in 1..Len(u), z \in 1..Len(v) : Clear(u[x], v[z]) /\ Clear(v[z], u[x])
  <2> SUFFICES ASSUME NEW x \in 1..Len(u), NEW z \in 1..Len(v)
               PROVE  Clear(u[x], v[z]) /\ Clear(v[z], u[x])
    OBVIOUS
  <2>1. PICK i \in 1..k : \E y \in 1..Len(q[i]) : u[x] = q[i][y]
    BY DEF HasAll
  <2>2. PICK y \in 1..Len(q[i]) : u[x] = q[i][y]
    BY <2>1
  <2>3. QED
    BY <1>3, <2>2
<1>8. AllClear(w)
  <2>1. ASSUME NEW x \in 1..Len(w) PROVE w[x].start < w[x].stop
    <3>1. CASE x \in 1..Len(u)
      BY <1>5, <3>1 DEF AllClear
    <3>2. CASE \E z \in 1..Len(v) : x = Len(u) + z
      <4>1. PICK z \in 1..Len(v) : x = Len(u) + z
        BY <3>2
      <4>2. w[x] = v[z]
        BY <1>5, <4>1
      <4>3. QED
        BY <1>2, <4>2 DEF AllClear
    <3>3. QED
      BY <1>6, <3>1, <3>2
  <2>2. ASSUME NEW x \in 1..Len(w), NEW y \in 1..Len(w), x # y PROVE Clear(w[x], w[y])
    <3>1. CASE x \in 1..Len(u) /\ y \in 1..Len(u)
      BY <1>5, <2>2, <3>1 DEF AllClear
    <3>2. CASE x \in 1..Len(u) /\ \E z \in 1..Len(v) : y = Len(u) + z
      <4>1. PICK z \in 1..Len(v) : y = Len(u) + z
        BY <3>2
      <4>2. w[y] = v[z] /\ w[x] = u[x]
        BY <1>5, <3>2, <4>1
      <4>3. QED
        BY <1>7, <3>2, <4>2
    <3>3. CASE y \in 1..Len(u) /\ \E z \in 1..Len(v) : x = Len(u) + z
      <4>1. PICK z \in 1..Len(v) : x = Len(u) + z
        BY <3>3
      <4>2. w[x] = v[z] /\ w[y] = u[y]
        BY <1>5, <3>3, <4>1
      <4>3. QED
        BY <1>7, <3>3, <4>2
    <3>4. CASE (\E z \in 1..Len(v) : x = Len(u) + z) /\ (\E z \in 1..Len(v) : y = Len(u) + z)
      <4>1. PICK a \in 1..Len(v) : x = Len(u) + a
        BY <3>4
      <4>2. PICK b \in 1..Len(v) : y = Len(u) + b
        BY <3>4
      <4>3. w[x] = v[a] /\ w[y] = v[b] /\ a # b
        BY <1>5, <2>2, <4>1, <4>2
      <4>4. QED
        BY <1>2, <4>3 DEF AllClear
    <3>5. QED
      BY <1>6, <3>1, <3>2, <3>3, <3>4
  <2>3. QED
    BY <2>1, <2>2 DEF AllClear
<1>9. HasAll(w, q, k + 1)
  <2>1. ASSUME NEW x \in 1..Len(w) PROVE \E i \in 1 .. k + 1 : \E y \in 1..Len(q[i]) : w[x] = q[i][y]
    <3>1. CASE x \in 1..Len(u)
      <4>1. PICK i \in 1..k : \E y \in 1..Len(q[i]) : u[x] = q[i][y]
        BY <3>1 DEF HasAll
      <4>2. w[x] = u[x] /\ i \in 1 .. k + 1
        BY <1>1, <1>5, <3>1
      <4>3. QED
        BY <4>1, <4>2
    <3>2. CASE \E z \in 1..Len(v) : x = Len(u) + z
      <4>1. PICK z \in 1..Len(v) : x = Len(u) + z
        BY <3>2
      <4>2. w[x] = v[z] /\ k + 1 \in 1 .. k + 1
        BY <1>5, <4>1
      <4>3. QED
        BY <4>2 DEF v
    <3>3. QED
      BY <1>6, <3>1, <3>2
  <2>2. ASSUME NEW i \in 1 .. k + 1, NEW y \in 1..Len(q[i]) PROVE \E x \in 1..Len(w) : w[x] = q[i][y]
    <3>1. CASE i \in 1..k
      <4>1. PICK x \in 1..Len(u) : u[x] = q[i][y]
        BY <3>1 DEF HasAll
      <4>2. x \in 1..Len(w) /\ w[x] = u[x]
        BY <1>4, <1>5
      <4>3. QED
        BY <4>1, <4>2
    <3>2. CASE i = k + 1
      <4>1. y \in 1..Len(v) /\ q[i][y] = v[y]
        BY <3>2 DEF v
      <4>2. Len(u) + y \in 1..Len(w) /\ w[Len(u) + y] = v[y]
        BY <1>4, <1>5, <4>1
      <4>3. QED
        BY <4>1, <4>2
    <3>3. i \in 1..k \/ i = k + 1
      OBVIOUS
    <3>4. QED
      BY <3>1, <3>2, <3>3
  <2>3. QED
    BY <2>1, <2>2 DEF HasAll
<1>10. QED
  BY <1>8, <1>9 DEF w, v

(* Sequences of splices that leave each other alone, glued together.       *)
LEMMA FlattenClear ==
    ASSUME NEW S, NEW N \in Nat, NEW q, DOMAIN q = 1..N, q = [k \in 1..N |-> q[k]],
           \A k \in 1..N : q[k] \in Seq(S),
           \A k \in 1..N : AllClear(q[k]), AcrossClear(q, N)
    PROVE  AllClear(FlattenSeq(q)) /\ HasAll(FlattenSeq(q), q, N)
<1>1. Len(q) = N /\ (N = 0 => q = <<>>)
  <2>1. q \in Seq(Seq(S)) /\ Len(q) = N
    OBVIOUS
  <2>2. QED
    BY ONLY <2>1
<1>2. Pieces(q, N, S)
  BY <1>1 DEF Pieces
<1>3. PICK c : IsGlued(c, q, N, S) /\ FlattenSeq(q) = c[N]
  BY ONLY N \in Nat, <1>1, <1>2, FlattenIs
<1> DEFINE P(k) == k <= N => AllClear(c[k]) /\ HasAll(c[k], q, k)
           T == {k \in Nat : P(k)}
<1>4. P(0)
  <2>1. c[0] = <<>>
    BY <1>3 DEF IsGlued
  <2>2. AllClear(<<>>) /\ HasAll(<<>>, q, 0)
    BY DEF AllClear, HasAll
  <2>3. QED
    BY <2>1, <2>2
<1>5. ASSUME NEW k \in Nat, P(k) PROVE P(k + 1)
  <2> SUFFICES ASSUME k + 1 <= N PROVE AllClear(c[k + 1]) /\ HasAll(c[k + 1], q, k + 1)
    OBVIOUS
  <2>1. k + 1 \in 1..N /\ (k + 1) - 1 = k /\ k <= N /\ k \in 0..N
    OBVIOUS
  <2>2. c[k + 1] = c[k] \o q[k + 1] /\ c[k] \in Seq(S)
    BY <1>3, <2>1 DEF IsGlued
  <2>3. AllClear(c[k]) /\ HasAll(c[k], q, k) /\ q[k + 1] \in Seq(S)
    BY <1>5, <2>1
  <2>4. AllClear(c[k] \o q[k + 1]) /\ HasAll(c[k] \o q[k + 1], q, k + 1)
    BY <2>2, <2>3, ClearGrows
  <2>5. QED
    BY <2>2, <2>4
<1> HIDE DEF P
<1>6. \A k \in T : k + 1 \in T
  BY <1>5
<1>7. 0 \in T /\ T \in SUBSET Nat
  BY <1>4
<1> HIDE DEF T
<1>8. T = Nat
  BY ONLY <1>6, <1>7, Taking!Grows
<1>9. P(N)
  BY <1>8 DEF T
<1>10. QED
  BY <1>3, <1>9 DEF P

(* The splices of an accepted call leave each other alone.                 *)
LEMMA SplicesAreClear ==
    ASSUME NEW t \in Texts, NEW items \in Seq(Replacements), ReplaceOk(t, items)
    PROVE  LET A == AllSplices(t, items)
               q == [k \in DOMAIN items |-> ItemSplices(t, Parse(t), items[k])]
           IN  A \in Seq(Cuts(t)) /\ AllClear(A) /\ HasAll(A, q, Len(items))
<1> DEFINE d == Parse(t)
           q == [k \in DOMAIN items |-> ItemSplices(t, d, items[k])]
           N == Len(items)
<1>1. AllSplices(t, items) = FlattenSeq(q)
  BY DEF AllSplices
<1>2. IsDoc(d, t)
  BY DocIs
<1>a. /\ \A k \in DOMAIN items : ItemOk(t, d, items[k])
      /\ \A j, k \in DOMAIN items : j < k =>
            \A a \in Range(ItemSplices(t, d, items[j])), b \in Range(ItemSplices(t, d, items[k])) :
               ~CrossOnly(a, b)
  BY DEF ReplaceOk
<1> HIDE DEF d
<1>3. N \in Nat /\ DOMAIN items = 1..N
  OBVIOUS
<1>4. \A k \in 1..N : items[k] \in Replacements /\ items[k].find # <<>>
  BY <1>3, <1>a DEF ItemOk
<1>5. \A k \in 1..N : Len(items[k].find) > 0
  <2> SUFFICES ASSUME NEW k \in 1..N PROVE Len(items[k].find) > 0
    OBVIOUS
  <2>1. items[k].find \in Seq(Tokens) /\ items[k].find # <<>>
    BY <1>4 DEF Replacements, Texts
  <2>2. QED
    BY <2>1
<1>6. DOMAIN q = 1..N /\ \A k \in 1..N : q[k] = ItemSplices(t, d, items[k])
  BY <1>3
<1>b. q = [k \in 1..N |-> q[k]]
  BY <1>3
<1> HIDE DEF q, N
<1>7. ASSUME NEW k \in 1..N
      PROVE  /\ q[k] \in Seq(Cuts(t))
             /\ \A x \in 1..Len(q[k]) : /\ q[k][x].stop = q[k][x].start + Len(items[k].find)
                                        /\ q[k][x].foot = <<q[k][x].start, q[k][x].stop>>
             /\ \A x, y \in 1..Len(q[k]) : x < y => q[k][x].stop <= q[k][y].start
  BY <1>2, <1>4, <1>6, ItemIsCuts
<1>8. \A k \in 1..N : \A x \in 1..Len(q[k]) :
         q[k][x] \in Cuts(t) /\ q[k][x].start \in Nat /\ q[k][x].stop \in Nat
  <2> SUFFICES ASSUME NEW k \in 1..N, NEW x \in 1..Len(q[k])
               PROVE q[k][x] \in Cuts(t) /\ q[k][x].start \in Nat /\ q[k][x].stop \in Nat
    OBVIOUS
  <2>1. q[k][x] \in Cuts(t) /\ Len(t) \in Nat
    BY <1>7 DEF Texts
  <2>2. QED
    BY <2>1 DEF Cuts, Spots
<1>9. ASSUME NEW k \in 1..N PROVE AllClear(q[k])
  <2>1. ASSUME NEW x \in 1..Len(q[k]) PROVE q[k][x].start < q[k][x].stop
    <3>1. q[k][x].stop = q[k][x].start + Len(items[k].find) /\ q[k][x].start \in Nat /\ q[k][x].stop \in Nat
      BY <1>7, <1>8
    <3>2. Len(items[k].find) > 0 /\ Len(items[k].find) \in Nat
      BY <1>4, <1>5 DEF Replacements, Texts
    <3>3. QED
      BY <3>1, <3>2
  <2>2. ASSUME NEW x \in 1..Len(q[k]), NEW y \in 1..Len(q[k]), x # y PROVE Clear(q[k][x], q[k][y])
    <3>1. Len(q[k]) \in Nat
      BY <1>7
    <3>2. x < y \/ y < x
      BY <2>2, <3>1
    <3>3. QED
      BY <1>7, <3>2 DEF Clear
  <2>3. QED
    BY <2>1, <2>2 DEF AllClear
<1>10. AcrossClear(q, N)
  <2>1. ASSUME NEW i \in 1..N, NEW j \in 1..N, i < j,
               NEW x \in 1..Len(q[i]), NEW y \in 1..Len(q[j])
        PROVE  Clear(q[i][x], q[j][y])
    <3>1. q[i][x] \in Range(q[i]) /\ q[j][y] \in Range(q[j])
      BY <1>7 DEF Range
    <3>2. ~CrossOnly(q[i][x], q[j][y])
      BY <1>3, <1>6, <1>a, <2>1, <3>1
    <3>3. /\ q[i][x].foot = <<q[i][x].start, q[i][x].stop>>
          /\ q[j][y].foot = <<q[j][y].start, q[j][y].stop>>
          /\ q[i][x].start \in Nat /\ q[i][x].stop \in Nat /\ q[j][y].start \in Nat /\ q[j][y].stop \in Nat
      BY <1>7, <1>8
    <3>4. QED
      BY <3>2, <3>3, SMTT(60) DEF CrossOnly, Clear
  <2>2. \A a, b : Clear(a, b) => Clear(b, a)
    BY DEF Clear
  <2>3. \A i, j \in 1..N : i # j => i < j \/ j < i
    BY <1>3
  <2>4. QED
    BY <2>1, <2>2, <2>3 DEF AcrossClear
<1>11. FlattenSeq(q) \in Seq(Cuts(t))
  BY <1>3, <1>6, <1>7, <1>b, FlattenKeeps
<1>12. AllClear(FlattenSeq(q)) /\ HasAll(FlattenSeq(q), q, N)
  <2>1. \A k \in 1..N : q[k] \in Seq(Cuts(t))
    BY <1>7
  <2>2. QED
    BY ONLY <1>3, <1>6, <1>9, <1>10, <1>b, <2>1, FlattenClear
<1>13. QED
  BY <1>1, <1>11, <1>12 DEF q, N, d

(* Splices in a line: each takes something, behind the one before it.      *)
InLine(o) ==
    /\ \A i \in 1..Len(o) : o[i].start \in Nat /\ o[i].stop \in Nat /\ o[i].start < o[i].stop
    /\ \A j, k \in 1..Len(o) : j < k => o[j].stop <= o[k].start
SameMembers(u, v) ==
    /\ \A i \in 1..Len(u) : \E k \in 1..Len(v) : u[i] = v[k]
    /\ \A k \in 1..Len(v) : \E i \in 1..Len(u) : u[i] = v[k]

(* Splices that leave each other alone are in a line once sorted.          *)
LEMMA SortedInLine ==
    ASSUME NEW t \in Texts, NEW u \in Seq(Cuts(t)), AllClear(u)
    PROVE  Sorted(u) \in Seq(Cuts(t)) /\ InLine(Sorted(u)) /\ SameMembers(Sorted(u), u)
<1> DEFINE N == Len(u)
           o == Sorted(u)
<1>1. N \in Nat /\ DOMAIN u = 1..N /\ \A k \in 1..N : u[k] \in Cuts(t)
  OBVIOUS
<1>2. \A k \in 1..N : u[k].start \in Nat /\ u[k].stop \in Nat
  <2>1. Len(t) \in Nat
    BY DEF Texts
  <2>2. QED
    BY <1>1, <2>1 DEF Cuts, Spots
<1>a. o \in Seq(Cuts(t)) /\ Len(o) = N
  BY SortedCuts
<1> HIDE DEF N
<1>3. PICK p : IsOrder(p, u, N)
  BY <1>1, <1>2, SortedIs
<1>4. /\ p \in [1..N -> 1..N] /\ o = [n \in 1..N |-> u[p[n]]]
      /\ \A m, n \in 1..N : m < n => Ahead(u, p[m], p[n])
      /\ \A k \in 1..N : \E n \in 1..N : p[n] = k
  BY <1>3 DEF IsOrder
<1> HIDE DEF o
<1>5. \A n \in 1..N : o[n] = u[p[n]] /\ p[n] \in 1..N
  BY <1>4
<1>6. \A i \in 1..N : u[i].start < u[i].stop
  BY DEF AllClear, N
<1>7. ASSUME NEW j \in 1..N, NEW k \in 1..N, j < k PROVE o[j].stop <= o[k].start
  <2> DEFINE a == p[j]
             b == p[k]
  <2>1. a \in 1..N /\ b \in 1..N /\ o[j] = u[a] /\ o[k] = u[b] /\ Ahead(u, a, b)
    BY <1>4, <1>5, <1>7
  <2> HIDE DEF a, b
  <2>2. a # b
    BY <1>1, <1>2, <2>1 DEF Ahead
  <2>3. u[a].stop <= u[b].start \/ u[b].stop <= u[a].start
    BY <2>1, <2>2 DEF AllClear, Clear, N
  <2>4. u[a].start <= u[b].start
    BY <1>2, <2>1 DEF Ahead
  <2>5. QED
    BY <1>2, <1>6, <2>1, <2>3, <2>4
<1>8. InLine(o)
  <2>1. \A i \in 1..N : o[i].start \in Nat /\ o[i].stop \in Nat /\ o[i].start < o[i].stop
    BY <1>2, <1>5, <1>6
  <2>2. QED
    BY <1>7, <1>a, <2>1 DEF InLine
<1>9. SameMembers(o, u)
  <2>1. \A i \in 1..N : \E k \in 1..N : o[i] = u[k]
    BY <1>5
  <2>2. \A k \in 1..N : \E i \in 1..N : o[i] = u[k]
    BY <1>4, <1>5
  <2>3. QED
    BY <1>a, <2>1, <2>2 DEF SameMembers, N
<1>10. QED
  BY <1>8, <1>9, <1>a DEF o

(* Two lines of the same splices are the same.                             *)
LEMMA LinesAgree ==
    ASSUME NEW S, NEW u \in Seq(S), NEW v \in Seq(S), InLine(u), InLine(v), SameMembers(u, v)
    PROVE  u = v
<1> DEFINE At(w, i) == w[i].start
<1>1. Len(u) \in Nat /\ Len(v) \in Nat
  OBVIOUS
<1>2. \A j, k \in 1..Len(u) : j < k => u[j].start < u[k].start
  BY DEF InLine
<1>3. \A j, k \in 1..Len(v) : j < k => v[j].start < v[k].start
  BY DEF InLine
<1>a. /\ \A i \in 1..Len(u) : u[i].start \in Nat
      /\ \A i \in 1..Len(v) : v[i].start \in Nat
  BY DEF InLine
<1> DEFINE Bad == {i \in Nat : i \in 1..Len(u) /\ i \in 1..Len(v) /\ u[i] # v[i]}
<1>4. Bad = {}
  <2> SUFFICES ASSUME Bad # {} PROVE FALSE
    OBVIOUS
  <2>1. PICK i \in Bad : \A j \in Bad : i <= j
    <3>1. Bad \in SUBSET Nat
      OBVIOUS
    <3> HIDE DEF Bad
    <3>2. QED
      BY <3>1, Taking!Least
  <2>2. i \in 1..Len(u) /\ i \in 1..Len(v) /\ u[i] # v[i] /\ i \in Nat
    OBVIOUS
  <2>3. \A j \in 1 .. i - 1 : j \in 1..Len(u) /\ j \in 1..Len(v) /\ u[j] = v[j]
    <3> SUFFICES ASSUME NEW j \in 1 .. i - 1
                 PROVE  j \in 1..Len(u) /\ j \in 1..Len(v) /\ u[j] = v[j]
      OBVIOUS
    <3>1. j \in 1..Len(u) /\ j \in 1..Len(v) /\ j \in Nat /\ ~(i <= j)
      BY <1>1, <2>2
    <3>2. j \notin Bad
      BY <2>1, <3>1
    <3>3. QED
      BY <3>1, <3>2
  <2>4. PICK j \in 1..Len(v) : u[i] = v[j]
    BY <2>2 DEF SameMembers
  <2>5. PICK k \in 1..Len(u) : u[k] = v[i]
    BY <2>2 DEF SameMembers
  <2>6. ~(j < i)
    <3> SUFFICES ASSUME j < i PROVE FALSE
      OBVIOUS
    <3>1. j \in 1 .. i - 1
      BY <1>1, <2>2
    <3>2. j \in 1..Len(u) /\ u[j] = u[i]
      BY <2>3, <2>4, <3>1
    <3>3. u[j].start < u[i].start /\ u[i].start \in Nat
      BY <1>2, <1>a, <2>2, <3>2
    <3>4. QED
      BY <3>2, <3>3
  <2>7. ~(k < i)
    <3> SUFFICES ASSUME k < i PROVE FALSE
      OBVIOUS
    <3>1. k \in 1 .. i - 1
      BY <1>1, <2>2
    <3>2. k \in 1..Len(v) /\ v[k] = v[i]
      BY <2>3, <2>5, <3>1
    <3>3. v[k].start < v[i].start /\ v[i].start \in Nat
      BY <1>3, <1>a, <2>2, <3>2
    <3>4. QED
      BY <3>2, <3>3
  <2>8. j # i /\ k # i
    BY <2>2, <2>4, <2>5
  <2>9. i < j /\ i < k
    BY <1>1, <2>2, <2>6, <2>7, <2>8
  <2>10. v[i].start < v[j].start /\ u[i].start < u[k].start
    BY <1>2, <1>3, <2>2, <2>9
  <2>11. v[i].start < u[i].start /\ u[i].start < v[i].start
    BY <2>4, <2>5, <2>10
  <2>12. u[i].start \in Nat /\ v[i].start \in Nat
    BY <1>a, <2>2
  <2>13. QED
    BY <2>11, <2>12
<1>5. \A i : i \in 1..Len(u) /\ i \in 1..Len(v) => u[i] = v[i]
  <2> SUFFICES ASSUME NEW i, i \in 1..Len(u), i \in 1..Len(v) PROVE u[i] = v[i]
    OBVIOUS
  <2>1. i \in Nat /\ i \notin Bad
    BY <1>4
  <2>2. QED
    BY <2>1
<1> HIDE DEF Bad
<1>6. ASSUME Len(u) < Len(v) PROVE FALSE
  <2> DEFINE i == Len(u) + 1
  <2>1. i \in 1..Len(v)
    BY <1>1, <1>6
  <2>2. PICK k \in 1..Len(u) : u[k] = v[i]
    BY <2>1 DEF SameMembers
  <2>3. k \in 1..Len(v) /\ k < i
    BY <1>1, <1>6
  <2> HIDE DEF i
  <2>4. v[k] = v[i] /\ v[k].start < v[i].start /\ v[i].start \in Nat
    BY <1>3, <1>5, <1>a, <2>1, <2>2, <2>3
  <2>5. QED
    BY <2>4
<1>7. ASSUME Len(v) < Len(u) PROVE FALSE
  <2> DEFINE i == Len(v) + 1
  <2>1. i \in 1..Len(u)
    BY <1>1, <1>7
  <2>2. PICK k \in 1..Len(v) : u[i] = v[k]
    BY <2>1 DEF SameMembers
  <2>3. k \in 1..Len(u) /\ k < i
    BY <1>1, <1>7
  <2> HIDE DEF i
  <2>4. u[k] = u[i] /\ u[k].start < u[i].start /\ u[i].start \in Nat
    BY <1>2, <1>5, <1>a, <2>1, <2>2, <2>3
  <2>5. QED
    BY <2>4
<1>8. Len(u) = Len(v)
  BY <1>1, <1>6, <1>7
<1>9. QED
  BY <1>5, <1>8, SeqEqual

(* u has elements of s at indices of K, in their order.                    *)
InOrder(u, s, K) ==
    \A j, k \in 1..Len(u) : j < k => \E i, l \in K : i < l /\ u[j] = s[i] /\ u[k] = s[l]

(* The elements picked out of a sequence keep their order.                 *)
LEMMA PickedOrder ==
    ASSUME NEW S, NEW s \in Seq(S), NEW K \in SUBSET (1..Len(s))
    PROVE  InOrder(Picked(s, K), s, K)
<1> DEFINE at == Ascending(K, Len(s))
           u == Picked(s, K)
<1>1. Len(s) \in Nat
  OBVIOUS
<1>2. IsRow(at, K, Len(s) + 1)
  BY <1>1, AscendingIs
<1>3. u = [x \in DOMAIN at |-> s[at[x]]]
  BY DEF Picked
<1> HIDE DEF at, u
<1>4. Len(at) \in Nat /\ DOMAIN at = 1..Len(at)
  BY <1>2 DEF IsRow
<1>5. Len(u) = Len(at)
  BY ONLY <1>3, <1>4
<1>6. ASSUME NEW j \in 1..Len(u), NEW k \in 1..Len(u), j < k
      PROVE  \E i, l \in K : i < l /\ u[j] = s[i] /\ u[k] = s[l]
  <2>1. j \in 1..Len(at) /\ k \in 1..Len(at)
    BY <1>5
  <2>2. at[j] \in K /\ at[k] \in K /\ at[j] < at[k]
    BY <1>2, <1>6, <2>1 DEF IsRow
  <2>3. u[j] = s[at[j]] /\ u[k] = s[at[k]]
    BY <1>3, <1>4, <2>1
  <2>4. QED
    BY <2>2, <2>3
<1>7. InOrder(u, s, K)
  BY <1>6 DEF InOrder
<1>8. QED
  BY <1>7 DEF u

(* The splices of a line in front of one of them.                          *)
LEMMA FrontOfLine ==
    ASSUME NEW S, NEW o \in Seq(S), InLine(o), NEW z \in 1..Len(o)
    PROVE  LET h == SubSeq(o, 1, z - 1) IN
           /\ h \in Seq(S) /\ Len(h) = z - 1 /\ \A k \in 1 .. z - 1 : h[k] = o[k]
           /\ InLine(h)
           /\ \A k \in 1..Len(o) : o[k].start < o[z].start <=> k < z
<1> DEFINE h == SubSeq(o, 1, z - 1)
<1>1. Len(o) \in Nat /\ z \in Nat /\ z - 1 \in Nat
  OBVIOUS
<1>2. h \in Seq(S) /\ Len(h) = z - 1 /\ \A k \in 1 .. z - 1 : h[k] = o[k]
  BY <1>1
<1> HIDE DEF h
<1>3. \A k \in 1 .. z - 1 : k \in 1..Len(o)
  BY <1>1
<1>4. InLine(h)
  <2>1. \A k \in 1..Len(h) : h[k].start \in Nat /\ h[k].stop \in Nat /\ h[k].start < h[k].stop
    <3> SUFFICES ASSUME NEW k \in 1..Len(h)
                 PROVE  h[k].start \in Nat /\ h[k].stop \in Nat /\ h[k].start < h[k].stop
      OBVIOUS
    <3>1. k \in 1..Len(o) /\ h[k] = o[k]
      BY <1>2, <1>3
    <3>2. QED
      BY <3>1 DEF InLine
  <2>2. \A j, k \in 1..Len(h) : j < k => h[j].stop <= h[k].start
    <3> SUFFICES ASSUME NEW j \in 1..Len(h), NEW k \in 1..Len(h), j < k PROVE h[j].stop <= h[k].start
      OBVIOUS
    <3>1. j \in 1..Len(o) /\ h[j] = o[j] /\ k \in 1..Len(o) /\ h[k] = o[k]
      BY <1>2, <1>3
    <3>2. QED
      BY <3>1 DEF InLine
  <2>3. QED
    BY <2>1, <2>2 DEF InLine
<1>5. ASSUME NEW k \in 1..Len(o) PROVE o[k].start < o[z].start <=> k < z
  <2>1. /\ o[k].start \in Nat /\ o[k].stop \in Nat /\ o[k].start < o[k].stop
        /\ o[z].start \in Nat /\ o[z].stop \in Nat /\ o[z].start < o[z].stop
    BY DEF InLine
  <2>2. k < z => o[k].stop <= o[z].start
    BY DEF InLine
  <2>3. z < k => o[z].stop <= o[k].start
    BY DEF InLine
  <2>4. k < z \/ k = z \/ z < k
    BY <1>1
  <2>5. QED
    BY <1>1, <2>1, <2>2, <2>3, <2>4
<1>6. QED
  BY <1>2, <1>4, <1>5 DEF h

(* Picked from splices in any order, and sorted, they are the same.        *)
LEMMA FrontIsPicked ==
    ASSUME NEW t \in Texts, NEW A \in Seq(Cuts(t)), AllClear(A), NEW z \in 1..Len(Sorted(A))
    PROVE  LET o == Sorted(A)
               h == SubSeq(o, 1, z - 1)
               b == Picked(A, {i \in DOMAIN A : A[i].start < o[z].start})
           IN  /\ b \in Seq(Cuts(t)) /\ Sorted(b) = h
               /\ Picked(o, {i \in DOMAIN o : o[i].start < o[z].start}) = h
               /\ \A k \in 1..Len(b) : b[k].start < o[z].start
<1> DEFINE o == Sorted(A)
           h == SubSeq(o, 1, z - 1)
           B == {i \in DOMAIN A : A[i].start < o[z].start}
           b == Picked(A, B)
           K == {i \in DOMAIN o : o[i].start < o[z].start}
           p == Picked(o, K)
<1>1. o \in Seq(Cuts(t)) /\ InLine(o) /\ SameMembers(o, A)
  BY SortedInLine
<1>a. z \in 1..Len(o)
  OBVIOUS
<1> HIDE DEF o
<1>2. /\ h \in Seq(Cuts(t)) /\ Len(h) = z - 1 /\ \A k \in 1 .. z - 1 : h[k] = o[k]
      /\ InLine(h)
      /\ \A k \in 1..Len(o) : o[k].start < o[z].start <=> k < z
  BY <1>1, <1>a, FrontOfLine
<1> HIDE DEF h
<1>3. DOMAIN A = 1..Len(A) /\ DOMAIN o = 1..Len(o) /\ Len(o) \in Nat /\ z \in Nat /\ z <= Len(o)
  BY <1>1, <1>a
<1>4. B \in SUBSET (1..Len(A)) /\ K \in SUBSET (1..Len(o))
  BY <1>3
<1>5. /\ b \in Seq(Cuts(t))
      /\ \A k \in 1..Len(b) : \E i \in B : b[k] = A[i]
      /\ \A i \in B : \E k \in 1..Len(b) : b[k] = A[i]
  BY <1>4, PickedIs
<1>6. /\ p \in Seq(Cuts(t))
      /\ \A k \in 1..Len(p) : \E i \in K : p[k] = o[i]
      /\ \A i \in K : \E k \in 1..Len(p) : p[k] = o[i]
  BY <1>1, <1>4, PickedIs
<1>7. InOrder(b, A, B)
  <2> HIDE DEF B
  <2>1. QED
    BY <1>4, PickedOrder
<1>8. InOrder(p, o, K)
  <2> HIDE DEF K
  <2>1. QED
    BY <1>1, <1>4, PickedOrder
<1>9. /\ \A i \in B : i \in 1..Len(A) /\ A[i].start < o[z].start
      /\ \A i \in 1..Len(A) : A[i].start < o[z].start => i \in B
      /\ \A i \in K : i \in 1..Len(o) /\ i < z
      /\ \A i \in 1 .. z - 1 : i \in K
  <2>1. \A i \in 1 .. z - 1 : i \in 1..Len(o) /\ i < z
    BY <1>3
  <2>2. QED
    BY <1>2, <1>3, <2>1
<1> HIDE DEF b, p, B, K
<1>10. AllClear(b)
  <2>1. \A k \in 1..Len(b) : b[k].start < b[k].stop
    BY <1>5, <1>9 DEF AllClear
  <2>2. \A j, k \in 1..Len(b) : j < k => Clear(b[j], b[k]) /\ Clear(b[k], b[j])
    <3> SUFFICES ASSUME NEW j \in 1..Len(b), NEW k \in 1..Len(b), j < k
                 PROVE  Clear(b[j], b[k]) /\ Clear(b[k], b[j])
      OBVIOUS
    <3>1. PICK i \in B, l \in B : i < l /\ b[j] = A[i] /\ b[k] = A[l]
      BY <1>7 DEF InOrder
    <3>2. i # l /\ i \in 1..Len(A) /\ l \in 1..Len(A)
      BY <1>9, <3>1
    <3>3. QED
      BY <3>1, <3>2 DEF AllClear
  <2>3. \A j, k \in 1..Len(b) : j # k => j < k \/ k < j
    BY <1>5
  <2>4. QED
    BY <2>1, <2>2, <2>3 DEF AllClear
<1>11. Sorted(b) = h
  <2> DEFINE r == Sorted(b)
  <2>1. r \in Seq(Cuts(t)) /\ InLine(r) /\ SameMembers(r, b)
    BY <1>5, <1>10, SortedInLine
  <2> HIDE DEF r
  <2>2. ASSUME NEW x \in 1..Len(r) PROVE \E k \in 1..Len(h) : r[x] = h[k]
    <3>1. PICK y \in 1..Len(b) : r[x] = b[y]
      BY <2>1 DEF SameMembers
    <3>2. PICK i \in B : b[y] = A[i]
      BY <1>5
    <3>3. i \in 1..Len(A) /\ A[i].start < o[z].start
      BY <1>9
    <3>4. PICK k \in 1..Len(o) : o[k] = A[i]
      BY <1>1, <3>3 DEF SameMembers
    <3>5. k < z
      BY <1>2, <3>3, <3>4
    <3>6. k \in 1 .. z - 1
      BY <1>3, <3>5
    <3>7. QED
      BY <1>2, <3>1, <3>2, <3>4, <3>6
  <2>3. ASSUME NEW k \in 1..Len(h) PROVE \E x \in 1..Len(r) : r[x] = h[k]
    <3>1. k \in 1 .. z - 1 /\ k \in 1..Len(o) /\ k < z
      BY <1>2, <1>3
    <3>2. h[k] = o[k] /\ o[k].start < o[z].start
      BY <1>2, <3>1
    <3>3. PICK i \in 1..Len(A) : o[k] = A[i]
      BY <1>1, <3>1 DEF SameMembers
    <3>4. PICK y \in 1..Len(b) : b[y] = A[i]
      BY <1>5, <1>9, <3>2, <3>3
    <3>5. PICK x \in 1..Len(r) : r[x] = b[y]
      BY <2>1 DEF SameMembers
    <3>6. QED
      BY <3>2, <3>3, <3>4, <3>5
  <2>4. SameMembers(r, h)
    BY <2>2, <2>3 DEF SameMembers
  <2>5. r = h
    BY <1>2, <2>1, <2>4, LinesAgree
  <2>6. QED
    BY <2>5 DEF r
<1>12. p = h
  <2>1. InLine(p)
    <3>1. \A k \in 1..Len(p) : p[k].start \in Nat /\ p[k].stop \in Nat /\ p[k].start < p[k].stop
      BY <1>1, <1>6, <1>9 DEF InLine
    <3>2. ASSUME NEW j \in 1..Len(p), NEW k \in 1..Len(p), j < k PROVE p[j].stop <= p[k].start
      <4>1. PICK i \in K, l \in K : i < l /\ p[j] = o[i] /\ p[k] = o[l]
        BY <1>8, <3>2 DEF InOrder
      <4>2. i \in 1..Len(o) /\ l \in 1..Len(o)
        BY <1>9
      <4>3. QED
        BY <1>1, <4>1, <4>2 DEF InLine
    <3>3. QED
      BY <3>1, <3>2 DEF InLine
  <2>2. SameMembers(p, h)
    <3>1. ASSUME NEW x \in 1..Len(p) PROVE \E k \in 1..Len(h) : p[x] = h[k]
      <4>1. PICK i \in K : p[x] = o[i]
        BY <1>6
      <4>2. i \in 1 .. z - 1
        BY <1>3, <1>9
      <4>3. QED
        BY <1>2, <4>1, <4>2
    <3>2. ASSUME NEW k \in 1..Len(h) PROVE \E x \in 1..Len(p) : p[x] = h[k]
      <4>1. k \in 1 .. z - 1
        BY <1>2
      <4>2. k \in K /\ h[k] = o[k]
        BY <1>2, <1>9, <4>1
      <4>3. QED
        BY <1>6, <4>2
    <3>3. QED
      BY <3>1, <3>2 DEF SameMembers
  <2>3. QED
    BY <1>2, <1>6, <2>1, <2>2, LinesAgree
<1>13. \A k \in 1..Len(b) : b[k].start < o[z].start
  BY <1>5, <1>9
<1>14. QED
  BY <1>5, <1>11, <1>12, <1>13 DEF b, p, h, o, B, K

(* What is in front of a position of a text, and what is behind it.        *)
LEMMA HalvesAre ==
    ASSUME NEW v \in Texts, NEW a \in 0..Len(v)
    PROVE  LET x == SubSeq(v, 1, a)
               y == SubSeq(v, a + 1, Len(v))
           IN  /\ x \in Texts /\ Len(x) = a /\ \A i \in 1..a : x[i] = v[i]
               /\ y \in Texts /\ Len(y) = Len(v) - a
               /\ \A i \in 1 .. Len(v) - a : y[i] = v[a + i]
<1>1. v \in Seq(Tokens) /\ Len(v) \in Nat /\ a \in Nat
  BY DEF Texts
<1>2. \A i \in 1..Len(v) : v[i] \in Tokens
  BY <1>1
<1>3. \A i \in 1..a : v[i] \in Tokens
  BY <1>1, <1>2
<1>4. \A i \in a + 1 .. Len(v) : v[i] \in Tokens
  BY <1>1, <1>2
<1> DEFINE x == SubSeq(v, 1, a)
           y == SubSeq(v, a + 1, Len(v))
<1>5. x \in Seq(Tokens) /\ Len(x) = a /\ \A i \in 1..a : x[i] = v[i]
  BY <1>1, <1>3, SubSeqProperties
<1>6. /\ y \in Seq(Tokens) /\ Len(y) = Len(v) - a
      /\ \A i \in 1 .. Len(v) - a : y[i] = v[a + i]
  <2>1. /\ y \in Seq(Tokens)
        /\ Len(y) = IF a + 1 <= Len(v) THEN Len(v) - (a + 1) + 1 ELSE 0
        /\ \A i \in 1 .. Len(v) - (a + 1) + 1 : y[i] = v[a + 1 + i - 1]
    BY <1>1, <1>4, SubSeqProperties
  <2> HIDE DEF y
  <2>2. Len(v) - (a + 1) + 1 = Len(v) - a /\ a <= Len(v)
    BY <1>1
  <2>3. \A i \in 1 .. Len(v) - a : a + 1 + i - 1 = a + i
    BY <1>1
  <2>4. Len(y) = Len(v) - a
    <3>1. a + 1 <= Len(v) \/ (a = Len(v) /\ ~(a + 1 <= Len(v)))
      <4> DEFINE l == Len(v)
      <4>1. l \in Nat /\ a \in Nat /\ a <= l
        BY <1>1, <2>2
      <4> HIDE DEF l
      <4>2. a + 1 <= l \/ (a = l /\ ~(a + 1 <= l))
        BY ONLY <4>1
      <4>3. QED
        BY <4>2 DEF l
    <3>2. a + 1 <= Len(v) => Len(y) = Len(v) - (a + 1) + 1
      BY <2>1
    <3>3. ~(a + 1 <= Len(v)) => Len(y) = 0
      BY <2>1
    <3>4. a = Len(v) => Len(v) - a = 0
      BY <1>1
    <3>5. QED
      BY <2>2, <3>1, <3>2, <3>3, <3>4
  <2>5. QED
    BY <2>1, <2>2, <2>3, <2>4
<1>7. QED
  BY <1>5, <1>6 DEF Texts

(* A splice leaves what is in front of it, and the length is its own.      *)
LEMMA SplicedSplits ==
    ASSUME NEW v \in Texts, NEW s, s.start \in Nat, s.stop \in Nat, s.start <= s.stop,
           s.stop <= Len(v), s.text \in Texts
    PROVE  /\ Spliced(v, s) \in Texts
           /\ Len(Spliced(v, s)) = s.start + Len(s.text) + (Len(v) - s.stop)
           /\ s.start <= Len(Spliced(v, s))
           /\ \A i \in 1..s.start : Spliced(v, s)[i] = v[i]
<1> DEFINE a == s.start
           b == s.stop
           m == s.text
           x == SubSeq(v, 1, a)
           y == SubSeq(v, b + 1, Len(v))
<1>1. v \in Seq(Tokens) /\ Len(v) \in Nat /\ m \in Seq(Tokens) /\ Len(m) \in Nat
  BY DEF Texts
<1>2. a \in 0..Len(v) /\ b \in 0..Len(v) /\ a <= b /\ a \in Nat /\ b \in Nat
  BY <1>1
<1>3. Spliced(v, s) = x \o m \o y
  BY DEF Spliced
<1> HIDE DEF a, b, m
<1>4. x \in Seq(Tokens) /\ Len(x) = a /\ \A i \in 1..a : x[i] = v[i]
  BY <1>2, HalvesAre DEF Texts
<1>5. y \in Seq(Tokens) /\ Len(y) = Len(v) - b
  BY <1>2, HalvesAre DEF Texts
<1> HIDE DEF x, y
<1>6. /\ x \o m \in Seq(Tokens) /\ Len(x \o m) = Len(x) + Len(m)
      /\ \A i \in 1..Len(x) : (x \o m)[i] = x[i]
  BY ONLY <1>1, <1>4, JoinIs
<1>7. /\ x \o m \o y \in Seq(Tokens) /\ Len(x \o m \o y) = Len(x \o m) + Len(y)
      /\ \A i \in 1..Len(x \o m) : (x \o m \o y)[i] = (x \o m)[i]
  BY ONLY <1>5, <1>6, JoinIs
<1>8. Len(x \o m \o y) = a + Len(m) + (Len(v) - b)
  BY <1>1, <1>4, <1>5, <1>6, <1>7
<1>9. a <= a + Len(m) + (Len(v) - b)
  BY <1>1, <1>2
<1>10. \A i \in 1..a : (x \o m \o y)[i] = v[i]
  <2> SUFFICES ASSUME NEW i \in 1..a PROVE (x \o m \o y)[i] = v[i]
    OBVIOUS
  <2>1. i \in 1..Len(x) /\ i \in 1..Len(x \o m)
    BY <1>1, <1>2, <1>4, <1>6
  <2>2. QED
    BY <1>4, <1>6, <1>7, <2>1
<1>11. QED
  BY <1>3, <1>7, <1>8, <1>9, <1>10 DEF a, b, m, Texts

(* A splice into the first of two texts leaves the second.                 *)
LEMMA SplicedInFront ==
    ASSUME NEW v \in Texts, NEW g \in Texts, NEW s, s.start \in Nat, s.stop \in Nat,
           s.start <= s.stop, s.stop <= Len(v), s.text \in Texts
    PROVE  Spliced(v \o g, s) = Spliced(v, s) \o g
<1> DEFINE a == s.start
           b == s.stop
           m == s.text
           u == v \o g
           x == SubSeq(v, 1, a)
           y == SubSeq(v, b + 1, Len(v))
           e == SubSeq(u, 1, a)
           f == SubSeq(u, b + 1, Len(u))
<1>1. /\ v \in Seq(Tokens) /\ Len(v) \in Nat /\ m \in Seq(Tokens)
      /\ g \in Seq(Tokens) /\ Len(g) \in Nat
  BY DEF Texts
<1>2. /\ u \in Seq(Tokens) /\ Len(u) = Len(v) + Len(g)
      /\ \A i \in 1..Len(v) : u[i] = v[i]
      /\ \A i \in 1..Len(g) : u[Len(v) + i] = g[i]
  BY ONLY <1>1, JoinIs
<1>a. Spliced(u, s) = e \o m \o f /\ Spliced(v, s) = x \o m \o y
  BY DEF Spliced
<1>3. /\ a \in 0..Len(v) /\ b \in 0..Len(v) /\ a <= b /\ a \in Nat /\ b \in Nat
  BY <1>1
<1> HIDE DEF a, b, m, u
<1>4. a \in 0..Len(u) /\ b \in 0..Len(u) /\ u \in Texts
  BY <1>1, <1>2, <1>3 DEF Texts
<1>5. x \in Seq(Tokens) /\ Len(x) = a /\ \A i \in 1..a : x[i] = v[i]
  BY <1>3, HalvesAre DEF Texts
<1>6. y \in Seq(Tokens) /\ Len(y) = Len(v) - b /\ \A i \in 1 .. Len(v) - b : y[i] = v[b + i]
  BY <1>3, HalvesAre DEF Texts
<1>7. e \in Seq(Tokens) /\ Len(e) = a /\ \A i \in 1..a : e[i] = u[i]
  BY <1>4, HalvesAre DEF Texts
<1>8. f \in Seq(Tokens) /\ Len(f) = Len(u) - b /\ \A i \in 1 .. Len(u) - b : f[i] = u[b + i]
  BY <1>4, HalvesAre DEF Texts
<1> HIDE DEF x, y, e, f
<1>9. e = x
  <2>1. \A i \in 1..a : i \in 1..Len(v)
    BY <1>1, <1>3
  <2>2. \A i \in 1..Len(e) : e[i] = x[i]
    BY <1>2, <1>5, <1>7, <2>1
  <2>3. QED
    BY <1>5, <1>7, <2>2, SeqEqual
<1>10. f = y \o g
  <2>1. /\ y \o g \in Seq(Tokens) /\ Len(y \o g) = Len(y) + Len(g)
        /\ \A i \in 1..Len(y) : (y \o g)[i] = y[i]
        /\ \A i \in 1..Len(g) : (y \o g)[Len(y) + i] = g[i]
    <3>1. y \in Seq(Tokens) /\ g \in Seq(Tokens)
      BY <1>1, <1>6
    <3>2. QED
      BY ONLY <3>1, JoinIs
  <2>2. Len(f) = Len(y \o g)
    BY <1>1, <1>2, <1>3, <1>6, <1>8, <2>1
  <2>3. ASSUME NEW i \in 1..Len(f) PROVE f[i] = (y \o g)[i]
    <3>1. CASE i <= Len(y)
      <4>1. /\ i \in 1 .. Len(v) - b /\ i \in 1 .. Len(u) - b
            /\ b + i \in 1..Len(v) /\ i \in 1..Len(y)
        BY <1>1, <1>2, <1>3, <1>6, <1>8, <3>1
      <4>2. QED
        BY <1>2, <1>6, <1>8, <2>1, <4>1
    <3>2. CASE i > Len(y)
      <4> DEFINE j == i - Len(y)
      <4>1. /\ j \in 1..Len(g) /\ i \in 1 .. Len(u) - b /\ Len(y) + j = i /\ b + i = Len(v) + j
        BY <1>1, <1>2, <1>3, <1>6, <1>8, <3>2
      <4> HIDE DEF j
      <4>2. f[i] = u[Len(v) + j] /\ (y \o g)[i] = g[j]
        BY <1>8, <2>1, <4>1
      <4>3. QED
        BY <1>2, <4>1, <4>2
    <3>3. i <= Len(y) \/ i > Len(y)
      BY <1>1, <1>3, <1>6
    <3>4. QED
      BY <3>1, <3>2, <3>3
  <2>4. QED
    BY <1>8, <2>1, <2>2, <2>3, SeqEqual
<1>11. x \o m \in Seq(Tokens)
  BY ONLY <1>1, <1>5, JoinIs
<1>12. (x \o m) \o (y \o g) = ((x \o m) \o y) \o g
  BY ONLY <1>1, <1>6, <1>11, ConcatAssociative, SMTT(60)
<1>13. Spliced(u, s) = Spliced(v, s) \o g
  BY ONLY <1>a, <1>9, <1>10, <1>12
<1>14. QED
  BY <1>13 DEF u

(* Applied from the last one on, splices in a line up to the one at z have  *)
(* left what is in front of it, and room for it.                           *)
LEMMA BehindIsApart ==
    ASSUME NEW t \in Texts, NEW N \in Nat, NEW o \in Seq(Cuts(t)), Len(o) = N, InLine(o),
           NEW z \in 1..N, NEW x, Backwards(x, o, t, N)
    PROVE  /\ x[z] \in Texts /\ o[z].stop <= Len(x[z])
           /\ \A i \in 1..o[z].start : x[z][i] = t[i]
<1> DEFINE st == o[z].start
           P(k) == /\ x[k] \in Texts /\ (\A i \in 1..st : x[k][i] = t[i])
                   /\ \A j \in 1..k : o[j].stop <= Len(x[k])
           T == {m \in Nat : z <= N - m => P(N - m)}
<1>1. Len(t) \in Nat
  BY DEF Texts
<1>2. \A k \in 1..N : /\ o[k].start \in Nat /\ o[k].stop \in Nat /\ o[k].start <= o[k].stop
                      /\ o[k].stop <= Len(t) /\ o[k].text \in Texts
  <2> SUFFICES ASSUME NEW k \in 1..N
               PROVE /\ o[k].start \in Nat /\ o[k].stop \in Nat /\ o[k].start <= o[k].stop
                     /\ o[k].stop <= Len(t) /\ o[k].text \in Texts
    OBVIOUS
  <2>1. o[k] \in Cuts(t)
    OBVIOUS
  <2>2. QED
    BY <1>1, <2>1 DEF Cuts, Spots
<1>3. \A j, k \in 1..N : j < k => o[j].stop <= o[k].start
  BY DEF InLine
<1>4. x[N] = t /\ \A k \in 1..N : x[k - 1] = Spliced(x[k], o[k])
  BY DEF Backwards
<1>5. z \in 1..N /\ z \in Nat
  OBVIOUS
<1>6. P(N)
  BY <1>2, <1>4
<1>7. ASSUME NEW k \in z + 1 .. N, P(k) PROVE P(k - 1)
  <2> DEFINE v == x[k]
             s == o[k]
             w == x[k - 1]
  <2>1. k \in 1..N /\ z < k /\ k \in Nat
    BY <1>5
  <2>2. v \in Texts /\ s.stop <= Len(v) /\ \A i \in 1..st : v[i] = t[i]
    BY <1>7, <2>1
  <2>3. s.start \in Nat /\ s.stop \in Nat /\ s.start <= s.stop /\ s.text \in Texts
    BY <1>2, <2>1
  <2>4. st <= s.start /\ st \in Nat
    <3>1. o[z].stop <= o[k].start
      BY <1>3, <1>5, <2>1
    <3>2. o[z].start \in Nat /\ o[z].stop \in Nat /\ o[z].start <= o[z].stop /\ o[k].start \in Nat
      BY <1>2, <1>5, <2>1
    <3>3. QED
      BY <3>1, <3>2
  <2>5. w = Spliced(v, s)
    BY <1>4, <2>1
  <2>a. \A j \in 1 .. k - 1 : o[j].stop <= s.start /\ o[j].stop \in Nat
    <3>1. \A j \in 1 .. k - 1 : j \in 1..N /\ j < k
      BY <2>1
    <3>2. QED
      BY <1>2, <1>3, <2>1, <3>1
  <2> HIDE DEF v, s, w, st
  <2>6. w \in Texts /\ s.start <= Len(w) /\ \A i \in 1..s.start : w[i] = v[i]
    BY <2>2, <2>3, <2>5, SplicedSplits
  <2>7. \A i \in 1..st : w[i] = t[i]
    <3>1. \A i \in 1..st : i \in 1..s.start
      BY <2>3, <2>4
    <3>2. QED
      BY <2>2, <2>6, <3>1
  <2>8. \A j \in 1 .. k - 1 : o[j].stop <= Len(w)
    <3>1. Len(w) \in Nat
      BY <2>6 DEF Texts
    <3>2. QED
      BY <2>3, <2>6, <2>a, <3>1
  <2>9. QED
    BY <2>6, <2>7, <2>8 DEF w
<1> HIDE DEF P, st
<1>8. 0 \in T
  BY <1>6
<1>9. ASSUME NEW m \in T PROVE m + 1 \in T
  <2> SUFFICES ASSUME z <= N - (m + 1) PROVE P(N - (m + 1))
    OBVIOUS
  <2>1. m \in Nat /\ N - m \in z + 1 .. N /\ N - m - 1 = N - (m + 1)
    BY <1>5
  <2>2. P(N - m)
    BY <1>5, <2>1
  <2>3. P(N - m - 1)
    BY <1>7, <2>1, <2>2
  <2>4. QED
    BY <2>1, <2>3
<1>10. T = Nat
  <2> HIDE DEF T
  <2>1. T \in SUBSET Nat
    BY DEF T
  <2>2. QED
    BY <1>8, <1>9, <2>1, Taking!Grows
<1>11. P(z)
  <2>1. N - z \in T /\ N - (N - z) = z
    <3>1. N - z \in Nat /\ N - (N - z) = z
      BY <1>5
    <3> HIDE DEF T
    <3>2. QED
      BY <1>10, <3>1
  <2> HIDE DEF T
  <2>2. z <= N - (N - z) => P(N - (N - z))
    BY <2>1 DEF T
  <2>3. QED
    BY <1>5, <2>1, <2>2
<1>12. z \in 1..z
  BY <1>5
<1>13. QED
  BY <1>11, <1>12 DEF P, st

(* Splices in a line in the text v; and what each of them makes it longer. *)
LineIn(v, h, n) ==
    /\ \A k \in 1..n : /\ h[k].start \in Nat /\ h[k].stop \in Nat /\ h[k].start <= h[k].stop
                       /\ h[k].stop <= Len(v) /\ h[k].text \in Texts
    /\ \A j, k \in 1..n : j < k => h[j].stop <= h[k].start
Grown(y, h, n) ==
    \A k \in 1..n :
        /\ Len(y[k - 1]) \in Nat /\ Len(y[k]) \in Nat
        /\ h[k].start \in Nat /\ h[k].stop \in Nat /\ Len(h[k].text) \in Nat
        /\ Len(y[k - 1]) = Len(y[k]) + (Len(h[k].text) - (h[k].stop - h[k].start))

(* Splices in a line, each of which ends in v, leave what is behind v; each *)
(* changes the length by what it puts in and takes out.                    *)
LEMMA FrontIsApart ==
    ASSUME NEW n \in Nat, NEW h, NEW v \in Texts, NEW g \in Texts, LineIn(v, h, n),
           NEW x, Backwards(x, h, v \o g, n), NEW y, Backwards(y, h, v, n)
    PROVE  x[0] = y[0] \o g /\ y[0] \in Texts /\ Grown(y, h, n)
<1> DEFINE P(k) == /\ x[k] = y[k] \o g /\ y[k] \in Texts
                   /\ \A j \in 1..k : h[j].stop <= Len(y[k])
           G(k) == /\ Len(y[k - 1]) \in Nat /\ Len(y[k]) \in Nat
                   /\ h[k].start \in Nat /\ h[k].stop \in Nat /\ Len(h[k].text) \in Nat
                   /\ Len(y[k - 1]) = Len(y[k]) + (Len(h[k].text) - (h[k].stop - h[k].start))
           T == {m \in Nat : m <= n => P(n - m)}
<1>1. /\ y[n] = v /\ \A k \in 1..n : y[k - 1] = Spliced(y[k], h[k])
      /\ x[n] = v \o g /\ \A k \in 1..n : x[k - 1] = Spliced(x[k], h[k])
  BY DEF Backwards
<1>a. \A k \in 1..n : /\ h[k].start \in Nat /\ h[k].stop \in Nat /\ h[k].start <= h[k].stop
                      /\ h[k].stop <= Len(v) /\ h[k].text \in Texts
  BY DEF LineIn
<1>b. \A j, k \in 1..n : j < k => h[j].stop <= h[k].start
  BY DEF LineIn
<1>2. P(n)
  BY <1>1, <1>a
<1>3. ASSUME NEW k \in 1..n, P(k) PROVE P(k - 1) /\ G(k)
  <2> DEFINE u == y[k]
             s == h[k]
             w == y[k - 1]
  <2>1. k \in Nat /\ k \in 1..k /\ k \in 1..n
    OBVIOUS
  <2>2. u \in Texts /\ x[k] = u \o g /\ s.stop <= Len(u)
    BY <1>3, <2>1
  <2>3. s.start \in Nat /\ s.stop \in Nat /\ s.start <= s.stop /\ s.text \in Texts
    BY <1>a, <2>1
  <2>4. w = Spliced(u, s) /\ x[k - 1] = Spliced(x[k], s)
    BY <1>1, <2>1
  <2>a. \A j \in 1 .. k - 1 : h[j].stop <= s.start /\ h[j].stop \in Nat
    <3>1. \A j \in 1 .. k - 1 : j \in 1..n /\ j < k
      BY <2>1
    <3>2. QED
      BY <1>a, <1>b, <2>1, <3>1
  <2> HIDE DEF u, s, w
  <2>5. /\ w \in Texts /\ s.start <= Len(w)
        /\ Len(w) = s.start + Len(s.text) + (Len(u) - s.stop)
    BY <2>2, <2>3, <2>4, SplicedSplits
  <2>6. x[k - 1] = w \o g
    <3>1. Spliced(u \o g, s) = Spliced(u, s) \o g
      BY <2>2, <2>3, SplicedInFront
    <3>2. QED
      BY <2>2, <2>4, <3>1
  <2>b. Len(w) \in Nat /\ Len(u) \in Nat /\ Len(s.text) \in Nat
    BY <2>2, <2>3, <2>5 DEF Texts
  <2>7. \A j \in 1 .. k - 1 : h[j].stop <= Len(w)
    BY <2>3, <2>5, <2>a, <2>b
  <2>8. Len(w) = Len(u) + (Len(s.text) - (s.stop - s.start))
    BY <2>3, <2>5, <2>b
  <2>9. QED
    BY <2>3, <2>5, <2>6, <2>7, <2>8, <2>b DEF u, s, w
<1> HIDE DEF P, G
<1>4. 0 \in T
  BY <1>2
<1>5. ASSUME NEW m \in T PROVE m + 1 \in T
  <2> SUFFICES ASSUME m + 1 <= n PROVE P(n - (m + 1))
    OBVIOUS
  <2>1. m \in Nat /\ n - m \in 1..n /\ n - m - 1 = n - (m + 1)
    OBVIOUS
  <2>2. P(n - m)
    BY <2>1
  <2>3. P(n - m - 1)
    BY <1>3, <2>1, <2>2
  <2>4. QED
    BY <2>1, <2>3
<1>6. T = Nat
  <2> HIDE DEF T
  <2>1. T \in SUBSET Nat
    BY DEF T
  <2>2. QED
    BY <1>4, <1>5, <2>1, Taking!Grows
<1>7. ASSUME NEW k \in 0..n PROVE P(k)
  <2>1. n - k \in T /\ n - (n - k) = k /\ n - k <= n
    <3>1. n - k \in Nat /\ n - (n - k) = k /\ n - k <= n
      OBVIOUS
    <3> HIDE DEF T
    <3>2. QED
      BY <1>6, <3>1
  <2> HIDE DEF T
  <2>2. n - k <= n => P(n - (n - k))
    BY <2>1 DEF T
  <2>3. QED
    BY <2>1, <2>2
<1>8. \A k \in 1..n : P(k) /\ G(k)
  <2>1. \A k \in 1..n : k \in 0..n
    OBVIOUS
  <2>2. QED
    BY <1>3, <1>7, <2>1
<1>9. QED
  BY <1>7, <1>8 DEF P, G, Grown

(* What a splice adds to a position behind it, added up. *)
Shifted(n, x) == n + (Len(x.text) - (x.stop - x.start))
Shifting == INSTANCE Folding WITH Then <- Shifted, Pick <- Highest

(* Added up over splices they come to the length of what they make.        *)
LEMMA ShiftsAre ==
    ASSUME NEW n \in Nat, NEW S, NEW h \in Seq(S), Len(h) = n, NEW st \in Nat,
           NEW y, Len(y[n]) = st, Grown(y, h, n)
    PROVE  FoldLeft(Shifted, st, h) = Len(y[0])
<1> DEFINE f == CHOOSE g : Shifting!IsFold(g, h, st, DOMAIN h)
           L(k) == Len(y[k])
<1>1. DOMAIN h = 1..n
  OBVIOUS
<1>2. FoldLeft(Shifted, st, h) = f[DOMAIN h]
  BY DEF FoldLeft, MapThenFoldSet, Shifting!IsFold, Shifting!Turn, Highest
<1>3. f = CHOOSE g : Shifting!IsFold(g, h, st, 1..n)
  BY <1>1
<1> HIDE DEF f
<1>4. \A u \in SUBSET (1..n) : u # {} => Highest(u) \in u
  BY HighestIs
<1>5. Shifting!IsFold(f, h, st, 1..n)
  BY <1>3, <1>4, Shifting!FoldExists
<1>6. Shifting!PicksLast(n)
  BY HighestIs DEF Shifting!PicksLast
<1>7. PICK c : Shifting!Onwards(c, h, st, n) /\ f[1..n] = c[n]
  BY <1>5, <1>6, Shifting!LeftIsChain
<1>8. c[0] = st /\ \A k \in 1..n : c[k] = Shifted(c[k - 1], h[k])
  BY <1>7 DEF Shifting!Onwards
<1>9. \A k \in 1..n : /\ L(k - 1) \in Nat /\ L(k) \in Nat
                      /\ \E a \in Int : L(k - 1) = L(k) + a /\ c[k] = c[k - 1] + a
  <2> SUFFICES ASSUME NEW k \in 1..n
               PROVE  /\ L(k - 1) \in Nat /\ L(k) \in Nat
                      /\ \E a \in Int : L(k - 1) = L(k) + a /\ c[k] = c[k - 1] + a
    OBVIOUS
  <2> DEFINE a == Len(h[k].text) - (h[k].stop - h[k].start)
  <2>1. /\ L(k - 1) \in Nat /\ L(k) \in Nat /\ a \in Int /\ L(k - 1) = L(k) + a
    BY DEF Grown
  <2>2. c[k] = c[k - 1] + a
    BY <1>8 DEF Shifted
  <2> HIDE DEF a, L
  <2>3. QED
    BY <2>1, <2>2
<1>10. L(n) = st
  OBVIOUS
<1>a. ASSUME n = 0 PROVE FoldLeft(Shifted, st, h) = Len(y[0])
  BY <1>1, <1>2, <1>7, <1>8, <1>10, <1>a
<1> SUFFICES ASSUME n # 0 PROVE FoldLeft(Shifted, st, h) = Len(y[0])
  BY <1>a
<1> HIDE DEF L
<1>b. L(0) \in Nat
  <2>1. 1 \in 1..n /\ 1 - 1 = 0
    OBVIOUS
  <2>2. QED
    BY <1>9, <2>1
<1> DEFINE P(k) == c[k] \in Int /\ L(k) \in Nat /\ c[k] + L(k) = st + L(0)
           T == {k \in Nat : k <= n => P(k)}
<1>11. 0 \in T
  BY <1>8, <1>b
<1>12. ASSUME NEW k \in T PROVE k + 1 \in T
  <2> SUFFICES ASSUME k + 1 <= n PROVE P(k + 1)
    OBVIOUS
  <2> DEFINE j == k + 1
  <2>1. k \in Nat /\ j \in 1..n /\ j - 1 = k /\ P(k)
    OBVIOUS
  <2> HIDE DEF j
  <2>2. PICK a \in Int : L(j - 1) = L(j) + a /\ c[j] = c[j - 1] + a
    BY <1>9, <2>1
  <2>3. L(j) \in Nat /\ L(k) = L(j) + a /\ c[j] = c[k] + a
    BY <1>9, <2>1, <2>2
  <2>4. P(j)
    BY <1>b, <2>1, <2>3
  <2>5. QED
    BY <2>4 DEF j
<1> HIDE DEF P
<1>13. T = Nat
  <2> HIDE DEF T
  <2>1. T \in SUBSET Nat
    BY DEF T
  <2>2. QED
    BY <1>11, <1>12, <2>1, Taking!Grows
<1>14. P(n)
  BY <1>13
<1>15. c[n] = L(0)
  BY <1>10, <1>14, <1>b DEF P
<1>16. QED
  BY <1>1, <1>2, <1>7, <1>15 DEF L

(* Where the splice at z of a line stands when all are applied: behind the *)
(* text in front of it as those in front of it make it, which is as far as *)
(* their shifts added up.                                                  *)
LEMMA SpliceStands ==
    ASSUME NEW t \in Texts, NEW A \in Seq(Cuts(t)), AllClear(A), NEW z \in 1..Len(Sorted(A))
    PROVE  LET o == Sorted(A)
               st == o[z].start
               head == Applied(SubSeq(t, 1, st), Picked(A, {i \in DOMAIN A : A[i].start < st}))
               h == Picked(o, {i \in DOMAIN o : o[i].start < st})
           IN  /\ head \in Texts /\ o[z].text \in Texts
               /\ \E r \in Texts : Applied(t, A) = head \o (o[z].text \o r)
               /\ FoldLeft(Shifted, st, h) = Len(head)
<1> DEFINE o == Sorted(A)
           N == Len(o)
           st == o[z].start
           b == Picked(A, {i \in DOMAIN A : A[i].start < st})
           u == SubSeq(t, 1, st)
           head == Applied(u, b)
           h == SubSeq(o, 1, z - 1)
           p == Picked(o, {i \in DOMAIN o : o[i].start < st})
<1>1. o \in Seq(Cuts(t)) /\ InLine(o)
  BY SortedInLine
<1>2. b \in Seq(Cuts(t)) /\ Sorted(b) = h /\ p = h
  BY FrontIsPicked
<1>3. PICK x : Backwards(x, o, t, N) /\ Applied(t, A) = x[0]
  <2>1. N \in Nat /\ o \in Seq(Range(o)) /\ Len(o) = N /\ o = Sorted(A)
    <3>1. o = Sorted(A)
      OBVIOUS
    <3> HIDE DEF o
    <3>2. QED
      BY <1>1, <3>1 DEF Range
  <2> HIDE DEF N, o
  <2>2. QED
    BY <2>1, AppliedIsChain
<1>a. z \in 1..N /\ N = Len(o)
  OBVIOUS
<1> HIDE DEF o, N, p, b
<1>b. N \in Nat /\ z \in Nat /\ z - 1 \in Nat /\ z - 1 <= N
  BY <1>1, <1>a
<1>c. \A k \in 1..N : /\ o[k].start \in Nat /\ o[k].stop \in Nat /\ o[k].start <= o[k].stop
                      /\ o[k].stop <= Len(t) /\ o[k].text \in Texts /\ o[k].start \in 0..Len(t)
  <2> SUFFICES ASSUME NEW k \in 1..N
               PROVE /\ o[k].start \in Nat /\ o[k].stop \in Nat /\ o[k].start <= o[k].stop
                     /\ o[k].stop <= Len(t) /\ o[k].text \in Texts /\ o[k].start \in 0..Len(t)
    OBVIOUS
  <2>1. o[k] \in Cuts(t)
    BY <1>1, <1>a
  <2>2. Len(t) \in Nat
    BY DEF Texts
  <2>3. QED
    BY <2>1, <2>2 DEF Cuts, Spots
<1>4. /\ h \in Seq(Cuts(t)) /\ Len(h) = z - 1 /\ \A k \in 1 .. z - 1 : h[k] = o[k]
      /\ InLine(h)
  BY <1>1, <1>a, FrontOfLine
<1> HIDE DEF h
<1>5. /\ x[z] \in Texts /\ o[z].stop <= Len(x[z])
      /\ \A i \in 1..st : x[z][i] = t[i]
  BY <1>1, <1>3, <1>a, <1>b, BehindIsApart
<1>d. /\ st \in Nat /\ o[z].stop \in Nat /\ st <= o[z].stop /\ o[z].text \in Texts
      /\ st \in 0..Len(t)
  BY <1>a, <1>c
<1>6. u \in Texts /\ Len(u) = st /\ \A i \in 1..st : u[i] = t[i]
  BY <1>d, HalvesAre
<1> DEFINE rest == SubSeq(x[z], o[z].stop + 1, Len(x[z]))
           g == o[z].text \o rest
<1>7. rest \in Texts
  <2>1. o[z].stop \in 0..Len(x[z])
    <3>1. Len(x[z]) \in Nat
      BY <1>5 DEF Texts
    <3>2. QED
      BY <1>5, <1>d, <3>1
  <2>2. QED
    BY <1>5, <2>1, HalvesAre
<1>8. x[z - 1] = u \o g
  <2> DEFINE v == x[z]
             e == SubSeq(v, 1, st)
             m == o[z].text
  <2>1. x[z - 1] = e \o m \o rest
    BY <1>3, <1>a DEF Backwards, Spliced
  <2>2. st \in 0..Len(v) /\ v \in Texts
    <3>1. Len(v) \in Nat
      BY <1>5 DEF Texts
    <3>2. QED
      BY <1>5, <1>d, <3>1
  <2>3. e \in Texts /\ Len(e) = st /\ \A i \in 1..st : e[i] = v[i]
    BY <2>2, HalvesAre
  <2>4. \A i \in 1..st : v[i] = t[i]
    BY <1>5
  <2> HIDE DEF v, e, u, rest, m
  <2>5. e = u
    <3>1. \A i \in 1..Len(e) : e[i] = u[i]
      BY <1>6, <2>3, <2>4
    <3>2. QED
      BY <1>6, <2>3, <3>1, SeqEqual DEF Texts
  <2>6. m \in Seq(Tokens) /\ rest \in Seq(Tokens) /\ u \in Seq(Tokens)
    BY <1>6, <1>7, <1>d DEF m, Texts
  <2>7. (u \o m) \o rest = u \o (m \o rest)
    BY ONLY <2>6, ConcatAssociative
  <2>8. QED
    BY <2>1, <2>5, <2>7 DEF m
<1>9. g \in Texts
  <2> HIDE DEF rest
  <2>1. o[z].text \in Seq(Tokens) /\ rest \in Seq(Tokens)
    BY <1>7, <1>d DEF Texts
  <2>2. QED
    BY ONLY <2>1, JoinIs DEF Texts
<1> HIDE DEF rest
<1>10. PICK y : Backwards(y, h, u, z - 1) /\ head = y[0]
  <2>1. h \in Seq(Range(h)) /\ h = Sorted(b)
    BY <1>2, <1>4 DEF Range
  <2> HIDE DEF u
  <2>2. QED
    BY <1>4, <1>b, <2>1, AppliedIsChain
<1>11. \A k \in 1 .. z - 1 : k \in 1..N
  BY <1>b
<1>12. \A k \in 1 .. z - 1 : h[k] = o[k] /\ o[k].stop <= st
  <2>1. \A k \in 1 .. z - 1 : k \in 1..N /\ k < z
    BY <1>b
  <2>2. QED
    BY <1>1, <1>4, <1>a, <2>1 DEF InLine
<1>13. \A k \in 1 .. z - 1 : /\ h[k].start \in Nat /\ h[k].stop \in Nat /\ h[k].start <= h[k].stop
                             /\ h[k].stop <= Len(u) /\ h[k].text \in Texts
  BY <1>6, <1>11, <1>12, <1>c
<1>14. \A j, k \in 1 .. z - 1 : j < k => h[j].stop <= h[k].start
  BY <1>4 DEF InLine
<1>15. \A k \in 1 .. z - 1 : x[k - 1] = Spliced(x[k], h[k])
  BY <1>3, <1>11, <1>12 DEF Backwards
<1>e. o[z].text \in Texts
  BY <1>d
<1> HIDE DEF u, head, g, st
<1>16. x[0] = y[0] \o g /\ y[0] \in Texts /\ Grown(y, h, z - 1)
  <2> DEFINE n == z - 1
  <2>1. LineIn(u, h, n)
    BY <1>13, <1>14 DEF LineIn
  <2>2. n \in Nat /\ Backwards(x, h, u \o g, n) /\ Backwards(y, h, u, n)
    BY <1>8, <1>10, <1>15, <1>b DEF Backwards
  <2> HIDE DEF n
  <2>3. u \in Texts /\ g \in Texts
    BY <1>6, <1>9
  <2>4. x[0] = y[0] \o g /\ y[0] \in Texts /\ Grown(y, h, n)
    BY ONLY <2>1, <2>2, <2>3, FrontIsApart
  <2>5. QED
    BY <2>4 DEF n
<1>17. FoldLeft(Shifted, st, h) = Len(y[0])
  <2>1. Len(y[z - 1]) = st /\ st \in Nat
    BY <1>6, <1>10, <1>d DEF Backwards
  <2> DEFINE n == z - 1
  <2>2. /\ n \in Nat /\ Len(y[n]) = st /\ Len(h) = n /\ h \in Seq(Cuts(t)) /\ Grown(y, h, n)
    BY <1>4, <1>16, <1>b, <2>1
  <2> HIDE DEF n
  <2>3. QED
    BY ONLY <2>1, <2>2, ShiftsAre
<1>18. \E r \in Texts : x[0] = head \o (o[z].text \o r)
  <2>1. x[0] = head \o (o[z].text \o rest)
    BY <1>10, <1>16 DEF g
  <2>2. QED
    BY <1>7, <2>1
<1>19. head \in Texts
  BY <1>10, <1>16
<1>20. FoldLeft(Shifted, st, p) = Len(head)
  BY <1>2, <1>10, <1>17
<1>21. QED
  BY <1>3, <1>18, <1>19, <1>20, <1>e DEF head, u, b, p, o, st

-----------------------------------------------------------------------------
(* What replacements leave of a text. *)

(* The first z of a line are the ones that end in front of a position.      *)
EndsBefore(o, p, z) == \A k \in 1..Len(o) : o[k].stop < p <=> k <= z

(* The splices that end in front of a position, picked out and sorted, are  *)
(* the first ones of the line.                                             *)
LEMMA EndedArePicked ==
    ASSUME NEW t \in Texts, NEW A \in Seq(Cuts(t)), AllClear(A), NEW p \in Nat,
           NEW o, o = Sorted(A), NEW z \in 0..Len(o), EndsBefore(o, p, z)
    PROVE  LET b == Picked(A, {i \in DOMAIN A : A[i].stop < p})
           IN  b \in Seq(Cuts(t)) /\ Sorted(b) = SubSeq(o, 1, z)
<1> DEFINE h == SubSeq(o, 1, z)
           B == {i \in DOMAIN A : A[i].stop < p}
           b == Picked(A, B)
           r == Sorted(b)
<1>1. o \in Seq(Cuts(t)) /\ InLine(o) /\ SameMembers(o, A)
  BY SortedInLine
<1>2. z \in Nat /\ z <= Len(o) /\ Len(o) \in Nat
  BY <1>1
<1>3. h \in Seq(Cuts(t)) /\ Len(h) = z /\ \A k \in 1..z : h[k] = o[k]
  BY <1>1, <1>2
<1> HIDE DEF h
<1>4. B \in SUBSET (1..Len(A)) /\ \A i \in 1..Len(A) : i \in B <=> A[i].stop < p
  OBVIOUS
<1> HIDE DEF B
<1>5. /\ b \in Seq(Cuts(t))
      /\ \A k \in 1..Len(b) : \E i \in B : b[k] = A[i]
      /\ \A i \in B : \E k \in 1..Len(b) : b[k] = A[i]
  BY <1>4, PickedIs
<1>6. InOrder(b, A, B)
  BY <1>4, PickedOrder
<1> HIDE DEF b
<1>7. AllClear(b)
  <2>1. \A k \in 1..Len(b) : b[k].start < b[k].stop
    BY <1>4, <1>5 DEF AllClear
  <2>2. ASSUME NEW j \in 1..Len(b), NEW k \in 1..Len(b), j < k
        PROVE  Clear(b[j], b[k]) /\ Clear(b[k], b[j])
    <3>1. PICK i \in B, l \in B : i < l /\ b[j] = A[i] /\ b[k] = A[l]
      BY <1>6, <2>2 DEF InOrder
    <3>2. i # l /\ i \in 1..Len(A) /\ l \in 1..Len(A)
      BY <1>4, <3>1
    <3>3. QED
      BY <3>1, <3>2 DEF AllClear
  <2>3. \A j, k \in 1..Len(b) : j # k => j < k \/ k < j
    BY <1>5
  <2>4. QED
    BY <2>1, <2>2, <2>3 DEF AllClear
<1>8. r \in Seq(Cuts(t)) /\ InLine(r) /\ SameMembers(r, b)
  BY <1>5, <1>7, SortedInLine
<1> HIDE DEF r
<1>9. InLine(h)
  <2>1. \A k \in 1..z : k \in 1..Len(o)
    BY <1>2
  <2>2. QED
    BY <1>1, <1>3, <2>1 DEF InLine
<1>10. ASSUME NEW x \in 1..Len(r) PROVE \E k \in 1..Len(h) : r[x] = h[k]
  <2>1. PICK y \in 1..Len(b) : r[x] = b[y]
    BY <1>8 DEF SameMembers
  <2>2. PICK i \in B : b[y] = A[i]
    BY <1>5
  <2>3. i \in 1..Len(A) /\ A[i].stop < p
    BY <1>4
  <2>4. PICK k \in 1..Len(o) : o[k] = A[i]
    BY <1>1, <2>3 DEF SameMembers
  <2>5. k \in 1..z
    BY <1>2, <2>3, <2>4 DEF EndsBefore
  <2>6. QED
    BY <1>3, <2>1, <2>2, <2>4, <2>5
<1>11. ASSUME NEW k \in 1..Len(h) PROVE \E x \in 1..Len(r) : r[x] = h[k]
  <2>1. k \in 1..z /\ k \in 1..Len(o) /\ k <= z
    BY <1>2, <1>3
  <2>2. h[k] = o[k] /\ o[k].stop < p
    BY <1>3, <2>1 DEF EndsBefore
  <2>3. PICK i \in 1..Len(A) : o[k] = A[i]
    BY <1>1, <2>1 DEF SameMembers
  <2>4. PICK y \in 1..Len(b) : b[y] = A[i]
    BY <1>4, <1>5, <2>2, <2>3
  <2>5. PICK x \in 1..Len(r) : r[x] = b[y]
    BY <1>8 DEF SameMembers
  <2>6. QED
    BY <2>2, <2>3, <2>4, <2>5
<1>12. SameMembers(r, h)
  BY <1>10, <1>11 DEF SameMembers
<1>13. r = h
  BY <1>3, <1>8, <1>9, <1>12, LinesAgree
<1>14. QED
  BY <1>5, <1>13 DEF r, b, B, h

(* A token that no splice of a line takes: so many end in front of it.      *)
LEMMA EndedAre ==
    ASSUME NEW o, NEW N \in Nat, N = Len(o), InLine(o), NEW p \in Nat,
           \A k \in 1..N : p <= o[k].start \/ p > o[k].stop
    PROVE  \E z \in 0..N : \A k \in 1..N : /\ o[k].stop < p <=> k <= z
                                           /\ k > z => o[k].start >= p
<1> DEFINE D == {d \in Nat : d >= N \/ o[d + 1].start >= p}
<1>1. \A k \in 1..N : o[k].start \in Nat /\ o[k].stop \in Nat /\ o[k].start < o[k].stop
  BY DEF InLine
<1>2. \A j, k \in 1..N : j < k => o[j].stop <= o[k].start
  BY DEF InLine
<1>3. D \in SUBSET Nat /\ N \in D
  OBVIOUS
<1>4. PICK z \in D : \A d \in D : z <= d
  <2> HIDE DEF D
  <2>1. QED
    BY <1>3, Taking!Least
<1>5. z \in 0..N
  BY <1>3, <1>4
<1>6. ASSUME NEW k \in 1..N, k <= z PROVE o[k].stop < p
  <2> DEFINE d == k - 1
  <2>1. d \in Nat /\ d < z /\ d < N /\ d + 1 = k
    BY <1>5, <1>6
  <2> HIDE DEF d
  <2>2. d \notin D
    <3> HIDE DEF D
    <3>1. d \in D => z <= d
      BY <1>4
    <3>2. QED
      BY <1>5, <2>1, <3>1
  <2>3. ~(o[k].start >= p)
    BY <2>1, <2>2
  <2>4. QED
    BY <1>1, <2>3
<1>7. ASSUME NEW k \in 1..N, k > z PROVE o[k].start >= p
  <2>1. z < N /\ z + 1 \in 1..N /\ z \in Nat
    BY <1>5, <1>7
  <2>2. o[z + 1].start >= p
    BY <1>4, <2>1
  <2>3. k = z + 1 \/ z + 1 < k
    BY <1>7, <2>1
  <2>4. z + 1 < k => o[z + 1].stop <= o[k].start
    BY <1>2, <2>1
  <2>5. o[z + 1].start \in Nat /\ o[z + 1].stop \in Nat /\ o[z + 1].start < o[z + 1].stop /\ o[k].start \in Nat
    BY <1>1, <2>1
  <2>6. QED
    BY <2>2, <2>3, <2>4, <2>5
<1>8. ASSUME NEW k \in 1..N PROVE (o[k].stop < p <=> k <= z) /\ (k > z => o[k].start >= p)
  <2>1. k <= z \/ k > z
    BY <1>5
  <2>2. o[k].start >= p => ~(o[k].stop < p)
    BY <1>1
  <2>3. k > z => ~(k <= z)
    BY <1>5
  <2>4. QED
    BY <1>6, <1>7, <2>1, <2>2, <2>3
<1>9. QED
  BY <1>5, <1>8

(* A text apart in front of one token and behind it.                       *)
LEMMA ApartAt ==
    ASSUME NEW v \in Texts, NEW p \in 1..Len(v)
    PROVE  \E r \in Texts : v = SubSeq(v, 1, p - 1) \o (<<v[p]>> \o r)
<1> DEFINE u == SubSeq(v, 1, p - 1)
           g == SubSeq(v, p, Len(v))
           r == SubSeq(v, p + 1, Len(v))
           c == <<v[p]>>
<1>1. Len(v) \in Nat /\ p \in Nat /\ v \in Seq(Tokens) /\ v[p] \in Tokens
  BY DEF Texts
<1>2. u \in Texts /\ Len(u) = p - 1 /\ \A k \in 1 .. p - 1 : u[k] = v[k]
  BY <1>1, HalvesAre
<1>3. g \in Texts /\ Len(g) = Len(v) - (p - 1) /\ \A k \in 1 .. Len(v) - (p - 1) : g[k] = v[(p - 1) + k]
  <2> DEFINE a == p - 1
  <2>1. a \in 0..Len(v) /\ p = a + 1
    BY <1>1
  <2> HIDE DEF a
  <2>2. LET q == SubSeq(v, a + 1, Len(v)) IN
        q \in Texts /\ Len(q) = Len(v) - a /\ \A k \in 1 .. Len(v) - a : q[k] = v[a + k]
    BY ONLY v \in Texts, <2>1, HalvesAre
  <2>3. SubSeq(v, a + 1, Len(v)) = g
    BY ONLY <2>1 DEF g
  <2>4. g \in Texts /\ Len(g) = Len(v) - a /\ \A k \in 1 .. Len(v) - a : g[k] = v[a + k]
    BY ONLY <2>2, <2>3
  <2>5. a = p - 1
    BY DEF a
  <2>6. QED
    BY ONLY <2>4, <2>5
<1>4. r \in Texts /\ Len(r) = Len(v) - p /\ \A k \in 1 .. Len(v) - p : r[k] = v[p + k]
  BY <1>1, HalvesAre
<1>5. c \in Seq(Tokens) /\ Len(c) = 1 /\ c[1] = v[p]
  BY <1>1
<1> HIDE DEF u, g, r, c
<1>6. u \in Seq(Tokens) /\ g \in Seq(Tokens) /\ r \in Seq(Tokens) /\ Len(u) \in Nat /\ Len(g) \in Nat /\ Len(r) \in Nat
  BY <1>2, <1>3, <1>4 DEF Texts
<1>7. c \o r = g
  <2>1. Len(g) = Len(c) + Len(r) /\ \A k \in 1..Len(c) : g[k] = c[k]
    BY <1>1, <1>3, <1>4, <1>5
  <2>2. \A k \in 1..Len(r) : g[Len(c) + k] = r[k]
    <3> SUFFICES ASSUME NEW k \in 1..Len(r) PROVE g[1 + k] = r[k]
      BY <1>5
    <3>1. 1 + k \in 1 .. Len(v) - (p - 1) /\ (p - 1) + (1 + k) = p + k
      BY <1>1, <1>4
    <3>2. QED
      BY <1>3, <1>4, <3>1
  <2>3. QED
    BY <1>5, <1>6, <2>1, <2>2, JoinedIs
<1>8. u \o g = v
  <2>1. Len(v) = Len(u) + Len(g) /\ \A k \in 1..Len(u) : v[k] = u[k]
    BY <1>1, <1>2, <1>3
  <2>2. \A k \in 1..Len(g) : v[Len(u) + k] = g[k]
    BY <1>2, <1>3
  <2>3. QED
    BY <1>1, <1>6, <2>1, <2>2, JoinedIs
<1>9. QED
  BY <1>4, <1>7, <1>8 DEF u, c

(* A token no splice takes stands, when all are applied, behind what those  *)
(* in front of it make of the text in front of it.                         *)
LEMMA TokenStays ==
    ASSUME NEW t \in Texts, NEW A \in Seq(Cuts(t)), AllClear(A), NEW p \in 1..Len(t),
           \A k \in 1..Len(A) : p <= A[k].start \/ p > A[k].stop
    PROVE  LET head == Applied(SubSeq(t, 1, p - 1), Picked(A, {i \in DOMAIN A : A[i].stop < p}))
           IN  head \in Texts /\ \E r \in Texts : Applied(t, A) = head \o (<<t[p]>> \o r)
<1> DEFINE o == Sorted(A)
           N == Len(o)
           b == Picked(A, {i \in DOMAIN A : A[i].stop < p})
           u == SubSeq(t, 1, p - 1)
           head == Applied(u, b)
<1>1. o \in Seq(Cuts(t)) /\ InLine(o) /\ SameMembers(o, A)
  BY SortedInLine
<1>2. PICK x : Backwards(x, o, t, N) /\ Applied(t, A) = x[0]
  <2>1. N \in Nat /\ o \in Seq(Range(o)) /\ Len(o) = N /\ o = Sorted(A)
    <3>1. o = Sorted(A)
      OBVIOUS
    <3> HIDE DEF o
    <3>2. QED
      BY <1>1, <3>1 DEF Range
  <2> HIDE DEF N, o
  <2>2. QED
    BY <2>1, AppliedIsChain
<1>a. N = Len(o) /\ o = Sorted(A)
  OBVIOUS
<1> HIDE DEF o, N, b
<1>b. N \in Nat /\ p \in Nat /\ p - 1 \in Nat /\ Len(t) \in Nat /\ p <= Len(t)
  BY <1>1, <1>a DEF Texts
<1>c. \A k \in 1..N : /\ o[k].start \in Nat /\ o[k].stop \in Nat /\ o[k].start <= o[k].stop
                      /\ o[k].stop <= Len(t) /\ o[k].text \in Texts
  <2> SUFFICES ASSUME NEW k \in 1..N
               PROVE /\ o[k].start \in Nat /\ o[k].stop \in Nat /\ o[k].start <= o[k].stop
                     /\ o[k].stop <= Len(t) /\ o[k].text \in Texts
    OBVIOUS
  <2>1. o[k] \in Cuts(t)
    BY <1>1, <1>a
  <2>2. QED
    BY <1>b, <2>1 DEF Cuts, Spots
<1>3. \A k \in 1..N : p <= o[k].start \/ p > o[k].stop
  BY <1>1, <1>a DEF SameMembers
<1>4. PICK z \in 0..N : \A k \in 1..N : /\ o[k].stop < p <=> k <= z
                                        /\ k > z => o[k].start >= p
  BY <1>1, <1>3, <1>a, <1>b, EndedAre
<1> DEFINE h == SubSeq(o, 1, z)
<1>5. b \in Seq(Cuts(t)) /\ Sorted(b) = h
  <2>1. z \in 0..Len(o) /\ EndsBefore(o, p, z)
    BY <1>4, <1>a DEF EndsBefore
  <2>2. b \in Seq(Cuts(t)) /\ Sorted(b) = SubSeq(o, 1, z)
    BY ONLY t \in Texts, A \in Seq(Cuts(t)), AllClear(A), <1>a, <1>b, <2>1, EndedArePicked DEF b
  <2>3. QED
    BY ONLY <2>2 DEF h
<1>6. h \in Seq(Cuts(t)) /\ Len(h) = z /\ z \in Nat /\ \A k \in 1..z : h[k] = o[k] /\ k \in 1..N
  BY <1>1, <1>4, <1>a, <1>b
<1> HIDE DEF h
<1>7. x[z] \in Texts /\ p <= Len(x[z]) /\ \A i \in 1..p : x[z][i] = t[i]
  <2>1. CASE z = N
    BY <1>2, <1>b, <2>1 DEF Backwards
  <2>2. CASE z # N
    <3> DEFINE y == z + 1
    <3>1. y \in 1..N /\ y > z /\ y - 1 = z
      BY <1>4, <1>b, <2>2
    <3> HIDE DEF y
    <3>2. o[y].start >= p /\ o[y].start \in Nat /\ o[y].stop \in Nat /\ o[y].start <= o[y].stop /\ o[y].text \in Texts
      BY <1>4, <1>c, <3>1
    <3>3. /\ x[y] \in Texts /\ o[y].stop <= Len(x[y])
          /\ \A i \in 1..o[y].start : x[y][i] = t[i]
      BY <1>1, <1>2, <1>a, <1>b, <3>1, BehindIsApart
    <3>4. x[z] = Spliced(x[y], o[y])
      BY <1>2, <3>1 DEF Backwards
    <3>5. /\ Spliced(x[y], o[y]) \in Texts /\ o[y].start <= Len(Spliced(x[y], o[y]))
          /\ \A i \in 1..o[y].start : Spliced(x[y], o[y])[i] = x[y][i]
      BY <3>2, <3>3, SplicedSplits
    <3>6. x[z] \in Texts /\ o[y].start <= Len(x[z]) /\ \A i \in 1..o[y].start : x[z][i] = t[i]
      BY <3>3, <3>4, <3>5
    <3>7. Len(x[z]) \in Nat /\ \A i \in 1..p : i \in 1..o[y].start
      BY <1>b, <3>2, <3>6 DEF Texts
    <3>8. QED
      BY <1>b, <3>2, <3>6, <3>7
  <2>3. QED
    BY <2>1, <2>2
<1> DEFINE w == x[z]
<1>8. w \in Texts /\ p \in 1..Len(w) /\ w[p] = t[p]
  <2>1. Len(w) \in Nat
    BY <1>7 DEF Texts
  <2>2. QED
    BY <1>7, <1>b, <2>1
<1>9. u \in Texts /\ Len(u) = p - 1 /\ SubSeq(w, 1, p - 1) = u
  <2>1. u \in Texts /\ Len(u) = p - 1 /\ \A i \in 1 .. p - 1 : u[i] = t[i]
    BY <1>b, HalvesAre
  <2> DEFINE e == SubSeq(w, 1, p - 1)
  <2>2. e \in Texts /\ Len(e) = p - 1 /\ \A i \in 1 .. p - 1 : e[i] = w[i]
    BY <1>8, <1>b, HalvesAre
  <2>3. \A i \in 1 .. p - 1 : w[i] = t[i]
    BY <1>7, <1>b
  <2> HIDE DEF e, u, w
  <2>4. e = u
    <3>1. \A i \in 1..Len(e) : e[i] = u[i]
      BY <2>1, <2>2, <2>3
    <3>2. QED
      BY <2>1, <2>2, <3>1, SeqEqual DEF Texts
  <2>5. QED
    BY <2>1, <2>4 DEF e
<1> HIDE DEF w, u, head
<1>10. PICK r \in Texts : w = u \o (<<t[p]>> \o r)
  <2>1. \E r \in Texts : w = SubSeq(w, 1, p - 1) \o (<<w[p]>> \o r)
    BY ONLY <1>8, ApartAt
  <2>2. QED
    BY ONLY <1>8, <1>9, <2>1
<1> DEFINE g == <<t[p]>> \o r
<1>11. g \in Texts
  <2>1. t[p] \in Tokens /\ r \in Seq(Tokens)
    BY <1>b DEF Texts
  <2>2. QED
    BY <2>1 DEF Texts
<1>d. w = u \o g
  BY <1>10
<1> HIDE DEF g
<1>12. PICK y : Backwards(y, h, u, z) /\ head = y[0]
  <2>1. h \in Seq(Range(h)) /\ h = Sorted(b)
    BY <1>5, <1>6 DEF Range
  <2>2. QED
    BY <1>6, <2>1, AppliedIsChain DEF head
<1>13. LineIn(u, h, z)
  <2>1. \A k \in 1..z : /\ h[k].start \in Nat /\ h[k].stop \in Nat /\ h[k].start <= h[k].stop
                        /\ h[k].stop <= Len(u) /\ h[k].text \in Texts
    <3> SUFFICES ASSUME NEW k \in 1..z
                 PROVE  /\ h[k].start \in Nat /\ h[k].stop \in Nat /\ h[k].start <= h[k].stop
                        /\ h[k].stop <= Len(u) /\ h[k].text \in Texts
      OBVIOUS
    <3>1. h[k] = o[k] /\ k \in 1..N /\ k <= z
      BY <1>6
    <3>2. o[k].stop < p
      BY <1>4, <3>1
    <3>3. QED
      BY <1>9, <1>b, <1>c, <3>1, <3>2
  <2>2. \A j, k \in 1..z : j < k => h[j].stop <= h[k].start
    BY <1>1, <1>6, <1>a DEF InLine
  <2>3. QED
    BY <2>1, <2>2 DEF LineIn
<1>14. Backwards(x, h, u \o g, z)
  <2>1. \A k \in 1..z : x[k - 1] = Spliced(x[k], h[k])
    BY <1>2, <1>6 DEF Backwards
  <2>2. x[z] = u \o g
    BY <1>d DEF w
  <2>3. QED
    BY <2>1, <2>2 DEF Backwards
<1>15. x[0] = y[0] \o g /\ y[0] \in Texts
  BY ONLY <1>6, <1>9, <1>11, <1>12, <1>13, <1>14, FrontIsApart
<1>16. QED
  BY <1>2, <1>12, <1>15 DEF g, head, u, b

-----------------------------------------------------------------------------
(* Where the replacements of replace_text are. *)

(* What is joined first is a prefix of what is joined to it.               *)
LEMMA FrontStands ==
    ASSUME NEW p \in Texts, NEW v \in Texts, NEW r \in Texts
    PROVE  IsPrefix(p \o v, p \o (v \o r))
<1> DEFINE u == p \o v
           w == u \o r
<1>1. p \in Seq(Tokens) /\ v \in Seq(Tokens) /\ r \in Seq(Tokens)
  BY DEF Texts
<1>2. (p \o v) \o r = p \o (v \o r)
  BY ONLY <1>1, ConcatAssociative, SMTT(60)
<1>3. u \in Seq(Tokens)
  BY ONLY <1>1, JoinIs
<1> HIDE DEF u
<1>4. /\ w \in Seq(Tokens) /\ Len(w) = Len(u) + Len(r) /\ Len(u) \in Nat /\ Len(r) \in Nat
      /\ \A l \in 1..Len(u) : w[l] = u[l]
  BY ONLY <1>1, <1>3, JoinIs, SMTT(60)
<1> HIDE DEF w
<1>5. Len(u) <= Len(w) /\ Len(u) \in 0..Len(w) /\ w \in Texts
  BY <1>4 DEF Texts
<1>6. SubSeq(w, 1, Len(u)) = u
  <2>1. /\ SubSeq(w, 1, Len(u)) \in Texts /\ Len(SubSeq(w, 1, Len(u))) = Len(u)
        /\ \A l \in 1..Len(u) : SubSeq(w, 1, Len(u))[l] = w[l]
    BY <1>5, HalvesAre
  <2>2. QED
    BY <1>3, <1>4, <2>1, SeqEqual DEF Texts
<1>7. u = SubSeq(u, 1, Len(u))
  BY <1>3, SubSeqFull
<1>8. IsPrefix(u, w)
  BY <1>5, <1>6, <1>7 DEF IsPrefix
<1>9. QED
  BY <1>2, <1>8 DEF u, w

(* A replacement of an accepted group is in the text where the splices in   *)
(* front of it have brought it, and its reported line is the line there.   *)
LEMMA HitStands ==
    ASSUME NEW t \in Texts, NEW items \in Seq(Replacements), ReplaceOk(t, items),
           NEW k \in DOMAIN items, NEW j \in DOMAIN ItemSplices(t, Parse(t), items[k])
    PROVE  LET s == ItemSplices(t, Parse(t), items[k])
               before == Only(AllSplices(t, items), LAMBDA x : x.start < s[j].start)
               head == Applied(SubSeq(t, 1, s[j].start), before)
           IN  /\ IsPrefix(head \o items[k].with, Replaced(t, items))
               /\ HitLine(t, items, s[j]) = LineAt(Replaced(t, items), Len(head))
<1> DEFINE A == AllSplices(t, items)
           o == Sorted(A)
           s == ItemSplices(t, Parse(t), items[k])
           with == items[k].with
           q == [l \in DOMAIN items |-> ItemSplices(t, Parse(t), items[l])]
           before == Only(A, LAMBDA x : x.start < s[j].start)
           front == Only(o, LAMBDA x : x.start < s[j].start)
           head == Applied(SubSeq(t, 1, s[j].start), before)
           new == Replaced(t, items)
<1>1. A \in Seq(Cuts(t)) /\ AllClear(A) /\ HasAll(A, q, Len(items))
  BY SplicesAreClear
<1>2. k \in 1..Len(items) /\ items[k] \in Replacements /\ q[k] = s
  OBVIOUS
<1>3. s \in Seq(Cuts(t)) /\ \A i \in 1..Len(s) : s[i].text = with
  <2>1. IsDoc(Parse(t), t)
    BY DocIs
  <2>2. QED
    BY <1>2, <2>1, ItemIsCuts
<1>a. new = Applied(t, A)
  BY DEF Replaced
<1>b. before = Picked(A, {i \in DOMAIN A : A[i].start < s[j].start})
  BY DEF Only, Picked
<1>c. front = Picked(o, {i \in DOMAIN o : o[i].start < s[j].start})
  BY DEF Only, Picked
<1>d. HitLine(t, items, s[j]) = LineAt(new, FoldLeft(Shifted, s[j].start, front))
  <2> HIDE DEF s
  <2>1. QED
    BY DEF HitLine, HitLineWith, Shifted, FoldLeft, MapThenFoldSet
<1>e. j \in DOMAIN s
  OBVIOUS
<1> HIDE DEF q, s
<1>4. j \in 1..Len(s) /\ s[j].text = with
  BY <1>3, <1>e
<1>5. PICK i \in 1..Len(A) : A[i] = s[j]
  BY <1>1, <1>2, <1>4 DEF HasAll
<1>6. PICK z \in 1..Len(o) : o[z] = A[i]
  <2>1. SameMembers(o, A)
    BY <1>1, SortedInLine
  <2>2. QED
    BY <2>1 DEF SameMembers
<1>7. o[z] = s[j] /\ o[z].text = with
  BY <1>4, <1>5, <1>6
<1>8. /\ head \in Texts /\ with \in Texts
      /\ \E r \in Texts : Applied(t, A) = head \o (with \o r)
      /\ FoldLeft(Shifted, s[j].start, front) = Len(head)
  <2> DEFINE st == o[z].start
             h == Applied(SubSeq(t, 1, st), Picked(A, {l \in DOMAIN A : A[l].start < st}))
             f == Picked(o, {l \in DOMAIN o : o[l].start < st})
  <2>1. z \in 1..Len(Sorted(A))
    OBVIOUS
  <2>2. /\ h \in Texts /\ o[z].text \in Texts
        /\ \E r \in Texts : Applied(t, A) = h \o (o[z].text \o r)
        /\ FoldLeft(Shifted, st, f) = Len(h)
    <3> HIDE DEF A
    <3>1. QED
      BY ONLY t \in Texts, <1>1, <2>1, SpliceStands
  <2>3. h = head /\ f = front /\ st = s[j].start
    BY <1>7, <1>b, <1>c
  <2> HIDE DEF h, f, st, head, front
  <2>4. QED
    BY <1>7, <2>2, <2>3
<1> HIDE DEF head, front, new, A, with
<1>9. PICK r \in Texts : new = head \o (with \o r)
  BY <1>8, <1>a
<1>10. IsPrefix(head \o with, new)
  BY <1>8, <1>9, FrontStands
<1>11. HitLine(t, items, s[j]) = LineAt(new, Len(head))
  BY <1>8, <1>d
<1>12. QED
  BY <1>10, <1>11 DEF head, new, A, with, s

(* A note has one spelling.                                                *)
OneSpelling == \A a, b \in Range(Spellings) : NoteOf[a] = NoteOf[b] => a = b

(* What the last call was, when it was an accepted replace_text: every      *)
(* group was in order, and is what its note has become.                    *)
Replays ==
    Accepted("replace_text") =>
        /\ call.items \in Seq(Replacements) /\ call.before \in [Notes -> Texts]
        /\ \A s \in Range(Groups(call.items)) :
              ReplaceOk(call.before[NoteOf[s]], Group(call.items, s))
        /\ text = [n \in Notes |->
              IF Writers(call.items, n) = <<>> THEN call.before[n]
              ELSE Replaced(call.before[n], Group(call.items, Last(Writers(call.items, n))))]

(* It holds in every state: nothing but a call changes the texts it left.  *)
LEMMA ReplaysHold == Spec => []Replays
<1>1. Init => Replays
  BY DEF Init, Replays, Accepted, NoCall
<1>2. ASSUME TypeOK, Replays, [Next]_vars PROVE Replays'
  <2>1. CASE UNCHANGED vars
    <3>1. text' = text /\ call' = call
      BY <2>1 DEF vars
    <3>2. QED
      BY <1>2, <3>1 DEF Replays, Accepted
  <2>2. CASE Type
    BY <2>2 DEF Type, Replays, Accepted, NoCall
  <2>3. CASE EditSections
    <3>1. call'.tool = "edit_sections"
      BY <2>3 DEF EditSections, Run
    <3>2. QED
      BY <3>1 DEF Replays, Accepted
  <2>4. CASE EditProperties
    <3>1. call'.tool = "edit_properties"
      BY <2>4 DEF EditProperties, Run
    <3>2. QED
      BY <3>1 DEF Replays, Accepted
  <2>5. CASE ReplaceText
    <3>1. PICK batch \in ReplaceBatches : Run("replace_text", batch, ReplaceOk, Replaced)
      BY <2>5 DEF ReplaceText
    <3> DEFINE good == \A s \in Range(Groups(batch)) : ReplaceOk(text[NoteOf[s]], Group(batch, s))
    <3>2. /\ text' = IF good THEN Written(batch, Replaced) ELSE text
          /\ call' = [tool |-> "replace_text", items |-> batch, ok |-> good, before |-> text]
      BY <3>1 DEF Run
    <3>3. batch \in Seq(Replacements) /\ text \in [Notes -> Texts]
      BY <1>2, InputAssumption DEF TypeOK
    <3>4. Written(batch, Replaced) =
             [n \in Notes |-> IF Writers(batch, n) = <<>> THEN text[n]
                              ELSE Replaced(text[n], Group(batch, Last(Writers(batch, n))))]
      BY WrittenIs
    <3>5. call'.items = batch /\ call'.before = text /\ (Accepted("replace_text")' => good)
      BY <3>2 DEF Accepted
    <3> SUFFICES ASSUME Accepted("replace_text")'
                 PROVE  /\ call'.items \in Seq(Replacements) /\ call'.before \in [Notes -> Texts]
                        /\ \A s \in Range(Groups(call'.items)) :
                              ReplaceOk(call'.before[NoteOf[s]], Group(call'.items, s))
                        /\ text' = [n \in Notes |->
                              IF Writers(call'.items, n) = <<>> THEN call'.before[n]
                              ELSE Replaced(call'.before[n], Group(call'.items, Last(Writers(call'.items, n))))]
      BY DEF Replays
    <3>6. good /\ text' = Written(batch, Replaced)
      BY <3>2, <3>5
    <3>7. QED
      BY <3>3, <3>4, <3>5, <3>6
  <2>6. QED
    BY <1>2, <2>1, <2>2, <2>3, <2>4, <2>5 DEF Next
<1>3. QED
  BY <1>1, <1>2, TextsStay, PTL DEF Spec

(* The items of a note with one spelling are its group, which is written.  *)
LEMMA ItemsAreGroup ==
    ASSUME OneSpelling, NEW S, NEW items \in Seq(S), \A e \in S : e.note \in Range(Spellings),
           NEW k \in DOMAIN items
    PROVE  LET w == items[k].note
               G == Only(items, LAMBDA e : NoteOf[e.note] = NoteOf[w])
           IN  /\ G = Group(items, w) /\ G \in Seq(S)
               /\ \E i \in DOMAIN G : G[i] = items[k]
               /\ w \in Range(Groups(items)) /\ NoteOf[w] \in Notes
               /\ Writers(items, NoteOf[w]) # <<>> /\ Last(Writers(items, NoteOf[w])) = w
<1> DEFINE w == items[k].note
           n == NoteOf[w]
           G == Only(items, LAMBDA e : NoteOf[e.note] = n)
           K == {i \in DOMAIN items : NoteOf[items[i].note] = n}
<1>1. DOMAIN items = 1..Len(items) /\ k \in 1..Len(items) /\ \A i \in 1..Len(items) : items[i] \in S
  OBVIOUS
<1>2. \A i \in 1..Len(items) : items[i].note \in Range(Spellings)
  BY <1>1
<1>3. K = GroupAt(items, w)
  BY <1>1, <1>2 DEF GroupAt, OneSpelling
<1>4. G = Picked(items, K)
  BY DEF Only, Picked
<1>5. Group(items, w) = Picked(items, GroupAt(items, w)) /\ Group(items, w) \in Seq(S)
  BY GroupIs
<1>6. G = Group(items, w)
  BY <1>3, <1>4, <1>5
<1>7. K \in SUBSET (1..Len(items)) /\ k \in K
  BY <1>1
<1>a. w \in Range(Spellings) /\ w = items[k].note
  BY <1>1, <1>2
<1>b. n = NoteOf[w]
  OBVIOUS
<1> HIDE DEF G, K, w, n
<1>8. PICK i \in 1..Len(G) : G[i] = items[k]
  BY <1>4, <1>7, PickedIs
<1>9. G \in Seq(S) /\ i \in DOMAIN G
  BY <1>5, <1>6
<1>10. w \in Range(Groups(items))
  <2> DEFINE J == {l \in DOMAIN Spellings : Group(items, Spellings[l]) # <<>>}
             U == Groups(items)
  <2>1. Spellings \in Seq(Range(Spellings)) /\ J \in SUBSET (1..Len(Spellings))
    BY InputAssumption
  <2>2. U = Picked(Spellings, J)
    BY DEF Groups, Only, Picked
  <2>3. PICK l \in DOMAIN Spellings : Spellings[l] = w
    BY <1>a DEF Range
  <2>4. Group(items, w) # <<>>
    BY <1>6, <1>9
  <2>5. l \in J
    BY <2>3, <2>4
  <2> HIDE DEF J, U
  <2>6. PICK m \in 1..Len(U) : U[m] = w
    BY <2>1, <2>2, <2>3, <2>5, PickedIs
  <2>7. U \in Seq(Range(Spellings))
    BY <2>1, <2>2, PickedIs
  <2>8. QED
    BY <2>6, <2>7 DEF Range, U
<1>11. Writers(items, n) # <<>>
  <2> DEFINE U == Groups(items)
             I == WriterAt(items, n)
             W == Writers(items, n)
  <2>1. PICK l \in DOMAIN U : U[l] = w
    BY <1>10 DEF Range
  <2>2. U \in Seq(Range(Spellings))
    BY WriterIs
  <2>3. l \in I /\ I \in SUBSET (1..Len(U))
    BY <1>b, <2>1, <2>2 DEF WriterAt
  <2>4. W = Picked(U, I)
    BY DEF Writers
  <2> HIDE DEF U, I, W
  <2>5. \E m \in 1..Len(W) : W[m] = U[l]
    BY <2>2, <2>3, <2>4, PickedIs
  <2>6. W # <<>>
    BY <2>5
  <2>7. QED
    BY <2>6 DEF W
<1>12. Last(Writers(items, n)) = w
  <2>1. Last(Writers(items, n)) \in Range(Groups(items)) /\ NoteOf[Last(Writers(items, n))] = n
    BY <1>11, WriterIs
  <2>2. Range(Groups(items)) \subseteq Range(Spellings)
    <3>1. Groups(items) \in Seq(Range(Spellings))
      BY WriterIs
    <3>2. QED
      BY <3>1 DEF Range
  <2>3. QED
    BY <1>a, <1>b, <2>1, <2>2 DEF OneSpelling
<1>13. n \in Notes
  BY <1>a, <1>b DEF Notes
<1>14. QED
  BY <1>6, <1>8, <1>9, <1>10, <1>11, <1>12, <1>13 DEF G, w, n

(* The lines reported for a replacement are those where it now stands, in   *)
(* every text and whatever else the call replaces, when no two spellings   *)
(* of a note are in it (of two, the later is written over the earlier).    *)
THEOREM HitsStand == ASSUME OneSpelling PROVE Spec => []HitsAreThere
<1>1. Replays => HitsAreThere
  <2> SUFFICES ASSUME Replays, Accepted("replace_text"), NEW k \in DOMAIN call.items
               PROVE  LET e == call.items[k]
                          n == NoteOf[e.note]
                          t == call.before[n]
                          s == ItemSplices(t, Parse(t), e)
                      IN  \A j \in DOMAIN s :
                            LET before == Only(AllSplices(t, ItemsOf(n)), LAMBDA x : x.start < s[j].start)
                                head == Applied(SubSeq(t, 1, s[j].start), before)
                            IN  /\ IsPrefix(head \o e.with, text[n])
                                /\ HitLine(t, ItemsOf(n), s[j]) = LineAt(text[n], Len(head))
    BY DEF HitsAreThere
  <2> DEFINE items == call.items
             e == items[k]
             w == e.note
             n == NoteOf[w]
             t == call.before[n]
             G == ItemsOf(n)
  <2>1. /\ items \in Seq(Replacements) /\ call.before \in [Notes -> Texts]
        /\ \A s \in Range(Groups(items)) : ReplaceOk(call.before[NoteOf[s]], Group(items, s))
        /\ text = [m \in Notes |->
              IF Writers(items, m) = <<>> THEN call.before[m]
              ELSE Replaced(call.before[m], Group(items, Last(Writers(items, m))))]
    BY DEF Replays
  <2>2. \A r \in Replacements : r.note \in Range(Spellings)
    BY DEF Replacements
  <2>3. G = Only(items, LAMBDA r : NoteOf[r.note] = NoteOf[w])
    BY DEF ItemsOf
  <2>a. n = NoteOf[w] /\ w = items[k].note /\ k \in DOMAIN items /\ e = items[k]
    OBVIOUS
  <2> HIDE DEF items, G
  <2>4. /\ G = Group(items, w) /\ G \in Seq(Replacements)
        /\ \E i \in DOMAIN G : G[i] = items[k]
        /\ w \in Range(Groups(items)) /\ n \in Notes
        /\ Writers(items, n) # <<>> /\ Last(Writers(items, n)) = w
    BY <2>1, <2>2, <2>3, <2>a, ItemsAreGroup
  <2>5. t \in Texts /\ ReplaceOk(t, G)
    BY <2>1, <2>4
  <2>6. text[n] = Replaced(t, G)
    BY <2>1, <2>4
  <2>7. PICK i \in DOMAIN G : G[i] = e
    BY <2>4
  <2> HIDE DEF e, n, t
  <2>8. ASSUME NEW j \in DOMAIN ItemSplices(t, Parse(t), e)
        PROVE  LET s == ItemSplices(t, Parse(t), e)
                   before == Only(AllSplices(t, G), LAMBDA x : x.start < s[j].start)
                   head == Applied(SubSeq(t, 1, s[j].start), before)
               IN  /\ IsPrefix(head \o e.with, text[n])
                   /\ HitLine(t, G, s[j]) = LineAt(text[n], Len(head))
    <3> DEFINE s == ItemSplices(t, Parse(t), G[i])
               before == Only(AllSplices(t, G), LAMBDA x : x.start < s[j].start)
               head == Applied(SubSeq(t, 1, s[j].start), before)
    <3>1. j \in DOMAIN s /\ t \in Texts /\ G \in Seq(Replacements) /\ ReplaceOk(t, G)
      BY <2>4, <2>5, <2>7
    <3>2. /\ IsPrefix(head \o G[i].with, Replaced(t, G))
          /\ HitLine(t, G, s[j]) = LineAt(Replaced(t, G), Len(head))
      BY ONLY <3>1, i \in DOMAIN G, HitStands
    <3>3. QED
      BY <2>6, <2>7, <3>2
  <2>9. QED
    BY <2>8 DEF e, n, t, G, items
<1>2. QED
  BY <1>1, ReplaysHold, PTL

(* What an accepted replace_text does not match stays: a token in none of   *)
(* its replacements stands in the new text, right behind what those in     *)
(* front of it make of the text in front of it.                            *)
RestStays ==
    Accepted("replace_text") => \A k \in DOMAIN call.items :
        LET n == NoteOf[call.items[k].note]
            t == call.before[n]
            A == AllSplices(t, ItemsOf(n))
        IN  \A p \in 1..Len(t) :
                (\A l \in 1..Len(A) : p <= A[l].start \/ p > A[l].stop) =>
                    IsPrefix(Applied(SubSeq(t, 1, p - 1), Only(A, LAMBDA x : x.stop < p)) \o <<t[p]>>,
                             text[n])

(* So it is in the text an accepted group makes of a note.                 *)
LEMMA RestIsThere ==
    ASSUME NEW t \in Texts, NEW items \in Seq(Replacements), ReplaceOk(t, items),
           NEW A, A = AllSplices(t, items), NEW p \in 1..Len(t),
           \A l \in 1..Len(A) : p <= A[l].start \/ p > A[l].stop
    PROVE  IsPrefix(Applied(SubSeq(t, 1, p - 1), Only(A, LAMBDA x : x.stop < p)) \o <<t[p]>>,
                    Replaced(t, items))
<1> DEFINE head == Applied(SubSeq(t, 1, p - 1), Picked(A, {i \in DOMAIN A : A[i].stop < p}))
           c == <<t[p]>>
<1>1. A \in Seq(Cuts(t)) /\ AllClear(A)
  BY SplicesAreClear
<1>2. Only(A, LAMBDA x : x.stop < p) = Picked(A, {i \in DOMAIN A : A[i].stop < p})
  BY DEF Only, Picked
<1>3. head \in Texts /\ \E r \in Texts : Applied(t, A) = head \o (c \o r)
  BY <1>1, TokenStays
<1>4. c \in Texts
  <2>1. t[p] \in Tokens
    BY DEF Texts
  <2>2. QED
    BY <2>1 DEF Texts
<1>5. Replaced(t, items) = Applied(t, A)
  BY DEF Replaced
<1> HIDE DEF head, c
<1>6. IsPrefix(head \o c, Replaced(t, items))
  BY <1>3, <1>4, <1>5, FrontStands
<1>7. QED
  BY <1>2, <1>6 DEF head, c

(* What replace_text does not match stays, in every text and whatever the   *)
(* call replaces, when no two spellings of a note are in it.               *)
THEOREM RestIsKept == ASSUME OneSpelling PROVE Spec => []RestStays
<1>1. Replays => RestStays
  <2> SUFFICES ASSUME Replays, Accepted("replace_text"), NEW k \in DOMAIN call.items,
                      NEW A, A = AllSplices(call.before[NoteOf[call.items[k].note]],
                                            ItemsOf(NoteOf[call.items[k].note])),
                      NEW p \in 1..Len(call.before[NoteOf[call.items[k].note]]),
                      \A l \in 1..Len(A) : p <= A[l].start \/ p > A[l].stop
               PROVE  LET n == NoteOf[call.items[k].note]
                          t == call.before[n]
                      IN  IsPrefix(Applied(SubSeq(t, 1, p - 1), Only(A, LAMBDA x : x.stop < p)) \o <<t[p]>>,
                                   text[n])
    BY DEF RestStays
  <2> DEFINE items == call.items
             w == items[k].note
             n == NoteOf[w]
             t == call.before[n]
             G == ItemsOf(n)
  <2>1. /\ items \in Seq(Replacements) /\ call.before \in [Notes -> Texts]
        /\ \A s \in Range(Groups(items)) : ReplaceOk(call.before[NoteOf[s]], Group(items, s))
        /\ text = [m \in Notes |->
              IF Writers(items, m) = <<>> THEN call.before[m]
              ELSE Replaced(call.before[m], Group(items, Last(Writers(items, m))))]
    BY DEF Replays
  <2>2. \A r \in Replacements : r.note \in Range(Spellings)
    BY DEF Replacements
  <2>3. G = Only(items, LAMBDA r : NoteOf[r.note] = NoteOf[w])
    BY DEF ItemsOf
  <2>4. n = NoteOf[w] /\ w = items[k].note /\ k \in DOMAIN items /\ A = AllSplices(t, G) /\ p \in 1..Len(t)
    OBVIOUS
  <2> HIDE DEF items, G
  <2>5. /\ G = Group(items, w) /\ G \in Seq(Replacements)
        /\ w \in Range(Groups(items)) /\ n \in Notes
        /\ Writers(items, n) # <<>> /\ Last(Writers(items, n)) = w
    BY <2>1, <2>2, <2>3, <2>4, ItemsAreGroup
  <2>6. t \in Texts /\ ReplaceOk(t, G) /\ text[n] = Replaced(t, G)
    BY <2>1, <2>5
  <2> HIDE DEF n, t
  <2>7. IsPrefix(Applied(SubSeq(t, 1, p - 1), Only(A, LAMBDA x : x.stop < p)) \o <<t[p]>>, Replaced(t, G))
    BY <2>4, <2>5, <2>6, RestIsThere
  <2>8. QED
    BY <2>6, <2>7 DEF n, t, items
<1>2. QED
  BY <1>1, ReplaysHold, PTL

-----------------------------------------------------------------------------
(* The properties of a note: what edit_properties does to the others. *)

(* z sequences of p behind b are those of q behind d; those of p behind a   *)
(* and up to b are empty.                                                  *)
Alike(p, b, q, d, z) == \A i \in 1..z : p[b + i] = q[d + i]
Idle(p, a, b) == \A i \in a + 1 .. b : p[i] = <<>>

(* Sequences glued alike from some place on stay alike.                    *)
LEMMA GluedAlike ==
    ASSUME NEW S, NEW N \in Nat, NEW M \in Nat, NEW c, NEW h, NEW p, NEW q,
           IsGlued(c, p, N, S), IsGlued(h, q, M, S),
           NEW b \in Nat, NEW d \in Nat, NEW z \in Nat, b + z <= N, d + z <= M, c[b] = h[d],
           Alike(p, b, q, d, z)
    PROVE  c[b + z] = h[d + z]
<1> DEFINE P(n) == n <= z => c[b + n] = h[d + n]
           T == {n \in Nat : P(n)}
<1>1. 0 \in T
  <2>1. b + 0 = b /\ d + 0 = d
    OBVIOUS
  <2>2. QED
    BY <2>1
<1>2. ASSUME NEW n \in Nat, P(n) PROVE P(n + 1)
  <2> SUFFICES ASSUME n + 1 <= z PROVE c[b + (n + 1)] = h[d + (n + 1)]
    OBVIOUS
  <2>1. c[b + n] = h[d + n]
    BY <1>2
  <2>2. /\ b + (n + 1) \in 1..N /\ d + (n + 1) \in 1..M /\ n + 1 \in 1..z
        /\ (b + (n + 1)) - 1 = b + n /\ (d + (n + 1)) - 1 = d + n
    OBVIOUS
  <2>3. \A k \in 1..N : c[k] = c[k - 1] \o p[k]
    BY DEF IsGlued
  <2>4. \A k \in 1..M : h[k] = h[k - 1] \o q[k]
    BY DEF IsGlued
  <2>5. c[b + (n + 1)] = c[b + n] \o p[b + (n + 1)]
    BY ONLY <2>2, <2>3
  <2>6. h[d + (n + 1)] = h[d + n] \o q[d + (n + 1)]
    BY ONLY <2>2, <2>4
  <2>7. p[b + (n + 1)] = q[d + (n + 1)]
    BY <2>2 DEF Alike
  <2>8. QED
    BY ONLY <2>1, <2>5, <2>6, <2>7
<1>3. T \in SUBSET Nat /\ \A n \in T : n + 1 \in T
  <2> HIDE DEF P
  <2>1. QED
    BY <1>2
<1> HIDE DEF T
<1>4. T = Nat
  BY ONLY <1>1, <1>3, Taking!Grows
<1>5. P(z)
  <2>1. z \in T
    BY <1>4
  <2> HIDE DEF P
  <2>2. QED
    BY <2>1 DEF T
<1>6. QED
  BY <1>5

(* Empty sequences add nothing.                                            *)
LEMMA GluedIdle ==
    ASSUME NEW S, NEW N \in Nat, NEW c, NEW p, IsGlued(c, p, N, S),
           NEW a \in Nat, NEW b \in Nat, a <= b, b <= N, Idle(p, a, b)
    PROVE  c[b] = c[a]
<1> DEFINE P(n) == a + n <= b => c[a + n] = c[a]
           T == {n \in Nat : P(n)}
<1>1. 0 \in T
  <2>1. a + 0 = a
    OBVIOUS
  <2>2. QED
    BY <2>1
<1>2. ASSUME NEW n \in Nat, P(n) PROVE P(n + 1)
  <2> SUFFICES ASSUME a + (n + 1) <= b PROVE c[a + (n + 1)] = c[a]
    OBVIOUS
  <2>1. c[a + n] = c[a]
    BY <1>2
  <2>2. /\ a + (n + 1) \in 1..N /\ a + (n + 1) \in a + 1 .. b
        /\ (a + (n + 1)) - 1 = a + n /\ a + n \in 0..N
    OBVIOUS
  <2>3. \A k \in 1..N : c[k] = c[k - 1] \o p[k]
    BY DEF IsGlued
  <2>4. c[a + (n + 1)] = c[a + n] \o p[a + (n + 1)]
    BY ONLY <2>2, <2>3
  <2>5. p[a + (n + 1)] = <<>>
    BY <2>2 DEF Idle
  <2>6. c[a + n] \in Seq(S)
    BY <2>2 DEF IsGlued
  <2>7. c[a + n] \o <<>> = c[a + n]
    BY ONLY <2>6
  <2>8. QED
    BY ONLY <2>1, <2>4, <2>5, <2>7
<1>3. T \in SUBSET Nat /\ \A n \in T : n + 1 \in T
  <2> HIDE DEF P
  <2>1. QED
    BY <1>2
<1> HIDE DEF T
<1>4. T = Nat
  BY ONLY <1>1, <1>3, Taking!Grows
<1>5. P(b - a)
  <2>1. b - a \in T
    BY <1>4
  <2> HIDE DEF P
  <2>2. QED
    BY <2>1 DEF T
<1>6. a + (b - a) = b
  OBVIOUS
<1>7. QED
  BY <1>5, <1>6

(* What is empty in the middle does not matter to the whole.               *)
LEMMA FlattenSkips ==
    ASSUME NEW S, NEW p \in Seq(Seq(S)), NEW q \in Seq(Seq(S)),
           NEW a \in Nat, NEW b \in Nat, NEW d \in Nat, NEW z \in Nat,
           a <= b, a <= d, Len(p) = b + z, Len(q) = d + z,
           Alike(p, 0, q, 0, a), Idle(p, a, b), Idle(q, a, d), Alike(p, b, q, d, z)
    PROVE  FlattenSeq(p) = FlattenSeq(q)
<1> DEFINE N == b + z
           M == d + z
           Z == 0
<1>1. /\ N \in Nat /\ M \in Nat /\ Len(p) = N /\ Len(q) = M
      /\ \A i \in 1..N : p[i] \in Seq(S)
      /\ \A i \in 1..M : q[i] \in Seq(S)
      /\ (N = 0 => p = <<>>) /\ (M = 0 => q = <<>>)
      /\ b <= N /\ a <= N /\ d <= M /\ a <= M /\ b + z <= N /\ d + z <= M
  OBVIOUS
<1>a. N = b + z /\ M = d + z
  OBVIOUS
<1>b. /\ Z \in Nat /\ Z + a <= N /\ Z + a <= M /\ Alike(p, Z, q, Z, a)
      /\ Z + a = a /\ Z = 0
  OBVIOUS
<1> HIDE DEF N, M, Z
<1>2. Pieces(p, N, S) /\ Pieces(q, M, S)
  BY <1>1 DEF Pieces
<1>3. PICK c : IsGlued(c, p, N, S) /\ FlattenSeq(p) = c[N]
  BY <1>1, <1>2, FlattenIs
<1>4. PICK h : IsGlued(h, q, M, S) /\ FlattenSeq(q) = h[M]
  BY <1>1, <1>2, FlattenIs
<1>5. c[a] = h[a]
  <2>1. c[Z] = h[Z]
    BY <1>3, <1>4, <1>b DEF IsGlued
  <2>2. c[Z + a] = h[Z + a]
    BY ONLY <1>1, <1>3, <1>4, <1>b, <2>1, a \in Nat, GluedAlike
  <2>3. QED
    BY <1>b, <2>2
<1>6. c[b] = c[a]
  BY <1>1, <1>3, GluedIdle
<1>7. h[d] = h[a]
  BY <1>1, <1>4, GluedIdle
<1>8. c[b + z] = h[d + z]
  <2>1. c[b] = h[d]
    BY <1>5, <1>6, <1>7
  <2>2. QED
    BY <1>1, <1>3, <1>4, <2>1, GluedAlike
<1>9. QED
  BY <1>3, <1>4, <1>8, <1>a

(* Does a line belong to a key, and what it adds to the key's value.       *)
Owned(x, key, i) == \E j \in OwnerOf(x, i) : x[j][1] = key
Part(x, key, i) ==
    IF Owned(x, key, i) THEN IF IsKey(x[i]) \/ Continues(x[i]) THEN Tail(x[i]) ELSE <<>> ELSE <<>>
Parts(x, key) == [i \in DOMAIN x |-> Part(x, key, i)]

(* The lines of x behind a and up to b begin with key's own and have no    *)
(* other key; y is x with other such lines in their place.                 *)
Headed(x, key, a, b) ==
    a < b => /\ IsKey(x[a + 1]) /\ x[a + 1][1] = key
             /\ \A i \in a + 2 .. b : ~IsKey(x[i])
Swapped(x, y, key, a, b, d, z) ==
    /\ a \in Nat /\ b \in Nat /\ d \in Nat /\ z \in Nat /\ a <= b /\ a <= d
    /\ DOMAIN x = 1 .. b + z /\ DOMAIN y = 1 .. d + z
    /\ Alike(x, 0, y, 0, a) /\ Alike(x, b, y, d, z)
    /\ Headed(x, key, a, b) /\ Headed(y, key, a, d)
    /\ z # 0 => a < b /\ a < d

(* Then x is y with its own lines back.                                    *)
LEMMA SwapBack ==
    ASSUME NEW x, NEW y, NEW key,
           NEW a \in Nat, NEW b \in Nat, NEW d \in Nat, NEW z \in Nat, Swapped(x, y, key, a, b, d, z)
    PROVE  Swapped(y, x, key, a, d, b, z)
BY DEF Swapped, Alike

(* Nothing in a key's block belongs to another key.                        *)
LEMMA BlockIsKeys ==
    ASSUME NEW x, NEW key, NEW other, other # key, NEW a \in Nat, NEW b \in Nat, Headed(x, key, a, b)
    PROVE  \A i \in a + 1 .. b : ~Owned(x, other, i)
<1> SUFFICES ASSUME NEW i \in a + 1 .. b, NEW j \in OwnerOf(x, i)
             PROVE  j = a + 1 /\ x[j][1] # other
  BY DEF Owned
<1>1. a < b /\ i \in Nat /\ a + 1 <= i
  OBVIOUS
<1>2. IsKey(x[a + 1]) /\ x[a + 1][1] = key /\ \A l \in a + 2 .. b : ~IsKey(x[l])
  BY <1>1 DEF Headed
<1>3. j \in 1..i /\ IsKey(x[j]) /\ \A l \in j + 1 .. i : ~IsKey(x[l])
  BY DEF OwnerOf
<1> HIDE DEF IsKey
<1>4. ~(a + 1 \in j + 1 .. i) /\ ~(j \in a + 2 .. b)
  BY <1>2, <1>3
<1>5. j = a + 1
  BY <1>1, <1>3, <1>4
<1>6. QED
  BY <1>2, <1>5

(* The lines in front of the block belong to the key they belonged to,     *)
LEMMA OwnedInFront ==
    ASSUME NEW x, NEW y, NEW key, NEW other,
           NEW a \in Nat, NEW b \in Nat, NEW d \in Nat, NEW z \in Nat, Swapped(x, y, key, a, b, d, z), NEW i \in 1..a
    PROVE  Owned(x, other, i) <=> Owned(y, other, i)
<1>1. a \in Nat /\ \A l \in 1..a : x[l] = y[l]
  <2>1. a \in Nat /\ \A l \in 1..a : x[0 + l] = y[0 + l]
    BY DEF Swapped, Alike
  <2>2. \A l \in 1..a : 0 + l = l
    BY <2>1
  <2>3. QED
    BY <2>1, <2>2
<1>2. \A l \in 1..i : x[l] = y[l]
  BY <1>1
<1>3. OwnerOf(x, i) = OwnerOf(y, i)
  <2>1. \A j \in 1..i : \A l \in j + 1 .. i : l \in 1..i
    OBVIOUS
  <2>2. QED
    BY <1>2, <2>1 DEF OwnerOf
<1>4. OwnerOf(x, i) \subseteq 1..i
  BY DEF OwnerOf
<1>5. QED
  BY <1>2, <1>3, <1>4 DEF Owned

(* and so do those behind it.                                              *)
LEMMA OwnedShifts ==
    ASSUME NEW x, NEW y, NEW key, NEW other, other # key,
           NEW a \in Nat, NEW b \in Nat, NEW d \in Nat, NEW z \in Nat, Swapped(x, y, key, a, b, d, z), NEW i \in 1..z, Owned(x, other, b + i)
    PROVE  Owned(y, other, d + i)
<1>1. /\ a \in Nat /\ b \in Nat /\ d \in Nat /\ z \in Nat /\ a < b /\ a < d
      /\ Headed(x, key, a, b) /\ \A l \in 1..z : x[b + l] = y[d + l]
  <2>1. /\ a \in Nat /\ b \in Nat /\ d \in Nat /\ z \in Nat /\ (z # 0 => a < b /\ a < d)
        /\ Headed(x, key, a, b) /\ Alike(x, b, y, d, z)
    BY DEF Swapped
  <2>2. z # 0
    BY <2>1
  <2>3. QED
    BY <2>1, <2>2 DEF Alike
<1>2. PICK j \in OwnerOf(x, b + i) : x[j][1] = other
  BY DEF Owned
<1>3. j \in 1 .. b + i /\ IsKey(x[j]) /\ \A l \in j + 1 .. b + i : ~IsKey(x[l])
  BY DEF OwnerOf
<1>4. b < j
  <2> SUFFICES ASSUME j <= b PROVE FALSE
    BY <1>1, <1>3
  <2>1. IsKey(x[a + 1])
    BY <1>1 DEF Headed
  <2> HIDE DEF IsKey
  <2>2. ~(a + 1 \in j + 1 .. b + i)
    BY <1>3, <2>1
  <2>3. j \in a + 1 .. b /\ b \in a + 1 .. b
    BY <1>1, <1>3, <2>2
  <2>4. \A l \in j + 1 .. b : l \in j + 1 .. b + i
    BY <1>1, <1>3
  <2>5. \A l \in j + 1 .. b : ~IsKey(x[l])
    BY <1>3, <2>4
  <2>6. j \in OwnerOf(x, b)
    <3>1. j \in 1..b
      BY <1>1, <2>3
    <3>2. QED
      BY <1>3, <2>5, <3>1 DEF OwnerOf
  <2>7. ~Owned(x, other, b)
    <3>1. \A m \in a + 1 .. b : ~Owned(x, other, m)
      BY <1>1, BlockIsKeys
    <3>2. QED
      BY <2>3, <3>1
  <2>8. QED
    BY <1>2, <2>6, <2>7 DEF Owned
<1> DEFINE m == j - b
<1>5. m \in 1..i /\ m \in 1..z /\ b + m = j
  BY <1>1, <1>3, <1>4
<1> HIDE DEF m
<1>6. y[d + m] = x[j]
  BY <1>1, <1>5
<1>7. \A l \in d + m + 1 .. d + i : ~IsKey(y[l])
  <2> SUFFICES ASSUME NEW l \in d + m + 1 .. d + i PROVE ~IsKey(y[l])
    OBVIOUS
  <2> DEFINE n == l - d
  <2>1. n \in 1..z /\ d + n = l /\ b + n \in j + 1 .. b + i
    BY <1>1, <1>5
  <2> HIDE DEF n
  <2>2. y[l] = x[b + n]
    BY <1>1, <2>1
  <2>3. ~IsKey(x[b + n])
    BY <1>3, <2>1
  <2>4. QED
    BY <2>2, <2>3
<1>8. d + m \in OwnerOf(y, d + i)
  <2>1. d + m \in 1 .. d + i
    BY <1>1, <1>5
  <2>2. IsKey(y[d + m])
    BY <1>3, <1>6
  <2>3. QED
    BY <1>7, <2>1, <2>2 DEF OwnerOf
<1>9. QED
  BY <1>2, <1>6, <1>8 DEF Owned

(* No other key comes or goes with the block.                              *)
LEMMA HasShifts ==
    ASSUME NEW x, NEW y, NEW key, NEW other \in Keys, other # key,
           NEW a \in Nat, NEW b \in Nat, NEW d \in Nat, NEW z \in Nat, Swapped(x, y, key, a, b, d, z), Has(x, other)
    PROVE  Has(y, other)
<1>1. /\ a \in Nat /\ b \in Nat /\ d \in Nat /\ z \in Nat /\ a <= b /\ a <= d
      /\ DOMAIN x = 1 .. b + z /\ DOMAIN y = 1 .. d + z
      /\ Headed(x, key, a, b) /\ \A l \in 1..z : x[b + l] = y[d + l]
  BY DEF Swapped, Alike
<1>2. \A l \in 1..a : x[l] = y[l]
  <2>1. \A l \in 1..a : x[0 + l] = y[0 + l]
    BY DEF Swapped, Alike
  <2>2. \A l \in 1..a : 0 + l = l
    BY <1>1
  <2>3. QED
    BY <2>1, <2>2
<1>3. PICK k \in DOMAIN x : x[k] # <<>> /\ x[k][1] = other
  BY DEF Has, KeyLines
<1>4. k \in 1 .. b + z /\ IsKey(x[k])
  BY <1>1, <1>3 DEF IsKey
<1>5. CASE k <= a
  <2>1. k \in 1..a /\ k \in DOMAIN y
    BY <1>1, <1>4, <1>5
  <2>2. QED
    BY <1>2, <1>3, <2>1 DEF Has, KeyLines
<1>6. CASE a < k /\ k <= b
  <2>1. IsKey(x[a + 1]) /\ x[a + 1][1] = key /\ ~(k \in a + 2 .. b)
    BY <1>1, <1>4, <1>6 DEF Headed
  <2>2. k = a + 1
    BY <1>1, <1>4, <1>6, <2>1
  <2>3. QED
    BY <1>3, <2>1, <2>2
<1>7. CASE b < k
  <2> DEFINE m == k - b
  <2>1. m \in 1..z /\ b + m = k /\ d + m \in 1 .. d + z
    BY <1>1, <1>4, <1>7
  <2> HIDE DEF m
  <2>2. y[d + m] = x[k]
    BY <1>1, <2>1
  <2>3. QED
    BY <1>1, <1>3, <2>1, <2>2 DEF Has, KeyLines
<1>8. QED
  BY <1>1, <1>4, <1>5, <1>6, <1>7

(* A key's value is its parts put together.                                *)
LEMMA PartsAre ==
    ASSUME NEW x \in Seq(Texts), NEW key
    PROVE  /\ Parts(x, key) \in Seq(Seq(Tokens)) /\ Len(Parts(x, key)) = Len(x)
           /\ \A i \in 1..Len(x) : Parts(x, key)[i] = Part(x, key, i)
           /\ ValueOf(x, key) = FlattenSeq(Parts(x, key))
<1>1. Len(x) \in Nat /\ DOMAIN x = 1..Len(x) /\ \A i \in 1..Len(x) : x[i] \in Seq(Tokens)
  BY DEF Texts
<1>2. \A i \in 1..Len(x) : Part(x, key, i) \in Seq(Tokens)
  <2> SUFFICES ASSUME NEW i \in 1..Len(x) PROVE Part(x, key, i) \in Seq(Tokens)
    OBVIOUS
  <2>1. x[i] \in Seq(Tokens)
    BY <1>1
  <2>2. x[i] # <<>> => Tail(x[i]) \in Seq(Tokens)
    BY <2>1
  <2>3. <<>> \in Seq(Tokens)
    OBVIOUS
  <2>4. QED
    BY <2>2, <2>3 DEF Part, IsKey, Continues
<1>3. Parts(x, key) = [i \in 1..Len(x) |-> Part(x, key, i)]
  BY <1>1 DEF Parts
<1>4. /\ Parts(x, key) \in Seq(Seq(Tokens)) /\ Len(Parts(x, key)) = Len(x)
      /\ \A i \in 1..Len(x) : Parts(x, key)[i] = Part(x, key, i)
  BY ONLY <1>1, <1>2, <1>3
<1>5. ValueOf(x, key) = FlattenSeq(Parts(x, key))
  BY DEF ValueOf, Parts, Part, Owned
<1>6. QED
  BY <1>4, <1>5

(* No other key's value changes with the block.                            *)
LEMMA ValueShifts ==
    ASSUME NEW x \in Seq(Texts), NEW y \in Seq(Texts), NEW key, NEW other, other # key,
           NEW a \in Nat, NEW b \in Nat, NEW d \in Nat, NEW z \in Nat, Swapped(x, y, key, a, b, d, z)
    PROVE  ValueOf(x, other) = ValueOf(y, other)
<1> DEFINE p == Parts(x, other)
           q == Parts(y, other)
<1>1. /\ a <= b /\ a <= d /\ Len(x) = b + z /\ Len(y) = d + z
      /\ Alike(x, 0, y, 0, a) /\ Alike(x, b, y, d, z) /\ Headed(x, key, a, b) /\ Headed(y, key, a, d)
  <2>1. DOMAIN x = 1..Len(x) /\ DOMAIN y = 1..Len(y) /\ Len(x) \in Nat /\ Len(y) \in Nat
    OBVIOUS
  <2>2. QED
    BY <2>1 DEF Swapped
<1>2. /\ p \in Seq(Seq(Tokens)) /\ q \in Seq(Seq(Tokens)) /\ Len(p) = b + z /\ Len(q) = d + z
      /\ \A i \in 1 .. b + z : p[i] = Part(x, other, i)
      /\ \A i \in 1 .. d + z : q[i] = Part(y, other, i)
      /\ ValueOf(x, other) = FlattenSeq(p) /\ ValueOf(y, other) = FlattenSeq(q)
  BY <1>1, PartsAre
<1> HIDE DEF p, q
<1>3. Alike(p, 0, q, 0, a)
  <2> SUFFICES ASSUME NEW i \in 1..a PROVE p[0 + i] = q[0 + i]
    BY DEF Alike
  <2>1. 0 + i = i /\ i \in 1 .. b + z /\ i \in 1 .. d + z
    BY <1>1
  <2>2. x[0 + i] = y[0 + i]
    BY <1>1 DEF Alike
  <2>3. Owned(x, other, i) <=> Owned(y, other, i)
    BY OwnedInFront
  <2>4. Part(x, other, i) = Part(y, other, i)
    BY <2>1, <2>2, <2>3 DEF Part
  <2>5. QED
    BY <1>2, <2>1, <2>4
<1>4. Idle(p, a, b)
  <2>1. \A i \in a + 1 .. b : ~Owned(x, other, i) /\ i \in 1 .. b + z
    BY <1>1, BlockIsKeys
  <2>2. QED
    BY <1>2, <2>1 DEF Idle, Part
<1>5. Idle(q, a, d)
  <2>1. \A i \in a + 1 .. d : ~Owned(y, other, i) /\ i \in 1 .. d + z
    BY <1>1, BlockIsKeys
  <2>2. QED
    BY <1>2, <2>1 DEF Idle, Part
<1>6. Alike(p, b, q, d, z)
  <2> SUFFICES ASSUME NEW i \in 1..z PROVE p[b + i] = q[d + i]
    BY DEF Alike
  <2>1. b + i \in 1 .. b + z /\ d + i \in 1 .. d + z
    BY <1>1
  <2>2. x[b + i] = y[d + i]
    BY <1>1 DEF Alike
  <2>3. Swapped(y, x, key, a, d, b, z)
    BY SwapBack
  <2>4. Owned(x, other, b + i) <=> Owned(y, other, d + i)
    BY <2>3, OwnedShifts
  <2>5. Part(x, other, b + i) = Part(y, other, d + i)
    BY <2>2, <2>4 DEF Part
  <2>6. QED
    BY <1>2, <2>1, <2>5
<1>7. FlattenSeq(p) = FlattenSeq(q)
  BY <1>1, <1>2, <1>3, <1>4, <1>5, <1>6, FlattenSkips
<1>8. QED
  BY <1>2, <1>7

(* Three sequences put together.                                           *)
LEMMA JoinThree ==
    ASSUME NEW S, NEW u \in Seq(S), NEW m \in Seq(S), NEW v \in Seq(S), NEW y, y = (u \o m) \o v
    PROVE  /\ Len(y) = (Len(u) + Len(m)) + Len(v)
           /\ \A i \in 1..Len(u) : y[i] = u[i]
           /\ \A i \in 1..Len(m) : y[Len(u) + i] = m[i]
           /\ \A i \in 1..Len(v) : y[(Len(u) + Len(m)) + i] = v[i]
<1> DEFINE w == u \o m
<1>1. /\ w \in Seq(S) /\ Len(w) = Len(u) + Len(m) /\ Len(u) \in Nat /\ Len(m) \in Nat
      /\ \A i \in 1..Len(u) : w[i] = u[i]
      /\ \A i \in 1..Len(m) : w[Len(u) + i] = m[i]
  BY JoinIs
<1> HIDE DEF w
<1>2. y = w \o v
  BY DEF w
<1>a. w \in Seq(S)
  BY <1>1
<1>3. /\ Len(y) = Len(w) + Len(v)
      /\ \A i \in 1..Len(w) : y[i] = w[i]
      /\ \A i \in 1..Len(v) : y[Len(w) + i] = v[i]
  BY ONLY <1>a, <1>2, v \in Seq(S), JoinIs
<1>4. /\ \A i \in 1..Len(u) : i \in 1..Len(w)
      /\ \A i \in 1..Len(m) : Len(u) + i \in 1..Len(w)
  BY <1>1
<1>5. QED
  BY <1>1, <1>2, <1>3, <1>4

(* Setting a property puts lines of its key in the place of its block, or   *)
(* behind all others.                                                      *)
LEMMA WithoutSwaps ==
    ASSUME NEW x \in Seq(Texts), NEW new \in Seq(Texts), NEW key \in Keys, new # <<>>,
           Headed(new, key, 0, Len(new))
    PROVE  \E a, b, d, z \in Nat : Swapped(x, Without(x, key, new), key, a, b, d, z)
<1> DEFINE y == Without(x, key, new)
           n == Len(new)
           k == CHOOSE j \in KeyLines(x, key) : TRUE
           e == Extent(x, k)
<1>1. Len(x) \in Nat /\ DOMAIN x = 1..Len(x) /\ n \in Nat /\ n # 0 /\ DOMAIN new = 1..n
  BY EmptySeq
<1>2. y \in Seq(Texts)
  BY WithoutIs
<1>3. IsKey(new[1]) /\ new[1][1] = key /\ \A i \in 2..n : ~IsKey(new[i])
  <2>1. 0 < n /\ 0 + 1 = 1 /\ 0 + 2 = 2
    BY <1>1
  <2>2. QED
    BY <2>1 DEF Headed
<1>4. CASE ~Has(x, key)
  <2> DEFINE m == Len(x)
             d == m + n
             Z == 0
  <2>1. y = x \o new
    BY <1>4 DEF Without
  <2> HIDE DEF y
  <2>2. /\ Len(y) = m + n
        /\ \A i \in 1..m : y[i] = x[i]
        /\ \A i \in 1..n : y[m + i] = new[i]
    BY <2>1, JoinIs
  <2>3. DOMAIN y = 1..d + Z /\ DOMAIN x = 1..m + Z /\ m \in Nat /\ d \in Nat /\ Z \in Nat /\ m <= d /\ m <= m
    BY <1>1, <1>2, <2>2
  <2>4. Alike(x, 0, y, 0, m)
    BY <2>2 DEF Alike
  <2>5. Alike(x, m, y, d, Z)
    BY DEF Alike
  <2>6. Headed(x, key, m, m)
    BY <1>1 DEF Headed
  <2>7. Headed(y, key, m, d)
    <3>1. y[m + 1] = new[1]
      BY <1>1, <2>2
    <3>2. ASSUME NEW i \in m + 2 .. d PROVE ~IsKey(y[i])
      <4> DEFINE l == i - m
      <4>1. l \in 2..n /\ l \in 1..n /\ m + l = i
        BY <1>1
      <4> HIDE DEF l
      <4>2. y[i] = new[l]
        BY <2>2, <4>1
      <4>3. QED
        BY <1>3, <4>1, <4>2
    <3>3. QED
      BY <1>3, <3>1, <3>2 DEF Headed
  <2>8. Swapped(x, y, key, m, m, d, Z)
    BY <2>3, <2>4, <2>5, <2>6, <2>7 DEF Swapped
  <2> HIDE DEF m, d, Z
  <2>9. QED
    BY <2>3, <2>8 DEF y
<1>5. CASE Has(x, key)
  <2>1. k \in KeyLines(x, key)
    BY <1>5 DEF Has
  <2>2. k \in 1..Len(x) /\ x[k] # <<>> /\ x[k][1] = key
    BY <1>1, <2>1 DEF KeyLines
  <2>3. y = SubSeq(x, 1, k - 1) \o new \o SubSeq(x, e + 1, Len(x))
    BY <1>5 DEF Without
  <2> HIDE DEF k, y
  <2>4. e \in k..Len(x) /\ \A i \in k + 1 .. e : Continues(x[i]) \/ x[i] = <<>>
    BY <1>1, <2>2, ExtentIs
  <2> HIDE DEF e
  <2> DEFINE a == k - 1
             z == Len(x) - e
             d == a + n
             u == SubSeq(x, 1, a)
             v == SubSeq(x, e + 1, Len(x))
  <2>5. /\ a \in Nat /\ z \in Nat /\ d \in Nat /\ e \in Nat /\ a < e /\ a < d /\ a + 1 = k /\ a + 2 = k + 1
        /\ Len(x) = e + z /\ a + n = d /\ a <= Len(x)
    BY <1>1, <2>2, <2>4
  <2>6. /\ u \in Seq(Texts) /\ Len(u) = a /\ \A i \in 1..a : u[i] = x[i]
        /\ v \in Seq(Texts) /\ Len(v) = z /\ \A i \in 1..z : v[i] = x[e + i]
    <3>1. u \in Seq(Texts) /\ Len(u) = a /\ \A i \in 1..a : u[i] = x[i]
      BY <1>1, <2>5
    <3>2. v \in Seq(Texts) /\ Len(v) = z
      <4>1. e \in 1..Len(x) /\ Len(x) \in Nat
        BY <1>1, <2>2, <2>4
      <4>2. SubSeq(x, e + 1, Len(x)) \in Seq(Texts)
        BY <4>1
      <4>3. Len(SubSeq(x, e + 1, Len(x))) = Len(x) - e
        BY <4>1
      <4>4. QED
        BY <4>2, <4>3
    <3>3. \A i \in 1..z : v[i] = x[e + i]
      BY <1>1, <2>5
    <3>4. QED
      BY <3>1, <3>2, <3>3
  <2>7. y = (u \o new) \o v
    BY <2>3
  <2> HIDE DEF a, z, d, u, v
  <2>8. /\ Len(y) = d + z
        /\ \A i \in 1..a : y[i] = u[i]
        /\ \A i \in 1..n : y[a + i] = new[i]
        /\ \A i \in 1..z : y[d + i] = v[i]
    <3>1. /\ Len(y) = (Len(u) + Len(new)) + Len(v)
          /\ \A i \in 1..Len(u) : y[i] = u[i]
          /\ \A i \in 1..Len(new) : y[Len(u) + i] = new[i]
          /\ \A i \in 1..Len(v) : y[(Len(u) + Len(new)) + i] = v[i]
      <4>1. u \in Seq(Texts) /\ new \in Seq(Texts) /\ v \in Seq(Texts) /\ y = (u \o new) \o v
        BY <2>6, <2>7
      <4>2. QED
        BY ONLY <4>1, JoinThree
    <3>2. Len(u) = a /\ Len(u) + Len(new) = d /\ Len(v) = z
      BY <2>5, <2>6
    <3>3. QED
      BY ONLY <3>1, <3>2
  <2>12. Alike(x, 0, y, 0, a)
    <3>1. \A i \in 1..a : y[i] = x[i]
      BY <2>6, <2>8
    <3>2. QED
      BY <2>5, <3>1 DEF Alike
  <2>13. Alike(x, e, y, d, z)
    BY <2>6, <2>8 DEF Alike
  <2>14. Headed(x, key, a, e)
    <3>1. IsKey(x[k])
      BY <2>2 DEF IsKey
    <3>2. ASSUME NEW i \in k + 1 .. e PROVE ~IsKey(x[i])
      <4>1. Continues(x[i]) \/ x[i] = <<>>
        BY <2>4
      <4>2. Item \notin Keys
        BY KeyAssumption
      <4>3. QED
        BY <4>1, <4>2 DEF IsKey, Continues
    <3>3. QED
      BY <2>2, <2>5, <3>1, <3>2 DEF Headed
  <2>15. Headed(y, key, a, d)
    <3>1. \A i \in 1..n : y[a + i] = new[i]
      BY <2>8
    <3>2. y[a + 1] = new[1]
      BY <1>1, <3>1
    <3>3. ASSUME NEW i \in a + 2 .. d PROVE ~IsKey(y[i])
      <4> DEFINE l == i - a
      <4>1. l \in 2..n /\ l \in 1..n /\ a + l = i
        BY <1>1, <2>5
      <4> HIDE DEF l
      <4>2. y[i] = new[l]
        BY <3>1, <4>1
      <4>3. QED
        BY <1>3, <4>1, <4>2
    <3>4. QED
      BY <1>3, <3>2, <3>3 DEF Headed
  <2>16. DOMAIN x = 1 .. e + z /\ DOMAIN y = 1 .. d + z
    <3>1. DOMAIN y = 1..Len(y)
      BY <1>2 DEF y
    <3>2. QED
      BY <1>1, <2>5, <2>8, <3>1
  <2>17. Swapped(x, y, key, a, e, d, z)
    BY <2>5, <2>12, <2>13, <2>14, <2>15, <2>16 DEF Swapped
  <2>18. QED
    BY <2>5, <2>17 DEF y
<1>6. QED
  BY <1>4, <1>5

(* The k-th of N sequences lies behind those before it.                    *)
Placed(c, q, N, k) ==
    /\ Len(c[k - 1]) \in Nat /\ Len(c[k]) = Len(c[k - 1]) + Len(q[k])
    /\ Len(c[k]) <= Len(c[N])
    /\ \A i \in 1..Len(q[k]) : c[N][Len(c[k - 1]) + i] = q[k][i]

(* In sequences glued together each is found where it was put.             *)
LEMMA GluedAt ==
    ASSUME NEW S, NEW N \in Nat, NEW c, NEW q, IsGlued(c, q, N, S), Pieces(q, N, S), NEW k \in 1..N
    PROVE  Placed(c, q, N, k)
<1> DEFINE P(n) == k + n <= N => /\ Len(c[k]) <= Len(c[k + n])
                                 /\ \A i \in 1..Len(c[k]) : c[k + n][i] = c[k][i]
           T == {n \in Nat : P(n)}
<1>1. k \in Nat /\ k - 1 \in 0..N /\ k \in 0..N /\ N \in 0..N
  OBVIOUS
<1>2. \A l \in 0..N : c[l] \in Seq(S) /\ Len(c[l]) \in Nat
  <2>1. \A l \in 0..N : c[l] \in Seq(S)
    BY DEF IsGlued
  <2>2. QED
    BY <2>1
<1>3. \A l \in 1..N : c[l] = c[l - 1] \o q[l] /\ q[l] \in Seq(S)
  BY DEF IsGlued, Pieces
<1>4. 0 \in T
  <2>1. k + 0 = k
    OBVIOUS
  <2>2. QED
    BY <1>1, <1>2, <2>1
<1>5. ASSUME NEW n \in Nat, P(n) PROVE P(n + 1)
  <2> SUFFICES ASSUME k + (n + 1) <= N
               PROVE  /\ Len(c[k]) <= Len(c[k + (n + 1)])
                      /\ \A i \in 1..Len(c[k]) : c[k + (n + 1)][i] = c[k][i]
    OBVIOUS
  <2> DEFINE l == k + (n + 1)
             m == k + n
  <2>1. l \in 1..N /\ l - 1 = m /\ m \in 0..N
    BY <1>1
  <2>2. Len(c[k]) <= Len(c[m]) /\ \A i \in 1..Len(c[k]) : c[m][i] = c[k][i]
    BY <1>5, <2>1
  <2> HIDE DEF l, m
  <2> DEFINE g == c[m]
             w == q[l]
             y == c[l]
  <2>3. y = g \o w /\ g \in Seq(S) /\ w \in Seq(S)
    BY <1>2, <1>3, <2>1
  <2>a. Len(c[k]) <= Len(g) /\ \A i \in 1..Len(c[k]) : g[i] = c[k][i]
    BY <2>2
  <2> HIDE DEF g, w, y
  <2>4. Len(y) = Len(g) + Len(w) /\ \A i \in 1..Len(g) : y[i] = g[i]
    BY ONLY <2>3, JoinIs
  <2>5. Len(c[k]) \in Nat /\ Len(g) \in Nat /\ Len(w) \in Nat
    BY <1>1, <1>2, <2>3
  <2>6. Len(c[k]) <= Len(y) /\ \A i \in 1..Len(c[k]) : i \in 1..Len(g)
    BY ONLY <2>4, <2>5, <2>a
  <2>7. Len(c[k]) <= Len(y) /\ \A i \in 1..Len(c[k]) : y[i] = c[k][i]
    BY ONLY <2>4, <2>6, <2>a
  <2>8. QED
    BY <2>7 DEF l, y
<1>6. T \in SUBSET Nat /\ \A n \in T : n + 1 \in T
  <2> HIDE DEF P
  <2>1. QED
    BY <1>5
<1> HIDE DEF T
<1>7. T = Nat
  BY ONLY <1>4, <1>6, Taking!Grows
<1>8. P(N - k)
  <2>1. N - k \in T
    BY <1>7
  <2> HIDE DEF P
  <2>2. QED
    BY <2>1 DEF T
<1>9. Len(c[k]) <= Len(c[N]) /\ \A i \in 1..Len(c[k]) : c[N][i] = c[k][i]
  <2>1. k + (N - k) = N
    OBVIOUS
  <2>2. QED
    BY <1>8, <2>1
<1> HIDE DEF P
<1> DEFINE h == c[k - 1]
<1>10. h \in Seq(S) /\ q[k] \in Seq(S) /\ c[k] = h \o q[k]
  BY <1>1, <1>2, <1>3
<1> HIDE DEF h
<1>11. /\ Len(c[k]) = Len(h) + Len(q[k]) /\ Len(h) \in Nat /\ Len(q[k]) \in Nat
       /\ \A i \in 1..Len(q[k]) : c[k][Len(h) + i] = q[k][i]
  <2>1. /\ Len(c[k]) = Len(h) + Len(q[k])
        /\ \A i \in 1..Len(q[k]) : c[k][Len(h) + i] = q[k][i]
    BY ONLY <1>10, JoinIs
  <2>2. QED
    BY <1>10, <2>1
<1>12. \A i \in 1..Len(q[k]) : Len(h) + i \in 1..Len(c[k])
  BY ONLY <1>11
<1>13. QED
  BY <1>9, <1>11, <1>12 DEF h, Placed

(* D cuts the first M lines off a text: each ends with its only newline.    *)
Ruled(u, D, M) ==
    /\ D[0] = 0
    /\ \A j \in 1..M : /\ D[j - 1] \in Nat /\ D[j] \in Nat /\ D[j - 1] < D[j] /\ D[j] <= Len(u)
                       /\ u[D[j]] = NL /\ \A q \in D[j - 1] + 1 .. D[j] - 1 : u[q] # NL

(* Those are its lines.                                                    *)
LEMMA RuledLines ==
    ASSUME NEW u \in Texts, NEW L, IsLines(L, u), NEW M \in Nat, NEW D, Ruled(u, D, M)
    PROVE  M <= Len(L) /\ \A j \in 1..M : L[j][1] = D[j - 1] /\ L[j][2] = D[j]
<1> DEFINE P(n) == n <= M => n <= Len(L) /\ \A j \in 1..n : L[j][1] = D[j - 1] /\ L[j][2] = D[j]
           T == {n \in Nat : P(n)}
<1>0. Len(u) \in Nat /\ Len(L) \in Nat
  <2>1. Len(u) \in Nat
    BY DEF Texts
  <2>2. Len(L) \in Nat
    BY DEF IsLines
  <2>3. QED
    BY <2>1, <2>2
<1>1. 0 \in T
  BY <1>0
<1>2. ASSUME NEW n \in Nat, P(n) PROVE P(n + 1)
  <2> SUFFICES ASSUME n + 1 <= M
               PROVE  /\ n + 1 <= Len(L)
                      /\ \A j \in 1 .. n + 1 : L[j][1] = D[j - 1] /\ L[j][2] = D[j]
    OBVIOUS
  <2>1. n <= Len(L) /\ \A j \in 1..n : L[j][1] = D[j - 1] /\ L[j][2] = D[j]
    BY <1>2
  <2> DEFINE l == n + 1
  <2>2. l \in 1..M /\ l - 1 = n /\ l \in Nat
    OBVIOUS
  <2> HIDE DEF l
  <2>3. /\ D[n] \in Nat /\ D[l] \in Nat /\ D[n] < D[l] /\ D[l] <= Len(u)
        /\ u[D[l]] = NL /\ \A q \in D[n] + 1 .. D[l] - 1 : u[q] # NL
    BY <2>2 DEF Ruled
  <2>4. l <= Len(L) /\ L[l][1] = D[n]
    <3>1. CASE n = 0
      <4>1. u # <<>>
        BY <1>0, <2>3
      <4>2. Len(L) # 0 /\ L[1][1] = 0
        BY <4>1 DEF IsLines
      <4>3. Len(L) # 0
        BY <4>2
      <4>4. D[0] = 0
        BY DEF Ruled
      <4>5. QED
        BY <1>0, <2>2, <3>1, <4>2, <4>3, <4>4 DEF l
    <3>2. CASE n # 0
      <4>1. n \in 1..n /\ n \in 1..Len(L)
        BY <1>0, <2>1, <3>2
      <4>2. L[n][2] = D[n]
        BY <2>1, <4>1
      <4>3. IF n = Len(L) THEN L[n][2] = Len(u) ELSE L[n][2] = L[n + 1][1]
        BY <4>1 DEF IsLines
      <4>4. n # Len(L)
        BY <1>0, <2>3, <4>2, <4>3
      <4>5. QED
        BY <1>0, <2>1, <4>2, <4>3, <4>4 DEF l
    <3>3. QED
      BY <3>1, <3>2
  <2> DEFINE e == L[l][2]
  <2>5. /\ e \in Nat /\ D[n] < e /\ e <= Len(u) /\ (e = Len(u) \/ u[e] = NL)
        /\ \A q \in D[n] + 1 .. e - 1 : u[q] # NL
    <3>1. l \in 1..Len(L)
      BY <1>0, <2>2, <2>4
    <3>2. /\ L[l][2] \in Nat /\ L[l][1] < L[l][2] /\ L[l][2] <= Len(u)
          /\ L[l][2] = Len(u) \/ u[L[l][2]] = NL
          /\ \A q \in L[l][1] + 1 .. L[l][2] - 1 : u[q] # NL
      BY <3>1 DEF IsLines
    <3>3. QED
      BY <2>4, <3>2
  <2> HIDE DEF e
  <2>6. ~(e < D[l])
    <3> SUFFICES ASSUME e < D[l] PROVE FALSE
      OBVIOUS
    <3>1. e \in D[n] + 1 .. D[l] - 1 /\ e # Len(u)
      BY <1>0, <2>3, <2>5
    <3>2. QED
      BY <2>3, <2>5, <3>1
  <2>7. ~(D[l] < e)
    <3> SUFFICES ASSUME D[l] < e PROVE FALSE
      OBVIOUS
    <3>1. D[l] \in D[n] + 1 .. e - 1
      BY <2>3, <2>5
    <3>2. QED
      BY <2>3, <2>5, <3>1
  <2>8. e = D[l]
    BY <2>3, <2>5, <2>6, <2>7
  <2>9. \A j \in 1..n + 1 : j \in 1..n \/ j = l
    BY DEF l
  <2>10. QED
    BY <2>1, <2>2, <2>4, <2>8, <2>9 DEF e, l
<1>3. T \in SUBSET Nat /\ \A n \in T : n + 1 \in T
  <2> HIDE DEF P
  <2>1. QED
    BY <1>2
<1> HIDE DEF T
<1>4. T = Nat
  BY ONLY <1>1, <1>3, Taking!Grows
<1>5. P(M)
  <2>1. M \in T
    BY <1>4
  <2> HIDE DEF P
  <2>2. QED
    BY <2>1 DEF T
<1>6. QED
  BY <1>5

(* The lines that may stand between the delimiters of a frontmatter.       *)
Inside == {l \in Texts : l # <<Dashes>> /\ \A q \in 1..Len(l) : l[q] # NL}

(* u is a block of lines with rest below it, and D says where they end.    *)
Framed(u, D, lines, rest) ==
    LET N == Len(lines) IN
    /\ Ruled(u, D, N + 2)
    /\ D[1] = 2 /\ u[1] = Dashes
    /\ \A k \in 1..N : /\ D[k + 1] = D[k] + Len(lines[k]) + 1
                       /\ \A i \in 1..Len(lines[k]) : u[D[k] + i] = lines[k][i]
    /\ D[N + 2] = D[N + 1] + 2 /\ u[D[N + 1] + 1] = Dashes
    /\ Len(u) = D[N + 2] + Len(rest) /\ \A i \in 1..Len(rest) : u[D[N + 2] + i] = rest[i]

(* Where the tokens of a note put together stand.                          *)
LEMMA RebuiltAt ==
    ASSUME NEW lines \in Seq(Inside), NEW rest \in Texts
    PROVE  LET u == Rebuilt(lines, rest)
               q == [k \in 1..Len(lines) |-> Append(lines[k], NL)]
               v == FlattenSeq(q)
           IN  /\ u \in Texts /\ v \in Texts
               /\ Len(u) = Len(v) + 4 + Len(rest) /\ Len(v) \in Nat
               /\ u[1] = Dashes /\ u[2] = NL
               /\ \A i \in 1..Len(v) : u[2 + i] = v[i]
               /\ u[2 + Len(v) + 1] = Dashes /\ u[2 + Len(v) + 2] = NL
               /\ \A i \in 1..Len(rest) : u[Len(v) + 4 + i] = rest[i]
<1> DEFINE q == [k \in DOMAIN lines |-> Append(lines[k], NL)]
           v == FlattenSeq(q)
           w == <<Dashes, NL>>
           x == (w \o v) \o w
           u == Rebuilt(lines, rest)
<1>1. lines \in Seq(Texts) /\ Len(lines) \in Nat /\ DOMAIN lines = 1..Len(lines)
  BY DEF Inside
<1>2. q = [k \in 1..Len(lines) |-> Append(lines[k], NL)]
  BY <1>1
<1>3. \A k \in 1..Len(lines) : Append(lines[k], NL) \in Seq(Tokens)
  <2>1. \A k \in 1..Len(lines) : lines[k] \in Texts
    BY <1>1
  <2>2. \A k \in 1..Len(lines) : Append(lines[k], NL) \in Texts
    BY <2>1, TextsMake
  <2>3. QED
    BY <2>2 DEF Texts
<1>4. /\ DOMAIN q = 1..Len(lines) /\ q = [k \in 1..Len(lines) |-> q[k]]
      /\ \A k \in 1..Len(lines) : q[k] \in Seq(Tokens)
  BY <1>2, <1>3
<1>5. u = x \o rest
  BY DEF Rebuilt
<1> HIDE DEF q
<1>6. v \in Seq(Tokens)
  BY <1>1, <1>4, FlattenKeeps
<1>7. w \in Seq(Tokens) /\ Len(w) = 2 /\ w[1] = Dashes /\ w[2] = NL
  <2>1. Dashes \in Tokens /\ NL \in Tokens
    BY InputAssumption
  <2> HIDE DEF Dashes, NL
  <2>2. QED
    BY <2>1
<1> HIDE DEF v, w
<1>8. x \in Seq(Tokens) /\ rest \in Seq(Tokens) /\ Len(v) \in Nat /\ Len(rest) \in Nat
  BY <1>6, <1>7 DEF Texts
<1>9. /\ Len(x) = (Len(w) + Len(v)) + Len(w)
      /\ \A i \in 1..Len(w) : x[i] = w[i]
      /\ \A i \in 1..Len(v) : x[Len(w) + i] = v[i]
      /\ \A i \in 1..Len(w) : x[(Len(w) + Len(v)) + i] = w[i]
  <2>1. x = (w \o v) \o w
    OBVIOUS
  <2>2. v \in Seq(Tokens) /\ w \in Seq(Tokens)
    BY <1>6, <1>7
  <2> HIDE DEF x
  <2>3. QED
    BY ONLY <2>1, <2>2, JoinThree
<1> HIDE DEF x, u
<1>10. /\ u \in Seq(Tokens) /\ Len(u) = Len(x) + Len(rest)
       /\ \A i \in 1..Len(x) : u[i] = x[i]
       /\ \A i \in 1..Len(rest) : u[Len(x) + i] = rest[i]
  BY ONLY <1>5, <1>8, JoinIs
<1>11. Len(x) = Len(v) + 4
  BY <1>7, <1>8, <1>9
<1>12. u[1] = Dashes /\ u[2] = NL
  <2>1. 1 \in 1..Len(w) /\ 2 \in 1..Len(w) /\ 1 \in 1..Len(x) /\ 2 \in 1..Len(x)
    BY <1>7, <1>8, <1>11
  <2>2. QED
    BY <1>7, <1>9, <1>10, <2>1
<1>13. \A i \in 1..Len(v) : u[2 + i] = v[i]
  <2>1. \A i \in 1..Len(v) : 2 + i \in 1..Len(x)
    BY <1>8, <1>11
  <2>2. \A i \in 1..Len(v) : x[2 + i] = v[i]
    BY <1>7, <1>9
  <2>3. QED
    BY <1>10, <2>1, <2>2
<1>14. u[2 + Len(v) + 1] = Dashes /\ u[2 + Len(v) + 2] = NL
  <2>1. /\ 1 \in 1..Len(w) /\ 2 \in 1..Len(w)
        /\ 2 + Len(v) + 1 \in 1..Len(x) /\ 2 + Len(v) + 2 \in 1..Len(x)
    BY <1>7, <1>8, <1>11
  <2>2. x[(2 + Len(v)) + 1] = w[1] /\ x[(2 + Len(v)) + 2] = w[2]
    BY <1>7, <1>9, <2>1
  <2>3. QED
    BY <1>7, <1>10, <2>1, <2>2
<1>15. QED
  BY <1>2, <1>6, <1>8, <1>10, <1>11, <1>12, <1>13, <1>14 DEF Texts, u, v

(* A note put together is framed as it should be.                          *)
LEMMA RebuiltIsFramed ==
    ASSUME NEW lines \in Seq(Inside), NEW rest \in Texts
    PROVE  \E D : Framed(Rebuilt(lines, rest), D, lines, rest)
<1> DEFINE u == Rebuilt(lines, rest)
           N == Len(lines)
           q == [k \in 1..Len(lines) |-> Append(lines[k], NL)]
           v == FlattenSeq(q)
<1>1. /\ u \in Texts /\ v \in Texts
      /\ Len(u) = Len(v) + 4 + Len(rest) /\ Len(v) \in Nat
      /\ u[1] = Dashes /\ u[2] = NL
      /\ \A i \in 1..Len(v) : u[2 + i] = v[i]
      /\ u[2 + Len(v) + 1] = Dashes /\ u[2 + Len(v) + 2] = NL
      /\ \A i \in 1..Len(rest) : u[Len(v) + 4 + i] = rest[i]
  BY RebuiltAt
<1>2. N \in Nat /\ \A k \in 1..N : lines[k] \in Inside
  OBVIOUS
<1>3. \A k \in 1..N : /\ q[k] \in Seq(Tokens) /\ Len(q[k]) = Len(lines[k]) + 1 /\ Len(lines[k]) \in Nat
                      /\ q[k][Len(lines[k]) + 1] = NL
                      /\ \A i \in 1..Len(lines[k]) : q[k][i] = lines[k][i] /\ lines[k][i] # NL
  <2> SUFFICES ASSUME NEW k \in 1..N
               PROVE  /\ q[k] \in Seq(Tokens) /\ Len(q[k]) = Len(lines[k]) + 1 /\ Len(lines[k]) \in Nat
                      /\ q[k][Len(lines[k]) + 1] = NL
                      /\ \A i \in 1..Len(lines[k]) : q[k][i] = lines[k][i] /\ lines[k][i] # NL
    OBVIOUS
  <2> DEFINE l == lines[k]
  <2>1. l \in Seq(Tokens) /\ \A i \in 1..Len(l) : l[i] # NL
    BY <1>2 DEF Inside, Texts
  <2>2. q[k] = Append(l, NL) /\ NL \in Tokens
    BY InputAssumption
  <2> HIDE DEF l, NL, q
  <2>3. Append(l, NL) \in Seq(Tokens) /\ Len(Append(l, NL)) = Len(l) + 1 /\ Len(l) \in Nat
    BY <2>1, <2>2
  <2>4. Append(l, NL)[Len(l) + 1] = NL /\ \A i \in 1..Len(l) : Append(l, NL)[i] = l[i]
    BY <2>1
  <2>5. QED
    BY <2>1, <2>2, <2>3, <2>4 DEF l
<1>4. Len(q) = N /\ (N = 0 => q = <<>>)
  <2>1. q \in Seq(Seq(Tokens)) /\ Len(q) = N
    BY ONLY <1>2, <1>3
  <2>2. QED
    BY ONLY <2>1
<1> HIDE DEF u, q, N
<1>5. Pieces(q, N, Tokens)
  BY <1>3, <1>4 DEF Pieces
<1>6. PICK c : IsGlued(c, q, N, Tokens) /\ v = c[N]
  BY <1>2, <1>4, <1>5, FlattenIs
<1> HIDE DEF v
<1>7. \A k \in 1..N : /\ Len(c[k - 1]) \in Nat /\ Len(c[k]) = Len(c[k - 1]) + Len(q[k])
                      /\ Len(c[k]) <= Len(v)
                      /\ \A i \in 1..Len(q[k]) : v[Len(c[k - 1]) + i] = q[k][i]
  <2> SUFFICES ASSUME NEW k \in 1..N
               PROVE  /\ Len(c[k - 1]) \in Nat /\ Len(c[k]) = Len(c[k - 1]) + Len(q[k])
                      /\ Len(c[k]) <= Len(v)
                      /\ \A i \in 1..Len(q[k]) : v[Len(c[k - 1]) + i] = q[k][i]
    OBVIOUS
  <2>1. N \in Nat /\ IsGlued(c, q, N, Tokens) /\ Pieces(q, N, Tokens)
    BY <1>2, <1>5, <1>6
  <2>2. Placed(c, q, N, k)
    BY ONLY <2>1, k \in 1..N, GluedAt
  <2>3. QED
    BY ONLY <1>6, <2>2 DEF Placed
<1>8. Len(c[0]) = 0
  BY <1>6 DEF IsGlued
<1> DEFINE D == [j \in 0..N + 2 |-> IF j = 0 THEN 0 ELSE IF j = N + 2 THEN Len(v) + 4 ELSE 2 + Len(c[j - 1])]
<1>9. /\ D[0] = 0 /\ D[N + 2] = Len(v) + 4
      /\ \A k \in 0..N : D[k + 1] = 2 + Len(c[k])
  <2>1. \A k \in 0..N : k + 1 \in 0..N + 2 /\ k + 1 # 0 /\ k + 1 # N + 2 /\ (k + 1) - 1 = k
    BY <1>2
  <2>2. 0 \in 0..N + 2 /\ N + 2 \in 0..N + 2 /\ N + 2 # 0 /\ 0 # N + 2
    BY <1>2
  <2>3. QED
    BY <2>1, <2>2
<1> HIDE DEF D
<1>10. D[1] = 2 /\ D[N + 1] = 2 + Len(v)
  <2>1. 0 \in 0..N /\ N \in 0..N /\ 0 + 1 = 1
    BY <1>2
  <2>2. D[0 + 1] = 2 + Len(c[0]) /\ D[N + 1] = 2 + Len(c[N])
    BY <1>9, <2>1
  <2>3. QED
    BY <1>6, <1>8, <2>1, <2>2
<1>11. ASSUME NEW k \in 1..N
       PROVE  /\ D[k] \in Nat /\ D[k + 1] = D[k] + Len(lines[k]) + 1 /\ D[k + 1] <= Len(u)
              /\ \A i \in 1..Len(lines[k]) : u[D[k] + i] = lines[k][i] /\ lines[k][i] # NL
              /\ u[D[k + 1]] = NL
  <2>1. k - 1 \in 0..N /\ k \in 0..N /\ (k - 1) + 1 = k
    BY <1>2
  <2>2. D[k] = 2 + Len(c[k - 1]) /\ D[k + 1] = 2 + Len(c[k])
    BY <1>9, <2>1
  <2> DEFINE m == Len(c[k - 1])
             n == Len(lines[k])
  <2>3. /\ m \in Nat /\ n \in Nat /\ Len(c[k]) = m + n + 1 /\ m + n + 1 <= Len(v)
        /\ \A i \in 1 .. n + 1 : v[m + i] = q[k][i]
        /\ q[k][n + 1] = NL /\ \A i \in 1..n : q[k][i] = lines[k][i] /\ lines[k][i] # NL
    <3>1. /\ Len(q[k]) = n + 1 /\ n \in Nat /\ q[k][n + 1] = NL
          /\ \A i \in 1..n : q[k][i] = lines[k][i] /\ lines[k][i] # NL
      BY <1>3
    <3>2. /\ m \in Nat /\ Len(c[k]) = m + Len(q[k]) /\ Len(c[k]) <= Len(v)
          /\ \A i \in 1..Len(q[k]) : v[m + i] = q[k][i]
      BY <1>7
    <3> HIDE DEF m, n
    <3>3. m + (n + 1) = m + n + 1
      BY <3>1, <3>2
    <3>4. QED
      BY ONLY <3>1, <3>2, <3>3
  <2> HIDE DEF m, n
  <2>4. D[k] = 2 + m /\ D[k + 1] = 2 + (m + n + 1) /\ D[k] \in Nat
    BY <2>2, <2>3 DEF m
  <2>5. \A i \in 1 .. n + 1 : m + i \in 1..Len(v) /\ 2 + (m + i) = D[k] + i
    BY <1>1, <2>3, <2>4
  <2>6. \A i \in 1 .. n + 1 : u[D[k] + i] = q[k][i]
    BY <1>1, <2>3, <2>5
  <2>7. \A i \in 1..n : i \in 1 .. n + 1
    BY <2>3
  <2>8. \A i \in 1..n : u[D[k] + i] = lines[k][i] /\ lines[k][i] # NL
    BY <2>3, <2>6, <2>7
  <2>9. u[D[k + 1]] = NL
    <3>1. n + 1 \in 1 .. n + 1 /\ D[k + 1] = D[k] + (n + 1)
      BY <2>3, <2>4
    <3>2. QED
      BY <2>3, <2>6, <3>1
  <2>10. D[k + 1] = D[k] + n + 1
    BY <2>3, <2>4
  <2>11. D[k + 1] <= Len(u)
    <3>1. Len(rest) \in Nat
      BY DEF Texts
    <3>2. QED
      BY <1>1, <2>3, <2>4, <3>1
  <2>12. QED
    BY <2>4, <2>8, <2>9, <2>10, <2>11 DEF n
<1>12. Ruled(u, D, N + 2)
  <2> SUFFICES ASSUME NEW j \in 1 .. N + 2
               PROVE  /\ D[j - 1] \in Nat /\ D[j] \in Nat /\ D[j - 1] < D[j] /\ D[j] <= Len(u)
                      /\ u[D[j]] = NL /\ \A p \in D[j - 1] + 1 .. D[j] - 1 : u[p] # NL
    BY <1>9 DEF Ruled
  <2>0. Len(rest) \in Nat /\ Dashes # NL
    BY DEF Texts, Dashes, NL
  <2>1. CASE j = 1
    <3>1. D[j - 1] = 0 /\ D[j] = 2 /\ 2 <= Len(u)
      BY <1>1, <1>9, <1>10, <2>0, <2>1
    <3>2. \A p \in 0 + 1 .. 2 - 1 : p = 1
      OBVIOUS
    <3>3. QED
      BY <1>1, <2>0, <3>1, <3>2
  <2>2. CASE j = N + 2
    <3>1. j - 1 = N + 1
      BY <1>2, <2>2
    <3>2. D[j - 1] = 2 + Len(v) /\ D[j] = Len(v) + 4 /\ D[j] <= Len(u) /\ D[j] = 2 + Len(v) + 2
      BY <1>1, <1>9, <1>10, <2>0, <2>2, <3>1
    <3>3. \A p \in D[j - 1] + 1 .. D[j] - 1 : p = 2 + Len(v) + 1
      BY <1>1, <3>2
    <3>4. D[j - 1] \in Nat /\ D[j] \in Nat /\ D[j - 1] < D[j]
      BY <1>1, <3>2
    <3>5. u[D[j]] = NL
      BY <1>1, <3>2
    <3>6. QED
      BY <1>1, <2>0, <3>2, <3>3, <3>4, <3>5
  <2>3. CASE j # 1 /\ j # N + 2
    <3> DEFINE k == j - 1
               n == Len(lines[k])
    <3>1. k \in 1..N /\ k + 1 = j
      BY <1>2, <2>3
    <3> HIDE DEF k
    <3>2. /\ D[k] \in Nat /\ D[k + 1] = D[k] + n + 1 /\ D[k + 1] <= Len(u)
          /\ \A i \in 1..n : u[D[k] + i] = lines[k][i] /\ lines[k][i] # NL
          /\ u[D[k + 1]] = NL
      BY <1>11, <3>1
    <3>3. n \in Nat
      BY <1>3, <3>1
    <3> HIDE DEF n
    <3>4. ASSUME NEW p \in D[k] + 1 .. D[k + 1] - 1 PROVE u[p] # NL
      <4>1. p - D[k] \in 1..n /\ D[k] + (p - D[k]) = p
        BY <3>2, <3>3
      <4>2. QED
        BY <3>2, <4>1
    <3>5. D[k + 1] \in Nat /\ D[k] < D[k + 1]
      BY <3>2, <3>3
    <3>6. QED
      BY <3>1, <3>2, <3>4, <3>5 DEF k
  <2>4. QED
    BY <2>1, <2>2, <2>3
<1>13. D[N + 2] = D[N + 1] + 2 /\ D[N + 1] + 1 = 2 + Len(v) + 1 /\ Len(u) = D[N + 2] + Len(rest)
  BY <1>1, <1>9, <1>10
<1>14. Framed(u, D, lines, rest)
  BY <1>1, <1>9, <1>10, <1>11, <1>12, <1>13 DEF Framed, N
<1>15. QED
  BY <1>14 DEF u

(* A note put together reads as the lines and the text it was put together  *)
(* from.                                                                   *)
LEMMA RebuiltReads ==
    ASSUME NEW lines \in Seq(Inside), NEW rest \in Texts
    PROVE  InnerLines(Rebuilt(lines, rest)) = lines /\ Rest(Rebuilt(lines, rest)) = rest
<1> DEFINE u == Rebuilt(lines, rest)
           N == Len(lines)
           L == Lines(u)
           front == FrontLines(u, L)
           M == N + 2
<1>1. u \in Texts /\ Len(u) \in Nat /\ u \in Seq(Tokens) /\ rest \in Seq(Tokens) /\ Len(rest) \in Nat
  <2>1. lines \in Seq(Texts)
    BY DEF Inside
  <2>2. u \in Texts
    BY <2>1, RebuiltIs
  <2> HIDE DEF u
  <2>3. QED
    BY <2>2 DEF Texts
<1>2. PICK D : Framed(u, D, lines, rest)
  BY RebuiltIsFramed
<1>3. N \in Nat /\ \A k \in 1..N : lines[k] \in Inside
  OBVIOUS
<1>4. InnerLines(u) = [k \in 1 .. (IF front = 0 THEN 0 ELSE front - 2) |-> LineText(u, L[k + 1])]
  BY DEF InnerLines
<1>5. Rest(u) = SubSeq(u, Parse(u).body + 1, Len(u)) /\ Parse(u).body = IF front = 0 THEN 0 ELSE L[front][2]
  BY DEF Rest, Parse, ParseLines, Structure
<1>6. /\ Ruled(u, D, N + 2)
      /\ D[1] = 2 /\ u[1] = Dashes
      /\ \A k \in 1..N : /\ D[k + 1] = D[k] + Len(lines[k]) + 1
                         /\ \A i \in 1..Len(lines[k]) : u[D[k] + i] = lines[k][i]
      /\ D[N + 2] = D[N + 1] + 2 /\ u[D[N + 1] + 1] = Dashes
      /\ Len(u) = D[N + 2] + Len(rest) /\ \A i \in 1..Len(rest) : u[D[N + 2] + i] = rest[i]
  BY <1>2 DEF Framed
<1> HIDE DEF u
<1>7. IsLines(L, u)
  BY <1>1, LinesAre
<1> HIDE DEF L
<1>8. M \in Nat /\ M = N + 2 /\ Ruled(u, D, M)
  BY <1>3, <1>6
<1> HIDE DEF M, N
<1>9. M <= Len(L) /\ \A j \in 1..M : L[j][1] = D[j - 1] /\ L[j][2] = D[j]
  BY <1>1, <1>7, <1>8, RuledLines
<1>10. Len(L) \in Nat
  BY <1>7 DEF IsLines
<1>11. \A j \in 1..M : D[j - 1] \in Nat /\ D[j] \in Nat /\ u[D[j]] = NL
  BY <1>8 DEF Ruled
<1>12. \A j \in 1..M :
         /\ LineText(u, L[j]) \in Seq(Tokens) /\ Len(LineText(u, L[j])) = (D[j] - 1) - D[j - 1]
         /\ \A i \in 1..Len(LineText(u, L[j])) : LineText(u, L[j])[i] = u[D[j - 1] + i]
  <2> SUFFICES ASSUME NEW j \in 1..M
               PROVE  /\ LineText(u, L[j]) \in Seq(Tokens)
                      /\ Len(LineText(u, L[j])) = (D[j] - 1) - D[j - 1]
                      /\ \A i \in 1..Len(LineText(u, L[j])) : LineText(u, L[j])[i] = u[D[j - 1] + i]
    OBVIOUS
  <2>1. j \in 1..Len(L)
    BY <1>8, <1>9, <1>10
  <2> DEFINE l == LineText(u, L[j])
  <2>2. /\ l \in Texts
        /\ \A q \in 1..Len(l) : l[q] = u[L[j][1] + q] /\ u[L[j][1] + q] # NL
        /\ Len(l) = (IF u[L[j][2]] = NL THEN L[j][2] - 1 ELSE L[j][2]) - L[j][1]
    BY <1>1, <1>7, <2>1, LineTextIs
  <2>3. L[j][1] = D[j - 1] /\ L[j][2] = D[j] /\ u[D[j]] = NL
    BY <1>9, <1>11
  <2> HIDE DEF l
  <2>4. QED
    BY <2>2, <2>3 DEF l, Texts
<1>13. LineText(u, L[1]) = <<Dashes>>
  <2> DEFINE l == LineText(u, L[1])
  <2>1. 1 \in 1..M /\ 1 - 1 = 0 /\ D[0] = 0
    BY <1>3, <1>8 DEF Ruled
  <2>a. /\ l \in Seq(Tokens) /\ Len(l) = (D[1] - 1) - D[1 - 1]
        /\ \A i \in 1..Len(l) : l[i] = u[D[1 - 1] + i]
    BY ONLY <1>12, <2>1
  <2> HIDE DEF l
  <2>2. l \in Seq(Tokens) /\ Len(l) = 1 /\ \A i \in 1..1 : l[i] = u[0 + i]
    BY <1>6, <2>1, <2>a
  <2>3. l[1] = Dashes
    BY <1>6, <2>2
  <2> HIDE DEF Dashes
  <2>4. l = <<Dashes>>
    BY <2>2, <2>3
  <2>5. QED
    BY <2>4 DEF l
<1>14. LineText(u, L[M]) = <<Dashes>>
  <2> DEFINE l == LineText(u, L[M])
  <2>1. M \in 1..M /\ M - 1 = N + 1 /\ D[N + 1] \in Nat
    BY <1>3, <1>8, <1>11
  <2>a. /\ l \in Seq(Tokens) /\ Len(l) = (D[M] - 1) - D[M - 1]
        /\ \A i \in 1..Len(l) : l[i] = u[D[M - 1] + i]
    BY ONLY <1>12, <2>1
  <2> HIDE DEF l
  <2>b. D[M - 1] = D[N + 1] /\ D[M] = D[N + 1] + 2
    BY <1>6, <1>8, <2>1
  <2>2. l \in Seq(Tokens) /\ Len(l) = 1
    BY ONLY <2>1, <2>a, <2>b
  <2>3. l[1] = u[D[N + 1] + 1]
    BY ONLY <2>2, <2>a, <2>b
  <2>4. l[1] = Dashes
    BY <1>6, <2>3
  <2> HIDE DEF Dashes
  <2>5. l = <<Dashes>>
    BY <2>2, <2>4
  <2>6. QED
    BY <2>5 DEF l
<1>15. ASSUME NEW k \in 1..N PROVE LineText(u, L[k + 1]) = lines[k] /\ lines[k] # <<Dashes>>
  <2> DEFINE l == LineText(u, L[k + 1])
             y == lines[k]
  <2>1. k + 1 \in 1..M /\ (k + 1) - 1 = k /\ k \in 1..M
    BY <1>3, <1>8
  <2>b. y \in Inside
    BY <1>3
  <2>2. y \in Seq(Tokens) /\ Len(y) \in Nat /\ y # <<Dashes>>
    <3> HIDE DEF y, Dashes
    <3>1. y \in Seq(Tokens) /\ y # <<Dashes>>
      BY ONLY <2>b DEF Inside, Texts
    <3>2. QED
      BY <3>1
  <2>3. D[k + 1] = D[k] + Len(y) + 1 /\ D[k] \in Nat /\ \A i \in 1..Len(y) : u[D[k] + i] = y[i]
    BY <1>6, <1>11, <2>1 DEF N
  <2>4. /\ l \in Seq(Tokens) /\ Len(l) = (D[k + 1] - 1) - D[k]
        /\ \A i \in 1..Len(l) : l[i] = u[D[k] + i]
    BY <1>12, <2>1
  <2> HIDE DEF l, y
  <2>5. Len(l) = Len(y)
    BY <2>2, <2>3, <2>4
  <2>6. \A i \in 1..Len(l) : l[i] = y[i]
    BY <2>3, <2>4, <2>5
  <2>7. l = y
    BY <2>2, <2>4, <2>5, <2>6, SeqEqual
  <2>8. QED
    BY <2>2, <2>7 DEF l, y
<1>16. front = M
  <2>1. /\ front \in 0..Len(L) /\ front # 1
        /\ front # 0 => /\ LineText(u, L[front]) = <<Dashes>>
                        /\ \A j \in 2 .. front - 1 : LineText(u, L[j]) # <<Dashes>>
        /\ front = 0 => \/ L = <<>> \/ LineText(u, L[1]) # <<Dashes>>
                        \/ \A k \in 2..Len(L) : LineText(u, L[k]) # <<Dashes>>
    BY <1>10, FrontIs
  <2> HIDE DEF front
  <2>2. front # 0
    <3>1. L # <<>> /\ M \in 2..Len(L)
      <4>1. Len(<<>>) = 0
        OBVIOUS
      <4>2. QED
        BY <1>3, <1>8, <1>9, <1>10, <4>1
    <3>2. QED
      BY <1>13, <1>14, <2>1, <3>1
  <2>3. ~(front < M)
    <3> SUFFICES ASSUME front < M PROVE FALSE
      OBVIOUS
    <3> DEFINE k == front - 1
    <3>1. k \in 1..N /\ k + 1 = front
      BY <1>3, <1>8, <2>1, <2>2
    <3> HIDE DEF k
    <3>2. QED
      BY <1>15, <2>1, <2>2, <3>1
  <2>4. ~(M < front)
    <3> SUFFICES ASSUME M < front PROVE FALSE
      OBVIOUS
    <3>1. M \in 2 .. front - 1
      BY <1>3, <1>8, <2>1
    <3>2. QED
      BY <1>14, <2>1, <2>2, <3>1
  <2>5. QED
    BY <1>8, <2>1, <2>3, <2>4
<1>17. InnerLines(u) = lines
  <2>1. front # 0 /\ front - 2 = N
    BY <1>3, <1>8, <1>16
  <2>2. InnerLines(u) = [k \in 1..N |-> LineText(u, L[k + 1])]
    BY <1>4, <2>1
  <2>3. InnerLines(u) = [k \in 1..N |-> lines[k]]
    BY <1>15, <2>2
  <2>4. lines = [k \in 1..N |-> lines[k]]
    BY DEF N
  <2>5. QED
    BY <2>3, <2>4
<1>18. Rest(u) = rest
  <2> DEFINE b == D[M]
             s == SubSeq(u, b + 1, Len(u))
  <2>1. front # 0 /\ M \in 1..M
    BY <1>3, <1>8, <1>16
  <2>2. Parse(u).body = b
    BY <1>5, <1>9, <1>16, <2>1
  <2>3. b \in Nat /\ Len(u) = b + Len(rest) /\ \A i \in 1..Len(rest) : u[b + i] = rest[i]
    BY <1>6, <1>8, <1>11, <2>1
  <2>4. Rest(u) = s
    BY <1>5, <2>2
  <2> HIDE DEF b
  <2>5. s \in Seq(Tokens) /\ Len(s) = Len(rest) /\ \A i \in 1..Len(s) : s[i] = u[b + i]
    <3>1. s \in Seq(Tokens)
      BY <1>1, <2>3
    <3>2. Len(s) = Len(u) - b
      BY <1>1, <2>3
    <3>3. \A i \in 1 .. Len(u) - b : s[i] = u[b + i]
      BY <1>1, <2>3
    <3>4. QED
      BY <1>1, <2>3, <3>1, <3>2, <3>3
  <2> HIDE DEF s
  <2>6. \A i \in 1..Len(s) : s[i] = rest[i]
    BY <2>3, <2>5
  <2>7. QED
    BY <1>1, <2>4, <2>5, <2>6, SeqEqual
<1>19. QED
  BY <1>17, <1>18 DEF u

(* The lines between the delimiters may stand there.                       *)
LEMMA InnerAre ==
    ASSUME NEW t \in Texts
    PROVE  InnerLines(t) \in Seq(Inside)
<1> DEFINE L == Lines(t)
           front == FrontLines(t, L)
           N == IF front = 0 THEN 0 ELSE front - 2
           u == InnerLines(t)
<1>1. u = [k \in 1..N |-> LineText(t, L[k + 1])]
  BY DEF InnerLines
<1>2. IsLines(L, t)
  BY LinesAre
<1> HIDE DEF L, u
<1>3. Len(L) \in Nat
  BY <1>2 DEF IsLines
<1>4. /\ front \in 0..Len(L) /\ front # 1
      /\ front # 0 => \A j \in 2 .. front - 1 : LineText(t, L[j]) # <<Dashes>>
  BY <1>3, FrontIs
<1> HIDE DEF front
<1>5. N \in Nat /\ (N = 0 \/ (front # 0 /\ N = front - 2))
  BY <1>3, <1>4
<1> HIDE DEF N
<1>6. ASSUME NEW k \in 1..N PROVE LineText(t, L[k + 1]) \in Inside
  <2> DEFINE l == LineText(t, L[k + 1])
  <2>1. k + 1 \in 1..Len(L) /\ k + 1 \in 2 .. front - 1 /\ front # 0
    BY <1>3, <1>4, <1>5
  <2>2. l # <<Dashes>>
    BY <1>4, <2>1
  <2>3. l \in Texts /\ \A q \in 1..Len(l) : l[q] = t[L[k + 1][1] + q] /\ t[L[k + 1][1] + q] # NL
    BY <1>2, <2>1, LineTextIs
  <2> HIDE DEF l
  <2>4. \A q \in 1..Len(l) : l[q] # NL
    BY <2>3
  <2>5. l \in Inside
    BY <2>2, <2>3, <2>4 DEF Inside
  <2>6. QED
    BY <2>5 DEF l
<1>7. u \in Seq(Inside)
  BY ONLY <1>1, <1>5, <1>6
<1>8. QED
  BY <1>7 DEF u

(* So may the lines of a value, which are its key's.                       *)
LEMMA EmittedInside ==
    ASSUME NEW key \in Keys, NEW value \in Seq(Tokens \ {NL}), value # <<>>
    PROVE  LET E == Emitted(key, value) IN
           E \in Seq(Inside) /\ E # <<>> /\ Headed(E, key, 0, Len(E))
<1> DEFINE a == <<key>>
           b == a \o value
           q == [k \in DOMAIN value |-> <<Item, value[k]>>]
           E == Emitted(key, value)
<1>1. /\ key \in Tokens /\ Item \in Tokens /\ key # NL /\ key # Dashes /\ Item # NL /\ Item \notin Keys
  <2>1. Item # NL
    BY DEF Item, NL
  <2>2. QED
    BY <2>1, InputAssumption, KeyAssumption
<1> HIDE DEF Item, NL, Dashes
<1>2. /\ Len(value) \in Nat /\ Len(value) # 0 /\ DOMAIN value = 1..Len(value)
      /\ value \in Seq(Tokens) /\ \A k \in 1..Len(value) : value[k] \in Tokens /\ value[k] # NL
  <2>1. \A k \in 1..Len(value) : value[k] \in Tokens \ {NL}
    OBVIOUS
  <2>2. value \in Seq(Tokens)
    OBVIOUS
  <2>3. Len(value) # 0
    BY EmptySeq
  <2>4. QED
    BY <2>1, <2>2, <2>3
<1>3. a \in Inside
  <2>1. a \in Seq(Tokens) /\ Len(a) = 1 /\ a[1] = key
    BY <1>1
  <2>2. a # <<Dashes>>
    BY <1>1
  <2> HIDE DEF a
  <2>3. \A i \in 1..Len(a) : a[i] # NL
    BY <1>1, <2>1
  <2>4. QED
    BY <2>1, <2>2, <2>3 DEF Inside, Texts
<1>4. ASSUME Len(value) = 1 PROVE b \in Inside /\ b # <<>> /\ b[1] = key
  <2>1. a \in Seq(Tokens) /\ Len(a) = 1 /\ a[1] = key
    BY <1>1
  <2>a. b = a \o value /\ value \in Seq(Tokens)
    BY <1>2
  <2> HIDE DEF a, b
  <2>b. /\ b \in Seq(Tokens) /\ Len(b) = Len(a) + Len(value)
        /\ \A i \in 1..Len(a) : b[i] = a[i]
        /\ \A i \in 1..Len(value) : b[Len(a) + i] = value[i]
    BY ONLY <2>1, <2>a, JoinIs, SMTT(60)
  <2>2. b \in Seq(Tokens) /\ Len(b) = 2 /\ b[1] = key /\ b[2] = value[1]
    <3>1. 1 \in 1..Len(a) /\ 1 \in 1..Len(value) /\ Len(a) + 1 = 2
      BY <1>4, <2>1
    <3>2. QED
      BY <1>4, <2>1, <2>b, <3>1
  <2>3. b # <<Dashes>> /\ b # <<>>
    <3>1. Len(<<Dashes>>) = 1 /\ Len(<<>>) = 0
      OBVIOUS
    <3>2. b # <<Dashes>>
      BY ONLY <2>2, <3>1
    <3>3. b # <<>>
      BY ONLY <2>2, <3>1
    <3>4. QED
      BY <3>2, <3>3
  <2>4. \A i \in 1..Len(b) : b[i] # NL
    BY <1>1, <1>2, <1>4, <2>2
  <2>5. QED
    BY <2>2, <2>3, <2>4 DEF Inside, Texts
<1>5. ASSUME NEW k \in 1..Len(value) PROVE q[k] \in Inside /\ ~IsKey(q[k])
  <2> DEFINE y == <<Item, value[k]>>
  <2>1. y \in Seq(Tokens) /\ Len(y) = 2 /\ y[1] = Item /\ y[2] = value[k]
    BY <1>1, <1>2
  <2>2. q[k] = y
    BY <1>2
  <2> HIDE DEF y, q
  <2>3. y # <<Dashes>>
    <3>1. Len(<<Dashes>>) = 1
      OBVIOUS
    <3>2. QED
      BY <2>1, <3>1
  <2>4. \A i \in 1..Len(y) : y[i] # NL
    BY <1>1, <1>2, <2>1
  <2>5. ~IsKey(y)
    BY <1>1, <2>1 DEF IsKey
  <2>6. QED
    BY <2>1, <2>2, <2>3, <2>4, <2>5 DEF Inside, Texts
<1>6. E = IF Len(value) = 1 THEN <<b>> ELSE <<a>> \o q
  BY DEF Emitted
<1>7. a # <<>> /\ a[1] = key
  OBVIOUS
<1>8. q = [k \in 1..Len(value) |-> q[k]]
  BY <1>2
<1> HIDE DEF a, b, q
<1>9. q \in Seq(Inside) /\ Len(q) = Len(value)
  BY ONLY <1>2, <1>5, <1>8
<1> HIDE DEF E
<1>10. CASE Len(value) = 1
  <2>1. E = <<b>> /\ b \in Inside /\ b # <<>> /\ b[1] = key
    BY <1>4, <1>6, <1>10
  <2>2. E \in Seq(Inside) /\ E # <<>> /\ Len(E) = 1 /\ E[1] = b
    BY ONLY <2>1
  <2>3. IsKey(E[1])
    BY <2>1, <2>2 DEF IsKey
  <2>4. 0 + 1 = 1 /\ \A i \in 0 + 2 .. 1 : FALSE
    OBVIOUS
  <2>5. Headed(E, key, 0, Len(E))
    BY <2>1, <2>2, <2>3, <2>4 DEF Headed
  <2>6. QED
    BY <2>2, <2>5 DEF E
<1>11. CASE Len(value) # 1
  <2> DEFINE h == <<a>>
  <2>1. h \in Seq(Inside) /\ Len(h) = 1 /\ h[1] = a
    BY <1>3
  <2>2. E = h \o q
    BY <1>6, <1>11
  <2> HIDE DEF h
  <2>3. /\ E \in Seq(Inside) /\ Len(E) = Len(h) + Len(q)
        /\ \A i \in 1..Len(h) : E[i] = h[i]
        /\ \A i \in 1..Len(q) : E[Len(h) + i] = q[i]
    <3>1. h \in Seq(Inside) /\ q \in Seq(Inside)
      BY <1>9, <2>1
    <3>2. QED
      BY ONLY <2>2, <3>1, JoinIs
  <2>4. Len(E) = 1 + Len(value) /\ E[1] = a /\ \A i \in 1..Len(value) : E[1 + i] = q[i]
    BY <1>9, <2>1, <2>3
  <2>5. E # <<>>
    <3>1. Len(<<>>) = 0
      OBVIOUS
    <3>2. QED
      BY <1>2, <2>4, <3>1
  <2>6. IsKey(E[1]) /\ E[1][1] = key
    BY <1>7, <2>4 DEF IsKey
  <2>7. ASSUME NEW i \in 0 + 2 .. Len(E) PROVE ~IsKey(E[i])
    <3>1. i - 1 \in 1..Len(value) /\ 1 + (i - 1) = i
      BY <1>2, <2>4
    <3>2. E[i] = q[i - 1]
      BY <2>4, <3>1
    <3>3. QED
      BY <1>5, <3>1, <3>2
  <2>8. Headed(E, key, 0, Len(E))
    <3>1. 0 + 1 = 1
      OBVIOUS
    <3>2. QED
      BY <2>6, <2>7, <3>1 DEF Headed
  <2>9. QED
    BY <2>3, <2>5, <2>8 DEF E
<1>12. QED
  BY <1>10, <1>11

(* A text without frontmatter has no lines between delimiters and is all    *)
(* body.                                                                   *)
LEMMA NoFrontmatter ==
    ASSUME NEW t \in Texts, Parse(t).body = 0
    PROVE  InnerLines(t) = <<>> /\ Rest(t) = t
<1> DEFINE L == Lines(t)
           front == FrontLines(t, L)
<1>1. IsLines(L, t)
  BY LinesAre
<1>2. Parse(t).body = IF front = 0 THEN 0 ELSE L[front][2]
  BY DEF Parse, ParseLines, Structure
<1>3. InnerLines(t) = [k \in 1 .. (IF front = 0 THEN 0 ELSE front - 2) |-> LineText(t, L[k + 1])]
  BY DEF InnerLines
<1> HIDE DEF L
<1>4. Len(L) \in Nat
  BY <1>1 DEF IsLines
<1>5. front \in 0..Len(L)
  BY <1>4, FrontIs
<1> HIDE DEF front
<1>6. front = 0
  <2> SUFFICES ASSUME front # 0 PROVE FALSE
    OBVIOUS
  <2>1. front \in 1..Len(L)
    BY <1>4, <1>5
  <2>2. L[front][1] \in Nat /\ L[front][2] \in Nat /\ L[front][1] < L[front][2]
    BY <1>1, <2>1 DEF IsLines
  <2>3. QED
    BY <1>2, <2>2
<1>7. InnerLines(t) = <<>>
  BY <1>3, <1>6
<1>8. Rest(t) = t
  <2>1. Rest(t) = SubSeq(t, 0 + 1, Len(t)) /\ t \in Seq(Tokens)
    BY DEF Rest, Texts
  <2>2. SubSeq(t, 0 + 1, Len(t)) = t
    BY <2>1
  <2>3. QED
    BY <2>1, <2>2
<1>9. QED
  BY <1>7, <1>8

(* Setting a property puts its lines in, whether there is frontmatter yet   *)
(* or not.                                                                 *)
LEMMA SetIs ==
    ASSUME NEW t \in Texts, NEW key, NEW value, Emitted(key, value) \in Seq(Inside)
    PROVE  SetTo(t, key, value) = Rebuilt(Without(InnerLines(t), key, Emitted(key, value)), Rest(t))
<1> DEFINE E == Emitted(key, value)
<1>1. CASE Parse(t).body = 0
  <2>1. InnerLines(t) = <<>> /\ Rest(t) = t
    BY <1>1, NoFrontmatter
  <2>2. ~Has(<<>>, key)
    BY DEF Has, KeyLines
  <2>3. Without(<<>>, key, E) = <<>> \o E
    BY <2>2 DEF Without
  <2> HIDE DEF E
  <2>4. <<>> \o E = E
    BY DEF E
  <2>5. QED
    BY <1>1, <2>1, <2>3, <2>4 DEF SetTo, E
<1>2. CASE Parse(t).body # 0
  BY <1>2 DEF SetTo
<1>3. QED
  BY <1>1, <1>2

(* u is t but for the lines of one key.                                    *)
SameButFor(K, t, u) ==
    /\ Rest(u) = Rest(t) /\ WellFormed(InnerLines(t)) /\ WellFormed(InnerLines(u))
    /\ \A k \in Keys \ K :
          /\ Has(InnerLines(u), k) <=> Has(InnerLines(t), k)
          /\ ValueOf(InnerLines(u), k) = ValueOf(InnerLines(t), k)

(* An accepted item of edit_properties leaves the other properties and the  *)
(* body as they were, when the body begins with no block of its own.       *)
LEMMA PropertySpares ==
    ASSUME NEW t \in Texts, NEW e \in PropertyItems, PropertyOk(t, e), Parse(Rest(t)).body = 0
    PROVE  SameButFor({e.key}, t, PropertyTo(t, e))
<1> DEFINE x == InnerLines(t)
           key == e.key
           value == e.value
           E == Emitted(key, value)
<1>1. key \in Keys /\ value \in Seq(Tokens \ {NL})
  BY DEF PropertyItems
<1>2. x \in Seq(Inside) /\ Rest(t) \in Texts /\ x \in Seq(Texts)
  BY InnerAre, InnerIs
<1> HIDE DEF x, key, value
<1>3. CASE value # <<>>
  <2> DEFINE y == Without(x, key, E)
             u == SetTo(t, key, value)
  <2>1. E \in Seq(Inside) /\ E # <<>> /\ Headed(E, key, 0, Len(E))
    BY <1>1, <1>3, EmittedInside
  <2>2. u = Rebuilt(y, Rest(t))
    BY <2>1, SetIs DEF x
  <2> HIDE DEF E
  <2>3. y \in Seq(Inside)
    BY <1>2, <2>1, WithoutIs
  <2>a. y \in Seq(Texts) /\ E \in Seq(Texts)
    BY <2>1, <2>3 DEF Inside
  <2>4. InnerLines(u) = y /\ Rest(u) = Rest(t)
    BY <1>2, <2>2, <2>3, RebuiltReads
  <2>5. PropertyTo(t, e) = u /\ WellFormed(x) /\ WellFormed(InnerLines(u))
    BY <1>3 DEF PropertyTo, PropertyOk, SetOk, x, key, value, u
  <2>6. PICK a \in Nat, b \in Nat, d \in Nat, z \in Nat : Swapped(x, y, key, a, b, d, z)
    BY <1>1, <1>2, <2>1, <2>a, WithoutSwaps
  <2> HIDE DEF y, u
  <2>7. \A k \in Keys \ {key} : (Has(y, k) <=> Has(x, k)) /\ ValueOf(y, k) = ValueOf(x, k)
    <3> SUFFICES ASSUME NEW k \in Keys, k # key
                 PROVE  (Has(y, k) <=> Has(x, k)) /\ ValueOf(y, k) = ValueOf(x, k)
      OBVIOUS
    <3>1. Swapped(y, x, key, a, d, b, z)
      BY <2>6, SwapBack
    <3>2. Has(x, k) => Has(y, k)
      BY <2>6, HasShifts
    <3>3. Has(y, k) => Has(x, k)
      BY <3>1, HasShifts
    <3>4. ValueOf(x, k) = ValueOf(y, k)
      BY <1>2, <2>6, <2>a, ValueShifts
    <3>5. QED
      BY <3>2, <3>3, <3>4
  <2>8. QED
    BY <2>4, <2>5, <2>7 DEF SameButFor, x, key
<1>4. CASE value = <<>>
  <2> DEFINE y == Without(x, key, <<>>)
             u == Removed(t, key)
  <2>1. PropertyTo(t, e) = u /\ RemoveOk(t, key)
    BY <1>4 DEF PropertyTo, PropertyOk, key, value
  <2>2. /\ WellFormed(x) /\ WellFormed(InnerLines(u))
        /\ \A k \in Keys \ {key} : /\ Has(InnerLines(u), k) <=> Has(x, k)
                                   /\ ValueOf(InnerLines(u), k) = ValueOf(x, k)
    BY <2>1 DEF RemoveOk, x
  <2>3. u = Rest(t) \/ u = Rebuilt(y, Rest(t))
    BY DEF Removed, x
  <2>4. y \in Seq(Inside)
    <3>1. <<>> \in Seq(Inside)
      OBVIOUS
    <3>2. QED
      BY <1>2, <3>1, WithoutIs
  <2> HIDE DEF u, y
  <2>5. Rest(Rest(t)) = Rest(t)
    BY <1>2, NoFrontmatter
  <2>6. Rest(u) = Rest(t)
    BY <1>2, <2>3, <2>4, <2>5, RebuiltReads
  <2>7. QED
    BY <2>1, <2>2, <2>6 DEF SameButFor, x, key
<1>5. QED
  BY <1>3, <1>4

(* What the first items of a call make of a text.                          *)
LEMMA FirstOnes ==
    ASSUME NEW t, NEW S, NEW items \in Seq(S), NEW c, Onward(c, items, t, Len(items)),
           NEW k \in 1..Len(items)
    PROVE  PropertiesTo(t, SubSeq(items, 1, k - 1)) = c[k - 1]
<1> DEFINE N == Len(items)
           m == k - 1
           u == SubSeq(items, 1, m)
<1>1. N \in Nat /\ m \in Nat /\ m <= N
  OBVIOUS
<1>2. DOMAIN u = 1..m /\ \A n \in 1..m : u[n] = items[n]
  BY <1>1
<1>3. \A n \in 1..N : c[n] = PropertyTo(c[n - 1], items[n])
  BY DEF Onward
<1>4. c[0] = t
  BY DEF Onward
<1> HIDE DEF u, m, N
<1>5. PICK d : Onward(d, u, t, m) /\ PropertiesTo(t, u) = d[m]
  BY <1>1, <1>2, PropertiesAre
<1> DEFINE T == {n \in Nat : n <= m => d[n] = c[n]}
<1>6. 0 \in T
  BY <1>4, <1>5 DEF Onward
<1>7. ASSUME NEW n \in T PROVE n + 1 \in T
  <2> SUFFICES ASSUME n + 1 <= m PROVE d[n + 1] = c[n + 1]
    OBVIOUS
  <2>1. n \in Nat /\ n + 1 \in 1..m /\ n + 1 \in 1..N /\ (n + 1) - 1 = n
    BY <1>1
  <2>2. d[n + 1] = PropertyTo(d[n], u[n + 1])
    BY <1>5, <2>1 DEF Onward
  <2>3. c[n + 1] = PropertyTo(c[n], items[n + 1])
    BY <1>3, <2>1
  <2>4. d[n] = c[n]
    BY <1>1, <2>1
  <2>5. QED
    BY <1>2, <2>1, <2>2, <2>3, <2>4
<1>8. T = Nat
  <2> HIDE DEF T
  <2>1. T \in SUBSET Nat
    BY DEF T
  <2>2. QED
    BY <1>6, <1>7, <2>1, Taking!Grows
<1>9. d[m] = c[m]
  BY <1>1, <1>8
<1>10. QED
  BY <1>5, <1>9 DEF u, m

(* Two texts that differ in one key's lines, and a third that differs in    *)
(* another's from the second.                                              *)
LEMMA SpareBoth ==
    ASSUME NEW t, NEW u, NEW v, NEW K, NEW L, SameButFor(K, t, u), SameButFor(L, u, v)
    PROVE  SameButFor(K \cup L, t, v)
BY DEF SameButFor

(* An accepted group of edit_properties leaves the other properties and the *)
(* body as they were, when the body begins with no block of its own.       *)
LEMMA GroupSpares ==
    ASSUME NEW t \in Texts, NEW items \in Seq(PropertyItems), items # <<>>,
           PropertiesOk(t, items), Parse(Rest(t)).body = 0
    PROVE  SameButFor({items[k].key : k \in DOMAIN items}, t, PropertiesTo(t, items))
<1> DEFINE N == Len(items)
           K(n) == {items[k].key : k \in 1..n}
<1>1. N \in Nat /\ 1 <= N /\ DOMAIN items = 1..N /\ \A k \in 1..N : items[k] \in PropertyItems
  OBVIOUS
<1>2. PICK c : Onward(c, items, t, N) /\ PropertiesTo(t, items) = c[N]
  BY <1>1, PropertiesAre
<1>3. \A k \in 1..N : PropertyOk(c[k - 1], items[k])
  <2> SUFFICES ASSUME NEW k \in 1..N PROVE PropertyOk(c[k - 1], items[k])
    OBVIOUS
  <2>1. PropertyOk(PropertiesTo(t, SubSeq(items, 1, k - 1)), items[k])
    BY <1>1 DEF PropertiesOk
  <2>2. PropertiesTo(t, SubSeq(items, 1, k - 1)) = c[k - 1]
    BY <1>2, FirstOnes
  <2>3. QED
    BY <2>1, <2>2
<1> HIDE DEF N
<1> DEFINE T == {n \in Nat : n <= N => c[n] \in Texts /\ (IF n = 0 THEN c[n] = t ELSE SameButFor(K(n), t, c[n]))}
<1>4. 0 \in T
  BY <1>2 DEF Onward
<1>5. ASSUME NEW n \in T PROVE n + 1 \in T
  <2> SUFFICES ASSUME n + 1 <= N PROVE c[n + 1] \in Texts /\ SameButFor(K(n + 1), t, c[n + 1])
    BY DEF T
  <2>1. n \in Nat /\ n + 1 \in 1..N /\ (n + 1) - 1 = n /\ n <= N
    BY <1>1
  <2> DEFINE e == items[n + 1]
  <2>2. c[n + 1] = PropertyTo(c[n], e) /\ PropertyOk(c[n], e) /\ e \in PropertyItems
    BY <1>1, <1>2, <1>3, <2>1 DEF Onward
  <2>3. c[n] \in Texts /\ IF n = 0 THEN c[n] = t ELSE SameButFor(K(n), t, c[n])
    BY <2>1
  <2>4. Rest(c[n]) = Rest(t)
    BY <2>3 DEF SameButFor
  <2>5. K(n + 1) = K(n) \cup {e.key}
    <3>1. 1..(n + 1) = (1..n) \cup {n + 1}
      BY ONLY <2>1
    <3>2. QED
      BY ONLY <3>1
  <2> HIDE DEF e, K
  <2>6. c[n + 1] \in Texts
    BY <2>2, <2>3, PropertyKeeps
  <2>7. SameButFor({e.key}, c[n], c[n + 1])
    BY <2>2, <2>3, <2>4, PropertySpares
  <2>8. CASE n = 0
    <3>1. K(n) = {}
      BY <2>8 DEF K
    <3>2. K(n + 1) = {e.key} /\ c[n] = t
      BY <2>3, <2>5, <2>8, <3>1
    <3>3. QED
      BY <2>6, <2>7, <3>2
  <2>9. CASE n # 0
    BY <2>3, <2>5, <2>6, <2>7, <2>9, SpareBoth
  <2>10. QED
    BY <2>8, <2>9
<1>6. T = Nat
  <2> HIDE DEF T
  <2>1. T \in SUBSET Nat
    BY DEF T
  <2>2. QED
    BY <1>4, <1>5, <2>1, Taking!Grows
<1>7. SameButFor(K(N), t, c[N])
  <2> HIDE DEF K
  <2>1. N \in T /\ N # 0 /\ N <= N
    BY <1>1, <1>6
  <2>2. QED
    BY <2>1
<1>8. QED
  BY <1>1, <1>2, <1>7

(* No note's body begins with a block between --- lines of its own: such a  *)
(* block would become the note's properties when those above it are gone.  *)
PlainBodies == \A n \in Notes : Parse(Rest(text[n])).body = 0

(* What the last call was, when it was an accepted edit_properties: every   *)
(* group was in order on a plain body, and is what its note has become.    *)
Settles ==
    Accepted("edit_properties") =>
        /\ call.items \in Seq(PropertyItems) /\ call.before \in [Notes -> Texts]
        /\ \A n \in Notes : Parse(Rest(call.before[n])).body = 0
        /\ \A s \in Range(Groups(call.items)) :
              PropertiesOk(call.before[NoteOf[s]], Group(call.items, s))
        /\ text = [n \in Notes |->
              IF Writers(call.items, n) = <<>> THEN call.before[n]
              ELSE PropertiesTo(call.before[n], Group(call.items, Last(Writers(call.items, n))))]

(* It holds in every state, if all bodies are plain.                       *)
LEMMA SettlesHold == Spec /\ []PlainBodies => []Settles
<1>1. Init => Settles
  BY DEF Init, Settles, Accepted, NoCall
<1>2. ASSUME TypeOK, PlainBodies, Settles, [Next]_vars PROVE Settles'
  <2>1. CASE UNCHANGED vars
    <3>1. text' = text /\ call' = call
      BY <2>1 DEF vars
    <3>2. QED
      BY <1>2, <3>1 DEF Settles, Accepted
  <2>2. CASE Type
    BY <2>2 DEF Type, Settles, Accepted, NoCall
  <2>3. CASE EditSections
    <3>1. call'.tool = "edit_sections"
      BY <2>3 DEF EditSections, Run
    <3>2. QED
      BY <3>1 DEF Settles, Accepted
  <2>4. CASE ReplaceText
    <3>1. call'.tool = "replace_text"
      BY <2>4 DEF ReplaceText, Run
    <3>2. QED
      BY <3>1 DEF Settles, Accepted
  <2>5. CASE EditProperties
    <3>1. PICK batch \in PropertyBatches : Run("edit_properties", batch, PropertiesOk, PropertiesTo)
      BY <2>5 DEF EditProperties
    <3> DEFINE good == \A s \in Range(Groups(batch)) : PropertiesOk(text[NoteOf[s]], Group(batch, s))
    <3>2. /\ text' = IF good THEN Written(batch, PropertiesTo) ELSE text
          /\ call' = [tool |-> "edit_properties", items |-> batch, ok |-> good, before |-> text]
      BY <3>1 DEF Run
    <3>3. batch \in Seq(PropertyItems) /\ text \in [Notes -> Texts]
      BY <1>2, InputAssumption DEF TypeOK
    <3>4. Written(batch, PropertiesTo) =
             [n \in Notes |-> IF Writers(batch, n) = <<>> THEN text[n]
                              ELSE PropertiesTo(text[n], Group(batch, Last(Writers(batch, n))))]
      BY WrittenIs
    <3>5. call'.items = batch /\ call'.before = text /\ (Accepted("edit_properties")' => good)
      BY <3>2 DEF Accepted
    <3>6. \A n \in Notes : Parse(Rest(text[n])).body = 0
      BY <1>2 DEF PlainBodies
    <3> SUFFICES ASSUME Accepted("edit_properties")'
                 PROVE  /\ call'.items \in Seq(PropertyItems) /\ call'.before \in [Notes -> Texts]
                        /\ \A n \in Notes : Parse(Rest(call'.before[n])).body = 0
                        /\ \A s \in Range(Groups(call'.items)) :
                              PropertiesOk(call'.before[NoteOf[s]], Group(call'.items, s))
                        /\ text' = [n \in Notes |->
                              IF Writers(call'.items, n) = <<>> THEN call'.before[n]
                              ELSE PropertiesTo(call'.before[n], Group(call'.items, Last(Writers(call'.items, n))))]
      BY DEF Settles
    <3>7. good /\ text' = Written(batch, PropertiesTo)
      BY <3>2, <3>5
    <3>8. QED
      BY <3>3, <3>4, <3>5, <3>6, <3>7
  <2>6. QED
    BY <1>2, <2>1, <2>2, <2>3, <2>4, <2>5 DEF Next
<1>3. QED
  BY <1>1, <1>2, TextsStay, PTL DEF Spec

(* The properties of t and u are the same but for those named.             *)
AlikeBut(named, t, u) ==
    \E p \in Properties(u), old \in Properties(t) :
        Restrict(p, DOMAIN p \ named) = Restrict(old, DOMAIN old \ named)

(* Two texts alike but for some keys read alike but for those.             *)
LEMMA UnnamedStay ==
    ASSUME NEW K, NEW named, K \subseteq named, NEW t, NEW u, SameButFor(K, t, u)
    PROVE  AlikeBut(named, t, u)
<1> DEFINE x == InnerLines(t)
           y == InnerLines(u)
           p == [k \in {j \in Keys : Has(y, j)} |-> ValueOf(y, k)]
           old == [k \in {j \in Keys : Has(x, j)} |-> ValueOf(x, k)]
<1>1. Properties(u) = {p} /\ Properties(t) = {old}
  BY DEF SameButFor, Properties
<1>2. \A k \in Keys \ named : (Has(y, k) <=> Has(x, k)) /\ ValueOf(y, k) = ValueOf(x, k)
  BY DEF SameButFor
<1> HIDE DEF x, y
<1>3. DOMAIN p \ named = DOMAIN old \ named
  BY <1>2
<1>4. \A k \in DOMAIN p \ named : p[k] = old[k]
  BY <1>2, <1>3
<1>5. Restrict(p, DOMAIN p \ named) = Restrict(old, DOMAIN old \ named)
  <2> HIDE DEF p, old
  <2>1. QED
    BY <1>3, <1>4 DEF Restrict
<1>6. QED
  BY <1>1, <1>5 DEF AlikeBut

(* The spellings that have a group are those some item has.                *)
LEMMA GroupsHave ==
    ASSUME NEW S, NEW items \in Seq(S), NEW w \in Range(Spellings)
    PROVE  w \in Range(Groups(items)) <=> Group(items, w) # <<>>
<1> DEFINE J == {l \in DOMAIN Spellings : Group(items, Spellings[l]) # <<>>}
           U == Groups(items)
<1>1. Spellings \in Seq(Range(Spellings)) /\ J \in SUBSET (1..Len(Spellings))
  BY InputAssumption
<1>2. U = Picked(Spellings, J)
  BY DEF Groups, Only, Picked
<1>3. PICK l \in DOMAIN Spellings : Spellings[l] = w
  BY DEF Range
<1>4. \A j \in J : Group(items, Spellings[j]) # <<>>
  OBVIOUS
<1>5. Group(items, w) # <<>> => l \in J
  BY <1>3
<1> HIDE DEF J, U
<1>6. /\ U \in Seq(Range(Spellings))
      /\ \A k \in 1..Len(U) : \E i \in J : U[k] = Spellings[i]
      /\ \A i \in J : \E k \in 1..Len(U) : U[k] = Spellings[i]
  BY <1>1, <1>2, PickedIs
<1>7. DOMAIN U = 1..Len(U)
  BY <1>6
<1>8. ASSUME w \in Range(U) PROVE Group(items, w) # <<>>
  <2>1. PICK k \in 1..Len(U) : U[k] = w
    BY <1>7, <1>8 DEF Range
  <2>2. PICK i \in J : U[k] = Spellings[i]
    BY <1>6, <2>1
  <2>3. QED
    BY <1>4, <2>1, <2>2
<1>9. ASSUME Group(items, w) # <<>> PROVE w \in Range(U)
  <2>1. PICK k \in 1..Len(U) : U[k] = w
    BY <1>3, <1>5, <1>6, <1>9
  <2>2. QED
    BY <1>7, <2>1 DEF Range
<1>10. QED
  BY <1>8, <1>9 DEF U

(* The items about a note, whatever its spelling.                          *)
About(items, n) == Only(items, LAMBDA e : NoteOf[e.note] = n)

(* A note that items are about is written, with the items of one spelling.  *)
LEMMA NoteIsWritten ==
    ASSUME NEW S, NEW items \in Seq(S), \A e \in S : e.note \in Range(Spellings), NEW n
    PROVE  LET G == About(items, n)
               w == Last(Writers(items, n))
           IN  /\ G # <<>> => Writers(items, n) # <<>>
               /\ Writers(items, n) # <<>> =>
                     /\ w \in Range(Groups(items)) /\ NoteOf[w] = n
                     /\ Group(items, w) \in Seq(S) /\ Group(items, w) # <<>>
                     /\ Range(Group(items, w)) \subseteq Range(G)
<1> DEFINE G == About(items, n)
           W == Writers(items, n)
           w == Last(W)
           U == Groups(items)
           K == {i \in DOMAIN items : NoteOf[items[i].note] = n}
<1>1. DOMAIN items = 1..Len(items) /\ \A i \in 1..Len(items) : items[i].note \in Range(Spellings)
  OBVIOUS
<1>2. G = Picked(items, K) /\ K \in SUBSET (1..Len(items))
  BY <1>1 DEF About, Only, Picked
<1>3. \A i \in K : NoteOf[items[i].note] = n /\ i \in 1..Len(items)
  BY <1>1
<1>4. \A i \in 1..Len(items) : NoteOf[items[i].note] = n => i \in K
  BY <1>1
<1> HIDE DEF G, K
<1>5. /\ G \in Seq(S)
      /\ \A k \in 1..Len(G) : \E i \in K : G[k] = items[i]
      /\ \A i \in K : \E k \in 1..Len(G) : G[k] = items[i]
  BY <1>2, PickedIs
<1>6. U \in Seq(Range(Spellings))
  BY WriterIs
<1>7. \A s : GroupAt(items, s) \in SUBSET (1..Len(items))
  BY <1>1 DEF GroupAt
<1>8. ASSUME NEW s
      PROVE  /\ Group(items, s) \in Seq(S)
             /\ \A k \in 1..Len(Group(items, s)) : \E i \in GroupAt(items, s) : Group(items, s)[k] = items[i]
             /\ \A i \in GroupAt(items, s) : \E k \in 1..Len(Group(items, s)) : Group(items, s)[k] = items[i]
  <2> DEFINE I == GroupAt(items, s)
             q == Group(items, s)
  <2>1. q = Picked(items, I)
    BY GroupIs
  <2>2. I \in SUBSET (1..Len(items))
    BY <1>7
  <2> HIDE DEF I, q
  <2>3. /\ q \in Seq(S)
        /\ \A k \in 1..Len(q) : \E i \in I : q[k] = items[i]
        /\ \A i \in I : \E k \in 1..Len(q) : q[k] = items[i]
    BY <2>1, <2>2, PickedIs
  <2>4. QED
    BY <2>3 DEF I, q
<1>9. ASSUME G # <<>> PROVE W # <<>>
  <2>1. 1 \in 1..Len(G)
    BY <1>5, <1>9
  <2>2. PICK i \in K : G[1] = items[i]
    BY <1>5, <2>1
  <2> DEFINE s == items[i].note
  <2>3. s \in Range(Spellings) /\ NoteOf[s] = n /\ i \in GroupAt(items, s)
    BY <1>1, <1>3, <2>2 DEF GroupAt
  <2> HIDE DEF s
  <2>4. Group(items, s) # <<>>
    <3>1. \E k \in 1..Len(Group(items, s)) : Group(items, s)[k] = items[i]
      BY <1>8, <2>3
    <3>2. QED
      BY <3>1
  <2>5. s \in Range(U)
    BY <2>3, <2>4, GroupsHave
  <2>6. PICK l \in DOMAIN U : U[l] = s
    BY <2>5 DEF Range
  <2> DEFINE I == WriterAt(items, n)
  <2>7. l \in I /\ I \in SUBSET (1..Len(U))
    BY <1>6, <2>3, <2>6 DEF WriterAt
  <2>8. W = Picked(U, I)
    BY DEF Writers
  <2> HIDE DEF U, W, I
  <2>9. \E m \in 1..Len(W) : W[m] = U[l]
    BY <1>6, <2>7, <2>8, PickedIs
  <2>10. QED
    BY <2>9
<1>10. ASSUME W # <<>>
       PROVE  /\ w \in Range(U) /\ NoteOf[w] = n
              /\ Group(items, w) \in Seq(S) /\ Group(items, w) # <<>>
              /\ Range(Group(items, w)) \subseteq Range(G)
  <2>1. w \in Range(U) /\ NoteOf[w] = n
    BY <1>10, WriterIs
  <2>2. w \in Range(Spellings)
    <3>1. Range(U) \subseteq Range(Spellings)
      BY <1>6 DEF Range
    <3>2. QED
      BY <2>1, <3>1
  <2> HIDE DEF U, W, w
  <2>3. Group(items, w) # <<>>
    BY <2>1, <2>2, GroupsHave DEF U
  <2>4. Group(items, w) \in Seq(S)
    BY <1>8
  <2>5. ASSUME NEW k \in DOMAIN Group(items, w) PROVE Group(items, w)[k] \in Range(G)
    <3>1. k \in 1..Len(Group(items, w))
      BY <2>4
    <3>2. PICK i \in GroupAt(items, w) : Group(items, w)[k] = items[i]
      BY <1>8, <3>1
    <3>3. i \in 1..Len(items) /\ items[i].note = w
      BY <1>1 DEF GroupAt
    <3>4. i \in K
      BY <1>4, <2>1, <3>3
    <3>5. PICK l \in 1..Len(G) : G[l] = items[i]
      BY <1>5, <3>4
    <3>6. l \in DOMAIN G
      BY <1>5
    <3>7. QED
      BY <3>2, <3>5, <3>6 DEF Range
  <2>6. Range(Group(items, w)) \subseteq Range(G)
    BY <2>5 DEF Range
  <2>7. QED
    BY <2>1, <2>3, <2>4, <2>6
<1>11. QED
  BY <1>9, <1>10 DEF G, W, w, U

(* Setting or removing properties leaves the others and the body as they    *)
(* were, in every text and whatever the call sets and removes, when no      *)
(* body begins with a block of its own.                                    *)
THEOREM OthersAreKept == Spec /\ []PlainBodies => []OtherKeysKept
<1>1. Settles => OtherKeysKept
  <2> SUFFICES ASSUME Settles, Accepted("edit_properties"), NEW n \in Notes
               PROVE  LET named == {e.key : e \in Range(ItemsOf(n))}
                          unnamed(p) == Restrict(p, DOMAIN p \ named)
                      IN  /\ ReadNote(n).content = Rest(call.before[n])
                          /\ ItemsOf(n) # <<>> =>
                                \E p \in ReadNote(n).frontmatter, old \in Properties(call.before[n]) :
                                   unnamed(p) = unnamed(old)
    BY DEF OtherKeysKept
  <2> DEFINE items == call.items
             G == ItemsOf(n)
             named == {e.key : e \in Range(G)}
             t == call.before[n]
             W == Writers(items, n)
             w == Last(W)
             g == Group(items, w)
             K == {g[k].key : k \in DOMAIN g}
  <2>1. /\ items \in Seq(PropertyItems) /\ t \in Texts /\ Parse(Rest(t)).body = 0
        /\ \A s \in Range(Groups(items)) : PropertiesOk(call.before[NoteOf[s]], Group(items, s))
        /\ text[n] = IF W = <<>> THEN t ELSE PropertiesTo(t, g)
    BY DEF Settles
  <2>2. \A r \in PropertyItems : r.note \in Range(Spellings)
    BY DEF PropertyItems
  <2>3. G = About(items, n)
    BY DEF ItemsOf, About
  <2>4. ReadNote(n).content = Rest(text[n]) /\ ReadNote(n).frontmatter = Properties(text[n])
    BY DEF ReadNote
  <2> HIDE DEF items, G
  <2>5. /\ G # <<>> => W # <<>>
        /\ W # <<>> => /\ w \in Range(Groups(items)) /\ NoteOf[w] = n
                       /\ g \in Seq(PropertyItems) /\ g # <<>>
                       /\ Range(g) \subseteq Range(G)
    BY <2>1, <2>2, <2>3, NoteIsWritten
  <2> HIDE DEF W, w, g
  <2>6. CASE W = <<>>
    BY <2>1, <2>4, <2>5, <2>6 DEF G
  <2>7. CASE W # <<>>
    <3>1. PropertiesOk(t, g)
      BY <2>1, <2>5, <2>7 DEF g
    <3>2. text[n] = PropertiesTo(t, g)
      BY <2>1, <2>7
    <3> HIDE DEF t
    <3>3. SameButFor(K, t, text[n])
      BY <2>1, <2>5, <2>7, <3>1, <3>2, GroupSpares
    <3>4. K \subseteq named
      BY <2>5, <2>7 DEF Range
    <3> HIDE DEF K, named
    <3>5. AlikeBut(named, t, text[n])
      BY <3>3, <3>4, UnnamedStay
    <3>6. Rest(text[n]) = Rest(t)
      BY <3>3 DEF SameButFor
    <3>7. QED
      BY <2>4, <3>5, <3>6 DEF AlikeBut, named, t, G
  <2>8. QED
    BY <2>6, <2>7
<1>2. QED
  BY <1>1, SettlesHold, PTL

-----------------------------------------------------------------------------
(* Searches: what a scan finds in a text. *)

(* Where a word occurs, token by token.                                    *)
LEMMA OccursIs ==
    ASSUME NEW t \in Texts, NEW w \in Texts, NEW p \in Nat
    PROVE  Occurs(t, w, p) <=> /\ p + Len(w) <= Len(t)
                               /\ \A i \in 1..Len(w) : t[p + i] = w[i]
<1> DEFINE u == SubSeq(t, p + 1, p + Len(w))
<1>1. Len(t) \in Nat /\ Len(w) \in Nat /\ t \in Seq(Tokens) /\ w \in Seq(Tokens)
  BY DEF Texts
<1> SUFFICES ASSUME p + Len(w) <= Len(t)
             PROVE  u = w <=> \A i \in 1..Len(w) : t[p + i] = w[i]
  BY DEF Occurs
<1>2. u \in Seq(Tokens) /\ Len(u) = Len(w) /\ \A i \in 1..Len(w) : u[i] = t[p + i]
  BY <1>1
<1> HIDE DEF u
<1>3. ASSUME \A i \in 1..Len(w) : t[p + i] = w[i] PROVE u = w
  <2>1. \A i \in 1..Len(w) : u[i] = w[i]
    BY <1>2, <1>3
  <2>2. QED
    BY <1>1, <1>2, <2>1
<1>4. QED
  BY <1>2, <1>3

(* A word that occurs within another one's place is held by it, and one     *)
(* that begins there and ends no sooner has its rest for a prefix.         *)
LEMMA Overlaps ==
    ASSUME NEW t \in Texts, NEW v \in Texts, NEW w \in Texts, NEW a \in Nat, NEW b \in Nat,
           Occurs(t, v, a), Occurs(t, w, b), a <= b, b < a + Len(v)
    PROVE  \/ Holds(v, w)
           \/ \E n \in DOMAIN v : IsPrefix(SubSeq(v, n, Len(v)), w)
<1> DEFINE d == b - a
<1>1. Len(v) \in Nat /\ Len(w) \in Nat /\ v \in Seq(Tokens) /\ w \in Seq(Tokens)
  BY DEF Texts
<1>2. d \in Nat /\ b = a + d /\ d < Len(v)
  BY <1>1
<1>3. \A i \in 1..Len(v) : t[a + i] = v[i]
  BY OccursIs
<1>4. \A i \in 1..Len(w) : t[b + i] = w[i]
  BY OccursIs
<1> HIDE DEF d
<1>5. \A i \in 1..Len(w) : d + i <= Len(v) => v[d + i] = w[i]
  <2> SUFFICES ASSUME NEW i \in 1..Len(w), d + i <= Len(v) PROVE v[d + i] = w[i]
    OBVIOUS
  <2>1. d + i \in 1..Len(v) /\ a + (d + i) = b + i
    BY <1>1, <1>2
  <2>2. QED
    BY <1>3, <1>4, <2>1
<1>6. CASE d + Len(w) <= Len(v)
  <2>1. \A i \in 1..Len(w) : v[d + i] = w[i]
    BY <1>1, <1>2, <1>5, <1>6
  <2>2. Occurs(v, w, d)
    BY <1>2, <1>6, <2>1, OccursIs
  <2>3. QED
    BY <1>1, <1>2, <2>2 DEF Holds
<1>7. CASE d + Len(w) > Len(v)
  <2> DEFINE u == SubSeq(v, d + 1, Len(v))
  <2>1. u \in Seq(Tokens) /\ Len(u) = Len(v) - d /\ \A i \in 1..Len(u) : u[i] = v[d + i]
    BY <1>1, <1>2
  <2> HIDE DEF u
  <2>2. Len(u) \in Nat /\ Len(u) <= Len(w) /\ \A i \in 1..Len(u) : i \in 1..Len(w) /\ d + i <= Len(v)
    BY <1>1, <1>2, <1>7, <2>1
  <2>3. \A i \in 1..Len(u) : u[i] = w[i]
    BY <1>5, <2>1, <2>2
  <2>4. SubSeq(w, 1, Len(u)) = u
    BY <1>1, <2>1, <2>2, <2>3
  <2>5. IsPrefix(u, w)
    BY <1>1, <2>2, <2>4 DEF IsPrefix
  <2>6. d + 1 \in DOMAIN v
    BY <1>1, <1>2
  <2>7. QED
    BY <2>5, <2>6 DEF u
<1>8. QED
  BY <1>1, <1>2, <1>6, <1>7

(* Keywords that cannot overlap do not: the one in front ends before the    *)
(* other begins.                                                           *)
LEMMA NoOverlap ==
    ASSUME NEW t \in Texts, NEW q \in Seq(Texts), Apart(q),
           NEW j \in DOMAIN q, NEW k \in DOMAIN q, j # k, NEW a \in Nat, NEW b \in Nat,
           Occurs(t, q[j], a), Occurs(t, q[k], b), a <= b
    PROVE  a + Len(q[j]) <= b
<1>1. q[j] \in Texts /\ q[k] \in Texts
  OBVIOUS
<1>2. Len(q[j]) \in Nat
  BY <1>1 DEF Texts
<1>3. /\ ~Holds(q[j], q[k])
      /\ \A n \in DOMAIN q[j] : ~IsPrefix(SubSeq(q[j], n, Len(q[j])), q[k])
  BY DEF Apart
<1>4. ~(b < a + Len(q[j]))
  BY <1>1, <1>3, Overlaps
<1>5. QED
  BY <1>2, <1>4

Scanning == INSTANCE Folding WITH Then <- Advance, Pick <- Highest

(* The states of a scan, token by token.                                   *)
ScannedUpTo(c, t, q, N) ==
    /\ c[0] = [from |-> 0, hits |-> {}]
    /\ \A e \in 1..N : c[e] = Advance(c[e - 1], [at |-> e, ends |-> Endings(t, q, e)])

(* There are such states, and a scan answers with the last one's matches.   *)
LEMMA ScanIs ==
    ASSUME NEW t \in Texts, NEW q
    PROVE  \E c : ScannedUpTo(c, t, q, Len(t)) /\ ScanSpelled(t, q) = c[Len(t)].hits
<1> DEFINE N == Len(t)
           s == [e \in DOMAIN t |-> [at |-> e, ends |-> Endings(t, q, e)]]
           z == [from |-> 0, hits |-> {}]
           f == CHOOSE g : Scanning!IsFold(g, s, z, DOMAIN s)
<1>0. N \in Nat /\ DOMAIN t = 1..N
  BY DEF Texts
<1>1. ScanSpelled(t, q) = f[DOMAIN s].hits
  BY DEF ScanSpelled, FoldLeft, MapThenFoldSet, Scanning!IsFold, Scanning!Turn, Highest
<1>a. DOMAIN s = 1..N /\ \A e \in 1..N : s[e] = [at |-> e, ends |-> Endings(t, q, e)]
  BY <1>0
<1> HIDE DEF N, s, z
<1>2. f = CHOOSE g : Scanning!IsFold(g, s, z, 1..N)
  BY <1>a
<1> HIDE DEF f
<1>3. \A u \in SUBSET (1..N) : u # {} => Highest(u) \in u
  BY <1>0, HighestIs
<1>4. Scanning!IsFold(f, s, z, 1..N)
  BY <1>0, <1>2, <1>3, Scanning!FoldExists
<1>5. Scanning!PicksLast(N)
  BY <1>0, HighestIs DEF Scanning!PicksLast
<1>6. PICK c : Scanning!Onwards(c, s, z, N) /\ f[1..N] = c[N]
  BY <1>0, <1>4, <1>5, Scanning!LeftIsChain
<1>7. ScannedUpTo(c, t, q, N)
  BY <1>6, <1>a DEF ScannedUpTo, Scanning!Onwards, z
<1>8. QED
  BY <1>1, <1>6, <1>7, <1>a DEF N

(* A match is an occurrence; all keywords that occur in the part scanned    *)
(* are among the matches, and the last match ends where the scan goes on.  *)
IsMatch(t, q, m) ==
    /\ m = <<m[1], m[2]>> /\ m[1] \in 0..Len(t) /\ m[2] \in DOMAIN q
    /\ Occurs(t, q[m[2]], m[1])
SoFar(s, t, q, e) ==
    /\ s.from \in 0..e
    /\ \A m \in s.hits : IsMatch(t, q, m)
    /\ s.from = 0 \/ \E m \in s.hits : m[1] + Len(q[m[2]]) = s.from
    /\ \A j \in DOMAIN q, p \in Nat :
          Occurs(t, q[j], p) /\ p + Len(q[j]) <= e => \E m \in s.hits : m[2] = j

(* One token more.                                                         *)
LEMMA ScanGrows ==
    ASSUME NEW t \in Texts, NEW q \in Seq(Texts), Apart(q), \A j \in DOMAIN q : q[j] # <<>>,
           NEW e \in 0 .. Len(t) - 1, NEW s, SoFar(s, t, q, e)
    PROVE  SoFar(Advance(s, [at |-> e + 1, ends |-> Endings(t, q, e + 1)]), t, q, e + 1)
<1> DEFINE E == Endings(t, q, e + 1)
           x == [at |-> e + 1, ends |-> E]
           open == {m \in E : m[1] >= s.from}
           new == {m \in open : \A n \in open \ {m} : Sooner(m, n)}
           u == Advance(s, x)
<1>1. Len(t) \in Nat /\ e \in Nat /\ e + 1 <= Len(t)
  BY DEF Texts
<1>2. \A j \in DOMAIN q : q[j] \in Texts /\ Len(q[j]) \in Nat /\ Len(q[j]) > 0
  <2> SUFFICES ASSUME NEW j \in DOMAIN q PROVE q[j] \in Texts /\ Len(q[j]) \in Nat /\ Len(q[j]) > 0
    OBVIOUS
  <2>1. q[j] \in Seq(Tokens) /\ q[j] # <<>> /\ q[j] \in Texts
    BY DEF Texts
  <2>2. QED
    BY <2>1
<1>3. u.from = (IF new = {} THEN s.from ELSE e + 1) /\ u.hits = s.hits \cup new
  BY DEF Advance
<1>4. \A m \in E : /\ m = <<m[1], m[2]>> /\ m[1] \in 0..(e + 1) /\ m[2] \in DOMAIN q
                   /\ m[1] + Len(q[m[2]]) = e + 1 /\ Occurs(t, q[m[2]], m[1])
  BY DEF Endings
<1>5. \A j \in DOMAIN q, p \in Nat : Occurs(t, q[j], p) /\ p + Len(q[j]) = e + 1 => <<p, j>> \in E
  <2> SUFFICES ASSUME NEW j \in DOMAIN q, NEW p \in Nat, Occurs(t, q[j], p), p + Len(q[j]) = e + 1
               PROVE  <<p, j>> \in E
    OBVIOUS
  <2>1. p \in 0..(e + 1)
    BY <1>1, <1>2
  <2>2. QED
    BY <2>1 DEF Endings
<1>6. \A m \in E : IsMatch(t, q, m)
  BY <1>1, <1>4 DEF IsMatch
<1> HIDE DEF E, x, u
<1>7. u.from \in 0..(e + 1)
  BY <1>1, <1>3 DEF SoFar
<1>8. \A m \in u.hits : IsMatch(t, q, m)
  BY <1>3, <1>6 DEF SoFar
<1>9. u.from = 0 \/ \E m \in u.hits : m[1] + Len(q[m[2]]) = u.from
  <2>1. CASE new = {}
    BY <1>3, <2>1 DEF SoFar
  <2>2. CASE new # {}
    <3>1. PICK m \in new : TRUE
      BY <2>2
    <3>2. m \in E /\ m \in u.hits
      BY <1>3
    <3>3. QED
      BY <1>3, <1>4, <2>2, <3>2
  <2>3. QED
    BY <2>1, <2>2
<1>10. ASSUME NEW j \in DOMAIN q, NEW p \in Nat, Occurs(t, q[j], p), p + Len(q[j]) <= e + 1
       PROVE  \E m \in u.hits : m[2] = j
  <2>1. CASE \E m \in s.hits : m[2] = j
    BY <1>3, <2>1
  <2>2. CASE ~\E m \in s.hits : m[2] = j
    <3>1. p + Len(q[j]) = e + 1
      <4>1. ~(p + Len(q[j]) <= e)
        BY <1>10, <2>2 DEF SoFar
      <4>2. QED
        BY <1>1, <1>2, <1>10, <4>1
    <3> DEFINE m == <<p, j>>
    <3>2. m \in E /\ m[1] = p /\ m[2] = j
      BY <1>5, <1>10, <3>1
    <3>3. p >= s.from
      <4>1. CASE s.from = 0
        BY <4>1
      <4>2. CASE s.from # 0
        <5>1. PICK n \in s.hits : n[1] + Len(q[n[2]]) = s.from
          BY <4>2 DEF SoFar
        <5> DEFINE a == n[1]
                   k == n[2]
        <5>2. a \in Nat /\ k \in DOMAIN q /\ Occurs(t, q[k], a) /\ k # j
          BY <1>1, <2>2 DEF SoFar, IsMatch
        <5>3. a + Len(q[k]) = s.from /\ s.from \in 0..e
          BY <5>1 DEF SoFar
        <5> HIDE DEF a, k
        <5>4. CASE a <= p
          <6>1. a + Len(q[k]) <= p
            BY <1>10, <5>2, <5>4, NoOverlap
          <6>2. QED
            BY <5>3, <6>1
        <5>5. CASE p <= a
          <6>1. p + Len(q[j]) <= a
            BY <1>10, <5>2, <5>5, NoOverlap
          <6>2. Len(q[k]) \in Nat
            BY <1>2, <5>2
          <6>3. QED
            BY <1>1, <3>1, <5>2, <5>3, <6>1, <6>2
        <5>6. QED
          BY <5>2, <5>4, <5>5
      <4>3. QED
        BY <4>1, <4>2
    <3>4. m \in open
      BY <3>2, <3>3
    <3>5. ASSUME NEW n \in open, n # m PROVE FALSE
      <4> DEFINE a == n[1]
                 k == n[2]
      <4>1. n = <<a, k>> /\ a \in Nat /\ k \in DOMAIN q /\ a + Len(q[k]) = e + 1 /\ Occurs(t, q[k], a)
        BY <1>1, <1>4
      <4>2. k # j
        <5> SUFFICES ASSUME k = j PROVE FALSE
          OBVIOUS
        <5>1. a + Len(q[j]) = e + 1 /\ Len(q[j]) \in Nat
          BY <1>2, <4>1
        <5>2. a = p
          BY <1>1, <3>1, <4>1, <5>1
        <5>3. QED
          BY <3>5, <4>1, <5>2
      <4> HIDE DEF a, k
      <4>3. Len(q[j]) \in Nat /\ Len(q[j]) > 0 /\ Len(q[k]) \in Nat /\ Len(q[k]) > 0
        BY <1>2, <4>1
      <4>4. CASE a <= p
        <5>1. a + Len(q[k]) <= p
          BY <1>10, <4>1, <4>2, <4>4, NoOverlap
        <5>2. QED
          BY <1>1, <3>1, <4>1, <4>3, <5>1
      <4>5. CASE p <= a
        <5>1. p + Len(q[j]) <= a
          BY <1>10, <4>1, <4>2, <4>5, NoOverlap
        <5>2. QED
          BY <1>1, <3>1, <4>1, <4>3, <5>1
      <4>6. QED
        BY <4>1, <4>4, <4>5
    <3>6. m \in new
      BY <3>4, <3>5
    <3>7. QED
      BY <1>3, <3>2, <3>6
  <2>3. QED
    BY <2>1, <2>2
<1>11. QED
  BY <1>7, <1>8, <1>9, <1>10 DEF SoFar, u, x, E

(* A scan's matches are occurrences of the keywords, and it matches each    *)
(* keyword that occurs, if keywords cannot overlap.                        *)
LEMMA SpelledFinds ==
    ASSUME NEW t \in Texts, NEW q \in Seq(Texts), Apart(q), \A j \in DOMAIN q : q[j] # <<>>
    PROVE  /\ \A m \in ScanSpelled(t, q) : IsMatch(t, q, m)
           /\ \A j \in DOMAIN q : (\E m \in ScanSpelled(t, q) : m[2] = j) <=> Holds(t, q[j])
<1> DEFINE N == Len(t)
<1>1. N \in Nat
  BY DEF Texts
<1>2. PICK c : ScannedUpTo(c, t, q, N) /\ ScanSpelled(t, q) = c[N].hits
  BY ScanIs
<1> DEFINE T == {e \in Nat : e <= N => SoFar(c[e], t, q, e)}
<1>3. 0 \in T
  <2>1. c[0] = [from |-> 0, hits |-> {}]
    BY <1>2 DEF ScannedUpTo
  <2>2. \A j \in DOMAIN q : Len(q[j]) \in Nat /\ Len(q[j]) > 0
    <3> SUFFICES ASSUME NEW j \in DOMAIN q PROVE Len(q[j]) \in Nat /\ Len(q[j]) > 0
      OBVIOUS
    <3>1. q[j] \in Seq(Tokens) /\ q[j] # <<>>
      BY DEF Texts
    <3>2. QED
      BY <3>1
  <2>3. \A j \in DOMAIN q, p \in Nat : ~(p + Len(q[j]) <= 0)
    BY <2>2
  <2>4. QED
    BY <2>1, <2>3 DEF SoFar
<1>4. ASSUME NEW e \in T PROVE e + 1 \in T
  <2> SUFFICES ASSUME e + 1 <= N PROVE SoFar(c[e + 1], t, q, e + 1)
    OBVIOUS
  <2>1. e \in Nat /\ e \in 0 .. N - 1 /\ e + 1 \in 1..N /\ (e + 1) - 1 = e
    BY <1>1
  <2>2. c[e + 1] = Advance(c[e], [at |-> e + 1, ends |-> Endings(t, q, e + 1)])
    BY <1>2, <2>1 DEF ScannedUpTo
  <2>3. SoFar(c[e], t, q, e)
    BY <1>1, <2>1
  <2>4. QED
    BY <2>1, <2>2, <2>3, ScanGrows
<1>5. T = Nat
  <2> HIDE DEF T
  <2>1. T \in SUBSET Nat
    BY DEF T
  <2>2. QED
    BY <1>3, <1>4, <2>1, Taking!Grows
<1>6. SoFar(c[N], t, q, N)
  BY <1>1, <1>5
<1>7. \A m \in ScanSpelled(t, q) : IsMatch(t, q, m)
  BY <1>2, <1>6 DEF SoFar
<1>8. ASSUME NEW j \in DOMAIN q, NEW m \in ScanSpelled(t, q), m[2] = j PROVE Holds(t, q[j])
  BY <1>7, <1>8 DEF IsMatch, Holds
<1>9. ASSUME NEW j \in DOMAIN q, Holds(t, q[j]) PROVE \E m \in ScanSpelled(t, q) : m[2] = j
  <2>1. PICK p \in 0..Len(t) : Occurs(t, q[j], p)
    BY <1>9 DEF Holds
  <2>2. p \in Nat /\ p + Len(q[j]) <= N
    BY <1>1, <2>1 DEF Occurs
  <2>3. QED
    BY <1>2, <1>6, <2>1, <2>2 DEF SoFar
<1>10. QED
  BY <1>7, <1>8, <1>9

(* A text in small letters, as far as the scan takes them for such.         *)
LEMMA LowerAsciiIs ==
    ASSUME NEW t \in Texts
    PROVE  /\ LowerAscii(t) \in Texts /\ Len(LowerAscii(t)) = Len(t)
           /\ \A k \in 1..Len(t) :
                 LowerAscii(t)[k] = IF t[k] \in AsciiCapitals THEN SmallOf[t[k]] ELSE t[k]
<1> DEFINE S(x) == IF x \in AsciiCapitals THEN SmallOf[x] ELSE x
           N == Len(t)
           u == [k \in 1..N |-> S(t[k])]
<1>1. N \in Nat /\ DOMAIN t = 1..N /\ \A k \in 1..N : t[k] \in Tokens
  BY DEF Texts
<1>2. \A x \in Tokens : S(x) \in Tokens
  BY InputAssumption, CaseAssumption
<1>3. LowerAscii(t) = u
  BY <1>1 DEF LowerAscii, LowerOnly
<1>4. \A k \in 1..N : S(t[k]) \in Tokens
  BY <1>1, <1>2
<1> HIDE DEF N, S
<1>5. u \in [1..N -> Tokens] /\ \A k \in 1..N : u[k] = S(t[k])
  BY <1>4
<1> HIDE DEF u
<1>6. u \in Seq(Tokens) /\ Len(u) = N
  BY <1>1, <1>5
<1>7. QED
  BY <1>3, <1>5, <1>6 DEF S, N, Texts

(* So are the matches of a scan, up to the case of ASCII letters.           *)
LEMMA ScanFinds ==
    ASSUME NEW t \in Texts, NEW q \in Seq(Texts), Apart(q), \A j \in DOMAIN q : q[j] # <<>>
    PROVE  /\ \A m \in Scan(t, q) : IsMatch(LowerAscii(t), q, m)
           /\ \A j \in DOMAIN q : (\E m \in Scan(t, q) : m[2] = j) <=> Holds(LowerAscii(t), q[j])
<1> DEFINE u == LowerAscii(t)
<1>1. u \in Texts
  BY LowerAsciiIs
<1>2. Scan(t, q) = ScanSpelled(u, q)
  BY DEF Scan
<1> HIDE DEF u
<1>3. /\ \A m \in ScanSpelled(u, q) : IsMatch(u, q, m)
      /\ \A j \in DOMAIN q : (\E m \in ScanSpelled(u, q) : m[2] = j) <=> Holds(u, q[j])
  BY <1>1, SpelledFinds
<1>4. QED
  BY <1>2, <1>3 DEF u

(* Where a gap of a text ends: it is a run of Gaps behind a token of Cjk.   *)
LEMMA GapIs ==
    ASSUME NEW t \in Texts, NEW p \in 0..Len(t)
    PROVE  /\ GapEnd(t, p) \in p..Len(t)
           /\ GapEnd(t, p) > p => t[p] \in Cjk /\ \A q \in p + 1 .. GapEnd(t, p) : t[q] \in Gaps
<1> DEFINE N == Len(t)
           StopsAt(e) == /\ \A q \in p + 1 .. e : t[q] \in Gaps
                         /\ e = Len(t) \/ t[e + 1] \notin Gaps
           stop == CHOOSE e \in p..Len(t) : StopsAt(e)
           D == {d \in Nat : p + d = N \/ t[p + d + 1] \notin Gaps}
<1>1. N \in Nat /\ p \in Nat /\ p <= N
  BY DEF Texts
<1>2. D \in SUBSET Nat /\ N - p \in D
  BY <1>1
<1> HIDE DEF N
<1>3. PICK d \in D : \A f \in D : d <= f
  <2> HIDE DEF D
  <2>1. QED
    BY <1>2, Taking!Least
<1>4. d \in Nat /\ d <= N - p
  BY <1>2, <1>3
<1>5. \A q \in p + 1 .. p + d : t[q] \in Gaps
  <2> SUFFICES ASSUME NEW q \in p + 1 .. p + d PROVE t[q] \in Gaps
    OBVIOUS
  <2>1. q - p - 1 \in Nat /\ q - p - 1 < d /\ p + (q - p - 1) + 1 = q
    BY <1>1, <1>4
  <2> HIDE DEF D
  <2>2. \A f \in D : ~(f < d)
    BY <1>2, <1>3, <1>4
  <2>3. q - p - 1 \notin D
    BY <2>1, <2>2
  <2>4. QED
    BY <2>1, <2>3 DEF D
<1>6. p + d \in p..N /\ (p + d = N \/ t[(p + d) + 1] \notin Gaps)
  BY <1>1, <1>3, <1>4
<1>7. StopsAt(p + d) /\ p + d \in p..Len(t)
  BY <1>5, <1>6 DEF N
<1>8. stop \in p..Len(t) /\ StopsAt(stop)
  <2> HIDE DEF StopsAt
  <2>1. QED
    BY <1>7
<1>9. GapEnd(t, p) = IF /\ p > 0 /\ t[p] \in Cjk /\ stop < Len(t) /\ t[stop + 1] \in Cjk
                        /\ Cardinality({q \in p + 1 .. stop : t[q] = NL}) < 2
                     THEN stop ELSE p
  BY DEF GapEnd
<1>10. QED
  BY <1>1, <1>8, <1>9

(* Gaps at a[k] up to s[k], one behind the other, and how much they take    *)
(* away together up to each.                                               *)
Spaced(a, s, T, G) ==
    /\ T[0] = 0
    /\ \A k \in 1..G : /\ a[k] \in Nat /\ s[k] \in Nat /\ a[k] < s[k]
                       /\ T[k] = T[k - 1] + s[k] - a[k]
    /\ \A j, k \in 1..G : j < k => s[j] < a[k]

(* What is left in front of each gap grows from gap to gap.                *)
LEMMA SpacedIs ==
    ASSUME NEW a, NEW s, NEW T, NEW G \in Nat, Spaced(a, s, T, G)
    PROVE  /\ \A k \in 0..G : T[k] \in Nat
           /\ \A k \in 1..G : T[k - 1] <= a[k] /\ a[k] - T[k - 1] = s[k] - T[k]
           /\ \A j, k \in 0..G : j <= k => T[j] <= T[k]
           /\ \A j, k \in 1..G : j <= k => a[j] - T[j - 1] <= a[k] - T[k - 1]
<1>1. \A k \in 1..G : /\ a[k] \in Nat /\ s[k] \in Nat /\ a[k] < s[k]
                      /\ T[k] = T[k - 1] + s[k] - a[k]
  BY DEF Spaced
<1>2. \A k \in 1..G : k + 1 \in 1..G => s[k] < a[k + 1]
  BY DEF Spaced
<1>3. T[0] = 0
  BY DEF Spaced
<1> DEFINE Good(k) == /\ T[k] \in Nat
                      /\ k # 0 => T[k - 1] \in Nat /\ T[k - 1] <= a[k] /\ T[k] <= s[k]
                      /\ \A j \in 0..k : T[j] \in Nat /\ T[j] <= T[k]
                      /\ \A j \in 1..k : a[j] - T[j - 1] <= a[k] - T[k - 1]
           S == {k \in Nat : k <= G => Good(k)}
<1>4. 0 \in S
  BY <1>3
<1>5. ASSUME NEW k \in S PROVE k + 1 \in S
  <2> SUFFICES ASSUME k + 1 <= G PROVE Good(k + 1)
    OBVIOUS
  <2>1. k \in Nat /\ k <= G /\ k + 1 \in 1..G /\ (k + 1) - 1 = k /\ Good(k)
    OBVIOUS
  <2>2. /\ a[k + 1] \in Nat /\ s[k + 1] \in Nat /\ a[k + 1] < s[k + 1]
        /\ T[k + 1] = T[k] + s[k + 1] - a[k + 1]
    BY <1>1, <2>1
  <2>3. T[k] \in Nat /\ T[k] <= a[k + 1]
    <3>1. CASE k = 0
      BY <1>3, <2>2, <3>1
    <3>2. CASE k # 0
      <4>1. k \in 1..G /\ s[k] < a[k + 1] /\ s[k] \in Nat
        BY <1>1, <1>2, <2>1, <3>2
      <4>2. QED
        BY <2>1, <2>2, <3>2, <4>1
    <3>3. QED
      BY <3>1, <3>2
  <2>4. T[k + 1] \in Nat /\ T[k + 1] <= s[k + 1] /\ T[k] <= T[k + 1]
    BY <2>2, <2>3
  <2>5. ASSUME NEW j \in 0 .. k + 1 PROVE T[j] \in Nat /\ T[j] <= T[k + 1]
    <3>1. CASE j = k + 1
      BY <2>4, <3>1
    <3>2. CASE j \in 0..k
      <4>1. T[j] \in Nat /\ T[j] <= T[k]
        BY <2>1, <3>2
      <4>2. QED
        BY <2>3, <2>4, <4>1
    <3>3. QED
      BY <2>1, <3>1, <3>2
  <2>6. ASSUME NEW j \in 1 .. k + 1 PROVE a[j] - T[j - 1] <= a[k + 1] - T[k]
    <3>1. CASE j = k + 1
      BY <2>1, <2>2, <2>3, <3>1
    <3>2. CASE j \in 1..k
      <4>1. a[j] - T[j - 1] <= a[k] - T[k - 1]
        BY <2>1, <3>2
      <4>2. /\ k \in 1..G /\ s[k] < a[k + 1] /\ s[k] \in Nat /\ a[k] \in Nat
            /\ T[k] = T[k - 1] + s[k] - a[k] /\ T[k - 1] \in Nat
        BY <1>1, <1>2, <2>1, <3>2
      <4>3. a[k] - T[k - 1] <= a[k + 1] - T[k]
        BY <2>2, <2>3, <4>2
      <4>4. j \in 1..G /\ j - 1 \in 0..k
        BY <2>1, <3>2
      <4>5. a[j] \in Nat /\ T[j - 1] \in Nat
        BY <1>1, <2>1, <4>4
      <4>6. QED
        BY <2>2, <2>3, <4>1, <4>2, <4>3, <4>5
    <3>3. QED
      BY <2>1, <3>1, <3>2
  <2>7. QED
    BY <2>1, <2>3, <2>4, <2>5, <2>6
<1>6. S = Nat
  <2> HIDE DEF S
  <2>1. S \in SUBSET Nat
    BY DEF S
  <2>2. QED
    BY <1>4, <1>5, <2>1, Taking!Grows
<1>7. \A k \in 0..G : Good(k)
  <2> HIDE DEF Good
  <2>1. \A k \in 0..G : k \in S /\ k <= G
    BY <1>6
  <2>2. QED
    BY <2>1
<1>8. \A k \in 1..G : T[k - 1] \in Nat /\ T[k - 1] <= a[k] /\ a[k] - T[k - 1] = s[k] - T[k]
  <2> SUFFICES ASSUME NEW k \in 1..G
               PROVE  T[k - 1] \in Nat /\ T[k - 1] <= a[k] /\ a[k] - T[k - 1] = s[k] - T[k]
    OBVIOUS
  <2>1. k \in 0..G /\ k # 0 /\ Good(k)
    BY <1>7
  <2>2. QED
    BY <1>1, <2>1
<1>9. QED
  BY <1>7, <1>8

(* A place o of what is left lies behind the first k gaps.                  *)
Behind(a, T, G, k, o) ==
    /\ k \in 0..G
    /\ k # 0 => a[k] - T[k - 1] <= o
    /\ k # G => o < a[k + 1] - T[k]

(* Put back, it lies in no gap.                                            *)
LEMMA BackOutside ==
    ASSUME NEW a, NEW s, NEW T, NEW G \in Nat, Spaced(a, s, T, G), NEW o \in Nat, NEW k,
           Behind(a, T, G, k, o), NEW j \in 1..G
    PROVE  o + T[k] + 1 <= a[j] \/ o + T[k] + 1 > s[j]
<1>1. k \in 0..G /\ T[k] \in Nat
  BY SpacedIs DEF Behind
<1>2. a[j] \in Nat /\ s[j] \in Nat
  BY DEF Spaced
<1>3. j - 1 \in 0..G /\ j \in 0..G /\ T[j] \in Nat /\ T[j - 1] \in Nat /\ a[j] - T[j - 1] = s[j] - T[j]
  BY SpacedIs
<1>4. CASE j <= k
  <2>1. k \in 1..G /\ k # 0 /\ k - 1 \in 0..G
    BY <1>1, <1>4
  <2>2. a[j] - T[j - 1] <= a[k] - T[k - 1] /\ a[k] - T[k - 1] <= o /\ T[j] <= T[k]
    BY <1>1, <1>3, <1>4, <2>1, SpacedIs DEF Behind
  <2>3. a[k] \in Nat /\ T[k - 1] \in Nat
    BY <2>1, SpacedIs DEF Spaced
  <2>4. s[j] - T[j] <= o
    BY <1>2, <1>3, <2>2, <2>3
  <2>5. QED
    BY <1>1, <1>2, <1>3, <2>2, <2>4
<1>5. CASE j > k
  <2>1. k + 1 \in 1..G /\ k # G /\ (k + 1) - 1 = k /\ k + 1 <= j
    BY <1>1, <1>5
  <2>2. o < a[k + 1] - T[k]
    BY <2>1 DEF Behind
  <2>3. a[k + 1] \in Nat
    BY <2>1 DEF Spaced
  <2>4. a[k + 1] <= a[j]
    <3>1. CASE j = k + 1
      BY <2>3, <3>1
    <3>2. CASE k + 1 < j
      <4>1. s[k + 1] < a[j] /\ a[k + 1] < s[k + 1] /\ s[k + 1] \in Nat
        BY <2>1, <3>2 DEF Spaced
      <4>2. QED
        BY <1>2, <2>3, <4>1
    <3>3. QED
      BY <1>1, <2>1, <3>1, <3>2
  <2>5. QED
    BY <1>1, <1>2, <2>2, <2>3, <2>4
<1>6. QED
  BY <1>1, <1>4, <1>5

(* Two places stay in their order.                                         *)
LEMMA BackInOrder ==
    ASSUME NEW a, NEW s, NEW T, NEW G \in Nat, Spaced(a, s, T, G),
           NEW o \in Nat, NEW k, Behind(a, T, G, k, o),
           NEW p \in Nat, NEW m, Behind(a, T, G, m, p), o < p
    PROVE  o + T[k] < p + T[m]
<1>1. k \in 0..G /\ T[k] \in Nat /\ m \in 0..G /\ T[m] \in Nat
  BY SpacedIs DEF Behind
<1>2. CASE k <= m
  <2>1. T[k] <= T[m]
    BY <1>1, <1>2, SpacedIs
  <2>2. QED
    BY <1>1, <2>1
<1>3. CASE m < k
  <2>1. m + 1 \in 1..G /\ m # G /\ k # 0 /\ k \in 1..G /\ (m + 1) - 1 = m /\ m + 1 <= k /\ k - 1 \in 0..G
    BY <1>1, <1>3
  <2>2. p < a[m + 1] - T[m] /\ a[k] - T[k - 1] <= o
    BY <2>1 DEF Behind
  <2>3. a[m + 1] - T[(m + 1) - 1] <= a[k] - T[k - 1]
    BY <2>1, SpacedIs
  <2>4. a[m + 1] \in Nat /\ a[k] \in Nat /\ T[k - 1] \in Nat
    BY <2>1, SpacedIs DEF Spaced
  <2>5. QED
    BY <1>1, <2>1, <2>2, <2>3, <2>4
<1>4. QED
  BY <1>1, <1>2, <1>3

(* And every place in no gap is one that is left.                          *)
LEMMA BackReaches ==
    ASSUME NEW a, NEW s, NEW T, NEW G \in Nat, Spaced(a, s, T, G),
           NEW q \in Nat, q # 0, \A j \in 1..G : q <= a[j] \/ q > s[j]
    PROVE  \E k \in 0..G, o \in Nat : Behind(a, T, G, k, o) /\ q = o + T[k] + 1
<1> DEFINE K == {j \in 1..G : s[j] < q}
           k == IF K = {} THEN 0 ELSE Highest(K)
           o == q - 1 - T[k]
<1>1. \A j \in 1..G : a[j] \in Nat /\ s[j] \in Nat
  BY DEF Spaced
<1>2. K # {} => k \in K /\ \A j \in K : j <= k
  BY HighestIs
<1>3. k \in 0..G /\ (k # 0 => k \in 1..G /\ s[k] < q)
  BY <1>2
<1>4. k # G => k + 1 \in 1..G /\ ~(s[k + 1] < q)
  <2> SUFFICES ASSUME k # G, s[k + 1] < q PROVE FALSE
    BY <1>3
  <2> HIDE DEF k
  <2>1. k + 1 \in K
    BY <1>3
  <2>2. k \in Nat /\ k + 1 <= k
    BY <1>2, <1>3, <2>1
  <2>3. QED
    BY <2>2
<1> HIDE DEF K, k
<1>5. T[k] \in Nat
  BY <1>3, SpacedIs
<1>6. k # G => q <= a[k + 1]
  <2> SUFFICES ASSUME k # G PROVE q <= a[k + 1]
    OBVIOUS
  <2>1. k + 1 \in 1..G /\ ~(s[k + 1] < q) /\ s[k + 1] \in Nat
    BY <1>1, <1>4
  <2>2. q <= a[k + 1] \/ q > s[k + 1]
    BY <2>1
  <2>3. QED
    BY <2>1, <2>2
<1>7. CASE k = 0
  <2>1. T[k] = 0
    BY <1>7 DEF Spaced
  <2>2. o \in Nat /\ q = o + T[k] + 1
    BY <2>1
  <2>3. k # G => o < a[k + 1] - T[k]
    BY <1>1, <1>4, <1>6, <2>1
  <2>4. Behind(a, T, G, k, o)
    BY <1>3, <1>7, <2>3 DEF Behind
  <2>5. QED
    BY <1>3, <2>2, <2>4
<1>8. CASE k # 0
  <2>1. k \in 1..G /\ s[k] < q /\ s[k] \in Nat /\ a[k] \in Nat
    BY <1>1, <1>3, <1>8
  <2>2. k - 1 \in 0..G
    BY <2>1
  <2>3. T[k - 1] \in Nat /\ T[k - 1] <= a[k] /\ a[k] - T[k - 1] = s[k] - T[k]
    BY <2>1, <2>2, SpacedIs
  <2>4. o \in Nat /\ q = o + T[k] + 1 /\ a[k] - T[k - 1] <= o
    BY <1>5, <2>1, <2>3
  <2>5. k # G => o < a[k + 1] - T[k]
    BY <1>1, <1>4, <1>5, <1>6, <2>4
  <2>6. Behind(a, T, G, k, o)
    BY <1>3, <2>4, <2>5 DEF Behind
  <2>7. QED
    BY <1>3, <2>4, <2>6
<1>9. QED
  BY <1>7, <1>8

(* The gaps of a text in their order, where each ends and what they take.  *)
IsGapped(t, G, a, s, T) ==
    /\ G \in Nat /\ Spaced(a, s, T, G)
    /\ \A k \in 1..G : a[k] \in Bridged(t) /\ s[k] = GapEnd(t, a[k])
    /\ \A p \in Bridged(t) : \E k \in 1..G : a[k] = p

(* And what fold keeps of them for the way back.                           *)
Recorded(t, G, a, T) ==
    Removals(t) = [k \in 1..G |-> [at |-> a[k] - T[k - 1], removed |-> T[k]]]

Widen(n, x) == n + x[1] - x[2]
Widening == INSTANCE Folding WITH Then <- Widen, Pick <- Highest

(* Every text has such gaps, as many as it has.                            *)
LEMMA RemovalsAre ==
    ASSUME NEW t \in Texts
    PROVE  \E G, a, s, T : IsGapped(t, G, a, s, T) /\ Recorded(t, G, a, T)
<1> DEFINE N == Len(t)
           a == Ascending(Bridged(t), N)
           G == Len(a)
           s == [k \in 1..G |-> GapEnd(t, a[k])]
           Total(b) == b = [k \in 0..G |-> IF k = 0 THEN 0 ELSE b[k - 1] + GapEnd(t, a[k]) - a[k]]
           T == CHOOSE b : Total(b)
           w == [k \in 1..G |-> <<GapEnd(t, a[k]), a[k]>>]
<1>1. N \in Nat
  BY DEF Texts
<1>2. IsRow(a, Bridged(t), N + 1)
  BY <1>1, AscendingIs
<1>3. Removals(t) = [k \in DOMAIN a |-> [at |-> a[k] - T[k - 1], removed |-> T[k]]]
  BY DEF Removals
<1> HIDE DEF a, N
<1>4. G \in Nat /\ DOMAIN a = 1..G /\ a \in Seq(Nat)
  BY <1>2 DEF IsRow
<1>5. \A k \in 1..G : a[k] \in Nat /\ a[k] \in Bridged(t)
  BY <1>2, <1>4 DEF IsRow
<1>6. \A p \in Bridged(t) : \E k \in 1..G : a[k] = p
  <2> SUFFICES ASSUME NEW p \in Bridged(t) PROVE \E k \in 1..G : a[k] = p
    OBVIOUS
  <2>1. p \in 0..N
    BY DEF Bridged, N
  <2>2. p \in Nat /\ p < N + 1
    BY <1>1, <2>1
  <2>3. QED
    BY <1>2, <2>2 DEF IsRow
<1> HIDE DEF G
<1>7. \A k \in 1..G : s[k] = GapEnd(t, a[k]) /\ s[k] \in Nat /\ a[k] < s[k]
  <2> SUFFICES ASSUME NEW k \in 1..G PROVE GapEnd(t, a[k]) \in Nat /\ a[k] < GapEnd(t, a[k])
    OBVIOUS
  <2>1. a[k] \in 0..Len(t) /\ GapEnd(t, a[k]) > a[k]
    BY <1>5 DEF Bridged
  <2>2. GapEnd(t, a[k]) \in a[k]..Len(t)
    BY <2>1, GapIs
  <2>3. QED
    BY <1>5, <2>1, <2>2
<1>8. PICK c : Widening!IsUnrolled(c, w, 0, G)
  BY <1>4, Widening!Unrolls
<1>9. Total(c)
  <2>1. c = [n \in 0..G |-> IF n = 0 THEN 0 ELSE c[n - 1] + w[n][1] - w[n][2]]
    BY <1>8 DEF Widening!IsUnrolled, Widen
  <2>2. \A n \in 0..G : (IF n = 0 THEN 0 ELSE c[n - 1] + w[n][1] - w[n][2])
                        = (IF n = 0 THEN 0 ELSE c[n - 1] + GapEnd(t, a[n]) - a[n])
    <3> SUFFICES ASSUME NEW n \in 0..G, n # 0
                 PROVE  c[n - 1] + w[n][1] - w[n][2] = c[n - 1] + GapEnd(t, a[n]) - a[n]
      OBVIOUS
    <3>1. n \in 1..G
      BY <1>4
    <3>2. w[n] = <<GapEnd(t, a[n]), a[n]>>
      BY <3>1
    <3>3. w[n][1] = GapEnd(t, a[n]) /\ w[n][2] = a[n]
      BY <3>2
    <3>4. QED
      BY <3>3
  <2> HIDE DEF w
  <2>3. c = [n \in 0..G |-> IF n = 0 THEN 0 ELSE c[n - 1] + GapEnd(t, a[n]) - a[n]]
    BY <2>1, <2>2
  <2>4. QED
    BY <2>3
<1>10. Total(T)
  <2> HIDE DEF Total
  <2>1. QED
    BY <1>9
<1>11. T[0] = 0 /\ \A k \in 1..G : T[k] = T[k - 1] + GapEnd(t, a[k]) - a[k]
  <2> HIDE DEF T
  <2>1. T = [k \in 0..G |-> IF k = 0 THEN 0 ELSE T[k - 1] + GapEnd(t, a[k]) - a[k]]
    BY <1>10
  <2>2. \A k \in 0..G : T[k] = IF k = 0 THEN 0 ELSE T[k - 1] + GapEnd(t, a[k]) - a[k]
    BY <2>1
  <2>3. 0 \in 0..G /\ \A k \in 1..G : k \in 0..G /\ k # 0
    BY <1>4
  <2>4. QED
    BY <2>2, <2>3
<1> HIDE DEF T, s, w
<1>12. \A k \in 1..G : T[k] = T[k - 1] + s[k] - a[k]
  BY <1>7, <1>11
<1>13. ASSUME NEW j \in 1..G, NEW k \in 1..G, j < k PROVE s[j] < a[k]
  <2>1. a[j] < a[k]
    BY <1>2, <1>13 DEF IsRow, G
  <2>2. a[j] \in 0..Len(t) /\ GapEnd(t, a[j]) > a[j] /\ a[k] \in 0..Len(t) /\ GapEnd(t, a[k]) > a[k]
    BY <1>5 DEF Bridged
  <2>3. \A q \in a[j] + 1 .. s[j] : t[q] \in Gaps
    BY <1>7, <2>2, GapIs
  <2>4. t[a[k]] \in Cjk
    BY <2>2, GapIs
  <2>5. a[k] \notin a[j] + 1 .. s[j]
    BY <2>3, <2>4, GapAssumption
  <2>6. QED
    BY <1>5, <1>7, <2>1, <2>5
<1>14. IsGapped(t, G, a, s, T)
  BY <1>4, <1>5, <1>6, <1>7, <1>11, <1>12, <1>13 DEF IsGapped, Spaced
<1>15. Recorded(t, G, a, T)
  BY <1>3, <1>4 DEF Recorded
<1>16. QED
  BY <1>14, <1>15

(* An offset of the folded text is put behind the gaps it lies behind.      *)
LEMMA ToOriginalIs ==
    ASSUME NEW t \in Texts, NEW G, NEW a, NEW s, NEW T, IsGapped(t, G, a, s, T),
           Recorded(t, G, a, T), NEW o \in Nat
    PROVE  \E k \in 0..G : Behind(a, T, G, k, o) /\ ToOriginal(t, o) = o + T[k]
<1> DEFINE R == Removals(t)
           P == {k \in 1..G : a[k] - T[k - 1] <= o}
           k == IF P = {} THEN 0 ELSE Highest(P)
<1>1. G \in Nat /\ Spaced(a, s, T, G)
  BY DEF IsGapped
<1>2. DOMAIN R = 1..G /\ \A j \in 1..G : R[j].at = a[j] - T[j - 1] /\ R[j].removed = T[j]
  BY DEF Recorded
<1>3. P # {} => k \in P /\ \A j \in P : j <= k
  BY <1>1, HighestIs
<1>4. T[0] = 0
  BY <1>1 DEF Spaced
<1>5. ToOriginal(t, o) = o + IF P = {} THEN 0 ELSE R[Highest(P)].removed
  <2> DEFINE Q == {j \in DOMAIN R : R[j].at <= o}
  <2>1. ToOriginal(t, o) = o + IF Q = {} THEN 0 ELSE R[Max(Q)].removed
    BY DEF ToOriginal, ToOriginalBy
  <2>2. Q = P
    BY <1>2
  <2> HIDE DEF Q, P, R
  <2>3. QED
    BY <2>1, <2>2 DEF Highest
<1>6. P # {} => Highest(P) \in 1..G
  BY <1>1, HighestIs
<1> HIDE DEF R
<1>7. ToOriginal(t, o) = o + T[k]
  <2> HIDE DEF P
  <2>1. CASE P = {}
    BY <1>4, <1>5, <2>1
  <2>2. CASE P # {}
    BY <1>2, <1>5, <1>6, <2>2
  <2>3. QED
    BY <2>1, <2>2
<1>8. k \in 0..G /\ (k # 0 => a[k] - T[k - 1] <= o)
  <2>1. CASE P = {}
    BY <1>1, <2>1
  <2>2. CASE P # {}
    <3>1. k \in P
      BY <1>3, <2>2
    <3> HIDE DEF k
    <3>2. QED
      BY <1>1, <3>1
  <2>3. QED
    BY <2>1, <2>2
<1>9. ASSUME k # G PROVE o < a[k + 1] - T[k]
  <2> HIDE DEF k
  <2>1. k + 1 \in 1..G /\ (k + 1) - 1 = k /\ k \in 0..G /\ k \in Nat
    BY <1>1, <1>8, <1>9
  <2>2. k + 1 \notin P
    <3> SUFFICES ASSUME k + 1 \in P PROVE FALSE
      OBVIOUS
    <3>1. k + 1 <= k
      BY <1>3
    <3>2. QED
      BY <2>1, <3>1
  <2>3. ~(a[k + 1] - T[k] <= o)
    BY <2>1, <2>2
  <2>4. a[k + 1] \in Nat /\ T[k] \in Nat
    BY <1>1, <2>1, SpacedIs DEF Spaced
  <2>5. QED
    BY <2>3, <2>4
<1> HIDE DEF k, P
<1>10. Behind(a, T, G, k, o)
  BY <1>8, <1>9 DEF Behind
<1>11. QED
  BY <1>7, <1>8, <1>10

(* f runs through K, a set of numbers up to N, in their order.             *)
RunsThrough(f, K, N) ==
    /\ \A o \in Nat : f[o] \in Nat /\ (f[o] <= N => f[o] \in K)
    /\ \A q \in K : \E o \in Nat : f[o] = q
    /\ \A o, p \in Nat : o < p => f[o] < f[p]

(* A row of the numbers f gives.                                           *)
IsRun(r, f) == \A o \in 0 .. Len(r) - 1 : r[o + 1] = f[o]

(* Numbers that run through a set in their order are its row.              *)
LEMMA RowRuns ==
    ASSUME NEW N \in Nat, NEW K \in SUBSET (1..N), NEW r, NEW n, n = N + 1, IsRow(r, K, n),
           NEW f, RunsThrough(f, K, N)
    PROVE  IsRun(r, f)
<1> DEFINE M == Len(r)
           Bad == {o \in Nat : o < M /\ r[o + 1] # f[o]}
<1>a. /\ \A o \in Nat : f[o] \in Nat /\ (f[o] <= N => f[o] \in K)
      /\ \A q \in K : \E o \in Nat : f[o] = q
      /\ \A o, p \in Nat : o < p => f[o] < f[p]
  BY DEF RunsThrough
<1>1. M \in Nat /\ r \in Seq(Nat) /\ \A i \in 1..M : r[i] \in K /\ r[i] \in Nat /\ r[i] <= N
  BY DEF IsRow
<1>2. \A i, j \in 1..M : i < j => r[i] < r[j]
  BY DEF IsRow
<1>3. \A p \in K : \E i \in 1..M : r[i] = p
  BY DEF IsRow
<1> HIDE DEF M
<1>4. Bad = {}
  <2> SUFFICES ASSUME Bad # {} PROVE FALSE
    OBVIOUS
  <2>a. Bad \in SUBSET Nat
    OBVIOUS
  <2>1. PICK o \in Bad : \A p \in Bad : o <= p
    <3> HIDE DEF Bad
    <3>1. QED
      BY <2>a, Taking!Least
  <2>2. o \in Nat /\ o < M /\ r[o + 1] # f[o] /\ o + 1 \in 1..M
    BY <1>1
  <2>3. ASSUME NEW p \in Nat, p < o PROVE r[p + 1] = f[p]
    BY <1>1, <2>1, <2>2, <2>3
  <2> HIDE DEF Bad
  <2>4. r[o + 1] \in K /\ r[o + 1] \in Nat /\ r[o + 1] <= N /\ f[o] \in Nat
    BY <1>1, <1>a, <2>2
  <2>5. CASE r[o + 1] < f[o]
    <3>1. PICK p \in Nat : f[p] = r[o + 1]
      BY <1>a, <2>4
    <3>2. ~(o < p) /\ p # o
      <4>1. o < p => f[o] < f[p]
        BY <1>a, <2>2
      <4>2. QED
        BY <2>4, <2>5, <3>1, <4>1
    <3>3. p < o
      BY <2>2, <3>2
    <3>4. r[p + 1] = r[o + 1]
      BY <2>3, <3>1, <3>3
    <3>5. p + 1 \in 1..M /\ p + 1 < o + 1
      BY <1>1, <2>2, <3>3
    <3>6. r[p + 1] < r[o + 1]
      BY <1>2, <2>2, <3>5
    <3>7. QED
      BY <2>4, <3>4, <3>6
  <2>6. CASE f[o] < r[o + 1]
    <3>1. f[o] \in K
      BY <1>a, <2>2, <2>4, <2>6
    <3>2. PICK i \in 1..M : r[i] = f[o]
      BY <1>3, <3>1
    <3>3. i < o + 1
      <4>1. o + 1 < i => r[o + 1] < r[i]
        BY <1>2, <2>2
      <4>2. i # o + 1
        BY <2>2, <3>2
      <4>3. QED
        BY <1>1, <2>2, <2>4, <2>6, <3>2, <4>1, <4>2
    <3> DEFINE p == i - 1
    <3>4. p \in Nat /\ p < o /\ p + 1 = i
      BY <1>1, <2>2, <3>3
    <3> HIDE DEF p
    <3>5. f[p] = f[o]
      BY <2>3, <3>2, <3>4
    <3>6. f[p] < f[o]
      BY <1>a, <2>2, <3>4
    <3>7. QED
      BY <2>4, <3>5, <3>6
  <2>7. QED
    BY <2>2, <2>4, <2>5, <2>6
<1>5. QED
  <2> HIDE DEF Bad
  <2>1. \A o \in 0 .. M - 1 : o \in Nat /\ o < M /\ o \notin Bad
    BY <1>1, <1>4
  <2>2. QED
    BY <2>1 DEF Bad, M, IsRun

(* The folded text has the tokens that lie in no gap, in their order, and   *)
(* an offset of it is led back to where its token was.                     *)
LEMMA FoldedIs ==
    ASSUME NEW t \in Texts
    PROVE  /\ Fold(t) \in Texts
           /\ \A o \in 0 .. Len(Fold(t)) - 1 :
                 /\ ToOriginal(t, o) \in 0 .. Len(t) - 1
                 /\ Fold(t)[o + 1] = t[ToOriginal(t, o) + 1]
<1> DEFINE N == Len(t)
           K == {q \in DOMAIN t : \A p \in Bridged(t) : q <= p \/ q > GapEnd(t, p)}
           kept == Ascending(K, N)
           f == [o \in Nat |-> ToOriginal(t, o) + 1]
<1>1. N \in Nat /\ DOMAIN t = 1..N /\ t \in Seq(Tokens)
  BY DEF Texts
<1>2. Fold(t) = [k \in DOMAIN kept |-> t[kept[k]]]
  BY DEF Fold
<1>3. IsRow(kept, K, N + 1)
  BY <1>1, AscendingIs
<1>4. PICK G, a, s, T : IsGapped(t, G, a, s, T) /\ Recorded(t, G, a, T)
  BY RemovalsAre
<1>5. G \in Nat /\ Spaced(a, s, T, G)
  BY <1>4 DEF IsGapped
<1>6. K \in SUBSET (1..N)
  BY <1>1
<1>7. \A q \in 1..N : q \in K <=> \A j \in 1..G : q <= a[j] \/ q > s[j]
  <2> SUFFICES ASSUME NEW q \in 1..N PROVE q \in K <=> \A j \in 1..G : q <= a[j] \/ q > s[j]
    OBVIOUS
  <2>1. q \in K <=> \A p \in Bridged(t) : q <= p \/ q > GapEnd(t, p)
    BY <1>1
  <2> HIDE DEF K
  <2>2. /\ \A k \in 1..G : a[k] \in Bridged(t) /\ s[k] = GapEnd(t, a[k])
        /\ \A p \in Bridged(t) : \E k \in 1..G : a[k] = p
    BY <1>4 DEF IsGapped
  <2>3. ASSUME q \in K, NEW j \in 1..G PROVE q <= a[j] \/ q > s[j]
    BY <2>1, <2>2, <2>3
  <2>4. ASSUME \A j \in 1..G : q <= a[j] \/ q > s[j], NEW p \in Bridged(t)
        PROVE  q <= p \/ q > GapEnd(t, p)
    <3>1. PICK k \in 1..G : a[k] = p /\ s[k] = GapEnd(t, p)
      BY <2>2
    <3>2. QED
      BY <2>4, <3>1
  <2>5. QED
    BY <2>1, <2>3, <2>4
<1> HIDE DEF K, kept, N
<1>8. \A o \in Nat : \E k \in 0..G : Behind(a, T, G, k, o) /\ ToOriginal(t, o) = o + T[k] /\ T[k] \in Nat
  <2> SUFFICES ASSUME NEW o \in Nat
               PROVE  \E k \in 0..G : Behind(a, T, G, k, o) /\ ToOriginal(t, o) = o + T[k] /\ T[k] \in Nat
    OBVIOUS
  <2>1. PICK k \in 0..G : Behind(a, T, G, k, o) /\ ToOriginal(t, o) = o + T[k]
    BY <1>4, ToOriginalIs
  <2>2. T[k] \in Nat
    BY <1>5, SpacedIs
  <2>3. QED
    BY <2>1, <2>2
<1>9. \A o \in Nat : f[o] = ToOriginal(t, o) + 1
  OBVIOUS
<1> HIDE DEF f
<1>10. ASSUME NEW o \in Nat PROVE f[o] \in Nat /\ (f[o] <= N => f[o] \in K)
  <2>1. PICK k \in 0..G : Behind(a, T, G, k, o) /\ ToOriginal(t, o) = o + T[k] /\ T[k] \in Nat
    BY <1>8
  <2>2. f[o] = o + T[k] + 1 /\ f[o] \in Nat /\ f[o] >= 1
    BY <1>9, <2>1
  <2>3. \A j \in 1..G : f[o] <= a[j] \/ f[o] > s[j]
    BY <1>5, <2>1, <2>2, BackOutside
  <2>4. ASSUME f[o] <= N PROVE f[o] \in K
    <3>1. f[o] \in 1..N
      BY <1>1, <2>2, <2>4
    <3>2. QED
      BY <1>7, <2>3, <3>1
  <2>5. QED
    BY <2>2, <2>4
<1>11. ASSUME NEW q \in K PROVE \E o \in Nat : f[o] = q
  <2>1. q \in 1..N /\ q \in Nat /\ q # 0
    BY <1>1, <1>6
  <2>2. \A j \in 1..G : q <= a[j] \/ q > s[j]
    BY <1>7, <2>1
  <2>3. PICK k \in 0..G, o \in Nat : Behind(a, T, G, k, o) /\ q = o + T[k] + 1
    BY <1>5, <2>1, <2>2, BackReaches
  <2>4. PICK m \in 0..G : Behind(a, T, G, m, o) /\ ToOriginal(t, o) = o + T[m] /\ T[m] \in Nat
    BY <1>8
  <2>a. T[k] \in Nat
    BY <1>5, SpacedIs
  <2>5. T[m] = T[k]
    <3>1. k \in Nat /\ m \in Nat
      OBVIOUS
    <3>2. ASSUME NEW x \in 0..G, NEW y \in 0..G, Behind(a, T, G, x, o), Behind(a, T, G, y, o), x < y
          PROVE  FALSE
      <4>1. x + 1 \in 1..G /\ x # G /\ y # 0 /\ y \in 1..G /\ (x + 1) - 1 = x /\ x + 1 <= y /\ y - 1 \in 0..G
        BY <1>5, <3>2
      <4>2. o < a[x + 1] - T[x] /\ a[y] - T[y - 1] <= o
        BY <3>2, <4>1 DEF Behind
      <4>3. a[x + 1] - T[(x + 1) - 1] <= a[y] - T[y - 1]
        BY <1>5, <4>1, SpacedIs
      <4>4. a[x + 1] \in Nat /\ a[y] \in Nat /\ T[y - 1] \in Nat /\ T[x] \in Nat
        BY <1>5, <4>1, SpacedIs DEF Spaced
      <4>5. QED
        BY <4>1, <4>2, <4>3, <4>4
    <3>3. ~(k < m) /\ ~(m < k)
      BY <2>3, <2>4, <3>2
    <3>4. k = m
      BY <3>1, <3>3
    <3>5. QED
      BY <3>4
  <2>6. f[o] = q
    BY <1>9, <2>3, <2>4, <2>5
  <2>7. QED
    BY <2>6
<1>12. ASSUME NEW o \in Nat, NEW p \in Nat, o < p PROVE f[o] < f[p]
  <2>1. PICK k \in 0..G : Behind(a, T, G, k, o) /\ ToOriginal(t, o) = o + T[k] /\ T[k] \in Nat
    BY <1>8
  <2>2. PICK m \in 0..G : Behind(a, T, G, m, p) /\ ToOriginal(t, p) = p + T[m] /\ T[m] \in Nat
    BY <1>8
  <2>3. o + T[k] < p + T[m]
    BY <1>5, <1>12, <2>1, <2>2, BackInOrder
  <2>4. QED
    BY <1>9, <2>1, <2>2, <2>3
<1>a. RunsThrough(f, K, N)
  BY <1>10, <1>11, <1>12 DEF RunsThrough
<1>13. \A o \in 0 .. Len(kept) - 1 : kept[o + 1] = f[o]
  <2> HIDE DEF K, N, kept
  <2>1. IsRun(kept, f)
    BY <1>1, <1>3, <1>6, <1>a, RowRuns
  <2>2. QED
    BY <2>1 DEF IsRun
<1>14. Len(kept) \in Nat /\ DOMAIN kept = 1..Len(kept) /\ \A k \in 1..Len(kept) : kept[k] \in 1..N
  <2>1. kept \in Seq(Nat) /\ \A k \in 1..Len(kept) : kept[k] \in K
    BY <1>3 DEF IsRow
  <2>2. QED
    BY <1>6, <2>1
<1>15. \A k \in 1..Len(kept) : Fold(t)[k] = t[kept[k]] /\ t[kept[k]] \in Tokens
  BY <1>1, <1>2, <1>14
<1>16. Fold(t) = [k \in 1..Len(kept) |-> Fold(t)[k]]
  BY <1>2, <1>14, <1>15
<1>17. Fold(t) \in Seq(Tokens) /\ Len(Fold(t)) = Len(kept)
  BY <1>14, <1>15, <1>16
<1>18. ASSUME NEW o \in 0 .. Len(kept) - 1
       PROVE  ToOriginal(t, o) \in 0 .. N - 1 /\ Fold(t)[o + 1] = t[ToOriginal(t, o) + 1]
  <2>1. o \in Nat /\ o + 1 \in 1..Len(kept)
    BY <1>14
  <2>2. kept[o + 1] = ToOriginal(t, o) + 1 /\ ToOriginal(t, o) \in Nat
    <3>1. kept[o + 1] = f[o]
      BY <1>13
    <3>2. PICK k \in 0..G : ToOriginal(t, o) = o + T[k] /\ T[k] \in Nat
      BY <1>8, <2>1
    <3>3. f[o] = ToOriginal(t, o) + 1
      BY <1>9, <2>1
    <3>4. QED
      BY <2>1, <3>1, <3>2, <3>3
  <2>3. kept[o + 1] \in 1..N
    BY <1>14, <2>1
  <2>4. QED
    BY <1>1, <1>15, <2>1, <2>2, <2>3
<1>19. QED
  BY <1>17, <1>18 DEF N, Texts

(* The newlines of a text up to an offset.                                 *)
Breaks(t, o) == {q \in 1..o : t[q] = NL}

(* In front of a line there is a newline for each line before it.          *)
LEMMA BreaksCount ==
    ASSUME NEW t \in Texts, NEW L, IsLines(L, t), NEW l \in 1..Len(L)
    PROVE  IsFiniteSet(Breaks(t, L[l][1])) /\ Cardinality(Breaks(t, L[l][1])) = l - 1
<1> DEFINE B(n) == Breaks(t, L[n][1])
           Good(n) == IsFiniteSet(B(n)) /\ Cardinality(B(n)) = n - 1
           T == {n \in Nat : n + 1 <= Len(L) => Good(n + 1)}
<1>1. Len(L) \in Nat
  BY DEF IsLines
<1>2. 0 \in T
  <2> SUFFICES ASSUME 1 <= Len(L) PROVE Good(1)
    OBVIOUS
  <2>1. t # <<>>
    <3> SUFFICES ASSUME t = <<>> PROVE FALSE
      OBVIOUS
    <3>1. 1 \in 1..Len(L)
      BY <1>1
    <3>2. L[1][1] \in Nat /\ L[1][2] \in Nat /\ L[1][1] < L[1][2] /\ L[1][2] <= Len(t)
      BY <3>1 DEF IsLines
    <3>3. Len(t) = 0
      OBVIOUS
    <3>4. QED
      BY <3>2, <3>3
  <2>2. L[1][1] = 0
    BY <2>1 DEF IsLines
  <2>3. B(1) = {}
    BY <2>2 DEF Breaks
  <2>4. QED
    BY <2>3, FS_EmptySet
<1>3. ASSUME NEW n \in T PROVE n + 1 \in T
  <2> DEFINE m == n + 1
  <2> SUFFICES ASSUME m + 1 <= Len(L) PROVE Good(m + 1)
    OBVIOUS
  <2>1. n \in Nat /\ m \in 1..Len(L) /\ m + 1 \in 1..Len(L) /\ m # Len(L) /\ m - 1 = n
    BY <1>1
  <2>2. Good(m)
    BY <1>1, <2>1
  <2> HIDE DEF m
  <2>3. /\ L[m][1] \in Nat /\ L[m][2] \in Nat /\ L[m][1] < L[m][2] /\ L[m][2] = L[m + 1][1]
        /\ \A q \in L[m][1] + 1 .. L[m][2] - 1 : t[q] # NL
    BY <2>1 DEF IsLines
  <2>4. t[L[m][2]] = NL
    <3>1. L[m + 1][1] = 0 \/ t[L[m + 1][1]] = NL
      BY <2>1 DEF IsLines
    <3>2. QED
      BY <2>3, <3>1
  <2> DEFINE x == L[m][1]
             y == L[m][2]
  <2>5. Breaks(t, y) = Breaks(t, x) \cup {y}
    <3>1. /\ x \in Nat /\ y \in Nat /\ x < y /\ t[y] = NL
          /\ \A q \in x + 1 .. y - 1 : t[q] # NL
      BY <2>3, <2>4
    <3> HIDE DEF x, y
    <3>2. \A q \in 1..y : q \in 1..x \/ q \in x + 1 .. y - 1 \/ q = y
      BY <3>1
    <3>3. \A q \in 1..x : q \in 1..y
      BY <3>1
    <3>4. y \in 1..y
      BY <3>1
    <3>5. QED
      BY <3>1, <3>2, <3>3, <3>4 DEF Breaks
  <2>6. y \notin Breaks(t, x)
    BY <2>3 DEF Breaks
  <2>7. B(m + 1) = B(m) \cup {y} /\ y \notin B(m)
    BY <2>3, <2>5, <2>6
  <2> HIDE DEF B, x, y
  <2>8. IsFiniteSet(B(m + 1)) /\ Cardinality(B(m + 1)) = Cardinality(B(m)) + 1
    BY <2>2, <2>7, FS_AddElement
  <2>9. Cardinality(B(m + 1)) = (m + 1) - 1
    BY <2>1, <2>2, <2>8
  <2>10. QED
    BY <2>8, <2>9
<1>4. T = Nat
  <2> HIDE DEF T
  <2>1. T \in SUBSET Nat
    BY DEF T
  <2>2. QED
    BY <1>2, <1>3, <2>1, Taking!Grows
<1>5. Good(l)
  <2> HIDE DEF Good
  <2>1. l - 1 \in Nat /\ (l - 1) + 1 = l
    BY <1>1
  <2>2. l - 1 \in T
    BY <1>4, <2>1
  <2>3. (l - 1) + 1 <= Len(L) => Good((l - 1) + 1)
    BY <2>2
  <2>4. QED
    BY <1>1, <2>1, <2>3
<1>6. QED
  BY <1>5

(* The token behind an offset is in the line LineOf says.                  *)
LEMMA LineOfIs ==
    ASSUME NEW t \in Texts, NEW o \in 0 .. Len(t) - 1
    PROVE  /\ LineOf(t, o) \in DOMAIN Lines(t)
           /\ t[o + 1] \in Range(Slice(t, Lines(t)[LineOf(t, o)]))
<1> DEFINE L == Lines(t)
           M == Len(L)
           K == {k \in 1..M : L[k][1] <= o}
           l == Highest(K)
<1>1. IsLines(L, t)
  BY LinesAre
<1>2. Len(t) \in Nat /\ t # <<>> /\ t \in Seq(Tokens) /\ o \in Nat /\ o < Len(t)
  BY DEF Texts
<1> HIDE DEF L
<1>3. M \in Nat /\ 1 \in 1..M /\ L[1][1] = 0 /\ DOMAIN L = 1..M
  <2>1. Len(L) \in Nat /\ DOMAIN L = 1..Len(L)
    BY <1>1 DEF IsLines
  <2>2. Len(L) # 0 /\ L[1][1] = 0
    BY <1>1, <1>2 DEF IsLines
  <2>3. QED
    BY <2>1, <2>2
<1>4. l \in K /\ \A k \in K : k <= l
  <2>1. 1 \in K
    BY <1>2, <1>3
  <2>2. QED
    BY <1>3, <2>1, HighestIs
<1> HIDE DEF l
<1>5. l \in 1..M /\ L[l][1] <= o
  BY <1>4
<1>6. /\ L[l][1] \in Nat /\ L[l][2] \in Nat /\ L[l][1] < L[l][2] /\ L[l][2] <= Len(t)
      /\ \A q \in L[l][1] + 1 .. L[l][2] - 1 : t[q] # NL
      /\ IF l = M THEN L[l][2] = Len(t) ELSE L[l][2] = L[l + 1][1]
  BY <1>1, <1>5 DEF IsLines
<1>7. o < L[l][2]
  <2>1. CASE l = M
    BY <1>2, <1>6, <2>1
  <2>2. CASE l # M
    <3>1. l + 1 \in 1..M /\ l + 1 \notin K
      <4>1. l + 1 \in 1..M
        BY <1>3, <1>5, <2>2
      <4>2. ~(l + 1 <= l)
        BY <1>5
      <4>3. QED
        BY <1>4, <4>1, <4>2
    <3>2. ~(L[l + 1][1] <= o)
      BY <3>1
    <3>3. QED
      BY <1>2, <1>6, <2>2, <3>2
  <2>3. QED
    BY <2>1, <2>2
<1>8. Breaks(t, o) = Breaks(t, L[l][1])
  <2> DEFINE x == L[l][1]
             y == L[l][2]
  <2>1. x \in Nat /\ y \in Nat /\ x <= o /\ o < y /\ \A q \in x + 1 .. y - 1 : t[q] # NL
    BY <1>5, <1>6, <1>7
  <2> HIDE DEF x, y
  <2>2. \A q \in 1..o : q \in 1..x \/ q \in x + 1 .. y - 1
    BY <1>2, <2>1
  <2>3. \A q \in 1..x : q \in 1..o
    BY <1>2, <2>1
  <2>4. Breaks(t, o) = Breaks(t, x)
    BY <2>1, <2>2, <2>3 DEF Breaks
  <2>5. QED
    BY <2>4 DEF x
<1>9. Cardinality(Breaks(t, L[l][1])) = l - 1
  BY <1>1, <1>5, BreaksCount
<1>10. LineOf(t, o) = l
  <2>1. LineOf(t, o) = Cardinality(Breaks(t, o)) + 1
    BY DEF LineOf, Breaks
  <2>2. QED
    BY <1>5, <1>8, <1>9, <2>1
<1>11. t[o + 1] \in Range(Slice(t, L[l]))
  <2> DEFINE x == L[l][1]
             y == L[l][2]
             u == SubSeq(t, x + 1, y)
  <2>1. x \in Nat /\ y \in Nat /\ x <= o /\ o < y /\ y <= Len(t)
    BY <1>5, <1>6, <1>7
  <2>2. Slice(t, L[l]) = u
    BY DEF Slice
  <2> HIDE DEF x, y
  <2>3. u \in Seq(Tokens) /\ Len(u) = y - x /\ \A i \in 1 .. y - x : u[i] = t[x + i]
    BY <1>2, <2>1
  <2>4. o + 1 - x \in 1 .. y - x /\ x + (o + 1 - x) = o + 1
    BY <1>2, <2>1
  <2> HIDE DEF u
  <2>5. u[o + 1 - x] = t[o + 1] /\ o + 1 - x \in DOMAIN u
    BY <2>3, <2>4
  <2>6. QED
    BY <2>2, <2>5 DEF Range
<1>12. QED
  BY <1>3, <1>5, <1>10, <1>11 DEF L

(* Keywords of a search: there is one, none is empty, and they cannot       *)
(* overlap.                                                                *)
Proper(q) == q \in Seq(Texts) /\ q # <<>> /\ (\A j \in DOMAIN q : q[j] # <<>>) /\ Apart(q)

(* Where the first token of a keyword stands, which keyword m[2] it is.     *)
Begins(t, q, m) == m[1] \in 0 .. Len(t) - 1 /\ m[2] \in DOMAIN q /\ t[m[1] + 1] = Head(q[m[2]])

(* A match begins with its keyword.                                        *)
LEMMA MatchBegins ==
    ASSUME NEW t \in Texts, NEW q, Proper(q), NEW m, IsMatch(t, q, m)
    PROVE  Begins(t, q, m)
<1>1. m[2] \in DOMAIN q /\ q[m[2]] \in Texts /\ q[m[2]] # <<>> /\ m[1] \in 0..Len(t) /\ Occurs(t, q[m[2]], m[1])
  BY DEF IsMatch, Proper
<1> DEFINE w == q[m[2]]
           p == m[1]
<1>2. Len(t) \in Nat /\ Len(w) \in Nat /\ Len(w) > 0 /\ p \in Nat
  <2>1. w \in Seq(Tokens) /\ w # <<>> /\ t \in Seq(Tokens)
    BY <1>1 DEF Texts
  <2>2. QED
    BY <1>1, <2>1
<1>3. w \in Texts /\ Occurs(t, w, p)
  BY <1>1
<1> HIDE DEF w, p
<1>4. p + Len(w) <= Len(t) /\ \A i \in 1..Len(w) : t[p + i] = w[i]
  BY <1>2, <1>3, OccursIs
<1>5. p \in 0 .. Len(t) - 1 /\ t[p + 1] = Head(w)
  BY <1>2, <1>4
<1>6. QED
  BY <1>1, <1>5 DEF Begins, w, p

(* Every hit of a search begins with its keyword, in the text as it is or   *)
(* in the text with its gaps closed, led back.                             *)
LEMMA HitsBegin ==
    ASSUME NEW t \in Texts, NEW q, Proper(q)
    PROVE  \A m \in Hits(t, q) : Begins(LowerAscii(t), q, m)
<1>1. q \in Seq(Texts) /\ Apart(q) /\ \A j \in DOMAIN q : q[j] # <<>>
  BY DEF Proper
<1>2. ASSUME NEW m \in Scan(t, q) PROVE Begins(LowerAscii(t), q, m)
  <2> DEFINE v == LowerAscii(t)
  <2>1. IsMatch(v, q, m)
    BY <1>1, ScanFinds
  <2>2. v \in Texts
    BY LowerAsciiIs
  <2> HIDE DEF v
  <2>3. Begins(v, q, m)
    BY <2>1, <2>2, MatchBegins
  <2>4. QED
    BY <2>3 DEF v
<1>3. ASSUME NEW m \in FoldedScan(t, q) PROVE Begins(LowerAscii(t), q, m)
  <2> DEFINE u == Fold(t)
             v == LowerAscii(u)
  <2>1. PICK n \in Scan(u, q) : m = <<ToOriginal(t, n[1]), n[2]>>
    BY DEF FoldedScan
  <2>2. u \in Texts /\ \A o \in 0 .. Len(u) - 1 : /\ ToOriginal(t, o) \in 0 .. Len(t) - 1
                                                  /\ u[o + 1] = t[ToOriginal(t, o) + 1]
    BY FoldedIs
  <2> HIDE DEF u
  <2>3. IsMatch(v, q, n)
    BY <1>1, <2>2, ScanFinds
  <2>a. /\ v \in Texts /\ Len(v) = Len(u)
        /\ \A k \in 1..Len(u) : v[k] = IF u[k] \in AsciiCapitals THEN SmallOf[u[k]] ELSE u[k]
    BY <2>2, LowerAsciiIs
  <2> HIDE DEF v
  <2>4. Begins(v, q, n)
    BY <2>3, <2>a, MatchBegins
  <2>5. m[1] = ToOriginal(t, n[1]) /\ m[2] = n[2]
    BY <2>1
  <2>6. n[1] \in 0 .. Len(u) - 1 /\ n[2] \in DOMAIN q /\ v[n[1] + 1] = Head(q[n[2]])
    BY <2>4, <2>a DEF Begins
  <2>7. m[1] \in 0 .. Len(t) - 1 /\ u[n[1] + 1] = t[m[1] + 1]
    BY <2>2, <2>5, <2>6
  <2> DEFINE w == LowerAscii(t)
  <2>8. /\ Len(w) = Len(t)
        /\ \A k \in 1..Len(t) : w[k] = IF t[k] \in AsciiCapitals THEN SmallOf[t[k]] ELSE t[k]
    BY LowerAsciiIs
  <2> HIDE DEF w
  <2>b. Len(t) \in Nat /\ Len(u) \in Nat
    BY <2>2 DEF Texts
  <2>9. n[1] + 1 \in 1..Len(u) /\ m[1] + 1 \in 1..Len(t)
    BY <2>6, <2>7, <2>b
  <2>10. v[n[1] + 1] = w[m[1] + 1]
    BY <2>7, <2>8, <2>9, <2>a
  <2>11. QED
    BY <2>5, <2>6, <2>7, <2>8, <2>10 DEF Begins, w
<1>4. Hits(t, q) \subseteq Scan(t, q) \cup FoldedScan(t, q)
  BY DEF Hits
<1>5. QED
  BY <1>2, <1>3, <1>4

(* A search finds a text exactly when each keyword is in it, as it stands   *)
(* or with its gaps closed.                                                *)
LEMMA FindsIs ==
    ASSUME NEW t \in Texts, NEW q, Proper(q)
    PROVE  Finds(t, q) <=> InBody(t, q)
<1> DEFINE R == Scan(t, q)
           F == FoldedScan(t, q)
           H == Hits(t, q)
           D == DOMAIN q
           Raw(j) == Holds(LowerAscii(t), q[j])
           Shut(j) == Holds(LowerAscii(Fold(t)), q[j])
<1>1. q \in Seq(Texts) /\ Apart(q) /\ \A j \in D : q[j] # <<>>
  BY DEF Proper
<1>2. \A j \in D : (\E m \in R : m[2] = j) <=> Raw(j)
  BY <1>1, ScanFinds
<1>3. \A m \in R : m[2] \in D
  BY <1>1, ScanFinds DEF IsMatch
<1>4. Fold(t) \in Texts
  BY FoldedIs
<1>5. \A j \in D : (\E m \in F : m[2] = j) <=> Shut(j)
  <2> SUFFICES ASSUME NEW j \in D PROVE (\E m \in F : m[2] = j) <=> Shut(j)
    OBVIOUS
  <2>1. (\E n \in Scan(Fold(t), q) : n[2] = j) <=> Shut(j)
    BY <1>1, <1>4, ScanFinds
  <2>2. ASSUME NEW m \in F, m[2] = j PROVE \E n \in Scan(Fold(t), q) : n[2] = j
    <3>1. PICK n \in Scan(Fold(t), q) : m = <<ToOriginal(t, n[1]), n[2]>>
      BY DEF FoldedScan
    <3>2. QED
      BY <2>2, <3>1
  <2>3. ASSUME NEW n \in Scan(Fold(t), q), n[2] = j PROVE \E m \in F : m[2] = j
    <3>1. <<ToOriginal(t, n[1]), n[2]>> \in F
      BY DEF FoldedScan
    <3>2. QED
      BY <2>3, <3>1
  <2>4. QED
    BY <2>1, <2>2, <2>3
<1>6. \A m \in H : m[2] \in D
  BY HitsBegin DEF Begins
<1>7. H = IF HasCjk(q) /\ {m[2] : m \in R} # D THEN R \cup F ELSE R
  BY DEF Hits
<1>8. Finds(t, q) <=> \A j \in D : \E m \in H : m[2] = j
  <2>1. Finds(t, q) <=> {m[2] : m \in H} = D
    BY DEF Finds
  <2> HIDE DEF H, D
  <2>2. {m[2] : m \in H} = D <=> \A j \in D : \E m \in H : m[2] = j
    BY <1>6
  <2>3. QED
    BY <2>1, <2>2
<1>9. {m[2] : m \in R} = D <=> \A j \in D : Raw(j)
  <2> HIDE DEF R, D
  <2>1. {m[2] : m \in R} = D <=> \A j \in D : \E m \in R : m[2] = j
    BY <1>3
  <2>2. QED
    BY <1>2, <2>1
<1>10. InBody(t, q) <=> \A j \in D : Raw(j) \/ (HasCjk(q) /\ Shut(j))
  BY DEF InBody, Range
<1> HIDE DEF R, F, H, D, Raw, Shut
<1>11. CASE HasCjk(q) /\ {m[2] : m \in R} # D
  <2>1. H = R \cup F
    BY <1>7, <1>11
  <2>2. \A j \in D : (\E m \in H : m[2] = j) <=> Raw(j) \/ Shut(j)
    BY <1>2, <1>5, <2>1
  <2>3. QED
    BY <1>8, <1>10, <1>11, <2>2
<1>12. CASE ~(HasCjk(q) /\ {m[2] : m \in R} # D)
  <2>1. H = R
    BY <1>7, <1>12
  <2>2. \A j \in D : (\E m \in H : m[2] = j) <=> Raw(j)
    BY <1>2, <2>1
  <2>3. QED
    BY <1>8, <1>9, <1>10, <1>12, <2>2
<1>13. QED
  BY <1>11, <1>12

(* A search that finds a text shows a line where one of its keywords        *)
(* begins.                                                                 *)
LEMMA SnippetShows ==
    ASSUME NEW t \in Texts, NEW q, Proper(q), InBody(t, q)
    PROVE  \E l \in Snippet(t, q, 0), w \in Range(q) :
               Head(w) \in Range(LowerAscii(Slice(t, Lines(t)[l])))
<1> DEFINE Ls == HitLines(t, q)
           first == CHOOSE l \in Ls : \A k \in Ls : l <= k
<1>1. 1 \in DOMAIN q
  <2>1. q \in Seq(Texts) /\ q # <<>>
    BY DEF Proper
  <2>2. QED
    BY <2>1
<1>2. PICK m \in Hits(t, q) : m[2] = 1
  <2>1. {n[2] : n \in Hits(t, q)} = DOMAIN q
    BY FindsIs DEF Finds
  <2>2. QED
    BY <1>1, <2>1
<1>3. \A n \in Hits(t, q) : Begins(LowerAscii(t), q, n)
  BY HitsBegin
<1>a. /\ Len(LowerAscii(t)) = Len(t)
      /\ \A k \in 1..Len(t) :
            LowerAscii(t)[k] = IF t[k] \in AsciiCapitals THEN SmallOf[t[k]] ELSE t[k]
  BY LowerAsciiIs
<1>4. \A n \in Hits(t, q) : n[1] \in 0 .. Len(t) - 1
  BY <1>3, <1>a DEF Begins
<1>5. IsLines(Lines(t), t)
  BY LinesAre
<1>6. Len(Lines(t)) \in Nat /\ DOMAIN Lines(t) = 1..Len(Lines(t))
  BY <1>5 DEF IsLines
<1>7. \A n \in Hits(t, q) : LineOf(t, n[1]) \in DOMAIN Lines(t)
  BY <1>4, LineOfIs
<1>8. Ls \in SUBSET Nat /\ Ls \subseteq DOMAIN Lines(t) /\ Ls # {}
  BY <1>2, <1>6, <1>7 DEF HitLines
<1>9. \E l \in Ls : \A k \in Ls : l <= k
  <2> HIDE DEF Ls
  <2>1. QED
    BY <1>8, Taking!Least
<1>10. first \in Ls
  <2> HIDE DEF Ls
  <2>1. QED
    BY <1>9
<1>11. Snippet(t, q, 0) = {l \in DOMAIN Lines(t) : l + 0 >= first /\ l <= first + 0}
  BY DEF Snippet
<1>12. PICK n \in Hits(t, q) : first = LineOf(t, n[1])
  BY <1>10 DEF HitLines
<1> HIDE DEF first, Ls
<1>13. first \in Nat /\ first \in DOMAIN Lines(t)
  BY <1>8, <1>10
<1>14. first \in Snippet(t, q, 0)
  BY <1>11, <1>13
<1>b. n[1] + 1 \in 1..Len(t)
  <2>1. Len(t) \in Nat
    BY DEF Texts
  <2>2. QED
    BY <1>4, <2>1
<1>15. n[2] \in DOMAIN q /\ LowerAscii(t)[n[1] + 1] = Head(q[n[2]])
  BY <1>3 DEF Begins
<1>16. t[n[1] + 1] \in Range(Slice(t, Lines(t)[first]))
  BY <1>4, <1>12, LineOfIs
<1>c. Head(q[n[2]]) \in Range(LowerAscii(Slice(t, Lines(t)[first])))
  <2> DEFINE v == Slice(t, Lines(t)[first])
             x == t[n[1] + 1]
             y == Head(q[n[2]])
  <2>1. y = IF x \in AsciiCapitals THEN SmallOf[x] ELSE x
    BY <1>a, <1>b, <1>15
  <2>2. x \in Range(v)
    BY <1>16
  <2> HIDE DEF v, x, y
  <2>3. PICK k \in DOMAIN v : v[k] = x
    BY <2>2 DEF Range
  <2>4. LowerAscii(v) = [l \in DOMAIN v |-> IF v[l] \in AsciiCapitals THEN SmallOf[v[l]] ELSE v[l]]
    BY DEF LowerAscii, LowerOnly
  <2>5. k \in DOMAIN LowerAscii(v) /\ LowerAscii(v)[k] = y
    BY <2>1, <2>3, <2>4
  <2>6. y \in Range(LowerAscii(v))
    BY <2>5 DEF Range
  <2>7. QED
    BY <2>6 DEF v, y
<1>17. q[n[2]] \in Range(q)
  BY <1>15 DEF Range
<1>18. QED
  BY <1>14, <1>c, <1>17

(* A set of numbers has one row.                                           *)
LEMMA RowsAgree ==
    ASSUME NEW S, NEW k \in Nat, \A p \in S : p \in Nat /\ p < k,
           NEW a, NEW b, IsRow(a, S, k), IsRow(b, S, k)
    PROVE  a = b
<1> DEFINE Place(n) == [start |-> n, stop |-> n + 1]
           Line(r) == [i \in 1..Len(r) |-> Place(r[i])]
           C == [start : Nat, stop : Nat]
<1>1. ASSUME NEW r, IsRow(r, S, k)
      PROVE  /\ r \in Seq(Nat) /\ Len(r) \in Nat /\ DOMAIN r = 1..Len(r) /\ \A i \in 1..Len(r) : r[i] \in Nat
             /\ Line(r) \in Seq(C) /\ Len(Line(r)) = Len(r) /\ InLine(Line(r))
             /\ \A i \in 1..Len(r) : Line(r)[i] = Place(r[i])
  <2>1. r \in Seq(Nat) /\ \A i, j \in 1..Len(r) : i < j => r[i] < r[j]
    BY <1>1 DEF IsRow
  <2>2. Len(r) \in Nat /\ DOMAIN r = 1..Len(r) /\ \A i \in 1..Len(r) : r[i] \in Nat
    BY <2>1
  <2> DEFINE u == Line(r)
  <2>3. u \in Seq(C) /\ Len(u) = Len(r) /\ \A i \in 1..Len(r) : u[i] = Place(r[i])
    <3>1. \A i \in 1..Len(r) : Place(r[i]) \in C
      BY <2>2
    <3> HIDE DEF Place
    <3>2. QED
      BY <2>2, <3>1
  <2> HIDE DEF u
  <2>4. \A i \in 1..Len(u) : u[i].start = r[i] /\ u[i].stop = r[i] + 1
    <3> SUFFICES ASSUME NEW i \in 1..Len(u) PROVE u[i].start = r[i] /\ u[i].stop = r[i] + 1
      OBVIOUS
    <3>1. u[i] = [start |-> r[i], stop |-> r[i] + 1]
      BY <2>3
    <3>2. QED
      BY <3>1
  <2> HIDE DEF Place
  <2>5. InLine(u)
    <3>1. \A i \in 1..Len(u) : r[i] \in Nat
      BY <2>2, <2>3
    <3>2. \A i, j \in 1..Len(u) : i < j => r[i] < r[j]
      BY <2>1, <2>3
    <3>3. \A i, j \in 1..Len(u) : i < j => u[i].stop <= u[j].start
      BY <2>4, <3>1, <3>2
    <3>4. \A i \in 1..Len(u) : u[i].start \in Nat /\ u[i].stop \in Nat /\ u[i].start < u[i].stop
      BY <2>4, <3>1
    <3>5. QED
      BY <3>3, <3>4 DEF InLine
  <2>6. QED
    BY <2>1, <2>2, <2>3, <2>5 DEF u
<1>2. \A i \in 1..Len(a) : \E j \in 1..Len(b) : b[j] = a[i]
  BY DEF IsRow
<1>3. \A i \in 1..Len(b) : \E j \in 1..Len(a) : a[j] = b[i]
  BY DEF IsRow
<1> DEFINE u == Line(a)
           v == Line(b)
<1>4. /\ u \in Seq(C) /\ Len(u) = Len(a) /\ InLine(u) /\ \A i \in 1..Len(a) : u[i] = Place(a[i])
      /\ v \in Seq(C) /\ Len(v) = Len(b) /\ InLine(v) /\ \A i \in 1..Len(b) : v[i] = Place(b[i])
  BY <1>1
<1> HIDE DEF u, v, C, Line
<1>5. SameMembers(u, v)
  <2> HIDE DEF Place
  <2>1. QED
    BY <1>2, <1>3, <1>4 DEF SameMembers
<1>6. u = v
  BY <1>4, <1>5, LinesAgree
<1>7. Len(a) = Len(b) /\ \A i \in 1..Len(a) : a[i] = b[i]
  <2>1. Len(a) = Len(b)
    BY <1>4, <1>6
  <2>2. \A i \in 1..Len(a) : Place(a[i]) = Place(b[i])
    <3> HIDE DEF Place
    <3>1. QED
      BY <1>4, <1>6, <2>1
  <2>3. \A i \in 1..Len(a) : Place(a[i]).start = a[i] /\ Place(b[i]).start = b[i]
    OBVIOUS
  <2> HIDE DEF Place
  <2>4. QED
    BY <2>1, <2>2, <2>3
<1>8. a \in Seq(Nat) /\ b \in Seq(Nat)
  BY DEF IsRow
<1>9. QED
  BY <1>7, <1>8, SMTT(60)

-----------------------------------------------------------------------------
(* Searches: their pages. *)

(* The numbers of K behind c in their order.                               *)
Beyond(K, c, N) == Ascending({k \in K : k > c}, N)

(* Behind the last number of a page the row goes on as it did.             *)
LEMMA PageEnds ==
    ASSUME NEW N \in Nat, NEW K \in SUBSET (1..N), NEW c \in 0..N, NEW i \in 1..Len(Beyond(K, c, N))
    PROVE  LET r == Beyond(K, c, N) IN
           /\ r[i] \in 1..N /\ r[i] > c
           /\ Beyond(K, r[i], N) = SubSeq(r, i + 1, Len(r))
<1> DEFINE S == {k \in K : k > c}
           r == Ascending(S, N)
           d == r[i]
           D == {k \in K : k > d}
           e == Ascending(D, N)
           u == SubSeq(r, i + 1, Len(r))
<1>1. IsRow(r, S, N + 1)
  BY AscendingIs
<1>2. i \in 1..Len(r)
  BY DEF Beyond
<1> HIDE DEF r
<1>3. r \in Seq(Nat) /\ Len(r) \in Nat /\ DOMAIN r = 1..Len(r) /\ \A j \in 1..Len(r) : r[j] \in S /\ r[j] \in Nat
  BY <1>1 DEF IsRow
<1>4. \A j, k \in 1..Len(r) : j < k => r[j] < r[k]
  BY <1>1 DEF IsRow
<1>5. d \in S /\ d \in K /\ d \in 1..N /\ d > c /\ d = r[i]
  BY <1>2, <1>3
<1> HIDE DEF d
<1>6. IsRow(e, D, N + 1)
  BY AscendingIs
<1>7. u \in Seq(Nat) /\ Len(u) = Len(r) - i /\ \A j \in 1 .. Len(r) - i : u[j] = r[i + j]
  <2> HIDE DEF S
  <2>1. r \in Seq(Nat) /\ i \in Nat /\ i >= 1 /\ i <= Len(r) /\ Len(r) \in Nat
    BY <1>2, <1>3
  <2>2. QED
    BY ONLY <2>1
<1> HIDE DEF u, e
<1>8. \A j \in 1 .. Len(r) - i : i + j \in 1..Len(r) /\ i < i + j
  BY <1>2, <1>3
<1>9. \A j \in 1 .. Len(r) - i : u[j] \in D /\ u[j] < N + 1
  <2> SUFFICES ASSUME NEW j \in 1 .. Len(r) - i PROVE u[j] \in D /\ u[j] < N + 1
    OBVIOUS
  <2>1. i + j \in 1..Len(r) /\ i < i + j /\ u[j] = r[i + j]
    BY <1>7, <1>8
  <2>2. d < u[j] /\ u[j] \in S
    BY <1>2, <1>3, <1>4, <1>5, <2>1
  <2>3. u[j] \in K /\ u[j] \in 1..N
    BY <2>2
  <2>4. u[j] > d /\ u[j] < N + 1
    BY <1>5, <2>2, <2>3
  <2>5. QED
    BY <2>3, <2>4
<1>10. \A j, k \in 1 .. Len(r) - i : j < k => u[j] < u[k]
  <2> SUFFICES ASSUME NEW j \in 1 .. Len(r) - i, NEW k \in 1 .. Len(r) - i, j < k PROVE u[j] < u[k]
    OBVIOUS
  <2>1. i + j \in 1..Len(r) /\ i + k \in 1..Len(r) /\ i + j < i + k
    BY <1>2, <1>8
  <2>2. QED
    BY <1>4, <1>7, <2>1
<1>11. ASSUME NEW p \in D PROVE \E j \in 1 .. Len(r) - i : u[j] = p
  <2>1. p \in K /\ p > d /\ p \in 1..N
    OBVIOUS
  <2>2. p \in S /\ p \in Nat /\ p < N + 1
    BY <1>5, <2>1
  <2>3. PICK m \in 1..Len(r) : r[m] = p
    BY <1>1, <2>2 DEF IsRow
  <2>4. i < m
    <3>1. m # i
      BY <1>5, <2>1, <2>3
    <3>2. ~(m < i)
      <4> SUFFICES ASSUME m < i PROVE FALSE
        OBVIOUS
      <4>1. r[m] < r[i]
        BY <1>2, <1>4
      <4>2. QED
        BY <1>5, <2>1, <2>3, <4>1
    <3>3. QED
      BY <1>2, <3>1, <3>2
  <2>5. m - i \in 1 .. Len(r) - i /\ i + (m - i) = m
    BY <1>2, <1>3, <2>4
  <2>6. QED
    BY <1>7, <2>3, <2>5
<1>12. IsRow(u, D, N + 1)
  BY <1>7, <1>9, <1>10, <1>11 DEF IsRow
<1>13. \A p \in D : p \in Nat /\ p < N + 1
  OBVIOUS
<1> HIDE DEF D
<1>14. e = u
  <2>1. N + 1 \in Nat
    OBVIOUS
  <2>2. QED
    BY <1>6, <1>12, <1>13, <2>1, RowsAgree
<1>15. QED
  BY <1>5, <1>14 DEF Beyond, u, e, D, d, r, S

(* The listing has notes at its places.                                    *)
LEMMA ListingIs == Listing \in Seq(Notes)
<1> DEFINE n == Len(Spellings)
           f == [i \in 1..n |-> NoteOf[Spellings[i]]]
           C == Cardinality(Notes)
<1>1. Spellings \in Seq(Range(Spellings))
  BY InputAssumption
<1>2. n \in Nat /\ DOMAIN Spellings = 1..n
  BY <1>1
<1>3. f \in [1..n -> Notes] /\ \A m \in Notes : \E i \in 1..n : f[i] = m
  <2>1. \A i \in 1..n : Spellings[i] \in Range(Spellings)
    BY <1>2 DEF Range
  <2>2. \A i \in 1..n : f[i] \in Notes
    BY <2>1 DEF Notes
  <2>3. ASSUME NEW m \in Notes PROVE \E i \in 1..n : f[i] = m
    <3>1. PICK s \in Range(Spellings) : m = NoteOf[s]
      BY DEF Notes
    <3>2. PICK i \in 1..n : Spellings[i] = s
      BY <1>2 DEF Range
    <3>3. QED
      BY <3>1, <3>2
  <2>4. QED
    BY <2>2, <2>3
<1>4. f \in Surjection(1..n, Notes)
  BY <1>3 DEF Surjection
<1>5. IsFiniteSet(1..n)
  BY <1>2, FS_Interval
<1> HIDE DEF f, n
<1>6. IsFiniteSet(Notes)
  BY <1>4, <1>5, FS_Surjection
<1>7. C \in Nat /\ ExistsBijection(1..C, Notes)
  BY <1>6, FS_CardinalityType
<1>8. \E g \in [1..C -> Notes] : IsInjective(g)
  BY <1>7 DEF ExistsBijection, Bijection, Injection
<1>9. Listing \in [1..C -> Notes]
  BY <1>8 DEF Listing, SetToSeq
<1> HIDE DEF C
<1>10. QED
  BY <1>7, <1>9

(* What stands in the listing at the numbers of a row.                     *)
Listed(r) == [k \in DOMAIN r |-> Listing[r[k]]]

(* The page behind c of the notes at K, and the notes of a search's pages   *)
(* from a cursor on.                                                       *)
PageAt(K, limit, c) == PageOf(Beyond(K, c, Len(Listing)), limit)
IsPaging(f, q, filter, limit) ==
    f = [c \in 0..Len(Listing) |->
            LET page == SearchNotes(q, "content", filter, limit, c) IN
            page.items \o IF page.next = 0 THEN <<>> ELSE f[page.next]]

(* A page and what is behind it are what was behind the one before.        *)
LEMMA PageGoesOn ==
    ASSUME NEW K \in SUBSET (1..Len(Listing)), NEW limit \in Nat, limit # 0, NEW c \in 0..Len(Listing)
    PROVE  LET page == PageAt(K, limit, c)
               N == Len(Listing)
           IN  /\ page.next = 0 => page.items = Listed(Beyond(K, c, N)) /\ page.items \in Seq(Notes)
               /\ page.next # 0 =>
                     /\ page.next \in 1..N /\ page.next > c
                     /\ page.items \o Listed(Beyond(K, page.next, N)) = Listed(Beyond(K, c, N))
<1> DEFINE N == Len(Listing)
           r == Beyond(K, c, N)
           page == PageAt(K, limit, c)
           p == SubSeq(r, 1, limit)
<1>1. N \in Nat /\ DOMAIN Listing = 1..N /\ \A k \in 1..N : Listing[k] \in Notes
  BY ListingIs
<1>2. IsRow(r, {k \in K : k > c}, N + 1)
  BY <1>1, AscendingIs DEF Beyond
<1>3. page = [items |-> Listed(IF Len(r) > limit THEN p ELSE r),
              next |-> IF Len(r) > limit THEN Last(IF Len(r) > limit THEN p ELSE r) ELSE 0]
  BY DEF PageAt, PageOf, Listed
<1> HIDE DEF r, page, N
<1>4. r \in Seq(Nat) /\ Len(r) \in Nat /\ DOMAIN r = 1..Len(r) /\ \A k \in 1..Len(r) : r[k] \in 1..N
  <2>1. r \in Seq(Nat) /\ \A k \in 1..Len(r) : r[k] \in {j \in K : j > c}
    BY <1>2 DEF IsRow
  <2>2. QED
    BY <2>1 DEF N
<1>5. ASSUME NEW q \in Seq(Nat), \A k \in 1..Len(q) : q[k] \in 1..N
      PROVE  Listed(q) \in Seq(Notes) /\ Len(Listed(q)) = Len(q) /\ \A k \in 1..Len(q) : Listed(q)[k] = Listing[q[k]]
  <2>1. DOMAIN q = 1..Len(q) /\ Len(q) \in Nat
    OBVIOUS
  <2>2. Listed(q) = [k \in 1..Len(q) |-> Listing[q[k]]]
    BY <2>1 DEF Listed
  <2>3. \A k \in 1..Len(q) : Listing[q[k]] \in Notes
    BY <1>1, <1>5
  <2>4. QED
    BY <2>1, <2>2, <2>3
<1>6. CASE ~(Len(r) > limit)
  <2>1. page.next = 0 /\ page.items = Listed(r)
    BY <1>3, <1>6
  <2>2. Listed(r) \in Seq(Notes)
    BY <1>4, <1>5
  <2>3. QED
    BY <2>1, <2>2 DEF page, r, N
<1>7. CASE Len(r) > limit
  <2> DEFINE d == r[limit]
             u == SubSeq(r, limit + 1, Len(r))
  <2>1. limit \in 1..Len(r) /\ limit \in Nat
    BY <1>4, <1>7
  <2>2. p \in Seq(Nat) /\ Len(p) = limit /\ \A k \in 1..limit : p[k] = r[k]
    BY <1>4, <1>7
  <2>3. u \in Seq(Nat) /\ Len(u) = Len(r) - limit /\ \A k \in 1 .. Len(r) - limit : u[k] = r[limit + k]
    <3>1. r \in Seq(Nat) /\ limit \in Nat /\ limit >= 1 /\ limit <= Len(r) /\ Len(r) \in Nat
      BY <1>4, <2>1
    <3>2. QED
      BY ONLY <3>1, SMTT(60)
  <2> HIDE DEF p, u
  <2>4. page.next = d /\ page.items = Listed(p)
    BY <1>3, <1>7, <2>1, <2>2 DEF Last
  <2>5. d \in 1..N /\ d > c /\ Beyond(K, d, N) = u
    BY <1>1, <1>4, <2>1, PageEnds DEF r, u, N
  <2>6. Listed(p) \in Seq(Notes) /\ Len(Listed(p)) = limit /\ \A k \in 1..limit : Listed(p)[k] = Listing[r[k]]
    <3>1. \A k \in 1..Len(p) : p[k] \in 1..N
      BY <1>4, <1>7, <2>2
    <3>2. QED
      BY <1>5, <2>2, <3>1
  <2>7. /\ Listed(u) \in Seq(Notes) /\ Len(Listed(u)) = Len(r) - limit
        /\ \A k \in 1 .. Len(r) - limit : Listed(u)[k] = Listing[r[limit + k]]
    <3>1. \A k \in 1 .. Len(r) - limit : limit + k \in 1..Len(r)
      BY <1>4, <2>1
    <3>2. \A k \in 1..Len(u) : u[k] \in 1..N
      BY <1>4, <2>3, <3>1
    <3>3. QED
      BY <1>5, <2>3, <3>2
  <2>8. Listed(r) \in Seq(Notes) /\ Len(Listed(r)) = Len(r) /\ \A k \in 1..Len(r) : Listed(r)[k] = Listing[r[k]]
    BY <1>4, <1>5
  <2> DEFINE x == Listed(p)
             y == Listed(u)
             z == Listed(r)
  <2>9. /\ x \in Seq(Notes) /\ y \in Seq(Notes) /\ z \in Seq(Notes) /\ Len(x) = limit /\ Len(z) = Len(x) + Len(y)
        /\ \A k \in 1..Len(x) : z[k] = x[k]
        /\ \A k \in 1..Len(y) : z[Len(x) + k] = y[k]
    <3>1. x \in Seq(Notes) /\ y \in Seq(Notes) /\ z \in Seq(Notes) /\ Len(x) = limit /\ Len(y) = Len(r) - limit /\ Len(z) = Len(r)
      BY <2>6, <2>7, <2>8
    <3>2. \A k \in 1..limit : x[k] = Listing[r[k]] /\ k \in 1..Len(r)
      BY <1>4, <2>1, <2>6
    <3>3. \A k \in 1 .. Len(r) - limit : y[k] = Listing[r[limit + k]] /\ limit + k \in 1..Len(r)
      BY <1>4, <2>1, <2>7
    <3>4. \A k \in 1..Len(r) : z[k] = Listing[r[k]]
      BY <2>8
    <3> HIDE DEF x, y, z
    <3>5. Len(x) + Len(y) = Len(r)
      BY <1>4, <2>1, <3>1
    <3>6. QED
      BY <3>1, <3>2, <3>3, <3>4, <3>5
  <2> HIDE DEF x, y, z
  <2>10. x \o y = z
    BY ONLY <2>9, JoinedIs
  <2>11. QED
    BY <2>4, <2>5, <2>10 DEF x, y, z, page, r, N
<1>8. QED
  BY <1>6, <1>7

(* The pages from a cursor on list what is behind it.                       *)
LEMMA PagingIs ==
    ASSUME NEW K \in SUBSET (1..Len(Listing)), NEW limit \in Nat, limit # 0, NEW q, NEW filter,
           \A c \in 0..Len(Listing) : SearchNotes(q, "content", filter, limit, c) = PageAt(K, limit, c)
    PROVE  (CHOOSE f : IsPaging(f, q, filter, limit))[0] = Listed(Beyond(K, 0, Len(Listing)))
<1> DEFINE N == Len(Listing)
           P(c) == SearchNotes(q, "content", filter, limit, c)
           R(c) == Listed(Beyond(K, c, N))
           Turn(f, c) == P(c).items \o IF P(c).next = 0 THEN <<>> ELSE f[P(c).next]
           g == [c \in 0..N |-> R(c)]
           h == CHOOSE f : IsPaging(f, q, filter, limit)
<1>1. N \in Nat
  BY ListingIs
<1>2. ASSUME NEW c \in 0..N
      PROVE  /\ P(c).next = 0 => P(c).items = R(c) /\ P(c).items \in Seq(Notes)
             /\ P(c).next # 0 => P(c).next \in 1..N /\ P(c).next > c /\ P(c).items \o R(P(c).next) = R(c)
  <2>1. P(c) = PageAt(K, limit, c)
    OBVIOUS
  <2> HIDE DEF P
  <2>2. QED
    BY <2>1, PageGoesOn
<1>3. \A f : IsPaging(f, q, filter, limit) <=> f = [c \in 0..N |-> Turn(f, c)]
  BY DEF IsPaging
<1> HIDE DEF P, R, N
<1>4. ASSUME NEW f, NEW c \in 0..N, P(c).next # 0 => f[P(c).next] = R(P(c).next)
      PROVE  Turn(f, c) = R(c)
  <2>1. CASE P(c).next = 0
    <3> DEFINE x == P(c).items
    <3>1. x \in Seq(Notes) /\ x = R(c) /\ Turn(f, c) = x \o <<>>
      BY <1>2, <2>1
    <3> HIDE DEF x
    <3>2. x \o <<>> = x
      BY <3>1
    <3>3. QED
      BY <3>1, <3>2
  <2>2. CASE P(c).next # 0
    BY <1>2, <1>4, <2>2
  <2>3. QED
    BY <2>1, <2>2
<1>5. IsPaging(g, q, filter, limit)
  <2>1. \A c \in 0..N : Turn(g, c) = R(c)
    <3> SUFFICES ASSUME NEW c \in 0..N PROVE Turn(g, c) = R(c)
      OBVIOUS
    <3>0. 1..N \subseteq 0..N
      BY <1>1
    <3>1. P(c).next # 0 => P(c).next \in 0..N
      BY ONLY <1>2, <3>0, c \in 0..N
    <3>2. P(c).next # 0 => g[P(c).next] = R(P(c).next)
      BY <3>1
    <3> HIDE DEF g, Turn
    <3>3. QED
      BY <1>4, <3>2
  <2> HIDE DEF Turn
  <2>2. g = [c \in 0..N |-> Turn(g, c)]
    BY <2>1
  <2> HIDE DEF g
  <2>3. QED
    BY <1>3, <2>2
<1> HIDE DEF g
<1>6. IsPaging(h, q, filter, limit)
  BY <1>5
<1> HIDE DEF h
<1>7. \A c \in 0..N : h[c] = Turn(h, c)
  <2> HIDE DEF Turn
  <2>1. h = [c \in 0..N |-> Turn(h, c)]
    BY <1>3, <1>6
  <2>2. QED
    BY <2>1
<1> HIDE DEF Turn
<1> DEFINE T == {m \in Nat : \A c \in 0..N : N - c < m => h[c] = R(c)}
<1>8. 0 \in T
  BY <1>1
<1>9. ASSUME NEW m \in T PROVE m + 1 \in T
  <2> SUFFICES ASSUME NEW c \in 0..N, N - c < m + 1 PROVE h[c] = R(c)
    OBVIOUS
  <2>1. m \in Nat /\ \A d \in 0..N : N - d < m => h[d] = R(d)
    OBVIOUS
  <2>2. ASSUME P(c).next # 0 PROVE h[P(c).next] = R(P(c).next)
    <3>1. P(c).next \in 1..N /\ P(c).next > c
      BY <1>2, <2>2
    <3>2. P(c).next \in 0..N /\ N - P(c).next < m
      BY <1>1, <2>1, <3>1
    <3>3. QED
      BY <2>1, <3>2
  <2>3. Turn(h, c) = R(c)
    BY <1>4, <2>2
  <2>4. QED
    BY <1>7, <2>3
<1>10. T = Nat
  <2> HIDE DEF T
  <2>1. T \in SUBSET Nat
    BY DEF T
  <2>2. QED
    BY <1>8, <1>9, <2>1, Taking!Grows
<1>11. h[0] = R(0)
  <2>1. N + 1 \in Nat /\ 0 \in 0..N /\ N - 0 < N + 1
    BY <1>1
  <2> HIDE DEF T
  <2>2. N + 1 \in T
    BY <1>10, <2>1
  <2> USE DEF T
  <2>3. \A c \in 0..N : N - c < N + 1 => h[c] = R(c)
    BY <2>2
  <2>4. QED
    BY <2>1, <2>3
<1>12. QED
  BY <1>11 DEF h, R, N

(* The notes that pass a filter and hold every keyword in their bodies.     *)
Sought(keywords, filter) ==
    Only(Listing, LAMBDA n : FiltersFit(text[n], filter) /\ InBody(Rest(text[n]), keywords))

(* The pages of a search of the bodies together are the notes that pass the *)
(* filter and hold every keyword, each once and in the order of the paths. *)
LEMMA PagesAre ==
    ASSUME text \in [Notes -> Texts], NEW q, q # <<>>, Proper(Keywords(q)),
           NEW filter, NEW limit \in Nat, limit # 0
    PROVE  Pages(q, "content", filter, limit) = Sought(Keywords(q), filter)
<1> DEFINE N == Len(Listing)
           Fits(n) == FiltersFit(text[n], filter) /\ InBody(Rest(text[n]), Keywords(q))
           K == {k \in DOMAIN Listing : Fits(Listing[k])}
           S(c) == {k \in DOMAIN Listing :
                      k > c /\ FiltersFit(text[Listing[k]], filter) /\ QueryFits(Listing[k], q, "content")}
<1>1. N \in Nat /\ DOMAIN Listing = 1..N /\ \A k \in 1..N : Listing[k] \in Notes
  BY ListingIs
<1>2. ASSUME NEW n \in Notes PROVE QueryFits(n, q, "content") <=> InBody(Rest(text[n]), Keywords(q))
  <2>1. q # <<>>
    OBVIOUS
  <2>2. Rest(text[n]) \in Texts
    BY InnerIs
  <2>3. Finds(Rest(text[n]), Keywords(q)) <=> InBody(Rest(text[n]), Keywords(q))
    BY <2>2, FindsIs
  <2>4. QueryFits(n, q, "content") <=> Finds(Rest(text[n]), Keywords(q))
    BY <2>1 DEF QueryFits
  <2>5. QED
    BY <2>3, <2>4
<1>3. \A c : S(c) = {k \in K : k > c}
  BY <1>1, <1>2
<1>4. \A c : SearchNotes(q, "content", filter, limit, c) = PageOf(Ascending(S(c), N), limit)
  BY DEF SearchNotes
<1>5. \A c : SearchNotes(q, "content", filter, limit, c) = PageAt(K, limit, c)
  <2> HIDE DEF S, K
  <2>1. QED
    BY <1>3, <1>4 DEF PageAt, Beyond
<1>6. Pages(q, "content", filter, limit) = (CHOOSE f : IsPaging(f, q, filter, limit))[0]
  BY DEF Pages, IsPaging
<1>7. K \in SUBSET (1..N)
  BY <1>1
<1>8. {k \in K : k > 0} = K
  BY <1>1, <1>7
<1> HIDE DEF S
<1>9. Pages(q, "content", filter, limit) = Listed(Ascending(K, N))
  <2> HIDE DEF K
  <2>1. (CHOOSE f : IsPaging(f, q, filter, limit))[0] = Listed(Beyond(K, 0, N))
    BY <1>5, <1>7, PagingIs
  <2>2. QED
    BY <1>6, <1>8, <2>1 DEF Beyond
<1>10. Sought(Keywords(q), filter) = Listed(Ascending(K, N))
  BY DEF Only, Listed, Sought
<1>11. QED
  BY <1>9, <1>10

(* Words put in small letters stay words.                                  *)
LEMMA KeywordsAre ==
    ASSUME NEW q \in Queries
    PROVE  Keywords(q) \in Seq(Texts) /\ Keywords(q) # <<>> /\ \A j \in DOMAIN Keywords(q) : Keywords(q)[j] # <<>>
<1> DEFINE N == Len(q)
           K == Keywords(q)
<1>1. q \in Seq(Texts \ {<<>>}) /\ q # <<>>
  BY InputAssumption
<1>2. N \in Nat /\ N # 0 /\ DOMAIN q = 1..N /\ \A j \in 1..N : q[j] \in Texts /\ q[j] # <<>>
  BY <1>1
<1>3. ASSUME NEW w \in Texts, w # <<>> PROVE Lowered(w) \in Texts /\ Lowered(w) # <<>>
  <2> DEFINE S(x) == IF x \in DOMAIN SmallOf THEN SmallOf[x] ELSE x
             M == Len(w)
             u == [k \in 1..M |-> S(w[k])]
  <2>1. M \in Nat /\ M # 0 /\ DOMAIN w = 1..M /\ \A k \in 1..M : w[k] \in Tokens
    BY <1>3 DEF Texts
  <2>2. \A x \in Tokens : S(x) \in Tokens
    BY InputAssumption
  <2>3. Lowered(w) = u
    BY <2>1 DEF Lowered, LowerOnly
  <2>4. \A k \in 1..M : S(w[k]) \in Tokens
    BY <2>1, <2>2
  <2> HIDE DEF M, S
  <2>5. u \in [1..M -> Tokens]
    BY <2>4
  <2> HIDE DEF u
  <2>6. u \in Seq(Tokens) /\ Len(u) = M
    BY <2>1, <2>5
  <2>7. u # <<>>
    BY <2>1, <2>6
  <2>8. QED
    BY <2>3, <2>6, <2>7 DEF Texts
<1>4. K = [j \in 1..N |-> Lowered(q[j])]
  BY <1>2 DEF Keywords
<1> HIDE DEF N, K
<1>5. \A j \in 1..N : Lowered(q[j]) \in Texts /\ Lowered(q[j]) # <<>>
  BY <1>2, <1>3
<1>6. K \in [1..N -> Texts] /\ \A j \in 1..N : K[j] # <<>>
  BY <1>4, <1>5
<1>7. K \in Seq(Texts) /\ Len(K) = N /\ DOMAIN K = 1..N
  BY <1>2, <1>6
<1>8. K # <<>>
  BY <1>2, <1>7
<1>9. QED
  BY <1>6, <1>7, <1>8 DEF K

(* A search of the bodies finds the notes each keyword is in, put in small  *)
(* letters and up to the case of ASCII letters, as the text stands or with *)
(* its gaps closed, whatever the texts are: a hit begins with its keyword, *)
(* the excerpt shows one, and the pages list each note once; for keywords  *)
(* that cannot overlap.                                                    *)
THEOREM SearchesFind == Spec => []SearchFinds
<1>1. TypeOK => SearchFinds
  <2> SUFFICES ASSUME TypeOK, NEW q \in Queries, Apart(Keywords(q))
               PROVE  /\ \A n \in Notes :
                            LET t == Rest(text[n]) IN
                            /\ \A m \in Hits(t, Keywords(q)) :
                                  LowerAscii(t)[m[1] + 1] = Head(Keywords(q)[m[2]])
                            /\ InBody(t, Keywords(q)) =>
                                  \E l \in Snippet(t, Keywords(q), 0), w \in Range(Keywords(q)) :
                                      Head(w) \in Range(LowerAscii(Slice(t, Lines(t)[l])))
                      /\ \A filter \in Filters, limit \in 1..2 :
                            Pages(q, "content", filter, limit) = Sought(Keywords(q), filter)
    BY DEF SearchFinds, Sought
  <2> DEFINE ks == Keywords(q)
  <2>1. text \in [Notes -> Texts]
    BY DEF TypeOK
  <2>2. Proper(ks) /\ q # <<>>
    <3>1. q # <<>>
      BY InputAssumption
    <3>2. ks \in Seq(Texts) /\ ks # <<>> /\ \A j \in DOMAIN ks : ks[j] # <<>>
      BY KeywordsAre
    <3>3. QED
      BY <3>1, <3>2 DEF Proper
  <2>3. ASSUME NEW n \in Notes
        PROVE  LET t == Rest(text[n]) IN
               /\ \A m \in Hits(t, ks) : LowerAscii(t)[m[1] + 1] = Head(ks[m[2]])
               /\ InBody(t, ks) => \E l \in Snippet(t, ks, 0), w \in Range(ks) :
                                      Head(w) \in Range(LowerAscii(Slice(t, Lines(t)[l])))
    <3> DEFINE t == Rest(text[n])
    <3>1. t \in Texts
      BY <2>1, InnerIs
    <3> HIDE DEF t
    <3>2. \A m \in Hits(t, ks) : LowerAscii(t)[m[1] + 1] = Head(ks[m[2]])
      BY <2>2, <3>1, HitsBegin DEF Begins
    <3>3. InBody(t, ks) => \E l \in Snippet(t, ks, 0), w \in Range(ks) :
                              Head(w) \in Range(LowerAscii(Slice(t, Lines(t)[l])))
      BY <2>2, <3>1, SnippetShows
    <3>4. QED
      BY <3>2, <3>3 DEF t
  <2>4. ASSUME NEW filter \in Filters, NEW limit \in 1..2
        PROVE  Pages(q, "content", filter, limit) = Sought(ks, filter)
    <3>1. limit \in Nat /\ limit # 0
      OBVIOUS
    <3>2. QED
      BY <2>1, <2>2, <3>1, PagesAre
  <2>5. QED
    BY <2>3, <2>4
<1>2. QED
  BY <1>1, TextsStay, PTL
=============================================================================
