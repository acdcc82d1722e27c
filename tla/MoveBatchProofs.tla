----------------------------- MODULE MoveBatchProofs -----------------------------
(***************************************************************************)
(* Theorems about move_notes, for any tree, any number of items and any    *)
(* names. The invariant says what the tree is after k moves: the declared  *)
(* tree with the first k items in it (Built). It carries over from k to    *)
(* k + 1 because what is still to be moved has not been touched, and what  *)
(* the next destination lies in is a directory or was brought by an        *)
(* earlier item (Orderly, which is what the validation, the order of the   *)
(* moves and the shapes left out come to). With all items in, Built is the *)
(* declared tree; what pruning then takes are directories around sources   *)
(* (Pruned).                                                               *)
(*                                                                         *)
(* PlainCalls is the hypothesis: no call has one of the three shapes of    *)
(* Plain, in each of which the code fails half-way or leaves another tree. *)
(*                                                                         *)
(* For the links, following one is a chain of positions (Folding): a       *)
(* rewritten link climbs to what both directories share and comes down to  *)
(* the note's new place; and one that the scan passed over leads to a note *)
(* that did not move, since the names of where it leads stand in it or     *)
(* above its own note. PlainLinks leaves out the links the code misses.    *)
(***************************************************************************)
EXTENDS MoveBatch, TLAPS

Place == Seq(Name)

-----------------------------------------------------------------------------
(* Paths. *)

(* A prefix has the first names of what it is a prefix of. *)
LEMMA PrefixIs ==
    ASSUME NEW p \in Place, NEW q \in Place
    PROVE  IsPrefix(p, q) <=> Len(p) <= Len(q) /\ \A i \in 1..Len(p) : p[i] = q[i]
<1>1. Len(p) \in Nat /\ Len(q) \in Nat /\ DOMAIN p = 1..Len(p) /\ DOMAIN q = 1..Len(q)
  BY DEF Place
<1>2. SubSeq(p, 1, Len(p)) = p
  BY <1>1 DEF Place
<1>3. ASSUME Len(p) <= Len(q)
      PROVE  /\ SubSeq(q, 1, Len(p)) \in Place /\ Len(SubSeq(q, 1, Len(p))) = Len(p)
             /\ \A i \in 1..Len(p) : SubSeq(q, 1, Len(p))[i] = q[i]
  BY <1>1, <1>3 DEF Place
<1>4. ASSUME Len(p) <= Len(q), \A i \in 1..Len(p) : p[i] = q[i]
      PROVE  p = SubSeq(q, 1, Len(p))
  BY <1>1, <1>3, <1>4 DEF Place
<1>5. QED
  BY <1>2, <1>3, <1>4 DEF IsPrefix

(* Paths with the same names are one path.                                 *)
LEMMA SamePlace ==
    ASSUME NEW p \in Place, NEW q \in Place, Len(p) = Len(q), \A i \in 1..Len(p) : p[i] = q[i]
    PROVE  p = q
BY DEF Place

(* Being a prefix is an order, and the prefixes of a path are in a row.    *)
LEMMA PrefixOrder ==
    /\ \A p \in Place : IsPrefix(p, p)
    /\ \A p, q \in Place : IsPrefix(p, q) /\ IsPrefix(q, p) => p = q
    /\ \A p, q, r \in Place : IsPrefix(p, q) /\ IsPrefix(q, r) => IsPrefix(p, r)
    /\ \A p, q, r \in Place :
         IsPrefix(p, r) /\ IsPrefix(q, r) /\ Len(p) <= Len(q) => IsPrefix(p, q)
    /\ \A p, q \in Place : IsPrefix(p, q) => Len(p) <= Len(q) /\ (Len(p) = Len(q) => p = q)
<1>1. \A p \in Place : Len(p) \in Nat
  BY DEF Place
<1>2. QED
  BY <1>1, PrefixIs, SamePlace

(* The names of two paths put together.                                    *)
LEMMA Joined ==
    ASSUME NEW b \in Place, NEW s \in Place
    PROVE  /\ b \o s \in Place /\ Len(b \o s) = Len(b) + Len(s)
           /\ \A i \in 1..Len(b) : (b \o s)[i] = b[i]
           /\ \A i \in 1..Len(s) : (b \o s)[Len(b) + i] = s[i]
<1>1. b \o s \in Place /\ Len(b \o s) = Len(b) + Len(s) /\ Len(b) \in Nat /\ Len(s) \in Nat
  BY DEF Place
<1>2. \A i \in 1..(Len(b) + Len(s)) : (b \o s)[i] = IF i <= Len(b) THEN b[i] ELSE s[i - Len(b)]
  BY DEF Place
<1>3. ASSUME NEW i \in 1..Len(s) PROVE (b \o s)[Len(b) + i] = s[i]
  <2>1. /\ Len(b) + i \in 1..(Len(b) + Len(s)) /\ ~(Len(b) + i <= Len(b))
        /\ (Len(b) + i) - Len(b) = i
    BY <1>1
  <2>2. QED
    BY <1>2, <2>1
<1>4. QED
  BY <1>1, <1>2, <1>3

(* Where a path q below a is once a has become b. *)
Shift(a, b, q) == b \o Suffix(a, q)

(* The names of a path shifted from below a to below b.                    *)
LEMMA ShiftIs ==
    ASSUME NEW a \in Place, NEW b \in Place, NEW q \in Place, IsPrefix(a, q)
    PROVE  /\ Shift(a, b, q) \in Place /\ Len(Shift(a, b, q)) = Len(b) + (Len(q) - Len(a))
           /\ \A i \in 1..Len(b) : Shift(a, b, q)[i] = b[i]
           /\ \A i \in 1..(Len(q) - Len(a)) : Shift(a, b, q)[Len(b) + i] = q[Len(a) + i]
<1>1. Len(a) \in Nat /\ Len(b) \in Nat /\ Len(q) \in Nat /\ Len(a) <= Len(q)
  BY PrefixOrder DEF Place
<1> DEFINE s == Suffix(a, q)
<1>2. /\ s \in Place /\ Len(s) = Len(q) - Len(a)
      /\ \A i \in 1..(Len(q) - Len(a)) : s[i] = q[Len(a) + i]
  BY <1>1 DEF Place, Suffix
<1>3. Shift(a, b, q) = b \o s
  BY DEF Shift
<1> HIDE DEF s
<1>4. /\ b \o s \in Place /\ Len(b \o s) = Len(b) + Len(s)
      /\ \A i \in 1..Len(b) : (b \o s)[i] = b[i]
      /\ \A i \in 1..Len(s) : (b \o s)[Len(b) + i] = s[i]
  BY <1>2, Joined
<1>5. QED
  BY <1>2, <1>3, <1>4

(* Shifting leads below b, back again, and keeps what lies in what. *)
LEMMA ShiftLaws ==
    ASSUME NEW a \in Place, NEW b \in Place, NEW q \in Place, IsPrefix(a, q)
    PROVE  /\ Shift(a, b, q) \in Place /\ IsPrefix(b, Shift(a, b, q))
           /\ Shift(b, a, Shift(a, b, q)) = q
           /\ q = a => Shift(a, b, q) = b
           /\ a = b => Shift(a, b, q) = q
           /\ \A r \in Place : IsPrefix(a, r) =>
                /\ IsPrefix(q, r) <=> IsPrefix(Shift(a, b, q), Shift(a, b, r))
                /\ Shift(a, b, q) = Shift(a, b, r) => q = r
           /\ \A c \in Place : Shift(b, c, Shift(a, b, q)) = Shift(a, c, q)
<1>1. /\ Len(a) \in Nat /\ Len(b) \in Nat /\ Len(q) \in Nat /\ Len(a) <= Len(q)
      /\ \A r \in Place : Len(r) \in Nat
  BY PrefixOrder DEF Place
<1> DEFINE s == Shift(a, b, q)
<1>2. /\ s \in Place /\ Len(s) = Len(b) + (Len(q) - Len(a))
      /\ \A i \in 1..Len(b) : s[i] = b[i]
      /\ \A i \in 1..(Len(q) - Len(a)) : s[Len(b) + i] = q[Len(a) + i]
  BY ShiftIs
<1> HIDE DEF s
<1>3. IsPrefix(b, s)
  BY <1>1, <1>2, PrefixIs
<1>4. \A i \in 1..Len(a) : a[i] = q[i]
  BY PrefixIs
<1>5. ASSUME NEW c \in Place PROVE Shift(b, c, s) = Shift(a, c, q)
  <2>0. Len(s) - Len(b) = Len(q) - Len(a)
    BY <1>1, <1>2
  <2>1. /\ Shift(b, c, s) \in Place /\ Len(Shift(b, c, s)) = Len(c) + (Len(q) - Len(a))
        /\ \A i \in 1..Len(c) : Shift(b, c, s)[i] = c[i]
        /\ \A i \in 1..(Len(q) - Len(a)) : Shift(b, c, s)[Len(c) + i] = s[Len(b) + i]
    <3>1. /\ Shift(b, c, s) \in Place /\ Len(Shift(b, c, s)) = Len(c) + (Len(s) - Len(b))
          /\ \A i \in 1..Len(c) : Shift(b, c, s)[i] = c[i]
          /\ \A i \in 1..(Len(s) - Len(b)) : Shift(b, c, s)[Len(c) + i] = s[Len(b) + i]
      BY <1>2, <1>3, ShiftIs
    <3>2. QED
      BY <2>0, <3>1
  <2>2. /\ Shift(a, c, q) \in Place /\ Len(Shift(a, c, q)) = Len(c) + (Len(q) - Len(a))
        /\ \A i \in 1..Len(c) : Shift(a, c, q)[i] = c[i]
        /\ \A i \in 1..(Len(q) - Len(a)) : Shift(a, c, q)[Len(c) + i] = q[Len(a) + i]
    BY ShiftIs
  <2>3. ASSUME NEW i \in 1..Len(Shift(b, c, s)) PROVE Shift(b, c, s)[i] = Shift(a, c, q)[i]
    <3>1. CASE i <= Len(c)
      BY <1>1, <2>1, <2>2, <3>1
    <3>2. CASE i > Len(c)
      <4>1. i - Len(c) \in 1..(Len(q) - Len(a)) /\ Len(c) + (i - Len(c)) = i
        BY <1>1, <2>1, <3>2
      <4>2. QED
        BY <1>2, <2>1, <2>2, <4>1
    <3>3. QED
      BY <1>1, <2>1, <3>1, <3>2
  <2>4. QED
    BY <2>1, <2>2, <2>3, SamePlace
<1>6. ASSUME a = b PROVE s = q
  <2>1. ASSUME NEW i \in 1..Len(s) PROVE s[i] = q[i]
    <3>1. CASE i <= Len(b)
      BY <1>1, <1>2, <1>4, <1>6, <3>1
    <3>2. CASE i > Len(b)
      <4>1. i - Len(b) \in 1..(Len(q) - Len(a)) /\ Len(b) + (i - Len(b)) = i
        BY <1>1, <1>2, <3>2
      <4>2. QED
        BY <1>2, <1>6, <4>1
    <3>3. QED
      BY <1>1, <1>2, <3>1, <3>2
  <2>2. QED
    BY <1>1, <1>2, <1>6, <2>1, SamePlace
<1>7. Shift(b, a, s) = q
  <2>1. Shift(b, a, s) = Shift(a, a, q)
    BY <1>5
  <2>2. Shift(a, a, q) = q
    <3>1. /\ Shift(a, a, q) \in Place /\ Len(Shift(a, a, q)) = Len(q)
          /\ \A i \in 1..Len(a) : Shift(a, a, q)[i] = a[i]
          /\ \A i \in 1..(Len(q) - Len(a)) : Shift(a, a, q)[Len(a) + i] = q[Len(a) + i]
      <4>1. /\ Shift(a, a, q) \in Place /\ Len(Shift(a, a, q)) = Len(a) + (Len(q) - Len(a))
            /\ \A i \in 1..Len(a) : Shift(a, a, q)[i] = a[i]
            /\ \A i \in 1..(Len(q) - Len(a)) : Shift(a, a, q)[Len(a) + i] = q[Len(a) + i]
        BY ShiftIs
      <4>2. Len(a) + (Len(q) - Len(a)) = Len(q)
        BY <1>1
      <4>3. QED
        BY <4>1, <4>2
    <3>2. ASSUME NEW i \in 1..Len(q) PROVE Shift(a, a, q)[i] = q[i]
      <4>1. CASE i <= Len(a)
        BY <1>1, <1>4, <3>1, <4>1
      <4>2. CASE i > Len(a)
        <5>1. i - Len(a) \in 1..(Len(q) - Len(a)) /\ Len(a) + (i - Len(a)) = i
          BY <1>1, <4>2
        <5>2. QED
          BY <3>1, <5>1
      <4>3. QED
        BY <1>1, <4>1, <4>2
    <3>3. QED
      BY <3>1, <3>2, SamePlace
  <2>3. QED
    BY <2>1, <2>2
<1>8. ASSUME q = a PROVE s = b
  <2>1. Len(s) = Len(b)
    BY <1>1, <1>2, <1>8
  <2>2. QED
    BY <1>2, <2>1, SamePlace
<1>9. ASSUME NEW r \in Place, IsPrefix(a, r)
      PROVE  IsPrefix(q, r) <=> IsPrefix(s, Shift(a, b, r))
  <2> DEFINE t == Shift(a, b, r)
  <2>1. /\ t \in Place /\ Len(t) = Len(b) + (Len(r) - Len(a)) /\ Len(a) <= Len(r)
        /\ \A i \in 1..Len(b) : t[i] = b[i]
        /\ \A i \in 1..(Len(r) - Len(a)) : t[Len(b) + i] = r[Len(a) + i]
    <3>1. Len(a) <= Len(r)
      BY <1>9, PrefixOrder
    <3>2. QED
      BY <1>9, <3>1, ShiftIs
  <2>2. \A i \in 1..Len(a) : a[i] = r[i]
    BY <1>9, PrefixIs
  <2> HIDE DEF t
  <2>3. Len(q) <= Len(r) <=> Len(s) <= Len(t)
    BY <1>1, <1>2, <2>1
  <2>4. ASSUME IsPrefix(q, r) PROVE IsPrefix(s, t)
    <3>1. ASSUME NEW i \in 1..Len(s) PROVE s[i] = t[i]
      <4>1. CASE i <= Len(b)
        BY <1>1, <1>2, <2>1, <4>1
      <4>2. CASE i > Len(b)
        <5>1. /\ i - Len(b) \in 1..(Len(q) - Len(a)) /\ Len(b) + (i - Len(b)) = i
              /\ i - Len(b) \in 1..(Len(r) - Len(a)) /\ Len(a) + (i - Len(b)) \in 1..Len(q)
          BY <1>1, <1>2, <2>1, <2>4, <4>2, PrefixOrder
        <5>2. q[Len(a) + (i - Len(b))] = r[Len(a) + (i - Len(b))]
          BY <2>4, <5>1, PrefixIs
        <5>3. QED
          BY <1>2, <2>1, <5>1, <5>2
      <4>3. QED
        BY <1>1, <1>2, <4>1, <4>2
    <3>2. QED
      BY <1>2, <2>1, <2>3, <2>4, <3>1, PrefixIs
  <2>5. ASSUME IsPrefix(s, t) PROVE IsPrefix(q, r)
    <3>0. Len(q) <= Len(r)
      BY <1>2, <2>1, <2>3, <2>5, PrefixOrder
    <3>1. ASSUME NEW i \in 1..Len(q) PROVE q[i] = r[i]
      <4>1. CASE i <= Len(a)
        BY <1>1, <1>4, <2>2, <4>1
      <4>2. CASE i > Len(a)
        <5>1. /\ i - Len(a) \in 1..(Len(q) - Len(a)) /\ Len(a) + (i - Len(a)) = i
              /\ i - Len(a) \in 1..(Len(r) - Len(a)) /\ Len(b) + (i - Len(a)) \in 1..Len(s)
          BY <1>1, <1>2, <2>1, <3>0, <4>2
        <5>2. s[Len(b) + (i - Len(a))] = t[Len(b) + (i - Len(a))]
          BY <1>2, <2>1, <2>5, <5>1, PrefixIs
        <5>3. QED
          BY <1>2, <2>1, <5>1, <5>2
      <4>3. QED
        BY <1>1, <4>1, <4>2
    <3>2. QED
      BY <1>9, <3>0, <3>1, PrefixIs
  <2>6. QED
    BY <2>4, <2>5 DEF t
<1>10. ASSUME NEW r \in Place, IsPrefix(a, r), s = Shift(a, b, r) PROVE q = r
  <2>1. IsPrefix(q, r)
    BY <1>2, <1>9, <1>10, PrefixOrder
  <2>2. Len(q) = Len(r)
    <3>1. Len(s) = Len(b) + (Len(r) - Len(a))
      BY <1>10, ShiftIs
    <3>2. QED
      BY <1>1, <1>2, <3>1
  <2>3. QED
    BY <1>10, <2>1, <2>2, PrefixOrder
<1>11. QED
  BY <1>2, <1>3, <1>5, <1>6, <1>7, <1>8, <1>9, <1>10 DEF s

(* The directories a path lies in are its prefixes but for the root.       *)
LEMMA ParentsAre ==
    ASSUME NEW p \in Place, NEW q
    PROVE  q \in Parents(p) <=> q \in Place /\ q # <<>> /\ IsPrefix(q, p) /\ q # p
<1>1. Len(p) \in Nat
  BY DEF Place
<1>2. ASSUME NEW i \in 1..(Len(p) - 1), q = SubSeq(p, 1, i)
      PROVE  q \in Place /\ q # <<>> /\ IsPrefix(q, p) /\ q # p
  <2>1. q \in Place /\ Len(q) = i /\ \A j \in 1..i : q[j] = p[j]
    BY <1>1, <1>2 DEF Place
  <2>2. IsPrefix(q, p)
    BY <1>1, <2>1, PrefixIs
  <2>3. QED
    BY <1>1, <2>1, <2>2
<1>3. ASSUME q \in Place, q # <<>>, IsPrefix(q, p), q # p
      PROVE  Len(q) \in 1..(Len(p) - 1) /\ q = SubSeq(p, 1, Len(q))
  <2>1. Len(q) \in Nat /\ Len(q) <= Len(p) /\ Len(q) # Len(p) /\ Len(q) # 0
    BY <1>3, PrefixOrder DEF Place
  <2>2. q = SubSeq(p, 1, Len(q))
    <3>1. \A j \in 1..Len(q) : q[j] = p[j]
      BY <1>3, PrefixIs
    <3>2. /\ SubSeq(p, 1, Len(q)) \in Place /\ Len(SubSeq(p, 1, Len(q))) = Len(q)
          /\ \A j \in 1..Len(q) : SubSeq(p, 1, Len(q))[j] = p[j]
      BY <1>1, <2>1 DEF Place
    <3>3. QED
      BY <1>3, <3>1, <3>2, SamePlace
  <2>3. QED
    BY <1>1, <2>1, <2>2
<1>4. QED
  BY <1>2, <1>3 DEF Parents

(* The directory a path lies in. *)
LEMMA ParentIs ==
    ASSUME NEW p \in Place, p # <<>>
    PROVE  Parent(p) \in Place /\ IsPrefix(Parent(p), p) /\ Parent(p) # p
<1>1. PICK n \in Nat : n = Len(p) - 1 /\ n < Len(p) /\ Len(p) \in Nat
  BY DEF Place
<1>2. PICK f : f = SubSeq(p, 1, n)
  OBVIOUS
<1>3. f \in Place /\ Len(f) = n /\ \A j \in 1..n : f[j] = p[j]
  BY <1>1, <1>2 DEF Place
<1>4. IsPrefix(f, p) /\ f # p
  BY <1>1, <1>3, PrefixIs
<1>5. QED
  BY <1>1, <1>2, <1>3, <1>4 DEF Parent, Front

-----------------------------------------------------------------------------
(* The calls that are taken on. *)

Src(i) == items[i].source
Dst(i) == items[i].dest

(* What the collision check, the order and the shapes left out leave: no   *)
(* source lies in another or in a destination or around one, and what a    *)
(* destination lies in comes first and brings nothing to where it goes.    *)
Orderly ==
    /\ items \in Seq(Item) /\ items # <<>>
    /\ \A i \in DOMAIN items :
         /\ Src(i) \in DOMAIN before
         /\ ChainFree(before, Dst(i))
         /\ overwrite \/ Dst(i) \notin DOMAIN before
    /\ \A i, j \in DOMAIN items :
         /\ ~IsPrefix(Src(i), Dst(j)) /\ ~IsPrefix(Dst(j), Src(i))
         /\ i # j => ~IsPrefix(Src(i), Src(j))
         /\ i < j => ~IsPrefix(Dst(j), Dst(i))
         /\ i # j /\ IsPrefix(Dst(i), Dst(j)) => Shift(Dst(i), Src(i), Dst(j)) \notin DOMAIN before
         /\ \A p \in Under(before, Src(i)) :
              before[p] # Directory /\ IsPrefix(Shift(Src(i), Dst(i), p), Dst(j)) =>
                 Shift(Src(i), Dst(i), p) = Dst(j)

(* The tree the moves start from. *)
Base == IF update_links THEN Relinked(before, items) ELSE before

Kept(k) == {q \in DOMAIN before : \A i \in 1..k : ~IsPrefix(Src(i), q) /\ ~IsPrefix(Dst(i), q)}
Landed(k) == UNION {{Shift(Src(i), Dst(i), p) : p \in Under(before, Src(i))} : i \in 1..k}
Made(k) == UNION {Parents(Dst(i)) : i \in 1..k}

(* The tree once the first k moves are done. *)
Built(t, k) ==
    /\ t = [q \in DOMAIN t |-> t[q]]
    /\ DOMAIN t = Kept(k) \cup Landed(k) \cup Made(k)
    /\ \A q \in Kept(k) : t[q] = Base[q]
    /\ \A i \in 1..k : \A p \in Under(before, Src(i)) : t[Shift(Src(i), Dst(i), p)] = Base[p]
    /\ \A q \in Made(k) : t[q] = Directory

(* Pruning has taken nothing but directories. *)
Pruned ==
    /\ tree = [q \in DOMAIN tree |-> Declared[q]]
    /\ DOMAIN tree \subseteq DOMAIN Declared
    /\ \A q \in DOMAIN Declared : Declared[q] # Directory => q \in DOMAIN tree

MoveInv ==
    /\ before \in Trees
    /\ phase \in {"ask", "relink", "move", "prune", "done", "rejected"}
    /\ phase \in {"ask", "rejected", "relink"} => tree = before
    /\ phase = "relink" => update_links /\ next = 1
    /\ phase \notin {"ask", "rejected"} => Orderly
    /\ phase = "move" => next \in 1..(Len(items) + 1) /\ Built(tree, next - 1)
    /\ phase \in {"prune", "done"} => Pruned
    /\ phase = "prune" =>
         /\ next \in 1..Len(items)
         /\ climb \in Place /\ IsPrefix(climb, Src(next)) /\ climb # Src(next)

(* The sources and destinations of a call are paths below the root.        *)
LEMMA ItemsAre ==
    ASSUME Orderly
    PROVE  /\ Len(items) \in Nat \ {0} /\ DOMAIN items = 1..Len(items)
           /\ \A i \in DOMAIN items :
                /\ items[i] \in Item
                /\ Src(i) \in Place /\ Src(i) # <<>> /\ Dst(i) \in Place /\ Dst(i) # <<>>
<1>1. items \in Seq(Item) /\ items # <<>>
  BY DEF Orderly
<1>2. Len(items) \in Nat /\ DOMAIN items = 1..Len(items) /\ \A i \in DOMAIN items : items[i] \in Item
  BY <1>1
<1>3. Len(items) # 0
  BY <1>1
<1>4. \A m \in Item : /\ m.source \in Place /\ m.source # <<>> 
                      /\ m.dest \in Place /\ m.dest # <<>>
  BY PathsAssumption DEF Item, Place
<1>5. QED
  BY <1>2, <1>3, <1>4 DEF Src, Dst

(* What a tree found is like. *)
LEMMA TreesAre ==
    ASSUME before \in Trees
    PROVE  /\ \A q \in DOMAIN before : q \in Place /\ q # <<>>
           /\ \A p \in Place, q \in DOMAIN before :
                p # <<>> /\ IsPrefix(p, q) /\ p # q => p \in DOMAIN before /\ before[p] = Directory
           /\ \A q \in DOMAIN before : before[q] # Directory => before[q].of = q
           /\ before \in [DOMAIN before -> Content]
<1>1. WellFormed(before)
  BY TreesAssumption
<1>2. \A q \in DOMAIN before : q \in Place /\ q # <<>>
  BY <1>1, PathsAssumption DEF WellFormed, Place
<1>3. QED
  BY <1>1, <1>2, ParentsAre DEF WellFormed

(* Rewriting links changes neither what there is nor whose body is where.  *)
LEMMA BaseIs ==
    ASSUME before \in Trees
    PROVE  /\ DOMAIN Base = DOMAIN before
           /\ \A q \in DOMAIN before :
                /\ Base[q] = Directory <=> before[q] = Directory
                /\ Base[q].of = before[q].of
<1>1. CASE ~update_links
  BY <1>1 DEF Base
<1>2. CASE update_links
  <2>1. Base = Relinked(before, items)
    BY <1>2 DEF Base
  <2>2. DOMAIN Base = DOMAIN before
    BY <2>1 DEF Relinked
  <2>3. ASSUME NEW q \in DOMAIN before
        PROVE  (Base[q] = Directory <=> before[q] = Directory) /\ Base[q].of = before[q].of
    <3>1. before[q] \in Content
      BY TreesAre
    <3>2. CASE q \notin Listed(before, <<>>, TRUE, FALSE)
      BY <2>1, <3>2 DEF Relinked
    <3>3. CASE q \in Listed(before, <<>>, TRUE, FALSE)
      <4>1. before[q] # Directory /\ before[q].of = q /\ q # <<>>
        BY <3>3, TreesAre DEF Listed
      <4>2. Base[q] = [before[q] EXCEPT !.links = RewriteBody(@, q, items)]
        BY <2>1, <3>3 DEF Relinked
      <4>3. Base[q].of = q
        BY <3>1, <4>1, <4>2 DEF Content
      <4>4. QED
        BY <4>1, <4>3 DEF Directory
    <3>4. QED
      BY <3>2, <3>3
  <2>4. QED
    BY <2>2, <2>3
<1>3. QED
  BY <1>1, <1>2

-----------------------------------------------------------------------------
(* The calls a theorem speaks of: the shapes left out are those of which   *)
(* the declared tree is not what comes out, or that fail halfway.          *)
PlainCalls == \A t \in Trees, call \in Seq(Item) : Allowed(t, call) => Plain(t, call)

(* What the collision check leaves of two items.                           *)
LEMMA ApartInCall ==
    ASSUME NEW call \in Seq(Item), NEW t, NEW o, Accepted(t, call, o),
           NEW a \in DOMAIN call, NEW b \in DOMAIN call, a # b
    PROVE  /\ call[a].dest # call[b].dest /\ call[a].dest # call[b].source
           /\ ~IsPrefix(call[a].source, call[b].source)
           /\ ~IsStrictPrefix(call[a].source, call[b].dest)
<1>1. a \in Nat /\ b \in Nat
  OBVIOUS
<1>2. CASE a < b
  BY <1>2 DEF Accepted, Collide, Overlap
<1>3. CASE b < a
  BY <1>3 DEF Accepted, Collide, Overlap
<1>4. QED
  BY <1>1, <1>2, <1>3

(* A call that is accepted, in the order of its destinations, is orderly.  *)
LEMMA AcceptedIsOrderly ==
    ASSUME PlainCalls, tree \in Trees, before = tree, Accept
    PROVE  Orderly'
<1>1. PICK call \in Calls : Accepted(tree, call, overwrite) /\ items' \in Sorted(call)
  BY DEF Accept
<1>2. PICK n \in 1..MaxItems : call \in [1..n -> Item]
  BY <1>1 DEF Calls
<1>3. n \in Nat \ {0} /\ call \in Seq(Item) /\ DOMAIN call = 1..n
  BY <1>2
<1>4. Plain(tree, call)
  BY <1>1, <1>3 DEF Calls, PlainCalls
<1>5. PICK s : s = items'
  OBVIOUS
<1>6. /\ s \in [1..n -> Range(call)] /\ IsInjective(s)
      /\ \A i, j \in 1..n : i < j => ~Before(s[j].dest, s[i].dest)
  BY <1>1, <1>3, <1>5 DEF Sorted
<1>7. \A i \in 1..n : \E a \in 1..n : s[i] = call[a]
  BY <1>3, <1>6 DEF Range
<1>8. \A m \in Item : m.source \in Place /\ m.source # <<>> /\ m.dest \in Place /\ m.dest # <<>>
  BY PathsAssumption DEF Item, Place
<1>9. s \in Seq(Item) /\ Len(s) = n /\ DOMAIN s = 1..n /\ s # <<>>
  <2>1. s \in [1..n -> Item]
    BY <1>3, <1>6 DEF Range
  <2>2. QED
    BY <1>3, <2>1
<1>10. ASSUME NEW i \in 1..n
       PROVE  /\ s[i].source \in DOMAIN tree
              /\ ChainFree(tree, s[i].dest)
              /\ overwrite \/ s[i].dest \notin DOMAIN tree
              /\ ~IsPrefix(s[i].source, s[i].dest) /\ ~IsPrefix(s[i].dest, s[i].source)
  <2>1. PICK a \in 1..n : s[i] = call[a]
    BY <1>7
  <2>2. ItemOk(tree, call[a], overwrite) /\ ~Above(call[a], call[a]) /\ call[a] \in Item
    BY <1>1, <1>3, <1>4 DEF Accepted, Plain
  <2>3. QED
    BY <1>8, <2>1, <2>2, PrefixOrder DEF ItemOk, Above, IsStrictPrefix
<1>11. ASSUME NEW i \in 1..n, NEW j \in 1..n
       PROVE  /\ ~IsPrefix(s[i].source, s[j].dest) /\ ~IsPrefix(s[j].dest, s[i].source)
              /\ i # j => ~IsPrefix(s[i].source, s[j].source)
              /\ i < j => ~IsPrefix(s[j].dest, s[i].dest)
              /\ i # j /\ IsPrefix(s[i].dest, s[j].dest) =>
                    Shift(s[i].dest, s[i].source, s[j].dest) \notin DOMAIN tree
              /\ \A p \in Under(tree, s[i].source) :
                   tree[p] # Directory /\ IsPrefix(Shift(s[i].source, s[i].dest, p), s[j].dest) =>
                      Shift(s[i].source, s[i].dest, p) = s[j].dest
  <2>1. PICK a \in 1..n, b \in 1..n : s[i] = call[a] /\ s[j] = call[b]
    BY <1>7
  <2>2. i # j => a # b
    BY <1>6, <1>9, <2>1 DEF IsInjective
  <2>3. ~Brought(tree, s[i], s[j]) /\ ~Through(tree, s[i], s[j]) /\ ~Above(s[j], s[i])
    BY <1>3, <1>4, <2>1 DEF Plain
  <2>4. i # j => /\ s[i].dest # s[j].dest /\ s[i].dest # s[j].source /\ s[j].dest # s[i].source
                 /\ ~IsPrefix(s[i].source, s[j].source)
                 /\ ~IsStrictPrefix(s[i].source, s[j].dest)
    BY <1>1, <1>3, <2>1, <2>2, ApartInCall
  <2>5. ~IsPrefix(s[i].source, s[j].dest) /\ ~IsPrefix(s[j].dest, s[i].source)
    BY <1>10, <2>3, <2>4 DEF Above, IsStrictPrefix
  <2>6. i < j => ~IsPrefix(s[j].dest, s[i].dest)
    BY <1>6, <2>4 DEF Before, IsStrictPrefix
  <2>7. i # j /\ IsPrefix(s[i].dest, s[j].dest) =>
            Shift(s[i].dest, s[i].source, s[j].dest) \notin DOMAIN tree
    BY <2>3, <2>4 DEF Brought, IsStrictPrefix, Shift
  <2>8. \A p \in Under(tree, s[i].source) :
           tree[p] # Directory /\ IsPrefix(Shift(s[i].source, s[i].dest, p), s[j].dest) =>
              Shift(s[i].source, s[i].dest, p) = s[j].dest
    BY <2>3 DEF Through, IsStrictPrefix, Shift
  <2>9. QED
    BY <2>4, <2>5, <2>6, <2>7, <2>8
<1>12. before' = tree /\ overwrite' = overwrite
  BY DEF Accept
<1>13. QED
  BY <1>5, <1>9, <1>10, <1>11, <1>12 DEF Orderly, Src, Dst

-----------------------------------------------------------------------------
(* One move after the other. *)

(* Two prefixes of one path lie one in the other.                          *)
LEMMA InARow ==
    \A p, q, r \in Place : IsPrefix(p, r) /\ IsPrefix(q, r) => IsPrefix(p, q) \/ IsPrefix(q, p)
<1>1. \A p \in Place : Len(p) \in Nat
  BY DEF Place
<1>2. QED
  BY <1>1, PrefixOrder

(* What a source brings, at its old and its new place. *)
LEMMA BroughtIs ==
    ASSUME before \in Trees, Orderly, NEW i \in DOMAIN items, NEW p \in Under(before, Src(i))
    PROVE  /\ p \in DOMAIN before /\ p \in Place /\ IsPrefix(Src(i), p)
           /\ Shift(Src(i), Dst(i), p) \in Place /\ IsPrefix(Dst(i), Shift(Src(i), Dst(i), p))
           /\ Shift(Dst(i), Src(i), Shift(Src(i), Dst(i), p)) = p
<1>1. Src(i) \in Place /\ Dst(i) \in Place
  BY ItemsAre
<1>2. p \in DOMAIN before /\ IsPrefix(Src(i), p)
  BY DEF Under
<1>3. p \in Place
  BY <1>2, TreesAre
<1>4. QED
  BY <1>1, <1>2, <1>3, ShiftLaws

(* What one item brings does not lie where another item puts something. *)
LEMMA BroughtStays ==
    ASSUME before \in Trees, Orderly, NEW i \in DOMAIN items, NEW j \in DOMAIN items,
           NEW p \in Under(before, Src(i))
    PROVE  /\ ~IsPrefix(Src(j), Shift(Src(i), Dst(i), p))
           /\ i # j => ~IsPrefix(Dst(j), Shift(Src(i), Dst(i), p)) \/ IsPrefix(Dst(j), Dst(i))
<1> DEFINE q == Shift(Src(i), Dst(i), p)
<1>1. /\ Src(i) \in Place /\ Dst(i) \in Place /\ Src(j) \in Place /\ Dst(j) \in Place
      /\ Src(i) # <<>>
  BY ItemsAre
<1>2. /\ p \in DOMAIN before /\ p \in Place /\ IsPrefix(Src(i), p)
      /\ q \in Place /\ IsPrefix(Dst(i), q) /\ Shift(Dst(i), Src(i), q) = p
  BY BroughtIs
<1> HIDE DEF q
<1>3. ~IsPrefix(Src(j), q)
  BY <1>1, <1>2, InARow DEF Orderly
<1>4. ASSUME i # j, IsPrefix(Dst(j), q), ~IsPrefix(Dst(j), Dst(i)) PROVE FALSE
  <2>1. IsPrefix(Dst(i), Dst(j))
    BY <1>1, <1>2, <1>4, InARow
  <2>2. Shift(Dst(i), Src(i), Dst(j)) \notin DOMAIN before
    BY <1>4, <2>1 DEF Orderly
  <2>3. PICK r : r = Shift(Dst(i), Src(i), Dst(j))
    OBVIOUS
  <2>4. r \in Place /\ IsPrefix(Src(i), r) /\ IsPrefix(r, p)
    BY <1>1, <1>2, <1>4, <2>1, <2>3, ShiftLaws
  <2>5. r # <<>>
    BY <1>1, <2>4, PrefixOrder DEF Place
  <2>6. QED
    BY <1>2, <2>2, <2>3, <2>4, <2>5, TreesAre
<1>5. QED
  BY <1>3, <1>4 DEF q

(* Before its move a source is as it was, with all that is below it. *)
LEMMA SourceStands ==
    ASSUME before \in Trees, Orderly, NEW k \in Nat, k < Len(items), Built(tree, k)
    PROVE  /\ Under(tree, Src(k + 1)) = Under(before, Src(k + 1))
           /\ \A p \in Under(before, Src(k + 1)) : tree[p] = Base[p]
<1>1. /\ \A i \in 1..k : i \in DOMAIN items /\ i # k + 1
      /\ k + 1 \in DOMAIN items
  BY ItemsAre
<1>2. /\ \A i \in DOMAIN items : Src(i) \in Place /\ Dst(i) \in Place
  BY ItemsAre
<1>3. ASSUME NEW p \in Under(before, Src(k + 1)) PROVE p \in Kept(k)
  <2>1. p \in DOMAIN before /\ p \in Place /\ IsPrefix(Src(k + 1), p)
    BY <1>1, BroughtIs
  <2>2. ASSUME NEW i \in 1..k PROVE ~IsPrefix(Src(i), p) /\ ~IsPrefix(Dst(i), p)
    BY <1>1, <1>2, <2>1, InARow DEF Orderly
  <2>3. QED
    BY <2>1, <2>2 DEF Kept
<1>4. ASSUME NEW q \in DOMAIN tree, IsPrefix(Src(k + 1), q) PROVE q \in DOMAIN before
  <2>1. q \notin Landed(k)
    BY <1>1, <1>4, BroughtStays DEF Landed
  <2>2. ASSUME q \in Made(k) PROVE FALSE
    <3>1. PICK i \in 1..k : q \in Parents(Dst(i))
      BY <2>2 DEF Made
    <3>2. q \in Place /\ IsPrefix(q, Dst(i))
      BY <1>1, <1>2, <3>1, ParentsAre
    <3>3. IsPrefix(Src(k + 1), Dst(i))
      BY <1>1, <1>2, <1>4, <3>2, PrefixOrder
    <3>4. QED
      BY <1>1, <3>3 DEF Orderly
  <2>3. QED
    BY <2>1, <2>2 DEF Built, Kept
<1>5. QED
  BY <1>3, <1>4 DEF Built, Under

(* The directories a destination lies in are directories, or not there yet. *)
LEMMA ChainStands ==
    ASSUME before \in Trees, Orderly, NEW k \in Nat, k < Len(items), Built(tree, k),
           NEW q \in Parents(Dst(k + 1)), q \in DOMAIN tree
    PROVE  tree[q] = Directory
<1>1. /\ \A i \in 1..k : i \in DOMAIN items /\ i # k + 1
      /\ k + 1 \in DOMAIN items
  BY ItemsAre
<1>2. Dst(k + 1) \in Place
  BY <1>1, ItemsAre
<1>3. q \in Place /\ IsPrefix(q, Dst(k + 1)) /\ q # Dst(k + 1)
  BY <1>2, ParentsAre
<1>4. CASE q \in Kept(k)
  <2>1. before[q] = Directory
    BY <1>1, <1>4 DEF Orderly, ChainFree, Kept
  <2>2. QED
    BY <1>4, <2>1, BaseIs DEF Built, Kept
<1>5. CASE q \in Landed(k)
  <2>1. PICK i \in 1..k : \E p \in Under(before, Src(i)) : q = Shift(Src(i), Dst(i), p)
    BY <1>5 DEF Landed
  <2>2. PICK p \in Under(before, Src(i)) : q = Shift(Src(i), Dst(i), p)
    BY <2>1
  <2>3. before[p] = Directory
    BY <1>1, <1>3, <2>2 DEF Orderly
  <2>4. p \in DOMAIN before
    BY DEF Under
  <2>5. QED
    BY <2>2, <2>3, <2>4, BaseIs DEF Built
<1>6. CASE q \in Made(k)
  BY <1>6 DEF Built
<1>7. QED
  BY <1>4, <1>5, <1>6 DEF Built

(* An accepted move can be made, and makes what was declared of it. *)
LEMMA OneMove ==
    ASSUME before \in Trees, Orderly, NEW k \in Nat, k < Len(items), Built(tree, k)
    PROVE  LET m == items[k + 1]
               t == Cleared(tree, m)
           IN  CanMove(t, m) /\ Built(RenameTree(t, m.source, m.dest), k + 1)
<1> DEFINE s == Src(k + 1)
           d == Dst(k + 1)
           t == Cleared(tree, items[k + 1])
           done == RenameTree(t, s, d)
<1>1. /\ \A i \in 1..k : i \in DOMAIN items /\ i # k + 1 /\ i < k + 1
      /\ k + 1 \in DOMAIN items /\ 1..(k + 1) = (1..k) \cup {k + 1}
  BY ItemsAre
<1>2. \A i \in DOMAIN items : Src(i) \in Place /\ Dst(i) \in Place
  BY ItemsAre
<1>3. /\ s \in Place /\ d \in Place /\ s \in DOMAIN before
      /\ ~IsPrefix(s, d) /\ ~IsPrefix(d, s)
  BY <1>1, <1>2 DEF Orderly
<1>4. /\ t = [q \in DOMAIN t |-> tree[q]]
      /\ DOMAIN t = {q \in DOMAIN tree : ~IsPrefix(d, q)}
  <2>1. t = [q \in DOMAIN tree \ Under(tree, d) |-> tree[q]]
    BY DEF Cleared, Without, Restrict, Dst
  <2>2. DOMAIN tree \ Under(tree, d) = {q \in DOMAIN tree : ~IsPrefix(d, q)}
    BY DEF Under
  <2> HIDE DEF t
  <2>3. QED
    BY <2>1, <2>2
<1> HIDE DEF t
<1>5. /\ Under(tree, s) = Under(before, s)
      /\ \A p \in Under(before, s) : tree[p] = Base[p]
  BY SourceStands
<1> HIDE DEF s, d
<1>6. Under(t, s) = Under(before, s) /\ \A p \in Under(before, s) : t[p] = Base[p]
  <2>1. ASSUME NEW p \in Under(before, s) PROVE p \in DOMAIN t
    <3>1. p \in DOMAIN tree /\ IsPrefix(s, p) /\ p \in DOMAIN before
      BY <1>5, <2>1 DEF Under
    <3>2. p \in Place
      BY <3>1, TreesAre
    <3>3. ~IsPrefix(d, p)
      BY <1>3, <3>1, <3>2, InARow
    <3>4. QED
      BY <1>4, <3>1, <3>3
  <2>2. QED
    BY <1>4, <1>5, <2>1 DEF Under
<1>7. CanMove(t, items[k + 1])
  <2>1. s \in DOMAIN t
    BY <1>3, <1>6, PrefixOrder DEF Under
  <2>2. ASSUME NEW q \in Parents(d), q \in DOMAIN t PROVE t[q] = Directory
    BY <1>4, <2>2, ChainStands DEF d
  <2>3. QED
    BY <2>1, <2>2 DEF CanMove, ChainFree, s, d, Src, Dst
<1> DEFINE new == {Shift(s, d, p) : p \in Under(before, s)}
           rest == {q \in DOMAIN t : ~IsPrefix(s, q)}
<1>8. done = [q \in new \cup rest \cup Parents(d) |->
                IF q \in new THEN t[Shift(d, s, q)] ELSE IF q \in rest THEN t[q] ELSE Directory]
  <2>1. rest = DOMAIN Without(t, s) /\ \A q \in rest : Without(t, s)[q] = t[q]
    BY DEF Without, Restrict, Under
  <2>2. new = {d \o Suffix(s, q) : q \in Under(t, s)}
    BY <1>6 DEF Shift
  <2> HIDE DEF new, rest
  <2>3. QED
    BY <2>1, <2>2 DEF RenameTree, Shift
<1> HIDE DEF done
<1>9. \A q \in new : IsPrefix(d, q) /\ q \in Place
  BY <1>1, BroughtIs DEF s, d
<1>10. ASSUME NEW q \in Landed(k) PROVE q \in rest /\ q \notin new
  <2>1. PICK i \in 1..k : q \in {Shift(Src(i), Dst(i), p) : p \in Under(before, Src(i))}
    BY <1>10 DEF Landed
  <2>2. PICK p \in Under(before, Src(i)) : q = Shift(Src(i), Dst(i), p)
    BY <2>1
  <2>3. ~IsPrefix(s, q) /\ ~IsPrefix(d, q)
    BY <1>1, <2>2, BroughtStays DEF Orderly, s, d
  <2>4. QED
    BY <1>4, <1>9, <1>10, <2>3 DEF Built
<1>11. ASSUME NEW q \in Made(k) PROVE q \in rest /\ q \notin new
  <2>1. PICK i \in 1..k : q \in Parents(Dst(i))
    BY <1>11 DEF Made
  <2>2. q \in Place /\ IsPrefix(q, Dst(i))
    BY <1>1, <1>2, <2>1, ParentsAre
  <2>3. ~IsPrefix(s, Dst(i)) /\ ~IsPrefix(d, Dst(i))
    BY <1>1 DEF Orderly, s, d
  <2>4. ~IsPrefix(s, q) /\ ~IsPrefix(d, q)
    BY <1>1, <1>2, <1>3, <2>2, <2>3, PrefixOrder
  <2>5. QED
    BY <1>4, <1>9, <1>11, <2>4 DEF Built
<1>12. Kept(k + 1) = {q \in Kept(k) : ~IsPrefix(s, q) /\ ~IsPrefix(d, q)}
  BY <1>1 DEF Kept, s, d
<1>13. ASSUME NEW q \in Kept(k + 1) PROVE q \in Kept(k) /\ q \in rest /\ q \notin new
  BY <1>4, <1>9, <1>12 DEF Built
<1>14. rest \subseteq Kept(k + 1) \cup Landed(k) \cup Made(k)
  BY <1>4, <1>12 DEF Built
<1>15. Landed(k + 1) = Landed(k) \cup new /\ Made(k + 1) = Made(k) \cup Parents(d)
  BY <1>1 DEF Landed, Made, s, d
<1>16. DOMAIN done = Kept(k + 1) \cup Landed(k + 1) \cup Made(k + 1)
  <2> HIDE DEF new, rest
  <2>1. QED
    BY <1>8, <1>10, <1>11, <1>13, <1>14, <1>15
<1>17. ASSUME NEW q \in Kept(k + 1) PROVE done[q] = Base[q]
  <2> HIDE DEF new, rest
  <2>1. done[q] = t[q] /\ q \in DOMAIN t
    BY <1>8, <1>13 DEF rest
  <2>2. QED
    BY <1>4, <1>13, <2>1 DEF Built
<1>18. ASSUME NEW i \in 1..(k + 1), NEW p \in Under(before, Src(i))
       PROVE  done[Shift(Src(i), Dst(i), p)] = Base[p]
  <2>1. CASE i = k + 1
    <3>1. PICK q : q = Shift(s, d, p)
      OBVIOUS
    <3>2. q \in new /\ Shift(d, s, q) = p
      BY <1>1, <2>1, <3>1, BroughtIs DEF s, d
    <3> HIDE DEF new, rest
    <3>3. done[q] = t[p]
      BY <1>8, <3>2
    <3>4. QED
      BY <1>6, <2>1, <3>1, <3>3 DEF s, d
  <2>2. CASE i \in 1..k
    <3>1. PICK q : q = Shift(Src(i), Dst(i), p)
      OBVIOUS
    <3>2. q \in Landed(k)
      BY <2>2, <3>1 DEF Landed
    <3>3. q \in rest /\ q \notin new
      BY <1>10, <3>2
    <3> HIDE DEF new, rest
    <3>4. done[q] = t[q] /\ q \in DOMAIN t
      BY <1>8, <3>3 DEF rest
    <3>5. QED
      BY <1>4, <2>2, <3>1, <3>4 DEF Built
  <2>3. QED
    BY <1>1, <2>1, <2>2
<1>19. ASSUME NEW q \in Made(k + 1) PROVE done[q] = Directory
  <2>1. CASE q \in Made(k)
    <3>1. q \in rest /\ q \notin new
      BY <1>11, <2>1
    <3> HIDE DEF new, rest
    <3>2. done[q] = t[q] /\ q \in DOMAIN t
      BY <1>8, <3>1 DEF rest
    <3>3. QED
      BY <1>4, <2>1, <3>2 DEF Built
  <2>2. CASE q \in Parents(d)
    <3>1. q \in Place /\ IsPrefix(q, d) /\ q # d
      BY <1>3, <2>2, ParentsAre
    <3>2. q \notin new
      BY <1>3, <1>9, <3>1, PrefixOrder
    <3> HIDE DEF new, rest
    <3>3. q \in rest => t[q] = Directory
      BY <1>4, <2>2, ChainStands DEF rest, d
    <3>4. QED
      BY <1>8, <2>2, <3>2, <3>3
  <2>3. QED
    BY <1>15, <2>1, <2>2
<1>20. done = [q \in DOMAIN done |-> done[q]]
  <2> HIDE DEF new, rest
  <2>1. QED
    BY <1>8
<1>21. Built(done, k + 1)
  BY <1>16, <1>17, <1>18, <1>19, <1>20 DEF Built
<1>22. QED
  BY <1>7, <1>21 DEF done, t, s, d, Src, Dst

-----------------------------------------------------------------------------
(* The declared tree. *)

(* What lands somewhere is read from where it came from. *)
LEMMA OriginIs ==
    ASSUME before \in Trees, Orderly, NEW i \in DOMAIN items, NEW p \in Under(before, Src(i))
    PROVE  Origin(Shift(Src(i), Dst(i), p)) = p /\ Covering(Shift(Src(i), Dst(i), p)) # {}
<1> DEFINE q == Shift(Src(i), Dst(i), p)
<1>1. /\ IsPrefix(Dst(i), q) /\ Shift(Dst(i), Src(i), q) = p
  BY BroughtIs
<1>2. \A j \in DOMAIN items : Dst(j) \in Place /\ Len(Dst(j)) \in Nat /\ j \in Nat
  BY ItemsAre DEF Place
<1>3. \A j \in DOMAIN items : i # j /\ IsPrefix(Dst(j), q) => IsPrefix(Dst(j), Dst(i))
  BY BroughtStays
<1> HIDE DEF q
<1>4. i \in Covering(q) /\ Covering(q) \subseteq DOMAIN items
  BY <1>1 DEF Covering, Dst
<1>5. \A j \in Covering(q) : j # i => IsPrefix(Dst(j), Dst(i)) /\ Dst(j) # Dst(i)
  <2>1. ASSUME NEW j \in DOMAIN items, j # i PROVE Dst(j) # Dst(i)
    BY <1>2, <2>1, PrefixOrder DEF Orderly
  <2>2. QED
    BY <1>3, <2>1 DEF Covering, Dst
<1>6. \A j \in Covering(q) : Len(Dst(j)) <= Len(Dst(i)) /\ (j # i => Len(Dst(j)) < Len(Dst(i)))
  BY <1>2, <1>4, <1>5, PrefixOrder
<1>7. Governing(q) = i
  <2>1. \A j \in Covering(q) : (\A l \in Covering(q) : Len(Dst(l)) <= Len(Dst(j))) => j = i
    BY <1>2, <1>4, <1>6
  <2>2. \A j \in Covering(q) : Len(Dst(j)) <= Len(Dst(i))
    BY <1>6
  <2>3. Governing(q) = CHOOSE j \in Covering(q) : \A l \in Covering(q) : Len(Dst(l)) <= Len(Dst(j))
    BY DEF Governing, Dst
  <2>4. QED
    BY <1>4, <2>1, <2>2, <2>3
<1>8. Origin(q) = Shift(Dst(i), Src(i), q)
  BY <1>4, <1>7 DEF Origin, Shift, Dst, Src
<1>9. QED
  BY <1>1, <1>4, <1>8 DEF q

(* The declared tree, part by part.                                        *)
LEMMA DeclaredIs ==
    ASSUME before \in Trees, Orderly, NEW n \in Nat, n = Len(items)
    PROVE  /\ Declared = [q \in Kept(n) \cup Landed(n) \cup Made(n) |-> Declared[q]]
           /\ \A q \in Kept(n) : Declared[q] = Base[q] /\ q \in DOMAIN before
           /\ \A i \in 1..n : \A p \in Under(before, Src(i)) :
                Declared[Shift(Src(i), Dst(i), p)] = Base[p]
           /\ \A q \in Made(n) \ (Kept(n) \cup Landed(n)) : Declared[q] = Directory
<1> DEFINE land == {q \in Landed(n) : Origin(q) \in DOMAIN before}
<1>1. DOMAIN items = 1..n
  BY ItemsAre
<1>2. {q \in DOMAIN before : Covering(q) = {} /\ ~Vacated(q)} = Kept(n)
  BY <1>1 DEF Covering, Vacated, Kept, Src, Dst
<1>3. UNION {{items[i].dest \o Suffix(items[i].source, p) :
                 p \in Under(before, items[i].source)} : i \in DOMAIN items} = Landed(n)
  BY <1>1 DEF Landed, Shift, Src, Dst
<1>4. UNION {Parents(items[i].dest) : i \in DOMAIN items} = Made(n)
  BY <1>1 DEF Made, Dst
<1>5. Declared = [q \in Kept(n) \cup land \cup Made(n) |->
                    IF q \in land THEN Base[Origin(q)]
                    ELSE IF q \in Kept(n) THEN Base[q] ELSE Directory]
  <2>1. land = {q \in UNION {{items[i].dest \o Suffix(items[i].source, p) :
                                p \in Under(before, items[i].source)} : i \in DOMAIN items} :
                  Origin(q) \in DOMAIN before}
    BY <1>3
  <2> HIDE DEF land
  <2>2. QED
    BY <1>2, <1>4, <2>1 DEF Declared, Base
<1>6. ASSUME NEW i \in 1..n, NEW p \in Under(before, Src(i))
      PROVE  /\ Shift(Src(i), Dst(i), p) \in land
             /\ Base[Origin(Shift(Src(i), Dst(i), p))] = Base[p]
  <2>1. p \in DOMAIN before /\ Origin(Shift(Src(i), Dst(i), p)) = p
    BY <1>1, OriginIs DEF Under
  <2>2. Shift(Src(i), Dst(i), p) \in Landed(n)
    BY DEF Landed
  <2>3. QED
    BY <2>1, <2>2
<1>7. land = Landed(n)
  <2>1. ASSUME NEW q \in Landed(n) PROVE q \in land
    <3>1. PICK i \in 1..n : q \in {Shift(Src(i), Dst(i), p) : p \in Under(before, Src(i))}
      BY DEF Landed
    <3>2. PICK p \in Under(before, Src(i)) : q = Shift(Src(i), Dst(i), p)
      BY <3>1
    <3>3. QED
      BY <1>6, <3>2
  <2>2. QED
    BY <2>1
<1>8. \A q \in Kept(n) : q \notin land /\ q \in DOMAIN before
  <2>1. ASSUME NEW q \in Kept(n), q \in Landed(n) PROVE FALSE
    <3>1. PICK i \in 1..n : q \in {Shift(Src(i), Dst(i), p) : p \in Under(before, Src(i))}
      BY <2>1 DEF Landed
    <3>2. PICK p \in Under(before, Src(i)) : q = Shift(Src(i), Dst(i), p)
      BY <3>1
    <3>3. IsPrefix(Dst(i), q)
      BY <1>1, <3>2, BroughtIs
    <3>4. QED
      BY <2>1, <3>3 DEF Kept
  <2>2. QED
    BY <2>1 DEF Kept
<1> HIDE DEF land
<1>9. QED
  BY <1>5, <1>6, <1>7, <1>8

(* When all moves are made the tree is the declared one. *)
LEMMA BuiltIsDeclared ==
    ASSUME before \in Trees, Orderly, NEW n \in Nat, n = Len(items), Built(tree, n)
    PROVE  tree = Declared
<1>1. DOMAIN tree = Kept(n) \cup Landed(n) \cup Made(n) /\ DOMAIN Declared = DOMAIN tree
  BY DeclaredIs DEF Built
<1>2. ASSUME NEW q \in DOMAIN tree PROVE tree[q] = Declared[q]
  <2>1. CASE q \in Kept(n)
    BY <2>1, DeclaredIs DEF Built
  <2>2. CASE q \in Landed(n)
    <3>1. PICK i \in 1..n : q \in {Shift(Src(i), Dst(i), p) : p \in Under(before, Src(i))}
      BY <2>2 DEF Landed
    <3>2. PICK p \in Under(before, Src(i)) : q = Shift(Src(i), Dst(i), p)
      BY <3>1
    <3>3. Declared[Shift(Src(i), Dst(i), p)] = Base[p]
      BY DeclaredIs
    <3>4. tree[Shift(Src(i), Dst(i), p)] = Base[p]
      BY DEF Built
    <3>5. QED
      BY <3>2, <3>3, <3>4
  <2>3. CASE q \in Made(n) \ (Kept(n) \cup Landed(n))
    BY <2>3, DeclaredIs DEF Built
  <2>4. QED
    BY <1>1, <2>1, <2>2, <2>3
<1>3. tree = [q \in DOMAIN tree |-> tree[q]] /\ Declared = [q \in DOMAIN tree |-> Declared[q]]
  BY <1>1, DeclaredIs DEF Built
<1>4. QED
  BY <1>2, <1>3

(* What a source lies in is a directory, also in the declared tree. *)
LEMMA AroundSources ==
    ASSUME before \in Trees, Orderly, NEW i \in DOMAIN items, NEW q \in DOMAIN Declared,
           IsPrefix(q, Src(i)), q # Src(i)
    PROVE  Declared[q] = Directory
<1>1. PICK n \in Nat : n = Len(items) /\ DOMAIN items = 1..n
  BY ItemsAre
<1>2. \A j \in DOMAIN items : Src(j) \in Place /\ Dst(j) \in Place /\ Src(j) \in DOMAIN before
  BY ItemsAre DEF Orderly
<1>3. DOMAIN Declared = Kept(n) \cup Landed(n) \cup Made(n)
  BY <1>1, DeclaredIs
<1>4. CASE q \in Kept(n)
  <2>1. q \in DOMAIN before /\ q \in Place /\ q # <<>>
    BY <1>4, TreesAre DEF Kept
  <2>2. before[q] = Directory
    BY <1>2, <2>1, TreesAre
  <2>3. Base[q] = Directory
    BY <2>1, <2>2, BaseIs
  <2>4. Declared[q] = Base[q]
    BY <1>1, <1>4, DeclaredIs
  <2>5. QED
    BY <2>3, <2>4
<1>5. CASE q \in Landed(n)
  <2>1. PICK j \in 1..n : q \in {Shift(Src(j), Dst(j), p) : p \in Under(before, Src(j))}
    BY <1>5 DEF Landed
  <2>2. PICK p \in Under(before, Src(j)) : q = Shift(Src(j), Dst(j), p)
    BY <2>1
  <2>3. q \in Place /\ IsPrefix(Dst(j), q)
    BY <1>1, <2>2, BroughtIs
  <2>4. IsPrefix(Dst(j), Src(i))
    BY <1>1, <1>2, <2>3, PrefixOrder
  <2>5. QED
    BY <1>1, <2>4 DEF Orderly
<1>6. QED
  BY <1>1, <1>3, <1>4, <1>5, DeclaredIs

-----------------------------------------------------------------------------
(* The invariant, step by step. *)

(* The initial states.                                                     *)
LEMMA InitMoves == Init => MoveInv
BY DEF Init, MoveInv

(* Nothing the notion of a built or declared tree depends on changes once  *)
(* the items are taken on.                                                 *)
LEMMA SameCall ==
    ASSUME UNCHANGED <<items, overwrite, update_links, before>>
    PROVE  /\ Orderly' = Orderly /\ Declared' = Declared
           /\ \A i : Src(i)' = Src(i)
           /\ \A t, k : Built(t, k)' = Built(t, k)
<1>1. Base' = Base
  BY DEF Base, Relinked
<1>2. \A i : Src(i)' = Src(i) /\ Dst(i)' = Dst(i)
  BY DEF Src, Dst
<1>3. \A k : Kept(k)' = Kept(k) /\ Landed(k)' = Landed(k) /\ Made(k)' = Made(k)
  BY <1>2 DEF Kept, Landed, Made
<1>4. \A t, k : Built(t, k)' = Built(t, k)
  BY <1>1, <1>2, <1>3 DEF Built
<1>5. Orderly' = Orderly
  BY <1>2 DEF Orderly
<1>6. Declared' = Declared
  BY DEF Declared, Covering, Vacated, Origin, Governing, Relinked
<1>7. QED
  BY <1>2, <1>4, <1>5, <1>6

(* Before the first move the tree is the one the moves start from.         *)
LEMMA NothingBuilt == before \in Trees => Built(Base, 0)
<1> SUFFICES ASSUME before \in Trees PROVE Built(Base, 0)
  OBVIOUS
<1>1. Kept(0) = DOMAIN before /\ Landed(0) = {} /\ Made(0) = {} /\ 1..0 = {}
  BY DEF Kept, Landed, Made
<1>2. DOMAIN Base = DOMAIN before /\ Base = [q \in DOMAIN Base |-> Base[q]]
  <2>1. before \in [DOMAIN before -> Content]
    BY TreesAre
  <2>2. QED
    BY <2>1, BaseIs DEF Base, Relinked
<1>3. QED
  BY <1>1, <1>2 DEF Built

(* A call that is taken on.                                                *)
LEMMA AcceptMoves ==
    ASSUME PlainCalls, MoveInv, Accept
    PROVE  MoveInv'
<1>1. Orderly'
  BY AcceptedIsOrderly DEF MoveInv, Accept
<1>2. before' \in Trees /\ tree' = before' /\ next' = 1
      /\ phase' = IF update_links' THEN "relink" ELSE "move"
  BY DEF MoveInv, Accept
<1>3. Len(items') \in Nat \ {0}
  BY <1>1 DEF Orderly
<1>4. ASSUME phase' = "move" PROVE Built(tree, next - 1)'
  <2>1. before' = Base'
    BY <1>2, <1>4 DEF Base
  <2>2. next' - 1 = 0
    BY <1>2
  <2>3. (before \in Trees => Built(Base, 0))'
    BY NothingBuilt, PTL
  <2>4. QED
    BY <1>2, <2>1, <2>2, <2>3
<1>5. QED
  BY <1>1, <1>2, <1>3, <1>4 DEF MoveInv

(* One more move.                                                          *)
LEMMA MovesOn ==
    ASSUME MoveInv, MoveOne
    PROVE  MoveInv'
<1>1. /\ phase = "move" /\ next \in 1..Len(items) /\ before \in Trees /\ Orderly
      /\ Built(tree, next - 1) /\ Len(items) \in Nat
      /\ UNCHANGED <<items, climb, overwrite, update_links, before>>
  BY ItemsAre DEF MoveInv, MoveOne
<1>2. PICK k \in Nat : k = next - 1 /\ k + 1 = next /\ k < Len(items)
  BY <1>1
<1>3. PICK t : t = RenameTree(Cleared(tree, items[next]), items[next].source, items[next].dest)
  OBVIOUS
<1>4. CanMove(Cleared(tree, items[next]), items[next]) /\ Built(t, k + 1)
  BY <1>1, <1>2, <1>3, OneMove
<1>5. tree' = t /\ next' = next + 1 /\ phase' = "move"
  BY <1>1, <1>3, <1>4 DEF MoveOne
<1>6. Built(t, k + 1)' = Built(t, k + 1) /\ Orderly'
  BY <1>1, SameCall
<1>7. Built(tree, next - 1)'
  <2>1. next' - 1 = k + 1
    BY <1>2, <1>5
  <2>2. QED
    BY <1>4, <1>5, <1>6, <2>1
<1>8. QED
  BY <1>1, <1>5, <1>6, <1>7 DEF MoveInv

(* The links are written before the first move.                            *)
LEMMA WritesLinks ==
    ASSUME MoveInv, WriteLinks
    PROVE  MoveInv'
<1>1. /\ phase = "relink" /\ next = 1 /\ before \in Trees /\ Orderly /\ update_links
      /\ tree = before /\ tree' = Relinked(tree, items) /\ phase' = "move"
      /\ UNCHANGED <<items, next, climb, overwrite, update_links, before>>
  BY DEF MoveInv, WriteLinks
<1>2. PICK t : t = Base
  OBVIOUS
<1>3. tree' = t /\ next' - 1 = 0
  BY <1>1, <1>2 DEF Base
<1>4. Built(t, 0)' = Built(t, 0) /\ Orderly' = Orderly
  BY <1>1, SameCall
<1>5. Built(t, 0)
  BY <1>1, <1>2, NothingBuilt
<1>6. Built(tree, next - 1)'
  BY <1>3, <1>4, <1>5
<1>7. Len(items) \in Nat \ {0}
  BY <1>1, ItemsAre
<1>8. QED
  BY <1>1, <1>4, <1>6, <1>7 DEF MoveInv

(* All moves are made: what is built is what is declared.                  *)
LEMMA Commits ==
    ASSUME MoveInv, Committed
    PROVE  MoveInv'
<1>1. /\ phase = "move" /\ next \in 1..(Len(items) + 1) /\ next > Len(items)
      /\ before \in Trees /\ Orderly /\ Built(tree, next - 1)
      /\ UNCHANGED <<tree, items, overwrite, update_links, before>>
      /\ phase' \in {"prune", "done"}
      /\ phase' = "prune" => next' = 1 /\ climb' = Parent(items[1].source)
  BY DEF MoveInv, Committed
<1>2. Len(items) \in Nat \ {0} /\ DOMAIN items = 1..Len(items)
  BY <1>1, ItemsAre
<1>3. next - 1 = Len(items)
  BY <1>1, <1>2
<1>4. tree = Declared
  BY <1>1, <1>2, <1>3, BuiltIsDeclared
<1>5. tree = [q \in DOMAIN tree |-> tree[q]]
  BY <1>1 DEF Built
<1>6. Pruned
  BY <1>4, <1>5 DEF Pruned
<1>7. Pruned' /\ Orderly' /\ Src(1)' = Src(1)
  BY <1>1, <1>6, SameCall DEF Pruned
<1>8. Src(1) = items[1].source /\ Src(1) \in Place /\ Src(1) # <<>>
  BY <1>1, <1>2, ItemsAre DEF Src
<1>9. phase' = "prune" =>
        climb' \in Place /\ IsPrefix(climb', Src(1)) /\ climb' # Src(1) /\ next' = 1
  BY <1>1, <1>8, ParentIs
<1>10. phase' = "prune" => (climb \in Place /\ IsPrefix(climb, Src(next)) /\ climb # Src(next))'
  BY <1>7, <1>9
<1>11. QED
  BY <1>1, <1>2, <1>7, <1>9, <1>10 DEF MoveInv

(* An empty directory goes: it was one that a source lay in.               *)
LEMMA PrunesOne ==
    ASSUME MoveInv, PruneOne
    PROVE  /\ MoveInv'
           /\ Notes(tree') = Notes(tree)
           /\ \A q \in DOMAIN tree \ DOMAIN tree' : IsStrictPrefix(q, items[next].source)
<1>1. /\ phase = "prune" /\ Empty(tree, climb) /\ next \in 1..Len(items)
      /\ before \in Trees /\ Orderly /\ Pruned
      /\ climb \in Place /\ IsPrefix(climb, Src(next)) /\ climb # Src(next)
      /\ UNCHANGED <<phase, items, next, overwrite, update_links, before>>
      /\ climb' = Parent(climb) /\ next \in DOMAIN items
  BY ItemsAre DEF MoveInv, PruneOne
<1>2. Src(next) \in Place /\ Src(next) # <<>>
  BY <1>1, ItemsAre
<1>3. Under(tree, climb) = {climb} /\ climb # <<>> /\ climb \in DOMAIN tree
  BY <1>1 DEF Empty, Under
<1>4. Declared[climb] = Directory /\ climb \in DOMAIN Declared
  BY <1>1, <1>3, AroundSources DEF Pruned
<1>5. PICK D : D = DOMAIN tree \ {climb}
  OBVIOUS
<1>6. tree' = [q \in D |-> tree[q]] /\ DOMAIN tree' = D
  BY <1>1, <1>3, <1>5 DEF PruneOne, Without, Restrict
<1>7. \A q \in DOMAIN tree : tree[q] = Declared[q]
  BY <1>1 DEF Pruned
<1>8. Declared' = Declared /\ Orderly' = Orderly /\ Src(next)' = Src(next)
  BY <1>1, SameCall DEF Src
<1>9. Pruned'
  <2>1. tree' = [q \in D |-> Declared[q]]
    BY <1>5, <1>6, <1>7
  <2>2. DOMAIN tree' \subseteq DOMAIN Declared
    BY <1>1, <1>5, <1>6 DEF Pruned
  <2>3. \A q \in DOMAIN Declared : Declared[q] # Directory => q \in DOMAIN tree'
    BY <1>1, <1>4, <1>5, <1>6 DEF Pruned
  <2>4. QED
    BY <1>6, <1>8, <2>1, <2>2, <2>3 DEF Pruned
<1>10. climb' \in Place /\ IsPrefix(climb', Src(next)) /\ climb' # Src(next)
  <2>1. Parent(climb) \in Place /\ IsPrefix(Parent(climb), climb) /\ Parent(climb) # climb
    BY <1>1, <1>3, ParentIs
  <2>2. QED
    BY <1>1, <1>2, <2>1, PrefixOrder
<1>11. MoveInv'
  BY <1>1, <1>8, <1>9, <1>10 DEF MoveInv
<1>12. Notes(tree') = Notes(tree)
  <2>1. tree[climb] = Directory
    BY <1>3, <1>4, <1>7
  <2>2. {q \in D : tree'[q] # Directory} = {q \in DOMAIN tree : tree[q] # Directory}
    BY <1>5, <1>6, <2>1
  <2>3. PICK N : N = {q \in D : tree'[q] # Directory}
    OBVIOUS
  <2>4. [q \in N |-> tree'[q]] = [q \in N |-> tree[q]]
    BY <1>6, <2>3
  <2>5. QED
    BY <1>6, <2>2, <2>3, <2>4 DEF Notes, Restrict
<1>13. \A q \in DOMAIN tree \ DOMAIN tree' : IsStrictPrefix(q, items[next].source)
  BY <1>1, <1>5, <1>6 DEF IsStrictPrefix, Src
<1>14. QED
  BY <1>11, <1>12, <1>13

(* Pruning goes on to the next source, or ends.                            *)
LEMMA PrunesOn ==
    ASSUME MoveInv, PruneNext
    PROVE  MoveInv'
<1>1. /\ phase = "prune" /\ next \in 1..Len(items) /\ Len(items) \in Nat
      /\ before \in Trees /\ Orderly /\ Pruned
      /\ UNCHANGED <<tree, items, overwrite, update_links, before>>
  BY ItemsAre DEF MoveInv, PruneNext
<1>2. Pruned' /\ Orderly'
  BY <1>1, SameCall DEF Pruned
<1>3. CASE next < Len(items)
  <2>1. PICK k \in Nat : k = next + 1 /\ k \in 1..Len(items)
    BY <1>1, <1>3
  <2>2. next' = k /\ climb' = Parent(Src(k)) /\ phase' = "prune"
    BY <1>3, <2>1 DEF PruneNext, Src
  <2>3. climb' \in Place /\ IsPrefix(climb', Src(k)) /\ climb' # Src(k)
    BY <1>1, <2>1, <2>2, ItemsAre, ParentIs
  <2>4. Src(k)' = Src(k)
    BY <1>1 DEF Src
  <2>5. (climb \in Place /\ IsPrefix(climb, Src(next)) /\ climb # Src(next))'
    BY <2>2, <2>3, <2>4
  <2>6. QED
    BY <1>1, <1>2, <2>1, <2>2, <2>5 DEF MoveInv
<1>4. CASE ~(next < Len(items))
  <2>1. phase' = "done"
    BY <1>4 DEF PruneNext
  <2>2. QED
    BY <1>1, <1>2, <2>1 DEF MoveInv
<1>5. QED
  BY <1>3, <1>4

(* Every step.                                                             *)
LEMMA StepMoves ==
    ASSUME PlainCalls, MoveInv, [Next]_vars
    PROVE  MoveInv'
<1>1. CASE Reject
  BY <1>1 DEF Reject, MoveInv
<1>2. CASE UNCHANGED vars
  <2>1. Orderly' = Orderly /\ Declared' = Declared /\ \A i : Src(i)' = Src(i)
    BY <1>2, SameCall DEF vars
  <2>2. Built(tree, next - 1)' = Built(tree, next - 1)
    BY <1>2 DEF vars, Built, Kept, Landed, Made, Src, Dst, Base, Relinked
  <2>3. Pruned' = Pruned
    BY <1>2, <2>1 DEF vars, Pruned
  <2>4. QED
    BY <1>2, <2>1, <2>2, <2>3 DEF vars, MoveInv
<1>3. QED
  BY <1>1, <1>2, AcceptMoves, WritesLinks, MovesOn, Commits, PrunesOne, PrunesOn DEF Next

-----------------------------------------------------------------------------
(* What the tree is like at any time: before a call, after each move, when *)
(* all are made, and while emptied directories are pruned.                 *)
THEOREM MovesCorrect ==
    ASSUME PlainCalls
    PROVE  Spec => []MoveInv
BY InitMoves, StepMoves, PTL DEF Spec

(* A batch that is accepted is carried out: no move finds its source gone  *)
(* or a note where it needs a directory.                                   *)
THEOREM NoBatchFails ==
    ASSUME PlainCalls
    PROVE  Spec => []NeverFailsMidway
<1>1. MoveInv => NeverFailsMidway
  BY DEF MoveInv, NeverFailsMidway
<1>2. QED
  BY <1>1, MovesCorrect, PTL

(* Pruning leaves the notes.                                               *)
LEMMA SameNotes == Pruned => Notes(tree) = Notes(Declared)
<1> SUFFICES ASSUME Pruned PROVE Notes(tree) = Notes(Declared)
  OBVIOUS
<1>1. \A q \in DOMAIN tree : tree[q] = Declared[q] /\ q \in DOMAIN Declared
  BY DEF Pruned
<1>2. \A q \in DOMAIN Declared : Declared[q] # Directory => q \in DOMAIN tree
  BY DEF Pruned
<1>3. PICK N : N = {q \in DOMAIN tree : tree[q] # Directory}
  OBVIOUS
<1>4. N = {q \in DOMAIN Declared : Declared[q] # Directory}
  BY <1>1, <1>2, <1>3
<1>5. [q \in N |-> tree[q]] = [q \in N |-> Declared[q]]
  BY <1>1, <1>3
<1>6. QED
  BY <1>3, <1>4, <1>5 DEF Notes, Restrict

(* What comes out is the tree the items declare, whatever the order they   *)
(* came in; pruning leaves every note of it.                               *)
THEOREM MovesLand ==
    ASSUME PlainCalls
    PROVE  Spec => []LandsAsDeclared
<1>1. MoveInv => LandsAsDeclared
  <2> SUFFICES ASSUME MoveInv PROVE LandsAsDeclared
    OBVIOUS
  <2>1. ASSUME phase = "move", next > Len(items) PROVE tree = Declared
    <3>1. /\ next \in 1..(Len(items) + 1) /\ Built(tree, next - 1) /\ Orderly /\ before \in Trees
      BY <2>1 DEF MoveInv
    <3>2. Len(items) \in Nat
      BY <3>1, ItemsAre
    <3>3. next - 1 = Len(items)
      BY <2>1, <3>1, <3>2
    <3>4. QED
      BY <3>1, <3>2, <3>3, BuiltIsDeclared
  <2>2. phase \in {"prune", "done"} => Notes(tree) = Notes(Declared)
    BY SameNotes DEF MoveInv
  <2>3. QED
    BY <2>1, <2>2 DEF LandsAsDeclared
<1>2. QED
  BY <1>1, MovesCorrect, PTL

(* A note of the tree that comes out is one that was there, at the place   *)
(* its item or nobody gave it.                                             *)
LEMMA NotesCameFrom ==
    ASSUME before \in Trees, Orderly, Pruned, NEW q \in DOMAIN tree, tree[q] # Directory
    PROVE  \E w \in DOMAIN before :
             /\ before[w] # Directory /\ tree[q] = Base[w] /\ tree[q].of = w /\ w \in Place
             /\ \/ q = w /\ \A i \in DOMAIN items : ~IsPrefix(Src(i), w)
                \/ \E i \in DOMAIN items : IsPrefix(Src(i), w) /\ q = Shift(Src(i), Dst(i), w)
<1>1. PICK n \in Nat : n = Len(items) /\ DOMAIN items = 1..n
  BY ItemsAre
<1>2. tree[q] = Declared[q] /\ q \in DOMAIN Declared
  BY DEF Pruned
<1>3. DOMAIN Declared = Kept(n) \cup Landed(n) \cup Made(n)
  BY <1>1, DeclaredIs
<1>4. \A w \in DOMAIN before : Base[w] # Directory =>
         before[w] # Directory /\ Base[w].of = w /\ w \in Place
  BY BaseIs, TreesAre
<1>5. CASE q \in Kept(n)
  <2>1. Declared[q] = Base[q] /\ q \in DOMAIN before
    BY <1>1, <1>5, DeclaredIs
  <2>2. \A i \in DOMAIN items : ~IsPrefix(Src(i), q)
    BY <1>1, <1>5 DEF Kept
  <2>3. QED
    BY <1>2, <1>4, <2>1, <2>2
<1>6. CASE q \in Landed(n)
  <2>1. PICK i \in 1..n : q \in {Shift(Src(i), Dst(i), p) : p \in Under(before, Src(i))}
    BY <1>6 DEF Landed
  <2>2. PICK p \in Under(before, Src(i)) : q = Shift(Src(i), Dst(i), p)
    BY <2>1
  <2>3. Declared[q] = Base[p]
    BY <1>1, <2>2, DeclaredIs
  <2>4. p \in DOMAIN before /\ IsPrefix(Src(i), p)
    BY DEF Under
  <2>5. QED
    BY <1>1, <1>2, <1>4, <2>2, <2>3, <2>4
<1>7. QED
  BY <1>1, <1>2, <1>3, <1>5, <1>6, DeclaredIs

(* Every note there was is at the place its item or nobody gave it.        *)
LEMMA NotesWentTo ==
    ASSUME before \in Trees, Orderly, Pruned, ~overwrite,
           NEW w \in DOMAIN before, before[w] # Directory
    PROVE  \E q \in DOMAIN tree : tree[q] # Directory /\ tree[q].of = w
<1>1. PICK n \in Nat : n = Len(items) /\ DOMAIN items = 1..n
  BY ItemsAre
<1>2. DOMAIN Declared = Kept(n) \cup Landed(n) \cup Made(n)
  BY <1>1, DeclaredIs
<1>3. Base[w] # Directory /\ Base[w].of = w /\ w \in Place
  BY BaseIs, TreesAre
<1>4. SUFFICES \E q \in DOMAIN Declared : Declared[q] = Base[w]
  <2>1. \A q \in DOMAIN Declared : Declared[q] = Base[w] => q \in DOMAIN tree /\ tree[q] = Base[w]
    BY <1>3 DEF Pruned
  <2>2. QED
    BY <1>3, <1>4, <2>1
<1>5. CASE \E i \in 1..n : IsPrefix(Src(i), w)
  <2>1. PICK i \in 1..n : IsPrefix(Src(i), w)
    BY <1>5
  <2>2. w \in Under(before, Src(i))
    BY <2>1 DEF Under
  <2>3. Shift(Src(i), Dst(i), w) \in Landed(n)
    BY <2>2 DEF Landed
  <2>4. Declared[Shift(Src(i), Dst(i), w)] = Base[w]
    BY <1>1, <2>2, DeclaredIs
  <2>5. QED
    BY <1>2, <2>3, <2>4
<1>6. CASE \A i \in 1..n : ~IsPrefix(Src(i), w)
  <2>1. ASSUME NEW i \in 1..n PROVE ~IsPrefix(Dst(i), w)
    <3>1. Dst(i) \notin DOMAIN before /\ Dst(i) \in Place /\ Dst(i) # <<>>
      BY <1>1, ItemsAre DEF Orderly
    <3>2. QED
      BY <3>1, TreesAre
  <2>2. w \in Kept(n)
    BY <1>6, <2>1 DEF Kept
  <2>3. Declared[w] = Base[w]
    BY <1>1, <2>2, DeclaredIs
  <2>4. QED
    BY <1>2, <2>2, <2>3
<1>7. QED
  BY <1>5, <1>6

(* Without overwrite every body there was is still there, and no other.    *)
THEOREM NoBodyIsLost ==
    ASSUME PlainCalls
    PROVE  Spec => []NoBodyLost
<1>1. MoveInv => NoBodyLost
  <2> SUFFICES ASSUME MoveInv, ~overwrite, phase \in {"prune", "done"}
               PROVE  Bodies(tree) = Bodies(before)
    BY DEF NoBodyLost
  <2>1. before \in Trees /\ Orderly /\ Pruned
    BY DEF MoveInv
  <2>2. /\ Bodies(tree) = {tree[q].of : q \in {r \in DOMAIN tree : tree[r] # Directory}}
        /\ Bodies(before) = {before[q].of : q \in {r \in DOMAIN before : before[r] # Directory}}
    <3>1. ASSUME NEW t PROVE Bodies(t) = {t[q].of : q \in {r \in DOMAIN t : t[r] # Directory}}
      <4> DEFINE N == {r \in DOMAIN t : t[r] # Directory}
      <4>1. Notes(t) = [q \in N |-> t[q]]
        BY DEF Notes, Restrict
      <4> HIDE DEF N
      <4>2. DOMAIN Notes(t) = N
        BY <4>1
      <4>3. QED
        BY <4>2 DEF Bodies, N
    <3>2. QED
      BY <3>1
  <2>3. ASSUME NEW q \in DOMAIN tree, tree[q] # Directory
        PROVE  \E w \in DOMAIN before : before[w] # Directory /\ before[w].of = tree[q].of
    BY <2>1, <2>3, NotesCameFrom, TreesAre
  <2>4. ASSUME NEW w \in DOMAIN before, before[w] # Directory
        PROVE  \E q \in DOMAIN tree : tree[q] # Directory /\ tree[q].of = before[w].of
    BY <2>1, <2>4, NotesWentTo, TreesAre
  <2>5. \A b \in Bodies(tree) : b \in Bodies(before)
    BY <2>2, <2>3
  <2>6. \A b \in Bodies(before) : b \in Bodies(tree)
    BY <2>2, <2>4
  <2>7. QED
    BY <2>5, <2>6
<1>2. QED
  BY <1>1, MovesCorrect, PTL

(* Pruning takes nothing but directories a source lay in.                  *)
THEOREM OnlySourcesArePruned ==
    ASSUME PlainCalls
    PROVE  Spec => PrunesOnlySources
<1>1. ASSUME MoveInv, [Next]_vars, phase = "prune", tree' # tree
      PROVE  /\ Notes(tree') = Notes(tree)
             /\ \A q \in DOMAIN tree \ DOMAIN tree' :
                  \E i \in DOMAIN items : IsStrictPrefix(q, items[i].source)
  <2>1. PruneOne
    BY <1>1 DEF Next, Accept, Reject, WriteLinks, MoveOne, Committed, PruneNext, vars
  <2>2. next \in DOMAIN items
    BY <1>1, ItemsAre DEF MoveInv
  <2>3. QED
    BY <1>1, <2>1, <2>2, PrunesOne
<1>2. QED
  BY <1>1, MovesCorrect, PTL DEF Spec, PrunesOnlySources

-----------------------------------------------------------------------------
(* Where a link leads. *)

(* Following a link is a fold over its segments, from the first on. *)
Highest(t) == Max(t)
Onward == INSTANCE Folding WITH Then <- Walk, Pick <- Highest

(* The highest of a set of indices.                                        *)
LEMMA HighestIs ==
    ASSUME NEW N \in Nat, NEW t \in SUBSET (1..N), t # {}
    PROVE  Highest(t) \in t /\ \A m \in t : m <= Highest(t)
<1>1. PICK x \in t : \A y \in t : x >= y
  BY Onward!Extremes
<1>2. PICK z : z = Highest(t)
  OBVIOUS
<1>3. z \in t /\ \A y \in t : z >= y
  BY <1>1, <1>2 DEF Highest, Max
<1>4. QED
  BY <1>2, <1>3

(* Where the walk is after each of its segments. *)
Walked(c, v, s, N) == c[0] = v /\ \A n \in 1..N : c[n] = Walk(c[n - 1], s[n])

(* Following the segments of a link is such a chain.                       *)
LEMMA WalkIsChain ==
    ASSUME NEW N \in Nat, NEW s, DOMAIN s = 1..N, NEW v
    PROVE  \E c : Walked(c, v, s, N) /\ FoldLeft(Walk, v, s) = c[N]
<1> DEFINE f == CHOOSE g : Onward!IsFold(g, s, v, DOMAIN s)
<1>1. \A t \in SUBSET (1..N) : t # {} => Highest(t) \in t
  BY HighestIs
<1>2. FoldLeft(Walk, v, s) = f[DOMAIN s]
  BY DEF FoldLeft, MapThenFoldSet, Onward!IsFold, Onward!Turn, Highest
<1>3. f = CHOOSE g : Onward!IsFold(g, s, v, 1..N)
  OBVIOUS
<1> HIDE DEF f
<1>4. Onward!IsFold(f, s, v, 1..N)
  BY <1>1, <1>3, Onward!FoldExists
<1>5. Onward!PicksLast(N)
  BY HighestIs DEF Onward!PicksLast
<1>6. PICK c : Onward!Onwards(c, s, v, N) /\ f[1..N] = c[N]
  BY <1>4, <1>5, Onward!LeftIsChain
<1>7. QED
  BY <1>2, <1>6 DEF Walked, Onward!Onwards

(* One field of two is replaced.                                           *)
LEMMA FieldIs ==
    ASSUME NEW o, NEW a, NEW b
    PROVE  [[ok |-> o, at |-> a] EXCEPT !.at = b] = [ok |-> o, at |-> b]
OBVIOUS

(* A step up, and a step down.                                             *)
LEMMA WalkUp ==
    ASSUME NEW a, a # <<>>
    PROVE  Walk([ok |-> TRUE, at |-> a], "..") = [ok |-> TRUE, at |-> Front(a)]
<1> DEFINE r == [ok |-> TRUE, at |-> a]
<1>1. r.at # <<>> /\ r.at = a
  OBVIOUS
<1>2. [r EXCEPT !.at = Front(a)] = [ok |-> TRUE, at |-> Front(a)]
  BY FieldIs, Zenon
<1>3. ".." \notin {"", "."}
  OBVIOUS
<1> HIDE DEF r
<1>4. Walk(r, "..") = [r EXCEPT !.at = Front(a)]
  BY <1>1, <1>3 DEF Walk
<1>5. QED
  BY <1>2, <1>4 DEF r

LEMMA WalkDown ==
    ASSUME NEW a, NEW x, x \notin {"", ".", ".."}
    PROVE  Walk([ok |-> TRUE, at |-> a], x) = [ok |-> TRUE, at |-> Append(a, x)]
<1> DEFINE r == [ok |-> TRUE, at |-> a]
<1>0. r.at = a
  OBVIOUS
<1>1. [r EXCEPT !.at = Append(a, x)] = [ok |-> TRUE, at |-> Append(a, x)]
  BY FieldIs, Zenon
<1> HIDE DEF r
<1>2. Walk(r, x) = [r EXCEPT !.at = Append(a, x)]
  BY <1>0 DEF Walk
<1>3. QED
  BY <1>1, <1>2 DEF r

(* From a directory, up so many times and then down along some names. *)
Ups(k) == [i \in 1..k |-> ".."]
Top(p, n) == SubSeq(p, 1, n)

(* The first n names of a path.                                            *)
LEMMA TopIs ==
    ASSUME NEW p \in Place, NEW n \in Nat, n <= Len(p)
    PROVE  Top(p, n) \in Place /\ Len(Top(p, n)) = n /\ \A i \in 1..n : Top(p, n)[i] = p[i]
BY DEF Top, Place

(* Up from a directory.                                                    *)
LEMMA TopShorter ==
    ASSUME NEW p \in Place, NEW n \in Nat, n + 1 <= Len(p)
    PROVE  Front(Top(p, n + 1)) = Top(p, n) /\ Top(p, n + 1) # <<>>
<1>1. PICK a \in Place : a = Top(p, n + 1) /\ Len(a) = n + 1 /\ \A i \in 1..(n + 1) : a[i] = p[i]
  BY TopIs
<1>2. Len(p) \in Nat /\ n <= Len(p) /\ n <= Len(a) /\ Len(a) - 1 = n
  BY <1>1 DEF Place
<1>3. PICK b \in Place : b = Top(a, n) /\ Len(b) = n /\ \A i \in 1..n : b[i] = a[i]
  BY <1>2, TopIs
<1>4. PICK d \in Place : d = Top(p, n) /\ Len(d) = n /\ \A i \in 1..n : d[i] = p[i]
  BY <1>2, TopIs
<1>5. b = d
  BY <1>1, <1>3, <1>4, SamePlace
<1>6. Front(a) = b
  BY <1>2, <1>3 DEF Front, Top
<1>7. a # <<>>
  BY <1>1
<1>8. QED
  BY <1>1, <1>4, <1>5, <1>6, <1>7

(* Down by a name.                                                         *)
LEMMA TopLonger ==
    ASSUME NEW a \in Place, NEW p \in Place, NEW n \in Nat, n + 1 <= Len(p)
    PROVE  Append(a \o Top(p, n), p[n + 1]) = a \o Top(p, n + 1)
<1>1. PICK L \in Nat : L = Len(p)
  BY DEF Place
<1>2. PICK d \in Place : d = Top(p, n) /\ Len(d) = n /\ \A i \in 1..n : d[i] = p[i]
  BY <1>1, TopIs
<1>3. PICK e \in Place : e = Top(p, n + 1) /\ Len(e) = n + 1 /\ \A i \in 1..(n + 1) : e[i] = p[i]
  BY <1>1, TopIs
<1>4. PICK A \in Nat : A = Len(a)
  BY DEF Place
<1>5. PICK b \in Place : /\ b = a \o d /\ Len(b) = A + n
                         /\ \A i \in 1..A : b[i] = a[i]
                         /\ \A i \in 1..n : b[A + i] = d[i]
  <2>1. /\ a \o d \in Place /\ Len(a \o d) = Len(a) + Len(d)
        /\ \A i \in 1..Len(a) : (a \o d)[i] = a[i]
        /\ \A i \in 1..Len(d) : (a \o d)[Len(a) + i] = d[i]
    BY <1>2, Joined
  <2>2. QED
    BY <1>2, <1>4, <2>1
<1>6. PICK h \in Place : /\ h = a \o e /\ Len(h) = A + (n + 1)
                         /\ \A i \in 1..A : h[i] = a[i]
                         /\ \A i \in 1..(n + 1) : h[A + i] = e[i]
  <2>1. /\ a \o e \in Place /\ Len(a \o e) = Len(a) + Len(e)
        /\ \A i \in 1..Len(a) : (a \o e)[i] = a[i]
        /\ \A i \in 1..Len(e) : (a \o e)[Len(a) + i] = e[i]
    BY <1>3, Joined
  <2>2. QED
    BY <1>3, <1>4, <2>1
<1>7. p[n + 1] \in Name
  BY <1>1 DEF Place
<1>8. PICK g \in Place : /\ g = Append(b, p[n + 1]) /\ Len(g) = A + (n + 1)
                         /\ \A i \in 1..(A + n) : g[i] = b[i]
                         /\ g[A + (n + 1)] = p[n + 1]
  <2>1. Append(b, p[n + 1]) \in Place
    BY <1>7 DEF Place
  <2>2. /\ Len(Append(b, p[n + 1])) = Len(b) + 1
        /\ \A i \in 1..Len(b) : Append(b, p[n + 1])[i] = b[i]
        /\ Append(b, p[n + 1])[Len(b) + 1] = p[n + 1]
    BY <1>7 DEF Place
  <2>3. Len(b) + 1 = A + (n + 1)
    BY <1>5
  <2>4. QED
    BY <1>5, <2>1, <2>2, <2>3
<1>9. ASSUME NEW i \in 1..(A + (n + 1)) PROVE g[i] = h[i]
  <2>1. CASE i <= A
    BY <1>5, <1>6, <1>8, <2>1
  <2>2. CASE i > A /\ i <= A + n
    <3>1. PICK j \in 1..n : i = A + j
      <4>1. i - A \in 1..n /\ i = A + (i - A)
        BY <2>2
      <4>2. QED
        BY <4>1
    <3>2. h[i] = e[j] /\ e[j] = p[j]
      BY <1>3, <1>6, <3>1
    <3>3. g[i] = b[i] /\ b[i] = d[j] /\ d[j] = p[j]
      BY <1>2, <1>5, <1>8, <2>2, <3>1
    <3>4. QED
      BY <3>2, <3>3
  <2>3. CASE i = A + (n + 1)
    BY <1>3, <1>6, <1>8, <2>3
  <2>4. QED
    BY <2>1, <2>2, <2>3
<1>10. g = h
  BY <1>6, <1>8, <1>9, SamePlace
<1>11. QED
  BY <1>2, <1>3, <1>5, <1>6, <1>8, <1>10

(* Where k times ".." and then some names lead from a directory.           *)
LEMMA UpAndDown ==
    ASSUME NEW from \in Place, NEW k \in Nat, k <= Len(from), NEW names \in Place
    PROVE  FoldLeft(Walk, [ok |-> TRUE, at |-> from], Ups(k) \o names)
              = [ok |-> TRUE, at |-> Top(from, Len(from) - k) \o names]
<1>1. PICK L \in Nat, m \in Nat : L = Len(from) /\ m = Len(names)
  BY DEF Place
<1>2. \A x \in Name : x \notin {"", ".", ".."}
  BY NamesAssumption
<1> DEFINE s == Ups(k) \o names
<1>3. /\ DOMAIN s = 1..(k + m)
      /\ \A n \in 1..k : s[n] = ".."
      /\ \A n \in 1..m : s[k + n] = names[n] /\ names[n] \in Name
  <2>1. Ups(k) \in Seq({".."}) /\ Len(Ups(k)) = k /\ \A n \in 1..k : Ups(k)[n] = ".."
    BY DEF Ups
  <2>2. names \in Seq(Name) /\ Len(names) = m
    BY <1>1 DEF Place
  <2> HIDE DEF Ups
  <2>3. Ups(k) \in Seq({".."} \cup Name) /\ names \in Seq({".."} \cup Name)
    BY <2>1, <2>2
  <2>4. /\ s \in Seq({".."} \cup Name) /\ Len(s) = k + m
        /\ \A n \in 1..(k + m) : s[n] = IF n <= k THEN Ups(k)[n] ELSE names[n - k]
    BY <2>1, <2>2, <2>3
  <2> HIDE DEF s
  <2>5. \A n \in 1..m : k + n \in 1..(k + m) /\ ~(k + n <= k) /\ (k + n) - k = n
    BY <1>1
  <2>6. QED
    BY <1>1, <2>1, <2>2, <2>4, <2>5
<1> HIDE DEF s
<1> DEFINE v == [ok |-> TRUE, at |-> from]
           At(n) == IF n <= k THEN Top(from, L - n) ELSE Top(from, L - k) \o Top(names, n - k)
<1>4. PICK c : Walked(c, v, s, k + m) /\ FoldLeft(Walk, v, s) = c[k + m]
  BY <1>1, <1>3, WalkIsChain
<1> DEFINE T == {n \in Nat : n <= k + m => c[n] = [ok |-> TRUE, at |-> At(n)]}
<1>5. 0 \in T
  <2>1. Top(from, L) = from
    BY <1>1, TopIs DEF Top, Place
  <2>2. QED
    BY <1>1, <1>4, <2>1 DEF Walked
<1>6. ASSUME NEW n \in T PROVE n + 1 \in T
  <2> SUFFICES ASSUME n + 1 <= k + m PROVE c[n + 1] = [ok |-> TRUE, at |-> At(n + 1)]
    OBVIOUS
  <2>1. n \in Nat /\ n + 1 \in 1..(k + m) /\ (n + 1) - 1 = n /\ n <= k + m
    BY <1>1
  <2>2. c[n] = [ok |-> TRUE, at |-> At(n)] /\ c[n + 1] = Walk(c[n], s[n + 1])
    BY <1>4, <2>1 DEF Walked
  <2>3. CASE n + 1 <= k
    <3>1. s[n + 1] = ".." /\ At(n) = Top(from, L - n) /\ At(n + 1) = Top(from, L - (n + 1))
      BY <1>3, <2>1, <2>3
    <3>2. PICK l \in Nat : l = L - (n + 1) /\ l + 1 = L - n /\ l + 1 <= L
      BY <1>1, <2>1, <2>3
    <3>3. PICK a : a = Top(from, l + 1) /\ Front(a) = Top(from, l) /\ a # <<>>
      BY <1>1, <3>2, TopShorter
    <3> HIDE DEF At
    <3>4. c[n] = [ok |-> TRUE, at |-> a] /\ At(n + 1) = Front(a)
      BY <2>2, <3>1, <3>2, <3>3
    <3>5. QED
      BY <2>2, <3>1, <3>3, <3>4, WalkUp
  <2>4. CASE ~(n + 1 <= k)
    <3>1. PICK j \in Nat : n = k + j /\ j + 1 <= m
      <4>1. n - k \in Nat /\ n = k + (n - k) /\ (n - k) + 1 <= m
        BY <1>1, <2>1, <2>4
      <4>2. QED
        BY <4>1
    <3>2. s[n + 1] = names[j + 1] /\ names[j + 1] \in Name
      <4>1. PICK l \in 1..m : l = j + 1
        BY <3>1
      <4>2. s[k + l] = names[l] /\ names[l] \in Name
        BY <1>3
      <4>3. k + l = n + 1
        BY <3>1, <4>1
      <4>4. QED
        BY <4>1, <4>2, <4>3
    <3>3. L - k \in Nat /\ L - k <= L
      BY <1>1
    <3>4. PICK a \in Place : a = Top(from, L - k)
      BY <1>1, <3>3, TopIs
    <3>5. PICK d : d = a \o Top(names, j)
      OBVIOUS
    <3>6. At(n) = d
      <4>1. CASE j = 0
        <5>1. n <= k /\ L - n = L - k
          BY <3>1, <4>1
        <5>2. Top(names, j) = <<>>
          BY <4>1 DEF Top
        <5>3. d = a
          BY <3>5, <5>2 DEF Place
        <5>4. QED
          BY <3>4, <5>1, <5>3
      <4>2. CASE j # 0
        <5>1. ~(n <= k) /\ n - k = j
          BY <3>1, <4>2
        <5>2. QED
          BY <3>4, <3>5, <5>1
      <4>3. QED
        BY <4>1, <4>2
    <3>7. At(n + 1) = a \o Top(names, j + 1)
      <4>1. ~(n + 1 <= k) /\ (n + 1) - k = j + 1
        BY <3>1
      <4>2. QED
        BY <3>4, <4>1
    <3>8. Append(d, names[j + 1]) = a \o Top(names, j + 1)
      BY <1>1, <3>1, <3>4, <3>5, TopLonger
    <3> HIDE DEF At
    <3>9. c[n] = [ok |-> TRUE, at |-> d] /\ At(n + 1) = Append(d, names[j + 1])
      BY <2>2, <3>6, <3>7, <3>8
    <3>10. s[n + 1] \notin {"", ".", ".."}
      BY <1>2, <3>2
    <3>11. QED
      BY <2>2, <3>2, <3>9, <3>10, WalkDown
  <2>5. QED
    BY <2>3, <2>4
<1>7. T = Nat
  <2> HIDE DEF T
  <2>1. T \in SUBSET Nat
    BY DEF T
  <2>2. QED
    BY <1>5, <1>6, <2>1, Onward!Grows
<1>8. c[k + m] = [ok |-> TRUE, at |-> At(k + m)]
  <2> HIDE DEF At
  <2>1. \A n \in Nat : n \in T
    BY <1>7
  <2>2. k + m \in Nat /\ k + m <= k + m
    BY <1>1
  <2>3. QED
    BY <2>1, <2>2
<1>9. At(k + m) = Top(from, L - k) \o names
  <2>1. CASE m = 0
    <3>1. names = <<>>
      <4>1. <<>> \in Place /\ Len(<<>>) = 0
        BY DEF Place
      <4>2. Len(names) = 0 /\ \A i \in 1..0 : names[i] = <<>>[i]
        BY <1>1, <2>1
      <4>3. QED
        BY <4>1, <4>2, SamePlace
    <3>a. L - k \in Nat /\ L - k <= L
      BY <1>1
    <3>b. Top(from, L - k) \in Place
      BY <1>1, <3>a, TopIs
    <3>2. QED
      BY <1>1, <2>1, <3>1, <3>b DEF Place
  <2>2. CASE m # 0
    <3>1. ~(k + m <= k) /\ (k + m) - k = m
      BY <1>1, <2>2
    <3>2. Top(names, m) = names
      BY <1>1 DEF Top, Place
    <3>3. QED
      BY <3>1, <3>2
  <2>3. QED
    BY <2>1, <2>2
<1>10. QED
  BY <1>1, <1>4, <1>8, <1>9 DEF s, v

(* A link up and then down has segments, and begins with ".." or a name.   *)
LEMMA UpsThen ==
    ASSUME NEW k \in Nat, NEW names \in Place, names # <<>>
    PROVE  LET s == Ups(k) \o names IN s # <<>> /\ Head(s) \in Name \cup {".."}
<1>1. Ups(k) \in Seq({".."}) /\ Len(Ups(k)) = k
  BY DEF Ups
<1>2. names \in Seq(Name) /\ Len(names) \in Nat /\ Len(names) # 0
  BY DEF Place
<1>3. PICK S : S = Name \cup {".."}
  OBVIOUS
<1>4. PICK u \in Seq(S) : u = Ups(k) /\ Len(u) = k
  BY <1>1, <1>3
<1>5. names \in Seq(S)
  BY <1>2, <1>3
<1>6. u \o names \in Seq(S) /\ Len(u \o names) # 0
  <2>1. u \o names \in Seq(S) /\ Len(u \o names) = Len(u) + Len(names)
    BY <1>4, <1>5
  <2>2. QED
    BY <1>2, <1>4, <2>1
<1>7. u \o names # <<>> /\ Head(u \o names) \in S
  BY <1>6
<1>8. QED
  BY <1>3, <1>4, <1>7

(* What two directories have in common.                                    *)
LEMMA CommonIs ==
    ASSUME NEW a \in Place, NEW b \in Place
    PROVE  \E n \in Nat : /\ n = Len(LongestCommonPrefix({a, b}))
                          /\ n <= Len(a) /\ n <= Len(b) /\ Top(a, n) = Top(b, n)
<1>1. PICK A \in Nat : A = Len(a)
  BY DEF Place
<1>2. PICK C : C = CommonPrefixes({a, b})
  OBVIOUS
<1>3. \A x \in C : x \in Place /\ IsPrefix(x, a) /\ IsPrefix(x, b)
  <2>1. ASSUME NEW x \in C PROVE x \in Place /\ IsPrefix(x, a) /\ IsPrefix(x, b)
    <3>1. IsPrefix(x, a) /\ IsPrefix(x, b)
      BY <1>2 DEF CommonPrefixes
    <3>2. PICK t \in {a, b} : x \in Prefixes(t)
      BY <1>2 DEF CommonPrefixes
    <3>3. PICK l \in 0..Len(t) : x = SubSeq(t, 1, l)
      BY <3>2 DEF Prefixes
    <3>4. t \in Place
      OBVIOUS
    <3>5. x \in Place
      BY <3>3, <3>4 DEF Place
    <3>6. QED
      BY <3>1, <3>5
  <2>2. QED
    BY <2>1
<1>4. <<>> \in C
  <2>1. <<>> \in Place /\ Len(<<>>) = 0
    BY DEF Place
  <2>2. IsPrefix(<<>>, a) /\ IsPrefix(<<>>, b)
    <3>1. 1..Len(<<>>) = {} /\ Len(<<>>) <= Len(a) /\ Len(<<>>) <= Len(b)
      BY <2>1 DEF Place
    <3>2. QED
      BY <2>1, <3>1, PrefixIs
  <2>3. 0 \in 0..Len(a) /\ <<>> = SubSeq(a, 1, 0)
    BY <1>1
  <2>4. QED
    BY <1>2, <2>2, <2>3 DEF CommonPrefixes, Prefixes
<1> DEFINE u == {Len(x) + 1 : x \in C}
<1>5. \A x \in C : Len(x) \in Nat /\ Len(x) <= A
  BY <1>1, <1>3, PrefixOrder DEF Place
<1>6. u \in SUBSET (1..(A + 1)) /\ u # {}
  BY <1>1, <1>4, <1>5
<1>7. PICK z \in u : \A y \in u : z >= y
  <2> HIDE DEF u
  <2>1. A + 1 \in Nat
    BY <1>1
  <2>2. QED
    BY <1>6, <2>1, Onward!Extremes
<1>8. PICK c \in C : z = Len(c) + 1
  OBVIOUS
<1>9. \A x \in C : Len(x) <= Len(c)
  <2>1. ASSUME NEW x \in C PROVE Len(x) <= Len(c)
    <3>1. Len(x) + 1 \in u
      OBVIOUS
    <3>2. Len(c) + 1 >= Len(x) + 1
      BY <1>7, <1>8, <3>1
    <3>3. QED
      BY <1>5, <3>2
  <2>2. QED
    BY <2>1
<1>10. PICK l \in C : l = LongestCommonPrefix({a, b})
  BY <1>2, <1>9 DEF LongestCommonPrefix
<1>11. l \in Place /\ IsPrefix(l, a) /\ IsPrefix(l, b) /\ Len(l) \in Nat
  BY <1>3, <1>5
<1>12. Len(l) <= Len(a) /\ Len(l) <= Len(b)
  BY <1>11 DEF IsPrefix
<1>13. Top(a, Len(l)) = Top(b, Len(l))
  BY <1>11 DEF IsPrefix, Top
<1>14. QED
  BY <1>10, <1>11, <1>12, <1>13

(* The names of paths do not read as the scheme of a URL.                  *)
NoSchemes == Schemed \cap (Name \cup {".."}) = {}

(* The directory of a path, and the beginnings they share.                 *)
LEMMA FrontIs ==
    ASSUME NEW p \in Place, p # <<>>
    PROVE  /\ Front(p) \in Place /\ Len(Front(p)) = Len(p) - 1
           /\ \A n \in Nat : n <= Len(p) - 1 => Top(Front(p), n) = Top(p, n)
<1>1. PICK l \in Nat : l = Len(p) - 1 /\ l + 1 = Len(p) /\ l <= Len(p)
  <2>1. Len(p) \in Nat /\ Len(p) # 0
    BY DEF Place
  <2>2. QED
    BY <2>1
<1>2. PICK f \in Place : f = Top(p, l) /\ Len(f) = l /\ \A i \in 1..l : f[i] = p[i]
  BY <1>1, TopIs
<1>3. f = Front(p)
  BY <1>1, <1>2 DEF Front, Top
<1>4. ASSUME NEW n \in Nat, n <= l PROVE Top(f, n) = Top(p, n)
  <2>1. n <= Len(p) /\ n <= Len(f)
    BY <1>1, <1>2, <1>4
  <2>2. /\ Top(f, n) \in Place /\ Len(Top(f, n)) = n /\ \A i \in 1..n : Top(f, n)[i] = f[i]
    BY <1>2, <2>1, TopIs
  <2>3. /\ Top(p, n) \in Place /\ Len(Top(p, n)) = n /\ \A i \in 1..n : Top(p, n)[i] = p[i]
    BY <2>1, TopIs
  <2>4. \A i \in 1..n : i \in 1..l
    BY <1>4
  <2>5. QED
    BY <1>2, <2>2, <2>3, <2>4, SamePlace
<1>5. QED
  BY <1>1, <1>2, <1>3, <1>4

(* A relative link spelled from q to p leads from q to p.                  *)
LEMMA RelativeLeads ==
    ASSUME NoSchemes, NEW q \in Place, q # <<>>, NEW p \in Place, p # <<>>,
           NEW link, link.abs = FALSE, link.segs = RelativeDest(q, p)
    PROVE  ResolveDest(q, link) = p
<1>1. PICK from \in Place : from = Front(q)
  BY FrontIs
<1>2. PICK dir \in Place : dir = Front(p) /\ Len(dir) = Len(p) - 1
  BY FrontIs
<1>3. PICK n \in Nat : /\ n = Len(LongestCommonPrefix({from, dir}))
                      /\ n <= Len(from) /\ n <= Len(dir) /\ Top(from, n) = Top(dir, n)
  BY CommonIs
<1>4. Len(from) \in Nat /\ Len(p) \in Nat /\ n < Len(p)
  BY <1>2, <1>3 DEF Place
<1>5. PICK k \in Nat : k = Len(from) - n /\ k <= Len(from) /\ Len(from) - k = n
  <2>1. /\ Len(from) - n \in Nat /\ Len(from) - n <= Len(from)
        /\ Len(from) - (Len(from) - n) = n
    BY <1>3, <1>4
  <2>2. QED
    BY <2>1
<1>6. PICK names : names = SubSeq(p, n + 1, Len(p))
  OBVIOUS
<1>7. names \in Place /\ names # <<>>
  <2>1. names \in Place /\ Len(names) = Len(p) - n
    BY <1>4, <1>6 DEF Place
  <2>2. Len(names) # 0
    BY <1>4, <2>1
  <2>3. QED
    BY <2>1, <2>2
<1>8. link.segs = Ups(k) \o names
  BY <1>1, <1>2, <1>3, <1>5, <1>6 DEF RelativeDest, Ups
<1>9. Top(from, n) \o names = p
  <2>1. Top(p, n) = Top(from, n)
    BY <1>2, <1>3, FrontIs
  <2>2. PICK a \in Place : a = Top(p, n) /\ Len(a) = n /\ \A i \in 1..n : a[i] = p[i]
    BY <1>4, TopIs
  <2>3. IsPrefix(a, p)
    BY <1>4, <2>2, PrefixIs
  <2>4. Shift(a, a, p) = p
    BY <2>2, <2>3, ShiftLaws
  <2>5. QED
    BY <1>6, <2>1, <2>2, <2>4 DEF Shift, Suffix
<1>10. PICK s : s = link.segs
  OBVIOUS
<1>11. s # <<>> /\ Head(s) \notin Schemed
  BY <1>7, <1>8, <1>10, UpsThen DEF NoSchemes
<1>12. PICK end : end = FoldLeft(Walk, [ok |-> TRUE, at |-> from], s)
  OBVIOUS
<1>13. end = [ok |-> TRUE, at |-> p]
  <2>1. FoldLeft(Walk, [ok |-> TRUE, at |-> from], Ups(k) \o names)
          = [ok |-> TRUE, at |-> Top(from, Len(from) - k) \o names]
    BY <1>5, <1>7, UpAndDown, Zenon
  <2>2. Top(from, Len(from) - k) \o names = p
    BY <1>5, <1>9
  <2>3. s = Ups(k) \o names
    BY <1>8, <1>10
  <2>4. QED
    BY <1>12, <2>1, <2>2, <2>3, Zenon
<1>14. end.ok /\ end.at = p
  BY <1>13
<1>15. QED
  BY <1>1, <1>10, <1>11, <1>12, <1>14 DEF ResolveDest

(* And so does one from the root.                                          *)
LEMMA AbsoluteLeads ==
    ASSUME NEW q, NEW p \in Place, NEW link, link.abs = TRUE, link.segs = p
    PROVE  ResolveDest(q, link) = p
<1>1. <<>> \in Place /\ Len(<<>>) = 0 /\ 0 \in Nat /\ 0 <= Len(<<>>)
  BY DEF Place
<1>2. Ups(0) \o p = p
  <2>1. Ups(0) = <<>>
    BY DEF Ups
  <2>2. QED
    BY <2>1 DEF Place
<1>3. Top(<<>>, 0 - 0) \o p = p
  <2>1. Top(<<>>, 0 - 0) = <<>>
    BY DEF Top
  <2>2. QED
    BY <2>1 DEF Place
<1>4. PICK end : end = FoldLeft(Walk, [ok |-> TRUE, at |-> <<>>], p)
  OBVIOUS
<1>5. end = [ok |-> TRUE, at |-> p]
  <2>1. FoldLeft(Walk, [ok |-> TRUE, at |-> <<>>], Ups(0) \o p)
          = [ok |-> TRUE, at |-> Top(<<>>, Len(<<>>) - 0) \o p]
    BY <1>1, UpAndDown, Zenon
  <2>2. QED
    BY <1>1, <1>2, <1>3, <1>4, <2>1, Zenon
<1>6. end.ok /\ end.at = p
  BY <1>5
<1>7. QED
  BY <1>4, <1>6 DEF ResolveDest

(* One segment more: a name is added or taken away, or nothing.            *)
LEMMA WalkIs ==
    ASSUME NEW S, NEW pos \in [ok : BOOLEAN, at : Seq(S)], NEW x \in S
    PROVE  /\ Walk(pos, x) \in [ok : BOOLEAN, at : Seq(S)]
           /\ \/ Walk(pos, x).at = pos.at
              \/ Walk(pos, x).at = Append(pos.at, x)
              \/ pos.at # <<>> /\ Walk(pos, x).at = SubSeq(pos.at, 1, Len(pos.at) - 1)
<1>1. pos.at \in Seq(S)
  OBVIOUS
<1>2. Append(pos.at, x) \in Seq(S)
  BY <1>1
<1>3. pos.at # <<>> => SubSeq(pos.at, 1, Len(pos.at) - 1) \in Seq(S)
  BY <1>1
<1>4. QED
  BY <1>1, <1>2, <1>3 DEF Walk, Front

(* The names of the note a link leads to stand in the link, but for those  *)
(* the note and the directory of the link have in common.                  *)
LEMMA NamesComeFrom ==
    ASSUME NEW note \in Place, note # <<>>, NEW link \in Link, NEW v \in Place, v # <<>>,
           v = ResolveDest(note, link), NEW k \in 1..Len(v)
    PROVE  v[k] \in ToSet(link.segs) \/ (k < Len(note) /\ Top(v, k) = Top(note, k))
<1> DEFINE S == Name \cup STRING
<1>1. PICK dir \in Place : dir = Front(note) /\ Len(dir) = Len(note) - 1
  BY FrontIs
<1>2. PICK from \in Place : /\ from = IF link.abs THEN <<>> ELSE dir
                            /\ Len(from) <= Len(dir) /\ Len(from) \in Nat
                            /\ \A i \in 1..Len(from) : from[i] = dir[i]
  <2>1. <<>> \in Place /\ Len(<<>>) = 0 /\ Len(dir) \in Nat /\ 1..0 = {}
    BY DEF Place
  <2>2. CASE link.abs
    BY <2>1, <2>2
  <2>3. CASE ~link.abs
    BY <2>1, <2>3
  <2>4. QED
    BY <2>2, <2>3
<1>3. PICK s \in Seq(S) : s = link.segs
  <2>1. link.segs \in Seq(STRING)
    BY DEF Link
  <2>2. QED
    BY <2>1
<1>4. PICK N \in Nat : N = Len(s) /\ DOMAIN s = 1..N /\ \A n \in 1..N : s[n] \in S
  <2> HIDE DEF S
  <2>1. QED
    OBVIOUS
<1>5. PICK base : base = [ok |-> TRUE, at |-> from]
  OBVIOUS
<1>6. base \in [ok : BOOLEAN, at : Seq(S)] /\ base.at = from
  <2>1. from \in Seq(S)
    BY DEF Place
  <2> HIDE DEF S
  <2>2. QED
    BY <1>5, <2>1
<1> HIDE DEF S
<1>7. PICK c : Walked(c, base, s, N) /\ FoldLeft(Walk, base, s) = c[N]
  BY <1>4, WalkIsChain
<1>8. v = c[N].at
  <2>1. base = [ok |-> TRUE, at |-> IF link.abs THEN <<>> ELSE Front(note)]
    BY <1>1, <1>2, <1>5, Zenon
  <2>2. QED
    BY <1>3, <1>7, <2>1 DEF ResolveDest
<1> DEFINE Known(at, n) ==
             \A i \in 1..Len(at) :
                \/ \E m \in 1..n : at[i] = s[m]
                \/ i <= Len(from) /\ (\A j \in 1..i : at[j] = from[j])
           T == {n \in Nat : n <= N => c[n] \in [ok : BOOLEAN, at : Seq(S)] /\ Known(c[n].at, n)}
<1>9. 0 \in T
  <2>1. c[0] = base
    BY <1>7 DEF Walked
  <2>2. Known(from, 0)
    BY <1>2
  <2> HIDE DEF Known
  <2>3. QED
    BY <1>6, <2>1, <2>2
<1>10. ASSUME NEW n \in T PROVE n + 1 \in T
  <2> SUFFICES ASSUME n + 1 <= N
               PROVE  c[n + 1] \in [ok : BOOLEAN, at : Seq(S)] /\ Known(c[n + 1].at, n + 1)
    <3> HIDE DEF Known
    <3>1. n + 1 \in Nat
      OBVIOUS
    <3>2. QED
      BY <3>1
  <2>1. n \in Nat /\ n + 1 \in 1..N /\ (n + 1) - 1 = n /\ n <= N
    BY <1>4
  <2>2. c[n] \in [ok : BOOLEAN, at : Seq(S)] /\ Known(c[n].at, n)
    BY <2>1
  <2>3. c[n + 1] = Walk(c[n], s[n + 1]) /\ s[n + 1] \in S
    BY <1>4, <1>7, <2>1 DEF Walked
  <2>4. PICK a \in Seq(S) : a = c[n].at
    BY <2>2
  <2>5. PICK d \in Seq(S) : d = c[n + 1].at
    <3> HIDE DEF Known, T
    <3>1. c[n + 1] \in [ok : BOOLEAN, at : Seq(S)]
      BY <2>2, <2>3, WalkIs
    <3>2. QED
      BY <3>1
  <2>6. /\ c[n + 1] \in [ok : BOOLEAN, at : Seq(S)]
        /\ d = a \/ d = Append(a, s[n + 1]) \/ (a # <<>> /\ d = SubSeq(a, 1, Len(a) - 1))
    <3> HIDE DEF Known, T
    <3>1. PICK pos \in [ok : BOOLEAN, at : Seq(S)], x \in S : pos = c[n] /\ x = s[n + 1]
      BY <2>2, <2>3
    <3>2. PICK end : end = Walk(pos, x)
      OBVIOUS
    <3>3. /\ end \in [ok : BOOLEAN, at : Seq(S)]
          /\ \/ end.at = pos.at
             \/ end.at = Append(pos.at, x)
             \/ pos.at # <<>> /\ end.at = SubSeq(pos.at, 1, Len(pos.at) - 1)
      BY <3>2, WalkIs
    <3>4. QED
      BY <2>3, <2>4, <2>5, <3>1, <3>2, <3>3
  <2>7. Known(a, n)
    BY <2>2, <2>4
  <2>8. PICK A \in Nat : A = Len(a)
    OBVIOUS
  <2>9. Known(a, n + 1)
    <3>1. \A m \in 1..n : m \in 1..(n + 1)
      BY <2>1
    <3>2. QED
      BY <2>7, <3>1
  <2>10. CASE d = Append(a, s[n + 1])
    <3>1. /\ Len(d) = A + 1 /\ \A i \in 1..A : d[i] = a[i]
          /\ d[A + 1] = s[n + 1]
      BY <2>3, <2>8, <2>10
    <3>2. n + 1 \in 1..(n + 1)
      BY <2>1
    <3>3. ASSUME NEW i \in 1..Len(d)
          PROVE  \/ \E m \in 1..(n + 1) : d[i] = s[m]
                 \/ i <= Len(from) /\ \A j \in 1..i : d[j] = from[j]
      <4>1. CASE i = A + 1
        BY <3>1, <3>2, <4>1
      <4>2. CASE i \in 1..A
        <5>1. d[i] = a[i] /\ \A j \in 1..i : d[j] = a[j]
          BY <2>8, <3>1, <4>2
        <5>2. QED
          BY <2>8, <2>9, <4>2, <5>1
      <4>3. QED
        BY <3>1, <4>1, <4>2
    <3>4. QED
      BY <2>5, <2>6, <3>3
  <2>11. CASE a # <<>> /\ d = SubSeq(a, 1, Len(a) - 1)
    <3>1. A # 0
      BY <2>8, <2>11
    <3>2. Len(d) = A - 1 /\ \A i \in 1..(A - 1) : d[i] = a[i]
      BY <2>8, <2>11, <3>1
    <3>3. ASSUME NEW i \in 1..Len(d)
          PROVE  \/ \E m \in 1..(n + 1) : d[i] = s[m]
                 \/ i <= Len(from) /\ \A j \in 1..i : d[j] = from[j]
      <4>1. i \in 1..(A - 1) /\ \A j \in 1..i : j \in 1..(A - 1)
        BY <2>8, <3>1, <3>2
      <4>2. i \in 1..Len(a) /\ d[i] = a[i] /\ \A j \in 1..i : d[j] = a[j]
        BY <2>8, <3>2, <4>1
      <4>3. QED
        BY <2>9, <4>2
    <3>4. QED
      BY <2>5, <2>6, <3>3
  <2>12. CASE d = a
    BY <2>5, <2>6, <2>9, <2>12
  <2>13. QED
    BY <2>6, <2>10, <2>11, <2>12
<1>11. T = Nat
  <2> HIDE DEF T
  <2>1. T \in SUBSET Nat
    BY DEF T
  <2>2. QED
    BY <1>9, <1>10, <2>1, Onward!Grows
<1>12. Known(v, N)
  <2> HIDE DEF Known
  <2>1. N \in T /\ N <= N
    BY <1>11
  <2>2. QED
    BY <1>8, <2>1
<1>13. CASE \E m \in 1..N : v[k] = s[m]
  BY <1>3, <1>4, <1>13 DEF ToSet
<1>14. CASE k <= Len(from) /\ \A j \in 1..k : v[j] = from[j]
  <2>1. k \in Nat /\ k <= Len(v) /\ k <= Len(dir) /\ Len(note) \in Nat /\ k < Len(note) /\ k <= Len(note)
        /\ k <= Len(note) - 1
    BY <1>1, <1>2, <1>14 DEF Place
  <2>2. \A j \in 1..k : v[j] = dir[j]
    BY <1>2, <1>14, <2>1
  <2>3. Top(v, k) \in Place /\ Len(Top(v, k)) = k /\ \A i \in 1..k : Top(v, k)[i] = v[i]
    BY <2>1, TopIs
  <2>4. Top(dir, k) \in Place /\ Len(Top(dir, k)) = k /\ \A i \in 1..k : Top(dir, k)[i] = dir[i]
    BY <2>1, TopIs
  <2>5. Top(v, k) = Top(dir, k)
    BY <2>2, <2>3, <2>4, SamePlace
  <2>6. Top(dir, k) = Top(note, k)
    BY <1>1, <2>1, FrontIs
  <2>7. QED
    BY <2>1, <2>5, <2>6
<1>15. QED
  BY <1>12, <1>13, <1>14

-----------------------------------------------------------------------------
(* Links after the moves. *)

(* The links the theorem speaks of: names that cannot be taken for a       *)
(* scheme, spellings the scan for notes to relink sees, and no notes in    *)
(* directories it passes over.                                             *)
PlainLinks ==
    /\ NoSchemes
    /\ Hidden = {}
    /\ \A t \in Trees : \A q \in DOMAIN t : \A i \in DOMAIN t[q].links : ~t[q].links[i].coded

(* MoveMap.apply: the place of a path after the moves.                     *)
LEMMA NewPlaceIs ==
    ASSUME Orderly, NEW w \in Place
    PROVE  /\ Moved(items, w) <=> \E i \in DOMAIN items : IsPrefix(Src(i), w)
           /\ ~Moved(items, w) => NewPlace(items, w) = w
           /\ \A i \in DOMAIN items :
                IsPrefix(Src(i), w) =>
                   /\ NewPlace(items, w) = Shift(Src(i), Dst(i), w)
                   /\ NewPlace(items, w) # w
<1>1. Moved(items, w) <=> \E i \in DOMAIN items : IsPrefix(Src(i), w)
  BY DEF Moved, Src
<1>2. ~Moved(items, w) => NewPlace(items, w) = w
  BY DEF NewPlace
<1>3. ASSUME NEW i \in DOMAIN items, IsPrefix(Src(i), w)
      PROVE  NewPlace(items, w) = Shift(Src(i), Dst(i), w) /\ NewPlace(items, w) # w
  <2>1. /\ Src(i) \in Place /\ Dst(i) \in Place
        /\ \A j \in DOMAIN items : Src(j) \in Place
    BY ItemsAre
  <2>2. \A j \in DOMAIN items : IsPrefix(Src(j), w) => j = i
    BY <1>3, <2>1, InARow DEF Orderly
  <2>3. \A j : (j \in DOMAIN items /\ IsPrefix(items[j].source, w)) <=> j = i
    BY <1>3, <2>2 DEF Src
  <2>4. i = CHOOSE j \in DOMAIN items : IsPrefix(items[j].source, w)
    BY <2>3
  <2>5. NewPlace(items, w) = items[i].dest \o SubSeq(w, Len(items[i].source) + 1, Len(w))
    BY <1>1, <1>3, <2>4 DEF NewPlace
  <2>6. NewPlace(items, w) = Shift(Src(i), Dst(i), w)
    BY <2>5 DEF Shift, Suffix, Src, Dst
  <2>7. ASSUME Shift(Src(i), Dst(i), w) = w PROVE FALSE
    <3>1. IsPrefix(Dst(i), w)
      BY <1>3, <2>1, <2>7, ShiftLaws
    <3>2. IsPrefix(Src(i), Dst(i)) \/ IsPrefix(Dst(i), Src(i))
      BY <1>3, <2>1, <3>1, InARow
    <3>3. QED
      BY <3>2 DEF Orderly
  <2>8. QED
    BY <2>6, <2>7
<1>4. QED
  BY <1>1, <1>2, <1>3

(* What became of the links of a note that is now at q.                    *)
LEMMA LinksAre ==
    ASSUME PlainLinks, before \in Trees, Orderly, Pruned, update_links,
           NEW q \in DOMAIN tree, tree[q] # Directory
    PROVE  \E w \in DOMAIN before :
             /\ tree[q].of = w /\ w \in Place /\ w # <<>> /\ q \in Place /\ q # <<>>
             /\ q = NewPlace(items, w) /\ (q = w <=> ~Moved(items, w))
             /\ before[w].links \in Seq(Link)
             /\ tree[q].links = RewriteBody(before[w].links, w, items)
<1>1. PICK w \in DOMAIN before :
         /\ before[w] # Directory /\ tree[q] = Base[w] /\ tree[q].of = w /\ w \in Place
         /\ \/ q = w /\ \A i \in DOMAIN items : ~IsPrefix(Src(i), w)
            \/ \E i \in DOMAIN items : IsPrefix(Src(i), w) /\ q = Shift(Src(i), Dst(i), w)
  BY NotesCameFrom
<1>2. q = NewPlace(items, w) /\ (q = w <=> ~Moved(items, w))
  BY <1>1, NewPlaceIs
<1>3. w # <<>> /\ before[w] \in Content
  BY TreesAre
<1>4. q \in Place /\ q # <<>>
  <2>1. CASE q = w
    BY <1>1, <1>3, <2>1
  <2>2. CASE \E i \in DOMAIN items : IsPrefix(Src(i), w) /\ q = Shift(Src(i), Dst(i), w)
    <3>1. PICK i \in DOMAIN items : IsPrefix(Src(i), w) /\ q = Shift(Src(i), Dst(i), w)
      BY <2>2
    <3>2. Src(i) \in Place /\ Dst(i) \in Place /\ Dst(i) # <<>>
      BY ItemsAre
    <3>3. q \in Place /\ IsPrefix(Dst(i), q)
      BY <1>1, <3>1, <3>2, ShiftLaws
    <3>4. q # <<>>
      <4>1. <<>> \in Place /\ Len(<<>>) = 0 /\ Len(Dst(i)) \in Nat /\ Len(Dst(i)) # 0
        BY <3>2 DEF Place
      <4>2. QED
        BY <3>2, <3>3, <4>1, PrefixOrder
    <3>5. QED
      BY <3>3, <3>4
  <2>3. QED
    BY <1>1, <2>1, <2>2
<1>5. w \in Listed(before, <<>>, TRUE, FALSE)
  <2>1. <<>> \in Place /\ Len(<<>>) = 0 /\ 1..0 = {} /\ Len(w) \in Nat
    BY <1>1 DEF Place
  <2>2. IsPrefix(<<>>, w)
    BY <1>1, <2>1, PrefixIs
  <2>3. w \in Under(before, <<>>)
    BY <2>2 DEF Under
  <2>4. QED
    BY <1>1, <1>3, <2>3 DEF Listed, PlainLinks
<1>6. Base[w] = [before[w] EXCEPT !.links = RewriteBody(before[w].links, w, items)]
  BY <1>5 DEF Base, Relinked
<1>7. before[w].links \in Seq(Link) /\ tree[q].links = RewriteBody(before[w].links, w, items)
  BY <1>1, <1>3, <1>6 DEF Content
<1>8. QED
  BY <1>1, <1>2, <1>3, <1>4, <1>7

(* A link the rewriting of its note passes over, with its note and the     *)
(* note it leads to not moving.                                            *)
LEMMA NotScannedIsStill ==
    ASSUME PlainLinks, Orderly, NEW w \in Place, w # <<>>, NEW links \in Seq(Link),
           ~Scanned(links, w, items), NEW i \in DOMAIN links, ~links[i].coded,
           NEW v \in Place, v # <<>>, v = ResolveDest(w, links[i])
    PROVE  ~Moved(items, w) /\ ~Moved(items, v)
<1>1. ~Moved(items, w)
  BY DEF Scanned
<1>2. links[i] \in Link
  OBVIOUS
<1>3. ASSUME Moved(items, v) PROVE FALSE
  <2>1. PICK j \in DOMAIN items : IsPrefix(Src(j), v)
    BY <1>3, NewPlaceIs
  <2>2. PICK a \in Place : a = Src(j) /\ a # <<>>
    BY ItemsAre
  <2>3. PICK k \in Nat : /\ k = Len(a) /\ k \in 1..Len(v) /\ k <= Len(v)
                         /\ \A n \in 1..k : a[n] = v[n]
    <3>1. Len(a) \in Nat /\ Len(a) # 0 /\ Len(v) \in Nat
      BY <2>2 DEF Place
    <3>2. Len(a) <= Len(v) /\ \A n \in 1..Len(a) : a[n] = v[n]
      BY <2>1, <2>2, PrefixIs
    <3>3. QED
      BY <3>1, <3>2
  <2>4. Last(items[j].source) = v[k]
    BY <2>2, <2>3 DEF Last, Src
  <2>5. v[k] \notin ToSet(links[i].segs)
    BY <2>4 DEF Scanned
  <2>6. k < Len(w) /\ Top(v, k) = Top(w, k)
    BY <1>2, <2>3, <2>5, NamesComeFrom
  <2>7. k <= Len(w)
    BY <2>3, <2>6 DEF Place
  <2>8. /\ Len(Top(v, k)) = k /\ \A n \in 1..k : Top(v, k)[n] = v[n]
        /\ Len(Top(w, k)) = k /\ \A n \in 1..k : Top(w, k)[n] = w[n]
    BY <2>3, <2>7, TopIs
  <2>9. \A n \in 1..k : a[n] = w[n]
    BY <2>3, <2>6, <2>8
  <2>10. IsPrefix(a, w)
    BY <2>3, <2>7, <2>9, PrefixIs
  <2>11. QED
    BY <1>1, <2>2, <2>10, NewPlaceIs
<1>4. QED
  BY <1>1, <1>3

(* Every link that led to a note leads to that note afterwards, wherever   *)
(* both went, and is spelled as it was if neither went anywhere.           *)
THEOREM LinksAreFollowed ==
    ASSUME PlainCalls, PlainLinks
    PROVE  Spec => []LinksFollow
<1>1. ASSUME MoveInv, update_links, phase \in {"prune", "done"},
             NEW q \in DOMAIN tree, tree[q] # Directory, NEW p \in DOMAIN tree, tree[p] # Directory,
             NEW i \in DOMAIN tree[q].links,
             NEW was, was = tree[q].of, NEW old, old = before[was].links[i],
             ResolveDest(was, old) = tree[p].of
      PROVE  /\ ResolveDest(q, tree[q].links[i]) = p
             /\ was = q /\ tree[p].of = p => tree[q].links[i] = old
  <2>1. before \in Trees /\ Orderly /\ Pruned
    BY <1>1 DEF MoveInv
  <2>2. PICK w \in DOMAIN before :
           /\ tree[q].of = w /\ w \in Place /\ w # <<>> /\ q \in Place /\ q # <<>>
           /\ q = NewPlace(items, w) /\ (q = w <=> ~Moved(items, w))
           /\ before[w].links \in Seq(Link)
           /\ tree[q].links = RewriteBody(before[w].links, w, items)
    BY <1>1, <2>1, LinksAre
  <2>3. PICK v \in DOMAIN before :
           /\ tree[p].of = v /\ v \in Place /\ v # <<>> /\ p \in Place /\ p # <<>>
           /\ p = NewPlace(items, v) /\ (p = v <=> ~Moved(items, v))
    BY <1>1, <2>1, LinksAre
  <2>4. PICK links \in Seq(Link) : links = before[w].links
    BY <2>2
  <2>5. i \in DOMAIN links /\ old = links[i] /\ ~old.coded /\ old \in Link
    <3>1. tree[q].links = RewriteBody(links, w, items)
      BY <2>2, <2>4
    <3>2. i \in DOMAIN links
      BY <1>1, <3>1 DEF RewriteBody
    <3>3. QED
      BY <1>1, <2>1, <2>2, <2>4, <3>2 DEF PlainLinks
  <2>6. PICK new : new = tree[q].links[i]
    OBVIOUS
  <2>7. v = ResolveDest(w, old)
    BY <1>1, <2>2, <2>3
  <2>8. CASE new = old /\ ~Moved(items, w) /\ ~Moved(items, v)
    BY <1>1, <2>2, <2>3, <2>6, <2>7, <2>8
  <2>9. CASE ~Scanned(links, w, items)
    <3>1. new = old
      BY <2>2, <2>4, <2>5, <2>6, <2>9 DEF RewriteBody
    <3>2. ~Moved(items, w) /\ ~Moved(items, v)
      BY <2>1, <2>2, <2>3, <2>4, <2>5, <2>7, <2>9, NotScannedIsStill
    <3>3. QED
      BY <2>8, <3>1, <3>2
  <2>10. CASE Scanned(links, w, items)
    <3>1. new = Rewritten(old, w, items)
      BY <2>2, <2>4, <2>5, <2>6, <2>10 DEF RewriteBody
    <3>2. Touched(old, w, items) <=> Moved(items, v) \/ Moved(items, w)
      BY <2>3, <2>7 DEF Touched
    <3>3. CASE ~Touched(old, w, items)
      <4>1. new = old
        BY <3>1, <3>3 DEF Rewritten, RewrittenFor
      <4>2. QED
        BY <2>8, <3>2, <3>3, <4>1
    <3>4. CASE Touched(old, w, items)
      <4>1. new = [abs |-> old.abs, coded |-> FALSE,
                   segs |-> IF old.abs THEN p ELSE RelativeDest(q, p)]
        BY <2>2, <2>3, <2>7, <3>1, <3>4 DEF Rewritten, RewrittenFor
      <4>2. ResolveDest(q, new) = p
        <5>1. CASE old.abs = TRUE
          <6>1. new.abs = TRUE /\ new.segs = p
            BY <4>1, <5>1
          <6>2. QED
            BY <2>3, <6>1, AbsoluteLeads
        <5>2. CASE old.abs = FALSE
          <6>1. new.abs = FALSE /\ new.segs = RelativeDest(q, p)
            BY <4>1, <5>2
          <6>2. QED
            BY <2>2, <2>3, <6>1, RelativeLeads DEF PlainLinks
        <5>3. old.abs \in BOOLEAN
          BY <2>5 DEF Link
        <5>4. QED
          BY <5>1, <5>2, <5>3
      <4>3. ~(was = q /\ tree[p].of = p)
        BY <1>1, <2>2, <2>3, <3>2, <3>4
      <4>4. QED
        BY <2>6, <4>2, <4>3
    <3>5. QED
      BY <3>3, <3>4
  <2>11. QED
    BY <2>9, <2>10
<1>2. MoveInv => LinksFollow
  <2>1. DOMAIN Notes(tree) = {q \in DOMAIN tree : tree[q] # Directory}
    BY DEF Notes, Restrict
  <2>2. QED
    BY <1>1, <2>1 DEF LinksFollow
<1>3. QED
  BY <1>2, MovesCorrect, PTL
====================================================================================
