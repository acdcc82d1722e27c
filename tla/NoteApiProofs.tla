---------------------------- MODULE NoteApiProofs ----------------------------
(***************************************************************************)
(* What clients of one vault may rely on, proved for any number of clients *)
(* and notes and any requests: reports are true, no update is lost, every  *)
(* write is committed, an index is a snapshot and a listing misses nothing.*)
(*                                                                         *)
(* The argument.  The lock lets a writer in alone, so what a call read it  *)
(* may rely on until an outside program writes (Relies).  The marks of the *)
(* requests under way are in nobody's hands but their own (Circulation),   *)
(* so a mark that is found somewhere was written.                          *)
(***************************************************************************)
EXTENDS NoteApi, FiniteSetTheorems, SequenceTheorems, TLAPS

Cell == Text \cup {Absent}
Steps == {"idle", "queued", "look", "save", "apply", "emit", "lock", "add", "commit", "tags", "done"}
Operations == Writes \cup Reads \cup {"none"}

(* What a call is made of; its plan is one of cells, or of notes to tag. *)
IsCall(x) ==
    /\ x = [op |-> x.op, items |-> x.items, at |-> x.at, pc |-> x.pc,
            plan |-> x.plan, landed |-> x.landed]
    /\ x.op \in Operations /\ x.items \in Seq(Item) /\ x.at \in Nat /\ x.pc \in Steps
    /\ x.landed \subseteq Marks
    /\ IF x.op = "index" THEN x.plan \in Seq(Notes) ELSE x.plan \in Seq(Cell)

Typed ==
    /\ disk \in [Notes -> Cell] /\ head \in [Notes -> Cell] /\ base \in [Notes -> Cell]
    /\ dir \in BOOLEAN /\ hungup \in BOOLEAN
    /\ stray.live \in BOOLEAN /\ stray.commits \subseteq Notes
    /\ queue \in Seq(Clients) /\ IsInjective(queue) /\ inside \subseteq Clients
    /\ call = [c \in Clients |-> call[c]] /\ \A c \in Clients : IsCall(call[c])
    /\ copy \in [Clients -> [Notes -> Text \cup {Unknown}]]
    /\ walk \in [Clients -> [seen : Seq(Notes), steady : SUBSET Notes, more : BOOLEAN]]
    /\ flock \in {"free", "outside"} \cup Clients /\ (flock = "outside" => strange < MaxOutside)
    /\ events \subseteq Marks /\ marks \in 0..MaxMarks /\ strange \in 0..MaxOutside

-----------------------------------------------------------------------------
(* What the requests of an operation may say of a note. *)
MayExpect(op) ==
    CASE op = "put"    -> {"absent", "present", "copy"}
      [] op = "create" -> {"absent", "either"}
      [] op = "append" -> {"present", "either"}
      [] op = "edit"   -> {"present", "copy"}
      [] OTHER         -> {"present"}

(* Where a call may stand, and with what in hand. *)
Stands(c) ==
    LET x == call[c] IN
    /\ c \in inside <=> x.pc \notin {"idle", "queued"}
    /\ c \in Range(queue) <=> x.pc = "queued"
    /\ flock = c <=> x.pc \in {"add", "commit"}
    /\ x.op = "none" <=> x.pc = "idle"
    /\ x.op \in Writes /\ c \in inside => inside = {c}
    /\ x.pc = "save" => x.op \in Single
    /\ x.pc = "apply" => x.op \in {"edit", "delete"}
    /\ x.pc \in {"emit", "lock", "add", "commit"} => x.op \in Writes
    /\ x.pc = "tags" => x.op = "index" /\ x.at >= 1
    /\ x.op \in {"put", "delete", "get"} => Len(x.items) = 1
    /\ x.pc = "queued" \/ (x.pc = "look" /\ x.op \in Reads) =>
         x.at = 1 /\ x.plan = <<>> /\ x.landed = {}
    /\ x.op \in Writes => x.items # <<>>
    /\ x.pc \in {"look", "save"} /\ x.op \in Writes => x.at \in 1..Len(x.items)
    /\ x.op \in {"edit", "delete"} /\ x.pc \in {"look", "apply"} =>
         Len(x.plan) < x.at /\ x.landed = {}
    /\ x.pc = "apply" => x.at = Len(x.items) + 1 /\ Len(x.plan) = Len(x.items)
    /\ \A i \in DOMAIN x.items : x.items[i].expect \in MayExpect(x.op)
    /\ x.op = "edit" => \A i, j \in DOMAIN x.items : i # j => x.items[i].note # x.items[j].note

(* The marks of a request, and those of them that have not landed. *)
Asked(c) == IF call[c].op \in Writes THEN {i.mark : i \in Range(call[c].items)} ELSE {}
Due(c) == Asked(c) \ call[c].landed

(* Each item has a mark of its own. *)
Numbered ==
    /\ \A c \in Clients :
         /\ call[c].landed \subseteq Asked(c) /\ Asked(c) \subseteq 1..marks
         /\ call[c].op \in Writes =>
              \A i, j \in DOMAIN call[c].items : i # j => call[c].items[i].mark # call[c].items[j].mark
    /\ \A c, d \in Clients : c # d => Asked(c) \cap Asked(d) = {}

(* The marks in circulation: no mark that is due. *)
Known == {m \in (1..marks) \cup Outside : \A c \in Clients : m \notin Due(c)}
Seen == Known \cup {0}

Circulation ==
    /\ \A n \in Notes : disk[n] \subseteq Seen /\ base[n] \subseteq Seen
    /\ \A c \in Clients, n \in Notes : copy[c][n] = Unknown \/ copy[c][n] \subseteq Known
    /\ events \subseteq Known
    /\ \A c \in Clients : LET x == call[c] IN
         /\ \A j \in DOMAIN x.items : x.items[j].copy \subseteq Known
         /\ x.op \in Writes => \A j \in DOMAIN x.plan : x.plan[j] \subseteq Seen \cup Asked(c)

(* What a writer relies on from its look to its write, and reports after. *)
Relies(c) ==
    LET x == call[c] IN
    /\ x.pc = "save" =>
         /\ x.plan \in Seq(Text) /\ Len(x.plan) = 1
         /\ x.plan[1] \subseteq Known \cup {Now(c).mark} /\ Now(c).mark \in x.plan[1]
         /\ c \notin stirred =>
              /\ Fits(Now(c), disk[Now(c).note])
              /\ x.plan[1] = Body(x.op, Now(c), disk[Now(c).note])
    /\ x.op = "put" /\ x.landed # {} => Len(x.plan) = 1 /\ x.plan \in Seq(Text)
    /\ x.pc \in {"look", "apply"} /\ x.op = "delete" => \A j \in DOMAIN x.plan : x.plan[j] = Absent
    /\ x.pc \in {"look", "apply"} /\ x.op = "edit" /\ Len(x.plan) = x.at - 1 =>
         \A j \in DOMAIN x.plan :
            /\ x.plan[j] \in Text /\ x.items[j].mark \in x.plan[j]
            /\ c \notin stirred => disk[x.items[j].note] \subseteq x.plan[j]
    /\ x.op \in {"edit", "delete"} => x.landed \in {{}, Asked(c)}
    /\ x.pc \in {"lock", "add", "commit", "done"} => x.landed \subseteq events
    /\ x.op \in Writes /\ c \notin stirred =>
         \A i \in Range(x.items) : i.mark \in x.landed =>
            CASE x.op = "delete" -> ~There(i.note)
              [] x.op = "create" -> There(i.note)
              [] OTHER           -> i.mark \in disk[i.note]

(* What is not in git is about to be committed by a call that wrote it. *)
Uncommitted ==
    ~hungup =>
        /\ ~stray.live
        /\ \A n \in Notes : head[n] # disk[n] =>
             \E c \in inside : /\ call[c].op \in Writes /\ call[c].pc \notin {"apply", "done"}
                               /\ n \in Touched(c)

(* An index so far. *)
Indexing(c) ==
    call[c].op = "index" /\ c \notin stirred =>
        /\ call[c].pc = "tags" =>
             /\ call[c].plan = Sorted(Present(disk) \cap Within[c])
             /\ call[c].at <= Len(call[c].plan) + 1
             /\ copy[c] = [n \in Notes |-> IF \E j \in 1..(call[c].at - 1) : call[c].plan[j] = n
                                           THEN disk[n] ELSE Unknown]
        /\ call[c].pc = "done" =>
             copy[c] = [n \in Notes |-> IF n \in Within[c] /\ There(n) THEN disk[n] ELSE Unknown]

(* A listing so far: every note that was there all along has been shown,   *)
(* or is still to come.                                                    *)
Ascending(s) == \A i, j \in DOMAIN s : i < j => s[i] < s[j]
Walking(c) ==
    LET w == walk[c] IN
    /\ Ascending(w.seen)
    /\ w.steady \subseteq Present(disk)
    /\ \A n \in w.steady :
         n \in Range(w.seen) \/ (w.more /\ (w.seen # <<>> => n > Last(w.seen)))

DirStands == \A n \in InDir : There(n) => dir

NoteInv ==
    /\ \A c \in Clients : Stands(c)
    /\ DirStands
    /\ Numbered
    /\ Circulation
    /\ \A c \in Clients : Relies(c)
    /\ Uncommitted
    /\ \A c \in Clients : Indexing(c)
    /\ \A c \in Clients : Walking(c)

-----------------------------------------------------------------------------
(* Marks, notes and their order. *)

(* No mark is the 0 of an absent note or the number of an unknown one. *)
LEMMA Marking ==
    /\ MaxMarks \in Nat /\ MaxOutside \in Nat
    /\ 0 \notin Marks /\ 0 \notin Outside /\ Absent \notin Text /\ Unknown \notin Text
    /\ {} \in Text /\ Marks \cap Outside = {}
    /\ \A t \in Text, m \in Marks \cup Outside : t \cup {m} \in Text
    /\ \A t \in Text : t \ Absent = t
<1>1. MaxMarks \in Nat /\ MaxOutside \in Nat
  BY BoundAssumption
<1>2. 0 \notin Marks /\ 0 \notin Outside /\ Marks \cap Outside = {}
  BY <1>1 DEF Marks, Outside
<1>3. MaxMarks + MaxOutside + 1 \notin Marks \cup Outside
  BY <1>1 DEF Marks, Outside
<1>4. QED
  BY <1>1, <1>2, <1>3 DEF Text, Absent, Unknown

(* Finitely many notes can be put in order. *)
LEMMA Ordered ==
    ASSUME NEW n \in Nat, NEW ns \in SUBSET Notes, Cardinality(ns) = n
    PROVE  \E s \in [1..n -> ns] : Ascending(s)
<1> DEFINE Good(x) == \A t \in SUBSET Notes :
                         Cardinality(t) = x => \E s \in [1..x -> t] : Ascending(s)
           Bad == {x \in Nat : ~Good(x)}
           R == {ss \in Nat \X Nat : ss[1] < ss[2]}
<1>1. \A t \in SUBSET Notes : IsFiniteSet(t)
  BY NotesAssumption, FS_Subset
<1>2. SUFFICES ASSUME Bad # {} PROVE FALSE
  OBVIOUS
<1>3. PICK x \in Bad : \A y \in Bad : ~(<<y, x>> \in R)
  <2>1. IsWellFoundedOn(R, Nat)
    BY NatLessThanWellFounded DEF OpToRel
  <2>2. Bad \in SUBSET Nat
    OBVIOUS
  <2> HIDE DEF Bad, R
  <2>3. QED
    BY <1>2, <2>1, <2>2, WFMin
<1>4. PICK t \in SUBSET Notes : Cardinality(t) = x /\ ~ \E s \in [1..x -> t] : Ascending(s)
  BY <1>3
<1>5. x \in Nat /\ t \in SUBSET Nat
  BY NotesAssumption
<1> HIDE DEF Good, Bad
<1>6. x # 0
  <2> SUFFICES ASSUME x = 0 PROVE FALSE
    OBVIOUS
  <2>1. t = {}
    BY <1>1, <1>4, FS_EmptySet
  <2>2. [i \in 1..0 |-> 0] \in [1..x -> t] /\ Ascending([i \in 1..0 |-> 0])
    BY DEF Ascending
  <2>3. QED
    BY <1>4, <2>2
<1>7. PICK m \in t : \A k \in t : m <= k
  <2>1. t # {}
    BY <1>1, <1>4, <1>6, FS_EmptySet
  <2>2. IsWellFoundedOn(R, Nat)
    BY NatLessThanWellFounded DEF OpToRel
  <2>3. PICK m \in t : \A k \in t : ~(<<k, m>> \in R)
    <3> HIDE DEF Bad, Good, R
    <3>1. QED
      BY <1>5, <2>1, <2>2, WFMin
  <2>4. \A k \in t : ~(k < m)
    BY <1>5, <2>3
  <2>5. QED
    BY <1>5, <2>4
<1> HIDE DEF R
<1>8. Cardinality(t \ {m}) = x - 1 /\ t \ {m} \in SUBSET Notes /\ x - 1 \in Nat
  <2>1. IsFiniteSet(t) /\ Cardinality(t) = x /\ m \in t
    BY <1>1, <1>4, <1>7
  <2>2. Cardinality(t \ {m}) = x - 1
    BY <2>1, FS_RemoveElement
  <2>3. QED
    BY <1>5, <1>6, <2>2
<1>9. Good(x - 1)
  <2>1. <<x - 1, x>> \in R
    BY <1>5, <1>8 DEF R
  <2>2. QED
    BY <1>3, <1>8, <2>1 DEF Bad
<1>10. PICK s \in [1..(x - 1) -> t \ {m}] : Ascending(s)
  BY <1>8, <1>9 DEF Good
<1> DEFINE r == [i \in 1..x |-> IF i = 1 THEN m ELSE s[i - 1]]
<1>11. r \in [1..x -> t]
  <2>1. \A i \in 1..x : i # 1 => i - 1 \in 1..(x - 1)
    BY <1>5
  <2>2. QED
    BY <1>7, <1>10, <2>1
<1>12. Ascending(r)
  <2> SUFFICES ASSUME NEW i \in 1..x, NEW j \in 1..x, i < j PROVE r[i] < r[j]
    BY DEF Ascending
  <2>1. j # 1 /\ j - 1 \in 1..(x - 1) /\ r[j] = s[j - 1] /\ s[j - 1] \in t \ {m}
    BY <1>5, <1>10
  <2>2. CASE i = 1
    <3>1. r[i] = m
      BY <1>5, <2>2
    <3>2. r[j] \in t /\ r[j] # m
      BY <2>1
    <3> HIDE DEF r
    <3>3. m \in Nat /\ r[j] \in Nat /\ m <= r[j]
      BY <1>5, <1>7, <3>2
    <3>4. QED
      BY <3>1, <3>2, <3>3
  <2>3. CASE i # 1
    <3>1. i - 1 \in 1..(x - 1) /\ r[i] = s[i - 1] /\ i - 1 < j - 1
      BY <1>5, <2>3
    <3>2. DOMAIN s = 1..(x - 1)
      BY <1>10
    <3>3. s[i - 1] < s[j - 1]
      BY <1>10, <2>1, <3>1, <3>2 DEF Ascending
    <3>4. QED
      BY <2>1, <3>1, <3>3
  <2>4. QED
    BY <2>2, <2>3
<1>13. QED
  BY <1>4, <1>11, <1>12

(* Sorted lists exactly the given notes, in the order of their paths. *)
LEMMA SortedIs ==
    ASSUME NEW ns \in SUBSET Notes
    PROVE  /\ Sorted(ns) \in Seq(Notes) /\ Ascending(Sorted(ns))
           /\ Range(Sorted(ns)) = ns
<1>1. IsFiniteSet(ns) /\ Cardinality(ns) \in Nat
  BY NotesAssumption, FS_Subset, FS_CardinalityType
<1>2. PICK n \in Nat : n = Cardinality(ns)
  BY <1>1
<1>3. \E s \in [1..n -> ns] : Ascending(s)
  BY <1>2, Ordered
<1>4. PICK s : s = Sorted(ns)
  OBVIOUS
<1>5. s \in [1..n -> ns] /\ Ascending(s)
  BY <1>2, <1>3, <1>4 DEF Sorted, Ascending
<1>6. s \in Injection(1..n, ns)
  <2>1. \A i, j \in 1..n : i # j => s[i] # s[j]
    <3> SUFFICES ASSUME NEW i \in 1..n, NEW j \in 1..n, i # j PROVE s[i] # s[j]
      OBVIOUS
    <3>0. s[i] \in ns /\ s[j] \in ns
      BY <1>5
    <3>4. s[i] \in Nat /\ s[j] \in Nat
      BY <3>0, NotesAssumption
    <3>5. i < j \/ j < i
      BY <1>2
    <3>1. s[i] \in Nat /\ s[j] \in Nat /\ (i < j \/ j < i)
      BY <3>4, <3>5
    <3>2. s[i] < s[j] \/ s[j] < s[i]
      BY <1>5, <3>1 DEF Ascending
    <3>3. QED
      BY <3>1, <3>2
  <2>2. QED
    BY <1>5, <2>1 DEF Injection, IsInjective
<1>7. Cardinality(1..n) = n /\ IsFiniteSet(1..n)
  BY FS_Interval
<1>8. s \in Surjection(1..n, ns)
  BY <1>1, <1>2, <1>6, <1>7, FS_Injection
<1>9. Range(s) = ns
  BY <1>5, <1>8 DEF Surjection, Range
<1>10. s \in Seq(Notes)
  BY <1>5
<1>11. QED
  BY <1>4, <1>5, <1>9, <1>10

(* Taking a client out of the queue takes out that client only. *)
LEMMA Unqueued ==
    ASSUME NEW q \in Seq(Clients), IsInjective(q), NEW c \in Clients
    PROVE  /\ RemoveFirst(q, c) \in Seq(Clients) /\ IsInjective(RemoveFirst(q, c))
           /\ Range(RemoveFirst(q, c)) = Range(q) \ {c}
<1>1. CASE ~ \E i \in 1..Len(q) : q[i] = c
  BY <1>1 DEF RemoveFirst, Range
<1>2. CASE \E i \in 1..Len(q) : q[i] = c
  <2>1. PICK i \in 1..Len(q) : q[i] = c
    BY <1>2
  <2>2. {j \in 1..Len(q) : q[j] = c} = {i}
    BY <2>1 DEF IsInjective
  <2>3. SelectInSeq(q, LAMBDA v : v = c) = i
    <3>1. Min({i}) = i
      BY <2>1 DEF Min
    <3>2. QED
      BY <2>2, <3>1 DEF SelectInSeq
  <2> DEFINE a == SubSeq(q, 1, i - 1)
             b == SubSeq(q, i + 1, Len(q))
             r == a \o b
  <2>4. /\ a \in Seq(Clients) /\ Len(a) = i - 1
        /\ \A j \in 1..(i - 1) : a[j] = q[j]
    <3>1. \A j \in 1..(i - 1) : q[j] \in Clients
      OBVIOUS
    <3>2. QED
      BY <2>1, <3>1, SubSeqProperties
  <2>5. /\ b \in Seq(Clients) /\ Len(b) = Len(q) - i
        /\ \A j \in 1..(Len(q) - i) : b[j] = q[i + j]
    <3>1. \A j \in (i + 1)..Len(q) : q[j] \in Clients
      OBVIOUS
    <3>2. /\ b \in Seq(Clients) /\ Len(b) = IF i + 1 <= Len(q) THEN Len(q) - (i + 1) + 1 ELSE 0
          /\ \A j \in 1..(Len(q) - (i + 1) + 1) : b[j] = q[i + 1 + j - 1]
      <4>1. i + 1 \in Int /\ Len(q) \in Int
        BY <2>1
      <4> HIDE DEF a, r
      <4>2. QED
        BY <3>1, <4>1, SubSeqProperties
    <3> HIDE DEF b
    <3>3. Len(b) = Len(q) - i
      BY <2>1, <3>2
    <3>4. ASSUME NEW j \in 1..(Len(q) - i) PROVE b[j] = q[i + j]
      <4>1. j \in 1..(Len(q) - (i + 1) + 1) /\ i + 1 + j - 1 = i + j
        BY <2>1
      <4>2. QED
        BY <3>2, <4>1
    <3>5. QED
      BY <3>2, <3>3, <3>4
  <2>6. RemoveFirst(q, c) = r
    BY <1>2, <2>3 DEF RemoveFirst, RemoveAt
  <2> HIDE DEF a, b
  <2>10. /\ r \in Seq(Clients) /\ Len(r) = Len(q) - 1
         /\ \A j \in 1..Len(r) : r[j] = IF j < i THEN q[j] ELSE q[j + 1]
    <3>1. /\ r \in Seq(Clients) /\ Len(r) = Len(a) + Len(b)
          /\ \A j \in 1..(Len(a) + Len(b)) : r[j] = IF j <= Len(a) THEN a[j] ELSE b[j - Len(a)]
      BY <2>4, <2>5, ConcatProperties
    <3> HIDE DEF r
    <3>2. Len(a) + Len(b) = Len(q) - 1 /\ Len(q) \in Nat
      BY <2>1, <2>4, <2>5
    <3>3. ASSUME NEW j \in 1..(Len(q) - 1) PROVE r[j] = IF j < i THEN q[j] ELSE q[j + 1]
      <4>1. CASE j < i
        BY <2>1, <2>4, <3>1, <3>2, <4>1
      <4>2. CASE ~(j < i)
        <5>1. j - Len(a) \in 1..(Len(q) - i) /\ i + (j - Len(a)) = j + 1
          BY <2>1, <2>4, <3>2, <4>2
        <5>2. r[j] = b[j - Len(a)]
          BY <2>1, <2>4, <3>1, <3>2, <4>2
        <5>3. QED
          BY <2>5, <4>2, <5>1, <5>2
      <4>3. QED
        BY <4>1, <4>2
    <3>4. QED
      BY <3>1, <3>2, <3>3
  <2> HIDE DEF r
  <2>11. IsInjective(r)
    <3> SUFFICES ASSUME NEW j \in 1..Len(r), NEW k \in 1..Len(r), r[j] = r[k] PROVE j = k
      BY <2>10 DEF IsInjective
    <3>1. ASSUME NEW x \in 1..Len(q), NEW y \in 1..Len(q), q[x] = q[y] PROVE x = y
      BY <3>1 DEF IsInjective
    <3>2. QED
      BY <2>1, <2>10, <3>1
  <2>12. Range(r) = Range(q) \ {c}
    <3>1. ASSUME NEW j \in 1..Len(r) PROVE r[j] \in Range(q) \ {c}
      <4>1. PICK k \in 1..Len(q) : k # i /\ r[j] = q[k]
        BY <2>1, <2>10
      <4>2. q[k] # c
        BY <2>1, <4>1 DEF IsInjective
      <4>3. QED
        BY <4>1, <4>2 DEF Range
    <3>2. ASSUME NEW j \in 1..Len(q), q[j] # c PROVE q[j] \in Range(r)
      <4>1. j # i
        BY <2>1, <3>2
      <4>2. CASE j < i
        <5>1. j \in 1..Len(r) /\ r[j] = q[j]
          BY <2>1, <2>10, <4>2
        <5>2. QED
          BY <2>10, <5>1 DEF Range
      <4>3. CASE j > i
        <5>1. j - 1 \in 1..Len(r) /\ r[j - 1] = q[j]
          BY <2>1, <2>10, <4>3
        <5>2. QED
          BY <2>10, <5>1 DEF Range
      <4>4. QED
        BY <4>1, <4>2, <4>3
    <3>3. QED
      BY <2>10, <3>1, <3>2 DEF Range
  <2>13. QED
    BY <2>6, <2>10, <2>11, <2>12
<1>3. QED
  BY <1>1, <1>2

-----------------------------------------------------------------------------
(* A client's call after a step of it: the request stays what it was. *)
Moved(c, at, pc, plan, landed) ==
    /\ call' = [d \in Clients |-> call'[d]]
    /\ call'[c] = [op |-> call[c].op, items |-> call[c].items, at |-> at, pc |-> pc,
                   plan |-> plan, landed |-> landed]
    /\ \A d \in Clients : d # c => call'[d] = call[d]

LEMMA MovedBy ==
    ASSUME Typed, NEW c \in Clients, NEW v
    PROVE  /\ call' = [call EXCEPT ![c].pc = v] =>
                Moved(c, call[c].at, v, call[c].plan, call[c].landed)
           /\ call' = [call EXCEPT ![c].at = @ + 1, ![c].pc = v] =>
                Moved(c, call[c].at + 1, v, call[c].plan, call[c].landed)
           /\ \A w : call' = [call EXCEPT ![c].pc = v, ![c].plan = w] =>
                Moved(c, call[c].at, v, w, call[c].landed)
           /\ \A w : call' = [call EXCEPT ![c].at = @ + 1, ![c].pc = v, ![c].landed = w] =>
                Moved(c, call[c].at + 1, v, call[c].plan, w)
           /\ \A w : call' = [call EXCEPT ![c].pc = v, ![c].landed = w] =>
                Moved(c, call[c].at, v, call[c].plan, w)
           /\ \A w : call' = [call EXCEPT ![c].plan = w, ![c].at = @ + 1, ![c].pc = v] =>
                Moved(c, call[c].at + 1, v, w, call[c].landed)
<1>1. /\ call = [d \in Clients |-> call[d]]
      /\ call[c] = [op |-> call[c].op, items |-> call[c].items, at |-> call[c].at, pc |-> call[c].pc,
                   plan |-> call[c].plan, landed |-> call[c].landed]
  BY DEF Typed, IsCall
<1>2. QED
  BY <1>1 DEF Moved

(* A step of a call draws no mark, and lands only marks of its own.        *)
LEMMA MarksMove ==
    ASSUME Typed, Numbered, NEW c \in Clients, NEW at, NEW pc, NEW plan, NEW landed,
           Moved(c, at, pc, plan, landed), marks' = marks,
           call[c].landed \subseteq landed, landed \subseteq Asked(c)
    PROVE  /\ \A d \in Clients : Asked(d)' = Asked(d)
           /\ Numbered'
           /\ Known \subseteq Known' /\ Seen \subseteq Seen' /\ landed \subseteq Known'
<1>2. \A d \in Clients : call'[d].op = call[d].op /\ call'[d].items = call[d].items
  BY DEF Moved
<1>1. \A d \in Clients : Asked(d)' = Asked(d)
  BY <1>2 DEF Asked
<1>3. \A d \in Clients : call'[d].landed \subseteq Asked(d)'
  BY <1>1 DEF Moved, Numbered
<1>4. Numbered'
  BY <1>1, <1>2, <1>3 DEF Numbered
<1>5. \A d \in Clients : Due(d)' \subseteq Due(d)
  BY <1>1 DEF Moved, Due
<1>6. Known \subseteq Known'
  BY <1>5 DEF Known
<1>7. landed \subseteq Known'
  <2> SUFFICES ASSUME NEW m \in landed PROVE m \in Known'
    OBVIOUS
  <2>1. m \in 1..marks
    BY DEF Numbered
  <2>2. \A d \in Clients : m \notin Due(d)'
    BY <1>1 DEF Due, Moved, Numbered
  <2>3. QED
    BY <2>1, <2>2 DEF Known
<1>8. QED
  BY <1>1, <1>4, <1>6, <1>7 DEF Seen

(* A call that ends leaves its marks to whoever has them. *)
LEMMA MarksLeft ==
    ASSUME Typed, Numbered, NEW c \in Clients, call' = [call EXCEPT ![c] = Idle], marks' = marks
    PROVE  /\ \A d \in Clients : d # c => Asked(d)' = Asked(d)
           /\ Asked(c)' = {}
           /\ Numbered'
           /\ Known \subseteq Known' /\ Seen \subseteq Seen' /\ Asked(c) \subseteq Known'
<1>1. call'[c] = Idle /\ \A d \in Clients : d # c => call'[d] = call[d]
  BY DEF Typed
<1>2. /\ \A d \in Clients : d # c => Asked(d)' = Asked(d)
      /\ Asked(c)' = {} /\ call'[c].landed = {}
  BY <1>1 DEF Asked, Idle, Writes
<1>3. Numbered'
  <2>1. call'[c].op \notin Writes
    BY <1>1 DEF Idle, Writes
  <2>2. QED
    BY <1>1, <1>2, <2>1 DEF Numbered
<1>4. \A d \in Clients : Due(d)' \subseteq Due(d)
  BY <1>1, <1>2 DEF Due
<1>5. Known \subseteq Known'
  BY <1>4 DEF Known
<1>6. Asked(c) \subseteq Known'
  <2> SUFFICES ASSUME NEW m \in Asked(c) PROVE m \in Known'
    OBVIOUS
  <2>1. m \in 1..marks
    BY DEF Numbered
  <2>2. \A d \in Clients : m \notin Due(d)'
    BY <1>2 DEF Due, Numbered
  <2>3. QED
    BY <2>1, <2>2 DEF Known
<1>7. QED
  BY <1>2, <1>3, <1>5, <1>6 DEF Seen

(* The same of a step that no call takes. *)
LEMMA MarksStay ==
    ASSUME UNCHANGED <<call, marks>>
    PROVE  /\ \A d \in Clients : Asked(d)' = Asked(d)
           /\ Numbered <=> Numbered'
           /\ Known' = Known /\ Seen' = Seen
BY DEF Asked, Numbered, Known, Seen, Due

(* What circulates after a step: what did, or marks that are not due. *)
LEMMA Circulates ==
    ASSUME Circulation, NEW c \in Clients, NEW at, NEW pc, NEW plan, NEW landed,
           Moved(c, at, pc, plan, landed),
           \A d \in Clients : Asked(d)' = Asked(d),
           Known \subseteq Known', Seen \subseteq Seen', base' = base,
           \A n \in Notes : disk'[n] = disk[n] \/ disk'[n] \subseteq Seen',
           \A d \in Clients, n \in Notes :
               \/ copy'[d][n] = copy[d][n] \/ copy'[d][n] = Unknown \/ copy'[d][n] \subseteq Known',
           events' \subseteq events \cup Known',
           call[c].op \in Writes => \A j \in DOMAIN plan : plan[j] \subseteq Seen' \cup Asked(c)
    PROVE  Circulation'
<1>1. \A n \in Notes : disk'[n] \subseteq Seen' /\ base'[n] \subseteq Seen'
  BY DEF Circulation
<1>2. Unknown' = Unknown
  BY DEF Unknown
<1>3. \A d \in Clients, n \in Notes : copy'[d][n] = Unknown \/ copy'[d][n] \subseteq Known'
  BY DEF Circulation
<1>4. events' \subseteq Known'
  BY DEF Circulation
<1>5. ASSUME NEW d \in Clients
      PROVE /\ \A j \in DOMAIN call'[d].items : call'[d].items[j].copy \subseteq Known'
            /\ call'[d].op \in Writes =>
                 \A j \in DOMAIN call'[d].plan : call'[d].plan[j] \subseteq Seen' \cup Asked(d)'
  <2>1. CASE d = c
    <3>1. call'[c].op = call[c].op /\ call'[c].items = call[c].items /\ call'[c].plan = plan
      BY DEF Moved
    <3>2. \A j \in DOMAIN call[c].items : call[c].items[j].copy \subseteq Known
      BY DEF Circulation
    <3>3. QED
      BY <2>1, <3>1, <3>2
  <2>2. CASE d # c
    <3>1. call'[d] = call[d]
      BY <2>2 DEF Moved
    <3>2. /\ \A j \in DOMAIN call[d].items : call[d].items[j].copy \subseteq Known
          /\ call[d].op \in Writes =>
               \A j \in DOMAIN call[d].plan : call[d].plan[j] \subseteq Seen \cup Asked(d)
      BY DEF Circulation
    <3>3. QED
      BY <3>1, <3>2
  <2>3. QED
    BY <2>1, <2>2
<1>6. QED
  BY <1>1, <1>2, <1>3, <1>4, <1>5 DEF Circulation

(* A client that is not inside has nothing under way. *)
LEMMA Waiting ==
    ASSUME NEW d \in Clients, Stands(d)', d \notin inside'
    PROVE  Relies(d)' /\ Indexing(d)'
<1>1. call'[d].pc = "idle" \/ (call'[d].pc = "queued" /\ call'[d].landed = {})
  BY DEF Stands
<1>2. call'[d].pc = "idle" => call'[d].op = "none"
  BY DEF Stands
<1>3. Relies(d)'
  <2>1. CASE call'[d].pc = "idle"
    BY <1>2, <2>1 DEF Relies, Writes
  <2>2. CASE call'[d].pc = "queued" /\ call'[d].landed = {}
    BY <2>2 DEF Relies
  <2>3. QED
    BY <1>1, <2>1, <2>2
<1>4. QED
  BY <1>1, <1>3 DEF Indexing

(* One that stays as it is, inside or out, stands where it stood. *)
LEMMA StandsStill ==
    ASSUME NEW d \in Clients, Stands(d), call'[d] = call[d],
           d \in inside' <=> d \in inside,
           d \in Range(queue)' <=> d \in Range(queue),
           flock' = d <=> flock = d,
           d \in inside /\ call[d].op \in Writes => inside' = {d}
    PROVE  Stands(d)'
BY DEF Stands

(* While the notes are as they were it relies on what it relied on. *)
LEMMA ReliesStill ==
    ASSUME NEW d \in Clients, Relies(d), Asked(d)' = Asked(d), call'[d] = call[d],
           d \notin stirred' => d \notin stirred /\ disk' = disk,
           Known \subseteq Known', events \subseteq events'
    PROVE  Relies(d)'
<1>1. Now(d)' = Now(d)
  BY DEF Now
<1>2. CASE d \in stirred'
  BY <1>1, <1>2 DEF Relies
<1>3. CASE d \notin stirred'
  <2>1. disk' = disk /\ d \notin stirred
    BY <1>3
  <2>2. \A n : There(n)' <=> There(n)
    BY <2>1 DEF There
  <2>3. QED
    BY <1>1, <1>3, <2>1, <2>2 DEF Relies
<1>4. QED
  BY <1>2, <1>3

(* And an index is as far as it was. *)
LEMMA IndexesStill ==
    ASSUME NEW d \in Clients, Indexing(d), call'[d] = call[d], copy'[d] = copy[d],
           d \notin stirred' => d \notin stirred /\ disk' = disk
    PROVE  Indexing(d)'
BY DEF Indexing, There, Present

(* Nobody's listing is the worse for a change of the notes. *)
LEMMA WalksOn ==
    ASSUME Typed, NEW d \in Clients, Walking(d),
           \/ disk' = disk /\ walk' = walk
           \/ Become(disk')
    PROVE  Walking(d)'
<1>1. CASE disk' = disk /\ walk' = walk
  BY <1>1 DEF Walking, Present
<1>2. CASE Become(disk')
  <2>1. /\ walk'[d].seen = walk[d].seen /\ walk'[d].more = walk[d].more
        /\ walk'[d].steady = walk[d].steady \cap Present(disk')
    BY <1>2 DEF Become, Typed
  <2>2. QED
    BY <2>1 DEF Walking
<1>3. QED
  BY <1>1, <1>2

(* What is uncommitted stays so only while a call is to commit it. *)
LEMMA CommitsStill ==
    ASSUME Uncommitted, UNCHANGED <<disk, head, stray>>, hungup => hungup',
           inside \subseteq inside', inside \subseteq Clients,
           \A d \in inside : \A n \in Notes :
               /\ call[d].op \in Writes /\ call[d].pc \notin {"apply", "done"} /\ n \in Touched(d) =>
                    /\ call'[d].op \in Writes /\ call'[d].pc \notin {"apply", "done"}
                    /\ n \in Touched(d)'
    PROVE  Uncommitted'
BY DEF Uncommitted

(* A step a call takes inside the lock: what is left to show of it. *)
LEMMA InsideStep ==
    ASSUME Typed, NoteInv, NEW c \in Clients, c \in inside,
           NEW at, NEW pc, NEW plan, NEW landed, Moved(c, at, pc, plan, landed),
           UNCHANGED <<stray, hungup, queue, inside, base, marks, strange, stirred>>,
           flock' \in {"free", flock, c},
           call[c].landed \subseteq landed, landed \subseteq Asked(c),
           call[c].op \in Writes \/ disk' = disk,
           disk' \in [Notes -> Cell], head' \in [Notes -> Cell], dir' \in BOOLEAN,
           copy' \in [Clients -> [Notes -> Text \cup {Unknown}]],
           walk' \in [Clients -> [seen : Seq(Notes), steady : SUBSET Notes, more : BOOLEAN]],
           IsCall(call'[c]), Stands(c)', Relies(c)', Indexing(c)', DirStands', Uncommitted',
           \A d \in Clients : d # c => copy'[d] = copy[d] /\ (flock' = d <=> flock = d),
           \A n \in Notes : disk'[n] = disk[n] \/ disk'[n] \subseteq Seen',
           \A n \in Notes : copy'[c][n] \in {copy[c][n], Unknown} \/ copy'[c][n] \subseteq Known',
           events \subseteq events', events' \subseteq events \cup landed,
           call[c].op \in Writes => \A j \in DOMAIN plan : plan[j] \subseteq Seen' \cup Asked(c),
           \A d \in Clients : Walking(d)'
    PROVE  Typed' /\ NoteInv'
<1>1. /\ \A d \in Clients : Asked(d)' = Asked(d)
      /\ Numbered' /\ Known \subseteq Known' /\ Seen \subseteq Seen' /\ landed \subseteq Known'
  BY MarksMove DEF NoteInv
<1>2. Circulation'
  BY <1>1, Circulates DEF NoteInv
<1>3. ASSUME NEW d \in Clients, d # c PROVE Stands(d)' /\ Relies(d)' /\ Indexing(d)'
  <2>1. call'[d] = call[d]
    BY <1>3 DEF Moved
  <2>2. Stands(d)'
    BY <1>3, <2>1, StandsStill DEF NoteInv, Stands
  <2>3. CASE d \notin inside
    BY <2>2, <2>3, Waiting
  <2>4. CASE d \in inside
    <3>1. disk' = disk
      BY <1>3, <2>4 DEF NoteInv, Stands
    <3>2. QED
      BY <1>1, <1>3, <2>1, <2>2, <3>1, ReliesStill, IndexesStill DEF NoteInv
  <2>5. QED
    BY <2>3, <2>4, <2>2
<1>4. Typed'
  <2>1. \A d \in Clients : IsCall(call'[d])
    BY DEF Moved, Typed
  <2>2. IsCall(call[c])'
    OBVIOUS
  <2>3. events' \subseteq Marks
    BY <1>1, BoundAssumption DEF Typed, Numbered, NoteInv, Marks
  <2>4. QED
    BY <2>1, <2>3, ClientsAssumption DEF Typed, Moved
<1>5. QED
  BY <1>1, <1>2, <1>3, <1>4 DEF NoteInv

-----------------------------------------------------------------------------
(* The items of a request. *)
LEMMA ItemsAre ==
    ASSUME NEW x, IsCall(x), NEW i \in Range(x.items)
    PROVE  /\ i \in Item /\ i.note \in Notes /\ i.copy \in Text
           /\ i.expect \in {"absent", "present", "either", "copy"}
           /\ \E j \in DOMAIN x.items : i = x.items[j]
<1>1. PICK j \in DOMAIN x.items : i = x.items[j]
  BY DEF Range
<1>2. x.items[j] \in Item
  BY DEF IsCall
<1>3. QED
  BY <1>1, <1>2 DEF Item

(* The item a call is at. *)
LEMMA TheItem ==
    ASSUME Typed, NoteInv, NEW c \in Clients, call[c].pc \in {"look", "save"},
           call[c].op \in Writes \cup {"get"}
    PROVE  /\ c \in inside /\ Now(c) \in Item /\ Now(c).note \in Notes /\ Now(c).copy \in Text
           /\ Now(c).copy \subseteq Known /\ call[c].at \in 1..Len(call[c].items)
           /\ call[c].items \in Seq(Item)
           /\ Now(c) = call[c].items[call[c].at]
           /\ disk[Now(c).note] \in Cell /\ disk[Now(c).note] \subseteq Seen
           /\ call[c].op \in Writes => Now(c).mark \in Marks /\ Now(c).mark \in Asked(c)
<1>1. /\ Stands(c) /\ IsCall(call[c]) /\ Circulation /\ Numbered
  BY DEF NoteInv, Typed
<1>2. call[c].items \in Seq(Item) /\ call[c].at \in Nat /\ c \in inside
  BY <1>1 DEF IsCall, Stands
<1>3. call[c].at \in 1..Len(call[c].items)
  <2>1. CASE call[c].op \in Writes
    BY <1>1, <2>1 DEF Stands
  <2>2. CASE call[c].op = "get" /\ call[c].pc = "look"
    <3>1. call[c].op \in Reads
      BY <2>2 DEF Reads
    <3>2. call[c].at = 1 /\ Len(call[c].items) = 1
      BY <1>1, <2>2, <3>1 DEF Stands
    <3>3. QED
      BY <3>2
  <2>3. CASE call[c].op = "get" /\ call[c].pc = "save"
    BY <1>1, <2>3 DEF Stands, Single
  <2>4. QED
    BY <2>1, <2>2, <2>3
<1>4. Now(c) \in Item /\ Now(c) = call[c].items[call[c].at]
  BY <1>2, <1>3 DEF Now
<1>5. Now(c).note \in Notes /\ Now(c).copy \in Text /\ Now(c).mark \in Marks \cup {0}
  BY <1>4 DEF Item
<1>6. Now(c).copy \subseteq Known
  BY <1>1, <1>2, <1>3, <1>4 DEF Circulation
<1>7. disk[Now(c).note] \in Cell /\ disk[Now(c).note] \subseteq Seen
  BY <1>1, <1>5 DEF Typed, Circulation
<1>8. ASSUME call[c].op \in Writes PROVE Now(c).mark \in Marks /\ Now(c).mark \in Asked(c)
  <2>1. Now(c) \in Range(call[c].items)
    BY <1>2, <1>3, <1>4 DEF Range
  <2>2. Now(c).mark \in Asked(c)
    BY <1>8, <2>1 DEF Asked
  <2>3. Now(c).mark \in 1..marks
    BY <1>1, <2>2 DEF Numbered
  <2>4. Now(c).mark \in Marks
    BY <2>3, BoundAssumption DEF Typed, Marks
  <2>5. QED
    BY <2>2, <2>4
<1>9. QED
  BY <1>2, <1>3, <1>4, <1>5, <1>6, <1>7, <1>8

(* What the single writes make of a note: its mark and what may circulate. *)
LEMMA SingleBody ==
    ASSUME Typed, NoteInv, NEW c \in Clients, call[c].pc = "look", call[c].op \in Single
    PROVE  LET b == Body(call[c].op, Now(c), disk[Now(c).note]) IN
           b \in Text /\ b \subseteq Known \cup {Now(c).mark} /\ Now(c).mark \in b
<1>1. /\ Now(c).copy \in Text /\ Now(c).copy \subseteq Known /\ Now(c).mark \in Marks
      /\ disk[Now(c).note] \in Cell /\ disk[Now(c).note] \subseteq Seen
  BY TheItem DEF Single, Writes
<1>2. disk[Now(c).note] \ Absent \in Text /\ disk[Now(c).note] \ Absent \subseteq Known
  <2>1. CASE disk[Now(c).note] \in Text
    BY <1>1, <2>1, Marking DEF Seen, Absent
  <2>2. CASE disk[Now(c).note] = Absent
    BY <2>2, Marking
  <2>3. QED
    BY <1>1, <2>1, <2>2 DEF Cell
<1>3. CASE call[c].op = "put"
  BY <1>1, <1>3, Marking DEF Body
<1>4. CASE call[c].op = "create"
  BY <1>1, <1>4, Marking DEF Body, Text
<1>5. CASE call[c].op = "append"
  BY <1>1, <1>2, <1>5, Marking DEF Body
<1>6. QED
  BY <1>3, <1>4, <1>5 DEF Single

(* Looking at the next note: the copy it is about to write fits the note.  *)
LEMMA LookAtOneInv ==
    ASSUME Typed, NoteInv, NEW c \in Clients, LookAtOne(c)
    PROVE  Typed' /\ NoteInv'
<1> DEFINE b == Body(call[c].op, Now(c), disk[Now(c).note])
<1>1. /\ call[c].pc = "look" /\ call[c].op \in Single /\ call[c].op \in Writes
      /\ UNCHANGED <<disk, dir, head, stray, hungup, queue, inside, flock>>
      /\ UNCHANGED <<copy, walk, base, events, marks, strange, stirred>>
  BY DEF LookAtOne, git, lock, Single, Writes
<1>2. /\ c \in inside /\ Now(c) = call[c].items[call[c].at] /\ call[c].at \in 1..Len(call[c].items)
      /\ call[c].items \in Seq(Item) /\ Now(c).mark \in Asked(c)
  BY <1>1, TheItem
<1>3. b \in Text /\ b \subseteq Known \cup {Now(c).mark} /\ Now(c).mark \in b
  BY <1>1, SingleBody
<1>4. Stands(c) /\ Relies(c) /\ IsCall(call[c]) /\ call[c].landed \subseteq Asked(c)
  BY DEF NoteInv, Typed, Numbered
<1>5. \A d \in Clients : Walking(d)'
  BY <1>1, WalksOn DEF NoteInv
<1>6. DirStands'
  BY <1>1 DEF NoteInv, DirStands, There
<1>7. ASSUME NEW at, NEW pc, NEW plan, Moved(c, at, pc, plan, call[c].landed),
             pc \in {"save", "look", "emit"}, IsCall(call'[c]), Stands(c)', Relies(c)',
             \A j \in DOMAIN plan : plan[j] \subseteq Seen \cup Asked(c)
      PROVE  Typed' /\ NoteInv'
  <2>1. call'[c].op = call[c].op /\ call'[c].items = call[c].items /\ call'[c].pc = pc
    BY <1>7 DEF Moved
  <2>2. Seen \subseteq Seen'
    BY <1>1, <1>4, <1>7, MarksMove DEF NoteInv
  <2>3. Indexing(c)'
    BY <1>1, <2>1 DEF Indexing, Single
  <2>4. Uncommitted'
    <3>1. \A d \in inside : d # c => call'[d] = call[d]
      BY <1>7 DEF Moved, Typed
    <3>2. Touched(c)' = Touched(c)
      BY <1>7 DEF Moved, Touched
    <3>3. \A d \in inside : d # c => Touched(d)' = Touched(d)
      BY <3>1 DEF Touched
    <3>4. QED
      BY <1>1, <1>2, <1>7, <2>1, <3>1, <3>2, <3>3, CommitsStill DEF NoteInv, Typed
  <2>5. QED
    BY <1>1, <1>2, <1>4, <1>5, <1>6, <1>7, <2>2, <2>3, <2>4, InsideStep DEF Typed
<1>8. CASE Accepts(c, Now(c))
  <2>1. Moved(c, call[c].at, "save", <<b>>, call[c].landed)
    BY <1>8, MovedBy DEF LookAtOne
  <2>2. /\ call'[c].op = call[c].op /\ call'[c].items = call[c].items /\ call'[c].pc = "save"
        /\ call'[c].at = call[c].at /\ call'[c].plan = <<b>> /\ call'[c].landed = call[c].landed
    BY <2>1 DEF Moved
  <2>3. IsCall(call'[c])
    <3>1. <<b>> \in Seq(Cell)
      BY <1>3 DEF Cell
    <3>2. call'[c] = [op |-> call[c].op, items |-> call[c].items, at |-> call[c].at, pc |-> "save",
                   plan |-> <<b>>, landed |-> call[c].landed]
      BY <2>1 DEF Moved
    <3> HIDE DEF b
    <3>3. QED
      BY <1>1, <1>4, <2>2, <3>1, <3>2 DEF IsCall, Steps, Single
  <2>4. Stands(c)'
    BY <1>1, <1>2, <1>4, <2>2 DEF Stands, Single, Writes, Reads
  <2>5. Known \subseteq Known'
    BY <1>1, <1>4, <2>1, MarksMove DEF NoteInv
  <2>6. Now(c)' = Now(c) /\ There(Now(c).note)' = There(Now(c).note)
    BY <1>1, <2>2 DEF Now, There
  <2>7. Asked(c)' = Asked(c)
    BY <2>2 DEF Asked
  <2>8. Fits(Now(c), disk[Now(c).note])
    BY <1>8 DEF Accepts
  <2>9. Relies(c)'
    <3>1. <<b>> \in Seq(Text) /\ Len(<<b>>) = 1 /\ <<b>>[1] = b
      BY <1>3
    <3>2. \A i : There(i.note)' = There(i.note)
      BY <1>1 DEF There
    <3>3. b = Body(call[c].op, Now(c), disk[Now(c).note])
      OBVIOUS
    <3> HIDE DEF b
    <3>4. QED
      BY <1>1, <1>3, <1>4, <2>2, <2>5, <2>6, <2>7, <2>8, <3>1, <3>2, <3>3 DEF Relies, Single
  <2>10. \A j \in DOMAIN <<b>> : <<b>>[j] \subseteq Seen \cup Asked(c)
    BY <1>2, <1>3 DEF Seen
  <2>11. QED
    BY <1>7, <2>1, <2>3, <2>4, <2>9, <2>10
<1>9. CASE ~Accepts(c, Now(c))
  <2> DEFINE pc1 == More(c, call[c].at)
  <2>1. Moved(c, call[c].at + 1, pc1, call[c].plan, call[c].landed)
    BY <1>9, MovedBy DEF LookAtOne
  <2>2. /\ call'[c].op = call[c].op /\ call'[c].items = call[c].items /\ call'[c].pc = pc1
        /\ call'[c].at = call[c].at + 1 /\ call'[c].plan = call[c].plan
        /\ call'[c].landed = call[c].landed
    BY <2>1 DEF Moved
  <2>3. /\ pc1 \in {"look", "emit"}
        /\ pc1 = "look" => call[c].at + 1 \in 1..Len(call[c].items)
    BY <1>2 DEF More
  <2>4. IsCall(call'[c])
    <3>1. call'[c] = [op |-> call[c].op, items |-> call[c].items, at |-> call[c].at + 1, pc |-> pc1,
                   plan |-> call[c].plan, landed |-> call[c].landed]
      BY <2>1 DEF Moved
    <3> HIDE DEF pc1
    <3>2. QED
      BY <1>4, <2>2, <2>3, <3>1 DEF IsCall, Steps
  <2> HIDE DEF pc1
  <2>5. Stands(c)'
    BY <1>1, <1>2, <1>4, <2>2, <2>3 DEF Stands, Single, Writes, Reads
  <2>6. Asked(c)' = Asked(c)
    BY <2>2 DEF Asked
  <2>7. Relies(c)'
    <3>1. \A i : There(i.note)' = There(i.note)
      BY <1>1 DEF There
    <3>2. QED
      BY <1>1, <1>4, <2>2, <2>3, <2>6, <3>1 DEF Relies, Single
  <2>8. \A j \in DOMAIN call[c].plan : call[c].plan[j] \subseteq Seen \cup Asked(c)
    BY <1>1 DEF NoteInv, Circulation
  <2>9. QED
    BY <1>7, <2>1, <2>3, <2>4, <2>5, <2>7, <2>8
<1>10. QED
  BY <1>8, <1>9

(* Walks and directories after a write of one note. *)
LEMMA Becomes ==
    ASSUME Typed, NoteInv, Become(disk')
    PROVE  /\ \A d \in Clients : Walking(d)'
           /\ disk' \in [Notes -> Cell] =>
                walk' \in [Clients -> [seen : Seq(Notes), steady : SUBSET Notes, more : BOOLEAN]]
<1>1. \A d \in Clients : Walking(d)'
  BY WalksOn DEF NoteInv
<1>2. ASSUME NEW d \in Clients
      PROVE  walk'[d] \in [seen : Seq(Notes), steady : SUBSET Notes, more : BOOLEAN]
  <2>1. walk[d] \in [seen : Seq(Notes), steady : SUBSET Notes, more : BOOLEAN]
    BY DEF Typed
  <2>2. walk'[d] = [walk[d] EXCEPT !.steady = @ \cap Present(disk')]
    BY DEF Become
  <2>3. QED
    BY <2>1, <2>2
<1>3. walk' = [d \in Clients |-> walk'[d]]
  BY DEF Become
<1>4. QED
  BY <1>1, <1>2, <1>3

(* Writing the note looked at: the mark lands and so is in circulation,    *)
(* and the call goes on to the next item or to what follows.               *)
LEMMA SaveOneInv ==
    ASSUME Typed, NoteInv, NEW c \in Clients, SaveOne(c)
    PROVE  Typed' /\ NoteInv'
<1> DEFINE n == Now(c).note
           m == Now(c).mark
           pc1 == More(c, call[c].at)
<1>1. /\ call[c].pc = "save" /\ dir' = (dir \/ n \in InDir)
      /\ UNCHANGED <<head, stray, hungup, queue, inside, flock>>
      /\ UNCHANGED <<copy, base, marks, strange, stirred>>
  BY DEF SaveOne, git, lock
<1>2. Stands(c) /\ Relies(c) /\ IsCall(call[c]) /\ call[c].landed \subseteq Asked(c)
  BY DEF NoteInv, Typed, Numbered
<1>3. call[c].op \in Single /\ call[c].op \in Writes
  BY <1>1, <1>2 DEF Stands, Single, Writes
<1>4. /\ c \in inside /\ Now(c) = call[c].items[call[c].at] /\ call[c].at \in 1..Len(call[c].items)
      /\ call[c].items \in Seq(Item) /\ m \in Asked(c) /\ m \in Marks /\ n \in Notes
  BY <1>1, <1>3, TheItem
<1>5. PICK b : b = call[c].plan[1]
  OBVIOUS
<1>6. /\ call[c].plan \in Seq(Text) /\ Len(call[c].plan) = 1 /\ b \in Text
      /\ b \subseteq Known \cup {m} /\ m \in b
  <2>1. call[c].plan \in Seq(Text) /\ Len(call[c].plan) = 1
    BY <1>1, <1>2 DEF Relies
  <2>2. b \in Text
    BY <1>5, <2>1
  <2>3. QED
    BY <1>1, <1>2, <1>5, <2>1, <2>2 DEF Relies
<1>7. /\ pc1 \in {"look", "emit"}
      /\ pc1 = "look" => call[c].at + 1 \in 1..Len(call[c].items)
  BY <1>4 DEF More
<1> HIDE DEF pc1
<1>8. ASSUME NEW landed, Moved(c, call[c].at + 1, pc1, call[c].plan, landed),
             call[c].landed \subseteq landed, landed \subseteq Asked(c),
             disk' \in [Notes -> Cell], walk' \in [Clients -> [seen : Seq(Notes), steady : SUBSET Notes, more : BOOLEAN]],
             \A x \in Notes : disk'[x] = disk[x] \/ (x = n /\ disk'[x] = b /\ m \in landed),
             \A d \in Clients : Walking(d)',
             events \subseteq events', events' \subseteq events \cup landed,
             c \notin stirred => \A i \in Range(call[c].items) : i.mark \in landed =>
                CASE call[c].op = "delete" -> disk'[i.note] = Absent
                  [] call[c].op = "create" -> disk'[i.note] # Absent
                  [] OTHER                 -> i.mark \in disk'[i.note]
      PROVE  Typed' /\ NoteInv'
  <2>1. /\ call'[c].op = call[c].op /\ call'[c].items = call[c].items /\ call'[c].pc = pc1
        /\ call'[c].at = call[c].at + 1 /\ call'[c].plan = call[c].plan /\ call'[c].landed = landed
    BY <1>8 DEF Moved
  <2>2. /\ \A d \in Clients : Asked(d)' = Asked(d)
        /\ Seen \subseteq Seen' /\ Known \subseteq Known' /\ landed \subseteq Known'
    BY <1>1, <1>8, MarksMove DEF NoteInv
  <2>3. IsCall(call'[c])
    <3>1. call'[c] = [op |-> call[c].op, items |-> call[c].items, at |-> call[c].at + 1, pc |-> pc1,
                   plan |-> call[c].plan, landed |-> landed]
      BY <1>8 DEF Moved
    <3>2. landed \subseteq Marks
      BY <1>8, BoundAssumption DEF NoteInv, Numbered, Typed, Marks
    <3>3. QED
      BY <1>2, <1>7, <2>1, <3>1, <3>2 DEF IsCall, Steps
  <2>4. Stands(c)'
    BY <1>1, <1>2, <1>3, <1>4, <1>7, <2>1 DEF Stands, Single, Writes, Reads
  <2>5. \A x \in Notes : There(x)' <=> disk'[x] # Absent
    BY DEF There, Absent
  <2>6. \A i \in Range(call[c].items) : i.note \in Notes
    BY <1>2, ItemsAre
  <2>7. Relies(c)'
    <3>1. Asked(c)' = Asked(c)
      BY <2>2
    <3>2. call[c].op \notin {"edit", "delete"} /\ pc1 \notin {"save", "apply", "lock", "add", "commit", "done"}
      BY <1>3, <1>7 DEF Single
    <3>3. call[c].op \in Writes /\ c \notin stirred' =>
             \A i \in Range(call[c].items) : i.mark \in landed =>
                CASE call[c].op = "delete" -> ~There(i.note)'
                  [] call[c].op = "create" -> There(i.note)'
                  [] OTHER                 -> i.mark \in disk'[i.note]
      BY <1>1, <1>8, <2>5, <2>6
    <3>4. Absent' = Absent /\ Text' = Text
      BY DEF Absent, Text, Marks, Outside
    <3>5. QED
      BY <1>3, <1>6, <2>1, <3>1, <3>2, <3>3 DEF Relies
  <2>8. Indexing(c)'
    BY <1>3, <2>1 DEF Indexing, Single
  <2>9. DirStands'
    BY <1>1, <1>8, NotesAssumption DEF NoteInv, DirStands, There
  <2>10. Uncommitted'
    <3>1. Touched(c) \subseteq Touched(c)' /\ (m \in landed => n \in Touched(c)')
      <4>1. Now(c) \in Range(call[c].items)
        BY <1>4 DEF Range
      <4>2. QED
        BY <1>8, <2>1, <4>1 DEF Touched
    <3>2. \A d \in inside : d = c
      BY <1>2, <1>3, <1>4 DEF Stands
    <3>3. QED
      BY <1>1, <1>3, <1>4, <1>7, <1>8, <2>1, <3>1, <3>2 DEF NoteInv, Uncommitted
  <2>11. b \subseteq Seen' \/ m \notin landed
    BY <1>6, <2>2 DEF Seen
  <2>12. \A j \in DOMAIN call[c].plan : call[c].plan[j] \subseteq Seen' \cup Asked(c)
    BY <1>3, <2>2 DEF NoteInv, Circulation
  <2>13. \A x \in Notes : disk'[x] = disk[x] \/ disk'[x] \subseteq Seen'
    BY <1>8, <2>11
  <2>14. dir' \in BOOLEAN /\ head' \in [Notes -> Cell] /\ copy' \in [Clients -> [Notes -> Text \cup {Unknown}]]
    BY <1>1 DEF Typed
  <2>15. QED
    BY <1>1, <1>2, <1>3, <1>4, <1>8, <2>2, <2>3, <2>4, <2>7, <2>8, <2>9, <2>10, <2>12, <2>13, <2>14, InsideStep
<1>9. CASE /\ Become([disk EXCEPT ![n] = call[c].plan[1]])
           /\ call' = [call EXCEPT ![c].at = @ + 1, ![c].pc = More(c, call[c].at),
                                   ![c].landed = @ \cup {m}]
           /\ events' = IF call[c].op = "append" THEN events \cup {m} ELSE events
  <2>1. Moved(c, call[c].at + 1, pc1, call[c].plan, call[c].landed \cup {m})
    <3>1. call' = [call EXCEPT ![c].at = @ + 1, ![c].pc = More(c, call[c].at),
                               ![c].landed = call[c].landed \cup {m}]
      BY <1>9 DEF Typed
    <3>2. QED
      BY <3>1, MovedBy DEF pc1
  <2>2. disk' = [disk EXCEPT ![n] = b] /\ Become(disk')
    BY <1>5, <1>9 DEF Become
  <2>3. disk' \in [Notes -> Cell]
    BY <1>4, <1>6, <2>2 DEF Typed, Cell
  <2>4. disk'[n] = b /\ \A x \in Notes : x # n => disk'[x] = disk[x]
    BY <1>4, <2>2 DEF Typed
  <2>5. b # Absent
    BY <1>6, Marking
  <2>6. ASSUME c \notin stirred, NEW i \in Range(call[c].items),
               i.mark \in call[c].landed \cup {m}
        PROVE  CASE call[c].op = "delete" -> disk'[i.note] = Absent
                 [] call[c].op = "create" -> disk'[i.note] # Absent
                 [] OTHER                 -> i.mark \in disk'[i.note]
    <3>1. i.note \in Notes
      BY <1>2, ItemsAre
    <3>2. CASE i.mark = m /\ i.mark \notin call[c].landed
      <4>1. i = Now(c)
        <5>1. PICK j \in DOMAIN call[c].items : i = call[c].items[j]
          BY DEF Range
        <5>2. \A x, y \in DOMAIN call[c].items :
                 x # y => call[c].items[x].mark # call[c].items[y].mark
          BY <1>3 DEF NoteInv, Numbered
        <5>3. call[c].at \in DOMAIN call[c].items
          BY <1>4
        <5>4. QED
          BY <1>4, <3>2, <5>1, <5>2, <5>3
      <4>2. disk'[i.note] = b /\ i.mark \in b
        BY <1>6, <2>4, <4>1
      <4>3. QED
        BY <1>3, <2>5, <4>2 DEF Single
    <3>3. CASE i.mark \in call[c].landed
      <4>1. (CASE call[c].op = "delete" -> ~There(i.note)
              [] call[c].op = "create" -> There(i.note)
              [] OTHER                 -> i.mark \in disk[i.note])
        BY <1>2, <1>3, <2>6, <3>3 DEF Relies
      <4>2. CASE i.note # n
        BY <2>4, <3>1, <4>1, <4>2 DEF There
      <4>3. CASE i.note = n
        <5>1. disk'[i.note] = b
          BY <2>4, <4>3
        <5>2. CASE call[c].op = "create"
          BY <2>5, <5>1, <5>2
        <5>3. CASE call[c].op = "append"
          <6>1. i.mark \in disk[n] /\ b = (disk[n] \ Absent) \cup {m}
            BY <1>1, <1>2, <1>5, <2>6, <4>1, <4>3, <5>3 DEF Relies, Body
          <6>2. i.mark \in Marks
            BY <1>2, <3>3 DEF IsCall
          <6>3. i.mark \notin Absent
            BY <6>2, Marking DEF Absent
          <6>4. QED
            BY <5>1, <5>3, <6>1, <6>3
        <5>4. CASE call[c].op = "put"
          <6>1. i = Now(c)
            <7>1. Len(call[c].items) = 1
              BY <1>2, <5>4 DEF Stands
            <7>2. QED
              BY <1>4, <7>1 DEF Range
          <6>2. QED
            BY <1>6, <5>1, <5>4, <6>1
        <5>5. QED
          BY <1>3, <5>2, <5>3, <5>4 DEF Single
      <4>4. QED
        BY <4>2, <4>3
    <3>4. QED
      BY <2>6, <3>2, <3>3
  <2>7. QED
    <3>1. /\ call[c].landed \subseteq call[c].landed \cup {m}
          /\ call[c].landed \cup {m} \subseteq Asked(c)
          /\ events \subseteq events' /\ events' \subseteq events \cup (call[c].landed \cup {m})
      BY <1>2, <1>4, <1>9
    <3>2. /\ walk' \in [Clients -> [seen : Seq(Notes), steady : SUBSET Notes, more : BOOLEAN]]
          /\ \A d \in Clients : Walking(d)'
      BY <2>2, <2>3, Becomes
    <3>3. \A x \in Notes : disk'[x] = disk[x] \/ (x = n /\ disk'[x] = b /\ m \in call[c].landed \cup {m})
      BY <2>4
    <3> HIDE DEF n, m
    <3>4. QED
      BY <1>8, <2>1, <2>3, <2>6, <3>1, <3>2, <3>3
<1>10. CASE /\ call' = [call EXCEPT ![c].at = @ + 1, ![c].pc = More(c, call[c].at)]
            /\ UNCHANGED <<disk, walk, events>>
  <2>1. Moved(c, call[c].at + 1, pc1, call[c].plan, call[c].landed)
    BY <1>10, MovedBy DEF pc1
  <2>2. c \notin stirred => \A i \in Range(call[c].items) : i.mark \in call[c].landed =>
            CASE call[c].op = "delete" -> disk'[i.note] = Absent
              [] call[c].op = "create" -> disk'[i.note] # Absent
              [] OTHER                 -> i.mark \in disk'[i.note]
    BY <1>2, <1>3, <1>10 DEF Relies, There
  <2>3. \A d \in Clients : Walking(d)'
    BY <1>10, WalksOn DEF NoteInv
  <2>4. QED
    BY <1>2, <1>8, <1>10, <2>1, <2>2, <2>3 DEF Typed
<1>11. QED
  BY <1>9, <1>10 DEF SaveOne

(* A writer's step that leaves the vault alone. *)
LEMMA QuietStep ==
    ASSUME Typed, NoteInv, NEW c \in Clients, c \in inside, call[c].op \in Writes,
           NEW at, NEW pc, NEW plan, Moved(c, at, pc, plan, call[c].landed),
           UNCHANGED <<disk, dir, head, stray, hungup, queue, inside>>,
           UNCHANGED <<copy, walk, base, marks, strange, stirred>>,
           IsCall(call'[c]), Stands(c)', Relies(c)',
           pc \notin {"apply", "done"} \/ hungup \/ call[c].landed = {},
           \A d \in Clients : d # c => (flock' = d <=> flock = d), flock' \in {"free", flock, c},
           events \subseteq events', events' \subseteq events \cup call[c].landed,
           \A j \in DOMAIN plan : plan[j] \subseteq Seen \cup Asked(c)
    PROVE  Typed' /\ NoteInv'
<1>1. call'[c].op = call[c].op /\ call'[c].items = call[c].items /\ call'[c].pc = pc
      /\ call'[c].landed = call[c].landed
  BY DEF Moved
<1>2. call[c].landed \subseteq Asked(c)
  BY DEF NoteInv, Numbered
<1>3. Seen \subseteq Seen'
  BY <1>2, MarksMove DEF NoteInv
<1>4. Indexing(c)'
  BY <1>1 DEF Indexing, Writes
<1>5. Uncommitted'
  <2>1. \A d \in inside : d # c => call'[d] = call[d]
    BY DEF Moved, Typed
  <2>2. Touched(c)' = Touched(c)
    BY <1>1 DEF Touched
  <2>3. \A d \in inside : d # c => Touched(d)' = Touched(d)
    BY <2>1 DEF Touched
  <2>4. CASE hungup
    BY <2>4 DEF Uncommitted
  <2>5. CASE pc \notin {"apply", "done"} \/ call[c].landed = {}
    <3>1. call[c].landed = {} => Touched(c) = {}
      BY DEF Touched
    <3>2. QED
      BY <1>1, <2>1, <2>2, <2>3, <2>5, <3>1, CommitsStill DEF NoteInv, Typed
  <2>6. QED
    BY <2>4, <2>5
<1>6. DirStands'
  BY DEF NoteInv, DirStands, There
<1>7. \A d \in Clients : Walking(d)'
  BY WalksOn DEF NoteInv
<1>8. /\ disk' \in [Notes -> Cell] /\ head' \in [Notes -> Cell] /\ dir' \in BOOLEAN
      /\ copy' \in [Clients -> [Notes -> Text \cup {Unknown}]]
      /\ walk' \in [Clients -> [seen : Seq(Notes), steady : SUBSET Notes, more : BOOLEAN]]
  BY DEF Typed
<1>9. \A j \in DOMAIN plan : plan[j] \subseteq Seen' \cup Asked(c)
  BY <1>3
<1>10. QED
  BY <1>2, <1>4, <1>5, <1>6, <1>7, <1>8, <1>9, InsideStep

(* Looking at all the notes of a batch, one by one: as long as none was    *)
(* refused the plan holds what is to become of each.                       *)
LEMMA LookAtAllInv ==
    ASSUME Typed, NoteInv, NEW c \in Clients, LookAtAll(c)
    PROVE  Typed' /\ NoteInv'
<1> DEFINE ok == Fits(Now(c), disk[Now(c).note])
           k == call[c].at
           b == Body(call[c].op, Now(c), disk[Now(c).note])
           plan1 == IF ok THEN Append(call[c].plan, b) ELSE call[c].plan
           pc1 == IF ~(k = Len(call[c].items)) THEN "look"
                  ELSE IF ok /\ Len(call[c].plan) + 1 = Len(call[c].items) THEN "apply" ELSE "done"
<1>1. /\ call[c].pc = "look" /\ call[c].op \in {"edit", "delete"} /\ call[c].op \in Writes
      /\ UNCHANGED <<disk, dir, head, stray, hungup, queue, inside, flock>>
      /\ UNCHANGED <<copy, walk, base, events, marks, strange, stirred>>
  BY DEF LookAtAll, git, lock, Writes
<1>2. Stands(c) /\ Relies(c) /\ IsCall(call[c]) /\ call[c].landed = {}
  BY <1>1 DEF NoteInv, Typed, Stands
<1>3. /\ c \in inside /\ Now(c) = call[c].items[k] /\ k \in 1..Len(call[c].items)
      /\ call[c].items \in Seq(Item) /\ Now(c).mark \in Asked(c) /\ Now(c).mark \in Marks
      /\ Now(c).note \in Notes /\ disk[Now(c).note] \in Cell /\ disk[Now(c).note] \subseteq Seen
      /\ Now(c).copy \in Text /\ Now(c) \in Item
  BY <1>1, TheItem
<1>4. call[c].plan \in Seq(Cell) /\ Len(call[c].plan) < k /\ k \in Nat /\ Len(call[c].plan) \in Nat
  BY <1>1, <1>2, <1>3 DEF IsCall, Stands
<1>5. ASSUME ok
      PROVE  /\ b \in Cell /\ b \subseteq Seen \cup Asked(c)
             /\ call[c].op = "delete" => b = Absent
             /\ call[c].op = "edit" =>
                  b \in Text /\ Now(c).mark \in b /\ disk[Now(c).note] \subseteq b
  <2>1. CASE call[c].op = "delete"
    BY <2>1 DEF Body, Cell, Seen, Absent
  <2>2. CASE call[c].op = "edit"
    <3>1. b = disk[Now(c).note] \cup {Now(c).mark}
      BY <2>2 DEF Body
    <3>2. disk[Now(c).note] \in Text
      <4>1. Now(c).expect \in {"present", "copy"}
        BY <1>2, <1>3, <2>2 DEF Stands, MayExpect
      <4>2. QED
        BY <1>3, <1>5, <4>1 DEF Fits, Cell
    <3>3. b \in Text
      BY <1>3, <3>1, <3>2, Marking
    <3> HIDE DEF b
    <3>4. QED
      BY <1>3, <2>2, <3>1, <3>3 DEF Cell
  <2>3. QED
    BY <1>1, <2>1, <2>2
<1> HIDE DEF b
<1>6. /\ plan1 \in Seq(Cell)
      /\ ok => Len(plan1) = Len(call[c].plan) + 1
      /\ ~ok => Len(plan1) = Len(call[c].plan)
      /\ \A j \in DOMAIN plan1 :
            IF j \in DOMAIN call[c].plan THEN plan1[j] = call[c].plan[j]
            ELSE ok /\ plan1[j] = b /\ j = Len(call[c].plan) + 1
  <2>1. CASE ok
    <3>1. plan1 = Append(call[c].plan, b)
      BY <2>1
    <3> HIDE DEF plan1, ok
    <3>2. QED
      BY <1>4, <1>5, <2>1, <3>1
  <2>2. CASE ~ok
    <3>1. plan1 = call[c].plan
      BY <2>2
    <3> HIDE DEF plan1, ok
    <3>2. QED
      BY <1>4, <2>2, <3>1
  <2>3. QED
    BY <2>1, <2>2
<1>7. Moved(c, k + 1, pc1, plan1, call[c].landed)
  <2>1. call' = [call EXCEPT ![c].plan = plan1, ![c].at = @ + 1, ![c].pc = pc1]
    BY DEF LookAtAll, b, Typed
  <2>2. QED
    BY <2>1, MovedBy
<1>8. /\ pc1 \in {"look", "apply", "done"}
      /\ pc1 = "look" => k + 1 \in 1..Len(call[c].items)
      /\ pc1 = "apply" => k = Len(call[c].items) /\ Len(plan1) = Len(call[c].items)
  BY <1>3, <1>4, <1>6
<1> HIDE DEF plan1, pc1, ok
<1>9. /\ call'[c].op = call[c].op /\ call'[c].items = call[c].items /\ call'[c].pc = pc1
      /\ call'[c].at = k + 1 /\ call'[c].plan = plan1 /\ call'[c].landed = {}
  BY <1>2, <1>7 DEF Moved
<1>10. IsCall(call'[c])
  <2>1. call'[c] = [op |-> call[c].op, items |-> call[c].items, at |-> k + 1, pc |-> pc1,
                    plan |-> plan1, landed |-> call[c].landed]
    BY <1>7 DEF Moved
  <2>2. QED
    BY <1>1, <1>2, <1>4, <1>6, <1>8, <1>9, <2>1 DEF IsCall, Steps
<1>11. Len(plan1) < k + 1 /\ Len(plan1) \in Nat
  BY <1>4, <1>6
<1>12. Stands(c)'
  BY <1>1, <1>2, <1>3, <1>8, <1>9, <1>11 DEF Stands, Single, Writes, Reads
<1>13. Relies(c)'
  <2>1. ASSUME call[c].op = "delete", NEW j \in DOMAIN plan1 PROVE plan1[j] = Absent
    BY <1>1, <1>2, <1>5, <1>6, <2>1 DEF Relies
  <2>2. ASSUME call[c].op = "edit", Len(plan1) = k + 1 - 1, NEW j \in DOMAIN plan1
        PROVE  /\ plan1[j] \in Text /\ call[c].items[j].mark \in plan1[j]
               /\ c \notin stirred => disk[call[c].items[j].note] \subseteq plan1[j]
    <3>1. ok /\ Len(call[c].plan) = k - 1
      <4>1. CASE ~ok
        BY <1>4, <1>6, <2>2, <4>1
      <4>2. CASE ok
        BY <1>4, <1>6, <2>2, <4>2
      <4>3. QED
        BY <4>1, <4>2
    <3>2. CASE j \in DOMAIN call[c].plan
      BY <1>1, <1>2, <1>6, <2>2, <3>1, <3>2 DEF Relies
    <3>3. CASE j \notin DOMAIN call[c].plan
      <4>1. plan1[j] = b /\ j = k
        BY <1>4, <1>6, <3>1, <3>3
      <4>2. QED
        BY <1>3, <1>5, <2>2, <3>1, <4>1
    <3>4. QED
      BY <3>2, <3>3
  <2>3. Absent' = Absent /\ Text' = Text
    BY DEF Absent, Text, Marks, Outside
  <2>4. call'[c].pc \notin {"save", "lock", "add", "commit"} /\ stirred' = stirred
    BY <1>1, <1>8, <1>9
  <2>5. ASSUME call'[c].op = "delete", NEW j \in DOMAIN call'[c].plan
        PROVE  call'[c].plan[j] = Absent'
    BY <1>9, <2>1, <2>3, <2>5
  <2>6. ASSUME call'[c].op = "edit", Len(call'[c].plan) = call'[c].at - 1,
               NEW j \in DOMAIN call'[c].plan
        PROVE  /\ call'[c].plan[j] \in Text' /\ call'[c].items[j].mark \in call'[c].plan[j]
               /\ c \notin stirred' => disk'[call'[c].items[j].note] \subseteq call'[c].plan[j]
    <3>1. call[c].op = "edit" /\ Len(plan1) = k + 1 - 1 /\ j \in DOMAIN plan1
      BY <1>4, <1>9, <2>6
    <3>2. /\ plan1[j] \in Text /\ call[c].items[j].mark \in plan1[j]
          /\ c \notin stirred => disk[call[c].items[j].note] \subseteq plan1[j]
      BY <2>2, <3>1
    <3>3. QED
      BY <1>1, <1>9, <2>3, <3>2
  <2>7. QED
    BY <1>9, <2>4, <2>5, <2>6 DEF Relies
<1>14. \A j \in DOMAIN plan1 : plan1[j] \subseteq Seen \cup Asked(c)
  BY <1>1, <1>5, <1>6 DEF NoteInv, Circulation
<1>15. QED
  BY <1>1, <1>2, <1>3, <1>7, <1>10, <1>12, <1>13, <1>14, QuietStep

(* Applying the batch: every note gets what was planned for it, the marks  *)
(* land together; or nothing happens.                                      *)
LEMMA ApplyAllInv ==
    ASSUME Typed, NoteInv, NEW c \in Clients, ApplyAll(c)
    PROVE  Typed' /\ NoteInv'
<1>1. /\ call[c].pc = "apply"
      /\ UNCHANGED <<head, stray, hungup, queue, inside, flock>>
      /\ UNCHANGED <<copy, base, events, marks, strange, stirred>>
  BY DEF ApplyAll, git, lock
<1>2. Stands(c) /\ Relies(c) /\ IsCall(call[c])
  BY DEF NoteInv, Typed
<1>3. /\ call[c].op \in {"edit", "delete"} /\ call[c].op \in Writes /\ c \in inside
      /\ call[c].landed = {} /\ call[c].plan \in Seq(Cell) /\ call[c].items \in Seq(Item)
      /\ Len(call[c].plan) = Len(call[c].items) /\ call[c].at = Len(call[c].items) + 1
      /\ call[c].op = "delete" => Len(call[c].items) = 1
  BY <1>1, <1>2 DEF Stands, IsCall, Writes
<1>4. /\ \A j \in DOMAIN call[c].items : call[c].items[j] \in Range(call[c].items)
      /\ DOMAIN call[c].items = DOMAIN call[c].plan
  BY <1>3 DEF Range
<1>5. \A j \in DOMAIN call[c].plan :
         /\ call[c].plan[j] \in Cell /\ call[c].plan[j] \subseteq Seen \cup Asked(c)
         /\ call[c].op = "delete" => call[c].plan[j] = Absent
         /\ call[c].op = "edit" => call[c].items[j].mark \in call[c].plan[j]
  <2>1. \A j \in DOMAIN call[c].plan : call[c].plan[j] \in Cell
    BY <1>3
  <2>2. \A j \in DOMAIN call[c].plan : call[c].plan[j] \subseteq Seen \cup Asked(c)
    BY <1>3 DEF NoteInv, Circulation
  <2>3. Len(call[c].plan) = call[c].at - 1
    BY <1>3
  <2>4. QED
    BY <1>1, <1>2, <2>1, <2>2, <2>3 DEF Relies
<1>6. \A d \in inside : d = c
  BY <1>2, <1>3 DEF Stands
<1>7. CASE /\ Become(Planned(c))
           /\ dir' = (dir \/ Present(disk') \cap InDir # {})
           /\ call' = [call EXCEPT ![c].pc = "emit", ![c].landed = {i.mark : i \in Range(call[c].items)}]
  <2>1. Moved(c, call[c].at, "emit", call[c].plan, Asked(c))
    <3>1. Asked(c) = {i.mark : i \in Range(call[c].items)}
      BY <1>3 DEF Asked
    <3>2. QED
      BY <1>7, <3>1, MovedBy
  <2>2. /\ call'[c].op = call[c].op /\ call'[c].items = call[c].items /\ call'[c].pc = "emit"
        /\ call'[c].at = call[c].at /\ call'[c].plan = call[c].plan /\ call'[c].landed = Asked(c)
    BY <2>1 DEF Moved
  <2>3. disk' = Planned(c) /\ Become(disk')
    BY <1>7 DEF Become
  <2>4. ASSUME NEW n \in Notes
        PROVE  \/ /\ disk'[n] = disk[n]
                  /\ \A j \in DOMAIN call[c].items : call[c].items[j].note # n
               \/ \E j \in DOMAIN call[c].items : call[c].items[j].note = n /\ disk'[n] = call[c].plan[j]
    <3>1. CASE \E j \in DOMAIN call[c].items : call[c].items[j].note = n
      <4>1. PICK j : /\ j = CHOOSE i \in DOMAIN call[c].items : call[c].items[i].note = n
                     /\ j \in DOMAIN call[c].items /\ call[c].items[j].note = n
        BY <3>1
      <4>2. disk'[n] = call[c].plan[j]
        BY <2>3, <3>1, <4>1 DEF Planned
      <4>3. QED
        BY <4>1, <4>2
    <3>2. CASE ~ \E j \in DOMAIN call[c].items : call[c].items[j].note = n
      BY <2>3, <3>2 DEF Planned
    <3>3. QED
      BY <3>1, <3>2
  <2>5. disk' \in [Notes -> Cell]
    <3>1. \A n \in Notes : disk'[n] \in Cell
      BY <1>4, <1>5, <2>4 DEF Typed
    <3>2. disk' = [n \in Notes |-> disk'[n]]
      BY <2>3 DEF Planned
    <3>3. QED
      BY <3>1, <3>2
  <2>6. /\ \A d \in Clients : Asked(d)' = Asked(d)
        /\ Seen \subseteq Seen' /\ Known \subseteq Known' /\ Asked(c) \subseteq Known'
    BY <1>1, <1>3, <2>1, MarksMove DEF NoteInv
  <2>7. IsCall(call'[c])
    <3>1. call'[c] = [op |-> call[c].op, items |-> call[c].items, at |-> call[c].at, pc |-> "emit",
                   plan |-> call[c].plan, landed |-> Asked(c)]
      BY <2>1 DEF Moved
    <3>2. Asked(c) \subseteq Marks
      BY BoundAssumption DEF NoteInv, Numbered, Typed, Marks
    <3>3. QED
      BY <1>2, <2>2, <3>1, <3>2 DEF IsCall, Steps
  <2>8. Stands(c)'
    BY <1>1, <1>2, <1>3, <2>2 DEF Stands, Single, Reads
  <2>9. ASSUME NEW i \in Range(call[c].items)
        PROVE  IF call[c].op = "delete" THEN disk'[i.note] = Absent ELSE i.mark \in disk'[i.note]
    <3>1. PICK j \in DOMAIN call[c].items : i = call[c].items[j]
      BY DEF Range
    <3>2. i.note \in Notes
      BY <1>2, ItemsAre
    <3>3. PICK k \in DOMAIN call[c].items : call[c].items[k].note = i.note /\ disk'[i.note] = call[c].plan[k]
      BY <2>4, <3>1, <3>2
    <3>4. CASE call[c].op = "delete"
      BY <1>4, <1>5, <3>3, <3>4
    <3>5. CASE call[c].op = "edit"
      <4>1. k = j
        BY <1>2, <3>1, <3>3, <3>5 DEF Stands
      <4>2. QED
        BY <1>4, <1>5, <3>1, <3>3, <3>5, <4>1
    <3>6. QED
      BY <1>3, <3>4, <3>5
  <2>10. Relies(c)'
    <3>1. Absent' = Absent
      BY DEF Absent
    <3>2. \A i \in Range(call[c].items) : There(i.note)' <=> disk'[i.note] # Absent
      BY DEF There, Absent
    <3>3. Asked(c)' = Asked(c)
      BY <2>6
    <3>4. \A i \in Range(call'[c].items) : i.mark \in call'[c].landed =>
            (CASE call'[c].op = "delete" -> ~There(i.note)'
               [] call'[c].op = "create" -> There(i.note)'
               [] OTHER                  -> i.mark \in disk'[i.note])
      BY <1>3, <2>2, <2>9, <3>2
    <3>5. QED
      BY <1>3, <2>2, <3>3, <3>4 DEF Relies
  <2>11. Indexing(c)'
    BY <1>3, <2>2 DEF Indexing
  <2>12. DirStands'
    BY <1>7, <2>5, NotesAssumption DEF DirStands, There, Present, Absent
  <2>13. Uncommitted'
    <3>1. \A n \in Notes : disk'[n] # disk[n] => n \in Touched(c)'
      <4>1. ASSUME NEW j \in DOMAIN call[c].items PROVE call[c].items[j].note \in Touched(c)'
        <5>1. call[c].items[j] \in Range(call[c].items) /\ call[c].items[j].mark \in Asked(c)
          BY <1>3, <1>4 DEF Asked
        <5>2. QED
          BY <2>2, <5>1 DEF Touched
      <4>2. QED
        BY <2>4, <4>1
    <3>2. ~hungup => ~stray.live /\ \A n \in Notes : head[n] = disk[n]
      BY <1>1, <1>6 DEF NoteInv, Uncommitted
    <3>3. QED
      BY <1>1, <1>3, <2>2, <3>1, <3>2 DEF Uncommitted
  <2>14. /\ \A d \in Clients : Walking(d)'
         /\ walk' \in [Clients -> [seen : Seq(Notes), steady : SUBSET Notes, more : BOOLEAN]]
    BY <2>3, <2>5, Becomes
  <2>15. /\ \A n \in Notes : disk'[n] = disk[n] \/ disk'[n] \subseteq Seen'
         /\ \A j \in DOMAIN call[c].plan : call[c].plan[j] \subseteq Seen' \cup Asked(c)
    <3>1. Known' \subseteq Seen'
      BY DEF Seen
    <3>2. QED
      BY <1>4, <1>5, <2>4, <2>6, <3>1
  <2>16. dir' \in BOOLEAN /\ head' \in [Notes -> Cell] /\ copy' \in [Clients -> [Notes -> Text \cup {Unknown}]]
    BY <1>1, <1>7 DEF Typed
  <2>17. QED
    BY <1>1, <1>3, <2>1, <2>5, <2>7, <2>8, <2>10, <2>11, <2>12, <2>13, <2>14, <2>15, <2>16, InsideStep
<1>8. CASE Goto(c, "done") /\ UNCHANGED <<disk, dir, walk>>
  <2>1. Moved(c, call[c].at, "done", call[c].plan, call[c].landed)
    BY <1>8, MovedBy DEF Goto
  <2>2. /\ call'[c].op = call[c].op /\ call'[c].items = call[c].items /\ call'[c].pc = "done"
        /\ call'[c].at = call[c].at /\ call'[c].plan = call[c].plan /\ call'[c].landed = {}
    BY <1>3, <2>1 DEF Moved
  <2>3. IsCall(call'[c])
    <3>1. call'[c] = [op |-> call[c].op, items |-> call[c].items, at |-> call[c].at, pc |-> "done",
                   plan |-> call[c].plan, landed |-> call[c].landed]
      BY <2>1 DEF Moved
    <3>2. QED
      BY <1>2, <2>2, <3>1 DEF IsCall, Steps
  <2>4. Stands(c)'
    BY <1>1, <1>2, <1>3, <2>2 DEF Stands, Single, Reads
  <2>5. Relies(c)'
    BY <1>3, <2>2 DEF Relies
  <2>6. QED
    BY <1>1, <1>3, <1>5, <1>8, <2>1, <2>3, <2>4, <2>5, QuietStep
<1>9. QED
  BY <1>7, <1>8 DEF ApplyAll

(* Announcing what landed. *)
LEMMA EmitInv ==
    ASSUME Typed, NoteInv, NEW c \in Clients, Emit(c)
    PROVE  Typed' /\ NoteInv'
<1> DEFINE pc1 == IF call[c].landed = {} THEN "done" ELSE "lock"
<1>1. /\ call[c].pc = "emit" /\ events' = events \cup call[c].landed
      /\ UNCHANGED <<disk, dir, head, stray, hungup, queue, inside, flock>>
      /\ UNCHANGED <<copy, walk, base, marks, strange, stirred>>
  BY DEF Emit, git, lock
<1>2. Stands(c) /\ Relies(c) /\ IsCall(call[c])
  BY DEF NoteInv, Typed
<1>3. call[c].op \in Writes /\ c \in inside
  BY <1>1, <1>2 DEF Stands
<1>4. Moved(c, call[c].at, pc1, call[c].plan, call[c].landed)
  BY MovedBy DEF Emit, Goto
<1>5. pc1 \in {"done", "lock"} /\ (pc1 = "done" => call[c].landed = {})
  OBVIOUS
<1> HIDE DEF pc1
<1>6. /\ call'[c].op = call[c].op /\ call'[c].items = call[c].items /\ call'[c].pc = pc1
      /\ call'[c].at = call[c].at /\ call'[c].plan = call[c].plan /\ call'[c].landed = call[c].landed
  BY <1>4 DEF Moved
<1>7. IsCall(call'[c])
  <2>1. call'[c] = [op |-> call[c].op, items |-> call[c].items, at |-> call[c].at, pc |-> pc1,
                    plan |-> call[c].plan, landed |-> call[c].landed]
    BY <1>4 DEF Moved
  <2>2. QED
    BY <1>2, <1>5, <1>6, <2>1 DEF IsCall, Steps
<1>8. Stands(c)'
  BY <1>1, <1>2, <1>3, <1>5, <1>6 DEF Stands, Single, Reads
<1>9. Relies(c)'
  <2>1. Asked(c)' = Asked(c)
    BY <1>6 DEF Asked
  <2>2. \A i : There(i.note)' = There(i.note)
    BY <1>1 DEF There
  <2>3. Text' = Text
    BY DEF Text, Marks, Outside
  <2>4. QED
    BY <1>1, <1>2, <1>5, <1>6, <2>1, <2>2, <2>3 DEF Relies
<1>10. \A j \in DOMAIN call[c].plan : call[c].plan[j] \subseteq Seen \cup Asked(c)
  BY <1>3 DEF NoteInv, Circulation
<1>11. QED
  BY <1>1, <1>3, <1>4, <1>5, <1>7, <1>8, <1>9, <1>10, QuietStep

(* The steps of a commit change nothing of what a call relies on.          *)
LEMMA GitStands ==
    ASSUME Typed, NoteInv, NEW c \in Clients, call[c].pc \in {"lock", "add", "commit"},
           NEW pc \in {"add", "commit", "done"},
           Moved(c, call[c].at, pc, call[c].plan, call[c].landed),
           UNCHANGED <<disk, queue, inside, events, stirred>>,
           flock' = c <=> pc # "done"
    PROVE  /\ call[c].op \in Writes /\ c \in inside
           /\ IsCall(call'[c]) /\ Stands(c)' /\ Relies(c)' /\ Indexing(c)'
           /\ \A j \in DOMAIN call[c].plan : call[c].plan[j] \subseteq Seen \cup Asked(c)
<1>1. Stands(c) /\ Relies(c) /\ IsCall(call[c])
  BY DEF NoteInv, Typed
<1>2. call[c].op \in Writes /\ c \in inside
  BY <1>1 DEF Stands
<1>3. /\ call'[c].op = call[c].op /\ call'[c].items = call[c].items /\ call'[c].pc = pc
      /\ call'[c].at = call[c].at /\ call'[c].plan = call[c].plan /\ call'[c].landed = call[c].landed
  BY DEF Moved
<1>4. IsCall(call'[c])
  <2>1. call'[c] = [op |-> call[c].op, items |-> call[c].items, at |-> call[c].at, pc |-> pc,
                    plan |-> call[c].plan, landed |-> call[c].landed]
    BY DEF Moved
  <2>2. QED
    BY <1>1, <1>3, <2>1 DEF IsCall, Steps
<1>5. Stands(c)'
  BY <1>1, <1>2, <1>3 DEF Stands, Single, Reads
<1>6. Relies(c)'
  <2>1. Asked(c)' = Asked(c)
    BY <1>3 DEF Asked
  <2>2. \A i : There(i.note)' = There(i.note)
    BY DEF There
  <2>3. Text' = Text
    BY DEF Text, Marks, Outside
  <2>4. QED
    BY <1>1, <1>3, <2>1, <2>2, <2>3 DEF Relies
<1>7. Indexing(c)'
  BY <1>2, <1>3 DEF Indexing, Writes
<1>8. QED
  BY <1>2, <1>4, <1>5, <1>6, <1>7 DEF NoteInv, Circulation

(* The flock is taken, then `git add` is run: nothing is committed yet.    *)
LEMMA BeforeCommitInv ==
    ASSUME Typed, NoteInv, NEW c \in Clients, TakeFlock(c) \/ GitAdd(c)
    PROVE  Typed' /\ NoteInv'
<1>0. \A d \in Clients : d # "free"
  BY ClientsAssumption
<1>1. Stands(c) /\ (stray.live => hungup)
  BY DEF NoteInv, Uncommitted
<1>2. CASE TakeFlock(c)
  <2>1. /\ call[c].pc = "lock" /\ flock = "free" /\ flock' = c
        /\ UNCHANGED <<disk, dir, head, stray, hungup, queue, inside>>
        /\ UNCHANGED <<copy, walk, base, events, marks, strange, stirred>>
    BY <1>2 DEF TakeFlock, git
  <2>2. Moved(c, call[c].at, "add", call[c].plan, call[c].landed)
    BY <1>2, MovedBy DEF TakeFlock, Goto
  <2>3. QED
    BY <1>0, <2>1, <2>2, GitStands, QuietStep
<1>3. CASE GitAdd(c)
  <2> DEFINE pc1 == IF stray.live THEN "done" ELSE "commit"
  <2>1. /\ call[c].pc = "add" /\ flock' = (IF stray.live THEN "free" ELSE flock)
        /\ UNCHANGED <<disk, dir, head, stray, hungup, queue, inside>>
        /\ UNCHANGED <<copy, walk, base, events, marks, strange, stirred>>
    BY <1>3 DEF GitAdd, git
  <2>2. Moved(c, call[c].at, pc1, call[c].plan, call[c].landed)
    BY <1>3, MovedBy DEF GitAdd, Goto
  <2>3. flock = c
    BY <1>1, <2>1 DEF Stands
  <2>4. pc1 \in {"commit", "done"} /\ (flock' = c <=> pc1 # "done") /\ (pc1 = "done" => hungup)
    BY <1>0, <1>1, <2>1, <2>3
  <2>5. \A d \in Clients : d # c => (flock' = d <=> flock = d)
    BY <1>0, <2>1, <2>3
  <2> HIDE DEF pc1
  <2>6. QED
    BY <2>1, <2>2, <2>4, <2>5, GitStands, QuietStep
<1>4. QED
  BY <1>2, <1>3

(* The commit takes in all the call has written: git has what the vault    *)
(* has.                                                                    *)
LEMMA GitCommitInv ==
    ASSUME Typed, NoteInv, NEW c \in Clients, GitCommit(c)
    PROVE  Typed' /\ NoteInv'
<1>0. \A d \in Clients : d # "free"
  BY ClientsAssumption
<1>1. /\ call[c].pc = "commit" /\ flock' = "free"
      /\ head' = IF stray.live THEN head ELSE Committed(Touched(c))
      /\ UNCHANGED <<disk, dir, stray, hungup, queue, inside>>
      /\ UNCHANGED <<copy, walk, base, events, marks, strange, stirred>>
  BY DEF GitCommit, GitCommitOf
<1>2. Moved(c, call[c].at, "done", call[c].plan, call[c].landed)
  BY MovedBy DEF GitCommit, GitCommitOf, Goto
<1>3. flock = c /\ Stands(c)
  BY <1>1 DEF NoteInv, Stands
<1>4. /\ call[c].op \in Writes /\ c \in inside
      /\ IsCall(call'[c]) /\ Stands(c)' /\ Relies(c)' /\ Indexing(c)'
      /\ \A j \in DOMAIN call[c].plan : call[c].plan[j] \subseteq Seen \cup Asked(c)
  BY <1>0, <1>1, <1>2, GitStands
<1>5. call[c].landed \subseteq Asked(c)
  BY DEF NoteInv, Numbered
<1>6. Seen \subseteq Seen'
  BY <1>1, <1>2, <1>5, MarksMove DEF NoteInv
<1>7. Uncommitted'
  <2>1. \A d \in inside : d = c
    BY <1>3, <1>4 DEF Stands
  <2>2. ASSUME ~hungup, NEW n \in Notes PROVE head'[n] = disk'[n]
    <3>1. head' = Committed(Touched(c))
      BY <1>1, <2>2 DEF NoteInv, Uncommitted
    <3>2. n \notin Touched(c) => head[n] = disk[n]
      BY <2>1, <2>2 DEF NoteInv, Uncommitted
    <3>3. QED
      BY <1>1, <3>1, <3>2 DEF Committed
  <2>3. QED
    BY <1>1, <2>2 DEF NoteInv, Uncommitted
<1>8. DirStands'
  BY <1>1 DEF NoteInv, DirStands, There
<1>9. \A d \in Clients : Walking(d)'
  BY <1>1, WalksOn DEF NoteInv
<1>10. /\ disk' \in [Notes -> Cell] /\ head' \in [Notes -> Cell] /\ dir' \in BOOLEAN
       /\ copy' \in [Clients -> [Notes -> Text \cup {Unknown}]]
       /\ walk' \in [Clients -> [seen : Seq(Notes), steady : SUBSET Notes, more : BOOLEAN]]
  BY <1>1 DEF Typed, Committed
<1>11. \A j \in DOMAIN call[c].plan : call[c].plan[j] \subseteq Seen' \cup Asked(c)
  BY <1>4, <1>6
<1>12. \A d \in Clients : d # c => (flock' = d <=> flock = d)
  BY <1>0, <1>1, <1>3
<1>13. QED
  BY <1>1, <1>2, <1>4, <1>5, <1>7, <1>8, <1>9, <1>10, <1>11, <1>12, InsideStep

-----------------------------------------------------------------------------
(* A reader's step: it may refresh the client's copies and its listing.    *)
LEMMA ReaderStep ==
    ASSUME Typed, NoteInv, NEW c \in Clients, c \in inside, call[c].op \in Reads,
           NEW at \in Nat, NEW pc \in {"tags", "done"}, NEW plan,
           Moved(c, at, pc, plan, call[c].landed),
           pc = "tags" => call[c].op = "index" /\ at >= 1,
           IF call[c].op = "index" THEN plan \in Seq(Notes) ELSE plan \in Seq(Cell),
           UNCHANGED <<disk, dir, head, stray, hungup, queue, inside, flock>>,
           UNCHANGED <<base, events, marks, strange, stirred>>,
           call[c].pc \notin {"add", "commit"},
           copy' \in [Clients -> [Notes -> Text \cup {Unknown}]],
           \A d \in Clients : d # c => copy'[d] = copy[d],
           \A n \in Notes : copy'[c][n] \in {copy[c][n], Unknown} \/ copy'[c][n] \subseteq Known,
           walk' \in [Clients -> [seen : Seq(Notes), steady : SUBSET Notes, more : BOOLEAN]],
           Indexing(c)', \A d \in Clients : Walking(d)'
    PROVE  Typed' /\ NoteInv'
<1>1. Stands(c) /\ Relies(c) /\ IsCall(call[c])
  BY DEF NoteInv, Typed
<1>2. call[c].op \notin Writes /\ call[c].op # "none"
  BY DEF Reads, Writes
<1>3. /\ call'[c].op = call[c].op /\ call'[c].items = call[c].items /\ call'[c].pc = pc
      /\ call'[c].at = at /\ call'[c].plan = plan /\ call'[c].landed = call[c].landed
  BY DEF Moved
<1>4. call[c].landed = {} /\ call[c].landed \subseteq Asked(c)
  BY <1>2 DEF NoteInv, Numbered, Asked
<1>5. IsCall(call'[c])
  <2>1. call'[c] = [op |-> call[c].op, items |-> call[c].items, at |-> at, pc |-> pc,
                    plan |-> plan, landed |-> call[c].landed]
    BY DEF Moved
  <2>2. QED
    BY <1>1, <1>3, <2>1 DEF IsCall, Steps
<1>6. Stands(c)'
  BY <1>1, <1>2, <1>3 DEF Stands, Single, Writes
<1>7. Relies(c)'
  BY <1>2, <1>3, <1>4 DEF Relies, Writes
<1>8. Uncommitted'
  <2>1. \A d \in inside : d # c => call'[d] = call[d] /\ Touched(d)' = Touched(d)
    BY DEF Moved, Typed, Touched
  <2>2. QED
    BY <1>2, <2>1, CommitsStill DEF NoteInv, Typed
<1>9. DirStands'
  BY DEF NoteInv, DirStands, There
<1>10. Known \subseteq Known' /\ Seen \subseteq Seen'
  BY <1>4, MarksMove DEF NoteInv
<1>11. \A n \in Notes : copy'[c][n] \in {copy[c][n], Unknown} \/ copy'[c][n] \subseteq Known'
  BY <1>10
<1>12. disk' \in [Notes -> Cell] /\ head' \in [Notes -> Cell] /\ dir' \in BOOLEAN
  BY DEF Typed
<1>13. QED
  BY <1>2, <1>4, <1>5, <1>6, <1>7, <1>8, <1>9, <1>11, <1>12, InsideStep

(* A GET hands out a note as it is. *)
LEMMA GetInv ==
    ASSUME Typed, NoteInv, NEW c \in Clients, Get(c)
    PROVE  Typed' /\ NoteInv'
<1> DEFINE n == Now(c).note
<1>1. /\ call[c].pc = "look" /\ call[c].op = "get" /\ call[c].op \in Reads
      /\ copy' = [copy EXCEPT ![c][n] = IF There(n) THEN disk[n] ELSE Unknown]
      /\ UNCHANGED <<disk, dir, head, stray, hungup, queue, inside, flock>>
      /\ UNCHANGED <<walk, base, events, marks, strange, stirred>>
  BY DEF Get, git, lock, Reads
<1>2. c \in inside /\ n \in Notes /\ disk[n] \in Cell /\ disk[n] \subseteq Seen
  BY <1>1, TheItem
<1>3. IsCall(call[c])
  BY DEF Typed
<1>4. Moved(c, call[c].at, "done", call[c].plan, call[c].landed)
  BY MovedBy DEF Get, Goto
<1>5. call[c].at \in Nat /\ call[c].plan \in Seq(Cell)
  BY <1>1, <1>3 DEF IsCall
<1>6. There(n) => disk[n] \in Text /\ disk[n] \subseteq Known
  <2> SUFFICES ASSUME There(n) PROVE disk[n] \in Text /\ disk[n] \subseteq Known
    OBVIOUS
  <2>1. disk[n] \in Text
    BY <1>2 DEF Cell, There
  <2>2. 0 \notin disk[n]
    BY <2>1, Marking DEF Text
  <2>3. QED
    BY <1>2, <2>1, <2>2 DEF Seen
<1> HIDE DEF n
<1>7. /\ copy' \in [Clients -> [Notes -> Text \cup {Unknown}]]
      /\ \A d \in Clients : d # c => copy'[d] = copy[d]
      /\ \A x \in Notes : copy'[c][x] \in {copy[c][x], Unknown} \/ copy'[c][x] \subseteq Known
  <2>1. PICK v \in Text \cup {Unknown} :
           copy' = [copy EXCEPT ![c][n] = v] /\ (v = Unknown \/ v \subseteq Known)
    BY <1>1, <1>6
  <2>2. QED
    BY <1>2, <2>1 DEF Typed
<1>8. Indexing(c)'
  BY <1>1, <1>4 DEF Indexing, Moved
<1>9. \A d \in Clients : Walking(d)'
  BY <1>1, WalksOn DEF NoteInv
<1>10. QED
  BY <1>1, <1>2, <1>4, <1>5, <1>7, <1>8, <1>9, ReaderStep DEF Typed

(* An index starts with the paths the client may see. *)
LEMMA ListIndexInv ==
    ASSUME Typed, NoteInv, NEW c \in Clients, ListIndex(c)
    PROVE  Typed' /\ NoteInv'
<1> DEFINE ns == Present(disk) \cap Within[c]
<1>1. /\ call[c].pc = "look" /\ call[c].op = "index" /\ call[c].op \in Reads
      /\ copy' = [copy EXCEPT ![c] = [n \in Notes |-> Unknown]]
      /\ UNCHANGED <<disk, dir, head, stray, hungup, queue, inside, flock>>
      /\ UNCHANGED <<walk, base, events, marks, strange, stirred>>
  BY DEF ListIndex, git, lock, Reads
<1>2. Stands(c) /\ IsCall(call[c])
  BY DEF NoteInv, Typed
<1>3. c \in inside /\ call[c].at = 1
  BY <1>1, <1>2 DEF Stands
<1>4. ns \in SUBSET Notes
  BY DEF Present
<1>5. Sorted(ns) \in Seq(Notes)
  BY <1>4, SortedIs
<1>6. Moved(c, call[c].at, "tags", Sorted(ns), call[c].landed)
  BY MovedBy DEF ListIndex
<1>7. /\ call'[c].op = "index" /\ call'[c].at = 1 /\ call'[c].plan = Sorted(ns) /\ call'[c].pc = "tags"
  BY <1>1, <1>3, <1>6 DEF Moved
<1>8. Indexing(c)'
  <2>1. Present(disk)' \cap Within[c] = ns
    BY <1>1 DEF Present
  <2>2. copy'[c] = [n \in Notes |-> Unknown]
    BY <1>1 DEF Typed
  <2>3. Len(Sorted(ns)) \in Nat
    BY <1>5
  <2> HIDE DEF ns
  <2>4. copy'[c] = [n \in Notes |-> IF \E j \in 1..(call'[c].at - 1) : call'[c].plan[j] = n
                                    THEN disk'[n] ELSE Unknown]
    BY <1>7, <2>2
  <2>5. Unknown' = Unknown /\ Sorted(ns)' = Sorted(ns)'
    BY DEF Unknown
  <2>6. call'[c].plan = Sorted(Present(disk)' \cap Within[c])
    BY <1>7, <2>1
  <2>7. call'[c].at <= Len(call'[c].plan) + 1
    BY <1>7, <2>3
  <2>8. QED
    BY <1>7, <2>4, <2>5, <2>6, <2>7 DEF Indexing
<1>9. \A d \in Clients : Walking(d)'
  BY <1>1, WalksOn DEF NoteInv
<1>10. /\ copy' \in [Clients -> [Notes -> Text \cup {Unknown}]]
       /\ \A d \in Clients : d # c => copy'[d] = copy[d]
       /\ \A n \in Notes : copy'[c][n] = Unknown
  BY <1>1 DEF Typed
<1> HIDE DEF ns
<1>11. PICK at \in Nat, s \in Seq(Notes) :
          at >= 1 /\ s = Sorted(ns) /\ Moved(c, at, "tags", s, call[c].landed)
  BY <1>3, <1>5, <1>6
<1>12. walk' \in [Clients -> [seen : Seq(Notes), steady : SUBSET Notes, more : BOOLEAN]]
  BY <1>1 DEF Typed
<1>13. \A n \in Notes : copy'[c][n] \in {copy[c][n], Unknown} \/ copy'[c][n] \subseteq Known
  BY <1>10
<1>14. QED
  BY <1>1, <1>3, <1>8, <1>9, <1>10, <1>11, <1>12, <1>13, ReaderStep

(* Then each note's tag; behind the last one every note has its line.      *)
LEMMA TagNextInv ==
    ASSUME Typed, NoteInv, NEW c \in Clients, TagNext(c)
    PROVE  Typed' /\ NoteInv'
<1> DEFINE k == call[c].at
           ns == Present(disk) \cap Within[c]
<1>1. /\ call[c].pc = "tags"
      /\ UNCHANGED <<disk, dir, head, stray, hungup, queue, inside, flock>>
      /\ UNCHANGED <<walk, base, events, marks, strange, stirred>>
  BY DEF TagNext, git, lock
<1>2. Stands(c) /\ IsCall(call[c]) /\ Indexing(c)
  BY DEF NoteInv, Typed
<1>3. /\ c \in inside /\ call[c].op = "index" /\ call[c].op \in Reads /\ k \in Nat /\ k >= 1
      /\ call[c].plan \in Seq(Notes) /\ Len(call[c].plan) \in Nat
  BY <1>1, <1>2 DEF Stands, IsCall, Reads
<1>4. \A d \in Clients : Walking(d)'
  BY <1>1, WalksOn DEF NoteInv
<1>5. Unknown' = Unknown
  BY DEF Unknown
<1>6. CASE k > Len(call[c].plan)
  <2>1. copy' = copy /\ Moved(c, k, "done", call[c].plan, call[c].landed)
    BY <1>6, MovedBy DEF TagNext, Goto
  <2>2. call'[c].op = "index" /\ call'[c].pc = "done"
    BY <1>3, <2>1 DEF Moved
  <2>3. ASSUME c \notin stirred
        PROVE  copy[c] = [n \in Notes |-> IF n \in Within[c] /\ There(n) THEN disk[n] ELSE Unknown]
    <3>1. /\ call[c].plan = Sorted(ns) /\ k <= Len(call[c].plan) + 1
          /\ copy[c] = [n \in Notes |-> IF \E j \in 1..(k - 1) : call[c].plan[j] = n
                                        THEN disk[n] ELSE Unknown]
      BY <1>1, <1>2, <1>3, <2>3 DEF Indexing
    <3>2. ns \in SUBSET Notes
      BY DEF Present
    <3>3. Range(call[c].plan) = ns
      BY <3>1, <3>2, SortedIs
    <3>4. k - 1 = Len(call[c].plan)
      BY <1>3, <1>6, <3>1
    <3>5. \A n \in Notes : (\E j \in 1..(k - 1) : call[c].plan[j] = n) <=> n \in ns
      BY <1>3, <3>3, <3>4 DEF Range
    <3>6. \A n \in Notes : n \in ns <=> n \in Within[c] /\ There(n)
      BY DEF Present, There
    <3> HIDE DEF k, ns
    <3>7. QED
      BY <3>1, <3>5, <3>6
  <2>4. Indexing(c)'
    <3>1. \A n : There(n)' = There(n)
      BY <1>1 DEF There
    <3>2. QED
      BY <1>1, <1>5, <2>1, <2>2, <2>3, <3>1 DEF Indexing
  <2>5. copy \in [Clients -> [Notes -> Text \cup {Unknown}]]
    BY DEF Typed
  <2>6. QED
    BY <1>1, <1>3, <1>4, <2>1, <2>4, <2>5, ReaderStep DEF Typed
<1>7. CASE ~(k > Len(call[c].plan))
  <2> DEFINE n == call[c].plan[k]
             v == IF There(n) THEN disk[n] ELSE Unknown
  <2>1. n \in Notes /\ k \in 1..Len(call[c].plan)
    BY <1>3, <1>7
  <2>2. copy' = [copy EXCEPT ![c][n] = v]
    BY <1>7 DEF TagNext
  <2>3. Moved(c, k + 1, "tags", call[c].plan, call[c].landed)
    <3>1. call' = [call EXCEPT ![c].at = k + 1]
      BY <1>7 DEF TagNext
    <3>2. /\ call = [d \in Clients |-> call[d]]
          /\ call[c] = [op |-> call[c].op, items |-> call[c].items, at |-> k, pc |-> "tags",
                        plan |-> call[c].plan, landed |-> call[c].landed]
      BY <1>1, <1>2 DEF Typed, IsCall
    <3>3. QED
      BY <3>1, <3>2 DEF Moved
  <2>4. call'[c].op = "index" /\ call'[c].pc = "tags" /\ call'[c].at = k + 1 /\ call'[c].plan = call[c].plan
    BY <1>3, <2>3 DEF Moved
  <2>5. v \in Text \cup {Unknown} /\ (v = Unknown \/ v \subseteq Known)
    <3>1. disk[n] \in Cell /\ disk[n] \subseteq Seen
      BY <2>1 DEF NoteInv, Circulation, Typed
    <3>2. There(n) => disk[n] \in Text
      BY <3>1 DEF There, Cell
    <3>3. disk[n] \in Text => disk[n] \subseteq Known
      BY <3>1, Marking DEF Text, Seen
    <3> HIDE DEF n
    <3>4. QED
      BY <3>2, <3>3
  <2>6. /\ copy' \in [Clients -> [Notes -> Text \cup {Unknown}]]
        /\ \A d \in Clients : d # c => copy'[d] = copy[d]
        /\ \A x \in Notes : copy'[c][x] = IF x = n THEN v ELSE copy[c][x]
    <3> HIDE DEF v, n
    <3>1. QED
      BY <2>1, <2>2, <2>5 DEF Typed
  <2>7. ASSUME c \notin stirred
        PROVE  /\ call[c].plan = Sorted(ns) /\ k + 1 <= Len(call[c].plan) + 1
               /\ copy'[c] = [x \in Notes |-> IF \E j \in 1..(k + 1 - 1) : call[c].plan[j] = x
                                              THEN disk[x] ELSE Unknown]
    <3>1. /\ call[c].plan = Sorted(ns)
          /\ copy[c] = [x \in Notes |-> IF \E j \in 1..(k - 1) : call[c].plan[j] = x
                                        THEN disk[x] ELSE Unknown]
      BY <1>1, <1>2, <1>3, <2>7 DEF Indexing
    <3>2. There(n)
      <4>1. ns \in SUBSET Notes
        BY DEF Present
      <4>2. n \in Range(call[c].plan)
        BY <1>3, <2>1 DEF Range
      <4>3. n \in ns
        BY <3>1, <4>1, <4>2, SortedIs
      <4>4. QED
        BY <4>3 DEF Present, There
    <3>3. \A x \in Notes : (\E j \in 1..(k + 1 - 1) : call[c].plan[j] = x) <=>
                           (x = n \/ \E j \in 1..(k - 1) : call[c].plan[j] = x)
      BY <1>3, <2>1
    <3>4. v = disk[n]
      BY <3>2
    <3>5. k + 1 <= Len(call[c].plan) + 1
      BY <1>3, <1>7
    <3>6. copy'[c] = [x \in Notes |-> copy'[c][x]]
      BY <2>6
    <3> HIDE DEF k, n, v, ns
    <3>7. QED
      BY <2>6, <3>1, <3>3, <3>4, <3>5, <3>6
  <2>8. Indexing(c)'
    <3>1. Present(disk)' = Present(disk)
      BY <1>1 DEF Present
    <3> HIDE DEF k, n, v
    <3>2. ASSUME c \notin stirred'
          PROVE  /\ call'[c].plan = Sorted(Present(disk)' \cap Within[c])
                 /\ call'[c].at <= Len(call'[c].plan) + 1
                 /\ copy'[c] = [x \in Notes |-> IF \E j \in 1..(call'[c].at - 1) : call'[c].plan[j] = x
                                                THEN disk'[x] ELSE Unknown]
      <4>1. /\ call[c].plan = Sorted(ns) /\ k + 1 <= Len(call[c].plan) + 1
            /\ copy'[c] = [x \in Notes |-> IF \E j \in 1..(k + 1 - 1) : call[c].plan[j] = x
                                           THEN disk[x] ELSE Unknown]
        BY <1>1, <2>7, <3>2
      <4>2. call'[c].plan = Sorted(Present(disk)' \cap Within[c])
        BY <2>4, <3>1, <4>1
      <4>3. call'[c].at <= Len(call'[c].plan) + 1
        BY <2>4, <4>1
      <4>4. call'[c].at - 1 = k + 1 - 1 /\ disk' = disk
        BY <1>1, <1>3, <2>4 DEF k
      <4> HIDE DEF ns
      <4>5. \A x \in Notes : (\E j \in 1..(call'[c].at - 1) : call'[c].plan[j] = x) <=>
                             (\E j \in 1..(k + 1 - 1) : call[c].plan[j] = x)
        BY <2>4, <4>4
      <4>6. QED
        BY <4>1, <4>2, <4>3, <4>4, <4>5
    <3>3. QED
      BY <1>5, <2>4, <3>2 DEF Indexing
  <2> HIDE DEF n, v
  <2>9. /\ k + 1 \in Nat /\ k + 1 >= 1
        /\ \A x \in Notes : copy'[c][x] \in {copy[c][x], Unknown} \/ copy'[c][x] \subseteq Known
    BY <1>3, <2>5, <2>6
  <2>10. QED
    BY <1>1, <1>3, <1>4, <2>3, <2>6, <2>8, <2>9, ReaderStep DEF Typed
<1>8. QED
  BY <1>6, <1>7

PageOf(seen, behind, limit) ==
    LET rest == Sorted(behind) IN
    seen \o SubSeq(rest, 1, IF limit < Len(rest) THEN limit ELSE Len(rest))

(* A page put behind what was shown: still in order, and what is shown or  *)
(* to come is what was.                                                    *)
LEMMA PageOn ==
    ASSUME NEW seen \in Seq(Notes), Ascending(seen), NEW steady \in SUBSET Notes,
           NEW behind \in SUBSET Notes, \A n \in behind : seen # <<>> => n > Last(seen),
           \A n \in steady : n \in Range(seen) \/ n \in behind, NEW limit \in Nat \ {0}
    PROVE  /\ PageOf(seen, behind, limit) \in Seq(Notes) /\ Ascending(PageOf(seen, behind, limit))
           /\ \A n \in steady : \/ n \in Range(PageOf(seen, behind, limit))
                                \/ /\ Len(Sorted(behind)) > limit
                                   /\ PageOf(seen, behind, limit) # <<>> => n > Last(PageOf(seen, behind, limit))
<1>0. PICK rest, l, new :
         /\ rest = Sorted(behind) /\ l = IF limit < Len(rest) THEN limit ELSE Len(rest)
         /\ new = seen \o SubSeq(rest, 1, l)
  OBVIOUS
<1>1. rest \in Seq(Notes) /\ Ascending(rest) /\ Range(rest) = behind /\ Len(rest) \in Nat
  BY <1>0, SortedIs
<1>2. l \in 0..Len(rest) /\ (limit < Len(rest) => l = limit) /\ (~(limit < Len(rest)) => l = Len(rest))
  BY <1>0, <1>1
<1>3. PICK page : page = SubSeq(rest, 1, l)
  OBVIOUS
<1>4. page \in Seq(Notes) /\ Len(page) = l /\ \A i \in 1..l : page[i] = rest[i]
  <2>1. \A i \in 1..l : rest[i] \in Notes
    BY <1>1, <1>2
  <2>2. 1 \in Int /\ l \in Int
    BY <1>2
  <2>3. /\ page \in Seq(Notes) /\ Len(page) = IF 1 <= l THEN l - 1 + 1 ELSE 0
        /\ \A i \in 1..(l - 1 + 1) : page[i] = rest[1 + i - 1]
    BY <1>3, <2>1, <2>2, SubSeqProperties
  <2>4. Len(page) = l
    BY <1>2, <2>3
  <2>5. ASSUME NEW i \in 1..l PROVE page[i] = rest[i]
    <3>1. i \in 1..(l - 1 + 1) /\ 1 + i - 1 = i
      BY <1>2
    <3>2. QED
      BY <2>3, <3>1
  <2>6. QED
    BY <2>3, <2>4, <2>5
<1>5. new \in Seq(Notes) /\ Len(new) = Len(seen) + l /\ Len(seen) \in Nat
  BY <1>0, <1>3, <1>4, ConcatProperties
<1>6. \A i \in 1..(Len(seen) + l) :
         new[i] = IF i <= Len(seen) THEN seen[i] ELSE rest[i - Len(seen)]
  <2> SUFFICES ASSUME NEW i \in 1..(Len(seen) + l)
               PROVE  new[i] = IF i <= Len(seen) THEN seen[i] ELSE rest[i - Len(seen)]
    OBVIOUS
  <2>1. new[i] = IF i <= Len(seen) THEN seen[i] ELSE page[i - Len(seen)]
    BY <1>0, <1>3, <1>4, ConcatProperties
  <2>2. ~(i <= Len(seen)) => i - Len(seen) \in 1..l
    BY <1>2, <1>5
  <2>3. QED
    BY <1>4, <2>1, <2>2
<1>7. /\ \A i \in 1..Len(seen) : seen[i] \in Nat
      /\ \A i \in 1..Len(rest) : rest[i] \in Nat /\ rest[i] \in behind
      /\ \A i, j \in 1..Len(seen) : i < j => seen[i] < seen[j]
      /\ \A i, j \in 1..Len(rest) : i < j => rest[i] < rest[j]
  <2>1. \A i \in 1..Len(rest) : rest[i] \in behind
    BY <1>1 DEF Range
  <2>2. \A n \in Notes : n \in Nat
    BY NotesAssumption
  <2>3. QED
    BY <1>1, <2>1, <2>2 DEF Ascending
<1>8. Ascending(new)
  <2> SUFFICES ASSUME NEW i \in 1..(Len(seen) + l), NEW j \in 1..(Len(seen) + l), i < j
               PROVE  new[i] < new[j]
    BY <1>5 DEF Ascending
  <2>1. CASE j <= Len(seen)
    <3>1. i \in 1..Len(seen) /\ j \in 1..Len(seen) /\ new[i] = seen[i] /\ new[j] = seen[j]
      BY <1>2, <1>5, <1>6, <2>1
    <3>2. QED
      BY <1>7, <3>1
  <2>2. CASE i > Len(seen)
    <3>1. /\ i - Len(seen) \in 1..Len(rest) /\ j - Len(seen) \in 1..Len(rest)
          /\ i - Len(seen) < j - Len(seen)
          /\ new[i] = rest[i - Len(seen)] /\ new[j] = rest[j - Len(seen)]
      BY <1>1, <1>2, <1>5, <1>6, <2>2
    <3>2. QED
      BY <1>7, <3>1
  <2>3. CASE i <= Len(seen) /\ j > Len(seen)
    <3>1. i \in 1..Len(seen) /\ new[i] = seen[i] /\ Len(seen) \in 1..Len(seen)
      BY <1>2, <1>5, <1>6, <2>3
    <3>2. j - Len(seen) \in 1..Len(rest) /\ new[j] = rest[j - Len(seen)]
      BY <1>1, <1>2, <1>5, <1>6, <2>3
    <3>3. seen # <<>> /\ Last(seen) = seen[Len(seen)]
      BY <3>1 DEF Last
    <3>4. new[j] > seen[Len(seen)] /\ new[j] \in Nat
      BY <1>7, <3>2, <3>3
    <3>5. seen[i] <= seen[Len(seen)] /\ seen[i] \in Nat /\ seen[Len(seen)] \in Nat
      <4>1. CASE i = Len(seen)
        BY <1>7, <3>1, <4>1
      <4>2. CASE i < Len(seen)
        BY <1>7, <3>1, <4>2
      <4>3. QED
        BY <2>3, <4>1, <4>2, <1>5
    <3>6. QED
      BY <3>1, <3>4, <3>5
  <2>4. QED
    BY <1>2, <1>5, <2>1, <2>2, <2>3
<1>9. ASSUME NEW n \in steady, n \notin Range(new)
      PROVE  Len(rest) > limit /\ (new # <<>> => n > Last(new))
  <2>1. n \notin Range(seen)
    <3> SUFFICES ASSUME NEW i \in 1..Len(seen) PROVE seen[i] # n
      BY DEF Range
    <3>1. i \in 1..(Len(seen) + l) /\ new[i] = seen[i]
      BY <1>2, <1>5, <1>6
    <3>2. new[i] # n
      BY <1>5, <1>9, <3>1 DEF Range
    <3>3. QED
      BY <3>1, <3>2
  <2>2. PICK p \in 1..Len(rest) : rest[p] = n
    BY <1>1, <2>1 DEF Range
  <2>3. p > l
    <3> SUFFICES ASSUME p <= l PROVE FALSE
      BY <1>2
    <3>1. /\ Len(seen) + p \in 1..(Len(seen) + l) /\ Len(seen) + p - Len(seen) = p
          /\ ~(Len(seen) + p <= Len(seen))
      BY <1>2, <1>5
    <3>2. new[Len(seen) + p] = n
      BY <1>6, <2>2, <3>1
    <3>3. Len(seen) + p \in DOMAIN new
      BY <1>5, <3>1
    <3>4. QED
      BY <1>9, <3>2, <3>3 DEF Range
  <2>4. Len(rest) > limit /\ l = limit /\ l >= 1 /\ l \in 1..Len(rest)
    BY <1>1, <1>2, <2>2, <2>3
  <2>5. Last(new) = rest[l]
    <3>1. PICK i \in 1..(Len(seen) + l) : i = Len(new) /\ i - Len(seen) = l /\ ~(i <= Len(seen))
      <4>1. Len(seen) + l \in 1..(Len(seen) + l) /\ ~(Len(seen) + l <= Len(seen))
        BY <1>5, <2>4
      <4>2. Len(seen) + l - Len(seen) = l
        BY <1>5, <2>4
      <4>3. Len(new) = Len(seen) + l
        BY <1>5
      <4>4. Len(new) \in 1..(Len(seen) + l) /\ ~(Len(new) <= Len(seen)) /\ Len(new) - Len(seen) = l
        BY <1>5, <2>4, <4>1, <4>2, <4>3
      <4>5. QED
        BY <4>4
    <3>2. new[i] = rest[l]
      BY <1>6, <3>1
    <3>3. QED
      BY <3>1, <3>2 DEF Last
  <2>6. rest[l] < rest[p] /\ rest[l] \in Nat /\ rest[p] \in Nat
    BY <1>7, <2>2, <2>3, <2>4
  <2>7. QED
    BY <2>2, <2>4, <2>5, <2>6
<1>10. new = PageOf(seen, behind, limit)
  BY <1>0 DEF PageOf
<1>11. QED
  BY <1>0, <1>5, <1>8, <1>9, <1>10

(* A page of a listing or a search. *)
LEMMA PageInv ==
    ASSUME Typed, NoteInv, NEW c \in Clients, Page(c)
    PROVE  Typed' /\ NoteInv'
<1>1. /\ call[c].pc = "look" /\ call[c].op = "page" /\ call[c].op \in Reads
      /\ UNCHANGED <<disk, dir, head, stray, hungup, queue, inside, flock>>
      /\ UNCHANGED <<copy, base, events, marks, strange, stirred>>
  BY DEF Page, git, lock, Reads
<1>2. PICK so : so = IF walk[c].more THEN walk[c] ELSE [NoWalk EXCEPT !.steady = Present(disk)]
  OBVIOUS
<1>3. PICK limit \in PageSizes :
         walk' = [walk EXCEPT ![c] =
            [seen |-> PageOf(so.seen, Behind(so.seen), limit),
             steady |-> so.steady, more |-> Len(Sorted(Behind(so.seen))) > limit]]
  <2> DEFINE so0 == IF walk[c].more THEN walk[c] ELSE [NoWalk EXCEPT !.steady = Present(disk)]
  <2>1. PICK limit \in PageSizes :
          walk' = [walk EXCEPT ![c] =
            [seen |-> PageOf(so0.seen, Behind(so0.seen), limit),
             steady |-> so0.steady, more |-> Len(Sorted(Behind(so0.seen))) > limit]]
    BY DEF Page, PageOf
  <2>2. so0 = so
    BY <1>2
  <2> HIDE DEF so0
  <2>3. QED
    BY <2>1, <2>2
<1>4. /\ so.seen \in Seq(Notes) /\ Ascending(so.seen) /\ so.steady \subseteq Present(disk)
      /\ \A n \in so.steady : n \in Range(so.seen) \/ (so.seen # <<>> => n > Last(so.seen))
  <2>1. CASE walk[c].more
    <3>1. so = walk[c] /\ Walking(c) /\ walk[c].seen \in Seq(Notes)
      BY <1>2, <2>1 DEF NoteInv, Typed
    <3>2. QED
      BY <3>1 DEF Walking
  <2>2. CASE ~walk[c].more
    <3>1. so.seen = <<>> /\ so.steady = Present(disk)
      BY <1>2, <2>2 DEF NoWalk
    <3>2. QED
      BY <3>1 DEF Ascending
  <2>3. QED
    BY <2>1, <2>2
<1>5. /\ Behind(so.seen) \in SUBSET Notes
      /\ \A n \in Behind(so.seen) : so.seen # <<>> => n > Last(so.seen)
      /\ \A n \in so.steady : n \in Range(so.seen) \/ n \in Behind(so.seen)
  BY <1>4 DEF Behind, Present
<1>6. PICK new, more : /\ new = PageOf(so.seen, Behind(so.seen), limit)
                       /\ more = (Len(Sorted(Behind(so.seen))) > limit)
  OBVIOUS
<1>7. /\ new \in Seq(Notes) /\ Ascending(new) /\ more \in BOOLEAN
      /\ \A n \in so.steady : n \in Range(new) \/ (more /\ (new # <<>> => n > Last(new)))
  <2>1. limit \in Nat \ {0}
    BY BoundAssumption
  <2>2. so.steady \in SUBSET Notes
    BY <1>4 DEF Present
  <2>3. PICK seen, steady, behind : seen = so.seen /\ steady = so.steady /\ behind = Behind(so.seen)
    OBVIOUS
  <2>4. /\ seen \in Seq(Notes) /\ Ascending(seen) /\ steady \in SUBSET Notes
        /\ behind \in SUBSET Notes /\ \A n \in behind : seen # <<>> => n > Last(seen)
        /\ \A n \in steady : n \in Range(seen) \/ n \in behind
    BY <1>4, <1>5, <2>2, <2>3
  <2>5. /\ PageOf(seen, behind, limit) \in Seq(Notes) /\ Ascending(PageOf(seen, behind, limit))
        /\ \A n \in steady : \/ n \in Range(PageOf(seen, behind, limit))
                             \/ /\ Len(Sorted(behind)) > limit
                                /\ PageOf(seen, behind, limit) # <<>> => n > Last(PageOf(seen, behind, limit))
    BY <2>1, <2>4, PageOn
  <2>6. more \in BOOLEAN
    BY <1>6
  <2>7. new = PageOf(seen, behind, limit)
    BY <1>6, <2>3
  <2>8. new \in Seq(Notes) /\ Ascending(new)
    BY <2>5, <2>7
  <2>9. ASSUME NEW n \in so.steady
        PROVE  n \in Range(new) \/ (more /\ (new # <<>> => n > Last(new)))
    <3>1. more <=> Len(Sorted(behind)) > limit
      BY <1>6, <2>3
    <3>2. \/ n \in Range(new)
          \/ Len(Sorted(behind)) > limit /\ (new # <<>> => n > Last(new))
      BY <2>3, <2>5, <2>7
    <3>3. QED
      BY <3>1, <3>2
  <2>10. QED
    BY <2>6, <2>8, <2>9
<1>8. /\ walk'[c] = [seen |-> new, steady |-> so.steady, more |-> more]
      /\ \A d \in Clients : d # c => walk'[d] = walk[d]
      /\ walk' = [d \in Clients |-> walk'[d]]
  BY <1>3, <1>6 DEF Typed
<1>9. \A d \in Clients : Walking(d)'
  <2>1. Walking(c)'
    <3>1. /\ walk'[c].seen = new /\ walk'[c].steady = so.steady
          /\ walk'[c].more = more
      BY <1>8
    <3>2. so.steady \subseteq Present(disk')
      BY <1>1, <1>4
    <3>3. QED
      BY <1>7, <3>1, <3>2 DEF Walking
  <2>2. ASSUME NEW d \in Clients, d # c PROVE Walking(d)'
    BY <1>1, <1>8, <2>2 DEF NoteInv, Walking, Present
  <2>3. QED
    BY <2>1, <2>2
<1>10. walk' \in [Clients -> [seen : Seq(Notes), steady : SUBSET Notes, more : BOOLEAN]]
  <2>1. walk'[c] \in [seen : Seq(Notes), steady : SUBSET Notes, more : BOOLEAN]
    BY <1>4, <1>7, <1>8 DEF Present
  <2>2. \A d \in Clients : walk'[d] \in [seen : Seq(Notes), steady : SUBSET Notes, more : BOOLEAN]
    BY <1>8, <2>1 DEF Typed
  <2>3. QED
    BY <1>8, <2>2
<1>11. Moved(c, call[c].at, "done", call[c].plan, call[c].landed)
  BY MovedBy DEF Page, Goto
<1>12. Stands(c) /\ IsCall(call[c])
  BY DEF NoteInv, Typed
<1>13. c \in inside /\ call[c].at \in Nat /\ call[c].plan \in Seq(Cell)
  BY <1>1, <1>12 DEF Stands, IsCall
<1>14. Indexing(c)'
  BY <1>1, <1>11 DEF Indexing, Moved
<1>15. QED
  BY <1>1, <1>9, <1>10, <1>11, <1>13, <1>14, ReaderStep DEF Typed

-----------------------------------------------------------------------------
(* The lock lets the next call in. *)
LEMMA EnterInv ==
    ASSUME Typed, NoteInv, NEW c \in Clients, Enter(c)
    PROVE  Typed' /\ NoteInv'
<1>1. /\ call[c].pc = "queued" /\ Compatible(c)
      /\ queue' = RemoveFirst(queue, c) /\ inside' = inside \cup {c}
      /\ UNCHANGED <<disk, dir, head, stray, hungup, flock>>
      /\ UNCHANGED <<copy, walk, base, events, marks, strange, stirred>>
  BY DEF Enter, EnterWith, git
<1>2. Moved(c, call[c].at, "look", call[c].plan, call[c].landed)
  BY MovedBy DEF Enter, EnterWith
<1>3. Stands(c) /\ IsCall(call[c]) /\ call[c].landed \subseteq Asked(c)
  BY DEF NoteInv, Typed, Numbered
<1>4. /\ c \in Range(queue) /\ c \notin inside /\ call[c].at = 1 /\ call[c].plan = <<>>
      /\ call[c].landed = {} /\ call[c].op # "none" /\ flock # c
      /\ call[c].items \in Seq(Item)
  BY <1>1, <1>3 DEF Stands, IsCall
<1>5. /\ queue' \in Seq(Clients) /\ IsInjective(queue') /\ Range(queue') = Range(queue) \ {c}
  BY <1>1, Unqueued DEF Typed
<1>6. /\ call'[c].op = call[c].op /\ call'[c].items = call[c].items /\ call'[c].pc = "look"
      /\ call'[c].at = 1 /\ call'[c].plan = <<>> /\ call'[c].landed = {}
  BY <1>2, <1>4 DEF Moved
<1>7. IsCall(call'[c])
  <2>1. call'[c] = [op |-> call[c].op, items |-> call[c].items, at |-> call[c].at, pc |-> "look",
                    plan |-> call[c].plan, landed |-> call[c].landed]
    BY <1>2 DEF Moved
  <2>2. QED
    BY <1>3, <1>4, <1>6, <2>1 DEF IsCall, Steps
<1>8. Stands(c)'
  <2>1. call[c].op \in Writes => inside = {}
    BY <1>1 DEF Compatible, Writes, Reads
  <2>2. call[c].items # <<>> => 1 \in 1..Len(call[c].items)
    BY <1>4
  <2>3. QED
    BY <1>1, <1>3, <1>4, <1>5, <1>6, <2>1, <2>2 DEF Stands
<1>9. Relies(c)' /\ Indexing(c)'
  BY <1>6 DEF Relies, Indexing
<1>10. /\ \A d \in Clients : Asked(d)' = Asked(d)
       /\ Numbered' /\ Known \subseteq Known' /\ Seen \subseteq Seen'
  BY <1>1, <1>2, <1>3, MarksMove DEF NoteInv
<1>11. Circulation'
  <2>1. call[c].op \in Writes => \A j \in DOMAIN call[c].plan : call[c].plan[j] \subseteq Seen' \cup Asked(c)
    BY <1>4
  <2>2. QED
    BY <1>1, <1>2, <1>10, <2>1, Circulates DEF NoteInv
<1>12. ASSUME NEW d \in Clients, d # c PROVE Stands(d)' /\ Relies(d)' /\ Indexing(d)'
  <2>1. call'[d] = call[d]
    BY <1>2, <1>12 DEF Moved
  <2>2. Stands(d)'
    <3>1. d \in inside => call[d].op \notin Writes
      BY <1>1, <1>12 DEF Compatible, Writes, Reads
    <3>2. QED
      BY <1>1, <1>5, <1>12, <2>1, <3>1, StandsStill DEF NoteInv
  <2>3. QED
    BY <1>1, <1>10, <2>1, <2>2, ReliesStill, IndexesStill DEF NoteInv
<1>13. Uncommitted'
  <2>1. \A d \in inside : call'[d] = call[d] /\ Touched(d)' = Touched(d)
    BY <1>2, <1>4 DEF Moved, Typed, Touched
  <2>2. QED
    BY <1>1, <2>1, CommitsStill DEF NoteInv, Typed
<1>14. DirStands' /\ \A d \in Clients : Walking(d)'
  BY <1>1, WalksOn DEF NoteInv, DirStands, There
<1>15. Typed'
  BY <1>1, <1>2, <1>5, <1>7 DEF Typed, Moved
<1>16. QED
  BY <1>8, <1>9, <1>10, <1>11, <1>12, <1>13, <1>14, <1>15 DEF NoteInv

(* A call that ends, one way or the other. *)
LEMMA LeaveInv ==
    ASSUME Typed, NoteInv, NEW c \in Clients, call' = [call EXCEPT ![c] = Idle],
           inside' = inside \ {c}, stirred' = stirred \ {c},
           queue' \in Seq(Clients), IsInjective(queue'), Range(queue') = Range(queue) \ {c},
           flock' = IF flock = c THEN "free" ELSE flock,
           UNCHANGED <<disk, dir, head, base, events, marks, strange>>,
           copy' \in [Clients -> [Notes -> Text \cup {Unknown}]],
           \A d \in Clients : d # c => copy'[d] = copy[d],
           \A n \in Notes : copy'[c][n] = copy[c][n] \/ copy'[c][n] \subseteq Known',
           walk' \in [Clients -> [seen : Seq(Notes), steady : SUBSET Notes, more : BOOLEAN]],
           \A d \in Clients : Walking(d)',
           hungup' \in BOOLEAN, stray'.live \in BOOLEAN, stray'.commits \subseteq Notes, Uncommitted'
    PROVE  Typed' /\ NoteInv'
<1>0. c # "free" /\ \A d \in Clients : d # "free"
  BY ClientsAssumption
<1>1. /\ call' = [d \in Clients |-> call'[d]]
      /\ call'[c] = Idle /\ \A d \in Clients : d # c => call'[d] = call[d]
  BY DEF Typed
<1>2. /\ \A d \in Clients : d # c => Asked(d)' = Asked(d)
      /\ Numbered' /\ Known \subseteq Known' /\ Seen \subseteq Seen'
  BY MarksLeft DEF NoteInv
<1>3. IsCall(Idle) /\ Idle.items = <<>> /\ Idle.op = "none" /\ Idle.pc = "idle"
  BY DEF IsCall, Idle, Operations, Steps
<1>4. Stands(c)'
  BY <1>0, <1>1 DEF Stands, Idle, Writes, Single, Reads
<1>5. Relies(c)' /\ Indexing(c)'
  BY <1>4, Waiting
<1>6. ASSUME NEW d \in Clients, d # c PROVE Stands(d)' /\ Relies(d)' /\ Indexing(d)'
  <2>1. call'[d] = call[d]
    BY <1>1, <1>6
  <2>2. flock' = d <=> flock = d
    BY <1>0, <1>6
  <2>3. d \in inside /\ call[d].op \in Writes => inside' = {d}
    BY <1>6 DEF NoteInv, Stands
  <2>4. Stands(d)'
    BY <1>6, <2>1, <2>2, <2>3, StandsStill DEF NoteInv
  <2>5. d \notin stirred' => d \notin stirred /\ disk' = disk
    BY <1>6
  <2>6. QED
    BY <1>2, <1>6, <2>1, <2>4, <2>5, ReliesStill, IndexesStill DEF NoteInv
<1>7. Circulation'
  <2>1. Unknown' = Unknown
    BY DEF Unknown
  <2>2. \A n \in Notes : disk'[n] \subseteq Seen' /\ base'[n] \subseteq Seen'
    BY <1>2 DEF NoteInv, Circulation
  <2>3. \A d \in Clients, n \in Notes : copy'[d][n] = Unknown \/ copy'[d][n] \subseteq Known'
    BY <1>2 DEF NoteInv, Circulation
  <2>4. events' \subseteq Known'
    BY <1>2 DEF NoteInv, Circulation
  <2>5. ASSUME NEW d \in Clients
        PROVE  /\ \A j \in DOMAIN call'[d].items : call'[d].items[j].copy \subseteq Known'
               /\ call'[d].op \in Writes =>
                    \A j \in DOMAIN call'[d].plan : call'[d].plan[j] \subseteq Seen' \cup Asked(d)'
    <3>1. CASE d = c
      BY <1>1, <1>3, <3>1 DEF Writes
    <3>2. CASE d # c
      BY <1>1, <1>2, <3>2 DEF NoteInv, Circulation
    <3>3. QED
      BY <3>1, <3>2
  <2>6. QED
    BY <2>1, <2>2, <2>3, <2>4, <2>5 DEF Circulation
<1>8. DirStands'
  BY DEF NoteInv, DirStands, There
<1>9. Typed'
  <2>1. \A d \in Clients : IsCall(call'[d])
    BY <1>1, <1>3 DEF Typed
  <2>2. inside' \subseteq Clients
    BY DEF Typed
  <2>3. flock' \in {"free", "outside"} \cup Clients /\ (flock' = "outside" => strange' < MaxOutside)
    BY DEF Typed
  <2>4. QED
    BY <1>1, <2>1, <2>2, <2>3 DEF Typed
<1>10. QED
  BY <1>2, <1>4, <1>5, <1>6, <1>7, <1>8, <1>9 DEF NoteInv

(* An answer: after a PUT the client knows what it has written. *)
LEMMA DoneInv ==
    ASSUME Typed, NoteInv, NEW c \in Clients, Done(c)
    PROVE  Typed' /\ NoteInv'
<1>1. /\ call[c].pc = "done" /\ inside' = inside \ {c} /\ call' = [call EXCEPT ![c] = Idle]
      /\ stirred' = stirred \ {c}
      /\ walk' = IF walk[c].more THEN walk ELSE [walk EXCEPT ![c] = NoWalk]
      /\ UNCHANGED <<disk, dir, head, stray, hungup, queue, flock, base, events, marks, strange>>
  BY DEF Done, git
<1>2. Stands(c) /\ Relies(c) /\ IsCall(call[c])
  BY DEF NoteInv, Typed
<1>3. c \in inside /\ c \notin Range(queue) /\ flock # c
  BY <1>1, <1>2 DEF Stands
<1>4. Known \subseteq Known' /\ Asked(c) \subseteq Known'
  BY <1>1, MarksLeft DEF NoteInv
<1>5. /\ copy' \in [Clients -> [Notes -> Text \cup {Unknown}]]
      /\ \A d \in Clients : d # c => copy'[d] = copy[d]
      /\ \A n \in Notes : copy'[c][n] = copy[c][n] \/ copy'[c][n] \subseteq Known'
  <2>1. CASE call[c].op = "put" /\ call[c].landed # {}
    <3>1. /\ call[c].plan \in Seq(Text) /\ Len(call[c].plan) = 1
          /\ call[c].items \in Seq(Item) /\ Len(call[c].items) = 1
      BY <1>2, <2>1 DEF Relies, Stands, IsCall
    <3>2. PICK t, n : t = call[c].plan[1] /\ n = call[c].items[1].note
      OBVIOUS
    <3>3. t \in Text /\ n \in Notes
      <4>1. 1 \in 1..Len(call[c].plan) /\ 1 \in 1..Len(call[c].items)
        BY <3>1
      <4>2. call[c].plan[1] \in Text /\ call[c].items[1] \in Item
        BY <3>1, <4>1
      <4>3. QED
        BY <3>2, <4>2 DEF Item
    <3>4. t \subseteq Known'
      <4>1. 1 \in DOMAIN call[c].plan
        BY <3>1
      <4>2. t \subseteq Seen \cup Asked(c)
        BY <2>1, <3>2, <4>1 DEF NoteInv, Circulation, Writes
      <4>3. 0 \notin t
        BY <3>3, Marking DEF Text
      <4>4. QED
        BY <1>4, <4>2, <4>3 DEF Seen
    <3>5. copy' = [copy EXCEPT ![c][n] = t]
      BY <2>1, <3>2 DEF Done
    <3>6. QED
      BY <3>3, <3>4, <3>5 DEF Typed
  <2>2. CASE ~(call[c].op = "put" /\ call[c].landed # {})
    <3>1. copy' = copy
      BY <2>2 DEF Done
    <3>2. QED
      BY <3>1 DEF Typed
  <2>3. QED
    BY <2>1, <2>2
<1>6. /\ walk' \in [Clients -> [seen : Seq(Notes), steady : SUBSET Notes, more : BOOLEAN]]
      /\ \A d \in Clients : walk'[d] = walk[d] \/ walk'[d] = NoWalk
  BY <1>1 DEF Typed, NoWalk
<1>7. ASSUME NEW d \in Clients PROVE Walking(d)'
  <2>1. CASE walk'[d] = walk[d]
    BY <1>1, <2>1 DEF NoteInv, Walking, Present
  <2>2. CASE walk'[d] = NoWalk
    <3>1. walk'[d].seen = <<>> /\ walk'[d].steady = {}
      BY <2>2 DEF NoWalk
    <3>2. QED
      BY <3>1 DEF Walking, Ascending
  <2>3. QED
    BY <1>6, <2>1, <2>2
<1>8. Uncommitted'
  <2>1. \A d \in inside : call[d].pc # "done" => d # c /\ call'[d] = call[d] /\ Touched(d)' = Touched(d)
    BY <1>1 DEF Typed, Touched
  <2>2. QED
    BY <1>1, <2>1 DEF NoteInv, Uncommitted
<1>9. /\ queue' \in Seq(Clients) /\ IsInjective(queue') /\ Range(queue') = Range(queue) \ {c}
      /\ flock' = (IF flock = c THEN "free" ELSE flock)
      /\ hungup' \in BOOLEAN /\ stray'.live \in BOOLEAN /\ stray'.commits \subseteq Notes
  BY <1>1, <1>3 DEF Typed
<1>10. QED
  BY <1>1, <1>5, <1>6, <1>7, <1>8, <1>9, LeaveInv

(* A client that hangs up. *)
LEMMA HangUpInv ==
    ASSUME Typed, NoteInv, NEW c \in Clients, HangUp(c)
    PROVE  Typed' /\ NoteInv'
<1>1. /\ call[c].op = "put" /\ call[c].pc \in {"queued", "add", "commit"}
      /\ queue' = RemoveFirst(queue, c) /\ inside' = inside \ {c}
      /\ flock' = IF flock = c THEN "free" ELSE flock
      /\ call' = [call EXCEPT ![c] = Idle] /\ stirred' = stirred \ {c}
      /\ hungup' = (hungup \/ call[c].pc # "queued")
      /\ stray' = IF call[c].pc = "queued" \/ stray.live THEN stray
                  ELSE [live |-> TRUE, commits |-> IF call[c].pc = "commit" THEN Touched(c) ELSE {}]
      /\ UNCHANGED <<disk, dir, head, copy, walk, base, events, marks, strange>>
  BY DEF HangUp
<1>2. Stands(c) /\ IsCall(call[c])
  BY DEF NoteInv, Typed
<1>3. queue' \in Seq(Clients) /\ IsInjective(queue') /\ Range(queue') = Range(queue) \ {c}
  BY <1>1, Unqueued DEF Typed
<1>4. Touched(c) \subseteq Notes
  BY <1>2, ItemsAre DEF Touched
<1>5. hungup' \in BOOLEAN /\ stray'.live \in BOOLEAN /\ stray'.commits \subseteq Notes
  BY <1>1, <1>4 DEF Typed
<1>6. Uncommitted'
  <2>1. CASE call[c].pc = "queued"
    <3>1. \A d \in inside : d # c /\ call'[d] = call[d] /\ Touched(d)' = Touched(d)
      BY <1>1, <1>2, <2>1 DEF Stands, Typed, Touched
    <3>2. stray' = stray /\ hungup' = hungup /\ inside \subseteq inside'
      BY <1>1, <2>1, <3>1 DEF Typed
    <3>3. QED
      BY <1>1, <3>1, <3>2, CommitsStill DEF NoteInv, Typed
  <2>2. CASE call[c].pc # "queued"
    BY <1>1, <2>2 DEF Uncommitted
  <2>3. QED
    BY <2>1, <2>2
<1>7. \A d \in Clients : Walking(d)'
  BY <1>1, WalksOn DEF NoteInv
<1>8. /\ copy' \in [Clients -> [Notes -> Text \cup {Unknown}]]
      /\ walk' \in [Clients -> [seen : Seq(Notes), steady : SUBSET Notes, more : BOOLEAN]]
  BY <1>1 DEF Typed
<1>9. QED
  BY <1>1, <1>3, <1>5, <1>6, <1>7, <1>8, LeaveInv

-----------------------------------------------------------------------------
(* A step that no call takes.  A call that is inside knows if it changes   *)
(* the notes.                                                              *)
LEMMA ElseStep ==
    ASSUME Typed, NoteInv, UNCHANGED <<dir, hungup, queue, inside, call, copy, events, marks>>,
           \A d \in Clients : flock' = d <=> flock = d, flock' \in {"free", "outside"} \cup {flock},
           flock' = "outside" => strange' < MaxOutside, strange' \in 0..MaxOutside,
           stray'.live \in BOOLEAN, stray'.commits \subseteq Notes,
           disk' \in [Notes -> Cell], head' \in [Notes -> Cell], base' \in [Notes -> Cell],
           walk' \in [Clients -> [seen : Seq(Notes), steady : SUBSET Notes, more : BOOLEAN]],
           \A d \in Clients : Walking(d)', DirStands', Uncommitted',
           \A d \in inside : d \notin stirred' => d \notin stirred /\ disk' = disk,
           \A n \in Notes : disk'[n] \subseteq Seen /\ base'[n] \subseteq Seen
    PROVE  Typed' /\ NoteInv'
<1>1. /\ \A d \in Clients : Asked(d)' = Asked(d)
      /\ Numbered' /\ Known' = Known /\ Seen' = Seen
  BY MarksStay DEF NoteInv
<1>2. ASSUME NEW d \in Clients PROVE Stands(d)' /\ Relies(d)' /\ Indexing(d)'
  <2>1. call'[d] = call[d] /\ copy'[d] = copy[d] /\ Stands(d) /\ Relies(d) /\ Indexing(d)
    BY DEF NoteInv
  <2>2. d \in inside /\ call[d].op \in Writes => inside' = {d}
    BY DEF NoteInv, Stands
  <2>3. Stands(d)'
    BY <2>1, <2>2, StandsStill
  <2>4. CASE d \notin inside
    BY <2>3, <2>4, Waiting
  <2>5. CASE d \in inside
    <3>1. d \notin stirred' => d \notin stirred /\ disk' = disk
      BY <2>5
    <3>2. Indexing(d)'
      BY <2>1, <3>1, IndexesStill
    <3>3. Known \subseteq Known' /\ events \subseteq events'
      BY <1>1
    <3>4. Relies(d)'
      BY <1>1, <2>1, <3>1, <3>3, ReliesStill
    <3>5. QED
      BY <2>3, <3>2, <3>4
  <2>6. QED
    BY <2>3, <2>4, <2>5
<1>3. Circulation'
  <2>1. Unknown' = Unknown
    BY DEF Unknown
  <2>2. QED
    BY <1>1, <2>1 DEF NoteInv, Circulation
<1>4. Typed'
  BY DEF Typed
<1>5. QED
  BY <1>1, <1>2, <1>3, <1>4 DEF NoteInv

(* A stray command ends, or an outside program takes the flock. *)
LEMMA OthersInv ==
    ASSUME Typed, NoteInv, StrayEnds \/ OutsideTakes
    PROVE  Typed' /\ NoteInv'
<1>0. \A d \in Clients : d # "free" /\ d # "outside"
  BY ClientsAssumption
<1>1. /\ UNCHANGED <<disk, dir, hungup, queue, inside, call, copy, walk, events, marks, strange, stirred>>
  BY DEF StrayEnds, OutsideTakes, git, lock
<1>2. DirStands' /\ \A d \in Clients : Walking(d)'
  BY <1>1, WalksOn DEF NoteInv, DirStands, There
<1>3. \A n \in Notes : disk'[n] \subseteq Seen /\ base[n] \subseteq Seen
  BY <1>1 DEF NoteInv, Circulation
<1>4. CASE OutsideTakes
  <2>1. flock = "free" /\ strange < MaxOutside /\ flock' = "outside" /\ base' = disk
        /\ UNCHANGED <<head, stray>>
    BY <1>4 DEF OutsideTakes, git
  <2>2. Uncommitted'
    <3>1. \A d \in inside : Touched(d)' = Touched(d)
      BY <1>1 DEF Touched
    <3>2. QED
      BY <1>1, <2>1, <3>1, CommitsStill DEF NoteInv, Typed
  <2>3. QED
    BY <1>0, <1>1, <1>2, <1>3, <2>1, <2>2, ElseStep DEF Typed
<1>5. CASE StrayEnds
  <2>1. /\ stray.live /\ stray' = NoStray /\ head' = Committed(stray.commits)
        /\ UNCHANGED <<flock, base>>
    BY <1>5 DEF StrayEnds, lock
  <2>2. hungup
    BY <2>1 DEF NoteInv, Uncommitted
  <2>3. Uncommitted'
    BY <1>1, <2>2 DEF Uncommitted
  <2>4. head' \in [Notes -> Cell] /\ stray'.live \in BOOLEAN /\ stray'.commits \subseteq Notes
    BY <2>1 DEF Typed, Committed, NoStray
  <2>5. QED
    BY <1>1, <1>2, <1>3, <2>1, <2>3, <2>4, ElseStep DEF Typed
<1>6. QED
  BY <1>4, <1>5

(* An outside program writes: whoever is inside can no longer rely on what *)
(* it has read.                                                            *)
LEMMA OutsideWritesInv ==
    ASSUME Typed, NoteInv, OutsideWrites
    PROVE  Typed' /\ NoteInv'
<1>0. \A d \in Clients : d # "free" /\ d # "outside"
  BY ClientsAssumption
<1>1. /\ flock = "outside" /\ flock' = "free" /\ strange' = strange + 1
      /\ stirred' = stirred \cup inside /\ base' = NoBase
      /\ UNCHANGED <<dir, stray, hungup, queue, inside, call, copy, events, marks>>
  BY DEF OutsideWrites
<1>2. strange' \in 1..MaxOutside /\ strange' \in 0..MaxOutside
  BY <1>1, BoundAssumption DEF Typed
<1>3. PICK n, cell :
         /\ n \in Notes /\ cell \in {Absent, (base[n] \ Absent) \cup {MaxMarks + strange'}}
         /\ n \in InDir => dir
         /\ Become([disk EXCEPT ![n] = cell])
         /\ head' = IF stray.live THEN head ELSE [head EXCEPT ![n] = cell]
  BY DEF OutsideWrites
<1>4. cell \in Cell /\ cell \subseteq Seen
  <2>1. CASE cell = Absent
    BY <2>1 DEF Cell, Seen, Absent
  <2>2. CASE cell = (base[n] \ Absent) \cup {MaxMarks + strange'}
    <3>1. base[n] \in Cell /\ base[n] \subseteq Seen
      BY <1>3 DEF Typed, NoteInv, Circulation
    <3>2. base[n] \ Absent \in Text /\ base[n] \ Absent \subseteq Known
      <4>1. CASE base[n] = Absent
        BY <4>1, Marking
      <4>2. CASE base[n] \in Text
        BY <3>1, <4>2, Marking DEF Seen, Absent
      <4>3. QED
        BY <3>1, <4>1, <4>2 DEF Cell
    <3>3. MaxMarks + strange' \in Outside
      <4>1. \A i \in 1..MaxOutside : MaxMarks + i \in MaxMarks + 1 .. MaxMarks + MaxOutside
        BY BoundAssumption
      <4>2. QED
        BY <1>2, <4>1 DEF Outside
    <3>4. MaxMarks + strange' \in Known
      <4>1. \A c \in Clients : Due(c) \subseteq Marks
        BY BoundAssumption DEF NoteInv, Numbered, Typed, Due, Marks
      <4>2. QED
        BY <3>3, <4>1, Marking DEF Known
    <3>5. (base[n] \ Absent) \cup {MaxMarks + strange'} \in Text
      BY <3>2, <3>3, Marking
    <3>6. QED
      BY <2>2, <3>2, <3>4, <3>5 DEF Cell, Seen
  <2>3. QED
    BY <1>3, <2>1, <2>2
<1>5. disk' = [disk EXCEPT ![n] = cell] /\ Become(disk')
  BY <1>3 DEF Become
<1>6. /\ disk' \in [Notes -> Cell] /\ disk'[n] = cell
      /\ \A x \in Notes : x # n => disk'[x] = disk[x]
  BY <1>3, <1>4, <1>5 DEF Typed
<1>7. /\ \A d \in Clients : Walking(d)'
      /\ walk' \in [Clients -> [seen : Seq(Notes), steady : SUBSET Notes, more : BOOLEAN]]
  BY <1>5, <1>6, Becomes
<1>8. DirStands'
  BY <1>1, <1>3, <1>6, NotesAssumption DEF NoteInv, DirStands, There
<1>9. head' \in [Notes -> Cell] /\ base' \in [Notes -> Cell]
  BY <1>1, <1>3, <1>4, Marking DEF Typed, NoBase, Cell
<1>10. Uncommitted'
  <2>1. \A d \in Clients : Touched(d)' = Touched(d)
    BY <1>1 DEF Touched
  <2>2. ASSUME ~hungup, NEW x \in Notes, head'[x] # disk'[x] PROVE x # n /\ head[x] # disk[x]
    <3>1. head' = [head EXCEPT ![n] = cell]
      BY <1>3, <2>2 DEF NoteInv, Uncommitted
    <3>2. QED
      BY <1>6, <2>2, <3>1 DEF Typed
  <2>3. QED
    BY <1>1, <2>1, <2>2 DEF NoteInv, Uncommitted, Typed
<1>11. \A x \in Notes : disk'[x] \subseteq Seen /\ base'[x] \subseteq Seen
  BY <1>1, <1>4, <1>6 DEF NoteInv, Circulation, NoBase
<1>12. stray'.live \in BOOLEAN /\ stray'.commits \subseteq Notes
  BY <1>1 DEF Typed
<1>13. /\ \A d \in Clients : flock' = d <=> flock = d
       /\ flock' \in {"free", "outside"} \cup {flock} /\ flock' # "outside"
       /\ \A d \in inside : d \in stirred'
  BY <1>0, <1>1
<1>14. QED
  BY <1>1, <1>2, <1>6, <1>7, <1>8, <1>9, <1>10, <1>11, <1>12, <1>13, ElseStep

-----------------------------------------------------------------------------
(* The notes a request names, in the number its operation takes.           *)
LEMMA NotesNamed ==
    ASSUME NEW c \in Clients, NEW op \in Does[c], NEW ns \in NotesOf(c, op)
    PROVE  /\ op \in Writes \cup Reads /\ ns \in Seq(Notes)
           /\ op \in {"put", "delete", "get"} => Len(ns) = 1
           /\ op \in Writes => ns # <<>>
           /\ op = "edit" => \A i, j \in DOMAIN ns : i # j => ns[i] # ns[j]
<1>1. op \in Writes \cup Reads /\ Within[c] \subseteq Notes
  BY ClientsAssumption
<1>2. CASE op \in {"index", "page"}
  <2>1. ns = <<>>
    BY <1>2 DEF NotesOf
  <2>2. QED
    BY <1>1, <1>2, <2>1 DEF Writes
<1>3. CASE op \in {"create", "append"}
  <2>1. ns \in {<<n>> : n \in Notes} \cup (Notes \X Notes)
    BY <1>3 DEF NotesOf
  <2>2. ns \in Seq(Notes) /\ ns # <<>>
    <3>1. ASSUME NEW n \in Notes, ns = <<n>> PROVE ns \in Seq(Notes) /\ ns # <<>>
      BY <3>1
    <3>2. ASSUME NEW n \in Notes, NEW m \in Notes, ns = <<n, m>>
          PROVE  ns \in Seq(Notes) /\ ns # <<>>
      BY <3>2
    <3>3. ns \in Notes \X Notes => \E n, m \in Notes : ns = <<n, m>>
      OBVIOUS
    <3>4. QED
      BY <2>1, <3>1, <3>2, <3>3
  <2>3. QED
    BY <1>1, <1>3, <2>2
<1>4. CASE op = "edit"
  <2>1. ns \in {<<n>> : n \in Notes} \/ (ns \in Notes \X Notes /\ ns[1] < ns[2])
    BY <1>4 DEF NotesOf
  <2>2. ns \in Seq(Notes) /\ ns # <<>>
    <3>1. ASSUME NEW n \in Notes, ns = <<n>> PROVE ns \in Seq(Notes) /\ ns # <<>>
      BY <3>1
    <3>2. ASSUME NEW n \in Notes, NEW m \in Notes, ns = <<n, m>>
          PROVE  ns \in Seq(Notes) /\ ns # <<>>
      BY <3>2
    <3>3. ns \in Notes \X Notes => \E n, m \in Notes : ns = <<n, m>>
      OBVIOUS
    <3>4. QED
      BY <2>1, <3>1, <3>2, <3>3
  <2>3. ASSUME NEW i \in DOMAIN ns, NEW j \in DOMAIN ns, i # j PROVE ns[i] # ns[j]
    <3>1. CASE ns \in {<<n>> : n \in Notes}
      BY <2>3, <3>1
    <3>2. CASE ns \in Notes \X Notes /\ ns[1] < ns[2]
      <4>1. ns[1] \in Nat /\ ns[2] \in Nat
        BY <3>2, NotesAssumption
      <4>2. ns[1] # ns[2]
        BY <3>2, <4>1
      <4>3. DOMAIN ns = {1, 2}
        BY <3>2
      <4>4. QED
        BY <2>3, <4>2, <4>3
    <3>3. QED
      BY <2>1, <3>1, <3>2
  <2>4. QED
    BY <1>1, <1>4, <2>2, <2>3
<1>5. CASE op \notin {"index", "page", "create", "append", "edit"}
  <2>1. ns \in {<<n>> : n \in Within[c]}
    BY <1>5 DEF NotesOf
  <2>2. PICK n \in Within[c] : ns = <<n>>
    BY <2>1
  <2>3. QED
    BY <1>1, <1>5, <2>2
<1>6. QED
  BY <1>2, <1>3, <1>4, <1>5

(* A request: items of its own marks, expecting what its operation may.    *)
LEMMA RequestIs ==
    ASSUME Typed, NoteInv, NEW c \in Clients, NEW op \in Does[c], NEW ns \in NotesOf(c, op),
           marks + (IF op \in Writes THEN Len(ns) ELSE 0) <= MaxMarks,
           NEW expect \in {"absent", "present", "either", "copy"},
           \A n \in Range(ns) : expect \in Expects(c, op, n)
    PROVE  LET items == Request(c, op, ns, expect) IN
           /\ items \in Seq(Item) /\ Len(items) = Len(ns)
           /\ \A i \in DOMAIN items :
                /\ items[i].note = ns[i] /\ items[i].expect \in MayExpect(op)
                /\ op \in Writes => items[i].mark = marks + i
                /\ items[i].copy \subseteq Known
<1>1. ns \in Seq(Notes) /\ Len(ns) \in Nat /\ DOMAIN ns = 1..Len(ns)
  BY NotesNamed
<1>2. marks \in Nat /\ MaxMarks \in Nat /\ 0 \in Marks \cup {0}
  BY BoundAssumption DEF Typed
<1>3. PICK items : items = Request(c, op, ns, expect)
  OBVIOUS
<1>4. /\ DOMAIN items = 1..Len(ns)
      /\ \A i \in 1..Len(ns) : items[i] =
            [note |-> ns[i], expect |-> expect, mark |-> IF op \in Writes THEN marks + i ELSE 0,
             copy |-> IF copy[c][ns[i]] = Unknown THEN {} ELSE copy[c][ns[i]]]
      /\ items = [i \in 1..Len(ns) |-> items[i]]
  BY <1>1, <1>3 DEF Request
<1>5. ASSUME NEW i \in 1..Len(ns)
      PROVE  /\ items[i] \in Item /\ items[i].note = ns[i] /\ items[i].expect \in MayExpect(op)
             /\ op \in Writes => items[i].mark = marks + i
             /\ items[i].copy \subseteq Known
  <2>1. ns[i] \in Notes /\ ns[i] \in Range(ns)
    BY <1>1 DEF Range
  <2>2. PICK t : t = IF copy[c][ns[i]] = Unknown THEN {} ELSE copy[c][ns[i]]
    OBVIOUS
  <2>3. t \in Text /\ t \subseteq Known
    <3>1. copy[c][ns[i]] \in Text \cup {Unknown}
      BY <2>1 DEF Typed
    <3>2. copy[c][ns[i]] = Unknown \/ copy[c][ns[i]] \subseteq Known
      BY <2>1 DEF NoteInv, Circulation
    <3>3. QED
      BY <2>2, <3>1, <3>2, Marking
  <2>4. PICK m : m = IF op \in Writes THEN marks + i ELSE 0
    OBVIOUS
  <2>5. m \in Marks \cup {0}
    <3>1. CASE op \in Writes
      BY <1>1, <1>2, <2>4, <3>1 DEF Marks
    <3>2. CASE op \notin Writes
      BY <2>4, <3>2
    <3>3. QED
      BY <3>1, <3>2
  <2>6. items[i] = [note |-> ns[i], expect |-> expect, mark |-> m, copy |-> t]
    BY <1>4, <2>2, <2>4
  <2>7. expect \in MayExpect(op)
    <3>1. expect \in Expects(c, op, ns[i])
      BY <2>1
    <3>2. QED
      BY <3>1 DEF Expects, MayExpect
  <2>8. QED
    BY <2>1, <2>3, <2>4, <2>5, <2>6, <2>7 DEF Item
<1>6. items \in Seq(Item) /\ Len(items) = Len(ns)
  BY <1>1, <1>4, <1>5
<1>7. QED
  BY <1>3, <1>4, <1>5, <1>6

(* A request arrives: its marks are in nobody's hands yet. *)
LEMMA AskInv ==
    ASSUME Typed, NoteInv, NEW c \in Clients, Ask(c)
    PROVE  Typed' /\ NoteInv'
<1>1. /\ call[c].pc = "idle" /\ queue' = Append(queue, c)
      /\ UNCHANGED <<disk, dir, head, stray, hungup, inside, flock>>
      /\ UNCHANGED <<copy, walk, base, events, strange, stirred>>
  BY DEF Ask, git
<1>2. PICK op \in Does[c] : \E ns \in NotesOf(c, op) :
         /\ marks' = IF op \in Writes THEN marks + Len(ns) ELSE marks
         /\ marks' <= MaxMarks
         /\ \E expect \in {"absent", "present", "either", "copy"} :
              /\ \A n \in Range(ns) : expect \in Expects(c, op, n)
              /\ call' = [call EXCEPT ![c] = [Idle EXCEPT !.op = op, !.pc = "queued",
                                                          !.items = Request(c, op, ns, expect)]]
  BY DEF Ask
<1>3. PICK ns \in NotesOf(c, op) :
         /\ marks' = IF op \in Writes THEN marks + Len(ns) ELSE marks
         /\ marks' <= MaxMarks
         /\ \E expect \in {"absent", "present", "either", "copy"} :
              /\ \A n \in Range(ns) : expect \in Expects(c, op, n)
              /\ call' = [call EXCEPT ![c] = [Idle EXCEPT !.op = op, !.pc = "queued",
                                                          !.items = Request(c, op, ns, expect)]]
  BY <1>2
<1>4. PICK expect \in {"absent", "present", "either", "copy"} :
         /\ \A n \in Range(ns) : expect \in Expects(c, op, n)
         /\ call' = [call EXCEPT ![c] = [Idle EXCEPT !.op = op, !.pc = "queued",
                                                     !.items = Request(c, op, ns, expect)]]
  BY <1>3
<1>5. /\ op \in Writes \cup Reads /\ ns \in Seq(Notes) /\ Len(ns) \in Nat
      /\ op \in {"put", "delete", "get"} => Len(ns) = 1
      /\ op \in Writes => ns # <<>>
      /\ op = "edit" => \A i, j \in DOMAIN ns : i # j => ns[i] # ns[j]
  BY NotesNamed
<1>6. marks \in 0..MaxMarks /\ MaxMarks \in Nat /\ marks' \in 0..MaxMarks /\ marks <= marks'
  BY <1>3, <1>5, BoundAssumption DEF Typed
<1>7. PICK items : items = Request(c, op, ns, expect)
  OBVIOUS
<1>8. /\ items \in Seq(Item) /\ Len(items) = Len(ns) /\ DOMAIN items = 1..Len(ns)
      /\ \A i \in 1..Len(ns) :
           /\ items[i].note = ns[i] /\ items[i].expect \in MayExpect(op)
           /\ op \in Writes => items[i].mark = marks + i
           /\ items[i].copy \subseteq Known
  <2>1. marks + (IF op \in Writes THEN Len(ns) ELSE 0) <= MaxMarks
    BY <1>3, <1>6
  <2>2. /\ items \in Seq(Item) /\ Len(items) = Len(ns)
        /\ \A i \in DOMAIN items :
             /\ items[i].note = ns[i] /\ items[i].expect \in MayExpect(op)
             /\ op \in Writes => items[i].mark = marks + i
             /\ items[i].copy \subseteq Known
    BY <1>4, <1>7, <2>1, RequestIs
  <2>3. QED
    BY <2>2
<1>9. /\ call' = [d \in Clients |-> call'[d]]
      /\ call'[c] = [op |-> op, items |-> items, at |-> 1, pc |-> "queued", plan |-> <<>>, landed |-> {}]
      /\ \A d \in Clients : d # c => call'[d] = call[d]
  BY <1>4, <1>7 DEF Typed, Idle
<1>10. /\ call'[c].op = op /\ call'[c].items = items /\ call'[c].at = 1 /\ call'[c].pc = "queued"
       /\ call'[c].plan = <<>> /\ call'[c].landed = {}
  BY <1>9
<1>11. IsCall(call'[c])
  BY <1>5, <1>8, <1>9, <1>10 DEF IsCall, Steps, Operations
<1>12. Stands(c) /\ c \notin inside /\ c \notin Range(queue) /\ flock # c /\ call[c].op \notin Writes
  BY <1>1 DEF NoteInv, Stands, Writes
<1>13. /\ queue' \in Seq(Clients) /\ IsInjective(queue') /\ Range(queue') = Range(queue) \cup {c}
  <2>1. queue \in Seq(Clients) /\ IsInjective(queue)
    BY DEF Typed
  <2>2. /\ queue' \in Seq(Clients) /\ Len(queue') = Len(queue) + 1 /\ Len(queue) \in Nat
        /\ \A i \in 1..Len(queue) : queue'[i] = queue[i]
        /\ queue'[Len(queue) + 1] = c
    BY <1>1, <2>1
  <2>3. \A i \in 1..Len(queue) : queue[i] # c
    BY <1>12, <2>1 DEF Range
  <2>4. DOMAIN queue' = 1..Len(queue) \cup {Len(queue) + 1} /\ DOMAIN queue = 1..Len(queue)
    BY <2>1, <2>2
  <2>5. IsInjective(queue')
    BY <2>1, <2>2, <2>3, <2>4 DEF IsInjective
  <2>6. Range(queue') = Range(queue) \cup {c}
    BY <2>2, <2>4 DEF Range
  <2>7. QED
    BY <2>2, <2>5, <2>6
<1>14. Stands(c)'
  <2>1. c \in Range(queue)' /\ c \notin inside' /\ flock' # c
    BY <1>1, <1>12, <1>13
  <2>2. op # "none" /\ (op \in Writes => items # <<>>)
    BY <1>5, <1>8 DEF Writes, Reads
  <2>3. op \in {"put", "delete", "get"} => Len(items) = 1
    BY <1>5, <1>8
  <2>4. \A i \in DOMAIN items : items[i].expect \in MayExpect(op)
    BY <1>8
  <2>5. op = "edit" => \A i, j \in DOMAIN items : i # j => items[i].note # items[j].note
    BY <1>5, <1>8
  <2>6. QED
    BY <1>10, <2>1, <2>2, <2>3, <2>4, <2>5 DEF Stands
<1>15. /\ \A d \in Clients : d # c => Asked(d)' = Asked(d)
       /\ Asked(c) = {} /\ Asked(c)' \subseteq (marks + 1)..marks'
  <2>1. \A d \in Clients : d # c => Asked(d)' = Asked(d)
    BY <1>9 DEF Asked
  <2>2. Asked(c) = {}
    BY <1>12 DEF Asked
  <2>3. ASSUME op \in Writes, NEW i \in Range(items) PROVE i.mark \in (marks + 1)..marks'
    <3>1. PICK j \in 1..Len(ns) : i = items[j]
      BY <1>8 DEF Range
    <3>2. i.mark = marks + j /\ marks' = marks + Len(ns)
      BY <1>3, <1>8, <2>3, <3>1
    <3>3. QED
      BY <1>5, <1>6, <3>2
  <2>4. QED
    BY <1>10, <2>1, <2>2, <2>3 DEF Asked
<1>16. Numbered'
  <2>1. \A d \in Clients : d # c => Asked(d) \subseteq 1..marks
    BY DEF NoteInv, Numbered
  <2>2. \A d \in Clients : Asked(d)' \subseteq 1..marks'
    BY <1>6, <1>15, <2>1
  <2>3. \A d \in Clients : d # c => Asked(d)' \cap Asked(c)' = {}
    BY <1>6, <1>15, <2>1
  <2>4. op \in Writes => \A i, j \in DOMAIN items : i # j => items[i].mark # items[j].mark
    BY <1>6, <1>8
  <2>5. \A d \in Clients : d # c =>
           /\ call'[d].landed \subseteq Asked(d)'
           /\ call'[d].op \in Writes =>
              \A i, j \in DOMAIN call'[d].items : i # j => call'[d].items[i].mark # call'[d].items[j].mark
    BY <1>9, <1>15 DEF NoteInv, Numbered
  <2>6. \A d, e \in Clients : d # e => Asked(d)' \cap Asked(e)' = {}
    BY <1>15, <2>3 DEF NoteInv, Numbered
  <2>7. QED
    BY <1>10, <2>2, <2>4, <2>5, <2>6 DEF Numbered
<1>17. Known \subseteq Known' /\ Seen \subseteq Seen'
  <2>1. ASSUME NEW m \in Known PROVE m \in (1..marks') \cup Outside /\ m \notin Due(c)'
    <3>1. m \in (1..marks) \cup Outside
      BY DEF Known
    <3>2. CASE m \in 1..marks
      <4>1. m \in 1..marks' /\ m \notin (marks + 1)..marks'
        BY <1>6, <3>2
      <4>2. QED
        BY <1>15, <4>1 DEF Due
    <3>3. CASE m \in Outside
      <4>1. m \notin (marks + 1)..marks'
        BY <1>6, <3>3, BoundAssumption DEF Outside
      <4>2. QED
        BY <1>15, <3>3, <4>1 DEF Due
    <3>4. QED
      BY <3>1, <3>2, <3>3
  <2>2. \A d \in Clients : d # c => Due(d)' = Due(d)
    BY <1>9, <1>15 DEF Due
  <2>3. Outside' = Outside
    BY DEF Outside
  <2>4. Known \subseteq Known'
    BY <2>1, <2>2, <2>3 DEF Known
  <2>5. QED
    BY <2>4 DEF Seen
<1>18. Circulation'
  <2>1. Unknown' = Unknown
    BY DEF Unknown
  <2>2. /\ \A n \in Notes : disk'[n] \subseteq Seen' /\ base'[n] \subseteq Seen'
        /\ \A d \in Clients, n \in Notes : copy'[d][n] = Unknown \/ copy'[d][n] \subseteq Known'
        /\ events' \subseteq Known'
    BY <1>1, <1>17 DEF NoteInv, Circulation
  <2>3. ASSUME NEW d \in Clients
        PROVE  /\ \A j \in DOMAIN call'[d].items : call'[d].items[j].copy \subseteq Known'
               /\ call'[d].op \in Writes =>
                    \A j \in DOMAIN call'[d].plan : call'[d].plan[j] \subseteq Seen' \cup Asked(d)'
    <3>1. CASE d = c
      BY <1>8, <1>10, <1>17, <3>1
    <3>2. CASE d # c
      BY <1>9, <1>15, <1>17, <3>2 DEF NoteInv, Circulation
    <3>3. QED
      BY <3>1, <3>2
  <2>4. QED
    BY <2>1, <2>2, <2>3 DEF Circulation
<1>19. ASSUME NEW d \in Clients PROVE Stands(d)' /\ Relies(d)' /\ Indexing(d)'
  <2>1. CASE d = c
    BY <1>1, <1>12, <1>14, <2>1, Waiting
  <2>2. CASE d # c
    <3>1. call'[d] = call[d] /\ copy'[d] = copy[d] /\ Stands(d) /\ Relies(d) /\ Indexing(d)
      BY <1>1, <1>9, <2>2 DEF NoteInv
    <3>2. d \in inside /\ call[d].op \in Writes => inside' = {d}
      BY <1>1, <3>1 DEF Stands
    <3>3. Stands(d)'
      BY <1>1, <1>13, <2>2, <3>1, <3>2, StandsStill
    <3>4. QED
      BY <1>1, <1>15, <1>17, <2>2, <3>1, <3>3, ReliesStill, IndexesStill
  <2>3. QED
    BY <2>1, <2>2
<1>20. Uncommitted'
  <2>1. \A d \in inside : call'[d] = call[d] /\ Touched(d)' = Touched(d)
    BY <1>9, <1>12 DEF Typed, Touched
  <2>2. QED
    BY <1>1, <2>1, CommitsStill DEF NoteInv, Typed
<1>21. DirStands' /\ \A d \in Clients : Walking(d)'
  BY <1>1, WalksOn DEF NoteInv, DirStands, There
<1>22. Typed'
  <2>1. \A d \in Clients : IsCall(call'[d])
    BY <1>9, <1>11 DEF Typed
  <2>2. QED
    BY <1>1, <1>6, <1>9, <1>13, <2>1 DEF Typed
<1>23. QED
  BY <1>16, <1>18, <1>19, <1>20, <1>21, <1>22 DEF NoteInv

-----------------------------------------------------------------------------
(* It holds at the start, of an idle vault that git has as it is. *)
LEMMA InitInv == Init => Typed /\ NoteInv
<1> SUFFICES ASSUME Init PROVE Typed /\ NoteInv
  OBVIOUS
<1>0. \A c \in Clients : c # "free" /\ c # "outside"
  BY ClientsAssumption
<1>1. /\ IsCall(Idle) /\ Idle.items = <<>> /\ Idle.op = "none" /\ Idle.pc = "idle"
      /\ Idle.landed = {} /\ Idle.plan = <<>> /\ Idle.at = 1
  BY DEF IsCall, Idle, Operations, Steps
<1>2. \A c \in Clients : call[c] = Idle
  BY DEF Init
<1>3. Typed
  <2>1. disk \in [Notes -> Cell] /\ head \in [Notes -> Cell] /\ base \in [Notes -> Cell]
    BY Marking DEF Init, Cell, NoBase
  <2>2. queue \in Seq(Clients) /\ IsInjective(queue)
    BY DEF Init, IsInjective
  <2>3. walk \in [Clients -> [seen : Seq(Notes), steady : SUBSET Notes, more : BOOLEAN]]
    BY DEF Init, NoWalk
  <2>4. /\ stray.live \in BOOLEAN /\ stray.commits \subseteq Notes /\ dir \in BOOLEAN
        /\ hungup \in BOOLEAN /\ inside \subseteq Clients
        /\ flock \in {"free", "outside"} \cup Clients /\ flock # "outside" /\ events \subseteq Marks
    BY DEF Init, NoStray
  <2>5. marks \in 0..MaxMarks /\ strange \in 0..MaxOutside
    BY BoundAssumption DEF Init
  <2>6. call = [c \in Clients |-> call[c]] /\ copy \in [Clients -> [Notes -> Text \cup {Unknown}]]
    BY DEF Init
  <2>7. QED
    BY <1>1, <1>2, <2>1, <2>2, <2>3, <2>4, <2>5, <2>6 DEF Typed
<1>4. ASSUME NEW c \in Clients PROVE Stands(c) /\ Relies(c) /\ Indexing(c) /\ Walking(c)
  <2>1. Range(queue) = {} /\ inside = {} /\ flock # c
    BY <1>0 DEF Init, Range
  <2>2. Stands(c)
    BY <1>1, <1>2, <2>1 DEF Stands, Writes, Reads, Single
  <2>3. Relies(c) /\ Indexing(c)
    BY <1>1, <1>2 DEF Relies, Indexing, Writes
  <2>4. walk[c].seen = <<>> /\ walk[c].steady = {}
    BY DEF Init, NoWalk
  <2>5. QED
    BY <2>2, <2>3, <2>4 DEF Walking, Ascending
<1>5. \A c \in Clients : Asked(c) = {}
  BY <1>1, <1>2 DEF Asked, Writes
<1>6. Numbered
  BY <1>1, <1>2, <1>5 DEF Numbered, Writes
<1>7. Circulation
  <2>1. \A n \in Notes : disk[n] \subseteq Seen /\ base[n] \subseteq Seen
    BY DEF Init, Seen, Absent, NoBase
  <2>2. \A c \in Clients, n \in Notes : copy[c][n] = Unknown
    BY DEF Init
  <2>3. events = {}
    BY DEF Init
  <2>4. QED
    BY <1>1, <1>2, <2>1, <2>2, <2>3 DEF Circulation, Writes
<1>8. DirStands
  BY NotesAssumption DEF Init, DirStands, There
<1>9. Uncommitted
  BY DEF Init, Uncommitted, NoStray
<1>10. QED
  BY <1>3, <1>4, <1>6, <1>7, <1>8, <1>9 DEF NoteInv

(* And every step of every client, and of whoever else, preserves it. *)
LEMMA StepInv == Typed /\ NoteInv /\ [Next]_vars => Typed' /\ NoteInv'
<1> SUFFICES ASSUME Typed, NoteInv, [Next]_vars PROVE Typed' /\ NoteInv'
  OBVIOUS
<1>1. ASSUME NEW c \in Clients, Ask(c) PROVE Typed' /\ NoteInv'
  BY <1>1, AskInv
<1>2. ASSUME NEW c \in Clients, HangUp(c) PROVE Typed' /\ NoteInv'
  BY <1>2, HangUpInv
<1>3. ASSUME NEW c \in Clients, Handle(c) PROVE Typed' /\ NoteInv'
  <2>1. CASE Enter(c)
    BY <2>1, EnterInv
  <2>2. CASE LookAtOne(c)
    BY <2>2, LookAtOneInv
  <2>3. CASE SaveOne(c)
    BY <2>3, SaveOneInv
  <2>4. CASE LookAtAll(c)
    BY <2>4, LookAtAllInv
  <2>5. CASE ApplyAll(c)
    BY <2>5, ApplyAllInv
  <2>6. CASE Emit(c)
    BY <2>6, EmitInv
  <2>7. CASE TakeFlock(c) \/ GitAdd(c)
    BY <2>7, BeforeCommitInv
  <2>8. CASE GitCommit(c)
    BY <2>8, GitCommitInv
  <2>9. CASE Get(c)
    BY <2>9, GetInv
  <2>10. CASE ListIndex(c)
    BY <2>10, ListIndexInv
  <2>11. CASE TagNext(c)
    BY <2>11, TagNextInv
  <2>12. CASE Page(c)
    BY <2>12, PageInv
  <2>13. CASE Done(c)
    BY <2>13, DoneInv
  <2>14. QED
    BY <1>3, <2>1, <2>2, <2>3, <2>4, <2>5, <2>6, <2>7, <2>8, <2>9, <2>10, <2>11, <2>12, <2>13 DEF Handle
<1>4. CASE StrayEnds \/ OutsideTakes
  BY <1>4, OthersInv
<1>5. CASE OutsideWrites
  BY <1>5, OutsideWritesInv
<1>6. CASE UNCHANGED vars
  <2>1. /\ UNCHANGED <<disk, dir, head, stray, hungup, queue, inside, flock, call>>
        /\ UNCHANGED <<copy, walk, base, events, marks, strange, stirred>>
    BY <1>6 DEF vars, git, lock
  <2>2. Typed'
    BY <2>1 DEF Typed
  <2>3. \A d \in Clients : Stands(d)' /\ Relies(d)' /\ Indexing(d)' /\ Walking(d)'
    <3>1. \A d \in Clients : Asked(d)' = Asked(d)
      BY <2>1 DEF Asked
    <3>2. Known' = Known
      BY <2>1, MarksStay
    <3>3. QED
      BY <2>1, <3>1, <3>2, StandsStill, ReliesStill, IndexesStill, WalksOn DEF NoteInv, Stands
  <2>4. Numbered' /\ Circulation'
    <3>1. (\A d \in Clients : Asked(d)' = Asked(d)) /\ Known' = Known /\ Seen' = Seen /\ Numbered'
      BY <2>1, MarksStay DEF NoteInv
    <3>2. QED
      BY <2>1, <3>1 DEF NoteInv, Circulation, Unknown
  <2>5. DirStands' /\ Uncommitted'
    BY <2>1 DEF NoteInv, DirStands, There, Uncommitted, Touched
  <2>6. QED
    BY <2>2, <2>3, <2>4, <2>5 DEF NoteInv
<1>7. QED
  BY <1>1, <1>2, <1>3, <1>4, <1>5, <1>6 DEF Next

-----------------------------------------------------------------------------
(* What every call, every note and every mark of the vault are like at any  *)
(* time, whoever writes and whatever outside programs do.                  *)
THEOREM NoteApiCorrect == Spec => [](Typed /\ NoteInv)
BY InitInv, StepInv, PTL DEF Spec

(* The state is of its types, a writer is alone, nobody waits twice. *)
THEOREM TypeCorrect == Spec => []TypeOK
<1>1. Typed /\ NoteInv => TypeOK
  <2> SUFFICES ASSUME Typed, NoteInv PROVE TypeOK
    OBVIOUS
  <2>1. \A n \in InDir : disk[n] # Absent => dir
    BY DEF NoteInv, DirStands, There
  <2>2. Range(queue) \cap inside = {}
    <3>1. Range(queue) \subseteq Clients
      BY DEF Typed, Range
    <3>2. QED
      BY <3>1 DEF NoteInv, Stands
  <2>3. flock \in {"free", "outside"} \cup inside
    BY DEF Typed, NoteInv, Stands
  <2>4. ASSUME NEW c \in Clients
        PROVE  /\ call[c].op \in Writes \cup Reads \cup {"none"}
               /\ Range(call[c].items) \subseteq Item
               /\ call[c].pc = "idle" <=> c \notin inside \cup Range(queue)
               /\ call[c].op \in Writes /\ c \in inside => inside = {c}
    <3>1. IsCall(call[c]) /\ Stands(c)
      BY DEF Typed, NoteInv
    <3>2. Range(call[c].items) \subseteq Item
      BY <3>1, ItemsAre
    <3>3. QED
      BY <3>1, <3>2 DEF IsCall, Stands, Operations
  <2>5. events \subseteq 1..marks
    <3>1. events \subseteq Known /\ events \subseteq Marks
      BY DEF Typed, NoteInv, Circulation
    <3>2. QED
      BY <3>1, Marking DEF Known
  <2>6. QED
    BY <2>1, <2>2, <2>3, <2>4, <2>5 DEF Typed, TypeOK, Cell
<1>2. QED
  BY <1>1, NoteApiCorrect, PTL

(* What a call reports as done is in the vault and in the journal, the rest *)
(* is in neither; an edit or a deletion of many notes is all or nothing.   *)
THEOREM ReportsAreTrue == Spec => []ReportsTrue
<1>1. Typed /\ NoteInv => ReportsTrue
  <2> SUFFICES ASSUME Typed, NoteInv, NEW c \in Clients, call[c].pc = "done", call[c].op \in Writes
               PROVE  /\ \A i \in Range(call[c].items) :
                           /\ i.mark \in events <=> i.mark \in call[c].landed
                           /\ i.mark \in UNION Range(disk) => i.mark \in call[c].landed
                           /\ i.mark \in call[c].landed /\ c \notin stirred =>
                                CASE call[c].op = "delete" -> ~There(i.note)
                                  [] call[c].op = "create" -> There(i.note)
                                  [] OTHER -> i.mark \in disk[i.note]
                      /\ call[c].op \in {"edit", "delete"} =>
                           call[c].landed \in {{}, {i.mark : i \in Range(call[c].items)}}
    BY DEF ReportsTrue
  <2>1. Relies(c) /\ Circulation /\ Asked(c) = {i.mark : i \in Range(call[c].items)}
    BY DEF NoteInv, Asked
  <2>2. ASSUME NEW i \in Range(call[c].items), i.mark \in Known PROVE i.mark \in call[c].landed
    BY <2>1, <2>2 DEF Known, Due
  <2>3. ASSUME NEW i \in Range(call[c].items) PROVE i.mark \in 1..marks /\ i.mark # 0
    <3>1. i.mark \in 1..marks
      BY <2>1 DEF NoteInv, Numbered
    <3>2. QED
      BY <3>1 DEF Typed
  <2>4. ASSUME NEW i \in Range(call[c].items), i.mark \in UNION Range(disk)
        PROVE  i.mark \in call[c].landed
    <3>1. PICK n \in Notes : i.mark \in disk[n]
      BY <2>4 DEF Typed, Range
    <3>2. i.mark \in Known
      BY <2>1, <2>3, <3>1 DEF Circulation, Seen
    <3>3. QED
      BY <2>2, <3>2
  <2>5. ASSUME NEW i \in Range(call[c].items)
        PROVE  i.mark \in events <=> i.mark \in call[c].landed
    BY <2>1, <2>2 DEF Relies, Circulation
  <2>6. ASSUME NEW i \in Range(call[c].items), i.mark \in call[c].landed, c \notin stirred
        PROVE  (CASE call[c].op = "delete" -> ~There(i.note)
                  [] call[c].op = "create" -> There(i.note)
                  [] OTHER -> i.mark \in disk[i.note])
    BY <2>1, <2>6 DEF Relies
  <2>7. QED
    BY <2>1, <2>4, <2>5, <2>6 DEF Relies
<1>2. QED
  BY <1>1, NoteApiCorrect, PTL

(* Between calls git has what the vault has, unless a client ever hung up   *)
(* in the middle of a commit.                                              *)
THEOREM WritesAreCommitted == Spec => []AllCommitted
<1>1. Typed /\ NoteInv => AllCommitted
  BY DEF Typed, NoteInv, Uncommitted, AllCommitted
<1>2. QED
  BY <1>1, NoteApiCorrect, PTL

(* An index shows the notes as they stood at one time. *)
THEOREM IndexesAreSnapshots == Spec => []IndexIsSnapshot
<1>1. NoteInv => IndexIsSnapshot
  BY DEF NoteInv, Indexing, IndexIsSnapshot
<1>2. QED
  BY <1>1, NoteApiCorrect, PTL

(* A listing followed to its end shows each note that was there all along.  *)
THEOREM ListingsAreComplete == Spec => []ListingComplete
<1>1. NoteInv => ListingComplete
  BY DEF NoteInv, Walking, Ascending, ListingComplete
<1>2. QED
  BY <1>1, NoteApiCorrect, PTL

(* No step takes from a note what it held, save one that says so or one     *)
(* that the lock does not guard.                                           *)
LEMMA KeptByStep ==
    ASSUME Typed, NoteInv, [Next]_vars, NEW n \in Notes, There(n), ~(disk[n] \subseteq disk'[n])
    PROVE  Excused(n)
<1>1. disk[n] \in Text /\ disk[n] \ Absent = disk[n] /\ disk[n] # Absent /\ disk'[n] # disk[n]
  <2>1. disk[n] \in Text /\ disk[n] # Absent
    BY DEF Typed, Cell, There
  <2>2. QED
    BY <2>1, Marking
<1>2. ASSUME NEW c \in Clients, SaveOne(c) PROVE Excused(n)
  <2>1. /\ call[c].pc = "save" /\ Become([disk EXCEPT ![Now(c).note] = call[c].plan[1]])
        /\ call' = [call EXCEPT ![c].at = @ + 1, ![c].pc = More(c, call[c].at),
                                ![c].landed = @ \cup {Now(c).mark}]
    BY <1>1, <1>2 DEF SaveOne
  <2>2. Stands(c) /\ Relies(c) /\ IsCall(call[c])
    BY DEF NoteInv, Typed
  <2>3. call[c].op \in Single /\ c \in inside
    BY <2>1, <2>2 DEF Stands
  <2>4. disk' = [disk EXCEPT ![Now(c).note] = call[c].plan[1]]
    BY <2>1 DEF Become
  <2>5. Now(c).note = n /\ disk'[n] = call[c].plan[1]
    BY <1>1, <2>4 DEF Typed
  <2>6. call'[c] # call[c]
    <3>1. call'[c].at = call[c].at + 1 /\ call[c].at \in Nat
      BY <2>1, <2>2 DEF Typed, IsCall
    <3>2. QED
      BY <3>1
  <2>7. CASE c \in stirred
    BY <2>3, <2>6, <2>7 DEF Excused
  <2>8. CASE c \notin stirred
    <3>1. Fits(Now(c), disk[n]) /\ disk'[n] = Body(call[c].op, Now(c), disk[n])
      BY <2>1, <2>2, <2>5, <2>8 DEF Relies
    <3>2. Now(c).expect \in MayExpect(call[c].op)
      <4>1. call[c].at \in 1..Len(call[c].items) /\ Now(c) = call[c].items[call[c].at]
            /\ call[c].items \in Seq(Item)
        BY <2>1, <2>3, TheItem DEF Single, Writes
      <4>2. QED
        BY <2>2, <4>1 DEF Stands
    <3>3. Knowing(c)
      <4>1. CASE call[c].op = "append"
        BY <1>1, <3>1, <4>1 DEF Body
      <4>2. CASE call[c].op = "create"
        BY <1>1, <3>1, <3>2, <4>2 DEF Fits, MayExpect, Knowing
      <4>3. CASE call[c].op = "put"
        <5>1. Now(c).expect \in {"absent", "present", "copy"}
          BY <3>2, <4>3 DEF MayExpect
        <5>2. Now(c).expect # "absent"
          BY <1>1, <3>1 DEF Fits
        <5>3. Now(c).expect = "copy" => disk[n] \subseteq disk'[n]
          BY <3>1, <4>3 DEF Fits, Body
        <5>4. QED
          BY <4>3, <5>1, <5>2, <5>3 DEF Knowing
      <4>4. QED
        BY <2>3, <4>1, <4>2, <4>3 DEF Single
    <3>4. QED
      BY <2>3, <2>6, <3>3 DEF Excused
  <2>9. QED
    BY <2>7, <2>8
<1>3. ASSUME NEW c \in Clients, ApplyAll(c) PROVE Excused(n)
  <2>1. /\ call[c].pc = "apply" /\ Become(Planned(c))
        /\ call' = [call EXCEPT ![c].pc = "emit", ![c].landed = {i.mark : i \in Range(call[c].items)}]
    BY <1>1, <1>3 DEF ApplyAll
  <2>2. Stands(c) /\ Relies(c) /\ IsCall(call[c])
    BY DEF NoteInv, Typed
  <2>3. /\ call[c].op \in {"edit", "delete"} /\ c \in inside /\ call[c].items \in Seq(Item)
        /\ call[c].at = Len(call[c].items) + 1 /\ Len(call[c].plan) = Len(call[c].items)
        /\ call[c].plan \in Seq(Cell)
    BY <2>1, <2>2 DEF Stands, IsCall
  <2>4. call'[c] # call[c]
    <3>1. Moved(c, call[c].at, "emit", call[c].plan, {i.mark : i \in Range(call[c].items)})
      BY <2>1, MovedBy
    <3>2. call'[c].pc = "emit"
      BY <3>1 DEF Moved
    <3>3. QED
      BY <2>1, <3>2
  <2>5. CASE c \in stirred \/ call[c].op = "delete"
    BY <2>3, <2>4, <2>5 DEF Excused, Knowing
  <2>6. CASE c \notin stirred /\ call[c].op = "edit"
    <3>1. PICK j \in DOMAIN call[c].items : call[c].items[j].note = n /\ disk'[n] = call[c].plan[j]
      BY <1>1, <2>1 DEF Become, Planned
    <3>2. j \in DOMAIN call[c].plan /\ Len(call[c].plan) = call[c].at - 1
      BY <2>3
    <3>3. disk[n] \subseteq call[c].plan[j]
      BY <2>1, <2>2, <2>6, <3>1, <3>2 DEF Relies
    <3>4. QED
      BY <3>1, <3>3
  <2>7. QED
    BY <2>3, <2>5, <2>6
<1>4. ASSUME OutsideWrites PROVE Excused(n)
  <2>1. PICK m, cell :
           /\ m \in Notes /\ cell \in {Absent, (base[m] \ Absent) \cup {MaxMarks + strange'}}
           /\ Become([disk EXCEPT ![m] = cell])
    BY <1>4 DEF OutsideWrites
  <2>2. m = n /\ disk'[n] = cell
    BY <1>1, <2>1 DEF Become, Typed
  <2>3. flock = "outside" /\ flock' = "free"
    BY <1>4 DEF OutsideWrites
  <2>4. base[n] = disk[n] => disk'[n] = Absent
    BY <1>1, <2>1, <2>2
  <2>5. QED
    BY <2>3, <2>4 DEF Excused
<1>5. (\E c \in Clients : SaveOne(c) \/ ApplyAll(c)) \/ OutsideWrites \/ disk' = disk
  <2>1. ASSUME NEW c \in Clients, Ask(c) \/ Handle(c) \/ HangUp(c), ~SaveOne(c), ~ApplyAll(c)
        PROVE  disk' = disk
    BY <2>1 DEF Ask, Handle, HangUp, Enter, EnterWith, LookAtOne, LookAtAll, Emit, TakeFlock, GitAdd,
                GitCommit, GitCommitOf, Get, ListIndex, TagNext, Page, Done
  <2>2. StrayEnds \/ OutsideTakes \/ UNCHANGED vars => disk' = disk
    BY DEF StrayEnds, OutsideTakes, vars
  <2>3. QED
    BY <2>1, <2>2 DEF Next
<1>6. QED
  BY <1>1, <1>2, <1>3, <1>4, <1>5

(* What a note holds stays in it: no update is lost. *)
THEOREM NoUpdateIsLost == Spec => NothingLost
<1>1. Typed /\ NoteInv /\ [Next]_vars =>
        [\A n \in Notes : There(n) /\ ~(disk[n] \subseteq disk'[n]) => Excused(n)]_vars
  BY KeptByStep
<1>2. QED
  BY <1>1, NoteApiCorrect, PTL DEF Spec, NothingLost
===============================================================================
