------------------------- MODULE EventJournalProofs -------------------------
(***************************************************************************)
(* What a reader of the event journal finds, for every size of the files   *)
(* and any number of records, restarts and torn appends: seq increases,    *)
(* and without a torn append what is missing is older than what is left.   *)
(* A torn append is taken to end between two characters: a file that is    *)
(* not valid UTF-8 loses the count (the mangle fault), which is a finding. *)
(***************************************************************************)
EXTENDS EventJournal, SequenceTheorems, FiniteSetTheorems, TLAPS

WholeCharacters == "mangle" \notin Faults

(* The last readable line of a file, which LastSeq looks for, exists.      *)
IsLast(lines, i) == i \in Readable(lines) /\ \A j \in Readable(lines) : j <= i
HasLast(lines) == Readable(lines) = {} \/ \E i \in DOMAIN lines : IsLast(lines, i)

(* The last readable line of the live file, or of the rotated one, bounds  *)
(* the journal: a live file that has filled up holds more than torn lines. *)
FilesInv ==
    /\ ~live.mangled /\ ~rotated.mangled
    /\ HasLast(live.lines) /\ HasLast(rotated.lines)
    /\ Readable(live.lines) = {} => Len(live.lines) <= tears
    /\ pc = "append" => Len(live.lines) < RotateAt
    /\ Readable(rotated.lines) # {} \/ (rotated.lines = <<>> /\ dropped = <<>>)

(* No line of the journal is ahead of the counter of a server that runs,   *)
(* nor level with a number that is still to be appended.                   *)
SeqInv ==
    /\ pc # "down" => \A i \in DOMAIN Journal : Journal[i] <= seq
    /\ pc \in {"rotate", "append"} => \A i \in DOMAIN Journal : Journal[i] < seq
    /\ pc \in {"rotate", "append", "sync"} => seq > 0

(* Without a torn append every acknowledged record is in the journal.      *)
AckedInv ==
    tears = 0 =>
        /\ ~live.cut /\ ~rotated.cut
        /\ pc = "sync" => live.lines # <<>> /\ live.lines[Len(live.lines)] = seq
        /\ \A i \in DOMAIN acked :
              acked[i] # Garbage /\ \E j \in DOMAIN Journal : Journal[j] = acked[i]

(* Every torn append is charged once: for a line that the next record will *)
(* be glued to, for a glued record that is about to be acknowledged, or    *)
(* for an acknowledged record that no reader finds.                        *)
OnLine == IF live.cut THEN 1 ELSE 0
OnRecord == IF pc = "sync" /\ \A j \in DOMAIN Journal : Journal[j] # seq THEN 1 ELSE 0
LostInv == IsFiniteSet(Lost) /\ Cardinality(Lost) + OnLine + OnRecord <= tears

IInv == TypeOK /\ SeqIncreasing /\ FilesInv /\ SeqInv /\ AckedInv /\ LostInv

-----------------------------------------------------------------------------
(* Sequences of lines. *)

LEMMA AppendedLines ==
    ASSUME NEW s \in Seq(Nat), NEW n \in Nat
    PROVE  /\ Append(s, n) \in Seq(Nat)
           /\ DOMAIN Append(s, n) = 1..(Len(s) + 1)
           /\ Len(Append(s, n)) = Len(s) + 1
           /\ \A i \in DOMAIN s : Append(s, n)[i] = s[i]
           /\ Append(s, n)[Len(s) + 1] = n
           /\ DOMAIN s = 1..Len(s)
  OBVIOUS

(* A line after the last one, torn or numbered above all, keeps the order. *)
LEMMA AppendKeepsOrder ==
    ASSUME NEW s \in Seq(Nat), NEW n \in Nat, Increasing(s),
           n = Garbage \/ \A i \in DOMAIN s : s[i] < n
    PROVE  Increasing(Append(s, n))
<1>1. SUFFICES ASSUME NEW i \in DOMAIN Append(s, n), NEW j \in DOMAIN Append(s, n), i < j,
                      Append(s, n)[i] # Garbage, Append(s, n)[j] # Garbage
               PROVE  Append(s, n)[i] < Append(s, n)[j]
  BY DEF Increasing
<1>2. i \in DOMAIN s /\ Append(s, n)[i] = s[i]
  BY <1>1, AppendedLines
<1>3. CASE j \in DOMAIN s
  BY <1>1, <1>2, <1>3, AppendedLines DEF Increasing
<1>4. CASE j = Len(s) + 1
  BY <1>1, <1>2, <1>4, AppendedLines
<1>5. QED
  BY <1>3, <1>4, AppendedLines

(* The last readable line of a file stays, or a new one takes its place.   *)
LEMMA AppendKeepsLast ==
    ASSUME NEW s \in Seq(Nat), NEW n \in Nat, HasLast(s)
    PROVE  HasLast(Append(s, n))
<1>1. CASE n # Garbage
  <2>1. IsLast(Append(s, n), Len(s) + 1)
    BY <1>1, AppendedLines DEF IsLast, Readable
  <2>2. QED
    BY <2>1, AppendedLines DEF HasLast
<1>2. CASE n = Garbage
  <2>1. Readable(Append(s, n)) = Readable(s)
    BY <1>2, AppendedLines DEF Readable
  <2>2. QED
    BY <2>1, AppendedLines DEF HasLast, IsLast
<1>3. QED
  BY <1>1, <1>2

LEMMA JoinedPair ==
    ASSUME NEW s \in Seq(Nat), NEW t \in Seq(Nat)
    PROVE  /\ s \o t \in Seq(Nat)
           /\ Len(s \o t) = Len(s) + Len(t)
           /\ DOMAIN (s \o t) = 1..(Len(s) + Len(t))
           /\ \A i \in 1..Len(s) : (s \o t)[i] = s[i]
           /\ \A i \in 1..Len(t) : (s \o t)[Len(s) + i] = t[i]
<1>1. s \o t \in Seq(Nat) /\ Len(s \o t) = Len(s) + Len(t)
  BY ConcatProperties
<1>2. QED
  BY <1>1, ConcatProperties, LenProperties

(* An ordered journal is made of ordered parts, in order.                  *)
Before(s, t) ==
    \A i \in DOMAIN s, j \in DOMAIN t : s[i] # Garbage /\ t[j] # Garbage => s[i] < t[j]
AtMost(s, n) == \A i \in DOMAIN s : s[i] <= n

LEMMA PartsInOrder ==
    ASSUME NEW s \in Seq(Nat), NEW t \in Seq(Nat), Increasing(s \o t)
    PROVE  Increasing(s) /\ Increasing(t) /\ Before(s, t)
<1> DEFINE h == s \o t
<1>0. /\ h \in Seq(Nat)
      /\ DOMAIN h = 1..(Len(s) + Len(t))
      /\ \A i \in 1..Len(s) : h[i] = s[i]
      /\ \A i \in 1..Len(t) : h[Len(s) + i] = t[i]
      /\ \A i, j \in DOMAIN h : i < j /\ h[i] # Garbage /\ h[j] # Garbage => h[i] < h[j]
  BY JoinedPair DEF Increasing
<1>1. /\ Len(s) \in Nat /\ Len(t) \in Nat
      /\ DOMAIN s = 1..Len(s) /\ DOMAIN t = 1..Len(t)
  OBVIOUS
<1> HIDE DEF h
<1>2. Increasing(s)
  BY <1>0, <1>1 DEF Increasing
<1>3. Increasing(t)
  <2>1. SUFFICES ASSUME NEW i \in 1..Len(t), NEW j \in 1..Len(t), i < j,
                        t[i] # Garbage, t[j] # Garbage
                 PROVE  t[i] < t[j]
    BY <1>1 DEF Increasing
  <2>2. Len(s) + i \in DOMAIN h /\ Len(s) + j \in DOMAIN h /\ Len(s) + i < Len(s) + j
    BY <1>0, <1>1, <2>1
  <2>3. QED
    BY <1>0, <2>1, <2>2
<1>4. Before(s, t)
  <2>1. SUFFICES ASSUME NEW i \in 1..Len(s), NEW j \in 1..Len(t),
                        s[i] # Garbage, t[j] # Garbage
                 PROVE  s[i] < t[j]
    BY <1>1 DEF Before
  <2>2. i \in DOMAIN h /\ Len(s) + j \in DOMAIN h /\ i < Len(s) + j
    BY <1>0, <1>1
  <2>3. QED
    BY <1>0, <2>1, <2>2
<1>5. QED
  BY <1>2, <1>3, <1>4

LEMMA BoundOfParts ==
    ASSUME NEW s \in Seq(Nat), NEW t \in Seq(Nat), NEW n \in Nat
    PROVE  /\ AtMost(s, n) /\ AtMost(t, n) => AtMost(s \o t, n)
           /\ AtMost(t, n) /\ Before(s, t) /\ Readable(t) # {} => AtMost(s, n)
<1>1. ASSUME AtMost(s, n), AtMost(t, n)
      PROVE  AtMost(s \o t, n)
  <2> DEFINE h == s \o t
  <2>0. /\ DOMAIN h = 1..(Len(s) + Len(t))
        /\ \A i \in 1..Len(s) : h[i] = s[i]
        /\ \A i \in 1..Len(t) : h[Len(s) + i] = t[i]
    BY JoinedPair
  <2>1. /\ Len(s) \in Nat /\ Len(t) \in Nat
        /\ DOMAIN s = 1..Len(s) /\ DOMAIN t = 1..Len(t)
    OBVIOUS
  <2> HIDE DEF h
  <2>2. SUFFICES ASSUME NEW i \in DOMAIN h
                 PROVE  h[i] <= n
    BY DEF AtMost, h
  <2>3. CASE i <= Len(s)
    BY <1>1, <2>0, <2>1, <2>3 DEF AtMost
  <2>4. CASE i > Len(s)
    <3>1. i - Len(s) \in 1..Len(t) /\ i = Len(s) + (i - Len(s))
      BY <2>0, <2>1, <2>4
    <3>2. h[i] = t[i - Len(s)]
      BY <2>0, <3>1
    <3>3. QED
      BY <1>1, <2>1, <3>1, <3>2 DEF AtMost
  <2>5. QED
    BY <2>0, <2>1, <2>3, <2>4
<1>2. ASSUME AtMost(t, n), Before(s, t), Readable(t) # {}
      PROVE  AtMost(s, n)
  <2>1. PICK j \in DOMAIN t : t[j] # Garbage
    BY <1>2 DEF Readable
  <2>2. t[j] \in Nat /\ t[j] <= n
    BY <1>2 DEF AtMost
  <2>3. ASSUME NEW i \in DOMAIN s
        PROVE  s[i] <= n
    <3>1. s[i] \in Nat /\ (s[i] = 0 \/ s[i] < t[j])
      BY <1>2, <2>1 DEF Before, Garbage
    <3>2. QED
      BY <2>2, <3>1
  <2>4. QED
    BY <2>3 DEF AtMost
<1>3. QED
  BY <1>1, <1>2

LEMMA LinesRejoined ==
    ASSUME NEW d \in Seq(Nat), NEW r \in Seq(Nat), NEW l \in Seq(Nat), NEW n \in Nat
    PROVE  /\ (d \o r) \o l \o <<>> = d \o r \o l
           /\ d \o r \o Append(l, n) = Append(d \o r \o l, n)
  OBVIOUS

-----------------------------------------------------------------------------
(* What a step does to the journal. *)

LEMMA TornLine ==
    ASSUME WholeCharacters, TypeOK, TearLine
    PROVE  /\ pc = "append" /\ tears < MaxTears /\ tears' = tears + 1 /\ pc' = "idle"
           /\ live' = [lines |-> IF live.cut THEN live.lines ELSE Append(live.lines, Garbage),
                       cut |-> TRUE, mangled |-> live.mangled]
           /\ UNCHANGED <<rotated, dropped, hook, seq, acked, opens>>
  BY DEF WholeCharacters, TypeOK, File, TearLine, Fails

LEMMA AppendedLine ==
    ASSUME TypeOK, AppendLine
    PROVE  /\ pc = "append" /\ pc' = "sync"
           /\ live' = [lines |-> IF live.cut THEN live.lines ELSE Append(live.lines, seq),
                       cut |-> FALSE, mangled |-> live.mangled]
           /\ UNCHANGED <<rotated, dropped, tears, hook, seq, acked, opens>>
  BY DEF TypeOK, File, AppendLine, AppendAs, Extended

LEMMA JournalLines == TypeOK => Journal \in Seq(Nat)
  BY JoinedPair DEF TypeOK, File, Journal

(* A step leaves the journal as it is, or adds a line at its end; the      *)
(* rotation only moves lines from one file to the other.                   *)
LEMMA JournalStep ==
    ASSUME WholeCharacters, TypeOK, [Next]_vars
    PROVE  \/ Journal' = Journal
           \/ AppendLine /\ ~live.cut /\ Journal' = Append(Journal, seq)
           \/ TearLine /\ ~live.cut /\ Journal' = Append(Journal, Garbage)
<1> DEFINE d == dropped
           r == rotated.lines
           l == live.lines
<1>0. d \in Seq(Nat) /\ r \in Seq(Nat) /\ l \in Seq(Nat) /\ seq \in Nat /\ Garbage \in Nat
  BY DEF TypeOK, File, Garbage
<1>1. CASE Rotate
  <2>1. CASE Len(live.lines) >= RotateAt
    <3>1. dropped' = d \o r /\ rotated'.lines = l /\ live'.lines = <<>>
      BY <1>1, <2>1 DEF Rotate, NoFile
    <3>2. Journal' = (d \o r) \o l \o <<>>
      BY <3>1 DEF Journal
    <3>3. Journal = d \o r \o l
      BY DEF Journal
    <3> HIDE DEF d, r, l
    <3>4. QED
      BY <1>0, <3>2, <3>3, LinesRejoined
  <2>2. CASE ~(Len(live.lines) >= RotateAt)
    BY <1>1, <2>2 DEF Rotate, Journal
  <2>3. QED
    BY <2>1, <2>2
<1>2. CASE AppendLine
  <2>1. live'.lines = IF live.cut THEN l ELSE Append(l, seq)
    BY <1>2, AppendedLine
  <2>2. Journal' = d \o r \o live'.lines
    BY <1>2, AppendedLine DEF Journal
  <2>3. Journal = d \o r \o l
    BY DEF Journal
  <2> HIDE DEF d, r, l
  <2>4. CASE live.cut
    BY <2>1, <2>2, <2>3, <2>4
  <2>5. CASE ~live.cut
    <3>1. live'.lines = Append(l, seq)
      BY <2>1, <2>5
    <3>2. Journal' = d \o r \o Append(l, seq)
      BY <2>2, <3>1
    <3>3. Journal' = Append(Journal, seq)
      BY <1>0, <2>3, <3>2, LinesRejoined
    <3>4. QED
      BY <1>2, <2>5, <3>3
  <2>6. QED
    BY <2>4, <2>5
<1>3. CASE TearLine
  <2>1. live'.lines = IF live.cut THEN l ELSE Append(l, Garbage)
    BY <1>3, TornLine
  <2>2. Journal' = d \o r \o live'.lines
    BY <1>3, TornLine DEF Journal
  <2>3. Journal = d \o r \o l
    BY DEF Journal
  <2> HIDE DEF d, r, l
  <2>4. CASE live.cut
    BY <2>1, <2>2, <2>3, <2>4
  <2>5. CASE ~live.cut
    <3>1. live'.lines = Append(l, Garbage)
      BY <2>1, <2>5
    <3>2. Journal' = d \o r \o Append(l, Garbage)
      BY <2>2, <3>1
    <3>3. Journal' = Append(Journal, Garbage)
      BY <1>0, <2>3, <3>2, LinesRejoined
    <3>4. QED
      BY <1>3, <2>5, <3>3
  <2>6. QED
    BY <2>4, <2>5
<1>4. CASE UNCHANGED files
  BY <1>4 DEF files, Journal
<1>5. CASE Open \/ Number \/ RefuseRecord \/ HandOver
  <2>1. UNCHANGED files
    BY <1>5 DEF Open, Number, RefuseRecord, HandOver
  <2>2. QED
    BY <1>4, <2>1
<1>6. CASE Spawn \/ Feed \/ Reap \/ Die \/ UNCHANGED vars
  <2>1. UNCHANGED files
    BY <1>6 DEF Spawn, Feed, Reap, Die, vars
  <2>2. QED
    BY <1>4, <2>1
<1>7. QED
  BY <1>1, <1>2, <1>3, <1>5, <1>6 DEF Next, Emit

-----------------------------------------------------------------------------
(* seq. *)

(* What a file's last readable line says bounds all of its lines.          *)
LEMMA LastSeqBounds ==
    ASSUME NEW f \in File, ~f.mangled, HasLast(f.lines), Increasing(f.lines)
    PROVE  /\ LastSeq(f) \in Nat
           /\ LastSeq(f) = 0 <=> Readable(f.lines) = {}
           /\ Readable(f.lines) # {} => \E i \in DOMAIN f.lines : f.lines[i] = LastSeq(f)
           /\ \A i \in DOMAIN f.lines : f.lines[i] <= LastSeq(f)
<1> DEFINE l == f.lines
<1>0. l \in Seq(Nat)
  BY DEF File
<1>1. CASE Readable(l) = {}
  BY <1>0, <1>1 DEF LastSeq, Readable, Garbage
<1>2. CASE Readable(l) # {}
  <2> DEFINE last == CHOOSE i \in Readable(l) : \A j \in Readable(l) : j <= i
  <2>1. last \in Readable(l) /\ \A j \in Readable(l) : j <= last
    BY <1>2 DEF HasLast, IsLast
  <2>2. LastSeq(f) = l[last]
    BY <1>2 DEF LastSeq
  <2> HIDE DEF last
  <2>3. last \in DOMAIN l /\ l[last] # 0
    BY <2>1 DEF Readable, Garbage
  <2>4. ASSUME NEW i \in DOMAIN l
        PROVE  l[i] <= l[last]
    <3>1. CASE l[i] = 0
      BY <1>0, <2>3, <3>1
    <3>2. CASE l[i] # 0
      <4>1. i <= last
        BY <2>1, <3>2 DEF Readable, Garbage
      <4>2. QED
        BY <1>0, <2>3, <3>2, <4>1 DEF Increasing, Garbage
    <3>3. QED
      BY <3>1, <3>2
  <2>5. QED
    BY <1>0, <1>2, <2>2, <2>3, <2>4
<1>3. QED
  BY <1>1, <1>2

(* The count taken up when the server starts is the journal's highest.     *)
LEMMA RecoveredBounds ==
    ASSUME TypeOK, SeqIncreasing, FilesInv
    PROVE  Recovered \in Nat /\ AtMost(Journal, Recovered)
<1> DEFINE d == dropped
           r == rotated.lines
           l == live.lines
<1>0. /\ d \in Seq(Nat) /\ r \in Seq(Nat) /\ l \in Seq(Nat) /\ d \o r \in Seq(Nat)
      /\ live \in File /\ rotated \in File
      /\ ~live.mangled /\ ~rotated.mangled /\ HasLast(l) /\ HasLast(r)
      /\ Readable(r) # {} \/ (r = <<>> /\ d = <<>>)
  BY JoinedPair DEF TypeOK, File, FilesInv
<1>1. Increasing(d \o r \o l)
  BY DEF SeqIncreasing, Journal
<1> HIDE DEF d, r, l
<1>2. Increasing(d \o r) /\ Increasing(l) /\ Before(d \o r, l)
  BY <1>0, <1>1, PartsInOrder
<1>3. Increasing(r) /\ Before(d, r)
  BY <1>0, <1>2, PartsInOrder
<1>4. /\ LastSeq(live) \in Nat /\ AtMost(l, LastSeq(live))
      /\ LastSeq(live) = 0 <=> Readable(l) = {}
      /\ LastSeq(rotated) \in Nat /\ AtMost(r, LastSeq(rotated))
  BY <1>0, <1>2, <1>3, LastSeqBounds DEF AtMost, l, r
<1>5. SUFFICES Recovered \in Nat /\ AtMost(d \o r, Recovered) /\ AtMost(l, Recovered)
  BY <1>0, BoundOfParts DEF Journal, d, r, l
<1>6. CASE Readable(l) # {}
  <2>1. Recovered = LastSeq(live)
    BY <1>4, <1>6 DEF Recovered
  <2>2. QED
    BY <1>0, <1>2, <1>4, <1>6, <2>1, BoundOfParts
<1>7. CASE Readable(l) = {}
  <2>1. Recovered = LastSeq(rotated)
    BY <1>4, <1>7 DEF Recovered
  <2>2. AtMost(l, LastSeq(rotated))
    BY <1>0, <1>4, <1>7 DEF AtMost, Readable, Garbage
  <2>3. AtMost(d, LastSeq(rotated))
    <3>1. CASE Readable(r) # {}
      BY <1>0, <1>3, <1>4, <3>1, BoundOfParts
    <3>2. CASE d = <<>>
      BY <3>2 DEF AtMost
    <3>3. QED
      BY <1>0, <3>1, <3>2
  <2>4. QED
    BY <1>0, <1>4, <2>1, <2>2, <2>3, BoundOfParts
<1>8. QED
  BY <1>6, <1>7

LEMMA TypeStep ==
    ASSUME WholeCharacters, IInv, [Next]_vars
    PROVE  TypeOK'
<1> USE DEF IInv
<1>0. /\ live.lines \in Seq(Nat) /\ live.cut \in BOOLEAN /\ live.mangled \in BOOLEAN
      /\ NoFile \in File /\ Len(NoFile.lines) = 0 /\ Garbage \in Nat /\ seq \in Nat
  BY DEF TypeOK, File, NoFile, Garbage
<1>1. CASE Open
  <2>1. Recovered \in Nat
    BY RecoveredBounds
  <2>2. QED
    <3>1. /\ pc' = "idle" /\ queue' = <<>> /\ stage' = "idle" /\ deaf' = FALSE
          /\ seq' \in Nat /\ UNCHANGED <<live, rotated, dropped, tears, acked>>
      BY <1>1, <2>1 DEF Open, files
    <3>2. queue' \in Seq(Nat)
      BY <1>1 DEF Open
    <3>3. opens' \in 0..MaxOpens
      BY <1>1, JournalAssumption DEF Open, TypeOK
    <3>4. QED
      BY <3>1, <3>2, <3>3 DEF TypeOK
<1>2. CASE Number
  BY <1>2 DEF Number, TypeOK, files, hook
<1>3. CASE Rotate
  <2>1. dropped \o rotated.lines \in Seq(Nat)
    BY JoinedPair DEF TypeOK, File
  <2>2. CASE Len(live.lines) >= RotateAt
    <3>1. live' = NoFile /\ rotated' = live /\ dropped' = dropped \o rotated.lines
      BY <1>3, <2>2 DEF Rotate
    <3>2. QED
      BY <1>0, <1>3, <2>1, <3>1, JournalAssumption DEF Rotate, TypeOK, hook
  <2>3. CASE ~(Len(live.lines) >= RotateAt)
    BY <1>3, <2>3 DEF Rotate, TypeOK, hook
  <2>4. QED
    BY <2>2, <2>3
<1>4. CASE AppendLine
  <2>1. pc = "append" /\ Len(live.lines) < RotateAt
    BY <1>4, AppendedLine DEF FilesInv
  <2>2. Append(live.lines, seq) \in Seq(Nat) /\ Len(Append(live.lines, seq)) = Len(live.lines) + 1
    BY <1>0, AppendedLines
  <2>3. live' \in File /\ Len(live'.lines) <= RotateAt
    <3> DEFINE lines == IF live.cut THEN live.lines ELSE Append(live.lines, seq)
    <3>1. live' = [lines |-> lines, cut |-> FALSE, mangled |-> live.mangled]
      BY <1>4, AppendedLine
    <3>2. lines \in Seq(Nat) /\ Len(lines) <= RotateAt
      BY <1>0, <2>1, <2>2, JournalAssumption
    <3> HIDE DEF lines
    <3>3. QED
      BY <1>0, <3>1, <3>2 DEF File
  <2>4. QED
    BY <1>4, <2>3, AppendedLine DEF TypeOK, hook
<1>5. CASE TearLine
  <2>1. pc = "append" /\ Len(live.lines) < RotateAt
    BY <1>5, TornLine DEF FilesInv
  <2>2. /\ Append(live.lines, Garbage) \in Seq(Nat)
        /\ Len(Append(live.lines, Garbage)) = Len(live.lines) + 1
    BY <1>0, AppendedLines
  <2>3. live' \in File /\ Len(live'.lines) <= RotateAt
    <3> DEFINE lines == IF live.cut THEN live.lines ELSE Append(live.lines, Garbage)
    <3>1. live' = [lines |-> lines, cut |-> TRUE, mangled |-> live.mangled]
      BY <1>5, TornLine
    <3>2. lines \in Seq(Nat) /\ Len(lines) <= RotateAt
      BY <1>0, <2>1, <2>2, JournalAssumption
    <3> HIDE DEF lines
    <3>3. QED
      BY <1>0, <3>1, <3>2 DEF File
  <2>4. QED
    BY <1>5, <2>3, TornLine, JournalAssumption DEF TypeOK, hook
<1>6. CASE RefuseRecord
  BY <1>6 DEF RefuseRecord, Fails, TypeOK, files, hook
<1>7. CASE HandOver
  BY <1>7 DEF HandOver, TypeOK, files
<1>8. CASE Spawn
  <2>1. Tail(queue) \in Seq(Nat)
    BY <1>8, HeadTailProperties DEF Spawn, TypeOK
  <2>2. QED
    BY <1>8, <2>1 DEF Spawn, TypeOK, files
<1>9. CASE Feed \/ Reap \/ Die \/ UNCHANGED vars
  BY <1>9 DEF Feed, Reap, Die, vars, TypeOK, files, hook
<1>10. QED
  BY <1>1, <1>2, <1>3, <1>4, <1>5, <1>6, <1>7, <1>8, <1>9 DEF Next, Emit

-----------------------------------------------------------------------------
(* The invariant, conjunct by conjunct. *)

LEMMA OrderStep ==
    ASSUME WholeCharacters, IInv, [Next]_vars
    PROVE  SeqIncreasing'
<1>0. /\ Journal \in Seq(Nat) /\ seq \in Nat /\ Garbage \in Nat
      /\ TypeOK /\ Increasing(Journal)
  BY JournalLines DEF IInv, TypeOK, Garbage, SeqIncreasing
<1>1. CASE Journal' = Journal
  BY <1>0, <1>1 DEF SeqIncreasing, Increasing
<1>2. CASE AppendLine /\ Journal' = Append(Journal, seq)
  <2>1. \A i \in DOMAIN Journal : Journal[i] < seq
    BY <1>2, AppendedLine DEF IInv, SeqInv
  <2>2. Increasing(Append(Journal, seq))
    BY <1>0, <2>1, AppendKeepsOrder
  <2>3. QED
    BY <1>2, <2>2 DEF SeqIncreasing, Increasing
<1>3. CASE Journal' = Append(Journal, Garbage)
  <2>1. Increasing(Append(Journal, Garbage))
    BY <1>0, AppendKeepsOrder
  <2>2. QED
    BY <1>3, <2>1 DEF SeqIncreasing, Increasing
<1>4. QED
  BY <1>0, <1>1, <1>2, <1>3, JournalStep

LEMMA SeqStep ==
    ASSUME WholeCharacters, IInv, [Next]_vars
    PROVE  SeqInv'
<1>0. /\ Journal \in Seq(Nat) /\ seq \in Nat /\ Garbage = 0 /\ TypeOK /\ SeqInv
      /\ \A i \in DOMAIN Journal : Journal[i] \in Nat
  BY JournalLines DEF IInv, TypeOK, Garbage
<1>1. CASE Open
  <2>1. Journal' = Journal /\ pc' = "idle" /\ seq' = Recovered
    BY <1>1 DEF Open, Journal, files
  <2>2. \A i \in DOMAIN Journal : Journal[i] <= Recovered
    BY RecoveredBounds DEF IInv, AtMost
  <2>3. QED
    BY <2>1, <2>2 DEF SeqInv
<1>2. CASE Number
  <2>1. Journal' = Journal /\ pc = "idle" /\ seq' = seq + 1
    BY <1>2 DEF Number, Journal, files
  <2>2. QED
    BY <1>0, <2>1 DEF SeqInv
<1>3. CASE Rotate
  <2>1. seq' = seq /\ pc = "rotate" /\ pc' = "append"
    BY <1>3 DEF Rotate
  <2>2. Journal' = Journal
    BY <1>0, <1>3, <2>1, JournalStep, AppendedLine, TornLine
  <2>3. QED
    BY <1>0, <2>1, <2>2 DEF SeqInv
<1>4. CASE AppendLine
  <2>1. seq' = seq /\ pc = "append" /\ pc' = "sync"
    BY <1>0, <1>4, AppendedLine
  <2>2. Journal' = Journal \/ Journal' = Append(Journal, seq)
    BY <1>0, <2>1, JournalStep, TornLine
  <2>3. \A i \in DOMAIN Journal' : Journal'[i] <= seq
    BY <1>0, <2>1, <2>2, AppendedLines DEF SeqInv
  <2>4. QED
    BY <1>0, <2>1, <2>3 DEF SeqInv
<1>5. CASE TearLine
  <2>1. seq' = seq /\ pc = "append" /\ pc' = "idle"
    BY <1>0, <1>5, TornLine
  <2>2. Journal' = Journal \/ Journal' = Append(Journal, Garbage)
    BY <1>0, <2>1, JournalStep, AppendedLine
  <2>3. \A i \in DOMAIN Journal' : Journal'[i] <= seq
    BY <1>0, <2>1, <2>2, AppendedLines DEF SeqInv
  <2>4. QED
    BY <1>0, <2>1, <2>3 DEF SeqInv
<1>6. CASE RefuseRecord
  <2>1. Journal' = Journal /\ pc' = "idle" /\ pc # "down" /\ seq' = seq
    BY <1>6 DEF RefuseRecord, Fails, Journal, files
  <2>2. QED
    BY <1>0, <2>1 DEF SeqInv
<1>7. CASE HandOver \/ Die
  <2>1. Journal' = Journal /\ pc' \in {"idle", "down"} /\ pc # "down" /\ seq' = seq
    BY <1>7 DEF HandOver, Die, Journal, files
  <2>2. QED
    BY <1>0, <2>1 DEF SeqInv
<1>8. CASE Spawn \/ Feed \/ Reap \/ UNCHANGED vars
  <2>1. Journal' = Journal /\ pc' = pc /\ seq' = seq
    BY <1>8 DEF Spawn, Feed, Reap, vars, Journal, files
  <2>2. QED
    BY <1>0, <2>1 DEF SeqInv
<1>9. QED
  BY <1>1, <1>2, <1>3, <1>4, <1>5, <1>6, <1>7, <1>8 DEF Next, Emit

(* A file that gets one more line keeps a last readable one, and only a    *)
(* torn line makes a file without one longer.                              *)
LEMMA LongerFile ==
    ASSUME NEW l \in Seq(Nat), NEW n \in Nat, NEW t \in Nat, NEW u \in Nat,
           HasLast(l), Readable(l) = {} => Len(l) <= t,
           t <= u, n = Garbage => t + 1 <= u
    PROVE  /\ HasLast(Append(l, n))
           /\ Readable(Append(l, n)) = {} => Len(Append(l, n)) <= u
           /\ Readable(l) = {} => Len(l) <= u
<1>1. HasLast(Append(l, n))
  BY AppendKeepsLast
<1>2. Readable(Append(l, n)) = {} => n = Garbage /\ Readable(l) = {}
  BY AppendedLines DEF Readable
<1>3. Len(Append(l, n)) = Len(l) + 1 /\ Len(l) \in Nat
  BY AppendedLines
<1>4. QED
  BY <1>1, <1>2, <1>3

LEMMA FilesStep ==
    ASSUME WholeCharacters, IInv, [Next]_vars
    PROVE  FilesInv'
<1>0. TypeOK /\ FilesInv /\ seq \in Nat /\ Garbage \in Nat /\ tears \in Nat
  BY JournalAssumption DEF IInv, TypeOK, Garbage
<1>1. CASE Rotate
  <2>1. CASE Len(live.lines) >= RotateAt
    <3>1. /\ live'.lines = <<>> /\ live'.mangled = FALSE /\ rotated' = live
          /\ tears' = tears /\ Len(live'.lines) = 0
      BY <1>1, <2>1 DEF Rotate, NoFile
    <3>2. Readable(live.lines) # {}
      <4>1. tears < RotateAt /\ Len(live.lines) \in Nat
        BY JournalAssumption, <1>0 DEF TypeOK, File
      <4>2. QED
        BY <1>0, <2>1, <4>1, JournalAssumption DEF FilesInv
    <3>3. Readable(live'.lines) = {}
      BY <3>1 DEF Readable
    <3>4. 0 < RotateAt
      BY JournalAssumption
    <3>5. QED
      BY <1>0, <3>1, <3>2, <3>3, <3>4 DEF FilesInv, HasLast
  <2>2. CASE ~(Len(live.lines) >= RotateAt)
    <3>1. UNCHANGED <<live, rotated, dropped, tears>> /\ Len(live.lines) < RotateAt
      BY <1>0, <1>1, <2>2, JournalAssumption DEF Rotate, TypeOK, File
    <3>2. QED
      BY <1>0, <3>1 DEF FilesInv
  <2>3. QED
    BY <2>1, <2>2
<1>2. CASE AppendLine
  <2>1. /\ pc' # "append" /\ live'.mangled = live.mangled
        /\ live'.lines = IF live.cut THEN live.lines ELSE Append(live.lines, seq)
        /\ UNCHANGED <<rotated, dropped, tears>>
    BY <1>0, <1>2, AppendedLine
  <2>2. seq # Garbage
    BY <1>0, <1>2, AppendedLine DEF IInv, SeqInv, Garbage
  <2>3. HasLast(live'.lines) /\ (Readable(live'.lines) = {} => Len(live'.lines) <= tears')
    BY <1>0, <2>1, <2>2, LongerFile DEF TypeOK, File, FilesInv
  <2>4. QED
    BY <1>0, <2>1, <2>3 DEF FilesInv
<1>3. CASE TearLine
  <2>1. /\ pc' # "append" /\ live'.mangled = live.mangled
        /\ live'.lines = IF live.cut THEN live.lines ELSE Append(live.lines, Garbage)
        /\ UNCHANGED <<rotated, dropped>> /\ tears' = tears + 1
    BY <1>0, <1>3, TornLine
  <2>2. HasLast(live'.lines) /\ (Readable(live'.lines) = {} => Len(live'.lines) <= tears')
    <3>1. /\ live.lines \in Seq(Nat) /\ HasLast(live.lines)
          /\ Readable(live.lines) = {} => Len(live.lines) <= tears
          /\ tears' \in Nat /\ tears + 1 <= tears' /\ tears <= tears'
      BY <1>0, <2>1 DEF TypeOK, File, FilesInv
    <3>2. QED
      BY <1>0, <2>1, <3>1, LongerFile
  <2>3. QED
    BY <1>0, <2>1, <2>2 DEF FilesInv
<1>4. CASE Open \/ Number \/ RefuseRecord \/ HandOver
  <2>1. UNCHANGED <<live, rotated, dropped, tears>> /\ pc' # "append"
    BY <1>4 DEF Open, Number, RefuseRecord, Fails, HandOver, files
  <2>2. QED
    BY <1>0, <2>1 DEF FilesInv
<1>5. CASE Spawn \/ Feed \/ Reap \/ Die \/ UNCHANGED vars
  <2>1. UNCHANGED <<live, rotated, dropped, tears>> /\ (pc' = pc \/ pc' = "down")
    BY <1>5 DEF Spawn, Feed, Reap, Die, vars, files
  <2>2. QED
    BY <1>0, <2>1 DEF FilesInv
<1>6. QED
  BY <1>1, <1>2, <1>3, <1>4, <1>5 DEF Next, Emit

LEMMA AckedStep ==
    ASSUME WholeCharacters, IInv, [Next]_vars
    PROVE  AckedInv'
<1>0. /\ TypeOK /\ AckedInv /\ Journal \in Seq(Nat) /\ acked \in Seq(Nat) /\ seq \in Nat
      /\ live.lines \in Seq(Nat) /\ live.cut \in BOOLEAN /\ live'.lines \in Seq(Nat)
      /\ dropped \o rotated.lines \in Seq(Nat) /\ Garbage \in Nat /\ tears \in Nat
  BY JournalLines, JoinedPair, TypeStep, JournalAssumption DEF IInv, TypeOK, File, Garbage
<1>1. CASE tears' # 0
  BY <1>1 DEF AckedInv
<1>2. CASE tears' = 0 /\ ~TearLine
  <2>1. tears = 0
    BY <1>0, <1>2 DEF Next, Emit, Open, Number, Rotate, AppendLine, AppendAs, RefuseRecord,
       HandOver, Spawn, Feed, Reap, Die, vars, files
  <2>2. /\ ~live.cut /\ ~rotated.cut
        /\ pc = "sync" => live.lines # <<>> /\ live.lines[Len(live.lines)] = seq
        /\ \A i \in DOMAIN acked :
              acked[i] # Garbage /\ \E j \in DOMAIN Journal : Journal[j] = acked[i]
    BY <1>0, <2>1 DEF AckedInv
  <2>3. \A j \in DOMAIN Journal : j \in DOMAIN Journal' /\ Journal'[j] = Journal[j]
    <3>1. Journal' = Journal \/ Journal' = Append(Journal, seq)
      BY <1>0, <1>2, JournalStep
    <3>2. \A j \in DOMAIN Journal :
             j \in DOMAIN Append(Journal, seq) /\ Append(Journal, seq)[j] = Journal[j]
      BY <1>0, AppendedLines
    <3>3. QED
      BY <3>1, <3>2
  <2>4. CASE Rotate
    <3>1. acked' = acked /\ pc' = "append" /\ ~live'.cut /\ ~rotated'.cut
      BY <2>2, <2>4 DEF Rotate, NoFile
    <3>2. QED
      BY <2>2, <2>3, <3>1 DEF AckedInv
  <2>5. CASE AppendLine
    <3>1. /\ acked' = acked /\ ~live'.cut /\ rotated' = rotated /\ seq' = seq
          /\ live'.lines = Append(live.lines, seq)
      BY <1>0, <2>2, <2>5, AppendedLine
    <3>2. live'.lines # <<>> /\ live'.lines[Len(live'.lines)] = seq'
      <4>1. /\ Len(Append(live.lines, seq)) = Len(live.lines) + 1 /\ Len(live.lines) \in Nat
            /\ Append(live.lines, seq)[Len(live.lines) + 1] = seq
        BY <1>0, AppendedLines
      <4>2. Append(live.lines, seq) # <<>>
        BY <1>0, AppendProperties
      <4>3. QED
        BY <3>1, <4>1, <4>2
    <3>3. QED
      BY <2>2, <2>3, <3>1, <3>2 DEF AckedInv
  <2>6. CASE HandOver
    <3>1. /\ acked' = Append(acked, seq) /\ pc = "sync" /\ pc' = "idle"
          /\ live' = live /\ rotated' = rotated /\ Journal' = Journal
      BY <2>6 DEF HandOver, files, Journal
    <3>2. seq # Garbage
      BY <1>0, <3>1 DEF IInv, SeqInv, Garbage
    <3>3. PICK j \in DOMAIN Journal : Journal[j] = seq
      <4> DEFINE h == dropped \o rotated.lines
                 l == live.lines
      <4>1. h \in Seq(Nat) /\ l \in Seq(Nat) /\ Len(l) \in 1..Len(l) /\ l[Len(l)] = seq
        BY <1>0, <2>2, <3>1
      <4>2. Journal = h \o l
        BY DEF Journal
      <4> HIDE DEF h, l
      <4>3. /\ DOMAIN Journal = 1..(Len(h) + Len(l))
            /\ \A i \in 1..Len(l) : Journal[Len(h) + i] = l[i]
        BY <4>1, <4>2, JoinedPair
      <4>4. Len(h) \in Nat /\ Len(l) \in Nat
        BY <4>1
      <4>5. Len(h) + Len(l) \in DOMAIN Journal /\ Journal[Len(h) + Len(l)] = seq
        BY <4>1, <4>3, <4>4
      <4>6. QED
        BY <4>5
    <3>4. ASSUME NEW i \in DOMAIN acked'
          PROVE  acked'[i] # Garbage /\ \E k \in DOMAIN Journal' : Journal'[k] = acked'[i]
      <4>1. CASE i \in DOMAIN acked
        <5>1. acked'[i] = acked[i]
          BY <1>0, <3>1, <4>1, AppendedLines
        <5>2. QED
          BY <2>2, <3>1, <4>1, <5>1
      <4>2. CASE i = Len(acked) + 1
        <5>1. acked'[i] = seq
          BY <1>0, <3>1, <4>2, AppendedLines
        <5>2. QED
          BY <3>1, <3>2, <3>3, <5>1
      <4>3. i \in DOMAIN acked \/ i = Len(acked) + 1
        BY <1>0, <3>1, AppendedLines
      <4>4. QED
        BY <4>1, <4>2, <4>3
    <3>5. QED
      BY <2>2, <3>1, <3>4 DEF AckedInv
  <2>7. CASE Open \/ Number \/ RefuseRecord
    <3>1. acked' = acked /\ live' = live /\ rotated' = rotated /\ pc' # "sync"
      BY <2>7 DEF Open, Number, RefuseRecord, Fails, files
    <3>2. QED
      BY <2>2, <2>3, <3>1 DEF AckedInv
  <2>8. CASE Spawn \/ Feed \/ Reap \/ Die \/ UNCHANGED vars
    <3>1. /\ acked' = acked /\ live' = live /\ rotated' = rotated /\ seq' = seq
          /\ pc' = pc \/ pc' = "down"
      BY <2>8 DEF Spawn, Feed, Reap, Die, vars, files
    <3>2. QED
      BY <2>2, <2>3, <3>1 DEF AckedInv
  <2>9. QED
    BY <1>2, <2>4, <2>5, <2>6, <2>7, <2>8 DEF Next, Emit
<1>3. CASE TearLine
  <2>1. tears' = tears + 1
    BY <1>0, <1>3, TornLine
  <2>2. QED
    BY <1>0, <1>1, <2>1
<1>4. QED
  BY <1>1, <1>2, <1>3

(* What was readable stays so: without a new record no more are lost.      *)
LEMMA LostShrinks ==
    ASSUME WholeCharacters, TypeOK, LostInv, [Next]_vars, acked' = acked
    PROVE  /\ IsFiniteSet(Lost') /\ Cardinality(Lost') <= Cardinality(Lost)
           /\ Cardinality(Lost') \in Nat /\ Cardinality(Lost) \in Nat
<1>1. Lost' \subseteq Lost
  <2>1. Journal \in Seq(Nat) /\ seq \in Nat /\ Garbage \in Nat
    BY JournalLines DEF TypeOK, Garbage
  <2>2. \A j \in DOMAIN Journal : j \in DOMAIN Journal' /\ Journal'[j] = Journal[j]
    <3>1. ASSUME NEW n \in Nat, Journal' = Append(Journal, n)
          PROVE  \A j \in DOMAIN Journal : j \in DOMAIN Journal' /\ Journal'[j] = Journal[j]
      BY <2>1, <3>1, AppendedLines
    <3>2. QED
      BY <2>1, <3>1, JournalStep
  <2>3. QED
    BY <2>2 DEF Lost
<1>2. IsFiniteSet(Lost)
  BY DEF LostInv
<1>3. QED
  BY <1>1, <1>2, FS_Subset, FS_CardinalityType

LEMMA LostStep ==
    ASSUME WholeCharacters, IInv, [Next]_vars
    PROVE  LostInv'
<1>0. /\ TypeOK /\ LostInv /\ Journal \in Seq(Nat) /\ acked \in Seq(Nat) /\ seq \in Nat
      /\ live.cut \in BOOLEAN /\ tears \in Nat
      /\ IsFiniteSet(Lost) /\ Cardinality(Lost) \in Nat
      /\ OnLine \in {0, 1} /\ OnRecord \in {0, 1}
      /\ Cardinality(Lost) + OnLine + OnRecord <= tears
  BY JournalLines, FS_CardinalityType, JournalAssumption
  DEF IInv, TypeOK, File, LostInv, OnLine, OnRecord
<1>1. CASE AppendLine
  <2>1. acked' = acked /\ pc = "append" /\ pc' = "sync" /\ live'.cut = FALSE
        /\ tears' = tears /\ seq' = seq
    BY <1>0, <1>1, AppendedLine
  <2>2. OnLine' = 0 /\ OnRecord = 0
    BY <2>1 DEF OnLine, OnRecord
  <2>3. OnRecord' <= OnLine
    <3>1. CASE live.cut
      BY <3>1 DEF OnRecord, OnLine
    <3>2. CASE ~live.cut
      <4>1. live'.lines = Append(live.lines, seq) /\ dropped' = dropped /\ rotated' = rotated
        BY <1>0, <1>1, <3>2, AppendedLine
      <4>2. Journal' = Append(Journal, seq)
        <5> DEFINE d == dropped
                   r == rotated.lines
                   l == live.lines
        <5>1. d \in Seq(Nat) /\ r \in Seq(Nat) /\ l \in Seq(Nat) /\ seq \in Nat
          BY <1>0 DEF TypeOK, File
        <5>2. Journal = d \o r \o l
          BY DEF Journal
        <5>3. Journal' = d \o r \o Append(l, seq)
          BY <4>1 DEF Journal
        <5> HIDE DEF d, r, l
        <5>4. d \o r \o Append(l, seq) = Append(d \o r \o l, seq)
          BY <5>1, LinesRejoined
        <5>5. QED
          BY <5>2, <5>3, <5>4
      <4>3. Len(Journal) + 1 \in DOMAIN Journal' /\ Journal'[Len(Journal) + 1] = seq
        BY <1>0, <4>2, AppendedLines
      <4>4. QED
        BY <2>1, <3>2, <4>3 DEF OnRecord, OnLine
    <3>3. QED
      BY <1>0, <3>1, <3>2
  <2>4. OnRecord' \in {0, 1}
    BY DEF OnRecord
  <2>5. QED
    BY <1>0, <2>1, <2>2, <2>3, <2>4, LostShrinks DEF LostInv
<1>2. CASE TearLine
  <2>1. acked' = acked /\ pc' = "idle" /\ pc = "append" /\ live'.cut = TRUE /\ tears' = tears + 1
    BY <1>0, <1>2, TornLine
  <2>2. OnLine' = 1 /\ OnRecord' = 0
    BY <2>1 DEF OnLine, OnRecord
  <2>3. QED
    BY <1>0, <2>1, <2>2, LostShrinks DEF LostInv
<1>3. CASE HandOver
  <2>1. /\ acked' = Append(acked, seq) /\ pc = "sync" /\ pc' = "idle"
        /\ live' = live /\ Journal' = Journal /\ tears' = tears
    BY <1>3 DEF HandOver, files, Journal
  <2>2. OnLine' = OnLine /\ OnRecord' = 0
    BY <2>1 DEF OnLine, OnRecord
  <2>3. /\ DOMAIN acked' = DOMAIN acked \cup {Len(acked) + 1}
        /\ \A i \in DOMAIN acked : acked'[i] = acked[i]
        /\ acked'[Len(acked) + 1] = seq
        /\ Len(acked) + 1 \notin DOMAIN acked
    BY <1>0, <2>1, AppendedLines
  <2>4. CASE OnRecord = 1
    <3>1. Lost' \subseteq Lost \cup {Len(acked) + 1}
      BY <2>1, <2>3 DEF Lost
    <3>2. /\ IsFiniteSet(Lost \cup {Len(acked) + 1})
          /\ Cardinality(Lost \cup {Len(acked) + 1}) <= Cardinality(Lost) + 1
          /\ Cardinality(Lost \cup {Len(acked) + 1}) \in Nat
      <4>1. /\ IsFiniteSet(Lost \cup {Len(acked) + 1})
            /\ Cardinality(Lost \cup {Len(acked) + 1}) =
                 IF Len(acked) + 1 \in Lost THEN Cardinality(Lost) ELSE Cardinality(Lost) + 1
        BY <1>0, FS_AddElement
      <4>2. QED
        BY <1>0, <4>1
    <3>3. /\ IsFiniteSet(Lost') /\ Cardinality(Lost') \in Nat
          /\ Cardinality(Lost') <= Cardinality(Lost \cup {Len(acked) + 1})
      BY <3>1, <3>2, FS_Subset, FS_CardinalityType
    <3>4. QED
      BY <1>0, <2>1, <2>2, <2>4, <3>2, <3>3 DEF LostInv
  <2>5. CASE OnRecord = 0
    <3>1. \E j \in DOMAIN Journal : Journal[j] = seq
      BY <2>1, <2>5 DEF OnRecord
    <3>2. Lost' \subseteq Lost
      BY <2>1, <2>3, <3>1 DEF Lost
    <3>3. /\ IsFiniteSet(Lost') /\ Cardinality(Lost') \in Nat
          /\ Cardinality(Lost') <= Cardinality(Lost)
      BY <1>0, <3>2, FS_Subset, FS_CardinalityType
    <3>4. QED
      BY <1>0, <2>1, <2>2, <2>5, <3>3 DEF LostInv
  <2>6. QED
    BY <1>0, <2>4, <2>5
<1>4. CASE Rotate
  <2>1. acked' = acked /\ pc' = "append" /\ tears' = tears /\ (live' = live \/ live'.cut = FALSE)
    BY <1>4 DEF Rotate, NoFile
  <2>2. OnRecord' = 0 /\ OnLine' <= OnLine /\ OnLine' \in {0, 1}
    BY <1>0, <2>1 DEF OnRecord, OnLine
  <2>3. QED
    BY <1>0, <2>1, <2>2, LostShrinks DEF LostInv
<1>5. CASE Open \/ Number \/ RefuseRecord \/ Die
  <2>1. acked' = acked /\ pc' # "sync" /\ tears' = tears /\ live' = live
    BY <1>5 DEF Open, Number, RefuseRecord, Fails, Die, files
  <2>2. OnRecord' = 0 /\ OnLine' = OnLine
    BY <2>1 DEF OnRecord, OnLine
  <2>3. QED
    BY <1>0, <2>1, <2>2, LostShrinks DEF LostInv
<1>6. CASE Spawn \/ Feed \/ Reap \/ UNCHANGED vars
  <2>1. UNCHANGED <<acked, pc, tears, live, rotated, dropped, seq>>
    BY <1>6 DEF Spawn, Feed, Reap, vars, files
  <2>2. OnRecord' = OnRecord /\ OnLine' = OnLine
    BY <2>1 DEF OnRecord, OnLine, Journal
  <2>3. QED
    BY <1>0, <2>1, <2>2, LostShrinks DEF LostInv
<1>7. QED
  BY <1>1, <1>2, <1>3, <1>4, <1>5, <1>6 DEF Next, Emit

LEMMA InitInv == Init => IInv
<1> SUFFICES ASSUME Init
             PROVE  IInv
  OBVIOUS
<1>1. /\ live = NoFile /\ rotated = NoFile /\ dropped = <<>> /\ tears = 0 /\ acked = <<>>
      /\ NoFile \in File /\ NoFile.lines = <<>> /\ ~NoFile.cut /\ ~NoFile.mangled
      /\ pc = "down"
  BY DEF Init, NoFile, File
<1>2. TypeOK
  <2>1. queue \in Seq(Nat) /\ acked \in Seq(Nat) /\ dropped \in Seq(Nat)
    BY DEF Init
  <2>2. Len(live.lines) <= RotateAt
    BY <1>1, JournalAssumption
  <2>3. tears \in 0..MaxTears /\ opens \in 0..MaxOpens
    BY JournalAssumption DEF Init
  <2>4. QED
    BY <1>1, <2>1, <2>2, <2>3 DEF Init, TypeOK
<1>3. Journal = <<>>
  BY <1>1 DEF Journal
<1>4. SeqIncreasing
  BY <1>3 DEF SeqIncreasing, Increasing
<1>5. FilesInv
  <2>1. Readable(<<>>) = {} /\ Len(<<>>) = 0
    BY DEF Readable
  <2>2. QED
    BY <1>1, <2>1 DEF FilesInv, HasLast
<1>6. SeqInv /\ AckedInv
  BY <1>1 DEF SeqInv, AckedInv
<1>7. LostInv
  <2>1. Lost = {}
    BY <1>1 DEF Lost
  <2>2. OnLine = 0 /\ OnRecord = 0
    BY <1>1 DEF OnLine, OnRecord
  <2>3. QED
    BY <1>1, <2>1, <2>2, FS_EmptySet DEF LostInv
<1>8. QED
  BY <1>2, <1>4, <1>5, <1>6, <1>7 DEF IInv

(* The parts of the invariant hold together, at any time.                  *)
THEOREM JournalInductive ==
    ASSUME WholeCharacters
    PROVE  Spec => []IInv
<1>1. IInv /\ [Next]_vars => IInv'
  BY TypeStep, OrderStep, FilesStep, SeqStep, AckedStep, LostStep DEF IInv
<1>2. QED
  BY InitInv, <1>1, PTL DEF Spec

-----------------------------------------------------------------------------
(* Every variable of the journal has its type, and no file outgrows        *)
(* ROTATE_BYTES by more than the record that fills it (events.rs).         *)
THEOREM JournalTypeCorrect ==
    ASSUME WholeCharacters
    PROVE  Spec => []TypeOK
<1>1. IInv => TypeOK
  BY DEF IInv
<1>2. QED
  BY JournalInductive, <1>1, PTL

(* The records of both files and of all that rotation has replaced are     *)
(* strictly increasing in seq, whatever was refused, torn or cut short by  *)
(* a crash, and through every restart: EventSink::open always finds the    *)
(* highest number that was written.                                        *)
THEOREM SeqNeverRestarts ==
    ASSUME WholeCharacters
    PROVE  Spec => []SeqIncreasing
<1>1. IInv => SeqIncreasing
  BY DEF IInv
<1>2. QED
  BY JournalInductive, <1>1, PTL

(* Unless an append was torn, an acknowledged record that is in neither    *)
(* file any more is older than all that are: rotation is all that can lose *)
(* one, and takes the oldest.                                              *)
THEOREM GapsAreVisible ==
    ASSUME WholeCharacters
    PROVE  Spec => []GapVisible
<1>1. ASSUME IInv
      PROVE  GapVisible
  <2> DEFINE kept == rotated.lines \o live.lines
  <2>1. /\ dropped \in Seq(Nat) /\ rotated.lines \in Seq(Nat) /\ live.lines \in Seq(Nat)
        /\ kept \in Seq(Nat) /\ Journal \in Seq(Nat)
    BY <1>1, JoinedPair, JournalLines DEF IInv, TypeOK, File
  <2>2. Journal = dropped \o kept
    <3>1. \A d, r, l \in Seq(Nat) : (d \o r) \o l = d \o (r \o l)
      BY ConcatAssociative
    <3>2. QED
      BY <2>1, <3>1 DEF Journal
  <2> HIDE DEF kept
  <2>3. Before(dropped, kept)
    BY <1>1, <2>1, <2>2, PartsInOrder DEF IInv, SeqIncreasing
  <2>4. /\ DOMAIN Journal = 1..(Len(dropped) + Len(kept))
        /\ \A i \in 1..Len(dropped) : Journal[i] = dropped[i]
        /\ \A i \in 1..Len(kept) : Journal[Len(dropped) + i] = kept[i]
        /\ DOMAIN dropped = 1..Len(dropped) /\ DOMAIN kept = 1..Len(kept)
        /\ Len(dropped) \in Nat /\ Len(kept) \in Nat
    BY <2>1, <2>2, JoinedPair
  <2>5. ASSUME tears = 0, NEW i \in DOMAIN acked
        PROVE  \/ \E j \in DOMAIN kept : kept[j] = acked[i]
               \/ \A j \in DOMAIN kept : kept[j] # Garbage => acked[i] < kept[j]
    <3>1. acked[i] # Garbage
      BY <1>1, <2>5 DEF IInv, AckedInv
    <3>2. PICK k \in DOMAIN Journal : Journal[k] = acked[i]
      BY <1>1, <2>5 DEF IInv, AckedInv
    <3>3. CASE k <= Len(dropped)
      <4>1. k \in DOMAIN dropped /\ dropped[k] = acked[i]
        BY <2>4, <3>2, <3>3
      <4>2. QED
        BY <2>3, <3>1, <4>1 DEF Before
    <3>4. CASE k > Len(dropped)
      <4>1. k - Len(dropped) \in DOMAIN kept /\ k = Len(dropped) + (k - Len(dropped))
        BY <2>4, <3>4
      <4>2. kept[k - Len(dropped)] = acked[i]
        BY <2>4, <3>2, <4>1
      <4>3. QED
        BY <4>1, <4>2
    <3>5. QED
      BY <2>4, <3>3, <3>4
  <2>6. QED
    BY <2>5 DEF GapVisible, kept
<1>2. QED
  BY JournalInductive, <1>1, PTL

(* A torn append loses one acknowledged record besides its own, and nothing*)
(* else loses any: not a rotation, a refusal, a crash or a restart.        *)
THEOREM TearsLoseOne ==
    ASSUME WholeCharacters
    PROVE  Spec => []OneLostPerTear
<1>1. ASSUME IInv
      PROVE  OneLostPerTear
  <2>1. /\ Cardinality(Lost) \in Nat /\ OnLine \in {0, 1} /\ OnRecord \in {0, 1} /\ tears \in Nat
        /\ Cardinality(Lost) + OnLine + OnRecord <= tears
    BY <1>1, FS_CardinalityType, JournalAssumption
    DEF IInv, TypeOK, LostInv, OnLine, OnRecord
  <2>2. QED
    BY <2>1 DEF OneLostPerTear
<1>2. QED
  BY JournalInductive, <1>1, PTL
=============================================================================
