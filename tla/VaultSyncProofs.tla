------------------------------ MODULE VaultSyncProofs ------------------------------
(***************************************************************************)
(* What the write guard and the flock give a vault that is a git           *)
(* repository, for any number of notes, syncers, writes and restarts: no   *)
(* conflict markers reach a note and no outside edit is lost by a sync;    *)
(* and, when neither git nor the server fails and tools and editors keep   *)
(* to notes of their own, whatever is not committed is an outside edit and *)
(* every commit holds what its author wrote.  While syncs do not overlap,  *)
(* a success that is reported is one and every change is announced.        *)
(*                                                                         *)
(* A server that is killed in the middle of a rebase leaves the markers    *)
(* where they are: the first part assumes that it is not.                  *)
(***************************************************************************)
EXTENDS VaultSync, SequenceTheorems, NaturalsInduction, WellFoundedInduction, TLAPS

NoRebaseIsKilled == "kill_rebase" \notin Faults
CommitsSucceed == {"commit", "kill", "kill_rebase"} \cap Faults = {} /\ ToolPath \cap EditPath = {}

AnyCommit == [by : Author, change : UNION {[D -> Body] : D \in SUBSET Path}]
Locked == {"rebase", "pick", "abort"}

(* The write guard tells who may be in the middle of what.                 *)
LockInv ==
    /\ guard \in {"free", "tool"} \cup Syncer
    /\ \A s \in Syncer : pc[s] \in Locked <=> guard = s
    /\ guard = "tool" <=> call.step # "idle"
    /\ Detached <=> guard \in Syncer /\ pc[guard] \in {"pick", "abort"}

TypeInv ==
    /\ remote \in Seq(AnyCommit) /\ local \in Seq(AnyCommit)
    /\ tracking \in 0..Len(remote) /\ base \in 0..Len(remote) /\ onto \in 0..tracking
    /\ work \in [Path -> Body]
    /\ call \in [step : {"idle", "emit", "commit"}, path : Path, body : Body]
    /\ pc \in [Syncer -> Step]
    /\ drawn \in [Author -> Nat]

Marked(h) == \E i \in DOMAIN h : \E p \in DOMAIN h[i].change : h[i].change[p] = Markers

(* A sync that holds the guard has committed all there was; only its       *)
(* rebase that did not apply has left the notes in another state.          *)
CleanInv ==
    /\ ~Marked(remote) /\ ~Marked(local)
    /\ guard \in Syncer /\ pc[guard] \in {"rebase", "pick"} => Dirty = {}
    /\ guard \in Syncer /\ pc[guard] = "abort" => \A p \in Dirty : work[p] = Markers
    /\ guard \notin Syncer => \A p \in Path : work[p] # Markers

IInv == TypeInv /\ LockInv /\ CleanInv

-----------------------------------------------------------------------------
(* Histories and what they check out to. *)

LEMMA LastExists ==
    ASSUME NEW n \in Nat, NEW S \in SUBSET (1..n), S # {}
    PROVE  \E i \in S : \A j \in S : i >= j
<1> DEFINE T == {n - i : i \in S}
<1>1. T \subseteq Nat /\ T # {}
  <2>1. \A i \in S : n - i \in Nat
    OBVIOUS
  <2>2. QED
    BY <2>1
<1>2. \E x \in T : \A y \in T : ~ (y < x)
  <2> DEFINE R == OpToRel(<, Nat)
  <2>1. IsWellFoundedOn(R, Nat)
    BY NatLessThanWellFounded
  <2> HIDE DEF R, T
  <2>2. PICK x \in T : \A y \in T : <<y, x>> \notin R
    BY <1>1, <2>1, WFMin
  <2>3. ASSUME NEW y \in T
        PROVE  ~ (y < x)
    BY <1>1, <2>2 DEF OpToRel, R
  <2>4. QED
    BY <2>3
<1>3. PICK i \in S : \A y \in T : ~ (y < n - i)
  BY <1>2
<1>4. ASSUME NEW j \in S
      PROVE  i >= j
  <2>1. n - j \in T
    OBVIOUS
  <2>2. ~ (n - j < n - i)
    BY <1>3, <2>1
  <2>3. QED
    BY <2>2
<1>5. QED
  BY <1>4

LEMMA LastTouching ==
    ASSUME NEW h \in Seq(AnyCommit), NEW p, Touching(h, p) # {}
    PROVE  /\ Max(Touching(h, p)) \in Touching(h, p)
           /\ \A j \in Touching(h, p) : Max(Touching(h, p)) >= j
<1>1. Len(h) \in Nat /\ Touching(h, p) \in SUBSET (1..Len(h))
  BY LenProperties DEF Touching
<1>2. \E i \in Touching(h, p) : \A j \in Touching(h, p) : i >= j
  BY <1>1, LastExists
<1>3. QED
  BY <1>2 DEF Max

(* A note is as it was at first or as a commit wrote it.                   *)
LEMMA CheckedOutBody ==
    ASSUME NEW h \in Seq(AnyCommit), NEW p \in Path
    PROVE  \/ Checkout(h)[p] = Original
           \/ \E i \in DOMAIN h : p \in DOMAIN h[i].change /\ Checkout(h)[p] = h[i].change[p]
  BY LastTouching DEF Checkout, Touching

LEMMA Committed ==
    ASSUME NEW h \in Seq(AnyCommit), NEW c \in AnyCommit
    PROVE  /\ Append(h, c) \in Seq(AnyCommit) /\ Len(Append(h, c)) = Len(h) + 1
           /\ Len(h) \in Nat /\ DOMAIN h = 1..Len(h)
           /\ DOMAIN Append(h, c) = 1..(Len(h) + 1)
           /\ \A i \in DOMAIN h : Append(h, c)[i] = h[i]
           /\ Append(h, c)[Len(h) + 1] = c
  BY AppendProperties, LenProperties

LEMMA Followed ==
    ASSUME NEW g \in Seq(AnyCommit), NEW h \in Seq(AnyCommit)
    PROVE  /\ g \o h \in Seq(AnyCommit) /\ Len(g \o h) = Len(g) + Len(h)
           /\ Len(g) \in Nat /\ Len(h) \in Nat
           /\ DOMAIN g = 1..Len(g) /\ DOMAIN h = 1..Len(h)
           /\ DOMAIN (g \o h) = 1..(Len(g) + Len(h))
           /\ \A i \in DOMAIN g : (g \o h)[i] = g[i]
           /\ \A i \in DOMAIN h : (g \o h)[Len(g) + i] = h[i]
<1>1. /\ g \o h \in Seq(AnyCommit) /\ Len(g \o h) = Len(g) + Len(h)
      /\ \A i \in 1..Len(g) + Len(h) :
            (g \o h)[i] = IF i <= Len(g) THEN g[i] ELSE h[i - Len(g)]
  BY ConcatProperties
<1>2. /\ Len(g) \in Nat /\ Len(h) \in Nat
      /\ DOMAIN g = 1..Len(g) /\ DOMAIN h = 1..Len(h)
      /\ DOMAIN (g \o h) = 1..(Len(g) + Len(h))
  BY <1>1, LenProperties
<1>3. QED
  BY <1>1, <1>2

(* The commit that is added last decides on the notes it touches.          *)
LEMMA CheckoutOfCommit ==
    ASSUME NEW h \in Seq(AnyCommit), NEW c \in AnyCommit, NEW p \in Path
    PROVE  Checkout(Append(h, c))[p] =
             IF p \in DOMAIN c.change THEN c.change[p] ELSE Checkout(h)[p]
<1> DEFINE g == Append(h, c)
<1>0. /\ g \in Seq(AnyCommit) /\ Len(h) \in Nat /\ DOMAIN h = 1..Len(h)
      /\ DOMAIN g = 1..(Len(h) + 1)
      /\ \A i \in DOMAIN h : g[i] = h[i]
      /\ g[Len(h) + 1] = c
  BY Committed
<1> HIDE DEF g
<1>1. CASE p \in DOMAIN c.change
  <2>1. Len(h) + 1 \in Touching(g, p) /\ \A j \in Touching(g, p) : j <= Len(h) + 1
    BY <1>0, <1>1 DEF Touching
  <2>2. Max(Touching(g, p)) \in Touching(g, p) /\ Max(Touching(g, p)) >= Len(h) + 1
    BY <1>0, <2>1, LastTouching
  <2>3. Max(Touching(g, p)) = Len(h) + 1
    BY <1>0, <2>1, <2>2 DEF Touching
  <2>4. QED
    BY <1>0, <1>1, <2>1, <2>3 DEF Checkout, g
<1>2. CASE p \notin DOMAIN c.change
  <2>1. Touching(g, p) = Touching(h, p)
    BY <1>0, <1>2 DEF Touching
  <2>2. CASE Touching(h, p) = {}
    BY <1>2, <2>1, <2>2 DEF Checkout, g
  <2>3. CASE Touching(h, p) # {}
    <3>1. Max(Touching(h, p)) \in DOMAIN h
      BY <2>3, LastTouching DEF Touching
    <3>2. g[Max(Touching(h, p))] = h[Max(Touching(h, p))]
      BY <1>0, <3>1
    <3>3. QED
      BY <1>2, <2>1, <2>3, <3>2 DEF Checkout, g
  <2>4. QED
    BY <2>2, <2>3
<1>3. QED
  BY <1>1, <1>2

(* Commits that do not touch a note leave it as it was.                    *)
LEMMA CheckoutOfMore ==
    ASSUME NEW h \in Seq(AnyCommit), NEW m \in Seq(AnyCommit), NEW p \in Path,
           p \notin Touched(m)
    PROVE  Checkout(h \o m)[p] = Checkout(h)[p]
<1> DEFINE g == h \o m
<1>0. /\ g \in Seq(AnyCommit) /\ Len(h) \in Nat /\ Len(m) \in Nat
      /\ DOMAIN h = 1..Len(h) /\ DOMAIN m = 1..Len(m)
      /\ DOMAIN g = 1..(Len(h) + Len(m))
      /\ \A i \in DOMAIN h : g[i] = h[i]
      /\ \A i \in DOMAIN m : g[Len(h) + i] = m[i]
  BY Followed
<1> HIDE DEF g
<1>1. Touching(g, p) = Touching(h, p)
  <2>1. ASSUME NEW i \in DOMAIN g, i \notin DOMAIN h
        PROVE  p \notin DOMAIN g[i].change
    <3>1. i - Len(h) \in DOMAIN m /\ i = Len(h) + (i - Len(h))
      BY <1>0, <2>1
    <3>2. g[i] = m[i - Len(h)]
      BY <1>0, <3>1
    <3>3. QED
      BY <3>1, <3>2 DEF Touched
  <2>2. \A i \in DOMAIN h : i \in DOMAIN g /\ g[i] = h[i]
    BY <1>0
  <2>3. QED
    BY <2>1, <2>2 DEF Touching
<1>2. CASE Touching(h, p) = {}
  BY <1>1, <1>2 DEF Checkout, g
<1>3. CASE Touching(h, p) # {}
  <2>1. Max(Touching(h, p)) \in DOMAIN h
    BY <1>3, LastTouching DEF Touching
  <2>2. g[Max(Touching(h, p))] = h[Max(Touching(h, p))]
    BY <1>0, <2>1
  <2>3. QED
    BY <1>1, <1>3, <2>2 DEF Checkout, g
<1>4. QED
  BY <1>2, <1>3

LEMMA Prefix ==
    ASSUME NEW h \in Seq(AnyCommit), NEW n \in 0..Len(h)
    PROVE  /\ SubSeq(h, 1, n) \in Seq(AnyCommit) /\ Len(SubSeq(h, 1, n)) = n
           /\ \A i \in 1..n : i \in DOMAIN h /\ SubSeq(h, 1, n)[i] = h[i]
<1>1. Len(h) \in Nat /\ DOMAIN h = 1..Len(h) /\ \A i \in 1..n : h[i] \in AnyCommit
  BY LenProperties, ElementOfSeq
<1>2. 1 \in Int /\ n \in Int
  BY <1>1
<1>3. QED
  BY <1>1, <1>2, SubSeqProperties

(* What a clone pushes comes after what HEAD has of the upstream.          *)
LEMMA PrefixOfMore ==
    ASSUME NEW h \in Seq(AnyCommit), NEW c \in AnyCommit, NEW n \in 0..Len(h)
    PROVE  SubSeq(Append(h, c), 1, n) = SubSeq(h, 1, n)
<1> DEFINE g == Append(h, c)
<1>1. /\ g \in Seq(AnyCommit) /\ n \in 0..Len(g) /\ DOMAIN h = 1..Len(h)
      /\ \A i \in DOMAIN h : g[i] = h[i]
  BY Committed
<1> HIDE DEF g
<1>2. /\ SubSeq(g, 1, n) \in Seq(AnyCommit) /\ Len(SubSeq(g, 1, n)) = n
      /\ \A i \in 1..n : SubSeq(g, 1, n)[i] = g[i]
  BY <1>1, Prefix
<1>3. /\ SubSeq(h, 1, n) \in Seq(AnyCommit) /\ Len(SubSeq(h, 1, n)) = n
      /\ \A i \in 1..n : i \in DOMAIN h /\ SubSeq(h, 1, n)[i] = h[i]
  BY Prefix
<1>4. QED
  BY <1>1, <1>2, <1>3, SeqEqual DEF g

LEMMA MarkedParts ==
    ASSUME NEW g \in Seq(AnyCommit), NEW h \in Seq(AnyCommit), NEW n \in 0..Len(g)
    PROVE  /\ Marked(g \o h) => Marked(g) \/ Marked(h)
           /\ Marked(SubSeq(g, 1, n)) => Marked(g)
<1>1. ASSUME Marked(g \o h), ~Marked(g)
      PROVE  Marked(h)
  <2>1. PICK i \in DOMAIN (g \o h) : \E p \in DOMAIN (g \o h)[i].change : (g \o h)[i].change[p] = Markers
    BY <1>1 DEF Marked
  <2>2. i \notin DOMAIN g
    BY <1>1, <2>1, Followed DEF Marked
  <2>3. i - Len(g) \in DOMAIN h /\ i = Len(g) + (i - Len(g))
    BY <2>1, <2>2, Followed
  <2>4. (g \o h)[i] = h[i - Len(g)]
    BY <2>3, Followed
  <2>5. QED
    BY <2>1, <2>3, <2>4 DEF Marked
<1>2. ASSUME Marked(SubSeq(g, 1, n))
      PROVE  Marked(g)
  <2>1. DOMAIN SubSeq(g, 1, n) = 1..n
    BY Prefix, LenProperties
  <2>2. QED
    BY <1>2, <2>1, Prefix DEF Marked
<1>3. QED
  BY <1>1, <1>2

LEMMA MarkedAppend ==
    ASSUME NEW g \in Seq(AnyCommit), NEW c \in AnyCommit, Marked(Append(g, c)), ~Marked(g)
    PROVE  \E p \in DOMAIN c.change : c.change[p] = Markers
<1>1. PICK i \in DOMAIN Append(g, c) :
          \E p \in DOMAIN Append(g, c)[i].change : Append(g, c)[i].change[p] = Markers
  BY DEF Marked
<1>2. i \notin DOMAIN g
  BY <1>1, Committed DEF Marked
<1>3. i = Len(g) + 1
  BY <1>1, <1>2, Committed
<1>4. QED
  BY <1>1, <1>3, Committed

LEMMA CommitsOf ==
    ASSUME TypeInv
    PROVE  /\ SubSeq(remote, 1, base) \in Seq(AnyCommit)
           /\ Commits \in Seq(AnyCommit)
           /\ base \in 0..Len(remote) /\ tracking \in 0..Len(remote) /\ onto \in 0..Len(remote)
           /\ Len(remote) \in Nat /\ Len(local) \in Nat
<1>1. /\ remote \in Seq(AnyCommit) /\ local \in Seq(AnyCommit)
      /\ Len(remote) \in Nat /\ Len(local) \in Nat
      /\ base \in 0..Len(remote) /\ tracking \in 0..Len(remote) /\ onto \in 0..Len(remote)
  BY LenProperties DEF TypeInv
<1>2. SubSeq(remote, 1, base) \in Seq(AnyCommit)
  BY <1>1, Prefix
<1>3. QED
  BY <1>1, <1>2, Followed DEF Commits

-----------------------------------------------------------------------------
(* The kinds of steps: what moves only the tasks' own affairs, a push that *)
(* the server takes, and the steps that change notes, commits or locks.            *)
Moves ==
    /\ pc' \in [Syncer -> Step]
    /\ \A s \in Syncer : pc'[s] = pc[s] \/ (pc[s] \notin Locked /\ pc'[s] \notin Locked)

Bookkeeping ==
    /\ Moves /\ tracking' \in tracking..Len(remote)
    /\ UNCHANGED <<remote, base, local, work, onto, guard, call, drawn>>

Pushes == Moves /\ PushAccepted /\ (Pushed \/ PushLost) /\ UNCHANGED <<guard, call, drawn>>

SyncChanges(s) ==
    \/ Checkpoint(s) \/ Pull(s) \/ Rebase(s)
    \/ RebaseApplies(s) \/ RebaseConflicts(s) \/ Abort(s)

LEMMA OneMoves ==
    ASSUME TypeInv, NEW s \in Syncer, NEW step \in Step \ Locked, pc[s] \notin Locked,
           pc' = [pc EXCEPT ![s] = step]
    PROVE  Moves
  BY DEF TypeInv, Moves

LEMMA StepKinds ==
    ASSUME TypeInv, [Next]_vars
    PROVE  \/ Bookkeeping \/ Pushes
           \/ \E p \in ToolPath : CallTool(p)
           \/ EmitEvent \/ AutoCommit
           \/ \E s \in Syncer : SyncChanges(s)
           \/ \E p \in EditPath : ExternalEdit(p)
           \/ \E p \in RemotePath : OtherPushes(p)
           \/ Restart
<1>0. tracking \in tracking..Len(remote) /\ Len(remote) \in tracking..Len(remote)
  BY CommitsOf
<1>1. ASSUME NEW s \in Syncer,
             Tick(s) \/ OldTip(s) \/ Fetch(s) \/ NewTip(s) \/ Publish(s) \/ CountAhead(s) \/ Report(s)
      PROVE  Bookkeeping
  <2>1. CASE Tick(s)
    BY <1>0, <2>1, OneMoves DEF Tick, Goto, Bookkeeping, git, Step, Locked
  <2>2. CASE OldTip(s)
    BY <1>0, <2>2, OneMoves DEF OldTip, Ends, Goto, Bookkeeping, git, Step, Locked
  <2>3. CASE Fetch(s)
    BY <1>0, <2>3, OneMoves DEF Fetch, Ends, Goto, Bookkeeping, git, Step, Locked
  <2>4. CASE NewTip(s)
    BY <1>0, <2>4, OneMoves DEF NewTip, Goto, Bookkeeping, git, Step, Locked
  <2>5. CASE Publish(s)
    BY <1>0, <2>5, OneMoves DEF Publish, Ends, Goto, Bookkeeping, git, Step, Locked
  <2>6. CASE CountAhead(s)
    BY <1>0, <2>6, OneMoves DEF CountAhead, Ends, Goto, Bookkeeping, git, Step, Locked
  <2>7. CASE Report(s)
    BY <1>0, <2>7, OneMoves DEF Report, Goto, Bookkeeping, git, Step, Locked
  <2>8. QED
    BY <1>1, <2>1, <2>2, <2>3, <2>4, <2>5, <2>6, <2>7
<1>2. Pusher \in Syncer
  BY DEF Syncer
<1>3. ASSUME Wake \/ Settle \/ RetryDue \/ CountBacklog
      PROVE  Bookkeeping
  <2>1. CASE Wake
    BY <1>0, <1>2, <2>1, OneMoves DEF Wake, Goto, Bookkeeping, git, Step, Locked
  <2>2. CASE Settle /\ signal
    BY <1>0, <2>2 DEF Settle, Bookkeeping, Moves, git, TypeInv
  <2>3. CASE Settle /\ ~signal
    BY <1>0, <1>2, <2>3, OneMoves DEF Settle, Goto, Bookkeeping, git, Step, Locked
  <2>4. CASE RetryDue
    BY <1>0, <1>2, <2>4, OneMoves DEF RetryDue, Goto, Bookkeeping, git, Step, Locked
  <2>5. CASE CountBacklog
    BY <1>0, <1>2, <2>5, OneMoves DEF CountBacklog, Goto, Bookkeeping, git, Step, Locked
  <2>6. QED
    BY <1>3, <2>1, <2>2, <2>3, <2>4, <2>5
<1>4. ASSUME NEW s \in Syncer, Push(s)
      PROVE  Bookkeeping \/ Pushes
  <2>0. /\ UNCHANGED <<guard, call, drawn>>
        /\ \/ PushAccepted /\ Pushed
           \/ PushAccepted /\ PushLost
           \/ UNCHANGED git
    BY <1>4 DEF Push, PushFails, PushLost
  <2>1. Moves
    BY <1>4, OneMoves DEF Push, Ends, Goto, Step, Locked
  <2>2. CASE UNCHANGED git
    BY <1>0, <2>0, <2>1, <2>2 DEF git, Bookkeeping
  <2>3. QED
    BY <2>0, <2>1, <2>2 DEF Pushes
<1>5. ASSUME PushFirst
      PROVE  Bookkeeping \/ Pushes
  <2>0. /\ UNCHANGED <<guard, call, drawn>>
        /\ \/ PushAccepted /\ Pushed
           \/ PushAccepted /\ PushLost
           \/ UNCHANGED git
    BY <1>5 DEF PushFirst, PushFails, PushLost
  <2>1. Moves
    BY <1>2, <1>5, OneMoves DEF PushFirst, Goto, Step, Locked
  <2>2. CASE UNCHANGED git
    BY <1>0, <2>0, <2>1, <2>2 DEF git, Bookkeeping
  <2>3. QED
    BY <2>0, <2>1, <2>2 DEF Pushes
<1>6. ASSUME Network \/ UNCHANGED vars
      PROVE  Bookkeeping
  BY <1>0, <1>6 DEF Network, vars, sync, git, Bookkeeping, Moves, TypeInv
<1>7. QED
  BY <1>1, <1>3, <1>4, <1>5, <1>6 DEF Next, SyncStep, PushStep, SyncChanges

-----------------------------------------------------------------------------
(* What the steps do to the commits. *)

(* A push moves HEAD's own commits to the upstream: history stays.         *)
LEMMA PushKeepsHistory ==
    ASSUME TypeInv, Pushes
    PROVE  /\ Commits' = Commits
           /\ remote' = Commits /\ local' = <<>> /\ work' = work /\ onto' = onto
           /\ remote' \in Seq(AnyCommit) /\ base' = Len(remote')
           /\ tracking' \in {tracking, Len(remote')} /\ Len(remote) <= Len(remote')
           /\ Commits = remote \o local
<1>0. remote \in Seq(AnyCommit) /\ local \in Seq(AnyCommit)
  BY DEF TypeInv
<1>1. SubSeq(remote, 1, base) = remote
  <2>1. base = Len(remote)
    BY DEF Pushes, PushAccepted
  <2>2. QED
    BY <1>0, <2>1, SubSeqFull
<1>2. /\ remote' = remote \o local /\ local' = <<>> /\ work' = work /\ onto' = onto
      /\ tracking' \in {tracking, Len(remote \o local)} /\ base' = Len(remote \o local)
  BY DEF Pushes, Pushed, PushLost
<1>3. remote \o local \in Seq(AnyCommit)
  BY <1>0, Followed
<1>8. Len(remote) <= Len(remote \o local)
  BY <1>0, ConcatProperties, LenProperties
<1>4. SubSeq(remote \o local, 1, Len(remote \o local)) \o <<>> = remote \o local
  BY <1>3, SubSeqFull, ConcatEmptySeq
<1>5. Commits = remote \o local
  BY <1>1 DEF Commits
<1>6. Commits' = remote \o local
  BY <1>2, <1>4 DEF Commits
<1>7. QED
  BY <1>2, <1>3, <1>5, <1>6, <1>8

LEMMA OthersKeepHistory ==
    ASSUME TypeInv, NEW p \in RemotePath, OtherPushes(p)
    PROVE  /\ Commits' = Commits
           /\ \E c \in AnyCommit : /\ remote' = Append(remote, c) /\ c.by = "other"
                                   /\ \A q \in DOMAIN c.change : c.change[q].by = "other"
<1> DEFINE c == Commit("other", [q \in {p} |-> Fresh("other")])
<1>1. p \in Path /\ Fresh("other") \in Body
  BY PathsAssumption DEF TypeInv, Fresh, Body, Author
<1>2. c \in AnyCommit
  <2>1. c.by \in Author /\ c = [by |-> "other", change |-> [q \in {p} |-> Fresh("other")]]
    BY DEF Commit, Author
  <2>2. {p} \in SUBSET Path /\ [q \in {p} |-> Fresh("other")] \in [{p} -> Body]
    BY <1>1
  <2>3. [q \in {p} |-> Fresh("other")] \in UNION {[D -> Body] : D \in SUBSET Path}
    BY <2>2
  <2> HIDE DEF c
  <2>4. QED
    BY <2>1, <2>3 DEF AnyCommit, Author
<1>3. remote' = Append(remote, c) /\ UNCHANGED <<base, local>>
  BY DEF OtherPushes
<1>4. c.by = "other" /\ \A q \in DOMAIN c.change : c.change[q].by = "other"
  BY DEF Commit, Fresh
<1> HIDE DEF c
<1>5. SubSeq(Append(remote, c), 1, base) = SubSeq(remote, 1, base)
  BY <1>2, CommitsOf, PrefixOfMore DEF TypeInv
<1>6. QED
  BY <1>2, <1>3, <1>4, <1>5 DEF Commits

(* A commit of notes that are in no commit yet. *)
LEMMA CommitOfNotes ==
    ASSUME TypeInv, NEW by \in {"tool", "edit"}, NEW D \in SUBSET Path,
           local' = Append(local, Commit(by, [p \in D |-> work[p]])),
           UNCHANGED <<remote, base, work>>
    PROVE  /\ Commit(by, [p \in D |-> work[p]]) \in AnyCommit
           /\ Commits' = Append(Commits, Commit(by, [p \in D |-> work[p]]))
           /\ Dirty' = Dirty \ D
<1> DEFINE c == Commit(by, [p \in D |-> work[p]])
<1>1. c \in AnyCommit
  BY DEF TypeInv, Commit, AnyCommit, Author
<1>2. c.change = [p \in D |-> work[p]]
  BY DEF Commit
<1> HIDE DEF c
<1>3. Commits' = Append(Commits, c)
  <2> DEFINE g == SubSeq(remote, 1, base)
  <2>1. g \in Seq(AnyCommit) /\ local \in Seq(AnyCommit)
    BY CommitsOf DEF TypeInv
  <2>2. Commits = g \o local
    BY DEF Commits
  <2>3. Commits' = g \o Append(local, c)
    BY DEF Commits, c
  <2> HIDE DEF g
  <2>4. g \o Append(local, c) = Append(g \o local, c)
    BY <1>1, <2>1
  <2>5. QED
    BY <2>2, <2>3, <2>4
<1>4. ASSUME NEW p \in Path
      PROVE  Checkout(Commits')[p] = IF p \in D THEN work[p] ELSE Checkout(Commits)[p]
  BY <1>1, <1>2, <1>3, CommitsOf, CheckoutOfCommit
<1>5. Dirty' = Dirty \ D
  BY <1>4 DEF Dirty
<1>6. QED
  BY <1>1, <1>3, <1>5 DEF c

-----------------------------------------------------------------------------
(* Types. *)

LEMMA CheckoutType ==
    ASSUME NEW h \in Seq(AnyCommit)
    PROVE  Checkout(h) \in [Path -> Body]
<1>1. ASSUME NEW p \in Path
      PROVE  Checkout(h)[p] \in Body
  <2>1. Original \in Body
    BY DEF Original, Body
  <2>2. ASSUME NEW i \in DOMAIN h, p \in DOMAIN h[i].change
        PROVE  h[i].change[p] \in Body
    <3>1. h[i] \in AnyCommit
      BY ElementOfSeq, LenProperties
    <3>2. QED
      BY <2>2, <3>1 DEF AnyCommit
  <2>3. QED
    BY <2>1, <2>2, CheckedOutBody
<1>2. QED
  BY <1>1 DEF Checkout

LEMMA IdleType == Idle \in [step : {"idle", "emit", "commit"}, path : Path, body : Body]
  BY PathsAssumption DEF Idle, Original, Body

LEMMA TypeStep ==
    ASSUME TypeInv, LockInv, [Next]_vars
    PROVE  TypeInv'
<1>0. /\ Len(remote) \in Nat /\ tracking \in Nat /\ base \in Nat /\ onto \in Nat
      /\ tracking <= Len(remote) /\ base <= Len(remote) /\ onto <= tracking
  BY CommitsOf DEF TypeInv
<1>1. CASE Bookkeeping
  BY <1>0, <1>1 DEF Bookkeeping, Moves, TypeInv
<1>2. CASE Pushes
  <2>1. /\ remote' \in Seq(AnyCommit) /\ tracking' \in {tracking, Len(remote')}
        /\ base' = Len(remote') /\ Len(remote) <= Len(remote')
        /\ Len(remote') \in Nat /\ local' = <<>> /\ work' = work /\ onto' = 0
    BY <1>2, PushKeepsHistory, LenProperties DEF Pushes, PushAccepted, Detached
  <2>2. local' \in Seq(AnyCommit)
    BY <2>1, EmptySeq
  <2>3. tracking' \in 0..Len(remote') /\ base' \in 0..Len(remote') /\ onto' \in 0..tracking'
    BY <1>0, <2>1
  <2>4. QED
    BY <1>2, <2>1, <2>2, <2>3 DEF Pushes, Moves, TypeInv
<1>3. ASSUME NEW p \in ToolPath, CallTool(p)
      PROVE  TypeInv'
  <2>1. Fresh("tool") \in Body /\ p \in Path
    BY PathsAssumption DEF TypeInv, Fresh, Body, Author
  <2>2. drawn' \in [Author -> Nat]
    BY <1>3 DEF CallTool, Draw, TypeInv, Author
  <2>3. QED
    BY <1>3, <2>1, <2>2 DEF CallTool, TypeInv, sync
<1>4. CASE EmitEvent
  BY <1>4 DEF EmitEvent, git, sync, TypeInv
<1>5. CASE AutoCommit
  <2>1. UNCHANGED <<remote, tracking, base, work, onto, pc, drawn>> /\ call' = Idle
    BY <1>5 DEF AutoCommit, sync
  <2>2. local' = local \/ local' = Append(local, Commit("tool", [q \in {call.path} |-> work[q]]))
    BY <1>5 DEF AutoCommit, CommitPath
  <2>3. {call.path} \in SUBSET Path
    BY DEF TypeInv
  <2>4. local' \in Seq(AnyCommit)
    <3>1. CASE local' = local
      BY <3>1 DEF TypeInv
    <3>2. CASE local' = Append(local, Commit("tool", [q \in {call.path} |-> work[q]]))
      <4>1. Commit("tool", [q \in {call.path} |-> work[q]]) \in AnyCommit
        BY <2>1, <2>3, <3>2, CommitOfNotes
      <4>2. local \in Seq(AnyCommit)
        BY DEF TypeInv
      <4>3. QED
        BY <3>2, <4>1, <4>2, Committed
    <3>3. QED
      BY <2>2, <3>1, <3>2
  <2>5. QED
    BY <2>1, <2>4, IdleType DEF TypeInv
<1>6. ASSUME NEW s \in Syncer, SyncChanges(s)
      PROVE  TypeInv'
  <2>1. CASE Checkpoint(s)
    <3>1. /\ UNCHANGED <<remote, tracking, base, work, onto, call, drawn>>
          /\ pc' \in [Syncer -> Step]
      BY <1>6, <2>1 DEF Checkpoint, Goto, Ends, TypeInv, Step
    <3>2. local' = local \/ local' = Append(local, Commit("edit", [q \in Dirty |-> work[q]]))
      BY <2>1 DEF Checkpoint
    <3>3. Dirty \in SUBSET Path
      BY DEF Dirty
    <3>4. local' \in Seq(AnyCommit)
      <4>1. CASE local' = local
        BY <4>1 DEF TypeInv
      <4>2. CASE local' = Append(local, Commit("edit", [q \in Dirty |-> work[q]]))
        <5>1. Commit("edit", [q \in Dirty |-> work[q]]) \in AnyCommit
          BY <3>1, <3>3, <4>2, CommitOfNotes
        <5>2. local \in Seq(AnyCommit)
          BY DEF TypeInv
        <5>3. QED
          BY <4>2, <5>1, <5>2, Committed
      <4>3. QED
        BY <3>2, <4>1, <4>2
    <3>5. QED
      BY <3>1, <3>4 DEF TypeInv
  <2>2. CASE Pull(s)
    <3>1. /\ UNCHANGED <<remote, tracking, local, onto, call, drawn>>
          /\ base' \in {base, tracking}
          /\ pc' \in [Syncer -> Step]
      BY <2>2 DEF Pull, Goto, Ends, TypeInv, Step
    <3>2. work' \in [Path -> Body]
      <4>1. Checkout(SubSeq(remote, 1, tracking)) \in [Path -> Body]
        BY CommitsOf, Prefix, CheckoutType DEF TypeInv
      <4>2. QED
        BY <2>2, <4>1 DEF Pull, TypeInv
    <3>3. QED
      BY <1>0, <3>1, <3>2 DEF TypeInv
  <2>3. CASE Rebase(s)
    <3>1. /\ UNCHANGED <<remote, tracking, base, local, work, call, drawn>>
          /\ onto' \in {onto, tracking}
          /\ pc' \in [Syncer -> Step]
      BY <2>3 DEF Rebase, Goto, Ends, Applied, TypeInv, Step
    <3>2. QED
      BY <1>0, <3>1 DEF TypeInv
  <2>4. CASE RebaseApplies(s)
    <3>1. /\ UNCHANGED <<remote, tracking, local, call, drawn>>
          /\ base' = onto /\ onto' = 0
          /\ work' = Checkout(SubSeq(remote, 1, onto) \o local)
          /\ pc' \in [Syncer -> Step]
      BY <2>4 DEF RebaseApplies, Goto, Applied, TypeInv, Step
    <3>2. SubSeq(remote, 1, onto) \o local \in Seq(AnyCommit)
      BY CommitsOf, Prefix, Followed DEF TypeInv
    <3>3. work' \in [Path -> Body]
      BY <3>1, <3>2, CheckoutType
    <3>4. base' \in 0..Len(remote') /\ onto' \in 0..tracking' /\ tracking' \in 0..Len(remote')
      BY <1>0, <3>1
    <3>5. QED
      BY <3>1, <3>3, <3>4 DEF TypeInv
  <2>5. CASE RebaseConflicts(s)
    <3>1. /\ UNCHANGED <<remote, tracking, base, local, onto, call, drawn>>
          /\ pc' \in [Syncer -> Step]
      BY <2>5 DEF RebaseConflicts, Goto, TypeInv, Step
    <3>2. work' \in [Path -> Body]
      BY <2>5 DEF RebaseConflicts, TypeInv, Markers, Body
    <3>3. QED
      BY <3>1, <3>2 DEF TypeInv
  <2>6. CASE Abort(s)
    <3>1. /\ UNCHANGED <<remote, tracking, base, local, call, drawn>>
          /\ onto' = 0 /\ work' = Checkout(Commits)
          /\ pc' \in [Syncer -> Step]
      BY <2>6 DEF Abort, Ends, Goto, TypeInv, Step
    <3>2. QED
      BY <1>0, <3>1, CommitsOf, CheckoutType DEF TypeInv
  <2>7. QED
    BY <1>6, <2>1, <2>2, <2>3, <2>4, <2>5, <2>6 DEF SyncChanges
<1>7. ASSUME NEW p \in EditPath, ExternalEdit(p)
      PROVE  TypeInv'
  <2>1. Fresh("edit") \in Body /\ p \in Path
    BY PathsAssumption DEF TypeInv, Fresh, Body, Author
  <2>2. drawn' \in [Author -> Nat]
    BY <1>7 DEF ExternalEdit, Draw, TypeInv, Author
  <2>3. QED
    BY <1>7, <2>1, <2>2 DEF ExternalEdit, TypeInv, sync
<1>8. ASSUME NEW p \in RemotePath, OtherPushes(p)
      PROVE  TypeInv'
  <2>1. drawn' \in [Author -> Nat]
    BY <1>8 DEF OtherPushes, Draw, TypeInv, Author
  <2>2. UNCHANGED <<tracking, base, local, work, onto, call, pc>>
    BY <1>8 DEF OtherPushes, sync
  <2>3. remote' \in Seq(AnyCommit) /\ Len(remote') = Len(remote) + 1
    <3>1. PICK c \in AnyCommit : remote' = Append(remote, c)
      BY <1>8, OthersKeepHistory
    <3>2. remote \in Seq(AnyCommit)
      BY DEF TypeInv
    <3>3. QED
      BY <3>1, <3>2, Committed
  <2>4. QED
    BY <1>0, <2>1, <2>2, <2>3 DEF TypeInv
<1>9. CASE Restart
  <2>1. /\ UNCHANGED <<remote, tracking, base, local, work, onto, drawn>> /\ call' = Idle
        /\ pc' \in [Syncer -> Step]
    BY <1>9 DEF Restart, git, Step
  <2>2. QED
    BY <2>1, IdleType DEF TypeInv
<1>10. QED
  BY <1>1, <1>2, <1>3, <1>4, <1>5, <1>6, <1>7, <1>8, <1>9, StepKinds

-----------------------------------------------------------------------------
(* Locks. *)

LEMMA LockStep ==
    ASSUME NoRebaseIsKilled, TypeInv, LockInv, [Next]_vars
    PROVE  LockInv'
<1>0. /\ "free" \notin Syncer /\ "tool" \notin Syncer
      /\ pc \in [Syncer -> Step]
      /\ base \in Nat /\ tracking \in Nat /\ onto \in Nat
  BY TaskAssumption, CommitsOf DEF Syncer, TypeInv
<1>1. ASSUME Bookkeeping \/ Pushes
      PROVE  LockInv'
  <2>1. Moves /\ UNCHANGED <<guard, call, onto>>
    BY <1>1 DEF Bookkeeping, Pushes, Pushed, PushLost
  <2>2. \A s \in Syncer : (pc'[s] \in Locked <=> pc[s] \in Locked)
                          /\ (pc[s] \in Locked => pc'[s] = pc[s])
    BY <2>1 DEF Moves
  <2>3. QED
    BY <2>1, <2>2 DEF LockInv, Detached, Locked
<1>2. ASSUME NEW p \in ToolPath, CallTool(p)
      PROVE  LockInv'
  BY <1>0, <1>2 DEF CallTool, LockInv, Detached, sync
<1>3. CASE EmitEvent
  BY <1>3 DEF EmitEvent, LockInv, Detached, git, sync, TypeInv
<1>4. CASE AutoCommit
  BY <1>0, <1>4 DEF AutoCommit, LockInv, Detached, sync, Idle
<1>5. ASSUME NEW s \in Syncer, SyncChanges(s)
      PROVE  LockInv'
  <2>1. CASE Checkpoint(s)
    BY <1>0, <2>1 DEF Checkpoint, Goto, Ends, LockInv, Detached, Locked
  <2>2. CASE Pull(s)
    BY <1>0, <2>2 DEF Pull, Goto, Ends, LockInv, Detached, Locked
  <2>3. CASE Rebase(s)
    <3>1. guard = s /\ onto = 0
      BY <2>3 DEF Rebase, LockInv, Detached, Locked
    <3>2. CASE base >= tracking
      BY <1>0, <2>3, <3>1, <3>2 DEF Rebase, Goto, Ends, Applied, LockInv, Detached, Locked
    <3>3. CASE ~(base >= tracking)
      BY <1>0, <2>3, <3>1, <3>3 DEF Rebase, Goto, Ends, LockInv, Detached, Locked
    <3>4. QED
      BY <3>2, <3>3
  <2>4. CASE RebaseApplies(s)
    BY <1>0, <2>4 DEF RebaseApplies, Goto, Applied, LockInv, Detached, Locked
  <2>5. CASE RebaseConflicts(s)
    BY <1>0, <2>5 DEF RebaseConflicts, Goto, LockInv, Detached, Locked
  <2>6. CASE Abort(s)
    BY <1>0, <2>6 DEF Abort, Goto, Ends, LockInv, Detached, Locked
  <2>7. QED
    BY <1>5, <2>1, <2>2, <2>3, <2>4, <2>5, <2>6 DEF SyncChanges
<1>6. ASSUME NEW p \in EditPath, ExternalEdit(p)
      PROVE  LockInv'
  BY <1>6 DEF ExternalEdit, LockInv, Detached, sync
<1>7. ASSUME NEW p \in RemotePath, OtherPushes(p)
      PROVE  LockInv'
  BY <1>7 DEF OtherPushes, LockInv, Detached, sync
<1>8. CASE Restart
  <2>1. onto' = 0 /\ guard' = "free" /\ call' = Idle /\ pc' = [s \in Syncer |-> "idle"]
    BY <1>8 DEF Restart, NoRebaseIsKilled, Detached, git
  <2>2. QED
    BY <1>0, <2>1 DEF LockInv, Detached, Locked, Idle
<1>9. QED
  BY <1>1, <1>2, <1>3, <1>4, <1>5, <1>6, <1>7, <1>8, StepKinds

-----------------------------------------------------------------------------
(* Conflict markers. *)

LEMMA UnmarkedCheckout ==
    ASSUME NEW h \in Seq(AnyCommit), ~Marked(h), NEW p \in Path
    PROVE  Checkout(h)[p] # Markers
<1>1. Original # Markers
  BY DEF Original, Markers
<1>2. QED
  BY <1>1, CheckedOutBody DEF Marked

LEMMA FreshIsUnmarked ==
    ASSUME NEW by \in Author
    PROVE  Fresh(by) # Markers /\ Fresh(by).by = by
  BY DEF Fresh, Markers, Author

(* The notes of a commit that is added were notes on disk. *)
LEMMA CommitIsUnmarked ==
    ASSUME TypeInv, NEW by \in {"tool", "edit"}, NEW D \in SUBSET Path,
           local' = Append(local, Commit(by, [p \in D |-> work[p]])),
           UNCHANGED <<remote, base, work>>,
           ~Marked(local), \A p \in Path : work[p] # Markers
    PROVE  ~Marked(local')
<1>1. Commit(by, [p \in D |-> work[p]]) \in AnyCommit /\ local \in Seq(AnyCommit)
  BY CommitOfNotes DEF TypeInv
<1>2. \A p \in D : Commit(by, [q \in D |-> work[q]]).change[p] # Markers
  BY DEF Commit
<1>3. DOMAIN Commit(by, [q \in D |-> work[q]]).change = D
  BY DEF Commit
<1> DEFINE c == Commit(by, [q \in D |-> work[q]])
<1> HIDE DEF c
<1>4. c \in AnyCommit /\ \A p \in DOMAIN c.change : c.change[p] # Markers
  BY <1>1, <1>2, <1>3 DEF c
<1>5. local' = Append(local, c)
  BY DEF c
<1>6. QED
  BY <1>1, <1>4, <1>5, MarkedAppend

LEMMA UnmarkedCommits ==
    ASSUME TypeInv, ~Marked(remote), ~Marked(local), NEW n \in 0..Len(remote)
    PROVE  /\ SubSeq(remote, 1, n) \in Seq(AnyCommit) /\ ~Marked(SubSeq(remote, 1, n))
           /\ SubSeq(remote, 1, n) \o local \in Seq(AnyCommit)
           /\ ~Marked(SubSeq(remote, 1, n) \o local)
<1>0. remote \in Seq(AnyCommit) /\ local \in Seq(AnyCommit)
  BY DEF TypeInv
<1> DEFINE g == SubSeq(remote, 1, n)
<1>1. g \in Seq(AnyCommit)
  BY <1>0, Prefix
<1>2. ~Marked(g)
  BY <1>0, MarkedParts
<1>3. Len(g) \in Nat /\ 0 \in 0..Len(g)
  BY <1>1, LenProperties
<1> HIDE DEF g
<1>4. ~Marked(g \o local)
  BY <1>0, <1>1, <1>2, <1>3, MarkedParts
<1>5. QED
  BY <1>0, <1>1, <1>2, <1>4, Followed DEF g

LEMMA CleanStep ==
    ASSUME NoRebaseIsKilled, IInv, [Next]_vars
    PROVE  CleanInv'
<1>0. /\ TypeInv /\ LockInv /\ CleanInv /\ TypeInv' /\ LockInv'
      /\ "free" \notin Syncer /\ "tool" \notin Syncer
  BY TypeStep, LockStep, TaskAssumption DEF IInv, Syncer
<1>c. Commits \in Seq(AnyCommit) /\ ~Marked(Commits)
  BY <1>0, CommitsOf, UnmarkedCommits DEF Commits, CleanInv
<1>d. \A p \in Path \ Dirty : work[p] # Markers
  BY <1>c, UnmarkedCheckout DEF Dirty
<1>1. CASE Bookkeeping
  <2>1. Moves /\ UNCHANGED <<remote, base, local, work, guard>> /\ Dirty' = Dirty
    BY <1>1 DEF Bookkeeping, Dirty, Commits
  <2>2. guard \in Syncer => pc'[guard] = pc[guard]
    BY <1>0, <2>1 DEF Moves, LockInv
  <2>3. QED
    BY <1>0, <2>1, <2>2 DEF CleanInv, Marked
<1>2. CASE Pushes
  <2>1. /\ Moves /\ UNCHANGED <<work, guard>> /\ Dirty' = Dirty
        /\ remote' = Commits /\ local' = <<>>
    BY <1>0, <1>2, PushKeepsHistory DEF Pushes, Dirty
  <2>2. guard \in Syncer => pc'[guard] = pc[guard]
    BY <1>0, <2>1 DEF Moves, LockInv
  <2>3. ~Marked(remote') /\ ~Marked(local')
    BY <1>c, <2>1 DEF Marked
  <2>4. QED
    BY <1>0, <2>1, <2>2, <2>3 DEF CleanInv
<1>3. ASSUME NEW p \in ToolPath, CallTool(p)
      PROVE  CleanInv'
  <2>1. "tool" \in Author
    BY DEF Author
  <2>2. /\ guard = "free" /\ guard' = "tool" /\ UNCHANGED <<remote, local>>
        /\ work' = [work EXCEPT ![p] = Fresh("tool")]
    BY <1>3 DEF CallTool
  <2>3. Fresh("tool") # Markers
    BY <2>1, FreshIsUnmarked
  <2>4. \A q \in Path : work'[q] # Markers
    BY <1>0, <2>2, <2>3 DEF CleanInv, TypeInv
  <2>5. QED
    BY <1>0, <2>2, <2>4 DEF CleanInv, Marked
<1>4. CASE EmitEvent
  BY <1>0, <1>4 DEF EmitEvent, git, sync, CleanInv, Dirty, Commits, Marked
<1>5. CASE AutoCommit
  <2>1. guard = "tool" /\ guard' = "free" /\ UNCHANGED <<remote, base, work>>
    BY <1>0, <1>5 DEF AutoCommit, LockInv
  <2>2. \A p \in Path : work[p] # Markers
    BY <1>0, <2>1 DEF CleanInv
  <2>3. ~Marked(local')
    <3>1. local' = local \/ local' = Append(local, Commit("tool", [q \in {call.path} |-> work[q]]))
      BY <1>5 DEF AutoCommit, CommitPath
    <3>2. {call.path} \in SUBSET Path
      BY <1>0 DEF TypeInv
    <3>3. QED
      BY <1>0, <2>1, <2>2, <3>1, <3>2, CommitIsUnmarked DEF CleanInv, Marked
  <2>4. QED
    BY <1>0, <2>1, <2>2, <2>3 DEF CleanInv, Marked
<1>6. ASSUME NEW s \in Syncer, SyncChanges(s)
      PROVE  CleanInv'
  <2>1. CASE Checkpoint(s)
    <3>1. guard = "free" /\ UNCHANGED <<remote, base, work>> /\ \A p \in Path : work[p] # Markers
      BY <1>0, <2>1 DEF Checkpoint, CleanInv
    <3>2. Dirty \in SUBSET Path
      BY DEF Dirty
    <3>3. CASE guard' = guard /\ local' = local
      BY <1>0, <3>1, <3>3 DEF CleanInv, Marked
    <3>4. CASE /\ guard' = s /\ pc' = [pc EXCEPT ![s] = "rebase"]
               /\ local' = IF Dirty = {} THEN local
                           ELSE Append(local, Commit("edit", [p \in Dirty |-> work[p]]))
      <4>1. pc'[s] = "rebase"
        BY <1>0, <3>4 DEF TypeInv
      <4>2. CASE Dirty = {}
        <5>1. local' = local /\ Dirty' = {}
          BY <3>1, <3>4, <4>2 DEF Dirty, Commits
        <5>2. QED
          BY <1>0, <3>1, <3>4, <4>1, <5>1 DEF CleanInv, Marked
      <4>3. CASE Dirty # {}
        <5>1. local' = Append(local, Commit("edit", [p \in Dirty |-> work[p]]))
          BY <3>4, <4>3
        <5>2. Dirty' = {}
          BY <1>0, <3>1, <3>2, <5>1, CommitOfNotes
        <5>3. ~Marked(local')
          BY <1>0, <3>1, <3>2, <5>1, CommitIsUnmarked DEF CleanInv
        <5>4. QED
          BY <1>0, <3>1, <3>4, <4>1, <5>2, <5>3 DEF CleanInv, Marked
      <4>4. QED
        BY <4>2, <4>3
    <3>5. QED
      BY <2>1, <3>3, <3>4 DEF Checkpoint, Goto
  <2>2. CASE Pull(s)
    <3>1. guard = "free" /\ UNCHANGED <<remote, local, guard>>
      BY <2>2 DEF Pull
    <3>2. \A p \in Path : work'[p] # Markers
      <4>1. \A p \in Path : /\ work[p] # Markers
                          /\ Checkout(SubSeq(remote, 1, tracking))[p] # Markers
        BY <1>0, <3>1, CommitsOf, UnmarkedCommits, UnmarkedCheckout DEF CleanInv
      <4>2. QED
        BY <2>2, <4>1 DEF Pull
    <3>3. QED
      BY <1>0, <3>1, <3>2 DEF CleanInv, Marked
  <2>3. CASE Rebase(s)
    <3>1. guard = s /\ Dirty = {} /\ UNCHANGED <<remote, base, local, work>>
      BY <1>0, <2>3 DEF Rebase, LockInv, CleanInv, Locked
    <3>2. Dirty' = {}
      BY <3>1 DEF Dirty, Commits
    <3>3. \A p \in Path : work'[p] # Markers
      BY <1>d, <3>1
    <3>4. guard' = "free" \/ (guard' = s /\ pc'[s] = "pick")
      BY <1>0, <2>3, <3>1 DEF Rebase, Goto, Ends, TypeInv
    <3>5. QED
      BY <1>0, <3>1, <3>2, <3>3, <3>4 DEF CleanInv, Marked
  <2>4. CASE RebaseApplies(s)
    <3>1. guard' = "free" /\ UNCHANGED <<remote, local>>
          /\ work' = Checkout(SubSeq(remote, 1, onto) \o local)
      BY <2>4 DEF RebaseApplies
    <3>2. \A p \in Path : work'[p] # Markers
      BY <1>0, <3>1, CommitsOf, UnmarkedCommits, UnmarkedCheckout DEF CleanInv
    <3>3. QED
      BY <1>0, <3>1, <3>2 DEF CleanInv, Marked
  <2>5. CASE RebaseConflicts(s)
    <3>1. guard = s /\ Dirty = {} /\ UNCHANGED <<remote, base, local, guard>>
          /\ pc'[s] = "abort"
      BY <1>0, <2>5 DEF RebaseConflicts, Goto, LockInv, CleanInv, Locked, TypeInv
    <3>2. \A p \in Dirty' : work'[p] = Markers
      <4>1. Commits' = Commits
        BY <3>1 DEF Commits
      <4>2. \A p \in Path : work'[p] = Markers \/ work'[p] = work[p]
        BY <2>5 DEF RebaseConflicts
      <4>3. QED
        BY <3>1, <4>1, <4>2 DEF Dirty
    <3>3. QED
      BY <1>0, <3>1, <3>2 DEF CleanInv, Marked
  <2>6. CASE Abort(s)
    <3>1. guard' = "free" /\ UNCHANGED <<remote, local>> /\ work' = Checkout(Commits)
      BY <2>6 DEF Abort
    <3>2. \A p \in Path : work'[p] # Markers
      BY <1>c, <3>1, UnmarkedCheckout
    <3>3. QED
      BY <1>0, <3>1, <3>2 DEF CleanInv, Marked
  <2>7. QED
    BY <1>6, <2>1, <2>2, <2>3, <2>4, <2>5, <2>6 DEF SyncChanges
<1>7. ASSUME NEW p \in EditPath, ExternalEdit(p)
      PROVE  CleanInv'
  <2>1. "edit" \in Author
    BY DEF Author
  <2>2. /\ guard \notin Syncer /\ UNCHANGED <<remote, local, guard>>
        /\ work' = [work EXCEPT ![p] = Fresh("edit")]
    BY <1>7 DEF ExternalEdit
  <2>3. Fresh("edit") # Markers
    BY <2>1, FreshIsUnmarked
  <2>4. \A q \in Path : work'[q] # Markers
    BY <1>0, <2>2, <2>3 DEF CleanInv, TypeInv
  <2>5. QED
    BY <1>0, <2>2, <2>4 DEF CleanInv, Marked
<1>8. ASSUME NEW p \in RemotePath, OtherPushes(p)
      PROVE  CleanInv'
  <2>1. UNCHANGED <<base, local, work, guard, pc>> /\ Dirty' = Dirty
    BY <1>0, <1>8, OthersKeepHistory DEF OtherPushes, sync, Dirty
  <2>2. PICK c \in AnyCommit : /\ remote' = Append(remote, c) /\ c.by = "other"
                               /\ \A q \in DOMAIN c.change : c.change[q].by = "other"
    BY <1>0, <1>8, OthersKeepHistory
  <2>3. \A q \in DOMAIN c.change : c.change[q] # Markers
    BY <2>2 DEF Markers
  <2>4. ~Marked(remote')
    BY <1>0, <2>2, <2>3, MarkedAppend DEF CleanInv, TypeInv
  <2>5. QED
    BY <1>0, <2>1, <2>4 DEF CleanInv, Marked
<1>9. CASE Restart
  <2>1. ~Detached /\ guard' = "free" /\ UNCHANGED <<remote, local, work>>
    BY <1>9 DEF Restart, NoRebaseIsKilled, git
  <2>2. \A p \in Path : work[p] # Markers
    BY <1>0, <1>d, <2>1 DEF LockInv, CleanInv, Locked
  <2>3. QED
    BY <1>0, <2>1, <2>2 DEF CleanInv, Marked
<1>10. QED
  BY <1>0, <1>1, <1>2, <1>3, <1>4, <1>5, <1>6, <1>7, <1>8, <1>9, StepKinds

LEMMA Starts == Init => IInv
<1> SUFFICES ASSUME Init
             PROVE  IInv
  OBVIOUS
<1>0. <<>> \in Seq(AnyCommit) /\ Len(<<>>) = 0
  BY EmptySeq
<1>1. "free" \notin Syncer /\ "tool" \notin Syncer
  BY TaskAssumption DEF Syncer
<1>2. Idle \in [step : {"idle", "emit", "commit"}, path : Path, body : Body] /\ Idle.step = "idle"
  BY IdleType DEF Idle
<1>3. TypeInv
  <2>1. work \in [Path -> Body]
    BY DEF Init, Original, Body
  <2>2. drawn \in [Author -> Nat] /\ pc \in [Syncer -> Step]
    BY DEF Init, Step
  <2>3. remote \in Seq(AnyCommit) /\ local \in Seq(AnyCommit) /\ Len(remote) = 0
    BY <1>0 DEF Init
  <2>4. tracking \in 0..Len(remote) /\ base \in 0..tracking /\ onto \in 0..tracking
    BY <2>3 DEF Init
  <2>5. QED
    BY <1>2, <2>1, <2>2, <2>3, <2>4 DEF Init, TypeInv
<1>4. LockInv
  BY <1>1, <1>2 DEF Init, LockInv, Locked, Detached
<1>5. CleanInv
  BY <1>1 DEF Init, CleanInv, Marked, Original, Markers
<1>6. QED
  BY <1>3, <1>4, <1>5 DEF IInv

LEMMA Steps ==
    ASSUME NoRebaseIsKilled, IInv, [Next]_vars
    PROVE  IInv'
  BY TypeStep, LockStep, CleanStep DEF IInv

(* The locks hold, and who holds them knows the state of the notes.        *)
THEOREM SyncInductive ==
    ASSUME NoRebaseIsKilled
    PROVE  Spec => []IInv
<1>1. Init => IInv
  BY Starts
<1>2. IInv /\ [Next]_vars => IInv'
  BY Steps
<1>3. QED
  BY <1>1, <1>2, PTL DEF Spec

(* Whoever gets the write guard finds no conflict markers in any note: the *)
(* rebase that left them is aborted before its guard is given back. With   *)
(* a server killed in mid-rebase it is false.                              *)
THEOREM NoMarkersReachNotes ==
    ASSUME NoRebaseIsKilled
    PROVE  Spec => []NoMarkers
<1>1. IInv => NoMarkers
  BY TaskAssumption DEF IInv, CleanInv, NoMarkers, Syncer
<1>2. QED
  BY <1>1, SyncInductive, PTL

-----------------------------------------------------------------------------
(* Outside edits. *)

(* A note that differs from the commits in nothing, and that was ever      *)
(* written, is in a commit.                                                *)
LEMMA CommittedNote ==
    ASSUME TypeInv, NEW p \in Path \ Dirty, work[p].by = "edit"
    PROVE  work[p] \in BodiesOf(remote \o local)
<1> DEFINE g == SubSeq(remote, 1, base)
<1>1. /\ g \in Seq(AnyCommit) /\ local \in Seq(AnyCommit) /\ remote \in Seq(AnyCommit)
      /\ Commits \in Seq(AnyCommit) /\ Commits = g \o local
      /\ base \in 0..Len(remote)
  BY CommitsOf DEF Commits, TypeInv
<1>2. work[p] = Checkout(Commits)[p] /\ work[p] # Original
  BY DEF Dirty, Original
<1>3. PICK i \in DOMAIN Commits :
        p \in DOMAIN Commits[i].change /\ work[p] = Commits[i].change[p]
  BY <1>1, <1>2, CheckedOutBody
<1>4. \E j \in DOMAIN (remote \o local) : (remote \o local)[j] = Commits[i]
  <2>1. /\ DOMAIN remote = 1..Len(remote) /\ DOMAIN local = 1..Len(local)
        /\ Len(remote) \in Nat /\ Len(local) \in Nat
        /\ DOMAIN (remote \o local) = 1..(Len(remote) + Len(local))
        /\ \A k \in DOMAIN remote : (remote \o local)[k] = remote[k]
        /\ \A k \in DOMAIN local : (remote \o local)[Len(remote) + k] = local[k]
    BY <1>1, Followed
  <2>2. Len(g) = base /\ DOMAIN g = 1..base /\ \A k \in 1..base : k \in DOMAIN remote /\ g[k] = remote[k]
    BY <1>1, Prefix, LenProperties
  <2> HIDE DEF g
  <2>3. /\ DOMAIN Commits = 1..(base + Len(local))
        /\ \A k \in DOMAIN g : Commits[k] = g[k]
        /\ \A k \in DOMAIN local : Commits[base + k] = local[k]
    <3>1. g \in Seq(AnyCommit) /\ local \in Seq(AnyCommit)
      BY <1>1
    <3>2. /\ DOMAIN (g \o local) = 1..(Len(g) + Len(local))
          /\ \A k \in DOMAIN g : (g \o local)[k] = g[k]
          /\ \A k \in DOMAIN local : (g \o local)[Len(g) + k] = local[k]
      BY <3>1, Followed
    <3>3. Commits = g \o local /\ Len(g) = base
      BY <1>1, <2>2
    <3>4. QED
      BY <3>2, <3>3
  <2>4. CASE i \in 1..base
    BY <2>1, <2>2, <2>3, <2>4
  <2>5. CASE i \notin 1..base
    <3>1. i - base \in DOMAIN local /\ i = base + (i - base)
      BY <1>1, <1>3, <2>1, <2>3, <2>5
    <3>2. Commits[i] = local[i - base]
      BY <2>3, <3>1
    <3>3. Len(remote) + (i - base) \in DOMAIN (remote \o local)
      BY <2>1, <3>1
    <3>4. (remote \o local)[Len(remote) + (i - base)] = local[i - base]
      BY <2>1, <3>1
    <3>5. QED
      BY <3>2, <3>3, <3>4
  <2>6. QED
    BY <2>4, <2>5
<1>5. QED
  BY <1>3, <1>4 DEF BodiesOf

LEMMA DrawChanges ==
    ASSUME TypeInv, NEW by \in Author, NEW bound, Draw(by, bound)
    PROVE  drawn' # drawn
<1>1. drawn[by] \in Nat /\ drawn'[by] = drawn[by] + 1
  BY DEF TypeInv, Draw
<1>2. QED
  BY <1>1

LEMMA EditStep ==
    ASSUME IInv, [Next]_vars, NEW p \in Path, work[p].by = "edit", work'[p] # work[p],
           drawn' = drawn
    PROVE  work[p] \in BodiesOf(remote' \o local')
<1>0. TypeInv /\ LockInv /\ CleanInv /\ "edit" \in Author /\ "tool" \in Author
  BY DEF IInv, Author
<1>1. ~Bookkeeping /\ ~Pushes /\ ~EmitEvent /\ ~AutoCommit /\ ~Restart
  BY DEF Bookkeeping, Pushes, Pushed, PushLost, EmitEvent, AutoCommit, Restart, git
<1>2. \A q \in RemotePath : ~OtherPushes(q)
  BY DEF OtherPushes
<1>3. (\A q \in ToolPath : ~CallTool(q)) /\ (\A q \in EditPath : ~ExternalEdit(q))
  BY <1>0, DrawChanges DEF CallTool, ExternalEdit
<1>4. PICK s \in Syncer : SyncChanges(s)
  BY <1>0, <1>1, <1>2, <1>3, StepKinds
<1>5. ~Checkpoint(s) /\ ~Rebase(s)
  BY DEF Checkpoint, Rebase
<1>6. UNCHANGED <<remote, local>>
  BY <1>4, <1>5 DEF SyncChanges, Pull, RebaseApplies, RebaseConflicts, Abort
<1>7. p \notin Dirty
  <2>1. CASE Pull(s)
    BY <2>1 DEF Pull
  <2>2. CASE RebaseApplies(s) \/ RebaseConflicts(s)
    BY <1>0, <2>2 DEF RebaseApplies, RebaseConflicts, LockInv, CleanInv, Locked
  <2>3. CASE Abort(s)
    <3>1. guard = s /\ pc[s] = "abort"
      BY <1>0, <2>3 DEF Abort, LockInv, Locked
    <3>2. work[p] # Markers
      BY DEF Markers
    <3>3. QED
      BY <1>0, <3>1, <3>2 DEF CleanInv
  <2>4. QED
    BY <1>4, <1>5, <2>1, <2>2, <2>3 DEF SyncChanges
<1>8. QED
  BY <1>0, <1>6, <1>7, CommittedNote

(* No step of a sync replaces an outside edit that is in no commit: the    *)
(* rebase starts from clean notes, and a pull leaves a dirty note alone.   *)
THEOREM EditsSurviveSyncs ==
    ASSUME NoRebaseIsKilled
    PROVE  Spec => EditsKept
<1>1. IInv /\ [Next]_vars =>
        [ \A p \in Path : work[p].by = "edit" /\ work'[p] # work[p] =>
            work[p] \in BodiesOf(remote' \o local') \/ drawn' # drawn ]_vars
  BY EditStep
<1>2. QED
  BY <1>1, SyncInductive, PTL DEF Spec, EditsKept

-----------------------------------------------------------------------------
(* Authors: what the commits and the notes hold when no commit fails and   *)
(* nobody is killed. A tool that is between its batch and its commit is    *)
(* the one exception, and only for the note it writes.                     *)
ByAuthor(h) ==
    \A i \in DOMAIN h : \A p \in DOMAIN h[i].change : h[i].change[p].by = h[i].by

AuthorInv ==
    /\ ByAuthor(remote) /\ ByAuthor(local)
    /\ guard \notin Syncer =>
         \A p \in Dirty : work[p].by = "edit" \/ (guard = "tool" /\ p = call.path)
    /\ guard = "tool" => call.path \in ToolPath /\ work[call.path].by = "tool"

LEMMA OneAuthorEach ==
    ASSUME NEW g \in Seq(AnyCommit), NEW h \in Seq(AnyCommit), ByAuthor(g), ByAuthor(h)
    PROVE  ByAuthor(g \o h)
<1>1. /\ DOMAIN g = 1..Len(g) /\ DOMAIN h = 1..Len(h)
      /\ Len(g) \in Nat /\ Len(h) \in Nat
      /\ DOMAIN (g \o h) = 1..(Len(g) + Len(h))
      /\ \A i \in DOMAIN g : (g \o h)[i] = g[i]
      /\ \A i \in DOMAIN h : (g \o h)[Len(g) + i] = h[i]
  BY Followed
<1> SUFFICES ASSUME NEW i \in DOMAIN (g \o h), NEW p \in DOMAIN (g \o h)[i].change
             PROVE  (g \o h)[i].change[p].by = (g \o h)[i].by
  BY DEF ByAuthor
<1>2. CASE i \in DOMAIN g
  BY <1>1, <1>2 DEF ByAuthor
<1>3. CASE i \notin DOMAIN g
  <2>1. i - Len(g) \in DOMAIN h /\ i = Len(g) + (i - Len(g))
    BY <1>1, <1>3
  <2>2. (g \o h)[i] = h[i - Len(g)]
    BY <1>1, <2>1
  <2>3. QED
    BY <2>1, <2>2 DEF ByAuthor
<1>4. QED
  BY <1>2, <1>3

LEMMA OneAuthorMore ==
    ASSUME NEW h \in Seq(AnyCommit), NEW c \in AnyCommit, ByAuthor(h),
           \A p \in DOMAIN c.change : c.change[p].by = c.by
    PROVE  ByAuthor(Append(h, c))
<1>1. /\ DOMAIN h = 1..Len(h) /\ Len(h) \in Nat
      /\ DOMAIN Append(h, c) = 1..(Len(h) + 1)
      /\ \A i \in DOMAIN h : Append(h, c)[i] = h[i]
      /\ Append(h, c)[Len(h) + 1] = c
  BY Committed
<1>2. \A i \in DOMAIN Append(h, c) : i \in DOMAIN h \/ i = Len(h) + 1
  BY <1>1
<1>3. QED
  BY <1>1, <1>2 DEF ByAuthor

(* A commit of notes by one author. *)
LEMMA CommitByAuthor ==
    ASSUME TypeInv, NEW by \in {"tool", "edit"}, NEW D \in SUBSET Path,
           local' = Append(local, Commit(by, [p \in D |-> work[p]])),
           UNCHANGED <<remote, base, work>>,
           ByAuthor(local), \A p \in D : work[p].by = by
    PROVE  ByAuthor(local')
<1> DEFINE c == Commit(by, [q \in D |-> work[q]])
<1>1. c \in AnyCommit /\ local \in Seq(AnyCommit)
  BY CommitOfNotes DEF TypeInv
<1>2. \A p \in DOMAIN c.change : c.change[p].by = c.by
  BY DEF Commit
<1>3. local' = Append(local, c)
  OBVIOUS
<1> HIDE DEF c
<1>4. QED
  BY <1>1, <1>2, <1>3, OneAuthorMore

(* A note that a pull does not touch is as clean or dirty as before, and   *)
(* one that it does touch is clean.                                        *)
LEMMA PullLeavesEdits ==
    ASSUME TypeInv, NEW s \in Syncer, Pull(s), NEW p \in Dirty'
    PROVE  p \in Dirty /\ work'[p] = work[p]
<1>1. UNCHANGED <<remote, local, tracking>>
  BY DEF Pull
<1>2. CASE UNCHANGED <<base, work>>
  BY <1>1, <1>2 DEF Dirty, Commits
<1>3. CASE ~UNCHANGED <<base, work>>
  <2> DEFINE kept == SubSeq(remote, 1, base)
             brought == SubSeq(remote, base + 1, tracking)
  <2>1. /\ base' = tracking /\ local = <<>> /\ base < tracking
        /\ work' = [q \in Path |-> IF q \in Touched(brought)
                       THEN Checkout(SubSeq(remote, 1, tracking))[q] ELSE work[q]]
    BY <1>3 DEF Pull
  <2>2. /\ remote \in Seq(AnyCommit) /\ SubSeq(remote, 1, tracking) \in Seq(AnyCommit)
        /\ Len(remote) \in Nat /\ base \in 0..tracking /\ tracking \in 0..Len(remote)
        /\ kept \in Seq(AnyCommit)
    BY <2>1, CommitsOf, Prefix DEF TypeInv
  <2>3. Commits' = SubSeq(remote, 1, tracking) /\ Commits = kept
    BY <1>1, <2>1, <2>2, ConcatEmptySeq DEF Commits
  <2>4. p \notin Touched(brought)
    BY <2>1, <2>3 DEF Dirty
  <2>5. Checkout(SubSeq(remote, 1, tracking))[p] = Checkout(kept)[p]
    <3>1. brought \in Seq(AnyCommit)
      <4>1. \A i \in (base + 1)..tracking : remote[i] \in AnyCommit
        BY <2>2, ElementOfSeq
      <4>2. base + 1 \in Int /\ tracking \in Int
        BY <2>2
      <4>3. QED
        BY <4>1, <4>2, SubSeqProperties
    <3>2. kept \o brought = SubSeq(remote, 1, tracking)
      <4>1. 1 \in 1..(Len(remote) + 1) /\ base \in 1 - 1..Len(remote) /\ tracking \in base..Len(remote)
        BY <2>2
      <4>2. QED
        BY <2>2, <4>1, ConcatAdjacentSubSeq
    <3>3. p \in Path
      BY DEF Dirty
    <3> HIDE DEF kept, brought
    <3>4. Checkout(kept \o brought)[p] = Checkout(kept)[p]
      BY <2>2, <2>4, <3>1, <3>3, CheckoutOfMore
    <3>5. QED
      BY <3>2, <3>4
  <2>6. QED
    BY <2>1, <2>3, <2>4, <2>5 DEF Dirty
<1>4. QED
  BY <1>2, <1>3

LEMMA AuthorStep ==
    ASSUME CommitsSucceed, IInv, AuthorInv, [Next]_vars
    PROVE  AuthorInv'
<1>0. /\ TypeInv /\ LockInv /\ CleanInv /\ NoRebaseIsKilled
      /\ "free" \notin Syncer /\ "tool" \notin Syncer
      /\ remote \in Seq(AnyCommit) /\ local \in Seq(AnyCommit)
  BY TaskAssumption DEF IInv, TypeInv, Syncer, CommitsSucceed, NoRebaseIsKilled
<1>f. "commit" \notin Faults /\ "kill" \notin Faults /\ "kill_rebase" \notin Faults
  BY DEF CommitsSucceed
<1>1. CASE Bookkeeping
  BY <1>0, <1>1 DEF Bookkeeping, Dirty, Commits, AuthorInv, ByAuthor
<1>2. CASE Pushes
  <2>1. /\ UNCHANGED <<work, guard, call>> /\ Dirty' = Dirty
        /\ remote' = remote \o local /\ local' = <<>>
    BY <1>0, <1>2, PushKeepsHistory DEF Pushes, Dirty
  <2>2. ByAuthor(remote') /\ ByAuthor(local')
    BY <1>0, <2>1, OneAuthorEach DEF AuthorInv, ByAuthor
  <2>3. QED
    BY <2>1, <2>2 DEF AuthorInv
<1>3. ASSUME NEW p \in ToolPath, CallTool(p)
      PROVE  AuthorInv'
  <2>1. /\ guard = "free" /\ guard' = "tool" /\ UNCHANGED <<remote, base, local>>
        /\ work' = [work EXCEPT ![p] = Fresh("tool")] /\ call'.path = p /\ p \in Path
        /\ work \in [Path -> Body]
    BY <1>0, <1>3, PathsAssumption DEF CallTool, TypeInv
  <2>2. Fresh("tool").by = "tool"
    BY FreshIsUnmarked DEF Author
  <2>3. ASSUME NEW q \in Dirty', q # p
        PROVE  work'[q].by = "edit"
    <3>1. q \in Dirty /\ work'[q] = work[q]
      BY <2>1, <2>3 DEF Dirty, Commits
    <3>2. QED
      BY <1>0, <2>1, <3>1 DEF AuthorInv
  <2>4. QED
    BY <1>0, <2>1, <2>2, <2>3 DEF AuthorInv, ByAuthor
<1>4. CASE EmitEvent
  <2>1. UNCHANGED <<git, guard>> /\ call'.path = call.path
    BY <1>0, <1>4 DEF EmitEvent, TypeInv
  <2>2. QED
    BY <2>1 DEF git, Dirty, Commits, AuthorInv, ByAuthor
<1>5. CASE AutoCommit
  <2>1. /\ guard = "tool" /\ guard' = "free" /\ ~Detached /\ UNCHANGED <<remote, base, work>>
        /\ work[call.path].by = "tool" /\ call.path \in Path
    BY <1>0, <1>5 DEF AutoCommit, LockInv, AuthorInv, TypeInv
  <2>2. CASE call.path \in Dirty
    <3>1. local' = Append(local, Commit("tool", [q \in {call.path} |-> work[q]]))
      BY <1>5, <1>f, <2>1, <2>2 DEF AutoCommit, CommitPath
    <3>2. {call.path} \in SUBSET Path
      BY <2>1
    <3>3. Dirty' = Dirty \ {call.path}
      BY <1>0, <2>1, <3>1, <3>2, CommitOfNotes
    <3>4. ByAuthor(local')
      BY <1>0, <2>1, <3>1, <3>2, CommitByAuthor DEF AuthorInv
    <3>5. QED
      BY <1>0, <2>1, <3>3, <3>4 DEF AuthorInv, ByAuthor
  <2>3. CASE call.path \notin Dirty
    <3>1. local' = local /\ Dirty' = Dirty
      BY <1>5, <2>1, <2>3 DEF AutoCommit, Dirty, Commits
    <3>2. QED
      BY <1>0, <2>1, <2>3, <3>1 DEF AuthorInv, ByAuthor
  <2>4. QED
    BY <2>2, <2>3
<1>6. ASSUME NEW s \in Syncer, SyncChanges(s)
      PROVE  AuthorInv'
  <2>1. CASE Checkpoint(s)
    <3>1. /\ guard = "free" /\ guard' = s /\ UNCHANGED <<remote, base, work, call>>
          /\ local' = IF Dirty = {} THEN local
                      ELSE Append(local, Commit("edit", [p \in Dirty |-> work[p]]))
      BY <1>f, <2>1 DEF Checkpoint
    <3>2. Dirty \in SUBSET Path /\ \A p \in Dirty : work[p].by = "edit"
      BY <1>0, <3>1 DEF Dirty, AuthorInv
    <3>3. ByAuthor(local')
      BY <1>0, <3>1, <3>2, CommitByAuthor DEF AuthorInv
    <3>4. QED
      BY <1>0, <3>1, <3>3 DEF AuthorInv, ByAuthor
  <2>2. CASE Pull(s)
    <3>1. guard = "free" /\ guard' = "free" /\ UNCHANGED <<remote, local>>
      BY <2>2 DEF Pull
    <3>2. \A p \in Dirty' : work'[p].by = "edit"
      BY <1>0, <2>2, <3>1, PullLeavesEdits DEF AuthorInv
    <3>3. QED
      BY <1>0, <3>1, <3>2 DEF AuthorInv, ByAuthor
  <2>3. CASE Rebase(s)
    <3>1. /\ guard' \in {"free", guard} /\ UNCHANGED <<remote, base, local, work>>
          /\ guard = s /\ Dirty = {}
      BY <1>0, <2>3 DEF Rebase, LockInv, CleanInv, Locked
    <3>2. Dirty' = {}
      BY <3>1 DEF Dirty, Commits
    <3>3. QED
      BY <1>0, <3>1, <3>2 DEF AuthorInv, ByAuthor
  <2>4. CASE RebaseApplies(s)
    <3>1. /\ guard' = "free" /\ UNCHANGED <<remote, local>> /\ base' = onto
          /\ work' = Checkout(SubSeq(remote, 1, onto) \o local)
      BY <2>4 DEF RebaseApplies
    <3>2. Dirty' = {}
      BY <3>1 DEF Dirty, Commits
    <3>3. QED
      BY <1>0, <3>1, <3>2 DEF AuthorInv, ByAuthor
  <2>5. CASE RebaseConflicts(s)
    <3>1. guard = s /\ guard' = s /\ UNCHANGED <<remote, local>>
      BY <1>0, <2>5 DEF RebaseConflicts, LockInv, Locked
    <3>2. QED
      BY <1>0, <3>1 DEF AuthorInv, ByAuthor
  <2>6. CASE Abort(s)
    <3>1. /\ guard' = "free" /\ UNCHANGED <<remote, base, local>>
          /\ work' = Checkout(Commits)
      BY <2>6 DEF Abort
    <3>2. Dirty' = {}
      BY <3>1 DEF Dirty, Commits
    <3>3. QED
      BY <1>0, <3>1, <3>2 DEF AuthorInv, ByAuthor
  <2>7. QED
    BY <1>6, <2>1, <2>2, <2>3, <2>4, <2>5, <2>6 DEF SyncChanges
<1>7. ASSUME NEW p \in EditPath, ExternalEdit(p)
      PROVE  AuthorInv'
  <2>1. /\ guard \notin Syncer /\ UNCHANGED <<remote, base, local, guard, call>>
        /\ work' = [work EXCEPT ![p] = Fresh("edit")] /\ p \in Path /\ p \notin ToolPath
        /\ work \in [Path -> Body]
    BY <1>0, <1>7, PathsAssumption DEF ExternalEdit, TypeInv, CommitsSucceed
  <2>2. Fresh("edit").by = "edit"
    BY FreshIsUnmarked DEF Author
  <2>3. \A q \in Dirty' : q = p \/ (q \in Dirty /\ work'[q] = work[q])
    BY <2>1 DEF Dirty, Commits
  <2>4. guard = "tool" => call.path # p
    BY <2>1 DEF AuthorInv
  <2>5. \A q \in Dirty' : work'[q].by = "edit" \/ (guard = "tool" /\ q = call.path)
    BY <2>1, <2>2, <2>3 DEF AuthorInv
  <2>6. guard = "tool" => call.path \in ToolPath /\ work'[call.path].by = "tool"
    BY <1>0, <2>1, <2>4 DEF AuthorInv, TypeInv
  <2>7. QED
    BY <2>1, <2>5, <2>6 DEF AuthorInv, ByAuthor
<1>8. ASSUME NEW p \in RemotePath, OtherPushes(p)
      PROVE  AuthorInv'
  <2>1. UNCHANGED <<local, work, guard, call>> /\ Dirty' = Dirty
    BY <1>0, <1>8, OthersKeepHistory DEF OtherPushes, Dirty
  <2>2. PICK c \in AnyCommit : /\ remote' = Append(remote, c) /\ c.by = "other"
                               /\ \A q \in DOMAIN c.change : c.change[q].by = "other"
    BY <1>0, <1>8, OthersKeepHistory
  <2>3. ByAuthor(remote')
    BY <1>0, <2>2, OneAuthorMore DEF AuthorInv
  <2>4. QED
    BY <2>1, <2>3 DEF AuthorInv, ByAuthor
<1>9. ~Restart
  BY <1>f DEF Restart
<1>10. QED
  BY <1>0, <1>1, <1>2, <1>3, <1>4, <1>5, <1>6, <1>7, <1>8, <1>9, StepKinds

LEMMA AuthorInductive ==
    ASSUME CommitsSucceed
    PROVE  Spec => [](IInv /\ AuthorInv)
<1>0. NoRebaseIsKilled
  BY DEF CommitsSucceed, NoRebaseIsKilled
<1>1. Init => IInv /\ AuthorInv
  <2> SUFFICES ASSUME Init
               PROVE  IInv /\ AuthorInv
    OBVIOUS
  <2>1. IInv
    BY Starts
  <2>2. Dirty = {}
    <3>1. Commits = <<>>
      BY DEF Commits, Init
    <3>2. \A p \in Path : Checkout(<<>>)[p] = Original
      BY DEF Checkout, Touching
    <3>3. QED
      BY <3>1, <3>2 DEF Dirty, Init
  <2>3. guard = "free" /\ remote = <<>> /\ local = <<>>
    BY DEF Init
  <2>4. QED
    BY <2>1, <2>2, <2>3 DEF AuthorInv, ByAuthor
<1>2. IInv /\ AuthorInv /\ [Next]_vars => (IInv /\ AuthorInv)'
  BY <1>0, Steps, AuthorStep
<1>3. QED
  BY <1>1, <1>2, PTL DEF Spec

(* When neither git nor the server fails, and tools and editors write      *)
(* different notes: what is not in git while nobody holds the write guard  *)
(* is an outside edit.                                                     *)
THEOREM OnlyEditsAreUncommitted ==
    ASSUME CommitsSucceed
    PROVE  Spec => []OnlyEditsUncommitted
<1>1. IInv /\ AuthorInv => OnlyEditsUncommitted
  BY TaskAssumption DEF AuthorInv, OnlyEditsUncommitted, Syncer
<1>2. QED
  BY <1>1, AuthorInductive, PTL

(* Under the same assumptions every commit, pushed or not, holds bodies of *)
(* the author it names.                                                    *)
THEOREM CommitsAreAttributed ==
    ASSUME CommitsSucceed
    PROVE  Spec => []Attributed
<1>1. IInv /\ AuthorInv => Attributed
  BY OneAuthorEach DEF AuthorInv, Attributed, ByAuthor, IInv, TypeInv
<1>2. QED
  BY <1>1, AuthorInductive, PTL

-----------------------------------------------------------------------------
(* Syncs that do not overlap: what one finds of the upstream is what it    *)
(* left there, and its answers from git are not those of a detached HEAD.  *)
OneSync == \A r, s \in Syncer : pc[r] # "idle" /\ pc[s] # "idle" => r = s
GitSucceeds == {"commit", "rebase", "diff"} \cap Faults = {}

SyncTypes ==
    /\ old \in [Syncer -> Nat] /\ new \in [Syncer -> Nat]
    /\ attempt \in [Syncer -> 0..1]
    /\ outcome \in [Syncer -> {"clean", "conflict", "error"}]
    /\ due \in [Syncer -> SUBSET AnyCommit]
    /\ kills \in Nat

(* What a sync set out with is in the history, and on the upstream when    *)
(* the sync was clean.                                                     *)
HealthInv ==
    /\ readOnly => local = <<>> /\ call.step = "idle"
    /\ \A s \in Syncer :
         /\ due[s] \subseteq Range(remote) \cup Range(local)
         /\ pc[s] \in {"tip", "lock"} => ~readOnly
         /\ pc[s] = "pull" => readOnly
         /\ pc[s] = "report" /\ outcome[s] = "clean" => due[s] \subseteq Range(remote)

Told(b) == b.by \in {"tool", "other"} => b \in published
ToldTo(n) == \A i \in 1..n : \A p \in DOMAIN remote[i].change : Told(remote[i].change[p])
ToldLocal == \A i \in DOMAIN local : \A p \in DOMAIN local[i].change : Told(local[i].change[p])
Between(b, m, n) ==
    \E i \in (m + 1)..n : \E p \in DOMAIN remote[i].change : b = remote[i].change[p]

(* The upstream has a commit HEAD will never take over.                    *)
Stuck ==
    /\ base < tracking
    /\ \E i \in DOMAIN local, j \in (base + 1)..tracking :
         DOMAIN local[i].change \cap DOMAIN remote[j].change # {}

(* What a sync that is under way knows of the upstream. *)
Underway(s) ==
    /\ pc[s] = "fetch" => old[s] = tracking
    /\ pc[s] \in {"tip", "lock", "rebase", "pick", "abort"} =>
         old[s] <= tracking /\ (ToldTo(old[s]) \/ Stuck)
    /\ pc[s] \in {"lock", "rebase", "pick", "abort"} => new[s] = tracking
    /\ pc[s] \in {"pick", "abort"} => onto = tracking /\ base < tracking
    /\ pc[s] = "abort" => Stuck
    /\ pc[s] = "publish" =>
         /\ old[s] <= new[s] /\ new[s] = tracking /\ ToldTo(old[s])
         /\ ToldTo(base) \/ base = new[s]

Looking == {"tip", "lock", "rebase", "pick", "abort", "publish"}

(* What a tool is about to announce and commit. *)
Owned ==
    call.step # "idle" =>
        /\ call.body.by = "tool"
        /\ work[call.path] = call.body \/ work[call.path].by = "edit"
        /\ call.step = "commit" => call.body \in published

Accounted(p) ==
    \/ Told(work[p])
    \/ call.step = "emit" /\ work[p] = call.body
    \/ \E s \in Syncer : pc[s] = "publish" /\ Between(work[p], old[s], new[s])

Abreast == readOnly \/ ToldTo(tracking) \/ Stuck

(* Everything HEAD and the notes hold was announced, or is about to be.    *)
AccountInv ==
    /\ Owned /\ ToldLocal
    /\ \A p \in Path : Accounted(p)
    /\ \A s \in Syncer : Underway(s)
    /\ (\A s \in Syncer : pc[s] \notin Looking) => Abreast
    /\ (\A s \in Syncer : pc[s] # "publish") => ToldTo(base)

(* Nobody else is under way, and HEAD is on its branch unless the sync has *)
(* a rebase running.                                                       *)
LEMMA Attached ==
    ASSUME LockInv, OneSync, NEW s \in Syncer, pc[s] # "idle"
    PROVE  /\ \A r \in Syncer : r # s => pc[r] = "idle"
           /\ guard \in Syncer => guard = s
           /\ pc[s] \notin {"pick", "abort"} => ~Detached
<1>1. \A r \in Syncer : r # s => pc[r] = "idle"
  BY DEF OneSync
<1>2. guard \in Syncer => pc[guard] # "idle"
  BY DEF LockInv, Locked
<1>3. QED
  BY <1>1, <1>2 DEF LockInv

LEMMA Ranges ==
    ASSUME NEW g \in Seq(AnyCommit), NEW h \in Seq(AnyCommit)
    PROVE  /\ Range(g \o h) = Range(g) \cup Range(h)
           /\ Len(g) = 0 => Range(g) = {}
           /\ Range(<<>>) = {}
<1>1. Range(g) \cup Range(h) \subseteq Range(g \o h)
  <2>1. \A i \in DOMAIN g : i \in DOMAIN (g \o h)
    BY Followed
  <2>2. \A i \in DOMAIN h : Len(g) + i \in DOMAIN (g \o h)
    BY Followed
  <2>3. Range(g) \subseteq Range(g \o h)
    BY <2>1, Followed DEF Range
  <2>4. Range(h) \subseteq Range(g \o h)
    BY <2>2, Followed DEF Range
  <2>5. QED
    BY <2>3, <2>4
<1>2. Range(g \o h) \subseteq Range(g) \cup Range(h)
  <2> SUFFICES ASSUME NEW i \in DOMAIN (g \o h)
               PROVE  (g \o h)[i] \in Range(g) \cup Range(h)
    BY DEF Range
  <2>1. CASE i \in DOMAIN g
    BY <2>1, Followed DEF Range
  <2>2. CASE i \notin DOMAIN g
    <3>1. i - Len(g) \in DOMAIN h /\ i = Len(g) + (i - Len(g))
      BY <2>2, Followed
    <3>2. (g \o h)[i] = h[i - Len(g)]
      BY <3>1, Followed
    <3>3. QED
      BY <3>1, <3>2 DEF Range
  <2>3. QED
    BY <2>1, <2>2
<1>3. (Len(g) = 0 => Range(g) = {}) /\ Range(<<>>) = {}
  BY LenProperties DEF Range
<1>4. QED
  BY <1>1, <1>2, <1>3

LEMMA RangeOfMore ==
    ASSUME NEW h \in Seq(AnyCommit), NEW c \in AnyCommit
    PROVE  Range(Append(h, c)) = Range(h) \cup {c}
<1>1. DOMAIN Append(h, c) = DOMAIN h \cup {Len(h) + 1}
  BY Committed
<1>2. QED
  BY <1>1, Committed DEF Range

(* What a tool commits. *)
LEMMA ToolsCommit ==
    ASSUME TypeInv, AutoCommit
    PROVE  /\ UNCHANGED <<remote, base, tracking, work, onto>>
           /\ \/ local' = local
              \/ /\ Commit("tool", [p \in {call.path} |-> work[p]]) \in AnyCommit
                 /\ local' = Append(local, Commit("tool", [p \in {call.path} |-> work[p]]))
           /\ Range(local) \subseteq Range(local')
<1>1. UNCHANGED <<remote, base, tracking, work, onto>>
  BY DEF AutoCommit
<1>2. CASE local' = local
  BY <1>1, <1>2
<1>3. CASE local' = Append(local, Commit("tool", [p \in {call.path} |-> work[p]]))
  <2>1. {call.path} \in SUBSET Path /\ local \in Seq(AnyCommit)
    BY DEF TypeInv
  <2>2. Commit("tool", [p \in {call.path} |-> work[p]]) \in AnyCommit
    BY <1>1, <1>3, <2>1, CommitOfNotes
  <2>3. QED
    BY <1>1, <1>3, <2>1, <2>2, RangeOfMore
<1>4. QED
  BY <1>2, <1>3 DEF AutoCommit, CommitPath

(* No commit is ever taken out of the history. *)
LEMMA HistoryGrows ==
    ASSUME IInv, [Next]_vars
    PROVE  /\ Range(remote) \subseteq Range(remote')
           /\ Range(local) \subseteq Range(remote') \cup Range(local')
           /\ Range(remote) \cup Range(local) \subseteq AnyCommit
<1>0. TypeInv /\ remote \in Seq(AnyCommit) /\ local \in Seq(AnyCommit)
  BY DEF IInv, TypeInv
<1>r. Range(remote) \cup Range(local) \subseteq AnyCommit
  BY <1>0, ElementOfSeq, LenProperties DEF Range
<1>1. CASE Bookkeeping
  BY <1>r, <1>1 DEF Bookkeeping
<1>2. CASE Pushes
  <2>1. remote' = remote \o local /\ local' = <<>>
    BY <1>0, <1>2, PushKeepsHistory
  <2>2. Range(remote \o local) = Range(remote) \cup Range(local)
    BY <1>0, Ranges
  <2>3. QED
    BY <1>r, <2>1, <2>2
<1>3. ASSUME NEW p \in ToolPath, CallTool(p)
      PROVE  UNCHANGED <<remote, local>>
  BY <1>3 DEF CallTool
<1>4. ASSUME EmitEvent \/ Restart
      PROVE  UNCHANGED <<remote, local>>
  BY <1>4 DEF EmitEvent, Restart, git
<1>5. CASE AutoCommit
  BY <1>0, <1>r, <1>5, ToolsCommit
<1>6. ASSUME NEW s \in Syncer, SyncChanges(s)
      PROVE  UNCHANGED remote /\ Range(local) \subseteq Range(local')
  <2>1. CASE Checkpoint(s)
    <3>1. remote' = remote
      BY <2>1 DEF Checkpoint
    <3>2. CASE local' = local
      BY <3>1, <3>2
    <3>3. CASE local' = Append(local, Commit("edit", [p \in Dirty |-> work[p]]))
      <4>1. Commit("edit", [p \in Dirty |-> work[p]]) \in AnyCommit
        BY <1>0, <2>1, <3>3, CommitOfNotes DEF Checkpoint, Dirty
      <4>2. QED
        BY <1>0, <3>1, <3>3, <4>1, RangeOfMore
    <3>4. QED
      BY <2>1, <3>2, <3>3 DEF Checkpoint
  <2>2. QED
    BY <1>6, <2>1 DEF SyncChanges, Pull, Rebase, RebaseApplies, RebaseConflicts, Abort
<1>7. ASSUME NEW p \in EditPath, ExternalEdit(p)
      PROVE  UNCHANGED <<remote, local>>
  BY <1>7 DEF ExternalEdit
<1>8. ASSUME NEW p \in RemotePath, OtherPushes(p)
      PROVE  UNCHANGED local /\ Range(remote) \subseteq Range(remote')
  BY <1>0, <1>8, OthersKeepHistory, RangeOfMore DEF OtherPushes
<1>9. QED
  BY <1>0, <1>r, <1>1, <1>2, <1>3, <1>4, <1>5, <1>6, <1>7, <1>8, StepKinds

(* A step is one of one sync, or leaves all of them alone, or starts the   *)
(* server again.                                                           *)
Rests(s) ==
    /\ pc'[s] = pc[s] /\ old'[s] = old[s] /\ new'[s] = new[s]
    /\ outcome'[s] = outcome[s] /\ due'[s] = due[s]

StepOf(s) == Tick(s) \/ SyncStep(s) \/ (s = Pusher /\ PushStep)

Elsewhere ==
    \/ \E p \in ToolPath : CallTool(p)
    \/ EmitEvent \/ AutoCommit
    \/ \E p \in EditPath : ExternalEdit(p)
    \/ \E p \in RemotePath : OtherPushes(p)
    \/ Network \/ UNCHANGED vars

LEMMA SyncKinds ==
    ASSUME TypeInv, SyncTypes, [Next]_vars
    PROVE  \/ \E s \in Syncer : StepOf(s) /\ \A r \in Syncer : r # s => Rests(r)
           \/ Elsewhere /\ \A r \in Syncer : Rests(r)
           \/ Restart
<1>1. ASSUME NEW s \in Syncer, Tick(s) \/ SyncStep(s), NEW r \in Syncer, r # s
      PROVE  Rests(r)
  <2>1. CASE Tick(s)
    BY <1>1, <2>1 DEF Tick, Goto, SetsOut, Rests, TypeInv, SyncTypes
  <2>2. CASE OldTip(s)
    BY <1>1, <2>2 DEF OldTip, Goto, Ends, Rests, TypeInv, SyncTypes
  <2>3. CASE Fetch(s)
    BY <1>1, <2>3 DEF Fetch, Goto, Ends, Rests, TypeInv, SyncTypes
  <2>4. CASE NewTip(s)
    BY <1>1, <2>4 DEF NewTip, Goto, Rests, TypeInv, SyncTypes
  <2>5. CASE Checkpoint(s)
    BY <1>1, <2>5 DEF Checkpoint, Goto, Ends, Rests, TypeInv, SyncTypes
  <2>6. CASE Pull(s)
    BY <1>1, <2>6 DEF Pull, Goto, Ends, Rests, TypeInv, SyncTypes
  <2>7. CASE Rebase(s)
    BY <1>1, <2>7 DEF Rebase, Goto, Ends, Rests, TypeInv, SyncTypes
  <2>8. CASE RebaseApplies(s)
    BY <1>1, <2>8 DEF RebaseApplies, Goto, Rests, TypeInv, SyncTypes
  <2>9. CASE RebaseConflicts(s)
    BY <1>1, <2>9 DEF RebaseConflicts, Goto, Rests, TypeInv, SyncTypes
  <2>10. CASE Abort(s)
    BY <1>1, <2>10 DEF Abort, Goto, Ends, Rests, TypeInv, SyncTypes
  <2>11. CASE Publish(s)
    BY <1>1, <2>11 DEF Publish, Goto, Ends, Rests, TypeInv, SyncTypes
  <2>12. CASE CountAhead(s)
    BY <1>1, <2>12 DEF CountAhead, Goto, Ends, Rests, TypeInv, SyncTypes
  <2>13. CASE Push(s)
    BY <1>1, <2>13 DEF Push, Goto, Ends, Rests, TypeInv, SyncTypes
  <2>14. CASE Report(s)
    BY <1>1, <2>14 DEF Report, Goto, Rests, TypeInv, SyncTypes
  <2>15. QED
    BY <1>1, <2>1, <2>2, <2>3, <2>4, <2>5, <2>6, <2>7, <2>8, <2>9, <2>10, <2>11, <2>12, <2>13,
       <2>14 DEF SyncStep
<1>2. ASSUME PushStep, NEW r \in Syncer, r # Pusher
      PROVE  Rests(r)
  BY <1>2 DEF PushStep, Wake, Settle, RetryDue, CountBacklog, PushFirst, Goto, SetsOut, Rests,
              TypeInv, SyncTypes
<1>3. ASSUME Elsewhere, NEW r \in Syncer
      PROVE  Rests(r)
  BY <1>3 DEF Elsewhere, CallTool, EmitEvent, AutoCommit, ExternalEdit, OtherPushes, Network,
              vars, sync, Rests
<1>4. Pusher \in Syncer
  BY DEF Syncer
<1>5. QED
  BY <1>1, <1>2, <1>3, <1>4 DEF Next, Elsewhere, StepOf

LEMMA SyncTypesStep ==
    ASSUME IInv, SyncTypes, [Next]_vars
    PROVE  SyncTypes'
<1>0. /\ TypeInv /\ tracking \in Nat /\ base \in Nat
      /\ Range(local) \in SUBSET AnyCommit /\ Pusher \in Syncer
  BY HistoryGrows, CommitsOf DEF IInv, Syncer
<1>1. ASSUME NEW s \in Syncer, Tick(s) \/ SyncStep(s)
      PROVE  SyncTypes'
  <2>1. CASE Tick(s)
    BY <1>0, <2>1 DEF Tick, SetsOut, SyncTypes
  <2>2. CASE OldTip(s) \/ Fetch(s) \/ NewTip(s) \/ Checkpoint(s) \/ Pull(s)
    BY <1>0, <2>2 DEF OldTip, Fetch, NewTip, Checkpoint, Pull, Ends, SyncTypes
  <2>3. CASE Rebase(s) \/ RebaseApplies(s) \/ RebaseConflicts(s) \/ Abort(s)
    BY <2>3 DEF Rebase, RebaseApplies, RebaseConflicts, Abort, Ends, SyncTypes
  <2>4. CASE Publish(s) \/ CountAhead(s) \/ Push(s) \/ Report(s)
    BY <2>4 DEF Publish, CountAhead, Push, Report, Ends, SyncTypes
  <2>5. QED
    BY <1>1, <2>1, <2>2, <2>3, <2>4 DEF SyncStep
<1>2. ASSUME PushStep
      PROVE  SyncTypes'
  BY <1>0, <1>2 DEF PushStep, Wake, Settle, RetryDue, CountBacklog, PushFirst, SetsOut, SyncTypes
<1>3. ASSUME Elsewhere
      PROVE  SyncTypes'
  BY <1>3 DEF Elsewhere, CallTool, EmitEvent, AutoCommit, ExternalEdit, OtherPushes, Network,
              vars, sync, SyncTypes
<1>4. ASSUME Restart
      PROVE  SyncTypes'
  BY <1>4 DEF Restart, SyncTypes
<1>5. QED
  BY <1>1, <1>2, <1>3, <1>4, <1>0 DEF Next, Elsewhere

(* What a sync set out with stays in the history. *)
LEMMA DueStep ==
    ASSUME IInv, SyncTypes, HealthInv, [Next]_vars, NEW s \in Syncer
    PROVE  due'[s] \subseteq Range(remote') \cup Range(local')
<1>0. TypeInv /\ Pusher \in Syncer /\ due[s] \subseteq Range(remote) \cup Range(local)
  BY DEF IInv, Syncer, HealthInv
<1>1. CASE due'[s] = due[s]
  BY <1>0, <1>1, HistoryGrows
<1>2. CASE due'[s] = Range(local)
  BY <1>2, HistoryGrows
<1>3. CASE Restart
  BY <1>3 DEF Restart
<1>4. ASSUME StepOf(s), ~ due'[s] = due[s]
      PROVE  due'[s] = Range(local)
  <2>1. CASE Tick(s)
    BY <2>1 DEF Tick, SetsOut, SyncTypes
  <2>2. ~SyncStep(s)
    BY <1>4 DEF SyncStep, OldTip, Fetch, NewTip, Checkpoint, Pull, Rebase, RebaseApplies,
                RebaseConflicts, Abort, Publish, CountAhead, Push, Report
  <2>3. CASE s = Pusher /\ PushStep
    BY <1>4, <2>3 DEF PushStep, Wake, Settle, RetryDue, CountBacklog, PushFirst, SetsOut, SyncTypes
  <2>4. QED
    BY <1>4, <2>1, <2>2, <2>3 DEF StepOf
<1>5. QED
  BY <1>0, <1>1, <1>2, <1>3, <1>4, SyncKinds DEF Rests

(* A run that ends clean has nothing left that is not on the upstream. *)
LEMMA HealthStep ==
    ASSUME IInv, SyncTypes, HealthInv, OneSync, [Next]_vars
    PROVE  HealthInv'
<1>0. /\ TypeInv /\ LockInv /\ Pusher \in Syncer /\ local \in Seq(AnyCommit)
      /\ Len(local) \in Nat /\ base \in Nat /\ tracking \in Nat
  BY CommitsOf DEF IInv, Syncer, TypeInv
<1>e. Len(local) = 0 => Range(local) = {}
  BY <1>0, Ranges
<1>1. readOnly' = readOnly
  BY DEF Next, SyncStep, PushStep, CallTool, EmitEvent, AutoCommit, Tick, OldTip, Fetch, NewTip,
         Checkpoint, Pull, Rebase, RebaseApplies, RebaseConflicts, Abort, Publish, CountAhead, Push,
         Report, Wake, Settle, RetryDue, CountBacklog, PushFirst, ExternalEdit, OtherPushes, Network,
         Restart, Pushed, PushFails, PushLost, git, vars
<1>2. ASSUME readOnly
      PROVE  local' = <<>> /\ call'.step = "idle"
  <2>1. local = <<>> /\ call.step = "idle"
    BY <1>2 DEF HealthInv
  <2>2. ASSUME NEW s \in Syncer, StepOf(s)
        PROVE  local' = local \/ local' = <<>>
    <3>1. ~Checkpoint(s)
      BY <1>2 DEF HealthInv, Checkpoint
    <3>2. QED
      BY <2>2, <3>1 DEF StepOf, SyncStep, PushStep, Tick, OldTip, Fetch, NewTip, Pull, Rebase,
         RebaseApplies, RebaseConflicts, Abort, Publish, CountAhead, Push, Report, Wake, Settle,
         RetryDue, CountBacklog, PushFirst, Pushed, PushFails, PushLost, git
  <2>3. ASSUME NEW s \in Syncer, StepOf(s)
        PROVE  call' = call
    BY <2>3 DEF StepOf, SyncStep, PushStep, Tick, OldTip, Fetch, NewTip, Checkpoint, Pull, Rebase,
         RebaseApplies, RebaseConflicts, Abort, Publish, CountAhead, Push, Report, Wake, Settle,
         RetryDue, CountBacklog, PushFirst
  <2>4. ASSUME Elsewhere \/ Restart
        PROVE  local' = local /\ (call' = call \/ call' = Idle)
    BY <1>2, <2>1, <2>4 DEF Elsewhere, Restart, CallTool, EmitEvent, AutoCommit, ExternalEdit,
         OtherPushes, Network, vars, git
  <2>5. QED
    BY <1>0, <2>1, <2>2, <2>3, <2>4, SyncKinds DEF Idle
<1>3. ASSUME NEW s \in Syncer
      PROVE  /\ pc'[s] \in {"tip", "lock"} => ~readOnly'
             /\ pc'[s] = "pull" => readOnly'
  <2>1. CASE Rests(s)
    BY <1>1, <2>1 DEF Rests, HealthInv
  <2>2. CASE Restart
    BY <2>2 DEF Restart
  <2>3. CASE StepOf(s)
    BY <1>0, <1>1, <2>3 DEF StepOf, SyncStep, PushStep, Tick, OldTip, Fetch, NewTip, Checkpoint,
         Pull, Rebase, RebaseApplies, RebaseConflicts, Abort, Publish, CountAhead, Push, Report,
         Wake, Settle, RetryDue, CountBacklog, PushFirst, Goto, Ends, Applied, TypeInv, HealthInv
  <2>4. QED
    BY <1>0, <2>1, <2>2, <2>3, SyncKinds
<1>4. ASSUME NEW s \in Syncer, pc'[s] = "report", outcome'[s] = "clean"
      PROVE  due'[s] \subseteq Range(remote')
  <2>0. /\ Range(remote) \subseteq Range(remote')
        /\ due[s] \subseteq Range(remote) \cup Range(local)
    BY HistoryGrows DEF HealthInv
  <2>1. CASE Rests(s)
    BY <1>4, <2>0, <2>1 DEF Rests, HealthInv
  <2>2. CASE Restart
    BY <1>4, <2>2 DEF Restart
  <2>3. ASSUME StepOf(s)
        PROVE  \/ Pull(s) /\ readOnly
               \/ Publish(s) /\ readOnly
               \/ CountAhead(s) /\ Ahead = 0
               \/ Push(s) /\ Pushed
    <3>1. ~Tick(s) /\ ~OldTip(s) /\ ~Fetch(s) /\ ~NewTip(s)
      BY <1>0, <1>4 DEF Tick, OldTip, Fetch, NewTip, Goto, Ends, TypeInv, SyncTypes
    <3>2. ~Checkpoint(s) /\ ~Rebase(s) /\ ~RebaseApplies(s) /\ ~RebaseConflicts(s) /\ ~Abort(s)
      BY <1>0, <1>4 DEF Checkpoint, Rebase, RebaseApplies, RebaseConflicts, Abort, Goto, Ends,
              Applied, TypeInv, SyncTypes
    <3>3. Pull(s) => readOnly
      BY DEF Pull, HealthInv
    <3>4. Publish(s) => readOnly
      BY <1>0, <1>4 DEF Publish, Goto, TypeInv
    <3>5. CountAhead(s) => Ahead = 0
      BY <1>0, <1>4 DEF CountAhead, Goto, TypeInv
    <3>6. Push(s) => Pushed
      BY <1>0, <1>4 DEF Push, Goto, Ends, TypeInv, SyncTypes
    <3>7. ~Report(s)
      BY <1>0, <1>4 DEF Report, Goto, TypeInv
    <3>8. s = Pusher => ~PushStep
      BY <1>0, <1>4 DEF PushStep, Wake, Settle, RetryDue, CountBacklog, PushFirst, Goto, TypeInv
    <3>9. QED
      BY <2>3, <3>1, <3>2, <3>3, <3>4, <3>5, <3>6, <3>7, <3>8 DEF StepOf, SyncStep
  <2>4. CASE (Pull(s) \/ Publish(s)) /\ readOnly
    <3>1. local = <<>> /\ Range(local) = {} /\ due' = due
      BY <1>e, <2>4 DEF HealthInv, Pull, Publish
    <3>2. QED
      BY <2>0, <3>1
  <2>5. CASE CountAhead(s) /\ Ahead = 0
    <3>1. ~Detached
      BY <1>0, <2>5, Attached DEF CountAhead
    <3>2. Len(local) = 0
      BY <1>0, <2>5, <3>1 DEF Ahead
    <3>3. due' = due
      BY <2>5 DEF CountAhead
    <3>4. QED
      BY <1>e, <2>0, <3>2, <3>3
  <2>6. CASE Push(s) /\ Pushed
    <3>1. remote \in Seq(AnyCommit) /\ remote' = remote \o local /\ due' = due
      BY <1>0, <2>6 DEF Push, Pushed, TypeInv
    <3>2. Range(remote') = Range(remote) \cup Range(local)
      BY <1>0, <3>1, Ranges
    <3>3. QED
      BY <2>0, <3>1, <3>2
  <2>7. QED
    BY <1>0, <2>1, <2>2, <2>3, <2>4, <2>5, <2>6, SyncKinds
<1>5. QED
  BY <1>1, <1>2, <1>3, <1>4, DueStep DEF HealthInv

LEMMA HealthStarts == Init => SyncTypes /\ HealthInv
<1> SUFFICES ASSUME Init PROVE SyncTypes /\ HealthInv
  OBVIOUS
<1>1. SyncTypes
  BY DEF Init, SyncTypes
<1>2. \A s \in Syncer : due[s] = {} /\ pc[s] = "idle"
  BY DEF Init
<1>3. local = <<>> /\ call.step = "idle"
  BY DEF Init, Idle
<1>4. QED
  BY <1>1, <1>2, <1>3 DEF HealthInv

(* When syncs do not overlap, and the server is not killed inside a        *)
(* rebase, a success that is reported is one: what the attempt set out     *)
(* with is on the upstream.                                                *)
THEOREM HealthIsHonest ==
    ASSUME NoRebaseIsKilled
    PROVE  Spec /\ []OneSync => HealthHonest
<1>1. Init => SyncTypes /\ HealthInv
  BY HealthStarts
<1>2. IInv /\ SyncTypes /\ HealthInv /\ OneSync /\ [Next]_vars => SyncTypes' /\ HealthInv'
  BY SyncTypesStep, HealthStep
<1>3. ASSUME IInv, SyncTypes, HealthInv, OneSync, [Next]_vars, NEW s \in Syncer,
             pc[s] \in {"count", "first", "report"}, pc'[s] = "idle", ~failing'
      PROVE  due'[s] \subseteq Range(remote')
  <2>0. /\ TypeInv /\ LockInv /\ Pusher \in Syncer /\ local \in Seq(AnyCommit)
        /\ remote \in Seq(AnyCommit) /\ Len(local) \in Nat
        /\ due[s] \subseteq Range(remote) \cup Range(local)
        /\ base \in Nat /\ tracking \in Nat
    BY <1>3, CommitsOf DEF IInv, Syncer, TypeInv, HealthInv
  <2>1. CASE Restart
    BY <2>1 DEF Restart
  <2>2. CASE Rests(s)
    BY <1>3, <2>2 DEF Rests
  <2>3. CASE StepOf(s)
    <3>1. \/ Report(s) \/ (s = Pusher /\ (CountBacklog \/ PushFirst))
      BY <1>3, <2>3 DEF StepOf, SyncStep, PushStep, Tick, OldTip, Fetch, NewTip, Checkpoint, Pull,
              Rebase, RebaseApplies, RebaseConflicts, Abort, Publish, CountAhead, Push, Wake, Settle,
              RetryDue
    <3>2. CASE Report(s)
      BY <1>3, <3>2 DEF Report, git, HealthInv
    <3>3. CASE s = Pusher /\ CountBacklog
      <4>1. ~Detached
        BY <1>3, <2>0, Attached
      <4>2. Ahead = 0 /\ due' = due /\ remote' = remote
        BY <1>3, <2>0, <3>3 DEF CountBacklog, Goto, git, TypeInv
      <4>3. Len(local) = 0
        BY <2>0, <4>1, <4>2 DEF Ahead
      <4>4. Range(local) = {}
        BY <2>0, <4>3, Ranges
      <4>5. QED
        BY <2>0, <4>2, <4>4
    <3>4. CASE s = Pusher /\ PushFirst
      <4>1. Pushed /\ due' = due
        BY <1>3, <2>0, <3>4 DEF PushFirst, Goto, TypeInv
      <4>2. Range(remote') = Range(remote) \cup Range(local)
        BY <2>0, <4>1, Ranges DEF Pushed
      <4>3. QED
        BY <2>0, <4>1, <4>2
    <3>5. QED
      BY <3>1, <3>2, <3>3, <3>4
  <2>4. QED
    BY <1>3, <2>0, <2>1, <2>2, <2>3, SyncKinds
<1>4. IInv /\ SyncTypes /\ HealthInv /\ OneSync /\ [Next]_vars =>
        [ \A s \in Syncer :
            /\ pc[s] \in {"count", "first", "report"} /\ pc'[s] = "idle" /\ ~failing'
              => due'[s] \subseteq Range(remote') ]_vars
  BY <1>3
<1>5. QED
  BY <1>1, <1>2, <1>4, SyncInductive, PTL DEF Spec, HealthHonest

-----------------------------------------------------------------------------
(* What was announced. *)

(* The part of a history from one commit to another. *)
LEMMA PartOf ==
    ASSUME NEW h \in Seq(AnyCommit), NEW m \in Nat \ {0}, NEW n \in 0..Len(h)
    PROVE  /\ Len(h) \in Nat
           /\ Touched(SubSeq(h, m, n)) = UNION {DOMAIN h[j].change : j \in m..n}
           /\ BodiesOf(SubSeq(h, m, n)) = UNION {{h[j].change[p] : p \in DOMAIN h[j].change} : j \in m..n}
<1> DEFINE g == SubSeq(h, m, n)
<1>1. Len(h) \in Nat /\ n \in Int /\ m \in Int /\ \A i \in m..n : h[i] \in AnyCommit
  BY LenProperties, ElementOfSeq
<1>2. g \in Seq(AnyCommit) /\ Len(g) = (IF m <= n THEN n - m + 1 ELSE 0)
      /\ \A i \in 1..(n - m + 1) : g[i] = h[m + i - 1]
  BY <1>1, SubSeqProperties
<1>3. DOMAIN g = 1..Len(g)
  BY <1>2, LenProperties
<1> HIDE DEF g
<1>4. \A i \in DOMAIN g : m + i - 1 \in m..n /\ g[i] = h[m + i - 1]
  BY <1>1, <1>2, <1>3
<1>5. ASSUME NEW j \in m..n
      PROVE  j - m + 1 \in DOMAIN g /\ g[j - m + 1] = h[j]
  <2>1. j - m + 1 \in 1..(n - m + 1) /\ m + (j - m + 1) - 1 = j /\ m <= n
    BY <1>1
  <2>2. g[j - m + 1] = h[m + (j - m + 1) - 1]
    BY <1>2, <2>1
  <2>3. QED
    BY <1>2, <1>3, <2>1, <2>2
<1>6. Touched(g) = UNION {DOMAIN h[j].change : j \in m..n}
  BY <1>4, <1>5 DEF Touched
<1>7. BodiesOf(g) = UNION {{h[j].change[p] : p \in DOMAIN h[j].change} : j \in m..n}
  <2>1. ASSUME NEW b \in BodiesOf(g)
        PROVE  \E j \in m..n : \E p \in DOMAIN h[j].change : b = h[j].change[p]
    BY <1>4 DEF BodiesOf
  <2>2. ASSUME NEW j \in m..n, NEW p \in DOMAIN h[j].change
        PROVE  h[j].change[p] \in BodiesOf(g)
    BY <1>5 DEF BodiesOf
  <2>3. QED
    BY <2>1, <2>2
<1>8. QED
  BY <1>1, <1>6, <1>7 DEF g

(* The upstream only gets longer, and nothing that was announced is taken  *)
(* back.                                                                   *)
Grows ==
    /\ Len(remote) \in Nat /\ Len(remote') \in Nat /\ Len(remote) <= Len(remote')
    /\ \A i \in 1..Len(remote) : remote'[i] = remote[i]
    /\ published \subseteq published'

LEMMA UpstreamGrows ==
    ASSUME IInv, [Next]_vars
    PROVE  Grows
<1>0. /\ TypeInv /\ remote \in Seq(AnyCommit) /\ local \in Seq(AnyCommit) /\ Len(remote) \in Nat
      /\ Len(local) \in Nat
  BY CommitsOf DEF IInv, TypeInv
<1>1. /\ Len(remote') \in Nat /\ Len(remote) <= Len(remote')
      /\ \A i \in 1..Len(remote) : remote'[i] = remote[i]
  <2>1. CASE Pushes
    BY <1>0, <2>1, PushKeepsHistory, Followed
  <2>2. ASSUME NEW p \in RemotePath, OtherPushes(p)
        PROVE  /\ Len(remote') \in Nat /\ Len(remote) <= Len(remote')
               /\ \A i \in 1..Len(remote) : remote'[i] = remote[i]
    <3>1. PICK c \in AnyCommit : remote' = Append(remote, c)
      BY <1>0, <2>2, OthersKeepHistory
    <3>2. QED
      BY <1>0, <3>1, Committed
  <2>3. ASSUME NEW s \in Syncer, SyncChanges(s)
        PROVE  remote' = remote
    BY <2>3 DEF SyncChanges, Checkpoint, Pull, Rebase, RebaseApplies, RebaseConflicts, Abort
  <2>4. ASSUME NEW p \in Path, CallTool(p) \/ ExternalEdit(p)
        PROVE  remote' = remote
    BY <2>4 DEF CallTool, ExternalEdit
  <2>5. ASSUME EmitEvent \/ AutoCommit \/ Restart \/ Bookkeeping
        PROVE  remote' = remote
    BY <2>5 DEF EmitEvent, AutoCommit, Restart, Bookkeeping, git
  <2>6. QED
    BY <1>0, <2>1, <2>2, <2>3, <2>4, <2>5, StepKinds, PathsAssumption
<1>2. published \subseteq published'
  BY DEF Next, SyncStep, PushStep, CallTool, EmitEvent, AutoCommit, Tick, OldTip, Fetch, NewTip,
         Checkpoint, Pull, Rebase, RebaseApplies, RebaseConflicts, Abort, Publish, CountAhead, Push,
         Report, Wake, Settle, RetryDue, CountBacklog, PushFirst, ExternalEdit, OtherPushes, Network,
         Restart, vars
<1>3. QED
  BY <1>0, <1>1, <1>2 DEF Grows

LEMMA TellsOn ==
    ASSUME Grows
    PROVE  /\ \A b : Told(b) => Told(b)'
           /\ \A n \in 0..Len(remote) : ToldTo(n) => ToldTo(n)'
           /\ \A b : \A m \in Nat : \A n \in 0..Len(remote) : Between(b, m, n) => Between(b, m, n)'
<1>1. ASSUME NEW b, Told(b)
      PROVE  Told(b)'
  BY <1>1 DEF Told, Grows
<1>2. ASSUME NEW n \in 0..Len(remote), ToldTo(n)
      PROVE  ToldTo(n)'
  <2>1. \A i \in 1..n : i \in 1..Len(remote)
    BY DEF Grows
  <2>2. QED
    BY <1>1, <1>2, <2>1 DEF ToldTo, Grows
<1>3. ASSUME NEW b, NEW m \in Nat, NEW n \in 0..Len(remote), Between(b, m, n)
      PROVE  Between(b, m, n)'
  <2>1. \A i \in (m + 1)..n : i \in 1..Len(remote)
    BY DEF Grows
  <2>2. QED
    BY <1>3, <2>1 DEF Between, Grows
<1>4. QED
  BY <1>1, <1>2, <1>3

(* Commits on top do not make the two histories agree. *)
LEMMA StaysStuck ==
    ASSUME Grows, Stuck, base \in Nat, tracking \in 0..Len(remote), tracking' \in Nat,
           base' = base, tracking <= tracking',
           \A i \in DOMAIN local : i \in DOMAIN local' /\ local'[i] = local[i]
    PROVE  Stuck'
<1>1. PICK i \in DOMAIN local : \E j \in (base + 1)..tracking :
         DOMAIN local[i].change \cap DOMAIN remote[j].change # {}
  BY DEF Stuck
<1>2. PICK j \in (base + 1)..tracking : DOMAIN local[i].change \cap DOMAIN remote[j].change # {}
  BY <1>1
<1>3. j \in (base + 1)..tracking' /\ j \in 1..Len(remote) /\ base < tracking'
  BY DEF Stuck, Grows
<1>4. remote'[j] = remote[j] /\ i \in DOMAIN local' /\ local'[i] = local[i]
  BY <1>3 DEF Grows
<1>5. QED
  BY <1>2, <1>3, <1>4 DEF Stuck

(* A rebase conflicts when the histories do not agree. *)
LEMMA ClashesAreStuck ==
    ASSUME TypeInv, onto = tracking, base < tracking
    PROVE  Stuck <=> Clashing # {}
<1>1. /\ remote \in Seq(AnyCommit) /\ base + 1 \in Nat \ {0} /\ tracking \in 0..Len(remote)
  BY CommitsOf DEF TypeInv
<1>2. Touched(SubSeq(remote, base + 1, onto)) = UNION {DOMAIN remote[j].change : j \in (base + 1)..tracking}
  BY <1>1, PartOf
<1>3. Clashing = Touched(local) \cap UNION {DOMAIN remote[j].change : j \in (base + 1)..tracking}
  BY <1>2 DEF Clashing
<1>4. QED
  BY <1>3 DEF Stuck, Touched

(* What a note is when HEAD is checked out. *)
LEMMA CheckedOut ==
    ASSUME TypeInv, NEW n \in 0..Len(remote), NEW p \in Path
    PROVE  \/ Checkout(SubSeq(remote, 1, n) \o local)[p] = Original
           \/ \E i \in 1..n : \E q \in DOMAIN remote[i].change :
                Checkout(SubSeq(remote, 1, n) \o local)[p] = remote[i].change[q]
           \/ \E i \in DOMAIN local : \E q \in DOMAIN local[i].change :
                Checkout(SubSeq(remote, 1, n) \o local)[p] = local[i].change[q]
<1> DEFINE g == SubSeq(remote, 1, n)
           h == g \o local
<1>1. remote \in Seq(AnyCommit) /\ local \in Seq(AnyCommit)
  BY DEF TypeInv
<1>2. g \in Seq(AnyCommit) /\ Len(g) = n /\ \A i \in 1..n : g[i] = remote[i]
  BY <1>1, Prefix
<1> HIDE DEF g
<1>3. /\ h \in Seq(AnyCommit) /\ DOMAIN h = 1..(n + Len(local))
      /\ DOMAIN local = 1..Len(local) /\ Len(local) \in Nat /\ n \in Nat
      /\ \A i \in 1..n : h[i] = remote[i]
      /\ \A i \in DOMAIN local : h[n + i] = local[i]
  <2>1. /\ h \in Seq(AnyCommit) /\ DOMAIN h = 1..(Len(g) + Len(local)) /\ DOMAIN g = 1..Len(g)
        /\ DOMAIN local = 1..Len(local) /\ Len(local) \in Nat
        /\ \A i \in DOMAIN g : h[i] = g[i]
        /\ \A i \in DOMAIN local : h[Len(g) + i] = local[i]
    BY <1>1, <1>2, Followed
  <2> HIDE DEF h
  <2>2. QED
    BY <1>2, <2>1
<1> HIDE DEF h
<1>4. ASSUME Checkout(h)[p] # Original
      PROVE  \/ \E i \in 1..n : \E q \in DOMAIN remote[i].change : Checkout(h)[p] = remote[i].change[q]
             \/ \E i \in DOMAIN local : \E q \in DOMAIN local[i].change :
                  Checkout(h)[p] = local[i].change[q]
  <2>1. PICK i \in DOMAIN h : p \in DOMAIN h[i].change /\ Checkout(h)[p] = h[i].change[p]
    BY <1>3, <1>4, CheckedOutBody
  <2>2. CASE i \in 1..n
    BY <1>3, <2>1, <2>2
  <2>3. CASE i \notin 1..n
    <3>1. i - n \in DOMAIN local /\ i = n + (i - n)
      BY <1>3, <2>1, <2>3
    <3>2. h[i] = local[i - n]
      BY <1>3, <3>1
    <3>3. QED
      BY <2>1, <3>1, <3>2
  <2>4. QED
    BY <2>2, <2>3
<1>5. QED
  BY <1>4 DEF h, g

ToldCommits(h) == \A i \in DOMAIN h : \A p \in DOMAIN h[i].change : Told(h[i].change[p])

LEMMA CommitTold ==
    ASSUME Grows, NEW h \in Seq(AnyCommit), NEW c \in AnyCommit, ToldCommits(h),
           \A p \in DOMAIN c.change : Told(c.change[p])
    PROVE  \A i \in DOMAIN Append(h, c) : \A p \in DOMAIN Append(h, c)[i].change :
             Told(Append(h, c)[i].change[p])'
<1>1. \A b : Told(b) => Told(b)'
  BY TellsOn
<1>2. DOMAIN Append(h, c) = DOMAIN h \cup {Len(h) + 1}
      /\ (\A i \in DOMAIN h : Append(h, c)[i] = h[i]) /\ Append(h, c)[Len(h) + 1] = c
  BY Committed
<1>3. QED
  BY <1>1, <1>2 DEF ToldCommits

(* What is left as it was while a tool, an editor or another clone acts.   *)
LEMMA ElsewhereStep ==
    ASSUME IInv, SyncTypes, AccountInv, [Next]_vars, Elsewhere, \A r \in Syncer : Rests(r)
    PROVE  AccountInv'
<1>0. /\ TypeInv /\ LockInv /\ Grows
      /\ remote \in Seq(AnyCommit) /\ local \in Seq(AnyCommit)
      /\ Len(remote) \in Nat /\ base \in 0..Len(remote) /\ tracking \in 0..Len(remote)
      /\ "free" \notin Syncer /\ "tool" \notin Syncer
  BY CommitsOf, UpstreamGrows, TaskAssumption DEF IInv, TypeInv, Syncer
<1>f. UNCHANGED <<base, tracking, onto, readOnly>>
  BY DEF Elsewhere, CallTool, EmitEvent, AutoCommit, ExternalEdit, OtherPushes, Network, vars, git
<1>p. \A r \in Syncer : pc'[r] = pc[r] /\ old'[r] = old[r] /\ new'[r] = new[r]
  BY DEF Rests
<1>l. \A i \in DOMAIN local : i \in DOMAIN local' /\ local'[i] = local[i]
  <2>1. CASE AutoCommit
    <3>1. CASE local' = local
      BY <3>1
    <3>2. CASE local' # local
      BY <1>0, <2>1, <3>2, ToolsCommit, Committed
    <3>3. QED
      BY <3>1, <3>2
  <2>2. CASE ~AutoCommit
    BY <2>2 DEF Elsewhere, CallTool, EmitEvent, ExternalEdit, OtherPushes, Network, vars, git
  <2>3. QED
    BY <2>1, <2>2
<1>s. Stuck => Stuck'
  BY <1>0, <1>f, <1>l, StaysStuck
<1>t. /\ \A b : Told(b) => Told(b)'
      /\ \A n \in 0..Len(remote) : ToldTo(n) => ToldTo(n)'
      /\ \A b : \A m \in Nat : \A n \in 0..Len(remote) : Between(b, m, n) => Between(b, m, n)'
  BY <1>0, TellsOn
<1>b. (ToldTo(base) => ToldTo(base)') /\ (ToldTo(tracking) => ToldTo(tracking)')
  BY <1>0, <1>f, <1>t DEF ToldTo
<1>1. \A r \in Syncer : Underway(r)'
  <2> TAKE r \in Syncer
  <2>1. Underway(r) /\ old[r] \in Nat
    BY DEF AccountInv, SyncTypes
  <2>2. old[r] <= tracking /\ ToldTo(old[r]) => ToldTo(old[r])'
    <3>1. old[r] <= tracking => old[r] \in 0..Len(remote)
      BY <1>0, <2>1
    <3>2. old[r]' = old[r]
      BY <1>p
    <3>3. ASSUME NEW n \in 0..Len(remote), n = old[r], ToldTo(n)
          PROVE  ToldTo(old[r])'
      BY <1>t, <3>2, <3>3 DEF ToldTo
    <3>4. QED
      BY <3>1, <3>3
  <2>3. QED
    BY <1>p, <1>f, <1>s, <1>b, <2>1, <2>2 DEF Underway
<1>2. (\A s \in Syncer : pc'[s] \notin Looking) => Abreast'
  BY <1>p, <1>f, <1>s, <1>b DEF AccountInv, Abreast
<1>3. (\A s \in Syncer : pc'[s] # "publish") => ToldTo(base)'
  BY <1>p, <1>b DEF AccountInv
<1>w. ASSUME NEW p \in Path, work'[p] = work[p], call.step = "emit" /\ work[p] = call.body =>
                Told(work[p])' \/ (call.step = "emit" /\ work[p] = call.body)'
      PROVE  Accounted(p)'
  <2>1. CASE Told(work[p])
    BY <1>t, <1>w, <2>1 DEF Accounted
  <2>2. CASE call.step = "emit" /\ work[p] = call.body
    BY <1>w, <2>2 DEF Accounted
  <2>3. ASSUME NEW s \in Syncer, pc[s] = "publish", Between(work[p], old[s], new[s])
        PROVE  pc'[s] = "publish" /\ Between(work[p], old[s], new[s])'
    <3>1. new[s] \in 0..Len(remote) /\ old[s] \in Nat
      BY <1>0, <2>3 DEF AccountInv, Underway, SyncTypes
    <3>2. pc'[s] = pc[s] /\ old'[s] = old[s] /\ new'[s] = new[s]
      BY <1>p
    <3>3. ASSUME NEW b, NEW m \in Nat, NEW n \in 0..Len(remote),
                 b = work[p], m = old[s], n = new[s]
          PROVE  Between(work[p], old[s], new[s])'
      <4>1. Between(b, m, n)'
        BY <1>t, <2>3, <3>3
      <4>2. b = work'[p] /\ m = old'[s] /\ n = new'[s]
        BY <1>w, <3>2, <3>3
      <4>3. QED
        BY <4>1, <4>2 DEF Between
    <3>4. QED
      BY <2>3, <3>1, <3>2, <3>3
  <2>4. QED
    BY <2>1, <2>2, <2>3 DEF AccountInv, Accounted
<1>4. Owned' /\ ToldLocal' /\ \A p \in Path : Accounted(p)'
  <2>u. local' = local => ToldLocal'
    BY <1>t DEF AccountInv, ToldLocal
  <2>1. ASSUME NEW p \in ToolPath, CallTool(p)
        PROVE  Owned' /\ ToldLocal' /\ \A q \in Path : Accounted(q)'
    <3>1. /\ call' = [step |-> "emit", path |-> p, body |-> Fresh("tool")]
          /\ work' = [work EXCEPT ![p] = Fresh("tool")] /\ p \in Path /\ local' = local
          /\ guard = "free" /\ Fresh("tool").by = "tool"
      BY <2>1, PathsAssumption DEF CallTool, Fresh
    <3>2. call.step = "idle"
      BY <1>0, <3>1 DEF LockInv
    <3>3. ASSUME NEW q \in Path
          PROVE  Accounted(q)'
      <4>1. CASE q = p
        BY <1>0, <3>1, <4>1 DEF TypeInv, Accounted
      <4>2. CASE q # p
        <5>1. work'[q] = work[q]
          BY <1>0, <3>1, <4>2 DEF TypeInv
        <5>2. QED
          BY <1>w, <3>2, <5>1
      <4>3. QED
        BY <4>1, <4>2
    <3>4. QED
      BY <1>0, <2>u, <3>1, <3>3 DEF TypeInv, Owned
  <2>2. CASE EmitEvent
    <3>1. /\ call' = [call EXCEPT !.step = "commit"] /\ call.step = "emit"
          /\ published' = published \cup {call.body} /\ work' = work /\ local' = local
      BY <2>2 DEF EmitEvent, git
    <3>2. call'.body = call.body /\ call'.path = call.path /\ call'.step = "commit"
      BY <1>0, <3>1 DEF TypeInv
    <3>3. ASSUME NEW q \in Path
          PROVE  Accounted(q)'
      BY <1>w, <3>1 DEF Told, Accounted
    <3>4. QED
      BY <2>u, <3>1, <3>2, <3>3 DEF AccountInv, Owned
  <2>3. CASE AutoCommit
    <3>1. /\ call' = Idle /\ call.step = "commit" /\ work' = work /\ published' = published
      BY <2>3 DEF AutoCommit
    <3>2. Told(work[call.path])
      BY <3>1 DEF AccountInv, Told, Owned
    <3>3. ToldLocal'
      <4>1. CASE local' = local
        BY <2>u, <4>1
      <4>2. CASE local' # local
        <5> DEFINE c == Commit("tool", [q \in {call.path} |-> work[q]])
        <5>1. c \in AnyCommit /\ local' = Append(local, c)
          BY <1>0, <2>3, <4>2, ToolsCommit
        <5>2. \A q \in DOMAIN c.change : Told(c.change[q])
          BY <3>2 DEF Commit
        <5> HIDE DEF c
        <5>3. ToldCommits(local)
          BY DEF AccountInv, ToldLocal, ToldCommits
        <5>4. QED
          BY <1>0, <5>1, <5>2, <5>3, CommitTold DEF ToldLocal
      <4>3. QED
        BY <4>1, <4>2
    <3>4. \A q \in Path : Accounted(q)'
      BY <1>w, <3>1
    <3>5. QED
      BY <3>1, <3>3, <3>4 DEF Idle, Owned
  <2>4. ASSUME NEW p \in EditPath, ExternalEdit(p)
        PROVE  Owned' /\ ToldLocal' /\ \A q \in Path : Accounted(q)'
    <3>1. /\ call' = call /\ local' = local /\ work' = [work EXCEPT ![p] = Fresh("edit")]
          /\ Fresh("edit").by = "edit" /\ published' = published
      BY <2>4 DEF ExternalEdit, Fresh
    <3>2. \A q \in Path : work'[q] = work[q] \/ work'[q] = Fresh("edit")
      BY <1>0, <3>1 DEF TypeInv
    <3>3. call.path \in Path
      BY <1>0 DEF TypeInv
    <3>4. ASSUME NEW q \in Path
          PROVE  Accounted(q)'
      <4>1. CASE work'[q] = work[q]
        BY <1>w, <3>1, <4>1
      <4>2. CASE work'[q] = Fresh("edit")
        BY <3>1, <4>2 DEF Told, Accounted
      <4>3. QED
        BY <3>2, <4>1, <4>2
    <3>5. QED
      BY <2>u, <3>1, <3>2, <3>3, <3>4 DEF AccountInv, Owned
  <2>5. ASSUME UNCHANGED <<call, local, work>>
        PROVE  Owned' /\ ToldLocal' /\ \A q \in Path : Accounted(q)'
    <3>1. published \subseteq published'
      BY <1>0 DEF Grows
    <3>2. \A q \in Path : Accounted(q)'
      BY <1>w, <2>5
    <3>3. QED
      BY <2>u, <2>5, <3>1, <3>2 DEF AccountInv, Owned
  <2>6. QED
    BY <2>1, <2>2, <2>3, <2>4, <2>5 DEF Elsewhere, OtherPushes, Network, vars, git
<1>5. QED
  BY <1>1, <1>2, <1>3, <1>4 DEF AccountInv

(* A step of a sync that writes no note, no commit and no record.          *)
Frames == UNCHANGED <<readOnly, remote, base, local, work, call, published>>

LEMMA FrameStep ==
    ASSUME IInv, SyncTypes, AccountInv, OneSync, Frames, Grows, NEW s \in Syncer,
           pc[s] \notin {"idle", "publish"}, \A r \in Syncer : r # s => Rests(r),
           Underway(s)', pc'[s] \notin Looking => Abreast'
    PROVE  AccountInv'
<1>0. /\ LockInv /\ \A r \in Syncer : r # s => pc[r] = "idle" /\ pc'[r] = "idle"
      /\ base \in 0..Len(remote)
  BY Attached, CommitsOf DEF IInv, Rests
<1>t. \A b : Told(b) => Told(b)'
  BY TellsOn
<1>1. Owned' /\ ToldLocal'
  BY DEF Frames, AccountInv, Owned, ToldLocal, Told
<1>2. \A p \in Path : Accounted(p)'
  <2> TAKE p \in Path
  <2>1. Told(work[p]) \/ (call.step = "emit" /\ work[p] = call.body)
    BY <1>0 DEF AccountInv, Accounted
  <2>2. QED
    BY <2>1 DEF Frames, Accounted, Told
<1>3. ToldTo(base)'
  BY <1>0 DEF Frames, AccountInv, ToldTo, Told
<1>4. \A r \in Syncer : Underway(r)'
  BY <1>0 DEF Underway
<1>5. QED
  BY <1>1, <1>2, <1>3, <1>4 DEF AccountInv

(* A sync or the pusher sets out. *)
LEMMA SetOutStep ==
    ASSUME IInv, SyncTypes, AccountInv, NEW s \in Syncer, \A r \in Syncer : r # s => Rests(r),
           Frames, UNCHANGED <<tracking, onto, old, new>>,
           pc[s] \in {"idle", "settle"}, pc'[s] \in {"start", "settle", "count"}
    PROVE  AccountInv'
<1>1. Owned' /\ ToldLocal' /\ \A n \in Nat : ToldTo(n) => ToldTo(n)'
  BY DEF Frames, AccountInv, Owned, ToldLocal, Told, ToldTo
<1>2. \A p \in Path : Accounted(p)'
  <2> TAKE p \in Path
  <2>1. CASE Told(work[p]) \/ (call.step = "emit" /\ work[p] = call.body)
    BY <2>1 DEF Frames, Accounted, Told
  <2>2. ASSUME NEW r \in Syncer, pc[r] = "publish", Between(work[p], old[r], new[r])
        PROVE  pc'[r] = "publish" /\ Between(work[p], old[r], new[r])'
    BY <2>2 DEF Frames, Between, Rests
  <2>3. QED
    BY <2>1, <2>2 DEF AccountInv, Accounted
<1>3. base \in Nat /\ tracking \in Nat /\ old \in [Syncer -> Nat]
  BY CommitsOf DEF IInv, SyncTypes
<1>4. (ToldTo(base) => ToldTo(base)') /\ (ToldTo(tracking) => ToldTo(tracking)') /\ (Stuck <=> Stuck')
  BY <1>1, <1>3 DEF Frames, ToldTo, Stuck
<1>5. \A r \in Syncer : Underway(r)'
  <2> TAKE r \in Syncer
  <2>1. CASE r = s
    BY <2>1 DEF Underway
  <2>2. CASE r # s
    <3>1. pc'[r] = pc[r] /\ Underway(r) /\ (ToldTo(old[r]) => ToldTo(old[r])')
      BY <1>1, <1>3, <2>2 DEF Rests, AccountInv, Frames, ToldTo
    <3>2. QED
      BY <1>4, <3>1 DEF Underway, Frames
  <2>3. QED
    BY <2>1, <2>2
<1>6. (\A r \in Syncer : pc'[r] \notin Looking) => Abreast'
  <2>1. (\A r \in Syncer : pc'[r] \notin Looking) => \A r \in Syncer : pc[r] \notin Looking
    BY DEF Rests, Looking
  <2>2. Abreast => Abreast'
    BY <1>4 DEF Abreast, Frames
  <2>3. QED
    BY <2>1, <2>2 DEF AccountInv
<1>7. (\A r \in Syncer : pc'[r] # "publish") => ToldTo(base)'
  <2>1. (\A r \in Syncer : pc'[r] # "publish") => \A r \in Syncer : pc[r] # "publish"
    BY DEF Rests
  <2>2. QED
    BY <1>4, <2>1 DEF AccountInv
<1>8. QED
  BY <1>1, <1>2, <1>5, <1>6, <1>7 DEF AccountInv

(* What a sync knows that is alone under way. *)
LEMMA Knows ==
    ASSUME IInv, SyncTypes, AccountInv, OneSync, NEW s \in Syncer, pc[s] # "idle"
    PROVE  /\ TypeInv /\ LockInv /\ pc[s] \in Step
           /\ \A r \in Syncer : r # s => pc[r] = "idle"
           /\ guard \in Syncer => guard = s
           /\ pc[s] \notin {"pick", "abort"} => ~Detached
           /\ Owned /\ ToldLocal /\ Underway(s)
           /\ pc[s] \notin Looking => Abreast
           /\ pc[s] # "publish" =>
                /\ ToldTo(base)
                /\ \A p \in Path : Told(work[p]) \/ (call.step = "emit" /\ work[p] = call.body)
           /\ Len(remote) \in Nat /\ base \in 0..Len(remote) /\ tracking \in 0..Len(remote)
           /\ old[s] \in Nat /\ new[s] \in Nat
<1>1. TypeInv /\ LockInv
  BY DEF IInv
<1>2. \A r \in Syncer : r # s => pc[r] = "idle"
  BY <1>1, Attached
<1>3. pc[s] # "publish" => ToldTo(base)
  BY <1>2 DEF AccountInv
<1>4. pc[s] # "publish" => \A p \in Path : Told(work[p]) \/ (call.step = "emit" /\ work[p] = call.body)
  BY <1>2 DEF AccountInv, Accounted
<1>5. pc[s] \notin Looking => Abreast
  BY <1>2 DEF AccountInv, Looking
<1>6. QED
  BY <1>1, <1>2, <1>3, <1>4, <1>5, Attached, CommitsOf DEF AccountInv, TypeInv, SyncTypes

(* The looking around of a sync. *)
LEMMA LookingStep ==
    ASSUME GitSucceeds, IInv, SyncTypes, AccountInv, OneSync, [Next]_vars, NEW s \in Syncer,
           \A r \in Syncer : r # s => Rests(r),
           \/ OldTip(s) \/ Fetch(s) \/ NewTip(s) \/ Rebase(s) \/ CountAhead(s) \/ Report(s)
    PROVE  AccountInv'
<1>0. Grows /\ pc[s] \notin {"idle", "publish"} /\ Frames /\ pc \in [Syncer -> Step]
      /\ old \in [Syncer -> Nat] /\ new \in [Syncer -> Nat]
  BY UpstreamGrows DEF OldTip, Fetch, NewTip, Rebase, CountAhead, Report, Frames, git, IInv, TypeInv, SyncTypes
<1>k. /\ TypeInv /\ (pc[s] \notin {"pick", "abort"} => ~Detached)
      /\ Underway(s) /\ (pc[s] \notin Looking => Abreast) /\ ToldTo(base)
      /\ Len(remote) \in Nat /\ base \in 0..Len(remote) /\ tracking \in 0..Len(remote)
      /\ old[s] \in Nat /\ new[s] \in Nat
  BY <1>0, Knows
<1>t. \A n \in Nat : ToldTo(n) <=> ToldTo(n)'
  BY <1>0 DEF Frames, ToldTo, Told
<1>s. tracking <= tracking' /\ tracking' \in Nat => (Stuck => Stuck')
  BY <1>0, <1>k, StaysStuck DEF Frames
<1>q. UNCHANGED tracking => (Abreast => Abreast')
  <2>1. UNCHANGED tracking => (ToldTo(tracking) => ToldTo(tracking)')
    BY <1>0 DEF Frames, ToldTo, Told
  <2>2. UNCHANGED tracking => (Stuck => Stuck')
    BY <1>k, <1>s
  <2>3. QED
    BY <1>0, <2>1, <2>2 DEF Abreast, Frames
<1> SUFFICES Underway(s)' /\ (pc'[s] \notin Looking => Abreast')
  BY <1>0, FrameStep
<1>1. CASE OldTip(s)
  <2>1. pc[s] = "start" /\ UNCHANGED tracking /\ Abreast
    BY <1>1, <1>k DEF OldTip, git, Looking
  <2>2. \/ pc'[s] = "report"
        \/ pc'[s] = "fetch" /\ old'[s] = tracking
    BY <1>0, <1>1 DEF OldTip, Ends, Goto
  <2>3. QED
    BY <1>q, <2>1, <2>2 DEF Underway
<1>2. CASE Fetch(s)
  <2>1. pc[s] = "fetch" /\ Abreast /\ old[s] = tracking /\ old'[s] = old[s] /\ readOnly' = readOnly
    BY <1>2, <1>k DEF Fetch, Looking, Underway
  <2>2. CASE online
    <3>1. /\ tracking' = Len(remote) /\ tracking <= tracking'
          /\ pc'[s] = IF readOnly THEN "pull" ELSE "tip"
      BY <1>0, <1>k, <1>2, <2>2 DEF Fetch, Goto
    <3>2. ~readOnly => ToldTo(old[s])' \/ Stuck'
      <4>1. ToldTo(tracking) => ToldTo(old[s])'
        BY <1>t, <1>k, <2>1 DEF ToldTo
      <4>2. QED
        BY <1>s, <1>k, <2>1, <3>1, <4>1 DEF Abreast
    <3>3. QED
      BY <2>1, <3>1, <3>2 DEF Underway, Abreast, Looking
  <2>3. CASE ~online
    <3>1. pc'[s] = "report" /\ UNCHANGED tracking
      BY <1>0, <1>2, <2>3 DEF Fetch, Ends, Goto
    <3>2. QED
      BY <1>q, <2>1, <3>1 DEF Underway
  <2>4. QED
    BY <2>2, <2>3
<1>3. CASE NewTip(s)
  <2>1. /\ pc[s] = "tip" /\ pc'[s] = "lock" /\ UNCHANGED <<tracking, base>>
        /\ new'[s] = tracking /\ old'[s] = old[s]
    BY <1>0, <1>k, <1>3 DEF NewTip, Goto, git
  <2>2. old[s] <= tracking /\ (ToldTo(old[s]) \/ Stuck)
    BY <1>k, <2>1 DEF Underway
  <2>3. ToldTo(old[s])' \/ Stuck'
    <3>1. ToldTo(old[s]) => ToldTo(old[s])'
      BY <1>t, <1>k, <2>1 DEF ToldTo
    <3>2. QED
      BY <1>k, <1>s, <2>1, <2>2, <3>1
  <2>4. QED
    BY <2>1, <2>2, <2>3 DEF Underway, Looking
<1>4. CASE Rebase(s)
  <2>1. /\ pc[s] = "rebase" /\ UNCHANGED <<tracking, base, old, new>>
        /\ old[s] <= tracking /\ (ToldTo(old[s]) \/ Stuck) /\ new[s] = tracking
    BY <1>4, <1>k DEF Rebase, Underway
  <2>t. (ToldTo(old[s]) => ToldTo(old[s])') /\ (ToldTo(base) => ToldTo(base)')
    BY <1>0, <2>1 DEF Frames, ToldTo, Told
  <2>2. CASE base >= tracking
    <3>1. ToldTo(old[s]) /\ pc'[s] = Applied(s)
      BY <1>0, <1>k, <1>4, <2>1, <2>2 DEF Stuck, Rebase, Goto, GitSucceeds
    <3>2. CASE new[s] # old[s]
      BY <1>k, <2>t, <2>1, <3>1, <3>2 DEF Underway, Applied, Looking
    <3>3. CASE new[s] = old[s]
      <4>1. ToldTo(tracking)'
        BY <2>t, <2>1, <3>1, <3>3 DEF ToldTo
      <4>2. QED
        BY <3>1, <3>3, <4>1 DEF Underway, Applied, Abreast
    <3>4. QED
      BY <3>2, <3>3
  <2>3. CASE base < tracking
    <3>1. pc'[s] = "pick" /\ onto' = tracking
      BY <1>0, <1>k, <1>4, <2>3 DEF Rebase, Goto, GitSucceeds
    <3>2. ToldTo(old[s])' \/ Stuck'
      BY <1>s, <1>k, <2>1, <2>t
    <3>3. QED
      BY <2>1, <2>3, <3>1, <3>2 DEF Underway, Looking
  <2>4. QED
    BY <1>k, <2>2, <2>3
<1>5. CASE CountAhead(s) \/ Report(s)
  <2>1. Abreast /\ UNCHANGED tracking /\ pc'[s] \in {"report", "push", "idle"}
    BY <1>0, <1>5, <1>k DEF CountAhead, Report, Ends, Goto, git, Looking
  <2>2. QED
    BY <1>q, <2>1 DEF Underway
<1>6. QED
  BY <1>1, <1>2, <1>3, <1>4, <1>5

(* A step that learns nothing of the upstream. *)
LEMMA PlainStep ==
    ASSUME IInv, SyncTypes, AccountInv, OneSync, [Next]_vars, NEW s \in Syncer,
           \A r \in Syncer : r # s => Rests(r), Frames, UNCHANGED tracking,
           pc[s] \notin Looking \cup {"idle"}, pc'[s] \notin Looking \cup {"fetch"}
    PROVE  AccountInv'
<1>0. Grows /\ pc[s] \notin {"idle", "publish"}
  BY UpstreamGrows DEF Looking
<1>1. Underway(s)'
  BY DEF Underway, Looking
<1>2. Abreast /\ base \in Nat /\ tracking \in 0..Len(remote) /\ tracking \in Nat
  BY Knows DEF Grows
<1>3. ToldTo(tracking) => ToldTo(tracking)'
  BY DEF Frames, ToldTo, Told
<1>4. Stuck => Stuck'
  BY <1>0, <1>2, StaysStuck DEF Frames
<1>5. Abreast'
  BY <1>2, <1>3, <1>4 DEF Abreast, Frames
<1>6. QED
  BY <1>0, <1>1, <1>5, FrameStep

(* HEAD's own commits arrive on the upstream: they were announced. *)
LEMMA PushingStep ==
    ASSUME IInv, SyncTypes, AccountInv, OneSync, [Next]_vars, NEW s \in Syncer,
           \A r \in Syncer : r # s => Rests(r), Pushes, UNCHANGED published,
           pc[s] \in {"push", "first"}, pc'[s] \in {"report", "start", "idle"}
    PROVE  AccountInv'
<1>0. /\ TypeInv /\ Grows /\ ToldTo(base) /\ Owned /\ ToldLocal
      /\ \A p \in Path : Told(work[p]) \/ (call.step = "emit" /\ work[p] = call.body)
      /\ \A r \in Syncer : r # s => pc[r] = "idle"
      /\ base \in Nat /\ tracking \in Nat
  BY Knows, UpstreamGrows DEF Grows
<1>1. /\ remote \in Seq(AnyCommit) /\ local \in Seq(AnyCommit)
      /\ remote' = remote \o local /\ local' = <<>> /\ base = Len(remote) /\ base' = Len(remote')
      /\ tracking' \in {tracking, Len(remote')} /\ work' = work /\ call' = call
      /\ tracking <= base
  BY <1>0, PushKeepsHistory DEF Pushes, PushAccepted, TypeInv
<1>2. ASSUME NEW i \in 1..Len(remote'), NEW p \in DOMAIN remote'[i].change
      PROVE  Told(remote[i].change[p])'
  <2>1. /\ Len(remote') = Len(remote) + Len(local) /\ Len(remote) \in Nat /\ Len(local) \in Nat
        /\ DOMAIN local = 1..Len(local)
        /\ \A j \in 1..Len(remote) : remote'[j] = remote[j]
        /\ \A j \in DOMAIN local : remote'[Len(remote) + j] = local[j]
    BY <1>1, Followed
  <2>2. CASE i <= Len(remote)
    BY <1>0, <1>1, <1>2, <2>1, <2>2 DEF ToldTo, Told
  <2>3. CASE ~(i <= Len(remote))
    <3>1. i - Len(remote) \in DOMAIN local /\ i = Len(remote) + (i - Len(remote))
      BY <2>1, <2>3
    <3>2. remote'[i] = local[i - Len(remote)]
      BY <2>1, <3>1
    <3>3. QED
      BY <1>0, <1>2, <3>1, <3>2 DEF ToldLocal, Told
  <2>4. QED
    BY <2>2, <2>3
<1>3. ToldTo(base)'
  BY <1>1, <1>2 DEF ToldTo
<1>4. ToldTo(tracking)'
  <2>1. \A i \in 1..tracking' : i \in 1..Len(remote')
    BY <1>0, <1>1 DEF Grows
  <2>2. QED
    BY <1>2, <2>1 DEF ToldTo
<1>5. Owned' /\ ToldLocal' /\ \A p \in Path : Accounted(p)'
  BY <1>0, <1>1 DEF Owned, ToldLocal, Accounted, Told
<1>6. \A r \in Syncer : Underway(r)'
  BY <1>0 DEF Underway, Rests
<1>7. QED
  BY <1>3, <1>4, <1>5, <1>6 DEF AccountInv, Abreast

(* The sweep commits what was written outside and what tools announced.    *)
LEMMA CheckpointStep ==
    ASSUME GitSucceeds, IInv, SyncTypes, AccountInv, OneSync, [Next]_vars, NEW s \in Syncer,
           \A r \in Syncer : r # s => Rests(r), Checkpoint(s)
    PROVE  AccountInv'
<1>0. /\ pc[s] = "lock" /\ guard = "free" /\ pc'[s] = "rebase"
      /\ UNCHANGED <<readOnly, remote, tracking, base, work, onto, call, old, new, published>>
      /\ \/ local' = local
         \/ local' = Append(local, Commit("edit", [p \in Dirty |-> work[p]]))
  BY DEF GitSucceeds, Checkpoint, Goto, IInv, TypeInv
<1>1. /\ TypeInv /\ Grows /\ ToldTo(base) /\ ToldLocal /\ Underway(s)
      /\ call.step = "idle" /\ local \in Seq(AnyCommit)
      /\ \A p \in Path : Told(work[p])
      /\ \A r \in Syncer : r # s => pc[r] = "idle"
      /\ base \in Nat /\ tracking \in Nat /\ tracking \in 0..Len(remote)
  <2>1. "free" \notin Syncer
    BY TaskAssumption DEF Syncer
  <2>2. call.step = "idle"
    BY <1>0 DEF IInv, LockInv
  <2>3. QED
    BY <1>0, <2>2, Knows, UpstreamGrows DEF Grows, TypeInv
<1>2. ToldLocal' /\ \A i \in DOMAIN local : i \in DOMAIN local' /\ local'[i] = local[i]
  <2>1. CASE local' = local
    BY <1>0, <1>1, <2>1 DEF ToldLocal, Told
  <2>2. CASE local' = Append(local, Commit("edit", [p \in Dirty |-> work[p]]))
    <3> DEFINE c == Commit("edit", [p \in Dirty |-> work[p]])
    <3>1. c \in AnyCommit /\ local' = Append(local, c)
      BY <1>0, <1>1, <2>2, CommitOfNotes DEF Dirty
    <3>2. \A p \in DOMAIN c.change : Told(c.change[p])
      BY <1>1 DEF Commit, Dirty
    <3> HIDE DEF c
    <3>3. ToldCommits(local)
      BY <1>1 DEF ToldLocal, ToldCommits
    <3>4. ToldLocal'
      BY <1>1, <3>1, <3>2, <3>3, CommitTold DEF ToldLocal
    <3>5. QED
      BY <1>1, <3>1, <3>4, Committed
  <2>3. QED
    BY <1>0, <2>1, <2>2
<1>3. Stuck => Stuck'
  BY <1>0, <1>1, <1>2, StaysStuck
<1>4. ToldTo(base)' /\ (ToldTo(old[s]) => ToldTo(old[s])')
  BY <1>0, <1>1 DEF ToldTo, Told
<1>5. Underway(s)'
  BY <1>0, <1>1, <1>3, <1>4 DEF Underway
<1>6. \A r \in Syncer : r # s => Underway(r)'
  BY <1>1 DEF Underway, Rests
<1>7. Owned' /\ \A p \in Path : Accounted(p)'
  BY <1>0, <1>1 DEF Owned, Accounted, Told
<1>8. QED
  BY <1>0, <1>2, <1>4, <1>5, <1>6, <1>7 DEF AccountInv, Looking

(* What a read-only vault takes over is announced next. *)
LEMMA PullStep ==
    ASSUME IInv, SyncTypes, HealthInv, AccountInv, OneSync, [Next]_vars, NEW s \in Syncer,
           \A r \in Syncer : r # s => Rests(r), Pull(s)
    PROVE  AccountInv'
<1>0. /\ pc[s] = "pull" /\ UNCHANGED <<readOnly, remote, tracking, local, onto, call, published>>
      /\ readOnly /\ guard = "free" /\ old'[s] = base /\ new'[s] = tracking
  BY DEF Pull, HealthInv, SyncTypes
<1>1. /\ TypeInv /\ Grows /\ ToldTo(base) /\ ToldLocal
      /\ call.step = "idle"
      /\ \A p \in Path : Told(work[p])
      /\ \A r \in Syncer : r # s => pc[r] = "idle"
      /\ remote \in Seq(AnyCommit) /\ Len(remote) \in Nat
      /\ base \in Nat /\ base <= Len(remote) /\ tracking \in 0..Len(remote)
  <2>1. "free" \notin Syncer
    BY TaskAssumption DEF Syncer
  <2>2. call.step = "idle"
    BY <1>0 DEF IInv, LockInv
  <2>3. QED
    BY <1>0, <2>2, Knows, UpstreamGrows DEF Grows, TypeInv
<1>t. /\ \A b : Told(b) <=> Told(b)'
      /\ ToldLocal' /\ Owned'
  BY <1>0, <1>1 DEF Told, ToldLocal, Owned
<1>6. \A r \in Syncer : r # s => Underway(r)'
  BY <1>1 DEF Underway, Rests
<1>7. Abreast'
  BY <1>0 DEF Abreast
<1>2. CASE pc'[s] = "report" /\ UNCHANGED <<base, work>>
  <2>1. Underway(s)' /\ ToldTo(base)'
    BY <1>0, <1>1, <1>2 DEF Underway, ToldTo, Told
  <2>2. \A p \in Path : Accounted(p)'
    BY <1>1, <1>2, <1>0 DEF Accounted, Told
  <2>3. QED
    BY <1>t, <1>6, <1>7, <2>1, <2>2 DEF AccountInv
<1>3. CASE ~(pc'[s] = "report" /\ UNCHANGED <<base, work>>)
  <2>1. /\ base < tracking /\ base' = tracking /\ pc'[s] = "publish" /\ local = <<>>
        /\ \A p \in Path : work'[p] \in {Checkout(SubSeq(remote, 1, tracking))[p], work[p]}
    BY <1>3 DEF Pull, Goto, Ends, IInv, TypeInv
  <2>2. ASSUME NEW p \in Path
        PROVE  Accounted(p)'
    <3>1. CASE work'[p] = work[p]
      BY <1>0, <1>1, <3>1 DEF Accounted, Told
    <3>2. CASE work'[p] = Checkout(SubSeq(remote, 1, tracking))[p]
      <4> DEFINE g == SubSeq(remote, 1, tracking)
      <4>1. g \in Seq(AnyCommit) /\ g \o local = g
        BY <1>1, <2>1, Prefix, ConcatEmptySeq
      <4>2. \/ work'[p] = Original
            \/ \E i \in 1..tracking : \E q \in DOMAIN remote[i].change : work'[p] = remote[i].change[q]
            \/ \E i \in DOMAIN local : \E q \in DOMAIN local[i].change : work'[p] = local[i].change[q]
        <5>1. Checkout(SubSeq(remote, 1, tracking) \o local)[p] = work'[p]
          BY <3>2, <4>1
        <5>2. QED
          BY <1>1, <5>1, CheckedOut
      <4>3. DOMAIN local = {}
        BY <2>1
      <4>4. CASE work'[p] = Original
        BY <4>4 DEF Original, Accounted, Told
      <4>5. ASSUME NEW i \in 1..tracking, NEW q \in DOMAIN remote[i].change,
                   work'[p] = remote[i].change[q]
            PROVE  Accounted(p)'
        <5>1. CASE i <= base
          <6>1. i \in 1..base
            BY <1>1, <5>1
          <6>2. QED
            BY <1>0, <1>1, <4>5, <6>1 DEF ToldTo, Accounted, Told
        <5>2. CASE ~(i <= base)
          <6>1. i \in (base + 1)..tracking
            BY <1>1, <5>2
          <6>2. Between(work[p], old[s], new[s])'
            BY <1>0, <4>5, <6>1 DEF Between
          <6>3. QED
            BY <2>1, <6>2 DEF Accounted
        <5>3. QED
          BY <5>1, <5>2
      <4>6. QED
        BY <4>2, <4>3, <4>4, <4>5
    <3>3. QED
      BY <2>1, <3>1, <3>2
  <2>3. Underway(s)'
    <3>1. ToldTo(old[s])'
      BY <1>0, <1>1 DEF ToldTo, Told
    <3>2. QED
      BY <1>0, <1>1, <2>1, <3>1 DEF Underway
  <2>4. QED
    BY <1>t, <1>6, <1>7, <2>1, <2>2, <2>3 DEF AccountInv
<1>4. QED
  BY <1>2, <1>3

(* A rebase takes over what was announced or is announced next. *)
LEMMA AppliesStep ==
    ASSUME IInv, SyncTypes, AccountInv, OneSync, [Next]_vars, NEW s \in Syncer,
           \A r \in Syncer : r # s => Rests(r), RebaseApplies(s)
    PROVE  AccountInv'
<1>0. /\ pc[s] = "pick" /\ Clashing = {} /\ base' = onto /\ pc'[s] = Applied(s)
      /\ UNCHANGED <<readOnly, remote, tracking, local, call, old, new, published>>
      /\ work' = Checkout(SubSeq(remote, 1, onto) \o local)
  BY DEF RebaseApplies, Goto, IInv, TypeInv
<1>1. /\ TypeInv /\ ToldTo(base) /\ ToldLocal /\ Underway(s) /\ call.step = "idle"
      /\ \A r \in Syncer : r # s => pc[r] = "idle"
      /\ Len(remote) \in Nat /\ base \in Nat /\ tracking \in 0..Len(remote)
      /\ old[s] \in Nat /\ new[s] \in Nat
  <2>1. guard = s /\ guard # "tool"
    BY <1>0, TaskAssumption DEF IInv, LockInv, Locked, Syncer
  <2>2. call.step = "idle"
    BY <2>1 DEF IInv, LockInv
  <2>3. QED
    BY <1>0, <2>2, Knows
<1>2. onto = tracking /\ base < tracking /\ new[s] = tracking /\ old[s] <= tracking /\ ToldTo(old[s])
  BY <1>0, <1>1, ClashesAreStuck DEF Underway
<1>3. ToldLocal' /\ Owned' /\ ToldTo(old[s])'
  BY <1>0, <1>1, <1>2 DEF Told, ToldLocal, Owned, ToldTo
<1>4. \A r \in Syncer : r # s => Underway(r)'
  BY <1>1 DEF Underway, Rests
<1>5. ASSUME NEW p \in Path
      PROVE  Told(work[p])' \/ Between(work[p], old[s], new[s])'
  <2>1. \/ work'[p] = Original
        \/ \E i \in 1..tracking : \E q \in DOMAIN remote[i].change : work'[p] = remote[i].change[q]
        \/ \E i \in DOMAIN local : \E q \in DOMAIN local[i].change : work'[p] = local[i].change[q]
    <3>1. Checkout(SubSeq(remote, 1, tracking) \o local)[p] = work'[p]
      BY <1>0, <1>2
    <3>2. QED
      BY <1>1, <3>1, CheckedOut
  <2>2. CASE work'[p] = Original
    BY <2>2 DEF Original, Told
  <2>3. ASSUME NEW i \in DOMAIN local, NEW q \in DOMAIN local[i].change, work'[p] = local[i].change[q]
        PROVE  Told(work[p])'
    BY <1>0, <1>1, <2>3 DEF ToldLocal, Told
  <2>4. ASSUME NEW i \in 1..tracking, NEW q \in DOMAIN remote[i].change, work'[p] = remote[i].change[q]
        PROVE  Told(work[p])' \/ Between(work[p], old[s], new[s])'
    <3>1. CASE i <= old[s]
      <4>1. i \in 1..old[s]
        BY <1>1, <3>1
      <4>2. QED
        BY <1>0, <1>2, <2>4, <4>1 DEF ToldTo, Told
    <3>2. CASE ~(i <= old[s])
      <4>1. i \in (old[s] + 1)..new[s]
        BY <1>1, <1>2, <3>2
      <4>2. QED
        BY <1>0, <2>4, <4>1 DEF Between
    <3>3. QED
      BY <3>1, <3>2
  <2>5. QED
    BY <2>1, <2>2, <2>3, <2>4
<1>6. CASE new[s] # old[s]
  <2>1. pc'[s] = "publish"
    BY <1>0, <1>6 DEF Applied
  <2>2. \A p \in Path : Accounted(p)'
    BY <1>5, <2>1 DEF Accounted
  <2>3. Underway(s)'
    BY <1>0, <1>1, <1>2, <1>3, <2>1 DEF Underway
  <2>4. QED
    BY <1>3, <1>4, <2>1, <2>2, <2>3 DEF AccountInv, Looking
<1>7. CASE new[s] = old[s]
  <2>1. pc'[s] = "ahead"
    BY <1>0, <1>7 DEF Applied
  <2>2. ASSUME NEW p \in Path
        PROVE  Accounted(p)'
    <3>1. ~Between(work[p], old[s], new[s])'
      BY <1>0, <1>1, <1>7 DEF Between
    <3>2. QED
      BY <1>5, <3>1 DEF Accounted
  <2>3. Underway(s)'
    BY <2>1 DEF Underway
  <2>4. ToldTo(tracking)' /\ ToldTo(base)'
    BY <1>0, <1>2, <1>3, <1>7 DEF ToldTo
  <2>5. QED
    BY <1>3, <1>4, <2>2, <2>3, <2>4 DEF AccountInv, Abreast
<1>8. QED
  BY <1>6, <1>7

(* A rebase that conflicts takes nothing over, and never will.             *)
LEMMA ConflictStep ==
    ASSUME IInv, SyncTypes, AccountInv, OneSync, [Next]_vars, NEW s \in Syncer,
           \A r \in Syncer : r # s => Rests(r), RebaseConflicts(s) \/ Abort(s)
    PROVE  AccountInv'
<1>0. /\ pc[s] \in {"pick", "abort"}
      /\ UNCHANGED <<readOnly, remote, tracking, base, local, call, old, new, published>>
  BY DEF RebaseConflicts, Abort
<1>1. /\ TypeInv /\ ToldTo(base) /\ ToldLocal /\ Underway(s) /\ call.step = "idle"
      /\ \A p \in Path : Told(work[p])
      /\ \A r \in Syncer : r # s => pc[r] = "idle"
      /\ Len(remote) \in Nat /\ base \in 0..Len(remote)
  <2>1. guard = s /\ guard # "tool"
    BY <1>0, TaskAssumption DEF IInv, LockInv, Locked, Syncer
  <2>2. call.step = "idle"
    BY <2>1 DEF IInv, LockInv
  <2>3. QED
    BY <1>0, <2>2, Knows
<1>2. Stuck
  BY <1>0, <1>1, ClashesAreStuck DEF Underway, RebaseConflicts, Abort
<1>3. ToldLocal' /\ Owned' /\ ToldTo(base)' /\ Stuck' /\ (ToldTo(old[s]) => ToldTo(old[s])')
  BY <1>0, <1>1, <1>2 DEF Told, ToldLocal, Owned, ToldTo, Stuck
<1>4. \A r \in Syncer : r # s => Underway(r)'
  BY <1>1 DEF Underway, Rests
<1>5. CASE RebaseConflicts(s)
  <2>1. pc[s] = "pick" /\ pc'[s] = "abort" /\ onto' = onto
        /\ \A p \in Path : work'[p] \in {Markers, work[p]}
    BY <1>1, <1>5 DEF RebaseConflicts, Goto, TypeInv
  <2>2. Underway(s)'
    BY <1>0, <1>1, <1>3, <2>1 DEF Underway
  <2>3. \A p \in Path : Accounted(p)'
    BY <1>0, <1>1, <2>1 DEF Accounted, Told, Markers
  <2>4. QED
    BY <1>3, <1>4, <2>2, <2>3 DEF AccountInv, Abreast
<1>6. CASE Abort(s)
  <2>1. pc'[s] = "report" /\ work' = Checkout(SubSeq(remote, 1, base) \o local)
    BY <1>1, <1>6 DEF Abort, Ends, Goto, TypeInv, Commits
  <2>2. Underway(s)'
    BY <2>1 DEF Underway
  <2>3. ASSUME NEW p \in Path
        PROVE  Accounted(p)'
    <3>1. \/ work'[p] = Original
          \/ \E i \in 1..base : \E q \in DOMAIN remote[i].change : work'[p] = remote[i].change[q]
          \/ \E i \in DOMAIN local : \E q \in DOMAIN local[i].change : work'[p] = local[i].change[q]
      <4>1. Checkout(SubSeq(remote, 1, base) \o local)[p] = work'[p]
        BY <2>1
      <4>2. QED
        BY <1>1, <4>1, CheckedOut
    <3>2. CASE work'[p] = Original
      BY <3>2 DEF Original, Told, Accounted
    <3>3. ASSUME NEW i \in DOMAIN local, NEW q \in DOMAIN local[i].change, work'[p] = local[i].change[q]
          PROVE  Accounted(p)'
      BY <1>0, <1>1, <3>3 DEF ToldLocal, Told, Accounted
    <3>4. ASSUME NEW i \in 1..base, NEW q \in DOMAIN remote[i].change, work'[p] = remote[i].change[q]
          PROVE  Accounted(p)'
      BY <1>0, <1>1, <3>4 DEF ToldTo, Told, Accounted
    <3>5. QED
      BY <3>1, <3>2, <3>3, <3>4
  <2>4. QED
    BY <1>3, <1>4, <2>2, <2>3 DEF AccountInv, Abreast
<1>7. QED
  BY <1>5, <1>6

(* The records catch up with HEAD. *)
LEMMA PublishStep ==
    ASSUME GitSucceeds, IInv, SyncTypes, AccountInv, OneSync, [Next]_vars, NEW s \in Syncer,
           \A r \in Syncer : r # s => Rests(r), Publish(s)
    PROVE  AccountInv'
<1>0. /\ pc[s] = "publish" /\ published' = published \cup BodiesOf(SubSeq(remote, old[s] + 1, new[s]))
      /\ UNCHANGED <<readOnly, remote, tracking, base, local, work, onto, call, old, new>>
      /\ pc'[s] \in {"report", "ahead"}
  BY DEF GitSucceeds, Publish, Ends, Goto, git, IInv, TypeInv
<1>1. /\ TypeInv /\ Grows /\ ToldLocal /\ Underway(s) /\ Owned
      /\ \A r \in Syncer : r # s => pc[r] = "idle"
      /\ Len(remote) \in Nat /\ base \in 0..Len(remote) /\ tracking \in 0..Len(remote)
      /\ old[s] \in Nat /\ new[s] \in Nat /\ remote \in Seq(AnyCommit)
  BY <1>0, Knows, UpstreamGrows DEF TypeInv
<1>2. /\ old[s] <= new[s] /\ new[s] = tracking /\ ToldTo(old[s])
      /\ ToldTo(base) \/ base = new[s]
  BY <1>0, <1>1 DEF Underway
<1>3. ASSUME NEW i \in (old[s] + 1)..new[s], NEW p \in DOMAIN remote[i].change
      PROVE  remote[i].change[p] \in published'
  <2>1. old[s] + 1 \in Nat \ {0} /\ new[s] \in 0..Len(remote)
    BY <1>1, <1>2
  <2>2. BodiesOf(SubSeq(remote, old[s] + 1, new[s])) =
          UNION {{remote[j].change[q] : q \in DOMAIN remote[j].change} : j \in (old[s] + 1)..new[s]}
    BY <1>1, <2>1, PartOf
  <2>3. QED
    BY <1>0, <2>2
<1>4. ToldTo(new[s])'
  <2> SUFFICES ASSUME NEW i \in 1..new[s], NEW p \in DOMAIN remote[i].change
               PROVE  Told(remote[i].change[p])'
    BY <1>0 DEF ToldTo, Told
  <2>1. CASE i <= old[s]
    <3>1. i \in 1..old[s]
      BY <1>1, <2>1
    <3>2. QED
      BY <1>0, <1>2, <3>1 DEF ToldTo, Told
  <2>2. CASE ~(i <= old[s])
    <3>1. i \in (old[s] + 1)..new[s]
      BY <1>1, <2>2
    <3>2. QED
      BY <1>0, <1>3, <3>1 DEF Told
  <2>3. QED
    BY <2>1, <2>2
<1>5. ToldTo(tracking)' /\ ToldTo(base)'
  <2>1. ToldTo(tracking)'
    BY <1>0, <1>2, <1>4 DEF ToldTo
  <2>2. CASE base = new[s]
    BY <1>0, <1>4, <2>1, <2>2 DEF ToldTo
  <2>3. CASE ToldTo(base)
    BY <1>0, <2>1, <2>3 DEF ToldTo, Told
  <2>4. QED
    BY <1>2, <2>1, <2>2, <2>3
<1>6. ASSUME NEW p \in Path
      PROVE  Accounted(p)'
  <2>1. CASE Told(work[p]) \/ (call.step = "emit" /\ work[p] = call.body)
    BY <1>0, <2>1 DEF Accounted, Told
  <2>2. CASE Between(work[p], old[s], new[s])
    BY <1>0, <1>3, <2>2 DEF Between, Accounted, Told
  <2>3. QED
    BY <1>1, <2>1, <2>2 DEF AccountInv, Accounted
<1>7. ToldLocal' /\ Owned'
  BY <1>0, <1>1 DEF ToldLocal, Told, Owned
<1>8. \A r \in Syncer : Underway(r)'
  <2>1. \A r \in Syncer : r # s => Underway(r)'
    BY <1>1 DEF Underway, Rests
  <2>2. Underway(s)'
    BY <1>0 DEF Underway
  <2>3. QED
    BY <2>1, <2>2
<1>9. QED
  BY <1>5, <1>6, <1>7, <1>8 DEF AccountInv, Abreast

LEMMA AccountStep ==
    ASSUME GitSucceeds, IInv, SyncTypes, HealthInv, OneSync, [Next]_vars, kills' = 0, AccountInv
    PROVE  AccountInv'
<1>0. ~Restart
  BY DEF Restart, SyncTypes
<1>1. CASE Elsewhere /\ \A r \in Syncer : Rests(r)
  BY <1>1, ElsewhereStep
<1>2. ASSUME NEW s \in Syncer, StepOf(s), \A r \in Syncer : r # s => Rests(r)
      PROVE  AccountInv'
  <2>0. pc \in [Syncer -> Step] /\ TypeInv
    BY DEF IInv, TypeInv
  <2>1. CASE Tick(s)
    <3>1. /\ pc[s] = "idle" /\ pc'[s] = "start" /\ Frames /\ UNCHANGED <<tracking, onto, old, new>>
      BY <2>0, <2>1 DEF Tick, Goto, Frames, git
    <3>2. QED
      BY <1>2, <3>1, SetOutStep
  <2>2. CASE s = Pusher /\ (Wake \/ RetryDue)
    <3>1. /\ pc[s] = "idle" /\ pc'[s] \in {"settle", "count"} /\ Frames
          /\ UNCHANGED <<tracking, onto, old, new>>
      BY <2>0, <2>2 DEF Wake, RetryDue, Goto, Frames, git
    <3>2. QED
      BY <1>2, <3>1, SetOutStep
  <2>3. CASE OldTip(s) \/ Fetch(s) \/ NewTip(s) \/ Rebase(s) \/ CountAhead(s) \/ Report(s)
    BY <1>2, <2>3, LookingStep
  <2>4. CASE Checkpoint(s)
    BY <1>2, <2>4, CheckpointStep
  <2>5. CASE Pull(s)
    BY <1>2, <2>5, PullStep
  <2>6. CASE RebaseApplies(s)
    BY <1>2, <2>6, AppliesStep
  <2>7. CASE RebaseConflicts(s) \/ Abort(s)
    BY <1>2, <2>7, ConflictStep
  <2>8. CASE Publish(s)
    BY <1>2, <2>8, PublishStep
  <2>9. CASE Push(s) \/ (s = Pusher /\ PushFirst)
    <3>1. /\ pc[s] \in {"push", "first"} /\ pc'[s] \in {"report", "start", "idle"}
          /\ UNCHANGED <<guard, call, drawn, published>>
      BY <2>0, <2>9 DEF Push, PushFirst, Goto, Ends
    <3>2. \/ PushAccepted /\ Pushed
          \/ PushAccepted /\ PushLost
          \/ UNCHANGED git
      BY <2>9 DEF Push, PushFirst, PushFails, PushLost
    <3>3. CASE UNCHANGED git
      BY <1>2, <3>1, <3>3, PlainStep DEF git, Frames, Looking
    <3>4. CASE PushAccepted /\ (Pushed \/ PushLost)
      <4>1. Pushes
        <5>1. pc' \in [Syncer -> Step]
          BY Steps, TypeStep DEF IInv, TypeInv
        <5>2. \A r \in Syncer : pc'[r] = pc[r] \/ (pc[r] \notin Locked /\ pc'[r] \notin Locked)
          BY <1>2, <3>1 DEF Rests, Locked
        <5>3. QED
          BY <3>1, <3>4, <5>1, <5>2 DEF Pushes, Moves
      <4>2. QED
        BY <1>2, <3>1, <4>1, PushingStep
    <3>5. QED
      BY <3>2, <3>3, <3>4
  <2>10. CASE s = Pusher /\ (Settle \/ CountBacklog)
    <3>1. /\ pc[s] \in {"settle", "count"} /\ pc'[s] \in {"settle", "count", "idle", "first"}
          /\ Frames /\ UNCHANGED tracking
      BY <2>0, <2>10 DEF Settle, CountBacklog, Goto, Frames, git
    <3>2. QED
      BY <1>2, <3>1, PlainStep DEF Looking
  <2>11. QED
    BY <1>2, <2>1, <2>2, <2>3, <2>4, <2>5, <2>6, <2>7, <2>8, <2>9, <2>10 DEF StepOf, SyncStep, PushStep
<1>3. QED
  BY <1>0, <1>1, <1>2, SyncKinds DEF IInv

(* When syncs do not overlap and no commit, rebase or diff fails: what HEAD *)
(* has, of tools and of other clones, was announced whenever nothing is    *)
(* under way, as long as the server is not killed.                         *)
THEOREM EventsAreComplete ==
    ASSUME NoRebaseIsKilled, GitSucceeds
    PROVE  Spec /\ []OneSync => []EventsComplete
<1> DEFINE Account == kills = 0 => AccountInv
<1>1. Init => SyncTypes /\ HealthInv /\ Account
  <2> SUFFICES ASSUME Init PROVE AccountInv
    BY HealthStarts
  <2>1. /\ call.step = "idle" /\ DOMAIN local = {} /\ tracking = 0 /\ base = 0
        /\ \A p \in Path : work[p] = Original
        /\ \A s \in Syncer : pc[s] = "idle"
    BY DEF Init, Idle
  <2>2. QED
    BY <2>1 DEF AccountInv, Owned, ToldLocal, Accounted, Told, Original, Underway, Abreast, ToldTo
<1>2. IInv /\ SyncTypes /\ HealthInv /\ Account /\ OneSync /\ [Next]_vars =>
        SyncTypes' /\ HealthInv' /\ Account'
  <2> SUFFICES ASSUME IInv, SyncTypes, HealthInv, Account, OneSync, [Next]_vars
               PROVE  SyncTypes' /\ HealthInv' /\ Account'
    OBVIOUS
  <2>1. kills' = 0 => kills = 0
    <3>1. kills' = kills \/ kills' = kills + 1
      BY DEF Next, SyncStep, PushStep, CallTool, EmitEvent, AutoCommit, Tick, OldTip, Fetch, NewTip,
         Checkpoint, Pull, Rebase, RebaseApplies, RebaseConflicts, Abort, Publish, CountAhead, Push,
         Report, Wake, Settle, RetryDue, CountBacklog, PushFirst, ExternalEdit, OtherPushes, Network,
         Restart, vars
    <3>2. kills \in Nat
      BY DEF SyncTypes
    <3>3. QED
      BY <3>1, <3>2
  <2>2. QED
    BY <2>1, SyncTypesStep, HealthStep, AccountStep
<1>3. IInv /\ Account => EventsComplete
  <2> SUFFICES ASSUME IInv, AccountInv, Quiet,
                      NEW b \in BodiesOf(Commits), b.by \in {"tool", "other"}
               PROVE  b \in published
    BY DEF EventsComplete
  <2>1. ToldTo(base) /\ ToldLocal
    BY DEF AccountInv, Quiet
  <2>2. /\ remote \in Seq(AnyCommit) /\ local \in Seq(AnyCommit) /\ base \in 0..Len(remote)
    BY CommitsOf DEF IInv, TypeInv
  <2>3. PICK i \in DOMAIN Commits : \E p \in DOMAIN Commits[i].change : b = Commits[i].change[p]
    BY DEF BodiesOf
  <2> DEFINE g == SubSeq(remote, 1, base)
  <2>4. g \in Seq(AnyCommit) /\ Len(g) = base /\ \A j \in 1..base : g[j] = remote[j]
    BY <2>2, Prefix
  <2>5. /\ DOMAIN Commits = 1..(Len(g) + Len(local)) /\ DOMAIN g = 1..Len(g)
        /\ DOMAIN local = 1..Len(local) /\ Len(local) \in Nat /\ Len(g) \in Nat
        /\ \A j \in DOMAIN g : Commits[j] = g[j]
        /\ \A j \in DOMAIN local : Commits[Len(g) + j] = local[j]
    BY <2>2, <2>4, Followed DEF Commits
  <2> HIDE DEF g
  <2>6. CASE i \in 1..base
    BY <2>1, <2>3, <2>4, <2>5, <2>6 DEF ToldTo, Told
  <2>7. CASE i \notin 1..base
    <3>1. i - base \in DOMAIN local /\ i = base + (i - base)
      BY <2>3, <2>4, <2>5, <2>7
    <3>2. Commits[i] = local[i - base]
      BY <2>4, <2>5, <3>1
    <3>3. QED
      BY <2>1, <2>3, <3>1, <3>2 DEF ToldLocal, Told
  <2>8. QED
    BY <2>6, <2>7
<1>4. QED
  BY <1>1, <1>2, <1>3, SyncInductive, PTL DEF Spec
====================================================================================
