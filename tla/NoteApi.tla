------------------------------- MODULE NoteApi -------------------------------
(***************************************************************************)
(* Calls on the notes of one vault from several clients at once: the       *)
(* byte-level API (api.rs), create_notes, append_notes, the edit tools and *)
(* delete_notes (tools_write.rs, tools_organize.rs) and paged listings and *)
(* searches (tools_search.rs), under the server's readers-writer lock; and *)
(* outside programs, which know only the flock.                            *)
(*                                                                         *)
(* Every write adds a mark of its own, and a note is the set of the marks  *)
(* it carries: a client's PUT is its copy and one mark more.  A hash or an *)
(* entity tag is the note itself.  commit_batch is one step (Transaction   *)
(* shows that it is).  What a request is refused for before it looks at    *)
(* the vault, its size or its encoding, is left out.                       *)
(***************************************************************************)
EXTENDS Naturals, Sequences, FiniteSets, SequencesExt

CONSTANTS
    Clients,
    Does,         \* [Clients -> SUBSET of the operations it calls]
    Within,       \* [Clients -> the notes its credential is confined to]
    Notes,        \* numbers, in the order of their paths
    InDir,        \* the notes in the one directory there may be
    Start,        \* the notes that exist at first
    PageSizes,    \* limits asked for
    MaxMarks,     \* bound: writes asked for
    MaxOutside    \* bound: writes by outside programs

ASSUME NotesAssumption ==
    Notes \subseteq Nat /\ IsFiniteSet(Notes) /\ InDir \subseteq Notes /\ Start \subseteq Notes
ASSUME BoundAssumption == MaxMarks \in Nat /\ MaxOutside \in Nat /\ PageSizes \subseteq Nat \ {0}

Writes == {"put", "create", "append", "edit", "delete"}
Reads == {"get", "index", "page"}
ASSUME ClientsAssumption ==
    /\ Clients \cap {"free", "outside"} = {}
    /\ Does \in [Clients -> SUBSET (Writes \cup Reads)]
    /\ Within \in [Clients -> SUBSET Notes]

Marks == 1..MaxMarks
Outside == MaxMarks + 1 .. MaxMarks + MaxOutside
Absent == {0}
Text == SUBSET (Marks \cup Outside)
Unknown == {MaxMarks + MaxOutside + 1}    \* a note the client has no copy of

VARIABLES
    disk,         \* [Notes -> Text or Absent]
    dir,          \* does the directory exist?
    head,         \* the notes as last committed to git
    stray,        \* a git command whose caller has gone
    queue,        \* calls waiting for the RwLock, in order
    inside,       \* calls that hold it
    flock,        \* who has it: "free", "outside", or a client for its call
    call,         \* each client's call
    copy,         \* what each client last saw of each note
    walk,         \* each client's paged listing
    base,         \* what the outside program found when it took the flock
    events,       \* the marks the event journal knows
    marks,        \* how many writes were asked for
    strange,      \* how many were made outside
    stirred,      \* history: calls during which something outside wrote
    hungup        \* history: has a caller hung up during a commit?

Idle == [op |-> "none", items |-> <<>>, at |-> 1, pc |-> "idle", plan |-> <<>>, landed |-> {}]
NoWalk == [seen |-> <<>>, steady |-> {}, more |-> FALSE]
NoBase == [n \in Notes |-> {}]
NoStray == [live |-> FALSE, commits |-> {}]
lock == <<queue, inside, flock>>
git == <<head, stray, hungup>>
vars == <<disk, dir, git, lock, call, copy, walk, base, events, marks, strange, stirred>>

Item == [note : Notes, mark : Marks \cup {0}, expect : {"absent", "present", "either", "copy"},
         copy : Text]
TypeOK ==
    /\ disk \in [Notes -> Text \cup {Absent}] /\ head \in [Notes -> Text \cup {Absent}]
    /\ dir \in BOOLEAN /\ \A n \in InDir : disk[n] # Absent => dir
    /\ inside \subseteq Clients /\ Range(queue) \cap inside = {} /\ IsInjective(queue)
    /\ flock \in {"free", "outside"} \cup inside
    /\ \A c \in Clients :
          /\ call[c].op \in Writes \cup Reads \cup {"none"}
          /\ Range(call[c].items) \subseteq Item
          /\ call[c].pc = "idle" <=> c \notin inside \cup Range(queue)
          /\ call[c].op \in Writes /\ c \in inside => inside = {c}
    /\ copy \in [Clients -> [Notes -> Text \cup {Unknown}]]
    /\ events \subseteq 1..marks /\ marks \in 0..MaxMarks /\ strange \in 0..MaxOutside

Init ==
    /\ disk = [n \in Notes |-> IF n \in Start THEN {} ELSE Absent]
    /\ dir = (Start \cap InDir # {})
    /\ head = disk /\ stray = NoStray /\ hungup = FALSE
    /\ queue = <<>> /\ inside = {} /\ flock = "free"
    /\ call = [c \in Clients |-> Idle]
    /\ copy = [c \in Clients |-> [n \in Notes |-> Unknown]]
    /\ walk = [c \in Clients |-> NoWalk]
    /\ base = NoBase
    /\ events = {} /\ marks = 0 /\ strange = 0 /\ stirred = {}

There(n) == disk[n] # Absent
Present(d) == {n \in Notes : d[n] # Absent}
Sorted(ns) ==
    CHOOSE s \in [1..Cardinality(ns) -> ns] : \A i, j \in DOMAIN s : i < j => s[i] < s[j]

(* The notes become d.  A listing under way can still count on a note that *)
(* has been there all along.                                               *)
Become(d) ==
    /\ disk' = d
    /\ walk' = [c \in Clients |-> [walk[c] EXCEPT !.steady = @ \cap Present(d)]]

-----------------------------------------------------------------------------
(* What a request says of the note it names: a PUT without If-Match and    *)
(* create_notes want none there, an If-Match or an expected_hash the one   *)
(* the client has seen, If-Match: * and the other tools some note;         *)
(* overwrite and create_if_missing take either.                            *)
Expects(c, op, n) ==
    CASE op = "put"    -> {"absent", "present"} \cup (IF copy[c][n] = Unknown THEN {} ELSE {"copy"})
      [] op = "create" -> {"absent", "either"}
      [] op = "append" -> {"present", "either"}
      [] op = "edit"   -> {"present"} \cup (IF copy[c][n] = Unknown THEN {} ELSE {"copy"})
      [] OTHER         -> {"present"}
Fits(item, cell) ==
    CASE item.expect = "absent"  -> cell = Absent
      [] item.expect = "present" -> cell # Absent
      [] item.expect = "either"  -> TRUE
      [] item.expect = "copy"    -> cell = item.copy

(* What it makes of it.  A PUT brings the whole note. *)
Body(op, item, cell) ==
    CASE op = "put"    -> item.copy \cup {item.mark}
      [] op = "create" -> {item.mark}
      [] op = "append" -> (cell \ Absent) \cup {item.mark}
      [] op = "edit"   -> cell \cup {item.mark}
      [] op = "delete" -> Absent

(* The requests a client makes: of one or two notes for the tools that take *)
(* batches, of one for GET, PUT and deletions, of none in particular for   *)
(* the index and the listings.                                             *)
NotesOf(c, op) ==
    CASE op \in {"index", "page"}  -> {<<>>}
      [] op \in {"create", "append"} -> {<<n>> : n \in Notes} \cup (Notes \X Notes)
      [] op = "edit" -> {<<n>> : n \in Notes} \cup {ns \in Notes \X Notes : ns[1] < ns[2]}
      [] OTHER -> {<<n>> : n \in Within[c]}
Request(c, op, ns, expect) ==
    [i \in DOMAIN ns |->
        [note |-> ns[i], expect |-> expect, mark |-> IF op \in Writes THEN marks + i ELSE 0,
         copy |-> IF copy[c][ns[i]] = Unknown THEN {} ELSE copy[c][ns[i]]]]

(* A request arrives and waits its turn. *)
Ask(c) ==
    /\ call[c].pc = "idle"
    /\ \E op \in Does[c] : \E ns \in NotesOf(c, op) :
         /\ marks' = IF op \in Writes THEN marks + Len(ns) ELSE marks
         /\ marks' <= MaxMarks
         /\ \E expect \in {"absent", "present", "either", "copy"} :
              /\ \A n \in Range(ns) : expect \in Expects(c, op, n)
              /\ ns = <<>> => expect = "present"
              /\ call' = [call EXCEPT ![c] =
                    [Idle EXCEPT !.op = op, !.pc = "queued",
                                 !.items = Request(c, op, ns, expect)]]
    /\ queue' = Append(queue, c)
    /\ UNCHANGED <<disk, dir, git, inside, flock, copy, walk, base, events, strange, stirred>>

(* The RwLock lets calls in in the order they came, a reader beside other  *)
(* readers and a writer alone.  Bugs: readers go in beside a writer;       *)
(* whoever finds it open goes in; a PUT does without.                      *)
CompatibleReading(c) == inside = {} \/ call[c].op \in Reads
Compatible(c) == inside = {} \/ (call[c].op \in Reads /\ \A d \in inside : call[d].op \in Reads)
EnterWith(c, turn(_)) ==
    /\ call[c].pc = "queued" /\ turn(c)
    /\ queue' = RemoveFirst(queue, c) /\ inside' = inside \cup {c}
    /\ call' = [call EXCEPT ![c].pc = "look"]
    /\ UNCHANGED <<disk, dir, git, flock, copy, walk, base, events, marks, strange, stirred>>
EnterUnordered(c) == EnterWith(c, Compatible)
EnterUnlocked(c) == EnterWith(c, LAMBDA d : d = Head(queue) /\ (call[d].op = "put" \/ Compatible(d)))
Enter(c) == EnterWith(c, LAMBDA d : d = Head(queue) /\ Compatible(d))

Now(c) == call[c].items[call[c].at]
Goto(c, next) == call' = [call EXCEPT ![c].pc = next]
More(c, k) == IF k < Len(call[c].items) THEN "look" ELSE "emit"

(* PUT, create_notes and append_notes look at one note and write it before *)
(* they turn to the next; a PUT makes no directory.  One item's refusal    *)
(* does not stop the others.                                               *)
Single == {"put", "create", "append"}
Accepts(c, item) ==
    /\ Fits(item, disk[item.note])
    /\ call[c].op = "put" /\ ~There(item.note) /\ item.note \in InDir => dir
LookAtOne(c) ==
    /\ call[c].pc = "look" /\ call[c].op \in Single
    /\ IF Accepts(c, Now(c))
       THEN call' = [call EXCEPT ![c].pc = "save",
                                 ![c].plan = <<Body(call[c].op, Now(c), disk[Now(c).note])>>]
       ELSE call' = [call EXCEPT ![c].at = @ + 1, ![c].pc = More(c, call[c].at)]
    /\ UNCHANGED <<disk, dir, git, lock, copy, walk, base, events, marks, strange, stirred>>

(* write_atomic, in place of whatever is there by now, without the flock.  *)
(* It may fail once it has made the directory.                             *)
SaveOne(c) ==
    /\ call[c].pc = "save"
    /\ dir' = (dir \/ Now(c).note \in InDir)
    /\ \/ /\ Become([disk EXCEPT ![Now(c).note] = call[c].plan[1]])
          /\ call' = [call EXCEPT ![c].at = @ + 1, ![c].pc = More(c, call[c].at),
                                  ![c].landed = @ \cup {Now(c).mark}]
          /\ events' = IF call[c].op = "append" THEN events \cup {Now(c).mark} ELSE events
       \/ /\ call' = [call EXCEPT ![c].at = @ + 1, ![c].pc = More(c, call[c].at)]
          /\ UNCHANGED <<disk, walk, events>>
    /\ UNCHANGED <<git, lock, copy, base, marks, strange, stirred>>

(* The edit tools and delete_notes look at every note first, and one       *)
(* refusal is that of the batch.                                           *)
LookAtAll(c) ==
    /\ call[c].pc = "look" /\ call[c].op \in {"edit", "delete"}
    /\ LET ok == Fits(Now(c), disk[Now(c).note])
           last == call[c].at = Len(call[c].items)
       IN  call' = [call EXCEPT
              ![c].plan = IF ok THEN Append(@, Body(call[c].op, Now(c), disk[Now(c).note])) ELSE @,
              ![c].at = @ + 1,
              ![c].pc = IF ~last THEN "look"
                        ELSE IF ok /\ Len(call[c].plan) + 1 = Len(call[c].items)
                        THEN "apply" ELSE "done"]
    /\ UNCHANGED <<disk, dir, git, lock, copy, walk, base, events, marks, strange, stirred>>

(* commit_batch, under the flock: all of the plan or nothing.  A note to   *)
(* be deleted must still be there.                                         *)
Planned(c) ==
    [n \in Notes |-> IF \E i \in DOMAIN call[c].items : call[c].items[i].note = n
                     THEN call[c].plan[CHOOSE i \in DOMAIN call[c].items : call[c].items[i].note = n]
                     ELSE disk[n]]
ApplyAll(c) ==
    /\ call[c].pc = "apply" /\ flock = "free"
    /\ \/ /\ call[c].op = "delete" => There(call[c].items[1].note)
          /\ Become(Planned(c))
          /\ dir' = (dir \/ Present(disk') \cap InDir # {})
          /\ call' = [call EXCEPT ![c].pc = "emit", ![c].landed = {i.mark : i \in Range(call[c].items)}]
       \/ Goto(c, "done") /\ UNCHANGED <<disk, dir, walk>>
    /\ UNCHANGED <<git, lock, copy, base, events, marks, strange, stirred>>

(* emit_event, for what took effect; a call that changed nothing commits   *)
(* nothing either.  Bug: for all that was asked.                           *)
EmitAll(c) ==
    /\ call[c].pc = "emit" /\ Goto(c, IF call[c].landed = {} THEN "done" ELSE "lock")
    /\ events' = events \cup {i.mark : i \in Range(call[c].items)}
    /\ UNCHANGED <<disk, dir, git, lock, copy, walk, base, marks, strange, stirred>>
Emit(c) ==
    /\ call[c].pc = "emit" /\ Goto(c, IF call[c].landed = {} THEN "done" ELSE "lock")
    /\ events' = events \cup call[c].landed
    /\ UNCHANGED <<disk, dir, git, lock, copy, walk, base, marks, strange, stirred>>

(* auto_commit, still inside the RwLock: the flock, then `git add` and     *)
(* `git commit` of the paths that were written, each a process of its own. *)
(* Either fails while a stray one has the index; that is only logged.      *)
Touched(c) == {i.note : i \in {j \in Range(call[c].items) : j.mark \in call[c].landed}}
Committed(ns) == [n \in Notes |-> IF n \in ns THEN disk[n] ELSE head[n]]
TakeFlock(c) ==
    /\ call[c].pc = "lock" /\ flock = "free" /\ flock' = c
    /\ Goto(c, "add")
    /\ UNCHANGED <<disk, dir, git, queue, inside, copy, walk, base, events, marks, strange, stirred>>
GitAdd(c) ==
    /\ call[c].pc = "add"
    /\ Goto(c, IF stray.live THEN "done" ELSE "commit")
    /\ flock' = IF stray.live THEN "free" ELSE flock
    /\ UNCHANGED <<disk, dir, git, queue, inside, copy, walk, base, events, marks, strange, stirred>>
GitCommitOf(c, ns) ==
    /\ call[c].pc = "commit" /\ Goto(c, "done") /\ flock' = "free"
    /\ head' = IF stray.live THEN head ELSE Committed(ns)
    /\ UNCHANGED <<disk, dir, stray, hungup, queue, inside, copy, walk, base,
                   events, marks, strange, stirred>>
GitCommitLast(c) == GitCommitOf(c, {Last(call[c].items).note})
GitCommit(c) == GitCommitOf(c, Touched(c))

(* A GET, and what an index shows note by note.  *)
Get(c) ==
    /\ call[c].pc = "look" /\ call[c].op = "get"
    /\ copy' = [copy EXCEPT ![c][Now(c).note] = IF There(Now(c).note) THEN disk[Now(c).note] ELSE Unknown]
    /\ Goto(c, "done")
    /\ UNCHANGED <<disk, dir, git, lock, walk, base, events, marks, strange, stirred>>

(* The index: first the paths a credential covers, then each note's tag; a *)
(* note gone by then has a line without one.                               *)
ListIndex(c) ==
    /\ call[c].pc = "look" /\ call[c].op = "index"
    /\ call' = [call EXCEPT ![c].pc = "tags", ![c].plan = Sorted(Present(disk) \cap Within[c])]
    /\ copy' = [copy EXCEPT ![c] = [n \in Notes |-> Unknown]]
    /\ UNCHANGED <<disk, dir, git, lock, walk, base, events, marks, strange, stirred>>
TagNext(c) ==
    /\ call[c].pc = "tags"
    /\ LET k == call[c].at IN
       IF k > Len(call[c].plan) THEN Goto(c, "done") /\ UNCHANGED copy
       ELSE /\ call' = [call EXCEPT ![c].at = k + 1]
            /\ copy' = [copy EXCEPT ![c][call[c].plan[k]] =
                            IF There(call[c].plan[k]) THEN disk[call[c].plan[k]] ELSE Unknown]
    /\ UNCHANGED <<disk, dir, git, lock, walk, base, events, marks, strange, stirred>>

(* list_notes and search_notes: a page of the notes behind the cursor.     *)
(* Bug: the cursor is the first of the notes left out.                     *)
BehindLeftOut(seen) ==
    IF seen = <<>> THEN Present(disk)
    ELSE {n \in Present(disk) : \E m \in Present(disk) : Last(seen) < m /\ m < n}
Behind(seen) == IF seen = <<>> THEN Present(disk) ELSE {n \in Present(disk) : n > Last(seen)}
Page(c) ==
    /\ call[c].pc = "look" /\ call[c].op = "page"
    /\ \E limit \in PageSizes :
         LET so == IF walk[c].more THEN walk[c] ELSE [NoWalk EXCEPT !.steady = Present(disk)]
             rest == Sorted(Behind(so.seen))
         IN  walk' = [walk EXCEPT ![c] =
                [seen |-> so.seen \o SubSeq(rest, 1, IF limit < Len(rest) THEN limit ELSE Len(rest)),
                 steady |-> so.steady,
                 more |-> Len(rest) > limit]]
    /\ Goto(c, "done")
    /\ UNCHANGED <<disk, dir, git, lock, copy, base, events, marks, strange, stirred>>

Done(c) ==
    /\ call[c].pc = "done"
    /\ inside' = inside \ {c} /\ call' = [call EXCEPT ![c] = Idle]
    /\ copy' = IF call[c].op = "put" /\ call[c].landed # {}
               THEN [copy EXCEPT ![c][call[c].items[1].note] = call[c].plan[1]] ELSE copy
    /\ walk' = IF walk[c].more THEN walk ELSE [walk EXCEPT ![c] = NoWalk]
    /\ stirred' = stirred \ {c}
    /\ UNCHANGED <<disk, dir, git, queue, flock, base, events, marks, strange>>

(* The client of a PUT hangs up: its handler is dropped at the await it    *)
(* stands at, with the guards it holds, and the git command it waits for   *)
(* goes on by itself.                                                      *)
HangUp(c) ==
    /\ call[c].op = "put" /\ call[c].pc \in {"queued", "add", "commit"}
    /\ queue' = RemoveFirst(queue, c)
    /\ inside' = inside \ {c} /\ flock' = IF flock = c THEN "free" ELSE flock
    /\ call' = [call EXCEPT ![c] = Idle]
    /\ hungup' = (hungup \/ call[c].pc # "queued") /\ stirred' = stirred \ {c}
    /\ stray' = IF call[c].pc = "queued" \/ stray.live THEN stray
                ELSE [live |-> TRUE, commits |-> IF call[c].pc = "commit" THEN Touched(c) ELSE {}]
    /\ UNCHANGED <<disk, dir, head, copy, walk, base, events, marks, strange>>
StrayEnds ==
    /\ stray.live /\ stray' = NoStray /\ head' = Committed(stray.commits)
    /\ UNCHANGED <<disk, dir, hungup, lock, call, copy, walk, base, events, marks, strange, stirred>>

(* An outside program takes the flock, reads, then writes or deletes a     *)
(* note, commits it and lets go.                                           *)
OutsideTakes ==
    /\ flock = "free" /\ strange < MaxOutside
    /\ flock' = "outside" /\ base' = disk
    /\ UNCHANGED <<disk, dir, git, queue, inside, call, copy, walk, events, marks, strange, stirred>>
OutsideWrites ==
    /\ flock = "outside" /\ flock' = "free"
    /\ strange' = strange + 1
    /\ \E n \in Notes : \E cell \in {Absent, (base[n] \ Absent) \cup {MaxMarks + strange'}} :
         /\ n \in InDir => dir
         /\ Become([disk EXCEPT ![n] = cell])
         /\ head' = IF stray.live THEN head ELSE [head EXCEPT ![n] = cell]
    /\ stirred' = stirred \cup inside /\ base' = NoBase
    /\ UNCHANGED <<dir, stray, hungup, queue, inside, call, copy, events, marks>>

-----------------------------------------------------------------------------
Handle(c) ==
    \/ Enter(c) \/ LookAtOne(c) \/ SaveOne(c) \/ LookAtAll(c) \/ ApplyAll(c) \/ Emit(c)
    \/ TakeFlock(c) \/ GitAdd(c) \/ GitCommit(c)
    \/ Get(c) \/ ListIndex(c) \/ TagNext(c) \/ Page(c) \/ Done(c)
Next ==
    \/ \E c \in Clients : Ask(c) \/ Handle(c) \/ HangUp(c)
    \/ StrayEnds \/ OutsideTakes \/ OutsideWrites
Spec == Init /\ [][Next]_vars

(* A call goes on, and an outside program gives the flock back; nobody has *)
(* to ask for anything, and a stray command may take for ever.             *)
FairSpec == Spec /\ (\A c \in Clients : WF_vars(Handle(c))) /\ WF_vars(OutsideWrites)

-----------------------------------------------------------------------------
(* No update is lost (ADR-0028): what a note holds stays in it unless a     *)
(* call says that it overwrites or deletes.  The flock does not help a call *)
(* that read before an outside program wrote, nor an outside program that  *)
(* read before a call of one of the tools that do without it.              *)
Knowing(c) ==
    \/ call[c].op = "delete" \/ (call[c].op = "create" /\ Now(c).expect = "either")
    \/ call[c].op = "put" /\ Now(c).expect = "present"
Excused(n) ==
    \/ \E c \in inside : call'[c] # call[c] /\ (Knowing(c) \/ c \in stirred)
    \/ flock = "outside" /\ flock' = "free" /\ (disk'[n] = Absent \/ base[n] # disk[n])
NothingLost == [][\A n \in Notes : There(n) /\ ~(disk[n] \subseteq disk'[n]) => Excused(n)]_vars

(* The index is a snapshot (`a consistent snapshot rather than a walk       *)
(* through a moving vault`), if no outside program moves it.               *)
IndexIsSnapshot ==
    \A c \in Clients : call[c].op = "index" /\ call[c].pc = "done" /\ c \notin stirred =>
        copy[c] = [n \in Notes |-> IF n \in Within[c] /\ There(n) THEN disk[n] ELSE Unknown]

(* Whatever is written between its pages, a listing followed to its end    *)
(* shows each note that was there all along, in order and none twice.      *)
ListingComplete ==
    \A c \in Clients : LET w == walk[c] IN
        /\ ~w.more => w.steady \subseteq Range(w.seen)
        /\ \A i, j \in DOMAIN w.seen : i < j => w.seen[i] < w.seen[j]

(* What a call reports as done is in the vault and in the journal, and the *)
(* rest is in neither; of the tools that promise it all or nothing.        *)
ReportsTrue ==
    \A c \in Clients : call[c].pc = "done" /\ call[c].op \in Writes =>
        /\ \A i \in Range(call[c].items) :
             LET done == i.mark \in call[c].landed IN
             /\ i.mark \in events <=> done
             /\ i.mark \in UNION Range(disk) => done
             /\ done /\ c \notin stirred => CASE call[c].op = "delete" -> ~There(i.note)
                                              [] call[c].op = "create" -> There(i.note)
                                              [] OTHER -> i.mark \in disk[i.note]
        /\ call[c].op \in {"edit", "delete"} =>
             call[c].landed \in {{}, {i.mark : i \in Range(call[c].items)}}

(* Every write is committed as it lands (ADR-0018): between calls git has   *)
(* what the vault has, unless a client has ever hung up.                   *)
AllCommitted == inside = {} /\ flock = "free" /\ ~hungup => head = disk

(* Every call is answered, readers and writers in their turn.              *)
CallsEnd == \A c \in Clients : call[c].pc # "idle" ~> call[c].pc = "idle"
=============================================================================
