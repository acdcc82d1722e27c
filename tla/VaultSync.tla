------------------------------- MODULE VaultSync --------------------------------
(***************************************************************************)
(* The server around a vault that is a git repository: write tools that    *)
(* commit what they wrote (lib.rs, `auto_commit`), the sync sequence that  *)
(* `sync_vault`, the interval task and the auto-push fallback share        *)
(* (tools_sync.rs), and the debounced auto-push task with its retry timer  *)
(* and the sync health it feeds (sync.rs).                                 *)
(*                                                                         *)
(* A step is one git command, or what happens between two awaits. The      *)
(* write guard orders the tools and the local half of a sync; fetch, push  *)
(* and the queries around them run without it, so two syncs interleave     *)
(* there. External tools respect the flock, which a sync holds from its    *)
(* sweep to the end of its rebase and a tool holds inside each of its two  *)
(* steps, not between them.                                                *)
(*                                                                         *)
(* History is linear: the upstream is a sequence of commits, the remote-   *)
(* tracking ref a prefix of it, HEAD a prefix followed by local commits.   *)
(***************************************************************************)
EXTENDS Naturals, Sequences, SequencesExt, FiniteSets

CONSTANTS
    Path,                           \* notes
    ToolPath, EditPath, RemotePath, \* which of them each writer touches
    Task,                           \* callers of sync_vault, the interval task
    Pusher,                         \* the auto-push task
    MaxWrites, MaxEdits, MaxRemote, \* bounds on writes by tools, externals, others
    MaxKills,                       \* bound on restarts
    ReadOnlyModes,                  \* may the vault be configured read-only?
    Faults                          \* what may go wrong, see below

ASSUME PathsAssumption == Path # {} /\ ToolPath \cup EditPath \cup RemotePath \subseteq Path
ASSUME TaskAssumption == Pusher \notin Task /\ {"free", "tool"} \cap (Task \cup {Pusher}) = {}
ASSUME BoundsAssumption == MaxWrites \in Nat /\ MaxEdits \in Nat /\ MaxRemote \in Nat /\ MaxKills \in Nat

(* The network may be down, or go down when the server has taken a push    *)
(* and the answer is under way; a local `git commit` may fail; the server  *)
(* and its git may be killed while HEAD is on its branch, or mid-rebase;   *)
(* a rebase may fail with no conflict and be undone, and a diff may fail.  *)
ASSUME FaultAssumption ==
    Faults \subseteq {"offline", "lost", "commit", "kill", "kill_rebase", "rebase", "diff"}

ASSUME ModesAssumption == ReadOnlyModes \subseteq BOOLEAN

Syncer == Task \cup {Pusher}

-----------------------------------------------------------------------------
(* Bodies, commits and what a history checks out to. *)

Author == {"tool", "edit", "other"}
Body == [by : Author \cup {"none"}, n : Nat]
Original == [by |-> "none", n |-> 0]
Markers  == [by |-> "none", n |-> 1]      \* a note full of conflict markers

Commit(by, change) == [by |-> by, change |-> change]

(* A note is as the last commit that touches it left it. *)
Touching(h, p) == {i \in DOMAIN h : p \in DOMAIN h[i].change}
Checkout(h) ==
    [p \in Path |-> IF Touching(h, p) = {} THEN Original
                    ELSE h[Max(Touching(h, p))].change[p]]

Wellformed(h, authors) ==
    \A i \in DOMAIN h :
        /\ h[i].by \in authors
        /\ DOMAIN h[i].change \subseteq Path
        /\ \A p \in DOMAIN h[i].change : h[i].change[p] \in Body

Touched(h) == UNION {DOMAIN h[i].change : i \in DOMAIN h}
BodiesOf(h) == UNION {{h[i].change[p] : p \in DOMAIN h[i].change} : i \in DOMAIN h}

-----------------------------------------------------------------------------
VARIABLES
    readOnly,   \* MD_READ_ONLY: the vault only follows its upstream (ADR-0030)
    remote,     \* the upstream branch on the server
    tracking,   \* @{u}: how much of it the last fetch or push has seen
    base,       \* HEAD: this much of the upstream, seen or not ...
    local,      \* ... followed by these commits
    work,       \* the notes on disk
    onto,       \* the upstream tip of a rebase that is running, or 0
    guard,      \* holder of the write guard: "free", "tool" or a syncer
    call,       \* the running tool call: its step, note and body
    pc,         \* the step of every syncer
    old, new,   \* its upstream tips before and after the fetch
    attempt,    \* which attempt of its push loop
    outcome,    \* what its run_sync comes to
    signal,     \* a commit signal is queued for the pusher
    retry,      \* the retry timer is armed
    failing,    \* sync_health holds a failure
    online,     \* the remote can be reached
    published,  \* bodies named by records of the event journal
    drawn,      \* how many bodies each kind of writer has written
    kills,      \* how often the process was killed
    due         \* history: the commits a sync or push attempt set out with

git == <<readOnly, remote, tracking, base, local, work, onto>>
sync == <<pc, old, new, attempt, outcome>>
push == <<signal, retry, failing>>
vars == <<git, guard, call, sync, push, online, published, drawn, kills, due>>

Step == {"idle", "settle", "count", "first", "start", "fetch", "tip", "lock",
         "rebase", "pick", "abort", "pull", "publish", "ahead", "push", "report"}

TypeOK ==
    /\ readOnly \in BOOLEAN
    /\ Wellformed(remote, Author) /\ Wellformed(local, {"tool", "edit"})
    /\ tracking \in 0..Len(remote) /\ base \in 0..Len(remote) /\ onto \in 0..tracking
    /\ work \in [Path -> Body]
    /\ guard \in {"free", "tool"} \cup Syncer
    /\ call \in [step : {"idle", "emit", "commit"}, path : Path, body : Body]
    /\ pc \in [Syncer -> Step]
    /\ old \in [Syncer -> Nat] /\ new \in [Syncer -> Nat]
    /\ \A s \in Syncer : new[s] <= Len(remote)
    /\ attempt \in [Syncer -> 0..1]
    /\ outcome \in [Syncer -> {"clean", "conflict", "error"}]
    /\ signal \in BOOLEAN /\ retry \in BOOLEAN /\ failing \in BOOLEAN
    /\ online \in BOOLEAN
    /\ drawn \in [Author -> Nat] /\ kills \in 0..MaxKills

Commits == SubSeq(remote, 1, base) \o local
Dirty == {p \in Path : work[p] # Checkout(Commits)[p]}

(* A rebase detaches HEAD while it runs, and for as long as one that was   *)
(* cut short is left there: `@{u}` does not resolve, so rev-parse and      *)
(* rev-list fail, and a plain push refuses.                                *)
Detached == onto # 0

Idle == [step |-> "idle", path |-> CHOOSE p \in Path : TRUE, body |-> Original]

(* A read-only vault has no auto-commit and no auto-push (check_read_only);  *)
(* it starts with a sync.                                                  *)
Init ==
    /\ readOnly \in ReadOnlyModes
    /\ remote = <<>> /\ tracking = 0 /\ base = 0 /\ local = <<>>
    /\ work = [p \in Path |-> Original]
    /\ onto = 0
    /\ guard = "free"
    /\ call = Idle
    /\ pc = [s \in Syncer |-> "idle"]
    /\ old = [s \in Syncer |-> 0] /\ new = [s \in Syncer |-> 0]
    /\ attempt = [s \in Syncer |-> 0]
    /\ outcome = [s \in Syncer |-> "clean"]
    /\ signal = ~readOnly /\ retry = FALSE /\ failing = FALSE
    /\ online = TRUE
    /\ published = {}
    /\ drawn = [by \in Author |-> 0]
    /\ kills = 0
    /\ due = [s \in Syncer |-> {}]

-----------------------------------------------------------------------------
(* Everybody who writes notes draws a new body each time. *)

Fresh(by) == [by |-> by, n |-> drawn[by] + 1]
Draw(by, bound) ==
    /\ drawn[by] < bound
    /\ drawn' = [drawn EXCEPT ![by] = @ + 1]

(* A write tool under the write guard: the batch (its own flock taken and  *)
(* released inside), its event record, its commit.                         *)
CallTool(p) ==
    /\ guard = "free" /\ ~readOnly
    /\ Draw("tool", MaxWrites)
    /\ guard' = "tool"
    /\ call' = [step |-> "emit", path |-> p, body |-> Fresh("tool")]
    /\ work' = [work EXCEPT ![p] = Fresh("tool")]
    /\ UNCHANGED <<readOnly, remote, tracking, base, local, onto, sync, push, online, published, due, kills>>

(* Mutant of EmitEvent: the write guard is dropped once the event is out. *)
EmitUnguarded ==
    /\ call.step = "emit"
    /\ published' = published \cup {call.body}
    /\ call' = [call EXCEPT !.step = "commit"]
    /\ guard' = "free"
    /\ UNCHANGED <<git, sync, push, online, drawn, due, kills>>

EmitEvent ==
    /\ call.step = "emit"
    /\ published' = published \cup {call.body}
    /\ call' = [call EXCEPT !.step = "commit"]
    /\ UNCHANGED <<git, guard, sync, push, online, drawn, due, kills>>

(* Mutant of CommitPath: everything is staged, as by `git add -A`. *)
CommitEverything ==
    /\ signal' = TRUE
    /\ local' = IF Detached THEN local
                ELSE Append(local, Commit("tool", [q \in Dirty |-> work[q]]))

(* auto_commit: stage and commit the touched path, then wake the pusher.   *)
(* A git failure is logged and the call answers ok all the same. While a   *)
(* rebase is left unfinished the commit lands on the detached HEAD, on no  *)
(* branch.                                                                 *)
CommitPath ==
    /\ signal' = TRUE
    /\ local' = IF Detached THEN local
                ELSE Append(local, Commit("tool", [q \in {call.path} |-> work[q]]))

AutoCommit ==
    /\ call.step = "commit"
    /\ guard' = "free"
    /\ call' = Idle
    /\ \/ call.path \in Dirty /\ CommitPath
       \/ /\ "commit" \in Faults \/ call.path \notin Dirty
          /\ UNCHANGED <<local, signal>>
    /\ UNCHANGED <<readOnly, remote, tracking, base, work, onto, sync, retry, failing,
                   online, published, drawn, due, kills>>

-----------------------------------------------------------------------------
(* run_sync and run_sync_inner. *)

Goto(s, step) == pc' = [pc EXCEPT ![s] = step]
Ends(s, result) == /\ Goto(s, "report")
                   /\ outcome' = [outcome EXCEPT ![s] = result]

SetsOut(s) == due' = [due EXCEPT ![s] = Range(local)]

(* A tool call, a tick of the interval or the startup task. *)
Tick(s) ==
    /\ s \in Task
    /\ pc[s] = "idle"
    /\ Goto(s, "start")
    /\ attempt' = [attempt EXCEPT ![s] = 0]
    /\ SetsOut(s)
    /\ UNCHANGED <<git, guard, call, old, new, outcome, push, online, published, drawn, kills>>

(* The upstream tip before the fetch; without one the sync fails. *)
OldTip(s) ==
    /\ pc[s] = "start"
    /\ IF Detached
       THEN Ends(s, "error") /\ UNCHANGED old
       ELSE /\ old' = [old EXCEPT ![s] = tracking]
            /\ Goto(s, "fetch") /\ UNCHANGED outcome
    /\ UNCHANGED <<git, guard, call, new, attempt, push, online, published, drawn, due, kills>>

Fetch(s) ==
    /\ pc[s] = "fetch"
    /\ IF online
       THEN /\ tracking' = Len(remote) /\ Goto(s, IF readOnly THEN "pull" ELSE "tip")
            /\ UNCHANGED outcome
       ELSE Ends(s, "error") /\ UNCHANGED tracking
    /\ UNCHANGED <<readOnly, remote, base, local, work, onto, guard, call, old, new, attempt,
                   push, online, published, drawn, due, kills>>

(* The upstream tip after the fetch; the old one when it does not resolve. *)
NewTip(s) ==
    /\ pc[s] = "tip"
    /\ new' = [new EXCEPT ![s] = IF Detached THEN old[s] ELSE tracking]
    /\ Goto(s, "lock")
    /\ UNCHANGED <<git, guard, call, old, attempt, outcome, push, online, published, drawn, due, kills>>

(* Guard and flock taken, the sweep commit: whatever is not committed yet. *)
Checkpoint(s) ==
    /\ pc[s] = "lock"
    /\ guard = "free"
    /\ \/ /\ guard' = s
          /\ local' = IF Dirty = {} THEN local
                      ELSE Append(local, Commit("edit", [p \in Dirty |-> work[p]]))
          /\ Goto(s, "rebase")
          /\ UNCHANGED outcome
       \/ /\ "commit" \in Faults /\ Dirty # {}
          /\ Ends(s, "error")
          /\ UNCHANGED <<guard, local>>
    /\ UNCHANGED <<readOnly, remote, tracking, base, work, onto, call, old, new, attempt,
                   push, online, published, drawn, due, kills>>

(* git rebase @{u}: nothing to do when HEAD contains the upstream.  Any     *)
(* failure counts as a conflict and is undone.                             *)
Applied(s) == IF new[s] # old[s] THEN "publish" ELSE "ahead"

Rebase(s) ==
    /\ pc[s] = "rebase"
    /\ \/ /\ base >= tracking
          /\ Goto(s, Applied(s)) /\ guard' = "free" /\ UNCHANGED <<onto, outcome>>
       \/ /\ base < tracking
          /\ Goto(s, "pick") /\ onto' = tracking /\ UNCHANGED <<guard, outcome>>
       \/ /\ "rebase" \in Faults
          /\ Ends(s, "conflict") /\ guard' = "free" /\ UNCHANGED onto
    /\ UNCHANGED <<readOnly, remote, tracking, base, local, work, call, old, new, attempt,
                   push, online, published, drawn, due, kills>>

(* Commits of both sides that touch one note conflict. *)
Clashing == Touched(local) \cap Touched(SubSeq(remote, base + 1, onto))

RebaseApplies(s) ==
    /\ pc[s] = "pick"
    /\ Clashing = {}
    /\ base' = onto /\ onto' = 0
    /\ work' = Checkout(SubSeq(remote, 1, onto) \o local)
    /\ guard' = "free"
    /\ Goto(s, Applied(s))
    /\ UNCHANGED <<readOnly, remote, tracking, local, call, old, new, attempt, outcome,
                   push, online, published, drawn, due, kills>>

(* Mutant of RebaseConflicts: the guard is released before the abort. *)
RebaseUnguarded(s) ==
    /\ pc[s] = "pick"
    /\ Clashing # {}
    /\ work' = [p \in Path |-> IF p \in Clashing THEN Markers ELSE work[p]]
    /\ guard' = "free"
    /\ Goto(s, "abort")
    /\ UNCHANGED <<readOnly, remote, tracking, base, local, onto, call, old, new, attempt,
                   outcome, push, online, published, drawn, due, kills>>

RebaseConflicts(s) ==
    /\ pc[s] = "pick"
    /\ Clashing # {}
    /\ work' = [p \in Path |-> IF p \in Clashing THEN Markers ELSE work[p]]
    /\ Goto(s, "abort")
    /\ UNCHANGED <<readOnly, remote, tracking, base, local, onto, guard, call, old, new, attempt,
                   outcome, push, online, published, drawn, due, kills>>

(* git rebase --abort, then the conflict is the result.  That the abort     *)
(* itself fails, which the code ignores, is left out.                      *)
Abort(s) ==
    /\ pc[s] = "abort"
    /\ work' = Checkout(Commits) /\ onto' = 0
    /\ guard' = "free"
    /\ Ends(s, "conflict")
    /\ UNCHANGED <<readOnly, remote, tracking, base, local, call, old, new, attempt,
                   push, online, published, drawn, due, kills>>

(* run_pull: guard and flock taken, `git merge --ff-only @{u}`, which does  *)
(* not touch a note that is not committed, and both let go.                *)
(* Bug: the notes are reset to the upstream.                               *)
PullReset(s) ==
    /\ pc[s] = "pull" /\ guard = "free"
    /\ old' = [old EXCEPT ![s] = base] /\ new' = [new EXCEPT ![s] = tracking]
    /\ base' = tracking /\ work' = Checkout(SubSeq(remote, 1, tracking))
    /\ Goto(s, "publish")
    /\ UNCHANGED <<readOnly, remote, tracking, local, onto, guard, call, attempt, outcome,
                   push, online, published, drawn, due, kills>>
Pull(s) ==
    /\ pc[s] = "pull" /\ guard = "free"
    /\ old' = [old EXCEPT ![s] = base] /\ new' = [new EXCEPT ![s] = tracking]
    /\ LET brought == SubSeq(remote, base + 1, tracking)
           taken == local = <<>> /\ Touched(brought) \cap Dirty = {}
       IN  IF base < tracking /\ taken
           THEN /\ base' = tracking
                /\ work' = [p \in Path |-> IF p \in Touched(brought)
                              THEN Checkout(SubSeq(remote, 1, tracking))[p] ELSE work[p]]
                /\ Goto(s, "publish") /\ UNCHANGED outcome
           ELSE /\ Ends(s, IF base >= tracking THEN "clean" ELSE "error")
                /\ UNCHANGED <<base, work>>
    /\ UNCHANGED <<readOnly, remote, tracking, local, onto, guard, call, attempt,
                   push, online, published, drawn, due, kills>>

(* Mutant of Publish: only the last commit of the range is announced. *)
PublishTip(s) ==
    /\ pc[s] = "publish"
    /\ published' = published \cup BodiesOf(SubSeq(remote, new[s], new[s]))
    /\ Goto(s, "ahead")
    /\ UNCHANGED <<git, guard, call, old, new, attempt, outcome, push, online, drawn, due, kills>>

(* What the fetch or the pull brought goes to the event journal; a failing  *)
(* diff is taken for one that brought nothing.                             *)
Publish(s) ==
    /\ pc[s] = "publish"
    /\ \/ published' = published \cup BodiesOf(SubSeq(remote, old[s] + 1, new[s]))
       \/ "diff" \in Faults /\ UNCHANGED published
    /\ IF readOnly THEN Ends(s, "clean") ELSE Goto(s, "ahead") /\ UNCHANGED outcome
    /\ UNCHANGED <<git, guard, call, old, new, attempt, push, online, drawn, due, kills>>

(* ahead_count: what HEAD has and the tracking ref has not.  A failing     *)
(* rev-list is taken for "nothing ahead".                                  *)
Ahead == IF Detached THEN 0 ELSE Len(local) + (IF base > tracking THEN base - tracking ELSE 0)

CountAhead(s) ==
    /\ pc[s] = "ahead"
    /\ IF Ahead = 0 THEN Ends(s, "clean") ELSE Goto(s, "push") /\ UNCHANGED outcome
    /\ UNCHANGED <<git, guard, call, old, new, attempt, push, online, published, drawn, due, kills>>

(* git push: only a fast-forward of what the server has. *)
PushAccepted == online /\ ~Detached /\ base = Len(remote)

Pushed ==
    /\ remote' = remote \o local
    /\ tracking' = Len(remote \o local) /\ base' = Len(remote \o local)
    /\ local' = <<>>
    /\ UNCHANGED <<readOnly, work, onto>>

(* The server took the commits and the answer is lost: the push counts as  *)
(* one that failed, and the tracking ref does not know of it.              *)
PushLost ==
    /\ "lost" \in Faults /\ PushAccepted /\ local # <<>>
    /\ remote' = remote \o local /\ base' = Len(remote \o local)
    /\ local' = <<>>
    /\ UNCHANGED <<readOnly, tracking, work, onto>>
PushFails == PushLost \/ (~PushAccepted /\ UNCHANGED git)

Push(s) ==
    /\ pc[s] = "push"
    /\ \/ PushAccepted /\ Pushed /\ Ends(s, "clean") /\ UNCHANGED attempt
       \/ /\ PushFails
          /\ IF attempt[s] = 0
             THEN /\ attempt' = [attempt EXCEPT ![s] = 1]
                  /\ Goto(s, "start") /\ UNCHANGED outcome
             ELSE Ends(s, "error") /\ UNCHANGED attempt
    /\ UNCHANGED <<guard, call, old, new, push, online, published, drawn, due, kills>>

(* The outcome becomes the sync health; the pusher arms its retry timer    *)
(* after an error and leaves a conflict alone.                             *)
Report(s) ==
    /\ pc[s] = "report"
    /\ failing' = (outcome[s] # "clean")
    /\ retry' = IF s = Pusher THEN outcome[s] = "error" ELSE retry
    /\ Goto(s, "idle")
    /\ UNCHANGED <<git, guard, call, old, new, attempt, outcome, signal, online,
                   published, drawn, due, kills>>

-----------------------------------------------------------------------------
(* auto_push_task. *)

Wake ==
    /\ pc[Pusher] = "idle"
    /\ signal
    /\ signal' = FALSE
    /\ Goto(Pusher, "settle")
    /\ UNCHANGED <<git, guard, call, old, new, attempt, outcome, retry, failing,
                   online, published, drawn, due, kills>>

(* Every further signal restarts the debounce window. *)
Settle ==
    /\ pc[Pusher] = "settle"
    /\ IF signal
       THEN signal' = FALSE /\ UNCHANGED <<pc, retry, due>>
       ELSE /\ Goto(Pusher, "count")
            /\ retry' = FALSE /\ SetsOut(Pusher)
            /\ UNCHANGED signal
    /\ UNCHANGED <<git, guard, call, old, new, attempt, outcome, failing, online,
                   published, drawn, kills>>

RetryDue ==
    /\ pc[Pusher] = "idle"
    /\ retry
    /\ retry' = FALSE
    /\ Goto(Pusher, "count")
    /\ SetsOut(Pusher)
    /\ UNCHANGED <<git, guard, call, old, new, attempt, outcome, signal, failing,
                   online, published, drawn, kills>>

CountBacklog ==
    /\ pc[Pusher] = "count"
    /\ IF Ahead = 0
       THEN Goto(Pusher, "idle") /\ failing' = FALSE
       ELSE Goto(Pusher, "first") /\ UNCHANGED failing
    /\ UNCHANGED <<git, guard, call, old, new, attempt, outcome, signal, retry,
                   online, published, drawn, due, kills>>

(* Mutant of PushFirst: a failed push clears the health, too. *)
PushOptimistic ==
    /\ pc[Pusher] = "first"
    /\ \/ /\ PushAccepted /\ Pushed
          /\ Goto(Pusher, "idle") /\ failing' = FALSE
          /\ UNCHANGED attempt
       \/ /\ PushFails
          /\ Goto(Pusher, "idle") /\ failing' = FALSE
          /\ UNCHANGED attempt
    /\ UNCHANGED <<guard, call, old, new, outcome, signal, retry, online, published, drawn, due, kills>>

(* A plain push first, one full sync when it is not taken. *)
PushFirst ==
    /\ pc[Pusher] = "first"
    /\ \/ /\ PushAccepted /\ Pushed
          /\ Goto(Pusher, "idle") /\ failing' = FALSE
          /\ UNCHANGED attempt
       \/ /\ PushFails
          /\ Goto(Pusher, "start")
          /\ attempt' = [attempt EXCEPT ![Pusher] = 0]
          /\ UNCHANGED failing
    /\ UNCHANGED <<guard, call, old, new, outcome, signal, retry, online, published, drawn, due, kills>>

-----------------------------------------------------------------------------
(* The rest of the world. *)

(* An external editor or script that takes the flock: never while a sync   *)
(* has it, but possibly between the two steps of a tool.                   *)
ExternalEdit(p) ==
    /\ guard \notin Syncer
    /\ Draw("edit", MaxEdits)
    /\ work' = [work EXCEPT ![p] = Fresh("edit")]
    /\ UNCHANGED <<readOnly, remote, tracking, base, local, onto, guard, call, sync, push,
                   online, published, due, kills>>

(* Another clone pushes. *)
OtherPushes(p) ==
    /\ Draw("other", MaxRemote)
    /\ remote' = Append(remote, Commit("other", [q \in {p} |-> Fresh("other")]))
    /\ UNCHANGED <<readOnly, tracking, base, local, work, onto, guard, call, sync, push,
                   online, published, due, kills>>

Network ==
    /\ "offline" \in Faults
    /\ online' = ~online
    /\ UNCHANGED <<git, guard, call, sync, push, published, drawn, due, kills>>

(* Mutant of Restart: no signal is queued at startup. *)
RestartQuiet ==
    /\ IF Detached THEN "kill_rebase" \in Faults ELSE "kill" \in Faults
    /\ kills < MaxKills /\ kills' = kills + 1
    /\ guard' = "free" /\ call' = Idle
    /\ pc' = [s \in Syncer |-> "idle"]
    /\ old' = [s \in Syncer |-> 0] /\ new' = [s \in Syncer |-> 0]
    /\ attempt' = [s \in Syncer |-> 0]
    /\ outcome' = [s \in Syncer |-> "clean"]
    /\ signal' = FALSE /\ retry' = FALSE /\ failing' = FALSE
    /\ due' = [s \in Syncer |-> {}]
    /\ UNCHANGED <<git, online, published, drawn>>

(* The server is killed and started again: locks and memory are gone, and  *)
(* with_auto_push queues one signal for whatever the last run left.        *)
Restart ==
    /\ IF Detached THEN "kill_rebase" \in Faults ELSE "kill" \in Faults
    /\ kills < MaxKills /\ kills' = kills + 1
    /\ guard' = "free" /\ call' = Idle
    /\ pc' = [s \in Syncer |-> "idle"]
    /\ old' = [s \in Syncer |-> 0] /\ new' = [s \in Syncer |-> 0]
    /\ attempt' = [s \in Syncer |-> 0]
    /\ outcome' = [s \in Syncer |-> "clean"]
    /\ signal' = ~readOnly /\ retry' = FALSE /\ failing' = FALSE
    /\ due' = [s \in Syncer |-> {}]
    /\ UNCHANGED <<git, online, published, drawn>>

SyncStep(s) ==
    \/ OldTip(s) \/ Fetch(s) \/ NewTip(s) \/ Checkpoint(s)
    \/ Pull(s) \/ Rebase(s) \/ RebaseApplies(s) \/ RebaseConflicts(s) \/ Abort(s)
    \/ Publish(s) \/ CountAhead(s) \/ Push(s) \/ Report(s)

PushStep == Wake \/ Settle \/ RetryDue \/ CountBacklog \/ PushFirst

Next ==
    \/ \E p \in ToolPath : CallTool(p)
    \/ EmitEvent \/ AutoCommit
    \/ \E s \in Syncer : Tick(s) \/ SyncStep(s)
    \/ PushStep
    \/ \E p \in EditPath : ExternalEdit(p)
    \/ \E p \in RemotePath : OtherPushes(p)
    \/ Network
    \/ Restart

Spec == Init /\ [][Next]_vars

(* A tool call and a sync that runs go on, the queue of the write guard is *)
(* fair, and the pusher's timers fire. Nobody has to call sync_vault.      *)
FairSpec ==
    /\ Spec
    /\ WF_vars(EmitEvent \/ AutoCommit)
    /\ WF_vars(PushStep)
    /\ \A s \in Syncer : WF_vars(SyncStep(s)) /\ SF_vars(Checkpoint(s))

-----------------------------------------------------------------------------
(* A commit holds bodies of one author only: `mcp(...)` commits exactly    *)
(* what the tool wrote, the sweep of a sync only what was edited outside   *)
(* (ADR-0018).                                                             *)
Attributed ==
    \A i \in DOMAIN (remote \o local) :
        LET c == (remote \o local)[i]
        IN  \A p \in DOMAIN c.change : c.change[p].by = c.by

(* No sync loses an outside edit, a pull least of all (ADR-0030: it never   *)
(* overwrites local changes): only who writes the note replaces one that   *)
(* is in no commit yet.                                                    *)
EditsKept ==
    [][ \A p \in Path : work[p].by = "edit" /\ work'[p] # work[p] =>
          work[p] \in BodiesOf(remote' \o local') \/ drawn' # drawn ]_vars

(* Conflict markers never reach a note: whoever gets the guard finds none. *)
NoMarkers == guard = "free" => \A p \in Path : work[p] # Markers

(* Between calls nothing a tool wrote is left uncommitted, and no sync     *)
(* leaves the notes different from the commits, its aborted rebase         *)
(* included: what is not in git is an outside edit.                        *)
OnlyEditsUncommitted == guard = "free" => \A p \in Dirty : work[p].by = "edit"

Quiet == guard = "free" /\ \A s \in Syncer : pc[s] = "idle"

(* The event stream is a complete account (ADR-0016, ADR-0017): when no    *)
(* sync or tool is under way, every note of another clone that HEAD took   *)
(* over has been announced, and so has every note a tool wrote - as long   *)
(* as the server is not killed with a record still to be written.          *)
EventsComplete ==
    Quiet /\ kills = 0 =>
        \A b \in BodiesOf(Commits) : b.by \in {"tool", "other"} => b \in published

(* A success is reported only when it is one: the commits the attempt set  *)
(* out with are on the remote (`Record a successful push/sync attempt: the *)
(* vault is on the remote`, lib.rs).                                       *)
HealthHonest ==
    [][ \A s \in Syncer :
          /\ pc[s] \in {"count", "first", "report"} /\ pc'[s] = "idle" /\ ~failing'
            => due'[s] \subseteq Range(remote') ]_vars

(* Once the network stays up, everything committed gets to the remote,     *)
(* without another write or a sync_vault call (ADR-0019).                  *)
BacklogDrains == <>[]online => []<>(local = <<>>)
=================================================================================
