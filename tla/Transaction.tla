------------------------------ MODULE Transaction -------------------------------
(***************************************************************************)
(* The multi-file transaction engine of md-core (transaction.rs) on one    *)
(* vault: `commit_batch`, its rollback and cleanup, and the recovery that  *)
(* `Vault::open` runs, at the granularity of one journal write, rename or  *)
(* unlink per step. The process may die between any two steps and may be   *)
(* reopened; the file-system calls named in FaultPoints may fail.          *)
(*                                                                         *)
(* The exclusive flock and the server's write guard make the engine the    *)
(* only writer while a batch runs, so no other actor moves here.           *)
(***************************************************************************)
EXTENDS VaultOps, FiniteSets

CONSTANTS
    Batches,            \* the operation sequences callers submit
    Admissible(_, _),   \* Admissible(v, ops): callers submit ops to vault v
    Vaults,             \* the vaults the program may find at its first start
    MaxBatches,         \* bound: batch ids drawn in one behaviour
    MaxOps,             \* bound: operations in a batch (backup slots)
    MaxTrash,           \* bound: numbered names of one path in the trash
    FaultPoints         \* the calls that may fail, see below

ASSUME BoundsAssumption == MaxBatches \in Nat /\ MaxOps \in Nat /\ MaxTrash \in Nat
ASSUME BatchesAssumption ==
    \A s \in Batches : s \in Seq(Op) /\ Len(s) \in 1..MaxOps
ASSUME VaultsAssumption == Vaults \subseteq [Path -> Cell]

(* Where a call may fail: writing the journal, renaming or writing a note  *)
(* while applying, replaying an undo step, removing the backups, removing  *)
(* the journal, reading the journal at recovery.                           *)
ASSUME FaultAssumption ==
    FaultPoints \subseteq {"journal", "apply", "undo", "backup", "unlink", "read"}

BatchId == 1..MaxBatches

-----------------------------------------------------------------------------
(* The disk. A location is a note's path, a slot of .md-mcp/backup/<id>/   *)
(* or a numbered name in .md-mcp/trash/; all three are written as triples. *)

Note(p)      == <<"note", p, 0>>
Backup(b, i) == <<"backup", b, i>>
Trash(p, n)  == <<"trash", p, n>>

Notes == {Note(p) : p \in Path}

Loc == Notes
       \cup {Backup(b, i) : b \in BatchId, i \in 1..MaxOps}
       \cup {Trash(p, n) : p \in Path, n \in 0..MaxTrash}

Exists(d, l) == d[l] # None

(* rename(2): whatever was at the target is gone. *)
Rename(d, from, to) == [d EXCEPT ![to] = d[from], ![from] = None]

-----------------------------------------------------------------------------
(* The undo journal. A step names where a displaced body is (`at`) and     *)
(* where it belongs (`home`); RestoreFromBackup and RestoreFromTrash are   *)
(* replayed by the same code and share one kind.                           *)

UndoStep == [kind : {"remove", "restore", "unmove"}, at : Loc, home : Notes]

DeletePath(p)  == [kind |-> "remove",  at |-> Note(p), home |-> Note(p)]
Restore(l, p)  == [kind |-> "restore", at |-> l,       home |-> Note(p)]
ReverseMove(p, q) == [kind |-> "unmove", at |-> Note(q), home |-> Note(p)]

(* Mutant of HasWork: a reversed move is not recognised as done. *)
HasWorkBlind(d, s) == Exists(d, s.at)

(* The tolerance of `rollback`: a step whose body is not there, or a move  *)
(* whose source is back, is skipped as already done.                       *)
HasWork(d, s) ==
    /\ Exists(d, s.at)
    /\ s.kind = "unmove" => ~Exists(d, s.home)

Replay(s, d) ==
    IF ~HasWork(d, s) THEN d
    ELSE IF s.kind = "remove" THEN [d EXCEPT ![s.at] = None]
    ELSE Rename(d, s.at, s.home)

JournalFile == [state : {"absent", "open", "committed"}, undo : Seq(UndoStep)]
NoJournal == [state |-> "absent", undo |-> <<>>]

-----------------------------------------------------------------------------
VARIABLES
    disk,       \* [Loc -> Cell]
    journal,    \* [BatchId -> JournalFile], .md-mcp/journal/<id>.json
    last,       \* the last batch id drawn
    pc,         \* what the process is doing
    cur,        \* the batch being worked on
    ops,        \* its operations
    k,          \* the operation being applied
    undo,       \* in memory: steps recorded, or still to be replayed
    ok,         \* no undo step of the running rollback failed
    recovering, \* the running rollback or cleanup belongs to recovery
    todo,       \* journals recovery has still to look at
    healthy,    \* recovery finished every rollback so far
    result,     \* what the caller of the last batch is told
    promised    \* history: the notes as of the last commit point

storage == <<disk, journal>>
batch   == <<cur, ops, k>>
recovery == <<recovering, todo, healthy>>
vars == <<storage, last, pc, batch, undo, ok, recovery, result, promised>>

PC == {"down",      \* not running, or the open failed
       "recover",   \* recover_transactions, between two journals
       "idle",      \* open for writing, no batch running
       "reading",   \* open read-only
       "apply",     \* about to record the first undo step of operation k
       "aside",     \* recorded; about to move a displaced original aside
       "record",    \* original aside; about to record the move itself
       "land",      \* recorded; about to do the mutation itself
       "undo",      \* rolling back
       "clean",     \* removing the backups of cur
       "unlink"}    \* removing the journal of cur

Forward == pc \in {"apply", "aside", "record", "land"}

TypeOK ==
    /\ disk \in [Loc -> Cell]
    /\ journal \in [BatchId -> JournalFile]
    /\ last \in 0..MaxBatches
    /\ pc \in PC
    /\ cur \in 0..MaxBatches
    /\ ops \in Batches \cup {<<>>}
    /\ k \in 0..(MaxOps + 1)
    /\ undo \in Seq(UndoStep)
    /\ ok \in BOOLEAN /\ recovering \in BOOLEAN /\ healthy \in BOOLEAN
    /\ todo \subseteq BatchId
    /\ result \in {"none", "ok", "err"}
    /\ promised \in [Path -> Cell]

Vault == [p \in Path |-> disk[Note(p)]]

Init ==
    /\ \E v \in Vaults :
         /\ disk = [l \in Loc |-> IF l[1] = "note" THEN v[l[2]] ELSE None]
         /\ promised = v
    /\ journal = [b \in BatchId |-> NoJournal]
    /\ last = 0
    /\ pc = "down"
    /\ cur = 0 /\ ops = <<>> /\ k = 0 /\ undo = <<>>
    /\ ok = TRUE
    /\ recovering = FALSE /\ todo = {} /\ healthy = TRUE
    /\ result = "none"

-----------------------------------------------------------------------------
(* commit_batch, first half: draw an id, create the journal. *)

May(point) == point \in FaultPoints

Begin ==
    /\ pc = "idle"
    /\ last < MaxBatches
    /\ \E s \in Batches :
         /\ Admissible(Vault, s)
         /\ ops' = s
    /\ last' = last + 1
    /\ cur' = last + 1
    /\ k' = 1
    /\ undo' = <<>>
    /\ journal' = [journal EXCEPT ![last + 1] = [state |-> "open", undo |-> <<>>]]
    /\ pc' = "apply"
    /\ result' = "none"
    /\ UNCHANGED <<disk, ok, recovery, promised>>

(* The first journal write failed: nothing was done, the caller is told. *)
BeginFails ==
    /\ May("journal")
    /\ pc = "idle"
    /\ last < MaxBatches
    /\ last' = last + 1
    /\ result' = "err"
    /\ UNCHANGED <<storage, pc, batch, undo, ok, recovery, promised>>

-----------------------------------------------------------------------------
(* apply_op. Every step is recorded, in memory and then on disk, before    *)
(* the mutation it undoes. A failed journal write still leaves the step in *)
(* the in-memory journal that the rollback replays.                        *)

op == ops[k]

(* The rollback starts; of the batch only its id and its journal matter. *)
Fail == /\ pc' = "undo"
        /\ ok' = TRUE
        /\ ops' = <<>> /\ k' = 0
        /\ result' = "err"
        /\ UNCHANGED cur

(* Mutant of Recorded: the step is kept in memory, the journal written late. *)
RecordedInMemory(step, next) ==
    /\ undo' = Append(undo, step)
    /\ pc' = next
    /\ UNCHANGED <<journal, batch, ok, result, disk, last, recovery, promised>>

Recorded(step, next) ==
    /\ undo' = Append(undo, step)
    /\ \/ /\ journal' = [journal EXCEPT ![cur].undo = Append(undo, step)]
          /\ pc' = next
          /\ UNCHANGED <<batch, ok, result>>
       \/ /\ May("journal")
          /\ Fail
          /\ UNCHANGED journal
    /\ UNCHANGED <<disk, last, recovery, promised>>

Applying == pc = "apply" /\ k <= Len(ops)

(* Overwriting a note, or moving onto an existing one: the original is to  *)
(* be set aside under this operation's backup slot.                        *)
RecordBackup ==
    /\ Applying
    /\ op.kind \in {"write", "move"}
    /\ op.kind = "move" => op.path # op.to
    /\ Exists(disk, Note(op.to))
    /\ Recorded(Restore(Backup(cur, k), op.to), "aside")

RecordCreate ==
    /\ Applying
    /\ op.kind = "write"
    /\ ~Exists(disk, Note(op.to))
    /\ Recorded(DeletePath(op.to), "land")

(* Mutant of FreeTrash: the plain name, without looking. *)
BaseTrash(p) == {0}

(* unique_trash_path: the first numbered name nothing occupies. *)
FreeTrash(p) ==
    {n \in 0..MaxTrash : /\ ~Exists(disk, Trash(p, n))
                         /\ \A m \in 0..(n - 1) : Exists(disk, Trash(p, m))}

RecordDelete ==
    /\ Applying
    /\ op.kind = "delete"
    /\ Exists(disk, Note(op.path))
    /\ \E n \in FreeTrash(op.path) :
         Recorded(Restore(Trash(op.path, n), op.path), "land")

(* Moving into a free name, or into one whose original is already aside. *)
RecordMove ==
    /\ \/ Applying /\ op.kind = "move" /\ op.path # op.to
                   /\ ~Exists(disk, Note(op.to))
       \/ pc = "record"
    /\ Recorded(ReverseMove(op.path, op.to), "land")

(* Deleting what is not there, or moving a path onto itself: no undo step. *)
Refuse ==
    /\ Applying
    /\ \/ op.kind = "delete" /\ ~Exists(disk, Note(op.path))
       \/ op.kind = "move" /\ op.path = op.to
    /\ Fail
    /\ UNCHANGED <<storage, last, undo, recovery, promised>>

(* move_path of the displaced original into its backup slot. *)
SetAside ==
    /\ pc = "aside"
    /\ disk' = Rename(disk, Note(op.to), Backup(cur, k))
    /\ pc' = IF op.kind = "write" THEN "land" ELSE "record"
    /\ UNCHANGED <<journal, last, batch, undo, ok, recovery, result, promised>>

(* The mutation itself; the next operation follows. *)
Land ==
    /\ pc = "land"
    /\ \/ /\ op.kind = "write"
          /\ disk' = [disk EXCEPT ![Note(op.to)] = op.content]
       \/ /\ op.kind = "delete"
          /\ disk' = Rename(disk, Note(op.path), Last(undo).at)
       \/ /\ op.kind = "move"
          /\ Exists(disk, Note(op.path))
          /\ disk' = Rename(disk, Note(op.path), Note(op.to))
    /\ pc' = "apply"
    /\ k' = k + 1
    /\ UNCHANGED <<journal, last, cur, ops, undo, ok, recovery, result, promised>>

(* A rename or a note write fails; moving what is not there always does. *)
MutationFails ==
    /\ \/ May("apply") /\ pc \in {"aside", "land"}
       \/ pc = "land" /\ op.kind = "move" /\ ~Exists(disk, Note(op.path))
    /\ Fail
    /\ UNCHANGED <<storage, last, undo, recovery, promised>>

-----------------------------------------------------------------------------
(* The commit point: the durable flag is flipped. *)

Finished == pc = "apply" /\ k > Len(ops)

(* Mutant of Commit: the caller is answered, the flag is never flipped. *)
CommitUnflagged ==
    /\ Finished
    /\ pc' = "clean"
    /\ ops' = <<>> /\ k' = 0 /\ undo' = <<>>
    /\ result' = "ok"
    /\ promised' = Vault
    /\ UNCHANGED <<disk, journal, last, cur, ok, recovery>>

Commit ==
    /\ Finished
    /\ journal' = [journal EXCEPT ![cur].state = "committed"]
    /\ pc' = "clean"
    /\ ops' = <<>> /\ k' = 0 /\ undo' = <<>>
    /\ result' = "ok"
    /\ promised' = Vault
    /\ UNCHANGED <<disk, last, cur, ok, recovery>>

CommitFails ==
    /\ Finished
    /\ May("journal")
    /\ Fail
    /\ UNCHANGED <<storage, last, undo, recovery, promised>>

-----------------------------------------------------------------------------
(* rollback: the steps in reverse, going on after one that fails. *)

UndoOne ==
    /\ pc = "undo"
    /\ undo # <<>>
    /\ undo' = Front(undo)
    /\ \/ /\ disk' = Replay(Last(undo), disk)
          /\ UNCHANGED ok
       \/ /\ May("undo")
          /\ HasWork(disk, Last(undo))
          /\ ok' = FALSE
          /\ UNCHANGED disk
    /\ UNCHANGED <<journal, last, pc, batch, recovery, result, promised>>

(* Back to the caller of commit_batch, or to the next journal. *)
Leave == /\ pc' = IF recovering THEN "recover" ELSE "idle"
         /\ cur' = 0

(* Every step is replayed: clear up, or keep it all for a later attempt. *)
UndoneAll ==
    /\ pc = "undo"
    /\ undo = <<>>
    /\ IF ok THEN pc' = "clean" /\ UNCHANGED <<cur, healthy>>
             ELSE Leave /\ healthy' = (healthy /\ ~recovering)
    /\ ok' = TRUE
    /\ UNCHANGED <<storage, last, ops, k, undo, recovering, todo, result, promised>>

-----------------------------------------------------------------------------
(* cleanup: best effort, the backups one by one and then the journal. *)

Backups(b) == {l \in Loc : l[1] = "backup" /\ l[2] = b /\ Exists(disk, l)}

RemoveBackup ==
    /\ pc = "clean"
    /\ \E l \in Backups(cur) : disk' = [disk EXCEPT ![l] = None]
    /\ UNCHANGED <<journal, last, pc, batch, undo, ok, recovery, result, promised>>

(* Mutant of BackupsGone: the journal goes while backups are left. *)
BackupsIgnored ==
    /\ pc = "clean"
    /\ pc' = "unlink"
    /\ UNCHANGED <<storage, last, batch, undo, ok, recovery, result, promised>>

BackupsGone ==
    /\ pc = "clean"
    /\ Backups(cur) = {} \/ May("backup")
    /\ pc' = "unlink"
    /\ UNCHANGED <<storage, last, batch, undo, ok, recovery, result, promised>>

RemoveJournal ==
    /\ pc = "unlink"
    /\ \/ journal' = [journal EXCEPT ![cur] = NoJournal]
       \/ May("unlink") /\ UNCHANGED journal
    /\ Leave
    /\ UNCHANGED <<disk, last, ops, k, undo, ok, recovery, result, promised>>

-----------------------------------------------------------------------------
(* Opening the vault: recover_transactions, in the arbitrary order in      *)
(* which the directory lists the journals.                                 *)

Pending == {b \in BatchId : journal[b].state # "absent"}

Open ==
    /\ pc = "down"
    /\ pc' = "recover"
    /\ recovering' = TRUE /\ todo' = Pending /\ healthy' = TRUE
    /\ UNCHANGED <<storage, last, batch, undo, ok, result, promised>>

(* Mutant of RecoverOne: the journal stays on the list. *)
RecoverAgain(b) ==
    /\ pc = "recover"
    /\ b \in todo
    /\ cur' = b
    /\ IF journal[b].state = "committed"
       THEN pc' = "clean" /\ undo' = <<>>
       ELSE pc' = "undo" /\ undo' = journal[b].undo
    /\ ok' = TRUE
    /\ UNCHANGED <<storage, last, todo, ops, k, recovering, healthy, result, promised>>

RecoverOne(b) ==
    /\ pc = "recover"
    /\ b \in todo
    /\ todo' = todo \ {b}
    /\ cur' = b
    /\ IF journal[b].state = "committed"
       THEN pc' = "clean" /\ undo' = <<>>
       ELSE pc' = "undo" /\ undo' = journal[b].undo
    /\ ok' = TRUE
    /\ UNCHANGED <<storage, last, ops, k, recovering, healthy, result, promised>>

(* A journal that cannot be read is passed over without a word. *)
SkipUnreadable(b) ==
    /\ May("read")
    /\ pc = "recover"
    /\ b \in todo
    /\ todo' = todo \ {b}
    /\ UNCHANGED <<storage, last, pc, batch, undo, ok, recovering, healthy, result, promised>>

Opened ==
    /\ pc = "recover"
    /\ todo = {}
    /\ pc' = IF healthy THEN "idle" ELSE "down"
    /\ recovering' = FALSE /\ healthy' = TRUE
    /\ UNCHANGED <<storage, last, batch, undo, ok, todo, result, promised>>

(* A read-only open recovers nothing, so it refuses when a journal waits. *)
OpenReadOnly ==
    /\ pc = "down"
    /\ Pending = {}
    /\ pc' = "reading"
    /\ UNCHANGED <<storage, last, batch, undo, ok, recovery, result, promised>>

-----------------------------------------------------------------------------
(* Around the engine. *)

(* create_note, append and PUT: one atomic replace, no journal. *)
WriteNote ==
    /\ pc = "idle"
    /\ \E p \in Path, c \in Content :
         /\ disk' = [disk EXCEPT ![Note(p)] = c]
         /\ promised' = [promised EXCEPT ![p] = c]
    /\ UNCHANGED <<journal, last, pc, batch, undo, ok, recovery, result>>

(* The process ends, by a crash anywhere or by a stop when idle: the disk  *)
(* stays as it is, the memory is gone.                                     *)
Die ==
    /\ pc # "down"
    /\ pc' = "down"
    /\ cur' = 0 /\ ops' = <<>> /\ k' = 0 /\ undo' = <<>>
    /\ ok' = TRUE
    /\ recovering' = FALSE /\ todo' = {} /\ healthy' = TRUE
    /\ result' = "none"
    /\ UNCHANGED <<storage, last, promised>>

(* The steps the running process takes by itself. *)
Step ==
    \/ RecordBackup \/ RecordCreate \/ RecordDelete \/ RecordMove \/ Refuse
    \/ SetAside \/ Land \/ MutationFails
    \/ Commit \/ CommitFails
    \/ UndoOne \/ UndoneAll
    \/ RemoveBackup \/ BackupsGone \/ RemoveJournal
    \/ \E b \in BatchId : RecoverOne(b) \/ SkipUnreadable(b)
    \/ Opened

Next ==
    \/ Begin \/ BeginFails
    \/ Step
    \/ Open \/ OpenReadOnly
    \/ WriteNote
    \/ Die

Spec == Init /\ [][Next]_vars

(* A running process keeps executing: commit_batch and recovery have no    *)
(* wait in them once the flock is held. Nobody is bound to reopen.         *)
FairSpec == Spec /\ WF_vars(Step)

-----------------------------------------------------------------------------
(* What is left for recovery, and what recovery would make of it. *)

OpenJournals == {b \in BatchId : journal[b].state = "open"}

Recovered ==
    IF OpenJournals = {} THEN Vault
    ELSE LET left == CHOOSE b \in OpenJournals : TRUE
             d == FoldRight(Replay, journal[left].undo, disk)
         IN  [p \in Path |-> d[Note(p)]]

(* Wherever the process dies, replaying the one open journal brings back   *)
(* exactly the notes of the last commit point: `a batch is either fully    *)
(* committed or rolled back to no effect, never partial` (ADR-0007). The   *)
(* steps recorded and the tolerance of rollback have to agree at every     *)
(* point of apply_op, rollback and cleanup, a rollback cut short included. *)
CrashConsistent ==
    /\ \A b, c \in OpenJournals : b = c
    /\ Recovered = promised

(* An open vault, for writing or for reading, serves the notes of the last *)
(* commit point: a batch that answered an error left nothing behind, and   *)
(* `Vault::open` never presents a half-rolled-back vault as healthy.       *)
ServesPromised == pc \in {"idle", "reading"} => Vault = promised

(* Write-ahead: a body sits in a backup slot of a batch that is still open *)
(* only if the journal ON DISK already names the slot, so a crash can      *)
(* never strand an original. apply_op journals first, then renames.        *)
WriteAhead ==
    \A b \in OpenJournals, i \in 1..MaxOps :
        Exists(disk, Backup(b, i)) =>
            \E j \in DOMAIN journal[b].undo :
                /\ journal[b].undo[j].kind = "restore"
                /\ journal[b].undo[j].at = Backup(b, i)

(* Where the engine stands between two of its steps, which is what makes   *)
(* WriteAhead and NoClobber hold:                                          *)
(*  - nothing on disk belongs to an id that was not drawn yet;             *)
(*  - while operations are applied, the journal on disk is the one in      *)
(*    memory and the backup slots still to be used are free;               *)
(*  - a rename is about to happen only with its undo step recorded last    *)
(*    and its target free.                                                 *)
UndrawnFresh ==
    \A b \in BatchId : b > last =>
        /\ journal[b] = NoJournal
        /\ \A i \in 1..MaxOps : ~Exists(disk, Backup(b, i))

InBatch ==
    Forward =>
        /\ ops \in Batches
        /\ cur = last /\ cur \in BatchId
        /\ k \in 1..(Len(ops) + 1)
        /\ pc # "apply" => k <= Len(ops)
        /\ journal[cur] = [state |-> "open", undo |-> undo]
        /\ \A i \in 1..MaxOps :
             i > k \/ (i = k /\ pc \in {"apply", "aside"}) => ~Exists(disk, Backup(cur, i))

ReadyToSetAside ==
    pc = "aside" =>
        /\ op.kind \in {"write", "move"}
        /\ op.kind = "move" => op.path # op.to
        /\ undo # <<>> /\ Last(undo) = Restore(Backup(cur, k), op.to)

ReadyToLand ==
    /\ pc = "record" => op.kind = "move"
    /\ pc \in {"record", "land"} =>
         /\ op.kind \in {"write", "move"} => ~Exists(disk, Note(op.to))
         /\ op.kind = "move" => op.path # op.to
    /\ pc = "land" /\ op.kind = "delete" =>
         /\ undo # <<>>
         /\ \E n \in 0..MaxTrash :
              /\ Last(undo) = Restore(Trash(op.path, n), op.path)
              /\ ~Exists(disk, Trash(op.path, n))

EngineInv == UndrawnFresh /\ InBatch /\ ReadyToSetAside /\ ReadyToLand /\ WriteAhead

(* Whatever commit_batch displaces goes to a free place: before the commit *)
(* point no rename and no write lands on top of a body, be it a note, an   *)
(* earlier backup or an earlier trash entry of the same name.              *)
NoClobber ==
    [][ Forward =>
        \A l \in Loc :
            Exists(disk, l) /\ disk'[l] # disk[l] =>
                /\ ~Exists(disk', l)
                /\ \E m \in Loc : ~Exists(disk, m) /\ disk'[m] = disk[l] ]_vars

(* Between batches the engine leaves nothing in .md-mcp/ but the trash:    *)
(* no journal that a later recovery would replay, no orphaned backup.      *)
NothingLeft ==
    pc \in {"idle", "reading"} =>
        Pending = {} /\ \A b \in BatchId : Backups(b) = {}

(* A process that stays up gets back to an open vault, again and again:    *)
(* commit_batch, rollback, cleanup and recovery all come to an end.        *)
AlwaysReturns ==
    <>[](pc # "down") => []<>(pc \in {"idle", "reading"})

(* The engine does what AtomicBatch promises: one indivisible effect per   *)
(* batch, at the journal flip, with the answer that belongs to it.         *)
Promise == INSTANCE AtomicBatch WITH
    vault <- Recovered, request <- ops, outcome <- result

Refines == Promise!Spec
=================================================================================
