--------------------------- MODULE TransactionProofs ----------------------------
(***************************************************************************)
(* Theorems about the transaction engine, for every vault, every batch of  *)
(* operations, any number of batches and crashes, and any call failing.    *)
(***************************************************************************)
EXTENDS Transaction, ToolBatches, FiniteSetTheorems, TLAPS

-----------------------------------------------------------------------------
(* Locations: the three kinds are disjoint and each naming is one-to-one.  *)

LEMMA NoteInLoc == \A p \in Path : Note(p) \in Notes /\ Note(p) \in Loc
BY DEF Notes, Loc

LEMMA NotesInLoc == \A l \in Notes : l \in Loc /\ l[1] = "note" /\ \E p \in Path : l = Note(p)
BY DEF Notes, Loc, Note

LEMMA BackupInLoc == \A b \in BatchId, i \in 1..MaxOps : Backup(b, i) \in Loc
BY DEF Loc

LEMMA TrashInLoc == \A p \in Path, n \in 0..MaxTrash : Trash(p, n) \in Loc
BY DEF Loc

LEMMA NamesDiffer ==
    ASSUME NEW p, NEW q, NEW b, NEW c, NEW i, NEW j
    PROVE  /\ Note(p) # Backup(b, i)
           /\ Note(p) # Trash(q, j)
           /\ Backup(b, i) # Trash(q, j)
           /\ Backup(b, i) = Backup(c, j) <=> b = c /\ i = j
           /\ Note(p) = Note(q) <=> p = q
BY DEF Note, Backup, Trash

LEMMA StepTypes ==
    /\ \A p \in Path : DeletePath(p) \in UndoStep
    /\ \A l \in Loc, p \in Path : Restore(l, p) \in UndoStep
    /\ \A p, q \in Path : ReverseMove(p, q) \in UndoStep
BY NoteInLoc DEF UndoStep, DeletePath, Restore, ReverseMove

LEMMA OpFields ==
    \A o \in Op : o.path \in Path /\ o.to \in Path /\ o.content \in Cell
                  /\ o.kind \in {"write", "delete", "move"}
BY DEF Op, Write, Delete, Move, Cell

LEMMA BatchFields ==
    \A s \in Batches : s \in Seq(Op) /\ Len(s) \in 1..MaxOps /\ s # <<>>
BY BatchesAssumption, BoundsAssumption

LEMMA RenameType ==
    ASSUME NEW d \in [Loc -> Cell], NEW from \in Loc, NEW to \in Loc
    PROVE  Rename(d, from, to) \in [Loc -> Cell]
BY DEF Rename, Cell

LEMMA ReplayType ==
    ASSUME NEW d \in [Loc -> Cell], NEW s \in UndoStep
    PROVE  Replay(s, d) \in [Loc -> Cell]
<1>1. s.at \in Loc /\ s.home \in Loc
  BY NotesInLoc DEF UndoStep
<1>2. QED
  BY <1>1, RenameType DEF Replay, Cell

LEMMA EmptyJournals ==
    /\ NoJournal \in JournalFile
    /\ [state |-> "open", undo |-> <<>>] \in JournalFile
<1>1. <<>> \in Seq(UndoStep)
  OBVIOUS
<1>2. QED
  BY <1>1 DEF NoJournal, JournalFile

(* Popping the last undo step. *)
LEMMA FrontLast ==
    ASSUME NEW S, NEW s \in Seq(S), s # <<>>
    PROVE  Front(s) \in Seq(S) /\ Last(s) \in S
BY DEF Front, Last

-----------------------------------------------------------------------------
(* Type correctness: the engine never names a place outside its own slots, *)
(* never a journal step it could not replay, and never works on a batch    *)
(* nobody submitted.                                                       *)

LEMMA InitType == Init => TypeOK
<1> SUFFICES ASSUME Init PROVE TypeOK
  OBVIOUS
<1>1. PICK v \in Vaults :
        /\ disk = [l \in Loc |-> IF l[1] = "note" THEN v[l[2]] ELSE None]
        /\ promised = v
  BY DEF Init
<1>2. v \in [Path -> Cell]
  BY VaultsAssumption
<1>3. \A l \in Loc : l[1] = "note" => l[2] \in Path
  BY DEF Loc, Notes, Note, Backup, Trash
<1>4. disk \in [Loc -> Cell]
  BY <1>1, <1>2, <1>3 DEF Cell
<1>5. journal \in [BatchId -> JournalFile]
  BY DEF Init, NoJournal, JournalFile
<1>6. undo \in Seq(UndoStep)
  BY DEF Init
<1>7. last \in 0..MaxBatches /\ cur \in 0..MaxBatches /\ k \in 0..(MaxOps + 1)
  BY BoundsAssumption DEF Init
<1>8. ok \in BOOLEAN /\ recovering \in BOOLEAN /\ healthy \in BOOLEAN
  BY DEF Init
<1>9. pc \in PC /\ ops \in Batches \cup {<<>>} /\ todo \subseteq BatchId
      /\ result \in {"none", "ok", "err"}
  BY DEF Init, PC
<1>10. QED
  BY <1>1, <1>2, <1>4, <1>5, <1>6, <1>7, <1>8, <1>9 DEF TypeOK

(* Giving up on a batch. *)
LEMMA FailType ==
    ASSUME TypeOK, Fail, UNCHANGED <<storage, last, undo, recovery, promised>>
    PROVE  TypeOK'
<1>1. UNCHANGED <<disk, journal, last, undo, recovering, todo, healthy, promised, cur>>
  BY DEF Fail, storage, recovery
<1>2. QED
  BY <1>1, BoundsAssumption DEF Fail, TypeOK, PC

(* The operation being applied, when there is one. *)
LEMMA OpType ==
    ASSUME TypeOK, ops # <<>>, k \in 1..Len(ops)
    PROVE  op \in Op
BY BatchFields DEF TypeOK, op

LEMMA RecordedType ==
    ASSUME TypeOK, NEW s \in UndoStep, NEW next \in PC, Recorded(s, next)
    PROVE  TypeOK'
<1>1. Append(undo, s) \in Seq(UndoStep)
  BY DEF TypeOK
<1>2. [journal EXCEPT ![cur].undo = Append(undo, s)] \in [BatchId -> JournalFile]
  BY <1>1 DEF TypeOK, JournalFile
<1>3. UNCHANGED <<disk, last, cur, recovering, todo, healthy, promised>>
  BY DEF Recorded, Fail, batch, recovery
<1>4. undo' = Append(undo, s)
  BY DEF Recorded
<1>5. CASE journal' = [journal EXCEPT ![cur].undo = Append(undo, s)]
            /\ pc' = next /\ UNCHANGED <<batch, ok, result>>
  BY <1>1, <1>2, <1>3, <1>4, <1>5 DEF TypeOK, batch
<1>6. CASE Fail /\ UNCHANGED journal
  BY <1>1, <1>3, <1>4, <1>6, BoundsAssumption DEF Fail, TypeOK, PC
<1>7. QED
  BY <1>5, <1>6 DEF Recorded

(* The place a freed trash name stands for. *)
LEMMA FreeTrashType ==
    ASSUME NEW p \in Path, NEW n \in FreeTrash(p)
    PROVE  n \in 0..MaxTrash /\ Trash(p, n) \in Loc /\ ~Exists(disk, Trash(p, n))
BY TrashInLoc DEF FreeTrash

(* An operation under way: the guards of apply_op only fire inside a batch. *)
LEMMA StepType == TypeOK /\ EngineInv /\ [Next]_vars => TypeOK'
<1> SUFFICES ASSUME TypeOK, EngineInv, [Next]_vars
             PROVE  TypeOK'
  OBVIOUS
<1> USE BoundsAssumption
<1>0. ASSUME pc \in {"aside", "record", "land"} \/ Applying
      PROVE  op \in Op /\ k \in 1..MaxOps /\ cur \in BatchId /\ ops # <<>>
             /\ k \in 1..Len(ops)
  <2>1. Forward
    BY <1>0 DEF Applying, Forward
  <2>2. ops \in Batches /\ cur \in BatchId /\ k \in 1..(Len(ops) + 1)
    BY <2>1 DEF EngineInv, InBatch
  <2>3. k <= Len(ops)
    BY <1>0, <2>1 DEF EngineInv, InBatch, Applying
  <2>4. ops \in Seq(Op) /\ Len(ops) \in 1..MaxOps /\ ops # <<>>
    BY <2>2, BatchFields
  <2>5. k \in 1..Len(ops) /\ k \in 1..MaxOps
    BY <2>2, <2>3, <2>4
  <2>6. QED
    BY <2>2, <2>4, <2>5 DEF op
<1>1. CASE Begin
  <2>1. ops' \in Batches
    BY <1>1 DEF Begin
  <2>2. last' \in 0..MaxBatches /\ cur' \in 0..MaxBatches
    BY <1>1 DEF Begin, TypeOK
  <2>3. journal' \in [BatchId -> JournalFile]
    BY <1>1, EmptyJournals DEF Begin, TypeOK
  <2>4. undo' \in Seq(UndoStep) /\ k' \in 0..(MaxOps + 1)
    BY <1>1 DEF Begin
  <2>5. QED
    BY <1>1, <2>1, <2>2, <2>3, <2>4 DEF Begin, TypeOK, PC, recovery
<1>2. CASE BeginFails
  BY <1>2 DEF BeginFails, TypeOK, storage, batch, recovery
<1>3. CASE RecordBackup
  <2>1. Restore(Backup(cur, k), op.to) \in UndoStep
    BY <1>0, <1>3, BackupInLoc, StepTypes, OpFields DEF RecordBackup
  <2>2. QED
    BY <1>3, <2>1, RecordedType DEF RecordBackup, PC
<1>4. CASE RecordCreate
  <2>1. DeletePath(op.to) \in UndoStep
    BY <1>0, <1>4, StepTypes, OpFields DEF RecordCreate
  <2>2. QED
    BY <1>4, <2>1, RecordedType DEF RecordCreate, PC
<1>5. CASE RecordDelete
  <2>1. PICK n \in FreeTrash(op.path) :
          Recorded(Restore(Trash(op.path, n), op.path), "land")
    BY <1>5 DEF RecordDelete
  <2>2. Restore(Trash(op.path, n), op.path) \in UndoStep
    BY <1>0, <1>5, <2>1, FreeTrashType, StepTypes, OpFields DEF RecordDelete
  <2>3. QED
    BY <2>1, <2>2, RecordedType DEF PC
<1>6. CASE RecordMove
  <2>1. ReverseMove(op.path, op.to) \in UndoStep
    BY <1>0, <1>6, StepTypes, OpFields DEF RecordMove
  <2>2. QED
    BY <1>6, <2>1, RecordedType DEF RecordMove, PC
<1>7. CASE Refuse \/ MutationFails \/ CommitFails
  BY <1>7, FailType DEF Refuse, MutationFails, CommitFails
<1>8. CASE SetAside
  <2>1. disk' \in [Loc -> Cell]
    BY <1>0, <1>8, NoteInLoc, BackupInLoc, RenameType, OpFields DEF SetAside, TypeOK
  <2>2. QED
    BY <1>8, <2>1 DEF SetAside, TypeOK, PC, batch, recovery
<1>9. CASE Land
  <2>1. op \in Op /\ k \in 1..MaxOps
    BY <1>0, <1>9 DEF Land
  <2>2. op.kind = "delete" => Last(undo).at \in Loc
    <3> SUFFICES ASSUME op.kind = "delete" PROVE Last(undo).at \in Loc
      OBVIOUS
    <3>1. undo # <<>>
      BY <1>9 DEF Land, EngineInv, ReadyToLand
    <3>2. Last(undo) \in UndoStep
      BY <3>1, FrontLast DEF TypeOK
    <3>3. QED
      BY <3>2 DEF UndoStep
  <2>3. disk' \in [Loc -> Cell]
    <3>1. Note(op.path) \in Loc /\ Note(op.to) \in Loc /\ op.content \in Cell
      BY <2>1, NoteInLoc, OpFields
    <3>2. CASE op.kind = "write" /\ disk' = [disk EXCEPT ![Note(op.to)] = op.content]
      BY <3>1, <3>2 DEF TypeOK
    <3>3. CASE op.kind = "delete" /\ disk' = Rename(disk, Note(op.path), Last(undo).at)
      BY <2>2, <3>1, <3>3, RenameType DEF TypeOK
    <3>4. CASE op.kind = "move" /\ disk' = Rename(disk, Note(op.path), Note(op.to))
      BY <3>1, <3>4, RenameType DEF TypeOK
    <3>5. QED
      BY <1>9, <3>2, <3>3, <3>4 DEF Land
  <2>4. k' \in 0..(MaxOps + 1)
    BY <1>9, <2>1 DEF Land
  <2>5. QED
    BY <1>9, <2>3, <2>4 DEF Land, TypeOK, PC, recovery
<1>10. CASE Commit
  <2>1. journal' \in [BatchId -> JournalFile]
    BY <1>10 DEF Commit, TypeOK, JournalFile
  <2>2. Vault \in [Path -> Cell]
    BY NoteInLoc DEF Vault, TypeOK
  <2>3. undo' \in Seq(UndoStep) /\ k' \in 0..(MaxOps + 1)
    BY <1>10 DEF Commit
  <2>4. QED
    BY <1>10, <2>1, <2>2, <2>3 DEF Commit, TypeOK, PC, recovery
<1>11. CASE UndoOne
  <2>1. undo' \in Seq(UndoStep)
    BY <1>11, FrontLast DEF UndoOne, TypeOK
  <2>2. disk' \in [Loc -> Cell]
    BY <1>11, FrontLast, ReplayType DEF UndoOne, TypeOK
  <2>3. ok' \in BOOLEAN
    BY <1>11 DEF UndoOne, TypeOK
  <2>4. QED
    BY <1>11, <2>1, <2>2, <2>3 DEF UndoOne, TypeOK, batch, recovery
<1>12. CASE UndoneAll
  <2>1. healthy' \in BOOLEAN /\ ok' \in BOOLEAN
    BY <1>12 DEF UndoneAll, TypeOK
  <2>2. pc' \in PC /\ cur' \in 0..MaxBatches
    BY <1>12 DEF UndoneAll, Leave, TypeOK, PC
  <2>3. QED
    BY <1>12, <2>1, <2>2 DEF UndoneAll, TypeOK, storage
<1>13. CASE RemoveBackup
  <2>1. disk' \in [Loc -> Cell]
    BY <1>13 DEF RemoveBackup, Backups, TypeOK, Cell
  <2>2. QED
    BY <1>13, <2>1 DEF RemoveBackup, TypeOK, batch, recovery
<1>14. CASE BackupsGone
  BY <1>14 DEF BackupsGone, TypeOK, PC, storage, batch, recovery
<1>15. CASE RemoveJournal
  <2>1. journal' \in [BatchId -> JournalFile]
    BY <1>15, EmptyJournals DEF RemoveJournal, TypeOK
  <2>2. QED
    BY <1>15, <2>1 DEF RemoveJournal, Leave, TypeOK, PC, recovery
<1>16. ASSUME NEW b \in BatchId, RecoverOne(b)
       PROVE  TypeOK'
  <2>1. undo' \in Seq(UndoStep)
    <3>1. journal[b] \in JournalFile
      BY DEF TypeOK
    <3>2. journal[b].undo \in Seq(UndoStep) /\ <<>> \in Seq(UndoStep)
      BY <3>1 DEF JournalFile
    <3>3. QED
      BY <1>16, <3>2 DEF RecoverOne
  <2>2. pc' \in PC /\ cur' \in 0..MaxBatches /\ todo' \subseteq BatchId
    BY <1>16 DEF RecoverOne, TypeOK, PC, BatchId
  <2>3. QED
    BY <1>16, <2>1, <2>2 DEF RecoverOne, TypeOK, storage
<1>17. ASSUME NEW b \in BatchId, SkipUnreadable(b)
       PROVE  TypeOK'
  BY <1>17 DEF SkipUnreadable, TypeOK, storage, batch
<1>18. CASE Opened
  BY <1>18 DEF Opened, TypeOK, PC, storage, batch
<1>19. CASE Open
  BY <1>19 DEF Open, Pending, TypeOK, PC, storage, batch
<1>20. CASE OpenReadOnly
  BY <1>20 DEF OpenReadOnly, TypeOK, PC, storage, batch, recovery
<1>21. CASE WriteNote
  <2>1. PICK p \in Path, c \in Content :
          /\ disk' = [disk EXCEPT ![Note(p)] = c]
          /\ promised' = [promised EXCEPT ![p] = c]
    BY <1>21 DEF WriteNote
  <2>2. disk' \in [Loc -> Cell] /\ promised' \in [Path -> Cell]
    BY <2>1 DEF TypeOK, Cell
  <2>3. QED
    BY <1>21, <2>2 DEF WriteNote, TypeOK, batch, recovery
<1>22. CASE Die
  <2>1. undo' \in Seq(UndoStep) /\ cur' \in 0..MaxBatches /\ k' \in 0..(MaxOps + 1)
    BY <1>22 DEF Die
  <2>2. ok' \in BOOLEAN /\ recovering' \in BOOLEAN /\ healthy' \in BOOLEAN
        /\ todo' \subseteq BatchId
    BY <1>22 DEF Die
  <2>3. QED
    BY <1>22, <2>1, <2>2 DEF Die, TypeOK, PC, storage
<1>23. CASE UNCHANGED vars
  BY <1>23 DEF vars, TypeOK, storage, batch, recovery
<1>24. QED
  BY <1>1, <1>2, <1>3, <1>4, <1>5, <1>6, <1>7, <1>8, <1>9, <1>10, <1>11, <1>12,
     <1>13, <1>14, <1>15, <1>16, <1>17, <1>18, <1>19, <1>20, <1>21, <1>22, <1>23
  DEF Next, Step

-----------------------------------------------------------------------------
(* The engine invariant. *)

LEMMA AppendLast ==
    ASSUME NEW S, NEW s \in Seq(S), NEW e \in S
    PROVE  /\ Last(Append(s, e)) = e
           /\ Append(s, e) # <<>>
           /\ Len(s) + 1 \in DOMAIN Append(s, e)
           /\ \A j \in DOMAIN s : j \in DOMAIN Append(s, e) /\ Append(s, e)[j] = s[j]
BY DEF Last

LEMMA InitInv == Init => EngineInv
<1> SUFFICES ASSUME Init PROVE EngineInv
  OBVIOUS
<1>1. \A b \in BatchId, i \in 1..MaxOps : ~Exists(disk, Backup(b, i))
  <2>1. PICK v \in Vaults : disk = [l \in Loc |-> IF l[1] = "note" THEN v[l[2]] ELSE None]
    BY DEF Init
  <2>2. QED
    BY <2>1, BackupInLoc DEF Backup, Exists
<1>2. UndrawnFresh /\ WriteAhead
  BY <1>1 DEF Init, UndrawnFresh, WriteAhead, OpenJournals, NoJournal
<1>3. InBatch /\ ReadyToSetAside /\ ReadyToLand
  BY DEF Init, InBatch, ReadyToSetAside, ReadyToLand, Forward
<1>4. QED
  BY <1>2, <1>3 DEF EngineInv

(* Outside a batch only what is on disk matters: no journal is opened or   *)
(* rewritten and no backup slot gets filled.                               *)
LEMMA LeavingInv ==
    ASSUME TypeOK, EngineInv, ~Forward',
           last' \in {last, last + 1},
           \A b \in BatchId :
               \/ journal'[b] = journal[b]
               \/ journal'[b].state # "open" /\ (b > last => journal'[b] = NoJournal),
           \A b \in BatchId, i \in 1..MaxOps :
               Exists(disk', Backup(b, i)) => Exists(disk, Backup(b, i))
    PROVE  EngineInv'
<1>1. \A b \in BatchId : b > last' => b > last
  BY BoundsAssumption DEF TypeOK, BatchId
<1>2. UndrawnFresh'
  BY <1>1 DEF EngineInv, UndrawnFresh, NoJournal
<1>3. \A b \in OpenJournals' : b \in OpenJournals /\ journal'[b] = journal[b]
  BY DEF OpenJournals
<1>4. WriteAhead'
  BY <1>3 DEF EngineInv, WriteAhead, OpenJournals
<1>5. InBatch' /\ ReadyToSetAside' /\ ReadyToLand'
  BY DEF InBatch, ReadyToSetAside, ReadyToLand, Forward
<1>6. QED
  BY <1>2, <1>4, <1>5 DEF EngineInv

(* Storage as it was. *)
LEMMA QuietInv ==
    ASSUME TypeOK, EngineInv, ~Forward', last' \in {last, last + 1}, UNCHANGED storage
    PROVE  EngineInv'
<1>1. journal' = journal /\ disk' = disk
  BY DEF storage
<1>2. QED
  BY <1>1, LeavingInv DEF Exists

(* Recording an undo step keeps the disk journal equal to the one in       *)
(* memory, or abandons the batch.                                          *)
LEMMA RecordedInv ==
    ASSUME TypeOK, EngineInv, Applying \/ pc = "record",
           NEW s \in UndoStep, NEW next \in {"aside", "land"}, Recorded(s, next),
           next = "aside" => Applying,
           next = "aside" => /\ op.kind \in {"write", "move"}
                             /\ op.kind = "move" => op.path # op.to
                             /\ s = Restore(Backup(cur, k), op.to),
           next = "land" => /\ op.kind \in {"write", "move"} => ~Exists(disk, Note(op.to))
                            /\ op.kind = "move" => op.path # op.to
                            /\ op.kind = "delete" =>
                                 \E n \in 0..MaxTrash :
                                    /\ s = Restore(Trash(op.path, n), op.path)
                                    /\ ~Exists(disk, Trash(op.path, n))
    PROVE  EngineInv'
<1>0. Forward /\ k <= Len(ops)
  BY DEF Forward, Applying, EngineInv, InBatch
<1>1. CASE Fail /\ UNCHANGED journal
  <2>1. UNCHANGED storage /\ last' = last
    BY <1>1 DEF Recorded, storage
  <2>2. QED
    BY <1>1, <2>1, QuietInv DEF Fail, Forward
<1>2. CASE journal' = [journal EXCEPT ![cur].undo = Append(undo, s)]
            /\ pc' = next /\ UNCHANGED <<batch, ok, result>>
  <2>1. /\ UNCHANGED <<disk, last, cur, ops, k>>
        /\ undo' = Append(undo, s)
    BY <1>2 DEF Recorded, batch
  <2>2. op' = op
    BY <2>1 DEF op
  <2>3. /\ ops \in Batches /\ cur = last /\ cur \in BatchId /\ k \in 1..(Len(ops) + 1)
        /\ journal[cur] = [state |-> "open", undo |-> undo]
    BY <1>0 DEF EngineInv, InBatch
  <2>4. /\ journal'[cur] = [state |-> "open", undo |-> undo']
        /\ \A b \in BatchId : b # cur => journal'[b] = journal[b]
    <3>1. journal'[cur] = [journal[cur] EXCEPT !.undo = Append(undo, s)]
      BY <1>2, <2>3 DEF TypeOK
    <3>2. \A b \in BatchId : b # cur => journal'[b] = journal[b]
      BY <1>2 DEF TypeOK
    <3>3. QED
      BY <2>1, <2>3, <3>1, <3>2
  <2>5. UndrawnFresh'
    <3>1. \A b \in BatchId : b > last => b # cur
      BY <2>3 DEF BatchId
    <3>2. QED
      BY <2>1, <2>4, <3>1 DEF EngineInv, UndrawnFresh
  <2>6. \A i \in 1..MaxOps :
          i > k \/ (i = k /\ pc' \in {"apply", "aside"}) => ~Exists(disk, Backup(cur, i))
    BY <1>0, <1>2 DEF EngineInv, InBatch, Applying
  <2>7. InBatch'
    BY <1>0, <1>2, <2>1, <2>3, <2>4, <2>6 DEF InBatch
  <2>8. Last(undo') = s /\ undo' # <<>>
    BY <2>1, AppendLast DEF TypeOK
  <2>9. ReadyToSetAside'
    BY <1>2, <2>1, <2>2, <2>8 DEF ReadyToSetAside
  <2>10. ReadyToLand'
    BY <1>2, <2>1, <2>2, <2>8 DEF ReadyToLand
  <2>11. WriteAhead'
    <3> SUFFICES ASSUME NEW b \in OpenJournals', NEW i \in 1..MaxOps,
                        Exists(disk, Backup(b, i))
                 PROVE  \E j \in DOMAIN journal'[b].undo :
                          /\ journal'[b].undo[j].kind = "restore"
                          /\ journal'[b].undo[j].at = Backup(b, i)
      BY <2>1 DEF WriteAhead
    <3>1. b \in OpenJournals
      BY <2>3, <2>4 DEF OpenJournals
    <3>2. PICK j \in DOMAIN journal[b].undo :
            /\ journal[b].undo[j].kind = "restore"
            /\ journal[b].undo[j].at = Backup(b, i)
      BY <3>1 DEF EngineInv, WriteAhead
    <3>3. CASE b # cur
      BY <2>4, <3>1, <3>2, <3>3 DEF OpenJournals
    <3>4. CASE b = cur
      <4>1. j \in DOMAIN undo /\ undo[j] = journal[b].undo[j]
        BY <2>3, <3>2, <3>4
      <4>2. j \in DOMAIN undo' /\ undo'[j] = undo[j]
        BY <2>1, <4>1, AppendLast DEF TypeOK
      <4>3. QED
        BY <2>4, <3>2, <3>4, <4>1, <4>2
    <3>5. QED
      BY <3>3, <3>4
  <2>12. QED
    BY <2>5, <2>7, <2>9, <2>10, <2>11 DEF EngineInv
<1>3. QED
  BY <1>1, <1>2 DEF Recorded

(* What a rename or an undo step does to the backup slots. *)
LEMMA RenameBackups ==
    ASSUME TypeOK, NEW from \in Loc, NEW to \in Loc,
           NEW b \in BatchId, NEW i \in 1..MaxOps, to # Backup(b, i),
           Exists(Rename(disk, from, to), Backup(b, i))
    PROVE  Exists(disk, Backup(b, i))
BY BackupInLoc DEF TypeOK, Rename, Exists

LEMMA ReplayBackups ==
    ASSUME TypeOK, NEW s \in UndoStep, NEW b \in BatchId, NEW i \in 1..MaxOps,
           Exists(Replay(s, disk), Backup(b, i))
    PROVE  Exists(disk, Backup(b, i))
<1>1. s.at \in Loc /\ s.home \in Loc /\ s.home # Backup(b, i)
  BY NotesInLoc, NamesDiffer DEF UndoStep
<1>2. QED
  BY <1>1, RenameBackups, BackupInLoc DEF Replay, Exists, TypeOK

LEMMA BeginInv == TypeOK /\ EngineInv /\ Begin => EngineInv'
<1> SUFFICES ASSUME TypeOK, EngineInv, Begin PROVE EngineInv'
  OBVIOUS
<1>1. /\ ops' \in Batches /\ k' = 1 /\ undo' = <<>> /\ pc' = "apply" /\ disk' = disk
      /\ cur' = last + 1 /\ last' = last + 1
      /\ journal' = [journal EXCEPT ![last + 1] = [state |-> "open", undo |-> <<>>]]
  BY DEF Begin
<1>2. last \in Nat /\ last + 1 \in BatchId /\ \A b \in BatchId : b > last + 1 => b > last /\ b # last + 1
  BY BoundsAssumption DEF Begin, TypeOK, BatchId
<1>3. /\ journal'[last + 1] = [state |-> "open", undo |-> <<>>]
      /\ \A b \in BatchId : b # last + 1 => journal'[b] = journal[b]
  BY <1>1, <1>2 DEF TypeOK
<1>4. \A i \in 1..MaxOps : ~Exists(disk, Backup(last + 1, i))
  BY <1>2 DEF EngineInv, UndrawnFresh
<1>5. UndrawnFresh'
  BY <1>1, <1>2, <1>3 DEF EngineInv, UndrawnFresh
<1>6. InBatch'
  <2>1. Len(ops') \in Nat /\ k' \in 1..(Len(ops') + 1)
    BY <1>1, BatchFields
  <2>2. QED
    BY <1>1, <1>2, <1>3, <1>4, <2>1 DEF InBatch
<1>7. ReadyToSetAside' /\ ReadyToLand'
  BY <1>1 DEF ReadyToSetAside, ReadyToLand
<1>8. WriteAhead'
  <2> SUFFICES ASSUME NEW b \in OpenJournals', NEW i \in 1..MaxOps,
                      Exists(disk, Backup(b, i))
               PROVE  \E j \in DOMAIN journal'[b].undo :
                        /\ journal'[b].undo[j].kind = "restore"
                        /\ journal'[b].undo[j].at = Backup(b, i)
    BY <1>1 DEF WriteAhead
  <2>1. b # last + 1
    BY <1>4
  <2>2. b \in OpenJournals /\ journal'[b] = journal[b]
    BY <1>3, <2>1 DEF OpenJournals
  <2>3. QED
    BY <2>2 DEF EngineInv, WriteAhead
<1>9. QED
  BY <1>5, <1>6, <1>7, <1>8 DEF EngineInv

LEMMA SetAsideInv == TypeOK /\ EngineInv /\ SetAside => EngineInv'
<1> SUFFICES ASSUME TypeOK, EngineInv, SetAside PROVE EngineInv'
  OBVIOUS
<1>1. /\ pc = "aside" /\ disk' = Rename(disk, Note(op.to), Backup(cur, k))
      /\ UNCHANGED <<journal, last, cur, ops, k, undo>>
      /\ pc' = IF op.kind = "write" THEN "land" ELSE "record"
  BY DEF SetAside, batch
<1>2. /\ Forward /\ ops \in Batches /\ cur = last /\ cur \in BatchId /\ k \in 1..Len(ops)
      /\ journal[cur] = [state |-> "open", undo |-> undo]
      /\ \A i \in 1..MaxOps : i > k \/ i = k => ~Exists(disk, Backup(cur, i))
  BY <1>1, BatchFields DEF Forward, EngineInv, InBatch
<1>3. /\ op.kind \in {"write", "move"} /\ (op.kind = "move" => op.path # op.to)
      /\ undo # <<>> /\ Last(undo) = Restore(Backup(cur, k), op.to)
  BY <1>1 DEF EngineInv, ReadyToSetAside
<1>4. op \in Op /\ k \in 1..MaxOps /\ op' = op /\ op.to \in Path
  <2>1. ops \in Seq(Op) /\ Len(ops) \in 1..MaxOps
    BY <1>2, BatchFields
  <2>2. op \in Op
    BY <1>2, <2>1 DEF op
  <2>3. QED
    BY <1>1, <1>2, <2>1, <2>2, OpFields, BoundsAssumption DEF op
<1>5. Note(op.to) \in Loc /\ Backup(cur, k) \in Loc
  BY <1>2, <1>4, NoteInLoc, BackupInLoc
<1>6. \A b \in BatchId, i \in 1..MaxOps :
        Exists(disk', Backup(b, i)) => Exists(disk, Backup(b, i)) \/ (b = cur /\ i = k)
  <2> SUFFICES ASSUME NEW b \in BatchId, NEW i \in 1..MaxOps,
                      Exists(disk', Backup(b, i)), ~(b = cur /\ i = k)
               PROVE  Exists(disk, Backup(b, i))
    OBVIOUS
  <2>1. Backup(cur, k) # Backup(b, i)
    BY NamesDiffer
  <2>2. QED
    BY <1>1, <1>5, <2>1, RenameBackups
<1>7. ~Exists(disk', Note(op.to))
  BY <1>1, <1>5, NamesDiffer DEF Rename, Exists, TypeOK
<1>8. UndrawnFresh'
  <2>1. \A b \in BatchId : b > last => b # cur
    BY <1>2 DEF BatchId
  <2>2. QED
    BY <1>1, <1>6, <2>1 DEF EngineInv, UndrawnFresh
<1>9. InBatch'
  <2>1. \A i \in 1..MaxOps : i > k => ~Exists(disk', Backup(cur, i))
    BY <1>2, <1>4, <1>6
  <2>2. QED
    BY <1>1, <1>2, <2>1, BatchFields DEF InBatch
<1>10. ReadyToSetAside' /\ ReadyToLand'
  BY <1>1, <1>3, <1>4, <1>7 DEF ReadyToSetAside, ReadyToLand
<1>11. WriteAhead'
  <2> SUFFICES ASSUME NEW b \in OpenJournals, NEW i \in 1..MaxOps, Exists(disk', Backup(b, i))
               PROVE  \E j \in DOMAIN journal[b].undo :
                        /\ journal[b].undo[j].kind = "restore"
                        /\ journal[b].undo[j].at = Backup(b, i)
    BY <1>1 DEF WriteAhead, OpenJournals
  <2>1. CASE Exists(disk, Backup(b, i))
    BY <2>1 DEF EngineInv, WriteAhead
  <2>2. CASE b = cur /\ i = k
    <3>1. Len(undo) \in DOMAIN undo /\ undo[Len(undo)] = Restore(Backup(cur, k), op.to)
      BY <1>3 DEF Last, TypeOK
    <3>2. QED
      BY <1>2, <2>2, <3>1 DEF Restore
  <2>3. b \in BatchId
    BY DEF OpenJournals
  <2>4. QED
    BY <1>6, <2>1, <2>2, <2>3
<1>12. QED
  BY <1>8, <1>9, <1>10, <1>11 DEF EngineInv

LEMMA LandInv == TypeOK /\ EngineInv /\ Land => EngineInv'
<1> SUFFICES ASSUME TypeOK, EngineInv, Land PROVE EngineInv'
  OBVIOUS
<1>1. /\ pc = "land" /\ pc' = "apply" /\ k' = k + 1
      /\ UNCHANGED <<journal, last, cur, ops, undo>>
  BY DEF Land
<1>2. /\ Forward /\ ops \in Batches /\ cur = last /\ cur \in BatchId /\ k \in 1..Len(ops)
      /\ journal[cur] = [state |-> "open", undo |-> undo]
      /\ \A i \in 1..MaxOps : i > k => ~Exists(disk, Backup(cur, i))
  BY <1>1, BatchFields DEF Forward, EngineInv, InBatch
<1>3. ops \in Seq(Op) /\ Len(ops) \in Nat /\ k \in Nat
  BY <1>2, BatchFields
<1>4. op \in Op /\ op.path \in Path /\ op.to \in Path
  <2>1. op \in Op
    BY <1>2, <1>3 DEF op
  <2>2. QED
    BY <2>1, OpFields
<1>5. Note(op.path) \in Loc /\ Note(op.to) \in Loc
  BY <1>4, NoteInLoc
<1>6. \A b \in BatchId, i \in 1..MaxOps :
        Exists(disk', Backup(b, i)) => Exists(disk, Backup(b, i))
  <2> SUFFICES ASSUME NEW b \in BatchId, NEW i \in 1..MaxOps, Exists(disk', Backup(b, i))
               PROVE  Exists(disk, Backup(b, i))
    OBVIOUS
  <2>1. CASE disk' = [disk EXCEPT ![Note(op.to)] = op.content]
    BY <1>5, <2>1, NamesDiffer, BackupInLoc DEF Exists, TypeOK
  <2>2. CASE op.kind = "delete" /\ disk' = Rename(disk, Note(op.path), Last(undo).at)
    <3>1. PICK n \in 0..MaxTrash : Last(undo) = Restore(Trash(op.path, n), op.path)
      BY <1>1, <2>2 DEF EngineInv, ReadyToLand
    <3>2. Last(undo).at = Trash(op.path, n) /\ Trash(op.path, n) \in Loc
          /\ Trash(op.path, n) # Backup(b, i)
      BY <1>4, <3>1, TrashInLoc, NamesDiffer DEF Restore
    <3>3. QED
      BY <1>5, <2>2, <3>2, RenameBackups
  <2>3. CASE disk' = Rename(disk, Note(op.path), Note(op.to))
    BY <1>5, <2>3, NamesDiffer, RenameBackups
  <2>4. QED
    BY <2>1, <2>2, <2>3 DEF Land
<1>7. UndrawnFresh'
  BY <1>1, <1>6 DEF EngineInv, UndrawnFresh
<1>8. InBatch'
  BY <1>1, <1>2, <1>3, <1>6 DEF InBatch
<1>9. ReadyToSetAside' /\ ReadyToLand'
  BY <1>1 DEF ReadyToSetAside, ReadyToLand
<1>10. WriteAhead'
  BY <1>1, <1>6 DEF EngineInv, WriteAhead, OpenJournals
<1>11. QED
  BY <1>7, <1>8, <1>9, <1>10 DEF EngineInv

LEMMA StepInv == TypeOK /\ EngineInv /\ [Next]_vars => EngineInv'
<1> SUFFICES ASSUME TypeOK, EngineInv, [Next]_vars
             PROVE  EngineInv'
  OBVIOUS
<1>0. ASSUME Applying \/ pc = "record" PROVE op \in Op /\ k \in 1..MaxOps /\ cur \in BatchId
  <2>1. ops \in Batches /\ k \in 1..Len(ops) /\ cur \in BatchId
    BY <1>0, BatchFields DEF Applying, Forward, EngineInv, InBatch
  <2>2. QED
    BY <2>1, BatchFields, BoundsAssumption DEF op
<1>1. CASE Begin
  BY <1>1, BeginInv
<1>2. CASE BeginFails
  BY <1>2, QuietInv DEF BeginFails, Forward
<1>3. CASE RecordBackup
  <2>1. Restore(Backup(cur, k), op.to) \in UndoStep
    BY <1>0, <1>3, BackupInLoc, StepTypes, OpFields DEF RecordBackup
  <2>2. QED
    BY <1>3, <2>1, RecordedInv DEF RecordBackup
<1>4. CASE RecordCreate
  <2>1. DeletePath(op.to) \in UndoStep
    BY <1>0, <1>4, StepTypes, OpFields DEF RecordCreate
  <2>2. QED
    BY <1>4, <2>1, RecordedInv DEF RecordCreate
<1>5. CASE RecordDelete
  <2>1. PICK n \in FreeTrash(op.path) :
          Recorded(Restore(Trash(op.path, n), op.path), "land")
    BY <1>5 DEF RecordDelete
  <2>2. /\ Restore(Trash(op.path, n), op.path) \in UndoStep
        /\ n \in 0..MaxTrash /\ ~Exists(disk, Trash(op.path, n))
    BY <1>0, <1>5, <2>1, FreeTrashType, StepTypes, OpFields DEF RecordDelete
  <2>3. QED
    BY <1>5, <2>1, <2>2, RecordedInv DEF RecordDelete
<1>6. CASE RecordMove
  <2>1. ReverseMove(op.path, op.to) \in UndoStep
    BY <1>0, <1>6, StepTypes, OpFields DEF RecordMove
  <2>2. op.kind = "move" /\ op.path # op.to /\ ~Exists(disk, Note(op.to))
    BY <1>6 DEF RecordMove, EngineInv, ReadyToLand
  <2>3. QED
    BY <1>6, <2>1, <2>2, RecordedInv DEF RecordMove
<1>7. CASE Refuse \/ MutationFails \/ CommitFails
  BY <1>7, QuietInv DEF Refuse, MutationFails, CommitFails, Fail, Forward
<1>8. CASE SetAside
  BY <1>8, SetAsideInv
<1>9. CASE Land
  BY <1>9, LandInv
<1>10. CASE Commit
  <2>1. /\ Forward /\ cur = last /\ cur \in BatchId /\ last' = last /\ disk' = disk
        /\ journal' = [journal EXCEPT ![cur].state = "committed"]
    BY <1>10 DEF Commit, Finished, Forward, EngineInv, InBatch
  <2>2. \A b \in BatchId : b # cur => journal'[b] = journal[b]
    BY <2>1 DEF TypeOK
  <2>3. journal'[cur].state = "committed"
    BY <2>1 DEF TypeOK, JournalFile
  <2>4. ~(cur > last)
    BY <2>1 DEF BatchId
  <2>5. ~Forward'
    BY <1>10 DEF Commit, Forward
  <2>6. QED
    BY <2>1, <2>2, <2>3, <2>4, <2>5, LeavingInv DEF Exists
<1>11. CASE UndoOne
  <2>1. Last(undo) \in UndoStep
    BY <1>11, FrontLast DEF UndoOne, TypeOK
  <2>2. \A b \in BatchId, i \in 1..MaxOps :
          Exists(disk', Backup(b, i)) => Exists(disk, Backup(b, i))
    BY <1>11, <2>1, ReplayBackups DEF UndoOne, Exists
  <2>3. ~Forward' /\ last' = last /\ journal' = journal
    BY <1>11 DEF UndoOne, Forward
  <2>4. QED
    BY <2>2, <2>3, LeavingInv
<1>12. CASE UndoneAll
  BY <1>12, QuietInv DEF UndoneAll, Leave, Forward
<1>13. CASE RemoveBackup
  <2>1. \A b \in BatchId, i \in 1..MaxOps :
          Exists(disk', Backup(b, i)) => Exists(disk, Backup(b, i))
    BY <1>13, BackupInLoc DEF RemoveBackup, Backups, Exists, TypeOK
  <2>2. ~Forward' /\ last' = last /\ journal' = journal
    BY <1>13 DEF RemoveBackup, Forward
  <2>3. QED
    BY <2>1, <2>2, LeavingInv
<1>14. CASE BackupsGone
  BY <1>14, QuietInv DEF BackupsGone, Forward
<1>15. CASE RemoveJournal
  <2>1. \A b \in BatchId : journal'[b] = journal[b] \/ journal'[b] = NoJournal
    BY <1>15 DEF RemoveJournal, TypeOK
  <2>2. ~Forward' /\ last' = last /\ disk' = disk
    BY <1>15 DEF RemoveJournal, Leave, Forward
  <2>3. QED
    BY <2>1, <2>2, LeavingInv DEF NoJournal, Exists
<1>16. ASSUME NEW b \in BatchId, RecoverOne(b) \/ SkipUnreadable(b)
       PROVE  EngineInv'
  BY <1>16, QuietInv DEF RecoverOne, SkipUnreadable, Forward
<1>17. CASE Opened \/ Open \/ OpenReadOnly \/ Die
  BY <1>17, QuietInv DEF Opened, Open, OpenReadOnly, Die, Forward
<1>18. CASE WriteNote
  <2>1. PICK p \in Path, c \in Content : disk' = [disk EXCEPT ![Note(p)] = c]
    BY <1>18 DEF WriteNote
  <2>2. \A b \in BatchId, i \in 1..MaxOps :
          Exists(disk', Backup(b, i)) => Exists(disk, Backup(b, i))
    BY <2>1, NamesDiffer, BackupInLoc DEF Exists, TypeOK
  <2>3. ~Forward' /\ last' = last /\ journal' = journal
    BY <1>18 DEF WriteNote, Forward
  <2>4. QED
    BY <2>2, <2>3, LeavingInv
<1>19. CASE UNCHANGED vars
  BY <1>19 DEF vars, storage, batch, EngineInv, UndrawnFresh, InBatch, ReadyToSetAside,
               ReadyToLand, WriteAhead, OpenJournals, Forward, Exists, op
<1>20. QED
  BY <1>1, <1>2, <1>3, <1>4, <1>5, <1>6, <1>7, <1>8, <1>9, <1>10, <1>11, <1>12,
     <1>13, <1>14, <1>15, <1>16, <1>17, <1>18, <1>19
  DEF Next, Step

-----------------------------------------------------------------------------
(* The engine invariant holds in every reachable state: commit_batch and   *)
(* recovery never lose step with the journal on disk.                      *)
THEOREM EngineCorrect == Spec => [](TypeOK /\ EngineInv)
<1>1. Init => TypeOK /\ EngineInv
  BY InitType, InitInv
<1>2. TypeOK /\ EngineInv /\ [Next]_vars => (TypeOK /\ EngineInv)'
  BY StepType, StepInv
<1>3. QED
  BY <1>1, <1>2, PTL DEF Spec

(* Every reachable state is well typed: no location, undo step, journal or *)
(* batch outside the sets the engine is built on.                          *)
THEOREM TypeCorrect == Spec => []TypeOK
BY EngineCorrect, PTL

(* No crash can strand an original: a body set aside for a batch that is   *)
(* still open is named by that batch's journal on disk.                    *)
THEOREM WriteAheadHolds == Spec => []WriteAhead
<1>1. EngineInv => WriteAhead
  BY DEF EngineInv
<1>2. QED
  BY <1>1, EngineCorrect, PTL

(* One step before the commit point. *)
LEMMA ClobberStep ==
    ASSUME TypeOK, EngineInv, [Next]_vars, Forward,
           NEW l \in Loc, Exists(disk, l), disk'[l] # disk[l]
    PROVE  /\ ~Exists(disk', l)
           /\ \E m \in Loc : ~Exists(disk, m) /\ disk'[m] = disk[l]
<1>0. ASSUME pc \in {"aside", "land"}
      PROVE  op \in Op /\ k \in 1..MaxOps /\ cur \in BatchId
  <2>1. ops \in Batches /\ k \in 1..Len(ops) /\ cur \in BatchId
    BY <1>0, BatchFields DEF Forward, EngineInv, InBatch
  <2>2. QED
    BY <2>1, BatchFields, BoundsAssumption DEF op
<1>1. CASE SetAside
  <2>1. disk' = Rename(disk, Note(op.to), Backup(cur, k)) /\ pc = "aside"
    BY <1>1 DEF SetAside
  <2>2. Note(op.to) \in Loc /\ Backup(cur, k) \in Loc /\ Note(op.to) # Backup(cur, k)
    BY <1>0, <2>1, OpFields, NoteInLoc, BackupInLoc, NamesDiffer
  <2>3. ~Exists(disk, Backup(cur, k))
    BY <1>0, <2>1 DEF EngineInv, InBatch
  <2>4. QED
    BY <2>1, <2>2, <2>3 DEF Rename, Exists, TypeOK
<1>2. CASE Land
  <2>1. pc = "land"
    BY <1>2 DEF Land
  <2>2. op.path \in Path /\ op.to \in Path /\ Note(op.path) \in Loc /\ Note(op.to) \in Loc
    BY <1>0, <2>1, OpFields, NoteInLoc
  <2>3. CASE op.kind = "write" /\ disk' = [disk EXCEPT ![Note(op.to)] = op.content]
    BY <2>1, <2>2, <2>3 DEF EngineInv, ReadyToLand, Exists, TypeOK
  <2>4. CASE op.kind = "delete" /\ disk' = Rename(disk, Note(op.path), Last(undo).at)
    <3>1. PICK n \in 0..MaxTrash : /\ Last(undo) = Restore(Trash(op.path, n), op.path)
                                   /\ ~Exists(disk, Trash(op.path, n))
      BY <2>1, <2>4 DEF EngineInv, ReadyToLand
    <3>2. Last(undo).at = Trash(op.path, n) /\ Trash(op.path, n) \in Loc
          /\ Trash(op.path, n) # Note(op.path)
      BY <2>2, <3>1, TrashInLoc, NamesDiffer DEF Restore
    <3>3. QED
      BY <2>2, <2>4, <3>1, <3>2 DEF Rename, Exists, TypeOK
  <2>5. CASE op.kind = "move" /\ disk' = Rename(disk, Note(op.path), Note(op.to))
    <3>1. ~Exists(disk, Note(op.to)) /\ Note(op.path) # Note(op.to)
      BY <2>1, <2>2, <2>5, NamesDiffer DEF EngineInv, ReadyToLand
    <3>2. QED
      BY <2>2, <2>5, <3>1 DEF Rename, Exists, TypeOK
  <2>6. QED
    BY <1>2, <2>3, <2>4, <2>5 DEF Land
<1>3. ASSUME ~SetAside, ~Land PROVE disk' = disk
  BY <1>3
  DEF Next, Step, vars, storage, Forward, Begin, BeginFails, RecordBackup, RecordCreate,
      RecordDelete, RecordMove, Recorded, Refuse, MutationFails, Commit, CommitFails,
      UndoOne, UndoneAll, RemoveBackup, BackupsGone, RemoveJournal, RecoverOne,
      SkipUnreadable, Opened, Open, OpenReadOnly, WriteNote, Die
<1>4. QED
  BY <1>1, <1>2, <1>3

(* Up to the commit point the engine overwrites nothing: every body it     *)
(* displaces lands in a place that was free.                               *)
THEOREM NothingClobbered == Spec => NoClobber
<1> DEFINE Kept == Forward =>
             \A l \in Loc :
               Exists(disk, l) /\ disk'[l] # disk[l] =>
                 /\ ~Exists(disk', l)
                 /\ \E m \in Loc : ~Exists(disk, m) /\ disk'[m] = disk[l]
<1>1. TypeOK /\ EngineInv /\ [Next]_vars => Kept
  BY ClobberStep
<1>2. QED
  BY <1>1, EngineCorrect, PTL DEF Spec, NoClobber
------------------------------------------------------------------------------
(***************************************************************************)
(* What a crash leaves behind can always be brought back: for any notes,   *)
(* any bodies and any sound batch, whatever the journal says at whatever   *)
(* moment, replaying it gives the notes of the last commit point, and so   *)
(* does replaying it again after being cut short. From this the engine's   *)
(* promises follow, and that every step of it is one AtomicBatch allows.   *)
(*                                                                         *)
(* The argument. A rollback is a chain of disks, one per undo step that is *)
(* left; the chain is not part of the state, RecoveryInv only says that    *)
(* there is one. It starts at the promised notes and ends at the disk, and *)
(* a step replayed once has nothing to do on any disk further down the     *)
(* chain (Settled), so going over it again changes nothing. Going forward  *)
(* lengthens the chain by the recorded step, the mutation then moves its   *)
(* last disk, the rollback walks down it. What the operations still to     *)
(* come rely on (Ahead) is what keeps the chain settled as it grows.       *)
(***************************************************************************)

-----------------------------------------------------------------------------
(* The two folds of the model, FoldLeft in Effect and FoldRight in a       *)
(* rollback, take the elements of an index set one by one: the highest     *)
(* index is applied last, the lowest undone last.                          *)
Highest(t) == Max(t)
Lowest(t)  == Min(t)
Undoing(d, s) == Replay(s, d)

Forth == INSTANCE Folding WITH Then <- ApplyOp, Pick <- Highest
Back  == INSTANCE Folding WITH Then <- Undoing, Pick <- Lowest

(* The highest index of a set of numbers up to n that holds n.             *)
LEMMA MaxIs ==
    ASSUME NEW n \in Nat, NEW t \in SUBSET (1..n), n \in t
    PROVE  Max(t) = n
<1>1. \A x \in t : x \in Int /\ x <= n
  OBVIOUS
<1>2. \A x \in t : (\A y \in t : x >= y) => x = n
  BY <1>1
<1>3. QED
  BY <1>1, <1>2 DEF Max

(* The lowest index of a set of numbers from n on that holds n.            *)
LEMMA MinIs ==
    ASSUME NEW N \in Nat, NEW n \in 1..N, NEW t \in SUBSET (n..N), n \in t
    PROVE  Min(t) = n
<1>1. \A x \in t : x \in Int /\ n <= x
  OBVIOUS
<1>2. \A x \in t : (\A y \in t : x <= y) => x = n
  BY <1>1
<1>3. QED
  BY <1>1, <1>2 DEF Min

LEMMA FiniteExtreme ==
    ASSUME NEW N \in Nat, NEW t \in SUBSET (1..N), t # {}
    PROVE  Max(t) \in t /\ Min(t) \in t
<1>1. PICK x \in t : \A y \in t : x >= y
  BY Forth!Extremes
<1>2. PICK z \in t : \A y \in t : z <= y
  BY Forth!Extremes
<1>3. QED
  BY <1>1, <1>2 DEF Max, Min

(* Applying the first n operations of s one after the other. *)
Applied(c, v, s, n) == c[0] = v /\ \A i \in 1..n : c[i] = ApplyOp(c[i - 1], s[i])

(* The effect a batch declares is where applying its operations one after  *)
(* the other ends.                                                         *)
LEMMA EffectIsChain ==
    ASSUME NEW s, NEW N \in Nat, DOMAIN s = 1..N, NEW v, NEW c, Applied(c, v, s, N)
    PROVE  Effect(v, s) = c[N]
<1>0. c[0] = v /\ \A n \in 1..N : c[n] = ApplyOp(c[n - 1], s[n])
  BY DEF Applied
<1> DEFINE f == CHOOSE g : Forth!IsFold(g, s, v, DOMAIN s)
           S == [n \in 0..N |-> 1..n]
<1>1. Effect(v, s) = f[DOMAIN s]
  BY DEF Effect, FoldLeft, MapThenFoldSet, Forth!IsFold, Forth!Turn, Highest
<1>2. f = CHOOSE g : Forth!IsFold(g, s, v, 1..N)
  OBVIOUS
<1> HIDE DEF f
<1>3. IsFiniteSet(1..N)
  BY FS_Interval
<1>4. \A t \in SUBSET (1..N) : t # {} => Highest(t) \in t
  BY FiniteExtreme DEF Highest
<1>5. S[0] = {} /\ S[N] = 1..N
  OBVIOUS
<1>6. ASSUME NEW n \in 1..N
      PROVE /\ S[n] \in SUBSET (1..N) /\ S[n] # {}
            /\ S[n] \ {Highest(S[n])} = S[n - 1]
            /\ c[n] = ApplyOp(c[n - 1], s[Highest(S[n])])
  <2>1. S[n] = 1..n /\ n \in 1..n /\ S[n - 1] = 1..(n - 1)
    OBVIOUS
  <2>2. Highest(S[n]) = n
    BY <2>1, MaxIs DEF Highest
  <2>3. (1..n) \ {n} = 1..(n - 1)
    OBVIOUS
  <2> HIDE DEF S
  <2>4. QED
    BY <1>0, <2>1, <2>2, <2>3
<1> HIDE DEF S
<1>9. Forth!IsFold(f, s, v, 1..N)
  BY <1>2, <1>4, Forth!FoldExists
<1>10. Forth!IsChain(c, S, s, v, N)
  BY <1>0, <1>5, <1>6 DEF Forth!IsChain
<1>7. f[1..N] = c[N]
  BY <1>9, <1>10, Forth!FoldIsChain
<1>8. QED
  BY <1>1, <1>7

(* What a rollback makes of a disk is where replaying the steps from the   *)
(* last to the first ends.                                                 *)
LEMMA RollbackIsChain ==
    ASSUME NEW u, NEW N \in Nat, DOMAIN u = 1..N, NEW d, NEW c, c[N] = d,
           \A n \in 1..N : c[n - 1] = Replay(u[n], c[n])
    PROVE  FoldRight(Replay, u, d) = c[0]
<1> DEFINE f == CHOOSE g : Back!IsFold(g, u, d, DOMAIN u)
           S == [n \in 0..N |-> (N - n + 1)..N]
           e == [n \in 0..N |-> c[N - n]]
<1>1. FoldRight(Replay, u, d) = f[DOMAIN u]
  BY DEF FoldRight, MapThenFoldSet, Back!IsFold, Back!Turn, Lowest, Undoing
<1>2. f = CHOOSE g : Back!IsFold(g, u, d, 1..N)
  OBVIOUS
<1> HIDE DEF f
<1>3. \A t \in SUBSET (1..N) : t # {} => Lowest(t) \in t
  BY FiniteExtreme DEF Lowest
<1>4. S[0] = {} /\ S[N] = 1..N /\ e[0] = d /\ e[N] = c[0]
  OBVIOUS
<1>5. ASSUME NEW n \in 1..N
      PROVE /\ S[n] \in SUBSET (1..N) /\ S[n] # {}
            /\ S[n] \ {Lowest(S[n])} = S[n - 1]
            /\ e[n] = Undoing(e[n - 1], u[Lowest(S[n])])
  <2>1. PICK i \in 1..N : i = N - n + 1
    OBVIOUS
  <2>2. S[n] = i..N /\ i \in i..N /\ S[n - 1] = (i + 1)..N
    BY <2>1
  <2>3. Lowest(S[n]) = i
    BY <2>2, MinIs DEF Lowest
  <2>4. (i..N) \ {i} = (i + 1)..N /\ i..N \in SUBSET (1..N)
    BY <2>1
  <2>5. e[n] = c[i - 1] /\ e[n - 1] = c[i]
    BY <2>1
  <2>6. c[i - 1] = Replay(u[i], c[i])
    BY <2>1
  <2> HIDE DEF S, e
  <2>7. QED
    BY <2>2, <2>3, <2>4, <2>5, <2>6 DEF Undoing
<1> HIDE DEF S, e
<1>6. Back!IsFold(f, u, d, 1..N)
  BY <1>2, <1>3, Back!FoldExists
<1>7. Back!IsChain(e, S, u, d, N)
  BY <1>4, <1>5 DEF Back!IsChain
<1>8. f[1..N] = e[N]
  BY <1>6, <1>7, Back!FoldIsChain
<1>9. QED
  BY <1>1, <1>4, <1>8

-----------------------------------------------------------------------------
(* The notes on a disk. *)
NotesOf(d) == [p \in Path |-> d[Note(p)]]

(* A batch that rollback can take back however often it is interrupted:    *)
(* what it moves is there, a path it has emptied is not written or moved   *)
(* again, and what it moves was not moved there by itself. The tools       *)
(* submit no other batch (ToolsAreSound).                                  *)
Sound(v, s) ==
    /\ \A i \in DOMAIN s : s[i].kind = "move" => v[s[i].path] # None
    /\ \A i \in DOMAIN s, j \in DOMAIN s : j < i =>
         /\ s[i].kind \in {"write", "move"} /\ s[j].kind \in {"delete", "move"} =>
              s[i].path # s[j].path
         /\ s[i].kind = "move" /\ s[j].kind = "move" => s[i].path # s[j].to

(* Replaying the undo steps u from the last to the first on disk d: c[n]   *)
(* is the disk when the first n steps are left.                            *)
Rollback(c, u, d) ==
    /\ c \in [0..Len(u) -> [Loc -> Cell]]
    /\ c[Len(u)] = d
    /\ \A n \in 1..Len(u) : c[n - 1] = Replay(u[n], c[n])

(* A step once replayed finds nothing to do on any disk further down: the  *)
(* rollback may be cut short anywhere and started again.                   *)
Settled(c, u) == \A n \in 1..Len(u), j \in 0..Len(u) : j < n => ~HasWork(c[j], u[n])

(* The path whose original is aside and whose new body has not landed.     *)
Away == IF pc \in {"record", "land"} /\ op.kind # "delete" THEN {op.to} ELSE {}

(* What the operations still to be done rely on: a note about to be        *)
(* written is missing only if it always was, a note about to be moved was  *)
(* there all the time.                                                     *)
Ahead(c) ==
    \A i \in k..Len(ops), j \in 0..Len(undo) :
        /\ ops[i].kind = "write" /\ ops[i].path \notin Away =>
             (Exists(c[j], Note(ops[i].path)) => Exists(disk, Note(ops[i].path)))
        /\ ops[i].kind = "move" /\ (j < Len(undo) \/ ops[i].path \notin Away) =>
             Exists(c[j], Note(ops[i].path))

(* How far a running rollback has come: the first n steps are left, or all *)
(* of them and one that never reached the disk and has nothing to undo.    *)
Unwinding(c, u, d, left) ==
    \/ \E n \in 0..Len(u) :
         /\ left = SubSeq(u, 1, n)
         /\ \A m \in n..Len(u) : c[m] = d
    \/ \E s \in UndoStep : left = Append(u, s) /\ ~HasWork(d, s)

(* The one open journal brings back the promised notes. *)
BringsBack(c, u) ==
    /\ Rollback(c, u, disk)
    /\ NotesOf(c[0]) = promised
    /\ Settled(c, u)
    /\ Forward => Ahead(c)
    /\ pc = "undo" => Unwinding(c, u, disk, undo)
    /\ pc \in {"clean", "unlink"} => \A n \in 0..Len(u) : c[n] = disk

(* One journal at a time, and who is at it. *)
OneJournal ==
    /\ \A b, c \in Pending : b = c
    /\ pc \in {"idle", "reading"} => Pending = {}
    /\ Forward \/ pc \in {"undo", "clean", "unlink"} => cur \in Pending
    /\ pc = "undo" => journal[cur].state = "open"
    /\ todo = IF pc = "recover" THEN Pending ELSE {}
    /\ \A b \in BatchId, i \in 1..MaxOps :
         Exists(disk, Backup(b, i)) => b \in Pending /\ pc # "unlink"
    /\ ok /\ healthy

(* The step recorded last is the one that undoes the mutation to come. *)
LastStep ==
    /\ pc = "aside" => Exists(disk, Note(op.to))
    /\ pc = "land" /\ op.kind = "write" =>
         /\ undo # <<>>
         /\ \/ Last(undo) = DeletePath(op.to)
            \/ Last(undo) = Restore(Backup(cur, k), op.to) /\ Exists(disk, Backup(cur, k))
    /\ pc = "land" /\ op.kind = "move" =>
         undo # <<>> /\ Last(undo) = ReverseMove(op.path, op.to)

(* The operations before the kth are done, one after the other. *)
Progress(e) ==
    /\ e \in [0..(k - 1) -> [Path -> Cell]]
    /\ e[0] = promised
    /\ \A n \in 1..(k - 1) : e[n] = ApplyOp(e[n - 1], ops[n])
    /\ \A p \in Path : disk[Note(p)] = IF p \in Away THEN None ELSE e[k - 1][p]


RecoveryInv ==
    /\ OneJournal
    /\ ~Forward => ops = <<>>
    /\ Forward => Sound(promised, ops)
    /\ LastStep
    /\ Forward => \E e : Progress(e)
    /\ OpenJournals = {} => NotesOf(disk) = promised
    /\ \A b \in OpenJournals : \E c : BringsBack(c, journal[b].undo)

-----------------------------------------------------------------------------
(* Rollbacks. *)

(* A step with nothing to do leaves the disk alone.                        *)
LEMMA IdleReplay ==
    ASSUME NEW d, NEW s, ~HasWork(d, s)
    PROVE  Replay(s, d) = d
BY DEF Replay

(* A rollback only ever empties the backups and the trash. *)
LEMMA OnlyEmptied ==
    ASSUME NEW u \in Seq(UndoStep), NEW d \in [Loc -> Cell], NEW c, Rollback(c, u, d),
           NEW l \in Loc, l \notin Notes
    PROVE  \A n \in 0..Len(u) : Exists(c[n], l) => Exists(d, l)
<1> DEFINE T == {m \in Nat : m <= Len(u) => (Exists(c[Len(u) - m], l) => Exists(d, l))}
<1>0. Len(u) \in Nat
  OBVIOUS
<1>1. 0 \in T
  BY DEF Rollback
<1>2. ASSUME NEW m \in T PROVE m + 1 \in T
  <2> SUFFICES ASSUME m + 1 <= Len(u), Exists(c[Len(u) - (m + 1)], l) PROVE Exists(d, l)
    OBVIOUS
  <2>1. PICK n \in 1..Len(u) : n = Len(u) - m /\ n - 1 = Len(u) - (m + 1)
    BY <1>0
  <2>2. c[n - 1] = Replay(u[n], c[n]) /\ c[n] \in [Loc -> Cell]
    BY DEF Rollback
  <2>3. u[n] \in UndoStep
    OBVIOUS
  <2>4. u[n].home # l /\ u[n].at \in Loc /\ u[n].home \in Loc
    BY <2>3, NotesInLoc DEF UndoStep
  <2>5. Exists(Replay(u[n], c[n]), l) => Exists(c[n], l)
    BY <2>2, <2>4 DEF Replay, Rename, Exists
  <2>6. Exists(c[n], l)
    BY <2>1, <2>2, <2>5
  <2>7. QED
    BY <1>0, <2>1, <2>6
<1>3. T = Nat
  <2> HIDE DEF T
  <2>1. T \in SUBSET Nat
    BY DEF T
  <2>2. QED
    BY <1>1, <1>2, <2>1, Forth!Grows
<1>4. \A n \in 0..Len(u) : Len(u) - n \in T /\ Len(u) - (Len(u) - n) = n /\ Len(u) - n <= Len(u)
  BY <1>0, <1>3
<1>5. QED
  BY <1>4

(* Recording a step that has nothing to do yet. *)
LEMMA Extended ==
    ASSUME NEW u \in Seq(UndoStep), NEW d \in [Loc -> Cell], NEW c,
           Rollback(c, u, d), Settled(c, u),
           NEW s \in UndoStep, \A j \in 0..Len(u) : ~HasWork(c[j], s)
    PROVE  \E e : /\ Rollback(e, Append(u, s), d) /\ Settled(e, Append(u, s))
                  /\ \A n \in 0..Len(u) : e[n] = c[n]
                  /\ e[Len(u) + 1] = d
<1> DEFINE N == Len(u)
           e == [n \in 0..(N + 1) |-> IF n <= N THEN c[n] ELSE d]
           v == Append(u, s)
<1>1. N \in Nat /\ Len(v) = N + 1 /\ v[N + 1] = s /\ \A n \in 1..N : v[n] = u[n]
  OBVIOUS
<1>2. /\ \A n \in 0..N : e[n] = c[n]
      /\ e[N + 1] = d /\ c[N] = d
      /\ c \in [0..N -> [Loc -> Cell]]
      /\ \A n \in 1..N : c[n - 1] = Replay(u[n], c[n])
  BY DEF Rollback
<1>3. e \in [0..(N + 1) -> [Loc -> Cell]]
  BY <1>2
<1> HIDE DEF v, N
<1>4. ASSUME NEW n \in 1..(N + 1) PROVE e[n - 1] = Replay(v[n], e[n])
  <2>1. CASE n = N + 1
    <3>1. ~HasWork(d, s)
      BY <1>1, <1>2 DEF N
    <3>2. e[n - 1] = d /\ e[n] = d /\ v[n] = s
      <4>1. n - 1 = N /\ N \in 0..N
        BY <1>1, <2>1
      <4>2. e[N] = d
        BY <1>2, <4>1
      <4> HIDE DEF e
      <4>3. QED
        BY <1>1, <1>2, <2>1, <4>1, <4>2
    <3> HIDE DEF e
    <3>3. QED
      BY <3>1, <3>2, IdleReplay
  <2>2. CASE n # N + 1
    <3>1. n \in 1..N /\ n - 1 \in 0..N /\ n \in 0..N
      BY <1>1, <2>2
    <3> HIDE DEF e
    <3>2. QED
      BY <1>1, <1>2, <3>1
  <2>3. QED
    BY <2>1, <2>2
<1> HIDE DEF e
<1>5. Rollback(e, v, d)
  BY <1>1, <1>2, <1>3, <1>4 DEF Rollback
<1>6. ASSUME NEW n \in 1..(N + 1), NEW j \in 0..(N + 1), j < n PROVE ~HasWork(e[j], v[n])
  <2>1. j \in 0..N /\ e[j] = c[j]
    BY <1>1, <1>2, <1>6
  <2>2. CASE n = N + 1
    BY <1>1, <2>1, <2>2 DEF N
  <2>3. CASE n # N + 1
    <3>1. n \in 1..N /\ v[n] = u[n]
      BY <1>1, <2>3
    <3>2. QED
      BY <1>6, <2>1, <3>1 DEF Settled, N
  <2>4. QED
    BY <2>2, <2>3
<1>7. Settled(e, v)
  BY <1>1, <1>6 DEF Settled
<1>8. QED
  BY <1>2, <1>5, <1>7 DEF v, N

(* A mutation that the step recorded last takes back. *)
LEMMA Advanced ==
    ASSUME NEW u \in Seq(UndoStep), u # <<>>, NEW d \in [Loc -> Cell], NEW c,
           Rollback(c, u, d), Settled(c, u),
           NEW x \in [Loc -> Cell], Replay(u[Len(u)], x) = c[Len(u) - 1]
    PROVE  \E e : /\ Rollback(e, u, x) /\ Settled(e, u)
                  /\ \A n \in 0..(Len(u) - 1) : e[n] = c[n]
                  /\ e[Len(u)] = x
<1> DEFINE N == Len(u)
           e == [c EXCEPT ![N] = x]
<1>1. N \in Nat /\ N >= 1
  OBVIOUS
<1>2. /\ c \in [0..N -> [Loc -> Cell]]
      /\ \A n \in 1..N : c[n - 1] = Replay(u[n], c[n])
  BY DEF Rollback
<1>3. e[N] = x /\ \A n \in 0..(N - 1) : e[n] = c[n]
  BY <1>1, <1>2
<1>4. e \in [0..N -> [Loc -> Cell]]
  BY <1>1, <1>2
<1> HIDE DEF e, N
<1>5. ASSUME NEW n \in 1..N PROVE e[n - 1] = Replay(u[n], e[n])
  <2>1. n - 1 \in 0..(N - 1) /\ e[n - 1] = c[n - 1]
    BY <1>1, <1>3
  <2>2. CASE n = N
    BY <1>3, <2>1, <2>2 DEF N
  <2>3. CASE n # N
    <3>1. n \in 0..(N - 1)
      BY <1>1, <2>3
    <3>2. QED
      BY <1>2, <1>3, <2>1, <3>1
  <2>4. QED
    BY <2>2, <2>3
<1>6. Rollback(e, u, x)
  BY <1>3, <1>4, <1>5 DEF Rollback, N
<1>7. ASSUME NEW n \in 1..N, NEW j \in 0..N, j < n PROVE ~HasWork(e[j], u[n])
  <2>1. j \in 0..(N - 1)
    BY <1>1, <1>7
  <2>2. QED
    BY <1>3, <1>7, <2>1 DEF Settled, N
<1>8. Settled(e, u)
  BY <1>7 DEF Settled, N
<1>9. QED
  BY <1>3, <1>6, <1>8 DEF N

(* One step of a rollback: the ones above it stay done. *)
LEMMA Retreated ==
    ASSUME NEW u \in Seq(UndoStep), NEW d \in [Loc -> Cell], NEW c,
           Rollback(c, u, d), Settled(c, u),
           NEW n \in 1..Len(u), \A m \in n..Len(u) : c[m] = d
    PROVE  \E e : /\ Rollback(e, u, Replay(u[n], d)) /\ Settled(e, u)
                  /\ e[0] = c[0]
                  /\ \A m \in (n - 1)..Len(u) : e[m] = Replay(u[n], d)
<1> DEFINE N == Len(u)
           x == c[n - 1]
           e == [m \in 0..N |-> IF m < n THEN c[m] ELSE x]
<1>1. N \in Nat /\ n \in 1..N /\ n - 1 \in 0..N
  OBVIOUS
<1>2. /\ c \in [0..N -> [Loc -> Cell]]
      /\ \A m \in 1..N : c[m - 1] = Replay(u[m], c[m])
  BY DEF Rollback
<1>3. x = Replay(u[n], d)
  BY <1>1, <1>2
<1>4. e \in [0..N -> [Loc -> Cell]]
  BY <1>1, <1>2
<1>5. /\ \A m \in 0..(n - 1) : e[m] = c[m]
      /\ \A m \in (n - 1)..N : e[m] = x
  BY <1>1
<1> HIDE DEF e, x, N
<1>6. \A m \in n..N : ~HasWork(x, u[m])
  BY <1>1 DEF Settled, x, N
<1>7. ASSUME NEW m \in 1..N PROVE e[m - 1] = Replay(u[m], e[m])
  <2>1. CASE m < n
    <3>1. m - 1 \in 0..(n - 1) /\ m \in 0..(n - 1)
      BY <1>1, <2>1
    <3>2. QED
      BY <1>2, <1>5, <3>1
  <2>2. CASE m >= n
    <3>1. m - 1 \in (n - 1)..N /\ m \in (n - 1)..N /\ m \in n..N
      BY <1>1, <2>2
    <3>2. QED
      BY <1>5, <1>6, <3>1, IdleReplay
  <2>3. QED
    BY <1>1, <2>1, <2>2
<1>8. Rollback(e, u, x)
  BY <1>1, <1>4, <1>5, <1>7 DEF Rollback, N
<1>9. ASSUME NEW m \in 1..N, NEW j \in 0..N, j < m PROVE ~HasWork(e[j], u[m])
  <2>1. CASE j < n
    <3>1. j \in 0..(n - 1)
      BY <1>1, <2>1
    <3>2. QED
      BY <1>5, <1>9, <3>1 DEF Settled, N
  <2>2. CASE j >= n
    <3>1. j \in (n - 1)..N /\ m \in n..N
      BY <1>1, <2>2, <1>9
    <3>2. QED
      BY <1>5, <1>6, <3>1
  <2>3. QED
    BY <1>1, <2>1, <2>2
<1>10. Settled(e, u)
  BY <1>9 DEF Settled, N
<1>11. e[0] = c[0]
  BY <1>1, <1>5
<1>12. QED
  BY <1>3, <1>5, <1>8, <1>10, <1>11 DEF N

-----------------------------------------------------------------------------
(* The callers and the faults the theorems are about: every batch is sound *)
(* for the vault it is submitted to, and of the calls only journal writes  *)
(* and the mutations of apply_op fail.                                     *)
Careful == \A v \in [Path -> Cell], s \in Batches : Admissible(v, s) => Sound(v, s)

RecoveryUndisturbed == FaultPoints \subseteq {"journal", "apply"}

-----------------------------------------------------------------------------
(* The recovery invariant, step by step. *)

(* A vault just created has no journal, and its notes are promised.        *)
LEMMA InitRec == Init => RecoveryInv
<1> SUFFICES ASSUME Init PROVE RecoveryInv
  OBVIOUS
<1>1. PICK v \in Vaults :
        /\ disk = [l \in Loc |-> IF l[1] = "note" THEN v[l[2]] ELSE None]
        /\ promised = v
  BY DEF Init
<1>2. v \in [Path -> Cell]
  BY VaultsAssumption
<1>3. Pending = {} /\ OpenJournals = {}
  BY DEF Init, Pending, OpenJournals, NoJournal
<1>4. \A b \in BatchId, i \in 1..MaxOps : ~Exists(disk, Backup(b, i))
  BY <1>1, BackupInLoc DEF Backup, Exists
<1>5. OneJournal
  BY <1>3, <1>4 DEF OneJournal, Init, Forward
<1>6. NotesOf(disk) = promised
  <2>1. \A p \in Path : disk[Note(p)] = v[p]
    BY <1>1, NoteInLoc DEF Note
  <2>2. QED
    BY <1>1, <1>2, <2>1 DEF NotesOf
<1>7. ~Forward /\ ops = <<>> /\ LastStep
  BY DEF Init, Forward, LastStep
<1>8. QED
  BY <1>3, <1>5, <1>6, <1>7 DEF RecoveryInv

(* The journal of the batch under way is the open one, and the only one.   *)
LEMMA OpenIsCur ==
    ASSUME TypeOK, EngineInv, RecoveryInv, Forward \/ pc = "undo"
    PROVE  /\ cur \in BatchId /\ OpenJournals = {cur} /\ Pending = {cur}
           /\ journal[cur].undo \in Seq(UndoStep)
           /\ Forward => journal[cur].undo = undo
<1>1. cur \in Pending /\ \A b \in Pending : b = cur
  BY DEF RecoveryInv, OneJournal
<1>2. cur \in BatchId /\ journal[cur].state = "open"
  BY <1>1 DEF Pending, EngineInv, InBatch, RecoveryInv, OneJournal
<1>3. Forward => journal[cur].undo = undo
  BY DEF EngineInv, InBatch
<1>4. journal[cur].undo \in Seq(UndoStep)
  BY <1>2 DEF TypeOK, JournalFile
<1>5. OpenJournals = {cur} /\ Pending = {cur}
  BY <1>1, <1>2 DEF OpenJournals, Pending
<1>6. QED
  BY <1>2, <1>3, <1>4, <1>5

(* Off the forward path: nothing is said of the operations any more. *)
LEMMA OffForward ==
    ASSUME ~Forward', ops' = <<>>, OneJournal',
           OpenJournals' = {} => NotesOf(disk)' = promised',
           \A b \in OpenJournals' : \E c : BringsBack(c, journal[b].undo)'
    PROVE  RecoveryInv'
<1>1. LastStep'
  BY DEF LastStep, Forward
<1>2. QED
  BY <1>1 DEF RecoveryInv

(* The disk as it was. *)
LEMMA QuietRec ==
    ASSUME RecoveryInv, ~Forward', ops' = <<>>, OneJournal',
           UNCHANGED <<disk, journal, promised>>,
           \A b \in OpenJournals : \A c :
               BringsBack(c, journal[b].undo) =>
                   /\ pc' = "undo" => Unwinding(c, journal[b].undo, disk, undo')
                   /\ pc' \in {"clean", "unlink"} =>
                        \A n \in 0..Len(journal[b].undo) : c[n] = disk
    PROVE  RecoveryInv'
<1>1. OpenJournals' = OpenJournals
  BY DEF OpenJournals
<1>2. NotesOf(disk)' = NotesOf(disk)
  BY DEF NotesOf
<1>3. OpenJournals' = {} => NotesOf(disk)' = promised'
  BY <1>1, <1>2 DEF RecoveryInv
<1>4. ASSUME NEW b \in OpenJournals' PROVE \E c : BringsBack(c, journal[b].undo)'
  <2>1. PICK c : BringsBack(c, journal[b].undo)
    BY <1>1 DEF RecoveryInv
  <2>2. BringsBack(c, journal[b].undo)'
    BY <1>1, <2>1 DEF BringsBack
  <2>3. QED
    BY <2>2
<1>5. QED
  BY <1>3, <1>4, OffForward

(* Giving up: the rollback has everything to do that is recorded. *)
LEMMA FailRec ==
    ASSUME TypeOK, EngineInv, RecoveryInv, Forward, Fail,
           UNCHANGED <<disk, journal, todo, healthy, promised>>,
           \/ undo' = undo
           \/ \E s \in UndoStep : undo' = Append(undo, s) /\ ~HasWork(disk, s)
    PROVE  RecoveryInv'
<1>1. cur \in BatchId /\ OpenJournals = {cur} /\ Pending = {cur}
      /\ journal[cur].undo = undo /\ undo \in Seq(UndoStep)
  BY OpenIsCur DEF TypeOK
<1>2. pc' = "undo" /\ ok' = TRUE /\ ops' = <<>> /\ cur' = cur /\ ~Forward'
  BY DEF Fail, Forward
<1>3. OneJournal'
  <2>1. Pending' = Pending
    BY DEF Pending
  <2>2. todo' = {}
    BY DEF RecoveryInv, OneJournal, Forward
  <2>3. journal'[cur'].state = "open"
    BY <1>1, <1>2 DEF OpenJournals
  <2>4. QED
    BY <1>1, <1>2, <2>1, <2>2, <2>3 DEF RecoveryInv, OneJournal, Exists
<1>4. ASSUME NEW c, Rollback(c, undo, disk) PROVE Unwinding(c, undo, disk, undo')
  <2>1. SubSeq(undo, 1, Len(undo)) = undo /\ Len(undo) \in 0..Len(undo)
    BY <1>1
  <2>2. \A m \in Len(undo)..Len(undo) : c[m] = disk
    BY <1>1, <1>4 DEF Rollback
  <2>3. QED
    BY <2>1, <2>2 DEF Unwinding
<1>5. QED
  BY <1>1, <1>2, <1>3, <1>4, QuietRec DEF BringsBack

(* An admitted batch starts a journal with nothing to take back.           *)
LEMMA BeginRec ==
    ASSUME Careful, TypeOK, EngineInv, RecoveryInv, Begin
    PROVE  RecoveryInv'
<1>1. /\ pc = "idle" /\ pc' = "apply" /\ k' = 1 /\ undo' = <<>> /\ cur' = last + 1
      /\ journal' = [journal EXCEPT ![last + 1] = [state |-> "open", undo |-> <<>>]]
      /\ UNCHANGED <<disk, ok, recovering, todo, healthy, promised>>
      /\ ops' \in Batches /\ Admissible(Vault, ops')
  BY DEF Begin, recovery
<1>2. cur' \in BatchId
  BY BoundsAssumption DEF Begin, TypeOK, BatchId
<1>3. Pending = {} /\ OpenJournals = {}
  BY <1>1 DEF RecoveryInv, OneJournal, Pending, OpenJournals
<1>4. Pending' = {cur'} /\ OpenJournals' = {cur'} /\ journal'[cur'].undo = <<>>
  BY <1>1, <1>2, <1>3 DEF Pending, OpenJournals, TypeOK
<1>5. OneJournal'
  <2>1. \A b \in BatchId, i \in 1..MaxOps : ~Exists(disk, Backup(b, i))
    BY <1>3 DEF RecoveryInv, OneJournal
  <2>2. ok /\ healthy /\ todo = {}
    BY <1>1 DEF RecoveryInv, OneJournal
  <2>3. QED
    BY <1>1, <1>4, <2>1, <2>2 DEF OneJournal, Forward
<1>6. Vault = promised /\ NotesOf(disk) = promised /\ Vault \in [Path -> Cell]
  BY <1>3, NoteInLoc DEF RecoveryInv, NotesOf, Vault, TypeOK
<1>7. Sound(promised, ops')
  BY <1>1, <1>6 DEF Careful
<1>8. ops' \in Seq(Op) /\ Len(ops') \in Nat
  BY <1>1, BatchFields
<1>9. \E c : BringsBack(c, <<>>)'
  <2>0. PICK c : c = [n \in 0..0 |-> disk]
    OBVIOUS
  <2>1. c[0] = disk /\ c \in [0..0 -> [Loc -> Cell]] /\ Len(<<>>) = 0
    BY <2>0 DEF TypeOK
  <2>2. Rollback(c, <<>>, disk) /\ Settled(c, <<>>)
    BY <2>1 DEF Rollback, Settled
  <2>3. Ahead(c)'
    <3> SUFFICES ASSUME NEW i \in 1..Len(ops'), NEW j \in 0..0
                 PROVE /\ Exists(c[j], Note(ops'[i].path)) => Exists(disk, Note(ops'[i].path))
                       /\ ops'[i].kind = "move" => Exists(c[j], Note(ops'[i].path))
      BY <1>1, <2>1 DEF Ahead
    <3>1. j = 0 /\ ops'[i] \in Op /\ i \in DOMAIN ops'
      BY <1>8
    <3>2. ops'[i].kind = "move" => Vault[ops'[i].path] # None /\ ops'[i].path \in Path
      BY <1>6, <1>7, <3>1, OpFields DEF Sound
    <3>3. QED
      BY <2>1, <3>1, <3>2 DEF Vault, Exists
  <2>4. NotesOf(c[0]) = promised
    BY <1>6, <2>1
  <2>5. BringsBack(c, <<>>)'
    BY <1>1, <2>2, <2>3, <2>4 DEF BringsBack, NotesOf
  <2>6. QED
    BY <2>5
<1>10. \A b \in OpenJournals' : \E c : BringsBack(c, journal[b].undo)'
  BY <1>4, <1>9
<1>11. \E e : Progress(e)'
  <2>0. PICK e : e = [n \in 0..0 |-> promised]
    OBVIOUS
  <2>1. e[0] = promised /\ e \in [0..0 -> [Path -> Cell]]
    BY <2>0 DEF TypeOK
  <2>2. \A p \in Path : disk[Note(p)] = promised[p]
    BY <1>6 DEF NotesOf
  <2>3. Away' = {}
    BY <1>1 DEF Away
  <2>4. Progress(e)'
    BY <1>1, <2>1, <2>2, <2>3 DEF Progress
  <2>5. QED
    BY <2>4
<1>12. LastStep' /\ Forward'
  BY <1>1 DEF LastStep, Forward
<1>13. QED
  BY <1>1, <1>4, <1>5, <1>7, <1>10, <1>11, <1>12 DEF RecoveryInv

(* What holds of the operation under way. *)
LEMMA UnderWay ==
    ASSUME TypeOK, EngineInv, RecoveryInv, Forward, k <= Len(ops)
    PROVE  /\ ops \in Seq(Op) /\ Len(ops) \in Nat /\ k \in 1..Len(ops) /\ k \in 1..MaxOps
           /\ op \in Op /\ op.path \in Path /\ op.to \in Path
           /\ op.kind \in {"write", "delete", "move"}
           /\ op.kind \in {"write", "delete"} => op.to = op.path
           /\ op.kind = "write" => op.content \in Content
           /\ \A i \in k..Len(ops) : i \in 1..Len(ops) /\ ops[i].path \in Path
           /\ \A i \in (k + 1)..Len(ops) :
                /\ op.kind \in {"delete", "move"} /\ ops[i].kind \in {"write", "move"} =>
                     ops[i].path # op.path
                /\ op.kind = "move" /\ ops[i].kind = "move" => ops[i].path # op.to
<1>1. ops \in Batches /\ k \in 1..(Len(ops) + 1)
  BY DEF EngineInv, InBatch
<1>2. ops \in Seq(Op) /\ Len(ops) \in 1..MaxOps /\ DOMAIN ops = 1..Len(ops)
  BY <1>1, BatchFields
<1>3. k \in 1..Len(ops) /\ k \in 1..MaxOps /\ op \in Op
  BY <1>1, <1>2, BoundsAssumption DEF op
<1>4. \A i \in k..Len(ops) : i \in 1..Len(ops) /\ ops[i] \in Op
  BY <1>2, <1>3
<1>5. \A i \in (k + 1)..Len(ops) :
         /\ op.kind \in {"delete", "move"} /\ ops[i].kind \in {"write", "move"} =>
              ops[i].path # op.path
         /\ op.kind = "move" /\ ops[i].kind = "move" => ops[i].path # op.to
  <2>1. Sound(promised, ops)
    BY DEF RecoveryInv
  <2>2. \A i \in (k + 1)..Len(ops) : i \in DOMAIN ops /\ k \in DOMAIN ops /\ k < i
    BY <1>2, <1>3
  <2>3. QED
    BY <2>1, <2>2 DEF Sound, op
<1>6. /\ op.kind \in {"write", "delete"} => op.to = op.path
      /\ op.kind = "write" => op.content \in Content
  BY <1>3 DEF Op, Write, Delete, Move
<1>7. QED
  BY <1>2, <1>3, <1>4, <1>5, <1>6, OpFields, BoundsAssumption

(* The undo step of the operation under way, recorded on disk. *)
LEMMA RecordedRec ==
    ASSUME TypeOK, EngineInv, RecoveryInv, Applying \/ pc = "record",
           NEW s \in UndoStep, NEW next \in {"aside", "land"}, Recorded(s, next),
           \/ s.at \notin Notes /\ ~Exists(disk, s.at)
           \/ s.kind = "remove" /\ s.at = Note(op.to) /\ ~Exists(disk, s.at)
              /\ op.kind = "write" /\ pc = "apply"
           \/ s.kind = "unmove" /\ s.at = Note(op.to) /\ ~Exists(disk, s.at)
              /\ s.home = Note(op.path) /\ op.kind = "move" /\ op.path # op.to,
           next = "aside" => Exists(disk, Note(op.to)) /\ pc = "apply",
           next = "land" =>
               /\ op.kind \in {"write", "move"} => ~Exists(disk, Note(op.to))
               /\ op.kind = "write" => s = DeletePath(op.to)
               /\ op.kind = "move" => s = ReverseMove(op.path, op.to) /\ op.path # op.to
    PROVE  RecoveryInv'
<1>0. Forward /\ k <= Len(ops)
  BY DEF Forward, Applying, EngineInv, InBatch
<1>1. /\ cur \in BatchId /\ OpenJournals = {cur} /\ Pending = {cur}
      /\ journal[cur].undo = undo /\ undo \in Seq(UndoStep)
  BY <1>0, OpenIsCur DEF TypeOK
<1>2. PICK c : BringsBack(c, undo)
  BY <1>1 DEF RecoveryInv
<1>3. /\ Rollback(c, undo, disk) /\ Settled(c, undo) /\ NotesOf(c[0]) = promised
      /\ \A i \in k..Len(ops), j \in 0..Len(undo) :
            /\ ops[i].kind = "write" /\ ops[i].path \notin Away =>
                 (Exists(c[j], Note(ops[i].path)) => Exists(disk, Note(ops[i].path)))
            /\ ops[i].kind = "move" /\ (j < Len(undo) \/ ops[i].path \notin Away) =>
                 Exists(c[j], Note(ops[i].path))
  BY <1>0, <1>2 DEF BringsBack, Ahead
<1>4. Len(undo) \in Nat /\ Len(Append(undo, s)) = Len(undo) + 1 /\ s.at \in Loc /\ s.home \in Loc
  BY <1>1, NotesInLoc DEF UndoStep
<1>5. /\ \A i \in k..Len(ops) : ops[i].path \in Path
      /\ op.path \in Path /\ op.to \in Path /\ k \in k..Len(ops) /\ ops[k] = op
      /\ op.kind = "write" => op.to = op.path
  BY <1>0, UnderWay DEF op
<1>6. \A j \in 0..Len(undo) : ~HasWork(c[j], s)
  <2> TAKE j \in 0..Len(undo)
  <2>1. CASE s.at \notin Notes /\ ~Exists(disk, s.at)
    <3>1. ~Exists(c[j], s.at)
      BY <1>1, <1>3, <1>4, <2>1, OnlyEmptied DEF TypeOK
    <3>2. QED
      BY <3>1 DEF HasWork
  <2>2. CASE s.kind = "remove" /\ s.at = Note(op.to) /\ ~Exists(disk, s.at)
             /\ op.kind = "write" /\ pc = "apply"
    <3>1. Away = {}
      BY <2>2 DEF Away
    <3>2. ~Exists(c[j], s.at)
      BY <1>3, <1>5, <2>2, <3>1
    <3>3. QED
      BY <3>2 DEF HasWork
  <2>3. CASE s.kind = "unmove" /\ s.home = Note(op.path) /\ op.kind = "move" /\ op.path # op.to
    <3>1. op.path \notin Away
      BY <2>3 DEF Away
    <3>2. Exists(c[j], s.home)
      BY <1>3, <1>5, <2>3, <3>1
    <3>3. QED
      BY <2>3, <3>2 DEF HasWork
  <2>4. QED
    BY <2>1, <2>2, <2>3
<1>7. CASE Fail /\ UNCHANGED journal
  <2>1. ~HasWork(disk, s)
    BY <1>3, <1>4, <1>6 DEF Rollback
  <2>2. UNCHANGED <<disk, journal, todo, healthy, promised>> /\ undo' = Append(undo, s)
    BY <1>7 DEF Recorded, recovery
  <2>3. QED
    BY <1>0, <1>7, <2>1, <2>2, FailRec
<1>8. CASE journal' = [journal EXCEPT ![cur].undo = Append(undo, s)]
            /\ pc' = next /\ UNCHANGED <<batch, ok, result>>
  <2>1. /\ UNCHANGED <<disk, cur, ops, k, ok, healthy, todo, promised>>
        /\ undo' = Append(undo, s) /\ pc' = next
    BY <1>8 DEF Recorded, batch, recovery
  <2>2. op' = op /\ Forward'
    BY <2>1 DEF op, Forward
  <2>3. Pending' = {cur} /\ OpenJournals' = {cur} /\ journal'[cur].undo = Append(undo, s)
    BY <1>1, <1>8 DEF Pending, OpenJournals, TypeOK, JournalFile
  <2>4. OneJournal'
    <3>1. \A b \in BatchId, i \in 1..MaxOps : Exists(disk, Backup(b, i)) => b = cur
      BY <1>1 DEF RecoveryInv, OneJournal
    <3>2. ok /\ healthy /\ todo = {}
      BY <1>0 DEF RecoveryInv, OneJournal, Forward
    <3>3. QED
      BY <2>1, <2>3, <3>1, <3>2 DEF OneJournal
  <2>5. LastStep'
    <3>1. Last(undo') = s /\ undo' # <<>>
      BY <1>1, <2>1, AppendLast
    <3>2. QED
      BY <2>1, <2>2, <3>1 DEF LastStep
  <2>6. Away \subseteq Away'
    BY <2>1, <2>2 DEF Away
  <2>7. \E e : Progress(e)'
    <3>1. PICK e : Progress(e)
      BY <1>0 DEF RecoveryInv
    <3>2. \A p \in Away' : disk[Note(p)] = None
      BY <1>0, <2>1, <2>2, UnderWay DEF Away, Exists
    <3>3. Progress(e)'
      BY <2>1, <2>6, <3>1, <3>2 DEF Progress
    <3>4. QED
      BY <3>3
  <2>8. PICK e : /\ Rollback(e, Append(undo, s), disk) /\ Settled(e, Append(undo, s))
                 /\ \A n \in 0..Len(undo) : e[n] = c[n]
                 /\ e[Len(undo) + 1] = disk
    BY <1>1, <1>3, <1>6, Extended DEF TypeOK
  <2>9. Ahead(e)'
    <3> SUFFICES ASSUME NEW i \in k..Len(ops), NEW j \in 0..(Len(undo) + 1)
                 PROVE /\ ops[i].kind = "write" /\ ops[i].path \notin Away' =>
                            (Exists(e[j], Note(ops[i].path)) => Exists(disk, Note(ops[i].path)))
                       /\ ops[i].kind = "move" /\ (j < Len(undo) + 1 \/ ops[i].path \notin Away') =>
                            Exists(e[j], Note(ops[i].path))
      BY <1>4, <2>1 DEF Ahead
    <3>1. c[Len(undo)] = disk
      BY <1>3 DEF Rollback
    <3>2. CASE j = Len(undo) + 1
      BY <1>3, <1>4, <2>6, <2>8, <3>1, <3>2
    <3>3. CASE j \in 0..Len(undo)
      <4>1. e[j] = c[j]
        BY <2>8, <3>3
      <4>2. ops[i].kind = "move" => ops[i].path \notin Away
        <5> SUFFICES ASSUME ops[i].kind = "move", ops[i].path \in Away PROVE FALSE
          OBVIOUS
        <5>1. pc = "record" /\ ops[i].path = op.to /\ op.kind = "move" /\ op.path # op.to
          BY DEF Away, Applying, EngineInv, ReadyToLand
        <5>2. i # k
          BY <5>1 DEF op
        <5>3. i \in (k + 1)..Len(ops)
          BY <1>0, <5>2, UnderWay
        <5>4. QED
          BY <1>0, <5>1, <5>3, UnderWay
      <4>3. QED
        BY <1>3, <2>6, <3>3, <4>1, <4>2
    <3>4. QED
      BY <1>4, <3>2, <3>3
  <2>10. BringsBack(e, undo)'
    <3>1. e[0] = c[0]
      BY <1>4, <2>8
    <3>2. QED
      BY <1>3, <2>1, <2>8, <2>9, <3>1 DEF BringsBack, NotesOf
  <2>11. \A b \in OpenJournals' : \E e2 : BringsBack(e2, journal[b].undo)'
    BY <2>1, <2>3, <2>10
  <2>12. QED
    BY <1>0, <2>1, <2>2, <2>3, <2>4, <2>5, <2>7, <2>11 DEF RecoveryInv
<1>9. QED
  BY <1>7, <1>8 DEF Recorded

(* Each of the four ways apply_op records the step before it mutates keeps *)
(* the invariant.                                                          *)
LEMMA RecordsRec ==
    ASSUME TypeOK, EngineInv, RecoveryInv,
           RecordBackup \/ RecordCreate \/ RecordDelete \/ RecordMove
    PROVE  RecoveryInv'
<1>0. Applying \/ pc = "record"
  BY DEF RecordBackup, RecordCreate, RecordDelete, RecordMove
<1>1. Forward /\ k <= Len(ops)
  BY <1>0 DEF Forward, Applying, EngineInv, InBatch
<1>2. /\ op \in Op /\ op.path \in Path /\ op.to \in Path /\ k \in 1..MaxOps /\ cur \in BatchId
      /\ Note(op.to) \in Loc /\ Note(op.path) \in Loc /\ Backup(cur, k) \in Loc
      /\ op.kind = "write" => op.to = op.path
  BY <1>1, UnderWay, OpenIsCur, NoteInLoc, BackupInLoc
<1>3. CASE RecordBackup
  <2> DEFINE s == Restore(Backup(cur, k), op.to)
  <2>1. s \in UndoStep /\ s.at = Backup(cur, k) /\ s.at \notin Notes
    BY <1>2, StepTypes, NamesDiffer DEF Restore, Notes
  <2>2. ~Exists(disk, s.at) /\ pc = "apply" /\ Exists(disk, Note(op.to))
    BY <1>1, <1>2, <1>3, <2>1 DEF RecordBackup, Applying, EngineInv, InBatch
  <2>3. Recorded(s, "aside")
    BY <1>3 DEF RecordBackup
  <2> HIDE DEF s
  <2>4. QED
    BY <1>0, <2>1, <2>2, <2>3, RecordedRec
<1>4. CASE RecordCreate
  <2> DEFINE s == DeletePath(op.to)
  <2>1. s \in UndoStep /\ s.at = Note(op.to) /\ s.kind = "remove"
    BY <1>2, StepTypes DEF DeletePath
  <2>2. ~Exists(disk, Note(op.to)) /\ pc = "apply" /\ op.kind = "write" /\ Recorded(s, "land")
    BY <1>4 DEF RecordCreate, Applying
  <2>3. s = DeletePath(op.to)
    OBVIOUS
  <2> HIDE DEF s
  <2>4. QED
    BY <1>0, <2>1, <2>2, <2>3, RecordedRec
<1>5. CASE RecordDelete
  <2>1. PICK n \in FreeTrash(op.path) :
          Recorded(Restore(Trash(op.path, n), op.path), "land")
    BY <1>5 DEF RecordDelete
  <2> DEFINE s == Restore(Trash(op.path, n), op.path)
  <2>2. Trash(op.path, n) \in Loc /\ ~Exists(disk, Trash(op.path, n))
    BY <1>2, <2>1, FreeTrashType
  <2>3. s \in UndoStep /\ s.at = Trash(op.path, n) /\ s.at \notin Notes
    BY <1>2, <2>2, StepTypes, NamesDiffer DEF Restore, Notes
  <2>4. op.kind = "delete" /\ Recorded(s, "land")
    BY <1>5, <2>1 DEF RecordDelete
  <2> HIDE DEF s
  <2>5. QED
    BY <1>0, <2>2, <2>3, <2>4, RecordedRec
<1>6. CASE RecordMove
  <2> DEFINE s == ReverseMove(op.path, op.to)
  <2>1. s \in UndoStep /\ s.at = Note(op.to) /\ s.home = Note(op.path) /\ s.kind = "unmove"
    BY <1>2, StepTypes DEF ReverseMove
  <2>2. op.kind = "move" /\ op.path # op.to /\ ~Exists(disk, Note(op.to)) /\ Recorded(s, "land")
    BY <1>6 DEF RecordMove, EngineInv, ReadyToLand
  <2>3. s = ReverseMove(op.path, op.to)
    OBVIOUS
  <2> HIDE DEF s
  <2>4. QED
    BY <1>0, <2>1, <2>2, <2>3, RecordedRec
<1>7. QED
  BY <1>3, <1>4, <1>5, <1>6

(* A rename taken back by the rename the other way. *)
LEMMA RenamedBack ==
    ASSUME NEW d \in [Loc -> Cell], NEW from \in Loc, NEW to \in Loc, from # to, d[to] = None
    PROVE  Rename(Rename(d, from, to), to, from) = d
BY DEF Rename

(* The notes apart from one another and from the backups. *)
LEMMA NotesApart ==
    /\ \A x, y \in Path : x # y => Note(x) # Note(y)
    /\ \A x \in Path, b \in BatchId, i \in 1..MaxOps : Note(x) # Backup(b, i)
    /\ \A x, y \in Path, n \in 0..MaxTrash : Note(x) # Trash(y, n)
BY DEF Note, Backup, Trash

(* The original moved to its backup slot is what the recorded step brings  *)
(* home.                                                                   *)
LEMMA SetAsideRec ==
    ASSUME TypeOK, EngineInv, RecoveryInv, SetAside
    PROVE  RecoveryInv'
<1>0. pc = "aside" /\ Forward /\ k <= Len(ops)
  BY DEF SetAside, Forward, EngineInv, InBatch
<1>1. /\ cur \in BatchId /\ OpenJournals = {cur} /\ Pending = {cur}
      /\ journal[cur].undo = undo /\ undo \in Seq(UndoStep)
  BY <1>0, OpenIsCur DEF TypeOK
<1>2. /\ op \in Op /\ op.path \in Path /\ op.to \in Path /\ k \in 1..MaxOps
      /\ Note(op.to) \in Loc /\ Note(op.path) \in Loc /\ Backup(cur, k) \in Loc
      /\ Note(op.to) # Backup(cur, k)
      /\ \A i \in k..Len(ops) : ops[i].path \in Path
  BY <1>0, <1>1, UnderWay, NoteInLoc, BackupInLoc, NamesDiffer
<1>3. /\ op.kind \in {"write", "move"} /\ undo # <<>>
      /\ Last(undo) = Restore(Backup(cur, k), op.to)
      /\ disk[Backup(cur, k)] = None /\ disk[Note(op.to)] # None
  BY <1>0, <1>2 DEF EngineInv, ReadyToSetAside, InBatch, RecoveryInv, LastStep, Exists
<1>4. /\ UNCHANGED <<journal, cur, ops, k, undo, ok, healthy, todo, promised>>
      /\ disk' = Rename(disk, Note(op.to), Backup(cur, k))
      /\ pc' = (IF op.kind = "write" THEN "land" ELSE "record")
      /\ op' = op /\ Forward'
  BY DEF SetAside, batch, recovery, Forward, op
<1>5. /\ disk'[Note(op.to)] = None /\ disk'[Backup(cur, k)] # None
      /\ \A l \in Loc : l # Note(op.to) /\ l # Backup(cur, k) => disk'[l] = disk[l]
      /\ disk' \in [Loc -> Cell]
  BY <1>2, <1>3, <1>4, RenameType DEF Rename, TypeOK
<1>6. Away = {} /\ Away' = {op.to}
  BY <1>0, <1>3, <1>4 DEF Away
<1>7. PICK c : BringsBack(c, undo)
  BY <1>1 DEF RecoveryInv
<1>8. /\ Rollback(c, undo, disk) /\ Settled(c, undo) /\ NotesOf(c[0]) = promised /\ Ahead(c)
  BY <1>0, <1>7 DEF BringsBack
<1>9. PICK s \in UndoStep : s = undo[Len(undo)] /\ s = Restore(Backup(cur, k), op.to)
  BY <1>1, <1>3 DEF Last
<1>10. Len(undo) \in 1..Len(undo) /\ Len(undo) \in Nat
  BY <1>1, <1>3
<1>11. Replay(s, disk') = disk
  <2>1. HasWork(disk', s) /\ s.at = Backup(cur, k) /\ s.home = Note(op.to) /\ s.kind = "restore"
    BY <1>5, <1>9 DEF HasWork, Restore, Exists
  <2>2. Replay(s, disk') = Rename(disk', Backup(cur, k), Note(op.to))
    BY <2>1 DEF Replay
  <2>3. QED
    BY <1>2, <1>3, <1>4, <2>2, RenamedBack DEF TypeOK
<1>12. c[Len(undo) - 1] = disk
  <2>1. c[Len(undo) - 1] = Replay(s, c[Len(undo)]) /\ c[Len(undo)] = disk
    BY <1>8, <1>9, <1>10 DEF Rollback
  <2>2. ~HasWork(disk, s)
    BY <1>3, <1>9 DEF HasWork, Restore, Exists
  <2>3. QED
    BY <2>1, <2>2, IdleReplay
<1>13. PICK x \in [Loc -> Cell] : x = disk'
  BY <1>5
<1>14. PICK e : /\ Rollback(e, undo, x) /\ Settled(e, undo)
                /\ \A n \in 0..(Len(undo) - 1) : e[n] = c[n]
                /\ e[Len(undo)] = x
  <2>1. Replay(undo[Len(undo)], x) = c[Len(undo) - 1]
    BY <1>9, <1>11, <1>12, <1>13
  <2>2. QED
    BY <1>1, <1>3, <1>8, <2>1, Advanced DEF TypeOK
<1>15. Ahead(e)'
  <2> SUFFICES ASSUME NEW i \in k..Len(ops), NEW j \in 0..Len(undo)
               PROVE /\ ops[i].kind = "write" /\ ops[i].path # op.to =>
                          (Exists(e[j], Note(ops[i].path)) => Exists(disk', Note(ops[i].path)))
                     /\ ops[i].kind = "move" /\ (j < Len(undo) \/ ops[i].path # op.to) =>
                          Exists(e[j], Note(ops[i].path))
    BY <1>4, <1>6 DEF Ahead
  <2>1. /\ ops[i].kind = "write" =>
             (Exists(c[j], Note(ops[i].path)) => Exists(disk, Note(ops[i].path)))
        /\ ops[i].kind = "move" => Exists(c[j], Note(ops[i].path))
    BY <1>6, <1>8 DEF Ahead
  <2>2. ops[i].path # op.to => disk'[Note(ops[i].path)] = disk[Note(ops[i].path)]
    BY <1>1, <1>2, <1>5, NoteInLoc, NotesApart
  <2>3. CASE j = Len(undo)
    <3>1. e[j] = disk' /\ c[j] = disk
      BY <1>8, <1>13, <1>14, <2>3 DEF Rollback
    <3>2. QED
      BY <2>1, <2>2, <2>3, <3>1 DEF Exists
  <2>4. CASE j # Len(undo)
    <3>1. e[j] = c[j]
      BY <1>10, <1>14, <2>4
    <3>2. QED
      BY <2>1, <2>2, <3>1 DEF Exists
  <2>5. QED
    BY <2>3, <2>4
<1>16. BringsBack(e, undo)'
  <2>1. e[0] = c[0]
    BY <1>10, <1>14
  <2>2. QED
    BY <1>4, <1>8, <1>13, <1>14, <1>15, <2>1 DEF BringsBack, NotesOf, Forward
<1>17. OpenJournals' = {cur} /\ Pending' = {cur} /\ cur' = cur /\ journal'[cur].undo = undo'
  BY <1>1, <1>4 DEF OpenJournals, Pending
<1>18. OneJournal'
  <2>1. \A b \in BatchId, i \in 1..MaxOps : Exists(disk, Backup(b, i)) => b = cur
    BY <1>1 DEF RecoveryInv, OneJournal
  <2>2. \A b \in BatchId, i \in 1..MaxOps : Exists(disk', Backup(b, i)) => b = cur
    BY <1>5, <2>1, BackupInLoc, NamesDiffer DEF Exists
  <2>3. ok /\ healthy /\ todo = {}
    BY <1>0 DEF RecoveryInv, OneJournal
  <2>4. QED
    BY <1>4, <1>17, <2>2, <2>3 DEF OneJournal
<1>19. LastStep'
  BY <1>3, <1>4, <1>5 DEF LastStep, Exists
<1>20. \E e2 : Progress(e2)'
  <2>1. PICK e2 : Progress(e2)
    BY <1>0 DEF RecoveryInv
  <2>2. \A p \in Path : p # op.to => disk'[Note(p)] = disk[Note(p)]
    BY <1>1, <1>2, <1>5, NoteInLoc, NotesApart
  <2>3. Progress(e2)'
    BY <1>4, <1>5, <1>6, <2>1, <2>2 DEF Progress
  <2>4. QED
    BY <2>3
<1>21. \A b \in OpenJournals' : \E e2 : BringsBack(e2, journal[b].undo)'
  BY <1>16, <1>17
<1>22. Sound(promised', ops')
  BY <1>0, <1>4 DEF RecoveryInv
<1>23. QED
  BY <1>4, <1>17, <1>18, <1>19, <1>20, <1>21, <1>22 DEF RecoveryInv

(* What the mutation of the operation under way leaves behind, and that    *)
(* the step recorded last takes it back.                                   *)
LEMMA LandUndone ==
    ASSUME TypeOK, EngineInv, RecoveryInv, Land, undo # <<>>, NEW s \in UndoStep, s = Last(undo)
    PROVE  /\ disk' \in [Loc -> Cell]
           /\ Replay(s, disk') = Replay(s, disk)
<1>0. pc = "land" /\ Forward /\ k <= Len(ops)
  BY DEF Land, Forward, EngineInv, InBatch
<1>1. cur \in BatchId /\ undo \in Seq(UndoStep)
  BY <1>0, OpenIsCur DEF TypeOK
<1>2. /\ op \in Op /\ op.path \in Path /\ op.to \in Path /\ k \in 1..MaxOps
      /\ Note(op.to) \in Loc /\ Note(op.path) \in Loc /\ Backup(cur, k) \in Loc
      /\ Note(op.to) # Backup(cur, k)
      /\ op.kind \in {"write", "delete"} => op.to = op.path
      /\ op.kind = "write" => op.content \in Content
  BY <1>0, <1>1, UnderWay, NoteInLoc, BackupInLoc, NotesApart
<1>3. CASE op.kind = "write"
  <2>1. disk' = [disk EXCEPT ![Note(op.to)] = op.content] /\ disk[Note(op.to)] = None
    BY <1>0, <1>3 DEF Land, EngineInv, ReadyToLand, Exists
  <2>2. op.content \in Cell /\ op.content # None
    BY <1>2, <1>3, NoneAssumption DEF Cell
  <2>3. disk' \in [Loc -> Cell]
    BY <2>1, <2>2 DEF TypeOK
  <2>4. CASE s = DeletePath(op.to)
    <3>1. s.kind = "remove" /\ s.at = Note(op.to) /\ HasWork(disk', s) /\ ~HasWork(disk, s)
      BY <1>2, <2>1, <2>2, <2>4 DEF DeletePath, HasWork, Exists, TypeOK
    <3>2. Replay(s, disk') = [disk' EXCEPT ![Note(op.to)] = None]
      BY <3>1 DEF Replay
    <3>3. [disk' EXCEPT ![Note(op.to)] = None] = disk
      BY <1>2, <2>1 DEF TypeOK
    <3>4. QED
      BY <2>3, <3>1, <3>2, <3>3, IdleReplay
  <2>5. CASE s = Restore(Backup(cur, k), op.to) /\ Exists(disk, Backup(cur, k))
    <3>1. /\ s.kind = "restore" /\ s.at = Backup(cur, k) /\ s.home = Note(op.to)
          /\ HasWork(disk', s) /\ HasWork(disk, s)
      BY <1>2, <2>1, <2>5 DEF Restore, HasWork, Exists, TypeOK
    <3>2. /\ Replay(s, disk') = Rename(disk', Backup(cur, k), Note(op.to))
          /\ Replay(s, disk) = Rename(disk, Backup(cur, k), Note(op.to))
      BY <3>1 DEF Replay
    <3>3. Rename(disk', Backup(cur, k), Note(op.to)) = Rename(disk, Backup(cur, k), Note(op.to))
      BY <1>2, <2>1 DEF Rename, TypeOK
    <3>4. QED
      BY <2>3, <3>2, <3>3
  <2>6. QED
    BY <1>0, <1>3, <2>4, <2>5 DEF RecoveryInv, LastStep
<1>4. CASE op.kind = "delete"
  <2>1. PICK n \in 0..MaxTrash : /\ s = Restore(Trash(op.path, n), op.path)
                                 /\ ~Exists(disk, Trash(op.path, n))
    BY <1>0, <1>4 DEF EngineInv, ReadyToLand
  <2> DEFINE t == Trash(op.path, n)
  <2>2. t \in Loc /\ Note(op.path) # t /\ disk[t] = None
    BY <1>2, <2>1, TrashInLoc, NotesApart DEF Exists
  <2>3. s.kind = "restore" /\ s.at = t /\ s.home = Note(op.path)
    BY <2>1 DEF Restore
  <2> HIDE DEF t
  <2>4. disk' = Rename(disk, Note(op.path), t)
    BY <1>4, <2>3 DEF Land
  <2>5. disk' \in [Loc -> Cell] /\ disk'[t] = disk[Note(op.path)]
    BY <1>2, <2>2, <2>4, RenameType DEF Rename, TypeOK
  <2>6. ~HasWork(disk, s)
    BY <2>2, <2>3 DEF HasWork, Exists
  <2>7. CASE disk[Note(op.path)] = None
    <3>1. disk' = disk
      BY <1>2, <2>2, <2>4, <2>7 DEF Rename, TypeOK
    <3>2. QED
      BY <2>5, <3>1
  <2>8. CASE disk[Note(op.path)] # None
    <3>1. HasWork(disk', s)
      BY <2>3, <2>5, <2>8 DEF HasWork, Exists
    <3>2. Replay(s, disk') = Rename(disk', t, Note(op.path))
      BY <2>3, <3>1 DEF Replay
    <3>3. Replay(s, disk') = disk
      BY <1>2, <2>2, <2>4, <3>2, RenamedBack DEF TypeOK
    <3>4. QED
      BY <2>5, <2>6, <3>3, IdleReplay
  <2>9. QED
    BY <2>7, <2>8
<1>5. CASE op.kind = "move"
  <2>1. /\ disk' = Rename(disk, Note(op.path), Note(op.to)) /\ disk[Note(op.path)] # None
        /\ disk[Note(op.to)] = None /\ op.path # op.to
    BY <1>0, <1>5 DEF Land, EngineInv, ReadyToLand, Exists
  <2>2. s.kind = "unmove" /\ s.at = Note(op.to) /\ s.home = Note(op.path)
    BY <1>0, <1>5 DEF RecoveryInv, LastStep, ReverseMove
  <2>3. Note(op.path) # Note(op.to)
    BY <1>2, <2>1, NotesApart
  <2>4. /\ disk' \in [Loc -> Cell] /\ disk'[Note(op.to)] = disk[Note(op.path)]
        /\ disk'[Note(op.path)] = None
    BY <1>2, <2>1, <2>3, RenameType DEF Rename, TypeOK
  <2>5. HasWork(disk', s) /\ ~HasWork(disk, s)
    BY <2>1, <2>2, <2>4 DEF HasWork, Exists
  <2>6. Replay(s, disk') = Rename(disk', Note(op.to), Note(op.path))
    BY <2>2, <2>5 DEF Replay
  <2>7. Replay(s, disk') = disk
    BY <1>2, <2>1, <2>3, <2>6, RenamedBack DEF TypeOK
  <2>8. QED
    BY <2>4, <2>5, <2>7, IdleReplay
<1>6. QED
  BY <1>0, <1>3, <1>4, <1>5, UnderWay

(* What the mutation does to the notes. *)
LEMMA LandNotes ==
    ASSUME TypeOK, EngineInv, RecoveryInv, Land
    PROVE  /\ \A x \in Path : x # op.path /\ x # op.to => disk'[Note(x)] = disk[Note(x)]
           /\ op.kind = "write" => disk'[Note(op.to)] = op.content /\ op.content # None
           /\ op.kind = "delete" => disk'[Note(op.to)] = None
           /\ op.kind = "move" => /\ disk'[Note(op.path)] = None
                                  /\ disk'[Note(op.to)] = disk[Note(op.path)]
                                  /\ disk[Note(op.path)] # None
                                  /\ op.path # op.to
<1>0. pc = "land" /\ Forward /\ k <= Len(ops)
  BY DEF Land, Forward, EngineInv, InBatch
<1>1. /\ op.path \in Path /\ op.to \in Path
      /\ Note(op.to) \in Loc /\ Note(op.path) \in Loc
      /\ op.kind \in {"write", "delete"} => op.to = op.path
      /\ op.kind = "write" => op.content \in Content
      /\ \A x \in Path : Note(x) \in Loc
  BY <1>0, UnderWay, NoteInLoc
<1>2. CASE op.kind = "write"
  <2>1. disk' = [disk EXCEPT ![Note(op.to)] = op.content] /\ op.content # None
    BY <1>1, <1>2, NoneAssumption DEF Land
  <2>2. QED
    BY <1>1, <1>2, <2>1, NotesApart DEF TypeOK
<1>3. CASE op.kind = "delete"
  <2>1. PICK n \in 0..MaxTrash : Last(undo) = Restore(Trash(op.path, n), op.path)
    BY <1>0, <1>3 DEF EngineInv, ReadyToLand
  <2>2. disk' = Rename(disk, Note(op.path), Trash(op.path, n))
    BY <1>3, <2>1 DEF Land, Restore
  <2>3. Trash(op.path, n) \in Loc /\ \A x \in Path : Note(x) # Trash(op.path, n)
    BY <1>1, TrashInLoc, NotesApart
  <2>4. QED
    BY <1>1, <1>3, <2>2, <2>3, NotesApart DEF Rename, TypeOK
<1>4. CASE op.kind = "move"
  <2>1. /\ disk' = Rename(disk, Note(op.path), Note(op.to)) /\ disk[Note(op.path)] # None
        /\ op.path # op.to
    BY <1>0, <1>4 DEF Land, EngineInv, ReadyToLand, Exists
  <2>2. QED
    BY <1>1, <1>4, <2>1, NotesApart DEF Rename, TypeOK
<1>5. QED
  BY <1>0, <1>2, <1>3, <1>4, UnderWay

(* No mutation fills a backup slot. *)
LEMMA LandBackups ==
    ASSUME TypeOK, EngineInv, RecoveryInv, Land, NEW b \in BatchId, NEW i \in 1..MaxOps
    PROVE  Exists(disk', Backup(b, i)) => Exists(disk, Backup(b, i))
<1> SUFFICES ASSUME Exists(disk', Backup(b, i)) PROVE Exists(disk, Backup(b, i))
  OBVIOUS
<1>0. pc = "land" /\ Forward /\ k <= Len(ops)
  BY DEF Land, Forward, EngineInv, InBatch
<1>1. op.path \in Path /\ op.to \in Path /\ Note(op.path) \in Loc /\ Note(op.to) \in Loc
  BY <1>0, UnderWay, NoteInLoc
<1>2. Backup(b, i) \in Loc /\ Note(op.to) # Backup(b, i)
  BY <1>1, BackupInLoc, NotesApart
<1>3. CASE disk' = [disk EXCEPT ![Note(op.to)] = op.content]
  BY <1>1, <1>2, <1>3 DEF Exists, TypeOK
<1>4. CASE op.kind = "delete" /\ disk' = Rename(disk, Note(op.path), Last(undo).at)
  <2>1. PICK n \in 0..MaxTrash : Last(undo) = Restore(Trash(op.path, n), op.path)
    BY <1>0, <1>4 DEF EngineInv, ReadyToLand
  <2>2. Last(undo).at = Trash(op.path, n) /\ Trash(op.path, n) \in Loc
        /\ Trash(op.path, n) # Backup(b, i)
    BY <1>1, <2>1, TrashInLoc DEF Restore, Trash, Backup
  <2>3. QED
    BY <1>1, <1>4, <2>2, RenameBackups
<1>5. CASE disk' = Rename(disk, Note(op.path), Note(op.to))
  BY <1>1, <1>2, <1>5, RenameBackups
<1>6. QED
  BY <1>3, <1>4, <1>5 DEF Land

(* A mutation that lands is one more operation done, and one more the      *)
(* recorded steps take back.                                               *)
LEMMA LandRec ==
    ASSUME TypeOK, EngineInv, RecoveryInv, Land
    PROVE  RecoveryInv'
<1>0. pc = "land" /\ Forward /\ k <= Len(ops)
  BY DEF Land, Forward, EngineInv, InBatch
<1>1. /\ cur \in BatchId /\ OpenJournals = {cur} /\ Pending = {cur}
      /\ journal[cur].undo = undo /\ undo \in Seq(UndoStep)
  BY <1>0, OpenIsCur DEF TypeOK
<1>2. /\ op.path \in Path /\ op.to \in Path /\ k \in Nat /\ k >= 1 /\ ops[k] = op
      /\ Len(ops) \in Nat /\ op.kind \in {"write", "delete", "move"}
      /\ op.kind \in {"write", "delete"} => op.to = op.path
      /\ \A i \in (k + 1)..Len(ops) :
            /\ i \in k..Len(ops) /\ ops[i].path \in Path
            /\ op.kind \in {"delete", "move"} /\ ops[i].kind \in {"write", "move"} =>
                 ops[i].path # op.path
            /\ op.kind = "move" /\ ops[i].kind = "move" => ops[i].path # op.to
  BY <1>0, UnderWay DEF op
<1>3. /\ UNCHANGED <<journal, cur, ops, undo, ok, healthy, todo, promised>>
      /\ pc' = "apply" /\ k' = k + 1 /\ Forward' /\ Away' = {}
  BY DEF Land, recovery, Forward, Away
<1>4. undo # <<>>
  BY <1>0, <1>2 DEF RecoveryInv, LastStep, EngineInv, ReadyToLand
<1>5. PICK s \in UndoStep : s = undo[Len(undo)] /\ s = Last(undo)
  BY <1>1, <1>4 DEF Last
<1>6. disk' \in [Loc -> Cell] /\ Replay(s, disk') = Replay(s, disk)
  BY <1>4, <1>5, LandUndone
<1>7. PICK c : BringsBack(c, undo)
  BY <1>1 DEF RecoveryInv
<1>8. /\ Rollback(c, undo, disk) /\ Settled(c, undo) /\ NotesOf(c[0]) = promised /\ Ahead(c)
  BY <1>0, <1>7 DEF BringsBack
<1>9. Len(undo) \in 1..Len(undo) /\ Len(undo) \in Nat
  BY <1>1, <1>4
<1>10. c[Len(undo) - 1] = Replay(s, disk) /\ c[Len(undo)] = disk
  BY <1>5, <1>8, <1>9 DEF Rollback
<1>11. PICK x \in [Loc -> Cell] : x = disk'
  BY <1>6
<1>12. PICK e : /\ Rollback(e, undo, x) /\ Settled(e, undo)
                /\ \A n \in 0..(Len(undo) - 1) : e[n] = c[n]
                /\ e[Len(undo)] = x
  <2>1. Replay(undo[Len(undo)], x) = c[Len(undo) - 1]
    BY <1>5, <1>6, <1>10, <1>11
  <2>2. undo \in Seq(UndoStep) /\ disk \in [Loc -> Cell] /\ x \in [Loc -> Cell]
    BY <1>1, <1>11 DEF TypeOK
  <2>3. QED
    BY <1>4, <1>8, <2>1, <2>2, Advanced
<1>13. Ahead(e)'
  <2> SUFFICES ASSUME NEW i \in (k + 1)..Len(ops), NEW j \in 0..Len(undo)
               PROVE /\ ops[i].kind = "write" =>
                          (Exists(e[j], Note(ops[i].path)) => Exists(disk', Note(ops[i].path)))
                     /\ ops[i].kind = "move" => Exists(e[j], Note(ops[i].path))
    BY <1>3 DEF Ahead
  <2>1. /\ i \in k..Len(ops) /\ ops[i].path \in Path
        /\ op.kind \in {"delete", "move"} /\ ops[i].kind \in {"write", "move"} =>
                 ops[i].path # op.path
        /\ op.kind = "move" /\ ops[i].kind = "move" => ops[i].path # op.to
    BY <1>2
  <2>2. \A m \in 0..Len(undo) :
          /\ ops[i].kind = "write" /\ ops[i].path \notin Away =>
               (Exists(c[m], Note(ops[i].path)) => Exists(disk, Note(ops[i].path)))
          /\ ops[i].kind = "move" /\ (m < Len(undo) \/ ops[i].path \notin Away) =>
               Exists(c[m], Note(ops[i].path))
    BY <1>8, <2>1 DEF Ahead
  <2>3. ops[i].path \in Away => op.kind \in {"write", "move"} /\ ops[i].path = op.to
    BY <1>2 DEF Away
  <2>4. op.kind \in {"write", "move"} => Exists(disk', Note(op.to))
    BY LandNotes DEF Exists
  <2>5. ops[i].kind \in {"write", "move"} /\ Exists(disk, Note(ops[i].path)) =>
          Exists(disk', Note(ops[i].path))
    BY <1>2, <2>1, <2>4, LandNotes DEF Exists
  <2>6. CASE j = Len(undo)
    <3>1. e[j] = disk'
      BY <1>11, <1>12, <2>6
    <3>2. Exists(c[j], Note(ops[i].path)) => Exists(disk, Note(ops[i].path))
      BY <1>10, <2>6
    <3>3. QED
      BY <2>2, <2>3, <2>4, <2>5, <3>1, <3>2
  <2>7. CASE j # Len(undo)
    <3>1. e[j] = c[j] /\ j < Len(undo)
      BY <1>9, <1>12, <2>7
    <3>2. QED
      BY <2>2, <2>3, <2>4, <2>5, <3>1
  <2>8. QED
    BY <2>6, <2>7
<1>14. BringsBack(e, undo)'
  <2>1. e[0] = c[0]
    BY <1>9, <1>12
  <2>2. QED
    BY <1>3, <1>8, <1>11, <1>12, <1>13, <2>1 DEF BringsBack, NotesOf
<1>15. OpenJournals' = {cur} /\ Pending' = {cur} /\ cur' = cur /\ journal'[cur].undo = undo'
  BY <1>1, <1>3 DEF OpenJournals, Pending
<1>16. OneJournal'
  <2>1. \A b \in BatchId, i \in 1..MaxOps : Exists(disk, Backup(b, i)) => b = cur
    BY <1>1 DEF RecoveryInv, OneJournal
  <2>2. \A b \in BatchId, i \in 1..MaxOps : Exists(disk', Backup(b, i)) => Exists(disk, Backup(b, i))
    BY LandBackups
  <2>3. ok /\ healthy /\ todo = {}
    BY <1>0 DEF RecoveryInv, OneJournal
  <2>4. QED
    BY <1>3, <1>15, <2>1, <2>2, <2>3 DEF OneJournal
<1>17. LastStep'
  BY <1>3 DEF LastStep
<1>18. \E e2 : Progress(e2)'
  <2>1. PICK f : Progress(f)
    BY <1>0 DEF RecoveryInv
  <2>2. /\ f \in [0..(k - 1) -> [Path -> Cell]] /\ f[0] = promised
        /\ \A n \in 1..(k - 1) : f[n] = ApplyOp(f[n - 1], ops[n])
        /\ \A x2 \in Path : disk[Note(x2)] = IF x2 \in Away THEN None ELSE f[k - 1][x2]
    BY <2>1 DEF Progress
  <2>3. PICK y : y = [x2 \in Path |-> disk'[Note(x2)]]
    OBVIOUS
  <2>4. y \in [Path -> Cell]
    BY <1>6, <2>3, NoteInLoc
  <2>5. f[k - 1] \in [Path -> Cell] /\ k - 1 \in 0..(k - 1)
    BY <1>2, <2>2
  <2>6. \A x2 \in Path : x2 # op.path /\ x2 # op.to => y[x2] = f[k - 1][x2]
    BY <2>2, <2>3, LandNotes DEF Away
  <2>7. ApplyOp(f[k - 1], op) = y
    <3>1. CASE op.kind = "write"
      <4>1. y[op.to] = op.content
        BY <1>2, <2>3, <3>1, LandNotes
      <4>2. ApplyOp(f[k - 1], op) = [f[k - 1] EXCEPT ![op.path] = op.content]
        BY <3>1 DEF ApplyOp
      <4>3. QED
        BY <1>2, <2>4, <2>5, <2>6, <3>1, <4>1, <4>2
    <3>2. CASE op.kind = "delete"
      <4>1. y[op.to] = None
        BY <1>2, <2>3, <3>2, LandNotes
      <4>2. ApplyOp(f[k - 1], op) = [f[k - 1] EXCEPT ![op.path] = None]
        BY <3>2 DEF ApplyOp
      <4>3. QED
        BY <1>2, <2>4, <2>5, <2>6, <3>2, <4>1, <4>2
    <3>3. CASE op.kind = "move"
      <4>1. /\ y[op.path] = None /\ y[op.to] = disk[Note(op.path)] /\ op.path # op.to
        BY <1>2, <2>3, <3>3, LandNotes
      <4>2. disk[Note(op.path)] = f[k - 1][op.path]
        BY <1>2, <2>2, <4>1 DEF Away
      <4>3. ApplyOp(f[k - 1], op)
              = [f[k - 1] EXCEPT ![op.to] = f[k - 1][op.path], ![op.path] = None]
        BY <3>3 DEF ApplyOp
      <4>4. QED
        BY <1>2, <2>4, <2>5, <2>6, <4>1, <4>2, <4>3
    <3>4. QED
      BY <1>2, <3>1, <3>2, <3>3
  <2>8. PICK g : g = [n \in 0..k |-> IF n < k THEN f[n] ELSE y]
    OBVIOUS
  <2>9. /\ g \in [0..k -> [Path -> Cell]] /\ g[k] = y
        /\ \A n \in 0..(k - 1) : g[n] = f[n]
    BY <1>2, <2>2, <2>4, <2>8
  <2>10. ASSUME NEW n \in 1..k PROVE g[n] = ApplyOp(g[n - 1], ops[n])
    <3>1. CASE n = k
      <4>1. g[n - 1] = f[k - 1]
        BY <2>5, <2>9, <3>1
      <4>2. QED
        BY <1>2, <2>7, <2>9, <3>1, <4>1
    <3>2. CASE n # k
      <4>1. n \in 1..(k - 1) /\ n \in 0..(k - 1) /\ n - 1 \in 0..(k - 1)
        BY <1>2, <3>2
      <4>2. QED
        BY <2>2, <2>9, <4>1
    <3>3. QED
      BY <3>1, <3>2
  <2>11. g[0] = promised /\ k' - 1 = k
    BY <1>2, <1>3, <2>2, <2>9
  <2>12. \A x2 \in Path : disk'[Note(x2)] = g[k][x2]
    BY <2>3, <2>9
  <2>13. Progress(g)'
    BY <1>3, <2>9, <2>10, <2>11, <2>12 DEF Progress
  <2>14. QED
    BY <2>13
<1>19. \A b \in OpenJournals' : \E e2 : BringsBack(e2, journal[b].undo)'
  BY <1>14, <1>15
<1>20. Sound(promised', ops')
  BY <1>0, <1>3 DEF RecoveryInv
<1>21. QED
  BY <1>3, <1>15, <1>16, <1>17, <1>18, <1>19, <1>20 DEF RecoveryInv

(* The commit point settles what is promised. *)
LEMMA CommitRec ==
    ASSUME TypeOK, EngineInv, RecoveryInv, Commit
    PROVE  RecoveryInv'
<1>0. pc = "apply" /\ Forward
  BY DEF Commit, Finished, Forward
<1>1. cur \in BatchId /\ OpenJournals = {cur} /\ Pending = {cur}
  BY <1>0, OpenIsCur
<1>2. /\ journal' = [journal EXCEPT ![cur].state = "committed"]
      /\ pc' = "clean" /\ ops' = <<>> /\ promised' = Vault
      /\ UNCHANGED <<disk, cur, ok, healthy, todo>>
  BY DEF Commit, recovery
<1>3. OpenJournals' = {} /\ Pending' = {cur}
  BY <1>1, <1>2 DEF OpenJournals, Pending, TypeOK, JournalFile
<1>4. OneJournal'
  <2>1. \A b \in BatchId, i \in 1..MaxOps : Exists(disk, Backup(b, i)) => b = cur
    BY <1>1 DEF RecoveryInv, OneJournal
  <2>2. ok /\ healthy /\ todo = {}
    BY <1>0 DEF RecoveryInv, OneJournal
  <2>3. QED
    BY <1>1, <1>2, <1>3, <2>1, <2>2 DEF OneJournal, Forward
<1>5. NotesOf(disk)' = promised'
  BY <1>2 DEF NotesOf, Vault
<1>6. QED
  BY <1>2, <1>3, <1>4, <1>5, OffForward DEF Forward

(* One step of the rollback: what is left of it still brings back the      *)
(* promised notes, and so does all of it.                                  *)
LEMMA UndoOneRec ==
    ASSUME RecoveryUndisturbed, TypeOK, EngineInv, RecoveryInv, UndoOne
    PROVE  RecoveryInv'
<1>0. pc = "undo" /\ undo # <<>> /\ undo' = Front(undo)
  BY DEF UndoOne
<1>1. PICK u \in Seq(UndoStep) : /\ cur \in BatchId /\ OpenJournals = {cur} /\ Pending = {cur}
                                 /\ journal[cur].undo = u
  BY <1>0, OpenIsCur
<1>2. /\ disk' = Replay(Last(undo), disk)
      /\ UNCHANGED <<journal, pc, cur, ops, k, ok, healthy, todo, promised>>
  BY DEF UndoOne, RecoveryUndisturbed, May, recovery, batch
<1>3. PICK c : BringsBack(c, u)
  BY <1>1 DEF RecoveryInv
<1>4. /\ Rollback(c, u, disk) /\ Settled(c, u) /\ NotesOf(c[0]) = promised
      /\ Unwinding(c, u, disk, undo)
  BY <1>0, <1>3 DEF BringsBack
<1>5. Len(u) \in Nat /\ DOMAIN u = 1..Len(u)
  OBVIOUS
<1>6. \E e : /\ Rollback(e, u, disk') /\ Settled(e, u) /\ e[0] = c[0]
             /\ Unwinding(e, u, disk', undo')
  <2>1. CASE \E n \in 0..Len(u) : undo = SubSeq(u, 1, n) /\ \A m \in n..Len(u) : c[m] = disk
    <3>1. PICK n \in 0..Len(u) : undo = SubSeq(u, 1, n) /\ \A m \in n..Len(u) : c[m] = disk
      BY <2>1
    <3>2. n # 0 /\ n \in 1..Len(u) /\ n - 1 \in 0..Len(u)
      BY <1>0, <1>5, <3>1
    <3>3. Last(undo) = u[n] /\ Front(undo) = SubSeq(u, 1, n - 1)
      <4>1. Len(undo) = n /\ \A m \in 1..n : undo[m] = u[m]
        BY <1>5, <3>1, <3>2
      <4>2. Front(undo) = [m \in 1..(n - 1) |-> undo[m]]
        BY <3>2, <4>1 DEF Front
      <4>3. SubSeq(u, 1, n - 1) = [m \in 1..(n - 1) |-> u[m]]
        BY <1>5, <3>2
      <4>4. QED
        BY <3>2, <4>1, <4>2, <4>3 DEF Last
    <3>4. PICK e : /\ Rollback(e, u, Replay(u[n], disk)) /\ Settled(e, u) /\ e[0] = c[0]
                   /\ \A m \in (n - 1)..Len(u) : e[m] = Replay(u[n], disk)
      BY <1>4, <3>1, <3>2, Retreated DEF TypeOK
    <3>5. Unwinding(e, u, disk', undo')
      BY <1>0, <1>2, <3>2, <3>3, <3>4 DEF Unwinding
    <3>6. QED
      BY <1>2, <3>3, <3>4, <3>5
  <2>2. CASE \E s \in UndoStep : undo = Append(u, s) /\ ~HasWork(disk, s)
    <3>1. PICK s \in UndoStep : undo = Append(u, s) /\ ~HasWork(disk, s)
      BY <2>2
    <3>2. Last(undo) = s /\ Front(undo) = u
      <4>1. Len(undo) = Len(u) + 1 /\ undo[Len(u) + 1] = s /\ \A m \in 1..Len(u) : undo[m] = u[m]
        BY <3>1
      <4>2. Front(undo) = [m \in 1..Len(u) |-> undo[m]]
        BY <1>5, <4>1 DEF Front
      <4>3. QED
        BY <1>5, <4>1, <4>2 DEF Last
    <3>3. disk' = disk
      BY <1>2, <3>1, <3>2, IdleReplay
    <3>4. u = SubSeq(u, 1, Len(u)) /\ Len(u) \in 0..Len(u)
      BY <1>5
    <3>5. \A m \in Len(u)..Len(u) : c[m] = disk
      BY <1>4, <1>5 DEF Rollback
    <3>6. Unwinding(c, u, disk', undo')
      BY <1>0, <3>2, <3>3, <3>4, <3>5 DEF Unwinding
    <3>7. QED
      BY <1>4, <3>3, <3>6
  <2>3. QED
    BY <1>4, <2>1, <2>2 DEF Unwinding
<1>7. PICK e : /\ Rollback(e, u, disk') /\ Settled(e, u) /\ e[0] = c[0]
               /\ Unwinding(e, u, disk', undo')
  BY <1>6
<1>8. BringsBack(e, u)'
  BY <1>0, <1>2, <1>4, <1>7 DEF BringsBack, NotesOf, Forward
<1>9. OpenJournals' = {cur} /\ Pending' = {cur} /\ cur' = cur /\ journal'[cur].undo = u
  BY <1>1, <1>2 DEF OpenJournals, Pending
<1>10. OneJournal'
  <2>1. \A b \in BatchId, i \in 1..MaxOps : Exists(disk, Backup(b, i)) => b = cur
    BY <1>1 DEF RecoveryInv, OneJournal
  <2>2. Last(undo) \in UndoStep
    BY <1>0, FrontLast DEF TypeOK
  <2>3. \A b \in BatchId, i \in 1..MaxOps :
          Exists(disk', Backup(b, i)) => Exists(disk, Backup(b, i))
    BY <1>2, <2>2, ReplayBackups DEF Exists
  <2>4. ok /\ healthy /\ todo = {} /\ journal[cur].state = "open"
    BY <1>0 DEF RecoveryInv, OneJournal
  <2>5. QED
    BY <1>0, <1>2, <1>9, <2>1, <2>3, <2>4 DEF OneJournal
<1>11. ~Forward' /\ ops' = <<>>
  BY <1>0, <1>2 DEF RecoveryInv, Forward
<1>12. \A b \in OpenJournals' : \E e2 : BringsBack(e2, journal[b].undo)'
  BY <1>8, <1>9
<1>13. QED
  BY <1>9, <1>10, <1>11, <1>12, OffForward

(* With no step left the disk is the first of the chain.                   *)
LEMMA UndoneAllRec ==
    ASSUME TypeOK, EngineInv, RecoveryInv, UndoneAll
    PROVE  RecoveryInv'
<1>1. /\ pc = "undo" /\ undo = <<>> /\ ok /\ pc' = "clean" /\ ok' = TRUE
      /\ UNCHANGED <<disk, journal, cur, ops, undo, healthy, todo, promised>>
  BY DEF UndoneAll, storage, RecoveryInv, OneJournal
<1>2. ~Forward' /\ ops' = <<>>
  BY <1>1 DEF RecoveryInv, Forward
<1>3. OneJournal'
  BY <1>1 DEF RecoveryInv, OneJournal, Forward, Pending, Exists
<1>4. cur \in BatchId /\ OpenJournals = {cur} /\ journal[cur].undo \in Seq(UndoStep)
  BY <1>1, OpenIsCur
<1>5. ASSUME NEW c, BringsBack(c, journal[cur].undo), NEW m \in 0..Len(journal[cur].undo)
      PROVE  c[m] = disk
  <2>1. PICK u \in Seq(UndoStep) : u = journal[cur].undo
    BY <1>4
  <2>2. Unwinding(c, u, disk, <<>>)
    BY <1>1, <1>5, <2>1 DEF BringsBack
  <2>3. \A s : Append(u, s) # <<>>
    BY <2>1
  <2>4. PICK n \in 0..Len(u) : <<>> = SubSeq(u, 1, n) /\ \A i \in n..Len(u) : c[i] = disk
    BY <2>2, <2>3 DEF Unwinding
  <2>5. n = 0 /\ Len(u) \in Nat
    BY <2>1, <2>4
  <2>6. QED
    BY <1>5, <2>1, <2>4, <2>5
<1>6. QED
  BY <1>1, <1>2, <1>3, <1>4, <1>5, QuietRec

(* An open journal whose rollback is through has no backup left to remove. *)
LEMMA NoBackupLeft ==
    ASSUME TypeOK, EngineInv, RecoveryInv, pc = "clean", NEW b \in OpenJournals,
           NEW i \in 1..MaxOps
    PROVE  ~Exists(disk, Backup(b, i))
<1> SUFFICES ASSUME Exists(disk, Backup(b, i)) PROVE FALSE
  OBVIOUS
<1>1. b \in BatchId /\ journal[b].undo \in Seq(UndoStep)
  BY DEF OpenJournals, TypeOK, JournalFile
<1>2. PICK u \in Seq(UndoStep) : u = journal[b].undo
  BY <1>1
<1>3. PICK j \in DOMAIN u : u[j].kind = "restore" /\ u[j].at = Backup(b, i)
  BY <1>2 DEF EngineInv, WriteAhead
<1>4. PICK c : BringsBack(c, u)
  BY <1>2 DEF RecoveryInv
<1>5. j \in 1..Len(u) /\ j - 1 \in 0..Len(u) /\ j \in 0..Len(u) /\ u[j] \in UndoStep
  OBVIOUS
<1>6. c[j - 1] = Replay(u[j], c[j]) /\ c[j] = disk /\ c[j - 1] = disk
  BY <1>4, <1>5 DEF BringsBack, Rollback
<1>7. u[j].home \in Loc /\ Backup(b, i) \in Loc /\ u[j].home # Backup(b, i)
  BY <1>1, <1>5, NotesInLoc, NotesApart, BackupInLoc DEF UndoStep
<1>8. disk = Rename(disk, Backup(b, i), u[j].home)
  BY <1>3, <1>6 DEF Replay, HasWork
<1>9. disk[Backup(b, i)] = None
  BY <1>7, <1>8 DEF Rename, TypeOK
<1>10. QED
  BY <1>9 DEF Exists

(* A cleanup removes backups of a journal that does not need them.         *)
LEMMA RemoveBackupRec ==
    ASSUME TypeOK, EngineInv, RecoveryInv, RemoveBackup
    PROVE  RecoveryInv'
<1>1. /\ pc = "clean" /\ UNCHANGED <<journal, pc, cur, ops, ok, healthy, todo, promised>>
  BY DEF RemoveBackup, batch, recovery
<1>2. PICK l \in Backups(cur) : disk' = [disk EXCEPT ![l] = None]
  BY DEF RemoveBackup
<1>3. cur \in Pending /\ cur \in BatchId /\ \A b \in Pending : b = cur
  BY <1>1 DEF RecoveryInv, OneJournal, Pending
<1>4. l \in Loc /\ l[1] = "backup" /\ l[2] = cur /\ Exists(disk, l)
  BY <1>2 DEF Backups
<1>5. PICK i \in 1..MaxOps : l = Backup(cur, i)
  BY <1>4 DEF Loc, Notes, Note, Trash, Backup
<1>6. OpenJournals = {}
  <2>1. cur \notin OpenJournals
    BY <1>1, <1>4, <1>5, NoBackupLeft
  <2>2. QED
    BY <1>3, <2>1 DEF OpenJournals, Pending
<1>7. OpenJournals' = {} /\ Pending' = Pending
  BY <1>1, <1>6 DEF OpenJournals, Pending
<1>8. OneJournal'
  <2>1. \A b \in BatchId, m \in 1..MaxOps :
          Exists(disk', Backup(b, m)) => Exists(disk, Backup(b, m))
    BY <1>2, <1>4, BackupInLoc DEF Exists, TypeOK
  <2>2. QED
    BY <1>1, <1>7, <2>1 DEF RecoveryInv, OneJournal, Forward
<1>9. NotesOf(disk)' = promised'
  <2>1. \A x \in Path : disk'[Note(x)] = disk[Note(x)]
    BY <1>2, <1>3, <1>5, NoteInLoc, NotesApart DEF TypeOK
  <2>2. QED
    BY <1>1, <1>6, <2>1 DEF NotesOf, RecoveryInv
<1>10. ~Forward' /\ ops' = <<>>
  BY <1>1 DEF RecoveryInv, Forward
<1>11. QED
  BY <1>7, <1>8, <1>9, <1>10, OffForward

(* Once the backups are gone the journal goes next.                        *)
LEMMA BackupsGoneRec ==
    ASSUME RecoveryUndisturbed, TypeOK, EngineInv, RecoveryInv, BackupsGone
    PROVE  RecoveryInv'
<1>1. /\ pc = "clean" /\ pc' = "unlink" /\ Backups(cur) = {}
      /\ UNCHANGED <<disk, journal, cur, ops, ok, healthy, todo, promised>>
  BY DEF BackupsGone, RecoveryUndisturbed, May, storage, batch, recovery
<1>2. \A b \in Pending : b = cur
  BY <1>1 DEF RecoveryInv, OneJournal
<1>3. \A b \in BatchId, i \in 1..MaxOps : ~Exists(disk, Backup(b, i))
  <2> SUFFICES ASSUME NEW b \in BatchId, NEW i \in 1..MaxOps, Exists(disk, Backup(b, i))
               PROVE  FALSE
    OBVIOUS
  <2>1. b = cur
    BY <1>2 DEF RecoveryInv, OneJournal
  <2>2. Backup(b, i) \in Backups(cur)
    BY <2>1, BackupInLoc DEF Backups, Backup
  <2>3. QED
    BY <1>1, <2>2
<1>4. OneJournal'
  BY <1>1, <1>3 DEF RecoveryInv, OneJournal, Forward, Pending, Exists
<1>5. ~Forward' /\ ops' = <<>>
  BY <1>1 DEF RecoveryInv, Forward
<1>6. QED
  BY <1>1, <1>4, <1>5, QuietRec DEF BringsBack

(* A journal is removed when replaying it would change nothing, or when    *)
(* its batch is committed.                                                 *)
LEMMA RemoveJournalRec ==
    ASSUME RecoveryUndisturbed, TypeOK, EngineInv, RecoveryInv, RemoveJournal
    PROVE  RecoveryInv'
<1>1. /\ pc = "unlink" /\ pc' \in {"recover", "idle"}
      /\ journal' = [journal EXCEPT ![cur] = NoJournal]
      /\ UNCHANGED <<disk, ops, ok, healthy, todo, promised>>
  BY DEF RemoveJournal, Leave, RecoveryUndisturbed, May, recovery
<1>2. cur \in Pending /\ cur \in BatchId /\ \A b \in Pending : b = cur
  BY <1>1 DEF RecoveryInv, OneJournal, Pending
<1>3. Pending' = {} /\ OpenJournals' = {}
  BY <1>1, <1>2 DEF Pending, OpenJournals, NoJournal, TypeOK
<1>4. OneJournal'
  <2>1. ok /\ healthy /\ todo = {} /\ \A b \in BatchId, i \in 1..MaxOps : ~Exists(disk, Backup(b, i))
    BY <1>1 DEF RecoveryInv, OneJournal
  <2>2. QED
    BY <1>1, <1>3, <2>1 DEF OneJournal, Forward
<1>5. NotesOf(disk) = promised
  <2>1. CASE OpenJournals = {}
    BY <2>1 DEF RecoveryInv
  <2>2. CASE OpenJournals # {}
    <3>1. PICK b \in OpenJournals : TRUE
      BY <2>2
    <3>2. b \in BatchId /\ journal[b].undo \in Seq(UndoStep)
      BY <3>1 DEF OpenJournals, TypeOK, JournalFile
    <3>3. PICK c : BringsBack(c, journal[b].undo)
      BY <3>1 DEF RecoveryInv
    <3>4. c[0] = disk
      BY <1>1, <3>2, <3>3 DEF BringsBack
    <3>5. QED
      BY <3>3, <3>4 DEF BringsBack
  <2>3. QED
    BY <2>1, <2>2
<1>6. NotesOf(disk)' = promised'
  BY <1>1, <1>5 DEF NotesOf
<1>7. ~Forward' /\ ops' = <<>>
  BY <1>1 DEF RecoveryInv, Forward
<1>8. QED
  BY <1>3, <1>4, <1>6, <1>7, OffForward

(* Recovery takes up the one journal there is. *)
LEMMA RecoverOneRec ==
    ASSUME TypeOK, EngineInv, RecoveryInv, NEW b \in BatchId, RecoverOne(b)
    PROVE  RecoveryInv'
<1>1. /\ pc = "recover" /\ b \in todo /\ todo' = todo \ {b} /\ cur' = b /\ ok' = TRUE
      /\ UNCHANGED <<disk, journal, ops, healthy, promised>>
      /\ \/ journal[b].state = "committed" /\ pc' = "clean"
         \/ journal[b].state # "committed" /\ pc' = "undo" /\ undo' = journal[b].undo
  BY DEF RecoverOne, storage
<1>2. b \in Pending /\ todo = Pending /\ Pending = {b}
  BY <1>1 DEF RecoveryInv, OneJournal
<1>3. ~Forward' /\ ops' = <<>>
  BY <1>1 DEF RecoveryInv, Forward
<1>4. journal[b].state \in {"open", "committed"} /\ journal[b].undo \in Seq(UndoStep)
  BY <1>2 DEF Pending, TypeOK, JournalFile
<1>5. OneJournal'
  <2>1. Pending' = Pending
    BY <1>1 DEF Pending
  <2>2. \A x \in BatchId, i \in 1..MaxOps : Exists(disk, Backup(x, i)) => x \in Pending
    BY DEF RecoveryInv, OneJournal
  <2>3. healthy
    BY DEF RecoveryInv, OneJournal
  <2>4. QED
    BY <1>1, <1>2, <1>4, <2>1, <2>2, <2>3 DEF OneJournal, Exists
<1>6. ASSUME NEW x \in OpenJournals, NEW c, BringsBack(c, journal[x].undo)
      PROVE  /\ pc' = "undo" => Unwinding(c, journal[x].undo, disk, undo')
             /\ pc' \notin {"clean", "unlink"}
  <2>1. x = b /\ journal[b].state = "open"
    BY <1>2, <1>6 DEF OpenJournals, Pending
  <2>2. PICK u \in Seq(UndoStep) : u = journal[b].undo
    BY <1>4
  <2>3. u = SubSeq(u, 1, Len(u)) /\ Len(u) \in 0..Len(u)
    BY <2>2
  <2>4. \A m \in Len(u)..Len(u) : c[m] = disk
    BY <1>6, <2>1, <2>2 DEF BringsBack, Rollback
  <2>5. Unwinding(c, u, disk, u)
    BY <2>3, <2>4 DEF Unwinding
  <2>6. QED
    BY <1>1, <2>1, <2>2, <2>5
<1>7. QED
  BY <1>1, <1>3, <1>5, <1>6, QuietRec

(* The rest: the process is started, opened, written to directly, killed.  *)
LEMMA AroundRec ==
    ASSUME RecoveryUndisturbed, TypeOK, EngineInv, RecoveryInv,
           \/ BeginFails \/ Open \/ OpenReadOnly \/ Opened \/ Die \/ UNCHANGED vars
           \/ \E b \in BatchId : SkipUnreadable(b)
    PROVE  RecoveryInv'
<1>1. CASE Open \/ OpenReadOnly \/ Opened \/ Die
  <2>1. /\ pc' \notin {"undo", "clean", "unlink"} /\ ~Forward'
        /\ UNCHANGED <<disk, journal, promised>> /\ ops' = <<>>
    BY <1>1 DEF Open, OpenReadOnly, Opened, Die, storage, batch, Forward, RecoveryInv
  <2>2. OneJournal'
    <3>1. Pending' = Pending
      BY <2>1 DEF Pending
    <3>2. \A b \in BatchId, i \in 1..MaxOps : Exists(disk', Backup(b, i)) => b \in Pending
      BY <2>1 DEF RecoveryInv, OneJournal, Exists
    <3>3. healthy' /\ ok'
      BY <1>1 DEF Open, OpenReadOnly, Opened, Die, recovery, RecoveryInv, OneJournal
    <3>4. pc' \in {"idle", "reading"} => Pending = {}
      BY <1>1 DEF Open, OpenReadOnly, Opened, Die, RecoveryInv, OneJournal
    <3>5. todo' = IF pc' = "recover" THEN Pending ELSE {}
      BY <1>1 DEF Open, OpenReadOnly, Opened, Die, recovery, RecoveryInv, OneJournal
    <3>6. QED
      BY <2>1, <3>1, <3>2, <3>3, <3>4, <3>5 DEF RecoveryInv, OneJournal
  <2>3. QED
    BY <2>1, <2>2, QuietRec
<1>2. CASE BeginFails
  <2>1. /\ pc' = "idle" /\ pc = "idle"
        /\ UNCHANGED <<disk, journal, promised, ops, todo, ok, healthy, cur>>
    BY <1>2 DEF BeginFails, storage, batch, recovery
  <2>2. ~Forward' /\ ops' = <<>>
    BY <2>1 DEF Forward, RecoveryInv
  <2>3. OneJournal'
    BY <2>1 DEF RecoveryInv, OneJournal, Pending, Exists, Forward
  <2>4. QED
    BY <2>1, <2>2, <2>3, QuietRec
<1>3. CASE UNCHANGED vars
  <2>1. UNCHANGED <<disk, journal, pc, cur, ops, k, undo, ok, healthy, todo, promised>>
    BY <1>3 DEF vars, storage, batch, recovery
  <2>2. /\ OneJournal' = OneJournal /\ LastStep' = LastStep /\ Forward' = Forward
        /\ OpenJournals' = OpenJournals /\ NotesOf(disk)' = NotesOf(disk)
    BY <2>1 DEF OneJournal, LastStep, Forward, OpenJournals, NotesOf, Pending, Exists, op
  <2>3. ASSUME NEW e, Progress(e) PROVE Progress(e)'
    BY <2>1, <2>3 DEF Progress, Away, op
  <2>4. ASSUME NEW c, NEW u, BringsBack(c, u) PROVE BringsBack(c, u)'
    BY <2>1, <2>4 DEF BringsBack, Ahead, Away, op, Forward, NotesOf
  <2>5. ASSUME NEW b \in OpenJournals' PROVE \E c : BringsBack(c, journal[b].undo)'
    <3>1. PICK u : u = journal[b].undo
      OBVIOUS
    <3>2. PICK c : BringsBack(c, u)
      BY <2>2, <3>1 DEF RecoveryInv
    <3>3. BringsBack(c, u)'
      BY <2>4, <3>2
    <3>4. QED
      BY <2>1, <3>1, <3>3
  <2>6. Forward' => \E e : Progress(e)'
    BY <2>2, <2>3 DEF RecoveryInv
  <2>7. QED
    BY <2>1, <2>2, <2>5, <2>6 DEF RecoveryInv
<1>4. CASE \E b \in BatchId : SkipUnreadable(b)
  BY <1>4 DEF SkipUnreadable, RecoveryUndisturbed, May
<1>5. QED
  BY <1>1, <1>2, <1>3, <1>4

(* A direct write happens between batches only, and promises what it       *)
(* writes.                                                                 *)
LEMMA WriteNoteRec ==
    ASSUME TypeOK, EngineInv, RecoveryInv, WriteNote
    PROVE  RecoveryInv'
<1>1. pc = "idle" /\ UNCHANGED <<journal, pc, cur, ops, ok, healthy, todo>>
  BY DEF WriteNote, batch, recovery
<1>2. PICK x \in Path, c \in Content :
        /\ disk' = [disk EXCEPT ![Note(x)] = c]
        /\ promised' = [promised EXCEPT ![x] = c]
  BY DEF WriteNote
<1>3. Pending = {} /\ OpenJournals = {} /\ Pending' = {} /\ OpenJournals' = {}
  BY <1>1 DEF RecoveryInv, OneJournal, Pending, OpenJournals
<1>4. ~Forward' /\ ops' = <<>>
  BY <1>1 DEF Forward, RecoveryInv
<1>5. OneJournal'
  <2>1. \A b \in BatchId, i \in 1..MaxOps : ~Exists(disk, Backup(b, i))
    BY <1>3 DEF RecoveryInv, OneJournal
  <2>2. \A b \in BatchId, i \in 1..MaxOps : ~Exists(disk', Backup(b, i))
    BY <1>2, <2>1, BackupInLoc, NoteInLoc, NotesApart DEF Exists, TypeOK
  <2>3. QED
    BY <1>1, <1>3, <2>2 DEF RecoveryInv, OneJournal, Forward
<1>6. NotesOf(disk)' = promised'
  <2>1. NotesOf(disk) = promised
    BY <1>3 DEF RecoveryInv
  <2>2. \A y \in Path : disk'[Note(y)] = IF y = x THEN c ELSE disk[Note(y)]
    BY <1>2, NoteInLoc, NotesApart DEF TypeOK
  <2>3. QED
    BY <1>2, <2>1, <2>2 DEF NotesOf
<1>7. QED
  BY <1>3, <1>4, <1>5, <1>6, OffForward

(* Every step keeps the recovery invariant.                                *)
LEMMA StepRec ==
    ASSUME Careful, RecoveryUndisturbed, TypeOK, EngineInv, RecoveryInv, [Next]_vars
    PROVE  RecoveryInv'
<1>1. CASE Begin
  BY <1>1, BeginRec
<1>2. CASE RecordBackup \/ RecordCreate \/ RecordDelete \/ RecordMove
  BY <1>2, RecordsRec
<1>3. CASE Refuse \/ MutationFails \/ CommitFails
  <2>1. Forward /\ Fail /\ undo' = undo /\ UNCHANGED <<disk, journal, todo, healthy, promised>>
    BY <1>3 DEF Refuse, MutationFails, CommitFails, Applying, Finished, Forward, storage, recovery
  <2>2. QED
    BY <2>1, FailRec
<1>4. CASE SetAside
  BY <1>4, SetAsideRec
<1>5. CASE Land
  BY <1>5, LandRec
<1>6. CASE Commit
  BY <1>6, CommitRec
<1>7. CASE UndoOne \/ UndoneAll
  BY <1>7, UndoOneRec, UndoneAllRec
<1>8. CASE RemoveBackup \/ BackupsGone \/ RemoveJournal
  BY <1>8, RemoveBackupRec, BackupsGoneRec, RemoveJournalRec
<1>9. CASE \E b \in BatchId : RecoverOne(b)
  BY <1>9, RecoverOneRec
<1>10. CASE WriteNote
  BY <1>10, WriteNoteRec
<1>11. CASE \/ BeginFails \/ Open \/ OpenReadOnly \/ Opened \/ Die \/ UNCHANGED vars
            \/ \E b \in BatchId : SkipUnreadable(b)
  BY <1>11, AroundRec
<1>12. QED
  BY <1>1, <1>2, <1>3, <1>4, <1>5, <1>6, <1>7, <1>8, <1>9, <1>10, <1>11 DEF Next, Step

(* The recovery invariant holds in every reachable state: at each point of *)
(* apply_op, rollback, cleanup and recovery, replaying what is on disk     *)
(* brings back the notes of the last commit point, however often the       *)
(* replay itself is cut short.                                             *)
THEOREM RecoveryCorrect ==
    ASSUME Careful, RecoveryUndisturbed
    PROVE  Spec => [](TypeOK /\ EngineInv /\ RecoveryInv)
<1>1. Init => RecoveryInv
  BY InitRec
<1>2. TypeOK /\ EngineInv /\ RecoveryInv /\ [Next]_vars => RecoveryInv'
  BY StepRec
<1>3. QED
  BY <1>1, <1>2, EngineCorrect, PTL DEF Spec

(* What recovery would make of the disk. *)
LEMMA RecoveredIs ==
    ASSUME TypeOK, EngineInv, RecoveryInv
    PROVE  CrashConsistent
<1>1. \A b, c \in OpenJournals : b = c
  BY DEF RecoveryInv, OneJournal, OpenJournals, Pending
<1>2. CASE OpenJournals = {}
  BY <1>1, <1>2 DEF CrashConsistent, Recovered, RecoveryInv, NotesOf, Vault
<1>3. CASE OpenJournals # {}
  <2> DEFINE left == CHOOSE b \in OpenJournals : TRUE
  <2>1. left \in OpenJournals
    BY <1>3
  <2> HIDE DEF left
  <2>2. journal[left].undo \in Seq(UndoStep)
    BY <2>1 DEF OpenJournals, TypeOK, JournalFile
  <2>3. PICK u \in Seq(UndoStep) : u = journal[left].undo
    BY <2>2
  <2>4. PICK c : BringsBack(c, u)
    BY <2>1, <2>3 DEF RecoveryInv
  <2>5. c[Len(u)] = disk /\ \A n \in 1..Len(u) : c[n - 1] = Replay(u[n], c[n])
    BY <2>4 DEF BringsBack, Rollback
  <2>6. Len(u) \in Nat /\ DOMAIN u = 1..Len(u)
    OBVIOUS
  <2>7. PICK d : d = FoldRight(Replay, u, disk)
    OBVIOUS
  <2>8. d = c[0]
    BY <2>5, <2>6, <2>7, RollbackIsChain
  <2>9. Recovered = [p \in Path |-> d[Note(p)]]
    BY <1>3, <2>3, <2>7 DEF Recovered, left
  <2>10. QED
    BY <1>1, <2>4, <2>8, <2>9 DEF CrashConsistent, BringsBack, NotesOf
<1>4. QED
  BY <1>2, <1>3

(* A crash at any point loses nothing and leaves nothing half done: at     *)
(* most one journal is open, and replaying it brings back exactly the      *)
(* notes of the last commit point.                                         *)
THEOREM CrashesAreConsistent ==
    ASSUME Careful, RecoveryUndisturbed
    PROVE  Spec => []CrashConsistent
BY RecoveryCorrect, RecoveredIs, PTL

(* An open vault shows the notes of the last commit point: a batch that    *)
(* answered an error left nothing behind.                                  *)
THEOREM PromisedIsServed ==
    ASSUME Careful, RecoveryUndisturbed
    PROVE  Spec => []ServesPromised
<1>1. TypeOK /\ EngineInv /\ RecoveryInv => ServesPromised
  BY DEF RecoveryInv, OneJournal, ServesPromised, OpenJournals, Pending, NotesOf, Vault
<1>2. QED
  BY <1>1, RecoveryCorrect, PTL

(* Between batches the engine leaves no journal and no backup behind.      *)
THEOREM NothingIsLeft ==
    ASSUME Careful, RecoveryUndisturbed
    PROVE  Spec => []NothingLeft
<1>1. TypeOK /\ EngineInv /\ RecoveryInv => NothingLeft
  <2> SUFFICES ASSUME TypeOK, EngineInv, RecoveryInv, pc \in {"idle", "reading"}
               PROVE  Pending = {} /\ \A b \in BatchId : Backups(b) = {}
    BY DEF NothingLeft
  <2>1. Pending = {} /\ \A b \in BatchId, i \in 1..MaxOps : ~Exists(disk, Backup(b, i))
    BY DEF RecoveryInv, OneJournal
  <2>2. \A l \in Loc : l[1] = "backup" => \E i \in 1..MaxOps : l = Backup(l[2], i)
    BY DEF Loc, Notes, Note, Trash, Backup
  <2>3. QED
    BY <2>1, <2>2 DEF Backups
<1>2. QED
  BY <1>1, RecoveryCorrect, PTL

-----------------------------------------------------------------------------
(* The engine implements AtomicBatch: the abstract vault is what recovery  *)
(* would make of the disk, which is what is promised.                      *)

(* An initial state of the engine is one of the abstract specification.    *)
LEMMA RefinesInit == Init => Promise!Init
<1> SUFFICES ASSUME Init PROVE Promise!Init
  OBVIOUS
<1>1. TypeOK /\ EngineInv /\ RecoveryInv
  BY InitType, InitInv, InitRec
<1>2. Recovered = promised
  BY <1>1, RecoveredIs DEF CrashConsistent
<1>3. QED
  BY <1>1, <1>2 DEF Promise!Init, Promise!Cell, Cell, Init, TypeOK

(* The operations have all been applied when the flag is flipped. *)
LEMMA CommitEffect ==
    ASSUME TypeOK, EngineInv, RecoveryInv, Commit
    PROVE  Vault = Effect(promised, ops) /\ ops # <<>>
<1>1. pc = "apply" /\ Forward /\ k > Len(ops)
  BY DEF Commit, Finished, Forward
<1>2. ops \in Seq(Op) /\ Len(ops) \in Nat /\ k = Len(ops) + 1 /\ ops # <<>>
  BY <1>1, BatchFields DEF EngineInv, InBatch
<1>3. PICK e : Progress(e)
  BY <1>1 DEF RecoveryInv
<1>4. PICK s, v : s = ops /\ v = promised
  OBVIOUS
<1>5. /\ e[0] = v /\ \A n \in 1..Len(s) : e[n] = ApplyOp(e[n - 1], s[n])
      /\ \A p \in Path : disk[Note(p)] = e[Len(s)][p]
      /\ e[Len(s)] \in [Path -> Cell]
  BY <1>1, <1>2, <1>3, <1>4 DEF Progress, Away
<1>6. Len(s) \in Nat /\ DOMAIN s = 1..Len(s)
  BY <1>2, <1>4
<1>7. Effect(v, s) = e[Len(s)]
  <2>1. PICK n \in Nat : n = Len(s)
    BY <1>6
  <2>2. DOMAIN s = 1..n /\ Applied(e, v, s, n)
    BY <1>5, <1>6, <2>1 DEF Applied
  <2>3. Effect(v, s) = e[n]
    BY <2>2, EffectIsChain
  <2>4. QED
    BY <2>1, <2>3
<1>8. Vault = e[Len(s)]
  BY <1>5 DEF Vault
<1>9. QED
  BY <1>2, <1>4, <1>7, <1>8

(* The abstract specification speaks of the same effect. *)
LEMMA SameEffect == \A v, s : Promise!Effect(v, s) = Effect(v, s)
BY DEF Effect, Promise!Effect, FoldLeft, Promise!FoldLeft, MapThenFoldSet,
       Promise!MapThenFoldSet, ApplyOp, Promise!ApplyOp, Max, Promise!Max

(* Every step of the engine is an abstract step or a stutter.              *)
LEMMA RefinesStep ==
    ASSUME Careful, RecoveryUndisturbed, TypeOK, EngineInv, RecoveryInv, [Next]_vars
    PROVE  [Promise!Next]_(Promise!vars)
<1>1. TypeOK' /\ EngineInv' /\ RecoveryInv'
  BY StepType, StepInv, StepRec
<1>2. Recovered = promised
  BY RecoveredIs DEF CrashConsistent
<1>3. Recovered' = promised'
  <2>1. CrashConsistent'
    BY <1>1, RecoveredIs, PTL
  <2>2. QED
    BY <2>1 DEF CrashConsistent
<1>4. CASE Begin
  <2>1. ops = <<>> /\ ops' \in Batches /\ result' = "none" /\ promised' = promised
    BY <1>4 DEF Begin, RecoveryInv, Forward
  <2>2. QED
    BY <1>2, <1>3, <2>1 DEF Promise!Next, Promise!Submit
<1>5. CASE Commit
  <2>1. promised' = Effect(promised, ops) /\ ops # <<>> /\ ops' = <<>> /\ result' = "ok"
    BY <1>5, CommitEffect DEF Commit
  <2>2. QED
    BY <1>2, <1>3, <2>1, SameEffect DEF Promise!Next, Promise!Commit
<1>6. CASE /\ ops' = <<>> /\ promised' = promised /\ result' \in {"err", "none"}
  BY <1>2, <1>3, <1>6 DEF Promise!Next, Promise!Abort, Promise!Forget
<1>7. CASE WriteNote
  <2>1. PICK p \in Path, c \in Content : promised' = [promised EXCEPT ![p] = c]
    BY <1>7 DEF WriteNote
  <2>2. ops = <<>> /\ ops' = ops /\ result' = result
    BY <1>7 DEF WriteNote, RecoveryInv, Forward, batch
  <2>3. QED
    BY <1>2, <1>3, <2>1, <2>2 DEF Promise!Next, Promise!Put
<1>8. CASE UNCHANGED <<promised, ops, result>>
  BY <1>2, <1>3, <1>8 DEF Promise!vars
<1>9. CASE RecordBackup \/ RecordCreate \/ RecordDelete \/ RecordMove
  <2>1. promised' = promised /\ (UNCHANGED <<ops, result>> \/ Fail)
    BY <1>9 DEF RecordBackup, RecordCreate, RecordDelete, RecordMove, Recorded, batch
  <2>2. QED
    BY <1>6, <1>8, <2>1 DEF Fail
<1>10. CASE Refuse \/ MutationFails \/ CommitFails
  BY <1>6, <1>10 DEF Refuse, MutationFails, CommitFails, Fail
<1>11. CASE BeginFails
  <2>1. ops' = <<>> /\ promised' = promised /\ result' = "err"
    BY <1>11 DEF BeginFails, RecoveryInv, Forward, batch
  <2>2. QED
    BY <1>6, <2>1
<1>12. CASE Die
  BY <1>6, <1>12 DEF Die
<1>13. CASE SetAside \/ Land \/ UndoOne \/ UndoneAll \/ RemoveBackup \/ BackupsGone
            \/ RemoveJournal \/ Opened \/ Open \/ OpenReadOnly \/ UNCHANGED vars
            \/ \E b \in BatchId : RecoverOne(b) \/ SkipUnreadable(b)
  BY <1>8, <1>13 DEF SetAside, Land, UndoOne, UndoneAll, RemoveBackup, BackupsGone, RemoveJournal,
     Opened, Open, OpenReadOnly, RecoverOne, SkipUnreadable, vars, batch
<1>14. QED
  BY <1>4, <1>5, <1>7, <1>9, <1>10, <1>11, <1>12, <1>13 DEF Next, Step

(* Every step of the engine is a step AtomicBatch allows, or none at all:  *)
(* a batch takes effect at once, at the journal flip, or never, and what   *)
(* its caller is told is what happened. (The abstract specification's      *)
(* fairness, and so its liveness, is left to the runs.)                    *)
THEOREM EngineIsAtomic ==
    ASSUME Careful, RecoveryUndisturbed
    PROVE  Spec => Promise!Init /\ [][Promise!Next]_(Promise!vars)
<1>1. TypeOK /\ EngineInv /\ RecoveryInv /\ [Next]_vars => [Promise!Next]_(Promise!vars)
  BY RefinesStep
<1>2. Init => Promise!Init
  BY RefinesInit
<1>3. QED
  BY <1>1, <1>2, RecoveryCorrect, PTL DEF Spec

-----------------------------------------------------------------------------
(* The batches the tools submit. *)

(* Sequences1 holds sequences of at least one element. *)
LEMMA SequencesAre ==
    ASSUME NEW S, NEW n, NEW s \in Sequences1(S, n)
    PROVE  s \in Seq(S) /\ Len(s) \in Nat /\ DOMAIN s = 1..Len(s)
<1>1. PICK m \in 1..n : s \in [1..m -> S]
  BY DEF Sequences1
<1>2. m \in Nat
  BY <1>1
<1>3. QED
  BY <1>1, <1>2

(* Everything edit_sections, replace_text, edit_properties, delete_notes   *)
(* and move_notes hand to commit_batch is sound for the vault it was       *)
(* validated against.                                                      *)
THEOREM ToolsAreSound ==
    \A v \in [Path -> Cell], s \in ToolBatches : Validated(v, s) => Sound(v, s)
<1> SUFFICES ASSUME NEW v \in [Path -> Cell], NEW s \in ToolBatches, Validated(v, s)
             PROVE  Sound(v, s)
  OBVIOUS
<1>1. CASE s \in EditBatches
  <2>1. \A i \in DOMAIN s : s[i].kind = "write"
    BY <1>1, SequencesAre DEF EditBatches, Write
  <2>2. QED
    BY <2>1 DEF Sound
<1>2. CASE s \in DeleteBatches
  <2>1. \A i \in DOMAIN s : s[i].kind = "delete"
    BY <1>2, SequencesAre DEF DeleteBatches, Delete
  <2>2. QED
    BY <2>1 DEF Sound
<1>3. CASE s \in MoveBatches
  <2>1. PICK r \in RelinkLists, m \in MoveLists : s = r \o m
    BY <1>3 DEF MoveBatches
  <2>2. r \in Seq({Write(p, c) : p \in Path, c \in NewContent}) /\ Len(r) \in Nat
    <3> DEFINE W == {Write(p, c) : p \in Path, c \in NewContent}
    <3>1. r = <<>> \/ r \in Sequences1(W, MaxRelinks)
      BY DEF RelinkLists
    <3> HIDE DEF W
    <3>2. r \in Sequences1(W, MaxRelinks) => r \in Seq(W)
      BY SequencesAre
    <3>3. <<>> \in Seq(W)
      OBVIOUS
    <3>4. r \in Seq(W)
      BY <3>1, <3>2, <3>3
    <3>5. Len(r) \in Nat
      BY <3>4
    <3>6. QED
      BY <3>4, <3>5 DEF W
  <2>3. m \in Seq({Move(p, q) : p \in Path, q \in Path}) /\ Len(m) \in Nat /\ MovesOk(m)
    BY SequencesAre DEF MoveLists
  <2>4. DOMAIN s = 1..(Len(r) + Len(m))
    BY <2>1, <2>2, <2>3
  <2>5. \A i \in 1..Len(r) : s[i].kind = "write"
    BY <2>1, <2>2, <2>3 DEF Write
  <2>6. ASSUME NEW i \in DOMAIN s, i > Len(r)
        PROVE  i - Len(r) \in DOMAIN m /\ s[i] = m[i - Len(r)] /\ s[i].kind = "move"
    <3>1. i - Len(r) \in 1..Len(m) /\ s[i] = m[i - Len(r)]
      BY <2>1, <2>2, <2>3, <2>4, <2>6
    <3>2. m[i - Len(r)] \in {Move(p, q) : p \in Path, q \in Path}
      BY <2>3, <3>1
    <3>3. QED
      BY <2>3, <3>1, <3>2 DEF Move
  <2>7. ASSUME NEW i \in DOMAIN s, s[i].kind = "move"
        PROVE  v[s[i].path] # None
    BY DEF Validated
  <2>8. ASSUME NEW i \in DOMAIN s, NEW j \in DOMAIN s, j < i,
               s[i].kind \in {"write", "move"}, s[j].kind \in {"delete", "move"}
        PROVE  i > Len(r) /\ j > Len(r)
    BY <2>2, <2>4, <2>5, <2>8
  <2>9. ASSUME NEW i \in DOMAIN s, NEW j \in DOMAIN s, j < i, j > Len(r)
        PROVE  s[i].path # s[j].path /\ s[i].path # s[j].to
    <3>1. i > Len(r) /\ i - Len(r) # j - Len(r)
      BY <2>2, <2>4, <2>9
    <3>2. ~Collides(m[i - Len(r)], m[j - Len(r)])
      BY <2>3, <2>6, <2>9, <3>1 DEF MovesOk
    <3>3. QED
      BY <2>6, <2>9, <3>1, <3>2 DEF Collides
  <2>10. QED
    <3>1. ASSUME NEW i \in DOMAIN s, NEW j \in DOMAIN s, j < i
          PROVE /\ s[i].kind \in {"write", "move"} /\ s[j].kind \in {"delete", "move"} =>
                     s[i].path # s[j].path
                /\ s[i].kind = "move" /\ s[j].kind = "move" => s[i].path # s[j].to
      BY <2>8, <2>9, <3>1
    <3>2. QED
      BY <2>7, <3>1 DEF Sound
<1>4. QED
  BY <1>1, <1>2, <1>3 DEF ToolBatches

(* So the engine's promises hold of whatever the tools ask of it: their    *)
(* batches, submitted under the write guard they were validated under.     *)
COROLLARY ToolsAreCareful ==
    ASSUME Batches \subseteq ToolBatches,
           \A v \in [Path -> Cell], s \in Batches : Admissible(v, s) => Validated(v, s)
    PROVE  Careful
BY ToolsAreSound DEF Careful
=================================================================================
