---------------------------- MODULE EventJournal ----------------------------
(***************************************************************************)
(* The event journal and the commit hook (events.rs): records numbered by  *)
(* seq, appended to a live file that is rotated by size, and handed to a   *)
(* hook that runs once per record.  emit holds the sink's mutex from the   *)
(* numbering to the hand-over, so there is one emit at a time; the hook's  *)
(* consumer and a crash run beside it.                                     *)
(*                                                                         *)
(* A file is the sequence of its lines: a line that parses is its record's *)
(* seq, any other is Garbage.  `cut` says that the last line has no        *)
(* newline, so that the next record is glued to it; `mangled` that the     *)
(* file is not valid UTF-8 (a write cut inside a character).               *)
(***************************************************************************)
EXTENDS Naturals, Sequences, FiniteSets

CONSTANTS
    RotateAt,   \* ROTATE_BYTES, in lines
    MaxSeq,     \* bound: records emitted before a process stops emitting
    MaxTears,   \* bound: appends cut short by a full disk or a crash
    MaxOpens,   \* bound: starts of the server
    Faults      \* what may go wrong, a subset of AllFaults

AllFaults == {"refuse", "sync", "tear", "mangle", "deaf"}

(* A record is far smaller than ROTATE_BYTES: a file of torn lines alone is *)
(* never large enough to be rotated.                                        *)
ASSUME JournalAssumption ==
    /\ RotateAt \in Nat /\ MaxSeq \in Nat /\ MaxTears \in Nat /\ MaxOpens \in Nat
    /\ MaxTears < RotateAt
    /\ Faults \subseteq AllFaults

VARIABLES
    live,       \* events.jsonl
    rotated,    \* events.jsonl.1
    pc,         \* where emit is; "down" when no server runs
    seq,        \* EventSink::seq
    queue,      \* the hook's channel
    stage,      \* of the hook: "idle", "write" (its stdin is fed) or "wait"
    deaf,       \* this hook neither reads its stdin nor exits
    acked,      \* history: records whose emit returned Ok
    dropped,    \* history: lines that rotation has replaced
    tears,      \* history: appends that were cut
    opens       \* history: starts of the server

files == <<live, rotated, dropped, tears>>
hook == <<queue, stage, deaf>>
vars == <<files, hook, pc, seq, acked, opens>>

Garbage == 0
NoFile == [lines |-> <<>>, cut |-> FALSE, mangled |-> FALSE]
Readable(lines) == {i \in DOMAIN lines : lines[i] # Garbage}

(* The seq of a file's last readable record, 0 for None.  The file is read *)
(* as one string.                                                          *)
LastSeq(f) ==
    IF f.mangled \/ Readable(f.lines) = {}
    THEN 0
    ELSE f.lines[CHOOSE i \in Readable(f.lines) : \A j \in Readable(f.lines) : j <= i]

Init ==
    /\ live = NoFile /\ rotated = NoFile /\ dropped = <<>> /\ tears = 0
    /\ queue = <<>> /\ stage = "idle" /\ deaf = FALSE
    /\ pc = "down" /\ seq = 0 /\ acked = <<>> /\ opens = 0

(* EventSink::open takes seq from the live file, else from the rotated one. *)
(* Bug: the live file alone.                                                *)
RecoveredFromLive == LastSeq(live)
Recovered == IF LastSeq(live) # 0 THEN LastSeq(live) ELSE LastSeq(rotated)

Open ==
    /\ pc = "down" /\ opens < MaxOpens
    /\ pc' = "idle" /\ seq' = Recovered /\ opens' = opens + 1
    /\ queue' = <<>> /\ stage' = "idle" /\ deaf' = FALSE
    /\ UNCHANGED <<files, acked>>

(* emit takes the mutex and a number. *)
Number ==
    /\ pc = "idle" /\ seq < MaxSeq
    /\ seq' = seq + 1 /\ pc' = "rotate"
    /\ UNCHANGED <<files, hook, acked, opens>>

(* A step of emit that fails returns early; the number is used up. *)
Fails(step, why) ==
    /\ pc = step /\ why \in Faults /\ pc' = "idle"
    /\ UNCHANGED <<hook, seq, acked, opens>>

(* A live file that has reached its size is renamed over the older one. *)
(* Bug: the rename is a removal.                                       *)
RotateByRemoval ==
    /\ pc = "rotate" /\ pc' = "append"
    /\ live' = IF Len(live.lines) >= RotateAt THEN NoFile ELSE live
    /\ UNCHANGED <<rotated, dropped, tears, hook, seq, acked, opens>>
Rotate ==
    /\ pc = "rotate" /\ pc' = "append"
    /\ IF Len(live.lines) >= RotateAt
       THEN /\ rotated' = live /\ live' = NoFile
            /\ dropped' = dropped \o rotated.lines
       ELSE UNCHANGED <<live, rotated, dropped>>
    /\ UNCHANGED <<tears, hook, seq, acked, opens>>

(* What a whole record adds to the lines: nothing readable after a cut one. *)
Extended == IF live.cut THEN live.lines ELSE Append(live.lines, seq)
AppendAs(cut) ==
    /\ pc = "append" /\ pc' = "sync"
    /\ live' = [live EXCEPT !.lines = Extended, !.cut = cut]
    /\ UNCHANGED <<rotated, dropped, tears, hook, seq, acked, opens>>

(* The line and its newline in one write.  Bug: no newline. *)
AppendUnended == AppendAs(TRUE)
AppendLine == AppendAs(FALSE)

(* The disk is full, or the process dies, in the middle of the write.  (A  *)
(* cut exactly before the newline is taken for one before it: the record   *)
(* would be read until the next is glued to it.)                           *)
TearLine ==
    /\ Fails("append", "tear") /\ tears < MaxTears
    /\ \E inside \in IF "mangle" \in Faults THEN BOOLEAN ELSE {FALSE} :
          live' = [lines |-> IF live.cut THEN live.lines ELSE Append(live.lines, Garbage),
                   cut |-> TRUE, mangled |-> live.mangled \/ inside]
    /\ tears' = tears + 1
    /\ UNCHANGED <<rotated, dropped>>

(* rename, open or write fails with nothing written; then sync_data fails. *)
RefuseRecord ==
    /\ \/ Fails("rotate", "refuse")
       \/ Fails("append", "refuse")
       \/ Fails("sync", "sync")
    /\ UNCHANGED files

(* The record is durable and goes to the hook's queue, under the mutex. *)
HandOver ==
    /\ pc = "sync" /\ pc' = "idle"
    /\ queue' = Append(queue, seq) /\ acked' = Append(acked, seq)
    /\ UNCHANGED <<files, seq, stage, deaf, opens>>

(* The hook's consumer takes a record and spawns the command, or cannot. *)
Spawn ==
    /\ pc # "down" /\ stage = "idle" /\ queue # <<>>
    /\ queue' = Tail(queue)
    /\ \/ /\ stage' = "write"
          /\ deaf' \in IF "deaf" \in Faults THEN BOOLEAN ELSE {FALSE}
       \/ "refuse" \in Faults /\ UNCHANGED <<stage, deaf>>
    /\ UNCHANGED <<files, pc, seq, acked, opens>>

(* The record is written to its stdin, with no time limit: only a command  *)
(* that reads, exits or finds the record fit in the pipe lets this end.    *)
Feed ==
    /\ pc # "down" /\ stage = "write" /\ ~deaf /\ stage' = "wait"
    /\ UNCHANGED <<files, pc, seq, queue, deaf, acked, opens>>

(* It exits, with success or not, or is killed after HOOK_TIMEOUT.  Bug: a *)
(* hook that fails is run again, for ever.                                 *)
ReapAndRetry ==
    /\ pc # "down" /\ stage = "wait" /\ stage' = "write"
    /\ UNCHANGED <<files, pc, seq, queue, deaf, acked, opens>>
Reap ==
    /\ pc # "down" /\ stage = "wait" /\ stage' = "idle"
    /\ UNCHANGED <<files, pc, seq, queue, deaf, acked, opens>>

(* A crash or a stop at any point: the files are all that is left. *)
Die ==
    /\ pc # "down" /\ opens < MaxOpens /\ pc' = "down"
    /\ UNCHANGED <<files, hook, seq, acked, opens>>

Emit == Rotate \/ AppendLine \/ TearLine \/ RefuseRecord \/ HandOver
Next == Open \/ Number \/ Emit \/ Spawn \/ Feed \/ Reap \/ Die

(* emit runs to its end, the consumer is polled, a hook is timed out. *)
Spec ==
    /\ Init /\ [][Next]_vars
    /\ WF_vars(Emit) /\ WF_vars(Spawn) /\ WF_vars(Feed) /\ WF_vars(Reap)

-----------------------------------------------------------------------------
File == [lines : Seq(Nat), cut : BOOLEAN, mangled : BOOLEAN]

(* Every variable has its type, and a live file is rotated in time. *)
TypeOK ==
    /\ live \in File /\ rotated \in File /\ dropped \in Seq(Nat)
    /\ Len(live.lines) <= RotateAt
    /\ pc \in {"down", "idle", "rotate", "append", "sync"} /\ seq \in Nat
    /\ queue \in Seq(Nat) /\ acked \in Seq(Nat)
    /\ stage \in {"idle", "write", "wait"} /\ deaf \in BOOLEAN
    /\ tears \in 0..MaxTears /\ opens \in 0..MaxOpens

Increasing(s) ==
    \A i, j \in DOMAIN s : i < j /\ s[i] # Garbage /\ s[j] # Garbage => s[i] < s[j]
Journal == dropped \o rotated.lines \o live.lines

(* The records a reader of the journal ever finds are strictly increasing  *)
(* in seq, across rotations, refused and torn appends and restarts         *)
(* ("Reopen: seq continues, never restarts").                              *)
SeqIncreasing == Increasing(Journal)

Lost == {i \in DOMAIN acked : \A j \in DOMAIN Journal : Journal[j] # acked[i]}

(* A torn append costs at most one acknowledged record besides its own:    *)
(* nothing else keeps one from being written where a reader finds it.      *)
OneLostPerTear == Cardinality(Lost) <= tears

(* Unless an append was torn, the acknowledged records that are no longer  *)
(* in either file are older than all that are: a consumer that is behind   *)
(* finds a jump of seq where it missed something, and nowhere else.        *)
GapVisible ==
    LET kept == rotated.lines \o live.lines IN
    tears = 0 =>
        \A i \in DOMAIN acked :
            (\E j \in DOMAIN kept : kept[j] = acked[i])
            \/ (\A j \in DOMAIN kept : kept[j] # Garbage => acked[i] < kept[j])

(* The hook's queue moves on while the server is up: a hook that hangs     *)
(* after reading its record is killed and holds up nobody.                 *)
HookServed == []<>((queue = <<>> /\ stage = "idle") \/ pc = "down")
=============================================================================
