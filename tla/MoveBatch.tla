------------------------------- MODULE MoveBatch --------------------------------
(***************************************************************************)
(* One `move_notes` call (tools_organize.rs) on a tree of directories and  *)
(* notes: the validation of its items, the order in which the moves are    *)
(* applied, what every single rename does to the tree, the links rewritten *)
(* to follow (module Relink), and the pruning of emptied directories. The  *)
(* transaction engine underneath makes the batch all-or-nothing (module    *)
(* Transaction), so a move that fails takes the tree back to what it was.  *)
(*                                                                         *)
(* A path is the sequence of its names, the root is << >>. The tree maps   *)
(* every path that exists to the body of a note or to Directory. A body is *)
(* named by the path its note had at the start, and holds links.           *)
(***************************************************************************)
EXTENDS Relink, Functions, FiniteSets, TLC

CONSTANTS
    DirName, NoteName,      \* directory names; note names (they end in .md)
    Hidden,                 \* directory names that begin with a dot
    Rank,                   \* the lexicographic order of the names
    Paths, Trees,           \* the paths there may be; the trees a call may find
    Dests,                  \* destinations callers ask for
    MaxItems,               \* bound: items of one call
    Allowed(_, _)           \* Allowed(tree, items): calls this instance makes

Name == DirName \cup NoteName

ASSUME NamesAssumption ==
    DirName \cap NoteName = {} /\ Hidden \subseteq DirName /\ Name \cap {"", ".", ".."} = {}
ASSUME PathsAssumption == \A p \in Paths \cup Dests : p \in Seq(Name) /\ p # <<>>

Item == [source : Paths, dest : Dests]

-----------------------------------------------------------------------------
(* Paths and trees. *)

IsNote(p) == Last(p) \in NoteName       \* as it is spelled
Parent(p) == Front(p)
Content == [of : Seq(Name), links : Seq(Link)]
Directory == [of |-> <<>>, links |-> <<>>]
Suffix(p, q) == SubSeq(q, Len(p) + 1, Len(q))      \* q below p, seen from p

Under(t, p) == {q \in DOMAIN t : IsPrefix(p, q)}
Without(t, p) == Restrict(t, DOMAIN t \ Under(t, p))

(* rename(2) of a note or of a whole directory onto a free name, and the   *)
(* create_dir_all of the parents before it.                                *)
Parents(p) == {SubSeq(p, 1, i) : i \in 1..(Len(p) - 1)}

(* A tree as a call may find it: what a path lies in are directories, and  *)
(* what is no directory is a note, by its name as well.                    *)
WellFormed(t) ==
    /\ DOMAIN t \subseteq Paths /\ t \in [DOMAIN t -> Content]
    /\ \A q \in DOMAIN t :
         /\ \A p \in Parents(q) : p \in DOMAIN t /\ t[p] = Directory
         /\ t[q] # Directory => t[q].of = q /\ IsNote(q)

ASSUME TreesAssumption == \A t \in Trees : WellFormed(t)

RenameTree(t, from, to) ==
    LET landed == {to \o Suffix(from, q) : q \in Under(t, from)}
        rest   == Without(t, from)
    IN  [q \in landed \cup DOMAIN rest \cup Parents(to) |->
            IF q \in landed THEN t[from \o Suffix(to, q)]
            ELSE IF q \in DOMAIN rest THEN rest[q]
            ELSE Directory]

(* Mutant of Before: a destination sorts ahead of its ancestors. *)
BeforeDeepest(p, q) ==
    \/ IsStrictPrefix(q, p)
    \/ \E i \in DOMAIN p \cap DOMAIN q :
         /\ SubSeq(p, 1, i - 1) = SubSeq(q, 1, i - 1)
         /\ Rank[p[i]] < Rank[q[i]]

(* The lexicographic order of destinations: an ancestor comes first. *)
Before(p, q) ==
    \/ IsStrictPrefix(p, q)
    \/ \E i \in DOMAIN p \cap DOMAIN q :
         /\ SubSeq(p, 1, i - 1) = SubSeq(q, 1, i - 1)
         /\ Rank[p[i]] < Rank[q[i]]

(* sort_by_key on the destinations. *)
Sorted(call) ==
    {s \in [DOMAIN call -> Range(call)] :
        IsInjective(s) /\ \A i, j \in DOMAIN s : i < j => ~Before(s[j].dest, s[i].dest)}

-----------------------------------------------------------------------------
(* Validation, on the tree as it is before the batch. *)

(* check_dest_chain: what there is of the destination's directories are    *)
(* directories.                                                            *)
ChainFree(t, p) == \A q \in Parents(p) : q \in DOMAIN t => t[q] = Directory

(* `dest` is spelled as what it is for, `into` keeps the name.             *)
KindKept(t, m) == (t[m.source] = Directory <=> ~IsNote(m.dest)) \/ Last(m.dest) = Last(m.source)

(* Mutant of ItemOk: an occupied destination is let through. *)
ItemOkBlind(t, m, overwrite) ==
    /\ m.source \in DOMAIN t
    /\ KindKept(t, m)
    /\ ChainFree(t, m.dest)
    /\ ~IsPrefix(m.source, m.dest)

(* compute_move and run_move, one item. *)
ItemOk(t, m, overwrite) ==
    /\ m.source \in DOMAIN t
    /\ KindKept(t, m)
    /\ ChainFree(t, m.dest)
    /\ ~IsPrefix(m.source, m.dest)
    /\ overwrite \/ m.dest \notin DOMAIN t

Overlap(p, q) == IsPrefix(p, q) \/ IsPrefix(q, p)

(* Mutant of Collide: sources inside one another are let through. *)
CollideFlat(m, n) ==
    \/ m.dest = n.dest
    \/ m.dest = n.source
    \/ n.dest = m.source
    \/ m.source = n.source
    \/ IsStrictPrefix(m.source, n.dest)
    \/ IsStrictPrefix(n.source, m.dest)

(* check_move_collisions, one pair of items. *)
Collide(m, n) ==
    \/ m.dest = n.dest
    \/ m.dest = n.source
    \/ n.dest = m.source
    \/ Overlap(m.source, n.source)
    \/ IsStrictPrefix(m.source, n.dest)
    \/ IsStrictPrefix(n.source, m.dest)

Accepted(t, items, overwrite) ==
    /\ \A i \in DOMAIN items : ItemOk(t, items[i], overwrite)
    /\ \A i, j \in DOMAIN items : i < j => ~Collide(items[i], items[j])

(* Calls whose declared tree is not what comes out, or that fail halfway:  *)
(* a destination above a source; one inside a moved directory, at a place  *)
(* where that directory brings something; and one that leads through the   *)
(* place of a moved note.                                                  *)
Above(m, n) == IsStrictPrefix(m.dest, n.source)
Brought(t, m, n) ==
    IsStrictPrefix(m.dest, n.dest) /\ m.source \o Suffix(m.dest, n.dest) \in DOMAIN t
Through(t, m, n) ==
    \E p \in Under(t, m.source) :
        t[p] # Directory /\ IsStrictPrefix(m.dest \o Suffix(m.source, p), n.dest)

Plain(t, call) ==
    \A i, j \in DOMAIN call :
        ~Above(call[i], call[j]) /\ ~Brought(t, call[i], call[j]) /\ ~Through(t, call[i], call[j])

-----------------------------------------------------------------------------
VARIABLES
    tree,       \* what is on disk
    phase,      \* "ask", "relink", "move", "prune", "done", "rejected" or "failed"
    items,      \* the validated moves, ancestor destinations first
    next,       \* the move, and later the source, to work on
    climb,      \* pruning: the directory looked at
    overwrite, update_links,        \* the call's options
    before      \* history: the tree the call found

vars == <<tree, phase, items, next, climb, overwrite, update_links, before>>

TypeOK ==
    /\ DOMAIN tree \subseteq Seq(Name) /\ tree \in [DOMAIN tree -> Content]
    /\ phase \in {"ask", "relink", "move", "prune", "done", "rejected", "failed"}
    /\ items \in Seq(Item)
    /\ next \in 0..(MaxItems + 1)
    /\ climb \in Seq(Name)
    /\ overwrite \in BOOLEAN /\ update_links \in BOOLEAN

Init ==
    /\ tree \in Trees
    /\ phase = "ask"
    /\ items = <<>> /\ next = 0 /\ climb = <<>>
    /\ overwrite \in BOOLEAN /\ update_links = FALSE
    /\ before = tree

Calls == {call \in UNION {[1..n -> Item] : n \in 1..MaxItems} : Allowed(tree, call)}

Accept ==
    /\ phase = "ask"
    /\ \E call \in Calls :
         /\ Accepted(tree, call, overwrite)
         /\ items' \in Sorted(call)
    /\ update_links' \in BOOLEAN
    /\ phase' = (IF update_links' THEN "relink" ELSE "move")
    /\ next' = 1
    /\ UNCHANGED <<tree, climb, overwrite, before>>

Reject ==
    /\ phase = "ask"
    /\ {call \in Calls : ~Accepted(tree, call, overwrite)} # {}
    /\ phase' = "rejected"
    /\ UNCHANGED <<tree, items, next, climb, overwrite, update_links, before>>

(* list_entries: the notes below a directory, and its directories if asked  *)
(* for, but for what is in or under one with a dot.                        *)
Listed(t, dir, recursive, dirs) ==
    {q \in Under(t, dir) \ {dir} :
        /\ \A i \in Len(dir) + 1 .. Len(q) : q[i] \notin Hidden
        /\ recursive \/ Parent(q) = dir
        /\ dirs \/ t[q] # Directory}

(* plan_link_rewrites and its `Op::Write`s, which come before the moves:   *)
(* every body at its old path, so that the moves carry the new one.  That  *)
(* the vault cannot be listed, or a note not be read, which the code only  *)
(* logs and goes on without its links, is left out.                        *)
Relinked(t, moves) ==
    [q \in DOMAIN t |->
        IF q \in Listed(t, <<>>, TRUE, FALSE)
        THEN [t[q] EXCEPT !.links = RewriteBody(@, q, moves)] ELSE t[q]]

WriteLinks ==
    /\ phase = "relink"
    /\ tree' = Relinked(tree, items)
    /\ phase' = "move"
    /\ UNCHANGED <<items, next, climb, overwrite, update_links, before>>

(* One `Op::Move`: whatever is at the destination is set aside first (and  *)
(* is gone once the batch commits), then the source is renamed.            *)
CanMove(t, m) ==
    /\ m.source \in DOMAIN t
    /\ ChainFree(t, m.dest)

Cleared(t, m) == Without(t, m.dest)

MoveOne ==
    /\ phase = "move"
    /\ next <= Len(items)
    /\ LET m == items[next]
           t == Cleared(tree, m)
       IN  IF CanMove(t, m)
           THEN /\ tree' = RenameTree(t, m.source, m.dest)
                /\ next' = next + 1
                /\ UNCHANGED phase
           ELSE /\ tree' = before
                /\ phase' = "failed"
                /\ UNCHANGED next
    /\ UNCHANGED <<items, climb, overwrite, update_links, before>>

(* The batch is committed; prune_empty may have been asked for. *)
Committed ==
    /\ phase = "move"
    /\ next > Len(items)
    /\ \/ /\ phase' = "prune" /\ next' = 1
          /\ climb' = Parent(items[1].source)
       \/ /\ phase' = "done"
          /\ UNCHANGED <<next, climb>>
    /\ UNCHANGED <<tree, items, overwrite, update_links, before>>

(* remove_empty_dir refuses a directory that still holds anything. *)
Empty(t, p) == p # <<>> /\ Under(t, p) = {p}

(* Mutant of PruneOne: the directory is removed with what it holds. *)
PruneAnything ==
    /\ phase = "prune"
    /\ climb # <<>> /\ climb \in DOMAIN tree
    /\ tree' = Without(tree, climb)
    /\ climb' = Parent(climb)
    /\ UNCHANGED <<phase, items, next, overwrite, update_links, before>>

(* prune_emptied_dirs: up from a source's parent while directories are     *)
(* empty, then on to the next source.                                      *)
PruneOne ==
    /\ phase = "prune"
    /\ Empty(tree, climb)
    /\ tree' = Without(tree, climb)
    /\ climb' = Parent(climb)
    /\ UNCHANGED <<phase, items, next, overwrite, update_links, before>>

PruneNext ==
    /\ phase = "prune"
    /\ ~Empty(tree, climb)
    /\ IF next < Len(items)
       THEN /\ next' = next + 1
            /\ climb' = Parent(items[next + 1].source)
            /\ UNCHANGED phase
       ELSE /\ phase' = "done"
            /\ UNCHANGED <<next, climb>>
    /\ UNCHANGED <<tree, items, overwrite, update_links, before>>

Next == Accept \/ Reject \/ WriteLinks \/ MoveOne \/ Committed \/ PruneOne \/ PruneNext

Spec == Init /\ [][Next]_vars

-----------------------------------------------------------------------------
(* The declared final tree (ADR-0024): every path reads from the item with *)
(* the deepest destination above it, from the tree before the batch.       *)

Covering(q) == {i \in DOMAIN items : IsPrefix(items[i].dest, q)}

Governing(q) ==
    CHOOSE i \in Covering(q) : \A j \in Covering(q) : Len(items[j].dest) <= Len(items[i].dest)

Origin(q) ==
    IF Covering(q) = {} THEN q
    ELSE LET m == items[Governing(q)] IN m.source \o Suffix(m.dest, q)

Vacated(q) == \E i \in DOMAIN items : IsPrefix(items[i].source, q)

Declared ==
    LET kept   == {q \in DOMAIN before : Covering(q) = {} /\ ~Vacated(q)}
        landed == {q \in UNION {{items[i].dest \o Suffix(items[i].source, p) :
                                    p \in Under(before, items[i].source)} : i \in DOMAIN items} :
                        Origin(q) \in DOMAIN before}
        base   == IF update_links THEN Relinked(before, items) ELSE before
        made   == UNION {Parents(items[i].dest) : i \in DOMAIN items}
    IN  [q \in kept \cup landed \cup made |->
            IF q \in landed THEN base[Origin(q)]
            ELSE IF q \in kept THEN base[q] ELSE Directory]

Notes(t) == Restrict(t, {q \in DOMAIN t : t[q] # Directory})
Bodies(t) == {t[q].of : q \in DOMAIN Notes(t)}

(* A batch that commits leaves exactly the tree its items declare, whatever *)
(* order the moves were applied in: `ordering is a property of the declared *)
(* final state, not something the caller sequences` (ADR-0024).             *)
LandsAsDeclared ==
    /\ phase = "move" /\ next > Len(items) => tree = Declared
    /\ phase \in {"prune", "done"} => Notes(tree) = Notes(Declared)

(* What validation accepts, the engine can do: no accepted batch runs into *)
(* a missing source or an occupied parent half-way.                        *)
NeverFailsMidway == phase # "failed"

(* Without `overwrite` no body is lost: every note there was is still      *)
(* somewhere in the tree, pruning included.                                *)
NoBodyLost == ~overwrite /\ phase \in {"prune", "done"} => Bodies(tree) = Bodies(before)

(* A link that led to a note leads to that note afterwards, from wherever  *)
(* its own note went: inbound, outbound, between two moved notes, absolute *)
(* or relative; and one that no move touches keeps its spelling. `This     *)
(* maintains both inbound links from other notes and a moved note's own    *)
(* outbound relative links` (ADR-0022).                                    *)
LinksFollow ==
    update_links /\ phase \in {"prune", "done"} =>
        \A q, p \in DOMAIN Notes(tree) : \A i \in DOMAIN tree[q].links :
            LET was == tree[q].of
                old == before[was].links[i]
            IN  ResolveDest(was, old) = tree[p].of =>
                    /\ ResolveDest(q, tree[q].links[i]) = p
                    /\ was = q /\ tree[p].of = p => tree[q].links[i] = old

(* Pruning only takes directories that held a source of the batch, and     *)
(* never one that existed next to them.                                    *)
PrunesOnlySources ==
    [][ phase = "prune" /\ tree' # tree =>
          /\ Notes(tree') = Notes(tree)
          /\ \A q \in DOMAIN tree \ DOMAIN tree' :
               \E i \in DOMAIN items : IsStrictPrefix(q, items[i].source) ]_vars
=================================================================================
