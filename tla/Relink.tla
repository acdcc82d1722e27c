--------------------------------- MODULE Relink ---------------------------------
(***************************************************************************)
(* Where a Markdown link points and how it is spelled after a move         *)
(* (relink.rs). A link is the sequence of segments of its destination, the *)
(* ".." and "." among them, and whether it starts at the vault's root;     *)
(* `coded` says that its names are spelled with percent escapes other than *)
(* %20. A path is the sequence of its names and << >> is no path: what a   *)
(* link that leads nowhere resolves to.                                    *)
(***************************************************************************)
EXTENDS Naturals, Sequences, SequencesExt

CONSTANT Schemed        \* names that read as `scheme:` at the start of a link

Link == [abs : BOOLEAN, coded : BOOLEAN, segs : Seq(STRING)]

(* One segment of resolve_dest; ok turns false when ".." leaves the vault. *)
Walk(pos, seg) ==
    IF seg \in {"", "."} THEN pos
    ELSE IF seg # ".." THEN [pos EXCEPT !.at = Append(@, seg)]
    ELSE IF pos.at = <<>> THEN [pos EXCEPT !.ok = FALSE]
    ELSE [pos EXCEPT !.at = Front(@)]

ResolveDest(note, link) ==
    LET start == [ok |-> TRUE, at |-> IF link.abs THEN <<>> ELSE Front(note)]
        end   == FoldLeft(Walk, start, link.segs)
        url   == ~link.abs /\ link.segs # <<>> /\ Head(link.segs) \in Schemed
        empty == ~link.abs /\ link.segs = <<>>
    IN  IF end.ok /\ ~url /\ ~empty THEN end.at ELSE <<>>

(* relative_dest: the names both directories start with are left out; the  *)
(* target's own name never counts as one.                                  *)
RelativeDest(note, target) ==
    LET from   == Front(note)
        common == Len(LongestCommonPrefix({from, Front(target)}))
    IN  [i \in 1..(Len(from) - common) |-> ".."]
            \o SubSeq(target, common + 1, Len(target))

(* MoveMap.apply: the place of path p once the moves are done.             *)
Moved(moves, p) == \E i \in DOMAIN moves : IsPrefix(moves[i].source, p)

NewPlace(moves, p) ==
    IF ~Moved(moves, p) THEN p
    ELSE LET m == moves[CHOOSE i \in DOMAIN moves : IsPrefix(moves[i].source, p)]
         IN  m.dest \o SubSeq(p, Len(m.source) + 1, Len(p))

(* Does a move concern a link of a note: its target or the note moves? *)
Touched(link, note, moves) ==
    LET target == ResolveDest(note, link) IN
    target # <<>> /\ (Moved(moves, target) \/ Moved(moves, note))

(* rewrite_body, one link of a note.  Bug: the new spelling is seen from    *)
(* the note's old place.                                                   *)
RewrittenFor(link, note, moves, seenFrom) ==
    LET place == NewPlace(moves, ResolveDest(note, link)) IN
    IF ~Touched(link, note, moves) THEN link
    ELSE [abs |-> link.abs, coded |-> FALSE,
          segs |-> IF link.abs THEN place ELSE RelativeDest(seenFrom, place)]
RewrittenFromOld(link, note, moves) == RewrittenFor(link, note, moves, note)
Rewritten(link, note, moves) == RewrittenFor(link, note, moves, NewPlace(moves, note))

(* The scan of plan_link_rewrites passes over a note that stays where it   *)
(* is unless its text spells the last name of some source.                 *)
Scanned(links, note, moves) ==
    \/ Moved(moves, note)
    \/ \E i \in DOMAIN links, j \in DOMAIN moves :
         ~links[i].coded /\ Last(moves[j].source) \in ToSet(links[i].segs)

RewriteBody(links, note, moves) ==
    IF Scanned(links, note, moves)
    THEN [i \in DOMAIN links |-> Rewritten(links[i], note, moves)]
    ELSE links
=================================================================================
