-------------------------------- MODULE Patch --------------------------------
(***************************************************************************)
(* What edit_sections and replace_text make of a note's text (patch.rs,    *)
(* replace.rs).  Every item of a call is resolved against the original     *)
(* text into splices; items that meet are refused; the rest is applied     *)
(* from the end.                                                           *)
(***************************************************************************)
EXTENDS Document, FiniteSets, Integers

(* A splice replaces a span by text; `foot` is what it claims for itself.  *)
Splice(start, stop, text, foot) == [start |-> start, stop |-> stop, text |-> text, foot |-> foot]
Spliced(t, s) == SubSeq(t, 1, s.start) \o s.text \o SubSeq(t, s.stop + 1, Len(t))

(* Splices in the order of (start, end), applied from the last to the first. *)
Sorted(splices) ==
    LET key(k) == <<splices[k].start, splices[k].stop, k>>
        before(a, b) == \/ a[1] < b[1]
                        \/ a[1] = b[1] /\ a[2] < b[2]
                        \/ a[1] = b[1] /\ a[2] = b[2] /\ a[3] < b[3]
        rank(k) == Cardinality({j \in DOMAIN splices : before(key(j), key(k))}) + 1
    IN  [n \in DOMAIN splices |-> splices[CHOOSE k \in DOMAIN splices : rank(k) = n]]
Applied(t, splices) == FoldLeft(Spliced, t, Reverse(Sorted(splices)))

EndsWith(s, tail) == IsSuffix(tail, s)

(* starts_with_blank_line, ends_with_blank_line. *)
StartsBlank(s) == Head(s) = NL
EndsBlank(s) == EndsWith(s, <<NL, NL>>) \/ s = <<NL>>

(* The blank lines a span begins with, and those it ends with. *)
LeadEnd(t, a, b) ==
    CHOOSE p \in a..b : /\ \A q \in a + 1 .. p : t[q] = NL
                        /\ p = b \/ t[p + 1] # NL
TrailStart(t, a, b) ==
    LET z == CHOOSE p \in a..b : /\ \A q \in p + 1 .. b : t[q] = NL
                                 /\ p = a \/ t[p] # NL
    IN  IF z \in {a, b} THEN z ELSE z + 1

(* span_seams: a span of blank lines alone gives its first line twice. *)
Seams(t, a, b) ==
    LET lead == LeadEnd(t, a, b) IN
    IF lead = b THEN LET one == SubSeq(t, a + 1, IF a < b THEN a + 1 ELSE a) IN <<one, one>>
    ELSE <<Slice(t, <<a, lead>>), Slice(t, <<TrailStart(t, lead, b), b>>)>>

(* append_pos: the end of the text, or before the blank lines that separate *)
(* the section from the heading that follows.                              *)
AppendPos(t, a, b) == IF b = Len(t) THEN b ELSE TrailStart(t, a, b)

(* A block inserted between sections has a blank line on both sides. *)
Padded(block, t, pos) ==
    LET ended == IF EndsWith(block, <<NL>>) THEN block ELSE Append(block, NL)
        headed == IF pos > 0 /\ t[pos] # NL THEN <<NL, NL>> \o ended
                  ELSE IF pos >= 2 /\ t[pos - 1] # NL THEN <<NL>> \o ended ELSE ended
    IN  IF pos = Len(t) \/ EndsWith(headed, <<NL, NL>>) THEN headed ELSE Append(headed, NL)

(* What replaces the content of a span.  Bug: the seams are dropped and the *)
(* text runs into the heading that follows.                                *)
BareReplacement(content, t, a, b) == content
Replacement(content, t, a, b) ==
    LET seams == Seams(t, a, b)
        led == IF seams[1] # <<>> /\ ~StartsBlank(content) THEN seams[1] \o content ELSE content
        split == IF a > 0 /\ t[a] # NL THEN <<NL>> \o led ELSE led
        ended == IF /\ ~EndsWith(split, <<NL>>)
                    /\ \/ b < Len(t) /\ t[b + 1] # NL
                       \/ b > a /\ t[b] = NL
                 THEN Append(split, NL) ELSE split
    IN  IF content = <<>> THEN <<>>
        ELSE IF EndsBlank(ended) THEN ended ELSE ended \o seams[2]

AppendedText(content, t, pos) ==
    LET split == IF pos > 0 /\ t[pos] # NL THEN <<NL>> \o content ELSE content IN
    IF EndsWith(split, <<NL>>) THEN split ELSE Append(split, NL)

(* validate_inserted_levels: the shallowest heading has the level expected. *)
LevelsFit(content, expected) ==
    LET levels == {h.level : h \in Range(Parse(content).heads)} IN
    levels = {} \/ (expected \in levels /\ \A l \in levels : expected <= l)
SiblingLevel(d, i) == IF i = 0 THEN 1 ELSE d.heads[i].level
InsideLevel(d, i) == IF i = 0 THEN 1 ELSE d.heads[i].level + 1

(* check_expected_hash; the hash stands for the content, {} for none. *)
HashScope(edit) == IF edit.op \in {"insert_before", "insert_after", "rename"}
                   THEN "section" ELSE edit.scope
HashFits(t, d, i, hash, scope) == hash \subseteq {Slice(t, ContentSpan(d, i, scope))}

(* resolve_edit: may the edit be made? *)
MoveOk(d, edit, i) ==
    LET dest == Index(d, edit.dest, edit.destocc) IN
    /\ i # 0 /\ Found(d, edit.dest, edit.destocc)
    /\ ~IsWithin(d, dest, i)
    /\ SiblingLevel(d, i) = SiblingLevel(d, dest)
EditOk(t, d, edit) ==
    LET i == Index(d, edit.path, edit.occ) IN
    /\ Found(d, edit.path, edit.occ)
    /\ HashFits(t, d, i, edit.hash, HashScope(edit))
    /\ edit.op \in {"replace", "append"} => LevelsFit(edit.content, InsideLevel(d, i))
    /\ edit.op \in {"insert_before", "insert_after"} => LevelsFit(edit.content, SiblingLevel(d, i))
    /\ edit.op = "rename" => i # 0 /\ edit.content # <<>> /\ NL \notin Range(edit.content)
    /\ edit.op = "move" => MoveOk(d, edit, i)

(* resolve_edit: the splices of an edit that may.  Where an insertion goes, *)
(* it is in nobody's way but of a splice that reaches over it.             *)
Inserted(t, block, pos) == Splice(pos, pos, Padded(block, t, pos), <<pos, pos>>)
Cut(span) == Splice(span[1], span[2], <<>>, span)
Side(span, first) == IF first THEN span[1] ELSE span[2]
EditSplices(t, d, edit) ==
    LET i == Index(d, edit.path, edit.occ)
        span == ContentSpan(d, i, edit.scope)
        section == SectionSpan(d, i)
        pos == AppendPos(t, span[1], span[2])
        line == <<d.heads[i].start, d.heads[i].stop>>
        heading == <<Marks[d.heads[i].level]>> \o edit.content
        dest == SectionSpan(d, Index(d, edit.dest, edit.destocc))
    IN  CASE edit.op = "replace" ->
             <<Splice(span[1], span[2], Replacement(edit.content, t, span[1], span[2]), span)>>
          [] edit.op = "append" -> <<Splice(pos, pos, AppendedText(edit.content, t, pos), span)>>
          [] edit.op = "delete" -> <<Cut(IF edit.scope = "body" THEN span ELSE section)>>
          [] edit.op \in {"insert_before", "insert_after"} ->
             <<Inserted(t, edit.content, Side(section, edit.op = "insert_before"))>>
          [] edit.op = "rename" ->
             <<Splice(line[1], line[2],
                      IF t[line[2]] = NL THEN Append(heading, NL) ELSE heading, line)>>
          [] edit.op = "move" ->
             <<Cut(section), Inserted(t, Slice(t, section), Side(dest, edit.pos = "before"))>>

(* detect_overlaps: two edits meet.  Bug: touching ends count as apart even *)
(* where both insert.                                                      *)
CrossOnly(a, b) == a.foot[1] < b.foot[2] /\ b.foot[1] < a.foot[2]
Meet(a, b) ==
    \/ CrossOnly(a, b)
    \/ a.start = a.stop /\ b.start = b.stop /\ a.start = b.start

(* patch_sections, all or nothing. *)
PatchOk(t, edits) ==
    LET d == Parse(t) IN
    /\ \A k \in DOMAIN edits : EditOk(t, d, edits[k])
    /\ \A j, k \in DOMAIN edits : j < k =>
          \A a \in Range(EditSplices(t, d, edits[j])), b \in Range(EditSplices(t, d, edits[k])) :
             ~Meet(a, b)
Patched(t, edits) ==
    LET d == Parse(t) IN
    Applied(t, FlattenSeq([k \in DOMAIN edits |-> EditSplices(t, d, edits[k])]))

-----------------------------------------------------------------------------
(* match_indices: the matches of find in a span, from the left, none       *)
(* overlapping the one before.                                             *)
MatchesIn(t, find, span) ==
    LET at(p) == p + Len(find) <= span[2] /\ SubSeq(t, p + 1, p + Len(find)) = find
        taken[p \in span[1]..span[2]] ==
            at(p) /\ \A q \in span[1] .. p - 1 : q + Len(find) > p => ~taken[q]
    IN  Ascending({p \in span[1]..span[2] : taken[p]}, span[2])

(* resolve: an item's splices, and whether their number is what it asks.   *)
ItemSplices(t, d, item) ==
    LET span == ContentSpan(d, Index(d, item.path, item.occ), item.scope)
        found == MatchesIn(t, item.find, span)
    IN  [n \in DOMAIN found |->
            Splice(found[n], found[n] + Len(item.find), item.with,
                   <<found[n], found[n] + Len(item.find)>>)]
ItemOk(t, d, item) ==
    LET count == Len(ItemSplices(t, d, item)) IN
    /\ item.find # <<>> /\ Found(d, item.path, item.occ)
    /\ HashFits(t, d, Index(d, item.path, item.occ), item.hash, item.scope)
    /\ IF item.count # {} THEN count \in item.count
       ELSE count = 1 \/ (count > 1 /\ item.all)

ReplaceOk(t, items) ==
    LET d == Parse(t) IN
    /\ \A k \in DOMAIN items : ItemOk(t, d, items[k])
    /\ \A j, k \in DOMAIN items : j < k =>
          \A a \in Range(ItemSplices(t, d, items[j])), b \in Range(ItemSplices(t, d, items[k])) :
             ~CrossOnly(a, b)
AllSplices(t, items) ==
    LET d == Parse(t) IN FlattenSeq([k \in DOMAIN items |-> ItemSplices(t, d, items[k])])
Replaced(t, items) == Applied(t, AllSplices(t, items))

(* The lines reported for an item, numbered in the new text: each match is *)
(* shifted by what the splices before it have added.  Bug: it is not.      *)
LineAt(t, p) == Cardinality({q \in 1..p : t[q] = NL}) + 1
HitLineWith(t, items, s, shift(_)) ==
    LET before == Only(Sorted(AllSplices(t, items)), LAMBDA x : x.start < s.start) IN
    LineAt(Replaced(t, items), FoldLeft(LAMBDA n, x : n + shift(x), s.start, before))
HitLineUnshifted(t, items, s) == HitLineWith(t, items, s, LAMBDA x : 0)
HitLine(t, items, s) == HitLineWith(t, items, s, LAMBDA x : Len(x.text) - (x.stop - x.start))
=============================================================================
