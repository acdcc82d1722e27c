------------------------------ MODULE NoteEdits ------------------------------
(***************************************************************************)
(* Calls of edit_sections, replace_text and edit_properties on the texts   *)
(* of a small vault (tools_write.rs): items are grouped by the path as the *)
(* caller spelled it, each group is worked out on the note as it was, and  *)
(* either every group is written or none.  A call holds the write guard,   *)
(* so it is one step.                                                      *)
(***************************************************************************)
EXTENDS Patch, Frontmatter, Search, Links

CONSTANTS
    Tokens,           \* what texts are made of
    Spellings,        \* the paths a caller may give, in the order of a BTreeMap
    NoteOf,           \* the note each of them resolves to
    StartTexts,       \* what the notes may hold at first
    EditBatches,      \* the calls of edit_sections,
    ReplaceBatches,   \* of replace_text
    PropertyBatches,  \* and of edit_properties
    Queries,          \* the words of searches, as they are given,
    Filters,          \* what they ask of the properties of a note
    Alphabet,         \* what an editor may type into each note
    MaxTyped,         \* bound: the length of a note that is typed
    MaxCalls,         \* bound: calls
    PathOf,           \* where the notes are, as paths of Relink,
    Relocations       \* and calls of move_notes, as far as Relink sees them

Texts == Seq(Tokens)
Notes == {NoteOf[s] : s \in Range(Spellings)}

(* The items of the three tools, as their arguments are read; an item's     *)
(* hash and count are sets, empty when none is given.                      *)
Edits ==
    [note : Range(Spellings), path : Seq(Texts), occ : Nat, scope : {"body", "section"},
     hash : SUBSET Texts, content : Texts, dest : Seq(Texts), destocc : Nat, pos : {"before", "after"},
     op : {"replace", "append", "delete", "insert_before", "insert_after", "rename", "move"}]
Replacements ==
    [note : Range(Spellings), path : Seq(Texts), occ : Nat, scope : {"body", "section"},
     hash : SUBSET Texts, find : Texts, with : Texts, all : BOOLEAN, count : SUBSET Nat]
PropertyItems == [note : Range(Spellings), key : Keys, value : Seq(Tokens \ {NL})]

ASSUME InputAssumption ==
    /\ {NL, Fence, Dashes, Item} \cup Range(Marks) \cup Keys \subseteq Tokens
    /\ Spellings \in Seq(Range(Spellings))
    /\ StartTexts \subseteq [Notes -> Texts] /\ Alphabet \in [Notes -> SUBSET Tokens]
    /\ EditBatches \subseteq Seq(Edits)
    /\ ReplaceBatches \subseteq Seq(Replacements)
    /\ PropertyBatches \subseteq Seq(PropertyItems)
    /\ Queries \subseteq Seq(Texts \ {<<>>}) \ {<<>>}     \* split at blanks
    /\ SmallOf \in [DOMAIN SmallOf -> Tokens]

VARIABLES
    text,             \* each note's text
    call,             \* history: the last call, when nothing was typed since
    calls             \* history: how many there were

vars == <<text, call, calls>>
NoCall == [tool |-> "none", items |-> <<>>, ok |-> FALSE, before |-> <<>>]

Init ==
    /\ text \in StartTexts
    /\ call = NoCall /\ calls = 0

(* The items of one note, and the new texts: of two spellings of one note   *)
(* the later one is written last, over what the earlier one wrote.         *)
Group(batch, s) == Only(batch, LAMBDA e : e.note = s)
Groups(batch) == Only(Spellings, LAMBDA s : Group(batch, s) # <<>>)
Written(batch, new(_, _)) ==
    [n \in Notes |->
        LET of == Only(Groups(batch), LAMBDA s : NoteOf[s] = n) IN
        IF of = <<>> THEN text[n] ELSE new(text[n], Group(batch, Last(of)))]
Run(tool, batch, ok(_, _), new(_, _)) ==
    /\ calls < MaxCalls /\ calls' = calls + 1
    /\ \A n \in Notes : Len(text[n]) > MaxTyped
    /\ LET good == \A s \in Range(Groups(batch)) : ok(text[NoteOf[s]], Group(batch, s)) IN
       /\ text' = IF good THEN Written(batch, new) ELSE text
       /\ call' = [tool |-> tool, items |-> batch, ok |-> good, before |-> text]

EditSections == \E batch \in EditBatches : Run("edit_sections", batch, PatchOk, Patched)
ReplaceText == \E batch \in ReplaceBatches : Run("replace_text", batch, ReplaceOk, Replaced)

(* edit_properties applies its items to a note one after the other. *)
PropertyOk(t, e) == IF e.value = <<>> THEN RemoveOk(t, e.key) ELSE SetOk(t, e.key, e.value)
PropertyTo(t, e) == IF e.value = <<>> THEN Removed(t, e.key) ELSE SetTo(t, e.key, e.value)
PropertiesTo(t, items) == FoldLeft(PropertyTo, t, items)
PropertiesOk(t, items) ==
    \A k \in DOMAIN items : PropertyOk(PropertiesTo(t, SubSeq(items, 1, k - 1)), items[k])
EditProperties ==
    \E batch \in PropertyBatches : Run("edit_properties", batch, PropertiesOk, PropertiesTo)

(* Anyone may write a note in an editor: every short text is one of a note. *)
Type ==
    \E n \in Notes : \E tok \in Alphabet[n] :
        /\ Len(text[n]) < MaxTyped /\ text' = [text EXCEPT ![n] = Append(@, tok)]
        /\ call' = NoCall /\ UNCHANGED calls

Next == Type \/ EditSections \/ ReplaceText \/ EditProperties
Spec == Init /\ [][Next]_vars

(* edit_outcome: where an edit says its section is now, looked up in the    *)
(* new text; a move's new neighbours are those of its destination.         *)
(* Bug: the lookup forgets the occurrence.                                 *)
OutcomeAt(u, e, occ) ==
    LET path == CASE e.op = "rename" -> Append(Front(e.path), e.content)
                  [] e.op = "move" /\ e.dest # <<>> -> Append(Front(e.dest), Last(e.path))
                  [] e.op = "move" /\ e.dest = <<>> -> <<Last(e.path)>>
                  [] OTHER -> e.path
        d == Parse(u)
    IN  IF e.op \in {"insert_before", "insert_after"} \/ ~Found(d, path, occ) THEN {}
        ELSE {Content(u, Index(d, path, occ),
                      IF e.op \in {"rename", "move"} THEN "section" ELSE e.scope)}
OutcomeUnnumbered(u, e) == OutcomeAt(u, e, IF e.occ = 0 THEN 0 ELSE 1)
Outcome(u, e) == OutcomeAt(u, e, IF e.op = "move" THEN 0 ELSE e.occ)

(* read_notes, with frontmatter that does not parse left out; read_outlines *)
(* and read_sections: what a read finds, and its hash.                     *)
Properties(t) ==
    LET lines == InnerLines(t) IN
    IF ~WellFormed(lines) THEN {} ELSE {[k \in {j \in Keys : Has(lines, j)} |-> ValueOf(lines, k)]}
ReadNote(n) == [content |-> Rest(text[n]), frontmatter |-> Properties(text[n])]
Root == [path |-> <<>>, occ |-> 0]
ReadOutline(n) == Outline(text[n])
ReadSection(n, path, occ, scope) ==
    LET d == Parse(text[n]) IN
    IF Found(d, path, occ) THEN {Content(text[n], Index(d, path, occ), scope)} ELSE {}

(* matches_frontmatter: a value or an item of it for each key of `values`,  *)
(* and each key of `exists` there or not as it says.                       *)
FiltersFit(t, filter) ==
    /\ \A k \in DOMAIN filter.values : \E p \in Properties(t) :
          k \in DOMAIN p /\ filter.values[k] \in Range(p[k])
    /\ \A k \in DOMAIN filter.exists : filter.exists[k] = (\E p \in Properties(t) : k \in DOMAIN p)

(* match_query: in the path, which holds no blank and is lowercased as the  *)
(* query is, or in the body, which is not.                                 *)
NameFits(n, q) ==
    LET path == Lowered(PathOf[n]) word == Lowered(q[1]) IN
    Len(q) = 1 /\ (Holds(path, word) \/ (HasCjk(Keywords(q)) /\ Holds(Fold(path), Fold(word))))
QueryFits(n, q, mode) ==
    \/ q = <<>>
    \/ mode \in {"filename", "both"} /\ NameFits(n, q)
    \/ mode \in {"content", "both"} /\ Finds(Rest(text[n]), Keywords(q))

(* run_search: the first `limit` matches behind the cursor in the order of  *)
(* the paths, and the cursor of the next page; 0 for none.                 *)
Listing == SetToSeq(Notes)
PageOf(found, limit) ==
    LET more == Len(found) > limit
        page == IF more THEN SubSeq(found, 1, limit) ELSE found
    IN  [items |-> [k \in DOMAIN page |-> Listing[page[k]]], next |-> IF more THEN Last(page) ELSE 0]
SearchNotes(q, mode, filter, limit, cursor) ==
    PageOf(Ascending({k \in DOMAIN Listing :
                 k > cursor /\ FiltersFit(text[Listing[k]], filter) /\ QueryFits(Listing[k], q, mode)},
              Len(Listing)), limit)
Pages(q, mode, filter, limit) ==
    LET from[c \in 0..Len(Listing)] ==
            LET page == SearchNotes(q, mode, filter, limit, c) IN
            page.items \o IF page.next = 0 THEN <<>> ELSE from[page.next]
    IN  from[0]

-----------------------------------------------------------------------------
(* Where things were and where they should be now: the chain of titles over *)
(* a piece of text, and what the items of an accepted call make of it.     *)
Home(t, p) ==
    LET d == Parse(t)
        over == {i \in DOMAIN d.heads : d.heads[i].start < p}
    IN  IF over = {} THEN 0 ELSE CHOOSE i \in over : \A j \in over : j <= i
Chain(t, p) == IF Home(t, p) = 0 THEN <<>> ELSE Parse(t).heads[Home(t, p)].chain

Target(d, e) == Index(d, e.path, e.occ)
Fresh(n) == call = NoCall \/ text[n] # call.before[n]    \* a text not seen before
Accepted(tool) == call.ok /\ call.tool = tool
ItemsOf(n) == Only(call.items, LAMBDA e : NoteOf[e.note] = n)
Contents == {"replace", "append", "insert_before", "insert_after"}
Aims(d, items, op, i) == {k \in DOMAIN items : items[k].op = op /\ Target(d, items[k]) = i}

(* Does another item of the call replace, cut or move the section of e? *)
Shaken(d, items, e) ==
    \E o \in Range(items) \ {e} :
        LET span == IF o.op = "replace" THEN ContentSpan(d, Target(d, o), o.scope)
                    ELSE SectionSpan(d, Target(d, o))
            at == SectionSpan(d, Target(d, e))
        IN  /\ o.op = "move" \/ (o.op \in {"replace", "delete"} /\ o.scope = "section")
            /\ span[1] <= at[1] /\ at[2] <= span[2]

(* Is c the chain of heading i, the renames of the call made, then tail?    *)
(* Above a section that was moved nothing is said.                         *)
Follows(d, items, i, tail, c) ==
    LET line == {j \in DOMAIN d.heads : i # 0 /\ IsWithin(d, i, j)}
        moved == {j \in line : Aims(d, items, "move", j) # {}}
        kept == Ascending({j \in line : \A m \in moved : IsWithin(d, j, m)}, Len(d.heads))
        title(j) == IF Aims(d, items, "rename", j) = {} THEN Last(d.heads[j].chain)
                    ELSE items[CHOOSE k \in Aims(d, items, "rename", j) : TRUE].content
        now == [k \in DOMAIN kept |-> title(kept[k])] \o tail
    IN  IF moved = {} THEN c = now ELSE IsSuffix(now, c)

(* Does position p of the text lie in what a call takes away? *)
Taken(d, items, p) ==
    \E k \in DOMAIN items :
        LET e == items[k]
            span == IF e.op = "delete" /\ e.scope = "section"
                    THEN SectionSpan(d, Target(d, e))
                    ELSE ContentSpan(d, Target(d, e), e.scope)
        IN  e.op \in {"replace", "delete"} /\ span[1] < p /\ p <= span[2]

Positions(t, tok) == {p \in DOMAIN t : t[p] = tok}
Words(t) ==
    {p \in DOMAIN t : /\ t[p] \notin {NL, Fence, Dashes} \cup Range(Marks)
                      /\ p > Parse(t).body
                      /\ Home(t, p) # 0 => p > Parse(t).heads[Home(t, p)].stop}

Given(tok) == \E e \in Range(call.items) : tok \in Range(e.content)

(* Every note is a sequence of tokens.                                     *)
TypeOK == text \in [Notes -> Texts] /\ calls \in Nat

(* What no item of an edit_sections call takes away is still there, once,   *)
(* and under the same headings: no splice swallows, splits, duplicates or  *)
(* re-parents the text of another section.                                 *)
OthersStay ==
    Accepted("edit_sections") => \A n \in Notes :
        LET t == call.before[n]
            d == Parse(t)
        IN  \A p \in Words(t) : Given(t[p]) \/ Taken(d, ItemsOf(n), p) \/
                \E q \in DOMAIN text[n] :
                    /\ Positions(text[n], t[p]) = {q}
                    /\ Follows(d, ItemsOf(n), Home(t, p), <<>>, Chain(text[n], q))

(* The content of every item of an accepted call is in the note, under the  *)
(* section it was given for (ADR-0025): a replacement and a subsection     *)
(* right under it, appended text somewhere below it, a block beside it.    *)
(* It is nowhere in particular if another item takes that section away.    *)
EditsLand ==
    Accepted("edit_sections") => \A k \in DOMAIN call.items :
        LET e == call.items[k]
            n == NoteOf[e.note]
            d == Parse(call.before[n])
            i == Target(d, e)
            base == IF e.op \in {"replace", "append"} \/ i = 0 THEN i ELSE d.heads[i].parent
        IN  e.op \in Contents /\ ~Shaken(d, ItemsOf(n), e) =>
                \A p \in Words(e.content) : \E q \in Positions(text[n], e.content[p]) :
                    LET under == Chain(e.content, p)
                        c == Chain(text[n], q)
                    IN  IF under = <<>> /\ (e.scope = "section" \/ e.op \notin {"replace", "append"})
                        THEN \E m \in 0..Len(c) : Follows(d, ItemsOf(n), base, SubSeq(c, m + 1, Len(c)), c)
                        ELSE Follows(d, ItemsOf(n), base, under, c)

(* A row of an outline leads back to its own heading, and a section read    *)
(* through the address of one, or the root, and given back as read under   *)
(* its hash changes nothing (ADR-0005, ADR-0025), whatever blank lines and *)
(* line ends it has.                                                       *)
EchoIsNeutral ==
    \A n \in {m \in Notes : Fresh(m)} :
        /\ \A i \in DOMAIN ReadOutline(n) : LET row == ReadOutline(n)[i] IN
            Resolve(Parse(text[n]), row.path, row.occ) = i
        /\ \A row \in Range(ReadOutline(n)) \cup {Root}, scope \in {"body", "section"} :
            LET read == ReadSection(n, row.path, row.occ, scope)
                echo == [op |-> "replace", path |-> row.path, occ |-> row.occ, scope |-> scope,
                         content |-> CHOOSE c \in read : TRUE, hash |-> read]
            IN  /\ read # {}
                /\ PatchOk(text[n], <<echo>>) => Patched(text[n], <<echo>>) = text[n]

(* The hash that comes back for a replacement or for appended text is that  *)
(* of a section that holds it, unless the call also moves, renames or      *)
(* deletes sections: it is looked up by path and occurrence (ADR-0005).    *)
HashesMatch ==
    Accepted("edit_sections") => \A k \in DOMAIN call.items :
        LET e == call.items[k]
            n == NoteOf[e.note]
        IN  (/\ e.op \in {"replace", "append"}
             /\ \A o \in Range(call.items) : o.op \in Contents
             /\ ~Shaken(Parse(call.before[n]), ItemsOf(n), e)) =>
            \A c \in Outcome(text[n], e), p \in Words(e.content) :
                e.scope = "section" \/ Home(e.content, p) = 0 => e.content[p] \in Range(c)

(* The lines reported for a replacement are those where it now stands.      *)
HitsAreThere ==
    Accepted("replace_text") => \A k \in DOMAIN call.items :
        LET e == call.items[k]
            n == NoteOf[e.note]
            t == call.before[n]
            s == ItemSplices(t, Parse(t), e)
        IN  \A j \in DOMAIN s :
                LET before == Only(AllSplices(t, ItemsOf(n)), LAMBDA x : x.start < s[j].start)
                    head == Applied(SubSeq(t, 1, s[j].start), before)
                IN  /\ IsPrefix(head \o e.with, text[n])
                    /\ HitLine(t, ItemsOf(n), s[j]) = LineAt(text[n], Len(head))

(* Setting or removing a property leaves the other properties and the body  *)
(* as they were.                                                           *)
OtherKeysKept ==
    Accepted("edit_properties") => \A n \in Notes :
        LET named == {e.key : e \in Range(ItemsOf(n))}
            unnamed(p) == Restrict(p, DOMAIN p \ named)
        IN  /\ ReadNote(n).content = Rest(call.before[n])
            /\ ItemsOf(n) # <<>> => \E p \in ReadNote(n).frontmatter, old \in Properties(call.before[n]) :
                  unnamed(p) = unnamed(old)

(* search_notes finds a note exactly when each keyword, put in small        *)
(* letters, is in its body up to the case of ASCII letters, as it stands   *)
(* or with the gaps inside CJK terms closed, and shows a line where one of *)
(* them begins, for keywords that cannot overlap; its pages list each      *)
(* match once (ADR-0010).  A capital outside ASCII is thus never found.    *)
Apart(keywords) ==
    \A j, k \in DOMAIN keywords : j # k =>
        /\ ~Holds(keywords[j], keywords[k])
        /\ \A n \in DOMAIN keywords[j] : ~IsPrefix(SubSeq(keywords[j], n, Len(keywords[j])), keywords[k])
InBody(t, keywords) ==
    \A w \in Range(keywords) :
        Holds(LowerAscii(t), w) \/ (HasCjk(keywords) /\ Holds(LowerAscii(Fold(t)), w))
SearchFinds ==
    call = NoCall => \A q \in Queries : LET keywords == Keywords(q) IN Apart(keywords) =>
        /\ \A n \in Notes :
              LET t == Rest(text[n]) IN
              /\ \A m \in Hits(t, keywords) : LowerAscii(t)[m[1] + 1] = Head(keywords[m[2]])
              /\ InBody(t, keywords) =>
                    \E l \in Snippet(t, keywords, 0), w \in Range(keywords) :
                        Head(w) \in Range(LowerAscii(Slice(t, Lines(t)[l])))
        /\ \A filter \in Filters, limit \in 1..2 :
              Pages(q, "content", filter, limit) =
                  Only(Listing, LAMBDA n : FiltersFit(text[n], filter) /\ InBody(Rest(text[n]), keywords))

(* A move of notes spares every text but the destinations of its links, and *)
(* each of those leads to where the move took what it led to (ADR-0022);   *)
(* code is no link.  Links whose destinations overlap, and backticks in a  *)
(* destination, are out.                                                   *)
Apiece(t, d) ==
    /\ \A k \in DOMAIN d : \A q \in d[k][1] + 1 .. d[k][2] : t[q] # Tick
    /\ \A j, k \in DOMAIN d : j < k => d[j][2] <= d[k][1]
Around(t, d) ==
    LET code == Coded(t)
        kept == Ascending({p \in DOMAIN t :
                    p \in code \/ \A k \in DOMAIN d : p <= d[k][1] \/ p > d[k][2]}, Len(t))
    IN  [k \in DOMAIN kept |-> t[kept[k]]]
SameLinks(t, old, note, moves, u, new) ==
    LET target(k) == ResolveDest(note, LinkAt(t, old[k])) IN
    /\ Around(u, new) = Around(t, old)
    /\ Len(new) = Len(old)
    /\ \A k \in DOMAIN old : target(k) # <<>> =>
          ResolveDest(NewPlace(moves, note), LinkAt(u, new[k])) = NewPlace(moves, target(k))
LinksSurvive(t, old, note) ==
    Apiece(t, old) => \A moves \in Relocations :
        LET u == RelinkText(t, note, moves) IN SameLinks(t, old, note, moves, u, Dests(u))
LinksReadBack ==
    call = NoCall => \A n \in {m \in Notes : "](" \in Range(text[m]) \/ "]:" \in Range(text[m])} :
        LinksSurvive(text[n], Dests(text[n]), PathOf[n])
=============================================================================
