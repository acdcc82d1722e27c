------------------------------ MODULE Document ------------------------------
(***************************************************************************)
(* The section model of a note (document.rs, section.rs).  A note's text   *)
(* is a sequence of tokens: "nl" is a newline, "#", "##", "###" at the     *)
(* head of a line the marker of a heading, "~~~" that of a code fence and  *)
(* "---" a line of its own around the frontmatter; any other token is a    *)
(* piece of text.  Offsets are Rust's: position p has p tokens before it.  *)
(* A line of blanks is an empty line, and titles are compared after NFC.   *)
(***************************************************************************)
EXTENDS Naturals, Sequences, SequencesExt

NL == "nl"
Fence == "~~~"
Dashes == "---"
Marks == <<"#", "##", "###">>
Level(tok) == CHOOSE l \in DOMAIN Marks : Marks[l] = tok

Slice(t, span) == SubSeq(t, span[1] + 1, span[2])

(* The numbers of S up to n in their order, and the elements of a sequence  *)
(* that pass a test, in theirs; stated so that both can be proved about.   *)
Ascending(S, n) ==
    LET below[k \in 0 .. n + 1] ==
            IF k = 0 THEN <<>>
            ELSE IF k - 1 \in S THEN Append(below[k - 1], k - 1) ELSE below[k - 1]
    IN  below[n + 1]
Only(s, test(_)) ==
    LET at == Ascending({k \in DOMAIN s : test(s[k])}, Len(s)) IN [k \in DOMAIN at |-> s[at[k]]]

(* line_spans: the lines as spans, their newlines included. *)
Lines(t) ==
    LET starts == Ascending({p \in 0 .. Len(t) - 1 : p = 0 \/ t[p] = NL}, Len(t))
    IN  [k \in DOMAIN starts |->
            <<starts[k], IF k = Len(starts) THEN Len(t) ELSE starts[k + 1]>>]

(* A line without its newline. *)
LineText(t, line) == Slice(t, <<line[1], IF t[line[2]] = NL THEN line[2] - 1 ELSE line[2]>>)

(* detect_frontmatter: the number of lines of a terminated leading block. *)
FrontLines(t, lines) ==
    LET closing == {k \in 2..Len(lines) : LineText(t, lines[k]) = <<Dashes>>} IN
    IF lines = <<>> \/ LineText(t, lines[1]) # <<Dashes>> \/ closing = {}
    THEN 0 ELSE CHOOSE k \in closing : \A j \in closing : k <= j

(* Is line k inside a code fence, or one of its two markers? *)
Fenced(t, lines, front) ==
    LET marks(k) == t[lines[k][1] + 1] = Fence
        open[k \in front..Len(lines)] ==
            IF k = front THEN FALSE
            ELSE IF open[k - 1] THEN LineText(t, lines[k]) # <<Fence>>
            ELSE marks(k)
    IN  {k \in front + 1 .. Len(lines) : open[k] \/ marks(k)}

(* The lines that are headings, and what they make of the note: the end of  *)
(* the frontmatter and the headings in order, each with its chain of       *)
(* titles, outermost first; parent 0 is none.                              *)
HeadingLines(t, lines, front) ==
    LET fenced == Fenced(t, lines, front) IN
    Ascending({k \in front + 1 .. Len(lines) :
                  /\ k \notin fenced
                  /\ \E l \in DOMAIN Marks : t[lines[k][1] + 1] = Marks[l]}, Len(lines))
Structure(t, lines, front, rows) ==
    LET level(i) == Level(t[lines[rows[i]][1] + 1])
        above(i) == {j \in 1 .. i - 1 : level(j) < level(i)}
        parent(i) == IF above(i) = {} THEN 0
                     ELSE CHOOSE j \in above(i) : \A k \in above(i) : k <= j
        title(i) == Tail(LineText(t, lines[rows[i]]))
        chain[i \in DOMAIN rows] ==
            IF parent(i) = 0 THEN <<title(i)>> ELSE Append(chain[parent(i)], title(i))
    IN  [body |-> IF front = 0 THEN 0 ELSE lines[front][2],
         size |-> Len(t),
         heads |-> [i \in DOMAIN rows |->
            [level |-> level(i), chain |-> chain[i], parent |-> parent(i),
             line |-> rows[i], start |-> lines[rows[i]][1], stop |-> lines[rows[i]][2]]]]
ParseLines(t, lines, front) == Structure(t, lines, front, HeadingLines(t, lines, front))

(* Document::parse. *)
Parse(t) == LET lines == Lines(t) IN ParseLines(t, lines, FrontLines(t, lines))

(* Heading 0 is the root.  section_span, own_body_span and their root      *)
(* forms; a section reaches to the next heading of its level or above.     *)
EndOf(d, is) ==
    IF is = {} THEN d.size ELSE d.heads[CHOOSE i \in is : \A j \in is : i <= j].start
SectionSpan(d, i) ==
    IF i = 0 THEN <<d.body, d.size>>
    ELSE <<d.heads[i].start,
           EndOf(d, {j \in i + 1 .. Len(d.heads) : d.heads[j].level <= d.heads[i].level})>>

(* content_span: what a read returns, an edit addresses and a hash covers, *)
(* the heading line excluded.  A hash stands for the content itself.       *)
ContentSpan(d, i, scope) ==
    LET from == IF i = 0 THEN d.body ELSE d.heads[i].stop IN
    <<from, IF scope = "section" THEN SectionSpan(d, i)[2]
            ELSE EndOf(d, i + 1 .. Len(d.heads))>>
Content(t, i, scope) == Slice(t, ContentSpan(Parse(t), i, scope))

(* resolve_heading: the headings whose full chain is the path come first,  *)
(* and only they are counted by occurrence; a suffix must be unique.       *)
(* occ 0 is None (one given as 0 is refused and left out), the result 0 no  *)
(* heading.  Bug: no full chain goes first.                                *)
Matches(d, test(_)) ==
    Ascending({i \in DOMAIN d.heads : test(d.heads[i].chain)}, Len(d.heads))
ResolveBySuffix(d, path, occ) ==
    LET suffix == Matches(d, LAMBDA c : IsSuffix(path, c)) IN
    IF occ # 0 THEN IF occ \in DOMAIN suffix THEN suffix[occ] ELSE 0
    ELSE IF Len(suffix) = 1 THEN suffix[1] ELSE 0
Resolve(d, path, occ) ==
    LET exact == Matches(d, LAMBDA c : c = path)
        suffix == Matches(d, LAMBDA c : IsSuffix(path, c))
        found == IF exact # <<>> THEN exact ELSE suffix
    IN  IF occ # 0 THEN IF occ \in DOMAIN exact THEN exact[occ] ELSE 0
        ELSE IF Len(found) = 1 THEN found[1] ELSE 0

(* Does an address lead anywhere; the empty path is the root. *)
Index(d, path, occ) == IF path = <<>> THEN 0 ELSE Resolve(d, path, occ)
Found(d, path, occ) == path = <<>> \/ Resolve(d, path, occ) # 0

(* is_within: heading i lies in the subtree of heading j. *)
IsWithin(d, i, j) ==
    /\ i # 0 /\ j <= i
    /\ \A k \in j + 1 .. i : d.heads[k].level > d.heads[j].level

(* outline: the shortest address that leads back to the heading. *)
Address(d, i) ==
    LET chain == d.heads[i].chain
        last(k) == SubSeq(chain, Len(chain) - k + 1, Len(chain))
        good == {k \in DOMAIN chain : Resolve(d, last(k), 0) = i}
        same == Matches(d, LAMBDA c : c = chain)
    IN  IF good # {}
        THEN [path |-> last(CHOOSE k \in good : \A j \in good : k <= j), occ |-> 0]
        ELSE [path |-> chain, occ |-> CHOOSE n \in DOMAIN same : same[n] = i]
Outline(t) == LET d == Parse(t) IN [i \in DOMAIN d.heads |-> Address(d, i)]
=============================================================================
