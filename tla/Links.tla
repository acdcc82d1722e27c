--------------------------------- MODULE Links ---------------------------------
(***************************************************************************)
(* The links of a note's body and their rewriting as text (links.rs and    *)
(* rewrite_body of relink.rs).  To the tokens of Document come "[", "](",  *)
(* "]:", ")", Tick and "/" at the head of a destination; any other token   *)
(* inside one is a segment of it.  An image is a link; escapes, titles,    *)
(* fragments, angle brackets, indented code, tabs and spaces are left out. *)
(***************************************************************************)
EXTENDS Document, Relink, FiniteSets, FiniteSetsExt

Tick == "tick"

(* blank_line_follows: a paragraph, and what it holds open, ends at p. *)
Ends(t, p) == p = Len(t) \/ (t[p] = NL /\ t[p + 1] = NL)

(* code_mask: the positions in fenced lines, and from a run of backticks to *)
(* the next run as long as it in one paragraph; a run without one is text. *)
FencedAt(t) ==
    LET lines == Lines(t) IN
    UNION {lines[k][1] + 1 .. lines[k][2] : k \in Fenced(t, lines, 0)}
Coded(t) ==
    LET fenced == FencedAt(t)
        run(p) == {q \in p .. Len(t) : \A r \in p .. q : t[r] = Tick}
        starts(p) == t[p] = Tick /\ (p = 1 \/ t[p - 1] # Tick)
        closes(p) == {q \in p + 1 .. Len(t) :
                        /\ starts(q) /\ Cardinality(run(q)) = Cardinality(run(p))
                        /\ \A r \in p .. q : r \notin fenced /\ ~(t[r] = NL /\ Ends(t, r))}
        last(p) == CHOOSE q \in closes(p) : \A r \in closes(p) : q <= r
        step(s, p) ==
            IF p < s.from \/ ~starts(p) \/ closes(p) = {} THEN s
            ELSE LET end == last(p) + Cardinality(run(p)) IN
                 [from |-> end, mask |-> s.mask \cup (p .. end - 1)]
    IN  FoldLeft(step, [from |-> 1, mask |-> fenced], [p \in DOMAIN t |-> p]).mask

(* parse_dest from position p on: the position behind the bare run, whose   *)
(* parentheses are balanced; 0 for none.                                   *)
DestEnd(t, p) ==
    LET depth[q \in p - 1 .. Len(t)] ==
            IF q < p THEN 0
            ELSE depth[q - 1] + (IF t[q] = "](" THEN 1 ELSE IF t[q] = ")" THEN -1 ELSE 0)
        stops == {q \in p .. Len(t) : t[q] = NL \/ (t[q] = ")" /\ depth[q - 1] = 0)}
        stop == IF stops = {} THEN Len(t) + 1 ELSE CHOOSE q \in stops : \A r \in stops : q <= r
    IN  IF depth[stop - 1] = 0 THEN stop ELSE 0

(* parse_refdef: "[label]: dest" and nothing else is a line of its own.    *)
RefDefs(t, mask) ==
    {r \in (DOMAIN t) \X (DOMAIN t) \X (2 .. Len(t) + 1) :
        LET s == r[1] d == r[2] e == r[3] IN
        /\ t[s] = "[" /\ s \notin mask /\ (s = 1 \/ t[s - 1] = NL)
        /\ s + 2 < d /\ t[d - 1] = "]:"
        /\ \A q \in s + 1 .. d - 2 : t[q] \notin {"[", "](", "]:", NL}
        /\ d < e /\ e = DestEnd(t, d) /\ (e > Len(t) \/ t[e] = NL)}

(* parse_inline_at a bracket: where its text, in which brackets balance,   *)
(* gives way to a destination that is closed.  Newlines may come before    *)
(* and behind the destination, one each.                                   *)
OneLine(t, p) == IF p <= Len(t) /\ t[p] = NL /\ ~Ends(t, p) THEN p + 1 ELSE p
LinkTo(t, s, c, d, e) ==
    IF e # 0 /\ OneLine(t, e) <= Len(t) /\ t[OneLine(t, e)] = ")"
    THEN {[start |-> s, text |-> c, dest |-> d, stop |-> e, end |-> OneLine(t, e)]} ELSE {}
LinkFrom(t, s, c, d) == LinkTo(t, s, c, d, DestEnd(t, d))
InlineAt(t, mask, s) ==
    LET opens(q) == q \notin mask /\ t[q] = "["
        shuts(q) == q \notin mask /\ t[q] \in {"](", "]:"}
        depth[q \in s .. Len(t)] ==
            IF q = s THEN 1
            ELSE depth[q - 1] + (IF opens(q) THEN 1 ELSE IF shuts(q) THEN -1 ELSE 0)
        closed == {q \in s + 1 .. Len(t) :
                     /\ depth[q] = 0 /\ t[q] = "]("
                     /\ \A r \in s + 1 .. q - 1 :
                           depth[r] # 0 /\ (r \notin mask => ~(t[r] = NL /\ Ends(t, r)))}
    IN  UNION {LinkFrom(t, s, c, OneLine(t, c + 1)) : c \in closed}

(* scan_inline: a link found ends the scan of what it spans, but its text   *)
(* is scanned as well.                                                     *)
Inline(t, mask) ==
    LET tries[s \in 1 .. Len(t) + 1, lim \in 0 .. Len(t) + 1] ==
            IF s >= lim THEN {}
            ELSE IF s \in mask \/ t[s] # "[" \/ InlineAt(t, mask, s) = {}
            THEN tries[s + 1, lim]
            ELSE UNION {{l} \cup tries[s + 1, l.text] \cup tries[l.end + 1, lim] :
                           l \in InlineAt(t, mask, s)}
    IN  tries[1, Len(t) + 1]

(* extract_links: where the destinations stand, in their order.             *)
(* Bug: code is read like any text.                                        *)
SpansOf(t, code, refs) ==
    LET mask == code \cup UNION {r[1] .. r[3] - 1 : r \in refs} IN
    {<<r[2] - 1, r[3] - 1>> : r \in refs} \cup {<<l.dest - 1, l.stop - 1>> : l \in Inline(t, mask)}
DestsIn(t, code) ==
    SetToSortSeq(SpansOf(t, code, RefDefs(t, code)), LAMBDA a, b : a[1] < b[1])
DestsUnmasked(t) == DestsIn(t, {})
Dests(t) == DestsIn(t, Coded(t))

(* A destination as a link of Relink, and as it is spelled: percent_encode  *)
(* spares a rewritten one what would end or unbalance it.                  *)
Escapes == {<<"](", "]%28">>, <<")", "%29">>}
Decoded(tok) == IF \E e \in Escapes : e[2] = tok THEN (CHOOSE e \in Escapes : e[2] = tok)[1] ELSE tok
Encoded(tok) == IF \E e \in Escapes : e[1] = tok THEN (CHOOSE e \in Escapes : e[1] = tok)[2] ELSE tok
LinkAt(t, span) ==
    LET dest == Slice(t, span)
        abs == dest # <<>> /\ dest[1] = "/"
        segs == IF abs THEN Tail(dest) ELSE dest
    IN  [abs |-> abs, coded |-> FALSE, segs |-> [k \in DOMAIN segs |-> Decoded(segs[k])]]
Spelled(link) ==
    (IF link.abs THEN <<"/">> ELSE <<>>) \o [k \in DOMAIN link.segs |-> Encoded(link.segs[k])]

(* rewrite_body: from the last destination to the first. *)
RelinkText(t, note, moves) ==
    LET backward == Reverse(Dests(t))
        one(u, span) ==
            IF ~Touched(LinkAt(t, span), note, moves) THEN u
            ELSE SubSeq(u, 1, span[1]) \o Spelled(Rewritten(LinkAt(t, span), note, moves))
                     \o SubSeq(u, span[2] + 1, Len(u))
    IN  FoldLeft(one, t, backward)
=================================================================================
