------------------------------- MODULE Search -------------------------------
(***************************************************************************)
(* How search_notes decides on a note and finds the place to show          *)
(* (tools_search.rs, cjk_fold.rs).  NFC is left out: text and query are    *)
(* both normalized.  Case is not: a keyword is lowercased, but of the text *)
(* the automaton takes only the capitals of ASCII for small letters.       *)
(***************************************************************************)
EXTENDS Document, FiniteSets

CONSTANTS
    Cjk, Gaps,      \* tokens of CJK scripts, and those a term may be split by
    SmallOf,        \* the small letter of each capital,
    AsciiCapitals   \* and which of them are ASCII

ASSUME GapAssumption == Cjk \cap Gaps = {}
ASSUME CaseAssumption == AsciiCapitals \subseteq DOMAIN SmallOf

(* str::to_lowercase, and what ascii_case_insensitive makes of a text.      *)
LowerOnly(s, capitals) == [k \in DOMAIN s |-> IF s[k] \in capitals THEN SmallOf[s[k]] ELSE s[k]]
Lowered(s) == LowerOnly(s, DOMAIN SmallOf)
LowerAscii(s) == LowerOnly(s, AsciiCapitals)
Keywords(words) == [k \in DOMAIN words |-> Lowered(words[k])]

Occurs(t, word, p) == p + Len(word) <= Len(t) /\ SubSeq(t, p + 1, p + Len(word)) = word
Holds(t, word) == \E p \in 0..Len(t) : Occurs(t, word, p)

(* The automaton's matches: from where it stands the one that ends first,   *)
(* of those the longest, of equal keywords the first; then it starts anew. *)
(* Bug: a text is read as it is spelled.                                   *)
Endings(t, keywords, e) ==
    {m \in (0..e) \X DOMAIN keywords :
        m[1] + Len(keywords[m[2]]) = e /\ Occurs(t, keywords[m[2]], m[1])}
Sooner(m, n) == m[1] < n[1] \/ (m[1] = n[1] /\ m[2] < n[2])
Advance(s, x) ==
    LET open == {m \in x.ends : m[1] >= s.from}
        new == {m \in open : \A n \in open \ {m} : Sooner(m, n)}
    IN  [from |-> IF new = {} THEN s.from ELSE x.at, hits |-> s.hits \cup new]
ScanSpelled(t, keywords) ==
    FoldLeft(Advance, [from |-> 0, hits |-> {}],
             [e \in DOMAIN t |-> [at |-> e, ends |-> Endings(t, keywords, e)]]).hits
Scan(t, keywords) == ScanSpelled(LowerAscii(t), keywords)

(* bridgeable_gap after position p: where it ends; p for none. *)
GapEnd(t, p) ==
    LET stop == CHOOSE e \in p..Len(t) : /\ \A q \in p + 1 .. e : t[q] \in Gaps
                                         /\ e = Len(t) \/ t[e + 1] \notin Gaps
    IN  IF /\ p > 0 /\ t[p] \in Cjk /\ stop < Len(t) /\ t[stop + 1] \in Cjk
           /\ Cardinality({q \in p + 1 .. stop : t[q] = NL}) < 2
        THEN stop ELSE p

(* fold: the text without its gaps, and the way back to the original.       *)
(* Bug: an offset right behind a gap is taken for one before it.           *)
Bridged(t) == {p \in 0..Len(t) : GapEnd(t, p) > p}
Fold(t) ==
    LET kept == Ascending({q \in DOMAIN t : \A p \in Bridged(t) : q <= p \/ q > GapEnd(t, p)}, Len(t))
    IN  [k \in DOMAIN kept |-> t[kept[k]]]
Removals(t) ==
    LET gaps == Ascending(Bridged(t), Len(t))
        total[k \in 0..Len(gaps)] ==
            IF k = 0 THEN 0 ELSE total[k - 1] + GapEnd(t, gaps[k]) - gaps[k]
    IN  [k \in DOMAIN gaps |-> [at |-> gaps[k] - total[k - 1], removed |-> total[k]]]
ToOriginalBy(t, offset, reached(_, _)) ==
    LET removals == Removals(t)
        passed == {k \in DOMAIN removals : reached(removals[k].at, offset)}
    IN  offset + IF passed = {} THEN 0 ELSE removals[Max(passed)].removed
ToOriginalLate(t, offset) == ToOriginalBy(t, offset, LAMBDA a, b : a < b)
ToOriginal(t, offset) == ToOriginalBy(t, offset, LAMBDA a, b : a <= b)

(* match_query: the keywords seen and the offsets they were seen at; what   *)
(* the raw scan leaves unanswered is looked for in the folded text.        *)
HasCjk(keywords) == \E w \in Range(keywords) : Range(w) \cap Cjk # {}
FoldedScan(t, keywords) == {<<ToOriginal(t, m[1]), m[2]>> : m \in Scan(Fold(t), keywords)}
Hits(t, keywords) ==
    LET raw == Scan(t, keywords) IN
    IF HasCjk(keywords) /\ {m[2] : m \in raw} # DOMAIN keywords
    THEN raw \cup FoldedScan(t, keywords) ELSE raw
Finds(t, keywords) == {m[2] : m \in Hits(t, keywords)} = DOMAIN keywords

(* build_snippet: the line of the first hit, `around` lines before and      *)
(* after it included; and match_count.                                     *)
LineOf(t, offset) == Cardinality({q \in 1..offset : t[q] = NL}) + 1
HitLines(t, keywords) == {LineOf(t, m[1]) : m \in Hits(t, keywords)}
Snippet(t, keywords, around) ==
    LET first == CHOOSE l \in HitLines(t, keywords) : \A k \in HitLines(t, keywords) : l <= k IN
    {l \in DOMAIN Lines(t) : l + around >= first /\ l <= first + around}
=============================================================================
