----------------------------- MODULE MCNoteEdits -----------------------------
(* Bounds for NoteEdits. *)
EXTENDS NoteEdits

MCTokens == STRING
MCSpellings == <<"p", "q">>
MCNoteOf == [p |-> "n", q |-> "m"]
MCSchemed == {"y"}
MCKeys == {"k: ", "j: ", "i: "}

(* Unique subsections, and the same title twice; blank lines and none. *)
Other == <<"#", "B", NL, NL, "O", NL>>
TwoParts == <<"o", NL, NL, "#", "A", NL, NL, "a1", NL, NL, "##", "s", NL, "ga", "*", NL, "na", NL,
              "##", "t", NL, NL, "#", "B", NL, "b1">>
Doubled == <<Dashes, NL, "k: ", NL, Item, "1", NL, NL, Item, "2", NL, "#c", NL, "j: ", "3", NL, Dashes, NL,
             "#", "A", NL, "a1", NL, "##", "s", NL, "##", "s", NL, "s1", NL, NL, "#", "B", NL,
             Fence, NL, "#", "O", NL, Fence, NL, "##", "s">>

(* Texts with links: an image in a link and a link behind it, a destination *)
(* on a line of its own, one with parentheses; definitions of references,  *)
(* code in a fence and between backticks.                                  *)
Nested == <<"[", "[", "a", "](", "e", "x", ")", "](", "..", "d", "x", ")", "[", "](", "/", "d", ")">>
Split == <<"[", "[", "]:", "](", NL, "..", "d", "e", NL, ")", NL, NL,
           "[", "](", "d", "](", "x", ")", ")", "[", "](", "d", "x">>
Defs == <<"[", "a", "]:", "d", "x", NL, Fence, NL, "[", "](", "d", ")", NL, Fence, NL,
          "[", "a", "]:", "/", "d", NL, "a", Tick, "[", "](", "d", ")", Tick, "[", "](", "..", "d", ")">>
Short == <<"#", "A", NL, "a1", NL>>
MCStartTexts ==
    {[n |-> t, m |-> Other] : t \in {<<>>, TwoParts, Doubled}}
    \cup {[n |-> Short, m |-> t] : t \in {<<>>, <<"[", "](">>, Nested, Split, Defs}}
MCPathOf == [n |-> <<"n">>, m |-> <<"d", "m">>]
Relocate(from, to) == <<[source |-> from, dest |-> to]>>
MCRelocations ==
    {Relocate(<<"d">>, <<"f">>), Relocate(<<"d">>, <<"f", "g">>), Relocate(<<"d", "m">>, <<"m">>),
     Relocate(<<"d", "d">>, <<"d", ")">>), Relocate(<<"d", "e">>, <<"e">>), Relocate(<<"d", "d", "](">>, <<"x">>),
     Relocate(<<"d", "d">>, <<"d", "](">>)}
MCCjk == {"ga", "na"}
MCGaps == {NL, "*"}
MCSmallOf == "A" :> "a" @@ "S" :> "s" @@ "O" :> "o"     \* O stands for a letter outside ASCII
MCAsciiCapitals == {"A", "S"}
MCAlphabet == [n |-> {NL, "#", "##", "s", "ga", "na"}, m |-> {NL, "[", "](", ")", Tick, "d"}]
MCQueries == {<<<<"ga", "na">>>>, <<<<"ga">>, <<"na", "*">>>>, <<<<"S">>, <<"na", "ga">>>>,
              <<<<"A">>, <<"O">>>>}

MCFilters == {[values |-> [k \in {"k: "} |-> "2"], exists |-> [k \in {"j: "} |-> TRUE]],
              [values |-> <<>>, exists |-> [k \in {"j: "} |-> FALSE]]}

Edit == [note |-> "p", path |-> <<>>, occ |-> 0, op |-> "replace", scope |-> "body",
         content |-> <<>>, dest |-> <<>>, destocc |-> 0, pos |-> "before", hash |-> {}]
A == <<"A">>
B == <<"B">>
s == <<"s">>
At(path, occ) == [Edit EXCEPT !.path = path, !.occ = occ]
Ats == {At(p, 0) : p \in {<<A>>, <<B>>, <<A, s>>, <<s>>, <<B, s>>, <<>>}} \cup {At(<<A, s>>, 2)}
New(w) == {<<w>>, <<"##", "x", NL, w, NL>>, <<NL, w, NL, NL>>, <<"#", "y", NL, w>>}
MCEdits(contents, titles, dests) ==
    {[at EXCEPT !.op = op, !.scope = sc, !.content = c] :
        at \in Ats, op \in {"replace", "append"}, sc \in {"body", "section"}, c \in contents}
    \cup {[at EXCEPT !.op = "delete", !.scope = sc] : at \in Ats, sc \in {"body", "section"}}
    \cup {[at EXCEPT !.op = op, !.content = c] :
        at \in Ats, op \in {"insert_before", "insert_after"}, c \in contents}
    \cup {[at EXCEPT !.op = "rename", !.content = title] : at \in Ats, title \in titles}
    \cup {[at EXCEPT !.op = "move", !.dest = q.path, !.destocc = q.occ, !.pos = x] :
        at \in Ats, q \in dests, x \in {"before", "after"}}

(* A section put before the root's text takes it over: left out. *)
Usual(e) == /\ ~(e.op = "insert_before" /\ e.path = <<>>)
            /\ ~(e.op = "move" /\ e.dest = <<>> /\ e.pos = "before")
Singles == {e \in MCEdits(New("v"), {<<"r">>, <<"r", NL>>, <<>>}, Ats) : Usual(e)}
Paired(content, q, skipped) ==
    {e \in MCEdits({content}, {<<"r">>}, {q}) : Usual(e) /\ e.path \notin skipped}
Pairs == Paired(<<"##", "x", NL, "v">>, At(<<B>>, 0), {<<s>>})
            \X Paired(<<"w">>, At(<<A, s>>, 2), {<<s>>, <<B, s>>})
Elsewhere == {[At(p, 0) EXCEPT !.note = "q", !.content = <<"w">>] : p \in {<<B>>, <<s>>}}
MCEditBatches == {<<a>> : a \in Singles} \cup Pairs \cup (Singles \X Elsewhere)

Swap == [note |-> "p", path |-> <<>>, occ |-> 0, scope |-> "section", find |-> <<>>,
         with |-> <<>>, all |-> FALSE, count |-> {}, hash |-> {}]
MCSwaps == {[Swap EXCEPT !.path = at.path, !.occ = at.occ, !.scope = sc, !.find = f, !.with = w, !.all = all] :
    at \in Ats, sc \in {"body", "section"}, all \in BOOLEAN,
    f \in {<<"s">>, <<NL, NL>>, <<"a1", NL>>, <<NL, "#">>, <<"b1">>},
    w \in {<<>>, <<"u">>, <<"u", NL, "u">>, <<NL, "u">>}}
Whole == {e \in MCSwaps : e.path = <<>> /\ e.scope = "section"}
MCReplaceBatches == {<<a>> : a \in MCSwaps} \cup {<<a, b>> : a \in Whole, b \in Whole}

MCSettings == {[note |-> "p", key |-> k, value |-> v] :
    k \in MCKeys, v \in {<<>>, <<"7">>, <<"7", "8">>}}
MCPropertyBatches == {<<a>> : a \in MCSettings} \cup {<<a, b>> : a, b \in MCSettings}
=============================================================================
