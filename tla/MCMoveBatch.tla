------------------------------ MODULE MCMoveBatch -------------------------------
(* move_notes on every tree over a few paths, two items per call. *)
EXTENDS MoveBatch

Dirs == {"d", "e"}
Names == {"x", "y"}
NameRank == "d" :> 1 @@ "e" :> 2 @@ "f" :> 3 @@ "x" :> 4 @@ "y" :> 5
AllDirs == Dirs \cup {"f"}

Universe == {<<"d">>, <<"d", "x">>, <<"d", "e">>, <<"d", "e", "x">>,
             <<"e">>, <<"e", "x">>, <<"y">>}

(* What the notes link to: up, down, across, from the root, past the root, *)
(* to themselves.                                                          *)
To(segs) == [abs |-> FALSE, coded |-> FALSE, segs |-> segs]
From(segs) == [abs |-> TRUE, coded |-> FALSE, segs |-> segs]

LinksOf ==
    <<"d", "x">> :> <<To(<<"e", "x">>), To(<<"..", "e", "x">>), From(<<"y">>), To(<<".", "x">>)>>
    @@ <<"d", "e", "x">> :> <<To(<<"..", "x">>), To(<<"..", "..", "e", "x">>),
                              From(<<"d", "e", "x">>)>>
    @@ <<"e", "x">> :> <<To(<<"..", "d", "e", "x">>), To(<<"..", "..", "y">>), To(<<"..", "y">>)>>
    @@ <<"y">> :> <<To(<<"d", "..", "d", "x">>), From(<<"e", "x">>), To(<<"d", "e", "x">>)>>

Body(q) == IF IsNote(q) THEN [of |-> q, links |-> LinksOf[q]] ELSE Directory

(* Every tree whose directories hold what is below them. *)
AllTrees ==
    {[q \in S |-> Body(q)] :
        S \in {T \in SUBSET Universe : \A q \in T : Parents(q) \subseteq T}}

Asked == Universe \cup {<<"f">>, <<"f", "x">>, <<"e", "d">>, <<"e", "d", "y">>, <<"x">>, <<"x", "f">>}

AnyCall(t, call) == TRUE

(* Calls that may lead through the place of a moved note. *)
NestedPlain(t, call) ==
    \A i, j \in DOMAIN call : ~Above(call[i], call[j]) /\ ~Brought(t, call[i], call[j])
=================================================================================
