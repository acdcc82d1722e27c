---------------------------- MODULE Frontmatter ----------------------------
(***************************************************************************)
(* The byte-preserving edits of a note's properties (frontmatter.rs).  In  *)
(* the frontmatter a line that begins with a token of Keys is that key's,  *)
(* one that begins with Item continues the value above it, an empty one    *)
(* separates, and any other is a comment.                                  *)
(***************************************************************************)
EXTENDS Document

CONSTANT Keys

Item == "- "

ASSUME KeyAssumption == Keys \cap {NL, Dashes, Item} = {}

(* The lines between the delimiters, without their newlines. *)
InnerLines(t) ==
    LET lines == Lines(t)
        front == FrontLines(t, lines)
    IN  [k \in 1 .. (IF front = 0 THEN 0 ELSE front - 2) |-> LineText(t, lines[k + 1])]
Rest(t) == SubSeq(t, Parse(t).body + 1, Len(t))
Rebuilt(lines, rest) ==
    <<Dashes, NL>> \o FlattenSeq([k \in DOMAIN lines |-> Append(lines[k], NL)])
    \o <<Dashes, NL>> \o rest

Continues(line) == line # <<>> /\ line[1] = Item
IsKey(line) == line # <<>> /\ line[1] \in Keys
KeyLines(lines, key) == {k \in DOMAIN lines : lines[k] # <<>> /\ lines[k][1] = key}

(* How YAML reads the block: each item belongs to the last key above it,   *)
(* comments and empty lines in between are nothing.  An item needs a key   *)
(* that has no value on its own line, and no key comes twice.              *)
OwnerOf(lines, k) == {j \in 1..k : IsKey(lines[j]) /\ \A i \in j + 1 .. k : ~IsKey(lines[i])}
WellFormed(lines) ==
    /\ \A k \in DOMAIN lines : Continues(lines[k]) =>
          \E j \in OwnerOf(lines, k) : Len(lines[j]) = 1
    /\ \A key \in Keys : \A j, k \in KeyLines(lines, key) : j = k
ValueOf(lines, key) ==
    FlattenSeq([k \in DOMAIN lines |->
        IF \E j \in OwnerOf(lines, k) : lines[j][1] = key
        THEN IF IsKey(lines[k]) \/ Continues(lines[k]) THEN Tail(lines[k]) ELSE <<>>
        ELSE <<>>])
Has(lines, key) == KeyLines(lines, key) # {}

(* key_extent: the lines from..to of a key and its value, empty lines       *)
(* inside the value included and those behind it not.                      *)
(* Bug: it ends with the last item of the block.                           *)
ExtentToLastItem(lines, k) ==
    LET ends == {j \in k .. Len(lines) : j = k \/ Continues(lines[j])} IN
    CHOOSE j \in ends : \A i \in ends : i <= j
Extent(lines, k) ==
    LET within(j) == \A i \in k + 1 .. j : Continues(lines[i]) \/ lines[i] = <<>>
        ends == {j \in k .. Len(lines) : within(j) /\ (j = k \/ Continues(lines[j]))}
    IN  CHOOSE j \in ends : \A i \in ends : i <= j

Without(lines, key, new) ==
    IF ~Has(lines, key) THEN lines \o new
    ELSE LET k == CHOOSE j \in KeyLines(lines, key) : TRUE IN
         SubSeq(lines, 1, k - 1) \o new \o SubSeq(lines, Extent(lines, k) + 1, Len(lines))

(* set_property, for a value of one piece or of a list of pieces; the key   *)
(* must read back as it was set.                                           *)
Emitted(key, value) ==
    IF Len(value) = 1 THEN <<<<key>> \o value>>
    ELSE <<<<key>>>> \o [k \in DOMAIN value |-> <<Item, value[k]>>]
SetTo(t, key, value) ==
    IF Parse(t).body = 0 THEN Rebuilt(Emitted(key, value), t)
    ELSE Rebuilt(Without(InnerLines(t), key, Emitted(key, value)), Rest(t))
SetOk(t, key, value) ==
    LET after == InnerLines(SetTo(t, key, value)) IN
    WellFormed(InnerLines(t)) /\ WellFormed(after) /\ ValueOf(after, key) = value

(* remove_property: the block goes with its last line; every other key must *)
(* read back as it was.                                                    *)
Removed(t, key) ==
    LET kept == Without(InnerLines(t), key, <<>>) IN
    IF \A k \in DOMAIN kept : kept[k] = <<>> THEN Rest(t) ELSE Rebuilt(kept, Rest(t))
RemoveOk(t, key) ==
    LET before == InnerLines(t)
        after == InnerLines(Removed(t, key))
    IN  /\ WellFormed(before) /\ Has(before, key) /\ WellFormed(after) /\ ~Has(after, key)
        /\ \A k \in Keys \ {key} : /\ Has(after, k) <=> Has(before, k)
                                   /\ ValueOf(after, k) = ValueOf(before, k)
=============================================================================
