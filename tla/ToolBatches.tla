------------------------------ MODULE ToolBatches -------------------------------
(***************************************************************************)
(* The batches the server's tools hand to commit_batch, and the validation *)
(* they pass first: the edit tools write notes that exist, delete_notes    *)
(* trashes paths that do not overlap, move_notes rewrites links at the     *)
(* paths before the move and then moves along pairs without collisions.    *)
(* Paths are opaque, so overlap is equality here.                          *)
(***************************************************************************)
EXTENDS VaultOps, FiniteSets

CONSTANTS
    MaxItems,   \* bound: items in one call
    MaxRelinks, \* bound: link rewrites planned by one move call
    NewContent  \* bodies an edit may produce

Sequences1(S, n) == UNION {[1..m -> S] : m \in 1..n}

Distinct(s, key(_)) ==
    \A i, j \in DOMAIN s : i # j => key(s[i]) # key(s[j])

Paths(o) == o.path

(* edit_sections, replace_text, edit_properties: one write per note. *)
EditBatches ==
    {s \in Sequences1({Write(p, c) : p \in Path, c \in NewContent}, MaxItems) :
        Distinct(s, Paths)}

(* delete_notes: no path twice. *)
DeleteBatches ==
    {s \in Sequences1({Delete(p) : p \in Path}, MaxItems) : Distinct(s, Paths)}

(* check_move_collisions on opaque paths: no source twice, no destination  *)
(* twice, no destination that is a source, its own included.               *)
Collides(m, n) ==
    \/ m.path = n.path
    \/ m.to = n.to
    \/ m.to = n.path
    \/ n.to = m.path

MovesOk(s) ==
    /\ \A i \in DOMAIN s : s[i].path # s[i].to
    /\ \A i, j \in DOMAIN s : i # j => ~Collides(s[i], s[j])

MoveLists ==
    {s \in Sequences1({Move(p, q) : p \in Path, q \in Path}, MaxItems) : MovesOk(s)}

RelinkLists ==
    {<<>>} \cup
    {s \in Sequences1({Write(p, c) : p \in Path, c \in NewContent}, MaxRelinks) :
        Distinct(s, Paths)}

MoveBatches == {r \o m : r \in RelinkLists, m \in MoveLists}

ToolBatches == EditBatches \cup DeleteBatches \cup MoveBatches

(* What the tools check against the vault, under the write guard: every    *)
(* note read, deleted or moved is there. A destination may be occupied     *)
(* (overwrite).                                                            *)
Validated(v, s) == \A i \in DOMAIN s : v[s[i].path] # None
=================================================================================
