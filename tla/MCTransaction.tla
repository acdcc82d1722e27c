----------------------------- MODULE MCTransaction ------------------------------
(* The transaction engine fed with the batches the tools submit. *)
EXTENDS Transaction, ToolBatches

CONSTANTS p, q, r,          \* three paths
          a, b, w           \* two original bodies and one new body

(* Two notes with bodies of their own and one free name. *)
TwoNotes == {[x \in Path |-> CASE x = p -> a [] x = q -> b [] OTHER -> None]}

(* Any caller of the md-core API: a batch that was never validated, or was *)
(* validated before another program changed the vault.                     *)
Unvalidated(v, s) == TRUE

(* Callers of the API may also move a path onto itself, or delete a name   *)
(* twice in one batch.                                                     *)
CoreBatches ==
    ToolBatches \cup {<<Write(p, w), Move(q, q)>>, <<Delete(p), Write(p, w), Delete(p)>>}
=================================================================================
