-------------------------------- MODULE VaultOps --------------------------------
(***************************************************************************)
(* The vocabulary shared by the transaction modules: vault paths, note     *)
(* bodies, the primitive operations a batch is made of (`enum Op` of       *)
(* transaction.rs) and the net effect a batch declares.                    *)
(*                                                                         *)
(* A path is opaque: it stands for one note, or for one directory moved or *)
(* deleted as a unit. Two paths never contain one another.                 *)
(***************************************************************************)
EXTENDS Naturals, Sequences, SequencesExt

CONSTANTS
    Path,       \* vault-relative paths
    Content,    \* note bodies
    None        \* nothing is stored here

ASSUME NoneAssumption == None \notin Content

(* What a place holds: a body, or nothing. *)
Cell == Content \cup {None}

(* `Op`: the three primitive mutations, as records of one shape. `path` is *)
(* what the operation reads, `to` what it fills.                           *)
Write(p, c) == [kind |-> "write",  path |-> p, to |-> p, content |-> c]
Delete(p)   == [kind |-> "delete", path |-> p, to |-> p, content |-> None]
Move(p, q)  == [kind |-> "move",   path |-> p, to |-> q, content |-> None]

Op == {Write(p, c) : p \in Path, c \in Content}
      \cup {Delete(p) : p \in Path}
      \cup {Move(p, q) : p \in Path, q \in Path}

(* The vault after one operation that succeeds. *)
ApplyOp(v, op) ==
    CASE op.kind = "write"  -> [v EXCEPT ![op.path] = op.content]
      [] op.kind = "delete" -> [v EXCEPT ![op.path] = None]
      [] op.kind = "move"   -> [v EXCEPT ![op.to] = v[op.path], ![op.path] = None]

(* The vault a batch declares: its operations applied in order. *)
Effect(v, ops) == FoldLeft(ApplyOp, v, ops)
=================================================================================
