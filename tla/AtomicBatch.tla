------------------------------ MODULE AtomicBatch -------------------------------
(***************************************************************************)
(* What `Vault::commit_batch` promises its callers (ADR-0007): a submitted *)
(* batch takes effect in one indivisible step or not at all, a crash       *)
(* before that step forgets it, and every batch is settled one way or the  *)
(* other. Nothing else but a single-note write changes the vault.          *)
(***************************************************************************)
EXTENDS VaultOps

CONSTANT Batches        \* the operation sequences callers may submit

VARIABLES
    vault,      \* [Path -> Cell], the notes a reader would find
    request,    \* the batch being worked on, << >> when there is none
    outcome     \* what the last batch was told: "none", "ok" or "err"

vars == <<vault, request, outcome>>

TypeOK ==
    /\ vault \in [Path -> Cell]
    /\ request \in Batches \cup {<<>>}
    /\ outcome \in {"none", "ok", "err"}

Init ==
    /\ vault \in [Path -> Cell]
    /\ request = <<>>
    /\ outcome = "none"

Submit ==
    /\ request = <<>>
    /\ request' \in Batches
    /\ outcome' = "none"
    /\ UNCHANGED vault

(* The whole effect, at once. *)
Commit ==
    /\ request # <<>>
    /\ vault' = Effect(vault, request)
    /\ request' = <<>>
    /\ outcome' = "ok"

(* Refused, or rolled back: the caller is told so and nothing changed. *)
Abort ==
    /\ request' = <<>>
    /\ outcome' = "err"
    /\ UNCHANGED vault

(* A crash before the commit point: nobody is told anything. *)
Forget ==
    /\ request' = <<>>
    /\ outcome' = "none"
    /\ UNCHANGED vault

(* A single-note write outside any batch (create, append, PUT). *)
Put ==
    /\ request = <<>>
    /\ \E p \in Path, c \in Content : vault' = [vault EXCEPT ![p] = c]
    /\ UNCHANGED <<request, outcome>>

Settle == Commit \/ (request # <<>> /\ (Abort \/ Forget))

Next == Submit \/ Commit \/ Abort \/ Forget \/ Put

Spec == Init /\ [][Next]_vars /\ WF_vars(Settle)
=================================================================================
