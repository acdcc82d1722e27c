------------------------------ MODULE MCVaultSync -------------------------------
(* The server and its repository on two or three notes. *)
EXTENDS VaultSync

CONSTANTS p, q, r,          \* notes
          task, pusher      \* a caller of sync_vault; the auto-push task
=================================================================================
