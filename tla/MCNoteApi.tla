------------------------------ MODULE MCNoteApi ------------------------------
(* Bounds for NoteApi: an agent with the tools and a script with the API.  *)
EXTENDS NoteApi

MCClients == {"agent", "script"}
MCDoes == [agent |-> {"create", "append", "edit", "delete", "page"},
           script |-> {"put", "get", "index"}]
MCWithin == [agent |-> Notes, script |-> {1, 2}]
=============================================================================
