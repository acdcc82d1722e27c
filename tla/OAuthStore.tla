------------------------------- MODULE OAuthStore -------------------------------
(***************************************************************************)
(* The credential store of the built-in OAuth server (oauth.rs): clients,  *)
(* one-time codes and tickets, rotating refresh tokens, and the state file *)
(* that lets them survive a restart. Requests run concurrently; the store  *)
(* sits behind a mutex that is not reentrant, and `persist` takes it once  *)
(* for a snapshot and writes the file after letting it go.                 *)
(*                                                                         *)
(* A step is one critical section, or one file write. Credentials are      *)
(* numbers drawn from a counter (random_token never repeats); a refresh    *)
(* token and the access token issued with it carry the same number. What   *)
(* the flow checks before it looks at the store (PKCE, redirect URIs, the  *)
(* gate token) is one choice between a request that passes and one that    *)
(* does not.                                                               *)
(***************************************************************************)
EXTENDS Naturals, Sequences, FiniteSets, FiniteSetsExt, SequencesExt

CONSTANTS
    Request,            \* requests in flight at once
    MaxClients,         \* MAX_CLIENTS
    Places,             \* paths of notes, as sequences of names
    Asked,              \* what transfer grants are asked for: [write, prefix]
    AccessTtl, RefreshTtl, CodeTtl, TicketTtl, TransferTtl,  \* lifetimes in ticks
    MaxTime,            \* bound on the clock
    MaxDrawn,           \* bound on credentials drawn
    MaxRestarts,        \* bound on restarts
    Faults              \* "disk": writing the state file may fail

ASSUME CapAssumption == MaxClients \in Nat \ {0}
ASSUME TtlAssumption ==
    {AccessTtl, RefreshTtl, CodeTtl, TicketTtl, TransferTtl} \subseteq Nat \ {0}
ASSUME BoundsAssumption == MaxTime \in Nat /\ MaxDrawn \in Nat /\ MaxRestarts \in Nat
ASSUME FaultAssumption == Faults \subseteq {"disk"}
ASSUME AskedAssumption == \A a \in Asked : a.write \in BOOLEAN

(* Records of the store and of what is only kept in memory. *)
Client == [id : Nat, created : Nat]
Grant  == [id : Nat, expires : Nat]

(* Scopes: may it write, is it delegated, and the subtree it is confined to.*)
(* Every credential may read.                                              *)
Subtrees == {a.prefix : a \in Asked}
Scopes == [write : BOOLEAN, delegated : BOOLEAN, prefix : Subtrees \cup {<<>>}]
Full == [write |-> TRUE, delegated |-> FALSE, prefix |-> <<>>]
Scoped == [id : Nat, expires : Nat, scopes : Scopes]

EmptyStore == [clients |-> {}, access |-> {}, refresh |-> {}]
Stores == [clients : SUBSET Client, access : SUBSET Scoped, refresh : SUBSET Grant]

VARIABLES
    now,        \* the clock
    store,      \* behind the mutex
    codes,      \* authorization codes, in memory only
    tickets,    \* transfer codes, in memory only
    file,       \* oauth-state.json
    held,       \* a request that holds the mutex for good, or "free"
    pc,         \* the step of every request
    from,       \* the credential it presented and what that is good for
    gives,      \* the credential it will answer with, or 0
    snap,       \* the bytes it is about to write
    drawn,      \* how many credentials were drawn
    restarts,   \* how often the server was restarted
    granted,    \* history: what was issued for which presented credential
    handed,     \* history: refresh tokens answered and not presented since
    retired,    \* history: refresh tokens whose successor was answered
    asked       \* history: what each ticket was asked for

memory == <<store, codes, tickets>>
request == <<pc, from, gives, snap>>
history == <<granted, handed, retired, asked>>
vars == <<now, memory, file, held, request, drawn, restarts, history>>

Source == [kind : {"none", "code", "refresh", "ticket"}, id : Nat, scopes : Scopes]
Nothing == [kind |-> "none", id |-> 0, scopes |-> Full]

TypeOK ==
    /\ now \in 0..MaxTime
    /\ store \in Stores /\ file \in Stores
    /\ codes \subseteq Grant /\ tickets \subseteq Scoped
    /\ held \in {"free"} \cup Request
    /\ pc \in [Request -> {"idle", "issue", "mint", "persist", "write", "stuck"}]
    /\ from \in [Request -> Source]
    /\ gives \in [Request -> Nat]
    /\ snap \in [Request -> Stores]
    /\ drawn \in Nat /\ restarts \in 0..MaxRestarts
    /\ granted \subseteq [from : Source, id : Nat]
    /\ handed \subseteq Grant /\ retired \subseteq Nat /\ asked \subseteq Scoped

Init ==
    /\ now = 0
    /\ store = EmptyStore /\ codes = {} /\ tickets = {}
    /\ file = EmptyStore
    /\ held = "free"
    /\ pc = [r \in Request |-> "idle"]
    /\ from = [r \in Request |-> Nothing]
    /\ gives = [r \in Request |-> 0]
    /\ snap = [r \in Request |-> EmptyStore]
    /\ drawn = 0 /\ restarts = 0
    /\ granted = {} /\ handed = {} /\ retired = {} /\ asked = {}

-----------------------------------------------------------------------------
Live(g) == g.expires > now
Fresh == drawn + 1
Draw == drawn' = Fresh

(* A new request finds a thread free, and the mutex when it begins with it. *)
Arrives(r) == pc[r] = "idle" /\ drawn < MaxDrawn
Goto(r, step) == pc' = [pc EXCEPT ![r] = step]

(* register_client: past the cap the oldest client makes room.             *)
Oldest == {c \in store.clients : \A d \in store.clients : c.created <= d.created}

WithClient(c) ==
    IF Cardinality(store.clients) >= MaxClients
    THEN {(store.clients \ {o}) \cup {c} : o \in Oldest}
    ELSE {store.clients \cup {c}}

Register(r) ==
    /\ Arrives(r) /\ held = "free"
    /\ Draw
    /\ \E clients \in WithClient([id |-> Fresh, created |-> now]) :
         store' = [store EXCEPT !.clients = clients]
    /\ Goto(r, "persist")
    /\ from' = [from EXCEPT ![r] = Nothing]
    /\ gives' = [gives EXCEPT ![r] = 0]
    /\ UNCHANGED <<now, codes, tickets, file, held, snap, restarts, history>>

(* authorize_post: a code for a client that is registered; no file write.  *)
Authorize(r) ==
    /\ Arrives(r) /\ held = "free"
    /\ store.clients # {}
    /\ Draw
    /\ codes' = codes \cup {[id |-> Fresh, expires |-> now + CodeTtl]}
    /\ UNCHANGED <<now, store, tickets, file, held, request, restarts, history>>

(* redeem_code: the code is spent whether or not it turns out to be good.  *)
Redeem(r) ==
    /\ Arrives(r)
    /\ \E c \in codes :
         /\ codes' = codes \ {c}
         /\ from' = [from EXCEPT ![r] = [kind |-> "code", id |-> c.id, scopes |-> Full]]
         /\ \/ Live(c) /\ Goto(r, "issue")
            \/ UNCHANGED pc
    /\ UNCHANGED <<now, store, tickets, file, held, gives, snap, drawn, restarts, history>>

(* Mutant of Refresh: the old token is looked up and left in place. *)
RefreshKeeps(r) ==
    /\ Arrives(r) /\ held = "free"
    /\ \E t \in store.refresh :
         /\ Live(t) /\ Goto(r, "issue")
         /\ handed' = handed \ {t}
         /\ from' = [from EXCEPT ![r] = [kind |-> "refresh", id |-> t.id, scopes |-> Full]]
    /\ UNCHANGED <<now, memory, file, held, gives, snap, drawn, restarts, granted, retired, asked>>

(* refresh: the old token is taken out in one critical section and the new *)
(* pair put in by the next. An expired one is persisted away from inside   *)
(* the critical section, and `persist` asks for the mutex it is holding.   *)
Refresh(r) ==
    /\ Arrives(r) /\ held = "free"
    /\ \E t \in store.refresh :
         /\ store' = [store EXCEPT !.refresh = @ \ {t}]
         /\ handed' = handed \ {t}
         /\ from' = [from EXCEPT ![r] = [kind |-> "refresh", id |-> t.id, scopes |-> Full]]
         /\ IF Live(t) THEN Goto(r, "issue") /\ UNCHANGED held
                       ELSE Goto(r, "stuck") /\ held' = r
    /\ UNCHANGED <<now, codes, tickets, file, gives, snap, drawn, restarts, granted, retired, asked>>

(* Mutant of IssueTokens: the bytes to persist are taken before the insert. *)
IssueTokensAfterSnapshot(r) ==
    /\ pc[r] = "issue" /\ held = "free"
    /\ Draw
    /\ store' = [store EXCEPT
                    !.access  = @ \cup {[id |-> Fresh, expires |-> now + AccessTtl, scopes |-> Full]},
                    !.refresh = @ \cup {[id |-> Fresh, expires |-> now + RefreshTtl]}]
    /\ snap' = [snap EXCEPT ![r] = store]
    /\ granted' = granted \cup {[from |-> from[r], id |-> Fresh]}
    /\ gives' = [gives EXCEPT ![r] = Fresh]
    /\ Goto(r, "write")
    /\ UNCHANGED <<now, codes, tickets, file, held, from, restarts, handed, retired, asked>>

(* issue_tokens: a new pair, put in the store before it is persisted.      *)
IssueTokens(r) ==
    /\ pc[r] = "issue" /\ held = "free"
    /\ Draw
    /\ store' = [store EXCEPT
                    !.access  = @ \cup {[id |-> Fresh, expires |-> now + AccessTtl, scopes |-> Full]},
                    !.refresh = @ \cup {[id |-> Fresh, expires |-> now + RefreshTtl]}]
    /\ granted' = granted \cup {[from |-> from[r], id |-> Fresh]}
    /\ gives' = [gives EXCEPT ![r] = Fresh]
    /\ Goto(r, "persist")
    /\ UNCHANGED <<now, codes, tickets, file, held, from, snap, restarts, handed, retired, asked>>

(* provision_transfer: a ticket for what is asked, after sweeping the      *)
(* lapsed ones.  The static token is known without a look into the store,  *)
(* so its holder may ask whoever holds the lock.                           *)
IssueTicket(r) ==
    /\ Arrives(r)
    /\ Draw
    /\ \E a \in Asked :
         LET t == [id |-> Fresh, expires |-> now + TicketTtl,
                   scopes |-> [write |-> a.write, delegated |-> TRUE, prefix |-> a.prefix]]
         IN  /\ tickets' = {u \in tickets : Live(u)} \cup {t}
             /\ asked' = asked \cup {t}
    /\ UNCHANGED <<now, store, codes, file, held, request, restarts, granted, handed, retired>>

(* Mutant of RedeemTicket: examined first, and removed only when lapsed. *)
RedeemTicketLooksFirst(r) ==
    /\ Arrives(r)
    /\ \E t \in tickets :
         /\ from' = [from EXCEPT ![r] = [kind |-> "ticket", id |-> t.id, scopes |-> t.scopes]]
         /\ IF Live(t) THEN Goto(r, "mint") /\ UNCHANGED tickets
                       ELSE tickets' = tickets \ {t} /\ UNCHANGED pc
    /\ UNCHANGED <<now, store, codes, file, held, gives, snap, drawn, restarts, history>>

(* redeem_transfer_code: removed before it is examined.                    *)
RedeemTicket(r) ==
    /\ Arrives(r)
    /\ \E t \in tickets :
         /\ tickets' = tickets \ {t}
         /\ from' = [from EXCEPT ![r] = [kind |-> "ticket", id |-> t.id, scopes |-> t.scopes]]
         /\ IF Live(t) THEN Goto(r, "mint") ELSE UNCHANGED pc
    /\ UNCHANGED <<now, store, codes, file, held, gives, snap, drawn, restarts, history>>

(* mint: a delegated access token without a refresh token.                 *)
(* Bug: it holds what the caller holds who had the ticket issued.          *)
MintedWhole(scopes) == [Full EXCEPT !.delegated = TRUE]
Minted(scopes) == [scopes EXCEPT !.delegated = TRUE]
Mint(r) ==
    /\ pc[r] = "mint" /\ held = "free"
    /\ Draw
    /\ store' = [store EXCEPT !.access = @ \cup
                    {[id |-> Fresh, expires |-> now + TransferTtl, scopes |-> Minted(from[r].scopes)]}]
    /\ granted' = granted \cup {[from |-> from[r], id |-> Fresh]}
    /\ gives' = [gives EXCEPT ![r] = 0]
    /\ Goto(r, "persist")
    /\ UNCHANGED <<now, codes, tickets, file, held, from, snap, restarts, handed, retired, asked>>

(* persist: serialize under the mutex, write a file of its own and rename  *)
(* it over the state file.                                                 *)
Serialize(r) ==
    /\ pc[r] = "persist" /\ held = "free"
    /\ snap' = [snap EXCEPT ![r] = store]
    /\ Goto(r, "write")
    /\ UNCHANGED <<now, memory, file, held, from, gives, drawn, restarts, history>>

(* The answer goes out once the file is written, or could not be.          *)
Answer(r) ==
    /\ handed' = handed \cup {t \in store.refresh : t.id = gives[r]}
    /\ retired' = IF gives[r] # 0 /\ from[r].kind = "refresh"
                  THEN retired \cup {from[r].id} ELSE retired

WriteFile(r) ==
    /\ pc[r] = "write"
    /\ \/ file' = snap[r]
       \/ "disk" \in Faults /\ UNCHANGED file
    /\ Answer(r)
    /\ Goto(r, "idle")
    /\ UNCHANGED <<now, memory, held, from, gives, snap, drawn, restarts, granted, asked>>

Tick ==
    /\ now < MaxTime
    /\ now' = now + 1
    /\ UNCHANGED <<memory, file, held, request, drawn, restarts, history>>

(* A restart: `load` reads the file back and prunes what has expired.      *)
Restart ==
    /\ restarts < MaxRestarts
    /\ restarts' = restarts + 1
    /\ store' = [file EXCEPT !.access  = {t \in @ : Live(t)},
                             !.refresh = {t \in @ : Live(t)}]
    /\ codes' = {} /\ tickets' = {}
    /\ held' = "free"
    /\ pc' = [r \in Request |-> "idle"]
    /\ from' = [r \in Request |-> Nothing]
    /\ gives' = [r \in Request |-> 0]
    /\ snap' = [r \in Request |-> EmptyStore]
    /\ UNCHANGED <<now, file, drawn, history>>

Handle(r) == IssueTokens(r) \/ Mint(r) \/ Serialize(r) \/ WriteFile(r)

Next ==
    \/ \E r \in Request :
         \/ Register(r) \/ Authorize(r) \/ Redeem(r) \/ Refresh(r)
         \/ IssueTicket(r) \/ RedeemTicket(r)
         \/ Handle(r)
    \/ Tick
    \/ Restart

Spec == Init /\ [][Next]_vars

(* A request that was accepted keeps running.                              *)
FairSpec == Spec /\ \A r \in Request : WF_vars(Handle(r))

-----------------------------------------------------------------------------
(* A code or a ticket is good for one issue only, whatever number of       *)
(* requests present it at the same time (`so two callers racing the same   *)
(* ticket cannot both walk away with a token`), restarts included; and so  *)
(* is a refresh token as long as the server runs.                          *)
SingleUse ==
    \A g, h \in granted :
        g.from = h.from /\ (restarts = 0 \/ g.from.kind # "refresh") => g = h

(* Authorization survives restarts (ADR-0014): a refresh token a client    *)
(* was answered and has not used since is good until it expires.           *)
SurvivesRestart == \A t \in handed : Live(t) => t \in store.refresh

(* Rotation is final: once its successor has been answered, a refresh      *)
(* token never works again, restarts included.                             *)
RotationFinal == \A t \in store.refresh : t.id \notin retired

(* validate_bearer, and what the guards of the surfaces let its holder do:  *)
(* the tools are refused to a delegated credential and otherwise reach     *)
(* every note, the note API asks for the scopes.                           *)
Bearer(id) == {t.scopes : t \in {u \in store.access : u.id = id /\ Live(u)}}
Permits(scopes, place) == IsPrefix(scopes.prefix, place)
Tools(id) == \E scopes \in Bearer(id) : ~scopes.delegated
Reads(id) == {p \in Places : Tools(id) \/ \E scopes \in Bearer(id) : Permits(scopes, p)}
Writes(id) ==
    {p \in Places : Tools(id) \/ \E scopes \in Bearer(id) : scopes.write /\ Permits(scopes, p)}

(* What a ticket was traded for reaches no tool and no note that was not    *)
(* asked for, writes none unless that was asked for, and cannot be renewed, *)
(* restarts included (ADR-0028: a grant is confined).                      *)
Confined ==
    \A g \in granted, t \in asked : g.from.kind = "ticket" /\ g.from.id = t.id =>
        /\ ~Tools(g.id) /\ \A u \in store.refresh : u.id # g.id
        /\ \A p \in Reads(g.id) : IsPrefix(t.scopes.prefix, p)
        /\ \A p \in Writes(g.id) : t.scopes.write /\ IsPrefix(t.scopes.prefix, p)

(* Every request is answered: the mutex always comes free again.           *)
AllAnswered == \A r \in Request : pc[r] # "idle" ~> pc[r] = "idle"
=================================================================================
