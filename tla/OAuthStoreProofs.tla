----------------------------- MODULE OAuthStoreProofs -----------------------------
(***************************************************************************)
(* What the credential store gives for any number of requests, credentials *)
(* and restarts, whether or not its file can be written: a code or a       *)
(* ticket is good for one issue, and what a ticket was traded for stays    *)
(* within what was asked for.                                              *)
(***************************************************************************)
EXTENDS OAuthStore, TLAPS

(* The copies of the store: behind the mutex, in the file, on their way.   *)
Kept == {store, file} \cup {snap[r] : r \in Request}

(* Requests that have presented a credential and got nothing for it yet.   *)
Steps == {"issue", "mint"}
InFlight == {r \in Request : pc[r] \in Steps}

(* Credentials are drawn once. *)
IdsInv ==
    /\ \A c \in codes : c.id <= drawn
    /\ \A t \in tickets : t.id <= drawn
    /\ \A t \in asked : t.id <= drawn
    /\ \A r \in Request : from[r].id <= drawn
    /\ \A g \in granted : g.id <= drawn /\ g.from.id <= drawn
    /\ \A S \in Kept : (\A u \in S.access : u.id <= drawn) /\ (\A u \in S.refresh : u.id <= drawn)

(* Nothing was issued for it and nobody is about to. *)
Unspent(kind, id) ==
    /\ \A g \in granted : ~(g.from.kind = kind /\ g.from.id = id)
    /\ \A r \in InFlight : ~(from[r].kind = kind /\ from[r].id = id)

(* The file may bring back a refresh token that was presented already.     *)
Once(f) == restarts = 0 \/ f.kind # "refresh"

UseInv ==
    /\ \A c, d \in codes : c.id = d.id => c = d
    /\ \A t, u \in tickets : t.id = u.id => t = u
    /\ restarts = 0 => \A t, u \in store.refresh : t.id = u.id => t = u
    /\ \A c \in codes : Unspent("code", c.id)
    /\ \A t \in tickets : Unspent("ticket", t.id)
    /\ restarts = 0 => \A t \in store.refresh : Unspent("refresh", t.id)
    /\ \A r \in InFlight : Once(from[r]) => \A g \in granted : g.from # from[r]
    /\ \A r, q \in InFlight : Once(from[r]) /\ from[r] = from[q] => r = q
    /\ SingleUse

Within(S, id, scopes) ==
    /\ \A u \in S.access : u.id = id => u.scopes = scopes
    /\ \A u \in S.refresh : u.id # id

GrantInv ==
    /\ \A t, u \in asked : t.id = u.id => t = u
    /\ tickets \subseteq asked
    /\ \A t \in asked : t.scopes.delegated
    /\ \A r \in InFlight : pc[r] = "mint" <=> from[r].kind = "ticket"
    /\ \A r \in InFlight : \A t \in asked :
         from[r].kind = "ticket" /\ from[r].id = t.id => from[r].scopes = t.scopes
    /\ \A g \in granted : \A t \in asked :
         g.from.kind = "ticket" /\ g.from.id = t.id =>
           \A S \in Kept : Within(S, g.id, t.scopes)

IInv == TypeOK /\ IdsInv /\ UseInv /\ GrantInv

-----------------------------------------------------------------------------
(* Types. *)

LEMMA Types ==
    /\ Full \in Scopes /\ Nothing \in Source /\ EmptyStore \in Stores
    /\ {AccessTtl, RefreshTtl, CodeTtl, TicketTtl, TransferTtl} \subseteq Nat
<1>1. Full \in Scopes
  BY DEF Full, Scopes
<1>2. Nothing \in Source
  BY <1>1 DEF Nothing, Source
<1>3. EmptyStore \in Stores
  BY DEF EmptyStore, Stores
<1>4. QED
  BY <1>1, <1>2, <1>3, TtlAssumption

LEMMA TypeStep ==
    ASSUME TypeOK, [Next]_vars
    PROVE  TypeOK'
<1>0. /\ now \in Nat /\ drawn \in Nat /\ Fresh \in Nat
      /\ store.clients \in SUBSET Client /\ store.access \in SUBSET Scoped
      /\ store.refresh \in SUBSET Grant
      /\ store = [clients |-> store.clients, access |-> store.access, refresh |-> store.refresh]
  BY BoundsAssumption DEF TypeOK, Stores, Fresh
<1>1. ASSUME NEW r \in Request, Register(r)
      PROVE  TypeOK'
  <2>1. [id |-> Fresh, created |-> now] \in Client
    BY <1>0 DEF Client
  <2>2. store' \in Stores
    <3>1. PICK clients \in WithClient([id |-> Fresh, created |-> now]) :
              store' = [store EXCEPT !.clients = clients]
      BY <1>1 DEF Register
    <3>2. clients \in SUBSET Client
      BY <1>0, <2>1 DEF WithClient
    <3>3. store' = [clients |-> clients, access |-> store.access, refresh |-> store.refresh]
      BY <1>0, <3>1
    <3>4. QED
      BY <1>0, <3>2, <3>3 DEF Stores
  <2>3. QED
    BY <1>0, <1>1, <2>2, Types DEF Register, TypeOK, Goto, Draw, history
<1>2. ASSUME NEW r \in Request, Authorize(r)
      PROVE  TypeOK'
  <2>1. [id |-> Fresh, expires |-> now + CodeTtl] \in Grant
    BY <1>0, Types DEF Grant
  <2>2. QED
    BY <1>0, <1>2, <2>1 DEF Authorize, TypeOK, Draw, history, request
<1>3. ASSUME NEW r \in Request, Redeem(r)
      PROVE  TypeOK'
  <2>1. PICK c \in codes :
          /\ codes' = codes \ {c}
          /\ from' = [from EXCEPT ![r] = [kind |-> "code", id |-> c.id, scopes |-> Full]]
    BY <1>3 DEF Redeem
  <2>2. [kind |-> "code", id |-> c.id, scopes |-> Full] \in Source
    BY Types DEF TypeOK, Grant, Source
  <2>3. pc' = pc \/ pc' = [pc EXCEPT ![r] = "issue"]
    BY <1>3 DEF Redeem, Goto
  <2>4. QED
    BY <1>0, <1>3, <2>1, <2>2, <2>3 DEF Redeem, TypeOK, history
<1>4. ASSUME NEW r \in Request, Refresh(r)
      PROVE  TypeOK'
  <2>1. PICK t \in store.refresh :
          /\ store' = [store EXCEPT !.refresh = @ \ {t}]
          /\ handed' = handed \ {t}
          /\ from' = [from EXCEPT ![r] = [kind |-> "refresh", id |-> t.id, scopes |-> Full]]
          /\ pc' \in {[pc EXCEPT ![r] = "issue"], [pc EXCEPT ![r] = "stuck"]}
          /\ held' \in {held, r}
    BY <1>4 DEF Refresh, Goto
  <2>2. [kind |-> "refresh", id |-> t.id, scopes |-> Full] \in Source
    BY <1>0, Types DEF Grant, Source
  <2>3. store' \in Stores
    <3>1. store' = [clients |-> store.clients, access |-> store.access, refresh |-> store.refresh \ {t}]
      BY <1>0, <2>1
    <3>2. QED
      BY <1>0, <3>1 DEF Stores
  <2>4. QED
    BY <1>0, <1>4, <2>1, <2>2, <2>3 DEF Refresh, TypeOK
<1>5. ASSUME NEW r \in Request, IssueTokens(r)
      PROVE  TypeOK'
  <2>1. [id |-> Fresh, expires |-> now + AccessTtl, scopes |-> Full] \in Scoped
        /\ [id |-> Fresh, expires |-> now + RefreshTtl] \in Grant
    BY <1>0, Types DEF Grant, Scoped
  <2>2. store' \in Stores
    <3>1. store' = [clients |-> store.clients,
                    access |-> store.access \cup {[id |-> Fresh, expires |-> now + AccessTtl, scopes |-> Full]},
                    refresh |-> store.refresh \cup {[id |-> Fresh, expires |-> now + RefreshTtl]}]
      BY <1>0, <1>5 DEF IssueTokens
    <3>2. QED
      BY <1>0, <2>1, <3>1 DEF Stores
  <2>3. [from |-> from[r], id |-> Fresh] \in [from : Source, id : Nat]
    BY <1>0 DEF TypeOK
  <2>4. QED
    BY <1>0, <1>5, <2>2, <2>3 DEF IssueTokens, TypeOK, Goto, Draw
<1>6. ASSUME NEW r \in Request, IssueTicket(r)
      PROVE  TypeOK'
  <2>1. PICK a \in Asked : LET t == [id |-> Fresh, expires |-> now + TicketTtl,
                   scopes |-> [write |-> a.write, delegated |-> TRUE, prefix |-> a.prefix]]
         IN  /\ tickets' = {u \in tickets : Live(u)} \cup {t}
             /\ asked' = asked \cup {t}
    BY <1>6 DEF IssueTicket
  <2>2. [write |-> a.write, delegated |-> TRUE, prefix |-> a.prefix] \in Scopes
    BY AskedAssumption DEF Scopes, Subtrees
  <2>3. [id |-> Fresh, expires |-> now + TicketTtl,
         scopes |-> [write |-> a.write, delegated |-> TRUE, prefix |-> a.prefix]] \in Scoped
    BY <1>0, <2>2, Types DEF Scoped
  <2>4. QED
    BY <1>0, <1>6, <2>1, <2>3 DEF IssueTicket, TypeOK, Draw, request
<1>7. ASSUME NEW r \in Request, RedeemTicket(r)
      PROVE  TypeOK'
  <2>1. PICK t \in tickets :
          /\ tickets' = tickets \ {t}
          /\ from' = [from EXCEPT ![r] = [kind |-> "ticket", id |-> t.id, scopes |-> t.scopes]]
    BY <1>7 DEF RedeemTicket
  <2>2. [kind |-> "ticket", id |-> t.id, scopes |-> t.scopes] \in Source
    BY DEF TypeOK, Scoped, Source
  <2>3. pc' = pc \/ pc' = [pc EXCEPT ![r] = "mint"]
    BY <1>7 DEF RedeemTicket, Goto
  <2>4. QED
    BY <1>0, <1>7, <2>1, <2>2, <2>3 DEF RedeemTicket, TypeOK, history
<1>8. ASSUME NEW r \in Request, Mint(r)
      PROVE  TypeOK'
  <2>1. from[r] \in Source /\ from[r].scopes \in Scopes
    BY DEF TypeOK, Source
  <2>2. Minted(from[r].scopes) \in Scopes
    BY <2>1 DEF Minted, Scopes
  <2>3. [id |-> Fresh, expires |-> now + TransferTtl, scopes |-> Minted(from[r].scopes)] \in Scoped
    BY <1>0, <2>2, Types DEF Scoped
  <2>4. store' \in Stores
    <3>1. store' = [clients |-> store.clients,
                    access |-> store.access \cup {[id |-> Fresh, expires |-> now + TransferTtl,
                                                   scopes |-> Minted(from[r].scopes)]},
                    refresh |-> store.refresh]
      BY <1>0, <1>8 DEF Mint
    <3>2. QED
      BY <1>0, <2>3, <3>1 DEF Stores
  <2>5. [from |-> from[r], id |-> Fresh] \in [from : Source, id : Nat]
    BY <1>0, <2>1
  <2>6. QED
    BY <1>0, <1>8, <2>4, <2>5 DEF Mint, TypeOK, Goto, Draw
<1>9. ASSUME NEW r \in Request, Serialize(r) \/ WriteFile(r)
      PROVE  TypeOK'
  <2>1. CASE Serialize(r)
    BY <2>1 DEF Serialize, Goto, memory, history, TypeOK
  <2>2. CASE WriteFile(r)
    <3>1. handed' \subseteq Grant /\ retired' \subseteq Nat
      BY <1>0, <2>2 DEF WriteFile, Answer, TypeOK, Source
    <3>2. QED
      BY <2>2, <3>1 DEF WriteFile, Goto, memory, TypeOK
  <2>3. QED
    BY <1>9, <2>1, <2>2
<1>10. CASE Tick \/ UNCHANGED vars
  <2>1. now' \in 0..MaxTime
    BY <1>10, BoundsAssumption DEF Tick, vars, TypeOK
  <2>2. UNCHANGED <<memory, file, held, request, drawn, restarts, history>>
    BY <1>10 DEF Tick, vars
  <2>3. QED
    BY <2>1, <2>2 DEF memory, request, history, TypeOK
<1>11. CASE Restart
  <2>1. store' \in Stores
    <3>1. store' = [clients |-> file.clients, access |-> {t \in file.access : Live(t)},
                    refresh |-> {t \in file.refresh : Live(t)}]
      BY <1>11 DEF Restart, TypeOK, Stores
    <3>2. QED
      BY <3>1 DEF TypeOK, Stores
  <2>2. restarts' \in 0..MaxRestarts
    BY <1>11, BoundsAssumption DEF Restart, TypeOK
  <2>3. /\ held' = "free" /\ codes' = {} /\ tickets' = {}
        /\ pc' = [r \in Request |-> "idle"] /\ from' = [r \in Request |-> Nothing]
        /\ gives' = [r \in Request |-> 0] /\ snap' = [r \in Request |-> EmptyStore]
        /\ UNCHANGED <<now, file, drawn, granted, handed, retired, asked>>
    BY <1>11 DEF Restart, history
  <2>4. from' \in [Request -> Source] /\ snap' \in [Request -> Stores]
    BY <2>3, Types
  <2>5. QED
    BY <2>1, <2>2, <2>3, <2>4 DEF TypeOK
<1>12. QED
  BY <1>1, <1>2, <1>3, <1>4, <1>5, <1>6, <1>7, <1>8, <1>9, <1>10, <1>11 DEF Next, Handle

-----------------------------------------------------------------------------
(* The kinds of steps, by what they do to the requests in flight. *)

Others ==
    /\ \A r \in InFlight' : r \in InFlight /\ from'[r] = from[r] /\ pc'[r] = pc[r]
    /\ UNCHANGED granted

LEMMA StepKinds ==
    ASSUME TypeOK, [Next]_vars
    PROVE  \/ Others /\ UNCHANGED <<codes, tickets, asked>> /\ (restarts' = 0 => store'.refresh = store.refresh)
           \/ \E r \in Request : Others /\ Authorize(r)
           \/ \E r \in Request : Others /\ IssueTicket(r)
           \/ \E r \in Request : Redeem(r) \/ RedeemTicket(r) \/ Refresh(r)
           \/ \E r \in Request : IssueTokens(r) \/ Mint(r)
           \/ Others /\ Restart /\ InFlight' = {}
<1>0. pc \in [Request -> {"idle", "issue", "mint", "persist", "write", "stuck"}]
      /\ from \in [Request -> Source]
  BY DEF TypeOK
<1>1. ASSUME NEW r \in Request, Register(r)
      PROVE  Others /\ UNCHANGED <<codes, tickets, asked>> /\ store'.refresh = store.refresh
  <2>1. store'.refresh = store.refresh
    BY <1>1 DEF Register, TypeOK, Stores
  <2>2. pc' = [pc EXCEPT ![r] = "persist"] /\ from' = [from EXCEPT ![r] = Nothing]
    BY <1>1 DEF Register, Goto
  <2>3. QED
    BY <1>0, <1>1, <2>1, <2>2 DEF Register, Others, InFlight, Steps, history
<1>2. ASSUME NEW r \in Request, Authorize(r) \/ IssueTicket(r)
      PROVE  Others
  BY <1>2 DEF Authorize, IssueTicket, Others, InFlight, history, request
<1>3. ASSUME NEW r \in Request, Serialize(r) \/ WriteFile(r)
      PROVE  Others /\ UNCHANGED <<codes, tickets, asked, store>>
  <2>1. pc' \in {[pc EXCEPT ![r] = "idle"], [pc EXCEPT ![r] = "write"]}
        /\ UNCHANGED <<from, codes, tickets, asked, store, granted>>
    BY <1>3 DEF Serialize, WriteFile, Goto, memory, history
  <2>2. QED
    BY <1>0, <2>1 DEF Others, InFlight, Steps
<1>4. ASSUME Tick \/ UNCHANGED vars
      PROVE  Others /\ UNCHANGED <<codes, tickets, asked, store>>
  BY <1>4 DEF Tick, vars, memory, history, request, Others, InFlight
<1>5. ASSUME Restart
      PROVE  Others /\ InFlight' = {}
  BY <1>5 DEF Restart, history, Others, InFlight, Steps
<1>6. QED
  BY <1>1, <1>2, <1>3, <1>4, <1>5 DEF Next, Handle

-----------------------------------------------------------------------------
(* What a step adds to the copies of the store carries the number it draws.*)

LEMMA Copies ==
    ASSUME TypeOK, [Next]_vars
    PROVE  /\ drawn' \in {drawn, Fresh}
           /\ Kept' \subseteq Kept \cup {store', EmptyStore}
           /\ \A u \in store'.access :
                (\E S \in Kept : u \in S.access) \/ (u.id = Fresh /\ drawn' = Fresh)
           /\ \A u \in store'.refresh :
                (\E S \in Kept : u \in S.refresh) \/ (u.id = Fresh /\ drawn' = Fresh)
<1>0. /\ store \in Stores /\ file \in Stores /\ snap \in [Request -> Stores]
      /\ store = [clients |-> store.clients, access |-> store.access, refresh |-> store.refresh]
      /\ file = [clients |-> file.clients, access |-> file.access, refresh |-> file.refresh]
      /\ store \in Kept /\ file \in Kept
  BY DEF TypeOK, Stores, Kept
<1> DEFINE Same == UNCHANGED <<file, snap>>
<1>s. ASSUME Same
      PROVE  Kept' \subseteq Kept \cup {store', EmptyStore}
  BY <1>s DEF Kept
<1>1. ASSUME NEW r \in Request, Register(r)
      PROVE  Same /\ drawn' = Fresh /\ store'.access = store.access /\ store'.refresh = store.refresh
  BY <1>0, <1>1 DEF Register, Draw
<1>2. ASSUME NEW r \in Request, Authorize(r) \/ IssueTicket(r)
      PROVE  Same /\ drawn' = Fresh /\ store' = store
  BY <1>2 DEF Authorize, IssueTicket, Draw, request
<1>3. ASSUME NEW r \in Request, Redeem(r) \/ RedeemTicket(r)
      PROVE  Same /\ drawn' = drawn /\ store' = store
  BY <1>3 DEF Redeem, RedeemTicket
<1>4. ASSUME NEW r \in Request, Refresh(r)
      PROVE  /\ Same /\ drawn' = drawn
             /\ store'.access = store.access /\ store'.refresh \subseteq store.refresh
  BY <1>0, <1>4 DEF Refresh
<1>5. ASSUME NEW r \in Request, IssueTokens(r)
      PROVE  /\ Same /\ drawn' = Fresh
             /\ \A u \in store'.access : u \in store.access \/ u.id = Fresh
             /\ \A u \in store'.refresh : u \in store.refresh \/ u.id = Fresh
  BY <1>0, <1>5 DEF IssueTokens, Draw
<1>6. ASSUME NEW r \in Request, Mint(r)
      PROVE  /\ Same /\ drawn' = Fresh
             /\ \A u \in store'.access : u \in store.access \/ u.id = Fresh
             /\ store'.refresh = store.refresh
  BY <1>0, <1>6 DEF Mint, Draw
<1>7. ASSUME NEW r \in Request, Serialize(r) \/ WriteFile(r)
      PROVE  /\ Kept' \subseteq Kept /\ drawn' = drawn /\ store' = store
  <2>1. CASE Serialize(r)
    BY <1>0, <2>1 DEF Serialize, memory, Kept
  <2>2. CASE WriteFile(r)
    BY <1>0, <2>2 DEF WriteFile, memory, Kept
  <2>3. QED
    BY <1>7, <2>1, <2>2
<1>8. ASSUME Tick \/ UNCHANGED vars
      PROVE  Same /\ drawn' = drawn /\ store' = store
  BY <1>8 DEF Tick, vars, memory, request
<1>9. ASSUME Restart
      PROVE  /\ Kept' \subseteq Kept \cup {store', EmptyStore} /\ drawn' = drawn
             /\ store'.access \subseteq file.access /\ store'.refresh \subseteq file.refresh
  <2>1. /\ file' = file /\ snap' = [r \in Request |-> EmptyStore] /\ drawn' = drawn
        /\ store' = [file EXCEPT !.access  = {t \in @ : Live(t)},
                                 !.refresh = {t \in @ : Live(t)}]
    BY <1>9 DEF Restart
  <2>2. Kept' \subseteq Kept \cup {store', EmptyStore}
    BY <2>1 DEF Kept
  <2>3. store'.access \subseteq file.access /\ store'.refresh \subseteq file.refresh
    BY <1>0, <2>1
  <2>4. QED
    BY <2>1, <2>2, <2>3
<1> HIDE DEF Same
<1>10. CASE \E r \in Request : Register(r) \/ Authorize(r) \/ IssueTicket(r)
  BY <1>0, <1>s, <1>1, <1>2, <1>10
<1>11. CASE \E r \in Request : Redeem(r) \/ RedeemTicket(r) \/ Refresh(r)
  BY <1>0, <1>s, <1>3, <1>4, <1>11
<1>12. CASE \E r \in Request : IssueTokens(r) \/ Mint(r)
  BY <1>0, <1>s, <1>5, <1>6, <1>12
<1>13. CASE (\E r \in Request : Serialize(r) \/ WriteFile(r)) \/ Tick \/ UNCHANGED vars
  BY <1>0, <1>s, <1>7, <1>8, <1>13
<1>14. CASE Restart
  BY <1>0, <1>9, <1>14
<1>15. QED
  BY <1>10, <1>11, <1>12, <1>13, <1>14 DEF Next, Handle

LEMMA IdsStep ==
    ASSUME TypeOK, IdsInv, [Next]_vars
    PROVE  IdsInv'
<1>0. drawn \in Nat /\ drawn' \in Nat /\ drawn <= drawn' /\ Fresh = drawn + 1
  BY Copies DEF TypeOK, Fresh
<1>1. ASSUME NEW S \in Kept'
      PROVE  (\A u \in S.access : u.id <= drawn') /\ (\A u \in S.refresh : u.id <= drawn')
  <2>1. CASE S \in Kept
    <3>1. (\A u \in S.access : u.id \in Nat) /\ (\A u \in S.refresh : u.id \in Nat)
      BY <2>1 DEF Kept, TypeOK, Stores, Scoped, Grant
    <3>2. QED
      BY <1>0, <2>1, <3>1 DEF IdsInv
  <2>2. CASE S = EmptyStore
    BY <2>2 DEF EmptyStore
  <2>3. CASE S = store'
    <3>1. \A T \in Kept : (\A u \in T.access : u.id \in Nat /\ u.id <= drawn)
                          /\ (\A u \in T.refresh : u.id \in Nat /\ u.id <= drawn)
      BY DEF Kept, TypeOK, Stores, Scoped, Grant, IdsInv
    <3>2. QED
      BY <1>0, <2>3, <3>1, Copies
  <2>4. QED
    BY <1>1, <2>1, <2>2, <2>3, Copies
<1>t. /\ \A c \in codes : c.id \in Nat /\ c.id <= drawn
      /\ \A t \in tickets : t.id \in Nat /\ t.id <= drawn
      /\ \A t \in asked : t.id \in Nat /\ t.id <= drawn
      /\ \A t \in store.refresh : t.id \in Nat /\ t.id <= drawn
      /\ \A r \in Request : from[r].id \in Nat /\ from[r].id <= drawn
      /\ \A g \in granted : /\ g.id \in Nat /\ g.id <= drawn
                            /\ g.from.id \in Nat /\ g.from.id <= drawn
  BY DEF IdsInv, TypeOK, Stores, Grant, Scoped, Source, Kept
<1>2. ASSUME NEW r \in Request,
             Register(r) \/ Redeem(r) \/ RedeemTicket(r) \/ Refresh(r)
      PROVE  \A q \in Request : from'[q].id <= drawn'
  <2>1. CASE Register(r)
    BY <1>0, <1>t, <2>1 DEF Register, Nothing, TypeOK
  <2>2. CASE Redeem(r)
    BY <1>0, <1>t, <2>2 DEF Redeem, TypeOK
  <2>3. CASE RedeemTicket(r)
    BY <1>0, <1>t, <2>3 DEF RedeemTicket, TypeOK
  <2>4. CASE Refresh(r)
    BY <1>0, <1>t, <2>4 DEF Refresh, TypeOK
  <2>5. QED
    BY <1>2, <2>1, <2>2, <2>3, <2>4
<1>3. \A q \in Request : from'[q].id <= drawn'
  <2>1. CASE UNCHANGED from
    BY <1>0, <1>t, <2>1
  <2>2. CASE Restart
    BY <1>0, <2>2 DEF Restart, Nothing
  <2>3. \/ UNCHANGED from \/ Restart
        \/ \E r \in Request : Register(r) \/ Redeem(r) \/ RedeemTicket(r) \/ Refresh(r)
    BY DEF Next, Handle, Authorize, IssueTicket, IssueTokens, Mint, Serialize, WriteFile, Tick,
           vars, request
  <2>4. QED
    BY <1>2, <2>1, <2>2, <2>3
<1>4. \A c \in codes' : c.id <= drawn'
  <2>1. CASE codes' \subseteq codes
    BY <1>0, <1>t, <2>1
  <2>2. CASE \E r \in Request : Authorize(r)
    BY <1>0, <1>t, <2>2 DEF Authorize, Draw
  <2>3. codes' \subseteq codes \/ \E r \in Request : Authorize(r)
    BY DEF Next, Handle, Register, Redeem, Refresh, RedeemTicket, IssueTicket, IssueTokens, Mint,
           Serialize, WriteFile, Tick, Restart, vars, memory
  <2>4. QED
    BY <2>1, <2>2, <2>3
<1>5. (\A t \in tickets' : t.id <= drawn') /\ (\A t \in asked' : t.id <= drawn')
  <2>1. CASE tickets' \subseteq tickets /\ UNCHANGED asked
    BY <1>0, <1>t, <2>1
  <2>2. CASE \E r \in Request : IssueTicket(r)
    BY <1>0, <1>t, <2>2 DEF IssueTicket, Draw
  <2>3. (tickets' \subseteq tickets /\ UNCHANGED asked) \/ \E r \in Request : IssueTicket(r)
    BY DEF Next, Handle, Register, Redeem, Refresh, RedeemTicket, Authorize, IssueTokens, Mint,
           Serialize, WriteFile, Tick, Restart, vars, memory, history
  <2>4. QED
    BY <2>1, <2>2, <2>3
<1>6. \A g \in granted' : g.id <= drawn' /\ g.from.id <= drawn'
  <2>1. CASE UNCHANGED granted
    BY <1>0, <1>t, <2>1
  <2>2. ASSUME NEW r \in Request, IssueTokens(r) \/ Mint(r)
        PROVE  \A g \in granted' : g.id <= drawn' /\ g.from.id <= drawn'
    <3>1. granted' = granted \cup {[from |-> from[r], id |-> Fresh]} /\ drawn' = Fresh
      BY <2>2 DEF IssueTokens, Mint, Draw
    <3>2. QED
      BY <1>0, <1>t, <3>1
  <2>3. UNCHANGED granted \/ \E r \in Request : IssueTokens(r) \/ Mint(r)
    BY StepKinds DEF Others, Redeem, RedeemTicket, Refresh, history
  <2>4. QED
    BY <2>1, <2>2, <2>3
<1>7. QED
  BY <1>1, <1>3, <1>4, <1>5, <1>6 DEF IdsInv

-----------------------------------------------------------------------------
(* One issue for each credential. *)

(* A request that takes out the one record of a credential nothing was     *)
(* issued for is the only one that is about to have something issued.      *)
LEMMA Presented ==
    ASSUME TypeOK, UseInv, NEW r \in Request, pc[r] = "idle",
           NEW f \in Source, Once(f) => Unspent(f.kind, f.id),
           from' = [from EXCEPT ![r] = f], NEW step \in {"issue", "mint", "idle", "stuck"},
           pc' = [pc EXCEPT ![r] = step],
           UNCHANGED <<granted, restarts>>
    PROVE  /\ \A q \in InFlight' : Once(from[q])' => \A g \in granted' : g.from # from'[q]
           /\ \A q, o \in InFlight' : Once(from[q])' /\ from'[q] = from'[o] => q = o
           /\ SingleUse'
           /\ \A kind, id : Unspent(kind, id) /\ ~(kind = f.kind /\ id = f.id) => Unspent(kind, id)'
<1>1. r \notin InFlight
  BY DEF InFlight, Steps
<1>2. \A q \in InFlight' : q \in Request /\ (q = r \/ q \in InFlight)
  BY DEF TypeOK, InFlight
<1>3. \A q \in Request : from'[q] = IF q = r THEN f ELSE from[q]
  BY DEF TypeOK
<1>4. \A x : Once(x)' <=> Once(x)
  BY DEF Once
<1>5. Once(f) => (\A g \in granted : g.from # f) /\ \A q \in InFlight : from[q] # f
  BY DEF Unspent
<1>6. \A q \in InFlight' : Once(from[q])' => \A g \in granted' : g.from # from'[q]
  BY <1>1, <1>2, <1>3, <1>4, <1>5 DEF UseInv
<1>7. \A q, o \in InFlight' : Once(from[q])' /\ from'[q] = from'[o] => q = o
  BY <1>1, <1>2, <1>3, <1>4, <1>5 DEF UseInv
<1>8. SingleUse'
  BY DEF UseInv, SingleUse
<1>9. ASSUME NEW kind, NEW id, Unspent(kind, id), ~(kind = f.kind /\ id = f.id)
      PROVE  Unspent(kind, id)'
  BY <1>2, <1>3, <1>9 DEF Unspent
<1>10. QED
  BY <1>6, <1>7, <1>8, <1>9

LEMMA UseStep ==
    ASSUME TypeOK, IdsInv, UseInv, GrantInv, [Next]_vars
    PROVE  UseInv'
<1>0. /\ Fresh = drawn + 1 /\ drawn \in Nat /\ restarts \in Nat
      /\ store = [clients |-> store.clients, access |-> store.access, refresh |-> store.refresh]
  BY DEF Fresh, TypeOK, Stores
<1>t. /\ \A c \in codes : c.id \in Nat /\ c.id <= drawn
      /\ \A t \in tickets : t.id \in Nat /\ t.id <= drawn
      /\ \A t \in store.refresh : t.id \in Nat /\ t.id <= drawn
      /\ \A r \in Request : from[r].id \in Nat /\ from[r].id <= drawn
      /\ \A g \in granted : g.from.id \in Nat /\ g.from.id <= drawn
  BY DEF IdsInv, TypeOK, Stores, Grant, Scoped, Source, Kept
<1>f. \A kind : Unspent(kind, Fresh)
  BY <1>0, <1>t DEF Unspent, InFlight
<1>o. ASSUME Others, UNCHANGED restarts
      PROVE  /\ \A kind, id : Unspent(kind, id) => Unspent(kind, id)'
             /\ \A r \in InFlight' : Once(from[r])' => \A g \in granted' : g.from # from'[r]
             /\ \A r, q \in InFlight' : Once(from[r])' /\ from'[r] = from'[q] => r = q
             /\ SingleUse'
  BY <1>o DEF Others, UseInv, Once, Unspent, SingleUse
<1>r. restarts' = restarts \/ (Restart /\ restarts' = restarts + 1)
  BY DEF Next, Handle, Register, Redeem, Refresh, RedeemTicket, Authorize, IssueTicket, IssueTokens,
         Mint, Serialize, WriteFile, Tick, Restart, vars
<1>1. CASE Restart
  <2>1. /\ codes' = {} /\ tickets' = {} /\ granted' = granted /\ InFlight' = {}
        /\ restarts' = restarts + 1
    BY <1>1 DEF Restart, history, InFlight, Steps
  <2>2. SingleUse'
    BY <1>0, <2>1 DEF UseInv, SingleUse
  <2>3. QED
    BY <1>0, <2>1, <2>2 DEF UseInv
<1>2. CASE /\ Others /\ UNCHANGED <<codes, tickets, asked, restarts>>
           /\ (restarts' = 0 => store'.refresh = store.refresh)
  BY <1>2, <1>o DEF UseInv
<1>3. ASSUME NEW r \in Request, Others, Authorize(r)
      PROVE  UseInv'
  <2>1. /\ UNCHANGED <<tickets, store, restarts>>
        /\ codes' = codes \cup {[id |-> Fresh, expires |-> now + CodeTtl]}
    BY <1>3 DEF Authorize
  <2>2. \A c, d \in codes' : c.id = d.id => c = d
    BY <1>0, <1>t, <2>1 DEF UseInv
  <2>3. \A c \in codes' : Unspent("code", c.id)'
    BY <1>3, <1>f, <1>o, <2>1 DEF UseInv
  <2>4. QED
    BY <1>3, <1>o, <2>1, <2>2, <2>3 DEF UseInv
<1>4. ASSUME NEW r \in Request, Others, IssueTicket(r)
      PROVE  UseInv'
  <2>1. UNCHANGED <<codes, store, restarts>>
    BY <1>4 DEF IssueTicket
  <2>2. PICK t : t.id = Fresh /\ tickets' = {u \in tickets : Live(u)} \cup {t}
    BY <1>4 DEF IssueTicket
  <2>3. \A u, v \in tickets' : u.id = v.id => u = v
    BY <1>0, <1>t, <2>2 DEF UseInv
  <2>4. \A u \in tickets' : Unspent("ticket", u.id)'
    BY <1>4, <1>f, <1>o, <2>1, <2>2 DEF UseInv
  <2>5. QED
    BY <1>4, <1>o, <2>1, <2>3, <2>4 DEF UseInv
<1>5. ASSUME NEW r \in Request, Redeem(r)
      PROVE  UseInv'
  <2>1. PICK c \in codes :
          /\ codes' = codes \ {c}
          /\ from' = [from EXCEPT ![r] = [kind |-> "code", id |-> c.id, scopes |-> Full]]
    BY <1>5 DEF Redeem
  <2>2. /\ pc[r] = "idle" /\ UNCHANGED <<tickets, store, restarts, granted>>
        /\ \E step \in {"issue", "idle"} : pc' = [pc EXCEPT ![r] = step]
    BY <1>5 DEF Redeem, Arrives, Goto, history, TypeOK
  <2>3. [kind |-> "code", id |-> c.id, scopes |-> Full] \in Source
    BY Types DEF TypeOK, Grant, Source
  <2>4. Unspent("code", c.id)
    BY DEF UseInv
  <2>5. /\ \A q \in InFlight' : Once(from[q])' => \A g \in granted' : g.from # from'[q]
        /\ \A q, o \in InFlight' : Once(from[q])' /\ from'[q] = from'[o] => q = o
        /\ SingleUse'
        /\ \A kind, id : Unspent(kind, id) /\ ~(kind = "code" /\ id = c.id) => Unspent(kind, id)'
    <3> DEFINE f == [kind |-> "code", id |-> c.id, scopes |-> Full]
    <3>1. f \in Source /\ f.kind = "code" /\ f.id = c.id /\ from' = [from EXCEPT ![r] = f]
      BY <2>1, <2>3
    <3>2. PICK step \in {"issue", "idle"} : pc' = [pc EXCEPT ![r] = step]
      BY <2>2
    <3> HIDE DEF f
    <3>3. Unspent(f.kind, f.id)
      BY <2>4, <3>1
    <3>4. \A kind, id : ~(kind = "code" /\ id = c.id) <=> ~(kind = f.kind /\ id = f.id)
      BY <3>1
    <3>5. QED
      BY <2>2, <3>1, <3>2, <3>3, <3>4, Presented
  <2>6. \A d \in codes' : d.id # c.id
    BY <2>1 DEF UseInv
  <2>7. QED
    BY <2>1, <2>2, <2>5, <2>6 DEF UseInv
<1>6. ASSUME NEW r \in Request, RedeemTicket(r)
      PROVE  UseInv'
  <2>1. PICK t \in tickets :
          /\ tickets' = tickets \ {t}
          /\ from' = [from EXCEPT ![r] = [kind |-> "ticket", id |-> t.id, scopes |-> t.scopes]]
    BY <1>6 DEF RedeemTicket
  <2>2. /\ pc[r] = "idle" /\ UNCHANGED <<codes, store, restarts, granted>>
        /\ \E step \in {"mint", "idle"} : pc' = [pc EXCEPT ![r] = step]
    BY <1>6 DEF RedeemTicket, Arrives, Goto, history, TypeOK
  <2>3. [kind |-> "ticket", id |-> t.id, scopes |-> t.scopes] \in Source
    BY DEF TypeOK, Scoped, Source
  <2>4. Unspent("ticket", t.id)
    BY DEF UseInv
  <2>5. /\ \A q \in InFlight' : Once(from[q])' => \A g \in granted' : g.from # from'[q]
        /\ \A q, o \in InFlight' : Once(from[q])' /\ from'[q] = from'[o] => q = o
        /\ SingleUse'
        /\ \A kind, id : Unspent(kind, id) /\ ~(kind = "ticket" /\ id = t.id) => Unspent(kind, id)'
    <3> DEFINE f == [kind |-> "ticket", id |-> t.id, scopes |-> t.scopes]
    <3>1. f \in Source /\ f.kind = "ticket" /\ f.id = t.id /\ from' = [from EXCEPT ![r] = f]
      BY <2>1, <2>3
    <3>2. PICK step \in {"mint", "idle"} : pc' = [pc EXCEPT ![r] = step]
      BY <2>2
    <3> HIDE DEF f
    <3>3. Unspent(f.kind, f.id)
      BY <2>4, <3>1
    <3>4. \A kind, id : ~(kind = "ticket" /\ id = t.id) <=> ~(kind = f.kind /\ id = f.id)
      BY <3>1
    <3>5. QED
      BY <2>2, <3>1, <3>2, <3>3, <3>4, Presented
  <2>6. \A u \in tickets' : u.id # t.id
    BY <2>1 DEF UseInv
  <2>7. QED
    BY <2>1, <2>2, <2>5, <2>6 DEF UseInv
<1>7. ASSUME NEW r \in Request, Refresh(r)
      PROVE  UseInv'
  <2>1. PICK t \in store.refresh :
          /\ store' = [store EXCEPT !.refresh = @ \ {t}]
          /\ from' = [from EXCEPT ![r] = [kind |-> "refresh", id |-> t.id, scopes |-> Full]]
          /\ \E step \in {"issue", "stuck"} : pc' = [pc EXCEPT ![r] = step]
    BY <1>7 DEF Refresh, Goto
  <2>2. pc[r] = "idle" /\ UNCHANGED <<codes, tickets, restarts, granted>>
    BY <1>7 DEF Refresh, Arrives
  <2>3. [kind |-> "refresh", id |-> t.id, scopes |-> Full] \in Source
    BY <1>t, Types DEF Source
  <2>4. restarts = 0 => Unspent("refresh", t.id)
    BY DEF UseInv
  <2>5. /\ \A q \in InFlight' : Once(from[q])' => \A g \in granted' : g.from # from'[q]
        /\ \A q, o \in InFlight' : Once(from[q])' /\ from'[q] = from'[o] => q = o
        /\ SingleUse'
        /\ \A kind, id : Unspent(kind, id) /\ ~(kind = "refresh" /\ id = t.id) => Unspent(kind, id)'
    <3> DEFINE f == [kind |-> "refresh", id |-> t.id, scopes |-> Full]
    <3>1. f \in Source /\ f.kind = "refresh" /\ f.id = t.id /\ from' = [from EXCEPT ![r] = f]
      BY <2>1, <2>3
    <3>2. PICK step \in {"issue", "stuck"} : pc' = [pc EXCEPT ![r] = step]
      BY <2>1
    <3> HIDE DEF f
    <3>3. Once(f) => Unspent(f.kind, f.id)
      BY <2>4, <3>1 DEF Once
    <3>4. \A kind, id : ~(kind = "refresh" /\ id = t.id) <=> ~(kind = f.kind /\ id = f.id)
      BY <3>1
    <3>5. QED
      BY <2>2, <3>1, <3>2, <3>3, <3>4, Presented
  <2>6. store'.refresh = store.refresh \ {t}
    BY <1>0, <2>1
  <2>7. restarts = 0 => \A u \in store'.refresh : u.id # t.id
    BY <2>6 DEF UseInv
  <2>8. QED
    BY <2>2, <2>5, <2>6, <2>7 DEF UseInv
<1>8. ASSUME NEW r \in Request, IssueTokens(r) \/ Mint(r)
      PROVE  UseInv'
  <2>1. /\ r \in InFlight /\ UNCHANGED <<codes, tickets, restarts, from>>
        /\ granted' = granted \cup {[from |-> from[r], id |-> Fresh]}
        /\ pc' = [pc EXCEPT ![r] = "persist"]
    BY <1>8 DEF IssueTokens, Mint, Goto, InFlight, Steps
  <2>2. InFlight' = InFlight \ {r}
    BY <2>1 DEF InFlight, Steps, TypeOK
  <2>3. \A x : Once(x)' <=> Once(x)
    BY <2>1 DEF Once
  <2>4. \A kind, id : Unspent(kind, id) => Unspent(kind, id)'
    BY <2>1, <2>2 DEF Unspent
  <2>5. Once(from[r]) => \A g \in granted : g.from # from[r]
    BY <2>1 DEF UseInv
  <2>6. SingleUse'
    <3> SUFFICES ASSUME NEW g \in granted', NEW h \in granted', g.from = h.from, Once(g.from)
                 PROVE  g = h
      BY <2>1 DEF SingleUse, Once
    <3>1. CASE g \in granted /\ h \in granted
      BY <3>1 DEF UseInv, SingleUse, Once
    <3>2. CASE g \notin granted \/ h \notin granted
      BY <2>1, <2>5, <3>2
    <3>3. QED
      BY <3>1, <3>2
  <2>7. /\ \A q \in InFlight' : Once(from[q])' => \A g \in granted' : g.from # from'[q]
        /\ \A q, o \in InFlight' : Once(from[q])' /\ from'[q] = from'[o] => q = o
    BY <2>1, <2>2, <2>3 DEF UseInv
  <2>8. /\ restarts = 0 => \A t, u \in store'.refresh : t.id = u.id => t = u
        /\ restarts = 0 => \A t \in store'.refresh : Unspent("refresh", t.id)'
    <3>1. store'.refresh = store.refresh
          \/ store'.refresh = store.refresh \cup {[id |-> Fresh, expires |-> now + RefreshTtl]}
      BY <1>0, <1>8 DEF IssueTokens, Mint
    <3>2. CASE store'.refresh = store.refresh
      BY <2>4, <3>2 DEF UseInv
    <3>3. CASE store'.refresh = store.refresh \cup {[id |-> Fresh, expires |-> now + RefreshTtl]}
      BY <1>0, <1>t, <1>f, <2>4, <3>3 DEF UseInv
    <3>4. QED
      BY <3>1, <3>2, <3>3
  <2>9. QED
    BY <2>1, <2>4, <2>6, <2>7, <2>8 DEF UseInv
<1>9. QED
  BY <1>r, <1>1, <1>2, <1>3, <1>4, <1>5, <1>6, <1>7, <1>8, StepKinds

-----------------------------------------------------------------------------
(* What a ticket is traded for. *)

LEMMA GrantStep ==
    ASSUME TypeOK, IdsInv, GrantInv, [Next]_vars
    PROVE  GrantInv'
<1>0. /\ Fresh = drawn + 1 /\ drawn \in Nat
      /\ store = [clients |-> store.clients, access |-> store.access, refresh |-> store.refresh]
  BY DEF Fresh, TypeOK, Stores
<1>t. /\ \A t \in asked : t.id \in Nat /\ t.id <= drawn
      /\ \A r \in Request : from[r].id \in Nat /\ from[r].id <= drawn
      /\ \A g \in granted : /\ g.id \in Nat /\ g.id <= drawn
                            /\ g.from.id \in Nat /\ g.from.id <= drawn
      /\ \A S \in Kept : /\ \A u \in S.access : u.id \in Nat /\ u.id <= drawn
                         /\ \A u \in S.refresh : u.id \in Nat /\ u.id <= drawn
  BY DEF IdsInv, TypeOK, Stores, Grant, Scoped, Source, Kept
(* No copy of the store gets anything for a grant that was made before.    *)
<1>k. ASSUME NEW g \in granted, NEW scopes, \A S \in Kept : Within(S, g.id, scopes)
      PROVE  \A S \in Kept' : Within(S, g.id, scopes)
  <2>1. g.id # Fresh
    BY <1>0, <1>t
  <2>2. Within(store', g.id, scopes)
    <3>1. \A u \in store'.access : u.id = g.id => \E S \in Kept : u \in S.access
      BY <2>1, Copies
    <3>2. \A u \in store'.refresh : u.id = g.id => \E S \in Kept : u \in S.refresh
      BY <2>1, Copies
    <3>3. QED
      BY <1>k, <3>1, <3>2 DEF Within
  <2>3. Within(EmptyStore, g.id, scopes)
    BY DEF Within, EmptyStore
  <2>4. QED
    BY <1>k, <2>2, <2>3, Copies
<1>g. ASSUME UNCHANGED granted, UNCHANGED asked
      PROVE  \A g \in granted' : \A t \in asked' :
               g.from.kind = "ticket" /\ g.from.id = t.id => \A S \in Kept' : Within(S, g.id, t.scopes)
  BY <1>g, <1>k DEF GrantInv
<1>1. CASE Others /\ UNCHANGED asked /\ tickets' \subseteq tickets
  BY <1>1, <1>g DEF Others, GrantInv
<1>2. ASSUME NEW r \in Request, Others, IssueTicket(r)
      PROVE  GrantInv'
  <2>1. PICK t : /\ t.id = Fresh /\ t.scopes.delegated
                 /\ tickets' = {u \in tickets : Live(u)} \cup {t} /\ asked' = asked \cup {t}
    BY <1>2 DEF IssueTicket
  <2>2. \A u, v \in asked' : u.id = v.id => u = v
    BY <1>0, <1>t, <2>1 DEF GrantInv
  <2>3. \A q \in InFlight' : \A u \in asked' :
          from'[q].kind = "ticket" /\ from'[q].id = u.id => from'[q].scopes = u.scopes
    BY <1>0, <1>2, <1>t, <2>1 DEF GrantInv, Others, InFlight
  <2>4. \A g \in granted' : \A u \in asked' :
          g.from.kind = "ticket" /\ g.from.id = u.id => \A S \in Kept' : Within(S, g.id, u.scopes)
    <3> SUFFICES ASSUME NEW g \in granted, NEW u \in asked', g.from.kind = "ticket", g.from.id = u.id
                 PROVE  \A S \in Kept' : Within(S, g.id, u.scopes)
      BY <1>2 DEF Others
    <3>1. u \in asked
      BY <1>0, <1>t, <2>1
    <3>2. \A S \in Kept : Within(S, g.id, u.scopes)
      BY <3>1 DEF GrantInv
    <3>3. QED
      BY <1>k, <3>2
  <2>5. QED
    BY <1>2, <2>1, <2>2, <2>3, <2>4 DEF GrantInv, Others
<1>3. ASSUME NEW r \in Request, Redeem(r) \/ RedeemTicket(r) \/ Refresh(r)
      PROVE  GrantInv'
  <2>1. UNCHANGED <<granted, asked>> /\ tickets' \subseteq tickets
    BY <1>3 DEF Redeem, RedeemTicket, Refresh, history
  <2>2. pc[r] = "idle"
    BY <1>3 DEF Redeem, RedeemTicket, Refresh, Arrives
  <2>3. \A q \in Request \ {r} : pc'[q] = pc[q] /\ from'[q] = from[q]
    BY <1>3 DEF Redeem, RedeemTicket, Refresh, Goto, TypeOK
  <2>4. r \in InFlight' =>
          /\ pc'[r] = "mint" <=> from'[r].kind = "ticket"
          /\ \A t \in asked : from'[r].kind = "ticket" /\ from'[r].id = t.id => from'[r].scopes = t.scopes
    <3>1. CASE Redeem(r)
      BY <2>2, <3>1 DEF Redeem, Goto, InFlight, Steps, TypeOK
    <3>2. CASE Refresh(r)
      BY <2>2, <3>2 DEF Refresh, Goto, InFlight, Steps, TypeOK
    <3>3. CASE RedeemTicket(r)
      BY <2>2, <3>3 DEF RedeemTicket, Goto, InFlight, Steps, TypeOK, GrantInv
    <3>4. QED
      BY <1>3, <3>1, <3>2, <3>3
  <2>5. \A q \in InFlight' : q = r \/ q \in InFlight
    BY <2>3 DEF InFlight
  <2>6. \A q \in InFlight' :
          /\ pc'[q] = "mint" <=> from'[q].kind = "ticket"
          /\ \A t \in asked : from'[q].kind = "ticket" /\ from'[q].id = t.id => from'[q].scopes = t.scopes
    <3> SUFFICES ASSUME NEW q \in InFlight'
                 PROVE  /\ pc'[q] = "mint" <=> from'[q].kind = "ticket"
                        /\ \A t \in asked : from'[q].kind = "ticket" /\ from'[q].id = t.id
                             => from'[q].scopes = t.scopes
      OBVIOUS
    <3>1. CASE q = r
      BY <2>4, <3>1
    <3>2. CASE q # r
      <4>1. q \in InFlight /\ pc'[q] = pc[q] /\ from'[q] = from[q]
        BY <2>3, <2>5, <3>2 DEF InFlight
      <4>2. QED
        BY <4>1 DEF GrantInv
    <3>3. QED
      BY <3>1, <3>2
  <2>7. QED
    BY <1>g, <2>1, <2>6 DEF GrantInv
<1>4. ASSUME NEW r \in Request, IssueTokens(r) \/ Mint(r)
      PROVE  GrantInv'
  <2>1. /\ r \in InFlight /\ UNCHANGED <<tickets, asked, from, file, snap>>
        /\ granted' = granted \cup {[from |-> from[r], id |-> Fresh]}
        /\ pc' = [pc EXCEPT ![r] = "persist"]
    BY <1>4 DEF IssueTokens, Mint, Goto, InFlight, Steps
  <2>2. InFlight' = InFlight \ {r} /\ \A q \in InFlight' : pc'[q] = pc[q]
    BY <2>1 DEF InFlight, Steps, TypeOK
  <2>3. ASSUME NEW t \in asked, from[r].kind = "ticket", from[r].id = t.id, NEW S \in Kept'
        PROVE  Within(S, Fresh, t.scopes)
    <3>1. Mint(r) /\ from[r].scopes = t.scopes /\ t.scopes.delegated /\ t.scopes \in Scopes
      BY <1>4, <2>1, <2>3 DEF IssueTokens, GrantInv, TypeOK, Scoped
    <3>2. Minted(from[r].scopes) = t.scopes
      BY <3>1 DEF Minted, Scopes
    <3>3. store'.refresh = store.refresh
          /\ store'.access = store.access \cup {[id |-> Fresh, expires |-> now + TransferTtl,
                                                 scopes |-> Minted(from[r].scopes)]}
      BY <1>0, <3>1 DEF Mint
    <3>4. \A T \in Kept : Within(T, Fresh, t.scopes)
      BY <1>0, <1>t DEF Within
    <3>5. Within(store', Fresh, t.scopes)
      BY <3>2, <3>3, <3>4 DEF Within, Kept
    <3>6. S \in Kept \/ S = store'
      BY <2>1, <2>3 DEF Kept
    <3>7. QED
      BY <3>4, <3>5, <3>6
  <2>4. \A g \in granted' : \A t \in asked' :
          g.from.kind = "ticket" /\ g.from.id = t.id => \A S \in Kept' : Within(S, g.id, t.scopes)
    BY <1>k, <2>1, <2>3 DEF GrantInv
  <2>5. QED
    BY <2>1, <2>2, <2>4 DEF GrantInv
<1>5. ASSUME NEW r \in Request, Others, Authorize(r)
      PROVE  GrantInv'
  BY <1>1, <1>5 DEF Authorize, history
<1>6. CASE Restart
  <2>1. UNCHANGED <<asked, granted>> /\ tickets' = {} /\ InFlight' = {}
    BY <1>6 DEF Restart, history, InFlight, Steps
  <2>2. QED
    BY <1>g, <2>1 DEF GrantInv
<1>7. CASE Others /\ UNCHANGED <<codes, tickets, asked>>
  BY <1>1, <1>7
<1>8. QED
  BY <1>2, <1>3, <1>4, <1>5, <1>6, <1>7, StepKinds

-----------------------------------------------------------------------------
LEMMA Starts == Init => IInv
<1> SUFFICES ASSUME Init
             PROVE  IInv
  OBVIOUS
<1>0. Kept \subseteq {EmptyStore} /\ InFlight = {}
  BY DEF Init, Kept, InFlight, Steps
<1>1. TypeOK
  BY Types, BoundsAssumption DEF Init, TypeOK
<1>2. IdsInv
  BY <1>0 DEF Init, IdsInv, EmptyStore, Nothing
<1>3. UseInv
  BY <1>0 DEF Init, UseInv, SingleUse, EmptyStore
<1>4. GrantInv
  BY <1>0 DEF Init, GrantInv
<1>5. QED
  BY <1>1, <1>2, <1>3, <1>4 DEF IInv

(* Every state the store reaches satisfies the strengthened invariant.     *)
THEOREM StoreInductive == Spec => []IInv
<1>1. Init => IInv
  BY Starts
<1>2. IInv /\ [Next]_vars => IInv'
  BY TypeStep, IdsStep, UseStep, GrantStep DEF IInv
<1>3. QED
  BY <1>1, <1>2, PTL DEF Spec

(* The store, its copies and the requests keep their types, for any number *)
(* of credentials.                                                         *)
THEOREM StoreTypeCorrect == Spec => []TypeOK
<1>1. IInv => TypeOK
  BY DEF IInv
<1>2. QED
  BY <1>1, StoreInductive, PTL

(* Whatever number of requests race one another, a code or a ticket is     *)
(* good for one issue, even when the server restarts in between, and a     *)
(* refresh token is as long as the server runs.                            *)
THEOREM CredentialsAreSingleUse == Spec => []SingleUse
<1>1. IInv => SingleUse
  BY DEF IInv, UseInv
<1>2. QED
  BY <1>1, StoreInductive, PTL

(* What a ticket was traded for reaches no tool, no note outside the       *)
(* subtree that was asked for, writes none unless that was asked for, and  *)
(* has no refresh token: for any requests, file failures and restarts.     *)
THEOREM GrantsAreConfined == Spec => []Confined
<1>1. IInv => Confined
  <2> SUFFICES ASSUME IInv, NEW g \in granted, NEW t \in asked,
                      g.from.kind = "ticket", g.from.id = t.id
               PROVE  /\ ~Tools(g.id) /\ \A u \in store.refresh : u.id # g.id
                      /\ \A p \in Reads(g.id) : IsPrefix(t.scopes.prefix, p)
                      /\ \A p \in Writes(g.id) : t.scopes.write /\ IsPrefix(t.scopes.prefix, p)
    BY DEF Confined
  <2>1. Within(store, g.id, t.scopes) /\ t.scopes.delegated
    BY DEF IInv, GrantInv, Kept
  <2>2. \A scopes \in Bearer(g.id) : scopes = t.scopes
    BY <2>1 DEF Within, Bearer
  <2>3. ~Tools(g.id)
    BY <2>1, <2>2 DEF Tools
  <2>4. QED
    BY <2>1, <2>2, <2>3 DEF Within, Reads, Writes, Permits
<1>2. QED
  BY <1>1, StoreInductive, PTL

-----------------------------------------------------------------------------
(* One request at a time, and a disk that works: then the file is what the *)
(* store was when the last answer went out.                                *)
Alone == \A r, q \in Request : pc[r] # "idle" /\ pc[q] # "idle" => r = q
FileIsWritten == "disk" \notin Faults

Distinct(S) == \A t, u \in S.refresh : t.id = u.id => t = u
Lacks(S, id) == \A t \in S.refresh : t.id # id

FileInv ==
    /\ \A S \in Kept : Distinct(S)
    /\ \A id \in retired : id <= drawn /\ Lacks(store, id) /\ Lacks(file, id)
    /\ \A t \in handed : Live(t) => t \in store.refresh /\ t \in file.refresh
    /\ \A r \in Request : pc[r] = "write" => snap[r] = store
    /\ \A r \in Request : pc[r] \in {"issue", "persist", "write"} /\ from[r].kind = "refresh" =>
         Lacks(store, from[r].id)

(* Steps that leave the refresh tokens alone. *)
LEMMA TokensStay ==
    ASSUME IInv, FileInv, Alone, Alone', [Next]_vars, NEW r \in Request,
           \A q \in Request : q # r => pc'[q] = pc[q] /\ from'[q] = from[q],
           UNCHANGED <<file, snap, now, retired, handed>>, store'.refresh = store.refresh,
           drawn <= drawn',
           store' = store \/ pc'[r] # "idle", pc'[r] # "write" \/ UNCHANGED <<store, pc>>,
           pc'[r] \notin {"issue", "persist", "write"} \/ from'[r].kind # "refresh"
             \/ UNCHANGED <<pc, from>>
    PROVE  FileInv'
<1>0. drawn \in Nat /\ drawn' \in Nat
  BY TypeStep DEF IInv, TypeOK
<1>1. Kept' \subseteq Kept \cup {store'}
  BY DEF Kept
<1>2. \A S \in Kept' : Distinct(S)
  BY <1>1 DEF FileInv, Distinct, Kept
<1>3. \A id \in retired' : id <= drawn' /\ Lacks(store', id) /\ Lacks(file', id)
  <2>1. \A id \in retired : id \in Nat
    BY DEF IInv, TypeOK
  <2>2. QED
    BY <1>0, <2>1 DEF FileInv, Lacks
<1>4. \A t \in handed' : Live(t)' => t \in store'.refresh /\ t \in file'.refresh
  BY DEF FileInv, Live
<1>5. ASSUME NEW q \in Request, pc'[q] = "write" PROVE snap'[q] = store'
  <2>1. CASE q = r
    BY <1>5, <2>1 DEF FileInv
  <2>2. CASE q # r
    <3>1. pc[q] = "write"
      BY <1>5, <2>2
    <3>2. store' = store
      BY <1>5, <2>2 DEF Alone
    <3>3. QED
      BY <3>1, <3>2 DEF FileInv
  <2>3. QED
    BY <2>1, <2>2
<1>6. ASSUME NEW q \in Request, pc'[q] \in {"issue", "persist", "write"}, from'[q].kind = "refresh"
      PROVE  Lacks(store', from'[q].id)
  BY <1>6 DEF FileInv, Lacks
<1>7. QED
  BY <1>2, <1>3, <1>4, <1>5, <1>6 DEF FileInv

(* The file and the store stay together. *)
LEMMA FileStep ==
    ASSUME FileIsWritten, IInv, FileInv, Alone, Alone', [Next]_vars
    PROVE  FileInv'
<1>0. /\ store \in Stores /\ file \in Stores /\ snap \in [Request -> Stores]
      /\ pc \in [Request -> {"idle", "issue", "mint", "persist", "write", "stuck"}]
      /\ from \in [Request -> Source] /\ gives \in [Request -> Nat]
      /\ handed \subseteq Grant /\ retired \subseteq Nat /\ now \in Nat /\ drawn \in Nat
      /\ store = [clients |-> store.clients, access |-> store.access, refresh |-> store.refresh]
      /\ file = [clients |-> file.clients, access |-> file.access, refresh |-> file.refresh]
      /\ store.refresh \subseteq Grant
      /\ store \in Kept /\ file \in Kept
  BY BoundsAssumption DEF IInv, TypeOK, Stores, Kept
<1>1. ASSUME NEW r \in Request, Register(r)
      PROVE  FileInv'
  <2>1. store'.refresh = store.refresh
    BY <1>0, <1>1 DEF Register
  <2>2. pc' = [pc EXCEPT ![r] = "persist"] /\ from' = [from EXCEPT ![r] = Nothing]
    BY <1>1 DEF Register, Goto
  <2>3. pc'[r] = "persist" /\ from'[r].kind # "refresh"
    BY <1>0, <2>2 DEF Nothing
  <2>4. \A q \in Request : q # r => pc'[q] = pc[q] /\ from'[q] = from[q]
    BY <1>0, <2>2
  <2>5. UNCHANGED <<file, snap, now, retired, handed>> /\ drawn <= drawn'
    BY <1>0, <1>1 DEF Register, Draw, Fresh, history
  <2>6. QED
    BY <2>1, <2>3, <2>4, <2>5, TokensStay
<1>2. ASSUME NEW r \in Request, Authorize(r) \/ IssueTicket(r)
      PROVE  FileInv'
  <2>1. UNCHANGED <<store, pc, from, file, snap, now, retired, handed>> /\ drawn <= drawn'
    BY <1>0, <1>2 DEF Authorize, IssueTicket, Draw, Fresh, request, history
  <2>2. QED
    BY <2>1, TokensStay
<1>3. ASSUME NEW r \in Request, Redeem(r) \/ RedeemTicket(r)
      PROVE  FileInv'
  <2>1. UNCHANGED <<store, file, snap, now, retired, handed, drawn>>
    BY <1>3 DEF Redeem, RedeemTicket, history
  <2>2. /\ pc[r] = "idle" /\ pc' \in {pc, [pc EXCEPT ![r] = "issue"], [pc EXCEPT ![r] = "mint"]}
        /\ \E id, scopes : \E kind \in {"code", "ticket"} :
             from' = [from EXCEPT ![r] = [kind |-> kind, id |-> id, scopes |-> scopes]]
    BY <1>3 DEF Redeem, RedeemTicket, Arrives, Goto
  <2>3. from'[r].kind # "refresh" /\ pc'[r] # "write"
    BY <1>0, <2>2
  <2>4. \A q \in Request : q # r => pc'[q] = pc[q] /\ from'[q] = from[q]
    BY <1>0, <2>2
  <2>5. QED
    BY <1>0, <2>1, <2>3, <2>4, TokensStay
<1>4. ASSUME NEW r \in Request, Mint(r)
      PROVE  FileInv'
  <2>1. store'.refresh = store.refresh
    BY <1>0, <1>4 DEF Mint
  <2>2. pc[r] = "mint" /\ pc' = [pc EXCEPT ![r] = "persist"] /\ from' = from
    BY <1>4 DEF Mint, Goto
  <2>3. from[r].kind = "ticket"
    BY <2>2 DEF IInv, GrantInv, InFlight, Steps
  <2>4. pc'[r] = "persist" /\ from'[r].kind # "refresh"
    BY <1>0, <2>2, <2>3
  <2>5. \A q \in Request : q # r => pc'[q] = pc[q] /\ from'[q] = from[q]
    BY <1>0, <2>2
  <2>6. UNCHANGED <<file, snap, now, retired, handed>> /\ drawn <= drawn'
    BY <1>0, <1>4 DEF Mint, Draw, Fresh
  <2>7. QED
    BY <2>1, <2>4, <2>5, <2>6, TokensStay
<1>5. ASSUME NEW r \in Request, Refresh(r)
      PROVE  FileInv'
  <2>1. PICK t \in store.refresh :
          /\ store' = [store EXCEPT !.refresh = @ \ {t}]
          /\ handed' = handed \ {t}
          /\ from' = [from EXCEPT ![r] = [kind |-> "refresh", id |-> t.id, scopes |-> Full]]
          /\ pc' \in {[pc EXCEPT ![r] = "issue"], [pc EXCEPT ![r] = "stuck"]}
    BY <1>5 DEF Refresh, Goto
  <2>2. store'.refresh = store.refresh \ {t} /\ UNCHANGED <<file, snap, now, retired, drawn>>
    BY <1>0, <1>5, <2>1 DEF Refresh
  <2>3. \A q \in Request : q # r => pc'[q] = pc[q] /\ pc'[q] = "idle"
    BY <1>0, <2>1 DEF Alone
  <2>4. pc'[r] # "write" /\ from'[r].id = t.id
    BY <1>0, <2>1
  <2>5. Lacks(store', t.id)
    BY <1>0, <2>2 DEF FileInv, Distinct, Lacks
  <2>6. \A S \in Kept' : Distinct(S)
    BY <1>0, <2>2 DEF FileInv, Distinct, Kept
  <2>7. \A id \in retired' : id <= drawn' /\ Lacks(store', id) /\ Lacks(file', id)
    BY <2>2 DEF FileInv, Lacks
  <2>8. \A u \in handed' : Live(u)' => u \in store'.refresh /\ u \in file'.refresh
    BY <2>1, <2>2 DEF FileInv, Live
  <2>9. QED
    BY <2>3, <2>4, <2>5, <2>6, <2>7, <2>8 DEF FileInv
<1>6. ASSUME NEW r \in Request, IssueTokens(r)
      PROVE  FileInv'
  <2> DEFINE new == [id |-> Fresh, expires |-> now + RefreshTtl]
  <2>1. /\ pc[r] = "issue" /\ pc' = [pc EXCEPT ![r] = "persist"]
        /\ UNCHANGED <<file, snap, now, retired, handed, from>> /\ drawn' = Fresh
    BY <1>6 DEF IssueTokens, Goto, Draw
  <2>2. store'.refresh = store.refresh \cup {new}
    BY <1>0, <1>6 DEF IssueTokens
  <2>3. new.id = Fresh /\ Fresh = drawn + 1
    BY DEF Fresh
  <2> HIDE DEF new
  <2>4. \A q \in Request : q # r => pc'[q] = pc[q] /\ pc'[q] = "idle"
    BY <1>0, <2>1 DEF Alone
  <2>5. pc'[r] = "persist"
    BY <1>0, <2>1
  <2>6. \A u \in store.refresh : u.id \in Nat /\ u.id <= drawn
    BY <1>0 DEF IInv, IdsInv, Grant
  <2>7. \A S \in Kept' : Distinct(S)
    <3>1. Distinct(store')
      BY <1>0, <2>2, <2>3, <2>6 DEF FileInv, Distinct
    <3>2. Kept' \subseteq Kept \cup {store'}
      BY <2>1 DEF Kept
    <3>3. QED
      BY <3>1, <3>2 DEF FileInv
  <2>8. \A id \in retired' : id <= drawn' /\ Lacks(store', id) /\ Lacks(file', id)
    <3>1. \A id \in retired : id \in Nat /\ id <= drawn
      BY <1>0 DEF FileInv
    <3>2. \A id \in retired : id <= Fresh /\ id # Fresh
      BY <1>0, <2>3, <3>1
    <3>3. QED
      BY <2>1, <2>2, <2>3, <3>2 DEF FileInv, Lacks
  <2>9. \A u \in handed' : Live(u)' => u \in store'.refresh /\ u \in file'.refresh
    BY <2>1, <2>2 DEF FileInv, Live
  <2>10. from'[r].kind = "refresh" => Lacks(store', from'[r].id)
    <3>1. from[r].id \in Nat /\ from[r].id <= drawn
      BY <1>0 DEF IInv, IdsInv, Source
    <3>2. from[r].id # Fresh
      BY <1>0, <2>3, <3>1
    <3>3. QED
      BY <2>1, <2>2, <2>3, <3>2 DEF FileInv, Lacks
  <2>11. QED
    BY <2>4, <2>5, <2>7, <2>8, <2>9, <2>10 DEF FileInv
<1>7. ASSUME NEW r \in Request, Serialize(r)
      PROVE  FileInv'
  <2>1. /\ pc[r] = "persist" /\ pc' = [pc EXCEPT ![r] = "write"]
        /\ snap' = [snap EXCEPT ![r] = store]
        /\ UNCHANGED <<store, file, now, retired, handed, from, drawn>>
    BY <1>7 DEF Serialize, Goto, memory, history
  <2>2. /\ snap'[r] = store /\ \A q \in Request : q # r => snap'[q] = snap[q]
        /\ pc'[r] = "write" /\ \A q \in Request : q # r => pc'[q] = pc[q]
    BY <1>0, <2>1
  <2>3. Kept' \subseteq Kept
    BY <2>1, <2>2 DEF Kept
  <2>4. \A u \in handed' : Live(u)' => u \in store'.refresh /\ u \in file'.refresh
    BY <2>1 DEF FileInv, Live
  <2>5. QED
    BY <2>1, <2>2, <2>3, <2>4 DEF FileInv, Lacks
<1>8. ASSUME NEW r \in Request, WriteFile(r)
      PROVE  FileInv'
  <2>1. /\ pc[r] = "write" /\ pc' = [pc EXCEPT ![r] = "idle"] /\ file' = snap[r]
        /\ handed' = handed \cup {t \in store.refresh : t.id = gives[r]}
        /\ retired' = (IF gives[r] # 0 /\ from[r].kind = "refresh"
                       THEN retired \cup {from[r].id} ELSE retired)
        /\ UNCHANGED <<store, now, from, drawn, snap>>
    BY <1>8 DEF WriteFile, Goto, Answer, memory, FileIsWritten
  <2>2. file' = store
    BY <2>1 DEF FileInv
  <2>3. /\ pc'[r] = "idle" /\ \A q \in Request : q # r => pc'[q] = pc[q]
    BY <1>0, <2>1
  <2>4. Kept' \subseteq Kept
    BY <2>1, <2>2 DEF Kept
  <2>5. \A id \in retired' : id <= drawn' /\ Lacks(store', id) /\ Lacks(file', id)
    <3>1. from[r].id <= drawn
      BY DEF IInv, IdsInv
    <3>2. from[r].kind = "refresh" => Lacks(store, from[r].id)
      BY <2>1 DEF FileInv
    <3>3. QED
      BY <2>1, <2>2, <3>1, <3>2 DEF FileInv, Lacks
  <2>6. \A u \in handed' : Live(u)' => u \in store'.refresh /\ u \in file'.refresh
    BY <2>1, <2>2 DEF FileInv, Live
  <2>7. QED
    BY <2>1, <2>3, <2>4, <2>5, <2>6 DEF FileInv, Lacks
<1>9. CASE Tick
  <2>1. UNCHANGED <<store, file, snap, pc, from, retired, handed, drawn>> /\ now' = now + 1
    BY <1>9 DEF Tick, memory, request, history
  <2>2. \A u \in handed : u.expires \in Nat
    BY <1>0 DEF Grant
  <2>3. \A u \in handed : Live(u)' => Live(u)
    BY <1>0, <2>1, <2>2 DEF Live
  <2>4. Kept' = Kept
    BY <2>1 DEF Kept
  <2>5. QED
    BY <2>1, <2>3, <2>4 DEF FileInv, Lacks
<1>10. CASE Restart
  <2>1. /\ store' = [file EXCEPT !.access = {t \in @ : Live(t)}, !.refresh = {t \in @ : Live(t)}]
        /\ pc' = [r \in Request |-> "idle"] /\ snap' = [r \in Request |-> EmptyStore]
        /\ UNCHANGED <<file, now, retired, handed, drawn>>
    BY <1>10 DEF Restart, history
  <2>2. store'.refresh = {t \in file.refresh : Live(t)}
    BY <1>0, <2>1
  <2>3. \A S \in Kept' : Distinct(S)
    <3>1. Distinct(EmptyStore) /\ Distinct(file) /\ Distinct(store')
      BY <1>0, <2>2 DEF FileInv, Distinct, EmptyStore
    <3>2. Kept' \subseteq {store', file, EmptyStore}
      BY <2>1 DEF Kept
    <3>3. QED
      BY <3>1, <3>2
  <2>4. \A u \in handed' : Live(u)' => u \in store'.refresh /\ u \in file'.refresh
    BY <2>1, <2>2 DEF FileInv, Live
  <2>5. \A id \in retired' : id <= drawn' /\ Lacks(store', id) /\ Lacks(file', id)
    BY <2>1, <2>2 DEF FileInv, Lacks
  <2>6. \A r \in Request : pc'[r] = "idle"
    BY <2>1
  <2>7. QED
    BY <2>3, <2>4, <2>5, <2>6 DEF FileInv
<1>11. CASE UNCHANGED vars
  BY <1>11 DEF vars, memory, request, history, FileInv, Kept, Lacks, Live
<1>12. QED
  BY <1>1, <1>2, <1>3, <1>4, <1>5, <1>6, <1>7, <1>8, <1>9, <1>10, <1>11 DEF Next, Handle

(* While requests come one at a time and the file can be written, the file *)
(* knows every token a client counts on and none it has traded in.         *)
THEOREM FileInductive ==
    ASSUME FileIsWritten
    PROVE  Spec /\ []Alone => [](IInv /\ FileInv)
<1>1. Init => FileInv
  <2> SUFFICES ASSUME Init PROVE FileInv
    OBVIOUS
  <2>1. Kept \subseteq {EmptyStore} /\ Distinct(EmptyStore)
    BY DEF Init, Kept, EmptyStore, Distinct
  <2>2. QED
    BY <2>1 DEF Init, FileInv
<1>2. IInv /\ FileInv /\ Alone /\ Alone' /\ [Next]_vars => FileInv'
  BY FileStep
<1>3. QED
  BY <1>1, <1>2, StoreInductive, PTL DEF Spec

(* Then rotation is final: a refresh token whose successor was answered    *)
(* never works again, restarts included.                                   *)
THEOREM RotationIsFinal ==
    ASSUME FileIsWritten
    PROVE  Spec /\ []Alone => []RotationFinal
<1>1. FileInv => RotationFinal
  BY DEF FileInv, RotationFinal, Lacks
<1>2. QED
  BY <1>1, FileInductive, PTL

(* And authorization survives a restart: a refresh token that was answered *)
(* and not used since is good until it expires.                            *)
THEOREM AuthorizationSurvives ==
    ASSUME FileIsWritten
    PROVE  Spec /\ []Alone => []SurvivesRestart
<1>1. FileInv => SurvivesRestart
  BY DEF FileInv, SurvivesRestart
<1>2. QED
  BY <1>1, FileInductive, PTL
====================================================================================
