------------------------ MODULE AuthorizationDialog ------------------------
(***************************************************************************)
(* The authorization endpoint of the OAuth 2.0 provider: the dialog that   *)
(* leads one user agent from a client's request, through a login and a     *)
(* consent form, to a grant (lib/oauth2/az-server/middleware).             *)
(*                                                                         *)
(* The dialog is kept in the session as a transaction.  Every request      *)
(* loads its own copy of the session, works on it across the calls it      *)
(* waits for, and writes all of it back when the response ends, so two     *)
(* requests of one browser overwrite each other's transactions.  A page is *)
(* written before the response ends (lib/postflow), and its form may be    *)
(* back before the session is saved.                                       *)
(*                                                                         *)
(* Requests are numbered as they arrive, and the request that creates a    *)
(* transaction or a session lends it its number as the identifier.  The    *)
(* redirect_uri, response_type and state of a transaction are fixed with   *)
(* its request and travel inside AuthRequests.                             *)
(***************************************************************************)
EXTENDS Naturals, FiniteSets

CONSTANTS
  Requests,             \* the requests of the user agent, by arrival
  Users,                \* resource owners
  Clients,              \* applications
  Scopes,               \* the scopes of the provider API
  AuthRequests,         \* what an application asks for
  IdentityExtractions,  \* settings of identity-extraction in the run
  AuthorizationTypes,   \* settings of authorization in the run
  MaxFaults,            \* bound: session expiries and store errors
  None                  \* an absent value

VARIABLES
  config,         \* the provider's identity-extraction and authorization
  input,          \* each request as received
  pc,             \* the call each request waits for
  own,            \* req.session: the copy of the session a request works on
  tid,            \* req.oauth2.transactionID
  page,           \* the form or redirection a request answers with
  grant,          \* what a request had the grant callback issue
  store,          \* the session store
  cookie,         \* the session cookie of the user agent
  authenticated,  \* history: who logged in to which transaction
  overlapped,     \* history: a request arrived while another was waiting
  faults          \* session expiries and store errors so far

vars == <<config, input, pc, own, tid, page, grant, store, cookie,
          authenticated, overlapped, faults>>

\* What no step changes between the arrival of a request and its response.
outside == <<config, input, store, cookie, overlapped>>

Waiting == {"clients", "user", "permission", "addPermission", "issue",
            "page", "end"}

\* user is there once the transaction is logined (id-extractor.js:43-45).
Transactions == [req: AuthRequests, user: Users \cup {None}]

Dialogs == [Requests -> Transactions \cup {None}]

Inputs == [kind: {"AZ req", "AZ login", "AZ redirect", "AZ consent"},
           req: AuthRequests \cup {None}, user: Users \cup {None},
           page: Requests \cup {None}]

Pages == [kind: {"login", "consent", "redirect"}, tid: Requests,
          user: Users \cup {None}, scopes: SUBSET Scopes]

GrantsIssued == [tid: Requests, user: Users \cup {None},
                 client: Clients, scopes: SUBSET Scopes]

\* custom-form settings behave as the default forms do once they are loaded.
ASSUME ConfigAssumption ==
  /\ Requests \subseteq Nat
  /\ AuthRequests \subseteq [client: Clients, scopes: (SUBSET Scopes) \ {{}}]
  /\ IdentityExtractions \subseteq {"basic", "form", "redirect"}
  /\ AuthorizationTypes \subseteq {"authenticated", "form"}
  /\ MaxFaults \in Nat

ASSUME NoneAssumption ==
  /\ None \notin Users /\ None \notin Requests
  /\ None \notin Transactions /\ None \notin Dialogs
  /\ None \notin Inputs /\ None \notin Pages /\ None \notin GrantsIssued

TypeOK ==
  /\ config \in [identity: IdentityExtractions, authorization: AuthorizationTypes]
  /\ input \in [Requests -> Inputs \cup {None}]
  /\ pc \in [Requests -> Waiting \cup {"idle", "done", "lost"}]
  /\ own \in [Requests -> [sid: Requests, txns: Dialogs]]
  /\ tid \in [Requests -> Requests \cup {None}]
  /\ page \in [Requests -> Pages \cup {None}]
  /\ grant \in [Requests -> GrantsIssued \cup {None}]
  /\ store \in [Requests -> Dialogs \cup {None}]
  /\ cookie \in Requests \cup {None}
  /\ authenticated \subseteq Requests \X Users
  /\ overlapped \in BOOLEAN
  /\ faults \in 0..MaxFaults

NoTransactions == [t \in Requests |-> None]

Init ==
  /\ config \in [identity: IdentityExtractions, authorization: AuthorizationTypes]
  /\ input = [r \in Requests |-> None]
  /\ pc = [r \in Requests |-> "idle"]
  /\ own = [r \in Requests |-> [sid |-> r, txns |-> NoTransactions]]
  /\ tid = [r \in Requests |-> None]
  /\ page = [r \in Requests |-> None]
  /\ grant = [r \in Requests |-> None]
  /\ store = [s \in Requests |-> None]
  /\ cookie = None
  /\ authenticated = {}
  /\ overlapped = FALSE
  /\ faults = 0

-----------------------------------------------------------------------------
(* Seeded faults, none of them part of Spec: what a slip in the definition of *)
(* the same name would make of it.  Each breaks a property below.             *)

\* A search that never finds the transaction of an earlier request.
FaultySearchTXData(txns, areq) == {}

\* A login form that is skipped once it was shown.
FaultyLogined(r) ==
  \/ own[r].txns[tid[r]].user # None
  \/ \E p \in Requests : page[p] # None /\ page[p].tid = tid[r]

\* The hidden fields compared, but not the resource owner.
FaultyHiddenValuesMatch(shown, t) == t.user # None /\ t.req.scopes = shown.scopes

\* A new transaction that takes the place of all the others.
FaultyCreateTXData(txns, areq, id) ==
  [t \in Requests |-> IF t = id THEN [req |-> areq, user |-> None] ELSE None]

\* A browser whose session expired keeps the identifier of it.
FaultyLoadSession(r) ==
  [sid  |-> cookie,
   txns |-> IF cookie # None /\ store[cookie] # None THEN store[cookie]
                                                   ELSE [t \in Requests |-> None]]

\* A page that is written without ending the response.
FaultyWritePage(r) ==
  /\ pc[r] = "page"
  /\ cookie' = own[r].sid
  /\ UNCHANGED <<config, input, pc, own, tid, page, grant, store, authenticated,
                 overlapped, faults>>

-----------------------------------------------------------------------------
(* The session and its transactions. *)

\* The session middleware: the session of the cookie, or else a new one.
LoadSession(r) ==
  IF cookie # None /\ store[cookie] # None
  THEN [sid |-> cookie, txns |-> store[cookie]]
  ELSE [sid |-> r, txns |-> NoTransactions]

Arrive(r, q) ==
  /\ pc[r] = "idle" /\ \A x \in Requests : x < r => pc[x] # "idle"
  /\ input' = [input EXCEPT ![r] = q]
  /\ own' = [own EXCEPT ![r] = LoadSession(r)]
  /\ overlapped' = (overlapped \/ \E x \in Requests : pc[x] \in Waiting)

SearchTXData(txns, areq) ==
  {t \in Requests : txns[t] # None /\ txns[t].req = areq}

CreateTXData(txns, areq, id) ==
  [txns EXCEPT ![id] = [req |-> areq, user |-> None]]

Transaction(r) == own[r].txns[tid[r]]

Logined(r) == Transaction(r).user # None

-----------------------------------------------------------------------------
(* What a request waits for or answers next. *)

\* r waits for the call named next and has done nothing else.
Goto(r, next) ==
  /\ pc' = [pc EXCEPT ![r] = next]
  /\ UNCHANGED <<outside, own, tid, page, grant, authenticated>>

\* Every error ends the response; the session is saved all the same.
Refuse(r) == Goto(r, "end")

Answer(r, kind, t, shown) ==
  /\ page' = [page EXCEPT ![r] = [kind |-> kind, tid |-> t, user |-> shown.user,
                                  scopes |-> shown.req.scopes]]
  /\ pc' = [pc EXCEPT ![r] = "page"]
  /\ UNCHANGED grant

\* server._respond: the grant callback records the permission first.
Respond(r, id, t, scopes) ==
  /\ grant' = [grant EXCEPT ![r] = [tid |-> id, user |-> t.user,
                                    client |-> t.req.client, scopes |-> scopes]]
  /\ pc' = [pc EXCEPT ![r] = "addPermission"]
  /\ UNCHANGED page

\* The handlers behind the login, for a transaction t.
AfterLogin(r, id, t) ==
  IF config.authorization = "authenticated"
  THEN Respond(r, id, t, t.req.scopes)
  ELSE pc' = [pc EXCEPT ![r] = "permission"] /\ UNCHANGED <<page, grant>>

-----------------------------------------------------------------------------
(* The first request of a dialog. *)

AuthorizationRequest(r) ==
  \E areq \in AuthRequests, user \in Users :
    /\ Arrive(r, [kind |-> "AZ req", req |-> areq, page |-> None,
                  user |-> IF config.identity = "basic" THEN user ELSE None])
    /\ pc' = [pc EXCEPT ![r] = "clients"]
    /\ UNCHANGED <<config, tid, page, grant, store, cookie, authenticated,
                   faults>>

\* No such client, or parameters that validateClient refuses.
ClientRefused(r) ==
  pc[r] = "clients" /\ Refuse(r) /\ UNCHANGED faults

ClientFound(r) ==
  /\ pc[r] = "clients"
  /\ LET areq  == input[r].req
         found == SearchTXData(own[r].txns, areq)
         txns  == IF found # {} THEN own[r].txns
                                ELSE CreateTXData(own[r].txns, areq, r)
     IN \E id \in IF found # {} THEN found ELSE {r} :
          LET t == IF found # {} THEN txns[id] ELSE [req |-> areq, user |-> None]
          IN /\ own' = [own EXCEPT ![r].txns = txns]
             /\ tid' = [tid EXCEPT ![r] = id]
             /\ CASE config.identity = "basic" ->
                       pc' = [pc EXCEPT ![r] = "user"] /\ UNCHANGED <<page, grant>>
                  [] config.identity = "redirect" -> Answer(r, "redirect", id, t)
                  [] config.identity = "form" /\ t.user # None -> AfterLogin(r, id, t)
                  [] OTHER -> Answer(r, "login", id, t)
  /\ UNCHANGED <<outside, authenticated, faults>>

-----------------------------------------------------------------------------
(* The later requests of a dialog, which name a transaction in a form. *)

\* The pages the user agent was sent.
Shown(kind) == {p \in Requests : /\ page[p] # None /\ page[p].kind = kind
                                 /\ pc[p] \in {"end", "done"}}

\* A transaction the session does not hold is forbidden.
TransactionMissing(r) ==
  \E p \in Shown("login") \cup Shown("consent") \cup Shown("redirect") :
    /\ LoadSession(r).txns[page[p].tid] = None
    /\ Arrive(r, [kind |-> CASE page[p].kind = "login"    -> "AZ login"
                             [] page[p].kind = "redirect" -> "AZ redirect"
                             [] OTHER                     -> "AZ consent",
                  req |-> None, user |-> None, page |-> p])
    /\ pc' = [pc EXCEPT ![r] = "end"]
    /\ UNCHANGED <<config, tid, page, grant, store, cookie, authenticated,
                   faults>>

TransactionLoader(r, kind, p, user) ==
  /\ LoadSession(r).txns[page[p].tid] # None
  /\ Arrive(r, [kind |-> kind, req |-> None, user |-> user, page |-> p])
  /\ tid' = [tid EXCEPT ![r] = page[p].tid]

\* The login form, with anybody's name in it.
Login(r) ==
  \E p \in Shown("login"), user \in Users :
    /\ TransactionLoader(r, "AZ login", p, user)
    /\ pc' = [pc EXCEPT ![r] = "user"]
    /\ UNCHANGED <<config, page, grant, store, cookie, authenticated, faults>>

\* Back from the login service, with a confirmation or with an error.
Redirected(r) ==
  \E p \in Shown("redirect"), user \in Users, next \in {"user", "end"} :
    /\ TransactionLoader(r, "AZ redirect", p, user)
    /\ pc' = [pc EXCEPT ![r] = next]
    /\ UNCHANGED <<config, page, grant, store, cookie, authenticated, faults>>

UserAccepted(r) ==
  /\ pc[r] = "user"
  /\ LET t == [Transaction(r) EXCEPT !.user = input[r].user] IN
       /\ own' = [own EXCEPT ![r].txns[tid[r]] = t]
       /\ IF input[r].kind = "AZ redirect" THEN Respond(r, tid[r], t, t.req.scopes)
                                           ELSE AfterLogin(r, tid[r], t)
  /\ authenticated' = authenticated \cup {<<tid[r], input[r].user>>}
  /\ UNCHANGED <<outside, tid, faults>>

\* Another password, or an error of the registry.  A failed login form is
\* rendered again, unless somebody has logged in to the transaction: then the
\* form steps aside as it does for any logined transaction.
UserRejected(r) ==
  /\ pc[r] = "user"
  /\ CASE input[r].kind # "AZ login" ->
            pc' = [pc EXCEPT ![r] = "end"] /\ UNCHANGED <<page, grant>>
       [] input[r].kind = "AZ login" /\ Logined(r) ->
            AfterLogin(r, tid[r], Transaction(r))
       [] OTHER -> Answer(r, "login", tid[r], Transaction(r))
  /\ UNCHANGED <<outside, own, tid, authenticated, faults>>

\* isAuthorized decides nothing: every caller asks for consent again.
PermissionChecked(r) ==
  /\ pc[r] = "permission"
  /\ Answer(r, "consent", tid[r], Transaction(r))
  /\ UNCHANGED <<outside, own, tid, authenticated, faults>>

\* The hidden values of the consent form against the transaction.
HiddenValuesMatch(shown, t) ==
  t.user # None /\ t.user = shown.user /\ t.req.scopes = shown.scopes

\* The form refuses (no scope), or approves all of the scopes, or those of them
\* that are selected in it.
Decision(r) ==
  \E p \in Shown("consent") : \E scopes \in SUBSET page[p].scopes :
    LET t == LoadSession(r).txns[page[p].tid] IN
      /\ TransactionLoader(r, "AZ consent", p, None)
      /\ IF HiddenValuesMatch(page[p], t) /\ scopes # {}
         THEN Respond(r, page[p].tid, t, scopes)
         ELSE pc' = [pc EXCEPT ![r] = "end"] /\ UNCHANGED <<page, grant>>
      /\ UNCHANGED <<config, store, cookie, authenticated, faults>>

-----------------------------------------------------------------------------
(* Issuing the grant and ending the response. *)

PermissionAdded(r) ==
  pc[r] = "addPermission" /\ Goto(r, "issue") /\ UNCHANGED faults

GrantSaved(r) == pc[r] = "issue" /\ Goto(r, "end") /\ UNCHANGED faults

StoreError(r) ==
  /\ pc[r] \in {"permission", "addPermission", "issue"}
  /\ faults < MaxFaults /\ faults' = faults + 1
  /\ Refuse(r)

\* findOrCreate fails: addPermission reads the scopes of an undefined record,
\* and the exception ends the process.
Crash(r) ==
  /\ pc[r] = "addPermission"
  /\ faults < MaxFaults /\ faults' = faults + 1
  /\ pc' = [x \in Requests |-> IF pc[x] \in Waiting THEN "lost" ELSE pc[x]]
  /\ UNCHANGED <<outside, own, tid, page, grant, authenticated>>

\* postflow writes the headers and the page, and ends the response after it.
WritePage(r) ==
  /\ pc[r] = "page"
  /\ cookie' = own[r].sid
  /\ pc' = [pc EXCEPT ![r] = "end"]
  /\ UNCHANGED <<config, input, own, tid, page, grant, store, authenticated,
                 overlapped, faults>>

\* The end of a response saves the session, changed or not.
SaveSession(r) ==
  /\ pc[r] = "end"
  /\ \/ store' = [store EXCEPT ![own[r].sid] = own[r].txns] /\ UNCHANGED faults
     \/ faults < MaxFaults /\ faults' = faults + 1 /\ UNCHANGED store
  /\ cookie' = own[r].sid
  /\ own' = [own EXCEPT ![r] = [sid |-> r, txns |-> NoTransactions]]
  /\ pc' = [pc EXCEPT ![r] = "done"]
  /\ UNCHANGED <<config, input, tid, page, grant, authenticated, overlapped>>

\* Ten minutes after it was saved last.
SessionExpires(s) ==
  /\ store[s] # None
  /\ faults < MaxFaults /\ faults' = faults + 1
  /\ store' = [store EXCEPT ![s] = None]
  /\ UNCHANGED <<config, input, pc, own, tid, page, grant, cookie,
                 authenticated, overlapped>>

-----------------------------------------------------------------------------
Receive(r) == AuthorizationRequest(r) \/ TransactionMissing(r) \/ Login(r)
              \/ Redirected(r) \/ Decision(r)

\* The callback of the call that r waits for.
Callback(r) ==
  \/ ClientRefused(r) \/ ClientFound(r) \/ UserAccepted(r) \/ UserRejected(r)
  \/ PermissionChecked(r) \/ PermissionAdded(r) \/ GrantSaved(r)
  \/ StoreError(r) \/ Crash(r) \/ WritePage(r) \/ SaveSession(r)

Next == \/ \E r \in Requests : Receive(r) \/ Callback(r)
        \/ \E s \in Requests : SessionExpires(s)

Spec == Init /\ [][Next]_vars

\* node runs the callback of every call, and every call is answered.
FairSpec == Spec /\ \A r \in Requests : WF_vars(Callback(r))

-----------------------------------------------------------------------------
(* Safety. *)

\* A grant names a user who logged in to its very transaction, whatever the
\* forms carry and however the copies of the session overwrite each other
\* (id-extractor.js:37-48, decision.js:83).
OwnersLoggedIn ==
  \A r \in Requests : grant[r] # None =>
    <<grant[r].tid, grant[r].user>> \in authenticated

\* A grant decided in a consent form is for the user and the client the form
\* showed and for scopes it showed, although another user may have logged in
\* to the transaction since (the double check of decision.js:82-90).
GrantedAsShown ==
  \A r \in Requests :
    grant[r] # None /\ input[r].kind = "AZ consent" =>
      LET shown == page[input[r].page] IN
        /\ grant[r].tid = shown.tid
        /\ grant[r].user = shown.user
        /\ grant[r].scopes \subseteq shown.scopes

\* Repeating a request resumes its transaction: no session, and no copy of
\* one, has two transactions for one request (authorization.js:191-192).
OneTransactionPerRequest ==
  LET unique(txns) == \A t, u \in Requests :
        txns[t] # None /\ txns[u] # None /\ txns[t].req = txns[u].req => t = u
  IN /\ \A s \in Requests : store[s] # None => unique(store[s])
     /\ \A r \in Requests : unique(own[r].txns)

AtRest == \A r \in Requests : pc[r] \notin Waiting

Decided(t) == \E r \in Requests : /\ input[r] # None
                                  /\ input[r].kind \in {"AZ consent", "AZ redirect"}
                                  /\ tid[r] = t

Stored(t) == cookie # None /\ store[cookie] # None /\ store[cookie][t] # None

\* "A transaction is also stored in the session until a decision is reached"
\* (middleware/authorization.js:35-36): between requests, and before any fault,
\* the transaction of every page that was sent and not yet answered with a
\* decision is in the session of the user agent.
StoredUntilDecided ==
  AtRest /\ faults = 0 =>
    \A p \in Requests : page[p] # None /\ ~Decided(page[p].tid) => Stored(page[p].tid)

\* So it is as long as the user agent sends its requests one at a time; the
\* user a consent form shows is then logged in to the transaction.
SequentialDialogKept ==
  AtRest /\ faults = 0 /\ ~overlapped =>
    \A p \in Requests : page[p] # None =>
      /\ Stored(page[p].tid)
      /\ page[p].kind = "consent" => store[cookie][page[p].tid].user # None

-----------------------------------------------------------------------------
(* Liveness. *)

\* Every request of a dialog is answered, unless the process dies.
DialogsAnswered ==
  \A r \in Requests : pc[r] \in Waiting ~> pc[r] \in {"done", "lost"}
=============================================================================
