--------------------------- MODULE TokenExchange ---------------------------
(***************************************************************************)
(* The token endpoint of the OAuth 2.0 provider (lib/oauth2/az-server) over *)
(* the token store it shares with every other request (lib/oauth2/models). *)
(*                                                                         *)
(* A request is a chain of callbacks.  Each call that leaves the process   *)
(* (the client registry, the user registry, the token store) ends an       *)
(* action, and the callback that the answer runs is the next one, so the   *)
(* requests of the gateway interleave here exactly where they do in node.  *)
(* Deletions nobody waits for are kept in "deletions" until the store      *)
(* executes them.                                                          *)
(*                                                                         *)
(* A request draws at most one authorization code, one access token and    *)
(* one refresh token, each under a fresh uid(32), so the identity of the   *)
(* request stands for the three of them.  A record is created once and     *)
(* never updated: its fields are tkn[r], and db says which tables hold it. *)
(***************************************************************************)
EXTENDS Naturals, FiniteSets

CONSTANTS
  Requests,            \* the OAuth requests of a behaviour
  Clients,             \* client-id of the registered applications
  Users,               \* resource owners
  Apis,                \* OAuth provider APIs that share the token store
  Scopes,              \* every scope a request may name
  RedirectURIs,        \* redirect URIs a request may name
  OAuth2Cfg,           \* x-ibm-configuration.oauth2 of each API
  Kinds,               \* the kinds of request that arrive
  AuthForms,           \* the forms of client authentication that arrive
  Expiring,            \* bound: the tables whose records expire in the run
  MaxGrants,           \* bound: requests that present no credential
  MaxFailures,         \* bound: store errors and process restarts
  None                 \* an absent value

VARIABLES
  req,        \* the request as received
  pc,         \* the call each request waits for, or how it ended
  tkn,        \* what generateToken returned to the request, as saved
  db,         \* the records each table of the token store holds
  expired,    \* the records of each table whose expiredAt has passed
  deletions,  \* destroyAll calls issued and not yet executed
  lineage,    \* history: the grant a token descends from, and its depth
  failures    \* store errors and restarts so far

vars == <<req, pc, tkn, db, expired, deletions, lineage, failures>>

Tables == {"authorizationCodes", "accessTokens", "refreshTokens"}

AllKinds == {"code", "implicit", "authorization_code", "refresh_token",
             "client_credentials", "password"}

AllAuthForms == {"otherScheme", "multiple", "noClientId", "noSecret",
                 "wrongSecret", "rightSecret"}

Grants == {"accessCode", "implicit", "application", "password", "refreshToken"}

Final   == {"issued", "refused", "unauthenticated", "lost"}
Waiting == {"clients", "user", "find", "deleteCode", "saveCode",
            "saveRefreshToken", "saveAccessToken"}

Records == [api: Apis, appId: Clients, userId: Users \cup Clients,
            scopes: SUBSET Scopes, grant: Grants, countDown: Nat,
            redirectURI: RedirectURIs \cup {None}]

\* auth is what the Authorization header and client_* parameters amount to;
\* an unknown client-id is refused where a wrong secret is, and counts as one.
TokenRequests == [kind: AllKinds, api: Apis, client: Clients,
                  user: Users \cup {None}, auth: AllAuthForms \cup {None},
                  scope: (SUBSET Scopes) \cup {None},
                  redirectURI: RedirectURIs \cup {None},
                  cred: Requests \cup {None}]

Deletions == [table: Tables, ids: SUBSET Requests,
              client: Clients \cup {None}]

\* The refresh token exchange and its tokens exist where there is a
\* refresh-token section, whose count is at least 1 (2048 by default).
ASSUME ConfigAssumption ==
  OAuth2Cfg \in [Apis -> [clientType: {"public", "confidential"},
                         grants: SUBSET Grants, scopes: SUBSET Scopes,
                         enableRefreshToken: BOOLEAN, refreshCnt: Nat \ {0}]]

ASSUME BoundsAssumption ==
  /\ Kinds \subseteq AllKinds
  /\ AuthForms \subseteq AllAuthForms
  /\ Expiring \subseteq Tables
  /\ MaxGrants \in Nat
  /\ MaxFailures \in Nat

ASSUME NoneAssumption == None \notin Records \cup TokenRequests \cup Requests

TypeOK ==
  /\ req \in [Requests -> TokenRequests \cup {None}]
  /\ pc \in [Requests -> {"idle"} \cup Waiting \cup Final]
  /\ tkn \in [Requests -> Records \cup {None}]
  /\ db \in [Tables -> SUBSET Requests]
  /\ expired \in [Tables -> SUBSET Requests]
  /\ deletions \subseteq Deletions
  /\ lineage \in [Requests -> [root: Requests, renewals: Nat]]
  /\ failures \in 0..MaxFailures

Init ==
  /\ req = [r \in Requests |-> None]
  /\ pc = [r \in Requests |-> "idle"]
  /\ tkn = [r \in Requests |-> None]
  /\ db = [t \in Tables |-> {}]
  /\ expired = [t \in Tables |-> {}]
  /\ deletions = {}
  /\ lineage = [r \in Requests |-> [root |-> r, renewals |-> 0]]
  /\ failures = 0

-----------------------------------------------------------------------------
(* Seeded faults, none of them part of Spec: what a slip in the definition of *)
(* the same name would make of it.  Each breaks a property below.             *)

\* A where clause that forgets the id.
FaultyMatching(d) ==
  {x \in db[d.table] : d.client = None \/ tkn[x].appId = d.client}

\* A where clause that forgets expiredAt.
FaultyPurges == {[table |-> t, ids |-> db[t], client |-> None] :
                   t \in {x \in Tables : db[x] # {}}}

\* Only the first branch of removeCredential.
FaultyRemoveCredential(q) ==
  {[table |-> "refreshTokens", ids |-> {q.cred}, client |-> None] :
     x \in {y \in {q} : y.kind = "refresh_token"}}

\* No comparison of the client ids.
FaultySameClient(q, record) == TRUE

\* A grant named after its grant_type.
FaultyRenewedGrant(q) == [tkn[q.cred] EXCEPT !.grant = "refresh_token"]

\* The countDown copied with the rest of the record.
FaultyRenewedCount(q) ==
  [tkn[q.cred] EXCEPT !.scopes = IF q.scope = None THEN @ ELSE q.scope,
                      !.grant = "refreshToken"]

\* No deletion of the old access token.
FaultyCleanup(q) ==
  {[table |-> "refreshTokens", ids |-> {q.cred}, client |-> q.client]}

\* No answer when the record is not found.
FaultyCredentialRefused(r) ==
  /\ pc[r] = "find"
  /\ req[r].cred \in UNION {expired[t] \cap db[t] : t \in Tables}
  /\ pc' = [pc EXCEPT ![r] = "refused"]
  /\ UNCHANGED <<req, tkn, db, expired, deletions, lineage, failures>>

\* A where clause with another API's id.
FaultyDeleteCode(r) ==
  /\ pc[r] = "deleteCode"
  /\ pc' = [pc EXCEPT ![r] = IF tkn[r].countDown > 0 THEN "saveRefreshToken"
                                                     ELSE "saveAccessToken"]
  /\ UNCHANGED <<req, tkn, db, expired, deletions, lineage, failures>>

-----------------------------------------------------------------------------
(* What the requests carry. *)

\* The credentials clients hold: only what an answered request gave them.
HeldCodes == {x \in Requests : pc[x] = "issued" /\ req[x].kind = "code"}
HeldRefreshTokens ==
  {x \in Requests : pc[x] = "issued" /\ tkn[x].countDown > 0}

Credentials(kind) == CASE kind = "authorization_code" -> HeldCodes
                       [] kind = "refresh_token"      -> HeldRefreshTokens
                       [] OTHER                       -> {None}

ScopeParameters == ((SUBSET Scopes) \ {{}}) \cup {None}

Incoming(kind) ==
  [kind: {kind}, api: Apis, client: Clients,
   user: IF kind = "password" THEN Users ELSE {None},
   auth: AuthForms,
   scope: IF kind = "authorization_code" THEN {None} ELSE ScopeParameters,
   redirectURI: IF kind = "authorization_code" THEN RedirectURIs ELSE {None},
   cred: Credentials(kind)]

\* A kind that arrives, within the bound on requests that open a grant.
Arrives(kind) ==
  /\ kind \in Kinds
  /\ kind \notin {"authorization_code", "refresh_token"} =>
       Cardinality({x \in Requests : req[x] # None /\ req[x].cred = None})
         < MaxGrants

\* An approved authorization, at the point where its grant callback runs.
Approved(kind) ==
  [kind: {kind}, api: Apis, client: Clients, user: Users, auth: {None},
   scope: (SUBSET Scopes) \ {{}},
   redirectURI: IF kind = "code" THEN RedirectURIs ELSE {None},
   cred: {None}]

GrantName(kind) == CASE kind \in {"code", "authorization_code"} -> "accessCode"
                     [] kind = "client_credentials" -> "application"
                     [] kind = "refresh_token"      -> "refreshToken"
                     [] OTHER                       -> kind

SupportsGrant(q) ==
  \/ GrantName(q.kind) \in OAuth2Cfg[q.api].grants
  \/ q.kind = "refresh_token" /\ OAuth2Cfg[q.api].enableRefreshToken

\* A scope is optional only where the exchange can take it from a record.
ValidClient(q) ==
  /\ SupportsGrant(q)
  /\ IF q.scope = None THEN q.kind \in {"authorization_code", "refresh_token"}
                       ELSE q.scope \subseteq OAuth2Cfg[q.api].scopes

SecretIsRequired(q) ==
  q.kind = "client_credentials" \/ OAuth2Cfg[q.api].clientType # "public"

-----------------------------------------------------------------------------
(* Calls of the token store. *)

\* What destroyAll removes: an undefined appId is dropped from its where
\* clause.  The access token whose refreshToken field is x is the one of the
\* request x, so both deletions of a renewal name x.
Matching(d) == {x \in db[d.table] \cap d.ids :
                  d.client = None \/ tkn[x].appId = d.client}

Deletion(table, ids, client) ==
  [table |-> table, ids |-> ids, client |-> client]

\* Every OAuth request first purges what has expired by then.
Purges == {Deletion(t, expired[t] \cap db[t], None) :
             t \in {x \in Tables : expired[x] \cap db[x] # {}}}

RemoveCredential(q) ==
  CASE q.kind = "refresh_token" -> {Deletion("refreshTokens", {q.cred}, None)}
    [] q.kind = "authorization_code" ->
         {Deletion("authorizationCodes", {q.cred}, None)}
    [] OTHER -> {}

\* The store after the write that r waits for.
Written(r) ==
  CASE pc[r] = "saveCode"   -> [db EXCEPT !["authorizationCodes"] = @ \cup {r}]
    [] pc[r] = "deleteCode" ->
         [db EXCEPT !["authorizationCodes"] = @ \ {req[r].cred}]
    [] pc[r] = "saveRefreshToken" -> [db EXCEPT !["refreshTokens"] = @ \cup {r}]
    [] pc[r] = "saveAccessToken"  -> [db EXCEPT !["accessTokens"] = @ \cup {r}]
    [] OTHER -> db

\* accessTokens.save stores the refresh token, if there is one, first.
FirstSave(record) ==
  IF record.countDown > 0 THEN "saveRefreshToken" ELSE "saveAccessToken"

\* r waits for the call named next and has done nothing else.
Goto(r, next) ==
  /\ pc' = [pc EXCEPT ![r] = next]
  /\ UNCHANGED <<req, tkn, db, expired, deletions, lineage, failures>>

\* r draws the tokens described by record, descending from the given grant.
Generate(r, record, root, renewals, next) ==
  /\ tkn' = [tkn EXCEPT ![r] = record]
  /\ lineage' = [lineage EXCEPT ![r] = [root |-> root, renewals |-> renewals]]
  /\ pc' = [pc EXCEPT ![r] = next]
  /\ UNCHANGED <<req, db, expired, failures>>

FreshRecord(q, user, grant, countDown) ==
  [api |-> q.api, appId |-> q.client, userId |-> user, scopes |-> q.scope,
   grant |-> grant, countDown |-> countDown, redirectURI |-> q.redirectURI]

InitialCount(api) == IF OAuth2Cfg[api].enableRefreshToken
                     THEN OAuth2Cfg[api].refreshCnt ELSE 0

-----------------------------------------------------------------------------
(* The authorization endpoint, once the user has approved the request. *)

Approve(r, kind, next) ==
  \E q \in Approved(kind) :
    /\ pc[r] = "idle" /\ Arrives(kind) /\ ValidClient(q)
    /\ req' = [req EXCEPT ![r] = q]
    /\ tkn' = [tkn EXCEPT ![r] = FreshRecord(q, q.user, GrantName(kind), 0)]
    /\ pc' = [pc EXCEPT ![r] = next]
    /\ deletions' = deletions \cup Purges
    /\ UNCHANGED <<db, expired, lineage, failures>>

GenerateAuthCode(r) == Approve(r, "code", "saveCode")

GenerateImplicitToken(r) == Approve(r, "implicit", "saveAccessToken")

SaveCode(r) ==
  /\ pc[r] = "saveCode"
  /\ db' = Written(r)
  /\ pc' = [pc EXCEPT ![r] = "issued"]
  /\ UNCHANGED <<req, tkn, expired, deletions, lineage, failures>>

-----------------------------------------------------------------------------
(* The token endpoint: authenticating the client. *)

Receive(r, q, next, revoked) ==
  /\ pc[r] = "idle"
  /\ req' = [req EXCEPT ![r] = q]
  /\ pc' = [pc EXCEPT ![r] = next]
  /\ deletions' = deletions \cup Purges \cup revoked
  /\ UNCHANGED <<tkn, db, expired, lineage, failures>>

\* A header that is not Basic, or no client_id, or no secret where it is
\* required: the credential presented is deleted.
LacksCredentials(q) ==
  \/ q.auth \in {"otherScheme", "noClientId"}
  \/ q.auth = "noSecret" /\ SecretIsRequired(q)

ExchangeKinds == AllKinds \ {"code", "implicit"}

RefuseMultipleSchemes(r) ==
  \E kind \in ExchangeKinds : Arrives(kind) /\ \E q \in Incoming(kind) :
    q.auth = "multiple" /\ Receive(r, q, "refused", {})

RefuseMissingCredentials(r) ==
  \E kind \in ExchangeKinds : Arrives(kind) /\ \E q \in Incoming(kind) :
    /\ LacksCredentials(q)
    /\ Receive(r, q, "unauthenticated", RemoveCredential(q))

FindClient(r) ==
  \E kind \in ExchangeKinds : Arrives(kind) /\ \E q \in Incoming(kind) :
    /\ ~LacksCredentials(q) /\ q.auth # "multiple"
    /\ Receive(r, q, "clients", {})

\* No such client, another secret, or an error of the registry.
ClientRefused(r) ==
  /\ pc[r] = "clients"
  /\ \/ req[r].auth = "wrongSecret" /\ UNCHANGED failures
     \/ failures < MaxFailures /\ failures' = failures + 1
  /\ pc' = [pc EXCEPT ![r] = "unauthenticated"]
  /\ deletions' = deletions \cup RemoveCredential(req[r])
  /\ UNCHANGED <<req, tkn, db, expired, lineage>>

ClientFound(r) == pc[r] = "clients" /\ req[r].auth # "wrongSecret"

RefuseInvalid(r) ==
  ClientFound(r) /\ ~ValidClient(req[r]) /\ Goto(r, "refused")

-----------------------------------------------------------------------------
(* The token endpoint: the four exchanges. *)

FindCredential(r) ==
  /\ ClientFound(r) /\ ValidClient(req[r])
  /\ req[r].kind \in {"authorization_code", "refresh_token"}
  /\ Goto(r, "find")

AuthenticateUser(r) ==
  /\ ClientFound(r) /\ ValidClient(req[r]) /\ req[r].kind = "password"
  /\ Goto(r, "user")

UserRefused(r) == pc[r] = "user" /\ Goto(r, "refused")

\* The resource owner of a client_credentials grant is the client itself.
ExchangeClientCredentials(r) ==
  /\ ClientFound(r) /\ ValidClient(req[r])
  /\ req[r].kind = "client_credentials"
  /\ LET q == req[r]
         record == FreshRecord(q, q.client, "application", InitialCount(q.api))
     IN  Generate(r, record, r, 0, FirstSave(record))
  /\ UNCHANGED deletions

ExchangePassword(r) ==
  /\ pc[r] = "user"
  /\ LET q == req[r]
         record == FreshRecord(q, q.user, "password", InitialCount(q.api))
     IN  Generate(r, record, r, 0, FirstSave(record))
  /\ UNCHANGED deletions

SameClient(q, record) == record.appId = q.client

\* No comparison of the scopes with those of the used token.
FaultyRefreshTokenAccepted(r) ==
  LET q == req[r]  saved == tkn[q.cred] IN
    /\ q.cred \in db["refreshTokens"] /\ saved.api = q.api
    /\ ~(/\ OAuth2Cfg[q.api].clientType = "public"
         /\ saved.grant = "application" /\ q.auth = "noSecret")
    /\ SameClient(q, saved)
    /\ q.cred \notin expired["refreshTokens"]

CodeAccepted(r) ==
  LET q == req[r]  code == tkn[q.cred] IN
    /\ q.cred \in db["authorizationCodes"] /\ code.api = q.api
    /\ SameClient(q, code)
    /\ code.redirectURI = q.redirectURI
    /\ q.cred \notin expired["authorizationCodes"]

\* An exchange takes the API and the client from the request, and the rest
\* from the record of the credential.
Redeemed(q) ==
  [tkn[q.cred] EXCEPT !.api = q.api, !.appId = q.client,
                      !.countDown = InitialCount(q.api)]

ExchangeCode(r) ==
  /\ pc[r] = "find" /\ req[r].kind = "authorization_code" /\ CodeAccepted(r)
  /\ Generate(r, Redeemed(req[r]), req[r].cred, 0, "deleteCode")
  /\ UNCHANGED deletions

\* The checks of validateToken on a token the gateway signed always succeed.
RefreshTokenAccepted(r) ==
  LET q == req[r]  saved == tkn[q.cred] IN
    /\ q.cred \in db["refreshTokens"] /\ saved.api = q.api
    /\ ~(/\ OAuth2Cfg[q.api].clientType = "public"
         /\ saved.grant = "application" /\ q.auth = "noSecret")
    /\ SameClient(q, saved)
    /\ q.cred \notin expired["refreshTokens"]
    /\ q.scope # None => q.scope \subseteq saved.scopes

Renewed(q) ==
  [tkn[q.cred] EXCEPT !.api = q.api, !.appId = q.client,
                      !.scopes = IF q.scope = None THEN @ ELSE q.scope,
                      !.grant = "refreshToken",
                      !.countDown = IF @ > 1 THEN @ - 1 ELSE 0]

Cleanup(q) == {Deletion(t, {q.cred}, q.client) :
                 t \in {"refreshTokens", "accessTokens"}}

\* The save is started, and the two deletions with it: none waits for another.
ExchangeRefreshToken(r) ==
  /\ pc[r] = "find" /\ req[r].kind = "refresh_token" /\ RefreshTokenAccepted(r)
  /\ LET used == req[r].cred  record == Renewed(req[r]) IN
       Generate(r, record, lineage[used].root, lineage[used].renewals + 1,
                FirstSave(record))
  /\ deletions' = deletions \cup Cleanup(req[r])

CredentialRefused(r) ==
  /\ pc[r] = "find"
  /\ ~(IF req[r].kind = "refresh_token" THEN RefreshTokenAccepted(r)
                                        ELSE CodeAccepted(r))
  /\ Goto(r, "refused")

DeleteCode(r) ==
  /\ pc[r] = "deleteCode"
  /\ db' = Written(r)
  /\ pc' = [pc EXCEPT ![r] = FirstSave(tkn[r])]
  /\ UNCHANGED <<req, tkn, expired, deletions, lineage, failures>>

SaveRefreshToken(r) ==
  /\ pc[r] = "saveRefreshToken"
  /\ db' = Written(r)
  /\ pc' = [pc EXCEPT ![r] = "saveAccessToken"]
  /\ UNCHANGED <<req, tkn, expired, deletions, lineage, failures>>

SaveAccessToken(r) ==
  /\ pc[r] = "saveAccessToken"
  /\ db' = Written(r)
  /\ pc' = [pc EXCEPT ![r] = "issued"]
  /\ UNCHANGED <<req, tkn, expired, deletions, lineage, failures>>

-----------------------------------------------------------------------------
(* The token store and the process. *)

Destroy(d) ==
  /\ db' = [db EXCEPT ![d.table] = @ \ Matching(d)]
  /\ deletions' = deletions \ {d}
  /\ UNCHANGED <<req, pc, tkn, expired, lineage, failures>>

DestroyFails(d) ==
  /\ failures < MaxFailures
  /\ failures' = failures + 1
  /\ deletions' = deletions \ {d}
  /\ UNCHANGED <<req, pc, tkn, db, expired, lineage>>

\* The store reports an error to r; the write may have taken effect.
StoreError(r) ==
  /\ pc[r] \in Waiting \ {"clients", "user"}
  /\ failures < MaxFailures
  /\ failures' = failures + 1
  /\ db' \in {db, Written(r)}
  /\ pc' = [pc EXCEPT ![r] = "refused"]
  /\ UNCHANGED <<req, tkn, expired, deletions, lineage>>

Expire(t, x) ==
  /\ t \in Expiring /\ x \in db[t] \ expired[t]
  /\ expired' = [expired EXCEPT ![t] = @ \cup {x}]
  /\ UNCHANGED <<req, pc, tkn, db, deletions, lineage, failures>>

\* The process dies: its requests get no answer, and a last save may have been
\* executed all the same.  The store survives, as it does when it is a Redis
\* server; with the memory connector a new process starts from Init.
Restart ==
  /\ failures < MaxFailures
  /\ failures' = failures + 1
  /\ deletions # {} \/ \E r \in Requests : pc[r] \in Waiting
  /\ \E stored \in SUBSET {r \in Requests :
                             pc[r] \in {"saveCode", "saveAccessToken"}} :
       db' = [db EXCEPT
         !["authorizationCodes"] = @ \cup {r \in stored : pc[r] = "saveCode"},
         !["accessTokens"] = @ \cup {r \in stored : pc[r] = "saveAccessToken"}]
  /\ pc' = [r \in Requests |-> IF pc[r] \in Waiting THEN "lost" ELSE pc[r]]
  /\ deletions' = {}
  /\ UNCHANGED <<req, tkn, expired, lineage>>

-----------------------------------------------------------------------------
Arrive(r) == \/ GenerateAuthCode(r) \/ GenerateImplicitToken(r)
             \/ RefuseMultipleSchemes(r) \/ RefuseMissingCredentials(r)
             \/ FindClient(r)

\* The callback of the call that r waits for.
Callback(r) ==
  \/ ClientRefused(r) \/ RefuseInvalid(r)
  \/ FindCredential(r) \/ AuthenticateUser(r) \/ UserRefused(r)
  \/ ExchangeClientCredentials(r) \/ ExchangePassword(r)
  \/ ExchangeCode(r) \/ ExchangeRefreshToken(r) \/ CredentialRefused(r)
  \/ SaveCode(r) \/ DeleteCode(r) \/ SaveRefreshToken(r) \/ SaveAccessToken(r)
  \/ StoreError(r)

Next ==
  \/ \E r \in Requests : Arrive(r) \/ Callback(r)
  \/ \E d \in deletions : Destroy(d) \/ DestroyFails(d)
  \/ \E t \in Tables, x \in Requests : Expire(t, x)
  \/ Restart

Spec == Init /\ [][Next]_vars

\* node runs the callback of every call the registries and the store answer,
\* and they answer every call, if only with an error.
Fairness ==
  /\ \A r \in Requests : WF_vars(Callback(r))
  /\ WF_vars(\E d \in deletions : Destroy(d) \/ DestroyFails(d))

FairSpec == Spec /\ Fairness

-----------------------------------------------------------------------------
(* Safety. *)

Minted(r) == tkn[r] # None

UsedBy(u, x) == req[u] # None /\ req[u].cred = x

\* Presenting x while failing to authenticate the client revokes it.
RevokedBy(u, x) == UsedBy(u, x) /\ pc[u] = "unauthenticated"

\* u passed every check of the exchange it made with x.
ExchangedBy(u, x) == UsedBy(u, x) /\ Minted(u)

\* However often a grant is exchanged and renewed, and by however many
\* concurrent requests, every token that descends from it is for the API, the
\* client and the user of the grant and for no scope outside of it (the checks
\* and copies of the exchange callbacks, az-server/index.js:277-595).
GrantsNeverWiden ==
  \A r \in Requests : Minted(r) =>
    LET grant == tkn[lineage[r].root] IN
      /\ grant # None
      /\ tkn[r].api = grant.api
      /\ tkn[r].appId = grant.appId
      /\ tkn[r].userId = grant.userId
      /\ tkn[r].scopes \subseteq grant.scopes

\* refresh-token.count bounds every chain of renewals: a refresh token that
\* can be used n more times is count - n renewals away from its grant, even
\* when two requests renew the same token at once (az-server/index.js:562-567).
RenewalsBounded ==
  \A r \in Requests : Minted(r) =>
    LET count == OAuth2Cfg[tkn[r].api].refreshCnt IN
      /\ lineage[r].renewals <= count
      /\ tkn[r].countDown > 0 =>
           tkn[r].countDown + lineage[r].renewals = count

\* The client that x was issued to exchanged it, at the API that issued it.
RedeemedBy(u, x) ==
  ExchangedBy(u, x) /\ req[u].client = tkn[x].appId /\ req[u].api = tkn[x].api

\* A credential a client was given stays in the store until it expires, that
\* client exchanges it at the API that issued it, or somebody presents it and
\* fails to authenticate: no exchange of another client, cleanup, purge, failed
\* save or restart takes it away (models/index.js:126-143, 222-239, 273-292,
\* az-server/index.js:277-313, 515-556).  The last exception is wide: whoever
\* holds a credential deletes it by presenting it without authenticating, as
\* any client (removeCredential passes no client id, authentication.js:17-49).
DeliveredCredentialsKept ==
  \A x \in Requests : pc[x] = "issued" =>
    /\ req[x].kind = "code" =>
         \/ x \in db["authorizationCodes"] \cup expired["authorizationCodes"]
         \/ \E u \in Requests : RedeemedBy(u, x) \/ RevokedBy(u, x)
    /\ tkn[x].countDown > 0 =>
         \/ x \in db["refreshTokens"] \cup expired["refreshTokens"]
         \/ \E u \in Requests : RedeemedBy(u, x) \/ RevokedBy(u, x)

\* An access token a client was given can be looked up until it expires or its
\* refresh token is used (deleteByRefreshToken, models/index.js:126-132).
DeliveredAccessTokensKept ==
  \A x \in Requests : pc[x] = "issued" /\ req[x].kind # "code" =>
    \/ x \in db["accessTokens"] \cup expired["accessTokens"]
    \/ \E u \in Requests : ExchangedBy(u, x)

\* As long as no store call failed, a used refresh token and the access token
\* issued with it are gone or about to be deleted: neither of the two unordered
\* deletions is overtaken by a save (az-server/index.js:569-593).
UsedTokensOnTheWayOut ==
  failures = 0 =>
    \A u, x \in Requests : ExchangedBy(u, x) /\ req[u].kind = "refresh_token" =>
      \A t \in {"refreshTokens", "accessTokens"} :
        x \in db[t] => \E d \in deletions : d.table = t /\ x \in Matching(d)

\* As long as no store call failed, a code or refresh token presented by a request
\* that fails to authenticate its client is gone or about to be deleted, and no
\* save brings it back (middleware/authentication.js:17-73).
RevokedOnTheWayOut ==
  failures = 0 =>
    \A u, x \in Requests : RevokedBy(u, x) =>
      \A t \in {"authorizationCodes", "refreshTokens"} :
        x \in db[t] => \E d \in deletions : d.table = t /\ x \in Matching(d)

\* A client that was given tokens for a code finds the code gone, whatever
\* failed: the code is deleted before anything is saved
\* (az-server/index.js:315-323).
RedeemedCodesDeleted ==
  \A u \in Requests :
    /\ pc[u] \in {"saveRefreshToken", "saveAccessToken", "issued"}
    /\ req[u].kind = "authorization_code"
    => req[u].cred \notin db["authorizationCodes"]

\* "The code is a single-use token" (grant/code.js:37): at most one request
\* obtains tokens for a code.
CodeSingleUse ==
  \A u, v \in Requests :
    /\ pc[u] = "issued" /\ req[u].kind = "authorization_code"
    /\ pc[v] = "issued" /\ req[v].kind = "authorization_code"
    /\ req[u].cred = req[v].cred
    => u = v

\* "No matter pulic or confidential clients, they must authenticate for the
\* grant type 'application'" (az-server/index.js:526-527): whoever renews a
\* token that descends from a client_credentials grant gave the secret.
ApplicationClientsAuthenticate ==
  \A r \in Requests :
    Minted(r) /\ tkn[lineage[r].root].grant = "application"
      => req[r].auth = "rightSecret"

-----------------------------------------------------------------------------
(* The ledger that the tables and callbacks implement.  The credential of a   *)
(* request is its code or its refresh token.                                  *)

Credential == {"authorizationCodes", "refreshTokens"}

Entry(r) ==
  [api |-> tkn[r].api, appId |-> tkn[r].appId, userId |-> tkn[r].userId,
   scopes |-> tkn[r].scopes, code |-> req[r].kind = "code", left |-> tkn[r].countDown]

GrantEntry == [r \in {x \in Requests : Minted(x)} |-> Entry(r)]

Live == UNION {db[t] : t \in Credential}

Delivered == {r \in Requests : pc[r] = "issued"}

SpentCredentials ==
  {x \in Requests : \E u \in Requests : ExchangedBy(u, x) \/ RevokedBy(u, x)}

Lapsed == UNION {expired[t] : t \in Credential}

Ledger == INSTANCE GrantLedger WITH
  Owners    <- Users \cup Clients,
  Count     <- [a \in Apis |-> InitialCount(a)],
  entry     <- GrantEntry,
  live      <- Live,
  delivered <- Delivered,
  spent     <- SpentCredentials,
  lapsed    <- Lapsed

\* Every step is one of the ledger, or none: tokens descend from delivered and
\* valid credentials only, and a delivered credential that has gone is never good
\* again (az-server/index.js:261-600, models/index.js:120-300).
LedgerKept == Ledger!Spec

-----------------------------------------------------------------------------
(* Liveness. *)

\* Every request gets an answer: no branch of the callbacks forgets to call
\* done, and none waits for the deletions it started.
EveryRequestAnswered ==
  \A r \in Requests : pc[r] \in Waiting ~> pc[r] \in Final

\* "Revoke the compromised credentials when client fails the authentication"
\* (middleware/authentication.js:17): the credential goes, without a failure
\* of the store.
CompromisedCredentialsRevoked ==
  \A r, x \in Requests :
    RevokedBy(r, x) ~> \/ x \notin db["refreshTokens"] \cup db["authorizationCodes"]
                       \/ failures > 0

\* A renewal ends with the used refresh token and its access token deleted,
\* without a failure of the store.
UsedTokensDeleted ==
  \A u, x \in Requests :
    ExchangedBy(u, x) /\ req[u].kind = "refresh_token" ~>
      \/ x \notin db["refreshTokens"] \cup db["accessTokens"]
      \/ failures > 0
=============================================================================
