# A verification of the API Connect Micro Gateway

TLA+ modules of the gateway's core logic, TLC configurations that check them on
small instances, and TLAPS proofs of what holds for every instance. Each
definition is translated from the JavaScript of the repository; `PROJECT.json`
("map") names the lines it stands for. Paths below are relative to the root of
the repository.

    tlc -workers 2 -config MCTokenExchange_chains.cfg MCTokenExchange
    tlapm TokenExchange_proofs.tla

## 1. Inventory

The gateway is one node process. Every request runs through the middlewares of
`lib/microgw.js:34-47` in order: urlrewrite, context, analytics, api-loader,
api-matcher, security-check, cors, rate-limit, apim-context, the OAuth provider,
assembly, postflow, error-handler. Nothing is parallel but everything is
asynchronous: between a call that leaves the process and its callback any other
request may run. That, and the stores behind the calls, is where the hazards are.

| component | state | operations | interacts with | correct when |
|---|---|---|---|---|
| token exchange (`lib/oauth2/az-server/index.js`, `exchange/`, `grant/`, `middleware/authentication.js`, `lib/oauth2/models`) | tables of codes, access tokens, refresh tokens and permissions | six kinds of grant and exchange, purge, removal of a compromised credential | client registry, user registry, token store (shared by every request and provider) | a grant never widens along a chain; the renewal count holds; what a client was given is kept until used, revoked or expired; what was used goes away |
| authorization dialog (`az-server/middleware/`) | transactions in the session, one copy of it per request, session store, cookie | first request, login, return from a redirect, consent | user agent, session middleware, user registry, the grants | a grant names a user who logged in and what the form showed; a transaction lives until the decision |
| custom forms (`middleware/custom-*-form.js`) | the form, the queue of requests that wait for it | load, render | remote server | every queued request is answered |
| resource server (`lib/oauth2/resource-server`) | the verified token in the context | verify a bearer token | token store | only a valid token with the scopes passes |
| security check (`lib/security-check`) | the verdict on each candidate, the shared client secret | evaluate the requirements of each candidate in parallel | resource server, LDAP, HTTP registries | a candidate passes exactly if some requirement passes in full, and the request goes on once |
| invoke policy (`policies/invoke`) | isDone, the message | one upstream call with timeout, error and answer | upstream server, flow engine | the flow continues once, and whoever reads the message reads one answer |
| API loader (`lib/api-loader`) | an LRU of three bodies, an unbounded cache of parsed data | load the data of the current snapshot | datastore | the data belongs to the snapshot that the request holds; each is released once |
| analytics (`lib/analytics.js`) | queue, timer, handshake | push, publish | analytics server | each event is in one batch; a non-empty queue has a timer |
| rate limit (`lib/rate-limit`, `policies/rate-limiting`) | a limiter per scope, created once | count a request by each limit in turn | Redis, or the process | no scope admits more in an interval than its limit |
| API matcher (`lib/api-matcher`) | none | choose by score | | exactly the operations of the best score are candidates |
| context, apim-context | fields of the request; the shared API document | copy, convert parameters | API loader, security check | what a request changes in the shared document is not seen by others |
| policy loader (`lib/policy-loader.js`) | policies and versions by name, a default for each name | find, register, load | file system, at the start of the process | assemblies find the version that was installed |
| error handler, CORS, URL rewrite, small policies | fields of the request | copy and format | | no behaviour over time |

What makes it hard: overlapping exchanges and renewals of one credential,
deletions that nobody waits for, saves in two steps, sessions that are loaded,
changed and written back whole, pages that arrive before the session is saved,
store errors and restarts between two steps; security schemes evaluated in
parallel with an early exit, events of an HTTP request that come after its
timeout, snapshots that change under the requests that hold them, caches whose
documents are written to, queues that are replayed more than once. `PROJECT.json` ("hazards") lists
each at its line, with the properties that watch it.

## 2. Modules

| module | models | state and actions against the code |
|---|---|---|
| `TokenExchange` | the token endpoint, and the grants the authorization endpoint issues once the user has approved | `db`, `expired`: the three tables; `tkn`: what `generateToken` returned and `save` wrote; `pc`: the call a request waits for; `deletions`: `destroyAll` calls under way. One action per callback, named after the exchange or the call (`FindCredential`, `ExchangeCode`, `DeleteCode`, `SaveRefreshToken`, ...) |
| `AuthorizationDialog` | the dialog of one user agent and one provider API | `own`: `req.session`; `store`, `cookie`: express-session; `tid`: the transaction a handler works on; `page`: the form sent; `grant`: what the grant callback was given. One action per request received and per callback |
| `GrantLedger` | abstract: the account of grants and of what was drawn on them | a grant is issued, drawn on, taken back; no call, table or request appears |
| `SecuritySchemes`, `BasicAuth`, `ResourceServer`, `SecurityCheck` | the security check of one request: the nested `async.forEach` loops over requirements and schemes, HTTP and LDAP logins, bearer tokens, API keys, the final candidate | `evals`: what has not called back in each loop; `loop`: where the synchronous turn is; `login`, `client`: the call of each LDAP evaluation; `lookup`, `oauth`; `matches`, `answer`; `broken`: where an exception broke a candidate's loops off. A turn of the event loop is a chain of steps that nothing interrupts (`loop`) |
| `SecurityVerdict` | abstract: which candidates pass, given what the schemes answered | no loops, no secret, no order among callbacks |
| `InvokePolicy` | the invoke policies of one assembly | `call`: the HTTP request of each invoke; `isDone`; `object`: the message and the outputs, as who wrote which part; `flow` |
| `Traffic`, `Selection`, `ApiLoader`, `ApiMatcher`, `ApimContext`, `RateLimit`, `Analytics`, `Gateway` | the middlewares around a request, in order. `Selection` is `Array.filter`, the others but the last are state and operators of one middleware each, `Gateway` is the chain | `stage`: what each request waits for; the caches `bodies` (the LRU) and `cache`/`document`/`parsed` (by snapshot); `holders`; `spliced`, `retyped`: what was written into a shared document; `limiters`, `counted`; `queue`, `timer` |
| `PolicyLoader` (with `Selection`), `CustomForms`, `Startup` | a process from its start: policies are loaded, then the first OAuth request has both forms retrieved while requests queue for them | `versions`, `policies`, `default`: the maps of the loader; `connection`: the HTTP request of each form; `pending`, `queued`: `pendingRequest` |
| `TokenExchange_proofs` | | type correctness, `GrantsNeverWiden`, `RenewalsBounded`; what stays in the store, and what leaves it |
| `GrantLedger_proofs` | | the token endpoint implements `GrantLedger` |
| `AuthorizationDialog_proofs` | | type correctness, `OwnersLoggedIn`, `GrantedAsShown`, `OneTransactionPerRequest`, `SequentialDialogKept` |
| `SecurityCheck_proofs` | | type correctness, `LoginsVerified`, `TokensVerified`, `SecretsVerified`; the security check implements `SecurityVerdict` |
| `InvokePolicy_proofs` | | type correctness, `MessageWhole`, `LateWritesBodyOnly` |
| `Gateway_proofs` | | type correctness, `SnapshotsHeld`, `DataAsPublished`, `MatchesBest`, `LimitsKept`, `EventsAccounted` |
| `Startup_proofs` | | type correctness, `PoliciesAsInstalled`, `DialogsServed` |
| `SequenceLemmas` | | induction over numbers and lists; what folds, selections and concatenations of any list return |
| `MC...` | | constants and symmetry for TLC |

The two models meet at the grant: `grant` of `AuthorizationDialog` is the request
of kind "code" or "implicit" that `TokenExchange` starts with, and its user,
client and scopes are the root of a chain there. `Gateway` takes the verdict of
the security check as given by its environment, with the preflight candidates
always among those that pass, as `SecurityVerdict` has it; `assembly` there is
where `InvokePolicy` and the OAuth modules run.

### Abstractions

* A step is what node runs between two waits. Calls outside of the process end an
  action. The in-memory store and Redis both answer one call at a time.
* A request of `TokenExchange` draws at most one code, one access token and one
  refresh token, each under a fresh `uid(32)`, so the request's identity stands
  for them. In `AuthorizationDialog` the request that creates a transaction or a
  session lends it its number likewise.
* Expiry is an event: `expired` grows, and `isExpired`, `purge` and the
  datastore look at it. Token formats and signatures are abstracted: no request
  presents a token it was not given in an answer.
* Secrets are right, wrong or absent; the forms of client authentication are the
  ones `middleware/authentication.js` tells apart.
* Not in the dialog: `loginCount` (the forms set `retryCount` to 0, which is
  unlimited, `az-server/index.js:392,407`); the permission table, which decides
  nothing (`consentAgain` is true, and `az-server/index.js:663` reads a field that
  does not exist) — its calls and their failures are there; transactions of
  several provider APIs in one session. Custom forms behave as the default ones
  once they are loaded. Forms are posted as they were rendered: the selected
  scopes are among those shown.
* Security check: the user registry, the directory, the stores and the
  authentication server answer anything they may. Filters and attribute names
  of LDAP are left out; an error is 401 or any other.
* Invoke: the object an invoke writes to is described by who wrote its status,
  headers and body. Node's http client is modelled by the events it emits: one
  response, an end, errors before or after it. An exception that leaves `invoke`
  goes to the flow engine, which ends the flow or hands it to a catch.
* Gateway: a document is named by the request that parsed it, from a body that
  carries the snapshot it is of; both caches keep bodies, so a body kept under
  another snapshot than its own would be served. What the datastore sends is the
  APIs of the snapshot it is asked for, something else that parses, or garbage.
  Response
  headers of the limiters, the fields of an event and whether its upload
  succeeds are left out, as is the token bucket within an interval: an interval
  ends at any time.
* Startup: a policy found is one step; a module loads, throws, or has gone. A page
  is what decides its rendering: its form elements and notices.
  `retrieveForm` joins chunks with commas (`middleware/utils.js:116`): a page
  stands for the text after that.
* external: express-session (`LoadSession`, `SaveSession`), modelled from its use
  with `resave: true, saveUninitialized: true` (`az-server/index.js:176-180`).

## 3. Runs

| run | bounds | shows |
|---|---|---|
| `chains` | 4 requests of one client, 1 grant, 1 store error or restart, codes and refresh tokens expire | chains of code, token and renewals: `RenewalsBounded`, what is delivered is kept, what is used is on its way out, redeemed codes are gone; refines `GrantLedger` |
| `clients` | 3 requests, 2 clients, 3 provider APIs (public, confidential, without renewal), of which the public one knows a scope more; all kinds and forms of authentication | `GrantsNeverWiden`, where the comparison with the grant's scopes decides; a delivered credential leaves only by its own client's exchange at the API that issued it, by expiry, or because somebody, of any client, presents it without authentication |
| `live` | 3 requests, 1 failure, fair callbacks | `RevokedOnTheWayOut`; every request is answered; compromised credentials and used tokens are removed |
| `single_use` | 3 requests | *violated*: two overlapping exchanges of a code both obtain tokens |
| `application` | 3 requests | *violated*: the second renewal of a client_credentials grant needs no secret |
| `dialogs` | 4 requests, 2 users, every setting of the provider, no fault | `OwnersLoggedIn`, `GrantedAsShown` |
| `faults` | 3 requests, 2 authorization requests, 1 expiry, store error or crash, fair callbacks | `OneTransactionPerRequest`, `SequentialDialogKept`; every request is answered |
| `stored` | 3 requests | *violated*: a transaction is lost before its decision |
| `security` | 2 candidates, 2 requirements, 2 schemes; every method and group of LDAP; tokens of every kind, one whose payload is no object among them | refines `SecurityVerdict`; `LoginsVerified`, `TokensVerified`, `SecretsVerified`; the request is answered, unless such a token or an LDAP connection throws |
| `invoke` | 2 invokes with all settings, requests that are in order, not in order or without headers; other policies before, between and after, catches | `MessageWhole`, `LateWritesBodyOnly`; every invoke calls back, but for missing headers behind a TLS profile |
| `gateway` | 2 requests (a list and an empty array; a garbled array and a preflight), 2 snapshots, 2 APIs of 2 paths, an LRU of one body, bodies that arrive late, batches of 2, both deployments of cache and Redis | `SnapshotsHeld`, `MatchesBest`, `LimitsKept`, `DataAsPublished`, `EventsAccounted`; events are uploaded in the end, every request ends |
| `startup` | 4 installations of up to 7 policies, 2 requests, both forms, 4 kinds of page | `PoliciesAsInstalled`, `DialogsServed` |

Why the bounds are enough. Interference needs two requests on one credential,
and a consequence needs one more that uses the result: grant, two exchanges and
a renewal are four requests, the size of `chains`. Scopes, redirect URIs and
client kinds matter only through equality and inclusion, for which two values
suffice; `clients` gives up the fourth request for them. `dialogs` has room for
the request, a login, a second login and a decision. Failures are bounded by one:
each property that speaks of faults already fails, if it can, with the first.
In `security`, a race needs two schemes that wait in different requirements, and
a leak between candidates a second candidate; lists of candidates are chosen so
that each kind of definition meets the loops in a place where it decides. Two
invokes are one that leaves late events and one that reads what they wrote. In
`gateway` two requests share a document, a limit, a batch and the one place of the
LRU (which holds three in the code: displacement is the point, not the size).
`startup` has an installation for each rule of the search: precedence of
project over user, `override`, children of a directory, a version semver does
not know.

`CHECK_DEADLOCK FALSE`: the requests of a behaviour are finite and it stops when
all of them are answered.

Identities of requests are symmetric in `TokenExchange` (`SYMMETRY` in the runs
without liveness), and ordered by arrival in `AuthorizationDialog`.

### Fairness

`FairSpec` has weak fairness of each request's callbacks, and in `TokenExchange`
of the deletions under way: node runs the callback of every call that is
answered, and the stores and registries answer or fail. Nothing obliges a client
to send a request, a record to expire or the process to restart.
`AuthorizationDialog` treats the choice of the user registry and of the store as
the environment's: only that an answer comes is fair, not which one.

`SecurityCheck`: a turn of the event loop ends; HTTP and LDAP requests time out
after five minutes (`eval-basic.js:157`, `basic-ldap.js:46`), and the stores
answer. `InvokePolicy`: an invoke times out (`policies/invoke/index.js:83-92`).
`Gateway`: whatever a request waits for is answered, if only by a failure, and the
server closes idle connections; publishing and the handshake need not happen.
`Startup` has no fairness and no liveness: `retrieveForm` sets no timeout, so
a remote server that stays silent keeps the requests of its queue waiting until
their clients leave.

### Divergences between comments and code

* `single_use`: "The code is a single-use token" (`grant/code.js:37`). The
  exchange looks the code up, deletes it, and ignores how many records were
  deleted (`az-server/index.js:282-323`).
* `application`: clients "must authenticate for the grant type 'application'"
  (`az-server/index.js:526-527`). The check reads the grant of the record, and a
  renewal has overwritten it with `refreshToken` (569-570).
* `stored`: "a transaction is also stored in the session until a decision is
  reached" (`middleware/authorization.js:35-37`). It is stored when the response
  ends, after the page was written (`lib/postflow/index.js:72-76`), and a copy
  of the session held by an overlapping request overwrites it. As long as the
  user agent waits for each response to end it does hold: `SequentialDialogKept`.

Met while modelling, and built into the models as the code has it:

* The comment at `lib/api-loader/index.js:142` has the body cached once it is known
  to be good; it is cached before it is parsed. A body that does not parse throws
  outside of the promise and ends the process, for which `RequestsEnd` allows; one that
  parses to something else is served from the cache until displaced: it has no
  candidates, and its requests are a 404 (`Match`).
* A response whose connection closes before it finishes never releases its
  snapshot: the holder in `SnapshotsHeld` is there for the life of the process.
* With `DATASTORE_USE_LOCAL_CACHE`, the security check and apim-context write
  into the shared document; `DataAsPublished` therefore holds without the cache
  only.
* A `+` parameter that is not text leaves a request without an answer
  (`lib/apim-context/index.js:219`); the server's timeout closes it.
* The parser of an array calls back with an error or a list of lines. An error
  leaves the parameter undefined; a list without a line throws at `output[0].map`,
  in a callback, and ends the process (`lib/apim-context/index.js:341-346`).
* Nobody listens to the error of a limiter's connection to Redis
  (`policies/rate-limiting/redis.js:15`): it ends the process (`RedisLost`).
* A timeout that a catch of the assembly handles lets the flow go on; when the
  answer had begun, the end of the aborted response still writes the body
  (`policies/invoke/index.js:291-314,351-369`), and a policy in the catch may read
  it before or after. `LateWritesBodyOnly` says that this is all: no status, no
  headers, and no body of an answer that had not begun. An invoke that goes on after
  a connection error sets the status alone.
* An invalid output is reported without a return (`policies/invoke/index.js:457`):
  the call is made all the same, and its answer is written to the message.
* An input object without headers throws a TypeError (`policies/invoke/index.js:123,154`).
  Behind a TLS profile it throws in a promise that nobody catches (474-495), and the
  flow never continues: the exception that `InvokesCallBack` makes.
* A bearer token whose payload is JSON without being an object throws in the
  executor of a promise without a catch (`lib/oauth2/resource-server/resource-server.js:93`,
  `lib/security-check/index.js:43,84`): the request is never answered, the exception
  that `RequestAnswered` makes.
* A credential presented without authentication is removed whoever presents it:
  `removeCredential` is not given the client (`middleware/authentication.js:23-48`).
  `DeliveredCredentialsKept` names it among the three ways a credential goes.
* A version of a policy that fails to load keeps lower versions from being the
  default, and a name may have no default at all (`lib/policy-loader.js:131`).
  A policy without a `policy-config.json` is configured by an empty object, never
  by the global settings the comment at 147 speaks of: `localCfg` is always an
  object.
* A custom login page without a place for one of its notices loses its head
  (`custom-login-form.js:120,160-170`): `whole` of `LoginPage`.
* An error after a response of another status than 200 calls the form's callback
  a second time, whose queue has gone; the exception ends the process (`thrown`).

## 4. Proofs

All theorems are of the `Spec` of the module they extend, for all values of the
constants under its named assumptions, which TLC evaluates in every run: any set
of requests, users, clients, APIs, scopes, candidates, schemes, policies and
snapshots, any number of failures and expiries. The assumptions are

* `BoundsAssumption`, `ConfigAssumption`, `NoneAssumption` (token endpoint, dialog):
  numbers are natural, the providers' settings have their types, an absent
  value is no record, request or user;
* `CandidatesAssumption`, `KeysAssumption`, `BearersAssumption`,
  `NoErrorAssumption`, `AbsentAssumption` (security check): candidates, API keys and
  bearer tokens have their types, the absent value is no error and no application;
* `SettingsAssumption` (invoke): the number of invokes is natural, settings have their type;
* `VersionAssumption`, `InstallationsAssumption`, `PagesAssumption` (startup):
  versions are natural, installations are settings, pages have their type;
* `TrafficAssumption`, `TrafficNone`, `LimitersNone`, `BodiesAssumption`,
  `BatchAssumption`, `DeploymentsAssumption` (gateway): the published APIs have their
  types, the LRU and a batch have room for one, a path has room for a limit (the
  default one), the absent value is no request, snapshot, limiter or body.

| theorem | says |
|---|---|
| `TypeCorrect` | `Spec => []TypeOK` |
| `GrantsNeverWidenHolds` | along a chain the API, the client and the user stay and scopes never grow |
| `RenewalsBoundedHolds` | no chain is longer than `refresh-token.count`, forks included |
| `RedeemedCodesDeletedHolds` | an exchange that reached its saves finds its code deleted |
| `DeliveredCredentialsKeptHolds` | a delivered code or refresh token disappears only by an exchange of its own client at the API that issued it, by expiry, or because somebody presented it without authentication |
| `DeliveredAccessTokensKeptHolds` | a delivered access token disappears only by renewal or expiry |
| `UsedTokensOnTheWayOutHolds` | used tokens are gone or being deleted, as long as no store call failed |
| `RevokedOnTheWayOutHolds` | so are the codes and refresh tokens that a client presented without authenticating |
| `DialogTypeCorrect` | `Spec => []TypeOK` of the dialog |
| `OwnersLoggedInHolds` | the user of a grant logged in to its very transaction |
| `GrantedAsShownHolds` | a decision grants what its form showed: that transaction, that user, no other scope |
| `OneTransactionPerRequestHolds` | no session and no copy of one has two transactions for a request |
| `SequentialDialogKeptHolds` | without overlapping requests and faults, the transaction of every page sent is in the session |
| `LedgerRefined` | the token endpoint implements `GrantLedger` |
| `SecurityTypeCorrect` | `Spec => []TypeOK` of the security check |
| `LoginsVerifiedHolds` | no login passes without the user's own credentials having been accepted, and none keeps its LDAP connection |
| `TokensVerifiedHolds` | an oauth2 scheme that passes rests on a genuine token that covers a requirement of the request |
| `SecretsVerifiedHolds` | the client secret that goes on was verified, by a scheme of that candidate |
| `VerdictRefined` | the nested loops with their callbacks implement `SecurityVerdict` |
| `InvokeTypeCorrect` | `Spec => []TypeOK` of the invoke policies |
| `MessageWholeHolds` | whatever policy reads the message, in a catch too, reads one answer, provided that no earlier invoke lost its connection in the middle of an answer, went on without one or had an invalid output |
| `LateWritesBodyOnlyHolds` | once an invoke has called back, its request writes no status and no headers, and the body only if its answer had begun |
| `SnapshotsHeldHolds` | a snapshot is held by exactly the requests that were given it and have not finished |
| `MatchesAreBest` | for any documents, the fold of the matcher returns the operations of the best score, in order |
| `MatchesBestHolds` | the candidates of a request, from a document that any request parsed from a body asked for at any time, are the best matches in the snapshot it was given |
| `LimitsKeptHolds` | a limiter that rejects lets no more requests go on in an interval than it has tokens |
| `EventsAccountedHolds` | the event of a finished request is queued or uploaded, never both or twice; a queue that holds any has its timer |
| `GatewayTypeCorrect` | `Spec => []TypeOK` of the gateway: the LRU and the queue keep their sizes |
| `DataAsPublishedHolds` | without the shared cache, plan and parameters are those the snapshot publishes |
| `StartupTypeCorrect` | `Spec => []TypeOK` of a process from its start |
| `PoliciesAsInstalledHolds` | an assembly finds the policy that precedence and versions call for |
| `DialogsServedHolds` | who waits for a form is in its queue; who is served gets what the retrieval calls for |

None of these properties is inductive. A record is drawn before it is saved and a request
reads a record callbacks after it looked it up, so `IInv` (`TokenExchange_proofs`)
adds that a request past its arrival is recorded, that nothing is drawn before
its step, that only drawn records are in the tables, and a lineage for each.
Retention is an argument about deletions: any of them may be executed at any
time, so `RInv` says that *each deletion under way is
justified*: by expiry, by an exchange that used the record or by a
revocation, and that it only matches records of that justification. With
`SavedKept` — what was saved is in its table unless justified — the promises to
clients follow. `UInv` adds the presented token of each renewal for
`UsedTokensOnTheWayOut`: a purge or deletion cannot be overtaken by the save of
the record it is to delete, since that save happened before the record could be
presented. A revocation deletes from one table only, the one of the request's kind;
`VInv` therefore adds that codes and refresh tokens are never the same request's
(`CodesApart`), for `RevokedOnTheWayOut`.

`DInv` (`AuthorizationDialog_proofs`) carries the dialog. Copies of a session may
lose a login when one overwrites another, but *no copy, and no session of the
store, holds a login that did not happen* (`SessionsAuthentic`); that is why the
overwriting never harms a grant. A page that was sent stays what it is
(`ConsentFormsSent`), so what a decision compares is what the user saw. The rest
is that a request that waits has a transaction and the parameters its callback
reads (`RequestsFit`). `KInv` adds what keeps a transaction: it bears the number of a
request that created it and has been recorded, so the slot a new request takes
is free in every copy; and while requests do not overlap, the one copy at work,
or else the store, has the transaction of every page.

The refinement of `GrantLedger` maps the token endpoint's requests to accounts:
every step opens a grant, derives one from it, stores, delivers, revokes or
withdraws credentials, or leaves the account alone. It needs of the detailed
state (`LInv`, on top of `IInv` and `RInv`) that a presented refresh token was issued,
that a grant presents nothing, and that codes carry no renewals.

`SecurityInv` (`SecurityCheck_proofs`) is about counting: `async.forEach` goes on when
its count reaches zero, so the invariant says which callbacks are outstanding at
each loop (`SchemesCounted`, `RequirementsCounted`), that a turn works on schemes
in order (`InOrder`), and that what has been counted is what the abstract verdict
has been told (`Matched`). Refinement is one step of `SecurityVerdict` for each
answer of a scheme. Beside it, `LoginFits` says step by step what the directory
must have accepted for an LDAP evaluation to be where it is, `TokensInv` what
a verified token covers, and every secret at hand is traced to its login. Loops that
an exception broke off (`broken`) keep their counts and never reach zero.

`FlowInv` (`InvokePolicy_proofs`) says what the phase of each HTTP request means for
its callback and its answer (`CallInv`): an invoke that has ended with a valid
output is silent, or is a broken body after a connection error (`Spent`), from which
`LateWritesBodyOnly` follows. `ObjectInv`: as long as no invoke the flow has passed
disturbs, only the object of the invoke at hand may be half written. `LoaderInv` and
`FormInv` (`Startup_proofs`): what is registered is loaded or has failed and the
default is the best of what has loaded so far; a form's queue is there exactly until
its retrieval has called back. `HeldInv` (`Gateway_proofs`) adds to `SnapshotsHeld`
when a request has no snapshot yet; `DataInv` says, stage by stage, that a request
without the cache works on a document of its own that nobody has written to: entries
of other requests in `spliced` and `retyped` name other documents.

The matcher and the limiters are folds over lists, and what they compute is proved
by induction on the list. The library's induction theorems take the property as a
parameter, which the provers cannot instantiate; `SequenceLemmas` derives, from
the well-foundedness of `<` alone, induction for a *set* of numbers or lists, and a
proof first collects what has the property in a set. With it come the lemmas on
folds, on `Among` and on concatenations. `MatchNext` then keeps the best of the
operations it has seen (`MatchesAreBest`), and `Charged` keeps that a limiter that
rejects has counted whatever it let go on (`Kept`), which is the strengthening that
makes `LimitsKept` inductive: a request that an earlier limit let go on and a
later one rejects is counted all the same. `LoadedInv` says that a request past the
loader has a snapshot and a document that was parsed from a body of that snapshot,
because both caches keep bodies under the snapshot they are of (`SourcesKept`), and
that a request which has parsed nothing yet lends its document to nobody; `ChosenInv` that the
operation of a request is a candidate of its snapshot, and its next limit one of that
operation's; `LimitInv` is `Kept` of the state. They depend on each other in this
order, and `GatewayInductive` has them together. `QueueInv` is `EventsAccounted` with
the types of analytics: it is inductive because a request finishes once.

`IInv`, `RInv`, `VInv`, `DInv`, `LoadedInv`, `ChosenInv`, `LimitInv` and `QueueInv` were
checked by TLC, on the instances of section 3, before they were proved.

Model-checked only: the liveness properties `EveryRequestAnswered`,
`CompromisedCredentialsRevoked`, `UsedTokensDeleted`, `DialogsAnswered`,
`RequestAnswered`, `InvokesCallBack`, `EventsUploaded` and `RequestsEnd`: the provers
do not reason about fairness and `ENABLED`. Every invariant of every passing run,
and both refinements, are proved.

## 5. Not modelled

* Small policies (`validate`, `javascript`, `operation-switch`, `set-variable`,
  `handlebars`, `throw`, ...): sequential, without state of their own.
* Formatting and parsing: context variables that are copied, error pages,
  response headers of the limiters (`policies/rate-limiting/helper.js:33-35`),
  pug forms, URL rewriting, `_oauth2ErrorHandler`.
* The permission table. It decides nothing while `consentAgain` is true, and no
  code sets it to false; the branch behind it is dead.
* Exceptions of the handlers behind `done` in `eval-basic.js:304`: which of them
  can throw depends on the libraries they call.
* The pool of OAuth server objects: one per snapshot, never cleaned up
  (`az-server/index.js:607`), and the `refreshToken` pushed into the grants of
  the shared document (231). Both are idempotent for the decisions modelled.
* Libraries behind the gateway: flow-engine, loopback connectors, token buckets,
  ldapjs, express-session; the last two by their use only.
* The datastore, which is a package of its own and not in the repository.
