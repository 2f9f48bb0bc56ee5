--------------------------- MODULE SecurityCheck ---------------------------
(***************************************************************************)
(* The security-check middleware for one request.  The candidate APIs are  *)
(* evaluated one after the other.  The requirements of a candidate and the *)
(* schemes of a requirement are started together by two nested async       *)
(* forEach loops: a scheme may call back while the loops still run or long *)
(* afterwards, when its candidate, even the request, may be decided.       *)
(*                                                                         *)
(* A turn of the event loop that runs the loops is split into steps; as    *)
(* long as one runs (loop.req # 0) no callback of another turn happens.    *)
(* forEach counts the iterations that have not called back: they are       *)
(* modelled by the set of their indices.                                   *)
(***************************************************************************)
EXTENDS BasicAuth, ResourceServer, Sequences

CONSTANTS
  CandidateLists,  \* the lists of candidates of the run (the API matcher's)
  Keys,            \* the API keys a request may present
  Plans            \* plans

VARIABLES
  apis,          \* req.ctx._apis: the candidates
  keys,          \* client ids and secrets in the headers and the query
  planId,        \* the X-IBM-Plan-Id header
  begun,         \* the candidate whose evaluation began last
  loop,          \* the requirement and scheme its two loops have reached
  evals,         \* each candidate: unfinished iterations, and its verdict
  broken,        \* history: where an exception broke the loops of a candidate off
  outcome,       \* history: what each evaluation has answered
  clientSecret,  \* each candidate: the secret seen last
  matches,       \* the candidates that passed
  status,        \* error.status.code
  crashed,       \* an exception outside of any promise ended the process
  answer         \* how the middleware ended

checkVars == <<apis, keys, planId, begun, loop, evals, broken, outcome,
               clientSecret, matches, status, crashed, answer>>

vars == <<checkVars, basicVars, oauthVars>>

inputs == <<apis, keys, planId, authorization, bearer>>

Api == [app: Apps \cup {None}, plan: Plans, active: BOOLEAN, suspended: BOOLEAN,
        preflight: BOOLEAN, reqs: Seq(Seq(SchemeDefs))]

\* The subscriptions of a plan bring the application's secret, as it is
\* presented ("plain") or as it is stored ("hash").
Secrets == {"plain", "hash"} \X Apps

ASSUME CandidatesAssumption ==
  /\ CandidateLists \subseteq Seq(Api)
  /\ \A l \in CandidateLists :
       /\ Len(l) <= MaxCandidates
       /\ \A c \in DOMAIN l :
            /\ Len(l[c].reqs) <= MaxRequirements
            /\ \A r \in DOMAIN l[c].reqs : Len(l[c].reqs[r]) <= MaxSchemes

ASSUME KeysAssumption ==
  Keys \subseteq [{"header", "query"} \X {"id", "secret"} -> Apps \cup {None}]

Schemes == 1..MaxSchemes

\* error.status.code
Statuses == {400, 401, 403, 500, 503}

Evals == [inner: [Requirements -> [left: SUBSET Schemes, settled: BOOLEAN]],
          left: SUBSET Requirements,
          verdict: {"open", "passed", "refused", "error", "thrown"}]

\* A place of the two loops: a requirement and one of its schemes.
Places == [req: 0..(MaxRequirements + 1), sch: 0..(MaxSchemes + 1)]

Idle == [req |-> 0, sch |-> 0]

TypeOK ==
  /\ BasicTypeOK /\ OauthTypeOK
  /\ apis \in CandidateLists /\ keys \in Keys /\ planId \in Plans \cup {None}
  /\ begun \in 0..Len(apis)
  /\ loop \in Places
  /\ evals \in [Candidates -> Evals]
  /\ broken \in [Candidates -> Places]
  /\ outcome \in [Evaluations -> {"none", "pending", "pass", "fail", "missing"}]
  /\ clientSecret \in [Candidates -> Secrets \cup {None}]
  /\ matches \in Seq([api: Candidates, secret: Secrets \cup {None}])
  /\ status \in Statuses \cup {None}
  /\ crashed \in BOOLEAN
  /\ answer \in {None} \cup [next: Candidates] \cup [error: Statuses]

Init ==
  /\ BasicInit /\ OauthInit
  /\ apis \in CandidateLists /\ keys \in Keys /\ planId \in Plans \cup {None}
  /\ begun = 0 /\ loop = Idle
  /\ evals = [c \in Candidates |->
                [inner |-> [r \in Requirements |-> [left |-> {}, settled |-> FALSE]],
                 left |-> {}, verdict |-> "open"]]
  /\ broken = [c \in Candidates |-> Idle]
  /\ outcome = [e \in Evaluations |-> "none"]
  /\ clientSecret = [c \in Candidates |-> None]
  /\ matches = <<>> /\ status = None /\ crashed = FALSE /\ answer = None

-----------------------------------------------------------------------------
(* Seeded faults, none of them part of Spec. *)

\* An absent secret that is handed on.
FaultySecretOf(e) ==
  IF apis[e[1]].reqs[e[2]][e[3]].name # "secret" THEN None ELSE <<"plain", apis[e[1]].app>>

\* A candidate that is handed the secret the request presents.
FaultyConclude(c, ev) ==
  /\ evals' = [evals EXCEPT ![c] = ev]
  /\ matches' = IF evals[c].verdict = "open" /\ ev.verdict = "passed"
                THEN LET key == keys[<<"header", "secret">>]
                     IN Append(matches, [api |-> c, secret |->
                                IF key = None THEN None ELSE <<"plain", key>>])
                ELSE matches

-----------------------------------------------------------------------------
(* The callbacks of the two loops (security.js:110-180, async 1.5.2). *)

\* Iteration r of the outer loop calls back: a requirement that passed or an
\* undefined scheme ends the evaluation at once, one that failed only when
\* exhausted, with nothing left.
OuterDone(ev, r, result, exhausted) ==
  LET left == ev.left \ {r}
      ends == ev.verdict = "open" /\ (result # "fail" \/ (exhausted /\ left = {}))
  IN [ev EXCEPT !.left = left,
                !.verdict = IF ~ends THEN @ ELSE CASE result = "pass" -> "passed"
                                                   [] result = "fail" -> "refused"
                                                   [] result = "missing" -> "error"]

\* The inner loop of r calls back, the first time only.
Settle(ev, r, result, exhausted) ==
  IF ev.inner[r].settled THEN ev
  ELSE OuterDone([ev EXCEPT !.inner[r].settled = TRUE], r, result, exhausted)

\* Seeded fault, no part of Spec: a requirement taken for complete while its
\* loop is still running.
FaultyInnerDone(ev, r, s, result, exhausted) ==
  LET left == ev.inner[r].left \ {s}
      ev1  == [ev EXCEPT !.inner[r].left = left]
  IN IF result # "pass" \/ left = {} THEN Settle(ev1, r, result, exhausted) ELSE ev1

\* Iteration s of the inner loop calls back.
InnerDone(ev, r, s, result, exhausted) ==
  LET left == ev.inner[r].left \ {s}
      ev1  == [ev EXCEPT !.inner[r].left = left]
  IN IF result # "pass" \/ (exhausted /\ left = {})
     THEN Settle(ev1, r, result, exhausted) ELSE ev1

\* The callback of evalSecurity, when ev brings a verdict.
Conclude(c, ev) ==
  /\ evals' = [evals EXCEPT ![c] = ev]
  /\ matches' = IF evals[c].verdict = "open" /\ ev.verdict = "passed"
                THEN Append(matches, [api |-> c, secret |-> clientSecret'[c]])
                ELSE matches

\* An evaluation of a scheme answers.
Report(e, ev, result, exhausted) ==
  /\ outcome' = [outcome EXCEPT ![e] = result]
  /\ Conclude(e[1], InnerDone(ev, e[2], e[3], result, exhausted))

-----------------------------------------------------------------------------
(* The turn that evaluates the requirements of the current candidate. *)

Def(e) == apis[e[1]].reqs[e[2]][e[3]]

\* The resource server takes the scopes of the requirement's first scheme
\* (resource-server/index.js:125).
RequiredScopes(e) ==
  LET first == apis[e[1]].reqs[e[2]][1]
  IN IF first.type = "oauth2" THEN first.scopes ELSE {}

Running == ~crashed /\ loop.req # 0

Ready == ~crashed /\ loop = Idle

\* The promise of the candidate before is resolved by its verdict.  One that
\* was rejected ends the chain of promises, which no catch follows (index.js:84).
PreviousDecided == begun > 0 => evals[begun].verdict \notin {"open", "thrown"}

BeginCandidate ==
  /\ Ready /\ PreviousDecided /\ begun < Len(apis)
  /\ begun' = begun + 1
  /\ UNCHANGED clientSecret
  /\ IF apis[begun'].preflight \/ apis[begun'].reqs = <<>>
     THEN /\ Conclude(begun', [evals[begun'] EXCEPT !.verdict = "passed"])
          /\ UNCHANGED loop
     ELSE loop' = [req |-> 1, sch |-> 0] /\ UNCHANGED <<evals, matches>>
  /\ UNCHANGED <<inputs, login, client, bound, listed, lookup, oauth, broken,
                 outcome, status, crashed, answer>>

BeginRequirement ==
  /\ Running /\ loop.req <= Len(apis[begun].reqs) /\ loop.sch = 0
  /\ loop' = [loop EXCEPT !.sch = 1]
  /\ evals' = [evals EXCEPT ![begun].left = @ \cup {loop.req}]
  /\ clientSecret' = [clientSecret EXCEPT ![begun] = None]
  /\ UNCHANGED <<inputs, basicVars, oauthVars, begun, broken, outcome, matches, status,
                 crashed, answer>>

\* The loops are at a scheme of this type.
Stands(e, type) ==
  /\ Running /\ e \in Evaluations
  /\ e = <<begun, loop.req, loop.sch>>
  /\ loop.req <= Len(apis[begun].reqs) /\ loop.sch <= Len(apis[begun].reqs[loop.req])
  /\ Def(e).type = type

\* They leave it.
AtScheme(e, type) ==
  /\ Stands(e, type)
  /\ loop' = [loop EXCEPT !.sch = @ + 1]
  /\ UNCHANGED <<inputs, begun, broken, crashed, answer>>

\* The iteration of e is among those that have not called back.
Started(e) == [evals[e[1]] EXCEPT !.inner[e[2]].left = @ \cup {e[3]}]

\* e waits for a call.
Wait(e) ==
  /\ outcome' = [outcome EXCEPT ![e] = "pending"]
  /\ evals' = [evals EXCEPT ![e[1]] = Started(e)]
  /\ UNCHANGED matches

BeginMissing(e) ==
  /\ AtScheme(e, "missing")
  /\ Report(e, Started(e), "missing", FALSE)
  /\ UNCHANGED <<basicVars, oauthVars, clientSecret, status>>

\* evalApikey: the key presented, against the one of the subscription.  Both may
\* be absent, except for a marked secret in the query.
ApiKeyPasses(e) ==
  LET key == keys[<<Def(e).in, Def(e).name>>]
  IN /\ key = apis[e[1]].app
     /\ (Def(e).in = "query" /\ Def(e).name = "secret" /\ Def(e).marked) => key # None

\* The secret to return with it, if any: for the fixed query parameter, the
\* hash of the subscription.
SecretOf(e) ==
  IF Def(e).name # "secret" \/ apis[e[1]].app = None THEN None
  ELSE <<IF Def(e).in = "query" /\ ~Def(e).marked THEN "hash" ELSE "plain", apis[e[1]].app>>

BeginApiKey(e) ==
  /\ AtScheme(e, "apiKey")
  /\ clientSecret' = [clientSecret EXCEPT ![begun] =
       IF ApiKeyPasses(e) /\ SecretOf(e) # None THEN SecretOf(e) ELSE @]
  /\ Report(e, Started(e), IF ApiKeyPasses(e) THEN "pass" ELSE "fail", FALSE)
  /\ UNCHANGED <<basicVars, oauthVars, status>>

\* evalBasic: only 401 goes to the context.
BasicStatus(error) == IF error = 401 THEN 401 ELSE status

BeginBasic(e) ==
  /\ AtScheme(e, "basic")
  /\ BeginLogin(e, Def(e))
  /\ IF login'[e].step = "done"
     THEN /\ Report(e, Started(e), "fail", FALSE)
          /\ status' = BasicStatus(login'[e].error)
     ELSE Wait(e) /\ UNCHANGED status
  /\ UNCHANGED <<oauthVars, clientSecret>>

BeginOauth2(e) ==
  /\ AtScheme(e, "oauth2") /\ ~DecodingThrows
  /\ BeginValidation(e)
  /\ IF AnsweredAtOnce
     THEN /\ Report(e, Started(e), IF oauth # {} THEN "pass" ELSE "fail", FALSE)
          /\ status' = IF oauth = {} /\ RefusedAtOnce # None THEN RefusedAtOnce ELSE status
     ELSE Wait(e) /\ UNCHANGED status
  /\ UNCHANGED <<basicVars, clientSecret>>

\* The exception leaves both loops and rejects the promise of the candidate,
\* unless it was resolved before.  From here on its loops are never exhausted,
\* and its verdict is not open: what its callbacks still count decides nothing.
OauthThrows(e) ==
  /\ Stands(e, "oauth2") /\ DecodingThrows
  /\ loop' = Idle
  /\ broken' = [broken EXCEPT ![begun] = loop]
  /\ evals' = [evals EXCEPT ![begun].verdict = IF @ = "open" THEN "thrown" ELSE @]
  /\ UNCHANGED <<inputs, basicVars, oauthVars, begun, outcome, clientSecret, matches,
                 status, crashed, answer>>

\* The inner loop ends; nothing left means that every scheme called back.
EndRequirement ==
  /\ Running /\ loop.req <= Len(apis[begun].reqs)
  /\ loop.sch = Len(apis[begun].reqs[loop.req]) + 1
  /\ loop' = [req |-> loop.req + 1, sch |-> 0]
  /\ UNCHANGED clientSecret
  /\ Conclude(begun, IF evals[begun].inner[loop.req].left = {}
                     THEN Settle(evals[begun], loop.req, "pass", FALSE)
                     ELSE evals[begun])
  /\ UNCHANGED <<inputs, basicVars, oauthVars, begun, broken, outcome, status,
                 crashed, answer>>

\* The outer loop ends.
EndRequirements ==
  /\ Running /\ loop.req = Len(apis[begun].reqs) + 1
  /\ loop' = Idle
  /\ UNCHANGED clientSecret
  /\ Conclude(begun, IF evals[begun].left = {} /\ evals[begun].verdict = "open"
                     THEN [evals[begun] EXCEPT !.verdict = "refused"]
                     ELSE evals[begun])
  /\ UNCHANGED <<inputs, basicVars, oauthVars, begun, broken, outcome, status,
                 crashed, answer>>

-----------------------------------------------------------------------------
(* Answers of the authentication server, the directory and the stores. *)

BasicAnswered(e) ==
  /\ Ready /\ outcome[e] = "pending" /\ Def(e).type = "basic"
  /\ LoginStep(e, Def(e))
  /\ UNCHANGED clientSecret
  /\ IF login'[e].step = "done"
     THEN /\ Report(e, evals[e[1]], IF login'[e].error = None THEN "pass" ELSE "fail", TRUE)
          /\ status' = BasicStatus(login'[e].error)
     ELSE UNCHANGED <<outcome, evals, matches, status>>
  /\ UNCHANGED <<inputs, listed, lookup, oauth, begun, loop, broken, crashed, answer>>

OauthAnswered(e) ==
  /\ Ready /\ outcome[e] = "pending" /\ Def(e).type = "oauth2"
  /\ UNCHANGED clientSecret
  /\ \/ /\ TokenFound(e, RequiredScopes(e))
        /\ Report(e, evals[e[1]], IF Validated(RequiredScopes(e)) THEN "pass" ELSE "fail", TRUE)
        /\ status' = IF Validated(RequiredScopes(e)) THEN status
                                                     ELSE RefusedRecord(RequiredScopes(e))
     \/ /\ LookupFailed(e)
        /\ Report(e, evals[e[1]], "fail", TRUE)
        /\ status' = 500
  /\ UNCHANGED <<inputs, login, client, bound, begun, loop, broken, crashed, answer>>

\* The LDAP client throws the error of a connection (basic-ldap.js:328-331).
ConnectionError ==
  /\ ~crashed /\ \E e \in Evaluations : client[e] = "open"
  /\ crashed' = TRUE
  /\ UNCHANGED <<basicVars, oauthVars, apis, keys, planId, begun, loop, evals, broken,
                 outcome, clientSecret, matches, status, answer>>

TokenUnlisted ==
  /\ ~crashed /\ \E e \in Evaluations : lookup[e] = "pending"
  /\ Unlist
  /\ UNCHANGED <<basicVars, checkVars>>

-----------------------------------------------------------------------------
(* The final candidate (index.js:84-133). *)

OfPlan == {i \in DOMAIN matches : apis[matches[i].api].plan = planId}

\* The index of the champion in matches.
Champion ==
  IF Len(matches) > 1 /\ OfPlan # {}
  THEN CHOOSE i \in OfPlan : \A j \in OfPlan : i <= j
  ELSE 1

\* noSecurityReqs of a match.
NothingRequired(api) == api.preflight \/ api.reqs = <<>>

Choose ==
  /\ Ready /\ answer = None
  /\ begun = Len(apis) /\ PreviousDecided
  /\ LET champion == apis[matches[Champion].api] IN
       CASE matches = <<>> ->
              status' = (IF status = None THEN 401 ELSE status) /\ answer' = [error |-> status']
         [] matches # <<>> /\ ~NothingRequired(champion) /\ ~champion.active ->
              status' = 401 /\ answer' = [error |-> 401]
         [] matches # <<>> /\ (NothingRequired(champion) \/ champion.active)
              /\ champion.suspended ->
              status' = 503 /\ answer' = [error |-> 503]
         [] OTHER ->
              answer' = [next |-> matches[Champion].api] /\ UNCHANGED status
  /\ UNCHANGED <<inputs, basicVars, oauthVars, begun, loop, evals, broken,
                 outcome, clientSecret, matches, crashed>>

LoopStep ==
  \/ BeginCandidate \/ BeginRequirement
  \/ \E e \in Evaluations : \/ BeginMissing(e) \/ BeginApiKey(e)
                            \/ BeginBasic(e) \/ BeginOauth2(e) \/ OauthThrows(e)
  \/ EndRequirement \/ EndRequirements

Next ==
  \/ LoopStep \/ Choose \/ TokenUnlisted \/ ConnectionError
  \/ \E e \in Evaluations : BasicAnswered(e) \/ OauthAnswered(e)

Spec == Init /\ [][Next]_vars

\* A turn of the event loop runs to its end.  HTTP and LDAP requests time out
\* after five minutes (eval-basic.js:157, basic-ldap.js:46); the datastore and
\* the token table answer.
FairSpec ==
  /\ Spec
  /\ WF_vars(LoopStep) /\ WF_vars(Choose)
  /\ \A e \in Evaluations : WF_vars(BasicAnswered(e)) /\ WF_vars(OauthAnswered(e))

-----------------------------------------------------------------------------
(* However the callbacks of the nested loops interleave, and whatever comes   *)
(* after an early exit, a candidate passes only if all of the schemes of one  *)
(* of its requirements passed, is refused only if each requirement had one    *)
(* that failed, and the request goes on only with a candidate that passed     *)
(* (security.js:100-181, index.js:84-133).                                    *)
Verdict == INSTANCE SecurityVerdict WITH
             verdict <- [c \in Candidates |-> evals[c].verdict]

VerdictSpec == Verdict!Spec

\* Nobody passes a registry without having bound with the user's credentials
\* (basic-ldap.js:210-298), and no login keeps its LDAP connection.
LoginsVerified ==
  \A e \in Evaluations :
    (login[e].step # "idle" /\ Def(e).type = "basic") => LoginVerified(e, Def(e))

\* An oauth2 scheme passes on the strength of a token of the request that was
\* validated with its record for a requirement of this request, even where the
\* answer comes from the context (resource-server/index.js:119-122).
TokensVerified ==
  \A e \in Evaluations :
    (outcome[e] = "pass" /\ Def(e).type = "oauth2") =>
      \E f \in oauth : /\ outcome[f] = "pass" /\ bearer.kind = "genuine"
                       /\ RequiredScopes(f) \subseteq bearer.scopes

\* The client secret handed on with a candidate is the one of its subscription,
\* and a scheme of that candidate has verified it, although all requirements
\* under evaluation share one variable for it (security.js:108-140).
SecretsVerified ==
  \A i \in DOMAIN matches :
    LET m == matches[i] IN
      m.secret # None =>
        /\ m.secret[2] = apis[m.api].app
        /\ \E e \in Evaluations : /\ e[1] = m.api /\ outcome[e] = "pass"
                                 /\ Def(e).type = "apiKey" /\ Def(e).name = "secret"

\* Every request gets an answer of the middleware, however the callbacks of its
\* candidates interleave, except where the code gives none: the LDAP client ends
\* the process (basic-ldap.js:328), or a token whose payload is a JSON primitive
\* throws before its candidate is decided (resource-server.js:93, index.js:84).
RequestAnswered ==
  <>(\/ answer # None \/ crashed
     \/ DecodingThrows /\ \E c \in Candidates : evals[c].verdict = "thrown")
=============================================================================
