------------------------------ MODULE Gateway ------------------------------
(***************************************************************************)
(* The chain of middlewares that serves the requests of the gateway, in    *)
(* the order of lib/microgw.js: context, analytics, api-loader,            *)
(* api-matcher, security-check, cors, rate-limit, apim-context, assembly,  *)
(* postflow and the error handler.  What a middleware does before it waits *)
(* for something is one step.                                              *)
(*                                                                         *)
(* The security check, the OAuth server and the policies of an assembly    *)
(* have modules of their own; here, they succeed or fail.                  *)
(***************************************************************************)
EXTENDS ApimContext, ApiMatcher, RateLimit, Analytics

\* The deployments considered.
CONSTANT Deployments

ASSUME DeploymentsAssumption == Deployments \subseteq [useCache: BOOLEAN, redis: BOOLEAN]

VARIABLES
  stage,      \* what each request waits for
  operation,  \* the final candidate of each request, and whether it is a preflight
  limit,      \* the next of the limits of each request
  crashed     \* an exception nobody caught has ended the process

vars == <<loaderVars, contextVars, limitVars, analyticsVars, input, stage, operation,
          limit, crashed>>

Stages == {"payload", "snapshot", "body", "security", "limit",
           "array", "assembly", "sending", "lost", "finished", "closed"}

TypeOK ==
  /\ LoaderTypeOK /\ ContextTypeOK /\ LimitTypeOK /\ AnalyticsTypeOK
  /\ input \in Inputs
  /\ stage \in [Requests -> Stages]
  /\ operation \in [Requests -> Operation \cup {None}]
  /\ limit \in [Requests -> 0..MaxLimits]
  /\ crashed \in BOOLEAN

Init ==
  /\ LoaderInit /\ ContextInit /\ LimitInit /\ AnalyticsInit
  /\ \E d \in Deployments : useCache = d.useCache /\ redis = d.redis
  /\ input \in Inputs
  /\ stage = [r \in Requests |-> "payload"]
  /\ operation = [r \in Requests |-> None]
  /\ limit = [r \in Requests |-> 0]
  /\ crashed = FALSE

-----------------------------------------------------------------------------
\* Request r goes on from one stage to another.
Step(r, from, to) ==
  /\ ~crashed /\ stage[r] = from
  /\ UNCHANGED <<input, crashed>>
  /\ stage' = [stage EXCEPT ![r] = to]

\* next(error): the error handler sends the response.
Fail(r, from) == Step(r, from, "sending")

\* The payload of a request is there; analytics decides, and the current snapshot is asked for.
PayloadRead(r) ==
  /\ Step(r, "payload", "snapshot") /\ Capture(r)
  /\ UNCHANGED <<loaderVars, contextVars, limitVars, operation, limit>>

\* The payload is invalid, or too large.
PayloadRefused(r) ==
  /\ Fail(r, "payload")
  /\ UNCHANGED <<loaderVars, contextVars, limitVars, analyticsVars, operation, limit>>

\* The candidates among the APIs r has loaded, if it has.
CandidateList(r) ==
  IF BodyOf(r).apis
  THEN MatchesOf[BodyOf(r).of][input[r].path][input[r].method] ELSE <<>>

Candidates(r) == ToSet(CandidateList(r))

\* The end of api-loader, and api-matcher: no APIs and no candidate are a 404.
Match(r, from) == Step(r, from, IF CandidateList(r)' = <<>> THEN "sending" ELSE "security")

SnapshotGiven(r) ==
  /\ Hold(r)
  /\ IF Cached(current)
     THEN TakeCached(r, current) /\ Match(r, "snapshot")
     ELSE Step(r, "snapshot", "body") /\ UNCHANGED <<bodies, document, parsed>>
  /\ UNCHANGED <<useCache, current, cache, contextVars, limitVars, analyticsVars, operation,
                 limit>>

SnapshotFailed(r) ==
  /\ Fail(r, "snapshot")
  /\ UNCHANGED <<loaderVars, contextVars, limitVars, analyticsVars, operation, limit>>

BodyReceived(r) ==
  /\ stage[r] = "body"
  /\ UNCHANGED <<useCache, current, holders, snapshot, contextVars, limitVars,
                 analyticsVars, operation, limit>>
  /\ \E body \in Bodies : body.of = snapshot[r] /\ TakeBody(r, body)
  /\ Match(r, "body")

BodyFailed(r) ==
  /\ Fail(r, "body")
  /\ UNCHANGED <<loaderVars, contextVars, limitVars, analyticsVars, operation, limit>>

\* JSON.parse throws in the callback of the request to the datastore.
BodyGarbled(r) ==
  /\ ~crashed /\ stage[r] = "body" /\ crashed' = TRUE
  /\ UNCHANGED <<loaderVars, contextVars, limitVars, analyticsVars, input, stage, operation,
                 limit>>

IsPreflight(r, o) == Preflight(Loaded(r), o, input[r].method)

LimitsOf(r, o) == Tasks(Loaded(r)[o.api].paths[o.path].limits)

\* The end of parseParameters: what has come of the last one.
Parameters(r, from, o, converted) ==
  /\ SetParameter(r, o, converted)
  /\ Step(r, from, IF Lost(r, o, converted) THEN "lost" ELSE "assembly")

\* apim-context, from the stage before it.  The payload, or a parameter, may not
\* be what the API consumes.
EnterContext(r, from, o) ==
  /\ api' = api \cup {r}
  /\ \/ Fail(r, from) /\ UNCHANGED parameter
     \/ /\ IsParsed(r, o)
        /\ Step(r, from, "array") /\ UNCHANGED parameter
     \/ /\ ~IsParsed(r, o)
        /\ Parameters(r, from, o, Convert(CurrentType(r, o), input[r].value))

\* Some candidates pass, and the final one is that of the request's plan, the
\* first of its API.  A preflight request ends in cors.
SecurityPassed(r) ==
  /\ stage[r] = "security"
  /\ \E passed \in SUBSET Candidates(r) : \E o \in passed :
       /\ \A p \in Candidates(r) : IsPreflight(r, p) => p \in passed
       /\ \A p \in passed : p.api = o.api => o.path <= p.path
       /\ BuildPreflowContext(r, passed, o)
       /\ operation' = [operation EXCEPT ![r] = o]
       /\ IF IsPreflight(r, o) THEN Step(r, "security", "sending") /\ UNCHANGED <<api, parameter>>
          ELSE IF LimitsOf(r, o) # <<>>
          THEN Step(r, "security", "limit") /\ UNCHANGED <<api, parameter>>
          ELSE EnterContext(r, "security", o)
  /\ limit' = [limit EXCEPT ![r] = 1]
  /\ UNCHANGED <<loaderVars, retyped, limitVars, analyticsVars>>

\* No candidate passes; or some do, and the subscription of the final one is not
\* active or its API is suspended.
SecurityRefused(r) ==
  /\ Fail(r, "security")
  /\ \E passed \in SUBSET Candidates(r) :
       spliced' = spliced \cup {<<document[r], p.api>> : p \in passed}
  /\ UNCHANGED <<loaderVars, retyped, api, plan, parameter, limitVars, analyticsVars,
                 operation, limit>>

\* Limiters in the process answer at once, one after the other.
LimitLocally(r) ==
  /\ ~redis /\ stage[r] = "limit"
  /\ LET st == Charged(r, LimitsOf(r, operation[r]))
     IN /\ Take(st)
        /\ IF st.proceeds THEN EnterContext(r, "limit", operation[r])
                          ELSE Fail(r, "limit") /\ UNCHANGED <<api, parameter>>
  /\ UNCHANGED <<loaderVars, spliced, retyped, plan, redis, analyticsVars, operation, limit>>

\* Redis answers to the limiter whose turn it is.
LimitByRedis(r) ==
  /\ redis /\ stage[r] = "limit"
  /\ LET limits == LimitsOf(r, operation[r])
         st     == Charge(r, Begun, limits[limit[r]])
     IN /\ Take(st)
        /\ IF ~st.proceeds
           THEN Fail(r, "limit") /\ UNCHANGED <<api, parameter, limit>>
           ELSE IF limit[r] < Len(limits)
           THEN /\ Step(r, "limit", "limit")
                /\ limit' = [limit EXCEPT ![r] = @ + 1]
                /\ UNCHANGED <<api, parameter>>
           ELSE EnterContext(r, "limit", operation[r]) /\ UNCHANGED limit
  /\ UNCHANGED <<loaderVars, spliced, retyped, plan, redis, analyticsVars, operation>>

\* Redis answers the limiter with an error; the limiter is kept all the same.
RedisFailed(r) ==
  /\ redis /\ Fail(r, "limit")
  /\ LET l == LimitsOf(r, operation[r])[limit[r]]
     IN limiters' = [limiters EXCEPT ![l.scope] = Limiter(Begun, l)]
  /\ UNCHANGED <<loaderVars, contextVars, redis, counted, admitted, analyticsVars, operation,
                 limit>>

\* A limiter has a connection to Redis from the moment it is created.  Nobody listens
\* to the error of the connection, which ends the process.
RedisLost ==
  /\ redis /\ ~crashed /\ crashed' = TRUE
  /\ (\E s \in Scopes : limiters[s] # None) \/ (\E r \in Requests : stage[r] = "limit")
  /\ UNCHANGED <<loaderVars, contextVars, limitVars, analyticsVars, input, stage, operation,
                 limit>>

\* The CSV parser has found items.
ArrayParsed(r) ==
  /\ stage[r] = "array" /\ input[r].value \notin {"empty", "garbled"}
  /\ Retype(r, operation[r]) /\ Parameters(r, "array", operation[r], "numbers")
  /\ UNCHANGED <<loaderVars, spliced, api, plan, limitVars, analyticsVars, operation, limit>>

\* The CSV parser reports an error, and the parameter is undefined.
ArrayRefused(r) ==
  /\ stage[r] = "array" /\ input[r].value = "garbled"
  /\ Parameters(r, "array", operation[r], "undefined")
  /\ UNCHANGED <<loaderVars, spliced, retyped, api, plan, limitVars, analyticsVars, operation,
                 limit>>

\* The CSV parser has found no line: taking the first one throws in its callback.
ArrayEmpty(r) ==
  /\ ~crashed /\ stage[r] = "array" /\ input[r].value = "empty" /\ crashed' = TRUE
  /\ UNCHANGED <<loaderVars, contextVars, limitVars, analyticsVars, input, stage, operation,
                 limit>>

\* The flow ends, or fails, and postflow or the error handler sends the response.
Assembled(r) ==
  /\ Step(r, "assembly", "sending")
  /\ UNCHANGED <<loaderVars, contextVars, limitVars, analyticsVars, operation, limit>>

\* The response has been handed over: its finish event.
Finish(r) ==
  /\ Step(r, "sending", "finished")
  /\ IF r \in captured /\ r \in api THEN Process(r) ELSE UNCHANGED analyticsVars
  /\ Release(r)
  /\ UNCHANGED <<useCache, current, snapshot, bodies, cache, document, parsed, contextVars,
                 limitVars, operation, limit>>

\* Seeded fault, no part of Spec: the server does not limit the time of a connection.
FaultyClose(r) ==
  /\ Step(r, "sending", "closed")
  /\ UNCHANGED <<loaderVars, contextVars, limitVars, analyticsVars, operation, limit>>

\* The client has left, or the server has closed an idle connection: there is no
\* finish event.
Close(r) ==
  /\ \/ Step(r, "sending", "closed")
     \/ Step(r, "lost", "closed")
  /\ UNCHANGED <<loaderVars, contextVars, limitVars, analyticsVars, operation, limit>>

Upload ==
  /\ ~crashed /\ PushTimer
  /\ UNCHANGED <<loaderVars, contextVars, limitVars, input, stage, operation, limit, crashed>>

ShakeHands ==
  /\ ~crashed /\ Handshake
  /\ UNCHANGED <<loaderVars, contextVars, limitVars, input, stage, operation, limit, crashed>>

\* A new snapshot is published.
Publish ==
  /\ ~crashed /\ current + 1 \in Snapshots /\ current' = current + 1
  /\ UNCHANGED <<useCache, holders, snapshot, bodies, cache, document, parsed, contextVars,
                 limitVars, analyticsVars, input, stage, operation, limit, crashed>>

EndInterval ==
  /\ ~crashed /\ \E s \in Scopes : NewInterval(s)
  /\ UNCHANGED <<loaderVars, contextVars, analyticsVars, input, stage, operation, limit, crashed>>

\* What the middlewares and those they ask do for a request on its way.
Serve(r) ==
  \/ PayloadRefused(r) \/ PayloadRead(r) \/ SnapshotFailed(r) \/ SnapshotGiven(r)
  \/ BodyGarbled(r) \/ BodyFailed(r) \/ BodyReceived(r)
  \/ SecurityRefused(r) \/ SecurityPassed(r)
  \/ RedisFailed(r) \/ LimitByRedis(r) \/ LimitLocally(r)
  \/ ArrayParsed(r) \/ ArrayRefused(r) \/ ArrayEmpty(r) \/ Assembled(r) \/ Close(r) \/ Finish(r)

Next ==
  \/ \E r \in Requests : Serve(r)
  \/ RedisLost \/ Upload \/ ShakeHands \/ Publish \/ EndInterval

Spec == Init /\ [][Next]_vars

\* Whatever a request waits for is answered, if only by a failure, and timers run
\* out.  Snapshots need not be published, nor analytics be set up.
FairSpec == Spec /\ (\A r \in Requests : WF_vars(Serve(r))) /\ WF_vars(Upload)

-----------------------------------------------------------------------------
(* What the gateway is for. *)

\* A request that has been given a snapshot and is not answered holds it, and
\* only such a request, or one whose client has left, holds one.
SnapshotsHeld ==
  \A s \in Snapshots :
    holders[s] = {r \in Requests : snapshot[r] = s /\ stage[r] # "finished"}

\* The candidates of a request, taken from a document that it or another request has
\* parsed from a body that may have been asked for long ago, are the operations of
\* the very snapshot it was given that serve it with the best score, whatever has
\* been published, cached and displaced meanwhile (lib/api-loader/index.js:94-160,
\* lib/api-matcher/index.js:53-107).
MatchesBest ==
  \A r \in Requests : stage[r] = "security" =>
    CandidateList(r) = BestMatches(OptimizedData[snapshot[r]], input[r].path, input[r].method)

\* A limiter that rejects lets no more requests go on in an interval than it has
\* tokens, whichever requests share its scope and whatever they meet before it.
LimitsKept ==
  \A s \in Scopes :
    (limiters[s] # None /\ limiters[s].reject) =>
      Cardinality(admitted[s]) <= limiters[s].tokens

\* The event of a request that finishes behind an API, while its finish event is
\* listened to, is either queued or uploaded once; no other event is, and a queue that
\* is not empty has its timer (lib/analytics.js:163-216).
EventsAccounted ==
  /\ queue # <<>> => timer
  /\ \A r \in Requests :
       IF stage[r] = "finished" /\ r \in captured \cap api
       THEN r \in ToSet(queue) <=> uploads[r] = 0
       ELSE r \notin ToSet(queue) /\ uploads[r] = 0

\* Without DATASTORE_USE_LOCAL_CACHE, what earlier requests have done to their
\* documents is not seen: plan and parameters are as published.
DataAsPublished ==
  ~useCache =>
    \A r \in Requests :
      /\ plan[r] # None => plan[r] = OptimizedData[snapshot[r]][operation[r].api].unnamed
      /\ parameter[r] \notin {None, "segments"} =>
           parameter[r] = Convert(PublishedType(r, operation[r]), input[r].value)

\* An event that is queued is uploaded, once, in the end.
EventsUploaded ==
  \A r \in Requests :
    r \in ToSet(queue) ~> (crashed \/ uploads[r] = 1)

\* Every request is answered, or its connection closed.
RequestsEnd ==
  \A r \in Requests : <>(crashed \/ stage[r] \in {"finished", "closed"})
=============================================================================
