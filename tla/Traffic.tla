------------------------------ MODULE Traffic ------------------------------
(***************************************************************************)
(* What the middlewares of the gateway share: the requests it serves, the  *)
(* snapshots of the datastore, and the APIs a snapshot publishes.          *)
(***************************************************************************)
EXTENDS Naturals, Sequences

CONSTANTS
  Requests,   \* the requests
  Snapshots,  \* snapshots, in the order they are published
  Paths,      \* paths of requests
  Scopes,     \* scopes of rate limits: operation, client application, name
  MaxApis,    \* bound: APIs of a snapshot
  MaxPaths,   \* bound: paths of an API
  MaxScore,   \* bound: matching-score of a path
  MaxLimits,  \* bound: rate limits of an operation
  MaxTokens,  \* bound: requests an interval of a limit allows
  None        \* an absent value

Methods == {"GET", "OPTIONS"}

\* What a request gives for a parameter: nothing, a numeral, a list of numerals, an
\* empty string, text that the CSV parser refuses.
Values == {"absent", "numeral", "list", "empty", "garbled"}

Types == {"integer", "string", "array"}

\* observed-rate-limit; no tokens stands for UNLIMITED.
Limits == [scope: Scopes, tokens: 0..MaxTokens, reject: BOOLEAN]

\* An element of api-paths: what path-regex accepts, the methods with their rate
\* limits, and the last parameter of the operation; spread is the + before its name.
PathObjects == [accepts: SUBSET Paths, score: 0..MaxScore, methods: SUBSET Methods,
                limits: Seq(Limits), type: Types, spread: BOOLEAN]

\* test-app-cid-sec, cors.enabled, and whether x-ibm-unnamed-rate-limit is among
\* the limits of the plan.
Entries == [subscribable: BOOLEAN, cors: BOOLEAN, unnamed: BOOLEAN,
            paths: Seq(PathObjects)]

\* What a request asks for.
Wishes == [path: Paths, method: Methods, value: Values]

\* Apis[s] is the optimized data of snapshot s; Inputs are what the requests may
\* ask for, together.
CONSTANTS Apis, Inputs

ASSUME TrafficAssumption ==
  /\ Snapshots \subseteq Nat
  /\ MaxApis \in Nat /\ MaxPaths \in Nat /\ MaxScore \in Nat
  /\ MaxLimits \in Nat \ {0} /\ MaxTokens \in Nat
  /\ Apis \in [Snapshots -> Seq(Entries)]
  /\ Inputs \subseteq [Requests -> Wishes]
  /\ \A s \in Snapshots :
       /\ Len(Apis[s]) <= MaxApis
       /\ \A i \in DOMAIN Apis[s] :
            /\ Len(Apis[s][i].paths) <= MaxPaths
            /\ \A j \in DOMAIN Apis[s][i].paths :
                 Len(Apis[s][i].paths[j].limits) <= MaxLimits

VARIABLE input  \* what each request asks for

ASSUME TrafficNone == None \notin Requests /\ None \notin Snapshots

\* What the datastore answers of each snapshot.
OptimizedData == [s \in Snapshots |-> Apis[s]]

\* An operation: the place of the API in the data of the snapshot, and that of the
\* path in the API.
Operation == [api: 1..MaxApis, path: 1..MaxPaths]
=============================================================================
