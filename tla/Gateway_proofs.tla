--------------------------- MODULE Gateway_proofs ---------------------------
(***************************************************************************)
(* The gateway, for any number of requests and snapshots and any published *)
(* APIs: the snapshots that requests hold, the plans and parameters they   *)
(* copy from their documents, the operations the matcher finds, the limits *)
(* that these have, and the types of everything.                           *)
(*                                                                         *)
(* Each section has an inductive invariant of its own, which may rest on   *)
(* those before: HeldInv, LoadedInv, DataInv, ChosenInv, LimitInv and      *)
(* QueueInv.                                                               *)
(***************************************************************************)
EXTENDS Gateway, SequenceLemmas, FiniteSetTheorems

HeldInv ==
  /\ current \in Snapshots
  /\ holders \in [Snapshots -> SUBSET Requests]
  /\ snapshot \in [Requests -> Snapshots \cup {None}]
  /\ stage \in [Requests -> Stages]
  /\ \A r \in Requests : stage[r] \in {"payload", "snapshot"} => snapshot[r] = None
  /\ SnapshotsHeld

-----------------------------------------------------------------------------
(* Snapshots. *)

\* The stages between the snapshot and the response.
OnTheWay == Stages \ {"payload", "snapshot", "finished"}

LEMMA StepHolds ==
  ASSUME HeldInv, NEW r \in Requests, NEW from \in Stages \ {"finished"},
         NEW to \in OnTheWay, Step(r, from, to),
         UNCHANGED <<current, holders, snapshot>>
  PROVE  HeldInv'
  <1>1. /\ stage[r] # "finished" /\ stage' \in [Requests -> Stages]
        /\ stage'[r] = to /\ to \notin {"payload", "snapshot", "finished"}
        /\ \A x \in Requests \ {r} : stage'[x] = stage[x]
    BY DEF Step, HeldInv, OnTheWay
  <1>2. \A x \in Requests : stage'[x] = "finished" <=> stage[x] = "finished"
    BY <1>1
  <1>3. SnapshotsHeld'
    BY <1>2 DEF HeldInv, SnapshotsHeld
  <1> QED
    BY <1>1, <1>3 DEF HeldInv

\* The stages that apim-context leads to.
LEMMA EnterStage ==
  ASSUME NEW r, NEW from, NEW o, EnterContext(r, from, o)
  PROVE  \E to \in {"sending", "array", "lost", "assembly"} : Step(r, from, to)
  BY DEF EnterContext, Parameters, Fail

\* An exception in the callback of a request.
Thrown(r) == BodyGarbled(r) \/ ArrayEmpty(r)

\* Most steps neither take nor release a snapshot.
LEMMA ServeSteps ==
  ASSUME NEW r \in Requests, Serve(r),
         ~SnapshotGiven(r), ~Finish(r), ~PayloadRead(r), ~Thrown(r)
  PROVE  /\ \E from \in Stages \ {"finished"}, to \in OnTheWay : Step(r, from, to)
         /\ UNCHANGED <<current, holders, snapshot>>
  <1> USE DEF Stages, OnTheWay
  <1>1. CASE \/ PayloadRefused(r) \/ SnapshotFailed(r) \/ BodyFailed(r) \/ SecurityRefused(r)
             \/ RedisFailed(r)
    BY <1>1 DEF PayloadRefused, SnapshotFailed, BodyFailed, SecurityRefused, RedisFailed, Fail,
       loaderVars
  <1>2. CASE BodyReceived(r)
    BY <1>2 DEF BodyReceived, Match
  <1>3. CASE SecurityPassed(r)
    <2>1. PICK o : \/ Step(r, "security", "sending") \/ Step(r, "security", "limit")
                   \/ EnterContext(r, "security", o)
      BY <1>3 DEF SecurityPassed
    <2> QED
      BY <1>3, <2>1, EnterStage DEF SecurityPassed, loaderVars
  <1>4. CASE LimitByRedis(r) \/ LimitLocally(r)
    <2>1. \/ Fail(r, "limit") \/ Step(r, "limit", "limit") \/ EnterContext(r, "limit", operation[r])
      BY <1>4 DEF LimitByRedis, LimitLocally
    <2>2. UNCHANGED loaderVars
      BY <1>4 DEF LimitByRedis, LimitLocally
    <2> QED
      BY <2>1, <2>2, EnterStage DEF loaderVars, Fail
  <1>5. CASE ArrayParsed(r) \/ ArrayRefused(r) \/ Assembled(r) \/ Close(r)
    BY <1>5 DEF ArrayParsed, ArrayRefused, Parameters, Assembled, Close, loaderVars
  <1> QED
    BY <1>1, <1>2, <1>3, <1>4, <1>5 DEF Serve, Thrown

LEMMA PayloadReadHolds ==
  ASSUME HeldInv, NEW r \in Requests, PayloadRead(r)
  PROVE  HeldInv'
  <1>1. /\ stage[r] = "payload" /\ stage' = [stage EXCEPT ![r] = "snapshot"]
        /\ UNCHANGED <<current, holders, snapshot>>
    BY DEF PayloadRead, Step, loaderVars
  <1>2. /\ stage' \in [Requests -> Stages]
        /\ \A x \in Requests : stage'[x] = "finished" <=> stage[x] = "finished"
        /\ \A x \in Requests : stage'[x] \in {"payload", "snapshot"} =>
             stage[x] \in {"payload", "snapshot"}
    BY <1>1 DEF HeldInv, Stages
  <1>3. SnapshotsHeld'
    BY <1>1, <1>2 DEF HeldInv, SnapshotsHeld
  <1> QED
    BY <1>1, <1>2, <1>3 DEF HeldInv

LEMMA SnapshotGivenHolds ==
  ASSUME HeldInv, NEW r \in Requests, SnapshotGiven(r)
  PROVE  HeldInv'
  <1>1. /\ snapshot' = [snapshot EXCEPT ![r] = current]
        /\ holders' = [holders EXCEPT ![current] = @ \cup {r}] /\ current' = current
    BY DEF SnapshotGiven, Hold
  <1>2. PICK to \in OnTheWay : Step(r, "snapshot", to)
    BY DEF SnapshotGiven, Match, OnTheWay, Stages
  <1>3. /\ stage[r] = "snapshot" /\ stage'[r] = to
        /\ to \notin {"payload", "snapshot", "finished"}
        /\ stage' \in [Requests -> Stages]
        /\ \A x \in Requests \ {r} : stage'[x] = stage[x] /\ snapshot'[x] = snapshot[x]
        /\ snapshot[r] = None /\ snapshot'[r] = current /\ current \in Snapshots
        /\ None \notin Snapshots
    BY <1>1, <1>2, TrafficNone DEF HeldInv, Step, OnTheWay
  <1>4. SnapshotsHeld'
    <2> SUFFICES ASSUME NEW s \in Snapshots
                 PROVE  holders'[s] = {x \in Requests : snapshot'[x] = s /\ stage'[x] # "finished"}
      BY DEF SnapshotsHeld
    <2>1. holders[s] = {x \in Requests : snapshot[x] = s /\ stage[x] # "finished"}
      BY DEF HeldInv, SnapshotsHeld
    <2>2. holders'[s] = IF s = current THEN holders[s] \cup {r} ELSE holders[s]
      BY <1>1 DEF HeldInv
    <2> QED
      BY <1>3, <2>1, <2>2
  <1>5. /\ holders' \in [Snapshots -> SUBSET Requests]
        /\ snapshot' \in [Requests -> Snapshots \cup {None}]
    BY <1>1 DEF HeldInv
  <1> QED
    BY <1>1, <1>3, <1>4, <1>5 DEF HeldInv

LEMMA FinishHolds ==
  ASSUME HeldInv, NEW r \in Requests, Finish(r)
  PROVE  HeldInv'
  <1>1. /\ stage' = [stage EXCEPT ![r] = "finished"] /\ UNCHANGED <<current, snapshot>>
        /\ holders' = [s \in Snapshots |-> IF s = snapshot[r] THEN holders[s] \ {r} ELSE holders[s]]
    BY DEF Finish, Step, Release
  <1>2. /\ stage'[r] = "finished" /\ \A x \in Requests \ {r} : stage'[x] = stage[x]
        /\ stage' \in [Requests -> Stages]
    BY <1>1 DEF HeldInv, Stages
  <1>3. SnapshotsHeld'
    <2> SUFFICES ASSUME NEW s \in Snapshots
                 PROVE  holders'[s] = {x \in Requests : snapshot'[x] = s /\ stage'[x] # "finished"}
      BY DEF SnapshotsHeld
    <2>1. holders[s] = {x \in Requests : snapshot[x] = s /\ stage[x] # "finished"}
      BY DEF HeldInv, SnapshotsHeld
    <2>2. holders'[s] = IF s = snapshot[r] THEN holders[s] \ {r} ELSE holders[s]
      BY <1>1
    <2> QED
      BY <1>1, <1>2, <2>1, <2>2
  <1>4. holders' \in [Snapshots -> SUBSET Requests]
    BY <1>1 DEF HeldInv
  <1> QED
    BY <1>1, <1>2, <1>3, <1>4 DEF HeldInv

\* What happens besides the requests.
Aside == RedisLost \/ Upload \/ ShakeHands \/ Publish \/ EndInterval

LEMMA AsideUnchanged ==
  ASSUME Aside \/ UNCHANGED vars
  PROVE  /\ UNCHANGED <<useCache, holders, snapshot, document, parsed, contextVars, input,
                        stage, operation>>
         /\ current' = current \/ current' \in Snapshots
  BY DEF Aside, RedisLost, Upload, ShakeHands, Publish, EndInterval, vars, loaderVars

LEMMA NextHolds == HeldInv /\ [Next]_vars => HeldInv'
  <1> SUFFICES ASSUME HeldInv, [Next]_vars PROVE HeldInv'
    OBVIOUS
  <1>1. ASSUME NEW r \in Requests, Serve(r) PROVE HeldInv'
    <2>1. CASE Thrown(r)
      BY <2>1 DEF Thrown, BodyGarbled, ArrayEmpty, loaderVars, HeldInv, SnapshotsHeld
    <2> QED
      BY <1>1, <2>1, PayloadReadHolds, SnapshotGivenHolds, FinishHolds, ServeSteps, StepHolds
  <1>2. CASE Aside \/ UNCHANGED vars
    BY <1>2, AsideUnchanged DEF HeldInv, SnapshotsHeld
  <1> QED
    BY <1>1, <1>2 DEF Next, Aside

LEMMA InitHolds == Init => HeldInv
  <1> SUFFICES ASSUME Init PROVE HeldInv
    OBVIOUS
  <1>1. /\ current \in Snapshots /\ holders = [s \in Snapshots |-> {}]
        /\ snapshot = [r \in Requests |-> None] /\ stage = [r \in Requests |-> "payload"]
    BY DEF Init, LoaderInit
  <1>2. SnapshotsHeld
    BY <1>1, TrafficNone DEF SnapshotsHeld
  <1> QED
    BY <1>1, <1>2 DEF HeldInv, Stages

LEMMA AlwaysHeld == Spec => []HeldInv
  BY InitHolds, NextHolds, PTL DEF Spec

\* Every snapshot is held by the requests that were given it and have not
\* finished, and by no other one, whatever is published in the meantime
\* (lib/api-loader/index.js:46-75).
THEOREM SnapshotsHeldHolds == Spec => []SnapshotsHeld
  <1>1. HeldInv => SnapshotsHeld
    BY DEF HeldInv
  <1> QED
    BY <1>1, AlwaysHeld, PTL

-----------------------------------------------------------------------------
(* The documents that requests have loaded, whoever parsed them. *)

\* Stages of a request that has nothing parsed yet, and of one whose operations count.
Unparsed == {"payload", "snapshot", "body"}
Matched == {"security", "limit", "array"}

\* The document of a request comes from a body of the snapshot it was given.
LoadedFits(r) ==
  /\ stage[r] \in Matched \cup {"body"} => snapshot[r] \in Snapshots
  /\ stage[r] \in Matched => document[r] # None /\ BodyOf(r).apis
  /\ document[r] # None => BodyOf(r) \in Bodies /\ BodyOf(r).of = snapshot[r]
  /\ stage[r] \in Unparsed => /\ document[r] = None
                              /\ \A x \in Requests : document[x] # r
                              /\ \A s \in Snapshots : cache[s] # r

KeptBodies == {e \in [id: Snapshots, body: Bodies] : e.body.of = e.id}

\* Both caches keep what they have under the snapshot it is of.
SourcesKept ==
  /\ bodies \in Seq(KeptBodies)
  /\ \A s \in Snapshots : cache[s] # None =>
       parsed[cache[s]] \in Bodies /\ parsed[cache[s]].of = s

LoadedInv ==
  LoaderTypeOK /\ input \in Inputs /\ SourcesKept /\ \A r \in Requests : LoadedFits(r)

LEMMA LruKept ==
  ASSUME LoaderTypeOK, bodies \in Seq(KeptBodies),
         NEW s \in Snapshots, NEW body \in Bodies, body.of = s
  PROVE  /\ LruSet(s, body) \in Seq([id: Snapshots, body: Bodies])
         /\ LruSet(s, body) \in Seq(KeptBodies)
         /\ Len(LruSet(s, body)) <= MaxBodies
  <1> DEFINE E == KeptBodies
             S == [id: Snapshots \ {s}, body: Bodies]
             first == <<[id |-> s, body |-> body]>>
             others == Among(bodies, S)
             m == IF Len(others) < MaxBodies THEN Len(others) ELSE MaxBodies - 1
             rest == SubSeq(others, 1, m)
  <1>1. bodies \in Seq(E) /\ Len(bodies) <= MaxBodies /\ MaxBodies \in Nat \ {0}
    BY BodiesAssumption DEF LoaderTypeOK
  <1>2. others \in Seq(E \cap S) /\ Len(others) <= Len(bodies)
    BY <1>1, AmongElements
  <1>3. first \in Seq(E) /\ Len(first) = 1
    <2>1. [id |-> s, body |-> body] \in E
      BY DEF KeptBodies
    <2> HIDE DEF E
    <2> QED
      BY <2>1
  <1>4. LruSet(s, body) = first \o rest
    BY DEF LruSet
  <1> HIDE DEF E, S, first, others
  <1>5. others \in Seq(E) /\ Len(others) \in Nat
    BY <1>2
  <1>6. m \in 0..Len(others) /\ m + 1 <= MaxBodies
    BY <1>1, <1>2, <1>5
  <1>7. rest \in Seq(E) /\ Len(rest) = m
    BY <1>5, <1>6
  <1> HIDE DEF rest, m
  <1>8. first \o rest \in Seq(E) /\ Len(first \o rest) = 1 + m
    BY <1>3, <1>7, JoinedIn
  <1>9. LruSet(s, body) \in Seq(E) /\ Len(LruSet(s, body)) <= MaxBodies
    BY <1>4, <1>6, <1>8
  <1>10. \A e \in E : e \in [id: Snapshots, body: Bodies]
    BY DEF E, KeptBodies
  <1>11. LruSet(s, body) \in Seq([id: Snapshots, body: Bodies])
    BY <1>9, <1>10, SeqWider
  <1> QED
    BY <1>9, <1>11 DEF E

\* A request goes on with what it has.
LEMMA StepLoaded ==
  ASSUME LoadedInv, NEW r \in Requests, NEW from \in Stages, NEW to \in Stages, Step(r, from, to),
         UNCHANGED <<snapshot, bodies, cache, document, parsed>>, LoaderTypeOK',
         DOMAIN stage = Requests,
         to \in Unparsed => from = "payload" /\ to = "snapshot",
         to \in Matched => from \in Matched
  PROVE  LoadedInv'
  <1>1. /\ stage[r] = from /\ stage'[r] = to /\ input' = input
        /\ \A x \in Requests \ {r} : stage'[x] = stage[x]
    BY DEF Step
  <1>2. ASSUME NEW x \in Requests PROVE LoadedFits(x)'
    <2>1. LoadedFits(x)
      BY DEF LoadedInv
    <2>2. CASE x = r
      BY <1>1, <2>1, <2>2 DEF LoadedFits, BodyOf, Unparsed, Matched
    <2>3. CASE x # r
      BY <1>1, <2>1, <2>3 DEF LoadedFits, BodyOf, Unparsed, Matched
    <2> QED
      BY <2>2, <2>3
  <1> QED
    BY <1>1, <1>2 DEF LoadedInv, SourcesKept

LEMMA CandidatesLoaded ==
  ASSUME NEW r, CandidateList(r) # <<>>
  PROVE  BodyOf(r).apis
  BY DEF CandidateList

\* A request has come to a document x, not its own unless it has just parsed it.
LEMMA NewlyLoaded ==
  ASSUME LoadedInv, NEW r \in Requests, NEW x \in Requests, LoaderTypeOK',
         stage \in [Requests -> Stages], stage[r] \in {"snapshot", "body"},
         stage' = [stage EXCEPT ![r] = stage'[r]], stage'[r] \in {"sending", "security"},
         stage'[r] = "security" => CandidateList(r)' # <<>>,
         snapshot'[r] \in Snapshots,
         \A y \in Requests \ {r} : snapshot'[y] = snapshot[y] /\ parsed'[y] = parsed[y],
         document' = [document EXCEPT ![r] = x], x = r \/ stage[x] \notin Unparsed,
         \A s \in Snapshots : cache'[s] = cache[s] \/ cache'[s] = r,
         input' = input, SourcesKept',
         parsed'[x] \in Bodies, parsed'[x].of = snapshot'[r]
  PROVE  LoadedInv'
  <1>1. /\ stage'[r] \notin Unparsed /\ stage'[x] \notin Unparsed
        /\ \A y \in Requests \ {r} : stage'[y] = stage[y]
    BY DEF Unparsed
  <1>2. document'[r] = x /\ \A y \in Requests \ {r} : document'[y] = document[y]
    BY DEF LoadedInv, LoaderTypeOK
  <1>3. \A y \in Requests : document[y] # r /\ \A s \in Snapshots : cache[s] # r
    BY DEF LoadedInv, LoadedFits, Unparsed
  <1>4. LoadedFits(r)'
    <2>1. stage'[r] = "security" => BodyOf(r)'.apis
      BY CandidatesLoaded DEF CandidateList
    <2>2. BodyOf(r)' = parsed'[x] /\ x # None
      BY <1>2, TrafficNone DEF BodyOf
    <2> QED
      BY <1>1, <1>2, <2>1, <2>2 DEF LoadedFits, Matched
  <1>5. ASSUME NEW y \in Requests \ {r} PROVE LoadedFits(y)'
    <2>1. LoadedFits(y)
      BY DEF LoadedInv
    <2>2. /\ stage[y] \in Matched => document'[y] # None /\ BodyOf(y)'.apis
          /\ document'[y] # None => BodyOf(y)' \in Bodies /\ BodyOf(y)'.of = snapshot'[y]
      <3>1. document[y] # None => document[y] \in Requests \ {r}
        BY <1>3 DEF LoadedInv, LoaderTypeOK
      <3>2. document[y] # None => BodyOf(y)' = BodyOf(y)
        BY <1>2, <3>1 DEF BodyOf
      <3> QED
        BY <1>2, <2>1, <3>2 DEF LoadedFits
    <2>3. stage[y] \in Unparsed => /\ document'[y] = None
                                   /\ \A z \in Requests : document'[z] # y
                                   /\ \A s \in Snapshots : cache'[s] # y
      <3>1. stage[y] \in Unparsed => x # y
        BY <1>5
      <3> QED
        BY <1>2, <2>1, <3>1 DEF LoadedFits
    <2> QED
      BY <1>1, <2>1, <2>2, <2>3 DEF LoadedFits
  <1> QED
    BY <1>4, <1>5 DEF LoadedInv

LEMMA SnapshotGivenLoads ==
  ASSUME HeldInv, LoadedInv, NEW r \in Requests, SnapshotGiven(r)
  PROVE  LoadedInv'
  <1>1. /\ snapshot' = [snapshot EXCEPT ![r] = current] /\ current \in Snapshots
        /\ holders' = [holders EXCEPT ![current] = @ \cup {r}]
        /\ UNCHANGED <<useCache, current, cache>>
    BY DEF SnapshotGiven, Hold, HeldInv
  <1>2. /\ snapshot'[r] = current /\ \A y \in Requests \ {r} : snapshot'[y] = snapshot[y]
        /\ snapshot' \in [Requests -> Snapshots \cup {None}]
        /\ holders' \in [Snapshots -> SUBSET Requests]
    BY <1>1 DEF HeldInv
  <1>3. stage[r] = "snapshot" /\ input' = input /\ stage' = [stage EXCEPT ![r] = stage'[r]]
    BY DEF SnapshotGiven, Match, Step, HeldInv
  <1>4. CASE Cached(current)
    <2>1. TakeCached(r, current) /\ Match(r, "snapshot")
      BY <1>4 DEF SnapshotGiven
    <2>2. /\ stage'[r] \in {"sending", "security"}
          /\ stage'[r] = "security" => CandidateList(r)' # <<>>
      BY <2>1 DEF Match, Step, HeldInv
    <2>3. CASE CacheHit(current)
      <3>1. /\ document' = [document EXCEPT ![r] = cache[current]] /\ UNCHANGED <<bodies, parsed>>
            /\ cache[current] \in Requests
        BY <1>1, <2>1, <2>3 DEF TakeCached, CacheHit, LoadedInv, LoaderTypeOK
      <3>2. stage[cache[current]] \notin Unparsed
        BY <1>1, <3>1 DEF LoadedInv, LoadedFits
      <3>3. LoaderTypeOK'
        BY <1>1, <1>2, <3>1 DEF LoadedInv, LoaderTypeOK
      <3>4. /\ SourcesKept' /\ cache[current] # None
            /\ parsed'[cache[current]] \in Bodies /\ parsed'[cache[current]].of = current
        BY <1>1, <2>3, <3>1 DEF LoadedInv, SourcesKept, CacheHit
      <3> QED
        BY <1>1, <1>2, <1>3, <2>2, <3>1, <3>2, <3>3, <3>4, NewlyLoaded DEF HeldInv
    <2>4. CASE ~CacheHit(current)
      <3>1. PICK body : /\ body = bodies[CHOOSE i \in CachedBodies(current) : TRUE].body
                        /\ document' = [document EXCEPT ![r] = r]
                        /\ parsed' = [parsed EXCEPT ![r] = body]
                        /\ bodies' = LruSet(current, body)
        BY <2>1, <2>4 DEF TakeCached
      <3>2. CachedBodies(current) # {}
        BY <1>4, <2>4 DEF Cached
      <3>3. body \in Bodies /\ body.of = current
        <4>1. bodies \in Seq(KeptBodies)
          BY DEF LoadedInv, SourcesKept
        <4>2. \A i \in DOMAIN bodies : bodies[i] \in KeptBodies
          BY <4>1, ElementIn
        <4>3. (CHOOSE i \in CachedBodies(current) : TRUE) \in CachedBodies(current)
          BY <3>2
        <4> QED
          BY <3>1, <4>2, <4>3 DEF CachedBodies, KeptBodies
      <3>4. LoaderTypeOK' /\ bodies' \in Seq(KeptBodies)
        BY <1>1, <1>2, <3>1, <3>3, LruKept DEF LoadedInv, LoaderTypeOK, SourcesKept
      <3>5. parsed'[r] = body /\ \A y \in Requests \ {r} : parsed'[y] = parsed[y]
        BY <3>1 DEF LoadedInv, LoaderTypeOK
      <3>6. SourcesKept'
        <4>1. \A s \in Snapshots : cache[s] # None => cache[s] \in Requests \ {r}
          BY <1>3 DEF LoadedInv, LoaderTypeOK, LoadedFits, Unparsed
        <4> QED
          BY <1>1, <3>4, <3>5, <4>1 DEF LoadedInv, SourcesKept
      <3>7. /\ parsed'[r] \in Bodies /\ parsed'[r].of = snapshot'[r] /\ snapshot'[r] \in Snapshots
            /\ \A y \in Requests \ {r} : snapshot'[y] = snapshot[y] /\ parsed'[y] = parsed[y]
            /\ \A s \in Snapshots : cache'[s] = cache[s] \/ cache'[s] = r
        BY <1>1, <1>2, <3>3, <3>5
      <3>8. stage \in [Requests -> Stages] /\ stage[r] \in {"snapshot", "body"}
        BY <1>3 DEF HeldInv
      <3>9. LoaderTypeOK' /\ document' = [document EXCEPT ![r] = r]
        BY <3>1, <3>4
      <3> QED
        BY <1>3, <2>2, <3>6, <3>7, <3>8, <3>9, NewlyLoaded
    <2> QED
      BY <2>3, <2>4
  <1>5. CASE ~Cached(current)
    <2>1. Step(r, "snapshot", "body") /\ UNCHANGED <<bodies, document, parsed>>
      BY <1>5 DEF SnapshotGiven
    <2>2. LoaderTypeOK'
      BY <1>1, <1>2, <2>1 DEF LoadedInv, LoaderTypeOK
    <2>3. stage'[r] = "body" /\ \A y \in Requests \ {r} : stage'[y] = stage[y]
      BY <2>1 DEF Step, HeldInv
    <2>4. LoadedFits(r)'
      BY <1>1, <1>2, <1>3, <2>1, <2>3 DEF LoadedInv, LoadedFits, BodyOf, Unparsed, Matched
    <2>5. ASSUME NEW y \in Requests \ {r} PROVE LoadedFits(y)'
      <3>1. LoadedFits(y)
        BY DEF LoadedInv
      <3> QED
        BY <1>1, <1>2, <2>1, <2>3, <2>5, <3>1 DEF LoadedFits, BodyOf
    <2>6. SourcesKept'
      BY <1>1, <2>1 DEF LoadedInv, SourcesKept
    <2> QED
      BY <1>3, <2>2, <2>4, <2>5, <2>6 DEF LoadedInv
  <1> QED
    BY <1>4, <1>5

LEMMA BodyReceivedLoads ==
  ASSUME HeldInv, LoadedInv, NEW r \in Requests, BodyReceived(r)
  PROVE  LoadedInv'
  <1>1. stage[r] = "body" /\ UNCHANGED <<useCache, current, holders, snapshot>>
    BY DEF BodyReceived
  <1>2. snapshot[r] \in Snapshots
    BY <1>1 DEF LoadedInv, LoadedFits
  <1>3. PICK body \in Bodies : body.of = snapshot[r] /\ TakeBody(r, body)
    BY DEF BodyReceived
  <1>4. /\ stage' = [stage EXCEPT ![r] = stage'[r]] /\ input' = input
        /\ stage'[r] \in {"sending", "security"}
        /\ stage'[r] = "security" => CandidateList(r)' # <<>>
    BY DEF BodyReceived, Match, Step, HeldInv
  <1>5. LoaderTypeOK' /\ bodies' \in Seq(KeptBodies)
    BY <1>1, <1>2, <1>3, LruKept DEF LoadedInv, LoaderTypeOK, SourcesKept, TakeBody
  <1>6. /\ document' = [document EXCEPT ![r] = r]
        /\ parsed'[r] = body /\ \A y \in Requests \ {r} : parsed'[y] = parsed[y]
        /\ \A s \in Snapshots : cache'[s] = IF s = snapshot[r] THEN r ELSE cache[s]
    BY <1>3 DEF TakeBody, LoadedInv, LoaderTypeOK
  <1>7. SourcesKept'
    <2>1. \A s \in Snapshots : cache[s] # None => cache[s] \in Requests \ {r}
      BY <1>1 DEF LoadedInv, LoaderTypeOK, LoadedFits, Unparsed
    <2> QED
      BY <1>3, <1>5, <1>6, <2>1 DEF LoadedInv, SourcesKept
  <1>8. /\ parsed'[r] \in Bodies /\ parsed'[r].of = snapshot'[r] /\ snapshot'[r] \in Snapshots
        /\ \A y \in Requests \ {r} : snapshot'[y] = snapshot[y] /\ parsed'[y] = parsed[y]
        /\ \A s \in Snapshots : cache'[s] = cache[s] \/ cache'[s] = r
    BY <1>1, <1>2, <1>3, <1>6
  <1>9. stage \in [Requests -> Stages] /\ stage[r] \in {"snapshot", "body"}
    BY <1>1 DEF HeldInv
  <1>10. LoaderTypeOK' /\ document' = [document EXCEPT ![r] = r]
    BY <1>5, <1>6
  <1> QED
    BY <1>4, <1>7, <1>8, <1>9, <1>10, NewlyLoaded

LEMMA FinishLoaded ==
  ASSUME HeldInv, LoadedInv, NEW r \in Requests, Finish(r)
  PROVE  LoadedInv'
  <1>1. /\ Step(r, "sending", "finished")
        /\ UNCHANGED <<useCache, current, snapshot, bodies, cache, document, parsed>>
        /\ holders' = [s \in Snapshots |-> IF s = snapshot[r] THEN holders[s] \ {r} ELSE holders[s]]
    BY DEF Finish, Release
  <1>2. LoaderTypeOK'
    <2>1. holders' \in [Snapshots -> SUBSET Requests]
      BY <1>1 DEF HeldInv
    <2> QED
      BY <1>1, <2>1 DEF LoadedInv, LoaderTypeOK
  <1> QED
    BY <1>1, <1>2, StepLoaded DEF HeldInv, Stages, Unparsed, Matched

\* The other steps of a request, and where they lead.
LEMMA OtherSteps ==
  ASSUME NEW r \in Requests, Serve(r), ~SnapshotGiven(r), ~BodyReceived(r), ~Thrown(r),
         ~Finish(r)
  PROVE  /\ UNCHANGED loaderVars
         /\ \E from \in Stages, to \in Stages :
              /\ Step(r, from, to)
              /\ to \in Unparsed => from = "payload" /\ to = "snapshot"
              /\ to \in Matched => from \in Matched
  <1> USE DEF Stages, Unparsed, Matched
  <1>1. CASE \/ PayloadRefused(r) \/ PayloadRead(r) \/ SnapshotFailed(r) \/ BodyFailed(r)
             \/ SecurityRefused(r) \/ RedisFailed(r)
    BY <1>1 DEF PayloadRefused, PayloadRead, SnapshotFailed, BodyFailed, SecurityRefused,
       RedisFailed, Fail
  <1>2. CASE SecurityPassed(r)
    <2>1. PICK o : \/ Step(r, "security", "sending") \/ Step(r, "security", "limit")
                   \/ EnterContext(r, "security", o)
      BY <1>2 DEF SecurityPassed
    <2> QED
      BY <1>2, <2>1, EnterStage DEF SecurityPassed
  <1>3. CASE LimitByRedis(r) \/ LimitLocally(r)
    <2>1. \/ Step(r, "limit", "sending") \/ Step(r, "limit", "limit")
          \/ EnterContext(r, "limit", operation[r])
      BY <1>3 DEF LimitByRedis, LimitLocally, Fail
    <2>2. UNCHANGED loaderVars
      BY <1>3 DEF LimitByRedis, LimitLocally
    <2> QED
      BY <2>1, <2>2, EnterStage
  <1>4. CASE ArrayParsed(r) \/ ArrayRefused(r) \/ Assembled(r) \/ Close(r)
    BY <1>4 DEF ArrayParsed, ArrayRefused, Parameters, Assembled, Close
  <1> QED
    BY <1>1, <1>2, <1>3, <1>4 DEF Serve, Thrown

LEMMA NextLoaded == HeldInv /\ LoadedInv /\ [Next]_vars => LoadedInv'
  <1> SUFFICES ASSUME HeldInv, LoadedInv, [Next]_vars PROVE LoadedInv'
    OBVIOUS
  <1>1. ASSUME NEW r \in Requests, Serve(r), ~SnapshotGiven(r), ~BodyReceived(r),
               ~Thrown(r), ~Finish(r)
        PROVE  LoadedInv'
    <2>1. UNCHANGED loaderVars
      BY <1>1, OtherSteps
    <2>2. PICK from \in Stages, to \in Stages :
            /\ Step(r, from, to)
            /\ to \in Unparsed => from = "payload" /\ to = "snapshot"
            /\ to \in Matched => from \in Matched
      BY <1>1, OtherSteps
    <2>3. LoaderTypeOK'
      BY <2>1 DEF LoadedInv, LoaderTypeOK, loaderVars
    <2>4. DOMAIN stage = Requests /\ UNCHANGED <<snapshot, bodies, cache, document, parsed>>
      BY <2>1 DEF HeldInv, loaderVars
    <2> QED
      BY <2>2, <2>3, <2>4, StepLoaded
  <1>2. ASSUME UNCHANGED <<useCache, holders, snapshot, bodies, cache, document, parsed, input, stage>>,
               current' \in Snapshots
        PROVE  LoadedInv'
    <2>1. LoaderTypeOK'
      BY <1>2 DEF LoadedInv, LoaderTypeOK
    <2>2. ASSUME NEW r \in Requests PROVE LoadedFits(r)'
      <3>1. LoadedFits(r)
        BY DEF LoadedInv
      <3> QED
        BY <1>2, <3>1 DEF LoadedFits, BodyOf
    <2> QED
      BY <1>2, <2>1, <2>2 DEF LoadedInv, SourcesKept
  <1>3. CASE Aside \/ UNCHANGED vars \/ \E r \in Requests : Thrown(r)
    BY <1>2, <1>3 DEF Aside, RedisLost, Upload, ShakeHands, Publish, EndInterval, vars, loaderVars,
       Thrown, BodyGarbled, ArrayEmpty, HeldInv
  <1> QED
    BY <1>1, <1>3, SnapshotGivenLoads, BodyReceivedLoads, FinishLoaded DEF Next, Aside, Serve

LEMMA InitLoaded == Init => LoadedInv
  <1> SUFFICES ASSUME Init PROVE LoadedInv
    OBVIOUS
  <1>1. LoaderInit /\ useCache \in BOOLEAN /\ input \in Inputs
        /\ stage = [r \in Requests |-> "payload"]
    BY DeploymentsAssumption DEF Init
  <1>2. <<>> \in Seq([id: Snapshots, body: Bodies]) /\ Len(<<>>) <= MaxBodies
    BY BodiesAssumption
  <1>3. LoaderTypeOK
    BY <1>1, <1>2 DEF LoaderInit, LoaderTypeOK
  <1>4. \A r \in Requests : LoadedFits(r)
    BY <1>1, TrafficNone DEF LoaderInit, LoadedFits, Unparsed, Matched
  <1>5. SourcesKept
    BY <1>1 DEF LoaderInit, SourcesKept
  <1> QED
    BY <1>1, <1>3, <1>4, <1>5 DEF LoadedInv

LEMMA AlwaysLoaded == Spec => [](HeldInv /\ LoadedInv)
  <1>1. Init => HeldInv /\ LoadedInv
    BY InitHolds, InitLoaded
  <1>2. HeldInv /\ LoadedInv /\ [Next]_vars => (HeldInv /\ LoadedInv)'
    BY NextHolds, NextLoaded
  <1> QED
    BY <1>1, <1>2, PTL DEF Spec

-----------------------------------------------------------------------------
(* The documents of the requests, where they are not shared. *)

Early == {"payload", "snapshot", "body", "security"}

\* The document of r is its own and has the APIs of its snapshot.
OwnBody(r) == document[r] = r /\ parsed[r].apis /\ parsed[r].of = snapshot[r]

\* Without the cache, a request uses the document it has parsed itself, which
\* nobody has changed until it does; and what it has copied is as published.
DataFits(r) ==
  /\ stage[r] \in Early => plan[r] = None /\ \A p \in spliced : p[1] # r
  /\ stage[r] \in Early \cup {"limit", "array"} =>
       parameter[r] = None /\ \A p \in retyped : p[1] # r
  /\ stage[r] \in {"security", "limit", "array"} \/ parameter[r] # None =>
       OwnBody(r)
  /\ stage[r] = "array" =>
       PublishedType(r, operation[r]) = "array" /\ input[r].value # "absent"
  /\ plan[r] # None => plan[r] = OptimizedData[snapshot[r]][operation[r].api].unnamed
  /\ parameter[r] \notin {None, "segments"} =>
       parameter[r] = Convert(PublishedType(r, operation[r]), input[r].value)

DataInv ==
  /\ DOMAIN stage = Requests /\ DOMAIN snapshot = Requests /\ DOMAIN document = Requests
  /\ DOMAIN parsed = Requests /\ DOMAIN plan = Requests /\ DOMAIN parameter = Requests
  /\ DOMAIN operation = Requests
  /\ ~useCache => \A r \in Requests : DataFits(r)

\* What a step of request r does not do to another one.
Spares(x, r) ==
  /\ stage'[x] = stage[x] /\ snapshot'[x] = snapshot[x] /\ document'[x] = document[x]
  /\ parsed'[x] = parsed[x] /\ plan'[x] = plan[x] /\ parameter'[x] = parameter[x]
  /\ operation'[x] = operation[x] /\ input' = input
  /\ \A p \in spliced' : p \in spliced \/ p[1] = r
  /\ \A p \in retyped' : p \in retyped \/ p[1] = r

LEMMA SparedFits ==
  ASSUME NEW r \in Requests, NEW x \in Requests \ {r}, Spares(x, r), DataFits(x)
  PROVE  DataFits(x)'
  <1>1. document[x] = x => Loaded(x)' = Loaded(x)
    BY DEF Spares, Loaded, BodyOf
  <1>2. document[x] = x => PublishedType(x, operation[x])' = PublishedType(x, operation[x])
    BY <1>1 DEF PublishedType, Spares
  <1>3. /\ stage'[x] \in Early => \A p \in spliced' : p[1] # x
        /\ stage'[x] \in Early \cup {"limit", "array"} => \A p \in retyped' : p[1] # x
    BY DEF Spares, DataFits
  <1>4. /\ (stage'[x] \in {"security", "limit", "array"} \/ parameter'[x] # None) =>
             OwnBody(x)'
        /\ stage'[x] = "array" =>
             PublishedType(x, operation[x])' = "array" /\ input'[x].value # "absent"
        /\ plan'[x] # None =>
             plan'[x] = OptimizedData[snapshot'[x]][operation'[x].api].unnamed
    BY <1>2 DEF Spares, DataFits, OwnBody
  <1>5. parameter'[x] \notin {None, "segments"} =>
          parameter'[x] = Convert(PublishedType(x, operation[x])', input'[x].value)
    BY <1>2 DEF Spares, DataFits, OwnBody
  <1>6. stage'[x] \in Early => plan'[x] = None
    BY DEF Spares, DataFits
  <1>7. stage'[x] \in Early \cup {"limit", "array"} => parameter'[x] = None
    BY DEF Spares, DataFits
  <1> QED
    BY <1>3, <1>4, <1>5, <1>6, <1>7 DEF DataFits, Convert

\* The moves of a request that neither load nor copy anything.
LEMMA MoveFits ==
  ASSUME DataInv, NEW r \in Requests, NEW from, NEW to, Step(r, from, to),
         UNCHANGED <<useCache, snapshot, document, parsed, spliced, retyped, plan, parameter,
                     operation>>,
         \/ to \in {"sending", "closed", "finished"}
         \/ from \in {"payload", "snapshot"} /\ to \in {"snapshot", "body"}
         \/ from = "limit" /\ to = "limit"
  PROVE  DataInv'
  <1>1. /\ stage[r] = from /\ stage'[r] = to /\ input' = input
        /\ \A x \in Requests \ {r} : stage'[x] = stage[x]
        /\ DOMAIN stage' = Requests
    BY DEF Step, DataInv
  <1>2. ASSUME ~useCache PROVE DataFits(r)'
    <2>1. DataFits(r)
      BY <1>2 DEF DataInv
    <2>2. PublishedType(r, operation[r])' = PublishedType(r, operation[r])
      BY DEF PublishedType, Loaded, BodyOf
    <2> QED
      BY <1>1, <2>1, <2>2 DEF DataFits, OwnBody, Early, Convert
  <1>3. ASSUME ~useCache, NEW x \in Requests \ {r} PROVE DataFits(x)'
    BY <1>1, <1>3, SparedFits DEF DataInv, Spares
  <1> QED
    BY <1>1, <1>2, <1>3 DEF DataInv

\* What api-loader and api-matcher make of the documents.
LEMMA LoadFits ==
  ASSUME DataInv, LoadedInv', NEW r \in Requests, SnapshotGiven(r) \/ BodyReceived(r)
  PROVE  DataInv'
  <1>1. /\ stage[r] \in {"snapshot", "body"} /\ stage' = [stage EXCEPT ![r] = stage'[r]]
        /\ stage'[r] \in {"body", "security", "sending"}
        /\ UNCHANGED <<useCache, input, spliced, retyped, plan, parameter, operation>>
    BY DEF SnapshotGiven, BodyReceived, Match, Step, DataInv, contextVars
  <1>2. /\ \A x \in Requests \ {r} : /\ snapshot'[x] = snapshot[x] /\ document'[x] = document[x]
                                     /\ parsed'[x] = parsed[x]
        /\ DOMAIN snapshot' = Requests /\ DOMAIN document' = Requests
        /\ DOMAIN parsed' = Requests
    BY DEF SnapshotGiven, BodyReceived, Hold, TakeCached, TakeBody, DataInv
  <1>3. ASSUME ~useCache, stage'[r] = "security" PROVE OwnBody(r)'
    <2>1. document'[r] = r
      BY <1>3 DEF SnapshotGiven, BodyReceived, TakeCached, CacheHit, TakeBody, Step, DataInv
    <2>2. CandidateList(r)' # <<>>
      BY <1>3 DEF SnapshotGiven, BodyReceived, Match, Step, DataInv
    <2>3. document'[r] # None /\ BodyOf(r)'.of = snapshot'[r]
      BY <2>1, TrafficNone DEF LoadedInv, LoadedFits
    <2> QED
      BY <2>1, <2>2, <2>3 DEF CandidateList, OwnBody, BodyOf
  <1>4. ASSUME ~useCache PROVE DataFits(r)'
    <2>1. /\ plan'[r] = None /\ parameter'[r] = None
          /\ \A p \in spliced' : p[1] # r
          /\ \A p \in retyped' : p[1] # r
      BY <1>1, <1>4 DEF DataInv, DataFits, Early
    <2> QED
      BY <1>1, <1>3, <1>4, <2>1 DEF DataFits
  <1>5. ASSUME ~useCache, NEW x \in Requests \ {r} PROVE DataFits(x)'
    BY <1>1, <1>2, <1>5, SparedFits DEF DataInv, Spares
  <1> QED
    BY <1>1, <1>2, <1>4, <1>5 DEF DataInv

\* What a request knows of its own document when it comes to apim-context.
Own(r) ==
  /\ OwnBody(r) /\ parameter[r] = None
  /\ \A p \in retyped : p[1] # r

\* What apim-context has set is as published.
LEMMA ParameterFits ==
  ASSUME DOMAIN parameter = Requests, NEW r \in Requests, NEW o, NEW value,
         value = Convert(PublishedType(r, o), input[r].value), SetParameter(r, o, value)
  PROVE  /\ parameter'[r] \notin {parameter[r], "segments"} =>
              parameter'[r] = Convert(PublishedType(r, o), input[r].value)
         /\ DOMAIN parameter' = Requests
         /\ \A x \in Requests \ {r} : parameter'[x] = parameter[x]
  BY DEF SetParameter

LEMMA EnterFits ==
  ASSUME DOMAIN parameter = Requests, DOMAIN stage = Requests, NEW r \in Requests, NEW from,
         NEW o, Own(r), EnterContext(r, from, o)
  PROVE  /\ stage'[r] \in {"sending", "array", "lost", "assembly"}
         /\ stage'[r] = "array" => /\ PublishedType(r, o) = "array" /\ input[r].value # "absent"
                                   /\ parameter'[r] = None
         /\ parameter'[r] \notin {None, "segments"} =>
              parameter'[r] = Convert(PublishedType(r, o), input[r].value)
         /\ DOMAIN parameter' = Requests /\ DOMAIN stage' = Requests /\ input' = input
         /\ \A x \in Requests \ {r} : parameter'[x] = parameter[x] /\ stage'[x] = stage[x]
  <1>1. CurrentType(r, o) = PublishedType(r, o)
    <2>1. <<document[r], o>> \notin retyped
      <3>1. <<r, o>>[1] = r
        OBVIOUS
      <3> QED
        BY <3>1 DEF Own, OwnBody
    <2> QED
      BY <2>1 DEF CurrentType
  <1>2. CASE Fail(r, from) /\ UNCHANGED parameter
    BY <1>2 DEF Fail, Step, Own
  <1>3. CASE IsParsed(r, o) /\ Step(r, from, "array") /\ UNCHANGED parameter
    BY <1>1, <1>3 DEF Step, Own, IsParsed
  <1>4. CASE Parameters(r, from, o, Convert(CurrentType(r, o), input[r].value))
    <2>1. /\ stage' = [stage EXCEPT ![r] = stage'[r]] /\ stage'[r] \in {"lost", "assembly"}
          /\ input' = input
      BY <1>4 DEF Parameters, Step
    <2>2. SetParameter(r, o, Convert(PublishedType(r, o), input[r].value))
      BY <1>1, <1>4 DEF Parameters
    <2> QED
      BY <2>1, <2>2, ParameterFits DEF Own
  <1> QED
    BY <1>2, <1>3, <1>4 DEF EnterContext

\* A request whose API document is its own goes into apim-context, once its plan
\* is known.
LEMMA ContextFits ==
  ASSUME DataInv, NEW r \in Requests, NEW from, NEW o, EnterContext(r, from, o),
         UNCHANGED <<useCache, snapshot, document, parsed, retyped>>,
         ~useCache => Own(r), operation'[r] = o,
         DOMAIN operation' = Requests, DOMAIN plan' = Requests,
         \A p \in spliced' : p \in spliced \/ p[1] = document[r],
         \A x \in Requests \ {r} : operation'[x] = operation[x] /\ plan'[x] = plan[x],
         ~useCache /\ plan'[r] # None => plan'[r] = OptimizedData[snapshot[r]][o.api].unnamed
  PROVE  DataInv'
  <1>0. \A x \in Requests \ {r} : stage'[x] = stage[x] /\ parameter'[x] = parameter[x]
    BY DEF EnterContext, Parameters, SetParameter, Fail, Step, DataInv
  <1>1. DOMAIN parameter' = Requests /\ DOMAIN stage' = Requests /\ input' = input
    BY DEF EnterContext, Parameters, SetParameter, Fail, Step, DataInv
  <1>2. ASSUME ~useCache PROVE DataFits(r)'
    <2>1. /\ stage'[r] \in {"sending", "array", "lost", "assembly"}
          /\ stage'[r] = "array" => /\ PublishedType(r, o) = "array" /\ input[r].value # "absent"
                                    /\ parameter'[r] = None
          /\ parameter'[r] \notin {None, "segments"} =>
               parameter'[r] = Convert(PublishedType(r, o), input[r].value)
      BY <1>2, EnterFits DEF DataInv
    <2>2. PublishedType(r, operation[r])' = PublishedType(r, o)
      BY DEF PublishedType, Loaded, BodyOf
    <2> QED
      BY <1>1, <1>2, <2>1, <2>2 DEF DataFits, Own, OwnBody, Early, Convert
  <1>3. ASSUME ~useCache, NEW x \in Requests \ {r} PROVE DataFits(x)'
    BY <1>0, <1>1, <1>3, SparedFits DEF DataInv, Spares, Own, OwnBody
  <1> QED
    BY <1>1, <1>2, <1>3 DEF DataInv

LEMMA SecurityPassedFits ==
  ASSUME DataInv, NEW r \in Requests, SecurityPassed(r)
  PROVE  DataInv'
  <1> PICK passed \in SUBSET Candidates(r) : \E o \in passed :
        /\ BuildPreflowContext(r, passed, o)
        /\ operation' = [operation EXCEPT ![r] = o]
        /\ \/ /\ Step(r, "security", "sending") \/ Step(r, "security", "limit")
              /\ UNCHANGED <<api, parameter>>
           \/ EnterContext(r, "security", o)
    BY DEF SecurityPassed
  <1>1. PICK o \in passed :
          /\ BuildPreflowContext(r, passed, o)
          /\ operation' = [operation EXCEPT ![r] = o]
          /\ \/ /\ Step(r, "security", "sending") \/ Step(r, "security", "limit")
                /\ UNCHANGED <<api, parameter>>
             \/ EnterContext(r, "security", o)
    OBVIOUS
  <1>2. /\ stage[r] = "security" /\ UNCHANGED <<useCache, snapshot, document, parsed, retyped>>
    BY DEF SecurityPassed, loaderVars
  <1>3. /\ operation'[r] = o /\ DOMAIN operation' = Requests /\ DOMAIN plan' = Requests
        /\ \A x \in Requests \ {r} : operation'[x] = operation[x] /\ plan'[x] = plan[x]
    BY <1>1 DEF BuildPreflowContext, DataInv
  <1>4. \A p \in spliced' : p \in spliced \/ p[1] = document[r]
    <2> SUFFICES ASSUME NEW p \in {<<document[r], q.api>> : q \in passed}
                 PROVE  p[1] = document[r]
      BY <1>1 DEF BuildPreflowContext
    <2>1. PICK q \in passed : p = <<document[r], q.api>>
      OBVIOUS
    <2> QED
      BY <2>1
  <1>5. ASSUME ~useCache PROVE Own(r)
    BY <1>2, <1>5 DEF Own, DataInv, DataFits, Early
  <1>6. ASSUME ~useCache PROVE plan'[r] = OptimizedData[snapshot[r]][o.api].unnamed
    <2>1. <<document[r], o.api>>[1] = r
      BY <1>5, <1>6 DEF Own, OwnBody
    <2>2. <<document[r], o.api>> \notin spliced
      BY <1>2, <1>6, <2>1 DEF DataInv, DataFits, Early
    <2>3. Loaded(r) = OptimizedData[snapshot[r]]
      BY <1>5, <1>6 DEF Loaded, BodyOf, Own, OwnBody
    <2> QED
      BY <1>1, <2>2, <2>3 DEF BuildPreflowContext, DataInv
  <1>7. CASE EnterContext(r, "security", o)
    BY <1>2, <1>3, <1>4, <1>5, <1>6, <1>7, ContextFits
  <1>8. CASE /\ Step(r, "security", "sending") \/ Step(r, "security", "limit")
             /\ UNCHANGED <<api, parameter>>
    <2>1. /\ stage' = [stage EXCEPT ![r] = stage'[r]] /\ stage'[r] \in {"sending", "limit"}
          /\ input' = input
      BY <1>8 DEF Step, DataInv
    <2>2. ASSUME ~useCache PROVE DataFits(r)'
      BY <1>2, <1>3, <1>5, <1>6, <1>8, <2>1, <2>2 DEF DataFits, Own, OwnBody, Early
    <2>3. ASSUME ~useCache, NEW x \in Requests \ {r} PROVE DataFits(x)'
      BY <1>2, <1>3, <1>4, <1>5, <1>8, <2>1, <2>3, SparedFits DEF DataInv, Spares, Own, OwnBody
    <2> QED
      BY <1>2, <1>3, <1>8, <2>1, <2>2, <2>3 DEF DataInv
  <1> QED
    BY <1>1, <1>7, <1>8

LEMMA SecurityRefusedFits ==
  ASSUME DataInv, NEW r \in Requests, SecurityRefused(r)
  PROVE  DataInv'
  <1>1. /\ stage[r] = "security" /\ stage' = [stage EXCEPT ![r] = "sending"] /\ input' = input
        /\ UNCHANGED <<useCache, snapshot, document, parsed, retyped, plan, parameter, operation>>
    BY DEF SecurityRefused, Fail, Step, loaderVars
  <1>2. \A p \in spliced' : p \in spliced \/ p[1] = document[r]
    <2>1. PICK passed \in SUBSET Candidates(r) :
            spliced' = spliced \cup {<<document[r], p.api>> : p \in passed}
      BY DEF SecurityRefused
    <2> SUFFICES ASSUME NEW p \in {<<document[r], q.api>> : q \in passed}
                 PROVE  p[1] = document[r]
      BY <2>1
    <2>2. PICK q \in passed : p = <<document[r], q.api>>
      OBVIOUS
    <2> QED
      BY <2>2
  <1>3. ASSUME ~useCache PROVE document[r] = r /\ plan[r] = None /\ parameter[r] = None
    BY <1>1, <1>3 DEF DataInv, DataFits, OwnBody, Early
  <1>4. ASSUME ~useCache PROVE DataFits(r)'
    BY <1>1, <1>3, <1>4 DEF DataFits, OwnBody, DataInv, Early
  <1>5. ASSUME ~useCache, NEW x \in Requests \ {r} PROVE DataFits(x)'
    BY <1>1, <1>2, <1>3, <1>5, SparedFits DEF DataInv, Spares
  <1> QED
    BY <1>1, <1>4, <1>5 DEF DataInv

LEMMA LimitFits ==
  ASSUME DataInv, NEW r \in Requests, LimitLocally(r) \/ LimitByRedis(r)
  PROVE  DataInv'
  <1>1. /\ UNCHANGED <<useCache, snapshot, document, parsed, spliced, retyped, plan, operation>>
        /\ stage[r] = "limit"
    BY DEF LimitLocally, LimitByRedis, loaderVars
  <1>2. \/ Step(r, "limit", "sending") /\ UNCHANGED parameter
        \/ Step(r, "limit", "limit") /\ UNCHANGED parameter
        \/ EnterContext(r, "limit", operation[r])
    BY DEF LimitLocally, LimitByRedis, Fail
  <1>3. CASE EnterContext(r, "limit", operation[r])
    <2>1. ASSUME ~useCache PROVE Own(r)
      BY <1>1, <2>1 DEF Own, DataInv, DataFits
    <2>2. ASSUME ~useCache, plan'[r] # None
          PROVE  plan'[r] = OptimizedData[snapshot[r]][operation[r].api].unnamed
      BY <1>1, <2>2 DEF DataInv, DataFits
    <2> QED
      BY <1>1, <1>3, <2>1, <2>2, ContextFits DEF DataInv
  <1> QED
    BY <1>1, <1>2, <1>3, MoveFits

LEMMA ArrayFits ==
  ASSUME LoadedInv, DataInv, NEW r \in Requests, ArrayParsed(r) \/ ArrayRefused(r)
  PROVE  DataInv'
  <1> DEFINE value == IF input[r].value = "garbled" THEN "undefined" ELSE "numbers"
  <1>1. /\ stage[r] = "array" /\ stage' = [stage EXCEPT ![r] = stage'[r]]
        /\ stage'[r] \in {"lost", "assembly"} /\ input' = input
        /\ UNCHANGED <<useCache, snapshot, document, parsed, spliced, plan, operation>>
        /\ retyped' \in {retyped, retyped \cup {<<document[r], operation[r]>>}}
        /\ SetParameter(r, operation[r], value) /\ input[r].value # "empty"
    BY DEF ArrayParsed, ArrayRefused, Parameters, Retype, Step, loaderVars, DataInv
  <1>2. <<document[r], operation[r]>>[1] = document[r]
    OBVIOUS
  <1>3. \A x \in Requests \ {r} : parameter'[x] = parameter[x]
    BY <1>1 DEF SetParameter, DataInv
  <1>4. DOMAIN parameter' = Requests
    BY <1>1 DEF SetParameter, DataInv
  <1>5. ASSUME ~useCache PROVE DataFits(r)'
    <2>1. /\ OwnBody(r) /\ parameter[r] = None
          /\ PublishedType(r, operation[r]) = "array" /\ input[r].value # "absent"
          /\ plan[r] # None => plan[r] = OptimizedData[snapshot[r]][operation[r].api].unnamed
      BY <1>1, <1>5 DEF DataInv, DataFits
    <2>2. Convert(PublishedType(r, operation[r]), input[r].value) = value
      <3>1. input[r].value \in {"numeral", "list", "garbled"}
        BY <1>1, <2>1, TrafficAssumption DEF LoadedInv, Wishes, Values
      <3> QED
        BY <2>1, <3>1 DEF Convert
    <2>3. PublishedType(r, operation[r])' = PublishedType(r, operation[r])
      BY <1>1 DEF PublishedType, Loaded, BodyOf
    <2>4. parameter'[r] \notin {None, "segments"} => parameter'[r] = value
      BY <1>1, <2>1 DEF SetParameter, DataInv
    <2> QED
      BY <1>1, <2>1, <2>2, <2>3, <2>4 DEF DataFits, OwnBody, Early
  <1>6. ASSUME ~useCache, NEW x \in Requests \ {r} PROVE DataFits(x)'
    BY <1>1, <1>2, <1>3, <1>6, SparedFits DEF DataInv, DataFits, OwnBody, Spares
  <1> QED
    BY <1>1, <1>4, <1>5, <1>6 DEF DataInv

\* What changes no data and no stage.
LEMMA IdleFits ==
  ASSUME DataInv, UNCHANGED <<useCache, snapshot, document, parsed, spliced, retyped, plan,
                              parameter, input, stage, operation>>
  PROVE  DataInv'
  <1>1. ASSUME ~useCache, NEW r \in Requests PROVE DataFits(r)'
    <2>1. PublishedType(r, operation[r])' = PublishedType(r, operation[r])
      BY DEF PublishedType, Loaded, BodyOf
    <2>2. DataFits(r)
      BY <1>1 DEF DataInv
    <2> QED
      BY <2>1, <2>2 DEF DataFits, OwnBody, Convert
  <1> QED
    BY <1>1 DEF DataInv

LEMMA ServeFits ==
  ASSUME LoadedInv, LoadedInv', DataInv, NEW r \in Requests, Serve(r)
  PROVE  DataInv'
  <1>1. CASE \/ PayloadRead(r) \/ PayloadRefused(r) \/ SnapshotFailed(r) \/ BodyFailed(r)
             \/ RedisFailed(r) \/ Assembled(r) \/ Close(r) \/ Finish(r)
    <2>1. /\ UNCHANGED <<useCache, snapshot, document, parsed, operation>>
          /\ UNCHANGED <<spliced, retyped, plan, parameter>>
      BY <1>1 DEF PayloadRead, PayloadRefused, SnapshotFailed, BodyFailed, RedisFailed,
         Assembled, Close, Finish, loaderVars, contextVars
    <2>2. \E from, to : /\ Step(r, from, to)
                        /\ \/ to \in {"sending", "closed", "finished"}
                           \/ from = "payload" /\ to = "snapshot"
      BY <1>1 DEF PayloadRead, PayloadRefused, SnapshotFailed, BodyFailed, RedisFailed,
         Assembled, Close, Finish, Fail
    <2> QED
      BY <2>1, <2>2, MoveFits
  <1>2. CASE Thrown(r)
    BY <1>2, IdleFits DEF Thrown, BodyGarbled, ArrayEmpty, loaderVars, contextVars
  <1> QED
    BY <1>1, <1>2, LoadFits, SecurityPassedFits, SecurityRefusedFits, LimitFits, ArrayFits
       DEF Serve, Thrown

LEMMA NextFits == HeldInv /\ LoadedInv /\ DataInv /\ [Next]_vars => DataInv'
  <1> SUFFICES ASSUME HeldInv, LoadedInv, DataInv, [Next]_vars PROVE DataInv'
    OBVIOUS
  <1>1. CASE Aside \/ UNCHANGED vars
    BY <1>1, AsideUnchanged, IdleFits DEF contextVars
  <1>2. LoadedInv'
    BY NextLoaded
  <1> QED
    BY <1>1, <1>2, ServeFits DEF Next, Aside

LEMMA InitFits == Init => DataInv
  BY DEF Init, LoaderInit, ContextInit, DataInv, DataFits

\* Without the cache, the plan and the parameters of every request are what the
\* snapshot it was given publishes, whatever others have done to their documents
\* (lib/security-check/index.js:162-176, lib/apim-context/index.js:304-362).
THEOREM DataAsPublishedHolds == Spec => []DataAsPublished
  <1>1. DataInv => DataAsPublished
    BY DEF DataInv, DataFits, DataAsPublished
  <1>2. Spec => []DataInv
    BY InitFits, NextFits, AlwaysLoaded, PTL DEF Spec
  <1> QED
    BY <1>1, <1>2, PTL

-----------------------------------------------------------------------------
(* The matcher, for any APIs. *)

\* The APIs of a snapshot, as they may be.
Bounded(apis) ==
  /\ apis \in Seq(Entries) /\ Len(apis) <= MaxApis
  /\ \A i \in DOMAIN apis : Len(apis[i].paths) <= MaxPaths

OperationsIn(apis) ==
  {o \in Operation : o.api \in DOMAIN apis /\ o.path \in DOMAIN apis[o.api].paths}

LEMMA PathObjectFound ==
  ASSUME NEW apis, Bounded(apis), NEW o \in OperationsIn(apis)
  PROVE  apis[o.api] \in Entries /\ PathObj(apis, o) \in PathObjects
  <1>1. apis[o.api] \in Entries
    BY DEF Bounded, OperationsIn
  <1>2. apis[o.api].paths \in Seq(PathObjects)
    BY <1>1 DEF Entries
  <1> QED
    BY <1>1, <1>2 DEF PathObj, OperationsIn

\* The two loops of the matcher visit the operations of all APIs.
LEMMA OperationsListed ==
  ASSUME NEW apis, Bounded(apis)
  PROVE  /\ Operations(apis) \in Seq(OperationsIn(apis))
         /\ ToSet(Operations(apis)) = OperationsIn(apis)
  <1> DEFINE E == OperationsIn(apis)
             row(i) == [j \in DOMAIN apis[i].paths |-> [api |-> i, path |-> j]]
             rows == [i \in DOMAIN apis |-> row(i)]
  <1>1. /\ DOMAIN apis = 1..Len(apis) /\ Len(apis) \in Nat /\ Len(apis) <= MaxApis
        /\ MaxApis \in Nat /\ MaxPaths \in Nat
    BY TrafficAssumption DEF Bounded
  <1>2. ASSUME NEW i \in DOMAIN apis
        PROVE  /\ DOMAIN apis[i].paths = 1..Len(apis[i].paths) /\ Len(apis[i].paths) \in Nat
               /\ Len(apis[i].paths) <= MaxPaths
    <2>1. apis[i] \in Entries
      BY DEF Bounded
    <2>2. apis[i].paths \in Seq(PathObjects)
      BY <2>1 DEF Entries
    <2> QED
      BY <2>2 DEF Bounded
  <1>3. \A i \in DOMAIN apis : \A j \in DOMAIN apis[i].paths : [api |-> i, path |-> j] \in E
    <2> SUFFICES ASSUME NEW i \in DOMAIN apis, NEW j \in DOMAIN apis[i].paths
                 PROVE  [api |-> i, path |-> j] \in E
      OBVIOUS
    <2>1. i \in 1..MaxApis /\ j \in 1..MaxPaths
      BY <1>1, <1>2
    <2> QED
      BY <2>1 DEF OperationsIn, Operation
  <1> HIDE DEF E
  <1>4. \A i \in DOMAIN apis : row(i) \in Seq(E)
    <2> SUFFICES ASSUME NEW i \in DOMAIN apis PROVE row(i) \in Seq(E)
      OBVIOUS
    <2>1. row(i) \in [1..Len(apis[i].paths) -> E]
      BY <1>2, <1>3
    <2> HIDE DEF row
    <2> QED
      BY <1>2, <2>1
  <1>5. rows \in Seq(Seq(E))
    <2>1. rows \in [1..Len(apis) -> Seq(E)]
      BY <1>1, <1>4
    <2> HIDE DEF rows
    <2> QED
      BY <1>1, <2>1
  <1>6. Operations(apis) = FlattenSeq(rows)
    BY DEF Operations
  <1>7. DOMAIN rows = DOMAIN apis /\ \A i \in DOMAIN apis : rows[i] = row(i)
    OBVIOUS
  <1> HIDE DEF rows
  <1>8. /\ FlattenSeq(rows) \in Seq(E)
        /\ ToSet(FlattenSeq(rows)) = UNION {ToSet(rows[i]) : i \in DOMAIN rows}
    BY <1>5, Flattened
  <1>9. ToSet(FlattenSeq(rows)) \subseteq E
    BY <1>8 DEF ToSet
  <1>10. ASSUME NEW o \in E PROVE o \in ToSet(FlattenSeq(rows))
    <2>1. o.api \in DOMAIN apis /\ o.path \in DOMAIN apis[o.api].paths
          /\ o = [api |-> o.api, path |-> o.path]
      BY <1>10 DEF E, OperationsIn, Operation
    <2>2. o \in ToSet(row(o.api))
      BY <2>1 DEF ToSet
    <2> QED
      BY <1>7, <1>8, <2>1, <2>2
  <1> QED
    BY <1>6, <1>8, <1>9, <1>10 DEF E

\* What the matcher has found after some operations.
Found(apis, path, method, ops) ==
  FoldLeft(LAMBDA found, o : MatchNext(apis, path, method, found, o),
           [best |-> MaxScore + 1, matches |-> <<>>], ops)

Results(apis) == [best: 0..(MaxScore + 1), matches: Seq(OperationsIn(apis))]

\* One more operation.
Meet(apis, path, method) ==
  [p \in Results(apis) \X OperationsIn(apis) |-> MatchNext(apis, path, method, p[1], p[2])]

LEMMA ResultsKept ==
  ASSUME NEW apis, Bounded(apis), NEW path, NEW method, NEW found \in Results(apis),
         NEW o \in OperationsIn(apis)
  PROVE  MatchNext(apis, path, method, found, o) \in Results(apis)
  <1>1. PathObj(apis, o).score \in 0..MaxScore /\ MaxScore \in Nat
    BY PathObjectFound, TrafficAssumption DEF PathObjects
  <1>2. /\ Append(<<>>, o) \in Seq(OperationsIn(apis))
        /\ Append(found.matches, o) \in Seq(OperationsIn(apis))
    BY DEF Results
  <1> QED
    BY <1>1, <1>2 DEF MatchNext, Results

LEMMA FoundFolds ==
  ASSUME NEW apis, Bounded(apis), NEW path, NEW method, NEW ops \in Seq(OperationsIn(apis))
  PROVE  Folds(Results(apis), Meet(apis, path, method),
               [best |-> MaxScore + 1, matches |-> <<>>], ops, Found(apis, path, method, ops))
  <1> DEFINE n == Len(ops)
             X == Results(apis)
             E == OperationsIn(apis)
             b == [best |-> MaxScore + 1, matches |-> <<>>]
             Op(found, o) == MatchNext(apis, path, method, found, o)
             F == Meet(apis, path, method)
             Fits(g) == g = [s \in SUBSET DOMAIN ops |->
                               IF s = {} THEN b ELSE Op(g[s \ {Max(s)}], ops[Max(s)])]
             it == CHOOSE g : Fits(g)
  <1>1. Found(apis, path, method, ops) = it[DOMAIN ops]
    BY DEF Found, FoldLeft, MapThenFoldSet
  <1>2. DOMAIN ops = 1..n /\ n \in Nat /\ \A k \in 1..n : ops[k] \in E
    OBVIOUS
  <1>3. \A x \in X, e \in E : Op(x, e) \in X
    BY ResultsKept
  <1>4. b \in X
    BY TrafficAssumption DEF Results
  <1> HIDE DEF n, X, E, b, Op
  <1>5. F \in [X \X E -> X] /\ \A x \in X, e \in E : F[<<x, e>>] = Op(x, e)
    BY <1>3 DEF Meet, X, E, Op
  <1> HIDE DEF F
  <1>6. PICK g \in [SUBSET (1..n) -> X] : IsFoldOf(b, F, ops, n, g)
    <2>1. \A k \in 1..n : ops[k] \in E
      BY <1>2
    <2>2. n \in Nat /\ F \in [X \X E -> X]
      BY <1>2, <1>5
    <2> QED
      BY <1>4, <2>1, <2>2, FoldOf, Zenon
  <1>7. \A s \in SUBSET (1..n) : s # {} =>
          s \ {Max(s)} \in SUBSET (1..n) /\ Max(s) \in 1..n
    BY <1>2, MaxIn
  <1>8. \A s \in SUBSET (1..n) : s # {} => g[s] = Op(g[s \ {Max(s)}], ops[Max(s)])
    BY <1>2, <1>5, <1>6, <1>7 DEF IsFoldOf
  <1>9. Fits(g)
    BY <1>2, <1>6, <1>8 DEF IsFoldOf
  <1>10. Fits(it)
    <2> HIDE DEF Fits
    <2> QED
      BY <1>9
  <1> HIDE DEF it
  <1>11. it[{}] = b /\ \A s \in SUBSET (1..n) : s # {} =>
           it[s] = Op(it[s \ {Max(s)}], ops[Max(s)])
    BY <1>2, <1>10
  <1> HIDE DEF Fits
  <1>12. \A s \in SUBSET (1..n) : s # {} /\ it[s \ {Max(s)}] \in X =>
           it[s] = F[<<it[s \ {Max(s)}], ops[Max(s)]>>]
    BY <1>2, <1>5, <1>7, <1>11
  <1>13. Folds(X, F, b, ops, it[1..n])
    <2>1. ops \in Seq(E)
      BY DEF E
    <2> QED
      BY <1>4, <1>5, <1>11, <1>12, <2>1, FoldValue DEF n
  <1> QED
    BY <1>1, <1>2, <1>13 DEF F, X, b

LEMMA FoundNone ==
  ASSUME NEW apis, Bounded(apis), NEW path, NEW method
  PROVE  Found(apis, path, method, <<>>) = [best |-> MaxScore + 1, matches |-> <<>>]
  <1>1. <<>> \in Seq(OperationsIn(apis))
    OBVIOUS
  <1>2. Folds(Results(apis), Meet(apis, path, method),
              [best |-> MaxScore + 1, matches |-> <<>>], <<>>, Found(apis, path, method, <<>>))
    BY <1>1, FoundFolds
  <1> QED
    BY <1>2, FoldEmpty

LEMMA FoundAppended ==
  ASSUME NEW apis, Bounded(apis), NEW path, NEW method, NEW ops \in Seq(OperationsIn(apis)),
         NEW o \in OperationsIn(apis)
  PROVE  /\ Found(apis, path, method, ops) \in Results(apis)
         /\ Found(apis, path, method, Append(ops, o)) =
              MatchNext(apis, path, method, Found(apis, path, method, ops), o)
  <1> DEFINE X == Results(apis)
             F == Meet(apis, path, method)
             b == [best |-> MaxScore + 1, matches |-> <<>>]
             v == Found(apis, path, method, ops)
             w == Found(apis, path, method, Append(ops, o))
  <1>1. Append(ops, o) \in Seq(OperationsIn(apis))
    OBVIOUS
  <1>2. Folds(X, F, b, ops, v)
    BY FoundFolds
  <1>3. Folds(X, F, b, Append(ops, o), w)
    BY <1>1, FoundFolds
  <1>4. \A x \in X : F[<<x, o>>] = MatchNext(apis, path, method, x, o)
    BY DEF Meet
  <1> HIDE DEF X, F, b, v, w
  <1>5. v \in X
    <2>1. Len(ops) \in 0..Len(ops)
      OBVIOUS
    <2> QED
      BY <1>2, <2>1 DEF Folds
  <1>6. w = F[<<v, o>>]
    BY <1>2, <1>3, FoldAppended
  <1> QED
    BY <1>4, <1>5, <1>6 DEF X, v, w

Served(apis, path, method, score) ==
  {o \in OperationsIn(apis) : Serves(apis, o, path, method) /\ PathObj(apis, o).score = score}

\* The matcher has found the best of what it has visited.
FoundBest(apis, path, method, ops) ==
  LET found == Found(apis, path, method, ops) IN
    /\ found \in Results(apis)
    /\ \A o \in ToSet(ops) :
         Serves(apis, o, path, method) => found.best <= PathObj(apis, o).score
    /\ found.best # MaxScore + 1 => ToSet(ops) \cap Served(apis, path, method, found.best) # {}
    /\ found.matches = Among(ops, Served(apis, path, method, found.best))

LEMMA AlwaysBest ==
  ASSUME NEW apis, Bounded(apis), NEW path, NEW method, NEW ops \in Seq(OperationsIn(apis))
  PROVE  FoundBest(apis, path, method, ops)
  <1> DEFINE E == OperationsIn(apis)
             T == {q \in Seq(E) : FoundBest(apis, path, method, q)}
  <1>1. <<>> \in T
    <2>1. ToSet(<<>>) = {}
      BY DEF ToSet
    <2>2. Among(<<>>, Served(apis, path, method, MaxScore + 1)) = <<>>
      BY AmongNone
    <2>3. [best |-> MaxScore + 1, matches |-> <<>>] \in Results(apis)
      BY TrafficAssumption DEF Results
    <2>4. FoundBest(apis, path, method, <<>>)
      BY <2>1, <2>2, <2>3, FoundNone DEF FoundBest
    <2> QED
      BY <2>4
  <1>2. ASSUME NEW q \in Seq(E), NEW o \in E, q \in T PROVE Append(q, o) \in T
    <2> DEFINE long == Append(q, o)
               f == Found(apis, path, method, q)
               g == Found(apis, path, method, long)
               score == PathObj(apis, o).score
               S(k) == Served(apis, path, method, k)
    <2>1. /\ f \in Results(apis)
          /\ \A p \in ToSet(q) : Serves(apis, p, path, method) => f.best <= PathObj(apis, p).score
          /\ f.best # MaxScore + 1 => ToSet(q) \cap S(f.best) # {}
          /\ f.matches = Among(q, S(f.best))
      BY <1>2 DEF FoundBest
    <2>2. g = MatchNext(apis, path, method, f, o)
      BY FoundAppended
    <2>3. long \in Seq(E) /\ ToSet(long) = ToSet(q) \cup {o}
      BY ToSetAppended
    <2>4. \A k : Among(long, S(k)) = IF o \in S(k) THEN Append(Among(q, S(k)), o) ELSE Among(q, S(k))
      BY AmongAppended
    <2>5. /\ score \in 0..MaxScore /\ MaxScore \in Nat
          /\ \A k : o \in S(k) <=> Serves(apis, o, path, method) /\ score = k
      BY PathObjectFound, TrafficAssumption DEF PathObjects, Served
    <2>6. \A p \in ToSet(q) : p \in E
      BY DEF ToSet
    <2>7. \A p \in E : PathObj(apis, p).score \in 0..MaxScore
      BY PathObjectFound DEF PathObjects
    <2>8. g \in Results(apis)
      BY <2>1, <2>2, ResultsKept
    <2> HIDE DEF f, g, long, score
    <2>9. CASE ~(Serves(apis, o, path, method) /\ score <= f.best)
      <3>1. g = f
        BY <2>2, <2>9 DEF MatchNext, score
      <3>2. o \notin S(f.best)
        BY <2>1, <2>5, <2>9 DEF Results
      <3>3. \A p \in ToSet(long) :
              Serves(apis, p, path, method) => g.best <= PathObj(apis, p).score
        BY <2>1, <2>3, <2>5, <2>9, <3>1 DEF score, Results
      <3>4. g.matches = Among(long, S(g.best))
        BY <2>1, <2>4, <3>1, <3>2
      <3>5. g.best # MaxScore + 1 => ToSet(long) \cap S(g.best) # {}
        BY <2>1, <2>3, <3>1
      <3> QED
        BY <2>3, <2>8, <3>3, <3>4, <3>5 DEF FoundBest, g, long
    <2>10. CASE Serves(apis, o, path, method) /\ score <= f.best
      <3>1. /\ g.best = score
            /\ g.matches = Append(IF score < f.best THEN <<>> ELSE f.matches, o)
        BY <2>2, <2>10 DEF MatchNext, score
      <3>2. o \in S(score)
        BY <2>5, <2>10
      <3>3. \A p \in ToSet(long) :
              Serves(apis, p, path, method) => score <= PathObj(apis, p).score
        <4>1. \A p \in ToSet(q) :
                Serves(apis, p, path, method) => score <= PathObj(apis, p).score
          BY <2>1, <2>5, <2>6, <2>7, <2>10 DEF Results
        <4>2. score <= PathObj(apis, o).score
          BY <2>5 DEF score
        <4> QED
          BY <2>3, <4>1, <4>2
      <3>4. Among(q, S(score)) = IF score < f.best THEN <<>> ELSE f.matches
        <4>1. CASE score < f.best
          <5>1. ToSet(q) \cap S(score) = {}
            BY <2>1, <2>5, <2>6, <2>7, <4>1 DEF Served, Results
          <5>2. /\ Among(q, S(score)) \in Seq(E \cap S(score))
                /\ ToSet(Among(q, S(score))) = {}
            BY <5>1, AmongElements
          <5>3. Among(q, S(score)) = <<>>
            BY <5>2, ToSetEmpty
          <5> QED
            BY <4>1, <5>3
        <4>2. CASE ~(score < f.best)
          <5>1. score = f.best
            BY <2>1, <2>5, <2>10, <4>2 DEF Results
          <5> QED
            BY <2>1, <4>2, <5>1
        <4> QED
          BY <4>1, <4>2
      <3>5. g.matches = Among(long, S(score))
        BY <2>4, <3>1, <3>2, <3>4
      <3>6. ToSet(long) \cap S(score) # {}
        BY <2>3, <3>2
      <3> QED
        BY <2>3, <2>8, <3>1, <3>3, <3>5, <3>6 DEF FoundBest, g, long
    <2>11. FoundBest(apis, path, method, Append(q, o))
      BY <2>9, <2>10
    <2> QED
      BY <2>3, <2>11 DEF long
  <1>3. ops \in T
    <2> HIDE DEF T
    <2>1. \A q \in Seq(E), o \in E : q \in T => Append(q, o) \in T
      BY <1>2
    <2> QED
      BY <1>1, <2>1, Appending
  <1> QED
    BY <1>3

\* The fold of the matcher finds the operations that serve a request of the best
\* score, in their order, whatever APIs there are (lib/api-matcher/index.js:53-107).
THEOREM MatchesAreBest ==
  ASSUME NEW apis, Bounded(apis), NEW path, NEW method
  PROVE  Matches(apis, path, method) = BestMatches(apis, path, method)
  <1> DEFINE ops == Operations(apis)
             E == OperationsIn(apis)
             f == Found(apis, path, method, ops)
             B == {o \in Operation :
                     /\ Serves(apis, o, path, method)
                     /\ \A i \in DOMAIN apis : \A j \in DOMAIN apis[i].paths :
                          LET p == [api |-> i, path |-> j] IN
                            Serves(apis, p, path, method) =>
                              PathObj(apis, o).score <= PathObj(apis, p).score}
  <1>1. ops \in Seq(E) /\ ToSet(ops) = E
    BY OperationsListed
  <1>2. FoundBest(apis, path, method, ops)
    BY <1>1, AlwaysBest
  <1>3. /\ f \in Results(apis)
        /\ \A o \in E : Serves(apis, o, path, method) => f.best <= PathObj(apis, o).score
        /\ f.best # MaxScore + 1 => E \cap Served(apis, path, method, f.best) # {}
        /\ f.matches = Among(ops, Served(apis, path, method, f.best))
    BY <1>1, <1>2 DEF FoundBest
  <1>4. Matches(apis, path, method) = f.matches
    BY DEF Matches, Found
  <1>5. BestMatches(apis, path, method) = Among(ops, B)
    BY DEF BestMatches
  <1>6. \A o \in E : /\ o.api \in DOMAIN apis /\ o.path \in DOMAIN apis[o.api].paths
                     /\ o = [api |-> o.api, path |-> o.path] /\ o \in Operation
    BY DEF OperationsIn, Operation
  <1>7. \A o \in E : PathObj(apis, o).score \in 0..MaxScore
    BY PathObjectFound DEF PathObjects
  <1>8. \A i \in DOMAIN apis : \A j \in DOMAIN apis[i].paths : [api |-> i, path |-> j] \in E
    <2> SUFFICES ASSUME NEW i \in DOMAIN apis, NEW j \in DOMAIN apis[i].paths
                 PROVE  [api |-> i, path |-> j] \in E
      OBVIOUS
    <2>1. apis[i] \in Entries /\ i \in 1..MaxApis
      BY TrafficAssumption DEF Bounded
    <2>2. apis[i].paths \in Seq(PathObjects)
      BY <2>1 DEF Entries
    <2>3. j \in 1..MaxPaths
      BY <2>2, TrafficAssumption DEF Bounded
    <2> QED
      BY <2>1, <2>3 DEF OperationsIn, Operation
  <1> HIDE DEF ops, E, f
  <1>9. ASSUME NEW o \in E, o \in B PROVE o \in Served(apis, path, method, f.best)
    <2>1. Serves(apis, o, path, method) /\ \A p \in E : Serves(apis, p, path, method) =>
            PathObj(apis, o).score <= PathObj(apis, p).score
      BY <1>6, <1>9
    <2>2. f.best <= PathObj(apis, o).score /\ f.best # MaxScore + 1
      BY <1>3, <1>7, <2>1, TrafficAssumption DEF Results
    <2>3. PICK p \in E : Serves(apis, p, path, method) /\ PathObj(apis, p).score = f.best
      BY <1>3, <2>2 DEF Served
    <2>4. PathObj(apis, o).score = f.best
      BY <1>3, <1>7, <2>1, <2>2, <2>3 DEF Results
    <2> QED
      BY <2>1, <2>4 DEF Served, E
  <1>10. ASSUME NEW o \in E, o \in Served(apis, path, method, f.best) PROVE o \in B
    <2>1. Serves(apis, o, path, method) /\ PathObj(apis, o).score = f.best
      BY <1>10 DEF Served
    <2>2. \A p \in E : Serves(apis, p, path, method) =>
            PathObj(apis, o).score <= PathObj(apis, p).score
      BY <1>3, <2>1
    <2> QED
      BY <1>6, <1>8, <2>1, <2>2
  <1> HIDE DEF B
  <1>11. ToSet(ops) \cap Served(apis, path, method, f.best) = ToSet(ops) \cap B
    BY <1>1, <1>9, <1>10
  <1>12. Among(ops, Served(apis, path, method, f.best)) = Among(ops, B)
    BY <1>1, <1>11, AmongSame
  <1> QED
    BY <1>3, <1>4, <1>5, <1>12

-----------------------------------------------------------------------------
(* The candidates of a request, in the document it has loaded. *)

\* What is found in the document of a request is what its snapshot publishes.
LEMMA CandidatesOf ==
  ASSUME LoadedInv, NEW r \in Requests, stage[r] \in Matched
  PROVE  /\ snapshot[r] \in Snapshots /\ document[r] \in Requests /\ input[r] \in Wishes
         /\ Bounded(Apis[snapshot[r]]) /\ Loaded(r) = Apis[snapshot[r]]
         /\ CandidateList(r) = Matches(Apis[snapshot[r]], input[r].path, input[r].method)
  <1>1. /\ snapshot[r] \in Snapshots /\ document[r] \in Requests
        /\ BodyOf(r).apis /\ BodyOf(r).of = snapshot[r] /\ input \in Inputs
    BY DEF LoadedInv, LoadedFits, LoaderTypeOK
  <1>2. input[r] \in Wishes
    BY <1>1, TrafficAssumption
  <1>3. Bounded(Apis[snapshot[r]])
    BY <1>1, TrafficAssumption DEF Bounded
  <1>4. Loaded(r) = Apis[snapshot[r]]
    BY <1>1 DEF Loaded, OptimizedData
  <1>5. MatchesOf[snapshot[r]][input[r].path][input[r].method] =
          Matches(Apis[snapshot[r]], input[r].path, input[r].method)
    BY <1>1, <1>2 DEF MatchesOf, Wishes
  <1> QED
    BY <1>1, <1>2, <1>3, <1>4, <1>5 DEF CandidateList

\* A request's candidates are the best operations of its own snapshot, whoever
\* parsed the document they are found in and whichever body the caches kept
\* (lib/api-loader.js, lib/api-matcher/index.js:53-107).
THEOREM MatchesBestHolds == Spec => []MatchesBest
  <1>1. LoadedInv => MatchesBest
    <2> SUFFICES ASSUME LoadedInv, NEW r \in Requests, stage[r] = "security"
                 PROVE  CandidateList(r) =
                          BestMatches(OptimizedData[snapshot[r]], input[r].path, input[r].method)
      BY DEF MatchesBest
    <2>1. /\ snapshot[r] \in Snapshots /\ Bounded(Apis[snapshot[r]])
          /\ CandidateList(r) = Matches(Apis[snapshot[r]], input[r].path, input[r].method)
      BY CandidatesOf DEF Matched
    <2>2. OptimizedData[snapshot[r]] = Apis[snapshot[r]]
      BY <2>1 DEF OptimizedData
    <2> QED
      BY <2>1, <2>2, MatchesAreBest
  <1> QED
    BY <1>1, AlwaysLoaded, PTL

-----------------------------------------------------------------------------
(* The operations that requests come to, and the limits these have. *)

\* The operation a request has been let through to, and the limit it is to meet next.
ChosenFits(r) ==
  /\ stage[r] \in {"limit", "array"} => operation[r] \in OperationsIn(Apis[snapshot[r]])
  /\ stage[r] = "limit" =>
       limit[r] \in DOMAIN Tasks(PathObj(Apis[snapshot[r]], operation[r]).limits)

ChosenInv ==
  /\ ContextTypeOK
  /\ operation \in [Requests -> Operation \cup {None}]
  /\ limit \in [Requests -> 0..MaxLimits]
  /\ \A r \in Requests : ChosenFits(r)

LEMMA CandidatesIn ==
  ASSUME LoadedInv, NEW r \in Requests, stage[r] \in Matched
  PROVE  Candidates(r) \subseteq OperationsIn(Apis[snapshot[r]])
  <1> DEFINE apis == Apis[snapshot[r]]
             ops == Operations(apis)
             E == OperationsIn(apis)
             f == Found(apis, input[r].path, input[r].method, ops)
  <1>1. Bounded(apis) /\ CandidateList(r) = f.matches
    BY CandidatesOf DEF Matches, Found
  <1>2. ops \in Seq(E)
    BY <1>1, OperationsListed
  <1>3. FoundBest(apis, input[r].path, input[r].method, ops)
    <2> HIDE DEF apis, ops
    <2> QED
      BY <1>1, <1>2, AlwaysBest
  <1>4. f.matches \in Seq(E)
    BY <1>3 DEF FoundBest, Results
  <1> HIDE DEF f, E
  <1> QED
    BY <1>1, <1>4 DEF Candidates, ToSet, E

\* The limits of an operation that are not unlimited.
LEMMA TasksOf ==
  ASSUME LoadedInv, NEW r \in Requests, stage[r] \in Matched,
         NEW o \in OperationsIn(Apis[snapshot[r]])
  PROVE  /\ LimitsOf(r, o) = Tasks(PathObj(Apis[snapshot[r]], o).limits)
         /\ LimitsOf(r, o) \in Seq({l \in Limits : l.tokens > 0})
         /\ Len(LimitsOf(r, o)) <= MaxLimits
  <1> DEFINE limits == PathObj(Apis[snapshot[r]], o).limits
             some == {l \in Limits : l.tokens > 0}
  <1>1. /\ Bounded(Apis[snapshot[r]]) /\ Loaded(r) = Apis[snapshot[r]]
        /\ snapshot[r] \in Snapshots
    BY CandidatesOf
  <1>2. limits \in Seq(Limits)
    BY <1>1, PathObjectFound DEF PathObjects
  <1>3. Len(limits) <= MaxLimits
    BY <1>1, TrafficAssumption DEF OperationsIn, PathObj
  <1>4. LimitsOf(r, o) = Among(limits, some)
    BY <1>1 DEF LimitsOf, Tasks, PathObj
  <1>5. Among(limits, some) \in Seq(Limits \cap some) /\ Len(Among(limits, some)) <= Len(limits)
    <2> HIDE DEF limits, some
    <2> QED
      BY <1>2, AmongElements
  <1>6. Limits \cap some = some
    OBVIOUS
  <1>7. Len(Among(limits, some)) \in Nat /\ Len(limits) \in Nat /\ MaxLimits \in Nat
    BY <1>2, <1>5, TrafficAssumption
  <1> HIDE DEF limits, some
  <1>8. LimitsOf(r, o) \in Seq(some) /\ Len(LimitsOf(r, o)) <= MaxLimits
    BY <1>3, <1>4, <1>5, <1>6, <1>7
  <1> QED
    BY <1>4, <1>8 DEF limits, some, Tasks

LEMMA ConvertedTypes ==
  ASSUME LoadedInv, NEW r \in Requests, stage[r] \in Matched,
         NEW o \in OperationsIn(Apis[snapshot[r]])
  PROVE  /\ Convert(CurrentType(r, o), input[r].value) \in Converted
         /\ <<document[r], o>> \in Requests \X Operation
  <1>1. /\ Bounded(Apis[snapshot[r]]) /\ Loaded(r) = Apis[snapshot[r]]
        /\ document[r] \in Requests /\ input[r] \in Wishes
    BY CandidatesOf
  <1>2. PublishedType(r, o) \in Types
    BY <1>1, PathObjectFound DEF PublishedType, PathObj, PathObjects
  <1>3. CurrentType(r, o) \in Types /\ input[r].value \in Values
    BY <1>1, <1>2 DEF CurrentType, Types, Wishes
  <1> QED
    BY <1>1, <1>3 DEF Convert, Types, Values, Converted, OperationsIn

\* A request is at the same place, or not where operations and limits count.
LEMMA ChosenStays ==
  ASSUME ChosenInv, NEW r \in Requests, ChosenFits(r)',
         ContextTypeOK', operation' \in [Requests -> Operation \cup {None}],
         limit' \in [Requests -> 0..MaxLimits],
         \A y \in Requests \ {r} : /\ stage'[y] = stage[y] /\ snapshot'[y] = snapshot[y]
                                   /\ operation'[y] = operation[y] /\ limit'[y] = limit[y]
  PROVE  ChosenInv'
  <1>1. ASSUME NEW y \in Requests \ {r} PROVE ChosenFits(y)'
    <2>1. ChosenFits(y)
      BY DEF ChosenInv
    <2> QED
      BY <2>1 DEF ChosenFits
  <1> QED
    BY <1>1 DEF ChosenInv

LEMMA EnterChosen ==
  ASSUME LoadedInv, ContextTypeOK, stage \in [Requests -> Stages], NEW r \in Requests,
         NEW from \in Matched, stage[r] = from, NEW o \in OperationsIn(Apis[snapshot[r]]),
         EnterContext(r, from, o)
  PROVE  /\ api' \subseteq Requests /\ parameter' \in [Requests -> Converted \cup {None}]
         /\ stage'[r] # "limit" /\ \A y \in Requests \ {r} : stage'[y] = stage[y]
  <1>1. Convert(CurrentType(r, o), input[r].value) \in Converted
    BY ConvertedTypes
  <1>2. api' \subseteq Requests
    BY DEF EnterContext, ContextTypeOK
  <1>3. parameter' \in [Requests -> Converted \cup {None}]
    BY <1>1 DEF EnterContext, Parameters, SetParameter, ContextTypeOK, Converted
  <1>4. \E to \in {"sending", "array", "lost", "assembly"} : Step(r, from, to)
    BY EnterStage
  <1> QED
    BY <1>2, <1>3, <1>4 DEF Step

LEMMA PassedChosen ==
  ASSUME HeldInv, LoadedInv, ChosenInv, NEW r \in Requests, SecurityPassed(r)
  PROVE  ChosenInv'
  <1>1. PICK passed \in SUBSET Candidates(r) : \E o \in passed :
          /\ BuildPreflowContext(r, passed, o)
          /\ operation' = [operation EXCEPT ![r] = o]
          /\ IF IsPreflight(r, o) THEN Step(r, "security", "sending") /\ UNCHANGED <<api, parameter>>
             ELSE IF LimitsOf(r, o) # <<>>
             THEN Step(r, "security", "limit") /\ UNCHANGED <<api, parameter>>
             ELSE EnterContext(r, "security", o)
    BY DEF SecurityPassed
  <1>2. PICK o \in passed :
          /\ BuildPreflowContext(r, passed, o)
          /\ operation' = [operation EXCEPT ![r] = o]
          /\ IF IsPreflight(r, o) THEN Step(r, "security", "sending") /\ UNCHANGED <<api, parameter>>
             ELSE IF LimitsOf(r, o) # <<>>
             THEN Step(r, "security", "limit") /\ UNCHANGED <<api, parameter>>
             ELSE EnterContext(r, "security", o)
    BY <1>1
  <1>3. /\ stage[r] = "security" /\ stage[r] \in Matched /\ "security" \in Matched
        /\ limit' = [limit EXCEPT ![r] = 1] /\ UNCHANGED <<snapshot, retyped, document>>
    BY DEF SecurityPassed, Matched, loaderVars
  <1> DEFINE apis == Apis[snapshot[r]]
  <1>4. passed \subseteq OperationsIn(apis) /\ o \in OperationsIn(apis)
    BY <1>3, CandidatesIn
  <1>5. /\ Bounded(apis) /\ Loaded(r) = apis /\ document[r] \in Requests
    BY <1>3, CandidatesOf
  <1>6. plan' \in [Requests -> BOOLEAN \cup {None}] /\ spliced' \subseteq Requests \X (1..MaxApis)
    <2>1. Loaded(r)[o.api].unnamed \in BOOLEAN
      BY <1>4, <1>5, PathObjectFound DEF Entries
    <2>2. \A p \in passed : <<document[r], p.api>> \in Requests \X (1..MaxApis)
      BY <1>4, <1>5 DEF OperationsIn, Operation
    <2> QED
      BY <1>2, <2>1, <2>2 DEF BuildPreflowContext, ChosenInv, ContextTypeOK
  <1>7. /\ api' \subseteq Requests /\ parameter' \in [Requests -> Converted \cup {None}]
        /\ \A y \in Requests \ {r} : stage'[y] = stage[y]
        /\ stage'[r] = "limit" => LimitsOf(r, o) # <<>>
    <2>1. CASE EnterContext(r, "security", o)
      BY <1>3, <1>4, <2>1, EnterChosen DEF HeldInv, ChosenInv
    <2>2. CASE Step(r, "security", "sending") /\ UNCHANGED <<api, parameter>>
      BY <2>2 DEF Step, HeldInv, ChosenInv, ContextTypeOK
    <2>3. CASE Step(r, "security", "limit") /\ UNCHANGED <<api, parameter>> /\ LimitsOf(r, o) # <<>>
      BY <2>3 DEF Step, HeldInv, ChosenInv, ContextTypeOK
    <2> QED
      BY <1>2, <2>1, <2>2, <2>3
  <1>8. ContextTypeOK'
    BY <1>3, <1>6, <1>7 DEF ContextTypeOK, ChosenInv
  <1>9. operation' \in [Requests -> Operation \cup {None}] /\ operation'[r] = o
    BY <1>2, <1>4 DEF ChosenInv, OperationsIn
  <1>10. limit' \in [Requests -> 0..MaxLimits] /\ limit'[r] = 1
    BY <1>3, TrafficAssumption DEF ChosenInv
  <1>11. LimitsOf(r, o) # <<>> => 1 \in DOMAIN Tasks(PathObj(apis, o).limits)
    <2> DEFINE some == {l \in Limits : l.tokens > 0}
    <2>1. LimitsOf(r, o) = Tasks(PathObj(apis, o).limits) /\ LimitsOf(r, o) \in Seq(some)
      BY <1>3, <1>4, TasksOf
    <2> HIDE DEF some
    <2>2. LimitsOf(r, o) # <<>> => 1 \in DOMAIN LimitsOf(r, o)
      BY <2>1
    <2> QED
      BY <2>1, <2>2
  <1>12. ChosenFits(r)'
    BY <1>3, <1>4, <1>7, <1>9, <1>10, <1>11 DEF ChosenFits
  <1> QED
    BY <1>2, <1>3, <1>7, <1>8, <1>9, <1>10, <1>12, ChosenStays DEF ChosenInv

LEMMA RefusedChosen ==
  ASSUME HeldInv, LoadedInv, ChosenInv, NEW r \in Requests, SecurityRefused(r)
  PROVE  ChosenInv'
  <1>1. PICK passed \in SUBSET Candidates(r) :
          spliced' = spliced \cup {<<document[r], p.api>> : p \in passed}
    BY DEF SecurityRefused
  <1>2. /\ stage[r] \in Matched /\ Step(r, "security", "sending")
        /\ UNCHANGED <<snapshot, document, retyped, api, plan, parameter, operation, limit>>
    BY DEF SecurityRefused, Fail, Step, Matched, loaderVars
  <1>3. /\ \A p \in passed : <<document[r], p.api>> \in Requests \X (1..MaxApis)
    BY <1>2, CandidatesIn, CandidatesOf DEF OperationsIn, Operation
  <1>4. ContextTypeOK'
    BY <1>1, <1>2, <1>3 DEF ContextTypeOK, ChosenInv
  <1>5. stage'[r] = "sending" /\ \A y \in Requests \ {r} : stage'[y] = stage[y]
    BY <1>2 DEF Step, HeldInv
  <1>6. ChosenFits(r)'
    BY <1>5 DEF ChosenFits
  <1> QED
    BY <1>2, <1>4, <1>5, <1>6, ChosenStays DEF ChosenInv

LEMMA LimitChosen ==
  ASSUME HeldInv, LoadedInv, ChosenInv, NEW r \in Requests,
         LimitLocally(r) \/ LimitByRedis(r) \/ RedisFailed(r)
  PROVE  ChosenInv'
  <1> DEFINE o == operation[r]
  <1>1. /\ stage[r] = "limit" /\ stage[r] \in Matched /\ "limit" \in Matched
        /\ UNCHANGED <<snapshot, spliced, retyped, plan, operation>>
    BY DEF LimitLocally, LimitByRedis, RedisFailed, Fail, Step, Matched, loaderVars, contextVars
  <1>2. o \in OperationsIn(Apis[snapshot[r]])
    BY <1>1 DEF ChosenInv, ChosenFits
  <1>3. limit[r] \in DOMAIN LimitsOf(r, o) /\ limit[r] \in Nat /\ Len(LimitsOf(r, o)) <= MaxLimits
        /\ LimitsOf(r, o) = Tasks(PathObj(Apis[snapshot[r]], o).limits)
        /\ Len(LimitsOf(r, o)) \in Nat /\ MaxLimits \in Nat
    <2> DEFINE some == {l \in Limits : l.tokens > 0}
    <2>1. /\ LimitsOf(r, o) \in Seq(some) /\ Len(LimitsOf(r, o)) <= MaxLimits
          /\ LimitsOf(r, o) = Tasks(PathObj(Apis[snapshot[r]], o).limits)
      BY <1>1, <1>2, TasksOf
    <2>2. limit[r] \in DOMAIN Tasks(PathObj(Apis[snapshot[r]], o).limits)
      BY <1>1 DEF ChosenInv, ChosenFits
    <2>3. limit[r] \in Nat /\ MaxLimits \in Nat
      BY TrafficAssumption DEF ChosenInv
    <2> HIDE DEF some, o
    <2> QED
      BY <2>1, <2>2, <2>3
  <1>4. \/ /\ EnterContext(r, "limit", o) /\ UNCHANGED limit
        \/ /\ Step(r, "limit", "sending") /\ UNCHANGED <<api, parameter, limit>>
        \/ /\ Step(r, "limit", "limit") /\ limit[r] < Len(LimitsOf(r, o))
           /\ limit' = [limit EXCEPT ![r] = @ + 1] /\ UNCHANGED <<api, parameter>>
    BY DEF LimitLocally, LimitByRedis, RedisFailed, Fail, contextVars
  <1>5. CASE EnterContext(r, "limit", o) /\ UNCHANGED limit
    <2>1. /\ api' \subseteq Requests /\ parameter' \in [Requests -> Converted \cup {None}]
          /\ stage'[r] # "limit" /\ \A y \in Requests \ {r} : stage'[y] = stage[y]
      BY <1>1, <1>2, <1>5, EnterChosen DEF HeldInv, ChosenInv
    <2>2. ContextTypeOK' /\ ChosenFits(r)'
      BY <1>1, <1>2, <2>1 DEF ContextTypeOK, ChosenInv, ChosenFits
    <2> QED
      BY <1>1, <1>5, <2>1, <2>2, ChosenStays DEF ChosenInv
  <1>6. CASE Step(r, "limit", "sending") /\ UNCHANGED <<api, parameter, limit>>
    <2>1. stage'[r] = "sending" /\ \A y \in Requests \ {r} : stage'[y] = stage[y]
      BY <1>6 DEF Step, HeldInv
    <2>2. ContextTypeOK' /\ ChosenFits(r)'
      BY <1>1, <1>6, <2>1 DEF ContextTypeOK, ChosenInv, ChosenFits
    <2> QED
      BY <1>1, <1>6, <2>1, <2>2, ChosenStays DEF ChosenInv
  <1>7. CASE /\ Step(r, "limit", "limit") /\ limit[r] < Len(LimitsOf(r, o))
             /\ limit' = [limit EXCEPT ![r] = @ + 1] /\ UNCHANGED <<api, parameter>>
    <2>1. \A y \in Requests \ {r} : stage'[y] = stage[y]
      BY <1>7 DEF Step, HeldInv
    <2>2. limit'[r] = limit[r] + 1 /\ \A y \in Requests \ {r} : limit'[y] = limit[y]
      BY <1>7 DEF ChosenInv
    <2>3. limit[r] + 1 \in DOMAIN LimitsOf(r, o) /\ limit[r] + 1 \in 0..MaxLimits
      <3> DEFINE some == {l \in Limits : l.tokens > 0}
      <3>1. LimitsOf(r, o) \in Seq(some)
        BY <1>1, <1>2, TasksOf
      <3> HIDE DEF some, o
      <3>2. DOMAIN LimitsOf(r, o) = 1..Len(LimitsOf(r, o))
        BY <3>1
      <3> QED
        BY <1>3, <1>7, <3>2
    <2>4. limit' \in [Requests -> 0..MaxLimits]
      BY <1>7, <2>3 DEF ChosenInv
    <2>5. ContextTypeOK'
      BY <1>1, <1>7 DEF ContextTypeOK, ChosenInv
    <2>6. ChosenFits(r)'
      BY <1>1, <1>2, <1>3, <2>2, <2>3 DEF ChosenFits
    <2> QED
      BY <1>1, <2>1, <2>2, <2>4, <2>5, <2>6, ChosenStays DEF ChosenInv
  <1> QED
    BY <1>4, <1>5, <1>6, <1>7

LEMMA ArrayChosen ==
  ASSUME HeldInv, LoadedInv, ChosenInv, NEW r \in Requests, ArrayParsed(r) \/ ArrayRefused(r)
  PROVE  ChosenInv'
  <1> DEFINE o == operation[r]
  <1>1. /\ stage[r] = "array" /\ stage[r] \in Matched
        /\ UNCHANGED <<snapshot, spliced, api, plan, operation, limit>>
    BY DEF ArrayParsed, ArrayRefused, Parameters, Step, Matched, loaderVars
  <1>2. o \in OperationsIn(Apis[snapshot[r]])
    BY <1>1 DEF ChosenInv, ChosenFits
  <1>3. <<document[r], o>> \in Requests \X Operation
    BY <1>1, <1>2, ConvertedTypes
  <1>4. retyped' \subseteq Requests \X Operation
    BY <1>3 DEF ArrayParsed, ArrayRefused, Retype, ChosenInv, ContextTypeOK
  <1>5. parameter' \in [Requests -> Converted \cup {None}]
    BY DEF ArrayParsed, ArrayRefused, Parameters, SetParameter, ChosenInv, ContextTypeOK, Converted
  <1>6. /\ stage'[r] \in {"lost", "assembly"} /\ \A y \in Requests \ {r} : stage'[y] = stage[y]
    BY DEF ArrayParsed, ArrayRefused, Parameters, Step, HeldInv
  <1>7. ContextTypeOK' /\ ChosenFits(r)'
    BY <1>1, <1>4, <1>5, <1>6 DEF ContextTypeOK, ChosenInv, ChosenFits
  <1> QED
    BY <1>1, <1>6, <1>7, ChosenStays DEF ChosenInv

\* The other steps choose nothing, and lead elsewhere.
LEMMA OthersChosen ==
  ASSUME HeldInv, ChosenInv, NEW r \in Requests,
         \/ PayloadRefused(r) \/ PayloadRead(r) \/ SnapshotFailed(r) \/ SnapshotGiven(r)
         \/ BodyFailed(r) \/ BodyReceived(r) \/ Assembled(r) \/ Close(r) \/ Finish(r)
  PROVE  ChosenInv'
  <1>1. /\ UNCHANGED <<contextVars, operation, limit>>
        /\ \E from, to \in Stages : to \notin {"limit", "array"} /\ Step(r, from, to)
    BY DEF PayloadRefused, PayloadRead, SnapshotFailed, SnapshotGiven, BodyFailed, BodyReceived,
       Assembled, Close, Finish, Fail, Match, Stages
  <1>2. \A y \in Requests \ {r} : snapshot'[y] = snapshot[y]
    BY DEF PayloadRefused, PayloadRead, SnapshotFailed, SnapshotGiven, Hold, BodyFailed,
       BodyReceived, Assembled, Close, Finish, loaderVars, HeldInv
  <1>3. stage'[r] \notin {"limit", "array"} /\ \A y \in Requests \ {r} : stage'[y] = stage[y]
    BY <1>1 DEF Step, HeldInv
  <1>4. ContextTypeOK' /\ ChosenFits(r)'
    BY <1>1, <1>3 DEF ContextTypeOK, contextVars, ChosenInv, ChosenFits
  <1> QED
    BY <1>1, <1>2, <1>3, <1>4, ChosenStays DEF ChosenInv

LEMMA NextChosen == HeldInv /\ LoadedInv /\ ChosenInv /\ [Next]_vars => ChosenInv'
  <1> SUFFICES ASSUME HeldInv, LoadedInv, ChosenInv, [Next]_vars PROVE ChosenInv'
    OBVIOUS
  <1>1. CASE Aside \/ UNCHANGED vars \/ \E r \in Requests : Thrown(r)
    <2>1. UNCHANGED <<contextVars, operation, limit, stage, snapshot>>
      BY <1>1 DEF Aside, RedisLost, Upload, ShakeHands, Publish, EndInterval, vars, loaderVars,
         Thrown, BodyGarbled, ArrayEmpty
    <2>2. ContextTypeOK'
      BY <2>1 DEF ContextTypeOK, contextVars, ChosenInv
    <2>3. ASSUME NEW r \in Requests PROVE ChosenFits(r)'
      <3>1. ChosenFits(r)
        BY DEF ChosenInv
      <3> QED
        BY <2>1, <3>1 DEF ChosenFits
    <2> QED
      BY <2>1, <2>2, <2>3 DEF ChosenInv
  <1> QED
    BY <1>1, PassedChosen, RefusedChosen, LimitChosen, ArrayChosen, OthersChosen
       DEF Next, Aside, Serve, Thrown

LEMMA InitChosen == Init => ChosenInv
  <1> SUFFICES ASSUME Init PROVE ChosenInv
    OBVIOUS
  <1> QED
    BY TrafficAssumption DEF Init, ContextInit, ContextTypeOK, ChosenInv, ChosenFits

-----------------------------------------------------------------------------
(* What the limiters have counted and let go on. *)

\* A limiter that rejects has counted whatever it let go on.
KeptIn(st, s) ==
  /\ IsFiniteSet(st.counted[s])
  /\ st.limiters[s] = None => st.counted[s] = {} /\ st.admitted[s] = {}
  /\ st.limiters[s] # None /\ st.limiters[s].reject =>
       /\ st.admitted[s] \subseteq st.counted[s]
       /\ Cardinality(st.admitted[s]) <= st.limiters[s].tokens

\* What a limit starts from, and what it leads to, as it may be.
Kept == {st \in [limiters: [Scopes -> Limiters \cup {None}], counted: [Scopes -> SUBSET Requests],
                 admitted: [Scopes -> SUBSET Requests], proceeds: BOOLEAN] :
           \A s \in Scopes : KeptIn(st, s)}

\* The limits that limiters enforce.
Enforced == {l \in Limits : l.tokens > 0}

LimitInv == redis \in BOOLEAN /\ Begun \in Kept

LEMMA LimiterTypes ==
  ASSUME NEW st \in Kept, NEW l \in Enforced
  PROVE  /\ Limiter(st, l) \in Limiters /\ Limiter(st, l) # None
         /\ l.scope \in Scopes
         /\ st.limiters[l.scope] # None => Limiter(st, l) = st.limiters[l.scope]
  <1>1. l.scope \in Scopes /\ l.tokens \in 1..MaxTokens /\ l.reject \in BOOLEAN
    BY TrafficAssumption DEF Enforced, Limits
  <1>2. st.limiters[l.scope] \in Limiters \cup {None}
    BY <1>1 DEF Kept
  <1>3. Limiter(st, l) \in Limiters
    BY <1>1, <1>2 DEF Limiter, Limiters
  <1> QED
    BY <1>1, <1>3, LimitersNone DEF Limiter

\* One more request is counted by one limit.
LEMMA ChargeKept ==
  ASSUME NEW r \in Requests, NEW st \in Kept, NEW l \in Enforced
  PROVE  Charge(r, st, l) \in Kept
  <1> DEFINE s == l.scope
             limiter == Limiter(st, l)
             next == st.counted[s] \cup {r}
             exceeded == Cardinality(next) > limiter.tokens
             proceeds == ~(exceeded /\ limiter.reject)
             new == Charge(r, st, l)
  <1>1. limiter \in Limiters /\ limiter # None /\ s \in Scopes
        /\ (st.limiters[s] # None => limiter = st.limiters[s])
    BY LimiterTypes
  <1>2. CASE ~st.proceeds
    BY <1>2 DEF Charge
  <1>3. CASE st.proceeds
    <2>1. new = [limiters |-> [st.limiters EXCEPT ![s] = limiter],
                 counted  |-> [st.counted EXCEPT ![s] =
                                 IF redis \/ ~exceeded THEN @ \cup {r} ELSE @],
                 admitted |-> [st.admitted EXCEPT ![s] = IF proceeds THEN @ \cup {r} ELSE @],
                 proceeds |-> proceeds]
      BY <1>3 DEF Charge
    <2>2. /\ st.limiters \in [Scopes -> Limiters \cup {None}]
          /\ st.counted \in [Scopes -> SUBSET Requests]
          /\ st.admitted \in [Scopes -> SUBSET Requests]
          /\ \A x \in Scopes : KeptIn(st, x)
      BY DEF Kept
    <2> HIDE DEF new, limiter, exceeded, proceeds
    <2>3. proceeds \in BOOLEAN
      BY DEF proceeds
    <2> HIDE DEF s
    <2>4. new \in [limiters: [Scopes -> Limiters \cup {None}], counted: [Scopes -> SUBSET Requests],
                   admitted: [Scopes -> SUBSET Requests], proceeds: BOOLEAN]
      BY <1>1, <2>1, <2>2, <2>3
    <2>5. /\ new.limiters[s] = limiter
          /\ new.counted[s] = IF redis \/ ~exceeded THEN next ELSE st.counted[s]
          /\ new.admitted[s] = IF proceeds THEN st.admitted[s] \cup {r} ELSE st.admitted[s]
          /\ \A x \in Scopes \ {s} : /\ new.limiters[x] = st.limiters[x]
                                     /\ new.counted[x] = st.counted[x]
                                     /\ new.admitted[x] = st.admitted[x]
      BY <1>1, <2>1, <2>2
    <2>6. /\ IsFiniteSet(st.counted[s])
          /\ st.limiters[s] = None => st.counted[s] = {} /\ st.admitted[s] = {}
          /\ st.limiters[s] # None /\ st.limiters[s].reject =>
               /\ st.admitted[s] \subseteq st.counted[s]
               /\ Cardinality(st.admitted[s]) <= st.limiters[s].tokens
      BY <1>1, <2>2 DEF KeptIn
    <2>7. IsFiniteSet(next)
      BY <2>6, FS_AddElement
    <2>8. IsFiniteSet(new.counted[s])
      BY <2>5, <2>6, <2>7
    <2>9. ASSUME limiter.reject
          PROVE  /\ new.admitted[s] \subseteq new.counted[s]
                 /\ Cardinality(new.admitted[s]) <= limiter.tokens
      <3>1. limiter.tokens \in Nat \ {0}
        BY <1>1, TrafficAssumption DEF Limiters
      <3>2. /\ st.admitted[s] \subseteq st.counted[s]
            /\ Cardinality(st.admitted[s]) <= limiter.tokens
        <4>1. CASE st.limiters[s] = None
          BY <2>6, <3>1, <4>1, FS_EmptySet
        <4>2. CASE st.limiters[s] # None
          BY <1>1, <2>6, <2>9, <4>2
        <4> QED
          BY <4>1, <4>2
      <3>3. CASE exceeded
        <4>1. new.admitted[s] = st.admitted[s]
          BY <2>5, <2>9, <3>3 DEF proceeds
        <4> QED
          BY <2>5, <3>2, <4>1
      <3>4. CASE ~exceeded
        <4>1. new.admitted[s] \subseteq next /\ new.counted[s] = next
          BY <2>5, <3>2, <3>4
        <4>2. Cardinality(new.admitted[s]) <= Cardinality(next)
          BY <2>7, <4>1, FS_Subset
        <4>3. Cardinality(next) \in Nat /\ Cardinality(new.admitted[s]) \in Nat
          BY <2>7, <4>1, FS_CardinalityType, FS_Subset
        <4>4. Cardinality(next) <= limiter.tokens
          BY <3>1, <3>4, <4>3 DEF exceeded
        <4> QED
          BY <3>1, <4>1, <4>2, <4>3, <4>4
      <3> QED
        BY <3>3, <3>4
    <2>10. KeptIn(new, s)
      BY <1>1, <2>5, <2>8, <2>9 DEF KeptIn
    <2>11. \A x \in Scopes \ {s} : KeptIn(new, x)
      BY <2>2, <2>5 DEF KeptIn
    <2> QED
      BY <2>4, <2>10, <2>11 DEF Kept, new
  <1> QED
    BY <1>2, <1>3 DEF Kept

\* And by all limits of an operation.
LEMMA ChargedKept ==
  ASSUME LimitInv, NEW r \in Requests, NEW limits \in Seq(Enforced)
  PROVE  Charged(r, limits) \in Kept
  <1> DEFINE n == Len(limits)
             Op(st, l) == Charge(r, st, l)
             Fits(g) == g = [s \in SUBSET DOMAIN limits |->
                               IF s = {} THEN Begun ELSE Op(g[s \ {Max(s)}], limits[Max(s)])]
             it == CHOOSE g : Fits(g)
             F == [p \in Kept \X Enforced |-> Charge(r, p[1], p[2])]
  <1>1. Charged(r, limits) = it[DOMAIN limits]
    BY DEF Charged, FoldLeft, MapThenFoldSet
  <1>2. DOMAIN limits = 1..n /\ n \in Nat /\ \A k \in 1..n : limits[k] \in Enforced
    OBVIOUS
  <1>3. \A st \in Kept, l \in Enforced : Op(st, l) \in Kept
    BY ChargeKept
  <1>4. Begun \in Kept
    BY DEF LimitInv
  <1>5. F \in [Kept \X Enforced -> Kept] /\ \A st \in Kept, l \in Enforced : F[<<st, l>>] = Op(st, l)
    BY <1>3
  <1> HIDE DEF n, Op, F
  <1>6. PICK g \in [SUBSET (1..n) -> Kept] : IsFoldOf(Begun, F, limits, n, g)
    <2>1. \A k \in 1..n : limits[k] \in Enforced
      BY <1>2
    <2>2. n \in Nat /\ F \in [Kept \X Enforced -> Kept]
      BY <1>2, <1>5
    <2> QED
      BY <1>4, <2>1, <2>2, FoldOf, Zenon
  <1>7. \A s \in SUBSET (1..n) : s # {} => s \ {Max(s)} \in SUBSET (1..n) /\ Max(s) \in 1..n
    BY <1>2, MaxIn
  <1>8. \A s \in SUBSET (1..n) : s # {} => g[s] = Op(g[s \ {Max(s)}], limits[Max(s)])
    BY <1>2, <1>5, <1>6, <1>7 DEF IsFoldOf
  <1>9. Fits(g)
    BY <1>2, <1>6, <1>8 DEF IsFoldOf
  <1>10. Fits(it)
    <2> HIDE DEF Fits
    <2> QED
      BY <1>9
  <1> HIDE DEF it
  <1>11. it[{}] = Begun /\ \A s \in SUBSET (1..n) : s # {} =>
           it[s] = Op(it[s \ {Max(s)}], limits[Max(s)])
    BY <1>2, <1>10
  <1> HIDE DEF Fits
  <1>12. \A s \in SUBSET (1..n) : s # {} /\ it[s \ {Max(s)}] \in Kept =>
           it[s] = F[<<it[s \ {Max(s)}], limits[Max(s)]>>]
    BY <1>2, <1>5, <1>7, <1>11
  <1>13. Folds(Kept, F, Begun, limits, it[1..n])
    BY <1>4, <1>5, <1>11, <1>12, FoldValue DEF n
  <1>14. it[1..n] \in Kept
    <2>1. Len(limits) \in 0..Len(limits)
      OBVIOUS
    <2> QED
      BY <1>13, <2>1 DEF Folds
  <1> QED
    BY <1>1, <1>2, <1>14

\* What a fold leaves is what the next one starts from.
LEMMA TakeKept ==
  ASSUME NEW st \in Kept, Take(st), redis \in BOOLEAN, redis' = redis
  PROVE  LimitInv'
  <1> DEFINE new == [limiters |-> st.limiters, counted |-> st.counted,
                     admitted |-> st.admitted, proceeds |-> TRUE]
  <1>1. Begun' = new
    BY DEF Begun, Take
  <1>2. \A s \in Scopes : KeptIn(new, s)
    BY DEF Kept, KeptIn
  <1>3. new \in [limiters: [Scopes -> Limiters \cup {None}], counted: [Scopes -> SUBSET Requests],
                 admitted: [Scopes -> SUBSET Requests], proceeds: BOOLEAN]
    BY DEF Kept
  <1>4. new \in Kept
    <2> HIDE DEF new
    <2> QED
      BY <1>2, <1>3 DEF Kept
  <1> QED
    BY <1>1, <1>4 DEF LimitInv

\* The limits of the operation a request has come to are there to be enforced.
LEMMA LimitsEnforced ==
  ASSUME LoadedInv, ChosenInv, NEW r \in Requests, stage[r] = "limit"
  PROVE  /\ LimitsOf(r, operation[r]) \in Seq(Enforced)
         /\ LimitsOf(r, operation[r])[limit[r]] \in Enforced
  <1> DEFINE limits == LimitsOf(r, operation[r])
  <1>1. stage[r] \in Matched /\ operation[r] \in OperationsIn(Apis[snapshot[r]])
    BY DEF Matched, ChosenInv, ChosenFits
  <1>2. limits \in Seq(Enforced) /\ limits = Tasks(PathObj(Apis[snapshot[r]], operation[r]).limits)
    BY <1>1, TasksOf DEF Enforced
  <1>3. limit[r] \in DOMAIN limits
    BY <1>2 DEF ChosenInv, ChosenFits
  <1> HIDE DEF limits
  <1>4. limits[limit[r]] \in Enforced
    BY <1>2, <1>3, ElementIn
  <1> QED
    BY <1>2, <1>4 DEF limits

LEMMA RedisFailedKept ==
  ASSUME LoadedInv, ChosenInv, LimitInv, NEW r \in Requests, RedisFailed(r)
  PROVE  LimitInv'
  <1> DEFINE l == LimitsOf(r, operation[r])[limit[r]]
             s == l.scope
             new == [Begun EXCEPT !.limiters[s] = Limiter(Begun, l)]
  <1>1. l \in Enforced
    BY LimitsEnforced DEF RedisFailed, Fail, Step
  <1>2. /\ limiters' = [limiters EXCEPT ![s] = Limiter(Begun, l)]
        /\ UNCHANGED <<redis, counted, admitted>>
    BY DEF RedisFailed
  <1> HIDE DEF l
  <1>3. /\ Limiter(Begun, l) \in Limiters /\ Limiter(Begun, l) # None /\ s \in Scopes
        /\ limiters[s] # None => Limiter(Begun, l) = limiters[s]
    BY <1>1, LimiterTypes DEF LimitInv, Begun
  <1>4. /\ limiters \in [Scopes -> Limiters \cup {None}] /\ counted \in [Scopes -> SUBSET Requests]
        /\ admitted \in [Scopes -> SUBSET Requests] /\ \A x \in Scopes : KeptIn(Begun, x)
    BY DEF LimitInv, Kept, Begun
  <1>5. \A x \in Scopes : KeptIn(Begun', x)
    <2> SUFFICES ASSUME NEW x \in Scopes PROVE KeptIn(Begun', x)
      OBVIOUS
    <2>1. KeptIn(Begun, x)
      BY <1>4
    <2>2. CASE x # s
      BY <1>2, <1>4, <2>1, <2>2 DEF KeptIn, Begun
    <2>3. CASE x = s /\ limiters[s] # None
      BY <1>2, <1>3, <1>4, <2>1, <2>3 DEF KeptIn, Begun
    <2>4. CASE x = s /\ limiters[s] = None
      <3>1. counted[s] = {} /\ admitted[s] = {} /\ IsFiniteSet(counted[s])
        BY <2>1, <2>4 DEF KeptIn, Begun
      <3>2. Limiter(Begun, l).tokens \in Nat /\ Cardinality({}) = 0
        BY <1>3, TrafficAssumption, FS_EmptySet DEF Limiters
      <3>3. limiters'[s] = Limiter(Begun, l)
        BY <1>2, <1>3, <1>4
      <3> HIDE DEF s
      <3> QED
        BY <1>2, <1>3, <2>4, <3>1, <3>2, <3>3 DEF KeptIn, Begun
    <2> QED
      BY <2>2, <2>3, <2>4
  <1>6. Begun' \in [limiters: [Scopes -> Limiters \cup {None}], counted: [Scopes -> SUBSET Requests],
                    admitted: [Scopes -> SUBSET Requests], proceeds: BOOLEAN]
    BY <1>2, <1>3, <1>4 DEF Begun
  <1> QED
    BY <1>2, <1>5, <1>6 DEF LimitInv, Kept

LEMMA IntervalKept ==
  ASSUME LimitInv, NEW s \in Scopes, NewInterval(s)
  PROVE  LimitInv'
  <1>1. /\ counted' = [counted EXCEPT ![s] = {}] /\ admitted' = [admitted EXCEPT ![s] = {}]
        /\ UNCHANGED <<redis, limiters>>
    BY DEF NewInterval
  <1>2. /\ limiters \in [Scopes -> Limiters \cup {None}] /\ counted \in [Scopes -> SUBSET Requests]
        /\ admitted \in [Scopes -> SUBSET Requests] /\ \A x \in Scopes : KeptIn(Begun, x)
    BY DEF LimitInv, Kept, Begun
  <1>3. \A x \in Scopes : KeptIn(Begun', x)
    <2> SUFFICES ASSUME NEW x \in Scopes PROVE KeptIn(Begun', x)
      OBVIOUS
    <2>1. KeptIn(Begun, x)
      BY <1>2
    <2>2. CASE x # s
      BY <1>1, <1>2, <2>1, <2>2 DEF KeptIn, Begun
    <2>3. CASE x = s
      <3>1. counted'[s] = {} /\ admitted'[s] = {} /\ limiters'[s] = limiters[s]
        BY <1>1, <1>2
      <3>2. IsFiniteSet({}) /\ Cardinality({}) = 0
        BY FS_EmptySet
      <3>3. limiters[s] # None => limiters[s].tokens \in Nat
        BY <1>2, TrafficAssumption DEF Limiters
      <3> QED
        BY <2>3, <3>1, <3>2, <3>3 DEF KeptIn, Begun
    <2> QED
      BY <2>2, <2>3
  <1>4. Begun' \in [limiters: [Scopes -> Limiters \cup {None}], counted: [Scopes -> SUBSET Requests],
                    admitted: [Scopes -> SUBSET Requests], proceeds: BOOLEAN]
    BY <1>1, <1>2 DEF Begun
  <1> QED
    BY <1>1, <1>3, <1>4 DEF LimitInv, Kept

LEMMA NextKept == LoadedInv /\ ChosenInv /\ LimitInv /\ [Next]_vars => LimitInv'
  <1> SUFFICES ASSUME LoadedInv, ChosenInv, LimitInv, [Next]_vars PROVE LimitInv'
    OBVIOUS
  <1>1. ASSUME UNCHANGED limitVars PROVE LimitInv'
    BY <1>1 DEF limitVars, LimitInv, Begun
  <1>2. ASSUME NEW r \in Requests, LimitLocally(r) PROVE LimitInv'
    <2>1. /\ stage[r] = "limit" /\ redis' = redis /\ redis \in BOOLEAN
          /\ Take(Charged(r, LimitsOf(r, operation[r])))
      BY <1>2 DEF LimitLocally, LimitInv
    <2> QED
      BY <2>1, LimitsEnforced, ChargedKept, TakeKept
  <1>3. ASSUME NEW r \in Requests, LimitByRedis(r) PROVE LimitInv'
    <2>1. /\ stage[r] = "limit" /\ redis' = redis /\ redis \in BOOLEAN /\ Begun \in Kept
          /\ Take(Charge(r, Begun, LimitsOf(r, operation[r])[limit[r]]))
      BY <1>3 DEF LimitByRedis, LimitInv
    <2> QED
      BY <2>1, LimitsEnforced, ChargeKept, TakeKept
  <1>4. CASE UNCHANGED vars \/ RedisLost \/ Upload \/ ShakeHands \/ Publish
    BY <1>1, <1>4 DEF vars, RedisLost, Upload, ShakeHands, Publish
  <1>5. CASE EndInterval
    BY <1>5, IntervalKept DEF EndInterval
  <1>6. ASSUME NEW r \in Requests, Serve(r), ~LimitLocally(r), ~LimitByRedis(r), ~RedisFailed(r)
        PROVE  UNCHANGED limitVars
    BY <1>6 DEF Serve, PayloadRefused, PayloadRead, SnapshotFailed, SnapshotGiven, BodyGarbled,
       BodyFailed, BodyReceived, SecurityRefused, SecurityPassed, ArrayParsed, ArrayRefused, ArrayEmpty,
       Assembled, Close, Finish
  <1> QED
    BY <1>1, <1>2, <1>3, <1>4, <1>5, <1>6, RedisFailedKept DEF Next

LEMMA InitKept == Init => LimitInv
  <1> SUFFICES ASSUME Init PROVE LimitInv
    OBVIOUS
  <1>1. LimitInit /\ redis \in BOOLEAN
    BY DeploymentsAssumption DEF Init
  <1>2. IsFiniteSet({})
    BY FS_EmptySet
  <1>3. \A s \in Scopes : KeptIn(Begun, s)
    BY <1>1, <1>2 DEF LimitInit, KeptIn, Begun
  <1>4. Begun \in [limiters: [Scopes -> Limiters \cup {None}], counted: [Scopes -> SUBSET Requests],
                   admitted: [Scopes -> SUBSET Requests], proceeds: BOOLEAN]
    BY <1>1 DEF LimitInit, Begun
  <1> QED
    BY <1>1, <1>3, <1>4 DEF LimitInv, Kept

\* Snapshots are held by those on their way, the cache and the documents are as loaded,
\* an operation is a candidate of its request, and limiters account for whom they let
\* go on: together, what every step preserves (lib/microgw.js).
THEOREM GatewayInductive == Spec => [](HeldInv /\ LoadedInv /\ ChosenInv /\ LimitInv)
  <1>1. Init => HeldInv /\ LoadedInv /\ ChosenInv /\ LimitInv
    BY InitHolds, InitLoaded, InitChosen, InitKept
  <1>2. HeldInv /\ LoadedInv /\ ChosenInv /\ LimitInv /\ [Next]_vars =>
          (HeldInv /\ LoadedInv /\ ChosenInv /\ LimitInv)'
    BY NextHolds, NextLoaded, NextChosen, NextKept
  <1> QED
    BY <1>1, <1>2, PTL DEF Spec

\* In an interval, a limiter that rejects lets go on no more requests than it has
\* tokens, in the process and in Redis, however the limits of a request are chained
\* and whenever Redis fails (lib/rate-limit/index.js:31-80).
THEOREM LimitsKeptHolds == Spec => []LimitsKept
  <1>1. LimitInv => LimitsKept
    BY DEF LimitInv, Kept, KeptIn, Begun, LimitsKept
  <1> QED
    BY <1>1, GatewayInductive, PTL

-----------------------------------------------------------------------------
(* The queue of events, and the types of everything. *)

\* The inductive invariant of the queue.
QueueInv == AnalyticsTypeOK /\ EventsAccounted

LEMMA QueueListed ==
  ASSUME NEW seq \in Seq(Requests)
  PROVE  ToSet(seq) \subseteq Requests
  BY DEF ToSet

\* A batch of events not uploaded before.
LEMMA BatchQueued ==
  ASSUME QueueInv, NEW q \in Seq(Requests), BatchPublish(q),
         \A r \in ToSet(q) : uploads[r] = 0
  PROVE  /\ queue' = <<>> /\ timer' \in BOOLEAN /\ uploads' \in [Requests -> 0..1]
         /\ \A r \in Requests : uploads'[r] = IF r \in ToSet(q) THEN 1 ELSE uploads[r]
  <1>1. \A r \in Requests : r \in ToSet(q) <=> \E i \in DOMAIN q : q[i] = r
    BY DEF ToSet
  <1>2. uploads' = [r \in Requests |-> uploads[r] + (IF r \in ToSet(q) THEN 1 ELSE 0)]
    BY <1>1 DEF BatchPublish
  <1>3. uploads \in [Requests -> 0..1]
    BY DEF QueueInv, AnalyticsTypeOK
  <1>4. ASSUME NEW r \in Requests
        PROVE  uploads'[r] = (IF r \in ToSet(q) THEN 1 ELSE uploads[r]) /\ uploads'[r] \in 0..1
    <2>1. uploads'[r] = IF r \in ToSet(q) THEN uploads[r] + 1 ELSE uploads[r] + 0
      BY <1>2
    <2>2. uploads[r] \in 0..1 /\ (r \in ToSet(q) => uploads[r] = 0)
      BY <1>3
    <2> QED
      BY <2>1, <2>2
  <1>5. uploads' \in [Requests -> 0..1]
    BY <1>2, <1>4
  <1> QED
    BY <1>4, <1>5 DEF BatchPublish

\* A step of a request whose event is not processed, and need not be.
LEMMA StepQueued ==
  ASSUME QueueInv, HeldInv, NEW r \in Requests, NEW from \in Stages \ {"finished"}, NEW to \in Stages,
         Step(r, from, to), UNCHANGED <<queue, timer, uploads, handshaken>>,
         captured' \subseteq Requests,
         \A y \in Requests \ {r} : y \in captured' \cap api' <=> y \in captured \cap api,
         to = "finished" => r \notin captured' \cap api'
  PROVE  QueueInv'
  <1>1. /\ stage[r] # "finished" /\ stage'[r] = to
        /\ \A y \in Requests \ {r} : stage'[y] = stage[y]
    BY DEF Step, HeldInv
  <1>2. AnalyticsTypeOK'
    BY DEF QueueInv, AnalyticsTypeOK
  <1>3. ToSet(queue)' = ToSet(queue)
    OBVIOUS
  <1>4. \A y \in Requests :
          stage'[y] = "finished" /\ y \in captured' \cap api'
            <=> stage[y] = "finished" /\ y \in captured \cap api
    BY <1>1
  <1> QED
    BY <1>2, <1>3, <1>4 DEF QueueInv, EventsAccounted

\* The event of a request that finishes.
LEMMA ProcessQueued ==
  ASSUME QueueInv, HeldInv, NEW r \in captured \cap api, Step(r, "sending", "finished"),
         Process(r), UNCHANGED contextVars
  PROVE  QueueInv'
  <1> DEFINE q == Append(queue, r)
  <1>1. /\ queue \in Seq(Requests) /\ uploads \in [Requests -> 0..1] /\ Len(queue) \in Nat
        /\ BatchSize \in Nat \ {0} /\ timer \in BOOLEAN /\ captured \subseteq Requests
        /\ r \in Requests
    BY BatchAssumption DEF QueueInv, AnalyticsTypeOK
  <1>2. /\ stage[r] = "sending" /\ stage'[r] = "finished"
        /\ \A y \in Requests \ {r} : stage'[y] = stage[y]
    BY <1>1 DEF Step, HeldInv
  <1>3. q \in Seq(Requests) /\ ToSet(q) = ToSet(queue) \cup {r} /\ Len(q) = Len(queue) + 1
    BY <1>1, ToSetAppended
  <1>4. UNCHANGED <<handshaken, captured, api>>
    BY DEF Process, contextVars
  <1>5. r \notin ToSet(queue) /\ uploads[r] = 0
    BY <1>1, <1>2 DEF QueueInv, EventsAccounted
  <1>6. \A y \in Requests :
          IF stage'[y] = "finished" /\ y \in captured' \cap api'
          THEN y \in ToSet(q) <=> uploads[y] = 0
          ELSE y \notin ToSet(q) /\ uploads[y] = 0
    BY <1>2, <1>3, <1>4, <1>5 DEF QueueInv, EventsAccounted
  <1>7. \A y \in ToSet(q) : uploads[y] = 0
    <2>1. ToSet(q) \subseteq Requests
      BY <1>3, QueueListed
    <2> QED
      BY <1>6, <2>1
  <1>8. CASE Len(queue) + 1 >= BatchSize
    <2>1. BatchPublish(q)
      BY <1>8 DEF Process
    <2> HIDE DEF q
    <2>2. /\ queue' = <<>> /\ timer' \in BOOLEAN /\ uploads' \in [Requests -> 0..1]
          /\ \A y \in Requests : uploads'[y] = IF y \in ToSet(q) THEN 1 ELSE uploads[y]
      BY <1>3, <1>7, <2>1, BatchQueued
    <2>3. ToSet(queue)' = {} /\ Len(queue') < BatchSize /\ queue' \in Seq(Requests)
      BY <1>1, <2>2 DEF ToSet
    <2>4. AnalyticsTypeOK'
      <3>1. captured' \subseteq Requests /\ handshaken' \in BOOLEAN
        BY <1>4 DEF QueueInv, AnalyticsTypeOK
      <3> QED
        BY <2>2, <2>3, <3>1 DEF AnalyticsTypeOK
    <2>5. ASSUME NEW y \in Requests
          PROVE  IF stage'[y] = "finished" /\ y \in captured' \cap api'
                 THEN y \in ToSet(queue)' <=> uploads'[y] = 0
                 ELSE y \notin ToSet(queue)' /\ uploads'[y] = 0
      BY <1>6, <2>2, <2>3
    <2>6. EventsAccounted'
      BY <2>2, <2>5 DEF EventsAccounted
    <2> QED
      BY <2>4, <2>6 DEF QueueInv
  <1>9. CASE ~(Len(queue) + 1 >= BatchSize)
    <2>1. queue' = q /\ timer' = TRUE /\ uploads' = uploads
      BY <1>9 DEF Process, StartTimer
    <2> HIDE DEF q
    <2>2. ToSet(queue)' = ToSet(q) /\ Len(queue') < BatchSize
      BY <1>1, <1>3, <1>9, <2>1
    <2>3. AnalyticsTypeOK'
      <3>1. captured' \subseteq Requests /\ handshaken' \in BOOLEAN
        BY <1>4 DEF QueueInv, AnalyticsTypeOK
      <3>2. queue' \in Seq(Requests) /\ uploads' \in [Requests -> 0..1] /\ timer' \in BOOLEAN
        BY <1>1, <1>3, <2>1
      <3> QED
        BY <2>2, <3>1, <3>2 DEF AnalyticsTypeOK
    <2>4. EventsAccounted'
      BY <1>6, <2>1, <2>2 DEF EventsAccounted
    <2> QED
      BY <2>3, <2>4 DEF QueueInv
  <1> QED
    BY <1>8, <1>9

LEMMA FinishQueued ==
  ASSUME QueueInv, HeldInv, NEW r \in Requests, Finish(r)
  PROVE  QueueInv'
  <1>1. Step(r, "sending", "finished") /\ UNCHANGED contextVars
    BY DEF Finish
  <1>2. CASE r \in captured /\ r \in api
    BY <1>1, <1>2, ProcessQueued DEF Finish
  <1>3. CASE ~(r \in captured /\ r \in api)
    <2>1. UNCHANGED analyticsVars
      BY <1>3 DEF Finish
    <2>2. captured' = captured /\ api' = api /\ captured \subseteq Requests
      BY <1>1, <2>1 DEF analyticsVars, contextVars, QueueInv, AnalyticsTypeOK
    <2>3. UNCHANGED <<queue, timer, uploads, handshaken>>
      BY <2>1 DEF analyticsVars
    <2> QED
      BY <1>1, <1>3, <2>2, <2>3, StepQueued DEF Stages
  <1> QED
    BY <1>2, <1>3

LEMMA AsideQueued ==
  ASSUME QueueInv, Aside \/ UNCHANGED vars \/ \E r \in Requests : Thrown(r)
  PROVE  QueueInv'
  <1>1. UNCHANGED <<stage, captured, api>>
    BY DEF Aside, RedisLost, Upload, PushTimer, ShakeHands, Handshake, Publish, EndInterval,
       NewInterval, vars, analyticsVars, contextVars, Thrown, BodyGarbled, ArrayEmpty
  <1>2. CASE Upload
    <2>1. /\ BatchPublish(queue) /\ queue \in Seq(Requests) /\ BatchSize \in Nat \ {0}
          /\ UNCHANGED handshaken
      BY <1>2, BatchAssumption DEF Upload, PushTimer, QueueInv, AnalyticsTypeOK
    <2>2. \A y \in ToSet(queue) : uploads[y] = 0
      BY <2>1, QueueListed DEF QueueInv, EventsAccounted
    <2>3. /\ queue' = <<>> /\ timer' \in BOOLEAN /\ uploads' \in [Requests -> 0..1]
          /\ \A y \in Requests : uploads'[y] = IF y \in ToSet(queue) THEN 1 ELSE uploads[y]
      BY <2>1, <2>2, BatchQueued
    <2>4. ToSet(queue)' = {} /\ Len(queue') < BatchSize /\ queue' \in Seq(Requests)
      BY <2>1, <2>3 DEF ToSet
    <2>5. AnalyticsTypeOK'
      BY <1>1, <2>1, <2>3, <2>4 DEF QueueInv, AnalyticsTypeOK
    <2>6. ASSUME NEW y \in Requests
          PROVE  IF stage'[y] = "finished" /\ y \in captured' \cap api'
                 THEN y \in ToSet(queue)' <=> uploads'[y] = 0
                 ELSE y \notin ToSet(queue)' /\ uploads'[y] = 0
      BY <1>1, <2>3, <2>4 DEF QueueInv, EventsAccounted
    <2>7. EventsAccounted'
      BY <2>3, <2>6 DEF EventsAccounted
    <2> QED
      BY <2>5, <2>7 DEF QueueInv
  <1>3. CASE ~Upload
    <2>1. UNCHANGED <<queue, timer, uploads>> /\ handshaken' \in BOOLEAN
      BY <1>3 DEF Aside, RedisLost, ShakeHands, Handshake, Publish, EndInterval, vars, analyticsVars,
         Thrown, BodyGarbled, ArrayEmpty, QueueInv, AnalyticsTypeOK
    <2>2. AnalyticsTypeOK' /\ ToSet(queue)' = ToSet(queue)
      BY <1>1, <2>1 DEF QueueInv, AnalyticsTypeOK
    <2> QED
      BY <1>1, <2>1, <2>2 DEF QueueInv, EventsAccounted
  <1> QED
    BY <1>2, <1>3

\* A request gets an API by its own steps only.
LEMMA ServeBehind ==
  ASSUME NEW r \in Requests, Serve(r)
  PROVE  \A y \in Requests \ {r} : y \in api' <=> y \in api
  <1>1. CASE \/ PayloadRefused(r) \/ PayloadRead(r) \/ SnapshotFailed(r) \/ SnapshotGiven(r)
             \/ BodyGarbled(r) \/ BodyFailed(r) \/ BodyReceived(r)
             \/ RedisFailed(r) \/ ArrayEmpty(r) \/ Assembled(r) \/ Close(r) \/ Finish(r)
    BY <1>1 DEF PayloadRefused, PayloadRead, SnapshotFailed, SnapshotGiven, BodyGarbled, BodyFailed,
       BodyReceived, RedisFailed, ArrayEmpty, Assembled, Close, Finish, contextVars
  <1>2. CASE SecurityRefused(r) \/ ArrayParsed(r) \/ ArrayRefused(r)
    BY <1>2 DEF SecurityRefused, ArrayParsed, ArrayRefused
  <1>3. ASSUME NEW o, NEW from, EnterContext(r, from, o)
        PROVE  \A y \in Requests \ {r} : y \in api' <=> y \in api
    BY <1>3 DEF EnterContext
  <1>4. CASE SecurityPassed(r)
    <2>1. PICK o : UNCHANGED api \/ EnterContext(r, "security", o)
      BY <1>4 DEF SecurityPassed
    <2> QED
      BY <1>3, <2>1
  <1>5. CASE LimitByRedis(r) \/ LimitLocally(r)
    <2>1. UNCHANGED api \/ EnterContext(r, "limit", operation[r])
      BY <1>5 DEF LimitByRedis, LimitLocally
    <2> QED
      BY <1>3, <2>1
  <1> QED
    BY <1>1, <1>2, <1>4, <1>5 DEF Serve

LEMMA ServeQueued ==
  ASSUME QueueInv, HeldInv, NEW r \in Requests, Serve(r), ~Finish(r), ~Thrown(r)
  PROVE  QueueInv'
  <1>1. /\ UNCHANGED <<queue, timer, uploads, handshaken>> /\ captured' \subseteq Requests
        /\ \A y \in Requests \ {r} : y \in captured' <=> y \in captured
    <2>1. captured \subseteq Requests
      BY DEF QueueInv, AnalyticsTypeOK
    <2>2. CASE PayloadRead(r)
      BY <2>1, <2>2 DEF PayloadRead, Capture
    <2>3. CASE ~PayloadRead(r)
      <3>1. UNCHANGED analyticsVars
        BY <2>3 DEF Serve, PayloadRefused, SnapshotFailed, SnapshotGiven, BodyFailed, BodyReceived,
           SecurityRefused, SecurityPassed, RedisFailed, LimitByRedis, LimitLocally, ArrayParsed,
           ArrayRefused, Thrown, Assembled, Close
      <3> QED
        BY <2>1, <3>1 DEF analyticsVars
    <2> QED
      BY <2>2, <2>3
  <1>2. \E from \in Stages \ {"finished"}, to \in Stages \ {"finished"} : Step(r, from, to)
    <2>1. CASE PayloadRead(r)
      BY <2>1 DEF PayloadRead, Stages
    <2>2. CASE SnapshotGiven(r)
      BY <2>2 DEF SnapshotGiven, Match, Stages
    <2>3. CASE ~PayloadRead(r) /\ ~SnapshotGiven(r)
      BY <2>3, ServeSteps DEF OnTheWay
    <2> QED
      BY <2>1, <2>2, <2>3
  <1> QED
    BY <1>1, <1>2, ServeBehind, StepQueued

LEMMA NextQueued == HeldInv /\ QueueInv /\ [Next]_vars => QueueInv'
  BY AsideQueued, FinishQueued, ServeQueued DEF Next, Aside

LEMMA InitQueued == Init => QueueInv
  <1> SUFFICES ASSUME Init PROVE QueueInv
    OBVIOUS
  <1>1. /\ handshaken = FALSE /\ captured = {} /\ queue = <<>> /\ timer = FALSE
        /\ uploads = [r \in Requests |-> 0]
    BY DEF Init, AnalyticsInit
  <1>2. ToSet(queue) = {} /\ queue \in Seq(Requests) /\ Len(queue) < BatchSize
    BY <1>1, BatchAssumption DEF ToSet
  <1>3. AnalyticsTypeOK
    <2>1. uploads \in [Requests -> 0..1]
      BY <1>1
    <2>2. handshaken \in BOOLEAN /\ timer \in BOOLEAN /\ captured \subseteq Requests
      BY <1>1
    <2> QED
      BY <1>2, <2>1, <2>2 DEF AnalyticsTypeOK
  <1>4. \A r \in Requests : uploads[r] = 0
    BY <1>1
  <1> QED
    BY <1>1, <1>2, <1>3, <1>4 DEF QueueInv, EventsAccounted

\* The event of a request that finishes behind an API, while its finish event is
\* listened to, is queued or uploaded, once, and no other event is; a queue that is not
\* empty has its timer (lib/analytics.js:163-216).
THEOREM EventsAccountedHolds == Spec => []EventsAccounted
  <1>1. Init => HeldInv /\ QueueInv
    BY InitHolds, InitQueued
  <1>2. HeldInv /\ QueueInv /\ [Next]_vars => (HeldInv /\ QueueInv)'
    BY NextHolds, NextQueued
  <1>3. QueueInv => EventsAccounted
    BY DEF QueueInv
  <1> QED
    BY <1>1, <1>2, <1>3, PTL DEF Spec

LEMMA CrashTypes == crashed \in BOOLEAN /\ [Next]_vars => crashed' \in BOOLEAN
  <1>1. ASSUME NEW r \in Requests, Serve(r), ~Thrown(r) PROVE UNCHANGED crashed
    <2>1. CASE Finish(r) \/ PayloadRead(r) \/ SnapshotGiven(r)
      BY <2>1 DEF Finish, PayloadRead, SnapshotGiven, Match, Step
    <2>2. CASE ~Finish(r) /\ ~PayloadRead(r) /\ ~SnapshotGiven(r)
      BY <1>1, <2>2, ServeSteps DEF Step
    <2> QED
      BY <2>1, <2>2
  <1> QED
    BY <1>1 DEF Next, Thrown, BodyGarbled, ArrayEmpty, RedisLost, Upload, ShakeHands, Publish,
       EndInterval, vars

\* Every variable of the gateway has its type: at most MaxBodies bodies are kept,
\* fewer than BatchSize events are queued, and no event is uploaded twice.
THEOREM GatewayTypeCorrect == Spec => []TypeOK
  <1> DEFINE TInv == QueueInv /\ crashed \in BOOLEAN
             All == HeldInv /\ LoadedInv /\ ChosenInv /\ LimitInv
  <1>1. Init => TInv
    BY InitQueued DEF Init
  <1>2. All /\ TInv /\ [Next]_vars => TInv'
    BY NextQueued, CrashTypes
  <1>3. All /\ TInv => TypeOK
    <2> SUFFICES ASSUME All, TInv PROVE TypeOK
      OBVIOUS
    <2>1. LoaderTypeOK /\ ContextTypeOK /\ AnalyticsTypeOK /\ input \in Inputs
      BY DEF LoadedInv, ChosenInv, QueueInv
    <2>2. LimitTypeOK
      BY DEF LimitInv, Kept, Begun, LimitTypeOK
    <2> QED
      BY <2>1, <2>2 DEF HeldInv, ChosenInv, TypeOK
  <1>4. Spec => []All
    BY GatewayInductive
  <1> HIDE DEF TInv, All
  <1> QED
    BY <1>1, <1>2, <1>3, <1>4, PTL DEF Spec
=============================================================================
