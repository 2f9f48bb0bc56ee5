----------------------------- MODULE ApiLoader -----------------------------
(***************************************************************************)
(* The api-loader middleware: a request holds the current snapshot of the  *)
(* datastore from the moment it is given it until its response has been    *)
(* sent, and reads the APIs of that snapshot through two caches.  The LRU  *)
(* cache keeps response bodies, which every request parses for itself; the *)
(* other one keeps what a request has parsed, for others to share.         *)
(***************************************************************************)
EXTENDS Traffic, Selection

CONSTANT MaxBodies  \* optimizedDataCache holds at most as many bodies

VARIABLES
  useCache,     \* DATASTORE_USE_LOCAL_CACHE
  current,      \* the datastore's current snapshot
  holders,      \* the datastore's references to each snapshot
  snapshot,     \* the snapshot each request was given
  bodies,       \* optimizedDataCache, what was used last in front
  cache,        \* the request whose parsed document is cached, of each snapshot
  document,     \* the request that parsed the document each request uses
  parsed        \* the body each request parsed

loaderVars == <<useCache, current, holders, snapshot, bodies, cache, document, parsed>>

\* A body is what the datastore answers of a snapshot: its APIs, or JSON that is no
\* list of APIs, an error whose status nobody looks at.
Bodies == [of: Snapshots, apis: BOOLEAN]

ASSUME BodiesAssumption == MaxBodies \in Nat \ {0} /\ None \notin Bodies

LoaderTypeOK ==
  /\ useCache \in BOOLEAN
  /\ current \in Snapshots
  /\ holders \in [Snapshots -> SUBSET Requests]
  /\ snapshot \in [Requests -> Snapshots \cup {None}]
  /\ bodies \in Seq([id: Snapshots, body: Bodies]) /\ Len(bodies) <= MaxBodies
  /\ cache \in [Snapshots -> Requests \cup {None}]
  /\ document \in [Requests -> Requests \cup {None}]
  /\ parsed \in [Requests -> Bodies \cup {None}]

LoaderInit ==
  /\ current \in Snapshots /\ \A s \in Snapshots : current <= s
  /\ holders = [s \in Snapshots |-> {}]
  /\ snapshot = [r \in Requests |-> None]
  /\ bodies = <<>>
  /\ cache = [s \in Snapshots |-> None]
  /\ document = [r \in Requests |-> None]
  /\ parsed = [r \in Requests |-> None]

-----------------------------------------------------------------------------
\* getCurrentSnapshot answers.
Hold(r) ==
  /\ snapshot' = [snapshot EXCEPT ![r] = current]
  /\ holders' = [holders EXCEPT ![current] = @ \cup {r}]

\* Seeded fault, no part of the specification: the current snapshot is released
\* instead of the one the request was given.
FaultyRelease(r) == holders' = [holders EXCEPT ![current] = @ \ {r}]

\* The listener of the response's finish event, if the request has set it.
Release(r) ==
  holders' = [s \in Snapshots |-> IF s = snapshot[r] THEN holders[s] \ {r} ELSE holders[s]]

CachedBodies(s) == {i \in DOMAIN bodies : bodies[i].id = s}

\* Seeded fault, no part of the specification: room is made for the new entry only
\* when there are too many already.
FaultyLruSet(s, body) ==
  LET others == Among(bodies, [id: Snapshots \ {s}, body: Bodies])
  IN <<[id |-> s, body |-> body]>> \o others

\* The entry of s in front, and as many others as the cache may hold.
LruSet(s, body) ==
  LET others == Among(bodies, [id: Snapshots \ {s}, body: Bodies])
  IN <<[id |-> s, body |-> body]>>
     \o SubSeq(others, 1, IF Len(others) < MaxBodies THEN Len(others) ELSE MaxBodies - 1)

\* Seeded fault, no part of the specification: a parsed document that is shared
\* wherever there is one.
FaultyCacheHit(s) == cache[s] # None

CacheHit(s) == useCache /\ cache[s] # None

\* doOptimizedDataRequest finds s in a cache.
Cached(s) == CacheHit(s) \/ CachedBodies(s) # {}

TakeCached(r, s) ==
  IF CacheHit(s)
  THEN document' = [document EXCEPT ![r] = cache[s]] /\ UNCHANGED <<bodies, parsed>>
  ELSE LET body == bodies[CHOOSE i \in CachedBodies(s) : TRUE].body
       IN /\ document' = [document EXCEPT ![r] = r]
          /\ parsed' = [parsed EXCEPT ![r] = body]
          /\ bodies' = LruSet(s, body)

\* Seeded fault, no part of the specification: the body is kept for the snapshot
\* that is current when it arrives.
FaultyTakeBody(r, body) ==
  /\ bodies' = LruSet(current, body)
  /\ parsed' = [parsed EXCEPT ![r] = body]
  /\ cache' = [cache EXCEPT ![current] = r]
  /\ document' = [document EXCEPT ![r] = r]

\* The response of the datastore.  What is parsed becomes the cached document.
TakeBody(r, body) ==
  /\ bodies' = LruSet(snapshot[r], body)
  /\ parsed' = [parsed EXCEPT ![r] = body]
  /\ cache' = [cache EXCEPT ![snapshot[r]] = r]
  /\ document' = [document EXCEPT ![r] = r]

\* The body that the document of a request was parsed from, by whichever request.
BodyOf(r) == parsed[document[r]]

\* The APIs that a request has loaded.
Loaded(r) == IF BodyOf(r).apis THEN OptimizedData[BodyOf(r).of] ELSE <<>>
=============================================================================
