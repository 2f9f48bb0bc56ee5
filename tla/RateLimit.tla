----------------------------- MODULE RateLimit -----------------------------
(***************************************************************************)
(* The rate-limit middleware: a request is counted by each limit of its    *)
(* operation in turn.  The limiter of a scope is created when a request    *)
(* first meets it and kept as it is.  Limiters count in the process or in  *)
(* Redis (policies/rate-limiting).                                         *)
(***************************************************************************)
EXTENDS Traffic, FiniteSets, Selection

VARIABLES
  redis,      \* RATELIMIT_REDIS
  limiters,   \* rateLimiterCache
  counted,    \* the requests each scope has counted in its current interval
  admitted    \* those of them, and others, its limiter has let go on

limitVars == <<redis, limiters, counted, admitted>>

Limiters == [tokens: 1..MaxTokens, reject: BOOLEAN]

ASSUME LimitersNone == None \notin Limiters

LimitTypeOK ==
  /\ redis \in BOOLEAN
  /\ limiters \in [Scopes -> Limiters \cup {None}]
  /\ counted \in [Scopes -> SUBSET Requests]
  /\ admitted \in [Scopes -> SUBSET Requests]

LimitInit ==
  /\ limiters = [s \in Scopes |-> None]
  /\ counted = [s \in Scopes |-> {}]
  /\ admitted = [s \in Scopes |-> {}]

-----------------------------------------------------------------------------
\* The limits that are not UNLIMITED.
Tasks(limits) == Among(limits, {l \in Limits : l.tokens > 0})

Limiter(st, limit) ==
  IF st.limiters[limit.scope] = None
  THEN [tokens |-> limit.tokens, reject |-> limit.reject]
  ELSE st.limiters[limit.scope]

\* Seeded fault, no part of the specification: the limiter is not kept, and the
\* next request meets a new one.
FaultyCharge(r, st, limit) ==
  LET s == limit.scope
      limiter == Limiter(st, limit)
  IN IF ~st.proceeds THEN st
     ELSE [st EXCEPT !.limiters[s] = limiter, !.counted[s] = {r}, !.admitted[s] = @ \cup {r}]

\* A limiter counts request r, unless one before has stopped it: without Redis
\* only as long as there are tokens left.
Charge(r, st, limit) ==
  LET s       == limit.scope
      limiter == Limiter(st, limit)
      exceeded == Cardinality(st.counted[s] \cup {r}) > limiter.tokens
      proceeds == ~(exceeded /\ limiter.reject)
  IN IF ~st.proceeds THEN st
     ELSE [limiters |-> [st.limiters EXCEPT ![s] = limiter],
           counted  |-> [st.counted EXCEPT ![s] =
                           IF redis \/ ~exceeded THEN @ \cup {r} ELSE @],
           admitted |-> [st.admitted EXCEPT ![s] = IF proceeds THEN @ \cup {r} ELSE @],
           proceeds |-> proceeds]

Begun == [limiters |-> limiters, counted |-> counted, admitted |-> admitted,
          proceeds |-> TRUE]

\* The limits, one after the other.
Charged(r, limits) ==
  FoldLeft(LAMBDA st, limit : Charge(r, st, limit), Begun, limits)

Take(st) ==
  /\ limiters' = st.limiters /\ counted' = st.counted /\ admitted' = st.admitted

\* An interval of scope s ends.
NewInterval(s) ==
  /\ counted[s] # {}
  /\ counted' = [counted EXCEPT ![s] = {}]
  /\ admitted' = [admitted EXCEPT ![s] = {}]
  /\ UNCHANGED <<redis, limiters>>
=============================================================================
