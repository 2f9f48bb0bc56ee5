----------------------------- MODULE ApiMatcher -----------------------------
(***************************************************************************)
(* The api-matcher middleware: the operations of a snapshot that serve a   *)
(* request's path and method, those of the best score only                 *)
(* (lib/api-matcher/index.js).                                             *)
(***************************************************************************)
EXTENDS Traffic, Selection

\* The paths of all APIs in the order of the two loops.
Operations(apis) ==
  FlattenSeq([i \in DOMAIN apis |->
                [j \in DOMAIN apis[i].paths |-> [api |-> i, path |-> j]]])

PathObj(apis, o) == apis[o.api].paths[o.path]

\* A method that is not there is left to a preflight request, for which there is
\* no operation to check or to run.
Preflight(apis, o, method) ==
  method \notin PathObj(apis, o).methods

Serves(apis, o, path, method) ==
  /\ apis[o.api].subscribable
  /\ path \in PathObj(apis, o).accepts
  /\ Preflight(apis, o, method) => method = "OPTIONS" /\ apis[o.api].cors

\* One round of the inner loop.
MatchNext(apis, path, method, found, o) ==
  LET score == PathObj(apis, o).score IN
    IF Serves(apis, o, path, method) /\ score <= found.best
    THEN [best |-> score,
          matches |-> Append(IF score < found.best THEN <<>> ELSE found.matches, o)]
    ELSE found

\* Number.MAX_VALUE is worse than any score.
Matches(apis, path, method) ==
  FoldLeft(LAMBDA found, o : MatchNext(apis, path, method, found, o),
           [best |-> MaxScore + 1, matches |-> <<>>], Operations(apis)).matches

\* The matches of every snapshot, for what a request may ask.
MatchesOf == [s \in Snapshots |-> [path \in Paths |-> [method \in Methods |->
                Matches(Apis[s], path, method)]]]

-----------------------------------------------------------------------------
\* What the matches ought to be: the operations that serve the request such that
\* no other one has a better score, in their order.
BestMatches(apis, path, method) ==
  Among(Operations(apis),
        {o \in Operation :
           /\ Serves(apis, o, path, method)
           /\ \A i \in DOMAIN apis : \A j \in DOMAIN apis[i].paths :
                LET p == [api |-> i, path |-> j] IN
                  Serves(apis, p, path, method) =>
                    PathObj(apis, o).score <= PathObj(apis, p).score})
=============================================================================
