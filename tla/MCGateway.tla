----------------------------- MODULE MCGateway -----------------------------
EXTENDS Gateway

CONSTANTS x, y,              \* paths
          plan1, hour, day   \* scopes

MCDeployments == {[useCache |-> TRUE, redis |-> FALSE], [useCache |-> FALSE, redis |-> TRUE]}

\* The paths of an API: one that accepts both, with an array, and a better one of
\* an operation with two limits.
General(reject) ==
  [accepts |-> {x, y}, score |-> 2, methods |-> {"GET"}, type |-> "array",
   spread |-> FALSE,
   limits |-> <<[scope |-> plan1, tokens |-> 1, reject |-> reject]>>]

Special(type) ==
  [accepts |-> {x}, score |-> 1, methods |-> {"GET"}, type |-> type, spread |-> TRUE,
   limits |-> <<[scope |-> hour, tokens |-> 1, reject |-> TRUE],
                [scope |-> day, tokens |-> 0, reject |-> FALSE],
                [scope |-> plan1, tokens |-> 1, reject |-> TRUE]>>]

Api(cors, unnamed, paths) ==
  [subscribable |-> TRUE, cors |-> cors, unnamed |-> unnamed, paths |-> paths]

\* The second snapshot republishes the API, with another limit and another type,
\* behind one with an equal candidate.
MCApis ==
  1 :> <<Api(TRUE, TRUE, <<General(TRUE), Special("string")>>),
         [Api(TRUE, TRUE, <<Special("string")>>) EXCEPT !.subscribable = FALSE]>>
  @@ 2 :> <<Api(FALSE, TRUE, <<Special("string")>>),
            Api(TRUE, FALSE, <<General(FALSE), Special("array")>>)>>

\* What the requests ask for: the same operation with an array and with an empty one;
\* an operation whose array is none, and a preflight.
Ask(path, method, value) == [path |-> path, method |-> method, value |-> value]

MCInputs ==
  {1 :> Ask(y, "GET", "list") @@ 2 :> Ask(y, "GET", "empty"),
   1 :> Ask(x, "GET", "garbled") @@ 2 :> Ask(y, "OPTIONS", "absent")}
=============================================================================
