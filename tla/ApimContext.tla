---------------------------- MODULE ApimContext ----------------------------
(***************************************************************************)
(* The context of a request's API: the plan the security check copies from *)
(* the entry of the API (buildPreflowContext), and the parameters of the   *)
(* request, converted to the types of the API document (apim-context).     *)
(* Both overwrite the document they read.                                  *)
(***************************************************************************)
EXTENDS ApiLoader

VARIABLES
  spliced,     \* <<document, API>> that have lost the unnamed limit of the plan
  retyped,     \* <<document, operation>> whose array parameter has its items' type
  api,         \* the requests whose context has an api
  plan,        \* whether plan.rate-limit is set in the context of each request
  parameter    \* the last parameter in request.parameters of each request

contextVars == <<spliced, retyped, api, plan, parameter>>

\* What a value is converted to.  Several segments of a path make a list.
Converted == {"undefined", "text", "number", "NaN", "numbers", "segments"}

ContextTypeOK ==
  /\ spliced \subseteq Requests \X (1..MaxApis)
  /\ retyped \subseteq Requests \X Operation
  /\ api \subseteq Requests
  /\ plan \in [Requests -> BOOLEAN \cup {None}]
  /\ parameter \in [Requests -> Converted \cup {None}]

ContextInit ==
  /\ spliced = {} /\ retyped = {} /\ api = {}
  /\ plan = [r \in Requests |-> None]
  /\ parameter = [r \in Requests |-> None]

-----------------------------------------------------------------------------
\* buildPreflowContext for the APIs of the candidates that passed, o being the
\* final one: no other candidate of the same API came before it.
BuildPreflowContext(r, passed, o) ==
  /\ plan' = [plan EXCEPT ![r] =
                IF <<document[r], o.api>> \in spliced THEN FALSE ELSE Loaded(r)[o.api].unnamed]
  /\ spliced' = spliced \cup {<<document[r], p.api>> : p \in passed}

\* convertToType; the items of an array are integers.  An empty string is the
\* number 0, and no array: its conversion throws.
Convert(type, value) ==
  CASE value = "absent"                                       -> "undefined"
    [] value # "absent" /\ type = "string"                    -> "text"
    [] value \in {"numeral", "empty"} /\ type = "integer"     -> "number"
    [] value \in {"list", "garbled"} /\ type = "integer"      -> "NaN"
    [] value \in {"numeral", "list"} /\ type = "array"        -> "numbers"
    [] value \in {"garbled", "empty"} /\ type = "array"       -> "undefined"

PublishedType(r, o) == Loaded(r)[o.api].paths[o.path].type

\* The type as the document says now.
CurrentType(r, o) ==
  IF <<document[r], o>> \in retyped THEN "integer" ELSE PublishedType(r, o)

\* An array that is there is parsed by a CSV parser, which calls back.
IsParsed(r, o) == CurrentType(r, o) = "array" /\ input[r].value # "absent"

\* A parameter of several segments has to be text; the exception is lost in the
\* promise that was to bring the parameters.
Lost(r, o, converted) ==
  Loaded(r)[o.api].paths[o.path].spread /\ converted # "text"

\* request.parameters are set.
SetParameter(r, o, converted) ==
  parameter' = [parameter EXCEPT ![r] =
                  IF Lost(r, o, converted) THEN @
                  ELSE IF Loaded(r)[o.api].paths[o.path].spread THEN "segments" ELSE converted]

\* The CSV parser's callback gives the parameter the type of its items, one of them
\* after the other.
Retype(r, o) == retyped' = retyped \cup {<<document[r], o>>}
=============================================================================
