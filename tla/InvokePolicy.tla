---------------------------- MODULE InvokePolicy ----------------------------
(***************************************************************************)
(* The invoke policies of one assembly (policies/invoke/index.js).  Each   *)
(* calls an upstream server and writes the answer, in two turns, into an   *)
(* object of the context: the message, unless it has an output of its own. *)
(* The flow goes on as soon as an invoke calls back for the first time,    *)
(* but the events of its HTTP request do not end there.                    *)
(*                                                                         *)
(* The request follows node's http client (engines of package.json): an    *)
(* aborted or broken request still emits error before the response, and    *)
(* end after it.  What is written is modelled by who wrote it.             *)
(***************************************************************************)
EXTENDS Naturals

CONSTANTS
  N,        \* bound: invoke policies in the assembly
  Settings  \* the properties an invoke may have

VARIABLES
  props,      \* each invoke's properties
  flow,       \* the policy the flow is at, and how it got there
  call,       \* each invoke: where its HTTP request stands
  gzip,       \* each invoke: the data is still being compressed
  response,   \* each invoke: the class of the status it received
  isDone,     \* each invoke: it has called back
  ended,      \* history: the outcome each invoke has ended with for the flow
  object      \* the message (0) and the outputs: who wrote which part

vars == <<props, flow, call, gzip, response, isDone, ended, object>>

\* In the order of the assembly.
Invokes == 1..N

Message == 0

Objects == {Message} \cup Invokes

\* An error of gzip has a name of its own.
Outcomes == {"success", "PropertyError", "ConnectionError", "OperationError", "Error",
             "TypeError"}

\* request: target-url, verb, http-version and input are in order, or one of them
\* is not, or the input is an object without headers.
ASSUME SettingsAssumption ==
  /\ N \in Nat
  /\ Settings \subseteq
       [request: {"valid", "invalid", "noHeaders"}, output: {"message", "own", "invalid"},
        tlsProfile: BOOLEAN, compression: BOOLEAN,
        stopOnError: SUBSET {"ConnectionError", "OperationError"}]

\* Parts of an object: the invoke that wrote them, or 0 for other policies.
Parts == [status: Objects, headers: Objects, body: Objects]

Phases == {"idle", "tlsProfile", "open", "body", "broken", "brokenBody", "closed"}

TypeOK ==
  /\ props \in [Invokes -> Settings]
  /\ flow \in [at: Nat \ {0}, state: {"running", "failed"}, caught: BOOLEAN]
  /\ call \in [Invokes -> Phases]
  /\ gzip \in [Invokes -> BOOLEAN]
  /\ response \in [Invokes -> {"none", "2xx", "other"}]
  /\ isDone \in [Invokes -> BOOLEAN]
  /\ ended \in [Invokes -> Outcomes \cup {"none"}]
  /\ object \in [Objects -> Parts]

Untouched == [status |-> 0, headers |-> 0, body |-> 0]

Init ==
  /\ props \in [Invokes -> Settings]
  /\ flow = [at |-> 1, state |-> "running", caught |-> FALSE]
  /\ call = [i \in Invokes |-> "idle"]
  /\ gzip = [i \in Invokes |-> FALSE]
  /\ response = [i \in Invokes |-> "none"]
  /\ isDone = [i \in Invokes |-> FALSE]
  /\ ended = [i \in Invokes |-> "none"]
  /\ object = [o \in Objects |-> Untouched]

-----------------------------------------------------------------------------
(* Calling back. *)

\* writeDst
WriteDst(i) == IF props[i].output = "own" THEN i ELSE Message

Ends(i, outcome) == ended' = [ended EXCEPT ![i] = outcome]

\* The flow continues behind i.
Proceed(i) == flow' = [flow EXCEPT !.at = i + 1]

\* It fails, or continues in a catch of the assembly.
Fail(i) ==
  \/ flow' = [flow EXCEPT !.state = "failed"]
  \/ flow' = [flow EXCEPT !.at = i + 1, !.caught = TRUE]

\* _next: outcome is "success" or the name of the error, and written the
\* objects as the caller leaves them.
CallBack(i, outcome, written) ==
  IF isDone[i]
  THEN object' = written /\ UNCHANGED <<isDone, flow, ended>>
  ELSE /\ isDone' = [isDone EXCEPT ![i] = TRUE]
       /\ Ends(i, outcome)
       /\ IF outcome \in props[i].stopOnError \cup {"PropertyError"}
          THEN object' = written /\ Fail(i)
          ELSE /\ object' = IF outcome = "ConnectionError"
                            THEN [written EXCEPT ![WriteDst(i)].status = i]
                            ELSE written
               /\ Proceed(i)

NoCallBack == UNCHANGED <<object, isDone, flow, ended>>

\* An exception that leaves invoke: the flow engine, which is not in the
\* repository, ends the flow or hands it to a catch.
ThrownToFlow(i) == Ends(i, "TypeError") /\ Fail(i) /\ UNCHANGED <<object, isDone>>

-----------------------------------------------------------------------------
(* The entry point and _main. *)

Close(i) == call' = [call EXCEPT ![i] = "closed"] /\ UNCHANGED gzip

\* The request is created, and written unless it has to be compressed.
Open(i) ==
  /\ call' = [call EXCEPT ![i] = "open"]
  /\ gzip' = [gzip EXCEPT ![i] = props[i].compression]

\* An invalid output calls back, and the call goes on (index.js:453-461): of the
\* two outcomes of one turn the first counts.
Outcome(i, outcome) == IF props[i].output = "invalid" THEN "PropertyError" ELSE outcome

\* _main.  Headers that are undefined throw (index.js:123, 154): out of invoke, or,
\* behind a TLS profile, in a promise that has no catch (index.js:474-495).
Main(i) ==
  \/ /\ props[i].request = "invalid"
     /\ Close(i) /\ CallBack(i, "PropertyError", object)
  \/ /\ props[i].request = "noHeaders"
     /\ Close(i)
     /\ CASE props[i].output = "invalid" -> CallBack(i, "PropertyError", object)
          [] props[i].output # "invalid" /\ props[i].tlsProfile -> NoCallBack
          [] OTHER -> ThrownToFlow(i)
  \/ /\ props[i].request = "valid"
     /\ Open(i)
     /\ IF props[i].output = "invalid"
        THEN CallBack(i, "PropertyError", object) ELSE NoCallBack
  \* http.request throws
  \/ /\ props[i].request = "valid"
     /\ Close(i)
     /\ CallBack(i, Outcome(i, "ConnectionError"), object)

Invoke(i) ==
  /\ flow.state = "running" /\ flow.at = i /\ call[i] = "idle"
  /\ IF props[i].tlsProfile
     THEN /\ call' = [call EXCEPT ![i] = "tlsProfile"]
          /\ UNCHANGED gzip
          /\ IF props[i].output = "invalid"
             THEN CallBack(i, "PropertyError", object) ELSE NoCallBack
     ELSE Main(i)
  /\ UNCHANGED <<props, response>>

TlsProfileFound(i) ==
  /\ call[i] = "tlsProfile"
  /\ \/ Main(i)
     \/ Close(i) /\ CallBack(i, "PropertyError", object)
  /\ UNCHANGED <<props, response>>

\* Seeded fault, no part of Spec: a request that is let go of by null.
FaultyAbort(i) == call' = [call EXCEPT ![i] = "none"]

\* request.abort()
Abort(i) ==
  call' = [call EXCEPT ![i] = CASE @ = "open" -> "broken" [] @ = "body" -> "brokenBody"
                                [] OTHER -> @]

Compressed(i) ==
  /\ gzip[i]
  /\ gzip' = [gzip EXCEPT ![i] = FALSE]
  /\ \/ UNCHANGED call /\ NoCallBack
     \/ Abort(i) /\ CallBack(i, "Error", object)
  /\ UNCHANGED <<props, response>>

-----------------------------------------------------------------------------
(* The events of the request. *)

\* Seeded fault, no part of Spec: an OperationError that does not wait for the
\* body.
FaultyResponse(i) ==
  /\ call[i] = "open" /\ ~gzip[i]
  /\ call' = [call EXCEPT ![i] = "body"]
  /\ response' = [response EXCEPT ![i] = "other"]
  /\ CallBack(i, "OperationError",
              [object EXCEPT ![WriteDst(i)].status = i, ![WriteDst(i)].headers = i])
  /\ UNCHANGED <<props, gzip>>

Response(i) ==
  /\ call[i] = "open" /\ ~gzip[i]
  /\ call' = [call EXCEPT ![i] = "body"]
  /\ \E class \in {"2xx", "other"} : response' = [response EXCEPT ![i] = class]
  /\ object' = [object EXCEPT ![WriteDst(i)].status = i, ![WriteDst(i)].headers = i]
  /\ UNCHANGED <<props, flow, gzip, isDone, ended>>

\* The end of the body, or of what has come of it.
ResponseEnd(i) ==
  /\ call[i] \in {"body", "brokenBody"}
  /\ Close(i)
  /\ CallBack(i, IF response[i] = "2xx" THEN "success" ELSE "OperationError",
              [object EXCEPT ![WriteDst(i)].body = i])
  /\ UNCHANGED <<props, response>>

\* Seeded fault, no part of Spec: an error of the request that is only logged.
FaultyRequestError(i) ==
  /\ call[i] \in {"open", "body", "broken"}
  /\ call' = [call EXCEPT ![i] = "closed"]
  /\ NoCallBack
  /\ UNCHANGED <<props, response, gzip>>

\* A broken connection, or the abortion of a request that has no response.
RequestError(i) ==
  /\ call[i] \in {"open", "body", "broken"}
  /\ call' = [call EXCEPT ![i] = IF @ = "body" THEN "brokenBody" ELSE "closed"]
  /\ CallBack(i, "ConnectionError", object)
  /\ UNCHANGED <<props, response, gzip>>

\* Seeded fault, no part of Spec: a timeout that does not abort the request.
FaultyTimeout(i) ==
  /\ call[i] \in {"open", "body"}
  /\ CallBack(i, "ConnectionError", object)
  /\ UNCHANGED <<props, call, response, gzip>>

\* The timer fires once, and the request is aborted behind the callback.
Timeout(i) ==
  /\ call[i] \in {"open", "body"}
  /\ Abort(i)
  /\ CallBack(i, "ConnectionError", object)
  /\ UNCHANGED <<props, response, gzip>>

\* A policy in front of invoke i, or behind the last one, rewrites the message.
OtherPolicy ==
  /\ flow.state = "running" /\ (flow.at \in Invokes => call[flow.at] = "idle")
  /\ object' = [object EXCEPT ![Message] = Untouched]
  /\ UNCHANGED <<props, flow, call, gzip, response, isDone, ended>>

Answered(i) == Response(i) \/ ResponseEnd(i) \/ RequestError(i) \/ Timeout(i)

Step(i) == Invoke(i) \/ TlsProfileFound(i) \/ Compressed(i) \/ Answered(i)

Next == OtherPolicy \/ \E i \in Invokes : Step(i)

Spec == Init /\ [][Next]_vars

\* The datastore and zlib answer, and a silent server times out: the default is
\* a minute (index.js:83-92).
FairSpec == Spec /\ \A i \in Invokes : WF_vars(Step(i))

-----------------------------------------------------------------------------
\* The connection of i failed in the middle of an answer, or failed and i does not
\* stop there, or its output is invalid: those write one part without the others.
Disturbs(i) ==
  \/ props[i].output = "invalid"
  \/ /\ ended[i] = "ConnectionError"
     /\ response[i] # "none" \/ "ConnectionError" \notin props[i].stopOnError

\* The flow is between two invokes, or one of them is about to read the message.
Between == flow.at \in Invokes => call[flow.at] \in {"idle", "tlsProfile"}

\* Status, headers and body, which an invoke writes in two turns, are of one answer
\* whenever another policy reads the message (index.js:275-314), in a catch too,
\* unless an earlier invoke lost its connection in the middle of an answer, went on
\* without one, or had an invalid output.
MessageWhole ==
  (flow.state = "running" /\ Between /\ \A j \in Invokes : j < flow.at => ~Disturbs(j)) =>
    \A o \in Objects : /\ object[o].status = object[o].headers
                       /\ object[o].headers = object[o].body

\* Once an invoke with a valid output has called back, the events that its request
\* has left change neither status nor headers of what later policies read, and the
\* body only if the answer had begun (index.js:273-314, 351-369).
LateWritesBodyOnly ==
  [][\A i \in Invokes : (isDone[i] /\ props[i].output # "invalid") =>
       \A o \in Objects :
         /\ object'[o].status = i => object[o].status = i
         /\ object'[o].headers = i => object[o].headers = i
         /\ object'[o].body = i => object[o].body = i \/ response[i] # "none"]_vars

\* Every invoke that is entered lets the flow continue or ends it, except behind a
\* TLS profile with an input that has no headers: nobody hears of that exception.
InvokesCallBack ==
  \A i \in Invokes :
    (call[i] # "idle" /\ ~(props[i].tlsProfile /\ props[i].request = "noHeaders"))
      ~> ended[i] # "none"
=============================================================================
