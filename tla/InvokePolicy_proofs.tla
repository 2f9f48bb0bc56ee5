------------------------ MODULE InvokePolicy_proofs ------------------------
(***************************************************************************)
(* The safety properties of InvokePolicy, for any number of invokes with   *)
(* any settings.  The argument is in two halves: how far each invoke is    *)
(* when the flow is past it (FlowInv), and what the objects hold as long   *)
(* as none of the invokes before has disturbed them (ObjectInv).           *)
(***************************************************************************)
EXTENDS InvokePolicy, TLAPS

\* A request that will not write any more.
Silent(i) == call[i] \in {"broken", "closed"}

Stops(i) == "ConnectionError" \in props[i].stopOnError

\* Invoke i has received a response, and not the whole of it.
Receiving(i) == call[i] \in {"body", "brokenBody"}

\* All that an invoke may still write when the flow is past it is the body of an
\* answer whose connection failed.
Spent(i) ==
  (ended[i] # "none" /\ props[i].output # "invalid") =>
    Silent(i) \/ (call[i] = "brokenBody" /\ ended[i] = "ConnectionError")

\* Where the request of an invoke is, and what has become of the invoke.
CallInv(i) ==
  /\ call[i] = "tlsProfile" => props[i].tlsProfile
  /\ gzip[i] => call[i] \in {"open", "broken", "closed"}
  /\ Receiving(i) => response[i] # "none"
  /\ isDone[i] => ended[i] # "none"
  /\ (ended[i] # "none" /\ ~isDone[i]) => (call[i] = "closed" /\ ~gzip[i])
  /\ Spent(i)

\* The flow is at an invoke that has not ended, or it has failed there.
InvokeInv(i) ==
  /\ i < flow.at => ended[i] # "none"
  /\ i > flow.at => call[i] = "idle"
  /\ call[i] = "idle" => ended[i] = "none"
  /\ (i = flow.at /\ ended[i] # "none") => flow.state = "failed"
  /\ CallInv(i)

FlowInv == \A i \in Invokes : InvokeInv(i)

\* The flow runs, and whoever it is past has left no object half written.
Orderly == flow.state = "running" /\ \A j \in Invokes : j < flow.at => ~Disturbs(j)

Whole(o) ==
  object[o].status = object[o].headers /\ object[o].headers = object[o].body

\* Only the object of the invoke the flow is at may be between the two turns.
ObjectInv ==
  Orderly => \A o \in Objects :
    /\ Whole(o) \/ \E i \in Invokes : i = flow.at /\ Receiving(i) /\ o = WriteDst(i)
    /\ \A i \in Invokes : (i = flow.at /\ Receiving(i) /\ o = WriteDst(i)) =>
         object[o].status = i /\ object[o].headers = i

-----------------------------------------------------------------------------
(* Types. *)

LEMMA DstIsObject ==
  ASSUME NEW i \in Invokes
  PROVE  WriteDst(i) \in Objects
  BY DEF WriteDst, Objects

\* How the flow goes on when an invoke ends with an outcome, or does not end.
Quiet == UNCHANGED <<isDone, flow, ended>>

Leaves(i, outcome) ==
  /\ ~isDone[i] /\ isDone' \in {isDone, [isDone EXCEPT ![i] = TRUE]}
  /\ outcome \in Outcomes /\ Ends(i, outcome)
  /\ Proceed(i) \/ Fail(i)

\* Calling back is one of three things.
LEMMA CallBackCases ==
  ASSUME TypeOK, NEW i \in Invokes, NEW outcome \in Outcomes, NEW written,
         CallBack(i, outcome, written)
  PROVE  /\ isDone'[i]
         /\ \/ isDone[i] /\ Quiet /\ object' = written
            \/ Leaves(i, outcome) /\ object' = written
            \/ /\ Leaves(i, outcome)
               /\ outcome = "ConnectionError" /\ ~Stops(i)
               /\ object' = [written EXCEPT ![WriteDst(i)].status = i]
  <1>1. CASE isDone[i]
    BY <1>1 DEF CallBack, Quiet
  <1>2. CASE ~isDone[i]
    <2>1. isDone' = [isDone EXCEPT ![i] = TRUE] /\ isDone'[i]
      BY <1>2 DEF CallBack, TypeOK
    <2>2. Ends(i, outcome) /\ (Proceed(i) \/ Fail(i))
      BY <1>2 DEF CallBack
    <2>3. Leaves(i, outcome)
      BY <1>2, <2>1, <2>2 DEF Leaves
    <2> QED
      BY <1>2, <2>1, <2>3 DEF CallBack, Stops
  <1> QED
    BY <1>1, <1>2

\* What leaving, or staying, does to the types of the flow.
LEMMA FlowTypes ==
  ASSUME TypeOK, NEW i \in Invokes, Quiet \/ \E outcome \in Outcomes : Leaves(i, outcome)
  PROVE  /\ flow' \in [at: Nat \ {0}, state: {"running", "failed"}, caught: BOOLEAN]
         /\ isDone' \in [Invokes -> BOOLEAN]
         /\ ended' \in [Invokes -> Outcomes \cup {"none"}]
  <1>1. i + 1 \in Nat \ {0}
    BY SettingsAssumption DEF Invokes
  <1>2. CASE Quiet
    BY <1>2 DEF Quiet, TypeOK
  <1>3. ASSUME NEW outcome \in Outcomes, Leaves(i, outcome)
        PROVE  /\ flow' \in [at: Nat \ {0}, state: {"running", "failed"}, caught: BOOLEAN]
               /\ isDone' \in [Invokes -> BOOLEAN]
               /\ ended' \in [Invokes -> Outcomes \cup {"none"}]
    <2>1. isDone' \in [Invokes -> BOOLEAN] /\ ended' \in [Invokes -> Outcomes \cup {"none"}]
      BY <1>3 DEF Leaves, Ends, TypeOK
    <2>2. flow' \in [at: Nat \ {0}, state: {"running", "failed"}, caught: BOOLEAN]
      BY <1>1, <1>3 DEF Leaves, Proceed, Fail, TypeOK
    <2> QED
      BY <2>1, <2>2
  <1> QED
    BY <1>2, <1>3

LEMMA CallBackTypes ==
  ASSUME TypeOK, NEW i \in Invokes, NEW outcome \in Outcomes,
         NEW written \in [Objects -> Parts], CallBack(i, outcome, written)
  PROVE  /\ flow' \in [at: Nat \ {0}, state: {"running", "failed"}, caught: BOOLEAN]
         /\ isDone' \in [Invokes -> BOOLEAN]
         /\ ended' \in [Invokes -> Outcomes \cup {"none"}]
         /\ object' \in [Objects -> Parts]
  <1>1. i \in Objects
    BY DEF Objects
  <1>2. [written EXCEPT ![WriteDst(i)].status = i] \in [Objects -> Parts]
    BY <1>1, DstIsObject DEF Parts
  <1>3. Quiet \/ Leaves(i, outcome)
    BY CallBackCases
  <1>4. object' \in [Objects -> Parts]
    BY <1>2, CallBackCases
  <1> QED
    BY <1>3, <1>4, FlowTypes

LEMMA InitTypes == Init => TypeOK
  <1> SUFFICES ASSUME Init PROVE TypeOK
    OBVIOUS
  <1>1. Untouched \in Parts
    BY DEF Untouched, Parts, Objects, Message
  <1> QED
    BY <1>1 DEF Init, TypeOK, Phases

\* What the objects are when a response has begun, or ended.
LEMMA WrittenTypes ==
  ASSUME TypeOK, NEW i \in Invokes
  PROVE  /\ [object EXCEPT ![WriteDst(i)].status = i, ![WriteDst(i)].headers = i]
              \in [Objects -> Parts]
         /\ [object EXCEPT ![WriteDst(i)].body = i] \in [Objects -> Parts]
  BY DstIsObject DEF TypeOK, Parts, Objects

\* How a step lets the flow be, before an answer has begun.
Turned(i) ==
  \/ NoCallBack
  \/ ThrownToFlow(i)
  \/ \E outcome \in Outcomes : CallBack(i, outcome, object)

LEMMA TurnedTypes ==
  ASSUME TypeOK, NEW i \in Invokes, Turned(i)
  PROVE  /\ flow' \in [at: Nat \ {0}, state: {"running", "failed"}, caught: BOOLEAN]
         /\ isDone' \in [Invokes -> BOOLEAN]
         /\ ended' \in [Invokes -> Outcomes \cup {"none"}]
         /\ object' \in [Objects -> Parts]
  <1>1. CASE NoCallBack
    BY <1>1 DEF NoCallBack, TypeOK
  <1>2. CASE ThrownToFlow(i)
    <2>1. i + 1 \in Nat \ {0}
      BY SettingsAssumption DEF Invokes
    <2>2. flow' \in [at: Nat \ {0}, state: {"running", "failed"}, caught: BOOLEAN]
      BY <1>2, <2>1 DEF ThrownToFlow, Fail, TypeOK
    <2> QED
      BY <1>2, <2>2 DEF ThrownToFlow, Ends, Outcomes, TypeOK
  <1>3. CASE \E outcome \in Outcomes : CallBack(i, outcome, object)
    BY <1>3, CallBackTypes DEF TypeOK
  <1> QED
    BY <1>1, <1>2, <1>3 DEF Turned

LEMMA MainTypes ==
  ASSUME TypeOK, NEW i \in Invokes, Main(i), UNCHANGED <<props, response>>
  PROVE  TypeOK'
  <1>1. /\ call' \in [Invokes -> Phases]
        /\ gzip' \in [Invokes -> BOOLEAN]
    BY SettingsAssumption DEF Main, Open, Close, TypeOK, Phases
  <1>2. Turned(i)
    BY DEF Main, Turned, Outcome, Outcomes
  <1> QED
    BY <1>1, <1>2, TurnedTypes DEF TypeOK

LEMMA StepTypes ==
  ASSUME TypeOK, NEW i \in Invokes, Step(i)
  PROVE  TypeOK'
  <1>1. CASE Invoke(i) /\ props[i].tlsProfile
    <2>1. call' \in [Invokes -> Phases] /\ gzip' = gzip /\ Turned(i)
      BY <1>1 DEF Invoke, TypeOK, Phases, Turned, Outcomes
    <2> QED
      BY <1>1, <2>1, TurnedTypes DEF Invoke, TypeOK
  <1>2. CASE TlsProfileFound(i) /\ ~Main(i)
    <2>1. call' \in [Invokes -> Phases] /\ gzip' = gzip /\ Turned(i)
      BY <1>2 DEF TlsProfileFound, Close, TypeOK, Phases, Turned, Outcomes
    <2> QED
      BY <1>2, <2>1, TurnedTypes DEF TlsProfileFound, TypeOK
  <1>3. CASE Main(i) /\ UNCHANGED <<props, response>>
    BY <1>3, MainTypes
  <1>4. CASE Compressed(i)
    <2>1. call' \in [Invokes -> Phases] /\ gzip' \in [Invokes -> BOOLEAN] /\ Turned(i)
      BY <1>4 DEF Compressed, Abort, TypeOK, Phases, Turned, Outcomes
    <2> QED
      BY <1>4, <2>1, TurnedTypes DEF Compressed, TypeOK
  <1>5. CASE Response(i)
    BY <1>5, WrittenTypes DEF Response, TypeOK, Phases
  <1>6. CASE ResponseEnd(i)
    <2>1. call' \in [Invokes -> Phases] /\ gzip' = gzip
      BY <1>6 DEF ResponseEnd, Close, TypeOK, Phases
    <2>2. \E outcome \in Outcomes :
            CallBack(i, outcome, [object EXCEPT ![WriteDst(i)].body = i])
      BY <1>6 DEF ResponseEnd, Outcomes
    <2> QED
      BY <1>6, <2>1, <2>2, WrittenTypes, CallBackTypes DEF ResponseEnd, TypeOK
  <1>7. CASE RequestError(i) \/ Timeout(i)
    <2>1. call' \in [Invokes -> Phases] /\ gzip' = gzip /\ Turned(i)
      BY <1>7 DEF RequestError, Timeout, Abort, TypeOK, Phases, Turned, Outcomes
    <2> QED
      BY <1>7, <2>1, TurnedTypes DEF RequestError, Timeout, TypeOK
  <1> QED
    BY <1>1, <1>2, <1>3, <1>4, <1>5, <1>6, <1>7
       DEF Step, Answered, Invoke, TlsProfileFound

\* Every variable of InvokePolicy is of its type in every behaviour.
THEOREM InvokeTypeCorrect == Spec => []TypeOK
  <1>1. TypeOK /\ [Next]_vars => TypeOK'
    <2> SUFFICES ASSUME TypeOK, [Next]_vars PROVE TypeOK'
      OBVIOUS
    <2>1. CASE OtherPolicy
      <3>1. Untouched \in Parts
        BY DEF Untouched, Parts, Objects, Message
      <3> QED
        BY <2>1, <3>1 DEF OtherPolicy, TypeOK
    <2>2. CASE \E i \in Invokes : Step(i)
      BY <2>2, StepTypes
    <2>3. CASE UNCHANGED vars
      BY <2>3 DEF vars, TypeOK
    <2> QED
      BY <2>1, <2>2, <2>3 DEF Next
  <1> QED
    BY <1>1, InitTypes, PTL DEF Spec

-----------------------------------------------------------------------------
(* The flow. *)

\* A step of invoke i, as far as the flow is concerned.
Turn(i) ==
  /\ i = flow.at \/ call[i] # "idle"
  /\ isDone[i] \/ ended[i] = "none"
  /\ UNCHANGED props
  /\ \A j \in Invokes \ {i} :
       call'[j] = call[j] /\ gzip'[j] = gzip[j] /\ response'[j] = response[j]
  /\ call'[i] # "idle" /\ (response[i] # "none" => response'[i] # "none")
  /\ CallInv(i)'
  /\ Quiet \/ \E outcome \in Outcomes : Leaves(i, outcome)

\* Where ended and isDone are after a callback.
LEMMA CallBackEnds ==
  ASSUME TypeOK, NEW i \in Invokes, NEW outcome \in Outcomes, NEW written,
         CallBack(i, outcome, written)
  PROVE  /\ isDone'[i]
         /\ ended'[i] = IF isDone[i] THEN ended[i] ELSE outcome
         /\ Quiet \/ Leaves(i, outcome)
         /\ isDone[i] => Quiet
  <1>1. CASE isDone[i]
    BY <1>1 DEF CallBack, Quiet
  <1>2. CASE ~isDone[i]
    <2>1. ended'[i] = outcome
      BY <1>2 DEF CallBack, Ends, TypeOK
    <2> QED
      BY <1>2, <2>1, CallBackCases
  <1> QED
    BY <1>1, <1>2

LEMMA MainTurns ==
  ASSUME TypeOK, FlowInv, NEW i \in Invokes, call[i] \in {"idle", "tlsProfile"},
         call[i] = "idle" => flow.at = i,
         ~props[i].tlsProfile => call[i] = "idle",
         Main(i), UNCHANGED <<props, response>>
  PROVE  Turn(i)
  <1>1. InvokeInv(i) /\ ~gzip[i] /\ "none" \notin Outcomes
    BY DEF FlowInv, InvokeInv, CallInv, Outcomes
  <1>2. /\ isDone[i] <=> ended[i] # "none"
        /\ props[i].output # "invalid" => ended[i] = "none"
    BY <1>1 DEF InvokeInv, CallInv, Spent, Silent
  <1>3. CASE Close(i) /\ NoCallBack /\ props[i].output # "invalid"
    <2>1. /\ \A j \in Invokes \ {i} : call'[j] = call[j] /\ gzip'[j] = gzip[j]
          /\ call'[i] = "closed" /\ gzip'[i] = gzip[i]
      BY <1>3 DEF Close, TypeOK
    <2>2. isDone' = isDone /\ ended' = ended /\ Quiet
      BY <1>3 DEF NoCallBack, Quiet
    <2>3. CallInv(i)'
      BY <1>1, <1>2, <2>1, <2>2 DEF CallInv, Spent, Silent, Receiving
    <2> QED
      BY <1>1, <1>2, <2>1, <2>2, <2>3 DEF Turn, InvokeInv
  <1>4. CASE Close(i) /\ ThrownToFlow(i) /\ props[i].output # "invalid" /\ ~props[i].tlsProfile
    <2>1. /\ \A j \in Invokes \ {i} : call'[j] = call[j] /\ gzip'[j] = gzip[j]
          /\ call'[i] = "closed" /\ gzip'[i] = gzip[i]
      BY <1>4 DEF Close, TypeOK
    <2>2. ~isDone[i] /\ isDone' = isDone /\ Leaves(i, "TypeError") /\ "TypeError" \in Outcomes
      BY <1>2, <1>4 DEF ThrownToFlow, Leaves, Outcomes
    <2>3. CallInv(i)'
      BY <1>1, <2>1, <2>2 DEF CallInv, Spent, Silent, Receiving
    <2> QED
      BY <1>1, <1>2, <2>1, <2>2, <2>3 DEF Turn, InvokeInv
  <1>5. CASE Close(i) /\ \E outcome \in Outcomes : CallBack(i, outcome, object)
    <2>1. /\ \A j \in Invokes \ {i} : call'[j] = call[j] /\ gzip'[j] = gzip[j]
          /\ call'[i] = "closed" /\ gzip'[i] = gzip[i]
      BY <1>5 DEF Close, TypeOK
    <2>2. PICK outcome \in Outcomes : CallBack(i, outcome, object)
      BY <1>5
    <2>3. /\ isDone'[i] /\ ended'[i] # "none"
          /\ Quiet \/ Leaves(i, outcome)
      BY <1>1, <1>2, <2>2, CallBackEnds
    <2>4. CallInv(i)'
      BY <1>1, <2>1, <2>3 DEF CallInv, Spent, Silent, Receiving
    <2> QED
      BY <1>1, <1>2, <2>1, <2>3, <2>4 DEF Turn, InvokeInv
  <1>6. CASE Open(i) /\ NoCallBack /\ props[i].output # "invalid"
    <2>1. /\ \A j \in Invokes \ {i} : call'[j] = call[j] /\ gzip'[j] = gzip[j]
          /\ call'[i] = "open"
      BY <1>6 DEF Open, TypeOK
    <2>2. ended'[i] = "none" /\ ~isDone'[i] /\ Quiet
      BY <1>2, <1>6 DEF NoCallBack, Quiet
    <2>3. CallInv(i)'
      BY <2>1, <2>2 DEF CallInv, Spent, Silent, Receiving
    <2> QED
      BY <1>1, <1>2, <2>1, <2>2, <2>3 DEF Turn, InvokeInv
  <1>7. CASE Open(i) /\ CallBack(i, "PropertyError", object) /\ props[i].output = "invalid"
    <2>1. /\ \A j \in Invokes \ {i} : call'[j] = call[j] /\ gzip'[j] = gzip[j]
          /\ call'[i] = "open"
      BY <1>7 DEF Open, TypeOK
    <2>2. "PropertyError" \in Outcomes
      BY DEF Outcomes
    <2>3. /\ isDone'[i] /\ ended'[i] # "none"
          /\ Quiet \/ Leaves(i, "PropertyError")
      BY <1>1, <1>2, <1>7, <2>2, CallBackEnds
    <2>4. CallInv(i)'
      BY <1>7, <2>1, <2>3 DEF CallInv, Spent, Silent, Receiving
    <2> QED
      BY <1>1, <1>2, <2>1, <2>2, <2>3, <2>4 DEF Turn, InvokeInv
  <1>8. \A outcome : Outcome(i, outcome) \in {"PropertyError", outcome}
    BY DEF Outcome
  <1> QED
    BY <1>3, <1>4, <1>5, <1>6, <1>7, <1>8 DEF Main, Outcomes

LEMMA StepTurns ==
  ASSUME TypeOK, FlowInv, NEW i \in Invokes, Step(i)
  PROVE  Turn(i)
  <1>1. InvokeInv(i) /\ CallInv(i) /\ "none" \notin Outcomes
    BY DEF FlowInv, InvokeInv, Outcomes
  <1>0. isDone[i] \/ ended[i] = "none"
    <2>1. call[i] # "closed" \/ gzip[i]
      BY DEF Step, Answered, Invoke, TlsProfileFound, Compressed, Response, ResponseEnd,
             RequestError, Timeout
    <2> QED
      BY <1>1, <2>1 DEF CallInv
  <1>2. CASE Invoke(i) /\ props[i].tlsProfile
    <2>1. /\ \A j \in Invokes \ {i} : call'[j] = call[j] /\ gzip'[j] = gzip[j]
          /\ call'[i] = "tlsProfile" /\ gzip'[i] = gzip[i] /\ ~gzip[i]
          /\ ended[i] = "none" /\ ~isDone[i] /\ flow.at = i /\ UNCHANGED <<props, response>>
      BY <1>1, <1>2 DEF Invoke, TypeOK, InvokeInv, CallInv
    <2>2. CASE NoCallBack
      <3>1. ended' = ended /\ isDone' = isDone /\ Quiet
        BY <2>2 DEF NoCallBack, Quiet
      <3>2. CallInv(i)'
        BY <1>2, <2>1, <3>1 DEF CallInv, Spent, Silent, Receiving
      <3> QED
        BY <1>0, <2>1, <3>1, <3>2 DEF Turn
    <2>3. CASE CallBack(i, "PropertyError", object) /\ props[i].output = "invalid"
      <3>1. "PropertyError" \in Outcomes
        BY DEF Outcomes
      <3>2. isDone'[i] /\ ended'[i] # "none" /\ (Quiet \/ Leaves(i, "PropertyError"))
        BY <1>1, <2>1, <2>3, <3>1, CallBackEnds
      <3>3. CallInv(i)'
        BY <1>2, <2>1, <2>3, <3>2 DEF CallInv, Spent, Silent, Receiving
      <3> QED
        BY <1>0, <2>1, <3>1, <3>2, <3>3 DEF Turn
    <2> QED
      BY <1>2, <2>2, <2>3 DEF Invoke
  <1>3. CASE Invoke(i) /\ ~props[i].tlsProfile
    BY <1>3, MainTurns DEF Invoke
  <1>4. CASE TlsProfileFound(i) /\ Main(i)
    BY <1>1, <1>4, MainTurns DEF TlsProfileFound, CallInv
  <1>5. CASE TlsProfileFound(i) /\ Close(i) /\ CallBack(i, "PropertyError", object)
    <2>1. /\ \A j \in Invokes \ {i} : call'[j] = call[j] /\ gzip'[j] = gzip[j]
          /\ call'[i] = "closed" /\ gzip'[i] = gzip[i] /\ ~gzip[i]
          /\ call[i] # "idle" /\ UNCHANGED <<props, response>>
      BY <1>1, <1>5 DEF TlsProfileFound, Close, TypeOK, CallInv
    <2>2. "PropertyError" \in Outcomes
      BY DEF Outcomes
    <2>3. isDone'[i] /\ ended'[i] # "none" /\ (Quiet \/ Leaves(i, "PropertyError"))
      BY <1>1, <1>5, <2>2, CallBackEnds DEF CallInv
    <2>4. CallInv(i)'
      BY <2>1, <2>3 DEF CallInv, Spent, Silent, Receiving
    <2> QED
      BY <1>0, <2>1, <2>2, <2>3, <2>4 DEF Turn
  <1>6. CASE Compressed(i)
    <2>1. call[i] \in {"open", "broken", "closed"}
      BY <1>1, <1>6 DEF Compressed, CallInv
    <2>2. /\ \A j \in Invokes \ {i} : call'[j] = call[j] /\ gzip'[j] = gzip[j]
          /\ gzip[i] /\ ~gzip'[i] /\ UNCHANGED <<props, response>>
      BY <1>6 DEF Compressed, Abort, TypeOK
    <2>3. CASE UNCHANGED call /\ NoCallBack
      <3>1. ended' = ended /\ isDone' = isDone /\ Quiet
        BY <2>3 DEF NoCallBack, Quiet
      <3>2. CallInv(i)'
        BY <1>1, <2>1, <2>2, <2>3, <3>1 DEF CallInv, Spent, Silent, Receiving
      <3> QED
        BY <1>0, <2>1, <2>2, <2>3, <3>1, <3>2 DEF Turn
    <2>4. CASE Abort(i) /\ CallBack(i, "Error", object)
      <3>1. call'[i] \in {"broken", "closed"}
        BY <2>1, <2>4 DEF Abort, TypeOK
      <3>2. "Error" \in Outcomes
        BY DEF Outcomes
      <3>3. isDone'[i] /\ ended'[i] # "none" /\ (Quiet \/ Leaves(i, "Error"))
        BY <1>1, <2>4, <3>2, CallBackEnds DEF CallInv
      <3>4. CallInv(i)'
        BY <2>2, <3>1, <3>3 DEF CallInv, Spent, Silent, Receiving
      <3> QED
        BY <1>0, <2>1, <2>2, <3>1, <3>2, <3>3, <3>4 DEF Turn
    <2> QED
      BY <1>6, <2>3, <2>4 DEF Compressed
  <1>7. CASE Response(i)
    <2>1. /\ \A j \in Invokes \ {i} :
               call'[j] = call[j] /\ gzip'[j] = gzip[j] /\ response'[j] = response[j]
          /\ call[i] = "open" /\ call'[i] = "body" /\ response'[i] # "none"
          /\ ~gzip[i] /\ gzip' = gzip /\ props' = props
      BY <1>7 DEF Response, TypeOK
    <2>2. ended' = ended /\ isDone' = isDone /\ Quiet
      BY <1>7 DEF Response, Quiet
    <2>3. CallInv(i)'
      BY <1>1, <2>1, <2>2 DEF CallInv, Spent, Silent, Receiving
    <2> QED
      BY <1>0, <2>1, <2>2, <2>3 DEF Turn
  <1>8. CASE ResponseEnd(i)
    <2>1. /\ \A j \in Invokes \ {i} : call'[j] = call[j] /\ gzip'[j] = gzip[j]
          /\ call[i] # "idle" /\ call'[i] = "closed" /\ gzip'[i] = gzip[i] /\ ~gzip[i]
          /\ UNCHANGED <<props, response>>
      BY <1>1, <1>8 DEF ResponseEnd, Close, TypeOK, CallInv
    <2>2. PICK outcome \in Outcomes :
            CallBack(i, outcome, [object EXCEPT ![WriteDst(i)].body = i])
      BY <1>8 DEF ResponseEnd, Outcomes
    <2>3. isDone'[i] /\ ended'[i] # "none" /\ (Quiet \/ Leaves(i, outcome))
      BY <1>1, <2>2, CallBackEnds DEF CallInv
    <2>4. CallInv(i)'
      BY <2>1, <2>3 DEF CallInv, Spent, Silent, Receiving
    <2> QED
      BY <1>0, <2>1, <2>3, <2>4 DEF Turn
  <1>9. CASE RequestError(i) \/ Timeout(i)
    <2>1. /\ \A j \in Invokes \ {i} : call'[j] = call[j] /\ gzip'[j] = gzip[j]
          /\ call[i] \in {"open", "body", "broken"}
          /\ call'[i] \in {"brokenBody", "broken", "closed"}
          /\ call'[i] = "brokenBody" => call[i] = "body"
          /\ gzip'[i] = gzip[i] /\ UNCHANGED <<props, response>>
      BY <1>9 DEF RequestError, Timeout, Abort, TypeOK
    <2>2. CallBack(i, "ConnectionError", object) /\ "ConnectionError" \in Outcomes
      BY <1>9 DEF RequestError, Timeout, Outcomes
    <2>3. /\ isDone'[i] /\ ended'[i] # "none"
          /\ ended'[i] = IF isDone[i] THEN ended[i] ELSE "ConnectionError"
          /\ Quiet \/ Leaves(i, "ConnectionError")
      BY <1>1, <2>2, CallBackEnds DEF CallInv
    <2>4. CallInv(i)'
      <3>1. gzip'[i] => call'[i] \in {"open", "broken", "closed"}
        BY <1>1, <2>1 DEF CallInv
      <3>2. Spent(i)'
        BY <1>1, <2>1, <2>3 DEF CallInv, Spent, Silent
      <3>3. Receiving(i)' => response'[i] # "none"
        BY <1>1, <2>1 DEF CallInv, Receiving
      <3> QED
        BY <2>1, <2>3, <3>1, <3>2, <3>3 DEF CallInv
    <2> QED
      BY <1>0, <2>1, <2>2, <2>3, <2>4 DEF Turn
  <1> QED
    BY <1>2, <1>3, <1>4, <1>5, <1>6, <1>7, <1>8, <1>9
       DEF Step, Answered, TlsProfileFound

\* Where the flow and the histories are after an invoke has ended.
LEMMA LeavesTo ==
  ASSUME TypeOK, NEW i \in Invokes, NEW outcome \in Outcomes, Leaves(i, outcome)
  PROVE  /\ \/ flow'.at = flow.at /\ flow'.state = "failed"
            \/ flow'.at = i + 1 /\ flow'.state = flow.state
         /\ ended'[i] = outcome /\ ended'[i] # "none"
         /\ \A j \in Invokes \ {i} : ended'[j] = ended[j] /\ isDone'[j] = isDone[j]
  <1>1. /\ ended'[i] = outcome /\ outcome # "none"
        /\ \A j \in Invokes \ {i} : ended'[j] = ended[j] /\ isDone'[j] = isDone[j]
    BY DEF Leaves, Ends, Outcomes, TypeOK
  <1>2. \/ flow'.at = flow.at /\ flow'.state = "failed"
        \/ flow'.at = i + 1 /\ flow'.state = flow.state
    BY DEF Leaves, Proceed, Fail, TypeOK
  <1> QED
    BY <1>1, <1>2

\* Only the invoke that the flow is at ends.
LEMMA LeavesAt ==
  ASSUME TypeOK, FlowInv, NEW i \in Invokes, NEW outcome \in Outcomes,
         Turn(i), Leaves(i, outcome)
  PROVE  i = flow.at /\ ended[i] = "none"
  <1>1. i \in Nat /\ flow.at \in Nat /\ InvokeInv(i)
    BY SettingsAssumption DEF Invokes, TypeOK, FlowInv
  <1>2. ended[i] = "none"
    BY DEF Turn, Leaves
  <1> QED
    BY <1>1, <1>2 DEF InvokeInv, Turn

LEMMA TurnKeepsFlow ==
  ASSUME TypeOK, FlowInv, NEW i \in Invokes, Turn(i), NEW j \in Invokes
  PROVE  InvokeInv(j)'
  <1>1. i \in Nat /\ j \in Nat /\ flow.at \in Nat
    BY SettingsAssumption DEF Invokes, TypeOK
  <1>2. InvokeInv(i) /\ InvokeInv(j)
    BY DEF FlowInv
  <1>3. /\ i <= flow.at /\ props' = props
        /\ j # i => call'[j] = call[j] /\ gzip'[j] = gzip[j] /\ response'[j] = response[j]
    BY <1>1, <1>2 DEF Turn, InvokeInv
  <1>4. CASE Quiet
    <2>1. isDone' = isDone /\ flow' = flow /\ ended' = ended
      BY <1>4 DEF Quiet
    <2>2. CASE j = i
      BY <1>1, <1>2, <1>3, <2>1, <2>2 DEF Turn, InvokeInv
    <2>3. CASE j # i
      <3>1. CallInv(j)'
        BY <1>2, <1>3, <2>1, <2>3 DEF InvokeInv, CallInv, Spent, Silent, Receiving
      <3> QED
        BY <1>2, <1>3, <2>1, <2>3, <3>1 DEF InvokeInv
    <2> QED
      BY <2>2, <2>3
  <1>5. CASE \E outcome \in Outcomes : Leaves(i, outcome)
    <2>1. PICK outcome \in Outcomes : Leaves(i, outcome)
      BY <1>5
    <2>2. i = flow.at /\ ended[i] = "none"
      BY <2>1, LeavesAt
    <2>3. /\ \/ flow'.at = flow.at /\ flow'.state = "failed"
             \/ flow'.at = i + 1 /\ flow'.state = flow.state
          /\ ended'[i] # "none"
          /\ j # i => ended'[j] = ended[j] /\ isDone'[j] = isDone[j]
      BY <2>1, LeavesTo
    <2>4. CASE j = i
      BY <1>1, <2>2, <2>3, <2>4 DEF Turn, InvokeInv
    <2>5. CASE j # i
      <3>1. CallInv(j)'
        BY <1>2, <1>3, <2>3, <2>5 DEF InvokeInv, CallInv, Spent, Silent, Receiving
      <3>2. /\ j < flow'.at => j < flow.at
            /\ j > flow'.at => j > flow.at
            /\ j = flow'.at => j > flow.at
        BY <1>1, <2>2, <2>3, <2>5
      <3> QED
        BY <1>2, <1>3, <2>3, <2>5, <3>1, <3>2 DEF InvokeInv
    <2> QED
      BY <2>4, <2>5
  <1> QED
    BY <1>4, <1>5 DEF Turn

LEMMA FlowPreserved ==
  ASSUME TypeOK, FlowInv, [Next]_vars
  PROVE  FlowInv'
  <1>1. CASE \E i \in Invokes : Step(i)
    BY <1>1, StepTurns, TurnKeepsFlow DEF FlowInv
  <1>2. CASE OtherPolicy
    BY <1>2 DEF OtherPolicy, FlowInv, InvokeInv, CallInv, Spent, Silent, Receiving
  <1>3. CASE UNCHANGED vars
    BY <1>3 DEF vars, FlowInv, InvokeInv, CallInv, Spent, Silent, Receiving
  <1> QED
    BY <1>1, <1>2, <1>3 DEF Next

-----------------------------------------------------------------------------
(* The objects. *)

\* What the beginning of a response writes, its end, and an ignored error.
Begun(i) == [object EXCEPT ![WriteDst(i)].status = i, ![WriteDst(i)].headers = i]

Finished(i) == [object EXCEPT ![WriteDst(i)].body = i]

Failed(i) == [object EXCEPT ![WriteDst(i)].status = i]

\* The four ways in which a step of i leaves the objects.
Unwritten(i) ==
  /\ object' = object
  /\ \/ Quiet /\ (isDone[i] \/ (Receiving(i)' <=> Receiving(i)))
     \/ \E outcome \in Outcomes :
          Leaves(i, outcome) /\ (Receiving(i) => outcome = "ConnectionError")

FirstTurn(i) ==
  Quiet /\ call[i] = "open" /\ Receiving(i)' /\ object' = Begun(i)

SecondTurn(i) ==
  /\ Receiving(i) /\ ~Receiving(i)' /\ object' = Finished(i)
  /\ (Quiet /\ isDone[i]) \/ \E outcome \in Outcomes : Leaves(i, outcome)

StatusOnly(i) == Leaves(i, "ConnectionError") /\ ~Stops(i) /\ object' = Failed(i)

LEMMA CallBackWrites ==
  ASSUME TypeOK, NEW i \in Invokes, NEW outcome \in Outcomes,
         CallBack(i, outcome, object), Receiving(i) => outcome = "ConnectionError"
  PROVE  Unwritten(i) \/ StatusOnly(i)
  BY CallBackCases DEF Unwritten, StatusOnly, Failed

LEMMA TurnedWrites ==
  ASSUME TypeOK, NEW i \in Invokes, Turned(i), ~Receiving(i), ~Receiving(i)',
         ThrownToFlow(i) => ~isDone[i]
  PROVE  Unwritten(i) \/ StatusOnly(i)
  <1>1. CASE NoCallBack
    BY <1>1 DEF NoCallBack, Unwritten, Quiet
  <1>2. CASE ThrownToFlow(i)
    <2>1. Leaves(i, "TypeError") /\ "TypeError" \in Outcomes /\ object' = object
      BY <1>2 DEF ThrownToFlow, Leaves, Outcomes
    <2> QED
      BY <2>1 DEF Unwritten
  <1>3. CASE \E outcome \in Outcomes : CallBack(i, outcome, object)
    BY <1>3, CallBackWrites
  <1> QED
    BY <1>1, <1>2, <1>3 DEF Turned

LEMMA StepWrites ==
  ASSUME TypeOK, FlowInv, NEW i \in Invokes, Step(i)
  PROVE  Unwritten(i) \/ FirstTurn(i) \/ SecondTurn(i) \/ StatusOnly(i)
  <1>1. CallInv(i) /\ InvokeInv(i)
    BY DEF FlowInv, InvokeInv
  <1>2. CASE call[i] \in {"idle", "tlsProfile"} /\ (Invoke(i) \/ TlsProfileFound(i))
    <2>1. ~Receiving(i) /\ ~Receiving(i)'
      BY <1>2 DEF Invoke, TlsProfileFound, Main, Close, Open, TypeOK, Receiving
    <2>2. Turned(i)
      BY <1>2 DEF Invoke, TlsProfileFound, Main, Outcome, Turned, Outcomes
    <2>3. ~isDone[i] \/ props[i].output = "invalid"
      BY <1>1, <1>2 DEF InvokeInv, CallInv, Spent, Silent
    <2>4. CASE props[i].output # "invalid"
      BY <2>1, <2>2, <2>3, <2>4, TurnedWrites
    <2>5. CASE props[i].output = "invalid"
      <3>1. NoCallBack \/ \E outcome \in Outcomes : CallBack(i, outcome, object)
        BY <1>2, <2>5 DEF Invoke, TlsProfileFound, Main, Outcome, Outcomes
      <3> QED
        BY <2>1, <3>1, CallBackWrites DEF NoCallBack, Unwritten, Quiet
    <2> QED
      BY <2>4, <2>5
  <1>3. CASE Compressed(i)
    <2>1. ~Receiving(i) /\ ~Receiving(i)'
      BY <1>1, <1>3 DEF Compressed, CallInv, Abort, TypeOK, Receiving
    <2>2. NoCallBack \/ \E outcome \in Outcomes : CallBack(i, outcome, object)
      BY <1>3 DEF Compressed, Outcomes
    <2> QED
      BY <2>1, <2>2, CallBackWrites DEF Unwritten, NoCallBack, Quiet
  <1>4. CASE Response(i)
    BY <1>4 DEF Response, FirstTurn, Begun, Quiet, Receiving, TypeOK
  <1>5. CASE ResponseEnd(i)
    <2>1. Receiving(i) /\ ~Receiving(i)'
      BY <1>5 DEF ResponseEnd, Close, Receiving, TypeOK
    <2>2. PICK outcome \in {"success", "OperationError"} : CallBack(i, outcome, Finished(i))
      BY <1>5 DEF ResponseEnd, Finished
    <2>3. outcome \in Outcomes /\ outcome # "ConnectionError"
      BY DEF Outcomes
    <2>4. object' = Finished(i) /\ ((isDone[i] /\ Quiet) \/ Leaves(i, outcome))
      BY <2>2, <2>3, CallBackCases
    <2> QED
      BY <2>1, <2>3, <2>4 DEF SecondTurn
  <1>6. CASE RequestError(i) \/ Timeout(i)
    <2>1. CallBack(i, "ConnectionError", object) /\ "ConnectionError" \in Outcomes
      BY <1>6 DEF RequestError, Timeout, Outcomes
    <2> QED
      BY <2>1, CallBackWrites
  <1> QED
    BY <1>2, <1>3, <1>4, <1>5, <1>6 DEF Step, Answered, Invoke, TlsProfileFound

\* Who has disturbed an object stays one who has.
LEMMA StillOrderly ==
  ASSUME TypeOK, TypeOK', FlowInv, FlowInv', NEW i \in Invokes, Turn(i), Orderly'
  PROVE  /\ Orderly /\ i <= flow.at
         /\ \/ flow' = flow /\ Quiet
            \/ i = flow.at /\ ended[i] = "none" /\ flow'.at = i + 1 /\ ~Disturbs(i)'
  <1>1. /\ i \in Nat /\ flow.at \in Nat /\ Invokes \subseteq Nat
        /\ InvokeInv(i) /\ props' = props
    BY SettingsAssumption DEF Invokes, TypeOK, FlowInv, Turn
  <1>2. i <= flow.at
    BY <1>1 DEF Turn, InvokeInv
  <1>3. flow'.state = "running" /\ \A j \in Invokes : j < flow'.at => ~Disturbs(j)'
    BY DEF Orderly
  <1>4. \A j \in Invokes \ {i} : ended'[j] = ended[j] => (Disturbs(j) <=> Disturbs(j)')
    BY <1>1 DEF Turn, Disturbs
  <1>5. CASE Quiet
    <2>1. flow' = flow /\ ended' = ended
      BY <1>5 DEF Quiet
    <2>2. Disturbs(i) => Disturbs(i)'
      BY <1>1, <2>1 DEF Disturbs, Turn
    <2> QED
      BY <1>2, <1>3, <1>4, <1>5, <2>1, <2>2 DEF Orderly
  <1>6. CASE \E outcome \in Outcomes : Leaves(i, outcome)
    <2>1. PICK outcome \in Outcomes : Leaves(i, outcome)
      BY <1>6
    <2>2. i = flow.at /\ ended[i] = "none"
      BY <2>1, LeavesAt
    <2>3. /\ flow'.at = i + 1 /\ flow'.state = flow.state
          /\ \A j \in Invokes \ {i} : ended'[j] = ended[j]
      BY <1>3, <2>1, LeavesTo
    <2>4. \A j \in Invokes : j < flow.at => j < flow'.at /\ j # i
      BY <1>1, <2>2, <2>3
    <2> QED
      BY <1>1, <1>2, <1>3, <1>4, <2>2, <2>3, <2>4 DEF Orderly
  <1> QED
    BY <1>5, <1>6 DEF Turn

LEMMA StepKeepsObjects ==
  ASSUME TypeOK, TypeOK', FlowInv, FlowInv', ObjectInv, NEW i \in Invokes, Step(i)
  PROVE  ObjectInv'
  <1> SUFFICES ASSUME Orderly', NEW o \in Objects
               PROVE  /\ Whole(o)' \/ (\E j \in Invokes : j = flow.at /\ Receiving(j) /\ o = WriteDst(j))'
                      /\ \A j \in Invokes : (j = flow'.at /\ Receiving(j)' /\ o = WriteDst(j)') =>
                           object'[o].status = j /\ object'[o].headers = j
    BY DEF ObjectInv
  <1>1. Turn(i)
    BY StepTurns
  <1>2. /\ Orderly /\ i <= flow.at
        /\ \/ flow' = flow /\ Quiet
           \/ i = flow.at /\ ended[i] = "none" /\ flow'.at = i + 1 /\ ~Disturbs(i)'
    BY <1>1, StillOrderly
  <1>3. i \in Nat /\ flow.at \in Nat /\ Invokes \subseteq Nat /\ WriteDst(i) \in Objects
    BY SettingsAssumption, DstIsObject DEF Invokes, TypeOK
  <1>4. /\ Whole(o) \/ \E j \in Invokes : j = flow.at /\ Receiving(j) /\ o = WriteDst(j)
        /\ \A j \in Invokes : (j = flow.at /\ Receiving(j) /\ o = WriteDst(j)) =>
             object[o].status = j /\ object[o].headers = j
    BY <1>2 DEF ObjectInv
  <1>5. /\ \A j \in Invokes : WriteDst(j)' = WriteDst(j)
        /\ \A j \in Invokes : j # i => Receiving(j)' = Receiving(j)
    BY <1>1 DEF Turn, WriteDst, Receiving
  <1>6. object \in [Objects -> Parts] /\ object[o] \in Parts
    BY DEF TypeOK
  <1>7. InvokeInv(i) /\ CallInv(i)
    BY DEF FlowInv, InvokeInv
  <1>8. CASE i < flow.at
    <2>1. flow' = flow /\ Quiet /\ ended[i] # "none" /\ ~Disturbs(i)
      BY <1>2, <1>3, <1>7, <1>8 DEF InvokeInv, Orderly
    <2>2. ~Receiving(i) /\ call[i] # "open" /\ isDone[i]
      BY <1>1, <1>7, <2>1 DEF CallInv, Spent, Silent, Disturbs, Receiving, Turn
    <2>3. object' = object
      BY <2>1, <2>2, StepWrites DEF Unwritten, FirstTurn, SecondTurn, StatusOnly, Leaves
    <2> QED
      BY <1>3, <1>4, <1>5, <1>8, <2>1, <2>3 DEF Whole
  <1>9. CASE i = flow.at /\ flow' = flow /\ Quiet
    <2>1. ended[i] = "none" /\ ~isDone[i]
      BY <1>2, <1>7, <1>9 DEF InvokeInv, CallInv, Orderly
    <2>2. \A outcome \in Outcomes : ~Leaves(i, outcome)
      <3> SUFFICES ASSUME NEW outcome \in Outcomes, Leaves(i, outcome) PROVE FALSE
        OBVIOUS
      <3>1. ended'[i] # "none"
        BY LeavesTo
      <3> QED
        BY <1>9, <2>1, <3>1 DEF Quiet
    <2>3. Unwritten(i) \/ FirstTurn(i)
      BY <2>1, <2>2, StepWrites DEF SecondTurn, StatusOnly, Outcomes
    <2>4. CASE Unwritten(i)
      <3>1. object' = object /\ (Receiving(i)' <=> Receiving(i))
        BY <2>1, <2>2, <2>4 DEF Unwritten
      <3> QED
        BY <1>4, <1>5, <1>9, <3>1 DEF Whole
    <2>5. CASE FirstTurn(i)
      <3>1. object' = Begun(i) /\ Receiving(i)' /\ ~Receiving(i)
        BY <2>5 DEF FirstTurn, Receiving
      <3>2. CASE o = WriteDst(i)
        <4>1. object'[o].status = i /\ object'[o].headers = i
          BY <1>3, <1>6, <3>1, <3>2 DEF Begun, Parts
        <4> QED
          BY <1>5, <1>9, <3>1, <3>2, <4>1
      <3>3. CASE o # WriteDst(i)
        <4>1. object'[o] = object[o]
          BY <1>6, <3>1, <3>3 DEF Begun
        <4> QED
          BY <1>4, <1>5, <1>9, <3>3, <4>1 DEF Whole
      <3> QED
        BY <3>2, <3>3
    <2> QED
      BY <2>3, <2>4, <2>5
  <1>10. CASE i = flow.at /\ ended[i] = "none" /\ flow'.at = i + 1 /\ ~Disturbs(i)'
    <2>1. \A j \in Invokes : j = flow'.at => ~Receiving(j)'
      <3> SUFFICES ASSUME NEW j \in Invokes, j = flow'.at PROVE ~Receiving(j)'
        OBVIOUS
      <3>1. call[j] = "idle" /\ j # i
        BY <1>3, <1>10 DEF FlowInv, InvokeInv
      <3> QED
        BY <1>5, <3>1 DEF Receiving
    <2>2. PICK outcome \in Outcomes : Leaves(i, outcome)
      <3>1. ~Quiet
        BY <1>3, <1>10 DEF Quiet
      <3> QED
        BY <1>1, <3>1 DEF Turn
    <2>3. ended'[i] = outcome /\ ~Quiet
      BY <1>3, <1>10, <2>2, LeavesTo DEF Quiet
    <2>4. \A other \in Outcomes : Leaves(i, other) => other = outcome
      BY <2>3, LeavesTo
    <2>5. outcome = "ConnectionError" => Stops(i) /\ ~Receiving(i)
      <3>1. props' = props /\ (response[i] # "none" => response'[i] # "none")
        BY <1>1 DEF Turn
      <3> QED
        BY <1>7, <1>10, <2>3, <3>1 DEF Disturbs, Stops, CallInv
    <2>6. Whole(o)'
      <3>1. CASE Unwritten(i)
        <4>1. object' = object /\ ~Receiving(i)
          BY <2>3, <2>4, <2>5, <3>1 DEF Unwritten
        <4> QED
          BY <1>4, <1>10, <4>1 DEF Whole
      <3>2. CASE SecondTurn(i)
        <4>1. object' = Finished(i) /\ Receiving(i)
          BY <3>2 DEF SecondTurn
        <4>2. CASE o = WriteDst(i)
          <5>1. object[o].status = i /\ object[o].headers = i
            BY <1>4, <1>10, <4>1, <4>2
          <5>2. /\ object'[o].body = i /\ object'[o].status = object[o].status
                /\ object'[o].headers = object[o].headers
            BY <1>6, <4>1, <4>2 DEF Finished, Parts
          <5> QED
            BY <5>1, <5>2 DEF Whole
        <4>3. CASE o # WriteDst(i)
          <5>1. object'[o] = object[o]
            BY <1>6, <4>1, <4>3 DEF Finished
          <5> QED
            BY <1>4, <1>10, <4>3, <5>1 DEF Whole
        <4> QED
          BY <4>2, <4>3
      <3>3. ~FirstTurn(i) /\ ~StatusOnly(i)
        BY <2>3, <2>4, <2>5 DEF FirstTurn, StatusOnly, Outcomes
      <3> QED
        BY <3>1, <3>2, <3>3, StepWrites
    <2> QED
      BY <2>1, <2>6
  <1> QED
    BY <1>2, <1>3, <1>8, <1>9, <1>10

LEMMA OtherPolicyKeepsObjects ==
  ASSUME TypeOK, ObjectInv, OtherPolicy
  PROVE  ObjectInv'
  <1> SUFFICES ASSUME Orderly', NEW o \in Objects
               PROVE  /\ Whole(o)'
                      /\ \A j \in Invokes : j = flow'.at => ~Receiving(j)'
    BY DEF ObjectInv
  <1>1. /\ Orderly /\ flow' = flow
        /\ \A j \in Invokes : j = flow.at => ~Receiving(j) /\ ~Receiving(j)'
    BY DEF OtherPolicy, Orderly, Disturbs, Receiving
  <1>2. Whole(o)
    BY <1>1 DEF ObjectInv
  <1>3. object'[o] \in {object[o], Untouched}
    BY DEF OtherPolicy, TypeOK
  <1>4. Whole(o)'
    BY <1>2, <1>3 DEF Whole, Untouched
  <1> QED
    BY <1>1, <1>4

LEMMA InitInvokeInv == Init => FlowInv /\ ObjectInv
  <1> SUFFICES ASSUME Init PROVE FlowInv /\ ObjectInv
    OBVIOUS
  <1>1. FlowInv
    BY SettingsAssumption
       DEF Init, FlowInv, InvokeInv, CallInv, Spent, Silent, Receiving, Invokes
  <1>2. \A o \in Objects : Whole(o)
    BY DEF Init, Whole, Untouched
  <1>3. \A i \in Invokes : ~Receiving(i)
    BY DEF Init, Receiving
  <1> QED
    BY <1>1, <1>2, <1>3 DEF ObjectInv

\* The inductive invariant of the invokes of an assembly.
THEOREM InvokeInductive == Spec => [](TypeOK /\ FlowInv /\ ObjectInv)
  <1>1. TypeOK /\ TypeOK' /\ FlowInv /\ ObjectInv /\ [Next]_vars
          => FlowInv' /\ ObjectInv'
    <2> SUFFICES ASSUME TypeOK, TypeOK', FlowInv, ObjectInv, [Next]_vars
                 PROVE  FlowInv' /\ ObjectInv'
      OBVIOUS
    <2>1. FlowInv'
      BY FlowPreserved
    <2>2. CASE \E i \in Invokes : Step(i)
      BY <2>1, <2>2, StepKeepsObjects
    <2>3. CASE OtherPolicy
      BY <2>1, <2>3, OtherPolicyKeepsObjects
    <2>4. CASE UNCHANGED vars
      BY <2>1, <2>4 DEF vars, ObjectInv, Orderly, Disturbs, Whole, Receiving, WriteDst
    <2> QED
      BY <2>1, <2>2, <2>3, <2>4 DEF Next
  <1> QED
    BY <1>1, InitInvokeInv, InvokeTypeCorrect, PTL DEF Spec

\* What another policy reads of the message, or of an output, is of one answer,
\* as long as no invoke before it lost its connection in the middle of an answer,
\* went on without one, or had an invalid output.
THEOREM MessageWholeHolds == Spec => []MessageWhole
  <1>1. TypeOK /\ FlowInv /\ ObjectInv => MessageWhole
    <2> SUFFICES ASSUME ObjectInv, Orderly, Between, NEW o \in Objects
                 PROVE  Whole(o)
      BY DEF MessageWhole, Orderly, Whole
    <2>1. \A i \in Invokes : i = flow.at => ~Receiving(i)
      BY DEF Between, Receiving
    <2> QED
      BY <2>1 DEF ObjectInv
  <1> QED
    BY <1>1, InvokeInductive, PTL

\* An invoke with a valid output that has called back writes no status and no headers
\* any more, and a body only if its answer had begun.
THEOREM LateWritesBodyOnlyHolds == Spec => LateWritesBodyOnly
  <1> DEFINE BodyOnly ==
        \A i \in Invokes : (isDone[i] /\ props[i].output # "invalid") =>
          \A o \in Objects :
            /\ object'[o].status = i => object[o].status = i
            /\ object'[o].headers = i => object[o].headers = i
            /\ object'[o].body = i => object[o].body = i \/ response[i] # "none"
  <1>1. TypeOK /\ FlowInv /\ [Next]_vars => BodyOnly \/ UNCHANGED vars
    <2> SUFFICES ASSUME TypeOK, FlowInv, Next,
                        NEW i \in Invokes, isDone[i], props[i].output # "invalid",
                        NEW o \in Objects
                 PROVE  /\ object'[o].status = i => object[o].status = i
                        /\ object'[o].headers = i => object[o].headers = i
                        /\ object'[o].body = i => object[o].body = i \/ response[i] # "none"
      OBVIOUS
    <2>1. object \in [Objects -> Parts] /\ object[o] \in Parts /\ i # 0
      BY SettingsAssumption DEF TypeOK, Invokes
    <2>2. CASE OtherPolicy
      BY <2>1, <2>2 DEF OtherPolicy, Untouched
    <2>3. CASE Step(i)
      <3>1. CallInv(i)
        BY DEF FlowInv, InvokeInv
      <3>2. \A outcome : ~Leaves(i, outcome)
        BY DEF Leaves
      <3>3. object' = object \/ (Receiving(i) /\ object' = Finished(i))
        BY <2>3, <3>1, <3>2, StepWrites
           DEF CallInv, Spent, Silent, Unwritten, FirstTurn, SecondTurn, StatusOnly
      <3>4. object' = Finished(i) =>
              object'[o].status = object[o].status /\ object'[o].headers = object[o].headers
        BY <2>1 DEF Finished, Parts
      <3> QED
        BY <3>1, <3>3, <3>4 DEF CallInv
    <2>4. ASSUME NEW j \in Invokes, Step(j), j # i
          PROVE  \A part \in {"status", "headers", "body"} :
                   object'[o][part] = i => object[o][part] = i
      <3>1. object' \in {object, Begun(j), Finished(j), Failed(j)}
        BY <2>4, StepWrites DEF Unwritten, FirstTurn, SecondTurn, StatusOnly
      <3>2. CASE o # WriteDst(j)
        BY <2>1, <3>1, <3>2 DEF Begun, Finished, Failed
      <3>3. CASE o = WriteDst(j) /\ object' # object
        <4>1. object'[o] \in {[object[o] EXCEPT !.status = j, !.headers = j],
                              [object[o] EXCEPT !.body = j], [object[o] EXCEPT !.status = j]}
          BY <2>1, <3>1, <3>3 DEF Begun, Finished, Failed
        <4> QED
          BY <2>1, <2>4, <4>1 DEF Parts
      <3> QED
        BY <3>2, <3>3
    <2> QED
      BY <2>2, <2>3, <2>4 DEF Next
  <1> QED
    BY <1>1, InvokeInductive, PTL DEF Spec, LateWritesBodyOnly
=============================================================================
