----------------------------- MODULE Analytics -----------------------------
(***************************************************************************)
(* The analytics middleware: an event of every request that has reached an *)
(* API is queued, and the queue is uploaded when it is full or its timer   *)
(* runs out.  Whether an upload succeeds is logged only.                   *)
(***************************************************************************)
EXTENDS Traffic

CONSTANT BatchSize  \* queueSize

ASSUME BatchAssumption == BatchSize \in Nat \ {0}

VARIABLES
  handshaken,  \* clientID is set
  captured,    \* the requests whose finish event is listened to
  queue,       \* pushQueue
  timer,       \* pushTimer is set, and pending
  uploads      \* how often the event of each request was uploaded

analyticsVars == <<handshaken, captured, queue, timer, uploads>>

AnalyticsTypeOK ==
  /\ handshaken \in BOOLEAN
  /\ captured \subseteq Requests
  /\ queue \in Seq(Requests) /\ Len(queue) < BatchSize
  /\ timer \in BOOLEAN
  /\ uploads \in [Requests -> 0..1]

AnalyticsInit ==
  /\ handshaken = FALSE /\ captured = {} /\ queue = <<>> /\ timer = FALSE
  /\ uploads = [r \in Requests |-> 0]

-----------------------------------------------------------------------------
\* performHandshake has got its answer.
Handshake ==
  /\ ~handshaken /\ handshaken' = TRUE
  /\ UNCHANGED <<captured, queue, timer, uploads>>

\* captureActivity.
Capture(r) ==
  /\ captured' = IF handshaken THEN captured \cup {r} ELSE captured
  /\ UNCHANGED <<handshaken, queue, timer, uploads>>

\* batchPublish, with the queue as it is then.
BatchPublish(q) ==
  /\ uploads' = [r \in Requests |->
                   uploads[r] + (IF \E i \in DOMAIN q : q[i] = r THEN 1 ELSE 0)]
  /\ queue' = <<>> /\ timer' = FALSE

\* Seeded fault, no part of the specification: no timer is started.
FaultyStartTimer == UNCHANGED timer

StartTimer == timer' = TRUE

\* Seeded fault, no part of the specification: the batch is published without the
\* event that makes it full.
FaultyProcess(r) ==
  /\ IF Len(queue) + 1 >= BatchSize
     THEN BatchPublish(queue)
     ELSE queue' = Append(queue, r) /\ StartTimer /\ UNCHANGED uploads
  /\ UNCHANGED <<handshaken, captured>>

\* The listener of the finish event: processApiEvent.
Process(r) ==
  /\ IF Len(queue) + 1 >= BatchSize
     THEN BatchPublish(Append(queue, r))
     ELSE queue' = Append(queue, r) /\ StartTimer /\ UNCHANGED uploads
  /\ UNCHANGED <<handshaken, captured>>

\* The timer runs out.
PushTimer ==
  /\ timer /\ BatchPublish(queue)
  /\ UNCHANGED <<handshaken, captured>>
=============================================================================
