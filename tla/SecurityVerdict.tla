-------------------------- MODULE SecurityVerdict --------------------------
(***************************************************************************)
(* What the security check promises, without the way it evaluates the      *)
(* requirements.  A Swagger security requirement lists schemes that must   *)
(* all pass, an operation lists requirements of which one must pass, and   *)
(* the candidate APIs of a request are decided one after the other.  A     *)
(* scheme without a definition makes its candidate fail with an error; an  *)
(* exception leaves the candidate without a verdict, and the request       *)
(* without an answer.                                                      *)
(***************************************************************************)
EXTENDS Naturals, Sequences

CONSTANTS Candidates, Evaluations, Statuses, None

VARIABLES
  apis,     \* the candidate APIs
  planId,   \* the X-IBM-Plan-Id header
  outcome,  \* what each evaluation of a scheme has answered so far
  verdict,  \* what each candidate comes to
  answer    \* how the middleware ends

vars == <<apis, planId, outcome, verdict, answer>>

Outcomes == {"none", "pending", "pass", "fail", "missing"}

Verdicts == {"open", "passed", "refused", "error", "thrown"}

\* No verdict that the next candidate, or the choice, may follow.
Undecided == {"open", "thrown"}

\* A requirement r of c that passed in full, under the outcomes o.
Granted(o, c) ==
  \/ apis[c].preflight \/ apis[c].reqs = <<>>
  \/ \E r \in DOMAIN apis[c].reqs :
       \A s \in DOMAIN apis[c].reqs[r] : o[<<c, r, s>>] = "pass"

\* Every requirement has a scheme that failed.
Refused(o, c) ==
  \A r \in DOMAIN apis[c].reqs :
    \E s \in DOMAIN apis[c].reqs[r] : o[<<c, r, s>>] = "fail"

\* A scheme has no definition.
Undefined(o, c) ==
  \E r \in DOMAIN apis[c].reqs :
    \E s \in DOMAIN apis[c].reqs[r] : o[<<c, r, s>>] = "missing"

\* Only the validation of a token may throw.
Throwing(c) ==
  \E r \in DOMAIN apis[c].reqs : \E s \in DOMAIN apis[c].reqs[r] :
    apis[c].reqs[r][s].type = "oauth2"

Decided(o, c, v) ==
  \/ v = "open"
  \/ v = "thrown" /\ Throwing(c)
  \/ v = "passed" /\ Granted(o, c)
  \/ v = "refused" /\ Refused(o, c)
  \/ v = "error" /\ Undefined(o, c)

Init ==
  /\ outcome = [e \in Evaluations |-> "none"]
  /\ verdict = [c \in Candidates |-> "open"]
  /\ answer = None

\* A candidate's schemes begin and answer once the earlier candidates are
\* decided; the first verdict of a candidate is its last one.
Evaluate(c) ==
  /\ c \in DOMAIN apis
  /\ \A b \in Candidates : b < c => verdict[b] \notin Undecided
  /\ outcome' \in [Evaluations -> Outcomes]
  /\ \A e \in Evaluations : outcome'[e] # outcome[e] =>
       e[1] = c /\ outcome[e] \in {"none", "pending"} /\ outcome'[e] # "none"
  /\ \E v \in Verdicts :
       /\ v # verdict[c] => verdict[c] = "open" /\ Decided(outcome', c, v)
       /\ verdict' = [verdict EXCEPT ![c] = v]
  /\ UNCHANGED <<apis, planId, answer>>

Passed == {c \in DOMAIN apis : verdict[c] = "passed"}

\* A request goes on with a candidate that passed, the one of the plan it names
\* when there is a choice, with a subscription unless nothing was required.
Entitled(c) ==
  /\ c \in Passed
  /\ (\E b \in Passed : apis[b].plan = planId) /\ Passed # {c} =>
       apis[c].plan = planId
  /\ apis[c].active \/ apis[c].preflight \/ apis[c].reqs = <<>>
  /\ ~apis[c].suspended

Choose ==
  /\ answer = None
  /\ \A c \in DOMAIN apis : verdict[c] \notin Undecided
  /\ \/ \E c \in Passed : Entitled(c) /\ answer' = [next |-> c]
     \/ \E status \in Statuses : answer' = [error |-> status]
  /\ UNCHANGED <<apis, planId, outcome, verdict>>

Next == Choose \/ \E c \in Candidates : Evaluate(c)

Spec == Init /\ [][Next]_vars
=============================================================================
