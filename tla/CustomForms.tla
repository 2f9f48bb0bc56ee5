---------------------------- MODULE CustomForms ----------------------------
(***************************************************************************)
(* The custom login and consent forms of an OAuth provider                 *)
(* (middleware/custom-login-form.js, custom-consent-form.js and            *)
(* retrieveForm of middleware/utils.js): each is retrieved once, when the  *)
(* provider is set up, and the requests that come before it queue for it.  *)
(***************************************************************************)
EXTENDS Naturals, Sequences, FiniteSets, SequencesExt

CONSTANTS
  Dialogs,  \* requests for authorization
  Pages     \* what the remote servers may send

Forms == {"login", "consent"}

\* A form element: whether its attributes are as required, and the values of its
\* approve buttons.
FormElements == [posts: BOOLEAN, buttons: SUBSET {"true", "false"}]

\* A page: whether it has the action and the hidden fields, its form elements, and
\* whether it has both notices of a login form.
ASSUME PagesAssumption ==
  Pages \subseteq [valid: BOOLEAN, elements: Seq(FormElements), notices: BOOLEAN]

NoPage == <<>>

VARIABLES
  connection,    \* how far each retrieval is
  customPage,    \* customPage, at most one
  loadingError,  \* loadingError
  pending,       \* pendingRequest, while it is defined
  queued,        \* whether it is
  login,         \* oauth2.client.logined of each request, as it arrives
  stage,         \* where each request is
  answer,        \* the page each request was answered with
  thrown         \* an exception nobody caught has ended the process

retrievalVars == <<connection, customPage, loadingError, pending, queued>>
dialogVars == <<login, stage, answer>>
formVars == <<retrievalVars, dialogVars, thrown>>

Connections == {"unused", "connecting", "reading", "unread", "broken", "ended"}

Answers == [form: Forms, notice: {"none", "first", "failed"}, whole: BOOLEAN]

NoAnswer == [form |-> "none"]
AuthorizationError == [form |-> "error"]

FormTypeOK ==
  /\ connection \in [Forms -> Connections]
  /\ customPage \in [Forms -> {NoPage} \cup {<<p>> : p \in Pages}]
  /\ loadingError \in [Forms -> BOOLEAN]
  /\ pending \in [Forms -> SUBSET Dialogs] /\ queued \in [Forms -> BOOLEAN]
  /\ login \in [Dialogs -> {"undefined", "false", "true"}]
  /\ stage \in [Dialogs -> {"new", "login", "authorize", "consent", "answered"}]
  /\ answer \in [Dialogs -> Answers \cup {NoAnswer, AuthorizationError}]
  /\ thrown \in BOOLEAN

FormInit ==
  /\ connection = [f \in Forms |-> "unused"]
  /\ customPage = [f \in Forms |-> NoPage]
  /\ loadingError = [f \in Forms |-> FALSE]
  /\ pending = [f \in Forms |-> {}] /\ queued = [f \in Forms |-> TRUE]
  /\ login \in [Dialogs -> {"undefined", "false", "true"}]
  /\ stage = [r \in Dialogs |-> "new"]
  /\ answer = [r \in Dialogs |-> NoAnswer]
  /\ thrown = FALSE

-----------------------------------------------------------------------------
(* Rendering. *)

FindForm(element) == element.posts /\ {"true", "false"} \subseteq element.buttons

\* Exactly one element of a consent page is the form.
Compiles(page) == Len(SelectSeq(page.elements, FindForm)) = 1

\* The login page with one of its notices.  Where it lacks one, the place of that
\* notice is the beginning of the page, which is lost.
LoginPage(page, r) ==
  [form |-> "login", notice |-> IF login[r] = "undefined" THEN "first" ELSE "failed",
   whole |-> page.notices]

ConsentPage == [form |-> "consent", notice |-> "none", whole |-> TRUE]

-----------------------------------------------------------------------------
(* A request, and the form it comes to. *)

Answered(rs, a) ==
  /\ stage' = [r \in Dialogs |-> IF r \in rs THEN "answered" ELSE stage[r]]
  /\ answer' = [r \in Dialogs |-> IF r \in rs THEN a[r] ELSE answer[r]]

Queue(r, f) ==
  /\ pending' = [pending EXCEPT ![f] = @ \cup {r}]
  /\ stage' = [stage EXCEPT ![r] = f]
  /\ UNCHANGED <<answer, connection, customPage, loadingError, queued>>

\* Those who have logged in go on to isAuthorizedHandler.
Pass(r) == stage' = [stage EXCEPT ![r] = "authorize"] /\ UNCHANGED answer

AskLogin(r) ==
  /\ ~thrown /\ stage[r] = "new"
  /\ \/ /\ customPage["login"] = NoPage /\ ~loadingError["login"]
        /\ Queue(r, "login")
     \/ /\ customPage["login"] = NoPage /\ loadingError["login"]
        /\ Answered({r}, [x \in {r} |-> AuthorizationError]) /\ UNCHANGED retrievalVars
     \/ /\ customPage["login"] # NoPage
        /\ IF login[r] = "true" THEN Pass(r)
           ELSE Answered({r}, [x \in {r} |-> LoginPage(customPage["login"][1], r)])
        /\ UNCHANGED retrievalVars
  /\ UNCHANGED <<login, thrown>>

ConsentAnswer(failed) == IF failed THEN AuthorizationError ELSE ConsentPage

\* The store has answered to isAuthorizedHandler, which goes on to the consent form.
AskConsent(r) ==
  /\ ~thrown /\ stage[r] = "authorize"
  /\ IF customPage["consent"] = NoPage /\ ~loadingError["consent"]
     THEN Queue(r, "consent")
     ELSE /\ Answered({r}, [x \in {r} |-> ConsentAnswer(loadingError["consent"])])
          /\ UNCHANGED retrievalVars
  /\ UNCHANGED <<login, thrown>>

AuthorizationFails(r) ==
  /\ ~thrown /\ stage[r] = "authorize"
  /\ Answered({r}, [x \in {r} |-> AuthorizationError])
  /\ UNCHANGED <<retrievalVars, login, thrown>>

-----------------------------------------------------------------------------
(* The callback of the login form, whose page is one or none.  The handlers of *)
(* the queue are called in turn; that of a request which is not logged in      *)
(* renders the page, whether there is one or not.                              *)

LoginReplayed(page) ==
  LET rs == pending["login"]
      ToPage == {r \in rs : login[r] # "true"}
  IN /\ stage' = [r \in Dialogs |-> IF r \in ToPage THEN "answered"
                                    ELSE IF r \in rs THEN "authorize" ELSE stage[r]]
     /\ answer' = [r \in Dialogs |->
          IF r \in ToPage THEN LoginPage(page[1], r) ELSE answer[r]]

LoginDone(page, to) ==
  /\ customPage' = IF page # NoPage THEN [customPage EXCEPT !["login"] = page] ELSE customPage
  /\ loadingError' = [loadingError EXCEPT !["login"] = (page = NoPage)]
  /\ connection' = [connection EXCEPT !["login"] = to]
  /\ IF ~queued["login"]
     THEN thrown' = TRUE /\ UNCHANGED <<pending, queued, dialogVars>>
     ELSE IF customPage'["login"] = NoPage
             /\ \E r \in pending["login"] : login[r] # "true"
     THEN \* the replay stops where it throws, with pendingRequest still defined
          thrown' = TRUE /\ UNCHANGED <<pending, queued, dialogVars>>
     ELSE /\ LoginReplayed(customPage'["login"])
          /\ pending' = [pending EXCEPT !["login"] = {}]
          /\ queued' = [queued EXCEPT !["login"] = FALSE]
          /\ UNCHANGED <<login, thrown>>

\* Seeded fault, no part of Spec: an error does not call the queue.
FaultyConsentReplayed(failed) ==
  /\ UNCHANGED <<stage, answer>> /\ pending' = [pending EXCEPT !["consent"] = {}]

\* The queue of the consent form, whose handler looks at the error.
ConsentReplayed(failed) ==
  /\ Answered(pending["consent"], [r \in pending["consent"] |-> ConsentAnswer(failed)])
  /\ pending' = [pending EXCEPT !["consent"] = {}]

ConsentDone(page, to) ==
  LET compiled == page # NoPage /\ Compiles(page[1])
  IN /\ customPage' = IF compiled THEN [customPage EXCEPT !["consent"] = page] ELSE customPage
     /\ loadingError' = [loadingError EXCEPT !["consent"] = @ \/ ~compiled]
     /\ connection' = [connection EXCEPT !["consent"] = to]
     /\ IF ~queued["consent"]
        THEN thrown' = TRUE /\ UNCHANGED <<pending, queued, dialogVars>>
        ELSE /\ ConsentReplayed(loadingError'["consent"])
             /\ queued' = [queued EXCEPT !["consent"] = FALSE]
             /\ UNCHANGED <<login, thrown>>

Done(f, page, to) == IF f = "login" THEN LoginDone(page, to) ELSE ConsentDone(page, to)

-----------------------------------------------------------------------------
(* retrieveForm. *)

At(f, from) == ~thrown /\ connection[f] = from

\* The provider is set up: both forms are asked for.
Retrieve ==
  /\ ~thrown /\ \A f \in Forms : connection[f] = "unused"
  /\ connection' = [f \in Forms |-> "connecting"]
  /\ UNCHANGED <<customPage, loadingError, pending, queued, dialogVars, thrown>>

Respond(f) ==
  /\ At(f, "connecting") /\ connection' = [connection EXCEPT ![f] = "reading"]
  /\ UNCHANGED <<customPage, loadingError, pending, queued, dialogVars, thrown>>

\* Another status than 200: done, and the response is not read.
RespondBadly(f) == At(f, "connecting") /\ Done(f, NoPage, "unread")

\* The error event of the request, before the response or after it.
RequestError(f) ==
  \/ At(f, "connecting") /\ Done(f, NoPage, "ended")
  \/ At(f, "unread") /\ Done(f, NoPage, "ended")
  \/ At(f, "reading") /\ Done(f, NoPage, "broken")

\* The end of the response, also of one that has broken off.
ResponseEnd(f) ==
  /\ At(f, "reading") \/ At(f, "broken")
  /\ \E p \in Pages : Done(f, IF p.valid THEN <<p>> ELSE NoPage, "ended")

ResponseError(f) == At(f, "broken") /\ Done(f, NoPage, "ended")

FormStep(f) == Respond(f) \/ RespondBadly(f) \/ RequestError(f) \/ ResponseEnd(f)
               \/ ResponseError(f)

DialogStep(r) == AskLogin(r) \/ AskConsent(r) \/ AuthorizationFails(r)

-----------------------------------------------------------------------------
\* done has been called.
Settled(f) == connection[f] \in {"unread", "broken", "ended"}

\* A request waits for a form only while its retrieval is under way, and what it is
\* answered with is that form as it was loaded, with the notice of its login.
DialogsServed ==
  ~thrown => \A r \in Dialogs :
    /\ \A f \in Forms : stage[r] = f <=> r \in pending[f]
    /\ \A f \in Forms : stage[r] = f => ~Settled(f)
    /\ stage[r] = "answered" <=> answer[r] # NoAnswer
    /\ \A f \in Forms : answer[r].form = f => customPage[f] # NoPage /\ ~loadingError[f]
    /\ answer[r].form = "login" =>
         /\ login[r] # "true"
         /\ answer[r] = LoginPage(customPage["login"][1], r)
    /\ stage[r] \in Forms \ {"login"} => login[r] = "true"
=============================================================================
