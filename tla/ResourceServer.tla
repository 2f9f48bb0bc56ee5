-------------------------- MODULE ResourceServer --------------------------
(***************************************************************************)
(* The OAuth 2.0 resource server: validation of the bearer token of a      *)
(* request for one security requirement (lib/oauth2/resource-server).      *)
(* The token is decoded and its dates are checked at once; the record of   *)
(* the token table is then looked up.  A token that was accepted once is   *)
(* kept in the request's context and never validated again.                *)
(***************************************************************************)
EXTENDS SecuritySchemes

CONSTANT Bearers  \* the bearer tokens a request may present

VARIABLES
  bearer,   \* the token of the Authorization header
  listed,   \* the token table still holds the record of the token
  lookup,   \* the evaluations: whether findById has been called or answered
  oauth     \* ctx.oauth: {}, or the evaluation that validated the token

oauthVars == <<bearer, listed, lookup, oauth>>

\* What jws and JSON.parse make of the token, and how it compares with the
\* record of the same jti in the token table.  The payload of a "primitive" is
\* JSON, but no object: null, a number, a string or a Boolean.
BearerKinds == {"absent", "undecodable", "primitive", "malformed", "expired",
                "forged", "mismatched", "genuine"}

\* otherApp: the appId parameter of the query is not the application's.
ASSUME BearersAssumption ==
  Bearers \subseteq [kind: BearerKinds, scopes: SUBSET Scopes, otherApp: BOOLEAN]

OauthTypeOK ==
  /\ bearer \in Bearers
  /\ listed \in BOOLEAN
  /\ lookup \in [Evaluations -> {"idle", "pending", "done"}]
  /\ oauth \in SUBSET Evaluations

OauthInit ==
  /\ bearer \in Bearers
  /\ listed = TRUE
  /\ lookup = [e \in Evaluations |-> "idle"]
  /\ oauth = {}

\* error.status.code, for a token refused before the table is read; None for
\* passport's plain failure, which sets nothing.
RefusedAtOnce ==
  CASE bearer.kind = "absent" -> None
    [] bearer.kind = "malformed" -> 400
    [] OTHER -> 401

\* decodeToken sets the dates of the payload outside of its try: a TypeError of
\* strict mode, which nothing up to the promise of the candidate catches.
DecodingThrows == oauth = {} /\ bearer.kind = "primitive"

\* evalOauth2: TRUE when it calls back before it returns.
AnsweredAtOnce ==
  oauth # {} \/ bearer.kind \in {"absent", "undecodable", "malformed", "expired"}

BeginValidation(e) ==
  /\ lookup' = [lookup EXCEPT ![e] = IF AnsweredAtOnce THEN "done" ELSE "pending"]
  /\ UNCHANGED <<bearer, listed, oauth>>

\* Seeded fault, no part of the specification: scopes that are not compared.
FaultyValidated(required) ==
  listed /\ bearer.kind = "genuine" /\ ~bearer.otherApp

\* The record is there, signed the token, agrees with it, and covers the
\* requirement.
Validated(required) ==
  /\ listed /\ bearer.kind = "genuine"
  /\ required \subseteq bearer.scopes
  /\ ~bearer.otherApp

\* error.status.code, for a record that findById answered.
RefusedRecord(required) ==
  IF /\ listed /\ bearer.kind = "genuine"
     /\ ~(required \subseteq bearer.scopes) \/ bearer.otherApp
  THEN 403 ELSE 401

TokenFound(e, required) ==
  /\ lookup[e] = "pending"
  /\ lookup' = [lookup EXCEPT ![e] = "done"]
  /\ oauth' = IF Validated(required) THEN {e} ELSE oauth
  /\ UNCHANGED <<bearer, listed>>

\* findById fails: server_error.
LookupFailed(e) ==
  /\ lookup[e] = "pending"
  /\ lookup' = [lookup EXCEPT ![e] = "done"]
  /\ UNCHANGED <<bearer, listed, oauth>>

\* The token expires from the table, or is revoked, at any time.
Unlist ==
  /\ listed /\ listed' = FALSE
  /\ UNCHANGED <<bearer, lookup, oauth>>
=============================================================================
