----------------------------- MODULE BasicAuth -----------------------------
(***************************************************************************)
(* HTTP basic authentication of a request against an authentication URL or *)
(* an LDAP registry (eval-basic.js, basic-ldap.js).  The operators are the *)
(* steps of one evaluation e of a definition def; the module of the        *)
(* security check decides when they happen.  The authentication server,    *)
(* the LDAP directory and the datastore answer anything they may answer.   *)
(***************************************************************************)
EXTENDS SecuritySchemes

VARIABLES
  authorization,  \* the scheme of the Authorization header
  login,          \* each evaluation: the call it waits for and its error
  client,         \* the LDAP client of each evaluation
  bound           \* history: whose credentials the directory accepted

basicVars == <<authorization, login, client, bound>>

\* LDAP calls, while which the client's connection is open.
LdapSteps == {"bindAdmin", "search", "bindUser", "bindGroup", "searchGroup"}

WaitingSteps == {"http", "tlsProfile", "registry", "registryTls"} \cup LdapSteps

\* error.statusCode: 401 marks bad credentials, 500 stands for any other one.
LoginErrors == {401, 500}

ASSUME NoErrorAssumption == None \notin LoginErrors

BasicTypeOK ==
  /\ authorization \in {"absent", "Basic", "other"}
  /\ login \in [Evaluations -> [step: WaitingSteps \cup {"idle", "done"},
                                error: LoginErrors \cup {None}]]
  /\ client \in [Evaluations -> {"none", "open", "unbound"}]
  /\ bound \in [Evaluations -> SUBSET {"admin", "user"}]

BasicInit ==
  /\ authorization \in {"absent", "Basic", "other"}
  /\ login = [e \in Evaluations |-> [step |-> "idle", error |-> None]]
  /\ client = [e \in Evaluations |-> "none"]
  /\ bound = [e \in Evaluations |-> {}]

-----------------------------------------------------------------------------
(* Seeded faults, none of them part of the specification. *)

\* A user found in the directory whose password is not tried.
FaultyFound(def, n) ==
  IF (def.authMethod = "searchDN" /\ n = 1) \/ (def.authMethod = "composeUPN" /\ n > 0)
  THEN IF def.groupAuth = "none" THEN "done" ELSE "bindGroup"
  ELSE "failed"

\* A rejection of the datastore that nobody catches.
FaultyTlsProfileFound(e) ==
  /\ login[e].step = "tlsProfile"
  /\ \E step \in {"http", "idle"} : login' = [login EXCEPT ![e].step = step]
  /\ UNCHANGED <<authorization, client, bound>>

-----------------------------------------------------------------------------
\* The call with which basicAuth begins, or the error with which it ends.
FirstLogin(def) ==
  CASE authorization # "Basic" -> [step |-> "done", error |-> 401]
    [] authorization = "Basic" /\ def.registry = "odd" -> [step |-> "done", error |-> 500]
    [] authorization = "Basic" /\ def.registry = "name" -> [step |-> "registry", error |-> None]
    [] authorization = "Basic" /\ def.registry = "none" ->
         CASE def.url = "odd" -> [step |-> "done", error |-> 500]
           [] def.url = "https" /\ def.tlsProfile -> [step |-> "tlsProfile", error |-> None]
           [] OTHER -> [step |-> "http", error |-> None]

BeginLogin(e, def) ==
  /\ login' = [login EXCEPT ![e] = FirstLogin(def)]
  /\ UNCHANGED <<authorization, client, bound>>

Goto(e, step) == login' = [login EXCEPT ![e].step = step]

\* done(error).  The client, when there is one, is unbound first.
EndLogin(e, error) ==
  /\ login' = [login EXCEPT ![e] = [step |-> "done", error |-> error]]
  /\ client' = [client EXCEPT ![e] = IF @ = "open" THEN "unbound" ELSE @]

-----------------------------------------------------------------------------
(* The authentication URL and the datastore. *)

\* The status of the answer below 400, another one, or a connection error;
\* the request times out in the end.
HttpAnswered(e) ==
  /\ login[e].step = "http"
  /\ \E error \in LoginErrors \cup {None} : EndLogin(e, error)
  /\ UNCHANGED <<authorization, bound>>

TlsProfileFound(e) ==
  /\ login[e].step = "tlsProfile"
  /\ Goto(e, "http") \/ login' = [login EXCEPT ![e] = [step |-> "done", error |-> 500]]
  /\ UNCHANGED <<authorization, client, bound>>

\* createClient, and the first call of authSearchDN, authComposeDN or
\* authComposeUPN.  An unknown method throws before there is a client.
Connect(e, def) ==
  IF def.authMethod = "odd"
  THEN EndLogin(e, 500)
  ELSE /\ client' = [client EXCEPT ![e] = "open"]
       /\ Goto(e, CASE def.authMethod = "searchDN" /\ def.authenticatedBind -> "bindAdmin"
                    [] def.authMethod = "searchDN" /\ ~def.authenticatedBind -> "search"
                    [] OTHER -> "bindUser")

\* The registry may be absent, or of a type other than LDAP.
RegistryFound(e, def) ==
  /\ login[e].step = "registry"
  /\ \/ EndLogin(e, 500)
     \/ /\ def.ldap
        /\ CASE def.ssl /\ def.tlsProfile -> Goto(e, "registryTls") /\ UNCHANGED client
             [] def.ssl /\ ~def.tlsProfile -> EndLogin(e, 500)
             [] OTHER -> Connect(e, def)
  /\ UNCHANGED <<authorization, bound>>

RegistryTlsFound(e, def) ==
  /\ login[e].step = "registryTls"
  /\ EndLogin(e, 500) \/ Connect(e, def)
  /\ UNCHANGED <<authorization, bound>>

-----------------------------------------------------------------------------
(* The LDAP directory. *)

\* groupAuth, once the user is authenticated.
Authorize(def) == IF def.groupAuth = "none" THEN "done" ELSE "bindGroup"

\* What follows a search for the user that returned n entries.
Found(def, n) ==
  CASE def.authMethod = "searchDN" /\ n = 1 -> "bindUser"
    [] def.authMethod = "composeUPN" /\ n > 0 -> Authorize(def)
    [] OTHER -> "failed"

\* What follows a bind.
Bound(step, def) ==
  CASE step = "bindAdmin" -> "search"
    [] step = "bindUser" /\ def.authMethod = "composeUPN" -> "search"
    [] step = "bindUser" /\ def.authMethod # "composeUPN" -> Authorize(def)
    [] OTHER -> "searchGroup"

\* Whose credentials a bind presents.
BindAs(step, def) ==
  IF step = "bindAdmin" \/ (step = "bindGroup" /\ def.groupAuth = "staticAuth")
  THEN "admin" ELSE "user"

Proceed(e, next) ==
  CASE next = "done"   -> EndLogin(e, None)
    [] next = "failed" -> EndLogin(e, 500)
    [] OTHER           -> Goto(e, next) /\ UNCHANGED client

BindAccepted(e, def) ==
  /\ login[e].step \in {"bindAdmin", "bindUser", "bindGroup"}
  /\ bound' = [bound EXCEPT ![e] = @ \cup {BindAs(login[e].step, def)}]
  /\ Proceed(e, Bound(login[e].step, def))
  /\ UNCHANGED authorization

\* No entry, one, or several.
SearchEnded(e, def) ==
  /\ login[e].step = "search"
  /\ \E n \in 0..2 : Proceed(e, Found(def, n))
  /\ UNCHANGED <<authorization, bound>>

\* The entries of the group are not looked at.
GroupSearchEnded(e) ==
  /\ login[e].step = "searchGroup"
  /\ EndLogin(e, None)
  /\ UNCHANGED <<authorization, bound>>

\* Codes 49 (invalid credentials) and 32 (no such object), or any other.
LdapRefused(e) ==
  /\ login[e].step \in LdapSteps
  /\ \E error \in LoginErrors : EndLogin(e, error)
  /\ UNCHANGED <<authorization, bound>>

\* A step of an evaluation that waits for an answer.
LoginStep(e, def) ==
  \/ HttpAnswered(e) \/ TlsProfileFound(e)
  \/ RegistryFound(e, def) \/ RegistryTlsFound(e, def)
  \/ BindAccepted(e, def) \/ SearchEnded(e, def) \/ GroupSearchEnded(e)
  \/ LdapRefused(e)

-----------------------------------------------------------------------------
(* Nobody passes a registry on the strength of a search, or of the bind of    *)
(* the gateway's own administrator: the directory has accepted the user's own *)
(* credentials, for the group's static bind the administrator's too, and the  *)
(* connection of every login that ended is unbound (basic-ldap.js:325-358).   *)
LoginVerified(e, def) ==
  /\ login[e].step = "done" => client[e] # "open"
  /\ (login[e].step = "done" /\ login[e].error = None /\ def.registry = "name") =>
       /\ "user" \in bound[e] /\ client[e] = "unbound"
       /\ def.groupAuth = "staticAuth" => "admin" \in bound[e]
=============================================================================
