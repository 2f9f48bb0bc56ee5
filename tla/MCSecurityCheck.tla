-------------------------- MODULE MCSecurityCheck --------------------------
(* Candidates for TLC: each list exercises another kind of security.          *)
EXTENDS SecurityCheck

CONSTANTS a, b, s1, s2, gold, silver

MCApps == {a, b}

Id == [type |-> "apiKey", in |-> "header", name |-> "id", marked |-> FALSE]

Secret(in, marked) == [type |-> "apiKey", in |-> in, name |-> "secret", marked |-> marked]

Oauth(scopes) == [type |-> "oauth2", scopes |-> scopes]

Basic(registry, method, group) ==
  [type |-> "basic", registry |-> registry, url |-> "https", tlsProfile |-> TRUE,
   ldap |-> TRUE, ssl |-> group = "staticAuth",
   authenticatedBind |-> group = "dynamicAuth", authMethod |-> method,
   groupAuth |-> group]

Url(url, tls) == [Basic("none", "odd", "none") EXCEPT !.url = url, !.tlsProfile = tls]

Candidate(app, plan, reqs) ==
  [app |-> app, plan |-> plan, active |-> app # None, suspended |-> FALSE,
   preflight |-> FALSE, reqs |-> reqs]

\* The schemes of a requirement answer in any order, with requirements that
\* pass or fail at once before and after them.
Parallel ==
  {<<Candidate(a, gold, <<<<Basic("none", "odd", "none"), Secret("header", FALSE)>>,
                          <<Secret("query", FALSE), Oauth({s1})>>>>),
     Candidate(b, silver, <<<<Id, Oauth({s2})>>, <<Missing>>>>)>>,
   <<Candidate(a, gold, <<<<Missing, Oauth({s1})>>, <<Id>>>>),
     Candidate(b, gold, <<<<Oauth({s1, s2})>>, <<Secret("query", TRUE), Url("http", FALSE)>>>>)>>}

\* Every way to bind, with every kind of group.
Directory ==
  {<<Candidate(a, gold, <<<<Basic("name", m, g)>>>>)>> :
     m \in {"odd", "searchDN", "composeDN", "composeUPN"},
     g \in {"none", "staticAuth", "dynamicAuth"}}
  \cup {<<Candidate(a, gold, <<<<[Basic("name", "composeDN", "staticAuth") EXCEPT !.tlsProfile = FALSE]>>>>)>>,
        <<Candidate(a, gold, <<<<[Basic("name", "composeDN", "none") EXCEPT !.ldap = FALSE]>>>>)>>,
        <<Candidate(a, gold, <<<<Basic("odd", "odd", "none")>>, <<Url("odd", FALSE)>>>>)>>}

\* Preflight requests, operations without requirements, an empty requirement,
\* keys without an application, inactive subscriptions and suspended APIs.
Open ==
  {<<>>,
   <<Candidate(None, gold, <<>>), Candidate(a, silver, <<<<>>, <<Id>>>>)>>,
   <<[Candidate(None, gold, <<<<Id>>>>) EXCEPT !.preflight = TRUE],
     Candidate(None, silver, <<<<Id, Secret("header", TRUE)>>>>)>>,
   <<[Candidate(a, gold, <<<<Id>>>>) EXCEPT !.active = FALSE],
     [Candidate(b, silver, <<<<Id>>, <<Secret("header", FALSE)>>>>) EXCEPT !.suspended = TRUE]>>,
   <<Candidate(a, gold, <<<<Secret("header", FALSE), Id>>>>),
     Candidate(a, silver, <<<<Secret("query", FALSE)>>>>)>>}

MCCandidateLists == Parallel \cup Directory \cup Open

\* The id of the header, and one secret in all the places of a secret or none.
MCKeys ==
  {[place \in {"header", "query"} \X {"id", "secret"} |->
      IF place[2] = "id" THEN x ELSE y] : x \in {a, b, None}, y \in {a, None}}

MCBearers ==
  [kind: {"absent", "primitive", "malformed", "forged"}, scopes: {{s1}}, otherApp: {FALSE}]
  \cup [kind: {"genuine"}, scopes: {{s1}, {s1, s2}}, otherApp: BOOLEAN]
=============================================================================
