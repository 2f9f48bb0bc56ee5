-------------------------- MODULE SecuritySchemes --------------------------
(***************************************************************************)
(* What the parts of the security check share: the places of the security  *)
(* schemes in a request's candidate APIs, and the security definitions     *)
(* that the schemes name (lib/security-check, lib/oauth2/resource-server). *)
(***************************************************************************)
EXTENDS Naturals

CONSTANTS
  MaxCandidates,    \* bound: candidate APIs of a request
  MaxRequirements,  \* bound: security requirements of an operation
  MaxSchemes,       \* bound: security schemes of a requirement
  Apps,             \* client applications, each with an id and a secret
  Scopes,           \* OAuth scopes
  None              \* an absent value

Candidates == 1..MaxCandidates

Requirements == 1..MaxRequirements

\* An evaluation of a scheme: <<candidate, requirement, scheme>>.
Evaluations == Candidates \X Requirements \X (1..MaxSchemes)

\* Where an API key is looked up: a header or a query parameter of the fixed
\* name, or one marked with x-ibm-apikey.
ApiKeyDefs == [type: {"apiKey"}, in: {"header", "query"},
               name: {"id", "secret"}, marked: BOOLEAN]

\* x-ibm-authentication-registry ("odd": not a string), or else
\* x-ibm-authentication-url ("odd": absent, or a protocol not supported).
BasicDefs == [type: {"basic"}, registry: {"none", "odd", "name"},
              url: {"odd", "http", "https"}, tlsProfile: BOOLEAN,
              ldap: BOOLEAN, ssl: BOOLEAN, authenticatedBind: BOOLEAN,
              authMethod: {"odd", "searchDN", "composeDN", "composeUPN"},
              groupAuth: {"none", "staticAuth", "dynamicAuth"}]

OauthDefs == [type: {"oauth2"}, scopes: SUBSET Scopes]

\* A scheme that securityDefinitions does not define.
Missing == [type |-> "missing"]

SchemeDefs == ApiKeyDefs \cup BasicDefs \cup OauthDefs \cup {Missing}

ASSUME BoundsAssumption ==
  MaxCandidates \in Nat /\ MaxRequirements \in Nat /\ MaxSchemes \in Nat

ASSUME AbsentAssumption == None \notin Apps
=============================================================================
