\* Renewals of a client_credentials grant by a public client.
SPECIFICATION Spec
CONSTANTS
  Requests = {r1, r2, r3}
  Clients = {c1}
  Users = {u1}
  Apis = {"public"}
  Scopes = {s1}
  PublicScopes = {}
  RedirectURIs = {uri1}
  Kinds = {"client_credentials", "refresh_token"}
  AuthForms = {"noSecret", "rightSecret"}
  Expiring = {}
  MaxGrants = 1
  MaxFailures = 0
  OAuth2Cfg <- MCOAuth2Cfg
  None = None
SYMMETRY Symmetry
INVARIANTS
  ApplicationClientsAuthenticate
CHECK_DEADLOCK FALSE
