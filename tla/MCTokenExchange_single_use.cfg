\* The code as a single-use token.
SPECIFICATION Spec
CONSTANTS
  Requests = {r1, r2, r3}
  Clients = {c1}
  Users = {u1}
  Apis = {"unrenewable"}
  Scopes = {s1}
  PublicScopes = {}
  RedirectURIs = {uri1}
  Kinds = {"code", "authorization_code", "refresh_token"}
  AuthForms = {"rightSecret"}
  Expiring = {}
  MaxGrants = 1
  MaxFailures = 0
  OAuth2Cfg <- MCOAuth2Cfg
  None = None
SYMMETRY Symmetry
INVARIANTS
  CodeSingleUse
CHECK_DEADLOCK FALSE
