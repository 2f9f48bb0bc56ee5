\* Two clients of three provider APIs present each other's codes and tokens, with
\* every kind of request, form of client authentication, scope and redirect URI.
SPECIFICATION Spec
CONSTANTS
  Requests = {r1, r2, r3}
  Clients = {c1, c2}
  Users = {u1}
  Apis = {"confidential", "public", "unrenewable"}
  Scopes = {s1, s2}
  PublicScopes = {s2}
  RedirectURIs = {uri1, uri2}
  Kinds = {"code", "implicit", "authorization_code", "refresh_token", "client_credentials", "password"}
  AuthForms = {"otherScheme", "multiple", "noClientId", "noSecret", "wrongSecret", "rightSecret"}
  Expiring = {}
  MaxGrants = 1
  MaxFailures = 0
  OAuth2Cfg <- MCOAuth2Cfg
  None = None
SYMMETRY Symmetry
INVARIANTS
  GrantsNeverWiden
  DeliveredCredentialsKept
CHECK_DEADLOCK FALSE
