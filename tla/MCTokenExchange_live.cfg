\* Every request is answered and every cleanup happens.
SPECIFICATION FairSpec
CONSTANTS
  Requests = {r1, r2, r3}
  Clients = {c1}
  Users = {u1}
  Apis = {"confidential"}
  Scopes = {s1}
  PublicScopes = {}
  RedirectURIs = {uri1}
  Kinds = {"code", "authorization_code", "password", "refresh_token"}
  AuthForms = {"wrongSecret", "rightSecret"}
  Expiring = {}
  MaxGrants = 1
  MaxFailures = 1
  OAuth2Cfg <- MCOAuth2Cfg
  None = None
INVARIANTS
  RevokedOnTheWayOut
PROPERTIES
  EveryRequestAnswered
  CompromisedCredentialsRevoked
  UsedTokensDeleted
CHECK_DEADLOCK FALSE
