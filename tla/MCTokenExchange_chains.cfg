\* One client redeems a code, twice if it likes, and renews what it got,
\* while store calls fail, tokens expire and the process restarts.
SPECIFICATION Spec
CONSTANTS
  Requests = {r1, r2, r3, r4}
  Clients = {c1}
  Users = {u1}
  Apis = {"confidential"}
  Scopes = {s1}
  PublicScopes = {}
  RedirectURIs = {uri1}
  Kinds = {"code", "authorization_code", "refresh_token"}
  AuthForms = {"rightSecret"}
  Expiring = {"authorizationCodes", "refreshTokens"}
  MaxGrants = 1
  MaxFailures = 1
  OAuth2Cfg <- MCOAuth2Cfg
  None = None
SYMMETRY Symmetry
INVARIANTS
  TypeOK
  RenewalsBounded
  DeliveredCredentialsKept
  DeliveredAccessTokensKept
  UsedTokensOnTheWayOut
  RedeemedCodesDeleted
PROPERTIES
  LedgerKept
CHECK_DEADLOCK FALSE
