\* Every setting of the provider, two users, overlapping requests.
SPECIFICATION Spec
CONSTANTS
  c1 = c1
  s1 = s1
  s2 = s2
  Requests = {1, 2, 3, 4}
  Users = {u1, u2}
  Clients = {c1}
  Scopes = {s1, s2}
  AuthRequests <- MCOneAuthRequest
  IdentityExtractions = {"basic", "form", "redirect"}
  AuthorizationTypes = {"authenticated", "form"}
  MaxFaults = 0
  None = None
INVARIANTS
  TypeOK
  OwnersLoggedIn
  GrantedAsShown
CHECK_DEADLOCK FALSE
