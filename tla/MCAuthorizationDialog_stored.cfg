\* Two tabs of one browser.
SPECIFICATION Spec
CONSTANTS
  c1 = c1
  s1 = s1
  s2 = s2
  Requests = {1, 2, 3}
  Users = {u1}
  Clients = {c1}
  Scopes = {s1, s2}
  AuthRequests <- MCOneAuthRequest
  IdentityExtractions = {"form"}
  AuthorizationTypes = {"form"}
  MaxFaults = 0
  None = None
INVARIANTS
  StoredUntilDecided
CHECK_DEADLOCK FALSE
