\* Sessions expire, store calls fail and the process may die.
SPECIFICATION FairSpec
CONSTANTS
  c1 = c1
  s1 = s1
  s2 = s2
  Requests = {1, 2, 3}
  Users = {u1}
  Clients = {c1}
  Scopes = {s1, s2}
  AuthRequests <- MCAuthRequests
  IdentityExtractions = {"basic", "form", "redirect"}
  AuthorizationTypes = {"authenticated", "form"}
  MaxFaults = 1
  None = None
INVARIANTS
  OneTransactionPerRequest
  SequentialDialogKept
PROPERTIES
  DialogsAnswered
CHECK_DEADLOCK FALSE
