\* Two candidates, two requirements of two schemes each.
SPECIFICATION FairSpec
CONSTANTS
  a = a  b = b  s1 = s1  s2 = s2  gold = gold  silver = silver  None = None
  MaxCandidates = 2
  MaxRequirements = 2
  MaxSchemes = 2
  Apps <- MCApps
  Scopes = {s1, s2}
  Plans = {gold, silver}
  CandidateLists <- MCCandidateLists
  Keys <- MCKeys
  Bearers <- MCBearers
INVARIANTS
  TypeOK
  LoginsVerified
  TokensVerified
  SecretsVerified
PROPERTIES
  VerdictSpec
  RequestAnswered
CHECK_DEADLOCK FALSE
