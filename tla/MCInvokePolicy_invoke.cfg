\* Two invokes in a row, with policies before, between and after them.
SPECIFICATION FairSpec
CONSTANTS
  N = 2
  Settings <- MCSettings
INVARIANTS
  TypeOK
  MessageWhole
PROPERTIES
  
  InvokesCallBack
CHECK_DEADLOCK FALSE
