\* Two dialogs meet two custom forms, each retrieved once, in a process that has
\* loaded the policies of one of four installations.
SPECIFICATION Spec
CONSTANTS
  p = p
  q = q
  d1 = d1
  d2 = d2
  Names = {p, q}
  MaxVersion = 3
  Installations <- MCInstallations
  Dialogs = {d1, d2}
  Pages <- MCPages
  None = None
SYMMETRY Symmetry
INVARIANTS
  TypeOK
  PoliciesAsInstalled
  DialogsServed
CHECK_DEADLOCK FALSE
