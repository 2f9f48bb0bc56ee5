----------------------------- MODULE MCStartup -----------------------------
EXTENDS Startup, TLC

CONSTANTS p, q, d1, d2

Policy(name, version) == [wellFormed |-> TRUE, name |-> name, version |-> version]
Broken == [wellFormed |-> FALSE, name |-> p, version |-> 0]

In(files) == [own |-> files, children |-> <<>>]
Under(files) == [own |-> <<>>, children |-> files]

\* Built-in policies, with a newer copy, an equal one and a version between in the
\* places of the user; a version semver does not know; settings of either store.
Builtin == Under(<<Policy(p, 1), Broken, Policy(q, 2)>>)

Setting(dir, project, user, replaces) ==
  [builtin |-> Builtin, userPolicies |-> Under(<<>>), policyDir |-> dir,
   project |-> project, user |-> user, override |-> replaces]

MCInstallations ==
  {Setting(<<In(<<Policy(p, 3)>>)>>, <<In(<<Policy(p, 2)>>), In(<<Policy(p, 1)>>)>>, <<None>>, FALSE),
   Setting(<<>>, <<None>>, <<Under(<<Policy(q, 2), Policy(q, 1)>>), In(<<Policy(q, 3)>>)>>, TRUE),
   Setting(<<>>, <<None>>, <<In(<<Policy(q, None)>>)>>, FALSE),
   Setting(<<>>, <<None>>, <<None>>, FALSE)}

Element(buttons) == [posts |-> TRUE, buttons |-> buttons]

MCPages ==
  {[valid |-> TRUE, elements |-> <<Element({"true", "false"})>>, notices |-> TRUE],
   [valid |-> TRUE, elements |-> <<Element({"true", "false"}), Element({"true"})>>, notices |-> FALSE],
   [valid |-> TRUE, elements |-> <<Element({"true"})>>, notices |-> TRUE],
   [valid |-> FALSE, elements |-> <<>>, notices |-> TRUE]}

Symmetry == Permutations(Dialogs)
=============================================================================
