------------------------------ MODULE Startup ------------------------------
(***************************************************************************)
(* A process of the gateway from its start: lib/microgw.js loads the       *)
(* policies when it is required, the server listens, and the first request *)
(* to an OAuth provider sets it up, custom forms included                  *)
(* (az-server/index.js:394-440).                                           *)
(***************************************************************************)
EXTENDS PolicyLoader, CustomForms

vars == <<policyVars, formVars>>

TypeOK == PolicyTypeOK /\ FormTypeOK

Init == PolicyInit /\ FormInit

LoadPolicies == PolicyNext /\ UNCHANGED formVars

\* A request of a dialog.  The first one sets the provider up.
Dialog(r) ==
  /\ loading = "loaded"
  /\ connection["login"] # "unused" /\ DialogStep(r)
  /\ UNCHANGED policyVars

SetUpProvider == loading = "loaded" /\ Retrieve /\ UNCHANGED policyVars

Retrieval == \E f \in Forms : FormStep(f) /\ UNCHANGED policyVars

Next == LoadPolicies \/ SetUpProvider \/ (\E r \in Dialogs : Dialog(r)) \/ Retrieval

Spec == Init /\ [][Next]_vars
=============================================================================
