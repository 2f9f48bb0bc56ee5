----------------------- MODULE MCAuthorizationDialog -----------------------
(* Instances of AuthorizationDialog for TLC. *)
EXTENDS AuthorizationDialog

CONSTANTS c1, s1, s2

\* One application that asks for two scopes, and elsewhere for one of them.
MCAuthRequests == {[client |-> c1, scopes |-> {s1, s2}],
                   [client |-> c1, scopes |-> {s1}]}

MCOneAuthRequest == {[client |-> c1, scopes |-> {s1}]}
=============================================================================
