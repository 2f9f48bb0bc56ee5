-------------------------- MODULE MCTokenExchange --------------------------
(* Instances of TokenExchange for TLC. *)
EXTENDS TokenExchange, TLC

CONSTANT PublicScopes  \* scopes that only the API of public clients declares

\* Three provider APIs that share the token store.
MCOAuth2Cfg ==
  LET config(type, grants, scopes, refresh, count) ==
        [clientType |-> type, grants |-> grants, scopes |-> scopes,
         enableRefreshToken |-> refresh, refreshCnt |-> count]
      some == Scopes \ PublicScopes
      all == [confidential |-> config("confidential", {"accessCode", "password"},
                                      some, TRUE, 2),
              public       |-> config("public",
                                      {"accessCode", "application", "implicit"},
                                      Scopes, TRUE, 2),
              unrenewable  |-> config("public", {"accessCode"}, some, FALSE, 2048)]
  IN  [a \in Apis |-> all[a]]

\* No property names a request or a client, so the safety runs permute them.
Symmetry == Permutations(Requests) \cup Permutations(Clients)
=============================================================================
