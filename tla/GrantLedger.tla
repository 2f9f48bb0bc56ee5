---------------------------- MODULE GrantLedger ----------------------------
(***************************************************************************)
(* What an OAuth provider promises of its grants, however its tables, its  *)
(* purges and its callbacks go about it: an entry for the tokens drawn by  *)
(* each request, and the life of the credential - the code or the refresh  *)
(* token - among them.  TokenExchange implements it.                       *)
(***************************************************************************)
EXTENDS Naturals

CONSTANTS
  Requests,  \* the requests
  Clients,   \* the applications
  Owners,    \* resource owners
  Apis,      \* provider APIs
  Scopes,    \* scopes
  Count      \* renewals each API allows

VARIABLES
  entry,      \* what the tokens are for that a request has drawn
  live,       \* credentials that can be exchanged
  delivered,  \* requests answered with their tokens
  spent,      \* credentials exchanged, or presented by somebody who was not authenticated
  lapsed      \* credentials that have expired

ledger == <<entry, live, delivered, spent, lapsed>>

\* code: it is an authorization code; left: how many renewals its refresh token allows.
Entries == [api: Apis, appId: Clients, userId: Owners, scopes: SUBSET Scopes,
            code: BOOLEAN, left: Nat]

IsCredential(e) == e.code \/ e.left > 0

Init ==
  /\ DOMAIN entry = {}
  /\ live = {} /\ delivered = {} /\ spent = {} /\ lapsed = {}

\* A new entry for r, and no other change.
Draw(r) ==
  /\ r \notin DOMAIN entry /\ DOMAIN entry' = DOMAIN entry \cup {r}
  /\ entry'[r] \in Entries
  /\ \A q \in DOMAIN entry : entry'[q] = entry[q]

\* A resource owner, or a client of its own, opens a grant.
Open(r) ==
  /\ Draw(r) /\ entry'[r].left <= Count[entry'[r].api]
  /\ UNCHANGED <<live, delivered, spent, lapsed>>

\* Tokens drawn for a credential x are for the same API, client and owner, and no
\* other scopes; a code is good for the renewals of its API, a refresh token for
\* one less than it allows.
Narrows(e, x) ==
  /\ e.api = entry[x].api /\ e.appId = entry[x].appId /\ e.userId = entry[x].userId
  /\ e.scopes \subseteq entry[x].scopes /\ ~e.code
  /\ IF entry[x].code THEN e.left = Count[e.api] ELSE e.left + 1 = entry[x].left

Derive(r, x) ==
  /\ x \in delivered \cap live
  /\ Draw(r) /\ Narrows(entry'[r], x)
  /\ spent' = spent \cup {x}
  /\ UNCHANGED <<live, delivered, lapsed>>

\* Credentials drawn and not yet delivered are stored.
Put(rs) ==
  /\ rs \cap delivered = {}
  /\ \A r \in rs : r \in DOMAIN entry /\ IsCredential(entry[r])
  /\ live' = live \cup rs
  /\ UNCHANGED <<entry, delivered, spent, lapsed>>

\* A client is given its tokens, and a credential among them is good.
Deliver(r) ==
  /\ r \in DOMAIN entry \ delivered
  /\ delivered' = delivered \cup {r}
  /\ live' \in {live, live \cup {r}}
  /\ IsCredential(entry[r]) => r \in live' \cup spent \cup lapsed
  /\ r \in live' => r \in live \/ IsCredential(entry[r])
  /\ UNCHANGED <<entry, spent, lapsed>>

\* x was presented, and the client was not authenticated.
Revoke(x) ==
  /\ x \in delivered /\ spent' = spent \cup {x}
  /\ UNCHANGED <<entry, live, delivered, lapsed>>

Lapse(x) ==
  /\ x \in live /\ lapsed' = lapsed \cup {x}
  /\ UNCHANGED <<entry, live, delivered, spent>>

\* Nothing else makes a credential invalid.
Withdraw(xs) ==
  /\ xs \subseteq spent \cup lapsed /\ live' = live \ xs
  /\ UNCHANGED <<entry, delivered, spent, lapsed>>

Next ==
  \/ \E r \in Requests : Open(r) \/ Deliver(r) \/ Revoke(r) \/ Lapse(r)
  \/ \E r, x \in Requests : Derive(r, x)
  \/ \E rs \in SUBSET Requests : Put(rs) \/ Withdraw(rs)

Spec == Init /\ [][Next]_ledger
=============================================================================
