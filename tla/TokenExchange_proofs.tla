------------------------ MODULE TokenExchange_proofs ------------------------
(***************************************************************************)
(* Type correctness of the token endpoint; the two facts about chains of   *)
(* tokens that hold whatever the interleaving, GrantsNeverWiden and        *)
(* RenewalsBounded; and what stays in the store, and what leaves it.       *)
(***************************************************************************)
EXTENDS TokenExchange, TLAPS

\* A request past its arrival is recorded with the parameters that its
\* callbacks will read.
RequestsRecorded ==
  \A r \in Requests : pc[r] # "idle" =>
    /\ req[r] \in TokenRequests
    /\ req[r].kind \in {"authorization_code", "refresh_token"}
         => req[r].cred \in Requests
    /\ pc[r] \in {"clients", "user"} /\ req[r].kind = "password"
         => req[r].user \in Users
    /\ pc[r] = "user" => /\ req[r].kind = "password"
                         /\ req[r].scope \in SUBSET Scopes

\* Until a request passes its checks it has drawn nothing.
NothingDrawnYet ==
  \A r \in Requests : pc[r] \in {"idle", "clients", "user", "find"} =>
    /\ tkn[r] = None
    /\ lineage[r] = [root |-> r, renewals |-> 0]

\* What is saved, or about to be, was drawn, and only a token with renewals
\* left is saved as a refresh token.
SavedWereDrawn ==
  /\ \A r \in Requests :
       /\ pc[r] \in {"deleteCode", "saveCode", "saveRefreshToken",
                     "saveAccessToken", "issued"} => tkn[r] \in Records
       /\ pc[r] = "saveRefreshToken" => tkn[r].countDown > 0
  /\ \A t \in Tables : \A x \in db[t] : tkn[x] \in Records
  /\ \A x \in db["refreshTokens"] : tkn[x].countDown > 0

IInv == /\ TypeOK
        /\ RequestsRecorded
        /\ NothingDrawnYet
        /\ SavedWereDrawn
        /\ GrantsNeverWiden
        /\ RenewalsBounded

-----------------------------------------------------------------------------
LEMMA InitIInv == Init => IInv
  <1> SUFFICES ASSUME Init PROVE IInv
    OBVIOUS
  <1> USE BoundsAssumption, NoneAssumption DEF Init
  <1>1. TypeOK
    BY DEF TypeOK, Tables, Deletions
  <1>2. RequestsRecorded /\ NothingDrawnYet
    BY DEF RequestsRecorded, NothingDrawnYet
  <1>3. SavedWereDrawn
    BY DEF SavedWereDrawn, Tables
  <1>4. GrantsNeverWiden /\ RenewalsBounded
    BY DEF GrantsNeverWiden, RenewalsBounded, Minted
  <1> QED
    BY <1>1, <1>2, <1>3, <1>4 DEF IInv

\* The requests a client can send are well formed.
LEMMA IncomingType ==
  ASSUME NEW kind \in ExchangeKinds, NEW q \in Incoming(kind)
  PROVE  /\ q \in TokenRequests
         /\ q.kind = kind
         /\ kind = "password" => q.user \in Users
         /\ kind \in {"authorization_code", "refresh_token"}
              => q.cred \in Requests
  <1>1. /\ Credentials(kind) \subseteq Requests \cup {None}
        /\ kind \in {"authorization_code", "refresh_token"}
             => Credentials(kind) \subseteq Requests
    BY DEF Credentials, HeldCodes, HeldRefreshTokens
  <1>2. kind \in AllKinds /\ AuthForms \subseteq AllAuthForms
    BY BoundsAssumption DEF ExchangeKinds
  <1> QED
    BY <1>1, <1>2 DEF Incoming, TokenRequests, ScopeParameters

LEMMA PurgesType ==
  ASSUME TypeOK PROVE Purges \subseteq Deletions
  BY DEF TypeOK, Purges, Deletion, Deletions

LEMMA RemoveCredentialType ==
  ASSUME NEW q \in TokenRequests,
         q.kind \in {"authorization_code", "refresh_token"} => q.cred \in Requests
  PROVE  RemoveCredential(q) \subseteq Deletions
  BY DEF RemoveCredential, Deletion, Deletions, Tables

\* The two facts about chains speak of tkn and lineage only.
LEMMA ChainsFrame ==
  ASSUME IInv, UNCHANGED <<tkn, lineage>>
  PROVE  GrantsNeverWiden' /\ RenewalsBounded'
  BY DEF IInv, GrantsNeverWiden, RenewalsBounded, Minted

\* The arrival of a request that the token endpoint serves.
LEMMA ReceivePreserves ==
  ASSUME IInv, NEW r \in Requests, NEW kind \in ExchangeKinds,
         NEW q \in Incoming(kind), NEW revoked \in SUBSET Deletions,
         NEW next \in {"refused", "unauthenticated", "clients"},
         Receive(r, q, next, revoked)
  PROVE  IInv'
  <1>1. /\ q \in TokenRequests
        /\ q.kind = "password" => q.user \in Users
        /\ q.kind \in {"authorization_code", "refresh_token"}
             => q.cred \in Requests
    BY IncomingType
  <1>2. TypeOK'
    BY <1>1, PurgesType DEF IInv, TypeOK, Receive, Waiting, Final
  <1>3. RequestsRecorded'
    BY <1>1 DEF IInv, TypeOK, RequestsRecorded, Receive
  <1>4. NothingDrawnYet'
    BY DEF IInv, TypeOK, NothingDrawnYet, Receive
  <1>5. SavedWereDrawn'
    BY DEF IInv, TypeOK, SavedWereDrawn, Receive
  <1> QED
    BY <1>2, <1>3, <1>4, <1>5, ChainsFrame DEF IInv, Receive

\* A callback that only moves its request on.
LEMMA GotoPreserves ==
  ASSUME IInv, NEW r \in Requests, pc[r] \in {"clients", "user", "find"},
         NEW next \in {"refused", "find", "user"},
         next = "user" => pc[r] = "clients" /\ req[r].kind = "password"
                            /\ req[r].scope # None,
         Goto(r, next)
  PROVE  IInv'
  <1>1. TypeOK'
    BY DEF IInv, TypeOK, Goto, Waiting, Final
  <1>2. RequestsRecorded'
    <2>1. req[r] \in TokenRequests
      BY DEF IInv, RequestsRecorded
    <2>2. req[r].scope # None => req[r].scope \in SUBSET Scopes
      BY <2>1 DEF TokenRequests
    <2> QED
      BY <2>2 DEF IInv, TypeOK, RequestsRecorded, Goto
  <1>3. NothingDrawnYet'
    BY DEF IInv, TypeOK, NothingDrawnYet, Goto
  <1>4. SavedWereDrawn'
    BY DEF IInv, TypeOK, SavedWereDrawn, Goto
  <1> QED
    BY <1>1, <1>2, <1>3, <1>4, ChainsFrame DEF IInv, Goto

\* A step of the store or of the process, or the answer to a request: what
\* the requests are and what they drew stays, and no table gains a record that
\* was not drawn.
LEMMA StorePreserves ==
  ASSUME IInv, UNCHANGED <<req, tkn, lineage>>, TypeOK',
         \A r \in Requests :
           \/ pc'[r] = pc[r]
           \/ pc[r] # "idle" /\ pc'[r] \in {"refused", "unauthenticated", "lost"}
           \/ /\ pc[r] \in {"deleteCode", "saveCode", "saveRefreshToken",
                            "saveAccessToken"}
              /\ \/ pc'[r] \in {"saveAccessToken", "issued"}
                 \/ pc'[r] = "saveRefreshToken" /\ tkn[r].countDown > 0,
         \A t \in Tables : \A x \in db'[t] :
           x \in db[t] \/ pc[x] \in {"saveCode", "saveRefreshToken",
                                     "saveAccessToken"},
         \A x \in db'["refreshTokens"] :
           x \in db["refreshTokens"] \/ pc[x] = "saveRefreshToken"
  PROVE  IInv'
  <1>1. RequestsRecorded'
    BY DEF IInv, TypeOK, RequestsRecorded
  <1>2. NothingDrawnYet'
    BY DEF IInv, TypeOK, NothingDrawnYet
  <1>3. \A r \in Requests :
          /\ pc'[r] \in {"deleteCode", "saveCode", "saveRefreshToken",
                         "saveAccessToken", "issued"} => tkn[r] \in Records
          /\ pc'[r] = "saveRefreshToken" => tkn[r].countDown > 0
    BY DEF IInv, SavedWereDrawn
  <1>4. ASSUME NEW t \in Tables, NEW x \in db'[t] PROVE tkn[x] \in Records
    <2>1. x \in Requests
      BY <1>4 DEF TypeOK
    <2> QED
      BY <1>4, <2>1 DEF IInv, SavedWereDrawn
  <1>5. ASSUME NEW x \in db'["refreshTokens"] PROVE tkn[x].countDown > 0
    <2>1. x \in Requests
      BY <1>5 DEF TypeOK, Tables
    <2> QED
      BY <1>5, <2>1 DEF IInv, SavedWereDrawn
  <1>6. SavedWereDrawn'
    BY <1>3, <1>4, <1>5 DEF SavedWereDrawn
  <1> QED
    BY <1>1, <1>2, <1>6, ChainsFrame DEF IInv

\* An exchange that passes its checks.
LEMMA GeneratePreserves ==
  ASSUME IInv, NEW r \in Requests, pc[r] \in {"clients", "user", "find"},
         NEW record \in Records, NEW root \in Requests, NEW renewals \in Nat,
         NEW next \in {"deleteCode", "saveRefreshToken", "saveAccessToken"},
         next = "saveRefreshToken" => record.countDown > 0,
         Generate(r, record, root, renewals, next),
         deletions' \subseteq Deletions,
         root # r => /\ tkn[root] # None
                     /\ record.api = tkn[root].api
                     /\ record.appId = tkn[root].appId
                     /\ record.userId = tkn[root].userId
                     /\ record.scopes \subseteq tkn[root].scopes,
         renewals <= OAuth2Cfg[record.api].refreshCnt,
         record.countDown > 0 =>
           record.countDown + renewals = OAuth2Cfg[record.api].refreshCnt
  PROVE  IInv'
  <1> record # None
    BY NoneAssumption
  <1>1. TypeOK'
    BY DEF IInv, TypeOK, Generate, Waiting
  <1>2. RequestsRecorded'
    BY DEF IInv, TypeOK, RequestsRecorded, Generate
  <1>3. NothingDrawnYet'
    BY DEF IInv, TypeOK, NothingDrawnYet, Generate
  <1>4. tkn[r] = None
    BY DEF IInv, NothingDrawnYet
  <1>5. SavedWereDrawn'
    BY <1>4, NoneAssumption DEF IInv, TypeOK, SavedWereDrawn, Generate, Tables
  <1>6. GrantsNeverWiden'
    <2> SUFFICES ASSUME NEW s \in Requests, Minted(s)'
                 PROVE LET grant == tkn'[lineage'[s].root] IN
                         /\ grant # None
                         /\ tkn'[s].api = grant.api
                         /\ tkn'[s].appId = grant.appId
                         /\ tkn'[s].userId = grant.userId
                         /\ tkn'[s].scopes \subseteq grant.scopes
      BY DEF GrantsNeverWiden
    <2>1. CASE s = r
      BY <2>1, <1>4 DEF IInv, TypeOK, Generate
    <2>2. CASE s # r
      BY <2>2, <1>4 DEF IInv, TypeOK, Generate, GrantsNeverWiden, Minted
    <2> QED
      BY <2>1, <2>2
  <1>7. RenewalsBounded'
    BY <1>4 DEF IInv, TypeOK, Generate, RenewalsBounded, Minted
  <1> QED
    BY <1>1, <1>2, <1>3, <1>5, <1>6, <1>7 DEF IInv

\* The authorization endpoint draws a code or an implicit token.
LEMMA ApprovePreserves ==
  ASSUME IInv, NEW r \in Requests, NEW kind \in {"code", "implicit"},
         NEW next \in {"saveCode", "saveAccessToken"}, Approve(r, kind, next)
  PROVE  IInv'
  <1>1. PICK q \in Approved(kind) :
          /\ pc[r] = "idle"
          /\ req' = [req EXCEPT ![r] = q]
          /\ tkn' = [tkn EXCEPT ![r] = FreshRecord(q, q.user, GrantName(kind), 0)]
          /\ pc' = [pc EXCEPT ![r] = next]
          /\ deletions' = deletions \cup Purges
          /\ UNCHANGED <<db, expired, lineage, failures>>
    BY DEF Approve
  <1> DEFINE record == FreshRecord(q, q.user, GrantName(kind), 0)
  <1>2. /\ record \in Records
        /\ record.countDown = 0
        /\ q \in TokenRequests
        /\ q.kind \notin {"authorization_code", "refresh_token", "password"}
    <2>1. GrantName(kind) \in Grants
      BY DEF GrantName, Grants
    <2> QED
      BY <2>1
      DEF Approved, FreshRecord, Records, TokenRequests, AllKinds
  <1>3. record # None /\ tkn[r] = None /\ lineage[r] = [root |-> r, renewals |-> 0]
    BY <1>1, <1>2, NoneAssumption DEF IInv, NothingDrawnYet
  <1> HIDE DEF record
  <1>4. TypeOK'
    BY <1>1, <1>2, PurgesType DEF IInv, TypeOK, Waiting, record
  <1>5. RequestsRecorded'
    BY <1>1, <1>2 DEF IInv, TypeOK, RequestsRecorded
  <1>6. NothingDrawnYet'
    BY <1>1 DEF IInv, TypeOK, NothingDrawnYet
  <1>7. SavedWereDrawn'
    BY <1>1, <1>2, <1>3, NoneAssumption
    DEF IInv, TypeOK, SavedWereDrawn, Tables, record
  <1>8. GrantsNeverWiden'
    BY <1>1, <1>2, <1>3 DEF IInv, TypeOK, GrantsNeverWiden, Minted, record
  <1>9. RenewalsBounded'
    <2>1. record.api \in Apis
      BY <1>2 DEF Records
    <2>2. OAuth2Cfg[record.api].refreshCnt >= 0
      BY <2>1, ConfigAssumption
    <2> QED
      BY <1>1, <1>2, <1>3, <2>2 DEF IInv, TypeOK, RenewalsBounded, Minted, record
  <1> QED
    BY <1>4, <1>5, <1>6, <1>7, <1>8, <1>9 DEF IInv

-----------------------------------------------------------------------------
LEMMA CallbackRecords ==
  ASSUME IInv, NEW r \in Requests, pc[r] # "idle"
  PROVE  /\ req[r] \in TokenRequests
         /\ req[r].kind \in {"authorization_code", "refresh_token"}
              => req[r].cred \in Requests
         /\ RemoveCredential(req[r]) \subseteq Deletions
  BY RemoveCredentialType DEF IInv, RequestsRecorded

LEMMA ArrivePreserves ==
  ASSUME IInv, NEW r \in Requests, Arrive(r)
  PROVE  IInv'
  <1>1. CASE GenerateAuthCode(r)
    BY <1>1, ApprovePreserves DEF GenerateAuthCode
  <1>2. CASE GenerateImplicitToken(r)
    BY <1>2, ApprovePreserves DEF GenerateImplicitToken
  <1>3. CASE RefuseMultipleSchemes(r)
    BY <1>3, ReceivePreserves DEF RefuseMultipleSchemes
  <1>4. CASE RefuseMissingCredentials(r)
    <2>1. PICK kind \in ExchangeKinds : \E q \in Incoming(kind) :
            Receive(r, q, "unauthenticated", RemoveCredential(q))
      BY <1>4 DEF RefuseMissingCredentials
    <2>2. PICK q \in Incoming(kind) :
            Receive(r, q, "unauthenticated", RemoveCredential(q))
      BY <2>1
    <2>3. RemoveCredential(q) \subseteq Deletions
      BY IncomingType, RemoveCredentialType
    <2> QED
      BY <2>2, <2>3, ReceivePreserves
  <1>5. CASE FindClient(r)
    BY <1>5, ReceivePreserves DEF FindClient
  <1> QED
    BY <1>1, <1>2, <1>3, <1>4, <1>5 DEF Arrive

LEMMA ExchangesPreserve ==
  ASSUME IInv, NEW r \in Requests,
         \/ ExchangeClientCredentials(r) \/ ExchangePassword(r)
         \/ ExchangeCode(r) \/ ExchangeRefreshToken(r)
  PROVE  IInv'
  <1> DEFINE q == req[r]
  <1>1. /\ q \in TokenRequests
        /\ q.kind \in {"authorization_code", "refresh_token"} => q.cred \in Requests
    BY CallbackRecords DEF ExchangeClientCredentials, ClientFound,
       ExchangePassword, ExchangeCode, ExchangeRefreshToken
  <1> DEFINE count == OAuth2Cfg[q.api].refreshCnt
             initial == InitialCount(q.api)
  <1>2. /\ count \in Nat /\ count > 0
        /\ initial \in Nat /\ initial <= count
        /\ initial > 0 => initial = count
    <2>1. q.api \in Apis
      BY <1>1 DEF TokenRequests
    <2> QED
      BY <2>1, ConfigAssumption DEF InitialCount
  <1>3. deletions \subseteq Deletions
    BY DEF IInv, TypeOK
  <1>4. CASE ExchangeClientCredentials(r)
    <2> DEFINE record == FreshRecord(q, q.client, "application", initial)
    <2>1. record \in Records /\ record.countDown = initial /\ record.api = q.api
      BY <1>1, <1>2, <1>4
      DEF ExchangeClientCredentials, ValidClient, FreshRecord, Records,
          TokenRequests, Grants
    <2>2. FirstSave(record) \in {"saveRefreshToken", "saveAccessToken"}
          /\ (FirstSave(record) = "saveRefreshToken" => record.countDown > 0)
      BY DEF FirstSave
    <2>3. pc[r] = "clients" /\ Generate(r, record, r, 0, FirstSave(record))
      BY <1>4 DEF ExchangeClientCredentials, ClientFound
    <2>4. deletions' \subseteq Deletions
      BY <1>3, <1>4 DEF ExchangeClientCredentials
    <2> HIDE DEF record, initial
    <2> QED
      BY <1>2, <2>1, <2>2, <2>3, <2>4, GeneratePreserves
  <1>5. CASE ExchangePassword(r)
    <2> DEFINE record == FreshRecord(q, q.user, "password", initial)
    <2>1. q.user \in Users /\ q.scope \in SUBSET Scopes
      BY <1>5 DEF ExchangePassword, IInv, RequestsRecorded
    <2>2. record \in Records /\ record.countDown = initial /\ record.api = q.api
      BY <1>1, <1>2, <2>1 DEF FreshRecord, Records, TokenRequests, Grants
    <2>3. FirstSave(record) \in {"saveRefreshToken", "saveAccessToken"}
          /\ (FirstSave(record) = "saveRefreshToken" => record.countDown > 0)
      BY DEF FirstSave
    <2>4. pc[r] = "user" /\ Generate(r, record, r, 0, FirstSave(record))
      BY <1>5 DEF ExchangePassword
    <2>5. deletions' \subseteq Deletions
      BY <1>3, <1>5 DEF ExchangePassword
    <2> HIDE DEF record, initial
    <2> QED
      BY <1>2, <2>2, <2>3, <2>4, <2>5, GeneratePreserves
  <1>6. CASE ExchangeCode(r)
    <2> DEFINE record == Redeemed(q)
    <2>1. /\ q.cred \in Requests /\ q.cred \in db["authorizationCodes"]
          /\ tkn[q.cred].api = q.api
          /\ tkn[q.cred].appId = q.client
      BY <1>1, <1>6 DEF ExchangeCode, CodeAccepted, SameClient
    <2>2. tkn[q.cred] \in Records
      BY <2>1 DEF IInv, SavedWereDrawn, Tables
    <2>3. /\ record \in Records
          /\ record.countDown = initial
          /\ record.api = tkn[q.cred].api
          /\ record.appId = tkn[q.cred].appId
          /\ record.userId = tkn[q.cred].userId
          /\ record.scopes = tkn[q.cred].scopes
      BY <1>2, <2>1, <2>2 DEF Records, Redeemed
    <2>4. pc[r] = "find" /\ Generate(r, record, q.cred, 0, "deleteCode")
      BY <1>6 DEF ExchangeCode
    <2>5. deletions' \subseteq Deletions
      BY <1>3, <1>6 DEF ExchangeCode
    <2>6. tkn[q.cred] # None
      BY <2>2, NoneAssumption
    <2> HIDE DEF record, initial
    <2> QED
      BY <1>2, <2>1, <2>3, <2>4, <2>5, <2>6, GeneratePreserves
  <1>7. CASE ExchangeRefreshToken(r)
    <2> DEFINE used == q.cred
               saved == tkn[used]
               record == Renewed(q)
               root == lineage[used].root
               renewals == lineage[used].renewals + 1
    <2>1. /\ pc[r] = "find"
          /\ used \in Requests
          /\ used \in db["refreshTokens"]
          /\ q.scope # None => q.scope \subseteq saved.scopes
          /\ saved.api = q.api
          /\ saved.appId = q.client
      BY <1>1, <1>7 DEF ExchangeRefreshToken, RefreshTokenAccepted, SameClient
    <2>2. saved \in Records /\ saved.countDown > 0 /\ saved # None
      BY <2>1, NoneAssumption DEF IInv, SavedWereDrawn, Tables
    <2>3. /\ record \in Records
          /\ record.api = saved.api
          /\ record.appId = saved.appId
          /\ record.userId = saved.userId
          /\ record.scopes \subseteq saved.scopes
          /\ record.countDown = saved.countDown - 1
      <3>1. q.scope \in (SUBSET Scopes) \cup {None}
        BY <1>1 DEF TokenRequests
      <3>2. saved.countDown \in Nat /\ saved.scopes \in SUBSET Scopes
        BY <2>2 DEF Records
      <3> DEFINE scopes == IF q.scope = None THEN saved.scopes ELSE q.scope
                 left == IF saved.countDown > 1 THEN saved.countDown - 1 ELSE 0
      <3>3. scopes \in SUBSET Scopes /\ scopes \subseteq saved.scopes
        BY <2>1, <3>1, <3>2
      <3>4. left \in Nat /\ left = saved.countDown - 1
        BY <2>2, <3>2
      <3>5. record = [saved EXCEPT !.scopes = scopes, !.grant = "refreshToken",
                                   !.countDown = left]
        BY <2>1, <2>2 DEF Renewed, Records
      <3> HIDE DEF record, scopes, left, saved
      <3> QED
        BY <2>2, <3>3, <3>4, <3>5 DEF Records, Grants
    <2>4. root \in Requests /\ lineage[used].renewals \in Nat /\ renewals \in Nat
      BY <2>1 DEF IInv, TypeOK
    <2>5. /\ tkn[root] # None
          /\ saved.api = tkn[root].api
          /\ saved.appId = tkn[root].appId
          /\ saved.userId = tkn[root].userId
          /\ saved.scopes \subseteq tkn[root].scopes
      BY <2>1, <2>2 DEF IInv, GrantsNeverWiden, Minted
    <2>6. /\ saved.countDown \in Nat
          /\ saved.countDown + lineage[used].renewals = count
      BY <2>1, <2>2 DEF IInv, RenewalsBounded, Minted, Records
    <2>7. renewals <= count /\ record.countDown + renewals = count
      BY <1>2, <2>2, <2>3, <2>4, <2>6
    <2>8. Generate(r, record, root, renewals, FirstSave(record))
      BY <1>7 DEF ExchangeRefreshToken
    <2>9. deletions' \subseteq Deletions
      <3>1. q.client \in Clients
        BY <1>1 DEF TokenRequests
      <3> QED
        BY <1>3, <1>7, <2>1, <3>1
        DEF ExchangeRefreshToken, Cleanup, Deletion, Deletions, Tables
    <2>10. FirstSave(record) \in {"saveRefreshToken", "saveAccessToken"}
           /\ (FirstSave(record) = "saveRefreshToken" => record.countDown > 0)
      BY DEF FirstSave
    <2>11. /\ record.api = tkn[root].api
           /\ record.appId = tkn[root].appId
           /\ record.userId = tkn[root].userId
           /\ record.scopes \subseteq tkn[root].scopes
      BY <2>3, <2>5
    <2>12. record \in Records /\ record.api = q.api
      BY <2>1, <2>3
    <2> HIDE DEF record, root, renewals, saved
    <2> QED
      BY <2>1, <2>4, <2>5, <2>7, <2>8, <2>9, <2>10, <2>11, <2>12,
         GeneratePreserves
  <1> QED
    BY <1>4, <1>5, <1>6, <1>7

LEMMA CallbackPreserves ==
  ASSUME IInv, NEW r \in Requests, Callback(r)
  PROVE  IInv'
  <1>1. CASE RefuseInvalid(r) \/ FindCredential(r) \/ UserRefused(r)
               \/ CredentialRefused(r)
    BY <1>1, GotoPreserves
    DEF RefuseInvalid, FindCredential, UserRefused, CredentialRefused,
        ClientFound
  <1>2. CASE AuthenticateUser(r)
    BY <1>2, GotoPreserves DEF AuthenticateUser, ClientFound, ValidClient
  <1>3. CASE ExchangeClientCredentials(r) \/ ExchangePassword(r)
               \/ ExchangeCode(r) \/ ExchangeRefreshToken(r)
    BY <1>3, ExchangesPreserve
  <1>4. CASE ClientRefused(r)
    <2>1. RemoveCredential(req[r]) \subseteq Deletions
      BY <1>4, CallbackRecords DEF ClientRefused
    <2>2. TypeOK'
      BY <1>4, <2>1, BoundsAssumption DEF IInv, TypeOK, ClientRefused, Final
    <2> QED
      BY <1>4, <2>2, StorePreserves DEF IInv, TypeOK, ClientRefused
  <1>5. CASE SaveCode(r) \/ SaveAccessToken(r)
    <2>1. TypeOK'
      BY <1>5 DEF IInv, TypeOK, SaveCode, SaveAccessToken, Written, Tables, Final
    <2> QED
      BY <1>5, <2>1, StorePreserves
      DEF IInv, TypeOK, SaveCode, SaveAccessToken, Written, Tables
  <1>6. CASE SaveRefreshToken(r)
    <2>1. TypeOK'
      BY <1>6 DEF IInv, TypeOK, SaveRefreshToken, Written, Tables, Waiting
    <2> QED
      BY <1>6, <2>1, StorePreserves
      DEF IInv, TypeOK, SaveRefreshToken, Written, Tables
  <1>7. CASE DeleteCode(r)
    <2>1. TypeOK'
      BY <1>7 DEF IInv, TypeOK, DeleteCode, Written, FirstSave, Tables, Waiting
    <2> QED
      BY <1>7, <2>1, StorePreserves
      DEF IInv, TypeOK, DeleteCode, Written, FirstSave, Tables
  <1>8. CASE StoreError(r)
    <2>1. TypeOK'
      BY <1>8, BoundsAssumption
      DEF IInv, TypeOK, StoreError, Written, Tables, Waiting, Final
    <2> QED
      BY <1>8, <2>1, StorePreserves
      DEF IInv, TypeOK, StoreError, Written, Tables, Waiting
  <1> QED
    BY <1>1, <1>2, <1>3, <1>4, <1>5, <1>6, <1>7, <1>8 DEF Callback

LEMMA NextPreserves == IInv /\ [Next]_vars => IInv'
  <1> SUFFICES ASSUME IInv, [Next]_vars PROVE IInv'
    OBVIOUS
  <1>1. CASE \E r \in Requests : Arrive(r) \/ Callback(r)
    BY <1>1, ArrivePreserves, CallbackPreserves
  <1>2. CASE \E d \in deletions : Destroy(d) \/ DestroyFails(d)
    <2>1. PICK d \in deletions : Destroy(d) \/ DestroyFails(d)
      BY <1>2
    <2>2. TypeOK'
      BY <2>1, BoundsAssumption
      DEF IInv, TypeOK, Destroy, DestroyFails, Deletions
    <2> QED
      BY <2>1, <2>2, StorePreserves DEF IInv, TypeOK, Destroy, DestroyFails, Tables
  <1>3. CASE \E t \in Tables, x \in Requests : Expire(t, x)
    <2>1. PICK t \in Tables, x \in Requests : Expire(t, x)
      BY <1>3
    <2>2. TypeOK'
      BY <2>1 DEF IInv, TypeOK, Expire
    <2> QED
      BY <2>1, <2>2, StorePreserves DEF Expire, Tables
  <1>4. CASE Restart
    <2>1. TypeOK'
      BY <1>4, BoundsAssumption DEF IInv, TypeOK, Restart, Final, Tables
    <2> QED
      BY <1>4, <2>1, StorePreserves DEF IInv, TypeOK, Restart, Waiting, Tables
  <1>5. CASE UNCHANGED vars
    <2>1. TypeOK'
      BY <1>5 DEF IInv, TypeOK, vars
    <2> QED
      BY <1>5, <2>1, StorePreserves DEF vars, Tables
  <1> QED
    BY <1>1, <1>2, <1>3, <1>4, <1>5 DEF Next

\* IInv is the inductive invariant of the token endpoint.
THEOREM Inductive == Spec => []IInv
  <1> QED
    BY InitIInv, NextPreserves, PTL DEF Spec

\* Every variable keeps its type, for all values of the constants.
THEOREM TypeCorrect == Spec => []TypeOK
  <1>1. IInv => TypeOK
    BY DEF IInv
  <1> QED
    BY <1>1, Inductive, PTL

\* No exchange or renewal, nor any interleaving of them, gives a client a token
\* for another API, client or user than the grant's, or for more scopes.
THEOREM GrantsNeverWidenHolds == Spec => []GrantsNeverWiden
  <1>1. IInv => GrantsNeverWiden
    BY DEF IInv
  <1> QED
    BY <1>1, Inductive, PTL

\* No chain of renewals is longer than refresh-token.count.
THEOREM RenewalsBoundedHolds == Spec => []RenewalsBounded
  <1>1. IInv => RenewalsBounded
    BY DEF IInv
  <1> QED
    BY <1>1, Inductive, PTL

-----------------------------------------------------------------------------
(* What clients were given is not taken away from them, and a redeemed     *)
(* code is.  A credential leaves the store by a deletion, so the invariant *)
(* must justify every deletion issued, from the moment it is issued.       *)

\* Exchanging x spends all that x stands for; failing to authenticate with it
\* spends the credential, not the access token issued with it.
Spent(t, x) ==
  \E u \in Requests : \/ ExchangedBy(u, x)
                      \/ t # "accessTokens" /\ RevokedBy(u, x)

Kept(t, x) == x \in db[t] \/ x \in expired[t] \/ Spent(t, x)

DeletionsJustified ==
  \A d \in deletions : \A x \in d.ids : x \in expired[d.table] \/ Spent(d.table, x)

IdleUnknown == \A x \in Requests : pc[x] = "idle" => req[x] = None

CodeRequests ==
  \A x \in Requests :
    /\ pc[x] = "saveCode" => req[x].kind = "code" /\ tkn[x].countDown = 0
    /\ pc[x] # "idle" /\ req[x].kind = "code" => pc[x] \in {"saveCode"} \cup Final

PresentedCodes ==
  \A u \in Requests :
    pc[u] # "idle" /\ req[u].kind = "authorization_code" =>
      /\ req[u].cred \in Requests
      /\ pc[req[u].cred] = "issued"
      /\ req[req[u].cred].kind = "code"

WaitingToRedeem ==
  \A u \in Requests : pc[u] = "deleteCode" => req[u].kind = "authorization_code"

SavedKept ==
  \A x \in Requests :
    /\ pc[x] = "issued" /\ req[x].kind = "code" => Kept("authorizationCodes", x)
    /\ pc[x] \in {"saveAccessToken", "issued"} /\ tkn[x].countDown > 0
         => Kept("refreshTokens", x)
    /\ pc[x] = "issued" /\ req[x].kind # "code" => Kept("accessTokens", x)

RInv == /\ DeletionsJustified
        /\ IdleUnknown
        /\ CodeRequests
        /\ PresentedCodes
        /\ WaitingToRedeem
        /\ SavedKept
        /\ RedeemedCodesDeleted

-----------------------------------------------------------------------------
(* What no step undoes. *)

Unfolded(r) ==
  /\ \A u \in Requests : u # r => /\ req'[u] = req[u]
                                  /\ tkn'[u] = tkn[u]
                                  /\ pc'[u] = pc[u]
  /\ req'[r] = req[r] \/ pc[r] = "idle"
  /\ tkn'[r] = tkn[r] \/ tkn[r] = None
  /\ pc[r] \notin Final /\ pc'[r] # "idle"

LEMMA ArriveUnfolds ==
  ASSUME IInv, NEW r \in Requests, Arrive(r)
  PROVE  Unfolded(r) /\ pc[r] = "idle"
  BY DEF IInv, TypeOK, NothingDrawnYet, Arrive, GenerateAuthCode,
     GenerateImplicitToken, Approve, RefuseMultipleSchemes,
     RefuseMissingCredentials, FindClient, Receive, Unfolded, Final

LEMMA CallbackUnfolds ==
  ASSUME IInv, NEW r \in Requests, Callback(r)
  PROVE  Unfolded(r) /\ req' = req /\ pc[r] \in Waiting
  <1>1. CASE \/ ClientRefused(r) \/ RefuseInvalid(r) \/ FindCredential(r)
             \/ AuthenticateUser(r) \/ UserRefused(r) \/ CredentialRefused(r)
    BY <1>1 DEF IInv, TypeOK, ClientRefused, RefuseInvalid, FindCredential,
       AuthenticateUser, UserRefused, CredentialRefused, ClientFound, Goto,
       Unfolded, Waiting, Final
  <1>2. CASE \/ ExchangeClientCredentials(r) \/ ExchangePassword(r)
             \/ ExchangeCode(r) \/ ExchangeRefreshToken(r)
    BY <1>2 DEF IInv, TypeOK, NothingDrawnYet, ExchangeClientCredentials,
       ExchangePassword, ExchangeCode, ExchangeRefreshToken, ClientFound,
       Generate, FirstSave, Unfolded, Waiting, Final
  <1>3. CASE \/ SaveCode(r) \/ DeleteCode(r) \/ SaveRefreshToken(r)
             \/ SaveAccessToken(r) \/ StoreError(r)
    BY <1>3 DEF IInv, TypeOK, SaveCode, DeleteCode, SaveRefreshToken,
       SaveAccessToken, StoreError, FirstSave, Unfolded, Waiting, Final
  <1> QED
    BY <1>1, <1>2, <1>3 DEF Callback

\* A request keeps its parameters, what it drew and how it ended, for good.
LEMMA StepUnfolds ==
  ASSUME IInv, [Next]_vars, NEW u \in Requests
  PROVE  /\ req'[u] = req[u] \/ pc[u] = "idle"
         /\ tkn'[u] = tkn[u] \/ tkn[u] = None
         /\ pc[u] \in Final => pc'[u] = pc[u]
         /\ pc[u] # "idle" => pc'[u] # "idle"
  <1>1. CASE \E r \in Requests : Arrive(r) \/ Callback(r)
    <2>1. PICK r \in Requests : Unfolded(r)
      BY <1>1, ArriveUnfolds, CallbackUnfolds
    <2> QED
      BY <2>1 DEF Unfolded
  <1>2. CASE \E d \in deletions : Destroy(d) \/ DestroyFails(d)
    BY <1>2 DEF Destroy, DestroyFails
  <1>3. CASE \E t \in Tables, x \in Requests : Expire(t, x)
    BY <1>3 DEF Expire
  <1>4. CASE Restart
    BY <1>4 DEF IInv, TypeOK, Restart, Waiting, Final
  <1>5. CASE UNCHANGED vars
    BY <1>5 DEF vars
  <1> QED
    BY <1>1, <1>2, <1>3, <1>4, <1>5 DEF Next

LEMMA SpentForGood ==
  ASSUME IInv, IdleUnknown, [Next]_vars, NEW t, NEW x, Spent(t, x)
  PROVE  Spent(t, x)'
  <1>1. PICK u \in Requests : \/ ExchangedBy(u, x)
                              \/ t # "accessTokens" /\ RevokedBy(u, x)
    BY DEF Spent
  <1>2. req[u] # None /\ pc[u] # "idle"
    BY <1>1 DEF ExchangedBy, RevokedBy, UsedBy, IdleUnknown
  <1>3. req'[u] = req[u] /\ (tkn[u] # None => tkn'[u] = tkn[u])
        /\ (pc[u] = "unauthenticated" => pc'[u] = pc[u])
    BY <1>2, StepUnfolds DEF Final
  <1> QED
    BY <1>1, <1>3 DEF Spent, ExchangedBy, RevokedBy, UsedBy, Minted

\* Whoever waits to delete a code, or has the deletion executed, exchanged it.
LEMMA RedeemerSpends ==
  ASSUME IInv, NEW r \in Requests, pc[r] = "deleteCode"
  PROVE  ExchangedBy(r, req[r].cred)
  BY NoneAssumption
  DEF IInv, RequestsRecorded, SavedWereDrawn, ExchangedBy, UsedBy, Minted

\* How a table can change in a step.
LEMMA TablesChange ==
  ASSUME IInv, RInv, [Next]_vars, NEW t \in Tables, NEW x \in Requests
  PROVE  /\ x \in expired[t] => x \in expired'[t]
         /\ x \in db[t] => x \in db'[t] \/ x \in expired[t] \/ Spent(t, x)
         /\ x \in db'["authorizationCodes"] =>
              x \in db["authorizationCodes"] \/ pc[x] = "saveCode"
  <1>1. CASE \E r \in Requests : Arrive(r)
    BY <1>1 DEF Arrive, GenerateAuthCode, GenerateImplicitToken, Approve,
       RefuseMultipleSchemes, RefuseMissingCredentials, FindClient, Receive
  <1>2. ASSUME NEW r \in Requests, Callback(r)
        PROVE  /\ expired' = expired
               /\ x \in db[t] => x \in db'[t] \/ Spent(t, x)
               /\ x \in db'["authorizationCodes"] =>
                    x \in db["authorizationCodes"] \/ pc[x] = "saveCode"
    <2>1. \/ UNCHANGED <<db, expired>>
          \/ db' = Written(r) /\ UNCHANGED expired
      BY <1>2
      DEF Callback, ClientRefused, RefuseInvalid, FindCredential,
          AuthenticateUser, UserRefused, CredentialRefused, Goto,
          ExchangeClientCredentials, ExchangePassword, ExchangeCode,
          ExchangeRefreshToken, Generate, SaveCode, DeleteCode,
          SaveRefreshToken, SaveAccessToken, StoreError
    <2>2. CASE db' = Written(r) /\ UNCHANGED expired
      <3>1. CASE pc[r] = "deleteCode"
        <4>1. db' = [db EXCEPT !["authorizationCodes"] = @ \ {req[r].cred}]
          BY <2>2, <3>1 DEF Written
        <4>2. Spent(t, req[r].cred)
          BY <3>1, RedeemerSpends DEF Spent
        <4> QED
          BY <2>2, <4>1, <4>2 DEF IInv, TypeOK, Tables
      <3>2. CASE pc[r] # "deleteCode"
        BY <2>2, <3>2 DEF Written, IInv, TypeOK, Tables
      <3> QED
        BY <3>1, <3>2
    <2> QED
      BY <2>1, <2>2
  <1>3. ASSUME NEW d \in deletions, Destroy(d) \/ DestroyFails(d)
        PROVE  /\ expired' = expired
               /\ x \in db[t] => x \in db'[t] \/ x \in expired[t] \/ Spent(t, x)
               /\ db'["authorizationCodes"] \subseteq db["authorizationCodes"]
    <2>1. Matching(d) \subseteq d.ids
      BY DEF Matching
    <2>2. \A y \in d.ids : y \in expired[d.table] \/ Spent(d.table, y)
      BY DEF RInv, DeletionsJustified
    <2> QED
      BY <1>3, <2>1, <2>2 DEF Destroy, DestroyFails, IInv, TypeOK, Tables
  <1>4. ASSUME NEW tt \in Tables, NEW y \in Requests, Expire(tt, y)
        PROVE  db' = db /\ expired[t] \subseteq expired'[t]
    BY <1>4 DEF Expire, IInv, TypeOK
  <1>5. CASE Restart
    BY <1>5 DEF IInv, TypeOK, Restart, Tables
  <1>6. CASE UNCHANGED vars
    BY <1>6 DEF vars
  <1> QED
    BY <1>1, <1>2, <1>3, <1>4, <1>5, <1>6 DEF Next

LEMMA KeptForGood ==
  ASSUME IInv, RInv, [Next]_vars, NEW t \in Tables, NEW x \in Requests, Kept(t, x)
  PROVE  Kept(t, x)'
  <1>1. Spent(t, x) => Spent(t, x)'
    BY SpentForGood DEF RInv
  <1> QED
    BY <1>1, TablesChange DEF Kept

-----------------------------------------------------------------------------
(* The steps of one request. *)

\* Arriving, at the authorization endpoint or at the token endpoint.
Arrived(x) ==
  /\ pc[x] = "idle"
  /\ \/ pc'[x] = "saveCode" /\ req'[x].kind = "code" /\ tkn'[x].countDown = 0
     \/ /\ pc'[x] = "saveAccessToken" /\ req'[x].kind = "implicit"
        /\ tkn'[x].countDown = 0
     \/ /\ pc'[x] \in {"clients", "refused", "unauthenticated"}
        /\ req'[x].kind \in ExchangeKinds
        /\ req'[x].kind = "authorization_code" =>
             req'[x].cred \in HeldCodes

\* Drawing tokens or looking up what they are drawn from.
Advanced(x) ==
  /\ pc[x] \in {"clients", "user", "find"}
  /\ \/ pc'[x] \in {"find", "user"}
     \/ pc'[x] = "saveRefreshToken" /\ req[x].kind # "authorization_code"
     \/ /\ pc'[x] = "saveAccessToken" /\ req[x].kind # "authorization_code"
        /\ ~(tkn'[x].countDown > 0)
     \/ pc'[x] = "deleteCode" /\ req[x].kind = "authorization_code"

\* Storing them.
Stored(x) ==
  \/ pc[x] = "saveCode" /\ pc'[x] = "issued" /\ x \in db'["authorizationCodes"]
  \/ /\ pc[x] = "deleteCode" /\ req[x].cred \notin db'["authorizationCodes"]
     /\ \/ pc'[x] = "saveRefreshToken"
        \/ pc'[x] = "saveAccessToken" /\ ~(tkn[x].countDown > 0)
  \/ /\ pc[x] = "saveRefreshToken" /\ pc'[x] = "saveAccessToken"
     /\ x \in db'["refreshTokens"]
  \/ /\ pc[x] = "saveAccessToken" /\ pc'[x] = "issued"
     /\ x \in db'["accessTokens"]

GaveUp(x) == pc'[x] \in {"refused", "unauthenticated", "lost"} /\ pc[x] \in Waiting

LEMMA ArriveMoves ==
  ASSUME IInv, NEW r \in Requests, Arrive(r)
  PROVE  Arrived(r)
  <1>1. CASE GenerateAuthCode(r) \/ GenerateImplicitToken(r)
    BY <1>1 DEF IInv, TypeOK, GenerateAuthCode, GenerateImplicitToken, Approve,
       Approved, FreshRecord, Arrived
  <1>2. CASE \/ RefuseMultipleSchemes(r) \/ RefuseMissingCredentials(r)
             \/ FindClient(r)
    <2>1. PICK kind \in ExchangeKinds : \E q \in Incoming(kind),
               next \in {"clients", "refused", "unauthenticated"} :
            /\ pc[r] = "idle"
            /\ req' = [req EXCEPT ![r] = q]
            /\ pc' = [pc EXCEPT ![r] = next]
      BY <1>2 DEF RefuseMultipleSchemes, RefuseMissingCredentials, FindClient,
         Receive
    <2>2. \A q \in Incoming(kind) :
            q.kind = kind /\ (kind = "authorization_code" => q.cred \in HeldCodes)
      BY DEF Incoming, Credentials
    <2> QED
      BY <2>1, <2>2 DEF IInv, TypeOK, Arrived
  <1> QED
    BY <1>1, <1>2 DEF Arrive

LEMMA CallbackMoves ==
  ASSUME IInv, WaitingToRedeem, NEW r \in Requests, Callback(r)
  PROVE  Advanced(r) \/ Stored(r) \/ GaveUp(r)
  <1>1. CASE \/ ClientRefused(r) \/ RefuseInvalid(r) \/ UserRefused(r)
             \/ CredentialRefused(r) \/ StoreError(r)
    BY <1>1 DEF IInv, TypeOK, ClientRefused, RefuseInvalid, UserRefused,
       CredentialRefused, StoreError, ClientFound, Goto, GaveUp, Waiting
  <1>2. CASE FindCredential(r) \/ AuthenticateUser(r)
    BY <1>2 DEF IInv, TypeOK, FindCredential, AuthenticateUser, ClientFound,
       Goto, Advanced
  <1>3. CASE ExchangeClientCredentials(r) \/ ExchangePassword(r)
    BY <1>3 DEF IInv, TypeOK, RequestsRecorded, ExchangeClientCredentials,
       ExchangePassword, ClientFound, Generate, FirstSave, Advanced
  <1>4. CASE ExchangeCode(r) \/ ExchangeRefreshToken(r)
    BY <1>4 DEF IInv, TypeOK, ExchangeCode, ExchangeRefreshToken, Generate,
       FirstSave, Advanced
  <1>5. CASE DeleteCode(r)
    BY <1>5 DEF IInv, TypeOK, Tables, DeleteCode, Written, FirstSave, Stored
  <1>6. CASE SaveCode(r) \/ SaveRefreshToken(r) \/ SaveAccessToken(r)
    BY <1>6 DEF IInv, TypeOK, Tables, SaveCode, SaveRefreshToken,
       SaveAccessToken, Written, Stored
  <1> QED
    BY <1>1, <1>2, <1>3, <1>4, <1>5, <1>6 DEF Callback

\* A request moves by a step of its own or is lost in a restart.
LEMMA Moves ==
  ASSUME IInv, RInv, [Next]_vars, NEW x \in Requests
  PROVE  \/ pc'[x] = pc[x] /\ req'[x] = req[x] /\ tkn'[x] = tkn[x]
         \/ Arrived(x)
         \/ (Advanced(x) \/ Stored(x) \/ GaveUp(x)) /\ req'[x] = req[x]
  <1>1. ASSUME NEW r \in Requests, Arrive(r)
        PROVE  (x = r /\ Arrived(x)) \/ (x # r /\ UNCHANGED <<pc[x], req[x], tkn[x]>>)
    BY <1>1, ArriveMoves, ArriveUnfolds DEF Unfolded
  <1>2. ASSUME NEW r \in Requests, Callback(r)
        PROVE  \/ /\ x = r /\ req'[x] = req[x]
                  /\ Advanced(x) \/ Stored(x) \/ GaveUp(x)
               \/ x # r /\ UNCHANGED <<pc[x], req[x], tkn[x]>>
    BY <1>2, CallbackMoves, CallbackUnfolds DEF Unfolded, RInv
  <1>3. CASE \E d \in deletions : Destroy(d) \/ DestroyFails(d)
    BY <1>3 DEF Destroy, DestroyFails
  <1>4. CASE \E t \in Tables, y \in Requests : Expire(t, y)
    BY <1>4 DEF Expire
  <1>5. CASE Restart
    BY <1>5 DEF IInv, TypeOK, Restart, GaveUp
  <1>6. CASE UNCHANGED vars
    BY <1>6 DEF vars
  <1> QED
    BY <1>1, <1>2, <1>3, <1>4, <1>5, <1>6 DEF Next

\* Whoever issues a deletion has the right to.
LEMMA NewDeletions ==
  ASSUME IInv, RInv, [Next]_vars, NEW d \in deletions' \ deletions, NEW y \in d.ids
  PROVE  y \in expired[d.table] \/ Spent(d.table, y)'
  <1>1. ASSUME d \in Purges PROVE y \in expired[d.table]
    BY <1>1 DEF Purges, Deletion
  <1>2. ASSUME NEW u \in Requests, req'[u] \in TokenRequests,
               d \in RemoveCredential(req'[u]), pc'[u] = "unauthenticated"
        PROVE  Spent(d.table, y)'
    <2>1. d.table # "accessTokens" /\ y = req'[u].cred
      BY <1>2 DEF RemoveCredential, Deletion
    <2> QED
      BY <1>2, <2>1, NoneAssumption DEF Spent, RevokedBy, UsedBy
  <1>3. CASE \E r \in Requests : Arrive(r)
    <2>1. PICK r \in Requests : Arrive(r)
      BY <1>3
    <2>2. CASE GenerateAuthCode(r) \/ GenerateImplicitToken(r)
      BY <1>1, <2>2 DEF GenerateAuthCode, GenerateImplicitToken, Approve
    <2>3. CASE RefuseMultipleSchemes(r) \/ FindClient(r)
      BY <1>1, <2>3 DEF RefuseMultipleSchemes, FindClient, Receive
    <2>4. CASE RefuseMissingCredentials(r)
      <3>1. PICK kind \in ExchangeKinds : \E q \in Incoming(kind) :
              Receive(r, q, "unauthenticated", RemoveCredential(q))
        BY <2>4 DEF RefuseMissingCredentials
      <3> PICK q \in Incoming(kind) :
              Receive(r, q, "unauthenticated", RemoveCredential(q))
        BY <3>1
      <3>2. req'[r] = q /\ pc'[r] = "unauthenticated" /\ q \in TokenRequests
            /\ deletions' = deletions \cup Purges \cup RemoveCredential(q)
        BY IncomingType DEF Receive, IInv, TypeOK
      <3> QED
        BY <1>1, <1>2, <3>2
    <2> QED
      BY <2>1, <2>2, <2>3, <2>4 DEF Arrive
  <1>4. CASE \E r \in Requests : Callback(r)
    <2>1. PICK r \in Requests : Callback(r)
      BY <1>4
    <2>2. CASE ClientRefused(r)
      <3>1. req'[r] = req[r] /\ pc'[r] = "unauthenticated"
            /\ deletions' = deletions \cup RemoveCredential(req[r])
            /\ req[r] \in TokenRequests
        BY <2>2 DEF ClientRefused, IInv, TypeOK, RequestsRecorded
      <3> QED
        BY <1>2, <3>1
    <2>3. CASE ExchangeRefreshToken(r)
      <3>1. /\ req'[r] = req[r] /\ req[r] \in TokenRequests
            /\ tkn'[r] \in Records
            /\ deletions' = deletions \cup Cleanup(req[r])
        BY <2>1, <2>3, NextPreserves
        DEF ExchangeRefreshToken, Generate, IInv, RequestsRecorded,
            SavedWereDrawn, TypeOK, FirstSave
      <3>2. y = req'[r].cred
        BY <3>1 DEF Cleanup, Deletion
      <3> QED
        BY <3>1, <3>2, NoneAssumption DEF Spent, ExchangedBy, UsedBy, Minted
    <2>4. CASE ~ClientRefused(r) /\ ~ExchangeRefreshToken(r)
      BY <2>1, <2>4
      DEF Callback, RefuseInvalid, FindCredential, AuthenticateUser,
          UserRefused, CredentialRefused, Goto, ExchangeClientCredentials,
          ExchangePassword, ExchangeCode, SaveCode, DeleteCode,
          SaveRefreshToken, SaveAccessToken, StoreError
    <2> QED
      BY <2>2, <2>3, <2>4
  <1>5. CASE \E e \in deletions : Destroy(e) \/ DestroyFails(e)
    BY <1>5 DEF Destroy, DestroyFails
  <1>6. CASE \E t \in Tables, z \in Requests : Expire(t, z)
    BY <1>6 DEF Expire
  <1>7. CASE Restart
    BY <1>7 DEF Restart
  <1>8. CASE UNCHANGED vars
    BY <1>8 DEF vars
  <1> QED
    BY <1>3, <1>4, <1>5, <1>6, <1>7, <1>8 DEF Next

-----------------------------------------------------------------------------
LEMMA InitRInv == Init => RInv
  BY NoneAssumption
  DEF Init, RInv, DeletionsJustified, IdleUnknown, CodeRequests,
      PresentedCodes, WaitingToRedeem, SavedKept, RedeemedCodesDeleted, Tables

LEMMA DeletionsStayJustified ==
  ASSUME IInv, RInv, [Next]_vars
  PROVE  DeletionsJustified'
  <1> SUFFICES ASSUME NEW d \in deletions', NEW y \in d.ids
               PROVE  y \in expired'[d.table] \/ Spent(d.table, y)'
    BY DEF DeletionsJustified
  <1>1. d \in Deletions
    BY NextPreserves DEF IInv, TypeOK
  <1>2. y \in expired[d.table] \/ Spent(d.table, y)'
    BY SpentForGood, NewDeletions DEF RInv, DeletionsJustified
  <1> QED
    BY <1>1, <1>2, TablesChange DEF Deletions

LEMMA RequestsStayConsistent ==
  ASSUME IInv, RInv, [Next]_vars
  PROVE  IdleUnknown' /\ CodeRequests' /\ PresentedCodes' /\ WaitingToRedeem'
  <1>1. IdleUnknown'
    BY Moves DEF IdleUnknown, RInv, Arrived, Advanced, Stored, GaveUp
  <1>2. CodeRequests'
    BY Moves DEF CodeRequests, RInv, Arrived, Advanced, Stored, GaveUp, Final,
       ExchangeKinds, Waiting
  <1>3. PresentedCodes'
    <2> SUFFICES ASSUME NEW u \in Requests, pc'[u] # "idle",
                        req'[u].kind = "authorization_code"
                 PROVE  /\ req'[u].cred \in Requests
                        /\ pc'[req'[u].cred] = "issued"
                        /\ req'[req'[u].cred].kind = "code"
      BY DEF PresentedCodes
    <2>1. /\ req'[u].cred \in Requests
          /\ pc[req'[u].cred] = "issued"
          /\ req[req'[u].cred].kind = "code"
      BY Moves DEF RInv, PresentedCodes, Arrived, Advanced, Stored, GaveUp,
         HeldCodes, Waiting
    <2> QED
      BY <2>1, StepUnfolds DEF Final
  <1>4. WaitingToRedeem'
    BY Moves DEF WaitingToRedeem, RInv, Arrived, Advanced, Stored, GaveUp
  <1> QED
    BY <1>1, <1>2, <1>3, <1>4

LEMMA SavedStayKept ==
  ASSUME IInv, RInv, [Next]_vars
  PROVE  SavedKept'
  <1> SUFFICES ASSUME NEW x \in Requests
               PROVE
        /\ pc'[x] = "issued" /\ req'[x].kind = "code"
             => Kept("authorizationCodes", x)'
        /\ pc'[x] \in {"saveAccessToken", "issued"} /\ tkn'[x].countDown > 0
             => Kept("refreshTokens", x)'
        /\ pc'[x] = "issued" /\ req'[x].kind # "code" => Kept("accessTokens", x)'
    BY DEF SavedKept
  <1>1. \A t \in Tables : Kept(t, x) => Kept(t, x)'
    BY KeptForGood
  <1>2. \A t \in Tables : x \in db'[t] => Kept(t, x)'
    BY DEF Kept
  <1>3. {"authorizationCodes", "accessTokens", "refreshTokens"} = Tables
    BY DEF Tables
  <1>4. CASE pc'[x] = pc[x] /\ req'[x] = req[x] /\ tkn'[x] = tkn[x]
    BY <1>1, <1>3, <1>4 DEF RInv, SavedKept
  <1>5. CASE Arrived(x) \/ Advanced(x) \/ GaveUp(x)
    BY <1>5, NextPreserves DEF Arrived, Advanced, GaveUp
  <1>6. CASE Stored(x) /\ req'[x] = req[x]
    <2>1. /\ pc[x] = "saveCode" => req[x].kind = "code" /\ ~(tkn[x].countDown > 0)
          /\ pc[x] \in {"deleteCode", "saveRefreshToken", "saveAccessToken"}
               => req[x].kind # "code"
      BY DEF RInv, CodeRequests, Final
    <2>2. pc[x] \in {"saveCode", "deleteCode", "saveRefreshToken",
                     "saveAccessToken"} => tkn'[x] = tkn[x]
      BY StepUnfolds, NoneAssumption DEF IInv, SavedWereDrawn
    <2> QED
      BY <1>1, <1>2, <1>3, <1>6, <2>1, <2>2 DEF Stored, RInv, SavedKept
  <1> QED
    BY <1>4, <1>5, <1>6, Moves

LEMMA RedeemedStayDeleted ==
  ASSUME IInv, RInv, [Next]_vars
  PROVE  RedeemedCodesDeleted'
  <1> SUFFICES ASSUME NEW u \in Requests, req'[u].kind = "authorization_code",
                      pc'[u] \in {"saveRefreshToken", "saveAccessToken", "issued"}
               PROVE  req'[u].cred \notin db'["authorizationCodes"]
    BY DEF RedeemedCodesDeleted
  <1>1. req'[u] = req[u] /\ pc[u] # "idle"
    BY Moves DEF Arrived, Advanced, Stored, GaveUp, RInv, ExchangeKinds, IInv,
       TypeOK, Waiting
  <1>2. req[u].cred \in Requests /\ pc[req[u].cred] = "issued"
    BY <1>1 DEF RInv, PresentedCodes
  <1>3. CASE pc[u] \in {"saveRefreshToken", "saveAccessToken", "issued"}
    <2>1. req[u].cred \notin db["authorizationCodes"]
      BY <1>1, <1>3 DEF RInv, RedeemedCodesDeleted
    <2> QED
      BY <1>1, <1>2, <2>1, TablesChange DEF Tables
  <1>4. CASE pc[u] \notin {"saveRefreshToken", "saveAccessToken", "issued"}
    BY <1>1, <1>4, Moves
    DEF Advanced, Stored, Arrived, GaveUp, RInv, CodeRequests
  <1> QED
    BY <1>3, <1>4

LEMMA NextPreservesRInv == IInv /\ RInv /\ [Next]_vars => RInv'
  BY DeletionsStayJustified, RequestsStayConsistent, SavedStayKept,
     RedeemedStayDeleted DEF RInv

\* RInv, together with IInv, is inductive.
THEOREM RetentionInductive == Spec => [](IInv /\ RInv)
  <1> QED
    BY InitIInv, InitRInv, NextPreserves, NextPreservesRInv, PTL DEF Spec

\* Once a client has tokens for a code, the code is gone, for good.
THEOREM RedeemedCodesDeletedHolds == Spec => []RedeemedCodesDeleted
  <1>1. RInv => RedeemedCodesDeleted
    BY DEF RInv
  <1> QED
    BY <1>1, RetentionInductive, PTL

\* Whoever draws tokens for a credential is the client it was issued to, at the
\* API that issued it; and only the two exchanges present one.
OwnersRedeem ==
  \A u \in Requests :
    /\ pc[u] # "idle" /\ req[u].cred # None =>
         req[u].kind \in {"authorization_code", "refresh_token"}
    /\ Minted(u) /\ req[u].cred # None =>
         /\ Minted(req[u].cred)
         /\ req[u].client = tkn[req[u].cred].appId
         /\ req[u].api = tkn[req[u].cred].api

LEMMA PresentersArrive ==
  ASSUME IInv, NEW u \in Requests, Arrive(u), req'[u].cred # None
  PROVE  /\ req'[u].kind \in {"authorization_code", "refresh_token"}
         /\ tkn' = tkn
  <1>1. ~(GenerateAuthCode(u) \/ GenerateImplicitToken(u))
    BY DEF GenerateAuthCode, GenerateImplicitToken, Approve, Approved, IInv, TypeOK
  <1>2. PICK kind \in ExchangeKinds : \E q \in Incoming(kind) :
          req' = [req EXCEPT ![u] = q] /\ tkn' = tkn
    BY <1>1 DEF Arrive, RefuseMultipleSchemes, RefuseMissingCredentials,
       FindClient, Receive
  <1>3. \A q \in Incoming(kind) :
          /\ q.kind = kind
          /\ kind \notin {"authorization_code", "refresh_token"} => q.cred = None
    BY DEF Incoming, Credentials
  <1> QED
    BY <1>2, <1>3 DEF IInv, TypeOK

\* The exchanges compare the client and the API with those of the record.
LEMMA RedeemersOwn ==
  ASSUME IInv, OwnersRedeem, NEW u \in Requests, Callback(u),
         tkn[u] = None, tkn'[u] # None, req[u].cred # None
  PROVE  /\ tkn'[req[u].cred] # None
         /\ req[u].client = tkn'[req[u].cred].appId
         /\ req[u].api = tkn'[req[u].cred].api
  <1>1. \/ ExchangeClientCredentials(u) \/ ExchangePassword(u)
        \/ ExchangeCode(u) \/ ExchangeRefreshToken(u)
    BY DEF Callback, ClientRefused, RefuseInvalid, FindCredential,
       AuthenticateUser, UserRefused, CredentialRefused, Goto, SaveCode,
       DeleteCode, SaveRefreshToken, SaveAccessToken, StoreError
  <1>2. ~(ExchangeClientCredentials(u) \/ ExchangePassword(u))
    BY DEF OwnersRedeem, ExchangeClientCredentials, ExchangePassword,
       ClientFound, IInv, RequestsRecorded
  <1>3. /\ tkn[req[u].cred].appId = req[u].client
        /\ tkn[req[u].cred].api = req[u].api
        /\ \E t \in Tables : req[u].cred \in db[t]
        /\ tkn' = [tkn EXCEPT ![u] = tkn'[u]]
    BY <1>1, <1>2 DEF ExchangeCode, CodeAccepted, ExchangeRefreshToken,
       RefreshTokenAccepted, SameClient, Generate, Tables, IInv, TypeOK
  <1>4. tkn[req[u].cred] \in Records
    BY <1>3 DEF IInv, SavedWereDrawn
  <1>5. tkn[req[u].cred] # None
    BY <1>4, NoneAssumption
  <1> QED
    BY <1>3, <1>5 DEF IInv, TypeOK

LEMMA NextPreservesOwners ==
  ASSUME IInv, OwnersRedeem, [Next]_vars
  PROVE  OwnersRedeem'
  <1> SUFFICES ASSUME NEW u \in Requests, req'[u].cred # None
               PROVE  /\ pc'[u] # "idle" =>
                            req'[u].kind \in {"authorization_code", "refresh_token"}
                      /\ tkn'[u] # None =>
                            /\ tkn'[req'[u].cred] # None
                            /\ req'[u].client = tkn'[req'[u].cred].appId
                            /\ req'[u].api = tkn'[req'[u].cred].api
    BY DEF OwnersRedeem, Minted
  <1>1. tkn[u] # None => pc[u] # "idle"
    BY DEF IInv, NothingDrawnYet
  <1>2. CASE tkn[u] # None
    <2>1. /\ req'[u] = req[u] /\ pc[u] # "idle"
          /\ tkn[req[u].cred] # None
          /\ req[u].client = tkn[req[u].cred].appId
          /\ req[u].api = tkn[req[u].cred].api
      BY <1>1, <1>2, StepUnfolds DEF OwnersRedeem, Minted
    <2>2. req[u].cred \in Requests
      BY <2>1 DEF OwnersRedeem, IInv, RequestsRecorded
    <2> QED
      BY <2>1, <2>2, StepUnfolds DEF OwnersRedeem
  <1>3. CASE tkn[u] = None
    <2>1. CASE Arrive(u)
      BY <1>3, <2>1, PresentersArrive
    <2>2. CASE Callback(u)
      <3>1. req' = req /\ pc[u] # "idle"
        BY <2>2, CallbackUnfolds DEF Waiting
      <3> QED
        BY <1>3, <2>2, <3>1, RedeemersOwn DEF OwnersRedeem
    <2>3. CASE /\ req'[u] = req[u] /\ tkn'[u] = tkn[u]
               /\ pc'[u] # "idle" => pc[u] # "idle"
      BY <1>3, <2>3 DEF OwnersRedeem
    <2>4. ASSUME NEW r \in Requests, r # u, Arrive(r) \/ Callback(r)
          PROVE  req'[u] = req[u] /\ tkn'[u] = tkn[u] /\ pc'[u] = pc[u]
      BY <2>4, ArriveUnfolds, CallbackUnfolds DEF Unfolded
    <2>5. CASE \E d \in deletions : Destroy(d) \/ DestroyFails(d)
      BY <2>3, <2>5 DEF Destroy, DestroyFails
    <2>6. CASE \E t \in Tables, x \in Requests : Expire(t, x)
      BY <2>3, <2>6 DEF Expire
    <2>7. CASE Restart
      BY <2>3, <2>7 DEF Restart, Waiting, IInv, TypeOK
    <2>8. CASE UNCHANGED vars
      BY <2>3, <2>8 DEF vars
    <2> QED
      BY <2>1, <2>2, <2>3, <2>4, <2>5, <2>6, <2>7, <2>8 DEF Next
  <1> QED
    BY <1>2, <1>3

\* No interleaving of requests, purges, failures and restarts deletes a code or
\* a refresh token that a client may still use, and no exchange of another
\* client does.
THEOREM DeliveredCredentialsKeptHolds == Spec => []DeliveredCredentialsKept
  <1>1. Init => OwnersRedeem
    BY DEF Init, OwnersRedeem, Minted
  <1>2. IInv /\ OwnersRedeem => \A u, x \in Requests : ExchangedBy(u, x) => RedeemedBy(u, x)
    <2> SUFFICES ASSUME IInv, OwnersRedeem, NEW u \in Requests, NEW x \in Requests,
                        ExchangedBy(u, x)
                 PROVE  RedeemedBy(u, x)
      OBVIOUS
    <2> QED
      BY NoneAssumption DEF OwnersRedeem, ExchangedBy, UsedBy, RedeemedBy
  <1>3. IInv /\ RInv /\ OwnersRedeem => DeliveredCredentialsKept
    BY <1>2 DEF RInv, SavedKept, Kept, Spent, DeliveredCredentialsKept
  <1>4. IInv /\ OwnersRedeem /\ [Next]_vars => OwnersRedeem'
    BY NextPreservesOwners
  <1> QED
    BY <1>1, <1>3, <1>4, RetentionInductive, PTL DEF Spec

\* Nor an access token whose refresh token was not used.
THEOREM DeliveredAccessTokensKeptHolds == Spec => []DeliveredAccessTokensKept
  <1>1. RInv => DeliveredAccessTokensKept
    BY DEF RInv, SavedKept, Kept, Spent, DeliveredAccessTokensKept
  <1> QED
    BY <1>1, RetentionInductive, PTL

-----------------------------------------------------------------------------
(* Used refresh tokens.  A token is presented only once its own request has *)
(* been answered, so no save of it is under way when its deletion is issued. *)

PresentedTokens ==
  \A u \in Requests :
    pc[u] # "idle" /\ req[u].kind = "refresh_token" =>
      /\ req[u].cred \in Requests
      /\ pc[req[u].cred] = "issued"
      /\ tkn[req[u].cred].countDown > 0

UInv == PresentedTokens /\ UsedTokensOnTheWayOut

LEMMA PresentedTokensPreserved ==
  ASSUME IInv, RInv, PresentedTokens, [Next]_vars
  PROVE  PresentedTokens'
  <1> SUFFICES ASSUME NEW u \in Requests, pc'[u] # "idle",
                      req'[u].kind = "refresh_token"
               PROVE  /\ req'[u].cred \in Requests
                      /\ pc'[req'[u].cred] = "issued"
                      /\ tkn'[req'[u].cred].countDown > 0
    BY DEF PresentedTokens
  <1>1. ASSUME NEW r \in Requests, Arrive(r), u = r
        PROVE  /\ req'[u].cred \in Requests
               /\ pc[req'[u].cred] = "issued"
               /\ tkn[req'[u].cred].countDown > 0
    <2>1. ~(GenerateAuthCode(r) \/ GenerateImplicitToken(r))
      BY <1>1 DEF GenerateAuthCode, GenerateImplicitToken, Approve, Approved,
         IInv, TypeOK
    <2>2. PICK kind \in ExchangeKinds : \E q \in Incoming(kind) :
            req' = [req EXCEPT ![r] = q]
      BY <1>1, <2>1 DEF Arrive, RefuseMultipleSchemes,
         RefuseMissingCredentials, FindClient, Receive
    <2>3. \A q \in Incoming(kind) :
            q.kind = kind /\ (kind = "refresh_token" => q.cred \in HeldRefreshTokens)
      BY DEF Incoming, Credentials
    <2> QED
      BY <1>1, <2>2, <2>3 DEF IInv, TypeOK, HeldRefreshTokens
  <1>2. /\ req'[u].cred \in Requests
        /\ pc[req'[u].cred] = "issued"
        /\ tkn[req'[u].cred].countDown > 0
    <2>1. CASE \E r \in Requests : Arrive(r)
      BY <1>1, <2>1, ArriveUnfolds DEF Unfolded, PresentedTokens
    <2>2. CASE \E r \in Requests : Callback(r)
      BY <2>2, CallbackUnfolds DEF Unfolded, PresentedTokens, Waiting
    <2>3. CASE \E d \in deletions : Destroy(d) \/ DestroyFails(d)
      BY <2>3 DEF Destroy, DestroyFails, PresentedTokens
    <2>4. CASE \E t \in Tables, y \in Requests : Expire(t, y)
      BY <2>4 DEF Expire, PresentedTokens
    <2>5. CASE Restart
      BY <2>5 DEF IInv, TypeOK, Restart, PresentedTokens, Waiting
    <2>6. CASE UNCHANGED vars
      BY <2>6 DEF vars, PresentedTokens
    <2> QED
      BY <2>1, <2>2, <2>3, <2>4, <2>5, <2>6 DEF Next
  <1>3. tkn[req'[u].cred] # None
    BY <1>2, NoneAssumption DEF IInv, SavedWereDrawn
  <1> QED
    BY <1>2, <1>3, StepUnfolds DEF Final

\* The renewal that uses a token issues both of its deletions, and they match.
LEMMA RenewalDeletes ==
  ASSUME IInv, RInv, PresentedTokens, NEW r \in Requests,
         ExchangeRefreshToken(r), NEW t \in {"refreshTokens", "accessTokens"},
         NEW x, x = req[r].cred, x \in db'[t]
  PROVE  \E d \in deletions' : d.table = t /\ x \in Matching(d)'
  <1>1. PICK d \in deletions' : d = Deletion(t, {x}, req[r].client)
    BY DEF ExchangeRefreshToken, Cleanup
  <1>2. x \in Requests /\ x # r
    BY DEF PresentedTokens, ExchangeRefreshToken
  <1>3. tkn[x].appId = req[r].client /\ tkn'[x] = tkn[x]
    BY <1>2 DEF ExchangeRefreshToken, RefreshTokenAccepted, SameClient,
       Generate, IInv, TypeOK
  <1>4. d.table = t /\ x \in Matching(d)'
    BY <1>1, <1>3 DEF Matching, Deletion
  <1> QED
    BY <1>4

LEMMA UsedTokensPreserved ==
  ASSUME IInv, RInv, UInv, [Next]_vars
  PROVE  UsedTokensOnTheWayOut'
  <1> SUFFICES ASSUME failures' = 0, NEW u \in Requests, NEW x \in Requests,
                      ExchangedBy(u, x)', req'[u].kind = "refresh_token",
                      NEW t \in {"refreshTokens", "accessTokens"}, x \in db'[t]
               PROVE  \E d \in deletions' : d.table = t /\ x \in Matching(d)'
    BY DEF UsedTokensOnTheWayOut
  <1>1. failures = 0 /\ pc'[u] # "idle" /\ pc'[x] = "issued"
        /\ req'[u].cred = x
    <2>1. IdleUnknown' /\ PresentedTokens'
      BY RequestsStayConsistent, PresentedTokensPreserved DEF UInv
    <2>2. failures = 0
      BY DEF Next, Arrive, GenerateAuthCode, GenerateImplicitToken, Approve,
         RefuseMultipleSchemes, RefuseMissingCredentials, FindClient, Receive,
         Callback, ClientRefused, RefuseInvalid, FindCredential, Goto,
         AuthenticateUser, UserRefused, CredentialRefused, Generate,
         ExchangeClientCredentials, ExchangePassword, ExchangeCode,
         ExchangeRefreshToken, SaveCode, DeleteCode, SaveRefreshToken,
         SaveAccessToken, StoreError, Destroy, DestroyFails, Expire, Restart,
         vars, IInv, TypeOK
    <2> QED
      BY <2>1, <2>2 DEF IdleUnknown, PresentedTokens, ExchangedBy, UsedBy
  <1>2. ASSUME ExchangedBy(u, x), pc[u] # "idle", UNCHANGED <<req[u], tkn[x]>>,
               x \in db[t], deletions \subseteq deletions'
        PROVE  \E d \in deletions' : d.table = t /\ x \in Matching(d)'
    <2>1. PICK d \in deletions : d.table = t /\ x \in Matching(d)
      BY <1>1, <1>2 DEF UInv, UsedTokensOnTheWayOut
    <2> QED
      BY <1>2, <2>1 DEF Matching
  <1>3. CASE \E r \in Requests : Arrive(r)
    <2>1. PICK r \in Requests : Arrive(r)
      BY <1>3
    <2>2. /\ UNCHANGED db
          /\ deletions \subseteq deletions'
      BY <2>1 DEF Arrive, GenerateAuthCode, GenerateImplicitToken, Approve,
         RefuseMultipleSchemes, RefuseMissingCredentials, FindClient, Receive
    <2>3. u # r
      BY <2>1 DEF Arrive, GenerateAuthCode, GenerateImplicitToken, Approve,
         Approved, RefuseMultipleSchemes, RefuseMissingCredentials, FindClient,
         Receive, IInv, TypeOK, NothingDrawnYet, ExchangedBy, Minted
    <2>4. x # r
      BY <1>1, <2>1, ArriveMoves DEF Arrived
    <2> QED
      BY <1>1, <1>2, <2>1, <2>2, <2>3, <2>4, ArriveUnfolds
      DEF Unfolded, ExchangedBy, UsedBy, Minted
  <1>4. CASE \E r \in Requests : Callback(r)
    <2>1. PICK r \in Requests : Callback(r)
      BY <1>4
    <2>2. CASE ExchangeRefreshToken(r) /\ u = r
      BY <1>1, <2>2, RenewalDeletes DEF UInv, ExchangeRefreshToken, Generate
    <2>3. CASE ~(ExchangeRefreshToken(r) /\ u = r)
      <3>1. /\ req'[u] = req[u] /\ pc[u] # "idle" /\ pc[r] \in Waiting
            /\ pc[x] = "issued" /\ x # r /\ tkn'[x] = tkn[x]
        <4>1. req'[u] = req[u] /\ pc[u] # "idle" /\ pc[r] \in Waiting
          BY <1>1, <2>1, CallbackUnfolds DEF Unfolded, Waiting
        <4>2. pc[x] = "issued"
          BY <1>1, <4>1 DEF UInv, PresentedTokens
        <4> QED
          BY <2>1, <4>1, <4>2, CallbackUnfolds DEF Unfolded, Waiting
      <3>2. ExchangedBy(u, x)
        <4>1. CASE u # r
          BY <2>1, <3>1, <4>1, CallbackUnfolds
          DEF Unfolded, ExchangedBy, UsedBy, Minted
        <4>2. CASE u = r
          <5>1. tkn' = tkn
            BY <2>1, <2>3, <3>1, <4>2
            DEF Callback, ClientRefused, RefuseInvalid, FindCredential, Goto,
                AuthenticateUser, UserRefused, CredentialRefused,
                ExchangeClientCredentials, ExchangePassword, ExchangeCode,
                SaveCode, DeleteCode, SaveRefreshToken, SaveAccessToken,
                StoreError, IInv, RequestsRecorded
          <5> QED
            BY <3>1, <5>1 DEF ExchangedBy, UsedBy, Minted
        <4> QED
          BY <4>1, <4>2
      <3>3. x \in db[t]
        <4>1. UNCHANGED db \/ db' = Written(r)
          BY <2>1
          DEF Callback, ClientRefused, RefuseInvalid, FindCredential,
              AuthenticateUser, UserRefused, CredentialRefused, Goto,
              ExchangeClientCredentials, ExchangePassword, ExchangeCode,
              ExchangeRefreshToken, Generate, SaveCode, DeleteCode,
              SaveRefreshToken, SaveAccessToken, StoreError
        <4> QED
          BY <3>1, <4>1 DEF Written, IInv, TypeOK, Tables
      <3>4. deletions \subseteq deletions'
        BY <2>1
        DEF Callback, ClientRefused, RefuseInvalid, FindCredential, Goto,
            AuthenticateUser, UserRefused, CredentialRefused, Generate,
            ExchangeClientCredentials, ExchangePassword, ExchangeCode,
            ExchangeRefreshToken, SaveCode, DeleteCode, SaveRefreshToken,
            SaveAccessToken, StoreError
      <3> QED
        BY <1>2, <3>1, <3>2, <3>3, <3>4
    <2> QED
      BY <2>2, <2>3
  <1>5. CASE \E d \in deletions : Destroy(d) \/ DestroyFails(d)
    <2>1. PICK e \in deletions : Destroy(e)
      BY <1>1, <1>5 DEF DestroyFails
    <2>2. PICK d \in deletions : d.table = t /\ x \in Matching(d)
      BY <1>1, <2>1 DEF UInv, UsedTokensOnTheWayOut, Destroy, ExchangedBy,
         UsedBy, Minted, IInv, TypeOK, Tables
    <2>3. d # e
      BY <2>1, <2>2 DEF Destroy, IInv, TypeOK, Tables
    <2> QED
      BY <2>1, <2>2, <2>3 DEF Destroy, Matching
  <1>6. CASE \E tt \in Tables, y \in Requests : Expire(tt, y)
    BY <1>1, <1>6 DEF Expire, UInv, UsedTokensOnTheWayOut, ExchangedBy, UsedBy,
       Minted, Matching
  <1>7. CASE Restart
    BY <1>1, <1>7 DEF Restart, IInv, TypeOK
  <1>8. CASE UNCHANGED vars
    BY <1>1, <1>8 DEF vars, UInv, UsedTokensOnTheWayOut, ExchangedBy, UsedBy,
       Minted, Matching
  <1> QED
    BY <1>3, <1>4, <1>5, <1>6, <1>7, <1>8 DEF Next

\* UInv is inductive, given IInv and RInv.
LEMMA UsedInductive == Spec => [](IInv /\ RInv /\ UInv)
  <1>1. Init => UInv
    BY NoneAssumption DEF Init, UInv, PresentedTokens, UsedTokensOnTheWayOut,
       ExchangedBy, UsedBy
  <1>2. IInv /\ RInv /\ UInv /\ [Next]_vars => UInv'
    BY PresentedTokensPreserved, UsedTokensPreserved DEF UInv
  <1> QED
    BY <1>1, <1>2, RetentionInductive, PTL DEF Spec

\* As long as no store call failed, every used refresh token and the access
\* token issued with it are gone, or a deletion that will take them is issued.
THEOREM UsedTokensOnTheWayOutHolds == Spec => []UsedTokensOnTheWayOut
  <1>1. UInv => UsedTokensOnTheWayOut
    BY DEF UInv
  <1> QED
    BY <1>1, UsedInductive, PTL

-----------------------------------------------------------------------------
(* Revoked credentials.  The deletion names one table, so what is presented  *)
(* as a code must be in no other table, and likewise for a refresh token.    *)

CodesApart ==
  /\ \A x \in Requests :
       /\ pc[x] # "idle" /\ req[x].kind = "code" => tkn[x] \in Records /\ tkn[x].countDown = 0
       /\ pc[x] # "idle" /\ req[x].cred # None =>
            req[x].kind \in {"authorization_code", "refresh_token"}
  /\ \A x \in db["authorizationCodes"] : pc[x] # "idle" /\ req[x].kind = "code"

VInv == CodesApart /\ RevokedOnTheWayOut

\* Only an exchange of a credential presents one.
LEMMA ArriveApart ==
  ASSUME IInv, NEW r \in Requests, Arrive(r)
  PROVE  req'[r].cred # None => req'[r].kind \in {"authorization_code", "refresh_token"}
  <1>1. CASE GenerateAuthCode(r) \/ GenerateImplicitToken(r)
    BY <1>1 DEF IInv, TypeOK, GenerateAuthCode, GenerateImplicitToken, Approve, Approved
  <1>2. CASE RefuseMultipleSchemes(r) \/ RefuseMissingCredentials(r) \/ FindClient(r)
    <2>1. PICK kind \in ExchangeKinds : \E q \in Incoming(kind) :
            req' = [req EXCEPT ![r] = q]
      BY <1>2 DEF RefuseMultipleSchemes, RefuseMissingCredentials, FindClient, Receive
    <2>2. \A q \in Incoming(kind) : q.kind = kind /\ q.cred \in Credentials(kind)
      BY DEF Incoming
    <2>3. kind \notin {"authorization_code", "refresh_token"} => Credentials(kind) = {None}
      BY DEF Credentials
    <2> QED
      BY <2>1, <2>2, <2>3 DEF IInv, TypeOK
  <1> QED
    BY <1>1, <1>2 DEF Arrive

LEMMA CodesStayApart ==
  ASSUME IInv, RInv, CodesApart, [Next]_vars
  PROVE  CodesApart'
  <1> DEFINE Apart(x) ==
        /\ pc[x] # "idle" /\ req[x].kind = "code" => tkn[x] \in Records /\ tkn[x].countDown = 0
        /\ pc[x] # "idle" /\ req[x].cred # None =>
             req[x].kind \in {"authorization_code", "refresh_token"}
  <1>1. ASSUME NEW x \in Requests, pc[x] # "idle" PROVE Apart(x)'
    <2>1. req'[x] = req[x] /\ (tkn[x] # None => tkn'[x] = tkn[x])
      BY <1>1, StepUnfolds
    <2> QED
      BY <1>1, <2>1, NoneAssumption DEF CodesApart
  <1>2. ASSUME NEW x \in Requests, pc[x] = "idle", pc'[x] # "idle" PROVE Apart(x)'
    <2>1. Arrived(x)
      BY <1>2, Moves DEF Advanced, Stored, GaveUp, Waiting
    <2>2. req'[x].kind = "code" => tkn'[x] \in Records /\ tkn'[x].countDown = 0
      BY <2>1, NextPreserves DEF Arrived, ExchangeKinds, IInv, SavedWereDrawn
    <2>3. PICK r \in Requests : Arrive(r) /\ x = r
      BY <1>2, ArriveUnfolds, CallbackUnfolds
      DEF Next, Unfolded, Destroy, DestroyFails, Expire, Restart, IInv, TypeOK, Waiting, vars
    <2> QED
      BY <2>2, <2>3, ArriveApart
  <1>3. ASSUME NEW x \in db'["authorizationCodes"]
        PROVE  pc'[x] # "idle" /\ req'[x].kind = "code"
    <2>1. x \in Requests
      BY <1>3, NextPreserves DEF IInv, TypeOK, Tables
    <2>2. pc[x] # "idle" /\ req[x].kind = "code"
      BY <1>3, <2>1, TablesChange DEF CodesApart, RInv, CodeRequests, Tables
    <2> QED
      BY <2>1, <2>2, StepUnfolds
  <1> QED
    BY <1>1, <1>2, <1>3 DEF CodesApart

\* A credential is presented once the request that drew it is answered.
LEMMA PresentedAnswered ==
  ASSUME IInv, RInv, PresentedTokens, CodesApart, NEW u \in Requests, NEW x \in Requests,
         pc[u] # "idle", req[u].cred = x
  PROVE  pc[x] = "issued" /\ tkn[x] \in Records
  <1>1. req[u].kind \in {"authorization_code", "refresh_token"}
    BY NoneAssumption DEF CodesApart
  <1>2. pc[x] = "issued"
    BY <1>1 DEF RInv, PresentedCodes, PresentedTokens
  <1> QED
    BY <1>2 DEF IInv, SavedWereDrawn

\* Whoever fails to authenticate its client issues the deletion, and it matches.
LEMMA RevocationDeletes ==
  ASSUME NEW q, q.kind \in {"authorization_code", "refresh_token"},
         RemoveCredential(q) \subseteq deletions', NEW t \in {"authorizationCodes", "refreshTokens"},
         NEW x, x = q.cred, x \in db'[t],
         q.kind = "authorization_code" => t = "authorizationCodes",
         q.kind = "refresh_token" => t = "refreshTokens"
  PROVE  \E d \in deletions' : d.table = t /\ x \in Matching(d)'
  <1>1. Deletion(t, {x}, None) \in deletions'
    BY DEF RemoveCredential
  <1>2. Deletion(t, {x}, None).table = t /\ x \in Matching(Deletion(t, {x}, None))'
    BY DEF Matching, Deletion
  <1> QED
    BY <1>1, <1>2

LEMMA RevokedPreserved ==
  ASSUME IInv, RInv, UInv, VInv, [Next]_vars
  PROVE  RevokedOnTheWayOut'
  <1> SUFFICES ASSUME failures' = 0, NEW u \in Requests, NEW x \in Requests, RevokedBy(u, x)',
                      NEW t \in {"authorizationCodes", "refreshTokens"}, x \in db'[t]
               PROVE  \E d \in deletions' : d.table = t /\ x \in Matching(d)'
    BY DEF RevokedOnTheWayOut
  <1>1. IInv' /\ RInv' /\ PresentedTokens' /\ CodesApart'
    BY NextPreserves, NextPreservesRInv, PresentedTokensPreserved, CodesStayApart DEF UInv, VInv
  <1>2. failures = 0
    BY DEF Next, Arrive, GenerateAuthCode, GenerateImplicitToken, Approve,
       RefuseMultipleSchemes, RefuseMissingCredentials, FindClient, Receive,
       Callback, ClientRefused, RefuseInvalid, FindCredential, Goto,
       AuthenticateUser, UserRefused, CredentialRefused, Generate,
       ExchangeClientCredentials, ExchangePassword, ExchangeCode,
       ExchangeRefreshToken, SaveCode, DeleteCode, SaveRefreshToken,
       SaveAccessToken, StoreError, Destroy, DestroyFails, Expire, Restart,
       vars, IInv, TypeOK
  <1>3. /\ pc'[u] = "unauthenticated" /\ req'[u].cred = x /\ pc'[x] = "issued"
        /\ req'[u].kind \in {"authorization_code", "refresh_token"}
        /\ req'[u].kind = "authorization_code" => t = "authorizationCodes"
        /\ req'[u].kind = "refresh_token" => t = "refreshTokens"
    <2>1. pc'[u] = "unauthenticated" /\ req'[u].cred = x
      BY DEF RevokedBy, UsedBy
    <2>2. pc'[u] # "idle" /\ x # None
      BY <2>1, NoneAssumption
    <2>3. req'[u].kind \in {"authorization_code", "refresh_token"}
      BY <1>1, <2>1, <2>2 DEF CodesApart
    <2>4. CASE req'[u].kind = "authorization_code"
      <3>1. pc'[x] = "issued" /\ req'[x].kind = "code"
        BY <1>1, <2>1, <2>2, <2>4 DEF RInv, PresentedCodes
      <3>2. tkn'[x] \in Records /\ tkn'[x].countDown = 0
        BY <1>1, <3>1 DEF CodesApart
      <3>3. t # "refreshTokens"
        BY <1>1, <3>2 DEF IInv, SavedWereDrawn
      <3> QED
        BY <2>1, <2>4, <3>1, <3>3
    <2>5. CASE req'[u].kind = "refresh_token"
      <3>1. pc'[x] = "issued" /\ tkn'[x].countDown > 0
        BY <1>1, <2>1, <2>2, <2>5 DEF PresentedTokens
      <3>2. t # "authorizationCodes"
        BY <1>1, <3>1 DEF CodesApart
      <3> QED
        BY <2>1, <2>5, <3>1, <3>2
    <2> QED
      BY <2>3, <2>4, <2>5
  <1>4. ASSUME RevokedBy(u, x), UNCHANGED tkn[x], x \in db[t], deletions \subseteq deletions'
        PROVE  \E d \in deletions' : d.table = t /\ x \in Matching(d)'
    <2>1. PICK d \in deletions : d.table = t /\ x \in Matching(d)
      BY <1>2, <1>4 DEF VInv, RevokedOnTheWayOut
    <2> QED
      BY <1>4, <2>1 DEF Matching
  <1>5. CASE \E r \in Requests : Arrive(r)
    <2>1. PICK r \in Requests : Arrive(r)
      BY <1>5
    <2>2. UNCHANGED db /\ deletions \subseteq deletions'
      BY <2>1 DEF Arrive, GenerateAuthCode, GenerateImplicitToken, Approve,
         RefuseMultipleSchemes, RefuseMissingCredentials, FindClient, Receive
    <2>3. x # r
      BY <1>3, <2>1, ArriveMoves DEF Arrived
    <2>4. CASE u # r
      BY <1>4, <2>1, <2>2, <2>3, <2>4, ArriveUnfolds DEF Unfolded, RevokedBy, UsedBy
    <2>5. CASE u = r
      <3>1. RefuseMissingCredentials(r)
        BY <1>3, <2>1, <2>5 DEF Arrive, GenerateAuthCode, GenerateImplicitToken, Approve,
           RefuseMultipleSchemes, FindClient, Receive, IInv, TypeOK
      <3>2. PICK q : Receive(r, q, "unauthenticated", RemoveCredential(q))
        BY <3>1 DEF RefuseMissingCredentials
      <3>3. req'[u] = q /\ RemoveCredential(q) \subseteq deletions'
        BY <2>5, <3>2 DEF Receive, IInv, TypeOK
      <3> QED
        BY <1>3, <3>3, RevocationDeletes
    <2> QED
      BY <2>4, <2>5
  <1>6. CASE \E r \in Requests : Callback(r)
    <2>1. PICK r \in Requests : Callback(r)
      BY <1>6
    <2>2. CASE ClientRefused(r) /\ u = r
      <3>1. req'[u] = req[r] /\ RemoveCredential(req[r]) \subseteq deletions'
        BY <2>2 DEF ClientRefused
      <3> QED
        BY <1>3, <3>1, RevocationDeletes
    <2>3. CASE ~(ClientRefused(r) /\ u = r)
      <3>1. req'[u] = req[u] /\ pc[u] # "idle" /\ pc[r] \in Waiting
        BY <1>3, <2>1, CallbackUnfolds DEF Unfolded, Waiting
      <3>2. pc[x] = "issued" /\ tkn[x] \in Records
        BY <1>3, <3>1, PresentedAnswered DEF UInv, VInv
      <3>3. x # r /\ tkn'[x] = tkn[x]
        BY <2>1, <3>1, <3>2, CallbackUnfolds DEF Unfolded, Waiting
      <3>4. RevokedBy(u, x)
        <4>1. CASE u # r
          BY <2>1, <4>1, CallbackUnfolds DEF Unfolded, RevokedBy, UsedBy
        <4>2. CASE u = r
          BY <1>3, <2>1, <2>3, <4>2
          DEF Callback, RefuseInvalid, FindCredential, Goto,
              AuthenticateUser, UserRefused, CredentialRefused, Generate,
              ExchangeClientCredentials, ExchangePassword, ExchangeCode,
              ExchangeRefreshToken, SaveCode, DeleteCode, SaveRefreshToken,
              SaveAccessToken, StoreError, FirstSave, IInv, TypeOK
        <4> QED
          BY <4>1, <4>2
      <3>5. x \in db[t]
        <4>1. UNCHANGED db \/ db' = Written(r)
          BY <2>1
          DEF Callback, ClientRefused, RefuseInvalid, FindCredential,
              AuthenticateUser, UserRefused, CredentialRefused, Goto,
              ExchangeClientCredentials, ExchangePassword, ExchangeCode,
              ExchangeRefreshToken, Generate, SaveCode, DeleteCode,
              SaveRefreshToken, SaveAccessToken, StoreError
        <4> QED
          BY <3>3, <4>1 DEF Written, IInv, TypeOK, Tables
      <3>6. deletions \subseteq deletions'
        BY <2>1
        DEF Callback, ClientRefused, RefuseInvalid, FindCredential, Goto,
            AuthenticateUser, UserRefused, CredentialRefused, Generate,
            ExchangeClientCredentials, ExchangePassword, ExchangeCode,
            ExchangeRefreshToken, SaveCode, DeleteCode, SaveRefreshToken,
            SaveAccessToken, StoreError
      <3> QED
        BY <1>4, <3>3, <3>4, <3>5, <3>6
    <2> QED
      BY <2>2, <2>3
  <1>7. CASE \E d \in deletions : Destroy(d) \/ DestroyFails(d)
    <2>1. PICK e \in deletions : Destroy(e)
      BY <1>2, <1>7 DEF DestroyFails
    <2>2. PICK d \in deletions : d.table = t /\ x \in Matching(d)
      BY <1>2, <2>1 DEF VInv, RevokedOnTheWayOut, Destroy, RevokedBy, UsedBy, IInv, TypeOK, Tables
    <2>3. d # e
      BY <2>1, <2>2 DEF Destroy, IInv, TypeOK, Tables
    <2> QED
      BY <2>1, <2>2, <2>3 DEF Destroy, Matching
  <1>8. CASE \E tt \in Tables, y \in Requests : Expire(tt, y)
    BY <1>2, <1>8 DEF Expire, VInv, RevokedOnTheWayOut, RevokedBy, UsedBy, Matching
  <1>9. CASE Restart
    BY <1>2, <1>9 DEF Restart, IInv, TypeOK
  <1>10. CASE UNCHANGED vars
    BY <1>2, <1>10 DEF vars, VInv, RevokedOnTheWayOut, RevokedBy, UsedBy, Matching
  <1> QED
    BY <1>5, <1>6, <1>7, <1>8, <1>9, <1>10 DEF Next

\* As long as no store call failed, a code or refresh token presented by a request
\* that fails to authenticate its client is gone, or a deletion that will take it is
\* issued, and no save under way brings it back (middleware/authentication.js:17-73).
THEOREM RevokedOnTheWayOutHolds == Spec => []RevokedOnTheWayOut
  <1>1. Init => VInv
    BY NoneAssumption DEF Init, VInv, CodesApart, RevokedOnTheWayOut, RevokedBy, UsedBy, Tables
  <1>2. IInv /\ RInv /\ UInv /\ VInv /\ [Next]_vars => VInv'
    BY CodesStayApart, RevokedPreserved DEF VInv
  <1>3. VInv => RevokedOnTheWayOut
    BY DEF VInv
  <1> QED
    BY <1>1, <1>2, <1>3, UsedInductive, PTL DEF Spec
=============================================================================
