------------------------- MODULE GrantLedger_proofs -------------------------
(***************************************************************************)
(* TokenExchange implements GrantLedger: each of its steps opens a grant,  *)
(* derives one, stores, delivers, revokes or withdraws credentials, or     *)
(* changes nothing the ledger speaks of.                                   *)
(***************************************************************************)
EXTENDS TokenExchange_proofs

\* Only exchanges of codes and refresh tokens present a credential.
GrantsOpened ==
  \A u \in Requests :
    pc[u] # "idle" /\ req[u].kind \notin {"authorization_code", "refresh_token"} =>
      req[u].cred = None

\* A request has a code or a refresh token, never both.
CodesUnrenewable ==
  /\ \A x \in Requests : Minted(x) /\ req[x].kind = "code" => tkn[x].countDown = 0
  /\ \A x \in db["authorizationCodes"] : req[x].kind = "code" /\ pc[x] # "idle"

LInv == PresentedTokens /\ GrantsOpened /\ CodesUnrenewable

-----------------------------------------------------------------------------
LEMMA InitLInv == Init => LInv
  BY NoneAssumption DEF Init, LInv, PresentedTokens, GrantsOpened,
     CodesUnrenewable, Minted, Tables

LEMMA GrantsOpenedPreserved ==
  ASSUME IInv, RInv, GrantsOpened, [Next]_vars
  PROVE  GrantsOpened'
  <1> SUFFICES ASSUME NEW u \in Requests, pc'[u] # "idle",
                      req'[u].kind \notin {"authorization_code", "refresh_token"}
               PROVE  req'[u].cred = None
    BY DEF GrantsOpened
  <1>1. ASSUME NEW r \in Requests, Arrive(r), u = r
        PROVE  req'[u].cred = None
    <2>1. CASE GenerateAuthCode(r) \/ GenerateImplicitToken(r)
      BY <1>1, <2>1 DEF GenerateAuthCode, GenerateImplicitToken, Approve,
         Approved, IInv, TypeOK
    <2>2. CASE ~(GenerateAuthCode(r) \/ GenerateImplicitToken(r))
      <3>1. PICK kind \in ExchangeKinds : \E q \in Incoming(kind) :
              req' = [req EXCEPT ![r] = q]
        BY <1>1, <2>2 DEF Arrive, RefuseMultipleSchemes,
           RefuseMissingCredentials, FindClient, Receive
      <3>2. \A q \in Incoming(kind) :
              /\ q.kind = kind
              /\ kind \notin {"authorization_code", "refresh_token"} => q.cred = None
        BY DEF Incoming, Credentials
      <3> QED
        BY <1>1, <3>1, <3>2 DEF IInv, TypeOK
    <2> QED
      BY <2>1, <2>2
  <1>2. CASE \E r \in Requests : Arrive(r)
    BY <1>1, <1>2, ArriveUnfolds DEF Unfolded, GrantsOpened
  <1>3. CASE \E r \in Requests : Callback(r)
    BY <1>3, CallbackUnfolds DEF Unfolded, GrantsOpened, Waiting
  <1>4. CASE \E d \in deletions : Destroy(d) \/ DestroyFails(d)
    BY <1>4 DEF Destroy, DestroyFails, GrantsOpened
  <1>5. CASE \E t \in Tables, y \in Requests : Expire(t, y)
    BY <1>5 DEF Expire, GrantsOpened
  <1>6. CASE Restart
    BY <1>6 DEF IInv, TypeOK, Restart, GrantsOpened, Waiting
  <1>7. CASE UNCHANGED vars
    BY <1>7 DEF vars, GrantsOpened
  <1> QED
    BY <1>2, <1>3, <1>4, <1>5, <1>6, <1>7 DEF Next

LEMMA CodesUnrenewablePreserved ==
  ASSUME IInv, RInv, CodesUnrenewable, [Next]_vars
  PROVE  CodesUnrenewable'
  <1>1. ASSUME NEW x \in Requests, Minted(x)', req'[x].kind = "code"
        PROVE  tkn'[x].countDown = 0
    <2>1. CASE Arrived(x)
      BY <1>1, <2>1, StepUnfolds DEF Arrived, ExchangeKinds
    <2>2. CASE pc[x] # "idle" /\ req'[x] = req[x]
      <3>1. pc[x] \in {"saveCode"} \cup Final
        BY <1>1, <2>2 DEF RInv, CodeRequests
      <3>2. CASE pc[x] = "saveCode"
        BY <3>2, StepUnfolds, NoneAssumption DEF IInv, SavedWereDrawn, RInv, CodeRequests
      <3>3. CASE pc[x] \in Final /\ tkn'[x] = tkn[x]
        BY <1>1, <2>2, <3>3 DEF CodesUnrenewable, Minted
      <3>4. CASE pc[x] \in Final /\ tkn'[x] # tkn[x]
        BY <3>4, Moves DEF Arrived, Advanced, Stored, GaveUp, Final, Waiting
      <3> QED
        BY <3>1, <3>2, <3>3, <3>4
    <2>3. CASE pc[x] = "idle" /\ req'[x] = req[x] /\ tkn'[x] = tkn[x]
      BY <1>1, <2>3 DEF Minted, IInv, NothingDrawnYet
    <2> QED
      BY <2>1, <2>2, <2>3, Moves DEF Advanced, Stored, GaveUp, Waiting
  <1>2. ASSUME NEW x \in db'["authorizationCodes"]
        PROVE  req'[x].kind = "code" /\ pc'[x] # "idle"
    <2>1. x \in Requests
      BY NextPreserves DEF IInv, TypeOK, Tables
    <2>2. x \in db["authorizationCodes"] \/ pc[x] = "saveCode"
      BY <2>1, TablesChange DEF Tables
    <2>3. req[x].kind = "code" /\ pc[x] # "idle"
      BY <2>1, <2>2 DEF CodesUnrenewable, RInv, CodeRequests
    <2> QED
      BY <2>1, <2>3, StepUnfolds
  <1> QED
    BY <1>1, <1>2 DEF CodesUnrenewable

LEMMA NextPreservesLInv == IInv /\ RInv /\ LInv /\ [Next]_vars => LInv'
  BY PresentedTokensPreserved, GrantsOpenedPreserved, CodesUnrenewablePreserved
  DEF LInv

-----------------------------------------------------------------------------
(* What a step of one request means to the ledger. *)

Simulated == Ledger!Next \/ UNCHANGED Ledger!ledger

LEMMA EntryType ==
  ASSUME IInv, NEW r \in Requests, Minted(r)
  PROVE  Entry(r) \in Ledger!Entries
  <1>1. tkn[r] \in Records
    BY DEF IInv, TypeOK, Minted
  <1> QED
    BY <1>1 DEF Entry, Records, Ledger!Entries

\* What was drawn is never drawn again.
LEMMA EntriesKept ==
  ASSUME IInv, [Next]_vars, NEW u \in Requests, Minted(u)
  PROVE  Minted(u)' /\ Entry(u)' = Entry(u)
  BY StepUnfolds DEF IInv, NothingDrawnYet, Minted, Entry

\* As long as nothing is drawn, the entries stay.
LEMMA EntriesSame ==
  ASSUME IInv, [Next]_vars, UNCHANGED tkn
  PROVE  UNCHANGED GrantEntry
  BY EntriesKept DEF GrantEntry, Minted

\* A request spends what it presents when it draws tokens or is not authenticated.
Spends(u) == req[u] # None /\ (Minted(u) \/ pc[u] = "unauthenticated")

LEMMA SpentSame ==
  ASSUME RInv, NEW r \in Requests, Unfolded(r), Spends(r)' => Spends(r)
  PROVE  UNCHANGED SpentCredentials
  <1>1. \A u \in Requests : (Spends(u) <=> Spends(u)') /\ (Spends(u) => req'[u] = req[u])
    BY DEF Unfolded, Spends, RInv, IdleUnknown, Minted, Final
  <1> QED
    BY <1>1 DEF SpentCredentials, Spends, ExchangedBy, RevokedBy, UsedBy

LEMMA SpentGrows ==
  ASSUME RInv, NEW r \in Requests, Unfolded(r), Spends(r)', ~Spends(r)
  PROVE  SpentCredentials' = SpentCredentials \cup ({req'[r].cred} \cap Requests)
  <1>1. \A u \in Requests \ {r} : (Spends(u) <=> Spends(u)') /\ req'[u] = req[u]
    BY DEF Unfolded, Spends, Minted
  <1> QED
    BY <1>1 DEF SpentCredentials, Spends, ExchangedBy, RevokedBy, UsedBy

\* What r presents has been delivered.
LEMMA PresentedDelivered ==
  ASSUME RInv, LInv, NEW r \in Requests, pc[r] # "idle", req[r].cred \in Requests
  PROVE  req[r].cred \in Delivered
  <1>1. req[r].kind \in {"authorization_code", "refresh_token"}
    BY NoneAssumption DEF LInv, GrantsOpened
  <1> QED
    BY <1>1 DEF Delivered, RInv, PresentedCodes, LInv, PresentedTokens

\* Nothing but r has changed, r has drawn nothing and the tables are as before.
Quiet(r) ==
  Unfolded(r) /\ UNCHANGED <<tkn, Live, Delivered, Lapsed>>

LEMMA QuietSteps ==
  ASSUME IInv, RInv, [Next]_vars, NEW r \in Requests, Quiet(r),
         pc'[r] # "unauthenticated"
  PROVE  Simulated
  <1>1. UNCHANGED GrantEntry
    BY EntriesSame DEF Quiet
  <1>2. UNCHANGED SpentCredentials
    BY SpentSame DEF Quiet, Spends, Minted, Unfolded, RInv, IdleUnknown, IInv, NothingDrawnYet
  <1> QED
    BY <1>1, <1>2 DEF Quiet, Simulated, Ledger!ledger

\* The credential of a request that is not authenticated, if it has one, is revoked.
LEMMA RevokingSteps ==
  ASSUME IInv, RInv, LInv, LInv', [Next]_vars, NEW r \in Requests, Quiet(r),
         pc'[r] = "unauthenticated", req'[r] \in TokenRequests, tkn[r] = None,
         RInv'
  PROVE  Simulated
  <1>1. UNCHANGED GrantEntry
    BY EntriesSame DEF Quiet
  <1>2. Spends(r)' /\ ~Spends(r)
    BY NoneAssumption DEF Spends, Quiet, Unfolded, Minted, Final
  <1>3. SpentCredentials' = SpentCredentials \cup ({req'[r].cred} \cap Requests)
    BY <1>2, SpentGrows DEF Quiet
  <1>4. req'[r].cred \in Requests => req'[r].cred \in Delivered
    <2> SUFFICES ASSUME req'[r].cred \in Requests PROVE req'[r].cred \in Delivered'
      BY DEF Quiet
    <2>1. req'[r].kind \in {"authorization_code", "refresh_token"}
      BY NoneAssumption DEF LInv, GrantsOpened
    <2> QED
      BY <2>1 DEF Delivered, RInv, PresentedCodes, LInv, PresentedTokens
  <1>5. CASE req'[r].cred \in Requests
    <2>1. Ledger!Revoke(req'[r].cred)
      BY <1>1, <1>3, <1>4, <1>5 DEF Quiet, Ledger!Revoke
    <2> QED
      BY <1>5, <2>1 DEF Simulated, Ledger!Next
  <1>6. CASE req'[r].cred \notin Requests
    BY <1>1, <1>3, <1>6 DEF Quiet, Simulated, Ledger!ledger
  <1> QED
    BY <1>5, <1>6

LEMMA DrawingSteps ==
  ASSUME IInv, IInv', [Next]_vars, NEW r \in Requests, Unfolded(r), ~Minted(r), Minted(r)'
  PROVE  /\ Ledger!Draw(r)
         /\ GrantEntry'[r] = Entry(r)'
         /\ \A x \in DOMAIN GrantEntry : GrantEntry[x] = Entry(x)
  <1>1. DOMAIN GrantEntry' = DOMAIN GrantEntry \cup {r}
    BY DEF GrantEntry, Unfolded, Minted
  <1>2. GrantEntry'[r] = Entry(r)'
    BY DEF GrantEntry
  <1>3. Entry(r)' \in Ledger!Entries
    <2>1. tkn'[r] \in Records
      BY DEF IInv, TypeOK, Minted
    <2> QED
      BY <2>1 DEF Entry, Records, Ledger!Entries
  <1>4. \A x \in DOMAIN GrantEntry : GrantEntry'[x] = GrantEntry[x]
    BY EntriesKept DEF GrantEntry
  <1>5. \A x \in DOMAIN GrantEntry : GrantEntry[x] = Entry(x)
    BY DEF GrantEntry
  <1> QED
    BY <1>1, <1>2, <1>3, <1>4, <1>5 DEF Ledger!Draw, GrantEntry

\* A grant is opened by a request that presents nothing.
LEMMA OpeningSteps ==
  ASSUME IInv, IInv', RInv, RInv', LInv', [Next]_vars, NEW r \in Requests, Unfolded(r),
         ~Minted(r), Minted(r)', pc'[r] # "unauthenticated",
         req'[r].kind \notin {"authorization_code", "refresh_token"},
         UNCHANGED <<Live, Delivered, Lapsed>>,
         tkn'[r].api \in Apis, tkn'[r].countDown <= InitialCount(tkn'[r].api)
  PROVE  Simulated
  <1>1. req'[r].cred = None
    BY DEF LInv, GrantsOpened, Unfolded
  <1>2. UNCHANGED SpentCredentials
    <2>1. CASE req'[r] = None
      BY <2>1, SpentSame DEF Spends
    <2>2. CASE req'[r] # None
      BY <1>1, <2>2, SpentGrows, NoneAssumption DEF Spends, Unfolded, Final
    <2> QED
      BY <2>1, <2>2
  <1>3. GrantEntry'[r].left <= [a \in Apis |-> InitialCount(a)][GrantEntry'[r].api]
    <2>1. GrantEntry'[r] = Entry(r)'
      BY DrawingSteps
    <2>2. Entry(r)'.left = tkn'[r].countDown /\ Entry(r)'.api = tkn'[r].api
      BY DEF Entry
    <2> QED
      BY <2>1, <2>2
  <1>4. Ledger!Open(r)
    BY <1>2, <1>3, DrawingSteps DEF Ledger!Open
  <1> QED
    BY <1>4 DEF Simulated, Ledger!Next

\* An exchange derives the new tokens from those of the credential.
LEMMA DerivingSteps ==
  ASSUME IInv, IInv', RInv, LInv, [Next]_vars, NEW r \in Requests, Unfolded(r),
         ~Minted(r), Minted(r)', pc[r] \in Waiting, pc'[r] # "unauthenticated",
         NEW x \in Live, x = req[r].cred, x \in Requests, Minted(x),
         UNCHANGED <<Live, Delivered, Lapsed>>,
         tkn'[r].api = tkn[x].api, tkn'[r].appId = tkn[x].appId,
         tkn'[r].userId = tkn[x].userId, tkn'[r].scopes \subseteq tkn[x].scopes,
         tkn[x].api \in Apis, req[r].kind # "code", req[r] # None,
         IF req[x].kind = "code" THEN tkn'[r].countDown = InitialCount(tkn[x].api)
                                 ELSE tkn'[r].countDown + 1 = tkn[x].countDown
  PROVE  Simulated
  <1>1. req'[r] = req[r] /\ pc[r] # "idle"
    BY DEF Unfolded, Waiting
  <1>2. SpentCredentials' = SpentCredentials \cup {x}
    BY <1>1, SpentGrows DEF Spends, Unfolded, Final
  <1>3. GrantEntry[x] = Entry(x) /\ GrantEntry'[r] = Entry(r)'
    BY DrawingSteps DEF GrantEntry
  <1>4. Ledger!Narrows(GrantEntry'[r], x)
    <2>1. /\ Entry(x).api = tkn[x].api /\ Entry(x).appId = tkn[x].appId
          /\ Entry(x).userId = tkn[x].userId /\ Entry(x).scopes = tkn[x].scopes
          /\ Entry(x).code = (req[x].kind = "code") /\ Entry(x).left = tkn[x].countDown
      BY DEF Entry
    <2>2. /\ Entry(r)'.api = tkn'[r].api /\ Entry(r)'.appId = tkn'[r].appId
          /\ Entry(r)'.userId = tkn'[r].userId /\ Entry(r)'.scopes = tkn'[r].scopes
          /\ Entry(r)'.code = (req'[r].kind = "code") /\ Entry(r)'.left = tkn'[r].countDown
      BY DEF Entry
    <2>3. [a \in Apis |-> InitialCount(a)][tkn[x].api] = InitialCount(tkn[x].api)
      OBVIOUS
    <2> DEFINE e == GrantEntry'[r]
               f == GrantEntry[x]
    <2>4. /\ e.api = f.api /\ e.appId = f.appId /\ e.userId = f.userId
          /\ e.scopes \subseteq f.scopes
      BY <1>3, <2>1, <2>2
    <2>5. ~e.code /\ (f.code <=> req[x].kind = "code")
      BY <1>1, <1>3, <2>1, <2>2
    <2>6. e.left = tkn'[r].countDown /\ f.left = tkn[x].countDown /\ e.api = tkn[x].api
      BY <1>3, <2>1, <2>2
    <2> HIDE DEF e, f
    <2>7. IF f.code THEN e.left = [a \in Apis |-> InitialCount(a)][e.api]
                    ELSE e.left + 1 = f.left
      BY <2>3, <2>5, <2>6
    <2> QED
      BY <2>4, <2>5, <2>7 DEF Ledger!Narrows, e, f
  <1>5. Ledger!Derive(r, x)
    BY <1>1, <1>2, <1>4, DrawingSteps, PresentedDelivered DEF Ledger!Derive
  <1> QED
    BY <1>5 DEF Simulated, Ledger!Next

-----------------------------------------------------------------------------
(* The tables.  A code is in the table of codes and a refresh token in that of *)
(* refresh tokens, so nothing is withdrawn by the deletion of something else.  *)

\* Steps that change the tables draw nothing and present nothing.
Stocktaking ==
  /\ UNCHANGED <<req, tkn>>
  /\ \A u \in Requests : pc'[u] = "unauthenticated" <=> pc[u] = "unauthenticated"

LEMMA StocktakingFrame ==
  ASSUME IInv, [Next]_vars, Stocktaking
  PROVE  UNCHANGED <<GrantEntry, SpentCredentials>>
  BY EntriesSame DEF Stocktaking, SpentCredentials, ExchangedBy, RevokedBy, UsedBy, Minted

LEMMA PuttingSteps ==
  ASSUME IInv, [Next]_vars, Stocktaking, UNCHANGED <<Delivered, Lapsed>>,
         NEW rs \in SUBSET Requests, Live' = Live \cup rs,
         \A r \in rs : /\ Minted(r) /\ pc[r] # "issued"
                       /\ req[r].kind = "code" \/ tkn[r].countDown > 0
  PROVE  Simulated
  <1>1. \A r \in rs : r \in DOMAIN GrantEntry /\ Ledger!IsCredential(GrantEntry[r])
    BY DEF GrantEntry, Entry, Ledger!IsCredential
  <1>2. Ledger!Put(rs)
    BY <1>1, StocktakingFrame DEF Ledger!Put, Delivered
  <1> QED
    BY <1>2 DEF Simulated, Ledger!Next

LEMMA WithdrawingSteps ==
  ASSUME IInv, [Next]_vars, Stocktaking, UNCHANGED <<Delivered, Lapsed>>,
         NEW xs \in SUBSET Requests, Live' = Live \ xs,
         xs \subseteq SpentCredentials \cup Lapsed
  PROVE  Simulated
  <1>1. Ledger!Withdraw(xs)
    BY StocktakingFrame DEF Ledger!Withdraw
  <1> QED
    BY <1>1 DEF Simulated, Ledger!Next

LEMMA TablesDisjoint ==
  ASSUME IInv, LInv
  PROVE  db["authorizationCodes"] \cap db["refreshTokens"] = {}
  <1> SUFFICES ASSUME NEW x \in db["authorizationCodes"], x \in db["refreshTokens"]
               PROVE  FALSE
    OBVIOUS
  <1>1. tkn[x].countDown > 0 /\ tkn[x] \in Records /\ x \in Requests
    BY DEF IInv, SavedWereDrawn, TypeOK, Tables
  <1>2. req[x].kind = "code" /\ Minted(x)
    BY <1>1, NoneAssumption DEF LInv, CodesUnrenewable, Minted
  <1> QED
    BY <1>1, <1>2 DEF LInv, CodesUnrenewable

LEMMA LiveIs ==
  /\ Live = db["authorizationCodes"] \cup db["refreshTokens"]
  /\ Live' = db'["authorizationCodes"] \cup db'["refreshTokens"]
  BY DEF Live, Credential

LEMMA LapsedIs ==
  /\ Lapsed = expired["authorizationCodes"] \cup expired["refreshTokens"]
  /\ Lapsed' = expired'["authorizationCodes"] \cup expired'["refreshTokens"]
  BY DEF Lapsed, Credential

\* A code or refresh token that is being delivered was stored, and is still good,
\* spent or lapsed.
LEMMA DeliveringSteps ==
  ASSUME IInv, [Next]_vars, Stocktaking, UNCHANGED Lapsed, NEW r \in Requests,
         Minted(r), r \notin Delivered, Delivered' = Delivered \cup {r},
         \/ UNCHANGED Live /\ (tkn[r].countDown > 0 => Kept("refreshTokens", r))
                           /\ req[r].kind # "code"
         \/ req[r].kind = "code" /\ Live' = Live \cup {r}
  PROVE  Simulated
  <1>1. UNCHANGED <<GrantEntry, SpentCredentials>> /\ r \in DOMAIN GrantEntry
    BY StocktakingFrame DEF GrantEntry
  <1>2. Ledger!IsCredential(GrantEntry[r]) <=> req[r].kind = "code" \/ tkn[r].countDown > 0
    BY DEF GrantEntry, Entry, Ledger!IsCredential
  <1>3. Kept("refreshTokens", r) => r \in Live \cup SpentCredentials \cup Lapsed
    BY LiveIs, LapsedIs DEF Kept, Spent, SpentCredentials
  <1>4. Ledger!Deliver(r)
    BY <1>1, <1>2, <1>3 DEF Ledger!Deliver
  <1> QED
    BY <1>4 DEF Simulated, Ledger!Next

-----------------------------------------------------------------------------
(* Every action. *)

LEMMA ArriveSimulated ==
  ASSUME IInv, RInv, LInv, IInv', RInv', LInv', NEW r \in Requests, Arrive(r)
  PROVE  Simulated
  <1>1. [Next]_vars
    BY DEF Next
  <1>2. Unfolded(r) /\ pc[r] = "idle" /\ tkn[r] = None
    BY ArriveUnfolds DEF IInv, NothingDrawnYet
  <1>3. UNCHANGED <<Live, Lapsed>>
    BY LiveIs, LapsedIs DEF Arrive, GenerateAuthCode, GenerateImplicitToken, Approve,
       RefuseMultipleSchemes, RefuseMissingCredentials, FindClient, Receive
  <1>4. UNCHANGED Delivered
    <2>1. \A u \in Requests : pc'[u] = "issued" <=> pc[u] = "issued"
      BY <1>2, ArriveMoves DEF Unfolded, Arrived
    <2> QED
      BY <2>1 DEF Delivered
  <1>5. CASE GenerateAuthCode(r) \/ GenerateImplicitToken(r)
    <2>0. PICK kind \in {"code", "implicit"} : \E next \in {"saveCode", "saveAccessToken"} :
            Approve(r, kind, next)
      BY <1>5 DEF GenerateAuthCode, GenerateImplicitToken
    <2>1. PICK next \in {"saveCode", "saveAccessToken"} : Approve(r, kind, next)
      BY <2>0
    <2>2. PICK q \in Approved(kind) :
            /\ req' = [req EXCEPT ![r] = q]
            /\ tkn' = [tkn EXCEPT ![r] = FreshRecord(q, q.user, GrantName(kind), 0)]
            /\ pc' = [pc EXCEPT ![r] = next]
      BY <2>1 DEF Approve
    <2> DOMAIN pc = Requests
      BY DEF IInv, TypeOK
    <2> pc'[r] = next
      BY <2>2
    <2>3. /\ req'[r].kind \in {"code", "implicit"}
          /\ tkn'[r].countDown = 0 /\ tkn'[r].api \in Apis
      BY <2>2 DEF Approved, FreshRecord, IInv, TypeOK
    <2>4. tkn'[r].countDown <= InitialCount(tkn'[r].api)
      BY <2>3, ConfigAssumption DEF InitialCount
    <2>5. Minted(r)' /\ ~Minted(r)
      BY <1>2, <2>2, NoneAssumption DEF Minted, IInv, SavedWereDrawn
    <2> QED
      BY <1>1, <1>2, <1>3, <1>4, <2>2, <2>3, <2>4, <2>5, OpeningSteps
  <1>6. CASE RefuseMultipleSchemes(r) \/ FindClient(r)
    BY <1>1, <1>2, <1>3, <1>4, <1>6, QuietSteps
    DEF Quiet, RefuseMultipleSchemes, FindClient, Receive, IInv, TypeOK
  <1>7. CASE RefuseMissingCredentials(r)
    <2>1. pc'[r] = "unauthenticated" /\ UNCHANGED tkn
      BY <1>7 DEF RefuseMissingCredentials, Receive, IInv, TypeOK
    <2>2. req'[r] \in TokenRequests
      BY <2>1 DEF IInv, RequestsRecorded
    <2> QED
      BY <1>1, <1>2, <1>3, <1>4, <2>1, <2>2, RevokingSteps DEF Quiet
  <1> QED
    BY <1>5, <1>6, <1>7 DEF Arrive

LEMMA LookupsSimulated ==
  ASSUME IInv, RInv, LInv, IInv', RInv', LInv', NEW r \in Requests, Callback(r),
         \/ ClientRefused(r) \/ RefuseInvalid(r) \/ FindCredential(r)
         \/ AuthenticateUser(r) \/ UserRefused(r) \/ CredentialRefused(r)
  PROVE  Simulated
  <1>1. [Next]_vars /\ Unfolded(r) /\ UNCHANGED <<req, tkn, db, expired>>
    BY CallbackUnfolds DEF Next, ClientRefused, RefuseInvalid, FindCredential,
       AuthenticateUser, UserRefused, CredentialRefused, Goto
  <1>2. /\ pc[r] \in {"clients", "user", "find"}
        /\ pc'[r] \in {"unauthenticated", "refused", "find", "user"}
        /\ ~ClientRefused(r) => pc'[r] # "unauthenticated"
    BY DEF ClientRefused, RefuseInvalid, FindCredential, AuthenticateUser,
       UserRefused, CredentialRefused, ClientFound, Goto, IInv, TypeOK
  <1>3. UNCHANGED <<Live, Delivered, Lapsed>>
    <2>1. \A u \in Requests : pc'[u] = "issued" <=> pc[u] = "issued"
      BY <1>1, <1>2 DEF Unfolded
    <2> QED
      BY <1>1, <2>1, LiveIs, LapsedIs DEF Delivered
  <1>4. tkn[r] = None /\ req'[r] \in TokenRequests
    BY <1>1, <1>2 DEF IInv, NothingDrawnYet, RequestsRecorded
  <1>5. CASE pc'[r] = "unauthenticated"
    BY <1>1, <1>3, <1>4, <1>5, RevokingSteps DEF Quiet
  <1>6. CASE pc'[r] # "unauthenticated"
    BY <1>1, <1>3, <1>6, QuietSteps DEF Quiet
  <1> QED
    BY <1>5, <1>6

LEMMA ExchangesSimulated ==
  ASSUME IInv, RInv, LInv, IInv', RInv', LInv', NEW r \in Requests, Callback(r),
         \/ ExchangeClientCredentials(r) \/ ExchangePassword(r)
         \/ ExchangeCode(r) \/ ExchangeRefreshToken(r)
  PROVE  Simulated
  <1>1. [Next]_vars /\ Unfolded(r) /\ UNCHANGED <<req, db, expired>>
    BY CallbackUnfolds DEF Next, ExchangeClientCredentials, ExchangePassword,
       ExchangeCode, ExchangeRefreshToken, Generate
  <1>2. /\ pc[r] \in {"clients", "user", "find"}
        /\ pc'[r] \in {"deleteCode", "saveRefreshToken", "saveAccessToken"}
    BY DEF ExchangeClientCredentials, ExchangePassword, ExchangeCode, FirstSave,
       ExchangeRefreshToken, Generate, ClientFound, IInv, TypeOK
  <1>3. UNCHANGED <<Live, Delivered, Lapsed>>
    <2>1. \A u \in Requests : pc'[u] = "issued" <=> pc[u] = "issued"
      BY <1>1, <1>2 DEF Unfolded
    <2> QED
      BY <1>1, <2>1, LiveIs, LapsedIs DEF Delivered
  <1>4. /\ ~Minted(r) /\ Minted(r)' /\ pc[r] \in Waiting /\ pc[r] # "idle"
        /\ req[r] \in TokenRequests /\ req[r] # None
    BY <1>2, NoneAssumption DEF IInv, NothingDrawnYet, SavedWereDrawn, Minted, Waiting,
       RequestsRecorded
  <1>5. CASE ExchangeClientCredentials(r) \/ ExchangePassword(r)
    <2>1. req[r].kind \in {"client_credentials", "password"}
      BY <1>5 DEF ExchangeClientCredentials, ExchangePassword, IInv, RequestsRecorded
    <2>2. /\ tkn'[r].api = req[r].api
          /\ tkn'[r].countDown = InitialCount(req[r].api)
      BY <1>5 DEF ExchangeClientCredentials, ExchangePassword, Generate, FreshRecord,
         IInv, TypeOK
    <2>3. /\ tkn'[r].api \in Apis
          /\ tkn'[r].countDown <= InitialCount(tkn'[r].api)
      BY <1>4, <2>2, ConfigAssumption DEF TokenRequests, InitialCount
    <2> QED
      BY <1>1, <1>2, <1>3, <1>4, <2>1, <2>3, OpeningSteps
  <1>6. CASE ExchangeCode(r)
    <2> DEFINE x == req[r].cred
    <2>1. x \in db["authorizationCodes"] /\ x \in Requests /\ tkn[x] \in Records /\ Minted(x)
      BY <1>6, NoneAssumption DEF ExchangeCode, CodeAccepted, IInv, TypeOK, Tables,
         SavedWereDrawn, Minted
    <2>2. req[x].kind = "code" /\ x \in Live /\ req[r].kind = "authorization_code"
      BY <1>6, <2>1, LiveIs DEF LInv, CodesUnrenewable, ExchangeCode
    <2>3. tkn[x].api = req[r].api /\ tkn[x].appId = req[r].client
      BY <1>6 DEF ExchangeCode, CodeAccepted, SameClient
    <2>4. tkn'[r] = Redeemed(req[r])
      BY <1>6 DEF ExchangeCode, Generate, IInv, TypeOK
    <2>5. /\ tkn'[r].api = tkn[x].api /\ tkn'[r].appId = tkn[x].appId
          /\ tkn'[r].userId = tkn[x].userId /\ tkn'[r].scopes \subseteq tkn[x].scopes
          /\ tkn'[r].countDown = InitialCount(tkn[x].api)
      BY <2>1, <2>3, <2>4 DEF Redeemed, Records
    <2>6. tkn[x].api \in Apis
      BY <2>1 DEF Records
    <2> HIDE DEF x
    <2> QED
      BY <1>1, <1>2, <1>3, <1>4, <2>1, <2>2, <2>5, <2>6, DerivingSteps DEF x
  <1>7. CASE ExchangeRefreshToken(r)
    <2> DEFINE x == req[r].cred
    <2>1. /\ x \in db["refreshTokens"] /\ x \in Requests /\ tkn[x] \in Records /\ Minted(x)
          /\ tkn[x].countDown > 0
      BY <1>7, NoneAssumption DEF ExchangeRefreshToken, RefreshTokenAccepted, IInv,
         TypeOK, Tables, SavedWereDrawn, Minted
    <2>2. req[x].kind # "code" /\ x \in Live /\ req[r].kind = "refresh_token"
      BY <1>7, <2>1, LiveIs DEF LInv, CodesUnrenewable, ExchangeRefreshToken
    <2>3. /\ tkn[x].api = req[r].api /\ tkn[x].appId = req[r].client
          /\ req[r].scope # None => req[r].scope \subseteq tkn[x].scopes
      BY <1>7 DEF ExchangeRefreshToken, RefreshTokenAccepted, SameClient
    <2>4. tkn'[r] = Renewed(req[r])
      BY <1>7 DEF ExchangeRefreshToken, Generate, IInv, TypeOK
    <2>5. /\ tkn'[r].api = tkn[x].api /\ tkn'[r].appId = tkn[x].appId
          /\ tkn'[r].userId = tkn[x].userId /\ tkn'[r].scopes \subseteq tkn[x].scopes
          /\ tkn'[r].countDown + 1 = tkn[x].countDown
      BY <2>1, <2>3, <2>4 DEF Renewed, Records
    <2>6. tkn[x].api \in Apis
      BY <2>1 DEF Records
    <2> HIDE DEF x
    <2> QED
      BY <1>1, <1>2, <1>3, <1>4, <2>1, <2>2, <2>5, <2>6, DerivingSteps DEF x
  <1> QED
    BY <1>5, <1>6, <1>7

LEMMA StoresSimulated ==
  ASSUME IInv, RInv, LInv, NEW r \in Requests, Callback(r),
         \/ SaveCode(r) \/ DeleteCode(r) \/ SaveRefreshToken(r) \/ SaveAccessToken(r)
         \/ StoreError(r)
  PROVE  Simulated
  <1>1. [Next]_vars /\ Unfolded(r) /\ UNCHANGED <<req, tkn, expired>>
    BY CallbackUnfolds DEF Next, SaveCode, DeleteCode, SaveRefreshToken,
       SaveAccessToken, StoreError
  <1>2. pc'[r] # "unauthenticated" /\ pc[r] \notin {"unauthenticated", "issued", "idle"}
    BY DEF SaveCode, DeleteCode, SaveRefreshToken, SaveAccessToken, StoreError,
       FirstSave, IInv, TypeOK, Waiting
  <1>3. Stocktaking /\ UNCHANGED Lapsed
    <2>1. \A u \in Requests : pc'[u] = "unauthenticated" <=> pc[u] = "unauthenticated"
      BY <1>1, <1>2 DEF Unfolded
    <2> QED
      BY <1>1, <2>1, LapsedIs DEF Stocktaking
  <1>4. CASE pc'[r] = "issued"
    <2>1. SaveCode(r) \/ SaveAccessToken(r)
      BY <1>4 DEF DeleteCode, SaveRefreshToken, StoreError, FirstSave, IInv, TypeOK
    <2>2. Delivered' = Delivered \cup {r} /\ r \notin Delivered
      BY <1>1, <1>2, <1>4 DEF Delivered, Unfolded
    <2>3. Minted(r)
      BY <2>1, NoneAssumption DEF SaveCode, SaveAccessToken, IInv, SavedWereDrawn, Minted
    <2>4. CASE SaveCode(r)
      <3>1. Live' = Live \cup {r}
        BY <2>4, LiveIs DEF SaveCode, Written, IInv, TypeOK, Tables
      <3>2. req[r].kind = "code"
        BY <2>4 DEF SaveCode, RInv, CodeRequests
      <3> QED
        BY <1>1, <1>3, <2>2, <2>3, <3>1, <3>2, DeliveringSteps
    <2>5. CASE SaveAccessToken(r)
      <3>1. UNCHANGED Live
        BY <2>5, LiveIs DEF SaveAccessToken, Written, IInv, TypeOK, Tables
      <3>2. /\ req[r].kind # "code"
            /\ tkn[r].countDown > 0 => Kept("refreshTokens", r)
        BY <2>5 DEF SaveAccessToken, RInv, CodeRequests, SavedKept, Final
      <3> QED
        BY <1>1, <1>3, <2>2, <2>3, <3>1, <3>2, DeliveringSteps
    <2> QED
      BY <2>1, <2>4, <2>5
  <1>5. CASE pc'[r] # "issued"
    <2>1. UNCHANGED Delivered
      <3>1. \A u \in Requests : pc'[u] = "issued" <=> pc[u] = "issued"
        BY <1>1, <1>2, <1>5 DEF Unfolded
      <3> QED
        BY <3>1 DEF Delivered
    <2>2. db' = db \/ db' = Written(r)
      BY DEF SaveCode, DeleteCode, SaveRefreshToken, SaveAccessToken, StoreError
    <2>3. CASE pc[r] \in {"saveCode", "saveRefreshToken"} /\ db' = Written(r)
      <3> DEFINE rs == {r}
      <3>1. Live' = Live \cup rs
        BY <2>3, LiveIs DEF Written, IInv, TypeOK, Tables
      <3>2. /\ rs \in SUBSET Requests
            /\ \A q \in rs : /\ Minted(q) /\ pc[q] # "issued"
                             /\ req[q].kind = "code" \/ tkn[q].countDown > 0
        BY <2>3, NoneAssumption DEF IInv, SavedWereDrawn, Minted, RInv, CodeRequests
      <3> HIDE DEF rs
      <3> QED
        BY <1>1, <1>3, <2>1, <3>1, <3>2, PuttingSteps
    <2>4. CASE pc[r] = "deleteCode" /\ db' = Written(r)
      <3> DEFINE x == req[r].cred
      <3>1. {x} \in SUBSET Requests /\ {x} \subseteq SpentCredentials \cup Lapsed
        BY <2>4, RedeemerSpends DEF SpentCredentials, IInv, RequestsRecorded, RInv,
           WaitingToRedeem
      <3>2. x \notin db["refreshTokens"]
        <4>1. req[x].kind = "code" /\ pc[x] = "issued"
          BY <2>4 DEF RInv, WaitingToRedeem, PresentedCodes
        <4>2. tkn[x].countDown = 0
          BY <3>1, <4>1, NoneAssumption DEF IInv, SavedWereDrawn, Minted, LInv,
             CodesUnrenewable
        <4> QED
          BY <4>2 DEF IInv, SavedWereDrawn
      <3>3. Live' = Live \ {x}
        BY <2>4, <3>2, LiveIs DEF Written, IInv, TypeOK, Tables
      <3> HIDE DEF x
      <3> QED
        BY <1>1, <1>3, <2>1, <3>1, <3>3, WithdrawingSteps
    <2>5. CASE \/ db' = db
               \/ db' = Written(r) /\ pc[r] \notin {"saveCode", "saveRefreshToken", "deleteCode"}
      <3>1. Live' = Live \cup {} /\ {} \in SUBSET Requests
        BY <2>5, LiveIs DEF Written, IInv, TypeOK, Tables
      <3> QED
        BY <1>1, <1>3, <2>1, <3>1, PuttingSteps
    <2> QED
      BY <2>2, <2>3, <2>4, <2>5
  <1> QED
    BY <1>4, <1>5

LEMMA DestroySimulated ==
  ASSUME IInv, RInv, LInv, NEW d \in deletions, Destroy(d)
  PROVE  Simulated
  <1>1. [Next]_vars /\ Stocktaking /\ UNCHANGED <<Lapsed, Delivered>>
    BY LapsedIs DEF Next, Destroy, Stocktaking, Delivered
  <1>2. Matching(d) \subseteq Requests
    BY DEF Matching, IInv, TypeOK, Deletions
  <1>3. CASE d.table = "accessTokens"
    <2>1. Live' = Live \ {} /\ {} \in SUBSET Requests
      BY <1>3, LiveIs DEF Destroy, IInv, TypeOK, Tables
    <2> QED
      BY <1>1, <2>1, WithdrawingSteps
  <1>4. CASE d.table \in {"authorizationCodes", "refreshTokens"}
    <2>1. Matching(d) \subseteq db[d.table] \cap d.ids
      BY DEF Matching
    <2>2. Live' = Live \ Matching(d)
      BY <1>4, <2>1, LiveIs, TablesDisjoint DEF Destroy, IInv, TypeOK, Tables
    <2>3. Matching(d) \subseteq SpentCredentials \cup Lapsed
      BY <1>2, <1>4, <2>1, LapsedIs DEF RInv, DeletionsJustified, Spent, SpentCredentials
    <2> QED
      BY <1>1, <1>2, <2>2, <2>3, WithdrawingSteps
  <1> QED
    BY <1>3, <1>4 DEF IInv, TypeOK, Deletions, Tables

LEMMA ExpireSimulated ==
  ASSUME IInv, NEW t \in Tables, NEW x \in Requests, Expire(t, x)
  PROVE  Simulated
  <1>1. [Next]_vars /\ Stocktaking /\ UNCHANGED <<Live, Delivered>>
    BY LiveIs DEF Next, Expire, Stocktaking, Delivered
  <1>2. UNCHANGED <<GrantEntry, SpentCredentials>>
    BY <1>1, StocktakingFrame
  <1>3. CASE t = "accessTokens"
    <2>1. UNCHANGED Lapsed
      BY <1>3, LapsedIs DEF Expire, IInv, TypeOK, Tables
    <2> QED
      BY <1>1, <1>2, <2>1 DEF Simulated, Ledger!ledger
  <1>4. CASE t \in {"authorizationCodes", "refreshTokens"}
    <2>1. Lapsed' = Lapsed \cup {x} /\ x \in Live
      BY <1>4, LapsedIs, LiveIs DEF Expire, IInv, TypeOK, Tables
    <2>2. Ledger!Lapse(x)
      BY <1>1, <1>2, <2>1 DEF Ledger!Lapse
    <2> QED
      BY <2>2 DEF Simulated, Ledger!Next
  <1> QED
    BY <1>3, <1>4 DEF Tables

\* A code may have been stored for a request that is lost.
LEMMA RestartSimulated ==
  ASSUME IInv, RInv, LInv, Restart
  PROVE  Simulated
  <1>1. \A u \in Requests : pc'[u] = pc[u] \/ (pc[u] \in Waiting /\ pc'[u] = "lost")
    BY DEF Restart, IInv, TypeOK
  <1>2. [Next]_vars /\ Stocktaking /\ UNCHANGED <<Lapsed, Delivered>>
    BY <1>1, LapsedIs DEF Next, Restart, Stocktaking, Delivered, Waiting
  <1>3. PICK stored \in SUBSET Requests :
          db' = [db EXCEPT
            !["authorizationCodes"] = @ \cup {r \in stored : pc[r] = "saveCode"},
            !["accessTokens"] = @ \cup {r \in stored : pc[r] = "saveAccessToken"}]
    BY DEF Restart
  <1> DEFINE rs == {r \in stored : pc[r] = "saveCode"}
  <1>4. Live' = Live \cup rs
    BY <1>3, LiveIs DEF IInv, TypeOK, Tables
  <1>5. \A r \in rs : Minted(r) /\ pc[r] # "issued" /\ req[r].kind = "code"
    BY NoneAssumption DEF IInv, SavedWereDrawn, Minted, RInv, CodeRequests
  <1> HIDE DEF rs
  <1>6. rs \in SUBSET Requests
    BY DEF rs
  <1> QED
    BY <1>2, <1>4, <1>5, <1>6, PuttingSteps

-----------------------------------------------------------------------------
LEMMA InitImplements == Init => Ledger!Init
  <1> SUFFICES ASSUME Init PROVE Ledger!Init
    OBVIOUS
  <1>1. DOMAIN GrantEntry = {}
    BY DEF Init, GrantEntry, Minted
  <1>2. Live = {} /\ Delivered = {} /\ Lapsed = {}
    BY LiveIs, LapsedIs DEF Init, Delivered, Tables
  <1>3. SpentCredentials = {}
    BY DEF Init, SpentCredentials, ExchangedBy, RevokedBy, UsedBy
  <1> QED
    BY <1>1, <1>2, <1>3 DEF Ledger!Init

\* Every step of the token endpoint is a step of the ledger, or none of it.
LEMMA NextImplements ==
  ASSUME IInv, RInv, LInv, [Next]_vars
  PROVE  Simulated
  <1>1. IInv' /\ RInv' /\ LInv'
    BY NextPreserves, NextPreservesRInv, NextPreservesLInv
  <1>2. CASE \E r \in Requests : Arrive(r)
    BY <1>1, <1>2, ArriveSimulated
  <1>3. CASE \E r \in Requests : Callback(r)
    <2>1. PICK r \in Requests : Callback(r)
      BY <1>3
    <2> QED
      BY <1>1, <2>1, LookupsSimulated, ExchangesSimulated, StoresSimulated DEF Callback
  <1>4. ASSUME NEW d \in deletions, DestroyFails(d) PROVE Simulated
    BY <1>4, LiveIs, LapsedIs DEF DestroyFails, Simulated, Ledger!ledger, GrantEntry, Entry,
       Minted, Delivered, SpentCredentials, ExchangedBy, RevokedBy, UsedBy
  <1>5. CASE UNCHANGED vars
    BY <1>5, LiveIs, LapsedIs DEF vars, Simulated, Ledger!ledger, GrantEntry, Entry,
       Minted, Delivered, SpentCredentials, ExchangedBy, RevokedBy, UsedBy
  <1> QED
    BY <1>2, <1>3, <1>4, <1>5, DestroySimulated, ExpireSimulated, RestartSimulated DEF Next

\* TokenExchange implements GrantLedger.
THEOREM LedgerRefined == Spec => LedgerKept
  <1>1. IInv /\ RInv /\ LInv /\ [Next]_vars => [Ledger!Next]_(Ledger!ledger)
    BY NextImplements DEF Simulated
  <1> QED
    BY <1>1, InitLInv, NextPreservesLInv, InitImplements, RetentionInductive, PTL
    DEF Spec, LedgerKept, Ledger!Spec
=============================================================================
