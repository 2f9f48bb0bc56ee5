--------------------- MODULE AuthorizationDialog_proofs ---------------------
(***************************************************************************)
(* Type correctness of the authorization dialog, the two promises that     *)
(* hold although sessions overwrite each other and forms come back in any  *)
(* order (OwnersLoggedIn and GrantedAsShown), and what sessions keep       *)
(* (OneTransactionPerRequest and SequentialDialogKept).                    *)
(*                                                                         *)
(* Copies of a session may lose a login, but no copy ever holds one that   *)
(* did not happen; and a page that was sent stays what it is.              *)
(***************************************************************************)
EXTENDS AuthorizationDialog, TLAPS

\* Every user a session holds logged in to the transaction.
Authentic(txns) ==
  \A t \in Requests : txns[t] # None /\ txns[t].user # None =>
    <<t, txns[t].user>> \in authenticated

SessionsAuthentic ==
  /\ \A r \in Requests : Authentic(own[r].txns)
  /\ \A s \in Requests : store[s] # None => Authentic(store[s])

\* A request that waits has the parameters its callback will read.
RequestsFit ==
  \A r \in Requests :
    /\ pc[r] = "idle" => grant[r] = None
    /\ pc[r] # "idle" => input[r] \in Inputs
    /\ pc[r] = "clients" => /\ input[r].req \in AuthRequests
                            /\ config.identity = "basic" => input[r].user \in Users
    /\ pc[r] = "user" => input[r].user \in Users
    /\ pc[r] \in {"user", "permission"} =>
         tid[r] \in Requests /\ own[r].txns[tid[r]] # None
    /\ pc[r] \in {"clients", "user", "permission"} => input[r].kind # "AZ consent"

Sent == {"end", "done", "lost"}

\* The form of a decision was sent, and its request is past changing it.
ConsentFormsSent ==
  \A r \in Requests : pc[r] # "idle" /\ input[r].kind = "AZ consent" =>
    /\ input[r].page \in Requests
    /\ page[input[r].page] # None
    /\ pc[input[r].page] \in Sent

DInv == /\ TypeOK
        /\ RequestsFit
        /\ ConsentFormsSent
        /\ SessionsAuthentic
        /\ OwnersLoggedIn
        /\ GrantedAsShown
-----------------------------------------------------------------------------
LEMMA InitDInv == Init => DInv
  <1> SUFFICES ASSUME Init PROVE DInv
    OBVIOUS
  <1> USE ConfigAssumption, NoneAssumption DEF Init
  <1>1. NoTransactions \in Dialogs
    BY DEF NoTransactions, Dialogs
  <1>2. TypeOK
    <2>1. own \in [Requests -> [sid: Requests, txns: Dialogs]]
      BY <1>1
    <2>2. faults \in 0..MaxFaults
      OBVIOUS
    <2>3. /\ input \in [Requests -> Inputs \cup {None}]
          /\ pc \in [Requests -> Waiting \cup {"idle", "done", "lost"}]
          /\ tid \in [Requests -> Requests \cup {None}]
          /\ page \in [Requests -> Pages \cup {None}]
      OBVIOUS
    <2>4. /\ grant \in [Requests -> GrantsIssued \cup {None}]
          /\ store \in [Requests -> Dialogs \cup {None}]
      OBVIOUS
    <2> QED
      BY <2>1, <2>2, <2>3, <2>4 DEF TypeOK
  <1>3. RequestsFit /\ ConsentFormsSent
    BY DEF RequestsFit, ConsentFormsSent
  <1>4. SessionsAuthentic
    BY DEF SessionsAuthentic, Authentic, NoTransactions
  <1>5. OwnersLoggedIn /\ GrantedAsShown
    BY DEF OwnersLoggedIn, GrantedAsShown
  <1> QED
    BY <1>2, <1>3, <1>4, <1>5 DEF DInv

\* The session a request works on is one of the store, or a new one.
LEMMA LoadSessionFits ==
  ASSUME DInv, NEW r \in Requests
  PROVE  /\ LoadSession(r) \in [sid: Requests, txns: Dialogs]
         /\ Authentic(LoadSession(r).txns)
  <1>1. NoTransactions \in Dialogs /\ Authentic(NoTransactions)
    BY DEF NoTransactions, Dialogs, Authentic
  <1>2. CASE cookie # None /\ store[cookie] # None
    <2>1. cookie \in Requests /\ store[cookie] \in Dialogs
      BY <1>2 DEF DInv, TypeOK
    <2>2. Authentic(store[cookie])
      BY <1>2, <2>1 DEF DInv, SessionsAuthentic
    <2> QED
      BY <1>2, <2>1, <2>2 DEF LoadSession
  <1>3. CASE ~(cookie # None /\ store[cookie] # None)
    BY <1>1, <1>3 DEF LoadSession
  <1> QED
    BY <1>2, <1>3

LEMMA TransactionFields ==
  ASSUME NEW t \in Transactions
  PROVE  /\ t.req \in AuthRequests /\ t.user \in Users \cup {None}
         /\ t.req.client \in Clients /\ t.req.scopes \in SUBSET Scopes
  BY ConfigAssumption DEF Transactions

LEMMA HeldTransaction ==
  ASSUME TypeOK, NEW r \in Requests, NEW t \in Requests, own[r].txns[t] # None
  PROVE  own[r].txns[t] \in Transactions
  BY DEF TypeOK, Dialogs

\* A session that is authentic stays so: nobody's login is forgotten.
LEMMA AuthenticStays ==
  ASSUME NEW txns, Authentic(txns), authenticated \subseteq authenticated'
  PROVE  Authentic(txns)'
  BY DEF Authentic

-----------------------------------------------------------------------------
(* Steps that move requests on and change neither a session nor an answer. *)

LEMMA QuietPreserves ==
  ASSUME DInv, TypeOK',
         UNCHANGED <<config, input, own, tid, page, grant, store, authenticated>>,
         \A r \in Requests :
           \/ pc'[r] = pc[r]
           \/ pc[r] # "idle" /\ pc'[r] \in Sent
           \/ pc[r] = "addPermission" /\ pc'[r] = "issue"
  PROVE  DInv'
  <1>1. RequestsFit'
    BY DEF DInv, RequestsFit, Sent
  <1>2. ConsentFormsSent'
    BY DEF DInv, ConsentFormsSent, Sent
  <1>3. SessionsAuthentic'
    BY DEF DInv, SessionsAuthentic, Authentic
  <1>4. OwnersLoggedIn' /\ GrantedAsShown'
    BY DEF DInv, OwnersLoggedIn, GrantedAsShown
  <1> QED
    BY <1>1, <1>2, <1>3, <1>4 DEF DInv

-----------------------------------------------------------------------------
(* The arrival of a request. *)

LEMMA ArrivalPreserves ==
  ASSUME DInv, NEW r \in Requests, NEW q \in Inputs,
         NEW next \in {"clients", "user", "addPermission", "end"},
         NEW id \in Requests \cup {None}, NEW g \in GrantsIssued \cup {None},
         Arrive(r, q), pc' = [pc EXCEPT ![r] = next],
         tid' = [tid EXCEPT ![r] = id], grant' = [grant EXCEPT ![r] = g],
         UNCHANGED <<config, page, store, cookie, authenticated, faults>>,
         next = "clients" => /\ q.req \in AuthRequests
                             /\ config.identity = "basic" => q.user \in Users,
         next = "user" => /\ q.user \in Users /\ id \in Requests
                          /\ LoadSession(r).txns[id] # None,
         next \in {"clients", "user"} => q.kind # "AZ consent",
         q.kind = "AZ consent" => /\ q.page \in Requests /\ page[q.page] # None
                                  /\ pc[q.page] \in {"end", "done"},
         g # None => /\ <<g.tid, g.user>> \in authenticated
                     /\ q.kind = "AZ consent" =>
                          /\ g.tid = page[q.page].tid
                          /\ g.user = page[q.page].user
                          /\ g.scopes \subseteq page[q.page].scopes
  PROVE  DInv'
  <1>1. /\ LoadSession(r) \in [sid: Requests, txns: Dialogs]
        /\ Authentic(LoadSession(r).txns)
    BY LoadSessionFits
  <1>2. /\ own' = [own EXCEPT ![r] = LoadSession(r)]
        /\ input' = [input EXCEPT ![r] = q]
        /\ overlapped' \in BOOLEAN /\ pc[r] = "idle"
    BY DEF Arrive, DInv, TypeOK
  <1>3. TypeOK'
    BY <1>1, <1>2 DEF DInv, TypeOK, Waiting
  <1>4. RequestsFit'
    BY <1>1, <1>2 DEF DInv, TypeOK, RequestsFit
  <1>5. ConsentFormsSent'
    BY <1>2 DEF DInv, TypeOK, ConsentFormsSent, Sent
  <1>6. SessionsAuthentic'
    BY <1>1, <1>2 DEF DInv, TypeOK, SessionsAuthentic, Authentic
  <1>7. OwnersLoggedIn'
    BY DEF DInv, TypeOK, OwnersLoggedIn
  <1>8. GrantedAsShown'
    BY <1>2 DEF DInv, TypeOK, GrantedAsShown
  <1> QED
    BY <1>3, <1>4, <1>5, <1>6, <1>7, <1>8 DEF DInv

LEMMA AuthorizationRequestPreserves ==
  ASSUME DInv, NEW r \in Requests, AuthorizationRequest(r)
  PROVE  DInv'
  <1>1. PICK areq \in AuthRequests, user \in Users :
          LET q == [kind |-> "AZ req", req |-> areq, page |-> None,
                    user |-> IF config.identity = "basic" THEN user ELSE None]
          IN Arrive(r, q) /\ pc' = [pc EXCEPT ![r] = "clients"]
    BY DEF AuthorizationRequest
  <1> DEFINE q == [kind |-> "AZ req", req |-> areq, page |-> None,
                   user |-> IF config.identity = "basic" THEN user ELSE None]
  <1>2. q \in Inputs /\ Arrive(r, q)
    BY <1>1 DEF Inputs
  <1>3. tid[r] \in Requests \cup {None} /\ grant[r] = None
    BY DEF DInv, TypeOK, RequestsFit, AuthorizationRequest, Arrive
  <1>4. /\ tid' = [tid EXCEPT ![r] = tid[r]]
        /\ grant' = [grant EXCEPT ![r] = None]
    BY <1>3 DEF AuthorizationRequest, DInv, TypeOK
  <1>5. UNCHANGED <<config, page, store, cookie, authenticated, faults>>
    BY DEF AuthorizationRequest
  <1>6. q.kind = "AZ req" /\ q.req = areq
        /\ (config.identity = "basic" => q.user \in Users)
    OBVIOUS
  <1> HIDE DEF q
  <1> QED
    BY <1>1, <1>2, <1>3, <1>4, <1>5, <1>6, ArrivalPreserves DEF q

\* A form comes from a page that was sent.
LEMMA ShownPage ==
  ASSUME DInv, NEW kind, NEW p \in Shown(kind)
  PROVE  /\ p \in Requests /\ page[p] \in Pages /\ page[p] # None
         /\ page[p].tid \in Requests /\ page[p].scopes \in SUBSET Scopes
         /\ pc[p] \in {"end", "done"}
  <1>1. p \in Requests /\ page[p] # None /\ pc[p] \in {"end", "done"}
    BY DEF Shown
  <1>2. page[p] \in Pages
    BY <1>1 DEF DInv, TypeOK
  <1> QED
    BY <1>1, <1>2 DEF Pages

LEMMA TransactionMissingPreserves ==
  ASSUME DInv, NEW r \in Requests, TransactionMissing(r)
  PROVE  DInv'
  <1>1. PICK p \in Shown("login") \cup Shown("consent") \cup Shown("redirect") :
          \E kind \in {"AZ login", "AZ redirect", "AZ consent"} :
            Arrive(r, [kind |-> kind, req |-> None, user |-> None, page |-> p])
    BY DEF TransactionMissing
  <1>2. PICK kind \in {"AZ login", "AZ redirect", "AZ consent"} :
          Arrive(r, [kind |-> kind, req |-> None, user |-> None, page |-> p])
    BY <1>1
  <1> DEFINE q == [kind |-> kind, req |-> None, user |-> None, page |-> p]
  <1>3. p \in Requests /\ page[p] # None /\ pc[p] \in {"end", "done"}
    BY ShownPage
  <1>4. q \in Inputs /\ Arrive(r, q) /\ q.page = p
    BY <1>2, <1>3 DEF Inputs
  <1>5. tid[r] \in Requests \cup {None} /\ grant[r] = None
    BY <1>2 DEF DInv, TypeOK, RequestsFit, Arrive
  <1>6. /\ tid' = [tid EXCEPT ![r] = tid[r]]
        /\ grant' = [grant EXCEPT ![r] = None]
        /\ pc' = [pc EXCEPT ![r] = "end"]
    BY <1>5 DEF TransactionMissing, DInv, TypeOK
  <1>7. UNCHANGED <<config, page, store, cookie, authenticated, faults>>
    BY DEF TransactionMissing
  <1> HIDE DEF q
  <1> QED
    BY <1>3, <1>4, <1>5, <1>6, <1>7, ArrivalPreserves

\* A form that finds its transaction, and a step that only sends it on.
LEMMA FormPreserves ==
  ASSUME DInv, NEW r \in Requests, NEW kind \in {"AZ login", "AZ redirect"},
         NEW page0 \in {"login", "redirect"}, NEW p \in Shown(page0),
         NEW user \in Users, NEW next \in {"user", "end"},
         TransactionLoader(r, kind, p, user),
         pc' = [pc EXCEPT ![r] = next],
         UNCHANGED <<config, page, grant, store, cookie, authenticated, faults>>
  PROVE  DInv'
  <1> DEFINE q == [kind |-> kind, req |-> None, user |-> user, page |-> p]
  <1>1. p \in Requests /\ page[p].tid \in Requests
    BY ShownPage
  <1>2. q \in Inputs /\ Arrive(r, q) /\ q.kind # "AZ consent" /\ q.user \in Users
    BY <1>1 DEF Inputs, TransactionLoader
  <1>3. /\ tid' = [tid EXCEPT ![r] = page[p].tid]
        /\ LoadSession(r).txns[page[p].tid] # None
    BY DEF TransactionLoader
  <1>4. grant[r] = None /\ grant' = [grant EXCEPT ![r] = None]
    BY <1>2 DEF DInv, TypeOK, RequestsFit, Arrive
  <1> HIDE DEF q
  <1> QED
    BY <1>1, <1>2, <1>3, <1>4, ArrivalPreserves

LEMMA DecisionPreserves ==
  ASSUME DInv, NEW r \in Requests, Decision(r)
  PROVE  DInv'
  <1>0. PICK p \in Shown("consent") : \E scopes \in SUBSET page[p].scopes :
          LET t == LoadSession(r).txns[page[p].tid] IN
            /\ TransactionLoader(r, "AZ consent", p, None)
            /\ IF HiddenValuesMatch(page[p], t) /\ scopes # {}
               THEN Respond(r, page[p].tid, t, scopes)
               ELSE pc' = [pc EXCEPT ![r] = "end"] /\ UNCHANGED <<page, grant>>
            /\ UNCHANGED <<config, store, cookie, authenticated, faults>>
    BY DEF Decision
  <1>1. PICK scopes \in SUBSET page[p].scopes :
          LET t == LoadSession(r).txns[page[p].tid] IN
            /\ TransactionLoader(r, "AZ consent", p, None)
            /\ IF HiddenValuesMatch(page[p], t) /\ scopes # {}
               THEN Respond(r, page[p].tid, t, scopes)
               ELSE pc' = [pc EXCEPT ![r] = "end"] /\ UNCHANGED <<page, grant>>
            /\ UNCHANGED <<config, store, cookie, authenticated, faults>>
    BY <1>0
  <1> DEFINE q == [kind |-> "AZ consent", req |-> None, user |-> None, page |-> p]
             id == page[p].tid
             t  == LoadSession(r).txns[id]
             g  == [tid |-> id, user |-> t.user, client |-> t.req.client,
                    scopes |-> scopes]
  <1>2. /\ p \in Requests /\ page[p] # None /\ id \in Requests
        /\ page[p].scopes \in SUBSET Scopes /\ pc[p] \in {"end", "done"}
    BY ShownPage
  <1>3. /\ q \in Inputs /\ Arrive(r, q) /\ q.kind = "AZ consent" /\ q.page = p
        /\ t # None /\ tid' = [tid EXCEPT ![r] = id]
    BY <1>1, <1>2 DEF Inputs, TransactionLoader
  <1>4. t \in Transactions
    BY <1>2, <1>3, LoadSessionFits DEF Dialogs
  <1>5. t.user # None => <<id, t.user>> \in authenticated
    BY <1>2, <1>3, LoadSessionFits DEF Authentic
  <1>6. CASE HiddenValuesMatch(page[p], t) /\ scopes # {}
    <2>1. /\ pc' = [pc EXCEPT ![r] = "addPermission"]
          /\ grant' = [grant EXCEPT ![r] = g]
          /\ UNCHANGED <<config, page, store, cookie, authenticated, faults>>
      BY <1>1, <1>6 DEF Respond
    <2>2. g \in GrantsIssued
      BY <1>2, <1>4, TransactionFields DEF GrantsIssued
    <2>3. /\ g.tid = id /\ g.user = t.user /\ g.scopes \subseteq page[p].scopes
          /\ t.user # None /\ t.user = page[p].user
      BY <1>6 DEF HiddenValuesMatch
    <2> HIDE DEF q, g, t
    <2> QED
      BY <1>2, <1>3, <1>5, <2>1, <2>2, <2>3, ArrivalPreserves
  <1>7. CASE ~(HiddenValuesMatch(page[p], t) /\ scopes # {})
    <2>1. /\ pc' = [pc EXCEPT ![r] = "end"]
          /\ UNCHANGED <<config, page, grant, store, cookie, authenticated, faults>>
      BY <1>1, <1>7
    <2>2. grant[r] = None /\ grant' = [grant EXCEPT ![r] = None]
      BY <1>3, <2>1 DEF DInv, TypeOK, RequestsFit, Arrive
    <2> HIDE DEF q, t
    <2> QED
      BY <1>2, <1>3, <2>1, <2>2, ArrivalPreserves
  <1> QED
    BY <1>6, <1>7

-----------------------------------------------------------------------------
(* The callbacks that work on a transaction. *)

\* What request r does next, in terms of what it leaves behind.
LEMMA CallbackPreserves ==
  ASSUME DInv, NEW r \in Requests, pc[r] \in {"clients", "user", "permission"},
         NEW next \in {"user", "page", "permission", "addPermission", "end"},
         NEW session \in Dialogs, NEW id \in Requests,
         NEW pg \in Pages \cup {None}, NEW g \in GrantsIssued \cup {None},
         pc' = [pc EXCEPT ![r] = next], own' = [own EXCEPT ![r].txns = session],
         tid' = [tid EXCEPT ![r] = id], page' = [page EXCEPT ![r] = pg],
         grant' = [grant EXCEPT ![r] = g],
         authenticated' \subseteq Requests \X Users,
         authenticated \subseteq authenticated',
         UNCHANGED <<outside, faults>>,
         Authentic(session)',
         next = "user" => input[r].user \in Users,
         next \in {"user", "permission"} => session[id] # None,
         g # None => <<g.tid, g.user>> \in authenticated'
  PROVE  DInv'
  <1>1. own'[r].txns = session /\ \A x \in Requests \ {r} : own'[x] = own[x]
    BY DEF DInv, TypeOK
  <1>2. TypeOK'
    <2>1. own' \in [Requests -> [sid: Requests, txns: Dialogs]]
      BY DEF DInv, TypeOK
    <2> QED
      BY <2>1 DEF DInv, TypeOK, outside, Waiting
  <1>3. RequestsFit'
    BY <1>1 DEF DInv, TypeOK, RequestsFit, outside
  <1>4. ConsentFormsSent'
    BY DEF DInv, TypeOK, RequestsFit, ConsentFormsSent, Sent, outside
  <1>5. SessionsAuthentic'
    <2>1. ASSUME NEW x \in Requests PROVE Authentic(own[x].txns)'
      <3>1. CASE x = r
        BY <1>1, <3>1 DEF Authentic
      <3>2. CASE x # r
        BY <1>1, <3>2 DEF DInv, SessionsAuthentic, Authentic
      <3> QED
        BY <3>1, <3>2
    <2>2. ASSUME NEW x \in Requests, store'[x] # None PROVE Authentic(store[x])'
      BY <2>2 DEF DInv, SessionsAuthentic, Authentic, outside
    <2> QED
      BY <2>1, <2>2 DEF SessionsAuthentic
  <1>6. OwnersLoggedIn'
    BY DEF DInv, TypeOK, OwnersLoggedIn
  <1>7. GrantedAsShown'
    <2> SUFFICES ASSUME NEW x \in Requests, grant'[x] # None,
                        input'[x].kind = "AZ consent"
                 PROVE  LET shown == page'[input'[x].page] IN
                          /\ grant'[x].tid = shown.tid
                          /\ grant'[x].user = shown.user
                          /\ grant'[x].scopes \subseteq shown.scopes
      BY DEF GrantedAsShown
    <2>1. x # r /\ input'[x] = input[x] /\ grant'[x] = grant[x]
      BY DEF DInv, TypeOK, RequestsFit, outside
    <2>2. input[x].page \in Requests /\ pc[input[x].page] \in Sent
      BY <2>1 DEF DInv, RequestsFit, ConsentFormsSent
    <2>3. page'[input[x].page] = page[input[x].page]
      BY <2>2 DEF Sent, DInv, TypeOK
    <2> QED
      BY <2>1, <2>3 DEF DInv, GrantedAsShown
  <1> QED
    BY <1>2, <1>3, <1>4, <1>5, <1>6, <1>7 DEF DInv

\* What a request issued so far is accounted for.
LEMMA GrantSoFar ==
  ASSUME DInv, NEW r \in Requests
  PROVE  /\ grant[r] \in GrantsIssued \cup {None} /\ page[r] \in Pages \cup {None}
         /\ grant' = grant => grant' = [grant EXCEPT ![r] = grant[r]]
         /\ page' = page => page' = [page EXCEPT ![r] = page[r]]
         /\ grant[r] # None => <<grant[r].tid, grant[r].user>> \in authenticated
  BY DEF DInv, TypeOK, OwnersLoggedIn

\* Behind the login a request either issues the grant or looks up the
\* permission, for the user of the transaction.
LEMMA AfterLoginGrants ==
  ASSUME DInv, NEW r \in Requests, NEW id \in Requests, NEW t \in Transactions,
         AfterLogin(r, id, t)
  PROVE  \E next \in {"permission", "addPermission"},
            g \in GrantsIssued \cup {None} :
           /\ pc' = [pc EXCEPT ![r] = next]
           /\ grant' = [grant EXCEPT ![r] = g]
           /\ page' = [page EXCEPT ![r] = page[r]]
           /\ g # None => \/ <<g.tid, g.user>> = <<id, t.user>>
                          \/ <<g.tid, g.user>> \in authenticated
  <1>1. CASE config.authorization = "authenticated"
    <2> DEFINE g == [tid |-> id, user |-> t.user, client |-> t.req.client,
                     scopes |-> t.req.scopes]
    <2>1. g \in GrantsIssued
      BY TransactionFields DEF GrantsIssued
    <2>2. /\ pc' = [pc EXCEPT ![r] = "addPermission"]
          /\ grant' = [grant EXCEPT ![r] = g] /\ page' = page
      BY <1>1 DEF AfterLogin, Respond
    <2> QED
      BY <2>1, <2>2, GrantSoFar, ZenonT(60)
  <1>2. CASE config.authorization # "authenticated"
    <2>1. pc' = [pc EXCEPT ![r] = "permission"] /\ page' = page /\ grant' = grant
      BY <1>2 DEF AfterLogin
    <2> QED
      BY <2>1, GrantSoFar
  <1> QED
    BY <1>1, <1>2

LEMMA AnswerPage ==
  ASSUME DInv, NEW r \in Requests, NEW kind \in {"login", "consent", "redirect"},
         NEW id \in Requests, NEW t \in Transactions, Answer(r, kind, id, t)
  PROVE  /\ pc' = [pc EXCEPT ![r] = "page"]
         /\ grant' = [grant EXCEPT ![r] = grant[r]]
         /\ \E pg \in Pages \cup {None} : page' = [page EXCEPT ![r] = pg]
  <1> DEFINE pg == [kind |-> kind, tid |-> id, user |-> t.user,
                    scopes |-> t.req.scopes]
  <1>1. pg \in Pages
    BY TransactionFields DEF Pages
  <1>2. /\ pc' = [pc EXCEPT ![r] = "page"] /\ grant' = grant
        /\ page' = [page EXCEPT ![r] = pg]
    BY DEF Answer
  <1> HIDE DEF pg
  <1> QED
    BY <1>1, <1>2, GrantSoFar

\* The transaction of a request that waits for a login or a permission.
LEMMA CurrentTransaction ==
  ASSUME DInv, NEW r \in Requests, pc[r] \in {"user", "permission"}
  PROVE  /\ tid[r] \in Requests /\ Transaction(r) # None
         /\ Transaction(r) \in Transactions
         /\ own[r].txns \in Dialogs /\ Authentic(own[r].txns)
         /\ Logined(r) => <<tid[r], Transaction(r).user>> \in authenticated
         /\ own' = own => own' = [own EXCEPT ![r].txns = own[r].txns]
         /\ tid' = tid => tid' = [tid EXCEPT ![r] = tid[r]]
  <1>1. /\ tid[r] \in Requests /\ Transaction(r) # None
        /\ own[r] \in [sid: Requests, txns: Dialogs]
    BY DEF DInv, TypeOK, RequestsFit, Transaction
  <1>2. Transaction(r) \in Transactions
    BY <1>1, HeldTransaction DEF DInv, Transaction
  <1>3. Authentic(own[r].txns)
    BY DEF DInv, SessionsAuthentic
  <1>4. Logined(r) => <<tid[r], Transaction(r).user>> \in authenticated
    BY <1>1, <1>3 DEF Authentic, Logined, Transaction
  <1>5. /\ own' = own => own' = [own EXCEPT ![r].txns = own[r].txns]
        /\ tid' = tid => tid' = [tid EXCEPT ![r] = tid[r]]
    BY <1>1 DEF DInv, TypeOK
  <1> QED
    BY <1>1, <1>2, <1>3, <1>4, <1>5

LEMMA PermissionCheckedPreserves ==
  ASSUME DInv, NEW r \in Requests, PermissionChecked(r)
  PROVE  DInv'
  <1>1. /\ pc[r] = "permission" /\ Answer(r, "consent", tid[r], Transaction(r))
        /\ UNCHANGED <<outside, own, tid, authenticated, faults>>
    BY DEF PermissionChecked
  <1>2. PICK pg \in Pages \cup {None} : page' = [page EXCEPT ![r] = pg]
    BY <1>1, CurrentTransaction, AnswerPage
  <1>3. PICK g \in GrantsIssued \cup {None} :
          /\ pc' = [pc EXCEPT ![r] = "page"]
          /\ grant' = [grant EXCEPT ![r] = g]
          /\ g # None => <<g.tid, g.user>> \in authenticated
    BY <1>1, CurrentTransaction, AnswerPage, GrantSoFar
  <1> DEFINE session == own[r].txns
  <1>4. /\ session \in Dialogs /\ tid[r] \in Requests /\ session[tid[r]] # None
        /\ own' = [own EXCEPT ![r].txns = session]
        /\ tid' = [tid EXCEPT ![r] = tid[r]] /\ Authentic(session)
    BY <1>1, CurrentTransaction DEF Transaction
  <1>5. own[r].txns = own'[r].txns /\ Authentic(session)'
    BY <1>1, <1>4 DEF Authentic
  <1>6. authenticated \subseteq Requests \X Users
    BY DEF DInv, TypeOK
  <1> QED
    BY <1>1, <1>2, <1>3, <1>4, <1>5, <1>6, CallbackPreserves

LEMMA UserRejectedPreserves ==
  ASSUME DInv, NEW r \in Requests, UserRejected(r)
  PROVE  DInv'
  <1>1. pc[r] = "user" /\ UNCHANGED <<outside, own, tid, authenticated, faults>>
    BY DEF UserRejected
  <1>2. PICK next \in {"page", "permission", "addPermission", "end"},
             pg \in Pages \cup {None}, g \in GrantsIssued \cup {None} :
          /\ pc' = [pc EXCEPT ![r] = next]
          /\ page' = [page EXCEPT ![r] = pg]
          /\ grant' = [grant EXCEPT ![r] = g]
          /\ g # None => <<g.tid, g.user>> \in authenticated
    <2>1. CASE input[r].kind # "AZ login"
      <3>1. pc' = [pc EXCEPT ![r] = "end"] /\ page' = page /\ grant' = grant
        BY <2>1 DEF UserRejected
      <3> QED
        BY <3>1, GrantSoFar
    <2>2. CASE input[r].kind = "AZ login" /\ Logined(r)
      <3>1. AfterLogin(r, tid[r], Transaction(r))
        BY <2>2 DEF UserRejected
      <3>2. /\ tid[r] \in Requests /\ Transaction(r) \in Transactions
            /\ <<tid[r], Transaction(r).user>> \in authenticated
        BY <1>1, <2>2, CurrentTransaction
      <3>3. PICK next \in {"permission", "addPermission"},
                 g \in GrantsIssued \cup {None} :
              /\ pc' = [pc EXCEPT ![r] = next]
              /\ grant' = [grant EXCEPT ![r] = g]
              /\ page' = [page EXCEPT ![r] = page[r]]
              /\ g # None => \/ <<g.tid, g.user>> = <<tid[r], Transaction(r).user>>
                             \/ <<g.tid, g.user>> \in authenticated
        BY <3>1, <3>2, AfterLoginGrants, ZenonT(60)
      <3>4. g # None => <<g.tid, g.user>> \in authenticated
        BY <3>2, <3>3
      <3>5. page[r] \in Pages \cup {None}
        BY GrantSoFar
      <3> QED
        BY <3>3, <3>4, <3>5
    <2>3. CASE input[r].kind = "AZ login" /\ ~Logined(r)
      <3>1. Answer(r, "login", tid[r], Transaction(r))
        BY <2>3 DEF UserRejected
      <3> QED
        BY <1>1, <3>1, CurrentTransaction, AnswerPage, GrantSoFar
    <2> QED
      BY <2>1, <2>2, <2>3
  <1> DEFINE session == own[r].txns
  <1>3. /\ session \in Dialogs /\ tid[r] \in Requests /\ session[tid[r]] # None
        /\ own' = [own EXCEPT ![r].txns = session]
        /\ tid' = [tid EXCEPT ![r] = tid[r]] /\ Authentic(session)
    BY <1>1, CurrentTransaction DEF Transaction
  <1>4. own[r].txns = own'[r].txns /\ Authentic(session)'
    BY <1>1, <1>3 DEF Authentic
  <1>5. authenticated \subseteq Requests \X Users
    BY DEF DInv, TypeOK
  <1> QED
    BY <1>1, <1>2, <1>3, <1>4, <1>5, CallbackPreserves

\* The login goes into the copy of the session and into the history.
LEMMA UserAcceptedPreserves ==
  ASSUME DInv, NEW r \in Requests, UserAccepted(r)
  PROVE  DInv'
  <1> DEFINE user == input[r].user
             id   == tid[r]
             t    == [Transaction(r) EXCEPT !.user = user]
  <1>1. /\ pc[r] = "user" /\ UNCHANGED <<outside, tid, faults>>
        /\ own' = [own EXCEPT ![r].txns[tid[r]] = t]
        /\ authenticated' = authenticated \cup {<<id, user>>}
    BY DEF UserAccepted
  <1>2. user \in Users /\ id \in Requests /\ Transaction(r) \in Transactions
    BY <1>1, CurrentTransaction DEF DInv, RequestsFit
  <1>3. t \in Transactions /\ t.user = user /\ t # None
    BY <1>2, NoneAssumption DEF Transactions
  <1>4. PICK next \in {"permission", "addPermission"},
             g \in GrantsIssued \cup {None} :
          /\ pc' = [pc EXCEPT ![r] = next]
          /\ grant' = [grant EXCEPT ![r] = g]
          /\ page' = [page EXCEPT ![r] = page[r]]
          /\ g # None => \/ <<g.tid, g.user>> = <<id, user>>
                         \/ <<g.tid, g.user>> \in authenticated
    <2>1. CASE input[r].kind = "AZ redirect"
      <3> DEFINE g == [tid |-> id, user |-> t.user, client |-> t.req.client,
                       scopes |-> t.req.scopes]
      <3>1. g \in GrantsIssued /\ <<g.tid, g.user>> = <<id, user>>
        BY <1>2, <1>3, TransactionFields DEF GrantsIssued
      <3>2. /\ pc' = [pc EXCEPT ![r] = "addPermission"]
            /\ grant' = [grant EXCEPT ![r] = g] /\ page' = page
        BY <2>1 DEF UserAccepted, Respond
      <3> HIDE DEF g
      <3> QED
        BY <3>1, <3>2, GrantSoFar
    <2>2. CASE input[r].kind # "AZ redirect"
      <3>1. AfterLogin(r, id, t)
        BY <2>2 DEF UserAccepted
      <3>2. PICK tx \in Transactions : tx = t /\ tx.user = user
        BY <1>3
      <3>3. AfterLogin(r, id, tx)
        BY <3>1, <3>2
      <3> HIDE DEF t, id, user
      <3>4. PICK next \in {"permission", "addPermission"},
                 g \in GrantsIssued \cup {None} :
              /\ pc' = [pc EXCEPT ![r] = next]
              /\ grant' = [grant EXCEPT ![r] = g]
              /\ page' = [page EXCEPT ![r] = page[r]]
              /\ g # None => \/ <<g.tid, g.user>> = <<id, tx.user>>
                             \/ <<g.tid, g.user>> \in authenticated
        BY <1>2, <3>3, AfterLoginGrants, ZenonT(60)
      <3> QED
        BY <3>2, <3>4
    <2> QED
      BY <2>1, <2>2
  <1> DEFINE session == [own[r].txns EXCEPT ![id] = t]
  <1>5. own[r] \in [sid: Requests, txns: Dialogs]
    BY DEF DInv, TypeOK
  <1>6. session \in Dialogs /\ session[id] # None
    BY <1>2, <1>3, <1>5 DEF Dialogs
  <1>7. own' = [own EXCEPT ![r].txns = session]
    BY <1>1, <1>5 DEF DInv, TypeOK
  <1>8. PICK s \in Dialogs : s = session
    BY <1>6
  <1>9. Authentic(s)'
    <2> SUFFICES ASSUME NEW x \in Requests, s[x] # None, s[x].user # None
                 PROVE  <<x, s[x].user>> \in authenticated'
      BY DEF Authentic
    <2>1. CASE x = id
      BY <1>1, <1>2, <1>3, <1>5, <1>8, <2>1 DEF Dialogs
    <2>2. CASE x # id
      <3>1. s[x] = own[r].txns[x]
        BY <1>5, <1>8, <2>2 DEF Dialogs
      <3> QED
        BY <1>1, <3>1, CurrentTransaction DEF Authentic
    <2> QED
      BY <2>1, <2>2
  <1>10. page[r] \in Pages \cup {None}
    BY GrantSoFar
  <1>11. tid' = [tid EXCEPT ![r] = id]
    BY <1>1, CurrentTransaction
  <1>12. /\ authenticated' \subseteq Requests \X Users
         /\ authenticated \subseteq authenticated'
         /\ <<id, user>> \in authenticated'
    BY <1>1, <1>2 DEF DInv, TypeOK
  <1>13. own' = [own EXCEPT ![r].txns = s] /\ s[id] # None
    BY <1>6, <1>7, <1>8
  <1>14. /\ g # None => <<g.tid, g.user>> \in authenticated'
         /\ next \in {"page", "permission", "addPermission", "end"} /\ next # "user"
    BY <1>4, <1>12
  <1> HIDE DEF session, t, id, user
  <1> QED
    BY <1>1, <1>2, <1>4, <1>9, <1>10, <1>11, <1>12, <1>13, <1>14, CallbackPreserves

\* The transaction a client's request resumes or creates.
LEMMA ClientFoundPreserves ==
  ASSUME DInv, NEW r \in Requests, ClientFound(r)
  PROVE  DInv'
  <1> DEFINE areq  == input[r].req
             found == SearchTXData(own[r].txns, areq)
             txns  == IF found # {} THEN own[r].txns
                                    ELSE CreateTXData(own[r].txns, areq, r)
             fresh == [req |-> areq, user |-> None]
  <1>1. pc[r] = "clients" /\ UNCHANGED <<outside, authenticated, faults>>
    BY DEF ClientFound
  <1>2. /\ areq \in AuthRequests /\ fresh \in Transactions /\ fresh # None
        /\ fresh.user = None
        /\ config.identity = "basic" => input[r].user \in Users
    <2>1. /\ areq \in AuthRequests
          /\ config.identity = "basic" => input[r].user \in Users
      BY <1>1 DEF DInv, RequestsFit
    <2>2. fresh \in Transactions /\ fresh.user = None
      BY <2>1 DEF Transactions
    <2> HIDE DEF fresh
    <2> QED
      BY <2>1, <2>2, NoneAssumption
  <1>3. own[r] \in [sid: Requests, txns: Dialogs] /\ Authentic(own[r].txns)
    BY DEF DInv, TypeOK, SessionsAuthentic
  <1>4. PICK id \in IF found # {} THEN found ELSE {r} :
          LET t == IF found # {} THEN txns[id] ELSE fresh
          IN /\ own' = [own EXCEPT ![r].txns = txns]
             /\ tid' = [tid EXCEPT ![r] = id]
             /\ CASE config.identity = "basic" ->
                       pc' = [pc EXCEPT ![r] = "user"] /\ UNCHANGED <<page, grant>>
                  [] config.identity = "redirect" -> Answer(r, "redirect", id, t)
                  [] config.identity = "form" /\ t.user # None -> AfterLogin(r, id, t)
                  [] OTHER -> Answer(r, "login", id, t)
    BY DEF ClientFound
  <1> DEFINE t0 == IF found # {} THEN txns[id] ELSE fresh
  <1>5. /\ id \in Requests /\ txns \in Dialogs /\ txns[id] = t0
        /\ t0 \in Transactions /\ t0 # None /\ Authentic(txns)
    <2>1. CASE found # {}
      <3>1. id \in Requests /\ own[r].txns[id] # None /\ txns = own[r].txns
        BY <1>4, <2>1 DEF SearchTXData
      <3> QED
        BY <1>3, <2>1, <3>1 DEF Dialogs
    <2>2. CASE found = {}
      <3>1. id = r /\ txns = [own[r].txns EXCEPT ![r] = fresh]
        BY <1>4, <2>2 DEF CreateTXData
      <3>2. txns \in Dialogs /\ txns[id] = fresh
        BY <1>2, <1>3, <3>1 DEF Dialogs
      <3>3. Authentic(txns)
        BY <1>2, <1>3, <3>1 DEF Authentic, Dialogs
      <3> QED
        BY <1>2, <2>2, <3>1, <3>2, <3>3
    <2> QED
      BY <2>1, <2>2
  <1>6. PICK s \in Dialogs, t \in Transactions :
          s = txns /\ t = t0 /\ s[id] = t /\ Authentic(s) /\ t # None
    BY <1>5
  <1>7. /\ own' = [own EXCEPT ![r].txns = s]
        /\ tid' = [tid EXCEPT ![r] = id]
        /\ CASE config.identity = "basic" ->
                  pc' = [pc EXCEPT ![r] = "user"] /\ UNCHANGED <<page, grant>>
             [] config.identity = "redirect" -> Answer(r, "redirect", id, t)
             [] config.identity = "form" /\ t.user # None -> AfterLogin(r, id, t)
             [] OTHER -> Answer(r, "login", id, t)
    BY <1>4, <1>6
  <1> HIDE DEF t0, txns, found, fresh, areq
  <1>8. PICK next \in {"user", "page", "permission", "addPermission"},
             pg \in Pages \cup {None}, g \in GrantsIssued \cup {None} :
          /\ pc' = [pc EXCEPT ![r] = next]
          /\ page' = [page EXCEPT ![r] = pg]
          /\ grant' = [grant EXCEPT ![r] = g]
          /\ next = "user" => config.identity = "basic"
          /\ g # None => <<g.tid, g.user>> \in authenticated
    <2>1. CASE config.identity = "basic"
      BY <1>7, <2>1, GrantSoFar
    <2>2. CASE config.identity = "form" /\ t.user # None
      <3>1. AfterLogin(r, id, t)
        BY <1>7, <2>2
      <3>2. <<id, t.user>> \in authenticated
        BY <1>5, <1>6, <2>2 DEF Authentic
      <3>3. PICK next \in {"permission", "addPermission"},
                 g \in GrantsIssued \cup {None} :
              /\ pc' = [pc EXCEPT ![r] = next]
              /\ grant' = [grant EXCEPT ![r] = g]
              /\ page' = [page EXCEPT ![r] = page[r]]
              /\ g # None => \/ <<g.tid, g.user>> = <<id, t.user>>
                             \/ <<g.tid, g.user>> \in authenticated
        BY <1>5, <3>1, AfterLoginGrants, ZenonT(60)
      <3>4. g # None => <<g.tid, g.user>> \in authenticated
        BY <3>2, <3>3
      <3>5. page[r] \in Pages \cup {None}
        BY GrantSoFar
      <3> QED
        BY <3>3, <3>4, <3>5
    <2>3. CASE /\ config.identity # "basic"
               /\ ~(config.identity = "form" /\ t.user # None)
      <3>1. PICK kind \in {"login", "redirect"} : Answer(r, kind, id, t)
        BY <1>7, <2>3
      <3>2. PICK pg \in Pages \cup {None} :
              /\ pc' = [pc EXCEPT ![r] = "page"]
              /\ grant' = [grant EXCEPT ![r] = grant[r]]
              /\ page' = [page EXCEPT ![r] = pg]
        BY <1>5, <3>1, AnswerPage
      <3> QED
        BY <3>2, GrantSoFar
    <2> QED
      BY <2>1, <2>2, <2>3
  <1>9. Authentic(s)' /\ authenticated' \subseteq Requests \X Users
    BY <1>1, <1>6, AuthenticStays DEF DInv, TypeOK
  <1>10. next = "user" => input[r].user \in Users
    BY <1>2, <1>8
  <1>11. next \in {"user", "permission"} => s[id] # None
    BY <1>6
  <1> QED
    BY <1>1, <1>5, <1>7, <1>8, <1>9, <1>10, <1>11, CallbackPreserves

-----------------------------------------------------------------------------
(* The end of a request, and the session store. *)

LEMMA GotoPreserves ==
  ASSUME DInv, NEW r \in Requests, pc[r] # "idle",
         NEW next \in {"issue", "end"}, Goto(r, next),
         next = "issue" => pc[r] = "addPermission",
         faults' \in 0..MaxFaults
  PROVE  DInv'
  <1>1. TypeOK'
    BY DEF DInv, TypeOK, Goto, outside, Waiting
  <1> QED
    BY <1>1, QuietPreserves DEF DInv, TypeOK, Goto, outside, Sent

LEMMA FaultCounted ==
  ASSUME DInv, faults < MaxFaults
  PROVE  faults + 1 \in 0..MaxFaults
  BY ConfigAssumption DEF DInv, TypeOK

LEMMA QuietCallbacksPreserve ==
  ASSUME DInv, NEW r \in Requests,
         ClientRefused(r) \/ PermissionAdded(r) \/ GrantSaved(r) \/ StoreError(r)
  PROVE  DInv'
  <1>1. faults \in 0..MaxFaults
    BY DEF DInv, TypeOK
  <1>2. CASE ClientRefused(r) \/ GrantSaved(r) \/ PermissionAdded(r)
    BY <1>1, <1>2, GotoPreserves
       DEF ClientRefused, GrantSaved, PermissionAdded, Refuse
  <1>3. CASE StoreError(r)
    BY <1>3, FaultCounted, GotoPreserves DEF StoreError, Refuse
  <1> QED
    BY <1>2, <1>3

LEMMA CrashPreserves ==
  ASSUME DInv, NEW r \in Requests, Crash(r)
  PROVE  DInv'
  <1>1. faults' \in 0..MaxFaults
    BY FaultCounted DEF Crash
  <1>2. TypeOK'
    BY <1>1 DEF DInv, TypeOK, Crash, outside
  <1>3. \A x \in Requests : \/ pc'[x] = pc[x]
                            \/ pc[x] # "idle" /\ pc'[x] \in Sent
    BY DEF Crash, Waiting, Sent
  <1> QED
    BY <1>2, <1>3, QuietPreserves DEF Crash, outside

LEMMA WritePagePreserves ==
  ASSUME DInv, NEW r \in Requests, WritePage(r)
  PROVE  DInv'
  <1>1. TypeOK'
    BY DEF DInv, TypeOK, WritePage, Waiting
  <1>2. \A x \in Requests : \/ pc'[x] = pc[x]
                            \/ pc[x] # "idle" /\ pc'[x] \in Sent
    BY DEF DInv, TypeOK, WritePage, Sent
  <1> QED
    BY <1>1, <1>2, QuietPreserves DEF WritePage

LEMMA SaveSessionPreserves ==
  ASSUME DInv, NEW r \in Requests, SaveSession(r)
  PROVE  DInv'
  <1>1. /\ pc[r] = "end" /\ pc' = [pc EXCEPT ![r] = "done"]
        /\ own' = [own EXCEPT ![r] = [sid |-> r, txns |-> NoTransactions]]
        /\ cookie' = own[r].sid
        /\ UNCHANGED <<config, input, tid, page, grant, authenticated, overlapped>>
    BY DEF SaveSession
  <1>2. \/ store' = [store EXCEPT ![own[r].sid] = own[r].txns]
        \/ store' = store
    BY DEF SaveSession
  <1>3. own[r] \in [sid: Requests, txns: Dialogs] /\ Authentic(own[r].txns)
    BY DEF DInv, TypeOK, SessionsAuthentic
  <1>4. NoTransactions \in Dialogs /\ Authentic(NoTransactions)
    BY DEF NoTransactions, Dialogs, Authentic
  <1>5. TypeOK'
    <2>1. faults' \in 0..MaxFaults
      BY FaultCounted DEF SaveSession, DInv, TypeOK
    <2>2. /\ own' \in [Requests -> [sid: Requests, txns: Dialogs]]
          /\ store' \in [Requests -> Dialogs \cup {None}]
      BY <1>1, <1>2, <1>3, <1>4 DEF DInv, TypeOK
    <2> QED
      BY <1>1, <1>3, <2>1, <2>2 DEF DInv, TypeOK
  <1>6. RequestsFit'
    BY <1>1 DEF DInv, TypeOK, RequestsFit
  <1>7. ConsentFormsSent'
    BY <1>1 DEF DInv, TypeOK, ConsentFormsSent, Sent
  <1>8. SessionsAuthentic'
    BY <1>1, <1>2, <1>3, <1>4 DEF DInv, TypeOK, SessionsAuthentic, Authentic
  <1>9. OwnersLoggedIn' /\ GrantedAsShown'
    BY <1>1 DEF DInv, OwnersLoggedIn, GrantedAsShown
  <1> QED
    BY <1>5, <1>6, <1>7, <1>8, <1>9 DEF DInv

LEMMA SessionExpiresPreserves ==
  ASSUME DInv, NEW s \in Requests, SessionExpires(s)
  PROVE  DInv'
  <1>1. TypeOK'
    BY FaultCounted DEF DInv, TypeOK, SessionExpires
  <1>2. RequestsFit' /\ ConsentFormsSent'
    BY DEF DInv, RequestsFit, ConsentFormsSent, SessionExpires
  <1>3. SessionsAuthentic'
    BY DEF DInv, TypeOK, SessionsAuthentic, Authentic, SessionExpires
  <1>4. OwnersLoggedIn' /\ GrantedAsShown'
    BY DEF DInv, OwnersLoggedIn, GrantedAsShown, SessionExpires
  <1> QED
    BY <1>1, <1>2, <1>3, <1>4 DEF DInv

LEMMA LaterRequestsPreserve ==
  ASSUME DInv, NEW r \in Requests, Login(r) \/ Redirected(r)
  PROVE  DInv'
  <1>1. CASE Login(r)
    <2>1. PICK p \in Shown("login"), user \in Users :
            TransactionLoader(r, "AZ login", p, user)
      BY <1>1 DEF Login
    <2>2. /\ pc' = [pc EXCEPT ![r] = "user"]
          /\ UNCHANGED <<config, page, grant, store, cookie, authenticated, faults>>
      BY <1>1 DEF Login
    <2> QED
      BY <2>1, <2>2, FormPreserves
  <1>2. CASE Redirected(r)
    <2>1. PICK p \in Shown("redirect"), user \in Users, next \in {"user", "end"} :
            /\ TransactionLoader(r, "AZ redirect", p, user)
            /\ pc' = [pc EXCEPT ![r] = next]
            /\ UNCHANGED <<config, page, grant, store, cookie, authenticated, faults>>
      BY <1>2 DEF Redirected
    <2> QED
      BY <2>1, FormPreserves
  <1> QED
    BY <1>1, <1>2

-----------------------------------------------------------------------------
(* The theorems. *)

LEMMA NextPreserves == DInv /\ [Next]_vars => DInv'
  <1> SUFFICES ASSUME DInv, [Next]_vars PROVE DInv'
    OBVIOUS
  <1>1. ASSUME NEW r \in Requests, Receive(r) PROVE DInv'
    BY <1>1, AuthorizationRequestPreserves, TransactionMissingPreserves,
       LaterRequestsPreserve, DecisionPreserves DEF Receive
  <1>2. ASSUME NEW r \in Requests, Callback(r) PROVE DInv'
    BY <1>2, QuietCallbacksPreserve, ClientFoundPreserves,
       UserAcceptedPreserves, UserRejectedPreserves, PermissionCheckedPreserves,
       CrashPreserves, WritePagePreserves, SaveSessionPreserves DEF Callback
  <1>3. ASSUME NEW s \in Requests, SessionExpires(s) PROVE DInv'
    BY <1>3, SessionExpiresPreserves
  <1>4. CASE UNCHANGED vars
    BY <1>4 DEF vars, DInv, TypeOK, RequestsFit, ConsentFormsSent,
       SessionsAuthentic, Authentic, OwnersLoggedIn, GrantedAsShown
  <1> QED
    BY <1>1, <1>2, <1>3, <1>4 DEF Next

\* The dialog keeps DInv, whatever the requests, the users, the settings and
\* the bound on faults: lib/oauth2/az-server/middleware as a whole.
THEOREM DialogInductive == Spec => []DInv
  BY InitDInv, NextPreserves, PTL DEF Spec

\* Every callback of the dialog finds the session, the transaction and the page
\* it reads (transaction.js:67-88, id-extractor.js:33-48, decision.js:57-110).
THEOREM DialogTypeCorrect == Spec => []TypeOK
  <1>1. DInv => TypeOK
    BY DEF DInv
  <1> QED
    BY <1>1, DialogInductive, PTL

\* A grant names a user who logged in to its very transaction, however the
\* copies of a session overwrite each other (id-extractor.js:37-48,
\* decision.js:83).
THEOREM OwnersLoggedInHolds == Spec => []OwnersLoggedIn
  <1>1. DInv => OwnersLoggedIn
    BY DEF DInv
  <1> QED
    BY <1>1, DialogInductive, PTL

\* A decision grants what its form showed: the transaction, the user and no
\* scope more, whoever logged in since (decision.js:82-90).
THEOREM GrantedAsShownHolds == Spec => []GrantedAsShown
  <1>1. DInv => GrantedAsShown
    BY DEF DInv
  <1> QED
    BY <1>1, DialogInductive, PTL
-----------------------------------------------------------------------------
(* One transaction for each request, and none lost while requests do not     *)
(* overlap.                                                                   *)

Unique(txns) == \A t, u \in Requests :
  txns[t] # None /\ txns[u] # None /\ txns[t].req = txns[u].req => t = u

\* A transaction bears the number of a request that has created it.
Created(txns) == \A t \in Requests :
  txns[t] # None => pc[t] \notin {"idle", "clients"}

SessionsFit ==
  /\ \A r \in Requests : Unique(own[r].txns) /\ Created(own[r].txns)
  /\ \A s \in Requests : store[s] # None => Unique(store[s]) /\ Created(store[s])
  /\ \A r \in Requests : pc[r] = "permission" => own[r].txns[tid[r]].user # None

\* A session has the transactions of all pages, with the users that they show.
Kept(txns) ==
  \A p \in Requests : page[p] # None =>
    /\ txns[page[p].tid] # None
    /\ page[p].kind = "consent" => txns[page[p].tid].user # None

\* As long as requests do not overlap, the copy of the one that waits has them
\* all, and so has the store when none waits.
Sequential ==
  faults = 0 /\ ~overlapped =>
    /\ \A r, x \in Requests : pc[r] \in Waiting /\ pc[x] \in Waiting => r = x
    /\ \A r \in Requests : pc[r] \in Waiting => Kept(own[r].txns)
    /\ AtRest => \/ \A p \in Requests : page[p] = None
                 \/ cookie # None /\ store[cookie] # None /\ Kept(store[cookie])

KInv == DInv /\ SessionsFit /\ Sequential

LEMMA InitKept == Init => SessionsFit /\ Sequential
  <1> SUFFICES ASSUME Init PROVE SessionsFit /\ Sequential
    OBVIOUS
  <1>1. SessionsFit
    BY DEF Init, SessionsFit, Unique, Created, NoTransactions
  <1>2. Sequential
    BY DEF Init, Sequential, Waiting
  <1> QED
    BY <1>1, <1>2

\* A session that is created stays so as long as nobody starts again.
LEMMA CreatedStays ==
  ASSUME NEW txns, Created(txns),
         \A t \in Requests : pc[t] \notin {"idle", "clients"} => pc'[t] \notin {"idle", "clients"}
  PROVE  Created(txns)'
  BY DEF Created

LEMMA LoadedSession ==
  ASSUME KInv, NEW r \in Requests
  PROVE  /\ Unique(LoadSession(r).txns) /\ Created(LoadSession(r).txns)
         /\ (faults = 0 /\ ~overlapped /\ AtRest) => Kept(LoadSession(r).txns)
  <1>1. CASE cookie # None /\ store[cookie] # None
    <2>1. cookie \in Requests /\ LoadSession(r).txns = store[cookie]
      BY <1>1 DEF KInv, DInv, TypeOK, LoadSession
    <2>2. (faults = 0 /\ ~overlapped /\ AtRest) => Kept(store[cookie])
      BY DEF KInv, Sequential, Kept
    <2> QED
      BY <1>1, <2>1, <2>2 DEF KInv, SessionsFit
  <1>2. CASE ~(cookie # None /\ store[cookie] # None)
    <2>1. LoadSession(r).txns = NoTransactions
      BY <1>2 DEF LoadSession
    <2>2. Unique(NoTransactions) /\ Created(NoTransactions)
      BY DEF Unique, Created, NoTransactions
    <2>3. (faults = 0 /\ ~overlapped /\ AtRest) => \A p \in Requests : page[p] = None
      BY <1>2 DEF KInv, Sequential
    <2> QED
      BY <2>1, <2>2, <2>3 DEF Kept
  <1> QED
    BY <1>1, <1>2

\* A request that arrives while none waits loads what the last one has saved.
LEMMA ArrivalKeeps ==
  ASSUME KInv, NEW r \in Requests, NEW q, Arrive(r, q),
         NEW next \in {"clients", "user", "addPermission", "end"},
         pc' = [pc EXCEPT ![r] = next],
         UNCHANGED <<page, store, cookie, faults>>,
         \A x \in Requests \ {r} : tid'[x] = tid[x]
  PROVE  SessionsFit' /\ Sequential'
  <1>1. /\ pc[r] = "idle" /\ own' = [own EXCEPT ![r] = LoadSession(r)]
        /\ overlapped' = (overlapped \/ \E x \in Requests : pc[x] \in Waiting)
        /\ own'[r] = LoadSession(r) /\ \A x \in Requests \ {r} : own'[x] = own[x]
        /\ pc'[r] = next /\ \A x \in Requests \ {r} : pc'[x] = pc[x]
    BY DEF Arrive, KInv, DInv, TypeOK
  <1> DEFINE session == LoadSession(r).txns
  <1>2. Unique(session) /\ Created(session)
    BY LoadedSession
  <1> HIDE DEF session
  <1>3. own'[r].txns = session
    BY <1>1 DEF session
  <1>4. \A t \in Requests : pc[t] \notin {"idle", "clients"} => pc'[t] \notin {"idle", "clients"}
    BY <1>1
  <1>5. SessionsFit'
    <2>1. ASSUME NEW x \in Requests PROVE Unique(own'[x].txns) /\ Created(own[x].txns)'
      <3>1. CASE x = r
        BY <1>2, <1>3, <1>4, <3>1 DEF Created
      <3>2. CASE x # r
        BY <1>1, <1>4, <3>2 DEF KInv, SessionsFit, Created
      <3> QED
        BY <3>1, <3>2
    <2>2. ASSUME NEW s \in Requests, store'[s] # None
          PROVE  Unique(store'[s]) /\ Created(store[s])'
      BY <1>4, <2>2 DEF KInv, SessionsFit, Created
    <2>3. ASSUME NEW x \in Requests, pc'[x] = "permission"
          PROVE  own'[x].txns[tid'[x]].user # None
      BY <1>1, <2>3 DEF KInv, SessionsFit
    <2> QED
      BY <2>1, <2>2, <2>3 DEF SessionsFit, Unique
  <1>6. Sequential'
    <2> SUFFICES ASSUME faults' = 0, ~overlapped'
                 PROVE  /\ \A y, x \in Requests : pc'[y] \in Waiting /\ pc'[x] \in Waiting => y = x
                        /\ \A y \in Requests : pc'[y] \in Waiting => Kept(own[y].txns)'
                        /\ ~AtRest'
      BY DEF Sequential
    <2>1. faults = 0 /\ ~overlapped /\ AtRest
      BY <1>1 DEF AtRest
    <2>2. \A y \in Requests : pc'[y] \in Waiting <=> y = r
      BY <1>1, <2>1 DEF AtRest, Waiting
    <2>3. Kept(session)
      BY <2>1, LoadedSession DEF session
    <2>4. Kept(own[r].txns)'
      BY <1>3, <2>3 DEF Kept
    <2> QED
      BY <2>2, <2>4 DEF AtRest
  <1> QED
    BY <1>5, <1>6

LEMMA ReceiveKeeps ==
  ASSUME KInv, NEW r \in Requests, Receive(r)
  PROVE  SessionsFit' /\ Sequential'
  <1>1. CASE AuthorizationRequest(r)
    BY <1>1, ArrivalKeeps DEF AuthorizationRequest
  <1>2. CASE TransactionMissing(r)
    BY <1>2, ArrivalKeeps DEF TransactionMissing
  <1>3. CASE Login(r) \/ Redirected(r)
    <2>1. /\ \E q : Arrive(r, q)
          /\ \E next \in {"user", "end"} : pc' = [pc EXCEPT ![r] = next]
          /\ UNCHANGED <<page, store, cookie, faults>>
          /\ \E id : tid' = [tid EXCEPT ![r] = id]
      BY <1>3 DEF Login, Redirected, TransactionLoader
    <2>2. \A x \in Requests \ {r} : tid'[x] = tid[x]
      BY <2>1 DEF KInv, DInv, TypeOK
    <2> QED
      BY <2>1, <2>2, ArrivalKeeps
  <1>4. CASE Decision(r)
    <2>1. /\ \E q : Arrive(r, q)
          /\ \E next \in {"addPermission", "end"} : pc' = [pc EXCEPT ![r] = next]
          /\ UNCHANGED <<page, store, cookie, faults>>
          /\ \E id : tid' = [tid EXCEPT ![r] = id]
      BY <1>4 DEF Decision, TransactionLoader, Respond
    <2>2. \A x \in Requests \ {r} : tid'[x] = tid[x]
      BY <2>1 DEF KInv, DInv, TypeOK
    <2> QED
      BY <2>1, <2>2, ArrivalKeeps
  <1> QED
    BY <1>1, <1>2, <1>3, <1>4 DEF Receive

\* A callback may add to the transactions of its copy and log in to them; the
\* page it answers with is about one of them.
LEMMA WorkKeeps ==
  ASSUME KInv, NEW r \in Requests, pc[r] \in {"clients", "user", "permission"},
         NEW next \in {"user", "page", "permission", "addPermission", "end"},
         NEW session, NEW id, NEW pg,
         pc' = [pc EXCEPT ![r] = next], own' = [own EXCEPT ![r].txns = session],
         tid' = [tid EXCEPT ![r] = id], page' = [page EXCEPT ![r] = pg],
         UNCHANGED <<outside, faults>>,
         Unique(session), Created(session)',
         \A t \in Requests : own[r].txns[t] # None =>
           session[t] # None /\ (own[r].txns[t].user # None => session[t].user # None),
         next = "permission" => session[id].user # None,
         pg # page[r] => /\ session[pg.tid] # None
                         /\ pg.kind = "consent" => session[pg.tid].user # None
  PROVE  SessionsFit' /\ Sequential'
  <1>1. /\ own'[r].txns = session /\ \A x \in Requests \ {r} : own'[x] = own[x]
        /\ pc'[r] = next /\ \A x \in Requests \ {r} : pc'[x] = pc[x]
        /\ tid'[r] = id /\ \A x \in Requests \ {r} : tid'[x] = tid[x]
        /\ page'[r] = pg /\ \A x \in Requests \ {r} : page'[x] = page[x]
        /\ UNCHANGED <<store, cookie, overlapped, faults>>
    BY DEF KInv, DInv, TypeOK, outside
  <1>2. \A t \in Requests : pc[t] \notin {"idle", "clients"} => pc'[t] \notin {"idle", "clients"}
    BY <1>1
  <1>3. SessionsFit'
    <2>1. ASSUME NEW x \in Requests PROVE Unique(own'[x].txns) /\ Created(own[x].txns)'
      <3>1. CASE x = r
        BY <1>1, <3>1 DEF Created
      <3>2. CASE x # r
        BY <1>1, <1>2, <3>2 DEF KInv, SessionsFit, Created
      <3> QED
        BY <3>1, <3>2
    <2>2. ASSUME NEW s \in Requests, store'[s] # None
          PROVE  Unique(store'[s]) /\ Created(store[s])'
      BY <1>1, <1>2, <2>2 DEF KInv, SessionsFit, Created
    <2>3. ASSUME NEW x \in Requests, pc'[x] = "permission"
          PROVE  own'[x].txns[tid'[x]].user # None
      BY <1>1, <2>3 DEF KInv, SessionsFit
    <2> QED
      BY <2>1, <2>2, <2>3 DEF SessionsFit, Unique
  <1>4. Sequential'
    <2> SUFFICES ASSUME faults = 0, ~overlapped
                 PROVE  /\ \A y, x \in Requests : pc'[y] \in Waiting /\ pc'[x] \in Waiting => y = x
                        /\ \A y \in Requests : pc'[y] \in Waiting => Kept(own[y].txns)'
                        /\ ~AtRest'
      BY <1>1 DEF Sequential
    <2>1. \A y \in Requests : pc[y] \in Waiting <=> y = r
      BY DEF KInv, Sequential, Waiting
    <2>2. \A y \in Requests : pc'[y] \in Waiting <=> y = r
      BY <1>1, <2>1 DEF Waiting
    <2>3. Kept(own[r].txns)
      BY <2>1 DEF KInv, Sequential
    <2>4. Kept(own[r].txns)'
      <3> SUFFICES ASSUME NEW p \in Requests, page'[p] # None
                   PROVE  /\ session[page'[p].tid] # None
                          /\ page'[p].kind = "consent" => session[page'[p].tid].user # None
        BY <1>1 DEF Kept
      <3>1. CASE page'[p] = page[p]
        <4>1. page[p].tid \in Requests
          BY <3>1 DEF KInv, DInv, TypeOK, Pages
        <4>2. /\ own[r].txns[page[p].tid] # None
              /\ page[p].kind = "consent" => own[r].txns[page[p].tid].user # None
          BY <2>3, <3>1 DEF Kept
        <4> QED
          BY <3>1, <4>1, <4>2
      <3>2. CASE page'[p] # page[p]
        BY <1>1, <3>2
      <3> QED
        BY <3>1, <3>2
    <2> QED
      BY <2>2, <2>4 DEF AtRest
  <1> QED
    BY <1>3, <1>4

\* The answers of the handlers, as far as the sessions are concerned.
LEMMA AnswerAbout ==
  ASSUME NEW r \in Requests, NEW id, NEW t, NEW kind, Answer(r, kind, id, t)
  PROVE  \E pg : /\ page' = [page EXCEPT ![r] = pg]
                 /\ pc' = [pc EXCEPT ![r] = "page"]
                 /\ pg.tid = id /\ pg.kind = kind
  <1> DEFINE pg == [kind |-> kind, tid |-> id, user |-> t.user, scopes |-> t.req.scopes]
  <1>1. /\ page' = [page EXCEPT ![r] = pg] /\ pc' = [pc EXCEPT ![r] = "page"]
        /\ pg.tid = id /\ pg.kind = kind
    BY DEF Answer
  <1> HIDE DEF pg
  <1> QED
    BY <1>1

LEMMA AfterLoginAbout ==
  ASSUME KInv, NEW r \in Requests, NEW id, NEW t, AfterLogin(r, id, t)
  PROVE  \E next \in {"permission", "addPermission"} :
           pc' = [pc EXCEPT ![r] = next] /\ page' = [page EXCEPT ![r] = page[r]]
  <1>1. page' = page => page' = [page EXCEPT ![r] = page[r]]
    BY DEF KInv, DInv, TypeOK
  <1> QED
    BY <1>1 DEF AfterLogin, Respond

LEMMA PermissionCheckedKeeps ==
  ASSUME KInv, NEW r \in Requests, PermissionChecked(r)
  PROVE  SessionsFit' /\ Sequential'
  <1>1. /\ pc[r] = "permission" /\ Answer(r, "consent", tid[r], Transaction(r))
        /\ UNCHANGED <<outside, own, tid, authenticated, faults>>
    BY DEF PermissionChecked
  <1>2. PICK pg : /\ page' = [page EXCEPT ![r] = pg] /\ pc' = [pc EXCEPT ![r] = "page"]
                  /\ pg.tid = tid[r]
    BY <1>1, AnswerAbout
  <1>3. PICK s : s = own[r].txns
    OBVIOUS
  <1>4. /\ own' = [own EXCEPT ![r].txns = s] /\ tid' = [tid EXCEPT ![r] = tid[r]]
        /\ s[tid[r]] # None
    BY <1>1, <1>3, CurrentTransaction DEF KInv, Transaction
  <1>5. Unique(s) /\ Created(s) /\ s[tid[r]].user # None
    BY <1>1, <1>3 DEF KInv, SessionsFit
  <1>6. \A t \in Requests : pc[t] \notin {"idle", "clients"} => pc'[t] \notin {"idle", "clients"}
    BY <1>1, <1>2 DEF KInv, DInv, TypeOK
  <1>7. Created(s)'
    BY <1>5, <1>6, CreatedStays
  <1>8. \A t \in Requests : own[r].txns[t] # None =>
          s[t] # None /\ (own[r].txns[t].user # None => s[t].user # None)
    BY <1>3
  <1>9. s[pg.tid] # None /\ s[pg.tid].user # None
    BY <1>2, <1>4, <1>5
  <1> QED
    BY <1>1, <1>2, <1>4, <1>5, <1>7, <1>8, <1>9, WorkKeeps

LEMMA UserRejectedKeeps ==
  ASSUME KInv, NEW r \in Requests, UserRejected(r)
  PROVE  SessionsFit' /\ Sequential'
  <1>1. pc[r] = "user" /\ UNCHANGED <<outside, own, tid, authenticated, faults>>
    BY DEF UserRejected
  <1>2. PICK s : s = own[r].txns
    OBVIOUS
  <1>3. /\ own' = [own EXCEPT ![r].txns = s] /\ tid' = [tid EXCEPT ![r] = tid[r]]
        /\ s[tid[r]] # None
    BY <1>1, <1>2, CurrentTransaction DEF KInv, Transaction
  <1>4. Unique(s) /\ Created(s)
    BY <1>2 DEF KInv, SessionsFit
  <1> PICK next \in {"page", "permission", "addPermission", "end"} : \E pg :
        /\ pc' = [pc EXCEPT ![r] = next] /\ page' = [page EXCEPT ![r] = pg]
        /\ next = "permission" => s[tid[r]].user # None
        /\ pg # page[r] => pg.tid = tid[r] /\ pg.kind # "consent"
    <2>1. CASE input[r].kind # "AZ login"
      <3>1. pc' = [pc EXCEPT ![r] = "end"] /\ page' = page
        BY <2>1 DEF UserRejected
      <3>2. page' = [page EXCEPT ![r] = page[r]]
        BY <3>1 DEF KInv, DInv, TypeOK
      <3> QED
        BY <3>1, <3>2
    <2>2. CASE input[r].kind = "AZ login" /\ Logined(r)
      <3>1. AfterLogin(r, tid[r], Transaction(r)) /\ s[tid[r]].user # None
        BY <1>2, <2>2 DEF UserRejected, Logined, Transaction
      <3> QED
        BY <3>1, AfterLoginAbout
    <2>3. CASE input[r].kind = "AZ login" /\ ~Logined(r)
      <3>1. Answer(r, "login", tid[r], Transaction(r))
        BY <2>3 DEF UserRejected
      <3>2. PICK pg : /\ page' = [page EXCEPT ![r] = pg] /\ pc' = [pc EXCEPT ![r] = "page"]
                      /\ pg.tid = tid[r] /\ pg.kind = "login"
        BY <3>1, AnswerAbout
      <3> QED
        BY <3>2
    <2> QED
      BY <2>1, <2>2, <2>3
  <1>5. PICK pg :
          /\ pc' = [pc EXCEPT ![r] = next] /\ page' = [page EXCEPT ![r] = pg]
          /\ next = "permission" => s[tid[r]].user # None
          /\ pg # page[r] => pg.tid = tid[r] /\ pg.kind # "consent"
    OBVIOUS
  <1>6. \A t \in Requests : pc[t] \notin {"idle", "clients"} => pc'[t] \notin {"idle", "clients"}
    BY <1>1, <1>5 DEF KInv, DInv, TypeOK
  <1>7. Created(s)'
    BY <1>4, <1>6, CreatedStays
  <1>8. \A t \in Requests : own[r].txns[t] # None =>
          s[t] # None /\ (own[r].txns[t].user # None => s[t].user # None)
    BY <1>2
  <1>9. pg # page[r] => /\ s[pg.tid] # None
                        /\ pg.kind = "consent" => s[pg.tid].user # None
    BY <1>3, <1>5
  <1>10. /\ pc[r] \in {"clients", "user", "permission"}
         /\ next \in {"user", "page", "permission", "addPermission", "end"}
    BY <1>1, <1>5
  <1>11. UNCHANGED <<outside, faults>>
    BY <1>1
  <1> QED
    BY <1>3, <1>4, <1>5, <1>7, <1>8, <1>9, <1>10, <1>11, WorkKeeps

LEMMA UserAcceptedKeeps ==
  ASSUME KInv, NEW r \in Requests, UserAccepted(r)
  PROVE  SessionsFit' /\ Sequential'
  <1> DEFINE t0 == [Transaction(r) EXCEPT !.user = input[r].user]
  <1>1. /\ pc[r] = "user" /\ UNCHANGED <<outside, tid, faults>>
        /\ own' = [own EXCEPT ![r].txns[tid[r]] = t0]
    BY DEF UserAccepted
  <1>2. /\ input[r].user \in Users /\ tid[r] \in Requests /\ Transaction(r) # None
        /\ Transaction(r) \in Transactions /\ own[r] \in [sid: Requests, txns: Dialogs]
        /\ tid' = [tid EXCEPT ![r] = tid[r]]
    BY <1>1, CurrentTransaction DEF KInv, DInv, RequestsFit, TypeOK
  <1>3. PICK t \in Transactions : /\ t = t0 /\ t # None /\ t.user # None
                                  /\ t.req = Transaction(r).req
    <2>1. t0 \in Transactions /\ t0.user \in Users /\ t0.req = Transaction(r).req
      BY <1>2 DEF Transactions
    <2> HIDE DEF t0
    <2> QED
      BY <2>1, NoneAssumption
  <1>4. PICK s : s = [own[r].txns EXCEPT ![tid[r]] = t]
    OBVIOUS
  <1>5. own' = [own EXCEPT ![r].txns = s]
    BY <1>1, <1>2, <1>3, <1>4 DEF KInv, DInv, TypeOK
  <1>6. s[tid[r]] = t /\ \A u \in Requests \ {tid[r]} : s[u] = own[r].txns[u]
    BY <1>2, <1>4 DEF Dialogs
  <1>7. Unique(s) /\ Created(s)
    <2>1. \A u \in Requests : s[u] # None =>
            own[r].txns[u] # None /\ s[u].req = own[r].txns[u].req
      BY <1>2, <1>3, <1>6 DEF Transaction
    <2> QED
      BY <2>1 DEF KInv, SessionsFit, Unique, Created
  <1>8. PICK next \in {"permission", "addPermission"} :
          pc' = [pc EXCEPT ![r] = next] /\ page' = [page EXCEPT ![r] = page[r]]
    <2>1. CASE input[r].kind = "AZ redirect"
      <3>1. pc' = [pc EXCEPT ![r] = "addPermission"] /\ page' = page
        BY <2>1 DEF UserAccepted, Respond
      <3>2. page' = [page EXCEPT ![r] = page[r]]
        BY <3>1 DEF KInv, DInv, TypeOK
      <3> QED
        BY <3>1, <3>2
    <2>2. CASE input[r].kind # "AZ redirect"
      <3>1. AfterLogin(r, tid[r], t)
        BY <1>3, <2>2 DEF UserAccepted
      <3> QED
        BY <3>1, AfterLoginAbout
    <2> QED
      BY <2>1, <2>2
  <1>9. \A u \in Requests : pc[u] \notin {"idle", "clients"} => pc'[u] \notin {"idle", "clients"}
    BY <1>1, <1>8 DEF KInv, DInv, TypeOK
  <1>10. Created(s)'
    BY <1>7, <1>9, CreatedStays
  <1>11. \A u \in Requests : own[r].txns[u] # None =>
           s[u] # None /\ (own[r].txns[u].user # None => s[u].user # None)
    BY <1>3, <1>6
  <1>12. s[tid[r]].user # None
    BY <1>3, <1>6
  <1> QED
    BY <1>1, <1>2, <1>5, <1>7, <1>8, <1>10, <1>11, <1>12, WorkKeeps, ZenonT(60)

\* A transaction is created for what none of the others was asked for.
LEMMA ClientFoundKeeps ==
  ASSUME KInv, NEW r \in Requests, ClientFound(r)
  PROVE  SessionsFit' /\ Sequential'
  <1> DEFINE areq  == input[r].req
             found == SearchTXData(own[r].txns, areq)
             txns  == IF found # {} THEN own[r].txns
                                    ELSE CreateTXData(own[r].txns, areq, r)
             fresh == [req |-> areq, user |-> None]
  <1>1. pc[r] = "clients" /\ UNCHANGED <<outside, authenticated, faults>>
    BY DEF ClientFound
  <1>2. PICK id \in IF found # {} THEN found ELSE {r} :
          LET t == IF found # {} THEN txns[id] ELSE fresh
          IN /\ own' = [own EXCEPT ![r].txns = txns]
             /\ tid' = [tid EXCEPT ![r] = id]
             /\ CASE config.identity = "basic" ->
                       pc' = [pc EXCEPT ![r] = "user"] /\ UNCHANGED <<page, grant>>
                  [] config.identity = "redirect" -> Answer(r, "redirect", id, t)
                  [] config.identity = "form" /\ t.user # None -> AfterLogin(r, id, t)
                  [] OTHER -> Answer(r, "login", id, t)
    BY DEF ClientFound
  <1>3. /\ own[r] \in [sid: Requests, txns: Dialogs] /\ areq \in AuthRequests
        /\ Unique(own[r].txns) /\ Created(own[r].txns) /\ own[r].txns[r] = None
    BY <1>1 DEF KInv, DInv, TypeOK, RequestsFit, SessionsFit, Created
  <1>4. fresh # None /\ fresh.req = areq
    <2>1. fresh \in Transactions /\ fresh.req = areq
      BY <1>3 DEF Transactions
    <2> HIDE DEF fresh
    <2> QED
      BY <2>1, NoneAssumption
  <1>5. /\ Unique(txns) /\ txns[id] # None
        /\ \A t \in Requests : txns[t] # None => t = r \/ own[r].txns[t] # None
        /\ \A t \in Requests : own[r].txns[t] # None => txns[t] = own[r].txns[t]
        /\ txns[id] = IF found # {} THEN txns[id] ELSE fresh
    <2>1. CASE found # {}
      <3>1. id \in Requests /\ own[r].txns[id] # None /\ txns = own[r].txns
        BY <1>2, <2>1 DEF SearchTXData
      <3> QED
        BY <1>3, <2>1, <3>1
    <2>2. CASE found = {}
      <3>1. id = r /\ txns = [own[r].txns EXCEPT ![r] = fresh]
        BY <1>2, <2>2 DEF CreateTXData
      <3> HIDE DEF fresh
      <3>2. txns[r] = fresh /\ \A t \in Requests \ {r} : txns[t] = own[r].txns[t]
        BY <1>3, <3>1 DEF Dialogs
      <3>3. \A t \in Requests : own[r].txns[t] # None => own[r].txns[t].req # areq
        BY <2>2 DEF SearchTXData
      <3> HIDE DEF txns, areq, found
      <3>4. Unique(txns)
        BY <1>3, <1>4, <3>2, <3>3 DEF Unique
      <3> QED
        BY <1>3, <1>4, <2>2, <3>1, <3>2, <3>4
    <2> QED
      BY <2>1, <2>2
  <1>6. PICK s, t : /\ s = txns /\ t = txns[id]
    OBVIOUS
  <1>7. /\ own' = [own EXCEPT ![r].txns = s] /\ tid' = [tid EXCEPT ![r] = id]
        /\ CASE config.identity = "basic" -> pc' = [pc EXCEPT ![r] = "user"] /\ page' = page
             [] config.identity = "redirect" -> Answer(r, "redirect", id, t)
             [] config.identity = "form" /\ t.user # None -> AfterLogin(r, id, t)
             [] OTHER -> Answer(r, "login", id, t)
    BY <1>2, <1>5, <1>6
  <1> HIDE DEF txns, found, fresh, areq
  <1>8. PICK next \in {"user", "page", "permission", "addPermission"} : \E pg :
          /\ pc' = [pc EXCEPT ![r] = next] /\ page' = [page EXCEPT ![r] = pg]
          /\ next = "permission" => s[id].user # None
          /\ pg # page[r] => pg.tid = id /\ pg.kind # "consent"
    <2>1. CASE config.identity = "basic"
      <3>1. page' = [page EXCEPT ![r] = page[r]]
        BY <1>7, <2>1 DEF KInv, DInv, TypeOK
      <3> QED
        BY <1>7, <2>1, <3>1
    <2>2. CASE config.identity = "form" /\ t.user # None
      <3>1. AfterLogin(r, id, t) /\ s[id].user # None
        BY <1>6, <1>7, <2>2
      <3> QED
        BY <3>1, AfterLoginAbout
    <2>3. CASE /\ config.identity # "basic"
               /\ ~(config.identity = "form" /\ t.user # None)
      <3>1. PICK kind \in {"login", "redirect"} : Answer(r, kind, id, t)
        BY <1>7, <2>3
      <3>2. PICK pg : /\ page' = [page EXCEPT ![r] = pg] /\ pc' = [pc EXCEPT ![r] = "page"]
                      /\ pg.tid = id /\ pg.kind = kind
        BY <3>1, AnswerAbout
      <3> QED
        BY <3>2
    <2> QED
      BY <2>1, <2>2, <2>3
  <1>9. PICK pg :
          /\ pc' = [pc EXCEPT ![r] = next] /\ page' = [page EXCEPT ![r] = pg]
          /\ next = "permission" => s[id].user # None
          /\ pg # page[r] => pg.tid = id /\ pg.kind # "consent"
    BY <1>8
  <1>10. \A u \in Requests : pc[u] \notin {"idle", "clients"} \/ u = r =>
          pc'[u] \notin {"idle", "clients"}
    BY <1>1, <1>9 DEF KInv, DInv, TypeOK
  <1>11. Created(s)'
    BY <1>3, <1>5, <1>6, <1>10 DEF Created
  <1>12. /\ Unique(s) /\ s[id] # None
         /\ \A u \in Requests : own[r].txns[u] # None =>
              s[u] # None /\ (own[r].txns[u].user # None => s[u].user # None)
    BY <1>5, <1>6
  <1>13. /\ next \in {"user", "page", "permission", "addPermission", "end"}
         /\ next = "permission" => s[id].user # None
         /\ pg # page[r] => /\ s[pg.tid] # None
                            /\ pg.kind = "consent" => s[pg.tid].user # None
    BY <1>9, <1>12
  <1> QED
    BY <1>1, <1>7, <1>9, <1>11, <1>12, <1>13, WorkKeeps

\* Steps that only move requests on; a failure counts.
LEMMA MoveKeeps ==
  ASSUME KInv, UNCHANGED <<own, tid, page, store, overlapped>>,
         \A x \in Requests :
           \/ pc'[x] = pc[x]
           \/ pc[x] \in Waiting /\ pc'[x] \in {"issue", "end"}
           \/ pc[x] \in Waiting /\ pc'[x] = "lost" /\ faults' # 0,
         faults' = 0 => faults = 0,
         cookie' = cookie \/ \E x \in Requests : pc'[x] \in Waiting
  PROVE  SessionsFit' /\ Sequential'
  <1>1. SessionsFit'
    BY DEF KInv, SessionsFit, Unique, Created, Waiting
  <1>2. Sequential'
    <2> SUFFICES ASSUME faults' = 0, faults = 0, ~overlapped
                 PROVE  /\ \A y, x \in Requests : pc'[y] \in Waiting /\ pc'[x] \in Waiting => y = x
                        /\ \A y \in Requests : pc'[y] \in Waiting => Kept(own[y].txns)'
                        /\ AtRest' => \/ \A p \in Requests : page'[p] = None
                                      \/ /\ cookie' # None /\ store'[cookie'] # None
                                         /\ Kept(store[cookie])'
      BY DEF Sequential
    <2>1. \A y \in Requests : pc'[y] \in Waiting <=> pc[y] \in Waiting
      BY DEF Waiting
    <2>2. \A y \in Requests : pc'[y] \in Waiting => Kept(own[y].txns)'
      BY <2>1 DEF KInv, Sequential, Kept
    <2>3. AtRest' => AtRest /\ cookie' = cookie
      BY <2>1 DEF AtRest
    <2> QED
      BY <2>1, <2>2, <2>3 DEF KInv, Sequential, Kept
  <1> QED
    BY <1>1, <1>2

LEMMA MovesKeep ==
  ASSUME KInv, NEW r \in Requests,
         \/ ClientRefused(r) \/ PermissionAdded(r) \/ GrantSaved(r) \/ StoreError(r)
         \/ Crash(r) \/ WritePage(r)
  PROVE  SessionsFit' /\ Sequential'
  <1>1. faults \in Nat
    BY ConfigAssumption DEF KInv, DInv, TypeOK
  <1>2. CASE ClientRefused(r) \/ PermissionAdded(r) \/ GrantSaved(r) \/ StoreError(r)
    <2>1. /\ pc[r] \in Waiting /\ \E next \in {"issue", "end"} : Goto(r, next)
          /\ faults' \in {faults, faults + 1}
      BY <1>2 DEF ClientRefused, PermissionAdded, GrantSaved, StoreError, Refuse, Waiting
    <2>2. \A x \in Requests : \/ pc'[x] = pc[x]
                              \/ pc[x] \in Waiting /\ pc'[x] \in {"issue", "end"}
      BY <2>1 DEF Goto, KInv, DInv, TypeOK
    <2> QED
      BY <1>1, <2>1, <2>2, MoveKeeps DEF Goto, outside
  <1>3. CASE Crash(r)
    <2>1. faults' # 0
      BY <1>1, <1>3 DEF Crash
    <2>2. /\ UNCHANGED <<own, tid, page, store, cookie, overlapped>>
          /\ pc' = [x \in Requests |-> IF pc[x] \in Waiting THEN "lost" ELSE pc[x]]
      BY <1>3 DEF Crash, outside
    <2>3. \A x \in Requests : pc'[x] = pc[x] \/ (pc[x] \in Waiting /\ pc'[x] = "lost")
      BY <2>2
    <2> QED
      BY <2>1, <2>2, <2>3, MoveKeeps
  <1>4. CASE WritePage(r)
    <2>1. /\ pc[r] \in Waiting /\ pc' = [pc EXCEPT ![r] = "end"]
          /\ UNCHANGED <<own, tid, page, store, overlapped, faults>>
      BY <1>4 DEF WritePage, Waiting
    <2>2. pc'[r] \in Waiting /\ \A x \in Requests \ {r} : pc'[x] = pc[x]
      BY <2>1 DEF KInv, DInv, TypeOK, Waiting
    <2>3. pc'[r] = "end"
      BY <2>1 DEF KInv, DInv, TypeOK
    <2> QED
      BY <2>1, <2>2, <2>3, MoveKeeps
  <1> QED
    BY <1>2, <1>3, <1>4

\* What the response leaves in the store is what the request has worked on.
LEMMA SaveSessionKeeps ==
  ASSUME KInv, NEW r \in Requests, SaveSession(r)
  PROVE  SessionsFit' /\ Sequential'
  <1>1. /\ pc[r] = "end" /\ pc' = [pc EXCEPT ![r] = "done"]
        /\ own' = [own EXCEPT ![r] = [sid |-> r, txns |-> NoTransactions]]
        /\ cookie' = own[r].sid
        /\ UNCHANGED <<tid, page, overlapped>>
        /\ \/ store' = [store EXCEPT ![own[r].sid] = own[r].txns] /\ faults' = faults
           \/ store' = store /\ faults' = faults + 1
    BY DEF SaveSession
  <1>2. /\ pc'[r] = "done" /\ \A x \in Requests \ {r} : pc'[x] = pc[x]
        /\ own'[r].txns = NoTransactions /\ \A x \in Requests \ {r} : own'[x] = own[x]
        /\ own[r].sid \in Requests /\ own[r].txns \in Dialogs /\ faults \in Nat
    BY <1>1, ConfigAssumption DEF KInv, DInv, TypeOK
  <1>3. \A t \in Requests : pc[t] \notin {"idle", "clients"} => pc'[t] \notin {"idle", "clients"}
    BY <1>2
  <1>4. SessionsFit'
    <2>1. Unique(NoTransactions) /\ Created(NoTransactions)'
      BY DEF Unique, Created, NoTransactions
    <2>2. ASSUME NEW x \in Requests PROVE Unique(own'[x].txns) /\ Created(own[x].txns)'
      <3>1. CASE x = r
        BY <1>2, <2>1, <3>1 DEF Created, NoTransactions
      <3>2. CASE x # r
        BY <1>2, <1>3, <3>2 DEF KInv, SessionsFit, Created
      <3> QED
        BY <3>1, <3>2
    <2>3. ASSUME NEW s \in Requests, store'[s] # None
          PROVE  Unique(store'[s]) /\ Created(store[s])'
      <3>1. store'[s] = store[s] \/ store'[s] = own[r].txns
        BY <1>1 DEF KInv, DInv, TypeOK
      <3>2. Unique(store'[s]) /\ \A t \in Requests : store'[s][t] # None =>
                                   pc[t] \notin {"idle", "clients"}
        BY <2>3, <3>1 DEF KInv, SessionsFit, Created
      <3> QED
        BY <1>3, <3>2 DEF Created
    <2>4. ASSUME NEW x \in Requests, pc'[x] = "permission"
          PROVE  own'[x].txns[tid'[x]].user # None
      BY <1>1, <1>2, <2>4 DEF KInv, SessionsFit
    <2> QED
      BY <2>2, <2>3, <2>4 DEF SessionsFit, Unique
  <1>5. Sequential'
    <2> SUFFICES ASSUME faults' = 0, ~overlapped
                 PROVE  /\ \A x \in Requests : pc'[x] \notin Waiting
                        /\ cookie' # None /\ store'[cookie'] # None
                        /\ Kept(store[cookie])'
      BY <1>1 DEF Sequential
    <2>1. faults = 0 /\ store' = [store EXCEPT ![own[r].sid] = own[r].txns]
      BY <1>1, <1>2
    <2>2. \A x \in Requests : pc'[x] \notin Waiting
      BY <1>1, <1>2, <2>1 DEF KInv, Sequential, Waiting
    <2>3. Kept(own[r].txns)
      BY <1>1, <2>1 DEF KInv, Sequential, Waiting
    <2>4. cookie' \in Requests /\ store'[cookie'] = own[r].txns
      BY <1>1, <1>2, <2>1 DEF KInv, DInv, TypeOK
    <2> QED
      BY <1>1, <1>2, <2>2, <2>3, <2>4, NoneAssumption DEF Kept
  <1> QED
    BY <1>4, <1>5

LEMMA SessionExpiresKeeps ==
  ASSUME KInv, NEW s \in Requests, SessionExpires(s)
  PROVE  SessionsFit' /\ Sequential'
  <1>1. /\ faults' # 0 /\ store' = [store EXCEPT ![s] = None]
        /\ UNCHANGED <<pc, own, tid>>
    BY ConfigAssumption DEF SessionExpires, KInv, DInv, TypeOK
  <1>2. \A x \in Requests : store'[x] # None => store'[x] = store[x]
    BY <1>1 DEF KInv, DInv, TypeOK
  <1>3. SessionsFit'
    BY <1>1, <1>2 DEF KInv, SessionsFit, Unique, Created
  <1> QED
    BY <1>1, <1>3 DEF Sequential

LEMMA NextKeeps == KInv /\ [Next]_vars => KInv'
  <1> SUFFICES ASSUME KInv, [Next]_vars PROVE SessionsFit' /\ Sequential'
    BY NextPreserves DEF KInv
  <1>1. ASSUME NEW r \in Requests, Callback(r) PROVE SessionsFit' /\ Sequential'
    BY <1>1, MovesKeep, ClientFoundKeeps, UserAcceptedKeeps, UserRejectedKeeps,
       PermissionCheckedKeeps, SaveSessionKeeps DEF Callback
  <1>2. CASE UNCHANGED vars
    BY <1>2 DEF vars, KInv, SessionsFit, Sequential, Unique, Created, Kept, AtRest
  <1> QED
    BY <1>1, <1>2, ReceiveKeeps, SessionExpiresKeeps DEF Next

LEMMA DialogKept == Spec => []KInv
  <1>1. Init => KInv
    BY InitDInv, InitKept DEF KInv
  <1> QED
    BY <1>1, NextKeeps, PTL DEF Spec

\* No session, and no copy of one, has two transactions for one request, in
\* whatever order the copies overwrite each other (authorization.js:191-192).
THEOREM OneTransactionPerRequestHolds == Spec => []OneTransactionPerRequest
  <1>1. KInv => OneTransactionPerRequest
    BY DEF KInv, SessionsFit, Unique, OneTransactionPerRequest
  <1> QED
    BY <1>1, DialogKept, PTL

\* While the user agent sends its requests one at a time and nothing fails, the
\* session has the transaction of every page that was sent, with the user that
\* a consent form shows (middleware/authorization.js:35-37, lib/postflow).
THEOREM SequentialDialogKeptHolds == Spec => []SequentialDialogKept
  <1>1. KInv => SequentialDialogKept
    BY DEF KInv, Sequential, SequentialDialogKept, Kept, Stored
  <1> QED
    BY <1>1, DialogKept, PTL
=============================================================================
