------------------------ MODULE SecurityCheck_proofs ------------------------
(***************************************************************************)
(* The safety properties of the security check: for any lists of           *)
(* candidates, definitions and credentials, and any number of candidates,  *)
(* requirements and schemes.                                               *)
(***************************************************************************)
EXTENDS SecurityCheck, WellFoundedInduction, TLAPS

-----------------------------------------------------------------------------
(* The loops. *)

\* Where the loops may stand.
LoopFits ==
  IF loop.req = 0 THEN loop.sch = 0
  ELSE /\ begun \in DOMAIN apis /\ ~NothingRequired(apis[begun])
       /\ loop.req <= Len(apis[begun].reqs) + 1
       /\ IF loop.req = Len(apis[begun].reqs) + 1 THEN loop.sch = 0
          ELSE loop.sch <= Len(apis[begun].reqs[loop.req]) + 1

\* Where the loops of candidate c are, or were broken off.
At(c) == IF c = begun /\ loop.req # 0 THEN loop ELSE broken[c]

\* The loops of candidate c have come to its requirement r.
Opened(c, r) ==
  /\ c \in 1..begun /\ ~NothingRequired(apis[c])
  /\ r \in DOMAIN apis[c].reqs
  /\ At(c).req # 0 => r < At(c).req \/ (r = At(c).req /\ At(c).sch > 0)

\* They have started the evaluation of its scheme s.
Reached(c, r, s) ==
  /\ Opened(c, r) /\ s \in DOMAIN apis[c].reqs[r]
  /\ r = At(c).req => s < At(c).sch

\* An evaluation has an outcome exactly if it was started, and the inner loop
\* counts it exactly while it has not answered.
SchemesCounted(c) ==
  \A r \in Requirements : \A s \in Schemes :
    /\ outcome[<<c, r, s>>] # "none" <=> Reached(c, r, s)
    /\ s \in evals[c].inner[r].left <=> outcome[<<c, r, s>>] = "pending"

\* The outer loop counts the requirements whose inner loop has not called back.
\* One that has not has only schemes that passed; one that has, and did not
\* decide the candidate, has a scheme that failed.
RequirementsCounted(c) ==
  \A r \in Requirements :
    /\ evals[c].inner[r].settled => Opened(c, r)
    /\ r \in evals[c].left <=> Opened(c, r) /\ ~evals[c].inner[r].settled
    /\ ~evals[c].inner[r].settled =>
         \A s \in Schemes : outcome[<<c, r, s>>] \notin {"fail", "missing"}
    /\ (evals[c].inner[r].settled /\ evals[c].verdict = "open") =>
         \E s \in Schemes : outcome[<<c, r, s>>] = "fail"

\* Candidates are decided in order, and one whose loops were broken off has left
\* its promise behind.
InOrder(c) ==
  /\ c < begun => evals[c].verdict \notin {"open", "thrown"}
  /\ c > begun => evals[c].verdict = "open"
  /\ broken[c].req # 0 => evals[c].verdict # "open" /\ (c = begun => loop.req = 0)

\* The candidates that passed are those of matches.
Matched(c) ==
  evals[c].verdict = "passed" <=> \E i \in DOMAIN matches : matches[i].api = c

LoopsInv ==
  /\ LoopFits
  /\ \A c \in Candidates :
       SchemesCounted(c) /\ RequirementsCounted(c) /\ InOrder(c) /\ Matched(c)

-----------------------------------------------------------------------------
(* What an evaluation has verified. *)

\* The steps of a login, against what the directory has accepted before.
LoginFits(e, def) ==
  LET step == login[e].step IN
  /\ step = "idle" => client[e] = "none"
  /\ step \in LdapSteps <=> client[e] = "open"
  /\ LoginVerified(e, def)
  /\ step \in {"http", "tlsProfile"} => def.registry = "none"
  /\ step \in LdapSteps \cup {"registry", "registryTls"} => def.registry = "name"
  /\ step = "bindAdmin" => def.authMethod = "searchDN"
  /\ (step \in {"bindGroup", "searchGroup"}
      \/ (step = "search" /\ def.authMethod = "composeUPN")) => "user" \in bound[e]
  /\ (step = "searchGroup" /\ def.groupAuth = "staticAuth") => "admin" \in bound[e]

LoginInv(e) ==
  /\ outcome[e] = "none" => login[e].step = "idle"
  /\ login[e].step = "idle" => client[e] = "none"
  /\ (outcome[e] # "none" /\ Def(e).type = "basic") => LoginFits(e, Def(e))

LoginsInv == \A e \in Evaluations : LoginInv(e)

\* A token in the context was validated.
TokensInv ==
  /\ TokensVerified
  /\ \A f \in oauth : /\ outcome[f] = "pass" /\ bearer.kind = "genuine"
                      /\ RequiredScopes(f) \subseteq bearer.scopes

\* A scheme of candidate c has verified its secret.
SecretVerified(c, secret) ==
  secret # None =>
    /\ secret[2] = apis[c].app
    /\ \E e \in Evaluations : /\ e[1] = c /\ outcome[e] = "pass"
                              /\ Def(e).type = "apiKey" /\ Def(e).name = "secret"

\* The secret is the current one of c, or in a match of c.
Held(c, secret) ==
  \/ clientSecret[c] = secret
  \/ \E i \in DOMAIN matches : matches[i].api = c /\ matches[i].secret = secret

SecretsInv ==
  \A c \in Candidates : \A secret \in Secrets \cup {None} :
    Held(c, secret) => SecretVerified(c, secret)

SecurityInv == TypeOK /\ LoopsInv /\ LoginsInv /\ TokensInv /\ SecretsInv

-----------------------------------------------------------------------------
(* The lists. *)

LEMMA ListFacts ==
  ASSUME TypeOK
  PROVE  /\ MaxCandidates \in Nat /\ MaxRequirements \in Nat /\ MaxSchemes \in Nat
         /\ apis \in Seq(Api) /\ Len(apis) \in Nat /\ Len(apis) <= MaxCandidates
         /\ DOMAIN apis = 1..Len(apis) /\ DOMAIN apis \subseteq Candidates
         /\ begun \in Nat /\ begun <= Len(apis)
         /\ \A c \in DOMAIN apis :
              /\ apis[c] \in Api
              /\ Len(apis[c].reqs) \in Nat /\ Len(apis[c].reqs) <= MaxRequirements
              /\ DOMAIN apis[c].reqs = 1..Len(apis[c].reqs)
              /\ DOMAIN apis[c].reqs \subseteq Requirements
              /\ \A r \in DOMAIN apis[c].reqs :
                   /\ Len(apis[c].reqs[r]) \in Nat /\ Len(apis[c].reqs[r]) <= MaxSchemes
                   /\ DOMAIN apis[c].reqs[r] = 1..Len(apis[c].reqs[r])
                   /\ DOMAIN apis[c].reqs[r] \subseteq Schemes
                   /\ \A s \in DOMAIN apis[c].reqs[r] : apis[c].reqs[r][s] \in SchemeDefs
  <1>1. apis \in CandidateLists /\ begun \in 0..Len(apis)
    BY DEF TypeOK
  <1>2. /\ apis \in Seq(Api) /\ Len(apis) <= MaxCandidates
        /\ MaxCandidates \in Nat /\ MaxRequirements \in Nat /\ MaxSchemes \in Nat
    BY <1>1, CandidatesAssumption, BoundsAssumption
  <1>3. /\ Len(apis) \in Nat /\ DOMAIN apis = 1..Len(apis)
        /\ \A c \in DOMAIN apis : apis[c] \in Api
    BY <1>2
  <1>4. DOMAIN apis \subseteq Candidates
    BY <1>2, <1>3 DEF Candidates
  <1>5. ASSUME NEW c \in DOMAIN apis
        PROVE  /\ apis[c].reqs \in Seq(Seq(SchemeDefs))
               /\ Len(apis[c].reqs) \in Nat /\ Len(apis[c].reqs) <= MaxRequirements
               /\ DOMAIN apis[c].reqs = 1..Len(apis[c].reqs)
    <2>1. apis[c].reqs \in Seq(Seq(SchemeDefs))
      BY <1>3 DEF Api
    <2>2. Len(apis[c].reqs) <= MaxRequirements
      BY <1>1, CandidatesAssumption
    <2> QED
      BY <2>1, <2>2
  <1>6. ASSUME NEW c \in DOMAIN apis, NEW r \in DOMAIN apis[c].reqs
        PROVE  /\ Len(apis[c].reqs[r]) \in Nat /\ Len(apis[c].reqs[r]) <= MaxSchemes
               /\ DOMAIN apis[c].reqs[r] = 1..Len(apis[c].reqs[r])
               /\ \A s \in DOMAIN apis[c].reqs[r] : apis[c].reqs[r][s] \in SchemeDefs
    <2>1. apis[c].reqs[r] \in Seq(SchemeDefs)
      BY <1>5
    <2>2. Len(apis[c].reqs[r]) <= MaxSchemes
      BY <1>1, CandidatesAssumption
    <2> QED
      BY <2>1, <2>2
  <1>7. ASSUME NEW c \in DOMAIN apis
        PROVE  /\ DOMAIN apis[c].reqs \subseteq Requirements
               /\ \A r \in DOMAIN apis[c].reqs : DOMAIN apis[c].reqs[r] \subseteq Schemes
    <2>1. DOMAIN apis[c].reqs \subseteq Requirements
      BY <1>2, <1>5 DEF Requirements
    <2>2. ASSUME NEW r \in DOMAIN apis[c].reqs PROVE DOMAIN apis[c].reqs[r] \subseteq Schemes
      BY <1>2, <1>6 DEF Schemes
    <2> QED
      BY <2>1, <2>2
  <1> QED
    BY <1>1, <1>2, <1>3, <1>4, <1>5, <1>6, <1>7

-----------------------------------------------------------------------------
(* The callbacks of the loops. *)

Results == {"pass", "fail", "missing"}

VerdictOf(result) ==
  IF result = "pass" THEN "passed" ELSE IF result = "fail" THEN "refused" ELSE "error"

\* The inner loop of r calls back with the answer of s.
Settling(ev, r, s, result, exhausted) ==
  /\ ~ev.inner[r].settled
  /\ result # "pass" \/ (exhausted /\ ev.inner[r].left \ {s} = {})

\* ... and decides the candidate.
Deciding(ev, r, result, exhausted) ==
  ev.verdict = "open" /\ (result # "fail" \/ (exhausted /\ ev.left \ {r} = {}))

LEMMA SettleFacts ==
  ASSUME NEW ev \in Evals, NEW r \in Requirements, NEW result \in Results,
         NEW exhausted \in BOOLEAN
  PROVE  /\ Settle(ev, r, result, exhausted) \in Evals
         /\ Settle(ev, r, result, exhausted).inner =
              [ev.inner EXCEPT ![r].settled = TRUE]
         /\ Settle(ev, r, result, exhausted).left =
              IF ev.inner[r].settled THEN ev.left ELSE ev.left \ {r}
         /\ Settle(ev, r, result, exhausted).verdict =
              IF ~ev.inner[r].settled /\ Deciding(ev, r, result, exhausted)
              THEN VerdictOf(result) ELSE ev.verdict
  <1>1. CASE ev.inner[r].settled
    <2>1. ev.inner \in [Requirements -> [left: SUBSET Schemes, settled: BOOLEAN]]
      BY DEF Evals
    <2>2. [ev.inner EXCEPT ![r].settled = TRUE] = ev.inner
      BY <1>1, <2>1
    <2> QED
      BY <1>1, <2>2 DEF Settle
  <1>2. CASE ~ev.inner[r].settled
    <2> DEFINE ev1 == [ev EXCEPT !.inner[r].settled = TRUE]
    <2>1. /\ ev1 \in Evals /\ ev1.left = ev.left /\ ev1.verdict = ev.verdict
          /\ ev1.inner = [ev.inner EXCEPT ![r].settled = TRUE]
      BY DEF Evals
    <2>2. Settle(ev, r, result, exhausted) = OuterDone(ev1, r, result, exhausted)
      BY <1>2 DEF Settle
    <2> HIDE DEF ev1
    <2> QED
      BY <1>2, <2>1, <2>2 DEF OuterDone, Evals, Deciding, VerdictOf, Results
  <1> QED
    BY <1>1, <1>2

LEMMA InnerDoneFacts ==
  ASSUME NEW ev \in Evals, NEW r \in Requirements, NEW s \in Schemes,
         NEW result \in Results, NEW exhausted \in BOOLEAN
  PROVE  LET o == InnerDone(ev, r, s, result, exhausted)
             settling == Settling(ev, r, s, result, exhausted)
         IN /\ o \in Evals
            /\ o.inner[r].left = ev.inner[r].left \ {s}
            /\ o.inner[r].settled = (ev.inner[r].settled \/ settling)
            /\ \A q \in Requirements \ {r} : o.inner[q] = ev.inner[q]
            /\ o.left = IF settling THEN ev.left \ {r} ELSE ev.left
            /\ o.verdict = IF settling /\ Deciding(ev, r, result, exhausted)
                           THEN VerdictOf(result) ELSE ev.verdict
  <1> DEFINE ev1 == [ev EXCEPT !.inner[r].left = ev.inner[r].left \ {s}]
  <1>1. /\ ev1 \in Evals /\ ev1.left = ev.left /\ ev1.verdict = ev.verdict
        /\ ev1.inner[r].left = ev.inner[r].left \ {s}
        /\ ev1.inner[r].settled = ev.inner[r].settled
        /\ \A q \in Requirements \ {r} : ev1.inner[q] = ev.inner[q]
    BY DEF Evals
  <1>2. InnerDone(ev, r, s, result, exhausted) =
          IF result # "pass" \/ (exhausted /\ ev.inner[r].left \ {s} = {})
          THEN Settle(ev1, r, result, exhausted) ELSE ev1
    BY DEF InnerDone
  <1> HIDE DEF ev1
  <1>3. CASE result # "pass" \/ (exhausted /\ ev.inner[r].left \ {s} = {})
    <2> DEFINE o == Settle(ev1, r, result, exhausted)
    <2>1. /\ o \in Evals
          /\ o.inner = [ev1.inner EXCEPT ![r].settled = TRUE]
          /\ o.left = IF ev1.inner[r].settled THEN ev1.left ELSE ev1.left \ {r}
          /\ o.verdict = IF ~ev1.inner[r].settled /\ Deciding(ev1, r, result, exhausted)
                         THEN VerdictOf(result) ELSE ev1.verdict
      BY <1>1, SettleFacts
    <2>2. InnerDone(ev, r, s, result, exhausted) = o
      BY <1>2, <1>3
    <2>3. Settling(ev, r, s, result, exhausted) = ~ev.inner[r].settled
      BY <1>3 DEF Settling, Evals
    <2>4. Deciding(ev1, r, result, exhausted) = Deciding(ev, r, result, exhausted)
      BY <1>1 DEF Deciding
    <2>5. ev1.inner \in [Requirements -> [left: SUBSET Schemes, settled: BOOLEAN]]
          /\ ev.inner[r].settled \in BOOLEAN
      BY <1>1 DEF Evals
    <2> HIDE DEF o
    <2>6. /\ o.inner[r].left = ev.inner[r].left \ {s} /\ o.inner[r].settled = TRUE
          /\ \A q \in Requirements \ {r} : o.inner[q] = ev.inner[q]
      BY <1>1, <2>1, <2>5
    <2>7. TRUE = (ev.inner[r].settled \/ Settling(ev, r, s, result, exhausted))
      BY <2>3, <2>5
    <2> QED
      BY <1>1, <2>1, <2>2, <2>3, <2>4, <2>6, <2>7
  <1>4. CASE ~(result # "pass" \/ (exhausted /\ ev.inner[r].left \ {s} = {}))
    <2>1. Settling(ev, r, s, result, exhausted) = FALSE
      BY <1>4 DEF Settling
    <2>2. ev.inner[r].settled \in BOOLEAN
      BY DEF Evals
    <2> QED
      BY <1>1, <1>2, <1>4, <2>1, <2>2
  <1> QED
    BY <1>3, <1>4

-----------------------------------------------------------------------------
(* Types of a login. *)

LEMMA EndLoginTypes ==
  ASSUME BasicTypeOK, NEW e \in Evaluations, NEW error \in LoginErrors \cup {None},
         EndLogin(e, error), UNCHANGED <<authorization, bound>>
  PROVE  BasicTypeOK'
  BY DEF BasicTypeOK, EndLogin

LEMMA GotoTypes ==
  ASSUME BasicTypeOK, NEW e \in Evaluations, NEW step \in WaitingSteps,
         Goto(e, step), client' \in [Evaluations -> {"none", "open", "unbound"}],
         UNCHANGED authorization, bound' \in [Evaluations -> SUBSET {"admin", "user"}]
  PROVE  BasicTypeOK'
  BY DEF BasicTypeOK, Goto

LEMMA ConnectTypes ==
  ASSUME BasicTypeOK, NEW e \in Evaluations, NEW def, Connect(e, def),
         UNCHANGED <<authorization, bound>>
  PROVE  BasicTypeOK'
  <1>1. CASE def.authMethod = "odd"
    BY <1>1, EndLoginTypes DEF Connect, LoginErrors
  <1>2. CASE def.authMethod # "odd"
    <2>1. PICK step \in WaitingSteps : Goto(e, step)
      BY <1>2 DEF Connect, WaitingSteps, LdapSteps
    <2>2. client' \in [Evaluations -> {"none", "open", "unbound"}]
      BY <1>2 DEF Connect, BasicTypeOK
    <2>3. bound' \in [Evaluations -> SUBSET {"admin", "user"}]
      BY DEF BasicTypeOK
    <2> QED
      BY <2>1, <2>2, <2>3, GotoTypes
  <1> QED
    BY <1>1, <1>2

LEMMA BindOrSearchTypes ==
  ASSUME BasicTypeOK, NEW e \in Evaluations, NEW def,
         BindAccepted(e, def) \/ SearchEnded(e, def)
  PROVE  BasicTypeOK'
  <1>1. bound' \in [Evaluations -> SUBSET {"admin", "user"}]
    <2>1. CASE BindAccepted(e, def)
      BY <2>1 DEF BindAccepted, BindAs, BasicTypeOK
    <2>2. CASE SearchEnded(e, def)
      BY <2>2 DEF SearchEnded, BasicTypeOK
    <2> QED
      BY <2>1, <2>2
  <1> DEFINE Nexts == {"done", "failed", "search", "bindUser", "bindGroup", "searchGroup"}
  <1>2. PICK next \in Nexts : Proceed(e, next)
    BY DEF BindAccepted, SearchEnded, Bound, Found, Authorize
  <1>3. UNCHANGED authorization
    BY DEF BindAccepted, SearchEnded
  <1>4. CASE next \in {"done", "failed"}
    BY <1>1, <1>2, <1>3, <1>4 DEF Proceed, EndLogin, BasicTypeOK, LoginErrors
  <1>5. CASE next \notin {"done", "failed"}
    <2>1. Goto(e, next) /\ UNCHANGED client
      BY <1>2, <1>5 DEF Proceed
    <2>2. next \in WaitingSteps
      BY <1>5 DEF WaitingSteps, LdapSteps
    <2> QED
      BY <1>1, <1>3, <2>1, <2>2, GotoTypes DEF BasicTypeOK
  <1> QED
    BY <1>4, <1>5

LEMMA LoginStepTypes ==
  ASSUME BasicTypeOK, NEW e \in Evaluations, NEW def, LoginStep(e, def)
  PROVE  BasicTypeOK'
  <1> USE DEF LoginErrors
  <1>1. CASE HttpAnswered(e)
    BY <1>1, EndLoginTypes DEF HttpAnswered
  <1>2. CASE TlsProfileFound(e)
    BY <1>2 DEF TlsProfileFound, Goto, WaitingSteps, BasicTypeOK
  <1>3. CASE RegistryFound(e, def)
    <2>1. CASE EndLogin(e, 500)
      BY <1>3, <2>1, EndLoginTypes DEF RegistryFound
    <2>2. CASE Connect(e, def)
      BY <1>3, <2>2, ConnectTypes DEF RegistryFound
    <2>3. CASE Goto(e, "registryTls") /\ UNCHANGED client
      BY <1>3, <2>3, GotoTypes DEF RegistryFound, WaitingSteps, BasicTypeOK
    <2> QED
      BY <1>3, <2>1, <2>2, <2>3 DEF RegistryFound
  <1>4. CASE RegistryTlsFound(e, def)
    BY <1>4, EndLoginTypes, ConnectTypes DEF RegistryTlsFound
  <1>5. CASE GroupSearchEnded(e)
    BY <1>5, EndLoginTypes DEF GroupSearchEnded
  <1>6. CASE LdapRefused(e)
    BY <1>6, EndLoginTypes DEF LdapRefused
  <1> QED
    BY <1>1, <1>2, <1>3, <1>4, <1>5, <1>6, BindOrSearchTypes DEF LoginStep

LEMMA FirstLoginTypes ==
  ASSUME NEW def \in BasicDefs
  PROVE  FirstLogin(def) \in [step: WaitingSteps \cup {"idle", "done"},
                              error: LoginErrors \cup {None}]
  BY DEF FirstLogin, BasicDefs, WaitingSteps, LoginErrors

-----------------------------------------------------------------------------
(* Types of the loops. *)

MatchesType == Seq([api: Candidates, secret: Secrets \cup {None}])

OutcomeType == [Evaluations -> {"none", "pending", "pass", "fail", "missing"}]

LEMMA EvaluationFacts ==
  ASSUME NEW e \in Evaluations
  PROVE  /\ e[1] \in Candidates /\ e[2] \in Requirements /\ e[3] \in Schemes
         /\ e = <<e[1], e[2], e[3]>>
  BY DEF Evaluations, Schemes

LEMMA ConcludeTypes ==
  ASSUME TypeOK, NEW c \in Candidates, NEW ev \in Evals, Conclude(c, ev),
         clientSecret' \in [Candidates -> Secrets \cup {None}]
  PROVE  evals' \in [Candidates -> Evals] /\ matches' \in MatchesType
  <1>1. evals' \in [Candidates -> Evals]
    BY DEF Conclude, TypeOK
  <1>2. matches \in MatchesType
    BY DEF TypeOK, MatchesType
  <1> DEFINE m == [api |-> c, secret |-> clientSecret'[c]]
  <1>3. m \in [api: Candidates, secret: Secrets \cup {None}]
    OBVIOUS
  <1>4. matches' = Append(matches, m) \/ matches' = matches
    BY DEF Conclude
  <1> DEFINE M == [api: Candidates, secret: Secrets \cup {None}]
  <1>5. m \in M /\ matches \in Seq(M)
    BY <1>2, <1>3 DEF MatchesType
  <1> HIDE DEF m, M
  <1>6. matches' \in Seq(M)
    BY <1>4, <1>5
  <1> QED
    BY <1>1, <1>6 DEF MatchesType, M

LEMMA ReportTypes ==
  ASSUME TypeOK, NEW e \in Evaluations, NEW ev \in Evals, NEW result \in Results,
         NEW exhausted \in BOOLEAN, Report(e, ev, result, exhausted),
         clientSecret' \in [Candidates -> Secrets \cup {None}]
  PROVE  /\ evals' \in [Candidates -> Evals] /\ matches' \in MatchesType
         /\ outcome' \in OutcomeType
  <1>1. outcome' \in OutcomeType
    BY DEF Report, TypeOK, OutcomeType, Results
  <1> DEFINE o == InnerDone(ev, e[2], e[3], result, exhausted)
  <1>2. o \in Evals
    BY InnerDoneFacts, EvaluationFacts
  <1>3. Conclude(e[1], o)
    BY DEF Report
  <1> HIDE DEF o
  <1> QED
    BY <1>1, <1>2, <1>3, ConcludeTypes, EvaluationFacts

\* What holds at a scheme the loops have come to.
LEMMA AtSchemeFacts ==
  ASSUME TypeOK, LoopFits, NEW e \in Evaluations, NEW type, AtScheme(e, type)
  PROVE  /\ begun \in DOMAIN apis /\ ~NothingRequired(apis[begun])
         /\ begun = e[1] /\ loop.req = e[2] /\ loop.sch = e[3]
         /\ e[2] \in DOMAIN apis[begun].reqs
         /\ e[3] \in DOMAIN apis[begun].reqs[e[2]]
         /\ Def(e) \in SchemeDefs /\ Def(e).type = type
         /\ loop' = [req |-> e[2], sch |-> e[3] + 1]
         /\ loop' \in Places /\ loop.req # 0 /\ loop'.req # 0
         /\ Started(e) \in Evals
         /\ LoopFits'
  <1>1. /\ e[1] \in Candidates /\ e[2] \in Requirements /\ e[3] \in Schemes
        /\ e = <<begun, loop.req, loop.sch>>
    BY EvaluationFacts DEF AtScheme, Stands
  <1>2. /\ begun = e[1] /\ loop.req = e[2] /\ loop.sch = e[3]
        /\ e[2] <= Len(apis[begun].reqs) /\ e[3] <= Len(apis[begun].reqs[e[2]])
        /\ Def(e).type = type
    BY <1>1 DEF AtScheme, Stands
  <1>3. /\ loop \in Places /\ loop \in [req: Nat, sch: Nat]
        /\ loop.req # 0
    BY BoundsAssumption DEF TypeOK, AtScheme, Stands, Running, Places
  <1>4. begun \in DOMAIN apis /\ ~NothingRequired(apis[begun])
    BY <1>3 DEF LoopFits
  <1>5. e[2] \in DOMAIN apis[begun].reqs
    BY <1>1, <1>2, <1>4, ListFacts DEF Requirements
  <1>6. e[3] \in DOMAIN apis[begun].reqs[e[2]] /\ Len(apis[begun].reqs[e[2]]) \in Nat
    BY <1>1, <1>2, <1>4, <1>5, ListFacts DEF Schemes
  <1>7. Def(e) \in SchemeDefs
    BY <1>2, <1>4, <1>5, <1>6, ListFacts DEF Def
  <1>8. loop' = [req |-> e[2], sch |-> e[3] + 1]
    BY <1>2, <1>3 DEF AtScheme, Stands
  <1>9. loop' \in Places
    BY <1>1, <1>8, ListFacts DEF Requirements, Schemes, Places
  <1>10. evals[e[1]] \in Evals
    BY <1>1 DEF TypeOK
  <1>11. Started(e) \in Evals
    <2> DEFINE ev == evals[e[1]]
               left == ev.inner[e[2]].left \cup {e[3]}
    <2>1. ev \in Evals /\ left \in SUBSET Schemes
      BY <1>1, <1>10 DEF Evals
    <2>2. Started(e) = [ev EXCEPT !.inner[e[2]].left = left]
      BY DEF Started
    <2> HIDE DEF ev, left
    <2> DEFINE Inner == [left: SUBSET Schemes, settled: BOOLEAN]
               mine == [ev.inner[e[2]] EXCEPT !.left = left]
               inner == [ev.inner EXCEPT ![e[2]] = mine]
    <2>3. ev.inner \in [Requirements -> Inner] /\ ev.inner[e[2]] \in Inner
      BY <1>1, <2>1 DEF Evals
    <2>4. mine \in Inner
      BY <2>1, <2>3
    <2>5. Started(e) = [ev EXCEPT !.inner = inner]
      BY <1>1, <2>2, <2>3
    <2> HIDE DEF Inner, mine
    <2>6. inner \in [Requirements -> Inner]
      BY <2>3, <2>4
    <2> HIDE DEF inner
    <2> QED
      BY <2>1, <2>5, <2>6 DEF Evals, Inner
  <1>12. LoopFits'
    <2>1. apis' = apis /\ begun' = begun
      BY DEF AtScheme, Stands, inputs
    <2>2. Len(apis[begun].reqs) \in Nat /\ e[2] # Len(apis[begun].reqs) + 1
      BY <1>1, <1>2, <1>4, ListFacts DEF Requirements
    <2>3. e[2] # 0 /\ e[2] \in Nat /\ e[3] \in Nat
      BY <1>1 DEF Requirements, Schemes
    <2>4. loop'.req = e[2] /\ loop'.sch = e[3] + 1
      BY <1>8
    <2>5. /\ e[2] <= Len(apis[begun].reqs) + 1
          /\ e[3] + 1 <= Len(apis[begun].reqs[e[2]]) + 1
      <3> DEFINE m == Len(apis[begun].reqs)
                 n == Len(apis[begun].reqs[e[2]])
      <3>1. m \in Nat /\ n \in Nat /\ e[2] <= m /\ e[3] <= n
        BY <1>2, <1>6, <2>2
      <3> HIDE DEF m, n
      <3>2. e[2] <= m + 1 /\ e[3] + 1 <= n + 1
        BY <3>1, <2>3
      <3> QED
        BY <3>2 DEF m, n
    <2>6. begun' \in DOMAIN apis' /\ ~NothingRequired(apis[begun])'
      BY <1>4, <2>1 DEF NothingRequired
    <2> QED
      BY <2>1, <2>2, <2>3, <2>4, <2>5, <2>6 DEF LoopFits
  <1>13. loop'.req # 0
    BY <1>1, <1>8 DEF Requirements
  <1> QED
    BY <1>2, <1>3, <1>4, <1>5, <1>6, <1>7, <1>8, <1>9, <1>11, <1>12, <1>13

LEMMA SmallestExists ==
  ASSUME NEW T, T \subseteq Nat, T # {}
  PROVE  \E i \in T : \A j \in T : i <= j
  <1>1. PICK i \in T : \A j \in T : <<j, i>> \notin OpToRel(<, Nat)
    BY WFMin, NatLessThanWellFounded, Zenon
  <1>2. \A j \in T : ~(j < i)
    BY <1>1, Zenon DEF OpToRel
  <1> QED
    BY <1>2

\* The champion is a match, and one of the plan of the request if there is a choice.
LEMMA ChampionFacts ==
  ASSUME TypeOK, matches # <<>>
  PROVE  /\ Champion \in DOMAIN matches
         /\ matches[Champion].api \in Candidates
         /\ Len(matches) > 1 /\ OfPlan # {} => Champion \in OfPlan
         /\ DOMAIN matches = 1..Len(matches) /\ Len(matches) \in Nat
  <1> DEFINE M == [api: Candidates, secret: Secrets \cup {None}]
  <1>1. matches \in Seq(M)
    BY DEF TypeOK
  <1>2. \A m \in M : m.api \in Candidates
    OBVIOUS
  <1> HIDE DEF M
  <1>3. /\ DOMAIN matches = 1..Len(matches) /\ Len(matches) \in Nat /\ 1 \in DOMAIN matches
        /\ \A i \in DOMAIN matches : matches[i] \in M
    BY <1>1
  <1>4. OfPlan \subseteq DOMAIN matches /\ OfPlan \subseteq Nat
    BY <1>3 DEF OfPlan
  <1>5. ASSUME OfPlan # {}
        PROVE  (CHOOSE i \in OfPlan : \A j \in OfPlan : i <= j) \in OfPlan
    BY <1>4, <1>5, SmallestExists
  <1>6. Champion \in DOMAIN matches /\ (Len(matches) > 1 /\ OfPlan # {} => Champion \in OfPlan)
    BY <1>3, <1>4, <1>5 DEF Champion
  <1> QED
    BY <1>2, <1>3, <1>6

-----------------------------------------------------------------------------
LEMMA ChooseTypes ==
  ASSUME TypeOK, Choose
  PROVE  status' \in Statuses \cup {None}
         /\ answer' \in {None} \cup [next: Candidates] \cup [error: Statuses]
  <1> DEFINE champion == apis[matches[Champion].api]
  <1> HIDE DEF champion
  <1>1. CASE matches = <<>>
    <2>1. status' = (IF status = None THEN 401 ELSE status) /\ answer' = [error |-> status']
      BY <1>1 DEF Choose
    <2>2. status \in Statuses \cup {None}
      BY DEF TypeOK
    <2>3. status' \in Statuses
      BY <2>1, <2>2 DEF Statuses
    <2> QED
      BY <2>1, <2>3
  <1>2. CASE matches # <<>>
    <2>1. \/ status' = 401 /\ answer' = [error |-> 401]
          \/ status' = 503 /\ answer' = [error |-> 503]
          \/ answer' = [next |-> matches[Champion].api] /\ status' = status
      BY <1>2 DEF Choose
    <2>2. matches[Champion].api \in Candidates /\ status \in Statuses \cup {None}
      BY <1>2, ChampionFacts DEF TypeOK
    <2> QED
      BY <2>1, <2>2 DEF Statuses
  <1> QED
    BY <1>1, <1>2

\* BeginMissing, BeginApiKey, BeginBasic and BeginOauth2.
BeginScheme(e) == BeginMissing(e) \/ BeginApiKey(e) \/ BeginBasic(e) \/ BeginOauth2(e)

\* A scheme answers in the turn that starts it, or waits.
LEMMA BeginSchemeFacts ==
  ASSUME TypeOK, LoopFits, NEW e \in Evaluations, BeginScheme(e)
  PROVE  /\ \E type : AtScheme(e, type)
         /\ BasicTypeOK' /\ OauthTypeOK' /\ status' \in Statuses \cup {None}
         /\ clientSecret' \in [Candidates -> Secrets \cup {None}]
         /\ Wait(e) \/ \E result \in Results : Report(e, Started(e), result, FALSE)
  <1>0. BasicTypeOK /\ OauthTypeOK /\ status \in Statuses \cup {None}
        /\ clientSecret \in [Candidates -> Secrets \cup {None}]
    BY DEF TypeOK
  <1>1. CASE BeginMissing(e)
    BY <1>0, <1>1 DEF BeginMissing, Results, basicVars, oauthVars, BasicTypeOK, OauthTypeOK
  <1>2. CASE BeginApiKey(e)
    <2>1. AtScheme(e, "apiKey")
      BY <1>2 DEF BeginApiKey
    <2>2. begun \in DOMAIN apis /\ begun = e[1] /\ begun \in Candidates
      BY <2>1, AtSchemeFacts, ListFacts
    <2>3. SecretOf(e) \in Secrets \cup {None}
      <3>1. apis[begun].app \in Apps \cup {None}
        BY <2>2, ListFacts DEF Api
      <3> QED
        BY <2>2, <3>1 DEF SecretOf, Secrets
    <2>4. clientSecret' \in [Candidates -> Secrets \cup {None}]
      BY <1>0, <1>2, <2>2, <2>3 DEF BeginApiKey
    <2>5. \E result \in Results : Report(e, Started(e), result, FALSE)
      BY <1>2 DEF BeginApiKey, Results
    <2> QED
      BY <1>0, <1>2, <2>1, <2>4, <2>5
      DEF BeginApiKey, basicVars, oauthVars, BasicTypeOK, OauthTypeOK
  <1>3. CASE BeginBasic(e)
    <2>1. AtScheme(e, "basic")
      BY <1>3 DEF BeginBasic
    <2>2. Def(e) \in BasicDefs
      BY <2>1, AtSchemeFacts DEF SchemeDefs, BasicDefs, ApiKeyDefs, OauthDefs, Missing
    <2>3. BasicTypeOK'
      BY <1>0, <1>3, <2>2, FirstLoginTypes DEF BeginBasic, BeginLogin, BasicTypeOK
    <2>4. status' \in Statuses \cup {None}
      <3>1. status' = 401 \/ status' = status
        BY <1>3 DEF BeginBasic, BasicStatus
      <3> QED
        BY <1>0, <3>1 DEF Statuses
    <2> QED
      BY <1>0, <1>3, <2>1, <2>3, <2>4 DEF BeginBasic, Results, oauthVars, OauthTypeOK
  <1>4. CASE BeginOauth2(e)
    <2>1. AtScheme(e, "oauth2")
      BY <1>4 DEF BeginOauth2
    <2>2. OauthTypeOK'
      BY <1>0, <1>4 DEF BeginOauth2, BeginValidation, OauthTypeOK
    <2>3. RefusedAtOnce \in Statuses \cup {None}
      BY DEF RefusedAtOnce, Statuses
    <2>4. status' \in Statuses \cup {None}
      BY <1>0, <1>4, <2>3 DEF BeginOauth2
    <2>5. Wait(e) \/ \E result \in Results : Report(e, Started(e), result, FALSE)
      BY <1>4 DEF BeginOauth2, Results
    <2> QED
      BY <1>0, <1>4, <2>1, <2>2, <2>4, <2>5 DEF BeginOauth2, basicVars, BasicTypeOK
  <1> QED
    BY <1>1, <1>2, <1>3, <1>4 DEF BeginScheme

\* An answer of another turn: nothing of the schemes changes, or e reports.
LEMMA AnsweredFacts ==
  ASSUME TypeOK, NEW e \in Evaluations, BasicAnswered(e) \/ OauthAnswered(e)
  PROVE  /\ Ready /\ outcome[e] = "pending"
         /\ UNCHANGED <<apis, keys, planId, begun, loop, broken, clientSecret, crashed,
                        answer>>
         /\ BasicTypeOK' /\ OauthTypeOK' /\ status' \in Statuses \cup {None}
         /\ \/ UNCHANGED <<outcome, evals, matches>>
            \/ \E result \in {"pass", "fail"} : Report(e, evals[e[1]], result, TRUE)
  <1>0. BasicTypeOK /\ OauthTypeOK /\ status \in Statuses \cup {None}
    BY DEF TypeOK
  <1>1. CASE BasicAnswered(e)
    <2>1. BasicTypeOK'
      BY <1>0, <1>1, LoginStepTypes DEF BasicAnswered
    <2>2. OauthTypeOK' /\ status' \in Statuses \cup {None}
      <3>1. status' = 401 \/ status' = status
        BY <1>1 DEF BasicAnswered, BasicStatus
      <3>2. UNCHANGED <<bearer, listed, lookup, oauth>>
        BY <1>1 DEF BasicAnswered, inputs
      <3> QED
        BY <1>0, <3>1, <3>2 DEF Statuses, OauthTypeOK
    <2>3. \/ UNCHANGED <<outcome, evals, matches>>
          \/ \E result \in {"pass", "fail"} : Report(e, evals[e[1]], result, TRUE)
      BY <1>1 DEF BasicAnswered
    <2> QED
      BY <1>1, <2>1, <2>2, <2>3 DEF BasicAnswered, inputs
  <1>2. CASE OauthAnswered(e)
    <2>1. OauthTypeOK'
      <3>1. CASE TokenFound(e, RequiredScopes(e))
        BY <1>0, <3>1 DEF TokenFound, OauthTypeOK
      <3>2. CASE LookupFailed(e)
        BY <1>0, <3>2 DEF LookupFailed, OauthTypeOK
      <3> QED
        BY <1>2, <3>1, <3>2 DEF OauthAnswered
    <2>2. BasicTypeOK' /\ status' \in Statuses \cup {None}
      <3>1. status' \in {status, 401, 403, 500}
        BY <1>2 DEF OauthAnswered, RefusedRecord
      <3>2. UNCHANGED <<authorization, login, client, bound>>
        BY <1>2 DEF OauthAnswered, inputs
      <3> QED
        BY <1>0, <3>1, <3>2 DEF Statuses, BasicTypeOK
    <2>3. \E result \in {"pass", "fail"} : Report(e, evals[e[1]], result, TRUE)
      BY <1>2 DEF OauthAnswered
    <2> QED
      BY <1>2, <2>1, <2>2, <2>3 DEF OauthAnswered, inputs
  <1> QED
    BY <1>1, <1>2

LEMMA InitTypes == Init => TypeOK /\ LoopFits
  <1> SUFFICES ASSUME Init PROVE TypeOK /\ LoopFits
    OBVIOUS
  <1>1. BasicTypeOK /\ OauthTypeOK
    BY DEF Init, BasicInit, OauthInit, BasicTypeOK, OauthTypeOK
  <1>2. begun \in 0..Len(apis)
    <2>1. apis \in Seq(Api)
      BY CandidatesAssumption DEF Init
    <2> QED
      BY <2>1 DEF Init
  <1>3. loop \in Places /\ broken \in [Candidates -> Places] /\ LoopFits
    BY BoundsAssumption DEF Init, Idle, LoopFits, Places
  <1>4. evals \in [Candidates -> Evals]
    <2> DEFINE ev == [inner |-> [r \in Requirements |-> [left |-> {}, settled |-> FALSE]],
                      left |-> {}, verdict |-> "open"]
    <2>1. ev \in Evals
      BY DEF Evals
    <2>2. evals = [c \in Candidates |-> ev]
      BY DEF Init
    <2> HIDE DEF ev
    <2> QED
      BY <2>1, <2>2
  <1>5. matches \in Seq([api: Candidates, secret: Secrets \cup {None}])
    BY DEF Init
  <1> QED
    BY <1>1, <1>2, <1>3, <1>4, <1>5 DEF Init, TypeOK

\* The steps of the loops between the schemes.
LEMMA LoopFacts ==
  ASSUME TypeOK, LoopFits, Running
  PROVE  /\ begun \in DOMAIN apis /\ ~NothingRequired(apis[begun])
         /\ begun \in Candidates /\ evals[begun] \in Evals
         /\ Len(apis[begun].reqs) \in Nat /\ Len(apis[begun].reqs) <= MaxRequirements
         /\ loop.req \in 1..(Len(apis[begun].reqs) + 1)
         /\ loop.sch \in Nat
         /\ loop.req <= Len(apis[begun].reqs) =>
              /\ loop.req \in DOMAIN apis[begun].reqs /\ loop.req \in Requirements
              /\ Len(apis[begun].reqs[loop.req]) \in Nat
              /\ loop.sch <= Len(apis[begun].reqs[loop.req]) + 1
  <1>1. /\ loop \in [req: 0..(MaxRequirements + 1), sch: 0..(MaxSchemes + 1)]
        /\ loop.req # 0 /\ MaxRequirements \in Nat /\ MaxSchemes \in Nat
    BY BoundsAssumption DEF TypeOK, Running, Places
  <1>2. begun \in DOMAIN apis /\ ~NothingRequired(apis[begun])
        /\ loop.req <= Len(apis[begun].reqs) + 1
    BY <1>1 DEF LoopFits
  <1>3. /\ begun \in Candidates /\ evals[begun] \in Evals
    BY <1>2, ListFacts DEF TypeOK
  <1>4. /\ Len(apis[begun].reqs) \in Nat /\ Len(apis[begun].reqs) <= MaxRequirements
        /\ DOMAIN apis[begun].reqs = 1..Len(apis[begun].reqs)
        /\ \A r \in DOMAIN apis[begun].reqs : Len(apis[begun].reqs[r]) \in Nat
    BY <1>2, ListFacts
  <1>5. /\ loop.req \in Nat /\ loop.sch \in Nat
        /\ loop.req \in 1..(Len(apis[begun].reqs) + 1)
    <2>1. loop.req \in Nat /\ loop.sch \in Nat
      BY <1>1
    <2> QED
      BY <1>1, <1>2, <1>4, <2>1
  <1>6. ASSUME loop.req <= Len(apis[begun].reqs)
        PROVE  /\ loop.req \in DOMAIN apis[begun].reqs /\ loop.req \in Requirements
               /\ loop.sch <= Len(apis[begun].reqs[loop.req]) + 1
    <2>1. loop.req # Len(apis[begun].reqs) + 1
      BY <1>4, <1>5, <1>6
    <2>2. loop.sch <= Len(apis[begun].reqs[loop.req]) + 1
      BY <1>1, <2>1 DEF LoopFits
    <2>3. loop.req \in DOMAIN apis[begun].reqs
      BY <1>4, <1>5, <1>6
    <2> QED
      BY <2>2, <2>3, <1>2, ListFacts
  <1> QED
    BY <1>1, <1>2, <1>3, <1>4, <1>5, <1>6

LEMMA TypesKept ==
  ASSUME TypeOK,
         UNCHANGED <<apis, keys, planId, begun, loop, evals, broken, outcome, clientSecret,
                     matches, answer>>,
         BasicTypeOK', OauthTypeOK', status' \in Statuses \cup {None}, crashed' \in BOOLEAN
  PROVE  TypeOK'
  BY DEF TypeOK

LEMMA OthersKept ==
  ASSUME TypeOK, UNCHANGED <<inputs, basicVars, oauthVars, status, crashed, answer>>
  PROVE  /\ BasicTypeOK' /\ OauthTypeOK' /\ status' \in Statuses \cup {None}
         /\ apis' = apis /\ apis' \in CandidateLists /\ keys' \in Keys
         /\ planId' \in Plans \cup {None} /\ crashed' \in BOOLEAN
         /\ answer' \in {None} \cup [next: Candidates] \cup [error: Statuses]
  BY DEF TypeOK, inputs, basicVars, oauthVars, BasicTypeOK, OauthTypeOK

\* What remains of the type invariant where the loops move.
LEMMA LoopTypes ==
  ASSUME TypeOK, UNCHANGED <<inputs, basicVars, oauthVars, status, crashed, answer>>,
         begun' \in 0..Len(apis),
         loop' \in Places, broken' \in [Candidates -> Places],
         evals' \in [Candidates -> Evals], outcome' = outcome,
         clientSecret' \in [Candidates -> Secrets \cup {None}],
         matches' \in MatchesType
  PROVE  TypeOK'
  <1>1. outcome' \in OutcomeType
    BY DEF TypeOK, OutcomeType
  <1> QED
    BY <1>1, OthersKept DEF TypeOK, MatchesType, OutcomeType

LEMMA BeginCandidateTypes ==
  ASSUME TypeOK, LoopFits, BeginCandidate
  PROVE  /\ TypeOK' /\ LoopFits'
         /\ begun' = begun + 1 /\ begun' \in DOMAIN apis /\ begun' \in Candidates
         /\ IF NothingRequired(apis[begun'])
            THEN loop' = loop ELSE loop' = [req |-> 1, sch |-> 0]
  <1>1. /\ begun' = begun + 1 /\ begun < Len(apis) /\ loop = Idle
        /\ clientSecret' = clientSecret /\ outcome' = outcome /\ broken' = broken
        /\ UNCHANGED <<inputs, basicVars, oauthVars, status, crashed, answer>>
    BY DEF BeginCandidate, Ready, inputs, basicVars, oauthVars
  <1>2. begun' \in 0..Len(apis) /\ begun' \in DOMAIN apis /\ begun' \in Candidates
    BY <1>1, ListFacts
  <1>3. clientSecret' \in [Candidates -> Secrets \cup {None}]
    BY <1>1 DEF TypeOK
  <1>4. /\ Len(apis[begun'].reqs) \in Nat
        /\ apis[begun'].reqs # <<>> => Len(apis[begun'].reqs) # 0
    <2>1. apis[begun'].reqs \in Seq(Seq(SchemeDefs))
      BY <1>2, ListFacts DEF Api
    <2> QED
      BY <2>1
  <1>5. CASE NothingRequired(apis[begun'])
    <2> DEFINE ev == [evals[begun'] EXCEPT !.verdict = "passed"]
    <2>1. ev \in Evals
      BY <1>2, ZenonT(60) DEF TypeOK, Evals
    <2>2. Conclude(begun', ev) /\ loop' = loop
      BY <1>5 DEF BeginCandidate, NothingRequired
    <2> HIDE DEF ev
    <2>3. evals' \in [Candidates -> Evals] /\ matches' \in MatchesType
      <3>1. PICK c \in Candidates : c = begun'
        BY <1>2
      <3>2. Conclude(c, ev)
        BY <2>2, <3>1 DEF Conclude
      <3> QED
        BY <1>3, <2>1, <3>2, ConcludeTypes
    <2>4. TypeOK'
      BY <1>1, <1>2, <1>3, <2>2, <2>3, LoopTypes DEF TypeOK
    <2>5. LoopFits'
      BY <1>1, <2>2 DEF LoopFits, Idle
    <2> QED
      BY <1>1, <1>2, <1>5, <2>2, <2>4, <2>5
  <1>6. CASE ~NothingRequired(apis[begun'])
    <2>1. loop' = [req |-> 1, sch |-> 0] /\ evals' = evals /\ matches' = matches
      BY <1>6 DEF BeginCandidate, NothingRequired
    <2>2. TypeOK'
      <3>1. loop' \in Places
        BY <2>1, <1>2, ListFacts DEF Places
      <3> QED
        BY <1>1, <1>2, <1>3, <2>1, <3>1, LoopTypes DEF TypeOK, MatchesType
    <2>3. LoopFits'
      <3>1. apis' = apis
        BY <1>1 DEF inputs
      <3>2. Len(apis[begun'].reqs) # 0
        BY <1>4, <1>6 DEF NothingRequired
      <3>3. /\ Len(apis[begun'].reqs) + 1 # 1 /\ 1 <= Len(apis[begun'].reqs) + 1
        BY <1>4, <3>2
      <3>4. 1 \in DOMAIN apis[begun'].reqs
        BY <1>2, <1>4, <3>2, ListFacts
      <3>5. Len(apis[begun'].reqs[1]) \in Nat
        BY <1>2, <3>4, ListFacts
      <3>6. begun' \in DOMAIN apis' /\ ~NothingRequired(apis[begun])'
        BY <1>2, <1>6, <3>1 DEF NothingRequired
      <3>7. 0 <= Len(apis[begun'].reqs[1]) + 1
        BY <3>5
      <3>8. loop'.req = 1 /\ loop'.sch = 0
        BY <2>1
      <3> QED
        BY <3>1, <3>3, <3>6, <3>7, <3>8 DEF LoopFits
    <2> QED
      BY <1>1, <1>2, <1>6, <2>1, <2>2, <2>3
  <1> QED
    BY <1>5, <1>6

LEMMA BeginRequirementTypes ==
  ASSUME TypeOK, LoopFits, BeginRequirement
  PROVE  TypeOK' /\ LoopFits'
  <1>1. /\ begun \in DOMAIN apis /\ begun \in Candidates /\ evals[begun] \in Evals
        /\ loop.req \in DOMAIN apis[begun].reqs /\ loop.req \in Requirements
        /\ Len(apis[begun].reqs) \in Nat /\ loop.req <= Len(apis[begun].reqs)
        /\ Len(apis[begun].reqs[loop.req]) \in Nat /\ loop.req # 0 /\ loop.req \in Nat
        /\ ~NothingRequired(apis[begun])
    BY LoopFacts DEF BeginRequirement, Running
  <1>2. /\ UNCHANGED <<inputs, basicVars, oauthVars, status, crashed, answer>>
        /\ begun' = begun /\ outcome' = outcome /\ matches' = matches /\ apis' = apis
        /\ broken' = broken /\ broken \in [Candidates -> Places]
    BY DEF BeginRequirement, inputs, TypeOK
  <1>3. /\ begun \in 0..Len(apis) /\ evals \in [Candidates -> Evals]
        /\ loop \in [req: 0..(MaxRequirements + 1), sch: 0..(MaxSchemes + 1)]
        /\ clientSecret \in [Candidates -> Secrets \cup {None}] /\ matches \in MatchesType
    BY DEF TypeOK, MatchesType, Places
  <1>4. /\ loop' = [loop EXCEPT !.sch = 1]
        /\ clientSecret' = [clientSecret EXCEPT ![begun] = None]
        /\ evals' = [evals EXCEPT ![begun].left = @ \cup {loop.req}]
    BY DEF BeginRequirement
  <1>5. loop' = [req |-> loop.req, sch |-> 1]
        /\ loop' \in Places
    BY <1>3, <1>4, BoundsAssumption DEF Places
  <1>6. clientSecret' \in [Candidates -> Secrets \cup {None}]
    BY <1>3, <1>4
  <1>7. evals' \in [Candidates -> Evals]
    <2> DEFINE ev == [evals[begun] EXCEPT !.left = @ \cup {loop.req}]
    <2>1. ev \in Evals
      BY <1>1 DEF Evals
    <2>2. evals' = [evals EXCEPT ![begun] = ev]
      BY <1>4
    <2> HIDE DEF ev
    <2> QED
      BY <1>3, <2>1, <2>2
  <1>8. TypeOK'
    BY <1>2, <1>3, <1>5, <1>6, <1>7, LoopTypes
  <1>9. LoopFits'
    <2>1. loop'.req = loop.req /\ loop'.sch = 1
      BY <1>5
    <2>2. begun' \in DOMAIN apis' /\ ~NothingRequired(apis[begun])'
      BY <1>1, <1>2 DEF NothingRequired
    <2>3. /\ loop.req # Len(apis[begun].reqs) + 1 /\ loop.req <= Len(apis[begun].reqs) + 1
          /\ 1 <= Len(apis[begun].reqs[loop.req]) + 1
      BY <1>1
    <2> QED
      BY <1>1, <1>2, <2>1, <2>2, <2>3 DEF LoopFits
  <1> QED
    BY <1>8, <1>9

LEMMA EndRequirementTypes ==
  ASSUME TypeOK, LoopFits, EndRequirement
  PROVE  /\ TypeOK' /\ LoopFits'
  <1>1. /\ begun \in DOMAIN apis /\ begun \in Candidates /\ evals[begun] \in Evals
        /\ loop.req \in DOMAIN apis[begun].reqs /\ loop.req \in Requirements
        /\ Len(apis[begun].reqs) \in Nat /\ loop.req <= Len(apis[begun].reqs)
        /\ Len(apis[begun].reqs) <= MaxRequirements
        /\ loop.req # 0 /\ loop.req \in Nat
        /\ ~NothingRequired(apis[begun])
    BY LoopFacts DEF EndRequirement, Running
  <1>2. /\ UNCHANGED <<inputs, basicVars, oauthVars, status, crashed, answer>>
        /\ begun' = begun /\ outcome' = outcome /\ apis' = apis
        /\ clientSecret' = clientSecret
        /\ loop' = [req |-> loop.req + 1, sch |-> 0]
        /\ broken' = broken /\ broken \in [Candidates -> Places]
    BY DEF EndRequirement, inputs, TypeOK
  <1>3. /\ begun \in 0..Len(apis) /\ clientSecret \in [Candidates -> Secrets \cup {None}]
    BY DEF TypeOK
  <1>4. loop' \in Places
    BY <1>1, <1>2, BoundsAssumption DEF Places
  <1>5. evals' \in [Candidates -> Evals] /\ matches' \in MatchesType
    <2> DEFINE ev == IF evals[begun].inner[loop.req].left = {}
                     THEN Settle(evals[begun], loop.req, "pass", FALSE)
                     ELSE evals[begun]
    <2>1. ev \in Evals
      BY <1>1, SettleFacts DEF Results
    <2>2. Conclude(begun, ev)
      BY DEF EndRequirement
    <2> HIDE DEF ev
    <2>3. clientSecret' \in [Candidates -> Secrets \cup {None}]
      BY <1>2, <1>3
    <2> QED
      BY <1>1, <2>1, <2>2, <2>3, ConcludeTypes
  <1>6. TypeOK'
    BY <1>2, <1>3, <1>4, <1>5, LoopTypes
  <1>7. LoopFits'
    <2>1. loop'.req = loop.req + 1 /\ loop'.sch = 0
      BY <1>2
    <2>2. begun' \in DOMAIN apis' /\ ~NothingRequired(apis[begun])'
      BY <1>1, <1>2 DEF NothingRequired
    <2>3. loop.req + 1 # 0 /\ loop.req + 1 <= Len(apis[begun].reqs) + 1
      BY <1>1
    <2>4. ASSUME loop.req + 1 # Len(apis[begun].reqs) + 1
          PROVE  0 <= Len(apis[begun].reqs[loop.req + 1]) + 1
      <3>1. loop.req + 1 \in DOMAIN apis[begun].reqs
        BY <1>1, <2>4, ListFacts
      <3>2. Len(apis[begun].reqs[loop.req + 1]) \in Nat
        BY <1>1, <3>1, ListFacts
      <3> QED
        BY <3>2
    <2> QED
      BY <1>2, <2>1, <2>2, <2>3, <2>4 DEF LoopFits
  <1> QED
    BY <1>6, <1>7

LEMMA EndRequirementsTypes ==
  ASSUME TypeOK, LoopFits, EndRequirements
  PROVE  TypeOK' /\ LoopFits'
  <1>1. begun \in DOMAIN apis /\ begun \in Candidates /\ evals[begun] \in Evals
    BY LoopFacts DEF EndRequirements
  <1>2. /\ UNCHANGED <<inputs, basicVars, oauthVars, status, crashed, answer>>
        /\ begun' = begun /\ outcome' = outcome /\ clientSecret' = clientSecret
        /\ loop' = Idle /\ broken' = broken /\ broken \in [Candidates -> Places]
    BY DEF EndRequirements, TypeOK
  <1>3. /\ begun \in 0..Len(apis) /\ clientSecret \in [Candidates -> Secrets \cup {None}]
    BY DEF TypeOK
  <1>4. loop' \in Places /\ LoopFits'
    BY <1>2, BoundsAssumption DEF Idle, LoopFits, Places
  <1>5. evals' \in [Candidates -> Evals] /\ matches' \in MatchesType
    <2> DEFINE ev == IF evals[begun].left = {} /\ evals[begun].verdict = "open"
                     THEN [evals[begun] EXCEPT !.verdict = "refused"]
                     ELSE evals[begun]
    <2>1. ev \in Evals
      BY <1>1 DEF Evals
    <2>2. Conclude(begun, ev)
      BY DEF EndRequirements
    <2> HIDE DEF ev
    <2>3. clientSecret' \in [Candidates -> Secrets \cup {None}]
      BY <1>2, <1>3
    <2> QED
      BY <1>1, <2>1, <2>2, <2>3, ConcludeTypes
  <1> QED
    BY <1>2, <1>3, <1>4, <1>5, LoopTypes

LEMMA BeginSchemeTypes ==
  ASSUME TypeOK, LoopFits, NEW e \in Evaluations, BeginScheme(e)
  PROVE  TypeOK' /\ LoopFits'
  <1>1. PICK type : AtScheme(e, type)
    BY BeginSchemeFacts
  <1>2. /\ LoopFits' /\ Started(e) \in Evals
        /\ loop' \in Places
    BY <1>1, AtSchemeFacts
  <1>3. /\ UNCHANGED <<apis, keys, planId, begun, broken, crashed, answer>>
    BY <1>1 DEF AtScheme, Stands, inputs
  <1>4. evals' \in [Candidates -> Evals] /\ matches' \in MatchesType /\ outcome' \in OutcomeType
    <2>1. CASE Wait(e)
      BY <1>2, <2>1 DEF Wait, TypeOK, MatchesType, OutcomeType
    <2>2. CASE \E result \in Results : Report(e, Started(e), result, FALSE)
      BY <1>2, <2>2, ReportTypes, BeginSchemeFacts
    <2> QED
      BY <2>1, <2>2, BeginSchemeFacts
  <1>5. TypeOK'
    BY <1>2, <1>3, <1>4, BeginSchemeFacts DEF TypeOK, MatchesType, OutcomeType
  <1> QED
    BY <1>2, <1>5

LEMMA AnsweredTypes ==
  ASSUME TypeOK, LoopFits, NEW e \in Evaluations, BasicAnswered(e) \/ OauthAnswered(e)
  PROVE  TypeOK' /\ LoopFits'
  <1>1. UNCHANGED <<apis, keys, planId, begun, loop, broken, clientSecret, crashed, answer>>
    BY AnsweredFacts
  <1>2. evals' \in [Candidates -> Evals] /\ matches' \in MatchesType /\ outcome' \in OutcomeType
    <2>1. CASE UNCHANGED <<outcome, evals, matches>>
      BY <2>1 DEF TypeOK, MatchesType, OutcomeType
    <2>2. CASE \E result \in {"pass", "fail"} : Report(e, evals[e[1]], result, TRUE)
      <3>1. PICK result \in Results : Report(e, evals[e[1]], result, TRUE)
        BY <2>2 DEF Results
      <3>2. evals[e[1]] \in Evals
        BY EvaluationFacts DEF TypeOK
      <3>3. clientSecret' \in [Candidates -> Secrets \cup {None}]
        BY <1>1 DEF TypeOK
      <3> QED
        BY <3>1, <3>2, <3>3, ReportTypes
    <2> QED
      BY <2>1, <2>2, AnsweredFacts
  <1>3. TypeOK'
    BY <1>1, <1>2, AnsweredFacts DEF TypeOK, MatchesType, OutcomeType
  <1>4. LoopFits'
    BY <1>1 DEF LoopFits, NothingRequired
  <1> QED
    BY <1>3, <1>4

\* An exception breaks the loops off.
Throws == \E e \in Evaluations : OauthThrows(e)

LEMMA ThrowsFacts ==
  ASSUME TypeOK, LoopFits, Throws
  PROVE  /\ Running /\ begun \in DOMAIN apis /\ begun \in Candidates
         /\ evals[begun] \in Evals
         /\ \E r \in DOMAIN apis[begun].reqs : \E s \in DOMAIN apis[begun].reqs[r] :
              apis[begun].reqs[r][s].type = "oauth2"
         /\ loop' = Idle
         /\ broken' = [broken EXCEPT ![begun] = loop]
         /\ evals' = [evals EXCEPT ![begun].verdict = IF @ = "open" THEN "thrown" ELSE @]
         /\ UNCHANGED <<inputs, basicVars, oauthVars, begun, outcome, clientSecret, matches,
                        status, crashed, answer>>
  <1>1. PICK e \in Evaluations : OauthThrows(e)
    BY DEF Throws
  <1>2. /\ Running /\ e = <<begun, loop.req, loop.sch>> /\ Def(e).type = "oauth2"
        /\ loop.req <= Len(apis[begun].reqs) /\ loop.sch <= Len(apis[begun].reqs[loop.req])
    BY <1>1 DEF OauthThrows, Stands
  <1>3. e[2] \in Requirements /\ e[3] \in Schemes /\ e[1] = begun
        /\ e[2] = loop.req /\ e[3] = loop.sch
    BY <1>2, EvaluationFacts
  <1>4. /\ begun \in DOMAIN apis /\ begun \in Candidates /\ evals[begun] \in Evals
        /\ e[2] \in DOMAIN apis[begun].reqs
    BY <1>2, <1>3, LoopFacts
  <1>5. e[3] \in DOMAIN apis[begun].reqs[e[2]]
    BY <1>2, <1>3, <1>4, ListFacts DEF Schemes
  <1>6. apis[begun].reqs[e[2]][e[3]].type = "oauth2"
    BY <1>2, <1>3 DEF Def
  <1> QED
    BY <1>1, <1>2, <1>4, <1>5, <1>6 DEF OauthThrows

LEMMA ThrowsTypes ==
  ASSUME TypeOK, LoopFits, Throws
  PROVE  TypeOK' /\ LoopFits'
  <1>1. /\ begun \in DOMAIN apis /\ begun \in Candidates /\ evals[begun] \in Evals
        /\ loop' = Idle
        /\ broken' = [broken EXCEPT ![begun] = loop]
        /\ evals' = [evals EXCEPT ![begun].verdict = IF @ = "open" THEN "thrown" ELSE @]
        /\ UNCHANGED <<inputs, basicVars, oauthVars, begun, outcome, clientSecret, matches,
                       status, crashed, answer>>
    BY ThrowsFacts
  <1>2. evals' \in [Candidates -> Evals]
    <2> DEFINE ev == [evals[begun] EXCEPT !.verdict = IF @ = "open" THEN "thrown" ELSE @]
    <2>1. ev \in Evals
      BY <1>1 DEF Evals
    <2>2. evals' = [evals EXCEPT ![begun] = ev]
      BY <1>1
    <2> HIDE DEF ev
    <2> QED
      BY <2>1, <2>2 DEF TypeOK
  <1>3. loop' \in Places /\ LoopFits'
    BY <1>1, BoundsAssumption DEF Idle, LoopFits, Places
  <1>4. broken' \in [Candidates -> Places]
    BY <1>1 DEF TypeOK
  <1>5. /\ begun' \in 0..Len(apis) /\ matches' \in MatchesType
        /\ clientSecret' \in [Candidates -> Secrets \cup {None}]
    BY <1>1 DEF TypeOK, MatchesType
  <1> QED
    BY <1>1, <1>2, <1>3, <1>4, <1>5, LoopTypes

LEMMA NextTypes ==
  ASSUME TypeOK, LoopFits, [Next]_vars
  PROVE  TypeOK' /\ LoopFits'
  <1>1. CASE BeginCandidate
    BY <1>1, BeginCandidateTypes
  <1>2. CASE BeginRequirement
    BY <1>2, BeginRequirementTypes
  <1>3. ASSUME NEW e \in Evaluations, BeginScheme(e) PROVE TypeOK' /\ LoopFits'
    BY <1>3, BeginSchemeTypes
  <1>4. CASE EndRequirement
    BY <1>4, EndRequirementTypes
  <1>5. CASE EndRequirements
    BY <1>5, EndRequirementsTypes
  <1>6. CASE Choose
    <2>1. UNCHANGED <<inputs, basicVars, oauthVars, begun, loop, evals, broken, outcome,
                      clientSecret, matches, crashed>>
      BY <1>6 DEF Choose
    <2>2. TypeOK'
      BY <1>6, <2>1, ChooseTypes
      DEF TypeOK, inputs, basicVars, oauthVars, BasicTypeOK, OauthTypeOK
    <2>3. LoopFits'
      BY <2>1 DEF LoopFits, inputs, NothingRequired
    <2> QED
      BY <2>2, <2>3
  <1>7. CASE TokenUnlisted
    <2>1. OauthTypeOK' /\ BasicTypeOK'
      BY <1>7 DEF TokenUnlisted, Unlist, TypeOK, OauthTypeOK, BasicTypeOK, basicVars
    <2>2. UNCHANGED checkVars
      BY <1>7 DEF TokenUnlisted
    <2> QED
      BY <2>1, <2>2 DEF TypeOK, checkVars, LoopFits, NothingRequired
  <1>8. CASE ConnectionError
    <2>1. UNCHANGED <<basicVars, oauthVars, apis, keys, planId, begun, loop, evals, broken,
                      outcome, clientSecret, matches, status, answer>> /\ crashed' = TRUE
      BY <1>8 DEF ConnectionError
    <2> QED
      BY <2>1 DEF TypeOK, LoopFits, NothingRequired, basicVars, oauthVars, BasicTypeOK,
         OauthTypeOK
  <1>9. ASSUME NEW e \in Evaluations, BasicAnswered(e) \/ OauthAnswered(e)
        PROVE  TypeOK' /\ LoopFits'
    BY <1>9, AnsweredTypes
  <1>10. CASE UNCHANGED vars
    BY <1>10 DEF TypeOK, LoopFits, NothingRequired, vars, checkVars, basicVars, oauthVars,
       BasicTypeOK, OauthTypeOK
  <1>11. CASE Throws
    BY <1>11, ThrowsTypes
  <1> QED
    BY <1>1, <1>2, <1>3, <1>4, <1>5, <1>6, <1>7, <1>8, <1>9, <1>10, <1>11
    DEF Next, LoopStep, BeginScheme, Throws

\* Type correctness of the security check.
THEOREM SecurityTypeCorrect == Spec => []TypeOK
  <1>1. TypeOK /\ LoopFits /\ [Next]_vars => TypeOK' /\ LoopFits'
    BY NextTypes
  <1> QED
    BY <1>1, InitTypes, PTL DEF Spec

-----------------------------------------------------------------------------
(* Logins. *)

LEMMA FreshAtScheme ==
  ASSUME TypeOK, LoopsInv, NEW e \in Evaluations, NEW type, AtScheme(e, type)
  PROVE  outcome[e] = "none"
  <1>1. /\ e[1] \in Candidates /\ e[2] \in Requirements /\ e[3] \in Schemes
        /\ e = <<e[1], e[2], e[3]>>
    BY EvaluationFacts
  <1>2. begun = e[1] /\ loop.req = e[2] /\ loop.sch = e[3]
    BY AtSchemeFacts DEF LoopsInv
  <1>3. ~Reached(e[1], e[2], e[3])
    <2>1. At(e[1]) = loop
      BY <1>2, AtSchemeFacts DEF At, LoopsInv
    <2> QED
      BY <1>1, <1>2, <2>1 DEF Reached, Schemes
  <1> QED
    BY <1>1, <1>3 DEF LoopsInv, SchemesCounted

LEMMA EndLoginFits ==
  ASSUME BasicTypeOK, NEW e \in Evaluations, NEW def, LoginFits(e, def),
         NEW error \in LoginErrors \cup {None}, EndLogin(e, error), bound' = bound,
         \/ error # None
         \/ def.registry # "name"
         \/ /\ "user" \in bound[e] /\ client[e] = "open"
            /\ def.groupAuth = "staticAuth" => "admin" \in bound[e]
  PROVE  LoginFits(e, def)'
  <1>1. /\ login'[e] = [step |-> "done", error |-> error]
        /\ client'[e] = IF client[e] = "open" THEN "unbound" ELSE client[e]
    BY DEF EndLogin, BasicTypeOK
  <1> QED
    BY <1>1 DEF LoginFits, LoginVerified, LdapSteps

LEMMA ConnectFits ==
  ASSUME BasicTypeOK, NEW e \in Evaluations, NEW def, LoginFits(e, def),
         login[e].step \in {"registry", "registryTls"}, Connect(e, def), bound' = bound
  PROVE  LoginFits(e, def)'
  <1>1. CASE def.authMethod = "odd"
    BY <1>1, EndLoginFits, NoErrorAssumption DEF Connect, LoginErrors
  <1>2. CASE def.authMethod # "odd"
    <2>1. client'[e] = "open"
      BY <1>2 DEF Connect, BasicTypeOK
    <2>2. \/ login'[e].step = "bindAdmin" /\ def.authMethod = "searchDN"
          \/ login'[e].step = "search" /\ def.authMethod = "searchDN"
          \/ login'[e].step = "bindUser"
      BY <1>2 DEF Connect, Goto, BasicTypeOK
    <2> QED
      BY <2>1, <2>2 DEF LoginFits, LoginVerified, LdapSteps
  <1> QED
    BY <1>1, <1>2

\* A bind or a search that leaves the login waiting for another call.
LEMMA GotoFits ==
  ASSUME BasicTypeOK, NEW e \in Evaluations, NEW def, LoginFits(e, def),
         login[e].step \in LdapSteps, NEW step, Goto(e, step), UNCHANGED client,
         bound[e] \subseteq bound'[e],
         \/ step = "bindUser"
         \/ step = "search" /\ (def.authMethod = "composeUPN" => "user" \in bound'[e])
         \/ step = "bindGroup" /\ "user" \in bound'[e]
         \/ /\ step = "searchGroup" /\ "user" \in bound'[e]
            /\ def.groupAuth = "staticAuth" => "admin" \in bound'[e]
  PROVE  LoginFits(e, def)'
  <1>1. login'[e].step = step
    BY DEF Goto, BasicTypeOK
  <1> QED
    BY <1>1 DEF LoginFits, LoginVerified, LdapSteps

LEMMA BindFits ==
  ASSUME BasicTypeOK, NEW e \in Evaluations, NEW def, LoginFits(e, def),
         BindAccepted(e, def)
  PROVE  LoginFits(e, def)'
  <1> DEFINE step == login[e].step
             next == Bound(step, def)
  <1>1. /\ step \in {"bindAdmin", "bindUser", "bindGroup"} /\ step \in LdapSteps
        /\ client[e] = "open"
        /\ bound'[e] = bound[e] \cup {BindAs(step, def)}
    BY DEF BindAccepted, BasicTypeOK, LoginFits, LdapSteps
  <1>2. Proceed(e, next)
    BY DEF BindAccepted
  <1>3. CASE next = "done"
    <2>1. /\ step = "bindUser" /\ def.groupAuth # "staticAuth" /\ "user" \in bound'[e]
      BY <1>1, <1>3 DEF Bound, Authorize, BindAs
    <2>2. /\ login'[e] = [step |-> "done", error |-> None] /\ client'[e] = "unbound"
      BY <1>1, <1>2, <1>3 DEF Proceed, EndLogin, BasicTypeOK
    <2> QED
      BY <2>1, <2>2 DEF LoginFits, LoginVerified, LdapSteps
  <1>4. CASE next # "done"
    <2>1. \/ next = "search" /\ step = "bindAdmin"
          \/ next = "search" /\ step = "bindUser"
          \/ next = "bindGroup" /\ step = "bindUser"
          \/ next = "searchGroup" /\ step = "bindGroup"
      BY <1>1, <1>4 DEF Bound, Authorize
    <2>2. Goto(e, next) /\ UNCHANGED client
      BY <1>2, <2>1 DEF Proceed
    <2>3. CASE next = "search" /\ step = "bindAdmin"
      <3>1. def.authMethod # "composeUPN"
        BY <2>3 DEF LoginFits
      <3> QED
        BY <1>1, <2>2, <2>3, <3>1, GotoFits
    <2>4. CASE step = "bindUser" /\ next \in {"search", "bindGroup"}
      <3>1. "user" \in bound'[e]
        BY <1>1, <2>4 DEF BindAs
      <3> QED
        BY <1>1, <2>2, <2>4, <3>1, GotoFits
    <2>5. CASE next = "searchGroup" /\ step = "bindGroup"
      <3>1. "user" \in bound'[e] /\ (def.groupAuth = "staticAuth" => "admin" \in bound'[e])
        BY <1>1, <2>5 DEF BindAs, LoginFits
      <3> QED
        BY <1>1, <2>2, <2>5, <3>1, GotoFits
    <2> QED
      BY <2>1, <2>3, <2>4, <2>5
  <1> QED
    BY <1>3, <1>4

LEMMA LoginStepFits ==
  ASSUME BasicTypeOK, NEW e \in Evaluations, NEW def \in BasicDefs, LoginFits(e, def),
         LoginStep(e, def)
  PROVE  LoginFits(e, def)'
  <1>0. 500 # None /\ 401 # None
    BY NoErrorAssumption DEF LoginErrors
  <1>1. CASE HttpAnswered(e)
    <2>1. def.registry # "name" /\ bound' = bound
      BY <1>1 DEF HttpAnswered, LoginFits
    <2> QED
      BY <1>1, <2>1, EndLoginFits DEF HttpAnswered
  <1>2. CASE TlsProfileFound(e)
    <2>1. /\ def.registry = "none" /\ UNCHANGED <<bound, client>>
          /\ client[e] # "open"
      BY <1>2 DEF TlsProfileFound, LoginFits, LdapSteps
    <2>2. login'[e].step = "http" \/ login'[e] = [step |-> "done", error |-> 500]
      BY <1>2 DEF TlsProfileFound, Goto, BasicTypeOK
    <2> QED
      BY <2>1, <2>2 DEF LoginFits, LoginVerified, LdapSteps
  <1>3. CASE RegistryFound(e, def)
    <2>1. login[e].step = "registry" /\ bound' = bound
      BY <1>3 DEF RegistryFound
    <2>2. CASE EndLogin(e, 500)
      BY <1>0, <2>1, <2>2, EndLoginFits DEF LoginErrors
    <2>3. CASE Connect(e, def)
      BY <2>1, <2>3, ConnectFits
    <2>4. CASE Goto(e, "registryTls") /\ UNCHANGED client
      <3>1. login'[e].step = "registryTls"
        BY <2>4 DEF Goto, BasicTypeOK
      <3> QED
        BY <2>1, <2>4, <3>1 DEF LoginFits, LoginVerified, LdapSteps
    <2> QED
      BY <1>3, <2>2, <2>3, <2>4 DEF RegistryFound
  <1>4. CASE RegistryTlsFound(e, def)
    BY <1>0, <1>4, EndLoginFits, ConnectFits DEF RegistryTlsFound, LoginErrors
  <1>5. CASE BindAccepted(e, def)
    BY <1>5, BindFits
  <1>6. CASE SearchEnded(e, def)
    <2>1. /\ login[e].step = "search" /\ login[e].step \in LdapSteps /\ bound' = bound
          /\ client[e] = "open"
      BY <1>6 DEF SearchEnded, LdapSteps, LoginFits
    <2>2. PICK n \in 0..2 : Proceed(e, Found(def, n))
      BY <1>6 DEF SearchEnded
    <2>3. CASE Found(def, n) = "bindUser"
      <3>1. Goto(e, "bindUser") /\ UNCHANGED client
        BY <2>2, <2>3 DEF Proceed
      <3> QED
        BY <2>1, <3>1, GotoFits
    <2>4. CASE Found(def, n) = "failed"
      <3>1. EndLogin(e, 500)
        BY <2>2, <2>4 DEF Proceed
      <3> QED
        BY <1>0, <2>1, <3>1, EndLoginFits DEF LoginErrors
    <2>5. CASE Found(def, n) \notin {"bindUser", "failed"}
      <3>1. def.authMethod = "composeUPN" /\ Found(def, n) = Authorize(def)
        BY <2>5 DEF Found
      <3>2. "user" \in bound[e]
        BY <2>1, <3>1 DEF LoginFits
      <3>3. CASE def.groupAuth = "none"
        <4>1. EndLogin(e, None)
          BY <2>2, <3>1, <3>3 DEF Authorize, Proceed
        <4> QED
          BY <2>1, <3>2, <3>3, <4>1, EndLoginFits
      <3>4. CASE def.groupAuth # "none"
        <4>1. Goto(e, "bindGroup") /\ UNCHANGED client
          BY <2>2, <3>1, <3>4 DEF Authorize, Proceed
        <4> QED
          BY <2>1, <3>2, <4>1, GotoFits
      <3> QED
        BY <3>3, <3>4
    <2> QED
      BY <2>3, <2>4, <2>5
  <1>7. CASE GroupSearchEnded(e)
    <2>1. /\ "user" \in bound[e] /\ client[e] = "open" /\ bound' = bound
          /\ def.groupAuth = "staticAuth" => "admin" \in bound[e]
      BY <1>7 DEF GroupSearchEnded, LoginFits, LdapSteps
    <2> QED
      BY <1>7, <2>1, EndLoginFits DEF GroupSearchEnded
  <1>8. CASE LdapRefused(e)
    BY <1>0, <1>8, EndLoginFits DEF LdapRefused, LoginErrors
  <1> QED
    BY <1>1, <1>2, <1>3, <1>4, <1>5, <1>6, <1>7, <1>8 DEF LoginStep

LEMMA FirstLoginFits ==
  ASSUME BasicTypeOK, NEW e \in Evaluations, NEW def \in BasicDefs,
         login[e].step = "idle" => client[e] = "none", login[e].step = "idle",
         BeginLogin(e, def)
  PROVE  LoginFits(e, def)' /\ login'[e].step # "idle"
  <1>1. /\ client'[e] = "none" /\ login'[e] = FirstLogin(def)
    BY DEF BeginLogin, BasicTypeOK
  <1>2. \/ /\ FirstLogin(def).step = "done" /\ FirstLogin(def).error \in LoginErrors
        \/ /\ FirstLogin(def).step = "registry" /\ def.registry = "name"
        \/ /\ FirstLogin(def).step \in {"tlsProfile", "http"} /\ def.registry = "none"
    BY DEF FirstLogin, BasicDefs, LoginErrors
  <1> QED
    BY <1>1, <1>2, NoErrorAssumption DEF LoginFits, LoginVerified, LdapSteps

\* What a step does to one login leaves the others as they are.
LEMMA OtherLogins ==
  ASSUME LoginsInv, NEW e \in Evaluations, UNCHANGED apis,
         \A f \in Evaluations \ {e} : /\ login'[f] = login[f] /\ client'[f] = client[f]
                                      /\ bound'[f] = bound[f] /\ outcome'[f] = outcome[f],
         LoginInv(e)'
  PROVE  LoginsInv'
  <1> SUFFICES ASSUME NEW f \in Evaluations \ {e} PROVE LoginInv(f)'
    BY DEF LoginsInv
  <1>1. LoginInv(f)
    BY DEF LoginsInv
  <1>2. /\ login'[f] = login[f] /\ client'[f] = client[f]
        /\ bound'[f] = bound[f] /\ outcome'[f] = outcome[f]
    OBVIOUS
  <1> QED
    BY <1>1, <1>2, ZenonT(60) DEF LoginInv, LoginFits, LoginVerified, Def

LEMMA LoginStepLocal ==
  ASSUME BasicTypeOK, NEW e \in Evaluations, NEW def, LoginStep(e, def),
         NEW f \in Evaluations \ {e}
  PROVE  login'[f] = login[f] /\ client'[f] = client[f] /\ bound'[f] = bound[f]
  <1>1. ASSUME NEW error, EndLogin(e, error)
        PROVE  login'[f] = login[f] /\ client'[f] = client[f]
    BY <1>1 DEF EndLogin, BasicTypeOK
  <1>2. ASSUME NEW step, Goto(e, step)
        PROVE  login'[f] = login[f]
    BY <1>2 DEF Goto, BasicTypeOK
  <1>3. ASSUME Connect(e, def)
        PROVE  login'[f] = login[f] /\ client'[f] = client[f]
    <2>1. CASE def.authMethod = "odd"
      BY <1>1, <1>3, <2>1 DEF Connect
    <2>2. CASE def.authMethod # "odd"
      BY <1>2, <1>3, <2>2 DEF Connect, BasicTypeOK
    <2> QED
      BY <2>1, <2>2
  <1>4. ASSUME NEW next, Proceed(e, next)
        PROVE  login'[f] = login[f] /\ client'[f] = client[f]
    BY <1>1, <1>2, <1>4 DEF Proceed
  <1>5. CASE HttpAnswered(e)
    BY <1>1, <1>5 DEF HttpAnswered
  <1>6. CASE TlsProfileFound(e)
    BY <1>2, <1>6 DEF TlsProfileFound, BasicTypeOK
  <1>7. CASE RegistryFound(e, def)
    BY <1>1, <1>2, <1>3, <1>7 DEF RegistryFound
  <1>8. CASE RegistryTlsFound(e, def)
    BY <1>1, <1>3, <1>8 DEF RegistryTlsFound
  <1>9. CASE BindAccepted(e, def)
    BY <1>4, <1>9 DEF BindAccepted, BasicTypeOK
  <1>10. CASE SearchEnded(e, def)
    BY <1>4, <1>10 DEF SearchEnded
  <1>11. CASE GroupSearchEnded(e)
    BY <1>1, <1>11 DEF GroupSearchEnded
  <1>12. CASE LdapRefused(e)
    BY <1>1, <1>12 DEF LdapRefused
  <1> QED
    BY <1>5, <1>6, <1>7, <1>8, <1>9, <1>10, <1>11, <1>12 DEF LoginStep

\* An evaluation with an outcome is one of the lists.
LEMMA ReachedFacts ==
  ASSUME TypeOK, LoopsInv, NEW e \in Evaluations, outcome[e] # "none"
  PROVE  /\ Reached(e[1], e[2], e[3]) /\ Opened(e[1], e[2])
         /\ e[1] \in DOMAIN apis /\ e[1] \in 1..begun
         /\ e[2] \in DOMAIN apis[e[1]].reqs
         /\ e[3] \in DOMAIN apis[e[1]].reqs[e[2]]
         /\ Def(e) \in SchemeDefs
  <1>1. /\ e[1] \in Candidates /\ e[2] \in Requirements /\ e[3] \in Schemes
        /\ e = <<e[1], e[2], e[3]>>
    BY EvaluationFacts
  <1>2. Reached(e[1], e[2], e[3]) /\ Opened(e[1], e[2]) /\ e[1] \in 1..begun
    BY <1>1 DEF LoopsInv, SchemesCounted, Reached, Opened
  <1>3. e[1] \in DOMAIN apis
    BY <1>1, <1>2, ListFacts DEF Candidates
  <1>4. e[2] \in DOMAIN apis[e[1]].reqs /\ e[3] \in DOMAIN apis[e[1]].reqs[e[2]]
    BY <1>2 DEF Reached, Opened
  <1>5. Def(e) \in SchemeDefs
    BY <1>3, <1>4, ListFacts DEF Def
  <1> QED
    BY <1>2, <1>3, <1>4, <1>5

\* Only one outcome changes, and it does not become unknown again.
OutcomeLocal(e) ==
  /\ \A f \in Evaluations \ {e} : outcome'[f] = outcome[f]
  /\ outcome'[e] # "none"

LEMMA BeginSchemeLocal ==
  ASSUME TypeOK, LoopFits, NEW e \in Evaluations, BeginScheme(e)
  PROVE  OutcomeLocal(e) /\ UNCHANGED <<apis, begun>>
  <1>1. \E type : AtScheme(e, type)
    BY BeginSchemeFacts
  <1>2. CASE Wait(e)
    BY <1>1, <1>2 DEF Wait, OutcomeLocal, TypeOK, AtScheme, Stands, inputs
  <1>3. CASE \E result \in Results : Report(e, Started(e), result, FALSE)
    BY <1>1, <1>3 DEF Report, Results, OutcomeLocal, TypeOK, AtScheme, Stands, inputs
  <1> QED
    BY <1>2, <1>3, BeginSchemeFacts

LEMMA AnsweredLocal ==
  ASSUME TypeOK, NEW e \in Evaluations, BasicAnswered(e) \/ OauthAnswered(e)
  PROVE  OutcomeLocal(e) /\ UNCHANGED <<apis, begun>>
  <1>1. outcome[e] = "pending" /\ UNCHANGED <<apis, begun>>
    BY AnsweredFacts
  <1>2. CASE UNCHANGED <<outcome, evals, matches>>
    BY <1>1, <1>2 DEF OutcomeLocal
  <1>3. CASE \E result \in {"pass", "fail"} : Report(e, evals[e[1]], result, TRUE)
    BY <1>1, <1>3 DEF Report, OutcomeLocal, TypeOK
  <1> QED
    BY <1>1, <1>2, <1>3, AnsweredFacts

LEMMA BasicDef ==
  ASSUME TypeOK, NEW e \in Evaluations, Def(e) \in SchemeDefs, Def(e).type = "basic"
  PROVE  Def(e) \in BasicDefs
  BY DEF SchemeDefs, BasicDefs, ApiKeyDefs, OauthDefs, Missing

LEMMA BeginSchemeLogins ==
  ASSUME TypeOK, LoopsInv, LoginsInv, NEW e \in Evaluations, BeginScheme(e)
  PROVE  LoginsInv'
  <1>1. OutcomeLocal(e) /\ apis' = apis /\ BasicTypeOK
    BY BeginSchemeLocal DEF LoopsInv, TypeOK
  <1>2. outcome[e] = "none"
    BY FreshAtScheme, BeginSchemeFacts DEF LoopsInv
  <1>3. login[e].step = "idle" /\ client[e] = "none"
    BY <1>2 DEF LoginsInv, LoginInv
  <1>4. CASE BeginBasic(e)
    <2>1. AtScheme(e, "basic") /\ BeginLogin(e, Def(e))
      BY <1>4 DEF BeginBasic
    <2>2. Def(e) \in SchemeDefs /\ Def(e).type = "basic"
      BY <2>1, AtSchemeFacts DEF LoopsInv
    <2>3. PICK def \in BasicDefs : def = Def(e)
      BY <2>2, BasicDef
    <2>4. LoginFits(e, def)' /\ login'[e].step # "idle"
      BY <1>1, <1>3, <2>1, <2>3, FirstLoginFits
    <2>5. def = Def(e)'
      BY <1>1, <2>3 DEF Def
    <2>6. LoginInv(e)'
      BY <1>1, <2>4, <2>5 DEF LoginInv, OutcomeLocal, LoginFits, LoginVerified
    <2>7. \A f \in Evaluations \ {e} :
            login'[f] = login[f] /\ client'[f] = client[f] /\ bound'[f] = bound[f]
      BY <1>1, <2>1 DEF BeginLogin, BasicTypeOK
    <2> QED
      BY <1>1, <2>6, <2>7, OtherLogins DEF OutcomeLocal
  <1>5. CASE BeginMissing(e) \/ BeginApiKey(e) \/ BeginOauth2(e)
    <2>1. UNCHANGED basicVars
      BY <1>5 DEF BeginMissing, BeginApiKey, BeginOauth2
    <2>2. Def(e).type # "basic"
      BY <1>5 DEF BeginMissing, BeginApiKey, BeginOauth2, AtScheme, Stands
    <2>3. LoginInv(e)'
      BY <1>1, <1>3, <2>1, <2>2 DEF LoginInv, OutcomeLocal, basicVars, Def
    <2> QED
      BY <1>1, <2>1, <2>3, OtherLogins DEF OutcomeLocal, basicVars
  <1> QED
    BY <1>4, <1>5 DEF BeginScheme

LEMMA AnsweredLogins ==
  ASSUME TypeOK, LoopsInv, LoginsInv, NEW e \in Evaluations,
         BasicAnswered(e) \/ OauthAnswered(e)
  PROVE  LoginsInv'
  <1>1. OutcomeLocal(e) /\ apis' = apis /\ BasicTypeOK /\ outcome[e] = "pending"
    BY AnsweredLocal, AnsweredFacts DEF TypeOK
  <1>2. LoginInv(e) /\ Def(e) \in SchemeDefs
    BY <1>1, ReachedFacts DEF LoginsInv
  <1>3. CASE BasicAnswered(e)
    <2>1. LoginStep(e, Def(e)) /\ Def(e).type = "basic"
      BY <1>3 DEF BasicAnswered
    <2>2. PICK def \in BasicDefs : def = Def(e)
      BY <1>2, <2>1, BasicDef
    <2>3. LoginFits(e, def)'
      BY <1>1, <1>2, <2>1, <2>2, LoginStepFits DEF LoginInv
    <2>4. def = Def(e)'
      BY <1>1, <2>2 DEF Def
    <2>5. LoginInv(e)'
      BY <1>1, <2>3, <2>4 DEF LoginInv, OutcomeLocal, LoginFits, LoginVerified
    <2>6. \A f \in Evaluations \ {e} :
            login'[f] = login[f] /\ client'[f] = client[f] /\ bound'[f] = bound[f]
      BY <1>1, <2>1, <2>2, LoginStepLocal
    <2> QED
      BY <1>1, <2>5, <2>6, OtherLogins DEF OutcomeLocal
  <1>4. CASE OauthAnswered(e)
    <2>1. UNCHANGED <<login, client, bound>> /\ Def(e).type # "basic"
      BY <1>4 DEF OauthAnswered
    <2>2. LoginInv(e)'
      BY <1>1, <1>2, <2>1 DEF LoginInv, OutcomeLocal, Def
    <2> QED
      BY <1>1, <2>1, <2>2, OtherLogins DEF OutcomeLocal
  <1> QED
    BY <1>3, <1>4

LEMMA LoginsKept ==
  ASSUME LoginsInv, UNCHANGED <<apis, outcome, login, client, bound>>
  PROVE  LoginsInv'
  BY ZenonT(60) DEF LoginsInv, LoginInv, LoginFits, LoginVerified, Def

\* The steps between those of the schemes.
LEMMA RestUnchanged ==
  ASSUME \/ BeginCandidate \/ BeginRequirement \/ EndRequirement \/ EndRequirements
         \/ Throws \/ Choose \/ TokenUnlisted \/ ConnectionError \/ UNCHANGED vars
  PROVE  UNCHANGED <<apis, outcome, login, client, bound, bearer, oauth>>
  <1>1. CASE BeginCandidate
    BY <1>1 DEF BeginCandidate, inputs
  <1>2. CASE BeginRequirement \/ EndRequirement \/ EndRequirements \/ Choose
    BY <1>2 DEF BeginRequirement, EndRequirement, EndRequirements, Choose, inputs, basicVars,
       oauthVars
  <1>3. CASE TokenUnlisted \/ ConnectionError \/ UNCHANGED vars
    BY <1>3 DEF TokenUnlisted, Unlist, ConnectionError, vars, checkVars, basicVars, oauthVars
  <1>4. CASE Throws
    BY <1>4 DEF Throws, OauthThrows, inputs, basicVars, oauthVars
  <1> QED
    BY <1>1, <1>2, <1>3, <1>4

LEMMA NextLogins ==
  ASSUME TypeOK, LoopsInv, LoginsInv, [Next]_vars
  PROVE  LoginsInv'
  <1>1. ASSUME NEW e \in Evaluations, BeginScheme(e) PROVE LoginsInv'
    BY <1>1, BeginSchemeLogins
  <1>2. ASSUME NEW e \in Evaluations, BasicAnswered(e) \/ OauthAnswered(e) PROVE LoginsInv'
    BY <1>2, AnsweredLogins
  <1>3. CASE \/ BeginCandidate \/ BeginRequirement \/ EndRequirement \/ EndRequirements
             \/ Throws \/ Choose \/ TokenUnlisted \/ ConnectionError \/ UNCHANGED vars
    BY <1>3, RestUnchanged, LoginsKept
  <1> QED
    BY <1>1, <1>2, <1>3 DEF Next, LoopStep, BeginScheme, Throws

-----------------------------------------------------------------------------
(* One candidate's loops. *)

\* A step keeps the counts of candidate c, and decides it, if at all, for a reason.
StepOf(c) ==
  /\ SchemesCounted(c)' /\ RequirementsCounted(c)'
  /\ evals'[c].verdict # evals[c].verdict =>
       evals[c].verdict = "open" /\ Verdict!Decided(outcome', c, evals'[c].verdict)

LEMMA PlacesKept ==
  ASSUME NEW c, NEW r, NEW s, apis' = apis, begun' = begun, At(c)' = At(c)
  PROVE  (Opened(c, r)' <=> Opened(c, r)) /\ (Reached(c, r, s)' <=> Reached(c, r, s))
  BY DEF Opened, Reached, NothingRequired

LEMMA AtKept ==
  ASSUME NEW c, begun' = begun, broken' = broken, c # begun \/ loop' = loop
  PROVE  At(c)' = At(c)
  BY DEF At

LEMMA StartedFacts ==
  ASSUME TypeOK, NEW e \in Evaluations
  PROVE  LET ev == evals[e[1]] IN
         /\ Started(e).inner[e[2]].left = ev.inner[e[2]].left \cup {e[3]}
         /\ Started(e).inner[e[2]].settled = ev.inner[e[2]].settled
         /\ \A q \in Requirements \ {e[2]} : Started(e).inner[q] = ev.inner[q]
         /\ Started(e).left = ev.left /\ Started(e).verdict = ev.verdict
  <1> DEFINE ev == evals[e[1]]
             left == ev.inner[e[2]].left \cup {e[3]}
  <1>1. ev \in Evals /\ e[2] \in Requirements
    BY EvaluationFacts DEF TypeOK
  <1>2. Started(e) = [ev EXCEPT !.inner[e[2]].left = left]
    BY DEF Started
  <1> HIDE DEF ev, left
  <1>3. /\ Started(e).inner[e[2]].left = left
        /\ Started(e).inner[e[2]].settled = ev.inner[e[2]].settled
        /\ \A q \in Requirements \ {e[2]} : Started(e).inner[q] = ev.inner[q]
        /\ Started(e).left = ev.left /\ Started(e).verdict = ev.verdict
    BY <1>1, <1>2 DEF Evals
  <1> QED
    BY <1>3 DEF ev, left

\* Where the loops are after the scheme of e.
LEMMA SchemePlaces ==
  ASSUME TypeOK, LoopsInv, NEW e \in Evaluations, NEW type, AtScheme(e, type)
  PROVE  /\ Opened(e[1], e[2]) /\ Reached(e[1], e[2], e[3])'
         /\ \A q \in Requirements : Opened(e[1], q)' <=> Opened(e[1], q)
         /\ \A q \in Requirements : \A t \in Schemes :
              <<q, t>> # <<e[2], e[3]>> => (Reached(e[1], q, t)' <=> Reached(e[1], q, t))
  <1>1. /\ begun \in DOMAIN apis /\ ~NothingRequired(apis[begun])
        /\ begun = e[1] /\ loop.req = e[2] /\ loop.sch = e[3]
        /\ e[2] \in DOMAIN apis[begun].reqs
        /\ e[3] \in DOMAIN apis[begun].reqs[e[2]]
        /\ loop' = [req |-> e[2], sch |-> e[3] + 1]
        /\ loop.req # 0 /\ loop'.req # 0
    BY AtSchemeFacts DEF LoopsInv
  <1>2. apis' = apis /\ begun' = begun /\ At(e[1]) = loop /\ At(e[1])' = loop'
    BY <1>1 DEF AtScheme, Stands, inputs, At
  <1>3. /\ e[2] \in Nat \ {0} /\ e[3] \in Nat \ {0} /\ begun \in Nat \ {0}
        /\ Requirements \subseteq Nat /\ Schemes \subseteq Nat
    <2>1. /\ MaxCandidates \in Nat /\ MaxRequirements \in Nat /\ MaxSchemes \in Nat
          /\ DOMAIN apis \subseteq Candidates
      BY ListFacts
    <2>2. e[2] \in Requirements /\ e[3] \in Schemes
      BY EvaluationFacts
    <2>3. begun \in Candidates
      BY <1>1, <2>1
    <2> QED
      BY <2>1, <2>2, <2>3, SMT DEF Requirements, Schemes, Candidates
  <1>4. begun \in 1..begun /\ loop'.req = e[2] /\ loop'.sch = e[3] + 1
    BY <1>1, <1>3
  <1>5. Opened(e[1], e[2])
    BY <1>1, <1>2, <1>3, <1>4 DEF Opened
  <1>6. ASSUME NEW q \in Requirements
        PROVE  Opened(e[1], q)' <=> Opened(e[1], q)
    BY <1>1, <1>2, <1>3, <1>4 DEF Opened, NothingRequired
  <1>7. ASSUME NEW q \in Requirements, NEW t \in Schemes, <<q, t>> # <<e[2], e[3]>>
        PROVE  Reached(e[1], q, t)' <=> Reached(e[1], q, t)
    <2>1. q = e[2] => (t < e[3] + 1 <=> t < e[3])
      BY <1>3, <1>7
    <2> QED
      BY <1>1, <1>2, <1>4, <1>6, <2>1 DEF Reached
  <1>8. Reached(e[1], e[2], e[3])'
    <2>1. e[3] < e[3] + 1 /\ Opened(e[1], e[2])'
      BY <1>3, <1>5, <1>6, EvaluationFacts
    <2> QED
      BY <1>1, <1>2, <1>4, <2>1 DEF Reached
  <1> QED
    BY <1>5, <1>6, <1>7, <1>8

\* ev is the candidate of e, where the evaluation e counts as started.
HasStarted(e, ev) ==
  /\ ev \in Evals
  /\ ev.inner[e[2]].left = evals[e[1]].inner[e[2]].left \cup {e[3]}
  /\ ev.inner[e[2]].settled = evals[e[1]].inner[e[2]].settled
  /\ \A q \in Requirements \ {e[2]} : ev.inner[q] = evals[e[1]].inner[q]
  /\ ev.left = evals[e[1]].left /\ ev.verdict = evals[e[1]].verdict

\* Nothing but the evaluation e is started by the step.
PlacesStay(e) ==
  /\ Opened(e[1], e[2]) /\ Reached(e[1], e[2], e[3])'
  /\ \A q \in Requirements : Opened(e[1], q)' <=> Opened(e[1], q)
  /\ \A q \in Requirements : \A t \in Schemes :
       <<q, t>> # <<e[2], e[3]>> => (Reached(e[1], q, t)' <=> Reached(e[1], q, t))

\* What a report does to the counts, wherever the loops are.
LEMMA ReportCounts ==
  ASSUME TypeOK, LoopsInv, NEW e \in Evaluations, NEW ev, HasStarted(e, ev), PlacesStay(e),
         outcome[e] \in {"none", "pending"}, NEW result \in Results,
         NEW exhausted \in BOOLEAN, Report(e, ev, result, exhausted)
  PROVE  /\ SchemesCounted(e[1])' /\ RequirementsCounted(e[1])'
         /\ outcome' = [outcome EXCEPT ![e] = result]
         /\ evals'[e[1]].verdict # evals[e[1]].verdict =>
              /\ Settling(ev, e[2], e[3], result, exhausted)
              /\ Deciding(ev, e[2], result, exhausted)
              /\ evals'[e[1]].verdict = VerdictOf(result)
  <1> DEFINE c == e[1]
             r == e[2]
             s == e[3]
             o == InnerDone(ev, r, s, result, exhausted)
             settling == Settling(ev, r, s, result, exhausted)
             deciding == Deciding(ev, r, result, exhausted)
  <1>1. c \in Candidates /\ r \in Requirements /\ s \in Schemes /\ e = <<c, r, s>>
    BY EvaluationFacts
  <1>2. ev \in Evals /\ evals[c] \in Evals
    BY <1>1 DEF HasStarted, TypeOK
  <1>3. /\ o \in Evals
        /\ o.inner[r].left = ev.inner[r].left \ {s}
        /\ o.inner[r].settled = (ev.inner[r].settled \/ settling)
        /\ \A q \in Requirements \ {r} : o.inner[q] = ev.inner[q]
        /\ o.left = IF settling THEN ev.left \ {r} ELSE ev.left
        /\ o.verdict = IF settling /\ deciding THEN VerdictOf(result) ELSE ev.verdict
    BY <1>1, <1>2, InnerDoneFacts
  <1>4. evals'[c] = o
    <2>1. evals' = [evals EXCEPT ![c] = o]
      BY DEF Report, Conclude
    <2> HIDE DEF o
    <2> QED
      BY <1>1, <2>1 DEF TypeOK
  <1>5. outcome' = [outcome EXCEPT ![e] = result]
    BY DEF Report
  <1>6. /\ outcome'[<<c, r, s>>] = result
        /\ \A q \in Requirements : \A t \in Schemes :
             <<q, t>> # <<r, s>> => outcome'[<<c, q, t>>] = outcome[<<c, q, t>>]
    <2>1. outcome'[e] = result /\ \A f \in Evaluations \ {e} : outcome'[f] = outcome[f]
      BY <1>5 DEF TypeOK
    <2>2. \A q \in Requirements : \A t \in Schemes : <<c, q, t>> \in Evaluations
      BY <1>1 DEF Evaluations, Schemes
    <2> QED
      BY <1>1, <2>1, <2>2
  <1> HIDE DEF o, c, r, s
  <1>7. /\ SchemesCounted(c) /\ RequirementsCounted(c)
    BY <1>1 DEF LoopsInv
  <1>8. /\ Opened(c, r) /\ Reached(c, r, s)'
        /\ \A q \in Requirements : Opened(c, q)' <=> Opened(c, q)
        /\ \A q \in Requirements : \A t \in Schemes :
             <<q, t>> # <<r, s>> => (Reached(c, q, t)' <=> Reached(c, q, t))
    BY DEF PlacesStay, c, r, s
  <1>9. /\ ev.inner[r].left = evals[c].inner[r].left \cup {s}
        /\ ev.inner[r].settled = evals[c].inner[r].settled
        /\ \A q \in Requirements \ {r} : ev.inner[q] = evals[c].inner[q]
        /\ ev.left = evals[c].left /\ ev.verdict = evals[c].verdict
    BY DEF HasStarted, c, r, s
  <1>10. result # "none" /\ result # "pending" /\ outcome[<<c, r, s>>] \in {"none", "pending"}
    BY <1>1 DEF Results
  <1>11. SchemesCounted(c)'
    <2> SUFFICES ASSUME NEW q \in Requirements, NEW t \in Schemes
                 PROVE  /\ outcome'[<<c, q, t>>] # "none" <=> Reached(c, q, t)'
                        /\ t \in evals'[c].inner[q].left <=> outcome'[<<c, q, t>>] = "pending"
      BY DEF SchemesCounted
    <2>1. CASE <<q, t>> = <<r, s>>
      BY <1>3, <1>4, <1>6, <1>8, <1>10, <2>1
    <2>2. CASE <<q, t>> # <<r, s>>
      <3>1. t \in evals'[c].inner[q].left <=> t \in evals[c].inner[q].left
        <4>1. CASE q = r
          BY <1>3, <1>4, <1>9, <2>2, <4>1
        <4>2. CASE q # r
          BY <1>3, <1>4, <1>9, <4>2
        <4> QED
          BY <4>1, <4>2
      <3> QED
        BY <1>6, <1>7, <1>8, <2>2, <3>1 DEF SchemesCounted
    <2> QED
      BY <2>1, <2>2
  <1>12. RequirementsCounted(c)'
    <2>0. /\ ev.inner[r].settled \in BOOLEAN /\ settling \in BOOLEAN /\ deciding \in BOOLEAN
      BY <1>1, <1>2 DEF Evals, Settling, Deciding
    <2>1. settling => ~evals[c].inner[r].settled
      BY <1>9 DEF Settling
    <2>2. (result # "pass" /\ ~evals[c].inner[r].settled) => settling
      BY <1>9 DEF Settling
    <2>3. (settling /\ result # "fail" /\ evals[c].verdict = "open") => deciding
      BY <1>9 DEF Deciding
    <2>4. VerdictOf(result) # "open"
      BY DEF VerdictOf
    <2>5. evals'[c].verdict = "open" => evals[c].verdict = "open" /\ ~(settling /\ deciding)
      BY <1>3, <1>4, <1>9, <2>4
    <2> HIDE DEF settling, deciding
    <2> SUFFICES ASSUME NEW q \in Requirements
                 PROVE  /\ evals'[c].inner[q].settled => Opened(c, q)'
                        /\ q \in evals'[c].left <=> Opened(c, q)' /\ ~evals'[c].inner[q].settled
                        /\ ~evals'[c].inner[q].settled =>
                             \A t \in Schemes : outcome'[<<c, q, t>>] \notin {"fail", "missing"}
                        /\ (evals'[c].inner[q].settled /\ evals'[c].verdict = "open") =>
                             \E t \in Schemes : outcome'[<<c, q, t>>] = "fail"
      BY DEF RequirementsCounted
    <2>6. /\ evals[c].inner[q].settled => Opened(c, q)
          /\ q \in evals[c].left <=> Opened(c, q) /\ ~evals[c].inner[q].settled
          /\ ~evals[c].inner[q].settled =>
               \A t \in Schemes : outcome[<<c, q, t>>] \notin {"fail", "missing"}
          /\ (evals[c].inner[q].settled /\ evals[c].verdict = "open") =>
               \E t \in Schemes : outcome[<<c, q, t>>] = "fail"
      BY <1>7 DEF RequirementsCounted
    <2>7. CASE q = r
      <3>1. evals'[c].inner[r].settled <=> (evals[c].inner[r].settled \/ settling)
        BY <1>3, <1>4, <1>9, <2>0
      <3>2. r \in evals'[c].left <=> (r \in evals[c].left /\ ~settling)
        BY <1>3, <1>4, <1>9, <2>0
      <3>3. ~evals'[c].inner[r].settled =>
              \A t \in Schemes : outcome'[<<c, r, t>>] \notin {"fail", "missing"}
        <4>1. ~evals'[c].inner[r].settled => result = "pass" /\ ~evals[c].inner[r].settled
          BY <2>2, <3>1
        <4>2. \A t \in Schemes : t # s => outcome'[<<c, r, t>>] = outcome[<<c, r, t>>]
          BY <1>1, <1>6
        <4> QED
          BY <1>6, <2>6, <2>7, <4>1, <4>2
      <3>4. (evals'[c].inner[r].settled /\ evals'[c].verdict = "open") =>
              \E t \in Schemes : outcome'[<<c, r, t>>] = "fail"
        <4> SUFFICES ASSUME evals'[c].inner[r].settled, evals'[c].verdict = "open"
                     PROVE  \E t \in Schemes : outcome'[<<c, r, t>>] = "fail"
          OBVIOUS
        <4>1. CASE settling
          <5>1. result = "fail"
            BY <2>3, <2>5, <4>1
          <5> QED
            BY <1>1, <1>6, <5>1
        <4>2. CASE ~settling
          <5>1. PICK t \in Schemes : outcome[<<c, r, t>>] = "fail"
            BY <2>5, <2>6, <2>7, <3>1, <4>2
          <5>2. t # s
            BY <1>10, <5>1
          <5> QED
            BY <1>1, <1>6, <5>1, <5>2
        <4> QED
          BY <4>1, <4>2
      <3> QED
        BY <1>8, <2>1, <2>6, <2>7, <3>1, <3>2, <3>3, <3>4
    <2>8. CASE q # r
      <3>1. evals'[c].inner[q] = evals[c].inner[q] /\ (q \in evals'[c].left <=> q \in evals[c].left)
        BY <1>3, <1>4, <1>9, <2>0, <2>8
      <3>2. \A t \in Schemes : outcome'[<<c, q, t>>] = outcome[<<c, q, t>>]
        BY <1>6, <2>8
      <3> QED
        BY <1>8, <2>5, <2>6, <3>1, <3>2
    <2> QED
      BY <2>7, <2>8
  <1>13. evals'[c].verdict # evals[c].verdict =>
           settling /\ deciding /\ evals'[c].verdict = VerdictOf(result)
    BY <1>3, <1>4, <1>9
  <1> QED
    BY <1>5, <1>11, <1>12, <1>13 DEF c, r, s

\* Only candidate c is touched; what becomes of it is appended to the matches.
Touches(c) ==
  /\ \A b \in Candidates \ {c} : evals'[b] = evals[b]
  /\ \A f \in Evaluations : f[1] # c => outcome'[f] = outcome[f]
  /\ IF evals[c].verdict = "open" /\ evals'[c].verdict = "passed"
     THEN matches' = Append(matches, [api |-> c, secret |-> clientSecret'[c]])
     ELSE matches' = matches

LEMMA ConcludeTouches ==
  ASSUME TypeOK, NEW c \in Candidates, NEW ev, Conclude(c, ev),
         \A f \in Evaluations : f[1] # c => outcome'[f] = outcome[f]
  PROVE  Touches(c) /\ evals'[c] = ev
  BY DEF Touches, Conclude, TypeOK

LEMMA MatchedKept ==
  ASSUME TypeOK, NEW c \in Candidates, Touches(c), \A b \in Candidates : Matched(b),
         evals'[c].verdict # evals[c].verdict => evals[c].verdict = "open"
  PROVE  \A b \in Candidates : Matched(b)'
  <1> DEFINE M == [api: Candidates, secret: Secrets \cup {None}]
             m == [api |-> c, secret |-> clientSecret'[c]]
  <1>1. matches \in Seq(M)
    BY DEF TypeOK
  <1> HIDE DEF M
  <1> SUFFICES ASSUME NEW b \in Candidates PROVE Matched(b)'
    OBVIOUS
  <1>2. b # c => evals'[b] = evals[b]
    BY DEF Touches
  <1>3. evals[b].verdict = "passed" <=> \E i \in DOMAIN matches : matches[i].api = b
    BY DEF Matched
  <1>4. CASE evals[c].verdict = "open" /\ evals'[c].verdict = "passed"
    <2>1. matches' = Append(matches, m) /\ m.api = c
      BY <1>4 DEF Touches
    <2> HIDE DEF m
    <2>2. /\ DOMAIN matches' = 1..(Len(matches) + 1) /\ matches'[Len(matches) + 1] = m
          /\ DOMAIN matches = 1..Len(matches) /\ Len(matches) \in Nat
          /\ \A i \in DOMAIN matches : matches'[i] = matches[i]
      BY <1>1, <2>1
    <2>3. (\E i \in DOMAIN matches' : matches'[i].api = b)
            <=> (\E i \in DOMAIN matches : matches[i].api = b) \/ b = c
      <3>1. ASSUME NEW i \in DOMAIN matches', matches'[i].api = b
            PROVE  (\E k \in DOMAIN matches : matches[k].api = b) \/ b = c
        <4>1. CASE i \in DOMAIN matches
          BY <2>2, <3>1, <4>1
        <4>2. CASE i \notin DOMAIN matches
          <5>1. i = Len(matches) + 1
            BY <2>2, <4>2
          <5> QED
            BY <2>1, <2>2, <3>1, <5>1
        <4> QED
          BY <4>1, <4>2
      <3>2. ASSUME NEW i \in DOMAIN matches, matches[i].api = b
            PROVE  i \in DOMAIN matches' /\ matches'[i].api = b
        BY <2>2, <3>2
      <3>3. Len(matches) + 1 \in DOMAIN matches' /\ matches'[Len(matches) + 1].api = c
        BY <2>1, <2>2
      <3> QED
        BY <3>1, <3>2, <3>3
    <2> QED
      BY <1>2, <1>3, <1>4, <2>3 DEF Matched
  <1>5. CASE ~(evals[c].verdict = "open" /\ evals'[c].verdict = "passed")
    <2>1. matches' = matches
      BY <1>5 DEF Touches
    <2>2. evals'[b].verdict = "passed" <=> evals[b].verdict = "passed"
      BY <1>2, <1>5
    <2> QED
      BY <1>3, <2>1, <2>2 DEF Matched
  <1> QED
    BY <1>4, <1>5

\* Only the loops of candidate c move, or are broken off.
LoopsOf(c) ==
  /\ loop' = loop \/ (c = begun /\ loop.req # 0)
  /\ \A b \in Candidates \ {c} : broken'[b] = broken[b]
  /\ broken'[c] = broken[c] \/ (evals'[c].verdict # "open" /\ loop'.req = 0)

\* The candidates that a step does not touch.
LEMMA UntouchedCounted ==
  ASSUME TypeOK, LoopsInv, NEW c \in Candidates, Touches(c), apis' = apis, begun' = begun,
         LoopsOf(c), NEW b \in Candidates \ {c}
  PROVE  SchemesCounted(b)' /\ RequirementsCounted(b)' /\ InOrder(b)'
  <1>0. /\ loop' = loop \/ b # begun
        /\ broken'[b] = broken[b] /\ At(b)' = At(b)
    BY DEF LoopsOf, At
  <1>1. evals'[b] = evals[b]
    BY DEF Touches
  <1>2. ASSUME NEW r \in Requirements, NEW s \in Schemes
        PROVE  outcome'[<<b, r, s>>] = outcome[<<b, r, s>>]
    <2>1. <<b, r, s>> \in Evaluations /\ <<b, r, s>>[1] = b
      BY DEF Evaluations, Schemes
    <2> QED
      BY <2>1 DEF Touches
  <1>3. ASSUME NEW r \in Requirements, NEW s \in Schemes
        PROVE  (Opened(b, r)' <=> Opened(b, r)) /\ (Reached(b, r, s)' <=> Reached(b, r, s))
    BY <1>0, PlacesKept
  <1>4. ASSUME NEW r \in Requirements
        PROVE  Opened(b, r)' <=> Opened(b, r)
    BY <1>0, PlacesKept
  <1>5. SchemesCounted(b) /\ RequirementsCounted(b) /\ InOrder(b)
    BY DEF LoopsInv
  <1>6. SchemesCounted(b)'
    BY <1>1, <1>2, <1>3, <1>5 DEF SchemesCounted
  <1>7. RequirementsCounted(b)'
    BY <1>1, <1>2, <1>4, <1>5 DEF RequirementsCounted
  <1>8. InOrder(b)'
    BY <1>0, <1>1, <1>5 DEF InOrder
  <1> QED
    BY <1>6, <1>7, <1>8

\* What a step of a candidate that has begun comes to.
LEMMA StepKeepsLoops ==
  ASSUME TypeOK, LoopsInv, NEW c \in Candidates, Touches(c), StepOf(c), LoopFits',
         apis' = apis, begun' = begun, c <= begun, LoopsOf(c)
  PROVE  LoopsInv'
  <1>1. begun \in Nat /\ c \in Nat
    BY ListFacts DEF Candidates
  <1>2. InOrder(c)'
    <2>1. /\ c < begun => evals[c].verdict \notin {"open", "thrown"}
          /\ broken[c].req # 0 => evals[c].verdict # "open" /\ (c = begun => loop.req = 0)
      BY DEF LoopsInv, InOrder
    <2>2. evals[c].verdict # "open" => evals'[c].verdict = evals[c].verdict
      BY DEF StepOf
    <2>3. ~(c > begun)
      BY <1>1
    <2>4. broken'[c].req # 0 => evals'[c].verdict # "open" /\ (c = begun => loop'.req = 0)
      BY <2>1, <2>2 DEF LoopsOf
    <2> QED
      BY <2>1, <2>2, <2>3, <2>4 DEF InOrder
  <1>3. \A b \in Candidates : Matched(b)'
    BY MatchedKept DEF LoopsInv, StepOf
  <1>4. \A b \in Candidates : SchemesCounted(b)' /\ RequirementsCounted(b)' /\ InOrder(b)'
    BY <1>2, UntouchedCounted DEF StepOf
  <1> QED
    BY <1>3, <1>4 DEF LoopsInv

\* Outcomes change in candidate c only, and only once.
OutcomesOf(c) ==
  \A e \in Evaluations : outcome'[e] # outcome[e] =>
    e[1] = c /\ outcome[e] \in {"none", "pending"} /\ outcome'[e] # "none"

\* Such a step is one of the abstract check.
LEMMA StepEvaluates ==
  ASSUME TypeOK, LoopsInv, TypeOK', NEW c \in DOMAIN apis, c <= begun,
         Touches(c), StepOf(c), OutcomesOf(c), UNCHANGED <<apis, planId, answer>>
  PROVE  Verdict!Evaluate(c)
  <1>1. c \in Candidates /\ begun \in Nat /\ \A b \in Candidates : b \in Nat
    BY ListFacts DEF Candidates
  <1>2. \A b \in Candidates : b < c => evals[b].verdict \notin Verdict!Undecided
    BY <1>1 DEF LoopsInv, InOrder, Verdict!Undecided
  <1>3. outcome' \in [Evaluations -> Verdict!Outcomes]
    BY DEF TypeOK, Verdict!Outcomes
  <1>4. evals'[c].verdict \in Verdict!Verdicts
    BY <1>1 DEF TypeOK, Evals, Verdict!Verdicts
  <1>5. [b \in Candidates |-> evals'[b].verdict] =
          [[b \in Candidates |-> evals[b].verdict] EXCEPT ![c] = evals'[c].verdict]
    BY <1>1 DEF Touches
  <1>6. evals'[c].verdict # evals[c].verdict =>
          evals[c].verdict = "open" /\ Verdict!Decided(outcome', c, evals'[c].verdict)
    BY DEF StepOf
  <1> QED
    BY <1>1, <1>2, <1>3, <1>4, <1>5, <1>6 DEF Verdict!Evaluate, OutcomesOf

\* What the lemmas about single actions have in common.
CandidateStep(c) ==
  /\ c \in DOMAIN apis /\ c \in Candidates /\ c <= begun
  /\ Touches(c) /\ StepOf(c) /\ OutcomesOf(c)

LEMMA ReportTouches ==
  ASSUME TypeOK, NEW e \in Evaluations, NEW ev, NEW result \in Results, NEW exhausted,
         Report(e, ev, result, exhausted), outcome[e] \in {"none", "pending"}
  PROVE  Touches(e[1]) /\ OutcomesOf(e[1])
  <1>1. \A f \in Evaluations : f # e => outcome'[f] = outcome[f]
    BY DEF Report, TypeOK
  <1>2. outcome'[e] = result /\ result # "none"
    BY DEF Report, TypeOK, Results
  <1>3. \A f \in Evaluations : f[1] # e[1] => outcome'[f] = outcome[f]
    BY <1>1
  <1>4. PICK c \in Candidates : c = e[1]
    BY EvaluationFacts
  <1>5. PICK o : Conclude(e[1], o)
    BY DEF Report
  <1>6. Conclude(c, o)
    BY <1>4, <1>5
  <1>7. Touches(c)
    BY <1>3, <1>4, <1>6, ConcludeTouches
  <1> QED
    BY <1>1, <1>2, <1>4, <1>7 DEF OutcomesOf

LEMMA SchemeReported ==
  ASSUME TypeOK, LoopsInv, NEW e \in Evaluations, NEW type, AtScheme(e, type),
         NEW result \in Results, Report(e, Started(e), result, FALSE)
  PROVE  CandidateStep(e[1])
  <1>1. /\ e[1] = begun /\ e[1] \in DOMAIN apis /\ Started(e) \in Evals
        /\ e[2] \in DOMAIN apis[e[1]].reqs /\ e[3] \in DOMAIN apis[e[1]].reqs[e[2]]
    BY AtSchemeFacts DEF LoopsInv
  <1>2. outcome[e] = "none"
    BY FreshAtScheme
  <1>3. PlacesStay(e)
    BY SchemePlaces DEF PlacesStay
  <1>4. HasStarted(e, Started(e))
    BY <1>1, StartedFacts DEF HasStarted
  <1>5. /\ SchemesCounted(e[1])' /\ RequirementsCounted(e[1])'
        /\ outcome' = [outcome EXCEPT ![e] = result]
        /\ evals'[e[1]].verdict # evals[e[1]].verdict =>
              /\ Settling(Started(e), e[2], e[3], result, FALSE)
              /\ Deciding(Started(e), e[2], result, FALSE)
              /\ evals'[e[1]].verdict = VerdictOf(result)
    <2> DEFINE ev == Started(e)
    <2>1. HasStarted(e, ev) /\ Report(e, ev, result, FALSE)
      BY <1>4
    <2> HIDE DEF ev
    <2>2. /\ SchemesCounted(e[1])' /\ RequirementsCounted(e[1])'
          /\ outcome' = [outcome EXCEPT ![e] = result]
          /\ evals'[e[1]].verdict # evals[e[1]].verdict =>
                /\ Settling(ev, e[2], e[3], result, FALSE)
                /\ Deciding(ev, e[2], result, FALSE)
                /\ evals'[e[1]].verdict = VerdictOf(result)
      BY <1>2, <1>3, <2>1, ReportCounts
    <2> QED
      BY <2>2 DEF ev
  <1>6. ASSUME evals'[e[1]].verdict # evals[e[1]].verdict
        PROVE  /\ evals[e[1]].verdict = "open"
               /\ Verdict!Decided(outcome', e[1], evals'[e[1]].verdict)
    <2>1. result = "missing"
      BY <1>5, <1>6 DEF Settling, Deciding, Results
    <2>2. evals'[e[1]].verdict = "error" /\ evals[e[1]].verdict = "open"
      BY <1>5, <1>6, <2>1, StartedFacts DEF Deciding, VerdictOf
    <2>3. outcome'[<<e[1], e[2], e[3]>>] = "missing"
      BY <1>5, <2>1, EvaluationFacts, ZenonT(60) DEF TypeOK
    <2>4. Verdict!Undefined(outcome', e[1])
      BY <1>1, <2>3 DEF Verdict!Undefined
    <2> QED
      BY <2>2, <2>4 DEF Verdict!Decided
  <1>7. StepOf(e[1])
    BY <1>5, <1>6 DEF StepOf
  <1>8. Touches(e[1]) /\ OutcomesOf(e[1])
    BY <1>2, ReportTouches
  <1>9. e[1] \in Candidates /\ e[1] <= begun
    BY <1>1, ListFacts, EvaluationFacts
  <1> QED
    BY <1>1, <1>7, <1>8, <1>9 DEF CandidateStep

LEMMA SchemeWaits ==
  ASSUME TypeOK, LoopsInv, NEW e \in Evaluations, NEW type, AtScheme(e, type), Wait(e)
  PROVE  CandidateStep(e[1])
  <1> DEFINE c == e[1]
             r == e[2]
             s == e[3]
  <1>1. /\ c = begun /\ c \in DOMAIN apis /\ Started(e) \in Evals
    BY AtSchemeFacts DEF LoopsInv
  <1>2. outcome[e] = "none"
    BY FreshAtScheme
  <1>3. PlacesStay(e)
    BY SchemePlaces DEF PlacesStay
  <1>4. c \in Candidates /\ r \in Requirements /\ s \in Schemes /\ e = <<c, r, s>>
    BY EvaluationFacts
  <1>5. /\ evals'[c] = Started(e) /\ \A b \in Candidates \ {c} : evals'[b] = evals[b]
        /\ matches' = matches
    BY <1>4 DEF Wait, TypeOK
  <1>6. /\ outcome'[e] = "pending" /\ \A f \in Evaluations \ {e} : outcome'[f] = outcome[f]
    BY DEF Wait, TypeOK
  <1>7. \A q \in Requirements : \A t \in Schemes :
          <<q, t>> # <<r, s>> => outcome'[<<c, q, t>>] = outcome[<<c, q, t>>]
    <2>1. \A q \in Requirements : \A t \in Schemes : <<c, q, t>> \in Evaluations
      BY <1>4 DEF Evaluations, Schemes
    <2> QED
      BY <1>4, <1>6, <2>1
  <1>8. /\ Started(e).inner[r].left = evals[c].inner[r].left \cup {s}
        /\ Started(e).inner[r].settled = evals[c].inner[r].settled
        /\ \A q \in Requirements \ {r} : Started(e).inner[q] = evals[c].inner[q]
        /\ Started(e).left = evals[c].left /\ Started(e).verdict = evals[c].verdict
    BY StartedFacts
  <1>9. /\ Opened(c, r) /\ Reached(c, r, s)'
        /\ \A q \in Requirements : Opened(c, q)' <=> Opened(c, q)
        /\ \A q \in Requirements : \A t \in Schemes :
             <<q, t>> # <<r, s>> => (Reached(c, q, t)' <=> Reached(c, q, t))
    BY <1>3 DEF PlacesStay
  <1>10. SchemesCounted(c) /\ RequirementsCounted(c)
    BY <1>4 DEF LoopsInv
  <1>11. e = <<c, r, s>> /\ outcome'[<<c, r, s>>] = "pending" /\ outcome[<<c, r, s>>] = "none"
    BY <1>2, <1>4, <1>6
  <1>12. Touches(c) /\ OutcomesOf(c)
    BY <1>2, <1>5, <1>6, <1>8 DEF Touches, OutcomesOf
  <1> HIDE DEF c, r, s
  <1>13. SchemesCounted(c)'
    <2> SUFFICES ASSUME NEW q \in Requirements, NEW t \in Schemes
                 PROVE  /\ outcome'[<<c, q, t>>] # "none" <=> Reached(c, q, t)'
                        /\ t \in evals'[c].inner[q].left <=> outcome'[<<c, q, t>>] = "pending"
      BY DEF SchemesCounted
    <2>1. CASE <<q, t>> = <<r, s>>
      BY <1>5, <1>8, <1>9, <1>11, <2>1
    <2>2. CASE <<q, t>> # <<r, s>>
      <3>1. t \in evals'[c].inner[q].left <=> t \in evals[c].inner[q].left
        BY <1>5, <1>8, <2>2
      <3> QED
        BY <1>7, <1>9, <1>10, <2>2, <3>1 DEF SchemesCounted
    <2> QED
      BY <2>1, <2>2
  <1>14. RequirementsCounted(c)'
    <2> SUFFICES ASSUME NEW q \in Requirements
                 PROVE  /\ evals'[c].inner[q].settled => Opened(c, q)'
                        /\ q \in evals'[c].left <=> Opened(c, q)' /\ ~evals'[c].inner[q].settled
                        /\ ~evals'[c].inner[q].settled =>
                             \A t \in Schemes : outcome'[<<c, q, t>>] \notin {"fail", "missing"}
                        /\ (evals'[c].inner[q].settled /\ evals'[c].verdict = "open") =>
                             \E t \in Schemes : outcome'[<<c, q, t>>] = "fail"
      BY DEF RequirementsCounted
    <2>1. evals'[c].inner[q].settled = evals[c].inner[q].settled
      BY <1>5, <1>8
    <2>2. \A t \in Schemes : outcome'[<<c, q, t>>] = outcome[<<c, q, t>>]
                             \/ (outcome'[<<c, q, t>>] = "pending"
                                 /\ outcome[<<c, q, t>>] = "none")
      BY <1>7, <1>11
    <2> QED
      BY <1>5, <1>8, <1>9, <1>10, <2>1, <2>2 DEF RequirementsCounted
  <1>15. StepOf(c)
    BY <1>5, <1>8, <1>13, <1>14 DEF StepOf
  <1>16. c <= begun
    BY <1>1, ListFacts
  <1> QED
    BY <1>1, <1>4, <1>12, <1>15, <1>16 DEF CandidateStep, c

\* While the loops rest, all of the places of a candidate that has begun, and is
\* open, were reached.
LEMMA AllReached ==
  ASSUME TypeOK, LoopsInv, loop = Idle, NEW c \in 1..begun, ~NothingRequired(apis[c]),
         evals[c].verdict = "open"
  PROVE  /\ \A r \in DOMAIN apis[c].reqs : r \in Requirements /\ Opened(c, r)
         /\ \A r \in DOMAIN apis[c].reqs : \A s \in DOMAIN apis[c].reqs[r] :
              s \in Schemes /\ Reached(c, r, s) /\ outcome[<<c, r, s>>] # "none"
  <1>1. c \in DOMAIN apis /\ c \in Candidates
    BY ListFacts
  <1>2. /\ DOMAIN apis[c].reqs \subseteq Requirements
        /\ \A r \in DOMAIN apis[c].reqs : DOMAIN apis[c].reqs[r] \subseteq Schemes
    BY <1>1, ListFacts
  <1>3. At(c).req = 0
    <2>1. loop.req = 0
      BY DEF Idle
    <2>2. broken[c].req = 0
      BY <1>1 DEF LoopsInv, InOrder
    <2> QED
      BY <2>1, <2>2 DEF At
  <1>4. \A r \in DOMAIN apis[c].reqs : Opened(c, r)
    BY <1>3 DEF Opened
  <1>5. ASSUME NEW r \in DOMAIN apis[c].reqs, NEW s \in DOMAIN apis[c].reqs[r]
        PROVE  s \in Schemes /\ Reached(c, r, s) /\ outcome[<<c, r, s>>] # "none"
    <2>1. r # 0
      BY <1>2 DEF Requirements
    <2>2. Reached(c, r, s)
      BY <1>3, <1>4, <2>1 DEF Reached
    <2> QED
      BY <1>1, <1>2, <2>2 DEF LoopsInv, SchemesCounted
  <1> QED
    BY <1>2, <1>4, <1>5

LEMMA AnswerReported ==
  ASSUME TypeOK, LoopsInv, NEW e \in Evaluations, loop = Idle, outcome[e] = "pending",
         UNCHANGED <<apis, begun, loop, broken>>,
         NEW result \in {"pass", "fail"}, Report(e, evals[e[1]], result, TRUE)
  PROVE  CandidateStep(e[1])
  <1> DEFINE c == e[1]
             r == e[2]
             s == e[3]
             ev == evals[c]
  <1>1. c \in Candidates /\ r \in Requirements /\ s \in Schemes /\ e = <<c, r, s>>
    BY EvaluationFacts
  <1>2. /\ Reached(c, r, s) /\ Opened(c, r) /\ c \in DOMAIN apis /\ c \in 1..begun
        /\ r \in DOMAIN apis[c].reqs /\ s \in DOMAIN apis[c].reqs[r]
        /\ ~NothingRequired(apis[c])
    BY ReachedFacts DEF Opened
  <1>3. SchemesCounted(c) /\ RequirementsCounted(c) /\ ev \in Evals
    BY <1>1 DEF LoopsInv, TypeOK
  <1>4. s \in ev.inner[r].left
    BY <1>1, <1>3 DEF SchemesCounted
  <1>5. HasStarted(e, ev)
    BY <1>3, <1>4 DEF HasStarted
  <1>6. PlacesStay(e)
    BY <1>2, AtKept, PlacesKept DEF PlacesStay
  <1>7. result \in Results
    BY DEF Results
  <1>8. Touches(c) /\ OutcomesOf(c)
    BY <1>7, ReportTouches
  <1>9. /\ SchemesCounted(c)' /\ RequirementsCounted(c)'
        /\ outcome' = [outcome EXCEPT ![e] = result]
        /\ evals'[c].verdict # evals[c].verdict =>
              /\ Settling(ev, r, s, result, TRUE)
              /\ Deciding(ev, r, result, TRUE)
              /\ evals'[c].verdict = VerdictOf(result)
    <2>1. Report(e, ev, result, TRUE)
      OBVIOUS
    <2> HIDE DEF ev
    <2> QED
      BY <1>5, <1>6, <1>7, <2>1, ReportCounts
  <1>10. /\ outcome'[<<c, r, s>>] = result
         /\ \A q \in Requirements : \A t \in Schemes :
              <<q, t>> # <<r, s>> => outcome'[<<c, q, t>>] = outcome[<<c, q, t>>]
    <2>1. outcome'[e] = result /\ \A f \in Evaluations \ {e} : outcome'[f] = outcome[f]
      BY <1>9 DEF TypeOK
    <2>2. \A q \in Requirements : \A t \in Schemes : <<c, q, t>> \in Evaluations
      BY <1>1 DEF Evaluations, Schemes
    <2> QED
      BY <1>1, <2>1, <2>2
  <1>11. ASSUME evals[c].verdict = "open"
         PROVE  /\ \A q \in DOMAIN apis[c].reqs : q \in Requirements /\ Opened(c, q)
                /\ \A q \in DOMAIN apis[c].reqs : \A t \in DOMAIN apis[c].reqs[q] :
                     t \in Schemes /\ Reached(c, q, t) /\ outcome[<<c, q, t>>] # "none"
    BY <1>2, <1>11, AllReached
  <1>12. outcome \in OutcomeType
    BY DEF TypeOK, OutcomeType
  <1> HIDE DEF ev, c, r, s
  <1>13. ASSUME evals'[c].verdict # evals[c].verdict
         PROVE  evals[c].verdict = "open" /\ Verdict!Decided(outcome', c, evals'[c].verdict)
    <2>1. /\ Settling(ev, r, s, result, TRUE) /\ Deciding(ev, r, result, TRUE)
          /\ evals'[c].verdict = VerdictOf(result) /\ evals[c].verdict = "open"
      BY <1>9, <1>13 DEF Deciding, ev
    <2>2. CASE result = "pass"
      <3>1. ev.inner[r].left \ {s} = {} /\ ~ev.inner[r].settled
        BY <2>1, <2>2 DEF Settling
      <3>2. ASSUME NEW t \in DOMAIN apis[c].reqs[r] PROVE outcome'[<<c, r, t>>] = "pass"
        <4>1. CASE t = s
          BY <1>10, <2>2, <4>1
        <4>2. CASE t # s
          <5>1. t \in Schemes /\ outcome[<<c, r, t>>] # "none"
            BY <1>2, <1>11, <2>1
          <5>2. t \notin ev.inner[r].left
            BY <3>1, <4>2
          <5>3. outcome[<<c, r, t>>] # "pending"
            BY <1>1, <1>3, <5>1, <5>2 DEF SchemesCounted, ev
          <5>4. outcome[<<c, r, t>>] \notin {"fail", "missing"}
            BY <1>1, <1>3, <3>1, <5>1 DEF RequirementsCounted, ev
          <5>5. <<c, r, t>> \in Evaluations
            BY <1>1, <5>1 DEF Evaluations, Schemes
          <5>6. outcome[<<c, r, t>>] = "pass"
            BY <1>12, <5>1, <5>3, <5>4, <5>5 DEF OutcomeType
          <5> QED
            BY <1>1, <1>10, <4>2, <5>1, <5>6
        <4> QED
          BY <4>1, <4>2
      <3>3. Verdict!Granted(outcome', c)
        BY <1>2, <3>2 DEF Verdict!Granted
      <3> QED
        BY <2>1, <2>2, <3>3 DEF VerdictOf, Verdict!Decided
    <2>3. CASE result = "fail"
      <3>1. ev.left \ {r} = {}
        BY <2>1, <2>3 DEF Deciding
      <3>2. ASSUME NEW q \in DOMAIN apis[c].reqs
            PROVE  \E t \in DOMAIN apis[c].reqs[q] : outcome'[<<c, q, t>>] = "fail"
        <4>1. CASE q = r
          BY <1>2, <1>10, <2>3, <4>1
        <4>2. CASE q # r
          <5>1. q \in Requirements /\ Opened(c, q) /\ q \notin ev.left
            BY <1>11, <2>1, <3>1, <4>2
          <5>2. ev.inner[q].settled
            BY <1>3, <5>1 DEF RequirementsCounted, ev
          <5>3. PICK t \in Schemes : outcome[<<c, q, t>>] = "fail"
            BY <1>3, <2>1, <5>1, <5>2 DEF RequirementsCounted, ev
          <5>4. t \in DOMAIN apis[c].reqs[q]
            BY <1>3, <5>1, <5>3 DEF SchemesCounted, Reached
          <5>5. outcome'[<<c, q, t>>] = "fail"
            BY <1>10, <4>2, <5>1, <5>3
          <5> QED
            BY <5>4, <5>5
        <4> QED
          BY <4>1, <4>2
      <3>3. Verdict!Refused(outcome', c)
        BY <3>2 DEF Verdict!Refused
      <3> QED
        BY <2>1, <2>3, <3>3 DEF VerdictOf, Verdict!Decided
    <2> QED
      BY <2>2, <2>3
  <1>14. StepOf(c)
    BY <1>9, <1>13 DEF StepOf
  <1> QED
    BY <1>1, <1>2, <1>8, <1>14 DEF CandidateStep, c

\* The inner loop ends: no place is new.
LEMMA EndRequirementStep ==
  ASSUME TypeOK, LoopsInv, EndRequirement
  PROVE  \E c \in Candidates : c = begun /\ CandidateStep(c)
  <1>1. /\ begun \in DOMAIN apis /\ begun \in Candidates /\ evals[begun] \in Evals
        /\ ~NothingRequired(apis[begun])
        /\ loop.req \in DOMAIN apis[begun].reqs /\ loop.req \in Requirements
        /\ Len(apis[begun].reqs[loop.req]) \in Nat /\ loop.req \in Nat /\ loop.req # 0
    BY LoopFacts DEF EndRequirement, Running, LoopsInv
  <1>2. /\ apis' = apis /\ begun' = begun /\ outcome' = outcome
        /\ loop' = [req |-> loop.req + 1, sch |-> 0]
        /\ loop.sch = Len(apis[begun].reqs[loop.req]) + 1
    BY DEF EndRequirement, inputs
  <1>3. PICK c \in Candidates : c = begun
    BY <1>1
  <1>4. PICK r \in Requirements : r = loop.req
    BY <1>1
  <1> DEFINE ev == evals[c]
             o == IF ev.inner[r].left = {} THEN Settle(ev, r, "pass", FALSE) ELSE ev
             settling == ev.inner[r].left = {} /\ ~ev.inner[r].settled
  <1>5. Conclude(c, o)
    BY <1>3, <1>4 DEF EndRequirement
  <1>6. /\ DOMAIN apis[c].reqs[r] = 1..Len(apis[c].reqs[r]) /\ r \in DOMAIN apis[c].reqs
        /\ DOMAIN apis[c].reqs[r] \subseteq Schemes
        /\ Requirements \subseteq Nat /\ Schemes \subseteq Nat \ {0} /\ c \in Nat \ {0}
    BY <1>1, <1>3, <1>4, ListFacts DEF Requirements, Schemes, Candidates
  <1>7. /\ o.inner[r].left = ev.inner[r].left
        /\ o.inner[r].settled = (ev.inner[r].settled \/ settling)
        /\ \A q \in Requirements \ {r} : o.inner[q] = ev.inner[q]
        /\ o.left = IF settling THEN ev.left \ {r} ELSE ev.left
        /\ o.verdict = IF settling /\ ev.verdict = "open" THEN "passed" ELSE ev.verdict
    <2>1. ev \in Evals /\ ev.inner[r].settled \in BOOLEAN
          /\ ev.inner \in [Requirements -> [left: SUBSET Schemes, settled: BOOLEAN]]
      BY <1>1, <1>3 DEF Evals
    <2>2. CASE ev.inner[r].left = {}
      <3> DEFINE p == Settle(ev, r, "pass", FALSE)
      <3>1. /\ p.inner = [ev.inner EXCEPT ![r].settled = TRUE]
            /\ p.left = IF ev.inner[r].settled THEN ev.left ELSE ev.left \ {r}
            /\ p.verdict = IF ~ev.inner[r].settled /\ Deciding(ev, r, "pass", FALSE)
                           THEN VerdictOf("pass") ELSE ev.verdict
        BY <2>1, SettleFacts DEF Results
      <3>2. o = p
        BY <2>2
      <3>3. Deciding(ev, r, "pass", FALSE) = (ev.verdict = "open") /\ VerdictOf("pass") = "passed"
        BY DEF Deciding, VerdictOf
      <3> HIDE DEF p, o, ev
      <3>4. settling = ~ev.inner[r].settled
        BY <2>1, <2>2
      <3>5. /\ p.inner[r].left = ev.inner[r].left /\ p.inner[r].settled = TRUE
            /\ \A q \in Requirements \ {r} : p.inner[q] = ev.inner[q]
        BY <2>1, <3>1
      <3>6. TRUE = (ev.inner[r].settled \/ settling)
        BY <2>1, <3>4
      <3> QED
        BY <3>1, <3>2, <3>3, <3>4, <3>5, <3>6
    <2>3. CASE ev.inner[r].left # {}
      <3>1. o = ev /\ settling = FALSE
        BY <2>3
      <3> HIDE DEF o, ev, settling
      <3> QED
        BY <2>1, <3>1
    <2> QED
      BY <2>2, <2>3
  <1>8. Touches(c) /\ evals'[c] = o
    BY <1>2, <1>5, ConcludeTouches
  <1> HIDE DEF o
  <1>9. SchemesCounted(c) /\ RequirementsCounted(c)
    BY DEF LoopsInv
  <1>10. /\ c \in 1..begun /\ loop'.req = r + 1 /\ loop'.sch = 0 /\ loop.sch > 0
         /\ r + 1 # 0
    BY <1>1, <1>2, <1>3, <1>4, <1>6
  <1>19. At(c) = loop /\ At(c)' = loop'
    BY <1>1, <1>2, <1>3, <1>10 DEF At
  <1>11. ASSUME NEW q \in Requirements
         PROVE  Opened(c, q)' <=> Opened(c, q)
    <2>1. q \in Nat /\ r \in Nat
      BY <1>6
    <2>2. (q < r + 1 \/ (q = r + 1 /\ 0 > 0)) <=> (q < r \/ q = r)
      BY <2>1
    <2> QED
      BY <1>1, <1>2, <1>3, <1>4, <1>10, <1>19, <2>1, <2>2 DEF Opened, NothingRequired
  <1>12. ASSUME NEW q \in Requirements, NEW t \in Schemes
         PROVE  Reached(c, q, t)' <=> Reached(c, q, t)
    <2>1. q \in Nat /\ r \in Nat /\ t \in Nat /\ t # 0
      BY <1>6
    <2>2. CASE q = r
      <3>1. t \in DOMAIN apis[c].reqs[r] => t < loop.sch
        BY <1>1, <1>2, <1>3, <1>4, <1>6, <2>1
      <3>2. q # r + 1
        BY <2>1, <2>2
      <3> QED
        BY <1>2, <1>3, <1>4, <1>10, <1>11, <1>19, <2>2, <3>1, <3>2 DEF Reached
    <2>3. CASE q # r
      <3>1. Opened(c, q) => q # r + 1
        BY <1>1, <1>3, <1>4, <1>19, <2>1, <2>3 DEF Opened
      <3> QED
        BY <1>2, <1>3, <1>4, <1>10, <1>11, <1>19, <2>3, <3>1 DEF Reached
    <2> QED
      BY <2>2, <2>3
  <1>13. Opened(c, r)
    BY <1>1, <1>3, <1>4, <1>6, <1>10, <1>19 DEF Opened
  <1>14. SchemesCounted(c)'
    <2>1. \A q \in Requirements : evals'[c].inner[q].left = evals[c].inner[q].left
      BY <1>7, <1>8
    <2> QED
      BY <1>2, <1>9, <1>12, <2>1 DEF SchemesCounted
  <1>15. RequirementsCounted(c)'
    <2>0. /\ ev.inner[r].settled \in BOOLEAN
      BY <1>1, <1>3 DEF Evals
    <2> SUFFICES ASSUME NEW q \in Requirements
                 PROVE  /\ evals'[c].inner[q].settled => Opened(c, q)'
                        /\ q \in evals'[c].left <=> Opened(c, q)' /\ ~evals'[c].inner[q].settled
                        /\ ~evals'[c].inner[q].settled =>
                             \A t \in Schemes : outcome'[<<c, q, t>>] \notin {"fail", "missing"}
                        /\ (evals'[c].inner[q].settled /\ evals'[c].verdict = "open") =>
                             \E t \in Schemes : outcome'[<<c, q, t>>] = "fail"
      BY DEF RequirementsCounted
    <2>1. evals'[c].inner[q].settled <=> (evals[c].inner[q].settled \/ (q = r /\ settling))
      BY <1>7, <1>8, <2>0
    <2>2. q \in evals'[c].left <=> (q \in evals[c].left /\ ~(q = r /\ settling))
      BY <1>7, <1>8
    <2>3. evals'[c].verdict = "open" => evals[c].verdict = "open" /\ ~settling
      BY <1>7, <1>8
    <2> QED
      BY <1>2, <1>9, <1>11, <1>13, <2>1, <2>2, <2>3 DEF RequirementsCounted
  <1>16. ASSUME evals'[c].verdict # evals[c].verdict
         PROVE  evals[c].verdict = "open" /\ Verdict!Decided(outcome', c, evals'[c].verdict)
    <2>1. settling /\ evals[c].verdict = "open" /\ evals'[c].verdict = "passed"
      BY <1>7, <1>8, <1>16
    <2>2. ASSUME NEW t \in DOMAIN apis[c].reqs[r] PROVE outcome'[<<c, r, t>>] = "pass"
      <3>1. t \in Schemes /\ t < loop.sch
        BY <1>1, <1>2, <1>3, <1>4, <1>6
      <3>2. Reached(c, r, t)
        BY <1>3, <1>4, <1>13, <1>19, <3>1 DEF Reached
      <3>3. /\ outcome[<<c, r, t>>] # "none" /\ outcome[<<c, r, t>>] # "pending"
            /\ outcome[<<c, r, t>>] \notin {"fail", "missing"}
        BY <1>9, <2>1, <3>1, <3>2 DEF SchemesCounted, RequirementsCounted
      <3>4. <<c, r, t>> \in Evaluations
        BY <3>1 DEF Evaluations, Schemes
      <3> QED
        BY <1>2, <3>3, <3>4 DEF TypeOK
    <2>3. Verdict!Granted(outcome', c)
      BY <1>6, <2>2 DEF Verdict!Granted
    <2> QED
      BY <2>1, <2>3 DEF Verdict!Decided
  <1>17. StepOf(c)
    BY <1>14, <1>15, <1>16 DEF StepOf
  <1>18. OutcomesOf(c)
    BY <1>2 DEF OutcomesOf
  <1> QED
    BY <1>1, <1>3, <1>8, <1>10, <1>17, <1>18 DEF CandidateStep

\* The outer loop ends.
LEMMA EndRequirementsStep ==
  ASSUME TypeOK, LoopsInv, EndRequirements
  PROVE  \E c \in Candidates : c = begun /\ CandidateStep(c)
  <1>1. /\ begun \in DOMAIN apis /\ begun \in Candidates /\ evals[begun] \in Evals
        /\ ~NothingRequired(apis[begun]) /\ Len(apis[begun].reqs) \in Nat
    BY LoopFacts DEF EndRequirements, LoopsInv
  <1>2. /\ apis' = apis /\ begun' = begun /\ outcome' = outcome /\ loop' = Idle
        /\ loop.req = Len(apis[begun].reqs) + 1
    BY DEF EndRequirements, inputs
  <1>3. PICK c \in Candidates : c = begun
    BY <1>1
  <1> DEFINE ev == evals[c]
             o == IF ev.left = {} /\ ev.verdict = "open"
                  THEN [ev EXCEPT !.verdict = "refused"] ELSE ev
  <1>4. Conclude(c, o)
    BY <1>3 DEF EndRequirements
  <1>5. /\ o.inner = ev.inner /\ o.left = ev.left
        /\ o.verdict = IF ev.left = {} /\ ev.verdict = "open" THEN "refused" ELSE ev.verdict
    BY <1>1, <1>3 DEF Evals
  <1>6. Touches(c) /\ evals'[c] = o
    BY <1>2, <1>4, ConcludeTouches
  <1> HIDE DEF o
  <1>7. SchemesCounted(c) /\ RequirementsCounted(c)
    BY DEF LoopsInv
  <1>8. /\ DOMAIN apis[c].reqs = 1..Len(apis[c].reqs) /\ c \in 1..begun
        /\ Requirements \subseteq Nat \ {0}
    BY <1>1, <1>3, ListFacts DEF Requirements, Candidates
  <1>9. At(c) = loop /\ At(c)'.req = 0
    <2>1. loop.req # 0 /\ loop'.req = 0 /\ broken' = broken
      BY <1>2 DEF Idle, EndRequirements, Running
    <2>2. broken[c].req = 0
      BY <1>3, <2>1 DEF LoopsInv, InOrder
    <2> QED
      BY <1>2, <1>3, <2>1, <2>2 DEF At
  <1>10. ASSUME NEW q \in Requirements
         PROVE  /\ Opened(c, q)' <=> Opened(c, q)
                /\ Opened(c, q)' <=> q \in DOMAIN apis[c].reqs
    <2>1. q \in DOMAIN apis[c].reqs => q < loop.req
      BY <1>1, <1>2, <1>3, <1>8
    <2> QED
      BY <1>1, <1>2, <1>3, <1>8, <1>9, <2>1 DEF Opened, NothingRequired
  <1>11. ASSUME NEW q \in Requirements, NEW t \in Schemes
         PROVE  Reached(c, q, t)' <=> Reached(c, q, t)
    <2>1. q \in DOMAIN apis[c].reqs => q # loop.req /\ q # 0
      BY <1>1, <1>2, <1>3, <1>8
    <2> QED
      BY <1>2, <1>9, <1>10, <2>1 DEF Reached, Opened
  <1>12. SchemesCounted(c)'
    BY <1>2, <1>5, <1>6, <1>7, <1>11 DEF SchemesCounted
  <1>13. RequirementsCounted(c)'
    <2>1. evals'[c].verdict = "open" => evals[c].verdict = "open"
      BY <1>5, <1>6
    <2> QED
      BY <1>2, <1>5, <1>6, <1>7, <1>10, <2>1 DEF RequirementsCounted
  <1>14. ASSUME evals'[c].verdict # evals[c].verdict
         PROVE  evals[c].verdict = "open" /\ Verdict!Decided(outcome', c, evals'[c].verdict)
    <2>1. evals[c].left = {} /\ evals[c].verdict = "open" /\ evals'[c].verdict = "refused"
      BY <1>5, <1>6, <1>14
    <2>2. ASSUME NEW q \in DOMAIN apis[c].reqs
          PROVE  \E t \in DOMAIN apis[c].reqs[q] : outcome'[<<c, q, t>>] = "fail"
      <3>1. q \in Requirements
        BY <1>1, <1>3, ListFacts
      <3>2. evals[c].inner[q].settled
        BY <1>7, <1>10, <2>1, <3>1 DEF RequirementsCounted
      <3>3. PICK t \in Schemes : outcome[<<c, q, t>>] = "fail"
        BY <1>7, <2>1, <3>1, <3>2 DEF RequirementsCounted
      <3>4. t \in DOMAIN apis[c].reqs[q]
        BY <1>7, <3>1, <3>3 DEF SchemesCounted, Reached
      <3> QED
        BY <1>2, <3>3, <3>4
    <2>3. Verdict!Refused(outcome', c)
      BY <2>2 DEF Verdict!Refused
    <2> QED
      BY <2>1, <2>3 DEF Verdict!Decided
  <1>15. StepOf(c)
    BY <1>12, <1>13, <1>14 DEF StepOf
  <1>16. OutcomesOf(c)
    BY <1>2 DEF OutcomesOf
  <1> QED
    BY <1>1, <1>3, <1>6, <1>8, <1>15, <1>16 DEF CandidateStep

\* The loops come to a requirement.
LEMMA BeginRequirementStep ==
  ASSUME TypeOK, LoopsInv, BeginRequirement
  PROVE  \E c \in Candidates : c = begun /\ CandidateStep(c)
  <1>1. /\ begun \in DOMAIN apis /\ begun \in Candidates /\ evals[begun] \in Evals
        /\ ~NothingRequired(apis[begun])
        /\ loop.req \in DOMAIN apis[begun].reqs /\ loop.req \in Requirements
    BY LoopFacts DEF BeginRequirement, Running, LoopsInv
  <1>2. /\ apis' = apis /\ begun' = begun /\ outcome' = outcome /\ matches' = matches
        /\ loop' = [loop EXCEPT !.sch = 1] /\ loop.sch = 0
        /\ evals' = [evals EXCEPT ![begun].left = @ \cup {loop.req}]
    BY DEF BeginRequirement, inputs
  <1>3. PICK c \in Candidates : c = begun
    BY <1>1
  <1>4. PICK r \in Requirements : r = loop.req
    BY <1>1
  <1>5. /\ evals'[c].inner = evals[c].inner /\ evals'[c].verdict = evals[c].verdict
        /\ evals'[c].left = evals[c].left \cup {r}
        /\ \A b \in Candidates \ {c} : evals'[b] = evals[b]
    <2> DEFINE o == [evals[c] EXCEPT !.left = @ \cup {r}]
    <2>1. o.inner = evals[c].inner /\ o.verdict = evals[c].verdict
          /\ o.left = evals[c].left \cup {r}
      BY <1>1, <1>3 DEF Evals
    <2>2. evals' = [evals EXCEPT ![c] = o]
      BY <1>2, <1>3, <1>4
    <2> HIDE DEF o
    <2> QED
      BY <2>1, <2>2 DEF TypeOK
  <1>6. Touches(c) /\ OutcomesOf(c)
    BY <1>2, <1>5 DEF Touches, OutcomesOf
  <1>7. SchemesCounted(c) /\ RequirementsCounted(c)
    BY DEF LoopsInv
  <1>8. /\ c \in 1..begun /\ Requirements \subseteq Nat \ {0} /\ Schemes \subseteq Nat \ {0}
    BY <1>1, <1>3, ListFacts DEF Requirements, Schemes, Candidates
  <1>9. /\ loop'.req = r /\ loop'.sch = 1
        /\ At(c) = loop /\ At(c)' = loop'
    <2>1. loop'.req = r /\ loop'.sch = 1 /\ r # 0
      BY <1>2, <1>4, <1>8 DEF TypeOK, Places
    <2> QED
      BY <1>2, <1>3, <1>4, <2>1 DEF At
  <1>10. ASSUME NEW q \in Requirements
         PROVE  /\ Opened(c, q)' <=> (Opened(c, q) \/ q = r)
                /\ q = r => ~Opened(c, q)
    BY <1>1, <1>2, <1>3, <1>4, <1>8, <1>9 DEF Opened, NothingRequired
  <1>11. ASSUME NEW q \in Requirements, NEW t \in Schemes
         PROVE  Reached(c, q, t)' <=> Reached(c, q, t)
    <2>1. ~(t < 1) /\ ~(t < 0)
      BY <1>8
    <2> QED
      BY <1>2, <1>3, <1>4, <1>9, <1>10, <2>1 DEF Reached
  <1>12. SchemesCounted(c)'
    BY <1>2, <1>5, <1>7, <1>11 DEF SchemesCounted
  <1>13. RequirementsCounted(c)'
    BY <1>2, <1>5, <1>7, <1>10 DEF RequirementsCounted
  <1>14. StepOf(c)
    BY <1>5, <1>12, <1>13 DEF StepOf
  <1> QED
    BY <1>1, <1>3, <1>6, <1>8, <1>14 DEF CandidateStep

\* The next candidate begins.
LEMMA BeginCandidateStep ==
  ASSUME TypeOK, LoopsInv, BeginCandidate
  PROVE  /\ LoopsInv'
         /\ \E c \in Candidates : Verdict!Evaluate(c) /\ Touches(c)
  <1>1. /\ TypeOK' /\ LoopFits' /\ begun' = begun + 1 /\ begun' \in DOMAIN apis
        /\ begun' \in Candidates
        /\ IF NothingRequired(apis[begun'])
           THEN loop' = loop ELSE loop' = [req |-> 1, sch |-> 0]
    BY BeginCandidateTypes DEF LoopsInv
  <1>2. /\ UNCHANGED <<apis, planId, answer, outcome, broken>> /\ loop = Idle
        /\ PreviousDecided /\ loop.req = 0
    BY DEF BeginCandidate, Ready, inputs, Idle
  <1>3. PICK c \in Candidates : c = begun'
    BY <1>1
  <1>4. /\ c = begun + 1 /\ begun \in Nat /\ c \in Nat /\ c \in DOMAIN apis
        /\ \A b \in Candidates : b \in Nat \ {0}
        /\ Requirements \subseteq Nat \ {0}
    BY <1>1, <1>3, ListFacts DEF Candidates, Requirements
  <1>5. /\ evals'[c] = evals[c] \/ (NothingRequired(apis[c])
                                    /\ evals'[c] = [evals[c] EXCEPT !.verdict = "passed"])
        /\ Touches(c)
    <2>1. CASE NothingRequired(apis[c])
      <3>1. Conclude(c, [evals[c] EXCEPT !.verdict = "passed"])
        BY <1>3, <2>1 DEF BeginCandidate, NothingRequired
      <3> QED
        BY <1>2, <2>1, <3>1, ConcludeTouches
    <2>2. CASE ~NothingRequired(apis[c])
      <3>1. evals' = evals /\ matches' = matches
        BY <1>3, <2>2 DEF BeginCandidate, NothingRequired
      <3> QED
        BY <1>2, <3>1 DEF Touches
    <2> QED
      BY <2>1, <2>2
  <1>6. evals[c].verdict = "open"
    BY <1>4 DEF LoopsInv, InOrder
  <1>7. /\ evals'[c].inner = evals[c].inner /\ evals'[c].left = evals[c].left
        /\ evals'[c].verdict # evals[c].verdict =>
             NothingRequired(apis[c]) /\ evals'[c].verdict = "passed"
    BY <1>5 DEF TypeOK, Evals
  <1>8. ASSUME NEW b \in Candidates, NEW r \in Requirements
        PROVE  /\ Opened(b, r)' <=> Opened(b, r)
               /\ \A s \in Schemes : Reached(b, r, s)' <=> Reached(b, r, s)
               /\ b = c => ~Opened(b, r)
    <2>1. r # 0 /\ r \in Nat
      BY <1>4
    <2>2. CASE b = c
      <3>1. ~Opened(b, r)
        BY <1>4, <2>2 DEF Opened
      <3>2. ~Opened(b, r)'
        <4>1. CASE NothingRequired(apis[c])
          BY <1>2, <2>2, <4>1 DEF Opened, NothingRequired
        <4>2. CASE ~NothingRequired(apis[c])
          <5>1. loop'.req = 1 /\ loop'.sch = 0
            BY <1>1, <1>3, <4>2
          <5>2. At(c)' = loop'
            BY <1>3, <5>1 DEF At
          <5> QED
            BY <1>3, <2>1, <2>2, <5>1, <5>2 DEF Opened
        <4> QED
          BY <4>1, <4>2
      <3> QED
        BY <3>1, <3>2 DEF Reached
    <2>3. CASE b # c
      <3>1. b \in 1..begun' <=> b \in 1..begun
        BY <1>3, <1>4, <2>3
      <3>2. At(b)' = At(b)
        BY <1>2, <1>3, <2>3 DEF At
      <3>3. Opened(b, r)' <=> Opened(b, r)
        BY <1>2, <3>1, <3>2 DEF Opened, NothingRequired
      <3> QED
        BY <1>2, <2>3, <3>2, <3>3 DEF Reached
    <2> QED
      BY <2>2, <2>3
  <1>9. ASSUME NEW b \in Candidates
        PROVE  SchemesCounted(b)' /\ RequirementsCounted(b)'
    <2>1. evals'[b].inner = evals[b].inner /\ evals'[b].left = evals[b].left
      BY <1>5, <1>7 DEF Touches
    <2>2. evals'[b].verdict = "open" => evals[b].verdict = "open"
      BY <1>5, <1>6 DEF Touches
    <2>3. SchemesCounted(b) /\ RequirementsCounted(b)
      BY DEF LoopsInv
    <2>4. SchemesCounted(b)'
      BY <1>2, <1>8, <2>1, <2>3 DEF SchemesCounted
    <2>5. RequirementsCounted(b)'
      BY <1>2, <1>8, <2>1, <2>2, <2>3 DEF RequirementsCounted
    <2> QED
      BY <2>4, <2>5
  <1>10. ASSUME NEW b \in Candidates PROVE InOrder(b)'
    <2>1. b < begun' => b < begun \/ b = begun
      BY <1>3, <1>4
    <2>2. b = begun => evals[b].verdict \notin {"open", "thrown"}
      BY <1>2, <1>4 DEF PreviousDecided
    <2>3. b < begun => evals[b].verdict \notin {"open", "thrown"}
      BY DEF LoopsInv, InOrder
    <2>4. b > begun' => b > begun
      BY <1>3, <1>4
    <2>5. b > begun => evals[b].verdict = "open"
      BY DEF LoopsInv, InOrder
    <2>6. (b < begun' \/ b > begun') => evals'[b] = evals[b]
      BY <1>3, <1>4, <1>5 DEF Touches
    <2>7. broken'[b].req # 0 => evals'[b].verdict # "open" /\ b # begun'
      <3>1. broken'[b].req # 0 => evals[b].verdict # "open"
        BY <1>2 DEF LoopsInv, InOrder
      <3>2. b # c => evals'[b] = evals[b]
        BY <1>5 DEF Touches
      <3> QED
        BY <1>3, <1>6, <3>1, <3>2
    <2> QED
      BY <2>1, <2>2, <2>3, <2>4, <2>5, <2>6, <2>7 DEF InOrder
  <1>11. \A b \in Candidates : Matched(b)'
    BY <1>5, <1>6, MatchedKept DEF LoopsInv
  <1>12. LoopsInv'
    BY <1>1, <1>9, <1>10, <1>11 DEF LoopsInv
  <1>13. Verdict!Evaluate(c)
    <2>1. \A b \in Candidates : b < c => evals[b].verdict \notin Verdict!Undecided
      <3> SUFFICES ASSUME NEW b \in Candidates, b < c
                   PROVE  evals[b].verdict \notin {"open", "thrown"}
        BY DEF Verdict!Undecided
      <3>1. b < begun \/ b = begun
        BY <1>4
      <3>2. b = begun => evals[b].verdict \notin {"open", "thrown"}
        BY <1>2, <1>4 DEF PreviousDecided
      <3> QED
        BY <3>1, <3>2 DEF LoopsInv, InOrder
    <2>2. outcome' \in [Evaluations -> Verdict!Outcomes] /\ outcome' = outcome
      BY <1>1, <1>2 DEF TypeOK, Verdict!Outcomes
    <2>3. evals'[c].verdict \in Verdict!Verdicts
      BY <1>1 DEF TypeOK, Evals, Verdict!Verdicts
    <2>4. [b \in Candidates |-> evals'[b].verdict] =
            [[b \in Candidates |-> evals[b].verdict] EXCEPT ![c] = evals'[c].verdict]
      BY <1>5 DEF Touches
    <2>5. evals'[c].verdict # evals[c].verdict =>
            evals[c].verdict = "open" /\ Verdict!Decided(outcome', c, evals'[c].verdict)
      BY <1>6, <1>7 DEF Verdict!Decided, Verdict!Granted, NothingRequired
    <2> QED
      BY <1>2, <1>4, <2>1, <2>2, <2>3, <2>4, <2>5 DEF Verdict!Evaluate
  <1> QED
    BY <1>5, <1>12, <1>13

-----------------------------------------------------------------------------
(* All steps. *)

\* A step of a candidate that has begun keeps the counts and is abstract.
LEMMA CandidateStepFacts ==
  ASSUME TypeOK, LoopsInv, TypeOK', LoopFits', NEW c, CandidateStep(c),
         UNCHANGED <<apis, planId, answer, begun>>, LoopsOf(c)
  PROVE  LoopsInv' /\ Verdict!Evaluate(c) /\ Touches(c) /\ c \in Candidates
  <1>1. /\ c \in DOMAIN apis /\ c \in Candidates /\ c <= begun
        /\ Touches(c) /\ StepOf(c) /\ OutcomesOf(c)
    BY DEF CandidateStep
  <1> QED
    BY <1>1, StepKeepsLoops, StepEvaluates

LEMMA BeginSchemeStep ==
  ASSUME TypeOK, LoopsInv, NEW e \in Evaluations, BeginScheme(e)
  PROVE  LoopsInv' /\ \E c \in Candidates : Verdict!Evaluate(c) /\ Touches(c)
  <1>1. TypeOK' /\ LoopFits'
    BY BeginSchemeTypes DEF LoopsInv
  <1>2. PICK type : AtScheme(e, type)
    BY BeginSchemeFacts DEF LoopsInv
  <1>3. UNCHANGED <<apis, planId, answer, begun, broken>> /\ e[1] = begun /\ loop.req # 0
    BY <1>2, AtSchemeFacts DEF AtScheme, Stands, inputs, LoopsInv
  <1>4. CandidateStep(e[1])
    BY <1>2, SchemeReported, SchemeWaits, BeginSchemeFacts DEF LoopsInv
  <1> DEFINE c == e[1]
  <1>5. CandidateStep(c) /\ LoopsOf(c)
    BY <1>3, <1>4 DEF LoopsOf
  <1> HIDE DEF c
  <1> QED
    BY <1>1, <1>3, <1>5, CandidateStepFacts

LEMMA AnsweredStep ==
  ASSUME TypeOK, LoopsInv, NEW e \in Evaluations, BasicAnswered(e) \/ OauthAnswered(e)
  PROVE  /\ LoopsInv'
         /\ \/ \E c \in Candidates : Verdict!Evaluate(c) /\ Touches(c)
            \/ UNCHANGED <<outcome, evals, matches>>
         /\ UNCHANGED <<apis, planId, answer>>
  <1>1. TypeOK' /\ LoopFits'
    BY AnsweredTypes DEF LoopsInv
  <1>2. /\ UNCHANGED <<apis, planId, answer, begun, loop, broken>>
        /\ loop = Idle /\ outcome[e] = "pending"
    BY AnsweredFacts DEF Ready
  <1>3. CASE UNCHANGED <<outcome, evals, matches>>
    <2>1. \A b \in Candidates : \A r \in Requirements :
            /\ Opened(b, r)' <=> Opened(b, r)
            /\ \A s \in Schemes : Reached(b, r, s)' <=> Reached(b, r, s)
      BY <1>2, AtKept, PlacesKept
    <2>2. \A b \in Candidates : SchemesCounted(b)' /\ RequirementsCounted(b)'
      BY <1>3, <2>1 DEF LoopsInv, SchemesCounted, RequirementsCounted
    <2>3. \A b \in Candidates : InOrder(b)' /\ Matched(b)'
      BY <1>2, <1>3 DEF LoopsInv, InOrder, Matched
    <2> QED
      BY <1>1, <1>2, <1>3, <2>2, <2>3 DEF LoopsInv
  <1>4. CASE \E result \in {"pass", "fail"} : Report(e, evals[e[1]], result, TRUE)
    <2>1. CandidateStep(e[1])
      BY <1>2, <1>4, AnswerReported
    <2> DEFINE c == e[1]
    <2>2. CandidateStep(c) /\ LoopsOf(c)
      BY <1>2, <2>1 DEF LoopsOf
    <2> HIDE DEF c
    <2> QED
      BY <1>1, <1>2, <2>2, CandidateStepFacts
  <1> QED
    BY <1>3, <1>4, AnsweredFacts

\* The other steps of the loops.
LEMMA LoopMoves ==
  ASSUME TypeOK, LoopsInv, BeginRequirement \/ EndRequirement \/ EndRequirements
  PROVE  LoopsInv' /\ \E c \in Candidates : Verdict!Evaluate(c) /\ Touches(c)
  <1>1. TypeOK' /\ LoopFits'
    BY BeginRequirementTypes, EndRequirementTypes, EndRequirementsTypes DEF LoopsInv
  <1>2. UNCHANGED <<apis, planId, answer, begun, broken>> /\ loop.req # 0
    BY DEF BeginRequirement, EndRequirement, EndRequirements, inputs, Running
  <1>3. PICK c \in Candidates : c = begun /\ CandidateStep(c)
    BY BeginRequirementStep, EndRequirementStep, EndRequirementsStep
  <1>4. LoopsOf(c)
    BY <1>2, <1>3 DEF LoopsOf
  <1> QED
    BY <1>1, <1>2, <1>3, <1>4, CandidateStepFacts

\* An exception leaves the counts of its candidate as they are.
LEMMA ThrowsStep ==
  ASSUME TypeOK, LoopsInv, Throws
  PROVE  LoopsInv' /\ \E c \in Candidates : Verdict!Evaluate(c) /\ Touches(c)
  <1>1. TypeOK' /\ LoopFits'
    BY ThrowsTypes DEF LoopsInv
  <1>2. /\ Running /\ begun \in DOMAIN apis /\ begun \in Candidates
        /\ evals[begun] \in Evals
        /\ \E r \in DOMAIN apis[begun].reqs : \E s \in DOMAIN apis[begun].reqs[r] :
             apis[begun].reqs[r][s].type = "oauth2"
        /\ loop' = Idle
        /\ broken' = [broken EXCEPT ![begun] = loop]
        /\ evals' = [evals EXCEPT ![begun].verdict = IF @ = "open" THEN "thrown" ELSE @]
        /\ UNCHANGED <<inputs, basicVars, oauthVars, begun, outcome, clientSecret, matches,
                       status, crashed, answer>>
    BY ThrowsFacts DEF LoopsInv
  <1>3. PICK c \in Candidates : c = begun
    BY <1>2
  <1>4. /\ UNCHANGED <<apis, planId, answer, begun, outcome, matches>>
        /\ loop.req # 0 /\ loop'.req = 0
    BY <1>2 DEF inputs, Running, Idle
  <1>5. /\ evals'[c].inner = evals[c].inner /\ evals'[c].left = evals[c].left
        /\ evals'[c].verdict = (IF evals[c].verdict = "open" THEN "thrown"
                                ELSE evals[c].verdict)
        /\ \A b \in Candidates \ {c} : evals'[b] = evals[b]
    <2> DEFINE ev == [evals[c] EXCEPT !.verdict = IF @ = "open" THEN "thrown" ELSE @]
    <2>1. /\ ev.inner = evals[c].inner /\ ev.left = evals[c].left
          /\ ev.verdict = IF evals[c].verdict = "open" THEN "thrown" ELSE evals[c].verdict
      BY <1>2, <1>3 DEF Evals
    <2>2. evals' = [evals EXCEPT ![c] = ev]
      BY <1>2, <1>3
    <2> HIDE DEF ev
    <2> QED
      BY <2>1, <2>2 DEF TypeOK
  <1>6. Touches(c) /\ OutcomesOf(c)
    BY <1>4, <1>5 DEF Touches, OutcomesOf
  <1>7. broken'[c] = loop /\ \A b \in Candidates \ {c} : broken'[b] = broken[b]
    BY <1>2, <1>3 DEF TypeOK
  <1>8. At(c)' = At(c) /\ LoopsOf(c)
    BY <1>3, <1>4, <1>5, <1>7 DEF At, LoopsOf
  <1>9. \A r, s : (Opened(c, r)' <=> Opened(c, r)) /\ (Reached(c, r, s)' <=> Reached(c, r, s))
    BY <1>4, <1>8, PlacesKept
  <1>10. SchemesCounted(c) /\ RequirementsCounted(c)
    BY DEF LoopsInv
  <1>11. SchemesCounted(c)' /\ RequirementsCounted(c)'
    BY <1>4, <1>5, <1>9, <1>10 DEF SchemesCounted, RequirementsCounted
  <1>12. Verdict!Decided(outcome', c, "thrown")
    BY <1>2, <1>3 DEF Verdict!Decided, Verdict!Throwing
  <1>13. StepOf(c)
    BY <1>5, <1>11, <1>12 DEF StepOf
  <1>14. CandidateStep(c)
    BY <1>2, <1>3, <1>6, <1>13, ListFacts DEF CandidateStep
  <1> QED
    BY <1>1, <1>4, <1>8, <1>14, CandidateStepFacts

LEMMA LoopsKept ==
  ASSUME LoopsInv, UNCHANGED <<apis, begun, loop, evals, broken, outcome, matches>>
  PROVE  LoopsInv'
  <1>1. \A b \in Candidates : \A r \in Requirements :
          /\ Opened(b, r)' <=> Opened(b, r)
          /\ \A s \in Schemes : Reached(b, r, s)' <=> Reached(b, r, s)
    BY AtKept, PlacesKept
  <1>2. \A b \in Candidates : SchemesCounted(b)' /\ RequirementsCounted(b)'
    BY <1>1 DEF LoopsInv, SchemesCounted, RequirementsCounted
  <1>3. \A b \in Candidates : InOrder(b)' /\ Matched(b)'
    BY DEF LoopsInv, InOrder, Matched
  <1>4. LoopFits'
    BY DEF LoopsInv, LoopFits, NothingRequired
  <1> QED
    BY <1>2, <1>3, <1>4 DEF LoopsInv

LEMMA ChooseStep ==
  ASSUME TypeOK, LoopsInv, Choose
  PROVE  Verdict!Choose
  <1>1. /\ answer = None /\ begun = Len(apis) /\ PreviousDecided
        /\ UNCHANGED <<apis, planId, outcome, evals, matches>>
    BY DEF Choose, inputs
  <1>2. /\ DOMAIN apis = 1..Len(apis) /\ DOMAIN apis \subseteq Candidates
        /\ begun \in Nat /\ \A c \in Candidates : c \in Nat \ {0}
    BY ListFacts DEF Candidates
  <1>3. \A c \in DOMAIN apis : evals[c].verdict \notin {"open", "thrown"}
    <2> SUFFICES ASSUME NEW c \in DOMAIN apis PROVE evals[c].verdict \notin {"open", "thrown"}
      OBVIOUS
    <2>1. c = begun \/ c < begun
      BY <1>1, <1>2
    <2>2. c = begun => evals[c].verdict \notin {"open", "thrown"}
      BY <1>1, <1>2 DEF PreviousDecided
    <2> QED
      BY <1>2, <2>1, <2>2 DEF LoopsInv, InOrder
  <1>4. ASSUME NEW c \in Candidates, evals[c].verdict = "passed" PROVE c \in DOMAIN apis
    <2>1. ~(c > begun)
      BY <1>4 DEF LoopsInv, InOrder
    <2> QED
      BY <1>1, <1>2, <2>1
  <1>0. /\ \A d \in DOMAIN apis :
             [b \in Candidates |-> evals[b].verdict][d] \notin Verdict!Undecided
        /\ UNCHANGED <<apis, planId, outcome, [b \in Candidates |-> evals[b].verdict]>>
    BY <1>1, <1>2, <1>3 DEF Verdict!Undecided
  <1> DEFINE c == matches[Champion].api
             champion == apis[c]
  <1>5. CASE matches = <<>>
    <2>1. status' = (IF status = None THEN 401 ELSE status) /\ answer' = [error |-> status']
      BY <1>5 DEF Choose
    <2>2. status' \in Statuses
      BY <2>1 DEF TypeOK, Statuses
    <2> QED
      BY <1>1, <1>0, <2>1, <2>2 DEF Verdict!Choose
  <1>6. CASE /\ matches # <<>>
             /\ \/ ~NothingRequired(champion) /\ ~champion.active
                \/ champion.suspended
    <2>1. answer' = [error |-> 401] \/ answer' = [error |-> 503]
      BY <1>6 DEF Choose
    <2>2. \E code \in Statuses : answer' = [error |-> code]
      BY <2>1 DEF Statuses
    <2> QED
      BY <1>1, <1>0, <2>2 DEF Verdict!Choose
  <1>7. CASE /\ matches # <<>>
             /\ NothingRequired(champion) \/ champion.active
             /\ ~champion.suspended
    <2>1. answer' = [next |-> c]
      BY <1>7 DEF Choose
    <2>2. /\ Champion \in DOMAIN matches /\ c \in Candidates
          /\ Len(matches) > 1 /\ OfPlan # {} => Champion \in OfPlan
          /\ DOMAIN matches = 1..Len(matches) /\ Len(matches) \in Nat
      BY <1>7, ChampionFacts
    <2>3. \A b \in Candidates : evals[b].verdict = "passed" <=>
            \E i \in DOMAIN matches : matches[i].api = b
      BY DEF LoopsInv, Matched
    <2>4. evals[c].verdict = "passed" /\ c \in DOMAIN apis
      BY <1>4, <2>2, <2>3
    <2>5. c \in Verdict!Passed
      BY <2>2, <2>4 DEF Verdict!Passed
    <2>6. \A b \in Verdict!Passed : b \in Candidates /\ evals[b].verdict = "passed"
      BY <1>2 DEF Verdict!Passed
    <2>7. ASSUME \E b \in Verdict!Passed : apis[b].plan = planId, Verdict!Passed # {c}
          PROVE  champion.plan = planId
      <3>1. PICK b \in Verdict!Passed : apis[b].plan = planId
        BY <2>7
      <3>2. PICK i \in DOMAIN matches : matches[i].api = b
        BY <2>3, <2>6
      <3>3. i \in OfPlan
        BY <3>1, <3>2 DEF OfPlan
      <3>4. PICK d \in Verdict!Passed : d # c
        BY <2>5, <2>7
      <3>5. PICK j \in DOMAIN matches : matches[j].api = d
        BY <2>3, <2>6
      <3>6. j # Champion
        BY <3>4, <3>5
      <3>7. Len(matches) > 1
        BY <2>2, <3>6
      <3>8. Champion \in OfPlan
        BY <2>2, <3>3, <3>7
      <3> QED
        BY <3>8 DEF OfPlan
    <2> HIDE DEF c
    <2>8. Verdict!Entitled(c)
      BY <1>7, <2>5, <2>7 DEF Verdict!Entitled, NothingRequired
    <2> QED
      BY <1>1, <1>0, <2>1, <2>5, <2>8 DEF Verdict!Choose
  <1> QED
    BY <1>5, <1>6, <1>7

LEMMA NextLoops ==
  ASSUME TypeOK, LoopsInv, [Next]_vars
  PROVE  LoopsInv' /\ [Verdict!Next]_(Verdict!vars)
  <1>1. ASSUME NEW c \in Candidates, Verdict!Evaluate(c) PROVE [Verdict!Next]_(Verdict!vars)
    BY <1>1 DEF Verdict!Next
  <1>2. ASSUME UNCHANGED <<apis, planId, outcome, evals, answer>>
        PROVE  [Verdict!Next]_(Verdict!vars)
    BY <1>2 DEF Verdict!vars
  <1>3. CASE BeginCandidate
    BY <1>1, <1>3, BeginCandidateStep
  <1>4. CASE BeginRequirement \/ EndRequirement \/ EndRequirements
    BY <1>1, <1>4, LoopMoves
  <1>5. ASSUME NEW e \in Evaluations, BeginScheme(e)
        PROVE  LoopsInv' /\ [Verdict!Next]_(Verdict!vars)
    BY <1>1, <1>5, BeginSchemeStep
  <1>6. ASSUME NEW e \in Evaluations, BasicAnswered(e) \/ OauthAnswered(e)
        PROVE  LoopsInv' /\ [Verdict!Next]_(Verdict!vars)
    BY <1>1, <1>2, <1>6, AnsweredStep
  <1>7. CASE Choose
    <2>1. Verdict!Choose
      BY <1>7, ChooseStep
    <2>2. LoopsInv'
      BY <1>7, LoopsKept DEF Choose, inputs
    <2> QED
      BY <2>1, <2>2 DEF Verdict!Next
  <1>8. CASE TokenUnlisted \/ ConnectionError \/ UNCHANGED vars
    <2>1. UNCHANGED <<apis, planId, begun, loop, outcome, evals, broken, matches, answer>>
      BY <1>8 DEF TokenUnlisted, ConnectionError, checkVars, vars
    <2> QED
      BY <1>2, <2>1, LoopsKept
  <1>9. CASE Throws
    BY <1>1, <1>9, ThrowsStep
  <1> QED
    BY <1>3, <1>4, <1>5, <1>6, <1>7, <1>8, <1>9 DEF Next, LoopStep, BeginScheme, Throws

-----------------------------------------------------------------------------
(* Tokens. *)

\* An outcome is final once it is known.
LEMMA OutcomesFinal ==
  ASSUME TypeOK, LoopsInv, [Next]_vars,
         NEW f \in Evaluations, outcome[f] \notin {"none", "pending"}
  PROVE  outcome'[f] = outcome[f]
  <1>1. ASSUME NEW e \in Evaluations, BeginScheme(e) PROVE outcome'[f] = outcome[f]
    <2>1. outcome[e] = "none" /\ OutcomeLocal(e)
      BY <1>1, FreshAtScheme, BeginSchemeFacts, BeginSchemeLocal DEF LoopsInv
    <2> QED
      BY <2>1 DEF OutcomeLocal
  <1>2. ASSUME NEW e \in Evaluations, BasicAnswered(e) \/ OauthAnswered(e)
        PROVE  outcome'[f] = outcome[f]
    <2>1. outcome[e] = "pending" /\ OutcomeLocal(e)
      BY <1>2, AnsweredFacts, AnsweredLocal
    <2> QED
      BY <2>1 DEF OutcomeLocal
  <1>3. CASE \/ BeginCandidate \/ BeginRequirement \/ EndRequirement \/ EndRequirements
             \/ Throws \/ Choose \/ TokenUnlisted \/ ConnectionError \/ UNCHANGED vars
    BY <1>3, RestUnchanged
  <1> QED
    BY <1>1, <1>2, <1>3 DEF Next, LoopStep, BeginScheme, Throws

\* Tokens stay valid where no scheme passes by another one.
LEMMA TokensKept ==
  ASSUME TypeOK, TokensInv, UNCHANGED <<apis, bearer, oauth>>,
         \A f \in Evaluations : outcome[f] = "pass" => outcome'[f] = "pass",
         \A f \in Evaluations : (outcome'[f] = "pass" /\ Def(f).type = "oauth2") =>
           outcome[f] = "pass" \/ oauth # {}
  PROVE  TokensInv'
  <1>1. \A f \in oauth : f \in Evaluations
    BY DEF TypeOK, OauthTypeOK
  <1>2. \A f \in Evaluations : Def(f)' = Def(f) /\ RequiredScopes(f)' = RequiredScopes(f)
    BY DEF Def, RequiredScopes
  <1>3. \A f \in oauth : /\ outcome'[f] = "pass" /\ bearer'.kind = "genuine"
                         /\ RequiredScopes(f)' \subseteq bearer'.scopes
    BY <1>1, <1>2 DEF TokensInv
  <1>4. ASSUME NEW e \in Evaluations, outcome'[e] = "pass", Def(e)'.type = "oauth2"
        PROVE  oauth # {}
    BY <1>2, <1>4 DEF TokensInv, TokensVerified
  <1> QED
    BY <1>3, <1>4 DEF TokensInv, TokensVerified

LEMMA NextTokens ==
  ASSUME TypeOK, LoopsInv, TokensInv, [Next]_vars
  PROVE  TokensInv'
  <1>0. \A f \in Evaluations : outcome[f] = "pass" => outcome'[f] = "pass"
    BY OutcomesFinal
  <1>1. ASSUME NEW e \in Evaluations, BeginScheme(e) PROVE TokensInv'
    <2>1. OutcomeLocal(e) /\ apis' = apis
      BY <1>1, BeginSchemeLocal DEF LoopsInv
    <2>2. UNCHANGED <<bearer, oauth>>
      BY <1>1 DEF BeginScheme, BeginMissing, BeginApiKey, BeginBasic, BeginOauth2,
         BeginValidation, oauthVars
    <2>3. (outcome'[e] = "pass" /\ Def(e).type = "oauth2") => oauth # {}
      <3>1. ASSUME Def(e).type = "oauth2", outcome'[e] = "pass" PROVE oauth # {}
        <4>1. BeginOauth2(e)
          BY <1>1, <3>1 DEF BeginScheme, BeginMissing, BeginApiKey, BeginBasic, AtScheme, Stands
        <4>2. CASE AnsweredAtOnce
          <5>1. outcome' = [outcome EXCEPT ![e] = IF oauth # {} THEN "pass" ELSE "fail"]
            BY <4>1, <4>2 DEF BeginOauth2, Report
          <5>2. outcome'[e] = IF oauth # {} THEN "pass" ELSE "fail"
            BY <5>1 DEF TypeOK
          <5> QED
            BY <3>1, <5>2
        <4>3. CASE ~AnsweredAtOnce
          <5>1. outcome'[e] = "pending"
            BY <4>1, <4>3 DEF BeginOauth2, Wait, TypeOK
          <5> QED
            BY <3>1, <5>1
        <4> QED
          BY <4>2, <4>3
      <3> QED
        BY <3>1
    <2>4. \A f \in Evaluations : (outcome'[f] = "pass" /\ Def(f).type = "oauth2") =>
            outcome[f] = "pass" \/ oauth # {}
      BY <2>1, <2>3 DEF OutcomeLocal
    <2> QED
      BY <1>0, <2>1, <2>2, <2>4, TokensKept
  <1>2. ASSUME NEW e \in Evaluations, BasicAnswered(e) PROVE TokensInv'
    <2>1. OutcomeLocal(e) /\ UNCHANGED <<apis, bearer, oauth>>
      BY <1>2, AnsweredLocal DEF BasicAnswered, inputs
    <2>2. Def(e).type # "oauth2"
      BY <1>2 DEF BasicAnswered
    <2>3. \A f \in Evaluations : (outcome'[f] = "pass" /\ Def(f).type = "oauth2") =>
            outcome[f] = "pass" \/ oauth # {}
      BY <2>1, <2>2 DEF OutcomeLocal
    <2> QED
      BY <1>0, <2>1, <2>3, TokensKept
  <1>3. ASSUME NEW e \in Evaluations, OauthAnswered(e) PROVE TokensInv'
    <2>1. OutcomeLocal(e) /\ UNCHANGED <<apis, bearer>>
      BY <1>3, AnsweredLocal, ZenonT(60) DEF OauthAnswered, inputs, TokenFound, LookupFailed
    <2>2. CASE oauth' = {e}
      <3>1. CASE oauth' = oauth
        <4>1. outcome[e] # "pass" /\ e \in oauth
          BY <1>3, <2>2, <3>1 DEF OauthAnswered
        <4> QED
          BY <4>1 DEF TokensInv
      <3>2. CASE oauth' # oauth
        <4>1. /\ TokenFound(e, RequiredScopes(e)) /\ Validated(RequiredScopes(e))
              /\ Report(e, evals[e[1]], "pass", TRUE)
          BY <1>3, <3>2 DEF OauthAnswered, TokenFound, LookupFailed
        <4>2. outcome'[e] = "pass"
          BY <4>1 DEF Report, TypeOK
        <4>3. bearer.kind = "genuine" /\ RequiredScopes(e) \subseteq bearer.scopes
          BY <4>1 DEF Validated
        <4>4. RequiredScopes(e)' = RequiredScopes(e)
          BY <2>1 DEF RequiredScopes
        <4> QED
          BY <2>1, <2>2, <4>2, <4>3, <4>4 DEF TokensInv, TokensVerified
      <3> QED
        BY <3>1, <3>2
    <2>3. CASE oauth' # {e}
      <3>1. oauth' = oauth /\ Report(e, evals[e[1]], "fail", TRUE)
        BY <1>3, <2>3 DEF OauthAnswered, TokenFound, LookupFailed
      <3>2. outcome'[e] = "fail"
        BY <3>1 DEF Report, TypeOK
      <3>3. \A f \in Evaluations : (outcome'[f] = "pass" /\ Def(f).type = "oauth2") =>
              outcome[f] = "pass" \/ oauth # {}
        BY <2>1, <3>2 DEF OutcomeLocal
      <3> QED
        BY <1>0, <2>1, <3>1, <3>3, TokensKept
    <2> QED
      BY <2>2, <2>3
  <1>4. CASE \/ BeginCandidate \/ BeginRequirement \/ EndRequirement \/ EndRequirements
             \/ Throws \/ Choose \/ TokenUnlisted \/ ConnectionError \/ UNCHANGED vars
    <2>1. UNCHANGED <<apis, outcome, bearer, oauth>>
      BY <1>4, RestUnchanged
    <2> QED
      BY <1>0, <2>1, TokensKept
  <1> QED
    BY <1>1, <1>2, <1>3, <1>4 DEF Next, LoopStep, BeginScheme, Throws

-----------------------------------------------------------------------------
(* Secrets. *)

LEMMA SecretVerifiedKept ==
  ASSUME NEW c, NEW secret, SecretVerified(c, secret), apis' = apis,
         \A f \in Evaluations : outcome[f] = "pass" => outcome'[f] = "pass"
  PROVE  SecretVerified(c, secret)'
  <1>1. \A f \in Evaluations : Def(f)' = Def(f)
    BY DEF Def
  <1> QED
    BY <1>1 DEF SecretVerified

\* The secret of a new match is the current one of its candidate.
LEMMA HeldStep ==
  ASSUME TypeOK, NEW b \in Candidates, Touches(b) \/ matches' = matches,
         NEW c \in Candidates, NEW secret, Held(c, secret)', clientSecret'[c] # secret
  PROVE  Held(c, secret)
  <1>1. PICK i \in DOMAIN matches' : matches'[i].api = c /\ matches'[i].secret = secret
    BY DEF Held
  <1>2. CASE matches' = matches
    BY <1>1, <1>2 DEF Held
  <1>3. CASE matches' = Append(matches, [api |-> b, secret |-> clientSecret'[b]])
    <2> DEFINE M == [api: Candidates, secret: Secrets \cup {None}]
               m == [api |-> b, secret |-> clientSecret'[b]]
    <2>1. matches \in Seq(M) /\ matches' = Append(matches, m)
      BY <1>3 DEF TypeOK
    <2>2. m.api = b /\ m.secret = clientSecret'[b]
      OBVIOUS
    <2> HIDE DEF M, m
    <2>3. /\ i \in 1..(Len(matches) + 1) /\ Len(matches) \in Nat
          /\ DOMAIN matches = 1..Len(matches) /\ matches'[Len(matches) + 1] = m
          /\ \A k \in DOMAIN matches : matches'[k] = matches[k]
      BY <1>1, <2>1
    <2>4. i # Len(matches) + 1
      BY <1>1, <2>2, <2>3
    <2>5. i \in DOMAIN matches /\ matches'[i] = matches[i]
      BY <2>3, <2>4
    <2> QED
      BY <1>1, <2>5 DEF Held
  <1> QED
    BY <1>2, <1>3 DEF Touches

\* A secret that was verified stays so; a new one has to be.
LEMMA SecretsKept ==
  ASSUME SecretsInv, apis' = apis,
         \A f \in Evaluations : outcome[f] = "pass" => outcome'[f] = "pass",
         \A c \in Candidates : \A secret \in Secrets \cup {None} :
           Held(c, secret)' => Held(c, secret) \/ SecretVerified(c, secret)'
  PROVE  SecretsInv'
  <1> SUFFICES ASSUME NEW c \in Candidates, NEW secret \in Secrets \cup {None},
                      Held(c, secret)'
               PROVE  SecretVerified(c, secret)'
    BY DEF SecretsInv
  <1>1. CASE Held(c, secret)
    <2>1. SecretVerified(c, secret)
      BY <1>1 DEF SecretsInv
    <2> QED
      BY <2>1, SecretVerifiedKept
  <1> QED
    BY <1>1

\* The steps that leave the current secrets as they are.
LEMMA SameSecrets ==
  ASSUME TypeOK, SecretsInv, UNCHANGED <<apis, clientSecret>>,
         matches' = matches \/ \E b \in Candidates : Touches(b),
         \A f \in Evaluations : outcome[f] = "pass" => outcome'[f] = "pass"
  PROVE  SecretsInv'
  <1>1. ASSUME NEW c \in Candidates, NEW secret \in Secrets \cup {None}, Held(c, secret)'
        PROVE  Held(c, secret)
    <2>1. CASE clientSecret'[c] = secret
      BY <2>1 DEF Held
    <2>2. CASE clientSecret'[c] # secret
      BY <1>1, <2>2, HeldStep
    <2> QED
      BY <2>1, <2>2
  <1> QED
    BY <1>1, SecretsKept

LEMMA BeginRequirementSecrets ==
  ASSUME TypeOK, SecretsInv, BeginRequirement
  PROVE  SecretsInv'
  <1>1. UNCHANGED <<apis, outcome, matches>>
    BY DEF BeginRequirement, inputs
  <1>2. ASSUME NEW c \in Candidates PROVE clientSecret'[c] \in {clientSecret[c], None}
    BY DEF BeginRequirement, TypeOK
  <1>3. ASSUME NEW c \in Candidates, NEW secret \in Secrets \cup {None}, Held(c, secret)'
        PROVE  Held(c, secret) \/ SecretVerified(c, secret)'
    BY <1>1, <1>2, <1>3 DEF Held, SecretVerified
  <1> QED
    BY <1>1, <1>3, SecretsKept

\* A key that passes leaves the secret of its subscription.
LEMMA BeginApiKeySecrets ==
  ASSUME TypeOK, LoopsInv, SecretsInv, NEW e \in Evaluations, BeginApiKey(e),
         \A f \in Evaluations : outcome[f] = "pass" => outcome'[f] = "pass",
         \E b \in Candidates : Touches(b)
  PROVE  SecretsInv'
  <1>1. AtScheme(e, "apiKey")
    BY DEF BeginApiKey
  <1>2. begun = e[1] /\ apis' = apis
    BY <1>1, AtSchemeFacts DEF AtScheme, Stands, inputs, LoopsInv
  <1>3. Def(e)' = Def(e) /\ Def(e).type = "apiKey"
    BY <1>1, <1>2 DEF Def, AtScheme, Stands
  <1>4. ASSUME NEW c \in Candidates, NEW secret \in Secrets \cup {None},
               clientSecret'[c] = secret, clientSecret[c] # secret
        PROVE  SecretVerified(c, secret)'
    <2>1. c = e[1] /\ ApiKeyPasses(e) /\ SecretOf(e) # None /\ secret = SecretOf(e)
      BY <1>2, <1>4 DEF BeginApiKey, TypeOK
    <2>2. Def(e).name = "secret" /\ secret[2] = apis[c].app
      BY <2>1 DEF SecretOf
    <2>3. outcome'[e] = "pass"
      BY <2>1 DEF BeginApiKey, Report, TypeOK
    <2> QED
      BY <1>2, <1>3, <2>1, <2>2, <2>3 DEF SecretVerified
  <1>5. ASSUME NEW c \in Candidates, NEW secret \in Secrets \cup {None}, Held(c, secret)'
        PROVE  Held(c, secret) \/ SecretVerified(c, secret)'
    <2>1. CASE clientSecret'[c] = secret
      BY <1>4, <2>1 DEF Held
    <2>2. CASE clientSecret'[c] # secret
      BY <1>5, <2>2, HeldStep
    <2> QED
      BY <2>1, <2>2
  <1> QED
    BY <1>2, <1>5, SecretsKept

LEMMA NextSecrets ==
  ASSUME TypeOK, LoopsInv, SecretsInv, [Next]_vars
  PROVE  SecretsInv'
  <1>0. \A f \in Evaluations : outcome[f] = "pass" => outcome'[f] = "pass"
    BY OutcomesFinal
  <1>1. ASSUME NEW e \in Evaluations, BeginScheme(e) PROVE SecretsInv'
    <2>1. \E b \in Candidates : Touches(b)
      BY <1>1, BeginSchemeStep
    <2>2. CASE BeginApiKey(e)
      BY <1>0, <2>1, <2>2, BeginApiKeySecrets
    <2>3. CASE BeginMissing(e) \/ BeginBasic(e) \/ BeginOauth2(e)
      <3>1. UNCHANGED <<apis, clientSecret>>
        BY <2>3 DEF BeginMissing, BeginBasic, BeginOauth2, AtScheme, Stands, inputs
      <3> QED
        BY <1>0, <2>1, <3>1, SameSecrets
    <2> QED
      BY <1>1, <2>2, <2>3 DEF BeginScheme
  <1>2. ASSUME NEW e \in Evaluations, BasicAnswered(e) \/ OauthAnswered(e) PROVE SecretsInv'
    <2>1. matches' = matches \/ \E b \in Candidates : Touches(b)
      BY <1>2, AnsweredStep
    <2>2. UNCHANGED <<apis, clientSecret>>
      BY <1>2, AnsweredFacts
    <2> QED
      BY <1>0, <2>1, <2>2, SameSecrets
  <1>3. CASE BeginRequirement
    BY <1>3, BeginRequirementSecrets
  <1>4. CASE BeginCandidate \/ EndRequirement \/ EndRequirements
    <2>1. \E b \in Candidates : Touches(b)
      BY <1>4, BeginCandidateStep, LoopMoves
    <2>2. UNCHANGED <<apis, clientSecret>>
      BY <1>4 DEF BeginCandidate, EndRequirement, EndRequirements, inputs
    <2> QED
      BY <1>0, <2>1, <2>2, SameSecrets
  <1>5. CASE Choose \/ TokenUnlisted \/ ConnectionError \/ UNCHANGED vars
    <2>1. UNCHANGED <<apis, clientSecret, matches>>
      BY <1>5 DEF Choose, TokenUnlisted, ConnectionError, vars, checkVars, inputs
    <2> QED
      BY <1>0, <2>1, SameSecrets
  <1>6. CASE Throws
    <2>1. \E b \in Candidates : Touches(b)
      BY <1>6, ThrowsStep
    <2>2. UNCHANGED <<apis, clientSecret>>
      BY <1>6 DEF Throws, OauthThrows, inputs
    <2> QED
      BY <1>0, <2>1, <2>2, SameSecrets
  <1> QED
    BY <1>1, <1>2, <1>3, <1>4, <1>5, <1>6 DEF Next, LoopStep, BeginScheme, Throws

-----------------------------------------------------------------------------
(* The theorems. *)

LEMMA InitLoops == Init => LoopsInv
  <1> SUFFICES ASSUME Init PROVE LoopsInv
    OBVIOUS
  <1>1. LoopFits /\ TypeOK
    BY InitTypes
  <1>2. /\ begun = 0 /\ matches = <<>>
        /\ \A e \in Evaluations : outcome[e] = "none"
        /\ \A c \in Candidates : /\ evals[c].left = {} /\ evals[c].verdict = "open"
                                 /\ broken[c].req = 0
                                 /\ \A r \in Requirements : /\ evals[c].inner[r].left = {}
                                                            /\ ~evals[c].inner[r].settled
    BY DEF Init, Idle
  <1>3. \A c : \A r, s : ~Opened(c, r) /\ ~Reached(c, r, s)
    BY <1>2 DEF Opened, Reached
  <1>4. ASSUME NEW c \in Candidates, NEW r \in Requirements, NEW s \in Schemes
        PROVE  outcome[<<c, r, s>>] = "none"
    BY <1>2 DEF Evaluations, Schemes
  <1>5. ASSUME NEW c \in Candidates PROVE SchemesCounted(c)
    <2>1. \A r \in Requirements : \A s \in Schemes : s \notin evals[c].inner[r].left
      BY <1>2
    <2> QED
      BY <1>3, <1>4, <2>1 DEF SchemesCounted
  <1>6. ASSUME NEW c \in Candidates PROVE RequirementsCounted(c)
    <2>1. \A r \in Requirements : r \notin evals[c].left /\ ~evals[c].inner[r].settled
      BY <1>2
    <2> QED
      BY <1>3, <1>4, <2>1 DEF RequirementsCounted
  <1>7. ASSUME NEW c \in Candidates PROVE InOrder(c) /\ Matched(c)
    <2>1. c \in Nat \ {0}
      BY BoundsAssumption DEF Candidates
    <2>2. ~(c < begun) /\ evals[c].verdict = "open" /\ broken[c].req = 0
      BY <1>2, <2>1
    <2>3. DOMAIN matches = {}
      BY <1>2
    <2> QED
      BY <2>2, <2>3 DEF InOrder, Matched
  <1> QED
    BY <1>1, <1>5, <1>6, <1>7 DEF LoopsInv

LEMMA InitLogins == Init => LoginsInv
  BY DEF Init, BasicInit, LoginsInv, LoginInv

LEMMA InitTokens == Init => TokensInv
  BY DEF Init, OauthInit, TokensInv, TokensVerified

LEMMA InitSecrets == Init => SecretsInv
  <1> SUFFICES ASSUME Init, NEW c \in Candidates, NEW secret, Held(c, secret)
               PROVE  SecretVerified(c, secret)
    BY DEF SecretsInv
  <1>1. secret = None
    BY DEF Init, Held
  <1> QED
    BY <1>1 DEF SecretVerified

\* The loops count what has not answered, logins, tokens and secrets are backed
\* by what was verified: the invariant the other theorems follow from
\* (security.js:100-180, basic-ldap.js, resource-server/index.js:119).
THEOREM SecurityInductive == Spec => []SecurityInv
  <1>1. Init => SecurityInv
    BY InitTypes, InitLoops, InitLogins, InitTokens, InitSecrets DEF SecurityInv
  <1>2. SecurityInv /\ [Next]_vars => SecurityInv'
    <2> SUFFICES ASSUME SecurityInv, [Next]_vars PROVE SecurityInv'
      OBVIOUS
    <2>1. TypeOK /\ LoopsInv /\ LoginsInv /\ TokensInv /\ SecretsInv
      BY DEF SecurityInv
    <2>2. TypeOK'
      BY <2>1, NextTypes DEF LoopsInv
    <2>3. LoopsInv'
      BY <2>1, NextLoops
    <2>4. LoginsInv'
      BY <2>1, NextLogins
    <2>5. TokensInv'
      BY <2>1, NextTokens
    <2>6. SecretsInv'
      BY <2>1, NextSecrets
    <2> QED
      BY <2>2, <2>3, <2>4, <2>5, <2>6 DEF SecurityInv
  <1> QED
    BY <1>1, <1>2, PTL DEF Spec

\* Nobody passes a registry without having bound with the credentials of the
\* request, whichever of the methods the definition names (basic-ldap.js:210-298).
THEOREM LoginsVerifiedHolds == Spec => []LoginsVerified
  <1>1. SecurityInv => LoginsVerified
    <2> SUFFICES ASSUME LoginsInv, NEW e \in Evaluations,
                        login[e].step # "idle", Def(e).type = "basic"
                 PROVE  LoginVerified(e, Def(e))
      BY DEF SecurityInv, LoginsVerified
    <2>1. LoginInv(e)
      BY DEF LoginsInv
    <2>2. outcome[e] # "none"
      BY <2>1 DEF LoginInv
    <2> QED
      BY <2>1, <2>2 DEF LoginInv, LoginFits
  <1> QED
    BY <1>1, SecurityInductive, PTL

\* An oauth2 scheme passes on the strength of a token of the request that was
\* validated for one of its requirements, even where it is taken from the
\* context (resource-server/index.js:119-122).
THEOREM TokensVerifiedHolds == Spec => []TokensVerified
  <1>1. SecurityInv => TokensVerified
    BY DEF SecurityInv, TokensInv
  <1> QED
    BY <1>1, SecurityInductive, PTL

\* The client secret that goes on with a candidate is that of its subscription,
\* and one of its own schemes verified it (security.js:108-140).
THEOREM SecretsVerifiedHolds == Spec => []SecretsVerified
  <1>1. SecurityInv => SecretsVerified
    <2> SUFFICES ASSUME TypeOK, SecretsInv, NEW i \in DOMAIN matches,
                        matches[i].secret # None
                 PROVE  /\ matches[i].secret[2] = apis[matches[i].api].app
                        /\ \E e \in Evaluations :
                             /\ e[1] = matches[i].api /\ outcome[e] = "pass"
                             /\ Def(e).type = "apiKey" /\ Def(e).name = "secret"
      BY DEF SecurityInv, SecretsVerified
    <2>1. matches[i] \in [api: Candidates, secret: Secrets \cup {None}]
      <3> DEFINE M == [api: Candidates, secret: Secrets \cup {None}]
      <3>1. matches \in Seq(M)
        BY DEF TypeOK
      <3> HIDE DEF M
      <3>2. matches[i] \in M
        BY <3>1
      <3> QED
        BY <3>2 DEF M
    <2>2. Held(matches[i].api, matches[i].secret)
      BY DEF Held
    <2>3. SecretVerified(matches[i].api, matches[i].secret)
      BY <2>1, <2>2 DEF SecretsInv
    <2> QED
      BY <2>3 DEF SecretVerified
  <1> QED
    BY <1>1, SecurityInductive, PTL

\* The two nested loops and their callbacks implement the meaning of Swagger's
\* security requirements, and the candidate that goes on is entitled to
\* (security.js:100-181, index.js:84-133).
THEOREM VerdictRefined == Spec => VerdictSpec
  <1>1. Init => Verdict!Init
    BY DEF Init, Verdict!Init
  <1>2. SecurityInv /\ [Next]_vars => [Verdict!Next]_(Verdict!vars)
    BY NextLoops DEF SecurityInv
  <1> QED
    BY <1>1, <1>2, SecurityInductive, PTL DEF Spec, VerdictSpec, Verdict!Spec
=============================================================================
