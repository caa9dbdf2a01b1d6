------------------------ MODULE TenantContextProofs ------------------------
(***************************************************************************)
(* Proofs about TenantContext, for any users, teams, requests and server   *)
(* connections.  The inductive invariant: a connection nobody uses has no  *)
(* setting left, the one a request uses has exactly what the request's     *)
(* session was given, and that is decided by how far it is authenticated.  *)
(***************************************************************************)
EXTENDS TenantContext, TLAPS

FreeIsUnset == \A s \in Servers : owner[s] = Nobody => setting[s] = Unset

HeldIsGiven ==
    \A r \in Requests : server[r] # Nobody => setting[server[r]] = given[r]

GivenByStage ==
    \A r \in Requests :
        /\ stage[r] \in {"new", "closed"} => given[r] = Unset
        /\ stage[r] = "user" => given[r] = TenantSettings(asker[r])
        /\ stage[r] = "service" => given[r] = ServiceSettings
        /\ stage[r] = "closed" => server[r] = Nobody

IInv == TypeOK /\ FreeIsUnset /\ HeldIsGiven /\ GivenByStage

-----------------------------------------------------------------------------
\* The three kinds of settings are settings.
LEMMA SettingsTypes ==
    /\ Unset \in Settings
    /\ ServiceSettings \in Settings
    /\ \A p \in Principal : TenantSettings(p) \in Settings
<1>1. Unset \in Settings
  BY DEF Unset, Settings
<1>2. ServiceSettings \in Settings
  BY DEF Unset, ServiceSettings, Settings
<1>3. ASSUME NEW p \in Principal PROVE TenantSettings(p) \in Settings
  <2>1. \A n : TeamIds(p, n) \in SUBSET Teams
    BY DEF TeamIds
  <2>2. p.user \in Users /\ p.org \in BOOLEAN
    BY DEF Principal
  <2>. QED  BY <2>1, <2>2 DEF TenantSettings, Settings
<1>. QED  BY <1>1, <1>2, <1>3

\* On a connection with nothing set, what is applied is what it then has.
LEMMA ApplyToUnset ==
    /\ Apply(Unset, ServiceSettings) = ServiceSettings
    /\ \A p \in Principal : Apply(Unset, TenantSettings(p)) = TenantSettings(p)
<1>1. Apply(Unset, ServiceSettings) = ServiceSettings
  BY DEF Apply, ServiceSettings, Unset
<1>2. \A p \in Principal : Apply(Unset, TenantSettings(p)) = TenantSettings(p)
  BY DEF Apply, TenantSettings, Unset
<1>. QED  BY <1>1, <1>2

\* What a transaction has after its first statement: what was given.
LEMMA OnBeginGiven ==
    ASSUME IInv, NEW r \in Requests
    PROVE  OnBegin(Unset, given[r]) = given[r]
<1>1. given[r] \in {Unset, ServiceSettings, TenantSettings(asker[r])}
  BY DEF IInv, TypeOK, GivenByStage, Stages
<1>2. asker[r] \in Principal
  BY DEF IInv, TypeOK
<1>. QED  BY <1>1, <1>2, ApplyToUnset DEF OnBegin

LEMMA InitIInv == Init => IInv
  BY SettingsTypes, NobodyIsNew
     DEF Init, IInv, TypeOK, FreeIsUnset, HeldIsGiven, GivenByStage, Stages

\* Giving a connection back leaves it without settings, and the request
\* without a connection.
LEMMA ReleaseFacts ==
    ASSUME IInv, NEW r \in Requests, server[r] # Nobody, Release(r)
    PROVE  /\ setting' \in [Servers -> Settings]
           /\ owner' \in [Servers -> Requests \cup {Nobody}]
           /\ server' \in [Requests -> Servers \cup {Nobody}]
           /\ \A s \in Servers, q \in Requests : owner'[s] = q <=> server'[q] = s
           /\ FreeIsUnset'
           /\ server'[r] = Nobody
           /\ \A q \in Requests : q # r =>
                 /\ server'[q] = server[q]
                 /\ server[q] # Nobody => setting'[server[q]] = setting[server[q]]
<1> DEFINE s == server[r]
<1>1. s \in Servers /\ owner[s] = r
  BY DEF IInv, TypeOK
<1>2. /\ owner' = [owner EXCEPT ![s] = Nobody]
      /\ setting' = [setting EXCEPT ![s] = Unset]
      /\ server' = [server EXCEPT ![r] = Nobody]
  BY DEF Release, AfterEnd
<1>3. /\ setting' \in [Servers -> Settings]
      /\ owner' \in [Servers -> Requests \cup {Nobody}]
      /\ server' \in [Requests -> Servers \cup {Nobody}]
  BY <1>2, SettingsTypes DEF IInv, TypeOK
<1>4. \A v \in Servers, q \in Requests : owner'[v] = q <=> server'[q] = v
  BY <1>1, <1>2, NobodyIsNew DEF IInv, TypeOK
<1>5. FreeIsUnset'
  BY <1>1, <1>2 DEF IInv, TypeOK, FreeIsUnset
<1>6. \A q \in Requests : q # r =>
         /\ server'[q] = server[q]
         /\ server[q] # Nobody => setting'[server[q]] = setting[server[q]]
  BY <1>1, <1>2 DEF IInv, TypeOK
<1>. QED  BY <1>2, <1>3, <1>4, <1>5, <1>6 DEF IInv, TypeOK

-----------------------------------------------------------------------------
LEMMA BeginIInv ==
    ASSUME IInv, NEW r \in Requests, Begin(r)
    PROVE  IInv'
<1>1. PICK s \in Servers :
         /\ owner[s] = Nobody
         /\ owner' = [owner EXCEPT ![s] = r]
         /\ server' = [server EXCEPT ![r] = s]
         /\ setting' = [setting EXCEPT ![s] = OnBegin(setting[s], given[r])]
  BY DEF Begin
<1>2. setting[s] = Unset
  BY <1>1 DEF IInv, FreeIsUnset
<1>3. setting' = [setting EXCEPT ![s] = given[r]]
  BY <1>1, <1>2, OnBeginGiven
<1>4. /\ stage[r] # "closed" /\ server[r] = Nobody
      /\ UNCHANGED <<stage, asker, given>>
  BY DEF Begin
<1>5. TypeOK'
  BY <1>1, <1>3, <1>4, NobodyIsNew DEF IInv, TypeOK
<1>6. FreeIsUnset'
  BY <1>1, <1>3, NobodyIsNew DEF IInv, TypeOK, FreeIsUnset
<1>7. HeldIsGiven'
  <2>1. \A q \in Requests : q # r => server[q] # s
    BY <1>1, NobodyIsNew DEF IInv, TypeOK
  <2>. QED  BY <1>1, <1>3, <1>4, <2>1 DEF IInv, TypeOK, HeldIsGiven
<1>8. GivenByStage'
  BY <1>1, <1>4 DEF IInv, TypeOK, GivenByStage
<1>. QED  BY <1>5, <1>6, <1>7, <1>8 DEF IInv

LEMMA EndIInv ==
    ASSUME IInv, NEW r \in Requests, End(r)
    PROVE  IInv'
<1>1. /\ server[r] # Nobody /\ Release(r)
      /\ UNCHANGED <<stage, asker, given>>
  BY DEF End
<1>2. TypeOK' /\ FreeIsUnset'
  BY <1>1, ReleaseFacts DEF IInv, TypeOK
<1>3. HeldIsGiven'
  BY <1>1, ReleaseFacts DEF IInv, TypeOK, HeldIsGiven
<1>4. GivenByStage'
  BY <1>1, ReleaseFacts DEF IInv, TypeOK, GivenByStage
<1>. QED  BY <1>2, <1>3, <1>4 DEF IInv

LEMMA AuthenticateIInv ==
    ASSUME IInv, NEW r \in Requests, Authenticate(r)
    PROVE  IInv'
<1> DEFINE s == server[r]
           mine == TenantSettings(asker[r])
<1>1. /\ stage[r] = "new" /\ s # Nobody
      /\ stage' = [stage EXCEPT ![r] = "user"]
      /\ given' = [given EXCEPT ![r] = mine]
      /\ setting' = [setting EXCEPT ![s] = Apply(setting[s], given'[r])]
      /\ UNCHANGED <<owner, server, asker>>
  BY DEF Authenticate
<1>2. s \in Servers /\ owner[s] = r /\ asker[r] \in Principal
  BY <1>1 DEF IInv, TypeOK
<1>3. setting[s] = Unset
  BY <1>1 DEF IInv, HeldIsGiven, GivenByStage
<1>4. setting' = [setting EXCEPT ![s] = mine] /\ mine \in Settings
  BY <1>1, <1>2, <1>3, ApplyToUnset, SettingsTypes DEF IInv, TypeOK
<1>5. TypeOK'
  BY <1>1, <1>4 DEF IInv, TypeOK, Stages
<1>6. FreeIsUnset'
  BY <1>1, <1>2, <1>4, NobodyIsNew DEF IInv, TypeOK, FreeIsUnset
<1>7. HeldIsGiven'
  <2>1. \A q \in Requests : q # r => server[q] # s
    BY <1>2 DEF IInv, TypeOK
  <2>. QED  BY <1>1, <1>4, <2>1 DEF IInv, TypeOK, HeldIsGiven
<1>8. GivenByStage'
  BY <1>1 DEF IInv, TypeOK, GivenByStage
<1>. QED  BY <1>5, <1>6, <1>7, <1>8 DEF IInv

LEMMA AuthenticateTouchingIInv ==
    ASSUME IInv, NEW r \in Requests, AuthenticateTouching(r)
    PROVE  IInv'
<1>1. /\ stage[r] = "new" /\ server[r] # Nobody /\ Release(r)
      /\ stage' = [stage EXCEPT ![r] = "user"]
      /\ given' = [given EXCEPT ![r] = TenantSettings(asker[r])]
      /\ UNCHANGED asker
  BY DEF AuthenticateTouching
<1>2. TenantSettings(asker[r]) \in Settings
  BY SettingsTypes DEF IInv, TypeOK
<1>3. TypeOK' /\ FreeIsUnset'
  BY <1>1, <1>2, ReleaseFacts DEF IInv, TypeOK, Stages
<1>4. HeldIsGiven'
  BY <1>1, ReleaseFacts DEF IInv, TypeOK, HeldIsGiven
<1>5. GivenByStage'
  BY <1>1, ReleaseFacts DEF IInv, TypeOK, GivenByStage
<1>. QED  BY <1>3, <1>4, <1>5 DEF IInv

LEMMA GiveAtOnceIInv ==
    ASSUME IInv, NEW r \in Requests, GiveAtOnce(r)
    PROVE  IInv'
<1>1. /\ stage[r] = "new" /\ server[r] = Nobody
      /\ UNCHANGED <<setting, owner, server, asker>>
      /\ \/ /\ stage' = [stage EXCEPT ![r] = "service"]
            /\ given' = [given EXCEPT ![r] = ServiceSettings]
         \/ /\ stage' = [stage EXCEPT ![r] = "user"]
            /\ given' = [given EXCEPT ![r] = TenantSettings(asker[r])]
  BY DEF GiveAtOnce
<1>2. TenantSettings(asker[r]) \in Settings
  BY SettingsTypes DEF IInv, TypeOK
<1>3. TypeOK' /\ FreeIsUnset' /\ HeldIsGiven'
  BY <1>1, <1>2, SettingsTypes
     DEF IInv, TypeOK, Stages, FreeIsUnset, HeldIsGiven
<1>4. GivenByStage'
  BY <1>1 DEF IInv, TypeOK, GivenByStage
<1>. QED  BY <1>3, <1>4 DEF IInv

LEMMA CloseIInv ==
    ASSUME IInv, NEW r \in Requests, Close(r)
    PROVE  IInv'
<1>1. /\ stage' = [stage EXCEPT ![r] = "closed"]
      /\ given' = [given EXCEPT ![r] = Unset]
      /\ UNCHANGED asker
  BY DEF Close
<1>2. CASE server[r] = Nobody
  <2>1. UNCHANGED <<setting, owner, server>>
    BY <1>2 DEF Close
  <2>2. TypeOK' /\ FreeIsUnset'
    BY <1>1, <2>1, SettingsTypes DEF IInv, TypeOK, Stages, FreeIsUnset
  <2>3. HeldIsGiven' /\ GivenByStage'
    BY <1>1, <1>2, <2>1 DEF IInv, TypeOK, HeldIsGiven, GivenByStage
  <2>. QED  BY <2>2, <2>3 DEF IInv
<1>3. CASE server[r] # Nobody
  <2>1. Release(r)
    BY <1>3 DEF Close
  <2>2. TypeOK' /\ FreeIsUnset'
    BY <1>1, <1>3, <2>1, ReleaseFacts, SettingsTypes DEF IInv, TypeOK, Stages
  <2>3. HeldIsGiven' /\ GivenByStage'
    BY <1>1, <1>3, <2>1, ReleaseFacts
       DEF IInv, TypeOK, HeldIsGiven, GivenByStage
  <2>. QED  BY <2>2, <2>3 DEF IInv
<1>. QED  BY <1>2, <1>3

LEMMA RestartIInv ==
    ASSUME IInv, Restart
    PROVE  IInv'
  BY SettingsTypes, NobodyIsNew
     DEF Restart, IInv, TypeOK, FreeIsUnset, HeldIsGiven, GivenByStage

LEMMA NextIInv == IInv /\ [Next]_vars => IInv'
<1> SUFFICES ASSUME IInv, [Next]_vars PROVE IInv'
  OBVIOUS
<1>1. ASSUME NEW r \in Requests,
             \/ Begin(r) \/ End(r) \/ Close(r)
             \/ Authenticate(r) \/ AuthenticateTouching(r) \/ GiveAtOnce(r)
      PROVE  IInv'
  BY <1>1, BeginIInv, EndIInv, CloseIInv, AuthenticateIInv,
     AuthenticateTouchingIInv, GiveAtOnceIInv
<1>2. CASE Restart         BY <1>2, RestartIInv
<1>3. CASE UNCHANGED vars
  BY <1>3 DEF vars, IInv, TypeOK, FreeIsUnset, HeldIsGiven, GivenByStage
<1>. QED  BY <1>1, <1>2, <1>3 DEF Next

LEMMA Inductive == Spec => []IInv
  BY InitIInv, NextIInv, PTL DEF Spec

-----------------------------------------------------------------------------
\* The policies read from a principal's settings and the routes' rule are
\* the same rule, for every operation, team and principal.
LEMMA PoliciesAreTheRoutes ==
    ASSUME NEW p \in Principal, NEW op \in TeamOps, NEW t \in Teams
    PROVE  Permits(TenantSettings(p), op, t) <=> RouteAllows(p, op, t)
<1>1. p.org \in BOOLEAN /\ p.role[t] \in 0..3
  BY DEF Principal, Admin
<1>2. CASE p.org
  BY <1>2 DEF Permits, TenantSettings, RouteAllows, RoleIn, Needed,
              Viewer, Responder, Admin
<1>3. CASE ~p.org
  <2>1. \A n : t \in TeamIds(p, n) <=> p.role[t] >= n
    BY <1>3 DEF TeamIds
  <2>2. RouteAllows(p, op, t) <=> p.role[t] >= Needed(op)
    BY <1>3 DEF RouteAllows, RoleIn
  <2>3. Permits(TenantSettings(p), op, t) <=>
           \/ p.role[t] >= Viewer /\ op \in {"alert.select", "runbook.select"}
           \/ p.role[t] >= Responder /\ op = "alert.insert"
           \/ p.role[t] >= Admin
              /\ op \in {"alert.delete", "runbook.insert", "runbook.update",
                         "runbook.delete"}
    BY <1>3, <2>1 DEF Permits, TenantSettings
  <2>. QED  BY <2>2, <2>3 DEF Needed, TeamOps
<1>. QED  BY <1>2, <1>3

\* Connections and transactions stay one to one, and every setting is one
\* the service writes.
THEOREM TypeCorrect == Spec => []TypeOK
<1>1. IInv => TypeOK
  BY DEF IInv
<1>. QED  BY <1>1, Inductive, PTL

\* Whatever is pooled, restarted or interleaved, Postgres permits a request
\* exactly what the routes allow its user, in each of its transactions.
THEOREM SecondLayerAgrees == Spec => []LayersAgree
<1>1. IInv => LayersAgree
  <2> SUFFICES ASSUME IInv, NEW r \in Requests,
                      stage[r] = "user", server[r] # Nobody
               PROVE  LET c == setting[server[r]]
                      IN  /\ \A op \in TeamOps, t \in Teams :
                               Permits(c, op, t) <=> RouteAllows(asker[r], op, t)
                          /\ PermitsAuditSelect(c) <=> asker[r].org
                          /\ \A u \in Users :
                               /\ PermitsAuditInsert(c, u) <=> u = asker[r].user
                               /\ PermitsSwitch(c, u) <=>
                                     asker[r].org /\ u = asker[r].user
    BY DEF LayersAgree
  <2>1. setting[server[r]] = TenantSettings(asker[r])
    BY DEF IInv, HeldIsGiven, GivenByStage
  <2>2. asker[r] \in Principal
    BY DEF IInv, TypeOK
  <2>3. \A u \in Users : u # Nobody
    BY NobodyIsNew
  <2>. QED
    BY <2>1, <2>2, <2>3, PoliciesAreTheRoutes
       DEF PermitsAuditSelect, PermitsAuditInsert, PermitsSwitch,
           TenantSettings
<1>. QED  BY <1>1, Inductive, PTL

\* A connection nobody uses, or a request that has not said who is asking,
\* is given no team's rows.
THEOREM NoContextGivesNoRows == Spec => []NoContextNoRows
<1>1. IInv => NoContextNoRows
  <2> SUFFICES ASSUME IInv, NEW s \in Servers,
                      owner[s] = Nobody \/ stage[owner[s]] = "new"
               PROVE  /\ \A op \in TeamOps, t \in Teams :
                            ~Permits(setting[s], op, t)
                      /\ ~PermitsAuditSelect(setting[s])
                      /\ \A u \in Users : ~PermitsAuditInsert(setting[s], u)
    BY DEF NoContextNoRows
  <2>1. setting[s] = Unset
    <3>1. CASE owner[s] = Nobody
      BY <3>1 DEF IInv, FreeIsUnset
    <3>2. CASE owner[s] # Nobody
      <4>1. owner[s] \in Requests /\ server[owner[s]] = s /\ s # Nobody
        BY <3>2, NobodyIsNew DEF IInv, TypeOK
      <4>. QED  BY <3>2, <4>1 DEF IInv, HeldIsGiven, GivenByStage
    <3>. QED  BY <3>1, <3>2
  <2>. QED
    BY <2>1, NobodyIsNew
       DEF Unset, Permits, PermitsAuditSelect, PermitsAuditInsert
<1>. QED  BY <1>1, Inductive, PTL

\* The webhook's service context reads and adds alerts and nothing else.
THEOREM ServiceIsConfined == Spec => []ServiceOnlyAddsAlerts
<1>1. IInv => ServiceOnlyAddsAlerts
  <2> SUFFICES ASSUME IInv, NEW r \in Requests,
                      stage[r] = "service", server[r] # Nobody
               PROVE  LET c == setting[server[r]]
                      IN  /\ \A op \in TeamOps, t \in Teams :
                               Permits(c, op, t) <=>
                                  op \in {"alert.select", "alert.insert"}
                          /\ ~PermitsAuditSelect(c)
                          /\ \A u \in Users : ~PermitsAuditInsert(c, u)
                                              /\ ~PermitsSwitch(c, u)
    BY DEF ServiceOnlyAddsAlerts
  <2>1. setting[server[r]] = ServiceSettings
    BY DEF IInv, HeldIsGiven, GivenByStage
  <2>. QED
    BY <2>1, NobodyIsNew
       DEF ServiceSettings, Unset, Permits, PermitsAuditSelect,
           PermitsAuditInsert, PermitsSwitch
<1>. QED  BY <1>1, Inductive, PTL
=============================================================================
