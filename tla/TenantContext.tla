--------------------------- MODULE TenantContext ---------------------------
(***************************************************************************)
(* Who Postgres believes is asking (app/db.py, app/access.py, ADR-0014):   *)
(* every transaction of a request tells the server connection it borrows   *)
(* from PgBouncer, and row-level security policies read it there.          *)
(*                                                                         *)
(* PgBouncer pools by transaction: a server connection serves one          *)
(* transaction, then whoever comes next.  A transaction-local setting      *)
(* (set_config(..., true)) is gone when its transaction ends.              *)
(*                                                                         *)
(* Statements are not actions: in every state, and for every operation on  *)
(* every table, what the policies would permit is compared with what the   *)
(* routes allow.  A request ends in Close; the webhook is a request too.   *)
(***************************************************************************)
EXTENDS Naturals

CONSTANTS
    Teams,
    Users,
    Requests,
    Servers,        \* PgBouncer's server connections
    Nobody          \* no request, no server, no user

ASSUME NobodyIsNew ==
    Nobody \notin Requests /\ Nobody \notin Servers /\ Nobody \notin Users

Viewer == 1
Responder == 2
Admin == 3

\* Principal: a user, and the role held in each team (0: none).
Principal == [user: Users, org: BOOLEAN, role: [Teams -> 0..Admin]]

\* The settings the policies read, as one server connection has them.
Settings == [user: Users \cup {Nobody}, org: BOOLEAN, service: BOOLEAN,
             read: SUBSET Teams, write: SUBSET Teams, admin: SUBSET Teams]

Unset == [user |-> Nobody, org |-> FALSE, service |-> FALSE,
          read |-> {}, write |-> {}, admin |-> {}]

-----------------------------------------------------------------------------
(* app/access.py                                                           *)

\* team_ids, as tenant_settings writes it: an org admin's None is "{}".
TeamIds(p, needed) ==
    IF p.org THEN {} ELSE {t \in Teams : p.role[t] >= needed}

TenantSettings(p) ==
    [user |-> p.user, org |-> p.org, service |-> FALSE,
     read |-> TeamIds(p, Viewer), write |-> TeamIds(p, Responder),
     admin |-> TeamIds(p, Admin)]

\* The webhook's, once its bearer token has been checked.
ServiceSettings == [Unset EXCEPT !.service = TRUE]

RoleIn(p, t) == IF p.org THEN Admin ELSE p.role[t]

-----------------------------------------------------------------------------
(* The policies (migrations ce83ff21ab01, 9c9fd8814a68, e46b40a7952a,      *)
(* b23f19f0ca14) and the routes' own rule for the same operation.          *)

TeamOps == {"alert.select", "alert.insert", "alert.delete",
            "runbook.select", "runbook.insert", "runbook.update",
            "runbook.delete"}

\* A policy of a team's table, under settings c, for a row of team t.
Permits(c, op, t) ==
    \/ c.org
    \/ c.service /\ op \in {"alert.select", "alert.insert"}
    \/ t \in c.read /\ op \in {"alert.select", "runbook.select"}
    \/ t \in c.write /\ op = "alert.insert"
    \/ t \in c.admin /\ op \in {"alert.delete", "runbook.insert",
                                "runbook.update", "runbook.delete"}

\* The trail is read by org admins, and an event names its writer, or nobody.
PermitsAuditSelect(c) == c.org
PermitsAuditInsert(c, actor) == actor \in {Nobody, c.user}

\* The off switch: an org admin's, changed in their own name or nobody's.
PermitsSwitch(c, actor) == c.org /\ actor \in {Nobody, c.user}

\* require_role and team_ids, as the routes call them.
Needed(op) ==
    CASE op \in {"alert.select", "runbook.select"} -> Viewer
      [] op = "alert.insert" -> Responder
      [] OTHER -> Admin

RouteAllows(p, op, t) == RoleIn(p, t) >= Needed(op)

-----------------------------------------------------------------------------
VARIABLES
    setting,    \* what current_setting returns on each server connection
    owner,      \* the request whose transaction it serves
    server,     \* the server connection of a request's open transaction
    stage,      \* how far a request's authentication is
    asker,      \* the principal a request was authenticated as
    given       \* session.info["transaction_settings"], or Unset

vars == <<setting, owner, server, stage, asker, given>>

Stages == {"new", "user", "service", "closed"}

Init ==
    /\ setting = [s \in Servers |-> Unset]
    /\ owner = [s \in Servers |-> Nobody]
    /\ server = [r \in Requests |-> Nobody]
    /\ stage = [r \in Requests |-> "new"]
    /\ asker \in [Requests -> Principal]
    /\ given = [r \in Requests |-> Unset]

\* set_config of the values given: a principal's, or the service's own one.
Apply(c, values) ==
    IF values.service THEN [c EXCEPT !.service = TRUE]
    ELSE [values EXCEPT !.service = c.service]

\* Mutant of OnBegin: no after_begin hook.
OnBeginNothing(c, values) == c

\* _apply_transaction_settings: the values given, if any, as the first thing
\* a transaction does.
OnBegin(c, values) == IF values = Unset THEN c ELSE Apply(c, values)

\* A statement outside a transaction begins one on any free connection.
Begin(r) ==
    /\ stage[r] # "closed" /\ server[r] = Nobody
    /\ \E s \in Servers :
        /\ owner[s] = Nobody
        /\ owner' = [owner EXCEPT ![s] = r]
        /\ server' = [server EXCEPT ![r] = s]
        /\ setting' = [setting EXCEPT ![s] = OnBegin(@, given[r])]
    /\ UNCHANGED <<stage, asker, given>>

\* Mutant of AfterEnd: session-level settings, which outlive the transaction.
AfterEndKept(c) == c

\* What a server connection is left with when a transaction ends.
AfterEnd(c) == Unset

\* Mutant of Release: the connection goes back while the transaction is open.
ReleaseEarly(r) ==
    LET s == server[r]
    IN  /\ owner' = [owner EXCEPT ![s] = Nobody]
        /\ setting' = [setting EXCEPT ![s] = AfterEnd(@)]
        /\ UNCHANGED server

Release(r) ==
    LET s == server[r]
    IN  /\ owner' = [owner EXCEPT ![s] = Nobody]
        /\ setting' = [setting EXCEPT ![s] = AfterEnd(@)]
        /\ server' = [server EXCEPT ![r] = Nobody]

\* COMMIT or ROLLBACK.
End(r) ==
    /\ server[r] # Nobody
    /\ Release(r)
    /\ UNCHANGED <<stage, asker, given>>

\* current_principal: the session is read in the open transaction, and the
\* settings apply to it at once and to every later one.
Authenticate(r) ==
    /\ stage[r] = "new" /\ server[r] # Nobody
    /\ stage' = [stage EXCEPT ![r] = "user"]
    /\ given' = [given EXCEPT ![r] = TenantSettings(asker[r])]
    /\ setting' = [setting EXCEPT ![server[r]] = Apply(@, given'[r])]
    /\ UNCHANGED <<owner, server, asker>>

\* The same, when the session's last_seen_at was due: that was committed
\* first, so no transaction is open when the settings are given.
AuthenticateTouching(r) ==
    /\ stage[r] = "new" /\ server[r] # Nobody
    /\ stage' = [stage EXCEPT ![r] = "user"]
    /\ given' = [given EXCEPT ![r] = TenantSettings(asker[r])]
    /\ Release(r)
    /\ UNCHANGED asker

\* ingest_alertmanager, after its token: nothing has been read yet.  A tool
\* call's session (app/tools.py) is given its asker's settings the same way.
GiveAtOnce(r) ==
    /\ stage[r] = "new" /\ server[r] = Nobody
    /\ \/ /\ stage' = [stage EXCEPT ![r] = "service"]
          /\ given' = [given EXCEPT ![r] = ServiceSettings]
       \/ /\ stage' = [stage EXCEPT ![r] = "user"]
          /\ given' = [given EXCEPT ![r] = TenantSettings(asker[r])]
    /\ UNCHANGED <<setting, owner, server, asker>>

\* The session is closed: an open transaction is rolled back first.
Close(r) ==
    /\ stage[r] # "closed"
    /\ IF server[r] = Nobody
       THEN UNCHANGED <<setting, owner, server>>
       ELSE Release(r)
    /\ stage' = [stage EXCEPT ![r] = "closed"]
    /\ given' = [given EXCEPT ![r] = Unset]
    /\ UNCHANGED asker

\* Postgres or PgBouncer restarts: the open transactions are lost, and every
\* server connection is a new one.  A request may go on (its next statement
\* begins again) or be closed.
Restart ==
    /\ setting' = [s \in Servers |-> Unset]
    /\ owner' = [s \in Servers |-> Nobody]
    /\ server' = [r \in Requests |-> Nobody]
    /\ UNCHANGED <<stage, asker, given>>

Next ==
    \/ \E r \in Requests :
        \/ Begin(r) \/ End(r) \/ Close(r)
        \/ Authenticate(r) \/ AuthenticateTouching(r) \/ GiveAtOnce(r)
    \/ Restart

Spec == Init /\ [][Next]_vars

-----------------------------------------------------------------------------
(* Properties.                                                             *)

\* Types, and one transaction per server connection: a connection and the
\* request it serves name each other.
TypeOK ==
    /\ setting \in [Servers -> Settings]
    /\ owner \in [Servers -> Requests \cup {Nobody}]
    /\ server \in [Requests -> Servers \cup {Nobody}]
    /\ stage \in [Requests -> Stages]
    /\ asker \in [Requests -> Principal]
    /\ given \in [Requests -> Settings]
    /\ \A s \in Servers, r \in Requests : owner[s] = r <=> server[r] = s

\* In every transaction of an authenticated request, however many came
\* before it and whoever had the connection last, Postgres permits exactly
\* what the routes allow that request's user: the second layer neither lets
\* a forgotten check through nor refuses what the first one allowed.
LayersAgree ==
    \A r \in Requests : stage[r] = "user" /\ server[r] # Nobody =>
        LET c == setting[server[r]]
        IN  /\ \A op \in TeamOps, t \in Teams :
                 Permits(c, op, t) <=> RouteAllows(asker[r], op, t)
            /\ PermitsAuditSelect(c) <=> asker[r].org
            /\ \A u \in Users :
                 /\ PermitsAuditInsert(c, u) <=> u = asker[r].user
                 /\ PermitsSwitch(c, u) <=> asker[r].org /\ u = asker[r].user

\* The webhook may read and add every team's alerts, and nothing else: no
\* runbook, no deletion, no event in a user's name.
ServiceOnlyAddsAlerts ==
    \A r \in Requests : stage[r] = "service" /\ server[r] # Nobody =>
        LET c == setting[server[r]]
        IN  /\ \A op \in TeamOps, t \in Teams :
                 Permits(c, op, t) <=> op \in {"alert.select", "alert.insert"}
            /\ ~PermitsAuditSelect(c)
            /\ \A u \in Users : ~PermitsAuditInsert(c, u) /\ ~PermitsSwitch(c, u)

\* No context, no rows: a connection that serves nobody, or a request that
\* has not said who is asking, is given no row of any team - nothing of the
\* connection's last user is left.
NoContextNoRows ==
    \A s \in Servers :
        (owner[s] = Nobody \/ stage[owner[s]] = "new") =>
            /\ \A op \in TeamOps, t \in Teams : ~Permits(setting[s], op, t)
            /\ ~PermitsAuditSelect(setting[s])
            /\ \A u \in Users : ~PermitsAuditInsert(setting[s], u)
=============================================================================
