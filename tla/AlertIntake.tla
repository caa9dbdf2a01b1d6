---------------------------- MODULE AlertIntake ----------------------------
(***************************************************************************)
(* Alerts: stored by users and by Alertmanager's webhook, deleted by team  *)
(* admins and by age, and listed page by page (app/routes/alerts.py,       *)
(* app/queries.py, app/privacy.py retention).                              *)
(*                                                                         *)
(* Alertmanager re-sends what fires until it is resolved, in requests that *)
(* may overlap, be late or be answered by nobody.  A webhook is one        *)
(* transaction: the teams are read, the rows inserted one after the other, *)
(* each with its audit event, and committed.  Tables hold what is          *)
(* committed; what an open transaction has inserted is in its job, and a   *)
(* row of the same episode waits for it (ON CONFLICT DO NOTHING on         *)
(* external_id, READ COMMITTED).                                           *)
(*                                                                         *)
(* Abstractions: an episode is a fingerprint with its startsAt; an event's *)
(* target, team, source and hash are the alert itself; severities and      *)
(* texts are left out (a severity filter narrows the rows a walk is over). *)
(* An id a rolled back or refused row has used up is never seen again.     *)
(***************************************************************************)
EXTENDS Naturals, FiniteSets, Sequences, Functions

CONSTANTS
    Teams,      \* team slugs
    Default,    \* the team every deployment has
    Episodes,   \* firing episodes Alertmanager sends
    Manual,     \* an alert a user created: no episode
    Label,      \* [Episodes -> Teams], the team label of each
    Requests,
    Sees,       \* the teams of the user who lists alerts
    PageSize,   \* ?limit=
    MaxListed,  \* bound: alerts of one webhook
    MaxStarts,  \* bound: requests and retention runs begun
    MaxTime     \* bound: readings of the database's clock

ASSUME DefaultIsATeam == Default \in Teams
ASSUME ManualIsNoEpisode == Manual \notin Episodes
ASSUME EpisodesAreFinite == IsFiniteSet(Episodes)
ASSUME LabelType == Label \in [Episodes -> Teams]
ASSUME SeesTeams == Sees \subseteq Teams
ASSUME BoundsType ==
    /\ PageSize \in Nat \ {0} /\ MaxListed \in Nat
    /\ MaxStarts \in Nat /\ MaxTime \in Nat

VARIABLES
    teams,      \* rows of teams
    alerts,     \* rows of alerts
    audit,      \* rows of audit_events about alerts
    job,        \* what each request is doing, and has inserted
    answered,   \* episodes of webhooks that were answered with a 200
    clock,      \* now() of the database
    nextId, nextEvent,
    listed,     \* the pages one user has been given, the first one first
    cursor,     \* where the next page continues: none or one row
    owed,       \* the rows there were when the first page was read
    complete,   \* the last page came without a cursor
    started     \* how many requests have begun (bounds the model)

vars == <<teams, alerts, audit, job, answered, clock, nextId, nextEvent,
          listed, cursor, owed, complete, started>>
walk == <<listed, cursor, owed, complete>>

Row == [id: Nat, team: Teams, episode: Episodes \cup {Manual}, at: Nat]
Wanted == [team: Teams, episode: Episodes \cup {Manual}]

\* A set of at most one stands for a value only some events have.
Event == [n: Nat, action: {"alert.created", "alert.deleted",
                           "retention.applied"},
          alert: SUBSET Row, before: Nat]

Job == [stage: {"idle", "inserting", "deleting"}, at: Nat,
        todo: Seq(Wanted), payload: Seq(Episodes), rows: Seq(Row)]
Blank == [stage |-> "idle", at |-> 0, todo |-> <<>>, payload |-> <<>>,
          rows |-> <<>>]

\* What a webhook lists: episodes in any order, the same one perhaps twice.
Payloads == UNION {[1..n -> Episodes] : n \in 1..MaxListed}

Init ==
    /\ teams = {Default}
    /\ alerts = {} /\ audit = {}
    /\ job = [r \in Requests |-> Blank]
    /\ answered = {}
    /\ clock = 0 /\ nextId = 1 /\ nextEvent = 1
    /\ listed = <<>> /\ cursor = {} /\ owed = {} /\ complete = FALSE
    /\ started = 0

Begin == started < MaxStarts /\ started' = started + 1

---------------------------------------------------------------------------
\* Inserting.

\* The label's team if it is known, else the default one.
Routed(e) == [team |-> IF Label[e] \in teams THEN Label[e] ELSE Default,
              episode |-> e]

\* A mutant: the rows are collected in a set, and inserted in any order.
RowsInAnyOrder(p) ==
    {[i \in DOMAIN p |-> Routed(p[f[i]])] :
        f \in {g \in [DOMAIN p -> DOMAIN p] : IsInjective(g)}}

\* The rows of the VALUES list: the payload's, in its order.
Rows(p) == {[i \in DOMAIN p |-> Routed(p[i])]}

\* POST /alerts/alertmanager with alerts that fire, or once did.  created_at
\* will be the time this transaction began.
Receive(r) ==
    /\ job[r].stage = "idle"
    /\ Begin
    /\ \E p \in Payloads : \E rows \in Rows(p) :
        job' = [job EXCEPT ![r] = [Blank EXCEPT !.stage = "inserting",
                    !.at = clock, !.payload = p, !.todo = rows]]
    /\ UNCHANGED <<teams, alerts, audit, answered, clock, nextId, nextEvent,
                   walk>>

\* POST /alerts, for a team there is.
Create(r) ==
    /\ job[r].stage = "idle"
    /\ Begin
    /\ \E t \in teams :
        job' = [job EXCEPT ![r] = [Blank EXCEPT !.stage = "inserting",
                    !.at = clock,
                    !.todo = <<[team |-> t, episode |-> Manual]>>]]
    /\ UNCHANGED <<teams, alerts, audit, answered, clock, nextId, nextEvent,
                   walk>>

NobodyHolds(r, e) == FALSE \* a mutant: rows of open transactions are ignored

\* An open transaction has inserted a row of this episode.
Holds(r, e) == \E i \in DOMAIN job[r].rows :
                 job[r].stage = "inserting" /\ job[r].rows[i].episode = e

WaitsFor(r, q) ==
    /\ r # q
    /\ job[r].stage = "inserting" /\ job[r].todo # <<>>
    /\ Head(job[r].todo).episode \in Episodes
    /\ Holds(q, Head(job[r].todo).episode)

Waits(r) == \E q \in Requests : WaitsFor(r, q)

\* The row the next INSERT makes, or none: the episode is stored already, or a
\* row before it in the same list is of it.
Inserted(r) ==
    LET x == Head(job[r].todo)
        taken == \E a \in alerts \cup Range(job[r].rows) :
                    a.episode = x.episode
    IN  IF x.episode \in Episodes /\ taken
        THEN <<>>
        ELSE <<[id |-> nextId, team |-> x.team, episode |-> x.episode,
                at |-> job[r].at]>>

\* A mutant: a row that someone is inserting counts as stored.
InsertOrSkip(r) ==
    LET x == Head(job[r].todo)
        held == \E q \in Requests \ {r} : Holds(q, x.episode)
        new == IF x.episode \in Episodes /\ held THEN <<>> ELSE Inserted(r)
    IN  /\ job[r].stage = "inserting" /\ job[r].todo # <<>>
        /\ job' = [job EXCEPT ![r].todo = Tail(@), ![r].rows = @ \o new]
        /\ nextId' = nextId + Len(new)
        /\ UNCHANGED <<teams, alerts, audit, answered, clock, nextEvent, walk,
                       started>>

\* One row of the INSERT: waits for an open transaction that has inserted the
\* same episode, and does nothing if the episode is taken.
Insert(r) ==
    LET new == Inserted(r)
    IN  /\ job[r].stage = "inserting" /\ job[r].todo # <<>> /\ ~Waits(r)
        /\ job' = [job EXCEPT ![r].todo = Tail(@), ![r].rows = @ \o new]
        /\ nextId' = nextId + Len(new)
        /\ UNCHANGED <<teams, alerts, audit, answered, clock, nextEvent, walk,
                       started>>

\* A mutant: every alert of the payload is recorded, stored before or not.
EventsOfPayload(r) ==
    LET stored == {a \in alerts : a.episode \in Range(job[r].payload)}
    IN  {[n |-> nextEvent, action |-> "alert.created", alert |-> {a},
          before |-> 0] : a \in Range(job[r].rows) \cup stored}

\* One event for each row the INSERT returned.
EventsOf(r) ==
    {[n |-> nextEvent + i - 1, action |-> "alert.created",
      alert |-> {job[r].rows[i]}, before |-> 0] : i \in DOMAIN job[r].rows}

\* The events are recorded, the transaction commits, and a webhook is told so.
Commit(r) ==
    /\ job[r].stage = "inserting" /\ job[r].todo = <<>>
    /\ alerts' = alerts \cup Range(job[r].rows)
    /\ audit' = audit \cup EventsOf(r)
    /\ nextEvent' = nextEvent + Len(job[r].rows)
    /\ answered' = answered \cup Range(job[r].payload)
    /\ job' = [job EXCEPT ![r] = Blank]
    /\ UNCHANGED <<teams, clock, nextId, walk, started>>

\* A statement fails, the connection is lost, or Postgres ends one transaction
\* of a deadlock: rolled back.
Fail(r) ==
    /\ job[r].stage # "idle"
    /\ job' = [job EXCEPT ![r] = Blank]
    /\ UNCHANGED <<teams, alerts, audit, answered, clock, nextId, nextEvent,
                   walk, started>>

---------------------------------------------------------------------------
\* Deleting.

\* DELETE /alerts/{id}: the alert is read first.
ReadToDelete(r) ==
    /\ job[r].stage = "idle"
    /\ Begin
    /\ \E a \in alerts :
        job' = [job EXCEPT ![r] = [Blank EXCEPT !.stage = "deleting",
                                                !.rows = <<a>>]]
    /\ UNCHANGED <<teams, alerts, audit, answered, clock, nextId, nextEvent,
                   walk>>

\* The DELETE, its event and the commit.  A row that is gone already is only
\* a warning.
Delete(r) ==
    /\ job[r].stage = "deleting"
    /\ alerts' = alerts \ Range(job[r].rows)
    /\ audit' = audit \cup {[n |-> nextEvent, action |-> "alert.deleted",
                             alert |-> Range(job[r].rows), before |-> 0]}
    /\ nextEvent' = nextEvent + 1
    /\ job' = [job EXCEPT ![r] = Blank]
    /\ UNCHANGED <<teams, answered, clock, nextId, walk, started>>

\* `make retention`: every alert older than ALERT_RETENTION_DAYS, in one
\* statement, with one event for all of them (and none is an event too).
Retain ==
    /\ Begin
    /\ \E t \in 1..clock :
        /\ alerts' = {a \in alerts : a.at >= t}
        /\ audit' = audit \cup {[n |-> nextEvent, before |-> t,
                                 action |-> "retention.applied", alert |-> {}]}
    /\ nextEvent' = nextEvent + 1
    /\ UNCHANGED <<teams, job, answered, clock, nextId, walk>>

---------------------------------------------------------------------------
\* Listing: newest first, ties by id.

Newer(a, b) == a.at > b.at \/ (a.at = b.at /\ a.id > b.id)
Newest(S, n) == {a \in S : Cardinality({b \in S : Newer(b, a)}) < n}

\* Mutant of PastCursor: the time alone.
PastCursorByTime(a, c) == c.at > a.at

\* (created_at, id) < the cursor's.
PastCursor(a, c) == Newer(c, a)

\* newest_alerts: each team's newest, through its index, and the newest of
\* them; for one team it is the same query.
NewestAlerts(n) ==
    LET past == {a \in alerts : \A c \in cursor : PastCursor(a, c)}
    IN  Newest(UNION {Newest({a \in past : a.team = t}, n) : t \in Sees}, n)

\* GET /alerts: one row more than the page is read, to know of a next one.
\* The first page has no cursor.
ListPage ==
    LET rows == NewestAlerts(PageSize + 1)
        page == Newest(rows, PageSize)
    IN  /\ ~complete
        /\ listed' = Append(listed, page)
        /\ cursor' = {a \in page : \A b \in page : ~Newer(a, b)}
        /\ complete' = (rows = page)
        /\ owed' = IF listed = <<>> THEN {a \in alerts : a.team \in Sees}
                                    ELSE owed
        /\ UNCHANGED <<teams, alerts, audit, job, answered, clock, nextId,
                       nextEvent, started>>

---------------------------------------------------------------------------
\* A sign-in brings a new team; time passes.
NewTeam ==
    /\ \E t \in Teams \ teams : teams' = teams \cup {t}
    /\ UNCHANGED <<alerts, audit, job, answered, clock, nextId, nextEvent, walk,
                   started>>

Tick ==
    /\ clock < MaxTime
    /\ clock' = clock + 1
    /\ UNCHANGED <<teams, alerts, audit, job, answered, nextId, nextEvent, walk,
                   started>>

Next ==
    \/ \E r \in Requests :
         \/ Receive(r) \/ Create(r) \/ Insert(r) \/ Commit(r) \/ Fail(r)
         \/ ReadToDelete(r) \/ Delete(r)
    \/ Retain \/ ListPage \/ NewTeam \/ Tick

Spec == Init /\ [][Next]_vars

---------------------------------------------------------------------------
\* Properties.

\* Types, issued ids and event numbers, and one row per episode, stored or
\* being inserted (uq_alerts_external_id).
TypeOK ==
    /\ Default \in teams /\ teams \subseteq Teams
    /\ alerts \subseteq Row /\ audit \subseteq Event
    /\ job \in [Requests -> Job]
    /\ answered \subseteq Episodes
    /\ clock \in Nat /\ nextId \in Nat /\ nextEvent \in Nat /\ started \in Nat
    /\ listed \in Seq(SUBSET Row)
    /\ cursor \subseteq Row /\ owed \subseteq Row /\ complete \in BOOLEAN
    /\ \A a \in alerts : a.id < nextId
    /\ \A e \in audit : e.n < nextEvent
    /\ \A a, b \in alerts :
         a.id = b.id \/ (a.episode = b.episode /\ a.episode \in Episodes)
           => a = b

\* Alertmanager stops re-sending what was answered: each episode of a webhook
\* answered with a 200 has been stored, although the row that made it skip its
\* own may have been another webhook's, uncommitted a moment ago.
AnsweredIsStored ==
    \A p \in answered : \E e \in audit :
        e.action = "alert.created" /\ \E a \in e.alert : a.episode = p

Removes(e, a) ==
    \/ e.action = "alert.deleted" /\ a \in e.alert
    \/ e.action = "retention.applied" /\ a.at < e.before

\* The trail accounts for the table (app/audit.py's first paragraph): a stored
\* alert was recorded once, and an alert that was recorded and is not stored
\* any more was deleted by a later event.
EveryAlertIsOnRecord ==
    /\ \A a \in alerts :
         Cardinality({e \in audit : e.action = "alert.created"
                                      /\ a \in e.alert}) = 1
    /\ \A e \in audit : e.action = "alert.created" =>
         \A a \in e.alert \ alerts : \E d \in audit : d.n > e.n /\ Removes(d, a)

\* Page after page the list goes from newer to older and gives no alert
\* twice, while alerts are stored and deleted around it; and a walk to the end
\* gives every alert that was there when it began and still is, whichever
\* teams they are of (queries.py:20-76).
WalkIsComplete ==
    /\ \A i, j \in DOMAIN listed : i < j =>
            \A a \in listed[i], b \in listed[j] : Newer(a, b)
    /\ complete => owed \cap alerts \subseteq UNION Range(listed)

Before(p, e, f) == e # f /\ \E i, j \in DOMAIN p : i < j /\ p[i] = e /\ p[j] = f

\* Webhooks that list their episodes in one common order never wait for each
\* other in a circle, an episode listed twice in a row among them; those that do
\* not may, and Postgres ends one of them.
OneOrderNeverCollides ==
    \A S \in (SUBSET Requests) \ {{}} :
        (\A x \in S : \E y \in S : WaitsFor(x, y))
        => ~\E rank \in [Episodes -> 1..Cardinality(Episodes)] :
              /\ IsInjective(rank)
              /\ \A x \in S, e, f \in Episodes :
                    Before(job[x].payload, e, f) => rank[e] < rank[f]
=============================================================================
