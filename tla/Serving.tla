------------------------------ MODULE Serving -------------------------------
(***************************************************************************)
(* One api worker: its requests, the database connections they use, and    *)
(* what is counted (app/middleware.py, app/errors.py, app/db.py,           *)
(* app/routes/health.py), in front of a database that freezes, comes back  *)
(* and loses connections.                                                  *)
(*                                                                         *)
(* A query on a frozen database ends when the database answers, or when    *)
(* PgBouncer closes its connection.                                        *)
(***************************************************************************)
EXTENDS Naturals, FiniteSets

CONSTANTS
    Requests,
    Conns       \* the pool: DB_POOL_SIZE and DB_MAX_OVERFLOW of them

VARIABLES
    frozen,     \* the database does not answer
    conn,       \* connection -> what is asked of it
    sort,       \* request -> "route", "stream" (an answer) or "probe" (/ready)
    work,       \* request -> its database work, for a probe the check's task
    reply,      \* request -> [stage, status], what the client is sent
    inProgress, \* http_requests_in_progress
    counted     \* http_requests_total: request -> the status it counts under

vars == <<frozen, conn, sort, work, reply, inProgress, counted>>

Nobody == "nobody"

ServingConstants == Nobody \notin Requests

FreeConn == [by |-> Nobody, state |-> "free"]

Init ==
    /\ frozen = FALSE
    /\ conn = [c \in Conns |-> FreeConn]
    /\ sort \in [Requests -> {"route", "stream", "probe"}]
    /\ work = [r \in Requests |-> "none"]
    /\ reply = [r \in Requests |-> [stage |-> "none", status |-> 500]]
    /\ inProgress = 0 /\ counted = [r \in Requests |-> {}]

Freeze ==
    /\ frozen' = ~frozen
    /\ UNCHANGED <<conn, sort, work, reply, inProgress, counted>>

\* RequestContextMiddleware begins; the route asks the pool for a connection.
Arrive(r) ==
    /\ reply[r].stage = "none"
    /\ reply' = [reply EXCEPT ![r].stage = "handling"]
    /\ work' = [work EXCEPT ![r] = "waiting"]
    /\ inProgress' = inProgress + 1
    /\ UNCHANGED <<frozen, conn, sort, counted>>

Checkout(r) ==
    /\ work[r] = "waiting"
    /\ \E c \in Conns :
        /\ conn[c] = FreeConn
        /\ conn' = [conn EXCEPT ![c] = [by |-> r, state |-> "querying"]]
    /\ work' = [work EXCEPT ![r] = "querying"]
    /\ UNCHANGED <<frozen, sort, reply, inProgress, counted>>

\* What the client is sent, and the middleware's finally: the request stops
\* being in progress and counts under the status that was sent.
Sends(r, status) ==
    /\ reply' = [reply EXCEPT ![r] = [stage |-> "sent", status |-> status]]
    /\ inProgress' = inProgress - 1
    /\ counted' = [counted EXCEPT ![r] = @ \cup {status}]

Streams(r) ==
    /\ reply' = [reply EXCEPT ![r] = [stage |-> "streaming", status |-> 200]]
    /\ UNCHANGED <<inProgress, counted>>

\* The work of a request ends, well or with an exception its handler turns
\* into `failure`.  An abandoned check has nobody to tell.
Conclude(r, failure) ==
    IF reply[r].stage # "handling" THEN UNCHANGED <<reply, inProgress, counted>>
    ELSE IF failure = 0
    THEN IF sort[r] = "stream" THEN Streams(r) ELSE Sends(r, 200)
    ELSE Sends(r, IF sort[r] = "probe" THEN 503 ELSE failure)

WorkOver(r) == work' = [work EXCEPT ![r] = "over"]

\* DB_POOL_TIMEOUT_S passes without a connection.
PoolTimeout(r) ==
    /\ work[r] = "waiting"
    /\ WorkOver(r) /\ Conclude(r, 503)
    /\ UNCHANGED <<frozen, conn, sort>>

\* The database answers: rows, a refusal of the route's (404), an SQL error.
\* The session is closed before the answer is sent.
DatabaseAnswers(c) ==
    /\ ~frozen /\ conn[c].state = "querying"
    /\ conn' = [conn EXCEPT ![c] = FreeConn]
    /\ WorkOver(conn[c].by)
    /\ \E failure \in {0, 404, 500} : Conclude(conn[c].by, failure)
    /\ UNCHANGED <<frozen, sort>>

\* The connection dies (query_timeout, a restart): connection_failed, 503,
\* and the pool opens another one.
ConnectionDies(c) ==
    /\ conn[c].state = "querying"
    /\ conn' = [conn EXCEPT ![c] = FreeConn]
    /\ WorkOver(conn[c].by) /\ Conclude(conn[c].by, 503)
    /\ UNCHANGED <<frozen, sort>>

\* Mutant of ProbeDeadline: asyncio.timeout(), which cancels the check; the
\* server is to acknowledge that, and a frozen one's connection dies first.
ProbeDeadlineCancels(r) ==
    /\ sort[r] = "probe" /\ reply[r].stage = "handling"
    /\ Sends(r, 503)
    /\ WorkOver(r)
    /\ conn' = [c \in Conns |->
                    IF conn[c].by # r THEN conn[c]
                    ELSE IF frozen THEN [conn[c] EXCEPT !.state = "stuck"] ELSE FreeConn]
    /\ UNCHANGED <<frozen, sort>>

\* probe() answers in 2 s; a check that overruns is left to end by itself.
ProbeDeadline(r) ==
    /\ sort[r] = "probe" /\ reply[r].stage = "handling"
    /\ Sends(r, 503)
    /\ UNCHANGED <<frozen, conn, sort, work>>

\* The answer's last byte, or an exception after its first: too late for
\* another status.
StreamEnds(r) ==
    /\ reply[r].stage = "streaming"
    /\ Sends(r, reply[r].status)
    /\ UNCHANGED <<frozen, conn, sort, work>>

Next ==
    \/ Freeze
    \/ \E r \in Requests :
        Arrive(r) \/ Checkout(r) \/ PoolTimeout(r) \/ ProbeDeadline(r) \/ StreamEnds(r)
    \/ \E c \in Conns : DatabaseAnswers(c) \/ ConnectionDies(c)

\* Every query has its end: statement_timeout, or PgBouncer's query_timeout
\* when the database cannot answer.  A wait for the pool and a probe have
\* their deadlines, an answer its own (AnswerStream).  Nothing is assumed of
\* the database: it may freeze for ever.
Fairness ==
    /\ \A c \in Conns : WF_vars(DatabaseAnswers(c) \/ ConnectionDies(c))
    /\ \A r \in Requests : WF_vars(PoolTimeout(r) \/ Checkout(r))
    /\ \A r \in Requests : WF_vars(StreamEnds(r))
    /\ \A r \in Requests : WF_vars(ProbeDeadline(r))

Spec == Init /\ [][Next]_vars /\ Fairness

-----------------------------------------------------------------------------
\* Types; a connection is held by work under way, of a request being handled
\* or of a check /ready gave up on; the gauge counts the requests being
\* handled, and each counts once, under the status its client was sent.
TypeOK ==
    /\ frozen \in BOOLEAN
    /\ conn \in [Conns -> [by : Requests \cup {Nobody},
                           state : {"free", "querying"}]]
    /\ work \in [Requests -> {"none", "waiting", "querying", "over"}]
    /\ \A r \in Requests :
        /\ reply[r].stage \in {"none", "handling", "streaming", "sent"}
        /\ reply[r].status \in {200, 404, 500, 503}
        /\ (\E c \in Conns : conn[c].by = r)
            => reply[r].stage = "handling" \/ sort[r] = "probe"
        /\ counted[r] = IF reply[r].stage = "sent" THEN {reply[r].status} ELSE {}
    /\ inProgress = Cardinality({r \in Requests :
                                    reply[r].stage \in {"handling", "streaming"}})

\* However long the database is frozen and whatever dies meanwhile, no
\* connection leaks: each one in use is free again, a check that /ready gave
\* up on included, and every request is answered (db.py:45-53,
\* health.py:68-92).  Each request comes once: from some time on the whole
\* pool is free.
PoolRecovers ==
    <>[](/\ \A c \in Conns : conn[c] = FreeConn
         /\ \A r \in Requests : reply[r].stage \in {"none", "sent"})
=============================================================================
