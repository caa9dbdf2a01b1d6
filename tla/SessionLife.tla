---------------------------- MODULE SessionLife -----------------------------
(***************************************************************************)
(* One session, from its sign-in to its end: the checks and the touch of   *)
(* every request (app/sessions.py authenticate), and what deletes it       *)
(* (sign-out, revoking, the sweep of expired sessions, retention).         *)
(*                                                                         *)
(* now() is the start of a request's transaction, and its touch is written *)
(* later: a slow request moves last_seen_at backwards.                     *)
(***************************************************************************)
EXTENDS Integers

CONSTANTS
    Requests,       \* requests under way with the session
    IdleTimeout,    \* SESSION_IDLE_TIMEOUT_S
    SessionAge,     \* SESSION_MAX_AGE_S
    TouchCap,       \* TOUCH_INTERVAL_S
    UserRetention,  \* USER_RETENTION_DAYS
    Delay,          \* longest from a request's now() to its touch's commit
    MaxTime         \* bound: time the model runs

SessionConstants ==
    /\ {IdleTimeout, SessionAge, TouchCap, UserRetention, Delay, MaxTime}
            \subseteq Nat
    /\ SessionAge <= UserRetention  \* the defaults: 12 hours and 365 days

VARIABLES
    time,
    stored,     \* the row is there
    lastSeen,   \* last_seen_at
    ended,      \* somebody ended the session: sign-out, revoke
    used,       \* now() of the last request the session was good for
    req         \* request -> how far it is, its now(), and how long nothing
                \* had used the session when it was refused

vars == <<time, stored, lastSeen, ended, used, req>>

Smaller(a, b) == IF a < b THEN a ELSE b
Larger(a, b) == IF a < b THEN b ELSE a

ExpiresAt == SessionAge     \* signed in at time 0

Idle == [stage |-> "idle", at |-> 0, unused |-> 0]

Init ==
    /\ time = 0 /\ stored = TRUE /\ lastSeen = 0 /\ ended = FALSE /\ used = 0
    /\ req = [r \in Requests |-> Idle]

\* Mutant of TouchInterval: one interval for every idle timeout.
TouchIntervalFixed == TouchCap

\* touch_interval_s
TouchInterval == Smaller(TouchCap, IdleTimeout \div 10)

Begin(r) ==
    /\ req[r].stage = "idle"
    /\ req' = [req EXCEPT ![r].stage = "begun", ![r].at = time]
    /\ UNCHANGED <<time, stored, lastSeen, ended, used>>

\* The query's conditions.
Valid(at) == stored /\ ExpiresAt > at /\ lastSeen > at - IdleTimeout

Authenticate(r) ==
    /\ req[r].stage = "begun"
    /\ LET at == req[r].at
           stale == lastSeen < at - TouchInterval
           stage == IF ~Valid(at) THEN "refused"
                    ELSE IF stale THEN "touching" ELSE "served"
       IN  /\ req' = [req EXCEPT ![r].stage = stage,
                                 ![r].unused = IF stage = "refused"
                                               THEN at - used ELSE 0]
           /\ used' = IF stage = "served" THEN Larger(used, at) ELSE used
    /\ UNCHANGED <<time, stored, lastSeen, ended>>

\* last_seen_at = now(), committed; nothing where the row has gone.
Touch(r) ==
    /\ req[r].stage = "touching"
    /\ lastSeen' = IF stored THEN req[r].at ELSE lastSeen
    /\ used' = Larger(used, req[r].at)
    /\ req' = [req EXCEPT ![r].stage = "served"]
    /\ UNCHANGED <<time, stored, ended>>

RequestFails(r) ==
    /\ req[r].stage \in {"begun", "touching"}
    /\ req' = [req EXCEPT ![r].stage = "failed"]
    /\ UNCHANGED <<time, stored, lastSeen, ended, used>>

\* sign_out and sign_out_everywhere.
EndSession ==
    /\ stored /\ stored' = FALSE /\ ended' = TRUE
    /\ UNCHANGED <<time, lastSeen, used, req>>

\* The sweep of a sign-in, and the retention job's: expired sessions, and
\* those of users who have not signed in for too long.
Sweep ==
    /\ stored /\ (ExpiresAt < time \/ UserRetention < time)
    /\ stored' = FALSE
    /\ UNCHANGED <<time, lastSeen, ended, used, req>>

Over(r) == req[r].stage \in {"served", "refused", "failed"}

Tick ==
    /\ time < MaxTime
    /\ \A r \in Requests :
        req[r].stage \in {"begun", "touching"} => time < req[r].at + Delay
    /\ time' = time + 1
    /\ req' = [r \in Requests |-> IF Over(r) THEN Idle ELSE req[r]]
    /\ UNCHANGED <<stored, lastSeen, ended, used>>

Next ==
    \/ Tick \/ EndSession \/ Sweep
    \/ \E r \in Requests :
        Begin(r) \/ Authenticate(r) \/ Touch(r) \/ RequestFails(r)

Spec == Init /\ [][Next]_vars

-----------------------------------------------------------------------------
TypeOK ==
    /\ time \in 0..MaxTime /\ stored \in BOOLEAN /\ ended \in BOOLEAN
    /\ lastSeen \in 0..time /\ used \in 0..time
    /\ req \in [Requests -> [stage : {"idle", "begun", "touching", "served",
                                      "refused", "failed"}, at : 0..time,
                              unused : -Delay..time]]

\* "A session in use is never ended for idleness more than a tenth early"
\* (sessions.py:42-46): a request is refused only when somebody ended the
\* session, it has reached its full age (by now, not by the request's now():
\* a sweep may have deleted the row since), or nothing used it for the idle
\* timeout less the touch interval (at most a tenth of it) - or less the time
\* a touch takes to commit, when a slow request moves last_seen_at back.
SessionInUseLives ==
    \A r \in Requests : req[r].stage = "refused" =>
        \/ ended
        \/ time >= ExpiresAt
        \/ req[r].unused >= IdleTimeout - Larger(IdleTimeout \div 10, Delay)
=============================================================================
