------------------------------- MODULE Services ------------------------------
(***************************************************************************)
(* Ten components that share no state with one another, put together as a  *)
(* disjoint sum: a behaviour is a behaviour of one of them, `part`,   *)
(* while the others stay where they start.  A joint state would tell a     *)
(* property nothing more: each property reads one component's variables.   *)
(***************************************************************************)
EXTENDS Naturals, Sequences, FiniteSets

CONSTANTS   \* of Chat
    Sections, Alerts, Searches, Lists, Invalid, Casts,
    OneClient,  \* the cast at rest while another component is followed
    MaxSteps, MaxCalls, MaxHits, MaxMcp, MaxTurns

CONSTANTS   \* of RateLimit, ProviderKeys, SessionLife
    LimitedRequests, Limit, Window, Patience, MaxClock,
    Keys, FirstKey, Verifiers, JwksMinRefresh, JwksMaxAge, FetchMax, MaxNow,
    SessionRequests, IdleTimeout, SessionAge, TouchCap, UserRetention, Delay, MaxTime

CONSTANTS   \* of Erasure, Serving, Migrations
    Accounts, MaxIds, MaxEvents,
    ServedRequests, Conns,
    Runs, None, MaxFailures

CONSTANTS   \* of ModelStream, EventParser, EvalGate
    CallIndexes, MaxPieces, MaxText, Texts,
    MaxLength,
    CaseCount, Repeat, Needed, Of, Before

VARIABLES
    part,   \* the component followed
    enabled, turned, session, kind, asks, running,
    clock, failClosed, counters, hits,
    now, published, born, gone, fresh, held, keysAt, verify,
    time, stored, lastSeen, ended, used, req,
    row, nextId, sessions, signing, acting, trail, job, forgotten, retired,
    frozen, conn, sort, work, reply, inProgress, counted,
    schema, invalid, stamp, holder, run, clashed, failures,
    pieces, posted, texts, finishes, calls, got, outcome, vectors,
    wire, sent, buffer, data, events, over,
    target, mode, judging, suite, tally, missing, verdict, broken, lapsed

chatVars == <<enabled, turned, session, kind, asks, running>>
limitVars == <<clock, failClosed, counters, hits>>
keysVars == <<now, published, born, gone, fresh, held, keysAt, verify>>
lifeVars == <<time, stored, lastSeen, ended, used, req>>
erasureVars == <<row, nextId, sessions, signing, acting, trail, job, forgotten, retired>>
servingVars == <<frozen, conn, sort, work, reply, inProgress, counted>>
migrationVars == <<schema, invalid, stamp, holder, run, clashed, failures>>
modelVars == <<pieces, posted, texts, finishes, calls, got, outcome, vectors>>
eventVars == <<wire, sent, buffer, data, events, over>>
evalVars == <<target, mode, judging, suite, tally, missing, verdict, broken, lapsed>>

CH == INSTANCE Chat
RL == INSTANCE RateLimit WITH Requests <- LimitedRequests
PK == INSTANCE ProviderKeys WITH MaxTime <- MaxNow
SL == INSTANCE SessionLife WITH Requests <- SessionRequests
ER == INSTANCE Erasure
SV == INSTANCE Serving WITH Requests <- ServedRequests
MG == INSTANCE Migrations
MS == INSTANCE ModelStream WITH Indexes <- CallIndexes
EP == INSTANCE EventParser
EG == INSTANCE EvalGate WITH Count <- CaseCount

ASSUME ServicesConstants ==
    /\ OneClient \in Casts
    /\ CH!ChatConstants /\ RL!RateLimitConstants /\ PK!ProviderConstants
    /\ SL!SessionConstants /\ ER!ErasureConstants /\ SV!ServingConstants
    /\ MG!MigrationConstants /\ MS!StreamConstants /\ EG!EvalConstants

Parts == {"chat", "ratelimit", "keys", "session", "erasure", "serving",
          "migrations", "model", "events", "evals"}

-----------------------------------------------------------------------------
\* A part that is not the one followed is in one of its initial states, and
\* there nothing is under way that fairness would ask to go on.
Init ==
    /\ part \in Parts
    /\ EG!Init /\ (part = "evals" \/
                    /\ target = "api" /\ mode = "plumbing"
                    /\ \A n \in DOMAIN suite :
                        suite[n] = [safety |-> FALSE, text |-> TRUE, context |-> FALSE,
                                    judge |-> FALSE, plumbing |-> TRUE])
    /\ EP!Init /\ (part = "events" \/ wire = <<>>)
    /\ CH!Init /\ (part = "chat" \/ (enabled /\ kind = OneClient))
    /\ RL!Init /\ (part = "ratelimit" \/ failClosed)
    /\ PK!Init /\ SL!Init /\ ER!Init
    /\ SV!Init /\ (part = "serving" \/ sort = [r \in DOMAIN sort |-> "route"])
    /\ MG!Init /\ (part = "migrations" \/ stamp = 0)
    /\ MS!Init /\ (part = "model" \/ pieces = <<>>)

Only(chosen) ==
    /\ part = chosen /\ UNCHANGED part
    /\ chosen # "chat" => UNCHANGED chatVars
    /\ chosen # "ratelimit" => UNCHANGED limitVars
    /\ chosen # "keys" => UNCHANGED keysVars
    /\ chosen # "session" => UNCHANGED lifeVars
    /\ chosen # "erasure" => UNCHANGED erasureVars
    /\ chosen # "serving" => UNCHANGED servingVars
    /\ chosen # "migrations" => UNCHANGED migrationVars
    /\ chosen # "model" => UNCHANGED modelVars
    /\ chosen # "events" => UNCHANGED eventVars
    /\ chosen # "evals" => UNCHANGED evalVars

Chat == Only("chat") /\ CH!Next
RateLimit == Only("ratelimit") /\ RL!Next
ProviderKeys == Only("keys") /\ PK!Next
SessionLife == Only("session") /\ SL!Next
Erasure == Only("erasure") /\ ER!Next
Serving == Only("serving") /\ SV!Next
Migrations == Only("migrations") /\ MG!Next
ModelStream == Only("model") /\ MS!Next
EventParser == Only("events") /\ EP!Next
EvalGate == Only("evals") /\ EG!Next

Next ==
    \/ Chat \/ RateLimit \/ ProviderKeys \/ SessionLife \/ Erasure
    \/ Serving \/ Migrations \/ ModelStream \/ EventParser \/ EvalGate

vars == <<part, chatVars, limitVars, keysVars, lifeVars, erasureVars,
          servingVars, migrationVars, modelVars, eventVars, evalVars>>

Spec == Init /\ [][Next]_vars /\ CH!Fairness /\ SV!Fairness

-----------------------------------------------------------------------------
(* The components' properties, under their own names.                      *)

\* Types of every component, with Chat's one awaited call at a time and
\* Serving's accounts of connections and requests.
TypeOK ==
    CASE part = "chat" -> CH!TypeOK
      [] part = "ratelimit" -> RL!TypeOK
      [] part = "keys" -> PK!TypeOK
      [] part = "session" -> SL!TypeOK
      [] part = "erasure" -> ER!TypeOK
      [] part = "serving" -> SV!TypeOK
      [] part = "migrations" -> MG!TypeOK
      [] part = "model" -> MS!TypeOK
      [] part = "events" -> EP!TypeOK
      [] part = "evals" -> EG!TypeOK

\* A question that met the switch only off is refused before any model call,
\* and one that met it only on is not (switch.py:1-16, chat.py:44-56).
SwitchIsObeyed == CH!SwitchIsObeyed

\* What a model has read is named by a committed audit event (tools.py:248-302).
ToldIsRecorded == CH!ToldIsRecorded

\* A section keeps its number through an answer or an MCP session
\* (tools.py:305-318).
NumbersAreStable == CH!NumbersAreStable

\* An answer that has started ends, whatever its tool calls do
\* (agent.py:93-128, tools.py:219-241).
AnswersEnd == CH!AnswersEnd

\* No more than twice the limit in any interval of a window's length
\* (ratelimit.py:1-14).
AtMostTwicePerWindow == RL!AtMostTwicePerWindow

\* Withdrawn keys are not trusted, new ones not refused, for longer than the
\* key set's ages allow (oidc.py:44-50).
KeysFollowTheProvider == PK!KeysFollowTheProvider

\* A session in use is not ended for idleness (sessions.py:42-46).
SessionInUseLives == SL!SessionInUseLives

\* A forgotten person is gone; retention takes nobody who has just signed in
\* (privacy.py:68-96, 179-196).
ForgottenIsGone == ER!ForgottenIsGone

\* However long the database is frozen, no connection leaks and every request
\* is answered (db.py:45-53, health.py:68-92).
PoolRecovers == SV!PoolRecovers

\* Parallel and retried migration runs never get into each other's way
\* (env.py:12-16, 71-82).
MigrationsDoNotCollide == MG!MigrationsDoNotCollide

\* Tool calls reach the service whole, once, in order (llm.py:258-276).
CallsAreWhole == MS!CallsAreWhole

\* The events do not depend on how the network cuts the stream (sse.ts:12-17).
SplitsDoNotMatter == EP!SplitsDoNotMatter

\* An accepted eval run has checked something, no safety check failed, and no
\* case has stopped passing since the baseline (run.py:289-351).
GateMeansChecked == EG!GateMeansChecked
=============================================================================
