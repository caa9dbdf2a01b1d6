-------------------------------- MODULE Chat --------------------------------
(***************************************************************************)
(* What the assistant gives to a model, for whom, and when                 *)
(* (app/routes/chat.py, app/switch.py, app/agent.py, app/tools.py,         *)
(* app/mcp_server.py).                                                     *)
(*                                                                         *)
(* An asker is one question in pipeline mode (the service reads the        *)
(* context, then calls the model once), one question in agent mode (the    *)
(* model calls tools, one after another), or one MCP client (its calls     *)
(* overlap and share one list of sections).  Which sections and alerts a   *)
(* read returns is a free choice; the numbers they get, the audit event    *)
(* and what reaches the model are the code's.  How an answer is streamed   *)
(* is AnswerStream.                                                        *)
(***************************************************************************)
EXTENDS Naturals, Sequences, FiniteSets

CONSTANTS
    Sections, Alerts,   \* what the asker's teams have
    Searches, Lists,    \* calls of the two tools, by canonical arguments
    Invalid,            \* unknown tools and arguments the schema refuses
    Casts,              \* which askers are followed together, and their kind
    MaxSteps,           \* AGENT_MAX_STEPS
    MaxCalls,           \* bound: tool calls of one round
    MaxHits,            \* bound: sections of one search
    MaxMcp,             \* bound: calls of an MCP client
    MaxTurns            \* bound: turns of the switch

Calls == Searches \cup Lists \cup Invalid
Kinds == {"pipeline", "agent", "mcp"}

ChatConstants ==
    /\ Searches \cap Lists = {} /\ (Searches \cup Lists) \cap Invalid = {}
    /\ {MaxSteps, MaxCalls, MaxHits, MaxMcp, MaxTurns} \subseteq Nat

\* The sections of a search in rank order, each once.
Hits == {h \in UNION {[1..n -> Sections] : n \in 0..MaxHits} :
            \A i, j \in DOMAIN h : h[i] = h[j] => i = j}

\* What a read found, and what the same read can find.
Nothing == [sections |-> <<>>, alerts |-> {}]
Found(call) ==
    {[sections |-> h, alerts |-> {}] : h \in IF call \in Searches THEN Hits ELSE {<<>>}}
        \cup {[sections |-> <<>>, alerts |-> a] :
                a \in IF call \in Lists THEN SUBSET Alerts ELSE {{}}}

Members(seq) == {seq[i] : i \in DOMAIN seq}
Items(found) == Members(found.sections) \cup found.alerts

VARIABLES
    enabled,    \* assistant_switch.enabled
    turned,     \* the switch's audit events: what it was turned to
    session,    \* the MCP client's session is still good
    kind,       \* asker -> what it is
    asks,       \* asker -> its question or connection (see TypeOK)
    running     \* tool calls under way, abandoned ones included (_running)

vars == <<enabled, turned, session, kind, asks, running>>

Askers == DOMAIN kind
Open == {"arrived", "reading", "recording"}
Answering == {"answering", "calling", "waiting"}
Ended == {"refused", "failed", "ended"}

Fresh(k) == [stage |-> IF k = "mcp" THEN "open" ELSE "idle",
             heard |-> {}, step |-> 0, todo |-> <<>>, begun |-> 0,
             called |-> {}, found |-> Nothing, sections |-> <<>>,
             told |-> {}, alerts |-> {}, recorded |-> {}]

Init ==
    /\ enabled \in BOOLEAN /\ turned = <<>> /\ session = TRUE
    /\ kind \in Casts
    /\ asks = [c \in Askers |-> Fresh(kind[c])]
    /\ running = {}

-----------------------------------------------------------------------------
(* The off switch, turned by an org admin or by an operator at the host.   *)

\* switch.turn and the caller's commit: the row and its audit event.
Turn(to) ==
    /\ Len(turned) < MaxTurns
    /\ enabled' = to /\ turned' = Append(turned, to)
    /\ asks' = [c \in Askers |->
                    IF asks[c].stage = "arrived"
                    THEN [asks[c] EXCEPT !.heard = @ \cup {to}] ELSE asks[c]]
    /\ UNCHANGED <<session, kind, running>>

\* Mutant of Admits: the check comes after the branch to the agent.
AdmitsAgents(c) == enabled \/ kind[c] = "agent"

\* switch.current: one read of the row, for every question.
Admits(c) == enabled

-----------------------------------------------------------------------------
(* A question, up to its answer: chat_stream and _agent_answer.            *)

Ask(c) ==
    /\ asks[c].stage = "idle"
    /\ asks' = [asks EXCEPT ![c].stage = "arrived", ![c].heard = {enabled}]
    /\ UNCHANGED <<enabled, turned, session, kind, running>>

CheckSwitch(c) ==
    /\ asks[c].stage = "arrived"
    /\ asks' = [asks EXCEPT ![c].stage =
                    IF ~Admits(c) THEN "refused"
                    ELSE IF kind[c] = "agent" THEN "recording" ELSE "reading"]
    /\ UNCHANGED <<enabled, turned, session, kind, running>>

\* The question is embedded; sections, then alerts are read.
ReadContext(c) ==
    /\ asks[c].stage = "reading"
    /\ \E h \in Hits, a \in SUBSET Alerts :
        asks' = [asks EXCEPT ![c].stage = "recording",
                             ![c].found = [sections |-> h, alerts |-> a]]
    /\ UNCHANGED <<enabled, turned, session, kind, running>>

\* build_messages numbers the sections from 1.
Numbered(sections) == {<<n, sections[n]>> : n \in DOMAIN sections}

\* chat.asked is committed, then the answer starts: in pipeline mode the
\* prompt already holds what was read.
RecordAsked(c) ==
    /\ asks[c].stage = "recording"
    /\ asks' = [asks EXCEPT
            ![c].stage = "answering",
            ![c].recorded = Items(asks[c].found),
            ![c].sections = asks[c].found.sections,
            ![c].alerts = asks[c].found.alerts,
            ![c].told = Numbered(asks[c].found.sections),
            ![c].found = Nothing]
    /\ UNCHANGED <<enabled, turned, session, kind, running>>

\* The database fails: the request answers 503 and rolls back.
RequestFails(c) ==
    /\ asks[c].stage \in Open
    /\ asks' = [asks EXCEPT ![c].stage = "failed", ![c].found = Nothing]
    /\ UNCHANGED <<enabled, turned, session, kind, running>>

-----------------------------------------------------------------------------
(* The agent's loop.                                                       *)

\* Mutant of Offered: off by one, the loop gives the model one round more.
OfferedOnceMore(c) == kind[c] = "agent" /\ asks[c].step <= MaxSteps

\* The last round offers no tools.
Offered(c) == kind[c] = "agent" /\ asks[c].step < MaxSteps

\* One call of the model ends: with tool calls, or with the answer.  Calls
\* of a round that offered no tools are not run.
ModelAnswers(c) ==
    /\ asks[c].stage = "answering"
    /\ \E n \in 0..MaxCalls : \E calls \in [1..n -> Calls] :
        IF n > 0 /\ Offered(c)
        THEN asks' = [asks EXCEPT ![c].stage = "calling", ![c].todo = calls]
        ELSE asks' = [asks EXCEPT ![c].stage = "ended"]
    /\ UNCHANGED <<enabled, turned, session, kind, running>>

\* The model fails (an error, a timeout): the answer ends with an error.
ModelFails(c) ==
    /\ asks[c].stage = "answering"
    /\ asks' = [asks EXCEPT ![c].stage = "failed"]
    /\ UNCHANGED <<enabled, turned, session, kind, running>>

Begun(c, call) == [by |-> c, id |-> asks[c].begun, call |-> call,
                   state |-> "running", awaited |-> TRUE, found |-> Nothing]

\* The next call of the round: refused when it repeats one, answered with an
\* error when it is invalid, or run.
NextCall(c) ==
    /\ asks[c].stage = "calling" /\ asks[c].todo # <<>>
    /\ LET call == Head(asks[c].todo)
           skip == [asks EXCEPT ![c].todo = Tail(@),
                                ![c].called = @ \cup {call}]
       IN  IF call \in asks[c].called \cup Invalid
           THEN asks' = skip /\ UNCHANGED running
           ELSE /\ asks' = [skip EXCEPT ![c].stage = "waiting",
                                        ![c].begun = @ + 1]
                /\ running' = running \cup {Begun(c, call)}
    /\ UNCHANGED <<enabled, turned, session, kind>>

NextRound(c) ==
    /\ asks[c].stage = "calling" /\ asks[c].todo = <<>>
    /\ asks' = [asks EXCEPT ![c].stage = "answering", ![c].step = @ + 1]
    /\ UNCHANGED <<enabled, turned, session, kind, running>>

\* The stream's deadline passes or the asker hangs up: the producer is
\* cancelled at its await; a tool call it awaits is left alone.
Cut(c) ==
    /\ asks[c].stage \in Answering
    /\ asks' = [asks EXCEPT ![c].stage = "ended", ![c].todo = <<>>]
    /\ running' = {r \in running : r.by # c}
            \cup {[r EXCEPT !.awaited = FALSE] :
                    r \in {s \in running : s.by = c /\ s.state = "running"}}
    /\ UNCHANGED <<enabled, turned, session, kind>>

-----------------------------------------------------------------------------
(* The tools, for the agent and for MCP clients.                           *)

\* A call of an MCP client, while its session authenticates.
McpCall(c) ==
    /\ asks[c].stage = "open" /\ session /\ asks[c].begun < MaxMcp
    /\ \E call \in Searches \cup Lists :
        running' = running \cup {Begun(c, call)}
    /\ asks' = [asks EXCEPT ![c].begun = @ + 1]
    /\ UNCHANGED <<enabled, turned, session, kind>>

Revoke ==
    /\ session /\ \E c \in Askers : kind[c] = "mcp"
    /\ session' = FALSE
    /\ UNCHANGED <<enabled, turned, kind, asks, running>>

\* A search's sections, one after another: one the list has keeps its number,
\* a new one goes to the end.
Merged(list, found) ==
    LET after[n \in 0..Len(found)] ==
            IF n = 0 THEN list
            ELSE IF found[n] \in Members(after[n - 1]) THEN after[n - 1]
            ELSE Append(after[n - 1], found[n])
    IN  after[Len(found)]

\* What is left of a call that ends as `state`: one nobody awaits is dropped.
Left(r, state, found) ==
    IF r.awaited THEN {[r EXCEPT !.state = state, !.found = found]} ELSE {}

\* Mutant of Query: the event is written in a transaction of its own, after
\* the read, and that one may fail.
QueryThenRecord(r) ==
    /\ r.state = "running"
    /\ \E found \in Found(r.call), kept \in BOOLEAN :
        /\ running' = (running \ {r}) \cup Left(r, "done", found)
        /\ asks' = [asks EXCEPT ![r.by].recorded =
                        @ \cup IF kept THEN Items(found) ELSE {}]
    /\ UNCHANGED <<enabled, turned, session, kind>>

\* Mutant of Query: the call itself adds what it found to the list.
QueryNumbersAtOnce(r) ==
    /\ r.state = "running"
    /\ \E found \in Found(r.call) :
        /\ running' = (running \ {r}) \cup Left(r, "done", found)
        /\ asks' = [asks EXCEPT
                ![r.by].recorded = @ \cup Items(found),
                ![r.by].sections = Merged(@, found.sections)]
    /\ UNCHANGED <<enabled, turned, session, kind>>

\* _list_alerts, _search_runbooks: the read, its event and the commit are one
\* transaction, awaited or not.
Query(r) ==
    /\ r.state = "running"
    /\ \E found \in Found(r.call) :
        /\ running' = (running \ {r}) \cup Left(r, "done", found)
        /\ asks' = [asks EXCEPT ![r.by].recorded = @ \cup Items(found)]
    /\ UNCHANGED <<enabled, turned, session, kind>>

QueryFails(r) ==
    /\ r.state = "running"
    /\ running' = (running \ {r}) \cup Left(r, "failed", Nothing)
    /\ UNCHANGED <<enabled, turned, session, kind, asks>>

\* What the awaiting side does once a call is answered for.
Resume(ask) ==
    IF ask.stage = "waiting" THEN [ask EXCEPT !.stage = "calling"] ELSE ask

\* _sections_result, _alerts_result: the model reads each section under its
\* number.
TakeResult(r) ==
    /\ r.awaited /\ r.state = "done"
    /\ LET ask == asks[r.by]
           list == Merged(ask.sections, r.found.sections)
           read == {<<n, list[n]>> : n \in
                    {m \in DOMAIN list : list[m] \in Members(r.found.sections)}}
       IN  asks' = [asks EXCEPT ![r.by] = Resume(
                [ask EXCEPT !.sections = list, !.told = @ \cup read,
                            !.alerts = @ \cup r.found.alerts])]
    /\ running' = running \ {r}
    /\ UNCHANGED <<enabled, turned, session, kind>>

\* The exception ends the agent's answer; an MCP client is sent an error.
TakeError(r) ==
    /\ r.awaited /\ r.state = "failed"
    /\ asks' = [asks EXCEPT ![r.by].stage =
                    IF @ = "waiting" THEN "failed" ELSE @,
                            ![r.by].todo = <<>>]
    /\ running' = running \ {r}
    /\ UNCHANGED <<enabled, turned, session, kind>>

\* Mutant of Deadline: the late call is cancelled, and waited for until the
\* server acknowledges that, which it may never do.
DeadlineCancels(r) == FALSE

\* TIMEOUT_S passes: the model is told so, and the call is left running.
Deadline(r) ==
    /\ r.awaited /\ r.state = "running"
    /\ asks' = [asks EXCEPT ![r.by] = Resume(@)]
    /\ running' = (running \ {r}) \cup {[r EXCEPT !.awaited = FALSE]}
    /\ UNCHANGED <<enabled, turned, session, kind>>

-----------------------------------------------------------------------------
Next ==
    \/ \E to \in BOOLEAN : Turn(to)
    \/ Revoke
    \/ \E c \in Askers :
        \/ Ask(c) \/ CheckSwitch(c) \/ ReadContext(c) \/ RecordAsked(c)
        \/ RequestFails(c)
        \/ ModelAnswers(c) \/ ModelFails(c) \/ NextCall(c) \/ NextRound(c)
        \/ Cut(c) \/ McpCall(c)
    \/ \E r \in running :
        \/ Query(r) \/ QueryFails(r)
        \/ TakeResult(r) \/ TakeError(r) \/ Deadline(r)

\* The event loop runs what is ready and its timers; each call of the model
\* ends (its stream has a deadline of its own).  Nothing is assumed of the
\* database: a tool call may run for ever.
Fairness ==
    \A c \in UNION {DOMAIN cast : cast \in Casts} :
        /\ WF_vars(c \in Askers /\ ModelAnswers(c))
        /\ WF_vars(c \in Askers /\ (NextCall(c) \/ NextRound(c)))
        /\ WF_vars(\E r \in running : r.by = c /\ (TakeResult(r) \/ TakeError(r)))
        /\ WF_vars(\E r \in running : r.by = c /\ Deadline(r))

Spec == Init /\ [][Next]_vars /\ Fairness

-----------------------------------------------------------------------------
Stages == {"idle", "open"} \cup Open \cup Answering \cup Ended

Asking == [stage : Stages, heard : SUBSET BOOLEAN, step : 0..MaxSteps,
           todo : UNION {[1..n -> Calls] : n \in 0..MaxCalls},
           begun : 0..(MaxSteps * MaxCalls + MaxMcp), called : SUBSET Calls,
           found : [sections : Hits, alerts : SUBSET Alerts],
           sections : Seq(Sections), told : SUBSET (Nat \X Sections),
           alerts : SUBSET Alerts, recorded : SUBSET (Sections \cup Alerts)]

Call == [by : Askers, id : Nat, call : Searches \cup Lists,
         state : {"running", "done", "failed"}, awaited : BOOLEAN,
         found : [sections : Hits, alerts : SUBSET Alerts]]

\* Types; and the agent awaits exactly the one call it is waiting for
\* (tools.call inside agent._loop), an ended answer none.
TypeOK ==
    /\ enabled \in BOOLEAN /\ session \in BOOLEAN
    /\ turned \in Seq(BOOLEAN) /\ Len(turned) <= MaxTurns
    /\ kind \in Casts
    /\ \A c \in Askers : asks[c] \in Asking
    /\ running \subseteq Call
    /\ \A c \in Askers : kind[c] = "agent" =>
        Cardinality({r \in running : r.by = c /\ r.awaited})
            = IF asks[c].stage = "waiting" THEN 1 ELSE 0

\* The one check of the row, before anything else, is obeyed in either mode:
\* a question for which the switch was off from its arrival to its check is
\* never read for or answered, and one for which it was on throughout is not
\* refused (switch.py:1-16, chat.py:44-56).  An "off" that commits after the
\* check does not stop the question: the code looks once.
SwitchIsObeyed ==
    \A c \in Askers :
        /\ asks[c].heard = {FALSE} => asks[c].stage \in {"arrived", "refused", "failed"}
        /\ asks[c].heard = {TRUE} => asks[c].stage # "refused"

\* Every section and alert the model has read for an asker is named by a
\* committed audit event of that asker, whichever mode, tool or client it
\* went through, and whatever failed, was late or was cut (chat.py:79-101,
\* tools.py:248-302).
ToldIsRecorded ==
    \A c \in Askers :
        {p[2] : p \in asks[c].told} \cup asks[c].alerts \subseteq asks[c].recorded

\* The list citations are checked against is what the model has read, number
\* for number: a section keeps its number through later searches and through
\* the overlapping calls of an MCP client, no number is skipped, and a call
\* that came too late adds nothing (tools.py:155-159, 210-216, 305-318).
NumbersAreStable ==
    \A c \in Askers : asks[c].told = Numbered(asks[c].sections)

\* An answer that has started ends, whatever the database does to its tool
\* calls and although nobody cuts it: the rounds are bounded, and a call that
\* never returns is given up (agent.py:93-128, tools.py:219-241).  Each asker
\* asks once: from some time on nobody is being answered.
AnswersEnd == <>[](\A c \in Askers : asks[c].stage \notin Answering)
=============================================================================
