---------------------------- MODULE AnswerStream ----------------------------
(***************************************************************************)
(* One streamed answer (app/triage.py answer_events, app/sse.py): a        *)
(* producer task reads the answer's source and fills a bounded queue; the  *)
(* generator drains it into server-sent events.  The client may leave, the *)
(* source may fail or take too long, at any point of either.               *)
(*                                                                         *)
(* Items are numbered in the order the source emits them, so an item lost, *)
(* doubled or out of order shows; of an item only its kind is kept.  The   *)
(* source is any sequence of items, which covers both pipeline() and the   *)
(* agent's loop.  Heartbeats are comments: they pass by and leave no trace.*)
(***************************************************************************)
EXTENDS Naturals, Sequences

CONSTANTS
    QueueSize,  \* asyncio.Queue(maxsize=64)
    MaxItems,   \* bound: items the source emits before it can only end
    Failures    \* codes an exception of the source is reported under

ASSUME QueueSizeType == QueueSize \in Nat \ {0}
ASSUME MaxItemsType == MaxItems \in Nat
ASSUME FailuresAreErrors ==
    Failures \cap {"ok", "truncated", "cancelled", "", "end"} = {}

Kinds == {"token", "tool", "finish:stop", "finish:length"}
Codes == Failures \cup {"llm_timeout", "llm_empty_answer"}
Outcomes == {"ok", "truncated", "cancelled"} \cup Codes

\* What travels through the queue: an item, _END, or an exception.
Item == [n: 1..MaxItems, kind: Kinds]
Last == [n: {0}, kind: {"end", "llm_timeout"} \cup Failures]

VARIABLES
    client,     \* "here" or "gone"
    producer,   \* the producer task
    hand,       \* what it is waiting to put (a queue that is full)
    said,       \* items the source has emitted
    queue,
    generator,  \* where answer_events is suspended
    chunk,      \* the event of the yield it is suspended at
    told,       \* the number of the last item it has handled
    spoke,      \* ttft_s is not None
    finish,     \* the last finish reason, "" before the first
    outcome,
    ending,     \* "done" or "error" once sent, else ""
    gauge,      \* llm_active_streams, this answer's part
    counted     \* llm_requests, this answer's part

vars == <<client, producer, hand, said, queue, generator, chunk, told, spoke,
          finish, outcome, ending, gauge, counted>>

task == <<producer, hand, said>>
seen == <<told, spoke, finish>>
ledger == <<gauge, counted>>

Nothing == [n |-> 0, kind |-> "end"]

Init ==
    /\ client = "here"
    /\ producer = "none" /\ hand = Nothing /\ said = 0
    /\ queue = <<>>
    /\ generator = "created" /\ chunk = ""
    /\ told = 0 /\ spoke = FALSE /\ finish = ""
    /\ outcome = "cancelled" /\ ending = ""
    /\ gauge = 0 /\ counted = {}

-----------------------------------------------------------------------------
(* The producer: produce() over the source.                                *)

\* Mutant of Room: the bound is off by one.
RoomForOneMore == Len(queue) <= QueueSize

Room == Len(queue) < QueueSize

\* The source emits an item; queue.put waits while the queue is full.
Say ==
    /\ producer = "reading" /\ said < MaxItems
    /\ said' = said + 1
    /\ \E k \in Kinds :
        LET item == [n |-> said', kind |-> k]
        IN  IF Room
            THEN queue' = Append(queue, item) /\ UNCHANGED <<producer, hand>>
            ELSE producer' = "putting" /\ hand' = item /\ UNCHANGED queue
    /\ UNCHANGED <<client, generator, chunk, seen, outcome, ending, ledger>>

\* The consumer made room: the put returns and the source goes on.
Put ==
    /\ producer = "putting" /\ Room
    /\ queue' = Append(queue, hand)
    /\ producer' = "reading" /\ hand' = Nothing
    /\ UNCHANGED <<client, said, generator, chunk, seen, outcome, ending,
                   ledger>>

\* The source returns (_END) or raises.
SourceEnds ==
    /\ producer = "reading"
    /\ producer' = "ending"
    /\ \E k \in {"end"} \cup Failures : hand' = [n |-> 0, kind |-> k]
    /\ UNCHANGED <<client, said, queue, generator, chunk, seen, outcome,
                   ending, ledger>>

\* asyncio.timeout expires: whatever the source awaits is cancelled, a put
\* of an item included.
Expire ==
    /\ producer \in {"reading", "putting"}
    /\ producer' = "ending"
    /\ hand' = [n |-> 0, kind |-> "llm_timeout"]
    /\ UNCHANGED <<client, said, queue, generator, chunk, seen, outcome,
                   ending, ledger>>

\* The last put, outside the timeout.
PutLast ==
    /\ producer = "ending" /\ Room
    /\ queue' = Append(queue, hand)
    /\ producer' = "stopped" /\ hand' = Nothing
    /\ UNCHANGED <<client, said, generator, chunk, seen, outcome, ending,
                   ledger>>

\* The cancelled task has closed the provider's stream and is over.
Stop ==
    /\ producer = "cancelled"
    /\ producer' = "stopped" /\ hand' = Nothing
    /\ UNCHANGED <<client, said, queue, generator, chunk, seen, outcome,
                   ending, ledger>>

-----------------------------------------------------------------------------
(* The generator: answer_events, iterated by SSEResponse.                  *)

Yield(event) == generator' = "sending" /\ chunk' = event

\* Mutant of Cleanup: the producer is left running.
CleanupLeavesProducer == generator' = "finally" /\ UNCHANGED <<producer, hand>>

\* Entering the finally block: producer.cancel().
Cleanup ==
    /\ generator' = "finally"
    /\ producer' = IF producer = "stopped" THEN "stopped" ELSE "cancelled"
    /\ UNCHANGED hand

\* The first step of the generator, before its try block.
Start ==
    /\ generator = "created"
    /\ gauge' = gauge + 1
    /\ Yield("meta")
    /\ UNCHANGED <<client, task, queue, seen, outcome, ending, counted>>

\* The chunk went out and the generator is resumed.
Sent ==
    /\ generator = "sending"
    /\ \/ /\ chunk = "meta"
          /\ producer' = "reading"
          /\ generator' = "waiting"
          /\ UNCHANGED hand
       \/ /\ chunk \in {"item", "heartbeat"}
          /\ generator' = "waiting"
          /\ UNCHANGED <<producer, hand>>
       \/ /\ chunk \in {"done", "error"}
          /\ Cleanup
    /\ chunk' = ""
    /\ UNCHANGED <<client, said, queue, seen, outcome, ending, ledger>>

\* wait_for gives up on an empty queue; the answer waits on.
Heartbeat ==
    /\ generator = "waiting" /\ queue = <<>>
    /\ Yield("heartbeat")
    /\ UNCHANGED <<client, task, queue, seen, outcome, ending, ledger>>

\* An item: text and tool calls are sent on, a finish reason is kept.
Handle(item) ==
    /\ told' = item.n
    /\ IF item.kind \in {"token", "tool"}
       THEN /\ Yield("item")
            /\ spoke' = (spoke \/ item.kind = "token")
            /\ UNCHANGED finish
       ELSE /\ finish' = IF item.kind = "finish:length" THEN "length" ELSE "stop"
            /\ UNCHANGED <<generator, chunk, spoke>>
    /\ UNCHANGED <<outcome, ending>>

Fail(code) ==
    /\ outcome' = code /\ ending' = "error"
    /\ Yield("error")

\* Mutant of Conclude: an answer without a word is a success.
ConcludeBlank ==
    /\ outcome' = IF finish = "length" THEN "truncated" ELSE "ok"
    /\ ending' = "done"
    /\ Yield("done")

\* _END: an answer without a word is an error, a cut one is counted apart.
Conclude ==
    IF ~spoke
    THEN Fail("llm_empty_answer")
    ELSE /\ outcome' = IF finish = "length" THEN "truncated" ELSE "ok"
         /\ ending' = "done"
         /\ Yield("done")

\* The generator takes what is next in the queue.
Take ==
    /\ generator = "waiting" /\ queue # <<>>
    /\ queue' = Tail(queue)
    /\ LET x == Head(queue)
       IN  \/ x \in Item /\ Handle(x)
           \/ x.n = 0 /\ x.kind = "end" /\ Conclude /\ UNCHANGED seen
           \/ x.n = 0 /\ x.kind # "end" /\ Fail(x.kind) /\ UNCHANGED seen
    /\ UNCHANGED <<client, task, ledger>>

\* The end of the finally block: the producer has been awaited.
Account ==
    /\ generator = "finally" /\ producer = "stopped"
    /\ gauge' = gauge - 1
    /\ counted' = counted \cup {outcome}
    /\ generator' = "closed"
    /\ UNCHANGED <<client, task, queue, chunk, seen, outcome, ending>>

-----------------------------------------------------------------------------
(* The client leaves: the response's task is cancelled where it waits.     *)

Leave ==
    /\ client = "here" /\ generator # "closed"
    /\ client' = "gone"
    /\ UNCHANGED <<task, queue, generator, chunk, seen, outcome, ending,
                   ledger>>

\* Mutant of Cancelled: a plain StreamingResponse, which leaves the generator
\* suspended at its yield.
CancelledWithoutAclose ==
    /\ client = "gone"
    /\ \/ /\ generator \in {"created", "sending"}
          /\ generator' = "closed"
          /\ UNCHANGED <<producer, hand>>
       \/ /\ generator = "waiting"
          /\ Cleanup
    /\ chunk' = ""
    /\ UNCHANGED <<client, said, queue, seen, outcome, ending, ledger>>

\* While an event is being sent, SSEResponse closes the generator at its
\* yield; while the queue is awaited, the wait is cancelled.  The yield of
\* "meta" is before the try block: nothing else runs there, nor in a
\* generator that was never started.
Cancelled ==
    /\ client = "gone"
    /\ \/ /\ generator = "created" \/ (generator = "sending" /\ chunk = "meta")
          /\ generator' = "closed"
          /\ UNCHANGED <<producer, hand>>
       \/ /\ generator = "waiting" \/ (generator = "sending" /\ chunk # "meta")
          /\ Cleanup
    /\ chunk' = ""
    /\ UNCHANGED <<client, said, queue, seen, outcome, ending, ledger>>

-----------------------------------------------------------------------------
Produce == Say \/ Put \/ SourceEnds \/ Expire \/ PutLast \/ Stop
Generate == Start \/ Sent \/ Heartbeat \/ Take \/ Account

Next == Produce \/ Generate \/ Leave \/ Cancelled

\* Tasks that can run do run; the answer's time limit does expire; a client
\* takes what it is sent or is disconnected (nginx's send timeout).  Neither
\* the source's end nor the client's leaving is taken for granted.
Fairness ==
    /\ WF_vars(Put) /\ WF_vars(Expire) /\ WF_vars(PutLast) /\ WF_vars(Stop)
    /\ WF_vars(Start \/ Cancelled) /\ WF_vars(Sent \/ Cancelled)
    /\ WF_vars(Take) /\ WF_vars(Account)

Spec == Init /\ [][Next]_vars /\ Fairness

-----------------------------------------------------------------------------
(* Properties.                                                             *)

\* Every variable has its type, only a task that waits holds something, and
\* backpressure works: what the source said and the reader has not been given
\* yet is at most the queue, the item being put and the one being sent.
TypeOK ==
    /\ client \in {"here", "gone"}
    /\ producer \in {"none", "reading", "putting", "ending", "cancelled",
                     "stopped"}
    /\ hand \in Item \cup Last
    /\ producer \in {"none", "reading", "stopped"} => hand = Nothing
    /\ said \in 0..MaxItems /\ told \in 0..said
    /\ said - told <= QueueSize + 1
    /\ queue \in Seq(Item \cup Last) /\ Len(queue) <= QueueSize
    /\ generator \in {"created", "sending", "waiting", "finally", "closed"}
    /\ chunk \in {"", "meta", "item", "heartbeat", "done", "error"}
    /\ spoke \in BOOLEAN /\ finish \in {"", "stop", "length"}
    /\ outcome \in Outcomes /\ ending \in {"", "done", "error"}
    /\ gauge \in 0..1 /\ counted \subseteq Outcomes

\* How the answer has ended, to whoever reads it.
Ended ==
    CASE ending # "" -> ending
      [] ending = "" /\ generator \in {"finally", "closed"} -> "cut"
      [] OTHER -> "no"

Promise == INSTANCE Answer WITH spoken <- spoke, ended <- Ended

\* The stream keeps the answer's promise through the queue, the time limit
\* and every hang-up: nothing lost, doubled or out of order, and "done" only
\* after all of it.
KeepsThePromise == Promise!Spec

\* When the stream has closed nobody reads the model any more; and once the
\* producer exists, a closed answer is off the gauge and counted under exactly
\* one outcome, which is what the reader was told: done as "ok", or
\* "truncated" when the last finish reason said so, an error under a code, and
\* otherwise "cancelled".
ClosedIsCountedAsItEnded ==
    generator = "closed" /\ producer # "none" =>
        /\ producer = "stopped"
        /\ gauge = 0
        /\ counted = {outcome}
        /\ ending = "done" <=> outcome \in {"ok", "truncated"}
        /\ ending = "error" <=> outcome \in Codes
        /\ ending = "done" => (outcome = "truncated" <=> finish = "length")

\* Every answer that starts comes to an end, whatever the source and the
\* client do: a silent model only gets heartbeats until the limit expires.
EveryAnswerCloses == (generator = "sending") ~> (generator = "closed")

\* The comment above `outcome`: anything that ends the stream without
\* reaching "ok" or an error code counts as cancelled.  Start raises the gauge
\* and the count lowers it, so a closed stream still on the gauge has started
\* and been left out of the count.
EveryStartedStreamIsCounted ==
    generator = "closed" => gauge = 0
=============================================================================
