-------------------------- MODULE AnswerStreamProofs --------------------------
(***************************************************************************)
(* Proofs about AnswerStream, for every size of the queue, every bound on  *)
(* the items and every set of failures: types, the count of closed         *)
(* answers, and that each step of the stream is a step of Answer or none.  *)
(*                                                                         *)
(* The inductive invariant says what is between the source and the reader  *)
(* (InFlight): the queue holds the items that follow the last one told, in *)
(* their order, then at most one ending; and it says which phases of the   *)
(* producer and of the generator go together (Phases).                     *)
(***************************************************************************)
EXTENDS AnswerStream, TLAPS, SequenceTheorems

\* The first k entries of a queue are the items after number n.
AreItems(q, n, k) == \A i \in 1..k : q[i] \in Item /\ q[i].n = n + i
NextItems(k) == AreItems(queue, told, k)

InFlight ==
    /\ producer = "none" => queue = <<>> /\ said = 0
    /\ producer = "reading" =>
          NextItems(Len(queue)) /\ told + Len(queue) = said
    /\ producer = "putting" =>
          /\ NextItems(Len(queue)) /\ told + Len(queue) + 1 = said
          /\ hand \in Item /\ hand.n = said
    /\ producer = "ending" =>
          /\ NextItems(Len(queue)) /\ hand \in Last
          /\ told + Len(queue) <= said /\ said <= told + Len(queue) + 1
          /\ hand.kind = "end" => told + Len(queue) = said
    /\ producer = "stopped" /\ generator \in {"waiting", "sending"} =>
          \/ queue = <<>> /\ ending # ""
          \/ /\ ending = "" /\ queue # <<>>
             /\ NextItems(Len(queue) - 1) /\ queue[Len(queue)] \in Last
             /\ told + Len(queue) - 1 <= said
             /\ queue[Len(queue)].kind = "end" => told + Len(queue) - 1 = said

Phases ==
    /\ chunk # "" <=> generator = "sending"
    /\ generator = "created" \/ chunk = "meta" => producer = "none"
    /\ producer = "none" => generator \in {"created", "closed"} \/ chunk = "meta"
    /\ producer = "cancelled" => generator = "finally"
    /\ generator = "finally" => producer \in {"cancelled", "stopped"}
    /\ generator = "closed" => producer \in {"none", "stopped"}
    /\ chunk \in {"done", "error"} => ending = chunk
    /\ ending # "" => producer \in {"cancelled", "stopped"}
    /\ ending # "" /\ generator \notin {"finally", "closed"} => chunk = ending

Ledger ==
    /\ generator = "created" => gauge = 0
    /\ generator \in {"waiting", "sending", "finally"} => gauge = 1
    /\ generator # "closed" => counted = {}
    /\ generator = "closed" /\ producer # "none" =>
          gauge = 0 /\ counted = {outcome}
    /\ ending = "" => outcome = "cancelled"
    /\ ending = "done" =>
          outcome = IF finish = "length" THEN "truncated" ELSE "ok"
    /\ ending = "error" => outcome \in Codes

\* A step of the producer changes nothing of the generator.
GeneratorStands ==
    /\ client' = client /\ generator' = generator /\ chunk' = chunk
    /\ told' = told /\ spoke' = spoke /\ finish' = finish
    /\ outcome' = outcome /\ ending' = ending
    /\ gauge' = gauge /\ counted' = counted

IInv == TypeOK /\ InFlight /\ Phases /\ Ledger
-----------------------------------------------------------------------------
(* Facts about entries and the queue.                                      *)

Entry == Item \cup Last

LEMMA Entries ==
    /\ \A x \in Item : x.n \in 1..MaxItems /\ x.n \in Nat /\ x.n # 0
                       /\ x.kind \in Kinds
    /\ \A x \in Last : x.n = 0 /\ x.kind \in {"end", "llm_timeout"} \cup Failures
    /\ Nothing \in Last
  BY MaxItemsType DEF Item, Last, Nothing

LEMMA OneOrNone == 0 \in 0..1 /\ 1 \in 0..1 /\ 1 - 1 = 0 /\ 0 + 1 = 1
  OBVIOUS

LEMMA QueueType ==
    ASSUME TypeOK
    PROVE  /\ queue \in Seq(Entry) /\ Len(queue) \in Nat
           /\ (queue = <<>>) <=> Len(queue) = 0
           /\ said \in Nat /\ told \in Nat /\ told <= said
           /\ QueueSize \in Nat \ {0}
<1>1. queue \in Seq(Entry)
  BY DEF TypeOK, Entry
<1>2. Len(queue) \in Nat /\ ((queue = <<>>) <=> Len(queue) = 0)
  BY <1>1, EmptySeq, LenProperties
<1>3. said \in 0..MaxItems /\ told \in 0..said
  BY DEF TypeOK
<1>. QED  BY <1>1, <1>2, <1>3, MaxItemsType, QueueSizeType

\* One entry more at the end of the queue.
LEMMA Queued ==
    ASSUME TypeOK, Room, NEW e \in Entry, queue' = Append(queue, e)
    PROVE  /\ queue' \in Seq(Entry) /\ queue' # <<>>
           /\ Len(queue') = Len(queue) + 1 /\ Len(queue') <= QueueSize
           /\ \A i \in 1..Len(queue) : queue'[i] = queue[i]
           /\ queue'[Len(queue')] = e
<1>1. queue \in Seq(Entry) /\ Len(queue) \in Nat /\ QueueSize \in Nat
  BY QueueType
<1>2. /\ queue' \in Seq(Entry) /\ Len(queue') = Len(queue) + 1
      /\ \A i \in 1..Len(queue) : queue'[i] = queue[i]
      /\ queue'[Len(queue) + 1] = e
  BY <1>1, AppendProperties
<1>3. queue' # <<>>
  BY <1>1, <1>2, EmptySeq
<1>4. Len(queue') <= QueueSize
  BY <1>1, <1>2 DEF Room
<1>. QED  BY <1>2, <1>3, <1>4

\* An item more.
LEMMA ItemQueued ==
    ASSUME TypeOK, Room, NEW e \in Item, queue' = Append(queue, e), told' = told,
           NextItems(Len(queue)), e.n = told + Len(queue) + 1
    PROVE  NextItems(Len(queue))'
<1>1. /\ Len(queue') = Len(queue) + 1
      /\ \A i \in 1..Len(queue) : queue'[i] = queue[i]
      /\ queue'[Len(queue')] = e /\ Len(queue) \in Nat /\ told \in Nat
  BY Queued, QueueType DEF Entry
<1>2. \A i \in 1..Len(queue') : i \in 1..Len(queue) \/ i = Len(queue) + 1
  BY <1>1
<1>3. \A i \in 1..Len(queue) : queue'[i] \in Item /\ queue'[i].n = told + i
  BY <1>1 DEF NextItems, AreItems
<1>4. queue'[Len(queue) + 1] \in Item
      /\ queue'[Len(queue) + 1].n = told + (Len(queue) + 1)
  BY <1>1
<1>5. AreItems(queue', told, Len(queue'))
  BY <1>2, <1>3, <1>4 DEF AreItems
<1>. QED  BY <1>5 DEF NextItems

\* One entry less at its head.
LEMMA Taken ==
    ASSUME TypeOK, queue # <<>>, queue' = Tail(queue)
    PROVE  /\ queue' \in Seq(Entry) /\ Head(queue) \in Entry
           /\ Head(queue) = queue[1] /\ Len(queue) \in Nat \ {0}
           /\ Len(queue') = Len(queue) - 1 /\ Len(queue') <= QueueSize
           /\ \A i \in 1..(Len(queue) - 1) : queue'[i] = queue[i + 1]
<1>1. queue \in Seq(Entry) /\ Len(queue) \in Nat \ {0} /\ QueueSize \in Nat
  BY QueueType
<1>2. /\ queue' \in Seq(Entry) /\ Head(queue) \in Entry
      /\ Head(queue) = queue[1] /\ Len(queue') = Len(queue) - 1
      /\ \A i \in 1..(Len(queue) - 1) : queue'[i] = queue[i + 1]
  BY <1>1, HeadTailProperties
<1>3. Len(queue) <= QueueSize
  BY DEF TypeOK
<1>. QED  BY <1>1, <1>2, <1>3

-----------------------------------------------------------------------------
(* Each action preserves the invariant.                                    *)

LEMMA InitIInv == Init => IInv
<1> SUFFICES ASSUME Init PROVE IInv
  OBVIOUS
<1>1. queue = <<>> /\ Len(queue) = 0 /\ queue \in Seq(Item \cup Last)
  <2>1. Len(<<>>) = 0 /\ <<>> \in Seq(Item \cup Last)
    BY EmptySeq
  <2>. QED  BY <2>1 DEF Init
<1>2. hand \in Item \cup Last /\ outcome \in Outcomes
  BY Entries DEF Init, Outcomes
<1>3. said \in 0..MaxItems /\ told \in 0..said /\ said - told <= QueueSize + 1
      /\ Len(queue) <= QueueSize
  <2>1. said = 0 /\ told = 0
    BY DEF Init
  <2>. QED  BY <1>1, <2>1, MaxItemsType, QueueSizeType
<1>4. TypeOK
  <2>1. hand = Nothing /\ spoke \in BOOLEAN /\ gauge = 0
        /\ counted \subseteq Outcomes
    BY DEF Init
  <2>2. gauge \in 0..1
    BY <2>1, OneOrNone
  <2>3. /\ client \in {"here", "gone"}
        /\ producer \in {"none", "reading", "putting", "ending", "cancelled",
                         "stopped"}
        /\ generator \in {"created", "sending", "waiting", "finally", "closed"}
        /\ chunk \in {"", "meta", "item", "heartbeat", "done", "error"}
        /\ finish \in {"", "stop", "length"} /\ ending \in {"", "done", "error"}
    BY DEF Init
  <2>. QED  BY <1>1, <1>2, <1>3, <2>1, <2>2, <2>3 DEF TypeOK
<1>5. InFlight /\ Ledger
  BY DEF Init, InFlight, Ledger
<1>6. Phases
  BY DEF Init, Phases
<1>. QED  BY <1>4, <1>5, <1>6 DEF IInv

LEMMA SayIInv ==
    ASSUME IInv, Say
    PROVE  IInv'
<1>1. PICK k \in Kinds :
         LET item == [n |-> said', kind |-> k]
         IN  IF Room
             THEN queue' = Append(queue, item) /\ UNCHANGED <<producer, hand>>
             ELSE producer' = "putting" /\ hand' = item /\ UNCHANGED queue
  BY DEF Say
<1> DEFINE item == [n |-> said', kind |-> k]
<1>2. /\ producer = "reading" /\ said < MaxItems /\ said' = said + 1
      /\ GeneratorStands
  BY DEF Say, seen, ledger, GeneratorStands
<1>3. /\ queue \in Seq(Entry) /\ Len(queue) \in Nat
      /\ said \in Nat /\ told \in Nat /\ told <= said /\ QueueSize \in Nat
      /\ Len(queue) <= QueueSize /\ MaxItems \in Nat
  BY QueueType, MaxItemsType DEF IInv, TypeOK
<1>4. item \in Item /\ item.n = said' /\ item \in Entry
  BY <1>2, <1>3 DEF Item, Entry
<1>5. NextItems(Len(queue)) /\ told + Len(queue) = said
  BY <1>2 DEF IInv, InFlight
<1>6. said' \in 0..MaxItems /\ told' \in 0..said' /\ said' - told' <= QueueSize + 1
  BY <1>2, <1>3, <1>5 DEF GeneratorStands
<1> HIDE DEF item
<1> USE DEF GeneratorStands
<1>7. CASE Room
  <2>1. queue' = Append(queue, item) /\ UNCHANGED <<producer, hand>>
    BY <1>1, <1>7 DEF item
  <2>2. /\ queue' \in Seq(Entry) /\ queue' # <<>>
        /\ Len(queue') = Len(queue) + 1 /\ Len(queue') <= QueueSize
    BY <1>4, <1>7, <2>1, Queued DEF IInv
  <2>3. TypeOK'
    BY <1>2, <1>6, <2>1, <2>2, ZenonT(40) DEF IInv, TypeOK, Entry
  <2>4. NextItems(Len(queue))'
    BY <1>2, <1>3, <1>4, <1>5, <1>7, <2>1, ItemQueued DEF IInv
  <2>5. told' + Len(queue') = said'
    BY <1>2, <1>3, <1>5, <2>2
  <2>6. InFlight'
    BY <1>2, <2>1, <2>4, <2>5 DEF InFlight
  <2>7. Phases' /\ Ledger'
    BY <1>2, <2>1 DEF IInv, Phases, Ledger
  <2>. QED  BY <2>3, <2>6, <2>7 DEF IInv
<1>8. CASE ~Room
  <2>1. producer' = "putting" /\ hand' = item /\ queue' = queue
    BY <1>1, <1>8 DEF item
  <2>2. TypeOK'
    BY <1>2, <1>4, <1>6, <2>1, ZenonT(40) DEF IInv, TypeOK, Entry
  <2>3. NextItems(Len(queue))' /\ told' + Len(queue') + 1 = said'
    BY <1>2, <1>3, <1>5, <2>1 DEF NextItems
  <2>3a. InFlight'
    BY <1>2, <1>4, <2>1, <2>3 DEF InFlight
  <2>4. Phases' /\ Ledger'
    BY <1>2, <2>1 DEF IInv, Phases, Ledger
  <2>. QED  BY <2>2, <2>3a, <2>4 DEF IInv
<1>. QED  BY <1>7, <1>8

LEMMA PutIInv ==
    ASSUME IInv, Put
    PROVE  IInv'
<1>1. /\ producer = "putting" /\ Room /\ queue' = Append(queue, hand)
      /\ producer' = "reading" /\ hand' = Nothing
      /\ said' = said /\ GeneratorStands
  BY DEF Put, seen, ledger, GeneratorStands
<1>2. /\ NextItems(Len(queue)) /\ told + Len(queue) + 1 = said
      /\ hand \in Item /\ hand.n = said /\ hand \in Entry
  BY <1>1 DEF IInv, InFlight, Entry
<1>3. /\ Len(queue) \in Nat /\ said \in Nat /\ told \in Nat
  BY QueueType DEF IInv
<1>4. /\ queue' \in Seq(Entry) /\ queue' # <<>>
      /\ Len(queue') = Len(queue) + 1 /\ Len(queue') <= QueueSize
      /\ \A i \in 1..Len(queue) : queue'[i] = queue[i]
      /\ queue'[Len(queue')] = hand
  BY <1>1, <1>2, Queued DEF IInv
<1>5. NextItems(Len(queue))' /\ told' + Len(queue') = said'
  BY <1>1, <1>2, <1>3, <1>4, ItemQueued DEF IInv, GeneratorStands
<1> USE DEF GeneratorStands
<1>6. TypeOK'
  BY <1>1, <1>4, Entries, ZenonT(40) DEF IInv, TypeOK, Entry
<1>7. InFlight'
  BY <1>1, <1>5 DEF InFlight
<1>8. Phases' /\ Ledger'
  BY <1>1 DEF IInv, Phases, Ledger
<1>. QED  BY <1>6, <1>7, <1>8 DEF IInv

\* The source ends, or its time is up and the item it was putting is lost.
LEMMA EndingIInv ==
    ASSUME IInv, SourceEnds \/ Expire
    PROVE  IInv'
<1>1. /\ producer' = "ending" /\ hand' \in Last
      /\ \/ producer = "reading"
         \/ producer = "putting" /\ hand'.kind # "end"
      /\ said' = said /\ queue' = queue /\ GeneratorStands
  BY DEF SourceEnds, Expire, seen, ledger, Last, GeneratorStands
<1>2. Len(queue) \in Nat /\ said \in Nat /\ told \in Nat
  BY QueueType DEF IInv
<1> USE DEF GeneratorStands
<1>3. TypeOK'
  BY <1>1, ZenonT(40) DEF IInv, TypeOK
<1>4. InFlight'
  <2>1. NextItems(Len(queue))
    BY <1>1 DEF IInv, InFlight
  <2>1a. NextItems(Len(queue))'
    BY <1>1, <2>1 DEF NextItems
  <2>2. /\ told + Len(queue) <= said /\ said <= told + Len(queue) + 1
        /\ hand'.kind = "end" => told + Len(queue) = said
    <3>1. CASE producer = "reading"
      BY <1>2, <3>1 DEF IInv, InFlight
    <3>2. CASE producer = "putting" /\ hand'.kind # "end"
      BY <1>2, <3>2 DEF IInv, InFlight
    <3>. QED  BY <1>1, <3>1, <3>2
  <2>. QED  BY <1>1, <2>1a, <2>2 DEF InFlight
<1>5. Phases' /\ Ledger'
  BY <1>1 DEF IInv, Phases, Ledger
<1>. QED  BY <1>3, <1>4, <1>5 DEF IInv

LEMMA PutLastIInv ==
    ASSUME IInv, PutLast
    PROVE  IInv'
<1>1. /\ producer = "ending" /\ Room /\ queue' = Append(queue, hand)
      /\ producer' = "stopped" /\ hand' = Nothing
      /\ said' = said /\ GeneratorStands
  BY DEF PutLast, seen, ledger, GeneratorStands
<1>2. /\ NextItems(Len(queue)) /\ hand \in Last /\ hand \in Entry
      /\ hand.kind = "end" => told + Len(queue) = said
      /\ told + Len(queue) <= said
  BY <1>1 DEF IInv, InFlight, Entry
<1>3. Len(queue) \in Nat /\ said \in Nat /\ told \in Nat
  BY QueueType DEF IInv
<1>4. /\ queue' \in Seq(Entry) /\ queue' # <<>>
      /\ Len(queue') = Len(queue) + 1 /\ Len(queue') <= QueueSize
      /\ \A i \in 1..Len(queue) : queue'[i] = queue[i]
      /\ queue'[Len(queue')] = hand
  BY <1>1, <1>2, Queued DEF IInv
<1> USE DEF GeneratorStands
<1>5. TypeOK'
  BY <1>1, <1>4, Entries, ZenonT(40) DEF IInv, TypeOK, Entry
<1>6. ending = ""
  BY <1>1 DEF IInv, Phases
<1>7. InFlight'
  <2>1. Len(queue') - 1 = Len(queue) /\ told' + Len(queue') - 1 = told + Len(queue)
    BY <1>1, <1>3, <1>4 DEF GeneratorStands
  <2>2. AreItems(queue', told', Len(queue') - 1)
    BY <1>1, <1>2, <1>4, <2>1 DEF NextItems, AreItems, GeneratorStands
  <2>3. NextItems(Len(queue) - 1)'
    BY <2>2 DEF NextItems
  <2>. QED  BY <1>1, <1>2, <1>4, <1>6, <2>1, <2>3 DEF InFlight, GeneratorStands
<1>8. Phases' /\ Ledger'
  BY <1>1 DEF IInv, Phases, Ledger
<1>. QED  BY <1>5, <1>7, <1>8 DEF IInv
LEMMA StopIInv ==
    ASSUME IInv, Stop
    PROVE  IInv'
<1>1. /\ producer = "cancelled" /\ producer' = "stopped" /\ hand' = Nothing
      /\ said' = said /\ queue' = queue /\ GeneratorStands
  BY DEF Stop, seen, ledger, GeneratorStands
<1> USE DEF GeneratorStands
<1>2. generator = "finally"
  BY <1>1 DEF IInv, Phases
<1>3. TypeOK'
  BY <1>1, Entries, ZenonT(40) DEF IInv, TypeOK
<1>4. InFlight'
  BY <1>1, <1>2 DEF InFlight
<1>5. Phases' /\ Ledger'
  BY <1>1 DEF IInv, Phases, Ledger
<1>. QED  BY <1>3, <1>4, <1>5 DEF IInv

\* A step that neither the producer nor the queue takes part in.
TaskStands ==
    /\ producer' = producer /\ hand' = hand /\ said' = said
    /\ queue' = queue /\ told' = told /\ spoke' = spoke /\ finish' = finish

\* The types of what the producer and the queue do not have a part in.
StageType ==
    /\ client \in {"here", "gone"}
    /\ generator \in {"created", "sending", "waiting", "finally", "closed"}
    /\ chunk \in {"", "meta", "item", "heartbeat", "done", "error"}
    /\ outcome \in Outcomes /\ ending \in {"", "done", "error"}
    /\ gauge \in 0..1 /\ counted \subseteq Outcomes

LEMMA StandingTypes ==
    ASSUME TypeOK, TaskStands, StageType'
    PROVE  TypeOK'
<1>1. hand' \in Item \cup Last /\ producer' \in {"none", "reading", "putting",
          "ending", "cancelled", "stopped"}
      /\ (producer' \in {"none", "reading", "stopped"} => hand' = Nothing)
  BY DEF TypeOK, TaskStands
<1>2. said' \in 0..MaxItems /\ told' \in 0..said' /\ said' - told' <= QueueSize + 1
  BY DEF TypeOK, TaskStands
<1>3. queue' \in Seq(Item \cup Last) /\ Len(queue') <= QueueSize
  BY DEF TypeOK, TaskStands
<1>4. spoke' \in BOOLEAN /\ finish' \in {"", "stop", "length"}
  BY DEF TypeOK, TaskStands
<1>. QED  BY <1>1, <1>2, <1>3, <1>4 DEF TypeOK, StageType

LEMMA StandingIInv ==
    ASSUME IInv, TaskStands, StageType', Phases', Ledger', ending' = ending,
           generator' \in {"waiting", "sending"} =>
              generator \in {"waiting", "sending"} \/ producer # "stopped"
    PROVE  IInv'
<1>1. \A k : NextItems(k)' <=> NextItems(k)
  BY DEF TaskStands, NextItems
<1>2. InFlight'
  BY <1>1 DEF IInv, InFlight, TaskStands
<1>3. TypeOK'
  BY StandingTypes DEF IInv
<1>. QED  BY <1>2, <1>3 DEF IInv

LEMMA StartIInv ==
    ASSUME IInv, Start
    PROVE  IInv'
<1>1. /\ generator = "created" /\ generator' = "sending" /\ chunk' = "meta"
      /\ gauge' = gauge + 1 /\ client' = client /\ outcome' = outcome
      /\ ending' = ending /\ counted' = counted /\ TaskStands
  BY DEF Start, Yield, task, seen, TaskStands
<1>2. producer = "none" /\ gauge = 0 /\ ending = ""
  BY <1>1 DEF IInv, Phases, Ledger
<1>3. StageType'
  BY <1>1, <1>2, OneOrNone DEF IInv, TypeOK, StageType
<1>4. Phases' /\ Ledger'
  BY <1>1, <1>2, OneOrNone DEF IInv, Phases, Ledger, TaskStands
<1>. QED  BY <1>1, <1>2, <1>3, <1>4, StandingIInv

LEMMA HeartbeatIInv ==
    ASSUME IInv, Heartbeat
    PROVE  IInv'
<1>1. /\ generator = "waiting" /\ generator' = "sending"
      /\ chunk' = "heartbeat" /\ client' = client /\ outcome' = outcome
      /\ ending' = ending /\ gauge' = gauge /\ counted' = counted
      /\ TaskStands
  BY DEF Heartbeat, Yield, task, seen, ledger, TaskStands
<1>2. ending = "" /\ producer # "none"
  BY <1>1 DEF IInv, Phases
<1>3. StageType'
  BY <1>1 DEF IInv, TypeOK, StageType
<1>4. Phases' /\ Ledger'
  BY <1>1, <1>2 DEF IInv, Phases, Ledger, TaskStands
<1>. QED  BY <1>1, <1>3, <1>4, StandingIInv

LEMMA LeaveIInv ==
    ASSUME IInv, Leave
    PROVE  IInv'
<1>1. /\ client' = "gone" /\ generator' = generator /\ chunk' = chunk
      /\ outcome' = outcome /\ ending' = ending /\ gauge' = gauge
      /\ counted' = counted /\ TaskStands
  BY DEF Leave, task, seen, ledger, TaskStands
<1>2. StageType'
  BY <1>1 DEF IInv, TypeOK, StageType
<1>3. Phases' /\ Ledger'
  BY <1>1 DEF IInv, Phases, Ledger, TaskStands
<1>. QED  BY <1>1, <1>2, <1>3, StandingIInv

\* The generator enters its finally block: from a yield or from its wait.
LEMMA CleanupIInv ==
    ASSUME IInv, Cleanup, chunk' = "",
           generator = "waiting" \/ (generator = "sending" /\ chunk # "meta"),
           UNCHANGED <<client, said, queue, seen, outcome, ending, ledger>>
    PROVE  IInv'
<1>1. /\ client' = client /\ said' = said /\ queue' = queue /\ told' = told
      /\ spoke' = spoke /\ finish' = finish /\ outcome' = outcome
      /\ ending' = ending /\ gauge' = gauge /\ counted' = counted
      /\ generator' = "finally" /\ hand' = hand /\ chunk' = ""
      /\ producer' = IF producer = "stopped" THEN "stopped" ELSE "cancelled"
  BY DEF Cleanup, seen, ledger
<1>2. producer # "none"
  BY DEF IInv, Phases
<1>3. TypeOK'
  BY <1>1, <1>2 DEF IInv, TypeOK
<1>4. InFlight'
  BY <1>1 DEF InFlight
<1>5. Phases' /\ Ledger'
  BY <1>1, <1>2 DEF IInv, Phases, Ledger
<1>. QED  BY <1>3, <1>4, <1>5 DEF IInv

LEMMA SentIInv ==
    ASSUME IInv, Sent
    PROVE  IInv'
<1>1. /\ generator = "sending" /\ chunk' = "" /\ client' = client
      /\ said' = said /\ queue' = queue /\ told' = told /\ spoke' = spoke
      /\ finish' = finish /\ outcome' = outcome /\ ending' = ending
      /\ gauge' = gauge /\ counted' = counted
  BY DEF Sent, seen, ledger
<1>2. CASE /\ chunk = "meta" /\ producer' = "reading"
           /\ generator' = "waiting" /\ hand' = hand
  <2>1. producer = "none" /\ queue = <<>> /\ said = 0 /\ told = 0 /\ ending = ""
    <3>1. producer = "none" /\ queue = <<>> /\ said = 0
      BY <1>2 DEF IInv, Phases, InFlight
    <3>2. told \in Nat /\ told <= said
      BY QueueType DEF IInv
    <3>3. ending = ""
      BY <3>1 DEF IInv, Phases
    <3>4. told = 0
      BY <3>1, <3>2
    <3>. QED  BY <3>1, <3>3, <3>4
  <2>2. TypeOK'
    BY <1>1, <1>2, <2>1 DEF IInv, TypeOK
  <2>3. InFlight'
    <3>1. Len(queue) = 0
      BY <2>1, EmptySeq
    <3>1a. told = 0 /\ said = 0
      BY <2>1
    <3>2. AreItems(queue, told, 0) /\ told + 0 = said
      BY <3>1a DEF AreItems
    <3>3. NextItems(Len(queue)) /\ told + Len(queue) = said
      BY <3>1, <3>2 DEF NextItems
    <3>4. NextItems(Len(queue))' /\ told' + Len(queue') = said'
      BY <1>1, <3>3 DEF NextItems
    <3>. QED  BY <1>2, <3>4 DEF InFlight
  <2>4. Phases' /\ Ledger'
    BY <1>1, <1>2, <2>1 DEF IInv, Phases, Ledger
  <2>. QED  BY <2>2, <2>3, <2>4 DEF IInv
<1>3. CASE /\ chunk \in {"item", "heartbeat"} /\ generator' = "waiting"
           /\ producer' = producer /\ hand' = hand
  <2>1. TaskStands /\ producer # "none" /\ ending = ""
    <3>1. TaskStands
      BY <1>1, <1>3 DEF TaskStands
    <3>2. producer # "none"
      BY <1>1, <1>3 DEF IInv, Phases
    <3>3. ending \in {"", "done", "error"}
      BY DEF IInv, TypeOK
    <3>4. ending = ""
      BY <1>1, <1>3, <3>3 DEF IInv, Phases
    <3>. QED  BY <3>1, <3>2, <3>4
  <2>2. StageType'
    <3>1. StageType
      BY DEF IInv, TypeOK, StageType
    <3>. QED  BY <1>1, <1>3, <3>1 DEF StageType
  <2>3. Phases' /\ Ledger'
    BY <1>1, <1>3, <2>1 DEF IInv, Phases, Ledger
  <2>. QED  BY <1>1, <1>3, <2>1, <2>2, <2>3, StandingIInv
<1>4. CASE chunk \in {"done", "error"} /\ Cleanup
  BY <1>1, <1>4, CleanupIInv DEF Sent
<1>. QED  BY <1>2, <1>3, <1>4 DEF Sent

LEMMA CancelledIInv ==
    ASSUME IInv, Cancelled
    PROVE  IInv'
<1>1. CASE /\ generator = "created" \/ (generator = "sending" /\ chunk = "meta")
           /\ generator' = "closed" /\ producer' = producer /\ hand' = hand
  <2>1. /\ TaskStands /\ client' = client /\ outcome' = outcome
        /\ ending' = ending /\ gauge' = gauge /\ counted' = counted
        /\ chunk' = ""
    BY <1>1 DEF Cancelled, seen, ledger, TaskStands
  <2>2. producer = "none" /\ ending = ""
    BY <1>1 DEF IInv, Phases
  <2>3. StageType'
    BY <1>1, <2>1 DEF IInv, TypeOK, StageType
  <2>4. Phases' /\ Ledger'
    BY <1>1, <2>1, <2>2 DEF IInv, Phases, Ledger, TaskStands
  <2>. QED  BY <1>1, <2>1, <2>3, <2>4, StandingIInv
<1>2. CASE Cleanup /\ (generator = "waiting"
                         \/ (generator = "sending" /\ chunk # "meta"))
  BY <1>2, CleanupIInv DEF Cancelled
<1>. QED  BY <1>1, <1>2 DEF Cancelled

LEMMA AccountIInv ==
    ASSUME IInv, Account
    PROVE  IInv'
<1>1. /\ generator = "finally" /\ producer = "stopped"
      /\ generator' = "closed" /\ gauge' = gauge - 1
      /\ counted' = counted \cup {outcome} /\ client' = client
      /\ chunk' = chunk /\ outcome' = outcome /\ ending' = ending /\ TaskStands
  BY DEF Account, task, seen, TaskStands
<1>2. gauge = 1 /\ counted = {} /\ chunk = ""
  BY <1>1 DEF IInv, Phases, Ledger
<1>3. gauge' = 0 /\ counted' = {outcome'}
  BY <1>1, <1>2, OneOrNone
<1>4. StageType'
  BY <1>1, <1>3, OneOrNone DEF IInv, TypeOK, StageType
<1>5. Phases' /\ Ledger'
  BY <1>1, <1>2, <1>3 DEF IInv, Phases, Ledger, TaskStands
<1>. QED  BY <1>1, <1>4, <1>5, StandingIInv

\* What is at the head of the queue: the next item, or the ending, and that
\* only when nothing else is left.
LEMMA HeadOfTheQueue ==
    ASSUME IInv, generator = "waiting", queue # <<>>
    PROVE  \/ /\ queue[1] \in Item /\ queue[1].n = told + 1 /\ told < said
              /\ \/ producer # "stopped"
                 \/ Len(queue) > 1
           \/ /\ producer = "stopped" /\ queue[1] \in Last /\ Len(queue) = 1
              /\ queue[1].kind = "end" => told = said
<1>1. /\ Len(queue) \in Nat \ {0} /\ told \in Nat /\ said \in Nat
      /\ told <= said /\ MaxItems \in Nat
      /\ said \in 0..MaxItems /\ QueueSize \in Nat
  BY QueueType, MaxItemsType DEF IInv, TypeOK
<1>2. producer \in {"reading", "putting", "ending", "stopped"} /\ ending = ""
  BY DEF IInv, Phases, TypeOK
<1>3. CASE producer # "stopped"
  <2>1. NextItems(Len(queue)) /\ told + Len(queue) <= said
    <3>1. CASE producer = "reading"
      BY <1>1, <3>1 DEF IInv, InFlight
    <3>2. CASE producer = "putting"
      BY <1>1, <3>2 DEF IInv, InFlight
    <3>3. CASE producer = "ending"
      BY <1>1, <3>3 DEF IInv, InFlight
    <3>. QED  BY <1>2, <1>3, <3>1, <3>2, <3>3
  <2>2. 1 \in 1..Len(queue)
    BY <1>1
  <2>3. queue[1] \in Item /\ queue[1].n = told + 1
    BY <2>1, <2>2 DEF NextItems, AreItems
  <2>. QED  BY <1>1, <1>3, <2>1, <2>3
<1>4. CASE producer = "stopped"
  <2>1. /\ NextItems(Len(queue) - 1) /\ queue[Len(queue)] \in Last
        /\ queue[Len(queue)].kind = "end" => told + Len(queue) - 1 = said
        /\ told + Len(queue) - 1 <= said
    BY <1>2, <1>4 DEF IInv, InFlight
  <2>2. CASE Len(queue) = 1
    BY <1>1, <1>4, <2>1, <2>2
  <2>3. CASE Len(queue) > 1
    <3>1. 1 \in 1..(Len(queue) - 1)
      BY <1>1, <2>3
    <3>2. queue[1] \in Item /\ queue[1].n = told + 1
      BY <2>1, <3>1 DEF NextItems, AreItems
    <3>3. told < said
      BY <1>1, <2>1, <2>3
    <3>. QED  BY <2>3, <3>2, <3>3
  <2>4. Len(queue) = 1 \/ Len(queue) > 1
    <3>1. Len(queue) \in Nat \ {0}
      BY <1>1
    <3>. QED  BY <3>1
  <2>. QED  BY <2>2, <2>3, <2>4
<1>. QED  BY <1>3, <1>4
\* The generator takes an item, and sends it on unless it is a finish reason.
LEMMA HandleIInv ==
    ASSUME IInv, generator = "waiting", queue # <<>>, queue' = Tail(queue),
           queue[1] \in Item, queue[1].n = told + 1, told < said,
           producer # "stopped" \/ Len(queue) > 1,
           Handle(queue[1]), UNCHANGED <<client, task, ledger>>
    PROVE  IInv'
<1>1. /\ told' = told + 1 /\ outcome' = outcome /\ ending' = ending
      /\ client' = client /\ producer' = producer /\ hand' = hand
      /\ said' = said /\ gauge' = gauge /\ counted' = counted
      /\ \/ /\ generator' = "sending" /\ chunk' = "item" /\ finish' = finish
            /\ spoke' \in {spoke, TRUE}
         \/ /\ generator' = "waiting" /\ chunk' = chunk /\ spoke' = spoke
            /\ finish' \in {"length", "stop"}
  <2>1. told' = told + 1
    BY DEF Handle
  <2>2. queue[1].kind = "token" \/ queue[1].kind # "token"
    OBVIOUS
  <2>3. spoke \in BOOLEAN
    BY DEF IInv, TypeOK
  <2>4. CASE queue[1].kind \in {"token", "tool"}
    <3>1. generator' = "sending" /\ chunk' = "item" /\ finish' = finish
      BY <2>4 DEF Handle, Yield
    <3>2. spoke' = (spoke \/ queue[1].kind = "token")
      BY <2>4 DEF Handle
    <3>3. spoke' \in {spoke, TRUE}
      BY <2>3, <3>2, Zenon
    <3>. QED  BY <2>1, <3>1, <3>3 DEF Handle, task, ledger
  <2>5. CASE queue[1].kind \notin {"token", "tool"}
    <3>1. generator' = "waiting" /\ chunk' = chunk /\ spoke' = spoke
          /\ finish' \in {"length", "stop"}
      BY <2>5 DEF Handle
    <3>. QED  BY <2>1, <3>1 DEF Handle, task, ledger
  <2>. QED  BY <2>4, <2>5
<1>2. /\ queue' \in Seq(Entry) /\ Len(queue) \in Nat \ {0}
      /\ Len(queue') = Len(queue) - 1 /\ Len(queue') <= QueueSize
      /\ \A i \in 1..(Len(queue) - 1) : queue'[i] = queue[i + 1]
  BY Taken DEF IInv
<1>3. told \in Nat /\ said \in Nat /\ QueueSize \in Nat
  BY QueueType DEF IInv
<1>4. ending = "" /\ producer # "none" /\ chunk = ""
  BY DEF IInv, Phases
<1>5. TypeOK'
  <2>1. said' \in 0..MaxItems /\ said - told <= QueueSize + 1
    BY <1>1 DEF IInv, TypeOK
  <2>2. told' \in 0..said' /\ said' - told' <= QueueSize + 1
    BY <1>1, <1>3, <2>1
  <2>3. spoke' \in BOOLEAN /\ finish' \in {"", "stop", "length"}
    BY <1>1 DEF IInv, TypeOK
  <2>4. StageType
    BY DEF IInv, TypeOK, StageType
  <2>5. StageType'
    BY <1>1, <2>4 DEF StageType
  <2>6. hand' \in Item \cup Last /\ producer' \in {"none", "reading",
           "putting", "ending", "cancelled", "stopped"}
        /\ (producer' \in {"none", "reading", "stopped"} => hand' = Nothing)
    BY <1>1 DEF IInv, TypeOK
  <2>. QED  BY <1>2, <2>1, <2>2, <2>3, <2>5, <2>6 DEF TypeOK, StageType, Entry
<1>6. ASSUME NEW k \in Nat, NextItems(k + 1), k + 1 <= Len(queue)
      PROVE  AreItems(queue', told', k)
  <2> SUFFICES ASSUME NEW i \in 1..k
               PROVE  queue'[i] \in Item /\ queue'[i].n = told' + i
    BY DEF AreItems
  <2>1. i + 1 \in 1..(k + 1) /\ i \in 1..(Len(queue) - 1)
    BY <1>2, <1>6
  <2>2. queue[i + 1] \in Item /\ queue[i + 1].n = told + (i + 1)
    BY <1>6, <2>1 DEF NextItems, AreItems
  <2>. QED  BY <1>1, <1>2, <1>3, <2>1, <2>2
<1>7. InFlight'
  <2>1. ASSUME NextItems(Len(queue))
        PROVE  NextItems(Len(queue))'
    <3>1. Len(queue') \in Nat /\ Len(queue') + 1 = Len(queue)
      BY <1>2
    <3>. QED  BY <1>6, <2>1, <3>1 DEF NextItems
  <2>2. told' + Len(queue') = told + Len(queue)
    BY <1>1, <1>2, <1>3
  <2>3. CASE producer \in {"reading", "putting", "ending"}
    BY <1>1, <2>1, <2>2, <2>3 DEF IInv, InFlight
  <2>4. CASE producer = "stopped"
    <3>1. /\ NextItems(Len(queue) - 1) /\ queue[Len(queue)] \in Last
          /\ told + Len(queue) - 1 <= said
          /\ queue[Len(queue)].kind = "end" => told + Len(queue) - 1 = said
      BY <1>4, <2>4 DEF IInv, InFlight
    <3>2. Len(queue) > 1
      BY <2>4
    <3>3. /\ Len(queue') - 1 \in Nat /\ (Len(queue') - 1) + 1 = Len(queue) - 1
          /\ Len(queue) - 1 <= Len(queue)
          /\ Len(queue') \in 1..(Len(queue) - 1) /\ Len(queue') + 1 = Len(queue)
      BY <1>2, <3>2
    <3>4. NextItems(Len(queue) - 1)'
      BY <1>6, <3>1, <3>3 DEF NextItems
    <3>5. queue'[Len(queue')] = queue[Len(queue)]
      BY <1>2, <3>3
    <3>6. told' + Len(queue') - 1 = told + Len(queue) - 1
      BY <1>1, <1>2, <1>3
    <3>7. queue' # <<>>
      <4>1. Len(queue') # 0
        BY <1>2, <3>2
      <4>. QED  BY <4>1, EmptySeq
    <3>. QED  BY <1>1, <1>4, <2>4, <3>1, <3>4, <3>5, <3>6, <3>7 DEF InFlight
  <2>5. producer \in {"reading", "putting", "ending", "stopped"}
    BY <1>4 DEF IInv, Phases, TypeOK
  <2>. QED  BY <2>3, <2>4, <2>5
<1>8. Phases' /\ Ledger'
  BY <1>1, <1>4 DEF IInv, Phases, Ledger
<1>. QED  BY <1>5, <1>7, <1>8 DEF IInv

\* The generator takes the ending, and says so.
LEMMA EndIInv ==
    ASSUME IInv, generator = "waiting", queue # <<>>, queue' = Tail(queue),
           producer = "stopped", queue[1] \in Last, Len(queue) = 1,
           \/ queue[1].kind = "end" /\ Conclude
           \/ queue[1].kind # "end" /\ Fail(queue[1].kind),
           UNCHANGED <<client, task, ledger, seen>>
    PROVE  IInv'
<1>1. /\ client' = client /\ producer' = producer /\ hand' = hand
      /\ said' = said /\ gauge' = gauge /\ counted' = counted
      /\ told' = told /\ spoke' = spoke /\ finish' = finish
  BY DEF task, ledger, seen
<1>2. queue' = <<>> /\ queue' \in Seq(Entry) /\ Len(queue') = 0
  <2>1. queue' \in Seq(Entry) /\ Len(queue') = 0
    BY Taken DEF IInv
  <2>. QED  BY <2>1, EmptySeq
<1>3. /\ generator' = "sending" /\ chunk' = ending'
      /\ \/ ending' = "error" /\ outcome' \in Codes
         \/ /\ ending' = "done"
            /\ outcome' = IF finish = "length" THEN "truncated" ELSE "ok"
  <2>1. queue[1].kind # "end" => queue[1].kind \in Codes
    BY Entries DEF Codes
  <2>2. "llm_empty_answer" \in Codes
    BY DEF Codes
  <2>3. CASE queue[1].kind = "end" /\ Conclude
    BY <2>2, <2>3 DEF Conclude, Fail, Yield
  <2>4. CASE queue[1].kind # "end" /\ Fail(queue[1].kind)
    BY <2>1, <2>4 DEF Fail, Yield
  <2>. QED  BY <2>3, <2>4
<1>4. counted = {} /\ gauge = 1 /\ producer' = "stopped"
  BY <1>1 DEF IInv, Ledger
<1>5. TypeOK'
  <2>1. outcome' \in Outcomes
    BY <1>3 DEF Outcomes
  <2>2. StageType
    BY DEF IInv, TypeOK, StageType
  <2>3. StageType'
    BY <1>1, <1>3, <2>1, <2>2 DEF StageType
  <2>4. hand' \in Item \cup Last /\ producer' \in {"none", "reading",
           "putting", "ending", "cancelled", "stopped"}
        /\ (producer' \in {"none", "reading", "stopped"} => hand' = Nothing)
    BY <1>1 DEF IInv, TypeOK
  <2>5. said' \in 0..MaxItems /\ told' \in 0..said'
        /\ said' - told' <= QueueSize + 1
    BY <1>1 DEF IInv, TypeOK
  <2>6. spoke' \in BOOLEAN /\ finish' \in {"", "stop", "length"}
    BY <1>1 DEF IInv, TypeOK
  <2>7. Len(queue') <= QueueSize /\ queue' \in Seq(Item \cup Last)
    <3>1. 0 <= QueueSize
      BY QueueSizeType
    <3>. QED  BY <1>2, <3>1 DEF Entry
  <2>. QED  BY <2>3, <2>4, <2>5, <2>6, <2>7 DEF TypeOK, StageType
<1>6. InFlight'
  BY <1>2, <1>3, <1>4 DEF InFlight
<1>7. Phases' /\ Ledger'
  BY <1>1, <1>3, <1>4 DEF Phases, Ledger
<1>. QED  BY <1>5, <1>6, <1>7 DEF IInv

\* What a step of the generator that takes something takes.
LEMMA WhatIsTaken ==
    ASSUME IInv, Take
    PROVE  /\ generator = "waiting" /\ queue # <<>> /\ queue' = Tail(queue)
           /\ UNCHANGED <<client, task, ledger>>
           /\ \/ /\ queue[1] \in Item /\ queue[1].n = told + 1 /\ told < said
                 /\ producer # "stopped" \/ Len(queue) > 1
                 /\ Handle(queue[1])
              \/ /\ producer = "stopped" /\ queue[1] \in Last /\ Len(queue) = 1
                 /\ queue[1].kind = "end" => told = said
                 /\ \/ queue[1].kind = "end" /\ Conclude
                    \/ queue[1].kind # "end" /\ Fail(queue[1].kind)
                 /\ UNCHANGED seen
<1>1. generator = "waiting" /\ queue # <<>> /\ queue' = Tail(queue)
      /\ UNCHANGED <<client, task, ledger>>
  BY DEF Take
<1>2. Head(queue) = queue[1]
  BY <1>1, Taken DEF IInv
<1>3. \/ queue[1] \in Item /\ Handle(queue[1])
      \/ queue[1].n = 0 /\ queue[1].kind = "end" /\ Conclude /\ UNCHANGED seen
      \/ queue[1].n = 0 /\ queue[1].kind # "end" /\ Fail(queue[1].kind)
         /\ UNCHANGED seen
  BY <1>2 DEF Take
<1>4. /\ queue[1] \in Item => queue[1].n # 0
      /\ queue[1] \in Last => queue[1].n = 0
  BY Entries
<1>. QED  BY <1>1, <1>3, <1>4, HeadOfTheQueue

LEMMA TakeIInv ==
    ASSUME IInv, Take
    PROVE  IInv'
<1>1. CASE /\ queue[1] \in Item /\ queue[1].n = told + 1 /\ told < said
           /\ producer # "stopped" \/ Len(queue) > 1
           /\ Handle(queue[1])
  BY <1>1, WhatIsTaken, HandleIInv
<1>2. CASE /\ producer = "stopped" /\ queue[1] \in Last /\ Len(queue) = 1
           /\ \/ queue[1].kind = "end" /\ Conclude
              \/ queue[1].kind # "end" /\ Fail(queue[1].kind)
           /\ UNCHANGED seen
  <2>1. UNCHANGED <<client, task, ledger, seen>>
    BY <1>2, WhatIsTaken
  <2>. QED  BY <1>2, <2>1, WhatIsTaken, EndIInv
<1>. QED  BY <1>1, <1>2, WhatIsTaken

LEMMA NextIInv == IInv /\ [Next]_vars => IInv'
<1> SUFFICES ASSUME IInv, [Next]_vars PROVE IInv'
  OBVIOUS
<1>1. CASE Produce
  BY <1>1, SayIInv, PutIInv, EndingIInv, PutLastIInv, StopIInv DEF Produce
<1>2. CASE Generate
  BY <1>2, StartIInv, SentIInv, HeartbeatIInv, TakeIInv, AccountIInv
  DEF Generate
<1>3. CASE Leave \/ Cancelled
  BY <1>3, LeaveIInv, CancelledIInv
<1>4. CASE UNCHANGED vars
  <2>1. /\ client' = client /\ generator' = generator /\ chunk' = chunk
        /\ outcome' = outcome /\ ending' = ending /\ gauge' = gauge
        /\ counted' = counted /\ TaskStands
    BY <1>4 DEF vars, task, seen, ledger, TaskStands
  <2>2. StageType'
    BY <2>1 DEF IInv, TypeOK, StageType
  <2>3. Phases' /\ Ledger'
    BY <2>1 DEF IInv, Phases, Ledger, TaskStands
  <2>. QED  BY <2>1, <2>2, <2>3, StandingIInv
<1>. QED  BY <1>1, <1>2, <1>3, <1>4 DEF Next

LEMMA Inductive == Spec => []IInv
<1>. QED  BY InitIInv, NextIInv, PTL DEF Spec

-----------------------------------------------------------------------------
\* Every variable has its type, and backpressure works: whatever the sizes,
\* what the source said and the reader has not been given is at most the queue
\* and one item being put (app/triage.py answer_events).
THEOREM TypeCorrect == Spec => []TypeOK
<1>1. IInv => TypeOK
  BY DEF IInv
<1>. QED  BY <1>1, Inductive, PTL

\* A stream that has closed has ended its producer, is off the gauge, and was
\* counted once, under what the reader was told (app/triage.py answer_events'
\* finally block).
THEOREM CountsAreRight == Spec => []ClosedIsCountedAsItEnded
<1>1. ASSUME IInv
      PROVE  ClosedIsCountedAsItEnded
  <2>1. \A c \in Codes : c \notin {"ok", "truncated", "cancelled"}
    BY FailuresAreErrors DEF Codes
  <2> SUFFICES ASSUME generator = "closed", producer # "none"
               PROVE  /\ producer = "stopped" /\ gauge = 0
                      /\ counted = {outcome}
                      /\ ending = "done" <=> outcome \in {"ok", "truncated"}
                      /\ ending = "error" <=> outcome \in Codes
                      /\ ending = "done" =>
                            (outcome = "truncated" <=> finish = "length")
    BY DEF ClosedIsCountedAsItEnded
  <2>2. producer = "stopped" /\ gauge = 0 /\ counted = {outcome}
    BY <1>1 DEF IInv, Phases, Ledger
  <2>3. /\ ending \in {"", "done", "error"}
        /\ ending = "" => outcome = "cancelled"
        /\ ending = "done" =>
              outcome = IF finish = "length" THEN "truncated" ELSE "ok"
        /\ ending = "error" => outcome \in Codes
    BY <1>1 DEF IInv, TypeOK, Ledger
  <2>4. CASE ending = ""
    BY <2>1, <2>2, <2>3, <2>4
  <2>5. CASE ending = "done"
    BY <2>1, <2>2, <2>3, <2>5
  <2>6. CASE ending = "error"
    BY <2>1, <2>2, <2>3, <2>6
  <2>. QED  BY <2>3, <2>4, <2>5, <2>6
<1>2. IInv => ClosedIsCountedAsItEnded
  BY <1>1
<1>. QED  BY <1>2, Inductive, PTL

-----------------------------------------------------------------------------
(* The stream implements Answer: each step is one of its steps or none.    *)

LEMMA StartsAsPromised == Init => Promise!Init
<1> SUFFICES ASSUME Init PROVE Promise!Init
  OBVIOUS
<1>1. said = 0 /\ told = 0 /\ spoke = FALSE /\ ending = ""
      /\ generator = "created"
  BY DEF Init
<1>2. Ended = "no"
  BY <1>1 DEF Ended
<1>. QED  BY <1>1, <1>2 DEF Promise!Init

\* How it has ended, phase by phase.
LEMMA EndedIs ==
    /\ ending # "" => Ended = ending
    /\ ending = "" /\ generator \in {"finally", "closed"} => Ended = "cut"
    /\ ending = "" /\ generator \notin {"finally", "closed"} => Ended = "no"
  BY DEF Ended

LEMMA EndedBecomes ==
    /\ ending' # "" => Ended' = ending'
    /\ ending' = "" /\ generator' \in {"finally", "closed"} => Ended' = "cut"
    /\ ending' = "" /\ generator' \notin {"finally", "closed"} => Ended' = "no"
  BY DEF Ended

\* A step after which the reader and the source are where they were, and the
\* answer has ended if and only if it had.
LEMMA StutterIsPromised ==
    ASSUME said' = said, told' = told, spoke' = spoke, Ended' = Ended
    PROVE  [Promise!Next]_(Promise!vars)
  BY DEF Promise!vars

LEMMA HangUpIsPromised ==
    ASSUME IInv, Cleanup \/ generator' = "closed", generator # "closed",
           generator # "finally" \/ ending' # "",
           said' = said, told' = told, spoke' = spoke, ending' = ending
    PROVE  [Promise!Next]_(Promise!vars)
<1>1. generator' \in {"finally", "closed"}
  BY DEF Cleanup
<1>2. CASE ending = ""
  <2>1. Ended = "no" /\ Ended' = "cut"
    BY <1>1, <1>2, EndedIs, EndedBecomes
  <2>2. Promise!EndEarly
    BY <2>1 DEF Promise!EndEarly
  <2>. QED  BY <2>2 DEF Promise!Next
<1>3. CASE ending # ""
  <2>1. Ended' = Ended
    BY <1>3, EndedIs, EndedBecomes
  <2>. QED  BY <2>1, StutterIsPromised
<1>. QED  BY <1>2, <1>3

LEMMA StepsArePromised == IInv /\ [Next]_vars => [Promise!Next]_(Promise!vars)
<1> SUFFICES ASSUME IInv, [Next]_vars PROVE [Promise!Next]_(Promise!vars)
  OBVIOUS
<1>1. CASE Say
  <2>1. /\ producer = "reading" /\ said' = said + 1 /\ told' = told
        /\ spoke' = spoke /\ ending' = ending /\ generator' = generator
    BY <1>1 DEF Say, seen
  <2>2. ending = "" /\ generator \notin {"finally", "closed"}
    BY <2>1 DEF IInv, Phases
  <2>3. Ended = "no" /\ Ended' = "no"
    BY <2>1, <2>2, EndedIs, EndedBecomes
  <2>. QED  BY <2>1, <2>3 DEF Promise!Next, Promise!Say
<1>2. CASE Put \/ SourceEnds \/ Expire \/ PutLast \/ Stop \/ Leave
           \/ UNCHANGED vars
  <2>1. /\ said' = said /\ told' = told /\ spoke' = spoke
        /\ ending' = ending /\ generator' = generator
    BY <1>2 DEF Put, SourceEnds, Expire, PutLast, Stop, Leave, vars, task, seen
  <2>2. Ended' = Ended
    BY <2>1 DEF Ended
  <2>. QED  BY <2>1, <2>2, StutterIsPromised
<1>3. CASE Start \/ Heartbeat
  <2>1. /\ said' = said /\ told' = told /\ spoke' = spoke /\ ending' = ending
        /\ generator \in {"created", "waiting"} /\ generator' = "sending"
    BY <1>3 DEF Start, Heartbeat, Yield, task, seen
  <2>2. Ended' = Ended
    BY <2>1 DEF Ended
  <2>. QED  BY <2>1, <2>2, StutterIsPromised
<1>4. CASE Sent
  <2>1. /\ generator = "sending" /\ said' = said /\ told' = told
        /\ spoke' = spoke /\ ending' = ending
        /\ generator' = "waiting" \/ Cleanup
    BY <1>4 DEF Sent, seen
  <2>2. CASE generator' = "waiting"
    <3>1. Ended' = Ended
      BY <2>1, <2>2 DEF Ended
    <3>. QED  BY <2>1, <3>1, StutterIsPromised
  <2>3. CASE Cleanup
    BY <2>1, <2>3, HangUpIsPromised
  <2>. QED  BY <2>1, <2>2, <2>3
<1>5. CASE Take
  <2>1. said' = said /\ generator = "waiting"
    BY <1>5 DEF Take, task
  <2>2. Ended = "no" /\ ending = ""
    <3>1. ending = ""
      BY <2>1 DEF IInv, Phases
    <3>. QED  BY <2>1, <3>1, EndedIs
  <2>3. CASE told < said /\ queue[1].n = told + 1 /\ Handle(queue[1])
    <3>1. told' = told + 1 /\ ending' = ending
          /\ generator' \in {"sending", "waiting"}
      BY <2>1, <2>3 DEF Handle, Yield
    <3>2. spoke' \in {spoke, TRUE}
      <4>1. spoke \in BOOLEAN
        BY DEF IInv, TypeOK
      <4>2. spoke' = spoke \/ spoke' = (spoke \/ queue[1].kind = "token")
        BY <2>3, Zenon DEF Handle
      <4>. QED  BY <4>1, <4>2, Zenon
    <3>3. Ended' = "no"
      BY <2>2, <3>1, EndedBecomes
    <3>4. Promise!Tell
      BY <2>1, <2>2, <2>3, <3>1, <3>2, <3>3 DEF Promise!Tell
    <3>. QED  BY <3>4 DEF Promise!Next
  <2>4. CASE /\ queue[1].kind = "end" => told = said
             /\ \/ queue[1].kind = "end" /\ Conclude
                \/ queue[1].kind # "end" /\ Fail(queue[1].kind)
             /\ UNCHANGED seen
    <3>1. told' = told /\ spoke' = spoke
      BY <2>4 DEF seen
    <3>2. CASE ending' = "done"
      <4>1. told = said /\ spoke
        BY <2>4, <3>2 DEF Conclude, Fail
      <4>2. Ended' = "done"
        BY <3>2, EndedBecomes
      <4>3. Promise!Done
        BY <2>1, <2>2, <3>1, <4>1, <4>2 DEF Promise!Done
      <4>. QED  BY <4>3 DEF Promise!Next
    <3>3. CASE ending' = "error"
      <4>1. Ended' = "error"
        BY <3>3, EndedBecomes
      <4>2. Promise!EndEarly
        BY <2>1, <2>2, <3>1, <4>1 DEF Promise!EndEarly
      <4>. QED  BY <4>2 DEF Promise!Next
    <3>. QED  BY <2>4, <3>2, <3>3 DEF Conclude, Fail
  <2>. QED  BY <1>5, <2>3, <2>4, WhatIsTaken
<1>6. CASE Account
  <2>1. /\ said' = said /\ told' = told /\ spoke' = spoke /\ ending' = ending
        /\ generator = "finally" /\ generator' = "closed"
    BY <1>6 DEF Account, task, seen
  <2>2. Ended' = Ended
    BY <2>1 DEF Ended
  <2>. QED  BY <2>1, <2>2, StutterIsPromised
<1>7. CASE Cancelled
  <2>1. /\ said' = said /\ told' = told /\ spoke' = spoke /\ ending' = ending
        /\ Cleanup \/ generator' = "closed"
        /\ generator \in {"created", "sending", "waiting"}
    BY <1>7 DEF Cancelled, seen
  <2>. QED  BY <2>1, HangUpIsPromised
<1>. QED
  BY <1>1, <1>2, <1>3, <1>4, <1>5, <1>6, <1>7 DEF Next, Produce, Generate

\* The stream keeps the answer's promise: through the queue, the time limit
\* and every hang-up it behaves as Answer does, for which nothing is lost,
\* doubled or out of order and "done" comes only after all of it.
THEOREM StreamKeepsThePromise == Spec => KeepsThePromise
<1>. QED
  BY StartsAsPromised, StepsArePromised, Inductive, PTL
  DEF Spec, KeepsThePromise, Promise!Spec
=============================================================================
