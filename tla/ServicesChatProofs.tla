------------------------- MODULE ServicesChatProofs --------------------------
(***************************************************************************)
(* Services' properties about what the assistant gives to a model, for any *)
(* askers, sections, alerts, tools and bounds (Chat), about the tool calls *)
(* a model streams back (ModelStream) and about the events the page reads  *)
(* from the answer (EventParser).                                          *)
(***************************************************************************)
EXTENDS ServicesLimitsProofs, ServicesDataProofs, Ordered, FiniteSetTheorems,
        SequenceTheorems, WellFoundedInduction, TLAPS

-----------------------------------------------------------------------------
(* The list of sections, and the numbers in it.                            *)

\* What the list is after the n-th section, given what it is after the others.
Put(list, found, after, n) ==
    IF n = 0 THEN list
    ELSE IF found[n] \in CH!Members(after[n - 1]) THEN after[n - 1]
    ELSE Append(after[n - 1], found[n])

\* There is such a function.
LEMMA AfterExists ==
    ASSUME NEW list, NEW found \in Seq(Sections)
    PROVE  \E after : after = [n \in 0..Len(found) |-> Put(list, found, after, n)]
<1> DEFINE Is(after, m) == after = [n \in 0..m |-> Put(list, found, after, n)]
           T == {m \in 0..Len(found) : ~\E after : Is(after, m)}
<1>0. Len(found) \in Nat
  OBVIOUS
<1>1. T = {}
  <2> SUFFICES ASSUME T # {}  PROVE FALSE
    OBVIOUS
  <2>1. T \in SUBSET Nat
    BY <1>0
  <2> HIDE DEF T
  <2>2. PICK m \in T : \A k \in T : ~(k < m)
    BY <2>1, HasLeast
  <2>3. m \in 0..Len(found) /\ ~\E after : Is(after, m)
    BY <2>2 DEF T
  <2>4. CASE m = 0
    <3> DEFINE after == [n \in 0..0 |-> list]
    <3>1. Is(after, 0)
      BY DEF Put
    <3>. QED  BY <2>3, <2>4, <3>1
  <2>5. CASE m # 0
    <3>1. m - 1 \in 0..Len(found) /\ m - 1 < m /\ m \in Nat
      BY <1>0, <2>3, <2>5
    <3>2. m - 1 \notin T
      BY <2>2, <3>1
    <3>3. PICK before : Is(before, m - 1)
      BY <3>1, <3>2 DEF T
    <3> DEFINE after == [n \in 0..m |-> IF n = m THEN Put(list, found, before, m)
                                        ELSE before[n]]
    <3>4. /\ \A n \in 0..(m - 1) : before[n] = Put(list, found, before, n)
          /\ \A n \in 0..(m - 1) : after[n] = before[n]
      BY <3>1, <3>3
    <3>5. ASSUME NEW n \in 0..m
          PROVE  after[n] = Put(list, found, after, n)
      <4>1. CASE n = m
        <5>1. after[m] = Put(list, found, before, m) /\ after[m - 1] = before[m - 1]
          BY <3>1, <3>4
        <5>. QED  BY <4>1, <5>1 DEF Put
      <4>2. CASE n # m
        <5>1. n \in 0..(m - 1) /\ (n # 0 => n - 1 \in 0..(m - 1))
          BY <3>1, <4>2
        <5>2. after[n] = Put(list, found, before, n) /\ (n # 0 => after[n - 1] = before[n - 1])
          BY <3>4, <5>1
        <5>. QED  BY <5>2 DEF Put
      <4>. QED  BY <4>1, <4>2
    <3>6. Is(after, m)
      BY <3>5
    <3>. QED  BY <2>3, <3>6
  <2>. QED  BY <2>4, <2>5
<1>. QED  BY <1>0, <1>1

LEMMA MergedIsLast ==
    ASSUME NEW list, NEW found \in Seq(Sections)
    PROVE  \E after : /\ after = [n \in 0..Len(found) |-> Put(list, found, after, n)]
                      /\ CH!Merged(list, found) = after[Len(found)]
<1> DEFINE after[n \in 0..Len(found)] == IF n = 0 THEN list
            ELSE IF found[n] \in CH!Members(after[n - 1]) THEN after[n - 1]
            ELSE Append(after[n - 1], found[n])
<1>1. \E f : f = [n \in 0..Len(found) |-> IF n = 0 THEN list
            ELSE IF found[n] \in CH!Members(f[n - 1]) THEN f[n - 1]
            ELSE Append(f[n - 1], found[n])]
  <2>1. PICK f : f = [n \in 0..Len(found) |-> Put(list, found, f, n)]
    BY AfterExists, Zenon
  <2>. QED  BY <2>1, Zenon DEF Put
<1>2. after = [n \in 0..Len(found) |-> IF n = 0 THEN list
            ELSE IF found[n] \in CH!Members(after[n - 1]) THEN after[n - 1]
            ELSE Append(after[n - 1], found[n])]
  BY <1>1, Zenon
<1>3. CH!Merged(list, found) = after[Len(found)]
  BY Zenon DEF CH!Merged
<1> HIDE DEF after
<1>. QED  BY <1>2, <1>3 DEF Put

\* `longer` is the list with sections of `found` after it.
Extends(longer, list, found) ==
    /\ longer \in Seq(Sections) /\ Len(list) <= Len(longer)
    /\ \A i \in 1..Len(list) : longer[i] = list[i]
    /\ \A i \in 1..Len(longer) : i > Len(list) => longer[i] \in CH!Members(found)

\* Sections keep their numbers, and those that follow are of the search.
LEMMA MergedExtends ==
    ASSUME NEW list \in Seq(Sections), NEW found \in Seq(Sections)
    PROVE  Extends(CH!Merged(list, found), list, found)
<1>1. PICK after : /\ after = [n \in 0..Len(found) |-> Put(list, found, after, n)]
                   /\ CH!Merged(list, found) = after[Len(found)]
  BY MergedIsLast
<1>2. Len(found) \in Nat /\ Len(list) \in Nat
  OBVIOUS
<1> DEFINE T == {n \in 0..Len(found) : ~Extends(after[n], list, found)}
<1>3. T = {}
  <2> SUFFICES ASSUME T # {}  PROVE FALSE
    OBVIOUS
  <2>1. T \in SUBSET Nat
    BY <1>2
  <2> HIDE DEF T
  <2>2. PICK m \in T : \A k \in T : ~(k < m)
    BY <2>1, HasLeast
  <2>3. m \in 0..Len(found) /\ ~Extends(after[m], list, found)
    BY <2>2 DEF T
  <2>4. after[m] = Put(list, found, after, m)
    BY <1>1, <2>3
  <2>5. CASE m = 0
    <3>1. after[m] = list
      BY <2>4, <2>5 DEF Put
    <3>. QED  BY <1>2, <2>3, <3>1 DEF Extends
  <2>6. CASE m # 0
    <3> DEFINE last == after[m - 1]
    <3>1. m - 1 \in 0..Len(found) /\ m - 1 < m /\ m \in 1..Len(found)
      BY <1>2, <2>3, <2>6
    <3>2. Extends(last, list, found)
      BY <2>2, <3>1 DEF T
    <3>3. found[m] \in Sections /\ found[m] \in CH!Members(found)
      BY <3>1 DEF CH!Members
    <3>4. after[m] = last \/ after[m] = Append(last, found[m])
      BY <2>4, <2>6 DEF Put
    <3> HIDE DEF last
    <3>5. CASE after[m] = last
      BY <2>3, <3>2, <3>5
    <3>6. CASE after[m] = Append(last, found[m])
      <4> DEFINE longer == Append(last, found[m])
      <4>1. last \in Seq(Sections) /\ Len(list) <= Len(last)
        BY <3>2 DEF Extends
      <4>2. /\ longer \in Seq(Sections) /\ Len(longer) = Len(last) + 1
            /\ \A i \in 1..Len(last) : longer[i] = last[i]
            /\ longer[Len(last) + 1] = found[m]
        BY <3>3, <4>1
      <4> HIDE DEF longer
      <4>3. Len(list) <= Len(longer)
        BY <1>2, <4>1, <4>2
      <4>4. \A i \in 1..Len(list) : longer[i] = list[i]
        <5> SUFFICES ASSUME NEW i \in 1..Len(list)  PROVE longer[i] = list[i]
          OBVIOUS
        <5>1. i \in 1..Len(last)
          BY <1>2, <4>1
        <5>. QED  BY <3>2, <4>2, <5>1 DEF Extends
      <4>5. \A i \in 1..Len(longer) : i > Len(list) => longer[i] \in CH!Members(found)
        <5> SUFFICES ASSUME NEW i \in 1..Len(longer), i > Len(list)
                     PROVE  longer[i] \in CH!Members(found)
          OBVIOUS
        <5>1. i \in 1..Len(last) \/ i = Len(last) + 1
          BY <4>1, <4>2
        <5>. QED  BY <3>2, <3>3, <4>2, <5>1 DEF Extends
      <4>6. Extends(longer, list, found)
        BY <4>2, <4>3, <4>4, <4>5 DEF Extends
      <4>. QED  BY <2>3, <3>6, <4>6 DEF longer
    <3>. QED  BY <3>4, <3>5, <3>6
  <2>. QED  BY <2>5, <2>6
<1>. QED  BY <1>1, <1>2, <1>3

-----------------------------------------------------------------------------
(* The invariant.                                                          *)

FoundRecord == [sections : Seq(Sections), alerts : SUBSET Alerts]

AskRecord == [stage : CH!Stages, heard : SUBSET BOOLEAN, step : Nat, todo : Seq(CH!Calls),
              begun : Nat, called : SUBSET CH!Calls, found : FoundRecord,
              sections : Seq(Sections), told : SUBSET (Nat \X Sections),
              alerts : SUBSET Alerts, recorded : SUBSET (Sections \cup Alerts)]

CallRecord == [by : CH!Askers, id : Nat, call : Searches \cup Lists,
               state : {"running", "done", "failed"}, awaited : BOOLEAN,
               found : FoundRecord]

Early == {"idle", "arrived", "reading", "recording"}

\* What the switch was while a question waited for it decides the question,
\* and what the model was told is on record, number for number.
AskIsSound(ask) ==
    /\ ask.stage = "arrived" => enabled \in ask.heard
    /\ ask.heard = {FALSE} => ask.stage \in {"arrived", "refused", "failed"}
    /\ ask.heard = {TRUE} => ask.stage # "refused"
    /\ ask.stage \in {"idle", "open"} => ask.heard = {}
    /\ {p[2] : p \in ask.told} \cup ask.alerts \subseteq ask.recorded
    /\ ask.told = CH!Numbered(ask.sections)

\* A call belongs to an answer that has started, and what it read was recorded
\* with it.
CallIsSound(r, ask) ==
    /\ ask.stage \notin Early
    /\ r.state = "done" => CH!Items(r.found) \subseteq ask.recorded

ChatInv ==
    /\ enabled \in BOOLEAN
    /\ asks \in [CH!Askers -> AskRecord] /\ running \subseteq CallRecord
    /\ \A c \in CH!Askers : AskIsSound(asks[c])
    /\ \A r \in running : CallIsSound(r, asks[r.by])

LEMMA ReadsAreTyped ==
    /\ CH!Nothing \in FoundRecord
    /\ CH!Hits \subseteq Seq(Sections)
    /\ \A call : CH!Found(call) \subseteq FoundRecord
<1>1. MaxHits \in Nat
  BY ServicesConstants DEF CH!ChatConstants
<1>2. CH!Hits \subseteq Seq(Sections)
  <2> SUFFICES ASSUME NEW h \in CH!Hits  PROVE h \in Seq(Sections)
    OBVIOUS
  <2>1. PICK n \in 0..MaxHits : h \in [1..n -> Sections]
    BY DEF CH!Hits
  <2>. QED  BY <1>1, <2>1
<1>3. CH!Nothing \in FoundRecord
  BY DEF CH!Nothing, FoundRecord
<1>4. \A call : CH!Found(call) \subseteq FoundRecord
  <2> SUFFICES ASSUME NEW call, NEW found \in CH!Found(call)
               PROVE  found \in FoundRecord
    OBVIOUS
  <2>1. \/ \E h \in CH!Hits \cup {<<>>} : found = [sections |-> h, alerts |-> {}]
        \/ \E a \in SUBSET Alerts : found = [sections |-> <<>>, alerts |-> a]
    BY DEF CH!Found
  <2>2. CH!Hits \cup {<<>>} \subseteq Seq(Sections)
    <3>1. <<>> \in Seq(Sections)
      OBVIOUS
    <3>. QED  BY <1>2, <3>1
  <2>3. \A s \in Seq(Sections), a \in SUBSET Alerts :
          [sections |-> s, alerts |-> a] \in FoundRecord
    BY DEF FoundRecord
  <2>4. <<>> \in Seq(Sections) /\ {} \in SUBSET Alerts
    BY <2>2
  <2>. QED  BY <2>1, <2>2, <2>3, <2>4, Zenon
<1>. QED  BY <1>2, <1>3, <1>4

LEMMA ChatInit == CH!Init => ChatInv
<1> SUFFICES ASSUME CH!Init  PROVE ChatInv
  OBVIOUS
<1>1. /\ enabled \in BOOLEAN /\ running = {}
      /\ asks = [c \in CH!Askers |-> CH!Fresh(kind[c])]
  BY DEF CH!Init
<1>2. \A k : CH!Fresh(k) \in AskRecord /\ AskIsSound(CH!Fresh(k))
  <2> SUFFICES ASSUME NEW k
               PROVE  CH!Fresh(k) \in AskRecord /\ AskIsSound(CH!Fresh(k))
    OBVIOUS
  <2> DEFINE first == CH!Fresh(k)
  <2>1. /\ first.stage \in {"open", "idle"} /\ first.heard = {} /\ first.step = 0
        /\ first.todo = <<>> /\ first.begun = 0 /\ first.called = {}
        /\ first.found = CH!Nothing /\ first.sections = <<>> /\ first.told = {}
        /\ first.alerts = {} /\ first.recorded = {}
    BY DEF CH!Fresh
  <2>2. first \in AskRecord
    BY ReadsAreTyped DEF CH!Fresh, AskRecord, CH!Stages
  <2> HIDE DEF first
  <2>3. CH!Numbered(<<>>) = {}
    BY DEF CH!Numbered
  <2>4. AskIsSound(first)
    BY <2>1, <2>3 DEF AskIsSound
  <2>. QED  BY <2>2, <2>4 DEF first
<1>. QED  BY <1>1, <1>2 DEF ChatInv

\* One asker moves; the calls under way that are not its own stay.
LEMMA AskerMoves ==
    ASSUME ChatInv, NEW c \in CH!Askers, NEW new \in AskRecord,
           asks' = [asks EXCEPT ![c] = new], UNCHANGED <<enabled, kind>>,
           AskIsSound(new), running' \subseteq CallRecord,
           \A r \in running' : IF r.by = c THEN CallIsSound(r, new) ELSE r \in running
    PROVE  ChatInv'
<1>1. CH!Askers' = CH!Askers
  BY DEF CH!Askers
<1>2. /\ asks' \in [CH!Askers -> AskRecord] /\ asks'[c] = new
      /\ \A d \in CH!Askers : d # c => asks'[d] = asks[d]
  BY DEF ChatInv
<1>3. \A d \in CH!Askers : AskIsSound(asks'[d])
  BY <1>2 DEF ChatInv
<1>4. \A d \in CH!Askers : AskIsSound(asks[d])'
  BY <1>3 DEF AskIsSound
<1>5. \A r \in running' : CallIsSound(r, asks'[r.by])
  BY <1>2 DEF ChatInv, CallRecord
<1>6. CallRecord' = CallRecord
  BY <1>1 DEF CallRecord
<1>. QED  BY <1>1, <1>2, <1>4, <1>5, <1>6 DEF ChatInv

\* A step of an asker that hears, reads and is told nothing.
LEMMA QuietMove ==
    ASSUME ChatInv, NEW c \in CH!Askers, NEW new \in AskRecord,
           asks' = [asks EXCEPT ![c] = new], UNCHANGED <<enabled, kind>>,
           new.heard = asks[c].heard, new.sections = asks[c].sections,
           new.told = asks[c].told, new.alerts = asks[c].alerts,
           asks[c].recorded \subseteq new.recorded,
           \/ new.stage = asks[c].stage
           \/ asks[c].stage \in CH!Open /\ new.stage = "failed"
           \/ asks[c].stage = "reading" /\ new.stage = "recording"
           \/ /\ asks[c].stage \in CH!Answering
              /\ new.stage \in CH!Answering \cup {"failed", "ended"},
           running' \subseteq CallRecord,
           \A r \in running' : IF r.by = c THEN CallIsSound(r, new) ELSE r \in running
    PROVE  ChatInv'
<1>1. AskIsSound(asks[c]) /\ asks[c] \in AskRecord
  BY DEF ChatInv
<1>2. AskIsSound(new)
  BY <1>1 DEF AskIsSound, CH!Open, CH!Answering
<1>. QED  BY <1>2, AskerMoves

\* An asker's calls, and that there are none before its answer starts.
LEMMA CallsOf ==
    ASSUME ChatInv
    PROVE  /\ \A r \in running : r \in CallRecord /\ r.by \in CH!Askers
           /\ \A c \in CH!Askers : asks[c] \in AskRecord
           /\ \A c \in CH!Askers : asks[c].stage \in Early =>
                \A r \in running : r.by # c
  BY DEF ChatInv, CallRecord, CallIsSound

LEMMA TurnKeeps ==
    ASSUME ChatInv, NEW to \in BOOLEAN, CH!Turn(to)
    PROVE  ChatInv'
<1> DEFINE heard(c) == [asks[c] EXCEPT !.heard = @ \cup {to}]
<1>1. /\ enabled' = to /\ kind' = kind /\ running' = running
      /\ asks' = [c \in CH!Askers |-> IF asks[c].stage = "arrived" THEN heard(c) ELSE asks[c]]
  BY DEF CH!Turn
<1>2. CH!Askers' = CH!Askers
  BY <1>1 DEF CH!Askers
<1>3. ASSUME NEW c \in CH!Askers
      PROVE  /\ heard(c) \in AskRecord /\ heard(c).heard = asks[c].heard \cup {to}
             /\ heard(c).stage = asks[c].stage /\ heard(c).told = asks[c].told
             /\ heard(c).alerts = asks[c].alerts /\ heard(c).recorded = asks[c].recorded
             /\ heard(c).sections = asks[c].sections
  BY CallsOf DEF AskRecord
<1> HIDE DEF heard
<1>4. asks' \in [CH!Askers -> AskRecord]
  BY <1>1, <1>3, CallsOf
<1>5. ASSUME NEW c \in CH!Askers
      PROVE  /\ AskIsSound(asks[c])' /\ asks'[c].stage = asks[c].stage
             /\ asks'[c].recorded = asks[c].recorded
  <2>1. AskIsSound(asks[c])
    BY DEF ChatInv
  <2>2. CASE asks[c].stage = "arrived"
    <3>1. asks'[c] = heard(c)
      BY <1>1, <2>2
    <3>. QED  BY <1>1, <1>3, <2>1, <2>2, <3>1 DEF AskIsSound
  <2>3. CASE asks[c].stage # "arrived"
    <3>1. asks'[c] = asks[c]
      BY <1>1, <2>3
    <3>2. /\ asks'[c].stage = asks[c].stage /\ asks'[c].heard = asks[c].heard
          /\ asks'[c].told = asks[c].told /\ asks'[c].alerts = asks[c].alerts
          /\ asks'[c].recorded = asks[c].recorded
          /\ asks'[c].sections = asks[c].sections
      BY <3>1
    <3>3. AskIsSound(asks[c])'
      BY <2>1, <2>3, <3>2 DEF AskIsSound
    <3>. QED  BY <3>2, <3>3
  <2>. QED  BY <2>2, <2>3
<1>6. \A r \in running : CallIsSound(r, asks'[r.by])
  BY <1>5, CallsOf DEF ChatInv, CallIsSound
<1>7. CallRecord' = CallRecord
  BY <1>2 DEF CallRecord
<1>. QED  BY <1>1, <1>2, <1>4, <1>5, <1>6, <1>7 DEF ChatInv

LEMMA AskKeeps ==
    ASSUME ChatInv, NEW c \in CH!Askers, CH!Ask(c)
    PROVE  ChatInv'
<1> DEFINE new == [asks[c] EXCEPT !.stage = "arrived", !.heard = {enabled}]
<1>1. /\ asks[c].stage = "idle" /\ asks' = [asks EXCEPT ![c] = new]
      /\ running' = running /\ UNCHANGED <<enabled, kind>>
  BY CallsOf DEF CH!Ask, ChatInv
<1>2. /\ new \in AskRecord /\ new.stage = "arrived" /\ new.heard = {enabled}
      /\ new.told = asks[c].told /\ new.alerts = asks[c].alerts
      /\ new.recorded = asks[c].recorded /\ new.sections = asks[c].sections
  <2>1. asks[c] \in AskRecord /\ {enabled} \in SUBSET BOOLEAN
    BY CallsOf DEF ChatInv
  <2>2. "arrived" \in CH!Stages
    BY DEF CH!Stages, CH!Open
  <2>. QED  BY <2>1, <2>2 DEF AskRecord
<1> HIDE DEF new
<1>3. AskIsSound(asks[c]) /\ enabled \in BOOLEAN /\ running \subseteq CallRecord
  BY DEF ChatInv
<1>4. AskIsSound(new)
  BY <1>2, <1>3 DEF AskIsSound
<1>5. \A r \in running : r.by # c
  BY <1>1, CallsOf DEF Early
<1>. QED  BY <1>1, <1>2, <1>3, <1>4, <1>5, AskerMoves

LEMMA CheckSwitchKeeps ==
    ASSUME ChatInv, NEW c \in CH!Askers, CH!CheckSwitch(c)
    PROVE  ChatInv'
<1> DEFINE stage == IF ~enabled THEN "refused"
                    ELSE IF kind[c] = "agent" THEN "recording" ELSE "reading"
           new == [asks[c] EXCEPT !.stage = stage]
<1>1. /\ asks[c].stage = "arrived" /\ asks' = [asks EXCEPT ![c] = new]
      /\ running' = running /\ UNCHANGED <<enabled, kind>>
  BY CallsOf DEF CH!CheckSwitch, CH!Admits, ChatInv
<1>2. /\ stage \in CH!Stages /\ (enabled => stage \in {"reading", "recording"})
      /\ (~enabled => stage = "refused")
  BY DEF CH!Stages, CH!Open, CH!Ended
<1> HIDE DEF stage
<1>3. /\ new \in AskRecord /\ new.stage = stage /\ new.heard = asks[c].heard
      /\ new.told = asks[c].told /\ new.alerts = asks[c].alerts
      /\ new.recorded = asks[c].recorded /\ new.sections = asks[c].sections
  BY <1>2, CallsOf DEF AskRecord
<1> HIDE DEF new
<1>4. AskIsSound(asks[c]) /\ enabled \in BOOLEAN /\ running \subseteq CallRecord
  BY DEF ChatInv
<1>5. AskIsSound(new)
  BY <1>1, <1>2, <1>3, <1>4 DEF AskIsSound
<1>6. \A r \in running : r.by # c
  BY <1>1, CallsOf DEF Early
<1>. QED  BY <1>1, <1>3, <1>4, <1>5, <1>6, AskerMoves

LEMMA ReadContextKeeps ==
    ASSUME ChatInv, NEW c \in CH!Askers, CH!ReadContext(c)
    PROVE  ChatInv'
<1>1. PICK h \in CH!Hits, a \in SUBSET Alerts :
        asks' = [asks EXCEPT ![c].stage = "recording",
                             ![c].found = [sections |-> h, alerts |-> a]]
  BY DEF CH!ReadContext
<1> DEFINE found == [sections |-> h, alerts |-> a]
           new == [asks[c] EXCEPT !.stage = "recording", !.found = found]
<1>2. found \in FoundRecord
  BY ReadsAreTyped DEF FoundRecord
<1> HIDE DEF found
<1>3. /\ asks[c].stage = "reading" /\ asks' = [asks EXCEPT ![c] = new]
      /\ running' = running /\ UNCHANGED <<enabled, kind>>
  BY <1>1, CallsOf DEF CH!ReadContext, ChatInv, found
<1>4. /\ new \in AskRecord /\ new.stage = "recording" /\ new.heard = asks[c].heard
      /\ new.told = asks[c].told /\ new.alerts = asks[c].alerts
      /\ new.recorded = asks[c].recorded /\ new.sections = asks[c].sections
  BY <1>2, CallsOf DEF AskRecord, CH!Stages, CH!Open
<1> HIDE DEF new
<1>5. \A r \in running : r.by # c
  BY <1>3, CallsOf DEF Early
<1>6. running' \subseteq CallRecord
  BY <1>3 DEF ChatInv
<1>. QED  BY <1>3, <1>4, <1>5, <1>6, QuietMove

LEMMA RequestFailsKeeps ==
    ASSUME ChatInv, NEW c \in CH!Askers, CH!RequestFails(c)
    PROVE  ChatInv'
<1> DEFINE new == [asks[c] EXCEPT !.stage = "failed", !.found = CH!Nothing]
<1>1. /\ asks[c].stage \in CH!Open /\ asks' = [asks EXCEPT ![c] = new]
      /\ running' = running /\ UNCHANGED <<enabled, kind>>
  BY CallsOf DEF CH!RequestFails, ChatInv
<1>2. /\ new \in AskRecord /\ new.stage = "failed" /\ new.heard = asks[c].heard
      /\ new.told = asks[c].told /\ new.alerts = asks[c].alerts
      /\ new.recorded = asks[c].recorded /\ new.sections = asks[c].sections
  <2>1. asks[c] \in AskRecord /\ CH!Nothing \in FoundRecord
    BY CallsOf, ReadsAreTyped
  <2>2. "failed" \in CH!Stages
    BY DEF CH!Stages, CH!Ended
  <2>. QED  BY <2>1, <2>2 DEF AskRecord
<1> HIDE DEF new
<1>3. \A r \in running : r.by # c
  BY <1>1, CallsOf DEF Early, CH!Open
<1>4. running' \subseteq CallRecord
  BY <1>1 DEF ChatInv
<1>. QED  BY <1>1, <1>2, <1>3, <1>4, QuietMove

LEMMA NumberedFacts ==
    ASSUME NEW s \in Seq(Sections)
    PROVE  /\ CH!Numbered(s) \in SUBSET (Nat \X Sections)
           /\ \A p \in CH!Numbered(s) : p[2] \in CH!Members(s)
           /\ CH!Members(s) \subseteq Sections
<1>1. \A n \in DOMAIN s : n \in Nat /\ s[n] \in Sections
  OBVIOUS
<1>. QED  BY <1>1 DEF CH!Numbered, CH!Members

LEMMA RecordAskedKeeps ==
    ASSUME ChatInv, NEW c \in CH!Askers, CH!RecordAsked(c)
    PROVE  ChatInv'
<1> DEFINE found == asks[c].found
           recorded == CH!Items(found)
           told == CH!Numbered(found.sections)
           new == [asks[c] EXCEPT !.stage = "answering", !.recorded = recorded,
                       !.sections = found.sections, !.alerts = found.alerts,
                       !.told = told, !.found = CH!Nothing]
<1>1. /\ asks[c].stage = "recording" /\ asks' = [asks EXCEPT ![c] = new]
      /\ running' = running /\ UNCHANGED <<enabled, kind>>
  BY CallsOf DEF CH!RecordAsked, ChatInv
<1>2. asks[c] \in AskRecord /\ found \in FoundRecord
  BY CallsOf DEF AskRecord
<1>3. found.sections \in Seq(Sections) /\ found.alerts \in SUBSET Alerts
  BY <1>2 DEF FoundRecord
<1>4. /\ told \in SUBSET (Nat \X Sections)
      /\ recorded \in SUBSET (Sections \cup Alerts)
      /\ \A p \in told : p[2] \in recorded
      /\ found.alerts \subseteq recorded
  BY <1>3, NumberedFacts DEF CH!Items
<1> HIDE DEF recorded, told
<1>5. /\ new \in AskRecord /\ new.stage = "answering" /\ new.heard = asks[c].heard
      /\ new.told = told /\ new.alerts = found.alerts
      /\ new.recorded = recorded /\ new.sections = found.sections
  BY <1>2, <1>3, <1>4, ReadsAreTyped DEF AskRecord, CH!Stages, CH!Answering
<1> HIDE DEF new
<1>6. AskIsSound(asks[c]) /\ running \subseteq CallRecord
  BY DEF ChatInv
<1>7. AskIsSound(new)
  BY <1>1, <1>4, <1>5, <1>6 DEF AskIsSound, told
<1>8. \A r \in running : r.by # c
  BY <1>1, CallsOf DEF Early
<1>. QED  BY <1>1, <1>5, <1>6, <1>7, <1>8, AskerMoves

\* An answer goes on or ends; it keeps what it has been told, and its calls
\* under way are as before.
LEMMA AnswerMoves ==
    ASSUME ChatInv, NEW c \in CH!Askers, NEW new \in AskRecord,
           asks' = [asks EXCEPT ![c] = new], UNCHANGED <<enabled, kind, running>>,
           new.heard = asks[c].heard, new.sections = asks[c].sections,
           new.told = asks[c].told, new.alerts = asks[c].alerts,
           new.recorded = asks[c].recorded,
           asks[c].stage \in CH!Answering,
           new.stage \in CH!Answering \cup {"failed", "ended"}
    PROVE  ChatInv'
<1>1. running' \subseteq CallRecord
  BY DEF ChatInv
<1>2. new.stage \notin Early
  BY DEF CH!Answering, Early
<1>3. \A r \in running' : IF r.by = c THEN CallIsSound(r, new) ELSE r \in running
  BY <1>2 DEF ChatInv, CallIsSound
<1>. QED  BY <1>1, <1>3, QuietMove

LEMMA ModelAnswersKeeps ==
    ASSUME ChatInv, NEW c \in CH!Askers, CH!ModelAnswers(c)
    PROVE  ChatInv'
<1>1. asks[c].stage = "answering" /\ UNCHANGED <<enabled, kind, running>>
  BY DEF CH!ModelAnswers
<1>2. asks[c] \in AskRecord /\ asks \in [CH!Askers -> AskRecord]
  BY DEF ChatInv
<1>3. MaxCalls \in Nat
  BY ServicesConstants DEF CH!ChatConstants
<1> DEFINE Goes(todo) ==
              \/ asks' = [asks EXCEPT ![c].stage = "calling", ![c].todo = todo]
              \/ asks' = [asks EXCEPT ![c].stage = "ended"]
<1>4. \E todo \in Seq(CH!Calls) : Goes(todo)
  <2>1. PICK n \in 0..MaxCalls : \E todo \in [1..n -> CH!Calls] : Goes(todo)
    BY DEF CH!ModelAnswers
  <2>2. [1..n -> CH!Calls] \subseteq Seq(CH!Calls)
    BY <1>3
  <2> HIDE DEF Goes
  <2>. QED  BY <2>1, <2>2
<1>5. PICK todo \in Seq(CH!Calls) : Goes(todo)
  BY <1>4
<1>6. CASE asks' = [asks EXCEPT ![c].stage = "calling", ![c].todo = todo]
  <2> DEFINE new == [asks[c] EXCEPT !.stage = "calling", !.todo = todo]
  <2>1. /\ new \in AskRecord /\ new.stage = "calling" /\ new.heard = asks[c].heard
        /\ new.told = asks[c].told /\ new.alerts = asks[c].alerts
        /\ new.recorded = asks[c].recorded /\ new.sections = asks[c].sections
    BY <1>2, <1>5 DEF AskRecord, CH!Stages, CH!Answering
  <2>2. asks' = [asks EXCEPT ![c] = new]
    BY <1>2, <1>6
  <2> HIDE DEF new
  <2>3. asks[c].stage \in CH!Answering /\ new.stage \in CH!Answering \cup {"failed", "ended"}
    BY <1>1, <2>1 DEF CH!Answering
  <2>. QED  BY <1>1, <2>1, <2>2, <2>3, AnswerMoves
<1>7. CASE asks' = [asks EXCEPT ![c].stage = "ended"]
  <2> DEFINE new == [asks[c] EXCEPT !.stage = "ended"]
  <2>1. /\ new \in AskRecord /\ new.stage = "ended" /\ new.heard = asks[c].heard
        /\ new.told = asks[c].told /\ new.alerts = asks[c].alerts
        /\ new.recorded = asks[c].recorded /\ new.sections = asks[c].sections
    BY <1>2 DEF AskRecord, CH!Stages, CH!Ended
  <2>2. asks' = [asks EXCEPT ![c] = new]
    BY <1>2, <1>7
  <2> HIDE DEF new
  <2>3. asks[c].stage \in CH!Answering /\ new.stage \in CH!Answering \cup {"failed", "ended"}
    BY <1>1, <2>1 DEF CH!Answering
  <2>. QED  BY <1>1, <2>1, <2>2, <2>3, AnswerMoves
<1>. QED  BY <1>5, <1>6, <1>7

LEMMA ModelFailsKeeps ==
    ASSUME ChatInv, NEW c \in CH!Askers, CH!ModelFails(c)
    PROVE  ChatInv'
<1> DEFINE new == [asks[c] EXCEPT !.stage = "failed"]
<1>1. /\ asks[c].stage = "answering" /\ UNCHANGED <<enabled, kind, running>>
      /\ asks' = [asks EXCEPT ![c] = new]
  BY CallsOf DEF CH!ModelFails, ChatInv
<1>2. /\ new \in AskRecord /\ new.stage = "failed" /\ new.heard = asks[c].heard
      /\ new.told = asks[c].told /\ new.alerts = asks[c].alerts
      /\ new.recorded = asks[c].recorded /\ new.sections = asks[c].sections
  <2>1. asks[c] \in AskRecord
    BY CallsOf
  <2>2. "failed" \in CH!Stages
    BY DEF CH!Stages, CH!Ended
  <2>. QED  BY <2>1, <2>2 DEF AskRecord
<1> HIDE DEF new
<1>3. asks[c].stage \in CH!Answering /\ new.stage \in CH!Answering \cup {"failed", "ended"}
  BY <1>1, <1>2 DEF CH!Answering
<1>. QED  BY <1>1, <1>2, <1>3, AnswerMoves

LEMMA NextRoundKeeps ==
    ASSUME ChatInv, NEW c \in CH!Askers, CH!NextRound(c)
    PROVE  ChatInv'
<1> DEFINE step == asks[c].step + 1
           new == [asks[c] EXCEPT !.stage = "answering", !.step = step]
<1>1. /\ asks[c].stage = "calling" /\ UNCHANGED <<enabled, kind, running>>
      /\ asks' = [asks EXCEPT ![c] = new]
  BY CallsOf DEF CH!NextRound, ChatInv
<1>0. step \in Nat
  BY CallsOf DEF AskRecord
<1> HIDE DEF step
<1>2. /\ new \in AskRecord /\ new.stage = "answering" /\ new.heard = asks[c].heard
      /\ new.told = asks[c].told /\ new.alerts = asks[c].alerts
      /\ new.recorded = asks[c].recorded /\ new.sections = asks[c].sections
  BY <1>0, CallsOf DEF AskRecord, CH!Stages, CH!Answering
<1> HIDE DEF new
<1>3. asks[c].stage \in CH!Answering /\ new.stage \in CH!Answering \cup {"failed", "ended"}
  BY <1>1, <1>2 DEF CH!Answering
<1>. QED  BY <1>1, <1>2, <1>3, AnswerMoves

\* A call begins: it has read nothing.
LEMMA BegunIsSound ==
    ASSUME ChatInv, NEW c \in CH!Askers, NEW call \in Searches \cup Lists,
           asks[c].stage \notin Early, NEW new \in AskRecord,
           new.stage \notin Early, new.recorded = asks[c].recorded
    PROVE  /\ running \cup {CH!Begun(c, call)} \subseteq CallRecord
           /\ \A r \in running \cup {CH!Begun(c, call)} :
                IF r.by = c THEN CallIsSound(r, new) ELSE r \in running
<1> DEFINE begun == CH!Begun(c, call)
<1>1. asks[c].begun \in Nat
  BY CallsOf DEF AskRecord
<1>2. begun \in CallRecord /\ begun.by = c /\ begun.state = "running"
  BY <1>1, ReadsAreTyped DEF CH!Begun, CallRecord
<1> HIDE DEF begun
<1>3. CallIsSound(begun, new)
  BY <1>2 DEF CallIsSound
<1>4. \A r \in running : r.by = c => CallIsSound(r, new)
  BY DEF ChatInv, CallIsSound
<1>5. running \subseteq CallRecord
  BY DEF ChatInv
<1>. QED  BY <1>2, <1>3, <1>4, <1>5 DEF begun

LEMMA NextCallKeeps ==
    ASSUME ChatInv, NEW c \in CH!Askers, CH!NextCall(c)
    PROVE  ChatInv'
<1> DEFINE call == Head(asks[c].todo)
           todo == Tail(asks[c].todo)
           called == asks[c].called \cup {call}
           begun == asks[c].begun + 1
<1>1. /\ asks[c].stage = "calling" /\ asks[c].todo # <<>> /\ UNCHANGED <<enabled, kind>>
  BY DEF CH!NextCall
<1>2. asks[c] \in AskRecord /\ asks \in [CH!Askers -> AskRecord]
  BY DEF ChatInv
<1>3. /\ call \in CH!Calls /\ todo \in Seq(CH!Calls) /\ called \in SUBSET CH!Calls
      /\ begun \in Nat
  <2>1. /\ asks[c].todo \in Seq(CH!Calls) /\ asks[c].called \in SUBSET CH!Calls
        /\ asks[c].begun \in Nat
    BY <1>2 DEF AskRecord
  <2>. QED  BY <1>1, <2>1
<1>4. CASE call \in asks[c].called \cup Invalid
  <2> DEFINE new == [asks[c] EXCEPT !.todo = todo, !.called = called]
  <2>1. asks' = [asks EXCEPT ![c].todo = todo, ![c].called = called] /\ running' = running
    BY <1>4 DEF CH!NextCall
  <2> HIDE DEF call, todo, called, begun
  <2>2. asks' = [asks EXCEPT ![c] = new]
    BY <1>2, <2>1
  <2>3. /\ new \in AskRecord /\ new.stage = asks[c].stage /\ new.heard = asks[c].heard
        /\ new.told = asks[c].told /\ new.alerts = asks[c].alerts
        /\ new.recorded = asks[c].recorded /\ new.sections = asks[c].sections
    BY <1>2, <1>3 DEF AskRecord
  <2> HIDE DEF new
  <2>4. asks[c].stage \in CH!Answering /\ new.stage \in CH!Answering
    BY <1>1, <2>3 DEF CH!Answering
  <2>. QED  BY <1>1, <2>1, <2>2, <2>3, <2>4, AnswerMoves
<1>5. CASE call \notin asks[c].called \cup Invalid
  <2> DEFINE new == [asks[c] EXCEPT !.todo = todo, !.called = called,
                                    !.stage = "waiting", !.begun = begun]
  <2>1. /\ asks' = [asks EXCEPT ![c].todo = todo, ![c].called = called,
                                ![c].stage = "waiting", ![c].begun = begun]
        /\ running' = running \cup {CH!Begun(c, call)}
    <3>1. /\ asks' = [[asks EXCEPT ![c].todo = todo, ![c].called = called]
                        EXCEPT ![c].stage = "waiting", ![c].begun = @ + 1]
          /\ running' = running \cup {CH!Begun(c, call)}
      BY <1>5 DEF CH!NextCall
    <3>2. [asks EXCEPT ![c].todo = todo, ![c].called = called][c].begun = asks[c].begun
      BY <1>2 DEF AskRecord
    <3> HIDE DEF call, todo, called
    <3>. QED  BY <1>2, <3>1, <3>2
  <2>2. call \in Searches \cup Lists
    BY <1>3, <1>5 DEF CH!Calls
  <2> HIDE DEF call, todo, called, begun
  <2>3. asks' = [asks EXCEPT ![c] = new]
    BY <1>2, <2>1
  <2>4. /\ new \in AskRecord /\ new.stage = "waiting" /\ new.heard = asks[c].heard
        /\ new.told = asks[c].told /\ new.alerts = asks[c].alerts
        /\ new.recorded = asks[c].recorded /\ new.sections = asks[c].sections
    BY <1>2, <1>3 DEF AskRecord, CH!Stages, CH!Answering
  <2> HIDE DEF new
  <2>5. /\ asks[c].stage \in CH!Answering /\ new.stage \in CH!Answering
        /\ asks[c].stage \notin Early /\ new.stage \notin Early
    BY <1>1, <2>4 DEF CH!Answering, Early
  <2>6. /\ running' \subseteq CallRecord
        /\ \A r \in running' : IF r.by = c THEN CallIsSound(r, new) ELSE r \in running
    BY <2>1, <2>2, <2>4, <2>5, BegunIsSound
  <2>. QED  BY <1>1, <2>3, <2>4, <2>5, <2>6, QuietMove
<1>. QED  BY <1>4, <1>5

LEMMA McpCallKeeps ==
    ASSUME ChatInv, NEW c \in CH!Askers, CH!McpCall(c)
    PROVE  ChatInv'
<1> DEFINE begun == asks[c].begun + 1
           new == [asks[c] EXCEPT !.begun = begun]
<1>1. PICK call \in Searches \cup Lists : running' = running \cup {CH!Begun(c, call)}
  BY DEF CH!McpCall
<1>2. /\ asks[c].stage = "open" /\ UNCHANGED <<enabled, kind>>
      /\ asks' = [asks EXCEPT ![c] = new]
  BY CallsOf DEF CH!McpCall, ChatInv
<1>3. begun \in Nat
  BY CallsOf DEF AskRecord
<1> HIDE DEF begun
<1>4. /\ new \in AskRecord /\ new.stage = asks[c].stage /\ new.heard = asks[c].heard
      /\ new.told = asks[c].told /\ new.alerts = asks[c].alerts
      /\ new.recorded = asks[c].recorded /\ new.sections = asks[c].sections
  BY <1>3, CallsOf DEF AskRecord
<1> HIDE DEF new
<1>5. asks[c].stage \notin Early /\ new.stage \notin Early
  BY <1>2, <1>4 DEF Early
<1>6. /\ running' \subseteq CallRecord
      /\ \A r \in running' : IF r.by = c THEN CallIsSound(r, new) ELSE r \in running
  BY <1>1, <1>4, <1>5, BegunIsSound
<1>. QED  BY <1>2, <1>4, <1>6, QuietMove

LEMMA CutKeeps ==
    ASSUME ChatInv, NEW c \in CH!Askers, CH!Cut(c)
    PROVE  ChatInv'
<1> DEFINE new == [asks[c] EXCEPT !.stage = "ended", !.todo = <<>>]
           left(r) == [r EXCEPT !.awaited = FALSE]
<1>1. /\ asks[c].stage \in CH!Answering /\ UNCHANGED <<enabled, kind>>
      /\ asks' = [asks EXCEPT ![c] = new]
  BY CallsOf DEF CH!Cut, ChatInv
<1>2. running' = {r \in running : r.by # c}
            \cup {left(r) : r \in {s \in running : s.by = c /\ s.state = "running"}}
  BY DEF CH!Cut
<1>3. /\ new \in AskRecord /\ new.stage = "ended" /\ new.heard = asks[c].heard
      /\ new.told = asks[c].told /\ new.alerts = asks[c].alerts
      /\ new.recorded = asks[c].recorded /\ new.sections = asks[c].sections
  <2>1. <<>> \in Seq(CH!Calls)
    OBVIOUS
  <2>2. asks[c] \in AskRecord
    BY CallsOf
  <2>3. "ended" \in CH!Stages
    BY DEF CH!Stages, CH!Ended
  <2>. QED  BY <2>1, <2>2, <2>3 DEF AskRecord
<1> HIDE DEF new
<1>4. \A r \in running : /\ left(r) \in CallRecord /\ left(r).by = r.by
                         /\ left(r).state = r.state
  BY CallsOf DEF CallRecord
<1> HIDE DEF left
<1>5. running' \subseteq CallRecord
  BY <1>2, <1>4, CallsOf
<1>6. \A r \in running' : IF r.by = c THEN CallIsSound(r, new) ELSE r \in running
  <2> SUFFICES ASSUME NEW r \in running', r \notin running \/ r.by = c
               PROVE  r.by = c /\ CallIsSound(r, new)
    OBVIOUS
  <2>1. r.by = c /\ r.state = "running"
    BY <1>2, <1>4
  <2>2. new.stage \notin Early
    BY <1>3 DEF Early
  <2>. QED  BY <2>1, <2>2 DEF CallIsSound
<1>. QED  BY <1>1, <1>3, <1>5, <1>6, QuietMove

\* A call ends as `state`: what is left of it is the same asker's.
LEMMA LeftIsSound ==
    ASSUME ChatInv, NEW r \in running, NEW state \in {"done", "failed"},
           NEW found \in FoundRecord, NEW new \in AskRecord,
           new.stage = asks[r.by].stage, asks[r.by].recorded \subseteq new.recorded,
           state = "done" => CH!Items(found) \subseteq new.recorded
    PROVE  /\ (running \ {r}) \cup CH!Left(r, state, found) \subseteq CallRecord
           /\ \A x \in (running \ {r}) \cup CH!Left(r, state, found) :
                IF x.by = r.by THEN CallIsSound(x, new) ELSE x \in running
<1> DEFINE end == [r EXCEPT !.state = state, !.found = found]
<1>1. /\ end \in CallRecord /\ end.by = r.by /\ end.state = state /\ end.found = found
  BY CallsOf DEF CallRecord
<1>2. CH!Left(r, state, found) \subseteq {end}
  BY DEF CH!Left
<1> HIDE DEF end
<1>3. \A x \in running : CallIsSound(x, asks[x.by])
  BY DEF ChatInv
<1>4. CallIsSound(end, new)
  BY <1>1, <1>3 DEF CallIsSound
<1>5. \A x \in running : x.by = r.by => CallIsSound(x, new)
  BY <1>3 DEF CallIsSound
<1>6. running \subseteq CallRecord
  BY DEF ChatInv
<1>. QED  BY <1>1, <1>2, <1>4, <1>5, <1>6

LEMMA QueryKeeps ==
    ASSUME ChatInv, NEW r \in running, CH!Query(r)
    PROVE  ChatInv'
<1> DEFINE c == r.by
<1>1. PICK found \in CH!Found(r.call) :
        /\ running' = (running \ {r}) \cup CH!Left(r, "done", found)
        /\ asks' = [asks EXCEPT ![r.by].recorded = @ \cup CH!Items(found)]
  BY DEF CH!Query
<1> DEFINE recorded == asks[c].recorded \cup CH!Items(found)
           new == [asks[c] EXCEPT !.recorded = recorded]
<1>2. found \in FoundRecord
  BY ReadsAreTyped
<1>3. c \in CH!Askers /\ asks[c] \in AskRecord /\ asks \in [CH!Askers -> AskRecord]
  BY CallsOf DEF ChatInv
<1>4. recorded \in SUBSET (Sections \cup Alerts)
  <2>1. asks[c].recorded \subseteq Sections \cup Alerts
    BY <1>3 DEF AskRecord
  <2>2. found.sections \in Seq(Sections) /\ found.alerts \subseteq Alerts
    BY <1>2 DEF FoundRecord
  <2>3. CH!Members(found.sections) \subseteq Sections
    BY <2>2, NumberedFacts
  <2>. QED  BY <2>1, <2>2, <2>3 DEF CH!Items
<1>5. asks' = [asks EXCEPT ![c] = new] /\ UNCHANGED <<enabled, kind>>
  BY <1>1, <1>3 DEF CH!Query
<1>6. asks[c].recorded \subseteq recorded /\ CH!Items(found) \subseteq recorded
  OBVIOUS
<1> HIDE DEF recorded
<1>7. /\ new \in AskRecord /\ new.stage = asks[c].stage /\ new.heard = asks[c].heard
      /\ new.told = asks[c].told /\ new.alerts = asks[c].alerts
      /\ new.recorded = recorded /\ new.sections = asks[c].sections
  BY <1>3, <1>4 DEF AskRecord
<1> HIDE DEF new
<1>8. /\ running' \subseteq CallRecord
      /\ \A x \in running' : IF x.by = c THEN CallIsSound(x, new) ELSE x \in running
  BY <1>1, <1>2, <1>6, <1>7, LeftIsSound
<1> HIDE DEF c
<1>. QED  BY <1>3, <1>5, <1>6, <1>7, <1>8, QuietMove

LEMMA QueryFailsKeeps ==
    ASSUME ChatInv, NEW r \in running, CH!QueryFails(r)
    PROVE  ChatInv'
<1> DEFINE c == r.by
           new == asks[c]
<1>1. /\ running' = (running \ {r}) \cup CH!Left(r, "failed", CH!Nothing)
      /\ UNCHANGED <<enabled, kind, asks>>
  BY DEF CH!QueryFails
<1>2. c \in CH!Askers /\ new \in AskRecord /\ asks \in [CH!Askers -> AskRecord]
  BY CallsOf DEF ChatInv
<1>3. /\ running' \subseteq CallRecord
      /\ \A x \in running' : IF x.by = c THEN CallIsSound(x, new) ELSE x \in running
  BY <1>1, <1>2, ReadsAreTyped, LeftIsSound
<1>4. asks' = [asks EXCEPT ![c] = new]
  BY <1>1, <1>2
<1>. QED  BY <1>1, <1>2, <1>3, <1>4, QuietMove

\* The awaiting side goes on.
LEMMA ResumeFacts ==
    ASSUME NEW ask \in AskRecord
    PROVE  LET new == CH!Resume(ask)
           IN  /\ new \in AskRecord /\ new.heard = ask.heard
               /\ new.told = ask.told /\ new.alerts = ask.alerts
               /\ new.recorded = ask.recorded /\ new.sections = ask.sections
               /\ \/ new.stage = ask.stage
                  \/ ask.stage = "waiting" /\ new.stage = "calling"
  BY DEF CH!Resume, AskRecord, CH!Stages, CH!Answering

LEMMA DeadlineKeeps ==
    ASSUME ChatInv, NEW r \in running, CH!Deadline(r)
    PROVE  ChatInv'
<1> DEFINE c == r.by
           new == CH!Resume(asks[c])
           left == [r EXCEPT !.awaited = FALSE]
<1>1. c \in CH!Askers /\ asks[c] \in AskRecord /\ asks \in [CH!Askers -> AskRecord]
  BY CallsOf DEF ChatInv
<1>2. /\ r.state = "running" /\ asks' = [asks EXCEPT ![c] = new]
      /\ running' = (running \ {r}) \cup {left} /\ UNCHANGED <<enabled, kind>>
  BY DEF CH!Deadline
<1>3. /\ new \in AskRecord /\ new.heard = asks[c].heard
      /\ new.told = asks[c].told /\ new.alerts = asks[c].alerts
      /\ new.recorded = asks[c].recorded /\ new.sections = asks[c].sections
      /\ \/ new.stage = asks[c].stage
         \/ asks[c].stage = "waiting" /\ new.stage = "calling"
  BY <1>1, ResumeFacts
<1> HIDE DEF new
<1>4. left \in CallRecord /\ left.by = c /\ left.state = "running"
  BY <1>2, CallsOf DEF CallRecord
<1> HIDE DEF left
<1>5. asks[c].stage \notin Early /\ new.stage \notin Early
  BY <1>3 DEF ChatInv, CallIsSound, Early
<1>6. CallIsSound(left, new)
  BY <1>4, <1>5 DEF CallIsSound
<1>7. \A x \in running : x.by = c => CallIsSound(x, new)
  BY <1>3, <1>5 DEF ChatInv, CallIsSound
<1>8. /\ running' \subseteq CallRecord
      /\ \A x \in running' : IF x.by = c THEN CallIsSound(x, new) ELSE x \in running
  BY <1>2, <1>4, <1>6, <1>7, CallsOf
<1>9. \/ new.stage = asks[c].stage
      \/ asks[c].stage \in CH!Answering /\ new.stage \in CH!Answering
  BY <1>3 DEF CH!Answering
<1> HIDE DEF c
<1>. QED  BY <1>1, <1>2, <1>3, <1>8, <1>9, QuietMove

LEMMA TakeErrorKeeps ==
    ASSUME ChatInv, NEW r \in running, CH!TakeError(r)
    PROVE  ChatInv'
<1> DEFINE c == r.by
           stage == IF asks[c].stage = "waiting" THEN "failed" ELSE asks[c].stage
           new == [asks[c] EXCEPT !.stage = stage, !.todo = <<>>]
<1>1. c \in CH!Askers /\ asks[c] \in AskRecord /\ asks \in [CH!Askers -> AskRecord]
  BY CallsOf DEF ChatInv
<1>2. /\ asks' = [asks EXCEPT ![c] = new] /\ running' = running \ {r}
      /\ UNCHANGED <<enabled, kind>>
  BY <1>1 DEF CH!TakeError
<1>3. /\ stage \in CH!Stages
      /\ \/ stage = asks[c].stage
         \/ asks[c].stage = "waiting" /\ stage = "failed"
  BY <1>1 DEF AskRecord, CH!Stages, CH!Ended
<1> HIDE DEF stage
<1>4. /\ new \in AskRecord /\ new.stage = stage /\ new.heard = asks[c].heard
      /\ new.told = asks[c].told /\ new.alerts = asks[c].alerts
      /\ new.recorded = asks[c].recorded /\ new.sections = asks[c].sections
  <2>1. <<>> \in Seq(CH!Calls)
    OBVIOUS
  <2>. QED  BY <1>1, <1>3, <2>1 DEF AskRecord
<1> HIDE DEF new
<1>5. asks[c].stage \notin Early /\ new.stage \notin Early
  BY <1>3, <1>4 DEF ChatInv, CallIsSound, Early
<1>6. /\ running' \subseteq CallRecord
      /\ \A x \in running' : IF x.by = c THEN CallIsSound(x, new) ELSE x \in running
  BY <1>2, <1>4, <1>5, CallsOf DEF ChatInv, CallIsSound
<1>7. \/ new.stage = asks[c].stage
      \/ asks[c].stage \in CH!Answering /\ new.stage \in CH!Answering \cup {"failed", "ended"}
  BY <1>3, <1>4 DEF CH!Answering
<1> HIDE DEF c
<1>. QED  BY <1>1, <1>2, <1>4, <1>6, <1>7, QuietMove

\* Numbers read are the list's: the earlier ones are as they were, and the new
\* ones are of this search.
LEMMA ReadsAreNumbered ==
    ASSUME NEW list \in Seq(Sections), NEW found \in Seq(Sections),
           NEW longer, Extends(longer, list, found)
    PROVE  CH!Numbered(list)
             \cup {<<n, longer[n]>> : n \in {m \in DOMAIN longer : longer[m] \in CH!Members(found)}}
              = CH!Numbered(longer)
<1>1. /\ longer \in Seq(Sections) /\ Len(list) \in Nat /\ Len(longer) \in Nat
      /\ Len(list) <= Len(longer)
      /\ DOMAIN list = 1..Len(list) /\ DOMAIN longer = 1..Len(longer)
      /\ \A n \in DOMAIN list : longer[n] = list[n]
      /\ \A n \in DOMAIN longer : n \notin DOMAIN list => longer[n] \in CH!Members(found)
  <2>1. longer \in Seq(Sections) /\ Len(list) <= Len(longer)
    BY DEF Extends
  <2>2. /\ Len(list) \in Nat /\ Len(longer) \in Nat
        /\ DOMAIN list = 1..Len(list) /\ DOMAIN longer = 1..Len(longer)
    BY <2>1
  <2>3. \A n \in DOMAIN list : longer[n] = list[n]
    BY <2>2, Zenon DEF Extends
  <2>4. ASSUME NEW n \in DOMAIN longer, n \notin DOMAIN list
        PROVE  longer[n] \in CH!Members(found)
    <3>1. n \in 1..Len(longer) /\ n > Len(list)
      BY <2>2, <2>4
    <3>. QED  BY <3>1 DEF Extends
  <2>. QED  BY <2>1, <2>2, <2>3, <2>4
<1>2. DOMAIN list \subseteq DOMAIN longer
  BY <1>1
<1> DEFINE read == {<<n, longer[n]>> :
                      n \in {m \in DOMAIN longer : longer[m] \in CH!Members(found)}}
<1>3. \A n \in DOMAIN list : <<n, list[n]>> \in CH!Numbered(longer)
  BY <1>1, <1>2 DEF CH!Numbered
<1>4. read \subseteq CH!Numbered(longer)
  BY DEF CH!Numbered
<1>5. \A n \in DOMAIN longer : <<n, longer[n]>> \in CH!Numbered(list) \cup read
  <2> SUFFICES ASSUME NEW n \in DOMAIN longer
               PROVE  <<n, longer[n]>> \in CH!Numbered(list) \cup read
    OBVIOUS
  <2>1. CASE n \in DOMAIN list
    <3>1. <<n, longer[n]>> = <<n, list[n]>>
      BY <1>1, <2>1
    <3>. QED  BY <2>1, <3>1 DEF CH!Numbered
  <2>2. CASE n \notin DOMAIN list
    BY <1>1, <2>2
  <2>. QED  BY <2>1, <2>2
<1> HIDE DEF read
<1>6. CH!Numbered(list) \cup read \subseteq CH!Numbered(longer)
  BY <1>3, <1>4 DEF CH!Numbered
<1>7. CH!Numbered(longer) \subseteq CH!Numbered(list) \cup read
  BY <1>5 DEF CH!Numbered
<1>8. CH!Numbered(list) \cup read = CH!Numbered(longer)
  BY <1>6, <1>7
<1>. QED  BY <1>8 DEF read

LEMMA TakeResultKeeps ==
    ASSUME ChatInv, NEW r \in running, CH!TakeResult(r)
    PROVE  ChatInv'
<1> DEFINE c == r.by
           ask == asks[c]
           found == r.found.sections
           list == CH!Merged(ask.sections, found)
           read == {<<n, list[n]>> :
                      n \in {m \in DOMAIN list : list[m] \in CH!Members(found)}}
           told == ask.told \cup read
           alerts == ask.alerts \cup r.found.alerts
           taken == [ask EXCEPT !.sections = list, !.told = told, !.alerts = alerts]
           new == CH!Resume(taken)
<1>1. c \in CH!Askers /\ ask \in AskRecord /\ asks \in [CH!Askers -> AskRecord]
  BY CallsOf DEF ChatInv
<1>2. /\ r.state = "done" /\ asks' = [asks EXCEPT ![c] = new] /\ running' = running \ {r}
      /\ UNCHANGED <<enabled, kind>>
  BY DEF CH!TakeResult
<1>3. /\ r.found \in FoundRecord /\ found \in Seq(Sections) /\ r.found.alerts \subseteq Alerts
  BY CallsOf DEF CallRecord, FoundRecord
<1>4. ask.sections \in Seq(Sections) /\ ask.alerts \subseteq Alerts
  BY <1>1 DEF AskRecord
<1>5. list \in Seq(Sections) /\ Extends(list, ask.sections, found)
  BY <1>3, <1>4, MergedExtends DEF Extends
<1>6. AskIsSound(ask) /\ CallIsSound(r, ask)
  BY <1>1 DEF ChatInv
<1> HIDE DEF list
\* What it has been told.
<1>7. told = CH!Numbered(list)
  <2>1. ask.told = CH!Numbered(ask.sections)
    BY <1>6 DEF AskIsSound
  <2>. QED  BY <1>3, <1>4, <1>5, <2>1, ReadsAreNumbered
<1>8. told \in SUBSET (Nat \X Sections)
  BY <1>5, <1>7, NumberedFacts
<1>9. {p[2] : p \in told} \cup alerts \subseteq ask.recorded
  <2>1. {p[2] : p \in ask.told} \cup ask.alerts \subseteq ask.recorded
    BY <1>6 DEF AskIsSound
  <2>2. CH!Members(found) \subseteq ask.recorded /\ r.found.alerts \subseteq ask.recorded
    BY <1>2, <1>6 DEF CallIsSound, CH!Items
  <2>3. \A p \in read : p[2] \in CH!Members(found)
    OBVIOUS
  <2> HIDE DEF read
  <2>. QED  BY <2>1, <2>2, <2>3
<1>10. alerts \in SUBSET Alerts
  BY <1>3, <1>4
<1> HIDE DEF read, told, alerts
<1>11. /\ taken \in AskRecord /\ taken.stage = ask.stage /\ taken.heard = ask.heard
       /\ taken.told = told /\ taken.alerts = alerts
       /\ taken.recorded = ask.recorded /\ taken.sections = list
  BY <1>1, <1>5, <1>8, <1>10 DEF AskRecord
<1> HIDE DEF taken
<1>12. /\ new \in AskRecord /\ new.heard = ask.heard
       /\ new.told = told /\ new.alerts = alerts
       /\ new.recorded = ask.recorded /\ new.sections = list
       /\ \/ new.stage = ask.stage
          \/ ask.stage = "waiting" /\ new.stage = "calling"
  BY <1>11, ResumeFacts
<1> HIDE DEF new
<1>13. AskIsSound(new)
  BY <1>6, <1>7, <1>9, <1>12 DEF AskIsSound
<1>14. ask.stage \notin Early /\ new.stage \notin Early
  BY <1>6, <1>12 DEF CallIsSound, Early
<1>15. /\ running' \subseteq CallRecord
       /\ \A x \in running' : IF x.by = c THEN CallIsSound(x, new) ELSE x \in running
  BY <1>2, <1>12, <1>14, CallsOf DEF ChatInv, CallIsSound
<1> HIDE DEF c
<1>. QED  BY <1>1, <1>2, <1>12, <1>13, <1>15, AskerMoves

LEMMA ChatStep == ChatInv /\ [CH!Next]_(CH!vars) => ChatInv'
<1> SUFFICES ASSUME ChatInv, [CH!Next]_(CH!vars)
             PROVE  ChatInv'
  OBVIOUS
<1>1. CASE CH!Revoke
  <2>1. UNCHANGED <<enabled, kind, asks, running>>
    BY <1>1 DEF CH!Revoke
  <2>. QED  BY <2>1 DEF ChatInv, AskIsSound, CH!Askers, CallRecord
<1>2. CASE UNCHANGED CH!vars
  <2>1. UNCHANGED <<enabled, kind, asks, running>>
    BY <1>2 DEF CH!vars
  <2>. QED  BY <2>1 DEF ChatInv, AskIsSound, CH!Askers, CallRecord
<1>3. ASSUME NEW c \in CH!Askers,
             \/ CH!Ask(c) \/ CH!CheckSwitch(c) \/ CH!ReadContext(c) \/ CH!RecordAsked(c)
             \/ CH!RequestFails(c) \/ CH!ModelAnswers(c) \/ CH!ModelFails(c)
             \/ CH!NextCall(c) \/ CH!NextRound(c) \/ CH!Cut(c) \/ CH!McpCall(c)
      PROVE  ChatInv'
  BY <1>3, AskKeeps, CheckSwitchKeeps, ReadContextKeeps, RecordAskedKeeps,
     RequestFailsKeeps, ModelAnswersKeeps, ModelFailsKeeps, NextCallKeeps,
     NextRoundKeeps, CutKeeps, McpCallKeeps
<1>4. ASSUME NEW r \in running,
             \/ CH!Query(r) \/ CH!QueryFails(r) \/ CH!TakeResult(r)
             \/ CH!TakeError(r) \/ CH!Deadline(r)
      PROVE  ChatInv'
  BY <1>4, QueryKeeps, QueryFailsKeeps, TakeResultKeeps, TakeErrorKeeps, DeadlineKeeps
<1>. QED  BY <1>1, <1>2, <1>3, <1>4, TurnKeeps DEF CH!Next

LEMMA ChatInvariant == Spec => []ChatInv
<1>1. Init => ChatInv
  BY ChatInit DEF Init
<1>2. ChatInv /\ [Next]_vars => ChatInv'
  <2>1. [Next]_vars => [CH!Next]_(CH!vars)
    BY DEF Next, vars, Chat, RateLimit, ProviderKeys, SessionLife, Erasure,
           Serving, Migrations, ModelStream, EventParser, EvalGate, Only,
           chatVars, CH!vars
  <2>. QED  BY <2>1, ChatStep
<1>. QED  BY <1>1, <1>2, PTL DEF Spec

-----------------------------------------------------------------------------
\* The check of the switch, before anything else, decides every question for
\* which the switch stood still from its arrival to that check, whoever turns
\* it and however many questions there are (app/switch.py, routes/chat.py).
THEOREM SwitchDecides == Spec => []SwitchIsObeyed
<1>1. ChatInv => SwitchIsObeyed
  BY DEF ChatInv, AskIsSound, SwitchIsObeyed, CH!SwitchIsObeyed
<1>. QED  BY <1>1, ChatInvariant, PTL

\* No model reads a section or an alert that no committed event names, for any
\* tools, rounds and clients (app/tools.py).
THEOREM NothingUnrecorded == Spec => []ToldIsRecorded
<1>1. ChatInv => ToldIsRecorded
  BY DEF ChatInv, AskIsSound, ToldIsRecorded, CH!ToldIsRecorded
<1>. QED  BY <1>1, ChatInvariant, PTL

\* Citations are checked against what was read, number for number, for lists of
\* any length and overlapping calls (app/tools.py).
THEOREM SectionsKeepTheirNumbers == Spec => []NumbersAreStable
<1>1. ChatInv => NumbersAreStable
  BY DEF ChatInv, AskIsSound, NumbersAreStable, CH!NumbersAreStable
<1>. QED  BY <1>1, ChatInvariant, PTL

-----------------------------------------------------------------------------
(* Sets of numbers in order (Ordered), which ModelStream and EventParser   *)
(* keep their tables and records by.                                       *)

\* The copies the instances hold are the module's own.
LEMMA OneOrder ==
    /\ \A S : MS!InOrder(S) = InOrder(S) /\ EP!InOrder(S) = InOrder(S)
    /\ \A S : MS!Cardinality(S) = Cardinality(S) /\ EP!Cardinality(S) = Cardinality(S)
BY DEF MS!InOrder, EP!InOrder, InOrder, MS!Rank, EP!Rank, Rank,
       MS!Cardinality, EP!Cardinality, Cardinality

\* What is above another element ranks higher.
LEMMA RanksGrow ==
    ASSUME NEW S \in SUBSET Nat, IsFiniteSet(S)
    PROVE  /\ \A x \in S : Rank(S, x) \in 1..Cardinality(S)
           /\ \A x, y \in S : x < y => Rank(S, x) < Rank(S, y)
<1> DEFINE upTo(x) == {z \in S : z <= x}
<1>1. ASSUME NEW x \in S
      PROVE  /\ IsFiniteSet(upTo(x)) /\ Cardinality(upTo(x)) \in Nat \ {0}
             /\ Cardinality(upTo(x)) <= Cardinality(S)
  <2>1. IsFiniteSet(upTo(x)) /\ Cardinality(upTo(x)) <= Cardinality(S)
    BY FS_Subset
  <2>2. x \in upTo(x)
    OBVIOUS
  <2> HIDE DEF upTo
  <2>. QED  BY <2>1, <2>2, FS_CardinalityType, FS_EmptySet
<1>2. ASSUME NEW x \in S, NEW y \in S, x < y
      PROVE  Cardinality(upTo(x)) < Cardinality(upTo(y))
  <2>0. x \in Nat /\ y \in Nat /\ S \subseteq Nat
    OBVIOUS
  <2>1. upTo(x) \in SUBSET upTo(y) /\ y \in upTo(y) /\ y \notin upTo(x)
    <3>1. y \in upTo(y) /\ y \notin upTo(x)
      BY <1>2, <2>0
    <3>2. ASSUME NEW z \in S, z <= x  PROVE z <= y
      BY <1>2, <2>0, <3>2
    <3>. QED  BY <3>1, <3>2
  <2> HIDE DEF upTo
  <2>2. /\ Cardinality(upTo(x)) <= Cardinality(upTo(y))
        /\ Cardinality(upTo(x)) # Cardinality(upTo(y))
    BY <1>1, <2>1, FS_Subset
  <2>. QED  BY <1>1, <2>2
<1> HIDE DEF upTo
<1>3. \A x : Rank(S, x) = Cardinality(upTo(x))
  BY DEF Rank, upTo
<1>4. Cardinality(S) \in Nat
  BY FS_CardinalityType
<1>. QED  BY <1>1, <1>2, <1>3, <1>4

\* Every place is somebody's.
LEMMA EveryRankIsTaken ==
    ASSUME NEW S \in SUBSET Nat, IsFiniteSet(S), NEW k \in 1..Cardinality(S)
    PROVE  \E x \in S : Rank(S, x) = k
<1> DEFINE rank == [x \in S |-> Rank(S, x)]
           n == Cardinality(S)
<1>1. n \in Nat
  BY FS_CardinalityType
<1>2. IsFiniteSet(1..n) /\ Cardinality(1..n) = n
  BY <1>1, FS_Interval
<1>3. rank \in [S -> 1..n]
  BY RanksGrow
<1>4. \A x, y \in S : rank[x] = rank[y] => x = y
  <2> SUFFICES ASSUME NEW x \in S, NEW y \in S, x # y  PROVE rank[x] # rank[y]
    OBVIOUS
  <2>1. x < y \/ y < x
    OBVIOUS
  <2>2. Rank(S, x) \in Nat /\ Rank(S, y) \in Nat
    BY RanksGrow
  <2>. QED  BY <2>1, <2>2, RanksGrow
<1> HIDE DEF rank, n
<1>5. rank \in Injection(S, 1..n)
  BY <1>3, <1>4 DEF Injection, IsInjective
<1>6. rank \in Surjection(S, 1..n)
  BY <1>2, <1>5, FS_Injection DEF n
<1>7. \E x \in S : rank[x] = k
  BY <1>6 DEF Surjection, n
<1>. QED  BY <1>7 DEF rank

LEMMA InOrderIsSorted ==
    ASSUME NEW S \in SUBSET Nat, IsFiniteSet(S)
    PROVE  LET order == InOrder(S)
           IN  /\ order \in [1..Cardinality(S) -> S]
               /\ \A x \in S : \E k \in DOMAIN order : order[k] = x
               /\ \A j, k \in DOMAIN order : j < k => order[j] < order[k]
<1> DEFINE order == InOrder(S)
<1>1. \A k \in 1..Cardinality(S) : order[k] \in S /\ Rank(S, order[k]) = k
  <2> SUFFICES ASSUME NEW k \in 1..Cardinality(S)
               PROVE  order[k] \in S /\ Rank(S, order[k]) = k
    OBVIOUS
  <2> DEFINE these == {y \in S : Rank(S, y) = k}
  <2>1. order[k] = CHOOSE x \in these : TRUE
    BY DEF InOrder
  <2>2. these # {}
    BY EveryRankIsTaken
  <2>. QED  BY <2>1, <2>2
<1>2. order = [k \in 1..Cardinality(S) |-> order[k]]
  BY DEF InOrder
<1> HIDE DEF order
<1>. \A x, y \in S : x < y => Rank(S, x) < Rank(S, y)
  BY RanksGrow
<1>3. \A x \in S : order[Rank(S, x)] = x
  <2> SUFFICES ASSUME NEW x \in S  PROVE order[Rank(S, x)] = x
    OBVIOUS
  <2> DEFINE y == order[Rank(S, x)]
  <2>1. Rank(S, x) \in 1..Cardinality(S)
    BY RanksGrow
  <2>2. y \in S /\ Rank(S, y) = Rank(S, x)
    BY <1>1, <2>1
  <2> HIDE DEF y
  <2>3. x < y \/ y < x \/ x = y
    BY <2>2
  <2>4. Rank(S, x) \in Nat
    BY <2>1
  <2>5. x = y
    BY <2>2, <2>3, <2>4
  <2>. QED  BY <2>5 DEF y
<1>4. \A j, k \in 1..Cardinality(S) : j < k => order[j] < order[k]
  <2> SUFFICES ASSUME NEW j \in 1..Cardinality(S), NEW k \in 1..Cardinality(S), j < k
               PROVE  order[j] < order[k]
    OBVIOUS
  <2>1. order[j] \in S /\ order[k] \in S /\ Rank(S, order[j]) = j /\ Rank(S, order[k]) = k
    BY <1>1
  <2>2. order[j] < order[k] \/ order[k] < order[j] \/ order[j] = order[k]
    <3>1. order[j] \in Nat /\ order[k] \in Nat
      BY <2>1
    <3> DEFINE a == order[j]
               b == order[k]
    <3> HIDE DEF a, b
    <3>2. a \in Nat /\ b \in Nat => a < b \/ b < a \/ a = b
      OBVIOUS
    <3>. QED  BY <3>1, <3>2 DEF a, b
  <2>3. ~(order[k] < order[j]) /\ order[j] # order[k]
    <3>1. order[k] < order[j] => Rank(S, order[k]) < Rank(S, order[j])
      BY <2>1
    <3>. QED  BY <2>1, <3>1
  <2>. QED  BY <2>2, <2>3
<1>5. DOMAIN order = 1..Cardinality(S) /\ order \in [1..Cardinality(S) -> S]
  BY <1>1, <1>2
<1>6. \A x \in S : \E k \in DOMAIN order : order[k] = x
  BY <1>3, <1>5, RanksGrow
<1>. QED  BY <1>4, <1>5, <1>6 DEF order

\* What is above all the rest comes after it.
LEMMA InOrderOfPart ==
    ASSUME NEW U \in SUBSET Nat, IsFiniteSet(U), NEW S \in SUBSET U,
           \A x \in S : \A y \in U \ S : x < y
    PROVE  /\ Cardinality(S) <= Cardinality(U)
           /\ \A k \in 1..Cardinality(S) : InOrder(U)[k] = InOrder(S)[k]
<1>1. /\ IsFiniteSet(S) /\ Cardinality(S) <= Cardinality(U)
      /\ Cardinality(S) \in Nat /\ Cardinality(U) \in Nat
  BY FS_Subset, FS_CardinalityType
<1>2. ASSUME NEW k \in 1..Cardinality(S)
      PROVE  {y \in U : Rank(U, y) = k} = {y \in S : Rank(S, y) = k}
  <2>1. ASSUME NEW y \in S  PROVE Rank(U, y) = Rank(S, y)
    <3>1. \A z \in U \ S : ~(z <= y)
      OBVIOUS
    <3>2. {z \in U : z <= y} = {z \in S : z <= y}
      BY <3>1
    <3>. QED  BY <3>2 DEF Rank
  <2>2. ASSUME NEW y \in U \ S  PROVE Rank(U, y) > Cardinality(S)
    <3> DEFINE upTo == {z \in U : z <= y}
    <3>1. S \in SUBSET upTo /\ y \in upTo /\ y \notin S
      OBVIOUS
    <3>2. IsFiniteSet(upTo)
      BY FS_Subset
    <3> HIDE DEF upTo
    <3>3. Cardinality(S) <= Cardinality(upTo) /\ Cardinality(S) # Cardinality(upTo)
      BY <3>1, <3>2, FS_Subset
    <3>4. Cardinality(upTo) \in Nat
      BY <3>2, FS_CardinalityType
    <3>5. Rank(U, y) = Cardinality(upTo)
      BY DEF Rank, upTo
    <3>. QED  BY <1>1, <3>3, <3>4, <3>5
  <2>3. ASSUME NEW y \in U, Rank(U, y) = k
        PROVE  y \in S /\ Rank(S, y) = k
    BY <1>1, <2>1, <2>2, <2>3
  <2>4. ASSUME NEW y \in S, Rank(S, y) = k
        PROVE  y \in U /\ Rank(U, y) = k
    BY <2>1, <2>4
  <2>. QED  BY <2>3, <2>4
<1>3. \A k \in 1..Cardinality(S) : k \in 1..Cardinality(U)
  BY <1>1
<1>4. ASSUME NEW k \in 1..Cardinality(S)
      PROVE  InOrder(U)[k] = InOrder(S)[k]
  <2>1. {y \in U : Rank(U, y) = k} = {y \in S : Rank(S, y) = k}
    BY <1>2
  <2>2. InOrder(U)[k] = CHOOSE x \in {y \in U : Rank(U, y) = k} : TRUE
    BY <1>3, Zenon DEF InOrder
  <2>3. InOrder(S)[k] = CHOOSE x \in {y \in S : Rank(S, y) = k} : TRUE
    BY Zenon DEF InOrder
  <2>. QED  BY <2>1, <2>2, <2>3
<1>. QED  BY <1>1, <1>4

\* A new greatest element comes last.
LEMMA InOrderOfOneMore ==
    ASSUME NEW S \in SUBSET Nat, IsFiniteSet(S), NEW e \in Nat, \A x \in S : x < e
    PROVE  /\ Cardinality(S \cup {e}) = Cardinality(S) + 1
           /\ \A k \in 1..Cardinality(S) : InOrder(S \cup {e})[k] = InOrder(S)[k]
           /\ InOrder(S \cup {e})[Cardinality(S) + 1] = e
<1> DEFINE U == S \cup {e}
           n == Cardinality(S)
<1>1. IsFiniteSet(U) /\ Cardinality(U) = n + 1 /\ n \in Nat
  <2>1. e \notin S
    OBVIOUS
  <2>. QED  BY <2>1, FS_AddElement, FS_CardinalityType
<1>2. U \in SUBSET Nat /\ S \in SUBSET U
  OBVIOUS
<1>3. \A x \in S : \A y \in U \ S : x < y
  OBVIOUS
<1>4. \A k \in 1..n : InOrder(U)[k] = InOrder(S)[k]
  <2> HIDE DEF U, n
  <2>. QED  BY <1>1, <1>2, <1>3, InOrderOfPart DEF n
<1>5. InOrder(U)[n + 1] = e
  <2>1. /\ InOrder(U) \in [1..(n + 1) -> U]
        /\ \E k \in DOMAIN InOrder(U) : InOrder(U)[k] = e
    <3>1. e \in U
      OBVIOUS
    <3> HIDE DEF U, n
    <3>. QED  BY <1>1, <1>2, <3>1, InOrderIsSorted
  <2>2. PICK k \in 1..(n + 1) : InOrder(U)[k] = e
    BY <2>1
  <2>3. CASE k = n + 1
    BY <2>2, <2>3
  <2>4. CASE k # n + 1
    <3>1. k \in 1..n
      BY <1>1, <2>4
    <3>2. InOrder(S)[k] \in S
      <4>1. InOrder(S) \in [1..n -> S]
        BY InOrderIsSorted
      <4>. QED  BY <3>1, <4>1
    <3>. QED  BY <1>4, <2>2, <3>1, <3>2
  <2>. QED  BY <2>3, <2>4
<1> HIDE DEF U, n
<1>. QED  BY <1>1, <1>4, <1>5 DEF U, n

-----------------------------------------------------------------------------
(* EventParser.                                                            *)

\* Where the parser may stand: at the start, or after the end of a line, and
\* never between a CR and its LF.
Boundary(p) ==
    /\ p = 0 \/ EP!IsEnd(wire[p])
    /\ ~(p > 0 /\ p < Len(wire) /\ wire[p] = "CR" /\ wire[p + 1] = "LF")

ShownUpTo(m) == {b \in EP!Blanks : b < m /\ EP!FieldsUpTo(b) # {}}

\* What it holds there, n symbols read.
Standing(p, n) ==
    [text |-> SubSeq(wire, p + 1, n),
     data |-> EP!LinesAt(EP!FieldsUpTo(p + 1)),
     events |-> EP!EventsAt(ShownUpTo(p + 1))]

LEMMA SubSeqWithin ==
    ASSUME NEW S, NEW s \in Seq(S), NEW a \in Nat \ {0}, NEW n \in Nat, n <= Len(s),
           NEW m \in Nat \ {0}, NEW k \in Nat, k <= n - a + 1
    PROVE  SubSeq(SubSeq(s, a, n), m, k) = SubSeq(s, a + m - 1, a + k - 1)
<1>1. CASE k < m
  <2>1. a + k - 1 < a + m - 1 /\ a + k - 1 \in Int /\ a + m - 1 \in Int
    BY <1>1
  <2>. QED  BY <1>1, <2>1, SubSeqEmpty
<1>2. CASE m <= k
  <2>1. /\ a \in 1..Len(s) /\ n \in 1..Len(s)
        /\ m \in 1..(n - a + 1) /\ k \in 1..(n - a + 1)
    BY <1>2, LenProperties
  <2>. QED  BY <2>1, SubSeqOfSubSeq
<1>. QED  BY <1>1, <1>2

\* The first end of a line after p, and q, where the parser stands after it.
LEMMA EndOfLine ==
    ASSUME wire \in Seq(EP!Symbols), NEW n \in 0..Len(wire),
           NEW p \in 0..n, Boundary(p),
           NEW e \in (p + 1)..n, EP!IsEnd(wire[e]),
           \A k \in (p + 1)..(e - 1) : ~EP!IsEnd(wire[k]),
           NEW q,
           \/ q = e + 1 /\ e < n /\ wire[e] = "CR" /\ wire[e + 1] = "LF"
           \/ q = e /\ ~(e < Len(wire) /\ wire[e] = "CR" /\ wire[e + 1] = "LF")
    PROVE  /\ q \in (p + 1)..n /\ Boundary(q)
           /\ e \in EP!Ends /\ EP!LineAt(e) = SubSeq(wire, p + 1, e - 1)
           /\ \A i \in EP!Ends : /\ i < q + 1 <=> i < p + 1 \/ i = e
                                 /\ i < e <=> i < p + 1
<1>0. Len(wire) \in Nat /\ DOMAIN wire = 1..Len(wire)
  BY LenProperties
<1>1. q \in (p + 1)..n /\ q >= e /\ q <= e + 1 /\ (q = e + 1 => wire[q] = "LF" /\ wire[e] = "CR")
  BY <1>0
<1>2. Boundary(q)
  BY <1>0, <1>1 DEF Boundary, EP!IsEnd
<1>3. e \in EP!Ends
  <2> SUFFICES ASSUME wire[e] = "LF", e > 1, wire[e - 1] = "CR"
               PROVE  FALSE
    BY <1>0 DEF EP!Ends
  <2>1. EP!IsEnd(wire[e - 1])
    BY DEF EP!IsEnd
  <2>2. e - 1 = p
    BY <1>0, <2>1
  <2>. QED  BY <1>0, <2>2 DEF Boundary
<1>4. EP!Start(e) = p + 1
  <2> DEFINE P(j) == /\ (j = 1 \/ EP!IsEnd(wire[j - 1]))
                     /\ \A k \in j..(e - 1) : ~EP!IsEnd(wire[k])
  <2>1. p + 1 \in 1..e /\ P(p + 1)
    <3>1. p + 1 - 1 = p
      BY <1>0
    <3>. QED  BY <1>0, <3>1 DEF Boundary
  <2>2. ASSUME NEW j \in 1..e, P(j)  PROVE j = p + 1
    <3>1. CASE j < p + 1
      <4>1. p \in j..(e - 1) /\ p # 0
        BY <1>0, <3>1
      <4>. QED  BY <2>2, <4>1 DEF Boundary
    <3>2. CASE j > p + 1
      <4>1. j - 1 \in (p + 1)..(e - 1) /\ j # 1
        BY <1>0, <3>2
      <4>. QED  BY <2>2, <4>1
    <3>. QED  BY <1>0, <3>1, <3>2
  <2>3. EP!Start(e) = CHOOSE j \in 1..e : P(j)
    BY Zenon DEF EP!Start
  <2> HIDE DEF P
  <2>. QED  BY <2>1, <2>2, <2>3
<1>5. ASSUME NEW i \in EP!Ends
      PROVE  /\ i < q + 1 <=> i < p + 1 \/ i = e
             /\ i < e <=> i < p + 1
  <2>1. i \in 1..Len(wire) /\ EP!IsEnd(wire[i])
    BY <1>0 DEF EP!Ends
  <2>2. ~(i > p /\ i < e)
    BY <1>0, <2>1
  <2>3. q = e + 1 => i # q
    <3> SUFFICES ASSUME q = e + 1, i = q  PROVE FALSE
      OBVIOUS
    <3>1. wire[i] = "LF" /\ i > 1 /\ wire[i - 1] = "CR"
      BY <1>0, <1>1
    <3>. QED  BY <3>1 DEF EP!Ends
  <2>. QED  BY <1>0, <1>1, <2>1, <2>2, <2>3
<1>. QED  BY <1>1, <1>2, <1>3, <1>4, <1>5 DEF EP!LineAt

\* What becomes of the fields and the events at the line that ends at e.
LEMMA LineCounts ==
    ASSUME NEW p \in Nat, NEW q \in Nat, NEW e \in EP!Ends, EP!Ends \in SUBSET Nat,
           \A i \in EP!Ends : /\ i < q + 1 <=> i < p + 1 \/ i = e
                              /\ i < e <=> i < p + 1
    PROVE  /\ e \in EP!Blanks =>
                /\ EP!FieldsUpTo(q + 1) = {}
                /\ EP!FieldsUpTo(e) = EP!FieldsUpTo(p + 1)
                /\ ShownUpTo(q + 1) = ShownUpTo(p + 1) \cup
                        (IF EP!FieldsUpTo(p + 1) = {} THEN {} ELSE {e})
           /\ e \notin EP!Blanks =>
                /\ ShownUpTo(q + 1) = ShownUpTo(p + 1)
                /\ EP!FieldsUpTo(q + 1) = EP!FieldsUpTo(p + 1) \cup
                        (IF EP!LineAt(e)[1] = "note" THEN {} ELSE {e})
<1>0. EP!Blanks \in SUBSET EP!Ends
  BY DEF EP!Blanks
<1>1. ASSUME e \in EP!Blanks
      PROVE  /\ EP!FieldsUpTo(q + 1) = {}
             /\ EP!FieldsUpTo(e) = EP!FieldsUpTo(p + 1)
             /\ ShownUpTo(q + 1) = ShownUpTo(p + 1) \cup
                        (IF EP!FieldsUpTo(p + 1) = {} THEN {} ELSE {e})
  <2>1. EP!FieldsUpTo(q + 1) = {}
    <3> SUFFICES ASSUME NEW i \in EP!FieldsUpTo(q + 1)  PROVE FALSE
      OBVIOUS
    <3>1. i \in EP!Ends /\ i < q + 1 /\ e < i
      BY <1>1 DEF EP!FieldsUpTo
    <3>2. i \in Nat /\ e \in Nat
      BY <3>1
    <3>. QED  BY <3>1, <3>2
  <2>2. EP!FieldsUpTo(e) = EP!FieldsUpTo(p + 1)
    BY <1>0 DEF EP!FieldsUpTo
  <2>3. ShownUpTo(q + 1) = ShownUpTo(p + 1) \cup
                        (IF EP!FieldsUpTo(p + 1) = {} THEN {} ELSE {e})
    BY <1>0, <1>1, <2>2 DEF ShownUpTo
  <2>. QED  BY <2>1, <2>2, <2>3
<1>2. ASSUME e \notin EP!Blanks
      PROVE  /\ ShownUpTo(q + 1) = ShownUpTo(p + 1)
             /\ EP!FieldsUpTo(q + 1) = EP!FieldsUpTo(p + 1) \cup
                        (IF EP!LineAt(e)[1] = "note" THEN {} ELSE {e})
  <2>1. \A b \in EP!Blanks : b < q + 1 <=> b < p + 1
    BY <1>0, <1>2
  <2>2. ShownUpTo(q + 1) = ShownUpTo(p + 1)
    BY <2>1 DEF ShownUpTo
  <2>3. \A i \in EP!Ends \ EP!Blanks :
          i \in EP!FieldsUpTo(q + 1) <=>
            \/ i \in EP!FieldsUpTo(p + 1)
            \/ i = e /\ EP!LineAt(e)[1] # "note"
    BY <1>0, <1>2, <2>1 DEF EP!FieldsUpTo
  <2>4. \A m : EP!FieldsUpTo(m) \in SUBSET (EP!Ends \ EP!Blanks)
    BY DEF EP!FieldsUpTo
  <2>5. CASE EP!LineAt(e)[1] = "note"
    BY <2>2, <2>3, <2>4, <2>5
  <2>6. CASE EP!LineAt(e)[1] # "note"
    BY <1>2, <2>2, <2>3, <2>4, <2>6
  <2>. QED  BY <2>5, <2>6
<1>. QED  BY <1>1, <1>2

LEMMA OneLonger ==
    ASSUME NEW n \in Nat, NEW A, NEW s \in [1..n -> A], NEW t \in [1..(n + 1) -> A],
           \A k \in 1..n : t[k] = s[k]
    PROVE  t = Append(s, t[n + 1])
OBVIOUS

\* The parser's state, from its fields.
LEMMA StateOf ==
    ASSUME NEW text, NEW fields, NEW shown,
           NEW s \in [text : {text}, data : {fields}, events : {shown}]
    PROVE  s = [text |-> text, data |-> fields, events |-> shown]
OBVIOUS

LEMMA EndsAreFinite ==
    ASSUME wire \in Seq(EP!Symbols)
    PROVE  /\ EP!Ends \in SUBSET Nat /\ IsFiniteSet(EP!Ends)
           /\ \A S \in SUBSET EP!Ends : IsFiniteSet(S) /\ S \in SUBSET Nat
           /\ \A m : /\ EP!FieldsUpTo(m) \in SUBSET EP!Ends
                     /\ ShownUpTo(m) \in SUBSET EP!Ends
                     /\ \A i \in EP!FieldsUpTo(m) \cup ShownUpTo(m) : i < m
<1>1. Len(wire) \in Nat /\ DOMAIN wire = 1..Len(wire)
  BY LenProperties
<1>2. EP!Ends \in SUBSET (1..Len(wire)) /\ IsFiniteSet(1..Len(wire))
  BY <1>1, FS_Interval DEF EP!Ends
<1>3. IsFiniteSet(EP!Ends) /\ \A S \in SUBSET EP!Ends : IsFiniteSet(S)
  BY <1>2, FS_Subset
<1>. QED  BY <1>1, <1>2, <1>3 DEF EP!FieldsUpTo, ShownUpTo, EP!Blanks

\* One field more, one event more.
LEMMA OneMoreLine ==
    ASSUME wire \in Seq(EP!Symbols), NEW S \in SUBSET EP!Ends,
           NEW e \in EP!Ends, \A i \in S : i < e
    PROVE  /\ EP!LinesAt(S \cup {e}) = Append(EP!LinesAt(S), EP!LineAt(e))
           /\ EP!EventsAt(S \cup {e})
                = Append(EP!EventsAt(S), EP!LinesAt(EP!FieldsUpTo(e)))
<1> DEFINE n == Cardinality(S)
           U == S \cup {e}
<1>1. n \in Nat
  BY EndsAreFinite, FS_CardinalityType
<1>2. /\ Cardinality(U) = n + 1
      /\ \A k \in 1..n : InOrder(U)[k] = InOrder(S)[k]
      /\ InOrder(U)[n + 1] = e
  BY EndsAreFinite, InOrderOfOneMore
<1> HIDE DEF n, U
<1>3. EP!LinesAt(U) = Append(EP!LinesAt(S), EP!LineAt(e))
  <2> DEFINE s == EP!LinesAt(S)
             t == EP!LinesAt(U)
  <2>1. /\ s = [k \in 1..n |-> EP!LineAt(InOrder(S)[k])]
        /\ t = [k \in 1..(n + 1) |-> EP!LineAt(InOrder(U)[k])]
    BY <1>2, OneOrder, Zenon DEF EP!LinesAt, n
  <2> HIDE DEF s, t
  <2> DEFINE A == {t[k] : k \in 1..(n + 1)}
  <2>2. \A k \in 1..n : t[k] = s[k] /\ k \in 1..(n + 1)
    BY <1>1, <1>2, <2>1
  <2>3. s \in [1..n -> A] /\ t \in [1..(n + 1) -> A]
    BY <2>1, <2>2
  <2>4. t[n + 1] = EP!LineAt(e)
    BY <1>1, <1>2, <2>1
  <2> HIDE DEF A
  <2>5. t = Append(s, t[n + 1])
    BY <1>1, <2>2, <2>3, OneLonger
  <2>. QED  BY <2>4, <2>5, Zenon DEF s, t
<1>4. EP!EventsAt(U) = Append(EP!EventsAt(S), EP!LinesAt(EP!FieldsUpTo(e)))
  <2> DEFINE s == EP!EventsAt(S)
             t == EP!EventsAt(U)
  <2>1. /\ s = [k \in 1..n |-> EP!LinesAt(EP!FieldsUpTo(InOrder(S)[k]))]
        /\ t = [k \in 1..(n + 1) |-> EP!LinesAt(EP!FieldsUpTo(InOrder(U)[k]))]
    BY <1>2, OneOrder, Zenon DEF EP!EventsAt, n
  <2> HIDE DEF s, t
  <2> DEFINE A == {t[k] : k \in 1..(n + 1)}
  <2>2. \A k \in 1..n : t[k] = s[k] /\ k \in 1..(n + 1)
    BY <1>1, <1>2, <2>1
  <2>3. s \in [1..n -> A] /\ t \in [1..(n + 1) -> A]
    BY <2>1, <2>2
  <2>4. t[n + 1] = EP!LinesAt(EP!FieldsUpTo(e))
    BY <1>1, <1>2, <2>1
  <2> HIDE DEF A
  <2>5. t = Append(s, t[n + 1])
    BY <1>1, <2>2, <2>3, OneLonger
  <2>. QED  BY <2>4, <2>5, Zenon DEF s, t
<1>. QED  BY <1>3, <1>4 DEF U

LEMMA NoLines ==
    /\ EP!LinesAt({}) = <<>> /\ EP!EventsAt({}) = <<>>
    /\ \A S : IsFiniteSet(S) /\ S # {} => EP!LinesAt(S) # <<>>
<1>1. Cardinality({}) = 0
  BY FS_EmptySet
<1>2. EP!LinesAt({}) = <<>> /\ EP!EventsAt({}) = <<>>
  BY <1>1, OneOrder DEF EP!LinesAt, EP!EventsAt
<1>3. ASSUME NEW S, IsFiniteSet(S), S # {}
      PROVE  EP!LinesAt(S) # <<>>
  <2>1. 1 \in 1..Cardinality(S)
    BY <1>3, FS_CardinalityType, FS_EmptySet
  <2>2. DOMAIN EP!LinesAt(S) = 1..Cardinality(S)
    BY OneOrder DEF EP!LinesAt
  <2>3. DOMAIN <<>> = {}
    OBVIOUS
  <2>. QED  BY <2>1, <2>2, <2>3
<1>. QED  BY <1>2, <1>3

\* At a line's end the parser does what it should with the line.
LEMMA DispatchesLine ==
    ASSUME wire \in Seq(EP!Symbols), NEW n \in 0..Len(wire),
           NEW p \in 0..n, NEW q \in Nat, NEW e \in EP!Ends,
           \A i \in EP!Ends : /\ i < q + 1 <=> i < p + 1 \/ i = e
                              /\ i < e <=> i < p + 1
    PROVE  [EP!Dispatch(Standing(p, n), EP!LineAt(e)) EXCEPT !.text = SubSeq(wire, q + 1, n)]
                = Standing(q, n)
<1> DEFINE s == Standing(p, n)
           line == EP!LineAt(e)
           fields == EP!FieldsUpTo(p + 1)
           shown == ShownUpTo(p + 1)
           rest == SubSeq(wire, q + 1, n)
<1>0. p \in Nat /\ Len(wire) \in Nat
  BY LenProperties
<1>1. /\ fields \in SUBSET EP!Ends /\ shown \in SUBSET EP!Ends
      /\ \A i \in fields \cup shown : i < e
      /\ EP!Ends \in SUBSET Nat /\ IsFiniteSet(fields)
  BY EndsAreFinite
<1>2. s = [text |-> SubSeq(wire, p + 1, n), data |-> EP!LinesAt(fields),
           events |-> EP!EventsAt(shown)]
  BY DEF Standing
<1>3. Standing(q, n) = [text |-> rest, data |-> EP!LinesAt(EP!FieldsUpTo(q + 1)),
                        events |-> EP!EventsAt(ShownUpTo(q + 1))]
  BY DEF Standing
<1>4. line = <<>> <=> e \in EP!Blanks
  BY DEF EP!Blanks
<1>5. CASE e \in EP!Blanks
  <2>1. /\ EP!FieldsUpTo(q + 1) = {} /\ EP!FieldsUpTo(e) = fields
        /\ ShownUpTo(q + 1) = shown \cup (IF fields = {} THEN {} ELSE {e})
    BY <1>0, <1>1, <1>5, LineCounts
  <2>2. EP!LinesAt(fields) = <<>> <=> fields = {}
    BY <1>1, NoLines
  <2>3. EP!EventsAt(ShownUpTo(q + 1)) =
            IF EP!LinesAt(fields) = <<>> THEN EP!EventsAt(shown)
            ELSE Append(EP!EventsAt(shown), EP!LinesAt(fields))
    <3>1. CASE fields = {}
      <4>1. shown \cup {} = shown
        OBVIOUS
      <4>. QED  BY <2>1, <2>2, <3>1, <4>1
    <3>2. CASE fields # {}
      BY <1>1, <2>1, <2>2, <3>2, OneMoreLine
    <3>. QED  BY <3>1, <3>2
  <2> HIDE DEF s, line, fields, shown, rest
  <2>4. EP!Dispatch(s, line) =
          [s EXCEPT !.data = <<>>,
                    !.events = IF s.data = <<>> THEN @ ELSE Append(@, s.data)]
    BY <1>4, <1>5 DEF EP!Dispatch
  <2> DEFINE grown == IF EP!LinesAt(fields) = <<>> THEN EP!EventsAt(shown)
                      ELSE Append(EP!EventsAt(shown), EP!LinesAt(fields))
             moved == [EP!Dispatch(s, line) EXCEPT !.text = rest]
  <2>5. moved \in [text : {rest}, data : {<<>>}, events : {grown}]
    BY <1>2, <2>4
  <2> HIDE DEF moved
  <2>7. moved = [text |-> rest, data |-> <<>>, events |-> grown]
    BY <2>5, StateOf
  <2>6. EP!LinesAt(EP!FieldsUpTo(q + 1)) = <<>>
    BY <2>1, NoLines
  <2>. QED  BY <1>3, <2>3, <2>6, <2>7 DEF s, line, rest, moved
<1>6. CASE e \notin EP!Blanks
  <2>1. /\ ShownUpTo(q + 1) = shown
        /\ EP!FieldsUpTo(q + 1) = fields \cup (IF line[1] = "note" THEN {} ELSE {e})
    BY <1>0, <1>1, <1>6, LineCounts
  <2>2. EP!LinesAt(EP!FieldsUpTo(q + 1)) =
            IF line[1] = "note" THEN EP!LinesAt(fields)
            ELSE Append(EP!LinesAt(fields), line)
    <3>1. CASE line[1] = "note"
      <4>1. fields \cup {} = fields
        OBVIOUS
      <4>. QED  BY <2>1, <3>1, <4>1
    <3>2. CASE line[1] # "note"
      BY <1>1, <2>1, <3>2, OneMoreLine
    <3>. QED  BY <3>1, <3>2
  <2> HIDE DEF s, line, fields, shown, rest
  <2>3. EP!Dispatch(s, line) =
          IF line[1] = "note" THEN s ELSE [s EXCEPT !.data = Append(@, line)]
    BY <1>4, <1>6 DEF EP!Dispatch
  <2> DEFINE grown == IF line[1] = "note" THEN EP!LinesAt(fields)
                      ELSE Append(EP!LinesAt(fields), line)
             moved == [EP!Dispatch(s, line) EXCEPT !.text = rest]
  <2>4. moved \in [text : {rest}, data : {grown}, events : {EP!EventsAt(shown)}]
    <3>1. CASE line[1] = "note"
      <4>1. EP!Dispatch(s, line) = s /\ grown = EP!LinesAt(fields)
        BY <2>3, <3>1
      <4>2. moved = [s EXCEPT !.text = rest]
        BY <4>1
      <4> HIDE DEF moved, grown
      <4>. QED  BY <1>2, <4>1, <4>2
    <3>2. CASE line[1] # "note"
      <4>1. /\ EP!Dispatch(s, line) = [s EXCEPT !.data = Append(@, line)]
            /\ grown = Append(EP!LinesAt(fields), line)
        BY <2>3, <3>2
      <4>. QED  BY <1>2, <4>1
    <3>. QED  BY <3>1, <3>2
  <2> HIDE DEF moved
  <2>5. moved = [text |-> rest, data |-> grown, events |-> EP!EventsAt(shown)]
    BY <2>4, StateOf
  <2>. QED  BY <1>3, <2>1, <2>2, <2>5 DEF s, line, rest, moved
<1>. QED  BY <1>5, <1>6

NoEndsBetween(p, n) == \A k \in (p + 1)..n : ~EP!IsEnd(wire[k])

\* One turn of the loop: the parser goes on to the end of a line, or stays
\* where it stands, and then for good if the stream is over.
LEMMA TakesLine ==
    ASSUME wire \in Seq(EP!Symbols), NEW n \in 0..Len(wire), NEW done \in BOOLEAN,
           done => n = Len(wire), NEW p \in 0..n, Boundary(p)
    PROVE  \/ /\ EP!TakeLine(Standing(p, n), done) = Standing(p, n)
              /\ done => NoEndsBetween(p, n)
           \/ \E q \in (p + 1)..n :
                Boundary(q) /\ EP!TakeLine(Standing(p, n), done) = Standing(q, n)
<1> DEFINE s == Standing(p, n)
           text == s.text
           ends == {i \in DOMAIN text : EP!IsEnd(text[i])}
           at == CHOOSE i \in ends : \A j \in ends : i <= j
           e == p + at
           long == text[at] = "CR" /\ at < Len(text) /\ text[at + 1] = "LF"
           width == IF long THEN 2 ELSE 1
<1>0. Len(wire) \in Nat
  BY LenProperties
<1>1. /\ text = SubSeq(wire, p + 1, n) /\ Len(text) = n - p
      /\ DOMAIN text = 1..(n - p)
      /\ \A i \in 1..(n - p) : text[i] = wire[p + i]
  <2>1. text = SubSeq(wire, p + 1, n)
    BY DEF Standing
  <2> HIDE DEF text
  <2>2. \A i \in (p + 1)..n : wire[i] \in EP!Symbols
    BY <1>0, ElementOfSeq
  <2>3. /\ text \in Seq(EP!Symbols)
        /\ Len(text) = IF p + 1 <= n THEN n - (p + 1) + 1 ELSE 0
        /\ \A i \in 1..(n - (p + 1) + 1) : text[i] = wire[p + 1 + i - 1]
    BY <1>0, <2>1, <2>2, SubSeqProperties
  <2>4. Len(text) = n - p /\ DOMAIN text = 1..Len(text)
    BY <1>0, <2>3, LenProperties
  <2>5. \A i \in 1..(n - p) : text[i] = wire[p + i]
    BY <1>0, <2>3
  <2>. QED  BY <2>1, <2>4, <2>5
<1>2. EP!TakeLine(s, done) =
        IF ends = {} \/ EP!WaitsForMore(text, at, done) THEN s
        ELSE [EP!Dispatch(s, SubSeq(text, 1, at - 1)) EXCEPT
                   !.text = SubSeq(text, at + width, Len(text))]
  BY Zenon DEF EP!TakeLine
<1>3. CASE ends = {}
  <2> HIDE DEF s
  <2>1. EP!TakeLine(s, done) = s
    BY <1>2, <1>3
  <2>2. NoEndsBetween(p, n)
    <3> SUFFICES ASSUME NEW k \in (p + 1)..n, EP!IsEnd(wire[k])  PROVE FALSE
      BY DEF NoEndsBetween
    <3>1. k - p \in 1..(n - p) /\ p + (k - p) = k
      BY <1>0
    <3>2. k - p \in ends
      BY <1>1, <3>1
    <3>. QED  BY <1>3, <3>2
  <2>. QED  BY <2>1, <2>2 DEF s
<1>4. CASE ends # {} /\ EP!WaitsForMore(text, at, done)
  BY <1>2, <1>4 DEF EP!WaitsForMore
<1>5. CASE ends # {} /\ ~EP!WaitsForMore(text, at, done)
  <2>1. at \in ends /\ \A j \in ends : at <= j
    <3>1. ends \in SUBSET Nat
      BY <1>0, <1>1
    <3>2. \E i \in ends : \A j \in ends : i <= j
      <4> HIDE DEF ends
      <4>1. PICK i \in ends : \A j \in ends : ~(j < i)
        BY <1>5, <3>1, HasLeast
      <4>. QED  BY <3>1, <4>1
    <3> HIDE DEF ends
    <3>. QED  BY <3>2
  <2>2. at \in 1..(n - p) /\ EP!IsEnd(wire[e]) /\ text[at] = wire[e]
    BY <1>1, <2>1
  <2>3. \A k \in (p + 1)..(e - 1) : ~EP!IsEnd(wire[k])
    <3> SUFFICES ASSUME NEW k \in (p + 1)..(e - 1), EP!IsEnd(wire[k])  PROVE FALSE
      OBVIOUS
    <3> HIDE DEF at
    <3>1. k - p \in 1..(n - p) /\ p + (k - p) = k /\ k - p < at
      BY <1>0, <2>2
    <3>2. k - p \in ends
      BY <1>1, <3>1
    <3>. QED  BY <1>0, <2>1, <2>2, <3>1, <3>2
  <2> HIDE DEF ends, at
  <2>4. e \in (p + 1)..n /\ at \in Nat
    BY <1>0, <2>2
  <2>5. long <=> e < n /\ wire[e] = "CR" /\ wire[e + 1] = "LF"
    <3> HIDE DEF text
    <3>0. Len(text) = n - p /\ at \in 1..(n - p) /\ n \in Nat /\ p \in Nat
      BY <1>0, <1>1, <2>2
    <3>1. at < Len(text) => at + 1 \in 1..(n - p) /\ p + (at + 1) = e + 1
      <4>1. p + (at + 1) = e + 1
        BY <3>0
      <4>2. at < n - p => at + 1 \in 1..(n - p)
        BY <3>0
      <4>. QED  BY <3>0, <4>1, <4>2
    <3>2. at < Len(text) => text[at + 1] = wire[p + (at + 1)]
      BY <1>1, <3>1
    <3>3. at < Len(text) <=> e < n
      BY <1>0, <1>1, <2>2
    <3>4. at < Len(text) => wire[p + (at + 1)] = wire[e + 1]
      <4> HIDE DEF e
      <4>. QED  BY <3>1
    <3> HIDE DEF e
    <3>. QED  BY <2>2, <3>2, <3>3, <3>4
  <2> DEFINE q == e + width - 1
  <2>6. \/ q = e + 1 /\ e < n /\ wire[e] = "CR" /\ wire[e + 1] = "LF"
        \/ q = e /\ ~(e < Len(wire) /\ wire[e] = "CR" /\ wire[e + 1] = "LF")
    <3>1. CASE long
      BY <1>0, <2>4, <2>5, <3>1
    <3>2. CASE ~long
      <4>1. q = e
        BY <1>0, <2>4, <3>2
      <4> HIDE DEF long, text
      <4>2. ASSUME e < Len(wire), wire[e] = "CR", wire[e + 1] = "LF"
            PROVE  FALSE
        <5>1. e = n
          BY <1>0, <2>4, <2>5, <3>2, <4>2
        <5>2. at = Len(text)
          BY <1>0, <1>1, <2>2, <5>1
        <5>3. ~done
          BY <4>2, <5>1
        <5>. QED  BY <1>5, <2>2, <4>2, <5>2, <5>3 DEF EP!WaitsForMore
      <4>. QED  BY <4>1, <4>2
    <3>. QED  BY <3>1, <3>2
  <2>7. width \in {1, 2} /\ width \in Nat
    OBVIOUS
  <2> HIDE DEF long, width
  <2>8. /\ q \in (p + 1)..n /\ Boundary(q) /\ e \in EP!Ends
        /\ EP!LineAt(e) = SubSeq(wire, p + 1, e - 1)
        /\ \A i \in EP!Ends : /\ i < q + 1 <=> i < p + 1 \/ i = e
                              /\ i < e <=> i < p + 1
    <3>1. /\ wire \in Seq(EP!Symbols) /\ n \in 0..Len(wire) /\ p \in 0..n
          /\ Boundary(p)
      OBVIOUS
    <3> HIDE DEF e, q
    <3>. QED  BY ONLY <2>2, <2>3, <2>4, <2>6, <3>1, EndOfLine, SMTT(60)
  <2>9. SubSeq(text, 1, at - 1) = EP!LineAt(e)
    <3>1. /\ p + 1 \in Nat \ {0} /\ n \in Nat /\ n <= Len(wire)
          /\ at - 1 \in Nat /\ at - 1 <= n - (p + 1) + 1
          /\ p + 1 + 1 - 1 = p + 1 /\ p + 1 + (at - 1) - 1 = e - 1
      BY <1>0, <2>2
    <3>2. SubSeq(SubSeq(wire, p + 1, n), 1, at - 1)
            = SubSeq(wire, p + 1 + 1 - 1, p + 1 + (at - 1) - 1)
      BY <3>1, SubSeqWithin
    <3>. QED  BY <1>1, <2>8, <3>1, <3>2
  <2>10. SubSeq(text, at + width, Len(text)) = SubSeq(wire, q + 1, n)
    <3>1. /\ p + 1 \in Nat \ {0} /\ n \in Nat /\ n <= Len(wire)
          /\ at + width \in Nat \ {0} /\ n - p \in Nat /\ n - p <= n - (p + 1) + 1
          /\ p + 1 + (at + width) - 1 = q + 1 /\ p + 1 + (n - p) - 1 = n
      BY <1>0, <2>2, <2>7
    <3>2. SubSeq(SubSeq(wire, p + 1, n), at + width, n - p)
            = SubSeq(wire, p + 1 + (at + width) - 1, p + 1 + (n - p) - 1)
      <4> DEFINE a == p + 1
                 m == at + width
                 k == n - p
      <4>1. /\ a \in Nat \ {0} /\ n \in Nat /\ n <= Len(wire)
            /\ m \in Nat \ {0} /\ k \in Nat /\ k <= n - a + 1
        BY <3>1
      <4> HIDE DEF a, m, k
      <4>2. SubSeq(SubSeq(wire, a, n), m, k) = SubSeq(wire, a + m - 1, a + k - 1)
        BY <4>1, SubSeqWithin
      <4>. QED  BY <4>2 DEF a, m, k
    <3> HIDE DEF text, e
    <3>. QED  BY <1>1, <3>1, <3>2
  <2>11. [EP!Dispatch(s, EP!LineAt(e)) EXCEPT !.text = SubSeq(wire, q + 1, n)]
            = Standing(q, n)
    <3>1. q \in Nat
      BY <1>0, <2>8
    <3> HIDE DEF e, q
    <3>. QED  BY <2>8, <3>1, DispatchesLine
  <2>12. EP!TakeLine(s, done) = Standing(q, n)
    <3> HIDE DEF e, q, s
    <3>. QED  BY <1>2, <1>5, <2>9, <2>10, <2>11, Zenon
  <2> HIDE DEF q, e
  <2>. QED  BY <2>8, <2>12
<1>. QED  BY <1>3, <1>4, <1>5

\* The state after the i-th turn, given what it is after the others.
Turn(state, done, after, i) ==
    IF i = 0 THEN state ELSE EP!TakeLine(after[i - 1], done)

LEMMA TurnsExist ==
    ASSUME NEW state, NEW done, NEW fuel \in Nat
    PROVE  \E after : after = [i \in 0..fuel |-> Turn(state, done, after, i)]
<1> DEFINE Is(after, m) == after = [i \in 0..m |-> Turn(state, done, after, i)]
           T == {m \in 0..fuel : ~\E after : Is(after, m)}
<1>1. T = {}
  <2> SUFFICES ASSUME T # {}  PROVE FALSE
    OBVIOUS
  <2>1. T \in SUBSET Nat
    OBVIOUS
  <2> HIDE DEF T
  <2>2. PICK m \in T : \A k \in T : ~(k < m)
    BY <2>1, HasLeast
  <2>3. m \in 0..fuel /\ ~\E after : Is(after, m)
    BY <2>2 DEF T
  <2>4. CASE m = 0
    <3> DEFINE after == [i \in 0..0 |-> state]
    <3>1. Is(after, 0)
      BY DEF Turn
    <3>. QED  BY <2>3, <2>4, <3>1
  <2>5. CASE m # 0
    <3>1. m - 1 \in 0..fuel /\ m - 1 < m /\ m \in Nat
      BY <2>3, <2>5
    <3>2. m - 1 \notin T
      BY <2>2, <3>1
    <3>3. PICK before : Is(before, m - 1)
      BY <3>1, <3>2 DEF T
    <3> DEFINE after == [i \in 0..m |-> IF i = m THEN Turn(state, done, before, m)
                                        ELSE before[i]]
    <3>4. /\ \A i \in 0..(m - 1) : before[i] = Turn(state, done, before, i)
          /\ \A i \in 0..(m - 1) : after[i] = before[i]
      BY <3>1, <3>3
    <3>5. ASSUME NEW i \in 0..m
          PROVE  after[i] = Turn(state, done, after, i)
      <4>1. CASE i = m
        <5>1. after[m] = Turn(state, done, before, m) /\ after[m - 1] = before[m - 1]
          BY <3>1, <3>4
        <5>. QED  BY <4>1, <5>1 DEF Turn
      <4>2. CASE i # m
        <5>1. i \in 0..(m - 1) /\ (i # 0 => i - 1 \in 0..(m - 1))
          BY <3>1, <4>2
        <5>2. after[i] = Turn(state, done, before, i) /\ (i # 0 => after[i - 1] = before[i - 1])
          BY <3>4, <5>1
        <5>. QED  BY <5>2 DEF Turn
      <4>. QED  BY <4>1, <4>2
    <3>6. Is(after, m)
      BY <3>5
    <3>. QED  BY <2>3, <3>6
  <2>. QED  BY <2>4, <2>5
<1>. QED  BY <1>1

LEMMA LinesAreTurns ==
    ASSUME NEW state, NEW done, NEW fuel \in Nat
    PROVE  \E after : /\ after = [i \in 0..fuel |-> Turn(state, done, after, i)]
                      /\ EP!Lines(state, done, fuel) = after[fuel]
<1> DEFINE step[i \in 0..fuel] == IF i = 0 THEN state ELSE EP!TakeLine(step[i - 1], done)
<1>1. \E f : f = [i \in 0..fuel |-> IF i = 0 THEN state ELSE EP!TakeLine(f[i - 1], done)]
  <2>1. PICK f : f = [i \in 0..fuel |-> Turn(state, done, f, i)]
    BY TurnsExist, Zenon
  <2>. QED  BY <2>1, Zenon DEF Turn
<1>2. step = [i \in 0..fuel |-> IF i = 0 THEN state ELSE EP!TakeLine(step[i - 1], done)]
  BY <1>1, Zenon
<1>3. EP!Lines(state, done, fuel) = step[fuel]
  BY Zenon DEF EP!Lines
<1> HIDE DEF step
<1>. QED  BY <1>2, <1>3 DEF Turn

\* The loop stops where no line is left to take.
LEMMA LinesAreTaken ==
    ASSUME wire \in Seq(EP!Symbols), NEW n \in 0..Len(wire), NEW done \in BOOLEAN,
           done => n = Len(wire), NEW p \in 0..n, Boundary(p)
    PROVE  \E q \in p..n :
                /\ Boundary(q) /\ EP!Lines(Standing(p, n), done, n - p) = Standing(q, n)
                /\ done => NoEndsBetween(q, n)
<1> DEFINE fuel == n - p
<1>0. Len(wire) \in Nat /\ fuel \in Nat
  BY LenProperties
<1>1. PICK after : /\ after = [i \in 0..fuel |-> Turn(Standing(p, n), done, after, i)]
                   /\ EP!Lines(Standing(p, n), done, fuel) = after[fuel]
  <2> HIDE DEF fuel
  <2>. QED  BY <1>0, LinesAreTurns
<1>2. \A i \in 0..fuel : after[i] = Turn(Standing(p, n), done, after, i)
  <2> HIDE DEF fuel
  <2>. QED  BY <1>1
\* Each turn goes on by a symbol at least, or the loop has come to its end.
<1> DEFINE Reached(i) ==
        \E q \in p..n :
            /\ Boundary(q) /\ after[i] = Standing(q, n)
            /\ \/ q >= p + i
               \/ /\ EP!TakeLine(Standing(q, n), done) = Standing(q, n)
                  /\ done => NoEndsBetween(q, n)
           T == {i \in 0..fuel : ~Reached(i)}
<1>3. T = {}
  <2> SUFFICES ASSUME T # {}  PROVE FALSE
    OBVIOUS
  <2>1. T \in SUBSET Nat
    BY <1>0
  <2> HIDE DEF T
  <2>2. PICK m \in T : \A k \in T : ~(k < m)
    BY <2>1, HasLeast
  <2>3. m \in 0..fuel /\ ~Reached(m)
    BY <2>2 DEF T
  <2>4. CASE m = 0
    <3>1. after[0] = Standing(p, n)
      BY <1>0, <1>2, <2>3, <2>4 DEF Turn
    <3>2. p \in p..n /\ p >= p + 0
      BY <1>0
    <3>. QED  BY <2>3, <2>4, <3>1, <3>2
  <2>5. CASE m # 0
    <3>1. m - 1 \in 0..fuel /\ m - 1 < m /\ m \in Nat
      BY <1>0, <2>3, <2>5
    <3>2. Reached(m - 1)
      BY <2>2, <3>1 DEF T
    <3>3. after[m] = EP!TakeLine(after[m - 1], done)
      BY <1>2, <2>3, <2>5 DEF Turn
    <3>4. PICK q \in p..n :
            /\ Boundary(q) /\ after[m - 1] = Standing(q, n)
            /\ \/ q >= p + (m - 1)
               \/ /\ EP!TakeLine(Standing(q, n), done) = Standing(q, n)
                  /\ done => NoEndsBetween(q, n)
      BY <3>2
    <3> HIDE DEF fuel
    <3>5. CASE EP!TakeLine(Standing(q, n), done) = Standing(q, n)
                /\ (done => NoEndsBetween(q, n))
      BY <2>3, <3>3, <3>4, <3>5
    <3>6. CASE \E r \in (q + 1)..n :
                Boundary(r) /\ EP!TakeLine(Standing(q, n), done) = Standing(r, n)
      <4>1. PICK r \in (q + 1)..n :
                Boundary(r) /\ EP!TakeLine(Standing(q, n), done) = Standing(r, n)
        BY <3>6
      <4>2. CASE q >= p + (m - 1)
        <5>1. r \in p..n /\ r >= p + m
          BY <1>0, <3>1, <4>2
        <5>2. after[m] = Standing(r, n)
          BY <3>3, <3>4, <4>1
        <5>. QED  BY <2>3, <4>1, <5>1, <5>2
      <4>3. CASE /\ EP!TakeLine(Standing(q, n), done) = Standing(q, n)
                 /\ done => NoEndsBetween(q, n)
        BY <3>5, <4>3
      <4>. QED  BY <3>4, <4>2, <4>3
    <3>7. q \in 0..n
      BY <1>0
    <3>. QED  BY <3>4, <3>5, <3>6, <3>7, TakesLine
  <2>. QED  BY <2>4, <2>5
<1>4. Reached(fuel)
  BY <1>0, <1>3
<1>5. PICK q \in p..n :
        /\ Boundary(q) /\ after[fuel] = Standing(q, n)
        /\ \/ q >= p + fuel
           \/ /\ EP!TakeLine(Standing(q, n), done) = Standing(q, n)
              /\ done => NoEndsBetween(q, n)
  BY <1>4
<1>6. q >= p + fuel => NoEndsBetween(q, n)
  BY <1>0 DEF NoEndsBetween
<1>. QED  BY <1>1, <1>5, <1>6

ParserInv ==
    /\ wire \in Seq(EP!Symbols) /\ sent \in 0..Len(wire) /\ over \in BOOLEAN
    /\ \E p \in 0..sent :
        /\ Boundary(p)
        /\ [text |-> buffer, data |-> data, events |-> events] = Standing(p, sent)
        /\ over => sent = Len(wire) /\ NoEndsBetween(p, sent)

LEMMA ParserInit == EP!Init => ParserInv
<1> SUFFICES ASSUME EP!Init  PROVE ParserInv
  OBVIOUS
<1>1. wire \in Seq(EP!Symbols)
  BY DEF EP!Init
<1>2. /\ sent = 0 /\ buffer = <<>> /\ data = <<>> /\ events = <<>> /\ over = FALSE
  BY DEF EP!Init
<1>3. Len(wire) \in Nat
  BY <1>1, LenProperties
<1>4. EP!FieldsUpTo(0 + 1) = {} /\ ShownUpTo(0 + 1) = {}
  <2>1. \A i \in EP!Ends : i \in Nat /\ i >= 1
    BY <1>1, LenProperties DEF EP!Ends
  <2>2. \A i \in EP!FieldsUpTo(1) \cup ShownUpTo(1) : i \in EP!Ends /\ i < 1
    BY <1>1, EndsAreFinite
  <2>. QED  BY <2>1, <2>2
<1>5. SubSeq(wire, 0 + 1, 0) = <<>>
  BY <1>1, SubSeqEmpty
<1>6. [text |-> buffer, data |-> data, events |-> events] = Standing(0, sent)
  <2>1. Standing(0, 0) = [text |-> <<>>, data |-> <<>>, events |-> <<>>]
    BY <1>4, <1>5, NoLines, Zenon DEF Standing
  <2>2. Standing(0, sent) = Standing(0, 0)
    BY <1>2
  <2>3. buffer = <<>> /\ data = <<>> /\ events = <<>>
    BY <1>2
  <2>. QED  BY <2>1, <2>2, <2>3
<1>7. Boundary(0)
  BY DEF Boundary
<1>8. 0 \in 0..sent /\ sent \in 0..Len(wire) /\ over \in BOOLEAN /\ ~over
  <2>1. over \in BOOLEAN /\ ~over
    BY <1>2
  <2>2. 0 \in 0..0 /\ 0 \in 0..Len(wire)
    BY <1>3
  <2>. QED  BY <1>2, <2>1, <2>2
<1>. QED  BY <1>1, <1>6, <1>7, <1>8, Zenon DEF ParserInv

\* Whatever is read, or nothing more, the loop leaves the parser at a boundary.
LEMMA TookKeeps ==
    ASSUME ParserInv, NEW n \in sent..Len(wire), NEW done \in BOOLEAN,
           done => n = Len(wire), NEW text, text = buffer \o SubSeq(wire, sent + 1, n),
           EP!Took(text, done)
    PROVE  \E q \in 0..n :
            /\ Boundary(q)
            /\ [text |-> buffer', data |-> data', events |-> events'] = Standing(q, n)
            /\ done => NoEndsBetween(q, n)
<1>0. Len(wire) \in Nat /\ sent \in 0..Len(wire) /\ wire \in Seq(EP!Symbols)
  BY LenProperties DEF ParserInv
<1>1. PICK p \in 0..sent :
        /\ Boundary(p)
        /\ [text |-> buffer, data |-> data, events |-> events] = Standing(p, sent)
  BY DEF ParserInv
<1>2. /\ buffer = SubSeq(wire, p + 1, sent)
      /\ data = EP!LinesAt(EP!FieldsUpTo(p + 1))
      /\ events = EP!EventsAt(ShownUpTo(p + 1))
  BY <1>1 DEF Standing
<1>3. text = SubSeq(wire, p + 1, n)
  <2>1. p + 1 \in 1..(Len(wire) + 1) /\ sent \in ((p + 1) - 1)..Len(wire) /\ n \in sent..Len(wire)
    BY <1>0
  <2>. QED  BY <1>0, <1>2, <2>1, ConcatAdjacentSubSeq
<1>4. [text |-> text, data |-> data, events |-> events] = Standing(p, n)
  BY <1>2, <1>3 DEF Standing
<1>5. Len(text) = n - p
  <2> DEFINE a == p + 1
             len == Len(text)
  <2>1. \A i \in a..n : wire[i] \in EP!Symbols
    BY <1>0, ElementOfSeq
  <2>2. /\ a \in Int /\ n \in Int /\ p \in Int /\ p <= n
        /\ text = SubSeq(wire, a, n)
    <3>1. a \in Int /\ n \in Int /\ p \in Int /\ p <= n
      BY <1>0
    <3>. QED  BY <1>3, <3>1
  <2> HIDE DEF a
  <2>3. Len(SubSeq(wire, a, n)) = IF a <= n THEN n - a + 1 ELSE 0
    BY ONLY <2>1, <2>2, SubSeqProperties
  <2>4. len = IF a <= n THEN n - a + 1 ELSE 0
    BY <2>2, <2>3, Zenon
  <2> HIDE DEF len
  <2>5. len = n - p
    BY ONLY <2>2, <2>4 DEF a
  <2>. QED  BY <2>5 DEF len
<1> DEFINE after == EP!Lines(Standing(p, n), done, n - p)
<1>6. PICK q \in p..n :
        /\ Boundary(q) /\ after = Standing(q, n)
        /\ done => NoEndsBetween(q, n)
  <2>1. n \in 0..Len(wire) /\ p \in 0..n
    BY <1>0
  <2>. QED  BY <1>0, <1>1, <2>1, LinesAreTaken
<1>7. buffer' = after.text /\ data' = after.data /\ events' = after.events
  BY <1>4, <1>5, Zenon DEF EP!Took
<1>8. [text |-> buffer', data |-> data', events |-> events'] = Standing(q, n)
  <2> HIDE DEF after
  <2>. QED  BY <1>6, <1>7 DEF Standing
<1>9. q \in 0..n
  BY <1>0
<1>. QED  BY <1>6, <1>8, <1>9

\* What is right about the stream does not change while it is read.
LEMMA WireStays ==
    ASSUME wire' = wire
    PROVE  /\ EP!WholeEvents' = EP!WholeEvents
           /\ \A p : Boundary(p)' = Boundary(p)
           /\ \A p, n : /\ Standing(p, n)' = Standing(p, n)
                        /\ NoEndsBetween(p, n)' = NoEndsBetween(p, n)
<1>1. EP!Ends' = EP!Ends /\ \A i : EP!Start(i)' = EP!Start(i)
  BY Zenon DEF EP!Ends, EP!Start
<1>2. \A i : EP!LineAt(i)' = EP!LineAt(i)
  BY <1>1, Zenon DEF EP!LineAt
<1>3. EP!Blanks' = EP!Blanks
  BY <1>1, <1>2, Zenon DEF EP!Blanks
<1>4. \A m : EP!FieldsUpTo(m)' = EP!FieldsUpTo(m)
  BY <1>1, <1>2, <1>3, Zenon DEF EP!FieldsUpTo
<1>5. \A m : ShownUpTo(m)' = ShownUpTo(m)
  BY <1>3, <1>4, Zenon DEF ShownUpTo
<1>6. \A S : EP!LinesAt(S)' = EP!LinesAt(S)
  BY <1>2, Zenon DEF EP!LinesAt
<1>7. \A S : EP!EventsAt(S)' = EP!EventsAt(S)
  BY <1>4, <1>6, Zenon DEF EP!EventsAt
<1>8. EP!WholeEvents' = EP!WholeEvents
  BY <1>3, <1>4, <1>7, Zenon DEF EP!WholeEvents
<1>9. \A p, n : Standing(p, n)' = Standing(p, n)
  BY <1>4, <1>5, <1>6, <1>7, Zenon DEF Standing
<1>10. \A p : Boundary(p)' = Boundary(p)
  BY Zenon DEF Boundary
<1>11. \A p, n : NoEndsBetween(p, n)' = NoEndsBetween(p, n)
  BY Zenon DEF NoEndsBetween
<1>. QED  BY <1>8, <1>9, <1>10, <1>11

LEMMA ParserStep == ParserInv /\ [EP!Next]_(EP!vars) => ParserInv'
<1> SUFFICES ASSUME ParserInv, [EP!Next]_(EP!vars)
             PROVE  ParserInv'
  OBVIOUS
<1>0. Len(wire) \in Nat /\ sent \in 0..Len(wire) /\ wire \in Seq(EP!Symbols)
  BY LenProperties DEF ParserInv
<1>1. CASE EP!Read
  <2>1. PICK n \in sent..Len(wire) :
          sent' = n /\ EP!Took(buffer \o SubSeq(wire, sent + 1, n), FALSE)
    BY <1>1 DEF EP!Read
  <2>2. wire' = wire /\ over' = over /\ ~over
    BY <1>1 DEF EP!Read
  <2>3. PICK q \in 0..n :
          /\ Boundary(q)
          /\ [text |-> buffer', data |-> data', events |-> events'] = Standing(q, n)
    BY <2>1, TookKeeps
  <2>4. Boundary(q)' /\ Standing(q, n)' = Standing(q, n)
    BY <2>2, <2>3, WireStays
  <2>5. n \in 0..Len(wire)
    BY <1>0
  <2>. QED  BY <1>0, <2>1, <2>2, <2>3, <2>4, <2>5 DEF ParserInv
<1>2. CASE EP!End
  <2>1. /\ wire' = wire /\ sent' = sent /\ over' = TRUE /\ sent = Len(wire)
        /\ EP!Took(buffer, TRUE)
    BY <1>2 DEF EP!End
  <2>2. buffer = buffer \o SubSeq(wire, sent + 1, sent)
    <3>1. PICK p \in 0..sent : buffer = SubSeq(wire, p + 1, sent)
      BY DEF ParserInv, Standing
    <3>2. \A i \in (p + 1)..sent : wire[i] \in EP!Symbols
      BY <1>0, ElementOfSeq
    <3>3. p + 1 \in Int /\ sent \in Int /\ sent + 1 \in Int
      BY <1>0
    <3>4. buffer \in Seq(EP!Symbols)
      BY <3>1, <3>2, <3>3, SubSeqProperties
    <3>5. SubSeq(wire, sent + 1, sent) = <<>>
      BY <1>0, <3>3, SubSeqEmpty
    <3>. QED  BY <3>4, <3>5, ConcatEmptySeq
  <2>3. PICK q \in 0..sent :
          /\ Boundary(q)
          /\ [text |-> buffer', data |-> data', events |-> events'] = Standing(q, sent)
          /\ NoEndsBetween(q, sent)
    <3>1. sent \in sent..Len(wire)
      BY <1>0
    <3>. QED  BY <2>1, <2>2, <3>1, TookKeeps
  <2>4. Boundary(q)' /\ Standing(q, sent)' = Standing(q, sent) /\ NoEndsBetween(q, sent)'
    BY <2>1, <2>3, WireStays
  <2>. QED  BY <1>0, <2>1, <2>3, <2>4 DEF ParserInv
<1>3. CASE UNCHANGED EP!vars
  <2>1. UNCHANGED <<wire, sent, buffer, data, events, over>>
    BY <1>3 DEF EP!vars
  <2>2. PICK p \in 0..sent :
          /\ Boundary(p)
          /\ [text |-> buffer, data |-> data, events |-> events] = Standing(p, sent)
          /\ over => sent = Len(wire) /\ NoEndsBetween(p, sent)
    BY DEF ParserInv
  <2>3. /\ Boundary(p)' /\ Standing(p, sent)' = Standing(p, sent)
        /\ NoEndsBetween(p, sent)' = NoEndsBetween(p, sent)
    BY <2>1, <2>2, WireStays
  <2>. QED  BY <1>0, <2>1, <2>2, <2>3 DEF ParserInv
<1>. QED  BY <1>1, <1>2, <1>3 DEF EP!Next

\* What has been yielded is a beginning of what the whole stream says.
LEMMA StandingIsRight == ParserInv => EP!SplitsDoNotMatter /\ EP!TypeOK
<1> SUFFICES ASSUME ParserInv  PROVE EP!SplitsDoNotMatter /\ EP!TypeOK
  OBVIOUS
<1>0. Len(wire) \in Nat /\ sent \in 0..Len(wire) /\ wire \in Seq(EP!Symbols) /\ over \in BOOLEAN
  BY LenProperties DEF ParserInv
<1>1. PICK p \in 0..sent :
        /\ [text |-> buffer, data |-> data, events |-> events] = Standing(p, sent)
        /\ over => sent = Len(wire) /\ NoEndsBetween(p, sent)
  BY DEF ParserInv
<1>2. /\ buffer = SubSeq(wire, p + 1, sent)
      /\ data = EP!LinesAt(EP!FieldsUpTo(p + 1))
      /\ events = EP!EventsAt(ShownUpTo(p + 1))
  BY <1>1 DEF Standing
<1> DEFINE U == {b \in EP!Blanks : EP!FieldsUpTo(b) # {}}
           S == ShownUpTo(p + 1)
<1>3. /\ U \in SUBSET Nat /\ IsFiniteSet(U) /\ S \in SUBSET U
      /\ \A x \in S : \A y \in U \ S : x < y
  <2>1. U \in SUBSET EP!Ends
    BY DEF EP!Blanks
  <2>2. S \in SUBSET U
    BY DEF ShownUpTo
  <2>3. \A x \in S : \A y \in U \ S : x < p + 1 /\ ~(y < p + 1)
    BY DEF ShownUpTo
  <2>4. U \in SUBSET Nat /\ IsFiniteSet(U)
    BY <1>0, <2>1, EndsAreFinite
  <2> HIDE DEF U, S
  <2>5. \A x \in S : \A y \in U \ S : x < y
    <3> SUFFICES ASSUME NEW x \in S, NEW y \in U \ S  PROVE x < y
      OBVIOUS
    <3>1. x \in Nat /\ y \in Nat /\ p \in Nat
      BY <1>0, <2>2, <2>4
    <3>. QED  BY <2>3, <3>1
  <2>. QED  BY <2>2, <2>4, <2>5
<1>4. EP!WholeEvents = EP!EventsAt(U)
  BY DEF EP!WholeEvents
<1>5. \A X : EP!EventsAt(X) = [k \in 1..Cardinality(X) |->
                                    EP!LinesAt(EP!FieldsUpTo(InOrder(X)[k]))]
  BY OneOrder, Zenon DEF EP!EventsAt
<1>6. EP!IsPrefix(events, EP!WholeEvents)
  <2> HIDE DEF U, S
  <2> DEFINE s == EP!EventsAt(S)
             t == EP!EventsAt(U)
             n == Cardinality(S)
             m == Cardinality(U)
  <2>1. /\ n \in Nat /\ m \in Nat /\ n <= m
        /\ \A k \in 1..n : InOrder(U)[k] = InOrder(S)[k]
    BY <1>3, InOrderOfPart, FS_Subset, FS_CardinalityType
  <2>2. /\ s = [k \in 1..n |-> EP!LinesAt(EP!FieldsUpTo(InOrder(S)[k]))]
        /\ t = [k \in 1..m |-> EP!LinesAt(EP!FieldsUpTo(InOrder(U)[k]))]
    BY <1>5
  <2> DEFINE A == {t[k] : k \in 1..m}
  <2> HIDE DEF s, t, n, m
  <2>3. \A k \in 1..n : k \in 1..m /\ t[k] = s[k]
    BY <2>1, <2>2
  <2>4. s \in [1..n -> A] /\ t \in [1..m -> A]
    BY <2>2, <2>3
  <2> HIDE DEF A
  <2>5. s \in Seq(A) /\ t \in Seq(A) /\ Len(s) = n /\ Len(t) = m
    BY <2>1, <2>4
  <2>6. SubSeq(s, 1, n) = SubSeq(t, 1, n)
    <3>1. s = SubSeq(t, 1, n)
      BY <2>1, <2>3, <2>5
    <3>2. SubSeq(s, 1, n) = s
      BY <2>5, SubSeqFull
    <3>. QED  BY <3>1, <3>2
  <2>7. Len(s) <= Len(t) /\ SubSeq(s, 1, Len(s)) = SubSeq(t, 1, Len(s))
    BY <2>1, <2>5, <2>6
  <2>. QED  BY <1>2, <1>4, <2>7 DEF EP!IsPrefix, s, t, S
<1>7. over => events = EP!WholeEvents
  <2> SUFFICES ASSUME over  PROVE S = U
    BY <1>2, <1>4
  <2>1. ASSUME NEW b \in EP!Ends  PROVE b < p + 1
    <3>1. b \in 1..Len(wire) /\ EP!IsEnd(wire[b])
      BY <1>0, LenProperties DEF EP!Ends
    <3>. QED  BY <1>0, <1>1, <3>1 DEF NoEndsBetween
  <2>. QED  BY <2>1 DEF ShownUpTo, EP!Blanks
<1>8. EP!TypeOK
  <2> DEFINE fields == EP!FieldsUpTo(p + 1)
  <2>1. Len(data) = Cardinality(fields) /\ Cardinality(fields) \in 0..p
    <3>1. fields \in SUBSET (1..p)
      <4>1. \A i \in fields : i \in EP!Ends /\ i < p + 1
        BY <1>0, EndsAreFinite
      <4>2. EP!Ends \in SUBSET (1..Len(wire))
        BY <1>0, LenProperties DEF EP!Ends
      <4>3. p \in Nat /\ \A i \in 1..Len(wire) : i < p + 1 => i \in 1..p
        BY <1>0
      <4> HIDE DEF fields
      <4>. QED  BY <4>1, <4>2, <4>3
    <3>2. IsFiniteSet(1..p) /\ Cardinality(1..p) = p
      <4>1. p \in Nat /\ 1 \in Int /\ p \in Int
        BY <1>0
      <4>2. IsFiniteSet(1..p) /\ Cardinality(1..p) = IF 1 > p THEN 0 ELSE p - 1 + 1
        BY <4>1, FS_Interval
      <4>. QED  BY <4>1, <4>2
    <3>3. Cardinality(fields) \in Nat /\ Cardinality(fields) <= p
      <4> HIDE DEF fields
      <4>. QED  BY <3>1, <3>2, FS_Subset, FS_CardinalityType
    <3>4. Len(data) = Cardinality(fields)
      <4>1. data = [k \in 1..Cardinality(fields) |-> EP!LineAt(InOrder(fields)[k])]
        BY <1>2, OneOrder, Zenon DEF EP!LinesAt
      <4> HIDE DEF fields
      <4>. QED  BY <3>3, <4>1
    <3>. QED  BY <1>0, <3>3, <3>4
  <2>2. Len(buffer) = sent - p
    <3>1. \A i \in (p + 1)..sent : wire[i] \in EP!Symbols
      BY <1>0, ElementOfSeq
    <3> DEFINE a == p + 1
    <3>2. a \in Int /\ sent \in Int
      BY <1>0
    <3> HIDE DEF a
    <3>3. Len(buffer) = IF a <= sent THEN sent - a + 1 ELSE 0
      BY <1>2, <3>1, <3>2, SubSeqProperties DEF a
    <3>. QED  BY <1>0, <3>3 DEF a
  <2> HIDE DEF fields
  <2>. QED  BY <1>0, <2>1, <2>2 DEF EP!TypeOK
<1>. QED  BY <1>6, <1>7, <1>8 DEF EP!SplitsDoNotMatter

LEMMA ParserInvariant == Spec => []ParserInv
<1>1. Init => ParserInv
  BY ParserInit DEF Init
<1>2. ParserInv /\ [Next]_vars => ParserInv'
  <2>1. [Next]_vars => [EP!Next]_(EP!vars)
    BY DEF Next, vars, Chat, RateLimit, ProviderKeys, SessionLife, Erasure,
           Serving, Migrations, ModelStream, EventParser, EvalGate, Only,
           eventVars, EP!vars
  <2>. QED  BY <2>1, ParserStep
<1>. QED  BY <1>1, <1>2, PTL DEF Spec

\* Whatever pieces the network makes of a stream, of any length, what the page
\* has yielded is a beginning of the events of the whole, and at the end all of
\* them (sse.ts parseSSE).
THEOREM AnySplitYieldsTheSame == Spec => []SplitsDoNotMatter
<1>1. ParserInv => SplitsDoNotMatter
  BY StandingIsRight DEF SplitsDoNotMatter
<1>. QED  BY <1>1, ParserInvariant, PTL

-----------------------------------------------------------------------------
(* ModelStream.                                                            *)

Pieces(i, n) == [k \in 1..n |-> <<i, k>>]

Item == [kind : {"text", "finish"}] \cup
    [kind : {"call"}, index : CallIndexes, arguments : {Pieces(i, n) : i, n \in Nat}]

\* Until the finish reason each call holds the pieces sent of it; with it they
\* have all been yielded.
ModelInv ==
    /\ DOMAIN pieces \in SUBSET CallIndexes
    /\ pieces \in [DOMAIN pieces -> 1..MaxPieces]
    /\ posted \in [DOMAIN pieces -> 0..MaxPieces]
    /\ \A i \in DOMAIN pieces : posted[i] <= pieces[i]
    /\ texts \in 0..MaxText /\ finishes \in 0..2
    /\ calls = IF finishes = 0
               THEN [i \in {j \in DOMAIN pieces : posted[j] # 0} |-> Pieces(i, posted[i])]
               ELSE [i \in {} |-> <<>>]
    /\ got \in Seq(Item)
    /\ vectors \in {<<>>, [i \in 1..Texts |-> i]}
    /\ MS!CallsAreWhole

LEMMA ModelNumbers ==
    /\ CallIndexes \in SUBSET Nat /\ IsFiniteSet(CallIndexes)
    /\ MaxPieces \in Nat /\ MaxText \in Nat /\ Texts \in Nat
  BY ServicesConstants DEF MS!StreamConstants, MS!IsFiniteSet, IsFiniteSet

LEMMA ModelInit == MS!Init => ModelInv
<1> SUFFICES ASSUME MS!Init  PROVE ModelInv
  OBVIOUS
<1>1. PICK called \in SUBSET CallIndexes : pieces \in [called -> 1..MaxPieces]
  BY DEF MS!Init
<1>2. DOMAIN pieces = called
  BY <1>1
<1>3. /\ posted = [i \in DOMAIN pieces |-> 0] /\ texts = 0 /\ finishes = 0
      /\ calls = [i \in {} |-> <<>>] /\ got = <<>> /\ vectors = <<>>
  BY DEF MS!Init
<1>4. {j \in DOMAIN pieces : posted[j] # 0} = {}
  BY <1>3
<1>5. calls = [i \in {j \in DOMAIN pieces : posted[j] # 0} |-> Pieces(i, posted[i])]
  BY <1>3, <1>4
<1>6. MS!CallsAreWhole
  BY <1>3 DEF MS!CallsAreWhole, MS!CallsAt
<1>7. got \in Seq(Item)
  BY <1>3
<1>8. /\ posted \in [DOMAIN pieces -> 0..MaxPieces]
      /\ \A i \in DOMAIN pieces : posted[i] <= pieces[i]
      /\ texts \in 0..MaxText /\ finishes \in 0..2
  BY <1>1, <1>2, <1>3, ModelNumbers
<1>. QED  BY <1>1, <1>2, <1>3, <1>5, <1>6, <1>7, <1>8 DEF ModelInv

\* Nothing about the calls changes where the calls do not.
LEMMA SameCalls ==
    ASSUME MS!CallsAreWhole, UNCHANGED pieces, (finishes = 0) <=> (finishes' = 0),
           MS!CallsAt' = MS!CallsAt, \A k \in MS!CallsAt : got'[k] = got[k]
    PROVE  MS!CallsAreWhole'
<1>1. CASE finishes = 0
  BY <1>1 DEF MS!CallsAreWhole
<1>2. CASE finishes # 0
  <2>1. /\ {got[k].index : k \in MS!CallsAt} = DOMAIN pieces
        /\ \A k \in MS!CallsAt :
             got[k].arguments = [n \in 1..pieces[got[k].index] |-> <<got[k].index, n>>]
        /\ \A j, k \in MS!CallsAt : j < k => got[j].index < got[k].index
    BY <1>2, Zenon DEF MS!CallsAreWhole
  <2>2. {got'[k].index : k \in MS!CallsAt'} = DOMAIN pieces'
    <3>1. {got'[k].index : k \in MS!CallsAt'} = {got[k].index : k \in MS!CallsAt}
      OBVIOUS
    <3>. QED  BY <2>1, <3>1
  <2>3. \A k \in MS!CallsAt' :
           got'[k].arguments = [n \in 1..pieces'[got'[k].index] |-> <<got'[k].index, n>>]
    <3>1. pieces' = pieces
      OBVIOUS
    <3>. QED  BY <2>1, <3>1
  <2>4. \A j, k \in MS!CallsAt' : j < k => got'[j].index < got'[k].index
    BY <2>1
  <2>5. finishes' # 0
    BY <1>2
  <2>. QED  BY <2>2, <2>3, <2>4, <2>5, Zenon DEF MS!CallsAreWhole
<1>. QED  BY <1>1, <1>2

\* What is not a call does not change what the calls are.
LEMMA CallsStay ==
    ASSUME ModelInv, NEW item \in [kind : {"text", "finish"}],
           got' = Append(got, item), UNCHANGED <<pieces, posted>>,
           (finishes = 0) <=> (finishes' = 0)
    PROVE  got' \in Seq(Item) /\ MS!CallsAreWhole'
<1>1. got \in Seq(Item) /\ item \in Item
  BY DEF ModelInv, Item
<1>2. /\ got' \in Seq(Item) /\ Len(got') = Len(got) + 1 /\ Len(got) \in Nat
      /\ \A k \in 1..Len(got) : got'[k] = got[k]
      /\ got'[Len(got) + 1] = item
  BY <1>1, AppendProperties, LenProperties
<1>3. MS!CallsAt' = MS!CallsAt /\ \A k \in MS!CallsAt : got'[k] = got[k]
  <2>1. DOMAIN got = 1..Len(got) /\ DOMAIN got' = 1..(Len(got) + 1)
    BY <1>1, <1>2, LenProperties
  <2>. QED  BY <1>2, <2>1 DEF MS!CallsAt
<1>4. MS!CallsAreWhole
  BY DEF ModelInv
<1>. QED  BY <1>2, <1>3, <1>4, SameCalls

LEMMA PieceKeeps ==
    ASSUME ModelInv, NEW i \in DOMAIN pieces, MS!Piece(i)
    PROVE  ModelInv'
<1>1. /\ outcome = "open" /\ finishes = 0 /\ posted[i] < pieces[i]
      /\ posted' = [posted EXCEPT ![i] = @ + 1]
      /\ UNCHANGED <<pieces, texts, finishes, got, vectors>>
      /\ calls' = [j \in DOMAIN calls \cup {i} |->
                    IF j = i THEN Append(IF i \in DOMAIN calls THEN calls[i] ELSE <<>>,
                                         <<i, posted[i] + 1>>)
                    ELSE calls[j]]
  BY DEF MS!Piece, MS!Slot
<1> DEFINE begun == {j \in DOMAIN pieces : posted[j] # 0}
           n == posted[i]
<1>2. calls = [j \in begun |-> Pieces(j, posted[j])]
  BY <1>1 DEF ModelInv
<1>3. /\ posted \in [DOMAIN pieces -> 0..MaxPieces] /\ pieces \in [DOMAIN pieces -> 1..MaxPieces]
      /\ n \in Nat /\ pieces[i] \in Nat /\ pieces[i] <= MaxPieces
  BY ModelNumbers DEF ModelInv
<1>4. /\ posted' \in [DOMAIN pieces -> 0..MaxPieces]
      /\ posted'[i] = n + 1 /\ \A j \in DOMAIN pieces : j # i => posted'[j] = posted[j]
  BY <1>1, <1>3, ModelNumbers
<1>5. {j \in DOMAIN pieces : posted'[j] # 0} = begun \cup {i}
  BY <1>3, <1>4
<1>6. Append(IF i \in DOMAIN calls THEN calls[i] ELSE <<>>, <<i, n + 1>>) = Pieces(i, n + 1)
  <2>1. (IF i \in DOMAIN calls THEN calls[i] ELSE <<>>) = Pieces(i, n)
    <3>1. CASE n # 0
      BY <1>2, <3>1
    <3>2. CASE n = 0
      <4>1. i \notin DOMAIN calls
        BY <1>2, <3>2
      <4>2. Pieces(i, n) = <<>>
        BY <3>2 DEF Pieces
      <4>. QED  BY <4>1, <4>2
    <3>. QED  BY <3>1, <3>2
  <2> DEFINE A == {<<i, k>> : k \in 1..(n + 1)}
             s == Pieces(i, n)
             t == Pieces(i, n + 1)
  <2>2. /\ s \in [1..n -> A] /\ t \in [1..(n + 1) -> A]
        /\ \A k \in 1..n : t[k] = s[k]
        /\ t[n + 1] = <<i, n + 1>>
    BY <1>3 DEF Pieces
  <2> HIDE DEF A, s, t, n
  <2>3. t = Append(s, t[n + 1])
    BY <1>3, <2>2, OneLonger
  <2>. QED  BY <2>1, <2>2, <2>3 DEF s, t
<1>7. calls' = [j \in begun \cup {i} |-> Pieces(j, posted'[j])]
  <2>1. DOMAIN calls = begun /\ \A j \in begun : calls[j] = Pieces(j, posted[j])
    BY <1>2
  <2>2. calls' = [j \in begun \cup {i} |-> IF j = i THEN Pieces(i, n + 1) ELSE calls[j]]
    BY <1>1, <1>6, <2>1
  <2>3. \A j \in begun \cup {i} :
            (IF j = i THEN Pieces(i, n + 1) ELSE calls[j]) = Pieces(j, posted'[j])
    BY <1>4, <2>1
  <2> HIDE DEF begun, n
  <2>. QED  BY <2>2, <2>3
<1>8. \A j \in DOMAIN pieces : posted'[j] <= pieces[j]
  BY <1>1, <1>3, <1>4 DEF ModelInv
<1>9. MS!CallsAreWhole'
  <2>1. MS!CallsAreWhole
    BY DEF ModelInv
  <2>. QED  BY <1>1, <2>1 DEF MS!CallsAreWhole, MS!CallsAt
<1>. QED  BY <1>1, <1>3, <1>4, <1>5, <1>7, <1>8, <1>9 DEF ModelInv

\* A finish reason yields the calls there are, by index, and no call again.
LEMMA AnswerEnds ==
    ASSUME ModelInv, MS!Finish
    PROVE  ModelInv'
<1> DEFINE order == InOrder(DOMAIN calls)
           new == [k \in DOMAIN order |->
                    [kind |-> "call", index |-> order[k], arguments |-> calls[order[k]]]]
           n == Len(got)
           m == Cardinality(DOMAIN calls)
<1>1. /\ outcome = "open" /\ finishes < 2 /\ \A i \in DOMAIN pieces : posted[i] = pieces[i]
      /\ finishes' = finishes + 1
      /\ got' = got \o new \o <<[kind |-> "finish"]>>
      /\ calls' = [i \in {} |-> <<>>]
      /\ UNCHANGED <<pieces, posted, texts, vectors>>
  BY OneOrder DEF MS!Finish
<1>2. /\ DOMAIN pieces \in SUBSET CallIndexes /\ pieces \in [DOMAIN pieces -> 1..MaxPieces]
      /\ finishes \in 0..2 /\ got \in Seq(Item) /\ n \in Nat
  BY LenProperties DEF ModelInv
<1>3. /\ finishes = 0 => calls = [i \in DOMAIN pieces |-> Pieces(i, pieces[i])]
      /\ finishes # 0 => DOMAIN calls = {}
  <2>0. \A j \in DOMAIN pieces : pieces[j] \in 1..MaxPieces
    BY <1>2
  <2>1. {j \in DOMAIN pieces : posted[j] # 0} = DOMAIN pieces
    <3>1. \A j \in DOMAIN pieces : posted[j] # 0
      BY <1>1, <2>0, ModelNumbers
    <3>. QED  BY <3>1
  <2>. QED  BY <1>1, <2>1 DEF ModelInv
<1>4. /\ DOMAIN calls \in SUBSET Nat /\ IsFiniteSet(DOMAIN calls)
      /\ DOMAIN calls \in SUBSET DOMAIN pieces
      /\ \A i \in DOMAIN calls : calls[i] = Pieces(i, pieces[i])
  <2>1. /\ DOMAIN calls \in SUBSET DOMAIN pieces
        /\ \A i \in DOMAIN calls : calls[i] = Pieces(i, pieces[i])
    BY <1>2, <1>3
  <2>. QED  BY <1>2, <2>1, ModelNumbers, FS_Subset
<1>5. /\ m \in Nat /\ order \in [1..m -> DOMAIN calls]
      /\ \A x \in DOMAIN calls : \E k \in 1..m : order[k] = x
      /\ \A j, k \in 1..m : j < k => order[j] < order[k]
  BY <1>4, InOrderIsSorted, FS_CardinalityType
<1> HIDE DEF order, n, m
<1>6. /\ DOMAIN new = 1..m
      /\ \A k \in 1..m : /\ new[k].kind = "call" /\ new[k].index = order[k]
                         /\ new[k].arguments = Pieces(order[k], pieces[order[k]])
                         /\ new[k] \in Item
  <2>1. DOMAIN new = 1..m
    BY <1>5
  <2>2. ASSUME NEW k \in 1..m
        PROVE  /\ new[k].kind = "call" /\ new[k].index = order[k]
               /\ new[k].arguments = Pieces(order[k], pieces[order[k]])
               /\ new[k] \in Item
    <3>1. order[k] \in DOMAIN calls
      BY <1>5
    <3>2. calls[order[k]] = Pieces(order[k], pieces[order[k]])
      BY <1>4, <3>1
    <3>3. order[k] \in CallIndexes /\ order[k] \in Nat /\ pieces[order[k]] \in Nat
      BY <1>2, <1>4, <3>1, ModelNumbers
    <3>4. new[k] = [kind |-> "call", index |-> order[k],
                    arguments |-> Pieces(order[k], pieces[order[k]])]
      BY <2>1, <3>2
    <3>5. Pieces(order[k], pieces[order[k]]) \in {Pieces(i, c) : i, c \in Nat}
      BY <3>3
    <3> HIDE DEF new
    <3>. QED  BY <3>3, <3>4, <3>5 DEF Item
  <2>. QED  BY <2>1, <2>2
<1> HIDE DEF new
<1>7. new \in Seq(Item) /\ Len(new) = m
  <2>1. new = [k \in 1..m |-> new[k]]
    BY <1>5 DEF new
  <2>. QED  BY <1>5, <1>6, <2>1
<1> DEFINE end == [kind |-> "finish"]
<1>8. /\ got' \in Seq(Item) /\ Len(got') = n + m + 1
      /\ \A k \in 1..n : got'[k] = got[k]
      /\ \A k \in 1..m : got'[n + k] = new[k]
      /\ got'[n + m + 1] = end
  <2>1. end \in Item
    BY DEF Item
  <2> HIDE DEF end
  <2>2. <<end>> \in Seq(Item) /\ Len(<<end>>) = 1 /\ <<end>>[1] = end
    BY <2>1
  <2>3. /\ got \o new \in Seq(Item) /\ Len(got \o new) = n + m
        /\ \A k \in 1..(n + m) : (got \o new)[k] = IF k <= n THEN got[k] ELSE new[k - n]
    BY <1>2, <1>5, <1>7, ConcatProperties DEF n
  <2> DEFINE longer == got \o new
  <2> HIDE DEF longer
  <2>4. /\ longer \o <<end>> \in Seq(Item) /\ Len(longer \o <<end>>) = n + m + 1
        /\ \A k \in 1..(n + m + 1) : (longer \o <<end>>)[k] =
                IF k <= n + m THEN longer[k] ELSE <<end>>[k - (n + m)]
    BY <2>2, <2>3, ConcatProperties DEF longer
  <2>5. got' = longer \o <<end>>
    BY <1>1 DEF longer, end
  <2>6. \A k \in 1..n : k \in 1..(n + m) /\ k \in 1..(n + m + 1) /\ k <= n + m
    BY <1>2, <1>5
  <2>7. \A k \in 1..m : /\ n + k \in 1..(n + m) /\ n + k \in 1..(n + m + 1)
                        /\ n + k <= n + m /\ ~(n + k <= n) /\ n + k - n = k
    BY <1>2, <1>5
  <2>8. /\ n + m + 1 \in 1..(n + m + 1) /\ ~(n + m + 1 <= n + m)
        /\ n + m + 1 - (n + m) = 1
    BY <1>2, <1>5
  <2>9. \A k \in 1..n : got'[k] = got[k]
    BY <2>3, <2>4, <2>5, <2>6 DEF longer
  <2>10. ASSUME NEW k \in 1..m  PROVE got'[n + k] = new[k]
    <3>1. got'[n + k] = longer[n + k]
      BY <2>4, <2>5, <2>7
    <3> DEFINE j == n + k
    <3>2. j \in 1..(n + m) /\ ~(j <= n) /\ j - n = k
      <4>1. n \in Nat /\ m \in Nat
        BY <1>2, <1>5
      <4>. QED  BY <4>1
    <3> HIDE DEF j
    <3>3. longer[j] = new[j - n]
      BY <2>3, <3>2 DEF longer
    <3>4. longer[j] = new[k]
      BY <3>2, <3>3
    <3>. QED  BY <3>1, <3>4 DEF j
  <2>11. got'[n + m + 1] = end
    BY <2>2, <2>4, <2>5, <2>8
  <2>. QED  BY <2>4, <2>5, <2>9, <2>10, <2>11
<1>9. MS!CallsAt' = MS!CallsAt \cup {n + k : k \in 1..m}
  <2>1. DOMAIN got' = 1..(n + m + 1) /\ DOMAIN got = 1..n
    BY <1>2, <1>8, LenProperties DEF n
  <2>2. \A k \in 1..(n + m + 1) :
            k \in 1..n \/ (\E l \in 1..m : k = n + l) \/ k = n + m + 1
    <3> SUFFICES ASSUME NEW k \in 1..(n + m + 1), k \notin 1..n, k # n + m + 1
                 PROVE  \E l \in 1..m : k = n + l
      OBVIOUS
    <3>1. n \in Nat /\ m \in Nat
      BY <1>2, <1>5
    <3>2. k - n \in 1..m /\ k = n + (k - n)
      BY <3>1
    <3>. QED  BY <3>2
  <2>3. \A k \in 1..m : n + k \in 1..(n + m + 1)
    BY <1>2, <1>5
  <2>4. \A k \in 1..n : k \in 1..(n + m + 1)
    BY <1>2, <1>5
  <2>5. end.kind # "call"
    OBVIOUS
  <2> HIDE DEF end
  <2>. QED  BY <1>6, <1>8, <2>1, <2>2, <2>3, <2>4, <2>5 DEF MS!CallsAt
<1>10. MS!CallsAreWhole'
  <2>0. finishes' # 0
    BY <1>1, <1>2
  <2>1. CASE finishes = 0
    <3>1. MS!CallsAt = {}
      BY <2>1 DEF ModelInv, MS!CallsAreWhole
    <3>2. DOMAIN calls = DOMAIN pieces
      BY <1>3, <2>1
    <3>3. MS!CallsAt' = {n + k : k \in 1..m}
      BY <1>9, <3>1
    <3>4. \A k \in 1..m : /\ got'[n + k].index = order[k] /\ order[k] \in DOMAIN pieces
                          /\ got'[n + k].arguments = Pieces(order[k], pieces[order[k]])
      BY <1>5, <1>6, <1>8, <3>2
    <3>5. {got'[k].index : k \in MS!CallsAt'} = DOMAIN pieces
      <4>1. \A k \in MS!CallsAt' : got'[k].index \in DOMAIN pieces
        BY <3>3, <3>4
      <4>2. ASSUME NEW i \in DOMAIN pieces
            PROVE  \E k \in MS!CallsAt' : got'[k].index = i
        <5>1. PICK k \in 1..m : order[k] = i
          BY <1>5, <3>2
        <5>2. n + k \in MS!CallsAt' /\ got'[n + k].index = i
          BY <3>3, <3>4, <5>1
        <5>. QED  BY <5>2
      <4>. QED  BY <4>1, <4>2
    <3>6. \A k \in MS!CallsAt' :
             got'[k].arguments = [c \in 1..pieces[got'[k].index] |-> <<got'[k].index, c>>]
      <4>1. ASSUME NEW k \in 1..m
            PROVE  got'[n + k].arguments =
                     [c \in 1..pieces[got'[n + k].index] |-> <<got'[n + k].index, c>>]
        <5>1. got'[n + k].arguments = Pieces(order[k], pieces[order[k]])
          BY <3>4
        <5>2. got'[n + k].index = order[k]
          BY <3>4
        <5>. QED  BY <5>1, <5>2, Zenon DEF Pieces
      <4>2. ASSUME NEW k \in MS!CallsAt'
            PROVE  got'[k].arguments = [c \in 1..pieces[got'[k].index] |-> <<got'[k].index, c>>]
        <5>1. PICK l \in 1..m : k = n + l
          BY <3>3
        <5>. QED  BY <4>1, <5>1, Zenon
      <4>. QED  BY <4>2
    <3>7. \A j, k \in MS!CallsAt' : j < k => got'[j].index < got'[k].index
      <4> SUFFICES ASSUME NEW j \in 1..m, NEW k \in 1..m, n + j < n + k
                   PROVE  got'[n + j].index < got'[n + k].index
        BY <3>3
      <4>1. j < k
        BY <1>2
      <4>. QED  BY <1>5, <3>4, <4>1
    <3>. QED  BY <1>1, <2>0, <3>5, <3>6, <3>7 DEF MS!CallsAreWhole
  <2>2. CASE finishes # 0
    <3>1. m = 0
      BY <1>3, <2>2, FS_EmptySet DEF m
    <3>2. MS!CallsAt' = MS!CallsAt
      BY <1>9, <3>1
    <3>3. \A k \in MS!CallsAt : got'[k] = got[k]
      <4>1. MS!CallsAt \in SUBSET (1..n)
        BY <1>2, LenProperties DEF MS!CallsAt, n
      <4>. QED  BY <1>8, <4>1
    <3>4. MS!CallsAreWhole
      BY DEF ModelInv
    <3>. QED  BY <1>1, <2>0, <2>2, <3>2, <3>3, <3>4, SameCalls
  <2>. QED  BY <2>1, <2>2
<1>11. finishes' \in 0..2 /\ finishes' # 0
  BY <1>1, <1>2
<1>12. got' \in Seq(Item)
  BY <1>8
<1>13. UNCHANGED <<pieces, posted, texts, vectors>> /\ calls' = [i \in {} |-> <<>>]
  BY <1>1
<1>. QED  BY ONLY ModelInv, <1>10, <1>11, <1>12, <1>13 DEF ModelInv

\* As many vectors as texts are all of them, in the order of the texts.
LEMMA EmbedKeeps ==
    ASSUME ModelInv, MS!Embed
    PROVE  ModelInv'
<1>0. PICK list \in UNION {MS!SetToSeqs(returned) : returned \in SUBSET (1..Texts)} :
        vectors' = IF Len(list) = Texts THEN InOrder(MS!Range(list)) ELSE <<>>
  BY OneOrder DEF MS!Embed
<1>1. PICK returned \in SUBSET (1..Texts) : list \in MS!SetToSeqs(returned)
  OBVIOUS
<1>2. UNCHANGED <<pieces, posted, texts, finishes, calls, got>>
  BY DEF MS!Embed
<1>3. IsFiniteSet(returned) /\ Cardinality(returned) \in Nat /\ Cardinality(returned) <= Texts
      /\ (Cardinality(returned) = Texts => returned = 1..Texts)
      /\ Cardinality(1..Texts) = Texts
  <2>1. IsFiniteSet(1..Texts) /\ Cardinality(1..Texts) = Texts
    BY ModelNumbers, FS_Interval
  <2>2. /\ IsFiniteSet(returned) /\ Cardinality(returned) <= Cardinality(1..Texts)
        /\ Cardinality(1..Texts) = Cardinality(returned) => 1..Texts = returned
    BY <2>1, FS_Subset
  <2>3. Cardinality(returned) \in Nat
    BY <2>2, FS_CardinalityType
  <2>. QED  BY <2>1, <2>2, <2>3
<1>4. vectors' \in {<<>>, [i \in 1..Texts |-> i]}
  <2> SUFFICES ASSUME Len(list) = Texts
               PROVE  InOrder(MS!Range(list)) = [i \in 1..Texts |-> i]
    BY <1>0
  <2>1. /\ list \in [1..Cardinality(returned) -> returned]
        /\ \A i, j \in 1..Cardinality(returned) : i # j => list[i] # list[j]
    BY <1>1, OneOrder DEF MS!SetToSeqs
  <2>2. Cardinality(returned) = Texts
    BY <1>3, <2>1
  <2>3. returned = 1..Texts
    BY <1>3, <2>2
  <2>4. MS!Range(list) = 1..Texts
    <3>1. list \in Injection(1..Texts, 1..Texts)
      BY <2>1, <2>2, <2>3 DEF Injection, IsInjective
    <3>2. IsFiniteSet(1..Texts)
      BY <1>3, <2>3
    <3>3. list \in Surjection(1..Texts, 1..Texts)
      BY <3>1, <3>2, FS_Injection
    <3>4. DOMAIN list = 1..Texts
      BY <2>1, <2>2
    <3>5. list \in [1..Texts -> 1..Texts] /\ \A t \in 1..Texts : \E k \in 1..Texts : list[k] = t
      BY <3>3 DEF Surjection
    <3>. QED  BY <3>4, <3>5 DEF MS!Range
  <2>5. \A x \in 1..Texts : Rank(1..Texts, x) = x
    <3> SUFFICES ASSUME NEW x \in 1..Texts  PROVE Rank(1..Texts, x) = x
      OBVIOUS
    <3>1. {y \in 1..Texts : y <= x} = 1..x
      BY ModelNumbers
    <3>2. Cardinality(1..x) = x
      BY ModelNumbers, FS_Interval
    <3>. QED  BY <3>1, <3>2 DEF Rank
  <2>6. ASSUME NEW k \in 1..Texts
        PROVE  (CHOOSE x \in {y \in 1..Texts : Rank(1..Texts, y) = k} : TRUE) = k
    <3>1. {y \in 1..Texts : Rank(1..Texts, y) = k} = {k}
      BY <2>5
    <3>. QED  BY <3>1
  <2>. QED  BY <1>3, <2>4, <2>6 DEF InOrder
<1>5. MS!CallsAreWhole'
  BY <1>2 DEF ModelInv, MS!CallsAreWhole, MS!CallsAt
<1>. QED  BY <1>2, <1>4, <1>5 DEF ModelInv

LEMMA ModelStep == ModelInv /\ [MS!Next]_(MS!vars) => ModelInv'
<1> SUFFICES ASSUME ModelInv, [MS!Next]_(MS!vars)
             PROVE  ModelInv'
  OBVIOUS
<1>1. CASE MS!Text
  <2>1. /\ texts < MaxText /\ texts' = texts + 1
        /\ got' = Append(got, [kind |-> "text"])
        /\ UNCHANGED <<pieces, posted, finishes, calls, vectors>>
    BY <1>1 DEF MS!Text
  <2>2. [kind |-> "text"] \in [kind : {"text", "finish"}]
    OBVIOUS
  <2>3. got' \in Seq(Item) /\ MS!CallsAreWhole'
    BY <2>1, <2>2, CallsStay
  <2>4. texts' \in 0..MaxText
    BY <2>1, ModelNumbers DEF ModelInv
  <2>. QED  BY <2>1, <2>3, <2>4 DEF ModelInv
<1>2. CASE MS!Close
  BY <1>2 DEF MS!Close, ModelInv, MS!CallsAreWhole, MS!CallsAt
<1>3. CASE UNCHANGED MS!vars
  BY <1>3 DEF MS!vars, ModelInv, MS!CallsAreWhole, MS!CallsAt
<1>. QED  BY <1>1, <1>2, <1>3, PieceKeeps, AnswerEnds, EmbedKeeps DEF MS!Next

LEMMA ModelInvariant == Spec => []ModelInv
<1>1. Init => ModelInv
  BY ModelInit DEF Init
<1>2. ModelInv /\ [Next]_vars => ModelInv'
  <2>1. [Next]_vars => [MS!Next]_(MS!vars)
    BY DEF Next, vars, Chat, RateLimit, ProviderKeys, SessionLife, Erasure,
           Serving, Migrations, ModelStream, EventParser, EvalGate, Only,
           modelVars, MS!vars
  <2>. QED  BY <2>1, ModelStep
<1>. QED  BY <1>1, <1>2, PTL DEF Spec

LEMMA ModelTypes == ModelInv => MS!TypeOK
<1> SUFFICES ASSUME ModelInv  PROVE MS!TypeOK
  OBVIOUS
<1>1. DOMAIN calls \in SUBSET DOMAIN pieces
  BY DEF ModelInv
<1>2. \A k \in DOMAIN got : got[k].kind \in {"text", "call", "finish"}
  <2>1. \A k \in DOMAIN got : got[k] \in Item
    BY ElementOfSeq, LenProperties DEF ModelInv
  <2>2. \A item \in Item : item.kind \in {"text", "call", "finish"}
    BY DEF Item
  <2>. QED  BY <2>1, <2>2
<1>. QED  BY <1>1, <1>2 DEF ModelInv, MS!TypeOK

\* A tool call reaches the service whole or not at all, once and in order, for
\* any calls, indexes and pieces, however a provider interleaves them and
\* breaks off (llm.py stream).
THEOREM CallsArriveWhole == Spec => []CallsAreWhole
<1>1. ModelInv => CallsAreWhole
  BY DEF ModelInv, CallsAreWhole
<1>. QED  BY <1>1, ModelInvariant, PTL

-----------------------------------------------------------------------------
(* The types of what Chat keeps, and the call an agent waits for.          *)

\* The calls that the rounds before the n-th can have begun.
Budget(n) == n * MaxCalls

LEMMA BudgetFacts ==
    /\ \A n \in Nat : /\ Budget(n) \in Nat /\ Budget(n + 1) \in Nat
                        /\ Budget(n + 1) = Budget(n) + MaxCalls
    /\ \A m, n \in Nat : m <= n => Budget(m) <= Budget(n)
    /\ MaxCalls \in Nat /\ MaxSteps \in Nat /\ MaxMcp \in Nat /\ MaxHits \in Nat
    /\ MaxTurns \in Nat
<1>1. /\ MaxCalls \in Nat /\ MaxSteps \in Nat /\ MaxMcp \in Nat /\ MaxHits \in Nat
      /\ MaxTurns \in Nat
  BY ServicesConstants DEF CH!ChatConstants
<1>2. ASSUME NEW m \in Nat, NEW n \in Nat, m <= n
      PROVE  m * MaxCalls <= n * MaxCalls
  <2>1. PICK k \in Nat : n = m + k
    <3>1. n - m \in Nat /\ n = m + (n - m)
      BY <1>2
    <3>. QED  BY <3>1
  <2>2. (m + k) * MaxCalls = m * MaxCalls + k * MaxCalls
    BY <1>1
  <2>3. k * MaxCalls \in Nat /\ m * MaxCalls \in Nat
    BY <1>1
  <2>. QED  BY <2>1, <2>2, <2>3
<1>3. \A n \in Nat : n * MaxCalls \in Nat /\ (n + 1) * MaxCalls = n * MaxCalls + MaxCalls
  BY <1>1
<1>4. \A n \in Nat : (n + 1) * MaxCalls \in Nat
  BY <1>1, <1>3
<1>. QED  BY <1>1, <1>2, <1>3, <1>4 DEF Budget

\* An asker's counters stay within the rounds it has had.
Within(k, ask) ==
    /\ ask.stage = "open" <=> k = "mcp"
    /\ ask.step <= MaxSteps
    /\ ask.stage \in {"calling", "waiting"} => ask.step < MaxSteps
    /\ Len(ask.todo) <= MaxCalls
    /\ ask.found.sections \in CH!Hits
    /\ k = "mcp" => ask.begun <= MaxMcp
    /\ k # "mcp" =>
          /\ ask.begun <= Budget(MaxSteps)
          /\ ask.stage \in {"calling", "waiting"} =>
                ask.begun + Len(ask.todo) <= Budget(ask.step + 1)
          /\ ask.stage \notin {"calling", "waiting", "failed", "ended"} =>
                ask.begun <= Budget(ask.step)

Quotas == \A c \in CH!Askers : Within(kind[c], asks[c])

LEMMA SameQuota ==
    ASSUME NEW k, NEW ask, NEW new, Within(k, ask),
           new.stage = ask.stage, new.step = ask.step, new.todo = ask.todo,
           new.begun = ask.begun, new.found = ask.found
    PROVE  Within(k, new)
  BY DEF Within

LEMMA NoHits == CH!Nothing.sections = <<>> /\ <<>> \in CH!Hits
<1>1. <<>> \in [1..0 -> Sections] /\ 0 \in 0..MaxHits
  BY BudgetFacts
<1>2. <<>> \in UNION {[1..n -> Sections] : n \in 0..MaxHits}
  BY <1>1
<1>3. DOMAIN <<>> = {}
  OBVIOUS
<1>. QED  BY <1>2, <1>3 DEF CH!Hits, CH!Nothing

LEMMA FoundAreHits == \A call : \A f \in CH!Found(call) : f.sections \in CH!Hits
<1> SUFFICES ASSUME NEW call, NEW f \in CH!Found(call)  PROVE f.sections \in CH!Hits
  OBVIOUS
<1>1. \/ \E h \in CH!Hits \cup {<<>>} : f = [sections |-> h, alerts |-> {}]
      \/ \E a \in SUBSET Alerts : f = [sections |-> <<>>, alerts |-> a]
  BY DEF CH!Found
<1>. QED  BY <1>1, NoHits

LEMMA QuotasAtFirst == CH!Init => Quotas
<1> SUFFICES ASSUME CH!Init, NEW c \in CH!Askers
             PROVE  Within(kind[c], asks[c])
  BY DEF Quotas
<1>1. asks[c] = CH!Fresh(kind[c])
  BY DEF CH!Init
<1>2. /\ asks[c].stage = IF kind[c] = "mcp" THEN "open" ELSE "idle"
      /\ asks[c].step = 0 /\ asks[c].todo = <<>> /\ asks[c].begun = 0
      /\ asks[c].found = CH!Nothing
  BY <1>1 DEF CH!Fresh
<1>3. Len(<<>>) = 0
  OBVIOUS
<1>4. /\ 0 <= MaxSteps /\ 0 <= MaxCalls /\ 0 <= MaxMcp
      /\ 0 <= Budget(MaxSteps) /\ 0 <= Budget(0)
  <2>1. 0 \in Nat /\ Budget(0) \in Nat /\ Budget(MaxSteps) \in Nat
    BY BudgetFacts
  <2>. QED  BY <2>1, BudgetFacts
<1> DEFINE first == asks[c]
<1> HIDE DEF first
<1>5. /\ first.stage = IF kind[c] = "mcp" THEN "open" ELSE "idle"
      /\ first.step = 0 /\ Len(first.todo) = 0 /\ first.begun = 0
      /\ first.found.sections \in CH!Hits
  BY <1>2, <1>3, NoHits DEF first
<1>6. Within(kind[c], first)
  BY <1>4, <1>5 DEF Within
<1>. QED  BY <1>6 DEF first

\* What a step of an asker does to what is counted.
LEMMA AskerCounts ==
    ASSUME ChatInv, Quotas, NEW c \in CH!Askers,
           \/ CH!Ask(c) \/ CH!CheckSwitch(c) \/ CH!ReadContext(c) \/ CH!RecordAsked(c)
           \/ CH!RequestFails(c) \/ CH!ModelFails(c) \/ CH!NextRound(c)
           \/ CH!Cut(c) \/ CH!McpCall(c)
    PROVE  Within(kind[c], asks'[c]) /\ \A d \in CH!Askers : d # c => asks'[d] = asks[d]
<1> DEFINE ask == asks[c]
           new == asks'[c]
<1>1. /\ asks \in [CH!Askers -> AskRecord] /\ ask \in AskRecord /\ Within(kind[c], ask)
      /\ ask.step \in Nat /\ ask.begun \in Nat /\ Len(ask.todo) \in Nat
  BY DEF ChatInv, Quotas, AskRecord
<1> HIDE DEF ask, new
<1>2. /\ Budget(ask.step) \in Nat /\ Budget(MaxSteps) \in Nat
      /\ Budget(ask.step + 1) = Budget(ask.step) + MaxCalls
      /\ MaxCalls \in Nat /\ MaxSteps \in Nat /\ MaxMcp \in Nat
  <2>1. MaxCalls \in Nat /\ MaxSteps \in Nat /\ MaxMcp \in Nat
    BY BudgetFacts
  <2>2. Budget(ask.step) \in Nat /\ Budget(ask.step + 1) = Budget(ask.step) + MaxCalls
    BY <1>1, BudgetFacts
  <2>3. Budget(MaxSteps) \in Nat
    BY BudgetFacts
  <2>. QED  BY <2>1, <2>2, <2>3
<1>3. \A d \in CH!Askers : d # c => asks'[d] = asks[d]
  BY <1>1 DEF CH!Ask, CH!CheckSwitch, CH!ReadContext, CH!RecordAsked, CH!RequestFails,
              CH!ModelFails, CH!NextRound, CH!Cut, CH!McpCall
<1>4. CASE CH!Ask(c) \/ CH!CheckSwitch(c)
  <2>1. /\ ask.stage \in {"idle", "arrived"}
        /\ new.stage \in {"arrived", "refused", "recording", "reading"}
        /\ new.step = ask.step /\ new.todo = ask.todo /\ new.begun = ask.begun
        /\ new.found = ask.found
    BY <1>1, <1>4 DEF CH!Ask, CH!CheckSwitch, AskRecord, ask, new
  <2>. QED  BY <1>1, <1>3, <2>1 DEF Within, new
<1>5. CASE CH!ReadContext(c)
  <2>0. PICK h \in CH!Hits : \E a \in SUBSET Alerts :
          asks' = [asks EXCEPT ![c].stage = "recording",
                               ![c].found = [sections |-> h, alerts |-> a]]
    BY <1>5 DEF CH!ReadContext
  <2>a. asks[c].stage = "reading"
    BY <1>5 DEF CH!ReadContext
  <2>1. /\ ask.stage = "reading" /\ new.stage = "recording"
        /\ new.step = ask.step /\ new.todo = ask.todo /\ new.begun = ask.begun
        /\ new.found.sections \in CH!Hits
    BY <1>1, <2>a, <2>0 DEF AskRecord, ask, new
  <2>. QED  BY <1>1, <1>3, <2>1 DEF Within, new
<1>6. CASE CH!RecordAsked(c) \/ CH!RequestFails(c)
  <2>1. /\ ask.stage \in {"arrived", "reading", "recording"}
        /\ new.stage \in {"answering", "failed"}
        /\ new.step = ask.step /\ new.todo = ask.todo /\ new.begun = ask.begun
        /\ new.found = CH!Nothing
    BY <1>1, <1>6 DEF CH!RecordAsked, CH!RequestFails, CH!Open, AskRecord, ask, new
  <2>. QED  BY <1>1, <1>3, <2>1, NoHits DEF Within, new
<1>7. CASE CH!ModelFails(c)
  <2>1. /\ ask.stage = "answering" /\ new.stage = "failed"
        /\ new.step = ask.step /\ new.todo = ask.todo /\ new.begun = ask.begun
        /\ new.found = ask.found
    BY <1>1, <1>7 DEF CH!ModelFails, AskRecord, ask, new
  <2>. QED  BY <1>1, <1>3, <2>1 DEF Within, new
<1>8. CASE CH!NextRound(c)
  <2>1. /\ ask.stage = "calling" /\ new.stage = "answering" /\ ask.todo = <<>>
        /\ new.step = ask.step + 1 /\ new.todo = ask.todo /\ new.begun = ask.begun
        /\ new.found = ask.found
    BY <1>1, <1>8 DEF CH!NextRound, AskRecord, ask, new
  <2>2. Len(ask.todo) = 0
    BY <2>1
  <2>3. ask.step + 1 <= MaxSteps /\ kind[c] # "mcp"
    BY <1>1, <1>2, <2>1 DEF Within
  <2>4. ask.begun <= Budget(ask.step + 1)
    BY <1>1, <1>2, <2>1, <2>2, <2>3 DEF Within
  <2>. QED  BY <1>1, <1>3, <2>1, <2>3, <2>4 DEF Within, new
<1>9. CASE CH!Cut(c)
  <2>1. /\ ask.stage \in CH!Answering /\ new.stage = "ended" /\ new.todo = <<>>
        /\ new.step = ask.step /\ new.begun = ask.begun /\ new.found = ask.found
    BY <1>1, <1>9 DEF CH!Cut, AskRecord, ask, new
  <2>2. Len(new.todo) = 0 /\ ask.stage # "open"
    BY <2>1 DEF CH!Answering
  <2>. QED  BY <1>1, <1>2, <1>3, <2>1, <2>2 DEF Within, new
<1>10. CASE CH!McpCall(c)
  <2>1. /\ ask.stage = "open" /\ new.stage = "open" /\ ask.begun < MaxMcp
        /\ new.step = ask.step /\ new.todo = ask.todo /\ new.begun = ask.begun + 1
        /\ new.found = ask.found
    BY <1>1, <1>10 DEF CH!McpCall, AskRecord, ask, new
  <2>2. kind[c] = "mcp" /\ ask.begun + 1 <= MaxMcp
    BY <1>1, <1>2, <2>1 DEF Within
  <2>. QED  BY <1>1, <1>3, <2>1, <2>2 DEF Within, new
<1>. QED  BY <1>4, <1>5, <1>6, <1>7, <1>8, <1>9, <1>10

LEMMA ModelAnswersCounts ==
    ASSUME ChatInv, Quotas, NEW c \in CH!Askers, CH!ModelAnswers(c)
    PROVE  Within(kind[c], asks'[c]) /\ \A d \in CH!Askers : d # c => asks'[d] = asks[d]
<1> DEFINE ask == asks[c]
           new == asks'[c]
<1>1. /\ asks \in [CH!Askers -> AskRecord] /\ ask \in AskRecord /\ Within(kind[c], ask)
      /\ ask.step \in Nat /\ ask.begun \in Nat /\ ask.stage = "answering"
  BY DEF ChatInv, Quotas, AskRecord, CH!ModelAnswers
<1> HIDE DEF ask, new
<1>2. /\ Budget(ask.step) \in Nat /\ Budget(ask.step + 1) = Budget(ask.step) + MaxCalls
      /\ MaxCalls \in Nat /\ MaxSteps \in Nat
  BY <1>1, BudgetFacts
<1>3. PICK n \in 0..MaxCalls : \E todo \in [1..n -> CH!Calls] :
        IF n > 0 /\ CH!Offered(c)
        THEN asks' = [asks EXCEPT ![c].stage = "calling", ![c].todo = todo]
        ELSE asks' = [asks EXCEPT ![c].stage = "ended"]
  BY DEF CH!ModelAnswers
<1>4. PICK todo \in [1..n -> CH!Calls] :
        IF n > 0 /\ CH!Offered(c)
        THEN asks' = [asks EXCEPT ![c].stage = "calling", ![c].todo = todo]
        ELSE asks' = [asks EXCEPT ![c].stage = "ended"]
  BY <1>3
<1>5. CASE CH!Offered(c) /\ asks' = [asks EXCEPT ![c].stage = "calling", ![c].todo = todo]
  <2>1. /\ new.stage = "calling" /\ new.todo = todo /\ new.step = ask.step
        /\ new.begun = ask.begun /\ new.found = ask.found
        /\ \A d \in CH!Askers : d # c => asks'[d] = asks[d]
    BY <1>1, <1>5 DEF AskRecord, ask, new
  <2>2. Len(todo) = n /\ n \in Nat /\ n <= MaxCalls
    BY <1>2, <1>4
  <2>3. ask.step < MaxSteps
    BY <1>5 DEF CH!Offered, ask
  <2>. QED  BY <1>1, <1>2, <2>1, <2>2, <2>3 DEF Within, new
<1>6. CASE asks' = [asks EXCEPT ![c].stage = "ended"]
  <2>1. /\ new.stage = "ended" /\ new.todo = ask.todo /\ new.step = ask.step
        /\ new.begun = ask.begun /\ new.found = ask.found
        /\ \A d \in CH!Askers : d # c => asks'[d] = asks[d]
    BY <1>1, <1>6 DEF AskRecord, ask, new
  <2>. QED  BY <1>1, <2>1 DEF Within, new
<1>. QED  BY <1>4, <1>5, <1>6

LEMMA NextCallCounts ==
    ASSUME ChatInv, Quotas, NEW c \in CH!Askers, CH!NextCall(c)
    PROVE  /\ Within(kind[c], asks'[c])
           /\ \A d \in CH!Askers : d # c => asks'[d] = asks[d]
           /\ asks[c].stage = "calling" /\ asks'[c].stage \in {"calling", "waiting"}
           /\ \/ asks'[c].stage = "calling" /\ running' = running
              \/ /\ asks'[c].stage = "waiting"
                 /\ \E call : running' = running \cup {CH!Begun(c, call)}
<1> DEFINE ask == asks[c]
           new == asks'[c]
           call == Head(ask.todo)
           todo == Tail(ask.todo)
           skip == [asks EXCEPT ![c].todo = todo, ![c].called = @ \cup {call}]
<1>1. /\ asks \in [CH!Askers -> AskRecord] /\ ask \in AskRecord /\ Within(kind[c], ask)
      /\ ask.step \in Nat /\ ask.begun \in Nat /\ ask.stage = "calling"
      /\ ask.todo # <<>> /\ ask.todo \in Seq(CH!Calls)
  BY DEF ChatInv, Quotas, AskRecord, CH!NextCall
<1>2. /\ Len(todo) \in Nat /\ Len(ask.todo) = Len(todo) + 1
  BY <1>1
<1>3. /\ Budget(ask.step + 1) \in Nat /\ Budget(ask.step + 1) <= Budget(MaxSteps)
      /\ Budget(MaxSteps) \in Nat /\ MaxCalls \in Nat /\ MaxSteps \in Nat
  <2>1. MaxCalls \in Nat /\ MaxSteps \in Nat
    BY BudgetFacts
  <2>2. ask.step + 1 \in Nat /\ ask.step + 1 <= MaxSteps
    BY <1>1, <2>1 DEF Within
  <2> HIDE DEF ask
  <2>3. Budget(ask.step + 1) \in Nat
    BY <2>2, BudgetFacts
  <2>4. Budget(MaxSteps) \in Nat
    BY BudgetFacts
  <2>5. Budget(ask.step + 1) <= Budget(MaxSteps)
    BY <2>1, <2>2, BudgetFacts
  <2>. QED  BY <2>1, <2>3, <2>4, <2>5
<1>4. \/ asks' = skip /\ running' = running
      \/ /\ asks' = [skip EXCEPT ![c].stage = "waiting", ![c].begun = @ + 1]
         /\ running' = running \cup {CH!Begun(c, call)}
  BY DEF CH!NextCall
<1> HIDE DEF todo, call
<1>5. /\ \A d \in CH!Askers : d # c => asks'[d] = asks[d]
      /\ new.todo = todo /\ new.step = ask.step /\ new.found = ask.found
      /\ \/ new.stage = "calling" /\ new.begun = ask.begun /\ running' = running
         \/ /\ new.stage = "waiting" /\ new.begun = ask.begun + 1
            /\ running' = running \cup {CH!Begun(c, call)}
  BY <1>1, <1>4 DEF AskRecord
<1> HIDE DEF ask, new, skip
<1>6. Within(kind[c], new)
  <2>1. kind[c] # "mcp" /\ ask.begun + Len(ask.todo) <= Budget(ask.step + 1)
    BY <1>1 DEF Within
  <2>2. /\ new.begun \in Nat /\ new.begun <= ask.begun + 1
        /\ new.begun + Len(new.todo) <= Budget(new.step + 1)
        /\ new.begun <= Budget(MaxSteps) /\ Len(new.todo) <= MaxCalls
    <3>1. new.begun \in Nat /\ new.begun <= ask.begun + 1
      BY <1>1, <1>5
    <3>2. /\ new.begun + Len(new.todo) <= Budget(new.step + 1)
          /\ new.begun <= Budget(new.step + 1)
      BY <1>1, <1>2, <1>3, <1>5, <2>1, <3>1
    <3>3. ask.step = new.step /\ Len(ask.todo) <= MaxCalls
      BY <1>1, <1>5 DEF Within
    <3>4. Len(new.todo) <= MaxCalls
      BY <1>2, <1>3, <1>5, <3>3
    <3>. QED  BY <1>3, <1>5, <3>1, <3>2, <3>3, <3>4
  <2>3. /\ new.stage \in {"calling", "waiting"} /\ new.step <= MaxSteps
        /\ new.step < MaxSteps /\ new.found.sections \in CH!Hits
    BY <1>1, <1>5 DEF Within
  <2>. QED  BY <2>1, <2>2, <2>3 DEF Within
<1>. QED  BY <1>1, <1>5, <1>6 DEF ask, new

\* What a call does to what its asker has counted.
LEMMA CallCounts ==
    ASSUME ChatInv, Quotas, NEW r \in running, NEW c, c = r.by,
           \/ CH!Query(r) \/ CH!QueryFails(r) \/ CH!TakeResult(r)
           \/ CH!TakeError(r) \/ CH!Deadline(r)
    PROVE  /\ Within(kind[c], asks'[c])
           /\ \A d \in CH!Askers : d # c => asks'[d] = asks[d]
           /\ CH!Query(r) \/ CH!QueryFails(r) => asks'[c].stage = asks[c].stage
           /\ CH!TakeResult(r) \/ CH!TakeError(r) \/ CH!Deadline(r) =>
                /\ asks[c].stage # "waiting" => asks'[c].stage = asks[c].stage
                /\ asks[c].stage = "waiting" => asks'[c].stage \in {"calling", "failed"}
<1> DEFINE ask == asks[c]
           new == asks'[c]
<1>1. /\ asks \in [CH!Askers -> AskRecord] /\ c \in CH!Askers /\ ask \in AskRecord
      /\ Within(kind[c], ask) /\ ask.step \in Nat /\ ask.begun \in Nat
      /\ Len(ask.todo) \in Nat
  BY CallsOf DEF ChatInv, Quotas, AskRecord
<1> HIDE DEF ask, new
<1>2. /\ Budget(ask.step + 1) \in Nat /\ MaxCalls \in Nat
  <2>1. Budget(ask.step + 1) \in Nat
    BY <1>1, BudgetFacts
  <2>. QED  BY <2>1, BudgetFacts
<1>3. \A d \in CH!Askers : d # c => asks'[d] = asks[d]
  BY <1>1 DEF CH!Query, CH!QueryFails, CH!TakeResult, CH!TakeError, CH!Deadline
<1>4. ASSUME CH!Query(r) \/ CH!QueryFails(r)
      PROVE  Within(kind[c], new) /\ new.stage = ask.stage
  <2>1. /\ new.stage = ask.stage /\ new.step = ask.step /\ new.todo = ask.todo
        /\ new.begun = ask.begun /\ new.found = ask.found
    <3>1. CASE CH!Query(r)
      BY <1>1, <3>1 DEF CH!Query, AskRecord, ask, new
    <3>2. CASE CH!QueryFails(r)
      BY <1>1, <3>2 DEF CH!QueryFails, ask, new
    <3>. QED  BY <1>4, <3>1, <3>2
  <2>2. Within(kind[c], new)
    BY <1>1, <2>1, SameQuota
  <2>. QED  BY <2>1, <2>2
<1>5. ASSUME CH!TakeResult(r) \/ CH!TakeError(r) \/ CH!Deadline(r)
      PROVE  /\ Within(kind[c], new)
             /\ ask.stage # "waiting" => new.stage = ask.stage
             /\ ask.stage = "waiting" => new.stage \in {"calling", "failed"}
  <2>1. /\ new.step = ask.step /\ new.begun = ask.begun /\ new.found = ask.found
        /\ new.todo \in {ask.todo, <<>>}
        /\ ask.stage # "waiting" => new.stage = ask.stage
        /\ ask.stage = "waiting" => new.stage \in {"calling", "failed"}
    <3>1. CASE CH!TakeResult(r)
      BY <1>1, <3>1 DEF CH!TakeResult, CH!Resume, AskRecord, ask, new
    <3>2. CASE CH!TakeError(r)
      BY <1>1, <3>2 DEF CH!TakeError, AskRecord, ask, new
    <3>3. CASE CH!Deadline(r)
      BY <1>1, <3>3 DEF CH!Deadline, CH!Resume, AskRecord, ask, new
    <3>. QED  BY <1>5, <3>1, <3>2, <3>3
  <2>2. Len(new.todo) \in Nat /\ Len(new.todo) <= Len(ask.todo)
    BY <1>1, <2>1
  <2>3. Within(kind[c], new)
    BY <1>1, <1>2, <2>1, <2>2 DEF Within
  <2>. QED  BY <2>1, <2>3
<1>. QED  BY <1>3, <1>4, <1>5 DEF ask, new

\* A turn of the switch is heard by questions, and counts for nothing else.
LEMMA TurnCounts ==
    ASSUME ChatInv, Quotas, NEW to \in BOOLEAN, CH!Turn(to)
    PROVE  /\ \A c \in CH!Askers : /\ Within(kind[c], asks'[c])
                                   /\ asks'[c].stage = asks[c].stage
           /\ turned' = Append(turned, to) /\ Len(turned) < MaxTurns
<1>1. /\ turned' = Append(turned, to) /\ Len(turned) < MaxTurns
      /\ asks' = [c \in CH!Askers |->
                    IF asks[c].stage = "arrived"
                    THEN [asks[c] EXCEPT !.heard = @ \cup {to}] ELSE asks[c]]
  BY DEF CH!Turn
<1>2. ASSUME NEW c \in CH!Askers
      PROVE  Within(kind[c], asks'[c]) /\ asks'[c].stage = asks[c].stage
  <2> DEFINE ask == asks[c]
             new == asks'[c]
  <2>1. ask \in AskRecord /\ Within(kind[c], ask)
    BY DEF ChatInv, Quotas
  <2>2. /\ new.stage = ask.stage /\ new.step = ask.step /\ new.todo = ask.todo
        /\ new.begun = ask.begun /\ new.found = ask.found
    BY <1>1, <2>1 DEF AskRecord
  <2> HIDE DEF ask, new
  <2>3. Within(kind[c], new)
    BY <2>1, <2>2, SameQuota
  <2>. QED  BY <2>2, <2>3 DEF ask, new
<1>. QED  BY <1>1, <1>2

-----------------------------------------------------------------------------
(* The one call an agent waits for.                                        *)

Awaited(these, c) == {r \in these : r.by = c /\ r.awaited}

\* An agent that waits waits for one call, another for none.
Waits(stage, these, c) ==
    IF stage = "waiting" THEN \E r \in these : Awaited(these, c) = {r}
    ELSE Awaited(these, c) = {}

OneAwaited ==
    \A c \in CH!Askers : kind[c] = "agent" => Waits(asks[c].stage, running, c)

\* Calls of one asker come and go; no other waits for anything else.
LEMMA OthersWait ==
    ASSUME NEW these, NEW later, NEW d, NEW stage, Awaited(later, d) = Awaited(these, d),
           Waits(stage, these, d)
    PROVE  Waits(stage, later, d)
<1>1. CASE stage = "waiting"
  <2>1. PICK r \in these : Awaited(these, d) = {r}
    BY <1>1 DEF Waits
  <2>2. r \in later
    BY <2>1 DEF Awaited
  <2>. QED  BY <1>1, <2>1, <2>2 DEF Waits
<1>2. CASE stage # "waiting"
  BY <1>2 DEF Waits
<1>. QED  BY <1>1, <1>2

\* A step of asker c, whose calls are among those that come or go.
LEMMA OneAsker ==
    ASSUME OneAwaited, NEW c \in CH!Askers, NEW off, NEW on,
           \A r \in off \cup on : r.by = c,
           running' = (running \ off) \cup on, kind' = kind,
           \A d \in CH!Askers : d # c => asks'[d] = asks[d],
           kind[c] = "agent" =>
                \A later : later = running' => Waits(asks'[c].stage, later, c)
    PROVE  OneAwaited'
<1>1. PICK these, later : these = running /\ later = running' /\ later = (these \ off) \cup on
  OBVIOUS
<1>2. ASSUME NEW d \in CH!Askers, kind[d] = "agent"
      PROVE  Waits(asks'[d].stage, later, d)
  <2>1. CASE d = c
    BY <1>1, <1>2, <2>1
  <2>2. CASE d # c
    <3>1. PICK stage : stage = asks[d].stage /\ stage = asks'[d].stage
      BY <2>2
    <3>2. Waits(stage, these, d)
      BY <1>1, <1>2, <3>1 DEF OneAwaited
    <3>3. Awaited(later, d) = Awaited(these, d)
      <4>1. \A r \in off \cup on : r.by # d
        BY <2>2
      <4>2. later = (these \ off) \cup on
        BY <1>1
      <4>. QED  BY <4>1, <4>2 DEF Awaited
    <3>4. Waits(stage, later, d)
      BY <3>2, <3>3, OthersWait
    <3>. QED  BY <3>1, <3>4
  <2>. QED  BY <2>1, <2>2
<1>3. CH!Askers' = CH!Askers
  BY DEF CH!Askers
<1>. QED  BY <1>1, <1>2, <1>3 DEF OneAwaited

\* A step that neither begins, nor answers for, a call.
LEMMA QuietWaits ==
    ASSUME ChatInv, OneAwaited, NEW c \in CH!Askers,
           \/ CH!Ask(c) \/ CH!CheckSwitch(c) \/ CH!ReadContext(c) \/ CH!RecordAsked(c)
           \/ CH!RequestFails(c) \/ CH!ModelAnswers(c) \/ CH!ModelFails(c)
           \/ CH!NextRound(c),
           \A d \in CH!Askers : d # c => asks'[d] = asks[d]
    PROVE  OneAwaited'
<1>1. asks \in [CH!Askers -> AskRecord] /\ asks[c] \in AskRecord
  BY DEF ChatInv
<1>2. /\ running' = running /\ kind' = kind
      /\ asks[c].stage # "waiting"
  BY DEF CH!Ask, CH!CheckSwitch, CH!ReadContext, CH!RecordAsked, CH!RequestFails,
         CH!ModelAnswers, CH!ModelFails, CH!NextRound, CH!Open
<1>3. asks'[c].stage # "waiting"
  <2>1. CASE CH!ModelAnswers(c)
    BY <1>1, <2>1 DEF CH!ModelAnswers, AskRecord
  <2>2. CASE CH!ReadContext(c)
    BY <1>1, <2>2 DEF CH!ReadContext, AskRecord
  <2>3. CASE \/ CH!Ask(c) \/ CH!CheckSwitch(c) \/ CH!RecordAsked(c)
             \/ CH!RequestFails(c) \/ CH!ModelFails(c) \/ CH!NextRound(c)
    <3>1. CASE CH!Ask(c) \/ CH!CheckSwitch(c)
      BY <1>1, <3>1 DEF CH!Ask, CH!CheckSwitch, AskRecord
    <3>2. CASE CH!RecordAsked(c) \/ CH!RequestFails(c)
      BY <1>1, <3>2 DEF CH!RecordAsked, CH!RequestFails, AskRecord
    <3>3. CASE CH!ModelFails(c) \/ CH!NextRound(c)
      BY <1>1, <3>3 DEF CH!ModelFails, CH!NextRound, AskRecord
    <3>. QED  BY <2>3, <3>1, <3>2, <3>3
  <2>. QED  BY <2>1, <2>2, <2>3
<1>4. kind[c] = "agent" => Awaited(running, c) = {}
  BY <1>2 DEF OneAwaited, Waits
<1>5. kind[c] = "agent" => \A later : later = running' => Waits(asks'[c].stage, later, c)
  BY <1>2, <1>3, <1>4 DEF Waits
<1>6. PICK none : none = {}
  OBVIOUS
<1>7. running' = (running \ none) \cup none /\ \A r \in none \cup none : r.by = c
  BY <1>2, <1>6
<1>. QED  BY <1>2, <1>5, <1>7, OneAsker

\* A call that ends, or is given up, is one its asker awaited, or changes
\* nothing for it.
LEMMA CallWaits ==
    ASSUME ChatInv, OneAwaited, NEW r \in running, NEW c, c = r.by,
           \/ CH!Query(r) \/ CH!QueryFails(r) \/ CH!TakeResult(r)
           \/ CH!TakeError(r) \/ CH!Deadline(r),
           \A d \in CH!Askers : d # c => asks'[d] = asks[d],
           CH!Query(r) \/ CH!QueryFails(r) => asks'[c].stage = asks[c].stage,
           CH!TakeResult(r) \/ CH!TakeError(r) \/ CH!Deadline(r) =>
                /\ asks[c].stage # "waiting" => asks'[c].stage = asks[c].stage
                /\ asks[c].stage = "waiting" => asks'[c].stage \in {"calling", "failed"}
    PROVE  OneAwaited'
<1>1. r \in CallRecord /\ c \in CH!Askers /\ kind' = kind
  BY CallsOf DEF CH!Query, CH!QueryFails, CH!TakeResult, CH!TakeError, CH!Deadline
<1>2. ASSUME CH!Query(r) \/ CH!QueryFails(r)
      PROVE  OneAwaited'
  <2>1. PICK state, found : running' = (running \ {r}) \cup CH!Left(r, state, found)
    BY <1>2 DEF CH!Query, CH!QueryFails
  <2>2. PICK left : /\ left = [r EXCEPT !.state = state, !.found = found]
                    /\ running' = (running \ {r}) \cup IF r.awaited THEN {left} ELSE {}
    BY <2>1 DEF CH!Left
  <2>3. left.by = c /\ left.awaited = r.awaited
    BY <1>1, <2>2 DEF CallRecord
  <2>4. PICK on : on = IF r.awaited THEN {left} ELSE {}
    OBVIOUS
  <2>5. PICK off : off = {r}
    OBVIOUS
  <2>6. running' = (running \ off) \cup on /\ \A s \in off \cup on : s.by = c
    BY <2>2, <2>3, <2>4, <2>5
  <2>7. ASSUME kind[c] = "agent", NEW later, later = running'
        PROVE  Waits(asks'[c].stage, later, c)
    <3>1. PICK stage : stage = asks[c].stage /\ stage = asks'[c].stage
      BY <1>2
    <3>2. Waits(asks[c].stage, running, c)
      BY <1>1, <2>7 DEF OneAwaited
    <3>3. CASE ~r.awaited
      <4>1. Awaited(later, c) = Awaited(running, c)
        BY <2>4, <2>5, <2>6, <2>7, <3>3 DEF Awaited
      <4>2. \A s \in Awaited(running, c) : s \in later
        BY <4>1 DEF Awaited
      <4>. QED  BY <3>1, <3>2, <4>1, <4>2 DEF Waits, Awaited
    <3>4. CASE r.awaited
      <4>1. r \in Awaited(running, c)
        BY <3>4 DEF Awaited
      <4>2. stage = "waiting" /\ Awaited(running, c) = {r}
        BY <3>1, <3>2, <4>1 DEF Waits
      <4>3. left \in later /\ Awaited(later, c) = {left}
        <5>1. left \in later /\ left \in Awaited(later, c)
          BY <2>3, <2>4, <2>6, <2>7, <3>4 DEF Awaited
        <5>2. ASSUME NEW s \in Awaited(later, c), s # left  PROVE FALSE
          <6>1. s \in running /\ s # r /\ s.by = c /\ s.awaited
            BY <2>4, <2>5, <2>6, <2>7, <5>2 DEF Awaited
          <6>2. s \in Awaited(running, c)
            BY <6>1 DEF Awaited
          <6>. QED  BY <4>2, <6>1, <6>2
        <5>. QED  BY <5>1, <5>2
      <4>. QED  BY <3>1, <4>2, <4>3 DEF Waits
    <3>. QED  BY <3>3, <3>4
  <2>. QED  BY <1>1, <2>6, <2>7, OneAsker
<1>3. ASSUME CH!TakeResult(r) \/ CH!TakeError(r) \/ CH!Deadline(r)
      PROVE  OneAwaited'
  <2>1. r.awaited
    BY <1>3 DEF CH!TakeResult, CH!TakeError, CH!Deadline
  <2>2. PICK left : left = [r EXCEPT !.awaited = FALSE]
    OBVIOUS
  <2>3. left.by = c /\ ~left.awaited
    BY <1>1, <2>2 DEF CallRecord
  <2>4. \/ running' = running \ {r}
        \/ running' = (running \ {r}) \cup {left}
    BY <1>3, <2>2 DEF CH!TakeResult, CH!TakeError, CH!Deadline
  <2>5. PICK on : on \in {{}, {left}} /\ running' = (running \ {r}) \cup on
    BY <2>4
  <2>6. PICK off : off = {r}
    OBVIOUS
  <2>7. running' = (running \ off) \cup on /\ \A s \in off \cup on : s.by = c
    BY <2>3, <2>5, <2>6
  <2>8. ASSUME kind[c] = "agent", NEW later, later = running'
        PROVE  Waits(asks'[c].stage, later, c)
    <3>1. Waits(asks[c].stage, running, c)
      BY <1>1, <2>8 DEF OneAwaited
    <3>2. r \in Awaited(running, c)
      BY <2>1 DEF Awaited
    <3>3. asks[c].stage = "waiting" /\ Awaited(running, c) = {r}
      BY <3>1, <3>2 DEF Waits
    <3>4. asks'[c].stage # "waiting"
      BY <1>3, <3>3
    <3>5. Awaited(later, c) = {}
      <4>1. ASSUME NEW s \in Awaited(later, c)  PROVE FALSE
        <5>1. s.by = c /\ s.awaited /\ (s = left \/ (s \in running /\ s # r))
          BY <2>5, <2>8, <4>1 DEF Awaited
        <5>2. s \in Awaited(running, c) /\ s # r
          BY <2>3, <5>1 DEF Awaited
        <5>. QED  BY <3>3, <5>2
      <4>. QED  BY <4>1
    <3>. QED  BY <3>4, <3>5 DEF Waits
  <2>. QED  BY <1>1, <2>7, <2>8, OneAsker
<1>. QED  BY <1>2, <1>3

\* An agent that begins a call waited for none; one that is cut waits no more.
LEMMA BeginsOne ==
    ASSUME ChatInv, OneAwaited, NEW c \in CH!Askers,
           CH!NextCall(c),
           \A d \in CH!Askers : d # c => asks'[d] = asks[d],
           asks[c].stage = "calling", asks'[c].stage \in {"calling", "waiting"},
           \/ asks'[c].stage = "calling" /\ running' = running
           \/ /\ asks'[c].stage = "waiting"
              /\ \E call : running' = running \cup {CH!Begun(c, call)}
    PROVE  OneAwaited'
<1>1. kind' = kind
  BY DEF CH!NextCall
<1>2. kind[c] = "agent" => Awaited(running, c) = {}
  BY DEF OneAwaited, Waits
<1>3. PICK none : none = {}
  OBVIOUS
<1>4. CASE asks'[c].stage = "calling" /\ running' = running
  <2>1. kind[c] = "agent" => \A later : later = running' => Waits(asks'[c].stage, later, c)
    BY <1>2, <1>4 DEF Waits
  <2>2. running' = (running \ none) \cup none /\ \A r \in none \cup none : r.by = c
    BY <1>3, <1>4
  <2>. QED  BY <1>1, <2>1, <2>2, OneAsker
<1>5. CASE asks'[c].stage = "waiting" /\ \E call : running' = running \cup {CH!Begun(c, call)}
  <2>1. PICK call : running' = running \cup {CH!Begun(c, call)}
    BY <1>5
  <2>a. CH!Begun(c, call).by = c /\ CH!Begun(c, call).awaited
    BY DEF CH!Begun
  <2>2. PICK begun : begun = CH!Begun(c, call) /\ begun.by = c /\ begun.awaited
    BY <2>a
  <2>3. PICK on : on = {begun}
    OBVIOUS
  <2>4. running' = (running \ none) \cup on /\ \A r \in none \cup on : r.by = c
    BY <1>3, <2>1, <2>2, <2>3
  <2>5. ASSUME kind[c] = "agent", NEW later, later = running'
        PROVE  Waits(asks'[c].stage, later, c)
    <3>1. Awaited(later, c) = {begun} /\ begun \in later
      BY <1>2, <2>1, <2>2, <2>5 DEF Awaited
    <3>. QED  BY <1>5, <3>1 DEF Waits
  <2>. QED  BY <1>1, <2>4, <2>5, OneAsker
<1>. QED  BY <1>4, <1>5

LEMMA CutWaits ==
    ASSUME ChatInv, OneAwaited, NEW c \in CH!Askers, CH!Cut(c),
           \A d \in CH!Askers : d # c => asks'[d] = asks[d]
    PROVE  OneAwaited'
<1>1. /\ kind' = kind /\ asks'[c].stage = "ended"
      /\ running' = {r \in running : r.by # c}
            \cup {[r EXCEPT !.awaited = FALSE] :
                    r \in {s \in running : s.by = c /\ s.state = "running"}}
  BY DEF CH!Cut, ChatInv, AskRecord
<1>2. PICK on : on = {[r EXCEPT !.awaited = FALSE] :
                            r \in {s \in running : s.by = c /\ s.state = "running"}}
  OBVIOUS
<1>3. PICK off : off = {s \in running : s.by = c}
  OBVIOUS
<1>4. \A s \in on : s.by = c /\ ~s.awaited
  BY <1>2, CallsOf DEF CallRecord
<1>5. running' = {r \in running : r.by # c} \cup on
  BY <1>1, <1>2, Zenon
<1>6. running' = (running \ off) \cup on /\ \A s \in off \cup on : s.by = c
  BY <1>3, <1>4, <1>5
<1>7. ASSUME NEW later, later = running'  PROVE Waits(asks'[c].stage, later, c)
  BY <1>1, <1>4, <1>5, <1>7 DEF Waits, Awaited
<1>. QED  BY <1>1, <1>6, <1>7, OneAsker

LEMMA McpWaits ==
    ASSUME ChatInv, Quotas, OneAwaited, NEW c \in CH!Askers, CH!McpCall(c),
           \A d \in CH!Askers : d # c => asks'[d] = asks[d]
    PROVE  OneAwaited'
<1>1. kind' = kind /\ asks[c].stage = "open"
  BY DEF CH!McpCall
<1>2. kind[c] # "agent"
  BY <1>1 DEF Quotas, Within
<1>3. PICK call : running' = running \cup {CH!Begun(c, call)}
  BY DEF CH!McpCall
<1>a. CH!Begun(c, call).by = c
  BY DEF CH!Begun
<1>b. PICK on : on = {CH!Begun(c, call)}
  OBVIOUS
<1>4. \A r \in on : r.by = c
  BY <1>a, <1>b
<1>5. PICK none : none = {}
  OBVIOUS
<1>6. running' = (running \ none) \cup on /\ \A r \in none \cup on : r.by = c
  BY <1>3, <1>4, <1>5, <1>b
<1>. QED  BY <1>1, <1>2, <1>6, OneAsker

-----------------------------------------------------------------------------
HitsAreShort == \A r \in running : r.found.sections \in CH!Hits

LEMMA HitsStay ==
    ASSUME ChatInv, HitsAreShort,
           \/ \E c \in CH!Askers : CH!NextCall(c) \/ CH!Cut(c) \/ CH!McpCall(c)
           \/ \E r \in running : \/ CH!Query(r) \/ CH!QueryFails(r) \/ CH!TakeResult(r)
                                 \/ CH!TakeError(r) \/ CH!Deadline(r)
    PROVE  HitsAreShort'
<1>1. \A r \in running : r \in CallRecord /\ r.found.sections \in CH!Hits
  BY CallsOf DEF HitsAreShort
<1>2. ASSUME NEW c \in CH!Askers, CH!NextCall(c) \/ CH!McpCall(c)
      PROVE  HitsAreShort'
  <2>1. PICK call : running' \subseteq running \cup {CH!Begun(c, call)}
    BY <1>2 DEF CH!NextCall, CH!McpCall
  <2>2. CH!Begun(c, call).found = CH!Nothing
    BY DEF CH!Begun
  <2>. QED  BY <1>1, <2>1, <2>2, NoHits DEF HitsAreShort
<1>3. ASSUME NEW c \in CH!Askers, CH!Cut(c)
      PROVE  HitsAreShort'
  <2>1. \A s \in running' : \E r \in running : s = r \/ s = [r EXCEPT !.awaited = FALSE]
    BY <1>3 DEF CH!Cut
  <2>2. ASSUME NEW s \in running'  PROVE s.found.sections \in CH!Hits
    <3>1. PICK r \in running : s = r \/ s = [r EXCEPT !.awaited = FALSE]
      BY <2>1
    <3>2. s.found = r.found
      BY <1>1, <3>1 DEF CallRecord
    <3>. QED  BY <1>1, <3>2
  <2>. QED  BY <2>2 DEF HitsAreShort
<1>4. ASSUME NEW r \in running, CH!Query(r) \/ CH!QueryFails(r)
      PROVE  HitsAreShort'
  <2>1. PICK state, found :
            /\ running' = (running \ {r}) \cup CH!Left(r, state, found)
            /\ found.sections \in CH!Hits
    <3>1. CASE CH!Query(r)
      <4>1. PICK found \in CH!Found(r.call) :
              running' = (running \ {r}) \cup CH!Left(r, "done", found)
        BY <3>1 DEF CH!Query
      <4>2. found.sections \in CH!Hits
        BY <4>1, FoundAreHits
      <4>. QED  BY <4>1, <4>2
    <3>2. CASE CH!QueryFails(r)
      <4>1. /\ running' = (running \ {r}) \cup CH!Left(r, "failed", CH!Nothing)
            /\ CH!Nothing.sections \in CH!Hits
        BY <3>2, NoHits DEF CH!QueryFails
      <4>. QED  BY <4>1
    <3>. QED  BY <1>4, <3>1, <3>2
  <2>2. \A s \in CH!Left(r, state, found) : s.found = found
    BY <1>1 DEF CH!Left, CallRecord
  <2>. QED  BY <1>1, <2>1, <2>2 DEF HitsAreShort
<1>5. ASSUME NEW r \in running, CH!TakeResult(r) \/ CH!TakeError(r) \/ CH!Deadline(r)
      PROVE  HitsAreShort'
  <2>1. running' \subseteq running \cup {[r EXCEPT !.awaited = FALSE]}
    BY <1>5 DEF CH!TakeResult, CH!TakeError, CH!Deadline
  <2>2. [r EXCEPT !.awaited = FALSE].found = r.found
    BY <1>1 DEF CallRecord
  <2>. QED  BY <1>1, <2>1, <2>2 DEF HitsAreShort
<1>. QED  BY <1>2, <1>3, <1>4, <1>5

-----------------------------------------------------------------------------
\* What Chat's types need beside ChatInv.
ChatBounds ==
    /\ turned \in Seq(BOOLEAN) /\ Len(turned) <= MaxTurns
    /\ session \in BOOLEAN /\ kind \in Casts
    /\ Quotas /\ HitsAreShort /\ OneAwaited

LEMMA ChatBoundsAtFirst == CH!Init => ChatBounds
<1> SUFFICES ASSUME CH!Init  PROVE ChatBounds
  OBVIOUS
<1>1. /\ turned = <<>> /\ session = TRUE /\ kind \in Casts /\ running = {}
      /\ asks = [c \in CH!Askers |-> CH!Fresh(kind[c])]
  BY DEF CH!Init
<1>2. turned \in Seq(BOOLEAN) /\ Len(turned) <= MaxTurns
  BY <1>1, BudgetFacts
<1>3. Quotas
  BY QuotasAtFirst
<1>4. \A c \in CH!Askers : asks[c].stage # "waiting"
  BY <1>1 DEF CH!Fresh
<1>5. OneAwaited
  BY <1>1, <1>4 DEF OneAwaited, Waits, Awaited
<1>. QED  BY <1>1, <1>2, <1>3, <1>5 DEF ChatBounds, HitsAreShort

\* One asker's step keeps everyone's quota.
LEMMA QuotasStay ==
    ASSUME Quotas, NEW c \in CH!Askers, kind' = kind, Within(kind[c], asks'[c]),
           \A d \in CH!Askers : d # c => asks'[d] = asks[d]
    PROVE  Quotas'
<1>1. CH!Askers' = CH!Askers
  BY DEF CH!Askers
<1>2. \A d \in CH!Askers : Within(kind[d], asks'[d])
  BY DEF Quotas
<1>. QED  BY <1>1, <1>2 DEF Quotas

LEMMA ChatBoundsStep == ChatInv /\ ChatBounds /\ [CH!Next]_(CH!vars) => ChatBounds'
<1> SUFFICES ASSUME ChatInv, ChatBounds, [CH!Next]_(CH!vars)  PROVE ChatBounds'
  OBVIOUS
<1> USE DEF ChatBounds
<1>1. ASSUME NEW to \in BOOLEAN, CH!Turn(to)  PROVE ChatBounds'
  <2>1. /\ UNCHANGED <<session, kind, running>> /\ CH!Askers' = CH!Askers
    BY <1>1 DEF CH!Turn, CH!Askers
  <2>2. /\ turned' = Append(turned, to) /\ Len(turned) < MaxTurns
        /\ \A c \in CH!Askers : Within(kind[c], asks'[c]) /\ asks'[c].stage = asks[c].stage
    BY <1>1, TurnCounts
  <2>3. turned' \in Seq(BOOLEAN) /\ Len(turned') <= MaxTurns
    BY <2>2, BudgetFacts
  <2>. QED  BY <2>1, <2>2, <2>3 DEF Quotas, HitsAreShort, OneAwaited
<1>2. CASE CH!Revoke
  BY <1>2 DEF CH!Revoke, CH!Askers, Quotas, HitsAreShort, OneAwaited
<1>3. ASSUME NEW c \in CH!Askers,
             \/ CH!Ask(c) \/ CH!CheckSwitch(c) \/ CH!ReadContext(c) \/ CH!RecordAsked(c)
             \/ CH!RequestFails(c) \/ CH!ModelAnswers(c) \/ CH!ModelFails(c)
             \/ CH!NextRound(c)
      PROVE  ChatBounds'
  <2>1. UNCHANGED <<turned, session, kind, running>>
    BY <1>3 DEF CH!Ask, CH!CheckSwitch, CH!ReadContext, CH!RecordAsked,
                CH!RequestFails, CH!ModelAnswers, CH!ModelFails, CH!NextRound
  <2>2. Within(kind[c], asks'[c]) /\ \A d \in CH!Askers : d # c => asks'[d] = asks[d]
    BY <1>3, AskerCounts, ModelAnswersCounts
  <2>3. Quotas'
    BY <2>1, <2>2, QuotasStay
  <2>4. OneAwaited'
    BY <1>3, <2>2, QuietWaits
  <2>. QED  BY <2>1, <2>3, <2>4 DEF HitsAreShort
<1>4. ASSUME NEW c \in CH!Askers, CH!NextCall(c) \/ CH!Cut(c) \/ CH!McpCall(c)
      PROVE  ChatBounds'
  <2>1. UNCHANGED <<turned, session, kind>>
    BY <1>4 DEF CH!NextCall, CH!Cut, CH!McpCall
  <2>2. Within(kind[c], asks'[c]) /\ \A d \in CH!Askers : d # c => asks'[d] = asks[d]
    BY <1>4, AskerCounts, NextCallCounts
  <2>3. Quotas'
    BY <2>1, <2>2, QuotasStay
  <2>4. OneAwaited'
    <3>1. CASE CH!NextCall(c)
      BY <2>2, <3>1, NextCallCounts, BeginsOne
    <3>2. CASE CH!Cut(c)
      BY <2>2, <3>2, CutWaits
    <3>3. CASE CH!McpCall(c)
      BY <2>2, <3>3, McpWaits
    <3>. QED  BY <1>4, <3>1, <3>2, <3>3
  <2>5. HitsAreShort'
    BY <1>4, HitsStay
  <2>. QED  BY <2>1, <2>3, <2>4, <2>5
<1>5. ASSUME NEW r \in running,
             \/ CH!Query(r) \/ CH!QueryFails(r) \/ CH!TakeResult(r)
             \/ CH!TakeError(r) \/ CH!Deadline(r)
      PROVE  ChatBounds'
  <2>1. UNCHANGED <<turned, session, kind>>
    BY <1>5 DEF CH!Query, CH!QueryFails, CH!TakeResult, CH!TakeError, CH!Deadline
  <2>2. PICK c : c = r.by /\ c \in CH!Askers
    BY CallsOf
  <2>3. /\ Within(kind[c], asks'[c])
        /\ \A d \in CH!Askers : d # c => asks'[d] = asks[d]
        /\ CH!Query(r) \/ CH!QueryFails(r) => asks'[c].stage = asks[c].stage
        /\ CH!TakeResult(r) \/ CH!TakeError(r) \/ CH!Deadline(r) =>
             /\ asks[c].stage # "waiting" => asks'[c].stage = asks[c].stage
             /\ asks[c].stage = "waiting" => asks'[c].stage \in {"calling", "failed"}
    BY <1>5, <2>2, CallCounts
  <2>4. Quotas'
    BY <2>1, <2>2, <2>3, QuotasStay
  <2>5. OneAwaited'
    BY <1>5, <2>2, <2>3, CallWaits
  <2>6. HitsAreShort'
    BY <1>5, HitsStay
  <2>. QED  BY <2>1, <2>4, <2>5, <2>6
<1>6. CASE UNCHANGED CH!vars
  BY <1>6 DEF CH!vars, CH!Askers, Quotas, HitsAreShort, OneAwaited
<1>. QED  BY <1>1, <1>2, <1>3, <1>4, <1>5, <1>6 DEF CH!Next

LEMMA ChatIsTyped == ChatInv /\ ChatBounds => CH!TypeOK
<1> SUFFICES ASSUME ChatInv, ChatBounds  PROVE CH!TypeOK
  OBVIOUS
<1>1. ASSUME NEW c \in CH!Askers  PROVE asks[c] \in CH!Asking
  <2> DEFINE ask == asks[c]
  <2>1. ask \in AskRecord /\ Within(kind[c], ask)
    BY <1>1 DEF ChatInv, ChatBounds, Quotas
  <2> HIDE DEF ask
  <2>2. /\ MaxCalls \in Nat /\ MaxSteps \in Nat /\ MaxMcp \in Nat
        /\ Budget(MaxSteps) \in Nat
    BY BudgetFacts
  <2>3. Budget(MaxSteps) = MaxSteps * MaxCalls
    BY DEF Budget
  <2>4. ask.begun \in 0..(Budget(MaxSteps) + MaxMcp)
    <3>1. ask.begun \in Nat /\ (ask.begun <= MaxMcp \/ ask.begun <= Budget(MaxSteps))
      BY <2>1 DEF AskRecord, Within
    <3>. QED  BY <2>2, <3>1
  <2>5. ask.step \in 0..MaxSteps
    BY <2>1, <2>2 DEF AskRecord, Within
  <2>6. ask.todo \in UNION {[1..n -> CH!Calls] : n \in 0..MaxCalls}
    <3>1. ask.todo \in Seq(CH!Calls) /\ Len(ask.todo) <= MaxCalls
      BY <2>1 DEF AskRecord, Within
    <3>2. PICK n \in 0..MaxCalls : n = Len(ask.todo)
      BY <2>2, <3>1
    <3>3. ask.todo \in [1..n -> CH!Calls]
      BY <3>1, <3>2
    <3>. QED  BY <3>3
  <2>7. ask.found \in [sections : CH!Hits, alerts : SUBSET Alerts]
    BY <2>1 DEF AskRecord, Within, FoundRecord
  <2>. QED  BY <2>1, <2>3, <2>4, <2>5, <2>6, <2>7 DEF CH!Asking, AskRecord, ask
<1>2. running \subseteq CH!Call
  <2>1. \A r \in running : r \in CallRecord /\ r.found.sections \in CH!Hits
    BY CallsOf DEF ChatBounds, HitsAreShort
  <2>. QED  BY <2>1 DEF CH!Call, CallRecord, FoundRecord
<1>3. ASSUME NEW c \in CH!Askers, kind[c] = "agent"
      PROVE  CH!Cardinality({r \in running : r.by = c /\ r.awaited})
                = IF asks[c].stage = "waiting" THEN 1 ELSE 0
  <2>1. Waits(asks[c].stage, running, c)
    BY <1>3 DEF ChatBounds, OneAwaited
  <2>2. PICK awaited : awaited = {r \in running : r.by = c /\ r.awaited}
    OBVIOUS
  <2>3. CH!Cardinality(awaited) = Cardinality(awaited)
    BY DEF CH!Cardinality, Cardinality
  <2>4. IF asks[c].stage = "waiting" THEN \E r : awaited = {r} ELSE awaited = {}
    BY <2>1, <2>2 DEF Waits, Awaited
  <2>5. Cardinality({}) = 0 /\ \A r : Cardinality({r}) = 1
    BY FS_EmptySet, FS_Singleton
  <2>6. Cardinality(awaited) = IF asks[c].stage = "waiting" THEN 1 ELSE 0
    BY <2>4, <2>5
  <2>. QED  BY <2>2, <2>3, <2>6
<1>. QED  BY <1>1, <1>2, <1>3 DEF CH!TypeOK, ChatInv, ChatBounds

LEMMA ChatTypes == Spec => []CH!TypeOK
<1>1. Init => ChatInv /\ ChatBounds
  BY ChatInit, ChatBoundsAtFirst DEF Init
<1>2. [Next]_vars => [CH!Next]_(CH!vars)
  BY DEF Next, vars, Chat, RateLimit, ProviderKeys, SessionLife, Erasure,
         Serving, Migrations, ModelStream, EventParser, EvalGate, Only,
         chatVars, CH!vars
<1>3. ChatInv /\ ChatBounds /\ [Next]_vars => (ChatInv /\ ChatBounds)'
  BY <1>2, ChatStep, ChatBoundsStep
<1>. QED  BY <1>1, <1>3, ChatIsTyped, PTL DEF Spec

-----------------------------------------------------------------------------
(* Types of the whole.                                                     *)

\* Of whichever component is followed, and for all values of the constants:
\* every variable keeps its range, no counter leaves its bound, an agent
\* awaits the one call it waits for and an ended answer none, and the
\* server's accounts of its connections and requests are right (app/agent.py,
\* app/tools.py, app/middleware.py and the others).
THEOREM TypesAreKept == Spec => []TypeOK
<1>1. Spec => [](part \in Parts)
  <2>1. Init => part \in Parts
    BY DEF Init
  <2>2. part \in Parts /\ [Next]_vars => (part \in Parts)'
    BY DEF Next, vars, Chat, RateLimit, ProviderKeys, SessionLife, Erasure,
           Serving, Migrations, ModelStream, EventParser, EvalGate, Only, Parts
  <2>. QED  BY <2>1, <2>2, PTL DEF Spec
<1>2. /\ part \in Parts /\ CH!TypeOK /\ RL!TypeOK /\ PK!TypeOK /\ SL!TypeOK
      /\ ER!TypeOK /\ SV!TypeOK /\ MG!TypeOK /\ ModelInv /\ ParserInv /\ EG!TypeOK
      => TypeOK
  <2> SUFFICES ASSUME part \in Parts, CH!TypeOK, RL!TypeOK, PK!TypeOK, SL!TypeOK,
                      ER!TypeOK, SV!TypeOK, MG!TypeOK, ModelInv, ParserInv, EG!TypeOK
               PROVE  TypeOK
    OBVIOUS
  <2>1. MS!TypeOK /\ EP!TypeOK
    BY ModelTypes, StandingIsRight
  <2>. QED  BY <2>1 DEF TypeOK, Parts
<1>. QED  BY <1>1, <1>2, ChatTypes, LimitTypes, KeysTypes, SessionTypes, ErasureIsTyped,
            ServingTypes, MigrationTypes, ModelInvariant, ParserInvariant, GateTypes, PTL
=============================================================================
