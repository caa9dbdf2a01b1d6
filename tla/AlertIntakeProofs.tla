-------------------------- MODULE AlertIntakeProofs --------------------------
(***************************************************************************)
(* Proofs about AlertIntake, for every set of teams, episodes and          *)
(* requests, every page size and every bound.                              *)
(*                                                                         *)
(* The inductive invariant follows a row from the VALUES list to the       *)
(* table.  A webhook's payload is, at any moment, the episodes it has      *)
(* tried followed by those it has still to insert (JobsFollowTheirList);   *)
(* what it has inserted is apart from every other open row, from every     *)
(* stored row and from every recorded one (RowsAreApart, RowsAreNew); and  *)
(* an episode it skipped is on record already (PayloadIsSettled).          *)
(***************************************************************************)
EXTENDS AlertIntake, TLAPS, FiniteSetTheorems, SequenceTheorems,
        WellFoundedInduction, NaturalsInduction

Inserting(r) == job[r].stage = "inserting"

\* What the unique keys of the table forbid two rows to share.
Same(a, b) ==
    a.id = b.id \/ (a.episode = b.episode /\ a.episode \in Episodes)

IsRecordOf(e, a) == e.action = "alert.created" /\ a \in e.alert

\* How far a webhook is in its list, or a user's request in its one row.
OnItsList(j) ==
    \/ /\ j.payload \in Payloads
       /\ Len(j.todo) <= Len(j.payload)
       /\ \A i \in DOMAIN j.todo : j.todo[i].episode =
             j.payload[Len(j.payload) - Len(j.todo) + i]
       /\ \A i \in DOMAIN j.rows :
             \E m \in 1..(Len(j.payload) - Len(j.todo)) :
                j.rows[i].episode = j.payload[m]
    \/ /\ j.payload = <<>>
       /\ \A i \in DOMAIN j.todo : j.todo[i].episode = Manual
       /\ \A i \in DOMAIN j.rows : j.rows[i].episode = Manual

JobsFollowTheirList == \A r \in Requests : Inserting(r) => OnItsList(job[r])

RowsAreIssued ==
    \A r \in Requests : Inserting(r) =>
        \A i \in DOMAIN job[r].rows : job[r].rows[i].id < nextId

RowsAreApart ==
    \A r, q \in Requests : Inserting(r) /\ Inserting(q) =>
        \A i \in DOMAIN job[r].rows, k \in DOMAIN job[q].rows :
            Same(job[r].rows[i], job[q].rows[k]) => r = q /\ i = k

RowsAreNew ==
    \A r \in Requests : Inserting(r) =>
        \A i \in DOMAIN job[r].rows :
            /\ \A a \in alerts : ~Same(job[r].rows[i], a)
            /\ \A e \in audit, a \in Row :
                  IsRecordOf(e, a) => a.id # job[r].rows[i].id

RecordsAreIssued ==
    \A e \in audit, a \in Row : IsRecordOf(e, a) => a.id < nextId

RecordedOnce ==
    \A e, f \in audit, a \in Row : IsRecordOf(e, a) /\ IsRecordOf(f, a) => e = f

StoredIsRecorded == \A a \in alerts : \E e \in audit : IsRecordOf(e, a)

GoneIsRemoved ==
    \A e \in audit, a \in Row : IsRecordOf(e, a) /\ a \notin alerts =>
        \E d \in audit : d.n > e.n /\ Removes(d, a)

\* An episode of a webhook under way is still to be inserted, or inserted, or
\* was stored by another one.
PayloadIsSettled ==
    \A r \in Requests : Inserting(r) => \A p \in Range(job[r].payload) :
        \/ \E i \in DOMAIN job[r].todo : job[r].todo[i].episode = p
        \/ \E i \in DOMAIN job[r].rows : job[r].rows[i].episode = p
        \/ \E e \in audit, a \in Row : IsRecordOf(e, a) /\ a.episode = p

IInv ==
    /\ TypeOK /\ IsFiniteSet(alerts)
    /\ JobsFollowTheirList /\ PayloadIsSettled /\ AnsweredIsStored
    /\ RowsAreIssued /\ RowsAreApart /\ RowsAreNew
    /\ RecordsAreIssued /\ RecordedOnce /\ StoredIsRecorded /\ GoneIsRemoved

-----------------------------------------------------------------------------
(* Facts about the operators.                                              *)

\* The values of a sequence are finitely many.
LEMMA FiniteRange ==
    ASSUME NEW S, NEW s \in Seq(S)
    PROVE  /\ IsFiniteSet(Range(s)) /\ Range(s) \subseteq S
           /\ Range(s) = {s[i] : i \in 1..Len(s)}
<1>1. Len(s) \in Nat /\ DOMAIN s = 1..Len(s) /\ s \in [1..Len(s) -> S]
  BY LenProperties
<1>2. Range(s) = {s[i] : i \in 1..Len(s)}
  BY <1>1 DEF Range
<1>3. s \in Surjection(1..Len(s), Range(s))
  BY <1>1, <1>2 DEF Surjection
<1>4. IsFiniteSet(Range(s))
  BY <1>1, <1>3, FS_Interval, FS_Surjection
<1>. QED  BY <1>1, <1>2, <1>4

\* The next row to insert, and the list after it.
LEMMA NextRow ==
    ASSUME NEW S, NEW s \in Seq(S), s # <<>>
    PROVE  /\ Len(s) \in Nat \ {0} /\ Head(s) = s[1] /\ Head(s) \in S
           /\ Tail(s) \in Seq(S) /\ Len(Tail(s)) = Len(s) - 1
           /\ DOMAIN s = 1..Len(s) /\ DOMAIN Tail(s) = 1..(Len(s) - 1)
           /\ \A i \in 1..(Len(s) - 1) : Tail(s)[i] = s[i + 1]
  BY HeadTailProperties, LenProperties

LEMMA BlankIsAJob == Blank \in Job /\ Blank.stage = "idle" /\ Blank.rows = <<>>
<1>1. \A S : <<>> \in Seq(S)
  OBVIOUS
<1>. QED  BY <1>1 DEF Blank, Job

\* What replacing one job does to the others: nothing.
LEMMA JobUpdate ==
    ASSUME job \in [Requests -> Job], NEW r \in Requests, NEW j \in Job,
           job' = [job EXCEPT ![r] = j]
    PROVE  /\ job' \in [Requests -> Job]
           /\ job'[r] = j
           /\ \A q \in Requests : q # r => job'[q] = job[q]
  OBVIOUS

LEMMA PayloadType ==
    ASSUME NEW p \in Payloads
    PROVE  /\ p \in Seq(Episodes) /\ Len(p) \in Nat \ {0}
           /\ DOMAIN p = 1..Len(p)
<1>1. MaxListed \in Nat
  BY BoundsType
<1>2. PICK n \in 1..MaxListed : p \in [1..n -> Episodes]
  BY DEF Payloads
<1>3. n \in Nat \ {0}
  BY <1>1
<1>4. p \in Seq(Episodes) /\ Len(p) = n
  BY <1>2, <1>3
<1>. QED  BY <1>2, <1>3, <1>4 DEF Payloads

\* The VALUES list of a webhook: one row for each episode, in their order.
LEMMA RowsOfAPayload ==
    ASSUME TypeOK, NEW p \in Payloads, NEW rows \in Rows(p)
    PROVE  /\ rows \in Seq(Wanted) /\ Len(rows) = Len(p)
           /\ \A i \in 1..Len(p) : rows[i].episode = p[i]
<1>1. /\ p \in Seq(Episodes) /\ Len(p) \in Nat /\ DOMAIN p = 1..Len(p)
      /\ \A i \in 1..Len(p) : p[i] \in Episodes
  BY PayloadType
<1>2. rows = [i \in 1..Len(p) |-> Routed(p[i])]
  BY <1>1 DEF Rows
<1>3. \A e \in Episodes : Routed(e) \in Wanted /\ Routed(e).episode = e
  BY LabelType, DefaultIsATeam DEF Routed, Wanted
<1>4. rows \in [1..Len(p) -> Wanted]
  BY <1>1, <1>2, <1>3
<1>. QED  BY <1>1, <1>2, <1>3, <1>4

\* What one INSERT does to its job: the head of the list is taken off, and
\* either a row of it is added, or the episode is stored.
LEMMA InsertEffect ==
    ASSUME TypeOK, NEW r \in Requests, Insert(r)
    PROVE  LET x == Head(job[r].todo)
               row == [id |-> nextId, team |-> x.team, episode |-> x.episode,
                       at |-> job[r].at]
           IN  /\ Inserting(r) /\ Inserting(r)'
               /\ job' \in [Requests -> Job]
               /\ \A q \in Requests : q # r => job'[q] = job[q]
               /\ x \in Wanted /\ x = job[r].todo[1] /\ row \in Row
               /\ job'[r].payload = job[r].payload
               /\ job[r].todo \in Seq(Wanted) /\ job[r].todo # <<>>
               /\ job'[r].todo = Tail(job[r].todo)
               /\ job[r].rows \in Seq(Row)
               /\ \/ /\ job'[r].rows = job[r].rows
                     /\ nextId' = nextId
                     /\ \E a \in alerts \cup Range(job[r].rows) : a.episode = x.episode
                     /\ x.episode \in Episodes
                  \/ /\ job'[r].rows = Append(job[r].rows, row)
                     /\ nextId' = nextId + 1
                     /\ x.episode \in Episodes =>
                           \A a \in alerts \cup Range(job[r].rows) :
                              a.episode # x.episode
<1> DEFINE x == Head(job[r].todo)
           row == [id |-> nextId, team |-> x.team, episode |-> x.episode,
                   at |-> job[r].at]
<1>1. /\ job[r] \in Job /\ Inserting(r)
      /\ job[r].todo \in Seq(Wanted) /\ job[r].todo # <<>>
      /\ job[r].rows \in Seq(Row) /\ nextId \in Nat /\ job[r].at \in Nat
  BY DEF TypeOK, Insert, Job, Inserting
<1>2. x \in Wanted /\ x = job[r].todo[1] /\ Tail(job[r].todo) \in Seq(Wanted)
  BY <1>1, NextRow
<1>3. row \in Row
  BY <1>1, <1>2 DEF Row, Wanted
<1>4. PICK rows \in Seq(Row) :
         /\ rows = job[r].rows \o Inserted(r)
         /\ \/ /\ rows = job[r].rows
               /\ nextId' = nextId
               /\ \E a \in alerts \cup Range(job[r].rows) : a.episode = x.episode
               /\ x.episode \in Episodes
            \/ /\ rows = Append(job[r].rows, row)
               /\ nextId' = nextId + 1
               /\ x.episode \in Episodes =>
                     \A a \in alerts \cup Range(job[r].rows) :
                        a.episode # x.episode
  <2>1. CASE /\ x.episode \in Episodes
             /\ \E a \in alerts \cup Range(job[r].rows) : a.episode = x.episode
    <3>1. Inserted(r) = <<>>
      BY <2>1 DEF Inserted
    <3>2. nextId' = nextId + 0
      BY <3>1 DEF Insert
    <3>3. job[r].rows \o <<>> = job[r].rows
      BY <1>1, ConcatEmptySeq
    <3>. QED  BY <1>1, <2>1, <3>1, <3>2, <3>3
  <2>2. CASE ~(/\ x.episode \in Episodes
               /\ \E a \in alerts \cup Range(job[r].rows) : a.episode = x.episode)
    <3>1. Inserted(r) = <<row>>
      BY <2>2 DEF Inserted
    <3>2. nextId' = nextId + 1
      BY <3>1 DEF Insert
    <3> HIDE DEF row
    <3>3. job[r].rows \o <<row>> = Append(job[r].rows, row)
      BY <1>1, <1>3, AppendIsConcat
    <3>4. Append(job[r].rows, row) \in Seq(Row)
      BY <1>1, <1>3
    <3>. QED  BY <2>2, <3>1, <3>2, <3>3, <3>4
  <2>. QED  BY <2>1, <2>2
<1> DEFINE j == [job[r] EXCEPT !.todo = Tail(job[r].todo), !.rows = rows]
<1>5. /\ j \in Job /\ j.stage = job[r].stage /\ j.payload = job[r].payload
      /\ j.todo = Tail(job[r].todo) /\ j.rows = rows
  BY <1>1, <1>2 DEF Job
<1>6. job' = [job EXCEPT ![r] = j]
  BY <1>4 DEF Insert, TypeOK
<1>7. /\ job' \in [Requests -> Job] /\ job'[r] = j
      /\ \A q \in Requests : q # r => job'[q] = job[q]
  <2> HIDE DEF j
  <2>. QED  BY <1>5, <1>6, JobUpdate DEF TypeOK
<1> HIDE DEF j, row
<1>. QED
  BY <1>1, <1>2, <1>3, <1>4, <1>5, <1>7 DEF Inserting, row

-----------------------------------------------------------------------------
(* Each action preserves the invariant.                                    *)

LEMMA InitIInv == Init => IInv
<1> SUFFICES ASSUME Init PROVE IInv
  OBVIOUS
<1>1. \A r \in Requests : job[r].stage = "idle"
  BY BlankIsAJob DEF Init
<1>2. TypeOK
  <2>1. job \in [Requests -> Job]
    BY BlankIsAJob DEF Init
  <2>2. listed \in Seq(SUBSET Row)
    BY DEF Init
  <2>3. teams \subseteq Teams /\ Default \in teams
    BY DefaultIsATeam DEF Init
  <2>. QED  BY <2>1, <2>2, <2>3 DEF Init, TypeOK
<1>3. IsFiniteSet(alerts)
  BY FS_EmptySet DEF Init
<1>4. JobsFollowTheirList /\ PayloadIsSettled /\ RowsAreIssued /\ RowsAreApart
      /\ RowsAreNew
  BY <1>1 DEF JobsFollowTheirList, PayloadIsSettled, RowsAreIssued,
              RowsAreApart, RowsAreNew, Inserting
<1>5. AnsweredIsStored /\ RecordsAreIssued /\ RecordedOnce
      /\ StoredIsRecorded /\ GoneIsRemoved
  BY DEF Init, AnsweredIsStored, RecordsAreIssued, RecordedOnce,
         StoredIsRecorded, GoneIsRemoved
<1>. QED  BY <1>2, <1>3, <1>4, <1>5 DEF IInv

\* The jobs apart, everything the invariant reads is unchanged.
Quiet == UNCHANGED <<alerts, audit, answered, nextId, nextEvent>>

\* A request that begins, fails or reads an alert to delete it has inserted
\* nothing, and has its whole list before it.
LEMMA JobStepIInv ==
    ASSUME IInv, TypeOK', Quiet, NEW r \in Requests, NEW j \in Job,
           job' = [job EXCEPT ![r] = j],
           j.stage = "inserting" =>
              /\ j.rows = <<>> /\ OnItsList(j)
              /\ \A p \in Range(j.payload) :
                    \E i \in DOMAIN j.todo : j.todo[i].episode = p
    PROVE  IInv'
<1> USE DEF IInv, Quiet
<1>1. /\ job'[r] = j
      /\ \A q \in Requests : q # r => job'[q] = job[q]
  BY JobUpdate DEF TypeOK
<1>2. JobsFollowTheirList'
  BY <1>1 DEF JobsFollowTheirList, Inserting, OnItsList
<1>3. PayloadIsSettled'
  BY <1>1 DEF PayloadIsSettled, Inserting, IsRecordOf
<1>4. \A q \in Requests : Inserting(q)' =>
         job'[q].rows = <<>> \/ (Inserting(q) /\ job'[q] = job[q])
  BY <1>1 DEF Inserting
<1>5. \A i : i \notin DOMAIN <<>>
  OBVIOUS
<1>6. RowsAreIssued' /\ RowsAreApart' /\ RowsAreNew'
  BY <1>4, <1>5 DEF RowsAreIssued, RowsAreApart, RowsAreNew, IsRecordOf
<1>7. AnsweredIsStored' /\ RecordsAreIssued' /\ RecordedOnce'
      /\ StoredIsRecorded' /\ GoneIsRemoved'
  BY DEF AnsweredIsStored, RecordsAreIssued, RecordedOnce, StoredIsRecorded,
         GoneIsRemoved, IsRecordOf, Removes
<1>. QED  BY <1>2, <1>3, <1>6, <1>7

LEMMA ReceiveIInv ==
    ASSUME IInv, NEW r \in Requests, Receive(r)
    PROVE  IInv'
<1>0. PICK p \in Payloads : \E rows \in Rows(p) :
         job' = [job EXCEPT ![r] = [Blank EXCEPT !.stage = "inserting",
                    !.at = clock, !.payload = p, !.todo = rows]]
  BY DEF Receive
<1>1. PICK rows \in Rows(p) :
         job' = [job EXCEPT ![r] = [Blank EXCEPT !.stage = "inserting",
                    !.at = clock, !.payload = p, !.todo = rows]]
  BY <1>0
<1> DEFINE j == [Blank EXCEPT !.stage = "inserting",
                    !.at = clock, !.payload = p, !.todo = rows]
<1>2. /\ p \in Seq(Episodes) /\ Len(p) \in Nat /\ DOMAIN p = 1..Len(p)
  BY PayloadType
<1>3. /\ rows \in Seq(Wanted) /\ Len(rows) = Len(p)
      /\ \A i \in 1..Len(p) : rows[i].episode = p[i]
  BY RowsOfAPayload DEF IInv
<1>4. DOMAIN rows = 1..Len(p)
  BY <1>2, <1>3, LenProperties
<1>5. clock \in Nat /\ started' \in Nat
  BY DEF IInv, TypeOK, Receive, Begin
<1>6. /\ j \in Job /\ j.stage = "inserting" /\ j.rows = <<>>
      /\ j.payload = p /\ j.todo = rows
  BY <1>2, <1>3, <1>5, BlankIsAJob DEF Job
<1>7. job' = [job EXCEPT ![r] = j]
  BY <1>1
<1> HIDE DEF j
<1>8. OnItsList(j)
  <2>1. \A i : i \notin DOMAIN <<>>
    OBVIOUS
  <2>. QED  BY <1>2, <1>3, <1>4, <1>6, <2>1 DEF OnItsList
<1>9. \A x \in Range(j.payload) : \E i \in DOMAIN j.todo :
         j.todo[i].episode = x
  BY <1>2, <1>3, <1>4, <1>6 DEF Range
<1>10. TypeOK'
  BY <1>5, <1>6, <1>7, JobUpdate DEF IInv, TypeOK, Receive, walk
<1>. QED
  BY <1>6, <1>7, <1>8, <1>9, <1>10, JobStepIInv DEF Receive, Quiet

LEMMA CreateIInv ==
    ASSUME IInv, NEW r \in Requests, Create(r)
    PROVE  IInv'
<1>1. PICK t \in teams :
         job' = [job EXCEPT ![r] = [Blank EXCEPT !.stage = "inserting",
                    !.at = clock,
                    !.todo = <<[team |-> t, episode |-> Manual]>>]]
  BY DEF Create
<1> DEFINE w == [team |-> t, episode |-> Manual]
           j == [Blank EXCEPT !.stage = "inserting", !.at = clock,
                              !.todo = <<w>>]
<1>2. clock \in Nat /\ started' \in Nat /\ w \in Wanted
  BY DEF IInv, TypeOK, Create, Begin, Wanted
<1>3. <<w>> \in Seq(Wanted) /\ DOMAIN <<w>> = {1} /\ <<w>>[1] = w
  BY <1>2
<1>4. /\ j \in Job /\ j.stage = "inserting" /\ j.rows = <<>>
      /\ j.payload = <<>> /\ j.todo = <<w>>
  BY <1>2, <1>3, BlankIsAJob DEF Job, Blank
<1>5. job' = [job EXCEPT ![r] = j]
  BY <1>1
<1> HIDE DEF j
<1>6. OnItsList(j)
  <2>1. \A i : i \notin DOMAIN <<>>
    OBVIOUS
  <2>. QED  BY <1>3, <1>4, <2>1 DEF OnItsList
<1>7. Range(j.payload) = {}
  BY <1>4 DEF Range
<1>8. TypeOK'
  BY <1>2, <1>4, <1>5, JobUpdate DEF IInv, TypeOK, Create, walk
<1>. QED
  BY <1>4, <1>5, <1>6, <1>7, <1>8, JobStepIInv DEF Create, Quiet

LEMMA FailIInv ==
    ASSUME IInv, NEW r \in Requests, Fail(r)
    PROVE  IInv'
<1>1. TypeOK'
  BY BlankIsAJob, JobUpdate DEF IInv, TypeOK, Fail, walk
<1>. QED  BY <1>1, BlankIsAJob, JobStepIInv DEF Fail, Quiet

LEMMA ReadToDeleteIInv ==
    ASSUME IInv, NEW r \in Requests, ReadToDelete(r)
    PROVE  IInv'
<1>1. PICK a \in alerts :
         job' = [job EXCEPT ![r] = [Blank EXCEPT !.stage = "deleting",
                                                 !.rows = <<a>>]]
  BY DEF ReadToDelete
<1> DEFINE j == [Blank EXCEPT !.stage = "deleting", !.rows = <<a>>]
<1>2. <<a>> \in Seq(Row) /\ started' \in Nat
  BY DEF IInv, TypeOK, ReadToDelete, Begin
<1>3. j \in Job /\ j.stage = "deleting"
  BY <1>2, BlankIsAJob DEF Job
<1>4. TypeOK'
  BY <1>1, <1>2, <1>3, JobUpdate DEF IInv, TypeOK, ReadToDelete, walk
<1>. QED  BY <1>1, <1>3, <1>4, JobStepIInv DEF ReadToDelete, Quiet

\* Time, teams and pages change nothing the invariant reads but their types.
LEMMA OtherIInv ==
    ASSUME IInv, TypeOK', Quiet, job' = job
    PROVE  IInv'
<1> USE DEF IInv, Quiet
<1>1. JobsFollowTheirList' /\ PayloadIsSettled'
  BY DEF JobsFollowTheirList, PayloadIsSettled, Inserting, IsRecordOf,
         OnItsList
<1>2. RowsAreIssued' /\ RowsAreApart' /\ RowsAreNew'
  BY DEF RowsAreIssued, RowsAreApart, RowsAreNew, Inserting, IsRecordOf
<1>3. AnsweredIsStored' /\ RecordsAreIssued' /\ RecordedOnce'
      /\ StoredIsRecorded' /\ GoneIsRemoved'
  BY DEF AnsweredIsStored, RecordsAreIssued, RecordedOnce, StoredIsRecorded,
         GoneIsRemoved, IsRecordOf, Removes
<1>. QED  BY <1>1, <1>2, <1>3
\* A row is inserted for an episode that nobody else has: not an open row, or
\* the INSERT would wait; not an earlier row of this list and not a stored
\* one, or it would be skipped.
LEMMA InsertIInv ==
    ASSUME IInv, NEW r \in Requests, Insert(r)
    PROVE  IInv'
<1> DEFINE x == Head(job[r].todo)
           row == [id |-> nextId, team |-> x.team, episode |-> x.episode,
                   at |-> job[r].at]
           Skips == /\ job'[r].rows = job[r].rows
                    /\ nextId' = nextId
                    /\ \E a \in alerts \cup Range(job[r].rows) : a.episode = x.episode
                    /\ x.episode \in Episodes
           Adds == /\ job'[r].rows = Append(job[r].rows, row)
                   /\ nextId' = nextId + 1
                   /\ x.episode \in Episodes =>
                         \A a \in alerts \cup Range(job[r].rows) :
                            a.episode # x.episode
<1>1. /\ Inserting(r) /\ Inserting(r)'
      /\ job' \in [Requests -> Job]
      /\ \A q \in Requests : q # r => job'[q] = job[q]
      /\ x \in Wanted /\ x = job[r].todo[1] /\ row \in Row
      /\ job'[r].payload = job[r].payload
      /\ job[r].todo \in Seq(Wanted) /\ job[r].todo # <<>>
      /\ job'[r].todo = Tail(job[r].todo)
      /\ job[r].rows \in Seq(Row)
      /\ Skips \/ Adds
  BY InsertEffect DEF IInv
<1>2. row.id = nextId /\ row.episode = x.episode
  OBVIOUS
<1>3. UNCHANGED <<alerts, audit, answered>>
  BY DEF Insert
<1> DEFINE N == Len(job[r].todo)  L == Len(job[r].payload)
<1>4. /\ N \in Nat \ {0} /\ Len(job'[r].todo) = N - 1
      /\ DOMAIN job[r].todo = 1..N /\ DOMAIN job'[r].todo = 1..(N - 1)
      /\ \A i \in 1..(N - 1) : job'[r].todo[i] = job[r].todo[i + 1]
  BY <1>1, NextRow
<1>5. /\ Len(job[r].rows) \in Nat
      /\ DOMAIN job[r].rows = 1..Len(job[r].rows)
  BY <1>1, LenProperties
<1>6. \/ job'[r].rows = job[r].rows
      \/ /\ DOMAIN job'[r].rows = 1..(Len(job[r].rows) + 1)
         /\ \A i \in DOMAIN job[r].rows : job'[r].rows[i] = job[r].rows[i]
         /\ job'[r].rows[Len(job[r].rows) + 1] = row
         /\ Adds
  <2> HIDE DEF row
  <2>. QED  BY <1>1, <1>5
<1>7. nextId \in Nat /\ nextId' \in Nat /\ nextId <= nextId'
  BY <1>1 DEF IInv, TypeOK
<1>8. TypeOK'
  <2> HIDE DEF Skips, Adds, row, x
  <2>1. /\ teams' = teams /\ clock' = clock /\ nextEvent' = nextEvent
        /\ started' = started /\ listed' = listed /\ cursor' = cursor
        /\ owed' = owed /\ complete' = complete
    BY DEF Insert, walk
  <2>2. \A a \in alerts : a.id < nextId /\ a.id \in Nat
    BY DEF IInv, TypeOK, Row
  <2>3. \A a \in alerts : a.id < nextId'
    BY <1>7, <2>2
  <2>. QED  BY <1>1, <1>3, <1>7, <2>1, <2>3 DEF IInv, TypeOK
<1> HIDE DEF x, row, Skips, N, L
<1>9. OnItsList(job[r])
  BY <1>1 DEF IInv, JobsFollowTheirList
<1>10. OnItsList(job'[r])
  <2>1. CASE job[r].payload \in Payloads
    <3>1. L \in Nat
      BY <2>1, PayloadType DEF L
    <3>2. L # 0 /\ job[r].payload # <<>>
      BY <2>1, PayloadType DEF L
    <3>3. /\ N <= L
          /\ \A i \in 1..N : job[r].todo[i].episode = job[r].payload[L - N + i]
          /\ \A i \in DOMAIN job[r].rows : \E m \in 1..(L - N) :
                job[r].rows[i].episode = job[r].payload[m]
      BY <1>4, <1>9, <3>2 DEF OnItsList, N, L
    <3>4. \A i \in 1..(N - 1) :
             job'[r].todo[i].episode = job[r].payload[L - (N - 1) + i]
      <4> TAKE i \in 1..(N - 1)
      <4>1. i + 1 \in 1..N /\ L - N + (i + 1) = L - (N - 1) + i
        BY <1>4, <3>1
      <4>2. job'[r].todo[i] = job[r].todo[i + 1]
        BY <1>4
      <4>3. job[r].todo[i + 1].episode = job[r].payload[L - N + (i + 1)]
        BY <3>3, <4>1
      <4>. QED  BY <4>1, <4>2, <4>3
    <3>5. x.episode = job[r].payload[L - (N - 1)]
      <4>1. 1 \in 1..N /\ L - N + 1 = L - (N - 1)
        BY <1>4, <3>1
      <4>. QED  BY <1>1, <3>3, <4>1
    <3>6. \A i \in DOMAIN job[r].rows : \E m \in 1..(L - (N - 1)) :
             job[r].rows[i].episode = job[r].payload[m]
      <4> TAKE i \in DOMAIN job[r].rows
      <4>1. PICK m \in 1..(L - N) :
               job[r].rows[i].episode = job[r].payload[m]
        BY <3>3
      <4>2. m \in 1..(L - (N - 1))
        BY <1>4, <3>1
      <4>. QED  BY <4>1, <4>2
    <3>7. \A i \in DOMAIN job'[r].rows : \E m \in 1..(L - (N - 1)) :
             job'[r].rows[i].episode = job[r].payload[m]
      <4>1. L - (N - 1) \in 1..(L - (N - 1))
        BY <1>4, <3>1, <3>3
      <4>2. \A i \in 1..(Len(job[r].rows) + 1) :
               i \in DOMAIN job[r].rows \/ i = Len(job[r].rows) + 1
        BY <1>5
      <4>. QED  BY <1>2, <1>6, <3>5, <3>6, <4>1, <4>2
    <3>8. Len(job'[r].todo) <= L
      BY <1>4, <3>1, <3>3
    <3>9. /\ Len(job'[r].payload) = L /\ Len(job'[r].todo) = N - 1
          /\ DOMAIN job'[r].todo = 1..(N - 1) /\ job'[r].payload = job[r].payload
      BY <1>1, <1>4 DEF L
    <3>. QED  BY <2>1, <3>4, <3>7, <3>8, <3>9, ZenonT(40) DEF OnItsList
  <2>2. CASE job[r].payload \notin Payloads
    <3>1. /\ job[r].payload = <<>>
          /\ \A i \in 1..N : job[r].todo[i].episode = Manual
          /\ \A i \in DOMAIN job[r].rows : job[r].rows[i].episode = Manual
      BY <1>4, <1>9, <2>2 DEF OnItsList
    <3>2. x.episode = Manual
      BY <1>1, <1>4, <3>1
    <3>3. \A i \in 1..(N - 1) : job'[r].todo[i].episode = Manual
      <4> TAKE i \in 1..(N - 1)
      <4>1. i + 1 \in 1..N /\ job'[r].todo[i] = job[r].todo[i + 1]
        BY <1>4
      <4>. QED  BY <3>1, <4>1
    <3>4. \A i \in DOMAIN job'[r].rows : job'[r].rows[i].episode = Manual
      <4>1. \A i \in 1..(Len(job[r].rows) + 1) :
               i \in DOMAIN job[r].rows \/ i = Len(job[r].rows) + 1
        BY <1>5
      <4>. QED  BY <1>2, <1>6, <3>1, <3>2, <4>1
    <3>. QED  BY <1>1, <1>4, <3>1, <3>3, <3>4 DEF OnItsList
  <2>. QED  BY <2>1, <2>2
<1>11. JobsFollowTheirList'
  <2>1. \A q \in Requests : Inserting(q)' => OnItsList(job'[q])
    <3> SUFFICES ASSUME NEW q \in Requests, Inserting(q)'
                 PROVE  OnItsList(job'[q])
      OBVIOUS
    <3>1. CASE q = r
      BY <1>10, <3>1
    <3>2. CASE q # r
      BY <1>1, <3>2 DEF IInv, JobsFollowTheirList, Inserting
    <3>. QED  BY <3>1, <3>2
  <2>. QED  BY <2>1 DEF JobsFollowTheirList, OnItsList
<1>12. \A i \in 1..(Len(job[r].rows) + 1) :
          i \in DOMAIN job[r].rows \/ i = Len(job[r].rows) + 1
  BY <1>5
<1>13. \A q \in Requests : \A k \in DOMAIN job'[q].rows : Inserting(q)' =>
          \/ /\ Inserting(q) /\ k \in DOMAIN job[q].rows
             /\ job'[q].rows[k] = job[q].rows[k]
          \/ /\ q = r /\ k = Len(job[r].rows) + 1 /\ Adds
             /\ job'[q].rows[k] = row
  BY <1>1, <1>6, <1>12 DEF Inserting
<1>14. RowsAreIssued'
  <2>1. ASSUME NEW q \in Requests, Inserting(q), NEW k \in DOMAIN job[q].rows
        PROVE  job[q].rows[k].id < nextId /\ job[q].rows[k].id \in Nat
    <3>1. job[q].rows \in Seq(Row)
      BY DEF IInv, TypeOK, Job
    <3>2. job[q].rows[k] \in Row
      BY <2>1, <3>1, LenProperties
    <3>. QED  BY <2>1, <3>2 DEF IInv, RowsAreIssued, Row
  <2>2. \A q \in Requests : \A k \in DOMAIN job[q].rows :
           Inserting(q) => job[q].rows[k].id < nextId'
    BY <1>7, <2>1
  <2>3. Adds => row.id < nextId'
    BY <1>2, <1>7
  <2>. QED  BY <1>13, <2>2, <2>3 DEF RowsAreIssued
\* The new row is nobody else's.
<1>15. ASSUME Adds, NEW q \in Requests, Inserting(q),
              NEW k \in DOMAIN job[q].rows
       PROVE  ~Same(job[q].rows[k], row) /\ ~Same(row, job[q].rows[k])
  <2>1. job[q].rows[k].id # nextId
    BY <1>7, <1>15 DEF IInv, RowsAreIssued
  <2>2. ASSUME x.episode \in Episodes, job[q].rows[k].episode = x.episode
        PROVE  FALSE
    <3>1. CASE q # r
      <4>1. WaitsFor(r, q)
        BY <1>1, <1>15, <2>2, <3>1 DEF WaitsFor, Holds, Inserting, x
      <4>. QED  BY <4>1 DEF Insert, Waits
    <3>2. CASE q = r
      <4>1. job[r].rows[k] \in Range(job[r].rows)
        BY <1>15, <3>2 DEF Range
      <4>. QED  BY <1>15, <2>2, <3>2, <4>1
    <3>. QED  BY <3>1, <3>2
  <2>. QED  BY <1>2, <2>1, <2>2 DEF Same
<1>16. RowsAreApart'
  <2> SUFFICES ASSUME NEW q \in Requests, NEW p \in Requests,
                      Inserting(q)', Inserting(p)',
                      NEW k \in DOMAIN job'[q].rows,
                      NEW m \in DOMAIN job'[p].rows,
                      Same(job'[q].rows[k], job'[p].rows[m])
               PROVE  q = p /\ k = m
    BY DEF RowsAreApart, Same
  <2>1. CASE /\ Inserting(q) /\ k \in DOMAIN job[q].rows
             /\ job'[q].rows[k] = job[q].rows[k]
             /\ Inserting(p) /\ m \in DOMAIN job[p].rows
             /\ job'[p].rows[m] = job[p].rows[m]
    BY <2>1 DEF IInv, RowsAreApart
  <2>. QED  BY <1>13, <1>15, <2>1
<1>17. RowsAreNew'
  <2>1. ASSUME NEW q \in Requests, Inserting(q), NEW k \in DOMAIN job[q].rows
        PROVE  /\ \A a \in alerts' : ~Same(job[q].rows[k], a)
               /\ \A e \in audit', a \in Row :
                     IsRecordOf(e, a) => a.id # job[q].rows[k].id
    BY <1>3, <2>1 DEF IInv, RowsAreNew
  <2>2. ASSUME Adds
        PROVE  /\ \A a \in alerts' : ~Same(row, a)
               /\ \A e \in audit', a \in Row : IsRecordOf(e, a) => a.id # row.id
    <3>1. \A a \in alerts : a.id < nextId
      BY DEF IInv, TypeOK
    <3>2. \A e \in audit, a \in Row : IsRecordOf(e, a) => a.id < nextId
      BY DEF IInv, RecordsAreIssued
    <3>. QED  BY <1>2, <1>3, <1>7, <2>2, <3>1, <3>2 DEF Same
  <2>. QED  BY <1>13, <2>1, <2>2 DEF RowsAreNew, Same, IsRecordOf
<1>18. PayloadIsSettled'
  <2> SUFFICES ASSUME NEW q \in Requests, Inserting(q)',
                      NEW p \in Range(job'[q].payload)
               PROVE  \/ \E i \in DOMAIN job'[q].todo :
                            job'[q].todo[i].episode = p
                      \/ \E i \in DOMAIN job'[q].rows :
                            job'[q].rows[i].episode = p
                      \/ \E e \in audit, a \in Row :
                            IsRecordOf(e, a) /\ a.episode = p
    BY <1>3 DEF PayloadIsSettled, IsRecordOf
  <2>1. CASE q # r
    <3>1. job'[q] = job[q] /\ Inserting(q) /\ p \in Range(job[q].payload)
      BY <1>1, <2>1 DEF Inserting
    <3>. QED  BY <3>1 DEF IInv, PayloadIsSettled
  <2>2. CASE q = r
    <3>1. \/ \E i \in 1..N : job[r].todo[i].episode = p
          \/ \E i \in DOMAIN job[r].rows : job[r].rows[i].episode = p
          \/ \E e \in audit, a \in Row : IsRecordOf(e, a) /\ a.episode = p
      BY <1>1, <1>4, <2>2, ZenonT(40) DEF IInv, PayloadIsSettled
    <3>2. CASE \E i \in DOMAIN job[r].rows : job[r].rows[i].episode = p
      <4>1. PICK i \in DOMAIN job[r].rows : job[r].rows[i].episode = p
        BY <3>2
      <4>2. i \in DOMAIN job'[r].rows /\ job'[r].rows[i] = job[r].rows[i]
        BY <1>5, <1>6
      <4>. QED  BY <2>2, <4>1, <4>2
    <3>3. CASE \E i \in 1..N : job[r].todo[i].episode = p
      <4>1. PICK i \in 1..N : job[r].todo[i].episode = p
        BY <3>3
      <4>2. CASE i # 1
        <5>1. i - 1 \in 1..(N - 1) /\ (i - 1) + 1 = i
          BY <1>4, <4>2
        <5>2. job'[r].todo[i - 1].episode = p
          BY <1>4, <4>1, <5>1
        <5>. QED  BY <1>4, <2>2, <5>1, <5>2
      <4>3. CASE i = 1 /\ Skips
        <5>1. PICK a \in alerts \cup Range(job[r].rows) : a.episode = p
          BY <1>1, <4>1, <4>3 DEF Skips
        <5>2. CASE a \in alerts
          BY <5>1, <5>2 DEF IInv, TypeOK, StoredIsRecorded
        <5>3. CASE a \in Range(job[r].rows)
          <6>1. PICK k \in DOMAIN job[r].rows : a = job[r].rows[k]
            BY <5>3 DEF Range
          <6>2. job'[r].rows = job[r].rows
            BY <4>3 DEF Skips
          <6>. QED  BY <2>2, <5>1, <6>1, <6>2
        <5>. QED  BY <5>1, <5>2, <5>3
      <4>4. CASE i = 1 /\ Adds
        <5>1. row.episode = p
          BY <1>1, <1>2, <4>1, <4>4
        <5>2. job'[r].rows[Len(job[r].rows) + 1] = row
              /\ Len(job[r].rows) + 1 \in DOMAIN job'[r].rows
          <6> HIDE DEF Adds
          <6>1. row \in Row /\ job'[r].rows = Append(job[r].rows, row)
            BY <1>1, <4>4 DEF Adds
          <6>. QED  BY <1>1, <1>5, <6>1
        <5>. QED  BY <2>2, <5>1, <5>2
      <4>. QED  BY <1>1, <4>2, <4>3, <4>4
    <3>. QED  BY <2>2, <3>1, <3>2, <3>3
  <2>. QED  BY <2>1, <2>2
<1>19. RecordsAreIssued'
  <2>1. \A e \in audit, a \in Row : IsRecordOf(e, a) => a.id < nextId /\ a.id \in Nat
    BY DEF IInv, RecordsAreIssued, Row
  <2>. QED  BY <1>3, <1>7, <2>1 DEF RecordsAreIssued, IsRecordOf
<1>20. AnsweredIsStored' /\ RecordedOnce' /\ StoredIsRecorded' /\ GoneIsRemoved'
       /\ IsFiniteSet(alerts')
  BY <1>3 DEF IInv, AnsweredIsStored, RecordedOnce, StoredIsRecorded,
              GoneIsRemoved, IsRecordOf, Removes
<1>. QED
  BY <1>8, <1>11, <1>14, <1>16, <1>17, <1>18, <1>19, <1>20 DEF IInv
\* What is left when a request is over: the others' rows.
LEMMA FewerJobs ==
    ASSUME IInv, nextId' = nextId,
           \A q \in Requests : Inserting(q)' => Inserting(q) /\ job'[q] = job[q]
    PROVE  JobsFollowTheirList' /\ RowsAreIssued' /\ RowsAreApart'
<1>1. JobsFollowTheirList'
  <2>1. \A q \in Requests : Inserting(q)' => OnItsList(job'[q])
    BY DEF IInv, JobsFollowTheirList
  <2>. QED  BY <2>1 DEF JobsFollowTheirList, OnItsList
<1>2. RowsAreIssued'
  BY DEF IInv, RowsAreIssued
<1>3. RowsAreApart'
  BY DEF IInv, RowsAreApart, Same
<1>. QED  BY <1>1, <1>2, <1>3

\* The rows a request inserted become stored and recorded in the same step.
LEMMA CommitIInv ==
    ASSUME IInv, NEW r \in Requests, Commit(r)
    PROVE  IInv'
<1> DEFINE rows == job[r].rows
           n == Len(job[r].rows)
           event(i) == [n |-> nextEvent + i - 1, action |-> "alert.created",
                        alert |-> {rows[i]}, before |-> 0]
<1>1. /\ Inserting(r) /\ job[r].todo = <<>> /\ rows \in Seq(Row)
      /\ n \in Nat /\ DOMAIN rows = 1..n /\ nextEvent \in Nat
      /\ \A i \in 1..n : rows[i] \in Row
  <2>1. Inserting(r) /\ job[r].todo = <<>> /\ rows \in Seq(Row)
        /\ nextEvent \in Nat
    BY DEF Commit, Inserting, IInv, TypeOK, Job
  <2>. QED  BY <2>1, LenProperties
<1>2. IsFiniteSet(Range(rows)) /\ Range(rows) = {rows[i] : i \in 1..n}
  BY <1>1, FiniteRange
<1>3. /\ alerts' = alerts \cup {rows[i] : i \in 1..n}
      /\ audit' = audit \cup {event(i) : i \in 1..n}
      /\ nextEvent' = nextEvent + n
      /\ answered' = answered \cup Range(job[r].payload)
      /\ nextId' = nextId
  BY <1>1, <1>2 DEF Commit, EventsOf
<1>4. /\ job' \in [Requests -> Job] /\ job'[r] = Blank
      /\ \A q \in Requests : q # r => job'[q] = job[q]
  BY BlankIsAJob, JobUpdate DEF Commit, IInv, TypeOK
<1>5. \A q \in Requests :
         Inserting(q)' => q # r /\ Inserting(q) /\ job'[q] = job[q]
  BY <1>4, BlankIsAJob DEF Inserting
<1>6. \A i \in 1..n :
         /\ event(i) \in Event /\ event(i).n = nextEvent + i - 1
         /\ event(i).action = "alert.created" /\ event(i).alert = {rows[i]}
         /\ event(i).n < nextEvent'
         /\ \A a : IsRecordOf(event(i), a) <=> a = rows[i]
  <2> TAKE i \in 1..n
  <2>1. nextEvent + i - 1 \in Nat /\ nextEvent + i - 1 < nextEvent'
    BY <1>1, <1>3
  <2>. QED  BY <1>1, <2>1 DEF Event, IsRecordOf
<1> HIDE DEF event, n
<1>7. \A i, k \in 1..n : Same(rows[i], rows[k]) => i = k
  BY <1>1 DEF IInv, RowsAreApart
<1>8. \A i \in 1..n : \A a \in alerts : ~Same(rows[i], a) /\ ~Same(a, rows[i])
  BY <1>1 DEF IInv, RowsAreNew, Same
<1>9. \A i \in 1..n : \A e \in audit : ~IsRecordOf(e, rows[i])
  <2> SUFFICES ASSUME NEW i \in 1..n, NEW e \in audit, IsRecordOf(e, rows[i])
               PROVE  FALSE
    OBVIOUS
  <2>1. rows[i].id # rows[i].id
    BY <1>1 DEF IInv, RowsAreNew
  <2>. QED  BY <2>1
<1>10. \A e \in audit : e \in audit'
  BY <1>3
<1>11. TypeOK'
  <2>1. answered' \subseteq Episodes
    <3>1. job[r].payload \in Seq(Episodes)
      BY DEF IInv, TypeOK, Job
    <3>2. Range(job[r].payload) \subseteq Episodes
      BY <3>1, FiniteRange
    <3>. QED  BY <1>3, <3>2 DEF IInv, TypeOK
  <2>2. /\ teams' = teams /\ clock' = clock /\ started' = started
        /\ listed' = listed /\ cursor' = cursor /\ owed' = owed
        /\ complete' = complete
    BY DEF Commit, walk
  <2>3. alerts' \subseteq Row /\ audit' \subseteq Event
    BY <1>1, <1>3, <1>6 DEF IInv, TypeOK
  <2>4. \A a \in alerts' : a.id < nextId'
    <3>1. \A i \in 1..n : rows[i].id < nextId
      BY <1>1 DEF IInv, RowsAreIssued
    <3>. QED  BY <1>3, <3>1 DEF IInv, TypeOK
  <2>5. nextEvent' \in Nat
    BY <1>1, <1>3
  <2>6. \A e \in audit' : e.n < nextEvent'
    <3>1. \A e \in audit : e.n < nextEvent /\ e.n \in Nat
      BY DEF IInv, TypeOK, Event
    <3>2. \A e \in audit : e.n < nextEvent'
      BY <1>1, <1>3, <3>1
    <3>. QED  BY <1>3, <1>6, <3>2
  <2>7. \A a, b \in alerts' : Same(a, b) => a = b
    <3>1. \A a, b \in alerts : Same(a, b) => a = b
      BY DEF IInv, TypeOK, Same
    <3>. QED  BY <1>3, <1>7, <1>8, <3>1
  <2>8. teams' \subseteq Teams /\ Default \in teams' /\ clock' \in Nat
        /\ nextId' \in Nat /\ started' \in Nat /\ listed' \in Seq(SUBSET Row)
        /\ cursor' \subseteq Row /\ owed' \subseteq Row /\ complete' \in BOOLEAN
    BY <1>3, <2>2 DEF IInv, TypeOK
  <2>. QED  BY <1>4, <2>1, <2>3, <2>4, <2>5, <2>6, <2>7, <2>8 DEF TypeOK, Same
<1>12. IsFiniteSet(alerts')
  BY <1>2, <1>3, FS_Union DEF IInv
<1>13. JobsFollowTheirList' /\ RowsAreIssued' /\ RowsAreApart'
  BY <1>3, <1>5, FewerJobs
<1>14. PayloadIsSettled'
  BY <1>5, <1>10 DEF IInv, PayloadIsSettled, IsRecordOf
<1>15. AnsweredIsStored'
  <2>1. \A p \in answered : \E e \in audit :
           e.action = "alert.created" /\ \E a \in e.alert : a.episode = p
    BY DEF IInv, AnsweredIsStored
  <2>2. ASSUME NEW p \in Range(job[r].payload)
        PROVE  \E e \in audit' :
                  e.action = "alert.created" /\ \E a \in e.alert : a.episode = p
    <3>1. \A i : i \notin DOMAIN <<>>
      OBVIOUS
    <3>2. \/ \E i \in 1..n : rows[i].episode = p
          \/ \E e \in audit, a \in Row : IsRecordOf(e, a) /\ a.episode = p
      BY <1>1, <3>1 DEF IInv, PayloadIsSettled
    <3>3. CASE \E i \in 1..n : rows[i].episode = p
      <4>1. PICK i \in 1..n : rows[i].episode = p
        BY <3>3
      <4>. QED  BY <1>3, <1>6, <4>1
    <3>. QED  BY <1>10, <3>2, <3>3 DEF IsRecordOf
  <2>. QED  BY <1>3, <1>10, <2>1, <2>2 DEF AnsweredIsStored
<1>16. RowsAreNew'
  <2> SUFFICES ASSUME NEW q \in Requests, Inserting(q)',
                      NEW k \in DOMAIN job'[q].rows
               PROVE  /\ \A a \in alerts' : ~Same(job'[q].rows[k], a)
                      /\ \A e \in audit', a \in Row :
                            IsRecordOf(e, a) => a.id # job'[q].rows[k].id
    BY DEF RowsAreNew, Same, IsRecordOf
  <2>1. q # r /\ Inserting(q) /\ job'[q] = job[q]
    BY <1>5
  <2>2. \A i \in 1..n : ~Same(job[q].rows[k], rows[i])
    BY <1>1, <2>1 DEF IInv, RowsAreApart
  <2>3. \A i \in 1..n : rows[i].id # job[q].rows[k].id
    BY <2>2 DEF Same
  <2>4. /\ \A a \in alerts : ~Same(job[q].rows[k], a)
        /\ \A e \in audit, a \in Row :
              IsRecordOf(e, a) => a.id # job[q].rows[k].id
    BY <2>1 DEF IInv, RowsAreNew
  <2>. QED  BY <1>3, <1>6, <2>1, <2>2, <2>3, <2>4
<1>17. RecordsAreIssued'
  <2>1. \A e \in audit, a \in Row : IsRecordOf(e, a) => a.id < nextId
    BY DEF IInv, RecordsAreIssued
  <2>2. \A i \in 1..n : rows[i].id < nextId
    BY <1>1 DEF IInv, RowsAreIssued
  <2>3. \A e \in audit', a \in Row : IsRecordOf(e, a) => a.id < nextId'
    BY <1>3, <1>6, <2>1, <2>2
  <2>. QED  BY <2>3 DEF RecordsAreIssued, IsRecordOf
<1>18. RecordedOnce'
  <2>1. \A e, f \in audit, a \in Row :
           IsRecordOf(e, a) /\ IsRecordOf(f, a) => e = f
    BY DEF IInv, RecordedOnce
  <2>2. \A i, k \in 1..n : rows[i] = rows[k] => i = k
    BY <1>7 DEF Same
  <2>3. \A e, f \in audit', a \in Row :
           IsRecordOf(e, a) /\ IsRecordOf(f, a) => e = f
    BY <1>3, <1>6, <1>9, <2>1, <2>2
  <2>. QED  BY <2>3 DEF RecordedOnce, IsRecordOf
<1>19. StoredIsRecorded'
  <2>1. \A a \in alerts : \E e \in audit : IsRecordOf(e, a)
    BY DEF IInv, StoredIsRecorded
  <2>2. \A a \in alerts' : \E e \in audit' : IsRecordOf(e, a)
    BY <1>3, <1>6, <2>1
  <2>. QED  BY <2>2 DEF StoredIsRecorded, IsRecordOf
<1>20. GoneIsRemoved'
  <2>1. \A e \in audit', a \in Row : IsRecordOf(e, a) /\ a \notin alerts' =>
           e \in audit /\ a \notin alerts
    BY <1>3, <1>6
  <2>2. \A e \in audit', a \in Row : IsRecordOf(e, a) /\ a \notin alerts' =>
           \E d \in audit' : d.n > e.n /\ Removes(d, a)
    BY <1>10, <2>1 DEF IInv, GoneIsRemoved
  <2>. QED  BY <2>2 DEF GoneIsRemoved, IsRecordOf, Removes
<1>. QED
  BY <1>11, <1>12, <1>13, <1>14, <1>15, <1>16, <1>17, <1>18, <1>19, <1>20
  DEF IInv

\* Alerts that are removed are removed by the last event there is.
LEMMA RemovalIInv ==
    ASSUME IInv, TypeOK', NEW d, audit' = audit \cup {d},
           d.n = nextEvent, d.action # "alert.created",
           alerts' \subseteq alerts,
           \A a \in alerts : a \notin alerts' => Removes(d, a),
           answered' = answered, nextId' = nextId,
           \A q \in Requests : Inserting(q)' => Inserting(q) /\ job'[q] = job[q]
    PROVE  IInv'
<1>1. \A e, a : e \in audit' /\ IsRecordOf(e, a) => e \in audit
  BY DEF IsRecordOf
<1>2. \A e \in audit : e \in audit' /\ e.n < d.n
  BY DEF IInv, TypeOK
<1>3. JobsFollowTheirList' /\ RowsAreIssued' /\ RowsAreApart'
  BY FewerJobs
<1>4. IsFiniteSet(alerts')
  BY FS_Subset DEF IInv
<1>5. PayloadIsSettled' /\ AnsweredIsStored'
  BY <1>2 DEF IInv, PayloadIsSettled, AnsweredIsStored, IsRecordOf
<1>6. RowsAreNew'
  <2>1. \A q \in Requests : Inserting(q)' => \A i \in DOMAIN job'[q].rows :
            /\ \A a \in alerts' : ~Same(job'[q].rows[i], a)
            /\ \A e \in audit', a \in Row :
                  IsRecordOf(e, a) => a.id # job'[q].rows[i].id
    BY <1>1 DEF IInv, RowsAreNew
  <2>. QED  BY <2>1 DEF RowsAreNew, Same, IsRecordOf
<1>7. RecordsAreIssued' /\ RecordedOnce'
  <2>1. /\ \A e \in audit', a \in Row : IsRecordOf(e, a) => a.id < nextId'
        /\ \A e, f \in audit', a \in Row :
              IsRecordOf(e, a) /\ IsRecordOf(f, a) => e = f
    BY <1>1 DEF IInv, RecordsAreIssued, RecordedOnce
  <2>. QED  BY <2>1 DEF RecordsAreIssued, RecordedOnce, IsRecordOf
<1>8. StoredIsRecorded'
  BY <1>2 DEF IInv, StoredIsRecorded, IsRecordOf
<1>9. GoneIsRemoved'
  <2>1. ASSUME NEW e \in audit', NEW a \in Row, IsRecordOf(e, a), a \notin alerts'
        PROVE  \E f \in audit' : f.n > e.n /\ Removes(f, a)
    <3>1. e \in audit
      BY <1>1, <2>1
    <3>2. CASE a \in alerts
      <4>1. d \in audit' /\ Removes(d, a) /\ d.n > e.n
        <5>1. e.n \in Nat /\ d.n \in Nat
          BY <3>1 DEF IInv, TypeOK, Event
        <5>. QED  BY <1>2, <2>1, <3>1, <3>2, <5>1
      <4>. QED  BY <4>1
    <3>3. CASE a \notin alerts
      BY <1>2, <2>1, <3>1, <3>3 DEF IInv, GoneIsRemoved
    <3>. QED  BY <3>2, <3>3
  <2>. QED  BY <2>1 DEF GoneIsRemoved, IsRecordOf, Removes
<1>. QED  BY <1>3, <1>4, <1>5, <1>6, <1>7, <1>8, <1>9 DEF IInv

\* Types after a removal.
LEMMA RemovalTypeOK ==
    ASSUME TypeOK, NEW d \in Event, audit' = audit \cup {d}, d.n = nextEvent,
           alerts' \subseteq alerts, nextEvent' = nextEvent + 1,
           job' \in [Requests -> Job], started' \in Nat,
           UNCHANGED <<teams, answered, clock, nextId, walk>>
    PROVE  TypeOK'
<1>1. \A e \in audit' : e.n < nextEvent'
  <2>1. \A e \in audit : e.n < nextEvent /\ e.n \in Nat
    BY DEF TypeOK, Event
  <2>. QED  BY <2>1 DEF TypeOK
<1>2. nextEvent' \in Nat
  BY DEF TypeOK
<1>. QED  BY <1>1, <1>2 DEF TypeOK, walk

LEMMA DeleteIInv ==
    ASSUME IInv, NEW r \in Requests, Delete(r)
    PROVE  IInv'
<1> DEFINE d == [n |-> nextEvent, action |-> "alert.deleted",
                 alert |-> Range(job[r].rows), before |-> 0]
<1>1. job[r].rows \in Seq(Row) /\ nextEvent \in Nat
  BY DEF IInv, TypeOK, Job
<1>2. Range(job[r].rows) \subseteq Row
  BY <1>1, FiniteRange
<1>3. d \in Event /\ d.n = nextEvent /\ d.action = "alert.deleted"
      /\ d.alert = Range(job[r].rows)
  BY <1>1, <1>2 DEF Event
<1>4. /\ job' \in [Requests -> Job] /\ job'[r] = Blank
      /\ \A q \in Requests : q # r => job'[q] = job[q]
  BY BlankIsAJob, JobUpdate DEF Delete, IInv, TypeOK
<1>5. \A q \in Requests : Inserting(q)' => Inserting(q) /\ job'[q] = job[q]
  BY <1>4, BlankIsAJob DEF Inserting
<1>6. /\ audit' = audit \cup {d} /\ alerts' \subseteq alerts
      /\ \A a \in alerts : a \notin alerts' => Removes(d, a)
  BY <1>3 DEF Delete, Removes
<1>7. TypeOK'
  <2> HIDE DEF d
  <2>1. started' \in Nat
    BY DEF Delete, IInv, TypeOK
  <2>. QED  BY <1>3, <1>4, <1>6, <2>1, RemovalTypeOK DEF Delete, IInv
<1> HIDE DEF d
<1>. QED  BY <1>3, <1>5, <1>6, <1>7, RemovalIInv DEF Delete

LEMMA RetainIInv ==
    ASSUME IInv, Retain
    PROVE  IInv'
<1>1. PICK t \in 1..clock :
        /\ alerts' = {a \in alerts : a.at >= t}
        /\ audit' = audit \cup {[n |-> nextEvent, before |-> t,
                                 action |-> "retention.applied", alert |-> {}]}
  BY DEF Retain
<1> DEFINE d == [n |-> nextEvent, before |-> t,
                 action |-> "retention.applied", alert |-> {}]
<1>2. nextEvent \in Nat /\ t \in Nat /\ started' \in Nat
      /\ job' \in [Requests -> Job] /\ job' = job
  BY DEF IInv, TypeOK, Retain, Begin
<1>3. d \in Event /\ d.n = nextEvent /\ d.action = "retention.applied"
      /\ d.before = t
  BY <1>2 DEF Event
<1>4. \A a \in alerts : a \notin alerts' => a.at < t
  <2>1. \A a \in alerts : a.at \in Nat
    BY DEF IInv, TypeOK, Row
  <2>. QED  BY <1>1, <1>2, <2>1
<1>5. /\ audit' = audit \cup {d} /\ alerts' \subseteq alerts
      /\ \A a \in alerts : a \notin alerts' => Removes(d, a)
  BY <1>1, <1>3, <1>4 DEF Removes
<1>6. \A q \in Requests : Inserting(q)' => Inserting(q) /\ job'[q] = job[q]
  BY <1>2 DEF Inserting
<1> HIDE DEF d
<1>7. TypeOK'
  BY <1>2, <1>3, <1>5, RemovalTypeOK DEF Retain, IInv
<1>. QED  BY <1>3, <1>5, <1>6, <1>7, RemovalIInv DEF Retain

LEMMA NewestIsASubset ==
    ASSUME NEW S, NEW n
    PROVE  Newest(S, n) \subseteq S
  BY DEF Newest

LEMMA ListPageIInv ==
    ASSUME IInv, ListPage
    PROVE  IInv'
<1> DEFINE rows == NewestAlerts(PageSize + 1)
           page == Newest(rows, PageSize)
<1>1. rows \subseteq alerts
  BY DEF NewestAlerts, Newest
<1>2. page \subseteq rows
  BY NewestIsASubset
<1>3. page \subseteq Row /\ owed \subseteq Row /\ alerts \subseteq Row
      /\ listed \in Seq(SUBSET Row)
  BY <1>1, <1>2 DEF IInv, TypeOK
<1> HIDE DEF page, rows
<1>4. /\ listed' = Append(listed, page)
      /\ cursor' = {a \in page : \A b \in page : ~Newer(a, b)}
      /\ complete' = (rows = page)
      /\ owed' = IF listed = <<>> THEN {a \in alerts : a.team \in Sees}
                                  ELSE owed
      /\ UNCHANGED <<teams, alerts, audit, job, answered, clock, nextId,
                     nextEvent, started>>
  BY DEF ListPage, page, rows
<1>5. listed' \in Seq(SUBSET Row)
  BY <1>3, <1>4
<1>6. cursor' \subseteq Row /\ owed' \subseteq Row /\ complete' \in BOOLEAN
  BY <1>3, <1>4
<1>7. TypeOK'
  BY <1>4, <1>5, <1>6 DEF IInv, TypeOK
<1>. QED  BY <1>4, <1>7, OtherIInv DEF Quiet

LEMMA NextIInv == IInv /\ [Next]_vars => IInv'
<1> SUFFICES ASSUME IInv, [Next]_vars PROVE IInv'
  OBVIOUS
<1>1. ASSUME NEW r \in Requests,
             \/ Receive(r) \/ Create(r) \/ Insert(r) \/ Commit(r) \/ Fail(r)
             \/ ReadToDelete(r) \/ Delete(r)
      PROVE  IInv'
  BY <1>1, ReceiveIInv, CreateIInv, InsertIInv, CommitIInv, FailIInv,
     ReadToDeleteIInv, DeleteIInv
<1>2. CASE Retain
  BY <1>2, RetainIInv
<1>3. CASE ListPage
  BY <1>3, ListPageIInv
<1>4. CASE NewTeam
  <2>1. TypeOK'
    BY <1>4 DEF NewTeam, IInv, TypeOK, walk
  <2>. QED  BY <1>4, <2>1, OtherIInv DEF NewTeam, Quiet
<1>5. CASE Tick
  <2>1. TypeOK'
    BY <1>5 DEF Tick, IInv, TypeOK, walk
  <2>. QED  BY <1>5, <2>1, OtherIInv DEF Tick, Quiet
<1>6. CASE UNCHANGED vars
  <2>1. TypeOK'
    BY <1>6 DEF vars, IInv, TypeOK, walk
  <2>. QED  BY <1>6, <2>1, OtherIInv DEF vars, Quiet
<1>. QED  BY <1>1, <1>2, <1>3, <1>4, <1>5, <1>6 DEF Next

LEMMA Inductive == Spec => []IInv
<1>. QED  BY InitIInv, NextIInv, PTL DEF Spec

-----------------------------------------------------------------------------
\* The tables and what each request carries have the types the model gives
\* them; ids and event numbers are issued in order, and no two stored alerts
\* are of one episode (uq_alerts_external_id).
THEOREM TypeCorrect == Spec => []TypeOK
<1>1. IInv => TypeOK
  BY DEF IInv
<1>. QED  BY <1>1, Inductive, PTL

\* Alertmanager may stop re-sending what a webhook was answered a 200 for:
\* each of its episodes has been stored (app/routes/alerts.py).
THEOREM AnswerMeansStored == Spec => []AnsweredIsStored
<1>1. IInv => AnsweredIsStored
  BY DEF IInv
<1>. QED  BY <1>1, Inductive, PTL

\* The trail accounts for the table: a stored alert is in exactly one
\* "alert.created" event, and one that was recorded and is not stored any more
\* is in a later event that removed it (app/audit.py).
THEOREM TrailAccountsForAlerts == Spec => []EveryAlertIsOnRecord
<1>1. ASSUME IInv
      PROVE  EveryAlertIsOnRecord
  <2> USE <1>1
  <2>1. ASSUME NEW a \in alerts
        PROVE  Cardinality({e \in audit : e.action = "alert.created"
                                            /\ a \in e.alert}) = 1
    <3>1. PICK e \in audit : IsRecordOf(e, a)
      BY DEF IInv, StoredIsRecorded
    <3>2. a \in Row
      BY DEF IInv, TypeOK
    <3>3. \A f \in audit : IsRecordOf(f, a) => f = e
      BY <3>1, <3>2 DEF IInv, RecordedOnce
    <3>4. {f \in audit : f.action = "alert.created" /\ a \in f.alert} = {e}
      BY <3>1, <3>3 DEF IsRecordOf
    <3>. QED  BY <3>4, FS_Singleton
  <2>2. ASSUME NEW e \in audit, e.action = "alert.created",
               NEW a \in e.alert \ alerts
        PROVE  \E d \in audit : d.n > e.n /\ Removes(d, a)
    <3>1. a \in Row /\ IsRecordOf(e, a)
      BY <2>2 DEF IInv, TypeOK, Event, IsRecordOf
    <3>. QED  BY <3>1 DEF IInv, GoneIsRemoved
  <2>. QED  BY <2>1, <2>2 DEF EveryAlertIsOnRecord
<1>2. IInv => EveryAlertIsOnRecord
  BY <1>1
<1>. QED  BY <1>2, Inductive, PTL
\* Numbers cannot fall for ever.
LEMMA LeastOf ==
    ASSUME NEW T \in SUBSET Nat, T # {}
    PROVE  \E m \in T : \A k \in T : m <= k
<1>1. IsWellFoundedOn(OpToRel(<, Nat), Nat)
  BY NatLessThanWellFounded, Zenon
<1>2. PICK m \in T : \A k \in T : ~(<<k, m>> \in OpToRel(<, Nat))
  BY ONLY <1>1, T \in SUBSET Nat, T # {}, WFMin, Zenon
<1>3. \A k \in T : ~(k < m)
  BY <1>2 DEF OpToRel
<1>. QED  BY <1>3

\* In a circle of waiting webhooks each waits for one that is further on in
\* the common order (not at the same episode: that one holds a row of it, and
\* nobody else can), and there is no end to that.
THEOREM OneOrderIsEnough == Spec => []OneOrderNeverCollides
<1>1. ASSUME IInv
      PROVE  OneOrderNeverCollides
  <2> SUFFICES ASSUME NEW S \in (SUBSET Requests) \ {{}},
                      \A x \in S : \E y \in S : WaitsFor(x, y),
                      NEW rank \in [Episodes -> 1..Cardinality(Episodes)],
                      \A x \in S, e, f \in Episodes :
                         Before(job[x].payload, e, f) => rank[e] < rank[f]
               PROVE  FALSE
    BY DEF OneOrderNeverCollides
  <2> DEFINE next(x) == Head(job[x].todo).episode
  <2>1. Cardinality(Episodes) \in Nat
    BY EpisodesAreFinite, FS_CardinalityType
  <2>2. \A x \in S : next(x) \in Episodes /\ Inserting(x) /\ job[x].todo # <<>>
    BY DEF WaitsFor, Inserting
  <2>3. ASSUME NEW x \in S, NEW y \in S, WaitsFor(x, y)
        PROVE  rank[next(x)] < rank[next(y)]
    <3> DEFINE N == Len(job[y].todo)  L == Len(job[y].payload)
    <3>1. Inserting(y) /\ job[y].todo # <<>> /\ next(y) \in Episodes
      BY <2>2
    <3>2. job[y].todo \in Seq(Wanted) /\ OnItsList(job[y])
      BY <1>1, <3>1 DEF IInv, TypeOK, Job, JobsFollowTheirList
    <3>3. N \in Nat \ {0} /\ next(y) = job[y].todo[1].episode
          /\ DOMAIN job[y].todo = 1..N
      BY <3>1, <3>2, NextRow
    <3>4. job[y].payload \in Payloads
      BY <3>1, <3>2, <3>3, ManualIsNoEpisode DEF OnItsList
    <3>5. L \in Nat \ {0} /\ DOMAIN job[y].payload = 1..L
          /\ job[y].payload # <<>>
      BY <3>4, PayloadType
    <3> HIDE DEF N, L
    <3>6. /\ N <= L
          /\ \A i \in 1..N : job[y].todo[i].episode = job[y].payload[L - N + i]
          /\ \A i \in DOMAIN job[y].rows : \E m \in 1..(L - N) :
                job[y].rows[i].episode = job[y].payload[m]
      BY <3>2, <3>3, <3>5 DEF OnItsList, N, L
    <3>7. 1 \in 1..N /\ L - N + 1 \in 1..L
      BY <3>3, <3>5, <3>6
    <3>8. next(y) = job[y].payload[L - N + 1]
      BY <3>3, <3>6, <3>7
    <3>9. PICK i \in DOMAIN job[y].rows : job[y].rows[i].episode = next(x)
      BY <2>3 DEF WaitsFor, Holds
    <3>10. PICK m \in 1..(L - N) : job[y].payload[m] = next(x)
      BY <3>6, <3>9
    <3>11. m \in 1..L /\ m < L - N + 1
      BY <3>3, <3>5, <3>6
    <3>12. next(x) # next(y)
      <4> SUFFICES ASSUME next(x) = next(y) PROVE FALSE
        OBVIOUS
      <4>1. PICK z \in S : WaitsFor(y, z)
        OBVIOUS
      <4>2. PICK k \in DOMAIN job[z].rows : job[z].rows[k].episode = next(y)
        BY <4>1 DEF WaitsFor, Holds
      <4>3. Inserting(z) /\ y # z
        BY <4>1 DEF WaitsFor, Holds, Inserting
      <4>4. Same(job[y].rows[i], job[z].rows[k])
        BY <3>1, <3>9, <4>2 DEF Same
      <4>. QED  BY <1>1, <3>1, <4>3, <4>4 DEF IInv, RowsAreApart
    <3> HIDE DEF next
    <3>13. Before(job[y].payload, next(x), next(y))
      BY <3>5, <3>7, <3>8, <3>10, <3>11, <3>12 DEF Before
    <3>. QED  BY <2>2, <3>13
  <2> DEFINE ahead(x) == Cardinality(Episodes) - rank[next(x)]
             T == {ahead(x) : x \in S}
  <2> HIDE DEF next
  <2>4. \A x \in S : ahead(x) \in Nat /\ rank[next(x)] \in Nat
    <3> TAKE x \in S
    <3>1. rank[next(x)] \in 1..Cardinality(Episodes)
      BY <2>2
    <3>. QED  BY <2>1, <3>1
  <2>5. T \in SUBSET Nat /\ T # {}
    BY <2>4
  <2>6. PICK m \in T : \A k \in T : m <= k
    BY <2>5, LeastOf
  <2>7. PICK x \in S : m = ahead(x)
    BY <2>6
  <2>8. PICK y \in S : WaitsFor(x, y)
    OBVIOUS
  <2>9. rank[next(x)] < rank[next(y)]
    BY <2>3, <2>8
  <2>10. ahead(y) < ahead(x)
    BY <2>1, <2>4, <2>9
  <2>11. ahead(x) <= ahead(y)
    BY <2>6, <2>7
  <2> HIDE DEF ahead
  <2>12. ahead(x) \in Nat /\ ahead(y) \in Nat
    BY <2>4 DEF ahead
  <2>. QED  BY <2>10, <2>11, <2>12
<1>2. IInv => OneOrderNeverCollides
  BY <1>1
<1>. QED  BY <1>2, Inductive, PTL
-----------------------------------------------------------------------------
(* The list, page by page.                                                 *)

Ordered(S) ==
    S \subseteq Row /\ IsFiniteSet(S) /\ \A a, b \in S : a.id = b.id => a = b

Ahead(S, a) == {b \in S : Newer(b, a)}

LEMMA NewerIsAnOrder ==
    ASSUME NEW a \in Row, NEW b \in Row
    PROVE  /\ ~Newer(a, a)
           /\ ~(Newer(a, b) /\ Newer(b, a))
           /\ a.id # b.id => Newer(a, b) \/ Newer(b, a)
           /\ \A c \in Row : Newer(a, b) /\ Newer(b, c) => Newer(a, c)
<1>1. \A c \in Row : c.at \in Nat /\ c.id \in Nat
  BY DEF Row
<1>. QED  BY <1>1 DEF Newer

LEMMA OrderedSubset ==
    ASSUME NEW S, Ordered(S), NEW T \in SUBSET S
    PROVE  Ordered(T) /\ Cardinality(T) \in Nat
           /\ Cardinality(T) <= Cardinality(S)
           /\ (Cardinality(T) = Cardinality(S) => T = S)
  BY FS_Subset, FS_CardinalityType DEF Ordered

\* What is ahead of an alert is ahead of every later one, and so is the alert.
LEMMA AheadGrows ==
    ASSUME NEW S, Ordered(S), NEW a \in S, NEW b \in Row, Newer(a, b)
    PROVE  /\ Cardinality(Ahead(S, a)) \in Nat
           /\ Cardinality(Ahead(S, b)) \in Nat
           /\ Cardinality(Ahead(S, a)) < Cardinality(Ahead(S, b))
<1>1. Ahead(S, a) \in SUBSET Ahead(S, b)
  BY NewerIsAnOrder DEF Ahead, Ordered
<1>2. a \in Ahead(S, b) /\ a \notin Ahead(S, a)
  BY NewerIsAnOrder DEF Ahead, Ordered
<1>3. Ordered(Ahead(S, b))
  BY OrderedSubset DEF Ahead
<1>4. Cardinality(Ahead(S, b)) \in Nat
  BY OrderedSubset DEF Ahead
<1>. QED  BY <1>1, <1>2, <1>3, <1>4, OrderedSubset

LEMMA NewestExists ==
    ASSUME NEW S, Ordered(S), S # {}
    PROVE  \E a \in S : \A b \in S : ~Newer(b, a)
<1> DEFINE T == {Cardinality(Ahead(S, a)) : a \in S}
<1>0. \A a \in S : Cardinality(Ahead(S, a)) \in Nat
  BY OrderedSubset DEF Ahead
<1>1. T \in SUBSET Nat /\ T # {}
  BY <1>0
<1>2. PICK m \in T : \A k \in T : m <= k
  BY <1>1, LeastOf
<1>3. PICK a \in S : m = Cardinality(Ahead(S, a))
  BY <1>2
<1>4. ASSUME NEW b \in S, Newer(b, a) PROVE FALSE
  <2>1. a \in Row
    BY DEF Ordered
  <2>2. /\ Cardinality(Ahead(S, b)) \in Nat /\ Cardinality(Ahead(S, a)) \in Nat
        /\ Cardinality(Ahead(S, b)) < Cardinality(Ahead(S, a))
    BY <1>4, <2>1, AheadGrows
  <2>3. Cardinality(Ahead(S, a)) <= Cardinality(Ahead(S, b))
    BY <1>2, <1>3
  <2>. QED  BY <2>2, <2>3
<1>. QED  BY <1>4

\* The last of a page: it has the most ahead of it.
LEMMA OldestExists ==
    ASSUME NEW S, Ordered(S), S # {}
    PROVE  \E a \in S : \A b \in S : b = a \/ Newer(b, a)
<1> DEFINE left(a) == Cardinality(S) - Cardinality(Ahead(S, a))
           T == {left(a) : a \in S}
<1>1. \A a \in S : /\ Cardinality(S) \in Nat
                   /\ Cardinality(Ahead(S, a)) \in Nat
                   /\ Cardinality(Ahead(S, a)) <= Cardinality(S)
  BY OrderedSubset DEF Ahead
<1>2. T \in SUBSET Nat /\ T # {}
  BY <1>1
<1>3. PICK m \in T : \A k \in T : m <= k
  BY <1>2, LeastOf
<1>4. PICK a \in S : m = left(a)
  BY <1>3
<1>5. ASSUME NEW b \in S, Newer(a, b) PROVE FALSE
  <2>1. b \in Row
    BY DEF Ordered
  <2>2. Cardinality(Ahead(S, a)) < Cardinality(Ahead(S, b))
    BY <1>5, <2>1, AheadGrows
  <2>3. left(a) <= left(b)
    BY <1>3, <1>4
  <2>. QED  BY <1>1, <2>2, <2>3
<1>6. \A b \in S : b = a \/ Newer(b, a)
  BY <1>5, NewerIsAnOrder DEF Ordered
<1>. QED  BY <1>6

\* The newest of a set come before the rest of it.
LEMMA NewestComeFirst ==
    ASSUME NEW S, Ordered(S), NEW n \in Nat,
           NEW a \in S, a \notin Newest(S, n), NEW b \in Newest(S, n)
    PROVE  Newer(b, a)
<1>1. a \in Row /\ b \in Row /\ b \in S /\ a.id # b.id
  BY DEF Ordered, Newest
<1>2. Cardinality(Ahead(S, b)) < n /\ ~(Cardinality(Ahead(S, a)) < n)
  BY DEF Newest, Ahead
<1>3. CASE Newer(a, b)
  <2>1. /\ Cardinality(Ahead(S, a)) \in Nat /\ Cardinality(Ahead(S, b)) \in Nat
        /\ Cardinality(Ahead(S, a)) < Cardinality(Ahead(S, b))
    BY <1>1, <1>3, AheadGrows
  <2>. QED  BY <1>2, <2>1
<1>. QED  BY <1>1, <1>3, NewerIsAnOrder

\* If any of a set is left out, there are n newest ones.
LEMMA NewestIsFull ==
    ASSUME NEW S, Ordered(S), NEW n \in Nat,
           NEW a \in S, a \notin Newest(S, n)
    PROVE  Cardinality(Newest(S, n)) \in Nat /\ Cardinality(Newest(S, n)) >= n
<1> DEFINE T == Newest(S, n)
           Rest == S \ T
<1>1. T \in SUBSET S /\ Rest \in SUBSET S /\ Rest # {}
  BY DEF Newest
<1>2. Ordered(T) /\ Ordered(Rest) /\ Cardinality(T) \in Nat
  BY <1>1, OrderedSubset
<1>3. PICK x \in Rest : \A b \in Rest : ~Newer(b, x)
  BY <1>1, <1>2, NewestExists
<1>4. Ahead(S, x) \in SUBSET T
  BY <1>3 DEF Ahead
<1>5. Cardinality(Ahead(S, x)) \in Nat /\ Cardinality(Ahead(S, x)) <= Cardinality(T)
  BY <1>2, <1>4, OrderedSubset
<1>6. ~(Cardinality(Ahead(S, x)) < n)
  BY <1>3 DEF Newest, Ahead
<1>. QED  BY <1>2, <1>5, <1>6

\* The same of newest_alerts, which takes the newest of each team's newest:
\* what it leaves out is older than all it gives, and then it gives n.
LEMMA NewestAlertsAreNewest ==
    ASSUME Ordered(alerts), NEW n \in Nat, NEW a \in alerts, a.team \in Sees,
           \A c \in cursor : PastCursor(a, c),
           a \notin NewestAlerts(n)
    PROVE  /\ Cardinality(NewestAlerts(n)) \in Nat
           /\ Cardinality(NewestAlerts(n)) >= n
           /\ \A b \in NewestAlerts(n) : Newer(b, a)
<1> DEFINE past == {x \in alerts : \A c \in cursor : PastCursor(x, c)}
           of(t) == {x \in past : x.team = t}
           U == UNION {Newest(of(t), n) : t \in Sees}
<1>1. NewestAlerts(n) = Newest(U, n)
  BY DEF NewestAlerts
<1>2. \A t : of(t) \in SUBSET alerts
  OBVIOUS
<1>3. U \in SUBSET alerts
  BY DEF Newest
<1>4. Ordered(U) /\ \A t : Ordered(of(t))
  <2> HIDE DEF U, of
  <2>. QED  BY <1>2, <1>3, OrderedSubset
<1>5. a \in of(a.team) /\ Newest(of(a.team), n) \in SUBSET U
  OBVIOUS
<1> HIDE DEF U, of, past
<1>6. CASE a \in U
  BY <1>1, <1>4, <1>6, NewestComeFirst, NewestIsFull
<1>7. CASE a \notin U
  <2> DEFINE T == Newest(of(a.team), n)
  <2>1. a \notin T
    BY <1>5, <1>7
  <2>2. /\ Cardinality(T) \in Nat /\ Cardinality(T) >= n
        /\ \A b \in T : Newer(b, a)
    BY <1>4, <1>5, <2>1, NewestComeFirst, NewestIsFull
  <2> HIDE DEF T
  <2>3. ASSUME NEW b \in Newest(U, n)
        PROVE  Newer(b, a)
    <3>1. b \in U /\ b \in alerts /\ a \in Row /\ b \in Row /\ a.id # b.id
      BY <1>3, <1>7 DEF Newest, Ordered
    <3>2. CASE Newer(a, b)
      <4>1. T \in SUBSET Row /\ T \in SUBSET U
        BY <1>4, <1>5 DEF T, Ordered
      <4>2. T \in SUBSET Ahead(U, b)
        BY <2>2, <3>1, <3>2, <4>1, NewerIsAnOrder DEF Ahead
      <4>3. Ordered(Ahead(U, b)) /\ Cardinality(Ahead(U, b)) \in Nat
        BY <1>4, OrderedSubset DEF Ahead
      <4>4. Cardinality(T) <= Cardinality(Ahead(U, b))
        BY <4>2, <4>3, OrderedSubset
      <4>5. Cardinality(Ahead(U, b)) < n
        BY DEF Newest, Ahead
      <4>. QED  BY <2>2, <4>3, <4>4, <4>5
    <3>. QED  BY <3>1, <3>2, NewerIsAnOrder
  <2>4. Cardinality(Newest(U, n)) \in Nat /\ Cardinality(Newest(U, n)) >= n
    <3>1. CASE T \subseteq Newest(U, n)
      <4>1. Ordered(Newest(U, n)) /\ Cardinality(Newest(U, n)) \in Nat
        BY <1>4, OrderedSubset DEF Newest
      <4>2. Cardinality(T) <= Cardinality(Newest(U, n))
        BY <3>1, <4>1, OrderedSubset
      <4>. QED  BY <2>2, <4>1, <4>2
    <3>2. CASE ~(T \subseteq Newest(U, n))
      <4>1. PICK x \in T : x \notin Newest(U, n)
        BY <3>2
      <4>2. x \in U
        BY <1>5, <4>1 DEF T
      <4>. QED  BY <1>4, <4>1, <4>2, NewestIsFull
    <3>. QED  BY <3>1, <3>2
  <2>. QED  BY <1>1, <2>3, <2>4
<1>. QED  BY <1>6, <1>7
Listed == UNION {listed[i] : i \in DOMAIN listed}

\* What every page leaves behind: the cursor is the last row given so far, and
\* a row that is owed has been given or is past the cursor.
NewerFirst ==
    \A i, j \in DOMAIN listed : i < j =>
        \A a \in listed[i], b \in listed[j] : Newer(a, b)

CursorIsTheLast ==
    IF listed = <<>> THEN cursor = {} /\ complete = FALSE
    ELSE complete = FALSE => \E c \in Row :
            /\ cursor = {c}
            /\ \A a \in Listed : a = c \/ Newer(a, c)

OwedIsAhead ==
    listed # <<>> => \A a \in owed \cap alerts :
        /\ a.team \in Sees
        /\ a \in Listed \/ (complete = FALSE /\ \A c \in cursor : Newer(c, a))

OwedIsRecorded == \A a \in owed : \E e \in audit : IsRecordOf(e, a)

WalkInv ==
    NewerFirst /\ CursorIsTheLast /\ OwedIsAhead /\ OwedIsRecorded

\* Between two pages: rows go, others come, and none of those that went comes
\* back.
LEMMA WalkStays ==
    ASSUME WalkInv, UNCHANGED walk, audit \subseteq audit',
           owed \cap alerts' \subseteq alerts
    PROVE  WalkInv'
<1>1. listed' = listed /\ cursor' = cursor /\ owed' = owed
      /\ complete' = complete /\ Listed' = Listed
  BY DEF walk, Listed
<1>2. NewerFirst'
  BY <1>1 DEF WalkInv, NewerFirst
<1>3. CursorIsTheLast'
  BY <1>1 DEF WalkInv, CursorIsTheLast
<1>4. OwedIsAhead'
  BY <1>1 DEF WalkInv, OwedIsAhead
<1>5. OwedIsRecorded'
  BY <1>1 DEF WalkInv, OwedIsRecorded, IsRecordOf
<1>. QED  BY <1>2, <1>3, <1>4, <1>5 DEF WalkInv

LEMMA CommitKeepsTheWalk ==
    ASSUME IInv, WalkInv, NEW r \in Requests, Commit(r)
    PROVE  WalkInv'
<1>1. job[r].rows \in Seq(Row) /\ Inserting(r)
  BY DEF Commit, Inserting, IInv, TypeOK, Job
<1>2. Range(job[r].rows) = {job[r].rows[i] : i \in DOMAIN job[r].rows}
  BY <1>1, FiniteRange, LenProperties
<1>3. ASSUME NEW a \in owed, a \in Range(job[r].rows)
      PROVE  FALSE
  <2>1. PICK i \in DOMAIN job[r].rows : a = job[r].rows[i]
    BY <1>2, <1>3
  <2>2. PICK e \in audit : IsRecordOf(e, a)
    BY DEF WalkInv, OwedIsRecorded
  <2>3. a \in Row
    BY DEF IInv, TypeOK
  <2>4. a.id # job[r].rows[i].id
    BY <1>1, <2>2, <2>3 DEF IInv, RowsAreNew
  <2>. QED  BY <2>1, <2>4
<1>4. owed \cap alerts' \subseteq alerts
  BY <1>3 DEF Commit
<1>. QED  BY <1>4, WalkStays DEF Commit

LEMMA ListPageKeepsTheWalk ==
    ASSUME IInv, WalkInv, ListPage
    PROVE  WalkInv'
<1> DEFINE rows == NewestAlerts(PageSize + 1)
           page == Newest(rows, PageSize)
           n == Len(listed)
<1>1. Ordered(alerts)
  BY DEF IInv, TypeOK, Ordered
<1>2. PageSize \in Nat \ {0} /\ PageSize + 1 \in Nat
  BY BoundsType
<1>3. rows \in SUBSET alerts /\ \A a \in rows, c \in cursor : Newer(c, a)
  BY DEF NewestAlerts, Newest, PastCursor
<1>3a. \A a \in rows : a.team \in Sees
  BY DEF NewestAlerts, Newest
<1>4. ASSUME NEW a \in alerts, a.team \in Sees,
             \A c \in cursor : PastCursor(a, c), a \notin rows
      PROVE  /\ Cardinality(rows) \in Nat /\ Cardinality(rows) >= PageSize + 1
             /\ \A b \in rows : Newer(b, a)
  BY <1>1, <1>2, <1>4, NewestAlertsAreNewest
<1>5. page \in SUBSET rows
  BY NewestIsASubset
<1>6. /\ complete = FALSE
      /\ listed' = Append(listed, page)
      /\ cursor' = {a \in page : \A b \in page : ~Newer(a, b)}
      /\ complete' = (rows = page)
      /\ owed' = IF listed = <<>> THEN {a \in alerts : a.team \in Sees}
                                  ELSE owed
      /\ alerts' = alerts /\ audit' = audit
  BY DEF ListPage, IInv, TypeOK
<1> HIDE DEF rows
<1>7. Ordered(rows) /\ Ordered(page) /\ Cardinality(page) \in Nat
      /\ Cardinality(rows) \in Nat
  <2>1. Ordered(rows) /\ Cardinality(rows) \in Nat
    BY <1>1, <1>3, OrderedSubset
  <2> HIDE DEF page
  <2>. QED  BY <2>1, <1>5, OrderedSubset
\* A page that leaves rows out is not empty.
<1>8. ASSUME rows # page
      PROVE  page # {}
  <2>1. rows # {}
    BY <1>5, <1>8
  <2>2. PICK a \in rows : \A b \in rows : ~Newer(b, a)
    BY <1>7, <2>1, NewestExists
  <2>3. {b \in rows : Newer(b, a)} = {}
    BY <2>2
  <2>4. Cardinality({b \in rows : Newer(b, a)}) = 0
    BY <2>3, FS_EmptySet
  <2>5. a \in page
    BY <1>2, <2>4 DEF Newest
  <2>. QED  BY <2>5
\* What the query leaves out is not on the last page.
<1>9. ASSUME Cardinality(rows) >= PageSize + 1
      PROVE  rows # page
  <2> SUFFICES ASSUME rows = page PROVE FALSE
    OBVIOUS
  <2>1. rows # {}
    BY <1>2, <1>9, FS_EmptySet
  <2>2. PICK a \in rows : \A b \in rows : b = a \/ Newer(b, a)
    BY <1>7, <2>1, OldestExists
  <2>3. IsFiniteSet(rows) /\ Ahead(rows, a) = rows \ {a}
    <3>1. ~Newer(a, a)
      BY <1>7, NewerIsAnOrder DEF Ordered
    <3>. QED  BY <1>7, <2>2, <3>1 DEF Ordered, Ahead
  <2>4. Cardinality(Ahead(rows, a)) = Cardinality(rows) - 1
    BY <2>3, FS_RemoveElement
  <2>5. Cardinality(Ahead(rows, a)) < PageSize
    BY DEF Newest, Ahead
  <2>. QED  BY <1>2, <1>7, <1>9, <2>4, <2>5
<1>10. ASSUME NEW a \in alerts, a.team \in Sees,
              \A c \in cursor : PastCursor(a, c), a \notin page
       PROVE  rows # page /\ \A b \in page : Newer(b, a)
  <2>1. CASE a \in rows
    <3>1. rows # page
      BY <1>10, <2>1
    <3>. QED  BY <1>2, <1>7, <1>10, <2>1, <3>1, NewestComeFirst
  <2>2. CASE a \notin rows
    <3>1. Cardinality(rows) >= PageSize + 1 /\ \A b \in rows : Newer(b, a)
      BY <1>4, <1>10, <2>2
    <3> HIDE DEF page
    <3>. QED  BY <1>5, <1>9, <3>1
  <2>. QED  BY <2>1, <2>2
<1> HIDE DEF page
<1>11. /\ n \in Nat /\ DOMAIN listed = 1..n /\ DOMAIN listed' = 1..(n + 1)
       /\ listed'[n + 1] = page /\ \A i \in 1..n : listed'[i] = listed[i]
       /\ listed' # <<>>
       /\ \A i \in 1..n : listed[i] \subseteq Row
  <2>1. page \in SUBSET Row /\ listed \in Seq(SUBSET Row)
    BY <1>7 DEF Ordered, IInv, TypeOK
  <2>. QED  BY <1>6, <2>1, AppendProperties, LenProperties
<1> HIDE DEF n
<1>12. Listed' = Listed \cup page
  <2>1. \A i \in 1..(n + 1) : i \in 1..n \/ i = n + 1
    BY <1>11
  <2>2. \A i \in 1..n : i \in 1..(n + 1)
    BY <1>11
  <2>3. n + 1 \in 1..(n + 1)
    BY <1>11
  <2>4. Listed' = UNION {listed'[i] : i \in 1..(n + 1)}
        /\ Listed = UNION {listed[i] : i \in 1..n}
    BY <1>11 DEF Listed
  <2>. QED  BY <1>11, <2>1, <2>2, <2>3, <2>4
<1>13. Listed \subseteq Row /\ page \subseteq Row
  BY <1>7, <1>11 DEF Listed, Ordered
\* Every row of the page is older than every row before it.
<1>14. \A a \in Listed, b \in page : Newer(a, b)
  <2> SUFFICES ASSUME NEW a \in Listed, NEW b \in page PROVE Newer(a, b)
    OBVIOUS
  <2>1. listed # <<>>
    BY DEF Listed
  <2>2. PICK c \in Row : /\ cursor = {c}
                         /\ \A x \in Listed : x = c \/ Newer(x, c)
    BY <1>6, <2>1 DEF WalkInv, CursorIsTheLast
  <2>3. Newer(c, b)
    BY <1>3, <1>5, <2>2
  <2>. QED  BY <1>13, <2>2, <2>3, NewerIsAnOrder
<1>15. NewerFirst'
  <2> SUFFICES ASSUME NEW i \in DOMAIN listed', NEW j \in DOMAIN listed', i < j,
                      NEW a \in listed'[i], NEW b \in listed'[j]
               PROVE  Newer(a, b)
    BY DEF NewerFirst, Newer
  <2>1. i \in 1..n
    BY <1>11
  <2>2. CASE j = n + 1
    BY <1>11, <1>14, <2>1, <2>2 DEF Listed
  <2>3. CASE j # n + 1
    <3>1. j \in 1..n
      BY <1>11, <2>3
    <3>. QED  BY <1>11, <2>1, <3>1 DEF WalkInv, NewerFirst
  <2>. QED  BY <2>2, <2>3
\* The cursor, if there is one, is the last row of the page.
<1>16. ASSUME rows # page
       PROVE  \E c \in page : cursor' = {c}
                              /\ \A a \in page : a = c \/ Newer(a, c)
  <2>1. PICK c \in page : \A a \in page : a = c \/ Newer(a, c)
    BY <1>7, <1>8, <1>16, OldestExists
  <2>2. \A a \in page : (\A b \in page : ~Newer(a, b)) <=> a = c
    BY <1>13, <2>1, NewerIsAnOrder
  <2>. QED  BY <1>6, <2>1, <2>2
<1>17. CursorIsTheLast'
  <2>1. ASSUME rows # page
        PROVE  \E c \in Row : cursor' = {c}
                              /\ \A a \in Listed' : a = c \/ Newer(a, c)
    BY <1>12, <1>13, <1>14, <1>16, <2>1
  <2>. QED  BY <1>6, <1>11, <2>1 DEF CursorIsTheLast, Newer
<1>18. OwedIsAhead'
  <2> SUFFICES ASSUME NEW a \in owed' \cap alerts'
               PROVE  /\ a.team \in Sees
                      /\ \/ a \in Listed'
                         \/ complete' = FALSE /\ \A c \in cursor' : Newer(c, a)
    BY DEF OwedIsAhead, Newer
  <2>1. /\ a \in alerts /\ a.team \in Sees
        /\ a \in Listed \/ \A c \in cursor : PastCursor(a, c)
    BY <1>6 DEF WalkInv, OwedIsAhead, CursorIsTheLast, PastCursor
  <2>2. CASE a \notin Listed'
    <3>1. rows # page /\ \A b \in page : Newer(b, a)
      BY <1>10, <1>12, <2>1, <2>2
    <3>2. complete' = FALSE /\ cursor' \subseteq page
      BY <1>6, <3>1
    <3>. QED  BY <2>1, <3>1, <3>2
  <2>. QED  BY <2>1, <2>2
<1>19. OwedIsRecorded'
  <2>1. \A a \in owed' : \E e \in audit : IsRecordOf(e, a)
    BY <1>6 DEF WalkInv, OwedIsRecorded, IInv, StoredIsRecorded
  <2>. QED  BY <1>6, <2>1 DEF OwedIsRecorded, IsRecordOf
<1>. QED  BY <1>15, <1>17, <1>18, <1>19 DEF WalkInv

LEMMA WalkInductive == Spec => []WalkInv
<1>1. Init => WalkInv
  <2> SUFFICES ASSUME Init PROVE WalkInv
    OBVIOUS
  <2>1. NewerFirst
    BY DEF Init, NewerFirst
  <2>. QED
    BY <2>1 DEF Init, WalkInv, CursorIsTheLast, OwedIsAhead, OwedIsRecorded
<1>2. IInv /\ WalkInv /\ [Next]_vars => WalkInv'
  <2> SUFFICES ASSUME IInv, WalkInv, [Next]_vars PROVE WalkInv'
    OBVIOUS
  <2>1. ASSUME NEW r \in Requests,
               \/ Receive(r) \/ Create(r) \/ Insert(r) \/ Fail(r)
               \/ ReadToDelete(r) \/ Delete(r)
        PROVE  WalkInv'
    <3>1. UNCHANGED walk /\ audit \subseteq audit' /\ alerts' \subseteq alerts
      BY <2>1 DEF Receive, Create, Insert, Fail, ReadToDelete, Delete
    <3>. QED  BY <3>1, WalkStays
  <2>2. ASSUME NEW r \in Requests, Commit(r)
        PROVE  WalkInv'
    BY <2>2, CommitKeepsTheWalk
  <2>3. CASE Retain
    BY <2>3, WalkStays DEF Retain
  <2>4. CASE ListPage
    BY <2>4, ListPageKeepsTheWalk
  <2>5. CASE NewTeam \/ Tick \/ UNCHANGED vars
    <3>1. UNCHANGED walk /\ audit' = audit /\ alerts' = alerts
      BY <2>5 DEF NewTeam, Tick, vars, walk
    <3>. QED  BY <3>1, WalkStays
  <2>. QED  BY <2>1, <2>2, <2>3, <2>4, <2>5 DEF Next
<1>. QED  BY <1>1, <1>2, Inductive, PTL DEF Spec

\* Page after page the list goes from newer to older and gives no alert twice,
\* and a walk to its end has given every alert that was there when it began
\* and still is, while others are stored and deleted (app/queries.py).
THEOREM WalksAreComplete == Spec => []WalkIsComplete
<1>1. ASSUME IInv, WalkInv
      PROVE  WalkIsComplete
  <2>1. complete => listed # <<>>
    BY <1>1 DEF WalkInv, CursorIsTheLast
  <2>2. Listed = UNION Range(listed)
    BY DEF Listed, Range
  <2>3. complete => owed \cap alerts \subseteq Listed
    BY <1>1, <2>1 DEF WalkInv, OwedIsAhead
  <2>. QED  BY <1>1, <2>2, <2>3 DEF WalkInv, NewerFirst, WalkIsComplete
<1>2. IInv /\ WalkInv => WalkIsComplete
  BY <1>1
<1>. QED  BY <1>2, Inductive, WalkInductive, PTL
=============================================================================
