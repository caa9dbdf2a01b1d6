--------------------------- MODULE RunbooksProofs ---------------------------
(***************************************************************************)
(* Proofs about Runbooks, for every set of titles, texts, keys, requests   *)
(* and chats, and every bound.                                             *)
(*                                                                         *)
(* The inductive invariant says why the order of save_runbook's statements *)
(* matters.  The upsert comes first and takes the title's lock, so at most *)
(* one open transaction writes a title (LockIsExclusive), the row it will  *)
(* commit keeps the identity of the committed one (HeldRowKeepsItsId), and *)
(* the sections its DELETE found are still all of the runbook's sections   *)
(* when it commits (ClearedIsCurrent).                                     *)
(***************************************************************************)
EXTENDS Runbooks, TLAPS

Open(w) == job[w].stage \in InTransaction

IdsAreUnique == \A r, s \in runbooks : r.id = s.id => r = s

IdsAreIssued ==
    \A w \in Writers : Open(w) => job[w].id \in 1..(nextId - 1)

LockIsExclusive ==
    \A v, w \in Writers :
        Open(v) /\ Open(w) /\ v # w =>
            job[v].title # job[w].title /\ job[v].id # job[w].id

HeldRowKeepsItsId ==
    \A w \in Writers : Open(w) =>
        \A r \in runbooks : r.title = job[w].title <=> r.id = job[w].id

ClearedIsCurrent ==
    \A w \in Writers : job[w].stage = "cleared" =>
        job[w].cleared = {c \in chunks : c.runbook = job[w].id}

RowsAreRecorded ==
    \A r \in runbooks : \E s \in audit : IsSaveOf(s, r.id, r.body)

EventsAreNumbered ==
    /\ \A e \in audit : e.n < nextEvent
    /\ \A w \in Writers :
          job[w].stage \in {"recorded", "cleared"} => job[w].n < nextEvent

IInv ==
    /\ TypeOK
    /\ IdsAreUnique /\ IdsAreIssued
    /\ LockIsExclusive /\ HeldRowKeepsItsId
    /\ ClearedIsCurrent /\ SectionsAreTheTexts
    /\ RowsAreRecorded /\ EventsAreNumbered
    /\ GivenTextIsTheHash /\ GivenHashLeadsToSave

\* No committed event of a held row is as late as the one its open
\* transaction has numbered: the row's lock keeps deletions and other saves
\* of it out from the upsert to the commit.
HeldRowsEventIsLast ==
    \A w \in Writers : job[w].stage \in {"recorded", "cleared"} =>
        \A e \in audit : job[w].id \in e.target => e.n < job[w].n

\* The title a deletion has read stays the title of the id it will delete:
\* an id is issued once, and no save moves it to another title.
DeletesItsTitle ==
    \A w \in Writers : job[w].stage = "deleting" =>
        /\ job[w].id < nextId
        /\ \A r \in runbooks : r.id = job[w].id => r.title = job[w].title
        /\ \A v \in Writers :
              Open(v) /\ job[v].id = job[w].id => job[v].title = job[w].title

\* What the trail needs besides IInv.
TrailInv == HeldRowsEventIsLast /\ DeletesItsTitle /\ TrailEndsAtTheText

-----------------------------------------------------------------------------
(* Facts about the operators.                                              *)

\* An idle job is a job.
LEMMA BlankIsAJob == Blank \in Job /\ Blank.stage = "idle"
  BY NonEmpty DEF Blank, Job, Stage, InTransaction

\* What replacing one job does to the others: nothing.
LEMMA JobUpdate ==
    ASSUME job \in [Writers -> Job], NEW w \in Writers, NEW j \in Job,
           job' = [job EXCEPT ![w] = j]
    PROVE  /\ job' \in [Writers -> Job]
           /\ job'[w] = j
           /\ \A v \in Writers : v # w => job'[v] = job[v]
  OBVIOUS

\* The sections made for a runbook belong to it, carry its text and its key.
LEMMA SectionsOfType ==
    ASSUME NEW id \in Nat, NEW b \in Bodies, NEW k \in Keys
    PROVE  /\ SectionsOf(id, b, k) \subseteq Chunk
           /\ \A c \in SectionsOf(id, b, k) : c.runbook = id /\ c.of = b
  BY SectionsType DEF SectionsOf, Chunk

\* A committed section is cut from the text of the runbook it names.
LEMMA SectionsNameTheirText ==
    ASSUME TypeOK, IdsAreUnique, SectionsAreTheTexts
    PROVE  \A c \in chunks : \A r \in runbooks :
               r.id = c.runbook => c.of = r.body
<1> SUFFICES ASSUME NEW c \in chunks, NEW r \in runbooks, r.id = c.runbook
             PROVE  c.of = r.body
  OBVIOUS
<1>1. PICK q \in runbooks : c \in SectionsOf(q.id, q.body, q.key)
  BY DEF SectionsAreTheTexts
<1>2. q.id \in Nat /\ q.body \in Bodies /\ q.key \in Keys
  BY DEF TypeOK, Row
<1>3. c.runbook = q.id /\ c.of = q.body
  BY <1>1, <1>2, SectionsOfType
<1>. QED  BY <1>3 DEF IdsAreUnique

-----------------------------------------------------------------------------
(* Each action preserves the invariant.                                    *)

LEMMA InitIInv == Init => IInv
<1> SUFFICES ASSUME Init PROVE IInv
  OBVIOUS
<1>1. TypeOK
  BY BlankIsAJob, BoundsType DEF Init, TypeOK, Hit
<1>2. \A w \in Writers : job[w].stage = "idle"
  BY BlankIsAJob DEF Init
<1>3. IdsAreUnique /\ RowsAreRecorded /\ SectionsAreTheTexts
  BY DEF Init, IdsAreUnique, RowsAreRecorded, SectionsAreTheTexts
<1>4. IdsAreIssued /\ LockIsExclusive /\ HeldRowKeepsItsId
      /\ ClearedIsCurrent
  BY <1>2 DEF IdsAreIssued, LockIsExclusive, HeldRowKeepsItsId,
              ClearedIsCurrent, Open, InTransaction
<1>5. EventsAreNumbered
  BY <1>2 DEF Init, EventsAreNumbered
<1>6. GivenTextIsTheHash /\ GivenHashLeadsToSave
  BY DEF Init, GivenTextIsTheHash, GivenHashLeadsToSave
<1>. QED  BY <1>1, <1>3, <1>4, <1>5, <1>6 DEF IInv

\* A step that gives one job a stage outside any transaction, and leaves the
\* tables and the sequences alone, disturbs nothing but that job.
LEMMA JobStepIInv ==
    ASSUME IInv, NEW w \in Writers, NEW j \in Job,
           j.stage \notin InTransaction,
           job' = [job EXCEPT ![w] = j],
           todo' \subseteq Stale, started' \in Nat,
           UNCHANGED <<runbooks, chunks, audit, keptFrom, hits,
                       nextId, nextEvent>>
    PROVE  IInv'
<1> USE DEF IInv
<1>1. TypeOK'
  BY DEF TypeOK
<1>2. /\ job'[w] = j
      /\ \A v \in Writers : v # w => job'[v] = job[v]
  BY DEF TypeOK
<1>3. IdsAreUnique' /\ SectionsAreTheTexts' /\ RowsAreRecorded'
      /\ GivenTextIsTheHash' /\ GivenHashLeadsToSave'
  BY DEF IdsAreUnique, SectionsAreTheTexts, RowsAreRecorded, SectionsOf,
         GivenTextIsTheHash, GivenHashLeadsToSave, IsSaveOf
<1>4. IdsAreIssued' /\ LockIsExclusive' /\ HeldRowKeepsItsId'
  BY <1>2 DEF IdsAreIssued, LockIsExclusive, HeldRowKeepsItsId, Open
<1>5. ClearedIsCurrent' /\ EventsAreNumbered'
  BY <1>2 DEF ClearedIsCurrent, EventsAreNumbered, InTransaction
<1>. QED  BY <1>1, <1>3, <1>4, <1>5

LEMMA ReadThenEmbedIInv ==
    ASSUME IInv, NEW w \in Writers, NEW t \in Titles, NEW b \in Bodies,
           NEW u \in Links, NEW k \in Keys, ReadThenEmbed(w, t, b, u, k),
           todo' \subseteq Stale, started' \in Nat,
           UNCHANGED <<runbooks, chunks, audit, keptFrom, hits,
                       nextId, nextEvent>>
    PROVE  IInv'
<1> DEFINE j == [Blank EXCEPT !.stage = "embedding", !.title = t,
                              !.body = b, !.link = u, !.key = k,
                              !.previous = {r.body : r \in Existing(t)}]
<1>1. {r.body : r \in Existing(t)} \subseteq Bodies
  BY DEF IInv, TypeOK, Row, Existing
<1>2. j \in Job /\ j.stage = "embedding"
  BY <1>1, BlankIsAJob DEF Job, Stage
<1>3. job' = [job EXCEPT ![w] = j]
  BY DEF ReadThenEmbed
<1>. QED  BY <1>2, <1>3, JobStepIInv DEF InTransaction

LEMMA SaveIInv ==
    ASSUME IInv, NEW w \in Writers, Save(w)
    PROVE  IInv'
  BY ReadThenEmbedIInv DEF Save, Begin, IInv, TypeOK

LEMMA ReadToDeleteIInv ==
    ASSUME IInv, NEW w \in Writers, ReadToDelete(w)
    PROVE  IInv'
<1>1. PICK r \in runbooks :
         job' = [job EXCEPT ![w] =
            [Blank EXCEPT !.stage = "deleting", !.title = r.title,
                          !.id = r.id, !.body = r.body]]
  BY DEF ReadToDelete
<1> DEFINE j == [Blank EXCEPT !.stage = "deleting", !.title = r.title,
                              !.id = r.id, !.body = r.body]
<1>2. r \in Row
  BY DEF IInv, TypeOK
<1>3. j \in Job /\ j.stage = "deleting"
  BY <1>2, BlankIsAJob DEF Job, Stage, Row
<1>4. todo' \subseteq Stale /\ started' \in Nat
  BY DEF ReadToDelete, Begin, IInv, TypeOK
<1>. QED  BY <1>1, <1>3, <1>4, JobStepIInv DEF ReadToDelete, InTransaction

LEMMA FailIInv ==
    ASSUME IInv, NEW w \in Writers, Fail(w)
    PROVE  IInv'
<1>1. todo' \subseteq Stale /\ started' \in Nat
  BY DEF Fail, IInv, TypeOK
<1>. QED  BY <1>1, BlankIsAJob, JobStepIInv DEF Fail, InTransaction

LEMMA ListStaleIInv ==
    ASSUME IInv, ListStale
    PROVE  IInv'
<1>1. PICK k \in Keys :
         /\ todo' = {[title |-> r.title, body |-> r.body, link |-> r.link] :
                        r \in {q \in runbooks : q.key # k}}
         /\ job' = [job EXCEPT ![Operator] =
                       [Blank EXCEPT !.stage = "loop", !.key = k]]
  BY DEF ListStale
<1> DEFINE j == [Blank EXCEPT !.stage = "loop", !.key = k]
<1>2. j \in Job /\ j.stage = "loop"
  BY BlankIsAJob DEF Job, Stage
<1>3. todo' \subseteq Stale /\ started' \in Nat
  BY <1>1 DEF ListStale, Begin, IInv, TypeOK, Stale, Row
<1>. QED
  BY <1>1, <1>2, <1>3, JobStepIInv DEF ListStale, InTransaction, Writers

LEMMA ReembedNextIInv ==
    ASSUME IInv, ReembedNext
    PROVE  IInv'
<1>1. PICK s \in todo :
         /\ todo' = todo \ {s}
         /\ \/ /\ todo' = {}
               /\ job' = [job EXCEPT ![Operator] = Blank]
            \/ job' = job
            \/ ReadThenEmbed(Operator, s.title, s.body, s.link,
                             job[Operator].key)
  BY DEF ReembedNext
<1>2. todo' \subseteq Stale /\ started' \in Nat /\ s \in Stale
      /\ job[Operator] \in Job
  BY <1>1 DEF ReembedNext, IInv, TypeOK, Writers
<1>3. CASE job' = [job EXCEPT ![Operator] = Blank]
  BY <1>2, <1>3, BlankIsAJob, JobStepIInv
     DEF ReembedNext, InTransaction, Writers
<1>4. CASE job' = job
  <2>1. job' = [job EXCEPT ![Operator] = job[Operator]]
    BY <1>4 DEF IInv, TypeOK
  <2>. QED
    BY <1>2, <2>1, JobStepIInv DEF ReembedNext, InTransaction, Writers
<1>5. CASE ReadThenEmbed(Operator, s.title, s.body, s.link,
                         job[Operator].key)
  <2>1. s.title \in Titles /\ s.body \in Bodies /\ s.link \in Links
        /\ job[Operator].key \in Keys
    BY <1>2 DEF Stale, Job
  <2>. QED
    BY <1>2, <1>5, <2>1, ReadThenEmbedIInv DEF ReembedNext, Writers
<1>. QED  BY <1>1, <1>3, <1>4, <1>5

\* Upsert is the step that takes the lock: the guard ~Locked keeps titles
\* apart, and the id is either the committed row's or one never issued.
LEMMA UpsertIInv ==
    ASSUME IInv, NEW w \in Writers, Upsert(w)
    PROVE  IInv'
<1> USE DEF IInv
<1> DEFINE t == job[w].title
<1>1. PICK id \in 1..(nextId' - 1) :
         /\ job' = [job EXCEPT ![w] =
                       [@ EXCEPT !.stage = "upserted", !.id = id]]
         /\ \A r \in runbooks : r.title = t <=> r.id = id
         /\ id = nextId \/ \E r \in runbooks : r.id = id /\ r.title = t
  <2>1. CASE Existing(t) = {}
    <3>1. /\ job' = [job EXCEPT ![w] =
                       [@ EXCEPT !.stage = "upserted", !.id = nextId]]
          /\ nextId' = nextId + 1
      BY <2>1 DEF Upsert
    <3>2. \A r \in runbooks : r.title # t
      BY <2>1 DEF Existing
    <3>3. nextId \in Nat \ {0} /\ \A r \in runbooks : r.id # nextId
      BY DEF TypeOK
    <3>4. nextId \in 1..(nextId' - 1)
      BY <3>1, <3>3
    <3>. QED  BY <3>1, <3>2, <3>3, <3>4
  <2>2. CASE Existing(t) # {}
    <3>1. PICK r \in Existing(t) :
             job' = [job EXCEPT ![w] =
                        [@ EXCEPT !.stage = "upserted", !.id = r.id]]
      BY <2>2 DEF Upsert
    <3>2. r \in runbooks /\ r.title = t /\ nextId' = nextId
      BY <2>2 DEF Upsert, Existing
    <3>3. \A q \in runbooks : q.title = t <=> q.id = r.id
      BY <3>2 DEF TypeOK, IdsAreUnique
    <3>4. r.id \in 1..(nextId' - 1)
      BY <3>2 DEF TypeOK
    <3>. QED  BY <3>1, <3>2, <3>3, <3>4
  <2>. QED  BY <2>1, <2>2
<1>2. nextId' \in Nat \ {0} /\ nextId <= nextId' /\ id \in Nat
  <2>1. nextId' = nextId \/ nextId' = nextId + 1
    BY DEF Upsert
  <2>. QED  BY <1>1, <2>1 DEF TypeOK
<1>3. /\ job' \in [Writers -> Job]
      /\ job'[w].stage = "upserted" /\ job'[w].id = id
      /\ job'[w].title = t
      /\ \A v \in Writers : v # w => job'[v] = job[v]
  <2> DEFINE j == [job[w] EXCEPT !.stage = "upserted", !.id = id]
  <2>1. job[w] \in Job
    BY DEF TypeOK
  <2>2. /\ j \in Job /\ j.stage = "upserted" /\ j.id = id
        /\ j.title = t
    BY <1>2, <2>1 DEF Job, Stage, InTransaction
  <2>. QED  BY <1>1, <2>2, JobUpdate DEF TypeOK
<1>4. UNCHANGED <<runbooks, chunks, audit, keptFrom, todo, hits,
                  nextEvent, started>>
  BY DEF Upsert
<1>5. TypeOK'
  BY <1>2, <1>3, <1>4 DEF TypeOK
<1>6. IdsAreIssued'
  BY <1>1, <1>2, <1>3 DEF IdsAreIssued, Open, TypeOK
<1>7. HeldRowKeepsItsId'
  BY <1>1, <1>3, <1>4 DEF HeldRowKeepsItsId, Open
<1>8. LockIsExclusive'
  <2>1. ASSUME NEW v \in Writers, v # w, Open(v)
        PROVE  job[v].title # t /\ job[v].id # id
    <3>1. job[v].title # t
      BY <2>1 DEF Upsert, Locked, Open
    <3>2. job[v].id < nextId
      BY <2>1 DEF IdsAreIssued, TypeOK
    <3>. QED  BY <1>1, <1>2, <2>1, <3>1, <3>2 DEF HeldRowKeepsItsId
  <2>. QED  BY <1>3, <2>1 DEF LockIsExclusive, Open
<1>9. IdsAreUnique' /\ SectionsAreTheTexts' /\ RowsAreRecorded'
      /\ GivenTextIsTheHash' /\ GivenHashLeadsToSave'
  BY <1>4 DEF IdsAreUnique, SectionsAreTheTexts, RowsAreRecorded,
              SectionsOf, GivenTextIsTheHash, GivenHashLeadsToSave, IsSaveOf
<1>10. ClearedIsCurrent' /\ EventsAreNumbered'
  BY <1>3, <1>4 DEF ClearedIsCurrent, EventsAreNumbered
<1>. QED  BY <1>5, <1>6, <1>7, <1>8, <1>9, <1>10

LEMMA RecordIInv ==
    ASSUME IInv, NEW w \in Writers, Record(w)
    PROVE  IInv'
<1> USE DEF IInv
<1>1. /\ job' \in [Writers -> Job]
      /\ job[w].stage = "upserted"
      /\ job'[w].stage = "recorded" /\ job'[w].n = nextEvent
      /\ job'[w].id = job[w].id /\ job'[w].title = job[w].title
      /\ \A v \in Writers : v # w => job'[v] = job[v]
  <2> DEFINE j == [job[w] EXCEPT !.stage = "recorded", !.n = nextEvent]
  <2>1. job[w] \in Job /\ nextEvent \in Nat
    BY DEF TypeOK
  <2>2. /\ j \in Job /\ j.stage = "recorded" /\ j.n = nextEvent
        /\ j.id = job[w].id /\ j.title = job[w].title
    BY <2>1 DEF Job, Stage, InTransaction
  <2>. QED  BY <2>2, JobUpdate DEF Record, TypeOK
<1>2. /\ nextEvent' = nextEvent + 1
      /\ UNCHANGED <<runbooks, chunks, audit, keptFrom, todo, hits,
                     nextId, started>>
  BY DEF Record
<1>3. TypeOK'
  BY <1>1, <1>2 DEF TypeOK
<1>4. IdsAreIssued' /\ LockIsExclusive' /\ HeldRowKeepsItsId'
  BY <1>1, <1>2 DEF IdsAreIssued, LockIsExclusive, HeldRowKeepsItsId, Open,
                    InTransaction
<1>5. IdsAreUnique' /\ SectionsAreTheTexts' /\ RowsAreRecorded'
      /\ GivenTextIsTheHash' /\ GivenHashLeadsToSave'
  BY <1>2 DEF IdsAreUnique, SectionsAreTheTexts, RowsAreRecorded,
              SectionsOf, GivenTextIsTheHash, GivenHashLeadsToSave, IsSaveOf
<1>6. ClearedIsCurrent'
  BY <1>1, <1>2 DEF ClearedIsCurrent
<1>7. EventsAreNumbered'
  <2>1. \A e \in audit : e.n \in Nat
    BY DEF TypeOK, Event
  <2>2. \A v \in Writers : job[v].n \in Nat
    BY DEF TypeOK, Job
  <2>. QED  BY <1>1, <1>2, <2>1, <2>2 DEF EventsAreNumbered, TypeOK
<1>. QED  BY <1>3, <1>4, <1>5, <1>6, <1>7

LEMMA ClearIInv ==
    ASSUME IInv, NEW w \in Writers, Clear(w)
    PROVE  IInv'
<1> USE DEF IInv
<1>1. /\ job' \in [Writers -> Job]
      /\ job[w].stage = "recorded"
      /\ job'[w].stage = "cleared" /\ job'[w].n = job[w].n
      /\ job'[w].cleared = {c \in chunks : c.runbook = job[w].id}
      /\ job'[w].id = job[w].id /\ job'[w].title = job[w].title
      /\ \A v \in Writers : v # w => job'[v] = job[v]
  <2> DEFINE j == [job[w] EXCEPT !.stage = "cleared",
                                 !.cleared = ClearedBy(w)]
  <2>1. job[w] \in Job /\ ClearedBy(w) \in SUBSET Chunk
    BY DEF TypeOK, ClearedBy
  <2>2. /\ j \in Job /\ j.stage = "cleared" /\ j.n = job[w].n
        /\ j.cleared = ClearedBy(w)
        /\ j.id = job[w].id /\ j.title = job[w].title
    BY <2>1 DEF Job, Stage, InTransaction
  <2>. QED  BY <2>2, JobUpdate DEF Clear, ClearedBy, TypeOK
<1>2. UNCHANGED <<runbooks, chunks, audit, keptFrom, todo, hits,
                  nextId, nextEvent, started>>
  BY DEF Clear
<1>3. TypeOK'
  BY <1>1, <1>2 DEF TypeOK
<1>4. IdsAreIssued' /\ LockIsExclusive' /\ HeldRowKeepsItsId'
  BY <1>1, <1>2 DEF IdsAreIssued, LockIsExclusive, HeldRowKeepsItsId, Open,
                    InTransaction
<1>5. IdsAreUnique' /\ SectionsAreTheTexts' /\ RowsAreRecorded'
      /\ GivenTextIsTheHash' /\ GivenHashLeadsToSave'
  BY <1>2 DEF IdsAreUnique, SectionsAreTheTexts, RowsAreRecorded,
              SectionsOf, GivenTextIsTheHash, GivenHashLeadsToSave, IsSaveOf
<1>6. ClearedIsCurrent' /\ EventsAreNumbered'
  BY <1>1, <1>2 DEF ClearedIsCurrent, EventsAreNumbered
<1>. QED  BY <1>3, <1>4, <1>5, <1>6

\* Commit makes the held row and its sections the committed ones.  The row's
\* old sections are exactly those cleared; no other open transaction holds
\* this title or this id, so what the others found stays true.
LEMMA CommitIInv ==
    ASSUME IInv, NEW w \in Writers, Commit(w)
    PROVE  IInv'
<1> USE DEF IInv
<1> DEFINE j == job[w]
           row == [title |-> j.title, id |-> j.id, body |-> j.body,
                   link |-> j.link, key |-> j.key]
           others == {r \in runbooks : r.id # j.id}
           fresh == SectionsOf(j.id, j.body, j.key)
<1>1. /\ j.stage = "cleared" /\ Open(w)
      /\ runbooks' = others \cup {row}
      /\ chunks' = (chunks \ j.cleared) \cup fresh
      /\ audit' = audit \cup {SavedEvent(w)}
      /\ job' = [job EXCEPT ![w] = AfterSave(w)]
      /\ UNCHANGED <<keptFrom, todo, hits, nextId, nextEvent, started>>
  BY DEF Commit, EventsOf, Open, InTransaction
<1>2. j \in Job /\ j.id \in 1..(nextId - 1) /\ row \in Row
  BY <1>1 DEF TypeOK, IdsAreIssued, Job, Row
<1>3. fresh \subseteq Chunk /\ \A c \in fresh : c.runbook = j.id
  BY <1>2, SectionsOfType DEF Job
<1>4. AfterSave(w) \in Job /\ AfterSave(w).stage \in {"idle", "loop"}
  BY <1>2, BlankIsAJob DEF AfterSave, Job, Stage
<1>5. /\ job' \in [Writers -> Job]
      /\ job'[w].stage \notin InTransaction
      /\ \A v \in Writers : v # w => job'[v] = job[v]
  BY <1>1, <1>4, JobUpdate DEF TypeOK, InTransaction
<1>6. SavedEvent(w) \in Event /\ SavedEvent(w).n < nextEvent
      /\ IsSaveOf(SavedEvent(w), row.id, row.body)
  <2>1. SavedEvent(w) \in Event
    BY <1>2 DEF SavedEvent, Event, Job
  <2>2. SavedEvent(w).n = j.n /\ j.n < nextEvent
    BY <1>1 DEF EventsAreNumbered, SavedEvent
  <2>. QED  BY <2>1, <2>2 DEF SavedEvent, IsSaveOf
<1>7. \A r \in others : r \in runbooks /\ r.title # j.title /\ r.id # j.id
  BY <1>1 DEF HeldRowKeepsItsId
<1>8. TypeOK'
  <2>1. runbooks' \subseteq Row /\ \A r \in runbooks' : r.id \in 1..(nextId - 1)
    BY <1>1, <1>2 DEF TypeOK
  <2>2. \A r, s \in runbooks' : r.title = s.title => r = s
    BY <1>1, <1>7 DEF TypeOK
  <2>. QED  BY <1>1, <1>3, <1>5, <1>6, <2>1, <2>2 DEF TypeOK
<1>9. IdsAreUnique'
  BY <1>1, <1>7 DEF IdsAreUnique
<1>10. IdsAreIssued'
  BY <1>1, <1>5 DEF IdsAreIssued, Open
<1>11. LockIsExclusive'
  BY <1>5 DEF LockIsExclusive, Open
<1>12. HeldRowKeepsItsId'
  <2> SUFFICES ASSUME NEW v \in Writers, Open(v)', NEW r \in runbooks'
               PROVE  (r.title = job[v].title <=> r.id = job[v].id)'
    BY DEF HeldRowKeepsItsId
  <2>1. v # w /\ Open(v) /\ job'[v] = job[v]
    BY <1>5 DEF Open
  <2>2. job[v].title # j.title /\ job[v].id # j.id
    BY <1>1, <2>1 DEF LockIsExclusive
  <2>3. CASE r = row
    BY <2>1, <2>2, <2>3
  <2>4. CASE r \in others
    BY <2>1, <2>4 DEF HeldRowKeepsItsId
  <2>. QED  BY <1>1, <2>3, <2>4
<1>13. ClearedIsCurrent'
  <2> SUFFICES ASSUME NEW v \in Writers, job'[v].stage = "cleared"
               PROVE  job'[v].cleared = {c \in chunks' : c.runbook = job'[v].id}
    BY DEF ClearedIsCurrent
  <2>1. v # w /\ Open(v) /\ job'[v] = job[v]
    BY <1>5 DEF Open, InTransaction
  <2>2. job[v].id # j.id
    BY <1>1, <2>1 DEF LockIsExclusive
  <2>3. j.cleared = {c \in chunks : c.runbook = j.id}
    BY <1>1 DEF ClearedIsCurrent
  <2>4. {c \in chunks' : c.runbook = job[v].id}
          = {c \in chunks : c.runbook = job[v].id}
    BY <1>1, <1>3, <2>2, <2>3
  <2>. QED  BY <2>1, <2>4 DEF ClearedIsCurrent
<1>14. SectionsAreTheTexts'
  <2>1. j.cleared = {c \in chunks : c.runbook = j.id}
    BY <1>1 DEF ClearedIsCurrent
  <2>2. \A r \in runbooks : \A c \in SectionsOf(r.id, r.body, r.key) :
           c.runbook = r.id
    BY SectionsOfType DEF TypeOK, Row
  <2>3. chunks \ j.cleared
          = UNION {SectionsOf(r.id, r.body, r.key) : r \in others}
    BY <1>7, <2>1, <2>2 DEF SectionsAreTheTexts
  <2>4. fresh = SectionsOf(row.id, row.body, row.key)
    OBVIOUS
  <2>5. chunks' = UNION {SectionsOf(r.id, r.body, r.key) : r \in runbooks'}
    BY <1>1, <2>3, <2>4
  <2>. QED  BY <2>5 DEF SectionsAreTheTexts, SectionsOf
<1>15. RowsAreRecorded'
  BY <1>1, <1>6 DEF RowsAreRecorded, IsSaveOf
<1>16. EventsAreNumbered'
  BY <1>1, <1>5, <1>6 DEF EventsAreNumbered, InTransaction
<1>17. GivenTextIsTheHash' /\ GivenHashLeadsToSave'
  <2>1. SavedEvent(w).sections = {}
    BY DEF SavedEvent
  <2>. QED
    BY <1>1, <2>1 DEF GivenTextIsTheHash, GivenHashLeadsToSave, IsSaveOf
<1>. QED
  BY <1>8, <1>9, <1>10, <1>11, <1>12, <1>13, <1>14, <1>15, <1>16, <1>17

\* A DELETE waits for the row's open writer, so no open transaction has
\* cleared or will insert sections of the id that goes.
LEMMA DeleteIInv ==
    ASSUME IInv, NEW w \in Writers, Delete(w)
    PROVE  IInv'
<1> USE DEF IInv
<1> DEFINE gone == job[w].id
<1>1. /\ ~RowHeld(gone)
      /\ runbooks' = {r \in runbooks : r.id # gone}
      /\ chunks' = {c \in chunks : c.runbook # gone}
      /\ audit' = audit \cup {DeletedEvent(w)}
      /\ nextEvent' = nextEvent + 1
      /\ job' = [job EXCEPT ![w] = Blank]
      /\ UNCHANGED <<keptFrom, todo, hits, nextId, started>>
  BY DEF Delete
<1>2. /\ job' \in [Writers -> Job]
      /\ job'[w].stage = "idle"
      /\ \A v \in Writers : v # w => job'[v] = job[v]
  BY <1>1, BlankIsAJob, JobUpdate DEF TypeOK
<1>3. \A v \in Writers : Open(v)' =>
         v # w /\ Open(v) /\ job'[v] = job[v] /\ job[v].id # gone
  BY <1>1, <1>2 DEF Open, RowHeld, InTransaction
<1>4. DeletedEvent(w) \in Event /\ DeletedEvent(w).n = nextEvent
  <2>1. job[w] \in Job /\ nextEvent \in Nat
    BY DEF TypeOK
  <2>. QED  BY <2>1 DEF DeletedEvent, Event, Job
<1>5. TypeOK'
  <2>1. audit' \subseteq Event /\ nextEvent' \in Nat \ {0}
    BY <1>1, <1>4 DEF TypeOK
  <2>2. /\ runbooks' \subseteq Row /\ chunks' \subseteq Chunk
        /\ \A r \in runbooks' : r.id \in 1..(nextId' - 1)
        /\ \A r, s \in runbooks' : r.title = s.title => r = s
    BY <1>1 DEF TypeOK
  <2>. QED  BY <1>1, <1>2, <2>1, <2>2 DEF TypeOK
<1>6. IdsAreUnique' /\ RowsAreRecorded'
  BY <1>1 DEF IdsAreUnique, RowsAreRecorded, IsSaveOf
<1>7. IdsAreIssued' /\ LockIsExclusive' /\ HeldRowKeepsItsId'
  BY <1>1, <1>3 DEF IdsAreIssued, LockIsExclusive, HeldRowKeepsItsId
<1>8. ClearedIsCurrent'
  <2> SUFFICES ASSUME NEW v \in Writers, job'[v].stage = "cleared"
               PROVE  job'[v].cleared = {c \in chunks' : c.runbook = job'[v].id}
    BY DEF ClearedIsCurrent
  <2>1. job'[v] = job[v] /\ job[v].id # gone
    BY <1>3 DEF Open, InTransaction
  <2>2. job[v].cleared = {c \in chunks : c.runbook = job[v].id}
    BY <2>1 DEF ClearedIsCurrent
  <2>. QED  BY <1>1, <2>1, <2>2
<1>9. SectionsAreTheTexts'
  <2>1. \A r \in runbooks : \A c \in SectionsOf(r.id, r.body, r.key) :
           c.runbook = r.id
    BY SectionsOfType DEF TypeOK, Row
  <2>2. chunks' = UNION {SectionsOf(r.id, r.body, r.key) : r \in runbooks'}
    BY <1>1, <2>1 DEF SectionsAreTheTexts
  <2>. QED  BY <2>2 DEF SectionsAreTheTexts, SectionsOf
<1>10. EventsAreNumbered'
  <2>1. \A e \in audit : e.n \in Nat
    BY DEF TypeOK, Event
  <2>2. \A v \in Writers : job[v].n \in Nat
    BY DEF TypeOK, Job
  <2>3. \A e \in audit' : e.n < nextEvent'
    BY <1>1, <1>4, <2>1 DEF EventsAreNumbered, TypeOK
  <2>4. \A v \in Writers : job'[v].stage \in {"recorded", "cleared"} =>
           job'[v].n < nextEvent'
    BY <1>1, <1>2, <2>2 DEF EventsAreNumbered, TypeOK
  <2>. QED  BY <2>3, <2>4 DEF EventsAreNumbered
<1>11. GivenTextIsTheHash' /\ GivenHashLeadsToSave'
  <2>1. DeletedEvent(w).sections = {}
    BY DEF DeletedEvent
  <2>. QED
    BY <1>1, <2>1 DEF GivenTextIsTheHash, GivenHashLeadsToSave, IsSaveOf
<1>. QED
  BY <1>5, <1>6, <1>7, <1>8, <1>9, <1>10, <1>11

\* What a search returns is joined with its runbook in one statement, so a
\* section comes with the hash of its own text, and that text was saved.
LEMMA SearchIInv ==
    ASSUME IInv, NEW a \in Askers, Search(a)
    PROVE  IInv'
<1> USE DEF IInv
<1>1. PICK found \in SUBSET Joined : hits' = [hits EXCEPT ![a] = found]
  BY DEF Search
<1>2. /\ UNCHANGED <<runbooks, chunks, audit, keptFrom, job, todo,
                     nextId, nextEvent>>
      /\ started' \in Nat
  BY DEF Search, Begin, TypeOK
<1>3. \A h \in found :
         /\ h \in Hit /\ h.of = h.sha
         /\ \E s \in audit : IsSaveOf(s, h.runbook, h.sha)
  <2> SUFFICES ASSUME NEW h \in found
               PROVE  /\ h \in Hit /\ h.of = h.sha
                      /\ \E s \in audit : IsSaveOf(s, h.runbook, h.sha)
    OBVIOUS
  <2>1. PICK c \in chunks, r \in runbooks :
           /\ r.id = c.runbook
           /\ h = [runbook |-> c.runbook, of |-> c.of, sha |-> r.body]
    BY DEF Joined
  <2>2. c \in Chunk /\ r \in Row
    BY DEF TypeOK
  <2>3. c.of = r.body
    BY <2>1, SectionsNameTheirText
  <2>4. \E s \in audit : IsSaveOf(s, r.id, r.body)
    BY DEF RowsAreRecorded
  <2>. QED  BY <2>1, <2>2, <2>3, <2>4 DEF Hit, Chunk, Row
<1>4. hits' \in [Askers -> SUBSET Hit]
  BY <1>1, <1>3 DEF TypeOK
<1>5. TypeOK'
  BY <1>2, <1>4 DEF TypeOK
<1>6. GivenTextIsTheHash'
  BY <1>1, <1>3 DEF GivenTextIsTheHash, TypeOK
<1>7. GivenHashLeadsToSave'
  BY <1>1, <1>2, <1>3 DEF GivenHashLeadsToSave, TypeOK, IsSaveOf
<1>8. IdsAreUnique' /\ SectionsAreTheTexts' /\ RowsAreRecorded'
  BY <1>2 DEF IdsAreUnique, SectionsAreTheTexts, SectionsOf,
              RowsAreRecorded, IsSaveOf
<1>9. IdsAreIssued' /\ LockIsExclusive' /\ HeldRowKeepsItsId'
      /\ ClearedIsCurrent' /\ EventsAreNumbered'
  BY <1>2 DEF IdsAreIssued, LockIsExclusive, HeldRowKeepsItsId, Open,
              ClearedIsCurrent, EventsAreNumbered
<1>. QED  BY <1>5, <1>6, <1>7, <1>8, <1>9

\* A chat ends, with or without its event: the event's number is above that
\* of every save committed before it.
LEMMA AskIInv ==
    ASSUME IInv, NEW a \in Askers, Ask(a) \/ AskFails(a)
    PROVE  IInv'
<1> USE DEF IInv
<1>1. /\ UNCHANGED <<runbooks, chunks, keptFrom, job, todo, nextId, started>>
      /\ hits' = [hits EXCEPT ![a] = {}]
      /\ \/ audit' = audit /\ nextEvent' = nextEvent
         \/ audit' = audit \cup {AskedEvent(a)} /\ nextEvent' = nextEvent + 1
  BY DEF Ask, AskFails
<1>2. /\ AskedEvent(a) \in Event /\ AskedEvent(a).n = nextEvent
      /\ AskedEvent(a).target = {}
      /\ \A v \in AskedEvent(a).sections : \E h \in hits[a] :
            v.runbook = h.runbook /\ v.sha = h.sha
  <2>1. hits[a] \subseteq Hit /\ nextEvent \in Nat
    BY DEF TypeOK
  <2>2. AskedEvent(a).sections \subseteq Version
    BY <2>1 DEF AskedEvent, Version, Hit
  <2>. QED  BY <2>1, <2>2 DEF AskedEvent, Event
<1>3. TypeOK'
  <2>1. hits' \in [Askers -> SUBSET Hit]
    BY <1>1 DEF TypeOK
  <2>2. audit' \subseteq Event /\ nextEvent' \in Nat \ {0}
    BY <1>1, <1>2 DEF TypeOK
  <2>. QED  BY <1>1, <2>1, <2>2 DEF TypeOK
<1>4. EventsAreNumbered'
  <2>1. (\A e \in audit : e.n \in Nat) /\ (\A v \in Writers : job[v].n \in Nat)
    BY DEF TypeOK, Event, Job
  <2>. QED  BY <1>1, <1>2, <2>1 DEF EventsAreNumbered, TypeOK
<1>5. GivenTextIsTheHash'
  BY <1>1 DEF GivenTextIsTheHash, TypeOK
<1>6. GivenHashLeadsToSave'
  <2>1. \A b \in Askers : \A h \in hits'[b] : h \in hits[b]
    BY <1>1 DEF TypeOK
  <2>2. \A v \in AskedEvent(a).sections :
           \E s \in audit : IsSaveOf(s, v.runbook, v.sha) /\ s.n < nextEvent
    BY <1>2 DEF GivenHashLeadsToSave, EventsAreNumbered
  <2>3. \A e \in audit' : \A v \in e.sections :
           \E s \in audit : IsSaveOf(s, v.runbook, v.sha) /\ s.n < e.n
    BY <1>1, <1>2, <2>2 DEF GivenHashLeadsToSave
  <2>. QED  BY <1>1, <2>1, <2>3, ZenonT(40) DEF GivenHashLeadsToSave, IsSaveOf
<1>7. IdsAreUnique' /\ SectionsAreTheTexts' /\ RowsAreRecorded'
  BY <1>1 DEF IdsAreUnique, SectionsAreTheTexts, SectionsOf,
              RowsAreRecorded, IsSaveOf
<1>8. IdsAreIssued' /\ LockIsExclusive' /\ HeldRowKeepsItsId'
      /\ ClearedIsCurrent'
  BY <1>1 DEF IdsAreIssued, LockIsExclusive, HeldRowKeepsItsId, Open,
              ClearedIsCurrent
<1>. QED  BY <1>3, <1>4, <1>5, <1>6, <1>7, <1>8

\* Pruning, and a step that changes nothing, leave everything the invariant
\* reads as it was.
LEMMA KeepingIInv ==
    ASSUME IInv, keptFrom' \in Nat,
           UNCHANGED <<runbooks, chunks, audit, job, todo, hits,
                       nextId, nextEvent, started>>
    PROVE  IInv'
<1> USE DEF IInv
<1>1. TypeOK'
  BY DEF TypeOK
<1>2. IdsAreUnique' /\ SectionsAreTheTexts' /\ RowsAreRecorded'
      /\ GivenTextIsTheHash' /\ GivenHashLeadsToSave'
  BY DEF IdsAreUnique, SectionsAreTheTexts, SectionsOf, RowsAreRecorded,
         GivenTextIsTheHash, GivenHashLeadsToSave, IsSaveOf
<1>3. IdsAreIssued' /\ LockIsExclusive' /\ HeldRowKeepsItsId'
      /\ ClearedIsCurrent' /\ EventsAreNumbered'
  BY DEF IdsAreIssued, LockIsExclusive, HeldRowKeepsItsId, Open,
         ClearedIsCurrent, EventsAreNumbered
<1>. QED  BY <1>1, <1>2, <1>3

LEMMA NextIInv == IInv /\ [Next \/ Prune]_vars => IInv'
<1> SUFFICES ASSUME IInv, [Next \/ Prune]_vars PROVE IInv'
  OBVIOUS
<1>1. ASSUME NEW w \in Writers,
             Save(w) \/ ReadToDelete(w) \/ Proceed(w) \/ Fail(w)
      PROVE  IInv'
  <2>1. CASE Save(w)          BY <2>1, SaveIInv
  <2>2. CASE ReadToDelete(w)  BY <2>2, ReadToDeleteIInv
  <2>3. CASE Upsert(w)        BY <2>3, UpsertIInv
  <2>4. CASE Record(w)        BY <2>4, RecordIInv
  <2>5. CASE Clear(w)         BY <2>5, ClearIInv
  <2>6. CASE Commit(w)        BY <2>6, CommitIInv
  <2>7. CASE Delete(w)        BY <2>7, DeleteIInv
  <2>8. CASE ReembedNext      BY <2>8, ReembedNextIInv
  <2>9. CASE Fail(w)          BY <2>9, FailIInv
  <2>. QED
    BY <1>1, <2>1, <2>2, <2>3, <2>4, <2>5, <2>6, <2>7, <2>8, <2>9
       DEF Proceed
<1>2. CASE ListStale  BY <1>2, ListStaleIInv
<1>3. ASSUME NEW a \in Askers, Search(a) \/ Ask(a) \/ AskFails(a)
      PROVE  IInv'
  BY <1>3, SearchIInv, AskIInv
<1>4. CASE Prune
  <2>1. keptFrom' \in Nat
    BY <1>4 DEF Prune, IInv, TypeOK
  <2>. QED  BY <1>4, <2>1, KeepingIInv DEF Prune
<1>5. CASE UNCHANGED vars
  <2>1. keptFrom' \in Nat
    BY <1>5 DEF vars, IInv, TypeOK
  <2>. QED  BY <1>5, <2>1, KeepingIInv DEF vars
<1>. QED  BY <1>1, <1>2, <1>3, <1>4, <1>5 DEF Next

-----------------------------------------------------------------------------
(* The trail.  The event of a save takes its number while the row is held, *)
(* so no event of the same runbook is numbered between it and the commit:  *)
(* the order of the numbers is the order of the changes.                   *)

\* What a commit changes, for the writer and for everyone else.
LEMMA CommitEffect ==
    ASSUME IInv, NEW w \in Writers, Commit(w)
    PROVE  LET j == job[w]
               row == [title |-> j.title, id |-> j.id, body |-> j.body,
                       link |-> j.link, key |-> j.key]
           IN  /\ j.stage = "cleared" /\ j.id < nextId
               /\ runbooks' = {r \in runbooks : r.id # j.id} \cup {row}
               /\ \A r \in runbooks : r.title = j.title <=> r.id = j.id
               /\ audit' = audit \cup {SavedEvent(w)}
               /\ SavedEvent(w).n = j.n /\ SavedEvent(w).target = {j.id}
               /\ SavedEvent(w).title = {j.title}
               /\ IsSaveOf(SavedEvent(w), j.id, j.body)
               /\ job'[w].stage \in {"idle", "loop"}
               /\ \A v \in Writers : v # w =>
                     /\ job'[v] = job[v]
                     /\ Open(v) => job[v].id # j.id
               /\ nextId' = nextId /\ nextEvent' = nextEvent
<1> DEFINE j == job[w]
<1>1. j.stage = "cleared" /\ Open(w)
  BY DEF Commit, Open, InTransaction
<1>2. j \in Job /\ j.id < nextId
  BY <1>1 DEF IInv, TypeOK, IdsAreIssued
<1>3. AfterSave(w) \in Job /\ AfterSave(w).stage \in {"idle", "loop"}
  BY <1>2, BlankIsAJob DEF AfterSave, Job, Stage
<1>4. /\ job'[w].stage \in {"idle", "loop"}
      /\ \A v \in Writers : v # w => job'[v] = job[v]
  BY <1>3, JobUpdate DEF Commit, IInv, TypeOK
<1>5. \A v \in Writers : v # w /\ Open(v) => job[v].id # j.id
  BY <1>1 DEF IInv, LockIsExclusive
<1>6. \A r \in runbooks : r.title = j.title <=> r.id = j.id
  BY <1>1 DEF IInv, HeldRowKeepsItsId
<1>7. /\ SavedEvent(w).n = j.n /\ SavedEvent(w).target = {j.id}
      /\ SavedEvent(w).title = {j.title}
      /\ IsSaveOf(SavedEvent(w), j.id, j.body)
  BY DEF SavedEvent, IsSaveOf
<1>8. /\ runbooks' = {r \in runbooks : r.id # j.id} \cup
                     {[title |-> j.title, id |-> j.id, body |-> j.body,
                       link |-> j.link, key |-> j.key]}
      /\ audit' = audit \cup {SavedEvent(w)}
      /\ nextId' = nextId /\ nextEvent' = nextEvent
  BY DEF Commit, EventsOf
<1>. QED  BY <1>1, <1>2, <1>4, <1>5, <1>6, <1>7, <1>8

\* What a deletion changes.
LEMMA DeleteEffect ==
    ASSUME IInv, NEW w \in Writers, Delete(w)
    PROVE  /\ job[w].stage = "deleting"
           /\ runbooks' = {r \in runbooks : r.id # job[w].id}
           /\ audit' = audit \cup {DeletedEvent(w)}
           /\ DeletedEvent(w).n = nextEvent
           /\ DeletedEvent(w).action = "runbook.deleted"
           /\ DeletedEvent(w).target = {job[w].id}
           /\ DeletedEvent(w).title = {job[w].title}
           /\ \A e \in audit : e.n < nextEvent
           /\ job'[w].stage = "idle"
           /\ \A v \in Writers : v # w =>
                 /\ job'[v] = job[v]
                 /\ Open(v) => job[v].id # job[w].id
           /\ nextId' = nextId
<1>1. /\ job'[w].stage = "idle"
      /\ \A v \in Writers : v # w => job'[v] = job[v]
  BY BlankIsAJob, JobUpdate DEF Delete, IInv, TypeOK
<1>2. \A v \in Writers : Open(v) => job[v].id # job[w].id
  BY DEF Delete, RowHeld, Open
<1>3. /\ DeletedEvent(w).n = nextEvent
      /\ DeletedEvent(w).action = "runbook.deleted"
      /\ DeletedEvent(w).target = {job[w].id}
      /\ DeletedEvent(w).title = {job[w].title}
  BY DEF DeletedEvent
<1>. QED  BY <1>1, <1>2, <1>3 DEF Delete, IInv, EventsAreNumbered

\* Only the table and the trail matter to how the trail ends.
LEMMA TrailUntouched ==
    ASSUME UNCHANGED runbooks, UNCHANGED audit, TrailEndsAtTheText
    PROVE  TrailEndsAtTheText'
<1>1. \A e, id : IsLatestOf(e, id)' <=> IsLatestOf(e, id)
  BY DEF IsLatestOf
<1>2. \A e, id, body : IsSaveOf(e, id, body)' <=> IsSaveOf(e, id, body)
  BY DEF IsSaveOf
<1>. QED  BY <1>1, <1>2 DEF TrailEndsAtTheText

\* A step that leaves the table, the trail and the ids alone, and opens or
\* numbers nothing, keeps the trail; a new deletion names a stored row.
LEMMA QuietTrail ==
    ASSUME IInv, TrailInv, NEW w \in Writers,
           \A v \in Writers : v # w => job'[v] = job[v],
           \/ job'[w] = job[w]
           \/ job'[w].stage \in {"idle", "embedding", "loop"}
           \/ /\ job'[w].stage = "deleting"
              /\ \E r \in runbooks :
                    job'[w].id = r.id /\ job'[w].title = r.title,
           UNCHANGED <<runbooks, audit, nextId>>
    PROVE  TrailInv'
<1> USE DEF TrailInv
<1>1. \A v \in Writers : job'[v].stage \in InTransaction => job'[v] = job[v]
  BY DEF InTransaction
<1>2. HeldRowsEventIsLast'
  BY <1>1 DEF HeldRowsEventIsLast, InTransaction
<1>3. TrailEndsAtTheText'
  BY TrailUntouched
<1>4. DeletesItsTitle'
  <2> SUFFICES ASSUME NEW d \in Writers, job'[d].stage = "deleting"
               PROVE  /\ job'[d].id < nextId
                      /\ \A r \in runbooks :
                            r.id = job'[d].id => r.title = job'[d].title
                      /\ \A v \in Writers :
                            Open(v) /\ job[v].id = job'[d].id =>
                                job[v].title = job'[d].title
    BY <1>1 DEF DeletesItsTitle, Open
  <2>1. CASE job'[d] = job[d]
    BY <2>1 DEF DeletesItsTitle
  <2>2. CASE job'[d] # job[d]
    <3>1. PICK r \in runbooks : job'[d].id = r.id /\ job'[d].title = r.title
      BY <2>2
    <3>2. r.id < nextId
      BY DEF IInv, TypeOK
    <3>. QED  BY <3>1, <3>2 DEF IInv, IdsAreUnique, HeldRowKeepsItsId
  <2>. QED  BY <2>1, <2>2
<1>. QED  BY <1>2, <1>3, <1>4

\* The actions of one writer that QuietTrail covers.
LEMMA ReadingTrail ==
    ASSUME IInv, TrailInv, NEW w \in Writers,
           \/ Save(w) \/ ReadToDelete(w) \/ Fail(w)
           \/ w = Operator /\ (ListStale \/ ReembedNext)
    PROVE  TrailInv'
<1>1. job \in [Writers -> Job]
  BY DEF IInv, TypeOK
<1>2. CASE Save(w)
  <2>1. PICK t \in Titles, b \in Bodies, u \in Links, k \in Keys :
           ReadThenEmbed(w, t, b, u, k)
    BY <1>2 DEF Save
  <2>2. job'[w].stage = "embedding"
    BY <1>1, <2>1 DEF ReadThenEmbed, Blank
  <2>3. \A v \in Writers : v # w => job'[v] = job[v]
    BY <1>1, <2>1 DEF ReadThenEmbed
  <2>. QED  BY <1>2, <2>2, <2>3, QuietTrail DEF Save
<1>3. CASE ReadToDelete(w)
  <2>1. PICK r \in runbooks :
           job' = [job EXCEPT ![w] =
              [Blank EXCEPT !.stage = "deleting", !.title = r.title,
                            !.id = r.id, !.body = r.body]]
    BY <1>3 DEF ReadToDelete
  <2>2. /\ job'[w].stage = "deleting"
        /\ job'[w].id = r.id /\ job'[w].title = r.title
        /\ \A v \in Writers : v # w => job'[v] = job[v]
    BY <1>1, <2>1 DEF Blank
  <2>. QED  BY <1>3, <2>2, QuietTrail DEF ReadToDelete
<1>4. CASE Fail(w)
  BY <1>1, <1>4, BlankIsAJob, QuietTrail DEF Fail
<1>5. CASE w = Operator /\ ListStale
  <2>1. PICK k \in Keys :
           job' = [job EXCEPT ![w] = [Blank EXCEPT !.stage = "loop",
                                                   !.key = k]]
    BY <1>5 DEF ListStale
  <2>2. /\ job'[w].stage = "loop"
        /\ \A v \in Writers : v # w => job'[v] = job[v]
    BY <1>1, <2>1 DEF Blank
  <2>. QED  BY <1>5, <2>2, QuietTrail DEF ListStale
<1>6. CASE w = Operator /\ ReembedNext
  <2>1. PICK s \in todo :
           \/ job' = [job EXCEPT ![w] = Blank]
           \/ job' = job
           \/ ReadThenEmbed(w, s.title, s.body, s.link, job[w].key)
    BY <1>6 DEF ReembedNext
  <2>2. /\ job'[w] = job[w] \/ job'[w].stage \in {"idle", "embedding"}
        /\ \A v \in Writers : v # w => job'[v] = job[v]
    <3>1. CASE job' = [job EXCEPT ![w] = Blank]
      BY <1>1, <3>1, BlankIsAJob
    <3>2. CASE job' = job
      BY <3>2
    <3>3. CASE ReadThenEmbed(w, s.title, s.body, s.link, job[w].key)
      BY <1>1, <3>3 DEF ReadThenEmbed, Blank
    <3>. QED  BY <2>1, <3>1, <3>2, <3>3
  <2>. QED  BY <1>6, <2>2, QuietTrail DEF ReembedNext
<1>. QED  BY <1>2, <1>3, <1>4, <1>5, <1>6

LEMMA UpsertTrail ==
    ASSUME IInv, TrailInv, NEW w \in Writers, Upsert(w)
    PROVE  TrailInv'
<1> USE DEF TrailInv
<1> DEFINE t == job[w].title
<1>1. job \in [Writers -> Job] /\ nextId \in Nat
  BY DEF IInv, TypeOK
<1>2. PICK id :
         /\ job' = [job EXCEPT ![w] =
                       [@ EXCEPT !.stage = "upserted", !.id = id]]
         /\ id = nextId \/ \E r \in runbooks : r.id = id /\ r.title = t
  BY DEF Upsert, Existing
<1>3. /\ job'[w].stage = "upserted" /\ job'[w].id = id /\ job'[w].title = t
      /\ \A v \in Writers : v # w => job'[v] = job[v]
  BY <1>1, <1>2 DEF Job
<1>4. UNCHANGED <<runbooks, audit>> /\ nextId <= nextId' /\ nextId' \in Nat
  <2>1. nextId' = nextId \/ nextId' = nextId + 1
    BY DEF Upsert
  <2>2. UNCHANGED <<runbooks, audit>>
    BY DEF Upsert
  <2>. QED  BY <1>1, <2>1, <2>2
<1>5. HeldRowsEventIsLast'
  BY <1>3, <1>4 DEF HeldRowsEventIsLast
<1>6. TrailEndsAtTheText'
  BY <1>4 DEF TrailEndsAtTheText, IsSaveOf, IsLatestOf
<1>7. DeletesItsTitle'
  <2> SUFFICES ASSUME NEW d \in Writers, job'[d].stage = "deleting"
               PROVE  /\ job'[d].id < nextId'
                      /\ \A r \in runbooks :
                            r.id = job'[d].id => r.title = job'[d].title
                      /\ \A v \in Writers :
                            Open(v)' /\ job'[v].id = job'[d].id =>
                                job'[v].title = job'[d].title
    BY <1>4 DEF DeletesItsTitle, Open
  <2>1. d # w /\ job'[d] = job[d] /\ job[d].id \in Nat
    BY <1>1, <1>3 DEF Job
  <2>2. /\ job[d].id < nextId
        /\ \A r \in runbooks : r.id = job[d].id => r.title = job[d].title
    BY <2>1 DEF DeletesItsTitle
  <2>3. id = job[d].id => t = job[d].title
    BY <1>1, <1>2, <2>1, <2>2
  <2>4. \A v \in Writers \ {w} :
           Open(v)' /\ job'[v].id = job[d].id => job'[v].title = job[d].title
    BY <1>3, <2>1 DEF DeletesItsTitle, Open
  <2>. QED  BY <1>1, <1>3, <1>4, <2>1, <2>2, <2>3, <2>4
<1>. QED  BY <1>5, <1>6, <1>7

LEMMA RecordOrClearTrail ==
    ASSUME IInv, TrailInv, NEW w \in Writers, Record(w) \/ Clear(w)
    PROVE  TrailInv'
<1> USE DEF TrailInv
<1>1. job \in [Writers -> Job]
  BY DEF IInv, TypeOK
<1>2. /\ Open(w) /\ Open(w)'
      /\ job'[w].stage # "deleting"
      /\ job'[w].id = job[w].id /\ job'[w].title = job[w].title
      /\ \/ job'[w].n = nextEvent
         \/ job'[w].n = job[w].n /\ job[w].stage = "recorded"
      /\ \A v \in Writers : v # w => job'[v] = job[v]
  <2>1. job[w] \in Job
    BY <1>1
  <2>2. CASE Record(w)
    BY <1>1, <2>1, <2>2 DEF Record, Open, InTransaction, Job
  <2>3. CASE Clear(w)
    BY <1>1, <2>1, <2>3 DEF Clear, Open, InTransaction, Job
  <2>. QED  BY <2>2, <2>3
<1>3. UNCHANGED <<runbooks, audit, nextId>>
  BY DEF Record, Clear
<1>4. HeldRowsEventIsLast'
  BY <1>2, <1>3 DEF HeldRowsEventIsLast, IInv, EventsAreNumbered
<1>5. TrailEndsAtTheText'
  BY <1>3 DEF TrailEndsAtTheText, IsSaveOf, IsLatestOf
<1>6. DeletesItsTitle'
  BY <1>2, <1>3 DEF DeletesItsTitle, Open
<1>. QED  BY <1>4, <1>5, <1>6

\* The committed save is the latest event of its runbook, and of no other.
LEMMA CommitTrail ==
    ASSUME IInv, TrailInv, NEW w \in Writers, Commit(w)
    PROVE  TrailInv'
<1> USE DEF TrailInv
<1> DEFINE j == job[w]
           row == [title |-> j.title, id |-> j.id, body |-> j.body,
                   link |-> j.link, key |-> j.key]
           saved == SavedEvent(w)
<1>1. /\ j.stage = "cleared" /\ j.id < nextId
      /\ runbooks' = {r \in runbooks : r.id # j.id} \cup {row}
      /\ \A r \in runbooks : r.title = j.title <=> r.id = j.id
      /\ audit' = audit \cup {saved}
      /\ saved.n = j.n /\ saved.target = {j.id}
      /\ IsSaveOf(saved, j.id, j.body)
      /\ job'[w].stage \in {"idle", "loop"}
      /\ \A v \in Writers : v # w =>
            /\ job'[v] = job[v]
            /\ Open(v) => job[v].id # j.id
      /\ nextId' = nextId
  BY CommitEffect
<1>2. \A v \in Writers : job'[v].stage \in InTransaction \cup {"deleting"} =>
         v # w /\ job'[v] = job[v]
  BY <1>1 DEF InTransaction
<1>3. \A e \in audit : j.id \in e.target => e.n < j.n
  BY <1>1 DEF HeldRowsEventIsLast
<1>4. j.n \in Nat /\ \A e \in audit : e.n \in Nat
  BY DEF IInv, TypeOK, Job, Event
<1>5. HeldRowsEventIsLast'
  BY <1>1, <1>2 DEF HeldRowsEventIsLast, Open, InTransaction
<1>6. DeletesItsTitle'
  <2> SUFFICES ASSUME NEW d \in Writers, job'[d].stage = "deleting"
               PROVE  /\ job'[d].id < nextId
                      /\ \A r \in runbooks' :
                            r.id = job'[d].id => r.title = job'[d].title
                      /\ \A v \in Writers :
                            Open(v)' /\ job'[v].id = job'[d].id =>
                                job'[v].title = job'[d].title
    BY <1>1 DEF DeletesItsTitle, Open
  <2>1. job'[d] = job[d] /\ d # w
    BY <1>2
  <2>2. j.id = job[d].id => j.title = job[d].title
    BY <1>1, <2>1 DEF DeletesItsTitle, Open, InTransaction
  <2>3. \A v \in Writers :
           Open(v)' /\ job'[v].id = job[d].id => job'[v].title = job[d].title
    BY <1>2, <2>1 DEF DeletesItsTitle, Open
  <2>. QED  BY <1>1, <2>1, <2>2, <2>3 DEF DeletesItsTitle
<1>7. \A r \in runbooks' :
         \E e \in audit' : IsSaveOf(e, r.id, r.body) /\ IsLatestOf(e, r.id)'
  <2> SUFFICES ASSUME NEW r \in runbooks'
               PROVE  \E e \in audit' :
                         IsSaveOf(e, r.id, r.body) /\ IsLatestOf(e, r.id)'
    OBVIOUS
  <2>1. CASE r = row
    <3>1. \A f \in audit' : r.id \in f.target => f.n <= saved.n
      BY <1>1, <1>3, <1>4, <2>1
    <3>2. saved \in audit' /\ IsSaveOf(saved, r.id, r.body)
      BY <1>1, <2>1
    <3>. QED  BY <3>1, <3>2 DEF IsLatestOf
  <2>2. CASE r \in runbooks /\ r.id # j.id
    <3>1. PICK e \in audit : IsSaveOf(e, r.id, r.body) /\ IsLatestOf(e, r.id)
      BY <2>2 DEF TrailEndsAtTheText
    <3>2. IsLatestOf(e, r.id)'
      BY <1>1, <2>2, <3>1 DEF IsLatestOf
    <3>. QED  BY <1>1, <3>1, <3>2
  <2>. QED  BY <1>1, <2>1, <2>2
<1>8. \A e \in audit' : \A id \in e.target :
         e.action = "runbook.saved" /\ IsLatestOf(e, id)'
            => \E r \in runbooks' : r.id = id /\ e.sha = {r.body}
  <2> SUFFICES ASSUME NEW e \in audit', NEW id \in e.target,
                      e.action = "runbook.saved", IsLatestOf(e, id)'
               PROVE  \E r \in runbooks' : r.id = id /\ e.sha = {r.body}
    OBVIOUS
  <2>1. CASE id = j.id
    <3>1. saved.n <= e.n
      BY <1>1, <2>1 DEF IsLatestOf
    <3>2. e = saved
      BY <1>1, <1>3, <1>4, <2>1, <3>1
    <3>3. row \in runbooks' /\ row.id = j.id /\ row.body = j.body
      BY <1>1
    <3>4. e.sha = {j.body}
      BY <1>1, <3>2 DEF IsSaveOf
    <3>. QED  BY <2>1, <3>3, <3>4
  <2>2. CASE id # j.id
    <3>1. e \in audit /\ IsLatestOf(e, id)
      BY <1>1, <2>2 DEF IsLatestOf
    <3>2. PICK r \in runbooks : r.id = id /\ e.sha = {r.body}
      BY <3>1 DEF TrailEndsAtTheText
    <3>. QED  BY <1>1, <2>2, <3>2
  <2>. QED  BY <2>1, <2>2
<1>9. TrailEndsAtTheText'
  BY <1>7, <1>8 DEF TrailEndsAtTheText, IsSaveOf
<1>. QED  BY <1>5, <1>6, <1>9

\* The deletion's event is later than every other, and its row is gone.
LEMMA DeleteTrail ==
    ASSUME IInv, TrailInv, NEW w \in Writers, Delete(w)
    PROVE  TrailInv'
<1> USE DEF TrailInv
<1> DEFINE gone == job[w].id
           deleted == DeletedEvent(w)
<1>1. /\ runbooks' = {r \in runbooks : r.id # gone}
      /\ audit' = audit \cup {deleted}
      /\ deleted.n = nextEvent /\ deleted.action = "runbook.deleted"
      /\ deleted.target = {gone}
      /\ \A e \in audit : e.n < nextEvent
      /\ job'[w].stage = "idle"
      /\ \A v \in Writers : v # w =>
            /\ job'[v] = job[v]
            /\ Open(v) => job[v].id # gone
      /\ nextId' = nextId
  BY DeleteEffect
<1>2. \A v \in Writers : job'[v].stage \in InTransaction \cup {"deleting"} =>
         v # w /\ job'[v] = job[v]
  BY <1>1 DEF InTransaction
<1>3. nextEvent \in Nat /\ \A e \in audit : e.n \in Nat
  BY DEF IInv, TypeOK, Event
<1>4. HeldRowsEventIsLast'
  BY <1>1, <1>2 DEF HeldRowsEventIsLast, Open, InTransaction
<1>5. DeletesItsTitle'
  BY <1>1, <1>2 DEF DeletesItsTitle, Open
<1>6. \A r \in runbooks' :
         \E e \in audit' : IsSaveOf(e, r.id, r.body) /\ IsLatestOf(e, r.id)'
  <2> SUFFICES ASSUME NEW r \in runbooks, r.id # gone
               PROVE  \E e \in audit' :
                         IsSaveOf(e, r.id, r.body) /\ IsLatestOf(e, r.id)'
    BY <1>1
  <2>1. PICK e \in audit : IsSaveOf(e, r.id, r.body) /\ IsLatestOf(e, r.id)
    BY DEF TrailEndsAtTheText
  <2>. QED  BY <1>1, <2>1 DEF IsLatestOf
<1>7. \A e \in audit' : \A id \in e.target :
         e.action = "runbook.saved" /\ IsLatestOf(e, id)'
            => \E r \in runbooks' : r.id = id /\ e.sha = {r.body}
  <2> SUFFICES ASSUME NEW e \in audit', NEW id \in e.target,
                      e.action = "runbook.saved", IsLatestOf(e, id)'
               PROVE  \E r \in runbooks' : r.id = id /\ e.sha = {r.body}
    OBVIOUS
  <2>1. e \in audit /\ IsLatestOf(e, id)
    BY <1>1 DEF IsLatestOf
  <2>2. id # gone
    BY <1>1, <1>3, <2>1 DEF IsLatestOf
  <2>3. PICK r \in runbooks : r.id = id /\ e.sha = {r.body}
    BY <2>1 DEF TrailEndsAtTheText
  <2>. QED  BY <1>1, <2>2, <2>3
<1>8. TrailEndsAtTheText'
  BY <1>6, <1>7 DEF TrailEndsAtTheText, IsSaveOf
<1>. QED  BY <1>4, <1>5, <1>8

\* A chat's event names no runbook as its target.
LEMMA AskersTrail ==
    ASSUME IInv, TrailInv, NEW a \in Askers,
           Search(a) \/ Ask(a) \/ AskFails(a)
    PROVE  TrailInv'
<1> USE DEF TrailInv
<1>1. /\ UNCHANGED <<runbooks, job, nextId>>
      /\ audit' = audit \/ audit' = audit \cup {AskedEvent(a)}
  BY DEF Search, Ask, AskFails
<1>2. AskedEvent(a).target = {} /\ AskedEvent(a).action = "chat.asked"
  BY DEF AskedEvent
<1>3. HeldRowsEventIsLast' /\ DeletesItsTitle'
  BY <1>1, <1>2 DEF HeldRowsEventIsLast, DeletesItsTitle, Open
<1>4. \A e \in audit, id \in Nat : IsLatestOf(e, id) <=> IsLatestOf(e, id)'
  BY <1>1, <1>2 DEF IsLatestOf
<1>5. \A r \in runbooks : r.id \in Nat
  BY DEF IInv, TypeOK, Row
<1>6. \A e \in audit : e.target \subseteq Nat
  BY DEF IInv, TypeOK, Event
<1>7. TrailEndsAtTheText'
  BY <1>1, <1>2, <1>4, <1>5, <1>6 DEF TrailEndsAtTheText, IsSaveOf
<1>. QED  BY <1>3, <1>7

LEMMA NextTrail == IInv /\ TrailInv /\ [Next \/ Prune]_vars => TrailInv'
<1> SUFFICES ASSUME IInv, TrailInv, [Next \/ Prune]_vars PROVE TrailInv'
  OBVIOUS
<1>1. ASSUME NEW w \in Writers,
             Save(w) \/ ReadToDelete(w) \/ Proceed(w) \/ Fail(w)
      PROVE  TrailInv'
  <2>1. CASE Save(w) \/ ReadToDelete(w) \/ Fail(w)
    BY <2>1, ReadingTrail
  <2>2. CASE w = Operator /\ ReembedNext  BY <2>2, ReadingTrail
  <2>3. CASE Upsert(w)                    BY <2>3, UpsertTrail
  <2>4. CASE Record(w) \/ Clear(w)        BY <2>4, RecordOrClearTrail
  <2>5. CASE Commit(w)                    BY <2>5, CommitTrail
  <2>6. CASE Delete(w)                    BY <2>6, DeleteTrail
  <2>. QED  BY <1>1, <2>1, <2>2, <2>3, <2>4, <2>5, <2>6 DEF Proceed
<1>2. CASE ListStale
  BY <1>2, ReadingTrail DEF Writers
<1>3. ASSUME NEW a \in Askers, Search(a) \/ Ask(a) \/ AskFails(a)
      PROVE  TrailInv'
  BY <1>3, AskersTrail
<1>4. CASE Prune \/ UNCHANGED vars
  <2>1. UNCHANGED <<runbooks, audit, job, nextId>>
    BY <1>4 DEF Prune, vars
  <2>2. HeldRowsEventIsLast' /\ DeletesItsTitle'
    BY <2>1 DEF TrailInv, HeldRowsEventIsLast, DeletesItsTitle, Open
  <2>3. TrailEndsAtTheText'
    BY <2>1 DEF TrailInv, TrailEndsAtTheText, IsSaveOf, IsLatestOf
  <2>. QED  BY <2>2, <2>3 DEF TrailInv
<1>. QED  BY <1>1, <1>2, <1>3, <1>4 DEF Next

LEMMA InitTrail == Init => TrailInv
<1> SUFFICES ASSUME Init PROVE TrailInv
  OBVIOUS
<1>1. \A w \in Writers : job[w].stage = "idle"
  BY BlankIsAJob DEF Init
<1>. QED
  BY <1>1 DEF Init, TrailInv, HeldRowsEventIsLast, DeletesItsTitle,
              TrailEndsAtTheText

\* The event a change of a title's rows is recorded by, in the same step.
Witnessed(e, t) ==
    /\ e.title = {t}
    /\ e.action = "runbook.saved" =>
          \E r \in runbooks' : IsSaveOf(e, r.id, r.body)

LEMMA CommitIsWitnessed ==
    ASSUME IInv, TrailInv, NEW w \in Writers, Commit(w), NEW t \in Titles,
           {r \in runbooks' : r.title = t} # {r \in runbooks : r.title = t}
    PROVE  \E e \in audit' \ audit : Witnessed(e, t)
<1> DEFINE j == job[w]
           row == [title |-> j.title, id |-> j.id, body |-> j.body,
                   link |-> j.link, key |-> j.key]
           saved == SavedEvent(w)
<1>1. /\ j.stage = "cleared"
      /\ runbooks' = {r \in runbooks : r.id # j.id} \cup {row}
      /\ \A r \in runbooks : r.title = j.title <=> r.id = j.id
      /\ audit' = audit \cup {saved}
      /\ saved.n = j.n /\ saved.target = {j.id} /\ saved.title = {j.title}
      /\ IsSaveOf(saved, j.id, j.body)
  BY CommitEffect
<1>2. t = j.title
  BY <1>1
<1>3. saved \notin audit
  <2>1. saved \in audit => saved.n < j.n
    BY <1>1 DEF TrailInv, HeldRowsEventIsLast
  <2>2. j.n \in Nat
    BY DEF IInv, TypeOK, Job
  <2>. QED  BY <1>1, <2>1, <2>2
<1>4. row \in runbooks' /\ row.id = j.id /\ row.body = j.body
  BY <1>1
<1>. QED  BY <1>1, <1>2, <1>3, <1>4 DEF Witnessed

LEMMA DeleteIsWitnessed ==
    ASSUME IInv, TrailInv, NEW w \in Writers, Delete(w), NEW t \in Titles,
           {r \in runbooks' : r.title = t} # {r \in runbooks : r.title = t}
    PROVE  \E e \in audit' \ audit : Witnessed(e, t)
<1> DEFINE deleted == DeletedEvent(w)
<1>1. /\ job[w].stage = "deleting"
      /\ runbooks' = {r \in runbooks : r.id # job[w].id}
      /\ audit' = audit \cup {deleted}
      /\ deleted.n = nextEvent /\ deleted.action = "runbook.deleted"
      /\ deleted.title = {job[w].title}
      /\ \A e \in audit : e.n < nextEvent
  BY DeleteEffect
<1>2. PICK r \in runbooks : r.title = t /\ r.id = job[w].id
  BY <1>1
<1>3. t = job[w].title
  BY <1>1, <1>2 DEF TrailInv, DeletesItsTitle
<1>4. deleted \notin audit
  <2>1. nextEvent \in Nat
    BY DEF IInv, TypeOK
  <2>. QED  BY <1>1, <2>1
<1>. QED  BY <1>1, <1>3, <1>4 DEF Witnessed

-----------------------------------------------------------------------------
(* The theorems.  They are stated for PrunedSpec, the specification with   *)
(* the owner's pruning, of which Spec is the part without it.              *)

LEMMA SpecIsPruned == Spec => PrunedSpec
<1>1. [Next]_vars => [Next \/ Prune]_vars
  OBVIOUS
<1>. QED  BY <1>1, PTL DEF Spec, PrunedSpec

LEMMA Inductive == PrunedSpec => []IInv
  BY InitIInv, NextIInv, PTL DEF PrunedSpec

LEMMA TrailInductive == PrunedSpec => []TrailInv
  BY InitTrail, NextTrail, Inductive, PTL DEF PrunedSpec

\* Rows, jobs and events keep their types, ids come from the sequence, and
\* a title never has two runbooks, however requests interleave.
THEOREM TypeCorrect == Spec => []TypeOK
<1>1. IInv => TypeOK
  BY DEF IInv
<1>. QED  BY <1>1, SpecIsPruned, Inductive, PTL

\* The stored sections are always exactly those of the stored texts: a save
\* commits a new text with all of its sections or not at all, and two saves
\* of one title never mix theirs.
THEOREM SectionsFollowTheTexts == Spec => []SectionsAreTheTexts
<1>1. IInv => SectionsAreTheTexts
  BY DEF IInv
<1>. QED  BY <1>1, SpecIsPruned, Inductive, PTL

\* A chat is never given a section of one version under the hash of another.
THEOREM HashesAreOfTheText == Spec => []GivenTextIsTheHash
<1>1. IInv => GivenTextIsTheHash
  BY DEF IInv
<1>. QED  BY <1>1, SpecIsPruned, Inductive, PTL

\* Every version hash given to a chat leads to the save that wrote it, and
\* that save is recorded before the chat.
THEOREM HashesLeadToTheSave == Spec => []GivenHashLeadsToSave
<1>1. IInv => GivenHashLeadsToSave
  BY DEF IInv
<1>. QED  BY <1>1, SpecIsPruned, Inductive, PTL

\* The latest event of a stored runbook saved the stored text, and a runbook
\* whose latest event is a save is stored with that text: re-embeddings,
\* saves and deletions of one runbook take their numbers in the order in
\* which they change it.
THEOREM TrailEndsThere == Spec => []TrailEndsAtTheText
<1>1. TrailInv => TrailEndsAtTheText
  BY DEF TrailInv
<1>. QED  BY <1>1, SpecIsPruned, TrailInductive, PTL

\* The trail only grows, and a step that changes a title's rows adds an event
\* of that title which, when it is a save, saved the text the step stored.
THEOREM ChangesAreRecorded == Spec => TrailIsWrittenWithTheChange
<1> DEFINE Recorded ==
      /\ audit \subseteq audit'
      /\ \A t \in Titles :
            {r \in runbooks' : r.title = t} # {r \in runbooks : r.title = t}
            => \E e \in audit' \ audit : Witnessed(e, t)
<1>1. ASSUME IInv, TrailInv, [Next]_vars PROVE Recorded
  <2>1. CASE \E w \in Writers : Commit(w)
    BY <1>1, <2>1, CommitIsWitnessed DEF Commit
  <2>2. CASE \E w \in Writers : Delete(w)
    BY <1>1, <2>2, DeleteIsWitnessed DEF Delete
  <2>3. CASE \E a \in Askers : Ask(a)
    BY <2>3 DEF Ask
  <2>4. CASE UNCHANGED <<runbooks, audit>>
    BY <2>4
  <2>. QED
    BY <1>1, <2>1, <2>2, <2>3, <2>4
       DEF Next, vars, Save, ReadToDelete, Proceed, Fail, Upsert, Record,
           Clear, ReembedNext, ListStale, Search, AskFails
<1>2. IInv /\ TrailInv /\ [Next]_vars =>
         [/\ audit \subseteq audit'
          /\ \A t \in Titles :
                {r \in runbooks' : r.title = t}
                   # {r \in runbooks : r.title = t}
                => \E e \in audit' \ audit :
                      /\ e.title = {t}
                      /\ e.action = "runbook.saved" =>
                            \E r \in runbooks' : IsSaveOf(e, r.id, r.body)]_vars
  BY <1>1 DEF Witnessed
<1>. QED
  BY <1>2, SpecIsPruned, Inductive, TrailInductive, PTL
     DEF Spec, TrailIsWrittenWithTheChange

=============================================================================
