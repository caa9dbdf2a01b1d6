------------------------------ MODULE Runbooks ------------------------------
(***************************************************************************)
(* Runbooks: how a team's texts are saved, deleted, embedded again and     *)
(* given to a chat, and the audit trail that is written with them          *)
(* (app/runbooks.py, app/routes/runbooks.py, app/audit.py, app/cli.py).    *)
(*                                                                         *)
(* A save reads the stored version, ends its transaction, waits for the    *)
(* embedding model, and only then writes: upsert, audit event, sections,   *)
(* commit.  Anything may commit while it waits.  The tables are sets of    *)
(* rows and hold what is committed; what an open transaction has written   *)
(* is in its job.  Postgres runs READ COMMITTED: each statement sees the   *)
(* rows committed when it starts, and a row (or unique key) written by an  *)
(* open transaction blocks the next writer of it until that one ends.      *)
(*                                                                         *)
(* Abstractions: a title stands for a (team, title) pair; the SHA-256 of a *)
(* text is the text (no collisions); a text is its number of sections; the *)
(* embedding is the key it was made with; roles, rate limits and           *)
(* row-level security are other modules' subject.                          *)
(***************************************************************************)
EXTENDS Naturals, FiniteSets

CONSTANTS
    Titles,     \* (team, title) pairs a runbook can have
    Bodies,     \* texts
    Links,      \* values of source_url
    Keys,       \* embedding keys; instances of a rolling deploy differ
    Requests,   \* API requests that save or delete
    Operator,   \* the process running `python -m app.cli reembed`
    Askers,     \* chats
    Sections,   \* [Bodies -> Nat], how many sections a text splits into
    MaxHits,    \* RAG_CONTEXT_CHUNKS, the sections given to one chat
    MaxStarts   \* bound: requests, re-embeddings and searches begun

ASSUME NonEmpty ==
    Titles # {} /\ Bodies # {} /\ Links # {} /\ Keys # {}
ASSUME OperatorIsNoRequest == Operator \notin Requests
ASSUME SectionsType == Sections \in [Bodies -> Nat]
ASSUME BoundsType == MaxHits \in Nat /\ MaxStarts \in Nat

VARIABLES
    runbooks,   \* committed rows of table runbooks
    chunks,     \* committed rows of table runbook_chunks
    audit,      \* every event ever committed to audit_events
    keptFrom,   \* events numbered below this were pruned by the owner
    job,        \* what each writer is doing, and what it has read
    todo,       \* the operator's list of runbooks still to embed again
    hits,       \* the sections each chat has read and not yet recorded
    nextId,     \* identity sequence of runbooks
    nextEvent,  \* identity sequence of audit_events
    started     \* how many requests have begun (bounds the model)

vars == <<runbooks, chunks, audit, keptFrom, job, todo, hits,
          nextId, nextEvent, started>>

Writers == Requests \cup {Operator}

Row == [title: Titles, id: Nat, body: Bodies, link: Links, key: Keys]
Chunk == [runbook: Nat, of: Bodies, ordinal: Nat, key: Keys]
Hit == [runbook: Nat, of: Bodies, sha: Bodies]
Version == [runbook: Nat, sha: Bodies]
Stale == [title: Titles, body: Bodies, link: Links]

\* One shape for the three actions; a set of at most one stands for a value
\* that may be NULL.
Event == [n: Nat, action: {"runbook.saved", "runbook.deleted", "chat.asked"},
          via: {"api", "cli"}, title: SUBSET Titles, target: SUBSET Nat,
          sha: SUBSET Bodies, previous: SUBSET Bodies,
          sections: SUBSET Version]

InTransaction == {"upserted", "recorded", "cleared"}
Stage == {"idle", "embedding", "deleting", "loop"} \cup InTransaction

Job == [stage: Stage, title: Titles, body: Bodies, link: Links, key: Keys,
        previous: SUBSET Bodies, id: Nat, n: Nat, cleared: SUBSET Chunk]

Blank == [stage |-> "idle",
          title |-> CHOOSE t \in Titles : TRUE,
          body |-> CHOOSE b \in Bodies : TRUE,
          link |-> CHOOSE u \in Links : TRUE,
          key |-> CHOOSE k \in Keys : TRUE,
          previous |-> {}, id |-> 0, n |-> 0, cleared |-> {}]

-----------------------------------------------------------------------------
(* Reads, and what a writer's statements touch.                            *)

\* The stored runbook of a (team, title): none or one (a unique constraint).
Existing(t) == {r \in runbooks : r.title = t}

\* The text, the embedding key and the link are all as asked.
Unchanged(t, b, u, k) ==
    \E r \in Existing(t) : r.body = b /\ r.key = k /\ r.link = u

\* The rows the INSERT stores of a text: one for each of its sections.
SectionsOf(id, b, k) ==
    {[runbook |-> id, of |-> b, ordinal |-> i, key |-> k] :
        i \in 1..Sections[b]}

\* Mutant of Locked: two upserts of one (team, title) do not wait.
NeverLocked(t) == FALSE

\* An open transaction has written this (team, title): the next upsert waits.
Locked(t) ==
    \E w \in Writers : job[w].stage \in InTransaction /\ job[w].title = t

\* Mutant of RowHeld: a DELETE does not wait for the row's open writer.
RowNeverHeld(id) == FALSE

\* An open transaction has written this row: a DELETE of it waits.
RowHeld(id) ==
    \E w \in Writers : job[w].stage \in InTransaction /\ job[w].id = id

\* Mutant of ClearedBy: only this text's own old sections are deleted.
ClearedSameText(w) ==
    {c \in chunks : c.runbook = job[w].id /\ c.of = job[w].body}

\* What DELETE FROM runbook_chunks WHERE runbook_id = ... finds.
ClearedBy(w) == {c \in chunks : c.runbook = job[w].id}

\* The sections any search could return, joined with their runbook's hash
\* in one statement.
Joined ==
    {[runbook |-> p[1].runbook, of |-> p[1].of, sha |-> p[2].body] :
        p \in {q \in chunks \X runbooks : q[2].id = q[1].runbook}}

SavedEvent(w) ==
    [n |-> job[w].n, action |-> "runbook.saved",
     via |-> IF w = Operator THEN "cli" ELSE "api",
     title |-> {job[w].title}, target |-> {job[w].id},
     sha |-> {job[w].body}, previous |-> job[w].previous, sections |-> {}]

DeletedEvent(w) ==
    [n |-> nextEvent, action |-> "runbook.deleted", via |-> "api",
     title |-> {job[w].title}, target |-> {job[w].id},
     sha |-> {job[w].body}, previous |-> {}, sections |-> {}]

AskedEvent(a) ==
    [n |-> nextEvent, action |-> "chat.asked", via |-> "api",
     title |-> {}, target |-> {}, sha |-> {}, previous |-> {},
     sections |-> {[runbook |-> h.runbook, sha |-> h.sha] : h \in hits[a]}]

\* Mutant of EventsOf: a save of the text that was read is not recorded.
EventsIfTextChanged(w) ==
    IF job[w].body \in job[w].previous THEN {} ELSE {SavedEvent(w)}

\* What a save's transaction adds to the trail.
EventsOf(w) == {SavedEvent(w)}

-----------------------------------------------------------------------------
Init ==
    /\ runbooks = {}
    /\ chunks = {}
    /\ audit = {}
    /\ keptFrom = 0
    /\ job = [w \in Writers |-> Blank]
    /\ todo = {}
    /\ hits = [a \in Askers |-> {}]
    /\ nextId = 1
    /\ nextEvent = 1
    /\ started = 0

Begin == started < MaxStarts /\ started' = started + 1

(* save_runbook up to its first commit: the stored version is read, and    *)
(* a changed text goes to the embedding model with no transaction open.    *)
ReadThenEmbed(w, t, b, u, k) ==
    job' = [job EXCEPT ![w] =
        [Blank EXCEPT !.stage = "embedding", !.title = t, !.body = b,
                      !.link = u, !.key = k,
                      !.previous = {r.body : r \in Existing(t)}]]

\* POST /runbooks.  Saving an unchanged text returns here, writing nothing.
Save(w) ==
    /\ w \in Requests
    /\ job[w].stage = "idle"
    /\ Begin
    /\ \E t \in Titles, b \in Bodies, u \in Links, k \in Keys :
        /\ ~Unchanged(t, b, u, k)
        /\ ReadThenEmbed(w, t, b, u, k)
    /\ UNCHANGED <<runbooks, chunks, audit, keptFrom, todo, hits,
                   nextId, nextEvent>>

\* INSERT ... ON CONFLICT DO UPDATE: waits for another writer of the title,
\* then keeps the id of the row it finds, or takes a new one.
Upsert(w) ==
    /\ job[w].stage = "embedding"
    /\ ~Locked(job[w].title)
    /\ LET found == Existing(job[w].title)
       IN  IF found = {}
           THEN /\ job' = [job EXCEPT ![w] =
                                [@ EXCEPT !.stage = "upserted", !.id = nextId]]
                /\ nextId' = nextId + 1
           ELSE /\ \E r \in found :
                     job' = [job EXCEPT ![w] =
                                [@ EXCEPT !.stage = "upserted", !.id = r.id]]
                /\ UNCHANGED nextId
    /\ UNCHANGED <<runbooks, chunks, audit, keptFrom, todo, hits,
                   nextEvent, started>>

\* record(): the event takes its number inside the open transaction.
Record(w) ==
    /\ job[w].stage = "upserted"
    /\ job' = [job EXCEPT ![w] =
                 [@ EXCEPT !.stage = "recorded", !.n = nextEvent]]
    /\ nextEvent' = nextEvent + 1
    /\ UNCHANGED <<runbooks, chunks, audit, keptFrom, todo, hits,
                   nextId, started>>

\* DELETE FROM runbook_chunks: the sections committed when it starts.
Clear(w) ==
    /\ job[w].stage = "recorded"
    /\ job' = [job EXCEPT ![w] =
                 [@ EXCEPT !.stage = "cleared", !.cleared = ClearedBy(w)]]
    /\ UNCHANGED <<runbooks, chunks, audit, keptFrom, todo, hits,
                   nextId, nextEvent, started>>

\* A request answers; the operator goes on with its list, if any is left.
AfterSave(w) ==
    IF w = Operator /\ todo # {}
    THEN [Blank EXCEPT !.stage = "loop", !.key = job[w].key]
    ELSE Blank

\* The new sections are inserted and everything commits at once.
Commit(w) ==
    LET j == job[w]
        row == [title |-> j.title, id |-> j.id, body |-> j.body,
                link |-> j.link, key |-> j.key]
    IN  /\ j.stage = "cleared"
        /\ runbooks' = {r \in runbooks : r.id # j.id} \cup {row}
        /\ chunks' = (chunks \ j.cleared) \cup SectionsOf(j.id, j.body, j.key)
        /\ audit' = audit \cup EventsOf(w)
        /\ job' = [job EXCEPT ![w] = AfterSave(w)]
        /\ UNCHANGED <<keptFrom, todo, hits, nextId, nextEvent, started>>

\* The embedding model fails, a statement times out, the connection or the
\* process is lost: an open transaction rolls back, and a re-embedding ends
\* where it is.
Fail(w) ==
    /\ job[w].stage # "idle"
    /\ job' = [job EXCEPT ![w] = Blank]
    /\ todo' = IF w = Operator THEN {} ELSE todo
    /\ UNCHANGED <<runbooks, chunks, audit, keptFrom, hits,
                   nextId, nextEvent, started>>

\* DELETE /runbooks/{id}: the runbook is read, and its id and hash kept.
ReadToDelete(w) ==
    /\ w \in Requests
    /\ job[w].stage = "idle"
    /\ Begin
    /\ \E r \in runbooks :
        job' = [job EXCEPT ![w] =
            [Blank EXCEPT !.stage = "deleting", !.title = r.title,
                          !.id = r.id, !.body = r.body]]
    /\ UNCHANGED <<runbooks, chunks, audit, keptFrom, todo, hits,
                   nextId, nextEvent>>

\* The DELETE by id (its sections cascade), the event and the commit.  A row
\* already gone is only a warning: the event is recorded all the same.
Delete(w) ==
    LET id == job[w].id
    IN  /\ job[w].stage = "deleting"
        /\ ~RowHeld(id)
        /\ runbooks' = {r \in runbooks : r.id # id}
        /\ chunks' = {c \in chunks : c.runbook # id}
        /\ audit' = audit \cup {DeletedEvent(w)}
        /\ nextEvent' = nextEvent + 1
        /\ job' = [job EXCEPT ![w] = Blank]
        /\ UNCHANGED <<keptFrom, todo, hits, nextId, started>>

\* reembed: every runbook embedded another way is read up front, text and all.
ListStale ==
    /\ job[Operator].stage = "idle"
    /\ Begin
    /\ \E k \in Keys :
        LET stale == {r \in runbooks : r.key # k}
        IN  /\ stale # {}
            /\ todo' = {[title |-> r.title, body |-> r.body, link |-> r.link] :
                          r \in stale}
            /\ job' = [job EXCEPT ![Operator] =
                         [Blank EXCEPT !.stage = "loop", !.key = k]]
    /\ UNCHANGED <<runbooks, chunks, audit, keptFrom, hits,
                   nextId, nextEvent>>

\* ... and saved one by one, as it was read.
ReembedNext ==
    /\ job[Operator].stage = "loop"
    /\ \E s \in todo :
        /\ todo' = todo \ {s}
        /\ IF Unchanged(s.title, s.body, s.link, job[Operator].key)
           THEN job' = IF todo' = {} THEN [job EXCEPT ![Operator] = Blank]
                                     ELSE job
           ELSE ReadThenEmbed(Operator, s.title, s.body, s.link,
                              job[Operator].key)
    /\ UNCHANGED <<runbooks, chunks, audit, keptFrom, hits,
                   nextId, nextEvent, started>>

\* The search of a chat: which sections rank is the question's affair.
\* A chat given no section has nothing to trace, and is left out.
Search(a) ==
    /\ hits[a] = {}
    /\ Begin
    /\ \E found \in SUBSET Joined :
        /\ found # {} /\ Cardinality(found) <= MaxHits
        /\ hits' = [hits EXCEPT ![a] = found]
    /\ UNCHANGED <<runbooks, chunks, audit, keptFrom, job, todo,
                   nextId, nextEvent>>

\* chat.asked commits before the answer starts, or the request fails.
Ask(a) ==
    /\ hits[a] # {}
    /\ audit' = audit \cup {AskedEvent(a)}
    /\ nextEvent' = nextEvent + 1
    /\ hits' = [hits EXCEPT ![a] = {}]
    /\ UNCHANGED <<runbooks, chunks, keptFrom, job, todo, nextId, started>>

AskFails(a) ==
    /\ hits[a] # {}
    /\ hits' = [hits EXCEPT ![a] = {}]
    /\ UNCHANGED <<runbooks, chunks, audit, keptFrom, job, todo,
                   nextId, nextEvent, started>>

\* make audit-prune: the schema owner deletes the events older than a date
\* (age is taken to follow the number; both are given by the same insert).
Prune ==
    /\ \E n \in (keptFrom + 1)..nextEvent : keptFrom' = n
    /\ UNCHANGED <<runbooks, chunks, audit, job, todo, hits,
                   nextId, nextEvent, started>>

-----------------------------------------------------------------------------
\* A step that continues what a writer has begun.
Proceed(w) ==
    \/ Upsert(w) \/ Record(w) \/ Clear(w) \/ Commit(w)
    \/ Delete(w)
    \/ w = Operator /\ ReembedNext

Next ==
    \/ \E w \in Writers : Save(w) \/ ReadToDelete(w) \/ Proceed(w) \/ Fail(w)
    \/ ListStale
    \/ \E a \in Askers : Search(a) \/ Ask(a) \/ AskFails(a)

Spec == Init /\ [][Next]_vars

\* With the owner pruning as well.  Only KeptHashLeadsToSave reads keptFrom:
\* to every other property a prune is a stuttering step.
PrunedSpec == Init /\ [][Next \/ Prune]_vars

-----------------------------------------------------------------------------
(* Properties.                                                             *)

\* Rows, jobs and events have their types; ids were issued by the sequence,
\* and a title has one runbook (uq_runbooks_team_id_title).
TypeOK ==
    /\ runbooks \subseteq Row
    /\ \A r \in runbooks : r.id \in 1..(nextId - 1)
    /\ \A r, s \in runbooks : r.title = s.title => r = s
    /\ chunks \subseteq Chunk
    /\ audit \subseteq Event
    /\ job \in [Writers -> Job]
    /\ todo \subseteq Stale
    /\ hits \in [Askers -> SUBSET Hit]
    /\ nextId \in Nat \ {0} /\ nextEvent \in Nat \ {0}
    /\ keptFrom \in Nat /\ started \in Nat

\* However saves, deletions and re-embeddings interleave, the committed
\* sections are exactly those of the committed texts, each with its
\* runbook's embedding key: no section of an older version, none doubled,
\* none orphaned (save_runbook's upsert, delete, insert, commit).
SectionsAreTheTexts ==
    chunks = UNION {SectionsOf(r.id, r.body, r.key) : r \in runbooks}

\* The version hash a chat is given with a section is the hash of the very
\* text that section was cut from (the join in search_runbooks).
GivenTextIsTheHash == \A a \in Askers : \A h \in hits[a] : h.of = h.sha

IsSaveOf(e, id, sha) ==
    e.action = "runbook.saved" /\ e.target = {id} /\ e.sha = {sha}

\* A section's version hash leads to the save that wrote it, recorded before
\* the chat was (ADR-0019, decision 2) - as long as the owner has pruned
\* nothing: events deleted by age still count here.
GivenHashLeadsToSave ==
    /\ \A a \in Askers : \A h \in hits[a] :
          \E s \in audit : IsSaveOf(s, h.runbook, h.sha)
    /\ \A e \in audit : \A v \in e.sections :
          \E s \in audit : IsSaveOf(s, v.runbook, v.sha) /\ s.n < e.n

IsLatestOf(e, id) == \A f \in audit : id \in f.target => f.n <= e.n

\* The trail, read in the order of its numbers, ends at the table: a stored
\* text is the one its runbook's latest event saved, and a runbook whose
\* latest event is a save is stored with that text.
TrailEndsAtTheText ==
    /\ \A r \in runbooks :
          \E e \in audit : IsSaveOf(e, r.id, r.body) /\ IsLatestOf(e, r.id)
    /\ \A e \in audit : \A id \in e.target :
          e.action = "runbook.saved" /\ IsLatestOf(e, id)
             => \E r \in runbooks : r.id = id /\ e.sha = {r.body}

\* No change without its record in the same step, and no event is ever
\* changed or lost by the application (app/audit.py's first paragraph).
TrailIsWrittenWithTheChange ==
    [][/\ audit \subseteq audit'
       /\ \A t \in Titles :
             {r \in runbooks' : r.title = t} # {r \in runbooks : r.title = t}
             => \E e \in audit' \ audit :
                   /\ e.title = {t}
                   /\ e.action = "runbook.saved" =>
                         \E r \in runbooks' : IsSaveOf(e, r.id, r.body)]_vars

-----------------------------------------------------------------------------
(* What the documents say and the code does not keep.                      *)

\* docs/handbook/ai-security.md: runbook.saved holds "the hash it replaced".
SaveNamesTheHashItReplaced ==
    [][\A e \in audit' \ audit : e.action = "runbook.saved" =>
          e.previous = {r.body : r \in {q \in runbooks : q.title \in e.title}}]_vars

\* delete_runbook: "no answer can cite a deleted runbook".  A title that was
\* deleted is stored again only by a team admin's save of it.
NoAnswerCitesADeletedRunbook ==
    \A r \in runbooks :
        (\E d \in audit : d.action = "runbook.deleted" /\ d.title = {r.title})
        => \E s \in audit : s.via = "api" /\ IsSaveOf(s, r.id, r.body)

\* ADR-0019: "A section's version hash leads to the save that wrote it", in
\* the trail as pruned by its owner.
KeptHashLeadsToSave ==
    LET kept == {e \in audit : e.n >= keptFrom}
    IN  \A e \in kept : \A v \in e.sections :
           \E s \in kept : IsSaveOf(s, v.runbook, v.sha)
=============================================================================
