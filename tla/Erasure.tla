------------------------------- MODULE Erasure -------------------------------
(***************************************************************************)
(* A person's accounts: their sign-ins, the requests made with the         *)
(* sessions, and what erases them (app/privacy.py): an operator's forget   *)
(* and the retention job, each one transaction.                            *)
(*                                                                         *)
(* A statement sees what was committed when it began; to change a row      *)
(* another transaction has changed it waits for that one to end, then      *)
(* looks at its WHERE again (Postgres, READ COMMITTED).                    *)
(***************************************************************************)
EXTENDS Naturals, FiniteSets

CONSTANTS
    Accounts,   \* of the person, by issuer and subject
    MaxIds,     \* bound: user ids ever given
    MaxEvents   \* bound: audit events of one user id

ErasureConstants == MaxIds \in Nat /\ MaxEvents \in Nat

VARIABLES
    row,        \* account -> its committed user row: [id, old], id 0 for none
    nextId,     \* the identity column
    sessions,   \* committed: user ids that have one
    signing,    \* account -> the user id its sign-in's upsert returned, or 0
    acting,     \* user ids that requests under way act for
    trail,      \* user id -> audit events naming it as the actor
    job,        \* the erasing transaction
    forgotten,  \* committed user.forgotten events: [id, kept]
    retired     \* committed deletions by retention: [id, old]

vars == <<row, nextId, sessions, signing, acting, trail, job, forgotten, retired>>

Ids == 1..MaxIds
Row == [id : {0} \cup Ids, old : BOOLEAN]
NoRow == [id |-> 0, old |-> FALSE]
NoJob == [kind |-> "none", apply |-> FALSE, todo |-> {}, gone |-> {}, kept |-> {}]

Init ==
    /\ row = [a \in Accounts |-> NoRow] /\ nextId = 1
    /\ sessions = {} /\ signing = [a \in Accounts |-> 0] /\ acting = {}
    /\ trail = [id \in Ids |-> 0]
    /\ job = NoJob /\ forgotten = {} /\ retired = {}

\* A year without a sign-in; no transaction lasts that long.
GrowOld(a) ==
    /\ row[a].id # 0 /\ ~row[a].old /\ signing[a] = 0 /\ job = NoJob
    /\ row' = [row EXCEPT ![a].old = TRUE]
    /\ sessions' = sessions \ {row[a].id}
    /\ acting' = acting \ {row[a].id}
    /\ UNCHANGED <<nextId, signing, trail, job, forgotten, retired>>

Deleted(a) == row[a].id \in job.gone

\* sign_in's upsert, which waits for the row where the job has deleted it: an
\* account without a row gets a new id.
Upsert(a) ==
    /\ signing[a] = 0 /\ ~Deleted(a)
    /\ IF row[a].id # 0
       THEN signing' = [signing EXCEPT ![a] = row[a].id] /\ UNCHANGED nextId
       ELSE /\ nextId \in Ids /\ nextId' = nextId + 1
            /\ signing' = [signing EXCEPT ![a] = nextId]
    /\ UNCHANGED <<row, sessions, acting, trail, job, forgotten, retired>>

\* The session is inserted, the callback commits.
SignedIn(a) ==
    /\ signing[a] # 0
    /\ row' = [row EXCEPT ![a] = [id |-> signing[a], old |-> FALSE]]
    /\ sessions' = sessions \cup {signing[a]}
    /\ signing' = [signing EXCEPT ![a] = 0]
    /\ UNCHANGED <<nextId, acting, trail, job, forgotten, retired>>

SignInFails(a) ==
    /\ signing[a] # 0 /\ signing' = [signing EXCEPT ![a] = 0]
    /\ UNCHANGED <<row, nextId, sessions, acting, trail, job, forgotten, retired>>

\* A request authenticates, and commits its audit event later.
Request(id) ==
    /\ id \in sessions /\ acting' = acting \cup {id}
    /\ UNCHANGED <<row, nextId, sessions, signing, trail, job, forgotten, retired>>

Records(id) ==
    /\ id \in acting /\ trail[id] < MaxEvents
    /\ trail' = [trail EXCEPT ![id] = @ + 1] /\ acting' = acting \ {id}
    /\ UNCHANGED <<row, nextId, sessions, signing, job, forgotten, retired>>

\* forget lists the accounts there are; with or without --yes.
Forget(apply) ==
    /\ job = NoJob
    /\ job' = [NoJob EXCEPT !.kind = "forget", !.apply = apply,
                    !.todo = {a \in Accounts : row[a].id # 0}]
    /\ UNCHANGED <<row, nextId, sessions, signing, acting, trail, forgotten, retired>>

\* One account: its events counted, its row deleted once no sign-in holds it
\* (memberships and sessions go with it), user.forgotten written.
ForgetAccount(a) ==
    /\ job.kind = "forget" /\ a \in job.todo /\ signing[a] = 0
    /\ \E counted \in 0..trail[row[a].id] :  \* before the wait: events may follow
        job' = [job EXCEPT !.todo = @ \ {a}, !.gone = @ \cup {row[a].id},
                           !.kept = @ \cup {[id |-> row[a].id, kept |-> counted]}]
    /\ UNCHANGED <<row, nextId, sessions, signing, acting, trail, forgotten, retired>>

\* retention's DELETE begins: the rows that match.
Retention(apply) ==
    /\ job = NoJob
    /\ job' = [NoJob EXCEPT !.kind = "retention", !.apply = apply,
                    !.todo = {a \in Accounts : row[a].id # 0 /\ row[a].old}]
    /\ UNCHANGED <<row, nextId, sessions, signing, acting, trail, forgotten, retired>>

\* Mutant of Matches: users are listed first, then deleted by their ids.
MatchesById(a) == row[a].id # 0

\* The row as it is now: last_login_at is looked at again.
Matches(a) == row[a].id # 0 /\ row[a].old

RetireRow(a) ==
    /\ job.kind = "retention" /\ a \in job.todo /\ signing[a] = 0
    /\ job' = [job EXCEPT !.todo = @ \ {a},
                          !.gone = IF Matches(a) THEN @ \cup {row[a].id} ELSE @]
    /\ UNCHANGED <<row, nextId, sessions, signing, acting, trail, forgotten, retired>>

\* The job's commit, or a dry run's rollback (a failure, too).
EndJob(commits) ==
    /\ job # NoJob /\ (commits => job.apply /\ job.todo = {})
    /\ IF commits
       THEN /\ row' = [a \in Accounts |-> IF Deleted(a) THEN NoRow ELSE row[a]]
            /\ sessions' = sessions \ job.gone
            /\ forgotten' = forgotten \cup job.kept
            /\ retired' = IF job.kind = "forget" THEN retired
                          ELSE retired \cup {row[a] : a \in {b \in Accounts : Deleted(b)}}
       ELSE UNCHANGED <<row, sessions, forgotten, retired>>
    /\ job' = NoJob
    /\ UNCHANGED <<nextId, signing, acting, trail>>

Next ==
    \/ \E a \in Accounts :
        \/ GrowOld(a) \/ Upsert(a) \/ SignedIn(a) \/ SignInFails(a)
        \/ ForgetAccount(a) \/ RetireRow(a)
    \/ \E id \in Ids : Request(id) \/ Records(id)
    \/ \E yes \in BOOLEAN : Forget(yes) \/ Retention(yes) \/ EndJob(yes)

Spec == Init /\ [][Next]_vars

-----------------------------------------------------------------------------
TypeOK ==
    /\ row \in [Accounts -> Row]
    /\ nextId \in 1..(MaxIds + 1) /\ sessions \cup acting \subseteq Ids
    /\ signing \in [Accounts -> {0} \cup Ids]
    /\ trail \in [Ids -> 0..MaxEvents]
    /\ job.kind \in {"none", "forget", "retention"} /\ job.todo \subseteq Accounts
    /\ sessions \subseteq {row[a].id : a \in Accounts}

\* A forgotten person is gone for good: no account or session has the id the
\* audit trail names, whatever sign-in was under way, and the events said to
\* be kept are kept; and retention takes nobody who has just signed in
\* (privacy.py:68-96, 179-196).
ForgottenIsGone ==
    /\ \A f \in forgotten :
        /\ \A a \in Accounts : f.id \notin {row[a].id, signing[a]}
        /\ f.id \notin sessions
        /\ f.kept <= trail[f.id]
    /\ \A r \in retired : r.old
=============================================================================
