------------------------------- MODULE SignIn -------------------------------
(***************************************************************************)
(* Signing in (app/routes/auth.py, app/sessions.py): overlapping callbacks *)
(* of the identity provider, the memberships each replaces from its        *)
(* claims, and the sessions they open, end and revoke.                     *)
(*                                                                         *)
(* A callback uses up its login state in a transaction of its own, talks   *)
(* to the provider with none open, and then signs in within one            *)
(* transaction, statement by statement.  A statement sees what others have *)
(* committed and waits for a row or unique key that another open           *)
(* transaction has written (READ COMMITTED); what its own transaction has  *)
(* written so far is in the callback's record until it commits.            *)
(*                                                                         *)
(* Abstractions: a session token is the callback that minted it; PKCE,     *)
(* nonce and signature checks are the provider's side of Exchange; a       *)
(* team's role is held or not; a sweep takes its expired rows at once.     *)
(***************************************************************************)
EXTENDS Naturals, FiniteSetsExt, Sequences, Functions

CONSTANTS
    Users,      \* (issuer, subject) pairs
    Teams,      \* team slugs
    Browsers,
    States,     \* values of the state parameter: bounds GET /auth/login
    Callbacks,  \* GET /auth/callback requests: bounds the sign-ins
    First,      \* the one whose sign-in has ended when the others begin
    Nothing,    \* no session, no user, no state
    MaxChanges  \* bound: changes of groups at the provider

ASSUME NothingIsNew == Nothing \notin Callbacks \cup Users \cup States
ASSUME FirstIsACallback == First \in Callbacks
ASSUME MaxChangesType == MaxChanges \in Nat
ASSUME TeamsAreFinite == IsFiniteSet(Teams)

\* The groups claim: the team slugs in the order it lists them, the org
\* admin's group, and the number of the provider's change it dates from.
SlugLists == {s \in UNION {[1..n -> Teams] : n \in 0..Cardinality(Teams)} :
                IsInjective(s)}
Claims == [v: 0..MaxChanges, org: BOOLEAN, slugs: SlugLists]
NoClaims == [v |-> 0, org |-> FALSE, slugs |-> <<>>]

VARIABLES
    groups,     \* what the provider would claim of each user now
    pending,    \* rows of login_requests
    asked,      \* the state in each browser's login cookie
    cb,         \* what each callback is doing, has read and has written
    org,        \* users.is_org_admin
    member,     \* the teams of each user's memberships
    teams,      \* rows of teams
    sessions,   \* rows of sessions
    cookie,     \* the session cookie each browser holds
    outdated    \* history: callbacks whose claims a change and then a revoke
                \* have overtaken

vars == <<groups, pending, asked, cb, org, member, teams, sessions, cookie,
          outdated>>
browser == <<asked, cookie>>
database == <<pending, org, member, teams, sessions>>

Session == [id: Callbacks, user: Users, expired: BOOLEAN]

\* "new", then with no transaction open "exchanging" and "verified", then
\* within one transaction the stages of InTransaction.
InTransaction == {"signed out", "user written", "members replaced"}
Ended == {"done", "failed"}
Stages == {"new", "exchanging", "verified"} \cup InTransaction \cup Ended

Callback == [stage: Stages, browser: Browsers \cup {Nothing},
             state: States \cup {Nothing}, old: Callbacks \cup {Nothing},
             user: Users \cup {Nothing}, claims: Claims,
             todo: SlugLists, created: SUBSET Teams,
             deleted: SUBSET Teams, ended: SUBSET Callbacks]
NewCallback == [stage |-> "new", browser |-> Nothing, state |-> Nothing,
                old |-> Nothing, user |-> Nothing, claims |-> NoClaims,
                todo |-> <<>>, created |-> {}, deleted |-> {}, ended |-> {}]

\* One browser is signed in, as any user, and nothing else has happened.
Init ==
    /\ groups \in [Users -> {[NoClaims EXCEPT !.slugs = s] : s \in SlugLists}]
    /\ \E u \in Users, b \in Browsers :
         /\ cb = [c \in Callbacks |->
                    IF c = First
                      THEN [NewCallback EXCEPT !.stage = "done", !.browser = b,
                              !.user = u, !.claims = groups[u]]
                      ELSE NewCallback]
         /\ sessions = {[id |-> First, user |-> u, expired |-> FALSE]}
         /\ cookie = [x \in Browsers |-> IF x = b THEN First ELSE Nothing]
         /\ teams = Range(groups[u].slugs)
         /\ member = [x \in Users |-> IF x = u THEN teams ELSE {}]
    /\ org = [u \in Users |-> FALSE]
    /\ pending = {}
    /\ asked = [b \in Browsers |-> Nothing]
    /\ outdated = {}

---------------------------------------------------------------------------
\* What open transactions hold.

\* A failed request rolls back: its `async with` closes the session.
Open(c) == cb[c].stage \in InTransaction

NobodyHolds(c, x) == FALSE \* a mutant: the write is not held to the commit
HoldsSession(c, s) == Open(c) /\ s \in cb[c].ended
HoldsUser(c, u) == Open(c) /\ cb[c].stage # "signed out" /\ cb[c].user = u
HoldsTeam(c, t) == Open(c) /\ t \in cb[c].created

\* The expired sessions a sweep by c would delete.
Swept(c) == {s.id : s \in {x \in sessions : x.expired}} \ cb[c].ended

\* c's next statement needs a row or key that d has written.
WaitsFor(c, d) ==
    /\ c # d
    /\ \/ cb[c].stage = "verified" /\ HoldsSession(d, cb[c].old)
       \/ cb[c].stage = "signed out" /\ HoldsUser(d, cb[c].user)
       \/ /\ cb[c].stage = "user written" /\ cb[c].todo # <<>>
          /\ HoldsTeam(d, Head(cb[c].todo))
       \/ /\ cb[c].stage = "members replaced"
          /\ \E s \in Swept(c) : HoldsSession(d, s)

Waits(c) == \E d \in Callbacks : WaitsFor(c, d)
Deadlocked(c) ==
    \E S \in SUBSET Callbacks :
        c \in S /\ \A x \in S : /\ \E y \in S : WaitsFor(x, y)
                                /\ \E y \in S : WaitsFor(y, x)

Slugs(c) == Range(cb[c].claims.slugs)
\* SELECT slug, id FROM teams WHERE slug IN roles.
Found(c) == Slugs(c) \cap (teams \cup cb[c].created)

---------------------------------------------------------------------------
\* start_login: login requests that have expired are deleted, this one's
\* inserted.
StartLogin(s) ==
    \E expired \in SUBSET pending : pending' = (pending \ expired) \cup {s}

\* GET /auth/login: the state is stored, and put in the browser's cookie.
Login(b, s) ==
    /\ s \notin pending /\ \A x \in Browsers : asked[x] # s
    /\ \A c \in Callbacks : cb[c].state # s
    /\ StartLogin(s)
    /\ asked' = [asked EXCEPT ![b] = s]
    /\ UNCHANGED <<groups, cb, org, member, teams, sessions, cookie,
                   outdated>>

\* The provider's metadata cannot be had: the login cookie is cleared.
LoginFails(b) ==
    /\ asked' = [asked EXCEPT ![b] = Nothing]
    /\ UNCHANGED <<groups, cb, database, cookie, outdated>>

\* A callback that ended without a session: nothing of it is left but the
\* login request it used up.
WithoutSession(c, b) == [NewCallback EXCEPT !.stage = "failed", !.browser = b,
                                     !.state = cb[c].state]

\* The redirect that ends a sign-in without a session clears the login cookie.
Failed(c, b) ==
    /\ cb' = [cb EXCEPT ![c] = WithoutSession(c, b)]
    /\ asked' = [asked EXCEPT ![b] = Nothing]
    /\ UNCHANGED cookie

\* A mutant: the login request is read and not deleted.
ArriveAgain(c, b, s) ==
    /\ cb[c].stage = "new" /\ asked[b] = s /\ s \in pending
    /\ cb' = [cb EXCEPT ![c] =
                [NewCallback EXCEPT !.stage = "exchanging", !.browser = b,
                                    !.state = s, !.old = cookie[b]]]
    /\ UNCHANGED <<groups, browser, database, outdated>>

\* The callback arrives with the browser's cookies; its state is the login
\* cookie's, and DELETE ... RETURNING and a commit use up the login request,
\* so that one callback gets it.
Arrive(c, b, s) ==
    /\ cb[c].stage = "new" /\ asked[b] = s /\ s \in pending
    /\ pending' = pending \ {s}
    /\ cb' = [cb EXCEPT ![c] =
                [NewCallback EXCEPT !.stage = "exchanging", !.browser = b,
                                    !.state = s, !.old = cookie[b]]]
    /\ UNCHANGED <<groups, browser, org, member, teams, sessions,
                   outdated>>

\* Any other state is refused: not the cookie's, used up already, or (s in
\* pending) ten minutes old.
Refused(c, b) ==
    /\ cb[c].stage = "new"
    /\ Failed(c, b)
    /\ UNCHANGED <<groups, database, outdated>>

\* The provider exchanges the code for a token with the user's groups as
\* they are now, or the exchange or the checks fail.
Exchange(c, u) ==
    /\ cb[c].stage = "exchanging"
    /\ cb' = [cb EXCEPT ![c].stage = "verified", ![c].user = u,
                        ![c].claims = groups[u],
                        ![c].todo = groups[u].slugs]
    /\ UNCHANGED <<groups, database, browser, outdated>>

ExchangeFails(c) ==
    /\ cb[c].stage = "exchanging"
    /\ Failed(c, cb[c].browser)
    /\ UNCHANGED <<groups, database, outdated>>

\* A mutant: the browser's old session is left to expire.
SignOutNothing(c) ==
    /\ cb[c].stage = "verified" /\ ~Waits(c)
    /\ cb' = [cb EXCEPT ![c].stage = "signed out"]
    /\ UNCHANGED <<groups, database, browser, outdated>>

\* A mutant: signing out of the old session commits on its own.
SignOutAtOnce(c) ==
    /\ cb[c].stage = "verified" /\ ~Waits(c)
    /\ cb' = [cb EXCEPT ![c].stage = "signed out"]
    /\ sessions' = {s \in sessions : s.id # cb[c].old}
    /\ UNCHANGED <<groups, pending, org, member, teams, browser, outdated>>

\* sign_out(old): opens the transaction.
SignOutOld(c) ==
    /\ cb[c].stage = "verified" /\ ~Waits(c)
    /\ cb' = [cb EXCEPT ![c].stage = "signed out",
                ![c].ended = {s.id : s \in sessions} \cap {cb[c].old}]
    /\ UNCHANGED <<groups, database, browser, outdated>>

\* INSERT INTO users ... ON CONFLICT DO UPDATE: the row is held to the commit.
WriteUser(c) ==
    /\ cb[c].stage = "signed out" /\ ~Waits(c)
    /\ cb' = [cb EXCEPT ![c].stage = "user written"]
    /\ UNCHANGED <<groups, database, browser, outdated>>

\* A mutant: a row that someone is inserting counts as there, and is not
\* waited for.
InsertTeamOrSkip(c) ==
    /\ cb[c].stage = "user written" /\ cb[c].todo # <<>>
    /\ LET t == Head(cb[c].todo) IN
         cb' = [cb EXCEPT ![c].todo = Tail(@),
                  ![c].created = IF t \in teams \/ \E d \in Callbacks : HoldsTeam(d, t)
                                   THEN @ ELSE @ \cup {t}]
    /\ UNCHANGED <<groups, database, browser, outdated>>

\* One row of INSERT INTO teams ... ON CONFLICT DO NOTHING.
InsertTeam(c) ==
    /\ cb[c].stage = "user written" /\ cb[c].todo # <<>> /\ ~Waits(c)
    /\ cb' = [cb EXCEPT ![c].todo = Tail(@),
                        ![c].created = @ \cup ({Head(cb[c].todo)} \ teams)]
    /\ UNCHANGED <<groups, database, browser, outdated>>

\* A mutant: memberships the claims no longer name are kept.
ReplaceMembersKeepingOld(c) ==
    /\ cb[c].stage = "user written" /\ cb[c].todo = <<>>
    /\ cb' = [cb EXCEPT ![c].stage = "members replaced"]
    /\ UNCHANGED <<groups, database, browser, outdated>>

\* The team ids are read, and the memberships replaced: those of other teams
\* that are committed by now are deleted, the rest upserted from the ids.  A
\* slug that was not found has no id, and looking it up raises.
ReplaceMembers(c) ==
    /\ cb[c].stage = "user written" /\ cb[c].todo = <<>>
    /\ cb' = [cb EXCEPT ![c] =
                IF Slugs(c) = Found(c)
                  THEN [@ EXCEPT !.stage = "members replaced",
                                 !.deleted = member[cb[c].user] \ Found(c)]
                  ELSE WithoutSession(c, cb[c].browser)]
    /\ UNCHANGED <<groups, database, browser, outdated>>

\* Expired sessions are swept, the new one inserted, and all of it commits;
\* the answer replaces the browser's session cookie.
Commit(c) ==
    /\ cb[c].stage = "members replaced" /\ ~Waits(c)
    /\ LET u == cb[c].user IN
         /\ org' = [org EXCEPT ![u] = cb[c].claims.org]
         /\ member' = [member EXCEPT ![u] = (@ \ cb[c].deleted) \cup Slugs(c)]
         /\ sessions' = {s \in sessions : s.id \notin cb[c].ended \cup Swept(c)}
                          \cup {[id |-> c, user |-> u, expired |-> FALSE]}
    /\ teams' = teams \cup cb[c].created
    /\ asked' = [asked EXCEPT ![cb[c].browser] = Nothing]
    /\ cookie' = [cookie EXCEPT ![cb[c].browser] = c]
    /\ cb' = [cb EXCEPT ![c].stage = "done", ![c].created = {},
                        ![c].deleted = {}, ![c].ended = {}]
    /\ UNCHANGED <<groups, pending, outdated>>

\* A statement fails, or Postgres ends one transaction of a deadlock: rolled
\* back, answered with a 500 that changes no cookie.
RolledBack(c) ==
    /\ cb' = [cb EXCEPT ![c] = WithoutSession(c, cb[c].browser)]
    /\ UNCHANGED <<groups, database, browser, outdated>>

StatementFails(c) == Open(c) /\ RolledBack(c)
DeadlockDetected(c) == Open(c) /\ Deadlocked(c) /\ RolledBack(c)

---------------------------------------------------------------------------
\* POST /auth/logout, one statement and a commit.
Logout(b) ==
    /\ cookie[b] # Nothing
    /\ \A d \in Callbacks : ~HoldsSession(d, cookie[b])
    /\ sessions' = {s \in sessions : s.id # cookie[b]}
    /\ cookie' = [cookie EXCEPT ![b] = Nothing]
    /\ UNCHANGED <<groups, pending, asked, cb, org, member, teams,
                   outdated>>

\* `make revoke`: every session of a user, in one statement and a commit.
Revoke(u) ==
    /\ \A s \in sessions : s.user = u =>
         \A d \in Callbacks : ~HoldsSession(d, s.id)
    /\ sessions' = {s \in sessions : s.user # u}
    /\ outdated' = outdated \cup
         {c \in Callbacks : /\ cb[c].user = u /\ cb[c].claims.v < groups[u].v
                            /\ cb[c].stage # "done"}
    /\ UNCHANGED <<groups, pending, browser, cb, org, member, teams>>

SessionExpires(s) ==
    /\ s \in sessions /\ ~s.expired
    /\ sessions' = (sessions \ {s}) \cup {[s EXCEPT !.expired = TRUE]}
    /\ UNCHANGED <<groups, pending, browser, cb, org, member, teams, outdated>>

\* A user's groups change at the identity provider: the teams, or org:admin.
changes == Max({groups[u].v : u \in Users})
Regroup(u, claims) ==
    /\ changes < MaxChanges
    /\ groups' = [groups EXCEPT ![u] = [claims EXCEPT !.v = changes + 1]]
    /\ UNCHANGED <<database, cb, browser, outdated>>
RegroupTeams(u, s) == Regroup(u, [groups[u] EXCEPT !.slugs = s])
RegroupOrg(u) == Regroup(u, [groups[u] EXCEPT !.org = ~@])

Steps(c) ==
    \/ SignOutOld(c) \/ WriteUser(c) \/ InsertTeam(c) \/ ReplaceMembers(c)
    \/ Commit(c)
Answers(c) == ExchangeFails(c) \/ \E u \in Users : Exchange(c, u)

Next ==
    \/ \E c \in Callbacks : Steps(c) \/ Answers(c) \/ StatementFails(c)
                              \/ DeadlockDetected(c)
    \/ \E c \in Callbacks, b \in Browsers :
         Refused(c, b) \/ \E s \in States : Arrive(c, b, s)
    \/ \E b \in Browsers, s \in States : Login(b, s)
    \/ \E b \in Browsers : Logout(b) \/ LoginFails(b)
    \/ \E u \in Users : Revoke(u)
    \/ \E s \in sessions : SessionExpires(s)
    \/ \E u \in Users : RegroupOrg(u) \/ \E s \in SlugLists : RegroupTeams(u, s)

Spec == Init /\ [][Next]_vars

---------------------------------------------------------------------------
\* Properties.

\* Every value has its type, a session is one its callback committed, and a
\* team's key is being inserted by one open transaction at most.
TypeOK ==
    /\ groups \in [Users -> Claims]
    /\ pending \subseteq States /\ teams \subseteq Teams
    /\ asked \in [Browsers -> States \cup {Nothing}]
    /\ cookie \in [Browsers -> Callbacks \cup {Nothing}]
    /\ cb \in [Callbacks -> Callback]
    /\ org \in [Users -> BOOLEAN]
    /\ member \in [Users -> SUBSET Teams]
    /\ sessions \subseteq Session
    /\ \A s \in sessions : cb[s.id].stage = "done" /\ cb[s.id].user = s.user
    /\ \A c, d \in Callbacks : c # d => cb[c].created \cap cb[d].created = {}
    /\ outdated \subseteq Callbacks

\* However sign-ins of one user overlap, the memberships and the org admin
\* flag in the database are together those of the claims of one of them,
\* never the union of two or a mixture (sessions.py:167-168).
AccessIsOneSignIns ==
    \A u \in Users :
        \/ member[u] = {} /\ ~org[u]
        \/ \E c \in Callbacks :
             /\ cb[c].stage = "done" /\ cb[c].user = u
             /\ member[u] = Slugs(c) /\ org[u] = cb[c].claims.org

\* A login request goes to the provider for one callback, however often the
\* browser sends it (sessions.py:119-120, "removed so it can be used only
\* once").
StateIsUsedOnce ==
    \A c, d \in Callbacks :
        cb[c].state = cb[d].state /\ cb[c].state # Nothing => c = d

\* Once a browser has signed in again, the session it sent no longer exists
\* (routes/auth.py:140-141), whatever other tabs did meanwhile.
OldSessionIsEnded ==
    \A c \in Callbacks : cb[c].stage = "done" =>
        \A s \in sessions : s.id # cb[c].old

\* A sign-in ends another session only by its own commit, and then the one its
\* browser sent, or expired ones: a statement that fails, a deadlock that
\* Postgres ends or a refusal leaves the browser signed in as it was, whatever
\* had been signed out of by then (routes/auth.py:140-145).
OnlyAFinishedSignInEndsSessions ==
    [][\A c \in Callbacks : cb'[c] # cb[c] =>
         \A s \in sessions : s.id \notin {x.id : x \in sessions'} =>
            s.expired \/ (cb'[c].stage = "done" /\ s.id = cb[c].old)]_vars

\* When the team ids are read, every slug of the claims has a row the
\* transaction sees, although the one that inserted it may have been another
\* sign-in's, open a moment ago: no sign-in stops at a slug without an id
\* (sessions.py:160-166, 177-178).
EverySlugHasATeam ==
    \A c \in Callbacks :
        cb[c].stage = "user written" /\ cb[c].todo = <<>> => Slugs(c) = Found(c)

\* Sign-ins of one user (two tabs) queue on the user's row, and never wait
\* for each other in a circle over teams or memberships, in whatever order
\* their claims list the teams: a circle of one user's needs an expired
\* session that one of them signed out of and another is sweeping.
OneUsersSignInsDoNotCollide ==
    \A S \in (SUBSET Callbacks) \ {{}} :
        /\ \A x \in S : \E y \in S : WaitsFor(x, y)
        /\ \A x, y \in S : cb[x].user = cb[y].user
        => \E x \in S : cb[x].stage = "members replaced"

\* cli.py:13-14 of `make revoke`: "Role changes in the identity provider apply
\* at the next sign-in; this makes them immediate."  Whoever holds a session
\* after the revoke has the access of claims no older than it.
RevokeMakesChangesImmediate ==
    \A s \in sessions : s.id \notin outdated
=============================================================================
