---------------------------- MODULE SignInProofs ----------------------------
(***************************************************************************)
(* Proofs about SignIn, for every set of users, teams, browsers, states    *)
(* and callbacks.                                                          *)
(*                                                                         *)
(* The inductive invariant rests on three locks of the sign-in's one       *)
(* transaction: the user's row, so that two sign-ins of one user replace   *)
(* its memberships one after the other (UserRowIsHeld, DeletedIsTheRest);  *)
(* the key of a team being inserted, so that a slug is either a committed  *)
(* team or one's own (TodoCoversSlugs); and on the fact that a session id  *)
(* is given to a browser only after its sign-in has committed, so that a   *)
(* session once ended never comes back (OldIsDone, OldIsEnded).  What a    *)
(* sign-in is about to end is the session it was sent (EndedIsOld).        *)
(***************************************************************************)
EXTENDS SignIn, TLAPS, FiniteSetTheorems, SequenceTheorems

\* The stages at which a sign-in has written, and holds, its user's row.
RowHeld == {"user written", "members replaced"}

UserIsKnown ==
    \A c \in Callbacks :
        cb[c].stage \in {"verified", "done"} \cup InTransaction =>
            cb[c].user \in Users

\* A state that a callback has carries no login request any more.
StateIsUsedUp == \A c \in Callbacks : cb[c].state \notin pending

UserRowIsHeld ==
    \A c, d \in Callbacks :
        /\ cb[c].stage \in RowHeld /\ cb[d].stage \in RowHeld
        /\ cb[c].user = cb[d].user
        => c = d

OnlyHoldersCreate ==
    \A c \in Callbacks : cb[c].created # {} => cb[c].stage \in RowHeld

\* What a sign-in is about to delete is still what its claims do not name.
DeletedIsTheRest ==
    \A c \in Callbacks : cb[c].stage = "members replaced" =>
        cb[c].deleted = member[cb[c].user] \ Slugs(c)

TodoCoversSlugs ==
    \A c \in Callbacks :
        cb[c].stage \in {"verified", "signed out", "user written"} =>
            Slugs(c) \subseteq Range(cb[c].todo) \cup teams \cup cb[c].created

CookieIsDone ==
    \A b \in Browsers : cookie[b] # Nothing => cb[cookie[b]].stage = "done"

OldIsDone ==
    \A c \in Callbacks : cb[c].old # Nothing =>
        cb[c].old # c /\ cb[cb[c].old].stage = "done"

OldIsEnded ==
    \A c \in Callbacks : Open(c) =>
        \A s \in sessions : s.id = cb[c].old => s.id \in cb[c].ended

SessionIdsAreUnique == \A s, x \in sessions : s.id = x.id => s = x

EndedIsOld == \A c \in Callbacks : Open(c) => cb[c].ended \subseteq {cb[c].old}

IInv ==
    /\ TypeOK
    /\ UserIsKnown /\ StateIsUsedUp /\ StateIsUsedOnce
    /\ UserRowIsHeld /\ OnlyHoldersCreate
    /\ DeletedIsTheRest /\ TodoCoversSlugs /\ AccessIsOneSignIns
    /\ CookieIsDone /\ OldIsDone /\ OldIsEnded /\ OldSessionIsEnded
    /\ EndedIsOld /\ SessionIdsAreUnique

-----------------------------------------------------------------------------
(* Facts about the operators.                                              *)

\* A bounded set of numbers that is not empty has its maximum in it.
LEMMA BoundedMax ==
    ASSUME NEW S, S \subseteq Nat, S # {}, NEW B \in Nat, \A x \in S : x <= B
    PROVE  Max(S) \in S
<1> DEFINE T == {B - x : x \in S}
<1>1. T \subseteq Nat /\ T # {}
  <2>1. \A x \in S : B - x \in Nat
    OBVIOUS
  <2>. QED BY <2>1
<1>2. PICK m \in T : \A y \in T : <<y, m>> \notin OpToRel(<, Nat)
  BY ONLY <1>1, NatLessThanWellFounded, WFMin, Zenon
<1>3. \A y \in T : ~(y < m)
  BY <1>1, <1>2 DEF OpToRel
<1>4. PICK x \in S : m = B - x
  OBVIOUS
<1>5. \A y \in S : x >= y
  <2> SUFFICES ASSUME NEW y \in S PROVE x >= y
    OBVIOUS
  <2>1. ~(B - y < B - x) BY <1>3, <1>4
  <2>2. x \in Nat /\ y \in Nat OBVIOUS
  <2>. QED  BY <2>1, <2>2
<1>. QED  BY <1>5 DEF Max

\* What is left of an injective list is one, and the list is its head and that.
LEMMA InjectiveTail ==
   ASSUME NEW T, NEW n \in Nat \ {0}, NEW s \in [1..n -> T], IsInjective(s)
   PROVE /\ Head(s) \in T
         /\ Tail(s) \in [1..(n-1) -> T] /\ IsInjective(Tail(s))
         /\ Range(s) = {Head(s)} \cup Range(Tail(s))
<1>1. s \in Seq(T) /\ Len(s) = n /\ DOMAIN s = 1..n
  OBVIOUS
<1>2. s # <<>>
  BY <1>1
<1>3. /\ Tail(s) \in [1..(n-1) -> T] /\ Head(s) \in T
      /\ \A i \in 1..(n-1) : Tail(s)[i] = s[i+1]
  BY <1>1, <1>2, HeadTailProperties, LenProperties
<1>4. IsInjective(Tail(s))
  BY <1>3 DEF IsInjective
<1>5. Range(s) = {Head(s)} \cup Range(Tail(s))
  <2>1. Head(s) = s[1]
    BY <1>1
  <2>2. ASSUME NEW x \in Range(s) PROVE x \in {Head(s)} \cup Range(Tail(s))
    <3>1. PICK i \in 1..n : x = s[i] BY DEF Range
    <3>2. CASE i = 1 BY <2>1, <3>1, <3>2
    <3>3. CASE i # 1 
      <4>1. i-1 \in 1..(n-1) /\ Tail(s)[i-1] = x BY <1>3, <3>1, <3>3
      <4>. QED BY <4>1, <1>3 DEF Range
    <3>. QED BY <3>2, <3>3
  <2>3. ASSUME NEW x \in Range(Tail(s)) PROVE x \in Range(s)
    <3>1. PICK i \in 1..(n-1) : x = s[i+1] BY <1>3 DEF Range
    <3>2. i+1 \in 1..n OBVIOUS
    <3>. QED BY <3>1, <3>2 DEF Range
  <2>4. Head(s) \in Range(s) BY <2>1 DEF Range
  <2>. QED BY <2>2, <2>3, <2>4
<1>. QED BY <1>1, <1>3, <1>4, <1>5

LEMMA NoSlugs == <<>> \in SlugLists /\ Range(<<>>) = {}
<1>1. Cardinality(Teams) \in Nat
  BY TeamsAreFinite, FS_CardinalityType
<1>2. <<>> \in [1..0 -> Teams] /\ IsInjective(<<>>) /\ DOMAIN <<>> = {}
  BY DEF IsInjective
<1>3. <<>> \in SlugLists
  BY <1>1, <1>2 DEF SlugLists
<1>. QED  BY <1>2, <1>3 DEF Range

LEMMA SlugsAreTeams ==
    ASSUME NEW s \in SlugLists
    PROVE  Range(s) \subseteq Teams
<1>1. PICK n \in 0..Cardinality(Teams) : s \in [1..n -> Teams]
  BY DEF SlugLists
<1>. QED  BY <1>1 DEF Range

LEMMA SlugListTail ==
    ASSUME NEW s \in SlugLists, s # <<>>
    PROVE  /\ Head(s) \in Teams /\ Tail(s) \in SlugLists
           /\ Range(s) = {Head(s)} \cup Range(Tail(s))
<1>1. Cardinality(Teams) \in Nat
  BY TeamsAreFinite, FS_CardinalityType
<1>2. PICK n \in 0..Cardinality(Teams) : s \in [1..n -> Teams]
  BY DEF SlugLists
<1>3. IsInjective(s) /\ n \in Nat
  BY <1>1 DEF SlugLists
<1>4. n # 0
  BY <1>2
<1>5. /\ Head(s) \in Teams
      /\ Tail(s) \in [1..(n - 1) -> Teams] /\ IsInjective(Tail(s))
      /\ Range(s) = {Head(s)} \cup Range(Tail(s))
  BY <1>2, <1>3, <1>4, InjectiveTail
<1>6. n - 1 \in 0..Cardinality(Teams)
  BY <1>1, <1>2, <1>4
<1>. QED  BY <1>5, <1>6 DEF SlugLists

LEMMA NewCallbackType == NewCallback \in Callback
  BY NoSlugs, MaxChangesType
     DEF NewCallback, Callback, NoClaims, Claims, Stages

\* The number of the provider's last change is one of those it can have.
LEMMA ChangesType ==
    ASSUME TypeOK, NEW u \in Users
    PROVE  changes \in 0..MaxChanges
<1> DEFINE S == {groups[x].v : x \in Users}
<1>1. S \subseteq 0..MaxChanges /\ S # {}
  BY DEF TypeOK, Claims
<1>2. S \subseteq Nat /\ \A x \in S : x <= MaxChanges
  BY <1>1, MaxChangesType
<1>3. Max(S) \in S
  <2> HIDE DEF S
  <2>. QED  BY <1>1, <1>2, MaxChangesType, BoundedMax
<1>. QED  BY <1>1, <1>3 DEF changes

\* What replacing one callback's record does to the others: nothing.
LEMMA RecordUpdate ==
    ASSUME cb \in [Callbacks -> Callback], NEW c \in Callbacks,
           NEW r \in Callback, cb' = [cb EXCEPT ![c] = r]
    PROVE  /\ cb' \in [Callbacks -> Callback]
           /\ cb'[c] = r
           /\ \A d \in Callbacks : d # c => cb'[d] = cb[d]
  OBVIOUS

-----------------------------------------------------------------------------
(* Each action preserves the invariant.                                    *)

LEMMA InitIInv == Init => IInv
<1> SUFFICES ASSUME Init PROVE IInv
  OBVIOUS
<1>1. PICK u \in Users, b \in Browsers :
         /\ cb = [c \in Callbacks |->
                    IF c = First
                      THEN [NewCallback EXCEPT !.stage = "done", !.browser = b,
                              !.user = u, !.claims = groups[u]]
                      ELSE NewCallback]
         /\ sessions = {[id |-> First, user |-> u, expired |-> FALSE]}
         /\ cookie = [x \in Browsers |-> IF x = b THEN First ELSE Nothing]
         /\ teams = Range(groups[u].slugs)
         /\ member = [x \in Users |-> IF x = u THEN teams ELSE {}]
  BY DEF Init
<1>2. /\ org = [x \in Users |-> FALSE] /\ pending = {} /\ outdated = {}
      /\ asked = [x \in Browsers |-> Nothing]
  BY DEF Init
<1>3. groups \in [Users -> Claims] /\ groups[u].slugs \in SlugLists
      /\ groups[u].org = FALSE
  <2>1. \A s \in SlugLists : [NoClaims EXCEPT !.slugs = s] \in Claims
    <3>1. NoClaims \in Claims
      BY MaxChangesType, NoSlugs DEF NoClaims, Claims
    <3>. QED  BY <3>1 DEF Claims
  <2>2. \A x \in Users : \E s \in SlugLists :
           groups[x] = [NoClaims EXCEPT !.slugs = s]
    BY DEF Init
  <2>3. groups \in [Users -> {[NoClaims EXCEPT !.slugs = s] : s \in SlugLists}]
    BY DEF Init
  <2>4. groups \in [Users -> Claims]
    BY <2>1, <2>3
  <2>. QED  BY <2>2, <2>4 DEF NoClaims
<1>4. /\ cb \in [Callbacks -> Callback]
      /\ cb[First].stage = "done" /\ cb[First].user = u
      /\ cb[First].claims = groups[u]
      /\ \A c \in Callbacks :
            /\ cb[c].stage \in {"new", "done"}
            /\ cb[c].state = Nothing /\ cb[c].old = Nothing
            /\ cb[c].created = {}
            /\ c # First => cb[c].stage = "new"
  <2> DEFINE first == [NewCallback EXCEPT !.stage = "done", !.browser = b,
                              !.user = u, !.claims = groups[u]]
  <2>1. /\ first \in Callback /\ first.stage = "done" /\ first.user = u
        /\ first.claims = groups[u] /\ first.state = Nothing
        /\ first.old = Nothing /\ first.created = {}
    BY <1>3, NewCallbackType DEF NewCallback, Callback, Stages, Ended
  <2>2. /\ NewCallback.stage = "new" /\ NewCallback.state = Nothing
        /\ NewCallback.old = Nothing /\ NewCallback.created = {}
    BY DEF NewCallback
  <2>3. \A c \in Callbacks : cb[c] = IF c = First THEN first ELSE NewCallback
    BY <1>1
  <2>4. cb \in [Callbacks -> Callback]
    BY <1>1, <2>1, NewCallbackType
  <2> HIDE DEF first
  <2>. QED  BY <2>1, <2>2, <2>3, <2>4, FirstIsACallback
<1>5. teams \subseteq Teams
  BY <1>1, <1>3, SlugsAreTeams
<1>6. TypeOK
  <2>1. member \in [Users -> SUBSET Teams]
    BY <1>1, <1>5
  <2>2. sessions \subseteq Session
    BY <1>1, FirstIsACallback DEF Session
  <2>3. cookie \in [Browsers -> Callbacks \cup {Nothing}]
    BY <1>1, FirstIsACallback
  <2>4. \A s \in sessions : cb[s.id].stage = "done" /\ cb[s.id].user = s.user
    BY <1>1, <1>4
  <2>. QED
    BY <1>2, <1>3, <1>4, <1>5, <2>1, <2>2, <2>3, <2>4 DEF TypeOK
<1>7. UserIsKnown
  <2>1. \A c \in Callbacks : c # First => cb[c].stage = "new"
    BY <1>4
  <2>. QED  BY <1>4, <2>1 DEF UserIsKnown, InTransaction
<1>8. StateIsUsedUp /\ StateIsUsedOnce
  BY <1>2, <1>4 DEF StateIsUsedUp, StateIsUsedOnce
<1>9. UserRowIsHeld /\ OnlyHoldersCreate /\ DeletedIsTheRest
      /\ TodoCoversSlugs /\ OldIsEnded /\ EndedIsOld
  BY <1>4 DEF UserRowIsHeld, OnlyHoldersCreate, DeletedIsTheRest,
              TodoCoversSlugs, OldIsEnded, EndedIsOld, Open, RowHeld,
              InTransaction
<1>10. AccessIsOneSignIns
  <2>1. member[u] = Slugs(First) /\ org[u] = cb[First].claims.org
    BY <1>1, <1>2, <1>3, <1>4 DEF Slugs
  <2>2. \A x \in Users : x # u => member[x] = {} /\ ~org[x]
    BY <1>1, <1>2
  <2>. QED
    BY <1>4, <2>1, <2>2, FirstIsACallback DEF AccessIsOneSignIns
<1>11. CookieIsDone /\ OldIsDone
  BY <1>1, <1>4 DEF CookieIsDone, OldIsDone
<1>12. OldSessionIsEnded /\ SessionIdsAreUnique
  BY <1>1, <1>4, NothingIsNew, FirstIsACallback
     DEF OldSessionIsEnded, SessionIdsAreUnique
<1>. QED
  BY <1>6, <1>7, <1>8, <1>9, <1>10, <1>11, <1>12 DEF IInv

\* What happens outside the sign-ins - at the provider, at logout, at a
\* revoke, with time, and when a login is started - ends sessions and
\* forgets cookies, and makes no session, state or team.
LEMMA OutsideIInv ==
    ASSUME IInv,
           groups' \in [Users -> Claims],
           asked' \in [Browsers -> States \cup {Nothing}],
           cookie' \in [Browsers -> Callbacks \cup {Nothing}],
           \A b \in Browsers : cookie'[b] \in {cookie[b], Nothing},
           pending' \subseteq States,
           \A c \in Callbacks : cb[c].state \notin pending',
           sessions' \subseteq Session,
           \A s \in sessions' : \E o \in sessions :
              s.id = o.id /\ s.user = o.user,
           SessionIdsAreUnique',
           outdated' \subseteq Callbacks,
           UNCHANGED <<cb, org, member, teams>>
    PROVE  IInv'
<1> USE DEF IInv
<1>1. TypeOK'
  BY DEF TypeOK
<1>2. UserIsKnown' /\ StateIsUsedUp' /\ StateIsUsedOnce'
  BY DEF UserIsKnown, StateIsUsedUp, StateIsUsedOnce
<1>3. UserRowIsHeld' /\ OnlyHoldersCreate' /\ DeletedIsTheRest'
  BY DEF UserRowIsHeld, OnlyHoldersCreate, DeletedIsTheRest, Slugs
<1>4. TodoCoversSlugs' /\ AccessIsOneSignIns'
  BY DEF TodoCoversSlugs, AccessIsOneSignIns, Slugs
<1>5. CookieIsDone' /\ OldIsDone'
  BY DEF CookieIsDone, OldIsDone
<1>6. OldIsEnded' /\ OldSessionIsEnded' /\ EndedIsOld'
  BY DEF OldIsEnded, OldSessionIsEnded, EndedIsOld, Open
<1>. QED  BY <1>1, <1>2, <1>3, <1>4, <1>5, <1>6

LEMMA LoginIInv ==
    ASSUME IInv, NEW b \in Browsers, NEW s \in States, Login(b, s)
    PROVE  IInv'
<1>1. /\ pending' \subseteq pending \cup {s}
      /\ \A c \in Callbacks : cb[c].state # s
      /\ asked' = [asked EXCEPT ![b] = s]
      /\ UNCHANGED <<groups, cb, org, member, teams, sessions, cookie,
                     outdated>>
  BY DEF Login, StartLogin
<1>2. \A c \in Callbacks : cb[c].state \notin pending'
  BY <1>1 DEF IInv, StateIsUsedUp
<1>. QED  BY <1>1, <1>2, OutsideIInv DEF IInv, TypeOK, SessionIdsAreUnique

LEMMA LoginFailsIInv ==
    ASSUME IInv, NEW b \in Browsers, LoginFails(b)
    PROVE  IInv'
<1>1. /\ asked' = [asked EXCEPT ![b] = Nothing]
      /\ UNCHANGED <<groups, cb, pending, org, member, teams, sessions,
                     cookie, outdated>>
  BY DEF LoginFails, database
<1>. QED  BY <1>1, OutsideIInv
     DEF IInv, TypeOK, StateIsUsedUp, SessionIdsAreUnique

LEMMA LogoutIInv ==
    ASSUME IInv, NEW b \in Browsers, Logout(b)
    PROVE  IInv'
<1>1. /\ sessions' \subseteq sessions
      /\ cookie' = [cookie EXCEPT ![b] = Nothing]
      /\ UNCHANGED <<groups, pending, asked, cb, org, member, teams,
                     outdated>>
  BY DEF Logout
<1>. QED  BY <1>1, OutsideIInv
     DEF IInv, TypeOK, StateIsUsedUp, SessionIdsAreUnique

LEMMA RevokeIInv ==
    ASSUME IInv, NEW u \in Users, Revoke(u)
    PROVE  IInv'
<1>1. /\ sessions' \subseteq sessions
      /\ outdated' \subseteq outdated \cup Callbacks
      /\ UNCHANGED <<groups, pending, browser, cb, org, member, teams>>
  BY DEF Revoke
<1>. QED  BY <1>1, OutsideIInv
     DEF IInv, TypeOK, StateIsUsedUp, SessionIdsAreUnique, browser

LEMMA SessionExpiresIInv ==
    ASSUME IInv, NEW s \in sessions, SessionExpires(s)
    PROVE  IInv'
<1> DEFINE e == [s EXCEPT !.expired = TRUE]
<1>1. /\ sessions' = (sessions \ {s}) \cup {e}
      /\ UNCHANGED <<groups, pending, browser, cb, org, member, teams,
                     outdated>>
  BY DEF SessionExpires
<1>2. s \in Session /\ e \in Session /\ e.id = s.id /\ e.user = s.user
  BY DEF IInv, TypeOK, Session
<1>3. sessions' \subseteq Session
  BY <1>1, <1>2 DEF IInv, TypeOK
<1>4. \A x \in sessions' : \E o \in sessions : x.id = o.id /\ x.user = o.user
  BY <1>1, <1>2
<1>5. SessionIdsAreUnique'
  BY <1>1, <1>2 DEF IInv, SessionIdsAreUnique
<1>. QED
  BY <1>1, <1>3, <1>4, <1>5, OutsideIInv
     DEF IInv, TypeOK, StateIsUsedUp, SessionIdsAreUnique, browser

LEMMA RegroupIInv ==
    ASSUME IInv, NEW u \in Users, NEW claims \in Claims, Regroup(u, claims)
    PROVE  IInv'
<1>1. changes \in Nat /\ changes + 1 \in 0..MaxChanges
  BY ChangesType, MaxChangesType DEF IInv, Regroup
<1>2. [claims EXCEPT !.v = changes + 1] \in Claims
  BY <1>1 DEF Claims
<1>3. groups' \in [Users -> Claims]
  BY <1>2 DEF Regroup, IInv, TypeOK
<1>. QED
  BY <1>3, OutsideIInv
     DEF Regroup, IInv, TypeOK, StateIsUsedUp, SessionIdsAreUnique, browser,
         database

\* A sign-in that fails leaves its login state used up, and nothing else.
LEMMA FailureIInv ==
    ASSUME IInv, NEW c \in Callbacks, NEW b \in Browsers \cup {Nothing},
           cb[c].stage # "done",
           cb' = [cb EXCEPT ![c] = WithoutSession(c, b)],
           asked' \in [Browsers -> States \cup {Nothing}],
           UNCHANGED <<groups, database, cookie, outdated>>
    PROVE  IInv'
<1> USE DEF IInv, database
<1> DEFINE r == WithoutSession(c, b)
<1>1. /\ r \in Callback /\ r.stage = "failed" /\ r.state = cb[c].state
      /\ r.old = Nothing /\ r.created = {}
  <2>1. cb[c].state \in States \cup {Nothing}
    BY DEF TypeOK, Callback
  <2>. QED
    BY <2>1, NewCallbackType
       DEF WithoutSession, Callback, NewCallback, Stages, Ended
<1>2. /\ cb' \in [Callbacks -> Callback] /\ cb'[c] = r
      /\ \A d \in Callbacks : d # c => cb'[d] = cb[d]
  <2> HIDE DEF r
  <2>1. cb' = [cb EXCEPT ![c] = r]
    BY DEF r
  <2>. QED  BY <1>1, <2>1, RecordUpdate DEF TypeOK
<1> HIDE DEF r
<1>3. \A d \in Callbacks : cb[d].stage = "done" => cb'[d] = cb[d]
  BY <1>2
<1>4. TypeOK'
  <2>1. \A s \in sessions : s.id \in Callbacks
    BY DEF TypeOK, Session
  <2>. QED  BY <1>1, <1>2, <1>3, <2>1 DEF TypeOK
<1>5. UserIsKnown' /\ StateIsUsedUp' /\ StateIsUsedOnce'
  <2>1. UserIsKnown'
    BY <1>1, <1>2 DEF UserIsKnown, InTransaction
  <2>2. \A d \in Callbacks : cb'[d].state = cb[d].state
    BY <1>1, <1>2
  <2>3. StateIsUsedUp' /\ StateIsUsedOnce'
    BY <2>2 DEF StateIsUsedUp, StateIsUsedOnce
  <2>. QED  BY <2>1, <2>3
<1>6. UserRowIsHeld' /\ OnlyHoldersCreate' /\ DeletedIsTheRest'
  BY <1>1, <1>2
     DEF UserRowIsHeld, OnlyHoldersCreate, DeletedIsTheRest, Slugs, RowHeld
<1>7. TodoCoversSlugs' /\ AccessIsOneSignIns'
  BY <1>1, <1>2, <1>3, ZenonT(40) DEF TodoCoversSlugs, AccessIsOneSignIns, Slugs
<1>8. CookieIsDone' /\ OldIsDone'
  <2>1. \A d \in Callbacks : cb[d].old \in Callbacks \cup {Nothing}
    BY DEF TypeOK, Callback
  <2>. QED
    BY <1>1, <1>2, <1>3, <2>1 DEF CookieIsDone, OldIsDone, TypeOK
<1>9. OldIsEnded' /\ OldSessionIsEnded' /\ EndedIsOld' /\ SessionIdsAreUnique'
  BY <1>1, <1>2
     DEF OldIsEnded, OldSessionIsEnded, EndedIsOld, SessionIdsAreUnique,
         Open, InTransaction
<1>. QED  BY <1>4, <1>5, <1>6, <1>7, <1>8, <1>9

\* The callback that uses up a login request is the only one with its state,
\* and the session it was sent is of a sign-in that has committed.
LEMMA ArriveIInv ==
    ASSUME IInv, NEW c \in Callbacks, NEW b \in Browsers, NEW s \in States,
           Arrive(c, b, s)
    PROVE  IInv'
<1> USE DEF IInv
<1> DEFINE r == [NewCallback EXCEPT !.stage = "exchanging", !.browser = b,
                                    !.state = s, !.old = cookie[b]]
<1>1. /\ cb[c].stage = "new" /\ s \in pending
      /\ pending' = pending \ {s} /\ cb' = [cb EXCEPT ![c] = r]
      /\ UNCHANGED <<groups, asked, cookie, org, member, teams, sessions,
                     outdated>>
  BY DEF Arrive, browser
<1>2. /\ r \in Callback /\ r.stage = "exchanging" /\ r.state = s
      /\ r.old = cookie[b] /\ r.created = {}
  <2>1. cookie[b] \in Callbacks \cup {Nothing}
    BY DEF TypeOK
  <2>. QED
    BY <2>1, NewCallbackType DEF Callback, NewCallback, Stages
<1> HIDE DEF r
<1>3. /\ cb' \in [Callbacks -> Callback] /\ cb'[c] = r
      /\ \A d \in Callbacks : d # c => cb'[d] = cb[d]
  BY <1>1, <1>2, RecordUpdate DEF TypeOK
<1>4. \A d \in Callbacks : cb[d].stage = "done" => cb'[d] = cb[d]
  BY <1>1, <1>3
<1>5. TypeOK'
  <2>1. \A x \in sessions : x.id \in Callbacks
    BY DEF TypeOK, Session
  <2>. QED  BY <1>1, <1>2, <1>3, <1>4, <2>1 DEF TypeOK
<1>6. UserIsKnown'
  BY <1>2, <1>3 DEF UserIsKnown, InTransaction
<1>7. StateIsUsedUp' /\ StateIsUsedOnce'
  <2>1. \A d \in Callbacks : cb[d].state # s
    BY <1>1 DEF StateIsUsedUp
  <2>. QED  BY <1>1, <1>2, <1>3, <2>1 DEF StateIsUsedUp, StateIsUsedOnce
<1>8. UserRowIsHeld' /\ OnlyHoldersCreate' /\ DeletedIsTheRest'
  BY <1>1, <1>2, <1>3
     DEF UserRowIsHeld, OnlyHoldersCreate, DeletedIsTheRest, Slugs, RowHeld
<1>9. TodoCoversSlugs' /\ AccessIsOneSignIns'
  BY <1>1, <1>2, <1>3, <1>4, ZenonT(40)
     DEF TodoCoversSlugs, AccessIsOneSignIns, Slugs
<1>10. CookieIsDone'
  BY <1>1, <1>4 DEF CookieIsDone, TypeOK
<1>11. OldIsDone'
  <2>1. cookie[b] # Nothing => cookie[b] # c /\ cb[cookie[b]].stage = "done"
    BY <1>1 DEF CookieIsDone
  <2>2. \A d \in Callbacks : cb[d].old \in Callbacks \cup {Nothing}
    BY DEF TypeOK, Callback
  <2>3. cookie[b] \in Callbacks \cup {Nothing}
    BY DEF TypeOK
  <2>. QED  BY <1>2, <1>3, <1>4, <2>1, <2>2, <2>3 DEF OldIsDone
<1>12. OldIsEnded' /\ OldSessionIsEnded' /\ EndedIsOld' /\ SessionIdsAreUnique'
  BY <1>1, <1>2, <1>3
     DEF OldIsEnded, OldSessionIsEnded, EndedIsOld, SessionIdsAreUnique,
         Open, InTransaction
<1>. QED
  BY <1>5, <1>6, <1>7, <1>8, <1>9, <1>10, <1>11, <1>12

\* A statement of one sign-in before its commit changes its own record only.
\* What the invariant asks of the record it leaves:
SoundRecord(c, r) ==
    /\ r \in Callback /\ r.user \in Users
    /\ r.stage \in {"verified"} \cup InTransaction
    /\ r.state = cb[c].state /\ r.old = cb[c].old
    /\ r.stage \in RowHeld => \A d \in Callbacks \ {c} :
          cb[d].stage \in RowHeld => cb[d].user # r.user
    /\ r.created # {} => r.stage \in RowHeld
    /\ \A d \in Callbacks \ {c} : r.created \cap cb[d].created = {}
    /\ r.stage = "members replaced" =>
          r.deleted = member[r.user] \ Range(r.claims.slugs)
    /\ r.stage \in {"verified", "signed out", "user written"} =>
          Range(r.claims.slugs) \subseteq Range(r.todo) \cup teams \cup r.created
    /\ r.stage \in InTransaction => \A s \in sessions :
          s.id = r.old => s.id \in r.ended
    /\ r.stage \in InTransaction => r.ended \subseteq {r.old}

LEMMA OwnStepIInv ==
    ASSUME IInv, NEW c \in Callbacks, NEW r,
           cb[c].stage # "done", SoundRecord(c, r),
           cb' = [cb EXCEPT ![c] = r],
           UNCHANGED <<groups, database, browser, outdated>>
    PROVE  IInv'
<1> USE DEF IInv
<1>1. r \in Callback /\ r.stage # "done"
  BY DEF InTransaction, SoundRecord
<1>2. /\ cb' \in [Callbacks -> Callback] /\ cb'[c] = r
      /\ \A d \in Callbacks : d # c => cb'[d] = cb[d]
  BY <1>1, RecordUpdate DEF TypeOK
<1>3. \A d \in Callbacks : cb[d].stage = "done" => cb'[d] = cb[d]
  BY <1>2
<1>4. \A d \in Callbacks : cb'[d].state = cb[d].state /\ cb'[d].old = cb[d].old
  BY <1>2 DEF SoundRecord
<1>5. UNCHANGED <<groups, pending, asked, cookie, org, member, teams,
                  sessions, outdated>>
  BY DEF database, browser
<1>6. TypeOK'
  <2>1. \A x \in sessions : x.id \in Callbacks
    BY DEF TypeOK, Session
  <2>2. \A x, y \in Callbacks : x # y =>
           cb'[x].created \cap cb'[y].created = {}
    BY <1>2 DEF TypeOK, SoundRecord
  <2>. QED  BY <1>2, <1>3, <1>5, <2>1, <2>2 DEF TypeOK
<1>7. UserIsKnown'
  BY <1>2 DEF UserIsKnown, SoundRecord
<1>8. StateIsUsedUp' /\ StateIsUsedOnce'
  BY <1>4, <1>5 DEF StateIsUsedUp, StateIsUsedOnce
<1>9. UserRowIsHeld' /\ OnlyHoldersCreate'
  BY <1>2, ZenonT(40) DEF UserRowIsHeld, OnlyHoldersCreate, SoundRecord
<1>10. DeletedIsTheRest'
  BY <1>2, <1>5 DEF DeletedIsTheRest, Slugs, SoundRecord
<1>11. TodoCoversSlugs'
  BY <1>2, <1>5 DEF TodoCoversSlugs, Slugs, SoundRecord
<1>12. AccessIsOneSignIns'
  BY <1>3, <1>5 DEF AccessIsOneSignIns, Slugs
<1>13. CookieIsDone' /\ OldIsDone'
  <2>1. \A d \in Callbacks : cb[d].old \in Callbacks \cup {Nothing}
    BY DEF TypeOK, Callback
  <2>. QED  BY <1>3, <1>4, <1>5, <2>1 DEF CookieIsDone, OldIsDone, TypeOK
<1>14. OldIsEnded'
  BY <1>2, <1>5 DEF OldIsEnded, Open, SoundRecord
<1>15. OldSessionIsEnded'
  BY <1>1, <1>2, <1>5 DEF OldSessionIsEnded
<1>16. EndedIsOld'
  BY <1>2, ZenonT(40) DEF EndedIsOld, Open, SoundRecord
<1>17. SessionIdsAreUnique'
  BY <1>5 DEF SessionIdsAreUnique
<1>. QED
  BY <1>6, <1>7, <1>8, <1>9, <1>10, <1>11, <1>12, <1>13, <1>14, <1>15,
     <1>16, <1>17

LEMMA ExchangeIInv ==
    ASSUME IInv, NEW c \in Callbacks, NEW u \in Users, Exchange(c, u)
    PROVE  IInv'
<1> DEFINE r == [cb[c] EXCEPT !.stage = "verified", !.user = u,
                              !.claims = groups[u], !.todo = groups[u].slugs]
<1>1. cb[c] \in Callback /\ groups[u] \in Claims
  BY DEF IInv, TypeOK
<1>2. /\ r \in Callback /\ r.stage = "verified" /\ r.user = u
      /\ r.state = cb[c].state /\ r.old = cb[c].old
      /\ r.claims.slugs = r.todo /\ r.created = cb[c].created
  BY <1>1 DEF Callback, Claims, Stages
<1>3. cb[c].stage = "exchanging" /\ r.created = {}
  BY <1>2 DEF Exchange, IInv, OnlyHoldersCreate, RowHeld
<1>4. cb' = [cb EXCEPT ![c] = r]
  BY DEF Exchange, IInv, TypeOK
<1> HIDE DEF r
<1>. QED
  BY <1>2, <1>3, <1>4, OwnStepIInv, ZenonT(40)
     DEF Exchange, SoundRecord, InTransaction, RowHeld

LEMMA SignOutOldIInv ==
    ASSUME IInv, NEW c \in Callbacks, SignOutOld(c)
    PROVE  IInv'
<1> DEFINE ids == {s.id : s \in sessions} \cap {cb[c].old}
           r == [cb[c] EXCEPT !.stage = "signed out", !.ended = ids]
<1>1. cb[c] \in Callback /\ ids \subseteq Callbacks
  BY DEF IInv, TypeOK, Session
<1>2. /\ r \in Callback /\ r.stage = "signed out" /\ r.ended = ids
      /\ r.user = cb[c].user /\ r.state = cb[c].state /\ r.old = cb[c].old
      /\ r.claims = cb[c].claims /\ r.todo = cb[c].todo
      /\ r.created = cb[c].created
  BY <1>1 DEF Callback, Stages, InTransaction
<1>3. cb[c].stage = "verified" /\ r.user \in Users /\ r.created = {}
  BY <1>2 DEF SignOutOld, IInv, UserIsKnown, OnlyHoldersCreate, RowHeld
<1>4. cb' = [cb EXCEPT ![c] = r]
  BY DEF SignOutOld, IInv, TypeOK
<1>5. /\ \A s \in sessions : s.id = r.old => s.id \in r.ended
      /\ r.ended \subseteq {r.old}
  BY <1>2
<1>6. Range(r.claims.slugs) \subseteq Range(r.todo) \cup teams \cup r.created
  BY <1>2, <1>3 DEF IInv, TodoCoversSlugs, Slugs
<1> HIDE DEF r
<1>. QED
  BY <1>2, <1>3, <1>4, <1>5, <1>6, OwnStepIInv, ZenonT(40)
     DEF SignOutOld, SoundRecord, InTransaction, RowHeld

\* The upsert of the user's row waits for whoever holds it.
LEMMA WriteUserIInv ==
    ASSUME IInv, NEW c \in Callbacks, WriteUser(c)
    PROVE  IInv'
<1> DEFINE r == [cb[c] EXCEPT !.stage = "user written"]
<1>1. cb[c] \in Callback
  BY DEF IInv, TypeOK
<1>2. /\ r \in Callback /\ r.stage = "user written" /\ r.ended = cb[c].ended
      /\ r.user = cb[c].user /\ r.state = cb[c].state /\ r.old = cb[c].old
      /\ r.claims = cb[c].claims /\ r.todo = cb[c].todo
      /\ r.created = cb[c].created
  BY <1>1 DEF Callback, Stages, InTransaction
<1>3. cb[c].stage = "signed out" /\ r.user \in Users /\ r.created = {}
  BY <1>2
     DEF WriteUser, IInv, UserIsKnown, OnlyHoldersCreate, RowHeld,
         InTransaction
<1>4. cb' = [cb EXCEPT ![c] = r]
  BY DEF WriteUser, IInv, TypeOK
<1>5. \A d \in Callbacks \ {c} : cb[d].stage \in RowHeld => cb[d].user # r.user
  BY <1>2, <1>3
     DEF WriteUser, Waits, WaitsFor, HoldsUser, Open, RowHeld, InTransaction
<1>6. Range(r.claims.slugs) \subseteq Range(r.todo) \cup teams \cup r.created
  BY <1>2, <1>3 DEF IInv, TodoCoversSlugs, Slugs
<1>7. /\ \A s \in sessions : s.id = r.old => s.id \in r.ended
      /\ r.ended \subseteq {r.old}
  BY <1>2, <1>3 DEF IInv, OldIsEnded, EndedIsOld, Open, InTransaction
<1> HIDE DEF r
<1>. QED
  BY <1>2, <1>3, <1>4, <1>5, <1>6, <1>7, OwnStepIInv
     DEF WriteUser, SoundRecord, InTransaction, RowHeld

\* The insert of a team waits for whoever is inserting it; so the slug is a
\* committed team, or this transaction's own row and nobody else's.
LEMMA InsertTeamIInv ==
    ASSUME IInv, NEW c \in Callbacks, InsertTeam(c)
    PROVE  IInv'
<1> DEFINE t == Head(cb[c].todo)
           r == [cb[c] EXCEPT !.todo = Tail(cb[c].todo),
                              !.created = cb[c].created \cup ({t} \ teams)]
<1>1. cb[c] \in Callback /\ cb[c].todo \in SlugLists /\ cb[c].todo # <<>>
  BY DEF IInv, TypeOK, Callback, InsertTeam
<1>2. /\ t \in Teams /\ Tail(cb[c].todo) \in SlugLists
      /\ Range(cb[c].todo) = {t} \cup Range(Tail(cb[c].todo))
  BY <1>1, SlugListTail
<1>3. /\ r \in Callback /\ r.stage = cb[c].stage /\ r.ended = cb[c].ended
      /\ r.user = cb[c].user /\ r.state = cb[c].state /\ r.old = cb[c].old
      /\ r.claims = cb[c].claims /\ r.todo = Tail(cb[c].todo)
      /\ r.created = cb[c].created \cup ({t} \ teams)
  BY <1>1, <1>2 DEF Callback
<1>4. cb[c].stage = "user written" /\ r.user \in Users
  BY <1>3 DEF InsertTeam, IInv, UserIsKnown, InTransaction
<1>5. cb' = [cb EXCEPT ![c] = r]
  BY DEF InsertTeam, IInv, TypeOK
<1>6. \A d \in Callbacks \ {c} : t \notin cb[d].created
  <2> SUFFICES ASSUME NEW d \in Callbacks \ {c} PROVE t \notin cb[d].created
    OBVIOUS
  <2>1. ~HoldsTeam(d, t)
    BY <1>1, <1>4 DEF InsertTeam, Waits, WaitsFor
  <2>2. t \in cb[d].created => Open(d)
    BY DEF IInv, OnlyHoldersCreate, RowHeld, Open, InTransaction
  <2>. QED  BY <2>1, <2>2 DEF HoldsTeam
<1>7. \A d \in Callbacks \ {c} : r.created \cap cb[d].created = {}
  BY <1>3, <1>6 DEF IInv, TypeOK
<1>8. \A d \in Callbacks \ {c} : cb[d].stage \in RowHeld => cb[d].user # r.user
  BY <1>3, <1>4 DEF IInv, UserRowIsHeld, RowHeld
<1>9. Range(r.claims.slugs) \subseteq Range(r.todo) \cup teams \cup r.created
  BY <1>2, <1>3, <1>4 DEF IInv, TodoCoversSlugs, Slugs
<1>10. /\ \A s \in sessions : s.id = r.old => s.id \in r.ended
       /\ r.ended \subseteq {r.old}
  BY <1>3, <1>4 DEF IInv, OldIsEnded, EndedIsOld, Open, InTransaction
<1> HIDE DEF r, t
<1>11. SoundRecord(c, r)
  BY <1>3, <1>4, <1>7, <1>8, <1>9, <1>10
     DEF SoundRecord, InTransaction, RowHeld
<1>. QED
  BY <1>4, <1>5, <1>11, OwnStepIInv DEF InsertTeam

LEMMA ReplaceMembersIInv ==
    ASSUME IInv, NEW c \in Callbacks, ReplaceMembers(c)
    PROVE  IInv'
<1> DEFINE rest == member[cb[c].user] \ Found(c)
           r == [cb[c] EXCEPT !.stage = "members replaced", !.deleted = rest]
<1>1. /\ cb[c] \in Callback /\ cb[c].stage = "user written"
      /\ cb[c].user \in Users /\ member[cb[c].user] \subseteq Teams
  BY DEF IInv, TypeOK, ReplaceMembers, UserIsKnown, InTransaction
<1>2. CASE Slugs(c) = Found(c)
  <2>1. /\ r \in Callback /\ r.stage = "members replaced"
        /\ r.ended = cb[c].ended /\ r.user = cb[c].user
        /\ r.state = cb[c].state /\ r.old = cb[c].old
        /\ r.claims = cb[c].claims /\ r.deleted = rest
        /\ r.created = cb[c].created
    BY <1>1 DEF Callback, Stages, InTransaction
  <2>2. cb' = [cb EXCEPT ![c] = r]
    BY <1>2 DEF ReplaceMembers, IInv, TypeOK
  <2>3. r.deleted = member[r.user] \ Range(r.claims.slugs)
    BY <1>2, <2>1 DEF Slugs
  <2>4. \A d \in Callbacks \ {c} :
           cb[d].stage \in RowHeld => cb[d].user # r.user
    BY <1>1, <2>1 DEF IInv, UserRowIsHeld, RowHeld
  <2>5. /\ \A s \in sessions : s.id = r.old => s.id \in r.ended
        /\ r.ended \subseteq {r.old}
    BY <1>1, <2>1 DEF IInv, OldIsEnded, EndedIsOld, Open, InTransaction
  <2>6. \A d \in Callbacks \ {c} : r.created \cap cb[d].created = {}
    BY <2>1 DEF IInv, TypeOK
  <2> HIDE DEF r
  <2>. QED
    BY <1>1, <2>1, <2>2, <2>3, <2>4, <2>5, <2>6, OwnStepIInv
       DEF ReplaceMembers, SoundRecord, InTransaction, RowHeld
<1>3. CASE Slugs(c) # Found(c)
  <2>1. cb' = [cb EXCEPT ![c] = WithoutSession(c, cb[c].browser)]
    BY <1>3 DEF ReplaceMembers
  <2>2. cb[c].browser \in Browsers \cup {Nothing}
    BY <1>1 DEF Callback
  <2>. QED
    BY <1>1, <2>1, <2>2, FailureIInv
       DEF ReplaceMembers, browser, IInv, TypeOK
<1>. QED  BY <1>2, <1>3

\* The commit puts the claims in place of what the memberships were, ends
\* the session the browser sent, and makes the new one known to it.
LEMMA CommitIInv ==
    ASSUME IInv, NEW c \in Callbacks, Commit(c)
    PROVE  IInv'
<1> USE DEF IInv
<1> DEFINE u == cb[c].user
           r == [cb[c] EXCEPT !.stage = "done", !.created = {},
                              !.deleted = {}, !.ended = {}]
           new == [id |-> c, user |-> u, expired |-> FALSE]
<1>1. /\ cb[c].stage = "members replaced"
      /\ org' = [org EXCEPT ![u] = cb[c].claims.org]
      /\ member' = [member EXCEPT ![u] = (@ \ cb[c].deleted) \cup Slugs(c)]
      /\ sessions' = {s \in sessions : s.id \notin cb[c].ended \cup Swept(c)}
                        \cup {new}
      /\ teams' = teams \cup cb[c].created
      /\ asked' = [asked EXCEPT ![cb[c].browser] = Nothing]
      /\ cookie' = [cookie EXCEPT ![cb[c].browser] = c]
      /\ UNCHANGED <<groups, pending, outdated>>
  BY DEF Commit
<1>2. cb[c] \in Callback /\ u \in Users
  BY <1>1 DEF TypeOK, UserIsKnown, InTransaction
<1>3. /\ r \in Callback /\ r.stage = "done" /\ r.created = {}
      /\ r.user = u /\ r.claims = cb[c].claims /\ r.state = cb[c].state
      /\ r.old = cb[c].old
  BY <1>2 DEF Callback, Stages, Ended
<1>4. cb' = [cb EXCEPT ![c] = r]
  BY DEF Commit, TypeOK
<1> HIDE DEF r
<1>5. /\ cb' \in [Callbacks -> Callback] /\ cb'[c] = r
      /\ \A d \in Callbacks : d # c => cb'[d] = cb[d]
  BY <1>3, <1>4, RecordUpdate DEF TypeOK
<1>6. \A d \in Callbacks : cb[d].stage = "done" =>
         cb'[d] = cb[d] /\ d # c
  BY <1>1, <1>5
<1>7. \A d \in Callbacks :
         /\ cb'[d].state = cb[d].state /\ cb'[d].old = cb[d].old
         /\ cb'[d].user = cb[d].user /\ cb'[d].claims = cb[d].claims
  BY <1>3, <1>5
<1>8. Slugs(c) \subseteq Teams
  BY <1>2, SlugsAreTeams DEF Slugs, Callback, Claims
<1>9. member'[u] = Slugs(c) /\ org'[u] = cb[c].claims.org
  <2>1. cb[c].deleted = member[u] \ Slugs(c)
    BY <1>1 DEF DeletedIsTheRest
  <2>. QED  BY <1>1, <1>2, <2>1 DEF TypeOK
<1>10. \A x \in Users : x # u => member'[x] = member[x] /\ org'[x] = org[x]
  BY <1>1 DEF TypeOK
<1>11. \A s \in sessions' : s = new \/ s \in sessions
  BY <1>1
<1>12. TypeOK'
  <2>1. member' \in [Users -> SUBSET Teams] /\ org' \in [Users -> BOOLEAN]
    BY <1>1, <1>2, <1>8 DEF TypeOK, Callback, Claims
  <2>2. sessions' \subseteq Session
    <3>1. new \in Session
      BY <1>2 DEF Session
    <3>2. sessions \subseteq Session
      BY DEF TypeOK
    <3>. QED  BY <1>11, <3>1, <3>2
  <2>3. \A s \in sessions' : cb'[s.id].stage = "done" /\ cb'[s.id].user = s.user
    <3>1. cb'[new.id].stage = "done" /\ cb'[new.id].user = new.user
      BY <1>3, <1>5
    <3>2. \A s \in sessions : s.id \in Callbacks
      BY DEF TypeOK, Session
    <3>. QED  BY <1>6, <1>11, <3>1, <3>2 DEF TypeOK
  <2>4. \A x, y \in Callbacks : x # y =>
           cb'[x].created \cap cb'[y].created = {}
    BY <1>3, <1>5 DEF TypeOK
  <2>5. teams' \subseteq Teams
    BY <1>1, <1>2 DEF TypeOK, Callback
  <2>6. /\ asked' \in [Browsers -> States \cup {Nothing}]
        /\ cookie' \in [Browsers -> Callbacks \cup {Nothing}]
    BY <1>1 DEF TypeOK
  <2>. QED
    BY <1>1, <1>5, <2>1, <2>2, <2>3, <2>4, <2>5, <2>6 DEF TypeOK
<1>13. UserIsKnown'
  BY <1>2, <1>3, <1>5 DEF UserIsKnown
<1>14. StateIsUsedUp' /\ StateIsUsedOnce'
  <2>1. pending' = pending /\ \A d \in Callbacks : cb'[d].state = cb[d].state
    BY <1>1, <1>7
  <2>2. StateIsUsedUp /\ StateIsUsedOnce
    OBVIOUS
  <2>. QED  BY ONLY <2>1, <2>2 DEF StateIsUsedUp, StateIsUsedOnce
<1>15. UserRowIsHeld' /\ OnlyHoldersCreate'
  BY <1>3, <1>5 DEF UserRowIsHeld, OnlyHoldersCreate, RowHeld
<1>16. DeletedIsTheRest'
  <2> SUFFICES ASSUME NEW d \in Callbacks, cb'[d].stage = "members replaced"
               PROVE  cb'[d].deleted = member'[cb'[d].user] \ Slugs(d)'
    BY DEF DeletedIsTheRest
  <2>1. d # c /\ cb'[d] = cb[d]
    BY <1>3, <1>5
  <2>2. cb[d].user # u /\ cb[d].user \in Users
    BY <1>1, <2>1 DEF UserRowIsHeld, UserIsKnown, RowHeld, InTransaction
  <2>. QED  BY <1>10, <2>1, <2>2 DEF DeletedIsTheRest, Slugs
<1>17. TodoCoversSlugs'
  BY <1>1, <1>3, <1>5 DEF TodoCoversSlugs, Slugs
<1>18. AccessIsOneSignIns'
  <2> SUFFICES ASSUME NEW x \in Users
               PROVE  \/ member'[x] = {} /\ ~org'[x]
                      \/ \E d \in Callbacks :
                           /\ cb'[d].stage = "done" /\ cb'[d].user = x
                           /\ member'[x] = Slugs(d)'
                           /\ org'[x] = cb'[d].claims.org
    BY DEF AccessIsOneSignIns
  <2>1. CASE x = u
    BY <1>3, <1>5, <1>9, <2>1 DEF Slugs
  <2>2. CASE x # u
    BY <1>6, <1>10, <2>2 DEF AccessIsOneSignIns, Slugs
  <2>. QED  BY <2>1, <2>2
<1>19. CookieIsDone'
  <2>1. \A b \in Browsers : cookie'[b] = c \/ cookie'[b] = cookie[b]
    BY <1>1 DEF TypeOK
  <2>2. \A b \in Browsers : cookie[b] \in Callbacks \cup {Nothing}
    BY DEF TypeOK
  <2>. QED  BY <1>3, <1>5, <1>6, <2>1, <2>2 DEF CookieIsDone
<1>20. OldIsDone'
  <2>1. \A d \in Callbacks : cb[d].old \in Callbacks \cup {Nothing}
    BY DEF TypeOK, Callback
  <2>. QED  BY <1>6, <1>7, <2>1 DEF OldIsDone
<1>21. \A d \in Callbacks : cb[d].old # c
  BY <1>1, NothingIsNew DEF OldIsDone
<1>22. OldIsEnded'
  <2>1. \A d \in Callbacks : Open(d)' => d # c /\ Open(d) /\ cb'[d] = cb[d]
    BY <1>3, <1>5 DEF Open, InTransaction
  <2>. QED  BY <1>11, <1>21, <2>1 DEF OldIsEnded
<1>23. OldSessionIsEnded'
  <2> SUFFICES ASSUME NEW d \in Callbacks, cb'[d].stage = "done",
                      NEW s \in sessions'
               PROVE  s.id # cb[d].old
    BY <1>7 DEF OldSessionIsEnded
  <2>1. CASE s = new
    BY <1>21, <2>1
  <2>2. CASE s \in sessions /\ d # c
    BY <1>5, <2>2 DEF OldSessionIsEnded
  <2>3. CASE s \in sessions /\ s # new /\ d = c
    <3>1. s.id \notin cb[c].ended
      BY <1>1, <2>3
    <3>. QED
      BY <1>1, <2>3, <3>1 DEF OldIsEnded, Open, InTransaction
  <2>. QED  BY <1>11, <2>1, <2>2, <2>3
<1>24. EndedIsOld'
  <2>1. \A d \in Callbacks : Open(d)' => Open(d) /\ cb'[d] = cb[d]
    BY <1>3, <1>5 DEF Open, InTransaction
  <2>. QED  BY <2>1 DEF EndedIsOld
<1>25. SessionIdsAreUnique'
  <2>1. \A s \in sessions : s.id # c
    BY <1>1 DEF TypeOK
  <2>2. SessionIdsAreUnique /\ new.id = c
    OBVIOUS
  <2> HIDE DEF new
  <2>. QED  BY ONLY <1>11, <2>1, <2>2 DEF SessionIdsAreUnique
<1>. QED
  BY <1>12, <1>13, <1>14, <1>15, <1>16, <1>17, <1>18, <1>19, <1>20, <1>22,
     <1>23, <1>24, <1>25

LEMMA NextIInv == IInv /\ [Next]_vars => IInv'
<1> SUFFICES ASSUME IInv, [Next]_vars PROVE IInv'
  OBVIOUS
<1>1. ASSUME NEW c \in Callbacks, Steps(c)
      PROVE  IInv'
  BY <1>1, SignOutOldIInv, WriteUserIInv, InsertTeamIInv, ReplaceMembersIInv,
     CommitIInv DEF Steps
<1>2. ASSUME NEW c \in Callbacks,
             \/ ExchangeFails(c) \/ StatementFails(c) \/ DeadlockDetected(c)
             \/ \E b \in Browsers : Refused(c, b)
      PROVE  IInv'
  <2>1. cb[c].stage # "done"
    BY <1>2
       DEF ExchangeFails, StatementFails, DeadlockDetected, Refused, Open,
           InTransaction
  <2>2. cb[c].browser \in Browsers \cup {Nothing}
    BY DEF IInv, TypeOK, Callback
  <2>3. PICK b \in Browsers \cup {Nothing} :
           /\ cb' = [cb EXCEPT ![c] = WithoutSession(c, b)]
           /\ asked' = asked \/ asked' = [asked EXCEPT ![b] = Nothing]
           /\ UNCHANGED <<groups, database, cookie, outdated>>
    BY <1>2, <2>2
       DEF ExchangeFails, StatementFails, DeadlockDetected, Refused, Failed,
           RolledBack, browser
  <2>4. asked' \in [Browsers -> States \cup {Nothing}]
    BY <2>3 DEF IInv, TypeOK
  <2>. QED  BY <2>1, <2>3, <2>4, FailureIInv
<1>3. ASSUME NEW c \in Callbacks, NEW u \in Users, Exchange(c, u)
      PROVE  IInv'
  BY <1>3, ExchangeIInv
<1>4. ASSUME NEW c \in Callbacks, NEW b \in Browsers, NEW s \in States,
             Arrive(c, b, s)
      PROVE  IInv'
  BY <1>4, ArriveIInv
<1>5. ASSUME NEW b \in Browsers,
             Logout(b) \/ LoginFails(b) \/ \E s \in States : Login(b, s)
      PROVE  IInv'
  BY <1>5, LoginIInv, LoginFailsIInv, LogoutIInv
<1>6. ASSUME NEW u \in Users,
             RegroupOrg(u) \/ \E s \in SlugLists : RegroupTeams(u, s)
      PROVE  IInv'
  <2>1. groups[u] \in Claims
    BY DEF IInv, TypeOK
  <2>2. [groups[u] EXCEPT !.org = ~@] \in Claims
    BY <2>1 DEF Claims
  <2>3. \A s \in SlugLists : [groups[u] EXCEPT !.slugs = s] \in Claims
    BY <2>1 DEF Claims
  <2>. QED  BY <1>6, <2>2, <2>3, RegroupIInv DEF RegroupOrg, RegroupTeams
<1>7. ASSUME NEW u \in Users, Revoke(u)
      PROVE  IInv'
  BY <1>7, RevokeIInv
<1>8. ASSUME NEW s \in sessions, SessionExpires(s)
      PROVE  IInv'
  BY <1>8, SessionExpiresIInv
<1>9. CASE UNCHANGED vars
  BY <1>9, OutsideIInv DEF vars, IInv, TypeOK, StateIsUsedUp, SessionIdsAreUnique
<1>. QED
  BY <1>1, <1>2, <1>3, <1>4, <1>5, <1>6, <1>7, <1>8, <1>9 DEF Next, Answers

LEMMA Inductive == Spec => []IInv
  BY InitIInv, NextIInv, PTL DEF Spec

-----------------------------------------------------------------------------
(* The theorems.                                                           *)

\* Every value has its type, a session is of a sign-in that committed, and a
\* team's key is being inserted by one open transaction at most.
THEOREM TypeCorrect == Spec => []TypeOK
<1>1. IInv => TypeOK
  BY DEF IInv
<1>. QED  BY <1>1, Inductive, PTL

\* However sign-ins of one user overlap and fail, its memberships and its org
\* admin flag are together those of the claims of one of them.
THEOREM AccessIsNeverMixed == Spec => []AccessIsOneSignIns
<1>1. IInv => AccessIsOneSignIns
  BY DEF IInv
<1>. QED  BY <1>1, Inductive, PTL

\* A login request is used by one callback, however often it is sent.
THEOREM OneCallbackPerState == Spec => []StateIsUsedOnce
<1>1. IInv => StateIsUsedOnce
  BY DEF IInv
<1>. QED  BY <1>1, Inductive, PTL

\* Once a browser has signed in again, the session it sent is gone for good.
THEOREM SignInEndsTheOldSession == Spec => []OldSessionIsEnded
<1>1. IInv => OldSessionIsEnded
  BY DEF IInv
<1>. QED  BY <1>1, Inductive, PTL

\* A sign-in that ends without a session has ended none, and one that
\* commits ends the session its browser sent and expired ones: until the
\* commit sign_out's delete is only the transaction's own.
THEOREM OnlyCommitsEndSessions == Spec => OnlyAFinishedSignInEndsSessions
<1> DEFINE Ends(c) ==
       \A s \in sessions : s.id \notin {x.id : x \in sessions'} =>
          s.expired \/ (cb'[c].stage = "done" /\ s.id = cb[c].old)
<1>1. ASSUME IInv, Next, NEW c \in Callbacks, cb'[c] # cb[c] PROVE Ends(c)
  <2>1. ASSUME NEW d \in Callbacks, Commit(d) PROVE Ends(c)
    <3>1. /\ sessions' = {s \in sessions : s.id \notin cb[d].ended \cup Swept(d)}
                          \cup {[id |-> d, user |-> cb[d].user, expired |-> FALSE]}
          /\ cb' = [cb EXCEPT ![d].stage = "done", ![d].created = {},
                              ![d].deleted = {}, ![d].ended = {}]
          /\ Open(d)
      BY <2>1 DEF Commit, Open, InTransaction
    <3>2. c = d /\ cb'[c].stage = "done"
      BY <1>1, <3>1 DEF IInv, TypeOK, Callback
    <3>3. cb[c].ended \subseteq {cb[c].old}
      BY <1>1, <3>1, <3>2 DEF IInv, EndedIsOld
    <3>4. ASSUME NEW s \in sessions, s.id \notin {x.id : x \in sessions'}
          PROVE  s.expired \/ s.id = cb[c].old
      <4>1. s \notin sessions'
        BY <3>4
      <4>2. s.id \in cb[c].ended \/ s.id \in Swept(c)
        BY <3>1, <3>2, <4>1
      <4>3. ASSUME s.id \in Swept(c) PROVE s.expired
        <5>1. PICK x \in sessions : x.expired /\ x.id = s.id
          BY <4>3 DEF Swept
        <5>. QED  BY <1>1, <5>1 DEF IInv, SessionIdsAreUnique
      <4>. QED  BY <3>3, <4>2, <4>3
    <3>. QED  BY <3>2, <3>4
  <2>2. CASE UNCHANGED sessions
    BY <2>2
  <2>3. CASE UNCHANGED cb
    BY <1>1, <2>3
  <2>. QED
    BY <1>1, <2>1, <2>2, <2>3
       DEF Next, Steps, Answers, SignOutOld, WriteUser, InsertTeam,
           ReplaceMembers, ExchangeFails, Exchange, StatementFails,
           DeadlockDetected, RolledBack, Refused, Arrive, Login, StartLogin,
           LoginFails, Logout, Revoke, SessionExpires, RegroupOrg,
           RegroupTeams, Regroup, database
<1>2. IInv /\ [Next]_vars => [\A c \in Callbacks : cb'[c] # cb[c] => Ends(c)]_vars
  BY <1>1
<1>. QED
  BY <1>2, Inductive, PTL DEF Spec, OnlyAFinishedSignInEndsSessions

\* When the team ids are read, every slug of the claims has a row that the
\* transaction sees.
THEOREM NoSlugIsMissing == Spec => []EverySlugHasATeam
<1>1. ASSUME IInv PROVE EverySlugHasATeam
  <2> SUFFICES ASSUME NEW c \in Callbacks,
                      cb[c].stage = "user written", cb[c].todo = <<>>
               PROVE  Slugs(c) = Found(c)
    BY DEF EverySlugHasATeam
  <2>1. Slugs(c) \subseteq Range(<<>>) \cup teams \cup cb[c].created
    BY <1>1 DEF IInv, TodoCoversSlugs
  <2>. QED  BY <2>1, NoSlugs DEF Found
<1>. QED  BY <1>1, Inductive, PTL

\* Sign-ins of one user that wait for each other in a circle include one that
\* is sweeping expired sessions: over the user's row, the teams and the
\* memberships they only queue.
THEOREM OneUserQueues == Spec => []OneUsersSignInsDoNotCollide
<1>1. ASSUME IInv PROVE OneUsersSignInsDoNotCollide
  <2> SUFFICES ASSUME NEW S \in (SUBSET Callbacks) \ {{}},
                      \A x \in S : \E y \in S : WaitsFor(x, y),
                      \A x, y \in S : cb[x].user = cb[y].user
               PROVE  \E x \in S : cb[x].stage = "members replaced"
    BY DEF OneUsersSignInsDoNotCollide
  <2> SUFFICES ASSUME \A x \in S : cb[x].stage # "members replaced"
               PROVE  FALSE
    OBVIOUS
  <2>1. \A x \in S : cb[x].stage # "user written"
    <3> SUFFICES ASSUME NEW x \in S, cb[x].stage = "user written"
                 PROVE  FALSE
      OBVIOUS
    <3>1. PICK y \in S : x # y /\ HoldsTeam(y, Head(cb[x].todo))
      BY DEF WaitsFor
    <3>2. cb[y].stage \in RowHeld
      BY <1>1, <3>1 DEF HoldsTeam, IInv, OnlyHoldersCreate
    <3>. QED  BY <1>1, <3>1, <3>2 DEF IInv, UserRowIsHeld, RowHeld
  <2>2. \A x \in S : cb[x].stage # "signed out"
    BY <2>1 DEF WaitsFor, HoldsUser, Open, InTransaction
  <2>3. \A x \in S : ~Open(x)
    BY <2>1, <2>2 DEF Open, InTransaction
  <2>4. \A x, y \in S : ~WaitsFor(x, y)
    BY <2>3 DEF WaitsFor, HoldsSession, HoldsUser, HoldsTeam
  <2>5. PICK x \in S : TRUE
    OBVIOUS
  <2>. QED  BY <2>4, <2>5
<1>. QED  BY <1>1, Inductive, PTL
=============================================================================
