------------------------- MODULE ServicesDataProofs --------------------------
(***************************************************************************)
(* Services' properties about what the database keeps, for any people,     *)
(* sign-ins and runs: erasure of personal data (Erasure), the schema's     *)
(* migrations (Migrations) and the connections requests hold (Serving).    *)
(***************************************************************************)
EXTENDS Services, FiniteSetTheorems, TLAPS

-----------------------------------------------------------------------------
(* Erasure.                                                                *)

Job == [kind : {"none", "forget", "retention"}, apply : BOOLEAN,
        todo : SUBSET Accounts, gone : SUBSET ER!Ids,
        kept : SUBSET [id : ER!Ids, kept : Nat]]

ErasureTypes ==
    /\ row \in [Accounts -> ER!Row] /\ signing \in [Accounts -> {0} \cup ER!Ids]
    /\ nextId \in Nat \ {0} /\ trail \in [ER!Ids -> Nat]
    /\ sessions \subseteq ER!Ids /\ job \in Job
    /\ forgotten \subseteq [id : ER!Ids, kept : Nat]

\* An id belongs to one account, and a sign-in under way to the account's row
\* where there is one.
IdsHaveOneOwner ==
    /\ \A a \in Accounts : row[a].id < nextId /\ signing[a] < nextId
    /\ \A a \in Accounts : row[a].id # 0 /\ signing[a] # 0 => signing[a] = row[a].id
    /\ \A a, b \in Accounts : a # b =>
          /\ row[a].id # 0 => row[a].id # row[b].id /\ row[a].id # signing[b]
          /\ signing[a] # 0 => signing[a] # signing[b]
    /\ \A id \in sessions : \E a \in Accounts : row[a].id = id

\* The rows the job has deleted are locked: no sign-in has them, and retention's
\* are old.
JobHoldsItsRows ==
    /\ job.kind = "none" => job.gone = {} /\ job.kept = {} /\ job.todo = {}
    /\ \A a \in job.todo : row[a].id # 0
    /\ \A id \in job.gone : \E a \in Accounts : row[a].id = id /\ signing[a] = 0
    /\ \A k \in job.kept : k.id \in job.gone /\ k.kept <= trail[k.id]
    /\ job.kind = "retention" => \A a \in Accounts : row[a].id \in job.gone => row[a].old

ErasureInv ==
    /\ ErasureTypes /\ IdsHaveOneOwner /\ JobHoldsItsRows
    /\ \A f \in forgotten : f.id < nextId
    /\ ER!ForgottenIsGone

LEMMA IdsAreNumbers == \A id \in ER!Ids : id \in Nat /\ id # 0
  BY DEF ER!Ids

LEMMA NoJobIsAJob ==
    /\ ER!NoJob \in Job /\ ER!NoJob.kind = "none" /\ ER!NoJob.todo = {}
    /\ ER!NoJob.gone = {} /\ ER!NoJob.kept = {}
  BY DEF ER!NoJob, Job

LEMMA ErasureInit == ER!Init => ErasureInv
<1> SUFFICES ASSUME ER!Init  PROVE ErasureInv
  OBVIOUS
<1>1. /\ row = [a \in Accounts |-> ER!NoRow] /\ nextId = 1 /\ sessions = {}
      /\ signing = [a \in Accounts |-> 0] /\ trail = [id \in ER!Ids |-> 0]
      /\ job = ER!NoJob /\ forgotten = {} /\ retired = {}
  BY DEF ER!Init
<1>2. ER!NoRow \in ER!Row /\ ER!NoRow.id = 0
  BY DEF ER!NoRow, ER!Row
<1>3. ErasureTypes
  BY <1>1, <1>2, NoJobIsAJob DEF ErasureTypes
<1>4. IdsHaveOneOwner
  BY <1>1, <1>2 DEF IdsHaveOneOwner
<1>5. JobHoldsItsRows
  BY <1>1, NoJobIsAJob DEF JobHoldsItsRows
<1>6. ER!ForgottenIsGone /\ \A f \in forgotten : f.id < nextId
  BY <1>1 DEF ER!ForgottenIsGone
<1>. QED  BY <1>3, <1>4, <1>5, <1>6 DEF ErasureInv
LEMMA GrowOldKeeps ==
    ASSUME ErasureInv, NEW a \in Accounts, ER!GrowOld(a)
    PROVE  ErasureInv'
<1> USE DEF ErasureInv
<1>1. /\ nextId' = nextId /\ signing' = signing /\ trail' = trail
      /\ job' = job /\ forgotten' = forgotten /\ retired' = retired
      /\ job = ER!NoJob /\ row[a].id # 0 /\ signing[a] = 0
      /\ sessions' = sessions \ {row[a].id}
  BY DEF ER!GrowOld
<1>2. /\ row' \in [Accounts -> ER!Row] /\ \A b \in Accounts : row'[b].id = row[b].id
  <2> DEFINE new == [row[a] EXCEPT !.old = TRUE]
  <2>1. row[a] \in ER!Row /\ row \in [Accounts -> ER!Row]
    BY DEF ErasureTypes
  <2>2. new \in ER!Row /\ new.id = row[a].id
    BY <2>1 DEF ER!Row
  <2>3. row' = [row EXCEPT ![a] = new]
    BY <2>1 DEF ER!GrowOld
  <2> HIDE DEF new
  <2>. QED  BY <2>1, <2>2, <2>3
<1>3. ErasureTypes'
  BY <1>1, <1>2 DEF ErasureTypes
<1>4. IdsHaveOneOwner'
  BY <1>1, <1>2 DEF IdsHaveOneOwner
<1>5. JobHoldsItsRows'
  BY <1>1, NoJobIsAJob DEF JobHoldsItsRows
<1>6. ER!ForgottenIsGone' /\ \A f \in forgotten' : f.id < nextId'
  BY <1>1, <1>2 DEF ER!ForgottenIsGone
<1>. QED  BY <1>3, <1>4, <1>5, <1>6

LEMMA UpsertKeeps ==
    ASSUME ErasureInv, NEW a \in Accounts, ER!Upsert(a)
    PROVE  ErasureInv'
<1> USE DEF ErasureInv
<1>1. /\ row' = row /\ sessions' = sessions /\ trail' = trail /\ job' = job
      /\ forgotten' = forgotten /\ retired' = retired
      /\ signing[a] = 0 /\ row[a].id \notin job.gone
  BY DEF ER!Upsert, ER!Deleted
\* The account's own id, or a new one.
<1> DEFINE id == IF row[a].id # 0 THEN row[a].id ELSE nextId
<1>2. /\ id \in ER!Ids /\ signing' = [signing EXCEPT ![a] = id] /\ id < nextId'
      /\ nextId' \in Nat \ {0} /\ nextId <= nextId'
      /\ row[a].id # 0 => id = row[a].id
      /\ row[a].id = 0 => id = nextId
  <2>1. CASE row[a].id # 0
    <3>1. /\ row[a].id \in ER!Ids /\ row[a].id < nextId /\ nextId \in Nat \ {0}
      BY <2>1 DEF ErasureTypes, ER!Row, IdsHaveOneOwner
    <3>2. signing' = [signing EXCEPT ![a] = row[a].id] /\ nextId' = nextId
      BY <2>1 DEF ER!Upsert
    <3>. QED  BY <2>1, <3>1, <3>2
  <2>2. CASE row[a].id = 0
    <3>1. /\ nextId \in ER!Ids /\ nextId' = nextId + 1 /\ nextId \in Nat \ {0}
          /\ signing' = [signing EXCEPT ![a] = nextId]
      BY <2>2 DEF ER!Upsert, ErasureTypes
    <3>. QED  BY <2>2, <3>1
  <2>. QED  BY <2>1, <2>2
<1> HIDE DEF id
<1>3. /\ signing'[a] = id /\ id # 0 /\ id \in Nat
      /\ \A b \in Accounts : b # a => signing'[b] = signing[b]
  BY <1>2, IdsAreNumbers DEF ErasureTypes
<1>4. ErasureTypes'
  BY <1>1, <1>2 DEF ErasureTypes
<1>5. /\ nextId \in Nat
      /\ \A b \in Accounts : row[b].id \in Nat /\ signing[b] \in Nat
  BY IdsAreNumbers DEF ErasureTypes, ER!Row
<1>6. \A b \in Accounts : row'[b].id < nextId' /\ signing'[b] < nextId'
  BY <1>1, <1>2, <1>3, <1>5 DEF IdsHaveOneOwner
<1>7. ASSUME NEW b \in Accounts, b # a
      PROVE  id # row[b].id /\ id # signing[b]
  BY <1>2, <1>3, <1>5, <1>7 DEF IdsHaveOneOwner
<1>8. IdsHaveOneOwner'
  <2>1. \A b \in Accounts : row'[b].id # 0 /\ signing'[b] # 0 => signing'[b] = row'[b].id
    BY <1>1, <1>2, <1>3 DEF IdsHaveOneOwner
  <2>2. \A b, c \in Accounts : b # c =>
          /\ row'[b].id # 0 => row'[b].id # row'[c].id /\ row'[b].id # signing'[c]
          /\ signing'[b] # 0 => signing'[b] # signing'[c]
    BY <1>1, <1>3, <1>7 DEF IdsHaveOneOwner
  <2>. QED  BY <1>1, <1>6, <2>1, <2>2 DEF IdsHaveOneOwner
\* The rows the job holds are another account's.
<1>9. \A x \in job.gone : \E b \in Accounts : row'[b].id = x /\ signing'[b] = 0
  BY <1>1, <1>3 DEF JobHoldsItsRows
<1>10. JobHoldsItsRows'
  BY <1>1, <1>9 DEF JobHoldsItsRows
<1>11. \A f \in forgotten : f.id # id /\ f.id < nextId'
  <2> SUFFICES ASSUME NEW f \in forgotten  PROVE f.id # id /\ f.id < nextId'
    OBVIOUS
  <2>1. f.id \in Nat /\ f.id < nextId /\ f.id # row[a].id
    BY IdsAreNumbers DEF ErasureTypes, ER!ForgottenIsGone
  <2>. QED  BY <1>2, <1>3, <1>5, <2>1
<1>12. ER!ForgottenIsGone'
  BY <1>1, <1>3, <1>11 DEF ER!ForgottenIsGone
<1>. QED  BY <1>1, <1>4, <1>8, <1>10, <1>11, <1>12

LEMMA SignedInKeeps ==
    ASSUME ErasureInv, NEW a \in Accounts, ER!SignedIn(a)
    PROVE  ErasureInv'
<1> USE DEF ErasureInv
<1> DEFINE id == signing[a]
           new == [id |-> signing[a], old |-> FALSE]
<1>1. /\ nextId' = nextId /\ trail' = trail /\ job' = job
      /\ forgotten' = forgotten /\ retired' = retired
      /\ id # 0 /\ id \in ER!Ids /\ id \in Nat /\ id < nextId
      /\ row' = [row EXCEPT ![a] = new] /\ sessions' = sessions \cup {id}
      /\ signing' = [signing EXCEPT ![a] = 0]
  BY IdsAreNumbers DEF ER!SignedIn, ErasureTypes, IdsHaveOneOwner
<1>2. new \in ER!Row /\ new.id = id /\ new.old = FALSE
  BY <1>1 DEF ER!Row
<1> HIDE DEF new
<1>3. /\ row'[a] = new /\ signing'[a] = 0
      /\ \A b \in Accounts : b # a => row'[b] = row[b] /\ signing'[b] = signing[b]
  BY <1>1 DEF ErasureTypes
<1> HIDE DEF id
<1>4. ErasureTypes'
  BY <1>1, <1>2 DEF ErasureTypes
\* No other account has its id, and the job has not deleted its row.
<1>5. \A b \in Accounts : b # a => id # row[b].id /\ id # signing[b]
  BY <1>1 DEF IdsHaveOneOwner, id
<1>6. row[a].id # 0 => row[a].id = id
  BY <1>1 DEF IdsHaveOneOwner, id
<1>7. id \notin job.gone
  BY <1>1, <1>5 DEF JobHoldsItsRows, id
<1>8. IdsHaveOneOwner'
  <2>1. \A b \in Accounts : row'[b].id < nextId' /\ signing'[b] < nextId'
    BY <1>1, <1>2, <1>3 DEF IdsHaveOneOwner, ErasureTypes
  <2>2. \A b \in Accounts : row'[b].id # 0 /\ signing'[b] # 0 => signing'[b] = row'[b].id
    BY <1>3 DEF IdsHaveOneOwner
  <2>3. \A b, c \in Accounts : b # c =>
          /\ row'[b].id # 0 => row'[b].id # row'[c].id /\ row'[b].id # signing'[c]
          /\ signing'[b] # 0 => signing'[b] # signing'[c]
    BY <1>1, <1>2, <1>3, <1>5 DEF IdsHaveOneOwner
  <2>4. \A x \in sessions' : \E b \in Accounts : row'[b].id = x
    <3> SUFFICES ASSUME NEW x \in sessions'
                 PROVE  \E b \in Accounts : row'[b].id = x
      OBVIOUS
    <3>1. CASE x = id
      BY <1>2, <1>3, <3>1
    <3>2. CASE x # id
      <4>1. PICK b \in Accounts : row[b].id = x /\ x # 0
        BY <1>1, <3>2, IdsAreNumbers DEF IdsHaveOneOwner, ErasureTypes
      <4>2. b # a
        BY <1>6, <3>2, <4>1
      <4>. QED  BY <1>3, <4>1, <4>2
    <3>. QED  BY <3>1, <3>2
  <2>. QED  BY <2>1, <2>2, <2>3, <2>4 DEF IdsHaveOneOwner
<1>9. JobHoldsItsRows'
  <2>1. \A x \in job.gone : \E b \in Accounts : row'[b].id = x /\ signing'[b] = 0
    <3> SUFFICES ASSUME NEW x \in job.gone
                 PROVE  \E b \in Accounts : row'[b].id = x /\ signing'[b] = 0
      OBVIOUS
    <3>1. PICK b \in Accounts : row[b].id = x /\ signing[b] = 0
      BY DEF JobHoldsItsRows
    <3>2. b # a
      BY <1>1, <3>1 DEF id
    <3>. QED  BY <1>3, <3>1, <3>2
  <2>2. \A b \in job.todo : row'[b].id # 0
    BY <1>1, <1>2, <1>3 DEF JobHoldsItsRows
  <2>3. job.kind = "retention" =>
          \A b \in Accounts : row'[b].id \in job.gone => row'[b].old
    BY <1>2, <1>3, <1>7 DEF JobHoldsItsRows
  <2>. QED  BY <1>1, <2>1, <2>2, <2>3 DEF JobHoldsItsRows
<1>10. \A f \in forgotten : f.id # id /\ f.id # 0
  BY IdsAreNumbers DEF ER!ForgottenIsGone, ErasureTypes, id
<1>11. ER!ForgottenIsGone'
  BY <1>1, <1>2, <1>3, <1>10 DEF ER!ForgottenIsGone
<1>. QED  BY <1>1, <1>4, <1>8, <1>9, <1>11
LEMMA SignInFailsKeeps ==
    ASSUME ErasureInv, NEW a \in Accounts, ER!SignInFails(a)
    PROVE  ErasureInv'
<1> USE DEF ErasureInv
<1>1. /\ row' = row /\ nextId' = nextId /\ sessions' = sessions /\ trail' = trail
      /\ job' = job /\ forgotten' = forgotten /\ retired' = retired
      /\ signing' = [signing EXCEPT ![a] = 0]
  BY DEF ER!SignInFails
<1>2. /\ signing'[a] = 0
      /\ \A b \in Accounts : b # a => signing'[b] = signing[b]
  BY <1>1 DEF ErasureTypes
<1>3. ErasureTypes'
  BY <1>1 DEF ErasureTypes
<1>4. IdsHaveOneOwner'
  BY <1>1, <1>2 DEF IdsHaveOneOwner, ErasureTypes
<1>5. JobHoldsItsRows'
  BY <1>1, <1>2 DEF JobHoldsItsRows
<1>6. ER!ForgottenIsGone' /\ \A f \in forgotten' : f.id < nextId'
  BY <1>1, <1>2, IdsAreNumbers DEF ER!ForgottenIsGone, ErasureTypes
<1>. QED  BY <1>3, <1>4, <1>5, <1>6

\* What requests do adds to the trail and takes nothing from it.
LEMMA TrailGrows ==
    ASSUME ErasureInv, UNCHANGED <<row, nextId, sessions, signing, job, forgotten, retired>>,
           trail' \in [ER!Ids -> Nat], \A id \in ER!Ids : trail[id] <= trail'[id]
    PROVE  ErasureInv'
<1> USE DEF ErasureInv
<1>1. ErasureTypes' /\ IdsHaveOneOwner'
  BY DEF ErasureTypes, IdsHaveOneOwner
<1>2. JobHoldsItsRows'
  <2>1. \A k \in job.kept : k.id \in job.gone /\ k.kept <= trail'[k.id]
    <3> SUFFICES ASSUME NEW k \in job.kept
                 PROVE  k.id \in job.gone /\ k.kept <= trail'[k.id]
      OBVIOUS
    <3>1. k.id \in ER!Ids /\ k.kept \in Nat /\ k.id \in job.gone /\ k.kept <= trail[k.id]
      BY DEF ErasureTypes, Job, JobHoldsItsRows
    <3>2. trail[k.id] \in Nat /\ trail'[k.id] \in Nat /\ trail[k.id] <= trail'[k.id]
      BY <3>1 DEF ErasureTypes
    <3>. QED  BY <3>1, <3>2
  <2>. QED  BY <2>1 DEF JobHoldsItsRows
<1>3. ER!ForgottenIsGone'
  <2>1. \A f \in forgotten : f.kept <= trail'[f.id]
    <3> SUFFICES ASSUME NEW f \in forgotten
                 PROVE  f.kept <= trail'[f.id]
      OBVIOUS
    <3>1. f.id \in ER!Ids /\ f.kept \in Nat /\ f.kept <= trail[f.id]
      BY DEF ErasureTypes, ER!ForgottenIsGone
    <3>2. trail[f.id] \in Nat /\ trail'[f.id] \in Nat /\ trail[f.id] <= trail'[f.id]
      BY <3>1 DEF ErasureTypes
    <3>. QED  BY <3>1, <3>2
  <2>. QED  BY <2>1 DEF ER!ForgottenIsGone
<1>. QED  BY <1>1, <1>2, <1>3

\* A job begins: nothing is deleted yet.
LEMMA JobBegins ==
    ASSUME ErasureInv, NEW of \in {"forget", "retention"}, NEW apply \in BOOLEAN,
           NEW todo \in SUBSET Accounts, \A a \in todo : row[a].id # 0,
           job' = [ER!NoJob EXCEPT !.kind = of, !.apply = apply, !.todo = todo],
           UNCHANGED <<row, nextId, sessions, signing, trail, forgotten, retired>>
    PROVE  ErasureInv'
<1> USE DEF ErasureInv
<1>1. job' \in Job /\ job'.gone = {} /\ job'.kept = {} /\ job'.todo = todo
      /\ job'.kind = of
  BY DEF ER!NoJob, Job
<1>2. ErasureTypes'
  BY <1>1 DEF ErasureTypes
<1>3. IdsHaveOneOwner'
  BY DEF IdsHaveOneOwner
<1>4. JobHoldsItsRows'
  BY <1>1 DEF JobHoldsItsRows
<1>5. ER!ForgottenIsGone'
  BY DEF ER!ForgottenIsGone
<1>. QED  BY <1>2, <1>3, <1>4, <1>5

LEMMA ForgetAccountKeeps ==
    ASSUME ErasureInv, NEW a \in Accounts, ER!ForgetAccount(a)
    PROVE  ErasureInv'
<1> USE DEF ErasureInv
<1> DEFINE id == row[a].id
<1>1. /\ row' = row /\ nextId' = nextId /\ sessions' = sessions /\ trail' = trail
      /\ signing' = signing /\ forgotten' = forgotten /\ retired' = retired
      /\ job.kind = "forget" /\ a \in job.todo /\ signing[a] = 0
  BY DEF ER!ForgetAccount
<1>2. id \in ER!Ids /\ trail[id] \in Nat
  BY <1>1, IdsAreNumbers DEF JobHoldsItsRows, ErasureTypes, ER!Row
<1>3. PICK found \in 0..trail[id] :
        job' = [job EXCEPT !.todo = @ \ {a}, !.gone = @ \cup {id},
                           !.kept = @ \cup {[id |-> id, kept |-> found]}]
  BY DEF ER!ForgetAccount
<1>4. found \in Nat /\ found <= trail[id]
  BY <1>2, <1>3
<1> HIDE DEF id
<1>5. /\ job' \in Job /\ job'.kind = "forget" /\ job'.todo = job.todo \ {a}
      /\ job'.gone = job.gone \cup {id}
      /\ job'.kept = job.kept \cup {[id |-> id, kept |-> found]}
  <2> DEFINE todo == job.todo \ {a}
             goneNow == job.gone \cup {id}
             keptNow == job.kept \cup {[id |-> id, kept |-> found]}
  <2>1. job \in Job
    BY DEF ErasureTypes
  <2>2. todo \in SUBSET Accounts /\ goneNow \in SUBSET ER!Ids
    BY <1>2, <2>1 DEF Job
  <2>3. keptNow \in SUBSET [id : ER!Ids, kept : Nat]
    BY <1>2, <1>4, <2>1 DEF Job
  <2>4. job' = [job EXCEPT !.todo = todo, !.gone = goneNow, !.kept = keptNow]
    BY <1>3
  <2> HIDE DEF todo, goneNow, keptNow
  <2>5. /\ job' \in Job /\ job'.kind = job.kind /\ job'.todo = todo
        /\ job'.gone = goneNow /\ job'.kept = keptNow
    BY <2>1, <2>2, <2>3, <2>4 DEF Job
  <2>. QED  BY <1>1, <2>5 DEF todo, goneNow, keptNow
<1>6. ErasureTypes' /\ IdsHaveOneOwner'
  BY <1>1, <1>5 DEF ErasureTypes, IdsHaveOneOwner
<1>7. JobHoldsItsRows'
  <2>1. \A x \in job'.gone : \E b \in Accounts : row[b].id = x /\ signing[b] = 0
    BY <1>1, <1>5 DEF JobHoldsItsRows, id
  <2>2. \A k \in job'.kept : k.id \in job'.gone /\ k.kept <= trail[k.id]
    BY <1>4, <1>5 DEF JobHoldsItsRows
  <2>. QED  BY <1>1, <1>5, <2>1, <2>2 DEF JobHoldsItsRows
<1>8. ER!ForgottenIsGone'
  BY <1>1 DEF ER!ForgottenIsGone
<1>. QED  BY <1>1, <1>6, <1>7, <1>8

LEMMA RetireRowKeeps ==
    ASSUME ErasureInv, NEW a \in Accounts, ER!RetireRow(a)
    PROVE  ErasureInv'
<1> USE DEF ErasureInv
<1> DEFINE id == row[a].id
<1>1. /\ row' = row /\ nextId' = nextId /\ sessions' = sessions /\ trail' = trail
      /\ signing' = signing /\ forgotten' = forgotten /\ retired' = retired
      /\ job.kind = "retention" /\ a \in job.todo /\ signing[a] = 0
  BY DEF ER!RetireRow
<1>2. id \in ER!Ids
  BY <1>1, IdsAreNumbers DEF JobHoldsItsRows, ErasureTypes, ER!Row
<1>3. /\ job' \in Job /\ job'.kind = "retention" /\ job'.todo = job.todo \ {a}
      /\ job'.kept = job.kept
      /\ job'.gone = IF row[a].old THEN job.gone \cup {id} ELSE job.gone
  <2>1. job' = [job EXCEPT !.todo = @ \ {a},
                   !.gone = IF ER!Matches(a) THEN @ \cup {id} ELSE @]
    BY DEF ER!RetireRow
  <2>2. ER!Matches(a) <=> row[a].old
    BY <1>2, IdsAreNumbers DEF ER!Matches
  <2> HIDE DEF id
  <2>. QED  BY <1>1, <1>2, <2>1, <2>2 DEF ErasureTypes, Job
<1>4. ErasureTypes' /\ IdsHaveOneOwner'
  BY <1>1, <1>3 DEF ErasureTypes, IdsHaveOneOwner
<1>5. JobHoldsItsRows'
  <2>1. \A x \in job'.gone : \E b \in Accounts : row[b].id = x /\ signing[b] = 0
    BY <1>1, <1>3 DEF JobHoldsItsRows
  <2>2. \A k \in job'.kept : k.id \in job'.gone /\ k.kept <= trail[k.id]
    BY <1>3 DEF JobHoldsItsRows
  <2>3. \A b \in Accounts : row[b].id \in job'.gone => row[b].old
    <3> SUFFICES ASSUME NEW b \in Accounts, row[b].id \in job'.gone
                 PROVE  row[b].old
      OBVIOUS
    <3>1. CASE row[b].id \in job.gone
      BY <1>1, <3>1 DEF JobHoldsItsRows
    <3>2. CASE row[b].id \notin job.gone
      <4>1. row[a].old /\ row[b].id = id
        BY <1>3, <3>2
      <4>2. b = a
        BY <1>2, <4>1, IdsAreNumbers DEF IdsHaveOneOwner
      <4>. QED  BY <4>1, <4>2
    <3>. QED  BY <3>1, <3>2
  <2>. QED  BY <1>1, <1>3, <2>1, <2>2, <2>3 DEF JobHoldsItsRows
<1>6. ER!ForgottenIsGone'
  BY <1>1 DEF ER!ForgottenIsGone
<1>. QED  BY <1>1, <1>4, <1>5, <1>6

LEMMA EndJobKeeps ==
    ASSUME ErasureInv, NEW commits \in BOOLEAN, ER!EndJob(commits)
    PROVE  ErasureInv'
<1> USE DEF ErasureInv
<1>1. /\ nextId' = nextId /\ signing' = signing /\ trail' = trail /\ job' = ER!NoJob
      /\ job # ER!NoJob
  BY DEF ER!EndJob
<1>2. JobHoldsItsRows'
  BY <1>1, NoJobIsAJob DEF JobHoldsItsRows
<1>3. CASE ~commits
  <2>1. row' = row /\ sessions' = sessions /\ forgotten' = forgotten /\ retired' = retired
    BY <1>3 DEF ER!EndJob
  <2>2. ErasureTypes' /\ IdsHaveOneOwner'
    BY <1>1, <2>1, NoJobIsAJob DEF ErasureTypes, IdsHaveOneOwner
  <2>3. ER!ForgottenIsGone'
    BY <1>1, <2>1 DEF ER!ForgottenIsGone
  <2>. QED  BY <1>1, <1>2, <2>1, <2>2, <2>3
<1>4. CASE commits
  <2>1. /\ row' = [a \in Accounts |-> IF ER!Deleted(a) THEN ER!NoRow ELSE row[a]]
        /\ sessions' = sessions \ job.gone /\ forgotten' = forgotten \cup job.kept
        /\ retired' = IF job.kind = "forget" THEN retired
                      ELSE retired \cup {row[a] : a \in {b \in Accounts : ER!Deleted(b)}}
    BY <1>4 DEF ER!EndJob
  <2>2. \A a \in Accounts : row'[a] = IF row[a].id \in job.gone THEN ER!NoRow ELSE row[a]
    BY <2>1 DEF ER!Deleted
  <2>3. \A a \in Accounts : row'[a].id = IF row[a].id \in job.gone THEN 0 ELSE row[a].id
    BY <2>2 DEF ER!NoRow
  <2>4. job.gone \subseteq ER!Ids /\ job.kept \subseteq [id : ER!Ids, kept : Nat]
    BY DEF ErasureTypes, Job
  <2>5. ErasureTypes'
    <3>1. ER!NoRow \in ER!Row
      BY DEF ER!NoRow, ER!Row
    <3>2. row' \in [Accounts -> ER!Row]
      BY <2>1, <3>1 DEF ErasureTypes
    <3>. QED  BY <1>1, <2>1, <2>4, <3>2, NoJobIsAJob DEF ErasureTypes
  <2>6. IdsHaveOneOwner'
    <3>1. \A a \in Accounts : row'[a].id < nextId' /\ signing'[a] < nextId'
      BY <1>1, <2>3 DEF IdsHaveOneOwner, ErasureTypes
    <3>2. \A id \in sessions' : \E a \in Accounts : row'[a].id = id
      BY <2>1, <2>3 DEF IdsHaveOneOwner
    <3>3. \A a \in Accounts : row'[a].id # 0 /\ signing'[a] # 0 => signing'[a] = row'[a].id
      BY <1>1, <2>3 DEF IdsHaveOneOwner
    <3>4. \A a, b \in Accounts : a # b =>
            /\ row'[a].id # 0 => row'[a].id # row'[b].id /\ row'[a].id # signing'[b]
            /\ signing'[a] # 0 => signing'[a] # signing'[b]
      BY <1>1, <2>3 DEF IdsHaveOneOwner
    <3>. QED  BY <3>1, <3>2, <3>3, <3>4 DEF IdsHaveOneOwner
\* An id the job deletes is its account's alone.
  <2>7. ASSUME NEW id \in job.gone, NEW a \in Accounts
        PROVE  id # row'[a].id /\ id # signing[a] /\ id # 0 /\ id < nextId
    <3>1. PICK b \in Accounts : row[b].id = id /\ signing[b] = 0
      BY <2>7 DEF JobHoldsItsRows
    <3>2. id # 0 /\ id < nextId
      BY <2>4, <2>7, <3>1, IdsAreNumbers DEF IdsHaveOneOwner
    <3>3. id # signing[a]
      BY <3>1, <3>2 DEF IdsHaveOneOwner
    <3>. QED  BY <2>3, <2>7, <3>2, <3>3
  <2>8. \A f \in job.kept : /\ f.id \in job.gone /\ f.id < nextId
                            /\ f.kept <= trail[f.id] /\ f.id \notin sessions'
                            /\ \A a \in Accounts : f.id # row'[a].id /\ f.id # signing[a]
    <3> SUFFICES ASSUME NEW f \in job.kept
                 PROVE  /\ f.id \in job.gone /\ f.id < nextId
                        /\ f.kept <= trail[f.id] /\ f.id \notin sessions'
                        /\ \A a \in Accounts : f.id # row'[a].id /\ f.id # signing[a]
      OBVIOUS
    <3>1. f.id \in job.gone /\ f.kept <= trail[f.id]
      BY DEF JobHoldsItsRows
    <3>2. PICK b \in Accounts : row[b].id = f.id
      BY <3>1 DEF JobHoldsItsRows
    <3>. QED  BY <2>1, <2>7, <3>1, <3>2
  <2>9. \A f \in forgotten : /\ f.id < nextId /\ f.id # 0
                             /\ f.kept <= trail[f.id] /\ f.id \notin sessions'
                             /\ \A a \in Accounts : f.id # row'[a].id /\ f.id # signing[a]
    <3> SUFFICES ASSUME NEW f \in forgotten
                 PROVE  /\ f.id < nextId /\ f.id # 0
                        /\ f.kept <= trail[f.id] /\ f.id \notin sessions'
                        /\ \A a \in Accounts : f.id # row'[a].id /\ f.id # signing[a]
      OBVIOUS
    <3>1. f.id # 0
      BY IdsAreNumbers DEF ErasureTypes
    <3>. QED  BY <2>1, <2>3, <3>1 DEF ER!ForgottenIsGone
  <2>10. \A r \in retired' : r.old
    <3> SUFFICES ASSUME NEW r \in retired', r \notin retired
                 PROVE  r.old
      BY DEF ER!ForgottenIsGone
    <3>1. PICK a \in Accounts : r = row[a] /\ row[a].id \in job.gone
      BY <2>1 DEF ER!Deleted
    <3>2. job.kind = "retention"
      BY <2>1, <3>1 DEF ErasureTypes, Job, JobHoldsItsRows
    <3>. QED  BY <3>1, <3>2 DEF JobHoldsItsRows
  <2>11. ER!ForgottenIsGone'
    BY <1>1, <2>1, <2>8, <2>9, <2>10 DEF ER!ForgottenIsGone
  <2>. QED  BY <1>1, <1>2, <2>1, <2>5, <2>6, <2>8, <2>9, <2>11
<1>. QED  BY <1>3, <1>4

LEMMA ErasureStep == ErasureInv /\ [ER!Next]_(ER!vars) => ErasureInv'
<1> SUFFICES ASSUME ErasureInv, [ER!Next]_(ER!vars)
             PROVE  ErasureInv'
  OBVIOUS
<1>1. ASSUME NEW id \in ER!Ids, ER!Request(id)
      PROVE  ErasureInv'
  <2>1. UNCHANGED <<row, nextId, sessions, signing, job, forgotten, retired, trail>>
    BY <1>1 DEF ER!Request
  <2>2. trail' \in [ER!Ids -> Nat] /\ \A x \in ER!Ids : trail[x] <= trail'[x]
    BY <2>1 DEF ErasureInv, ErasureTypes
  <2>. QED  BY <2>1, <2>2, TrailGrows
<1>2. ASSUME NEW id \in ER!Ids, ER!Records(id)
      PROVE  ErasureInv'
  <2>1. /\ UNCHANGED <<row, nextId, sessions, signing, job, forgotten, retired>>
        /\ trail' = [trail EXCEPT ![id] = @ + 1]
    BY <1>2 DEF ER!Records
  <2>2. trail' \in [ER!Ids -> Nat] /\ \A x \in ER!Ids : trail[x] <= trail'[x]
    BY <2>1 DEF ErasureInv, ErasureTypes
  <2>. QED  BY <2>1, <2>2, TrailGrows
<1>3. ASSUME NEW yes \in BOOLEAN, ER!Forget(yes)
      PROVE  ErasureInv'
  <2> DEFINE todo == {a \in Accounts : row[a].id # 0}
  <2>1. /\ job' = [ER!NoJob EXCEPT !.kind = "forget", !.apply = yes, !.todo = todo]
        /\ UNCHANGED <<row, nextId, sessions, signing, trail, forgotten, retired>>
    BY <1>3 DEF ER!Forget
  <2>2. todo \in SUBSET Accounts /\ \A a \in todo : row[a].id # 0
    OBVIOUS
  <2> HIDE DEF todo
  <2>. QED  BY <2>1, <2>2, JobBegins
<1>4. ASSUME NEW yes \in BOOLEAN, ER!Retention(yes)
      PROVE  ErasureInv'
  <2> DEFINE todo == {a \in Accounts : row[a].id # 0 /\ row[a].old}
  <2>1. /\ job' = [ER!NoJob EXCEPT !.kind = "retention", !.apply = yes, !.todo = todo]
        /\ UNCHANGED <<row, nextId, sessions, signing, trail, forgotten, retired>>
    BY <1>4 DEF ER!Retention
  <2>2. todo \in SUBSET Accounts /\ \A a \in todo : row[a].id # 0
    OBVIOUS
  <2> HIDE DEF todo
  <2>. QED  BY <2>1, <2>2, JobBegins
<1>5. CASE UNCHANGED ER!vars
  BY <1>5 DEF ER!vars, ErasureInv, ErasureTypes, IdsHaveOneOwner, JobHoldsItsRows,
              ER!ForgottenIsGone
<1>. QED  BY <1>1, <1>2, <1>3, <1>4, <1>5, GrowOldKeeps, UpsertKeeps, SignedInKeeps,
             SignInFailsKeeps, ForgetAccountKeeps, RetireRowKeeps, EndJobKeeps
          DEF ER!Next

\* A forgotten person's id is in no account, sign-in or session, for any number
\* of accounts and ids and however sign-ins, requests and the job interleave
\* (app/privacy.py).
THEOREM ForgottenForGood == Spec => []ForgottenIsGone
<1>1. Init => ErasureInv
  BY ErasureInit DEF Init
<1>2. ErasureInv /\ [Next]_vars => ErasureInv'
  <2>1. [Next]_vars => [ER!Next]_(ER!vars)
    BY DEF Next, vars, Chat, RateLimit, ProviderKeys, SessionLife, Erasure,
           Serving, Migrations, ModelStream, EventParser, EvalGate, Only,
           erasureVars, ER!vars
  <2>. QED  BY <2>1, ErasureStep
<1>3. ErasureInv => ForgottenIsGone
  BY DEF ErasureInv, ForgottenIsGone
<1>. QED  BY <1>1, <1>2, <1>3, PTL DEF Spec

-----------------------------------------------------------------------------
(* Migrations.                                                             *)

Objects(n) == MG!Chain[n].objects
Index(n) == MG!Chain[n].index
Last == Len(MG!Chain)

\* The migration that makes an object or index.
Maker(x) ==
    IF x = "alerts" THEN 1
    ELSE IF x \in {"alerts.external_id", "uq_alerts_external_id"} THEN 2
    ELSE IF x = "ix_alerts_created_at_id" THEN 3
    ELSE IF x \in {"teams", "users", "memberships", "sessions", "login_requests",
               "alerts.team_id", "fk_alerts_team_id",
               "ix_alerts_team_id_created_at_id"} THEN 4
    ELSE IF x \in {"tenant_team_ids", "alerts_select", "alerts_insert",
               "alerts_delete"} THEN 5
    ELSE IF x \in {"runbooks", "runbook_chunks", "runbooks_update"} THEN 6
    ELSE IF x = "audit_events" THEN 7
    ELSE 9

\* No two migrations make the same object or index.
LEMMA EachHasOneMaker ==
    /\ Last = 9
    /\ \A n \in 1..Last : \A x \in Objects(n) \cup Index(n) : Maker(x) = n
    /\ \A n \in 1..Last : Objects(n) \cap Index(n) = {}
<1>1. Last = 9
  BY DEF Last, MG!Chain
<1>2. /\ Objects(1) = {"alerts"} /\ Index(1) = {}
      /\ Objects(2) = {"alerts.external_id"} /\ Index(2) = {"uq_alerts_external_id"}
      /\ Objects(3) = {} /\ Index(3) = {"ix_alerts_created_at_id"}
      /\ Objects(4) = {"teams", "users", "memberships", "sessions", "login_requests",
                       "alerts.team_id", "fk_alerts_team_id"}
      /\ Index(4) = {"ix_alerts_team_id_created_at_id"}
      /\ Objects(5) = {"tenant_team_ids", "alerts_select", "alerts_insert", "alerts_delete"}
      /\ Index(5) = {}
      /\ Objects(6) = {"runbooks", "runbook_chunks", "runbooks_update"} /\ Index(6) = {}
      /\ Objects(7) = {"audit_events"} /\ Index(7) = {}
      /\ Objects(8) = {} /\ Index(8) = {}
      /\ Objects(9) = {"assistant_switch"} /\ Index(9) = {}
  BY DEF Objects, Index, MG!Chain, MG!CreateAlerts, MG!AddAlertExternalId, MG!IndexAlerts,
         MG!TeamsUsersSessions, MG!RowLevelSecurity, MG!CreateRunbooks,
         MG!CreateAuditEvents, MG!AuditViaMcp, MG!CreateAssistantSwitch,
         MG!Creating, MG!Building
<1>3. \A n \in 1..9 : \/ n = 1 \/ n = 2 \/ n = 3 \/ n = 4 \/ n = 5
                      \/ n = 6 \/ n = 7 \/ n = 8 \/ n = 9
  OBVIOUS
<1>4. \A n \in 1..Last : \A x \in Objects(n) \cup Index(n) : Maker(x) = n
  <2>1. \A x \in {"alerts"} : Maker(x) = 1
    BY DEF Maker
  <2>2. \A x \in {"alerts.external_id", "uq_alerts_external_id"} :
          Maker(x) = 2
    BY DEF Maker
  <2>3. \A x \in {"ix_alerts_created_at_id"} : Maker(x) = 3
    BY DEF Maker
  <2>4. \A x \in {"teams", "users", "memberships", "sessions", "login_requests",
                  "alerts.team_id", "fk_alerts_team_id",
                  "ix_alerts_team_id_created_at_id"} : Maker(x) = 4
    BY DEF Maker
  <2>5. \A x \in {"tenant_team_ids", "alerts_select", "alerts_insert",
                  "alerts_delete"} : Maker(x) = 5
    BY DEF Maker
  <2>6. \A x \in {"runbooks", "runbook_chunks", "runbooks_update"} :
          Maker(x) = 6
    BY DEF Maker
  <2>7. \A x \in {"audit_events"} : Maker(x) = 7
    BY DEF Maker
  <2>8. \A x \in {"assistant_switch"} : Maker(x) = 9
    BY DEF Maker
  <2> SUFFICES ASSUME NEW n \in 1..9, NEW x \in Objects(n) \cup Index(n)
               PROVE  Maker(x) = n
    BY <1>1
  <2>9. CASE n \in {1, 2, 3}
    BY <1>2, <2>1, <2>2, <2>3, <2>9
  <2>10. CASE n = 4
    BY <1>2, <2>4, <2>10
  <2>11. CASE n \in {5, 6}
    BY <1>2, <2>5, <2>6, <2>11
  <2>12. CASE n \in {7, 8, 9}
    BY <1>2, <2>7, <2>8, <2>12
  <2>. QED  BY <1>3, <2>9, <2>10, <2>11, <2>12
<1>5. \A n \in 1..9 : Objects(n) \cap Index(n) = {}
  BY <1>2, <1>3
<1>. QED  BY <1>1, <1>4, <1>5

\* What the first migrations have made, migration by migration.
LEMMA EffectsGrow ==
    /\ Last \in Nat
    /\ \A n \in 0..Last : \A m \in 0..n : MG!Effects(m) \subseteq MG!Effects(n)
    /\ \A n \in 0..(Last - 1) :
          /\ n + 1 \in 1..Last
          /\ MG!Effects(n + 1) = MG!Effects(n) \cup Objects(n + 1) \cup Index(n + 1)
          /\ Objects(n + 1) \cap MG!Effects(n) = {}
          /\ Index(n + 1) \cap (MG!Effects(n) \cup Objects(n + 1)) = {}
<1>1. Last \in Nat
  BY EachHasOneMaker
<1>2. \A n \in 0..Last : \A x : x \in MG!Effects(n) <=>
                                \E m \in 1..n : x \in Objects(m) \cup Index(m)
  BY DEF MG!Effects, Objects, Index
<1>3. \A n \in 0..Last : \A m \in 0..n : MG!Effects(m) \subseteq MG!Effects(n)
  BY <1>1, <1>2
<1>4. ASSUME NEW n \in 0..(Last - 1)
      PROVE  /\ n + 1 \in 1..Last
             /\ MG!Effects(n + 1) = MG!Effects(n) \cup Objects(n + 1) \cup Index(n + 1)
             /\ Objects(n + 1) \cap MG!Effects(n) = {}
             /\ Index(n + 1) \cap (MG!Effects(n) \cup Objects(n + 1)) = {}
  <2>1. n + 1 \in 1..Last /\ n \in 0..Last
    BY <1>1
  <2>2. MG!Effects(n + 1) = MG!Effects(n) \cup Objects(n + 1) \cup Index(n + 1)
    <3>1. \A m : m \in 1..(n + 1) <=> m \in 1..n \/ m = n + 1
      BY <2>1
    <3>. QED  BY <1>1, <1>2, <2>1, <3>1
  <2>3. \A x \in MG!Effects(n) : x \notin Objects(n + 1) \cup Index(n + 1)
    <3> SUFFICES ASSUME NEW x \in MG!Effects(n), x \in Objects(n + 1) \cup Index(n + 1)
                 PROVE  FALSE
      OBVIOUS
    <3>1. PICK m \in 1..n : x \in Objects(m) \cup Index(m)
      BY <1>2, <2>1
    <3>2. Maker(x) = m /\ Maker(x) = n + 1
      BY <1>1, <2>1, <3>1, EachHasOneMaker
    <3>. QED  BY <3>2
  <2>. QED  BY <2>1, <2>2, <2>3, EachHasOneMaker
<1>. QED  BY <1>1, <1>3, <1>4

RunRecord == [stage : MG!Stages, at : 0..Last, pending : SUBSET MG!Effects(Last)]
UnderLock == {"locked", "upgrading", "committing", "building"}

\* What one run has done, and what it has yet to commit.
RunIsSound(r) ==
    /\ run[r].stage \in UnderLock => holder = r
    /\ run[r].stage \notin {"upgrading", "committing"} => run[r].pending = {}
    /\ run[r].stage = "upgrading" =>
          /\ stamp <= run[r].at
          /\ MG!Effects(run[r].at) \subseteq schema \cup run[r].pending
          /\ run[r].pending \subseteq MG!Effects(run[r].at)
    /\ run[r].stage = "committing" =>
          /\ run[r].at < Last /\ stamp <= run[r].at
          /\ MG!Effects(run[r].at) \cup Objects(run[r].at + 1)
                \subseteq schema \cup run[r].pending
          /\ run[r].pending \subseteq MG!Effects(run[r].at) \cup Objects(run[r].at + 1)
    /\ run[r].stage = "building" =>
          /\ run[r].at < Last /\ stamp = run[r].at
          /\ MG!Effects(run[r].at) \cup Objects(run[r].at + 1) \subseteq schema

\* Without failures the committed schema holds nothing of what a run has yet to
\* make.
RunIsClean(r) ==
    /\ run[r].stage \in {"upgrading", "committing"} => schema \subseteq MG!Effects(run[r].at)
    /\ run[r].stage = "building" =>
          schema \subseteq MG!Effects(run[r].at) \cup Objects(run[r].at + 1)

SchemaIsSound ==
    /\ stamp \in 0..Last /\ failures \in Nat
    /\ MG!Effects(stamp) \subseteq schema /\ schema \subseteq MG!Effects(Last)
    /\ stamp < Last => schema \subseteq MG!Effects(stamp + 1)

Making == {"upgrading", "committing", "building"}

MigrationInv ==
    /\ SchemaIsSound
    /\ run \in [Runs -> RunRecord]
    /\ \A r \in Runs : RunIsSound(r)
    /\ failures = 0 =>
          /\ invalid = {} /\ clashed = {}
          /\ \A r \in Runs : RunIsClean(r)
          /\ (\A r \in Runs : run[r].stage \notin Making) => schema \subseteq MG!Effects(stamp)

LEMMA StageFacts ==
    /\ UnderLock \subseteq MG!Stages /\ Making \subseteq UnderLock
    /\ "waiting" \notin UnderLock /\ "done" \notin UnderLock /\ "failed" \notin UnderLock
    /\ None \notin Runs
<1>1. None \notin Runs
  BY ServicesConstants DEF MG!MigrationConstants
<1>. QED  BY <1>1 DEF UnderLock, Making, MG!Stages

\* A step of the run that has the lock disturbs no other run.
LEMMA HolderSteps ==
    ASSUME MigrationInv, NEW r \in Runs, run[r].stage \in UnderLock,
           NEW new \in RunRecord, run' = [run EXCEPT ![r] = new],
           SchemaIsSound', RunIsSound(r)',
           failures' = 0 =>
              /\ failures = 0 /\ invalid' = {} /\ clashed' = {} /\ RunIsClean(r)'
              /\ new.stage \notin Making => schema' \subseteq MG!Effects(stamp')
    PROVE  MigrationInv'
<1>1. /\ run' \in [Runs -> RunRecord] /\ run'[r] = new
      /\ \A s \in Runs : s # r => run'[s] = run[s]
  BY DEF MigrationInv
<1>2. \A s \in Runs : s # r => /\ run'[s].stage \notin UnderLock
                               /\ run'[s].pending = {}
  BY <1>1 DEF MigrationInv, RunIsSound, UnderLock
<1>3. \A s \in Runs : RunIsSound(s)' /\ (failures' = 0 => RunIsClean(s)')
  <2> SUFFICES ASSUME NEW s \in Runs, s # r
               PROVE  RunIsSound(s)' /\ RunIsClean(s)'
    OBVIOUS
  <2>. QED  BY <1>2 DEF RunIsSound, RunIsClean, UnderLock
<1>4. (\A s \in Runs : run'[s].stage \notin Making) => new.stage \notin Making
  BY <1>1
<1>. QED  BY <1>1, <1>3, <1>4 DEF MigrationInv

LEMMA MigrationInit == MG!Init => MigrationInv
<1> SUFFICES ASSUME MG!Init  PROVE MigrationInv
  OBVIOUS
<1>1. PICK n \in 0..Last : stamp = n /\ schema = MG!Effects(n)
  BY DEF MG!Init, Last
<1>2. /\ invalid = {} /\ clashed = {} /\ failures = 0
      /\ run = [r \in Runs |-> MG!Waiting]
  BY DEF MG!Init
<1>3. MG!Waiting \in RunRecord /\ MG!Waiting.stage = "waiting" /\ MG!Waiting.pending = {}
  BY EffectsGrow DEF MG!Waiting, RunRecord, MG!Stages
<1>4. SchemaIsSound
  <2>1. Last \in 0..Last /\ (n < Last => n + 1 \in 0..Last /\ n \in 0..(n + 1))
    BY EffectsGrow
  <2>2. schema \subseteq MG!Effects(Last)
    BY <1>1, <2>1, EffectsGrow
  <2>3. n < Last => schema \subseteq MG!Effects(n + 1)
    BY <1>1, <2>1, EffectsGrow
  <2>. QED  BY <1>1, <1>2, <2>2, <2>3 DEF SchemaIsSound
<1>5. \A r \in Runs : RunIsSound(r) /\ RunIsClean(r)
  BY <1>2, <1>3 DEF RunIsSound, RunIsClean, UnderLock
<1>. QED  BY <1>1, <1>2, <1>3, <1>4, <1>5 DEF MigrationInv

LEMMA TakeLockKeeps ==
    ASSUME MigrationInv, NEW r \in Runs, MG!TakeLock(r)
    PROVE  MigrationInv'
<1>1. /\ run[r].stage = "waiting" /\ holder = None /\ holder' = r
      /\ schema' = schema /\ invalid' = invalid /\ stamp' = stamp
      /\ clashed' = clashed /\ failures' = failures
  BY DEF MG!TakeLock
<1>2. /\ run' \in [Runs -> RunRecord] /\ run'[r].stage = "locked"
      /\ run'[r].pending = run[r].pending
      /\ \A s \in Runs : s # r => run'[s] = run[s]
  <2> DEFINE new == [run[r] EXCEPT !.stage = "locked"]
  <2>1. run[r] \in RunRecord /\ run \in [Runs -> RunRecord]
    BY DEF MigrationInv
  <2>2. new \in RunRecord /\ new.stage = "locked" /\ new.pending = run[r].pending
    BY <2>1 DEF RunRecord, MG!Stages
  <2>3. run' = [run EXCEPT ![r] = new]
    BY <2>1 DEF MG!TakeLock
  <2> HIDE DEF new
  <2>. QED  BY <2>1, <2>2, <2>3
<1>3. \A s \in Runs : run[s].stage \notin UnderLock
  BY <1>1, StageFacts DEF MigrationInv, RunIsSound
<1>4. SchemaIsSound'
  BY <1>1 DEF MigrationInv, SchemaIsSound
<1>5. \A s \in Runs : RunIsSound(s)'
  <2>1. RunIsSound(r)'
    BY <1>1, <1>2 DEF MigrationInv, RunIsSound
  <2>2. ASSUME NEW s \in Runs, s # r  PROVE RunIsSound(s)'
    BY <1>2, <1>3, <2>2 DEF MigrationInv, RunIsSound, UnderLock
  <2>. QED  BY <2>1, <2>2
<1>6. \A s \in Runs : RunIsClean(s)'
  BY <1>2, <1>3 DEF RunIsClean, UnderLock
<1>7. \A s \in Runs : run[s].stage \notin Making
  BY <1>3, StageFacts
<1>. QED  BY <1>1, <1>2, <1>4, <1>5, <1>6, <1>7 DEF MigrationInv

LEMMA ReadVersionKeeps ==
    ASSUME MigrationInv, NEW r \in Runs, MG!ReadVersion(r)
    PROVE  MigrationInv'
<1> DEFINE new == [run[r] EXCEPT !.stage = "upgrading", !.at = stamp]
<1>1. /\ run[r].stage = "locked" /\ holder' = holder
      /\ schema' = schema /\ invalid' = invalid /\ stamp' = stamp
      /\ clashed' = clashed /\ failures' = failures
  BY DEF MG!ReadVersion
<1>2. run[r] \in RunRecord /\ stamp \in 0..Last /\ run \in [Runs -> RunRecord]
  BY DEF MigrationInv, SchemaIsSound
<1>3. /\ new \in RunRecord /\ new.stage = "upgrading" /\ new.at = stamp
      /\ new.pending = run[r].pending
  BY <1>2 DEF RunRecord, MG!Stages
<1>4. run' = [run EXCEPT ![r] = new]
  BY <1>2 DEF MG!ReadVersion
<1> HIDE DEF new
<1>5. run[r].pending = {} /\ holder = r
  BY <1>1 DEF MigrationInv, RunIsSound, UnderLock
<1>6. SchemaIsSound'
  BY <1>1 DEF MigrationInv, SchemaIsSound
<1>7. run'[r] = new
  BY <1>2, <1>3, <1>4
<1>8. RunIsSound(r)'
  BY <1>1, <1>2, <1>3, <1>5, <1>7 DEF MigrationInv, SchemaIsSound, RunIsSound, UnderLock
<1>9. failures = 0 => RunIsClean(r)'
  <2>1. \A s \in Runs : run[s].stage \notin Making
    BY <1>1, <1>5 DEF MigrationInv, RunIsSound, UnderLock, Making
  <2>. QED  BY <1>1, <1>3, <1>7, <2>1 DEF MigrationInv, RunIsClean
<1>10. run[r].stage \in UnderLock /\ new.stage \in Making
  BY <1>1, <1>3 DEF UnderLock, Making
<1>. QED  BY <1>1, <1>3, <1>4, <1>6, <1>8, <1>9, <1>10, HolderSteps DEF MigrationInv

\* A run that ends with an error commits nothing.
LEMMA GivesUpKeeps ==
    ASSUME MigrationInv, NEW r \in Runs, run[r].stage \in UnderLock, NEW found,
           MG!GivesUp(r, found), failures' \in Nat \ {0}
    PROVE  MigrationInv'
<1> DEFINE new == [MG!Waiting EXCEPT !.stage = "failed"]
<1>1. /\ run' = [run EXCEPT ![r] = new]
      /\ schema' = schema /\ stamp' = stamp
  BY DEF MG!GivesUp
<1>2. /\ new \in RunRecord /\ new.stage = "failed" /\ new.pending = {}
  BY EffectsGrow DEF MG!Waiting, RunRecord, MG!Stages
<1> HIDE DEF new
<1>3. SchemaIsSound'
  BY <1>1 DEF MigrationInv, SchemaIsSound
<1>4. run'[r] = new
  BY <1>1, <1>2 DEF MigrationInv
<1>5. RunIsSound(r)'
  BY <1>2, <1>4 DEF RunIsSound, UnderLock
<1>. QED  BY <1>1, <1>2, <1>3, <1>5, HolderSteps

LEMMA FailKeeps ==
    ASSUME MigrationInv, NEW r \in Runs, MG!Fail(r)
    PROVE  MigrationInv'
<1>1. run[r].stage \in UnderLock /\ failures' = failures + 1 /\ MG!GivesUp(r, {})
  BY DEF MG!Fail, UnderLock
<1>2. failures' \in Nat \ {0}
  BY <1>1 DEF MigrationInv, SchemaIsSound
<1>. QED  BY <1>1, <1>2, GivesUpKeeps

LEMMA UpgradeKeeps ==
    ASSUME MigrationInv, NEW r \in Runs, MG!Upgrade(r)
    PROVE  MigrationInv'
<1> DEFINE at == run[r].at
           objects == Objects(at + 1)
           index == Index(at + 1)
           exists == objects \cap (schema \cup invalid)
           new == [run[r] EXCEPT !.pending = @ \cup objects,
                      !.stage = IF index = {} THEN "upgrading" ELSE "committing",
                      !.at = IF index = {} THEN @ + 1 ELSE @]
<1>1. /\ run[r].stage = "upgrading" /\ at < Last
      /\ \/ exists # {} /\ MG!GivesUp(r, exists) /\ UNCHANGED failures
         \/ /\ exists = {} /\ run' = [run EXCEPT ![r] = new]
            /\ UNCHANGED <<schema, invalid, stamp, holder, clashed, failures>>
  <2>1. run[r].stage = "upgrading" /\ at < Last
    BY DEF MG!Upgrade, Last
  <2>2. CASE exists # {} /\ MG!GivesUp(r, exists) /\ UNCHANGED failures
    BY <2>1, <2>2
  <2>3. CASE ~(exists # {} /\ MG!GivesUp(r, exists) /\ UNCHANGED failures)
    <3>1. /\ exists = {}
          /\ run' = [run EXCEPT
                        ![r].pending = @ \cup objects,
                        ![r].stage = IF index = {} THEN "upgrading" ELSE "committing",
                        ![r].at = IF index = {} THEN @ + 1 ELSE @]
          /\ UNCHANGED <<schema, invalid, stamp, holder, clashed, failures>>
      BY <2>3 DEF MG!Upgrade, Objects, Index
    <3>2. run \in [Runs -> RunRecord] /\ run[r] \in RunRecord
      BY DEF MigrationInv
    <3> HIDE DEF exists, objects, index
    <3>. QED  BY <2>1, <3>1, <3>2 DEF RunRecord
  <2>. QED  BY <2>2, <2>3
<1>2. run[r] \in RunRecord /\ at \in 0..(Last - 1) /\ Last \in Nat
  BY <1>1, EffectsGrow DEF MigrationInv, RunRecord
<1>3. /\ at + 1 \in 0..Last /\ at \in 0..Last
      /\ MG!Effects(at + 1) = MG!Effects(at) \cup objects \cup index
      /\ objects \cap MG!Effects(at) = {}
      /\ MG!Effects(at + 1) \subseteq MG!Effects(Last)
  <2>1. at + 1 \in 0..Last /\ at \in 0..Last /\ Last \in 0..Last
    BY <1>2
  <2>. QED  BY <1>2, <2>1, EffectsGrow
<1>4. /\ holder = r /\ stamp <= at /\ run[r].pending \subseteq MG!Effects(at)
      /\ MG!Effects(at) \subseteq schema \cup run[r].pending
  BY <1>1 DEF MigrationInv, RunIsSound, UnderLock
<1>5. run[r].stage \in UnderLock
  BY <1>1 DEF UnderLock
<1>6. failures = 0 => schema \subseteq MG!Effects(at) /\ exists = {}
  BY <1>1, <1>3 DEF MigrationInv, RunIsClean
<1>7. CASE exists # {} /\ MG!GivesUp(r, exists) /\ UNCHANGED failures
  <2>1. failures' \in Nat \ {0}
    BY <1>6, <1>7 DEF MigrationInv, SchemaIsSound
  <2> HIDE DEF exists
  <2>. QED  BY <1>5, <1>7, <2>1, GivesUpKeeps
<1>8. CASE /\ run' = [run EXCEPT ![r] = new]
           /\ UNCHANGED <<schema, invalid, stamp, holder, clashed, failures>>
  <2> HIDE DEF exists, objects, index
  <2>1. /\ new \in RunRecord /\ new.pending = run[r].pending \cup objects
        /\ index = {} => new.stage = "upgrading" /\ new.at = at + 1
        /\ index # {} => new.stage = "committing" /\ new.at = at
    <3>1. run[r].pending \cup objects \in SUBSET MG!Effects(Last)
      BY <1>3, <1>4
    <3>. QED  BY <1>2, <1>3, <3>1 DEF RunRecord, MG!Stages
  <2> HIDE DEF new
  <2>2. SchemaIsSound'
    BY <1>8 DEF MigrationInv, SchemaIsSound
  <2>3. run'[r] = new
    BY <1>8, <2>1 DEF MigrationInv
  <2>4. stamp \in Nat /\ stamp <= at + 1
    BY <1>2, <1>4 DEF MigrationInv, SchemaIsSound
  <2>5. RunIsSound(r)'
    <3>1. CASE index = {}
      BY <1>3, <1>4, <1>8, <2>1, <2>3, <2>4, <3>1 DEF RunIsSound, UnderLock
    <3>2. CASE index # {}
      BY <1>1, <1>3, <1>4, <1>8, <2>1, <2>3, <2>4, <3>2 DEF RunIsSound, UnderLock, objects
    <3>. QED  BY <3>1, <3>2
  <2>6. failures = 0 => RunIsClean(r)'
    BY <1>3, <1>6, <1>8, <2>1, <2>3 DEF RunIsClean
  <2>7. new.stage \in Making
    BY <2>1 DEF Making
  <2>. QED  BY <1>5, <1>8, <2>1, <2>2, <2>5, <2>6, <2>7, HolderSteps DEF MigrationInv
<1>. QED  BY <1>1, <1>7, <1>8

LEMMA CommitForBlockKeeps ==
    ASSUME MigrationInv, NEW r \in Runs, MG!CommitForBlock(r)
    PROVE  MigrationInv'
<1> DEFINE at == run[r].at
           objects == Objects(at + 1)
           new == [run[r] EXCEPT !.stage = "building", !.pending = {}]
<1>1. /\ run[r].stage = "committing" /\ schema' = schema \cup run[r].pending
      /\ stamp' = at /\ UNCHANGED <<invalid, holder, clashed, failures>>
  BY DEF MG!CommitForBlock, MG!Commits
<1>2. /\ holder = r /\ at < Last /\ stamp <= at
      /\ MG!Effects(at) \cup objects \subseteq schema \cup run[r].pending
      /\ run[r].pending \subseteq MG!Effects(at) \cup objects
  BY <1>1 DEF MigrationInv, RunIsSound, UnderLock
<1>3. run[r] \in RunRecord /\ run \in [Runs -> RunRecord] /\ at \in 0..(Last - 1)
      /\ Last \in Nat
  BY <1>2, EffectsGrow DEF MigrationInv, RunRecord
<1>4. /\ new \in RunRecord /\ new.stage = "building" /\ new.pending = {} /\ new.at = at
      /\ run' = [run EXCEPT ![r] = new]
  <2>1. new \in RunRecord /\ new.stage = "building" /\ new.pending = {} /\ new.at = at
    BY <1>3 DEF RunRecord, MG!Stages
  <2>2. run' = [run EXCEPT ![r] = new]
    BY <1>3 DEF MG!CommitForBlock
  <2>. QED  BY <2>1, <2>2
<1> HIDE DEF new
<1>5. /\ MG!Effects(at + 1) = MG!Effects(at) \cup objects \cup Index(at + 1)
      /\ MG!Effects(at + 1) \subseteq MG!Effects(Last)
      /\ stamp < at => MG!Effects(stamp + 1) \subseteq MG!Effects(at)
  <2>1. /\ at + 1 \in 0..Last /\ Last \in 0..Last /\ at \in 0..Last
        /\ stamp < at => stamp + 1 \in 0..at
    BY <1>3 DEF MigrationInv, SchemaIsSound
  <2>. QED  BY <1>3, <2>1, EffectsGrow
<1>6. schema \subseteq MG!Effects(at + 1)
  <2>1. stamp \in 0..Last /\ (stamp < Last => schema \subseteq MG!Effects(stamp + 1))
    BY DEF MigrationInv, SchemaIsSound
  <2>2. CASE stamp = at
    BY <1>2, <2>1, <2>2
  <2>3. CASE stamp # at
    BY <1>2, <1>3, <1>5, <2>1, <2>3
  <2>. QED  BY <2>2, <2>3
<1>7. SchemaIsSound'
  <2>1. at \in 0..Last /\ failures' \in Nat
    BY <1>1, <1>3 DEF MigrationInv, SchemaIsSound
  <2>. QED  BY <1>1, <1>2, <1>5, <1>6, <2>1 DEF SchemaIsSound
<1>8. run'[r] = new
  BY <1>3, <1>4
<1>9. RunIsSound(r)'
  BY <1>1, <1>2, <1>4, <1>8 DEF RunIsSound, UnderLock
<1>10. failures = 0 => RunIsClean(r)'
  BY <1>1, <1>2, <1>4, <1>8 DEF MigrationInv, RunIsClean
<1>11. run[r].stage \in UnderLock /\ new.stage \in Making
  BY <1>1, <1>4 DEF UnderLock, Making
<1>. QED  BY <1>1, <1>4, <1>7, <1>9, <1>10, <1>11, HolderSteps DEF MigrationInv

LEMMA BuildKeeps ==
    ASSUME MigrationInv, NEW r \in Runs, MG!Build(r)
    PROVE  MigrationInv'
<1> DEFINE at == run[r].at
           index == Index(at + 1)
           exists == index \cap (schema \cup invalid)
           new == [run[r] EXCEPT !.stage = "upgrading", !.at = @ + 1]
<1>1. run \in [Runs -> RunRecord] /\ run[r] \in RunRecord
  BY DEF MigrationInv
<1>2. /\ run[r].stage = "building"
      /\ \/ exists # {} /\ MG!GivesUp(r, exists) /\ UNCHANGED failures
         \/ /\ exists = {} /\ schema' = schema \cup index
            /\ run' = [run EXCEPT ![r] = new]
            /\ UNCHANGED <<invalid, stamp, holder, clashed, failures>>
  <2>1. run[r].stage = "building"
    BY DEF MG!Build
  <2>2. CASE exists # {} /\ MG!GivesUp(r, exists) /\ UNCHANGED failures
    BY <2>1, <2>2
  <2>3. CASE ~(exists # {} /\ MG!GivesUp(r, exists) /\ UNCHANGED failures)
    <3>1. /\ exists = {} /\ schema' = schema \cup index
          /\ run' = [run EXCEPT ![r].stage = "upgrading", ![r].at = @ + 1]
          /\ UNCHANGED <<invalid, stamp, holder, clashed, failures>>
      BY <2>3 DEF MG!Build, Index
    <3> HIDE DEF exists, index
    <3>. QED  BY <1>1, <2>1, <3>1
  <2>. QED  BY <2>2, <2>3
<1>3. /\ holder = r /\ at < Last /\ stamp = at
      /\ MG!Effects(at) \cup Objects(at + 1) \subseteq schema
      /\ run[r].pending = {}
  BY <1>2 DEF MigrationInv, RunIsSound, UnderLock
<1>4. at \in 0..(Last - 1) /\ Last \in Nat
  BY <1>1, <1>3, EffectsGrow DEF RunRecord
<1>5. /\ at + 1 \in 0..Last
      /\ MG!Effects(at + 1) = MG!Effects(at) \cup Objects(at + 1) \cup index
      /\ index \cap (MG!Effects(at) \cup Objects(at + 1)) = {}
      /\ MG!Effects(at + 1) \subseteq MG!Effects(Last)
  <2>1. at + 1 \in 0..Last /\ Last \in 0..Last
    BY <1>4
  <2>. QED  BY <1>4, <2>1, EffectsGrow
<1>6. /\ failures = 0 => exists = {}
      /\ schema \subseteq MG!Effects(at + 1)
  BY <1>2, <1>3, <1>5 DEF MigrationInv, RunIsClean, SchemaIsSound
<1>7. run[r].stage \in UnderLock
  BY <1>2 DEF UnderLock
<1>8. CASE exists # {} /\ MG!GivesUp(r, exists) /\ UNCHANGED failures
  <2>1. failures' \in Nat \ {0}
    BY <1>6, <1>8 DEF MigrationInv, SchemaIsSound
  <2> HIDE DEF exists
  <2>. QED  BY <1>7, <1>8, <2>1, GivesUpKeeps
<1>9. CASE /\ schema' = schema \cup index /\ run' = [run EXCEPT ![r] = new]
           /\ UNCHANGED <<invalid, stamp, holder, clashed, failures>>
  <2>1. /\ new \in RunRecord /\ new.stage = "upgrading" /\ new.at = at + 1
        /\ new.pending = {}
    BY <1>1, <1>3, <1>5 DEF RunRecord, MG!Stages
  <2> HIDE DEF new, exists, index
  <2>2. /\ schema' \subseteq MG!Effects(at + 1) /\ MG!Effects(at + 1) \subseteq schema'
    BY <1>3, <1>5, <1>6, <1>9
  <2>3. SchemaIsSound'
    BY <1>3, <1>5, <1>9, <2>2 DEF MigrationInv, SchemaIsSound
  <2>4. run'[r] = new
    BY <1>1, <1>9, <2>1
  <2>5. RunIsSound(r)'
    BY <1>3, <1>4, <1>9, <2>1, <2>2, <2>4 DEF RunIsSound, UnderLock
  <2>6. RunIsClean(r)'
    BY <2>1, <2>2, <2>4 DEF RunIsClean
  <2>7. new.stage \in Making
    BY <2>1 DEF Making
  <2>. QED  BY <1>7, <1>9, <2>1, <2>3, <2>5, <2>6, <2>7, HolderSteps DEF MigrationInv
<1>. QED  BY <1>2, <1>8, <1>9

LEMMA FinishKeeps ==
    ASSUME MigrationInv, NEW r \in Runs, MG!Finish(r)
    PROVE  MigrationInv'
<1> DEFINE new == [MG!Waiting EXCEPT !.stage = "done"]
<1>1. /\ run[r].stage = "upgrading" /\ run[r].at = Last
      /\ schema' = schema \cup run[r].pending /\ stamp' = Last
      /\ run' = [run EXCEPT ![r] = new]
      /\ UNCHANGED <<invalid, clashed, failures>>
  BY DEF MG!Finish, MG!Commits, Last
<1>2. /\ new \in RunRecord /\ new.stage = "done" /\ new.pending = {}
  BY EffectsGrow DEF MG!Waiting, RunRecord, MG!Stages
<1> HIDE DEF new
<1>3. /\ MG!Effects(Last) \subseteq schema \cup run[r].pending
      /\ run[r].pending \subseteq MG!Effects(Last)
  BY <1>1 DEF MigrationInv, RunIsSound
<1>4. SchemaIsSound'
  BY <1>1, <1>3, EffectsGrow DEF MigrationInv, SchemaIsSound
<1>5. run'[r] = new
  BY <1>1, <1>2 DEF MigrationInv
<1>6. RunIsSound(r)' /\ RunIsClean(r)'
  BY <1>2, <1>5 DEF RunIsSound, RunIsClean, UnderLock
<1>7. schema' \subseteq MG!Effects(stamp')
  BY <1>1, <1>4 DEF SchemaIsSound
<1>8. run[r].stage \in UnderLock
  BY <1>1 DEF UnderLock
<1>. QED  BY <1>1, <1>2, <1>4, <1>6, <1>7, <1>8, HolderSteps DEF MigrationInv

LEMMA RetryKeeps ==
    ASSUME MigrationInv, NEW r \in Runs, MG!Retry(r)
    PROVE  MigrationInv'
<1>1. /\ run[r].stage = "failed" /\ run' = [run EXCEPT ![r] = MG!Waiting]
      /\ UNCHANGED <<schema, invalid, stamp, holder, clashed, failures>>
  BY DEF MG!Retry
<1>2. MG!Waiting \in RunRecord /\ MG!Waiting.stage = "waiting" /\ MG!Waiting.pending = {}
  BY EffectsGrow DEF MG!Waiting, RunRecord, MG!Stages
<1>3. /\ run' \in [Runs -> RunRecord] /\ run'[r] = MG!Waiting
      /\ \A s \in Runs : s # r => run'[s] = run[s]
  BY <1>1, <1>2 DEF MigrationInv
<1>4. SchemaIsSound'
  BY <1>1 DEF MigrationInv, SchemaIsSound
<1>5. \A s \in Runs : /\ RunIsSound(s)' /\ (RunIsClean(s) => RunIsClean(s)')
                      /\ run[s].stage \in Making <=> run'[s].stage \in Making
  <2> SUFFICES ASSUME NEW s \in Runs
               PROVE  /\ RunIsSound(s)' /\ (RunIsClean(s) => RunIsClean(s)')
                      /\ run[s].stage \in Making <=> run'[s].stage \in Making
    OBVIOUS
  <2>1. CASE s = r
    BY <1>1, <1>2, <1>3, <2>1 DEF RunIsSound, RunIsClean, UnderLock, Making
  <2>2. CASE s # r
    BY <1>1, <1>3, <2>2 DEF MigrationInv, RunIsSound, RunIsClean
  <2>. QED  BY <2>1, <2>2
<1>. QED  BY <1>1, <1>3, <1>4, <1>5 DEF MigrationInv

LEMMA MigrationStep == MigrationInv /\ [MG!Next]_(MG!vars) => MigrationInv'
<1> SUFFICES ASSUME MigrationInv, [MG!Next]_(MG!vars)
             PROVE  MigrationInv'
  OBVIOUS
<1>1. ASSUME NEW index, MG!DropInvalid(index)
      PROVE  MigrationInv'
  <2>1. /\ UNCHANGED <<schema, stamp, holder, run, clashed, failures>>
        /\ invalid' = invalid \ {index}
    BY <1>1 DEF MG!DropInvalid
  <2>. QED  BY <2>1 DEF MigrationInv, SchemaIsSound, RunIsSound, RunIsClean
<1>2. CASE UNCHANGED MG!vars
  BY <1>2 DEF MG!vars, MigrationInv, SchemaIsSound, RunIsSound, RunIsClean
<1>. QED  BY <1>1, <1>2, TakeLockKeeps, ReadVersionKeeps, UpgradeKeeps,
             CommitForBlockKeeps, BuildKeeps, FinishKeeps, FailKeeps, RetryKeeps
          DEF MG!Next

\* However many runs are started together and however often they fail and are
\* retried, the committed schema agrees with its version, and without failures
\* no run finds anything in its way (env.py).
THEOREM MigrationsTakeTurns == Spec => []MigrationsDoNotCollide
<1>1. Init => MigrationInv
  BY MigrationInit DEF Init
<1>2. MigrationInv /\ [Next]_vars => MigrationInv'
  <2>1. [Next]_vars => [MG!Next]_(MG!vars)
    BY DEF Next, vars, Chat, RateLimit, ProviderKeys, SessionLife, Erasure,
           Serving, Migrations, ModelStream, EventParser, EvalGate, Only,
           migrationVars, MG!vars
  <2>. QED  BY <2>1, MigrationStep
<1>3. MigrationInv => MigrationsDoNotCollide
  BY DEF MigrationInv, SchemaIsSound, MigrationsDoNotCollide, MG!MigrationsDoNotCollide, Last
<1>. QED  BY <1>1, <1>2, <1>3, PTL DEF Spec

-----------------------------------------------------------------------------
(* Serving.                                                                *)

Statuses == {200, 404, 500, 503}
Reply == [stage : {"none", "handling", "streaming", "sent"}, status : Statuses]
Holding == [by : ServedRequests \cup {SV!Nobody}, state : {"free", "querying"}]

\* The requests the middleware is in.
InHand(replies) ==
    {r \in ServedRequests : replies[r].stage \in {"handling", "streaming"}}

\* The gauge and the counter agree with what the clients were sent.
AccountsAreRight ==
    /\ reply \in [ServedRequests -> Reply]
    /\ counted \in [ServedRequests -> SUBSET Statuses]
    /\ \A r \in ServedRequests :
          counted[r] = IF reply[r].stage = "sent" THEN {reply[r].status} ELSE {}
    /\ IsFiniteSet(InHand(reply)) /\ inProgress = Cardinality(InHand(reply))

\* A connection is held for one request's work, which holds no other; work
\* outlives its request only where a probe gave up on it.
HoldingsAreRight ==
    /\ frozen \in BOOLEAN
    /\ conn \in [Conns -> Holding]
    /\ work \in [ServedRequests -> {"none", "waiting", "querying", "over"}]
    /\ sort \in [ServedRequests -> {"route", "stream", "probe"}]
    /\ \A c \in Conns :
          /\ conn[c].state = "free" => conn[c].by = SV!Nobody
          /\ conn[c].state = "querying" =>
                conn[c].by \in ServedRequests /\ work[conn[c].by] = "querying"
    /\ \A c, d \in Conns : c # d /\ conn[c].state = "querying" => conn[c].by # conn[d].by
    /\ \A r \in ServedRequests :
          /\ work[r] \in {"waiting", "querying"} =>
                reply[r].stage = "handling" \/ sort[r] = "probe"
          /\ reply[r].stage = "none" => work[r] = "none"

ServingInv == AccountsAreRight /\ HoldingsAreRight

LEMMA ServingInit == SV!Init => ServingInv
<1> SUFFICES ASSUME SV!Init  PROVE ServingInv
  OBVIOUS
<1>1. /\ reply = [r \in ServedRequests |-> [stage |-> "none", status |-> 500]]
      /\ inProgress = 0 /\ counted = [r \in ServedRequests |-> {}]
      /\ frozen = FALSE /\ conn = [c \in Conns |-> SV!FreeConn]
      /\ work = [r \in ServedRequests |-> "none"]
      /\ sort \in [ServedRequests -> {"route", "stream", "probe"}]
  BY DEF SV!Init
<1>2. InHand(reply) = {}
  BY <1>1 DEF InHand
<1>3. AccountsAreRight
  BY <1>1, <1>2, FS_EmptySet DEF AccountsAreRight, Reply, Statuses
<1>4. SV!FreeConn \in Holding /\ SV!FreeConn.state = "free" /\ SV!FreeConn.by = SV!Nobody
  BY DEF SV!FreeConn, Holding
<1>5. HoldingsAreRight
  BY <1>1, <1>4 DEF HoldingsAreRight
<1>. QED  BY <1>3, <1>5 DEF ServingInv

\* The middleware's finally.
LEMMA SendsKeeps ==
    ASSUME AccountsAreRight, NEW r \in ServedRequests, r \in InHand(reply),
           NEW status \in Statuses, SV!Sends(r, status)
    PROVE  /\ AccountsAreRight' /\ reply'[r].stage = "sent"
           /\ \A s \in ServedRequests : s # r => reply'[s] = reply[s]
<1> DEFINE new == [stage |-> "sent", status |-> status]
<1>1. /\ reply' = [reply EXCEPT ![r] = new] /\ inProgress' = inProgress - 1
      /\ counted' = [counted EXCEPT ![r] = @ \cup {status}]
  BY DEF SV!Sends
<1>2. new \in Reply /\ new.stage = "sent" /\ new.status = status
  BY DEF Reply
<1> HIDE DEF new
<1>3. /\ reply' \in [ServedRequests -> Reply] /\ reply'[r] = new
      /\ \A s \in ServedRequests : s # r => reply'[s] = reply[s]
  BY <1>1, <1>2 DEF AccountsAreRight
<1>4. /\ counted' \in [ServedRequests -> SUBSET Statuses]
      /\ counted'[r] = counted[r] \cup {status}
      /\ \A s \in ServedRequests : s # r => counted'[s] = counted[s]
  BY <1>1 DEF AccountsAreRight
<1>5. counted[r] = {}
  BY DEF AccountsAreRight, InHand
<1>6. InHand(reply') = InHand(reply) \ {r}
  BY <1>2, <1>3 DEF InHand
<1>7. /\ IsFiniteSet(InHand(reply) \ {r})
      /\ Cardinality(InHand(reply) \ {r}) = Cardinality(InHand(reply)) - 1
  BY FS_RemoveElement DEF AccountsAreRight
<1>8. \A s \in ServedRequests :
          counted'[s] = IF reply'[s].stage = "sent" THEN {reply'[s].status} ELSE {}
  BY <1>2, <1>3, <1>4, <1>5 DEF AccountsAreRight
<1>. QED  BY <1>1, <1>2, <1>3, <1>4, <1>6, <1>7, <1>8 DEF AccountsAreRight

\* What becomes of a request whose work is over.
LEMMA ConcludeKeeps ==
    ASSUME AccountsAreRight, NEW r \in ServedRequests,
           NEW failure \in {0, 404, 500, 503}, SV!Conclude(r, failure)
    PROVE  /\ AccountsAreRight'
           /\ \A s \in ServedRequests : s # r => reply'[s] = reply[s]
           /\ reply'[r].stage = "none" => reply[r].stage = "none"
<1>1. CASE reply[r].stage # "handling"
  <2>1. UNCHANGED <<reply, inProgress, counted>>
    BY <1>1 DEF SV!Conclude
  <2>. QED  BY <2>1 DEF AccountsAreRight
<1>2. CASE reply[r].stage = "handling" /\ failure = 0 /\ sort[r] = "stream"
  <2> DEFINE new == [stage |-> "streaming", status |-> 200]
  <2>1. reply' = [reply EXCEPT ![r] = new] /\ UNCHANGED <<inProgress, counted>>
    BY <1>2 DEF SV!Conclude, SV!Streams
  <2>2. new \in Reply /\ new.stage = "streaming"
    BY DEF Reply, Statuses
  <2> HIDE DEF new
  <2>3. /\ reply' \in [ServedRequests -> Reply] /\ reply'[r] = new
        /\ \A s \in ServedRequests : s # r => reply'[s] = reply[s]
    BY <2>1, <2>2 DEF AccountsAreRight
  <2>4. InHand(reply') = InHand(reply)
    BY <1>2, <2>2, <2>3 DEF InHand
  <2>5. \A s \in ServedRequests :
          counted'[s] = IF reply'[s].stage = "sent" THEN {reply'[s].status} ELSE {}
    BY <1>2, <2>1, <2>2, <2>3 DEF AccountsAreRight
  <2>. QED  BY <2>1, <2>2, <2>3, <2>4, <2>5 DEF AccountsAreRight
<1>3. CASE reply[r].stage = "handling" /\ ~(failure = 0 /\ sort[r] = "stream")
  <2>1. PICK status \in Statuses : SV!Sends(r, status)
    BY <1>3 DEF SV!Conclude, Statuses
  <2>2. r \in InHand(reply)
    BY <1>3 DEF InHand
  <2>3. /\ AccountsAreRight' /\ reply'[r].stage = "sent"
        /\ \A s \in ServedRequests : s # r => reply'[s] = reply[s]
    BY <2>1, <2>2, SendsKeeps
  <2>. QED  BY <2>3
<1>. QED  BY <1>1, <1>2, <1>3

\* Work ends, and with it what it held.
LEMMA OverKeeps ==
    ASSUME ServingInv, NEW r \in ServedRequests, SV!WorkOver(r),
           AccountsAreRight', UNCHANGED <<frozen, sort>>,
           work[r] # "none",
           \A s \in ServedRequests : s # r => reply'[s] = reply[s],
           reply'[r].stage = "none" => reply[r].stage = "none",
           conn' \in [Conns -> Holding],
           \A c \in Conns :
              \/ conn'[c] = conn[c] /\ (conn[c].state = "querying" => conn[c].by # r)
              \/ conn'[c] = SV!FreeConn
    PROVE  ServingInv'
<1> USE DEF ServingInv
<1>1. /\ work' = [work EXCEPT ![r] = "over"]
      /\ work \in [ServedRequests -> {"none", "waiting", "querying", "over"}]
  BY DEF SV!WorkOver, HoldingsAreRight
<1>2. /\ work' \in [ServedRequests -> {"none", "waiting", "querying", "over"}]
      /\ work'[r] = "over"
      /\ \A s \in ServedRequests : s # r => work'[s] = work[s]
  BY <1>1
<1>3. SV!FreeConn.state = "free" /\ SV!FreeConn.by = SV!Nobody
  BY DEF SV!FreeConn
<1>4. \A c \in Conns :
          /\ conn'[c].state = "free" => conn'[c].by = SV!Nobody
          /\ conn'[c].state = "querying" =>
                /\ conn'[c] = conn[c] /\ conn[c].by # r
                /\ conn[c].by \in ServedRequests /\ work'[conn[c].by] = "querying"
  BY <1>2, <1>3 DEF HoldingsAreRight
<1>5. \A c, d \in Conns : c # d /\ conn'[c].state = "querying" => conn'[c].by # conn'[d].by
  <2> SUFFICES ASSUME NEW c \in Conns, NEW d \in Conns, c # d,
                      conn'[c].state = "querying"
               PROVE  conn'[c].by # conn'[d].by
    OBVIOUS
  <2>1. conn'[c] = conn[c] /\ conn[c].by \in ServedRequests
    BY <1>4
  <2>2. CASE conn'[d] = conn[d]
    BY <2>1, <2>2 DEF HoldingsAreRight
  <2>3. CASE conn'[d] = SV!FreeConn
    BY <1>3, <2>1, <2>3, ServicesConstants DEF SV!ServingConstants
  <2>. QED  BY <2>2, <2>3
<1>6. \A s \in ServedRequests :
          /\ work'[s] \in {"waiting", "querying"} =>
                reply'[s].stage = "handling" \/ sort[s] = "probe"
          /\ reply'[s].stage = "none" => work'[s] = "none"
  BY <1>2 DEF HoldingsAreRight
<1>. QED  BY <1>2, <1>4, <1>5, <1>6 DEF HoldingsAreRight

LEMMA ArriveKeeps ==
    ASSUME ServingInv, NEW r \in ServedRequests, SV!Arrive(r)
    PROVE  ServingInv'
<1> USE DEF ServingInv
<1>1. /\ reply[r].stage = "none" /\ reply' = [reply EXCEPT ![r].stage = "handling"]
      /\ work' = [work EXCEPT ![r] = "waiting"] /\ inProgress' = inProgress + 1
      /\ UNCHANGED <<frozen, conn, sort, counted>>
  BY DEF SV!Arrive
<1>2. /\ reply' \in [ServedRequests -> Reply] /\ reply'[r].stage = "handling"
      /\ \A s \in ServedRequests : s # r => reply'[s] = reply[s]
  <2> DEFINE new == [reply[r] EXCEPT !.stage = "handling"]
  <2>1. reply[r] \in Reply /\ reply \in [ServedRequests -> Reply]
    BY DEF AccountsAreRight
  <2>2. new \in Reply /\ new.stage = "handling"
    BY <2>1 DEF Reply
  <2>3. reply' = [reply EXCEPT ![r] = new]
    BY <1>1, <2>1
  <2> HIDE DEF new
  <2>. QED  BY <2>1, <2>2, <2>3
<1>3. /\ work' \in [ServedRequests -> {"none", "waiting", "querying", "over"}]
      /\ work'[r] = "waiting"
      /\ \A s \in ServedRequests : s # r => work'[s] = work[s]
  BY <1>1 DEF HoldingsAreRight
<1>4. InHand(reply') = InHand(reply) \cup {r} /\ r \notin InHand(reply)
  BY <1>1, <1>2 DEF InHand
<1>5. /\ IsFiniteSet(InHand(reply) \cup {r})
      /\ Cardinality(InHand(reply) \cup {r}) = Cardinality(InHand(reply)) + 1
  BY <1>4, FS_AddElement DEF AccountsAreRight
<1>6. AccountsAreRight'
  <2>1. \A s \in ServedRequests :
          counted'[s] = IF reply'[s].stage = "sent" THEN {reply'[s].status} ELSE {}
    BY <1>1, <1>2 DEF AccountsAreRight
  <2>. QED  BY <1>1, <1>2, <1>4, <1>5, <2>1 DEF AccountsAreRight
<1>7. work[r] = "none"
  BY <1>1 DEF HoldingsAreRight
<1>8. HoldingsAreRight'
  <2>1. \A c \in Conns : conn[c].state = "querying" => work'[conn[c].by] = "querying"
    BY <1>3, <1>7 DEF HoldingsAreRight
  <2>2. \A s \in ServedRequests :
          /\ work'[s] \in {"waiting", "querying"} =>
                reply'[s].stage = "handling" \/ sort[s] = "probe"
          /\ reply'[s].stage = "none" => work'[s] = "none"
    BY <1>2, <1>3 DEF HoldingsAreRight
  <2>. QED  BY <1>1, <1>3, <2>1, <2>2 DEF HoldingsAreRight
<1>. QED  BY <1>6, <1>8

LEMMA CheckoutKeeps ==
    ASSUME ServingInv, NEW r \in ServedRequests, SV!Checkout(r)
    PROVE  ServingInv'
<1> USE DEF ServingInv
<1>1. PICK c \in Conns :
          /\ work[r] = "waiting" /\ conn[c] = SV!FreeConn
          /\ conn' = [conn EXCEPT ![c] = [by |-> r, state |-> "querying"]]
          /\ work' = [work EXCEPT ![r] = "querying"]
          /\ UNCHANGED <<frozen, sort, reply, inProgress, counted>>
  BY DEF SV!Checkout
<1> DEFINE new == [by |-> r, state |-> "querying"]
<1>2. new \in Holding /\ new.by = r /\ new.state = "querying"
  BY DEF Holding
<1> HIDE DEF new
<1>3. /\ conn' \in [Conns -> Holding] /\ conn'[c] = new
      /\ \A d \in Conns : d # c => conn'[d] = conn[d]
  BY <1>1, <1>2 DEF HoldingsAreRight, new
<1>4. /\ work' \in [ServedRequests -> {"none", "waiting", "querying", "over"}]
      /\ work'[r] = "querying"
      /\ \A s \in ServedRequests : s # r => work'[s] = work[s]
  BY <1>1 DEF HoldingsAreRight
\* What waits holds nothing yet.
<1>5. \A d \in Conns : conn[d].by # r
  <2> SUFFICES ASSUME NEW d \in Conns, conn[d].by = r  PROVE FALSE
    OBVIOUS
  <2>1. conn[d].state # "querying"
    BY <1>1 DEF HoldingsAreRight
  <2>2. conn[d].state = "free"
    BY <2>1 DEF HoldingsAreRight, Holding
  <2>. QED  BY <2>2, ServicesConstants DEF HoldingsAreRight, SV!ServingConstants
<1>6. AccountsAreRight'
  BY <1>1 DEF AccountsAreRight
<1>7. HoldingsAreRight'
  <2>1. \A d \in Conns :
          /\ conn'[d].state = "free" => conn'[d].by = SV!Nobody
          /\ conn'[d].state = "querying" =>
                conn'[d].by \in ServedRequests /\ work'[conn'[d].by] = "querying"
    BY <1>2, <1>3, <1>4 DEF HoldingsAreRight
  <2>2. \A d, e \in Conns : d # e /\ conn'[d].state = "querying" => conn'[d].by # conn'[e].by
    BY <1>2, <1>3, <1>5 DEF HoldingsAreRight
  <2>3. \A s \in ServedRequests :
          /\ work'[s] \in {"waiting", "querying"} =>
                reply'[s].stage = "handling" \/ sort'[s] = "probe"
          /\ reply'[s].stage = "none" => work'[s] = "none"
    BY <1>1, <1>4 DEF HoldingsAreRight
  <2>. QED  BY <1>1, <1>3, <1>4, <2>1, <2>2, <2>3 DEF HoldingsAreRight
<1>. QED  BY <1>6, <1>7

LEMMA ServingStep == ServingInv /\ [SV!Next]_(SV!vars) => ServingInv'
<1> SUFFICES ASSUME ServingInv, [SV!Next]_(SV!vars)
             PROVE  ServingInv'
  OBVIOUS
<1>1. CASE SV!Freeze
  BY <1>1 DEF SV!Freeze, ServingInv, AccountsAreRight, HoldingsAreRight
<1>2. CASE UNCHANGED SV!vars
  BY <1>2 DEF SV!vars, ServingInv, AccountsAreRight, HoldingsAreRight
<1>3. ASSUME NEW r \in ServedRequests, SV!PoolTimeout(r)
      PROVE  ServingInv'
  <2>1. /\ work[r] = "waiting" /\ SV!WorkOver(r) /\ SV!Conclude(r, 503)
        /\ UNCHANGED <<frozen, conn, sort>>
    BY <1>3 DEF SV!PoolTimeout
  <2>2. /\ AccountsAreRight'
        /\ \A s \in ServedRequests : s # r => reply'[s] = reply[s]
        /\ reply'[r].stage = "none" => reply[r].stage = "none"
    BY <2>1, ConcludeKeeps DEF ServingInv
  <2>3. /\ conn' \in [Conns -> Holding]
        /\ \A c \in Conns : conn'[c] = conn[c]
                            /\ (conn[c].state = "querying" => conn[c].by # r)
    BY <2>1 DEF ServingInv, HoldingsAreRight
  <2>. QED  BY <2>1, <2>2, <2>3, OverKeeps
<1>4. ASSUME NEW r \in ServedRequests, SV!ProbeDeadline(r) \/ SV!StreamEnds(r)
      PROVE  ServingInv'
  <2>1. /\ UNCHANGED <<frozen, conn, sort, work>>
        /\ sort[r] = "probe" \/ reply[r].stage = "streaming"
        /\ r \in InHand(reply)
    BY <1>4 DEF SV!ProbeDeadline, SV!StreamEnds, InHand
  <2>2. PICK status \in Statuses : SV!Sends(r, status)
    <3>1. reply[r].status \in Statuses
      BY DEF ServingInv, AccountsAreRight, Reply
    <3>. QED  BY <1>4, <3>1 DEF SV!ProbeDeadline, SV!StreamEnds, Statuses
  <2>3. /\ AccountsAreRight' /\ reply'[r].stage = "sent"
        /\ \A s \in ServedRequests : s # r => reply'[s] = reply[s]
    BY <2>1, <2>2, SendsKeeps DEF ServingInv
  <2>. QED  BY <2>1, <2>3 DEF ServingInv, HoldingsAreRight
<1>5. ASSUME NEW c \in Conns, SV!DatabaseAnswers(c) \/ SV!ConnectionDies(c)
      PROVE  ServingInv'
  <2>1. /\ conn[c].state = "querying" /\ conn' = [conn EXCEPT ![c] = SV!FreeConn]
        /\ UNCHANGED <<frozen, sort>>
    BY <1>5 DEF SV!DatabaseAnswers, SV!ConnectionDies
  <2>2. PICK r \in ServedRequests : conn[c].by = r
    BY <2>1 DEF ServingInv, HoldingsAreRight
  <2>3. SV!WorkOver(r)
    BY <1>5, <2>2 DEF SV!DatabaseAnswers, SV!ConnectionDies, SV!WorkOver
  <2>4. PICK failure \in {0, 404, 500, 503} : SV!Conclude(r, failure)
    BY <1>5, <2>2 DEF SV!DatabaseAnswers, SV!ConnectionDies, SV!Conclude,
                      SV!Sends, SV!Streams
  <2>5. work[r] = "querying"
    BY <2>1, <2>2 DEF ServingInv, HoldingsAreRight
  <2>6. /\ AccountsAreRight'
        /\ \A s \in ServedRequests : s # r => reply'[s] = reply[s]
        /\ reply'[r].stage = "none" => reply[r].stage = "none"
    BY <2>4, ConcludeKeeps DEF ServingInv
  <2>7. SV!FreeConn \in Holding
    BY DEF SV!FreeConn, Holding
  <2>8. /\ conn' \in [Conns -> Holding] /\ conn'[c] = SV!FreeConn
        /\ \A d \in Conns : d # c => conn'[d] = conn[d] /\ conn[d].by # r
    BY <2>1, <2>2, <2>7 DEF ServingInv, HoldingsAreRight
  <2>. QED  BY <2>1, <2>3, <2>5, <2>6, <2>8, OverKeeps
<1>. QED  BY <1>1, <1>2, <1>3, <1>4, <1>5, ArriveKeeps, CheckoutKeeps DEF SV!Next

LEMMA ServingInvariant == Spec => []ServingInv
<1>1. Init => ServingInv
  BY ServingInit DEF Init
<1>2. ServingInv /\ [Next]_vars => ServingInv'
  <2>1. [Next]_vars => [SV!Next]_(SV!vars)
    BY DEF Next, vars, Chat, RateLimit, ProviderKeys, SessionLife, Erasure,
           Serving, Migrations, ModelStream, EventParser, EvalGate, Only,
           servingVars, SV!vars
  <2>. QED  BY <2>1, ServingStep
<1>. QED  BY <1>1, <1>2, PTL DEF Spec

\* No connection is held for nobody, or twice for one request, and what is
\* counted is what the clients were sent, whatever the database does and for
\* any requests and pool (app/db.py, app/middleware.py).
LEMMA ServingTypes == Spec => []SV!TypeOK
<1>1. ServingInv => SV!TypeOK
  <2> SUFFICES ASSUME ServingInv  PROVE SV!TypeOK
    OBVIOUS
  <2>1. \A S : SV!Cardinality(S) = Cardinality(S)
    BY DEF SV!Cardinality, Cardinality
  <2>2. inProgress = SV!Cardinality({r \in ServedRequests :
                                    reply[r].stage \in {"handling", "streaming"}})
    BY <2>1 DEF ServingInv, AccountsAreRight, InHand
  <2>3. \A r \in ServedRequests :
          (\E c \in Conns : conn[c].by = r) => reply[r].stage = "handling" \/ sort[r] = "probe"
    <3> SUFFICES ASSUME NEW r \in ServedRequests, NEW c \in Conns, conn[c].by = r
                 PROVE  reply[r].stage = "handling" \/ sort[r] = "probe"
      OBVIOUS
    <3>1. conn[c].state = "querying"
      BY ServicesConstants DEF ServingInv, HoldingsAreRight, Holding, SV!ServingConstants
    <3>. QED  BY <3>1 DEF ServingInv, HoldingsAreRight
  <2>4. \A r \in ServedRequests :
          /\ reply[r].stage \in {"none", "handling", "streaming", "sent"}
          /\ reply[r].status \in {200, 404, 500, 503}
    BY DEF ServingInv, AccountsAreRight, Reply, Statuses
  <2>. QED  BY <2>2, <2>3, <2>4
            DEF ServingInv, AccountsAreRight, HoldingsAreRight, Holding, SV!TypeOK
<1>. QED  BY <1>1, ServingInvariant, PTL

-----------------------------------------------------------------------------
(* The types of the other two.                                             *)

ErasureBounds ==
    /\ nextId <= MaxIds + 1 /\ acting \subseteq ER!Ids
    /\ trail \in [ER!Ids -> 0..MaxEvents]

LEMMA BoundsStep == ErasureInv /\ ErasureBounds /\ [ER!Next]_(ER!vars) => ErasureBounds'
<1> SUFFICES ASSUME ErasureInv, ErasureBounds, [ER!Next]_(ER!vars)
             PROVE  ErasureBounds'
  OBVIOUS
<1>0. /\ MaxIds \in Nat /\ MaxEvents \in Nat /\ nextId \in Nat
  BY ServicesConstants DEF ER!ErasureConstants, ErasureInv, ErasureTypes
<1>1. ASSUME NEW a \in Accounts,
             \/ ER!GrowOld(a) \/ ER!SignedIn(a) \/ ER!SignInFails(a)
             \/ ER!ForgetAccount(a) \/ ER!RetireRow(a)
      PROVE  ErasureBounds'
  <2>1. nextId' = nextId /\ trail' = trail /\ acting' \subseteq acting
    BY <1>1 DEF ER!GrowOld, ER!SignedIn, ER!SignInFails, ER!ForgetAccount, ER!RetireRow
  <2>. QED  BY <2>1 DEF ErasureBounds
<1>2. ASSUME NEW a \in Accounts, ER!Upsert(a)
      PROVE  ErasureBounds'
  <2>1. /\ trail' = trail /\ acting' = acting
        /\ nextId' = nextId \/ (nextId \in ER!Ids /\ nextId' = nextId + 1)
    BY <1>2 DEF ER!Upsert
  <2>. QED  BY <1>0, <2>1 DEF ErasureBounds, ER!Ids
<1>3. ASSUME NEW id \in ER!Ids, ER!Request(id)
      PROVE  ErasureBounds'
  BY <1>3 DEF ER!Request, ErasureBounds
<1>4. ASSUME NEW id \in ER!Ids, ER!Records(id)
      PROVE  ErasureBounds'
  <2>1. /\ nextId' = nextId /\ acting' \subseteq acting
        /\ trail[id] < MaxEvents /\ trail' = [trail EXCEPT ![id] = @ + 1]
    BY <1>4 DEF ER!Records
  <2>2. trail[id] + 1 \in 0..MaxEvents
    BY <1>0, <2>1 DEF ErasureBounds
  <2>. QED  BY <2>1, <2>2 DEF ErasureBounds
<1>5. ASSUME NEW yes \in BOOLEAN,
             ER!Forget(yes) \/ ER!Retention(yes) \/ ER!EndJob(yes)
      PROVE  ErasureBounds'
  <2>1. nextId' = nextId /\ trail' = trail /\ acting' = acting
    BY <1>5 DEF ER!Forget, ER!Retention, ER!EndJob
  <2>. QED  BY <2>1 DEF ErasureBounds
<1>6. CASE UNCHANGED ER!vars
  BY <1>6 DEF ER!vars, ErasureBounds
<1>. QED  BY <1>1, <1>2, <1>3, <1>4, <1>5, <1>6 DEF ER!Next

LEMMA ErasureIsTyped == Spec => []ER!TypeOK
<1>1. Init => ErasureInv /\ ErasureBounds
  <2> SUFFICES ASSUME Init  PROVE ErasureInv /\ ErasureBounds
    OBVIOUS
  <2>1. ErasureInv
    BY ErasureInit DEF Init
  <2>2. nextId = 1 /\ acting = {} /\ trail = [id \in ER!Ids |-> 0]
    BY DEF Init, ER!Init
  <2>3. ErasureBounds
    BY <2>2, ServicesConstants DEF ErasureBounds, ER!ErasureConstants
  <2>. QED  BY <2>1, <2>3
<1>2. [Next]_vars => [ER!Next]_(ER!vars)
  BY DEF Next, vars, Chat, RateLimit, ProviderKeys, SessionLife, Erasure,
         Serving, Migrations, ModelStream, EventParser, EvalGate, Only,
         erasureVars, ER!vars
<1>3. ErasureInv /\ ErasureBounds /\ [Next]_vars => (ErasureInv /\ ErasureBounds)'
  BY <1>2, ErasureStep, BoundsStep
<1>4. ErasureInv /\ ErasureBounds => ER!TypeOK
  <2> SUFFICES ASSUME ErasureInv, ErasureBounds  PROVE ER!TypeOK
    OBVIOUS
  <2>1. MaxIds \in Nat /\ nextId \in 1..(MaxIds + 1)
    BY ServicesConstants
       DEF ER!ErasureConstants, ErasureInv, ErasureTypes, ErasureBounds
  <2>2. sessions \subseteq {row[a].id : a \in Accounts}
    BY DEF ErasureInv, IdsHaveOneOwner
  <2>. QED  BY <2>1, <2>2
            DEF ErasureInv, ErasureTypes, ErasureBounds, Job, ER!TypeOK
<1>. QED  BY <1>1, <1>3, <1>4, PTL DEF Spec

\* Nothing a run is making is there as an INVALID index already.
MigrationBounds ==
    /\ failures <= MaxFailures /\ invalid \subseteq MG!Indexes
    /\ clashed \subseteq MG!Effects(Last) /\ holder \in Runs \cup {None}
    /\ schema \cap invalid = {}
    /\ \A r \in Runs : run[r].pending \cap invalid = {}

LEMMA ChainIsWithin ==
    \A n \in 0..(Last - 1) :
        /\ MG!Chain[n + 1].objects \cup MG!Chain[n + 1].index \subseteq MG!Effects(Last)
        /\ MG!Chain[n + 1].index \subseteq MG!Indexes
<1> SUFFICES ASSUME NEW n \in 0..(Last - 1)
             PROVE  /\ MG!Chain[n + 1].objects \cup MG!Chain[n + 1].index
                          \subseteq MG!Effects(Last)
                    /\ MG!Chain[n + 1].index \subseteq MG!Indexes
  OBVIOUS
<1>1. n + 1 \in 1..Last /\ n + 1 \in DOMAIN MG!Chain
  BY EffectsGrow, EachHasOneMaker DEF Last
<1>. QED  BY <1>1 DEF MG!Effects, MG!Indexes

LEMMA GivesUpIsBounded ==
    ASSUME MigrationInv, MigrationBounds, NEW r \in Runs, run[r].stage \in UnderLock,
           NEW tripped \in SUBSET MG!Effects(Last), MG!GivesUp(r, tripped),
           failures' <= MaxFailures
    PROVE  MigrationBounds'
<1>1. /\ run' = [run EXCEPT ![r] = [MG!Waiting EXCEPT !.stage = "failed"]]
      /\ holder' \in {None, holder} /\ clashed' = clashed \cup tripped
      /\ schema' = schema /\ stamp' = stamp
  BY DEF MG!GivesUp
<1>2. /\ run'[r].pending = {}
      /\ \A s \in Runs : s # r => run'[s] = run[s]
  BY <1>1 DEF MigrationInv, MG!Waiting
<1>3. \A s \in Runs : s # r => run[s].pending = {}
  BY DEF MigrationInv, RunIsSound, UnderLock
<1>4. invalid' \subseteq MG!Indexes /\ schema \cap invalid' = {}
  <2>1. CASE run[r].stage = "building" /\ tripped = {}
    <3>1. run[r].at \in 0..(Last - 1)
      BY <2>1, EffectsGrow DEF MigrationInv, RunIsSound, RunRecord
    <3>2. invalid' = invalid \cup (MG!Chain[run[r].at + 1].index \ schema)
      BY <2>1 DEF MG!GivesUp
    <3>. QED  BY <3>1, <3>2, ChainIsWithin DEF MigrationBounds
  <2>2. CASE ~(run[r].stage = "building" /\ tripped = {})
    BY <2>2 DEF MG!GivesUp, MigrationBounds
  <2>. QED  BY <2>1, <2>2
<1>. QED  BY <1>1, <1>2, <1>3, <1>4 DEF MigrationBounds

LEMMA MigrationsAreBounded ==
    MigrationInv /\ MigrationBounds /\ [MG!Next]_(MG!vars) => MigrationBounds'
<1> SUFFICES ASSUME MigrationInv, MigrationBounds, [MG!Next]_(MG!vars)
             PROVE  MigrationBounds'
  OBVIOUS
<1>0. MaxFailures \in Nat /\ failures \in Nat
  BY ServicesConstants DEF MG!MigrationConstants, MigrationInv, SchemaIsSound
<1>1. ASSUME NEW r \in Runs, MG!TakeLock(r) \/ MG!ReadVersion(r) \/ MG!Retry(r)
      PROVE  MigrationBounds'
  <2>1. /\ UNCHANGED <<schema, invalid, clashed, failures>>
        /\ holder' \in {r, holder}
        /\ \A s \in Runs : run'[s].pending \subseteq run[s].pending
    BY <1>1 DEF MG!TakeLock, MG!ReadVersion, MG!Retry, MG!Waiting, MigrationInv, RunRecord
  <2>. QED  BY <2>1 DEF MigrationBounds
<1>2. ASSUME NEW r \in Runs, MG!Fail(r)
      PROVE  MigrationBounds'
  <2>1. /\ run[r].stage \in UnderLock /\ MG!GivesUp(r, {}) /\ failures' <= MaxFailures
    BY <1>0, <1>2 DEF MG!Fail, UnderLock
  <2>. QED  BY <2>1, GivesUpIsBounded
<1>3. ASSUME NEW r \in Runs, MG!Upgrade(r)
      PROVE  MigrationBounds'
  <2> DEFINE next == MG!Chain[run[r].at + 1]
             exists == next.objects \cap (schema \cup invalid)
  <2>1. /\ run[r].stage = "upgrading" /\ run[r].stage \in UnderLock
        /\ run[r].at \in 0..(Last - 1)
    <3>1. run[r].stage = "upgrading" /\ run[r].at < Last
      BY <1>3 DEF MG!Upgrade, Last
    <3>2. run[r].at \in 0..Last
      BY DEF MigrationInv, RunRecord
    <3>. QED  BY <3>1, <3>2, EffectsGrow DEF UnderLock
  <2>2. CASE exists # {}
    <3>1. MG!GivesUp(r, exists) /\ failures' = failures
      BY <1>3, <2>2, Zenon DEF MG!Upgrade
    <3>2. exists \subseteq MG!Effects(Last)
      BY <2>1, ChainIsWithin
    <3> HIDE DEF exists
    <3>. QED  BY <2>1, <3>1, <3>2, GivesUpIsBounded DEF MigrationBounds
  <2>3. CASE exists = {}
    <3>1. /\ UNCHANGED <<schema, invalid, stamp, holder, clashed, failures>>
          /\ run' = [run EXCEPT
                        ![r].pending = @ \cup next.objects,
                        ![r].stage = IF next.index = {} THEN "upgrading" ELSE "committing",
                        ![r].at = IF next.index = {} THEN @ + 1 ELSE @]
      BY <1>3, <2>3, Zenon DEF MG!Upgrade
    <3> HIDE DEF next
    <3>2. /\ run'[r].pending = run[r].pending \cup next.objects
          /\ \A s \in Runs : s # r => run'[s] = run[s]
      BY <3>1 DEF MigrationInv, RunRecord
    <3>. QED  BY <2>3, <3>1, <3>2 DEF MigrationBounds
  <2>. QED  BY <2>2, <2>3
<1>4. ASSUME NEW r \in Runs, MG!CommitForBlock(r) \/ MG!Finish(r)
      PROVE  MigrationBounds'
  <2>1. /\ schema' = schema \cup run[r].pending
        /\ UNCHANGED <<invalid, clashed, failures>> /\ holder' \in {None, holder}
    BY <1>4 DEF MG!CommitForBlock, MG!Finish, MG!Commits
  <2>2. \A s \in Runs : run'[s].pending \subseteq run[s].pending
    BY <1>4 DEF MG!CommitForBlock, MG!Finish, MG!Waiting, MigrationInv, RunRecord
  <2>. QED  BY <2>1, <2>2 DEF MigrationBounds
<1>5. ASSUME NEW r \in Runs, MG!Build(r)
      PROVE  MigrationBounds'
  <2> DEFINE index == MG!Chain[run[r].at + 1].index
             exists == index \cap (schema \cup invalid)
  <2>1. /\ run[r].stage = "building" /\ run[r].stage \in UnderLock
        /\ run[r].at \in 0..(Last - 1)
    BY <1>5, EffectsGrow DEF MG!Build, UnderLock, MigrationInv, RunIsSound, RunRecord
  <2>2. CASE exists # {}
    <3>1. MG!GivesUp(r, exists) /\ failures' = failures
      BY <1>5, <2>2, Zenon DEF MG!Build
    <3>2. exists \subseteq MG!Effects(Last)
      BY <2>1, ChainIsWithin
    <3> HIDE DEF exists
    <3>. QED  BY <2>1, <3>1, <3>2, GivesUpIsBounded DEF MigrationBounds
  <2>3. CASE exists = {}
    <3>1. /\ UNCHANGED <<invalid, stamp, holder, clashed, failures>>
          /\ schema' = schema \cup index
          /\ run' = [run EXCEPT ![r].stage = "upgrading", ![r].at = @ + 1]
      BY <1>5, <2>3, Zenon DEF MG!Build
    <3> HIDE DEF index
    <3>2. \A s \in Runs : run'[s].pending = run[s].pending
      BY <3>1 DEF MigrationInv, RunRecord
    <3>. QED  BY <2>3, <3>1, <3>2 DEF MigrationBounds
  <2>. QED  BY <2>2, <2>3
<1>6. ASSUME NEW index \in MG!Indexes, MG!DropInvalid(index)
      PROVE  MigrationBounds'
  BY <1>6 DEF MG!DropInvalid, MigrationBounds
<1>7. CASE UNCHANGED MG!vars
  BY <1>7 DEF MG!vars, MigrationBounds
<1>. QED  BY <1>1, <1>2, <1>3, <1>4, <1>5, <1>6, <1>7 DEF MG!Next

LEMMA MigrationTypes == Spec => []MG!TypeOK
<1>1. Init => MigrationInv /\ MigrationBounds
  <2> SUFFICES ASSUME Init  PROVE MigrationInv /\ MigrationBounds
    OBVIOUS
  <2>1. MigrationInv
    BY MigrationInit DEF Init
  <2>2. /\ invalid = {} /\ holder = None /\ clashed = {} /\ failures = 0
        /\ run = [r \in Runs |-> MG!Waiting]
    BY DEF Init, MG!Init
  <2>3. MigrationBounds
    BY <2>2, ServicesConstants DEF MigrationBounds, MG!MigrationConstants
  <2>. QED  BY <2>1, <2>3
<1>2. [Next]_vars => [MG!Next]_(MG!vars)
  BY DEF Next, vars, Chat, RateLimit, ProviderKeys, SessionLife, Erasure,
         Serving, Migrations, ModelStream, EventParser, EvalGate, Only,
         migrationVars, MG!vars
<1>3. MigrationInv /\ MigrationBounds /\ [Next]_vars => (MigrationInv /\ MigrationBounds)'
  BY <1>2, MigrationStep, MigrationsAreBounded
<1>4. MigrationInv /\ MigrationBounds => MG!TypeOK
  <2> SUFFICES ASSUME MigrationInv, MigrationBounds  PROVE MG!TypeOK
    OBVIOUS
  <2>1. failures \in 0..MaxFailures
    BY ServicesConstants DEF MG!MigrationConstants, MigrationInv, SchemaIsSound, MigrationBounds
  <2>. QED  BY <2>1 DEF MigrationInv, MigrationBounds, SchemaIsSound, RunRecord, Last, MG!TypeOK
<1>. QED  BY <1>1, <1>3, <1>4, PTL DEF Spec
=============================================================================
