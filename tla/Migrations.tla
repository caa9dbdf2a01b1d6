----------------------------- MODULE Migrations -----------------------------
(***************************************************************************)
(* The schema's migrations (apps/api/migrations): runs started together,   *)
(* one after another under an advisory lock, and retried after a failure.  *)
(*                                                                         *)
(* A run is one transaction, which an autocommit block commits halfway     *)
(* through the migration that holds it: the version is written after the   *)
(* migration, in the transaction begun after the block.  The connection    *)
(* that holds the lock lives as long as the run: its loss alone, which     *)
(* would let a second run in while the first goes on (env.py:64-67), is    *)
(* not among the failures here.                                            *)
(***************************************************************************)
EXTENDS Naturals, Sequences

CONSTANTS
    Runs,           \* deploys and api tasks that migrate
    None,
    MaxFailures     \* bound: Fail steps

MigrationConstants == None \notin Runs /\ MaxFailures \in Nat

\* What a migration creates, each of which fails where it exists already, and
\* the index it then builds CONCURRENTLY.
Creating(objects) == [objects |-> objects, index |-> {}]
Building(objects, index) == [objects |-> objects, index |-> {index}]

CreateAlerts == Creating({"alerts"})
AddAlertExternalId == Building({"alerts.external_id"}, "uq_alerts_external_id")
IndexAlerts == Building({}, "ix_alerts_created_at_id")
TeamsUsersSessions ==
    Building({"teams", "users", "memberships", "sessions", "login_requests",
              "alerts.team_id", "fk_alerts_team_id"},
             "ix_alerts_team_id_created_at_id")
RowLevelSecurity ==
    Creating({"tenant_team_ids", "alerts_select", "alerts_insert", "alerts_delete"})
CreateRunbooks == Creating({"runbooks", "runbook_chunks", "runbooks_update"})
CreateAuditEvents == Creating({"audit_events"})
AuditViaMcp == Creating({})     \* replaces a constraint
CreateAssistantSwitch == Creating({"assistant_switch"})

Chain == <<CreateAlerts, AddAlertExternalId, IndexAlerts, TeamsUsersSessions,
           RowLevelSecurity, CreateRunbooks, CreateAuditEvents, AuditViaMcp,
           CreateAssistantSwitch>>

Indexes == UNION {Chain[n].index : n \in DOMAIN Chain}
Effects(n) == UNION {Chain[m].objects \cup Chain[m].index : m \in 1..n}

VARIABLES
    schema,     \* committed objects, valid indexes included
    invalid,    \* indexes a build left INVALID
    stamp,      \* alembic_version: migrations applied, as committed
    holder,     \* who has the advisory lock
    run,        \* run -> how far it is
    clashed,    \* objects a run failed over, since they existed
    failures    \* runs that failed over nothing of another's

vars == <<schema, invalid, stamp, holder, run, clashed, failures>>

Waiting == [stage |-> "waiting", at |-> 0, pending |-> {}]

Init ==
    /\ \E n \in 0..Len(Chain) : stamp = n /\ schema = Effects(n)
    /\ invalid = {} /\ holder = None /\ clashed = {} /\ failures = 0
    /\ run = [r \in Runs |-> Waiting]

\* One poll of take_migration_lock: pg_try_advisory_lock, on a connection of
\* its own.
TakeLock(r) ==
    /\ run[r].stage = "waiting" /\ holder = None
    /\ holder' = r
    /\ run' = [run EXCEPT ![r].stage = "locked"]
    /\ UNCHANGED <<schema, invalid, stamp, clashed, failures>>

\* Alembic reads the version.
ReadVersion(r) ==
    /\ run[r].stage = "locked"
    /\ run' = [run EXCEPT ![r].stage = "upgrading", ![r].at = stamp]
    /\ UNCHANGED <<schema, invalid, stamp, holder, clashed, failures>>

\* The run ends with an error: what is not committed is rolled back, its
\* connections close, and a build it was in leaves its index INVALID.
GivesUp(r, over) ==
    /\ run' = [run EXCEPT ![r] = [Waiting EXCEPT !.stage = "failed"]]
    /\ holder' = IF holder = r THEN None ELSE holder
    /\ clashed' = clashed \cup over
    /\ invalid' = IF run[r].stage = "building" /\ over = {}
                  THEN invalid \cup (Chain[run[r].at + 1].index \ schema)
                  ELSE invalid
    /\ UNCHANGED <<schema, stamp>>

\* A lock_timeout, the loss of the migrating connection, a killed task.
Fail(r) ==
    /\ run[r].stage \in {"locked", "upgrading", "committing", "building"}
    /\ failures < MaxFailures /\ failures' = failures + 1
    /\ GivesUp(r, {})

\* The DDL of upgrade() before its autocommit block, or all of it.  What
\* another run is creating is waited for.
Upgrade(r) ==
    /\ run[r].stage = "upgrading" /\ run[r].at < Len(Chain)
    /\ LET next == Chain[run[r].at + 1]
           exists == next.objects \cap (schema \cup invalid)
       IN  /\ \A other \in Runs \ {r} : run[other].pending \cap next.objects = {}
           /\ \/ exists # {} /\ GivesUp(r, exists) /\ UNCHANGED failures
              \/ /\ exists = {}
                 /\ run' = [run EXCEPT
                        ![r].pending = @ \cup next.objects,
                        ![r].stage = IF next.index = {} THEN "upgrading" ELSE "committing",
                        ![r].at = IF next.index = {} THEN @ + 1 ELSE @]
                 /\ UNCHANGED <<schema, invalid, stamp, holder, clashed, failures>>

Commits(r) ==
    /\ schema' = schema \cup run[r].pending
    /\ stamp' = run[r].at

\* Mutant of CommitForBlock: a transaction lock goes with the transaction.
CommitForBlockReleases(r) ==
    /\ run[r].stage = "committing" /\ Commits(r)
    /\ run' = [run EXCEPT ![r].stage = "building", ![r].pending = {}]
    /\ holder' = None
    /\ UNCHANGED <<invalid, clashed, failures>>

\* The autocommit block commits what came before it: this migration's first
\* part too, not its version.
CommitForBlock(r) ==
    /\ run[r].stage = "committing" /\ Commits(r)
    /\ run' = [run EXCEPT ![r].stage = "building", ![r].pending = {}]
    /\ UNCHANGED <<invalid, holder, clashed, failures>>

\* CREATE INDEX CONCURRENTLY.
Build(r) ==
    /\ run[r].stage = "building"
    /\ LET index == Chain[run[r].at + 1].index
           exists == index \cap (schema \cup invalid)
       IN  \/ exists # {} /\ GivesUp(r, exists) /\ UNCHANGED failures
           \/ /\ exists = {} /\ schema' = schema \cup index
              /\ run' = [run EXCEPT ![r].stage = "upgrading", ![r].at = @ + 1]
              /\ UNCHANGED <<invalid, stamp, holder, clashed, failures>>

\* The last commit; the connections close.
Finish(r) ==
    /\ run[r].stage = "upgrading" /\ run[r].at = Len(Chain) /\ Commits(r)
    /\ run' = [run EXCEPT ![r] = [Waiting EXCEPT !.stage = "done"]]
    /\ holder' = IF holder = r THEN None ELSE holder
    /\ UNCHANGED <<invalid, clashed, failures>>

\* The operator drops an INVALID index, then runs the migrations again.
DropInvalid(index) ==
    /\ index \in invalid /\ \A r \in Runs : run[r].stage # "building"
    /\ invalid' = invalid \ {index}
    /\ UNCHANGED <<schema, stamp, holder, run, clashed, failures>>

Retry(r) ==
    /\ run[r].stage = "failed"
    /\ run' = [run EXCEPT ![r] = Waiting]
    /\ UNCHANGED <<schema, invalid, stamp, holder, clashed, failures>>

Next ==
    \/ \E r \in Runs :
        \/ TakeLock(r) \/ ReadVersion(r) \/ Upgrade(r) \/ CommitForBlock(r)
        \/ Build(r) \/ Finish(r) \/ Fail(r) \/ Retry(r)
    \/ \E index \in Indexes : DropInvalid(index)

Spec == Init /\ [][Next]_vars

-----------------------------------------------------------------------------
Stages == {"waiting", "locked", "upgrading", "committing", "building", "done", "failed"}

TypeOK ==
    /\ stamp \in 0..Len(Chain) /\ failures \in 0..MaxFailures
    /\ schema \subseteq Effects(Len(Chain)) /\ invalid \subseteq Indexes
    /\ schema \cap invalid = {} /\ clashed \subseteq Effects(Len(Chain))
    /\ holder \in Runs \cup {None}
    /\ run \in [Runs -> [stage : Stages, at : 0..Len(Chain),
                         pending : SUBSET Effects(Len(Chain))]]

\* Two migration runs never get into each other's way, although an index
\* build commits one halfway: no run fails over what another made (unless an
\* earlier one failed), the committed schema never lacks anything of its
\* version, and is at most one migration ahead of it (env.py:12-16, 71-82), as
\* long as each run's lock lasts until the run ends.
MigrationsDoNotCollide ==
    /\ failures = 0 => clashed = {}
    /\ Effects(stamp) \subseteq schema
    /\ stamp < Len(Chain) => schema \subseteq Effects(stamp + 1)

\* "Failing after a few seconds and retrying later is the safe outcome", once
\* an INVALID index is dropped (env.py:6-12, 75397b875fb5:7-8): a run never
\* fails over anything but an index.
RetryTripsOnlyOverAnIndex == clashed \subseteq Indexes
=============================================================================
