# triage-assistant in TLA+

Specifications of the triage assistant's backend (`src/apps/api`), of the
stream parser of its web client and of its evals' gate: what they promise when
requests, tasks and operators' commands interleave, fail or are repeated. Every module is written from the code; where a document,
a comment or a test says something else, that is listed under *Findings*.

Paths below are relative to `src/apps/api/app` unless they start elsewhere.

    tlc -workers 2 -config MCRunbooks.cfg MCRunbooks
    tlapm RunbooksProofs.tla

## 1. The system

Engineers sign in with their company account and see their teams' alerts. They
ask a language model about an alert; the answer streams to the browser, backed
by sections of the team's runbooks. Postgres holds everything; it is reached
through PgBouncer in transaction-pooling mode, from several API processes at
once, each a single-threaded asyncio program. Redis holds the rate limiter's
counters. The model, the embedding model and the identity provider are remote.

| Component | State | Operations | Interacts with |
|---|---|---|---|
| Runbooks (`runbooks.py`, `routes/runbooks.py`) | tables `runbooks`, `runbook_chunks` | save, delete, list, search; `cli reembed` | embedding model between two transactions; audit trail in the same transaction; chat and agent search them |
| Audit trail (`audit.py`, `routes/audit.py`) | table `audit_events` | record, page; `make audit-prune` by the schema's owner | written in the transaction of the change it records |
| Answer stream (`triage.py`, `sse.py`) | per answer: producer task, bounded queue, generator; gauge and counters | start, iterate, heartbeat, time out, close | model's stream or agent's loop upstream, browser downstream |
| Tenant isolation (`db.py`, `access.py`, the policies in `migrations/versions`) | settings of server connections; `session.info` | after_begin hook, `use_transaction_settings`, the policies | every request and tool call |
| Sign-in and sessions (`routes/auth.py`, `sessions.py`, `cli.py`) | tables `login_requests`, `users`, `teams`, `memberships`, `sessions`; two cookies | login, callback, logout, authenticate, `revoke`, `session` | identity provider between two transactions |
| Identity provider client (`oidc.py`) | cached metadata and signing keys | metadata, exchange, verify, refresh keys | sign-in |
| Alerts (`routes/alerts.py`, `queries.py`) | table `alerts` | create, webhook, delete, keyset pages | Alertmanager re-sends; audit trail |
| Agent and tools (`agent.py`, `tools.py`, `mcp_server.py`) | per answer: messages, sections, asked calls | rounds of tool calls, one answer without tools | source of an answer's stream; own transactions per call |
| Rate limiter (`ratelimit.py`) | fixed-window counters in Redis | hit, fail open or closed | every route |
| Assistant switch (`switch.py`, `routes/assistant.py`) | one row of `assistant_switch` | turn on or off, refuse a chat | chat, agent's tools, MCP |
| Personal data (`privacy.py`, `cli.py`) | rows of a user | retention, export, forget | sign-in, audit trail |
| Model client (`llm.py`) | per stream: tool calls under way, by index | stream, embed | chat, agent, runbooks; the provider |
| Serving (`db.py`, `middleware.py`, `errors.py`, `routes/health.py`) | pool of connections, gauge, counters, abandoned checks | a session per request, turn an exception into an answer, readiness probe | every route; a database that may freeze |
| Migrations (`src/apps/api/migrations`) | the schema, `alembic_version`, an advisory lock | upgrade, from several containers at once | the operator, who retries |
| Web client (`src/apps/web/src`) | page state | parse the stream, ask, stop, ask again | API |
| Evals (`src/apps/api/evals`) | results of a run | ask, check, judge, summarize, gate | the model, or the whole service |
| Redaction, ranking, tracing, wiring, infrastructure, deployment scripts | - | - | listed in PROJECT.json with the reason each is not modelled |

What is hard here is what a test of one request does not meet:

- *Interleaving*: two saves of one runbook, a save and a re-embedding, two
  tabs that finish signing in at once.
- *Reads before a wait*: a save and a callback read, end their transaction,
  wait for another service, and then write.
- *Partial failure*: several statements of one change, the change and its
  audit event, an old session ended and a new one opened.
- *Ends of a stream*: the client leaves, the queue is full, the limit expires,
  the source fails, in any combination.
- *Settings that must not travel*: connections are shared by everybody's
  transactions.
- *Waiting*: row and unique-key locks, a put on a full queue, the await of a
  cancelled task, a pooled connection while the database is frozen.
- *Time*: a rate limiter's window, a session's idle limit, the age of signing
  keys, each read at one moment and acted on at another.
- *Retries*: a migration run that failed half-way, a re-sent webhook, a call
  given up on that ends after all.

PROJECT.json lists each hazard at its line, and the properties aimed at it. For
each component, correct means:

| Component | What makes it correct |
|---|---|
| Runbooks | stored sections are those of the stored text; a chat is given a text with the hash of that very text |
| Audit trail | no change without its record; a hash leads to the save that wrote it; the trail ends at what is stored |
| Answer stream | what the model said, in order and complete, then one ending; counted as it ended; the model is stopped; memory bounded |
| Tenant isolation | in every transaction the policies agree with the routes' rule; nothing is left of the connection's last user |
| Sign-in | access is exactly one sign-in's; a login state works once; a replaced session is gone; sign-ins do not block each other for good |
| Provider client | only keys the provider has published are trusted, a withdrawn one for a bounded time, and a key published long enough ago is not refused |
| Alerts | one row per firing episode; pages neither repeat nor skip what was there throughout |
| Chat, agent and tools | what the model reads is on record; the list citations are checked against is what it read; every answer ends |
| Rate limiter | at most the limit per window for each policy, whatever Redis answers |
| Switch | the one check of it, before anything else, is obeyed: a question that met it only off is not answered, one that met it only on is not refused |
| Personal data | a forgotten user leaves no account or session behind; nobody who has just signed in is retired |
| Model client | a tool call reaches the service whole, once, in order |
| Serving | every request is answered and counted once; no connection is lost to a frozen database |
| Migrations | one run at a time; a run that failed can be retried |
| Web client | the events do not depend on how the network cuts the stream |
| Evals | a run is accepted only when something was checked and no safety case failed |

## 2. The modules

| Module | Models | Spec |
|---|---|---|
| `Runbooks` | texts, sections, audit trail, re-embedding, search and the chat's record | `Spec`; `PrunedSpec` with the owner pruning |
| `MCRunbooks` | TLC's instance of it | |
| `RunbooksProofs` | theorems about it | |
| `Answer` | abstract: what an answer's stream promises its reader | `Spec` |
| `AnswerStream` | `answer_events` and `SSEResponse`; implements `Answer` | `Spec` with fairness |
| `AnswerStreamProofs` | theorems about it, the refinement among them | |
| `TenantContext` | settings, pooled connections, policies | `Spec` |
| `MCTenantContext` | TLC's instance of it | |
| `TenantContextProofs` | theorems about it | |
| `SignIn` | login, callback, sign-in, logout, revoke | `Spec` |
| `MCSignIn` | TLC's instance of it | |
| `SignInProofs` | theorems about it | |
| `AlertIntake` | webhook, creation, deletion and retention of alerts, their events, and the pages of the list | `Spec` |
| `MCAlertIntake` | TLC's instance of it | |
| `AlertIntakeProofs` | theorems about it | |
| `Chat` | the switch, questions in both modes, the agent's loop, the tools, MCP clients | `Spec` with fairness |
| `RateLimit` | windows, counters and policy of the limiter | `Spec` |
| `ProviderKeys` | the provider's keys, the caches and their refresh | `Spec` |
| `SessionLife` | one session: idle limit, touch, expiry, sweep | `Spec` |
| `Erasure` | forgetting and retention against sign-ins and requests | `Spec` |
| `Serving` | requests, the connection pool, the probe, what is answered and counted | `Spec` with fairness |
| `Migrations` | the chain of upgrades, the lock, failures and retries | `Spec` |
| `ModelStream` | `stream` and `embed` of the model client | `Spec` |
| `EventParser` | `parseSSE` of the web client | `Spec` |
| `EvalGate` | attempts, checks, summary and gate of an evals run | `Spec` |
| `Ordered` | a finite set of numbers in order, what `sorted` makes of it; `ModelStream` and `EventParser` use it | |
| `Services` | the disjoint sum of the ten above: one of them at a time | `Spec` with theirs |
| `MCServices` | TLC's instance of it | |
| `ServicesLimitsProofs` | theorems about sessions, signing keys, the rate limiter and the evals' gate | |
| `ServicesDataProofs` | theorems about erasure and migrations, and the types of those and of `Serving` | |
| `ServicesChatProofs` | theorems about the switch, the chat's record and its numbers, a model's tool calls, the page's parser, and the types of all ten components | |

### How the database is modelled

Postgres runs READ COMMITTED, the code's default. Tables are variables and hold
what is committed. What an open transaction has written is in the record of
the request that wrote it (`job` in `Runbooks` and `AlertIntake`, `cb` in `SignIn`) and joins the
tables in its commit. A statement sees what is committed when it starts and what
its own transaction has written. It waits while another open transaction has
written the row or the unique key it needs: that is a guard (`Locked`, `RowHeld`,
`Waits`), so that a cycle of waits is a state the model can be in. A statement is
one action unless the code takes locks in it row by row (`InsertTeam`,
`AlertIntake`'s `Insert`).

### Runbooks

| Action | Code |
|---|---|
| `Save`, `ReembedNext` | `save_runbook` up to `session.commit()`: the stored version is read; an unchanged one ends here |
| `Upsert`, `Record`, `Clear`, `Commit` | its second transaction: `INSERT ... ON CONFLICT DO UPDATE`, `record`, `DELETE` of the sections, `INSERT` of the new ones and the caller's commit |
| `ReadToDelete`, `Delete` | `delete_runbook`: `get_or_404`, then `DELETE`, `record`, commit |
| `ListStale` | `cli.py` `reembed`: the stale runbooks and their texts, read once |
| `Search`, `Ask`, `AskFails` | `search_runbooks` and the `chat.asked` event of `routes/chat.py` |
| `Fail` | the embedding model, a statement, the connection or the process fails |
| `Prune` | `make audit-prune` |

`job[w].stage` is where a writer is suspended: `embedding` has no transaction
open, `upserted`, `recorded` and `cleared` have one. A text is its hash and its
number of sections; a title stands for a (team, title) pair.

### AnswerStream

The producer task, the queue and the generator are separate, as in
`answer_events`. `generator = "sending"` is a yield: the event is with
`SSEResponse`, which may be cancelled there; `"waiting"` is `queue.get()` under
`wait_for`; `"finally"` awaits the cancelled producer. Each item carries its
number, so that loss, doubling and reordering would show. A source emits any
sequence of pieces of text, tool calls and finish reasons, which covers both the
pipeline and the agent. `Answer` is the promise: say, tell in order, and be done
only when all has been told and there was something to read. The refinement maps
`Ended` to what the reader has been told, or "cut".

### TenantContext

`setting[s]` is what `current_setting` returns on server connection `s`. `Begin`
is the after_begin hook, `Authenticate` and `GiveAtOnce` are
`use_transaction_settings` inside and outside a transaction,
`AuthenticateTouching` is the path of `authenticate` that commits first. The
policies of all team tables, of the audit trail and of the switch are `Permits`
and its neighbours, written from the migrations; the routes' rule is
`RouteAllows`, written from `access.py` and its callers. Statements are not
actions: for every operation and every team both are compared in every state.

### SignIn

| Action | Code |
|---|---|
| `Login`, `LoginFails`, `Arrive`, `Refused` | `GET /auth/login`, and its redirect back when the provider is unavailable; the callback's checks and `finish_login`'s `DELETE ... RETURNING` with its commit |
| `Exchange`, `ExchangeFails` | `provider.exchange`, with no transaction open |
| `SignOutOld`, `WriteUser`, `InsertTeam`, `ReplaceMembers`, `Commit` | `sign_out` and `sign_in` statement by statement, and the commit |
| `StatementFails`, `DeadlockDetected` | a rollback, on its own or as Postgres's choice in a deadlock |
| `Logout`, `Revoke`, `SessionExpires` | `POST /auth/logout`; `cli.py` `revoke`; the clock |
| `RegroupTeams`, `RegroupOrg` | the identity provider's administrator |

### AlertIntake

| Action | Code |
|---|---|
| `Receive`, `Insert`, `Commit` | `ingest_alertmanager`: the teams are read and the rows built; the rows of `INSERT ... ON CONFLICT DO NOTHING` one by one; `record` for what it returned, the commit and the answer |
| `Create`, `Insert`, `Commit` | `create_alert`: one row without an episode |
| `ReadToDelete`, `Delete` | `delete_alert`: `db.get`, then `DELETE`, `record`, commit |
| `Retain` | `privacy.retention`, its alerts and its event |
| `ListPage` | `list_alerts` and `newest_alerts`: each team's newest rows past the cursor, merged, one more than the page |
| `Fail` | a statement, the connection or the process fails; Postgres ends a deadlock |
| `NewTeam`, `Tick` | a sign-in inserts a team; `now()` moves on |

An episode is a fingerprint with its `startsAt`, that is one `external_id`.
`created_at` is `now()`, the time the transaction began, so rows of one webhook
share it and a row can be committed with an older time than one already listed:
`owed` therefore holds what there was when the walk began. `WalkIsComplete`
promises no more than that. A row that waits for another webhook's uncommitted
row goes on when that one commits (and is then skipped) or fails (and is
inserted); that wait is what makes the answer 200 true of a skipped episode.

### Chat

| Action | Code |
|---|---|
| `Turn` | `switch.turn` with its audit event and the caller's commit |
| `Ask`, `CheckSwitch`, `ReadContext`, `RecordAsked`, `RequestFails` | `chat_stream`: the switch is read, then (pipeline) sections and alerts, then `chat.asked` is committed and the answer starts; `_agent_answer` records without reading |
| `ModelAnswers`, `ModelFails`, `NextCall`, `NextRound` | `agent._loop`: a stream of the model, its calls one after another (repeated ones refused), the next round |
| `Cut` | `answer_events` cancels the producer: the limit, or the asker leaves |
| `McpCall`, `Revoke` | `mcp_server.call_tool`, which authenticates each call; the session ends |
| `Query`, `QueryFails` | `_list_alerts`, `_search_runbooks`: read, event and commit in one transaction, awaited or abandoned |
| `TakeResult`, `TakeError`, `Deadline` | `_in_time` and what follows it: the result is numbered and read, or the model is told that the call timed out |

`asks[c].told` is what the model has read, with the numbers it read it under, and
`recorded` what committed events name; neither is a variable of the code. An MCP
client's calls overlap and share one list of sections.

### RateLimit, ProviderKeys, SessionLife

Time is a natural number, and moves only while nobody overruns a limit
(`Patience` is the limiter's `asyncio.timeout`, `FetchMax` an assumed total for the
HTTP client's requests, `Delay` the time a request takes between `now()` and its commit).

- `RateLimit`: `Hit` reads the clock and names the window; `Count` is `INCR` with
  `EXPIRE NX`, which Redis may also do after the limiter gave up; `Answer` and
  `Unavailable` decide. `Live` is the key's life.
- `ProviderKeys`: `Start` is `_signing_key`'s check; `FetchMetadata`, `AnswerKeys`,
  `KeepKeys`, `FetchFails` are its fetch, whose answer is made at one moment and
  kept at another; `Check` is the watcher; `Publish` and `Withdraw` the provider.
- `SessionLife`: `Authenticate` is the query, `Touch` the update of
  `last_seen_at`, whose time is that of the transaction's beginning; `EndSession`,
  `Sweep` delete the row. `used` is when the session was last used.

### Erasure, Serving, Migrations

- `Erasure`: `Forget` lists the accounts of an email, `ForgetAccount` counts and
  deletes one; `Retention` is the snapshot of the `DELETE`, `RetireRow` one of its
  rows, looked at again after a wait (`Matches`); `EndJob` commits or, in a dry run,
  rolls back. `Upsert` and `SignedIn` are the two ends of a sign-in's transaction.
- `Serving`: `Checkout`, `PoolTimeout`, `DatabaseAnswers`, `ConnectionDies` are the
  life of a pooled connection; `Sends`, `Streams`, `StreamEnds` what the middleware
  sends and counts; `ProbeDeadline` is `probe`, which leaves a late check running.
- `Migrations`: a run takes the lock on one connection (`TakeLock`), reads the
  version and upgrades in one transaction on another. `Chain` lists what each
  migration creates and which index it builds concurrently; `CommitForBlock` is
  the commit an autocommit block makes, `Build` what runs in it.

### ModelStream, EventParser, EvalGate

- `ModelStream`: a call is cut into pieces; pieces of several calls interleave;
  `Slot` is `setdefault` by index; `Finish` yields the calls in the order of their
  indexes (`Ordered`'s `InOrder`) and clears; `Close` ends the stream in any of its
  ways; `Embed` sorts and counts the vectors.
- `EventParser`: a stream is a sequence of words, comments, CR and LF; `Read` adds
  any number of them to the buffer and runs the loop; `TakeLine` is one turn of
  it, `Lines` the loop as a recursive function, `Dispatch` one line. `WholeEvents` is the
  reference: at each blank line of the whole stream the fields since the blank line
  before it, defined by their places and without the loop.
- `EvalGate`: a case says which checks it asks for, an attempt whether each would
  pass; `Checks` leaves out those whose input is not there, as `score` does; `Gate`
  is `gate`, the comparison with a baseline and the exit status. `WaysAsBad` is
  `fisher_worse` in whole numbers; an assumption of `MCServices` compares it with a
  count of the draws. `SeedingFails` is a run that breaks off without a report.

## 3. What is model-checked

| Run | Instance | Shows |
|---|---|---|
| `runbooks` | two requests, the operator and one chat; two titles, two texts (one and two sections), two embedding keys; four starts | sections are the texts, hashes lead to their saves, the trail is written with the change and ends at the text |
| `runbooks_replaced`, `runbooks_deleted`, `runbooks_pruned` | one title | findings 1, 2 and 3 |
| `answer_stream` | queue of two, five items | the refinement of `Answer`, the counts, the bound on what is read ahead, and that every answer closes |
| `answer_stream_hung_up` | two items | finding 4 |
| `tenant_context` | two requests, two users, two teams, two server connections, all roles | the policies agree with the routes in every transaction |
| `sign_in` | one browser that is signed in and two more callbacks, two users, two teams, two login states, one change of groups | access, single use of the state, the end of the old session and of no other, a failed sign-in that ends none, and which waits can form a circle |
| `sign_in_revoked` | the same with one team | finding 5 |
| `services` | the ten components of `Services`, each on the instance `MCServices.cfg` gives | what a model reads is on record under stable numbers, answers end, the limiter's bound, trusted keys, idling, forgetting, migrations one at a time, whole tool calls and events, an accepted run has checked something, and the pool recovers |
| `migrations_retry` | two runs, one failure | finding 6 |
| `alert_intake` | two requests, two episodes of two teams (one team is new), payloads of up to three alerts (an episode may repeat), pages of one row, three starts, two times | an answered episode is stored, every alert is on record, the walk repeats and skips nothing, which webhooks can wait in a circle |

Bounds, and why they are enough to meet the hard cases:

- `MaxStarts = 4` in `Runbooks`: two saves of one title, one re-embedding or
  deletion and one search overlap in one behaviour. Two titles let the operator's
  list have two entries. One text of two sections, so that a lost or doubled section
  is not confused with a lost text.
- `QueueSize = 2`, `MaxItems = 5` in `AnswerStream`: the queue fills, one item
  waits in `put`, one is being sent, and more follow. The code has 64.
- `TenantContext` needs no bound: its state is finite. Two connections and two
  requests let each request reuse the connection the other one has left.
- In `SignIn` the browser starts signed in and two more callbacks follow: they can
  hold the same old session, be of one user or of two, and list the same two teams
  in opposite orders. `Callbacks` and `States` bound the sign-ins, `MaxChanges` the
  changes of groups.
- `MaxListed = 3` in `AlertIntake`: a webhook can list an episode twice, also around
  another one. `MaxStarts = 3`: two overlapping webhooks and a creation,
  deletion or retention in one behaviour, so that a walk has three pages.
  `PageSize = 1` puts a page boundary after every row; two teams make the merge
  of several teams matter. `MaxTime = 1` gives rows of one time and rows of two;
  with two times a transaction that began earlier can commit later.

- `Services` follows one component at a time, the others resting in an initial
  state: a disjoint sum. They share no variables and no actions, and each property
  reads one component's, so a behaviour of several at once would show nothing
  that one of its projections does not. What they share in the program is covered where
  it matters: the database in the modules above, the session in `Chat`
  (`Revoke`).
  - `Chat`: one question in agent mode with two rounds of two calls and a last one
    without tools (calls may repeat, be invalid, fail or be late); two questions
    in pipeline mode; an MCP client with two calls that overlap; two sections, one
    alert, and one turn of the switch from either position.
  - `RateLimit`: three requests, limit one, so that a window can be over its
    limit and two windows meet; a request sent in one window is counted in the next.
  - `ProviderKeys`: two keys, two verifications at once, ages of zero and one, three
    units of time: a slow fetch ends after a newer one.
  - `SessionLife`: the idle limit is ten times the touch interval, as in the code,
    and shorter than the session's age; two requests overlap, and may take longer
    than a touch interval (`Delay = 2`), so that a sweep can come between a request's
    `now()` and its refusal.
  - `Erasure`: two accounts of one person, two user ids, so that a forgotten
    account can come back under a new one. `Serving`: three requests of any sort, two connections.
    `Migrations`: the whole chain, two runs, two failures, from every stage of
    the database. `ModelStream`: two calls of up to two pieces, a finish reason that is
    repeated or left out. `EventParser`: every stream of up to five symbols, cut
    anywhere. `EvalGate`: every suite of two cases, two attempts each, and a
    baseline of eight attempts that failed never, half of the time or always.

Symmetry is used only where no temporal property needs it off and no `CHOOSE`
picks from the set: requests in `Runbooks` (not titles: an idle job holds one
chosen title), requests and connections in `TenantContext`, everything but
the first callback in `SignIn`, and requests in `AlertIntake`.

`CHECK_DEADLOCK FALSE` in all runs but `tenant_context`: there the
system may have nothing left to do (the bounds are used up, or the answer is
over). What must not stop half-way is stated as a property instead:
`EveryAnswerCloses`, `OneUsersSignInsDoNotCollide`,
`OneOrderNeverCollides`, `AnswersEnd`, `PoolRecovers`.

### Fairness

`AnswerStream`, for `EveryAnswerCloses`:

- a task that can run does run (the event loop): `Put`, `PutLast`, `Stop`, `Take`,
  `Account`, and `Start` unless the response is cancelled first;
- the limit expires: `asyncio.timeout` around the source (`Expire`);
- an event that is being sent is taken or the client is disconnected: nginx gives
  up on a client after its send timeout, and uvicorn cancels the response
  (`Sent \/ Cancelled`).

Nothing is assumed of the source: it may be silent for ever, and then it is
the limit that ends the answer. Nothing makes a client leave.

`Chat`, for `AnswersEnd`: the event loop runs what is ready (`NextCall`,
`NextRound`, `TakeResult`, `TakeError`) and its timers (`Deadline`), and each stream
of the model ends, with an answer or calls, since it has a timeout of its own.
Nothing is assumed of the database: a tool call may run for ever, and nobody need cut
the answer.

`Serving`, for `PoolRecovers`: a query ends, answered or with its connection
(`statement_timeout`, or PgBouncer's `query_timeout` when Postgres cannot answer); a
wait for the pool, a probe and a stream have their limits. The database may freeze
for ever. Both properties say that from some time on nothing is under way, since
each asker asks once and each request comes once.

The other modules are checked for safety only. In `Runbooks` no waits can form a circle: a
transaction takes the lock of one runbook's row and of nothing else.

## 4. Findings

Each is a run whose expected outcome is a counterexample.

1. `SaveNamesTheHashItReplaced`: a save's event names as replaced the hash read
   before the embedding call (`runbooks.py:245`), not the one it replaced, when
   another save commits in between. The handbook says "the hash it replaced".
2. `NoAnswerCitesADeletedRunbook`: a runbook deleted while `reembed` holds its
   text is stored again (`cli.py:123`), although "no answer can cite a deleted
   runbook" (`routes/runbooks.py:105`).
3. `KeptHashLeadsToSave`: pruning by age removes the save of a text that is still
   stored, and later chats name a version with no save in the trail
   (`src/Makefile:380`, ADR-0019).
4. `EveryStartedStreamIsCounted`: a client that leaves while `meta` is being sent
   leaves the gauge raised and the answer uncounted (`triage.py:261`).
5. `RevokeMakesChangesImmediate`: a callback that read its claims before a change
   of groups can commit after the `revoke` that followed the change (`cli.py:95`).

6. `RetryTripsOnlyOverAnIndex`: a migration that fails while it builds an index
   concurrently has committed its earlier tables or columns without its version
   (`20260922_75397b875fb5:27`, `20260923_3713e56869fa`). Dropping the INVALID index,
   as `migrations/env.py:9-11` says, is not enough: every retry fails over them.

One more disagreement with a comment has no run of its own: a case for which no
check could run counts in `regressions` as if every attempt had failed
(`run.py:335-351`), although "such a result is neither a pass nor a fail"
(`run.py:117-118`). A judge-only case that passed in a baseline with `--judge` is a
regression in a run without it. It rejects a run that could be accepted, never the
other way, so `GateMeansChecked` does not show it.

Also seen, and not contradicted by any document: two users whose claims list the
same new teams in opposite orders can deadlock (Postgres ends one with an error),
and so can a sign-in that has ended an expired session with one that sweeps it.
`OneUsersSignInsDoNotCollide` states exactly which circles remain. Two webhooks
that list the same episodes in opposite orders can deadlock in the same way, and
Alertmanager sends the failed one again (`OneOrderNeverCollides`). An alert that was
deleted while it fires is stored again by the next re-send, and two overlapping
deletions of one alert are recorded twice.

- A request that Redis counts after its window's key has expired starts a new
  key of the old window; `AtMostTwicePerWindow` leaves such requests out and says so.
- Verifications that overlap each fetch the keys, and so does each one after a
  failed fetch, so that "at most this often" (`oidc.py:44`) is of one verification
  after another's success. A withdrawn key is trusted for the keys' greatest age and
  one fetch.
- A slow request's touch can move `last_seen_at` back by the time it took.
- Each `/ready` probe of a frozen database holds a pooled connection until its
  query ends: probes alone can fill the pool, which `PoolRecovers` shows to be
  temporary.
- `forget` lists accounts by email and deletes them by id: an account of that
  email that is created meanwhile is not among them.
- Whether a case is gated is decided by its first attempt. A safety case that only
  checks its context, run against the model alone, would not be gated; the
  repository's cases of that kind name the service as their target.

## 5. What is proved

TLAPS checks the theorems below for every value of the constants that satisfies
the named assumptions of the modules. Each proof has the same shape: an invariant
that is inductive, one lemma for each action that moves it, and the property read
off it at the end. What is worth knowing of a proof is its invariant: it says which
locks, ids and orders the property rests on.

`RunbooksProofs` (the sets of titles, texts, links and keys are not empty, the
operator is no request, a text has a number of sections): `TypeCorrect`,
`SectionsFollowTheTexts`, `HashesAreOfTheText`, `HashesLeadToTheSave`,
`TrailEndsThere` and the action property `ChangesAreRecorded`.

- `SectionsAreTheTexts` is not inductive: a commit deletes the sections its own
  `DELETE` found, some statements earlier. The strengthening `IInv` says why that is
  still all of them. The upsert comes first and takes the title's lock, so one open
  transaction at most writes a title (`LockIsExclusive`), the row it will commit
  keeps the identity of the committed one (`HeldRowKeepsItsId`), and until it commits
  nobody changes that runbook's sections (`ClearedIsCurrent`).
- For the hashes it adds that every stored text has its save in the trail
  (`RowsAreRecorded`) and that events are numbered below the sequence
  (`EventsAreNumbered`). For the order of the trail `TrailInv` adds that the event
  a writer has numbered while it holds a row is newer than that row's committed ones
  (`HeldRowsEventIsLast`), and that a deletion's id keeps its title.
- All are preserved by the owner's pruning too.

`TenantContextProofs` (`NobodyIsNew`): `TypeCorrect`, `SecondLayerAgrees`,
`NoContextGivesNoRows`, `ServiceIsConfined`. A connection nobody uses has no setting
left (`FreeIsUnset`), the one a request uses has exactly what its session was given
(`HeldIsGiven`), and that follows from how far the request is authenticated
(`GivenByStage`). The four properties are then facts about three records.

`AnswerStreamProofs` (the queue has room for one item, failures are errors):
`TypeCorrect` with the bound of the backpressure, `CountsAreRight`, and
`StreamKeepsThePromise`: every step of the producer, the queue and the generator is a
step of `Answer` or none. `InFlight` says what is between the source and the reader,
phase by phase: the queue holds the items that follow the last one told, then at most
one ending; `Phases` says which states of the two tasks go together.

`SignInProofs` (finitely many teams, `Nothing` is new): all six invariants of the run
and its action property,
`TypeCorrect`, `AccessIsNeverMixed`, `OneCallbackPerState`, `SignInEndsTheOldSession`,
`NoSlugIsMissing`, `OneUserQueues`, `OnlyCommitsEndSessions`. The invariant rests on two locks and an order: the
user's row, so that two sign-ins of one user replace its memberships one after the
other; the key of a team that is being inserted, so that a slug has a committed team
or one's own; and a session's id is sent only after its commit, so that a session
once ended never comes back. What a sign-in has deleted before its commit is the
session of its own cookie, and ids are unique (`EndedIsOld`, `SessionIdsAreUnique`).
 `OneUserQueues` is about circles of any length: who
waits for a team waits for one that holds the user's row, and so does he.

`AlertIntakeProofs` (finitely many episodes, labels lead to teams): all of the run's
invariants, `TypeCorrect`, `AnswerMeansStored`, `TrailAccountsForAlerts`,
`WalksAreComplete`, `OneOrderIsEnough`. A webhook's payload is, at any moment, what
it has tried followed by what is left; the rows it has inserted are apart from every
other open row, stored row and recorded one; and an episode it skipped is on record;
an episode it lists twice is its own row the second time. For the pages: what the reader sees is ordered by (`created_at`, id), and what is
owed lies below the cursor. For the circles: each waits for one that is further on in
the common order, and numbers do not fall for ever.

`Services*Proofs` (`ServicesConstants`, the components' assumptions on their
constants), each about `Services`' whole specification:

| Theorem | Invariant | Rests on |
|---|---|---|
| `UseKeepsASession` | `LifeInv` | a touch keeps `last_seen_at` within a tenth of the idle limit, or a touch's delay, of the last use; a row goes only when ended or past its age |
| `TrustFollowsTheProvider` | `KeysInv` | what is held was published one fetch before it was stored, or later, although fetches overtake one another |
| `TwiceTheLimitAtMost` | `LimitInv` | requests counted in one window have different counts, since its key outlives it; an interval of a window's length meets two windows |
| `AcceptedRunsAreChecked` | `GateInv`, `OneWayAsBad` | a safety case always has a check that is run, so each of its attempts is gated as the first was and a failed one keeps the case from passing; no pass after a clean baseline is a regression wherever one can show (`CanShowRegression`) |
| `ForgottenForGood` | `ErasureInv` | an id has one owner and is never given twice; the rows a job is about to delete are still theirs |
| `MigrationsTakeTurns` | `MigrationInv` | a run reads the version under the lock, so that it is the schema's; each table, column or index has one migration that makes it (`EachHasOneMaker`) |
| `SwitchDecides` | `ChatInv` | what the switch was during a question's wait decides it; no call of an asker is under way before its answer starts |
| `NothingUnrecorded` | `ChatInv` | what a finished call found is recorded before anybody is told |
| `SectionsKeepTheirNumbers` | `ChatInv`, `MergedExtends` | a merge keeps the list as it was and adds only what the search found |
| `CallsArriveWhole` | `ModelInv` | until the finish the table holds exactly the pieces sent of each call, in order; all are sent when it comes, and it leaves the table empty |
| `AnySplitYieldsTheSame` | `ParserInv` | what the parser has is a function of how far it has read and of a line's end at or before that (`Standing`) |
| `TypesAreKept` | the ones above, `ServingInv`, `ChatBounds`, `CountsAreReal`, `MigrationBounds` | see below |

`AnySplitYieldsTheSame` is for streams of any length. `Boundary(p)` says that a line
ends at `p` and is not a CR whose LF is still to come; `Standing(p, n)` is the state
of the loop when everything up to `p` has been taken and what lies between `p` and
`n` is buffered: the fields since the last blank line, and the events so far, by the
places of their lines in the stream. One turn of the loop moves `p` past the first
line's end in the buffer (`TakesLine`), or the loop is at rest; a read moves `n`
alone. A CR at the buffer's end is why the loop has to wait: without that the next
read could begin with the second half of a line's end, which would be one blank
line too many.

`AcceptedRunsAreChecked` needs that a case which stops passing counts as a
regression. `Regressed` compares numbers of draws, `C(n, k)`. Only draws in which
all failures fall on this run's attempts are as bad, there is one of those
(`OneWayAsBad`), so that its share is `1 / C(Repeat + Before, Repeat)`, and that is
below `REGRESSION_P = 0.05` exactly when `CanShowRegression`. With fewer attempts
nothing is a regression, as the code has it, and the property promises nothing of
the baseline. The rest of it is for every number of repeats. The lemmas
about factorials are about every argument.

`TypesAreKept` is more than ranges. In `Chat` an agent waits for exactly one call,
and an answer that has ended, been cut or failed for none (`OneAwaited`); the calls an
answer begins are bounded by its rounds (`Quotas`: after `step` rounds at most
`step * MaxCalls`). In `Serving` a connection is held by one request's unfinished
work, which holds no other, unless a probe gave up on it, and requests in progress
are those handled or streamed (`HoldingsAreRight`, `AccountsAreRight`). In
`RateLimit` no key has counted more than the requests Redis counted in its window,
which the proof made the type say instead of "at most all requests".

Two properties were wrong before they were proved. `SessionInUseLives` said that a
request is refused only when, by its own `now()`, the session was at its full age. The
proof's step for the refusal failed: a sweep that runs between a request's `now()` and
its `SELECT` can delete the row. With `Delay = 2`, longer than a touch interval, TLC
shows it too. The property now says "by now", and the run has that bound.
`GateMeansChecked` said that something passed in every accepted run. With
`--min-pass-rate 0`, which the code allows, nothing need pass: the property now says so
(`Needed = 0 \/ ...`).

`Merged` in `Chat`, `Lines` in `EventParser` and the library's factorial are recursive
functions. Induction theorems that take an operator are out of the provers' reach, but
a claim about one function can be had from the least number for which it would fail
(`HasLeast`): so `AfterExists`, `TurnsExist` and `FactorialUpTo`, that the recursions
define functions, and then `MergedExtends`, `LinesAreTaken` and
`FactorialsArePositive`. The community modules' `SetToSortSeq` rests on an operator of
TLC about which nothing can be proved: `Ordered` defines the same order by ranks, and
`InOrderIsSorted` says that it is one.

Checked by TLC only, and why:

| Property | Why |
|---|---|
| `EveryAnswerCloses`, `AnswersEnd`, `PoolRecovers` | liveness under fairness |

## 6. Abstractions, and what is left out

- Texts, titles, hashes and embeddings are values; two texts never have one hash.
- Which sections a search ranks first is a free choice of at most `MaxHits`.
- Request validation, logging and tracing do not change the state the modules
  describe.
- `SignIn` has no clock: a session expires at any time, a login state may be too
  old at any time (`Refused`). The idle limit and `last_seen_at` are in `SessionLife`.
- Cryptography (signatures, PKCE, nonce) is what makes `Exchange` succeed or fail.
- `AnswerStream` leaves out the text of events, usage and citations.
- `AlertIntake` leaves out severities and texts. Row-level security is in `TenantContext`; here a reader's teams
  are `Sees`.
- `Chat` leaves out the words of questions and answers, and what a model makes of
  them: it calls any tools and ends at any time. `RateLimit` follows one client of
  one scope. `RateLimit` and `SessionLife` assume settings the validation of single
  values does not tie together: the limiter's timeout is shorter than its window, and
  a session ends before its user is retired.
- `Serving` has one query per request; what a request does with it is in the other
  modules. `Migrations` leaves out data types and downgrades, and ends a
  run together with its lock: should the connection of the lock alone be lost
  (`env.py:64-67`), a second run would start while the first goes on.
- `ProviderKeys` bounds a whole fetch by `FetchMax`. In the code the client's timeout
  is per operation of a request, and a fetch may take two requests (`oidc.py:100`,
  `278-279`), so that a provider which answers drop by drop can take longer.
- The off switch is read once, before a question is embedded or a model called. An
  "off" that commits later does not stop that question, in the code or in `Chat`, and
  ADR-0024 promises no more than a look on every question.

### Not modelled

| Part | Why |
|---|---|
| Redaction (`redact.py`), `split_sections`, `_limit`, the pattern of `citations()` | what they compute is about characters; nothing else depends on more than the number of pieces |
| Ranking (`vector.py`, the SQL of `_search`) | arithmetic on vectors and Postgres's text search; a search is a free choice of sections |
| Token verification, PKCE, cookies' attributes | cryptography of libraries; succeeds or fails |
| Tracing, log records, most metrics | no effect on the program |
| `main.py`, `config.py`, `schemas.py` | wiring and validation of single values |
| The asking page (`Chat.tsx`) and the rest of the web client | presentation around `EventParser` and `AnswerStream` |
| `deploy.sh`, `backup.sh`, `restore.sh`, drills | one operator's sequential commands over Docker and Postgres, whose behaviour is not in this repository |
| `src/infra`, `src/tools/mock-llm` | declarations and a test double |
| `export` (`privacy.py`) | reads, statement by statement, and records that it did; nothing depends on it |
| Evals' calibration and retrieval report | reports |

## 7. What is left

Every invariant and action property of the passing runs is a theorem. What could follow:

1. `Serving` as an implementation of an abstract account of requests (each received,
   answered and counted once), as `AnswerStream` is of `Answer`.
2. The modules of section 6, should their code come to keep state: `export` when it
   has to be of one moment, the asking page when answers are resumed.
