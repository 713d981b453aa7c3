# A TLA+ model of crowdsec-capi

crowdsec-capi is a self-hosted CrowdSec Central API: one Go binary (several
replicas may run) over one PostgreSQL database. Agents register, enroll, push
signals and pull a stream of decisions; admins edit machines, decisions and
allowlists; a background syncer copies the feed of the real CAPI into the
decision table. All shared state is in the database, most code paths are a few
SQL statements in a row with nothing that holds them together, and that is where
the interesting behaviour is.

This directory holds TLA+ modules for the parts that carry that logic, TLC
configurations that check them on small instances, and TLAPS proofs about every
one of these parts.

    tlc -workers 2 -config stream.cfg DecisionStream
    tlc -workers 2 -config ingest.cfg MCSignalIngest
    tlapm DecisionStreamProofs.tla

`PROJECT.json` lists components, runs (with the module each configuration is
for), theorems, the lines every definition models, the hazards, and the
mutations that show each property at work.

## 1. Inventory

| Component | State | Operations | Hard behaviour |
|---|---|---|---|
| Decision table and stream (`db/queries/decisions.go`, `api/v2/decisions.go`, `api/admin/decisions.go`) | `decisions`, `machine_decision_cursors` | create, upsert and mark from upstream, delete, stream pull (cursor, new, deleted, cursor), v2 and v3 answer | statements of writers interleave with the four of a pull; stamps are taken when a transaction starts and become visible when it commits; the cursor is stored before the answer is delivered and outlives its machine; v3 names values, not decisions |
| Expired-decision cleaner (`cmd/serve/serve.go:166`) | none of its own | soft delete of what has expired, purge of old tombstones | one per replica, errors and restarts between the halves, renewals meanwhile |
| Upstream syncer (`upstream/sync.go`, `client.go`) | `upstream_sync_state`, advisory lock, token | setup, enroll, wait for approval, sync | several replicas, rate limit, lock sessions that die, SIGTERM, writes that fail one at a time, deltas delivered once |
| Process (`cmd/serve/serve.go`) | pool, contexts | start, SIGTERM, shutdown | deferred `pool.Close` against detached writes |
| Signal ingestion (`service/signal.go`) | `signals`, `decisions` | process a batch | look-then-insert without a transaction, partial failure, blocking and allowlisting meanwhile |
| Machines and keys (`api/v2/watchers.go`, `auth/middleware.go`, `api/admin/machines.go`, `enrollment.go`) | `machines`, `enrollment_keys`, tokens | register, log in, enroll, reset, deregister, block, unblock, delete, make and delete keys | key use and validation are separate statements; tokens outlive rows |
| Rate limiter (`api/router.go:27`) | map of addresses | allow a request | the routes for registration and login share one window; one map per process |
| register command (`cmd/register`) | credentials file | register, log in, enroll, save | failure between steps, answers lost, repeated runs, the limiter |
| Allowlists (`allowlists/loader.go`, `db/queries/allowlists.go`, `api/admin/allowlists.go`, `api/v2/allowlists.go`) | `allowlists`, `allowlist_entries` | load a file, create, delete, edit, read | replicas load at once: snapshots, lock waits, deadlocks; check-then-delete; reads of two statements |
| Server settings (`db/queries/settings.go`) | JWT secret | get or create | replicas race on an empty database |
| OIDC login and sessions (`api/authapi`, `auth/oidc`, `auth/session.go`) | state and session cookie in the browser, none in the server | login, callback, exchange, logout | codes good once, one state cookie for all tabs, redirects that lead back, replicas that share nothing but the secret |
| Passwords, configuration, migrations, compatibility endpoints, lists and statistics, web UI | none shared | | cryptography, parsing, single reads |

How they interact: ingestion, syncer, admins and cleaner all write the decision
table, and agents see the result only through the stream; ingestion reads the
allowlists and the machine status that admins and loaders write; the register
command goes through limiter and middleware to the machines and keys; process
start reads or creates the secret and loads the allowlists, then starts cleaner
and syncer; tokens and sessions of all replicas are made with that secret;
SIGTERM cancels a context that all background work shares, except for the
writes of a sync.

What makes each correct:

* stream: an agent that applies every answer enforces what is in force, no ban
  and no withdrawal is missed without a reason one can name; by the v3 answer
  the same holds for values;
* cleaner: what has expired leaves, and a tombstone stays until agents had their
  retention period to pull it;
* syncer: one sync at a time, calls spaced, the table agrees with the feed or
  the difference is on record and is repaired;
* ingestion: the answer accounts for the batch, nothing allowlisted or from a
  blocked machine gets in, duplicates only through the race;
* machines: a key is not used more often than it may be, a block holds,
  registration does not take over an account;
* register command: what it writes works, uses of the key are accounted for,
  and people who try again succeed;
* allowlists: the file's entries are there after a load, no gap while loading,
  a read lacks nothing that nobody removed, and has nothing that nobody put in;
* secret and sessions: replicas agree on one secret for good, every session is
  that of an allowed account and is honoured by all replicas, and an allowed
  user gets in.

## 2. Modules

| Module | Models | Proofs |
|---|---|---|
| `DecisionStream` | decision table, v2 stream, cleaner | `DecisionStreamProofs` |
| `V3Stream` (`MCV3Stream`) | the v3 answer, on top of `DecisionStream` | `V3StreamProofs` |
| `UpstreamSync` | syncer and process life of each replica | `UpstreamSyncProofs` |
| `SignalIngest` (`MCSignalIngest`) | POST /v2/signals | `SignalIngestProofs` |
| `MachineLifecycle` (`MCMachineLifecycle`) | machines, keys, tokens | `MachineLifecycleProofs` |
| `KeyLedger` | abstract: keys as tickets, implemented by `MachineLifecycle` | |
| `RateLimiter` | the window of one key of the limiter | with `RegisterCommand` |
| `RegisterCommand` | the register command, composed with `MachineLifecycle` and `RateLimiter` | `RegisterCommandProofs` |
| `Allowlists` | one allowlist, its loaders and admins | `AllowlistsProofs` |
| `AllowlistRead` (`MCAllowlists`) | an agent that reads it, on top of `Allowlists` | `AllowlistsProofs` |
| `OnceRegister` | abstract: a register that is written once | |
| `JwtSecret` | the signing secret, implements `OnceRegister` | `AdminLoginProofs` |
| `AdminLogin` | OIDC login and sessions, on top of `JwtSecret` | `AdminLoginProofs` |

Two abstract modules say what a component promises, and a refinement mapping
(INSTANCE ... WITH) shows that it does: `JwtSecret` implements `OnceRegister`,
`MachineLifecycle` implements `KeyLedger`. Four modules are built on others, and
each is shown to be a refinement of what it is built on: the steps of
`AdminLogin` are steps of `JwtSecret` or leave it alone; `RegisterCommand` implements `MachineLifecycle`,
`V3Stream` implements `DecisionStream`, `AllowlistRead` implements `Allowlists`,
so that what is known of the lower module holds of the composition.

Conventions. Modules keep the names of the Go functions. A statement of
PostgreSQL is one action; where READ COMMITTED lets a statement see an old
snapshot or wait, it is two (issue and commit, or begin and finish). Failed
statements and crashes are actions with a budget (`MaxFaults` and the like).
Variables called *observers* record history for the properties; no guard of
another action reads them. Operators marked "Seeded bug" are no part of any
specification: each is what a definition would be with a plausible slip, and
`PROJECT.json` pairs it with the property that notices it.

### DecisionStream

`rows` is the decisions table by uuid; only state, expiry and the two stamps are
kept, as nothing else decides what a pull returns. `stmt[s]` is the write a
session has issued: it has taken `NOW()` and the set of rows its WHERE clause
matched; `Commit` evaluates the clause again on the current rows, as READ
COMMITTED does, and writes the old stamp. A decision may be born expired
(`Durations` with 0), as a signal may carry a zero or negative duration.

`pull[m]` is the position in `GetDecisionStream`; the cursor is read in
`PullBegin` and kept by `cursor`, which only this pull and a stray one write.
`startup` is what the agent asked for, `full` what it gets: a request for a delta
is answered in full when there is no cursor, and also when the cursor cannot be
read (`PullBeginUnread`), as the code takes any error of that SELECT for a missing
row. A full answer looks like a delta without deletions. An agent that has not
asked for it adds the list to what it has, and the withdrawals it did not know of
(`LeftOut`) will be behind the cursor.
`StrayPull` is any other pull with the same credentials, a second agent or a
request that was given up; `AgentReplaced` is a machine id that is deleted and
registered again by an agent that knows nothing, under the cursor row of the old
one.

`told` is what an agent enforces if it applies answers as agents do (drop the
deleted, add the new); `lost` collects what a commit raced past (the write was
stamped at or before a cursor that had not seen it), what was in an answer that
never arrived, went to somebody else or to the agent's predecessor, or what an
unasked full list left out. The
properties then say: apart from `lost`, nothing is missed. `lost` only grows
through these events and a startup pull empties it, so the exemption cannot hide
another defect.

### V3Stream

`value` gives each decision its scope and value, fixed from the start, as no
statement updates it. The answer is the two lists of `DecisionStream` as sets of
values (grouping and order within a list are layout). `enforced` is what an agent
has that knows values only. `struck` are the decisions whose value an answer
withdrew on behalf of another decision: with two decisions on one value, the end
of one lifts the ban at the agent until it starts again or the other is renewed.
Properties relate `enforced` to the table and show that this is the only
difference to v2.

### UpstreamSync

One record per replica follows `Run`, `setup` and `sync`; `life` is the process
(`up`, `cancelled` after SIGTERM, `closed` once the pool is closed, `down`).
Timestamps of `upstream_sync_state` are ages with a cap, so that the module has
no clock. The ticker may fire at any time, which includes the two hours of the
code (whose rate limit makes about every second tick a skip). Upstream is
external: a delta returns what is pending for the account and forgets it, a full
snapshot returns what is listed. `missed` is on record for every change that was
taken from upstream and not written. `HasEnrolledAt` is FALSE because no
migration creates the column that `setup` reads and writes.

Left out: the token and its restoration (a failed login is a failed call), and
the other writers of upstream rows (cleaner, admin), which `DecisionStream` has.

### SignalIngest

A handler goes through a batch signal by signal and decision by decision:
validation, allowlist look, dedup look, insert, each a statement, each of which
may fail in the way the code treats it (the allowlist look and the signal insert
skip, the dedup look counts as "none"). Admins block, delete and edit meanwhile.
A signal is the list of values its decisions ban and whether it can be stored.

### MachineLifecycle

Every request is the middleware's check followed by the handler's statements,
with other requests and the admin in between. Passwords, keys and tokens are
members of sets. `enrolled` counts enrollments per key, `overtaken` the requests
whose machine was blocked after their check.

`KeyLedger` is what an admin who makes a key may rely on: a key stands for as many
tickets as its limit, a ticket is taken while the key is live, then spent on one
enrollment or lost, and none comes back. The mapping takes the stored use count for
the tickets taken, the requests between `GetEnrollmentKey` and `EnrollMachine`
(`Pending`) for those that are out, and the enrollments for those spent. A request
that fails between the two statements, or finds its machine deleted, loses one;
a key that is deleted or expires closes, and what is out stays good.

### RateLimiter, RegisterCommand

`RateLimiter` is the slice of times of one key; of times only the ages matter, so
that the window needs no clock. `RegisterCommand` puts it in front of the two
routes it guards and lets people behind one address run the command: each run
draws an unused machine id, goes from registration to the credentials file, and
stops at the first error. A request that was sent is served by a handler of
`MachineLifecycle` whether or not the run still waits for it; answers get lost,
runs are killed, files cut off, admins block and delete, keys are revoked. People
who fail wait a window before the next run (`patient`) or do not (`eager`).

### Allowlists, AllowlistRead

One list. `SyncManagedEntries` is a transaction: `ClearBegin` takes the snapshot
of the DELETE, `ClearRow` locks and removes a row, keeping those it has while it
waits for the next, `ClearEnd` finishes the statement. An entry of the file that
another transaction has put there since is updated and locked
(`UpdateConflicting`), any other is inserted (`Insert`); both wait for a row that
somebody else has in hand. The first insert also has its foreign key checked, which locks the
row of the list (`InsertChecked`) or finds it gone (`InsertRefused`), and
`CommitEntries` publishes.

Admins run single statements, and `DeleteAllowlist` of the code two: the check of
the managed flag (`DeleteCheck`) and the deletion by id. The second takes the row of the
list (`DeleteAllowlist`), then cascades to one entry after the other (`CascadeRow`)
and ends with `DeleteCommit`, or with `DeleteFails`. Transactions that
wait for each other lose one: loaders that insert in different orders, one whose
DELETE is half done and one that inserts, a loader and the DELETE of the list, a
loader and an admin's UPDATE. `Deadlocked` finds the cycles in who holds and who awaits
which rows. A loader that is the victim (`DeadlockVictim`, `UpdateDeadlock`) ends
its process, which is started again; an admin's request that is the victim is
`DeleteFails`, or a request that does nothing.

`AllowlistRead` adds an agent that reads the row and then the entries by id, on a
pool, with everything else in between. Two observers follow a read: `owed` starts
with the entries there are and loses what an admin or a committing loader means to
remove, `known` starts with the same and gains what one of them means to put in.
Both go by what is meant, the file or the admin's change, not by what the tables
show in between.

### JwtSecret, AdminLogin

`JwtSecret` is `GetOrCreateJWTSecret`, a statement at a time (select, insert on
conflict do nothing, select again), in replicas that crash and start. A secret is
the number of its draw. The refinement mapping takes the row for the register
and the secret of a replica that serves for what a reader holds.

`AdminLogin` is one browser with several tabs and one cookie jar. A tab follows
login, provider, callback, exchange and answer; any serving replica may handle
any request. A state is fresh and belongs to a tab, so the state cookie is the
name of one. A code is good once; a reload presents it again. The provider and
the browser are external.

## 3. Runs

Passing runs:

| Run | Checks | Shows |
|---|---|---|
| `stream` | TypeOK, NoMissedWithdrawal, NoMissedBan, StreamInv, PurgeSparesPullers | agents and table agree but for raced and lost changes, with stray pulls and replaced agents; the strengthened invariant of the proofs; a purge takes an unseen tombstone only from an agent idle for the retention period |
| `stream_cleaner` | ExpiredLeaves | expired decisions that nobody renews are withdrawn, those born expired too, through errors and restarts of two cleaners |
| `stream_v3` | V3Follows, V3NoMissedWithdrawal, V3NoMissedBan | two decisions that may share a value, seen through answers that name values |
| `sync_trouble` | TypeOK, SyncsBounded, CacheFollows, RecordedSpacing, EventuallyCached | two replicas with enrollment, a SIGTERM, a failure and a dead lock session: one sync at a time and one more for each lock session that died, table and feed differ only by what is pending, in flight or on record, and what stays listed gets into the table |
| `ingest` | TypeOK, DuplicatesBounded, AnswerComplete, AllowlistRespected, BlockedIgnored | two requests against admins, with a failure |
| `machines` | TypeOK, KeyBudget, KeysAreTickets, BlockSticks, RegistrationKept | three requests of one machine id against the admin, and that they implement `KeyLedger` |
| `allowlists` | ReadTypeOK, LocksExclusive, ReadWhole, FileApplied, NoGap, EventuallyServing | two loaders against admins, the deletion of the list and a reader, with a failure and a redeployment: the rows in hand of two transactions are apart, an answer lacks no entry that nobody removed and has none that nobody put in, and only a file without it or an admin takes an entry away |
| `admin` | TypeOK, SessionsHonoured, SecretIsOnce, AllowedGetsIn | two replicas on an empty database that crash and restart, two tabs, an account that is allowed or not |
| `register` | CommandTypeOK, FileWorks, CommandInv, UsesPaidFor, ServerIsLifecycle, EventuallyWorking | two people behind one address share limiter and key against a failure, an interruption or an admin |

Runs that refute something a document, comment or message of the repository says:

| Run | Statement | What happens |
|---|---|---|
| `sync_enrolled_once` | enrollment is skipped once persisted (sync.go:95) | the column does not exist |
| `sync_sigterm` | SIGTERM leaves nothing partial (sync.go:212) | the pool is closed under the detached writes |
| `admin_rejected` | a failed exchange is redirected so that the user can obtain a fresh code (handlers.go:100) | an account that is not allowed fails the exchange with every code, and the browser goes round between callback, login and provider for ever, without seeing an error; docs/api.md:54 promises a 401 |

Also seen while modelling, without a run of their own:

* docs/api.md:487 says that a deleted decision appears in the next pull. If the
  delete commits while a pull writes its cursor, with a stamp from before, no
  delta ever names it (the elements of `lost`; without that exemption
  `NoMissedWithdrawal` does not hold).
* decisions.go:54 comments "No cursor yet, treat as startup" and docs/api.md:249
  says that `false` returns only changes since the last pull. Any error of the cursor
  SELECT is taken that way: the agent gets a full list without deletions, not marked
  as one, the cursor moves past the withdrawals it did not know of, and it keeps
  those bans until it starts again or the decision changes once more
  (`PullBeginUnread`; such decisions are in `lost`).
* signal.go:138 and docs/api.md:198 speak of deduplication. Two requests that
  look before either inserts both insert; `DuplicatesBounded` says how many.
* README.md:155 says that managed lists cannot be deleted. The flag can be set
  between the check and the deletion, which goes by id alone.
* README.md:19 promises an admin password that is logged on first start when
  none is set. It is made anew by every start of every replica
  (serve.go:97-107), and each knows only its own.
* sync.go:28 calls `minSyncInterval` the minimum time between upstream API calls;
  the approval polls are stream calls every 30 seconds, and the first sync
  follows the last of them at once.
* docs/api.md:412 says that blocked machines can still authenticate; both login
  handlers answer them 403.
* docs/api.md:138 says that enrollment sets the status; `EnrollMachine` does not
  look at the number of rows, so that a machine deleted meanwhile is told that it
  is enrolled (`EnrollMachine` in `MachineLifecycle` has the branch).
* allowlists.go:101 says that `SyncManagedEntries` replaces all entries; two
  replicas that load different files at once leave the union, because the second
  DELETE does not see what the first inserts. `FileApplied` states the half that
  holds.
* allowlists.go:135 tells an admin to remove a managed list from the file; nothing
  resets `managed`, so that it can never be deleted.
* docs/api.md:75 documents `POST /v2/watchers`, which router.go:180-181 leaves out
  in favour of v3.
* Two tabs that sign in at once overwrite each other's state cookie and can send
  each other back to the login for ever: `AllowedGetsIn` is about one tab.
* Logging out drops the cookie; the token in it stays good until it expires.
* The limiter's key is the address up to the last colon. What `RealIP`
  takes from a proxy's header has no port, so that of an IPv6 address the last
  group is cut off and neighbours share a window.
* Someone who reruns the register command without a pause can be kept from the
  login for as long as that goes on: a registration takes one of the ten places
  and the 429 comes at the login. Every such run leaves a machine behind.
  `EventuallyWorking` is about people who wait.
* By the v3 answer, the end of one of two decisions on a value lifts the ban at
  the agent while the other is in force (`struck`).

### Bounds

* `stream`: one agent, one writer, one cleaner, one decision of the feed (which,
  unlike a local one, can be renewed and revived), lifetimes of 0 and 1, a clock
  of 4, one fault. Every property is about one agent and one decision, and
  statements of one session are enough for every race with a pull; the clock is
  long enough for a decision to be made, expire, be withdrawn, age past the
  retention of 1 and be purged with a pull between any two of these. The proofs
  remove the bounds. `stream_cleaner` has two cleaners, a
  local decision and one of the feed, no agent, and a clock of 2 with a retention
  of 0: enough for a decision to expire, be swept, revived, renewed and purged, as
  liveness depends on what happens after the last tick. `stream_v3`
  has two decisions, local and upstream, as it is about two that share a value,
  two values, and no cleaner.
* `sync*`: two replicas, as a third adds no new kind of overlap under one lock;
  one decision, as neither the code nor a property relates two of them; minimum
  interval and startup age of 2 or 3 ticks, so that all branches of the age tests
  are met.
* `ingest`: two handlers (the race needs two), a machine, two valid values and
  one that is not, batches of up to two signals, one longer than `maxSignalBatch`
  scaled to 2, one failure.
* `machines`: one id, one key of limit 1 or 2, two passwords, three requests, so
  that a limit of 2 can be exceeded.
* `register`: two people, three ids (one for a machine left behind), a key of
  three uses, two handlers (one may serve a run that is over), a limit of 4 in a
  window of 2 ticks, so that two runs fill it, one trouble of any kind. The code's
  limit is 10: at 4 a refusal comes as soon as two people have one run each.
* `allowlists`: two loaders, two values, files in both orders (for deadlocks)
  and one shorter (for stale entries), one failure, two edits, one redeployment,
  one reader.
* `admin*`: two replicas, two crashes or failed statements, two tabs, two accounts
  of which one is allowed, one lost answer, provider error or expired cookie.

Symmetry is used for request handlers and for the values of `stream_v3`, in runs
without liveness. Deadlock checking is off where the clock or the budgets of
edits end the run.

### Fairness

* `DecisionStream`: a statement that was issued commits (or fails), a cleaner's
  ticker goes on, a handler that runs runs on. Agents and writers owe nothing.
* `UpstreamSync`: time passes; each goroutine and process goes on; of the
  replicas that find the lock free some one takes it. This is weak fairness of
  the disjunction: each replica has a ticker, but nothing guarantees that a
  particular one gets the lock. The orchestrator restarts what has exited, and
  faults, stops and severed locks are finite in number.
* `Allowlists`: loaders go on and are restarted, the deadlock detector runs, and
  the DELETE of a list goes on when what it waits for is free. `EventuallyServing` further
  assumes `WaiterFirst` from some time on: a statement that waits for a row
  proceeds before the process that has just released it is up again. Without it
  two loaders can be the victim in turns for ever; it is an assumption about
  durations, and stands in the property for that reason.
* `AdminLogin`: a replica that is down is started and comes up; a flow that nobody
  leaves goes on (the browser follows redirects, handlers answer, the user reloads
  what did not arrive). Nobody owes a login or a logout.
* `RegisterCommand`: time passes, runs and handlers go on, and people without
  working credentials run the command again. That is what the command asks of
  them, which does not retry by itself; admins and other clients owe nothing.

## 4. Proofs

Every theorem holds for all values of the constants that satisfy the modules'
named assumptions: sets of any size (finite where the code counts requests), all
bounds on faults, crashes, edits and time. The assumptions say that kinds of
names are disjoint, that `No...` values are none of the others, that bounds are
natural numbers and limits positive, and that a set is not empty where the model
needs a default; TLC evaluates them in every run.

`DecisionStreamProofs`: `TypeCorrect`, `StreamInvariant`, `WithdrawalsReachAgents`,
`BansReachAgents`, `RestingTableIsMirrored`, `PurgeSparesPullersHolds`. `NoMissedBan` and
`NoMissedWithdrawal` speak of an agent between pulls. They are not inductive,
because what an answer will do is decided by four statements that other commits
fall between. `StreamInv` adds three things: `StampsPast`, that no stamp and no
cursor lies in the future (so that a write stamped later than a cursor is seen by
the next delta); `NewListRight`, what the list of new decisions is known to
contain while the deleted list is still to be read, and that a startup pull is
answered in full; and `AnswerRight`, that the agent, once it has applied the
prepared answer (as a replacement only if it asked for one), misses nothing but what
is in `lost`, raced past the answer or left out of it. Each step then either leaves the rows alone, or
is a commit, which puts every row it hits at odds with some reader into the right
set (`MissedByTold`, `MissedByAnswer`), or moves a pull one statement further. What
users ask follows: once nothing in the table is newer than the agent's cursor, the
agent enforces what is in force and nothing that is withdrawn, but for `lost`
(`RestingTableIsMirrored`).

`V3StreamProofs`: `V3ImplementsStream` (a run of `V3Stream` is a run of
`DecisionStream`), with which `V3TypeCorrect`, `V3FollowsHolds`,
`V3WithdrawalsReach`, `V3BansReach` and `V3RestingTableIsMirrored` rest on the
theorems above. `V3Follows`,
the correspondence of values and decisions, is inductive with the types: an
answer changes both sides, and everything else neither.

`UpstreamSyncProofs`: `SyncTypeCorrect`, `SyncsAreBounded` (SyncsBounded),
`SyncsAreSerial`, `TableFollowsFeed` (CacheFollows), `ListedIsCopied`,
`SyncsAreSpaced` (RecordedSpacing). `SyncsBounded` is a count: a replica that syncs
and does not hold the lock is `Adrift`, only a session that dies sets one adrift,
and so there are never more of them than dead sessions; while none has died, syncs
are serial, which `SyncsAreSerial` states. `SyncInv`
adds to the types and `CacheFollows`: only a replica in `apply` has writes in hand
(`Quiet`), and, while no lock session has died, `Governed`: a sync has the lock,
the interval it has read has passed, and each write in hand is what upstream says
or is already pending or missed again. The last is what makes `CacheFollows`
inductive: an upsert of a decision that upstream has withdrawn meanwhile is
harmless, as the withdrawal is pending. `CacheFollows` allows for what is on record
as missed; `ListedIsCopied` says when nothing is: as long as no call or statement
fails, nobody is stopped, no approval is polled for (the poll is a stream call whose
decisions are thrown away) and no lock session dies, every listed decision is in
the table, pending, or in the hands of a replica. What such a run can still miss is
a withdrawal that a full snapshot does not repeat, so that the record contains
nothing listed but what is pending again (`LossInv`).

`SignalIngestProofs`: `IngestTypeCorrect`, `AnswersAreComplete`,
`AllowlistIsRespected`, `BlockedIsIgnored`, `DuplicatesAreBounded`. `IngestInv`
says what a handler knows at each statement: a value it has looked up is not on
the allowlist unless its owner is in `exempted`, the machine it has checked is
known unless it is in `revoked`, and without faults what is owed is decided or
still in the batch. `DuplicatesBounded` is a count: an insert moves a handler
from `Creating` to a row, and one enters `Creating` only if no row of the value
was active, or by a failed look, which adds one to `faults`.

`MachineLifecycleProofs`: `TypeCorrect`, `LifecycleInvariant`, `KeyBudgetHolds`,
`KeysImplementLedger` (KeysAreTickets), `BlockSticksHolds`, `RegistrationKeptHolds`. `KeyBudget` compares enrollments with
the limit of a key and is not inductive, as nothing in it says that a request
about to write its enrollment has paid. `LifecycleInv` puts the stored number of
uses between the two (`UsesCovered`): `UseKey` adds one to the uses and one to
the requests under way, `EnrollMachine` moves one from under way to done, every
other step can only take a request out; that is where the cardinalities of finite
sets come in. Its other half, `BlocksNoticed`, says that a request past its check
whose machine is blocked was there when the block was written. `LifecycleInv` is no
property of a run of its own: the runs check what it is for. For
`KeysImplementLedger` each action is one of the ledger or a stutter: `UseKey` is
`Take`, `EnrollMachine` is `Spend` or, without its machine, `Lose`, as is an
`Abandon` in between; the set of requests under way changes by one element, which
is where `Pending` changes by one.

`RegisterCommandProofs`: `CommandImplementsLifecycle` (every step of command,
limiter or clock is a step of `MachineLifecycle` or leaves it alone), from which
`CommandKeepsBudget` and `CommandKeepsTickets` follow; `CommandTypeCorrect`;
`CommandInvariant`, and from it `CredentialsWork` (FileWorks), `UsesArePaidFor`
(UsesPaidFor) and `LimiterKeepsOrder`. `CommandInv` is the induction. The handler
a run waits for serves that run's machine (`RequestsMatch`), two runs have
different machines (`RunsApart`), and what a run has achieved is in the database
unless an admin undid it (`RunsAdvance`). `UsesAccounted` strengthens the count of
`UsesPaidFor`: a use may still be made by a request whose run is over, so each
such request (`Orphans`) and each run that can no longer succeed (`Spoilt`) is
charged when the mishap happens, before any use. Each step then moves one element
between finite sets; people are assumed finite in number for that reason.
`LimiterInv` says that the limiter's times are in order and inside the window,
so that cutting off the front, as `Age` does, keeps the entries that the loop of
the code keeps (lemma `AgePrunes`).

`AllowlistsProofs`: `AllowlistTypeCorrect`, `LocksAreExclusive`, `FileIsApplied`,
`SameFileIsMirrored`,
`ReloadLeavesNoGap`, `ReadImplementsAllowlists`, `ReadTypeCorrect`,
`ReadsAreWhole`. The invariant `Locks` has two parts besides the types. `Types`
adds that a loader past its upsert has a file and an id (`Named`); that the id is
one the sequence has given out is part of the types of `list`.
`Order` is `LocksExclusive`, what the DELETE of a list has in hand (`Deletion`) and,
for each loader, `LoaderInv`: which rows it owns and which it may still wait for
(`Owns`, `Tied`), the order of its phases (`InOrder`), that what it removed or kept
is still there (`RowsThere`), and that the entries of its file are inserted, kept
or still to do (`Progress`). At the commit nothing is to do, which is
`FileApplied`: everything in the file is there, but perhaps more, and what it
removed and did not put back is not in its file, which is `NoGap`.
`SameFileIsMirrored` is the other half: if all replicas load the same content, and
neither an admin nor a redeployment interferes, then who serves finds exactly that
content in the list, whatever failures and deadlocks came before. `ReadInv` says that
the entries of the list that a reader has found contain what is owed and lie within what
is known: it needs that only commits change the entries, all rows of a file at
once (`CommitApplies`, `CommitOnly`), and that nobody can make a list
again under the id of one that is gone.

`AdminLoginProofs`: `SecretImplementsRegister` (SecretIsOnce, by the mapping of
`JwtSecret`: only the insert that finds no row is `Choose`, a select that leads
to serving is `Read`, the end of a process is `Forget`, everything else
stutters), `SecretStays` (what the register promises: nobody holds anything but
its value, and a value once written stays), `TypeCorrect`, `SignInSharesSecret` (the composition implements
`JwtSecret` and with it the register), `SessionsAreHonoured`. The inductive
invariants are `SecretShared` and `SessionInv`, that every session in the jar or
on its way is of an allowed account under the stored secret, which by
`SecretShared` is the one every serving replica verifies with.

Only model-checked: liveness (`ExpiredLeaves`, `EventuallyCached`,
`EventuallyServing`, `AllowedGetsIn`, `EventuallyWorking`), which is outside what
the prover handles. Every invariant and action property of a passing run is a
theorem.

## 5. Not modelled

* Cryptography (bcrypt, signatures, random draws): a comparison, or a fresh value.
  Expiry of tokens is left to `SessionExpires` and to failed checks.
* Configuration, environment, discovery of the provider, migrations: they are read
  once before anything is shared; a start that fails is a crash.
* Compatibility endpoints with fixed answers, list queries and statistics, the
  checks of single values against the allowlists: single reads without state.
* Labels, descriptions, comments, tags, scenarios, `last_seen_at`: stored and
  returned, decide nothing. The expiry of allowlist entries is a condition of the
  queries: an entry that expires is modelled as one that an admin deletes.
* Validation of addresses, ranges and scopes: table lookups and library parsers,
  here the set of values that pass.
* The upstream client's token and its restoration from the table: every call may
  fail, which is all its callers see.
* The number of keys the limiter's map holds: it only grows, which is plain from
  router.go:55 and no property of the code denies.
* Whether a ban lasts as long as the longest signal asks for: the dedup look
  drops a longer ban while a shorter one is active (signal.go:140), which the code
  intends.
* Routing, decompression, headers, shutdown timeouts and the web UI.
