---------------------------- MODULE UpstreamSync ----------------------------
(***************************************************************************)
(* The syncer that copies the upstream feed into the decision table        *)
(* (internal/upstream/sync.go and client.go), one per replica, from start  *)
(* to SIGTERM (cmd/serve/serve.go).  The replicas share a machine account  *)
(* upstream, an advisory lock and the row of upstream_sync_state.          *)
(*                                                                         *)
(* A timestamp of that row is represented by its age, capped at the value  *)
(* from which the code treats all ages (and NULL) alike.  The ticker may   *)
(* fire at any time.  The token is left out: a login that fails is a call  *)
(* that fails.                                                             *)
(***************************************************************************)
EXTENDS Integers, FiniteSets

CONSTANTS
  Replicas,
  Feed,          \* decisions of the upstream feed
  NoReplica,     \* nobody holds the advisory lock
  Enrolling,     \* an enrollment key is configured
  MinSync,       \* minSyncInterval
  StartupTTL,    \* startupCursorTTL
  MaxFaults,     \* bound on crashes, failed calls and failed statements
  MaxStops,      \* bound on SIGTERMs
  MaxSevered     \* bound on lock sessions that die under their holder

ASSUME ReplicasAssumption == NoReplica \notin Replicas
ASSUME BoundsAssumption ==
  /\ Enrolling \in BOOLEAN
  /\ MinSync \in Nat \ {0}
  /\ StartupTTL \in Nat
  /\ MaxFaults \in Nat
  /\ MaxStops \in Nat
  /\ MaxSevered \in Nat

VARIABLES
  feed,        \* upstream: "absent", "listed" or "withdrawn"
  pending,     \* upstream: changes since the last stream call of the account
  approved,    \* upstream: the console admin has approved the machine
  cache,       \* decisions table: the upstream decisions that are active
  syncAge,     \* age of last_sync_at, capped at MinSync
  startupAge,  \* age of last_startup_at, capped at StartupTTL + 1
  enrolledAt,  \* whether enrolled_at is stored
  holder,      \* who holds advisory lock 12345678
  rep,         \* the syncer goroutine of each replica
  life,        \* "up", "cancelled" (SIGTERM), "closed" (pool closed), "down"
  missed,      \* observer: changes taken from upstream that no sync will write
  seen,        \* observer: an approval has been seen and stored
  faults, stops, severed

upstreamVars == <<feed, pending, approved>>
stateVars == <<syncAge, startupAge, enrolledAt>>
observerVars == <<missed, seen>>
budgetVars == <<faults, stops, severed>>
vars == <<feed, pending, approved, cache, syncAge, startupAge, enrolledAt,
          holder, rep, life, missed, seen, faults, stops, severed>>

Syncer == [pc : {"setup", "enroll", "waiting", "idle", "locked", "fetch", "apply"},
           startup : BOOLEAN,    \* this sync asks for a full snapshot
           blind : BOOLEAN,      \* last_sync_at could not be read
           new : SUBSET Feed,    \* upserts still to do
           deleted : SUBSET Feed]

Fresh == [pc |-> "setup", startup |-> FALSE, blind |-> FALSE,
          new |-> {}, deleted |-> {}]
Resting == [Fresh EXCEPT !.pc = "idle"]

Listed == {d \in Feed : feed[d] = "listed"}
Withdrawn == {d \in Feed : feed[d] = "withdrawn"}

Never == StartupTTL + 1
Older(age, cap) == IF age < cap THEN age + 1 ELSE cap

\* No migration creates the column that setup reads and writes.
HasEnrolledAt == FALSE

\* The lock goes with the session that took it.
Unlock(r) == holder' = IF holder = r THEN NoReplica ELSE holder

Fault == faults < MaxFaults /\ faults' = faults + 1 /\ UNCHANGED <<stops, severed>>

-----------------------------------------------------------------------------
(* The upstream API, as the client uses it                                 *)

Publish(d) ==
  /\ feed[d] # "listed"
  /\ feed' = [feed EXCEPT ![d] = "listed"]
  /\ pending' = pending \cup {d}
  /\ UNCHANGED <<approved, cache, stateVars, holder, rep, life, observerVars, budgetVars>>

Withdraw(d) ==
  /\ feed[d] = "listed"
  /\ feed' = [feed EXCEPT ![d] = "withdrawn"]
  /\ pending' = pending \cup {d}
  /\ UNCHANGED <<approved, cache, stateVars, holder, rep, life, observerVars, budgetVars>>

Approve ==
  /\ ~approved
  /\ approved' = TRUE
  /\ UNCHANGED <<feed, pending, cache, stateVars, holder, rep, life, observerVars, budgetVars>>

\* A stream call that upstream answers: a startup call returns all that is
\* listed (and whatever withdrawals it cares to add), a delta what is pending.
Answer(startup, new, deleted) ==
  /\ approved
  /\ pending' = {}
  /\ UNCHANGED <<feed, approved>>
  /\ IF startup THEN new = Listed /\ deleted \subseteq Withdrawn
                ELSE new = pending \cap Listed /\ deleted = pending \cap Withdrawn

-----------------------------------------------------------------------------
(* setup: register, log in, enroll, wait for the approval                  *)

Setup(r) ==
  /\ life[r] = "up" /\ rep[r].pc = "setup"
  /\ rep' = [rep EXCEPT ![r].pc = IF Enrolling THEN "enroll" ELSE "idle"]
  /\ UNCHANGED <<upstreamVars, cache, stateVars, holder, life, observerVars, budgetVars>>

\* A failed registration, login or enrollment ends setup, not the syncer.
SetupFails(r) ==
  /\ life[r] = "up" /\ rep[r].pc \in {"setup", "enroll"}
  /\ rep' = [rep EXCEPT ![r].pc = "idle"]
  /\ Fault
  /\ UNCHANGED <<upstreamVars, cache, stateVars, holder, life, observerVars>>

AlreadyEnrolled == HasEnrolledAt /\ enrolledAt

Enroll(r) ==
  /\ life[r] = "up" /\ rep[r].pc = "enroll"
  /\ rep' = [rep EXCEPT ![r].pc = IF AlreadyEnrolled THEN "idle" ELSE "waiting"]
  /\ UNCHANGED <<upstreamVars, cache, stateVars, holder, life, observerVars, budgetVars>>

\* The poll that succeeds: its decisions are thrown away.  One that is refused
\* changes nothing and is repeated after 30 seconds.
PollApproved(r) ==
  /\ life[r] = "up" /\ rep[r].pc = "waiting"
  /\ \E new, deleted \in SUBSET Feed : Answer(FALSE, new, deleted)
  /\ missed' = missed \cup pending
  /\ enrolledAt' = HasEnrolledAt
  /\ seen' = TRUE
  /\ rep' = [rep EXCEPT ![r].pc = "idle"]
  /\ UNCHANGED <<cache, syncAge, startupAge, holder, life, budgetVars>>

-----------------------------------------------------------------------------
(* sync                                                                    *)

\* Seeded bug: the result of pg_try_advisory_lock is not looked at.
TryLockIgnored(r) ==
  /\ life[r] = "up" /\ rep[r].pc = "idle"
  /\ holder' = r
  /\ rep' = [rep EXCEPT ![r].pc = "locked"]
  /\ UNCHANGED <<upstreamVars, cache, stateVars, life, observerVars, budgetVars>>

\* Without the lock the sync is skipped until the ticker fires again.
TryLock(r) ==
  /\ life[r] = "up" /\ rep[r].pc = "idle"
  /\ holder = NoReplica
  /\ holder' = r
  /\ rep' = [rep EXCEPT ![r].pc = "locked"]
  /\ UNCHANGED <<upstreamVars, cache, stateVars, life, observerVars, budgetVars>>

\* Inside the minimum interval the sync ends here.
TooEarly(r) ==
  /\ life[r] = "up" /\ rep[r].pc = "locked"
  /\ syncAge < MinSync
  /\ rep' = [rep EXCEPT ![r] = Resting]
  /\ Unlock(r)
  /\ UNCHANGED <<upstreamVars, cache, stateVars, life, observerVars, budgetVars>>

\* Seeded bug: the interval is not enforced.
ReadStateAnyAge(r) ==
  /\ life[r] = "up" /\ rep[r].pc = "locked"
  /\ rep' = [rep EXCEPT ![r] = [Resting EXCEPT !.pc = "fetch",
                                               !.startup = startupAge > StartupTTL]]
  /\ UNCHANGED <<upstreamVars, cache, stateVars, holder, life, observerVars, budgetVars>>

\* Seeded bug: a full snapshot is never asked for.
ReadStateDelta(r) ==
  /\ life[r] = "up" /\ rep[r].pc = "locked"
  /\ syncAge >= MinSync
  /\ rep' = [rep EXCEPT ![r] = [Resting EXCEPT !.pc = "fetch"]]
  /\ UNCHANGED <<upstreamVars, cache, stateVars, holder, life, observerVars, budgetVars>>

ReadState(r) ==
  /\ life[r] = "up" /\ rep[r].pc = "locked"
  /\ syncAge >= MinSync
  /\ rep' = [rep EXCEPT ![r] = [Resting EXCEPT !.pc = "fetch",
                                               !.startup = startupAge > StartupTTL]]
  /\ UNCHANGED <<upstreamVars, cache, stateVars, holder, life, observerVars, budgetVars>>

\* The two reads ignore their errors, so that a value that cannot be read
\* counts as NULL; after SIGTERM the context of both is cancelled.
ReadStateFails(r) ==
  /\ rep[r].pc = "locked"
  /\ \E syncRead, startupRead \in BOOLEAN :
       /\ IF life[r] = "up"
          THEN Fault /\ ~(syncRead /\ startupRead)
          ELSE ~syncRead /\ ~startupRead /\ UNCHANGED budgetVars
       /\ syncRead => syncAge >= MinSync
       /\ rep' = [rep EXCEPT ![r] =
            [Resting EXCEPT !.pc = "fetch", !.blind = ~syncRead,
                            !.startup = ~startupRead \/ startupAge > StartupTTL]]
  /\ UNCHANGED <<upstreamVars, cache, stateVars, holder, life, observerVars>>

\* A change that a startup answer skips over is gone from the deltas too.
Fetch(r) ==
  /\ rep[r].pc = "fetch"
  /\ \E new, deleted \in SUBSET Feed :
       /\ Answer(rep[r].startup, new, deleted)
       /\ missed' = (missed \cup pending) \ (new \cup deleted)
       /\ rep' = [rep EXCEPT ![r].pc = "apply", ![r].new = new, ![r].deleted = deleted]
  /\ UNCHANGED <<cache, stateVars, holder, life, seen, budgetVars>>

\* Not approved, or refused for another reason.
FetchRefused(r) ==
  /\ rep[r].pc = "fetch"
  /\ IF approved THEN Fault ELSE UNCHANGED budgetVars
  /\ rep' = [rep EXCEPT ![r] = Resting]
  /\ Unlock(r)
  /\ UNCHANGED <<upstreamVars, cache, stateVars, life, observerVars>>

\* Upstream answers and the answer does not arrive whole.
FetchLost(r) ==
  /\ rep[r].pc = "fetch"
  /\ \E new, deleted \in SUBSET Feed : Answer(rep[r].startup, new, deleted)
  /\ missed' = missed \cup pending
  /\ Fault
  /\ rep' = [rep EXCEPT ![r] = Resting]
  /\ Unlock(r)
  /\ UNCHANGED <<cache, stateVars, life, seen>>

\* The writes outlive SIGTERM's cancelled context, not the closed pool.
PoolOpen(r) == life[r] # "closed"

\* Seeded bug: after SIGTERM the loop skips the writes instead of doing them.
UpsertCancelled(r, d) ==
  /\ rep[r].pc = "apply" /\ d \in rep[r].new
  /\ rep' = [rep EXCEPT ![r].new = @ \ {d}]
  /\ cache' = IF life[r] = "up" THEN cache \cup {d} ELSE cache
  /\ UNCHANGED <<upstreamVars, stateVars, holder, life, observerVars, budgetVars>>

Upsert(r, d) ==
  /\ rep[r].pc = "apply" /\ d \in rep[r].new
  /\ rep' = [rep EXCEPT ![r].new = @ \ {d}]
  /\ \/ /\ PoolOpen(r)
        /\ cache' = cache \cup {d}
        /\ UNCHANGED <<missed, budgetVars>>
     \/ /\ missed' = missed \cup {d}
        /\ IF PoolOpen(r) THEN Fault ELSE UNCHANGED budgetVars
        /\ UNCHANGED cache
  /\ UNCHANGED <<upstreamVars, stateVars, holder, life, seen>>

\* Soft deletes come after all the upserts.
MarkDeleted(r, d) ==
  /\ rep[r].pc = "apply" /\ rep[r].new = {} /\ d \in rep[r].deleted
  /\ rep' = [rep EXCEPT ![r].deleted = @ \ {d}]
  /\ \/ /\ PoolOpen(r)
        /\ cache' = cache \ {d}
        /\ UNCHANGED <<missed, budgetVars>>
     \/ /\ missed' = missed \cup {d}
        /\ IF PoolOpen(r) THEN Fault ELSE UNCHANGED budgetVars
        /\ UNCHANGED cache
  /\ UNCHANGED <<upstreamVars, stateVars, holder, life, seen>>

\* Seeded bug: the age is counted from before the sync was recorded.
PersistNegative(r) ==
  /\ rep[r].pc = "apply" /\ rep[r].new = {} /\ rep[r].deleted = {}
  /\ syncAge' = -1
  /\ startupAge' = IF rep[r].startup THEN 0 ELSE startupAge
  /\ rep' = [rep EXCEPT ![r] = Resting]
  /\ Unlock(r)
  /\ UNCHANGED <<upstreamVars, cache, enrolledAt, life, observerVars, budgetVars>>

\* The sync is recorded whether or not its writes went through; its own
\* failure is ignored.  The lock is released and the connection returned.
Persist(r) ==
  /\ rep[r].pc = "apply" /\ rep[r].new = {} /\ rep[r].deleted = {}
  /\ \/ /\ PoolOpen(r)
        /\ syncAge' = 0
        /\ startupAge' = IF rep[r].startup THEN 0 ELSE startupAge
        /\ UNCHANGED budgetVars
     \/ /\ IF PoolOpen(r) THEN Fault ELSE UNCHANGED budgetVars
        /\ UNCHANGED <<syncAge, startupAge>>
  /\ rep' = [rep EXCEPT ![r] = Resting]
  /\ Unlock(r)
  /\ UNCHANGED <<upstreamVars, cache, enrolledAt, life, observerVars>>

-----------------------------------------------------------------------------
(* The process                                                             *)

\* SIGTERM: the application context is cancelled.
Stop(r) ==
  /\ stops < MaxStops
  /\ life[r] = "up"
  /\ life' = [life EXCEPT ![r] = "cancelled"]
  /\ stops' = stops + 1
  /\ UNCHANGED <<upstreamVars, cache, stateVars, holder, rep, observerVars, faults, severed>>

\* srv.Shutdown has returned; pool.Close refuses every new acquire.
ClosePool(r) ==
  /\ life[r] = "cancelled"
  /\ life' = [life EXCEPT ![r] = "closed"]
  /\ UNCHANGED <<upstreamVars, cache, stateVars, holder, rep, observerVars, budgetVars>>

\* pool.Close waits for the connection that a sync has acquired.
Exit(r) ==
  /\ life[r] = "closed" /\ rep[r].pc \notin {"locked", "fetch", "apply"}
  /\ life' = [life EXCEPT ![r] = "down"]
  /\ rep' = [rep EXCEPT ![r] = Fresh]
  /\ UNCHANGED <<upstreamVars, cache, stateVars, holder, observerVars, budgetVars>>

Crash(r) ==
  /\ life[r] # "down"
  /\ life' = [life EXCEPT ![r] = "down"]
  /\ missed' = missed \cup rep[r].new \cup rep[r].deleted
  /\ rep' = [rep EXCEPT ![r] = Fresh]
  /\ Unlock(r)
  /\ Fault
  /\ UNCHANGED <<upstreamVars, cache, stateVars, seen>>

Start(r) ==
  /\ life[r] = "down"
  /\ life' = [life EXCEPT ![r] = "up"]
  /\ UNCHANGED <<upstreamVars, cache, stateVars, holder, rep, observerVars, budgetVars>>

\* The session that holds the lock dies; the sync, on other connections of
\* the pool, does not notice.
SeverLock(r) ==
  /\ severed < MaxSevered
  /\ holder = r
  /\ holder' = NoReplica
  /\ severed' = severed + 1
  /\ UNCHANGED <<upstreamVars, cache, stateVars, rep, life, observerVars, faults, stops>>

Tick ==
  /\ syncAge' = Older(syncAge, MinSync)
  /\ startupAge' = Older(startupAge, Never)
  /\ UNCHANGED <<upstreamVars, cache, enrolledAt, holder, rep, life, observerVars, budgetVars>>

-----------------------------------------------------------------------------

Init ==
  /\ feed = [d \in Feed |-> "absent"]
  /\ pending = {}
  /\ approved = ~Enrolling
  /\ cache = {}
  /\ syncAge = MinSync
  /\ startupAge = Never
  /\ enrolledAt = FALSE
  /\ holder = NoReplica
  /\ rep = [r \in Replicas |-> Fresh]
  /\ life = [r \in Replicas |-> "up"]
  /\ missed = {}
  /\ seen = FALSE
  /\ faults = 0 /\ stops = 0 /\ severed = 0

\* What a syncer does of itself once it is scheduled.
SyncerStep(r) ==
  \/ Setup(r)
  \/ Enroll(r)
  \/ PollApproved(r)
  \/ TooEarly(r)
  \/ ReadState(r)
  \/ ReadStateFails(r)
  \/ Fetch(r)
  \/ FetchRefused(r)
  \/ \E d \in Feed : Upsert(r, d) \/ MarkDeleted(r, d)
  \/ Persist(r)

ProcessStep(r) ==
  \/ ClosePool(r)
  \/ Exit(r)
  \/ Start(r)

Next ==
  \/ Tick
  \/ \E d \in Feed : Publish(d) \/ Withdraw(d)
  \/ Approve
  \/ \E r \in Replicas : \/ TryLock(r)
                         \/ SyncerStep(r)
                         \/ SetupFails(r)
                         \/ FetchLost(r)
                         \/ ProcessStep(r)
                         \/ Stop(r)
                         \/ Crash(r)
                         \/ SeverLock(r)

Spec == Init /\ [][Next]_vars

\* Time passes, goroutines and processes run on, the orchestrator restarts
\* what has exited.  Tickers go on firing, so that a free lock is taken by
\* some replica.
Fairness ==
  /\ WF_vars(Tick)
  /\ WF_vars(\E r \in Replicas : TryLock(r))
  /\ \A r \in Replicas : WF_vars(SyncerStep(r)) /\ WF_vars(ProcessStep(r))

FairSpec == Spec /\ Fairness

-----------------------------------------------------------------------------
(* Properties                                                              *)

\* Type invariant.
TypeOK ==
  /\ feed \in [Feed -> {"absent", "listed", "withdrawn"}]
  /\ pending \subseteq Feed
  /\ approved \in BOOLEAN
  /\ cache \subseteq Feed
  /\ syncAge \in 0..MinSync
  /\ startupAge \in 0..Never
  /\ enrolledAt \in BOOLEAN
  /\ holder \in Replicas \cup {NoReplica}
  /\ rep \in [Replicas -> Syncer]
  /\ life \in [Replicas -> {"up", "cancelled", "closed", "down"}]
  /\ missed \subseteq Feed
  /\ seen \in BOOLEAN
  /\ faults \in 0..MaxFaults
  /\ stops \in 0..MaxStops
  /\ severed \in 0..MaxSevered

Syncing(r) == rep[r].pc \in {"locked", "fetch", "apply"}

\* One replica syncs at a time, and one more for each lock session that has
\* died under its holder: crashes, SIGTERMs, failures and restarts add none
\* (sync.go's advisory lock, released on every way out of sync).
SyncsBounded == Cardinality({r \in Replicas : Syncing(r)}) <= 1 + severed

InFlight(d) == \E r \in Replicas : d \in rep[r].new \cup rep[r].deleted

\* While the lock holds, the table agrees with the feed about every decision
\* but the ones upstream still has to report, a sync is still writing, or a
\* fault is on record for in missed (sync.go, fetch and apply).
CacheFollows ==
  severed = 0 =>
    \A d \in Feed : \/ d \in pending
                    \/ InFlight(d)
                    \/ d \in missed
                    \/ d \in cache <=> d \in Listed

\* Replicas and restarts notwithstanding, two recorded syncs are a minimum
\* interval apart, unless last_sync_at could not be read or a lock died.
RecordedSpacing ==
  [][\A r \in Replicas :
       rep[r].pc = "apply" /\ syncAge' = 0
         => syncAge >= MinSync \/ rep[r].blind \/ severed > 0 \/ rep'[r] = rep[r]]_vars

\* A decision that upstream goes on listing ends up in the table for good,
\* whatever deltas were lost (startupCursorTTL's periodic full snapshot).
EventuallyCached ==
  \A d \in Feed : <>[](approved /\ d \in Listed) => <>[](d \in cache)

\* sync.go:93-96, "enrollment is skipped once the enrolled_at timestamp is
\* persisted in the DB".
EnrolledOnce ==
  [][\A r \in Replicas : rep[r].pc = "enroll" /\ rep'[r].pc = "waiting" => ~seen]_vars

\* sync.go:212, a SIGTERM arriving mid-sync leaves no partial state: when no
\* statement fails of itself, every write a sync has in hand is done.
SigtermLeavesNothingPartial ==
  [][\A r \in Replicas :
       /\ rep[r].new \ rep'[r].new \subseteq cache'
       /\ (rep[r].deleted \ rep'[r].deleted) \cap cache' = {}]_vars

=============================================================================
