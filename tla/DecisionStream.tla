--------------------------- MODULE DecisionStream ---------------------------
(***************************************************************************)
(* The decision table, the statements that change it and the stream by     *)
(* which agents follow it (internal/db/queries/decisions.go, the cleaner   *)
(* of cmd/serve/serve.go, the handler of internal/api/v2/decisions.go).    *)
(*                                                                         *)
(* The table is PostgreSQL under READ COMMITTED, every statement in a      *)
(* transaction of its own.  A write is two steps: when it is issued it     *)
(* takes NOW() and a snapshot of the rows its WHERE clause matches; when   *)
(* it commits, the clause is evaluated again on the rows as they are and   *)
(* the surviving ones get the stamp taken at the start.  A select is one   *)
(* step.  A pull is four statements on a pool (cursor, new, deleted,       *)
(* cursor), with nothing that holds them together.                         *)
(*                                                                         *)
(* A write that fails changes nothing, so it is a write never issued.      *)
(* A machine waits for the answer of a pull before it starts another; who   *)
(* else pulls with its credentials is StrayPull.                           *)
(***************************************************************************)
EXTENDS Integers

CONSTANTS
  Machines,      \* agents that pull
  LocalIds,      \* uuids of decisions made here (signals, admin)
  UpstreamIds,   \* uuids of decisions synced from the upstream API
  Writers,       \* database sessions of the request handlers and the syncer
  Cleaners,      \* one cleaner goroutine per replica
  Durations,     \* lifetimes a new decision may have, none of them checked
  Retention,     \* age at which a soft-deleted row is purged (90 days)
  MaxTime,       \* bound on the clock
  MaxFaults      \* bound on failed statements, lost answers, stray pulls, replaced agents

Ids == LocalIds \cup UpstreamIds
Sessions == Writers \cup Cleaners

ASSUME IdsAssumption == LocalIds \cap UpstreamIds = {}
ASSUME SessionsAssumption == Writers \cap Cleaners = {}
ASSUME TimeAssumption ==
  /\ Durations \subseteq Int
  /\ Retention \in Nat
  /\ MaxTime \in Nat
  /\ MaxFaults \in Nat

VARIABLES
  now,      \* the database's clock
  rows,     \* the decisions table, by uuid
  minted,   \* uuids gen_random_uuid() has given out
  stmt,     \* the write each session has in progress
  sweep,    \* what each cleaner does next, "soft" or "purge"
  cursor,   \* machine_decision_cursors.last_pulled_at, 0 when there is no row
  pull,     \* the pull each machine has in progress
  told,     \* observer: the decisions in force by the answers a machine got
  lost,     \* observer: decisions whose last change no later delta reports
  faults    \* how many faults have occurred

serverVars == <<rows, minted, stmt, sweep>>
observerVars == <<told, lost>>
vars == <<now, rows, minted, stmt, sweep, cursor, pull, told, lost, faults>>

Row == [state : {"absent", "active", "deleted"},
        expires_at : Int, updated_at : Nat, deleted_at : Nat]

NoRow == [state |-> "absent", expires_at |-> 0, updated_at |-> 0, deleted_at |-> 0]

Activating == {"create", "upsert"}
Withdrawing == {"delete", "mark", "soft"}

Statement == [op : {"none", "purge"} \cup Activating \cup Withdrawing,
              targets : SUBSET Ids, stamp : Nat, expires : Int]

NoStatement == [op |-> "none", targets |-> {}, stamp |-> 0, expires |-> 0]

Pull == [pc : {"idle", "new", "deleted", "cursor", "reply"},
         startup : BOOLEAN,   \* what the agent has asked for
         full : BOOLEAN,      \* what the server does: list all, and no deletions
         since : Nat,         \* the cursor it has read
         new : SUBSET Ids, deleted : SUBSET Ids, raced : SUBSET Ids]

NoPull == [pc |-> "idle", startup |-> FALSE, full |-> FALSE, since |-> 0,
           new |-> {}, deleted |-> {}, raced |-> {}]

Active(r) == r.state = "active"
InForce(d) == Active(rows[d]) /\ rows[d].expires_at > now

-----------------------------------------------------------------------------
(* Writes                                                                  *)

\* Seeded bug: the age of a tombstone is taken from its expiry.
WherePurgeByExpiry(op, r, t) ==
  \/ op \in Activating
  \/ op \in {"delete", "mark"} /\ r.state # "absent"
  \/ op = "soft" /\ Active(r) /\ r.expires_at <= t
  \/ op = "purge" /\ r.state = "deleted" /\ r.expires_at + Retention < t

\* The WHERE clause of a write issued at time t, on one row.
Where(op, r, t) ==
  \/ op \in Activating
  \/ op \in {"delete", "mark"} /\ r.state # "absent"
  \/ op = "soft" /\ Active(r) /\ r.expires_at <= t
  \/ op = "purge" /\ r.state = "deleted" /\ r.deleted_at + Retention < t

\* Seeded bug: the stamp of a withdrawal is shifted to a zone two hours behind.
WrittenShifted(q, r) ==
  IF q.op \in Activating
  THEN [state |-> "active", expires_at |-> q.expires,
        updated_at |-> q.stamp, deleted_at |-> 0]
  ELSE IF q.op \in Withdrawing
  THEN [r EXCEPT !.state = "deleted", !.updated_at = q.stamp, !.deleted_at = q.stamp - 2]
  ELSE NoRow

\* Seeded bug: a revived row keeps its old updated_at.
WrittenQuietRevival(q, r) ==
  IF q.op \in Activating
  THEN [state |-> "active", expires_at |-> q.expires, deleted_at |-> 0,
        updated_at |-> IF r.state = "absent" THEN q.stamp ELSE r.updated_at]
  ELSE IF q.op \in Withdrawing
  THEN [r EXCEPT !.state = "deleted", !.updated_at = q.stamp, !.deleted_at = q.stamp]
  ELSE NoRow

\* Seeded bug: an admin's delete forgets deleted_at.
WrittenUndatedDelete(q, r) ==
  IF q.op \in Activating
  THEN [state |-> "active", expires_at |-> q.expires,
        updated_at |-> q.stamp, deleted_at |-> 0]
  ELSE IF q.op = "delete"
  THEN [r EXCEPT !.state = "deleted", !.updated_at = q.stamp]
  ELSE IF q.op \in Withdrawing
  THEN [r EXCEPT !.state = "deleted", !.updated_at = q.stamp, !.deleted_at = q.stamp]
  ELSE NoRow

\* What the write q makes of a row it hits.
Written(q, r) ==
  IF q.op \in Activating
  THEN [state |-> "active", expires_at |-> q.expires,
        updated_at |-> q.stamp, deleted_at |-> 0]
  ELSE IF q.op \in Withdrawing
  THEN [r EXCEPT !.state = "deleted", !.updated_at = q.stamp, !.deleted_at = q.stamp]
  ELSE NoRow

Issue(s, op, targets, expires) ==
  /\ stmt[s] = NoStatement
  /\ stmt' = [stmt EXCEPT ![s] = [op |-> op, targets |-> targets,
                                  stamp |-> now, expires |-> expires]]
  /\ UNCHANGED <<now, rows, cursor, pull, told, lost, faults>>

\* A decision of a signal or of the admin API; the uuid is the column default.
CreateDecision(w) ==
  \E d \in LocalIds \ minted, duration \in Durations :
    /\ minted' = minted \cup {d}
    /\ Issue(w, "create", {d}, now + duration)
    /\ UNCHANGED sweep

\* INSERT ... ON CONFLICT (uuid) DO UPDATE: renews and revives.
UpsertUpstreamDecision(w) ==
  \E d \in UpstreamIds, duration \in Durations :
    /\ Issue(w, "upsert", {d}, now + duration)
    /\ UNCHANGED <<minted, sweep>>

\* Matches a row already deleted too, and stamps it again.
DeleteDecision(w) ==
  \E d \in Ids :
    /\ Where("delete", rows[d], now)
    /\ Issue(w, "delete", {d}, 0)
    /\ UNCHANGED <<minted, sweep>>

\* Only rows whose origin is upstream-capi.
MarkUpstreamDecisionDeleted(w) ==
  \E d \in UpstreamIds :
    /\ Where("mark", rows[d], now)
    /\ Issue(w, "mark", {d}, 0)
    /\ UNCHANGED <<minted, sweep>>

\* The two halves of a cleaner tick, always in this order.
SoftDeleteExpiredDecisions(c) ==
  /\ sweep[c] = "soft"
  /\ Issue(c, "soft", {d \in Ids : Where("soft", rows[d], now)}, 0)
  /\ sweep' = [sweep EXCEPT ![c] = "purge"]
  /\ UNCHANGED minted

\* Seeded bug: the cleaner never returns to its first half.
HardDeleteAndStop(c) ==
  /\ sweep[c] = "purge"
  /\ Issue(c, "purge", {d \in Ids : Where("purge", rows[d], now)}, 0)
  /\ UNCHANGED <<minted, sweep>>

HardDeleteAgedDecisions(c) ==
  /\ sweep[c] = "purge"
  /\ Issue(c, "purge", {d \in Ids : Where("purge", rows[d], now)}, 0)
  /\ sweep' = [sweep EXCEPT ![c] = "soft"]
  /\ UNCHANGED minted

\* The half in progress fails; the error is logged and the loop goes on.
CleanerError(c) ==
  /\ faults < MaxFaults
  /\ stmt[c] # NoStatement
  /\ stmt' = [stmt EXCEPT ![c] = NoStatement]
  /\ faults' = faults + 1
  /\ UNCHANGED <<now, rows, minted, sweep, cursor, pull, told, lost>>

\* The process stops and starts again; its unfinished statement rolls back.
CleanerRestart(c) ==
  /\ faults < MaxFaults
  /\ stmt' = [stmt EXCEPT ![c] = NoStatement]
  /\ sweep' = [sweep EXCEPT ![c] = "soft"]
  /\ faults' = faults + 1
  /\ UNCHANGED <<now, rows, minted, cursor, pull, told, lost>>

-----------------------------------------------------------------------------
(* What a commit does to the observers                                     *)

\* The decisions in force once the answer in progress has been applied: who
\* starts takes it for all there is; else an agent drops the deleted ones, then
\* adds the new ones, also of a full list, as the answer does not say it is one.
After(m) == IF pull[m].startup THEN pull[m].new
            ELSE (told[m] \ pull[m].deleted) \cup pull[m].new

\* The losses that remain once it has been applied.
LostAfter(m) == (IF pull[m].startup THEN {}
                 ELSE lost[m] \ (pull[m].new \cup pull[m].deleted)) \cup pull[m].raced

\* No delta after m's cursor reports what the write q does to row d.
Unseen(m, q, d) == IF q.op = "purge" THEN rows[d].deleted_at > cursor[m]
                   ELSE q.stamp <= cursor[m]

\* The write q leaves row d otherwise than a reader that has the set S believes.
Contradicts(q, d, S) == IF q.op \in Activating THEN d \notin S ELSE d \in S

MissedByTold(m, q, hit) ==
  {d \in hit : pull[m].pc # "reply" /\ Unseen(m, q, d) /\ Contradicts(q, d, told[m])}

MissedByAnswer(m, q, hit) ==
  {d \in hit : \/ pull[m].pc = "deleted" /\ Contradicts(q, d, pull[m].new)
               \/ pull[m].pc = "cursor" /\ Contradicts(q, d, After(m))
               \/ /\ pull[m].pc = "reply"
                  /\ Unseen(m, q, d)
                  /\ Contradicts(q, d, After(m))}

Commit(s) ==
  LET q == stmt[s]
      hit == {d \in q.targets : Where(q.op, rows[d], q.stamp)}
  IN /\ q # NoStatement
     /\ rows' = [d \in Ids |-> IF d \in hit THEN Written(q, rows[d]) ELSE rows[d]]
     /\ stmt' = [stmt EXCEPT ![s] = NoStatement]
     /\ lost' = [m \in Machines |-> lost[m] \cup MissedByTold(m, q, hit)]
     /\ pull' = [m \in Machines |->
                   [pull[m] EXCEPT !.raced = @ \cup MissedByAnswer(m, q, hit)]]
     /\ UNCHANGED <<now, minted, sweep, cursor, told, faults>>

-----------------------------------------------------------------------------
(* GetDecisionStream, one action per statement                             *)

Begin(m, startup, full) ==
  /\ pull[m].pc = "idle"
  /\ pull' = [pull EXCEPT ![m] = [NoPull EXCEPT !.pc = "new", !.startup = startup,
                                    !.full = full, !.since = IF full THEN 0 ELSE cursor[m]]]
  /\ UNCHANGED <<now, serverVars, cursor, observerVars>>

\* The cursor is read; without one the server does as for a startup pull.
PullBegin(m, startup) ==
  /\ Begin(m, startup, startup \/ cursor[m] = 0)
  /\ UNCHANGED faults

\* The cursor cannot be read: any error counts as "no cursor yet".
PullBeginUnread(m) ==
  /\ faults < MaxFaults
  /\ Begin(m, FALSE, TRUE)
  /\ faults' = faults + 1

\* The withdrawals that a full list keeps from an agent that has not asked for
\* one: the cursor will have passed them.
LeftOut(m) == {d \in told[m] : pull[m].full /\ ~pull[m].startup /\ ~Active(rows[d])}

PullNew(m) ==
  /\ pull[m].pc = "new"
  /\ LET new == {d \in Ids : /\ InForce(d)
                             /\ pull[m].full \/ rows[d].updated_at > pull[m].since}
         pc == IF pull[m].full THEN "cursor" ELSE "deleted"
     IN pull' = [pull EXCEPT ![m] = [@ EXCEPT !.new = new, !.pc = pc,
                                              !.raced = pull[m].raced \cup LeftOut(m)]]
  /\ UNCHANGED <<now, serverVars, cursor, observerVars, faults>>

\* Seeded bug: the deleted list keeps the expiry test of the new list.
PullDeletedUnexpired(m) ==
  /\ pull[m].pc = "deleted"
  /\ LET deleted == {d \in Ids : /\ rows[d].state = "deleted"
                                 /\ rows[d].expires_at > now
                                 /\ rows[d].deleted_at > pull[m].since}
     IN pull' = [pull EXCEPT ![m] = [@ EXCEPT !.deleted = deleted, !.pc = "cursor"]]
  /\ UNCHANGED <<now, serverVars, cursor, observerVars, faults>>

PullDeleted(m) ==
  /\ pull[m].pc = "deleted"
  /\ LET deleted == {d \in Ids : /\ rows[d].state = "deleted"
                                 /\ rows[d].deleted_at > pull[m].since}
     IN pull' = [pull EXCEPT ![m] = [@ EXCEPT !.deleted = deleted, !.pc = "cursor"]]
  /\ UNCHANGED <<now, serverVars, cursor, observerVars, faults>>

\* The cursor gets the time of this statement, not that of the selects.
PullCursor(m) ==
  /\ pull[m].pc = "cursor"
  /\ cursor' = [cursor EXCEPT ![m] = now]
  /\ pull' = [pull EXCEPT ![m].pc = "reply"]
  /\ UNCHANGED <<now, serverVars, observerVars, faults>>

\* The answer reaches the agent.
PullReply(m) ==
  /\ pull[m].pc = "reply"
  /\ told' = [told EXCEPT ![m] = After(m)]
  /\ lost' = [lost EXCEPT ![m] = LostAfter(m)]
  /\ pull' = [pull EXCEPT ![m] = NoPull]
  /\ UNCHANGED <<now, serverVars, cursor, faults>>

\* A statement after the first fails, the agent goes away or the server stops:
\* the handler returns before the cursor is written.
PullAbort(m) ==
  /\ faults < MaxFaults
  /\ pull[m].pc \in {"new", "deleted", "cursor"}
  /\ pull' = [pull EXCEPT ![m] = NoPull]
  /\ faults' = faults + 1
  /\ UNCHANGED <<now, serverVars, cursor, observerVars>>

\* The cursor is written and the answer never arrives.
PullLost(m) ==
  /\ faults < MaxFaults
  /\ pull[m].pc = "reply"
  /\ lost' = [lost EXCEPT ![m] = IF pull[m].startup THEN Ids
                ELSE @ \cup pull[m].new \cup pull[m].deleted \cup pull[m].raced]
  /\ pull' = [pull EXCEPT ![m] = NoPull]
  /\ faults' = faults + 1
  /\ UNCHANGED <<now, serverVars, cursor, told>>

\* What a reader that has the set S would have to be told now.
Stale(S) == {d \in Ids : IF Active(rows[d]) THEN d \notin S ELSE d \in S}

\* Another pull with the credentials of m writes the cursor: a second agent
\* with a copy of them, or a request that m gave up while the server worked
\* on.  The changes up to now are in that answer alone.
StrayPull(m) ==
  /\ faults < MaxFaults
  /\ cursor' = [cursor EXCEPT ![m] = now]
  /\ lost' = [lost EXCEPT ![m] = @ \cup Stale(told[m])]
  /\ pull' = IF pull[m].pc = "reply"
             THEN [pull EXCEPT ![m].raced = @ \cup Stale(After(m))] ELSE pull
  /\ faults' = faults + 1
  /\ UNCHANGED <<now, serverVars, told>>

\* The machine id is deleted, registered again and used by an agent that knows
\* nothing: the row of the cursor has stayed.
AgentReplaced(m) ==
  /\ faults < MaxFaults
  /\ pull[m].pc = "idle"
  /\ told' = [told EXCEPT ![m] = {}]
  /\ lost' = [lost EXCEPT ![m] = Ids]
  /\ faults' = faults + 1
  /\ UNCHANGED <<now, serverVars, cursor, pull>>

-----------------------------------------------------------------------------

Tick ==
  /\ now < MaxTime
  /\ now' = now + 1
  /\ UNCHANGED <<serverVars, cursor, pull, observerVars, faults>>

\* The clock starts at 1, so that 0 is "no cursor" and "not deleted".
Init ==
  /\ now = 1
  /\ rows = [d \in Ids |-> NoRow]
  /\ minted = {}
  /\ stmt = [s \in Sessions |-> NoStatement]
  /\ sweep = [c \in Cleaners |-> "soft"]
  /\ cursor = [m \in Machines |-> 0]
  /\ pull = [m \in Machines |-> NoPull]
  /\ told = [m \in Machines |-> {}]
  /\ lost = [m \in Machines |-> {}]
  /\ faults = 0

Write(w) ==
  \/ CreateDecision(w)
  \/ UpsertUpstreamDecision(w)
  \/ DeleteDecision(w)
  \/ MarkUpstreamDecisionDeleted(w)

Sweep(c) ==
  \/ SoftDeleteExpiredDecisions(c)
  \/ HardDeleteAgedDecisions(c)

CleanerFault(c) ==
  \/ CleanerError(c)
  \/ CleanerRestart(c)

PullStep(m) ==
  \/ PullNew(m)
  \/ PullDeleted(m)
  \/ PullCursor(m)
  \/ PullReply(m)

PullFault(m) ==
  \/ PullBeginUnread(m)
  \/ PullAbort(m)
  \/ PullLost(m)
  \/ StrayPull(m)
  \/ AgentReplaced(m)

TableStep ==
  \/ \E w \in Writers : Write(w)
  \/ \E c \in Cleaners : Sweep(c) \/ CleanerFault(c)
  \/ \E s \in Sessions : Commit(s)

Next ==
  \/ Tick
  \/ TableStep
  \/ \E m \in Machines : \/ \E startup \in BOOLEAN : PullBegin(m, startup)
                         \/ PullStep(m)
                         \/ PullFault(m)

Spec == Init /\ [][Next]_vars

\* A statement in progress ends, a cleaner's ticker fires again, a handler
\* runs on.  Nothing makes an agent pull or a client write.
Fairness ==
  /\ \A s \in Sessions : WF_vars(Commit(s))
  /\ \A c \in Cleaners : WF_vars(Sweep(c))
  /\ \A m \in Machines : WF_vars(PullStep(m))

FairSpec == Spec /\ Fairness

-----------------------------------------------------------------------------
(* Properties                                                              *)

\* Type invariant.
TypeOK ==
  /\ now \in Nat
  /\ rows \in [Ids -> Row]
  /\ minted \in SUBSET LocalIds
  /\ stmt \in [Sessions -> Statement]
  /\ sweep \in [Cleaners -> {"soft", "purge"}]
  /\ cursor \in [Machines -> Nat]
  /\ pull \in [Machines -> Pull]
  /\ told \in [Machines -> SUBSET Ids]
  /\ lost \in [Machines -> SUBSET Ids]
  /\ faults \in Nat

\* A reader at time h that holds T and has lost L misses no withdrawal: what
\* it still enforces is active, or the next delta withdraws it, or it is in L.
WithdrawalsReach(T, L, h) ==
  \A d \in T : \/ Active(rows[d])
               \/ rows[d].state = "deleted" /\ rows[d].deleted_at > h
               \/ d \in L

\* ... and misses no ban: what is in force is held, or next, or in L.
BansReach(T, L, h) ==
  \A d \in Ids : InForce(d) => d \in T \/ rows[d].updated_at > h \/ d \in L

\* Whatever pulls, writes and sweeps overlap, a decision an agent still
\* enforces after it was withdrawn is announced by its next delta, except the
\* ones named in lost (GetDecisionStream, the deleted list).
NoMissedWithdrawal ==
  \A m \in Machines :
    pull[m].pc # "reply" => WithdrawalsReach(told[m], lost[m], cursor[m])

\* Whatever pulls, writes and sweeps overlap, a decision in force that an
\* agent has not been given is in its next delta, except the ones named in
\* lost (GetDecisionStream, the new list).
NoMissedBan ==
  \A m \in Machines :
    pull[m].pc # "reply" => BansReach(told[m], lost[m], cursor[m])

\* What the selects of a pull have already got right.  Who asks for all gets
\* all; between the two selects of a delta, the new list is right but for the
\* decisions in raced.
NewListRight(m) ==
  /\ pull[m].startup => pull[m].full
  /\ pull[m].pc = "deleted" =>
       /\ ~pull[m].full
       /\ \A d \in pull[m].new : Active(rows[d]) \/ d \in pull[m].raced
       /\ \A d \in Ids : InForce(d) /\ rows[d].updated_at > pull[m].since
                          => d \in pull[m].new \cup pull[m].raced

\* The time after which a change is left for the pull that follows this one.
Horizon(m) == IF pull[m].pc = "cursor" THEN now ELSE cursor[m]

\* After the last select the whole answer is right but for the decisions in
\* LostAfter, before and after the cursor is written.
AnswerRight(m) ==
  pull[m].pc \in {"cursor", "reply"} =>
    /\ WithdrawalsReach(After(m), LostAfter(m), Horizon(m))
    /\ BansReach(After(m), LostAfter(m), Horizon(m))

\* No stamp lies in the future.
StampsPast ==
  /\ \A s \in Sessions : stmt[s].stamp <= now
  /\ \A d \in Ids : rows[d].updated_at <= now /\ rows[d].deleted_at <= now
  /\ \A m \in Machines : pull[m].since <= cursor[m] /\ cursor[m] <= now

\* Inductive invariant: an answer in preparation is already right about every
\* decision, but for those recorded as raced, and would stay right if it were
\* delivered, dropped or lost at this point (GetDecisionStream, statement by
\* statement).
StreamInv ==
  /\ StampsPast
  /\ \A m \in Machines : NewListRight(m) /\ AnswerRight(m)
  /\ NoMissedWithdrawal
  /\ NoMissedBan

\* Purging takes the tombstone a machine has yet to pull only from a machine
\* that has not pulled for the retention period (HardDeleteAgedDecisions).
PurgeSparesPullers ==
  [][\A m \in Machines, d \in Ids :
       rows[d].state = "deleted" /\ rows'[d].state = "absent"
         => \/ rows[d].deleted_at <= cursor[m]
            \/ cursor[m] + Retention < now]_vars

\* An expired decision does not stay active: it is withdrawn or renewed
\* (the cleaner of serve.go).
ExpiredLeaves ==
  \A d \in Ids : (Active(rows[d]) /\ rows[d].expires_at <= now)
                   ~> ~(Active(rows[d]) /\ rows[d].expires_at <= now)

=============================================================================
