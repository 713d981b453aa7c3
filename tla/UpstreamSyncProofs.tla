------------------------- MODULE UpstreamSyncProofs -------------------------
(***************************************************************************)
(* Theorems of UpstreamSync, for any number of replicas, any feed, all     *)
(* intervals and every bound on faults, SIGTERMs and severed locks.        *)
(***************************************************************************)
EXTENDS UpstreamSync, FiniteSetTheorems, TLAPS

PCs == {"setup", "enroll", "waiting", "idle", "locked", "fetch", "apply"}

\* Only a sync that writes has writes in hand.
Quiet(r) == rep[r].pc # "apply" => rep[r].new = {} /\ rep[r].deleted = {}

\* While the lock holds: a sync has it, the interval it has read has passed,
\* and what it still has to write is what upstream says or has already
\* changed again.
Governed(r) ==
  /\ Syncing(r) => holder = r
  /\ rep[r].pc \in {"fetch", "apply"} /\ ~rep[r].blind => syncAge >= MinSync
  /\ rep[r].new \subseteq pending \cup missed \cup Listed
  /\ rep[r].deleted \subseteq pending \cup missed \cup (Feed \ Listed)

SyncInv ==
  /\ TypeOK
  /\ \A r \in Replicas : Quiet(r) /\ (severed = 0 => Governed(r))
  /\ CacheFollows

-----------------------------------------------------------------------------
(* Effects on the record of a replica                                      *)

LEMMA RecordTypes ==
  /\ Fresh \in Syncer /\ Fresh.pc = "setup" /\ Fresh.new = {} /\ Fresh.deleted = {}
  /\ Resting \in Syncer /\ Resting.pc = "idle" /\ Resting.new = {} /\ Resting.deleted = {}
BY DEF Fresh, Resting, Syncer

\* Only r's record changes.
Alone(r) == rep' = [rep EXCEPT ![r] = rep'[r]] /\ rep'[r] \in Syncer

LEMMA MoveEffect ==
  ASSUME TypeOK, NEW r \in Replicas, NEW pc \in PCs, rep' = [rep EXCEPT ![r].pc = pc]
  PROVE  /\ Alone(r) /\ rep'[r].pc = pc /\ rep'[r].blind = rep[r].blind
         /\ rep'[r].new = rep[r].new /\ rep'[r].deleted = rep[r].deleted
<1> DEFINE new == [rep[r] EXCEPT !.pc = pc]
<1>1. rep \in [Replicas -> Syncer] /\ rep[r] \in Syncer
  BY DEF TypeOK
<1>2. /\ new \in Syncer /\ new.pc = pc /\ new.blind = rep[r].blind
      /\ new.new = rep[r].new /\ new.deleted = rep[r].deleted
  BY <1>1 DEF Syncer, PCs
<1>3. rep' = [rep EXCEPT ![r] = new]
  BY <1>1
<1> HIDE DEF new
<1>4. QED
  BY <1>1, <1>2, <1>3 DEF Alone

LEMMA ReplaceEffect ==
  ASSUME TypeOK, NEW r \in Replicas, NEW new \in Syncer, rep' = [rep EXCEPT ![r] = new]
  PROVE  Alone(r) /\ rep'[r] = new
BY DEF TypeOK, Alone

\* What a sync that starts has in its record.
LEMMA FetchRecord ==
  ASSUME NEW startup \in BOOLEAN, NEW blind \in BOOLEAN
  PROVE  LET new == [Resting EXCEPT !.pc = "fetch", !.blind = blind, !.startup = startup]
         IN /\ new \in Syncer /\ new.pc = "fetch" /\ new.blind = blind
            /\ new.new = {} /\ new.deleted = {}
BY DEF Fresh, Resting, Syncer

LEMMA FaultType ==
  ASSUME TypeOK, Fault \/ UNCHANGED budgetVars
  PROVE  faults' \in 0..MaxFaults /\ stops' \in 0..MaxStops /\ severed' \in 0..MaxSevered
         /\ severed' = severed
BY BoundsAssumption DEF TypeOK, Fault, budgetVars

-----------------------------------------------------------------------------
(* A step of replica r keeps what the others rely on                       *)

LEMMA AloneKeeps ==
  ASSUME SyncInv, NEW r \in Replicas, Alone(r), TypeOK',
         UNCHANGED <<feed, severed>>,
         holder' = holder \/ holder \in {r, NoReplica},
         syncAge' = syncAge \/ Syncing(r),
         pending \cup missed \subseteq pending' \cup missed' \/ Syncing(r),
         Quiet(r)', severed = 0 => Governed(r)', CacheFollows'
  PROVE  SyncInv'
<1>1. ASSUME NEW s \in Replicas \ {r}
      PROVE  Quiet(s)' /\ (severed' = 0 => Governed(s)')
  <2>1. rep'[s] = rep[s]
    BY DEF Alone, SyncInv, TypeOK
  <2>2. Quiet(s) /\ (severed = 0 => Governed(s)) /\ (severed = 0 => Governed(r))
    BY DEF SyncInv
  <2>3. Quiet(s)'
    BY <2>1, <2>2 DEF Quiet
  <2>4. ASSUME severed = 0 PROVE Governed(s)'
    <3>1. Syncing(s) => holder = s /\ holder' = s /\ ~Syncing(r)
      BY <2>2, <2>4, ReplicasAssumption DEF Governed
    <3>2. (rep[s].new = {} /\ rep[s].deleted = {}) \/ Syncing(s)
      BY <2>2 DEF Quiet, Syncing
    <3>3. Listed' = Listed
      BY DEF Listed
    <3>4. rep[s].pc \in {"fetch", "apply"} => Syncing(s)
      BY DEF Syncing
    <3>5. Syncing(s)' <=> Syncing(s)
      BY <2>1 DEF Syncing
    <3>6. CASE Syncing(s)
      BY <2>1, <2>2, <2>4, <3>1, <3>3, <3>5, <3>6 DEF Governed
    <3>7. CASE ~Syncing(s)
      BY <2>1, <3>2, <3>4, <3>5, <3>7 DEF Governed
    <3>8. QED
      BY <3>6, <3>7
  <2>5. QED
    BY <2>3, <2>4
<1>2. QED
  BY <1>1 DEF SyncInv

\* Outside of the writes the table, the feed and what was missed stay.
LEMMA NothingWritten ==
  ASSUME SyncInv, NEW r \in Replicas, Alone(r),
         UNCHANGED <<feed, pending, cache, missed, severed>>,
         rep'[r].new = rep[r].new, rep'[r].deleted = rep[r].deleted
  PROVE  CacheFollows'
<1>1. \A d : InFlight(d)' <=> InFlight(d)
  BY DEF InFlight, Alone, SyncInv, TypeOK
<1>2. QED
  BY <1>1 DEF SyncInv, CacheFollows, Listed

\* The statements of setup and of sync up to the stream call, and the ends of
\* a sync that writes nothing.
LEMMA QuietStep ==
  ASSUME SyncInv, NEW r \in Replicas, Alone(r), rep[r].pc # "apply",
         rep'[r].new = {}, rep'[r].deleted = {}, rep'[r].pc # "apply",
         UNCHANGED <<upstreamVars, cache, stateVars, life, missed, seen>>,
         Fault \/ UNCHANGED budgetVars,
         \/ holder' = holder /\ (Syncing(r)' => Syncing(r))
         \/ holder = NoReplica /\ holder' = r
         \/ Unlock(r) /\ ~Syncing(r)',
         rep'[r].pc = "fetch" => rep'[r].blind \/ syncAge >= MinSync
  PROVE  SyncInv'
<1>0. TypeOK /\ Quiet(r) /\ (severed = 0 => Governed(r))
  BY DEF SyncInv
<1>1. TypeOK'
  <2>1. holder' \in Replicas \cup {NoReplica}
    BY <1>0 DEF TypeOK, Unlock
  <2>2. QED
    BY <1>0, <2>1, FaultType DEF TypeOK, Alone, upstreamVars, stateVars
<1>2. UNCHANGED <<feed, pending, severed, syncAge>>
  BY <1>0, FaultType DEF upstreamVars, stateVars
<1>3. rep[r].new = {} /\ rep[r].deleted = {}
  BY <1>0 DEF Quiet
<1>4. CacheFollows'
  BY <1>2, <1>3, NothingWritten
<1>5. Quiet(r)'
  BY DEF Quiet
<1>6. severed = 0 => Governed(r)'
  BY <1>0, <1>2 DEF Governed, Syncing, stateVars
<1>7. QED
  BY <1>1, <1>2, <1>4, <1>5, <1>6, AloneKeeps DEF Unlock

LEMMA SetupSteps ==
  ASSUME SyncInv, NEW r \in Replicas,
         Setup(r) \/ SetupFails(r) \/ Enroll(r) \/ TryLock(r)
  PROVE  SyncInv'
<1>0. TypeOK /\ Quiet(r)
  BY DEF SyncInv
<1>1. PICK pc \in PCs \ {"fetch", "apply"} : rep' = [rep EXCEPT ![r].pc = pc]
  BY DEF Setup, SetupFails, Enroll, TryLock, PCs
<1>2. Alone(r) /\ rep'[r].pc = pc /\ rep'[r].new = rep[r].new /\ rep'[r].deleted = rep[r].deleted
  BY <1>0, <1>1, MoveEffect
<1>3. rep[r].pc # "apply" /\ rep[r].new = {} /\ rep[r].deleted = {}
  BY <1>0 DEF Setup, SetupFails, Enroll, TryLock, Quiet
<1>4. CASE TryLock(r)
  BY <1>2, <1>3, <1>4, QuietStep DEF TryLock, observerVars
<1>5. CASE Setup(r) \/ SetupFails(r) \/ Enroll(r)
  <2>1. pc \notin {"locked", "fetch", "apply"} /\ ~Syncing(r)'
    BY <1>0, <1>2, <1>5 DEF Setup, SetupFails, Enroll, Syncing, TypeOK, Syncer
  <2>2. QED
    BY <1>2, <1>3, <1>5, <2>1, QuietStep DEF Setup, SetupFails, Enroll, observerVars
<1>6. QED
  BY <1>4, <1>5

LEMMA ReadSteps ==
  ASSUME SyncInv, NEW r \in Replicas,
         TooEarly(r) \/ ReadState(r) \/ ReadStateFails(r) \/ FetchRefused(r)
  PROVE  SyncInv'
<1>0. TypeOK /\ rep[r].pc \in {"locked", "fetch"} /\ Syncing(r)
  BY DEF SyncInv, TooEarly, ReadState, ReadStateFails, FetchRefused, Syncing
<1>1. CASE TooEarly(r) \/ FetchRefused(r)
  <2>1. Alone(r) /\ rep'[r] = Resting
    BY <1>0, <1>1, RecordTypes, ReplaceEffect DEF TooEarly, FetchRefused
  <2>2. QED
    BY <1>0, <1>1, <2>1, RecordTypes, QuietStep DEF TooEarly, FetchRefused, observerVars, Syncing
<1>2. CASE ReadState(r)
  <2> DEFINE new == [Resting EXCEPT !.pc = "fetch", !.startup = startupAge > StartupTTL]
  <2>1. new \in Syncer /\ new.pc = "fetch" /\ new.new = {} /\ new.deleted = {}
    <3>1. (startupAge > StartupTTL) \in BOOLEAN
      OBVIOUS
    <3>2. QED
      BY <3>1 DEF Fresh, Resting, Syncer
  <2>2. rep' = [rep EXCEPT ![r] = new]
    BY <1>2 DEF ReadState
  <2> HIDE DEF new
  <2>3. Alone(r) /\ rep'[r] = new
    BY <1>0, <2>1, <2>2, ReplaceEffect
  <2>4. QED
    BY <1>0, <1>2, <2>1, <2>3, QuietStep DEF ReadState, observerVars
<1>3. CASE ReadStateFails(r)
  <2>1. PICK syncRead \in BOOLEAN, startupRead \in BOOLEAN :
          /\ Fault \/ UNCHANGED budgetVars
          /\ syncRead => syncAge >= MinSync
          /\ rep' = [rep EXCEPT ![r] =
               [Resting EXCEPT !.pc = "fetch", !.blind = ~syncRead,
                               !.startup = ~startupRead \/ startupAge > StartupTTL]]
    BY <1>3 DEF ReadStateFails
  <2> DEFINE new == [Resting EXCEPT !.pc = "fetch", !.blind = ~syncRead,
                               !.startup = ~startupRead \/ startupAge > StartupTTL]
  <2>2. new \in Syncer /\ new.pc = "fetch" /\ new.blind = ~syncRead /\ new.new = {} /\ new.deleted = {}
    BY FetchRecord
  <2>3. rep' = [rep EXCEPT ![r] = new]
    BY <2>1
  <2> HIDE DEF new
  <2>4. Alone(r) /\ rep'[r] = new
    BY <1>0, <2>2, <2>3, ReplaceEffect
  <2>5. QED
    BY <1>0, <1>3, <2>1, <2>2, <2>4, QuietStep DEF ReadStateFails, observerVars
<1>4. QED
  BY <1>1, <1>2, <1>3

-----------------------------------------------------------------------------
(* Stream calls                                                            *)

LEMMA AnswerType ==
  ASSUME NEW startup, NEW new, NEW deleted, Answer(startup, new, deleted)
  PROVE  /\ approved /\ pending' = {} /\ UNCHANGED <<feed, approved>>
         /\ new \subseteq Listed /\ deleted \subseteq Withdrawn
         /\ Listed \subseteq Feed /\ Withdrawn \subseteq Feed /\ Listed \cap Withdrawn = {}
BY DEF Answer, Listed, Withdrawn

\* The answer to a poll, or an answer that is lost: what it held is missed.
LEMMA AnswerWasted ==
  ASSUME SyncInv, NEW r \in Replicas, PollApproved(r) \/ FetchLost(r)
  PROVE  SyncInv'
<1>0. TypeOK /\ Quiet(r) /\ (severed = 0 => Governed(r))
  BY DEF SyncInv
<1>1. /\ pending' = {} /\ UNCHANGED <<feed, approved>> /\ missed' = missed \cup pending
      /\ UNCHANGED <<cache, syncAge, startupAge, life>> /\ (Fault \/ UNCHANGED budgetVars)
  BY DEF PollApproved, FetchLost, Answer, stateVars
<1>2. /\ Alone(r) /\ rep'[r].pc = "idle" /\ rep'[r].new = {} /\ rep'[r].deleted = {}
      /\ rep[r].new = {} /\ rep[r].deleted = {}
  <2>1. CASE PollApproved(r)
    BY <1>0, <2>1, MoveEffect DEF PollApproved, PCs, Quiet
  <2>2. CASE FetchLost(r)
    BY <1>0, <2>2, ReplaceEffect, RecordTypes DEF FetchLost, Quiet
  <2>3. QED
    BY <2>1, <2>2
<1>3. holder' = holder \/ Unlock(r)
  BY DEF PollApproved, FetchLost
<1>4. enrolledAt' \in BOOLEAN /\ seen' \in BOOLEAN
  BY <1>0 DEF PollApproved, FetchLost, HasEnrolledAt, stateVars, TypeOK
<1>5. TypeOK'
  <2>1. holder' \in Replicas \cup {NoReplica} /\ missed' \subseteq Feed
    BY <1>0, <1>1, <1>3 DEF TypeOK, Unlock
  <2>2. QED
    BY <1>0, <1>1, <1>2, <1>4, <2>1, FaultType DEF TypeOK, Alone
<1>6. CacheFollows'
  <2>1. \A d : InFlight(d)' <=> InFlight(d)
    BY <1>0, <1>2 DEF InFlight, Alone, TypeOK
  <2>2. severed' = severed
    BY <1>0, <1>1, FaultType
  <2>3. QED
    BY <1>1, <2>1, <2>2 DEF SyncInv, CacheFollows, Listed
<1>7. Quiet(r)' /\ (severed = 0 => Governed(r)')
  BY <1>2 DEF Quiet, Governed, Syncing
<1>8. severed' = severed
  BY <1>0, <1>1, FaultType
<1>9. QED
  BY <1>1, <1>2, <1>3, <1>5, <1>6, <1>7, <1>8, AloneKeeps DEF Unlock

LEMMA FetchStep ==
  ASSUME SyncInv, NEW r \in Replicas, Fetch(r)
  PROVE  SyncInv'
<1>0. TypeOK /\ Quiet(r) /\ (severed = 0 => Governed(r)) /\ rep[r].pc = "fetch"
      /\ rep \in [Replicas -> Syncer]
  BY DEF SyncInv, Fetch, TypeOK
<1>1. PICK new \in SUBSET Feed, deleted \in SUBSET Feed :
        /\ Answer(rep[r].startup, new, deleted)
        /\ missed' = (missed \cup pending) \ (new \cup deleted)
        /\ rep' = [rep EXCEPT ![r].pc = "apply", ![r].new = new, ![r].deleted = deleted]
  BY DEF Fetch
<1>2. /\ pending' = {} /\ UNCHANGED <<feed, approved>>
      /\ new \subseteq Listed /\ deleted \subseteq Withdrawn
      /\ Listed \subseteq Feed /\ Withdrawn \subseteq Feed /\ Listed \cap Withdrawn = {}
  BY <1>1, AnswerType
<1>3. /\ UNCHANGED <<cache, holder, life, seen, syncAge, startupAge, enrolledAt>>
      /\ UNCHANGED budgetVars
  BY DEF Fetch, stateVars
<1>4. /\ Alone(r) /\ rep'[r].pc = "apply" /\ rep'[r].blind = rep[r].blind
      /\ rep'[r].new = new /\ rep'[r].deleted = deleted
  <2> DEFINE now == [rep[r] EXCEPT !.pc = "apply", !.new = new, !.deleted = deleted]
  <2>1. /\ now \in Syncer /\ now.pc = "apply" /\ now.blind = rep[r].blind
        /\ now.new = new /\ now.deleted = deleted
    <3>1. rep[r] \in Syncer
      BY <1>0
    <3>2. QED
      BY <3>1 DEF Syncer
  <2>2. rep' = [rep EXCEPT ![r] = now]
    BY <1>0, <1>1
  <2> HIDE DEF now
  <2>3. QED
    BY <1>0, <2>1, <2>2, ReplaceEffect
<1>5. TypeOK'
  BY <1>0, <1>1, <1>2, <1>3, <1>4, FaultType DEF TypeOK, Alone
<1>6. Governed(r) => Governed(r)'
  BY <1>0, <1>2, <1>3, <1>4 DEF Governed, Syncing, Listed, Withdrawn
<1>7. CacheFollows'
  <2>1. ASSUME severed = 0, NEW d \in Feed
        PROVE  \/ InFlight(d)' \/ d \in missed'
               \/ d \in cache' <=> d \in Listed'
    <3>1. \A s \in Replicas \ {r} : rep[s].new = {} /\ rep[s].deleted = {}
      BY <1>0, <2>1 DEF SyncInv, Quiet, Governed, Syncing
    <3>2. rep[r].new = {} /\ rep[r].deleted = {}
      BY <1>0 DEF Quiet
    <3>3. ~InFlight(d)
      BY <3>1, <3>2 DEF InFlight
    <3>4. d \in new \cup deleted => InFlight(d)'
      BY <1>4 DEF InFlight
    <3>5. d \in pending \/ d \in missed \/ (d \in cache <=> d \in Listed)
      BY <2>1, <3>3 DEF SyncInv, CacheFollows
    <3>6. Listed' = Listed
      BY <1>2 DEF Listed
    <3>7. QED
      BY <1>1, <1>3, <3>4, <3>5, <3>6
  <2>2. severed' = severed
    BY <1>3 DEF budgetVars
  <2>3. QED
    BY <2>1, <2>2 DEF CacheFollows
<1>8. QED
  BY <1>0, <1>2, <1>3, <1>4, <1>5, <1>6, <1>7, AloneKeeps
     DEF Quiet, Syncing, budgetVars

-----------------------------------------------------------------------------
(* Writes                                                                  *)

LEMMA WriteStep ==
  ASSUME SyncInv, NEW r \in Replicas, NEW d \in Feed, Upsert(r, d) \/ MarkDeleted(r, d)
  PROVE  SyncInv'
<1>0. TypeOK /\ Quiet(r) /\ (severed = 0 => Governed(r)) /\ rep[r].pc = "apply"
      /\ rep[r] \in Syncer /\ rep \in [Replicas -> Syncer]
  BY DEF SyncInv, Upsert, MarkDeleted, TypeOK
<1>1. PICK new \in SUBSET Feed, deleted \in SUBSET Feed :
        /\ rep' = [rep EXCEPT ![r] = [rep[r] EXCEPT !.new = new, !.deleted = deleted]]
        /\ \/ /\ d \in rep[r].new /\ new = rep[r].new \ {d} /\ deleted = rep[r].deleted
              /\ cache' = cache \cup {d} \/ (d \in missed' /\ UNCHANGED cache)
           \/ /\ d \in rep[r].deleted /\ deleted = rep[r].deleted \ {d} /\ new = rep[r].new
              /\ cache' = cache \ {d} \/ (d \in missed' /\ UNCHANGED cache)
  <2>1. rep[r].new \subseteq Feed /\ rep[r].deleted \subseteq Feed
    BY <1>0 DEF Syncer
  <2>2. CASE Upsert(r, d)
    <3>1. /\ d \in rep[r].new
          /\ cache' = cache \cup {d} \/ (d \in missed' /\ UNCHANGED cache)
      BY <2>2 DEF Upsert
    <3>2. rep' = [rep EXCEPT ![r] = [rep[r] EXCEPT !.new = rep[r].new \ {d},
                                                   !.deleted = rep[r].deleted]]
      <4>1. [rep[r] EXCEPT !.new = rep[r].new \ {d}] =
              [rep[r] EXCEPT !.new = rep[r].new \ {d}, !.deleted = rep[r].deleted]
        BY <1>0 DEF Syncer
      <4>2. rep' = [rep EXCEPT ![r] = [rep[r] EXCEPT !.new = rep[r].new \ {d}]]
        BY <1>0, <2>2 DEF Upsert
      <4>3. QED
        BY <4>1, <4>2
    <3>3. QED
      BY <2>1, <3>1, <3>2
  <2>3. CASE MarkDeleted(r, d)
    <3>1. /\ d \in rep[r].deleted
          /\ cache' = cache \ {d} \/ (d \in missed' /\ UNCHANGED cache)
      BY <2>3 DEF MarkDeleted
    <3>2. rep' = [rep EXCEPT ![r] = [rep[r] EXCEPT !.new = rep[r].new,
                                                   !.deleted = rep[r].deleted \ {d}]]
      <4>1. [rep[r] EXCEPT !.deleted = rep[r].deleted \ {d}] =
              [rep[r] EXCEPT !.new = rep[r].new, !.deleted = rep[r].deleted \ {d}]
        BY <1>0 DEF Syncer
      <4>2. rep' = [rep EXCEPT ![r] = [rep[r] EXCEPT !.deleted = rep[r].deleted \ {d}]]
        BY <1>0, <2>3 DEF MarkDeleted
      <4>3. QED
        BY <4>1, <4>2
    <3>3. QED
      BY <2>1, <3>1, <3>2
  <2>4. QED
    BY <2>2, <2>3
<1>2. /\ Alone(r) /\ rep'[r].pc = "apply" /\ rep'[r].blind = rep[r].blind
      /\ rep'[r].new = new /\ rep'[r].deleted = deleted
  <2> DEFINE now == [rep[r] EXCEPT !.new = new, !.deleted = deleted]
  <2>1. /\ now \in Syncer /\ now.pc = "apply" /\ now.blind = rep[r].blind
        /\ now.new = new /\ now.deleted = deleted
    BY <1>0 DEF Syncer
  <2>2. rep' = [rep EXCEPT ![r] = now]
    BY <1>1
  <2> HIDE DEF now
  <2>3. QED
    BY <1>0, <2>1, <2>2, ReplaceEffect
<1>3. /\ UNCHANGED <<feed, pending, approved, holder, life, seen>>
      /\ UNCHANGED <<syncAge, startupAge, enrolledAt>> /\ (Fault \/ UNCHANGED budgetVars)
      /\ missed' \in {missed, missed \cup {d}} /\ cache' \subseteq Feed
  BY <1>0 DEF Upsert, MarkDeleted, upstreamVars, stateVars, TypeOK
<1>4. severed' = severed /\ TypeOK'
  BY <1>0, <1>2, <1>3, FaultType DEF TypeOK, Alone
<1>5. Listed' = Listed
  BY <1>3 DEF Listed
<1>6. Governed(r) => Governed(r)'
  BY <1>0, <1>1, <1>2, <1>3, <1>5 DEF Governed, Syncing
<1>7. CacheFollows'
  <2>1. ASSUME severed = 0, NEW e \in Feed
        PROVE  \/ e \in pending' \/ InFlight(e)' \/ e \in missed'
               \/ e \in cache' <=> e \in Listed'
    <3>1. e \in pending \/ InFlight(e) \/ e \in missed \/ (e \in cache <=> e \in Listed)
      BY <2>1 DEF SyncInv, CacheFollows
    <3>2. CASE e # d
      <4>1. InFlight(e) => InFlight(e)'
        BY <1>0, <1>1, <1>2, <3>2 DEF InFlight, Alone
      <4>2. e \in cache' <=> e \in cache
        BY <1>1, <3>2
      <4>3. QED
        BY <1>3, <1>5, <3>1, <4>1, <4>2
    <3>3. CASE e = d
      <4>1. Governed(r)
        BY <1>0, <2>1
      <4>2. CASE d \in rep[r].new /\ (cache' = cache \cup {d} \/ d \in missed')
        BY <1>3, <1>5, <3>3, <4>1, <4>2 DEF Governed
      <4>3. CASE d \in rep[r].deleted /\ (cache' = cache \ {d} \/ d \in missed')
        BY <1>3, <1>5, <3>3, <4>1, <4>3 DEF Governed
      <4>4. QED
        BY <1>1, <4>2, <4>3
    <3>4. QED
      BY <3>2, <3>3
  <2>2. QED
    BY <1>4, <2>1 DEF CacheFollows
<1>8. QED
  BY <1>0, <1>2, <1>3, <1>4, <1>6, <1>7, AloneKeeps DEF Quiet, Syncing

LEMMA PersistStep ==
  ASSUME SyncInv, NEW r \in Replicas, Persist(r)
  PROVE  SyncInv'
<1>0. TypeOK /\ rep[r].pc = "apply" /\ rep[r].new = {} /\ rep[r].deleted = {} /\ Syncing(r)
  BY DEF SyncInv, Persist, Syncing
<1>1. Alone(r) /\ rep'[r] = Resting
  BY <1>0, RecordTypes, ReplaceEffect DEF Persist
<1>2. /\ UNCHANGED <<feed, pending, approved, cache, enrolledAt, life, missed, seen>>
      /\ (Fault \/ UNCHANGED budgetVars) /\ Unlock(r)
  BY DEF Persist, upstreamVars, observerVars
<1>3. syncAge' \in 0..MinSync /\ startupAge' \in 0..Never
  BY <1>0, BoundsAssumption DEF Persist, TypeOK, Never
<1>4. severed' = severed /\ TypeOK'
  <2>1. holder' \in Replicas \cup {NoReplica}
    BY <1>0, <1>2 DEF Unlock, TypeOK
  <2>2. QED
    BY <1>0, <1>1, <1>2, <1>3, <2>1, FaultType DEF TypeOK, Alone
<1>5. CacheFollows'
  BY <1>0, <1>1, <1>2, <1>4, RecordTypes, NothingWritten
<1>6. Quiet(r)' /\ Governed(r)'
  BY <1>1, RecordTypes DEF Quiet, Governed, Syncing
<1>7. QED
  BY <1>0, <1>1, <1>2, <1>4, <1>5, <1>6, AloneKeeps DEF Unlock

-----------------------------------------------------------------------------
(* The process, the clock and the upstream feed                            *)

LEMMA DownStep ==
  ASSUME SyncInv, NEW r \in Replicas, Crash(r) \/ Exit(r)
  PROVE  SyncInv'
<1>0. TypeOK /\ Quiet(r) /\ rep[r] \in Syncer
  BY DEF SyncInv, TypeOK
<1>1. Alone(r) /\ rep'[r] = Fresh
  BY <1>0, RecordTypes, ReplaceEffect DEF Crash, Exit
<1>2. /\ UNCHANGED <<feed, pending, approved, cache, syncAge, startupAge, enrolledAt, seen>>
      /\ (Fault \/ UNCHANGED budgetVars) /\ (Unlock(r) \/ UNCHANGED holder)
      /\ missed' = missed \cup rep[r].new \cup rep[r].deleted
      /\ life' = [life EXCEPT ![r] = "down"]
  BY <1>0 DEF Crash, Exit, upstreamVars, stateVars, observerVars, Quiet
<1>3. severed' = severed /\ TypeOK'
  <2>1. holder' \in Replicas \cup {NoReplica} /\ missed' \subseteq Feed
    BY <1>0, <1>2 DEF Unlock, TypeOK, Syncer
  <2>2. life' \in [Replicas -> {"up", "cancelled", "closed", "down"}]
    BY <1>0, <1>2 DEF TypeOK
  <2>3. QED
    BY <1>0, <1>1, <1>2, <2>1, <2>2, FaultType DEF TypeOK, Alone
<1>4. CacheFollows'
  <2>1. \A d : InFlight(d) => InFlight(d)' \/ d \in missed'
    BY <1>0, <1>1, <1>2 DEF InFlight, Alone, TypeOK
  <2>2. QED
    BY <1>2, <1>3, <2>1 DEF SyncInv, CacheFollows, Listed
<1>5. Quiet(r)' /\ Governed(r)'
  BY <1>1, RecordTypes DEF Quiet, Governed, Syncing
<1>6. QED
  BY <1>1, <1>2, <1>3, <1>4, <1>5, AloneKeeps DEF Unlock

LEMMA LifeStep ==
  ASSUME SyncInv, NEW r \in Replicas, Stop(r) \/ ClosePool(r) \/ Start(r) \/ SeverLock(r)
  PROVE  SyncInv'
<1>0. TypeOK
  BY DEF SyncInv
<1>1. UNCHANGED <<feed, pending, approved, cache, syncAge, startupAge, enrolledAt, rep,
                  missed, seen, faults>>
  BY DEF Stop, ClosePool, Start, SeverLock, upstreamVars, stateVars, observerVars, budgetVars
<1>2. life' \in [Replicas -> {"up", "cancelled", "closed", "down"}]
  BY <1>0 DEF Stop, ClosePool, Start, SeverLock, TypeOK
<1>3. /\ stops' \in 0..MaxStops /\ severed' \in 0..MaxSevered
      /\ holder' \in Replicas \cup {NoReplica}
      /\ severed' = 0 => severed = 0 /\ UNCHANGED holder
  BY <1>0, BoundsAssumption DEF Stop, ClosePool, Start, SeverLock, TypeOK, budgetVars
<1>4. TypeOK'
  BY <1>0, <1>1, <1>2, <1>3 DEF TypeOK
<1>5. CacheFollows'
  BY <1>1, <1>3 DEF SyncInv, CacheFollows, InFlight, Listed
<1>6. \A s \in Replicas : Quiet(s)' /\ (severed' = 0 => Governed(s)')
  BY <1>1, <1>3 DEF SyncInv, Quiet, Governed, Syncing, Listed
<1>7. QED
  BY <1>4, <1>5, <1>6 DEF SyncInv

LEMMA TickStep ==
  ASSUME SyncInv, Tick
  PROVE  SyncInv'
<1>0. TypeOK
  BY DEF SyncInv
<1>1. UNCHANGED <<feed, pending, approved, cache, enrolledAt, holder, rep, life, missed, seen,
                  faults, stops, severed>>
  BY DEF Tick, upstreamVars, observerVars, budgetVars
<1>2. syncAge' \in 0..MinSync /\ startupAge' \in 0..Never /\ syncAge' >= syncAge
  BY <1>0, BoundsAssumption DEF Tick, Older, TypeOK, Never
<1>3. TypeOK'
  BY <1>0, <1>1, <1>2 DEF TypeOK
<1>4. CacheFollows'
  BY <1>1 DEF SyncInv, CacheFollows, InFlight, Listed
<1>5. ASSUME NEW s \in Replicas PROVE Quiet(s)' /\ (severed' = 0 => Governed(s)')
  <2>1. syncAge >= MinSync => syncAge' >= MinSync
    BY <1>0, <1>2, BoundsAssumption DEF TypeOK
  <2>2. QED
    BY <1>1, <2>1 DEF SyncInv, Quiet, Governed, Syncing, Listed
<1>6. QED
  BY <1>3, <1>4, <1>5 DEF SyncInv

LEMMA FeedStep ==
  ASSUME SyncInv, (\E d \in Feed : Publish(d) \/ Withdraw(d)) \/ Approve
  PROVE  SyncInv'
<1>0. TypeOK
  BY DEF SyncInv
<1>1. /\ UNCHANGED <<cache, syncAge, startupAge, enrolledAt, holder, rep, life, missed, seen>>
      /\ UNCHANGED <<faults, stops, severed>>
  BY DEF Publish, Withdraw, Approve, stateVars, observerVars, budgetVars
<1>2. PICK D \in SUBSET Feed :
        /\ pending' = pending \cup D
        /\ \A e \in Feed \ D : feed'[e] = feed[e]
  <2>1. ASSUME Approve
        PROVE  {} \in SUBSET Feed /\ pending' = pending \cup {} /\ UNCHANGED feed
    BY <2>1 DEF Approve
  <2>2. ASSUME NEW d \in Feed, Publish(d) \/ Withdraw(d)
        PROVE  /\ {d} \in SUBSET Feed /\ pending' = pending \cup {d}
               /\ \A e \in Feed \ {d} : feed'[e] = feed[e]
    BY <1>0, <2>2 DEF Publish, Withdraw, TypeOK
  <2>3. QED
    BY <2>1, <2>2
<1>3. TypeOK'
  <2>1. feed' \in [Feed -> {"absent", "listed", "withdrawn"}] /\ approved' \in BOOLEAN
    BY <1>0 DEF Publish, Withdraw, Approve, TypeOK
  <2>2. QED
    BY <1>0, <1>1, <1>2, <2>1 DEF TypeOK
<1>4. \A e \in Feed : e \in pending' \/ (e \in Listed' <=> e \in Listed)
  BY <1>2 DEF Listed
<1>5. CacheFollows'
  BY <1>1, <1>2, <1>4 DEF SyncInv, CacheFollows, InFlight
<1>6. ASSUME NEW s \in Replicas PROVE Quiet(s)' /\ (severed' = 0 => Governed(s)')
  <2>1. rep[s].new \subseteq Feed /\ rep[s].deleted \subseteq Feed
    BY <1>0 DEF TypeOK, Syncer
  <2>2. QED
    BY <1>1, <1>2, <1>4, <2>1 DEF SyncInv, Quiet, Governed, Syncing
<1>7. QED
  BY <1>3, <1>5, <1>6 DEF SyncInv

LEMMA SyncStep == SyncInv /\ [Next]_vars => SyncInv'
<1>1. SyncInv /\ UNCHANGED vars => SyncInv'
  BY DEF vars, SyncInv, TypeOK, Quiet, Governed, Syncing, CacheFollows, InFlight, Listed
<1>2. QED
  BY <1>1, SetupSteps, ReadSteps, AnswerWasted, FetchStep, WriteStep, PersistStep, DownStep,
     LifeStep, TickStep, FeedStep
     DEF Next, SyncerStep, ProcessStep

LEMMA SyncInvHolds == Spec => []SyncInv
<1>1. Init => SyncInv
  <2>1. ASSUME Init PROVE TypeOK
    <3>1. rep \in [Replicas -> Syncer] /\ approved \in BOOLEAN
      BY <2>1, RecordTypes, BoundsAssumption DEF Init
    <3>2. /\ syncAge \in 0..MinSync /\ startupAge \in 0..Never
          /\ faults \in 0..MaxFaults /\ stops \in 0..MaxStops /\ severed \in 0..MaxSevered
      BY <2>1, BoundsAssumption DEF Init, Never
    <3>3. QED
      BY <2>1, <3>1, <3>2 DEF Init, TypeOK
  <2>2. ASSUME Init, NEW r \in Replicas PROVE Quiet(r) /\ Governed(r)
    <3>1. rep[r].pc = "setup" /\ rep[r].new = {} /\ rep[r].deleted = {}
      BY <2>2, RecordTypes DEF Init
    <3>2. QED
      BY <3>1 DEF Quiet, Governed, Syncing
  <2>3. Init => CacheFollows
    BY DEF Init, CacheFollows, Listed
  <2>4. QED
    BY <2>1, <2>2, <2>3 DEF SyncInv
<1>2. QED
  BY <1>1, SyncStep, PTL DEF Spec

-----------------------------------------------------------------------------
(* How many sync at once                                                   *)

\* The replicas that sync without the lock: theirs was taken from them.
Adrift == {r \in Replicas : Syncing(r) /\ holder # r}
AdriftInv == IsFiniteSet(Adrift) /\ Cardinality(Adrift) <= severed

\* One replica more is one more at most.
LEMMA AdriftCount ==
  ASSUME TypeOK, AdriftInv, NEW r
  PROVE  /\ IsFiniteSet(Adrift \cup {r})
         /\ Cardinality(Adrift \cup {r}) \in Nat
         /\ Cardinality(Adrift \cup {r}) <= severed + 1
<1>1. /\ IsFiniteSet(Adrift \cup {r})
      /\ Cardinality(Adrift \cup {r}) = IF r \in Adrift THEN Cardinality(Adrift)
                                                      ELSE Cardinality(Adrift) + 1
  BY FS_AddElement DEF AdriftInv
<1>2. Cardinality(Adrift) \in Nat /\ severed \in Nat /\ Cardinality(Adrift) <= severed
  BY FS_CardinalityType, BoundsAssumption DEF AdriftInv, TypeOK
<1>3. QED
  BY <1>1, <1>2

\* A sync takes the lock when it begins and gives back no lock but its own; only
\* the death of the session separates the two.
LEMMA AdriftStep ==
  ASSUME TypeOK, AdriftInv, [Next]_vars
  PROVE  AdriftInv'
<1>t. rep \in [Replicas -> Syncer] /\ severed \in Nat
  BY BoundsAssumption DEF TypeOK
<1>1. ASSUME Adrift' \subseteq Adrift, severed' = severed
      PROVE  AdriftInv'
  <2>1. IsFiniteSet(Adrift') /\ Cardinality(Adrift') <= Cardinality(Adrift)
    BY <1>1, FS_Subset DEF AdriftInv
  <2>2. /\ Cardinality(Adrift) \in Nat /\ Cardinality(Adrift') \in Nat
        /\ Cardinality(Adrift) <= severed
    BY <2>1, FS_CardinalityType DEF AdriftInv
  <2>3. QED
    BY <1>1, <1>t, <2>1, <2>2 DEF AdriftInv
<1>2. ASSUME NEW r \in Replicas, NEW new, rep' = [rep EXCEPT ![r] = new],
             \/ Unlock(r) /\ ~Syncing(r)'
             \/ holder' = holder /\ (Syncing(r)' => Syncing(r))
             \/ holder = NoReplica /\ holder' = r,
             severed' = severed
      PROVE  AdriftInv'
  <2>1. \A s \in Replicas \ {r} : Syncing(s)' <=> Syncing(s)
    BY <1>t, <1>2 DEF Syncing
  <2>2. Adrift' \subseteq Adrift
    BY <1>2, <2>1, ReplicasAssumption DEF Adrift, Unlock
  <2>3. QED
    BY <1>1, <1>2, <2>2
<1>3. ASSUME UNCHANGED <<rep, holder, severed>> PROVE AdriftInv'
  BY <1>1, <1>3 DEF Adrift, Syncing
<1>4. ASSUME NEW r \in Replicas, SeverLock(r) PROVE AdriftInv'
  <2>1. rep' = rep /\ holder = r /\ severed' = severed + 1
    BY <1>4 DEF SeverLock
  <2>2. Adrift' \subseteq Adrift \cup {r}
    BY <2>1 DEF Adrift, Syncing
  <2>3. /\ IsFiniteSet(Adrift \cup {r})
        /\ Cardinality(Adrift \cup {r}) \in Nat
        /\ Cardinality(Adrift \cup {r}) <= severed + 1
    BY AdriftCount
  <2>4. IsFiniteSet(Adrift') /\ Cardinality(Adrift') <= Cardinality(Adrift \cup {r})
    BY <2>2, <2>3, FS_Subset
  <2>5. Cardinality(Adrift') \in Nat
    BY <2>4, FS_CardinalityType
  <2>6. QED
    BY <1>t, <2>1, <2>3, <2>4, <2>5 DEF AdriftInv
<1>5. ASSUME NEW r \in Replicas,
             Setup(r) \/ SetupFails(r) \/ Enroll(r) \/ PollApproved(r) \/ TryLock(r)
      PROVE  AdriftInv'
  <2>1. PICK pc \in PCs : /\ rep' = [rep EXCEPT ![r].pc = pc]
                          /\ pc \in {"locked", "fetch", "apply"} => TryLock(r)
    BY <1>5 DEF Setup, SetupFails, Enroll, PollApproved, TryLock, PCs
  <2>2. rep'[r].pc = pc /\ rep' = [rep EXCEPT ![r] = rep'[r]]
    BY <2>1, MoveEffect DEF Alone
  <2>3. severed' = severed
    BY <1>5 DEF Setup, SetupFails, Enroll, PollApproved, TryLock, Fault, budgetVars
  <2>4. CASE TryLock(r)
    BY <1>2, <2>2, <2>3, <2>4 DEF TryLock
  <2>5. CASE ~TryLock(r)
    <3>1. holder' = holder /\ ~Syncing(r)'
      BY <1>5, <2>1, <2>2, <2>5 DEF Setup, SetupFails, Enroll, PollApproved, Syncing
    <3>2. QED
      BY <1>2, <2>2, <2>3, <3>1
  <2>6. QED
    BY <2>4, <2>5
<1>6. ASSUME NEW r \in Replicas,
             TooEarly(r) \/ FetchRefused(r) \/ FetchLost(r) \/ Persist(r) \/ Crash(r)
      PROVE  AdriftInv'
  <2>1. PICK new \in {Resting, Fresh} : rep' = [rep EXCEPT ![r] = new]
    BY <1>6 DEF TooEarly, FetchRefused, FetchLost, Persist, Crash
  <2>2. ~Syncing(r)'
    BY <1>t, <2>1, RecordTypes DEF Syncing
  <2>3. Unlock(r) /\ severed' = severed
    BY <1>6 DEF TooEarly, FetchRefused, FetchLost, Persist, Crash, Fault, budgetVars
  <2>4. QED
    BY <1>2, <2>1, <2>2, <2>3
<1>7. ASSUME NEW r \in Replicas,
             \/ ReadState(r) \/ ReadStateFails(r) \/ Fetch(r)
             \/ \E d \in Feed : Upsert(r, d) \/ MarkDeleted(r, d)
      PROVE  AdriftInv'
  <2>1. Syncing(r) /\ holder' = holder /\ severed' = severed
    BY <1>7 DEF ReadState, ReadStateFails, Fetch, Upsert, MarkDeleted, Fault, budgetVars, Syncing
  <2>2. rep' = [rep EXCEPT ![r] = rep'[r]]
    BY <1>7, <1>t DEF ReadState, ReadStateFails, Fetch, Upsert, MarkDeleted
  <2>3. QED
    BY <1>2, <2>1, <2>2
<1>8. ASSUME NEW r \in Replicas, Exit(r) PROVE AdriftInv'
  <2>1. rep' = [rep EXCEPT ![r] = Fresh] /\ holder' = holder /\ severed' = severed
    BY <1>8 DEF Exit, budgetVars
  <2>2. ~Syncing(r)'
    BY <1>t, <2>1, RecordTypes DEF Syncing
  <2>3. QED
    BY <1>2, <2>1, <2>2
<1>9. QED
  BY <1>3, <1>4, <1>5, <1>6, <1>7, <1>8
     DEF Next, SyncerStep, ProcessStep, Tick, Publish, Withdraw, Approve, Stop, ClosePool, Start,
         budgetVars, vars

-----------------------------------------------------------------------------
(* What a run without trouble can miss                                     *)

\* No call or statement has failed, nobody was stopped, and no answer was spent
\* on finding out that the machine is approved.
Untroubled == faults = 0 /\ stops = 0 /\ ~seen

\* A change that upstream has told and nobody will write is then a withdrawal,
\* or has been overtaken by one that upstream still has to tell.
LossInv ==
  /\ stops = 0 => \A r \in Replicas : life[r] \notin {"cancelled", "closed"}
  /\ Untroubled => missed \cap Listed \subseteq pending

\* A fault ends the run without trouble.
LEMMA FaultTroubles == TypeOK /\ Fault => ~Untroubled'
BY BoundsAssumption DEF TypeOK, Fault, Untroubled

\* A step that neither misses anything nor closes a pool keeps LossInv.
LEMMA LossKept ==
  ASSUME LossInv, UNCHANGED <<life, stops, seen>>,
         missed' \cap Listed' \subseteq (missed \cap Listed) \cup pending',
         pending \subseteq pending',
         faults' = 0 => faults = 0
  PROVE  LossInv'
BY DEF LossInv, Untroubled

LEMMA LossStep ==
  ASSUME TypeOK, LossInv, [Next]_vars
  PROVE  LossInv'
<1>f. ASSUME Fault, UNCHANGED life PROVE LossInv'
  BY <1>f, FaultTroubles DEF LossInv, Fault
<1>k. ASSUME UNCHANGED <<feed, pending, missed, life, seen>>, Fault \/ UNCHANGED budgetVars
      PROVE  LossInv'
  <2>1. UNCHANGED Listed
    BY <1>k DEF Listed
  <2>2. CASE Fault
    BY <1>f, <1>k, <2>2
  <2>3. CASE UNCHANGED budgetVars
    BY <1>k, <2>1, <2>3, LossKept DEF budgetVars
  <2>4. QED
    BY <1>k, <2>2, <2>3
<1>1. CASE UNCHANGED vars \/ Tick \/ Approve
  BY <1>1, <1>k DEF vars, Tick, Approve, upstreamVars, observerVars, budgetVars
<1>2. ASSUME NEW d \in Feed, Publish(d) \/ Withdraw(d) PROVE LossInv'
  <2>1. \A e \in Feed \ {d} : feed'[e] = feed[e]
    BY <1>2 DEF Publish, Withdraw, TypeOK
  <2>2. /\ missed' = missed /\ pending' = pending \cup {d}
        /\ UNCHANGED <<life, stops, seen, faults>>
    BY <1>2 DEF Publish, Withdraw, observerVars, budgetVars
  <2>3. missed' \cap Listed' \subseteq (missed \cap Listed) \cup pending'
    BY <2>1, <2>2 DEF Listed
  <2>4. QED
    BY <2>2, <2>3, LossKept
<1>3. ASSUME NEW r \in Replicas,
             \/ Setup(r) \/ SetupFails(r) \/ Enroll(r) \/ TryLock(r) \/ TooEarly(r)
             \/ ReadState(r) \/ ReadStateFails(r) \/ FetchRefused(r)
             \/ Persist(r) \/ FetchLost(r)
      PROVE  LossInv'
  <2>1. CASE FetchLost(r)
    BY <1>f, <2>1 DEF FetchLost
  <2>2. CASE ~FetchLost(r)
    <3>1. UNCHANGED <<feed, pending, missed, life, seen>>
      BY <1>3, <2>2 DEF Setup, SetupFails, Enroll, TryLock, TooEarly, ReadState,
         ReadStateFails, FetchRefused, Persist, upstreamVars, observerVars
    <3>2. Fault \/ UNCHANGED budgetVars
      BY <1>3, <2>2 DEF Setup, SetupFails, Enroll, TryLock, TooEarly, ReadState,
         ReadStateFails, FetchRefused, Persist
    <3>3. QED
      BY <1>k, <3>1, <3>2
  <2>3. QED
    BY <2>1, <2>2
<1>4. ASSUME NEW r \in Replicas, PollApproved(r) PROVE LossInv'
  BY <1>4 DEF PollApproved, LossInv, Untroubled, budgetVars
<1>5. ASSUME NEW r \in Replicas, Fetch(r) PROVE LossInv'
  <2>1. PICK new \in SUBSET Feed, deleted \in SUBSET Feed :
          /\ Answer(rep[r].startup, new, deleted)
          /\ missed' = (missed \cup pending) \ (new \cup deleted)
    BY <1>5 DEF Fetch
  <2>2. UNCHANGED <<feed, life, seen, faults, stops>> /\ pending' = {}
    BY <1>5, <2>1 DEF Fetch, Answer, budgetVars
  <2>3. new = Listed \/ new = pending \cap Listed
    BY <2>1 DEF Answer
  <2>4. Untroubled => missed' \cap Listed = {}
    BY <2>1, <2>2, <2>3 DEF LossInv, Untroubled
  <2>5. UNCHANGED Listed
    BY <2>2 DEF Listed
  <2>6. QED
    BY <2>2, <2>4, <2>5 DEF LossInv, Untroubled
<1>6. ASSUME NEW r \in Replicas, NEW d \in Feed, Upsert(r, d) \/ MarkDeleted(r, d)
      PROVE  LossInv'
  <2>1. UNCHANGED <<feed, pending, life, seen>>
    BY <1>6 DEF Upsert, MarkDeleted, upstreamVars
  <2>2. CASE missed' = missed
    BY <1>6, <1>k, <2>1, <2>2 DEF Upsert, MarkDeleted
  <2>3. CASE missed' # missed /\ PoolOpen(r)
    BY <1>6, <1>f, <2>1, <2>3 DEF Upsert, MarkDeleted
  <2>4. CASE missed' # missed /\ ~PoolOpen(r)
    <3>1. UNCHANGED budgetVars
      BY <1>6, <2>4 DEF Upsert, MarkDeleted
    <3>2. stops # 0
      BY <2>4 DEF PoolOpen, LossInv
    <3>3. QED
      BY <3>1, <3>2 DEF LossInv, Untroubled, budgetVars
  <2>5. QED
    BY <2>2, <2>3, <2>4
<1>7. ASSUME NEW r \in Replicas, Crash(r) PROVE LossInv'
  <2>1. ~Untroubled' /\ stops' = stops
    BY <1>7, FaultTroubles DEF Crash, Fault
  <2>2. \A s \in Replicas : life'[s] = life[s] \/ life'[s] = "down"
    BY <1>7 DEF Crash, TypeOK
  <2>3. QED
    BY <2>1, <2>2 DEF LossInv
<1>8. ASSUME NEW r \in Replicas, Stop(r) PROVE LossInv'
  <2>1. stops \in Nat /\ stops' = stops + 1
    BY <1>8, BoundsAssumption DEF Stop, TypeOK
  <2>2. stops' # 0
    BY <2>1
  <2>3. QED
    BY <2>2 DEF LossInv, Untroubled
<1>9. ASSUME NEW r \in Replicas, ClosePool(r) \/ Exit(r) \/ Start(r) PROVE LossInv'
  <2>1. UNCHANGED <<feed, pending, missed, seen, faults, stops>>
    BY <1>9 DEF ClosePool, Exit, Start, upstreamVars, observerVars, budgetVars
  <2>2. stops = 0 => \A s \in Replicas : life'[s] \notin {"cancelled", "closed"}
    BY <1>9 DEF ClosePool, Exit, Start, LossInv, TypeOK
  <2>3. UNCHANGED Listed
    BY <2>1 DEF Listed
  <2>4. QED
    BY <2>1, <2>2, <2>3 DEF LossInv, Untroubled
<1>10. ASSUME NEW r \in Replicas, SeverLock(r) PROVE LossInv'
  BY <1>10 DEF SeverLock, LossInv, Untroubled, Listed, upstreamVars, observerVars
<1>11. QED
  BY <1>1, <1>2, <1>3, <1>4, <1>5, <1>6, <1>7, <1>8, <1>9, <1>10
     DEF Next, SyncerStep, ProcessStep

-----------------------------------------------------------------------------
(* Theorems                                                                *)

\* Every variable keeps its type through crashes, stops and severed locks.
THEOREM SyncTypeCorrect == Spec => []TypeOK
<1>1. SyncInv => TypeOK
  BY DEF SyncInv
<1>2. QED
  BY <1>1, SyncInvHolds, PTL

\* However many replicas there are, they sync one at a time but for one more
\* with each lock session that dies (sync.go's pg_try_advisory_lock).
THEOREM SyncsAreBounded == Spec => []SyncsBounded
<1>1. Init => AdriftInv
  <2>1. Init => Adrift = {}
    BY RecordTypes DEF Init, Adrift, Syncing
  <2>2. QED
    BY <2>1, FS_EmptySet DEF Init, AdriftInv
<1>2. TypeOK /\ AdriftInv /\ [Next]_vars => AdriftInv'
  BY AdriftStep
<1>3. TypeOK /\ AdriftInv => SyncsBounded
  <2> SUFFICES ASSUME TypeOK, AdriftInv
               PROVE  Cardinality({r \in Replicas : Syncing(r)}) <= 1 + severed
    BY DEF SyncsBounded
  <2>1. {r \in Replicas : Syncing(r)} \subseteq Adrift \cup {holder}
    BY DEF Adrift
  <2>2. /\ IsFiniteSet(Adrift \cup {holder})
        /\ Cardinality(Adrift \cup {holder}) \in Nat
        /\ Cardinality(Adrift \cup {holder}) <= severed + 1
    BY AdriftCount
  <2>3. Cardinality({r \in Replicas : Syncing(r)}) <= Cardinality(Adrift \cup {holder})
    BY <2>1, <2>2, FS_Subset
  <2>4. /\ Cardinality({r \in Replicas : Syncing(r)}) \in Nat
        /\ severed \in Nat
    BY <2>1, <2>2, FS_Subset, FS_CardinalityType, BoundsAssumption DEF TypeOK
  <2>5. QED
    BY <2>2, <2>3, <2>4
<1>4. QED
  BY <1>1, <1>2, <1>3, SyncTypeCorrect, PTL DEF Spec

\* So while no lock session dies under its holder, two replicas never sync at
\* the same time.
THEOREM SyncsAreSerial ==
  Spec => [](severed = 0 => \A r, s \in Replicas : Syncing(r) /\ Syncing(s) => r = s)
<1>1. SyncInv => (severed = 0 => \A r, s \in Replicas : Syncing(r) /\ Syncing(s) => r = s)
  BY DEF SyncInv, Governed
<1>2. QED
  BY <1>1, SyncInvHolds, PTL

\* The table never departs from the feed but where a change is on its way or
\* a fault accounts for it (fetch and the writes of sync).
THEOREM TableFollowsFeed == Spec => []CacheFollows
<1>1. SyncInv => CacheFollows
  BY DEF SyncInv
<1>2. QED
  BY <1>1, SyncInvHolds, PTL

\* Where nothing failed, nobody was stopped and no approval was polled for,
\* whatever upstream lists is in the table, or about to be: full snapshots and
\* deltas alternate and replicas take turns without dropping a ban.  What such a
\* run can still miss are withdrawals, which a snapshot need not repeat.
THEOREM ListedIsCopied ==
  Spec => [](Untroubled /\ severed = 0 =>
               \A d \in Listed : d \in cache \/ d \in pending \/ InFlight(d))
<1>1. Init => LossInv
  BY DEF Init, LossInv
<1>2. TypeOK /\ LossInv /\ [Next]_vars => LossInv'
  BY LossStep
<1>3. LossInv /\ CacheFollows =>
        (Untroubled /\ severed = 0 =>
           \A d \in Listed : d \in cache \/ d \in pending \/ InFlight(d))
  BY DEF LossInv, CacheFollows, Listed
<1>4. QED
  BY <1>1, <1>2, <1>3, SyncTypeCorrect, TableFollowsFeed, PTL DEF Spec

\* Recorded syncs are a minimum interval apart, whoever takes them
\* (minSyncInterval).
THEOREM SyncsAreSpaced == Spec => RecordedSpacing
<1>1. SyncInv /\ [Next]_vars =>
        [\A r \in Replicas :
           rep[r].pc = "apply" /\ syncAge' = 0
             => syncAge >= MinSync \/ rep[r].blind \/ severed > 0 \/ rep'[r] = rep[r]]_vars
  <2>1. SyncInv => severed = 0 \/ severed > 0
    BY BoundsAssumption DEF SyncInv, TypeOK
  <2>2. QED
    BY <2>1 DEF SyncInv, Governed
<1>2. QED
  BY <1>1, SyncInvHolds, PTL DEF Spec, RecordedSpacing

=============================================================================
