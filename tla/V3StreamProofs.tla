--------------------------- MODULE V3StreamProofs ---------------------------
(***************************************************************************)
(* Theorems of V3Stream, for any sharing of values among decisions.        *)
(***************************************************************************)
EXTENDS V3Stream, DecisionStreamProofs

\* Steps that tell an agent nothing.
LEMMA SilentTellsNothing ==
  V3Silent => Next /\ UNCHANGED <<told, v3Vars>>
<1>1. V3Silent => Next
  BY DEF V3Silent, Next, PullStep, PullFault
<1>2. V3Silent => UNCHANGED v3Vars
  BY DEF V3Silent
<1>3. Tick \/ TableStep => told' = told
  BY DEF Tick, TableStep, Write, CreateDecision, UpsertUpstreamDecision,
         DeleteDecision, MarkUpstreamDecisionDeleted, Sweep,
         SoftDeleteExpiredDecisions, HardDeleteAgedDecisions, Issue,
         CleanerFault, CleanerError, CleanerRestart, Commit, observerVars
<1>4. ASSUME NEW m \in Machines,
             \/ \E startup \in BOOLEAN : PullBegin(m, startup)
             \/ PullNew(m) \/ PullDeleted(m) \/ PullCursor(m)
             \/ PullBeginUnread(m) \/ PullAbort(m) \/ PullLost(m) \/ StrayPull(m)
      PROVE  told' = told
  BY <1>4 DEF Begin, PullBegin, PullBeginUnread, PullNew, PullDeleted, PullCursor,
              PullAbort, PullLost, StrayPull, observerVars
<1>5. QED
  BY <1>1, <1>2, <1>3, <1>4 DEF V3Silent

\* The v3 handler is GetDecisionStream with another rendering: for whoever
\* looks at decisions it is the v2 stream, and all the theorems of that hold.
THEOREM V3ImplementsStream == V3Spec => Spec
<1>1. V3Init => Init
  BY DEF V3Init
<1>2. [V3Next]_<<vars, v3Vars>> => [Next]_vars
  BY SilentTellsNothing DEF V3Next, V3Reply, V3AgentReplaced, Next, PullStep, PullFault
<1>3. QED
  BY <1>1, <1>2, PTL DEF V3Spec, Spec

\* Agents are told values, not uuids (the types of the observers).
THEOREM V3TypeCorrect == V3Spec => []V3TypeOK
<1> DEFINE Seen == /\ value \in [Ids -> Values]
                   /\ enforced \in [Machines -> SUBSET Values]
                   /\ struck \in [Machines -> SUBSET Ids]
<1>1. V3Init => Seen
  BY DEF V3Init
<1>2. TypeOK /\ Seen /\ [V3Next]_<<vars, v3Vars>> => Seen'
  <2> SUFFICES ASSUME TypeOK, Seen, [V3Next]_<<vars, v3Vars>> PROVE Seen'
    OBVIOUS
  <2>1. CASE V3Silent \/ UNCHANGED <<vars, v3Vars>>
    BY <2>1, SilentTellsNothing DEF v3Vars
  <2>2. ASSUME NEW m \in Machines, V3Reply(m) PROVE Seen'
    <3>1. /\ pull[m].new \subseteq Ids /\ pull[m].deleted \subseteq Ids
          /\ told[m] \subseteq Ids
      BY DEF TypeOK, Pull
    <3>2. V3Enforced(m) \subseteq Values
      BY <3>1 DEF V3Enforced, V3New, V3Deleted, ValuesOf
    <3>3. V3Struck(m) \subseteq Ids
      BY <3>1 DEF V3Struck
    <3>4. QED
      BY <2>2, <3>2, <3>3 DEF V3Reply
  <2>3. ASSUME NEW m \in Machines, V3AgentReplaced(m) PROVE Seen'
    BY <2>3 DEF V3AgentReplaced
  <2>4. QED
    BY <2>1, <2>2, <2>3 DEF V3Next
<1>3. QED
  <2>1. V3Spec => []TypeOK
    BY V3ImplementsStream, TypeCorrect, PTL
  <2>2. TypeOK /\ Seen => V3TypeOK
    BY DEF V3TypeOK
  <2> HIDE DEF Seen
  <2>3. QED
    BY <1>1, <1>2, <2>1, <2>2, PTL DEF V3Spec

\* What one machine enforces, against what it was told.
Follows(m) ==
  /\ enforced[m] \subseteq ValuesOf(told[m])
  /\ \A d \in told[m] : value[d] \in enforced[m] \/ d \in struck[m]
  /\ \A d \in struck[m] : \E e \in Ids \ {d} : value[e] = value[d]

LEMMA ReplyFollows ==
  ASSUME V3TypeOK, NEW m \in Machines, Follows(m), V3Reply(m)
  PROVE  Follows(m)'
<1>1. /\ told'[m] = After(m) /\ enforced'[m] = V3Enforced(m)
      /\ struck'[m] = V3Struck(m) /\ value' = value
  BY DEF V3Reply, PullReply, V3TypeOK, TypeOK
<1>2. pull[m].new \subseteq Ids /\ pull[m].deleted \subseteq Ids /\ told[m] \subseteq Ids
  BY DEF V3TypeOK, TypeOK, Pull
<1>3. CASE pull[m].startup
  BY <1>1, <1>3 DEF Follows, After, V3Enforced, V3Struck, V3New, ValuesOf
<1>4. CASE ~pull[m].startup
  <2>1. /\ told'[m] = (told[m] \ pull[m].deleted) \cup pull[m].new
        /\ enforced'[m] = (enforced[m] \ ValuesOf(pull[m].deleted)) \cup ValuesOf(pull[m].new)
        /\ struck'[m] =
             (struck[m] \cup {d \in told[m] : value[d] \in ValuesOf(pull[m].deleted)})
               \ (pull[m].new \cup pull[m].deleted)
    BY <1>1, <1>4 DEF After, V3Enforced, V3Struck, V3New, V3Deleted
  <2>2. ASSUME NEW v \in enforced'[m] PROVE \E d \in told'[m] : value[d] = v
    <3>1. CASE v \in ValuesOf(pull[m].new)
      BY <2>1, <3>1 DEF ValuesOf
    <3>2. CASE v \in enforced[m] /\ v \notin ValuesOf(pull[m].deleted)
      BY <2>1, <3>2 DEF Follows, ValuesOf
    <3>3. QED
      BY <2>1, <2>2, <3>1, <3>2
  <2>3. ASSUME NEW d \in told'[m] PROVE value[d] \in enforced'[m] \/ d \in struck'[m]
    <3>1. CASE d \in pull[m].new
      BY <2>1, <3>1 DEF ValuesOf
    <3>2. CASE d \in told[m] /\ d \notin pull[m].deleted /\ d \notin pull[m].new
      BY <2>1, <3>2 DEF Follows
    <3>3. QED
      BY <2>1, <2>3, <3>1, <3>2
  <2>4. ASSUME NEW d \in struck'[m] PROVE \E e \in Ids \ {d} : value[e] = value[d]
    <3>1. CASE d \in struck[m]
      BY <3>1 DEF Follows
    <3>2. CASE value[d] \in ValuesOf(pull[m].deleted) /\ d \notin pull[m].deleted
      BY <1>2, <3>2 DEF ValuesOf
    <3>3. QED
      BY <2>1, <2>4, <3>1, <3>2
  <2>5. QED
    BY <1>1, <2>2, <2>3, <2>4 DEF Follows, ValuesOf
<1>5. QED
  BY <1>3, <1>4

\* A value is enforced for a decision that was told, and a decision that was
\* told is enforced, but for those struck with another on the same value
\* (the grouping of V3DecisionStreamHandler).
THEOREM V3FollowsHolds == V3Spec => []V3Follows
<1>0. V3Follows <=> \A m \in Machines : Follows(m)
  BY DEF V3Follows, Follows
<1>1. V3Init => V3Follows
  BY DEF V3Init, Init, V3Follows, ValuesOf
<1>2. V3TypeOK /\ V3Follows /\ [V3Next]_<<vars, v3Vars>> => V3Follows'
  <2> SUFFICES ASSUME V3TypeOK, V3Follows, [V3Next]_<<vars, v3Vars>>,
                      NEW n \in Machines
               PROVE  Follows(n)'
    BY DEF V3Follows, Follows
  <2>f. Follows(n)
    BY <1>0
  <2>1. CASE V3Silent \/ UNCHANGED <<vars, v3Vars>>
    BY <2>1, <2>f, SilentTellsNothing DEF v3Vars, vars, Follows, ValuesOf
  <2>2. ASSUME NEW m \in Machines, V3Reply(m) \/ V3AgentReplaced(m), m # n
        PROVE  Follows(n)'
    <3>1. /\ told'[n] = told[n] /\ enforced'[n] = enforced[n]
          /\ struck'[n] = struck[n] /\ value' = value
      BY <2>2 DEF V3Reply, V3AgentReplaced, PullReply, AgentReplaced, V3TypeOK, TypeOK
    <3>2. QED
      BY <2>f, <3>1 DEF Follows, ValuesOf
  <2>3. CASE V3Reply(n)
    BY <2>3, <2>f, ReplyFollows
  <2>4. CASE V3AgentReplaced(n)
    BY <2>4 DEF V3AgentReplaced, AgentReplaced, V3TypeOK, TypeOK, Follows
  <2>5. QED
    BY <2>1, <2>2, <2>3, <2>4 DEF V3Next
<1>3. QED
  BY <1>1, <1>2, V3TypeCorrect, PTL DEF V3Spec

\* No value stays enforced that no decision explains (the deleted groups).
THEOREM V3WithdrawalsReach == V3Spec => []V3NoMissedWithdrawal
<1>1. V3TypeOK /\ V3Follows /\ NoMissedWithdrawal => V3NoMissedWithdrawal
  BY DEF V3TypeOK, TypeOK, V3Follows, NoMissedWithdrawal, WithdrawalsReach,
         V3NoMissedWithdrawal, ValuesOf
<1>2. V3Spec => []NoMissedWithdrawal
  BY V3ImplementsStream, WithdrawalsReachAgents, PTL
<1>3. QED
  BY <1>1, <1>2, V3TypeCorrect, V3FollowsHolds, PTL

\* A ban is only ever missing where two decisions share a value (the new
\* groups, and the deleted groups that name values).
THEOREM V3BansReach == V3Spec => []V3NoMissedBan
<1>1. V3Follows /\ NoMissedBan => V3NoMissedBan
  BY DEF V3Follows, NoMissedBan, BansReach, V3NoMissedBan
<1>2. V3Spec => []NoMissedBan
  BY V3ImplementsStream, BansReachAgents, PTL
<1>3. QED
  BY <1>1, <1>2, V3FollowsHolds, PTL

\* So a v3 agent that has pulled since the last change enforces the values of the
\* decisions in force and of no decision that is not active, where nothing was
\* lost and nothing struck with another decision.
THEOREM V3RestingTableIsMirrored ==
  V3Spec => [](\A m \in Machines : CaughtUp(m) /\ lost[m] = {} /\ struck[m] = {} =>
                 /\ ValuesOf({d \in Ids : InForce(d)}) \subseteq enforced[m]
                 /\ enforced[m] \subseteq ValuesOf({d \in Ids : Active(rows[d])}))
<1> DEFINE Mirrored(m) ==
      /\ {d \in Ids : InForce(d)} \subseteq told[m] \cup lost[m]
      /\ told[m] \subseteq {d \in Ids : Active(rows[d])} \cup lost[m]
<1>1. V3TypeOK /\ V3Follows /\ (\A m \in Machines : CaughtUp(m) => Mirrored(m)) =>
        \A m \in Machines : CaughtUp(m) /\ lost[m] = {} /\ struck[m] = {} =>
          /\ ValuesOf({d \in Ids : InForce(d)}) \subseteq enforced[m]
          /\ enforced[m] \subseteq ValuesOf({d \in Ids : Active(rows[d])})
  BY DEF V3Follows, ValuesOf
<1>2. V3Spec => [](\A m \in Machines : CaughtUp(m) => Mirrored(m))
  BY V3ImplementsStream, RestingTableIsMirrored, PTL
<1> HIDE DEF Mirrored
<1>3. QED
  BY <1>1, <1>2, V3TypeCorrect, V3FollowsHolds, PTL

=============================================================================
