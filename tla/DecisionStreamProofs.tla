------------------------ MODULE DecisionStreamProofs ------------------------
(***************************************************************************)
(* Theorems of DecisionStream, for all machines, decisions, sessions,      *)
(* lifetimes, retention periods and bounds.                                *)
(***************************************************************************)
EXTENDS DecisionStream, TLAPS

-----------------------------------------------------------------------------
(* Types                                                                   *)

\* What a write makes of a row is a row.
LEMMA WrittenType ==
  ASSUME NEW q \in Statement, NEW r \in Row
  PROVE  Written(q, r) \in Row
<1>1. q.stamp \in Nat /\ q.expires \in Int
  BY DEF Statement
<1>2. CASE q.op \in Activating
  BY <1>1, <1>2 DEF Written, Row
<1>3. CASE q.op \notin Activating /\ q.op \in Withdrawing
  <2>1. [r EXCEPT !.state = "deleted", !.updated_at = q.stamp, !.deleted_at = q.stamp] \in Row
    BY <1>1 DEF Row
  <2>2. QED
    BY <1>3, <2>1 DEF Written
<1>4. CASE q.op \notin Activating /\ q.op \notin Withdrawing
  BY <1>4 DEF Written, Row, NoRow
<1>5. QED
  BY <1>2, <1>3, <1>4

\* Issuing a write keeps stmt well typed, for targets and a lifetime that are.
LEMMA IssueType ==
  ASSUME TypeOK, NEW s \in Sessions,
         NEW op \in {"none", "purge"} \cup Activating \cup Withdrawing,
         NEW targets \in SUBSET Ids, NEW expires \in Int,
         Issue(s, op, targets, expires)
  PROVE  stmt' \in [Sessions -> Statement]
BY DEF TypeOK, Issue, Statement

\* A write that sets no lifetime.
LEMMA IssueEndlessType ==
  ASSUME TypeOK, NEW s \in Sessions,
         NEW op \in {"none", "purge"} \cup Activating \cup Withdrawing,
         NEW targets \in SUBSET Ids,
         Issue(s, op, targets, 0)
  PROVE  stmt' \in [Sessions -> Statement]
<1>1. 0 \in Int
  OBVIOUS
<1>2. QED
  BY <1>1, IssueType

\* Beginning a pull keeps pull well typed.
LEMMA BeginType ==
  ASSUME TypeOK, NEW m \in Machines, NEW startup \in BOOLEAN, NEW full \in BOOLEAN,
         Begin(m, startup, full)
  PROVE  pull' \in [Machines -> Pull]
BY DEF Begin, TypeOK, Pull, NoPull

\* What the statements of a pull make of its record.
LEMMA PullChange ==
  ASSUME NEW p \in Pull, NEW pc \in {"new", "deleted", "cursor", "reply"},
         NEW new \in SUBSET Ids, NEW more \in SUBSET Ids
  PROVE  /\ [p EXCEPT !.new = new, !.pc = pc, !.raced = p.raced \cup more] \in Pull
         /\ [p EXCEPT !.deleted = new, !.pc = pc] \in Pull
         /\ [p EXCEPT !.pc = pc] \in Pull
         /\ [p EXCEPT !.raced = @ \cup more] \in Pull
<1>1. p.raced \cup more \in SUBSET Ids
  BY DEF Pull
<1>2. [p EXCEPT !.new = new, !.pc = pc, !.raced = p.raced \cup more] \in Pull
  BY <1>1 DEF Pull
<1>3. [p EXCEPT !.deleted = new, !.pc = pc] \in Pull
  BY DEF Pull
<1>4. [p EXCEPT !.pc = pc] \in Pull
  BY DEF Pull
<1>5. [p EXCEPT !.raced = @ \cup more] \in Pull
  BY <1>1 DEF Pull
<1>6. QED
  BY <1>2, <1>3, <1>4, <1>5

\* Every variable keeps its type: timestamps stay natural numbers, lists stay
\* sets of decisions (all of DecisionStream's actions).
THEOREM TypeCorrect == Spec => []TypeOK
<1>1. Init => TypeOK
  BY DEF Init, TypeOK, Row, NoRow, Statement, NoStatement, Pull, NoPull
<1>2. TypeOK /\ [Next]_vars => TypeOK'
  <2> SUFFICES ASSUME TypeOK, [Next]_vars PROVE TypeOK'
    OBVIOUS
  <2>1. CASE Tick
    BY <2>1 DEF Tick, TypeOK, serverVars, observerVars
  <2>2. ASSUME NEW w \in Writers, Write(w) PROVE TypeOK'
    <3>w. w \in Sessions
      BY DEF Sessions
    <3>d. \A duration \in Durations : now + duration \in Int
      BY TimeAssumption DEF TypeOK
    <3>1. CASE CreateDecision(w)
      BY <3>1, <3>w, <3>d, IssueType DEF CreateDecision, Issue, TypeOK, Ids, Activating
    <3>2. CASE UpsertUpstreamDecision(w)
      BY <3>2, <3>w, <3>d, IssueType DEF UpsertUpstreamDecision, Issue, TypeOK, Ids, Activating
    <3>3. CASE DeleteDecision(w)
      <4>1. PICK d \in Ids : Issue(w, "delete", {d}, 0) /\ UNCHANGED <<minted, sweep>>
        BY <3>3 DEF DeleteDecision, Ids
      <4>2. stmt' \in [Sessions -> Statement]
        BY <3>w, <4>1, IssueEndlessType DEF Withdrawing
      <4>3. QED
        BY <4>1, <4>2 DEF Issue, TypeOK
    <3>4. CASE MarkUpstreamDecisionDeleted(w)
      <4>1. PICK d \in Ids : Issue(w, "mark", {d}, 0) /\ UNCHANGED <<minted, sweep>>
        BY <3>4 DEF MarkUpstreamDecisionDeleted, Ids
      <4>2. stmt' \in [Sessions -> Statement]
        BY <3>w, <4>1, IssueEndlessType DEF Withdrawing
      <4>3. QED
        BY <4>1, <4>2 DEF Issue, TypeOK
    <3>5. QED
      BY <2>2, <3>1, <3>2, <3>3, <3>4 DEF Write
  <2>3. ASSUME NEW c \in Cleaners, Sweep(c) \/ CleanerFault(c) PROVE TypeOK'
    <3>c. c \in Sessions
      BY DEF Sessions
    <3>1. CASE SoftDeleteExpiredDecisions(c)
      BY <3>1, <3>c, IssueEndlessType DEF SoftDeleteExpiredDecisions, Issue, TypeOK, Withdrawing
    <3>2. CASE HardDeleteAgedDecisions(c)
      BY <3>2, <3>c, IssueEndlessType DEF HardDeleteAgedDecisions, Issue, TypeOK
    <3>3. CASE CleanerError(c)
      BY <3>3, <3>c DEF CleanerError, TypeOK, Statement, NoStatement
    <3>4. CASE CleanerRestart(c)
      BY <3>4, <3>c DEF CleanerRestart, TypeOK, Statement, NoStatement
    <3>5. QED
      BY <2>3, <3>1, <3>2, <3>3, <3>4 DEF Sweep, CleanerFault
  <2>4. ASSUME NEW s \in Sessions, Commit(s) PROVE TypeOK'
    <3> DEFINE q == stmt[s]
               hit == {d \in q.targets : Where(q.op, rows[d], q.stamp)}
    <3>1. q \in Statement
      BY DEF TypeOK
    <3>2. hit \subseteq Ids
      BY <3>1 DEF Statement
    <3>3. rows' \in [Ids -> Row]
      BY <2>4, <3>1, WrittenType DEF Commit, TypeOK
    <3>4. stmt' \in [Sessions -> Statement]
      BY <2>4 DEF Commit, TypeOK, Statement, NoStatement
    <3>5. lost' \in [Machines -> SUBSET Ids]
      BY <2>4, <3>2 DEF Commit, TypeOK, MissedByTold
    <3>6. pull' \in [Machines -> Pull]
      <4>1. \A m \in Machines : MissedByAnswer(m, q, hit) \subseteq Ids
        BY <3>2 DEF MissedByAnswer
      <4>2. pull' = [m \in Machines |->
                      [pull[m] EXCEPT !.raced = @ \cup MissedByAnswer(m, q, hit)]]
        BY <2>4 DEF Commit
      <4>3. ASSUME NEW m \in Machines, NEW more \in SUBSET Ids
            PROVE  [pull[m] EXCEPT !.raced = @ \cup more] \in Pull
        <5>1. pull[m] \in Pull
          BY DEF TypeOK
        <5>2. QED
          BY <5>1, PullChange
      <4> HIDE DEF q, hit
      <4>4. QED
        BY <4>1, <4>2, <4>3
    <3>7. QED
      BY <2>4, <3>3, <3>4, <3>5, <3>6 DEF Commit, TypeOK
  <2>5. ASSUME NEW m \in Machines, NEW startup \in BOOLEAN, PullBegin(m, startup)
        PROVE TypeOK'
    BY <2>5, BeginType DEF PullBegin, Begin, TypeOK, serverVars, observerVars
  <2>6. ASSUME NEW m \in Machines, PullStep(m) \/ PullFault(m) PROVE TypeOK'
    <3>m. pull[m] \in Pull
      BY DEF TypeOK
    <3>1. CASE PullNew(m)
      <4> DEFINE new == {d \in Ids : /\ InForce(d)
                                     /\ pull[m].full \/ rows[d].updated_at > pull[m].since}
             pc == IF pull[m].full THEN "cursor" ELSE "deleted"
             more == LeftOut(m)
      <4>1. pull' = [pull EXCEPT ![m] = [pull[m] EXCEPT !.new = new, !.pc = pc,
                                                        !.raced = pull[m].raced \cup more]]
        BY <3>1 DEF PullNew
      <4>n. new \subseteq Ids /\ pc \in {"cursor", "deleted"} /\ more \subseteq Ids
        BY DEF LeftOut, TypeOK
      <4> HIDE DEF new, pc, more
      <4>p. [pull[m] EXCEPT !.new = new, !.pc = pc, !.raced = pull[m].raced \cup more] \in Pull
        BY <3>m, <4>n, PullChange
      <4>2. pull' \in [Machines -> Pull]
        BY <4>1, <4>p DEF TypeOK
      <4>3. QED
        BY <3>1, <4>2 DEF PullNew, TypeOK, serverVars, observerVars
    <3>2. CASE PullDeleted(m)
      <4> DEFINE deleted == {d \in Ids : /\ rows[d].state = "deleted"
                                         /\ rows[d].deleted_at > pull[m].since}
      <4>1. pull' = [pull EXCEPT ![m] = [pull[m] EXCEPT !.deleted = deleted, !.pc = "cursor"]]
        BY <3>2 DEF PullDeleted
      <4>d. deleted \subseteq Ids
        OBVIOUS
      <4> HIDE DEF deleted
      <4>p. [pull[m] EXCEPT !.deleted = deleted, !.pc = "cursor"] \in Pull
        BY <3>m, <4>d, PullChange
      <4>2. pull' \in [Machines -> Pull]
        BY <4>1, <4>p DEF TypeOK
      <4>3. QED
        BY <3>2, <4>2 DEF PullDeleted, TypeOK, serverVars, observerVars
    <3>3. CASE PullCursor(m)
      <4>1. [pull[m] EXCEPT !.pc = "reply"] \in Pull
        BY <3>m, PullChange
      <4>2. pull' = [pull EXCEPT ![m] = [pull[m] EXCEPT !.pc = "reply"]]
        BY <3>3 DEF PullCursor
      <4>3. pull' \in [Machines -> Pull]
        BY <4>1, <4>2 DEF TypeOK
      <4>4. QED
        BY <3>3, <4>3 DEF PullCursor, TypeOK, serverVars, observerVars
    <3>4. CASE PullReply(m)
      <4>1. After(m) \subseteq Ids /\ LostAfter(m) \subseteq Ids
        BY DEF TypeOK, Pull, After, LostAfter
      <4>2. NoPull \in Pull
        BY DEF NoPull, Pull
      <4>3. QED
        BY <3>4, <4>1, <4>2 DEF PullReply, TypeOK, serverVars
    <3>5. CASE PullAbort(m)
      BY <3>5 DEF PullAbort, TypeOK, Pull, NoPull, serverVars, observerVars
    <3>6. CASE PullLost(m)
      <4>1. /\ pull[m].new \subseteq Ids /\ pull[m].deleted \subseteq Ids
            /\ pull[m].raced \subseteq Ids
        BY DEF TypeOK, Pull
      <4>2. NoPull \in Pull
        BY DEF NoPull, Pull
      <4>3. QED
        BY <3>6, <4>1, <4>2 DEF PullLost, TypeOK, serverVars
    <3>7. CASE StrayPull(m)
      <4>1. Stale(told[m]) \subseteq Ids /\ Stale(After(m)) \subseteq Ids
        BY DEF Stale
      <4>2. ASSUME NEW more \in SUBSET Ids
            PROVE  [pull[m] EXCEPT !.raced = @ \cup more] \in Pull
        BY <3>m, PullChange
      <4>3. \/ pull' = pull
            \/ pull' = [pull EXCEPT ![m] = [pull[m] EXCEPT !.raced = @ \cup Stale(After(m))]]
        BY <3>7 DEF StrayPull
      <4>4. pull' \in [Machines -> Pull]
        <5> DEFINE more == Stale(After(m))
        <5>1. pull' = pull \/ pull' = [pull EXCEPT ![m] = [pull[m] EXCEPT !.raced = @ \cup more]]
          BY <4>3
        <5>2. [pull[m] EXCEPT !.raced = @ \cup more] \in Pull
          BY <4>1, <4>2
        <5> HIDE DEF more
        <5>3. QED
          BY <5>1, <5>2 DEF TypeOK
      <4>5. QED
        BY <3>7, <4>1, <4>4 DEF StrayPull, TypeOK, serverVars
    <3>8. CASE AgentReplaced(m)
      BY <3>8 DEF AgentReplaced, TypeOK, serverVars
    <3>9. CASE PullBeginUnread(m)
      <4>1. Begin(m, FALSE, TRUE) /\ faults' = faults + 1
        BY <3>9 DEF PullBeginUnread
      <4>2. pull' \in [Machines -> Pull]
        BY <4>1, BeginType
      <4>3. QED
        BY <4>1, <4>2 DEF Begin, TypeOK, serverVars, observerVars
    <3>10. QED
      BY <2>6, <3>1, <3>2, <3>3, <3>4, <3>5, <3>6, <3>7, <3>8, <3>9 DEF PullStep, PullFault
  <2>7. CASE UNCHANGED vars
    BY <2>7 DEF vars, TypeOK
  <2>8. QED
    BY <2>1, <2>2, <2>3, <2>4, <2>5, <2>6, <2>7 DEF Next, TableStep
<1>3. QED
  BY <1>1, <1>2, PTL DEF Spec

-----------------------------------------------------------------------------
(* The stream invariant                                                    *)

\* The share of one machine in StreamInv.
MachineInv(m) ==
  /\ NewListRight(m)
  /\ AnswerRight(m)
  /\ pull[m].pc # "reply" => /\ WithdrawalsReach(told[m], lost[m], cursor[m])
                             /\ BansReach(told[m], lost[m], cursor[m])

LEMMA MachineByMachine ==
  StreamInv <=> StampsPast /\ \A m \in Machines : MachineInv(m)
BY DEF StreamInv, MachineInv, NoMissedWithdrawal, NoMissedBan

\* A step that changes neither the rows nor the clock nor anything of m.
LEMMA MachineFrame ==
  ASSUME NEW m \in Machines, MachineInv(m), rows' = rows, now' = now,
         cursor'[m] = cursor[m], pull'[m] = pull[m],
         told'[m] = told[m], lost'[m] = lost[m]
  PROVE  MachineInv(m)'
BY DEF MachineInv, NewListRight, AnswerRight, WithdrawalsReach, BansReach,
       After, LostAfter, Horizon, InForce, Active

\* The clock only moves decisions out of force.
LEMMA TickStep ==
  ASSUME TypeOK, StreamInv, Tick
  PROVE  StreamInv'
<1>1. /\ now' = now + 1 /\ now \in Nat /\ rows' = rows /\ stmt' = stmt
      /\ cursor' = cursor /\ pull' = pull /\ told' = told /\ lost' = lost
  BY DEF Tick, TypeOK, serverVars, observerVars
<1>2. StampsPast'
  BY <1>1 DEF StreamInv, StampsPast, TypeOK, Statement, Row
<1>3. \A d \in Ids : InForce(d)' => InForce(d)
  BY <1>1 DEF InForce, Active, TypeOK, Row
<1>4. ASSUME NEW m \in Machines PROVE MachineInv(m)'
  <2>1. MachineInv(m)
    BY MachineByMachine
  <2>2. NewListRight(m)'
    BY <1>1, <1>3, <2>1 DEF MachineInv, NewListRight, Active
  <2>3. AnswerRight(m)'
    <3>1. After(m)' = After(m) /\ LostAfter(m)' = LostAfter(m)
      BY <1>1 DEF After, LostAfter
    <3>2. \A d \in Ids : ~(rows[d].updated_at > now) /\ ~(rows[d].deleted_at > now)
      BY DEF StreamInv, StampsPast, TypeOK, Row
    <3>3. After(m) \subseteq Ids
      BY DEF TypeOK, Pull, After
    <3>4. QED
      BY <1>1, <1>3, <2>1, <3>1, <3>2, <3>3
         DEF MachineInv, AnswerRight, WithdrawalsReach, BansReach, Horizon, Active
  <2>4. pull[m].pc # "reply" =>
          /\ WithdrawalsReach(told[m], lost[m], cursor[m])'
          /\ BansReach(told[m], lost[m], cursor[m])'
    BY <1>1, <1>3, <2>1 DEF MachineInv, WithdrawalsReach, BansReach, Active
  <2>5. QED
    BY <1>1, <2>2, <2>3, <2>4 DEF MachineInv
<1>5. QED
  BY <1>2, <1>4, MachineByMachine DEF StreamInv, MachineInv, NoMissedWithdrawal, NoMissedBan

\* Issuing a write changes stmt only, and stamps it with the present.
LEMMA IssueStep ==
  ASSUME TypeOK, StreamInv, NEW s \in Sessions, NEW op, NEW targets, NEW expires,
         Issue(s, op, targets, expires)
  PROVE  StreamInv'
<1>1. StampsPast'
  BY DEF Issue, StreamInv, StampsPast, TypeOK
<1>2. \A m \in Machines : MachineInv(m)'
  BY MachineFrame, MachineByMachine DEF Issue
<1>3. QED
  BY <1>1, <1>2 DEF StreamInv, MachineInv, NoMissedWithdrawal, NoMissedBan

\* A cleaner that fails or restarts drops its statement.
LEMMA CleanerFaultStep ==
  ASSUME TypeOK, StreamInv, NEW c \in Cleaners, CleanerFault(c)
  PROVE  StreamInv'
<1>1. /\ stmt' = [stmt EXCEPT ![c] = NoStatement]
      /\ UNCHANGED <<now, rows, cursor, pull, told, lost>>
  BY DEF CleanerFault, CleanerError, CleanerRestart
<1>2. StampsPast'
  BY <1>1 DEF StreamInv, StampsPast, TypeOK, NoStatement
<1>3. \A m \in Machines : MachineInv(m)'
  BY <1>1, MachineFrame, MachineByMachine
<1>4. QED
  BY <1>2, <1>3 DEF StreamInv, MachineInv, NoMissedWithdrawal, NoMissedBan

\* The steps of a pull keep the invariant of the machine that pulls.
LEMMA BeginStep ==
  ASSUME TypeOK, NEW m \in Machines, NEW startup \in BOOLEAN, NEW full \in BOOLEAN,
         startup => full, MachineInv(m), Begin(m, startup, full)
  PROVE  MachineInv(m)'
<1>1. /\ pull'[m].pc = "new" /\ pull[m].pc = "idle"
      /\ pull'[m].startup = startup /\ pull'[m].full = full
  BY DEF Begin, NoPull, TypeOK
<1>2. UNCHANGED <<now, rows, cursor, told, lost>>
  BY DEF Begin, serverVars, observerVars
<1>3. QED
  BY <1>1, <1>2 DEF MachineInv, NewListRight, AnswerRight, WithdrawalsReach,
                    BansReach, InForce, Active

LEMMA PullBeginStep ==
  ASSUME TypeOK, NEW m \in Machines, MachineInv(m),
         (\E startup \in BOOLEAN : PullBegin(m, startup)) \/ PullBeginUnread(m)
  PROVE  MachineInv(m)'
<1>1. PICK startup \in BOOLEAN, full \in BOOLEAN :
        (startup => full) /\ Begin(m, startup, full)
  BY DEF PullBegin, PullBeginUnread
<1>2. QED
  BY <1>1, BeginStep

\* A full list is right for who asked for it and for who did not, but that the
\* latter is not told of the withdrawals in LeftOut.
LEMMA PullNewStep ==
  ASSUME TypeOK, NEW m \in Machines, MachineInv(m), PullNew(m)
  PROVE  MachineInv(m)'
<1> DEFINE new == {d \in Ids : /\ InForce(d)
                               /\ pull[m].full \/ rows[d].updated_at > pull[m].since}
<1>1. /\ pull'[m].new = new
      /\ pull'[m].since = pull[m].since
      /\ pull'[m].startup = pull[m].startup
      /\ pull'[m].full = pull[m].full
      /\ pull'[m].deleted = pull[m].deleted
      /\ pull'[m].raced = pull[m].raced \cup LeftOut(m)
      /\ pull'[m].pc = IF pull[m].full THEN "cursor" ELSE "deleted"
      /\ pull[m].pc = "new"
  <2>1. pull[m] \in Pull /\ pull \in [Machines -> Pull]
    BY DEF TypeOK
  <2>2. QED
    BY <2>1 DEF PullNew, Pull
<1>2. UNCHANGED <<now, rows, cursor, told, lost>>
  BY DEF PullNew, serverVars, observerVars
<1>3. NewListRight(m)'
  BY <1>1, <1>2 DEF MachineInv, NewListRight, InForce, Active
<1>4. AnswerRight(m)'
  <2> SUFFICES ASSUME pull[m].full PROVE AnswerRight(m)'
    BY <1>1 DEF AnswerRight
  <2>1. /\ new \subseteq After(m)'
        /\ After(m)' \subseteq new \cup told[m]
        /\ pull[m].startup => After(m)' = new
        /\ LeftOut(m) \subseteq LostAfter(m)'
    BY <1>1, <1>2 DEF After, LostAfter
  <2>2. \A d \in Ids : InForce(d)' => d \in new
    BY <1>2 DEF InForce, Active
  <2>3. ASSUME NEW d \in After(m)' PROVE Active(rows[d]) \/ d \in LostAfter(m)'
    <3>1. CASE d \in new
      BY <3>1 DEF InForce
    <3>2. CASE d \notin new
      <4>1. d \in told[m] /\ ~pull[m].startup
        BY <2>1, <3>2
      <4>2. QED
        BY <2>1, <4>1 DEF LeftOut
    <3>3. QED
      BY <3>1, <3>2
  <2> HIDE DEF new
  <2>4. QED
    BY <1>2, <2>1, <2>2, <2>3 DEF AnswerRight, WithdrawalsReach, BansReach, Active
<1>5. QED
  BY <1>1, <1>2, <1>3, <1>4 DEF MachineInv, WithdrawalsReach, BansReach, InForce, Active

LEMMA PullDeletedStep ==
  ASSUME TypeOK, StampsPast, NEW m \in Machines, MachineInv(m), PullDeleted(m)
  PROVE  MachineInv(m)'
<1> DEFINE deleted == {d \in Ids : /\ rows[d].state = "deleted"
                                   /\ rows[d].deleted_at > pull[m].since}
<1>1. /\ pull'[m].new = pull[m].new
      /\ pull'[m].deleted = deleted
      /\ pull'[m].startup = pull[m].startup
      /\ pull'[m].full = pull[m].full
      /\ pull'[m].raced = pull[m].raced
      /\ pull'[m].pc = "cursor"
      /\ pull[m].pc = "deleted"
  <2>1. pull[m] \in Pull /\ pull \in [Machines -> Pull]
    BY DEF TypeOK
  <2>2. QED
    BY <2>1 DEF PullDeleted, Pull
<1>2. UNCHANGED <<now, rows, cursor, told, lost>>
  BY DEF PullDeleted, serverVars, observerVars
<1>3. /\ ~pull[m].full /\ ~pull[m].startup
      /\ \A d \in pull[m].new : Active(rows[d]) \/ d \in pull[m].raced
      /\ \A d \in Ids : InForce(d) /\ rows[d].updated_at > pull[m].since
                         => d \in pull[m].new \cup pull[m].raced
  BY <1>1 DEF MachineInv, NewListRight
<1>s. \A d \in Ids : /\ rows[d].updated_at > cursor[m] => rows[d].updated_at > pull[m].since
                     /\ rows[d].deleted_at > cursor[m] => rows[d].deleted_at > pull[m].since
  <2>1. pull[m].since <= cursor[m] /\ pull[m].since \in Nat /\ cursor[m] \in Nat
    BY DEF StampsPast, TypeOK, Pull
  <2>2. \A d \in Ids : rows[d].updated_at \in Nat /\ rows[d].deleted_at \in Nat
    BY DEF TypeOK, Row
  <2>3. QED
    BY <2>1, <2>2
<1>4. /\ WithdrawalsReach(told[m], lost[m], cursor[m])
      /\ BansReach(told[m], lost[m], cursor[m])
  BY <1>1 DEF MachineInv
<1>5. /\ After(m)' = (told[m] \ deleted) \cup pull[m].new
      /\ LostAfter(m)' = (lost[m] \ (pull[m].new \cup deleted)) \cup pull[m].raced
  BY <1>1, <1>2, <1>3 DEF After, LostAfter
<1>6. told[m] \subseteq Ids /\ pull[m].new \subseteq Ids
  BY DEF TypeOK, Pull
<1>7. AnswerRight(m)'
  <2>1. ASSUME NEW d \in After(m)' PROVE Active(rows[d]) \/ d \in LostAfter(m)'
    BY <1>3, <1>s, <1>4, <1>5, <1>6, <2>1 DEF WithdrawalsReach
  <2>2. ASSUME NEW d \in Ids, InForce(d) PROVE d \in After(m)' \cup LostAfter(m)'
    <3>1. rows[d].state # "deleted"
      BY <2>2 DEF InForce, Active
    <3>2. QED
      BY <1>3, <1>s, <1>4, <1>5, <2>2, <3>1 DEF BansReach
  <2>3. \A d \in Ids : InForce(d)' => InForce(d)
    BY <1>2 DEF InForce, Active
  <2>4. QED
    BY <1>2, <2>1, <2>2, <2>3 DEF AnswerRight, WithdrawalsReach, BansReach, Active
<1>8. QED
  BY <1>1, <1>2, <1>3, <1>4, <1>7 DEF MachineInv, NewListRight, WithdrawalsReach, BansReach,
                                      InForce, Active

LEMMA PullCursorStep ==
  ASSUME TypeOK, NEW m \in Machines, MachineInv(m), PullCursor(m)
  PROVE  MachineInv(m)'
<1>1. /\ pull[m].pc = "cursor" /\ pull'[m] = [pull[m] EXCEPT !.pc = "reply"]
      /\ cursor'[m] = now
      /\ UNCHANGED <<now, rows, told, lost>>
  BY DEF PullCursor, TypeOK, serverVars, observerVars
<1>2. /\ pull'[m].pc = "reply" /\ After(m)' = After(m) /\ LostAfter(m)' = LostAfter(m)
      /\ pull'[m].startup = pull[m].startup /\ pull'[m].full = pull[m].full
  BY <1>1 DEF After, LostAfter, TypeOK, Pull
<1>3. QED
  BY <1>1, <1>2 DEF MachineInv, NewListRight, AnswerRight, WithdrawalsReach,
                    BansReach, Horizon, InForce, Active

LEMMA PullReplyStep ==
  ASSUME TypeOK, NEW m \in Machines, MachineInv(m), PullReply(m)
  PROVE  MachineInv(m)'
<1>1. /\ pull[m].pc = "reply" /\ pull'[m].pc = "idle" /\ ~pull'[m].startup
      /\ told'[m] = After(m) /\ lost'[m] = LostAfter(m)
      /\ UNCHANGED <<now, rows, cursor>>
  BY DEF PullReply, TypeOK, NoPull, serverVars
<1>2. QED
  BY <1>1 DEF MachineInv, NewListRight, AnswerRight, WithdrawalsReach,
              BansReach, Horizon, InForce, Active

LEMMA PullAbortStep ==
  ASSUME TypeOK, NEW m \in Machines, MachineInv(m), PullAbort(m)
  PROVE  MachineInv(m)'
<1>1. /\ pull[m].pc # "reply" /\ pull'[m].pc = "idle" /\ ~pull'[m].startup
      /\ UNCHANGED <<now, rows, cursor, told, lost>>
  BY DEF PullAbort, TypeOK, NoPull, serverVars, observerVars
<1>2. QED
  BY <1>1 DEF MachineInv, NewListRight, AnswerRight, WithdrawalsReach,
              BansReach, InForce, Active

\* A lost answer leaves in doubt exactly what it would have told.
LEMMA PullLostStep ==
  ASSUME TypeOK, NEW m \in Machines, MachineInv(m), PullLost(m)
  PROVE  MachineInv(m)'
<1>1. /\ pull[m].pc = "reply" /\ pull'[m].pc = "idle" /\ ~pull'[m].startup
      /\ UNCHANGED <<now, rows, cursor, told>>
  BY DEF PullLost, TypeOK, NoPull, serverVars
<1>2. lost'[m] = IF pull[m].startup THEN Ids
                 ELSE lost[m] \cup pull[m].new \cup pull[m].deleted \cup pull[m].raced
  BY DEF PullLost, TypeOK
<1>3. told[m] \subseteq Ids
  BY DEF TypeOK
<1>4. /\ WithdrawalsReach(After(m), LostAfter(m), cursor[m])
      /\ BansReach(After(m), LostAfter(m), cursor[m])
  BY <1>1 DEF MachineInv, AnswerRight, Horizon
<1>5. /\ WithdrawalsReach(told[m], lost'[m], cursor[m])
      /\ BansReach(told[m], lost'[m], cursor[m])
  BY <1>2, <1>3, <1>4 DEF WithdrawalsReach, BansReach, After, LostAfter
<1>6. QED
  BY <1>1, <1>5 DEF MachineInv, NewListRight, AnswerRight, WithdrawalsReach,
                    BansReach, InForce, Active

LEMMA StrayPullStep ==
  ASSUME TypeOK, NEW m \in Machines, MachineInv(m), StrayPull(m)
  PROVE  MachineInv(m)'
<1>1. /\ UNCHANGED <<now, rows, told>> /\ cursor'[m] = now
      /\ lost'[m] = lost[m] \cup Stale(told[m])
  BY DEF StrayPull, TypeOK, serverVars
<1>2. /\ pull'[m].pc = pull[m].pc /\ pull'[m].full = pull[m].full
      /\ pull'[m].startup = pull[m].startup
      /\ pull'[m].new = pull[m].new /\ pull'[m].deleted = pull[m].deleted
      /\ pull'[m].since = pull[m].since
      /\ pull[m].raced \subseteq pull'[m].raced
      /\ pull[m].pc = "reply" => Stale(After(m)) \subseteq pull'[m].raced
  <2>1. pull[m] \in Pull /\ pull \in [Machines -> Pull]
    BY DEF TypeOK
  <2>2. CASE pull[m].pc # "reply"
    BY <2>2 DEF StrayPull
  <2>3. CASE pull[m].pc = "reply"
    <3>1. pull'[m] = [pull[m] EXCEPT !.raced = @ \cup Stale(After(m))]
      BY <2>1, <2>3 DEF StrayPull
    <3>2. QED
      BY <2>1, <3>1 DEF Pull
  <2>4. QED
    BY <2>2, <2>3
<1>3. After(m)' = After(m) /\ LostAfter(m) \subseteq LostAfter(m)'
  BY <1>1, <1>2 DEF After, LostAfter
<1>4. told[m] \subseteq Ids /\ After(m) \subseteq Ids
  BY DEF TypeOK, Pull, After
<1>5. NewListRight(m)'
  BY <1>1, <1>2 DEF MachineInv, NewListRight, InForce, Active
<1>6. AnswerRight(m)'
  <2>1. CASE pull[m].pc = "reply"
    <3>1. Stale(After(m)) \subseteq LostAfter(m)'
      BY <1>2, <2>1 DEF LostAfter
    <3>2. QED
      BY <1>1, <1>3, <1>4, <3>1 DEF AnswerRight, WithdrawalsReach, BansReach, Stale,
                                    InForce, Active
  <2>2. CASE pull[m].pc = "cursor"
    BY <1>1, <1>2, <1>3, <2>2 DEF MachineInv, AnswerRight, WithdrawalsReach, BansReach,
                                  Horizon, InForce, Active
  <2>3. QED
    BY <1>2, <2>1, <2>2 DEF AnswerRight
<1>7. /\ WithdrawalsReach(told[m], lost[m], cursor[m])'
      /\ BansReach(told[m], lost[m], cursor[m])'
  BY <1>1, <1>4 DEF WithdrawalsReach, BansReach, Stale, InForce, Active
<1>8. QED
  BY <1>5, <1>6, <1>7 DEF MachineInv

LEMMA AgentReplacedStep ==
  ASSUME TypeOK, NEW m \in Machines, MachineInv(m), AgentReplaced(m)
  PROVE  MachineInv(m)'
BY DEF AgentReplaced, MachineInv, NewListRight, AnswerRight, WithdrawalsReach,
       BansReach, TypeOK, serverVars

\* What the steps of one machine's pull leave alone.
LEMMA PullFrame ==
  ASSUME TypeOK, NEW m \in Machines,
         \/ \E startup \in BOOLEAN : PullBegin(m, startup)
         \/ PullStep(m)
         \/ PullFault(m)
  PROVE  /\ UNCHANGED <<now, rows, stmt>>
         /\ \A n \in Machines \ {m} :
              /\ cursor'[n] = cursor[n] /\ pull'[n] = pull[n]
              /\ told'[n] = told[n] /\ lost'[n] = lost[n]
         /\ cursor'[m] \in {cursor[m], now}
         /\ pull'[m].since \in {0, pull[m].since, cursor[m]}
<1>t. pull[m] \in Pull /\ pull \in [Machines -> Pull] /\ cursor \in [Machines -> Nat]
      /\ told \in [Machines -> SUBSET Ids] /\ lost \in [Machines -> SUBSET Ids]
  BY DEF TypeOK
<1>1. ASSUME NEW startup \in BOOLEAN, NEW full \in BOOLEAN, Begin(m, startup, full)
      PROVE  /\ UNCHANGED <<now, rows, stmt, cursor, told, lost>>
             /\ \A n \in Machines \ {m} : pull'[n] = pull[n]
             /\ pull'[m].since \in {0, cursor[m]}
  BY <1>1, <1>t DEF Begin, NoPull, serverVars, observerVars
<1>b. CASE \E startup \in BOOLEAN : PullBegin(m, startup)
  <2>1. PICK startup \in BOOLEAN, full \in BOOLEAN : Begin(m, startup, full)
    BY <1>b DEF PullBegin
  <2>2. QED
    BY <1>1, <2>1
<1>2. CASE PullNew(m)
  BY <1>2, <1>t DEF PullNew, Pull, serverVars, observerVars
<1>3. CASE PullDeleted(m)
  BY <1>3, <1>t DEF PullDeleted, Pull, serverVars, observerVars
<1>4. CASE PullCursor(m)
  BY <1>4, <1>t DEF PullCursor, Pull, serverVars, observerVars
<1>5. CASE PullReply(m) \/ PullAbort(m) \/ PullLost(m)
  BY <1>5, <1>t DEF PullReply, PullAbort, PullLost, NoPull, serverVars, observerVars
<1>6. CASE StrayPull(m)
  BY <1>6, <1>t DEF StrayPull, Pull, serverVars
<1>7. CASE AgentReplaced(m)
  BY <1>7, <1>t DEF AgentReplaced, serverVars
<1>8. CASE PullBeginUnread(m)
  BY <1>1, <1>8 DEF PullBeginUnread
<1>9. QED
  BY <1>b, <1>2, <1>3, <1>4, <1>5, <1>6, <1>7, <1>8 DEF PullStep, PullFault

Hit(q) == {d \in q.targets : Where(q.op, rows[d], q.stamp)}

\* What a commit makes of each row, by the kind of write.
LEMMA CommitRows ==
  ASSUME TypeOK, NEW s \in Sessions, Commit(s), NEW d \in Ids
  PROVE  /\ d \notin Hit(stmt[s]) => rows'[d] = rows[d]
         /\ d \in Hit(stmt[s]) =>
              \/ /\ stmt[s].op \in Activating
                 /\ rows'[d].state = "active"
                 /\ rows'[d].updated_at = stmt[s].stamp
                 /\ rows'[d].deleted_at = 0
              \/ /\ stmt[s].op \notin Activating /\ stmt[s].op # "purge"
                 /\ rows'[d].state = "deleted"
                 /\ rows'[d].updated_at = stmt[s].stamp
                 /\ rows'[d].deleted_at = stmt[s].stamp
              \/ /\ stmt[s].op = "purge"
                 /\ rows[d].state = "deleted"
                 /\ rows'[d] = NoRow
<1>1. rows'[d] = IF d \in Hit(stmt[s]) THEN Written(stmt[s], rows[d]) ELSE rows[d]
  BY DEF Commit, Hit
<1>2. rows[d] \in Row /\ stmt[s] \in Statement
  BY DEF TypeOK
<1>3. ASSUME d \in Hit(stmt[s])
      PROVE  Where(stmt[s].op, rows[d], stmt[s].stamp)
  BY <1>3 DEF Hit
<1>4. CASE stmt[s].op \in Activating
  BY <1>1, <1>4 DEF Written
<1>5. CASE stmt[s].op \in Withdrawing
  BY <1>1, <1>2, <1>5 DEF Written, Withdrawing, Activating, Row
<1>6. CASE stmt[s].op = "purge"
  BY <1>1, <1>3, <1>6 DEF Written, Withdrawing, Activating, Where
<1>7. CASE stmt[s].op = "none"
  BY <1>1, <1>3, <1>7 DEF Where, Activating
<1>8. QED
  BY <1>2, <1>4, <1>5, <1>6, <1>7 DEF Statement

\* What a commit does to one machine's observers.
LEMMA CommitObservers ==
  ASSUME TypeOK, NEW s \in Sessions, Commit(s), NEW m \in Machines
  PROVE  /\ UNCHANGED <<now, cursor, told>>
         /\ pull'[m].pc = pull[m].pc /\ pull'[m].full = pull[m].full
         /\ pull'[m].startup = pull[m].startup
         /\ pull'[m].new = pull[m].new /\ pull'[m].deleted = pull[m].deleted
         /\ pull'[m].since = pull[m].since
         /\ pull'[m].raced = pull[m].raced \cup MissedByAnswer(m, stmt[s], Hit(stmt[s]))
         /\ lost'[m] = lost[m] \cup MissedByTold(m, stmt[s], Hit(stmt[s]))
<1>1. pull[m] \in Pull
  BY DEF TypeOK
<1>2. pull'[m] = [pull[m] EXCEPT !.raced = @ \cup MissedByAnswer(m, stmt[s], Hit(stmt[s]))]
  BY DEF Commit, Hit
<1>3. QED
  BY <1>1, <1>2 DEF Commit, Hit, Pull

\* A reader that holds T and has lost L at time h is still right about its
\* withdrawals and bans after a commit, once what the commit leaves otherwise
\* than T says, and no delta after h reports, is added to L.
LEMMA CommitReach ==
  ASSUME TypeOK, NEW s \in Sessions, Commit(s),
         NEW T \in SUBSET Ids, NEW L, NEW L2, NEW h \in Nat,
         WithdrawalsReach(T, L, h), BansReach(T, L, h),
         L \subseteq L2,
         \A d \in Hit(stmt[s]) :
           Contradicts(stmt[s], d, T) =>
             \/ d \in L2
             \/ /\ stmt[s].op # "purge"
                /\ stmt[s].stamp > h
             \/ /\ stmt[s].op = "purge"
                /\ ~(rows[d].deleted_at > h)
  PROVE  /\ \A d \in T :
              \/ Active(rows'[d])
              \/ rows'[d].state = "deleted" /\ rows'[d].deleted_at > h
              \/ d \in L2
         /\ \A d \in Ids : Active(rows'[d]) /\ rows'[d].expires_at > now
                            => d \in T \/ rows'[d].updated_at > h \/ d \in L2
<1>1. Hit(stmt[s]) \subseteq Ids
  BY DEF TypeOK, Statement, Hit
<1>2. ASSUME NEW d \in T
      PROVE  \/ Active(rows'[d])
             \/ rows'[d].state = "deleted" /\ rows'[d].deleted_at > h
             \/ d \in L2
  <2>1. CASE d \notin Hit(stmt[s])
    BY <2>1, CommitRows DEF WithdrawalsReach
  <2>2. CASE d \in Hit(stmt[s])
    <3>1. CASE stmt[s].op \in Activating
      BY <2>2, <3>1, CommitRows DEF Active, Activating
    <3>2. CASE stmt[s].op \notin Activating
      <4>1. d \in L2 \/ (IF stmt[s].op = "purge" THEN ~(rows[d].deleted_at > h)
                                                 ELSE stmt[s].stamp > h)
        BY <2>2, <3>2 DEF Contradicts
      <4>2. CASE stmt[s].op = "purge"
        BY <2>2, <3>2, <4>1, <4>2, CommitRows DEF WithdrawalsReach, Active
      <4>3. CASE stmt[s].op # "purge"
        BY <2>2, <3>2, <4>1, <4>3, CommitRows
      <4>4. QED
        BY <4>2, <4>3
    <3>3. QED
      BY <3>1, <3>2
  <2>3. QED
    BY <2>1, <2>2
<1>3. ASSUME NEW d \in Ids, Active(rows'[d]), rows'[d].expires_at > now
      PROVE  d \in T \/ rows'[d].updated_at > h \/ d \in L2
  <2>1. CASE d \notin Hit(stmt[s])
    BY <1>3, <2>1, CommitRows DEF BansReach, InForce
  <2>2. CASE d \in Hit(stmt[s])
    <3>1. rows'[d].state = "active"
      BY <1>3 DEF Active
    <3>2. stmt[s].op \in Activating /\ rows'[d].updated_at = stmt[s].stamp
      BY <2>2, <3>1, CommitRows DEF NoRow
    <3>3. QED
      BY <2>2, <3>2 DEF Contradicts, Activating
  <2>3. QED
    BY <2>1, <2>2
<1>4. QED
  BY <1>2, <1>3

\* A commit keeps what every machine's pull has got right.
LEMMA CommitStep ==
  ASSUME TypeOK, StreamInv, NEW s \in Sessions, Commit(s)
  PROVE  StreamInv'
<1> DEFINE q == stmt[s]
<1>q. /\ q \in Statement /\ Hit(q) \subseteq Ids
      /\ stmt' = [stmt EXCEPT ![s] = NoStatement] /\ now' = now /\ cursor' = cursor
  BY DEF TypeOK, Statement, Hit, Commit
<1>1. StampsPast'
  <2>1. \A t \in Sessions : stmt'[t].stamp <= now'
    BY <1>q DEF StreamInv, StampsPast, TypeOK, NoStatement
  <2>2. ASSUME NEW d \in Ids
        PROVE  rows'[d].updated_at <= now' /\ rows'[d].deleted_at <= now'
    <3>1. /\ q.stamp <= now /\ now \in Nat
          /\ rows[d].updated_at <= now /\ rows[d].deleted_at <= now
      BY DEF StreamInv, StampsPast, TypeOK
    <3>2. QED
      BY <1>q, <3>1, CommitRows DEF NoRow
  <2>3. QED
    BY <1>q, <2>1, <2>2, CommitObservers DEF StampsPast, StreamInv
<1>2. ASSUME NEW m \in Machines PROVE MachineInv(m)'
  <2> DEFINE byTold == MissedByTold(m, q, Hit(q))
             byAnswer == MissedByAnswer(m, q, Hit(q))
  <2>m. MachineInv(m)
    BY MachineByMachine
  <2>o. /\ UNCHANGED <<now, cursor, told>>
        /\ pull'[m].pc = pull[m].pc /\ pull'[m].full = pull[m].full
        /\ pull'[m].startup = pull[m].startup
        /\ pull'[m].new = pull[m].new /\ pull'[m].deleted = pull[m].deleted
        /\ pull'[m].since = pull[m].since
        /\ pull'[m].raced = pull[m].raced \cup byAnswer
        /\ lost'[m] = lost[m] \cup byTold
    BY CommitObservers
  <2>t. /\ cursor[m] \in Nat /\ now \in Nat /\ q.stamp \in Nat
        /\ told[m] \in SUBSET Ids /\ After(m) \in SUBSET Ids
        /\ pull[m].new \subseteq Ids
        /\ pull[m].pc \in {"idle", "new", "deleted", "cursor", "reply"}
    BY <1>q DEF TypeOK, Pull, Statement, After
  <2>a. After(m)' = After(m) /\ LostAfter(m) \cup byAnswer \subseteq LostAfter(m)'
    BY <2>o DEF After, LostAfter
  <2>1. NewListRight(m)'
    <3> SUFFICES ASSUME pull[m].pc = "deleted" PROVE NewListRight(m)'
      BY <2>m, <2>o DEF MachineInv, NewListRight
    <3>1. \A d \in Hit(q) : Contradicts(q, d, pull[m].new) => d \in byAnswer
      BY DEF MissedByAnswer
    <3>2. /\ ~pull[m].full
          /\ \A d \in pull[m].new : Active(rows[d]) \/ d \in pull[m].raced
          /\ \A d \in Ids : InForce(d) /\ rows[d].updated_at > pull[m].since
                             => d \in pull[m].new \cup pull[m].raced
      BY <2>m DEF MachineInv, NewListRight
    <3>3. ASSUME NEW d \in pull[m].new
          PROVE  Active(rows'[d]) \/ d \in pull'[m].raced
      <4>1. CASE d \notin Hit(q)
        BY <2>o, <2>t, <3>2, <4>1, CommitRows
      <4>2. CASE d \in Hit(q) /\ q.op \in Activating
        BY <2>t, <4>2, CommitRows DEF Active, Activating
      <4>3. CASE d \in Hit(q) /\ q.op \notin Activating
        BY <2>o, <3>1, <4>3 DEF Contradicts
      <4>4. QED
        BY <4>1, <4>2, <4>3
    <3>4. ASSUME NEW d \in Ids, InForce(d)', rows'[d].updated_at > pull[m].since
          PROVE  d \in pull'[m].new \cup pull'[m].raced
      <4>1. CASE d \notin Hit(q)
        BY <2>o, <3>2, <3>4, <4>1, CommitRows DEF InForce
      <4>2. CASE d \in Hit(q)
        <5>1. rows'[d].state = "active"
          BY <3>4 DEF InForce, Active
        <5>2. q.op \in Activating
          BY <4>2, <5>1, CommitRows DEF NoRow
        <5>3. QED
          BY <2>o, <3>1, <4>2, <5>2 DEF Contradicts
      <4>3. QED
        BY <4>1, <4>2
    <3>5. QED
      BY <2>m, <2>o, <3>2, <3>3, <3>4 DEF MachineInv, NewListRight
  <2>2. AnswerRight(m)'
    <3> SUFFICES ASSUME pull[m].pc \in {"cursor", "reply"} PROVE AnswerRight(m)'
      BY <2>o DEF AnswerRight
    <3> DEFINE h == Horizon(m)
    <3>1. h \in Nat /\ h = Horizon(m)'
      BY <2>o, <2>t DEF Horizon
    <3>2. WithdrawalsReach(After(m), LostAfter(m), h) /\ BansReach(After(m), LostAfter(m), h)
      BY <2>m DEF MachineInv, AnswerRight
    <3>3. ASSUME NEW d \in Hit(q), Contradicts(q, d, After(m))
          PROVE  \/ d \in LostAfter(m)'
                 \/ q.op # "purge" /\ q.stamp > h
                 \/ q.op = "purge" /\ ~(rows[d].deleted_at > h)
      <4>1. CASE pull[m].pc = "cursor" \/ Unseen(m, q, d)
        BY <2>a, <3>3, <4>1 DEF MissedByAnswer
      <4>2. CASE pull[m].pc = "reply" /\ ~Unseen(m, q, d)
        BY <2>t, <4>2 DEF Unseen, Horizon
      <4>3. QED
        BY <4>1, <4>2
    <3>4. LostAfter(m) \subseteq LostAfter(m)'
      BY <2>a
    <3> HIDE DEF h
    <3>5. /\ \A d \in After(m) :
               \/ Active(rows'[d])
               \/ rows'[d].state = "deleted" /\ rows'[d].deleted_at > h
               \/ d \in LostAfter(m)'
          /\ \A d \in Ids : Active(rows'[d]) /\ rows'[d].expires_at > now
               => d \in After(m) \/ rows'[d].updated_at > h \/ d \in LostAfter(m)'
      BY <2>t, <3>1, <3>2, <3>3, <3>4, CommitReach
    <3>6. QED
      BY <2>a, <2>o, <3>1, <3>5 DEF AnswerRight, WithdrawalsReach, BansReach, InForce
  <2>3. pull[m].pc # "reply" =>
          /\ WithdrawalsReach(told[m], lost[m], cursor[m])'
          /\ BansReach(told[m], lost[m], cursor[m])'
    <3> SUFFICES ASSUME pull[m].pc # "reply"
                 PROVE  /\ WithdrawalsReach(told[m], lost[m], cursor[m])'
                        /\ BansReach(told[m], lost[m], cursor[m])'
      OBVIOUS
    <3>1. /\ WithdrawalsReach(told[m], lost[m], cursor[m])
          /\ BansReach(told[m], lost[m], cursor[m])
      BY <2>m DEF MachineInv
    <3>2. ASSUME NEW d \in Hit(q), Contradicts(q, d, told[m])
          PROVE  \/ d \in lost'[m]
                 \/ q.op # "purge" /\ q.stamp > cursor[m]
                 \/ q.op = "purge" /\ ~(rows[d].deleted_at > cursor[m])
      <4>1. CASE Unseen(m, q, d)
        BY <2>o, <3>2, <4>1 DEF MissedByTold
      <4>2. CASE ~Unseen(m, q, d)
        BY <2>t, <4>2 DEF Unseen
      <4>3. QED
        BY <4>1, <4>2
    <3>3. lost[m] \subseteq lost'[m]
      BY <2>o
    <3>4. /\ \A d \in told[m] :
               \/ Active(rows'[d])
               \/ rows'[d].state = "deleted" /\ rows'[d].deleted_at > cursor[m]
               \/ d \in lost'[m]
          /\ \A d \in Ids : Active(rows'[d]) /\ rows'[d].expires_at > now
               => d \in told[m] \/ rows'[d].updated_at > cursor[m] \/ d \in lost'[m]
      BY <2>t, <3>1, <3>2, <3>3, CommitReach
    <3>5. QED
      BY <2>o, <3>4 DEF WithdrawalsReach, BansReach, InForce
  <2>4. QED
    BY <2>o, <2>1, <2>2, <2>3 DEF MachineInv
<1>3. QED
  BY <1>1, <1>2 DEF StreamInv, MachineInv, NoMissedWithdrawal, NoMissedBan

\* StreamInv holds throughout: statement by statement, what an answer will
\* tell is right, but for the decisions it is on record as having raced with
\* (GetDecisionStream against every writer of the table).
THEOREM StreamInvariant == Spec => []StreamInv
<1>1. Init => StreamInv
  BY TimeAssumption DEF Init, StreamInv, StampsPast, NewListRight, AnswerRight, NoMissedWithdrawal,
         NoMissedBan, WithdrawalsReach, BansReach, InForce, Active, NoRow,
         NoStatement, NoPull
<1>2. TypeOK /\ StreamInv /\ [Next]_vars => StreamInv'
  <2> SUFFICES ASSUME TypeOK, StreamInv, [Next]_vars PROVE StreamInv'
    OBVIOUS
  <2>1. CASE Tick
    BY <2>1, TickStep
  <2>2. ASSUME NEW w \in Writers, Write(w) PROVE StreamInv'
    <3>1. w \in Sessions
      BY DEF Sessions
    <3>2. \E op, targets, expires : Issue(w, op, targets, expires)
      BY <2>2 DEF Write, CreateDecision, UpsertUpstreamDecision, DeleteDecision,
                  MarkUpstreamDecisionDeleted
    <3>3. QED
      BY <3>1, <3>2, IssueStep
  <2>3. ASSUME NEW c \in Cleaners, Sweep(c) PROVE StreamInv'
    <3>1. c \in Sessions
      BY DEF Sessions
    <3>2. \E op, targets, expires : Issue(c, op, targets, expires)
      BY <2>3 DEF Sweep, SoftDeleteExpiredDecisions, HardDeleteAgedDecisions
    <3>3. QED
      BY <3>1, <3>2, IssueStep
  <2>4. ASSUME NEW c \in Cleaners, CleanerFault(c) PROVE StreamInv'
    BY <2>4, CleanerFaultStep
  <2>5. ASSUME NEW s \in Sessions, Commit(s) PROVE StreamInv'
    BY <2>5, CommitStep
  <2>6. ASSUME NEW m \in Machines,
               \/ \E startup \in BOOLEAN : PullBegin(m, startup)
               \/ PullStep(m)
               \/ PullFault(m)
        PROVE  StreamInv'
    <3>1. MachineInv(m)
      BY MachineByMachine
    <3>2. MachineInv(m)'
      BY <2>6, <3>1, PullBeginStep, PullNewStep, PullDeletedStep, PullCursorStep,
         PullReplyStep, PullAbortStep, PullLostStep, StrayPullStep, AgentReplacedStep
         DEF PullStep, PullFault, StreamInv
    <3>3. /\ UNCHANGED <<now, rows, stmt>>
          /\ \A n \in Machines \ {m} :
               /\ cursor'[n] = cursor[n] /\ pull'[n] = pull[n]
               /\ told'[n] = told[n] /\ lost'[n] = lost[n]
          /\ cursor'[m] \in {cursor[m], now}
          /\ pull'[m].since \in {0, pull[m].since, cursor[m]}
      BY <2>6, PullFrame
    <3>4. \A n \in Machines \ {m} : MachineInv(n)'
      BY <3>3, MachineFrame, MachineByMachine
    <3>5. StampsPast'
      <4>1. /\ cursor[m] \in Nat /\ now \in Nat /\ pull[m].since \in Nat
            /\ pull[m].since <= cursor[m] /\ cursor[m] <= now
        BY DEF StreamInv, StampsPast, TypeOK, Pull
      <4>2. pull'[m].since <= cursor'[m] /\ cursor'[m] <= now
        BY <3>3, <4>1
      <4>3. QED
        BY <3>3, <4>2 DEF StreamInv, StampsPast
    <3>6. QED
      BY <3>2, <3>4, <3>5 DEF StreamInv, MachineInv, NoMissedWithdrawal, NoMissedBan
  <2>7. CASE UNCHANGED vars
    <3>1. StampsPast'
      BY <2>7 DEF vars, StreamInv, StampsPast
    <3>2. \A m \in Machines : MachineInv(m)'
      BY <2>7, MachineFrame, MachineByMachine DEF vars
    <3>3. QED
      BY <3>1, <3>2 DEF StreamInv, MachineInv, NoMissedWithdrawal, NoMissedBan
  <2>8. QED
    BY <2>1, <2>2, <2>3, <2>4, <2>5, <2>6, <2>7 DEF Next, TableStep
<1>3. QED
  BY <1>1, <1>2, TypeCorrect, PTL DEF Spec

\* No agent goes on enforcing a withdrawn decision unannounced, but for the
\* decisions in lost, those a full list it had not asked for has left out among
\* them (GetDecisionStream's deleted list).
THEOREM WithdrawalsReachAgents == Spec => []NoMissedWithdrawal
<1>1. StreamInv => NoMissedWithdrawal
  BY DEF StreamInv
<1>2. QED
  BY <1>1, StreamInvariant, PTL

\* No agent goes without a decision in force unannounced, but for those in
\* lost (GetDecisionStream's new list).
THEOREM BansReachAgents == Spec => []NoMissedBan
<1>1. StreamInv => NoMissedBan
  BY DEF StreamInv
<1>2. QED
  BY <1>1, StreamInvariant, PTL

\* The agent has pulled since the last change of any row that is there.
CaughtUp(m) ==
  /\ pull[m].pc # "reply"
  /\ \A d \in Ids : rows[d].updated_at <= cursor[m] /\ rows[d].deleted_at <= cursor[m]

\* So once the table is at rest and an agent has pulled, it enforces what is in
\* force, and else at most decisions that are active and past their expiry, but
\* for the decisions in lost: nothing depends on another pull to be put right.
THEOREM RestingTableIsMirrored ==
  Spec => [](\A m \in Machines : CaughtUp(m) =>
               /\ {d \in Ids : InForce(d)} \subseteq told[m] \cup lost[m]
               /\ told[m] \subseteq {d \in Ids : Active(rows[d])} \cup lost[m])
<1>1. TypeOK /\ StreamInv =>
        \A m \in Machines : CaughtUp(m) =>
          /\ {d \in Ids : InForce(d)} \subseteq told[m] \cup lost[m]
          /\ told[m] \subseteq {d \in Ids : Active(rows[d])} \cup lost[m]
  <2> SUFFICES ASSUME TypeOK, StreamInv, NEW m \in Machines, CaughtUp(m), NEW d \in Ids
               PROVE  /\ InForce(d) => d \in told[m] \cup lost[m]
                      /\ d \in told[m] => Active(rows[d]) \/ d \in lost[m]
    BY DEF TypeOK
  <2>1. rows[d].updated_at \in Nat /\ rows[d].deleted_at \in Nat /\ cursor[m] \in Nat
    BY DEF TypeOK, Row
  <2>2. ~(rows[d].updated_at > cursor[m]) /\ ~(rows[d].deleted_at > cursor[m])
    BY <2>1 DEF CaughtUp
  <2>3. InForce(d) => d \in told[m] \cup lost[m]
    BY <2>2 DEF CaughtUp, StreamInv, NoMissedBan, BansReach
  <2>4. d \in told[m] => Active(rows[d]) \/ d \in lost[m]
    BY <2>2 DEF CaughtUp, StreamInv, NoMissedWithdrawal, WithdrawalsReach
  <2>5. QED
    BY <2>3, <2>4
<1>2. QED
  BY <1>1, StreamInvariant, TypeCorrect, PTL

\* A purge never takes a tombstone from a machine that pulled within the
\* retention period and has not been given it (HardDeleteAgedDecisions).
THEOREM PurgeSparesPullersHolds == Spec => PurgeSparesPullers
<1> DEFINE Spared == \A m \in Machines, d \in Ids :
                       rows[d].state = "deleted" /\ rows'[d].state = "absent"
                         => \/ rows[d].deleted_at <= cursor[m]
                            \/ cursor[m] + Retention < now
<1>1. TypeOK /\ StreamInv /\ [Next]_vars => [Spared]_vars
  <2> SUFFICES ASSUME TypeOK, StreamInv, Next,
                      NEW m \in Machines, NEW d \in Ids,
                      rows[d].state = "deleted", rows'[d].state = "absent"
               PROVE  \/ rows[d].deleted_at <= cursor[m]
                      \/ cursor[m] + Retention < now
    OBVIOUS
  <2>1. PICK s \in Sessions : Commit(s)
    <3>1. rows' # rows
      OBVIOUS
    <3>2. QED
      BY <3>1 DEF Next, TableStep, Tick, Write, CreateDecision, UpsertUpstreamDecision,
         DeleteDecision, MarkUpstreamDecisionDeleted, Sweep, SoftDeleteExpiredDecisions,
         HardDeleteAgedDecisions, Issue, CleanerFault, CleanerError, CleanerRestart,
         Begin, PullBegin, PullBeginUnread, PullStep, PullNew, PullDeleted, PullCursor, PullReply,
         PullFault, PullAbort, PullLost, StrayPull, AgentReplaced, serverVars
  <2>2. d \in Hit(stmt[s]) /\ stmt[s].op = "purge"
    BY <2>1, CommitRows
  <2>3. rows[d].deleted_at + Retention < stmt[s].stamp
    BY <2>2 DEF Hit, Where, Activating
  <2>4. stmt[s].stamp <= now
    BY DEF StreamInv, StampsPast
  <2>5. /\ rows[d].deleted_at \in Nat /\ cursor[m] \in Nat /\ now \in Nat
        /\ stmt[s].stamp \in Nat /\ Retention \in Nat
    BY TimeAssumption DEF TypeOK, Row, Statement
  <2>6. QED
    BY <2>3, <2>4, <2>5
<1>2. QED
  BY <1>1, TypeCorrect, StreamInvariant, PTL DEF Spec, PurgeSparesPullers

=============================================================================
