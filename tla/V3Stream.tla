------------------------------ MODULE V3Stream ------------------------------
(***************************************************************************)
(* The v3 stream (V3DecisionStreamHandler, internal/api/v2/decisions.go):  *)
(* the lists of DecisionStream, grouped, with every decision named by its  *)
(* scope and value alone.  An agent that follows it knows values, not      *)
(* decisions, and several decisions may be about one value.                *)
(*                                                                         *)
(* Who the agent is, and that it drops the deleted values before it adds   *)
(* the new ones, is external: the order of the two lists is all the        *)
(* answer says.                                                            *)
(***************************************************************************)
EXTENDS DecisionStream

CONSTANT Values   \* scope and value

VARIABLES
  value,      \* what each decision is about; no statement ever updates it
  enforced,   \* observer: the values a machine enforces by the v3 answers
  struck      \* observer: the decisions it was given before an answer that
              \* withdrew their value on behalf of another decision

v3Vars == <<value, enforced, struck>>

ValuesOf(S) == {value[d] : d \in S}

-----------------------------------------------------------------------------

\* Seeded bug: a group keeps one value only.
V3NewOneOfGroup(m) ==
  IF pull[m].new = {} THEN {} ELSE {CHOOSE v \in ValuesOf(pull[m].new) : TRUE}

\* The two lists of the answer, its groups laid end to end.
V3New(m) == ValuesOf(pull[m].new)

\* Seeded bug: a group keeps one value only.
V3DeletedOneOfGroup(m) ==
  IF pull[m].deleted = {} THEN {} ELSE {CHOOSE v \in ValuesOf(pull[m].deleted) : TRUE}

V3Deleted(m) == ValuesOf(pull[m].deleted)

\* Seeded bug: the agent adds before it drops.
V3EnforcedReversed(m) ==
  IF pull[m].startup THEN V3New(m) ELSE (enforced[m] \cup V3New(m)) \ V3Deleted(m)

V3Enforced(m) ==
  IF pull[m].startup THEN V3New(m) ELSE (enforced[m] \ V3Deleted(m)) \cup V3New(m)

V3Struck(m) ==
  IF pull[m].startup THEN {}
  ELSE (struck[m] \cup {d \in told[m] : value[d] \in ValuesOf(pull[m].deleted)})
         \ (pull[m].new \cup pull[m].deleted)

\* The v3 answer reaches the agent.
V3Reply(m) ==
  /\ PullReply(m)
  /\ enforced' = [enforced EXCEPT ![m] = V3Enforced(m)]
  /\ struck' = [struck EXCEPT ![m] = V3Struck(m)]
  /\ UNCHANGED value

V3AgentReplaced(m) ==
  /\ AgentReplaced(m)
  /\ enforced' = [enforced EXCEPT ![m] = {}]
  /\ struck' = [struck EXCEPT ![m] = {}]
  /\ UNCHANGED value

\* Everything else happens as for the v2 stream.
V3Silent ==
  /\ \/ Tick
     \/ TableStep
     \/ \E m \in Machines : \/ \E startup \in BOOLEAN : PullBegin(m, startup)
                            \/ PullNew(m)
                            \/ PullDeleted(m)
                            \/ PullCursor(m)
                            \/ PullBeginUnread(m)
                            \/ PullAbort(m)
                            \/ PullLost(m)
                            \/ StrayPull(m)
  /\ UNCHANGED v3Vars

V3Init ==
  /\ Init
  /\ value \in [Ids -> Values]
  /\ enforced = [m \in Machines |-> {}]
  /\ struck = [m \in Machines |-> {}]

V3Next ==
  \/ V3Silent
  \/ \E m \in Machines : V3Reply(m) \/ V3AgentReplaced(m)

V3Spec == V3Init /\ [][V3Next]_<<vars, v3Vars>>

-----------------------------------------------------------------------------
(* Properties                                                              *)

\* Type invariant.
V3TypeOK ==
  /\ TypeOK
  /\ value \in [Ids -> Values]
  /\ enforced \in [Machines -> SUBSET Values]
  /\ struck \in [Machines -> SUBSET Ids]

\* A value an agent enforces is that of a decision it was given; a decision it
\* was given is enforced, unless its value was struck with another decision.
V3Follows ==
  \A m \in Machines :
    /\ enforced[m] \subseteq ValuesOf(told[m])
    /\ \A d \in told[m] : value[d] \in enforced[m] \/ d \in struck[m]
    /\ \A d \in struck[m] : \E e \in Ids \ {d} : value[e] = value[d]

\* No value stays enforced unexplained: some decision on it is active, or is
\* withdrawn by the next delta, or is in lost (V3DecisionStreamHandler).
V3NoMissedWithdrawal ==
  \A m \in Machines : pull[m].pc # "reply" =>
    \A v \in enforced[m] : \E d \in Ids :
      /\ value[d] = v
      /\ \/ Active(rows[d])
         \/ rows[d].state = "deleted" /\ rows[d].deleted_at > cursor[m]
         \/ d \in lost[m]

\* A decision in force is enforced, or in the next delta, or in lost, unless
\* an answer withdrew another decision on the same value: then the agent goes
\* without the ban until it starts again, or the decision is renewed.
V3NoMissedBan ==
  \A m \in Machines : pull[m].pc # "reply" =>
    \A d \in Ids : InForce(d) =>
      \/ value[d] \in enforced[m]
      \/ rows[d].updated_at > cursor[m]
      \/ d \in lost[m]
      \/ d \in struck[m] /\ \E e \in Ids \ {d} : value[e] = value[d]

=============================================================================
