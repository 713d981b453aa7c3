---------------------------- MODULE SignalIngest ----------------------------
(***************************************************************************)
(* POST /v2/signals: from the JWT middleware to the decisions a batch      *)
(* leaves behind (internal/service/signal.go), by several handlers at once *)
(* and against admins who edit the allowlists and block machines.          *)
(*                                                                         *)
(* A handler reads and writes with one statement at a time and holds no    *)
(* transaction.  A signal is the sequence of the values its decisions ban, *)
(* and whether its scenario or labels are too long to store; a stored      *)
(* signal is not read again here.                                          *)
(***************************************************************************)
EXTENDS Integers, Sequences, FiniteSets

CONSTANTS
  Handlers,    \* requests that can be in progress at once
  Machines,
  Values,      \* scope and value of a decision
  Valid,       \* those that validation.DecisionFields accepts
  Batches,     \* the batches machines send: sequences of signals
  MaxBatch,    \* maxSignalBatch
  MaxFaults    \* bound on failed statements and abandoned requests

Signal == [oversized : BOOLEAN, decisions : Seq(Values)]

ASSUME ValuesAssumption == Valid \subseteq Values
ASSUME BatchesAssumption ==
  /\ Batches \subseteq Seq(Signal)
  /\ MaxBatch \in Nat
  /\ MaxFaults \in Nat
ASSUME HandlersAssumption == IsFiniteSet(Handlers)
ASSUME MachinesAssumption == Machines # {}

VARIABLES
  status,     \* machines.status, "absent" when there is no row
  allow,      \* values with an unexpired allowlist entry
  active,     \* how many active decisions of signals each value has
  others,     \* values with an active decision of another origin
  handler,    \* the request each handler is working on
  owed,       \* observer: the valid values of the batch a request brought
  decided,    \* observer: those found allowlisted or banned, or banned by it
  exempted,   \* observer: handlers whose value was allowlisted after the look
  revoked,    \* observer: handlers whose machine was blocked or deleted since
  faults

adminVars == <<status, allow, others>>
observerVars == <<owed, decided, exempted, revoked>>
vars == <<status, allow, active, others, handler, owed, decided, exempted, revoked, faults>>

Request == [pc : {"idle", "check", "signals", "decisions", "dedup", "create"},
            machine : Machines, batch : Seq(Signal), todo : Seq(Values)]

Nobody == CHOOSE m \in Machines : TRUE
NoRequest == [pc |-> "idle", machine |-> Nobody, batch |-> <<>>, todo |-> <<>>]

Known(m) == status[m] \in {"pending", "validated"}
\* Seeded bug: the lookup leaves out the decisions of signals.
HasOtherActive(v) == v \in others

HasActive(v) == active[v] > 0 \/ v \in others

At(h, pc) == handler[h].pc = pc
Current(h) == Head(handler[h].todo)

\* Past the allowlist check of its value; past the check of its machine.
Looked(h) == At(h, "dedup") \/ At(h, "create")
Checked(h) == At(h, "signals") \/ At(h, "decisions") \/ Looked(h)

\* On to the next decision of the signal.
Continue(h) ==
  /\ handler' = [handler EXCEPT ![h].pc = "decisions", ![h].todo = Tail(@)]
  /\ exempted' = exempted \ {h}

\* The request is over, and with it what the observers know of it.
Finish(h) ==
  /\ handler' = [handler EXCEPT ![h] = NoRequest]
  /\ owed' = [owed EXCEPT ![h] = {}]
  /\ decided' = [decided EXCEPT ![h] = {}]
  /\ exempted' = exempted \ {h}
  /\ revoked' = revoked \ {h}

\* The value is dealt with.
Settle(h) == decided' = [decided EXCEPT ![h] = @ \cup {Current(h)}]

\* What a batch may put into the decision table.
Bans(b) ==
  {v \in Valid : \E i \in DOMAIN b :
     ~b[i].oversized /\ \E j \in DOMAIN b[i].decisions : b[i].decisions[j] = v}

Fault == faults < MaxFaults /\ faults' = faults + 1

-----------------------------------------------------------------------------
(* The request                                                             *)

\* The middleware lets it through; a batch that is too large is refused.
Receive(h, m, b) ==
  /\ At(h, "idle")
  /\ Known(m)
  /\ Len(b) <= MaxBatch
  /\ handler' = [handler EXCEPT ![h] = [pc |-> "check", machine |-> m,
                                        batch |-> b, todo |-> <<>>]]
  /\ owed' = [owed EXCEPT ![h] = Bans(b)]
  /\ UNCHANGED <<adminVars, active, decided, exempted, revoked, faults>>

\* Seeded bug: the second lookup does not read the status.
CheckExists(h) ==
  /\ At(h, "check")
  /\ IF status[handler[h].machine] # "absent"
     THEN /\ handler' = [handler EXCEPT ![h].pc = "signals"]
          /\ UNCHANGED observerVars
     ELSE Finish(h)
  /\ UNCHANGED <<adminVars, active, faults>>

\* ProcessSignals looks the machine up again, once for the whole batch.
CheckMachine(h) ==
  /\ At(h, "check")
  /\ IF Known(handler[h].machine)
     THEN /\ handler' = [handler EXCEPT ![h].pc = "signals"]
          /\ UNCHANGED observerVars
     ELSE Finish(h)
  /\ UNCHANGED <<adminVars, active, faults>>

SkipOversized(h) ==
  /\ At(h, "signals") /\ handler[h].batch # <<>>
  /\ Head(handler[h].batch).oversized
  /\ handler' = [handler EXCEPT ![h].batch = Tail(@)]
  /\ UNCHANGED <<adminVars, active, observerVars, faults>>

StoreSignal(h) ==
  /\ At(h, "signals") /\ handler[h].batch # <<>>
  /\ ~Head(handler[h].batch).oversized
  /\ handler' = [handler EXCEPT ![h].pc = "decisions",
                                ![h].todo = Head(handler[h].batch).decisions,
                                ![h].batch = Tail(@)]
  /\ UNCHANGED <<adminVars, active, observerVars, faults>>

\* A signal that cannot be stored is skipped with its decisions.
StoreSignalFails(h) ==
  /\ At(h, "signals") /\ handler[h].batch # <<>>
  /\ ~Head(handler[h].batch).oversized
  /\ handler' = [handler EXCEPT ![h].batch = Tail(@)]
  /\ Fault
  /\ UNCHANGED <<adminVars, active, observerVars>>

\* Seeded bug: break where the code says continue.
StopAtInvalid(h) ==
  /\ At(h, "decisions") /\ handler[h].todo # <<>>
  /\ Current(h) \notin Valid
  /\ handler' = [handler EXCEPT ![h].todo = <<>>]
  /\ UNCHANGED <<adminVars, active, observerVars, faults>>

SkipInvalid(h) ==
  /\ At(h, "decisions") /\ handler[h].todo # <<>>
  /\ Current(h) \notin Valid
  /\ Continue(h)
  /\ UNCHANGED <<adminVars, active, owed, decided, revoked, faults>>

CheckAllowlist(h) ==
  /\ At(h, "decisions") /\ handler[h].todo # <<>>
  /\ Current(h) \in Valid
  /\ IF Current(h) \in allow
     THEN /\ Continue(h)
          /\ Settle(h)
     ELSE /\ handler' = [handler EXCEPT ![h].pc = "dedup"]
          /\ UNCHANGED <<decided, exempted>>
  /\ UNCHANGED <<adminVars, active, owed, revoked, faults>>

\* Seeded bug: the error of the allowlist query is dropped.
CheckAllowlistFailsOpen(h) ==
  /\ At(h, "decisions") /\ handler[h].todo # <<>>
  /\ Current(h) \in Valid
  /\ handler' = [handler EXCEPT ![h].pc = "dedup"]
  /\ Fault
  /\ UNCHANGED <<adminVars, active, observerVars>>

\* Without an answer about the allowlist there is no decision.
CheckAllowlistFails(h) ==
  /\ At(h, "decisions") /\ handler[h].todo # <<>>
  /\ Current(h) \in Valid
  /\ Continue(h)
  /\ Fault
  /\ UNCHANGED <<adminVars, active, owed, decided, revoked>>

Dedup(h) ==
  /\ At(h, "dedup")
  /\ IF HasActive(Current(h))
     THEN /\ Continue(h)
          /\ Settle(h)
     ELSE /\ handler' = [handler EXCEPT ![h].pc = "create"]
          /\ UNCHANGED <<decided, exempted>>
  /\ UNCHANGED <<adminVars, active, owed, revoked, faults>>

\* The error of the dedup query is dropped, so it counts as "none".
DedupFails(h) ==
  /\ At(h, "dedup")
  /\ handler' = [handler EXCEPT ![h].pc = "create"]
  /\ Fault
  /\ UNCHANGED <<adminVars, active, observerVars>>

CreateDecision(h) ==
  /\ At(h, "create")
  /\ active' = [active EXCEPT ![Current(h)] = @ + 1]
  /\ Continue(h)
  /\ Settle(h)
  /\ UNCHANGED <<adminVars, owed, revoked, faults>>

\* The error of the insert is dropped too.
CreateDecisionFails(h) ==
  /\ At(h, "create")
  /\ Continue(h)
  /\ Fault
  /\ UNCHANGED <<adminVars, active, owed, decided, revoked>>

EndSignal(h) ==
  /\ At(h, "decisions") /\ handler[h].todo = <<>>
  /\ handler' = [handler EXCEPT ![h].pc = "signals"]
  /\ UNCHANGED <<adminVars, active, observerVars, faults>>

Reply(h) ==
  /\ At(h, "signals") /\ handler[h].batch = <<>>
  /\ Finish(h)
  /\ UNCHANGED <<adminVars, active, faults>>

\* The client goes away and every statement left fails; it may send again.
Abandon(h) ==
  /\ ~At(h, "idle")
  /\ Finish(h)
  /\ Fault
  /\ UNCHANGED <<adminVars, active>>

-----------------------------------------------------------------------------
(* Admins, the cleaner and the syncer                                      *)

Allowlist(v) ==
  /\ v \notin allow
  /\ allow' = allow \cup {v}
  /\ exempted' = exempted \cup {h \in Handlers : Looked(h) /\ Current(h) = v}
  /\ UNCHANGED <<status, active, others, handler, owed, decided, revoked, faults>>

Unlist(v) ==
  /\ v \in allow
  /\ allow' = allow \ {v}
  /\ UNCHANGED <<status, active, others, handler, observerVars, faults>>

\* A machine registers; it or an admin enrolls or unblocks it.
Admit(m) ==
  /\ status' = [status EXCEPT ![m] = IF @ = "absent" THEN "pending" ELSE "validated"]
  /\ UNCHANGED <<allow, active, others, handler, observerVars, faults>>

\* A machine is blocked or deleted.
Revoke(m, new) ==
  /\ status[m] # "absent"
  /\ status' = [status EXCEPT ![m] = new]
  /\ revoked' = revoked \cup {h \in Handlers : Checked(h) /\ handler[h].machine = m}
  /\ UNCHANGED <<allow, active, others, handler, owed, decided, exempted, faults>>

\* Seeded bug: a decision ends twice.
DecisionEndsAgain(v) ==
  /\ active' = [active EXCEPT ![v] = @ - 1]
  /\ UNCHANGED <<adminVars, handler, observerVars, faults>>

\* A decision of a signal expires or is deleted.
DecisionEnds(v) ==
  /\ active[v] > 0
  /\ active' = [active EXCEPT ![v] = @ - 1]
  /\ UNCHANGED <<adminVars, handler, observerVars, faults>>

\* Admins and the syncer write decisions without either check.
OtherDecision(v) ==
  /\ others' = IF v \in others THEN others \ {v} ELSE others \cup {v}
  /\ UNCHANGED <<status, allow, active, handler, observerVars, faults>>

-----------------------------------------------------------------------------

Init ==
  /\ status = [m \in Machines |-> "pending"]
  /\ allow = {}
  /\ active = [v \in Values |-> 0]
  /\ others = {}
  /\ handler = [h \in Handlers |-> NoRequest]
  /\ owed = [h \in Handlers |-> {}]
  /\ decided = [h \in Handlers |-> {}]
  /\ exempted = {}
  /\ revoked = {}
  /\ faults = 0

\* The loop of ProcessSignals.
HandlerStep(h) ==
  \/ CheckMachine(h)
  \/ SkipOversized(h)
  \/ StoreSignal(h)
  \/ SkipInvalid(h)
  \/ CheckAllowlist(h)
  \/ Dedup(h)
  \/ CreateDecision(h)
  \/ EndSignal(h)
  \/ Reply(h)

HandlerFault(h) ==
  \/ StoreSignalFails(h)
  \/ CheckAllowlistFails(h)
  \/ DedupFails(h)
  \/ CreateDecisionFails(h)
  \/ Abandon(h)

Environment ==
  \/ \E v \in Valid : Allowlist(v) \/ Unlist(v) \/ DecisionEnds(v) \/ OtherDecision(v)
  \/ \E m \in Machines : Admit(m) \/ Revoke(m, "blocked") \/ Revoke(m, "absent")

Next ==
  \/ \E h \in Handlers : \/ \E m \in Machines, b \in Batches : Receive(h, m, b)
                         \/ HandlerStep(h)
                         \/ HandlerFault(h)
  \/ Environment

Spec == Init /\ [][Next]_vars

-----------------------------------------------------------------------------
(* Properties                                                              *)

\* Type invariant.
TypeOK ==
  /\ status \in [Machines -> {"pending", "validated", "blocked", "absent"}]
  /\ allow \subseteq Values
  /\ active \in [Values -> Nat]
  /\ others \subseteq Values
  /\ handler \in [Handlers -> Request]
  /\ owed \in [Handlers -> SUBSET Values]
  /\ decided \in [Handlers -> SUBSET Values]
  /\ exempted \subseteq Handlers
  /\ revoked \subseteq Handlers
  /\ faults \in 0..MaxFaults

Creating(v) == {h \in Handlers : At(h, "create") /\ Current(h) = v}

\* The dedup check bounds what it does not prevent: at most one decision of a
\* signal per handler is active on a value, and one more per failed query
\* (signal.go's GetActiveDecision, then CreateDecision).
DuplicatesBounded ==
  \A v \in Values :
    active[v] + Cardinality(Creating(v)) <= Cardinality(Handlers) + faults

\* A decision is created for an allowlisted value only when the entry is
\* newer than the look the handler took (signal.go's IsAllowlisted).
AllowlistRespected ==
  [][\A v \in Values : active'[v] > active[v] /\ v \in allow
       => \E h \in Handlers : /\ At(h, "create") /\ Current(h) = v
                              /\ h \in exempted
                              /\ handler'[h] # handler[h]]_vars

\* A blocked or deleted machine stores no signal, unless that happened after
\* the batch had passed the check (the middleware and ProcessSignals).
BlockedIgnored ==
  [][\A h \in Handlers :
       At(h, "signals") /\ handler'[h].pc = "decisions" /\ ~Known(handler[h].machine)
         => h \in revoked]_vars

\* One decision that is invalid, allowlisted or known does not cost the others
\* of the batch: when the answer is due, every valid value of every signal that
\* is not too long was looked into, unless a statement failed (the continues
\* of signal.go's two loops).
AnswerComplete ==
  \A h \in Handlers : At(h, "signals") /\ handler[h].batch = <<>> /\ faults = 0
                        => owed[h] \subseteq decided[h]

=============================================================================
