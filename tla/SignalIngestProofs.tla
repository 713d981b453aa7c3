------------------------- MODULE SignalIngestProofs -------------------------
(***************************************************************************)
(* Theorems of SignalIngest, for any number of handlers and machines, all  *)
(* batches and every bound.                                                *)
(***************************************************************************)
EXTENDS SignalIngest, SequenceTheorems, FiniteSetTheorems, TLAPS

Elements(s) == {s[i] : i \in DOMAIN s}

\* The valid values of a signal that still wait for their look.
Left(h) ==
  IF At(h, "decisions") \/ Looked(h)
  THEN Elements(handler[h].todo) \cap Valid ELSE {}

\* What a handler and the observers of it know at each of its statements.
HandlerInv(h) ==
  /\ Looked(h) => handler[h].todo # <<>>
  /\ Looked(h) /\ Current(h) \in allow => h \in exempted
  /\ Checked(h) /\ ~Known(handler[h].machine) => h \in revoked
  /\ faults = 0 /\ ~At(h, "idle") =>
       owed[h] \subseteq decided[h] \cup Bans(handler[h].batch) \cup Left(h)

IngestInv == TypeOK /\ \A h \in Handlers : HandlerInv(h)

-----------------------------------------------------------------------------
(* Sequences                                                               *)

LEMMA HeadAndTail ==
  ASSUME NEW S, NEW s \in Seq(S), s # <<>>
  PROVE  /\ Head(s) \in S /\ Tail(s) \in Seq(S)
         /\ Elements(s) \subseteq {Head(s)} \cup Elements(Tail(s))
<1>1. /\ Head(s) = s[1] /\ Len(s) \in Nat /\ DOMAIN s = 1..Len(s)
      /\ Len(Tail(s)) = Len(s) - 1 /\ DOMAIN Tail(s) = 1..(Len(s) - 1)
      /\ \A i \in 1..Len(Tail(s)) : Tail(s)[i] = s[i + 1]
  BY HeadTailProperties
<1>2. Head(s) \in S /\ Tail(s) \in Seq(S)
  BY HeadTailProperties
<1>3. ASSUME NEW i \in DOMAIN s PROVE s[i] \in {Head(s)} \cup Elements(Tail(s))
  <2>1. CASE i = 1
    BY <1>1, <2>1
  <2>2. CASE i # 1
    <3>1. i - 1 \in DOMAIN Tail(s) /\ Tail(s)[i - 1] = s[i]
      BY <1>1, <2>2
    <3>2. QED
      BY <3>1 DEF Elements
  <2>3. QED
    BY <2>1, <2>2
<1>4. QED
  BY <1>2, <1>3 DEF Elements

LEMMA NoElements == Elements(<<>>) = {} /\ Bans(<<>>) = {}
BY DEF Elements, Bans

\* The bans of a batch are those of its first signal and those of the rest.
LEMMA BansOfTail ==
  ASSUME NEW b \in Seq(Signal), b # <<>>
  PROVE  Bans(b) \subseteq Bans(Tail(b)) \cup
           (IF Head(b).oversized THEN {} ELSE Elements(Head(b).decisions) \cap Valid)
<1>1. /\ Head(b) = b[1] /\ Len(b) \in Nat /\ DOMAIN b = 1..Len(b)
      /\ Len(Tail(b)) = Len(b) - 1 /\ DOMAIN Tail(b) = 1..(Len(b) - 1)
      /\ \A i \in 1..Len(Tail(b)) : Tail(b)[i] = b[i + 1]
  BY HeadTailProperties
<1>2. ASSUME NEW v \in Valid, NEW i \in DOMAIN b, ~b[i].oversized,
             NEW j \in DOMAIN b[i].decisions, b[i].decisions[j] = v
      PROVE  \/ v \in Bans(Tail(b))
             \/ ~Head(b).oversized /\ v \in Elements(Head(b).decisions)
  <2>1. CASE i = 1
    BY <1>1, <1>2, <2>1 DEF Elements
  <2>2. CASE i # 1
    <3>1. i - 1 \in DOMAIN Tail(b) /\ Tail(b)[i - 1] = b[i]
      BY <1>1, <2>2
    <3>2. QED
      BY <1>2, <3>1 DEF Bans
  <2>3. QED
    BY <2>1, <2>2
<1>3. QED
  BY <1>2 DEF Bans

-----------------------------------------------------------------------------
(* Steps                                                                   *)

\* What Continue leaves of the request.
LEMMA ContinueEffect ==
  ASSUME TypeOK, NEW h \in Handlers, handler[h].todo # <<>>, Continue(h)
  PROVE  /\ handler' = [handler EXCEPT ![h] = handler'[h]] /\ handler'[h] \in Request
         /\ handler'[h].pc = "decisions" /\ handler'[h].todo = Tail(handler[h].todo)
         /\ handler'[h].machine = handler[h].machine
         /\ handler'[h].batch = handler[h].batch
         /\ exempted' = exempted \ {h}
<1> DEFINE new == [handler[h] EXCEPT !.pc = "decisions", !.todo = Tail(handler[h].todo)]
<1>1. handler[h] \in Request /\ handler \in [Handlers -> Request]
  BY DEF TypeOK
<1>2. Tail(handler[h].todo) \in Seq(Values)
  BY <1>1, HeadAndTail DEF Request
<1>3. /\ new \in Request /\ new.pc = "decisions" /\ new.todo = Tail(handler[h].todo)
      /\ new.machine = handler[h].machine /\ new.batch = handler[h].batch
  BY <1>1, <1>2 DEF Request
<1>4. handler' = [handler EXCEPT ![h] = new] /\ exempted' = exempted \ {h}
  BY <1>1 DEF Continue
<1> HIDE DEF new
<1>5. QED
  BY <1>1, <1>3, <1>4

\* What a new pc leaves of it.
LEMMA MoveEffect ==
  ASSUME TypeOK, NEW h \in Handlers,
         NEW pc \in {"idle", "check", "signals", "decisions", "dedup", "create"},
         handler' = [handler EXCEPT ![h].pc = pc]
  PROVE  /\ handler' = [handler EXCEPT ![h] = handler'[h]] /\ handler'[h] \in Request
         /\ handler'[h].pc = pc /\ handler'[h].todo = handler[h].todo
         /\ handler'[h].machine = handler[h].machine
         /\ handler'[h].batch = handler[h].batch
<1>1. handler[h] \in Request /\ handler \in [Handlers -> Request]
  BY DEF TypeOK
<1>2. [handler[h] EXCEPT !.pc = pc] \in Request
  BY <1>1 DEF Request
<1>3. QED
  BY <1>1, <1>2 DEF Request

LEMMA NoRequestType == NoRequest \in Request
BY MachinesAssumption DEF NoRequest, Request, Nobody

LEMMA FinishEffect ==
  ASSUME TypeOK, NEW h \in Handlers, Finish(h)
  PROVE  /\ handler' = [handler EXCEPT ![h] = handler'[h]] /\ handler'[h] \in Request
         /\ handler'[h].pc = "idle"
         /\ owed' = [owed EXCEPT ![h] = owed'[h]] /\ owed'[h] \subseteq Values
         /\ decided' = [decided EXCEPT ![h] = decided'[h]] /\ decided'[h] \subseteq Values
         /\ exempted' = exempted \ {h} /\ revoked' = revoked \ {h}
BY NoRequestType DEF TypeOK, Finish, NoRequest

LEMMA SettleEffect ==
  ASSUME TypeOK, NEW h \in Handlers, handler[h].todo # <<>>, Settle(h)
  PROVE  /\ decided' = [decided EXCEPT ![h] = decided'[h]]
         /\ decided'[h] = decided[h] \cup {Current(h)}
         /\ Current(h) \in Values
<1>1. handler[h].todo \in Seq(Values) /\ decided \in [Handlers -> SUBSET Values]
  BY DEF TypeOK, Request
<1>2. Current(h) \in Values
  BY <1>1, HeadAndTail DEF Current
<1>3. QED
  BY <1>1, <1>2 DEF Settle

\* A step of handler h: the other handlers' requests and observers are as
\* they were, and its own come out well typed.
Alone(h) ==
  /\ UNCHANGED adminVars
  /\ handler' = [handler EXCEPT ![h] = handler'[h]] /\ handler'[h] \in Request
  /\ owed' = [owed EXCEPT ![h] = owed'[h]] /\ owed'[h] \subseteq Values
  /\ decided' = [decided EXCEPT ![h] = decided'[h]] /\ decided'[h] \subseteq Values
  /\ exempted' \in {exempted, exempted \ {h}}
  /\ revoked' \in {revoked, revoked \ {h}}
  /\ Fault \/ UNCHANGED faults

\* The value a handler is about to ban.
LEMMA CurrentType ==
  ASSUME TypeOK, NEW h \in Handlers, handler[h].todo # <<>>
  PROVE  Current(h) \in Values
<1>1. handler[h].todo \in Seq(Values)
  BY DEF TypeOK, Request
<1>2. QED
  BY <1>1, HeadAndTail DEF Current

LEMMA AloneKeeps ==
  ASSUME IngestInv, NEW h \in Handlers, Alone(h), HandlerInv(h)',
         active' \in [Values -> Nat]
  PROVE  IngestInv'
<1>1. TypeOK'
  <2>1. faults' \in 0..MaxFaults
    BY BatchesAssumption DEF IngestInv, TypeOK, Alone, Fault
  <2>2. QED
    BY <2>1 DEF IngestInv, TypeOK, Alone, adminVars
<1>2. ASSUME NEW g \in Handlers \ {h} PROVE HandlerInv(g)'
  <2>1. /\ handler'[g] = handler[g] /\ owed'[g] = owed[g] /\ decided'[g] = decided[g]
        /\ g \in exempted' <=> g \in exempted
        /\ g \in revoked' <=> g \in revoked
        /\ allow' = allow /\ status' = status
    BY DEF Alone, IngestInv, TypeOK, adminVars
  <2>2. faults' = 0 => faults = 0
    BY BatchesAssumption DEF Alone, IngestInv, TypeOK, Fault
  <2>3. QED
    BY <2>1, <2>2 DEF IngestInv, HandlerInv, Looked, Checked, At, Current, Known, Left
<1>3. QED
  BY <1>1, <1>2 DEF IngestInv

LEMMA ReceiveStep ==
  ASSUME IngestInv, NEW h \in Handlers, NEW m \in Machines, NEW b \in Batches,
         Receive(h, m, b)
  PROVE  IngestInv'
<1>0. TypeOK
  BY DEF IngestInv
<1>1. b \in Seq(Signal) /\ Valid \subseteq Values
  BY BatchesAssumption, ValuesAssumption
<1>2. /\ handler'[h] = [pc |-> "check", machine |-> m, batch |-> b, todo |-> <<>>]
      /\ handler' = [handler EXCEPT ![h] = handler'[h]]
      /\ owed'[h] = Bans(b) /\ owed' = [owed EXCEPT ![h] = owed'[h]]
      /\ UNCHANGED <<adminVars, active, decided, exempted, revoked, faults>>
  BY <1>0 DEF Receive, TypeOK
<1>3. Bans(b) \subseteq Values /\ <<>> \in Seq(Values)
  BY <1>1 DEF Bans
<1>4. handler'[h] \in Request
  BY <1>1, <1>2, <1>3 DEF Request
<1>5. Alone(h)
  BY <1>0, <1>2, <1>3, <1>4 DEF Alone, TypeOK
<1>6. HandlerInv(h)'
  BY <1>2 DEF HandlerInv, Looked, Checked, At, Left
<1>7. QED
  BY <1>0, <1>2, <1>5, <1>6, AloneKeeps DEF TypeOK

\* The end of a request, whatever of it was left.
LEMMA FinishStep ==
  ASSUME IngestInv, NEW h \in Handlers, Finish(h), UNCHANGED <<adminVars, active>>,
         Fault \/ UNCHANGED faults
  PROVE  IngestInv'
<1>0. TypeOK
  BY DEF IngestInv
<1>1. Alone(h)
  BY <1>0, FinishEffect DEF Alone
<1>2. HandlerInv(h)'
  BY <1>0, FinishEffect DEF HandlerInv, Looked, Checked, At
<1>3. QED
  BY <1>0, <1>1, <1>2, AloneKeeps DEF TypeOK

LEMMA CheckMachineStep ==
  ASSUME IngestInv, NEW h \in Handlers, CheckMachine(h)
  PROVE  IngestInv'
<1>0. TypeOK /\ HandlerInv(h)
  BY DEF IngestInv
<1>1. CASE ~Known(handler[h].machine)
  BY <1>1, FinishStep DEF CheckMachine
<1>2. CASE Known(handler[h].machine)
  <2>1. /\ handler' = [handler EXCEPT ![h].pc = "signals"] /\ handler[h].pc = "check"
        /\ UNCHANGED <<adminVars, active, observerVars, faults>>
    BY <1>2 DEF CheckMachine, At
  <2>2. Alone(h)
    BY <1>0, <2>1, MoveEffect DEF Alone, observerVars, TypeOK
  <2>3. HandlerInv(h)'
    BY <1>0, <1>2, <2>1, MoveEffect
       DEF HandlerInv, Looked, Checked, At, Left, Known, observerVars, adminVars
  <2>4. QED
    BY <1>0, <2>1, <2>2, <2>3, AloneKeeps DEF TypeOK
<1>3. QED
  BY <1>1, <1>2

\* The next signal of the batch, with its decisions or without.
LEMMA SignalStep ==
  ASSUME IngestInv, NEW h \in Handlers,
         SkipOversized(h) \/ StoreSignal(h) \/ StoreSignalFails(h)
  PROVE  IngestInv'
<1>0. TypeOK /\ HandlerInv(h) /\ handler[h] \in Request /\ handler \in [Handlers -> Request]
  BY DEF IngestInv, TypeOK
<1> DEFINE b == handler[h].batch
<1>1. /\ b \in Seq(Signal) /\ b # <<>> /\ handler[h].pc = "signals"
      /\ UNCHANGED <<adminVars, active, observerVars>>
      /\ Fault \/ UNCHANGED faults
  BY <1>0 DEF SkipOversized, StoreSignal, StoreSignalFails, At, Request
<1>2. Head(b) \in Signal /\ Tail(b) \in Seq(Signal)
  BY <1>1, HeadAndTail
<1>3. ASSUME handler' = [handler EXCEPT ![h].batch = Tail(b)]
      PROVE  /\ handler' = [handler EXCEPT ![h] = handler'[h]] /\ handler'[h] \in Request
             /\ handler'[h].pc = "signals" /\ handler'[h].batch = Tail(b)
             /\ handler'[h].machine = handler[h].machine
  <2>1. /\ [handler[h] EXCEPT !.batch = Tail(b)] \in Request
        /\ [handler[h] EXCEPT !.batch = Tail(b)].pc = handler[h].pc
        /\ [handler[h] EXCEPT !.batch = Tail(b)].batch = Tail(b)
        /\ [handler[h] EXCEPT !.batch = Tail(b)].machine = handler[h].machine
    BY <1>0, <1>2 DEF Request
  <2>2. QED
    BY <1>0, <1>1, <1>3, <2>1
<1>4. CASE SkipOversized(h)
  <2>1. /\ handler' = [handler EXCEPT ![h].batch = Tail(b)] /\ Head(b).oversized
        /\ UNCHANGED faults
    BY <1>4 DEF SkipOversized
  <2>2. Bans(b) \subseteq Bans(Tail(b))
    BY <1>1, <2>1, BansOfTail
  <2>3. Alone(h)
    BY <1>0, <1>1, <1>3, <2>1 DEF Alone, observerVars, TypeOK
  <2>4. HandlerInv(h)'
    BY <1>0, <1>1, <1>3, <2>1, <2>2
       DEF HandlerInv, Looked, Checked, At, Left, Known, observerVars, adminVars
  <2>5. QED
    BY <1>0, <1>1, <2>3, <2>4, AloneKeeps DEF TypeOK
<1>5. CASE StoreSignal(h)
  <2> DEFINE new == [handler[h] EXCEPT !.pc = "decisions", !.todo = Head(b).decisions,
                                       !.batch = Tail(b)]
  <2>1. handler' = [handler EXCEPT ![h] = new] /\ ~Head(b).oversized /\ UNCHANGED faults
    BY <1>0, <1>5 DEF StoreSignal
  <2>2. /\ new \in Request /\ new.pc = "decisions" /\ new.todo = Head(b).decisions
        /\ new.batch = Tail(b) /\ new.machine = handler[h].machine
    BY <1>0, <1>2 DEF Request, Signal
  <2>3. Bans(b) \subseteq Bans(Tail(b)) \cup (Elements(Head(b).decisions) \cap Valid)
    BY <1>1, <2>1, BansOfTail
  <2> HIDE DEF new, b
  <2>4. handler'[h] = new
    BY <1>0, <2>1
  <2>5. Alone(h)
    BY <1>0, <1>1, <2>1, <2>2, <2>4 DEF Alone, observerVars, TypeOK
  <2>6. owed[h] \subseteq decided[h] \cup Bans(b) \/ faults # 0
    BY <1>0, <1>1 DEF HandlerInv, Looked, At, Left, b
  <2>7. Left(h)' = Elements(Head(b).decisions) \cap Valid
    BY <2>2, <2>4 DEF Left, At, Looked
  <2>8. HandlerInv(h)'
    BY <1>0, <1>1, <2>1, <2>2, <2>3, <2>4, <2>6, <2>7
       DEF HandlerInv, Looked, Checked, At, Known, observerVars, adminVars
  <2>9. QED
    BY <1>0, <1>1, <2>5, <2>8, AloneKeeps DEF TypeOK
<1>6. CASE StoreSignalFails(h)
  <2>1. /\ handler' = [handler EXCEPT ![h].batch = Tail(b)] /\ Fault
    BY <1>6 DEF StoreSignalFails
  <2>2. faults' # 0
    BY <1>0, <2>1, BatchesAssumption DEF Fault, TypeOK
  <2>3. Alone(h)
    BY <1>0, <1>1, <1>3, <2>1 DEF Alone, observerVars, TypeOK
  <2>4. HandlerInv(h)'
    BY <1>0, <1>1, <1>3, <2>1, <2>2
       DEF HandlerInv, Looked, Checked, At, Known, observerVars, adminVars
  <2>5. QED
    BY <1>0, <1>1, <2>3, <2>4, AloneKeeps DEF TypeOK
<1>7. QED
  BY <1>4, <1>5, <1>6

\* On to the next decision: the value is settled, or not valid, or a
\* statement has failed.
LEMMA ContinueStep ==
  ASSUME IngestInv, NEW h \in Handlers, At(h, "decisions") \/ Looked(h),
         handler[h].todo # <<>>, Continue(h),
         \/ Settle(h) /\ UNCHANGED faults
         \/ Current(h) \notin Valid /\ UNCHANGED <<decided, faults>>
         \/ Fault /\ UNCHANGED decided
         \/ Fault /\ Settle(h),
         UNCHANGED <<adminVars, owed, revoked>>, active' \in [Values -> Nat]
  PROVE  IngestInv'
<1>0. TypeOK /\ HandlerInv(h)
  BY DEF IngestInv
<1>1. /\ handler' = [handler EXCEPT ![h] = handler'[h]] /\ handler'[h] \in Request
      /\ handler'[h].pc = "decisions" /\ handler'[h].todo = Tail(handler[h].todo)
      /\ handler'[h].machine = handler[h].machine
      /\ handler'[h].batch = handler[h].batch
      /\ exempted' = exempted \ {h}
  BY <1>0, ContinueEffect
<1>2. /\ decided' = [decided EXCEPT ![h] = decided'[h]] /\ decided'[h] \subseteq Values
      /\ decided[h] \subseteq decided'[h]
      /\ Current(h) \in Valid /\ faults' = 0 => Current(h) \in decided'[h]
  <2>1. Fault => faults' # 0
    BY <1>0, BatchesAssumption DEF TypeOK, Fault
  <2>2. CASE Settle(h)
    BY <1>0, <2>2, SettleEffect DEF TypeOK
  <2>3. CASE UNCHANGED decided
    BY <1>0, <2>1, <2>3 DEF TypeOK, Settle
  <2>4. QED
    BY <2>2, <2>3
<1>3. Alone(h)
  BY <1>0, <1>1, <1>2 DEF Alone, TypeOK
<1>4. /\ Elements(handler[h].todo) \subseteq {Current(h)} \cup Elements(handler'[h].todo)
      /\ Left(h) = Elements(handler[h].todo) \cap Valid
      /\ Left(h)' = Elements(handler'[h].todo) \cap Valid
  <2>1. handler[h].todo \in Seq(Values)
    BY <1>0 DEF TypeOK, Request
  <2>2. QED
    BY <1>1, <2>1, HeadAndTail DEF Left, Current, At, Looked
<1>5. faults' = 0 => faults = 0
  BY <1>0, BatchesAssumption DEF TypeOK, Fault
<1>6. ~At(h, "idle") /\ Checked(h)
  BY DEF At, Looked, Checked
<1>7. HandlerInv(h)'
  BY <1>0, <1>1, <1>2, <1>4, <1>5, <1>6 DEF HandlerInv, Looked, Checked, At, Known, adminVars
<1>8. QED
  BY <1>3, <1>7, AloneKeeps

\* On to the next statement about the same decision.
LEMMA StayStep ==
  ASSUME IngestInv, NEW h \in Handlers, handler[h].todo # <<>>,
         \/ At(h, "decisions") /\ Current(h) \notin allow
         \/ At(h, "dedup"),
         NEW pc \in {"dedup", "create"}, handler' = [handler EXCEPT ![h].pc = pc],
         UNCHANGED <<adminVars, active, observerVars>>, Fault \/ UNCHANGED faults
  PROVE  IngestInv'
<1>0. TypeOK /\ HandlerInv(h)
  BY DEF IngestInv
<1>1. Alone(h)
  BY <1>0, MoveEffect DEF Alone, observerVars, TypeOK
<1>2. /\ handler'[h].pc = pc /\ handler'[h].todo = handler[h].todo
      /\ handler'[h].machine = handler[h].machine /\ handler'[h].batch = handler[h].batch
  BY <1>0, MoveEffect
<1>3. faults' = 0 => faults = 0
  BY <1>0, BatchesAssumption DEF TypeOK, Fault
<1>4. HandlerInv(h)'
  BY <1>0, <1>2, <1>3
     DEF HandlerInv, Looked, Checked, At, Current, Left, Known, observerVars, adminVars
<1>5. QED
  BY <1>0, <1>1, <1>4, AloneKeeps DEF TypeOK

LEMMA EndSignalStep ==
  ASSUME IngestInv, NEW h \in Handlers, EndSignal(h)
  PROVE  IngestInv'
<1>0. TypeOK /\ HandlerInv(h)
  BY DEF IngestInv
<1>1. /\ handler' = [handler EXCEPT ![h].pc = "signals"]
      /\ handler[h].pc = "decisions" /\ handler[h].todo = <<>>
      /\ UNCHANGED <<adminVars, active, observerVars, faults>>
  BY DEF EndSignal, At
<1>2. Alone(h)
  BY <1>0, <1>1, MoveEffect DEF Alone, observerVars, TypeOK
<1>3. Left(h) = {}
  BY <1>1, NoElements DEF Left
<1>4. HandlerInv(h)'
  BY <1>0, <1>1, <1>3, MoveEffect
     DEF HandlerInv, Looked, Checked, At, Known, Left, observerVars, adminVars
<1>5. QED
  BY <1>0, <1>1, <1>2, <1>4, AloneKeeps DEF TypeOK

\* The insert adds one decision of its value.
LEMMA CreateEffect ==
  ASSUME IngestInv, NEW h \in Handlers, CreateDecision(h)
  PROVE  /\ Current(h) \in Values
         /\ active' = [active EXCEPT ![Current(h)] = active[Current(h)] + 1]
         /\ active' \in [Values -> Nat]
<1>1. TypeOK /\ handler[h].todo # <<>>
  BY DEF IngestInv, HandlerInv, CreateDecision, Looked
<1>2. Current(h) \in Values
  BY <1>1, CurrentType
<1>3. QED
  BY <1>1, <1>2 DEF CreateDecision, TypeOK

LEMMA HandlerKeeps ==
  ASSUME IngestInv, NEW h \in Handlers, HandlerStep(h) \/ HandlerFault(h)
  PROVE  IngestInv'
<1>0. TypeOK /\ HandlerInv(h) /\ active \in [Values -> Nat]
  BY DEF IngestInv, TypeOK
<1>l. Looked(h) => handler[h].todo # <<>>
  BY <1>0 DEF HandlerInv
<1>1. CASE CheckMachine(h)
  BY <1>1, CheckMachineStep
<1>2. CASE SkipOversized(h) \/ StoreSignal(h) \/ StoreSignalFails(h)
  BY <1>2, SignalStep
<1>3. CASE SkipInvalid(h)
  BY <1>0, <1>3, ContinueStep DEF SkipInvalid
<1>4. CASE CheckAllowlist(h)
  <2>1. CASE Current(h) \in allow
    BY <1>0, <1>4, <2>1, ContinueStep DEF CheckAllowlist
  <2>2. CASE Current(h) \notin allow
    BY <1>4, <2>2, StayStep DEF CheckAllowlist, observerVars
  <2>3. QED
    BY <2>1, <2>2
<1>5. CASE CheckAllowlistFails(h)
  BY <1>0, <1>5, ContinueStep DEF CheckAllowlistFails
<1>6. CASE Dedup(h)
  <2>1. CASE HasActive(Current(h))
    BY <1>0, <1>6, <1>l, <2>1, ContinueStep DEF Dedup, Looked
  <2>2. CASE ~HasActive(Current(h))
    BY <1>6, <1>l, <2>2, StayStep DEF Dedup, Looked, observerVars
  <2>3. QED
    BY <2>1, <2>2
<1>7. CASE DedupFails(h)
  BY <1>7, <1>l, StayStep DEF DedupFails, Looked, observerVars
<1>8. CASE CreateDecision(h)
  BY <1>8, <1>l, ContinueStep, CreateEffect DEF CreateDecision, Looked
<1>9. CASE CreateDecisionFails(h)
  BY <1>0, <1>9, <1>l, ContinueStep DEF CreateDecisionFails, Looked
<1>10. CASE EndSignal(h)
  BY <1>10, EndSignalStep
<1>11. CASE Reply(h) \/ Abandon(h)
  BY <1>11, FinishStep DEF Reply, Abandon
<1>12. QED
  BY <1>1, <1>2, <1>3, <1>4, <1>5, <1>6, <1>7, <1>8, <1>9, <1>10, <1>11
     DEF HandlerStep, HandlerFault

\* What admins, the cleaner and the syncer do meanwhile.
LEMMA EnvironmentKeeps ==
  ASSUME IngestInv, Environment
  PROVE  IngestInv'
<1>0. TypeOK /\ Valid \subseteq Values
  BY ValuesAssumption DEF IngestInv
<1>1. UNCHANGED <<handler, owed, decided, faults>>
  BY DEF Environment, Allowlist, Unlist, DecisionEnds, OtherDecision, Admit, Revoke,
         observerVars
<1>2. CASE \E v \in Valid : Allowlist(v)
  BY <1>0, <1>1, <1>2 DEF Allowlist, IngestInv, TypeOK, HandlerInv, Looked, Checked, At,
                          Current, Left, Known
<1>3. CASE \E v \in Valid : Unlist(v)
  BY <1>0, <1>1, <1>3 DEF Unlist, IngestInv, TypeOK, HandlerInv, Looked, Checked, At,
                          Current, Left, Known, observerVars
<1>4. CASE \E v \in Valid : DecisionEnds(v)
  <2>1. active' \in [Values -> Nat]
    BY <1>0, <1>4 DEF DecisionEnds, TypeOK
  <2>2. QED
    BY <1>0, <1>1, <1>4, <2>1 DEF DecisionEnds, IngestInv, TypeOK, HandlerInv, Looked,
       Checked, At, Current, Left, Known, observerVars, adminVars
<1>5. CASE \E v \in Valid : OtherDecision(v)
  BY <1>0, <1>1, <1>5 DEF OtherDecision, IngestInv, TypeOK, HandlerInv, Looked, Checked, At,
                          Current, Left, Known, observerVars
<1>6. CASE \E m \in Machines : Admit(m)
  <2>1. PICK m \in Machines : Admit(m)
    BY <1>6
  <2>2. /\ UNCHANGED <<allow, active, others, observerVars>>
        /\ status' \in [Machines -> {"pending", "validated", "blocked", "absent"}]
        /\ \A n \in Machines : Known(n) => Known(n)'
    BY <1>0, <2>1 DEF Admit, TypeOK, Known
  <2>3. \A h \in Handlers : handler[h].machine \in Machines
    BY <1>0 DEF TypeOK, Request
  <2>4. QED
    BY <1>0, <1>1, <2>2, <2>3 DEF IngestInv, TypeOK, HandlerInv, Looked, Checked, At,
                                  Current, Left, observerVars
<1>7. CASE \E m \in Machines : Revoke(m, "blocked") \/ Revoke(m, "absent")
  <2>1. PICK m \in Machines, new \in {"blocked", "absent"} : Revoke(m, new)
    BY <1>7
  <2>2. /\ UNCHANGED <<allow, active, others, exempted>>
        /\ status' \in [Machines -> {"pending", "validated", "blocked", "absent"}]
        /\ \A n \in Machines \ {m} : Known(n) => Known(n)'
        /\ revoked' = revoked \cup {h \in Handlers : Checked(h) /\ handler[h].machine = m}
    BY <1>0, <2>1 DEF Revoke, TypeOK, Known
  <2>3. \A h \in Handlers : handler[h].machine \in Machines
    BY <1>0 DEF TypeOK, Request
  <2>4. QED
    BY <1>0, <1>1, <2>2, <2>3 DEF IngestInv, TypeOK, HandlerInv, Looked, Checked, At,
                                  Current, Left
<1>8. QED
  BY <1>2, <1>3, <1>4, <1>5, <1>6, <1>7 DEF Environment

LEMMA IngestStep == IngestInv /\ [Next]_vars => IngestInv'
<1>1. IngestInv /\ UNCHANGED vars => IngestInv'
  BY DEF vars, IngestInv, TypeOK, HandlerInv, Looked, Checked, At, Current, Left, Known
<1>2. QED
  BY <1>1, ReceiveStep, HandlerKeeps, EnvironmentKeeps DEF Next

LEMMA IngestInvHolds == Spec => []IngestInv
<1>1. Init => IngestInv
  <2>1. Init => TypeOK
    BY NoRequestType, BatchesAssumption DEF Init, TypeOK
  <2>2. Init => \A h \in Handlers : HandlerInv(h)
    BY DEF Init, HandlerInv, Looked, Checked, At, NoRequest
  <2>3. QED
    BY <2>1, <2>2 DEF IngestInv
<1>2. QED
  BY <1>1, IngestStep, PTL DEF Spec

-----------------------------------------------------------------------------
(* Duplicates                                                              *)

LEMMA CreatingIsFinite ==
  ASSUME NEW v
  PROVE  /\ IsFiniteSet(Creating(v)) /\ Cardinality(Creating(v)) \in Nat
         /\ Cardinality(Creating(v)) <= Cardinality(Handlers)
         /\ IsFiniteSet(Creating(v))' /\ Cardinality(Creating(v))' \in Nat
         /\ Cardinality(Creating(v))' <= Cardinality(Handlers)
         /\ Cardinality(Handlers) \in Nat
<1>1. Creating(v) \subseteq Handlers /\ Creating(v)' \subseteq Handlers
  BY DEF Creating
<1>2. QED
  BY <1>1, HandlersAssumption, FS_Subset, FS_CardinalityType

\* As long as no handler comes to the insert, no value has more of them there.
LEMMA NoneArrives ==
  ASSUME IngestInv, DuplicatesBounded, NEW v \in Values,
         Creating(v)' \subseteq Creating(v), active'[v] \in Nat, active'[v] <= active[v],
         Fault \/ UNCHANGED faults
  PROVE  active'[v] + Cardinality(Creating(v)') <= Cardinality(Handlers) + faults'
<1>1. Cardinality(Creating(v)') <= Cardinality(Creating(v))
  BY CreatingIsFinite, FS_Subset
<1>2. active[v] \in Nat /\ faults \in Nat /\ faults' \in Nat /\ faults <= faults'
  BY BatchesAssumption DEF IngestInv, TypeOK, Fault
<1>3. active[v] + Cardinality(Creating(v)) <= Cardinality(Handlers) + faults
  BY DEF DuplicatesBounded
<1>4. QED
  BY <1>1, <1>2, <1>3, CreatingIsFinite

\* A step of handler h alone that does not take it to the insert.
LEMMA ElsewhereKeeps ==
  ASSUME IngestInv, DuplicatesBounded, NEW h \in Handlers,
         handler' = [handler EXCEPT ![h] = handler'[h]], handler'[h].pc # "create",
         UNCHANGED active, Fault \/ UNCHANGED faults
  PROVE  DuplicatesBounded'
<1>1. ASSUME NEW v \in Values PROVE Creating(v)' \subseteq Creating(v)
  BY DEF Creating, At, Current, IngestInv, TypeOK
<1>2. QED
  BY <1>1, NoneArrives DEF DuplicatesBounded, IngestInv, TypeOK

LEMMA DedupKeeps ==
  ASSUME IngestInv, DuplicatesBounded, NEW h \in Handlers, Dedup(h)
  PROVE  DuplicatesBounded'
<1>0. TypeOK /\ handler \in [Handlers -> Request] /\ handler[h].todo # <<>>
  BY DEF IngestInv, TypeOK, HandlerInv, Dedup, Looked
<1>1. CASE HasActive(Current(h))
  BY <1>0, <1>1, ContinueEffect, ElsewhereKeeps DEF Dedup
<1>2. CASE ~HasActive(Current(h))
  <2>1. handler' = [handler EXCEPT ![h].pc = "create"] /\ UNCHANGED <<active, faults>>
    BY <1>2 DEF Dedup
  <2>2. /\ handler' = [handler EXCEPT ![h] = handler'[h]]
        /\ handler'[h].todo = handler[h].todo
    BY <1>0, <2>1, MoveEffect
  <2>3. ASSUME NEW v \in Values
        PROVE  active'[v] + Cardinality(Creating(v)') <= Cardinality(Handlers) + faults'
    <3>1. CASE v = Current(h)
      <4>1. active'[v] = 0 /\ faults' \in Nat
        BY <1>0, <1>2, <2>1, <3>1, BatchesAssumption DEF HasActive, TypeOK
      <4>2. QED
        BY <4>1, CreatingIsFinite
    <3>2. CASE v # Current(h)
      <4>1. Creating(v)' \subseteq Creating(v)
        BY <1>0, <2>2, <3>2 DEF Creating, At, Current
      <4>2. QED
        BY <1>0, <2>1, <4>1, NoneArrives DEF TypeOK
    <3>3. QED
      BY <3>1, <3>2
  <2>4. QED
    BY <2>3 DEF DuplicatesBounded
<1>3. QED
  BY <1>1, <1>2

LEMMA DedupFailsKeeps ==
  ASSUME IngestInv, DuplicatesBounded, NEW h \in Handlers, DedupFails(h)
  PROVE  DuplicatesBounded'
<1>0. TypeOK /\ handler \in [Handlers -> Request]
  BY DEF IngestInv, TypeOK
<1>1. /\ handler' = [handler EXCEPT ![h] = handler'[h]]
      /\ UNCHANGED active /\ faults' = faults + 1 /\ faults \in Nat
  BY <1>0, MoveEffect, BatchesAssumption DEF DedupFails, observerVars, Fault, TypeOK
<1>2. ASSUME NEW v \in Values
      PROVE  active'[v] + Cardinality(Creating(v)') <= Cardinality(Handlers) + faults'
  <2>1. Creating(v)' \subseteq Creating(v) \cup {h}
    BY <1>0, <1>1 DEF Creating, At, Current
  <2>2. /\ IsFiniteSet(Creating(v) \cup {h})
        /\ Cardinality(Creating(v) \cup {h}) <= Cardinality(Creating(v)) + 1
        /\ Cardinality(Creating(v) \cup {h}) \in Nat
    <3>1. /\ IsFiniteSet(Creating(v)) /\ Cardinality(Creating(v)) \in Nat
          /\ IsFiniteSet(Creating(v) \cup {h})
      BY CreatingIsFinite, FS_AddElement
    <3>2. Cardinality(Creating(v) \cup {h}) =
            IF h \in Creating(v) THEN Cardinality(Creating(v)) ELSE Cardinality(Creating(v)) + 1
      BY <3>1, FS_AddElement
    <3>3. QED
      BY <3>1, <3>2
  <2>3. Cardinality(Creating(v)') <= Cardinality(Creating(v) \cup {h})
    BY <2>1, <2>2, FS_Subset
  <2>4. active[v] \in Nat /\ active'[v] = active[v]
        /\ active[v] + Cardinality(Creating(v)) <= Cardinality(Handlers) + faults
    BY <1>0, <1>1 DEF DuplicatesBounded, TypeOK
  <2>5. QED
    BY <1>1, <2>2, <2>3, <2>4, CreatingIsFinite
<1>3. QED
  BY <1>2 DEF DuplicatesBounded

LEMMA CreateKeeps ==
  ASSUME IngestInv, DuplicatesBounded, NEW h \in Handlers, CreateDecision(h)
  PROVE  DuplicatesBounded'
<1>0. TypeOK /\ handler \in [Handlers -> Request] /\ handler[h].todo # <<>>
  BY DEF IngestInv, TypeOK, HandlerInv, CreateDecision, Looked
<1>1. /\ handler' = [handler EXCEPT ![h] = handler'[h]]
      /\ handler'[h].pc = "decisions" /\ UNCHANGED faults
      /\ At(h, "create") /\ faults \in Nat
  BY <1>0, ContinueEffect, BatchesAssumption DEF CreateDecision, TypeOK
<1>2. ASSUME NEW v \in Values
      PROVE  active'[v] + Cardinality(Creating(v)') <= Cardinality(Handlers) + faults'
  <2>1. Creating(v)' \subseteq Creating(v) \ {h}
    BY <1>0, <1>1 DEF Creating, At, Current
  <2>2. CASE v # Current(h)
    <3>1. active'[v] = active[v] /\ active[v] \in Nat
      BY <1>0, <2>2, CreateEffect DEF TypeOK
    <3>2. QED
      BY <1>1, <2>1, <3>1, NoneArrives
  <2>3. CASE v = Current(h)
    <3>1. active'[v] = active[v] + 1 /\ active[v] \in Nat
          /\ active[v] + Cardinality(Creating(v)) <= Cardinality(Handlers) + faults
      BY <1>0, <2>3, CreateEffect DEF DuplicatesBounded, TypeOK
    <3>2. h \in Creating(v)
      BY <1>1, <2>3 DEF Creating
    <3>3. /\ IsFiniteSet(Creating(v) \ {h})
          /\ Cardinality(Creating(v) \ {h}) = Cardinality(Creating(v)) - 1
      BY <3>2, CreatingIsFinite, FS_RemoveElement
    <3>4. Cardinality(Creating(v)') <= Cardinality(Creating(v)) - 1
      BY <2>1, <3>3, FS_Subset
    <3>5. QED
      BY <1>1, <3>1, <3>4, CreatingIsFinite
  <2>4. QED
    BY <2>2, <2>3
<1>3. QED
  BY <1>2 DEF DuplicatesBounded

LEMMA BoundStep == IngestInv /\ DuplicatesBounded /\ [Next]_vars => DuplicatesBounded'
<1> SUFFICES ASSUME IngestInv, DuplicatesBounded, [Next]_vars PROVE DuplicatesBounded'
  OBVIOUS
<1>0. TypeOK /\ Valid \subseteq Values /\ handler \in [Handlers -> Request]
  BY ValuesAssumption DEF IngestInv, TypeOK
<1>l. \A h \in Handlers : Looked(h) => handler[h].todo # <<>>
  BY DEF IngestInv, HandlerInv
<1>1. CASE UNCHANGED vars
  BY <1>1 DEF vars, DuplicatesBounded, Creating, At, Current
<1>2. ASSUME NEW h \in Handlers, NEW m \in Machines, NEW b \in Batches, Receive(h, m, b)
      PROVE  DuplicatesBounded'
  BY <1>0, <1>2, ElsewhereKeeps DEF Receive
<1>3. ASSUME NEW h \in Handlers,
             \/ CheckMachine(h) \/ EndSignal(h)
             \/ CheckAllowlist(h) /\ Current(h) \notin allow
      PROVE  DuplicatesBounded'
  <2>1. CASE Finish(h) /\ UNCHANGED <<active, faults>>
    BY <1>0, <2>1, FinishEffect, ElsewhereKeeps
  <2>2. CASE /\ \E pc \in {"signals", "dedup"} : handler' = [handler EXCEPT ![h].pc = pc]
             /\ UNCHANGED <<active, faults>>
    BY <1>0, <2>2, MoveEffect, ElsewhereKeeps
  <2>3. QED
    BY <1>3, <2>1, <2>2 DEF CheckMachine, EndSignal, CheckAllowlist
<1>4. ASSUME NEW h \in Handlers, SkipOversized(h) \/ StoreSignal(h) \/ StoreSignalFails(h)
      PROVE  DuplicatesBounded'
  <2>1. /\ handler' = [handler EXCEPT ![h] = handler'[h]]
        /\ handler'[h].pc # "create"
        /\ UNCHANGED active /\ (Fault \/ UNCHANGED faults)
    <3>1. CASE SkipOversized(h)
      BY <1>0, <3>1 DEF SkipOversized, Request, At
    <3>2. CASE StoreSignal(h)
      BY <1>0, <3>2 DEF StoreSignal, Request, At
    <3>3. CASE StoreSignalFails(h)
      BY <1>0, <3>3 DEF StoreSignalFails, Request, At
    <3>4. QED
      BY <1>4, <3>1, <3>2, <3>3
  <2>2. QED
    BY <2>1, ElsewhereKeeps
<1>5. ASSUME NEW h \in Handlers,
             \/ SkipInvalid(h) \/ CheckAllowlistFails(h) \/ CreateDecisionFails(h)
             \/ CheckAllowlist(h) /\ Current(h) \in allow
      PROVE  DuplicatesBounded'
  <2>1. /\ Continue(h) /\ handler[h].todo # <<>>
        /\ UNCHANGED active /\ (Fault \/ UNCHANGED faults)
    BY <1>5, <1>l DEF SkipInvalid, CheckAllowlistFails, CreateDecisionFails, CheckAllowlist,
                      Looked
  <2>2. QED
    BY <1>0, <2>1, ContinueEffect, ElsewhereKeeps
<1>6. ASSUME NEW h \in Handlers, Reply(h) \/ Abandon(h)
      PROVE  DuplicatesBounded'
  BY <1>0, <1>6, FinishEffect, ElsewhereKeeps DEF Reply, Abandon
<1>7. CASE Environment
  <2>1. UNCHANGED <<handler, faults>>
    BY <1>7 DEF Environment, Allowlist, Unlist, DecisionEnds, OtherDecision, Admit, Revoke,
       observerVars
  <2>2. ASSUME NEW v \in Values PROVE active'[v] \in Nat /\ active'[v] <= active[v]
    <3>1. CASE UNCHANGED active
      BY <1>0, <3>1 DEF TypeOK
    <3>2. CASE \E w \in Valid : DecisionEnds(w)
      BY <1>0, <3>2 DEF DecisionEnds, TypeOK
    <3>3. QED
      BY <1>7, <3>1, <3>2 DEF Environment, Allowlist, Unlist, OtherDecision, Admit, Revoke
  <2>3. \A v \in Values : Creating(v)' = Creating(v)
    BY <2>1 DEF Creating, At, Current
  <2>4. QED
    BY <2>1, <2>2, <2>3, NoneArrives DEF DuplicatesBounded
<1>8. QED
  BY <1>1, <1>2, <1>3, <1>4, <1>5, <1>6, <1>7, DedupKeeps, DedupFailsKeeps, CreateKeeps
     DEF Next, HandlerStep, HandlerFault

-----------------------------------------------------------------------------
(* Theorems                                                                *)

\* Every variable keeps its type, at every statement of ProcessSignals.
THEOREM IngestTypeCorrect == Spec => []TypeOK
<1>1. IngestInv => TypeOK
  BY DEF IngestInv
<1>2. QED
  BY <1>1, IngestInvHolds, PTL

\* No value of a batch is passed over for another's sake (the continues of
\* ProcessSignals' loops).
THEOREM AnswersAreComplete == Spec => []AnswerComplete
<1>1. IngestInv => AnswerComplete
  BY NoElements DEF IngestInv, HandlerInv, AnswerComplete, At, Left, Looked
<1>2. QED
  BY <1>1, IngestInvHolds, PTL

\* A value is banned against the allowlist only when the entry came after the
\* handler's look (IsAllowlisted, then CreateDecision).
THEOREM AllowlistIsRespected == Spec => AllowlistRespected
<1>1. ASSUME IngestInv, Next, NEW v \in Values, active'[v] > active[v], v \in allow
      PROVE  \E h \in Handlers : /\ At(h, "create") /\ Current(h) = v
                                 /\ h \in exempted
                                 /\ handler'[h] # handler[h]
  <2>1. PICK h \in Handlers : CreateDecision(h)
    <3>0. active \in [Values -> Nat] /\ active[v] \in Nat
      BY <1>1 DEF IngestInv, TypeOK
    <3>1. active' # active
      BY <1>1, <3>0
    <3>2. ~(\E w \in Valid : DecisionEnds(w))
      BY <1>1, <3>0, ValuesAssumption DEF DecisionEnds
    <3>3. QED
      BY <1>1, <3>1, <3>2 DEF Next, Receive, HandlerStep, CheckMachine, SkipOversized, StoreSignal,
         SkipInvalid, CheckAllowlist, Dedup, EndSignal, Reply, HandlerFault, StoreSignalFails,
         CheckAllowlistFails, DedupFails, CreateDecisionFails, Abandon, Environment,
         Allowlist, Unlist, OtherDecision, Admit, Revoke
  <2>2. Current(h) = v
    <3>1. active \in [Values -> Nat] /\ active[v] \in Nat
      BY <1>1 DEF IngestInv, TypeOK
    <3>2. QED
      BY <1>1, <2>1, <3>1, CreateEffect
  <2>3. At(h, "create") /\ Looked(h) /\ handler[h].todo # <<>> /\ h \in exempted
    BY <1>1, <2>1, <2>2 DEF CreateDecision, Looked, IngestInv, HandlerInv
  <2>4. handler'[h].pc = "decisions"
    BY <1>1, <2>1, <2>3, ContinueEffect DEF CreateDecision, IngestInv
  <2>5. QED
    BY <2>2, <2>3, <2>4 DEF At
<1>2. IngestInv /\ [Next]_vars =>
        [\A v \in Values : active'[v] > active[v] /\ v \in allow
           => \E h \in Handlers : /\ At(h, "create") /\ Current(h) = v
                                  /\ h \in exempted
                                  /\ handler'[h] # handler[h]]_vars
  BY <1>1
<1>3. QED
  BY <1>2, IngestInvHolds, PTL DEF Spec, AllowlistRespected

\* A signal of a blocked or deleted machine is stored only when that happened
\* after the check (the middleware's and ProcessSignals' lookups).
THEOREM BlockedIsIgnored == Spec => BlockedIgnored
<1>1. IngestInv /\ [Next]_vars =>
        [\A h \in Handlers :
           At(h, "signals") /\ handler'[h].pc = "decisions" /\ ~Known(handler[h].machine)
             => h \in revoked]_vars
  BY DEF IngestInv, HandlerInv, Checked
<1>2. QED
  BY <1>1, IngestInvHolds, PTL DEF Spec, BlockedIgnored

\* Handlers that look before either inserts can ban a value twice, but never
\* more often than there are handlers, and failed queries (GetActiveDecision,
\* then CreateDecision).
THEOREM DuplicatesAreBounded == Spec => []DuplicatesBounded
<1>1. Init => DuplicatesBounded
  <2>1. Init => \A v \in Values : Creating(v) = {} /\ active[v] = 0 /\ faults = 0
    BY DEF Init, Creating, At, NoRequest
  <2>2. Cardinality({}) = 0 /\ Cardinality(Handlers) \in Nat
    BY HandlersAssumption, FS_EmptySet, FS_CardinalityType
  <2>3. ASSUME Init, NEW v \in Values
        PROVE  active[v] + Cardinality(Creating(v)) <= Cardinality(Handlers) + faults
    <3>1. Creating(v) = {} /\ active[v] = 0 /\ faults = 0
      BY <2>1, <2>3
    <3>2. QED
      BY <2>2, <3>1
  <2>4. QED
    BY <2>3 DEF DuplicatesBounded
<1>2. QED
  BY <1>1, BoundStep, IngestInvHolds, PTL DEF Spec

=============================================================================
