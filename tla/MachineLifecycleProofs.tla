----------------------- MODULE MachineLifecycleProofs -----------------------
(***************************************************************************)
(* Theorems of MachineLifecycle, for all machines, passwords, keys and     *)
(* limits, and any finite number of requests at once.                      *)
(***************************************************************************)
EXTENDS MachineLifecycle, FiniteSetTheorems, TLAPS

-----------------------------------------------------------------------------
(* Types                                                                   *)

\* The placeholders of a request are members of their sets.
LEMMA NoRequestType == NoRequest \in Request
BY PopulationAssumption DEF NoRequest, Request, Nobody, NoSecret, NoKeyId

\* A request that is done leaves the others well typed.
LEMMA DoneType ==
  ASSUME TypeOK, NEW h \in Handlers, Done(h)
  PROVE  req' \in [Handlers -> Request] /\ overtaken' \subseteq Handlers
BY NoRequestType DEF Done, TypeOK

\* So does one that arrives.
LEMMA ArrivalType ==
  ASSUME TypeOK, NEW h \in Handlers, Arrival(h)
  PROVE  TypeOK'
<1>n. /\ NoRequest \in Request
      /\ NoSecret \in Passwords /\ NoKeyId \in Keys
  BY NoRequestType, PopulationAssumption DEF NoSecret, NoKeyId
<1> PICK m \in Machines :
      \/ \E p \in Passwords : LoginBegin(h, m, p) \/ ResetBegin(h, m, p)
      \/ \E k \in Keys : EnrollBegin(h, m, k)
      \/ DeregisterBegin(h, m)
  BY DEF Arrival
<1>1. ASSUME NEW p \in Passwords, LoginBegin(h, m, p) PROVE TypeOK'
  BY <1>1, <1>n DEF LoginBegin, TypeOK, Request, machineVars, observerVars
<1>2. ASSUME NEW pc \in {"enroll", "reset", "deregister"},
             NEW p \in Passwords, NEW k \in Keys, Authenticate(h, m, pc, p, k)
      PROVE  TypeOK'
  <2>1. req' \in [Handlers -> Request]
    BY <1>2 DEF Authenticate, TypeOK, Request
  <2>2. QED
    BY <1>2, <2>1 DEF Authenticate, TypeOK, machineVars, observerVars
<1>3. ASSUME NEW p \in Passwords, ResetBegin(h, m, p) PROVE TypeOK'
  BY <1>2, <1>3, <1>n DEF ResetBegin
<1>4. ASSUME NEW k \in Keys, EnrollBegin(h, m, k) PROVE TypeOK'
  BY <1>2, <1>4, <1>n DEF EnrollBegin
<1>5. CASE DeregisterBegin(h, m)
  BY <1>2, <1>5, <1>n DEF DeregisterBegin
<1>6. QED
  BY <1>1, <1>3, <1>4, <1>5

\* ... and one that takes a step.
LEMMA HandlerType ==
  ASSUME TypeOK, NEW h \in Handlers, HandlerStep(h) \/ Abandon(h)
  PROVE  TypeOK'
<1>r. req[h] \in Request /\ NoSecret \in Passwords
  BY PopulationAssumption DEF TypeOK, NoSecret
<1>1. CASE LoginCheck(h)
  BY <1>1, <1>r, DoneType DEF LoginCheck, TypeOK, Request, machineVars, observerVars
<1>2. CASE LoginIssue(h)
  BY <1>2, <1>r, DoneType DEF LoginIssue, TypeOK, Request, machineVars
<1>3. CASE UseKey(h)
  <2>1. CASE Usable(req[h].key)
    <3>1. req[h].key \in Keys
      BY <1>r DEF Request
    <3>2. key[req[h].key] \in KeyRow
      BY <3>1 DEF TypeOK
    <3>3. [key[req[h].key] EXCEPT !.uses = @ + 1] \in KeyRow
      BY <3>2 DEF KeyRow
    <3>4. key' \in [Keys -> KeyRow]
      BY <1>3, <2>1, <3>1, <3>3 DEF UseKey, TypeOK
    <3>5. [req[h] EXCEPT !.pc = "validate"] \in Request
      BY <1>r DEF Request
    <3>6. req' \in [Handlers -> Request]
      BY <1>3, <2>1, <3>5 DEF UseKey, TypeOK
    <3>7. QED
      BY <1>3, <2>1, <3>4, <3>6 DEF UseKey, TypeOK, machineVars, observerVars
  <2>2. CASE ~Usable(req[h].key)
    BY <1>3, <2>2, DoneType DEF UseKey, TypeOK, machineVars
  <2>3. QED
    BY <2>1, <2>2
<1>4. CASE EnrollMachine(h)
  <2>1. req' \in [Handlers -> Request] /\ overtaken' \subseteq Handlers
    BY <1>4, DoneType DEF EnrollMachine
  <2>2. status' = status \/ status' = [status EXCEPT ![req[h].machine] = "validated"]
    BY <1>4 DEF EnrollMachine
  <2>3. enrolled' = enrolled \/ enrolled' = [enrolled EXCEPT ![req[h].key] = @ + 1]
    BY <1>4 DEF EnrollMachine
  <2>4. status' \in [Machines -> {"absent", "pending", "validated", "blocked"}]
    BY <2>2 DEF TypeOK
  <2>5. enrolled' \in [Keys -> Nat]
    BY <2>3 DEF TypeOK
  <2>6. QED
    BY <1>4, <2>1, <2>4, <2>5 DEF EnrollMachine, TypeOK
<1>5. CASE UpdateMachinePassword(h)
  BY <1>5, <1>r, DoneType DEF UpdateMachinePassword, TypeOK, Request
<1>6. CASE DeleteSelf(h)
  BY <1>6, <1>r, DoneType DEF DeleteSelf, Remove, TypeOK, Request
<1>7. CASE Abandon(h)
  BY <1>7, DoneType, LimitsAssumption DEF Abandon, TypeOK, machineVars
<1>8. QED
  BY <1>1, <1>2, <1>3, <1>4, <1>5, <1>6, <1>7 DEF HandlerStep

\* An admin's statement, a registration and the end of a token touch no request.
LEMMA OthersType ==
  ASSUME TypeOK,
         \/ AdminStep
         \/ \E m \in Machines : TokenExpires(m) \/ \E p \in Passwords : Register(m, p)
  PROVE  TypeOK'
<1>s. NoSecret \in Passwords
  BY PopulationAssumption DEF NoSecret
<1>1. ASSUME NEW m \in Machines, Block(m) \/ Unblock(m) \/ DeleteMachine(m)
      PROVE  TypeOK'
  BY <1>1, <1>s DEF Block, Unblock, DeleteMachine, Remove, TypeOK, observerVars
<1>2. ASSUME NEW k \in Keys, EndKey(k) PROVE TypeOK'
  BY <1>2 DEF EndKey, TypeOK, KeyRow, machineVars, observerVars
<1>3. ASSUME NEW k \in Keys, NEW limit \in Limits, CreateKey(k, limit) PROVE TypeOK'
  BY <1>3 DEF CreateKey, TypeOK, KeyRow, machineVars, observerVars
<1>4. ASSUME NEW m \in Machines, TokenExpires(m) PROVE TypeOK'
  BY <1>4 DEF TokenExpires, TypeOK, machineVars, observerVars
<1>5. ASSUME NEW m \in Machines, NEW p \in Passwords, Register(m, p) PROVE TypeOK'
  BY <1>5 DEF Register, TypeOK, observerVars
<1>6. QED
  BY <1>1, <1>2, <1>3, <1>4, <1>5 DEF AdminStep

\* Every variable keeps its type (all of MachineLifecycle's actions).
THEOREM TypeCorrect == Spec => []TypeOK
<1>1. Init => TypeOK
  BY PopulationAssumption, NoRequestType, LimitsAssumption
     DEF Init, TypeOK, KeyRow, NoKey, NoSecret
<1>2. TypeOK /\ [Next]_vars => TypeOK'
  <2> SUFFICES ASSUME TypeOK, [Next]_vars PROVE TypeOK'
    OBVIOUS
  <2>1. CASE Next
    BY <2>1, ArrivalType, HandlerType, OthersType DEF Next
  <2>2. CASE UNCHANGED vars
    BY <2>2 DEF vars, TypeOK
  <2>3. QED
    BY <2>1, <2>2
<1>3. QED
  BY <1>1, <1>2, PTL DEF Spec

-----------------------------------------------------------------------------
(* Keys and blocks                                                         *)

\* UsesCovered for one key.
Covered(k) ==
  /\ enrolled[k] + Cardinality(Validating(k)) <= key[k].uses
  /\ key[k].uses <= key[k].limit
  /\ key[k].state = "none" => key[k] = NoKey

\* The requests about to enroll with a key are finitely many.
LEMMA ValidatingFinite ==
  ASSUME NEW k \in Keys
  PROVE  IsFiniteSet(Validating(k)) /\ Cardinality(Validating(k)) \in Nat
<1>1. Validating(k) \subseteq Handlers
  BY DEF Validating
<1>2. IsFiniteSet(Validating(k))
  BY <1>1, HandlersAssumption, FS_Subset
<1>3. QED
  BY <1>2, FS_CardinalityType

\* Uses, limits and enrollments are numbers.
LEMMA CountsType ==
  ASSUME TypeOK, NEW k \in Keys
  PROVE  /\ enrolled[k] \in Nat
         /\ key[k] \in KeyRow /\ key[k].uses \in Nat /\ key[k].limit \in Nat
<1>1. key[k] \in KeyRow /\ enrolled[k] \in Nat
  BY DEF TypeOK
<1>2. Limits \cup {0} \subseteq Nat
  BY LimitsAssumption
<1>3. QED
  BY <1>1, <1>2 DEF KeyRow

\* A step that takes no key, writes no enrollment and leads no request to one
\* keeps the account of uses.
LEMMA UsesKept ==
  ASSUME TypeOK, UsesCovered,
         NEW k \in Keys,
         key'[k].uses = key[k].uses, key'[k].limit = key[k].limit,
         key'[k].state = "none" => key'[k] = key[k],
         enrolled'[k] = enrolled[k],
         Validating(k)' \subseteq Validating(k)
  PROVE  Covered(k)'
<1>1. /\ Cardinality(Validating(k)') <= Cardinality(Validating(k))
      /\ Cardinality(Validating(k)') \in Nat
      /\ Cardinality(Validating(k)) \in Nat
  BY ValidatingFinite, FS_Subset, FS_CardinalityType
<1>2. enrolled[k] \in Nat /\ key[k].uses \in Nat /\ key[k].limit \in Nat
  BY CountsType
<1>3. QED
  BY <1>1, <1>2 DEF UsesCovered, Covered

\* A request that is done is not about to enroll, and the others go on as they were.
LEMMA DoneValidating ==
  ASSUME TypeOK, NEW h \in Handlers, Done(h), NEW k \in Keys
  PROVE  Validating(k)' = Validating(k) \ {h}
BY DEF Done, Validating, At, NoRequest, TypeOK

\* The account of uses is kept by UseKey, which enters the use before the request goes on.
LEMMA UseKeyCovered ==
  ASSUME TypeOK, UsesCovered, NEW h \in Handlers, UseKey(h)
  PROVE  UsesCovered'
<1> DEFINE u == req[h].key
<1>u. u \in Keys
  BY DEF TypeOK, Request
<1>1. CASE ~Usable(u)
  <2> SUFFICES ASSUME NEW k \in Keys
               PROVE  Covered(k)'
    BY DEF UsesCovered, Covered
  <2>1. Done(h) /\ key' = key /\ enrolled' = enrolled
    BY <1>1 DEF UseKey
  <2>2. Validating(k)' \subseteq Validating(k)
    BY <2>1, DoneValidating
  <2>3. QED
    BY <2>1, <2>2, UsesKept
<1>2. CASE Usable(u)
  <2>1. /\ key' = [key EXCEPT ![u].uses = @ + 1]
        /\ req' = [req EXCEPT ![h].pc = "validate"]
        /\ enrolled' = enrolled
        /\ key[u].uses < key[u].limit /\ key[u].state = "live"
    BY <1>2 DEF UseKey, Usable, observerVars
  <2> SUFFICES ASSUME NEW k \in Keys
               PROVE  Covered(k)'
    BY DEF UsesCovered, Covered
  <2>2. enrolled[k] \in Nat /\ key[k] \in KeyRow /\ key[k].uses \in Nat /\ key[k].limit \in Nat
    BY CountsType
  <2>3. CASE k = u
    <3>1. Validating(k)' = Validating(k) \cup {h}
      BY <2>1, <2>3 DEF Validating, At, TypeOK, Request
    <3>2. /\ Cardinality(Validating(k)') <= Cardinality(Validating(k)) + 1
          /\ Cardinality(Validating(k)') \in Nat
          /\ Cardinality(Validating(k)) \in Nat
      <4>1. IsFiniteSet(Validating(k)) /\ Cardinality(Validating(k)) \in Nat
        BY ValidatingFinite
      <4>2. IsFiniteSet(Validating(k) \cup {h})
        BY <4>1, FS_AddElement
      <4>3. Cardinality(Validating(k) \cup {h}) \in Nat
        BY <4>2, FS_CardinalityType
      <4>4. QED
        <5>1. \/ Cardinality(Validating(k) \cup {h}) = Cardinality(Validating(k))
              \/ Cardinality(Validating(k) \cup {h}) = Cardinality(Validating(k)) + 1
          BY <4>1, FS_AddElement
        <5>2. QED
          BY <3>1, <4>1, <4>3, <5>1
    <3>3. /\ key'[k].uses = key[k].uses + 1
          /\ key'[k].limit = key[k].limit
          /\ key'[k].state = key[k].state
      BY <2>1, <2>2, <2>3 DEF TypeOK, KeyRow
    <3>4. QED
      BY <2>1, <2>2, <2>3, <3>2, <3>3 DEF UsesCovered, Covered
  <2>4. CASE k # u
    <3>1. Validating(k)' \subseteq Validating(k)
      BY <2>1, <2>4 DEF Validating, At, TypeOK, Request
    <3>2. key'[k] = key[k]
      BY <2>1, <2>4 DEF TypeOK
    <3>3. QED
      BY <2>1, <3>1, <3>2, UsesKept
  <2>5. QED
    BY <2>3, <2>4
<1>3. QED
  BY <1>1, <1>2

\* ... and by EnrollMachine, which turns one request about to enroll into an enrollment.
LEMMA EnrollMachineCovered ==
  ASSUME TypeOK, UsesCovered, NEW h \in Handlers, EnrollMachine(h)
  PROVE  UsesCovered'
<1> DEFINE u == req[h].key
<1>u. u \in Keys /\ h \in Validating(u)
  BY DEF TypeOK, Request, EnrollMachine, Validating
<1>1. Done(h) /\ key' = key
  BY DEF EnrollMachine
<1>2. enrolled' = enrolled \/ enrolled' = [enrolled EXCEPT ![u] = @ + 1]
  BY DEF EnrollMachine
<1> SUFFICES ASSUME NEW k \in Keys
             PROVE  Covered(k)'
  BY DEF UsesCovered, Covered
<1>3. Validating(k)' = Validating(k) \ {h}
  BY <1>1, DoneValidating
<1>4. CASE enrolled'[k] = enrolled[k]
  BY <1>1, <1>3, <1>4, UsesKept
<1>5. CASE enrolled'[k] # enrolled[k]
  <2>1. k = u /\ enrolled'[k] = enrolled[k] + 1
    BY <1>2, <1>5 DEF TypeOK
  <2>2. IsFiniteSet(Validating(k)) /\ Cardinality(Validating(k)) \in Nat
    BY ValidatingFinite
  <2>3. Cardinality(Validating(k)') = Cardinality(Validating(k)) - 1
    <3>1. Cardinality(Validating(k) \ {h}) =
            IF h \in Validating(k) THEN Cardinality(Validating(k)) - 1
            ELSE Cardinality(Validating(k))
      BY <2>2, FS_RemoveElement
    <3>2. QED
      BY <1>u, <1>3, <2>1, <3>1
  <2>4. enrolled[k] \in Nat /\ key[k].uses \in Nat /\ key[k].limit \in Nat
    BY CountsType
  <2>5. QED
    BY <1>1, <2>1, <2>2, <2>3, <2>4 DEF UsesCovered, Covered
<1>6. QED
  BY <1>4, <1>5

\* A request that arrives was not about to enroll and is not.
LEMMA ArrivalKeeps ==
  ASSUME TypeOK, NEW h \in Handlers, Arrival(h)
  PROVE  /\ key' = key /\ enrolled' = enrolled
         /\ ~At(h, "validate") /\ ~At(h, "validate")'
         /\ \A i \in Handlers \ {h} : req'[i] = req[i]
<1> DEFINE Elsewhere ==
      req'[h].pc # "validate" /\ \A i \in Handlers \ {h} : req'[i] = req[i]
<1>1. key' = key /\ enrolled' = enrolled /\ ~At(h, "validate")
  BY DEF Arrival, LoginBegin, EnrollBegin, ResetBegin, DeregisterBegin,
         Authenticate, observerVars, At
<1>2. Elsewhere
  <2> PICK m \in Machines :
        \/ \E p \in Passwords : LoginBegin(h, m, p) \/ ResetBegin(h, m, p)
        \/ \E j \in Keys : EnrollBegin(h, m, j)
        \/ DeregisterBegin(h, m)
    BY DEF Arrival
  <2>1. ASSUME NEW p \in Passwords, LoginBegin(h, m, p) PROVE Elsewhere
    BY <2>1, NoRequestType DEF LoginBegin, TypeOK, Request
  <2>2. ASSUME NEW p \in Passwords, ResetBegin(h, m, p) PROVE Elsewhere
    BY <2>2 DEF ResetBegin, Authenticate, TypeOK
  <2>3. ASSUME NEW j \in Keys, EnrollBegin(h, m, j) PROVE Elsewhere
    BY <2>3 DEF EnrollBegin, Authenticate, TypeOK
  <2>4. CASE DeregisterBegin(h, m)
    BY <2>4 DEF DeregisterBegin, Authenticate, TypeOK
  <2>5. QED
    BY <2>1, <2>2, <2>3, <2>4
<1>3. QED
  BY <1>1, <1>2 DEF At

\* No other step takes a key, writes an enrollment or leads a request to one.
LEMMA OthersCovered ==
  ASSUME TypeOK, UsesCovered, Next,
         \A h \in Handlers : ~UseKey(h) /\ ~EnrollMachine(h)
  PROVE  UsesCovered'
<1> SUFFICES ASSUME NEW k \in Keys
             PROVE  Covered(k)'
  BY DEF UsesCovered, Covered
<1>1. ASSUME key' = key, enrolled' = enrolled, req' = req
      PROVE  Covered(k)'
  <2>1. Validating(k)' = Validating(k)
    BY <1>1 DEF Validating, At
  <2>2. QED
    BY <1>1, <2>1, UsesKept
<1>2. ASSUME NEW h \in Handlers, Arrival(h)
      PROVE  Covered(k)'
  <2>1. Validating(k)' \subseteq Validating(k)
    BY <1>2, ArrivalKeeps DEF Validating, At
  <2>2. QED
    BY <1>2, <2>1, ArrivalKeeps, UsesKept
<1>3. ASSUME NEW h \in Handlers, Done(h), key' = key, enrolled' = enrolled
      PROVE  Covered(k)'
  BY <1>3, DoneValidating, UsesKept
<1>4. ASSUME NEW h \in Handlers, HandlerStep(h) \/ Abandon(h)
      PROVE  Covered(k)'
  <2>1. CASE LoginCheck(h)
    <3>1. key' = key /\ enrolled' = enrolled
      BY <2>1 DEF LoginCheck, observerVars
    <3>2. CASE Done(h)
      BY <1>3, <3>1, <3>2
    <3>3. CASE req' = [req EXCEPT ![h].pc = "issue"]
      <4>1. Validating(k)' \subseteq Validating(k)
        BY <3>3 DEF Validating, At, TypeOK, Request
      <4>2. QED
        BY <3>1, <4>1, UsesKept
    <3>4. QED
      BY <2>1, <3>2, <3>3 DEF LoginCheck
  <2>2. CASE LoginIssue(h)
    BY <1>3, <2>2 DEF LoginIssue
  <2>3. CASE UpdateMachinePassword(h)
    BY <1>3, <2>3 DEF UpdateMachinePassword
  <2>4. CASE DeleteSelf(h)
    BY <1>3, <2>4 DEF DeleteSelf
  <2>5. CASE Abandon(h)
    BY <1>3, <2>5 DEF Abandon
  <2>6. QED
    BY <1>4, <2>1, <2>2, <2>3, <2>4, <2>5 DEF HandlerStep
<1>5. ASSUME NEW m \in Machines,
             \/ Block(m) \/ Unblock(m) \/ DeleteMachine(m) \/ TokenExpires(m)
             \/ \E p \in Passwords : Register(m, p)
      PROVE  key' = key /\ enrolled' = enrolled /\ req' = req
  BY <1>5 DEF Block, Unblock, DeleteMachine, TokenExpires, Register, observerVars
<1>6. ASSUME NEW j \in Keys, EndKey(j)
      PROVE  Covered(k)'
  <2>1. req' = req /\ enrolled' = enrolled
    BY <1>6 DEF EndKey, observerVars
  <2>2. Validating(k)' = Validating(k)
    BY <2>1 DEF Validating, At
  <2>3. /\ key'[k].uses = key[k].uses /\ key'[k].limit = key[k].limit
        /\ key'[k].state = "none" => key'[k] = key[k]
    BY <1>6, CountsType DEF EndKey, TypeOK, KeyRow
  <2>4. QED
    BY <2>1, <2>2, <2>3, UsesKept
<1>7. ASSUME NEW j \in Keys, NEW limit \in Limits, CreateKey(j, limit)
      PROVE  Covered(k)'
  <2>1. req' = req /\ enrolled' = enrolled /\ Validating(k)' = Validating(k)
    BY <1>7 DEF CreateKey, observerVars, Validating, At
  <2>2. CASE k = j
    <3>1. /\ key[k].state = "none"
          /\ key'[k] = [state |-> "live", limit |-> limit, uses |-> 0]
      BY <1>7, <2>2 DEF CreateKey, TypeOK
    <3>2. enrolled[k] + Cardinality(Validating(k)) <= 0
      BY <3>1 DEF UsesCovered, NoKey
    <3>3. limit \in Nat /\ 0 <= limit
      BY LimitsAssumption
    <3>4. QED
      BY <2>1, <3>1, <3>2, <3>3 DEF Covered
  <2>3. CASE k # j
    <3>1. key'[k] = key[k]
      BY <1>7, <2>3 DEF CreateKey, TypeOK
    <3>2. QED
      BY <2>1, <3>1, UsesKept
  <2>4. QED
    BY <2>2, <2>3
<1>8. QED
  BY <1>1, <1>2, <1>4, <1>5, <1>6, <1>7 DEF Next, AdminStep

\* Blocks are noticed: only Block makes a machine blocked, and it overtakes every
\* request of the machine; a request gets past its check only if it is not blocked.
LEMMA BlocksNoticedStep ==
  ASSUME TypeOK, BlocksNoticed, Next
  PROVE  BlocksNoticed'
<1> SUFFICES ASSUME NEW i \in Handlers,
                    Authenticated(i)', status'[req'[i].machine] = "blocked"
             PROVE  i \in overtaken'
  BY DEF BlocksNoticed
<1>i. req[i] \in Request /\ req[i].machine \in Machines
  BY DEF TypeOK, Request
<1>1. ASSUME req'[i].machine = req[i].machine, Authenticated(i),
             status[req[i].machine] = "blocked"
      PROVE  i \in overtaken
  BY <1>1 DEF BlocksNoticed
<1>2. ASSUME NEW h \in Handlers, Done(h),
             \A m \in Machines : status'[m] = "blocked" => status[m] = "blocked"
      PROVE  i \in overtaken'
  <2>1. i # h
    BY <1>2 DEF Done, Authenticated, At, NoRequest, TypeOK
  <2>2. req'[i] = req[i] /\ overtaken' = overtaken \ {h}
    BY <1>2, <2>1 DEF Done, TypeOK
  <2>3. Authenticated(i) /\ status[req[i].machine] = "blocked"
    BY <1>i, <1>2, <2>2 DEF Authenticated, At
  <2>4. QED
    BY <1>1, <2>1, <2>2, <2>3
<1>3. ASSUME req' = req, overtaken' = overtaken,
             \A m \in Machines : status'[m] = "blocked" => status[m] = "blocked"
      PROVE  i \in overtaken'
  <2>1. Authenticated(i) /\ status[req[i].machine] = "blocked"
    BY <1>i, <1>3 DEF Authenticated, At
  <2>2. QED
    BY <1>1, <1>3, <2>1
<1>4. ASSUME NEW h \in Handlers, Arrival(h) PROVE i \in overtaken'
  <2> PICK m \in Machines :
        \/ \E p \in Passwords : LoginBegin(h, m, p) \/ ResetBegin(h, m, p)
        \/ \E j \in Keys : EnrollBegin(h, m, j)
        \/ DeregisterBegin(h, m)
    BY <1>4 DEF Arrival
  <2>1. ASSUME req'[i] = req[i], status' = status, overtaken' = overtaken
        PROVE  i \in overtaken'
    BY <1>1, <2>1 DEF Authenticated, At
  <2>2. ASSUME NEW p \in Passwords, LoginBegin(h, m, p) PROVE i \in overtaken'
    <3>1. i # h
      BY <2>2, NoRequestType DEF LoginBegin, Authenticated, At, TypeOK, Request
    <3>2. QED
      BY <2>1, <2>2, <3>1 DEF LoginBegin, TypeOK, machineVars, observerVars
  <2>3. ASSUME NEW pc, NEW p, NEW j, Authenticate(h, m, pc, p, j) PROVE i \in overtaken'
    <3>1. status' = status /\ overtaken' = overtaken
      BY <2>3 DEF Authenticate, machineVars, observerVars
    <3>2. CASE i = h
      <4>1. req'[i].machine = m /\ status[m] # "blocked"
        BY <2>3, <3>2 DEF Authenticate, Unblocked, TypeOK
      <4>2. QED
        BY <3>1, <4>1
    <3>3. CASE i # h
      BY <2>1, <2>3, <3>1, <3>3 DEF Authenticate, TypeOK
    <3>4. QED
      BY <3>2, <3>3
  <2>4. QED
    BY <2>2, <2>3 DEF ResetBegin, EnrollBegin, DeregisterBegin
<1>5. ASSUME NEW h \in Handlers, LoginCheck(h) PROVE i \in overtaken'
  <2>1. status' = status
    BY <1>5 DEF LoginCheck, machineVars
  <2>2. CASE Done(h)
    BY <1>2, <2>1, <2>2
  <2>3. CASE /\ Unblocked(req[h].machine)
             /\ req' = [req EXCEPT ![h].pc = "issue"]
             /\ overtaken' = overtaken
    <3>1. CASE i = h
      <4>1. req'[i].machine = req[h].machine /\ status[req[h].machine] # "blocked"
        BY <1>i, <2>3, <3>1 DEF Unblocked, TypeOK, Request
      <4>2. QED
        BY <2>1, <4>1
    <3>2. CASE i # h
      <4>1. req'[i] = req[i]
        BY <2>3, <3>2 DEF TypeOK
      <4>2. QED
        BY <1>1, <2>1, <2>3, <4>1 DEF Authenticated, At
    <3>3. QED
      BY <3>1, <3>2
  <2>4. QED
    BY <1>5, <2>2, <2>3 DEF LoginCheck, observerVars
<1>6. ASSUME NEW h \in Handlers, UseKey(h) PROVE i \in overtaken'
  <2>1. status' = status
    BY <1>6 DEF UseKey, machineVars
  <2>2. CASE Done(h)
    BY <1>2, <2>1, <2>2
  <2>3. CASE req' = [req EXCEPT ![h].pc = "validate"] /\ overtaken' = overtaken
    <3>1. req'[i].machine = req[i].machine /\ (i # h => req'[i] = req[i])
      BY <1>i, <2>3 DEF TypeOK, Request
    <3>2. Authenticated(i)
      BY <1>6, <3>1 DEF UseKey, Authenticated, At
    <3>3. QED
      BY <1>1, <2>1, <2>3, <3>1, <3>2
  <2>4. QED
    BY <1>6, <2>2, <2>3 DEF UseKey, observerVars
<1>7. ASSUME NEW h \in Handlers,
             \/ LoginIssue(h) \/ EnrollMachine(h) \/ UpdateMachinePassword(h)
             \/ DeleteSelf(h) \/ Abandon(h)
      PROVE  i \in overtaken'
  <2>1. Done(h)
    BY <1>7 DEF LoginIssue, EnrollMachine, UpdateMachinePassword, DeleteSelf, Abandon
  <2>2. \A m \in Machines : status'[m] = "blocked" => status[m] = "blocked"
    BY <1>7 DEF LoginIssue, EnrollMachine, UpdateMachinePassword, DeleteSelf, Remove,
                Abandon, TypeOK, machineVars
  <2>3. QED
    BY <1>2, <2>1, <2>2
<1>8. ASSUME NEW m \in Machines, Block(m) PROVE i \in overtaken'
  <2>1. /\ req' = req /\ status' = [status EXCEPT ![m] = "blocked"]
        /\ overtaken' = overtaken \cup {h \in Handlers : ~At(h, "idle") /\ req[h].machine = m}
    BY <1>8 DEF Block
  <2>2. Authenticated(i) /\ ~At(i, "idle")
    BY <2>1 DEF Authenticated, At
  <2>3. CASE req[i].machine = m
    BY <2>1, <2>2, <2>3
  <2>4. CASE req[i].machine # m
    BY <1>1, <1>i, <2>1, <2>2, <2>4 DEF TypeOK
  <2>5. QED
    BY <2>3, <2>4
<1>9. ASSUME NEW m \in Machines,
             \/ Unblock(m) \/ DeleteMachine(m) \/ TokenExpires(m)
             \/ \E p \in Passwords : Register(m, p)
      PROVE  i \in overtaken'
  <2>1. req' = req /\ overtaken' = overtaken
    BY <1>9 DEF Unblock, DeleteMachine, TokenExpires, Register, observerVars
  <2>2. \A n \in Machines : status'[n] = "blocked" => status[n] = "blocked"
    BY <1>9 DEF Unblock, DeleteMachine, Remove, TokenExpires, Register, TypeOK, machineVars
  <2>3. QED
    BY <1>3, <2>1, <2>2
<1>10. ASSUME NEW k \in Keys, EndKey(k) \/ \E limit \in Limits : CreateKey(k, limit)
       PROVE  i \in overtaken'
  BY <1>3, <1>10 DEF EndKey, CreateKey, machineVars, observerVars
<1>11. QED
  BY <1>4, <1>5, <1>6, <1>7, <1>8, <1>9, <1>10 DEF Next, HandlerStep, AdminStep

-----------------------------------------------------------------------------
(* The theorems                                                            *)

\* Uses are taken before the enrollments they pay for, and only a block can
\* separate a request in progress from an unblocked machine.
THEOREM LifecycleInvariant == Spec => []LifecycleInv
<1>1. Init => LifecycleInv
  <2> SUFFICES ASSUME Init PROVE LifecycleInv
    OBVIOUS
  <2>1. \A k \in Keys : Validating(k) = {}
    BY DEF Init, Validating, At, NoRequest
  <2>2. UsesCovered
    BY <2>1, FS_EmptySet DEF Init, UsesCovered, NoKey
  <2>3. BlocksNoticed
    BY DEF Init, BlocksNoticed, Authenticated, At, NoRequest
  <2>4. QED
    BY <2>2, <2>3 DEF LifecycleInv
<1>2. TypeOK /\ LifecycleInv /\ [Next]_vars => LifecycleInv'
  <2> SUFFICES ASSUME TypeOK, LifecycleInv, [Next]_vars PROVE LifecycleInv'
    OBVIOUS
  <2>1. CASE Next
    BY <2>1, UseKeyCovered, EnrollMachineCovered, OthersCovered, BlocksNoticedStep
       DEF LifecycleInv
  <2>2. CASE UNCHANGED vars
    BY <2>2 DEF vars, LifecycleInv, UsesCovered, BlocksNoticed, Authenticated,
                Validating, At
  <2>3. QED
    BY <2>1, <2>2
<1>3. QED
  BY <1>1, <1>2, TypeCorrect, PTL DEF Spec

\* However many requests present a key at once, and wherever they fail, it
\* enrolls no more machines than it may (GetEnrollmentKey, EnrollMachine).
THEOREM KeyBudgetHolds == Spec => []KeyBudget
<1>1. TypeOK /\ LifecycleInv => KeyBudget
  <2> SUFFICES ASSUME TypeOK, LifecycleInv, NEW k \in Keys
               PROVE  enrolled[k] + Cardinality(Validating(k)) <= key[k].limit
    BY DEF KeyBudget
  <2>1. /\ enrolled[k] + Cardinality(Validating(k)) <= key[k].uses
        /\ key[k].uses <= key[k].limit
    BY DEF LifecycleInv, UsesCovered
  <2>2. QED
    BY <2>1, CountsType, ValidatingFinite
<1>2. QED
  BY <1>1, LifecycleInvariant, TypeCorrect, PTL

\* An enrollment lifts a block only if the block came after the check.
THEOREM BlockSticksHolds == Spec => BlockSticks
<1>1. LifecycleInv /\ [Next]_vars =>
        [\A h \in Handlers :
           /\ At(h, "validate") /\ req'[h] # req[h]
           /\ status[req[h].machine] = "blocked"
           /\ status'[req[h].machine] = "validated"
           => h \in overtaken]_vars
  BY DEF LifecycleInv, BlocksNoticed, Authenticated, At
<1>2. QED
  BY <1>1, LifecycleInvariant, PTL DEF Spec, BlockSticks

\* Only a reset changes the password of a machine that is there and stays.
THEOREM RegistrationKeptHolds == Spec => RegistrationKept
<1>1. TypeOK /\ [Next]_vars =>
        [\A m \in Machines :
           Present(m) /\ status'[m] # "absent" /\ password'[m] # password[m]
             => \E h \in Handlers : At(h, "reset") /\ req[h].machine = m /\ req'[h] # req[h]]_vars
  <2> SUFFICES ASSUME TypeOK, Next, NEW m \in Machines,
                      Present(m), status'[m] # "absent", password'[m] # password[m]
               PROVE  \E h \in Handlers :
                        At(h, "reset") /\ req[h].machine = m /\ req'[h] # req[h]
    OBVIOUS
  <2>1. ASSUME NEW h \in Handlers, UpdateMachinePassword(h)
        PROVE  At(h, "reset") /\ req[h].machine = m /\ req'[h] # req[h]
    BY <2>1 DEF UpdateMachinePassword, Done, At, NoRequest, TypeOK
  <2>2. ASSUME NEW n \in Machines, Remove(n) PROVE FALSE
    BY <2>2 DEF Remove, TypeOK
  <2>3. ASSUME NEW n \in Machines, NEW p \in Passwords, Register(n, p) PROVE FALSE
    BY <2>3 DEF Register, Present, TypeOK
  <2>4. ASSUME NEW h \in Handlers, Arrival(h) PROVE FALSE
    BY <2>4 DEF Arrival, LoginBegin, ResetBegin, EnrollBegin, DeregisterBegin,
                Authenticate, machineVars
  <2>5. ASSUME NEW h \in Handlers, HandlerStep(h) \/ Abandon(h), ~UpdateMachinePassword(h)
        PROVE  FALSE
    <3>1. ~DeleteSelf(h)
      BY <2>2 DEF DeleteSelf, TypeOK, Request
    <3>2. QED
      BY <2>5, <3>1 DEF HandlerStep, LoginCheck, LoginIssue, UseKey, EnrollMachine, Abandon,
                        machineVars
  <2>6. ASSUME AdminStep PROVE FALSE
    BY <2>2, <2>6 DEF AdminStep, Block, Unblock, DeleteMachine, EndKey, CreateKey, machineVars
  <2>7. ASSUME NEW n \in Machines, TokenExpires(n) PROVE FALSE
    BY <2>7 DEF TokenExpires, machineVars
  <2>8. QED
    BY <2>1, <2>3, <2>4, <2>5, <2>6, <2>7 DEF Next
<1>2. QED
  BY <1>1, TypeCorrect, PTL DEF Spec, RegistrationKept

-----------------------------------------------------------------------------
(* Keys are ledgers of tickets                                             *)

\* A step that leaves keys, enrollments and those about to be alone is none of
\* the ledger's.
LEMMA LedgerKept ==
  ASSUME key' = key, enrolled' = enrolled,
         \A k \in Keys : Validating(k)' = Validating(k)
  PROVE  UNCHANGED Ledger!vars
<1>1. Pending' = Pending
  BY DEF Pending
<1>2. QED
  BY <1>1 DEF Ledger!vars

\* Only a request that had a ticket is missed when it is done.
LEMMA PendingDone ==
  ASSUME TypeOK, NEW h \in Handlers, Done(h)
  PROVE  LET u == req[h].key
         IN IF At(h, "validate")
            THEN Pending[u] > 0 /\ Pending' = [Pending EXCEPT ![u] = @ - 1]
            ELSE \A k \in Keys : Validating(k)' = Validating(k)
<1>u. PICK u \in Keys : u = req[h].key
  BY DEF TypeOK, Request
<1>1. CASE ~At(h, "validate")
  BY <1>1, DoneValidating DEF Validating
<1>2. CASE At(h, "validate")
  <2>1. h \in Validating(u) /\ \A k \in Keys : k # u => h \notin Validating(k)
    BY <1>u, <1>2 DEF Validating
  <2>2. \A k \in Keys : Validating(k)' = Validating(k) \ {h}
    BY DoneValidating
  <2>3. \A k \in Keys : k # u => Pending'[k] = Pending[k]
    BY <2>1, <2>2 DEF Pending
  <2>4. IsFiniteSet(Validating(u)) /\ Cardinality(Validating(u)) \in Nat
    BY <1>u, ValidatingFinite
  <2>5. /\ Cardinality(Validating(u)') = Cardinality(Validating(u)) - 1
        /\ Cardinality(Validating(u)') \in Nat
    <3>1. IsFiniteSet(Validating(u) \ {h})
      BY <2>4, FS_RemoveElement
    <3>2. QED
      BY <1>u, <2>1, <2>2, <2>4, <3>1, FS_RemoveElement, FS_CardinalityType
  <2>6. Pending'[u] = Pending[u] - 1 /\ Pending[u] > 0
    BY <1>u, <2>4, <2>5 DEF Pending
  <2>7. Pending' = [Pending EXCEPT ![u] = @ - 1]
    BY <1>u, <2>3, <2>6 DEF Pending
  <2>8. QED
    BY <1>u, <1>2, <2>6, <2>7
<1>3. QED
  BY <1>1, <1>2

\* A request that is done without an enrollment loses its ticket, if it had one.
LEMMA DoneLedger ==
  ASSUME TypeOK, NEW h \in Handlers, Done(h), key' = key, enrolled' = enrolled
  PROVE  [Ledger!Next]_(Ledger!vars)
<1>1. CASE At(h, "validate")
  <2>1. req[h].key \in Keys
    BY DEF TypeOK, Request
  <2>2. Ledger!Lose(req[h].key)
    BY <1>1, PendingDone DEF Ledger!Lose
  <2>3. QED
    BY <2>1, <2>2 DEF Ledger!Next
<1>2. CASE ~At(h, "validate")
  <2>1. \A k \in Keys : Validating(k)' = Validating(k)
    BY <1>2, PendingDone
  <2>2. QED
    BY <2>1, LedgerKept
<1>3. QED
  BY <1>1, <1>2

\* The use that UseKey counts is a ticket taken.
LEMMA UseKeyTakes ==
  ASSUME TypeOK, NEW h \in Handlers, UseKey(h)
  PROVE  [Ledger!Next]_(Ledger!vars)
<1>u. PICK u \in Keys : u = req[h].key /\ key[u] \in KeyRow
  BY DEF TypeOK, Request
<1>1. CASE ~Usable(u)
  BY <1>u, <1>1, DoneLedger DEF UseKey
<1>2. CASE Usable(u)
  <2>1. /\ At(h, "enroll")
        /\ key' = [key EXCEPT ![u].uses = @ + 1]
        /\ req' = [req EXCEPT ![h].pc = "validate"]
        /\ enrolled' = enrolled
        /\ key[u].uses < key[u].limit /\ key[u].state = "live"
    BY <1>u, <1>2 DEF UseKey, Usable, observerVars
  <2>2. h \notin Validating(u) /\ Validating(u)' = Validating(u) \cup {h}
    BY <1>u, <2>1 DEF Validating, At, TypeOK, Request
  <2>3. \A k \in Keys : k # u => Validating(k)' = Validating(k)
    BY <1>u, <2>1 DEF Validating, At, TypeOK, Request
  <2>4. Cardinality(Validating(u)') = Cardinality(Validating(u)) + 1
    BY <1>u, <2>2, ValidatingFinite, FS_AddElement
  <2>5. Pending' = [Pending EXCEPT ![u] = @ + 1]
    BY <1>u, <2>3, <2>4 DEF Pending
  <2>6. key' = [key EXCEPT ![u] = [key[u] EXCEPT !.uses = @ + 1]]
    BY <2>1
  <2>7. [key[u] EXCEPT !.uses = @ + 1]
          = [state |-> key[u].state, limit |-> key[u].limit, uses |-> key[u].uses + 1]
    BY <1>u DEF KeyRow
  <2>k. /\ key'[u] = [key[u] EXCEPT !.uses = @ + 1]
        /\ \A k \in Keys \ {u} : key'[k] = key[k]
    BY <1>u, <2>6 DEF TypeOK
  <2>u. key'[u] = [state |-> key[u].state, limit |-> key[u].limit, uses |-> key[u].uses + 1]
    BY <2>k, <2>7
  <2>8. \A k \in Keys : /\ key'[k].limit = key[k].limit /\ key'[k].state = key[k].state
                        /\ k # u => key'[k].uses = key[k].uses
    BY <2>k, <2>u
  <2>9. key'[u].uses = key[u].uses + 1
    BY <2>u
  <2>10. Ledger!Take(u)
    <3>1. /\ [k \in Keys |-> key'[k].limit] = [k \in Keys |-> key[k].limit]
          /\ {k \in Keys : key'[k].state = "live"} = {k \in Keys : key[k].state = "live"}
      BY <2>8
    <3>2. [k \in Keys |-> key'[k].uses]
            = [[k \in Keys |-> key[k].uses] EXCEPT ![u] = @ + 1]
      BY <1>u, <2>8, <2>9
    <3>3. u \in {k \in Keys : key[k].state = "live"}
      BY <1>u, <2>1
    <3>4. [k \in Keys |-> key[k].uses][u] < [k \in Keys |-> key[k].limit][u]
      BY <1>u, <2>1
    <3>5. QED
      BY <2>1, <2>5, <3>1, <3>2, <3>3, <3>4 DEF Ledger!Take
  <2>11. QED
    BY <1>u, <2>10 DEF Ledger!Next
<1>3. QED
  BY <1>1, <1>2

\* EnrollMachine spends the ticket, or loses it with the machine.
LEMMA EnrollSpends ==
  ASSUME TypeOK, NEW h \in Handlers, EnrollMachine(h)
  PROVE  [Ledger!Next]_(Ledger!vars)
<1>u. PICK u \in Keys : u = req[h].key
  BY DEF TypeOK, Request
<1>1. Done(h) /\ key' = key /\ At(h, "validate")
  BY DEF EnrollMachine
<1>2. CASE enrolled' = enrolled
  BY <1>1, <1>2, DoneLedger
<1>3. CASE enrolled' = [enrolled EXCEPT ![u] = @ + 1]
  <2>1. Ledger!Spend(u)
    BY <1>u, <1>1, <1>3, PendingDone DEF Ledger!Spend
  <2>2. QED
    BY <1>u, <2>1 DEF Ledger!Next
<1>4. QED
  BY <1>u, <1>2, <1>3 DEF EnrollMachine

\* An admin issues and closes keys.
LEMMA AdminsIssue ==
  ASSUME TypeOK, UsesCovered, NEW k \in Keys,
         EndKey(k) \/ \E limit \in Limits : CreateKey(k, limit)
  PROVE  Ledger!Next
<1>p. Pending' = Pending /\ enrolled' = enrolled
  BY DEF EndKey, CreateKey, Pending, Validating, At, observerVars
<1>k. key[k] \in KeyRow
  BY DEF TypeOK
<1>1. CASE EndKey(k)
  <2>1. key[k].state = "live"
        /\ key' = [key EXCEPT ![k] = [key[k] EXCEPT !.state = "gone"]]
    BY <1>1 DEF EndKey
  <2>2. [key[k] EXCEPT !.state = "gone"]
          = [state |-> "gone", limit |-> key[k].limit, uses |-> key[k].uses]
    BY <1>k DEF KeyRow
  <2>3. \A j \in Keys : /\ key'[j].limit = key[j].limit /\ key'[j].uses = key[j].uses
                        /\ j # k => key'[j].state = key[j].state
    BY <2>1, <2>2 DEF TypeOK
  <2>4. key'[k].state = "gone"
    BY <2>1, <2>2 DEF TypeOK
  <2>5. Ledger!Close(k)
    BY <1>p, <2>1, <2>3, <2>4 DEF Ledger!Close
  <2>6. QED
    BY <2>5 DEF Ledger!Next
<1>2. ASSUME NEW l \in Limits, CreateKey(k, l)
      PROVE  Ledger!Next
  <2>1. /\ key[k] = NoKey
        /\ key' = [key EXCEPT ![k] = [state |-> "live", limit |-> l, uses |-> 0]]
    BY <1>2 DEF CreateKey, UsesCovered
  <2>2. \A j \in Keys : j # k => key'[j] = key[j]
    BY <2>1 DEF TypeOK
  <2>3. key[k].limit = 0 /\ key[k].uses = 0
    BY <2>1 DEF NoKey
  <2>4. key'[k].limit = l /\ key'[k].uses = 0 /\ key'[k].state = "live"
    BY <2>1 DEF TypeOK
  <2>5. Ledger!Issue(k)
    BY <1>p, <2>2, <2>3, <2>4 DEF Ledger!Issue
  <2>6. QED
    BY <2>5 DEF Ledger!Next
<1>3. QED
  BY <1>1, <1>2

\* No other step is one of the ledger, but that a request can lose its ticket.
LEMMA OthersStutter ==
  ASSUME TypeOK, Next,
         \A h \in Handlers : ~UseKey(h) /\ ~EnrollMachine(h),
         ~\E k \in Keys : EndKey(k) \/ \E limit \in Limits : CreateKey(k, limit)
  PROVE  [Ledger!Next]_(Ledger!vars)
<1>1. ASSUME NEW h \in Handlers, Arrival(h)
      PROVE  [Ledger!Next]_(Ledger!vars)
  <2>1. key' = key /\ enrolled' = enrolled
    BY <1>1, ArrivalKeeps
  <2>2. \A k \in Keys : Validating(k)' = Validating(k)
    BY <1>1, ArrivalKeeps DEF Validating, At
  <2>3. QED
    BY <2>1, <2>2, LedgerKept
<1>2. ASSUME NEW h \in Handlers, LoginCheck(h)
      PROVE  [Ledger!Next]_(Ledger!vars)
  <2>1. key' = key /\ enrolled' = enrolled
    BY <1>2 DEF LoginCheck, observerVars
  <2>2. CASE Done(h)
    BY <2>1, <2>2, DoneLedger
  <2>3. CASE req' = [req EXCEPT ![h].pc = "issue"]
    <3>1. \A k \in Keys : Validating(k)' = Validating(k)
      BY <1>2, <2>3 DEF LoginCheck, Validating, At, TypeOK, Request
    <3>2. QED
      BY <2>1, <3>1, LedgerKept
  <2>4. QED
    BY <1>2, <2>2, <2>3 DEF LoginCheck
<1>3. ASSUME NEW h \in Handlers,
             LoginIssue(h) \/ UpdateMachinePassword(h) \/ DeleteSelf(h) \/ Abandon(h)
      PROVE  [Ledger!Next]_(Ledger!vars)
  BY <1>3, DoneLedger DEF LoginIssue, UpdateMachinePassword, DeleteSelf, Abandon
<1>4. ASSUME NEW m \in Machines,
             \/ Block(m) \/ Unblock(m) \/ DeleteMachine(m) \/ TokenExpires(m)
             \/ \E p \in Passwords : Register(m, p)
      PROVE  [Ledger!Next]_(Ledger!vars)
  <2>1. key' = key /\ enrolled' = enrolled /\ req' = req
    BY <1>4 DEF Block, Unblock, DeleteMachine, TokenExpires, Register, observerVars
  <2>2. \A k \in Keys : Validating(k)' = Validating(k)
    BY <2>1 DEF Validating, At
  <2>3. QED
    BY <2>1, <2>2, LedgerKept
<1>5. QED
  BY <1>1, <1>2, <1>3, <1>4 DEF Next, HandlerStep, AdminStep

\* The machines and keys implement the ledger: whatever overlaps, fails or is
\* deleted, each enrollment spends one ticket of its key, taken while the key
\* was open and under its limit, and no ticket comes back (GetEnrollmentKey,
\* EnrollMachine).
THEOREM KeysImplementLedger == Spec => KeysAreTickets
<1>1. Init => Ledger!Init
  <2> SUFFICES ASSUME Init PROVE Ledger!Init
    OBVIOUS
  <2>1. \A k \in Keys : Validating(k) = {}
    BY DEF Init, Validating, At, NoRequest
  <2>2. Pending = [k \in Keys |-> 0]
    BY <2>1, FS_EmptySet DEF Pending
  <2>3. QED
    BY <2>2 DEF Init, NoKey, Ledger!Init
<1>2. TypeOK /\ LifecycleInv /\ [Next]_vars => [Ledger!Next]_(Ledger!vars)
  <2> SUFFICES ASSUME TypeOK, LifecycleInv, [Next]_vars
               PROVE  [Ledger!Next]_(Ledger!vars)
    OBVIOUS
  <2>1. CASE UNCHANGED vars
    <3>1. \A k \in Keys : Validating(k)' = Validating(k)
      BY <2>1 DEF vars, Validating, At
    <3>2. QED
      BY <2>1, <3>1, LedgerKept DEF vars
  <2>2. CASE Next
    BY <2>2, UseKeyTakes, EnrollSpends, AdminsIssue, OthersStutter DEF LifecycleInv
  <2>3. QED
    BY <2>1, <2>2
<1>3. QED
  BY <1>1, <1>2, TypeCorrect, LifecycleInvariant, PTL DEF Spec, KeysAreTickets, Ledger!Spec

=============================================================================
