------------------------ MODULE RegisterCommandProofs ------------------------
(***************************************************************************)
(* Theorems of RegisterCommand, for all machines, keys, people and         *)
(* limits: the server it runs against is that of MachineLifecycle, whose   *)
(* theorems hold of the composition, and the credentials it writes work.   *)
(***************************************************************************)
EXTENDS RegisterCommand, MachineLifecycleProofs, SequenceTheorems

-----------------------------------------------------------------------------
(* The server                                                              *)

\* Whoever there is a new id for gets one that is a machine id, and likewise a
\* handler.
LEMMA Chosen ==
  /\ IdsLeft => NewId \in Machines /\ Unused(NewId)
  /\ SomeFree => Free \in Handlers /\ At(Free, "idle")
BY DEF IdsLeft, NewId, SomeFree, Free

\* Every step of the composition is one of the server, or leaves it alone.
LEMMA ServerStep ==
  ASSUME CommandTypeOK, [CommandNext]_allVars
  PROVE  [Next]_vars
<1>1. CASE UNCHANGED allVars
  BY <1>1 DEF allVars
<1>2. ASSUME NEW i \in Installers,
             Begin(i) \/ RunStep(i) \/ RegistrationFails(i) \/ Interrupt(i)
      PROVE  [Next]_vars
  <2>t. /\ cmd[i].machine \in Machines /\ cmd[i].password \in Passwords
        /\ cmd[i].key \in Keys
    BY DEF CommandTypeOK, Run
  <2>1. CASE RegisterMachine(i)
    BY <2>1, <2>t DEF RegisterMachine, Next
  <2>2. CASE Login(i)
    BY <2>2, <2>t, Chosen DEF Login, Next, Arrival
  <2>3. CASE Enroll(i)
    BY <2>3, <2>t, Chosen DEF Enroll, Next, Arrival
  <2>4. CASE UNCHANGED vars
    BY <2>4
  <2>5. QED
    BY <1>2, <2>1, <2>2, <2>3, <2>4
       DEF Begin, Start, RunStep, RegistrationFails, Interrupt, TooManyRequests,
           EnrollForbidden, WriteFile
<1>3. ASSUME NEW h \in Handlers, Serve(h) \/ ServerError(h)
      PROVE  [Next]_vars
  BY <1>3 DEF Serve, Check, LoginDone, EnrollDone, ServerError, Next, HandlerStep
<1>4. ASSUME NEW m \in Machines, Meddle(m)
      PROVE  [Next]_vars
  BY <1>4 DEF Meddle, Next, AdminStep
<1>5. ASSUME NEW k \in Keys, Revoke(k) \/ \E limit \in Limits : HandOut(k, limit)
      PROVE  [Next]_vars
  BY <1>5 DEF Revoke, HandOut, Next, AdminStep
<1>6. CASE NewProcess \/ Tick
  BY <1>6 DEF NewProcess, Tick
<1>7. QED
  BY <1>1, <1>2, <1>3, <1>4, <1>5, <1>6 DEF CommandNext

\* The type invariant of the server is inductive.
LEMMA ServerType ==
  ASSUME TypeOK, [Next]_vars
  PROVE  TypeOK'
<1>1. CASE UNCHANGED vars
  BY <1>1 DEF vars, machineVars, observerVars, TypeOK
<1>2. CASE Next
  BY <1>2, ArrivalType, HandlerType, OthersType DEF Next
<1>3. QED
  BY <1>1, <1>2

-----------------------------------------------------------------------------
(* Types                                                                   *)

\* The limiter never keeps more entries than it lets through.
LEMMA LimiterType ==
  ASSUME hits \in Seq(Nat), Len(hits) <= Limit,
         Admit \/ Refuse \/ Age \/ Forget \/ UNCHANGED hits
  PROVE  hits' \in Seq(Nat) /\ Len(hits') <= Limit
<1>1. CASE Age
  <2> DEFINE older == [j \in DOMAIN hits |-> hits[j] + 1]
             n == Cardinality(Expiring)
  <2>1. older \in Seq(Nat) /\ Len(older) = Len(hits)
    OBVIOUS
  <2>2. n \in Nat /\ n <= Len(hits)
    <3>1. IsFiniteSet(1..Len(hits)) /\ Cardinality(1..Len(hits)) = Len(hits)
      BY FS_Interval
    <3>2. Expiring \subseteq 1..Len(hits)
      BY DEF Expiring
    <3>3. QED
      BY <3>1, <3>2, FS_Subset, FS_CardinalityType
  <2>3. hits' = SubSeq(older, n + 1, Len(older))
    BY <1>1, <2>1 DEF Age
  <2> HIDE DEF older, n
  <2>4. /\ n + 1 \in Int /\ Len(older) \in Int
        /\ Len(older) \in Nat
        /\ \A j \in (n + 1)..Len(older) : older[j] \in Nat
    BY <2>1, <2>2
  <2>5. hits' \in Seq(Nat)
    BY <2>1, <2>3, <2>4, SubSeqProperties
  <2>6. Len(hits') = IF n + 1 <= Len(older) THEN Len(older) - (n + 1) + 1 ELSE 0
    BY <2>1, <2>3, <2>4, SubSeqProperties
  <2>7. QED
    BY <2>1, <2>2, <2>5, <2>6, LimiterAssumption
<1>2. CASE Admit
  <2>1. Append(hits, 0) \in Seq(Nat) /\ Len(Append(hits, 0)) = Len(hits) + 1
    BY AppendProperties
  <2>2. Len(hits) \in Nat
    BY LenProperties
  <2>3. QED
    BY <1>2, <2>1, <2>2, LimiterAssumption DEF Admit
<1>3. CASE Forget
  BY <1>3, LimiterAssumption, EmptySeq DEF Forget, NoHits
<1>4. CASE Refuse \/ UNCHANGED hits
  BY <1>4 DEF Refuse
<1>5. QED
  BY <1>1, <1>2, <1>3, <1>4

\* A set of positions that has every position before one of its own is the
\* first ones, as many as it has elements.
LEMMA Segment ==
  ASSUME NEW L \in Nat, NEW S, S \subseteq 1..L,
         \A j \in S : \A i \in 1..L : i <= j => i \in S
  PROVE  /\ Cardinality(S) \in Nat /\ Cardinality(S) <= L
         /\ \A j \in 1..L : j \in S <=> j <= Cardinality(S)
<1>1. IsFiniteSet(S) /\ Cardinality(S) \in Nat /\ Cardinality(S) <= L
  <2>1. IsFiniteSet(1..L) /\ Cardinality(1..L) = L
    BY FS_Interval
  <2>2. QED
    BY <2>1, FS_Subset, FS_CardinalityType
<1>2. ASSUME NEW j \in 1..L, j \in S PROVE j <= Cardinality(S)
  <2>1. 1..j \subseteq S
    BY <1>2
  <2>2. IsFiniteSet(1..j) /\ Cardinality(1..j) = j
    BY FS_Interval
  <2>3. QED
    BY <1>1, <2>1, <2>2, FS_Subset
<1>3. ASSUME NEW j \in 1..L, j \notin S PROVE ~(j <= Cardinality(S))
  <2>1. S \subseteq 1..(j - 1)
    BY <1>3
  <2>2. j - 1 \in Nat /\ IsFiniteSet(1..(j - 1)) /\ Cardinality(1..(j - 1)) = j - 1
    <3>1. j - 1 \in Nat /\ 1 \in Nat
      OBVIOUS
    <3>2. Cardinality(1..(j - 1)) = j - 1 /\ IsFiniteSet(1..(j - 1))
      BY <3>1, FS_Interval
    <3>3. QED
      BY <3>1, <3>2
  <2>3. Cardinality(S) <= Cardinality(1..(j - 1))
    BY ONLY <2>1, <2>2, FS_Subset
  <2>4. QED
    BY <1>1, <2>2, <2>3
<1>4. QED
  BY <1>1, <1>2, <1>3

\* The limiter cuts off the entries that reach the age of the window and no
\* others: those are the first ones, as many as there are.
LEMMA AgePrunes ==
  ASSUME hits \in Seq(Nat), LimiterInv, Age,
         NEW n, n = Cardinality(Expiring)
  PROVE  /\ n \in Nat /\ n <= Len(hits) 
         /\ hits' \in Seq(Nat) /\ Len(hits') = Len(hits) - n
         /\ \A j \in 1..Len(hits) : j > n <=> hits[j] + 1 < Window
         /\ \A j \in 1..Len(hits') : hits'[j] = hits[j + n] + 1
<1>w. Window \in Nat \ {0}
  BY LimiterAssumption
<1>1. /\ Len(hits) \in Nat /\ DOMAIN hits = 1..Len(hits)
      /\ \A j \in 1..Len(hits) : hits[j] \in Nat /\ hits[j] < Window
      /\ \A i, j \in 1..Len(hits) : i < j => hits[j] <= hits[i]
  BY DEF LimiterInv
<1>2. Expiring \subseteq 1..Len(hits)
  BY DEF Expiring
<1>3. \A j \in 1..Len(hits) : j \in Expiring <=> hits[j] = Window - 1
  BY <1>1 DEF Expiring
<1>4. \A j \in Expiring : \A i \in 1..Len(hits) : i <= j => i \in Expiring
  <2> SUFFICES ASSUME NEW j \in 1..Len(hits), NEW i \in 1..Len(hits), i < j, hits[j] = Window - 1
               PROVE  hits[i] = Window - 1
    BY <1>2, <1>3
  <2>1. hits[i] \in Nat /\ hits[i] < Window /\ hits[j] <= hits[i]
    BY <1>1
  <2>2. QED
    BY <1>w, <2>1
<1>5. /\ n \in Nat /\ n <= Len(hits)
      /\ \A j \in 1..Len(hits) : j \in Expiring <=> j <= n
  BY <1>1, <1>2, <1>4, Segment
<1>6. \A j \in 1..Len(hits) : j > n <=> hits[j] + 1 < Window
  <2> SUFFICES ASSUME NEW j \in 1..Len(hits)
               PROVE  j > n <=> hits[j] + 1 < Window
    OBVIOUS
  <2>1. j \in Int /\ (hits[j] = Window - 1 <=> j <= n) /\ hits[j] \in Nat /\ hits[j] < Window
    BY <1>1, <1>3, <1>5
  <2>2. hits[j] = Window - 1 <=> ~(hits[j] + 1 < Window)
    BY <1>w, <2>1
  <2>3. QED
    BY <1>5, <2>1, <2>2
<1> DEFINE older == [j \in DOMAIN hits |-> hits[j] + 1]
<1>7. /\ older \in Seq(Nat) /\ Len(older) = Len(hits)
      /\ \A j \in 1..Len(hits) : older[j] = hits[j] + 1
  OBVIOUS
<1>8. hits' = SubSeq(older, n + 1, Len(older))
  BY <1>7 DEF Age
<1> HIDE DEF older
<1>9. /\ n + 1 \in Int /\ Len(older) \in Int
      /\ \A j \in (n + 1)..Len(older) : older[j] \in Nat
  <2>1. \A j \in (n + 1)..Len(older) : j \in 1..Len(hits)
    BY <1>1, <1>5, <1>7
  <2>2. QED
    BY <1>1, <1>5, <1>7, <2>1
<1>10. /\ hits' \in Seq(Nat)
       /\ Len(hits') = IF n + 1 <= Len(older) THEN Len(older) - (n + 1) + 1 ELSE 0
       /\ \A j \in 1..Len(hits') : hits'[j] = older[n + 1 + j - 1]
  BY <1>8, <1>9, SubSeqProperties
<1>11. Len(hits') = Len(hits) - n
  BY <1>1, <1>5, <1>7, <1>10
<1>12. ASSUME NEW j \in 1..Len(hits')
       PROVE  hits'[j] = hits[j + n] + 1
  <2>1. n + 1 + j - 1 = j + n /\ j + n \in 1..Len(hits)
    BY <1>1, <1>5, <1>11
  <2>2. QED
    BY <1>7, <1>10, <2>1
<1>13. QED
  BY <1>5, <1>6, <1>10, <1>11, <1>12

\* The entries stay in order and younger than the window.
LEMMA LimiterStep ==
  ASSUME hits \in Seq(Nat), LimiterInv,
         Admit \/ Refuse \/ Age \/ Forget \/ UNCHANGED hits
  PROVE  LimiterInv'
<1>1. CASE Age
  <2>1. PICK n : n = Cardinality(Expiring)
    OBVIOUS
  <2>2. /\ n \in Nat /\ n <= Len(hits) /\ hits' \in Seq(Nat) /\ Len(hits') = Len(hits) - n
        /\ \A j \in 1..Len(hits) : j > n <=> hits[j] + 1 < Window
        /\ \A j \in 1..Len(hits') : hits'[j] = hits[j + n] + 1
    BY <1>1, <2>1, AgePrunes
  <2>3. DOMAIN hits' = 1..Len(hits') /\ DOMAIN hits = 1..Len(hits) /\ Len(hits) \in Nat
    BY <2>2
  <2>4. ASSUME NEW j \in 1..Len(hits')
        PROVE  j + n \in 1..Len(hits) /\ j + n > n /\ hits[j + n] \in Nat
    <3>1. j + n \in 1..Len(hits) /\ j + n > n
      BY <2>2, <2>3
    <3>2. QED
      BY <3>1
  <2>5. ASSUME NEW j \in 1..Len(hits') PROVE hits'[j] < Window
    BY <2>2, <2>4
  <2>6. ASSUME NEW i \in 1..Len(hits'), NEW j \in 1..Len(hits'), i < j
        PROVE  hits'[j] <= hits'[i]
    <3>1. i + n < j + n /\ i + n \in DOMAIN hits /\ j + n \in DOMAIN hits
      BY <2>2, <2>3, <2>4, <2>6
    <3>2. hits[j + n] <= hits[i + n]
      BY <3>1 DEF LimiterInv
    <3>3. hits[i + n] \in Nat /\ hits[j + n] \in Nat
      BY <2>4
    <3>4. hits'[i] = hits[i + n] + 1 /\ hits'[j] = hits[j + n] + 1
      BY <2>2
    <3>5. QED
      BY <3>2, <3>3, <3>4
  <2>7. QED
    BY <2>3, <2>5, <2>6 DEF LimiterInv
<1>2. CASE Admit
  <2>1. hits' = Append(hits, 0)
    BY <1>2 DEF Admit
  <2>2. /\ DOMAIN hits' = 1..(Len(hits) + 1) /\ Len(hits) \in Nat
        /\ DOMAIN hits = 1..Len(hits)
        /\ \A j \in 1..Len(hits) : hits'[j] = hits[j] /\ hits[j] \in Nat
        /\ hits'[Len(hits) + 1] = 0
    BY <2>1
  <2>3. \A j \in DOMAIN hits' : hits'[j] < Window
    BY <2>2, LimiterAssumption DEF LimiterInv
  <2>4. ASSUME NEW i \in DOMAIN hits', NEW j \in DOMAIN hits', i < j
        PROVE  hits'[j] <= hits'[i]
    <3>1. CASE j \in 1..Len(hits)
      <4>1. i \in 1..Len(hits)
        BY <2>2, <2>4, <3>1
      <4>2. QED
        BY <2>2, <2>4, <3>1, <4>1 DEF LimiterInv
    <3>2. CASE j \notin 1..Len(hits)
      <4>1. j = Len(hits) + 1 /\ i \in 1..Len(hits)
        BY <2>2, <2>4, <3>2
      <4>2. QED
        BY <2>2, <4>1
    <3>3. QED
      BY <3>1, <3>2
  <2>5. QED
    BY <2>3, <2>4 DEF LimiterInv
<1>3. CASE Forget
  BY <1>3 DEF Forget, NoHits, LimiterInv
<1>4. CASE Refuse \/ UNCHANGED hits
  BY <1>4 DEF Refuse, LimiterInv
<1>5. QED
  BY <1>1, <1>2, <1>3, <1>4

\* What the composition does to the limiter.
LEMMA LimiterMoves ==
  ASSUME [CommandNext]_allVars
  PROVE  Admit \/ Refuse \/ Age \/ Forget \/ UNCHANGED hits
BY DEF CommandNext, Begin, Start, RunStep, RegisterMachine, Login, Enroll, TooManyRequests,
   EnrollForbidden, WriteFile, RegistrationFails, Interrupt, Serve, Check, LoginDone,
   EnrollDone, ServerError, Meddle, Revoke, HandOut, NewProcess, Tick, allVars

\* What the helpers that move a run leave in cmd.
LEMMA RunTypes ==
  ASSUME CommandTypeOK
  PROVE  /\ Stopped \in Run
         /\ [Stopped EXCEPT !.wait = 0] \in Run
         /\ \A i \in Installers, pc \in {"login", "enroll", "write"} :
              Go(i, pc) => cmd' \in [Installers -> Run]
         /\ \A i \in Installers : Stop(i) => cmd' \in [Installers -> Run]
         /\ \A i \in Installers, h \in Handlers : Send(i, h) => cmd' \in [Installers -> Run]
         /\ \A h \in Handlers, pc \in {"enroll", "write"} :
              Answered(h, pc) => cmd' \in [Installers -> Run]
         /\ \A h \in Handlers : Refused(h) => cmd' \in [Installers -> Run]
<1>w. 0 \in 0..Window /\ Window \in 0..Window
  BY LimiterAssumption
<1>1. Stopped \in Run /\ [Stopped EXCEPT !.wait = 0] \in Run
  BY <1>w, PopulationAssumption DEF Stopped, Run, Nobody, NoSecret, NoKeyId
<1>2. cmd \in [Installers -> Run]
  BY DEF CommandTypeOK
<1>3. ASSUME NEW i \in Installers
      PROVE  /\ \A pc \in {"login", "enroll", "write"} : [cmd[i] EXCEPT !.pc = pc] \in Run
             /\ \A pc \in {"enroll", "write"} :
                  [cmd[i] EXCEPT !.pc = pc, !.by = NoHandler] \in Run
             /\ \A h \in Handlers : [cmd[i] EXCEPT !.by = h] \in Run
  BY <1>2 DEF Run
<1>4. ASSUME NEW i \in Installers, NEW u \in Run
      PROVE  [cmd EXCEPT ![i] = u] \in [Installers -> Run]
  BY <1>2
<1>5. ASSUME NEW i \in Installers, NEW pc \in {"login", "enroll", "write"}, Go(i, pc)
      PROVE  cmd' \in [Installers -> Run]
  BY <1>3, <1>4, <1>5 DEF Go
<1>6. ASSUME NEW i \in Installers, NEW h \in Handlers, Send(i, h)
      PROVE  cmd' \in [Installers -> Run]
  BY <1>3, <1>4, <1>6 DEF Send
<1>7. ASSUME NEW i \in Installers, Stop(i)
      PROVE  cmd' \in [Installers -> Run]
  BY <1>1, <1>4, <1>7 DEF Stop
<1>8. ASSUME NEW h \in Handlers, NEW pc \in {"enroll", "write"}, Answered(h, pc)
      PROVE  cmd' \in [Installers -> Run]
  BY <1>2, <1>3, <1>8 DEF Answered
<1>9. ASSUME NEW h \in Handlers, Refused(h)
      PROVE  cmd' \in [Installers -> Run]
  BY <1>1, <1>2, <1>9 DEF Refused
<1>10. QED
  BY <1>1, <1>5, <1>6, <1>7, <1>8, <1>9

\* The type invariant of the composition is inductive.
LEMMA CommandType ==
  ASSUME CommandTypeOK, [CommandNext]_allVars
  PROVE  CommandTypeOK'
<1>s. TypeOK'
  BY ServerStep, ServerType DEF CommandTypeOK
<1>m. ASSUME Mishap PROVE mishaps' \in 0..MaxMishaps
  <2>1. faults \in Nat
    BY LimitsAssumption DEF CommandTypeOK, TypeOK
  <2>2. QED
    BY <1>m, <2>1, BoundsAssumption DEF Mishap, Room, CommandTypeOK
<1>h. ASSUME Admit \/ Refuse \/ Age \/ Forget \/ UNCHANGED hits
      PROVE  hits' \in Seq(Nat) /\ Len(hits') <= Limit
  BY <1>h, LimiterType DEF CommandTypeOK
<1> USE <1>s DEF CommandTypeOK
<1>1. CASE UNCHANGED allVars
  BY <1>1 DEF allVars, commandVars
<1>2. ASSUME NEW i \in Installers, Begin(i)
      PROVE  CommandTypeOK'
  <2> PICK p \in Passwords, k \in Keys : Start(i, p, k)
    BY <1>2 DEF Begin
  <2> DEFINE u == [Stopped EXCEPT !.pc = "register", !.machine = NewId,
                                  !.password = p, !.key = k, !.wait = 0]
  <2>1. u \in Run
    BY Chosen, RunTypes DEF Start, Run
  <2>2. cmd' = [cmd EXCEPT ![i] = u]
    BY DEF Start
  <2> HIDE DEF u
  <2>3. cmd' \in [Installers -> Run]
    BY <2>1, <2>2
  <2>4. QED
    BY <2>3 DEF Start
<1>3. ASSUME NEW i \in Installers, RunStep(i) \/ RegistrationFails(i) \/ Interrupt(i)
      PROVE  CommandTypeOK'
  <2>1. CASE RegisterMachine(i)
    BY <2>1, <1>h, <1>m, RunTypes DEF RegisterMachine
  <2>2. CASE Login(i)
    BY <2>2, <1>h, Chosen, RunTypes DEF Login
  <2>3. CASE Enroll(i)
    BY <2>3, Chosen, RunTypes DEF Enroll
  <2>4. CASE TooManyRequests(i)
    BY <2>4, <1>h, RunTypes DEF TooManyRequests
  <2>5. CASE EnrollForbidden(i)
    BY <2>5, RunTypes DEF EnrollForbidden
  <2>6. CASE WriteFile(i)
    <3>1. cmd' \in [Installers -> Run] /\ mishaps' \in 0..MaxMishaps
      BY <2>6, <1>m, RunTypes DEF WriteFile
    <3>2. cmd[i] \in Run /\ file[i] \in File
      OBVIOUS
    <3>3. /\ [state |-> "written", machine |-> cmd[i].machine,
              password |-> cmd[i].password] \in File
          /\ [file[i] EXCEPT !.state = "broken"] \in File
      BY <3>2 DEF Run, File
    <3>4. file' \in [Installers -> File]
      BY <2>6, <3>3 DEF WriteFile
    <3>5. QED
      BY <2>6, <3>1, <3>4 DEF WriteFile
  <2>7. CASE RegistrationFails(i)
    BY <2>7, <1>h, <1>m, RunTypes DEF RegistrationFails
  <2>8. CASE Interrupt(i)
    BY <2>8, <1>m, RunTypes DEF Interrupt
  <2>9. QED
    BY <1>3, <2>1, <2>2, <2>3, <2>4, <2>5, <2>6, <2>7, <2>8 DEF RunStep
<1>4. ASSUME NEW h \in Handlers, Serve(h) \/ ServerError(h)
      PROVE  CommandTypeOK'
  <2>1. CASE Check(h)
    BY <2>1, RunTypes DEF Check
  <2>2. CASE LoginDone(h)
    BY <2>2, <1>m, RunTypes DEF LoginDone
  <2>3. CASE EnrollDone(h)
    BY <2>3, <1>m, RunTypes DEF EnrollDone
  <2>4. CASE ServerError(h)
    BY <2>4, RunTypes DEF ServerError
  <2>5. QED
    BY <1>4, <2>1, <2>2, <2>3, <2>4 DEF Serve
<1>5. ASSUME NEW m \in Machines, Meddle(m)
      PROVE  CommandTypeOK'
  BY <1>5, <1>m DEF Meddle
<1>6. ASSUME NEW k \in Keys, Revoke(k) \/ \E limit \in Limits : HandOut(k, limit)
      PROVE  CommandTypeOK'
  BY <1>6, <1>m DEF Revoke, HandOut, commandVars
<1>7. CASE NewProcess
  BY <1>7, <1>h DEF NewProcess, commandVars
<1>8. CASE Tick
  <2>1. hits' \in Seq(Nat) /\ Len(hits') <= Limit
    BY <1>8, <1>h DEF Tick
  <2>2. ASSUME NEW i \in Installers
        PROVE  [cmd[i] EXCEPT !.wait = IF @ = 0 THEN 0 ELSE @ - 1] \in Run
    <3>1. cmd[i] \in Run /\ cmd[i].wait \in 0..Window
      BY DEF Run
    <3>2. (IF cmd[i].wait = 0 THEN 0 ELSE cmd[i].wait - 1) \in 0..Window
      BY <3>1, LimiterAssumption
    <3>3. QED
      BY <3>1, <3>2 DEF Run
  <2>3. cmd' \in [Installers -> Run]
    BY <1>8, <2>2 DEF Tick
  <2>4. QED
    BY <1>8, <2>1, <2>3 DEF Tick
<1>9. QED
  BY <1>1, <1>2, <1>3, <1>4, <1>5, <1>6, <1>7, <1>8 DEF CommandNext

-----------------------------------------------------------------------------
(* The credentials                                                         *)

\* What a step may do to the machines: an id that is there keeps its password
\* and, once validated, its status, unless an admin touches it.
Kept(m) ==
  /\ m \in touched => m \in touched'
  /\ m \notin touched' /\ Present(m) =>
       /\ Present(m)' /\ password'[m] = password[m]
       /\ status[m] = "validated" => status'[m] = "validated"

\* What is known of a run and of a file.
RunKnown(i) ==
  LET m == cmd[i].machine
  IN cmd[i].pc \in {"login", "enroll", "write"} =>
       \/ m \in touched
       \/ /\ Present(m) /\ password[m] = cmd[i].password
          /\ cmd[i].pc = "write" => status[m] = "validated"
FileKnown(i) == file[i].state = "written" => Working(i) \/ file[i].machine \in touched

\* A step that leaves a run and its file alone, or stops the run, and keeps
\* their machines, keeps what is known of them.
LEMMA OthersKnown ==
  ASSUME NEW i \in Installers, RunKnown(i), FileKnown(i),
         Running(i) => Kept(cmd[i].machine),
         file[i].state = "written" => Kept(file[i].machine)
  PROVE  /\ (\/ /\ cmd'[i].pc = cmd[i].pc /\ cmd'[i].machine = cmd[i].machine
                /\ cmd'[i].password = cmd[i].password
             \/ cmd'[i].pc \in {"idle", "register"})
              => RunKnown(i)'
         /\ file'[i] = file[i] \/ file'[i].state = "broken" => FileKnown(i)'
<1>1. ASSUME cmd'[i].pc = cmd[i].pc /\ cmd'[i].machine = cmd[i].machine
               /\ cmd'[i].password = cmd[i].password
      PROVE  RunKnown(i)'
  BY <1>1 DEF RunKnown, Running, Kept, Present
<1>2. ASSUME cmd'[i].pc \in {"idle", "register"}
      PROVE  RunKnown(i)'
  BY <1>2 DEF RunKnown
<1>3. ASSUME file'[i] = file[i]
      PROVE  FileKnown(i)'
  BY <1>3 DEF FileKnown, Working, Kept, Present
<1>4. ASSUME file'[i].state = "broken"
      PROVE  FileKnown(i)'
  BY <1>4 DEF FileKnown
<1>5. QED
  BY <1>1, <1>2, <1>3, <1>4

\* The requests of the server keep every machine; only Register and the admins
\* do more, and NewId is nobody's.
LEMMA MachinesKept ==
  ASSUME CommandTypeOK, CommandNext, NEW m \in Machines
  PROVE  Kept(m) \/ (m = NewId /\ Unused(m))
<1>t. /\ status \in [Machines -> {"absent", "pending", "validated", "blocked"}]
      /\ password \in [Machines -> Passwords] /\ req \in [Handlers -> Request]
  BY DEF CommandTypeOK, TypeOK
<1>u. ASSUME UNCHANGED <<machineVars, touched>> PROVE Kept(m)
  BY <1>u DEF machineVars, Kept, Present
<1>1. ASSUME NEW i \in Installers, Begin(i)
      PROVE  Kept(m) \/ (m = NewId /\ Unused(m))
  <2>1. IdsLeft /\ touched' = touched \ {NewId} /\ UNCHANGED <<status, password>>
    BY <1>1 DEF Begin, Start, vars
  <2>2. QED
    BY <2>1, Chosen DEF Kept, Present
<1>2. ASSUME NEW i \in Installers, RunStep(i) \/ RegistrationFails(i) \/ Interrupt(i)
      PROVE  Kept(m)
  <2>1. CASE RegisterMachine(i)
    BY <2>1, <1>t DEF RegisterMachine, Register, Kept, Present
  <2>2. CASE ~RegisterMachine(i)
    BY <1>2, <1>u, <2>2
       DEF RunStep, RegistrationFails, Interrupt, Login, LoginBegin, Enroll, EnrollBegin,
           Authenticate, TooManyRequests, EnrollForbidden, WriteFile, vars, machineVars
  <2>3. QED
    BY <2>1, <2>2
<1>3. ASSUME NEW h \in Handlers, Serve(h) \/ ServerError(h)
      PROVE  Kept(m)
  <2>1. CASE EnrollDone(h)
    BY <2>1, <1>t DEF EnrollDone, EnrollMachine, Kept, Present, Request
  <2>2. CASE ~EnrollDone(h)
    BY <1>3, <1>u, <2>2
       DEF Serve, ServerError, Check, LoginCheck, UseKey, LoginDone, LoginIssue, Abandon
  <2>3. QED
    BY <2>1, <2>2
<1>4. ASSUME NEW n \in Machines, Meddle(n)
      PROVE  Kept(m)
  BY <1>4, <1>t DEF Meddle, Block, Unblock, DeleteMachine, Remove, Kept, Present
<1>5. ASSUME NEW k \in Keys, Revoke(k) \/ \E limit \in Limits : HandOut(k, limit)
      PROVE  Kept(m)
  BY <1>5, <1>u DEF Revoke, EndKey, HandOut, CreateKey, commandVars
<1>6. CASE NewProcess \/ Tick
  <2>1. UNCHANGED <<status, password, touched>>
    BY <1>6 DEF NewProcess, Tick, vars, commandVars
  <2>2. QED
    BY <2>1, <1>u DEF machineVars
<1>7. QED
  BY <1>1, <1>2, <1>3, <1>4, <1>5, <1>6 DEF CommandNext

\* A step leaves each run as it is, stops it, or takes it one request further,
\* when the server has done what it asked for.
LEMMA RunMoves ==
  ASSUME CommandTypeOK, CommandInv, CommandNext, NEW i \in Installers
  PROVE  \/ /\ cmd'[i].pc = cmd[i].pc /\ cmd'[i].machine = cmd[i].machine
            /\ cmd'[i].password = cmd[i].password
         \/ cmd'[i].pc \in {"idle", "register"}
         \/ RunKnown(i)'
<1> DEFINE Same == /\ cmd'[i].pc = cmd[i].pc /\ cmd'[i].machine = cmd[i].machine
                   /\ cmd'[i].password = cmd[i].password
           Stops == cmd'[i].pc \in {"idle", "register"}
<1>t. /\ cmd \in [Installers -> Run] /\ cmd[i] \in Run
      /\ status \in [Machines -> {"absent", "pending", "validated", "blocked"}]
      /\ password \in [Machines -> Passwords] /\ req \in [Handlers -> Request]
  BY DEF CommandTypeOK, TypeOK
<1>s. ASSUME NEW j \in Installers, Stop(j) PROVE Same \/ Stops
  BY <1>s, <1>t DEF Stop, Stopped
<1>r. ASSUME NEW h \in Handlers, Refused(h) PROVE Same \/ Stops
  BY <1>r, <1>t DEF Refused, Stopped
<1>u. ASSUME UNCHANGED cmd PROVE Same
  BY <1>u
<1>1. ASSUME NEW j \in Installers, Begin(j)
      PROVE  Same \/ Stops
  <2> PICK p \in Passwords, k \in Keys : Start(j, p, k)
    BY <1>1 DEF Begin
  <2>1. CASE i = j
    BY <2>1, <1>t DEF Start, Stopped
  <2>2. CASE i # j
    BY <2>2, <1>t DEF Start
  <2>3. QED
    BY <2>1, <2>2
<1>2. ASSUME NEW j \in Installers, RunStep(j) \/ RegistrationFails(j) \/ Interrupt(j)
      PROVE  Same \/ Stops \/ RunKnown(i)'
  <2>1. CASE RegisterMachine(j) /\ i = j
    <3>1. CASE Stop(j)
      BY <3>1, <1>s
    <3>2. CASE Go(j, "login")
      <4>1. /\ cmd'[i].pc = "login" /\ cmd'[i].machine = cmd[i].machine
            /\ cmd'[i].password = cmd[i].password
        BY <2>1, <3>2, <1>t DEF Go, Run
      <4>2. status'[cmd[i].machine] = "pending" /\ password'[cmd[i].machine] = cmd[i].password
        BY <2>1, <1>t DEF RegisterMachine, Register, Run
      <4>3. QED
        BY <4>1, <4>2 DEF RunKnown, Present
    <3>3. QED
      BY <2>1, <3>1, <3>2 DEF RegisterMachine
  <2>2. CASE RegisterMachine(j) /\ i # j
    BY <2>2, <1>t DEF RegisterMachine, Go, Stop
  <2>3. CASE Login(j) \/ Enroll(j)
    BY <2>3, <1>t DEF Login, Enroll, Send, Run
  <2>4. CASE Stop(j)
    BY <2>4, <1>s
  <2>5. QED
    BY <1>2, <2>1, <2>2, <2>3, <2>4
       DEF RunStep, RegistrationFails, Interrupt, TooManyRequests, EnrollForbidden, WriteFile
<1>3. ASSUME NEW h \in Handlers, Serve(h) \/ ServerError(h)
      PROVE  Same \/ Stops \/ RunKnown(i)'
  <2>n. h # NoHandler
    BY InstallersAssumption
  <2>1. CASE LoginDone(h) /\ Answered(h, "enroll") /\ cmd[i].by = h
    <3>1. cmd[i].pc = "login"
      BY <2>1, <2>n DEF LoginDone, LoginIssue, CommandInv, RequestsMatch, At
    <3>2. /\ cmd'[i].pc = "enroll" /\ cmd'[i].machine = cmd[i].machine
          /\ cmd'[i].password = cmd[i].password
      BY <2>1, <1>t DEF Answered, Run
    <3>3. RunKnown(i)
      BY DEF CommandInv, RunsAdvance, RunKnown
    <3>4. UNCHANGED <<status, password, touched>>
      BY <2>1 DEF LoginDone, LoginIssue, machineVars
    <3>5. QED
      BY <3>1, <3>2, <3>3, <3>4 DEF RunKnown, Present
  <2>2. CASE EnrollDone(h) /\ Answered(h, "write") /\ cmd[i].by = h
    <3>1. cmd[i].pc = "enroll" /\ req[h].machine = cmd[i].machine
      BY <2>2, <2>n DEF EnrollDone, EnrollMachine, CommandInv, RequestsMatch, At
    <3>2. /\ cmd'[i].pc = "write" /\ cmd'[i].machine = cmd[i].machine
          /\ cmd'[i].password = cmd[i].password
      BY <2>2, <1>t DEF Answered, Run
    <3>3. RunKnown(i)
      BY DEF CommandInv, RunsAdvance, RunKnown
    <3>4. cmd[i].machine \in Machines /\ UNCHANGED <<password, touched>>
      BY <2>2, <1>t DEF EnrollDone, EnrollMachine, Run
    <3>5. Present(cmd[i].machine) => status'[cmd[i].machine] = "validated"
      BY <2>2, <3>1, <3>4, <1>t DEF EnrollDone, EnrollMachine
    <3>6. QED
      BY <3>1, <3>2, <3>3, <3>4, <3>5 DEF RunKnown, Present
  <2>3. CASE \E pc \in {"enroll", "write"} : Answered(h, pc) /\ cmd[i].by # h
    BY <2>3, <1>t DEF Answered
  <2>4. CASE UNCHANGED cmd \/ Refused(h)
    BY <2>4, <1>r
  <2>5. QED
    BY <1>3, <2>1, <2>2, <2>3, <2>4 DEF Serve, Check, LoginDone, EnrollDone, ServerError
<1>4. ASSUME NEW n \in Machines, Meddle(n)
      PROVE  Same
  BY <1>4, <1>u DEF Meddle
<1>5. ASSUME NEW k \in Keys, Revoke(k) \/ \E limit \in Limits : HandOut(k, limit)
      PROVE  Same
  BY <1>5, <1>u DEF Revoke, HandOut, commandVars
<1>6. CASE NewProcess
  BY <1>6, <1>u DEF NewProcess, commandVars
<1>7. CASE Tick
  BY <1>7, <1>t DEF Tick, Run
<1>8. QED
  BY <1>1, <1>2, <1>3, <1>4, <1>5, <1>6, <1>7 DEF CommandNext

\* The requests in progress go on matching the runs that wait for them.
LEMMA MatchStep ==
  ASSUME CommandTypeOK, CommandInv, CommandNext
  PROVE  RequestsMatch'
<1> SUFFICES ASSUME NEW i \in Installers, cmd'[i].by # NoHandler
             PROVE  LET h == cmd'[i].by
                    IN /\ \/ cmd'[i].pc = "login" /\ req'[h].pc \in {"login", "issue"}
                          \/ cmd'[i].pc = "enroll" /\ req'[h].pc \in {"enroll", "validate"}
                       /\ req'[h].machine = cmd'[i].machine
  BY DEF RequestsMatch, At
<1> DEFINE g == cmd'[i].by
           Goal == /\ \/ cmd'[i].pc = "login" /\ req'[g].pc \in {"login", "issue"}
                      \/ cmd'[i].pc = "enroll" /\ req'[g].pc \in {"enroll", "validate"}
                   /\ req'[g].machine = cmd'[i].machine
           h == cmd[i].by
           Matched == /\ \/ cmd[i].pc = "login" /\ req[h].pc \in {"login", "issue"}
                         \/ cmd[i].pc = "enroll" /\ req[h].pc \in {"enroll", "validate"}
                      /\ req[h].machine = cmd[i].machine
<1> SUFFICES Goal
  OBVIOUS
<1>t. /\ cmd \in [Installers -> Run] /\ cmd[i] \in Run /\ cmd'[i] \in Run
      /\ req \in [Handlers -> Request]
  BY CommandType DEF CommandTypeOK, TypeOK
<1>i. h # NoHandler => Matched
  BY DEF CommandInv, RequestsMatch, At
<1>s. ASSUME NEW j \in Installers, Stop(j) PROVE i # j /\ cmd'[i] = cmd[i]
  BY <1>s, <1>t DEF Stop, Stopped
<1>1. ASSUME UNCHANGED req,
             /\ cmd'[i].by = cmd[i].by /\ cmd'[i].pc = cmd[i].pc
             /\ cmd'[i].machine = cmd[i].machine
      PROVE  Goal
  BY <1>1, <1>i
<1>2. ASSUME NEW j \in Installers, Login(j) \/ Enroll(j)
      PROVE  Goal
  <2>1. /\ SomeFree /\ Free \in Handlers /\ req[Free].pc = "idle"
        /\ cmd' = [cmd EXCEPT ![j].by = Free]
    BY <1>2, Chosen DEF Login, Enroll, Send, At
  <2>2. CASE i # j
    <3>1. cmd'[i] = cmd[i] /\ h # Free /\ h \in Handlers
      BY <2>1, <2>2, <1>t, <1>i DEF Run
    <3>2. req'[h] = req[h]
      BY <1>2, <2>1, <3>1, <1>t DEF Login, LoginBegin, Enroll, EnrollBegin, Authenticate
    <3>3. QED
      BY <3>1, <3>2, <1>i
  <2>3. CASE i = j
    <3>1. /\ cmd'[i].by = Free /\ cmd'[i].pc = cmd[i].pc
          /\ cmd'[i].machine = cmd[i].machine
      BY <2>1, <2>3, <1>t DEF Run
    <3>2. CASE Login(j)
      BY <2>1, <2>3, <3>1, <3>2, <1>t DEF Login, Doing, LoginBegin, NoRequest, Request
    <3>3. CASE Enroll(j)
      BY <2>1, <2>3, <3>1, <3>3, <1>t DEF Enroll, Doing, EnrollBegin, Authenticate, Request
    <3>4. QED
      BY <1>2, <3>2, <3>3
  <2>4. QED
    BY <2>2, <2>3
<1>3. ASSUME NEW j \in Installers,
             RunStep(j) \/ RegistrationFails(j) \/ Interrupt(j) \/ Begin(j),
             ~Login(j), ~Enroll(j)
      PROVE  Goal
  <2>1. UNCHANGED req
    BY <1>3 DEF RunStep, RegisterMachine, Register, TooManyRequests, EnrollForbidden,
       WriteFile, RegistrationFails, Interrupt, Begin, Start, vars
  <2>2. CASE Stop(j)
    BY <2>1, <2>2, <1>s, <1>1
  <2>3. CASE RegisterMachine(j) /\ Go(j, "login")
    <3>1. i # j => cmd'[i] = cmd[i]
      BY <2>3, <1>t DEF Go
    <3>2. i = j => cmd'[i].by = NoHandler
      BY <2>3, <1>t DEF Go, RegisterMachine, Doing, Run
    <3>3. QED
      BY <2>1, <3>1, <3>2, <1>1
  <2>4. CASE Begin(j)
    <3>1. i = j => cmd'[i].by = NoHandler
      BY <2>4, <1>t DEF Begin, Start, Stopped
    <3>2. i # j => cmd'[i] = cmd[i]
      BY <2>4, <1>t DEF Begin, Start
    <3>3. QED
      BY <2>1, <3>1, <3>2, <1>1
  <2>5. QED
    BY <1>3, <2>2, <2>3, <2>4
       DEF RunStep, RegisterMachine, RegistrationFails, Interrupt, TooManyRequests,
           EnrollForbidden, WriteFile
<1>4. ASSUME NEW f \in Handlers, Serve(f) \/ ServerError(f)
      PROVE  Goal
  <2>n. f # NoHandler
    BY InstallersAssumption
  <2>1. CASE Check(f) /\ UNCHANGED cmd /\ ~At(f, "idle")'
    <3>1. h \in Handlers /\ h # f => req'[h] = req[h]
      BY <2>1, <1>t DEF Check, LoginCheck, UseKey, Done
    <3>2. /\ At(f, "login") => req'[f].pc = "issue"
          /\ At(f, "enroll") => req'[f].pc = "validate"
          /\ req'[f].machine = req[f].machine
          /\ At(f, "login") \/ At(f, "enroll")
      BY <2>1, <1>t DEF Check, LoginCheck, UseKey, Done, NoRequest, At, Request
    <3>3. g = h /\ h # NoHandler /\ h \in Handlers
      BY <2>1, <1>t DEF Run
    <3>4. QED
      BY <2>1, <3>1, <3>2, <3>3, <1>i DEF At
  <2>2. CASE Refused(f)
    <3>1. h # f /\ h \in Handlers /\ cmd'[i] = cmd[i]
      BY <2>2, <1>t DEF Refused, Stopped, Run
    <3>2. req'[h] = req[h]
      BY <1>4, <3>1, <1>t
         DEF Serve, ServerError, Check, LoginCheck, UseKey, LoginDone, LoginIssue,
             EnrollDone, EnrollMachine, Abandon, Done
    <3>3. QED
      BY <3>1, <3>2, <1>i
  <2>3. CASE \E pc \in {"enroll", "write"} : Answered(f, pc)
    <3>1. h # f /\ h \in Handlers /\ cmd'[i] = cmd[i]
      BY <2>3, <1>t DEF Answered, Run
    <3>2. req'[h] = req[h]
      BY <1>4, <3>1, <1>t
         DEF Serve, ServerError, Check, LoginCheck, UseKey, LoginDone, LoginIssue,
             EnrollDone, EnrollMachine, Abandon, Done
    <3>3. QED
      BY <3>1, <3>2, <1>i
  <2>4. QED
    BY <1>4, <2>1, <2>2, <2>3 DEF Serve, Check, LoginDone, EnrollDone, ServerError
<1>5. ASSUME NEW m \in Machines, Meddle(m)
      PROVE  Goal
  BY <1>5, <1>1 DEF Meddle, Block, Unblock, DeleteMachine
<1>6. ASSUME NEW k \in Keys, Revoke(k) \/ \E limit \in Limits : HandOut(k, limit)
      PROVE  Goal
  BY <1>6, <1>1 DEF Revoke, EndKey, HandOut, CreateKey, commandVars
<1>7. CASE NewProcess
  BY <1>7, <1>1 DEF NewProcess, vars, commandVars
<1>8. CASE Tick
  <2>1. UNCHANGED req
    BY <1>8 DEF Tick, vars
  <2>2. /\ cmd'[i].by = cmd[i].by /\ cmd'[i].pc = cmd[i].pc
        /\ cmd'[i].machine = cmd[i].machine
    BY <1>8, <1>t DEF Tick, Run
  <2>3. QED
    BY <2>1, <2>2, <1>1
<1>9. QED
  BY <1>2, <1>3, <1>4, <1>5, <1>6, <1>7, <1>8 DEF CommandNext

-----------------------------------------------------------------------------
(* Runs, machines and files                                                *)

\* A run that does not start or send a request keeps its machine, or stops.
Follows(i) ==
  \/ cmd'[i].pc = "idle" /\ cmd'[i].by = NoHandler
  \/ /\ Running(i)' => Running(i)
     /\ cmd'[i].machine = cmd[i].machine
     /\ cmd'[i].by = cmd[i].by \/ cmd'[i].by = NoHandler

\* Files that stay or break and runs that only go on leave them all apart.
LEMMA ApartKept ==
  ASSUME RunsApart, touched \subseteq touched',
         \A i \in Installers : Follows(i) /\ (file'[i] = file[i] \/ file'[i].state = "broken")
  PROVE  RunsApart'
BY DEF RunsApart, Follows, Running

LEMMA ApartStep ==
  ASSUME CommandTypeOK, CommandInv, [CommandNext]_allVars
  PROVE  RunsApart'
<1>t. /\ cmd \in [Installers -> Run] /\ file \in [Installers -> File]
      /\ RunsApart /\ RequestsMatch /\ FileWorks
  BY DEF CommandTypeOK, CommandInv
<1>s. ASSUME NEW j \in Installers, Stop(j) PROVE \A i \in Installers : Follows(i)
  BY <1>s, <1>t DEF Stop, Stopped, Follows, Running
<1>r. ASSUME NEW h \in Handlers, Refused(h) PROVE \A i \in Installers : Follows(i)
  BY <1>r, <1>t DEF Refused, Stopped, Follows, Running
<1>u. ASSUME UNCHANGED cmd PROVE \A i \in Installers : Follows(i)
  BY <1>u DEF Follows, Running
<1>1. CASE UNCHANGED allVars
  BY <1>1, <1>t DEF allVars, commandVars, RunsApart, Running
<1>2. ASSUME NEW j \in Installers, Begin(j)
      PROVE  RunsApart'
  <2> PICK p \in Passwords, k \in Keys : Start(j, p, k)
    BY <1>2 DEF Begin
  <2>1. /\ file' = file /\ touched' = touched \ {NewId}
        /\ Mine(NewId) = {} /\ ~Running(j) /\ ~Working(j)
    BY Chosen DEF Start, Unused
  <2>2. /\ cmd'[j].pc = "register" /\ cmd'[j].machine = NewId /\ cmd'[j].by = NoHandler
        /\ \A i \in Installers \ {j} : cmd'[i] = cmd[i]
    BY <1>t DEF Start, Stopped
  <2>3. \A i \in Installers : /\ Running(i) => cmd[i].machine # NewId
                              /\ file[i].state = "written" => file[i].machine # NewId
    BY <2>1 DEF Mine
  <2>4. file[j].state = "written" => file[j].machine \in touched'
    BY <1>t, <2>1, <2>3 DEF FileWorks
  <2>5. QED
    BY <1>t, <2>1, <2>2, <2>3, <2>4 DEF RunsApart, Running
<1>3. ASSUME NEW j \in Installers, Login(j) \/ Enroll(j)
      PROVE  RunsApart'
  <2>1. /\ cmd' = [cmd EXCEPT ![j].by = Free]
        /\ Free \in Handlers /\ At(Free, "idle")
        /\ file' = file /\ touched' = touched
    BY <1>3, Chosen DEF Login, Enroll, Send
  <2>2. \A i \in Installers : cmd[i].by # Free
    BY <2>1, <1>t, InstallersAssumption DEF RequestsMatch, At
  <2>3. \A i \in Installers :
          /\ cmd'[i].pc = cmd[i].pc /\ cmd'[i].machine = cmd[i].machine
          /\ cmd'[i].by = IF i = j THEN Free ELSE cmd[i].by
    BY <2>1, <1>t DEF Run
  <2>4. QED
    BY <1>t, <2>1, <2>2, <2>3 DEF RunsApart, Running
<1>4. ASSUME NEW j \in Installers,
             \/ RunStep(j) /\ ~Login(j) /\ ~Enroll(j)
             \/ RegistrationFails(j) \/ Interrupt(j)
      PROVE  RunsApart'
  <2>1. CASE WriteFile(j) /\ file'[j].state = "written" /\ file' # file
    <3>1. /\ file' = [file EXCEPT ![j] = [state |-> "written", machine |-> cmd[j].machine,
                                          password |-> cmd[j].password]]
          /\ Stop(j) /\ touched' = touched /\ cmd[j].pc = "write"
      BY <2>1, <1>t DEF WriteFile, Doing, File
    <3>2. /\ cmd'[j].pc = "idle" /\ cmd'[j].by = NoHandler
          /\ file'[j].machine = cmd[j].machine /\ file'[j].state = "written"
          /\ \A i \in Installers \ {j} : cmd'[i] = cmd[i] /\ file'[i] = file[i]
      BY <3>1, <1>t DEF Stop, Stopped
    <3>3. QED
      BY <1>t, <3>1, <3>2 DEF RunsApart, Running
  <2>2. CASE WriteFile(j) /\ ~(file'[j].state = "written" /\ file' # file)
    <3>1. \A i \in Installers : file'[i] = file[i] \/ file'[i].state = "broken"
      BY <2>2, <1>t DEF WriteFile, File
    <3>2. QED
      BY <2>2, <3>1, <1>t, <1>s, ApartKept DEF WriteFile
  <2>3. CASE ~WriteFile(j) /\ Stop(j)
    <3>1. file' = file /\ touched' = touched
      BY <1>4, <2>3 DEF RunStep, RegisterMachine, RegistrationFails, TooManyRequests,
         EnrollForbidden, Interrupt
    <3>2. QED
      BY <2>3, <3>1, <1>t, <1>s, ApartKept
  <2>4. CASE RegisterMachine(j) /\ Go(j, "login")
    <3>1. \A i \in Installers : Follows(i)
      BY <2>4, <1>t DEF RegisterMachine, Doing, Go, Run, Follows, Running
    <3>2. QED
      BY <2>4, <3>1, <1>t, ApartKept DEF RegisterMachine
  <2>5. QED
    BY <1>4, <2>1, <2>2, <2>3, <2>4
       DEF RunStep, RegisterMachine, RegistrationFails, TooManyRequests, EnrollForbidden,
           Interrupt, WriteFile
<1>5. ASSUME NEW h \in Handlers, Serve(h) \/ ServerError(h)
      PROVE  RunsApart'
  <2>1. file' = file /\ touched' = touched
    BY <1>5 DEF Serve, Check, LoginDone, EnrollDone, ServerError
  <2>2. ASSUME NEW pc \in {"enroll", "write"}, Answered(h, pc)
        PROVE  \A i \in Installers : Follows(i)
    <3>1. \A i \in Installers : cmd[i].by = h => Running(i)
      BY <1>t, InstallersAssumption DEF RequestsMatch, Running
    <3>2. QED
      BY <2>2, <3>1, <1>t DEF Answered, Run, Follows, Running
  <2>3. QED
    BY <1>5, <1>r, <1>u, <2>1, <2>2, <1>t, ApartKept
       DEF Serve, Check, LoginDone, EnrollDone, ServerError
<1>6. ASSUME NEW m \in Machines, Meddle(m)
      PROVE  RunsApart'
  BY <1>6, <1>t, <1>u, ApartKept DEF Meddle
<1>7. ASSUME NEW k \in Keys, Revoke(k) \/ \E limit \in Limits : HandOut(k, limit)
      PROVE  RunsApart'
  BY <1>7, <1>t, <1>u, ApartKept DEF Revoke, HandOut, commandVars
<1>8. CASE NewProcess
  BY <1>8, <1>t, <1>u, ApartKept DEF NewProcess, commandVars
<1>9. CASE Tick
  <2>1. \A i \in Installers : Follows(i)
    BY <1>9, <1>t DEF Tick, Run, Follows, Running
  <2>2. QED
    BY <1>9, <2>1, <1>t, ApartKept DEF Tick
<1>10. QED
  BY <1>1, <1>2, <1>3, <1>4, <1>5, <1>6, <1>7, <1>8, <1>9 DEF CommandNext

-----------------------------------------------------------------------------
(* The uses of keys                                                        *)

\* UsesAccounted for one key.
Accounted(k) ==
  key[k].uses + Cardinality(Orphans) + Cardinality(Spoilt)
    <= Cardinality(Untouched) + Cardinality(Finishing) + faults + mishaps

\* A set that gains at most one element grows by at most one, and one that gains
\* an element it did not have grows by at least one.
LEMMA CountGrows ==
  ASSUME NEW S, NEW T, IsFiniteSet(S), IsFiniteSet(T)
  PROVE  /\ Cardinality(S) \in Nat
         /\ S \subseteq T => Cardinality(S) <= Cardinality(T)
         /\ \A x : S \subseteq T \cup {x} => Cardinality(S) <= Cardinality(T) + 1
         /\ \A x : x \notin S /\ S \cup {x} \subseteq T => Cardinality(S) + 1 <= Cardinality(T)
<1>1. Cardinality(S) \in Nat /\ Cardinality(T) \in Nat
  BY FS_CardinalityType
<1>2. S \subseteq T => Cardinality(S) <= Cardinality(T)
  BY FS_Subset
<1>3. ASSUME NEW x, S \subseteq T \cup {x} PROVE Cardinality(S) <= Cardinality(T) + 1
  <2>0. /\ IsFiniteSet(T \cup {x})
        /\ Cardinality(T \cup {x}) = IF x \in T THEN Cardinality(T) ELSE Cardinality(T) + 1
    BY FS_AddElement
  <2>1. IsFiniteSet(T \cup {x}) /\ Cardinality(T \cup {x}) <= Cardinality(T) + 1
    BY <1>1, <2>0
  <2>2. Cardinality(S) <= Cardinality(T \cup {x}) /\ Cardinality(T \cup {x}) \in Nat
    BY <1>3, <2>1, FS_Subset, FS_CardinalityType
  <2>3. QED
    BY <1>1, <2>1, <2>2
<1>4. ASSUME NEW x, x \notin S, S \cup {x} \subseteq T
      PROVE  Cardinality(S) + 1 <= Cardinality(T)
  <2>1. Cardinality(S \cup {x}) = Cardinality(S) + 1
    BY <1>4, FS_AddElement
  <2>2. Cardinality(S \cup {x}) <= Cardinality(T)
    BY <1>4, FS_Subset
  <2>3. QED
    BY <2>1, <2>2
<1>5. QED
  BY <1>1, <1>2, <1>3, <1>4

\* The four sets are finite, before and after a step.
LEMMA SetsFinite ==
  /\ IsFiniteSet(Orphans) /\ IsFiniteSet(Spoilt)
  /\ IsFiniteSet(Untouched) /\ IsFiniteSet(Finishing)
  /\ IsFiniteSet(Orphans') /\ IsFiniteSet(Spoilt')
  /\ IsFiniteSet(Untouched') /\ IsFiniteSet(Finishing')
<1>1. /\ Orphans \subseteq Handlers /\ Orphans' \subseteq Handlers
      /\ Spoilt \subseteq Installers /\ Spoilt' \subseteq Installers
      /\ Untouched \subseteq Installers /\ Untouched' \subseteq Installers
      /\ Finishing \subseteq Installers /\ Finishing' \subseteq Installers
  BY DEF Orphans, Spoilt, Untouched, Finishing
<1>2. QED
  BY <1>1, HandlersAssumption, InstallersAssumption, FS_Subset

\* Failures so far, and uses, are numbers.
LEMMA CostsType ==
  ASSUME CommandTypeOK, CommandTypeOK', NEW k \in Keys
  PROVE  /\ faults \in Nat /\ faults' \in Nat /\ mishaps \in Nat /\ mishaps' \in Nat
         /\ key[k].uses \in Nat /\ key'[k].uses \in Nat
<1>1. key[k] \in KeyRow /\ key'[k] \in KeyRow
  BY DEF CommandTypeOK, TypeOK
<1>2. QED
  BY <1>1, LimitsAssumption, BoundsAssumption DEF CommandTypeOK, TypeOK, KeyRow

\* A step without a use may only free orphans and spoilt runs, and may not lose
\* an installation.
LEMMA AccountKept ==
  ASSUME CommandTypeOK, CommandTypeOK', NEW k \in Keys, Accounted(k),
         key'[k].uses <= key[k].uses,
         faults' >= faults, mishaps' >= mishaps,
         Orphans' \subseteq Orphans, Spoilt' \subseteq Spoilt,
         Untouched \subseteq Untouched', Finishing \subseteq Finishing'
  PROVE  Accounted(k)'
<1>1. /\ Cardinality(Orphans') <= Cardinality(Orphans)
      /\ Cardinality(Spoilt') <= Cardinality(Spoilt)
      /\ Cardinality(Untouched) <= Cardinality(Untouched')
      /\ Cardinality(Finishing) <= Cardinality(Finishing')
  BY SetsFinite, CountGrows
<1>2. /\ Cardinality(Orphans) \in Nat /\ Cardinality(Orphans') \in Nat
      /\ Cardinality(Spoilt) \in Nat /\ Cardinality(Spoilt') \in Nat
      /\ Cardinality(Untouched) \in Nat /\ Cardinality(Untouched') \in Nat
      /\ Cardinality(Finishing) \in Nat /\ Cardinality(Finishing') \in Nat
  BY SetsFinite, CountGrows
<1>3. QED
  BY <1>1, <1>2, CostsType DEF Accounted

\* One more failure pays for one change to one of the four sets.
LEMMA FailurePays ==
  ASSUME CommandTypeOK, CommandTypeOK', NEW k \in Keys, Accounted(k),
         key'[k].uses <= key[k].uses,
         faults' + mishaps' = faults + mishaps + 1,
         NEW x,
         \/ Orphans' \subseteq Orphans \cup {x} /\ Spoilt' \subseteq Spoilt
            /\ Untouched \subseteq Untouched' /\ Finishing \subseteq Finishing'
         \/ Orphans' \subseteq Orphans /\ Spoilt' \subseteq Spoilt \cup {x}
            /\ Untouched \subseteq Untouched' /\ Finishing \subseteq Finishing'
         \/ Orphans' \subseteq Orphans /\ Spoilt' \subseteq Spoilt
            /\ Untouched \subseteq Untouched' \cup {x} /\ Finishing \subseteq Finishing'
         \/ Orphans' \subseteq Orphans /\ Spoilt' \subseteq Spoilt
            /\ Untouched \subseteq Untouched' /\ Finishing \subseteq Finishing' \cup {x}
  PROVE  Accounted(k)'
<1> DEFINE O == Cardinality(Orphans)
           S == Cardinality(Spoilt)
           U == Cardinality(Untouched)
           F == Cardinality(Finishing)
<1>1. /\ O \in Nat /\ O' \in Nat /\ S \in Nat /\ S' \in Nat
      /\ U \in Nat /\ U' \in Nat /\ F \in Nat /\ F' \in Nat
  BY SetsFinite, CountGrows
<1>2. /\ Orphans' \subseteq Orphans => O' <= O
      /\ Spoilt' \subseteq Spoilt => S' <= S
      /\ Untouched \subseteq Untouched' => U <= U'
      /\ Finishing \subseteq Finishing' => F <= F'
  BY SetsFinite, CountGrows
<1>3. /\ Orphans' \subseteq Orphans \cup {x} => O' <= O + 1
      /\ Spoilt' \subseteq Spoilt \cup {x} => S' <= S + 1
      /\ Untouched \subseteq Untouched' \cup {x} => U <= U' + 1
      /\ Finishing \subseteq Finishing' \cup {x} => F <= F' + 1
  BY SetsFinite, CountGrows
<1>4. O' + S' + U + F <= O + S + U' + F' + 1
  BY <1>1, <1>2, <1>3
<1>5. key[k].uses + O + S <= U + F + faults + mishaps
  BY DEF Accounted
<1>6. /\ faults \in Nat /\ faults' \in Nat /\ mishaps \in Nat /\ mishaps' \in Nat
      /\ key[k].uses \in Nat /\ key'[k].uses \in Nat
  BY CostsType
<1>7. key'[k].uses + O' + S' <= U' + F' + faults' + mishaps'
  <2>1. PICK u \in Nat, o \in Nat, s \in Nat, n \in Nat, e \in Nat, f \in Nat, m \in Nat :
          /\ u = key[k].uses /\ o = O /\ s = S /\ n = U /\ e = F
          /\ f = faults /\ m = mishaps
    BY <1>1, <1>6
  <2>2. PICK u1 \in Nat, o1 \in Nat, s1 \in Nat, n1 \in Nat, e1 \in Nat, f1 \in Nat,
             m1 \in Nat :
          /\ u1 = key'[k].uses /\ o1 = O' /\ s1 = S' /\ n1 = U' /\ e1 = F'
          /\ f1 = faults' /\ m1 = mishaps'
    BY <1>1, <1>6
  <2>3. /\ u + o + s <= n + e + f + m
        /\ u1 <= u /\ f1 + m1 = f + m + 1
        /\ o1 + s1 + n + e <= o + s + n1 + e1 + 1
    BY <1>4, <1>5, <2>1, <2>2
  <2>4. u1 + o1 + s1 <= n1 + e1 + f1 + m1
    BY ONLY <2>3
  <2>5. QED
    BY <2>1, <2>2, <2>4
<1>8. QED
  BY <1>7 DEF Accounted

\* A key is used by an orphan, or for a run that is then finishing.
LEMMA UseIsAccounted ==
  ASSUME CommandTypeOK, CommandTypeOK', NEW k \in Keys, Accounted(k),
         key'[k].uses = key[k].uses + 1,
         UNCHANGED <<faults, mishaps>>,
         Spoilt' = Spoilt, Untouched' = Untouched,
         NEW x,
         \/ x \notin Orphans' /\ Orphans' \cup {x} \subseteq Orphans
            /\ Finishing \subseteq Finishing'
         \/ Orphans' \subseteq Orphans
            /\ x \notin Finishing /\ Finishing \cup {x} \subseteq Finishing'
  PROVE  Accounted(k)'
<1> DEFINE O == Cardinality(Orphans)
           S == Cardinality(Spoilt)
           U == Cardinality(Untouched)
           F == Cardinality(Finishing)
<1>1. /\ O \in Nat /\ O' \in Nat /\ S \in Nat /\ U \in Nat
      /\ F \in Nat /\ F' \in Nat /\ S' = S /\ U' = U
  BY SetsFinite, CountGrows
<1>2. O' + F + 1 <= O + F'
  <2>1. CASE /\ x \notin Orphans' /\ Orphans' \cup {x} \subseteq Orphans
             /\ Finishing \subseteq Finishing'
    <3>1. O' + 1 <= O /\ F <= F'
      BY <2>1, SetsFinite, CountGrows
    <3>2. QED
      BY <1>1, <3>1
  <2>2. CASE /\ Orphans' \subseteq Orphans
             /\ x \notin Finishing /\ Finishing \cup {x} \subseteq Finishing'
    <3>1. O' <= O /\ F + 1 <= F'
      BY <2>2, SetsFinite, CountGrows
    <3>2. QED
      BY <1>1, <3>1
  <2>3. QED
    BY <2>1, <2>2
<1>3. key[k].uses + O + S <= U + F + faults + mishaps
  BY DEF Accounted
<1>4. key'[k].uses + O' + S' <= U' + F' + faults' + mishaps'
  <2> HIDE DEF O, S, U, F
  <2> QED
    BY <1>1, <1>2, <1>3, CostsType
<1>5. QED
  BY <1>4 DEF Accounted

\* A finished run is an installation, or was spoilt.
LEMMA InstallationCounts ==
  ASSUME CommandTypeOK, CommandTypeOK', NEW k \in Keys, Accounted(k),
         UNCHANGED <<key, faults, mishaps>>,
         NEW x,
         Orphans' \subseteq Orphans, Finishing \subseteq Finishing' \cup {x},
         \/ /\ x \notin Untouched /\ Untouched \cup {x} \subseteq Untouched'
            /\ Spoilt' \subseteq Spoilt
         \/ /\ x \notin Spoilt' /\ Spoilt' \cup {x} \subseteq Spoilt
            /\ Untouched \subseteq Untouched'
  PROVE  Accounted(k)'
<1> DEFINE O == Cardinality(Orphans)
           S == Cardinality(Spoilt)
           U == Cardinality(Untouched)
           F == Cardinality(Finishing)
<1>1. /\ O \in Nat /\ O' \in Nat /\ S \in Nat /\ S' \in Nat
      /\ U \in Nat /\ U' \in Nat /\ F \in Nat /\ F' \in Nat
  BY SetsFinite, CountGrows
<1>2. O' <= O /\ F <= F' + 1
  BY SetsFinite, CountGrows
<1>3. (U + 1 <= U' /\ S' <= S) \/ (S' + 1 <= S /\ U <= U')
  BY SetsFinite, CountGrows
<1>4. /\ faults \in Nat /\ mishaps \in Nat /\ key[k].uses \in Nat
      /\ key' = key /\ faults' = faults /\ mishaps' = mishaps
      /\ key[k].uses + O + S <= U + F + faults + mishaps
  BY CostsType DEF Accounted
<1>5. key[k].uses + O' + S' <= U' + F' + faults + mishaps
  <2>1. PICK u \in Nat, o \in Nat, s \in Nat, n \in Nat, e \in Nat, f \in Nat, m \in Nat :
          /\ u = key[k].uses /\ o = O /\ s = S /\ n = U /\ e = F
          /\ f = faults /\ m = mishaps
    BY <1>1, <1>4
  <2>2. PICK o1 \in Nat, s1 \in Nat, n1 \in Nat, e1 \in Nat :
          o1 = O' /\ s1 = S' /\ n1 = U' /\ e1 = F'
    BY <1>1
  <2>3. /\ u + o + s <= n + e + f + m /\ o1 <= o /\ e <= e1 + 1
        /\ (n + 1 <= n1 /\ s1 <= s) \/ (s1 + 1 <= s /\ n <= n1)
    BY <1>2, <1>3, <1>4, <2>1, <2>2
  <2>4. u + o1 + s1 <= n1 + e1 + f + m
    BY ONLY <2>3
  <2>5. QED
    BY <2>1, <2>2, <2>4
<1>6. QED
  BY <1>4, <1>5 DEF Accounted

\* A run that stops spoils nothing; it may leave an orphan, or an installation
\* that was about to be finished, but not both.
LEMMA StopCounts ==
  ASSUME CommandTypeOK, CommandInv, NEW j \in Installers, Stop(j),
         UNCHANGED <<req, touched>>
  PROVE  /\ Spoilt' \subseteq Spoilt
         /\ Finishing \subseteq Finishing' \cup {j}
         /\ j \notin Finishing => Finishing \subseteq Finishing'
         /\ Orphans' \subseteq Orphans \cup {cmd[j].by}
         /\ cmd[j].by = NoHandler \/ j \in Finishing => Orphans' \subseteq Orphans
<1>1. /\ cmd \in [Installers -> Run] /\ RequestsMatch
      /\ \A i \in Installers \ {j} : cmd'[i] = cmd[i]
      /\ cmd'[j].pc = "idle" /\ cmd'[j].by = NoHandler
  BY DEF CommandTypeOK, CommandInv, Stop, Stopped
<1>2. Spoilt' \subseteq Spoilt
  BY <1>1 DEF Spoilt, Running
<1>3. /\ Finishing \subseteq Finishing' \cup {j}
      /\ j \notin Finishing => Finishing \subseteq Finishing'
  BY <1>1 DEF Finishing, At
<1>4. /\ Orphans' \subseteq Orphans \cup {cmd[j].by}
      /\ cmd[j].by = NoHandler => Orphans' \subseteq Orphans
  BY <1>1, InstallersAssumption DEF Orphans, At
<1>5. ASSUME j \in Finishing PROVE Orphans' \subseteq Orphans
  <2>1. cmd[j].by = NoHandler \/ ~At(cmd[j].by, "enroll")
    BY <1>1, <1>5 DEF Finishing, RequestsMatch, At
  <2>2. QED
    BY <1>1, <1>4, <2>1 DEF Orphans, At
<1>6. QED
  BY <1>2, <1>3, <1>4, <1>5

\* An answer takes the run that waits for it one request further.
LEMMA AnsweredRun ==
  ASSUME CommandTypeOK, NEW h \in Handlers, NEW pc \in {"enroll", "write"}, Answered(h, pc),
         NEW i \in Installers
  PROVE  /\ cmd[i].by # h => cmd'[i] = cmd[i]
         /\ cmd[i].by = h => /\ cmd'[i].pc = pc /\ cmd'[i].by = NoHandler
                             /\ cmd'[i].machine = cmd[i].machine
<1> DEFINE u == [cmd[i] EXCEPT !.pc = pc, !.by = NoHandler]
<1>1. cmd'[i] = IF cmd[i].by = h THEN u ELSE cmd[i]
  BY Zenon DEF Answered
<1>2. cmd \in [Installers -> Run]
  BY DEF CommandTypeOK
<1>3. u.pc = pc /\ u.by = NoHandler /\ u.machine = cmd[i].machine
  BY <1>2 DEF Run
<1> HIDE DEF u
<1>4. QED
  BY <1>1, <1>3

\* Of a request that is done, one run can hear; it loses an installation only
\* if the request has used a key and the run is not told so.
LEMMA DoneCounts ==
  ASSUME CommandTypeOK, CommandInv, NEW h \in Handlers, Done(h), ~At(h, "idle"),
         UNCHANGED <<file, touched>>,
         \/ Refused(h)
         \/ Answered(h, "enroll") /\ At(h, "issue")
         \/ Answered(h, "write") /\ At(h, "validate")
  PROVE  /\ Orphans' \subseteq Orphans
         /\ Spoilt' \subseteq Spoilt
         /\ Untouched' = Untouched
         /\ \E x : Finishing \subseteq Finishing' \cup {x}
         /\ ~(Refused(h) /\ At(h, "validate")) => Finishing \subseteq Finishing'
<1>1. /\ cmd \in [Installers -> Run] /\ req \in [Handlers -> Request]
      /\ RequestsMatch /\ RunsApart /\ h # NoHandler
  BY InstallersAssumption DEF CommandTypeOK, TypeOK, CommandInv
<1>2. /\ req'[h].pc = "idle"
      /\ \A g \in Handlers \ {h} : req'[g] = req[g]
  BY <1>1 DEF Done, NoRequest
<1>3. Answered(h, "write") => \A i \in Installers : cmd[i].by = h => cmd'[i].pc = "write"
  BY AnsweredRun
<1>4. /\ \A i \in Installers : cmd[i].by # h => cmd'[i] = cmd[i]
      /\ \A i \in Installers : cmd[i].by = h =>
           /\ cmd'[i].by = NoHandler
           /\ \/ cmd'[i].pc = "idle"
              \/ cmd'[i].machine = cmd[i].machine
           /\ Running(i)
           /\ Answered(h, "write") => cmd'[i].pc = "write"
  <2>1. \A i \in Installers : cmd[i].by = h => Running(i)
    BY <1>1 DEF RequestsMatch, Running
  <2>2. CASE Refused(h)
    <3>1. \A i \in Installers : cmd'[i] = IF cmd[i].by = h THEN Stopped ELSE cmd[i]
      BY <2>2 DEF Refused
    <3>2. Stopped.pc = "idle" /\ Stopped.by = NoHandler
      BY DEF Stopped
    <3>3. QED
      BY <1>3, <2>1, <3>1, <3>2
  <2>3. CASE Answered(h, "enroll") \/ Answered(h, "write")
    BY <1>3, <2>1, <2>3, AnsweredRun
  <2>4. QED
    BY <2>2, <2>3
<1>5. Orphans' \subseteq Orphans
  BY <1>2, <1>4 DEF Orphans, At
<1>6. Spoilt' \subseteq Spoilt /\ Untouched' = Untouched
  BY <1>4 DEF Spoilt, Untouched, Running
<1>7. \A i \in Finishing : cmd[i].by # h => i \in Finishing'
  <2> SUFFICES ASSUME NEW i \in Finishing, cmd[i].by # h
               PROVE  i \in Finishing'
    OBVIOUS
  <2>1. i \in Installers /\ cmd'[i] = cmd[i] /\ cmd[i].by \in Handlers \cup {NoHandler}
    BY <1>1, <1>4 DEF Finishing, Run
  <2>2. QED
    BY <1>2, <2>1 DEF Finishing, At
<1>8. \E x : Finishing \subseteq Finishing' \cup {x}
  <2>1. CASE \A i \in Installers : cmd[i].by # h
    BY <1>7, <2>1 DEF Finishing
  <2>2. CASE \E i \in Installers : cmd[i].by = h
    <3>1. PICK x \in Installers : cmd[x].by = h
      BY <2>2
    <3>2. \A i \in Installers : cmd[i].by = h => i = x
      BY <1>1, <3>1 DEF RunsApart
    <3>3. Finishing \subseteq Finishing' \cup {x}
      BY <1>7, <3>2 DEF Finishing
    <3>4. QED
      BY <3>3
  <2>3. QED
    BY <2>1, <2>2
<1>9. ASSUME ~(Refused(h) /\ At(h, "validate"))
      PROVE  Finishing \subseteq Finishing'
  <2>1. CASE At(h, "validate")
    <3>1. \A i \in Installers : cmd[i].by = h => i \in Finishing'
      BY <1>4, <1>9, <2>1 DEF Finishing, At
    <3>2. QED
      BY <1>7, <3>1 DEF Finishing
  <2>2. CASE ~At(h, "validate")
    <3>1. \A i \in Finishing : cmd[i].by # h
      BY <1>1, <2>2 DEF Finishing, RequestsMatch, At
    <3>2. QED
      BY <1>7, <3>1
  <2>3. QED
    BY <2>1, <2>2
<1>10. QED
  BY <1>5, <1>6, <1>8, <1>9

\* The account is kept when a key is used.
LEMMA UseKeyAccounted ==
  ASSUME CommandTypeOK, CommandTypeOK', CommandInv, NEW h \in Handlers, NEW k \in Keys,
         UseKey(h), Usable(req[h].key), UNCHANGED <<cmd, file, touched, mishaps>>
  PROVE  Accounted(k)'
<1> DEFINE u == req[h].key
<1>1. /\ cmd \in [Installers -> Run] /\ req \in [Handlers -> Request]
      /\ key \in [Keys -> KeyRow] /\ Accounted(k)
      /\ RequestsMatch /\ RunsApart /\ h # NoHandler
  BY InstallersAssumption DEF CommandTypeOK, TypeOK, CommandInv, UsesAccounted, Accounted
<1>2. /\ u \in Keys /\ At(h, "enroll")
      /\ key' = [key EXCEPT ![u].uses = @ + 1]
      /\ req' = [req EXCEPT ![h].pc = "validate"]
      /\ faults' = faults
  BY <1>1 DEF UseKey, Request
<1>3. /\ req'[h].pc = "validate"
      /\ \A g \in Handlers \ {h} : req'[g] = req[g]
  BY <1>1, <1>2 DEF Request
<1>4. Spoilt' = Spoilt /\ Untouched' = Untouched
  BY DEF Spoilt, Untouched, Running
<1>5. /\ Orphans' \subseteq Orphans /\ h \notin Orphans'
      /\ Finishing \subseteq Finishing'
  <2>1. Orphans' \subseteq Orphans /\ h \notin Orphans'
    BY <1>3 DEF Orphans, At
  <2>2. ASSUME NEW i \in Finishing PROVE i \in Finishing'
    <3>1. i \in Installers /\ cmd[i].by \in Handlers \cup {NoHandler}
      BY <1>1 DEF Finishing, Run
    <3>2. QED
      BY <1>3, <3>1 DEF Finishing, At
  <2>3. QED
    BY <2>1, <2>2
<1>6. CASE k # u
  <2>1. key'[k].uses <= key[k].uses /\ faults' >= faults /\ mishaps' >= mishaps
    <3>1. key'[k] = key[k] /\ faults' = faults /\ mishaps' = mishaps
      BY <1>1, <1>2, <1>6
    <3>2. faults \in Nat /\ mishaps \in Nat /\ key[k].uses \in Nat
      BY CostsType
    <3>3. QED
      BY <3>1, <3>2
  <2>2. QED
    BY <1>1, <1>4, <1>5, <2>1, AccountKept
<1>7. CASE k = u
  <2>1. key'[k].uses = key[k].uses + 1
    BY <1>1, <1>2, <1>7 DEF KeyRow
  <2>2. CASE \A i \in Installers : cmd[i].by # h
    <3>1. Orphans' \cup {h} \subseteq Orphans
      BY <1>2, <1>5, <2>2 DEF Orphans
    <3>2. UNCHANGED <<faults, mishaps>>
      BY <1>2
    <3>3. QED
      BY <1>1, <1>4, <1>5, <2>1, <3>1, <3>2, UseIsAccounted
  <2>3. CASE \E i \in Installers : cmd[i].by = h
    <3>1. PICK i \in Installers : cmd[i].by = h
      BY <2>3
    <3>2. i \notin Finishing /\ i \in Finishing'
      BY <1>1, <1>2, <1>3, <3>1 DEF Finishing, RequestsMatch, At
    <3>3. Finishing \cup {i} \subseteq Finishing' /\ UNCHANGED <<faults, mishaps>>
      BY <1>2, <1>5, <3>2
    <3>4. QED
      BY <1>1, <1>4, <1>5, <2>1, <3>2, <3>3, UseIsAccounted
  <2>4. QED
    BY <2>2, <2>3
<1>8. QED
  BY <1>6, <1>7

\* The account is kept by every step.
LEMMA UsesStep ==
  ASSUME CommandTypeOK, CommandTypeOK', CommandInv, [CommandNext]_allVars
  PROVE  UsesAccounted'
<1> SUFFICES ASSUME NEW k \in Keys
             PROVE  Accounted(k)'
  BY DEF UsesAccounted, Accounted
<1>t. /\ cmd \in [Installers -> Run] /\ file \in [Installers -> File]
      /\ req \in [Handlers -> Request] /\ key \in [Keys -> KeyRow]
      /\ Accounted(k) /\ RequestsMatch /\ RunsApart /\ FileWorks
  BY DEF CommandTypeOK, TypeOK, CommandInv, UsesAccounted, Accounted
<1>n. /\ faults \in Nat /\ mishaps \in Nat /\ key[k].uses \in Nat
      /\ Mishap => mishaps' = mishaps + 1 /\ mishaps' >= mishaps
      /\ faults' = faults => faults' >= faults
      /\ mishaps' = mishaps => mishaps' >= mishaps
      /\ key' = key => key'[k].uses <= key[k].uses
      /\ faults' = faults /\ Mishap => faults' + mishaps' = faults + mishaps + 1
      /\ mishaps' = mishaps /\ faults' = faults + 1 =>
           faults' + mishaps' = faults + mishaps + 1 /\ faults' >= faults
  BY CostsType DEF Mishap
<1>1. ASSUME UNCHANGED <<key, req, cmd, file, touched, faults, mishaps>>
      PROVE  Accounted(k)'
  BY <1>t, <1>1 DEF Accounted, Orphans, Spoilt, Untouched, Finishing, Running, At
<1>2. ASSUME NEW j \in Installers, Begin(j)
      PROVE  Accounted(k)'
  <2> PICK p \in Passwords, q \in Keys : Start(j, p, q)
    BY <1>2 DEF Begin
  <2>1. /\ UNCHANGED <<key, req, file, faults, mishaps>>
        /\ touched' = touched \ {NewId} /\ ~Running(j)
    BY DEF Start, vars
  <2>2. /\ cmd'[j].pc = "register" /\ cmd'[j].machine = NewId /\ cmd'[j].by = NoHandler
        /\ \A i \in Installers \ {j} : cmd'[i] = cmd[i]
    BY <1>t DEF Start, Stopped
  <2>3. cmd[j].by = NoHandler
    BY <1>t, <2>1 DEF RequestsMatch, Running
  <2>4. Orphans' \subseteq Orphans
    BY <2>1, <2>2, <2>3, InstallersAssumption DEF Orphans, At
  <2>5. Spoilt' \subseteq Spoilt /\ Untouched \subseteq Untouched'
    BY <2>1, <2>2 DEF Spoilt, Untouched, Running
  <2>6. Finishing \subseteq Finishing'
    BY <2>1, <2>2, <2>3 DEF Finishing, Running, At
  <2>7. QED
    BY <1>t, <1>n, <2>1, <2>4, <2>5, <2>6, AccountKept
<1>3. ASSUME NEW j \in Installers, Login(j) \/ Enroll(j)
      PROVE  Accounted(k)'
  <2>1. /\ cmd' = [cmd EXCEPT ![j].by = Free]
        /\ Free \in Handlers /\ req[Free].pc = "idle"
        /\ cmd[j].by = NoHandler /\ cmd[j].pc \in {"login", "enroll"}
        /\ UNCHANGED <<key, file, touched, faults, mishaps>>
        /\ \A g \in Handlers \ {Free} : req'[g] = req[g]
    BY <1>3, <1>t, Chosen DEF Login, Enroll, Doing, Send, LoginBegin, EnrollBegin, Authenticate, At
  <2>2. \A i \in Installers :
          /\ cmd'[i].pc = cmd[i].pc /\ cmd'[i].machine = cmd[i].machine
          /\ cmd'[i].by = IF i = j THEN Free ELSE cmd[i].by
    BY <2>1, <1>t DEF Run
  <2>3. Orphans' \subseteq Orphans
    BY <2>1, <2>2, InstallersAssumption DEF Orphans, At
  <2>4. Spoilt' = Spoilt /\ Untouched' = Untouched
    BY <2>1, <2>2 DEF Spoilt, Untouched, Running
  <2>5. Finishing \subseteq Finishing'
    <3> SUFFICES ASSUME NEW i \in Finishing PROVE i \in Finishing'
      OBVIOUS
    <3>1. i \in Installers /\ i # j /\ cmd[i].by \in Handlers \cup {NoHandler}
      BY <1>t, <2>1 DEF Finishing, Run
    <3>2. cmd[i].by # Free
      BY <1>t, <2>1, <3>1, InstallersAssumption DEF RequestsMatch, At
    <3>3. QED
      BY <2>1, <2>2, <3>1, <3>2 DEF Finishing, At
  <2>6. QED
    BY <1>t, <1>n, <2>1, <2>3, <2>4, <2>5, AccountKept
<1>4. ASSUME NEW j \in Installers,
             RegisterMachine(j) \/ RegistrationFails(j) \/ TooManyRequests(j)
               \/ EnrollForbidden(j)
      PROVE  Accounted(k)'
  <2>1. /\ UNCHANGED <<key, req, file, touched, faults>>
        /\ mishaps' >= mishaps
        /\ cmd[j].by = NoHandler /\ j \notin Finishing
    BY <1>4, <1>n DEF RegisterMachine, RegistrationFails, TooManyRequests, EnrollForbidden,
       Register, Doing, Finishing, vars
  <2>2. Untouched' = Untouched
    BY <2>1 DEF Untouched
  <2>3. CASE Stop(j)
    BY <1>t, <1>n, <2>1, <2>2, <2>3, StopCounts, AccountKept
  <2>4. CASE RegisterMachine(j) /\ Go(j, "login")
    <3>1. \A i \in Installers : /\ cmd'[i].machine = cmd[i].machine /\ cmd'[i].by = cmd[i].by
                                /\ i # j => cmd'[i].pc = cmd[i].pc
                                /\ Running(j)
      BY <2>4, <1>t DEF RegisterMachine, Doing, Go, Run, Running
    <3>2. Orphans' = Orphans /\ Spoilt' \subseteq Spoilt
      BY <2>1, <3>1 DEF Orphans, Spoilt, Running, At
    <3>3. Finishing \subseteq Finishing'
      BY <2>1, <3>1 DEF Finishing, At
    <3>4. QED
      BY <1>t, <1>n, <2>1, <2>2, <3>2, <3>3, AccountKept
  <2>5. QED
    BY <1>4, <2>3, <2>4
       DEF RegisterMachine, RegistrationFails, TooManyRequests, EnrollForbidden
<1>5. ASSUME NEW j \in Installers, WriteFile(j)
      PROVE  Accounted(k)'
  <2>1. /\ UNCHANGED <<key, req, touched, faults>>
        /\ Stop(j) /\ cmd[j].by = NoHandler /\ Running(j) /\ cmd[j].pc = "write"
    BY <1>5 DEF WriteFile, Doing, Running, vars
  <2>2. /\ Orphans' \subseteq Orphans /\ Spoilt' \subseteq Spoilt
        /\ Finishing \subseteq Finishing' \cup {j}
    BY <2>1, StopCounts
  <2>3. j \notin Untouched
    BY <1>t, <2>1 DEF Untouched, RunsApart
  <2>4. CASE Mishap
    <3>1. \A i \in Installers \ {j} : file'[i] = file[i]
      BY <1>5, <2>4, <1>t DEF WriteFile
    <3>2. Untouched \subseteq Untouched'
      BY <2>1, <2>3, <3>1 DEF Untouched
    <3>3. QED
      BY <1>t, <1>n, <2>1, <2>2, <2>4, <3>2, FailurePays
  <2>5. CASE /\ file' = [file EXCEPT ![j] = [state |-> "written", machine |-> cmd[j].machine,
                                             password |-> cmd[j].password]]
             /\ mishaps' = mishaps
    <3>1. /\ file'[j].state = "written" /\ file'[j].machine = cmd[j].machine
          /\ \A i \in Installers \ {j} : file'[i] = file[i]
      BY <2>5, <1>t
    <3>2. /\ Untouched \subseteq Untouched'
          /\ cmd[j].machine \notin touched => j \in Untouched'
      BY <2>1, <2>3, <3>1 DEF Untouched
    <3>3. /\ cmd[j].machine \in touched => j \in Spoilt
          /\ j \notin Spoilt'
      BY <1>t, <2>1 DEF Spoilt, Running, Stop, Stopped
    <3>4. /\ Untouched' = Untouched \cup {j} \/ Spoilt' \cup {j} \subseteq Spoilt
      BY <2>1, <2>2, <3>1, <3>2, <3>3 DEF Untouched
    <3>5. QED
      BY <1>t, <2>1, <2>2, <2>3, <2>5, <3>2, <3>3, <3>4, InstallationCounts
  <2>6. QED
    BY <1>5, <2>4, <2>5 DEF WriteFile
<1>6. ASSUME NEW j \in Installers, Interrupt(j)
      PROVE  Accounted(k)'
  <2>1. /\ UNCHANGED <<key, req, file, touched, faults>>
        /\ Stop(j) /\ Mishap
    BY <1>6 DEF Interrupt, vars
  <2>2. Untouched' = Untouched
    BY <2>1 DEF Untouched
  <2>3. QED
    BY <1>t, <1>n, <2>1, <2>2, StopCounts, FailurePays
<1>7. ASSUME NEW h \in Handlers, Check(h)
      PROVE  Accounted(k)'
  <2>1. UNCHANGED <<file, touched, faults, mishaps>>
    BY <1>7 DEF Check, LoginCheck, UseKey
  <2>2. CASE UseKey(h) /\ Usable(req[h].key)
    <3>1. req'[h].pc = "validate" /\ h # NoHandler
      BY <2>2, <1>t, InstallersAssumption DEF UseKey, Request
    <3>2. UNCHANGED cmd
      BY <1>7, <3>1 DEF Check, At
    <3>3. QED
      BY <2>1, <2>2, <3>2, UseKeyAccounted
  <2>3. CASE Done(h)
    <3>1. At(h, "idle")' /\ key' = key /\ ~At(h, "idle") /\ ~At(h, "validate")
      BY <1>7, <2>3, <1>t DEF Check, LoginCheck, UseKey, Usable, Done, NoRequest, At, Request
    <3>2. Refused(h)
      BY <1>7, <3>1 DEF Check
    <3>3. QED
      BY <1>t, <1>n, <2>1, <2>3, <3>1, <3>2, DoneCounts, AccountKept
  <2>4. CASE LoginCheck(h) /\ ~Done(h)
    <3>1. /\ req' = [req EXCEPT ![h].pc = "issue"] /\ key' = key
          /\ req[h].pc = "login"
      BY <2>4 DEF LoginCheck, At
    <3>2. req'[h].pc = "issue" /\ \A g \in Handlers \ {h} : req'[g] = req[g]
      BY <3>1, <1>t DEF Request
    <3>3. UNCHANGED cmd
      BY <1>7, <3>2 DEF Check, At
    <3>4. Orphans' \subseteq Orphans /\ Spoilt' = Spoilt /\ Untouched' = Untouched
      BY <2>1, <3>2, <3>3 DEF Orphans, Spoilt, Untouched, Running, At
    <3>5. Finishing \subseteq Finishing'
      <4> SUFFICES ASSUME NEW i \in Finishing PROVE i \in Finishing'
        OBVIOUS
      <4>1. i \in Installers /\ cmd[i].by \in Handlers \cup {NoHandler}
        BY <1>t DEF Finishing, Run
      <4>2. QED
        BY <3>1, <3>2, <3>3, <4>1 DEF Finishing, At
    <3>6. QED
      BY <1>t, <1>n, <2>1, <3>1, <3>4, <3>5, AccountKept
  <2>5. QED
    BY <1>7, <2>2, <2>3, <2>4 DEF Check, LoginCheck, UseKey
<1>8. ASSUME NEW h \in Handlers, LoginDone(h) \/ EnrollDone(h)
      PROVE  Accounted(k)'
  <2>1. /\ UNCHANGED <<key, file, touched, faults>>
        /\ Done(h) /\ ~At(h, "idle")
        /\ LoginDone(h) => At(h, "issue")
        /\ EnrollDone(h) => At(h, "validate")
    BY <1>8 DEF LoginDone, LoginIssue, EnrollDone, EnrollMachine, At
  <2>2. CASE Refused(h) /\ Mishap
    BY <1>t, <1>n, <2>1, <2>2, DoneCounts, FailurePays
  <2>3. CASE /\ mishaps' = mishaps
             /\ \/ Answered(h, "enroll") /\ At(h, "issue")
                \/ Answered(h, "write") /\ At(h, "validate")
    <3>1. ~(Refused(h) /\ At(h, "validate")) \/ Finishing \subseteq Finishing'
      <4>1. SUFFICES ASSUME Refused(h), At(h, "validate"), NEW i \in Finishing
                     PROVE  i \in Finishing'
        OBVIOUS
      <4>2. Answered(h, "write")
        BY <2>3, <4>1 DEF At
      <4>3. cmd[i].by # h
        <5>1. cmd[i].by = h => cmd'[i].pc = "write"
          BY <4>2, AnsweredRun DEF Finishing
        <5>2. cmd[i].by = h => cmd'[i].pc = "idle"
          BY <4>1, <1>t DEF Refused, Stopped, Finishing
        <5>3. QED
          BY <5>1, <5>2
      <4>4. /\ i \in Installers /\ cmd'[i] = cmd[i]
            /\ cmd[i].by \in Handlers \cup {NoHandler}
        BY <4>2, <4>3, <1>t, AnsweredRun DEF Finishing, Run
      <4>5. QED
        BY <2>1, <4>3, <4>4, <1>t, InstallersAssumption DEF Finishing, At, Done
    <3>2. Finishing \subseteq Finishing'
      BY <2>1, <2>3, <3>1, DoneCounts
    <3>3. QED
      BY <1>t, <1>n, <2>1, <2>3, <3>2, DoneCounts, AccountKept
  <2>4. QED
    BY <1>8, <2>1, <2>2, <2>3 DEF LoginDone, EnrollDone
<1>9. ASSUME NEW h \in Handlers, ServerError(h)
      PROVE  Accounted(k)'
  <2>1. /\ UNCHANGED <<key, file, touched, mishaps>> /\ faults' = faults + 1
        /\ Done(h) /\ ~At(h, "idle") /\ Refused(h)
    BY <1>9 DEF ServerError, Abandon
  <2>2. QED
    BY <1>t, <1>n, <2>1, DoneCounts, FailurePays
<1>10. ASSUME NEW m \in Machines, Meddle(m)
       PROVE  Accounted(k)'
  <2>1. /\ UNCHANGED <<key, req, cmd, file, faults>> /\ Mishap
        /\ touched' = touched \cup {m} /\ Mine(m) # {}
    BY <1>10 DEF Meddle, Block, Unblock, DeleteMachine
  <2>2. PICK j \in Installers : j \in Mine(m)
    BY <2>1 DEF Mine
  <2>3. Orphans' = Orphans /\ Finishing' = Finishing
    BY <2>1 DEF Orphans, Finishing, At
  <2>4. CASE Running(j) /\ cmd[j].machine = m
    <3>1. Spoilt' \subseteq Spoilt \cup {j} /\ Untouched \subseteq Untouched'
      BY <1>t, <2>1, <2>4 DEF Spoilt, Untouched, Running, RunsApart
    <3>2. QED
      BY <1>t, <1>n, <2>1, <2>3, <3>1, FailurePays
  <2>5. CASE file[j].state = "written" /\ file[j].machine = m
    <3>1. Spoilt' \subseteq Spoilt /\ Untouched \subseteq Untouched' \cup {j}
      BY <1>t, <2>1, <2>5 DEF Spoilt, Untouched, Running, RunsApart
    <3>2. QED
      BY <1>t, <1>n, <2>1, <2>3, <3>1, FailurePays
  <2>6. QED
    BY <2>2, <2>4, <2>5 DEF Mine
<1>11. ASSUME NEW q \in Keys, Revoke(q) \/ \E limit \in Limits : HandOut(q, limit)
       PROVE  Accounted(k)'
  <2>1. /\ UNCHANGED <<req, cmd, file, touched, faults>> /\ mishaps' >= mishaps
    BY <1>11, <1>n DEF Revoke, EndKey, HandOut, CreateKey, commandVars
  <2>2. key'[k].uses <= key[k].uses
    <3>1. key'[k].uses \in {key[k].uses, 0}
      BY <1>11, <1>t DEF Revoke, EndKey, HandOut, CreateKey, KeyRow
    <3>2. QED
      BY <1>n, <3>1
  <2>3. /\ Orphans' = Orphans /\ Finishing' = Finishing
        /\ Spoilt' = Spoilt /\ Untouched' = Untouched
    BY <2>1 DEF Orphans, Finishing, Spoilt, Untouched, Running, At
  <2>4. QED
    BY <1>t, <1>n, <2>1, <2>2, <2>3, AccountKept
<1>12. CASE NewProcess
  BY <1>1, <1>12 DEF NewProcess, vars, commandVars
<1>13. CASE Tick
  <2>1. /\ UNCHANGED <<key, req, file, touched, faults, mishaps>>
        /\ \A i \in Installers : /\ cmd'[i].pc = cmd[i].pc /\ cmd'[i].by = cmd[i].by
                                 /\ cmd'[i].machine = cmd[i].machine
    BY <1>13, <1>t DEF Tick, vars, Run
  <2>2. /\ Orphans' = Orphans /\ Finishing' = Finishing
        /\ Spoilt' = Spoilt /\ Untouched' = Untouched
    BY <2>1 DEF Orphans, Finishing, Spoilt, Untouched, Running, At
  <2>3. QED
    BY <1>t, <1>n, <2>1, <2>2, AccountKept
<1>14. CASE UNCHANGED allVars
  BY <1>1, <1>14 DEF allVars, vars, commandVars
<1>15. QED
  BY <1>2, <1>3, <1>4, <1>5, <1>6, <1>7, <1>8, <1>9, <1>10, <1>11, <1>12, <1>13, <1>14
     DEF CommandNext, RunStep, Serve

\* The inductive step.
LEMMA CommandStep ==
  ASSUME CommandTypeOK, CommandInv, [CommandNext]_allVars
  PROVE  CommandInv'
<1>a. RunsApart' /\ UsesAccounted' /\ LimiterInv'
  BY CommandType, ApartStep, UsesStep, LimiterMoves, LimiterStep DEF CommandTypeOK, CommandInv
<1>1. CASE UNCHANGED allVars
  <2>1. RequestsMatch' /\ RunsAdvance' /\ FileWorks'
    BY <1>1 DEF allVars, vars, machineVars, observerVars, commandVars, CommandInv,
       RequestsMatch, RunsAdvance, FileWorks, Working, Present, At
  <2>2. QED
    BY <1>a, <2>1 DEF CommandInv
<1>2. CASE CommandNext
  <2>1. ASSUME NEW i \in Installers PROVE RunKnown(i)' /\ FileKnown(i)'
    <3>1. RunKnown(i) /\ FileKnown(i)
      BY DEF CommandInv, RunsAdvance, FileWorks, RunKnown, FileKnown
    <3>2. /\ cmd[i] \in Run /\ file[i] \in File
          /\ cmd \in [Installers -> Run] /\ file \in [Installers -> File]
      BY DEF CommandTypeOK
    <3>3. Running(i) => Kept(cmd[i].machine)
      <4>1. cmd[i].machine \in Machines
        BY <3>2 DEF Run
      <4>2. Running(i) => ~Unused(cmd[i].machine)
        BY DEF Unused, Mine
      <4>3. QED
        BY <1>2, <4>1, <4>2, MachinesKept
    <3>4. file[i].state = "written" => Kept(file[i].machine)
      <4>1. file[i].machine \in Machines
        BY <3>2 DEF File
      <4>2. file[i].state = "written" => ~Unused(file[i].machine)
        BY DEF Unused, Mine
      <4>3. QED
        BY <1>2, <4>1, <4>2, MachinesKept
    <3>5. RunKnown(i)'
      BY <1>2, <3>1, <3>3, <3>4, OthersKnown, RunMoves
    <3>6. CASE file'[i] = file[i] \/ file'[i].state = "broken"
      BY <3>1, <3>3, <3>4, <3>5, <3>6, OthersKnown
    <3>7. CASE ~(file'[i] = file[i] \/ file'[i].state = "broken")
      <4>1. UNCHANGED file \/ \E j \in Installers : WriteFile(j)
        BY <1>2 DEF CommandNext, Begin, Start, RunStep, RegisterMachine, Login, Enroll,
           TooManyRequests, EnrollForbidden, RegistrationFails, Interrupt, Serve, Check,
           LoginDone, EnrollDone, ServerError, Meddle, Revoke, HandOut, NewProcess, Tick,
           commandVars
      <4>2. PICK j \in Installers : WriteFile(j)
        BY <3>7, <4>1
      <4>3. /\ j = i
            /\ file'[i] = [state |-> "written", machine |-> cmd[i].machine,
                           password |-> cmd[i].password]
        BY <3>2, <3>7, <4>2 DEF WriteFile, File
      <4>4. cmd[i].pc = "write" /\ UNCHANGED <<status, password, touched>>
        BY <4>2, <4>3 DEF WriteFile, Doing, vars
      <4>5. \/ cmd[i].machine \in touched
            \/ /\ password[cmd[i].machine] = cmd[i].password
               /\ status[cmd[i].machine] = "validated"
        BY <3>1, <4>4 DEF RunKnown
      <4>6. file'[i].machine = cmd[i].machine /\ file'[i].password = cmd[i].password
            /\ file'[i].state = "written"
        BY <4>3
      <4>7. QED
        BY <3>5, <4>4, <4>5, <4>6 DEF FileKnown, Working
    <3>8. QED
      BY <3>5, <3>6, <3>7
  <2>2. RunsAdvance' /\ FileWorks'
    BY <2>1 DEF RunsAdvance, FileWorks, RunKnown, FileKnown
  <2>3. QED
    BY <1>2, <1>a, <2>2, MatchStep DEF CommandInv
<1>3. QED
  BY <1>1, <1>2

-----------------------------------------------------------------------------
(* Theorems                                                                *)

LEMMA CommandStarts == CommandInit => CommandTypeOK /\ CommandInv
<1> SUFFICES ASSUME CommandInit PROVE CommandTypeOK /\ CommandInv
  OBVIOUS
<1>1. TypeOK
  BY PopulationAssumption, NoRequestType, LimitsAssumption
     DEF CommandInit, Init, TypeOK, KeyRow, NoKey, NoSecret
<1>2. hits \in Seq(Nat) /\ Len(hits) <= Limit
  <2>1. hits = <<>>
    BY DEF CommandInit, NoHits
  <2>2. QED
    BY <2>1, EmptySeq, LimiterAssumption
<1>w. 0 \in 0..Window /\ Window \in 0..Window
  BY LimiterAssumption
<1>3. [Stopped EXCEPT !.wait = 0] \in Run
  BY <1>w, PopulationAssumption DEF Stopped, Run, Nobody, NoSecret, NoKeyId
<1>4. /\ [state |-> "none", machine |-> Nobody, password |-> NoSecret] \in File
      /\ [Stopped EXCEPT !.wait = 0].pc = "idle"
      /\ [Stopped EXCEPT !.wait = 0].by = NoHandler
  BY PopulationAssumption DEF File, Nobody, NoSecret, Stopped
<1>5. CommandTypeOK
  BY <1>1, <1>2, <1>3, <1>4, BoundsAssumption DEF CommandInit, CommandTypeOK
<1>6. RequestsMatch /\ RunsAdvance /\ FileWorks /\ RunsApart
  BY <1>4 DEF CommandInit, RequestsMatch, RunsAdvance, FileWorks, RunsApart, Running
<1>7. UsesAccounted
  <2>1. Orphans = {} /\ Spoilt = {} /\ Untouched = {} /\ Finishing = {}
    BY <1>4 DEF CommandInit, Init, NoRequest, Orphans, Spoilt, Untouched, Finishing, Running, At
  <2>2. \A k \in Keys : key[k].uses = 0
    BY DEF CommandInit, Init, NoKey
  <2>3. faults = 0 /\ mishaps = 0
    BY DEF CommandInit, Init
  <2>4. QED
    BY <2>1, <2>2, <2>3, FS_EmptySet DEF UsesAccounted
<1>8. LimiterInv
  BY DEF CommandInit, NoHits, LimiterInv
<1>9. QED
  BY <1>5, <1>6, <1>7, <1>8 DEF CommandInv

\* The register command and all around it keep their types.
THEOREM CommandTypeCorrect == CommandSpec => []CommandTypeOK
BY CommandStarts, CommandType, PTL DEF CommandSpec

\* The server behind the command does what MachineLifecycle lets it do: the
\* limiter, lost answers and interrupted runs add nothing to it.
THEOREM CommandImplementsLifecycle == CommandSpec => ServerIsLifecycle
<1>1. CommandInit => Init
  BY DEF CommandInit
<1>2. CommandTypeOK /\ [CommandNext]_allVars => [Next]_vars
  BY ServerStep
<1>3. QED
  BY <1>1, <1>2, CommandTypeCorrect, PTL DEF CommandSpec, Spec, ServerIsLifecycle

\* So what is proved of the server holds of the composition: a key never enrolls
\* more machines than its limit, however often its users run the command.
THEOREM CommandKeepsBudget == CommandSpec => []KeyBudget
BY CommandImplementsLifecycle, KeyBudgetHolds DEF ServerIsLifecycle

\* ... and every enrollment spends a ticket of its own: command and server
\* implement the ledger of MachineLifecycle.
THEOREM CommandKeepsTickets == CommandSpec => KeysAreTickets
BY CommandImplementsLifecycle, KeysImplementLedger DEF ServerIsLifecycle

\* Runs, requests, files and the uses of keys fit each other in every state.
THEOREM CommandInvariant == CommandSpec => []CommandInv
<1>1. CommandTypeOK /\ CommandInv /\ [CommandNext]_allVars => CommandInv'
  BY CommandStep
<1>2. QED
  BY <1>1, CommandStarts, CommandTypeCorrect, PTL DEF CommandSpec

\* The limiter's entries are those of the last window, the oldest first: cutting
\* off in front (AgePrunes) is what the code's loop over all of them does.
THEOREM LimiterKeepsOrder == CommandSpec => []LimiterInv
BY CommandInvariant, PTL DEF CommandInv

\* Credentials that the command has written work, unless an admin has touched
\* the machine, wherever earlier runs failed.
THEOREM CredentialsWork == CommandSpec => []FileWorks
BY CommandInvariant, PTL DEF CommandInv

\* A key is used for working installations, for runs that are about to be one,
\* and once for each mishap: what a run that was interrupted still has under
\* way cannot use it more often.
THEOREM UsesArePaidFor == CommandSpec => []UsesPaidFor
<1>1. CommandTypeOK /\ CommandInv => UsesPaidFor
  <2> SUFFICES ASSUME CommandTypeOK, CommandInv, NEW k \in Keys
               PROVE  key[k].uses <= Cardinality({i \in Installers : Working(i)})
                                       + Cardinality(Finishing) + faults + mishaps
    BY DEF UsesPaidFor
  <2> DEFINE installed == {i \in Installers : Working(i)}
  <2>1. Untouched \subseteq installed
    BY DEF CommandInv, FileWorks, Untouched
  <2>2. IsFiniteSet(installed)
    BY InstallersAssumption, FS_Subset
  <2>3. /\ Cardinality(Untouched) <= Cardinality(installed)
        /\ Cardinality(Untouched) \in Nat /\ Cardinality(installed) \in Nat
    BY <2>1, <2>2, SetsFinite, CountGrows
  <2>4. /\ Cardinality(Orphans) \in Nat /\ Cardinality(Spoilt) \in Nat
        /\ Cardinality(Finishing) \in Nat
    BY SetsFinite, CountGrows
  <2>5. faults \in Nat /\ mishaps \in Nat /\ key[k] \in KeyRow /\ key[k].uses \in Nat
    BY LimitsAssumption, BoundsAssumption DEF CommandTypeOK, TypeOK, KeyRow
  <2>6. key[k].uses + Cardinality(Orphans) + Cardinality(Spoilt)
          <= Cardinality(Untouched) + Cardinality(Finishing) + faults + mishaps
    BY DEF CommandInv, UsesAccounted
  <2> HIDE DEF installed
  <2>7. key[k].uses <= Cardinality(installed) + Cardinality(Finishing) + faults + mishaps
    <3>1. PICK u \in Nat, o \in Nat, s \in Nat, n \in Nat, w \in Nat, e \in Nat, f \in Nat,
               m \in Nat :
            /\ u = key[k].uses /\ o = Cardinality(Orphans) /\ s = Cardinality(Spoilt)
            /\ n = Cardinality(Untouched) /\ w = Cardinality(installed)
            /\ e = Cardinality(Finishing) /\ f = faults /\ m = mishaps
      BY <2>3, <2>4, <2>5
    <3>2. u + o + s <= n + e + f + m /\ n <= w
      BY <2>3, <2>6, <3>1
    <3>3. u <= w + e + f + m
      BY ONLY <3>2
    <3>4. QED
      BY <3>1, <3>3
  <2>8. QED
    BY <2>7 DEF installed
<1>2. QED
  BY <1>1, CommandInvariant, CommandTypeCorrect, PTL

=============================================================================
