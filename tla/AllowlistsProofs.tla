-------------------------- MODULE AllowlistsProofs --------------------------
(***************************************************************************)
(* Theorems of Allowlists and AllowlistRead, for all replicas, files and   *)
(* bounds.                                                                 *)
(***************************************************************************)
EXTENDS AllowlistRead, SequenceTheorems, TLAPS

-----------------------------------------------------------------------------
(* Types                                                                   *)

Loading == {"clear", "clearing", "insert", "check"}

\* A loader past the upsert has a file that names the list, and an id.
Named(r) ==
  loader[r].pc \in Loading => file[r] # NoFile /\ loader[r].id # 0

Types == TypeOK /\ \A r \in Replicas : Named(r)

LEMMA FileType ==
  ASSUME Types, NEW r \in Replicas, file[r] # NoFile
  PROVE  file[r] \in Seq(Values)
BY FilesAssumption DEF Types, TypeOK

LEMMA OutsideType ==
  ASSUME NEW pc \in {"start", "clear", "clearing", "insert", "check", "serving", "down"}
  PROVE  Outside(pc) \in Loader
<1>1. <<>> \in Seq(Values)
  OBVIOUS
<1>2. QED
  BY <1>1 DEF Outside, Loader

\* The end of a transaction.
LEMMA LeaveType ==
  ASSUME Types, NEW r \in Replicas, NEW pc \in {"start", "serving", "down"},
         NEW removed, Leave(r, pc, removed)
  PROVE  /\ loader' \in [Replicas -> Loader]
         /\ \A n \in Replicas : loader'[n].pc \in Loading =>
              n # r /\ loader'[n].pc = loader[n].pc /\ loader'[n].id = loader[n].id
<1>1. Outside(pc) \in Loader
  BY OutsideType
<1>2. ASSUME NEW s \in Replicas
      PROVE  /\ [loader[s] EXCEPT !.target = @ \ removed] \in Loader
             /\ [loader[s] EXCEPT !.target = @ \ removed].pc = loader[s].pc
             /\ [loader[s] EXCEPT !.target = @ \ removed].id = loader[s].id
  <2>1. loader[s] \in Loader
    BY DEF Types, TypeOK
  <2>2. loader[s].target \ removed \in SUBSET Values
    BY <2>1 DEF Loader
  <2>3. QED
    BY <2>1, <2>2 DEF Loader
<1>3. QED
  BY <1>1, <1>2 DEF Leave, Outside, Loading

\* A step of one loader.
LEMMA StepType ==
  ASSUME Types, NEW r \in Replicas, NEW new \in Loader,
         loader' = [loader EXCEPT ![r] = new], file' = file,
         Named(r)', list' \in [id : 0..lastId', managed : BOOLEAN],
         entries' \subseteq Values, lastId' \in Nat, lastId <= lastId',
         UNCHANGED <<adminVars, budgetVars>>
  PROVE  Types'
<1>1. loader' \in [Replicas -> Loader]
  BY DEF Types, TypeOK
<1>2. \A n \in Replicas : Named(n)'
  BY DEF Types, TypeOK, Named
<1>3. admin \in 0..lastId'
  BY DEF Types, TypeOK
<1>4. QED
  BY <1>1, <1>2, <1>3 DEF Types, TypeOK, adminVars, budgetVars

\* ... that leaves the table alone.
LEMMA QuietStepType ==
  ASSUME Types, NEW r \in Replicas, NEW new \in Loader,
         loader' = [loader EXCEPT ![r] = new], Named(r)',
         UNCHANGED <<fileVars, file, adminVars, budgetVars>>
  PROVE  Types'
<1>1. /\ list' \in [id : 0..lastId', managed : BOOLEAN]
      /\ entries' \subseteq Values /\ lastId' \in Nat /\ lastId <= lastId'
  BY DEF Types, TypeOK, fileVars
<1>2. QED
  BY <1>1, StepType

\* A step of the admins, which may take rows from the loaders' snapshots.
LEMMA AdminType ==
  ASSUME Types, file' = file,
         \A n \in Replicas : /\ loader'[n] \in Loader
                             /\ loader'[n].pc = loader[n].pc
                             /\ loader'[n].id = loader[n].id,
         \E T \in [Replicas -> Loader] : loader' = T,
         list' \in [id : 0..lastId', managed : BOOLEAN], lastId' \in Nat,
         entries' \subseteq Values, admin' \in 0..lastId',
         dropping' \in BOOLEAN, cascaded' \subseteq Values,
         Edit \/ UNCHANGED edits, UNCHANGED <<faults, deploys>>
  PROVE  Types'
<1>1. loader' \in [Replicas -> Loader]
  OBVIOUS
<1>2. edits' \in 0..MaxEdits
  BY BoundsAssumption DEF Types, TypeOK, Edit
<1>3. \A n \in Replicas : Named(n)'
  BY DEF Types, Named
<1>4. QED
  BY <1>1, <1>2, <1>3 DEF Types, TypeOK

LEMMA LoadStepType ==
  ASSUME Types, NEW r \in Replicas, LoadStep(r)
  PROVE  Types'
<1>t. /\ TypeOK /\ loader[r] \in Loader /\ loader \in [Replicas -> Loader]
      /\ Named(r)
  BY DEF Types, TypeOK
<1>1. CASE NotNamed(r) \/ Restart(r)
  <2>1. PICK pc \in {"start", "serving", "down"} : Leave(r, pc, {})
    BY <1>1 DEF NotNamed, Restart
  <2>2. QED
    BY <1>1, <2>1, LeaveType
       DEF NotNamed, Restart, Types, TypeOK, Named, fileVars, adminVars, budgetVars
<1>2. CASE UpsertManagedAllowlist(r)
  <2> DEFINE id == IF Exists THEN list.id ELSE lastId + 1
             new == [Outside("clear") EXCEPT !.id = id]
  <2>1. id \in Nat /\ id # 0
    BY <1>t DEF TypeOK, Exists
  <2>2. new \in Loader /\ new.id = id /\ new.pc = "clear"
    <3>1. Outside("clear") \in Loader
      BY OutsideType
    <3>2. QED
      BY <2>1, <3>1 DEF Loader, Outside
  <2>3. /\ list' = [id |-> id, managed |-> TRUE]
        /\ lastId' = IF Exists THEN lastId ELSE id
        /\ loader' = [loader EXCEPT ![r] = new]
        /\ UNCHANGED <<entries, file, adminVars, budgetVars>>
        /\ file[r] # NoFile
    BY <1>2 DEF UpsertManagedAllowlist
  <2>4. lastId' \in Nat /\ lastId <= lastId' /\ id \in 0..lastId'
    BY <1>t, <2>1, <2>3 DEF TypeOK, Exists
  <2> HIDE DEF id, new
  <2>5. Named(r)'
    BY <1>t, <2>1, <2>2, <2>3 DEF Named
  <2>6. QED
    BY <1>t, <2>2, <2>3, <2>4, <2>5, StepType DEF TypeOK
<1>3. CASE ClearBegin(r)
  <2> DEFINE target == IF list.id = loader[r].id THEN entries ELSE {}
             new == [loader[r] EXCEPT !.pc = "clearing", !.target = target]
  <2>1. target \subseteq Values
    BY <1>t DEF TypeOK
  <2>2. new \in Loader /\ new.id = loader[r].id
    BY <1>t, <2>1 DEF Loader
  <2>3. /\ loader' = [loader EXCEPT ![r] = new] /\ loader[r].pc \in Loading
        /\ UNCHANGED <<fileVars, file, adminVars, budgetVars>>
    BY <1>t, <1>3 DEF ClearBegin, At, Loading
  <2> HIDE DEF new
  <2>4. Named(r)'
    BY <1>t, <2>2, <2>3 DEF Named
  <2>5. QED
    BY <2>2, <2>3, <2>4, QuietStepType
<1>4. CASE ClearRow(r)
  <2>1. PICK v \in loader[r].target :
          loader' = [loader EXCEPT ![r].target = @ \ {v}, ![r].gone = @ \cup {v}]
    BY <1>4 DEF ClearRow
  <2> DEFINE new == [loader[r] EXCEPT !.target = loader[r].target \ {v},
                                      !.gone = loader[r].gone \cup {v}]
  <2>2. new \in Loader /\ new.id = loader[r].id /\ new.pc = loader[r].pc
    BY <1>t DEF Loader
  <2>3. /\ loader' = [loader EXCEPT ![r] = new]
        /\ UNCHANGED <<fileVars, file, adminVars, budgetVars>>
    BY <1>t, <1>4, <2>1 DEF ClearRow
  <2> HIDE DEF new
  <2>4. Named(r)'
    BY <1>t, <2>2, <2>3 DEF Named
  <2>5. QED
    BY <2>2, <2>3, <2>4, QuietStepType
<1>5. CASE ClearEnd(r)
  <2> DEFINE new == [loader[r] EXCEPT !.pc = "insert", !.todo = file[r]]
  <2>1. loader[r].pc \in Loading /\ file[r] \in Seq(Values)
    BY <1>t, <1>5, FileType DEF ClearEnd, At, Named, Loading
  <2>2. new \in Loader /\ new.id = loader[r].id
    BY <1>t, <2>1 DEF Loader
  <2>3. /\ loader' = [loader EXCEPT ![r] = new]
        /\ UNCHANGED <<fileVars, file, adminVars, budgetVars>>
    BY <1>t, <1>5 DEF ClearEnd
  <2> HIDE DEF new
  <2>4. Named(r)'
    BY <1>t, <2>1, <2>2, <2>3 DEF Named
  <2>5. QED
    BY <2>2, <2>3, <2>4, QuietStepType
<1>6. CASE UpdateConflicting(r) \/ Insert(r)
  <2> DEFINE v == Head(loader[r].todo)
  <2>1. loader[r].pc \in Loading /\ loader[r].todo # <<>> /\ loader[r].todo \in Seq(Values)
    BY <1>t, <1>6 DEF UpdateConflicting, Insert, At, Loader, Loading
  <2>2. v \in Values /\ Tail(loader[r].todo) \in Seq(Values)
    BY <2>1, HeadTailProperties
  <2>3. PICK pc \in {"insert", "check"}, K \in SUBSET Values, F \in SUBSET Values :
          loader' = [loader EXCEPT ![r] = [loader[r] EXCEPT !.todo = Tail(loader[r].todo),
                                                 !.pc = pc, !.kept = K, !.fresh = F]]
    <3>1. /\ loader[r].kept \cup {v} \in SUBSET Values /\ loader[r].kept \in SUBSET Values
          /\ loader[r].fresh \cup {v} \in SUBSET Values /\ loader[r].fresh \in SUBSET Values
      BY <1>t, <2>2 DEF Loader
    <3>2. CASE UpdateConflicting(r)
      <4>1. loader' = [loader EXCEPT ![r] = [loader[r] EXCEPT !.todo = Tail(loader[r].todo),
                         !.pc = "insert", !.kept = loader[r].kept \cup {v},
                         !.fresh = loader[r].fresh]]
        <5>1. loader' = [loader EXCEPT ![r] = [loader[r] EXCEPT !.todo = Tail(loader[r].todo),
                                                   !.kept = loader[r].kept \cup {v}]]
          BY <3>2 DEF UpdateConflicting
        <5>2. loader[r] \in Loader /\ loader[r].pc = "insert"
          BY <1>t, <3>2 DEF UpdateConflicting, At
        <5>3. [loader[r] EXCEPT !.todo = Tail(loader[r].todo), !.kept = loader[r].kept \cup {v}]
               = [loader[r] EXCEPT !.todo = Tail(loader[r].todo), !.pc = "insert",
                    !.kept = loader[r].kept \cup {v}, !.fresh = loader[r].fresh]
          BY <5>2 DEF Loader
        <5>4. QED
          BY <5>1, <5>3
      <4>2. QED
        BY <3>1, <4>1
    <3>3. CASE Insert(r)
      <4>1. loader' = [loader EXCEPT ![r] = [loader[r] EXCEPT !.todo = Tail(loader[r].todo),
                         !.pc = IF loader[r].linked THEN "insert" ELSE "check",
                         !.kept = loader[r].kept, !.fresh = loader[r].fresh \cup {v}]]
        <5> DEFINE pc == IF loader[r].linked THEN "insert" ELSE "check"
        <5>1. loader[r] \in Loader /\ loader[r].pc = "insert"
          BY <1>t, <3>3 DEF Insert, At
        <5>2. loader' = [loader EXCEPT ![r] = [loader[r] EXCEPT !.todo = Tail(loader[r].todo),
                                  !.fresh = loader[r].fresh \cup {v}, !.pc = pc]]
          BY <3>3, <5>1 DEF Insert
        <5> HIDE DEF pc
        <5>3. [loader[r] EXCEPT !.todo = Tail(loader[r].todo),
                                !.fresh = loader[r].fresh \cup {v}, !.pc = pc]
               = [loader[r] EXCEPT !.todo = Tail(loader[r].todo), !.pc = pc,
                    !.kept = loader[r].kept, !.fresh = loader[r].fresh \cup {v}]
          BY <5>1 DEF Loader
        <5>4. QED
          BY <5>2, <5>3 DEF pc
      <4>2. QED
        BY <3>1, <4>1
    <3>4. QED
      BY <1>6, <3>2, <3>3
  <2> DEFINE new == [loader[r] EXCEPT !.todo = Tail(loader[r].todo),
                                      !.pc = pc, !.kept = K, !.fresh = F]
  <2>4. new \in Loader /\ new.id = loader[r].id
    BY <1>t, <2>2 DEF Loader
  <2>5. UNCHANGED <<fileVars, file, adminVars, budgetVars>>
    BY <1>6 DEF UpdateConflicting, Insert
  <2>6. loader' = [loader EXCEPT ![r] = new]
    BY <2>3
  <2> HIDE DEF new
  <2>7. Named(r)'
    BY <1>t, <2>1, <2>4, <2>5, <2>6 DEF Named
  <2>8. QED
    BY <2>4, <2>5, <2>6, <2>7, QuietStepType
<1>7. CASE InsertChecked(r)
  <2> DEFINE new == [loader[r] EXCEPT !.pc = "insert", !.linked = TRUE]
  <2>1. new \in Loader /\ new.id = loader[r].id
    BY <1>t DEF Loader
  <2>2. /\ loader' = [loader EXCEPT ![r] = new] /\ loader[r].pc \in Loading
        /\ UNCHANGED <<fileVars, file, adminVars, budgetVars>>
    BY <1>t, <1>7 DEF InsertChecked, At, Loading
  <2> HIDE DEF new
  <2>3. Named(r)'
    BY <1>t, <2>1, <2>2 DEF Named
  <2>4. QED
    BY <2>1, <2>2, <2>3, QuietStepType
<1>8. CASE CommitEntries(r)
  <2>1. entries' \subseteq Values
    BY <1>t, <1>8 DEF CommitEntries, TypeOK, Loader
  <2>2. QED
    BY <1>8, <2>1, LeaveType DEF CommitEntries, Types, TypeOK, Named, adminVars, budgetVars
<1>9. CASE InsertRefused(r)
  BY <1>9, LeaveType DEF InsertRefused, Types, TypeOK, Named, fileVars, adminVars, budgetVars
<1>10. QED
  BY <1>1, <1>2, <1>3, <1>4, <1>5, <1>6, <1>7, <1>8, <1>9 DEF LoadStep

LEMMA DeleteOverType ==
  ASSUME Types, DeleteOver, lastId' = lastId
  PROVE  admin' \in 0..lastId' /\ dropping' \in BOOLEAN /\ cascaded' \subseteq Values
<1>1. admin' \in 0..lastId' /\ cascaded' \subseteq Values
  BY DEF DeleteOver, Types, TypeOK
<1>2. dropping' \in BOOLEAN
  BY Zenon DEF DeleteOver
<1>3. QED
  BY <1>1, <1>2

LEMMA AdminStepType ==
  ASSUME Types, AdminStep \/ DeleteStep \/ DeleteFails
  PROVE  Types'
<1>t. TypeOK /\ \A r \in Replicas : loader[r] \in Loader
  BY DEF Types, TypeOK
<1>1. CASE CreateAllowlist \/ DeleteCheck \/ DeleteAllowlist \/ CascadeRow \/ DeleteFails
  <2>1. /\ list' \in [id : 0..lastId', managed : BOOLEAN] /\ lastId' \in Nat
        /\ admin' \in 0..lastId' /\ dropping' \in BOOLEAN /\ cascaded' \subseteq Values
    <3>1. CASE CreateAllowlist
      BY <1>t, <3>1 DEF CreateAllowlist, TypeOK, adminVars
    <3>2. CASE DeleteCheck
      BY <1>t, <3>2 DEF DeleteCheck, TypeOK, fileVars
    <3>3. CASE DeleteAllowlist \/ CascadeRow
      BY <1>t, <3>3 DEF DeleteAllowlist, CascadeRow, TypeOK, fileVars
    <3>4. CASE DeleteFails
      BY <1>t, <3>4, DeleteOverType DEF DeleteFails, TypeOK, fileVars
    <3>5. QED
      BY <1>1, <3>1, <3>2, <3>3, <3>4
  <2>2. /\ entries' \subseteq Values /\ loader' = loader /\ loader \in [Replicas -> Loader]
        /\ file' = file /\ UNCHANGED <<faults, deploys>> /\ (Edit \/ UNCHANGED edits)
    BY <1>t, <1>1 DEF CreateAllowlist, DeleteCheck, DeleteAllowlist, CascadeRow, DeleteFails,
                      TypeOK, fileVars, budgetVars
  <2>3. QED
    BY <1>t, <2>1, <2>2, AdminType
<1>2. CASE \E v \in Values : AddAllowlistEntry(v)
  BY <1>t, <1>2, AdminType DEF AddAllowlistEntry, TypeOK, adminVars
<1>3. ASSUME NEW v \in Values,
             \/ DeleteAllowlistEntry(v)
             \/ \E w \in Values : UpdateAllowlistEntry(v, w)
      PROVE  Types'
  <2>1. PICK T \in [Replicas -> SUBSET Values] :
          loader' = [r \in Replicas |-> [loader[r] EXCEPT !.target = T[r]]]
    <3>1. CASE DeleteAllowlistEntry(v)
      <4> DEFINE T == [r \in Replicas |-> loader[r].target \ {v}]
      <4>1. T \in [Replicas -> SUBSET Values]
        BY <1>t DEF Loader
      <4>2. QED
        BY <3>1, <4>1 DEF DeleteAllowlistEntry
    <3>2. ASSUME NEW w \in Values, UpdateAllowlistEntry(v, w)
          PROVE  \E T \in [Replicas -> SUBSET Values] :
                   loader' = [r \in Replicas |-> [loader[r] EXCEPT !.target = T[r]]]
      <4> DEFINE T == [r \in Replicas |-> IF v \in loader[r].target
                          THEN (loader[r].target \ {v}) \cup {w} ELSE loader[r].target]
      <4>1. T \in [Replicas -> SUBSET Values]
        BY <1>t DEF Loader
      <4>2. QED
        BY <3>2, <4>1 DEF UpdateAllowlistEntry
    <3>3. QED
      BY <1>3, <3>1, <3>2
  <2>2. \A n \in Replicas : /\ [loader[n] EXCEPT !.target = T[n]] \in Loader
                            /\ [loader[n] EXCEPT !.target = T[n]].pc = loader[n].pc
                            /\ [loader[n] EXCEPT !.target = T[n]].id = loader[n].id
    BY <1>t DEF Loader
  <2>3. /\ UNCHANGED <<list, lastId, file, adminVars, faults, deploys>>
        /\ Edit /\ entries' \subseteq Values
    BY <1>t, <1>3 DEF DeleteAllowlistEntry, UpdateAllowlistEntry, TypeOK
  <2>4. QED
    BY <1>t, <2>1, <2>2, <2>3, AdminType DEF TypeOK, adminVars
<1>4. CASE DeleteCommit
  <2>1. /\ loader' \in [Replicas -> Loader]
        /\ \A n \in Replicas : loader'[n].pc = loader[n].pc /\ loader'[n].id = loader[n].id
    <3>1. \A n \in Replicas : /\ [loader[n] EXCEPT !.target = {}] \in Loader
                              /\ [loader[n] EXCEPT !.target = {}].pc = loader[n].pc
                              /\ [loader[n] EXCEPT !.target = {}].id = loader[n].id
      BY <1>t DEF Loader
    <3>2. QED
      BY <1>4, <3>1 DEF DeleteCommit
  <2>2. NoList \in [id : 0..lastId, managed : BOOLEAN]
    BY <1>t DEF NoList, TypeOK
  <2>3. QED
    BY <1>t, <1>4, <2>1, <2>2, AdminType, DeleteOverType DEF DeleteCommit, TypeOK, budgetVars
<1>5. ASSUME NEW r \in Replicas, UpdateDeadlock(r) PROVE Types'
  <2>1. edits' \in 0..MaxEdits
    BY <1>t, <1>5, BoundsAssumption DEF UpdateDeadlock, Edit, TypeOK
  <2>2. QED
    BY <1>5, <2>1, LeaveType DEF UpdateDeadlock, Types, TypeOK, Named, fileVars, adminVars
<1>6. QED
  BY <1>1, <1>2, <1>3, <1>4, <1>5 DEF AdminStep, DeleteStep

LEMMA InitTypes == Init => Types
<1> SUFFICES ASSUME Init PROVE Types
  OBVIOUS
<1>1. dropping \in BOOLEAN
  BY Zenon DEF Init
<1>2. QED
  BY <1>1, OutsideType, BoundsAssumption
     DEF Init, Types, TypeOK, Named, NoList, Outside, Loading

LEMMA TypesStep == Types /\ [Next]_vars => Types'
<1> SUFFICES ASSUME Types, [Next]_vars PROVE Types'
  OBVIOUS
<1>t. TypeOK
  BY DEF Types
<1>1. ASSUME NEW r \in Replicas, DeadlockVictim(r) PROVE Types'
  BY <1>1, LeaveType DEF DeadlockVictim, Types, TypeOK, Named, fileVars, adminVars, budgetVars
<1>2. ASSUME NEW r \in Replicas, LoadFails(r) PROVE Types'
  <2>1. faults' \in 0..MaxFaults
    BY <1>2, <1>t, BoundsAssumption DEF LoadFails, Fault, TypeOK
  <2>2. QED
    BY <1>2, <2>1, LeaveType DEF LoadFails, Types, TypeOK, Named, fileVars, adminVars
<1>3. ASSUME NEW r \in Replicas, NEW f \in Files \cup {NoFile}, Deploy(r, f) PROVE Types'
  <2>1. deploys' \in 0..MaxDeploys
    BY <1>3, <1>t, BoundsAssumption DEF Deploy, TypeOK
  <2>2. QED
    BY <1>3, <2>1, LeaveType DEF Deploy, Types, TypeOK, Named, fileVars, adminVars
<1>4. CASE UNCHANGED vars
  BY <1>4 DEF vars, Types, TypeOK, Named
<1>5. QED
  BY <1>1, <1>2, <1>3, <1>4, LoadStepType, AdminStepType DEF Next

\* Ids stay within the sequence, lists of entries within the values (all of
\* Allowlists' actions).
THEOREM AllowlistTypeCorrect == Spec => []TypeOK
<1>1. Init => Types
  BY InitTypes
<1>2. Types => TypeOK
  BY DEF Types
<1>3. QED
  BY <1>1, <1>2, TypesStep, PTL DEF Spec

-----------------------------------------------------------------------------
(* Locks                                                                   *)

\* Loader r has seen or taken rows of the list, or has a lock on it.
Tied(r) == loader[r].target \cup loader[r].gone \cup loader[r].kept # {} \/ loader[r].linked

\* Such a loader works on the list that is there.
Owns(r) == Tied(r) => list.id = loader[r].id /\ Exists

\* Rows are deleted first, then inserted or updated; what is inserted ties the
\* loader to the list once it is checked.
InOrder(r) ==
  /\ loader[r].pc \notin {"clearing", "insert", "check"} => Held(r) = {}
  /\ loader[r].pc = "clearing" => loader[r].fresh = {} /\ loader[r].kept = {}
  /\ loader[r].pc = "insert" /\ loader[r].fresh # {} => loader[r].linked
  /\ loader[r].linked => loader[r].pc = "insert"

\* Rows seen, deleted or updated are there; an updated one is not deleted.
RowsThere(r) ==
  /\ loader[r].target \cup loader[r].gone \subseteq entries
  /\ loader[r].kept \subseteq entries \ loader[r].gone

\* What of the file is not still to do is inserted or updated, and nothing else
\* is inserted.
Progress(r) ==
  loader[r].pc \in {"insert", "check"} =>
    /\ Content(r) \subseteq loader[r].fresh \cup loader[r].kept \cup ToSet(loader[r].todo)
    /\ loader[r].fresh \cup ToSet(loader[r].todo) \subseteq Content(r)

LoaderInv(r) == Owns(r) /\ InOrder(r) /\ RowsThere(r) /\ Progress(r)

\* A DELETE request knows the list that is there, and while it has its row, no
\* insert does.
Deletion ==
  /\ admin # 0 => list.id = admin
  /\ dropping => admin # 0 /\ \A r \in Members : ~loader[r].linked
  /\ ~dropping => cascaded = {}
  /\ cascaded \subseteq entries

Order == LocksExclusive /\ Deletion /\ \A r \in Replicas : LoaderInv(r)

Locks == Types /\ Order

\* Nothing happens to loader n but that rows it has seen disappear.
Same(n) ==
  /\ loader'[n].pc = loader[n].pc /\ loader'[n].id = loader[n].id
  /\ loader'[n].todo = loader[n].todo /\ loader'[n].gone = loader[n].gone
  /\ loader'[n].fresh = loader[n].fresh /\ loader'[n].kept = loader[n].kept
  /\ loader'[n].linked = loader[n].linked
  /\ loader[n].target = {} => loader'[n].target = {}
  /\ loader'[n].target \subseteq entries'
  /\ file'[n] = file[n]

\* n is as before, and its rows are still there.
Kept(n) ==
  /\ LoaderInv(n)' /\ Held(n)' = Held(n)
  /\ loader'[n].id = loader[n].id /\ loader'[n].linked = loader[n].linked

LEMMA SameKeeps ==
  ASSUME Locks, NEW n \in Replicas, Same(n), Tied(n) => list'.id = list.id,
         loader[n].gone \cup loader[n].kept \subseteq entries'
  PROVE  Kept(n)
<1>1. Held(n)' = Held(n) /\ Content(n)' = Content(n)
  BY DEF Same, Held, Content
<1>2. LoaderInv(n)
  BY DEF Locks, Order
<1>3. Owns(n)'
  <2>1. Tied(n)' => Tied(n)
    BY DEF Same, Tied
  <2>2. QED
    BY <1>2, <2>1 DEF LoaderInv, Owns, Same, Exists
<1>4. InOrder(n)' /\ Progress(n)'
  BY <1>1, <1>2 DEF LoaderInv, InOrder, Progress, Same
<1>5. RowsThere(n)'
  BY <1>2 DEF LoaderInv, RowsThere, Same
<1>6. QED
  BY <1>1, <1>3, <1>4, <1>5 DEF LoaderInv, Kept, Same

\* Leaving a transaction does to the others what Same says.
LEMMA LeaveSame ==
  ASSUME Locks, NEW r \in Replicas, NEW pc, NEW removed, Leave(r, pc, removed),
         entries \ removed \subseteq entries',
         NEW n \in Replicas \ {r}, file'[n] = file[n]
  PROVE  Same(n)
<1>1. loader[n] \in Loader /\ loader'[n] = [loader[n] EXCEPT !.target = @ \ removed]
  BY DEF Locks, Types, TypeOK, Leave
<1>2. loader[n].target \subseteq entries
  BY DEF Locks, Order, LoaderInv, RowsThere
<1>3. QED
  BY <1>1, <1>2 DEF Same, Loader

LEMMA LeaveSelf ==
  ASSUME NEW r \in Replicas, NEW pc \in {"start", "serving", "down"}, NEW removed,
         Leave(r, pc, removed)
  PROVE  LoaderInv(r)' /\ Held(r)' = {} /\ loader'[r].linked = FALSE
<1>1. loader'[r] = Outside(pc)
  BY DEF Leave
<1>2. Held(r)' = {}
  BY <1>1 DEF Held, Outside
<1>3. QED
  BY <1>1, <1>2 DEF LoaderInv, Owns, Tied, InOrder, RowsThere, Progress, Outside

\* Rows that one loader of the list takes are nobody else's.
LEMMA StayApart ==
  ASSUME Locks, NEW r \in Replicas, NEW X,
         \A n \in Replicas \ {r} : Kept(n),
         \/ Held(r)' = {}
         \/ loader'[r].id = loader[r].id /\ Held(r)' \subseteq Held(r) \cup X,
         X # {} => list.id = loader[r].id /\ X \cap HeldByOthers(r) = {}
  PROVE  \A m, n \in Replicas :
           m # n /\ loader'[m].id = loader'[n].id => Held(m)' \cap Held(n)' = {}
<1> SUFFICES ASSUME NEW m \in Replicas, NEW n \in Replicas, m # n,
                    loader'[m].id = loader'[n].id
             PROVE  Held(m)' \cap Held(n)' = {}
  OBVIOUS
<1>1. ASSUME NEW p \in Replicas \ {r}, loader'[p].id = loader'[r].id
      PROVE  Held(p)' \cap Held(r)' = {}
  <2>1. Held(p)' = Held(p) /\ loader'[p].id = loader[p].id
    BY DEF Kept
  <2>2. CASE Held(r)' = {}
    BY <2>2
  <2>3. CASE loader'[r].id = loader[r].id /\ Held(r)' \subseteq Held(r) \cup X
    <3>1. Held(p) \cap Held(r) = {}
      BY <1>1, <2>1, <2>3 DEF Locks, Order, LocksExclusive
    <3>2. X # {} => Held(p) \subseteq HeldByOthers(r)
      BY <1>1, <2>1, <2>3 DEF HeldByOthers, Members
    <3>3. QED
      BY <2>1, <2>3, <3>1, <3>2
  <2>4. QED
    BY <2>2, <2>3
<1>2. CASE m = r \/ n = r
  BY <1>1, <1>2
<1>3. CASE m # r /\ n # r
  BY <1>3 DEF Kept, Locks, Order, LocksExclusive
<1>4. QED
  BY <1>2, <1>3

\* What the DELETE of a list has in hand stays its own.
LEMMA DeletionKeeps ==
  ASSUME Locks, NEW r \in Replicas, NEW X,
         \A n \in Replicas \ {r} : Kept(n),
         UNCHANGED <<adminVars, list>>, cascaded \subseteq entries',
         \/ Held(r)' = {} /\ loader'[r].linked = FALSE
         \/ /\ loader'[r].id = loader[r].id /\ Held(r)' \subseteq Held(r) \cup X
            /\ loader'[r].linked => loader[r].linked \/ ~dropping,
         X # {} => X \cap cascaded = {}
  PROVE  Deletion' /\ \A n \in Members' : Held(n)' \cap cascaded' = {}
<1>1. \A n \in Members' : n \in Members \/ (Held(n)' = {} /\ loader'[n].linked = FALSE)
  BY DEF Members, Kept
<1>2. ASSUME NEW n \in Members'
      PROVE  /\ Held(n)' \cap cascaded = {}
             /\ dropping => ~loader'[n].linked
  <2>1. CASE Held(n)' = {} /\ loader'[n].linked = FALSE
    BY <2>1
  <2>2. CASE n \in Members /\ n # r
    BY <2>2 DEF Kept, Locks, Order, LocksExclusive, Deletion, Members
  <2>3. CASE /\ n = r /\ n \in Members
             /\ loader'[r].id = loader[r].id /\ Held(r)' \subseteq Held(r) \cup X
             /\ loader'[r].linked => loader[r].linked \/ ~dropping
    BY <2>3 DEF Locks, Order, LocksExclusive, Deletion
  <2>4. QED
    BY <1>1, <2>1, <2>2, <2>3 DEF Members
<1>3. QED
  BY <1>2 DEF Deletion, adminVars, Locks, Order

LEMMA NotHeld ==
  ASSUME Locks, NEW n \in Replicas, NEW v, v \notin HeldByAny
  PROVE  v \notin loader[n].gone \cup loader[n].kept
<1>1. n \in Members => v \notin Held(n)
  BY DEF HeldByAny
<1>2. n \notin Members => loader[n].gone = {} /\ loader[n].kept = {}
  BY DEF Locks, Order, LoaderInv, Owns, Tied, Members
<1>3. QED
  BY <1>1, <1>2 DEF Held

\* The first entry of a list, and the others.
LEMMA HeadAndTail ==
  ASSUME NEW s \in Seq(Values), s # <<>>
  PROVE  ToSet(s) = {Head(s)} \cup ToSet(Tail(s))
<1>1. /\ Head(s) = s[1] /\ Len(s) \in Nat /\ DOMAIN s = 1..Len(s)
      /\ Len(Tail(s)) = Len(s) - 1 /\ DOMAIN Tail(s) = 1..(Len(s) - 1)
      /\ \A i \in 1..Len(Tail(s)) : Tail(s)[i] = s[i + 1]
  BY HeadTailProperties
<1>2. ASSUME NEW i \in DOMAIN s PROVE s[i] \in {Head(s)} \cup ToSet(Tail(s))
  <2>1. CASE i = 1
    BY <1>1, <2>1
  <2>2. CASE i # 1
    <3>1. i - 1 \in DOMAIN Tail(s) /\ Tail(s)[i - 1] = s[i]
      BY <1>1, <2>2
    <3>2. QED
      BY <3>1 DEF ToSet
  <2>3. QED
    BY <2>1, <2>2
<1>3. ToSet(s) \subseteq {Head(s)} \cup ToSet(Tail(s))
  BY <1>2 DEF ToSet
<1>4. Head(s) \in ToSet(s)
  <2>1. 1 \in DOMAIN s
    BY <1>1
  <2>2. QED
    BY <1>1, <2>1 DEF ToSet
<1>5. ASSUME NEW i \in DOMAIN Tail(s) PROVE Tail(s)[i] \in ToSet(s)
  <2>1. i + 1 \in DOMAIN s /\ Tail(s)[i] = s[i + 1]
    BY <1>1
  <2>2. QED
    BY <2>1 DEF ToSet
<1>6. ToSet(Tail(s)) \subseteq ToSet(s)
  BY <1>5 DEF ToSet
<1>7. QED
  BY <1>3, <1>4, <1>6

\* Leaving without a commit changes nobody's rows.
LEMMA RollbackStep ==
  ASSUME Locks, NEW r \in Replicas, NEW pc \in {"start", "serving", "down"},
         Leave(r, pc, {}), UNCHANGED <<list, entries, adminVars>>,
         \A n \in Replicas \ {r} : file'[n] = file[n]
  PROVE  Order'
<1>1. ASSUME NEW n \in Replicas \ {r} PROVE Kept(n)
  <2>1. Same(n)
    BY LeaveSame
  <2>2. loader[n].gone \cup loader[n].kept \subseteq entries'
    BY DEF Locks, Order, LoaderInv, RowsThere
  <2>3. QED
    BY <2>1, <2>2, SameKeeps
<1>2. LoaderInv(r)' /\ Held(r)' = {} /\ loader'[r].linked = FALSE
  BY LeaveSelf
<1>3. \A m, n \in Replicas :
        m # n /\ loader'[m].id = loader'[n].id => Held(m)' \cap Held(n)' = {}
  BY <1>1, <1>2, StayApart
<1>4. Deletion' /\ \A n \in Members' : Held(n)' \cap cascaded' = {}
  <2>1. cascaded \subseteq entries'
    BY DEF Locks, Order, Deletion
  <2>2. QED
    BY <1>1, <1>2, <2>1, DeletionKeeps
<1>5. QED
  BY <1>1, <1>2, <1>3, <1>4 DEF Order, LocksExclusive, Exists, Locks, Kept

\* A step of loader r that leaves the table alone; the rows it takes are free.
LEMMA TakeStep ==
  ASSUME Locks, NEW r \in Replicas, NEW new, loader' = [loader EXCEPT ![r] = new],
         UNCHANGED <<list, entries, file, adminVars>>, LoaderInv(r)',
         \A v \in Held(r)' \ Held(r) : list.id = loader[r].id /\ v \notin HeldByOthers(r),
         new.id = loader[r].id, new.linked => loader[r].linked \/ ~dropping
  PROVE  Order'
<1>0. loader'[r] = new
  BY DEF Locks, Types, TypeOK
<1>1. ASSUME NEW n \in Replicas \ {r} PROVE Kept(n)
  <2>1. loader'[n] = loader[n] /\ LoaderInv(n)
    BY DEF Locks, Order, Types, TypeOK
  <2>2. Same(n)
    BY <2>1 DEF Same, LoaderInv, RowsThere
  <2>3. loader[n].gone \cup loader[n].kept \subseteq entries'
    BY <2>1 DEF LoaderInv, RowsThere
  <2>4. QED
    BY <2>2, <2>3, SameKeeps
<1> DEFINE X == Held(r)' \ Held(r)
<1>x. /\ Held(r)' \subseteq Held(r) \cup X
      /\ X # {} => list.id = loader[r].id /\ X \cap HeldByOthers(r) = {}
  OBVIOUS
<1> HIDE DEF X
<1>2. \A m, n \in Replicas :
        m # n /\ loader'[m].id = loader'[n].id => Held(m)' \cap Held(n)' = {}
  BY <1>0, <1>1, <1>x, StayApart
<1>3. Deletion' /\ \A n \in Members' : Held(n)' \cap cascaded' = {}
  <2>1. cascaded \subseteq entries' /\ (X # {} => X \cap cascaded = {})
    BY <1>x DEF Locks, Order, Deletion, HeldByOthers
  <2>2. QED
    BY <1>0, <1>1, <1>x, <2>1, DeletionKeeps
<1>4. QED
  BY <1>1, <1>2, <1>3 DEF Order, LocksExclusive, Exists, Locks, Kept

LEMMA CommitEntriesStep ==
  ASSUME Locks, NEW r \in Replicas, CommitEntries(r)
  PROVE  Order'
<1>0. /\ entries' = (entries \ loader[r].gone) \cup loader[r].fresh
      /\ Leave(r, "serving", loader[r].gone) /\ loader[r].pc = "insert"
      /\ UNCHANGED <<list, file, adminVars>>
  BY DEF CommitEntries, At
<1>m. loader[r].gone \cup loader[r].fresh # {} => list.id = loader[r].id /\ Exists
  BY <1>0 DEF Locks, Order, LoaderInv, Owns, Tied, InOrder
<1>1. ASSUME NEW n \in Replicas \ {r} PROVE Kept(n)
  <2>1. Same(n)
    BY <1>0, LeaveSame
  <2>2. RowsThere(n) /\ (Tied(n) => list.id = loader[n].id)
    BY DEF Locks, Order, LoaderInv, Owns
  <2>3. loader[n].gone \cup loader[n].kept \subseteq entries'
    <3>1. loader[n].gone \cup loader[n].kept = {} \/ loader[r].gone = {} \/ Held(n) \cap Held(r) = {}
      BY <1>m, <2>2 DEF Tied, Locks, Order, LocksExclusive
    <3>2. QED
      BY <1>0, <2>2, <3>1 DEF Held, RowsThere
  <2>4. QED
    BY <1>0, <2>1, <2>3, SameKeeps
<1>2. LoaderInv(r)' /\ Held(r)' = {} /\ loader'[r].linked = FALSE
  BY <1>0, LeaveSelf
<1>3. \A m, n \in Replicas :
        m # n /\ loader'[m].id = loader'[n].id => Held(m)' \cap Held(n)' = {}
  BY <1>1, <1>2, StayApart
<1>4. Deletion' /\ \A n \in Members' : Held(n)' \cap cascaded' = {}
  <2>1. cascaded \subseteq entries'
    <3>1. loader[r].gone = {} \/ Held(r) \cap cascaded = {}
      BY <1>m DEF Locks, Order, LocksExclusive, Members
    <3>2. cascaded \subseteq entries
      BY DEF Locks, Order, Deletion
    <3>3. QED
      BY <1>0, <3>1, <3>2 DEF Held
  <2>2. QED
    BY <1>0, <1>1, <1>2, <2>1, DeletionKeeps
<1>5. ~Exists' => entries' = {}
  <2>1. ~Exists => loader[r].gone \cup loader[r].fresh = {} /\ entries = {}
    BY <1>m DEF Locks, Order, LocksExclusive
  <2>2. QED
    BY <1>0, <2>1 DEF Exists
<1>6. QED
  BY <1>1, <1>2, <1>3, <1>4, <1>5 DEF Order, LocksExclusive, Kept

LEMMA UpsertStep ==
  ASSUME Locks, NEW r \in Replicas, UpsertManagedAllowlist(r)
  PROVE  Order'
<1> DEFINE id == IF Exists THEN list.id ELSE lastId + 1
<1>t. Types /\ loader \in [Replicas -> Loader] /\ lastId \in Nat
  BY DEF Locks, Types, TypeOK
<1>1. /\ list' = [id |-> id, managed |-> TRUE] /\ ~dropping
      /\ loader' = [loader EXCEPT ![r] = [Outside("clear") EXCEPT !.id = id]]
      /\ UNCHANGED <<entries, file, adminVars>>
  BY DEF UpsertManagedAllowlist
<1>2. list'.id = id /\ id # 0 /\ (Exists => list'.id = list.id)
  BY <1>t, <1>1 DEF Exists
<1>3. ASSUME NEW n \in Replicas \ {r} PROVE Kept(n)
  <2>1. loader'[n] = loader[n] /\ LoaderInv(n)
    BY <1>t, <1>1 DEF Locks, Order
  <2>2. Same(n)
    BY <1>1, <2>1 DEF Same, LoaderInv, RowsThere
  <2>3. Tied(n) => list'.id = list.id
    BY <1>2, <2>1 DEF LoaderInv, Owns
  <2>4. loader[n].gone \cup loader[n].kept \subseteq entries'
    BY <1>1, <2>1 DEF LoaderInv, RowsThere
  <2>5. QED
    BY <2>2, <2>3, <2>4, SameKeeps
<1>4. /\ loader'[r].pc = "clear" /\ loader'[r].gone = {} /\ loader'[r].fresh = {}
      /\ loader'[r].kept = {} /\ loader'[r].target = {} /\ loader'[r].linked = FALSE
  BY <1>t, <1>1 DEF Outside
<1>5. LoaderInv(r)' /\ Held(r)' = {}
  BY <1>4 DEF LoaderInv, Owns, Tied, InOrder, RowsThere, Progress, Held
<1>6. \A m, n \in Replicas :
        m # n /\ loader'[m].id = loader'[n].id => Held(m)' \cap Held(n)' = {}
  BY <1>3, <1>5, StayApart
<1>7. cascaded = {} /\ (admin # 0 => list.id = admin)
  BY <1>1 DEF Locks, Order, Deletion
<1>8. Deletion' /\ \A n \in Members' : Held(n)' \cap cascaded' = {}
  BY <1>t, <1>1, <1>2, <1>7 DEF Deletion, adminVars, Exists, Types, TypeOK
<1>9. QED
  BY <1>1, <1>2, <1>3, <1>5, <1>6, <1>8 DEF Order, LocksExclusive, Exists, Kept

LEMMA LoadStepLocks ==
  ASSUME Locks, NEW r \in Replicas, LoadStep(r)
  PROVE  Order'
<1>t. /\ Types /\ TypeOK /\ loader[r] \in Loader /\ loader \in [Replicas -> Loader]
      /\ LoaderInv(r) /\ Named(r)
  BY DEF Locks, Order, Types, TypeOK
<1>1. CASE NotNamed(r) \/ InsertRefused(r) \/ Restart(r)
  BY <1>1, RollbackStep DEF NotNamed, InsertRefused, Restart, fileVars
<1>2. CASE UpsertManagedAllowlist(r)
  BY <1>2, UpsertStep
<1>3. CASE ClearBegin(r)
  <2> DEFINE target == IF list.id = loader[r].id THEN entries ELSE {}
             new == [loader[r] EXCEPT !.pc = "clearing", !.target = target]
  <2>1. /\ loader' = [loader EXCEPT ![r] = new] /\ loader[r].pc = "clear"
        /\ UNCHANGED <<list, entries, file, adminVars>>
    BY <1>t, <1>3 DEF ClearBegin, At, fileVars
  <2>2. /\ new.pc = "clearing" /\ new.target = target /\ new.id = loader[r].id
        /\ new.gone = loader[r].gone /\ new.fresh = loader[r].fresh
        /\ new.kept = loader[r].kept /\ new.linked = loader[r].linked
    BY <1>t DEF Loader
  <2> HIDE DEF new
  <2>3. loader'[r] = new /\ loader[r].linked = FALSE /\ Held(r) = {}
    BY <1>t, <2>1 DEF LoaderInv, InOrder, Loader
  <2>4. Held(r)' = {} /\ new.gone = {} /\ new.kept = {} /\ new.fresh = {}
    BY <2>2, <2>3 DEF Held
  <2>5. Owns(r)'
    BY <1>t, <2>1, <2>2, <2>3, <2>4 DEF Owns, Tied, Named, Exists, Loading
  <2>6. InOrder(r)' /\ RowsThere(r)' /\ Progress(r)'
    BY <2>1, <2>2, <2>3, <2>4 DEF InOrder, RowsThere, Progress
  <2>7. QED
    BY <2>1, <2>2, <2>3, <2>4, <2>5, <2>6, TakeStep DEF LoaderInv
<1>4. CASE ClearRow(r)
  <2>1. PICK v \in loader[r].target \ HeldByOthers(r) :
          loader' = [loader EXCEPT ![r].target = @ \ {v}, ![r].gone = @ \cup {v}]
    BY <1>4 DEF ClearRow
  <2> DEFINE new == [loader[r] EXCEPT !.target = loader[r].target \ {v},
                                      !.gone = loader[r].gone \cup {v}]
  <2>2. /\ loader' = [loader EXCEPT ![r] = new] /\ loader[r].pc = "clearing"
        /\ UNCHANGED <<list, entries, file, adminVars>>
    BY <1>t, <1>4, <2>1 DEF ClearRow, At, fileVars
  <2>3. /\ new.pc = loader[r].pc /\ new.target = loader[r].target \ {v}
        /\ new.gone = loader[r].gone \cup {v} /\ new.id = loader[r].id
        /\ new.fresh = loader[r].fresh /\ new.kept = loader[r].kept
        /\ new.linked = loader[r].linked
    BY <1>t DEF Loader
  <2> HIDE DEF new
  <2>4. loader'[r] = new /\ loader[r].fresh = {} /\ loader[r].kept = {}
    BY <1>t, <2>2 DEF LoaderInv, InOrder
  <2>5. Held(r)' = Held(r) \cup {v} /\ list.id = loader[r].id
    BY <1>t, <2>3, <2>4 DEF Held, LoaderInv, Owns, Tied
  <2>6. Owns(r)' /\ InOrder(r)' /\ RowsThere(r)' /\ Progress(r)'
    BY <1>t, <2>2, <2>3, <2>4 DEF LoaderInv, Owns, Tied, Exists, InOrder, RowsThere, Progress
  <2>7. QED
    BY <2>1, <2>2, <2>3, <2>5, <2>6, TakeStep DEF LoaderInv
<1>5. CASE ClearEnd(r)
  <2> DEFINE new == [loader[r] EXCEPT !.pc = "insert", !.todo = file[r]]
  <2>1. /\ loader' = [loader EXCEPT ![r] = new] /\ loader[r].pc = "clearing"
        /\ UNCHANGED <<list, entries, file, adminVars>>
    BY <1>t, <1>5 DEF ClearEnd, At, fileVars
  <2>2. /\ new.pc = "insert" /\ new.target = loader[r].target /\ new.id = loader[r].id
        /\ new.gone = loader[r].gone /\ new.fresh = loader[r].fresh
        /\ new.kept = loader[r].kept /\ new.todo = file[r]
        /\ new.linked = loader[r].linked
    BY <1>t DEF Loader
  <2> HIDE DEF new
  <2>3. loader'[r] = new /\ loader[r].fresh = {} /\ Held(r)' = Held(r)
    BY <1>t, <2>1, <2>2 DEF LoaderInv, InOrder, Held
  <2>4. Owns(r)' /\ InOrder(r)' /\ RowsThere(r)'
    BY <1>t, <2>1, <2>2, <2>3 DEF LoaderInv, Owns, Tied, Exists, InOrder, RowsThere
  <2>5. Progress(r)'
    BY <2>1, <2>2, <2>3 DEF Progress, Content
  <2>6. QED
    BY <2>1, <2>2, <2>3, <2>4, <2>5, TakeStep DEF LoaderInv
<1>6. CASE UpdateConflicting(r)
  <2> DEFINE v == Head(loader[r].todo)
             new == [loader[r] EXCEPT !.todo = Tail(loader[r].todo),
                                      !.kept = loader[r].kept \cup {v}]
  <2>1. /\ loader' = [loader EXCEPT ![r] = new] /\ loader[r].pc = "insert"
        /\ loader[r].todo # <<>> /\ list.id = loader[r].id /\ v \notin HeldByOthers(r)
        /\ v \in entries \ loader[r].gone
        /\ UNCHANGED <<list, entries, file, adminVars>>
    BY <1>t, <1>6 DEF UpdateConflicting, At, There, fileVars
  <2>2. /\ new.pc = "insert" /\ new.target = loader[r].target /\ new.id = loader[r].id
        /\ new.gone = loader[r].gone /\ new.fresh = loader[r].fresh
        /\ new.kept = loader[r].kept \cup {v} /\ new.todo = Tail(loader[r].todo)
        /\ new.linked = loader[r].linked
    BY <1>t, <2>1 DEF Loader
  <2>3. ToSet(loader[r].todo) = {v} \cup ToSet(Tail(loader[r].todo))
    BY <1>t, <2>1, HeadAndTail DEF Loader
  <2> HIDE DEF v, new
  <2>4. loader'[r] = new /\ Held(r)' = Held(r) \cup {v}
    BY <1>t, <2>1, <2>2 DEF Held
  <2>5. Owns(r)' /\ InOrder(r)' /\ RowsThere(r)'
    BY <1>t, <2>1, <2>2, <2>4
       DEF LoaderInv, Owns, Tied, Exists, InOrder, RowsThere, Named, Loading
  <2>6. Progress(r)'
    BY <1>t, <2>1, <2>2, <2>3, <2>4 DEF LoaderInv, Progress, Content
  <2>7. QED
    BY <2>1, <2>2, <2>4, <2>5, <2>6, TakeStep DEF LoaderInv
<1>7. CASE Insert(r)
  <2> DEFINE v == Head(loader[r].todo)
             pc == IF loader[r].linked THEN "insert" ELSE "check"
             new == [loader[r] EXCEPT !.todo = Tail(loader[r].todo),
                                      !.fresh = loader[r].fresh \cup {v}, !.pc = pc]
  <2>1. /\ loader[r].pc = "insert"
        /\ loader[r].todo # <<>> /\ list.id = loader[r].id /\ v \notin HeldByOthers(r)
        /\ UNCHANGED <<list, entries, file, adminVars>>
    BY <1>t, <1>7 DEF Insert, At, fileVars
  <2>2. loader' = [loader EXCEPT ![r] = new]
    BY <1>t, <1>7, <2>1 DEF Insert
  <2>3. /\ new.pc = pc /\ new.target = loader[r].target /\ new.id = loader[r].id
        /\ new.gone = loader[r].gone /\ new.fresh = loader[r].fresh \cup {v}
        /\ new.kept = loader[r].kept /\ new.todo = Tail(loader[r].todo)
        /\ new.linked = loader[r].linked
    BY <1>t, <2>1 DEF Loader
  <2>4. ToSet(loader[r].todo) = {v} \cup ToSet(Tail(loader[r].todo))
    BY <1>t, <2>1, HeadAndTail DEF Loader
  <2> HIDE DEF v, new
  <2>5. loader'[r] = new /\ Held(r)' = Held(r) \cup {v}
    BY <1>t, <2>1, <2>2, <2>3 DEF Held
  <2>6. Owns(r)' /\ RowsThere(r)'
    BY <1>t, <2>1, <2>3, <2>5 DEF LoaderInv, Owns, Tied, Exists, RowsThere
  <2>7. InOrder(r)'
    BY <1>t, <2>1, <2>3, <2>5 DEF LoaderInv, InOrder
  <2>8. Progress(r)'
    BY <1>t, <2>1, <2>3, <2>4, <2>5 DEF LoaderInv, Progress, Content
  <2>9. QED
    BY <2>1, <2>2, <2>3, <2>5, <2>6, <2>7, <2>8, TakeStep DEF LoaderInv
<1>8. CASE InsertChecked(r)
  <2> DEFINE new == [loader[r] EXCEPT !.pc = "insert", !.linked = TRUE]
  <2>1. /\ loader' = [loader EXCEPT ![r] = new] /\ loader[r].pc = "check"
        /\ list.id = loader[r].id /\ ~dropping
        /\ UNCHANGED <<list, entries, file, adminVars>>
    BY <1>t, <1>8 DEF InsertChecked, At, fileVars
  <2>2. /\ new.pc = "insert" /\ new.target = loader[r].target /\ new.id = loader[r].id
        /\ new.gone = loader[r].gone /\ new.fresh = loader[r].fresh
        /\ new.kept = loader[r].kept /\ new.todo = loader[r].todo /\ new.linked
    BY <1>t DEF Loader
  <2> HIDE DEF new
  <2>3. loader'[r] = new /\ Held(r)' = Held(r)
    BY <1>t, <2>1, <2>2 DEF Held
  <2>4. Owns(r)' /\ InOrder(r)' /\ RowsThere(r)'
    BY <1>t, <2>1, <2>2, <2>3
       DEF LoaderInv, Owns, Tied, Exists, InOrder, RowsThere, Named, Loading
  <2>5. Progress(r)'
    BY <1>t, <2>1, <2>2, <2>3 DEF LoaderInv, Progress, Content
  <2>6. QED
    BY <2>1, <2>2, <2>3, <2>4, <2>5, TakeStep DEF LoaderInv
<1>9. CASE CommitEntries(r)
  BY <1>9, CommitEntriesStep
<1>10. QED
  BY <1>1, <1>2, <1>3, <1>4, <1>5, <1>6, <1>7, <1>8, <1>9 DEF LoadStep

\* A step of the admins that leaves the rows alone that loaders hold.
LEMMA AroundLoaders ==
  ASSUME Locks,
         \A n \in Replicas : Same(n) /\ loader[n].gone \cup loader[n].kept \subseteq entries',
         list'.id = list.id \/ ~Exists, ~Exists' => entries' = {},
         Deletion', \A n \in Members' : Held(n) \cap cascaded' = {}
  PROVE  Order'
<1>1. ASSUME NEW n \in Replicas PROVE Kept(n)
  <2>1. Tied(n) => list'.id = list.id
    BY DEF Locks, Order, LoaderInv, Owns
  <2>2. QED
    BY <2>1, SameKeeps
<1>2. Members' \subseteq Replicas
  BY DEF Members
<1>3. QED
  BY <1>1, <1>2 DEF Locks, Order, LocksExclusive, Kept

\* ... and those of a deletion.
LEMMA AroundAll ==
  ASSUME Locks,
         \A n \in Replicas : Same(n) /\ loader[n].gone \cup loader[n].kept \subseteq entries',
         list'.id = list.id \/ ~Exists, ~Exists' => entries' = {},
         UNCHANGED adminVars, cascaded \subseteq entries'
  PROVE  Order'
<1>1. ~Exists => admin = 0 /\ ~dropping /\ cascaded = {}
  BY DEF Locks, Order, Deletion, Exists
<1>2. ASSUME NEW n \in Members'
      PROVE  Held(n) \cap cascaded = {} /\ (dropping => ~loader'[n].linked)
  <2>1. Same(n)
    BY DEF Members
  <2>2. Exists => n \in Members
    BY <2>1 DEF Same, Members
  <2>3. QED
    BY <1>1, <2>1, <2>2 DEF Locks, Order, LocksExclusive, Deletion, Same
<1>3. Deletion'
  BY <1>1, <1>2 DEF Deletion, adminVars, Locks, Order
<1>4. QED
  BY <1>2, <1>3, AroundLoaders DEF adminVars

LEMMA NoListLocks ==
  ASSUME Locks, DeleteCommit
  PROVE  Order'
<1>t. \A n \in Replicas : loader[n] \in Loader
  BY DEF Locks, Types, TypeOK
<1>1. /\ list' = NoList /\ entries' = {} /\ entries \subseteq cascaded /\ dropping
      /\ \A n \in Replicas : loader'[n] = [loader[n] EXCEPT !.target = {}]
      /\ admin' = 0 /\ ~dropping' /\ cascaded' = {} /\ file' = file
  BY DEF DeleteCommit, DeleteOver
<1>2. ASSUME NEW n \in Replicas
      PROVE  loader[n].gone = {} /\ loader[n].kept = {} /\ ~loader[n].linked
  <2>1. CASE n \in Members
    <3>1. Held(n) \cap cascaded = {} /\ ~loader[n].linked
      BY <1>1, <2>1 DEF Locks, Order, LocksExclusive, Deletion
    <3>2. loader[n].gone \cup loader[n].kept \subseteq entries
      BY DEF Locks, Order, LoaderInv, RowsThere
    <3>3. QED
      BY <1>1, <3>1, <3>2 DEF Held
  <2>2. CASE n \notin Members
    BY <2>2 DEF Locks, Order, LoaderInv, Owns, Tied, Members
  <2>3. QED
    BY <2>1, <2>2
<1>3. ASSUME NEW n \in Replicas
      PROVE  /\ loader'[n].pc = loader[n].pc /\ loader'[n].id = loader[n].id
             /\ loader'[n].todo = loader[n].todo /\ loader'[n].fresh = loader[n].fresh
             /\ loader'[n].target = {} /\ loader'[n].gone = {} /\ loader'[n].kept = {}
             /\ loader'[n].linked = loader[n].linked
  <2>1. loader[n] \in Loader /\ loader'[n] = [loader[n] EXCEPT !.target = {}]
    BY <1>t, <1>1
  <2>2. /\ loader'[n].pc = loader[n].pc /\ loader'[n].id = loader[n].id
        /\ loader'[n].todo = loader[n].todo /\ loader'[n].fresh = loader[n].fresh
        /\ loader'[n].target = {} /\ loader'[n].gone = loader[n].gone
        /\ loader'[n].kept = loader[n].kept /\ loader'[n].linked = loader[n].linked
    BY <2>1 DEF Loader
  <2>3. QED
    BY <1>2, <2>2
<1>4. ASSUME NEW n \in Replicas
      PROVE  LoaderInv(n)' /\ Held(n)' = Held(n)
  <2>1. Held(n)' = Held(n) /\ Content(n)' = Content(n)
    BY <1>1, <1>2, <1>3 DEF Held, Content
  <2>2. Owns(n)' /\ RowsThere(n)'
    BY <1>2, <1>3 DEF Owns, Tied, RowsThere
  <2>3. InOrder(n)' /\ Progress(n)'
    BY <1>2, <1>3, <2>1 DEF Locks, Order, LoaderInv, InOrder, Progress
  <2>4. QED
    BY <2>1, <2>2, <2>3 DEF LoaderInv
<1>5. Deletion'
  BY <1>1 DEF Deletion
<1>6. QED
  BY <1>1, <1>3, <1>4, <1>5 DEF Locks, Order, LocksExclusive

LEMMA AdminStepLocks ==
  ASSUME Locks, AdminStep \/ DeleteStep \/ DeleteFails
  PROVE  Order'
<1>t. /\ TypeOK /\ \A n \in Replicas : loader[n] \in Loader
      /\ ~Exists => entries = {}
      /\ cascaded \subseteq entries /\ Deletion
  BY DEF Locks, Types, TypeOK, Order, LocksExclusive, Deletion
<1>r. \A n \in Replicas :
        /\ loader[n].gone \cup loader[n].kept \subseteq entries
        /\ loader[n].target \subseteq entries
  BY DEF Locks, Order, LoaderInv, RowsThere
<1>s. entries \subseteq entries' /\ loader' = loader /\ file' = file =>
        \A n \in Replicas : Same(n) /\ loader[n].gone \cup loader[n].kept \subseteq entries'
  BY <1>r DEF Same
<1>1. CASE CreateAllowlist
  BY <1>t, <1>s, <1>1, AroundAll DEF CreateAllowlist, TypeOK, Exists
<1>2. CASE DeleteCheck
  <2>1. Deletion' /\ \A n \in Members' : Held(n) \cap cascaded' = {}
    BY <1>t, <1>2 DEF DeleteCheck, Deletion, fileVars, Exists, Members, Locks, Order, LocksExclusive
  <2>2. QED
    BY <1>t, <1>s, <1>2, <2>1, AroundLoaders DEF DeleteCheck, fileVars, Exists
<1>3. CASE \E v \in Values : AddAllowlistEntry(v)
  BY <1>t, <1>s, <1>3, AroundAll DEF AddAllowlistEntry, Exists
<1>4. ASSUME NEW v \in Values, DeleteAllowlistEntry(v) PROVE Order'
  <2>1. ASSUME NEW n \in Replicas
        PROVE  Same(n) /\ loader[n].gone \cup loader[n].kept \subseteq entries'
    <3>1. loader'[n] = [loader[n] EXCEPT !.target = @ \ {v}] /\ file' = file
      BY <1>4 DEF DeleteAllowlistEntry
    <3>2. v \notin loader[n].gone \cup loader[n].kept /\ entries' = entries \ {v}
      BY <1>4, NotHeld DEF DeleteAllowlistEntry
    <3>3. QED
      BY <1>t, <1>r, <3>1, <3>2 DEF Same, Loader
  <2>2. cascaded \subseteq entries'
    BY <1>t, <1>4 DEF DeleteAllowlistEntry, HeldByAny
  <2>3. QED
    BY <1>t, <1>4, <2>1, <2>2, AroundAll DEF DeleteAllowlistEntry, Exists
<1>5. ASSUME NEW v \in Values, NEW w \in Values, UpdateAllowlistEntry(v, w) PROVE Order'
  <2>1. ASSUME NEW n \in Replicas
        PROVE  Same(n) /\ loader[n].gone \cup loader[n].kept \subseteq entries'
    <3>1. /\ loader'[n] = [loader[n] EXCEPT !.target =
                             IF v \in @ THEN (@ \ {v}) \cup {w} ELSE @]
          /\ file' = file
      BY <1>5 DEF UpdateAllowlistEntry
    <3>2. /\ v \notin loader[n].gone \cup loader[n].kept
          /\ entries' = (entries \ {v}) \cup {w}
      BY <1>5, NotHeld DEF UpdateAllowlistEntry
    <3>3. QED
      BY <1>t, <1>r, <3>1, <3>2 DEF Same, Loader
  <2>2. cascaded \subseteq entries' /\ v \in entries /\ list' = list
    BY <1>t, <1>5 DEF UpdateAllowlistEntry, HeldByAny
  <2>3. QED
    BY <1>t, <1>5, <2>1, <2>2, AroundAll DEF UpdateAllowlistEntry, Exists
<1>6. ASSUME NEW r \in Replicas, UpdateDeadlock(r) PROVE Order'
  BY <1>6, RollbackStep DEF UpdateDeadlock, fileVars
<1>7. CASE DeleteAllowlist
  <2>1. Deletion' /\ \A n \in Members' : Held(n) \cap cascaded' = {}
    BY <1>t, <1>7
       DEF DeleteAllowlist, Deletion, fileVars, Members, Locks, Order, LocksExclusive
  <2>2. QED
    BY <1>t, <1>s, <1>7, <2>1, AroundLoaders DEF DeleteAllowlist, fileVars, Exists
<1>8. CASE CascadeRow
  <2>1. PICK v \in entries \ HeldByAny : cascaded' = cascaded \cup {v}
    BY <1>8 DEF CascadeRow
  <2>2. Members' = Members /\ \A n \in Members : v \notin Held(n)
    BY <1>8, <2>1 DEF CascadeRow, Members, fileVars, HeldByAny
  <2>3. Deletion' /\ \A n \in Members' : Held(n) \cap cascaded' = {}
    BY <1>t, <1>8, <2>1, <2>2
       DEF CascadeRow, Deletion, fileVars, Locks, Order, LocksExclusive
  <2>4. QED
    BY <1>t, <1>s, <1>8, <2>3, AroundLoaders DEF CascadeRow, fileVars, Exists
<1>9. CASE DeleteCommit
  BY <1>9, NoListLocks
<1>10. CASE DeleteFails
  <2>1. Deletion' /\ \A n \in Members' : Held(n) \cap cascaded' = {}
    BY <1>10 DEF DeleteFails, DeleteOver, Deletion
  <2>2. QED
    BY <1>t, <1>s, <1>10, <2>1, AroundLoaders DEF DeleteFails, fileVars, Exists
<1>11. QED
  BY <1>1, <1>2, <1>3, <1>4, <1>5, <1>6, <1>7, <1>8, <1>9, <1>10 DEF AdminStep, DeleteStep

LEMMA LocksStep == Locks /\ [Next]_vars => Locks'
<1> SUFFICES ASSUME Locks, [Next]_vars PROVE Order'
  BY TypesStep DEF Locks
<1>1. ASSUME NEW r \in Replicas, LoadStep(r) PROVE Order'
  BY <1>1, LoadStepLocks
<1>2. ASSUME NEW r \in Replicas,
             \/ DeadlockVictim(r) \/ LoadFails(r)
             \/ \E f \in Files \cup {NoFile} : Deploy(r, f)
      PROVE  Order'
  <2>1. PICK pc \in {"start", "down"} : Leave(r, pc, {})
    BY <1>2 DEF DeadlockVictim, LoadFails, Deploy
  <2>2. /\ UNCHANGED <<list, entries, adminVars>>
        /\ \A n \in Replicas \ {r} : file'[n] = file[n]
    BY <1>2 DEF DeadlockVictim, LoadFails, Deploy, fileVars, Locks, Types, TypeOK
  <2>3. QED
    BY <2>1, <2>2, RollbackStep
<1>3. CASE AdminStep \/ DeleteStep \/ DeleteFails
  BY <1>3, AdminStepLocks
<1>4. CASE UNCHANGED vars
  BY <1>4 DEF vars, Locks, Order, LocksExclusive, Exists, Held, LoaderInv, Owns, Tied,
              InOrder, RowsThere, Progress, Content, Deletion, Members
<1>5. QED
  BY <1>1, <1>2, <1>3, <1>4 DEF Next

LEMMA LocksHold == Spec => []Locks
<1>1. Init => Locks
  <2>1. Init => Order
    BY DEF Init, Order, LocksExclusive, Held, LoaderInv, Owns, Tied, InOrder, RowsThere,
           Progress, Outside, Deletion
  <2>2. QED
    BY <2>1, InitTypes DEF Locks
<1>2. QED
  BY <1>1, LocksStep, PTL DEF Spec

\* No entry without a list, and no row in two transactions, of loaders or the
\* DELETE of the list (SyncManagedEntries of several replicas, and the foreign
\* key with ON DELETE CASCADE).
THEOREM LocksAreExclusive == Spec => []LocksExclusive
<1>1. Locks => LocksExclusive
  BY DEF Locks, Order
<1>2. QED
  BY <1>1, LocksHold, PTL

-----------------------------------------------------------------------------
(* What a load does to the list                                            *)

\* Only a commit, or a file without the list, takes a loader to serving.
LEMMA ServesBy ==
  ASSUME Locks, Next, NEW r \in Replicas, loader'[r].pc = "serving"
  PROVE  loader[r].pc = "serving" \/ NotNamed(r) \/ CommitEntries(r)
<1>t. loader \in [Replicas -> Loader] /\ \A n \in Replicas : loader[n] \in Loader
  BY DEF Locks, Types, TypeOK
<1>1. ASSUME NEW s \in Replicas \ {r},
             \/ \E pc, removed : Leave(s, pc, removed)
             \/ \E new : loader' = [loader EXCEPT ![s] = new]
      PROVE  loader'[r].pc = loader[r].pc
  <2>1. CASE \E pc, removed : Leave(s, pc, removed)
    BY <1>t, <2>1 DEF Leave, Loader
  <2>2. CASE \E new : loader' = [loader EXCEPT ![s] = new]
    BY <1>t, <2>2
  <2>3. QED
    BY <1>1, <2>1, <2>2
<1>2. ASSUME NEW s \in Replicas, LoadStep(s)
      PROVE  loader[r].pc = "serving" \/ NotNamed(r) \/ CommitEntries(r)
  <2>1. CASE s # r
    <3>1. CASE NotNamed(s) \/ CommitEntries(s) \/ InsertRefused(s) \/ Restart(s)
      BY <1>1, <2>1, <3>1 DEF NotNamed, CommitEntries, InsertRefused, Restart
    <3>2. CASE UpsertManagedAllowlist(s) \/ ClearBegin(s) \/ ClearEnd(s) \/ InsertChecked(s)
      BY <1>t, <2>1, <3>2 DEF UpsertManagedAllowlist, ClearBegin, ClearEnd, InsertChecked
    <3>3. CASE ClearRow(s) \/ UpdateConflicting(s) \/ Insert(s)
      BY <1>t, <2>1, <3>3 DEF ClearRow, UpdateConflicting, Insert
    <3>4. QED
      BY <1>2, <3>1, <3>2, <3>3 DEF LoadStep
  <2>2. CASE s = r
    <3>1. ~(InsertRefused(r) \/ Restart(r))
      BY DEF InsertRefused, Restart, Leave, Outside
    <3>2. ~UpsertManagedAllowlist(r)
      BY <1>t DEF UpsertManagedAllowlist, Outside
    <3>3. ASSUME ClearBegin(r) \/ ClearEnd(r) \/ InsertChecked(r) PROVE FALSE
      <4>1. \A T, pc : /\ [loader[r] EXCEPT !.pc = pc, !.target = T].pc = pc
                       /\ [loader[r] EXCEPT !.pc = pc, !.todo = T].pc = pc
                       /\ [loader[r] EXCEPT !.pc = pc, !.linked = T].pc = pc
        BY <1>t DEF Loader
      <4>2. CASE ClearBegin(r)
        BY <1>t, <4>1, <4>2 DEF ClearBegin
      <4>3. CASE ClearEnd(r)
        BY <1>t, <4>1, <4>3 DEF ClearEnd
      <4>4. CASE InsertChecked(r)
        BY <1>t, <4>1, <4>4 DEF InsertChecked
      <4>5. QED
        BY <3>3, <4>2, <4>3, <4>4
    <3>4. ASSUME ClearRow(r) PROVE FALSE
      <4>1. \A T, U : [loader[r] EXCEPT !.target = T, !.gone = U].pc = loader[r].pc
        BY <1>t DEF Loader
      <4>2. loader'[r].pc = loader[r].pc /\ loader[r].pc = "clearing"
        BY <1>t, <3>4, <4>1 DEF ClearRow, At
      <4>3. QED
        BY <4>2
    <3>5. ASSUME UpdateConflicting(r) PROVE FALSE
      <4>1. \A T, U : [loader[r] EXCEPT !.todo = T, !.kept = U].pc = loader[r].pc
        BY <1>t DEF Loader
      <4>2. loader'[r].pc = loader[r].pc /\ loader[r].pc = "insert"
        BY <1>t, <3>5, <4>1 DEF UpdateConflicting, At
      <4>3. QED
        BY <4>2
    <3>6. ASSUME Insert(r) PROVE FALSE
      <4>1. \A T, U, pc : [loader[r] EXCEPT !.todo = T, !.fresh = U, !.pc = pc].pc = pc
        BY <1>t DEF Loader
      <4>2. loader'[r].pc = "insert" \/ loader'[r].pc = "check"
        BY <1>t, <3>6, <4>1 DEF Insert, At
      <4>3. QED
        BY <4>2
    <3>7. QED
      BY <1>2, <2>2, <3>1, <3>2, <3>3, <3>4, <3>5, <3>6 DEF LoadStep
  <2>3. QED
    BY <2>1, <2>2
<1>3. ASSUME NEW s \in Replicas,
             \/ DeadlockVictim(s) \/ LoadFails(s) \/ UpdateDeadlock(s)
             \/ \E f \in Files \cup {NoFile} : Deploy(s, f)
      PROVE  loader[r].pc = "serving"
  <2>1. PICK pc \in {"start", "down"} : Leave(s, pc, {})
    BY <1>3 DEF DeadlockVictim, LoadFails, UpdateDeadlock, Deploy
  <2>2. QED
    BY <1>1, <2>1 DEF Leave, Outside
<1>4. ASSUME \/ AdminStep /\ ~(\E s \in Replicas : UpdateDeadlock(s))
             \/ DeleteStep \/ DeleteFails
      PROVE  loader[r].pc = "serving"
  <2>1. loader'[r].pc = loader[r].pc
    <3>1. \A T : [loader[r] EXCEPT !.target = T].pc = loader[r].pc
      BY <1>t DEF Loader
    <3>2. CASE DeleteCommit
      BY <3>1, <3>2 DEF DeleteCommit
    <3>3. ASSUME NEW v \in Values, DeleteAllowlistEntry(v)
          PROVE  loader'[r].pc = loader[r].pc
      BY <3>1, <3>3 DEF DeleteAllowlistEntry
    <3>4. ASSUME NEW v \in Values, NEW w \in Values, UpdateAllowlistEntry(v, w)
          PROVE  loader'[r].pc = loader[r].pc
      BY <3>1, <3>4 DEF UpdateAllowlistEntry
    <3>5. CASE \/ CreateAllowlist \/ DeleteCheck \/ \E v \in Values : AddAllowlistEntry(v)
               \/ DeleteAllowlist \/ CascadeRow \/ DeleteFails
      BY <3>5 DEF CreateAllowlist, DeleteCheck, AddAllowlistEntry, DeleteAllowlist,
                  CascadeRow, DeleteFails
    <3>6. QED
      BY <1>4, <3>2, <3>3, <3>4, <3>5 DEF AdminStep, DeleteStep
  <2>2. QED
    BY <2>1
<1>5. QED
  BY <1>2, <1>3, <1>4 DEF Next, AdminStep

LEMMA CommitOnly ==
  ASSUME Locks, Next, NEW r \in Replicas, Commits(r)
  PROVE  CommitEntries(r)
BY ServesBy DEF Commits, At, NotNamed

\* A loader that commits leaves every entry of its file in the list, takes none
\* of them away meanwhile, and adds no others.
LEMMA CommitApplies ==
  ASSUME Locks, NEW r \in Replicas, CommitEntries(r)
  PROVE  /\ Commits(r)
         /\ Content(r) \subseteq entries' /\ Content(r) \cap (entries \ entries') = {}
         /\ entries' \ entries \subseteq Content(r)
<1>1. ToSet(<<>>) = {}
  BY DEF ToSet
<1>2. loader[r].pc = "insert" /\ loader[r].todo = <<>> /\ Commits(r)
  BY DEF CommitEntries, Commits, At, Leave, Outside
<1>3. Content(r) \subseteq loader[r].fresh \cup loader[r].kept /\ loader[r].fresh \subseteq Content(r)
  BY <1>1, <1>2 DEF Locks, Order, LoaderInv, Progress
<1>4. loader[r].kept \subseteq entries \ loader[r].gone
  BY DEF Locks, Order, LoaderInv, RowsThere
<1>5. QED
  BY <1>2, <1>3, <1>4 DEF CommitEntries

\* A load that commits has applied its file, whatever the other loaders and
\* the admins did between its statements (SyncManagedEntries).
THEOREM FileIsApplied == Spec => FileApplied
<1>1. Locks /\ [Next]_vars =>
        [\A r \in Replicas : Commits(r) => Content(r) \subseteq entries']_vars
  BY CommitOnly, CommitApplies
<1>2. QED
  BY <1>1, LocksHold, PTL DEF Spec, FileApplied

\* The entries change when an admin changes them or a loader commits.
LEMMA ChangedBy ==
  ASSUME Locks, Next, entries' # entries
  PROVE  Administered \/ \E r \in Replicas : CommitEntries(r)
<1>1. CASE AdminStep
  <2>1. edits \in Nat
    BY BoundsAssumption DEF Locks, Types, TypeOK
  <2>2. Edit => edits' # edits
    BY <2>1 DEF Edit
  <2>3. QED
    BY <1>1, <2>2 DEF AdminStep, CreateAllowlist, DeleteCheck, AddAllowlistEntry, UpdateDeadlock,
                      DeleteAllowlistEntry, UpdateAllowlistEntry, Administered
<1>2. CASE DeleteStep
  BY <1>2 DEF DeleteStep, DeleteAllowlist, CascadeRow, DeleteCommit, DeleteOver, fileVars,
              Administered, Locks, Order, Deletion
<1>3. QED
  BY <1>1, <1>2
     DEF Next, LoadStep, NotNamed, UpsertManagedAllowlist, ClearBegin, ClearRow, ClearEnd,
         UpdateConflicting, Insert, InsertChecked, InsertRefused, Restart, DeadlockVictim,
         LoadFails, Deploy, DeleteFails, fileVars

\* What disappears is an admin's doing, or left out of the file of a loader that
\* commits in this step.
LEMMA TakenAway ==
  ASSUME Locks, Next, NEW v \in entries \ entries'
  PROVE  \/ edits' # edits
         \/ admin # 0 /\ admin' = 0
         \/ \E r \in Replicas : Commits(r) /\ v \notin Content(r)
BY ChangedBy, CommitApplies DEF Administered

\* No reload takes an entry away that its own file keeps: what disappears is an
\* admin's doing, or is left out of the file that this very step has loaded
\* (SyncManagedEntries' transaction).
THEOREM ReloadLeavesNoGap == Spec => NoGap
<1>1. Locks /\ [Next]_vars =>
        [\A v \in entries \ entries' :
           \/ edits' # edits
           \/ admin # 0 /\ admin' = 0
           \/ \E r \in Replicas : Commits(r) /\ v \notin Content(r)]_vars
  BY TakenAway
<1>2. QED
  BY <1>1, LocksHold, PTL DEF Spec, NoGap

-----------------------------------------------------------------------------
(* One file for all                                                        *)

\* Every replica has a file of the same content, and no admin has interfered.
SameFiles ==
  /\ edits = 0 /\ deploys = 0
  /\ \A r, s \in Replicas : file[r] # NoFile /\ Content(r) = Content(s)

\* Nothing but the content of the file is in the list, and who serves has seen
\* all of it in.
Mirrors(r) ==
  /\ entries \subseteq Content(r)
  /\ At(r, "serving") => Content(r) \subseteq entries

MirrorInv == SameFiles => admin = 0 /\ \A r \in Replicas : Mirrors(r)

LEMMA MirrorStep == Locks /\ MirrorInv /\ [Next]_vars => MirrorInv'
<1> SUFFICES ASSUME Locks, MirrorInv, Next, SameFiles'
             PROVE  admin' = 0 /\ \A n \in Replicas : Mirrors(n)'
  <2>1. MirrorInv /\ UNCHANGED vars => MirrorInv'
    BY DEF vars, MirrorInv, SameFiles, Mirrors, Content, At
  <2>2. QED
    BY <2>1 DEF MirrorInv
<1>1. ~Edit /\ ~AdminStep
  <2>1. edits \in Nat
    BY BoundsAssumption DEF Locks, Types, TypeOK
  <2>2. ~Edit
    BY <2>1 DEF Edit, SameFiles
  <2>3. QED
    BY <2>2 DEF AdminStep, CreateAllowlist, DeleteCheck, AddAllowlistEntry, UpdateDeadlock,
                DeleteAllowlistEntry, UpdateAllowlistEntry
<1>2. \A f : \A r \in Replicas : ~Deploy(r, f)
  BY BoundsAssumption DEF Deploy, SameFiles, Locks, Types, TypeOK
<1>3. UNCHANGED <<file, edits, deploys>>
  BY <1>1, <1>2
     DEF Next, LoadStep, NotNamed, UpsertManagedAllowlist, ClearBegin, ClearRow, ClearEnd,
         UpdateConflicting, Insert, InsertChecked, CommitEntries, InsertRefused, Restart,
         DeadlockVictim, LoadFails, DeleteStep, DeleteAllowlist, CascadeRow, DeleteCommit,
         DeleteFails, budgetVars
<1>4. SameFiles /\ admin = 0 /\ \A n \in Replicas : Mirrors(n)
  BY <1>3 DEF SameFiles, Content, MirrorInv
<1>5. ~DeleteStep /\ ~DeleteFails
  BY <1>4 DEF DeleteStep, DeleteAllowlist, CascadeRow, DeleteCommit, DeleteFails,
              Locks, Order, Deletion
<1>6. UNCHANGED admin
  BY <1>1, <1>2, <1>5
     DEF Next, LoadStep, NotNamed, UpsertManagedAllowlist, ClearBegin, ClearRow, ClearEnd,
         UpdateConflicting, Insert, InsertChecked, CommitEntries, InsertRefused, Restart,
         DeadlockVictim, LoadFails, adminVars
<1>7. ASSUME NEW n \in Replicas PROVE Mirrors(n)'
  <2>1. Content(n)' = Content(n) /\ \A r \in Replicas : Content(r) = Content(n)
    BY <1>3, <1>4 DEF Content, SameFiles
  <2>2. entries' \subseteq Content(n)
    <3>1. entries' = entries \/ \E r \in Replicas : CommitEntries(r)
      BY <1>3, <1>4, <1>6, ChangedBy DEF Administered
    <3>2. QED
      BY <1>4, <2>1, <3>1, CommitApplies DEF Mirrors
  <2>3. loader'[n].pc = "serving" => Content(n) \subseteq entries'
    <3>1. CASE loader[n].pc = "serving"
      <4>1. Content(n) \subseteq entries
        BY <1>4, <3>1 DEF Mirrors, At
      <4>2. ASSUME NEW v \in Content(n) \ entries' PROVE FALSE
        <5>1. \E r \in Replicas : v \notin Content(r)
          BY <1>3, <1>4, <1>6, <4>1, <4>2, TakenAway
        <5>2. QED
          BY <2>1, <4>2, <5>1
      <4>3. QED
        BY <4>2
    <3>2. CASE CommitEntries(n)
      BY <3>2, CommitApplies
    <3>3. CASE NotNamed(n)
      BY <1>4, <3>3 DEF NotNamed, SameFiles
    <3>4. QED
      BY <3>1, <3>2, <3>3, ServesBy
  <2>4. QED
    BY <2>1, <2>2, <2>3 DEF Mirrors, At
<1>8. QED
  BY <1>4, <1>6, <1>7

\* Replicas that come up with one file, in any order and through deadlocks,
\* failures and restarts of each other's loads, serve exactly what the file says,
\* from the first that serves on, while no admin edits the list (LoadFile).
THEOREM SameFileIsMirrored ==
  Spec => [](SameFiles => \A r \in Replicas : At(r, "serving") => entries = Content(r))
<1>1. Init => MirrorInv
  BY DEF Init, MirrorInv, Mirrors, Outside, At
<1>2. MirrorInv => (SameFiles => \A r \in Replicas : At(r, "serving") => entries = Content(r))
  BY DEF MirrorInv, Mirrors
<1>3. QED
  BY <1>1, <1>2, MirrorStep, LocksHold, PTL DEF Spec

-----------------------------------------------------------------------------
(* Reads                                                                   *)

\* Readers change nothing: the table, the loaders and the admins do as in
\* Allowlists, and all of its theorems hold of ReadSpec.
THEOREM ReadImplementsAllowlists == ReadSpec => Spec
<1>1. ReadInit => Init
  BY DEF ReadInit
<1>2. [ReadNext]_readVars => [Next]_vars
  BY DEF ReadNext, readVars, Meanwhile, GetAllowlist, GetAllowlistMissing,
         GetAllowlistEntries, ReadFails
<1>3. QED
  BY <1>1, <1>2, PTL DEF ReadSpec, Spec

\* A list that goes leaves no entries, and it is an admin who takes it; a new
\* one has a new id.
LEMMA ListChanges ==
  ASSUME Locks, Next, list'.id # list.id
  PROVE  /\ Exists => entries' = {} /\ Administered /\ list'.id = 0
         /\ ~Exists => list'.id = lastId + 1
<1>1. ASSUME NEW r \in Replicas, UpsertManagedAllowlist(r)
      PROVE  ~Exists /\ list'.id = lastId + 1
  BY <1>1 DEF UpsertManagedAllowlist
<1>2. CASE CreateAllowlist
  BY <1>2 DEF CreateAllowlist
<1>3. CASE DeleteCommit
  BY <1>3 DEF DeleteCommit, DeleteOver, Administered, NoList, Exists, Locks, Order, Deletion,
              Types, TypeOK
<1>4. QED
  BY <1>1, <1>2, <1>3
     DEF Next, LoadStep, NotNamed, ClearBegin, ClearRow, ClearEnd, UpdateConflicting, Insert,
         InsertChecked, CommitEntries, InsertRefused, Restart, DeadlockVictim, LoadFails,
         Deploy, AdminStep, DeleteCheck, AddAllowlistEntry, DeleteAllowlistEntry,
         UpdateAllowlistEntry, UpdateDeadlock, DeleteStep, DeleteAllowlist, CascadeRow,
         DeleteFails, fileVars

LEMMA SequenceGrows ==
  ASSUME Locks, Next
  PROVE  lastId' \in Nat /\ lastId <= lastId'
<1>1. lastId \in Nat
  BY DEF Locks, Types, TypeOK
<1>2. lastId' = lastId \/ lastId' = lastId + 1
  BY DEF Next, LoadStep, NotNamed, UpsertManagedAllowlist, ClearBegin, ClearRow, ClearEnd,
         UpdateConflicting, Insert, InsertChecked, CommitEntries, InsertRefused, Restart,
         DeadlockVictim, LoadFails, Deploy, AdminStep, CreateAllowlist, DeleteCheck,
         AddAllowlistEntry, DeleteAllowlistEntry, UpdateAllowlistEntry, UpdateDeadlock,
         DeleteStep, DeleteAllowlist, CascadeRow, DeleteCommit, DeleteFails, fileVars
<1>3. QED
  BY <1>1, <1>2

\* Between its statements a read is owed no more than is there for it, and
\* knows all of that.
ReadInv ==
  /\ reader \in Read
  /\ reader.pc = "entries" =>
       /\ reader.id \in 1..lastId
       /\ reader.owed \subseteq EntriesOf(reader.id)
       /\ EntriesOf(reader.id) \subseteq reader.known

\* The list changes between the two statements.
LEMMA MeanwhileKeeps ==
  ASSUME Locks, Locks', ReadInv, Meanwhile, reader.pc = "entries"
  PROVE  ReadInv' /\ reader'.pc = "entries"
<1>t. /\ list.id \in Nat /\ lastId \in Nat /\ entries \subseteq Values /\ entries' \subseteq Values
      /\ reader \in Read /\ \A r \in Replicas : LoaderInv(r)
      /\ Next /\ reader.id \in 1..lastId
  BY DEF Locks, Types, TypeOK, Order, ReadInv, Meanwhile
<1> DEFINE owed == IF Administered THEN reader.owed \cap entries' ELSE reader.owed \cap LeftIn
           known == IF Administered THEN reader.known \cup entries'
                                    ELSE reader.known \cup (Committed \cap Values)
<1>1. Committed \subseteq Values
  <2>1. ASSUME NEW r \in Replicas, Commits(r) PROVE Content(r) \subseteq Values
    <3>1. CommitEntries(r)
      BY <1>t, <2>1, CommitOnly
    <3>2. Content(r) \subseteq entries'
      BY <3>1, CommitApplies
    <3>3. QED
      BY <1>t, <3>2
  <2>2. QED
    BY <2>1 DEF Committed
<1>2. reader' = [reader EXCEPT !.owed = owed, !.known = known]
  BY <1>t, <1>1 DEF Meanwhile, Read
<1>3. owed \subseteq Values /\ known \subseteq Values
  BY <1>t, <1>1 DEF Read
<1> HIDE DEF owed, known
<1>4. /\ reader' \in Read /\ reader'.pc = "entries" /\ reader'.id = reader.id
      /\ reader'.owed = owed /\ reader'.known = known
  BY <1>t, <1>2, <1>3 DEF Read
<1>5. lastId' \in Nat /\ lastId <= lastId'
  BY <1>t, SequenceGrows
<1>6. owed \subseteq EntriesOf(reader.id)' /\ EntriesOf(reader.id)' \subseteq known
  <2>1. CASE list.id = reader.id /\ list'.id = reader.id
    <3>1. reader.owed \subseteq entries /\ entries \subseteq reader.known
      BY <2>1 DEF ReadInv, EntriesOf
    <3>2. owed \subseteq entries' /\ entries' \subseteq known
      <4>1. CASE Administered
        BY <4>1 DEF owed, known
      <4>2. CASE entries' = entries
        BY <3>1, <4>2 DEF owed, known
      <4>3. ASSUME NEW r \in Replicas, CommitEntries(r), ~Administered
            PROVE  owed \subseteq entries' /\ entries' \subseteq known
        <5>1. /\ Commits(r) /\ Content(r) \subseteq entries'
              /\ entries' \ entries \subseteq Content(r)
          BY <4>3, CommitApplies
        <5>2. LeftIn \subseteq Content(r) /\ Content(r) \subseteq Committed
          BY <5>1 DEF LeftIn, Committed
        <5>3. QED
          BY <1>1, <3>1, <4>3, <5>1, <5>2 DEF owed, known
      <4>4. QED
        BY <1>t, <4>1, <4>2, <4>3, ChangedBy
    <3>3. EntriesOf(reader.id)' = entries'
      BY <1>4, <2>1 DEF EntriesOf
    <3>4. QED
      BY <3>2, <3>3
  <2>2. CASE list.id = reader.id /\ list'.id # reader.id
    <3>1. entries' = {} /\ Administered
      BY <1>t, <2>2, ListChanges DEF Exists
    <3>2. owed = {} /\ EntriesOf(reader.id)' = {}
      BY <1>4, <2>2, <3>1 DEF owed, EntriesOf
    <3>3. QED
      BY <3>2
  <2>3. CASE list.id # reader.id
    <3>1. list'.id # reader.id
      BY <1>t, <2>3, ListChanges DEF Exists
    <3>2. reader.owed = {}
      BY <1>t, <2>3 DEF ReadInv, EntriesOf, Meanwhile
    <3>3. owed = {} /\ EntriesOf(reader.id)' = {}
      BY <1>4, <3>1, <3>2 DEF owed, EntriesOf
    <3>4. QED
      BY <3>3
  <2>4. QED
    BY <2>1, <2>2, <2>3
<1>7. QED
  BY <1>t, <1>4, <1>5, <1>6 DEF ReadInv

LEMMA ReadStep == Locks /\ Locks' /\ ReadInv /\ [ReadNext]_readVars => ReadInv'
<1> SUFFICES ASSUME Locks, Locks', ReadInv, [ReadNext]_readVars PROVE ReadInv'
  OBVIOUS
<1>t. /\ list.id \in 0..lastId /\ lastId \in Nat /\ entries \subseteq Values /\ reader \in Read
  BY DEF Locks, Types, TypeOK, ReadInv
<1>1. CASE Meanwhile
  <2>1. CASE reader.pc # "entries"
    BY <1>1, <2>1 DEF Meanwhile, ReadInv
  <2>2. CASE reader.pc = "entries"
    BY <1>1, <2>2, MeanwhileKeeps
  <2>3. QED
    BY <2>1, <2>2
<1>2. CASE GetAllowlist
  <2>1. /\ reader' = [pc |-> "entries", id |-> list.id, got |-> {},
                      owed |-> entries, known |-> entries]
        /\ UNCHANGED vars /\ list.id # 0
    BY <1>2 DEF GetAllowlist, NoRead, Exists
  <2>2. reader' \in Read /\ list.id \in 1..lastId
    BY <1>t, <2>1 DEF Read
  <2>3. EntriesOf(reader.id)' = entries
    BY <2>1 DEF EntriesOf, vars
  <2>4. QED
    BY <2>1, <2>2, <2>3 DEF ReadInv, vars
<1>3. CASE GetAllowlistMissing \/ ReadFails
  <2>1. reader' = NoRead
    BY <1>3 DEF GetAllowlistMissing, ReadFails
  <2>2. QED
    BY <2>1 DEF ReadInv, Read, NoRead
<1>4. CASE GetAllowlistEntries
  <2>1. reader' = [pc |-> "answered", id |-> 0, got |-> EntriesOf(reader.id),
                   owed |-> {}, known |-> {}]
    BY <1>4 DEF GetAllowlistEntries, NoRead
  <2>2. EntriesOf(reader.id) \subseteq Values
    BY <1>t DEF EntriesOf
  <2>3. reader' \in Read
    BY <2>1, <2>2 DEF Read
  <2>4. QED
    BY <2>1, <2>3 DEF ReadInv
<1>5. CASE UNCHANGED readVars
  BY <1>5 DEF readVars, vars, ReadInv, EntriesOf
<1>6. QED
  BY <1>1, <1>2, <1>3, <1>4, <1>5 DEF ReadNext

LEMMA ReadInvHolds == ReadSpec => [](Locks /\ ReadInv)
<1>1. ReadInit => ReadInv
  BY DEF ReadInit, ReadInv, Read, NoRead
<1>2. ReadSpec => []Locks
  BY ReadImplementsAllowlists, LocksHold, PTL
<1>3. QED
  BY <1>1, <1>2, ReadStep, PTL DEF ReadSpec

\* Types with a reader.
THEOREM ReadTypeCorrect == ReadSpec => []ReadTypeOK
<1>1. Locks /\ ReadInv => ReadTypeOK
  BY DEF Locks, Types, ReadInv, ReadTypeOK
<1>2. QED
  BY <1>1, ReadInvHolds, PTL

\* An agent is told of all that was there when its request began and that no
\* admin and no loaded file has removed since, and of nothing that was neither
\* there nor put in by them, though nothing holds the list between its two
\* statements (the handlers of v2/allowlists.go and the signed download,
\* against loaders and admins).
THEOREM ReadsAreWhole == ReadSpec => ReadWhole
<1>1. ASSUME Locks, Locks', ReadInv, ReadNext,
             reader.pc = "entries", reader'.pc = "answered"
      PROVE  reader.owed \subseteq reader'.got /\ reader'.got \subseteq reader.known
  <2>1. GetAllowlistEntries
    <3>1. ~Meanwhile
      BY <1>1, MeanwhileKeeps
    <3>2. ~ReadFails
      BY <1>1 DEF ReadFails, NoRead
    <3>3. QED
      BY <1>1, <3>1, <3>2 DEF ReadNext, GetAllowlist, GetAllowlistMissing
  <2>2. reader'.got = EntriesOf(reader.id)
    BY <2>1 DEF GetAllowlistEntries, NoRead
  <2>3. QED
    BY <1>1, <2>2 DEF ReadInv
<1>2. Locks /\ Locks' /\ ReadInv /\ [ReadNext]_readVars =>
        [reader.pc = "entries" /\ reader'.pc = "answered"
           => reader.owed \subseteq reader'.got /\ reader'.got \subseteq reader.known]_readVars
  BY <1>1
<1>3. QED
  BY <1>2, ReadInvHolds, PTL DEF ReadSpec, ReadWhole

=============================================================================
