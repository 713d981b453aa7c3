----------------------------- MODULE Allowlists -----------------------------
(***************************************************************************)
(* One allowlist under its name: the replicas that load it from a file     *)
(* when they start (internal/allowlists/loader.go), the admins who create, *)
(* delete and edit it (internal/api/admin/allowlists.go), and the          *)
(* statements of internal/db/queries/allowlists.go under READ COMMITTED.   *)
(*                                                                         *)
(* A loader replaces the entries in a transaction: a DELETE that takes a   *)
(* snapshot when it begins and locks one row after the other, then one     *)
(* INSERT ... ON CONFLICT per entry, each of which waits for a conflicting *)
(* row that another transaction has in hand, and for the row of the list   *)
(* if that is being deleted.  The DELETE of a list takes the list's row,   *)
(* then its entries one by one.  Everything else is a single statement,    *)
(* one step when nothing makes it wait.                                    *)
(***************************************************************************)
EXTENDS Naturals, Sequences, SequencesExt

CONSTANTS
  Replicas,
  Values,      \* scope and value of an entry
  Files,       \* what the file may say about the list: sequences of values
  NoFile,      \* the file does not name the list
  MaxFaults,   \* bound on failed statements and crashes of loaders
  MaxEdits,    \* bound on changes by admins
  MaxDeploys   \* bound on restarts with another file

ASSUME FilesAssumption == Files \subseteq Seq(Values) /\ NoFile \notin Files
ASSUME BoundsAssumption == MaxFaults \in Nat /\ MaxEdits \in Nat /\ MaxDeploys \in Nat

VARIABLES
  list,      \* the allowlists row; id 0 when there is none
  entries,   \* committed entries of the list
  loader,    \* what each replica does
  file,      \* the file each replica has
  admin,     \* a DELETE request past its first statement: the id, or 0
  dropping,  \* its second statement has the row of the list
  cascaded,  \* and has deleted these entries, not committed
  lastId,    \* the sequence of allowlist ids
  faults, edits, deploys

fileVars == <<list, entries, lastId>>
adminVars == <<admin, dropping, cascaded>>
budgetVars == <<faults, edits, deploys>>
vars == <<list, entries, loader, file, admin, dropping, cascaded, lastId,
          faults, edits, deploys>>

Loader == [pc : {"start", "clear", "clearing", "insert", "check", "serving", "down"},
           id : Nat,               \* the id UpsertManagedAllowlist returned
           todo : Seq(Values),     \* entries still to insert
           target : SUBSET Values, \* rows the DELETE's snapshot holds
           gone : SUBSET Values,   \* rows deleted, not committed
           fresh : SUBSET Values,  \* rows inserted, not committed
           kept : SUBSET Values,   \* rows of others updated, not committed
           linked : BOOLEAN]       \* the row of the list is locked by an insert

Outside(pc) == [pc |-> pc, id |-> 0, todo |-> <<>>, target |-> {},
                gone |-> {}, fresh |-> {}, kept |-> {}, linked |-> FALSE]

NoList == [id |-> 0, managed |-> FALSE]
Exists == list.id # 0

Held(r) == loader[r].gone \cup loader[r].fresh \cup loader[r].kept

\* Loaders of the list that is there: a loader of one that is gone has rows in
\* nobody's way.
Members == {r \in Replicas : loader[r].id = list.id}

HeldByOthers(r) == cascaded \cup UNION {Held(s) : s \in Members \ {r}}
HeldByAny == cascaded \cup UNION {Held(s) : s \in Members}

At(r, pc) == loader[r].pc = pc
Content(r) == ToSet(file[r])

\* The transaction of r is over, and the other deletes no longer find what
\* it has removed.
Leave(r, pc, removed) ==
  loader' = [s \in Replicas |->
               IF s = r THEN Outside(pc) ELSE [loader[s] EXCEPT !.target = @ \ removed]]

Fault == faults < MaxFaults /\ faults' = faults + 1
Edit == edits < MaxEdits /\ edits' = edits + 1

-----------------------------------------------------------------------------
(* LoadFile                                                                *)

\* Nothing to do for a list the file does not name.
NotNamed(r) ==
  /\ At(r, "start") /\ file[r] = NoFile
  /\ Leave(r, "serving", {})
  /\ UNCHANGED <<fileVars, file, adminVars, budgetVars>>

\* Seeded bug: the id is not the one of the row (RETURNING id).
UpsertManagedUnknown(r) ==
  /\ At(r, "start") /\ file[r] # NoFile /\ ~dropping
  /\ list' = [id |-> lastId + 1, managed |-> TRUE]
  /\ loader' = [loader EXCEPT ![r] = [Outside("clear") EXCEPT !.id = lastId + 1]]
  /\ UNCHANGED <<entries, lastId, file, adminVars, budgetVars>>

UpsertManagedAllowlist(r) ==
  /\ At(r, "start") /\ file[r] # NoFile /\ ~dropping
  /\ LET id == IF Exists THEN list.id ELSE lastId + 1
     IN /\ list' = [id |-> id, managed |-> TRUE]
        /\ lastId' = IF Exists THEN lastId ELSE id
        /\ loader' = [loader EXCEPT ![r] = [Outside("clear") EXCEPT !.id = id]]
  /\ UNCHANGED <<entries, file, adminVars, budgetVars>>

ClearBegin(r) ==
  /\ At(r, "clear")
  /\ loader' = [loader EXCEPT ![r].pc = "clearing",
                              ![r].target = IF list.id = loader[r].id THEN entries ELSE {}]
  /\ UNCHANGED <<fileVars, file, adminVars, budgetVars>>

\* Seeded bug: the delete runs outside the transaction.
ClearRowCommitted(r) ==
  /\ At(r, "clearing")
  /\ \E v \in loader[r].target \ HeldByOthers(r) :
       /\ entries' = entries \ {v}
       /\ loader' = [s \in Replicas |-> [loader[s] EXCEPT !.target = @ \ {v}]]
  /\ UNCHANGED <<list, lastId, file, adminVars, budgetVars>>

\* The DELETE locks a row and keeps it while it waits for the next.
ClearRow(r) ==
  /\ At(r, "clearing")
  /\ \E v \in loader[r].target \ HeldByOthers(r) :
       loader' = [loader EXCEPT ![r].target = @ \ {v}, ![r].gone = @ \cup {v}]
  /\ UNCHANGED <<fileVars, file, adminVars, budgetVars>>

ClearEnd(r) ==
  /\ At(r, "clearing") /\ loader[r].target = {}
  /\ loader' = [loader EXCEPT ![r].pc = "insert", ![r].todo = file[r]]
  /\ UNCHANGED <<fileVars, file, adminVars, budgetVars>>

\* The row to insert next is there: another has added it since the snapshot.
There(r, v) == v \in entries \ loader[r].gone

\* Seeded bug: ON CONFLICT DO NOTHING, which locks no row.
UpdateIgnored(r) ==
  /\ At(r, "insert") /\ loader[r].todo # <<>>
  /\ list.id = loader[r].id
  /\ LET v == Head(loader[r].todo)
     IN /\ v \notin HeldByOthers(r)
        /\ There(r, v)
        /\ loader' = [loader EXCEPT ![r].todo = Tail(@)]
  /\ UNCHANGED <<fileVars, file, adminVars, budgetVars>>

\* The ON CONFLICT half: the row is updated, and locked by that.
UpdateConflicting(r) ==
  /\ At(r, "insert") /\ loader[r].todo # <<>>
  /\ list.id = loader[r].id
  /\ LET v == Head(loader[r].todo)
     IN /\ v \notin HeldByOthers(r)
        /\ There(r, v)
        /\ loader' = [loader EXCEPT ![r].todo = Tail(@), ![r].kept = @ \cup {v}]
  /\ UNCHANGED <<fileVars, file, adminVars, budgetVars>>

\* The row is put in; the first time, its foreign key is still to be checked.
Insert(r) ==
  /\ At(r, "insert") /\ loader[r].todo # <<>>
  /\ list.id = loader[r].id
  /\ LET v == Head(loader[r].todo)
     IN /\ v \notin HeldByOthers(r)
        /\ ~There(r, v)
        /\ loader' = [loader EXCEPT ![r].todo = Tail(@), ![r].fresh = @ \cup {v},
                                    ![r].pc = IF loader[r].linked THEN @ ELSE "check"]
  /\ UNCHANGED <<fileVars, file, adminVars, budgetVars>>

\* The check locks the row of the list, until the commit, against deletion.
InsertChecked(r) ==
  /\ At(r, "check") /\ list.id = loader[r].id /\ ~dropping
  /\ loader' = [loader EXCEPT ![r].pc = "insert", ![r].linked = TRUE]
  /\ UNCHANGED <<fileVars, file, adminVars, budgetVars>>

CommitEntries(r) ==
  /\ At(r, "insert") /\ loader[r].todo = <<>>
  /\ entries' = (entries \ loader[r].gone) \cup loader[r].fresh
  /\ Leave(r, "serving", loader[r].gone)
  /\ UNCHANGED <<list, lastId, file, adminVars, budgetVars>>

\* The list was deleted meanwhile: the foreign key refuses the row, the error
\* ends LoadFile and the process.
InsertRefused(r) ==
  /\ At(r, "check") \/ (At(r, "insert") /\ loader[r].todo # <<>>)
  /\ list.id # loader[r].id
  /\ Leave(r, "down", {})
  /\ UNCHANGED <<fileVars, file, adminVars, budgetVars>>

\* The values whose row r waits for, or has still to lock.
Awaits(r) ==
  CASE At(r, "clearing") -> loader[r].target
    [] At(r, "insert") /\ loader[r].todo # <<>> -> {Head(loader[r].todo)}
    [] OTHER -> {}

\* Who holds and awaits which rows.  A row is named by its value in a sequence
\* of one, the row of the list by the empty sequence.
Rows(S) == {<<v>> : v \in S}
ListRow == {<<>>}

LoaderParty(r) ==
  [holds |-> Rows(Held(r)),
   awaits |-> Rows(Awaits(r)) \cup (IF At(r, "check") THEN ListRow ELSE {})]

DeleteParty ==
  [holds |-> Rows(cascaded) \cup ListRow, awaits |-> Rows(entries \ cascaded)]

Parties ==
  {LoaderParty(r) : r \in Members} \cup (IF dropping THEN {DeleteParty} ELSE {})

\* p is on a cycle: every set that holds whom p waits for, and with a party
\* whom that waits for, holds p.
Deadlocked(p, parties) ==
  LET Blockers(x) == {q \in parties \ {x} : x.awaits \cap q.holds # {}}
  IN \A S \in SUBSET parties :
       Blockers(p) \subseteq S /\ (\A x \in S : Blockers(x) \subseteq S) => p \in S

\* Seeded bug: the error path does not end the transaction.
VictimKeepsLocks(r) ==
  /\ r \in Members /\ Deadlocked(LoaderParty(r), Parties)
  /\ loader' = [loader EXCEPT ![r].pc = "down"]
  /\ UNCHANGED <<fileVars, file, adminVars, budgetVars>>

\* Transactions that wait for each other, loaders among themselves or with the
\* DELETE of the list: PostgreSQL aborts one.
DeadlockVictim(r) ==
  /\ Leave(r, "down", {})
  /\ r \in Members /\ Deadlocked(LoaderParty(r), Parties)
  /\ UNCHANGED <<fileVars, file, adminVars, budgetVars>>

\* A statement fails or the process dies; an open transaction rolls back.
LoadFails(r) ==
  /\ loader[r].pc \notin {"serving", "down"}
  /\ Leave(r, "down", {})
  /\ Fault
  /\ UNCHANGED <<fileVars, file, adminVars, edits, deploys>>

Restart(r) ==
  /\ At(r, "down")
  /\ Leave(r, "start", {})
  /\ UNCHANGED <<fileVars, file, adminVars, budgetVars>>

\* The replica is replaced by one with another file.
Deploy(r, f) ==
  /\ deploys < MaxDeploys
  /\ At(r, "serving") /\ f # file[r]
  /\ file' = [file EXCEPT ![r] = f]
  /\ Leave(r, "start", {})
  /\ deploys' = deploys + 1
  /\ UNCHANGED <<fileVars, adminVars, faults, edits>>

-----------------------------------------------------------------------------
(* Admins; a statement that meets a locked row waits for it                *)

CreateAllowlist ==
  /\ ~Exists
  /\ list' = [id |-> lastId + 1, managed |-> FALSE]
  /\ lastId' = lastId + 1
  /\ Edit
  /\ UNCHANGED <<entries, loader, file, adminVars, faults, deploys>>

\* The first statement of DeleteAllowlist refuses a managed list.
DeleteCheck ==
  /\ admin = 0
  /\ Exists /\ ~list.managed
  /\ admin' = list.id
  /\ Edit
  /\ UNCHANGED <<fileVars, loader, file, dropping, cascaded, faults, deploys>>

\* The second deletes by id.  It takes the row of the list once no insert of a
\* loader has it locked; the flag may have changed.
DeleteAllowlist ==
  /\ admin # 0 /\ list.id = admin /\ ~dropping
  /\ \A r \in Members : ~loader[r].linked
  /\ dropping' = TRUE
  /\ UNCHANGED <<fileVars, loader, file, admin, cascaded, budgetVars>>

\* ON DELETE CASCADE: an entry after the other, also those of the file.
CascadeRow ==
  /\ dropping
  /\ \E v \in entries \ HeldByAny : cascaded' = cascaded \cup {v}
  /\ UNCHANGED <<fileVars, loader, file, admin, dropping, budgetVars>>

DeleteOver == admin' = 0 /\ dropping' = FALSE /\ cascaded' = {}

\* Seeded bug: no ON DELETE CASCADE, and nothing that refuses the deletion.
DeleteCommitListOnly ==
  /\ dropping
  /\ list' = NoList
  /\ DeleteOver
  /\ UNCHANGED <<entries, loader, lastId, file, budgetVars>>

DeleteCommit ==
  /\ dropping /\ entries \subseteq cascaded
  /\ list' = NoList
  /\ entries' = {}
  /\ loader' = [r \in Replicas |-> [loader[r] EXCEPT !.target = {}]]
  /\ DeleteOver
  /\ UNCHANGED <<lastId, file, budgetVars>>

\* The DELETE is the victim of a deadlock, fails, or its client goes away.
DeleteFails ==
  /\ admin # 0
  /\ DeleteOver
  /\ UNCHANGED <<fileVars, loader, file, budgetVars>>

AddAllowlistEntry(v) ==
  /\ Exists /\ ~dropping
  /\ v \notin entries \cup HeldByAny
  /\ entries' = entries \cup {v}
  /\ Edit
  /\ UNCHANGED <<list, lastId, loader, file, adminVars, faults, deploys>>

\* The row keeps its identity: a delete that has seen it still finds it.
UpdateAllowlistEntry(v, w) ==
  /\ v \in entries \ HeldByAny
  /\ w \notin entries \cup HeldByAny
  /\ entries' = (entries \ {v}) \cup {w}
  /\ loader' = [r \in Replicas |-> [loader[r] EXCEPT !.target =
                                      IF v \in @ THEN (@ \ {v}) \cup {w} ELSE @]]
  /\ Edit
  /\ UNCHANGED <<list, lastId, file, adminVars, faults, deploys>>

DeleteAllowlistEntry(v) ==
  /\ v \in entries \ HeldByAny
  /\ entries' = entries \ {v}
  /\ loader' = [r \in Replicas |-> [loader[r] EXCEPT !.target = @ \ {v}]]
  /\ Edit
  /\ UNCHANGED <<list, lastId, file, adminVars, faults, deploys>>

\* An UPDATE has locked the row of v and waits for one with the value w: loader
\* r, which waits for v, is the victim.
UpdateDeadlock(r) ==
  /\ r \in Members
  /\ Edit
  /\ \E v \in entries \ HeldByAny, w \in HeldByAny :
       Deadlocked(LoaderParty(r), Parties \cup {[holds |-> Rows({v}), awaits |-> Rows({w})]})
  /\ Leave(r, "down", {})
  /\ UNCHANGED <<fileVars, file, adminVars, faults, deploys>>

-----------------------------------------------------------------------------

Init ==
  /\ list = NoList
  /\ entries = {}
  /\ loader = [r \in Replicas |-> Outside("start")]
  /\ file \in [Replicas -> Files]
  /\ admin = 0 /\ dropping = FALSE /\ cascaded = {}
  /\ lastId = 0
  /\ faults = 0 /\ edits = 0 /\ deploys = 0

LoadStep(r) ==
  \/ NotNamed(r)
  \/ UpsertManagedAllowlist(r)
  \/ ClearBegin(r)
  \/ ClearRow(r)
  \/ ClearEnd(r)
  \/ UpdateConflicting(r)
  \/ Insert(r)
  \/ InsertChecked(r)
  \/ CommitEntries(r)
  \/ InsertRefused(r)
  \/ Restart(r)

AdminStep ==
  \/ CreateAllowlist
  \/ DeleteCheck
  \/ \E v \in Values : \/ AddAllowlistEntry(v)
                       \/ DeleteAllowlistEntry(v)
                       \/ \E w \in Values : UpdateAllowlistEntry(v, w)
  \/ \E r \in Replicas : UpdateDeadlock(r)

\* The second statement of a DELETE request.
DeleteStep ==
  \/ DeleteAllowlist
  \/ CascadeRow
  \/ DeleteCommit

Next ==
  \/ \E r \in Replicas : \/ LoadStep(r)
                         \/ DeadlockVictim(r)
                         \/ LoadFails(r)
                         \/ \E f \in Files \cup {NoFile} : Deploy(r, f)
  \/ AdminStep
  \/ DeleteStep
  \/ DeleteFails

Spec == Init /\ [][Next]_vars

\* Loaders run on and are restarted, the deadlock detector runs, and a DELETE
\* goes on when what it waits for is free.
Fairness ==
  /\ \A r \in Replicas : WF_vars(LoadStep(r))
  /\ WF_vars(\E r \in Replicas : DeadlockVictim(r))
  /\ WF_vars(DeleteStep)

FairSpec == Spec /\ Fairness

-----------------------------------------------------------------------------
(* Properties                                                              *)

\* Type invariant.
TypeOK ==
  /\ list \in [id : 0..lastId, managed : BOOLEAN]
  /\ entries \subseteq Values
  /\ loader \in [Replicas -> Loader]
  /\ file \in [Replicas -> Files \cup {NoFile}]
  /\ admin \in 0..lastId /\ dropping \in BOOLEAN /\ cascaded \subseteq Values
  /\ lastId \in Nat
  /\ faults \in 0..MaxFaults /\ edits \in 0..MaxEdits /\ deploys \in 0..MaxDeploys

\* No entry without a list, and no row in two transactions at once, of loaders
\* or the DELETE of the list (SyncManagedEntries and the foreign key).
LocksExclusive ==
  /\ ~Exists => entries = {}
  /\ \A r, s \in Replicas : r # s /\ loader[r].id = loader[s].id => Held(r) \cap Held(s) = {}
  /\ \A r \in Members : Held(r) \cap cascaded = {}

\* Loader r commits in this step.
Commits(r) == At(r, "insert") /\ loader'[r].pc = "serving"

\* When a loader commits, every entry of its file is there, whatever other
\* loaders and admins did meanwhile (SyncManagedEntries).
FileApplied ==
  [][\A r \in Replicas : Commits(r) => Content(r) \subseteq entries']_vars

\* Reloading leaves no gap: an entry disappears only by an admin's doing, or
\* when a loader commits whose own file is without it (the transaction of
\* SyncManagedEntries).
NoGap ==
  [][\A v \in entries \ entries' :
       \/ edits' # edits
       \/ admin # 0 /\ admin' = 0
       \/ \E r \in Replicas : Commits(r) /\ v \notin Content(r)]_vars

\* A process takes longer to come back than a waiting statement to proceed
\* once the row is free.
WaiterFirst ==
  \A r \in Replicas : At(r, "down") /\ loader'[r].pc = "start"
    => \A s \in Replicas : Awaits(s) \cap HeldByOthers(s) = {} => Awaits(s) = {}

\* Replicas that start end up serving, through deadlocks of the loaders,
\* deletions under their feet and failures, unless two of them take turns as
\* the victim for ever (LoadFile as a step of runServe).
EventuallyServing ==
  <>[][WaiterFirst]_vars => \A r \in Replicas : []<>At(r, "serving")

=============================================================================
