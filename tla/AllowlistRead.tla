---------------------------- MODULE AllowlistRead ----------------------------
(***************************************************************************)
(* An agent reads the allowlist (GET /v3/allowlists, /v3/allowlists/{name} *)
(* and the signed download; internal/api/v2/allowlists.go, decisions.go)   *)
(* while Allowlists' loaders and admins change it.  A read is two          *)
(* statements on a pool: the row of the list, then the entries with its    *)
(* id.  Nothing holds the list in between.                                 *)
(***************************************************************************)
EXTENDS Allowlists

VARIABLE
  reader   \* the read in progress, or the last one

Read == [pc : {"idle", "entries", "answered"},
         id : Nat,                \* the row it has found
         got : SUBSET Values,     \* the last answer
         owed : SUBSET Values,    \* observer: entries nobody has meant to remove
         known : SUBSET Values]   \* observer: entries somebody has meant to be there

NoRead == [pc |-> "idle", id |-> 0, got |-> {}, owed |-> {}, known |-> {}]

readVars == <<vars, reader>>

-----------------------------------------------------------------------------

\* GetAllowlistByName, or one row of GetAllowlists.
GetAllowlist ==
  /\ reader.pc # "entries"
  /\ Exists
  /\ reader' = [NoRead EXCEPT !.pc = "entries", !.id = list.id,
                              !.owed = entries, !.known = entries]
  /\ UNCHANGED vars

\* There is no list: a 404, or a list fewer.
GetAllowlistMissing ==
  /\ reader.pc # "entries"
  /\ ~Exists
  /\ reader' = NoRead
  /\ UNCHANGED vars

\* The entries of a list that has been deleted are none; the answer is a 200.
EntriesOf(id) == IF list.id = id THEN entries ELSE {}

GetAllowlistEntries ==
  /\ reader.pc = "entries"
  /\ reader' = [NoRead EXCEPT !.pc = "answered", !.got = EntriesOf(reader.id)]
  /\ UNCHANGED vars

\* A statement fails, or the agent goes away.
ReadFails ==
  /\ reader.pc = "entries"
  /\ reader' = NoRead
  /\ UNCHANGED vars

\* What is meant to be in the list after a step, and what may be: an admin
\* means the change he makes, a loader that commits means its file.
Committed == UNION {Content(r) : r \in {s \in Replicas : Commits(s)}}
LeftIn == {v \in Values : \A r \in Replicas : Commits(r) => v \in Content(r)}
Administered == edits' # edits \/ (admin # 0 /\ admin' = 0)

\* The list changes under the reader.
Meanwhile ==
  /\ Next
  /\ reader' =
       IF reader.pc # "entries" THEN reader
       ELSE IF Administered
       THEN [reader EXCEPT !.owed = @ \cap entries', !.known = @ \cup entries']
       ELSE [reader EXCEPT !.owed = @ \cap LeftIn, !.known = @ \cup Committed]

ReadInit == Init /\ reader = NoRead

ReadNext ==
  \/ Meanwhile
  \/ GetAllowlist
  \/ GetAllowlistMissing
  \/ GetAllowlistEntries
  \/ ReadFails

ReadSpec == ReadInit /\ [][ReadNext]_readVars

FairReadSpec == ReadSpec /\ Fairness

-----------------------------------------------------------------------------
(* Properties                                                              *)

\* Type invariant.
ReadTypeOK == TypeOK /\ reader \in Read

\* An agent is told of every entry that was there when its request began and
\* that no admin and no file has removed since, and of none that was neither
\* there nor put in by an admin or a file that has been loaded: never half of a
\* reload, nor one that is rolled back (the two statements of the handlers
\* against LoadFile and the admin handlers).
ReadWhole ==
  [][reader.pc = "entries" /\ reader'.pc = "answered"
       => reader.owed \subseteq reader'.got /\ reader'.got \subseteq reader.known]_readVars

==============================================================================
