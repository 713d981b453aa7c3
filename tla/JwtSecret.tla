------------------------------ MODULE JwtSecret ------------------------------
(***************************************************************************)
(* The signing secret that replicas share through server_settings          *)
(* (GetOrCreateJWTSecret of internal/db/queries/settings.go), read when    *)
(* runServe starts and held until the process ends.  Tokens of machines,   *)
(* sessions of admins and signed download links are all made with it.      *)
(*                                                                         *)
(* Each statement is atomic: an INSERT ... ON CONFLICT that meets one not  *)
(* yet committed waits for it.  Secrets are 32 random bytes, no two draws  *)
(* alike: a secret is the number of its draw.                              *)
(***************************************************************************)
EXTENDS Naturals

CONSTANTS
  Replicas,
  MaxCrashes   \* bound on processes that end and on failed statements

ASSUME ReplicasAssumption == Replicas # {}
ASSUME CrashesAssumption == MaxCrashes \in Nat

VARIABLES
  setting,   \* the row jwt_secret of server_settings
  server,    \* how far runServe is in each replica, and the secret in hand
  drawn,     \* how many secrets have been generated
  crashes

secretVars == <<setting, server, drawn, crashes>>

Secrets == Nat \ {0}
NoSecret == 0

Server == [pc : {"down", "select", "insert", "reread", "serving"},
           secret : Nat]
Down == [pc |-> "down", secret |-> NoSecret]

Serving(r) == server[r].pc = "serving"
Move(r, from, to, secret) ==
  /\ server[r].pc = from
  /\ server' = [server EXCEPT ![r] = [pc |-> to, secret |-> secret]]

Crashes == crashes < MaxCrashes /\ crashes' = crashes + 1

-----------------------------------------------------------------------------

\* The orchestrator starts the process.
Boot(r) ==
  /\ Move(r, "down", "select", NoSecret)
  /\ UNCHANGED <<setting, drawn, crashes>>

FindSecret(r) ==
  /\ setting # NoSecret
  /\ Move(r, "select", "serving", setting)
  /\ UNCHANGED <<setting, drawn, crashes>>

\* Seeded bug: the random source gives the same bytes again.
GenerateSecretAgain(r) ==
  /\ setting = NoSecret
  /\ Move(r, "select", "insert", drawn + 1)
  /\ UNCHANGED <<setting, drawn, crashes>>

\* There is no row, or the query fails: any error of it leads here.
GenerateSecret(r) ==
  /\ IF setting = NoSecret THEN UNCHANGED crashes ELSE Crashes
  /\ drawn' = drawn + 1
  /\ Move(r, "select", "insert", drawn + 1)
  /\ UNCHANGED setting

\* Seeded bug: ON CONFLICT DO UPDATE, the last writer wins.
InsertLastWins(r) ==
  /\ Move(r, "insert", "reread", server[r].secret)
  /\ setting' = server[r].secret
  /\ UNCHANGED <<drawn, crashes>>

\* ON CONFLICT DO NOTHING: the first writer wins.
InsertSecret(r) ==
  /\ Move(r, "insert", "reread", server[r].secret)
  /\ setting' = IF setting = NoSecret THEN server[r].secret ELSE setting
  /\ UNCHANGED <<drawn, crashes>>

\* The insert is committed and its answer lost: the error ends the process.
InsertUnacknowledged(r) ==
  /\ server[r].pc = "insert"
  /\ setting' = IF setting = NoSecret THEN server[r].secret ELSE setting
  /\ server' = [server EXCEPT ![r] = Down]
  /\ Crashes
  /\ UNCHANGED drawn

\* Seeded bug: the loser of the race serves with the secret it has drawn.
RereadOwn(r) ==
  /\ setting # NoSecret
  /\ Move(r, "reread", "serving", server[r].secret)
  /\ UNCHANGED <<setting, drawn, crashes>>

\* The winner's secret, whoever that is.
RereadSecret(r) ==
  /\ setting # NoSecret
  /\ Move(r, "reread", "serving", setting)
  /\ UNCHANGED <<setting, drawn, crashes>>

\* The process is stopped or dies, or a later statement fails and ends it.
Crash(r) ==
  /\ server[r].pc # "down"
  /\ server' = [server EXCEPT ![r] = Down]
  /\ Crashes
  /\ UNCHANGED <<setting, drawn>>

-----------------------------------------------------------------------------

SecretInit ==
  /\ setting = NoSecret
  /\ server = [r \in Replicas |-> Down]
  /\ drawn = 0
  /\ crashes = 0

BootStep(r) ==
  \/ Boot(r)
  \/ FindSecret(r)
  \/ GenerateSecret(r)
  \/ InsertSecret(r)
  \/ RereadSecret(r)

SecretNext ==
  \E r \in Replicas : BootStep(r) \/ InsertUnacknowledged(r) \/ Crash(r)

SecretSpec == SecretInit /\ [][SecretNext]_secretVars

-----------------------------------------------------------------------------
(* Properties                                                              *)

\* Type invariant.
SecretTypeOK ==
  /\ setting \in 0..drawn
  /\ server \in [Replicas -> Server]
  /\ \A r \in Replicas : server[r].secret <= drawn
  /\ drawn \in Nat
  /\ crashes \in 0..MaxCrashes

\* Inductive invariant: who serves holds the stored secret, and whoever is past
\* the insert finds one stored (ON CONFLICT DO NOTHING, then the second read).
SecretShared ==
  \A r \in Replicas :
    /\ Serving(r) => setting # NoSecret /\ server[r].secret = setting
    /\ server[r].pc = "reread" => setting # NoSecret
    /\ server[r].pc = "insert" => server[r].secret # NoSecret

\* What the code behind runServe works with.
Held == [r \in Replicas |-> IF Serving(r) THEN server[r].secret ELSE NoSecret]

Register == INSTANCE OnceRegister WITH
  Readers <- Replicas, Values <- Secrets, NoValue <- NoSecret,
  value <- setting, held <- Held

\* Replicas that start at once on an empty database, crash between the
\* statements and start again agree on one secret that never changes
\* (settings.go:12-16 and the comments on the race).
SecretIsOnce == Register!Spec

=============================================================================
