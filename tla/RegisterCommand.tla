--------------------------- MODULE RegisterCommand ---------------------------
(***************************************************************************)
(* The register command (cmd/register/register.go) composed with the       *)
(* server of MachineLifecycle and the RateLimiter in front of it: people   *)
(* behind one address run the command until their agent has working        *)
(* credentials, admins interfere, answers get lost, runs are interrupted.  *)
(*                                                                         *)
(* A run draws a new machine id and a new password, 24 and 32 random       *)
(* bytes: an id that nobody uses stands for it, recycled once its machine, *)
(* its token and its file are gone.  The registration is one statement     *)
(* and a step; the requests that follow are those of MachineLifecycle.     *)
(***************************************************************************)
EXTENDS MachineLifecycle, RateLimiter

CONSTANTS
  Installers,   \* people with the command, each with a file of credentials
  NoHandler,    \* no request in progress
  MaxMishaps    \* bound on failed statements, lost answers, interrupted runs, files
                \* not written, and on what admins do to machines and keys in use

ASSUME InstallersAssumption == IsFiniteSet(Installers) /\ NoHandler \notin Handlers
ASSUME BoundsAssumption == MaxMishaps \in Nat

VARIABLES
  pace,     \* do people wait a window before they run the command again?
  cmd,      \* the run of each
  file,     \* online_api_credentials.yaml of each
  touched,  \* observer: machines an admin has changed
  mishaps

commandVars == <<pace, cmd, file, touched, mishaps>>
allVars == <<vars, hits, commandVars>>

Run == [pc : {"idle", "register", "login", "enroll", "write"},
        machine : Machines, password : Passwords, key : Keys,
        by : Handlers \cup {NoHandler},   \* who serves its request
        wait : 0..Window]
File == [state : {"none", "broken", "written"}, machine : Machines, password : Passwords]

Doing(i, pc) == cmd[i].pc = pc /\ cmd[i].by = NoHandler
Running(i) == cmd[i].pc # "idle"
Mine(m) == {i \in Installers : \/ Running(i) /\ cmd[i].machine = m
                               \/ file[i].state = "written" /\ file[i].machine = m}
Unused(m) ==
  /\ ~Present(m) /\ m \notin tokens /\ Mine(m) = {}
  /\ \A h \in Handlers : ~At(h, "idle") => req[h].machine # m

\* All new ids are alike, and so are all idle handlers: one of each stands for
\* the others.
NewId == CHOOSE m \in Machines : Unused(m)
IdsLeft == \E m \in Machines : Unused(m)
Free == CHOOSE h \in Handlers : At(h, "idle")
SomeFree == \E h \in Handlers : At(h, "idle")

\* The credentials in the file are good for an agent.
Working(i) ==
  /\ file[i].state = "written"
  /\ status[file[i].machine] = "validated"
  /\ password[file[i].machine] = file[i].password

Stopped == [pc |-> "idle", machine |-> Nobody, password |-> NoSecret, key |-> NoKeyId,
            by |-> NoHandler, wait |-> IF pace = "patient" THEN Window ELSE 0]

Room == faults + mishaps < MaxMishaps
Mishap == Room /\ mishaps' = mishaps + 1

Go(i, pc) == cmd' = [cmd EXCEPT ![i].pc = pc]
Stop(i) == cmd' = [cmd EXCEPT ![i] = Stopped]
Send(i, h) == cmd' = [cmd EXCEPT ![i].by = h]

\* The answer of h reaches the run that waits for it, if one does.
Answered(h, pc) ==
  cmd' = [i \in Installers |-> IF cmd[i].by = h
                               THEN [cmd[i] EXCEPT !.pc = pc, !.by = NoHandler] ELSE cmd[i]]
Refused(h) ==
  cmd' = [i \in Installers |-> IF cmd[i].by = h THEN Stopped ELSE cmd[i]]

-----------------------------------------------------------------------------
(* A run of the command                                                    *)

\* Somebody with a key and without working credentials runs the command.
Start(i, p, k) ==
  /\ ~Running(i) /\ cmd[i].wait = 0
  /\ ~Working(i) /\ key[k].state # "none" /\ IdsLeft
  /\ cmd' = [cmd EXCEPT ![i] = [Stopped EXCEPT !.pc = "register", !.machine = NewId,
                                  !.password = p, !.key = k, !.wait = 0]]
  /\ touched' = touched \ {NewId}
  /\ UNCHANGED <<vars, hits, pace, file, mishaps>>

\* POST /v3/watchers: the machine is there, whether or not the answer comes.
RegisterMachine(i) ==
  /\ Doing(i, "register") /\ Admit
  /\ Register(cmd[i].machine, cmd[i].password)
  /\ \/ Go(i, "login") /\ UNCHANGED mishaps
     \/ Stop(i) /\ Mishap
  /\ UNCHANGED <<pace, file, touched>>

\* The statement fails.
RegistrationFails(i) ==
  /\ Doing(i, "register") /\ Admit
  /\ Stop(i) /\ Mishap
  /\ UNCHANGED <<vars, pace, file, touched>>

\* POST /v3/watchers/login.
Login(i) ==
  /\ Doing(i, "login") /\ Admit /\ SomeFree
  /\ LoginBegin(Free, cmd[i].machine, cmd[i].password)
  /\ Send(i, Free)
  /\ UNCHANGED <<pace, file, touched, mishaps>>

\* 429: a run is over, and the machine it may have registered is left behind.
TooManyRequests(i) ==
  /\ Doing(i, "register") \/ Doing(i, "login")
  /\ Refuse
  /\ Stop(i)
  /\ UNCHANGED <<vars, pace, file, touched, mishaps>>

\* Seeded bug: the enroll route is registered outside of the JWT middleware.
EnrollUnchecked(i) ==
  /\ Doing(i, "enroll") /\ SomeFree
  /\ req' = [req EXCEPT ![Free] = [pc |-> "enroll", machine |-> cmd[i].machine,
                                password |-> NoSecret, key |-> cmd[i].key]]
  /\ Send(i, Free)
  /\ UNCHANGED <<machineVars, key, tokens, observerVars, faults, hits, pace, file, touched,
                 mishaps>>

\* POST /v3/watchers/enroll, which is not rate limited.
Enroll(i) ==
  /\ Doing(i, "enroll") /\ SomeFree
  /\ EnrollBegin(Free, cmd[i].machine, cmd[i].key)
  /\ Send(i, Free)
  /\ UNCHANGED <<hits, pace, file, touched, mishaps>>

\* 401 or 403: the machine was deleted or blocked after its login.
EnrollForbidden(i) ==
  /\ Doing(i, "enroll")
  /\ ~Unblocked(cmd[i].machine)
  /\ Stop(i)
  /\ UNCHANGED <<vars, hits, pace, file, touched, mishaps>>

\* os.WriteFile; a failure leaves the old file or one that is cut off.
WriteFile(i) ==
  /\ Doing(i, "write")
  /\ \/ /\ file' = [file EXCEPT ![i] = [state |-> "written", machine |-> cmd[i].machine,
                                        password |-> cmd[i].password]]
        /\ UNCHANGED mishaps
     \/ /\ file' \in {file, [file EXCEPT ![i].state = "broken"]}
        /\ Mishap
  /\ Stop(i)
  /\ UNCHANGED <<vars, hits, pace, touched>>

\* The run is killed or its connection lost; the server may not notice.
Interrupt(i) ==
  /\ Running(i)
  /\ Stop(i)
  /\ Mishap
  /\ UNCHANGED <<vars, hits, pace, file, touched>>

-----------------------------------------------------------------------------
(* The server, the clock, the admins                                       *)

\* The password, or the key, is refused or passes.
Check(h) ==
  /\ LoginCheck(h) \/ UseKey(h)
  /\ IF At(h, "idle")' THEN Refused(h) ELSE UNCHANGED cmd
  /\ UNCHANGED <<hits, pace, file, touched, mishaps>>

LoginDone(h) ==
  /\ LoginIssue(h)
  /\ \/ Answered(h, "enroll") /\ UNCHANGED mishaps
     \/ Refused(h) /\ Mishap
  /\ UNCHANGED <<hits, pace, file, touched>>

\* Seeded bug: the client decodes a body that the answer does not have.
EnrollMisread(h) ==
  /\ EnrollMachine(h)
  /\ Refused(h)
  /\ UNCHANGED <<hits, pace, file, touched, mishaps>>

\* The machine is enrolled and the key used, whether or not the answer comes.
EnrollDone(h) ==
  /\ EnrollMachine(h)
  /\ \/ Answered(h, "write") /\ UNCHANGED mishaps
     \/ Refused(h) /\ Mishap
  /\ UNCHANGED <<hits, pace, file, touched>>

\* Seeded bug: the error of the enrollment is not looked at.
ErrorIgnored(h) ==
  /\ Room /\ Abandon(h)
  /\ IF At(h, "enroll") \/ At(h, "validate") THEN Answered(h, "write") ELSE Refused(h)
  /\ UNCHANGED <<hits, pace, file, touched, mishaps>>

\* 500, or the connection breaks: either way the run is over.
ServerError(h) ==
  /\ Room /\ Abandon(h)
  /\ Refused(h)
  /\ UNCHANGED <<hits, pace, file, touched, mishaps>>

NewProcess ==
  /\ \A h \in Handlers : At(h, "idle")
  /\ hits # NoHits /\ Forget
  /\ UNCHANGED <<vars, commandVars>>

Tick ==
  /\ Age
  /\ cmd' = [i \in Installers |-> [cmd[i] EXCEPT !.wait = IF @ = 0 THEN 0 ELSE @ - 1]]
  /\ UNCHANGED <<vars, pace, file, touched, mishaps>>

\* An admin blocks, unblocks or deletes a machine while it is installed.
Meddle(m) ==
  /\ Mine(m) # {} /\ Present(m)
  /\ Block(m) \/ Unblock(m) \/ DeleteMachine(m)
  /\ touched' = touched \cup {m}
  /\ Mishap
  /\ UNCHANGED <<hits, pace, cmd, file>>

HandOut(k, limit) ==
  /\ CreateKey(k, limit)
  /\ UNCHANGED <<hits, commandVars>>

Revoke(k) ==
  /\ EndKey(k)
  /\ Mishap
  /\ UNCHANGED <<hits, pace, cmd, file, touched>>

-----------------------------------------------------------------------------

CommandInit ==
  /\ Init
  /\ hits = NoHits
  /\ pace \in {"eager", "patient"}
  /\ cmd = [i \in Installers |-> [Stopped EXCEPT !.wait = 0]]
  /\ file = [i \in Installers |-> [state |-> "none", machine |-> Nobody, password |-> NoSecret]]
  /\ touched = {}
  /\ mishaps = 0

RunStep(i) ==
  \/ RegisterMachine(i)
  \/ Login(i)
  \/ Enroll(i)
  \/ TooManyRequests(i)
  \/ EnrollForbidden(i)
  \/ WriteFile(i)

Begin(i) ==
  \E p \in Passwords, k \in Keys : Start(i, p, k)

Serve(h) ==
  \/ Check(h)
  \/ LoginDone(h)
  \/ EnrollDone(h)

CommandNext ==
  \/ \E i \in Installers : Begin(i) \/ RunStep(i) \/ RegistrationFails(i) \/ Interrupt(i)
  \/ \E h \in Handlers : Serve(h) \/ ServerError(h)
  \/ \E m \in Machines : Meddle(m)
  \/ \E k \in Keys : Revoke(k) \/ \E limit \in Limits : HandOut(k, limit)
  \/ NewProcess
  \/ Tick

CommandSpec == CommandInit /\ [][CommandNext]_allVars

\* People run the command again until it has worked, runs and requests go on,
\* and so does the clock.
CommandFairness ==
  /\ \A i \in Installers : WF_allVars(Begin(i)) /\ WF_allVars(RunStep(i))
  /\ \A h \in Handlers : WF_allVars(Serve(h))
  /\ WF_allVars(Tick)

FairCommandSpec == CommandSpec /\ CommandFairness

-----------------------------------------------------------------------------
(* Properties                                                              *)

\* Type invariant.
CommandTypeOK ==
  /\ TypeOK
  /\ hits \in Seq(Nat) /\ Len(hits) <= Limit
  /\ pace \in {"eager", "patient"}
  /\ cmd \in [Installers -> Run]
  /\ file \in [Installers -> File]
  /\ touched \subseteq Machines
  /\ mishaps \in 0..MaxMishaps

\* A file that the command has written works, unless an admin has changed the
\* machine: no failure of a step between the registration and the enrollment
\* ends in credentials that do not (run of register.go).
FileWorks ==
  \A i \in Installers :
    file[i].state = "written" => Working(i) \/ file[i].machine \in touched

\* A request is in progress for the machine of the run that waits for it.
RequestsMatch ==
  \A i \in Installers :
    LET h == cmd[i].by
    IN h # NoHandler =>
         /\ \/ cmd[i].pc = "login" /\ (At(h, "login") \/ At(h, "issue"))
            \/ cmd[i].pc = "enroll" /\ (At(h, "enroll") \/ At(h, "validate"))
         /\ req[h].machine = cmd[i].machine

\* What a run has achieved so far is in the database, unless an admin undid it.
RunsAdvance ==
  \A i \in Installers :
    LET m == cmd[i].machine
    IN cmd[i].pc \in {"login", "enroll", "write"} =>
         \/ m \in touched
         \/ /\ Present(m) /\ password[m] = cmd[i].password
            /\ cmd[i].pc = "write" => status[m] = "validated"

\* Two runs never share a request or a machine, nor does a run share one with a
\* file: a run that replaces a file has a new machine, and an admin has changed
\* the one in the file.
RunsApart ==
  \A i, j \in Installers :
    LET Written(n) == file[n].state = "written"
    IN /\ cmd[i].by = cmd[j].by => i = j \/ cmd[i].by = NoHandler
       /\ Running(i) /\ Running(j) /\ cmd[i].machine = cmd[j].machine => i = j
       /\ Written(i) /\ Written(j) /\ file[i].machine = file[j].machine => i = j
       /\ Running(i) /\ Written(j) => cmd[i].machine # file[j].machine
       /\ Running(i) /\ Written(i) => file[i].machine \in touched

\* Runs for which a key has been used.
Finishing ==
  {i \in Installers : cmd[i].pc = "write"
                        \/ (cmd[i].by # NoHandler /\ At(cmd[i].by, "validate"))}

\* Files whose machine no admin has changed, runs whose machine one has, and
\* enrollments that nobody waits for and that may still use a key.
Untouched == {i \in Installers : file[i].state = "written" /\ file[i].machine \notin touched}
Spoilt == {i \in Installers : Running(i) /\ cmd[i].machine \in touched}
Orphans == {h \in Handlers : At(h, "enroll") /\ \A i \in Installers : cmd[i].by # h}

\* A mishap pays for a use in advance: the use an orphan will make, or the
\* installation that a spoilt run will not be.
UsesAccounted ==
  \A k \in Keys :
    key[k].uses + Cardinality(Orphans) + Cardinality(Spoilt)
      <= Cardinality(Untouched) + Cardinality(Finishing) + faults + mishaps

\* Inductive invariant: a run knows what the server has done for it, although
\* requests of interrupted runs are still being served; the uses of keys add up;
\* and the limiter counts the requests of the last window.
CommandInv ==
  /\ RequestsMatch
  /\ RunsAdvance
  /\ FileWorks
  /\ RunsApart
  /\ UsesAccounted
  /\ LimiterInv

\* Each use of a key is a working installation, a run about to be one, or one
\* mishap: this many uses are enough whatever the refusals and repeated runs.
UsesPaidFor ==
  LET installed == {i \in Installers : Working(i)}
  IN \A k \in Keys : key[k].uses <= Cardinality(installed) + Cardinality(Finishing)
                                      + faults + mishaps

\* The server behind the command is that of MachineLifecycle.
ServerIsLifecycle == Spec

\* Nobody is left without credentials for ever who waits a window between runs,
\* although registration and login share one limit (router.go:179-183), runs
\* fail half way, and every run leaves its machine behind.
EventuallyWorking ==
  \A i \in Installers, k \in Keys :
    (pace = "patient" /\ key[k].state = "live")
      ~> (Working(i) \/ key[k].state = "gone")

=============================================================================
