-------------------------- MODULE MachineLifecycle --------------------------
(***************************************************************************)
(* The machines table and the enrollment keys: registration, login,        *)
(* enrollment, password reset and deregistration by agents                 *)
(* (internal/api/v2/watchers.go behind internal/auth/middleware.go), and   *)
(* the admin's block, unblock and delete (internal/api/admin).             *)
(*                                                                         *)
(* Every statement is atomic and no handler holds a transaction, so the    *)
(* row a request was authenticated against and the row it writes need not  *)
(* be the same.  A key without max_uses is one whose limit is not reached; *)
(* a key that was deleted or has expired is gone for good.                 *)
(***************************************************************************)
EXTENDS Naturals, FiniteSets

CONSTANTS
  Machines,    \* machine ids
  Passwords,
  Keys,        \* enrollment keys admins may hand out
  Limits,      \* max_uses an admin may choose
  Handlers,    \* requests that can be in progress at once
  MaxFaults    \* bound on failed statements and abandoned requests

ASSUME LimitsAssumption == Limits \subseteq Nat \ {0} /\ MaxFaults \in Nat
ASSUME HandlersAssumption == IsFiniteSet(Handlers)
ASSUME PopulationAssumption == Machines # {} /\ Passwords # {} /\ Keys # {}

VARIABLES
  status,     \* machines.status, "absent" when there is no row
  password,   \* machines.password_hash of the rows there are
  key,        \* the enrollment_keys rows
  tokens,     \* machine ids with a JWT that has not expired
  req,        \* the request each handler is working on
  enrolled,   \* observer: enrollments written on the strength of each key
  overtaken,  \* observer: requests whose machine was blocked since its check
  faults

machineVars == <<status, password>>
observerVars == <<enrolled, overtaken>>
vars == <<status, password, key, tokens, req, enrolled, overtaken, faults>>

KeyRow == [state : {"none", "live", "gone"}, limit : Limits \cup {0}, uses : Nat]
NoKey == [state |-> "none", limit |-> 0, uses |-> 0]

Nobody == CHOOSE m \in Machines : TRUE
NoSecret == CHOOSE p \in Passwords : TRUE
NoKeyId == CHOOSE k \in Keys : TRUE

Request == [pc : {"idle", "login", "issue", "enroll", "validate", "reset", "deregister"},
            machine : Machines, password : Passwords, key : Keys]
NoRequest == [pc |-> "idle", machine |-> Nobody, password |-> NoSecret, key |-> NoKeyId]

At(h, pc) == req[h].pc = pc
Present(m) == status[m] # "absent"

\* The check of the middleware and of the login handlers.
Unblocked(m) == status[m] \notin {"absent", "blocked"}

Done(h) ==
  /\ req' = [req EXCEPT ![h] = NoRequest]
  /\ overtaken' = overtaken \ {h}

-----------------------------------------------------------------------------
(* Agents                                                                  *)

\* Seeded bug: ON CONFLICT DO UPDATE.
RegisterOver(m, p) ==
  /\ status' = [status EXCEPT ![m] = IF @ = "absent" THEN "pending" ELSE @]
  /\ password' = [password EXCEPT ![m] = p]
  /\ UNCHANGED <<key, tokens, req, observerVars, faults>>

\* ON CONFLICT DO NOTHING: a machine id that is taken is left as it is.
Register(m, p) ==
  /\ ~Present(m)
  /\ status' = [status EXCEPT ![m] = "pending"]
  /\ password' = [password EXCEPT ![m] = p]
  /\ UNCHANGED <<key, tokens, req, observerVars, faults>>

LoginBegin(h, m, p) ==
  /\ At(h, "idle")
  /\ req' = [req EXCEPT ![h] = [NoRequest EXCEPT !.pc = "login", !.machine = m, !.password = p]]
  /\ UNCHANGED <<machineVars, key, tokens, observerVars, faults>>

\* One read of the row serves the password and the status check.
LoginCheck(h) ==
  /\ At(h, "login")
  /\ LET m == req[h].machine
     IN IF Unblocked(m) /\ password[m] = req[h].password
        THEN /\ req' = [req EXCEPT ![h].pc = "issue"]
             /\ UNCHANGED observerVars
        ELSE Done(h) /\ UNCHANGED enrolled
  /\ UNCHANGED <<machineVars, key, tokens, faults>>

\* The scenarios and last_seen_at are written, then the token is signed.
LoginIssue(h) ==
  /\ At(h, "issue")
  /\ tokens' = tokens \cup {req[h].machine}
  /\ Done(h)
  /\ UNCHANGED <<machineVars, key, enrolled, faults>>

\* Seeded bug: the middleware lets blocked machines through.
AuthenticateAny(h, m, pc, p, k) ==
  /\ At(h, "idle")
  /\ m \in tokens /\ Present(m)
  /\ req' = [req EXCEPT ![h] = [pc |-> pc, machine |-> m, password |-> p, key |-> k]]
  /\ UNCHANGED <<machineVars, key, tokens, observerVars, faults>>

\* JWTMiddleware: the token names the machine id and nothing else.
Authenticate(h, m, pc, p, k) ==
  /\ At(h, "idle")
  /\ m \in tokens /\ Unblocked(m)
  /\ req' = [req EXCEPT ![h] = [pc |-> pc, machine |-> m, password |-> p, key |-> k]]
  /\ UNCHANGED <<machineVars, key, tokens, observerVars, faults>>

EnrollBegin(h, m, k) == Authenticate(h, m, "enroll", NoSecret, k)
ResetBegin(h, m, p) == Authenticate(h, m, "reset", p, NoKeyId)
DeregisterBegin(h, m) == Authenticate(h, m, "deregister", NoSecret, NoKeyId)

\* Seeded bug: a key that was deleted or has expired still works.
UsableThoughGone(k) == key[k].state # "none" /\ key[k].uses < key[k].limit

\* Seeded bug: off by one in the limit.
UsableOnceMore(k) == key[k].state = "live" /\ key[k].uses <= key[k].limit

Usable(k) == key[k].state = "live" /\ key[k].uses < key[k].limit

\* Check and increment in one statement, or the request is refused.
UseKey(h) ==
  /\ At(h, "enroll")
  /\ LET k == req[h].key
     IN IF Usable(k)
        THEN /\ key' = [key EXCEPT ![k].uses = @ + 1]
             /\ req' = [req EXCEPT ![h].pc = "validate"]
             /\ UNCHANGED observerVars
        ELSE Done(h) /\ UNCHANGED <<key, enrolled>>
  /\ UNCHANGED <<machineVars, tokens, faults>>

\* UPDATE ... WHERE machine_id, whatever the status is by now; no row is no error.
EnrollMachine(h) ==
  /\ At(h, "validate")
  /\ LET m == req[h].machine
         k == req[h].key
     IN IF Present(m)
        THEN /\ status' = [status EXCEPT ![m] = "validated"]
             /\ enrolled' = [enrolled EXCEPT ![k] = @ + 1]
        ELSE UNCHANGED <<status, enrolled>>
  /\ Done(h)
  /\ UNCHANGED <<password, key, tokens, faults>>

UpdateMachinePassword(h) ==
  /\ At(h, "reset")
  /\ LET m == req[h].machine
     IN password' = [password EXCEPT ![m] = IF Present(m) THEN req[h].password ELSE @]
  /\ Done(h)
  /\ UNCHANGED <<status, key, tokens, enrolled, faults>>

Remove(m) ==
  /\ status' = [status EXCEPT ![m] = "absent"]
  /\ password' = [password EXCEPT ![m] = NoSecret]

DeleteSelf(h) ==
  /\ At(h, "deregister")
  /\ Remove(req[h].machine)
  /\ Done(h)
  /\ UNCHANGED <<key, tokens, enrolled, faults>>

TokenExpires(m) ==
  /\ tokens' = tokens \ {m}
  /\ UNCHANGED <<machineVars, key, req, observerVars, faults>>

\* A statement fails or the client goes away: the handler stops where it is.
Abandon(h) ==
  /\ faults < MaxFaults
  /\ ~At(h, "idle")
  /\ Done(h)
  /\ faults' = faults + 1
  /\ UNCHANGED <<machineVars, key, tokens, enrolled>>

-----------------------------------------------------------------------------
(* Admins                                                                  *)

Block(m) ==
  /\ Present(m)
  /\ status' = [status EXCEPT ![m] = "blocked"]
  /\ overtaken' = overtaken \cup {h \in Handlers : ~At(h, "idle") /\ req[h].machine = m}
  /\ UNCHANGED <<password, key, tokens, req, enrolled, faults>>

\* Also a machine that never enrolled comes out validated.
Unblock(m) ==
  /\ Present(m)
  /\ status' = [status EXCEPT ![m] = "validated"]
  /\ UNCHANGED <<password, key, tokens, req, observerVars, faults>>

\* Seeded bug: the row is kept with a status of its own.
DeleteMachineSoftly(m) ==
  /\ status' = [status EXCEPT ![m] = "deleted"]
  /\ UNCHANGED <<password, key, tokens, req, observerVars, faults>>

DeleteMachine(m) ==
  /\ Remove(m)
  /\ UNCHANGED <<key, tokens, req, observerVars, faults>>

CreateKey(k, limit) ==
  /\ key[k].state = "none"
  /\ key' = [key EXCEPT ![k] = [state |-> "live", limit |-> limit, uses |-> 0]]
  /\ UNCHANGED <<machineVars, tokens, req, observerVars, faults>>

\* Deleted by an admin, or past its expires_at.
EndKey(k) ==
  /\ key[k].state = "live"
  /\ key' = [key EXCEPT ![k].state = "gone"]
  /\ UNCHANGED <<machineVars, tokens, req, observerVars, faults>>

-----------------------------------------------------------------------------

Init ==
  /\ status = [m \in Machines |-> "absent"]
  /\ password = [m \in Machines |-> NoSecret]
  /\ key = [k \in Keys |-> NoKey]
  /\ tokens = {}
  /\ req = [h \in Handlers |-> NoRequest]
  /\ enrolled = [k \in Keys |-> 0]
  /\ overtaken = {}
  /\ faults = 0

Arrival(h) ==
  \E m \in Machines :
    \/ \E p \in Passwords : LoginBegin(h, m, p) \/ ResetBegin(h, m, p)
    \/ \E k \in Keys : EnrollBegin(h, m, k)
    \/ DeregisterBegin(h, m)

HandlerStep(h) ==
  \/ LoginCheck(h)
  \/ LoginIssue(h)
  \/ UseKey(h)
  \/ EnrollMachine(h)
  \/ UpdateMachinePassword(h)
  \/ DeleteSelf(h)

AdminStep ==
  \/ \E m \in Machines : Block(m) \/ Unblock(m) \/ DeleteMachine(m)
  \/ \E k \in Keys : EndKey(k) \/ \E limit \in Limits : CreateKey(k, limit)

Next ==
  \/ \E m \in Machines : TokenExpires(m) \/ \E p \in Passwords : Register(m, p)
  \/ \E h \in Handlers : Arrival(h) \/ HandlerStep(h) \/ Abandon(h)
  \/ AdminStep

Spec == Init /\ [][Next]_vars

-----------------------------------------------------------------------------
(* Properties                                                              *)

\* Type invariant.
TypeOK ==
  /\ status \in [Machines -> {"absent", "pending", "validated", "blocked"}]
  /\ password \in [Machines -> Passwords]
  /\ key \in [Keys -> KeyRow]
  /\ tokens \subseteq Machines
  /\ req \in [Handlers -> Request]
  /\ enrolled \in [Keys -> Nat]
  /\ overtaken \subseteq Handlers
  /\ faults \in 0..MaxFaults

Validating(k) == {h \in Handlers : At(h, "validate") /\ req[h].key = k}

\* However many requests present a key at once and wherever they fail, it
\* enrolls no more machines than its max_uses (GetEnrollmentKey, then
\* EnrollMachine, in two statements).
KeyBudget ==
  \A k \in Keys : enrolled[k] + Cardinality(Validating(k)) <= key[k].limit

\* A key has been used for every enrollment, done or about to be, and not more
\* often than it may be.
UsesCovered ==
  \A k \in Keys : /\ enrolled[k] + Cardinality(Validating(k)) <= key[k].uses
                  /\ key[k].uses <= key[k].limit
                  /\ key[k].state = "none" => key[k] = NoKey

\* A ticket is pending while a request has the use of a key and not yet the
\* enrollment.
Pending == [k \in Keys |-> Cardinality(Validating(k))]

Ledger == INSTANCE KeyLedger WITH
  limit <- [k \in Keys |-> key[k].limit],
  taken <- [k \in Keys |-> key[k].uses],
  pending <- Pending,
  spent <- enrolled,
  open <- {k \in Keys : key[k].state = "live"}

\* Whatever requests overlap, fail or find their machine deleted, and whatever
\* becomes of the key meanwhile, each enrollment is written against one use of
\* its own, counted while the key was live and under its limit, and no use is
\* ever given back (GetEnrollmentKey counts, EnrollMachine writes).
KeysAreTickets == Ledger!Spec

Authenticated(h) == ~At(h, "idle") /\ ~At(h, "login")

\* A request past its check whose machine is blocked has been overtaken.
BlocksNoticed ==
  \A h \in Handlers :
    Authenticated(h) /\ status[req[h].machine] = "blocked" => h \in overtaken

\* Inductive invariant: uses are taken before the enrollments they pay for, and
\* only a block can separate a request in progress from an unblocked machine.
LifecycleInv == UsesCovered /\ BlocksNoticed

\* An enrollment lifts a block only if the block came after the middleware had
\* let the request in (EnrollMachine's UPDATE does not look at the status).
BlockSticks ==
  [][\A h \in Handlers :
       /\ At(h, "validate") /\ req'[h] # req[h]
       /\ status[req[h].machine] = "blocked"
       /\ status'[req[h].machine] = "validated"
       => h \in overtaken]_vars

\* The password of a machine that is there changes only by a reset that was
\* authenticated as that machine, never by registering its id again (the
\* ON CONFLICT DO NOTHING of CreateMachine).
RegistrationKept ==
  [][\A m \in Machines :
       Present(m) /\ status'[m] # "absent" /\ password'[m] # password[m]
         => \E h \in Handlers : At(h, "reset") /\ req[h].machine = m /\ req'[h] # req[h]]_vars

=============================================================================
