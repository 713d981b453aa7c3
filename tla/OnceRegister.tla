---------------------------- MODULE OnceRegister ----------------------------
(***************************************************************************)
(* A register that is written once: somebody chooses its value, readers    *)
(* come to hold that value, forget it and read it again.  What             *)
(* GetOrCreateJWTSecret promises its callers.                              *)
(***************************************************************************)
CONSTANTS Readers, Values, NoValue

VARIABLES
  value,   \* the register, NoValue until it is written
  held     \* what each reader takes its value to be, NoValue if it has none

vars == <<value, held>>

Init ==
  /\ value = NoValue
  /\ held = [r \in Readers |-> NoValue]

Choose ==
  /\ value = NoValue
  /\ value' \in Values
  /\ UNCHANGED held

Read(r) ==
  /\ value # NoValue
  /\ held' = [held EXCEPT ![r] = value]
  /\ UNCHANGED value

Forget(r) ==
  /\ held' = [held EXCEPT ![r] = NoValue]
  /\ UNCHANGED value

Next ==
  \/ Choose
  \/ \E r \in Readers : Read(r) \/ Forget(r)

Spec == Init /\ [][Next]_vars

\* Whoever holds a value holds the one of the register.
Agreement == held \in [Readers -> {NoValue, value}]

\* A register that is written stays as it is.
WrittenOnce == [][value # NoValue => UNCHANGED value]_vars

=============================================================================
