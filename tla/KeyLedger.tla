------------------------------ MODULE KeyLedger ------------------------------
(***************************************************************************)
(* A ledger of tickets: what an enrollment key promises the admin who      *)
(* hands it out.  While a key is open, tickets are taken up to its limit;  *)
(* each is spent on one enrollment or lost, and none comes back.           *)
(***************************************************************************)
EXTENDS Naturals

CONSTANTS Keys, Limits

VARIABLES
  limit,     \* how many tickets a key has, 0 before it is issued
  open,      \* the keys whose tickets can be taken
  taken,     \* how many have been
  pending,   \* those taken and neither spent nor lost
  spent

vars == <<limit, open, taken, pending, spent>>

Init ==
  /\ limit = [k \in Keys |-> 0]
  /\ open = {}
  /\ taken = [k \in Keys |-> 0]
  /\ pending = [k \in Keys |-> 0]
  /\ spent = [k \in Keys |-> 0]

Issue(k) ==
  /\ limit[k] = 0
  /\ \E l \in Limits : limit' = [limit EXCEPT ![k] = l]
  /\ open' = open \cup {k}
  /\ UNCHANGED <<taken, pending, spent>>

Take(k) ==
  /\ k \in open
  /\ taken[k] < limit[k]
  /\ taken' = [taken EXCEPT ![k] = @ + 1]
  /\ pending' = [pending EXCEPT ![k] = @ + 1]
  /\ UNCHANGED <<limit, open, spent>>

Spend(k) ==
  /\ pending[k] > 0
  /\ pending' = [pending EXCEPT ![k] = @ - 1]
  /\ spent' = [spent EXCEPT ![k] = @ + 1]
  /\ UNCHANGED <<limit, open, taken>>

Lose(k) ==
  /\ pending[k] > 0
  /\ pending' = [pending EXCEPT ![k] = @ - 1]
  /\ UNCHANGED <<limit, open, taken, spent>>

\* Tickets that are out stay good.
Close(k) ==
  /\ k \in open
  /\ open' = open \ {k}
  /\ UNCHANGED <<limit, taken, pending, spent>>

Next == \E k \in Keys : Issue(k) \/ Take(k) \/ Spend(k) \/ Lose(k) \/ Close(k)

Spec == Init /\ [][Next]_vars

=============================================================================
