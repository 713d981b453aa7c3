----------------------------- MODULE RateLimiter -----------------------------
(***************************************************************************)
(* The sliding-window limiter of internal/api/router.go, for one key of    *)
(* its map: the address a request comes from (what middleware.RealIP and   *)
(* the cut at the last colon leave of it), or the machine a batch of       *)
(* signals is from.  It lives in the process, under a mutex.               *)
(*                                                                         *)
(* Of the times it keeps only their ages matter, in ticks of the clock.    *)
(* An entry that is Window old never counts again, so that it may as well  *)
(* go when it reaches that age as on the next call, where the code drops   *)
(* it.                                                                     *)
(***************************************************************************)
EXTENDS Naturals, Sequences, FiniteSets

CONSTANTS
  Limit,    \* requests let through in a window
  Window    \* its length

ASSUME LimiterAssumption == Limit \in Nat \ {0} /\ Window \in Nat \ {0}

VARIABLE hits   \* the ages of the entries, oldest first

NoHits == <<>>

\* Seeded bug: > in the place of >=.
AdmitOneMore == Len(hits) <= Limit /\ hits' = Append(hits, 0)

Admit == Len(hits) < Limit /\ hits' = Append(hits, 0)

\* A request that is refused leaves no entry.
Refuse == Len(hits) >= Limit /\ UNCHANGED hits

Expiring == {j \in DOMAIN hits : hits[j] = Window - 1}

\* Seeded bug: the slice of entries is never pruned.
AgeKept == hits' = [j \in DOMAIN hits |-> IF j \in Expiring THEN hits[j] ELSE hits[j] + 1]

\* A tick: the entries of an age are all behind those that are older.
Age ==
  LET older == [j \in DOMAIN hits |-> hits[j] + 1]
  IN hits' = SubSeq(older, Cardinality(Expiring) + 1, Len(hits))

\* Another process starts with an empty map.
Forget == hits' = NoHits

\* The entries are in the order they came in and none is as old as the window:
\* what Age cuts off in front is what the code's loop over all entries drops.
LimiterInv ==
  /\ \A j \in DOMAIN hits : hits[j] < Window
  /\ \A i, j \in DOMAIN hits : i < j => hits[j] <= hits[i]

=============================================================================
