--------------------------- MODULE MCSignalIngest ---------------------------
(* Batches for the runs of SignalIngest.                                   *)
EXTENDS SignalIngest, TLC

CONSTANTS v1, v2, junk

MCValues == {v1, v2, junk}
MCValid == {v1, v2}

Stored(values) == [oversized |-> FALSE, decisions |-> values]
TooLong(values) == [oversized |-> TRUE, decisions |-> values]

\* The same value twice, an invalid one first, a skipped signal first, one
\* value in two signals, and a batch over the limit.
MCBatches == {
  <<Stored(<<v1, v1>>)>>,
  <<Stored(<<junk, v1>>)>>,
  <<TooLong(<<v1>>), Stored(<<v2, v1>>)>>,
  <<Stored(<<v1>>), Stored(<<v1>>), Stored(<<v1>>)>> }

Requests == Permutations(Handlers)

=============================================================================
