---------------------------- MODULE MCAllowlists ----------------------------
(* Files for the runs of Allowlists.                                       *)
EXTENDS AllowlistRead

CONSTANTS a, b

\* Two orders of the same entries, and an older file with only one of them.
MCFiles == {<<a, b>>, <<b, a>>, <<a>>}

=============================================================================
