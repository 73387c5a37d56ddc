--------------------------- MODULE MCCardAccount ---------------------------
(* Small instances of CardAccount for TLC. *)
EXTENDS CardAccount, TLC

\* Calls, and the reference numbers of the network, are interchangeable.
Interchangeable == Permutations(Call) \cup Permutations(Rrn)
=============================================================================
