--------------------------- MODULE MCFraudAlerts ---------------------------
(* Small instances of FraudAlerts for TLC. *)
EXTENDS FraudAlerts, TLC

\* Calls, and the reference numbers of the network, are interchangeable.
Interchangeable == Permutations(Call) \cup Permutations(Rrn)
=============================================================================
