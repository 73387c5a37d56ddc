-------------------------- MODULE MCActionProposal --------------------------
(* Small instances of ActionProposal for TLC. *)
EXTENDS ActionProposal, TLC

\* Requests are interchangeable: no property names one.
Requests == Permutations(Request)
=============================================================================
