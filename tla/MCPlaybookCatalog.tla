------------------------- MODULE MCPlaybookCatalog -------------------------
(* Small instances of PlaybookCatalog for TLC. *)
EXTENDS PlaybookCatalog, TLC

\* Callers are interchangeable.
Interchangeable == Permutations(Caller)
=============================================================================
