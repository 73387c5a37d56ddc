---------------------------- MODULE MCAuditRelay ----------------------------
(* Small instances of AuditRelay for TLC. *)
EXTENDS AuditRelay
=============================================================================
