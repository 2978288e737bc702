----------------------------- MODULE MCAuditLog -----------------------------
(* A log of a few entries with two failures. *)
EXTENDS AuditLog
=============================================================================
