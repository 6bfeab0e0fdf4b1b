---------------------------- MODULE MCAuditChain ----------------------------
(* AuditChain on two or three writers, for TLC. *)
EXTENDS AuditChain

=============================================================================
