--------------------------- MODULE MCAuditService ---------------------------
(* AuditService with one request, whose events overflow a queue of two. *)
EXTENDS AuditService

CONSTANT r1

OneRequest == {r1}
=============================================================================
