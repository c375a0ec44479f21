--------------------------- MODULE MCAuditService ---------------------------
EXTENDS AuditService
=============================================================================
