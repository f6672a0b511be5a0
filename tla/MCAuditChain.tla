---------------------------- MODULE MCAuditChain ----------------------------
EXTENDS AuditChain, TLC
=============================================================================
