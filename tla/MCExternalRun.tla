----------------------------- MODULE MCExternalRun -----------------------------
EXTENDS ExternalRun, TLC
=============================================================================
