----------------------------- MODULE MCAr2Fault -----------------------------
EXTENDS Ar2Fault
=============================================================================
