----------------------------- MODULE MCSmpFifo -----------------------------
EXTENDS SmpFifo
============================================================================
