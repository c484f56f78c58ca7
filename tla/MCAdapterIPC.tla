---------------------------- MODULE MCAdapterIPC ----------------------------
\* AdapterIPC on a small instance.  No symmetry: a liveness property is
\* checked.
EXTENDS AdapterIPC

CONSTANTS c1, c2 \* model values for Callers
=============================================================================
