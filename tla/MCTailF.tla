------------------------------ MODULE MCTailF ------------------------------
EXTENDS TailF
=============================================================================
