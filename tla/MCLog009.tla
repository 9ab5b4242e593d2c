------------------------------ MODULE MCLog009 ------------------------------
EXTENDS Log009, TLC
=============================================================================
