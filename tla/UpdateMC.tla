------------------------------ MODULE UpdateMC ------------------------------
EXTENDS Update
=============================================================================
