---------------------------- MODULE FileTailerMC ----------------------------
EXTENDS FileTailer
=============================================================================
