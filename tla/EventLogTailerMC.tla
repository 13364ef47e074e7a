-------------------------- MODULE EventLogTailerMC --------------------------
EXTENDS EventLogTailer
=============================================================================
