--------------------------- MODULE RemediationMC ---------------------------
(* Small instances of Remediation.  Two orders are enough for a replay (the *)
(* second one purges the nonce of the first) and for a duplicate rule.     *)
EXTENDS Remediation
=============================================================================
