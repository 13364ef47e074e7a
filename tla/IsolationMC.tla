---------------------------- MODULE IsolationMC ----------------------------
(* Small instances of Isolation.  One unit of time is one period of the    *)
(* guard, or half of one in Isolation_safety.cfg; the other durations keep *)
(* the order they have in the code, where two of them may be equal here:   *)
(* period, freshness of the guard, contact timeout; and a grace.           *)
EXTENDS Isolation

OneChain == <<"IN">>
=============================================================================
