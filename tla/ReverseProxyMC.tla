--------------------------- MODULE ReverseProxyMC ---------------------------
(* A small instance of ReverseProxy.  Two orders are enough for a pass that *)
(* outlives its order to meet the next one.                                *)
EXTENDS ReverseProxy
=============================================================================
