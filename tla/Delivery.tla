------------------------------ MODULE Delivery ------------------------------
(***************************************************************************)
(* What the agent's pipeline promises of each line, and no more: a line is *)
(* held from the moment it is captured, it may be accepted any number of   *)
(* times while it is held, and once it has left it never comes back.  What *)
(* leaves was accepted or given up.  EventPipeline implements this with a  *)
(* buffer, threads that retry, and a spool of bounded size.                *)
(***************************************************************************)
CONSTANT Items

VARIABLES
    offered,   \* lines captured so far
    held,      \* lines the agent still has somewhere
    accepted,  \* lines the backend has taken
    abandoned  \* lines the agent has given up, at least one copy of them

vars == <<offered, held, accepted, abandoned>>

Init == offered = {} /\ held = {} /\ accepted = {} /\ abandoned = {}

Offer(item) ==
    /\ item \in Items \ offered
    /\ offered' = offered \cup {item}
    /\ held' = held \cup {item}
    /\ UNCHANGED <<accepted, abandoned>>

(* Some of the lines held are accepted, some are given up, and some leave. *)
Advance(taken, given, gone) ==
    /\ accepted' = accepted \cup taken
    /\ abandoned' = abandoned \cup given
    /\ gone \subseteq accepted' \cup abandoned'
    /\ held' = held \ gone
    /\ UNCHANGED offered

Next ==
    \/ \E item \in Items : Offer(item)
    \/ \E taken, given, gone \in SUBSET held : Advance(taken, given, gone)

Spec == Init /\ [][Next]_vars
=============================================================================
