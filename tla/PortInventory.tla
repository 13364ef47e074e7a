--------------------------- MODULE PortInventory ---------------------------
(***************************************************************************)
(* The inventory of listening ports (port_inventory.py).  The listing of the *)
(* system has one row per socket; an address is one of those the code tells  *)
(* apart, a row may be too short to be read.                                *)
(***************************************************************************)
EXTENDS Integers, FiniteSets

CONSTANTS
    PortNumbers,
    ListenAddresses,
    LocalOnly       \* the addresses that begin with 127., [::1] or ::1

Everywhere == {"0.0.0.0", "*", "::", "[::]"}
ASSUME PortInventoryAssumption == LocalOnly \cap Everywhere = {}

SensitivePorts == {3306, 5432, 6379, 27017, 9200, 11211, 5984, 9300, 2375, 2376, 6443, 5601}
Rows == [port : PortNumbers, address : ListenAddresses, listening : BOOLEAN,
         legible : BOOLEAN, process : {"", "x"}]

\* Mutant: an address of an interface is not exposed.
IsExposedEverywhere(address) == address \in Everywhere
\* _is_exposed: the prefixes 127., [::1] and ::1 are local.
IsExposed(address) == address \in Everywhere \/ address \notin LocalOnly

Entry(row) ==
    [port |-> row.port, address |-> row.address, process |-> row.process,
     exposed |-> IsExposed(row.address), sensitive |-> row.port \in SensitivePorts]

\* _parse_ss and _parse_netstat_windows: rows of the protocol that listen.
Parsed(rows) == {Entry(row) : row \in {r \in rows : r.listening /\ r.legible}}

\* One entry per port and address; of several, the last one stays.
Deduplicated(entries) ==
    {kept \in SUBSET entries :
        /\ \A e \in entries : \E k \in kept : k.port = e.port /\ k.address = e.address
        /\ \A k, l \in kept : k.port = l.port /\ k.address = l.address => k = l}

\* The listing failed, or its tool is absent: no port at all.
Listings(rows) == {rows, {}}

Inventory(entries) ==
    LET exposed == {e \in entries : e.exposed}
        sensitive == {e \in exposed : e.sensitive}
    IN  [ports |-> entries, exposed_count |-> Cardinality(exposed),
         sensitive_exposed |-> {e.port : e \in sensitive},
         severity |-> IF sensitive = {} THEN "info" ELSE "warning"]

=============================================================================
