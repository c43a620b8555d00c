-------------------------------- MODULE Fdb --------------------------------
(***************************************************************************)
(* The forwarding database: what NetlinkBackend::fdb (netlink.rs) keeps of *)
(* the kernel's neighbour table, and the tables of BRIDGE-MIB and          *)
(* Q-BRIDGE-MIB (mib.rs) that show it.                                     *)
(*                                                                         *)
(* An entry of the kernel: [mac, multicast, vlan, dev, controller, own,    *)
(* state], where vlan may be None, own is the flag NTF_SELF of the port    *)
(* drivers' entries, and controller the bridge or None.                    *)
(***************************************************************************)
EXTENDS FiniteSets, FiniteSetsExt

CONSTANTS
    BridgeName,   \* BRIDGE_NAME
    NoVlan        \* the entry has no VLAN

\* Mutant of FdbEntries: the drivers' entries are not left out.
FdbEntriesOfDrivers(dump, names) ==
    IF BridgeName \notin names THEN {} ELSE
    { [mac |-> e.mac, vlan |-> e.vlan, port |-> e.dev,
       status |-> CASE e.state = "permanent" -> "self" [] e.state = "noarp" -> "mgmt"
                    [] OTHER -> "learned"] :
        e \in { d \in dump : /\ d.dev = BridgeName \/ d.controller = BridgeName
                             /\ ~d.multicast
                             /\ d.dev \in names } }

\* NetlinkBackend::fdb, with the names that the dump of the links had before.
FdbEntries(dump, names) ==
    IF BridgeName \notin names THEN {} ELSE
    { [mac |-> e.mac, vlan |-> e.vlan, port |-> e.dev,
       status |-> CASE e.state = "permanent" -> "self" [] e.state = "noarp" -> "mgmt"
                    [] OTHER -> "learned"] :
        e \in { d \in dump : /\ d.dev = BridgeName \/ (d.controller = BridgeName /\ ~d.own)
                             /\ ~d.multicast
                             /\ d.dev \in names } }

\* The number of a port; 0 for the bridge itself and ports not applied.
NumberOf(numbers, port) == IF port \in DOMAIN numbers THEN numbers[port] ELSE 0

Row(e, numbers) == [mac |-> e.mac, port |-> NumberOf(numbers, e.port), status |-> e.status]

\* bridge_xml, dot1dTpFdbTable: one row per address, of the entry that the kernel
\* happens to dump first.
TpFdbTables(fdb, numbers) ==
    { { Row(e, numbers) : e \in s } :
        s \in { t \in SUBSET fdb : /\ { e.mac : e \in t } = { e.mac : e \in fdb }
                                   /\ Cardinality(t) = Cardinality({ e.mac : e \in fdb }) } }

\* q_bridge_xml, dot1qFdbTable and dot1qTpFdbTable.
DynamicCount(fdb, v) == Cardinality({ e \in fdb : e.vlan = v /\ e.status = "learned" })
QTpFdbTable(fdb, numbers) ==
    { [vlan |-> e.vlan, row |-> Row(e, numbers)] : e \in { f \in fdb : f.vlan # NoVlan } }
=============================================================================
