------------------------------- MODULE Kernel -------------------------------
(***************************************************************************)
(* The part of the kernel that the plugin changes, as observe reports it   *)
(* (ActualState) and as the operations change it: translated from FakeNet, *)
(* the model of the kernel that the repository tests its plans against.    *)
(*                                                                         *)
(* A kernel k is a record:                                                 *)
(*   links   function from the names of the links that exist to            *)
(*           [kind, up, master]                                            *)
(*   vlans   for every name, the bridge VLAN entries: a function from      *)
(*           VLAN ids to their flags                                       *)
(*   static  for every name, its permanent addresses                       *)
(*   dhcp    for every name, its addresses with a lifetime                 *)
(* An operation is a tuple that starts with its name.                      *)
(***************************************************************************)
EXTENDS Naturals, FiniteSets, Functions

CONSTANTS
    Names,    \* link names
    NoLink    \* no master, no conduit

Br == "br-lan"    \* BRIDGE_NAME

\* VlanFlags
Access == [pvid |-> TRUE, untagged |-> TRUE]
Tagged == [pvid |-> FALSE, untagged |-> FALSE]

\* LinkKind
Dsa(conduit) == [type |-> "dsa", conduit |-> conduit]
Bridge(filtering, pvid, mst, stp) ==
    [type |-> "bridge", filtering |-> filtering, pvid |-> pvid, mst |-> mst, stp |-> stp]
Vlan(parent, id) == [type |-> "vlan", parent |-> parent, id |-> id]
Other == [type |-> "other"]

\* A new link.
Link(kind) == [kind |-> kind, up |-> FALSE, master |-> NoLink]

NoVlans == [v \in {} |-> Access]

Flags == [pvid : BOOLEAN, untagged : BOOLEAN]
Kinds ==
    [type : {"dsa"}, conduit : Names \cup {NoLink}]
    \cup [ type : {"bridge"}, filtering : BOOLEAN, pvid : Nat, mst : BOOLEAN,
           stp : {"off", "kernel", "user"} ]
    \cup [type : {"vlan"}, parent : Names, id : Nat]
    \cup {Other}
Attributes == [kind : Kinds, up : BOOLEAN, master : Names \cup {NoLink}]
AreEntries(vlans) == DOMAIN vlans \subseteq Nat /\ vlans \in [DOMAIN vlans -> Flags]

Exists(k, n) == n \in DOMAIN k.links
IsKind(k, n, type) == Exists(k, n) /\ k.links[n].kind.type = type
IsVlanOf(k, n, parent) == IsKind(k, n, "vlan") /\ k.links[n].kind.parent = parent
PortsOf(k, b) == { n \in DOMAIN k.links : k.links[n].master = b }

\* switch_ports
SwitchPorts(k) == { n \in DOMAIN k.links : k.links[n].kind.type = "dsa" }

\* ActualState
HasFields(k) ==
    /\ k = [links |-> k.links, vlans |-> k.vlans, static |-> k.static, dhcp |-> k.dhcp]
    /\ DOMAIN k.links \subseteq Names
    /\ k.links \in [DOMAIN k.links -> Attributes]
    /\ k.vlans = [n \in Names |-> k.vlans[n]]
    /\ \A n \in Names : AreEntries(k.vlans[n])
    /\ k.static \in [Names -> SUBSET Nat]
    /\ k.dhcp \in [Names -> SUBSET Nat]

\* No address is both; links that do not exist have neither entries nor addresses,
\* nor has a switch port entries without a master; what is a master, or has VLAN
\* links on it, exists, and no link is its own master.
IsKernel(k) ==
    /\ HasFields(k)
    /\ \A n \in Names : k.static[n] \cap k.dhcp[n] = {}
    /\ \A n \in Names \ DOMAIN k.links :
          k.vlans[n] = NoVlans /\ k.static[n] = {} /\ k.dhcp[n] = {}
    /\ \A n \in SwitchPorts(k) : k.links[n].master = NoLink => k.vlans[n] = NoVlans
    /\ \A n \in DOMAIN k.links :
          LET m == k.links[n].master
          IN  m # NoLink => /\ IsKind(k, m, "bridge") \/ (IsKind(k, m, "other") /\ m # Br)
                            /\ m # n
    /\ \A n \in DOMAIN k.links :
          LET kind == k.links[n].kind
          IN  kind.type = "vlan" => Exists(k, kind.parent) /\ ~IsKind(k, kind.parent, "vlan")

\* The PVIDs of a device: its untagged frames belong to that VLAN.
Pvids(k, n) == { v \in DOMAIN k.vlans[n] : k.vlans[n][v].pvid }

-----------------------------------------------------------------------------
AddLink(k, n, kind) ==
    [k EXCEPT !.links = [m \in DOMAIN k.links \cup {n} |->
                            IF m = n THEN Link(kind) ELSE k.links[m]]]

\* The entries that dropping the default PVID leaves on port n.
WithoutDefault(k, b, n) ==
    LET old == k.links[b].kind.pvid
    IN  Restrict(k.vlans[n],
                 { v \in DOMAIN k.vlans[n] : v = old /\ old # 0 => k.vlans[n][v] # Access })

\* A link goes with the VLAN links on it, and its ports lose it as master.
\* Links on top of VLAN links are not modelled.
WithoutLink(k, n) ==
    LET gone == {n} \cup { m \in DOMAIN k.links : IsVlanOf(k, m, n) }
        ports == PortsOf(k, n)
    IN  [ links |-> [m \in DOMAIN k.links \ gone |->
                        IF m \in ports THEN [k.links[m] EXCEPT !.master = NoLink]
                                       ELSE k.links[m]],
          vlans |-> [m \in Names |->
                        IF m \in gone \cup ports THEN NoVlans ELSE k.vlans[m]],
          static |-> [m \in Names |-> IF m \in gone THEN {} ELSE k.static[m]],
          dhcp |-> [m \in Names |-> IF m \in gone THEN {} ELSE k.dhcp[m]] ]

\* A VLAN entry; a new PVID takes that flag from the entry that had it.
WithVlan(entries, vid, flags) ==
    [ v \in DOMAIN entries \cup {vid} |->
        IF v = vid THEN flags
        ELSE IF flags.pvid THEN [entries[v] EXCEPT !.pvid = FALSE]
        ELSE entries[v] ]

\* Whether the kernel carries out op.
Accepts(k, op) ==
    CASE op[1] = "CreateBridge" -> ~Exists(k, op[2])
      [] op[1] = "ConfigureBridge" ->
            /\ IsKind(k, op[2], "bridge")
            /\ k.links[op[2]].kind.mst
                  \/ \A n \in PortsOf(k, op[2]) : WithoutDefault(k, op[2], n) = NoVlans
      [] op[1] = "SetBridgeStp" -> IsKind(k, op[2], "bridge")
      [] op[1] = "DeleteLink" -> Exists(k, op[2])
      [] op[1] = "CreateVlan" -> ~Exists(k, op[2]) /\ Exists(k, Br)
      [] op[1] = "SetMaster" ->
            /\ Exists(k, op[2])
            /\ op[3] = NoLink \/ IsKind(k, op[3], "bridge")
      [] op[1] = "SetUp" -> Exists(k, op[2])
      [] op[1] = "AddBridgeVlan" ->
            /\ Exists(k, op[2])
            /\ IsKind(k, op[2], "bridge") \/ k.links[op[2]].master # NoLink
      [] op[1] = "DelBridgeVlan" -> op[3] \in DOMAIN k.vlans[op[2]]
      [] op[1] = "AddAddress" ->
            Exists(k, op[2]) /\ op[3] \notin k.dhcp[op[2]] \cup k.static[op[2]]
      [] op[1] = "DelAddress" -> op[3] \in k.dhcp[op[2]] \cup k.static[op[2]]

\* The kernel after op, which it accepts.
Apply(k, op) ==
    CASE op[1] = "CreateBridge" -> AddLink(k, op[2], Bridge(TRUE, 0, TRUE, "off"))
      [] op[1] = "ConfigureBridge" ->
            [k EXCEPT !.links[op[2]].kind = Bridge(TRUE, 0, TRUE, @.stp),
                      !.vlans = [n \in Names |->
                          IF n \in PortsOf(k, op[2]) THEN WithoutDefault(k, op[2], n)
                                                     ELSE k.vlans[n]]]
      [] op[1] = "SetBridgeStp" ->
            [k EXCEPT !.links[op[2]].kind.stp = IF op[3] THEN "user" ELSE "off"]
      [] op[1] = "DeleteLink" -> WithoutLink(k, op[2])
      [] op[1] = "CreateVlan" -> AddLink(k, op[2], Vlan(Br, op[3]))
      [] op[1] = "SetMaster" ->
            LET pvid == IF op[3] = NoLink THEN 0 ELSE k.links[op[3]].kind.pvid
            IN  [k EXCEPT !.links[op[2]].master = op[3],
                          !.vlans[op[2]] = IF pvid = 0 THEN NoVlans
                                                       ELSE [v \in {pvid} |-> Access]]
      [] op[1] = "SetUp" -> [k EXCEPT !.links[op[2]].up = op[3]]
      [] op[1] = "AddBridgeVlan" ->
            [k EXCEPT !.vlans[op[2]] = WithVlan(@, op[3], op[4])]
      [] op[1] = "DelBridgeVlan" ->
            [k EXCEPT !.vlans[op[2]] = Restrict(@, DOMAIN @ \ {op[3]})]
      [] op[1] = "AddAddress" -> [k EXCEPT !.static[op[2]] = @ \cup {op[3]}]
      [] op[1] = "DelAddress" ->
            [k EXCEPT !.static[op[2]] = @ \ {op[3]}, !.dhcp[op[2]] = @ \ {op[3]}]

\* The kernels that an operation may leave that reports an error: it was
\* rejected, its acknowledgement was not received, or, of the requests that
\* hand spanning tree over, only some were answered.
AfterFailure(k, op) ==
    {k} \cup (IF Accepts(k, op) THEN {Apply(k, op)} ELSE {})
        \cup (IF Accepts(k, op) /\ op[1] = "SetBridgeStp" /\ op[3]
              THEN { [k EXCEPT !.links[op[2]].kind.stp = x] : x \in {"off", "kernel"} }
              ELSE {})
=============================================================================
