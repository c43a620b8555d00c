---------------------------- MODULE SwitchModel ----------------------------
(***************************************************************************)
(* desired_state (switch-model/src/lib.rs): VLANs, ports and routed VLAN   *)
(* interfaces, from the configuration to what Plan turns into operations.  *)
(*                                                                         *)
(* A configuration c is a record:                                          *)
(*   mode    switch vlan-mode                                              *)
(*   vlans   function from the ids of /vlans to [name, status]             *)
(*   groups  function from the ids of /port-based-vlans to [name, ports]   *)
(*   ifs     function from interface names to [type, enabled, switched,    *)
(*           routed], of which switched is None or [mode, access, native,  *)
(*           trunk] and routed None or [vlan, addresses, dhcp]             *)
(* A trunk entry is <<"id", id, id>> or <<"range", low, high>>.  The vlan  *)
(* of an SVI is <<"id", id>> or <<"name", name>>.  An address is           *)
(* <<address, prefix length>>.  Lists with a key are functions: YANG keeps *)
(* keys unique.                                                            *)
(***************************************************************************)
EXTENDS Leaves, Integers

CONSTANTS
    ValidNames    \* the names Linux accepts for an interface (check_ifname)

Br == "br-lan"    \* BRIDGE_NAME

\* Config and what it holds, of what is here.
IsSwitchConfig(c) ==
    /\ DOMAIN c = {"mode", "vlans", "groups", "ifs"}
    /\ DOMAIN c.vlans \cup DOMAIN c.groups \subseteq 0..65535
    /\ \A n \in DOMAIN c.ifs :
          /\ c.ifs[n].enabled \in Opt(BOOLEAN)
          /\ c.ifs[n].switched # None
                => {c.ifs[n].switched.access, c.ifs[n].switched.native} \ {None} \subseteq 0..65535
          /\ c.ifs[n].routed # None
                => /\ c.ifs[n].routed.dhcp \in Opt(BOOLEAN)
                   /\ \A a \in c.ifs[n].routed.addresses : a[2] \in Opt(0..255)

-----------------------------------------------------------------------------
(***************************************************************************)
(* The VLANs that ports and SVIs may use.                                  *)
(***************************************************************************)

\* check_vlan_id
IsVlanId(id) == id \in 1..4094

OfType(c, t) == { n \in DOMAIN c.ifs : c.ifs[n].type = t }

\* Domain.vlans: with VLANs of a bad id left out, whose error rejects c anyway.
DomainVlans(c) ==
    IF c.mode = "PORT_BASED"
    THEN [ id \in { g \in DOMAIN c.groups : IsVlanId(g) } |->
            [name |-> c.groups[id].name, active |-> TRUE] ]
    ELSE [ id \in { v \in DOMAIN c.vlans : IsVlanId(v) } |->
            [name |-> c.vlans[id].name, active |-> c.vlans[id].status # "SUSPENDED"] ]

\* Domain::declared and Domain::active
Declared(c, id) == id \in DOMAIN DomainVlans(c)
Active(c, id) == Declared(c, id) /\ DomainVlans(c)[id].active

\* dot1q_vlans reports no error.
Dot1qOk(c) ==
    /\ DOMAIN c.groups = {}
    /\ \A id \in DOMAIN c.vlans :
          IsVlanId(id) /\ c.vlans[id].status \in {None, "ACTIVE", "SUSPENDED"}

\* port_groups reports no error.
GroupsOk(c, ports) ==
    /\ DOMAIN c.vlans = {}
    /\ \A id \in DOMAIN c.groups :
          IsVlanId(id) /\ c.groups[id].ports \subseteq OfType(c, "ethernetCsmacd") \cap ports
    /\ \A g, h \in DOMAIN c.groups :
          g # h => c.groups[g].ports \cap c.groups[h].ports = {}

GroupsOf(c, n) == { id \in DOMAIN c.groups : n \in c.groups[id].ports }

-----------------------------------------------------------------------------
(***************************************************************************)
(* Ports.                                                                  *)
(***************************************************************************)

\* trunk_entry: the VLANs of an entry, and whether it is one.
TrunkEntryOk(c, e) ==
    IF e[1] = "id" THEN Declared(c, e[2])
                   ELSE IsVlanId(e[2]) /\ IsVlanId(e[3]) /\ e[2] < e[3]
EntryVlans(c, e) == { v \in DOMAIN DomainVlans(c) : e[2] <= v /\ v <= e[3] }

\* switched_vlans reports no error.
SwitchedOk(c, s) ==
    CASE s.mode \in {None, "ACCESS"} ->
            /\ s.access # None /\ Declared(c, s.access)
            /\ s.native = None /\ s.trunk = {}
      [] s.mode = "TRUNK" ->
            /\ s.access = None
            /\ s.native # None => Declared(c, s.native)
            /\ \A e \in s.trunk : TrunkEntryOk(c, e)
      [] OTHER -> FALSE

\* switched_vlans: suspended VLANs are left out.
OrNone(c, id) == IF id # None /\ Active(c, id) THEN id ELSE None
Native(c, s) == OrNone(c, IF s.mode = "TRUNK" THEN s.native ELSE s.access)

\* Mutant of TaggedVlans: suspended VLANs stay tagged.
TaggedVlansSuspended(c, s) ==
    IF s.mode # "TRUNK" THEN {}
    ELSE { v \in DOMAIN DomainVlans(c) \ {s.native} :
            s.trunk = {} \/ \E e \in s.trunk : v \in EntryVlans(c, e) }

TaggedVlans(c, s) ==
    IF s.mode # "TRUNK" THEN {}
    ELSE { v \in DOMAIN DomainVlans(c) \ {s.native} :
            Active(c, v) /\ (s.trunk = {} \/ \E e \in s.trunk : v \in EntryVlans(c, e)) }

\* port reports no error.
PortOk(c, ports, n) ==
    LET i == c.ifs[n]
    IN  /\ n \in ports
        /\ i.routed = None
        /\ IF c.mode = "PORT_BASED"
           THEN i.switched = None /\ GroupsOf(c, n) # {}
           ELSE i.switched # None /\ SwitchedOk(c, i.switched)

\* `enabled` is true unless it is set.
Enabled(i) == OrElse(i.enabled, TRUE)

Port(c, n) ==
    LET i == c.ifs[n]
    IN  IF c.mode = "PORT_BASED"
        THEN [ enabled |-> Enabled(i), native |-> CHOOSE g \in GroupsOf(c, n) : TRUE,
               tagged |-> {} ]
        ELSE [ enabled |-> Enabled(i), native |-> Native(c, i.switched),
               tagged |-> TaggedVlans(c, i.switched) ]

-----------------------------------------------------------------------------
(***************************************************************************)
(* SVIs.                                                                   *)
(***************************************************************************)

\* The VLANs an SVI names, by id or (vlan_by_name) by name: it must be one.
SviVlans(c, v) ==
    IF v = None THEN {}
    ELSE IF v[1] = "id" THEN {v[2]} \cap DOMAIN DomainVlans(c)
    ELSE { id \in DOMAIN DomainVlans(c) : DomainVlans(c)[id].name = v[2] }

\* svi reports no error.
SviOk(c, ports, n) ==
    LET i == c.ifs[n]
    IN  /\ n \in ValidNames
        /\ n # Br /\ n \notin ports
        /\ i.switched = None
        /\ i.routed # None
        /\ \E v \in SviVlans(c, i.routed.vlan) : SviVlans(c, i.routed.vlan) = {v}
        /\ \A a \in i.routed.addresses : a[1] # None /\ a[2] \in 0..32

Svi(c, n) ==
    LET i == c.ifs[n]
    IN  [ enabled |-> Enabled(i),
          vlan |-> CHOOSE v \in SviVlans(c, i.routed.vlan) : TRUE,
          addresses |-> i.routed.addresses,
          dhcp |-> OrElse(i.routed.dhcp, FALSE) ]

-----------------------------------------------------------------------------
(***************************************************************************)
(* The desired state, and the checks that relate interfaces.               *)
(***************************************************************************)

\* DesiredState, Port and Svi, of what is here.
IsDesiredSwitch(d) ==
    /\ \A n \in DOMAIN d.ports :
          /\ d.ports[n].enabled \in BOOLEAN
          /\ d.ports[n].native \in Opt(1..4094)
          /\ d.ports[n].tagged \subseteq 1..4094
    /\ \A n \in DOMAIN d.svis :
          /\ d.svis[n].vlan \in 1..4094
          /\ {d.svis[n].enabled, d.svis[n].dhcp} \subseteq BOOLEAN
          /\ \A a \in d.svis[n].addresses : a[2] \in 0..32
    /\ d.suspended \subseteq 1..4094

DesiredSwitch(c) ==
    [ ports |-> [n \in OfType(c, "ethernetCsmacd") |-> Port(c, n)],
      svis |-> [n \in OfType(c, "l3ipvlan") |-> Svi(c, n)],
      suspended |-> { v \in DOMAIN DomainVlans(c) : ~Active(c, v) } ]

\* check_unique_vlans
UniqueVlans(d) ==
    \A m, n \in DOMAIN d.svis : m # n => d.svis[m].vlan # d.svis[n].vlan

\* check_unique_addresses
UniqueAddresses(d) ==
    \A m, n \in DOMAIN d.svis : m # n =>
        \A a \in d.svis[m].addresses, b \in d.svis[n].addresses : a[1] # b[1]

\* check_single_dhcp_client
SingleDhcpClient(d) ==
    \A m, n \in DOMAIN d.svis : d.svis[m].dhcp /\ d.svis[n].dhcp => m = n

\* desired_state reports no error, of what is here.
SwitchValid(c, ports) ==
    /\ c.mode \in {None, "DOT1Q", "PORT_BASED"}
    /\ IF c.mode = "PORT_BASED" THEN GroupsOk(c, ports) ELSE Dot1qOk(c)
    /\ \A n \in DOMAIN c.ifs : c.ifs[n].type \in {"ethernetCsmacd", "l3ipvlan"}
    /\ \A n \in OfType(c, "ethernetCsmacd") : PortOk(c, ports, n)
    /\ \A n \in OfType(c, "l3ipvlan") : SviOk(c, ports, n)
    /\ LET d == DesiredSwitch(c)
       IN  UniqueVlans(d) /\ UniqueAddresses(d) /\ SingleDhcpClient(d)
=============================================================================
