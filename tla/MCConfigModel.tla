---------------------------- MODULE MCConfigModel ----------------------------
(***************************************************************************)
(* Instance of ConfigModel for TLC.  Right and wrong values of each part   *)
(* are combined with each other, while the other parts are plain, on a     *)
(* switch that has lan1 and may lose or gain lan2.                         *)
(***************************************************************************)
EXTENDS ConfigModel, TLC

\* Functions from some of D to V.
Partial(D, V) == UNION { [S -> V] : S \in SUBSET D }

If(type, switched, routed) ==
    [type |-> type, enabled |-> None, switched |-> switched, routed |-> routed]
Switched(mode, access, native, trunk) ==
    If("ethernetCsmacd",
       [mode |-> mode, access |-> access, native |-> native, trunk |-> trunk], None)
Routed(vlan, addresses, dhcp) ==
    If("l3ipvlan", None, [vlan |-> vlan, addresses |-> addresses, dhcp |-> dhcp])

MCVlans ==
    Partial({1, 2}, { [name |-> "office", status |-> "ACTIVE"],
                      [name |-> "lab", status |-> "SUSPENDED"] })
    \cup { (4094 :> [name |-> None, status |-> None]),
           (4095 :> [name |-> None, status |-> None]),
           (1 :> [name |-> "lab", status |-> "SHUTDOWN"]) }

Group(ps) == [name |-> "lab", ports |-> ps]
MCGroups ==
    Partial({1, 2}, { Group({"lan1"}), Group({"lan2"}), Group({"lan1", "lan2"}) })
    \cup { (0 :> Group({"lan1"})), (1 :> Group({"vlan10"})) }

\* A port in port-based mode, access ports and trunks.
MCPorts ==
    { If("ethernetCsmacd", None, None),
      Switched("ACCESS", 1, None, {}),
      Switched(None, 2, None, {}),
      Switched("TRUNK", None, 1, {}),
      Switched("TRUNK", None, 2, {<<"id", 1, 1>>}),
      Switched("TRUNK", None, None, {<<"range", 1, 2>>, <<"id", 4094, 4094>>}),
      Switched("TRUNK", None, 1, {<<"range", 1, 4094>>}) }

\* Ports and SVIs with one mistake each.
MCWrong ==
    { Switched("ACCESS", 1, 2, {}), Switched("ACCESS", None, None, {}),
      Switched("TRUNK", 1, None, {}), Switched("MIRROR", 1, None, {}),
      Switched("TRUNK", None, None, {<<"range", 2, 2>>}),
      Switched("TRUNK", None, None, {<<"range", 1, 4095>>}),
      If("ethernetCsmacd", None, [vlan |-> <<"id", 1>>, addresses |-> {}, dhcp |-> None]),
      If("softwareLoopback", None, None),
      Routed(None, {}, None), Routed(<<"id", 1>>, {<<"a", 33>>}, None) }

MCSvis ==
    { Routed(<<"id", 1>>, {<<"a", 24>>}, TRUE),
      Routed(<<"id", 2>>, {<<"a", 25>>}, None),
      Routed(<<"name", "lab">>, {}, TRUE) }

MCInterfaces ==
    { f @@ g : f \in Partial({"lan1", "lan2"}, MCPorts), g \in Partial({"vlan10"}, MCSvis) }
    \cup [{"vlan10", "vlan20"} -> MCSvis]
    \cup { (n :> i) : n \in {"lan1", "vlan10"}, i \in MCWrong }
    \cup { (n :> Routed(<<"id", 1>>, {}, None)) : n \in {"lan1", "br-lan", "a/b"} }

MCSwitches ==
    [mode : {"DOT1Q"}, vlans : MCVlans, groups : {<<>>}, ifs : MCInterfaces]
    \cup [mode : {"PORT_BASED"}, vlans : {<<>>}, groups : MCGroups, ifs : MCInterfaces]
    \cup [mode : {None, "DOT1Q", "PORT_BASED", "ASYMMETRIC"},
          vlans : {<<>>, (1 :> [name |-> None, status |-> None])},
          groups : {<<>>, (1 :> Group({"lan1"}))},
          ifs : {<<>>, ("lan1" :> If("ethernetCsmacd", None, None)),
                 ("lan1" :> Switched("ACCESS", 1, None, {}))}]

-----------------------------------------------------------------------------
Entry(cost, priority) == [cost |-> cost, priority |-> priority]

\* Timers that are allowed, on the edge and beyond it, with the other settings
\* of a tree.
Bridges ==
    { [ hello |-> h, max_age |-> a, forward_delay |-> d, hold |-> None,
        priority |-> p, name |-> None, revision |-> r, max_hop |-> None, ports |-> ps ] :
        h \in {None, 3}, a \in {None, 28, 29, 40}, d \in {None, 21}, p \in {None, 4096, 100},
        r \in {None, 65536}, ps \in {<<>>, ("lan1" :> Entry(7, 16)), ("lan2" :> Entry(None, 8))} }

Msti(vlans, ps) == [vlans |-> vlans, priority |-> None, ports |-> ps]
MCMstis ==
    { <<>>,
      (1 :> Msti({<<"id", 10, 10>>}, <<>>)),
      (1 :> Msti({<<"id", 10, 10>>}, <<>>)) @@ (2 :> Msti({<<"range", 11, 13>>}, <<>>)),
      (1 :> Msti({<<"range", 9, 11>>}, <<>>)) @@ (2 :> Msti({<<"range", 11, 13>>}, <<>>)),
      (3 :> Msti({<<"range", 12, 12>>}, ("lan1" :> Entry(None, None)))),
      (3 :> Msti({<<"id", 4095, 4095>>}, <<>>)) }

Feature(edge, guard, bpdu) ==
    [edge |-> edge, link |-> "P2P", guard |-> guard, bpdu_guard |-> bpdu, bpdu_filter |-> None]
MCFeatures ==
    { <<>>, ("lan1" :> Feature("EDGE_ENABLE", "ROOT", FALSE)),
      ("lan1" :> Feature(None, "LOOP", None)) }

Plain ==
    [ hello |-> None, max_age |-> None, forward_delay |-> None, hold |-> None,
      priority |-> None, name |-> None, revision |-> None, max_hop |-> None, ports |-> <<>> ]

WithMstis(b, ms) ==
    [ hello |-> b.hello, max_age |-> b.max_age, forward_delay |-> b.forward_delay,
      hold |-> b.hold, priority |-> b.priority, name |-> b.name, revision |-> b.revision,
      max_hop |-> b.max_hop, ports |-> b.ports, mstis |-> ms ]

\* Each part varies while the others are plain; those of the protocols vary
\* together with the protocols.
MCStpConfigs ==
    [ protocols : {{}, {"STP"}, {"RSTP"}, {"MSTP"}, {"RSTP", "MSTP"}, {"PVST"}},
      guard : {None, TRUE}, filter : {None},
      features : MCFeatures,
      rstp : {Plain} \cup { [Plain EXCEPT !.max_hop = 20], [Plain EXCEPT !.max_age = 29] },
      mstp : { WithMstis(Plain, ms) : ms \in MCMstis }
             \cup { WithMstis([Plain EXCEPT !.max_hop = h], <<>>) : h \in {5, 40} } ]
    \cup [ protocols : {{"RSTP"}, {"MSTP"}}, guard : {None}, filter : {TRUE},
           features : {<<>>}, rstp : Bridges, mstp : { WithMstis(Plain, ms) : ms \in MCMstis } ]
    \cup [ protocols : {{"RSTP"}, {"MSTP"}}, guard : {None}, filter : {TRUE},
           features : {<<>>}, rstp : {Plain}, mstp : { WithMstis(b, <<>>) : b \in Bridges } ]

-----------------------------------------------------------------------------
User(auth, priv) == [auth |-> auth, priv |-> priv]
MCUsers ==
    { <<>> }
    \cup { ("alice" :> User(20, p)) @@ ("bob" :> User(a, None)) :
             p \in {None, 16, 20, 0}, a \in {None, 0, 16, 20} }
    \cup { ("a b" :> User(20, 16)) }

View(in, out) == [include |-> in, exclude |-> out]
MCViews ==
    { <<>>, ("all" :> View({"1.3"}, {"1.4"})) @@ ("none" :> View({"1.4"}, {})),
      ("all" :> View({"iso"}, {})) }

VacmAccess(m, l, v) == [model |-> m, level |-> l, view |-> v]
VacmMember(u, ms) == [user |-> u, models |-> ms]
Accesses ==
    { {}, {VacmAccess("usm", "auth-priv", "all")}, {VacmAccess("any", "auth-no-priv", None)},
      {VacmAccess("usm", "auth-no-priv", "none"), VacmAccess("usm", "auth-priv", "all")},
      {VacmAccess("usm", "auth-no-priv", "all"), VacmAccess("any", "auth-priv", "none")},
      {VacmAccess("v2c", "auth-priv", None)}, {VacmAccess("usm", "no-auth-no-priv", None)} }
VacmMembers ==
    { {}, {VacmMember("alice", {"usm"})}, {VacmMember("alice", {"usm"}), VacmMember("bob", {"usm"})},
      {VacmMember("alice", {"v1"})} }
MCVacmGroups ==
    { ("g" :> [members |-> ms, access |-> as]) : ms \in VacmMembers, as \in Accesses }
    \cup { ("g" :> [members |-> ms, access |-> {VacmAccess("usm", "auth-no-priv", "all")}])
           @@ ("h" :> [members |-> {VacmMember("bob", {"usm"})}, access |-> as]) :
             ms \in VacmMembers, as \in Accesses }

\* A running engine with every access control, and every engine with little.
MCSnmpConfigs ==
    [ enabled : {TRUE, FALSE, None}, versions : {{"v3"}}, listen : {{<<"0.0.0.0", None>>}},
      engine_id : {None}, users : MCUsers, views : MCViews, groups : MCVacmGroups ]
    \cup
    [ enabled : {TRUE, FALSE}, versions : {None, {"v1"}, {"v3"}},
      listen : {{}, {None}, {<<"::", 161>>}, {<<"10.0.0.1", 161>>}}, engine_id : {4, 5, 32, 33},
      users : {("alice" :> User(20, None))}, views : {<<>>},
      groups : {<<>>, ("g" :> [members |-> {}, access |-> {VacmAccess("usm", "auth-priv", None)}])} ]

-----------------------------------------------------------------------------
\* The plain parts.
PlainSwitch ==
    [ mode |-> None, vlans |-> (1 :> [name |-> None, status |-> None]), groups |-> <<>>,
      ifs |-> ("lan1" :> Switched("ACCESS", 1, None, {})) ]
TwoPorts == [PlainSwitch EXCEPT !.ifs = @ @@ ("lan2" :> Switched("TRUNK", None, None, {}))]
PlainStp ==
    [ protocols |-> {}, guard |-> None, filter |-> None, features |-> <<>>,
      rstp |-> Plain, mstp |-> WithMstis(Plain, <<>>) ]
PlainSnmp ==
    [ enabled |-> None, versions |-> None, listen |-> {}, engine_id |-> None,
      users |-> <<>>, views |-> <<>>, groups |-> <<>> ]
PlainSystem == [contact |-> None, location |-> ""]

\* Nodes of the YANG modules that supported.rs does not list.
Unimplemented ==
    { <<"stp", "rapid-pvst", "vlan">>, <<"interface", "subinterfaces", "subinterface">>,
      <<"snmp", "community">>, <<"snmp", "engine", "version", "v2c">>,
      <<"interface", "config", "mtu">>, <<"stp", "global", "config", "bpduguard-timeout-recovery">>,
      <<"snmp", "vacm", "group", "access", "write-view">> }

Operational == { <<"interface", "state", "mtu">>, <<"clixon-switch:vlans", "vlan", "members", "member">> }

\* The leaves that a module has by the YANG: timers of both protocols, but the
\* region's only in MSTP, and one name of the priority in each.
InYang(path) ==
    ~ (path[2] \in {"rstp", "mstp"} /\ path[Len(path)] \in
          (IF path[2] = "rstp" THEN {"name", "revision", "max-hop", "clixon-switch:bridge-priority"}
           ELSE {"bridge-priority"}) /\ Len(path) = 4)

MCLeaves ==
    { {[path |-> p, value |-> v]} :
        v \in {"default", "other"},
        p \in { q \in Tables!AnyLeaves \cup Tables!ReadLeaves \cup Tables!DefaultLeaves : InYang(q) }
                \cup Unimplemented \cup Operational \cup {<<"nacm", "enable-nacm">>} }
    \cup { {[path |-> p, value |-> "prefixed"]} : p \in Tables!Identities \cup Tables!Contexts }
    \cup { { [path |-> <<"interface", "config", "type">>, value |-> "other"],
             [path |-> <<"interface", "config", "mtu">>, value |-> "other"] } }

MCConfigs ==
    [ switch : MCSwitches, stp : {PlainStp}, snmp : {PlainSnmp}, system : {PlainSystem}, leaves : {{}} ]
    \cup [ switch : {PlainSwitch, TwoPorts}, stp : MCStpConfigs, snmp : {PlainSnmp},
           system : {PlainSystem}, leaves : {{}} ]
    \cup [ switch : {PlainSwitch}, stp : {PlainStp}, snmp : MCSnmpConfigs, system : {PlainSystem},
           leaves : {{}} ]
    \cup [ switch : {PlainSwitch}, stp : {PlainStp}, snmp : {PlainSnmp},
           system : [contact : {"noc", "two\nlines"}, location : {"hall"}], leaves : MCLeaves \cup {{}} ]

MCHardware == { {"lan1"}, {"lan1", "lan2"} }
MCValidNames == {"lan1", "lan2", "vlan10", "vlan20", "br-lan"}
=============================================================================
