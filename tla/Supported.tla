----------------------------- MODULE Supported -----------------------------
(***************************************************************************)
(* The configuration the switch implements (switch-model/src/supported.rs) *)
(* and the one that it reads (the Deserialize types of lib.rs, stp.rs and  *)
(* snmp.rs).  A node is named by its path, without the keys of lists; a    *)
(* configured leaf is [path, value], where the value is "default" for the  *)
(* YANG default, "prefixed" for a text that has the default after its last *)
(* ':', or "other".                                                        *)
(***************************************************************************)
EXTENDS Integers, Sequences

\* The nodes with these names below a node.
Below(path, names) == { path \o <<n>> : n \in names }

\* A node's config container.
Config(path) == path \o <<"config">>

Interface == <<"interface">>
Ethernet == Interface \o <<"openconfig-if-ethernet:ethernet">>
Switched == Ethernet \o <<"openconfig-vlan:switched-vlan">>
Routed == Interface \o <<"openconfig-vlan:routed-vlan">>
Ip4 == Routed \o <<"openconfig-if-ip:ipv4">>
Ip6 == Routed \o <<"openconfig-if-ip:ipv6">>
Address == Ip4 \o <<"addresses", "address">>
Global == <<"stp", "global">>
Rstp == <<"stp", "rstp">>
Mstp == <<"stp", "mstp">>
MstInstance == Mstp \o <<"mst-instances", "mst-instance">>
Features == <<"stp", "interfaces", "interface">>
Trees == { t \o <<"interface">> : t \in { Rstp \o <<"interfaces">>, MstInstance \o <<"interfaces">>,
                                        Mstp \o <<"clixon-switch:interfaces">> } }
Engine == <<"snmp", "engine">>
User == <<"snmp", "usm", "local", "user">>
Group == <<"snmp", "vacm", "group">>
View == <<"snmp", "vacm", "view">>
Vlan == <<"clixon-switch:vlans", "vlan">>
Switch == <<"clixon-switch:switch">>
System == <<"clixon-switch:system">>
PortGroup == <<"clixon-switch:port-based-vlans", "group">>

Timers == {"hello-time", "max-age", "forwarding-delay", "hold-count"}

-----------------------------------------------------------------------------
\* The leaves of Rule::Any.
AnyInterface ==
    Below(Interface, {"name"})
        \cup Below(Config(Interface), {"name", "type", "enabled", "description"})
        \cup Below(Config(Switched), {"interface-mode", "access-vlan", "native-vlan", "trunk-vlans"})
        \cup Below(Config(Routed), {"vlan"})
        \cup Below(Address, {"ip"}) \cup Below(Config(Address), {"ip", "prefix-length"})
        \cup Below(Config(Ip4), {"dhcp-client"})

AnyStp ==
    Below(Config(Global), {"enabled-protocol", "bpdu-guard", "bpdu-filter"})
        \cup Below(Config(Rstp), Timers \cup {"bridge-priority"})
        \cup Below(Config(Mstp), Timers \cup {"name", "revision", "max-hop", "clixon-switch:bridge-priority"})
        \cup Below(MstInstance, {"mst-id"})
        \cup Below(Config(MstInstance), {"mst-id", "vlan", "bridge-priority"})
        \cup Below(Features, {"name"})
        \cup Below(Config(Features), {"name", "edge-port", "link-type", "guard", "bpdu-guard", "bpdu-filter"})
        \cup UNION { Below(t, {"name"}) \cup Below(Config(t), {"name", "cost", "port-priority"}) : t \in Trees }

AnySnmp ==
    Below(Engine, {"enabled", "engine-id"})
        \cup Below(Engine \o <<"listen">>, {"name"})
        \cup Below(Engine \o <<"listen", "udp">>, {"ip", "port"})
        \cup Below(Engine \o <<"version">>, {"v3"})
        \cup Below(User, {"name"}) \cup Below(User \o <<"auth", "sha">>, {"key"})
        \cup Below(User \o <<"priv", "aes">>, {"key"})
        \cup Below(Group, {"name"})
        \cup Below(Group \o <<"member">>, {"security-name", "security-model"})
        \cup Below(Group \o <<"access">>, {"security-model", "security-level", "read-view"})
        \cup Below(View, {"name", "include", "exclude"})

AnyTop ==
    Below(Vlan, {"vlan-id"}) \cup Below(Config(Vlan), {"vlan-id", "name", "status"})
        \cup Below(Config(Switch), {"vlan-mode"})
        \cup Below(Config(System), {"contact", "location"})
        \cup Below(PortGroup, {"id"}) \cup Below(Config(PortGroup), {"id", "name", "port"})

AnyLeaves == AnyInterface \cup AnyStp \cup AnySnmp \cup AnyTop

\* The leaves of Rule::Default.
DefaultInterface ==
    Below(Config(Interface), {"loopback-mode", "openconfig-vlan:tpid"})
        \cup Below(Config(Interface \o <<"hold-time">>), {"up", "down"})
        \cup Below(Config(Interface \o <<"penalty-based-aied">>),
                   {"max-suppress-time", "decay-half-life", "suppress-threshold",
                    "reuse-threshold", "flap-penalty"})
        \cup Below(Config(Ethernet), {"enable-flow-control", "auto-negotiate", "standalone-link-training"})

DefaultIp ==
    Below(Config(Address), {"type"})
        \cup Below(Config(Ip4), {"enabled"})
        \cup Below(Config(Ip4 \o <<"proxy-arp">>), {"mode"})
        \cup Below(Config(Ip6), {"enabled", "dup-addr-detect-transmits", "learn-unsolicited", "dhcp-client"})
        \cup Below(Config(Ip6 \o <<"router-advertisement">>),
                   {"enable", "suppress", "mode", "managed", "other-config"})
        \cup UNION { Below(Config(ip \o <<n>>), {"enabled"}) : ip \in {Ip4, Ip6}, n \in {"unnumbered", "urpf"} }

DefaultOther ==
    Below(Config(Global), {"bridge-assurance", "etherchannel-misconfig-guard", "loop-guard"})
        \cup Below(Engine, {"enable-authen-traps"})
        \cup Below(Group \o <<"access">>, {"context", "context-match"})

\* Of these, the identity references, whose values may have a module prefix, and
\* the texts of any form.
Identities == Below(Config(Interface), {"openconfig-vlan:tpid"})
Contexts == Below(Group \o <<"access">>, {"context"})

DefaultLeaves == DefaultInterface \cup DefaultIp \cup DefaultOther

\* The nodes of Rule::Ignore: the state containers, and the members of VLANs.
Ignored ==
    { n \o <<"state">> : n \in { Interface, Ethernet, Switched, Routed, Ip4, Ip6, Address, Global, Rstp,
                               Mstp, MstInstance, Features, Vlan, Switch, System, PortGroup }
                             \cup Below(Interface, {"hold-time", "penalty-based-aied"})
                             \cup Below(Ip4, {"proxy-arp", "unnumbered", "urpf"})
                             \cup Below(Ip6, {"router-advertisement", "unnumbered", "urpf"})
                             \cup Trees }
        \cup Below(Vlan, {"members"})

Operational(path) == \E n \in 1..Len(path) : SubSeq(path, 1, n) \in Ignored

\* Mutant of LeafOk: what is not listed is passed over.
LeafOkUnlisted(l) == l.path \in DefaultLeaves => l.value \in {"default", "prefixed"}

\* is_value: text may have a module prefix, whatever the type of the leaf.
IsDefault(value) == value \in {"default", "prefixed"}

\* check_members and check_value
LeafOk(l) ==
    \/ Operational(l.path)
    \/ l.path \in AnyLeaves
    \/ l.path \in DefaultLeaves /\ IsDefault(l.value)

\* The interfaces and the containers of TOP; other top-level nodes are not checked.
Checked(path) ==
    Head(path) \in {"interface", "stp", "snmp"} \cup { Head(p) : p \in {Vlan, Switch, System, PortGroup} }

\* check: one error for each node that is not implemented.
SupportedOk(leaves) == \A l \in leaves : Checked(l.path) => LeafOk(l)

-----------------------------------------------------------------------------
\* The members of the types that a configuration is read into; serde passes
\* over every other member.
ReadInterface ==
    Below(Interface, {"name"})
        \cup Below(Config(Interface), {"type", "enabled"})
        \cup Below(Config(Switched), {"interface-mode", "access-vlan", "native-vlan", "trunk-vlans"})
        \cup Below(Config(Routed), {"vlan"})
        \cup Below(Config(Ip4), {"dhcp-client"})
        \cup Below(Address, {"ip"}) \cup Below(Config(Address), {"prefix-length"})
        \cup Below(Vlan, {"vlan-id"}) \cup Below(Config(Vlan), {"vlan-id", "name", "status"})
        \cup Below(Config(Switch), {"vlan-mode"})
        \cup Below(PortGroup, {"id"}) \cup Below(Config(PortGroup), {"id", "name", "port"})
        \cup Below(Config(System), {"contact", "location"})

\* TimerConfig is the same type for both, with two names of the priority.
ReadStp ==
    Below(Config(Global), {"enabled-protocol", "bpdu-guard", "bpdu-filter"})
        \cup UNION { Below(Config(p), Timers \cup {"bridge-priority", "clixon-switch:bridge-priority",
                                                   "name", "revision", "max-hop"}) : p \in {Rstp, Mstp} }
        \cup Below(MstInstance, {"mst-id"})
        \cup Below(Config(MstInstance), {"mst-id", "vlan", "bridge-priority"})
        \cup UNION { Below(t, {"name"}) \cup Below(Config(t), {"cost", "port-priority"}) : t \in Trees }
        \cup Below(Features, {"name"})
        \cup Below(Config(Features), {"edge-port", "link-type", "guard", "bpdu-guard", "bpdu-filter"})

ReadSnmp ==
    Below(Engine, {"enabled", "engine-id"})
        \cup Below(Engine \o <<"version">>, {"v3"})
        \cup Below(Engine \o <<"listen">>, {"name"})
        \cup Below(Engine \o <<"listen", "udp">>, {"ip", "port"})
        \cup Below(User, {"name"}) \cup Below(User \o <<"auth", "sha">>, {"key"})
        \cup Below(User \o <<"priv", "aes">>, {"key"})
        \cup Below(Group, {"name"})
        \cup Below(Group \o <<"member">>, {"security-name", "security-model"})
        \cup Below(Group \o <<"access">>, {"security-model", "security-level", "read-view"})
        \cup Below(View, {"name", "include", "exclude"})

ReadLeaves == ReadInterface \cup ReadStp \cup ReadSnmp
=============================================================================
