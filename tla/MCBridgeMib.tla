---------------------------- MODULE MCBridgeMib ----------------------------
(***************************************************************************)
(* Instance of BridgeMib for TLC: nine ports, so that a list has a second  *)
(* octet, whose names sort otherwise than their numbers, two with the same *)
(* number and one without; eight ports, which fill one octet; and none.    *)
(* The kernel dumps stations with the entries of the drivers beside them,  *)
(* and mstpctl tells numbers at and beyond their widths, or nothing.       *)
(***************************************************************************)
EXTENDS BridgeMib, TLC

\* The port names by name.
Ordered == <<"cpu", "lan1", "lan10", "lan2", "lan3", "lan4", "lan5", "sfp2", "wan9">>

PortNames == { Ordered[i] : i \in DOMAIN Ordered }

MCRank == [p \in PortNames |-> CHOOSE i \in 1..Len(Ordered) : Ordered[i] = p]

MCTrailing ==
    [p \in PortNames |-> (<<None, 1, 10, 2, 3, 4, 5, 2, 9>>)[MCRank[p]]]

P(native, tagged) == [native |-> native, tagged |-> tagged]

All(vlans, names, port(_), svis, stp) ==
    [vlans |-> vlans, ports |-> [p \in names |-> port(p)], svis |-> svis, stp |-> stp]

\* Two SVIs, of which the second or none has the DHCP client.
Svis(dhcp) == [i \in {"vlan10", "vlan20"} |-> dhcp /\ i = "vlan20"]

Low(p) == MCRank[p] \in {2, 4, 6, 9}

Access(p) == IF Low(p) THEN P(10, {20}) ELSE P(20, {})

Tree(names, cost) ==
    [ bridge_priority |-> 4096,
      ports |-> [p \in names |-> [priority |-> 128, cost |-> IF Low(p) THEN cost ELSE None]] ]

Stp(protocol, names, mstis) ==
    [ protocol |-> protocol, cist |-> Tree(names, 100000), mstis |-> mstis ]

MCApplied ==
    { All({10, 20}, PortNames, Access, Svis(TRUE),
          Stp("Mstp", PortNames, [m \in {1} |-> [vlans |-> {10, 11, 12, 14, 4094},
                                                 tree |-> Tree({"lan1", "sfp2"}, 7)]])),
      All({10, 20, 30}, PortNames, LAMBDA p : IF Low(p) THEN P(None, {20, 30}) ELSE P(None, {}),
          Svis(FALSE), None),
      All({10, 20}, PortNames \ {"lan1"}, Access, <<>>, Stp("Stp", PortNames \ {"lan1"}, <<>>)),
      [vlans |-> {}, ports |-> <<>>, svis |-> <<>>, stp |-> None] }

Br == "br-lan"

Station(mac, vlan, dev, state) ==
    [ mac |-> mac, multicast |-> mac = "group", vlan |-> vlan, dev |-> dev,
      controller |-> Br, own |-> FALSE, state |-> state ]

OfDriver(mac, vlan, dev) == [Station(mac, vlan, dev, "reachable") EXCEPT !.own = TRUE]

\* An address of the bridge as a device.
OfBridge(mac) ==
    [Station(mac, NoVlan, Br, "permanent") EXCEPT !.own = TRUE, !.controller = None]

\* A station in two VLANs, where it may move; the switch itself; a static entry.
Learned == { {Station("a", 10, p, "reachable"), Station("a", v, q, "noarp")} :
                p \in {"lan1", "gone"}, q \in {"lan10"}, v \in {20, NoVlan} }

MCDumps ==
    { s \cup d \cup {Station("br", 10, Br, "permanent"), Station("group", 10, "lan2", "permanent")} :
        s \in Learned \cup {{}},
        d \in { {}, {OfDriver("a", 10, "lan1"), OfDriver("a", 20, "lan10")},
                {OfDriver("a", NoVlan, "sfp2"), OfDriver("b", 10, "wan9")},
                {OfBridge("br"), OfBridge("a"), OfBridge("c"), OfDriver("c", 10, "wan9")} } }

\* The links without a port that has just come, or without the bridge.
MCNames == { (PortNames \cup {Br}) \ {"lan10"}, PortNames }

Id(p, mac) == [p |-> p, mac |-> mac]
Mac == <<2, 0, 0, 0, 255, 9>>

ABridge ==
    [ bridge_id |-> Id(1, Mac), designated_root |-> Id(8, Mac), regional_root |-> Id(2, Mac),
      root_port |-> "lan10", path_cost |-> 200, internal_path_cost |-> 7,
      topology_change_count |-> 3 ]

BridgeReports ==
    { None, [ABridge EXCEPT !.root_port = None], [ABridge EXCEPT !.root_port = "gone"] }
        \cup { [ABridge EXCEPT !.path_cost = c, !.topology_change_count = c + 3] :
                 c \in {U32 \div 2, U32} }
        \cup { [ABridge EXCEPT !.designated_root = r] : r \in {Id(15, None), Id(16, Mac)} }

APort ==
    [ enabled |-> "yes", state |-> "forwarding", designated_root |-> Id(8, Mac),
      dsgn_regional_root |-> Id(2, Mac), dsgn_external_cost |-> 1, dsgn_internal_cost |-> 7,
      external_port_cost |-> 1, internal_port_cost |-> 9, designated_bridge |-> Id(3, Mac),
      designated_port |-> [p |-> 8, n |-> 5], num_transition_fwd |-> U32 + 1 ]

PortReports ==
    { None, [APort EXCEPT !.state = "learning"],
      [APort EXCEPT !.state = "discarding", !.enabled = "no"],
      [APort EXCEPT !.designated_port = [p |-> 16, n |-> 4097]] }
        \cup { [APort EXCEPT !.external_port_cost = c, !.dsgn_external_cost = c] :
                 c \in {0, 65535, 65536, MaxPathCost, U32 \div 2, U32} }

\* One report varies at a time, and one of the ports does not answer.
MCReports ==
    LET one(b, j) ==
            [ t \in {Cist, 1} |->
                [bridge |-> b, ports |-> [p \in PortNames |-> IF p = "lan1" THEN None ELSE j]] ]
    IN  { one(b, APort) : b \in BridgeReports } \cup { one(ABridge, j) : j \in PortReports }

\* The first and the last day of months around the leap day, in years that are
\* leap years and are not.
Clocks ==
    { [days |-> DaysBeforeYear(y) + DaysBeforeMonth(y, m) + d - 1, secs |-> 3661 * d] :
        y \in {1970, 2000, 2026, 2100}, m \in {2, 3}, d \in {1} }
    \cup { [days |-> DaysBeforeYear(y) + DaysBeforeMonth(y, m) + MonthDays(y, m) - 1,
             secs |-> DaySeconds - 1] :
        y \in {1970, 2000, 2026, 2100}, m \in {2, 12} }

Links == PortNames \cup {"vlan10", "vlan20"}

AnAddress == <<"h1", 24>>

ARead ==
    [ clock |-> [days |-> 20000, secs |-> 0], links |-> Links,
      static |-> [i \in {"vlan10", "vlan20"} |-> {<<"h9", 24>>}],
      dynamic |-> [i \in {"vlan10", "vlan20"} |-> IF i = "vlan20" THEN (AnAddress :> 60) ELSE <<>>],
      file |-> [ip |-> "h1", mask |-> 24] ]

\* The clock varies; or the SVI is gone, its address is not there yet, is another
\* one or is static, or the lease file is missing or says less.
MCReads ==
    { [ARead EXCEPT !.clock = c] : c \in Clocks \cup {None} }
    \cup { [ARead EXCEPT !.links = @ \ {"vlan20", "lan1"}] }
    \cup { [ARead EXCEPT !.dynamic["vlan20"] = d, !.file = f] :
        d \in { <<>>, AnAddress :> 60, <<"h2", 24>> :> 30, AnAddress :> 60 @@ <<"h2", 24>> :> 30 },
        f \in { None, ARead.file, [ip |-> None, mask |-> 24], [ip |-> "h1", mask |-> 33] } }
    \cup { [ARead EXCEPT !.dynamic["vlan20"] = <<>>, !.static["vlan20"] = {AnAddress}] }

Request(x, names, dump, running, reports, read) ==
    [ x |-> x, names |-> names, dump |-> dump, running |-> running, reports |-> reports,
      read |-> read ]

Path(module, fdb, stp) == [module |-> module, fdb |-> fdb, stp |-> stp]

\* One of names, dump, reports and read varies at a time.
MCRequests ==
    { Request(Path(m, TRUE, FALSE), Links \cup {Br}, dump, FALSE, None, None) :
        m \in {"bridge", "q_bridge"}, dump \in MCDumps }
    \cup { Request(Path(m, TRUE, FALSE), names, dump, FALSE, None, None) :
        m \in {"bridge", "q_bridge"}, names \in MCNames, dump \in Learned }
    \cup { Request(Path(m, FALSE, FALSE), Links, {}, TRUE, None, None) : m \in {"bridge", "q_bridge"} }
    \cup { Request(Path(m, FALSE, m = "bridge"), Links, {}, TRUE, reports, None) :
        m \in {"bridge", "rstp"}, reports \in MCReports }
    \cup { Request(Path(m, FALSE, TRUE), Links, {}, FALSE, None, None) : m \in {"bridge", "rstp"} }
    \cup { Request(Path("none", FALSE, FALSE), Links, {}, TRUE, None, read) : read \in MCReads }
    \cup { Request(Path("none", FALSE, TRUE), Links, {}, TRUE, reports, ARead) : reports \in MCReports }
    \cup { Request(Path("none", FALSE, TRUE), Links, {}, FALSE, None, ARead) }
=============================================================================
