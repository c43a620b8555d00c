------------------------------- MODULE StpMib -------------------------------
(***************************************************************************)
(* The state of the spanning trees: what is kept of mstpctl's reports      *)
(* (switch-net/src/stp.rs), and what /stp (switch-model/src/stp.rs),       *)
(* BRIDGE-MIB and RSTP-MIB (mib.rs) show of it.                            *)
(*                                                                         *)
(* A report is a record of the JSON's values, each None where it is        *)
(* missing; the report itself is None when mstpctl fails.  The trees are   *)
(* the CIST and the MSTIs by number; reports[t] = [bridge, ports].  What   *)
(* is copied as it is told or configured is left out: a port's role and    *)
(* number, its BPDU counters, edge and link type, the administrative       *)
(* features, priorities and timers, and the scalars of RSTP-MIB.           *)
(***************************************************************************)
EXTENDS MibValues, FiniteSets, SequencesExt

Cist == 0

\* bridge_state
BridgeState(j, msti) ==
    [ bridge |-> BridgeId(j.bridge_id),
      root |-> BridgeId(IF msti THEN j.regional_root ELSE j.designated_root),
      root_port |-> j.root_port,
      root_cost |-> Number(IF msti THEN j.internal_path_cost ELSE j.path_cost, U32),
      topology_changes |-> j.topology_change_count ]

Enabled(j, msti) == msti \/ j.enabled # "no"

\* port_state: mstpd says discarding also of a port that takes no part.
PortState(j, msti) ==
    [ port_state |-> CASE ~Enabled(j, msti) -> "DISABLED"
                       [] Enabled(j, msti) /\ j.state = "discarding" -> "BLOCKING"
                       [] Enabled(j, msti) /\ j.state = "learning" -> "LEARNING"
                       [] Enabled(j, msti) /\ j.state = "forwarding" -> "FORWARDING"
                       [] OTHER -> None,
      designated_root |-> BridgeId(IF msti THEN j.dsgn_regional_root ELSE j.designated_root),
      designated_cost |-> Number(IF msti THEN j.dsgn_internal_cost ELSE j.dsgn_external_cost, U32),
      designated_bridge |-> BridgeId(j.designated_bridge),
      designated_port |-> PortId(j.designated_port),
      forward_transitions |-> j.num_transition_fwd,
      path_cost |-> Number(IF msti THEN j.internal_port_cost ELSE j.external_port_cost, U32) ]

\* tree_state: one mstpctl for the bridge and one for each port of the tree.
TreeState(report, tree, msti) ==
    [ bridge |-> IF report.bridge = None THEN None ELSE BridgeState(report.bridge, msti),
      ports |-> [ p \in { q \in DOMAIN tree.ports : report.ports[q] # None } |->
                    PortState(report.ports[p], msti) ] ]

\* Mstpd::state
StpState(stp, reports) ==
    [ cist |-> TreeState(reports[Cist], stp.cist, FALSE),
      mstis |-> [m \in DOMAIN stp.mstis |-> TreeState(reports[m], stp.mstis[m].tree, TRUE)] ]

-----------------------------------------------------------------------------
Opt(x, Op(_)) == IF x = None THEN None ELSE Op(x)

NoBridgeState ==
    [ bridge |-> None, root |-> None, root_port |-> None, root_cost |-> None,
      topology_changes |-> None ]

NoPortState ==
    [ port_state |-> None, designated_root |-> None, designated_cost |-> None,
      designated_bridge |-> None, designated_port |-> None, forward_transitions |-> None,
      path_cost |-> None ]

\* bridge_xml, dot1dStp: of the CIST; the root port by its number.
StpGroup(state, numbers) ==
    LET b == IF state.cist.bridge = None THEN NoBridgeState ELSE state.cist.bridge
    IN  [ changes |-> Opt(b.topology_changes, Counter32),
          root |-> Opt(b.root, BridgeIdText),
          cost |-> Opt(b.root_cost, Int32),
          root_port |-> IF b.root_port \in DOMAIN numbers THEN numbers[b.root_port] ELSE 0 ]

PortStateText(s) ==
    CASE s = "BLOCKING" -> "blocking"
      [] s = "LEARNING" -> "learning"
      [] s = "FORWARDING" -> "forwarding"
      [] OTHER -> "disabled"

MaxPathCost16 == 65535

\* bridge_xml, a row of dot1dStpPortTable.
StpPortRow(stp, state, p) ==
    LET s == IF p \in DOMAIN state.cist.ports THEN state.cist.ports[p] ELSE NoPortState
        admin == stp.cist.ports[p]
        cost == IF s.path_cost # None THEN s.path_cost ELSE admin.cost
    IN  [ state |-> Opt(s.port_state, PortStateText),
          enabled |-> s.port_state # "DISABLED",
          cost |-> Opt(cost, LAMBDA c : AtMost(c, MaxPathCost16)),
          root |-> Opt(s.designated_root, BridgeIdText),
          designated_cost |-> Opt(s.designated_cost, Int32),
          bridge |-> Opt(s.designated_bridge, BridgeIdText),
          designated_port |-> Opt(s.designated_port, LAMBDA d : DesignatedPort(d.priority, d.num)),
          transitions |-> Opt(s.forward_transitions, Counter32),
          cost32 |-> Opt(cost, Int32),
          admin_cost |-> IF admin.cost = None THEN 0 ELSE Int32(admin.cost) ]

-----------------------------------------------------------------------------
\* Mutant of Extend: the range goes on over a gap of one.
ExtendOverGap(ranges, v) ==
    IF ranges # <<>> /\ Last(ranges)[2] + 2 >= v
    THEN Front(ranges) \o <<<<Last(ranges)[1], v>>>>
    ELSE Append(ranges, <<v, v>>)

\* A step of vlan_ranges: v prolongs the last range or begins one.
Extend(ranges, v) ==
    IF ranges # <<>> /\ Last(ranges)[2] + 1 = v
    THEN Front(ranges) \o <<<<Last(ranges)[1], v>>>>
    ELSE Append(ranges, <<v, v>>)

\* vlan_ranges
VlanRanges(vlans) == FoldLeft(Extend, <<>>, SetToSortSeq(vlans, <))

\* common_state_xml and tree_ports_xml: a port of the tree is there whether or
\* not mstpctl told of it.
TreeXml(tree, state) ==
    [ priority |-> tree.bridge_priority,
      common |-> state.bridge,
      ports |-> [ p \in DOMAIN tree.ports |->
                    [ admin |-> tree.ports[p],
                      state |-> IF p \in DOMAIN state.ports THEN state.ports[p] ELSE None ] ] ]

EmptyTree == [bridge |-> None, ports |-> <<>>]

\* stp_state_xml: a state that was not read is empty.
StpStateXml(stp, state) ==
    [ protocol |-> stp.protocol,
      cist |-> TreeXml(stp.cist, IF state = None THEN EmptyTree ELSE state.cist),
      mstis |-> [ m \in (IF stp.protocol = "Mstp" THEN DOMAIN stp.mstis ELSE {}) |->
                    [ vlans |-> VlanRanges(stp.mstis[m].vlans),
                      tree |-> TreeXml(stp.mstis[m].tree,
                                       IF state = None THEN EmptyTree ELSE state.mstis[m]) ] ] ]
=============================================================================
