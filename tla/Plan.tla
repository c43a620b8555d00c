-------------------------------- MODULE Plan --------------------------------
(***************************************************************************)
(* plan (switch-net/src/plan.rs): the operations that turn the observed    *)
(* kernel a into the desired state d.                                      *)
(*                                                                         *)
(* The list of operations is a set of <<position, operation>>, a position  *)
(* being <<section, device, step, value>>: the list is in the              *)
(* lexicographic order of the positions.  Sections are the parts of plan,  *)
(* devices the ranks of the names, values VLAN ids or addresses.           *)
(*                                                                         *)
(* A desired state d is a record:                                          *)
(*   ports      function from port names to [enabled, native, tagged]      *)
(*   svis       function from SVI names to                                 *)
(*              [vlan, enabled, addresses, dhcp]                           *)
(*   suspended  the VLANs that are not active                              *)
(*   stp        whether spanning tree is enabled                           *)
(***************************************************************************)
EXTENDS Kernel, Integers

CONSTANTS
    Rank,     \* the place of each name in the order of the names
    NoVlan    \* a port without native VLAN

ASSUME PlanAssumption ==
    /\ NoLink \notin Names /\ Br \in Names
    /\ Rank \in [Names -> Nat]
    /\ \A m, n \in Names : Rank[m] = Rank[n] => m = n

\* DesiredState, as validation lets it pass: SVIs have VLANs of their own, and
\* none has the bridge's name.
IsDesired(d) ==
    /\ DOMAIN d.ports \subseteq Names
    /\ d.ports \in [ DOMAIN d.ports -> [ enabled : BOOLEAN, native : Nat \cup {NoVlan},
                                         tagged : SUBSET Nat ] ]
    /\ DOMAIN d.svis \subseteq Names \ {Br}
    /\ d.svis \in [ DOMAIN d.svis -> [ vlan : Nat, enabled : BOOLEAN,
                                       addresses : SUBSET Nat, dhcp : BOOLEAN ] ]
    /\ \A m, n \in DOMAIN d.svis : d.svis[m].vlan = d.svis[n].vlan => m = n
    /\ d.suspended \subseteq Nat
    /\ d.stp \in BOOLEAN

Before(p, q) ==
    \E i \in 1..4 : p[i] < q[i] /\ \A j \in 1..(i - 1) : p[j] = q[j]

\* The first operation of a list.
IsFirst(e, ops) == \A f \in ops : f = e \/ Before(e[1], f[1])

When(condition, ops) == IF condition THEN ops ELSE {}

\* platform_ops: loopback and the DSA conduits up.
PlatformLinks(a) ==
    {"lo"} \cup { a.links[n].kind.conduit : n \in SwitchPorts(a) }
PlatformOps(a) ==
    { <<<<0, Rank[n], 0, 0>>, <<"SetUp", n, TRUE>>>> :
        n \in { m \in PlatformLinks(a) : Exists(a, m) /\ ~a.links[m].up } }

\* An SVI's name is taken by a link that is not the plugin's.
NameTaken(d, a) ==
    \E n \in DOMAIN d.svis : Exists(a, n) /\ ~IsVlanOf(a, n, Br)

-----------------------------------------------------------------------------
(***************************************************************************)
(* The bridge.                                                             *)
(***************************************************************************)

\* port_vlans_remain
PortVlansRemain(a) ==
    \E n \in PortsOf(a, Br) : \E v \in DOMAIN a.vlans[n] :
        v # a.links[Br].kind.pvid \/ a.vlans[n][v] # Access

IsConfigured(a) ==
    /\ IsKind(a, Br, "bridge")
    /\ LET b == a.links[Br].kind IN b.filtering /\ b.pvid = 0 /\ b.mst

Configurable(a) ==
    /\ IsKind(a, Br, "bridge")
    /\ a.links[Br].kind.mst \/ ~PortVlansRemain(a)

\* fresh_bridge: the bridge is created, or replaced.
FreshBridge(a) == ~IsConfigured(a) /\ ~Configurable(a)

\* Mutant of BridgeOps: an existing bridge is configured after the ports.
BridgeOpsLate(a) ==
    When(~IsConfigured(a) /\ Configurable(a),
         {<<<<5, 0, 0, 0>>, <<"ConfigureBridge", Br>>>>})
    \cup When(FreshBridge(a) /\ Exists(a, Br),
              {<<<<1, 0, 1, 0>>, <<"DeleteLink", Br>>>>})
    \cup When(FreshBridge(a), {<<<<1, 0, 2, 0>>, <<"CreateBridge", Br>>>>})
    \cup When(FreshBridge(a) \/ ~a.links[Br].up,
              {<<<<1, 0, 3, 0>>, <<"SetUp", Br, TRUE>>>>})

BridgeOps(a) ==
    When(~IsConfigured(a) /\ Configurable(a),
         {<<<<1, 0, 0, 0>>, <<"ConfigureBridge", Br>>>>})
    \cup When(FreshBridge(a) /\ Exists(a, Br),
              {<<<<1, 0, 1, 0>>, <<"DeleteLink", Br>>>>})
    \cup When(FreshBridge(a), {<<<<1, 0, 2, 0>>, <<"CreateBridge", Br>>>>})
    \cup When(FreshBridge(a) \/ ~a.links[Br].up,
              {<<<<1, 0, 3, 0>>, <<"SetUp", Br, TRUE>>>>})

\* Mutant of StpOps: spanning tree is switched on after the ports.
StpOpsLate(d, a) ==
    LET stp == IF FreshBridge(a) THEN "off" ELSE a.links[Br].kind.stp
    IN  When(stp = "kernel", {<<<<2, 0, 0, 0>>, <<"SetBridgeStp", Br, FALSE>>>>})
        \cup When(d.stp # (stp = "user"),
                  {<<<<5, 0, 1, 0>>, <<"SetBridgeStp", Br, d.stp>>>>})

\* Kernel STP is switched off first; then spanning tree is left to mstpd or off.
StpOps(d, a) ==
    LET stp == IF FreshBridge(a) THEN "off" ELSE a.links[Br].kind.stp
    IN  When(stp = "kernel", {<<<<2, 0, 0, 0>>, <<"SetBridgeStp", Br, FALSE>>>>})
        \cup When(d.stp # (stp = "user"),
                  {<<<<2, 0, 1, 0>>, <<"SetBridgeStp", Br, d.stp>>>>})

-----------------------------------------------------------------------------
(***************************************************************************)
(* VLAN entries.                                                           *)
(***************************************************************************)

\* Mutant of SyncVlans: removals first.
SyncVlansRemoveFirst(section, dev, have, want) ==
    { <<<<section, Rank[dev], 2, v>>, <<"AddBridgeVlan", dev, v, want[v]>>>> :
      v \in { w \in DOMAIN want : w \in DOMAIN have => have[w] # want[w] } }
    \cup { <<<<section, Rank[dev], 1, v>>, <<"DelBridgeVlan", dev, v>>>> :
           v \in DOMAIN have \ DOMAIN want }

\* sync_vlans: the PVID entry first, then the other new ones, then removals.
SyncVlans(section, dev, have, want) ==
    { <<<<section, Rank[dev], IF want[v].pvid THEN 1 ELSE 2, v>>,
        <<"AddBridgeVlan", dev, v, want[v]>>>> :
      v \in { w \in DOMAIN want : w \in DOMAIN have => have[w] # want[w] } }
    \cup { <<<<section, Rank[dev], 3, v>>, <<"DelBridgeVlan", dev, v>>>> :
           v \in DOMAIN have \ DOMAIN want }

\* port_vlans
PortVlans(port) ==
    [ v \in port.tagged \cup ({port.native} \ {NoVlan}) |->
        IF v = port.native THEN Access ELSE Tagged ]

-----------------------------------------------------------------------------
(***************************************************************************)
(* VLAN links on the bridge, ports and SVIs.                               *)
(***************************************************************************)

\* existing_svis: the SVIs whose link is there and stays.
ExistingSvis(d, a) ==
    { n \in DOMAIN d.svis : /\ ~FreshBridge(a)
                            /\ IsVlanOf(a, n, Br)
                            /\ a.links[n].kind.id = d.svis[n].vlan }

\* Mutants of StaleSviOps: after the new SVIs are created; VLAN links of any
\* parent.
StaleSviOpsLate(d, a) ==
    { <<<<9, Rank[n], 0, 0>>, <<"DeleteLink", n>>>> :
      n \in { m \in DOMAIN a.links : /\ ~FreshBridge(a)
                                     /\ IsVlanOf(a, m, Br)
                                     /\ m \notin ExistingSvis(d, a) } }
StaleSviOpsAnyParent(d, a) ==
    { <<<<3, Rank[n], 0, 0>>, <<"DeleteLink", n>>>> :
      n \in { m \in DOMAIN a.links : /\ ~FreshBridge(a)
                                     /\ IsKind(a, m, "vlan")
                                     /\ m \notin ExistingSvis(d, a) } }

StaleSviOps(d, a) ==
    { <<<<3, Rank[n], 0, 0>>, <<"DeleteLink", n>>>> :
      n \in { m \in DOMAIN a.links : /\ ~FreshBridge(a)
                                     /\ IsVlanOf(a, m, Br)
                                     /\ m \notin ExistingSvis(d, a) } }

Enslaved(a, n) == ~FreshBridge(a) /\ a.links[n].master = Br

\* A switch port of the configuration: master, VLANs, then administrative state.
ConfiguredPortOps(d, a, n) ==
    LET port == d.ports[n]
        have == IF Enslaved(a, n) THEN a.vlans[n] ELSE NoVlans
    IN  When(~Enslaved(a, n), {<<<<4, Rank[n], 0, 0>>, <<"SetMaster", n, Br>>>>})
        \cup SyncVlans(4, n, have, PortVlans(port))
        \cup When(a.links[n].up # port.enabled,
                  {<<<<4, Rank[n], 4, 0>>, <<"SetUp", n, port.enabled>>>>})

\* A switch port that is not in the configuration.
UnusedPortOps(a, n) ==
    When(a.links[n].master # NoLink,
         {<<<<4, Rank[n], 0, 0>>, <<"SetMaster", n, NoLink>>>>})
    \cup When(a.links[n].up, {<<<<4, Rank[n], 4, 0>>, <<"SetUp", n, FALSE>>>>})

PortOps(d, a) ==
    UNION { IF n \in DOMAIN d.ports THEN ConfiguredPortOps(d, a, n)
                                    ELSE UnusedPortOps(a, n) : n \in SwitchPorts(a) }

\* The VLANs the CPU takes part in: those of the SVIs, unless suspended.
SelfVlans(d) ==
    [ v \in { d.svis[n].vlan : n \in DOMAIN d.svis } \ d.suspended |-> Tagged ]

SelfVlanOps(d, a) ==
    SyncVlans(5, Br, IF FreshBridge(a) THEN NoVlans ELSE a.vlans[Br], SelfVlans(d))

\* Mutant of SviUp: a link that is created anew is taken for the old one.
SviUpOfOld(d, a, n) == Exists(a, n) /\ a.links[n].up

\* Whether the link of SVI n is up once it exists.
SviUp(d, a, n) == n \in ExistingSvis(d, a) /\ a.links[n].up

\* Mutant of SviOps: stale addresses are removed first.
SviOpsRemoveFirst(d, a, n) ==
    LET svi == d.svis[n]
        have == IF n \in ExistingSvis(d, a) THEN a.static[n] ELSE {}
    IN  When(n \notin ExistingSvis(d, a),
             {<<<<6, Rank[n], 0, 0>>, <<"CreateVlan", n, svi.vlan>>>>})
        \cup { <<<<6, Rank[n], 2, p>>, <<"AddAddress", n, p>>>> :
               p \in svi.addresses \ have }
        \cup { <<<<6, Rank[n], 1, p>>, <<"DelAddress", n, p>>>> :
               p \in have \ svi.addresses }

\* An SVI: new addresses, one the DHCP client set being removed first, then
\* stale ones, then the DHCP client's unless it runs here.
SviOps(d, a, n) ==
    LET svi == d.svis[n]
        existing == n \in ExistingSvis(d, a)
        have == IF existing THEN a.static[n] ELSE {}
        dhcp == IF existing THEN a.dhcp[n] ELSE {}
    IN  When(~existing, {<<<<6, Rank[n], 0, 0>>, <<"CreateVlan", n, svi.vlan>>>>})
        \cup { <<<<6, Rank[n], 1, 2 * p>>, <<"DelAddress", n, p>>>> :
               p \in (svi.addresses \ have) \cap dhcp }
        \cup { <<<<6, Rank[n], 1, 2 * p + 1>>, <<"AddAddress", n, p>>>> :
               p \in svi.addresses \ have }
        \cup { <<<<6, Rank[n], 2, p>>, <<"DelAddress", n, p>>>> :
               p \in have \ svi.addresses }
        \cup When(~svi.dhcp, { <<<<6, Rank[n], 3, p>>, <<"DelAddress", n, p>>>> :
                               p \in dhcp \ svi.addresses })
        \cup When(SviUp(d, a, n) # svi.enabled,
                  {<<<<6, Rank[n], 4, 0>>, <<"SetUp", n, svi.enabled>>>>})

\* Mutant of LeftoverOps: only static addresses, and those of ports.
LeftoverOpsPorts(a) ==
    UNION { { <<<<7, Rank[n], 0, p>>, <<"DelAddress", n, p>>>> : p \in a.static[n] } :
            n \in SwitchPorts(a) }

\* Addresses on the bridge and on ports.
LeftoverOps(a) ==
    LET owned == SwitchPorts(a) \cup When(~FreshBridge(a), {Br})
    IN  UNION { { <<<<7, Rank[n], 0, p>>, <<"DelAddress", n, p>>>> : p \in a.static[n] }
                \cup { <<<<8, Rank[n], 0, p>>, <<"DelAddress", n, p>>>> :
                       p \in a.dhcp[n] } : n \in owned }

\* plan, and the platform operations that reconcile puts before it.
Plan(d, a) ==
    PlatformOps(a)
    \cup BridgeOps(a)
    \cup StpOps(d, a)
    \cup StaleSviOps(d, a)
    \cup PortOps(d, a)
    \cup SelfVlanOps(d, a)
    \cup (UNION { SviOps(d, a, n) : n \in DOMAIN d.svis })
    \cup LeftoverOps(a)
=============================================================================
