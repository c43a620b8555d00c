------------------------------ MODULE StpModel ------------------------------
(***************************************************************************)
(* desired_stp (switch-model/src/stp.rs): the configuration of spanning    *)
(* tree, its checks, and what mstpd is to run with.                        *)
(*                                                                         *)
(* A configuration c is a record:                                          *)
(*   protocols  enabled-protocol, a set                                    *)
(*   guard, filter   the global bpdu-guard and bpdu-filter                 *)
(*   features   function from interface names to [edge, link, guard,       *)
(*              bpdu_guard, bpdu_filter]                                   *)
(*   rstp       [hello, max_age, forward_delay, hold, priority, name,      *)
(*              revision, max_hop, ports]                                  *)
(*   mstp       the same, and mstis, a function from MSTIDs to             *)
(*              [vlans, priority, ports]                                   *)
(* A leaf that is not set is None.  ports of a tree is a function from     *)
(* interface names to [cost, priority].  The vlans of an MSTI are entries  *)
(* <<"id", id, id>> or <<"range", low, high>>.                             *)
(***************************************************************************)
EXTENDS Leaves, Integers, FiniteSets

DefaultBridgePriority == 32768
DefaultPortPriority == 128
DefaultHelloTime == 2
DefaultMaxAge == 20
DefaultForwardDelay == 15
DefaultHoldCount == 6
DefaultMaxHops == 20

-----------------------------------------------------------------------------
\* StpConfig and what it holds, with the ranges that YANG gives the timers.
IsStpConfig(c) ==
    /\ {c.guard, c.filter} \subseteq Opt(BOOLEAN)
    /\ \A t \in {c.rstp, c.mstp} :
          /\ t.max_age \in Opt(6..40) /\ t.forward_delay \in Opt(4..30)
          /\ {t.hello, t.hold, t.max_hop} \subseteq Opt(0..255)
          /\ t.priority = None \/ t.priority \in 0..65535
          /\ t.revision \in Opt(Nat)
          /\ \A n \in DOMAIN t.ports :
                t.ports[n].cost \in Opt(Nat) /\ t.ports[n].priority \in Opt(0..255)
    /\ DOMAIN c.mstp.mstis \subseteq 1..4094
    /\ \A n \in DOMAIN c.features :
          {c.features[n].bpdu_guard, c.features[n].bpdu_filter} \subseteq Opt(BOOLEAN)

\* Stp, Tree, TreePort, Msti and PortFeatures.
IsDesiredStp(s, ports) ==
    /\ s.protocol \in {"STP", "RSTP", "MSTP"}
    /\ s.mstis # {} => s.protocol = "MSTP"
    /\ DOMAIN s.ports = ports
    /\ \A n \in ports : s.ports[n].edge \in {"EDGE_AUTO", "EDGE_ENABLE", "EDGE_DISABLE"}
    /\ \A i \in {0} \cup s.mstis :
          /\ s.priority[i] \in 0..61440
          /\ DOMAIN s.tree_ports[i] = ports
          /\ \A n \in ports : s.tree_ports[i][n].priority \in 0..255
    /\ \A i \in s.mstis : s.vlans[i] \subseteq 1..4094

-----------------------------------------------------------------------------
\* timers: t is rstp or mstp of the configuration.
MaxAge(t) == OrElse(t.max_age, DefaultMaxAge)
ForwardDelay(t) == OrElse(t.forward_delay, DefaultForwardDelay)

\* Mutant of TimersOk: the factor of the inequality is lost.
TimersOkLoose(t) ==
    /\ t.hello \in {None, DefaultHelloTime}
    /\ 2 * ForwardDelay(t) >= MaxAge(t)

\* saturating_sub: a forward delay of 0 gives 0.
TimersOk(t) ==
    /\ t.hello \in {None, DefaultHelloTime}
    /\ 2 * (IF ForwardDelay(t) = 0 THEN 0 ELSE ForwardDelay(t) - 1) >= MaxAge(t)

\* bridge_priority
PriorityOk(p) == p # None => p % 4096 = 0 /\ p <= 61440

\* tree: a tree has every switch port, with the settings of its entry.
TreeOk(t, ports) ==
    /\ PriorityOk(t.priority)
    /\ \A n \in DOMAIN t.ports :
          n \in ports /\ (t.ports[n].priority # None => t.ports[n].priority % 16 = 0)
TreePorts(t, ports) ==
    [ n \in ports |->
        IF n \in DOMAIN t.ports
        THEN [cost |-> t.ports[n].cost,
              priority |-> OrElse(t.ports[n].priority, DefaultPortPriority)]
        ELSE [cost |-> None, priority |-> DefaultPortPriority] ]

\* vlan_entry
VlanEntryOk(e) ==
    /\ e[2] \in 1..4094 /\ e[3] \in 1..4094
    /\ e[1] = "range" => e[2] < e[3]

\* mstis: the VLANs of an MSTI, each of one MSTI only.
MstiVlans(c, i) == UNION { e[2]..e[3] : e \in c.mstp.mstis[i].vlans }

MstisOk(c, ports) ==
    /\ \A i \in DOMAIN c.mstp.mstis :
          /\ \A e \in c.mstp.mstis[i].vlans : VlanEntryOk(e)
          /\ TreeOk(c.mstp.mstis[i], ports)
    /\ \A i, j \in DOMAIN c.mstp.mstis :
          i # j => MstiVlans(c, i) \cap MstiVlans(c, j) = {}

\* port_features: the global defaults, overridden by an entry.
FeaturesOk(c, ports) ==
    \A n \in DOMAIN c.features :
        /\ n \in ports
        /\ c.features[n].edge \in {None, "EDGE_AUTO", "EDGE_ENABLE", "EDGE_DISABLE"}
        /\ c.features[n].link \in {None, "P2P", "SHARED"}
        /\ c.features[n].guard \in {None, "NONE", "ROOT"}

Features(c, ports) ==
    LET guard == OrElse(c.guard, FALSE)
        filter == OrElse(c.filter, FALSE)
    IN  [ n \in ports |->
            IF n \in DOMAIN c.features
            THEN LET f == c.features[n]
                 IN  [ edge |-> OrElse(f.edge, "EDGE_AUTO"), point_to_point |-> f.link,
                       root_guard |-> f.guard = "ROOT",
                       bpdu_guard |-> OrElse(f.bpdu_guard, guard),
                       bpdu_filter |-> OrElse(f.bpdu_filter, filter) ]
            ELSE [ edge |-> "EDGE_AUTO", point_to_point |-> None, root_guard |-> FALSE,
                   bpdu_guard |-> guard, bpdu_filter |-> filter ] ]

\* desired_stp reports no error: also what belongs to a protocol that is not
\* enabled is checked.
StpValid(c, ports) ==
    /\ c.protocols \subseteq {"STP", "RSTP", "MSTP"}
    /\ Cardinality(c.protocols) <= 1
    /\ FeaturesOk(c, ports)
    /\ TimersOk(c.rstp)
    /\ c.rstp.name = None /\ c.rstp.revision = None /\ c.rstp.max_hop = None
    /\ TreeOk(c.rstp, ports)
    /\ TimersOk(c.mstp)
    /\ c.mstp.revision # None => c.mstp.revision <= 65535
    /\ c.mstp.max_hop # None => c.mstp.max_hop \in 6..40
    /\ TreeOk(c.mstp, ports)
    /\ MstisOk(c, ports)

\* desired_stp: what mstpd is to run with, None without a protocol.  The record
\* is the one Mstpd configures: bridge stands for the settings of the bridge
\* that are no timers, tree 0 is the CIST.
DesiredStp(c, ports) ==
    IF c.protocols = {} THEN None
    ELSE LET mstp == c.protocols = {"MSTP"}
             t == IF mstp THEN c.mstp ELSE c.rstp
             mstis == IF mstp THEN DOMAIN c.mstp.mstis ELSE {}
             tree(i) == IF i = 0 THEN t ELSE c.mstp.mstis[i]
         IN  [ protocol |-> CHOOSE p \in c.protocols : TRUE,
               max_age |-> MaxAge(t), forward_delay |-> ForwardDelay(t),
               bridge |-> [ hold |-> OrElse(t.hold, DefaultHoldCount),
                            hops |-> OrElse(t.max_hop, DefaultMaxHops),
                            name |-> t.name, revision |-> OrElse(t.revision, 0) ],
               mstis |-> mstis,
               vlans |-> [i \in mstis |-> MstiVlans(c, i)],
               priority |-> [i \in {0} \cup mstis |->
                                OrElse(tree(i).priority, DefaultBridgePriority)],
               ports |-> Features(c, ports),
               tree_ports |-> [i \in {0} \cup mstis |-> TreePorts(tree(i), ports)] ]
=============================================================================
