----------------------------- MODULE BridgeMib -----------------------------
(***************************************************************************)
(* The state data of SwitchPlugin::statedata: BRIDGE-MIB, Q-BRIDGE-MIB and *)
(* RSTP-MIB for clixon_snmp (switch-model/src/mib.rs), and /system,        *)
(* /interfaces, /vlans and /stp.  They are made from the configuration that*)
(* is applied, the VLANs and the forwarding database of the kernel's       *)
(* bridge, what mstpctl tells of the spanning trees, and the links,        *)
(* addresses and lease, read one after the other.                          *)
(***************************************************************************)
EXTENDS StpMib, Fdb, SwitchState

CONSTANTS
    Trailing,   \* for each port name the number at its end, or None
    Rank,       \* for each port name its place among them by name
    Applied,    \* desired states: [ports, vlans, svis, stp], where ports is a
                \* function from names to [native, tagged], vlans the set of VLANs,
                \* svis tells for each SVI whether it has the DHCP client, and stp
                \* is None or the spanning tree's settings
    Requests,   \* requests with what they find: [x, names, dump, running, reports,
                \* read], the path, the kernel's links, which are dumped before its
                \* forwarding tables, the dump of these, whether mstpd runs, what
                \* mstpctl tells for each tree ([bridge, ports]), and what is read
                \* of the system (see SwitchState)
    MaxFailures \* bound: the commits that fail one after the other

ASSUME MibAssumption ==
    /\ DOMAIN Trailing = DOMAIN Rank
    /\ \A p, q \in DOMAIN Rank : p # q => Rank[p] # Rank[q]
    /\ \A a \in Applied :
          /\ DOMAIN a.ports \subseteq DOMAIN Rank
          /\ a.stp # None => DOMAIN a.stp.cist.ports = DOMAIN a.ports
          /\ \A p \in DOMAIN a.ports :
                /\ a.ports[p].native \in a.vlans \cup {None}
                /\ a.ports[p].tagged \subseteq a.vlans \ {a.ports[p].native}

-----------------------------------------------------------------------------
\* The order of the sort: by number, names without one last, then by name.
Before(p, q) ==
    IF Trailing[p] = None
    THEN Trailing[q] = None /\ Rank[p] < Rank[q]
    ELSE \/ Trailing[q] = None
         \/ Trailing[p] < Trailing[q]
         \/ Trailing[p] = Trailing[q] /\ Rank[p] < Rank[q]

\* port_numbers: a port's place in that order.
PortNumbers(ports) == [p \in ports |-> 1 + Cardinality({ q \in ports : Before(q, p) })]

\* port_list: port 1 is the most significant bit of the first octet.
PortList(ports, numbers) ==
    LET octets == Max({1, DivCeil(Cardinality(DOMAIN numbers), 8)})
        bits == { numbers[p] - 1 : p \in ports \cap DOMAIN numbers }
    IN  Base64([ o \in 1..octets |->
                   MapThenSumSet(LAMBDA b : 2^(7 - (b % 8)), { b \in bits : b \div 8 = o - 1 }) ])

-----------------------------------------------------------------------------
\* port_vlans of plan.rs: the bridge VLANs of a port, with whether egress is
\* untagged.
KernelVlans(port) ==
    [v \in ({port.native} \ {None}) \cup port.tagged |-> v = port.native]

\* The VLANs of the kernel's bridge, for the ports that are applied (mib_state).
PortVlans(a, kernel) == [p \in DOMAIN kernel \cap DOMAIN a.ports |-> kernel[p]]

\* The ports of a VLAN, those of which egress is untagged, and the VLANs.
Members(vlans, v) == { p \in DOMAIN vlans : v \in DOMAIN vlans[p] }
Untagged(vlans, v) == { p \in Members(vlans, v) : vlans[p][v] }
Vlans(vlans) == UNION { DOMAIN vlans[p] : p \in DOMAIN vlans }

\* q_bridge_xml, dot1qVlanCurrentTable: the kernel's VLANs.
CurrentTable(a, kernel) ==
    LET numbers == PortNumbers(DOMAIN a.ports)
        vlans == PortVlans(a, kernel)
    IN  [ v \in Vlans(vlans) |->
            [ egress |-> PortList(Members(vlans, v), numbers),
              untagged |-> PortList(Untagged(vlans, v), numbers) ] ]

\* q_bridge_xml, dot1qVlanStaticTable: the configured VLANs.
StaticTable(a) ==
    LET numbers == PortNumbers(DOMAIN a.ports)
    IN  [ v \in a.vlans |->
            [ egress |-> PortList({ p \in DOMAIN a.ports : Carries(a.ports[p], v) }, numbers),
              untagged |-> PortList({ p \in DOMAIN a.ports : a.ports[p].native = v }, numbers) ] ]

-----------------------------------------------------------------------------
\* MibModules::from_xpath, and what else the path says: the module of the first
\* step, and whether the path holds "Fdb", "Stp" or, for /stp, "stp".
XPaths ==
    { x \in [module : {"bridge", "q_bridge", "rstp", "none"}, fdb : BOOLEAN, stp : BOOLEAN] :
        /\ x.fdb => x.module \in {"bridge", "q_bridge"} /\ ~x.stp
        /\ x.stp => x.module # "q_bridge" }

\* The kernel's bridge has one entry for each address and VLAN; an address of the
\* bridge as a device, which is dumped like the drivers' ones, is in no VLAN.
ASSUME RequestAssumption ==
    \A q \in Requests :
       /\ q.x \in XPaths
       /\ \A d, e \in q.dump :
             d.mac = e.mac /\ d.vlan = e.vlan /\ ~d.own /\ ~e.own => d = e
       /\ \A d \in q.dump : d.own /\ d.dev = BridgeName => d.vlan = NoVlan

VARIABLES
    applied,   \* SwitchPlugin.applied
    kernel,    \* the bridge VLANs of each port: VLAN -> untagged
    failed,    \* how many commits have failed since one succeeded
    client,    \* the SVI of SwitchPlugin.dhcp's client, or None
    mib        \* the last request's tables, and what was read for them, or None

vars == <<applied, kernel, failed, client, mib>>

Kernel(a) == [p \in DOMAIN a.ports |-> KernelVlans(a.ports[p])]

Init ==
    /\ applied \in Applied
    /\ kernel = Kernel(applied)
    /\ failed = 0
    /\ client = DhcpSvi(applied)
    /\ mib = None

Commit(a) ==
    /\ mib = None
    /\ applied' = a
    /\ kernel' = Kernel(a)
    /\ failed' = 0
    /\ client' = DhcpSvi(a)
    /\ UNCHANGED mib

\* A commit fails when the ports up to p, by name, have got their VLANs.  The
\* client was stopped before, unless it is wanted; one that had exited is
\* forgotten; and after the last port the wanted client may run already.
CommitFails(a, p) ==
    LET done == { q \in DOMAIN a.ports : Rank[q] <= Rank[p] }
    IN  /\ mib = None
        /\ failed < MaxFailures
        /\ kernel' = [ q \in DOMAIN kernel \cup done |->
                        IF q \in done THEN Kernel(a)[q] ELSE kernel[q] ]
        /\ failed' = failed + 1
        /\ client' \in {None} \cup ({client} \cap {DhcpSvi(a)})
                       \cup (IF done = DOMAIN a.ports THEN {DhcpSvi(a)} ELSE {})
        /\ UNCHANGED <<applied, mib>>

NoTables ==
    [ current |-> None, static |-> None, tp |-> None, qtp |-> None, counts |-> None,
      group |-> None, rows |-> None, trees |-> None,
      system |-> None, interfaces |-> None, vlans |-> None, read |-> None ]

Reply(tables, dump, reports, read) ==
    /\ mib' = [tables EXCEPT !.read = [dump |-> dump, reports |-> reports, system |-> read]]
    /\ UNCHANGED <<applied, kernel, failed, client>>

\* mib_state for BRIDGE-MIB or RSTP-MIB, of which only the first has tables here,
\* and bridge_xml, with spanning tree only where it was read.
BridgeTables(module, fdb, state) ==
    LET numbers == PortNumbers(DOMAIN applied.ports)
        stp == state # None /\ module = "bridge"
    IN  { [ NoTables EXCEPT
              !.tp = tp,
              !.group = IF stp THEN StpGroup(state, numbers) ELSE None,
              !.rows = IF stp THEN [p \in DOMAIN numbers |-> StpPortRow(applied.stp, state, p)]
                       ELSE None ] :
            tp \in IF fdb = None \/ module # "bridge" THEN {None} ELSE TpFdbTables(fdb, numbers) }

\* mib_state for Q-BRIDGE-MIB and q_bridge_xml.
QBridgeTables(fdb) ==
    LET numbers == PortNumbers(DOMAIN applied.ports)
        current == CurrentTable(applied, kernel)
    IN  [ NoTables EXCEPT
            !.current = current,
            !.static = StaticTable(applied),
            !.qtp = Opt(fdb, LAMBDA f : QTpFdbTable(f, numbers)),
            !.counts = Opt(fdb, LAMBDA f : [v \in DOMAIN current |-> DynamicCount(f, v)]) ]

\* system_state_xml and state_xml.
StateTables(state, read) ==
    [ NoTables EXCEPT
        !.system = SystemXml(read.clock),
        !.interfaces = InterfacesXml(applied, client, read),
        !.vlans = VlansXml(applied),
        !.trees = Opt(applied.stp, LAMBDA stp : StpStateXml(stp, state)) ]

Default == [ports |-> <<>>, vlans |-> {}, svis |-> <<>>, stp |-> None]

\* statedata: the forwarding database is read only for paths with "Fdb", mstpd
\* asked only for those with "Stp", or "stp" outside the MIBs, while it runs.
StateData(q) ==
    LET module == q.x.module
        fdb == IF q.x.fdb THEN FdbEntries(q.dump, q.names) ELSE None
        state == IF applied.stp # None /\ q.running /\ (q.x.stp \/ module = "rstp")
                 THEN StpState(applied.stp, q.reports) ELSE None
    IN  /\ mib = None
        /\ \/ /\ applied = Default /\ module # "none"
              /\ Reply(NoTables, {}, None, None)
           \/ /\ applied = Default /\ module = "none"
              /\ Reply([NoTables EXCEPT !.system = SystemXml(q.read.clock)], {}, None, q.read)
           \/ /\ applied # Default /\ module \in {"bridge", "rstp"}
              /\ \E tables \in BridgeTables(module, fdb, state) :
                    Reply(tables, q.dump, q.reports, q.read)
           \/ /\ applied # Default /\ module = "q_bridge"
              /\ Reply(QBridgeTables(fdb), q.dump, q.reports, q.read)
           \/ /\ applied # Default /\ module = "none"
              /\ Reply(StateTables(state, q.read), q.dump, q.reports, q.read)

\* interface_states, observe or fdb fails: the request ends with an error, and what
\* it has added already is not answered.
StateDataFails ==
    /\ mib = None
    /\ applied # Default
    /\ Reply(NoTables, {}, None, None)

\* The answer is given to clixon; the thread takes no commit before.
Answered ==
    /\ mib # None
    /\ mib' = None
    /\ UNCHANGED <<applied, kernel, failed, client>>

Next ==
    \/ Answered
    \/ \E a \in Applied : Commit(a)
    \/ \E a \in Applied : \E p \in DOMAIN a.ports : CommitFails(a, p)
    \/ \E q \in Requests : StateData(q)
    \/ StateDataFails

Spec == Init /\ [][Next]_vars

-----------------------------------------------------------------------------
\* Bit n of a list is port n (RFC 4363).
ListedPorts(text) ==
    { p \in DOMAIN applied.ports : PortNumbers(DOMAIN applied.ports)[p] \in Bits(text) }

\* A manager that decodes the lists of the static table finds the ports that
\* the configuration has in the VLAN, and no bit beyond the ports; "as in the
\* kernel (current)" (mib.rs:416-417), the current table is what the kernel's
\* bridge has, also after a commit that failed half way; and after one that
\* succeeded the two agree on every VLAN that has ports (port_list, base64).
PortListsDecode ==
    mib # None
        => /\ mib.static # None => \A v \in DOMAIN mib.static :
                 /\ ListedPorts(mib.static[v].egress)
                      = { p \in DOMAIN applied.ports : Carries(applied.ports[p], v) }
                 /\ Bits(mib.static[v].egress) \subseteq 1..Cardinality(DOMAIN applied.ports)
           /\ mib.current # None => \A p \in DOMAIN applied.ports, v \in DOMAIN mib.current :
                 /\ p \in ListedPorts(mib.current[v].egress)
                       <=> p \in DOMAIN kernel /\ v \in DOMAIN kernel[p]
                 /\ p \in ListedPorts(mib.current[v].untagged)
                       <=> p \in DOMAIN kernel /\ v \in DOMAIN kernel[p] /\ kernel[p][v]
           /\ mib.current # None /\ failed = 0
                 => \A v \in DOMAIN mib.current :
                       v \in DOMAIN mib.static /\ mib.current[v] = mib.static[v]

Unique(rows, Key(_)) == \A r, s \in rows : Key(r) = Key(s) => r = s

\* "The entries of the bridge itself ..., not those of the port drivers"
\* (netlink.rs:246-248) and "one entry per address" (mib.rs:359): whatever the
\* drivers dump beside the bridge, no table of the forwarding database has two
\* rows of one index, a row's port is where the bridge, or the bridge as a device,
\* has the address, and a VLAN counts the learned rows that are shown for it.
FdbIndexed ==
    LET own(mac, port) == \E d \in mib.read.dump :
            /\ d.mac = mac /\ (d.own => d.dev = BridgeName)
            /\ port = NumberOf(PortNumbers(DOMAIN applied.ports), d.dev)
    IN  mib # None
        => /\ mib.tp # None =>
                 /\ Unique(mib.tp, LAMBDA r : r.mac)
                 /\ \A r \in mib.tp : own(r.mac, r.port)
           /\ mib.qtp # None =>
                 /\ Unique(mib.qtp, LAMBDA r : <<r.vlan, r.row.mac>>)
                 /\ \A r \in mib.qtp : own(r.row.mac, r.row.port)
                 /\ \A v \in DOMAIN mib.counts :
                       mib.counts[v] = Cardinality({ r \in mib.qtp : r.vlan = v /\ r.row.status = "learned" })

\* The text is that of the identifier that mstpctl told, decoded bit by bit.
IsId(text, t) ==
    Bits(text) = BitsOf(<<(16 * t.p) % 256, 0>> \o (IF t.mac = None THEN <<0, 0, 0, 0, 0, 0>> ELSE t.mac))

\* The text is that of the port identifier told: four bits of priority, twelve of
\* the number.
IsPort(text, t) ==
    Bits(text) = BitsOf(<<16 * t.p + (t.n % 4096) \div 256, t.n % 256>>)

Within(x, low, high) == x = None \/ x \in low..high

\* "Integer32 (1..200000000)" of dot1dStpPortPathCost32 (BRIDGE-MIB.txt:768), which
\* is also the range of a configured cost.
MaxPathCost == 200000000

\* The cost of port p: the one that mstpctl told, if it is a number of 32 bits, or
\* else the configured one.
CostInUse(p, told) ==
    IF told.ports[p] # None /\ told.ports[p].external_port_cost \in 0..(U32 - 1)
    THEN told.ports[p].external_port_cost
    ELSE applied.stp.cist.ports[p].cost

\* What BRIDGE-MIB shows of the spanning tree is an Integer32 or a Counter32
\* whatever mstpctl tells, 64-bit counters and 32-bit costs included (int32, n %
\* 2^32, MAX_PATH_COST_16); a port's cost is in the ranges of its two objects when
\* the one in use is a cost that spanning tree has (the code itself leaves 0, and
\* what is above, as they are); the root, bridge and port identifiers, which go
\* through hexadecimal, a product and base64, are the ones that were told
\* (bridge_id); and of a port that mstpctl did not tell of there is no state.
StpInRange ==
    mib # None /\ mib.group # None
        => LET told == mib.read.reports[Cist] IN
           /\ Within(mib.group.cost, 0, U32 \div 2 - 1)
           /\ Within(mib.group.changes, 0, U32 - 1)
           /\ mib.group.root_port \in 0..Cardinality(DOMAIN applied.ports)
           /\ mib.group.root # None => IsId(mib.group.root, told.bridge.designated_root)
           /\ \A p \in DOMAIN mib.rows :
                 LET r == mib.rows[p] IN
                 /\ Within(r.cost, 0, 65535)
                 /\ Within(r.cost32, 0, U32 \div 2 - 1)
                 /\ CostInUse(p, told) \in 1..MaxPathCost
                       => r.cost \in 1..65535 /\ r.cost32 \in 1..MaxPathCost
                 /\ Within(r.admin_cost, 0, MaxPathCost)
                 /\ Within(r.designated_cost, 0, U32 \div 2 - 1)
                 /\ Within(r.transitions, 0, U32 - 1)
                 /\ r.root # None => IsId(r.root, told.ports[p].designated_root)
                 /\ r.bridge # None => IsId(r.bridge, told.ports[p].designated_bridge)
                 /\ r.designated_port # None => IsPort(r.designated_port, told.ports[p].designated_port)
                 /\ told.ports[p] = None => r.state = None /\ r.bridge = None
                 /\ r.state = "forwarding" => r.enabled

\* The instances of /stp: their VLANs as ranges, none twice and none that touch,
\* and for each of their ports its internal cost as told for that instance.
InstancesAsTold(mstis, reports) ==
    \A m \in DOMAIN mstis :
       /\ UNION { r[1]..r[2] : r \in ToSet(mstis[m].vlans) } = applied.stp.mstis[m].vlans
       /\ \A k \in DOMAIN mstis[m].vlans \ {1} :
             mstis[m].vlans[k][1] > mstis[m].vlans[k - 1][2] + 1
       /\ \A p \in DOMAIN mstis[m].tree.ports :
             LET s == mstis[m].tree.ports[p].state IN
             /\ s # None <=> reports # None /\ reports[m].ports[p] # None
             /\ s # None => s.path_cost \in {None, reports[m].ports[p].internal_port_cost}

\* The leases of /interfaces: one only where the client is configured and has its
\* slot (DhcpClients::lease does not ask whether it still runs), and time left
\* only for an address that is shown beside it, as one of DHCP.
LeasesAsHeld(svis) ==
    \A i \in { j \in DOMAIN svis : svis[j].lease # None } :
       /\ applied.svis[i] /\ client = i
       /\ svis[i].lease.remaining # None
             => /\ svis[i].lease.address \in DOMAIN svis[i].addresses
                /\ svis[i].addresses[svis[i].lease.address] = "DHCP"

\* Outside the MIBs, too, a request tells what it read, though it reads its parts
\* one after the other and some of them may be missing: /system the date of the
\* clock by the calendar (date_and_time), /interfaces no lease and no time left but
\* those of the address that the client holds (interface_states), /vlans the
\* members that a manager finds in the static table of Q-BRIDGE-MIB (state_xml),
\* and /stp of each tree what mstpctl told of that tree, where an answer that is
\* missing leaves out only its own port (tree_state, vlan_ranges).
StateAsRead ==
    mib # None
        => /\ mib.system # None =>
                 IsClock(mib.system, mib.read.system.clock.days, mib.read.system.clock.secs)
           /\ mib.interfaces # None => LeasesAsHeld(mib.interfaces.svis)
           /\ mib.vlans # None => \A v \in DOMAIN mib.vlans :
                 mib.vlans[v] = ListedPorts(StaticTable(applied)[v].egress)
           /\ mib.trees # None => InstancesAsTold(mib.trees.mstis, mib.read.reports)
=============================================================================
