---------------------------- MODULE ConfigModel ----------------------------
(***************************************************************************)
(* validate (switch-model/src/lib.rs): a whole configuration, checked and  *)
(* translated to the DesiredState that apply gets, through trans_validate  *)
(* and trans_commit.  A configuration is [switch, stp, snmp, system,       *)
(* leaves], of which SwitchModel, StpModel and SnmpModel are about one     *)
(* part each; leaves are set besides, or again as they are in the parts.   *)
(***************************************************************************)
EXTENDS SwitchModel, StpModel, SnmpModel, Sequences

Tables == INSTANCE Supported

CONSTANTS
    Configs,   \* the configurations of the first transaction
    Hardware   \* the sets of ports the switch may have

ASSUME ConfigAssumption ==
    \A c \in Configs : IsSwitchConfig(c.switch) /\ IsStpConfig(c.stp) /\ IsSnmpConfig(c.snmp)

\* The configured switch ports, which spanning tree runs on.
ConfiguredPorts(c) == OfType(c.switch, "ethernetCsmacd")

\* desired_state reports no error, nor does supported::check.
Valid(c, ports) ==
    /\ Tables!SupportedOk(c.leaves)
    /\ SwitchValid(c.switch, ports)
    /\ StpValid(c.stp, ConfiguredPorts(c))
    /\ SnmpValid(c.snmp)
    /\ SystemOk(c.system)

DesiredState(c) ==
    LET d == DesiredSwitch(c.switch)
    IN  [ ports |-> d.ports, svis |-> d.svis, suspended |-> d.suspended,
          stp |-> DesiredStp(c.stp, ConfiguredPorts(c)),
          snmp |-> DesiredSnmp(c.snmp),
          system |-> DesiredSystem(c.system) ]

-----------------------------------------------------------------------------
(***************************************************************************)
(* A transaction: clixon calls trans_validate, and trans_commit when that  *)
(* succeeds.  Each observes the ports the switch has and validates.  A     *)
(* second transaction changes one leaf of what was committed.              *)
(***************************************************************************)
VARIABLES
    config,   \* the configuration of the transaction
    ports,    \* the ports of the switch
    stage,    \* "edited", "validated", "committed" or "rejected"
    state,    \* what trans_commit hands to apply, None before
    observed, \* the ports trans_commit has observed
    edit      \* what the second transaction changes: "protocol", "snmp", or
              \* "all" in the first

vars == <<config, ports, stage, state, observed, edit>>

Init ==
    /\ config \in Configs
    /\ ports \in Hardware
    /\ stage = "edited"
    /\ state = None
    /\ observed = {}
    /\ edit = "all"

TransValidate ==
    /\ stage = "edited"
    /\ stage' = IF Valid(config, ports) THEN "validated" ELSE "rejected"
    /\ UNCHANGED <<config, ports, state, observed, edit>>

\* Mutant of TransCommit: what was validated is taken for valid.
TransCommitUnchecked ==
    /\ stage = "validated"
    /\ stage' = "committed"
    /\ state' = DesiredState(config)
    /\ observed' = ports
    /\ UNCHANGED <<config, ports, edit>>

TransCommit ==
    /\ stage = "validated"
    /\ IF Valid(config, ports)
       THEN stage' = "committed" /\ state' = DesiredState(config) /\ observed' = ports
       ELSE stage' = "rejected" /\ UNCHANGED <<state, observed>>
    /\ UNCHANGED <<config, ports, edit>>

\* A driver adds or removes ports.
PortsChange(ps) ==
    /\ stage \in {"edited", "validated"}
    /\ ps # ports
    /\ ports' = ps
    /\ UNCHANGED <<config, stage, state, observed, edit>>

\* The second transaction.
Edited(c, what) ==
    /\ stage = "committed" /\ edit = "all"
    /\ config' = c
    /\ edit' = what
    /\ stage' = "edited"
    /\ state' = None
    /\ UNCHANGED <<ports, observed>>

\* It changes enabled-protocol.
SwitchProtocol(p) == Edited([config EXCEPT !.stp.protocols = {p}], "protocol")

\* It enables or disables the engine.
ToggleSnmp == Edited([config EXCEPT !.snmp.enabled = (config.snmp.enabled # TRUE)], "snmp")

Next ==
    \/ TransValidate
    \/ TransCommit
    \/ \E ps \in Hardware : PortsChange(ps)
    \/ \E p \in {"STP", "RSTP", "MSTP"} : SwitchProtocol(p)
    \/ ToggleSnmp

Spec == Init /\ [][Next]_vars
-----------------------------------------------------------------------------
\* What the configuration says of port n and VLAN v: membership in the group,
\* or in an active VLAN as its access VLAN, as its native VLAN, or as one of the
\* VLANs of its trunk, which without trunk-vlans are all.
Member(c, n, v) ==
    IF c.mode = "PORT_BASED"
    THEN v \in DOMAIN c.groups /\ n \in c.groups[v].ports
    ELSE LET s == c.ifs[n].switched
         IN  /\ v \in DOMAIN c.vlans /\ c.vlans[v].status # "SUSPENDED"
             /\ IF s.mode = "TRUNK"
                THEN s.native = v \/ s.trunk = {} \/ \E e \in s.trunk : v \in e[2]..e[3]
                ELSE s.access = v

\* Ports are in the VLANs the configuration puts them in and in no other, so
\* that ports of different groups, and of VLANs that are suspended, exchange no
\* frames (desired_state, switched_vlans, port_groups).
MembersAsConfigured ==
    stage = "committed"
        => \A n \in DOMAIN state.ports :
              LET p == state.ports[n]
              IN  \A v \in DOMAIN config.switch.vlans \cup DOMAIN config.switch.groups :
                     v \in p.tagged \cup ({p.native} \ {None}) <=> Member(config.switch, n, v)

\* What plan relies on: SVIs have VLANs and addresses of their own and names
\* that no port has, and one DHCP client runs at most; every VLAN has a valid id,
\* a port's native VLAN is not one of its tagged VLANs, which port_vlans would
\* take it for; and the ports are ones that the switch has when it is committed,
\* whatever it had when the configuration was validated (`desired`, which observes
\* them, in trans_validate and again in trans_commit).
Plannable ==
    stage = "committed"
        => /\ \A m, n \in DOMAIN state.svis :
                 /\ m # n => /\ state.svis[m].vlan # state.svis[n].vlan
                             /\ state.svis[m].addresses \cap state.svis[n].addresses = {}
                 /\ state.svis[m].dhcp /\ state.svis[n].dhcp => m = n
           /\ Br \notin DOMAIN state.svis
           /\ DOMAIN state.svis \cap observed = {}
           /\ IsDesiredSwitch(state)
           /\ DOMAIN state.ports \subseteq observed
           /\ \A n \in DOMAIN state.ports : state.ports[n].native \notin state.ports[n].tagged

-----------------------------------------------------------------------------
\* What Mstpd relies on when it orders the commands: mstpd accepts the timers
\* together ("2 * (Forward Delay - 1) >= Max Age", stp.rs:439), every tree sets
\* every port, and setvid2fid and setfid2mstid map a VLAN once (msti_of_vlan,
\* stp.rs:505).
MstpdReady ==
    state # None /\ state.stp # None
        => /\ 2 * (state.stp.forward_delay - 1) >= state.stp.max_age
           /\ IsDesiredStp(state.stp, DOMAIN state.ports)
           /\ \A i, j \in state.stp.mstis :
                 i # j => state.stp.vlans[i] \cap state.stp.vlans[j] = {}

-----------------------------------------------------------------------------
\* snmpd: of the access lines of the groups of user u, the ones that requests of
\* at most a level may use and that ask for most.  A request with privacy needs a
\* privacy key.
Selected(lines, u, level) ==
    LET usable == { a \in lines :
                      /\ a[1] = "access" /\ <<"group", a[2], u>> \in lines
                      /\ a[3] = "auth" \/ (level = "priv" /\ <<"createUser", u, TRUE>> \in lines) }
    IN  { a \in usable : a[3] = "auth" => \A b \in usable : b[3] = "auth" }

\* What user u reads: the included OIDs of the view of the access selected.
Reads(lines, u, level) ==
    { o \in Oids :
        \E a \in Selected(lines, u, level) :
            <<"view", a[4], o, TRUE>> \in lines /\ <<"view", a[4], o, FALSE>> \notin lines }

\* The groups that user u is a member of.
VacmGroupsOf(c, u) == { n \in DOMAIN c.groups : \E m \in c.groups[n].members : m.user = u }

\* The same from the configuration (RFC 3415): the access of the strongest level
\* that the request reaches decides, a missing read-view granting nothing.
Granted(c, u, level) ==
    LET reached == { a \in UNION { c.groups[n].access : n \in VacmGroupsOf(c, u) } :
                       a.level = "auth-no-priv" \/ level = "priv" }
        strongest == { a \in reached : a.level = "auth-no-priv"
                                         => \A b \in reached : b.level = "auth-no-priv" }
    IN  UNION { c.views[a.view].include \ c.views[a.view].exclude :
                  a \in { b \in strongest : b.view # None } }

\* RFC 3415 selects one access for a request: no user is in two groups ("MUST NOT
\* be present in more than one group", ietf-snmp-vacm), which the code does not
\* check, and no group has accesses both for usm and for any model, which RFC 3415
\* takes in that order and snmpd_conf writes alike.
Unambiguous(c) ==
    /\ \A u \in DOMAIN c.users, m, n \in DOMAIN c.groups : {m, n} \subseteq VacmGroupsOf(c, u) => m = n
    /\ \A n \in DOMAIN c.groups : \A a, b \in c.groups[n].access : a.model = b.model

SnmpRuns == state # None /\ state.snmp # None

\* snmpd lets a user read at a level what the configuration grants, where every
\* access has a read-view (snmpd_conf) and one access decides: also what is
\* granted, or taken away, with privacy only, as users in such groups have a
\* privacy key (vacm_group, snmp.rs:404-409).
ReadsAsGranted ==
    /\ SnmpRuns
    /\ Unambiguous(config.snmp)
    /\ \A n \in DOMAIN state.snmp.groups : \A a \in state.snmp.groups[n].access : a.view # None
    => \A u \in DOMAIN config.snmp.users, level \in {"auth", "priv"} :
          Reads(SnmpdConf(state.snmp), u, level) = Granted(config.snmp, u, level)

\* "The container of the protocol not in use may hold configuration; it is
\* validated" (stp.rs:5-7) and, of a disabled engine, "The rest of the
\* configuration is validated then too" (snmp.rs:207): what was committed is, when
\* only the protocol is changed or the engine is switched on or off, rejected
\* only if the switch has lost its ports, or an engine lacks what only a running
\* one needs.
UnusedChecked ==
    stage = "rejected" /\ edit # "all"
        => \/ ~SwitchValid(config.switch, ports)
           \/ /\ edit = "snmp"
              /\ \/ config.snmp.versions = None \/ "v3" \notin config.snmp.versions
                 \/ config.snmp.listen = {}
                 \/ ~Complete(config.snmp)

\* A key said again in the entry's config, and a text for people.
Harmless(path) ==
    path[Len(path)] \in {"name", "ip", "description"} /\ path[Len(path) - 1] = "config"

\* "So the plugin rejects what it does not implement itself" (supported.rs:5-7),
\* which the tables of supported.rs and the types that configurations are read
\* into must agree on, in two files each: of what is committed, a leaf that has
\* another value than its default (an identity also with its module's prefix) is
\* read, or is harmless, or no configuration, or of a module for which "not
\* checked" is documented (supported.rs:10-13); and a configuration of leaves that
\* are all read is not rejected for them.  A context that ends in ':' is excepted,
\* which is_value takes for a prefixed "", the default.
NothingIgnored ==
    /\ stage = "committed"
          => \A l \in config.leaves :
                \/ l.path \in Tables!ReadLeaves \/ Harmless(l.path) \/ Tables!Operational(l.path)
                \/ l.value = "default"
                \/ l.value = "prefixed" /\ l.path \in Tables!Identities \cup Tables!Contexts
                \/ ~Tables!Checked(l.path)
    /\ stage = "rejected" /\ Valid([config EXCEPT !.leaves = {}], ports)
          => \E l \in config.leaves : l.path \notin Tables!ReadLeaves

\* "None: nothing is readable" (snmp.rs:182): the same as ReadsAsGranted where
\* accesses have no read-view, which snmpd_conf writes as the view "none".
NothingReadable ==
    SnmpRuns /\ Unambiguous(config.snmp)
        => \A u \in DOMAIN config.snmp.users, level \in {"auth", "priv"} :
              Reads(SnmpdConf(state.snmp), u, level) = Granted(config.snmp, u, level)
=============================================================================
