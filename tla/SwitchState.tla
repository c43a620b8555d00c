---------------------------- MODULE SwitchState ----------------------------
(***************************************************************************)
(* The state data of interfaces, VLANs and system: what SwitchPlugin reads *)
(* for them (interface_states, system_state of clixon-switch-plugin/src/   *)
(* lib.rs) and what state_xml (switch-model/src/lib.rs) shows of it.       *)
(*                                                                         *)
(* A request reads, one after the other: the clock as [days, secs], or     *)
(* None; the names of the kernel's links; the addresses of each SVI, those *)
(* that do not expire (static) and those that do, with their time left     *)
(* (dynamic); and the lease file of the running client, or None.  udhcpc's *)
(* script may change the addresses and the file in between.  What is copied*)
(* as it is read is left out: counters, names, statuses and the rest of the*)
(* lease.                                                                  *)
(***************************************************************************)
EXTENDS MibValues, SystemState

\* Port::carries
Carries(port, v) == port.native = v \/ v \in port.tagged

\* DesiredState::dhcp_svi
DhcpSvi(a) ==
    IF \E i \in DOMAIN a.svis : a.svis[i] THEN CHOOSE i \in DOMAIN a.svis : a.svis[i] ELSE None

\* parse_lease: an address needs both of its lines, and a mask of at most 32.
LeaseAddress(file) ==
    IF file.ip = None \/ file.mask = None THEN None
    ELSE IF file.mask <= 32 THEN <<file.ip, file.mask>> ELSE None

\* DhcpClients::lease, for an SVI.
LeaseOf(i, client, file) ==
    IF client = i /\ file # None THEN [address |-> LeaseAddress(file)] ELSE None

\* Mutant of SviState: the time left is that of any address that expires.
SviStateOfAny(i, client, read) ==
    LET dynamic == read.dynamic[i]
        lease == LeaseOf(i, client, read.file)
    IN  [ addresses |-> [ p \in read.static[i] \cup DOMAIN dynamic |->
                            IF p \in DOMAIN dynamic THEN "DHCP" ELSE "STATIC" ],
          lease |-> IF lease = None THEN None
                    ELSE [ address |-> lease.address,
                           remaining |-> IF DOMAIN dynamic # {}
                                         THEN dynamic[CHOOSE p \in DOMAIN dynamic : TRUE] ELSE None ] ]

\* interface_states: the addresses of an SVI with their origin, and the lease with
\* the time that the kernel has left for its address.
SviState(i, client, read) ==
    LET dynamic == read.dynamic[i]
        lease == LeaseOf(i, client, read.file)
    IN  [ addresses |-> [ p \in read.static[i] \cup DOMAIN dynamic |->
                            IF p \in DOMAIN dynamic THEN "DHCP" ELSE "STATIC" ],
          lease |-> IF lease = None THEN None
                    ELSE [ address |-> lease.address,
                           remaining |-> IF lease.address \in DOMAIN dynamic
                                         THEN dynamic[lease.address] ELSE None ] ]

\* state_xml, /interfaces: those that are applied and that the kernel has; the
\* lease only where the client is configured (svi_ipv4_state_xml).
InterfacesXml(a, client, read) ==
    [ ports |-> DOMAIN a.ports \cap read.links,
      svis |-> [ i \in DOMAIN a.svis \cap read.links |->
                   LET s == SviState(i, client, read)
                   IN  [s EXCEPT !.lease = IF a.svis[i] THEN @ ELSE None] ] ]

\* state_xml, /vlans or /port-based-vlans: the members of each VLAN.
VlansXml(a) ==
    [ v \in a.vlans |-> { p \in DOMAIN a.ports : Carries(a.ports[p], v) } ]

\* system_state and system_state_xml: the date, if there is a clock.
SystemXml(clock) == IF clock = None THEN None ELSE DateAndTime(clock.days, clock.secs)
=============================================================================
