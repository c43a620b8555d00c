------------------------------ MODULE MCPlugin ------------------------------
(***************************************************************************)
(* Instance of Plugin for TLC: configurations that differ in one part or   *)
(* in all, with a configured and with a default engine ID, which changes   *)
(* with the bridge's MAC address.                                          *)
(***************************************************************************)
EXTENDS Plugin

CONSTANTS mac1, mac2, id1, vlan10, vlan20, alice

Snmp(e) == [users |-> {alice}, engine_id |-> e]

MCStartup == [stp |-> None, dhcp |-> vlan10, snmp |-> None, other |-> 0]

MCConfigs ==
    { MCStartup,
      [stp |-> None, dhcp |-> vlan10, snmp |-> Snmp(None), other |-> 0],
      [stp |-> 1, dhcp |-> vlan20, snmp |-> Snmp(None), other |-> 1],
      [stp |-> 1, dhcp |-> None, snmp |-> Snmp(id1), other |-> 1] }
=============================================================================
