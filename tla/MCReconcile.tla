----------------------------- MODULE MCReconcile -----------------------------
(***************************************************************************)
(* Instance of Reconcile for TLC: a switch with two ports, two VLANs and   *)
(* two SVIs, the kernel after boot and kernels that something else set up. *)
(***************************************************************************)
EXTENDS Reconcile, TLC

MCNames == {"br-lan", "eth0", "lan1", "lan2", "lo", "vlan10", "vlan20", "wlan0"}
MCRank == [n \in MCNames |->
             CASE n = "br-lan" -> 1 [] n = "eth0" -> 2 [] n = "lan1" -> 3
               [] n = "lan2" -> 4 [] n = "lo" -> 5 [] n = "vlan10" -> 6
               [] n = "vlan20" -> 7 [] n = "wlan0" -> 8]

Port(enabled, native, tagged) ==
    [enabled |-> enabled, native |-> native, tagged |-> tagged]
Svi(vlan, addresses, dhcp) ==
    [enabled |-> TRUE, vlan |-> vlan, addresses |-> addresses, dhcp |-> dhcp]
Config(ports, svis, suspended, stp) ==
    [ports |-> ports, svis |-> svis, suspended |-> suspended, stp |-> stp]

\* Access and trunk ports exchange VLANs, SVIs exchange ids and addresses, the
\* DHCP client moves, a VLAN is suspended, a port and an SVI go away.
MCDesired ==
    { Config("lan1" :> Port(TRUE, 10, {}) @@ "lan2" :> Port(TRUE, 10, {20}),
             "vlan10" :> Svi(10, {1}, FALSE), {}, FALSE),
      Config("lan1" :> Port(TRUE, 20, {}) @@ "lan2" :> Port(TRUE, 20, {10}),
             "vlan10" :> Svi(10, {2}, TRUE), {}, TRUE),
      Config("lan1" :> Port(FALSE, NoVlan, {10, 20}),
             "vlan10" :> Svi(20, {3}, FALSE) @@ "vlan20" :> Svi(10, {1}, FALSE),
             {20}, TRUE),
      Config("lan1" :> Port(TRUE, 20, {}) @@ "lan2" :> Port(TRUE, NoVlan, {10}),
             "vlan10" :> Svi(10, {}, FALSE) @@ "vlan20" :> Svi(20, {3}, TRUE),
             {}, FALSE) }

Nothing == [n \in MCNames |-> {}]
PortLink == Link(Dsa("eth0"))
BootLinks == ("lo" :> Link(Other) @@ "eth0" :> Link(Other)
              @@ "wlan0" :> Link(Other) @@ "lan1" :> PortLink @@ "lan2" :> PortLink)

Boot == [ links |-> BootLinks, vlans |-> [n \in MCNames |-> NoVlans],
          static |-> Nothing, dhcp |-> Nothing ]

\* A bridge of a static network script: a default PVID, kernel STP, one port and
\* perhaps a link that is not the plugin's, and the management address on the
\* bridge itself.
Scripted(pvid, mst, entries, others) ==
    [ links |-> ("lan1" :> [PortLink EXCEPT !.master = Br, !.up = TRUE])
                @@ (Br :> [Link(Bridge(TRUE, pvid, mst, "kernel")) EXCEPT !.up = TRUE])
                @@ ("vlan20" :> Link(Vlan(Br, 10)))
                @@ [n \in others |-> [Link(Other) EXCEPT !.master = Br]] @@ BootLinks,
      vlans |-> [[n \in MCNames |-> NoVlans] EXCEPT !["lan1"] = entries],
      static |-> [Nothing EXCEPT !["br-lan"] = {1}],
      dhcp |-> Nothing ]

\* The bridge's name, or an SVI's, is another link's; a port may have an address.
Taken(n, kind) == [Boot EXCEPT !.links = (n :> Link(kind)) @@ BootLinks]

MCKernels ==
    { Boot, Scripted(10, FALSE, 10 :> Access, {}),
      Scripted(1, FALSE, 1 :> Access @@ 10 :> Tagged, {"wlan0"}),
      Scripted(1, TRUE, 1 :> Access @@ 10 :> Tagged, {}),
      Taken("br-lan", Other),
      [Taken("vlan20", Vlan("eth0", 10)) EXCEPT !.static["lan1"] = {3}] }

\* For liveness: two configurations that exchange access and trunk port, and of
\* the kernels the one after boot and one that something else set up.
SomeDesired == { d \in MCDesired : DOMAIN d.ports = {"lan1", "lan2"} /\ DOMAIN d.svis = {"vlan10"} }
SomeKernels == { Boot, Scripted(1, FALSE, 1 :> Access @@ 10 :> Tagged, {"wlan0"}) }
=============================================================================
