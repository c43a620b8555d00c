----------------------------- MODULE MCNetlink -----------------------------
(***************************************************************************)
(* Instance of Netlink for TLC: a bridge, a port and an SVI, operations of *)
(* one, two and three requests, and the hand-over of spanning tree.        *)
(***************************************************************************)
EXTENDS Netlink, TLC

MCNames == {"br-lan", "lan1", "vlan10"}

MCStart ==
    { [ links |-> ("br-lan" :> [Link(Bridge(TRUE, 0, TRUE, "off")) EXCEPT !.up = TRUE])
                  @@ ("lan1" :> [Link(Other) EXCEPT !.master = Br])
                  @@ ("vlan10" :> Link(Vlan(Br, 10))),
        vlans |-> [n \in MCNames |-> IF n = "vlan10" THEN NoVlans ELSE (10 :> Access)],
        static |-> [n \in MCNames |-> IF n = "vlan10" THEN {1} ELSE {}],
        dhcp |-> [n \in MCNames |-> {}] ] }

MCOps ==
    { <<"SetBridgeStp", "br-lan", TRUE>>,
      <<"SetMaster", "lan1", "br-lan">>,
      <<"CreateVlan", "vlan10", 10>> }
=============================================================================
