----------------------------- MODULE Reconcile -----------------------------
(***************************************************************************)
(* reconcile (switch-net/src/lib.rs): observe, plan and apply, round after *)
(* round, for one commit after the other, with the kernel, the DHCP        *)
(* client's addresses and failures in between.                             *)
(***************************************************************************)
EXTENDS Plan

CONSTANTS
    Desired,      \* the desired states commits ask for
    Kernels,      \* the kernels the first commit may find
    Leases        \* the addresses a DHCP server hands out

MaxRounds == 3    \* MAX_ROUNDS

\* The links that are the plugin's to change.
Owned(k, n) == n = Br \/ IsKind(k, n, "dsa") \/ IsVlanOf(k, n, Br)

\* What a commit may find: br-lan is no switch port, at most one VLAN link on it
\* has a given id, loopback and the conduits are there and not the plugin's, and
\* addresses with a lifetime are leases.
Sound(k) ==
    /\ IsKernel(k)
    /\ ~IsKind(k, Br, "dsa")
    /\ \A m, n \in { l \in DOMAIN k.links : IsVlanOf(k, l, Br) } :
          k.links[m].kind.id = k.links[n].kind.id => m = n
    /\ \A n \in PlatformLinks(k) \ {NoLink} : Exists(k, n) /\ ~Owned(k, n)
    /\ \A n \in Names : k.dhcp[n] \subseteq Leases

ASSUME ReconcileAssumption ==
    /\ Leases \subseteq Nat
    /\ \A d \in Desired : IsDesired(d)
    /\ \A k \in Kernels : Sound(k)

VARIABLES
    kernel,
    status,    \* "idle", "observe" or "apply"
    desired,   \* what the commit in progress, or the last one, asks for
    round,
    todo,      \* the operations of this round that are not applied yet
    client,    \* the SVI whose DHCP client runs
    outcome,   \* of the last commit: "none", "ok", "error"
    before     \* history: the kernel when the commit started

vars == <<kernel, status, desired, round, todo, client, outcome, before>>

\* dhcp_svi: validation allows one at most.
DhcpSvi(d) ==
    IF \E n \in DOMAIN d.svis : d.svis[n].dhcp
    THEN CHOOSE n \in DOMAIN d.svis : d.svis[n].dhcp
    ELSE NoLink

\* The kernel when the DHCP client has removed its address from SVI n.
Released(k, n) == IF n = NoLink THEN k ELSE [k EXCEPT !.dhcp[n] = {}]

Init ==
    /\ kernel \in Kernels
    /\ status = "idle"
    /\ desired \in Desired
    /\ round = 0
    /\ todo = {}
    /\ client = NoLink
    /\ outcome = "none"
    /\ before = kernel

\* A commit starts: a DHCP client that is not wanted, or not on this SVI, is
\* stopped.  It releases its lease, or is killed and leaves the address.
Commit(d) ==
    /\ status = "idle"
    /\ desired' = d
    /\ status' = "observe"
    /\ round' = 1
    /\ IF client = DhcpSvi(d)
       THEN UNCHANGED <<client, kernel>>
       ELSE client' = NoLink /\ kernel' \in {kernel, Released(kernel, client)}
    /\ before' = kernel'
    /\ outcome' = "none"
    /\ UNCHANGED todo

\* The commit ends; after a success the DHCP client runs where it is wanted.
Finish(result) ==
    /\ status' = "idle"
    /\ outcome' = result
    /\ round' = 0
    /\ todo' = {}
    /\ client' = IF result = "ok" THEN DhcpSvi(desired) ELSE client
    /\ UNCHANGED <<desired, before>>

\* A round observes the kernel and plans.
Observe ==
    /\ status = "observe"
    /\ round <= MaxRounds
    /\ ~NameTaken(desired, kernel)
    /\ IF Plan(desired, kernel) = {}
       THEN Finish("ok") /\ UNCHANGED kernel
       ELSE /\ todo' = Plan(desired, kernel)
            /\ status' = "apply"
            /\ UNCHANGED <<kernel, desired, round, client, outcome, before>>

\* The kernel cannot be observed, an SVI's name is taken, or the rounds are
\* used up.
ObserveFails == status = "observe" /\ Finish("error") /\ UNCHANGED kernel

\* The next operation; after the last one the next round starts.
ApplyOp ==
    /\ status = "apply"
    /\ \E e \in todo :
          /\ IsFirst(e, todo)
          /\ Accepts(kernel, e[2])
          /\ kernel' = Apply(kernel, e[2])
          /\ todo' = todo \ {e}
    /\ IF todo' = {} THEN status' = "observe" /\ round' = round + 1
                     ELSE UNCHANGED <<status, round>>
    /\ UNCHANGED <<desired, client, outcome, before>>

\* The kernel rejects the operation, or netlink fails in it.
OpFails ==
    /\ status = "apply"
    /\ \E e \in todo : IsFirst(e, todo) /\ kernel' \in AfterFailure(kernel, e[2])
    /\ Finish("error")

\* udhcpc's script, bound or renew: the leased address, unless it is one of the
\* static ones, and no longer the one it replaces.
LeaseBound(p) ==
    /\ client # NoLink /\ Exists(kernel, client)
    /\ kernel' = [kernel EXCEPT !.dhcp[client] = {p} \ kernel.static[client]]
    /\ UNCHANGED <<status, desired, round, todo, client, outcome, before>>

\* An address with a lifetime expires, or udhcpc's script removes it.
LeaseLost(n) ==
    /\ kernel.dhcp[n] # {}
    /\ kernel' = Released(kernel, n)
    /\ UNCHANGED <<status, desired, round, todo, client, outcome, before>>

Next ==
    \/ \E d \in Desired : Commit(d)
    \/ Observe
    \/ ObserveFails
    \/ ApplyOp
    \/ OpFails
    \/ \E p \in Leases : LeaseBound(p)
    \/ \E n \in Names : LeaseLost(n)

\* The steps of clixon_backend's thread in a commit, which netlink answers.
CommitGoesOn == Observe \/ ObserveFails \/ ApplyOp \/ OpFails

Spec == Init /\ [][Next]_vars /\ WF_vars(CommitGoesOn)

-----------------------------------------------------------------------------
(***************************************************************************)
(* What a kernel that matches d looks like, said without operations.       *)
(***************************************************************************)

Matches(d, k) ==
    /\ IsConfigured(k)
    /\ k.links[Br].up
    /\ k.links[Br].kind.stp = IF d.stp THEN "user" ELSE "off"
    /\ \A n \in SwitchPorts(k) :
          IF n \in DOMAIN d.ports
          THEN /\ k.links[n].master = Br
               /\ k.links[n].up = d.ports[n].enabled
               /\ k.vlans[n] = PortVlans(d.ports[n])
          ELSE k.links[n].master = NoLink /\ ~k.links[n].up
    /\ k.vlans[Br] = SelfVlans(d)
    /\ { n \in DOMAIN k.links : IsVlanOf(k, n, Br) } = DOMAIN d.svis
    /\ \A n \in DOMAIN d.svis :
          /\ k.links[n].kind.id = d.svis[n].vlan
          /\ k.links[n].up = d.svis[n].enabled
          /\ k.static[n] = d.svis[n].addresses
          /\ ~d.svis[n].dhcp => k.dhcp[n] = {}
    /\ \A n \in SwitchPorts(k) \cup {Br} : k.static[n] \cup k.dhcp[n] = {}
    /\ \A n \in PlatformLinks(k) : Exists(k, n) => k.links[n].up

Reconciler == INSTANCE Service WITH
    Loses <- FALSE,
    busy <- status # "idle",
    has <- Matches(desired, kernel),
    lost <- FALSE

\* reconcile is a Service: a commit that reports success has left the kernel the
\* configuration describes, and leases that come and go afterwards leave it so.
ImplementsService == Reconciler!Safely

\* So it is with the promise that a commit ends, after MAX_ROUNDS at most.
EndsAsService == Reconciler!Spec

\* "Round one does the work, round two picks up side effects, round three must
\* find nothing" (lib.rs:237-238), so that reconcile never gives up for want of
\* rounds: side effects are only that ConfigureBridge drops a default VLAN that is
\* wanted, all others a plan foresees, and after it the next one is empty.  And
\* plan finds nothing exactly when nothing is left to do, from whatever kernel,
\* half changed by failed commits, it started.
RoundsSuffice ==
    status = "observe" /\ ~NameTaken(desired, kernel)
        => LET done == Plan(desired, kernel) = {}
           IN  /\ done <=> Matches(desired, kernel)
               /\ round > 1 /\ (IsConfigured(before) \/ FreshBridge(before)) => done
               /\ round > 2 => round = 3 /\ done

\* "in an order the kernel accepts" (plan.rs:18-19): the kernel rejects no
\* operation of a plan, whatever failed commits left behind, save for addresses
\* that a lease changed since.  Bridges that plan changes with ConfigureBridge
\* are left to AlwaysAccepted.  Nor are there, at any moment, two VLAN links of
\* the bridge with one id, which the kernel would reject.
PlanAccepted ==
    /\ status = "apply" /\ (IsConfigured(before) \/ FreshBridge(before))
          => \A e \in todo :
                IsFirst(e, todo) => \/ Accepts(kernel, e[2])
                                    \/ e[2][1] \in {"AddAddress", "DelAddress"} /\ e[2][3] \in Leases
    /\ \A m, n \in { l \in DOMAIN kernel.links : IsVlanOf(kernel, l, Br) } :
          kernel.links[m].kind.id = kernel.links[n].kind.id => m = n

\* "in an order the kernel accepts" (plan.rs:18-19), for any bridge.
AlwaysAccepted ==
    status = "apply"
        => \A e \in todo :
              IsFirst(e, todo) => \/ Accepts(kernel, e[2])
                                  \/ e[2][1] \in {"AddAddress", "DelAddress"} /\ e[2][3] \in Leases

\* "Spanning tree is switched on before ports join the bridge, so that they
\* never flood BPDUs" (plan.rs:26-27): with spanning tree wanted no port joins
\* a bridge whose spanning tree is not mstpd's.
StpBeforeJoin ==
    [][\A n \in SwitchPorts(kernel) :
          /\ desired.stp
          /\ kernel.links[n].master # Br
          /\ kernel'.links[n].master = Br
          => kernel.links[Br].kind.stp = "user"]_vars

\* "a port keeps a PVID while its native VLAN changes" (plan.rs:293-294).
KeepsPvid ==
    status = "apply" /\ ~FreshBridge(before) /\ IsConfigured(before)
        => \A n \in SwitchPorts(kernel) \cap DOMAIN desired.ports :
              /\ before.links[n].master = Br
              /\ Pvids(before, n) # {}
              /\ desired.ports[n].native # NoVlan
              => Cardinality(Pvids(kernel, n)) = 1

\* While ports move between VLANs, none is in a VLAN that is neither one it was
\* in nor one it is to be in (plan, with what joining a bridge hands out).
VlansOldOrNew ==
    status # "idle"
        => \A n \in SwitchPorts(kernel) :
              DOMAIN kernel.vlans[n] \subseteq
                  DOMAIN before.vlans[n]
                  \cup (IF n \in DOMAIN desired.ports
                        THEN DOMAIN PortVlans(desired.ports[n]) ELSE {})

\* "Any other link is left alone" (plan.rs:23), but that platform links come up,
\* and that a link which something else put into the bridge loses its master when
\* the bridge is replaced.
OthersLeftAlone ==
    [][\A n \in DOMAIN kernel.links :
          ~Owned(kernel, n)
          => /\ Exists(kernel', n)
             /\ LET l == kernel.links[n]
                IN  kernel'.links[n] \in
                       {l}
                       \cup When(n \in PlatformLinks(kernel), {[l EXCEPT !.up = TRUE]})
                       \cup When(l.master = Br /\ ~Exists(kernel', Br), {[l EXCEPT !.master = NoLink]})
             /\ kernel'.static[n] = kernel.static[n]]_vars

\* "New addresses are added before stale ones are removed" (plan.rs:29): an SVI
\* that keeps its link and has static addresses before and after the commit has
\* one at every moment.
SviKeepsAddress ==
    status = "apply"
        => \A n \in ExistingSvis(desired, before) :
              before.static[n] # {} /\ desired.svis[n].addresses # {}
              => kernel.static[n] # {}

\* "moving the management address does not pass through a state without one"
\* (plan.rs:29-30).
NeverWithoutAddress ==
    status = "apply"
        => LET ours(k) == { n \in DOMAIN k.links : Owned(k, n) }
           IN  /\ \E n \in ours(before) : before.static[n] # {}
               /\ \E n \in DOMAIN desired.svis : desired.svis[n].addresses # {}
               => \E n \in ours(kernel) : kernel.static[n] # {}
=============================================================================
