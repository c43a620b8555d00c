------------------------- MODULE DhcpClientsProofs -------------------------
(***************************************************************************)
(* Proofs about DhcpClients, for any processes and any SVIs: one client,   *)
(* its own lease, its release while its link exists, and that a commit is, *)
(* for the client, a Service as far as safety goes.                        *)
(***************************************************************************)
EXTENDS DhcpClients, TLAPS

Processes == [svi : Svis, bound : BOOLEAN, fresh : BOOLEAN]

Types ==
    /\ phase \in {"idle", "prepared", "down"}
    /\ client = NoClient \/ client \in [svi : Svis, pid : Pids]
    /\ wanted \in Svis \cup {None}
    /\ links \subseteq Svis
    /\ DOMAIN udhcpc \subseteq Pids
    /\ udhcpc \in [DOMAIN udhcpc -> Processes]
    /\ lease \in [Svis -> Pids \cup {None}]
    /\ ok \in BOOLEAN /\ missed \in BOOLEAN

\* A backend that is gone knows of no client and has forgotten its commits.
Down == phase = "down" => client = NoClient /\ wanted = None /\ ok = TRUE /\ missed = FALSE

\* The process in the slot runs on the SVI that the slot names, which in the
\* middle of a commit is the one that is wanted.
OnItsSvi ==
    /\ \A p \in DOMAIN udhcpc : p = client.pid => udhcpc[p].svi = client.svi
    /\ phase = "prepared" /\ client # NoClient => client.svi = wanted

\* A client has lost its link only if this commit has deleted it, which sync sees
\* by the link that is missing or that was created anew, or a failed commit has.
Linked ==
    \A p \in DOMAIN udhcpc :
        p = client.pid /\ ~udhcpc[p].bound /\ ~missed
            => phase = "prepared" /\ (client.svi \in created \/ client.svi \notin links)

IInv == Types /\ Down /\ OnItsSvi /\ Linked /\ OneClient /\ OwnLease

-----------------------------------------------------------------------------
\* What stop leaves: no client at all.
LEMMA Stopped ==
    ASSUME IInv, phase # "down", NEW keep \in BOOLEAN, StopClient(keep)
    PROVE  /\ keep => UNCHANGED <<client, udhcpc, lease>>
           /\ ~keep => client' = NoClient /\ udhcpc' = [p \in {} |-> None]
           /\ udhcpc' \in [DOMAIN udhcpc' -> Processes]
           /\ lease' \in [Svis -> Pids \cup {None}]
<1> USE DhcpAssumption DEF IInv, Types, OneClient, StopClient, NoClient
<1>1. CASE keep
  BY <1>1
<1>2. CASE ~keep /\ client = NoClient
  BY <1>2, ZenonT(60)
<1>3. CASE ~keep /\ client # NoClient
  BY <1>3, ZenonT(60) DEF WithoutPid
<1> QED
  BY <1>1, <1>2, <1>3

\* The invariant holds when the backend starts and no client runs.
LEMMA Initially == Init => IInv
  BY DhcpAssumption, Zenon
  DEF Init, IInv, Types, NoClient, Down, OnItsSvi, Linked, OneClient, OwnLease

\* Every step keeps the invariant: of a commit, of the client, and of a backend that ends.
LEMMA Inductive == IInv /\ [Next]_vars => IInv'
<1> SUFFICES ASSUME IInv, [Next]_vars PROVE IInv'
  OBVIOUS
<1> USE DhcpAssumption
    DEF IInv, Types, Processes, NoClient, Down, OnItsSvi, Linked, OneClient, OwnLease,
        Alive, plugin
<1>1. ASSUME NEW w \in Svis \cup {None}, StopUnwanted(w) PROVE IInv'
  <2>1. Kept(w) \in BOOLEAN
    BY DEF Kept
  <2>2. CASE Kept(w)
    <3>1. UNCHANGED <<client, udhcpc, lease>>
      BY <1>1, <2>2 DEF StopUnwanted, StopClient
    <3> QED
      BY <1>1, <2>2, <3>1 DEF StopUnwanted, Kept
  <2>3. CASE ~Kept(w)
    <3>1. StopClient(Kept(w)) /\ phase # "down"
      BY <1>1 DEF StopUnwanted
    <3>2. /\ client' = NoClient /\ udhcpc' = [p \in {} |-> None]
          /\ udhcpc' \in [DOMAIN udhcpc' -> Processes]
          /\ lease' \in [Svis -> Pids \cup {None}]
      BY <2>1, <2>3, <3>1, Stopped, Zenon
    <3> QED
      BY <1>1, <2>3, <3>2 DEF StopUnwanted
  <2> QED
    BY <2>2, <2>3, Zenon
<1>2. ASSUME NEW i \in Svis, DeleteLink(i) PROVE IInv'
  <2>1. udhcpc' \in [DOMAIN udhcpc' -> Processes]
    <3>1. \A r \in Processes : [r EXCEPT !.bound = FALSE] \in Processes
      BY Zenon
    <3> HIDE DEF Processes
    <3> QED
      BY <1>2, <3>1 DEF DeleteLink
  <2>2. DOMAIN udhcpc' = DOMAIN udhcpc
    BY <1>2 DEF DeleteLink
  <2>3. \A p \in DOMAIN udhcpc :
          /\ udhcpc'[p].svi = udhcpc[p].svi /\ udhcpc'[p].fresh = udhcpc[p].fresh
          /\ udhcpc'[p].svi # i => udhcpc'[p].bound = udhcpc[p].bound
    BY <1>2, ZenonT(60) DEF DeleteLink
  <2> QED
    BY <1>2, <2>1, <2>2, <2>3 DEF DeleteLink
<1>3. ASSUME NEW i \in Svis, CreateLink(i) PROVE IInv'
  BY <1>3 DEF CreateLink
<1>4. CASE CommitFails
  BY <1>4, Zenon DEF CommitFails
<1>5. CASE SyncKeep
  <2>1. Kept(wanted) \in BOOLEAN
    BY DEF Kept
  <2>2. CASE Kept(wanted)
    <3>1. UNCHANGED <<client, udhcpc, lease>>
      BY <1>5, <2>2 DEF SyncKeep, StopClient
    <3> QED
      BY <1>5, <2>2, <3>1 DEF SyncKeep, Kept
  <2>3. CASE ~Kept(wanted)
    <3>1. StopClient(Kept(wanted)) /\ phase # "down"
      BY <1>5 DEF SyncKeep
    <3>2. /\ client' = NoClient /\ udhcpc' = [p \in {} |-> None]
          /\ udhcpc' \in [DOMAIN udhcpc' -> Processes]
          /\ lease' \in [Svis -> Pids \cup {None}]
      BY <2>1, <2>3, <3>1, Stopped, Zenon
    <3> QED
      BY <1>5, <2>3, <3>2 DEF SyncKeep
  <2> QED
    BY <2>2, <2>3, Zenon
<1>6. ASSUME NEW p \in Pids, SyncStart(p) PROVE IInv'
  BY <1>6, Zenon DEF SyncStart
<1>7. CASE SyncStartFails
  <2>1. StopClient(FALSE) /\ phase # "down"
    BY <1>7, Zenon DEF SyncStartFails
  <2>2. /\ client' = NoClient /\ udhcpc' = [p \in {} |-> None]
        /\ udhcpc' \in [DOMAIN udhcpc' -> Processes]
        /\ lease' \in [Svis -> Pids \cup {None}]
    BY <2>1, Stopped, Zenon
  <2> QED
    BY <1>7, <2>2, Zenon DEF SyncStartFails
<1>8. ASSUME NEW p \in Pids, Deconfig(p) PROVE IInv'
  <2>1. p \in DOMAIN udhcpc /\ DOMAIN udhcpc' = DOMAIN udhcpc
    BY <1>8, Zenon DEF Deconfig
  <2>2. udhcpc' \in [DOMAIN udhcpc' -> Processes]
    <3>1. \A r \in Processes : [r EXCEPT !.fresh = FALSE] \in Processes
      BY Zenon
    <3> HIDE DEF Processes
    <3> QED
      BY <1>8, <3>1 DEF Deconfig
  <2>3. \A q \in DOMAIN udhcpc :
          /\ udhcpc'[q].svi = udhcpc[q].svi /\ udhcpc'[q].bound = udhcpc[q].bound
          /\ q # p => udhcpc'[q].fresh = udhcpc[q].fresh
    BY <1>8, <2>1, ZenonT(60) DEF Deconfig
  <2>4. /\ lease' \in [Svis -> Pids \cup {None}]
        /\ lease'[udhcpc[p].svi] = None
        /\ \A i \in Svis : lease'[i] \in {None, lease[i]}
    BY <1>8, <2>1 DEF Deconfig
  <2>5. OwnLease'
    <3> SUFFICES ASSUME client # NoClient, client.pid \in DOMAIN udhcpc, ~udhcpc'[client.pid].fresh
                 PROVE  lease'[client.svi] \in {None, client.pid}
      BY <1>8, <2>1, Zenon DEF Deconfig
    <3>1. CASE client.pid = p
      BY <2>1, <2>4, <3>1, Zenon
    <3>2. CASE client.pid # p
      <4>1. client.svi \in Svis /\ lease[client.svi] \in {None, client.pid}
        BY <2>3, <3>2, Zenon
      <4> QED
        BY <2>4, <4>1, Zenon
    <3> QED
      BY <3>1, <3>2, Zenon
  <2>6. Linked' /\ OnItsSvi'
    BY <1>8, <2>1, <2>3, Zenon DEF Deconfig
  <2> QED
    BY <1>8, <2>1, <2>2, <2>4, <2>5, <2>6, Zenon DEF Deconfig
<1>9. ASSUME NEW p \in Pids, Bound(p) PROVE IInv'
  BY <1>9 DEF Bound
<1>10. ASSUME NEW p \in Pids, Exit(p) PROVE IInv'
  BY <1>10 DEF Exit, WithoutPid
<1>11. CASE BackendExit
  BY <1>11, Zenon DEF BackendExit
<1>12. CASE StopOrphans
  BY <1>12 DEF StopOrphans
<1>13. CASE UNCHANGED vars
  BY <1>13 DEF vars
<1> QED
  BY <1>1, <1>2, <1>3, <1>4, <1>5, <1>6, <1>7, <1>8, <1>9, <1>10, <1>11, <1>12, <1>13, Zenon
  DEF Next

\* So it holds always.
LEMMA Invariance == Spec => []IInv
  BY Initially, Inductive, PTL DEF Spec

\* The only udhcpc beside a backend is the one in DhcpClients.client (OneClient).
THEOREM OneUdhcpc == Spec => []OneClient
  BY Invariance, PTL DEF IInv

\* The lease that the plugin reports is its own client's (OwnLease), once that has
\* called its script.
THEOREM LeaseIsOwn == Spec => []OwnLease
  BY Invariance, PTL DEF IInv

-----------------------------------------------------------------------------
\* A client that is stopped for good is stopped before reconcile has touched its
\* link: only stop_unwanted stops a client that its SVI does not want any more.
LEMMA StopsWhileLinked ==
    ASSUME IInv, [Next]_vars,
           NEW p \in DOMAIN udhcpc \ DOMAIN udhcpc',
           p = client.pid, client' # client, client.svi # wanted', ~missed
    PROVE  udhcpc[p].bound
<1> USE DhcpAssumption DEF IInv, Types, NoClient, OnItsSvi, Linked, plugin
<1>1. p \in Pids /\ client # NoClient
  OBVIOUS
<1>2. CASE phase = "idle"
  BY <1>2
<1>3. CASE phase = "prepared"
  <2>1. client.svi = wanted
    BY <1>1, <1>3
  <2>2. wanted' # wanted
    BY <2>1
  <2>3. BackendExit
    BY <1>3, <2>2, Zenon
    DEF Next, vars, StopUnwanted, DeleteLink, CreateLink, CommitFails, SyncKeep, SyncStart,
        SyncStartFails, Deconfig, Bound, Exit, StopOrphans
  <2> QED
    BY <2>3 DEF BackendExit
<1>4. CASE phase = "down"
  BY <1>1, <1>4 DEF Down
<1> QED
  BY <1>2, <1>3, <1>4

\* "a client that goes away releases its lease while its interface still exists"
\* (dhcp.rs:131-132): ReleasesWhileLinked, for a client that is not wanted any more,
\* unless a commit that failed took the link away before.
THEOREM ReleasesInTime == Spec => ReleasesWhileLinked
<1>1. IInv /\ [Next]_vars
        => [\A p \in DOMAIN udhcpc \ DOMAIN udhcpc' :
              /\ p = client.pid
              /\ client' # client
              /\ client.svi # wanted'
              /\ ~missed
              => udhcpc[p].bound]_vars
  BY StopsWhileLinked
<1> QED
  BY <1>1, Invariance, PTL DEF Spec, ReleasesWhileLinked

-----------------------------------------------------------------------------
(***************************************************************************)
(* For the client, a commit is a Service.                                  *)
(***************************************************************************)

\* The service starts as the backend does.
LEMMA InitiallyService == Init => Clients!Init
<1> SUFFICES ASSUME Init PROVE Clients!Init
  OBVIOUS
<1>1. HasClient
  BY DEF Init, HasClient
<1> QED
  BY <1>1 DEF Init, HasClient, Clients!Init

\* Every step is one of the service or leaves it as it is.
LEMMA StepOfService == IInv /\ IInv' /\ [Next]_vars => [Clients!Next]_(Clients!vars)
<1> SUFFICES ASSUME IInv, IInv', [Next]_vars PROVE [Clients!Next]_(Clients!vars)
  OBVIOUS
<1>b. HasClient \in BOOLEAN /\ HasClient' \in BOOLEAN
  <2>1. \A p \in DOMAIN udhcpc : udhcpc[p].bound \in BOOLEAN
    BY DEF IInv, Types, Processes
  <2>2. \A p \in DOMAIN udhcpc' : udhcpc'[p].bound \in BOOLEAN
    BY DEF IInv, Types, Processes
  <2> QED
    BY <2>1, <2>2, Zenon DEF HasClient, Alive
<1> USE DhcpAssumption DEF IInv, Types, plugin, Clients!Next
<1>1. ASSUME NEW w \in Svis \cup {None}, StopUnwanted(w) PROVE Clients!Begin
  BY <1>1, <1>b, Zenon DEF StopUnwanted, Clients!Begin
<1>2. ASSUME NEW i \in Svis, DeleteLink(i) \/ CreateLink(i) PROVE Clients!Work
  BY <1>2, <1>b DEF DeleteLink, CreateLink, Clients!Work
<1>3. ASSUME CommitFails \/ SyncStartFails PROVE Clients!Fail
  BY <1>3, <1>b, Zenon DEF CommitFails, SyncStartFails, Clients!Fail
<1>4. ASSUME SyncKeep PROVE Clients!Succeed
  <2>1. Kept(wanted) \in BOOLEAN
    BY DEF Kept
  <2>2. missed' \in {FALSE, missed}
    BY <1>4, <2>1, Zenon DEF SyncKeep
  <2>3. CASE wanted = None
    <3>1. ~Kept(wanted) /\ StopClient(Kept(wanted)) /\ phase # "down"
      BY <1>4, <2>3 DEF SyncKeep, Kept, NoClient
    <3>2. client' = NoClient /\ udhcpc' = [p \in {} |-> None]
      BY <3>1, <2>1, Stopped
    <3>3. HasClient'
      BY <1>4, <2>3, <3>2 DEF SyncKeep, HasClient
    <3>4. HasClient' = TRUE
      BY <1>b, <3>3
    <3> QED
      BY <1>4, <2>2, <3>4, Zenon DEF SyncKeep, Clients!Succeed
  <2>4. CASE wanted # None
    <3>1. Kept(wanted) /\ wanted \in links \ created
      BY <1>4, <2>4 DEF SyncKeep
    <3>2. UNCHANGED <<client, udhcpc, wanted>> /\ missed' = missed
      BY <1>4, <3>1, <2>1 DEF SyncKeep, StopClient
    <3>3. ~missed' => HasClient'
      BY <3>1, <3>2, <2>4 DEF HasClient, Kept, Alive, Linked
    <3> QED
      BY <1>4, <1>b, <2>2, <3>3, Zenon DEF SyncKeep, Clients!Succeed
  <2> QED
    BY <2>3, <2>4
<1>5. ASSUME NEW p \in Pids, SyncStart(p) PROVE Clients!Succeed
  <2>1. HasClient'
    BY <1>5 DEF SyncStart, HasClient, Alive
  <2>2. HasClient' = TRUE
    BY <1>b, <2>1
  <2> QED
    BY <1>5, <2>2, Zenon DEF SyncStart, Clients!Succeed
<1>6. ASSUME NEW p \in Pids, Deconfig(p) \/ Bound(p) PROVE UNCHANGED Clients!vars
  <2>1. /\ DOMAIN udhcpc' = DOMAIN udhcpc
        /\ \A q \in DOMAIN udhcpc : udhcpc'[q].bound = udhcpc[q].bound
    BY <1>6 DEF Deconfig, Bound, Processes
  <2>2. udhcpc # [q \in {} |-> None] /\ udhcpc' # [q \in {} |-> None]
    BY <1>6, <2>1 DEF Deconfig, Bound, Alive
  <2>3. HasClient' <=> HasClient
    BY <1>6, <2>1, <2>2 DEF Deconfig, Bound, HasClient, Alive
  <2>4. HasClient' = HasClient
    BY <1>b, <2>3
  <2> QED
    BY <1>6, <2>4 DEF Deconfig, Bound, Clients!vars
<1>7. ASSUME NEW p \in Pids, Exit(p) PROVE Clients!Next
  <2>1. CASE phase = "down"
    BY <1>7, <1>b, <2>1 DEF Exit, Clients!Drift
  <2>2. CASE phase # "down"
    <3>1. p = client.pid /\ client # NoClient
      BY <1>7, <2>2 DEF Exit, Alive, OneClient, NoClient
    <3>2. ~HasClient'
      BY <1>7, <3>1 DEF Exit, WithoutPid, HasClient, Alive
    <3>3. HasClient' = FALSE
      BY <1>b, <3>2
    <3> QED
      BY <1>7, <3>3 DEF Exit, Clients!Lose
  <2> QED
    BY <2>1, <2>2
<1>8. ASSUME BackendExit PROVE Clients!Die
  BY <1>8, <1>b DEF BackendExit, Clients!Die
<1>9. ASSUME StopOrphans PROVE Clients!Succeed
  <2>1. HasClient'
    BY <1>9 DEF StopOrphans, Down, HasClient
  <2>2. HasClient' = TRUE
    BY <1>b, <2>1
  <2> QED
    BY <1>9, <2>2 DEF StopOrphans, Down, Clients!Succeed
<1>10. CASE UNCHANGED vars
  BY <1>10 DEF vars, HasClient, Alive, Clients!vars
<1> QED
  BY <1>1, <1>2, <1>3, <1>4, <1>5, <1>6, <1>7, <1>8, <1>9, <1>10 DEF Next

\* For the DHCP client a commit is a Service, liveness apart: after one that reports
\* success a client runs on the link of the wanted SVI, until it exits by itself,
\* unless a commit that failed took the link away before.
THEOREM CommitIsService == Spec => Clients!Safely
  BY Invariance, InitiallyService, StepOfService, PTL DEF Spec, Clients!Safely
=============================================================================
