---------------------------- MODULE DhcpClients ----------------------------
(***************************************************************************)
(* The DHCP client (switch-net/src/dhcp.rs): one udhcpc, on the SVI that   *)
(* wants a lease, through the commits that stop, restart and start it, and *)
(* the lease file its script keeps (scripts/udhcpc-script.sh).             *)
(*                                                                         *)
(* A commit calls stop_unwanted, reconciles the kernel, which may delete   *)
(* and create the links of SVIs, and calls sync.                           *)
(***************************************************************************)
EXTENDS Naturals, FiniteSets

CONSTANTS
    Pids,
    Svis,     \* names of SVIs
    None      \* no process, no SVI, no lease

ASSUME DhcpAssumption == None \notin Pids /\ None \notin Svis

VARIABLES
    phase,     \* "idle", "prepared" (reconciling), "down" (no clixon_backend)
    client,    \* DhcpClients.client: None or [svi, pid]
    wanted,    \* the SVI this commit wants the client on, or None
    links,     \* the SVIs whose link exists
    created,   \* the SVIs whose link this commit has created
    udhcpc,    \* the udhcpc processes: each has
               \*   svi    the SVI it was started on
               \*   bound  whether the link it was started on still exists
               \*   fresh  its script has not run yet
    lease,     \* for each SVI, the process that recorded its lease, or None
    ok,        \* the last commit succeeded
    missed     \* history: a commit took the client's link away and failed
               \* before sync

plugin == <<phase, client, wanted, created, ok, missed>>
vars == <<plugin, links, udhcpc, lease>>

NoClient == [svi |-> None, pid |-> None]

Alive(p) == p \in DOMAIN udhcpc
WithoutPid(p) == [q \in DOMAIN udhcpc \ {p} |-> udhcpc[q]]

Init ==
    /\ phase = "idle"
    /\ client = NoClient
    /\ wanted = None
    /\ links \in SUBSET Svis
    /\ created = {}
    /\ udhcpc = [p \in {} |-> None]
    /\ lease = [i \in Svis |-> None]
    /\ ok = TRUE
    /\ missed = FALSE

-----------------------------------------------------------------------------
\* The client stays as it is: stop_unwanted of w keeps it.
Kept(w) == client # NoClient /\ Alive(client.pid) /\ client.svi = w

\* stop_unwanted(w), and with relinked the stop that sync adds.  stop removes
\* the lease file; of a client that exited it stays.
StopClient(keep) ==
    IF keep \/ client = NoClient
    THEN UNCHANGED <<client, udhcpc, lease>>
    ELSE /\ client' = NoClient
         /\ udhcpc' = WithoutPid(client.pid)
         /\ lease' = IF Alive(client.pid) THEN [lease EXCEPT ![client.svi] = None]
                                          ELSE lease

\* Mutant of StopUnwanted: a client that is not wanted is left to sync.
StopUnwantedLater(w) ==
    /\ phase = "idle"
    /\ phase' = "prepared"
    /\ wanted' = w
    /\ UNCHANGED <<client, udhcpc, lease, ok, missed, created, links>>

\* A commit begins: stop_unwanted, before the kernel is reconciled.
StopUnwanted(w) ==
    /\ phase = "idle"
    /\ phase' = "prepared"
    /\ wanted' = w
    /\ StopClient(Kept(w))
    /\ missed' = (missed /\ Kept(w))
    /\ UNCHANGED <<created, ok, links>>

\* reconcile deletes the link of an SVI.
DeleteLink(i) ==
    /\ phase = "prepared"
    /\ i \in links
    /\ links' = links \ {i}
    /\ udhcpc' = [p \in DOMAIN udhcpc |->
                    IF udhcpc[p].svi = i THEN [udhcpc[p] EXCEPT !.bound = FALSE]
                                         ELSE udhcpc[p]]
    /\ UNCHANGED <<plugin, lease>>

\* reconcile creates the link of an SVI.
CreateLink(i) ==
    /\ phase = "prepared"
    /\ i \notin links
    /\ links' = links \cup {i}
    /\ created' = created \cup {i}
    /\ UNCHANGED <<phase, client, wanted, ok, missed, udhcpc, lease>>

\* The commit fails before sync, and with it goes what its operations were.
CommitFails ==
    /\ phase = "prepared"
    /\ phase' = "idle"
    /\ created' = {}
    /\ ok' = FALSE
    /\ missed' = (missed \/ \E p \in DOMAIN udhcpc : p = client.pid /\ ~udhcpc[p].bound)
    /\ UNCHANGED <<client, wanted, links, udhcpc, lease>>

\* Mutant of SyncKeep: `relinked` is ignored.
SyncKeepStale ==
    /\ phase = "prepared"
    /\ wanted # None => wanted \in links /\ Kept(wanted)
    /\ StopClient(Kept(wanted))
    /\ phase' = "idle"
    /\ ok' = TRUE
    /\ created' = {}
    /\ missed' = (missed /\ Kept(wanted))
    /\ UNCHANGED <<wanted, links>>

\* sync, whose `relinked` is that this commit created the wanted link, and
\* which starts no client: none is wanted, or it runs.
SyncKeep ==
    /\ phase = "prepared"
    /\ wanted # None => wanted \in links /\ Kept(wanted) /\ wanted \notin created
    /\ StopClient(Kept(wanted))
    /\ phase' = "idle"
    /\ ok' = TRUE
    /\ created' = {}
    /\ missed' = (missed /\ Kept(wanted))
    /\ UNCHANGED <<wanted, links>>

\* Mutant of SyncStart: the client of a link that was created anew is left
\* running.
SyncStartNoStop(p) ==
    /\ phase = "prepared"
    /\ wanted \in links
    /\ ~Kept(wanted) \/ wanted \in created
    /\ p \in Pids \ DOMAIN udhcpc
    /\ client' = [svi |-> wanted, pid |-> p]
    /\ udhcpc' = [q \in DOMAIN udhcpc \cup {p} |->
                    IF q = p THEN [svi |-> wanted, bound |-> TRUE, fresh |-> TRUE]
                             ELSE udhcpc[q]]
    /\ phase' = "idle"
    /\ ok' = TRUE
    /\ created' = {}
    /\ missed' = FALSE
    /\ UNCHANGED <<wanted, links, lease>>

\* sync starts a client.  The process writes its pid file at once.
SyncStart(p) ==
    /\ phase = "prepared"
    /\ wanted \in links
    /\ ~Kept(wanted) \/ wanted \in created
    /\ p \in Pids \ DOMAIN udhcpc
    /\ client' = [svi |-> wanted, pid |-> p]
    /\ udhcpc' = [q \in (DOMAIN udhcpc \ {client.pid}) \cup {p} |->
                    IF q = p THEN [svi |-> wanted, bound |-> TRUE, fresh |-> TRUE]
                             ELSE udhcpc[q]]
    /\ lease' = IF Alive(client.pid) THEN [lease EXCEPT ![client.svi] = None] ELSE lease
    /\ phase' = "idle"
    /\ ok' = TRUE
    /\ created' = {}
    /\ missed' = FALSE
    /\ UNCHANGED <<wanted, links>>

\* sync cannot start the client: the commit fails.
SyncStartFails ==
    /\ phase = "prepared"
    /\ wanted \in links
    /\ ~Kept(wanted) \/ wanted \in created
    /\ StopClient(FALSE)
    /\ phase' = "idle"
    /\ ok' = FALSE
    /\ created' = {}
    /\ missed' = FALSE
    /\ UNCHANGED <<wanted, links>>

-----------------------------------------------------------------------------
\* Mutant of Deconfig: the lease file stays.
DeconfigKeepFile(p) ==
    /\ Alive(p)
    /\ udhcpc' = [udhcpc EXCEPT ![p].fresh = FALSE]
    /\ UNCHANGED <<plugin, links, lease>>

\* udhcpc calls its script: deconfig, first of all and whenever it has lost its
\* lease.
Deconfig(p) ==
    /\ Alive(p)
    /\ udhcpc' = [udhcpc EXCEPT ![p].fresh = FALSE]
    /\ lease' = [lease EXCEPT ![udhcpc[p].svi] = None]
    /\ UNCHANGED <<plugin, links>>

\* udhcpc calls its script: bound or renew.
Bound(p) ==
    /\ Alive(p)
    /\ udhcpc[p].bound /\ ~udhcpc[p].fresh
    /\ lease' = [lease EXCEPT ![udhcpc[p].svi] = p]
    /\ UNCHANGED <<plugin, links, udhcpc>>

\* udhcpc exits by itself.
Exit(p) ==
    /\ Alive(p)
    /\ udhcpc' = WithoutPid(p)
    /\ UNCHANGED <<plugin, links, lease>>

\* clixon_backend stops or dies; udhcpc outlives it.
BackendExit ==
    /\ phase # "down"
    /\ phase' = "down"
    /\ client' = NoClient
    /\ wanted' = None
    /\ created' = {}
    /\ ok' = TRUE
    /\ missed' = FALSE
    /\ UNCHANGED <<links, udhcpc, lease>>

\* stop_orphans, when a new clixon_backend starts.
StopOrphans ==
    /\ phase = "down"
    /\ phase' = "idle"
    /\ udhcpc' = [p \in {} |-> None]
    /\ lease' = [i \in Svis |-> None]
    /\ UNCHANGED <<client, wanted, created, ok, missed, links>>

Next ==
    \/ \E w \in Svis \cup {None} : StopUnwanted(w)
    \/ \E i \in Svis : DeleteLink(i)
    \/ \E i \in Svis : CreateLink(i)
    \/ CommitFails
    \/ SyncKeep
    \/ \E p \in Pids : SyncStart(p)
    \/ SyncStartFails
    \/ \E p \in Pids : Deconfig(p)
    \/ \E p \in Pids : Bound(p)
    \/ \E p \in Pids : Exit(p)
    \/ BackendExit
    \/ StopOrphans

\* The steps of clixon_backend's thread in a commit: reconcile returns after
\* MAX_ROUNDS at most, and sync waits for nothing.
CommitGoesOn ==
    \/ CommitFails
    \/ SyncKeep
    \/ \E p \in Pids : SyncStart(p)
    \/ SyncStartFails

Spec == Init /\ [][Next]_vars /\ WF_vars(CommitGoesOn)

-----------------------------------------------------------------------------
\* While clixon_backend runs, the only udhcpc is DhcpClients.client: none is
\* left behind on an SVI that lost its client, nor by an earlier backend.
OneClient == phase # "down" => DOMAIN udhcpc \subseteq {client.pid}

\* "a client that goes away releases its lease while its interface still
\* exists" (dhcp.rs:131-132): a client that is not wanted on its SVI any more
\* is stopped while the link it runs on is there, unless an earlier commit that
\* failed took it away.
ReleasesWhileLinked ==
    [][\A p \in DOMAIN udhcpc \ DOMAIN udhcpc' :
          /\ p = client.pid
          /\ client' # client
          /\ client.svi # wanted'
          /\ ~missed
          => udhcpc[p].bound]_vars

\* The lease the plugin reports is one that its own client obtained, once the
\* client has called its script for the first time.
OwnLease ==
    client # NoClient /\ Alive(client.pid) /\ ~udhcpc[client.pid].fresh
        => lease[client.svi] \in {None, client.pid}

\* The client is where it was wanted last, on the link that exists.
HasClient ==
    IF wanted = None
    THEN client = NoClient /\ udhcpc = [p \in {} |-> None]
    ELSE client.svi = wanted /\ Alive(client.pid) /\ udhcpc[client.pid].bound

Clients == INSTANCE Service WITH
    Loses <- TRUE,
    busy <- phase = "prepared",
    outcome <- IF phase # "idle" THEN "none" ELSE IF ok THEN "ok" ELSE "error",
    has <- HasClient,
    lost <- missed

\* The DHCP client is a Service: a commit ends, and after one that reports
\* success a client runs on the wanted SVI's link and on no other, until it exits
\* by itself, unless a commit that failed took its link away before.
ImplementsService == Clients!Spec

\* "the kernel link of `wanted` was created anew, so a running client is bound
\* to a link that no longer exists and restarts" (dhcp.rs:147-149): after a
\* commit that succeeded, the client that runs is bound to the link that exists.
SuccessBindsClient ==
    phase = "idle" /\ ok
        => \A p \in DOMAIN udhcpc : p = client.pid => udhcpc[p].bound

\* "The lease of the running client" (dhcp.rs:181).
LeaseOfRunningClient ==
    client # NoClient /\ lease[client.svi] # None => Alive(client.pid)
=============================================================================
