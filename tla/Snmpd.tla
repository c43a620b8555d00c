------------------------------- MODULE Snmpd -------------------------------
(***************************************************************************)
(* The SNMP agent (switch-net/src/snmp.rs): snmpd, and clixon_snmp as its  *)
(* AgentX subagent, which sync starts, restarts and stops.                 *)
(*                                                                         *)
(* A configuration of snmpd is the set of USM users that its text creates: *)
(* snmpd remembers the users it had in its persistent file, from which an  *)
(* snmpd that finds them there would take them again.                      *)
(***************************************************************************)
EXTENDS Naturals, FiniteSets

CONSTANTS
    Pids,
    Confs,    \* the configurations commits ask for
    None

ASSUME SnmpAssumption == None \notin Pids /\ None \notin Confs

VARIABLES
    phase,       \* "idle", "waiting" (for the socket), "agent" (at the check
                 \* for the subagent), "down" (no clixon_backend)
    snmpd,       \* Snmpd.snmpd
    subagent,    \* Snmpd.subagent
    conf,        \* Snmpd.conf
    file,        \* conf_file
    persistent,  \* the users in snmpd's persistent file
    socket,      \* who opened the AgentX socket, also when it has exited since
    daemons,     \* snmpd processes, with the users each has, or None before
                 \* it has read its files
    agents,      \* clixon_snmp processes, with the snmpd that Snmpd.snmpd was
                 \* when each was started
    early,       \* history: a clixon_snmp was started before the socket existed
    unread,      \* history: the persistent file could not be read when the last
                 \* snmpd was started
    asked,       \* what the last sync was called with, or None to stop
    outcome,     \* of that sync: "none" before it ends, "ok" or "error"
    lost         \* history: a process in a slot has exited since that sync began

slots == <<snmpd, subagent, conf>>
world == <<file, persistent, socket, daemons, agents>>
history == <<early, unread>>
call == <<asked, outcome, lost>>
vars == <<phase, slots, world, history, call>>

Running(processes, p) == p \in DOMAIN processes

With(processes, p, x) ==
    [q \in DOMAIN processes \cup {p} |-> IF q = p THEN x ELSE processes[q]]
Without(processes, p) == [q \in DOMAIN processes \ {p} |-> processes[q]]

NewPid(p) == p \in Pids \ (DOMAIN daemons \cup DOMAIN agents)

\* What the persistent file may hold once the processes in ps have ended: each
\* writes the users it has, unless it is killed.
AfterExit(ps) ==
    { persistent \cup UNION { daemons[p] : p \in S } :
        S \in SUBSET { p \in ps \cap DOMAIN daemons : daemons[p] # None } }

NoProcess == [p \in {} |-> None]

Init ==
    /\ phase = "idle"
    /\ snmpd = None /\ subagent = None /\ conf = None
    /\ file = {}
    /\ persistent = {}
    /\ socket = None
    /\ daemons = NoProcess
    /\ agents = NoProcess
    /\ early = FALSE /\ unread = FALSE
    /\ asked = None /\ outcome = "none" /\ lost = FALSE

-----------------------------------------------------------------------------
\* The slots after sync has looked for processes that exited.
SnmpdNow == IF Running(daemons, snmpd) THEN snmpd ELSE None
SubagentNow == IF Running(agents, subagent) THEN subagent ELSE None

\* `restart` of sync.
Restart(c) == SnmpdNow = None \/ conf # c

\* sync is called with c.
Called(c) == asked' = c /\ lost' = FALSE

\* sync returns.
Returns(result) == outcome' = result /\ UNCHANGED <<asked, lost>>

\* sync, no SNMP wanted: stop.
SyncStop ==
    /\ phase = "idle"
    /\ persistent' \in AfterExit({snmpd})
    /\ agents' = Without(agents, subagent)
    /\ daemons' = Without(daemons, snmpd)
    /\ snmpd' = None /\ subagent' = None /\ conf' = None
    /\ UNCHANGED <<phase, file, socket, history>>
    /\ Called(None) /\ outcome' = "ok"

\* sync, snmpd runs with this configuration: only the subagent is looked after.
SyncKeep(c) ==
    /\ phase = "idle"
    /\ ~Restart(c)
    /\ phase' = "agent"
    /\ subagent' = SubagentNow
    /\ UNCHANGED <<snmpd, conf, world, history>>
    /\ Called(c) /\ outcome' = "none"

\* Mutants of SyncRestart: the old snmpd, the old clixon_snmp or the users of the
\* persistent file are left.
SyncRestartNoStop(c, p) ==
    /\ phase = "idle"
    /\ Restart(c)
    /\ NewPid(p)
    /\ daemons' = With(daemons, p, None)
    /\ file' = c
    /\ persistent' = {}
    /\ socket' = None
    /\ snmpd' = p /\ conf' = c
    /\ phase' = "waiting"
    /\ unread' = FALSE
    /\ UNCHANGED <<subagent, agents, early>>
    /\ Called(c) /\ outcome' = "none"
SyncRestartSnmpdOnly(c, p) ==
    /\ phase = "idle"
    /\ Restart(c)
    /\ NewPid(p)
    /\ daemons' = With(Without(daemons, snmpd), p, None)
    /\ file' = c
    /\ persistent' = {}
    /\ socket' = None
    /\ snmpd' = p /\ subagent' = SubagentNow /\ conf' = c
    /\ phase' = "waiting"
    /\ unread' = FALSE
    /\ UNCHANGED <<agents, early>>
    /\ Called(c) /\ outcome' = "none"
SyncRestartKeepUsers(c, p) ==
    /\ phase = "idle"
    /\ Restart(c)
    /\ NewPid(p)
    /\ agents' = Without(agents, subagent)
    /\ daemons' = With(Without(daemons, snmpd), p, None)
    /\ file' = c
    /\ persistent' \in AfterExit({snmpd})
    /\ unread' = FALSE
    /\ socket' = None
    /\ snmpd' = p /\ subagent' = None /\ conf' = c
    /\ phase' = "waiting"
    /\ UNCHANGED early
    /\ Called(c) /\ outcome' = "none"

\* sync, restart: stop, then start_snmpd up to the loop.  The persistent file
\* loses its users after the old snmpd wrote it, unless it cannot be read: then it
\* is left as it is.  An error of the removal of the old socket is ignored.
SyncRestart(c, p) ==
    /\ phase = "idle"
    /\ Restart(c)
    /\ NewPid(p)
    /\ agents' = Without(agents, subagent)
    /\ daemons' = With(Without(daemons, snmpd), p, None)
    /\ file' = c
    /\ \/ persistent' = {} /\ unread' = FALSE
       \/ persistent' \in AfterExit({snmpd}) /\ unread' = TRUE
    /\ socket' \in {None, socket}
    /\ snmpd' = p /\ subagent' = None /\ conf' = c
    /\ phase' = "waiting"
    /\ UNCHANGED early
    /\ Called(c) /\ outcome' = "none"

\* start_snmpd fails before snmpd runs: a file cannot be written, or the
\* process cannot be started.
SyncRestartFails(c) ==
    /\ phase = "idle"
    /\ Restart(c)
    /\ agents' = Without(agents, subagent)
    /\ daemons' = Without(daemons, snmpd)
    /\ file' \in {file, c}
    /\ persistent' \in AfterExit({snmpd}) \cup {{}}
    /\ socket' \in {socket, None}
    /\ snmpd' = None /\ subagent' = None /\ conf' = None
    /\ UNCHANGED <<phase, history>>
    /\ Called(c) /\ outcome' = "error"

\* The socket exists.
WaitOk ==
    /\ phase = "waiting"
    /\ socket # None
    /\ phase' = "agent"
    /\ UNCHANGED <<slots, world, history>>
    /\ UNCHANGED call

\* snmpd exited before it opened its socket.
WaitExited ==
    /\ phase = "waiting"
    /\ socket = None
    /\ ~Running(daemons, snmpd)
    /\ snmpd' = None /\ conf' = None
    /\ phase' = "idle"
    /\ UNCHANGED <<subagent, world, history>>
    /\ Returns("error")

\* START_TIMEOUT is over: snmpd keeps running and keeps its slot.
WaitTimeout ==
    /\ phase = "waiting"
    /\ socket = None
    /\ Running(daemons, snmpd)
    /\ phase' = "idle"
    /\ UNCHANGED <<slots, world, history>>
    /\ Returns("error")

\* The end of sync: clixon_snmp is started unless its slot is taken.
StartAgent(p) ==
    /\ phase = "agent"
    /\ subagent = None
    /\ NewPid(p)
    /\ agents' = With(agents, p, snmpd)
    /\ subagent' = p
    /\ early' = (early \/ socket = None)
    /\ phase' = "idle"
    /\ UNCHANGED unread
    /\ UNCHANGED <<snmpd, conf, file, persistent, socket, daemons>>
    /\ Returns("ok")

KeepAgent ==
    /\ phase = "agent"
    /\ subagent # None
    /\ phase' = "idle"
    /\ UNCHANGED <<slots, world, history>>
    /\ Returns("ok")

\* Mutant of StartAgentFails: the error is only logged.
StartAgentFailsQuiet ==
    /\ phase = "agent"
    /\ subagent = None
    /\ phase' = "idle"
    /\ UNCHANGED <<slots, world, history>>
    /\ Returns("ok")

StartAgentFails ==
    /\ phase = "agent"
    /\ subagent = None
    /\ phase' = "idle"
    /\ UNCHANGED <<slots, world, history>>
    /\ Returns("error")

-----------------------------------------------------------------------------
\* snmpd reads its configuration and its persistent file, and opens its socket.
SnmpdOpens(p) ==
    /\ Running(daemons, p)
    /\ daemons[p] = None
    /\ daemons' = [daemons EXCEPT ![p] = file \cup persistent]
    /\ socket' = p
    /\ UNCHANGED <<phase, slots, file, persistent, agents, history>>
    /\ UNCHANGED call

\* snmpd exits by itself.
SnmpdExits(p) ==
    /\ Running(daemons, p)
    /\ persistent' \in AfterExit({p})
    /\ daemons' = Without(daemons, p)
    /\ UNCHANGED <<phase, slots, file, socket, agents, history>>
    /\ lost' = (lost \/ p = snmpd) /\ UNCHANGED <<asked, outcome>>

\* clixon_snmp exits by itself.
AgentExits(p) ==
    /\ Running(agents, p)
    /\ agents' = Without(agents, p)
    /\ UNCHANGED <<phase, slots, file, persistent, socket, daemons, history>>
    /\ lost' = (lost \/ p = subagent) /\ UNCHANGED <<asked, outcome>>

\* clixon_backend stops or dies; the processes outlive it.
BackendExit ==
    /\ phase # "down"
    /\ phase' = "down"
    /\ snmpd' = None /\ subagent' = None /\ conf' = None
    /\ UNCHANGED <<world, history>>
    /\ Called(None) /\ outcome' = "none"

\* stop_orphans, when a new clixon_backend starts.
StopOrphans ==
    /\ phase = "down"
    /\ phase' = "idle"
    /\ persistent' \in AfterExit(DOMAIN daemons)
    /\ daemons' = NoProcess
    /\ agents' = NoProcess
    /\ UNCHANGED <<slots, file, socket, history>>
    /\ UNCHANGED call

Next ==
    \/ SyncStop
    \/ \E c \in Confs : SyncKeep(c)
    \/ \E c \in Confs, p \in Pids : SyncRestart(c, p)
    \/ \E c \in Confs : SyncRestartFails(c)
    \/ WaitOk
    \/ WaitExited
    \/ WaitTimeout
    \/ \E p \in Pids : StartAgent(p)
    \/ KeepAgent
    \/ StartAgentFails
    \/ \E p \in Pids : SnmpdOpens(p)
    \/ \E p \in Pids : SnmpdExits(p)
    \/ \E p \in Pids : AgentExits(p)
    \/ BackendExit
    \/ StopOrphans

\* The steps of clixon_backend's thread in a sync: it waits for the socket for
\* START_TIMEOUT at most.
SyncGoesOn ==
    \/ WaitOk
    \/ WaitExited
    \/ WaitTimeout
    \/ \E p \in Pids : StartAgent(p)
    \/ KeepAgent
    \/ StartAgentFails

Spec == Init /\ [][Next]_vars /\ WF_vars(SyncGoesOn)

-----------------------------------------------------------------------------
\* No process is lost: while clixon_backend runs, the only snmpd and the only
\* clixon_snmp are those in Snmpd's slots, whatever exited, timed out or could
\* not be started, and also after a restart of the backend (stop_orphans).
NoneLost ==
    phase # "down" => DOMAIN daemons \subseteq {snmpd} /\ DOMAIN agents \subseteq {subagent}

\* The snmpd p has the users of the configuration c, and none that only an earlier
\* one had, unless the persistent file could not be read when p was started.
HasUsersOf(p, c) ==
    /\ c \subseteq daemons[p]
    /\ ~unread => daemons[p] = c

\* snmpd runs with the configuration that Snmpd.conf says, so that sync is
\* right to leave it alone, and has no user that only an earlier configuration
\* had, if the persistent file could be read: strip_persistent_users has then
\* removed those the earlier snmpd wrote.
RunsWithConf ==
    \A p \in DOMAIN daemons :
        phase # "down" /\ daemons[p] # None => HasUsersOf(p, conf)

\* "restarts, with clixon_snmp" (snmp.rs:6): a clixon_snmp that runs was
\* started after the snmpd that runs, so it is no subagent of an earlier one.
AgentFollowsSnmpd ==
    phase # "down"
        => \A p \in DOMAIN agents, q \in DOMAIN daemons : agents[p] = q

\* Both processes run, snmpd with the users of the configuration asked for, or
\* none does.
HasAgent ==
    IF asked = None
    THEN daemons = NoProcess /\ agents = NoProcess
    ELSE /\ Running(daemons, snmpd)
         /\ daemons[snmpd] # None => HasUsersOf(snmpd, asked)
         /\ conf = asked
         /\ Running(agents, subagent) /\ agents[subagent] = snmpd

Agent == INSTANCE Service WITH
    Loses <- TRUE,
    busy <- phase \in {"waiting", "agent"},
    has <- HasAgent

\* The SNMP agent is a Service: sync ends, and after one that reports success
\* snmpd runs with the users of that configuration, once it has read it (and with
\* no others if its persistent file could be read), and with its subagent, or
\* neither runs if none is wanted, until one exits by itself.
ImplementsService == Agent!Spec

\* "it starts once the socket exists" (snmp.rs:8).
AgentAfterSocket == ~early
=============================================================================
