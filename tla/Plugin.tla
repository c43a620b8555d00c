------------------------------- MODULE Plugin -------------------------------
(***************************************************************************)
(* The backend plugin (clixon-switch-plugin/src/lib.rs): the callbacks     *)
(* that clixon_backend makes, and apply, which takes a configuration       *)
(* through the kernel, mstpd, the DHCP client and snmpd.  Any stage of it  *)
(* may fail and leaves the later stages as they were.                      *)
(*                                                                         *)
(* Each of the four is here what the plugin has given it; Reconcile,       *)
(* Mstpd, DhcpClients and Snmpd are about how it comes to have that, and   *)
(* about processes that exit by themselves.  clixon_backend has one        *)
(* thread, so a request for state data comes between two callbacks.        *)
(***************************************************************************)
CONSTANTS
    Configs,   \* desired states that validate: [stp, dhcp, snmp, other], where
               \*   stp    the spanning tree settings, or None
               \*   dhcp   the SVI with a DHCP client, or None
               \*   snmp   [users, engine_id], where engine_id may be None, or None
               \*   other  everything else in the kernel
    Startup,   \* the configuration that the datastore has before the first commit
    Macs,      \* MAC addresses the bridge may have
    None,
    Mixed      \* in part what a stage that failed was to give

ASSUME PluginAssumption ==
    /\ Startup \in Configs
    /\ {None, Mixed} \cap (Configs \cup Macs) = {}
    /\ \A c \in Configs : Mixed \notin {c.stp, c.dhcp, c.snmp}

VARIABLES
    stage,       \* what comes next: "down", "idle", "validated", the stage of
                 \* apply, or "applied" (trans_commit has returned)
    target,      \* the target of the transaction; its src in trans_revert
    reverting,   \* apply was called by trans_revert
    running,     \* clixon's running datastore
    applied,     \* SwitchPlugin.applied, None for the default
    engine_id,   \* SwitchPlugin.engine_id
    kernel,      \* the configuration that the kernel was given
    mac,         \* the bridge's MAC address, or None
    mstpd,       \* whether Mstpd has a process
    dhcp,        \* the SVI of DhcpClients' client, or None
    snmp,        \* what snmpd runs with: [users, engine], or None
    failed       \* the last apply failed

transaction == <<target, reverting, running>>
parts == <<kernel, mac, mstpd, dhcp, snmp>>
vars == <<stage, transaction, applied, engine_id, parts, failed>>

Init ==
    /\ stage = "down"
    /\ target = Startup
    /\ reverting = FALSE
    /\ running = Startup
    /\ applied = None
    /\ engine_id = None
    /\ kernel = Mixed
    /\ mac \in Macs \cup {None}
    /\ mstpd = FALSE
    /\ dhcp = None
    /\ snmp = None
    /\ failed = FALSE

-----------------------------------------------------------------------------
\* start: the processes that an earlier clixon_backend left are stopped.
Start ==
    /\ stage = "down"
    /\ stage' = "idle"
    /\ mstpd' = FALSE /\ dhcp' = None /\ snmp' = None
    /\ UNCHANGED <<transaction, applied, engine_id, kernel, mac, failed>>

\* clixon_backend stops or dies, also in the middle of apply.  The datastore
\* that the next one commits at its start is Startup again.
BackendExit ==
    /\ stage # "down"
    /\ stage' = "down"
    /\ target' = Startup /\ reverting' = FALSE /\ running' = Startup
    /\ applied' = None /\ engine_id' = None /\ failed' = FALSE
    /\ UNCHANGED parts

\* trans_validate accepts the target; one that it rejects changes nothing.
TransValidate(c) ==
    /\ stage = "idle"
    /\ stage' = "validated"
    /\ target' = c /\ reverting' = FALSE
    /\ UNCHANGED <<running, applied, engine_id, parts, failed>>

\* A callback returns an error, or panics: the transaction ends, the datastore
\* stays as it is, and this plugin, which has not committed, is not reverted.
Fail ==
    /\ stage' = "idle"
    /\ failed' = TRUE
    /\ UNCHANGED transaction

\* Another plugin rejects the target, or trans_commit cannot observe the kernel
\* or read the target any more: nothing is applied.
TransactionEnds ==
    /\ stage = "validated"
    /\ stage' = "idle"
    /\ UNCHANGED <<transaction, applied, engine_id, parts, failed>>

\* apply begins, with stop_unwanted: a client stays only on the SVI wanted.
ApplyBegins(c) ==
    /\ stage' = "prepare"
    /\ dhcp' \in {dhcp, None} \cap {c.dhcp, None}
    /\ UNCHANGED <<running, applied, engine_id, kernel, mac, mstpd, snmp, failed>>

TransCommit ==
    /\ stage = "validated"
    /\ ApplyBegins(target)
    /\ UNCHANGED <<target, reverting>>

\* Mutant of TransRevert: the target is applied again.
TransRevertToTarget ==
    /\ stage = "applied"
    /\ ApplyBegins(target)
    /\ reverting' = TRUE
    /\ UNCHANGED target

\* A plugin that commits after this one fails: clixon calls trans_revert.
TransRevert ==
    /\ stage = "applied"
    /\ ApplyBegins(running)
    /\ reverting' = TRUE
    /\ target' = running

\* trans_revert cannot observe the kernel: it restores nothing.
TransRevertFails ==
    /\ stage = "applied"
    /\ Fail
    /\ UNCHANGED <<applied, engine_id, parts>>

\* All plugins have committed: the target becomes the running configuration.
CommitEnds ==
    /\ stage = "applied"
    /\ stage' = "idle"
    /\ running' = target
    /\ UNCHANGED <<target, reverting, applied, engine_id, parts, failed>>

-----------------------------------------------------------------------------
\* apply: Mstpd::prepare.
Prepare ==
    /\ stage = "prepare"
    /\ stage' = "reconcile"
    /\ mstpd' = (target.stp # None)
    /\ UNCHANGED <<transaction, applied, engine_id, kernel, mac, dhcp, snmp, failed>>

\* Mutant of PrepareFails: the error is only logged.
PrepareFailsGoesOn ==
    /\ stage = "prepare"
    /\ target.stp # None
    /\ mstpd' \in BOOLEAN
    /\ stage' = "reconcile"
    /\ UNCHANGED <<transaction, applied, engine_id, kernel, mac, dhcp, snmp, failed>>

\* mstpd is not running and cannot be started, or does not get ready.
PrepareFails ==
    /\ stage = "prepare"
    /\ target.stp # None
    /\ mstpd' \in BOOLEAN
    /\ Fail
    /\ UNCHANGED <<applied, engine_id, kernel, mac, dhcp, snmp>>

\* apply: reconcile.  Ports that join or leave may change the bridge's MAC
\* address.
Reconcile ==
    /\ stage = "reconcile"
    /\ stage' = IF target.stp = None THEN "dhcp" ELSE "configure"
    /\ kernel' = target
    /\ mac' \in Macs \cup {None}
    /\ UNCHANGED <<transaction, applied, engine_id, mstpd, dhcp, snmp, failed>>

ReconcileFails ==
    /\ stage = "reconcile"
    /\ kernel' \in {kernel, Mixed}
    /\ mac' \in Macs \cup {None}
    /\ Fail
    /\ UNCHANGED <<applied, engine_id, mstpd, dhcp, snmp>>

\* apply: Mstpd::configure, with spanning tree only.
Configure ==
    /\ stage = "configure"
    /\ stage' = "dhcp"
    /\ UNCHANGED <<transaction, applied, engine_id, parts, failed>>

ConfigureFails ==
    /\ stage = "configure"
    /\ Fail
    /\ UNCHANGED <<applied, engine_id, parts>>

\* apply: DhcpClients::sync.
SyncDhcp ==
    /\ stage = "dhcp"
    /\ stage' = "snmp"
    /\ dhcp' = target.dhcp
    /\ UNCHANGED <<transaction, applied, engine_id, kernel, mac, mstpd, snmp, failed>>

SyncDhcpFails ==
    /\ stage = "dhcp"
    /\ target.dhcp # None
    /\ dhcp' = None
    /\ Fail
    /\ UNCHANGED <<applied, engine_id, kernel, mac, mstpd, snmp>>

-----------------------------------------------------------------------------
\* sync_snmp: the engine ID, by default that of the bridge's MAC address; None
\* if there is no address to take it from.
EngineId(s) == IF s.engine_id # None THEN s.engine_id ELSE mac

\* snmpd_conf of s.
Conf(s) == [users |-> s.users, engine |-> EngineId(s)]

\* What is to run for s.
Wanted(s) == IF s = None THEN None ELSE Conf(s)

\* Mutant of SyncSnmp: snmpd is synchronised only if its configuration is not
\* the one applied last.
SyncSnmpIfChanged ==
    /\ stage = "snmp"
    /\ target.snmp # None => EngineId(target.snmp) # None
    /\ IF applied # None /\ applied.snmp = target.snmp
       THEN UNCHANGED <<snmp, engine_id>>
       ELSE /\ snmp' = Wanted(target.snmp)
            /\ engine_id' = IF target.snmp = None THEN None ELSE EngineId(target.snmp)
    /\ applied' = target
    /\ failed' = FALSE
    /\ stage' = IF reverting THEN "idle" ELSE "applied"
    /\ UNCHANGED <<transaction, kernel, mac, mstpd, dhcp>>

\* apply: sync_snmp, and the end of apply.
SyncSnmp ==
    /\ stage = "snmp"
    /\ target.snmp # None => EngineId(target.snmp) # None
    /\ snmp' = Wanted(target.snmp)
    /\ engine_id' = IF target.snmp = None THEN None ELSE EngineId(target.snmp)
    /\ applied' = target
    /\ failed' = FALSE
    /\ stage' = IF reverting THEN "idle" ELSE "applied"
    /\ UNCHANGED <<transaction, kernel, mac, mstpd, dhcp>>

\* The engine ID cannot be told: snmpd and engine_id stay as they are.
NoEngineId ==
    /\ stage = "snmp"
    /\ target.snmp # None /\ target.snmp.engine_id = None
    /\ Fail
    /\ UNCHANGED <<applied, engine_id, parts>>

\* Mutant of SyncSnmpFails: engine_id is set once sync has succeeded.
SyncSnmpFailsKeepsId ==
    /\ stage = "snmp"
    /\ target.snmp # None /\ EngineId(target.snmp) # None
    /\ snmp' \in {None, Conf(target.snmp)}
    /\ Fail
    /\ UNCHANGED <<applied, engine_id, kernel, mac, mstpd, dhcp>>

\* Snmpd::sync fails: snmpd does not run, or runs with the new configuration
\* but without its socket or without clixon_snmp.
SyncSnmpFails ==
    /\ stage = "snmp"
    /\ target.snmp # None /\ EngineId(target.snmp) # None
    /\ snmp' \in {None, Conf(target.snmp)}
    /\ engine_id' = None
    /\ Fail
    /\ UNCHANGED <<applied, kernel, mac, mstpd, dhcp>>

\* statedata, of what is here: the engine ID, and the state of mstpd, asked for
\* with the spanning tree settings that are applied.
StateData ==
    [ engine |-> IF snmp # None THEN engine_id ELSE None,
      stp |-> IF applied # None /\ mstpd THEN applied.stp ELSE None ]

Next ==
    \/ Start
    \/ BackendExit
    \/ \E c \in Configs : TransValidate(c)
    \/ TransactionEnds
    \/ TransCommit
    \/ TransRevert
    \/ TransRevertFails
    \/ CommitEnds
    \/ Prepare
    \/ PrepareFails
    \/ Reconcile
    \/ ReconcileFails
    \/ Configure
    \/ ConfigureFails
    \/ SyncDhcp
    \/ SyncDhcpFails
    \/ SyncSnmp
    \/ NoEngineId
    \/ SyncSnmpFails

\* The steps of clixon_backend's thread in apply: what it calls returns.
ApplyGoesOn ==
    \/ Prepare \/ PrepareFails \/ Reconcile \/ ReconcileFails
    \/ Configure \/ ConfigureFails \/ SyncDhcp \/ SyncDhcpFails
    \/ SyncSnmp \/ NoEngineId \/ SyncSnmpFails

Spec == Init /\ [][Next]_vars /\ WF_vars(ApplyGoesOn)

-----------------------------------------------------------------------------
\* "The engine ID snmpd runs with" (lib.rs:66): whatever stage of whichever
\* commit or revert failed, an engine ID that statedata reports while snmpd runs
\* is the one in snmpd's configuration.
EngineIdOfSnmpd ==
    stage = "idle" /\ StateData.engine # None => StateData.engine = snmp.engine

Applying == stage \in {"prepare", "reconcile", "configure", "dhcp", "snmp"}

\* All four parts have what configuration c says.
InEffect(c) ==
    /\ kernel = c
    /\ mstpd = (c.stp # None)
    /\ dhcp = c.dhcp
    /\ snmp = Wanted(c.snmp)

Switch == INSTANCE Service WITH
    Loses <- FALSE,
    busy <- Applying,
    outcome <- CASE Applying \/ stage = "down" -> "none"
                 [] ~Applying /\ stage # "down" /\ failed -> "error"
                 [] ~Applying /\ stage # "down" /\ ~failed ->
                       IF applied = None THEN "none" ELSE "ok",
    has <- InEffect(IF Applying \/ failed \/ applied = None THEN target ELSE applied),
    lost <- FALSE

\* "Every commit, revert and the startup commit reconcile the kernel with the
\* whole configuration" (lib.rs:4-5): the four parts together are again a Service.
\* An apply ends, and once it has succeeded, whatever failed before it, all of
\* them have what `applied` says until the next apply, so that state data is read
\* with the right configuration in hand.
ImplementsService == Switch!Spec

\* After a commit, and after a revert that "restores the src configuration"
\* (clixon-plugin/src/lib.rs:305), what is applied is the running datastore,
\* and statedata reports spanning tree if that has it.
AppliedIsRunning ==
    stage = "idle" /\ ~failed /\ applied # None
        => applied = running /\ StateData.stp = running.stp

\* The order of apply's stages: the kernel gets its configuration only when
\* mstpd is there for a bridge that is to hand spanning tree over, or gone for
\* one that takes it back, and no client is left on an SVI where none is wanted
\* (one whose SVI stays wanted goes on, also when its link is made anew).
KernelBetween ==
    [][kernel' # kernel => /\ mstpd = (target.stp # None)
                           /\ dhcp \in {None, target.dhcp}]_vars
=============================================================================
