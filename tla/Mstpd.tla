------------------------------- MODULE Mstpd -------------------------------
(***************************************************************************)
(* Spanning tree: the plugin's handling of mstpd (switch-net/src/stp.rs)   *)
(* and, as far as the plugin relies on it, mstpd itself.                   *)
(*                                                                         *)
(* A commit calls prepare, reconciles the kernel, and calls configure.     *)
(* prepare starts or stops the process; configure runs the mstpctl         *)
(* commands of the wanted configuration that are not those it ran last     *)
(* time.  Between the two calls the kernel may hand mstpd a new bridge or  *)
(* a new port, whose settings mstpd does not have.                         *)
(*                                                                         *)
(* A command is <<verb, key, value>>: it sets the one value of             *)
(* <<verb, key>>.  The list of commands of a configuration is a set of     *)
(* <<stage, command>>: commands of a lower stage run first, and commands   *)
(* of the same stage (one per tree or port) run in any order, which stands *)
(* for the order of the names.                                             *)
(***************************************************************************)
EXTENDS Integers, FiniteSets

CONSTANTS
    Pids,     \* process ids
    Stps,     \* the spanning tree configurations commits ask for
    None      \* no process, no configuration

\* MAX_FORWARD_DELAY: the longest forward delay, which allows any max age.
MaxForwardDelay == 30

\* DEFAULT_MAX_AGE and DEFAULT_FORWARD_DELAY, which mstpd uses too.
DefaultMaxAge == 20
DefaultForwardDelay == 15

\* The trees of a configuration: the CIST is tree 0.
Trees(s) == {0} \cup s.mstis

(***************************************************************************)
(* What validation (switch-model/src/stp.rs) guarantees of a               *)
(* configuration that reaches a commit.                                    *)
(***************************************************************************)
ASSUME StpAssumption ==
    /\ None \notin Pids
    /\ None \notin Stps
    /\ \A s \in Stps :
          /\ s.max_age \in 6..40
          /\ s.forward_delay \in 4..MaxForwardDelay
          /\ 2 * (s.forward_delay - 1) >= s.max_age
          /\ 0 \notin s.mstis

VARIABLES
    phase,    \* where the commit in progress is: "idle", "waiting" (in
              \* wait_ready), "prepared" (reconciling), "running" (in
              \* configure), "down" (no clixon_backend)
    pid,      \* Mstpd.pid
    applied,  \* Mstpd.applied, of which the commands are a function
    target,   \* the configuration configure is applying
    todo,     \* the commands it has not run yet
    joined,   \* the operations of this reconcile create the bridge or make a
              \* port join it
    unsent,   \* history: such an operation was applied by a reconcile that
              \* failed, so no configure was told
    alive,    \* mstpd processes that exist
    ready,    \* mstpd answers on its control socket
    known,    \* mstpd controls the bridge (addbridge)
    fdelay,   \* mstpd's forward delay
    maxage,   \* mstpd's max age
    trees,    \* the MSTIs mstpd has
    mapped,   \* the MSTIs some FID is mapped to
    settings  \* the other settings in effect, as the commands that set them

plugin == <<phase, pid, applied, target, todo, joined, unsent>>
bridge == <<known, fdelay, maxage, trees, mapped, settings>>
vars == <<plugin, alive, ready, bridge>>

-----------------------------------------------------------------------------
(***************************************************************************)
(* The commands of a configuration, and those that a commit runs.          *)
(***************************************************************************)

\* Mutant of Commands: the timers without the longest delay first.
CommandsPlainTimers(s) ==
    { <<1, <<"setforcevers", 0, s.protocol>>>>,
      <<3, <<"setmaxage", 0, s.max_age>>>>,
      <<4, <<"setfdelay", 0, s.forward_delay>>>>,
      <<5, <<"setbridge", 0, s.bridge>>>>,
      <<7, <<"setvid2fid", 0, s.vlans>>>>,
      <<8, <<"setfid2mstid", 0, s.mstis>>>> }
    \cup { <<6, <<"createtree", i, i>>>> : i \in s.mstis }

\* commands.  setbridge stands for settxholdcount, setmaxhops and
\* setmstconfid, setport for the seven settings of a port, settreeport for
\* settreeportprio and settreeportcost.
Commands(s) ==
    { <<1, <<"setforcevers", 0, s.protocol>>>>,
      <<2, <<"setfdelay", 0, MaxForwardDelay>>>>,
      <<3, <<"setmaxage", 0, s.max_age>>>>,
      <<4, <<"setfdelay", 0, s.forward_delay>>>>,
      <<5, <<"setbridge", 0, s.bridge>>>>,
      <<7, <<"setvid2fid", 0, s.vlans>>>>,
      <<8, <<"setfid2mstid", 0, s.mstis>>>> }
    \cup { <<6, <<"createtree", i, i>>>> : i \in s.mstis }
    \cup { <<10, <<"settreeprio", i, s.priority[i]>>>> : i \in Trees(s) }
    \cup { <<11, <<"setport", p, s.ports[p]>>>> : p \in DOMAIN s.ports }
    \cup { <<12, <<"settreeport", <<i, p>>, s.tree_ports[i][p]>>>> :
              i \in Trees(s), p \in DOMAIN s.ports }

IsTimer(c) == c[1] \in {"setfdelay", "setmaxage"}

\* The set `ran` of changed_commands.
Ran(previous) ==
    IF previous = None THEN {} ELSE { e[2] : e \in Commands(previous) }

\* changed_commands: what `previous` did not run, the timers together, and
\* deletetree once the VLANs of a tree that is gone are mapped away.
ChangedCommands(previous, s) ==
    LET timersChanged ==
            \E e \in Commands(s) : IsTimer(e[2]) /\ e[2] \notin Ran(previous)
        gone == IF previous = None THEN {} ELSE previous.mstis \ s.mstis
    IN  { e \in Commands(s) : \/ e[2] \notin Ran(previous)
                              \/ timersChanged /\ IsTimer(e[2]) }
        \cup { <<9, <<"deletetree", i, i>>>> : i \in gone }

AddBridge == <<0, <<"addbridge", 0, 0>>>>

\* The command configure runs next.
IsNext(e) == e \in todo /\ \A f \in todo : e[1] <= f[1]

-----------------------------------------------------------------------------
(***************************************************************************)
(* mstpd, as the plugin uses it.                                           *)
(***************************************************************************)

\* What a new process knows of the bridge, and what is left after delbridge.
NoBridge ==
    /\ known' = FALSE
    /\ fdelay' = DefaultForwardDelay
    /\ maxage' = DefaultMaxAge
    /\ trees' = {}
    /\ mapped' = {}
    /\ settings' = {}

\* Whether mstpd carries out c: it checks the timers on each change, maps
\* FIDs only to trees it has, and deletes no tree that a FID is mapped to.
Accepts(c) ==
    \/ c[1] = "addbridge"
    \/ /\ known
       /\ c[1] = "setmaxage" => 2 * (fdelay - 1) >= c[3]
       /\ c[1] = "setfdelay" => 2 * (c[3] - 1) >= maxage
       /\ c[1] = "setfid2mstid" => c[3] \subseteq trees
       /\ c[1] = "deletetree" => c[2] \in trees \ mapped
       /\ c[1] = "settreeprio" => c[2] \in {0} \cup trees
       /\ c[1] = "settreeport" => c[2][1] \in {0} \cup trees

SameKey(c, d) == c[1] = d[1] /\ c[2] = d[2]

\* A setting of tree i.
OfTree(c, i) ==
    \/ c[1] = "settreeprio" /\ c[2] = i
    \/ c[1] = "settreeport" /\ c[2][1] = i

\* A setting of some port.
OfPort(c) == c[1] \in {"setport", "settreeport"}

\* The verbs whose effect is not just a value in `settings`.
SpecialVerbs == {"addbridge", "setmaxage", "setfdelay", "createtree", "deletetree"}

Effect(c) ==
    /\ known' = (known \/ c[1] = "addbridge")
    /\ maxage' = IF c[1] = "setmaxage" THEN c[3] ELSE maxage
    /\ fdelay' = IF c[1] = "setfdelay" THEN c[3] ELSE fdelay
    /\ trees' = CASE c[1] = "createtree" -> trees \cup {c[2]}
                  [] c[1] = "deletetree" -> trees \ {c[2]}
                  [] OTHER -> trees
    /\ mapped' = IF c[1] = "setfid2mstid" THEN c[3] ELSE mapped
    /\ settings' = CASE c[1] = "deletetree" ->
                          { d \in settings : ~OfTree(d, c[2]) }
                     [] c[1] \in SpecialVerbs -> settings
                     [] OTHER -> { d \in settings : ~SameKey(d, c) } \cup {c}

-----------------------------------------------------------------------------
Init ==
    /\ phase = "idle"
    /\ pid = None
    /\ applied = None
    /\ target = None
    /\ todo = {}
    /\ joined = FALSE
    /\ unsent = FALSE
    /\ alive = {}
    /\ ready = FALSE
    /\ known = FALSE
    /\ fdelay = DefaultForwardDelay
    /\ maxage = DefaultMaxAge
    /\ trees = {}
    /\ mapped = {}
    /\ settings = {}

\* prepare, spanning tree wanted and mstpd running.  An exited process was
\* noticed first (the other cases of prepare).
PrepareKeep ==
    /\ phase = "idle"
    /\ pid \in alive
    /\ phase' = "prepared"
    /\ UNCHANGED <<pid, applied, target, todo, joined, unsent, alive, ready, bridge>>

\* Mutant of PrepareStart: the running process is not looked for.
PrepareStartAnyway(p) ==
    /\ phase = "idle"
    /\ p \in Pids \ alive
    /\ pid' = p
    /\ applied' = None
    /\ alive' = alive \cup {p}
    /\ ready' = FALSE
    /\ NoBridge
    /\ phase' = "waiting"
    /\ UNCHANGED <<target, todo, joined, unsent>>

\* prepare, wanted and not running: forgets a process that exited, and starts
\* another one.
PrepareStart(p) ==
    /\ phase = "idle"
    /\ pid \notin alive
    /\ p \in Pids \ alive
    /\ pid' = p
    /\ applied' = None
    /\ alive' = alive \cup {p}
    /\ ready' = FALSE
    /\ NoBridge
    /\ phase' = "waiting"
    /\ UNCHANGED <<target, todo, joined, unsent>>

\* prepare, wanted and not running, and the process cannot be started.
PrepareSpawnFails ==
    /\ phase = "idle"
    /\ pid \notin alive
    /\ pid' = None
    /\ applied' = None
    /\ UNCHANGED <<phase, target, todo, joined, unsent, alive, ready, bridge>>

\* wait_ready: mstpd answers.
WaitReadyOk ==
    /\ phase = "waiting"
    /\ ready
    /\ phase' = "prepared"
    /\ UNCHANGED <<pid, applied, target, todo, joined, unsent, alive, ready, bridge>>

\* wait_ready: mstpd exited, or did not answer before START_TIMEOUT.  The
\* process stays in pid, and the commit fails.
WaitReadyFails ==
    /\ phase = "waiting"
    /\ ~ready
    /\ phase' = "idle"
    /\ UNCHANGED <<pid, applied, target, todo, joined, unsent, alive, ready, bridge>>

\* prepare, spanning tree not wanted: delbridge (its failure is ignored), then
\* the process is stopped.  The commit goes on without configure.
PrepareStop ==
    /\ phase = "idle"
    /\ pid # None
    /\ alive' = alive \ {pid}
    /\ ready' = FALSE
    /\ NoBridge
    /\ pid' = None
    /\ applied' = None
    /\ UNCHANGED <<phase, target, todo, joined, unsent>>

\* reconcile creates the bridge anew.
ReconcileNewBridge ==
    /\ phase = "prepared"
    /\ joined' = TRUE
    /\ NoBridge
    /\ UNCHANGED <<phase, pid, applied, target, todo, unsent, alive, ready>>

\* reconcile makes a port join the bridge: mstpd starts it with the defaults.
ReconcileJoin ==
    /\ phase = "prepared"
    /\ joined' = TRUE
    /\ settings' = { c \in settings : ~OfPort(c) }
    /\ UNCHANGED <<phase, pid, applied, target, todo, unsent, alive, ready,
                   known, fdelay, maxage, trees, mapped>>

\* reconcile fails, or the bridge's MAC address cannot be read: the commit
\* ends, and what its operations did is not remembered.
ReconcileFails ==
    /\ phase = "prepared"
    /\ phase' = "idle"
    /\ joined' = FALSE
    /\ unsent' = (unsent \/ joined)
    /\ UNCHANGED <<pid, applied, target, todo, alive, ready, bridge>>

\* Mutant of Configure: `resend` is ignored.
ConfigureNoResend(s) ==
    /\ phase = "prepared"
    /\ todo' = {AddBridge} \cup ChangedCommands(applied, s)
    /\ applied' = None
    /\ target' = s
    /\ joined' = FALSE
    /\ phase' = "running"
    /\ UNCHANGED <<pid, unsent, alive, ready, bridge>>

\* configure, up to its loop: `resend` drops what was applied, and applied is
\* taken, to be set again only after the last command.
Configure(s) ==
    /\ phase = "prepared"
    /\ LET previous == IF joined THEN None ELSE applied
       IN  /\ todo' = {AddBridge} \cup ChangedCommands(previous, s)
           /\ unsent' = (unsent /\ previous # None)
    /\ applied' = None
    /\ target' = s
    /\ joined' = FALSE
    /\ phase' = "running"
    /\ UNCHANGED <<pid, alive, ready, bridge>>

\* configure runs one command, which mstpd carries out.
RunCommand(e) ==
    /\ phase = "running"
    /\ IsNext(e)
    /\ pid \in alive /\ ready
    /\ Accepts(e[2])
    /\ Effect(e[2])
    /\ todo' = todo \ {e}
    /\ UNCHANGED <<phase, pid, applied, target, joined, unsent, alive, ready>>

\* A command fails: mstpd rejects it, has exited, or mstpctl itself fails.
CommandFails ==
    /\ phase = "running"
    /\ todo # {}
    /\ phase' = "idle"
    /\ todo' = {}
    /\ target' = None
    /\ UNCHANGED <<pid, applied, joined, unsent, alive, ready, bridge>>

\* Mutant of ConfigureDone: it does not wait for the last command.
ConfigureDoneEarly ==
    /\ phase = "running"
    /\ phase' = "idle"
    /\ applied' = target
    /\ target' = None
    /\ UNCHANGED <<pid, todo, joined, unsent, alive, ready, bridge>>

\* The last command has run.
ConfigureDone ==
    /\ phase = "running"
    /\ todo = {}
    /\ phase' = "idle"
    /\ applied' = target
    /\ target' = None
    /\ UNCHANGED <<pid, todo, joined, unsent, alive, ready, bridge>>

-----------------------------------------------------------------------------
\* mstpd opens its control socket.
BecomeReady ==
    /\ alive # {}
    /\ ~ready
    /\ ready' = TRUE
    /\ UNCHANGED <<plugin, alive, bridge>>

\* mstpd exits by itself.
Exit ==
    /\ alive # {}
    /\ alive' = {}
    /\ ready' = FALSE
    /\ NoBridge
    /\ UNCHANGED plugin

\* clixon_backend stops or dies, in the middle of a commit or not; mstpd
\* outlives it.
BackendExit ==
    /\ phase # "down"
    /\ phase' = "down"
    /\ pid' = None
    /\ applied' = None
    /\ target' = None
    /\ todo' = {}
    /\ joined' = FALSE
    /\ unsent' = FALSE
    /\ UNCHANGED <<alive, ready, bridge>>

\* A new clixon_backend: start stops every mstpd before the first commit.
StopOrphans ==
    /\ phase = "down"
    /\ phase' = "idle"
    /\ alive' = {}
    /\ ready' = FALSE
    /\ NoBridge
    /\ UNCHANGED <<pid, applied, target, todo, joined, unsent>>

Next ==
    \/ PrepareKeep
    \/ \E p \in Pids : PrepareStart(p)
    \/ PrepareSpawnFails
    \/ WaitReadyOk
    \/ WaitReadyFails
    \/ PrepareStop
    \/ ReconcileNewBridge
    \/ ReconcileJoin
    \/ ReconcileFails
    \/ \E s \in Stps : Configure(s)
    \/ \E e \in todo : RunCommand(e)
    \/ CommandFails
    \/ ConfigureDone
    \/ BecomeReady
    \/ Exit
    \/ BackendExit
    \/ StopOrphans

Spec == Init /\ [][Next]_vars

-----------------------------------------------------------------------------
(***************************************************************************)
(* Properties.                                                             *)
(***************************************************************************)

\* The types of Mstpd's fields and of mstpd's settings: commands are left to
\* run, for a target, only inside configure, and mstpd's timers keep the ranges
\* of 802.1D in every history of commits (configure, prepare).
TypeOK ==
    /\ phase \in {"idle", "waiting", "prepared", "running", "down"}
    /\ pid \in Pids \cup {None}
    /\ applied \in Stps \cup {None}
    /\ target \in Stps \cup {None}
    /\ phase = "running" <=> target # None
    /\ phase # "running" => todo = {}
    /\ joined \in BOOLEAN
    /\ unsent \in BOOLEAN
    /\ alive \subseteq Pids
    /\ ready \in BOOLEAN
    /\ known \in BOOLEAN
    /\ fdelay \in 4..MaxForwardDelay
    /\ maxage \in 6..40

\* While clixon_backend runs, the only mstpd is the one in Mstpd.pid: starting
\* one (prepare) never leaves an earlier one behind, whatever failed or exited
\* in between, and a restarted backend has stopped those of its predecessor
\* before its first commit (stop_orphans: "only one can run").
OnlyOne == phase # "down" => alive \subseteq {pid}

\* The order of commands and changed_commands is one mstpd accepts: no command
\* of a configure is rejected by mstpd's own checks, from whatever timers and
\* trees the earlier commits left, unless an earlier reconcile failed after it
\* had made mstpd forget the bridge.
CommandsAccepted ==
    phase = "running" /\ pid \in alive /\ ~unsent
        => \A e \in todo : IsNext(e) => Accepts(e[2])

\* Everything configuration s asks for is in effect, up to the forward delay.
InEffectBut(s) ==
    /\ known
    /\ maxage = s.max_age
    /\ s.mstis \subseteq trees
    /\ mapped = s.mstis
    /\ \A e \in Commands(s) : e[2][1] \in SpecialVerbs \/ e[2] \in settings

\* What changed_commands relies on when it leaves a command out: after a
\* successful configure, and across commits that fail before configure, the
\* running mstpd has every setting of Mstpd.applied, unless a failed reconcile
\* made it forget some.  The forward delay is exempt where it is the longest
\* one, see ForwardDelayInEffect.
AppliedInEffect ==
    phase \in {"idle", "waiting"} /\ applied # None /\ pid \in alive /\ ~unsent
        => /\ InEffectBut(applied)
           /\ applied.forward_delay # MaxForwardDelay
                 => fdelay = applied.forward_delay

\* "a commit runs those that differ from the list last applied" (stp.rs:7-8):
\* mstpd has the forward delay of the configuration applied last.
ForwardDelayInEffect ==
    phase = "idle" /\ applied # None /\ pid \in alive /\ ~unsent
        => fdelay = applied.forward_delay

\* "deletetree for MSTIs that are gone" (stp.rs:421): after a successful
\* configure mstpd has no tree that the configuration does not have.
NoStaleTrees ==
    phase = "idle" /\ applied # None /\ pid \in alive /\ ~unsent
        => trees = applied.mstis

\* "mstpd forgets the settings of a bridge that is created anew and of a port
\* that joins it, so then every command runs again" (stp.rs:8-10): when
\* configure has run its last command, mstpd has the settings it was given.
SuccessInEffect ==
    phase = "running" /\ todo = {} /\ pid \in alive => InEffectBut(target)

\* "starts mstpd if spanning tree is `wanted`, so that it is ready when the
\* bridge hands spanning tree over" (stp.rs:143-145): while the kernel is
\* reconciled, an mstpd that runs answers.
ReadyForHandover == phase = "prepared" /\ pid \in alive => ready
=============================================================================
