# TLA+ model of clixon-switch-rs

clixon-switch-rs turns a Linux machine with DSA switch ports into a managed
switch.  It is a plugin of `clixon_backend`: clixon calls it to validate and to
commit an OpenConfig configuration, and the plugin makes the kernel and a
handful of daemons follow.  This directory models the parts of it that change
state, model-checks them with TLC and proves the central ones with TLAPS.

## The system

| Part | Source | What it does |
|---|---|---|
| Backend interface | `crates/clixon-plugin`, `crates/clixon-sys` | C callbacks of clixon as a Rust trait: start, trans_validate, trans_commit, trans_revert, statedata, rpc.  clixon calls them from one thread, one at a time. |
| Plugin | `crates/clixon-switch-plugin` | Implements the trait: validate the configuration, then `apply`: stop an unwanted DHCP client, start or stop mstpd, reconcile the kernel, configure mstpd, start the DHCP client, restart the SNMP agent. |
| Configuration model | `crates/switch-model` | Configuration JSON to `DesiredState`: ports, VLANs, SVIs, spanning tree, SNMP; checks what YANG cannot express.  State data and MIB tables as XML. |
| Kernel reconciliation | `crates/switch-net/src/{lib,plan,netlink,fake}.rs` | Observes links, VLAN entries and addresses, plans operations, applies them, up to `MAX_ROUNDS` rounds. |
| Spanning tree | `crates/switch-net/src/stp.rs` | One mstpd while a protocol is enabled, configured with mstpctl commands. |
| DHCP client | `crates/switch-net/src/dhcp.rs`, `scripts/udhcpc-script.sh` | One udhcpc on the SVI that wants a lease; the script sets the address and writes a lease file. |
| SNMP agent | `crates/switch-net/src/snmp.rs` | snmpd, and clixon_snmp as its AgentX subagent. |
| Processes | `crates/switch-net/src/process.rs` | Spawn, reap, SIGTERM then SIGKILL, find by name. |
| Accounts | `crates/switch-net/src/account.rs` | First login set-up of the admin account, password changes, factory reset. |
| Scripts | `scripts/*.sh` | bridge-stp, the datastore's preparation and the factory default. |
| Command line | `clixon/clixon-switch_cli.c` | Callbacks of clixon's CLI that print state. |

clixon calls the plugin from one thread, so nothing in the plugin runs
concurrently with itself.  What is concurrent are the daemons, which exit, start
slowly and write files when they like; the kernel, whose ports and leased
addresses change between two calls; and failure: every stage of `apply` may
return an error half way, after which clixon reverts with another `apply`, or
the backend dies and its successor finds the daemons still running.  Most of the
hazards in `PROJECT.json` are of that kind: what one commit knew and the next
one no longer does.

## Modules

| Module | Models | State and actions |
|---|---|---|
| `Service` | what `apply` counts on from its parts | The abstract specification: a request ends, and what it reports is true |
| `Mstpd` | `switch-net/src/stp.rs`, its part of `SwitchPlugin::apply` | `Mstpd`'s fields, the mstpd processes and the settings in them; `prepare`, reconcile as mstpd sees it, `configure` command by command, exits, backend restarts |
| `MstpdProofs` | | The inductive invariant of `Mstpd`, and its proof |
| `Kernel` | `switch-net/src/fake.rs` | Links, VLAN entries and addresses; which operations the kernel accepts, what they do, and what they may leave when they fail (operators) |
| `Netlink` | `switch-net/src/netlink.rs` | The socket, sequence numbers, link indexes and the call in progress; observe and apply request by request, answers that are lost or left over, links and leases that others change |
| `Plan` | `switch-net/src/plan.rs` | The operations of a plan and their order (operators): a plan is a set of operations with the rank at which each comes |
| `Reconcile` | `switch-net/src/lib.rs` | observe, plan and apply in rounds, one operation per step; commits; leases that come and go |
| `Snmpd` | `switch-net/src/snmp.rs` | The slots `snmpd` and `subagent`, `conf`, the processes, snmpd's persistent users and its socket |
| `SnmpdProofs`, `DhcpClientsProofs`, `PluginProofs`, `AccountProofs` | | The inductive invariants of these modules, and their proofs |
| `DhcpClients` | `switch-net/src/dhcp.rs`, `scripts/udhcpc-script.sh` | The client's slot, its process, the links it may run on, the lease files |
| `Plugin` | `clixon-switch-plugin/src/lib.rs` | `SwitchPlugin`'s fields and what the four parts were last given; start, the transaction callbacks, the stages of `apply`, each with its failure |
| `Account` | `switch-net/src/account.rs`, the RPCs | The files of the admin account, the request in progress and the scripts that it and the console run, step by step; reboots |
| `Leaves` | | Optional leaves of a configuration |
| `SwitchModel` | `switch-model/src/lib.rs` | VLANs, groups, ports and SVIs: what is valid, and the `DesiredState` (operators) |
| `StpModel` | `switch-model/src/stp.rs` | The same for spanning tree (operators) |
| `SnmpModel` | `switch-model/src/snmp.rs` | The same for SNMP and the system's lines, and the lines of snmpd.conf (operators) |
| `Supported` | `switch-model/src/supported.rs` | The tables of implemented nodes, `check`, and the members that the structs read (operators) |
| `ConfigModel` | `validate`, `desired_state`, `trans_validate`, `trans_commit` | A configuration through a transaction, the ports of the switch changing, and a second transaction that edits a leaf; composes the four above |
| `MibValues` | `switch-model/src/mib.rs`, `switch-net/src/stp.rs` | Numbers with their width, identifiers, port lists and base64 (operators) |
| `StpMib` | `stp.rs` of both crates, `mib.rs` | What is kept of mstpctl's reports, and the tables that show it (operators) |
| `Fdb` | `netlink.rs`, `mib.rs` | The forwarding database and its tables (operators) |
| `SystemState` | `switch-model/src/system.rs` | `date_and_time`, and the Gregorian calendar beside it (operators) |
| `SystemStateProofs` | | That the two agree, for every clock |
| `SwitchState` | `switch-model/src/lib.rs`, `interface_states`, `system_state` | The state under /interfaces, /vlans and /system (operators) |
| `BridgeMib` | `switch-model/src/mib.rs`, `statedata` | Commits and requests for state data; composes the five modules of operators above |

`MC*` modules give the constants values for TLC.  Operators called `Mutant of`
something are wrong variants of the definition that follows them: each makes one
property fail, which shows that the property depends on that code.
`PROJECT.json` maps every definition to the lines it models and names the
mutants.

### How the modules fit together

`ConfigModel` shows of every accepted configuration what the others assume of
theirs: `MstpdReady` is `StpAssumption` of `Mstpd`, and `Plannable` is what
`Plan` and `DhcpClients` take for granted.

`Netlink` justifies the kernel that `Reconcile` works on.  In `Reconcile` an
operation is one step, which carries it out, or leaves one of the kernels of
`AfterFailure`, and observe reports the kernel as it is.  `AppliesOrFails` and
`ObservesOneKernel` show that the round trips of the netlink backend come to
that, as long as nobody else changes links meanwhile.

`Plugin` has the four parts as black boxes that take what they are given or
fail; `Mstpd`, `Reconcile`, `Snmpd` and `DhcpClients` open one box each and have
in turn the rest of `apply` as steps that may fail.  What holds the two views
together is `Service`: a request to have a configuration ends, and after one
that reports success the configuration is in effect until the next request.
`Reconcile`, `Snmpd`, `DhcpClients` and `Plugin` each instantiate it with a
refinement mapping and are shown to implement it (`ImplementsService`).

| Module | A request | The part has what it was asked for |
|---|---|---|
| `Reconcile` | a commit | the kernel matches the desired state |
| `Snmpd` | `sync` | snmpd runs with `conf`, clixon_snmp with that snmpd; or neither if none is wanted |
| `DhcpClients` | the client's part of a commit | a client runs on the wanted SVI, bound to the link that exists; or none runs |
| `Plugin` | `apply` | kernel, mstpd, client and agent have what `applied` says |

`Service` allows two exceptions, which only the daemons use.  `Loses`: what the
part has may go away by itself, when a process exits.  `lost`: it went away in a
way that the request could not see.  For `Snmpd` that is an exit while sync
runs; for `DhcpClients` it is the client whose link an earlier, failed commit
replaced (see `MCDhcpRelinked` below).  `Mstpd` is not shown to be a `Service`:
two of the disagreements below are counterexamples to that, and
`AppliedInEffect` says what holds instead.

### Abstractions

- Names, addresses, users and OIDs are strings or model values of small sets;
  what `check_name`, `check_ifname`, `validate_username`, `validate_password`
  and the YANG types accept is a constant (`ValidNames`, `Words`, `Oids`,
  `Lines`, `Valid`, `Acceptable`).  Error messages and logging are left out.
- A command to mstpd is `<<rank, <<verb, tree, value>>>>`, and the list of
  commands a set; the order is the rank.  Settings that configure treats alike
  share a value.
- An operation of a plan is `<<rank, operation>>`.  `Kernel` follows `FakeNet`,
  the kernel of the repository's tests, not Linux.
- In `Netlink` the kernel answers a request when it is sent, as Linux does, and
  the answer waits in the socket.  The messages are their contents, not their
  bytes.
- The nodes of `Supported` are paths without the keys of lists; a leaf has its
  default value, a text that ends in ':' and the default, or another.
- The firmware's scripts are not in the repository.  In `Account` they are what
  `AccountConfig` says of them, and may fail after any of their steps.  When the
  password cannot be written to one, `run_with_stdin` returns without waiting,
  and the script goes on beside the next request (runner "left") with no
  password to set.
- base64 text is the sequence of the numbers of its characters.  2^32 is the
  constant `U32`, less in the run since TLC's integers have 32 bits; a clock is
  a number of days and of seconds for the same reason.
- Waiting for a process or a socket is a step that ends with an answer or a
  time-out.
- `stop_orphans` and `terminate` are single steps: the signals and waits
  inside them concern a process that nobody else starts.

## Runs

| Run | What it shows | Bounds |
|---|---|---|
| `mstpd` | One mstpd; it accepts every command in the order it is sent; it has the settings of `Mstpd.applied` | two process ids (a process and its successor), four configurations whose timers cannot be changed in one step, whose MSTIs come and go |
| `reconcile` | A successful commit leaves the kernel the configuration describes, after one round, or two where a bridge is reconfigured in place, and the way there leaks no frames and loses no PVID, address or foreign link | two ports, two SVIs, four configurations that exchange VLANs, ids and addresses; kernels as after boot, as a network script leaves them (its bridge with the default PVID 1 or 10, and a link of its own on it), and with names taken; any operation may fail |
| `netlink` | observe reports one kernel, never one link's VLANs and another's addresses; apply does what `Kernel` says; every call returns | a bridge, a port and an SVI; operations of one, two and three requests; two changes by others, one call in a row that gives up, sequence numbers that wrap at 3 |
| `snmpd` | The slots know every process, snmpd has the users of `conf`, and no deleted one if the persistent file could be read; no clixon_snmp outlives its snmpd; sync is a `Service` | four process ids (both processes with their predecessors), three sets of users |
| `dhcp` | One udhcpc, stopped while its link is there, reporting its own lease; its part of a commit is a `Service` | two process ids, two SVIs |
| `plugin` | `applied`, the running datastore, the engine ID and what the parts have agree, whatever stage of a commit or revert failed; apply is a `Service` | four configurations that differ in one part or all, two MAC addresses |
| `account` | A request for the setup sets the password of no account but the one it has created; a password of an account that exists changes only with the current one; the reply is true | names that are free, invalid, a user's and a group's; two good passwords and a short one; a request, a console and a script left behind at any time |
| `config_model` | What validation accepts is read, says what the configuration does, and is what plan, mstpd and snmpd rely on; what is not in use is checked | about 27000 configurations, right and wrong values of one section combined while the others are plain; a switch with one or two ports |
| `bridge_mib` | State data, decoded as a manager does, are in the ranges of the MIB and are what the configuration, the kernel, mstpd and the DHCP client have | eight and nine ports (one and two octets); two commits in a row that fail half way; forwarding tables (with the links they name there or gone), mstpctl's reports and what is read of the system vary one at a time, with values at the edges of their types; any request may fail |

The bounds are small because the code compares only neighbours: a commit with
the one before, a process with its successor, a wanted entry with the one
observed.  The number of commits, of exits and, but for two runs, of failures
is not bounded.  The two are `bridge_mib`, where a second failure in a row
already leaves each port with the VLANs of any of three configurations; and
`netlink`, where an answer that is left over is dropped before the next one is
received, so that the calls that give up in a row matter only to the sequence
numbers (`NetlinkAssumption` says how far these may wrap).  In `bridge_mib` the inputs
of a request need not be combined: each of them goes into tables of its own.
`ConfigModel`, where nothing is remembered but the configuration, has two
transactions.  It may stop, so that deadlock is not checked there; in all other
runs it is.

### Fairness

Four passing runs check liveness: that a call returns (`CallReturns` of
`Netlink`) and that a request ends (`Ends` in the `ImplementsService` of
`Snmpd`, `DhcpClients` and `Plugin`).  The one fairness assumed is weak fairness
of the thread of clixon_backend while it is in such a call (`CallGoesOn`,
`SyncGoesOn`, `CommitGoesOn`, `ApplyGoesOn`).  The code justifies it: nothing in
that thread waits for another thread or a lock; it waits for a daemon only until
a time-out; and the kernel answers a netlink request when it is sent.
Exits, failures, leases, other users of netlink and restarts are never fair.

For `Reconcile` the run checks the safety part (`Safely`).
`MCReconcileService` checks all of it (`EndsAsService`: a commit ends, after
`MAX_ROUNDS` at the latest) on fewer configurations.

### Disagreements between code and documentation

Three runs are expected to fail.  Each checks one property that a comment states
and TLC shows a history in which the code does otherwise:

| Run | The history |
|---|---|
| `mstpd_forward_delay` | A commit changes only the forward delay, to 30.  `setfdelay 30` is in every list of commands, so it is left out as unchanged, and mstpd keeps the old delay. |
| `mstpd_forgotten` | Reconcile adds a port and fails later.  The retried commit has no such operation, so `resend` is false and mstpd keeps its defaults for the port. |
| `snmpd_socket` | snmpd does not open its socket in time.  The next sync finds it in its slot and starts clixon_snmp without waiting. |

The passing runs state what holds in spite of them: `AppliedInEffect` of
`Mstpd`, for instance, is about what configure has sent, the longest delay
excepted.

Further disagreements are kept as properties with their configurations, of which
TLC finds counterexamples too; they are of the same kind as one of the above, or
milder, or depend on what lies outside the repository:

| Configuration | Property | The history |
|---|---|---|
| `MCMstpdStaleTrees` | `NoStaleTrees` ("deletetree for MSTIs that are gone", `stp.rs:421`) | A configure fails half way.  `applied` is gone, so the next one does not know which trees to delete. |
| `MCDhcpRelinked` | `SuccessBindsClient` ("a running client is bound to a link that no longer exists and restarts", `dhcp.rs:147-149`) | Reconcile replaces the client's link and the commit fails later.  The retried commit has `relinked` false and the client stays on a link that is gone. |
| `MCMstpdReady` | `ReadyForHandover` ("so that it is ready when the bridge hands spanning tree over", `stp.rs:143-145`) | mstpd is not ready in time and stays in `pid`; the next commit does not wait for it. |
| `MCReconcileForeign` | `AlwaysAccepted` ("in an order the kernel accepts", `plan.rs:18-19`) | ConfigureBridge removes a default entry, and the plan removes it again; `FakeNet` rejects that, the retried commit succeeds. |
| `MCReconcileMove` | `NeverWithoutAddress` (`plan.rs:29-30`) | An SVI that changes its VLAN loses its link, and the address, before the new one is created. |
| `MCDhcpLease` | `LeaseOfRunningClient` ("The lease of the running client", `dhcp.rs:181`) | udhcpc exits by itself; its lease file is reported until the next commit. |
| `MCConfigModelNone` | `NothingReadable` ("None: nothing is readable", `switch-model/src/snmp.rs:182`) | A configuration defines a view named "none", which is what snmpd_conf writes for an access without one. |

Others have no configuration; the properties that come near them say what they
leave out:

- `RunsWithConf`: start_snmpd goes on when it cannot read the persistent file
  (`switch-net/src/snmp.rs:184`), so that snmpd starts with the users that it had
  saved; `snmpd_conf` says that "the plugin removes those snmpd saved in its
  persistent file before it starts snmpd" (`switch-model/src/snmp.rs:511-512`).
  The variable `unread` of `Snmpd` marks such a start.
- `StpInRange`: dot1dStpPortPathCost32 is "Integer32 (1..200000000)"
  (`mib/BRIDGE-MIB.txt:768`), whereas the code shows 0 and anything up to 2^31 - 1
  if mstpctl tells it (`mib.rs:521-523`).  The ranges hold for a cost that
  spanning tree has.
- `StpInRange` leaves dot1dStpTimeSinceTopologyChange out, which is the seconds
  times 100 as a 64-bit number (`mib.rs:181-186`), whereas its type, TimeTicks,
  ends at 4294967295 (`mib/SNMPv2-SMI.txt:205-207`), 497 days after a topology
  change.
- `ReadsAsGranted` and `NothingReadable`: a user may be a member of two groups,
  which the YANG module forbids in words only ("MUST NOT be present in more than
  one group", `ietf-snmp-vacm@2014-12-10.yang:107-109`), and a group may have an
  access for usm beside one for any at the same level.  snmpd then uses one of
  them.  `Unambiguous` leaves both out.
- `NothingIgnored`: `is_value` drops a prefix from any text, so that a context
  that ends in ':' is taken for the empty one (`supported.rs:349, 490-497`),
  although "Identities may carry a module prefix" is meant.
- `OthersLeftAlone`: a foreign link that is enslaved to a bridge which the plan
  replaces loses its master, although "any other link is left alone"
  (`plan.rs:23`).

## Proofs

### Spanning tree

`MstpdProofs` proves of `Mstpd`, for any set of process ids and any set of
configurations:

- `TypeCorrect`: `Spec => []TypeOK`;
- `OneProcess`: `Spec => []OnlyOne`, two mstpd processes never run;
- `OrderAccepted`: `Spec => []CommandsAccepted`, mstpd accepts every command of a
  configure, whatever earlier commits left behind;
- `AppliedStaysInEffect`: `Spec => []AppliedInEffect`, between two configures the
  running mstpd has every setting of `applied`, so that the next one may leave
  out what has not changed; the forward delay is excepted where it is the longest.

The last two are about histories without `unsent`: they say nothing once a
reconcile has made mstpd forget the bridge or a port and then failed, which is
what `mstpd_forgotten` is about.

The assumption is `StpAssumption`: `None` is neither a process nor a
configuration, and the timers of a configuration are in their YANG ranges and
satisfy 2 * (forward delay - 1) >= max age.  `ConfigModel` checks
that validation ensures the inequality (`MstpdReady`).

`CommandsAccepted` is not inductive: whether `setmaxage` is accepted depends on
the forward delay at that moment, which depends on which of the three timer
commands have run, and on what the previous commit left if they are skipped.
The inductive invariant `IInv` adds

- `TimersConsistent`: the inequality holds of mstpd's own timers at every moment,
- `Shape`: what each phase of a commit implies of `applied`, `pid` and `joined`,
- `AppliedSettled`: while the process is alive and nothing has joined the bridge
  since, mstpd has all that `applied` sets,
- `RunningHalf`: in the middle of a configure every command of the target has
  either still to run or is in effect, and the timers are in one of the four
  positions that the order allows (`HalfTimers`).

The proof goes action by action.  The lemmas it rests on are about the list of
commands: the timers' commands are sent together or not at all
(`ChangedTimers`), no two commands of a list set the same thing unless they are
timers (`UniqueKey`), what is left out of a list is in effect
(`UnchangedHolds`), and a command leaves the others' effects alone
(`EffectHolds`).

### Calendar

`SystemStateProofs` proves `DateIsClock`: for every number of days since 1970
and every second of a day, what `date_and_time` computes is a date of the
Gregorian calendar, and that date and time lie exactly that many days and
seconds after 1 January 1970 (`IsClock`).  The calendar is defined on its own, by
leap years and the lengths of months, and the run `bridge_mib` checks the same
at the edges (`StateAsRead`).  The code counts years from March in eras of 400
years.  So the argument has three parts: its year of the era and month of the
year are the ones in which the day falls (`YearOfEra`, `MonthOfYear`); such years
and months begin where the calendar has it (`MarchYears`, `MarchMonths`); and
hours, minutes and seconds make the second of the day (`TimeOfDay`).  There is no
assumption; the theorem is about mathematical integers, where the code has i64,
whose range no clock in seconds leaves.

### The other daemons, the plugin and the account

Four modules prove the same kind of theorem, each from an inductive invariant
`IInv` of its own and action by action.  The constants are arbitrary sets; the
assumptions are that `None` is not one of their members, and what the modules
that declare the constants say of them.

| Module | Theorems | What `IInv` adds, and why |
|---|---|---|
| `SnmpdProofs` | `SlotsKnowAll` (`NoneLost`), `UsersOfConf` (`RunsWithConf`), `SubagentOfSnmpd` (`AgentFollowsSnmpd`) | `Unopened`: what snmpd is going to read, from the moment it was started; `Serving`: what sync has started so far, on its way to a success |
| `DhcpClientsProofs` | `OneUdhcpc` (`OneClient`), `LeaseIsOwn` (`OwnLease`), `ReleasesInTime` (`ReleasesWhileLinked`) | `OnItsSvi`: the process in the slot runs on the SVI that the slot names; `Linked`: a client without its link is one that sync is going to see |
| `PluginProofs` | `ReportsEngineId` (`EngineIdOfSnmpd`), `AppliedAgrees` (`AppliedIsRunning`), `KernelInTurn` (`KernelBetween`) | `Progress`: what the stages that are behind have given to their parts; `Settled`: what is in effect between two applies; `EngineIdKnown` in every stage |
| `AccountProofs` | `SetsUpOnce` (`SetupOnce`), `ChangeNeedsCurrent` (`NeedsCurrent`), `AnswersTruly` (`ReplyIsTrue`) | `Requests`, `Scripted`: for which request a script runs, how far it is, and which passwords that request has seen; `Setup`: a script that is past the account has created it |

`SyncIsService`, `CommitIsService` and `ApplyIsService` prove the safety part of
the refinements (`Safely` of `Service`): every step of `Snmpd`, `DhcpClients` and
`Plugin`, seen through its refinement mapping, is a step of `Service` or changes
nothing.  The exceptions are those of the properties: a persistent file that
could not be read, a link that a failed commit took away, an apply that failed.

Everything else is model-checked only: that a request ends, since that is
liveness, and the properties of `Reconcile`, `Netlink`, `ConfigModel` and
`BridgeMib`.

## Not modelled

- `clixon-sys`, and in `clixon-plugin` the conversions between C and Rust.
- The layout of netlink messages, and the counters of `interface_states`.
- In state data: dot1dBase, RSTP-MIB and the timers of BRIDGE-MIB, the settings per
  port and VLAN of Q-BRIDGE-MIB, the XML, and values that are copied as they were
  read.
- The parsers of `system.rs` for /proc and os-release, of mstpctl's JSON, and of
  the lease file but for its address.  They are text processing without state.
- Routes and resolv.conf, which the udhcpc script writes.
- The signals and waits inside `terminate`.
- The scripts that run once at boot, and the CLI's callbacks: a few commands
  each, and nothing that runs beside them.

## Plan

1. Composition: one `apply` over `Mstpd`, `Reconcile`, `DhcpClients` and `Snmpd`
   in place of the black boxes of `Plugin`, with what it remembers between
   commits (`resend`, `relinked`) computed from the plan itself.
2. Liveness: a commit that is retried while nothing fails any more succeeds.
3. Theorems: `RoundsSuffice` and `PlanAccepted` of `Reconcile`, for any ports and
   configurations; `Plannable` of `ConfigModel`.
