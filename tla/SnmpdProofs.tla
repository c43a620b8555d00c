---------------------------- MODULE SnmpdProofs ----------------------------
(***************************************************************************)
(* Proofs about Snmpd, for any processes and any configurations: what the  *)
(* slots know of the processes, and that sync is a Service as far as       *)
(* safety goes.                                                            *)
(***************************************************************************)
EXTENDS Snmpd, TLAPS

Phases == {"idle", "waiting", "agent", "down"}

Types ==
    /\ phase \in Phases
    /\ DOMAIN daemons \subseteq Pids /\ DOMAIN agents \subseteq Pids
    /\ asked \in Confs \cup {None}
    /\ lost \in BOOLEAN

\* A backend that is gone has no slots and serves no sync.
Down == phase = "down" => snmpd = None /\ subagent = None /\ asked = None /\ outcome = "none"

\* An snmpd that has not read its files yet will find in them what conf says, and,
\* if the plugin could read the persistent one, nothing that an earlier one wrote.
Unopened ==
    \A p \in DOMAIN daemons :
        phase # "down" /\ daemons[p] = None => file = conf /\ (~unread => persistent = {})

\* sync, on its way to a success: what it has started so far runs, unless it has
\* exited since; and where none is asked for, no slot is taken.
Serving ==
    /\ asked = None => snmpd = None /\ subagent = None
    /\ phase \in {"waiting", "agent"} =>
          /\ asked \in Confs /\ conf = asked
          /\ Running(daemons, snmpd) \/ lost
    /\ phase = "waiting" => subagent = None
    /\ phase = "agent" /\ subagent # None => Running(agents, subagent) \/ lost

IInv == Types /\ Down /\ Unopened /\ Serving /\ NoneLost /\ RunsWithConf /\ AgentFollowsSnmpd

-----------------------------------------------------------------------------
\* The invariant holds when the backend starts and no snmpd runs.
LEMMA Initially == Init => IInv
  BY SnmpAssumption, Zenon
  DEF Init, IInv, Types, Phases, Down, Unopened, Serving, NoneLost, RunsWithConf,
      AgentFollowsSnmpd, NoProcess

\* Every step keeps the invariant: of sync, of the processes, and of a backend that ends.
LEMMA Inductive == IInv /\ [Next]_vars => IInv'
<1> SUFFICES ASSUME IInv, [Next]_vars PROVE IInv'
  OBVIOUS
<1> USE SnmpAssumption
    DEF IInv, Types, Phases, Down, Unopened, Serving, NoneLost, RunsWithConf,
        AgentFollowsSnmpd, HasUsersOf, Running, slots, world, history, call
<1>1. CASE SyncStop
  BY <1>1, Zenon DEF SyncStop, Without, Called
<1>2. ASSUME NEW c \in Confs, SyncKeep(c) PROVE IInv'
  BY <1>2, Zenon DEF SyncKeep, SubagentNow, SnmpdNow, Restart, Called
<1>3. ASSUME NEW c \in Confs, NEW p \in Pids, SyncRestart(c, p) PROVE IInv'
  BY <1>3, Zenon DEF SyncRestart, Without, With, Called, NewPid
<1>4. ASSUME NEW c \in Confs, SyncRestartFails(c) PROVE IInv'
  BY <1>4, Zenon DEF SyncRestartFails, Without, Called
<1>5. CASE WaitOk
  BY <1>5 DEF WaitOk
<1>6. CASE WaitExited
  BY <1>6 DEF WaitExited, Returns
<1>7. CASE WaitTimeout
  BY <1>7 DEF WaitTimeout, Returns
<1>8. ASSUME NEW p \in Pids, StartAgent(p) PROVE IInv'
  BY <1>8 DEF StartAgent, With, NewPid, Returns
<1>9. CASE KeepAgent
  BY <1>9 DEF KeepAgent, Returns
<1>10. CASE StartAgentFails
  BY <1>10 DEF StartAgentFails, Returns
<1>11. ASSUME NEW p \in Pids, SnmpdOpens(p) PROVE IInv'
  BY <1>11 DEF SnmpdOpens
<1>12. ASSUME NEW p \in Pids, SnmpdExits(p) PROVE IInv'
  BY <1>12, Zenon DEF SnmpdExits, Without
<1>13. ASSUME NEW p \in Pids, AgentExits(p) PROVE IInv'
  BY <1>13, Zenon DEF AgentExits, Without
<1>14. CASE BackendExit
  BY <1>14, Zenon DEF BackendExit, Called
<1>15. CASE StopOrphans
  BY <1>15 DEF StopOrphans, NoProcess
<1>16. CASE UNCHANGED vars
  BY <1>16 DEF vars
<1> QED
  BY <1>1, <1>2, <1>3, <1>4, <1>5, <1>6, <1>7, <1>8, <1>9, <1>10, <1>11, <1>12, <1>13, <1>14, <1>15, <1>16, Zenon DEF Next

\* So it holds always.
LEMMA Invariance == Spec => []IInv
  BY Initially, Inductive, PTL DEF Spec

\* No process is lost (NoneLost): the slots of Snmpd know every snmpd and every
\* clixon_snmp that runs beside a backend.
THEOREM SlotsKnowAll == Spec => []NoneLost
  BY Invariance, PTL DEF IInv

\* snmpd has the users of Snmpd.conf (RunsWithConf) and, if the plugin could read
\* the persistent file, no others, whatever the snmpd before it has written there.
THEOREM UsersOfConf == Spec => []RunsWithConf
  BY Invariance, PTL DEF IInv

\* A clixon_snmp that runs is the subagent of the snmpd that runs
\* (AgentFollowsSnmpd).
THEOREM SubagentOfSnmpd == Spec => []AgentFollowsSnmpd
  BY Invariance, PTL DEF IInv

-----------------------------------------------------------------------------
(***************************************************************************)
(* sync is a Service.                                                      *)
(***************************************************************************)

\* What the service sees of the processes is a Boolean.
LEMMA HasAgentBoolean == HasAgent \in BOOLEAN
  BY Zenon DEF HasAgent, Running

\* The service starts as the backend does.
LEMMA InitiallyService == Init => Agent!Init
  BY SnmpAssumption, HasAgentBoolean DEF Init, Agent!Init

\* Every step is one of the service or leaves it as it is.
LEMMA StepOfService == IInv /\ IInv' /\ [Next]_vars => [Agent!Next]_(Agent!vars)
<1> SUFFICES ASSUME IInv, IInv', [Next]_vars PROVE [Agent!Next]_(Agent!vars)
  OBVIOUS
<1>b. HasAgent \in BOOLEAN /\ HasAgent' \in BOOLEAN
  BY Zenon DEF HasAgent, Running
<1> USE SnmpAssumption
    DEF IInv, Types, Phases, Running, HasUsersOf, slots, world, history, call, Agent!Next
<1>1. ASSUME SyncStop PROVE Agent!Succeed
  <2>1. daemons' = NoProcess /\ agents' = NoProcess
    BY <1>1 DEF SyncStop, Without, NoProcess, NoneLost
  <2>2. HasAgent'
    BY <1>1, <2>1 DEF SyncStop, Called, HasAgent
  <2>3. (phase \in {"waiting", "agent"})' = FALSE /\ outcome' = "ok"
    BY <1>1 DEF SyncStop
  <2>4. lost' \in {FALSE, lost}
    BY <1>1, Zenon DEF SyncStop, Called
  <2>5. HasAgent' = TRUE
    BY <1>b, <2>2
  <2> QED
    BY <2>3, <2>4, <2>5, Zenon DEF Agent!Succeed
<1>2. ASSUME NEW c \in Confs, SyncKeep(c) PROVE Agent!Begin
  BY <1>2, <1>b, Zenon DEF SyncKeep, Called, Agent!Begin
<1>3. ASSUME NEW c \in Confs, NEW p \in Pids, SyncRestart(c, p) PROVE Agent!Begin
  BY <1>3, <1>b, Zenon DEF SyncRestart, Called, Agent!Begin
<1>4. ASSUME NEW c \in Confs, SyncRestartFails(c) PROVE Agent!Fail
  BY <1>4, <1>b DEF SyncRestartFails, Called, Agent!Fail
<1>5. CASE WaitOk
  BY <1>5, <1>b DEF WaitOk, Agent!Work
<1>6. CASE WaitExited \/ WaitTimeout \/ StartAgentFails
  BY <1>6, <1>b DEF WaitExited, WaitTimeout, StartAgentFails, Returns, Agent!Fail
<1>7. ASSUME NEW p \in Pids, StartAgent(p) PROVE Agent!Succeed
  <2>1. ~lost => HasAgent'
    BY <1>7 DEF StartAgent, Returns, HasAgent, Serving, NewPid, With, RunsWithConf
  <2> QED
    BY <1>7, <1>b, <2>1 DEF StartAgent, Returns, Agent!Succeed
<1>8. CASE KeepAgent
  <2>1. ~lost => HasAgent'
    BY <1>8 DEF KeepAgent, Returns, HasAgent, Serving, RunsWithConf, AgentFollowsSnmpd
  <2> QED
    BY <1>8, <1>b, <2>1 DEF KeepAgent, Returns, Agent!Succeed
<1>9. ASSUME NEW p \in Pids, SnmpdOpens(p) PROVE [Agent!Next]_(Agent!vars)
  <2>1. CASE phase \in {"waiting", "agent"}
    BY <1>9, <1>b, <2>1 DEF SnmpdOpens, Agent!Work
  <2>2. CASE phase \notin {"waiting", "agent"} /\ outcome # "ok"
    BY <1>9, <1>b, <2>2 DEF SnmpdOpens, Agent!Drift
  <2>3. CASE phase \notin {"waiting", "agent"} /\ outcome = "ok"
    <3>1. phase = "idle"
      BY <2>3 DEF Down
    <3>2. p = snmpd /\ file = conf /\ (~unread => persistent = {})
      BY <1>9, <3>1 DEF SnmpdOpens, NoneLost, Unopened
    <3>3. HasUsersOf(snmpd, conf)'
      BY <1>9, <3>2 DEF SnmpdOpens
    <3>4. CASE asked = None
      BY <1>9, <3>4, <3>2 DEF Serving
    <3>5. CASE asked # None
      <4>1. HasAgent' <=> HasAgent
        BY <1>9, <3>2, <3>3, <3>5 DEF SnmpdOpens, HasAgent
      <4> QED
        BY <1>9, <1>b, <4>1 DEF SnmpdOpens, Agent!vars
    <3> QED
      BY <3>4, <3>5
  <2> QED
    BY <2>1, <2>2, <2>3
<1>10. ASSUME NEW p \in Pids, SnmpdExits(p) PROVE Agent!Next
  <2>1. CASE phase = "down"
    BY <1>10, <1>b, <2>1 DEF SnmpdExits, Down, Agent!Drift
  <2>2. CASE phase # "down"
    <3>1. p = snmpd /\ asked # None
      BY <1>10, <2>2 DEF SnmpdExits, NoneLost, Serving
    <3>2. ~HasAgent'
      BY <1>10, <3>1 DEF SnmpdExits, Without, HasAgent
    <3> QED
      BY <1>10, <1>b, <3>2 DEF SnmpdExits, Agent!Lose
  <2> QED
    BY <2>1, <2>2
<1>11. ASSUME NEW p \in Pids, AgentExits(p) PROVE Agent!Next
  <2>1. CASE phase = "down"
    BY <1>11, <1>b, <2>1 DEF AgentExits, Down, Agent!Drift
  <2>2. CASE phase # "down"
    <3>1. p = subagent /\ asked # None
      BY <1>11, <2>2 DEF AgentExits, NoneLost, Serving
    <3>2. ~HasAgent'
      BY <1>11, <3>1 DEF AgentExits, Without, HasAgent
    <3> QED
      BY <1>11, <1>b, <3>2 DEF AgentExits, Agent!Lose
  <2> QED
    BY <2>1, <2>2
<1>12. CASE BackendExit
  BY <1>12, <1>b DEF BackendExit, Called, Agent!Die
<1>13. CASE StopOrphans
  BY <1>13, <1>b DEF StopOrphans, Down, Agent!Drift
<1>14. CASE UNCHANGED vars
  BY <1>14 DEF vars, HasAgent, Agent!vars
<1> QED
  BY <1>1, <1>2, <1>3, <1>4, <1>5, <1>6, <1>7, <1>8, <1>9, <1>10, <1>11, <1>12, <1>13, <1>14
  DEF Next

\* sync is a Service, liveness apart: what it reports is true, and stays true until
\* the next sync or until a process exits by itself.
THEOREM SyncIsService == Spec => Agent!Safely
  BY Invariance, InitiallyService, StepOfService, PTL DEF Spec, Agent!Safely
=============================================================================
