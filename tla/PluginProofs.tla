---------------------------- MODULE PluginProofs ----------------------------
(***************************************************************************)
(* Proofs about Plugin, for any configurations: what SwitchPlugin believes *)
(* agrees with what the parts have, and apply, made of four parts that may *)
(* each fail, is a Service as far as safety goes.                          *)
(***************************************************************************)
EXTENDS Plugin, TLAPS

Stages == {"down", "idle", "validated", "applied",
           "prepare", "reconcile", "configure", "dhcp", "snmp"}

Types ==
    /\ stage \in Stages
    /\ target \in Configs /\ running \in Configs
    /\ applied \in Configs \cup {None}
    /\ reverting \in BOOLEAN /\ failed \in BOOLEAN /\ mstpd \in BOOLEAN

\* A backend that is gone has forgotten what it applied.
Down == stage = "down" => applied = None /\ failed = FALSE

\* engine_id is that of the snmpd that runs, in every stage.
EngineIdKnown == snmp # None /\ engine_id # None => snmp.engine = engine_id

\* How far apply is: what the stages behind it have given to their parts.
Progress ==
    /\ stage \in {"prepare", "reconcile"} => dhcp \in {None, target.dhcp}
    /\ stage \in {"reconcile", "configure", "dhcp", "snmp"} => mstpd = (target.stp # None)
    /\ stage \in {"configure", "dhcp", "snmp"} => kernel = target
    /\ stage = "snmp" => dhcp = target.dhcp
    /\ stage = "validated" => ~reverting
    /\ Applying /\ reverting => target = running

\* Between two applies: what the last one that ended well was given is in effect,
\* and it is the running datastore unless the transaction is still going on.
Settled ==
    /\ stage \in {"idle", "validated", "applied"} /\ ~failed /\ applied # None => InEffect(applied)
    /\ stage \in {"idle", "validated"} /\ ~failed /\ applied # None => applied = running
    /\ stage = "applied" => applied = target /\ ~failed

IInv == Types /\ Down /\ EngineIdKnown /\ Progress /\ Settled

-----------------------------------------------------------------------------
\* The invariant holds before the first apply.
LEMMA Initially == Init => IInv
  BY PluginAssumption, Zenon
  DEF Init, IInv, Types, Stages, Down, EngineIdKnown, Progress, Settled, Applying

\* Every step keeps the invariant: each stage of apply, its failure, and what clixon asks.
LEMMA Inductive == IInv /\ [Next]_vars => IInv'
<1> SUFFICES ASSUME IInv, [Next]_vars PROVE IInv'
  OBVIOUS
<1> USE PluginAssumption
    DEF IInv, Types, Stages, Down, EngineIdKnown, Progress, Settled, Applying, InEffect,
        Wanted, Conf, EngineId, transaction, parts
<1>1. CASE Start
  BY <1>1, Zenon DEF Start
<1>2. CASE BackendExit
  BY <1>2, Zenon DEF BackendExit
<1>3. ASSUME NEW c \in Configs, TransValidate(c) PROVE IInv'
  BY <1>3, Zenon DEF TransValidate
<1>4. CASE TransactionEnds
  BY <1>4 DEF TransactionEnds
<1>5. CASE TransCommit
  BY <1>5 DEF TransCommit, ApplyBegins
<1>6. CASE TransRevert
  BY <1>6 DEF TransRevert, ApplyBegins
<1>7. CASE TransRevertFails
  BY <1>7 DEF TransRevertFails, Fail
<1>8. CASE CommitEnds
  BY <1>8 DEF CommitEnds
<1>9. CASE Prepare
  BY <1>9 DEF Prepare
<1>10. CASE PrepareFails
  BY <1>10 DEF PrepareFails, Fail
<1>11. CASE Reconcile
  BY <1>11 DEF Reconcile
<1>12. CASE ReconcileFails
  BY <1>12 DEF ReconcileFails, Fail
<1>13. CASE Configure
  BY <1>13 DEF Configure
<1>14. CASE ConfigureFails
  BY <1>14 DEF ConfigureFails, Fail
<1>15. CASE SyncDhcp
  BY <1>15 DEF SyncDhcp
<1>16. CASE SyncDhcpFails
  BY <1>16 DEF SyncDhcpFails, Fail
<1>17. CASE SyncSnmp
  BY <1>17, Zenon DEF SyncSnmp
<1>18. CASE NoEngineId
  BY <1>18 DEF NoEngineId, Fail
<1>19. CASE SyncSnmpFails
  BY <1>19 DEF SyncSnmpFails, Fail
<1>20. CASE UNCHANGED vars
  BY <1>20 DEF vars
<1> QED
  BY <1>1, <1>2, <1>3, <1>4, <1>5, <1>6, <1>7, <1>8, <1>9, <1>10, <1>11, <1>12, <1>13, <1>14, <1>15, <1>16, <1>17, <1>18, <1>19, <1>20, Zenon DEF Next

\* So it holds always.
LEMMA Invariance == Spec => []IInv
  BY Initially, Inductive, PTL DEF Spec

\* An engine ID that statedata reports is the one snmpd runs with
\* (EngineIdOfSnmpd), whatever stage of an apply has failed.
THEOREM ReportsEngineId == Spec => []EngineIdOfSnmpd
<1>1. IInv => EngineIdOfSnmpd
  BY DEF IInv, EngineIdKnown, EngineIdOfSnmpd, StateData
<1> QED
  BY <1>1, Invariance, PTL

\* What SwitchPlugin.applied says is the running datastore, and state data is
\* read accordingly (AppliedIsRunning), after every commit and every revert that
\* does not fail.
THEOREM AppliedAgrees == Spec => []AppliedIsRunning
<1>1. IInv => AppliedIsRunning
  BY Zenon DEF IInv, Settled, InEffect, AppliedIsRunning, StateData
<1> QED
  BY <1>1, Invariance, PTL

\* mstpd is there, or gone, and no unwanted client is left, whenever the kernel
\* gets its configuration (KernelBetween).
THEOREM KernelInTurn == Spec => KernelBetween
<1>1. IInv /\ [Next]_vars
        => [kernel' # kernel => /\ mstpd = (target.stp # None)
                                /\ dhcp \in {None, target.dhcp}]_vars
  <2> SUFFICES ASSUME IInv, [Next]_vars, kernel' # kernel
               PROVE  mstpd = (target.stp # None) /\ dhcp \in {None, target.dhcp}
    OBVIOUS
  <2>1. stage = "reconcile"
    BY DEF Next, vars, transaction, parts, Fail, Start, BackendExit, TransValidate,
           TransactionEnds, TransCommit, TransRevert, ApplyBegins, TransRevertFails,
           CommitEnds, Prepare, PrepareFails, Reconcile, ReconcileFails, Configure,
           ConfigureFails, SyncDhcp, SyncDhcpFails, SyncSnmp, NoEngineId, SyncSnmpFails
  <2> QED
    BY <2>1 DEF IInv, Progress
<1> QED
  BY <1>1, Invariance, PTL DEF Spec, KernelBetween

-----------------------------------------------------------------------------
(***************************************************************************)
(* apply is a Service.                                                     *)
(***************************************************************************)

\* The service starts as the plugin does.
LEMMA InitiallyService == Init => Switch!Init
  BY DEF Init, Switch!Init, Applying, InEffect

\* Every step is one of the service or leaves it as it is.
LEMMA StepOfService == IInv /\ IInv' /\ [Next]_vars => [Switch!Next]_(Switch!vars)
<1> SUFFICES ASSUME IInv, IInv', [Next]_vars PROVE [Switch!Next]_(Switch!vars)
  OBVIOUS
<1> DEFINE of == IF Applying \/ failed \/ applied = None THEN target ELSE applied
<1>b. InEffect(of) \in BOOLEAN /\ InEffect(of)' \in BOOLEAN
  BY DEF InEffect
<1> USE PluginAssumption DEF IInv, Types, Stages, Applying, transaction, parts, Switch!Next
<1>1. ASSUME Start PROVE Switch!Drift
  BY <1>1, <1>b DEF Start, Down, Switch!Drift
<1>2. ASSUME BackendExit PROVE Switch!Die
  BY <1>2, <1>b DEF BackendExit, Switch!Die
<1>3. ASSUME TransCommit \/ TransRevert PROVE Switch!Begin
  BY <1>3, <1>b DEF TransCommit, TransRevert, ApplyBegins, Switch!Begin
<1>4. ASSUME Prepare \/ Reconcile \/ Configure \/ SyncDhcp PROVE Switch!Work
  BY <1>4, <1>b DEF Prepare, Reconcile, Configure, SyncDhcp, Switch!Work
<1>5. ASSUME \/ TransRevertFails \/ PrepareFails \/ ReconcileFails \/ ConfigureFails
             \/ SyncDhcpFails \/ NoEngineId \/ SyncSnmpFails
      PROVE  Switch!Fail
  BY <1>5, <1>b
  DEF TransRevertFails, PrepareFails, ReconcileFails, ConfigureFails, SyncDhcpFails,
      NoEngineId, SyncSnmpFails, Fail, Switch!Fail
<1>6. ASSUME SyncSnmp PROVE Switch!Succeed
  <2>1. InEffect(of)'
    BY <1>6 DEF SyncSnmp, Settled
  <2>2. InEffect(of)' = TRUE
    BY <1>b, <2>1
  <2> QED
    BY <1>6, <2>2 DEF SyncSnmp, Switch!Succeed
<1>7. ASSUME \/ \E c \in Configs : TransValidate(c)
             \/ TransactionEnds \/ CommitEnds
      PROVE  [Switch!Drift]_(Switch!vars)
  <2>1. CASE failed \/ applied = None
    BY <1>7, <1>b, <2>1 DEF TransValidate, TransactionEnds, CommitEnds, Switch!Drift, Settled
  <2>2. CASE ~failed /\ applied # None
    <3>1. InEffect(of)' = InEffect(of)
      BY <1>7, <2>2
      DEF TransValidate, TransactionEnds, CommitEnds, InEffect, Wanted, Conf, EngineId
    <3> QED
      BY <1>7, <2>2, <3>1 DEF TransValidate, TransactionEnds, CommitEnds, Switch!vars
  <2> QED
    BY <2>1, <2>2
<1>8. CASE UNCHANGED vars
  BY <1>8 DEF vars, InEffect, Wanted, Conf, EngineId, Switch!vars
<1> QED
  BY <1>1, <1>2, <1>3, <1>4, <1>5, <1>6, <1>7, <1>8 DEF Next

\* apply is a Service, liveness apart: once it has reported success, whatever failed
\* before, kernel, mstpd, client and agent have what `applied` says until the next
\* apply.
THEOREM ApplyIsService == Spec => Switch!Safely
  BY Invariance, InitiallyService, StepOfService, PTL DEF Spec, Switch!Safely
=============================================================================
