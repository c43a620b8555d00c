---------------------------- MODULE MstpdProofs ----------------------------
(***************************************************************************)
(* Proofs about Mstpd, for any processes and any configurations.           *)
(*                                                                         *)
(* What the commits of the past left in mstpd matters to the next one only *)
(* through Mstpd.applied, so the inductive invariant says what applied     *)
(* stands for (Settled), and what the commands that configure has run so   *)
(* far and those it has not run yet add up to (Half).                      *)
(***************************************************************************)
EXTENDS Mstpd, TLAPS

\* The three timer commands of s.
LongestDelay == <<2, <<"setfdelay", 0, MaxForwardDelay>>>>
MaxAge(s) == <<3, <<"setmaxage", 0, s.max_age>>>>
Delay(s) == <<4, <<"setfdelay", 0, s.forward_delay>>>>

\* What configure may run for s.
Allowed(s, e) ==
    \/ e = AddBridge
    \/ e \in Commands(s)
    \/ \E i : i \notin Trees(s) /\ e = <<9, <<"deletetree", i, i>>>>

\* mstpd has what c sets.
Holds(c) ==
    /\ c[1] = "createtree" => c[2] \in trees
    /\ c[1] = "setfid2mstid" => mapped = c[3]
    /\ c[1] \notin SpecialVerbs => c \in settings

\* 802.1D's inequality, which mstpd keeps at every moment.
TimersConsistent == 2 * (fdelay - 1) >= maxage

\* How far the timer commands are.
HalfTimers(s) ==
    \/ LongestDelay \in todo /\ MaxAge(s) \in todo /\ Delay(s) \in todo
    \/ /\ LongestDelay \notin todo /\ MaxAge(s) \in todo /\ Delay(s) \in todo
       /\ fdelay = MaxForwardDelay
    \/ /\ LongestDelay \notin todo /\ MaxAge(s) \notin todo /\ Delay(s) \in todo
       /\ fdelay = MaxForwardDelay
       /\ maxage = s.max_age
    \/ /\ LongestDelay \notin todo /\ MaxAge(s) \notin todo /\ Delay(s) \notin todo
       /\ maxage = s.max_age
       /\ s.forward_delay # MaxForwardDelay => fdelay = s.forward_delay

\* mstpd in the middle of a configure of s.
Half(s) ==
    /\ AddBridge \in todo \/ known
    /\ \A e \in Commands(s) : e \in todo \/ Holds(e[2])
    /\ \A e \in todo : e[2][1] = "deletetree" => e[2][2] \in trees
    /\ HalfTimers(s)

\* mstpd after a configure of s.
Settled(s) ==
    /\ InEffectBut(s)
    /\ s.forward_delay # MaxForwardDelay => fdelay = s.forward_delay

\* Facts about the plugin's own state.
Shape ==
    /\ joined => phase = "prepared"
    /\ phase \in {"running", "waiting"} => applied = None
    /\ phase = "down" => pid = None /\ applied = None
    /\ phase = "running" => \A e \in todo : Allowed(target, e)

AppliedSettled ==
    applied # None /\ pid \in alive /\ ~unsent /\ ~joined => Settled(applied)

RunningHalf ==
    phase = "running" /\ pid \in alive /\ ~unsent => Half(target)

IInv ==
    /\ TypeOK
    /\ OnlyOne
    /\ TimersConsistent
    /\ Shape
    /\ AppliedSettled
    /\ RunningHalf
-----------------------------------------------------------------------------
\* The initial state satisfies the inductive invariant.
LEMMA InitInv == Init => IInv
<1> SUFFICES ASSUME Init PROVE IInv
  OBVIOUS
<1> USE DEF Init
<1>1. TypeOK
  <2>1. fdelay \in 4..MaxForwardDelay /\ maxage \in 6..40
    BY DEF MaxForwardDelay, DefaultForwardDelay, DefaultMaxAge
  <2> QED
    BY <2>1, Zenon DEF TypeOK
<1>2. OnlyOne /\ TimersConsistent
  BY DEF OnlyOne, TimersConsistent, DefaultForwardDelay, DefaultMaxAge
<1>3. Shape
  BY DEF Shape
<1>4. AppliedSettled /\ RunningHalf
  BY DEF AppliedSettled, RunningHalf
<1> QED
  BY <1>1, <1>2, <1>3, <1>4 DEF IInv

\* The commands of commands(), spelled out.
LEMMA CommandForms ==
  ASSUME NEW s \in Stps, NEW e \in Commands(s)
  PROVE  \/ e = <<1, <<"setforcevers", 0, s.protocol>>>>
         \/ e = LongestDelay
         \/ e = MaxAge(s)
         \/ e = Delay(s)
         \/ e = <<5, <<"setbridge", 0, s.bridge>>>>
         \/ e = <<7, <<"setvid2fid", 0, s.vlans>>>>
         \/ e = <<8, <<"setfid2mstid", 0, s.mstis>>>>
         \/ \E i \in s.mstis : e = <<6, <<"createtree", i, i>>>>
         \/ \E i \in Trees(s) : e = <<10, <<"settreeprio", i, s.priority[i]>>>>
         \/ \E p \in DOMAIN s.ports : e = <<11, <<"setport", p, s.ports[p]>>>>
         \/ \E i \in Trees(s), p \in DOMAIN s.ports :
               e = <<12, <<"settreeport", <<i, p>>, s.tree_ports[i][p]>>>>
  BY DEF Commands, LongestDelay, MaxAge, Delay

\* Of the commands of s other than the timers, no two set the same value.
LEMMA UniqueKey ==
  ASSUME NEW s \in Stps, NEW e \in Commands(s), NEW f \in Commands(s),
         ~IsTimer(e[2]), SameKey(e[2], f[2])
  PROVE  e[2] = f[2]
  BY CommandForms DEF LongestDelay, MaxAge, Delay, IsTimer, SameKey

\* The inductive invariant across a step that leaves mstpd and what the plugin
\* knows of it alone.
LEMMA StutterInv == IInv /\ UNCHANGED vars => IInv'
<1> SUFFICES ASSUME IInv, UNCHANGED vars PROVE IInv'
  OBVIOUS
<1> USE DEF vars, plugin, bridge, IInv
<1>1. TypeOK' /\ OnlyOne' /\ TimersConsistent'
  BY DEF TypeOK, OnlyOne, TimersConsistent
<1>2. Shape'
  BY DEF Shape, Allowed
<1>3. AppliedSettled'
  BY DEF AppliedSettled, Settled, InEffectBut
<1>4. RunningHalf'
  BY DEF RunningHalf, Half, HalfTimers, Holds
<1> QED
  BY <1>1, <1>2, <1>3, <1>4

\* What a process that does not know the bridge starts from.
LEMMA NoBridgeTypes ==
  ASSUME NoBridge
  PROVE  /\ known' \in BOOLEAN
         /\ fdelay' \in 4..MaxForwardDelay
         /\ maxage' \in 6..40
         /\ TimersConsistent'
<1>1. known' \in BOOLEAN
  BY Zenon DEF NoBridge
<1>2. fdelay' = DefaultForwardDelay /\ maxage' = DefaultMaxAge
  BY DEF NoBridge
<1> QED
  BY <1>1, <1>2 DEF DefaultForwardDelay, DefaultMaxAge, MaxForwardDelay,
     TimersConsistent

\* The actions that leave mstpd alone, or that leave it without the bridge,
\* outside configure.
LEMMA OutsideInv ==
  ASSUME IInv,
         \/ PrepareKeep
         \/ \E p \in Pids : PrepareStart(p)
         \/ PrepareSpawnFails
         \/ WaitReadyOk
         \/ WaitReadyFails
         \/ PrepareStop
         \/ ReconcileNewBridge
         \/ ReconcileJoin
         \/ ReconcileFails
         \/ CommandFails
         \/ BecomeReady
         \/ Exit
         \/ BackendExit
         \/ StopOrphans
  PROVE  IInv'
<1> USE DEF IInv, plugin, bridge
<1>1. CASE PrepareKeep
  <2> USE <1>1 DEF PrepareKeep
  <2>1. TypeOK'
    BY DEF TypeOK
  <2>2. OnlyOne' /\ TimersConsistent'
    BY DEF TypeOK, Shape, OnlyOne, TimersConsistent
  <2>3. Shape'
    BY DEF Shape, TypeOK
  <2>4. AppliedSettled'
    BY DEF TypeOK, Shape, OnlyOne, AppliedSettled, Settled, InEffectBut
  <2>5. RunningHalf'
    BY DEF TypeOK, Shape, RunningHalf, Half, HalfTimers, Holds
  <2> QED
    BY <2>1, <2>2, <2>3, <2>4, <2>5
<1>2. CASE \E p \in Pids : PrepareStart(p)
  <2> PICK p \in Pids : PrepareStart(p)
    BY <1>2
  <2> USE DEF PrepareStart
  <2>1. TypeOK'
    BY NoBridgeTypes, Zenon DEF TypeOK
  <2>2. OnlyOne' /\ TimersConsistent'
    BY NoBridgeTypes DEF TypeOK, Shape, OnlyOne, TimersConsistent
  <2>3. Shape'
    BY DEF Shape, TypeOK
  <2>4. AppliedSettled'
    BY DEF TypeOK, Shape, OnlyOne, AppliedSettled, Settled, InEffectBut
  <2>5. RunningHalf'
    BY DEF TypeOK, Shape, RunningHalf, Half, HalfTimers, Holds
  <2> QED
    BY <2>1, <2>2, <2>3, <2>4, <2>5
<1>3. CASE PrepareSpawnFails
  <2> USE <1>3 DEF PrepareSpawnFails
  <2>1. TypeOK'
    BY DEF TypeOK
  <2>2. OnlyOne' /\ TimersConsistent'
    BY DEF TypeOK, Shape, OnlyOne, TimersConsistent
  <2>3. Shape'
    BY DEF Shape, TypeOK
  <2>4. AppliedSettled'
    BY DEF TypeOK, Shape, OnlyOne, AppliedSettled, Settled, InEffectBut
  <2>5. RunningHalf'
    BY DEF TypeOK, Shape, RunningHalf, Half, HalfTimers, Holds
  <2> QED
    BY <2>1, <2>2, <2>3, <2>4, <2>5
<1>4. CASE WaitReadyOk
  <2> USE <1>4 DEF WaitReadyOk
  <2>1. TypeOK'
    BY DEF TypeOK
  <2>2. OnlyOne' /\ TimersConsistent'
    BY DEF TypeOK, Shape, OnlyOne, TimersConsistent
  <2>3. Shape'
    BY DEF Shape, TypeOK
  <2>4. AppliedSettled'
    BY DEF TypeOK, Shape, OnlyOne, AppliedSettled, Settled, InEffectBut
  <2>5. RunningHalf'
    BY DEF TypeOK, Shape, RunningHalf, Half, HalfTimers, Holds
  <2> QED
    BY <2>1, <2>2, <2>3, <2>4, <2>5
<1>5. CASE WaitReadyFails
  <2> USE <1>5 DEF WaitReadyFails
  <2>1. TypeOK'
    BY DEF TypeOK
  <2>2. OnlyOne' /\ TimersConsistent'
    BY DEF TypeOK, Shape, OnlyOne, TimersConsistent
  <2>3. Shape'
    BY DEF Shape, TypeOK
  <2>4. AppliedSettled'
    BY DEF TypeOK, Shape, OnlyOne, AppliedSettled, Settled, InEffectBut
  <2>5. RunningHalf'
    BY DEF TypeOK, Shape, RunningHalf, Half, HalfTimers, Holds
  <2> QED
    BY <2>1, <2>2, <2>3, <2>4, <2>5
<1>6. CASE PrepareStop
  <2> USE <1>6 DEF PrepareStop
  <2>1. TypeOK'
    BY NoBridgeTypes, Zenon DEF TypeOK
  <2>2. OnlyOne' /\ TimersConsistent'
    BY NoBridgeTypes DEF TypeOK, Shape, OnlyOne, TimersConsistent
  <2>3. Shape'
    BY DEF Shape, TypeOK
  <2>4. AppliedSettled'
    BY DEF TypeOK, Shape, OnlyOne, AppliedSettled, Settled, InEffectBut
  <2>5. RunningHalf'
    BY DEF TypeOK, Shape, RunningHalf, Half, HalfTimers, Holds
  <2> QED
    BY <2>1, <2>2, <2>3, <2>4, <2>5
<1>7. CASE ReconcileNewBridge
  <2> USE <1>7 DEF ReconcileNewBridge
  <2>1. TypeOK'
    BY NoBridgeTypes DEF TypeOK
  <2>2. OnlyOne' /\ TimersConsistent'
    BY NoBridgeTypes DEF TypeOK, Shape, OnlyOne, TimersConsistent
  <2>3. Shape'
    BY DEF Shape, TypeOK
  <2>4. AppliedSettled'
    BY DEF TypeOK, Shape, OnlyOne, AppliedSettled, Settled, InEffectBut
  <2>5. RunningHalf'
    BY DEF TypeOK, Shape, RunningHalf, Half, HalfTimers, Holds
  <2> QED
    BY <2>1, <2>2, <2>3, <2>4, <2>5
<1>8. CASE ReconcileJoin
  <2> USE <1>8 DEF ReconcileJoin
  <2>1. TypeOK'
    BY DEF TypeOK
  <2>2. OnlyOne' /\ TimersConsistent'
    BY DEF TypeOK, Shape, OnlyOne, TimersConsistent
  <2>3. Shape'
    BY DEF Shape, TypeOK
  <2>4. AppliedSettled'
    BY DEF TypeOK, Shape, OnlyOne, AppliedSettled, Settled, InEffectBut
  <2>5. RunningHalf'
    BY DEF TypeOK, Shape, RunningHalf, Half, HalfTimers, Holds
  <2> QED
    BY <2>1, <2>2, <2>3, <2>4, <2>5
<1>9. CASE ReconcileFails
  <2> USE <1>9 DEF ReconcileFails
  <2>1. TypeOK'
    BY Zenon DEF TypeOK
  <2>2. OnlyOne' /\ TimersConsistent'
    BY DEF TypeOK, Shape, OnlyOne, TimersConsistent
  <2>3. Shape'
    BY DEF Shape, TypeOK
  <2>4. AppliedSettled'
    BY DEF TypeOK, Shape, OnlyOne, AppliedSettled, Settled, InEffectBut
  <2>5. RunningHalf'
    BY DEF TypeOK, Shape, RunningHalf, Half, HalfTimers, Holds
  <2> QED
    BY <2>1, <2>2, <2>3, <2>4, <2>5
<1>10. CASE CommandFails
  <2> USE <1>10 DEF CommandFails
  <2>1. TypeOK'
    BY DEF TypeOK
  <2>2. OnlyOne' /\ TimersConsistent'
    BY DEF TypeOK, Shape, OnlyOne, TimersConsistent
  <2>3. Shape'
    BY DEF Shape, TypeOK
  <2>4. AppliedSettled'
    BY DEF TypeOK, Shape, OnlyOne, AppliedSettled, Settled, InEffectBut
  <2>5. RunningHalf'
    BY DEF TypeOK, Shape, RunningHalf, Half, HalfTimers, Holds
  <2> QED
    BY <2>1, <2>2, <2>3, <2>4, <2>5
<1>11. CASE BecomeReady
  <2> USE <1>11 DEF BecomeReady
  <2>1. TypeOK'
    BY DEF TypeOK
  <2>2. OnlyOne' /\ TimersConsistent'
    BY DEF TypeOK, Shape, OnlyOne, TimersConsistent
  <2>3. Shape'
    BY DEF Shape, TypeOK
  <2>4. AppliedSettled'
    BY DEF TypeOK, Shape, OnlyOne, AppliedSettled, Settled, InEffectBut
  <2>5. RunningHalf'
    BY DEF TypeOK, Shape, RunningHalf, Half, HalfTimers, Holds
  <2> QED
    BY <2>1, <2>2, <2>3, <2>4, <2>5
<1>12. CASE Exit
  <2> USE <1>12 DEF Exit
  <2>1. TypeOK'
    BY NoBridgeTypes, Zenon DEF TypeOK
  <2>2. OnlyOne' /\ TimersConsistent'
    BY NoBridgeTypes DEF TypeOK, Shape, OnlyOne, TimersConsistent
  <2>3. Shape'
    BY DEF Shape, TypeOK
  <2>4. AppliedSettled'
    BY DEF TypeOK, Shape, OnlyOne, AppliedSettled, Settled, InEffectBut
  <2>5. RunningHalf'
    BY DEF TypeOK, Shape, RunningHalf, Half, HalfTimers, Holds
  <2> QED
    BY <2>1, <2>2, <2>3, <2>4, <2>5
<1>13. CASE BackendExit
  <2> USE <1>13 DEF BackendExit
  <2>1. TypeOK'
    BY Zenon DEF TypeOK
  <2>2. OnlyOne' /\ TimersConsistent'
    BY DEF TypeOK, Shape, OnlyOne, TimersConsistent
  <2>3. Shape'
    BY DEF Shape, TypeOK
  <2>4. AppliedSettled'
    BY DEF TypeOK, Shape, OnlyOne, AppliedSettled, Settled, InEffectBut
  <2>5. RunningHalf'
    BY DEF TypeOK, Shape, RunningHalf, Half, HalfTimers, Holds
  <2> QED
    BY <2>1, <2>2, <2>3, <2>4, <2>5
<1>14. CASE StopOrphans
  <2> USE <1>14 DEF StopOrphans
  <2>1. TypeOK'
    BY NoBridgeTypes, Zenon DEF TypeOK
  <2>2. OnlyOne' /\ TimersConsistent'
    BY NoBridgeTypes DEF TypeOK, Shape, OnlyOne, TimersConsistent
  <2>3. Shape'
    BY DEF Shape, TypeOK
  <2>4. AppliedSettled'
    BY DEF TypeOK, Shape, OnlyOne, AppliedSettled, Settled, InEffectBut
  <2>5. RunningHalf'
    BY DEF TypeOK, Shape, RunningHalf, Half, HalfTimers, Holds
  <2> QED
    BY <2>1, <2>2, <2>3, <2>4, <2>5
<1> QED
  BY <1>1, <1>2, <1>3, <1>4, <1>5, <1>6, <1>7, <1>8, <1>9, <1>10, <1>11, <1>12, <1>13, <1>14

-----------------------------------------------------------------------------
\* changed_commands runs nothing but commands of s and deletetree for trees
\* that s does not have.
LEMMA ChangedAllowed ==
  ASSUME NEW s \in Stps, NEW previous \in Stps \cup {None},
         NEW e \in ChangedCommands(previous, s)
  PROVE  Allowed(s, e)
  BY StpAssumption DEF ChangedCommands, Allowed, Trees

\* With nothing applied before, every command runs and no tree is deleted.
LEMMA ChangedFromNone ==
  ASSUME NEW s \in Stps
  PROVE  ChangedCommands(None, s) = Commands(s)
  BY DEF ChangedCommands, Ran

\* The timer commands are commands of s.
LEMMA TimersAreCommands ==
  ASSUME NEW s \in Stps
  PROVE  /\ {LongestDelay, MaxAge(s), Delay(s)} \subseteq Commands(s)
         /\ \A e \in Commands(s) :
               IsTimer(e[2]) <=> e \in {LongestDelay, MaxAge(s), Delay(s)}
<1>1. {LongestDelay, MaxAge(s), Delay(s)} \subseteq Commands(s)
  BY DEF Commands, LongestDelay, MaxAge, Delay
<1>2. ASSUME NEW e \in Commands(s)
      PROVE  IsTimer(e[2]) <=> e \in {LongestDelay, MaxAge(s), Delay(s)}
  BY CommandForms DEF LongestDelay, MaxAge, Delay, IsTimer
<1> QED
  BY <1>1, <1>2

\* The timer commands run all or none, and none only if the delay and the max
\* age are those applied before, or the delay is the longest one.
LEMMA ChangedTimers ==
  ASSUME NEW s \in Stps, NEW r \in Stps
  PROVE  \/ {LongestDelay, MaxAge(s), Delay(s)} \subseteq ChangedCommands(r, s)
         \/ /\ LongestDelay \notin ChangedCommands(r, s)
            /\ MaxAge(s) \notin ChangedCommands(r, s)
            /\ Delay(s) \notin ChangedCommands(r, s)
            /\ s.max_age = r.max_age
            /\ s.forward_delay \in {r.forward_delay, MaxForwardDelay}
<1> DEFINE T == {LongestDelay, MaxAge(s), Delay(s)}
<1>0. /\ T \subseteq Commands(s)
      /\ \A e \in Commands(s) : IsTimer(e[2]) <=> e \in T
  BY TimersAreCommands
<1>1. CASE \E e \in T : e[2] \notin Ran(r)
  BY <1>0, <1>1 DEF ChangedCommands
<1>2. CASE \A e \in T : e[2] \in Ran(r)
  <2>1. \A e \in T : e \notin ChangedCommands(r, s)
    <3> SUFFICES ASSUME NEW e \in T PROVE e \notin ChangedCommands(r, s)
      OBVIOUS
    <3>1. \A i : e # <<9, <<"deletetree", i, i>>>>
      BY DEF LongestDelay, MaxAge, Delay
    <3> QED
      BY <1>0, <1>2, <3>1 DEF ChangedCommands
  <2>2. s.max_age = r.max_age
    <3>1. MaxAge(s)[2] \in Ran(r)
      BY <1>2
    <3>2. PICK f \in Commands(r) : f[2] = MaxAge(s)[2]
      BY <3>1, StpAssumption DEF Ran
    <3> QED
      BY <3>2, CommandForms DEF LongestDelay, MaxAge, Delay
  <2>3. s.forward_delay \in {r.forward_delay, MaxForwardDelay}
    <3>1. Delay(s)[2] \in Ran(r)
      BY <1>2
    <3>2. PICK f \in Commands(r) : f[2] = Delay(s)[2]
      BY <3>1, StpAssumption DEF Ran
    <3> QED
      BY <3>2, CommandForms DEF LongestDelay, MaxAge, Delay
  <2> QED
    BY <2>1, <2>2, <2>3
<1> QED
  BY <1>1, <1>2

\* A command of s that does not run is in effect, as it is one of r.
LEMMA UnchangedHolds ==
  ASSUME NEW s \in Stps, NEW r \in Stps, Settled(r), NEW e \in Commands(s),
         e \notin ChangedCommands(r, s)
  PROVE  Holds(e[2])
<1>1. PICK f \in Commands(r) : f[2] = e[2]
  BY StpAssumption DEF ChangedCommands, Ran
<1>2. e[2] \in settings \/ e[2][1] \in SpecialVerbs
  BY <1>1 DEF Settled, InEffectBut
<1>3. e[2][1] = "createtree" => e[2][2] \in trees
  BY <1>1, CommandForms DEF Settled, InEffectBut, LongestDelay, MaxAge, Delay
<1>4. e[2][1] = "setfid2mstid" => mapped = e[2][3]
  BY <1>1, CommandForms DEF Settled, InEffectBut, LongestDelay, MaxAge, Delay
<1> QED
  BY <1>2, <1>3, <1>4 DEF Holds

\* The inductive invariant across configure up to its loop: what it leaves out
\* of the commands is what Settled says mstpd has.
LEMMA ConfigureInv ==
  ASSUME IInv, NEW s \in Stps, Configure(s)
  PROVE  IInv'
<1> DEFINE previous == IF joined THEN None ELSE applied
<1>0. /\ todo' = {AddBridge} \cup ChangedCommands(previous, s)
      /\ unsent' = (unsent /\ previous # None)
      /\ previous \in Stps \cup {None}
  BY DEF Configure, IInv, TypeOK
<1> HIDE DEF previous
<1>1. TypeOK'
  <2>1. unsent' \in BOOLEAN
    BY <1>0
  <2> QED
    BY <2>1, StpAssumption, Zenon DEF IInv, TypeOK, Configure, bridge
<1>2. OnlyOne' /\ TimersConsistent'
  BY DEF IInv, OnlyOne, TimersConsistent, Configure, bridge
<1>3. Shape'
  <2>1. \A e \in todo' : Allowed(s, e)
    BY <1>0, ChangedAllowed DEF Allowed
  <2> QED
    BY <2>1 DEF Shape, Configure
<1>4. AppliedSettled'
  BY DEF AppliedSettled, Configure
<1>5. RunningHalf'
  <2> SUFFICES ASSUME pid \in alive, ~unsent' PROVE Half(s)'
    BY DEF RunningHalf, Configure
  <2> USE DEF Half, HalfTimers, Holds
  <2>1. CASE previous = None
    <3>1. todo' = {AddBridge} \cup Commands(s)
      BY <1>0, <2>1, ChangedFromNone
    <3>2. \A e \in todo' : e[2][1] # "deletetree"
      BY <3>1, CommandForms DEF AddBridge, LongestDelay, MaxAge, Delay
    <3> QED
      BY <3>1, <3>2, TimersAreCommands
  <2>2. CASE previous # None
    <3>1. previous \in Stps /\ applied = previous /\ Settled(previous)
      BY <1>0, <2>2, Zenon DEF previous, IInv, AppliedSettled, Configure
    <3>2. \A e \in Commands(s) : e \in todo' \/ Holds(e[2])'
      <4> SUFFICES ASSUME NEW e \in Commands(s), e \notin todo'
                   PROVE  Holds(e[2])
        BY DEF Configure, bridge
      <4> QED
        BY <1>0, <3>1, UnchangedHolds
    <3>3. \A e \in todo' : e[2][1] = "deletetree" => e[2][2] \in trees'
      <4> SUFFICES ASSUME NEW e \in todo', e[2][1] = "deletetree"
                   PROVE  e[2][2] \in trees
        BY DEF Configure, bridge
      <4>1. e \notin Commands(s)
        BY CommandForms DEF LongestDelay, MaxAge, Delay
      <4>2. e # AddBridge
        BY DEF AddBridge
      <4>3. PICK i \in previous.mstis : e = <<9, <<"deletetree", i, i>>>>
        BY <1>0, <2>2, <4>1, <4>2 DEF ChangedCommands
      <4> QED
        BY <3>1, <4>3 DEF Settled, InEffectBut
    <3>4. HalfTimers(s)'
      <4>1. AddBridge \notin {LongestDelay, MaxAge(s), Delay(s)}
        BY DEF AddBridge, LongestDelay, MaxAge, Delay
      <4>2. CASE {LongestDelay, MaxAge(s), Delay(s)}
                     \subseteq ChangedCommands(previous, s)
        BY <1>0, <4>2
      <4>3. CASE /\ LongestDelay \notin ChangedCommands(previous, s)
                 /\ MaxAge(s) \notin ChangedCommands(previous, s)
                 /\ Delay(s) \notin ChangedCommands(previous, s)
                 /\ s.max_age = previous.max_age
                 /\ s.forward_delay \in {previous.forward_delay, MaxForwardDelay}
        BY <1>0, <3>1, <4>1, <4>3 DEF Configure, bridge, Settled, InEffectBut
      <4> QED
        BY <3>1, <4>2, <4>3, ChangedTimers
    <3> QED
      BY <1>0, <3>2, <3>3, <3>4
  <2> QED
    BY <2>1, <2>2
<1> QED
  BY <1>1, <1>2, <1>3, <1>4, <1>5 DEF IInv

\* The inductive invariant across the end of configure: with no command left,
\* Half is Settled.
LEMMA ConfigureDoneInv ==
  ASSUME IInv, ConfigureDone
  PROVE  IInv'
<1> USE DEF IInv, ConfigureDone, bridge
<1>1. TypeOK'
  BY StpAssumption DEF TypeOK
<1>2. OnlyOne' /\ TimersConsistent'
  BY DEF OnlyOne, TimersConsistent
<1>3. Shape'
  BY DEF Shape
<1>4. AppliedSettled'
  <2> SUFFICES ASSUME pid \in alive, ~unsent PROVE Settled(target)
    BY DEF AppliedSettled, Settled, InEffectBut
  <2>1. Half(target) /\ target \in Stps
    BY DEF RunningHalf, TypeOK
  <2>2. \A e \in Commands(target) : Holds(e[2])
    BY <2>1 DEF Half
  <2>3. /\ <<8, <<"setfid2mstid", 0, target.mstis>>>> \in Commands(target)
        /\ \A i \in target.mstis :
              <<6, <<"createtree", i, i>>>> \in Commands(target)
    BY DEF Commands
  <2>4. mapped = target.mstis
    BY <2>2, <2>3 DEF Holds
  <2>5. target.mstis \subseteq trees
    BY <2>2, <2>3, Zenon DEF Holds
  <2>6. \A e \in Commands(target) : e[2][1] \in SpecialVerbs \/ e[2] \in settings
    BY <2>2 DEF Holds
  <2> QED
    BY <2>1, <2>4, <2>5, <2>6 DEF Settled, InEffectBut, Half, HalfTimers
<1>5. RunningHalf'
  BY DEF RunningHalf
<1> QED
  BY <1>1, <1>2, <1>3, <1>4, <1>5

-----------------------------------------------------------------------------
\* The order of the commands is one mstpd accepts.
LEMMA NextAccepted ==
  ASSUME IInv, phase = "running", pid \in alive, ~unsent,
         NEW e \in todo, IsNext(e)
  PROVE  Accepts(e[2])
<1>0. target \in Stps /\ Half(target) /\ Allowed(target, e)
  BY DEF IInv, TypeOK, Shape, RunningHalf
<1>1. CASE e = AddBridge
  BY <1>1 DEF AddBridge, Accepts
<1> SUFFICES ASSUME e # AddBridge PROVE Accepts(e[2])
  BY <1>1
<1>2. e[1] >= 1 /\ e[1] \in Nat
  BY <1>0, CommandForms DEF Allowed, LongestDelay, MaxAge, Delay
<1>3. known
  <2>1. AddBridge \notin todo
    BY <1>2 DEF IsNext, AddBridge
  <2> QED
    BY <1>0, <2>1 DEF Half
<1>4. CASE \E i : i \notin Trees(target) /\ e = <<9, <<"deletetree", i, i>>>>
  <2> PICK i : i \notin Trees(target) /\ e = <<9, <<"deletetree", i, i>>>>
    BY <1>4
  <2> DEFINE f == <<8, <<"setfid2mstid", 0, target.mstis>>>>
  <2>1. f \in Commands(target) /\ f \notin todo
    BY DEF Commands, IsNext
  <2>2. mapped = target.mstis
    BY <1>0, <2>1 DEF Half, Holds
  <2>3. i \in trees
    BY <1>0 DEF Half
  <2> QED
    BY <1>3, <2>2, <2>3 DEF Accepts, Trees
<1>5. CASE e \in Commands(target)
  <2>1. ASSUME e[1] > 6 PROVE target.mstis \subseteq trees
    <3> SUFFICES ASSUME NEW i \in target.mstis PROVE i \in trees
      OBVIOUS
    <3> DEFINE f == <<6, <<"createtree", i, i>>>>
    <3>1. f \in Commands(target)
      BY DEF Commands
    <3>2. f \notin todo
      BY <1>2, <2>1 DEF IsNext
    <3> QED
      BY <1>0, <3>1, <3>2 DEF Half, Holds
  <2>2. CASE e = LongestDelay
    BY <1>3, <2>2 DEF Accepts, LongestDelay, MaxForwardDelay, IInv, TypeOK
  <2>3. CASE e = MaxAge(target)
    <3>1. LongestDelay \notin todo
      BY <2>3 DEF IsNext, LongestDelay, MaxAge
    <3>2. fdelay = MaxForwardDelay
      BY <1>0, <2>3, <3>1 DEF Half, HalfTimers
    <3>3. target.max_age \in 6..40
      BY <1>0, StpAssumption
    <3> QED
      BY <1>3, <2>3, <3>2, <3>3 DEF Accepts, MaxAge, MaxForwardDelay
  <2>4. CASE e = Delay(target)
    <3>1. LongestDelay \notin todo /\ MaxAge(target) \notin todo
      BY <2>4 DEF IsNext, LongestDelay, MaxAge, Delay
    <3>2. maxage = target.max_age
      BY <1>0, <2>4, <3>1 DEF Half, HalfTimers
    <3>3. 2 * (target.forward_delay - 1) >= target.max_age
      BY <1>0, StpAssumption
    <3> QED
      BY <1>3, <2>4, <3>2, <3>3 DEF Accepts, Delay
  <2>5. CASE e = <<8, <<"setfid2mstid", 0, target.mstis>>>>
    BY <1>3, <2>1, <2>5 DEF Accepts
  <2>6. CASE \E i \in Trees(target) :
                e = <<10, <<"settreeprio", i, target.priority[i]>>>>
    BY <1>3, <2>1, <2>6 DEF Accepts, Trees
  <2>7. CASE \E i \in Trees(target), p \in DOMAIN target.ports :
                e = <<12, <<"settreeport", <<i, p>>, target.tree_ports[i][p]>>>>
    BY <1>3, <2>1, <2>7 DEF Accepts, Trees
  <2>8. CASE e[2][1] \in {"setforcevers", "setbridge", "setvid2fid",
                           "createtree", "setport"}
    BY <1>3, <2>8 DEF Accepts
  <2> DEFINE other == \/ e = <<1, <<"setforcevers", 0, target.protocol>>>>
                      \/ e = <<5, <<"setbridge", 0, target.bridge>>>>
                      \/ e = <<7, <<"setvid2fid", 0, target.vlans>>>>
                      \/ \E i \in target.mstis : e = <<6, <<"createtree", i, i>>>>
                      \/ \E p \in DOMAIN target.ports : e = <<11, <<"setport", p, target.ports[p]>>>>
  <2>9. other => e[2][1] \in {"setforcevers", "setbridge", "setvid2fid",
                               "createtree", "setport"}
    OBVIOUS
  <2>10. \/ e = LongestDelay
         \/ e = MaxAge(target)
         \/ e = Delay(target)
         \/ e = <<8, <<"setfid2mstid", 0, target.mstis>>>>
         \/ \E i \in Trees(target) : e = <<10, <<"settreeprio", i, target.priority[i]>>>>
         \/ \E i \in Trees(target), p \in DOMAIN target.ports :
                e = <<12, <<"settreeport", <<i, p>>, target.tree_ports[i][p]>>>>
         \/ other
    BY <1>0, <1>5, CommandForms, Zenon
  <2> HIDE DEF other
  <2> QED
    BY ONLY <2>2, <2>3, <2>4, <2>5, <2>6, <2>7, <2>8, <2>9, <2>10
<1> QED
  BY <1>0, <1>4, <1>5 DEF Allowed

\* A command of configure takes effect and undoes no other command of the same
\* configuration.
LEMMA EffectHolds ==
  ASSUME NEW s \in Stps, NEW e, Allowed(s, e), Effect(e[2]),
         NEW f \in Commands(s), f = e \/ Holds(f[2])
  PROVE  Holds(f[2])'
<1>1. f[2][1] = "createtree" => f[2][2] \in trees'
  <2> SUFFICES ASSUME f[2][1] = "createtree" PROVE f[2][2] \in trees'
    OBVIOUS
  <2>1. f[2][2] \in s.mstis
    BY CommandForms DEF LongestDelay, MaxAge, Delay
  <2>2. e[2][1] = "deletetree" => e[2][2] \notin s.mstis
    BY CommandForms DEF Allowed, Trees, AddBridge, LongestDelay, MaxAge, Delay
  <2> QED
    BY <2>1, <2>2 DEF Effect, Holds
<1>2. f[2][1] = "setfid2mstid" => mapped' = f[2][3]
  <2>1. f[2][1] = "setfid2mstid" => f[2][3] = s.mstis
    BY CommandForms DEF LongestDelay, MaxAge, Delay
  <2>2. e[2][1] = "setfid2mstid" => e[2][3] = s.mstis
    BY CommandForms DEF Allowed, AddBridge, LongestDelay, MaxAge, Delay
  <2> QED
    BY <2>1, <2>2 DEF Effect, Holds
<1>3. f[2][1] \notin SpecialVerbs => f[2] \in settings'
  <2> SUFFICES ASSUME f[2][1] \notin SpecialVerbs PROVE f[2] \in settings'
    OBVIOUS
  <2>1. CASE e[2][1] = "deletetree"
    <3>1. PICK i : i \notin Trees(s) /\ e = <<9, <<"deletetree", i, i>>>>
      BY <2>1, CommandForms DEF Allowed, AddBridge, LongestDelay, MaxAge, Delay
    <3>2. ~OfTree(f[2], i)
      BY <3>1, CommandForms DEF OfTree, LongestDelay, MaxAge, Delay
    <3>3. f # e
      BY <2>1 DEF SpecialVerbs
    <3> QED
      BY <2>1, <3>1, <3>2, <3>3 DEF Effect, Holds
  <2>2. CASE e[2][1] \in SpecialVerbs /\ e[2][1] # "deletetree"
    BY <2>2 DEF Effect, Holds
  <2>3. CASE e[2][1] \notin SpecialVerbs
    <3>1. e \in Commands(s)
      BY <2>3 DEF Allowed, AddBridge, SpecialVerbs
    <3>2. ~IsTimer(f[2])
      BY DEF IsTimer, SpecialVerbs
    <3>3. SameKey(f[2], e[2]) => f[2] = e[2]
      BY <3>1, <3>2, UniqueKey
    <3>4. settings' = { d \in settings : ~SameKey(d, e[2]) } \cup {e[2]}
      BY <2>3 DEF Effect, SpecialVerbs
    <3> QED
      BY <3>3, <3>4 DEF Holds
  <2> QED
    BY <2>1, <2>2, <2>3
<1> QED
  BY <1>1, <1>2, <1>3 DEF Holds

\* The inductive invariant across one command of configure.
LEMMA RunCommandInv ==
  ASSUME IInv, NEW e \in todo, RunCommand(e)
  PROVE  IInv'
<1>0. /\ target \in Stps /\ Allowed(target, e)
      /\ todo' = todo \ {e} /\ target' = target
      /\ phase = "running" /\ IsNext(e) /\ pid \in alive
      /\ Accepts(e[2]) /\ Effect(e[2])
      /\ UNCHANGED <<phase, pid, applied, target, joined, unsent, alive, ready>>
  BY DEF IInv, TypeOK, Shape, RunCommand
<1>1. /\ e[2][1] = "setfdelay" => e[2][3] \in 4..MaxForwardDelay
      /\ e[2][1] = "setmaxage" => e[2][3] \in 6..40
  <2>1. /\ target.forward_delay \in 4..MaxForwardDelay
        /\ target.max_age \in 6..40
    BY <1>0, StpAssumption
  <2> QED
    BY <1>0, <2>1, CommandForms
    DEF Allowed, AddBridge, LongestDelay, MaxAge, Delay, MaxForwardDelay
<1>2. fdelay' \in 4..MaxForwardDelay /\ maxage' \in 6..40
  BY <1>0, <1>1 DEF Effect, IInv, TypeOK
<1>3. TypeOK'
  <2>1. known' \in BOOLEAN
    BY <1>0 DEF Effect
  <2> QED
    BY <1>0, <1>2, <2>1 DEF IInv, TypeOK
<1>4. OnlyOne' /\ TimersConsistent'
  <2>1. TimersConsistent'
    BY <1>0 DEF IInv, TimersConsistent, Effect, Accepts
  <2> QED
    BY <1>0, <2>1 DEF IInv, OnlyOne
<1>5. Shape' /\ AppliedSettled'
  BY <1>0 DEF IInv, Shape, AppliedSettled
<1>6. RunningHalf'
  <2> SUFFICES ASSUME ~unsent PROVE Half(target)'
    BY <1>0 DEF RunningHalf
  <2>0. Half(target)
    BY <1>0 DEF IInv, RunningHalf
  <2>1. AddBridge \in todo' \/ known'
    <3>1. known' = (known \/ e[2][1] = "addbridge")
      BY <1>0 DEF Effect
    <3>2. CASE e = AddBridge
      BY <3>1, <3>2, Zenon DEF AddBridge
    <3>3. CASE e # AddBridge
      BY <1>0, <2>0, <3>1, <3>3, Zenon DEF Half
    <3> QED
      BY <3>2, <3>3
  <2>2. \A f \in Commands(target) : f \in todo' \/ Holds(f[2])'
    BY <1>0, <2>0, EffectHolds DEF Half
  <2>3. \A f \in todo' : f[2][1] = "deletetree" => f[2][2] \in trees'
    <3> SUFFICES ASSUME NEW f \in todo, f # e, f[2][1] = "deletetree"
                 PROVE  f[2][2] \in trees'
      BY <1>0
    <3>1. Allowed(target, f)
      BY <1>0 DEF IInv, Shape
    <3>2. \E i : f = <<9, <<"deletetree", i, i>>>>
      BY <1>0, <3>1, CommandForms
      DEF Allowed, AddBridge, LongestDelay, MaxAge, Delay
    <3>3. e[2][1] = "deletetree" => \E j : e = <<9, <<"deletetree", j, j>>>>
      BY <1>0, CommandForms DEF Allowed, AddBridge, LongestDelay, MaxAge, Delay
    <3>4. f[2][2] \in trees
      BY <2>0 DEF Half
    <3> QED
      BY <1>0, <3>2, <3>3, <3>4 DEF Effect
  <2>4. HalfTimers(target)'
    <3>1. CASE e = LongestDelay
      BY <1>0, <2>0, <3>1 DEF Half, HalfTimers, Effect, LongestDelay, MaxAge, Delay
    <3>2. CASE e = MaxAge(target)
      <4>1. LongestDelay \notin todo
        BY <1>0, <3>2 DEF IsNext, LongestDelay, MaxAge
      <4> QED
        BY <1>0, <2>0, <3>2, <4>1
        DEF Half, HalfTimers, Effect, LongestDelay, MaxAge, Delay
    <3>3. CASE e = Delay(target)
      <4>1. LongestDelay \notin todo /\ MaxAge(target) \notin todo
        BY <1>0, <3>3 DEF IsNext, LongestDelay, MaxAge, Delay
      <4> QED
        BY <1>0, <2>0, <3>3, <4>1
        DEF Half, HalfTimers, Effect, LongestDelay, MaxAge, Delay
    <3>4. CASE e \notin {LongestDelay, MaxAge(target), Delay(target)}
      <4>1. e[2][1] \notin {"setfdelay", "setmaxage"}
        BY <1>0, <3>4, CommandForms
        DEF Allowed, AddBridge, LongestDelay, MaxAge, Delay
      <4> QED
        BY <1>0, <2>0, <3>4, <4>1 DEF Half, HalfTimers, Effect
    <3> QED
      BY <3>1, <3>2, <3>3, <3>4
  <2> QED
    BY ONLY <2>1, <2>2, <2>3, <2>4, <1>0 DEF Half
<1> QED
  BY <1>3, <1>4, <1>5, <1>6 DEF IInv
-----------------------------------------------------------------------------
\* Every step of Mstpd preserves the inductive invariant.
THEOREM Invariance == Spec => []IInv
<1>1. IInv /\ [Next]_vars => IInv'
  BY StutterInv, OutsideInv, ConfigureInv, ConfigureDoneInv, RunCommandInv
  DEF Next
<1> QED
  BY InitInv, <1>1, PTL DEF Spec

\* The plugin and mstpd stay within their types: the timers mstpd runs with are
\* values the standard allows.
THEOREM TypeCorrect == Spec => []TypeOK
<1>1. IInv => TypeOK
  BY DEF IInv
<1> QED
  BY Invariance, <1>1, PTL

\* prepare and stop_orphans never leave two mstpd processes running.
THEOREM OneProcess == Spec => []OnlyOne
<1>1. IInv => OnlyOne
  BY DEF IInv
<1> QED
  BY Invariance, <1>1, PTL

\* mstpd accepts every command of a configure, in the order they are run, from
\* whatever configuration the earlier commits left.
THEOREM OrderAccepted == Spec => []CommandsAccepted
<1>1. IInv => CommandsAccepted
  BY NextAccepted DEF CommandsAccepted
<1> QED
  BY Invariance, <1>1, PTL

\* What configure leaves out because it was applied before is in effect, for
\* any history of commits, failures and restarts of mstpd.
THEOREM AppliedStaysInEffect == Spec => []AppliedInEffect
<1>1. IInv => AppliedInEffect
  BY DEF IInv, AppliedInEffect, AppliedSettled, Settled, Shape
<1> QED
  BY Invariance, <1>1, PTL
=============================================================================
