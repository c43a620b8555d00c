---------------------------- MODULE AccountProofs ----------------------------
(***************************************************************************)
(* Proofs about Account, for any names and passwords: whatever the console *)
(* does beside a request, wherever a script fails, and whatever a script   *)
(* does that a request has left behind.                                    *)
(***************************************************************************)
EXTENDS Account, TLAPS

Steps == {"none", "account", "password", "flag", "done", "failed"}

Types ==
    /\ setup_flag \in BOOLEAN
    /\ rpc \in [ step : {"idle", "create", "change", "script"},
                 username : Usernames \cup {None},
                 current : Passwords \cup {None}, new : Passwords \cup {None} ]
    /\ script \in [ Runners -> [ step : Steps, username : Usernames \cup {None},
                                 new : Passwords \cup {None} ] ]

\* An account is created for a name, and has no password before.
Accounts ==
    /\ \A w \in Runners : script[w].step = "account" => script[w].username # None
    /\ admin = None => shadow = None

\* A request knows the passwords of its time, and a script runs for it only in
\* its last step.
Requests ==
    /\ rpc.step # "idle" => shadow \in known
    /\ rpc.step # "script" => script["rpc"].step = "none"
    /\ rpc.step = "change" => ~setup_flag

\* What the script of a request stands for, and how far it is.
Scripted ==
    rpc.step = "script" =>
        /\ rpc.username = None => rpc.current \in known \ {None} /\ ~setup_flag
        /\ script["rpc"].step \in {"account", "password", "flag"}
              => script["rpc"].username = rpc.username /\ script["rpc"].new = rpc.new
        /\ script["rpc"].step \in {"flag", "done"} => admin # None /\ rpc.new \in known
        /\ script["rpc"].step = "done" => ~setup_flag

\* A script that goes on after its account has been created is the one that has
\* created it.
Setup ==
    rpc.step = "script" /\ rpc.username # None /\ script["rpc"].step \in {"password", "flag"}
        => created /\ admin = rpc.username

IInv == Types /\ Accounts /\ Requests /\ Scripted /\ Setup

-----------------------------------------------------------------------------
\* A request that is answered before its script runs leaves everything as it was.
LEMMA Refused ==
    ASSUME IInv, NEW result, rpc.step # "script", Refuse(result)
    PROVE  IInv'
  BY AccountAssumption
  DEF IInv, Types, Steps, Accounts, Requests, Scripted, Setup, Refuse, Reply, Idle, files,
      history

\* A request gets to its script with a name that was checked, or with the current
\* password.
LEMMA NewPasswordAsked ==
    ASSUME IInv, rpc.step \in {"create", "change"}, NewPassword(rpc.username),
           IF rpc.username = None THEN rpc.current \in known \ {None} /\ ~setup_flag
                                  ELSE rpc.username \in Valid
    PROVE  IInv'
<1>1. CASE \E r : Refuse(r)
  BY <1>1, Refused
<1> DEFINE s(n) == [ step |-> IF rpc.username = None THEN "password" ELSE "account",
                     username |-> rpc.username, new |-> n ]
<1>2. \A n \in Passwords \cup {None} :
         s(n) \in [step : Steps, username : Usernames \cup {None}, new : Passwords \cup {None}]
  BY DEF IInv, Types, Steps
<1>3. CASE /\ script' = [script EXCEPT !["rpc"] = s(rpc.new)]
           /\ rpc' = [rpc EXCEPT !.step = "script"]
           /\ UNCHANGED <<files, reply, resetting, history>>
  <2>1. Types'
    BY <1>2, <1>3 DEF IInv, Types, files, history
  <2>2. /\ rpc'.step = "script" /\ rpc'.username = rpc.username
        /\ rpc'.current = rpc.current /\ rpc'.new = rpc.new
        /\ script'["rpc"] = s(rpc.new)
        /\ \A w \in Runners \ {"rpc"} : script'[w] = script[w]
    BY <1>3 DEF IInv, Types, Runners
  <2> QED
    BY <1>3, <2>1, <2>2
    DEF IInv, Accounts, Requests, Scripted, Setup, files, history, Runners
<1>4. CASE /\ script' = [script EXCEPT !["left"] = s(None)]
           /\ Reply("operation-failed")
           /\ UNCHANGED <<files, resetting>>
  <2>1. /\ rpc' = Idle /\ created' = FALSE
        /\ script'["left"] = s(None)
        /\ \A w \in Runners \ {"left"} : script'[w] = script[w]
    BY <1>4 DEF IInv, Types, Runners, Reply
  <2>2. Types'
    BY <1>2, <1>4, <2>1 DEF IInv, Types, files, Idle
  <2> QED
    BY <1>4, <2>1, <2>2
    DEF IInv, Accounts, Requests, Scripted, Setup, files, Idle, Runners
<1> QED
  BY <1>1, <1>3, <1>4 DEF NewPassword, RunScript, Begins

\* The invariant holds before the first request.
LEMMA Initially == Init => IInv
  BY AccountAssumption
  DEF Init, IInv, Types, Steps, Accounts, Requests, Scripted, Setup, Idle, Ended, Runners

\* A step of a script, the request's or the console's.
LEMMA ScriptSteps ==
    ASSUME IInv, NEW w \in Runners, ScriptStep(w)
    PROVE  IInv'
<1> USE AccountAssumption
    DEF IInv, Types, Steps, Accounts, Requests, Scripted, Setup, Idle, Ended, Runners
<1> DEFINE s == script[w]
<1>1. rpc.step # "idle" => known' = known \cup {shadow'}
  BY DEF ScriptStep
<1>2. created => created'
  BY Zenon DEF ScriptStep
<1>3. CASE s.step = "account"
  <2>1. /\ script' = [script EXCEPT ![w] = [s EXCEPT !.step = "password"]]
        /\ admin = None /\ admin' = s.username /\ shadow' = None
        /\ UNCHANGED <<setup_flag, rpc>>
    BY <1>3 DEF ScriptStep
  <2>2. w = "rpc" => created'
    BY <1>3, Zenon DEF ScriptStep
  <2>3. Types' /\ Accounts'
    BY <1>3, <2>1
  <2>4. Requests' /\ Scripted' /\ Setup'
    BY <1>1, <1>2, <1>3, <2>1, <2>2
  <2> QED
    BY <2>3, <2>4
<1>4. CASE s.step = "password"
  <2> DEFINE t == IF s.username = None THEN Ended("done") ELSE [s EXCEPT !.step = "flag"]
  <2>1. /\ script' = [script EXCEPT ![w] = t]
        /\ admin # None /\ shadow' = s.new /\ s.new # None
        /\ UNCHANGED <<setup_flag, admin, rpc>>
    BY <1>4 DEF ScriptStep
  <2>2. Types' /\ Accounts'
    BY <1>4, <2>1
  <2>3. Requests' /\ Scripted' /\ Setup'
    BY <1>1, <1>2, <1>4, <2>1
  <2> QED
    BY <2>2, <2>3
<1>5. CASE s.step = "flag"
  <2>1. /\ script' = [script EXCEPT ![w] = Ended("done")]
        /\ setup_flag' = FALSE
        /\ UNCHANGED <<admin, shadow, rpc>>
    BY <1>5 DEF ScriptStep
  <2>2. Types'
    BY <2>1, Zenon
  <2>3. Accounts'
    BY <2>1
  <2>4. Requests' /\ Scripted' /\ Setup'
    BY <1>1, <1>2, <1>5, <2>1
  <2> QED
    BY <2>2, <2>3, <2>4
<1> QED
  BY <1>3, <1>4, <1>5 DEF ScriptStep

\* Every step keeps the invariant.
LEMMA Inductive == IInv /\ [Next]_vars => IInv'
<1> SUFFICES ASSUME IInv, [Next]_vars PROVE IInv'
  OBVIOUS
<1> USE AccountAssumption
<1>1. ASSUME NEW u \in Usernames \cup {None}, NEW c \in Passwords \cup {None},
             NEW n \in Passwords \cup {None}, SetPassword(u, c, n)
      PROVE  IInv'
  <2>1. CASE n = None
    BY <1>1, <2>1, Refused DEF SetPassword, Idle
  <2>2. CASE n # None
    BY <1>1, <2>2
    DEF SetPassword, Idle, IInv, Types, Steps, Accounts, Requests, Scripted, Setup, files,
        history, Runners
  <2> QED
    BY <2>1, <2>2
<1>2. CASE CreateAccount
  <2>1. CASE ValidUsername(rpc.username) /\ NameFree(rpc.username)
    <3>1. rpc.username \in Valid \ Groups /\ rpc.username # None
      BY <2>1 DEF ValidUsername, NameFree
    <3> QED
      BY <1>2, <2>1, <3>1, NewPasswordAsked DEF CreateAccount
  <2>2. CASE ~(ValidUsername(rpc.username) /\ NameFree(rpc.username))
    BY <1>2, <2>2, Refused DEF CreateAccount
  <2> QED
    BY <2>1, <2>2
<1>3. CASE ChangePassword
  <2>1. CASE \E r : Refuse(r)
    BY <1>3, <2>1, Refused DEF ChangePassword
  <2>2. CASE ~\E r : Refuse(r)
    <3>1. rpc.username = None /\ PasswordMatches(rpc.current) /\ NewPassword(None)
      BY <1>3, <2>2, Zenon DEF ChangePassword
    <3>2. rpc.current \in known \ {None} /\ ~setup_flag
      BY <1>3, <3>1 DEF ChangePassword, PasswordMatches, IInv, Requests
    <3> QED
      BY <1>3, <3>1, <3>2, NewPasswordAsked DEF ChangePassword
  <2> QED
    BY <2>1, <2>2
<1>4. CASE ReadFails \/ Panics
  BY <1>4, Refused DEF ReadFails, Panics
<1>5. CASE ScriptEnds
  BY <1>5
  DEF ScriptEnds, Reply, Idle, Ended, IInv, Types, Steps, Accounts, Requests, Scripted,
      Setup, files, history, Runners
<1>6. CASE FactoryReset
  BY <1>6
  DEF FactoryReset, Reply, Idle, IInv, Types, Accounts, Requests, Scripted, Setup, files,
      history, Runners
<1>7. ASSUME NEW u \in Valid \cup {None}, NEW n \in Acceptable, ConsoleScript(u, n)
      PROVE  IInv'
  BY <1>7
  DEF ConsoleScript, Begins, Free, IInv, Types, Steps, Accounts, Requests, Scripted, Setup,
      files, history, Runners
<1>8. ASSUME NEW w \in Runners, ScriptStep(w) PROVE IInv'
  BY <1>8, ScriptSteps
<1>9. ASSUME NEW w \in Runners, ScriptFails(w) PROVE IInv'
  BY <1>9
  DEF ScriptFails, Ended, IInv, Types, Steps, Accounts, Requests, Scripted, Setup, files,
      history, Runners
<1>10. CASE Boot
  BY <1>10
  DEF Boot, Idle, Ended, IInv, Types, Steps, Accounts, Requests, Scripted, Setup, Runners
<1>11. CASE UNCHANGED vars
  BY <1>11 DEF vars, files, history, IInv, Types, Accounts, Requests, Scripted, Setup
<1> QED
  BY <1>1, <1>2, <1>3, <1>4, <1>5, <1>6, <1>7, <1>8, <1>9, <1>10, <1>11 DEF Next

\* So it holds always.
LEMMA Invariance == Spec => []IInv
  BY Initially, Inductive, PTL DEF Spec

-----------------------------------------------------------------------------
\* Only a script changes the password of an admin that stays.
LEMMA ShadowChanges ==
    ASSUME IInv, Next, shadow' # shadow, admin' = admin
    PROVE  \E w \in Runners : ScriptStep(w)
<1>1. CASE Boot
  BY <1>1 DEF Boot, IInv, Accounts
<1>2. CASE \E w \in Runners : ScriptStep(w)
  BY <1>2
<1> QED
  BY <1>1, <1>2, Zenon
  DEF Next, SetPassword, CreateAccount, ChangePassword, NewPassword, RunScript, ReadFails,
      ScriptEnds, FactoryReset, Panics, Refuse, Reply, ConsoleScript, ScriptFails, files

\* The setup: a request that took itself for it sets the password of no account but
\* the one that its script has created (SetupOnce), however the console's script, or
\* one that was left behind, runs beside it.
THEOREM SetsUpOnce == Spec => SetupOnce
<1>1. IInv /\ [Next]_vars
      => [shadow' # shadow /\ script'["rpc"] # script["rpc"] /\ rpc # Idle
          /\ rpc.username # None /\ admin' = admin
             => created /\ admin = rpc.username]_vars
  <2> SUFFICES ASSUME IInv, Next, shadow' # shadow, script'["rpc"] # script["rpc"],
                      rpc.username # None, admin' = admin
               PROVE  created /\ admin = rpc.username
    BY DEF vars, files
  <2>1. \E w \in Runners : ScriptStep(w)
    BY ShadowChanges
  <2>2. PICK w \in Runners : ScriptStep(w)
    BY <2>1
  <2>3. w = "rpc" /\ script["rpc"].step = "password" /\ rpc.step = "script"
    BY <2>2 DEF ScriptStep, IInv, Types, Steps, Requests, Accounts, Runners
  <2> QED
    BY <2>3 DEF IInv, Setup
<1> QED
  BY <1>1, Invariance, PTL DEF Spec, SetupOnce

\* set_password: for a change of the password, a password that the admin had
\* while the request ran was given.
THEOREM ChangeNeedsCurrent == Spec => NeedsCurrent
<1>1. IInv /\ [Next]_vars
      => [shadow' # shadow /\ script'["rpc"] # script["rpc"] /\ rpc # Idle
          /\ rpc.username = None /\ admin' = admin
             => rpc.current \in known \ {None}]_vars
  <2> SUFFICES ASSUME IInv, Next, shadow' # shadow, script'["rpc"] # script["rpc"],
                      rpc.username = None, admin' = admin
               PROVE  rpc.current \in known \ {None}
    BY DEF vars, files
  <2>1. PICK w \in Runners : ScriptStep(w)
    BY ShadowChanges
  <2> QED
    BY <2>1 DEF ScriptStep, IInv, Types, Steps, Requests, Scripted, Runners
<1> QED
  BY <1>1, Invariance, PTL DEF Spec, NeedsCurrent

\* run_with_stdin and its exit status: ok is the answer only if the script has
\* set the new password of an admin that is there, and a refusal comes before a
\* script that could change a file.
THEOREM AnswersTruly == Spec => ReplyIsTrue
<1>1. IInv /\ [Next]_vars
      => [rpc.step # "idle" /\ rpc' = Idle /\ ~resetting
          => /\ reply' = "ok" => /\ admin # None
                                 /\ rpc.new \in known
                                 /\ ~setup_flag
             /\ reply' \in {"invalid-value", "access-denied"} => rpc.step # "script"]_vars
  <2> SUFFICES ASSUME IInv, Next, rpc.step # "idle", rpc' = Idle, ~resetting
               PROVE  /\ reply' = "ok" => admin # None /\ rpc.new \in known /\ ~setup_flag
                      /\ reply' \in {"invalid-value", "access-denied"} => rpc.step # "script"
    BY DEF vars
  <2>1. CASE ScriptEnds
    BY <2>1 DEF ScriptEnds, Reply, IInv, Scripted
  <2>2. CASE CreateAccount \/ ChangePassword \/ ReadFails \/ Panics
    <3>1. ~(rpc' = [rpc EXCEPT !.step = "script"])
      BY DEF Idle, IInv, Types
    <3>2. ASSUME NEW u, NewPassword(u) PROVE Reply("invalid-value") \/ Reply("operation-failed")
      BY <3>1, <3>2, Zenon DEF NewPassword, RunScript, Refuse
    <3>3. \E r \in {"invalid-value", "access-denied", "operation-failed", "error"} : Reply(r)
      BY <2>2, <3>2, Zenon DEF CreateAccount, ChangePassword, ReadFails, Panics, Refuse
    <3>4. reply' # "ok"
      BY <3>3 DEF Reply
    <3> QED
      BY <2>2, <3>4, Zenon DEF CreateAccount, ChangePassword, ReadFails, Panics
  <2>3. CASE rpc' = rpc \/ rpc = Idle
    BY <2>3 DEF Idle
  <2> QED
    BY <2>1, <2>2, <2>3
    DEF Next, SetPassword, FactoryReset, ConsoleScript, ScriptStep, ScriptFails, Boot
<1> QED
  BY <1>1, Invariance, PTL DEF Spec, ReplyIsTrue
=============================================================================
