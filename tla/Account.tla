------------------------------ MODULE Account ------------------------------
(***************************************************************************)
(* The admin account (switch-net/src/account.rs): the RPCs set-password    *)
(* and factory-reset, from the callback in clixon-plugin to the firmware's *)
(* scripts.  The checks read files that the scripts write, and "root on    *)
(* the serial console runs the same code as the RPCs" (account.rs:7-8), at *)
(* any time.  The scripts are not part of the repository: they are here    *)
(* what AccountConfig says of them, and may fail after any of their steps. *)
(***************************************************************************)
EXTENDS Naturals, FiniteSets

CONSTANTS
    Usernames,      \* the usernames that requests have
    Valid,          \* those of them that validate_username accepts
    System,         \* the users that the firmware comes with
    Groups,         \* the groups that the firmware comes with
    Passwords,      \* passwords
    Acceptable,     \* those of them that validate_password accepts
    None            \* no leaf in a request; no password that logs in

ASSUME AccountAssumption ==
    /\ Valid \subseteq Usernames /\ Acceptable \subseteq Passwords
    /\ None \notin Usernames \cup Passwords \cup System

VARIABLES
    setup_flag,   \* the file exists
    admin,        \* /etc/passwd: the user with ADMIN_UID, or None
    shadow,       \* /etc/shadow: the admin's password, or None for "!"
    rpc,          \* the request in progress, or Idle: [step, username, current, new]
    script,       \* the scripts, of the request ("rpc"), on the "console", and one
                  \* that a request has "left" behind: [step, username, new]
    reply,        \* of the last request: "none", "ok", "invalid-value",
                  \* "access-denied", "operation-failed", or "error": no reply
    resetting,    \* the data partition is wiped on the next boot
    known,        \* history: the admin's passwords while the request runs
    created       \* history: the request has created the admin account

files == <<setup_flag, admin, shadow>>
history == <<known, created>>
vars == <<files, rpc, script, reply, resetting, history>>

Runners == {"rpc", "console", "left"}

Idle == [step |-> "idle", username |-> None, current |-> None, new |-> None]
Ended(step) == [step |-> step, username |-> None, new |-> None]

Init ==
    /\ setup_flag = TRUE /\ admin = None /\ shadow = None
    /\ rpc = Idle
    /\ script = [w \in Runners |-> Ended("none")]
    /\ reply = "none" /\ resetting = FALSE /\ known = {} /\ created = FALSE

-----------------------------------------------------------------------------
\* rpc, of clixon-plugin and of the plugin: the answer that the client gets.
Reply(result) ==
    /\ reply' = result
    /\ rpc' = Idle
    /\ known' = {} /\ created' = FALSE

Refuse(result) == Reply(result) /\ UNCHANGED <<files, script, resetting>>

\* The script begins for runner w.
Begins(w, username, new) ==
    script' = [script EXCEPT ![w] = [ step |-> IF username = None THEN "password" ELSE "account",
                                      username |-> username, new |-> new ]]

\* No script of runner w runs.
Free(w) == script[w].step \in {"none", "done", "failed"}

\* run_with_stdin: the script is started, or cannot be, or does not take the
\* password: then nobody waits for it.  Bound: one such script at a time.
RunScript(username, new) ==
    \/ /\ Begins("rpc", username, new)
       /\ rpc' = [rpc EXCEPT !.step = "script"]
       /\ UNCHANGED <<files, reply, resetting, history>>
    \/ Refuse("operation-failed")
    \/ /\ Free("left")
       /\ Begins("left", username, None)
       /\ Reply("operation-failed")
       /\ UNCHANGED <<files, resetting>>

\* set-password, up to the look at the flag.
SetPassword(username, current, new) ==
    /\ rpc = Idle
    /\ IF new = None
       THEN Refuse("invalid-value")
       ELSE /\ rpc' = [ step |-> IF setup_flag THEN "create" ELSE "change",
                        username |-> username, current |-> current, new |-> new ]
            /\ reply' = "none"
            /\ known' = {shadow} /\ created' = FALSE
            /\ UNCHANGED <<files, script, resetting>>

\* validate_password, of which only the outcome matters.
ValidPassword(password) == password \in Acceptable

\* The end of set_password: the new password is checked, and the script runs.
NewPassword(username) ==
    IF ValidPassword(rpc.new) THEN RunScript(username, rpc.new) ELSE Refuse("invalid-value")

\* check_name_free
NameFree(n) == n \notin System \cup {admin} \cup Groups

\* validate_username; a request without a username is refused alike.
ValidUsername(username) == username \in Valid

\* Mutant of CreateAccount: the script is not told that it is a setup.
CreateAccountUntold ==
    /\ rpc.step = "create"
    /\ IF ValidUsername(rpc.username) /\ NameFree(rpc.username)
       THEN NewPassword(None)
       ELSE Refuse("invalid-value")

\* The setup.
CreateAccount ==
    /\ rpc.step = "create"
    /\ IF ValidUsername(rpc.username) /\ NameFree(rpc.username)
       THEN NewPassword(rpc.username)
       ELSE Refuse("invalid-value")

\* password_matches, of the hash that shadow_hash finds for the admin: a locked
\* account's matches nothing.
PasswordMatches(password) == shadow # None /\ password = shadow

\* Mutant of ChangePassword: a current password that is not given is not
\* looked at either.
ChangePasswordUnasked ==
    /\ rpc.step = "change"
    /\ CASE rpc.username # None -> Refuse("invalid-value")
         [] rpc.username = None /\ rpc.current # None /\ (admin = None \/ ~PasswordMatches(rpc.current)) ->
               Refuse("access-denied")
         [] OTHER -> NewPassword(None)

\* The password of the admin account, whose name is asked for first, is changed.
ChangePassword ==
    /\ rpc.step = "change"
    /\ CASE rpc.username # None -> Refuse("invalid-value")
         [] rpc.username = None /\ rpc.current = None -> Refuse("access-denied")
         [] rpc.username = None /\ rpc.current # None /\ admin = None ->
               Refuse("operation-failed")
         [] rpc.username = None /\ rpc.current # None /\ admin # None ->
               IF PasswordMatches(rpc.current) THEN NewPassword(None) ELSE Refuse("access-denied")

\* A file cannot be read.
ReadFails == rpc.step \in {"create", "change"} /\ Refuse("operation-failed")

\* Mutant of ScriptEnds: the exit status is not looked at.
ScriptEndsWell ==
    /\ rpc.step = "script"
    /\ script["rpc"].step \in {"done", "failed"}
    /\ Reply("ok")
    /\ script' = [script EXCEPT !["rpc"] = Ended("none")]
    /\ UNCHANGED <<files, resetting>>

\* wait_with_output returns.
ScriptEnds ==
    /\ rpc.step = "script"
    /\ script["rpc"].step \in {"done", "failed"}
    /\ Reply(IF script["rpc"].step = "done" THEN "ok" ELSE "operation-failed")
    /\ script' = [script EXCEPT !["rpc"] = Ended("none")]
    /\ UNCHANGED <<files, resetting>>

\* factory-reset
FactoryReset ==
    /\ rpc = Idle
    /\ \/ Reply("ok") /\ resetting' = TRUE
       \/ Reply("operation-failed") /\ UNCHANGED resetting
    /\ UNCHANGED <<files, script>>

\* The callback panics: clixon gets no reply from it.
Panics == rpc.step \in {"create", "change"} /\ Refuse("error")

-----------------------------------------------------------------------------
(***************************************************************************)
(* The firmware's scripts, and the boot after a factory reset.             *)
(***************************************************************************)

\* Root starts the script on the console, for a setup or for a change.
ConsoleScript(username, new) ==
    /\ Free("console")
    /\ Begins("console", username, new)
    /\ UNCHANGED <<files, rpc, reply, resetting, history>>

\* A step of the script: useradd, which takes neither a name nor a UID that is
\* there; chpasswd, for the user with ADMIN_UID, with the password that it was
\* given; and the flag is removed.
ScriptStep(w) ==
    LET s == script[w]
        goes(step) == script' = [script EXCEPT ![w] = IF step = "done" THEN Ended(step)
                                                      ELSE [s EXCEPT !.step = step]]
    IN  /\ \/ /\ s.step = "account" /\ admin = None /\ s.username \notin System
              /\ admin' = s.username /\ shadow' = None
              /\ goes("password")
              /\ UNCHANGED setup_flag
           \/ /\ s.step = "password" /\ admin # None /\ s.new # None
              /\ shadow' = s.new
              /\ goes(IF s.username = None THEN "done" ELSE "flag")
              /\ UNCHANGED <<setup_flag, admin>>
           \/ /\ s.step = "flag"
              /\ setup_flag' = FALSE
              /\ goes("done")
              /\ UNCHANGED <<admin, shadow>>
        /\ known' = IF rpc = Idle THEN {} ELSE known \cup {shadow'}
        /\ created' = (created \/ (w = "rpc" /\ s.step = "account"))
        /\ UNCHANGED <<rpc, reply, resetting>>

\* The script fails, in any of its steps.
ScriptFails(w) ==
    /\ script[w].step \in {"account", "password", "flag"}
    /\ script' = [script EXCEPT ![w] = Ended("failed")]
    /\ UNCHANGED <<files, rpc, reply, resetting, history>>

\* The switch boots; after a factory reset it is as it was at first.
Boot ==
    /\ resetting
    /\ setup_flag' = TRUE /\ admin' = None /\ shadow' = None
    /\ rpc' = Idle
    /\ script' = [w \in Runners |-> Ended("none")]
    /\ reply' = "none" /\ resetting' = FALSE /\ known' = {} /\ created' = FALSE

Next ==
    \/ \E u \in Usernames \cup {None}, c, n \in Passwords \cup {None} : SetPassword(u, c, n)
    \/ CreateAccount
    \/ ChangePassword
    \/ ReadFails
    \/ ScriptEnds
    \/ FactoryReset
    \/ Panics
    \/ \E u \in Valid \cup {None}, n \in Acceptable : ConsoleScript(u, n)
    \/ \E w \in Runners : ScriptStep(w)
    \/ \E w \in Runners : ScriptFails(w)
    \/ Boot

Spec == Init /\ [][Next]_vars

-----------------------------------------------------------------------------
\* "its username is chosen once, during the setup, and stays until a factory
\* reset" (account.rs:239-240): a request that took itself for the setup sets the
\* password of no account but the one that it has created.  An account that the
\* console, or a script that was left behind, has made since the request looked at
\* the flag keeps its password, for which the request gives none.
SetupOnce ==
    [][shadow' # shadow /\ script'["rpc"] # script["rpc"] /\ rpc # Idle /\ rpc.username # None
       /\ admin' = admin
          => created /\ admin = rpc.username]_vars

\* "Afterwards it changes the password of that account and fails with
\* access-denied if current-password is missing or wrong"
\* (clixon-switch.yang:224-225): a request that is not a setup sets a password
\* only if it gave one that the admin had while it ran, and not for an account
\* that a setup which failed half way has left without.
NeedsCurrent ==
    [][shadow' # shadow /\ script'["rpc"] # script["rpc"] /\ rpc # Idle /\ rpc.username = None
       /\ admin' = admin
          => rpc.current \in known \ {None}]_vars

\* The reply is true: after ok the admin logs in with the new password, unless
\* the console has changed it since, and after a refusal the request has not
\* changed a file.
ReplyIsTrue ==
    [][rpc.step # "idle" /\ rpc' = Idle /\ ~resetting
          => /\ reply' = "ok" => /\ admin # None
                                 /\ rpc.new \in known
                                 /\ ~setup_flag
             /\ reply' \in {"invalid-value", "access-denied"} => rpc.step # "script"]_vars
=============================================================================
