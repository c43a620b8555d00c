------------------------------ MODULE Service ------------------------------
(***************************************************************************)
(* What apply (clixon-switch-plugin/src/lib.rs) counts on from each part   *)
(* it calls in turn, and what clixon counts on from apply: a request to    *)
(* have a configuration ends, and if it reports success the configuration  *)
(* is in effect from then on, until the next request, unless the part      *)
(* loses it by itself.                                                     *)
(***************************************************************************)
CONSTANT
    Loses      \* whether what the part has may go away by itself

VARIABLES
    busy,      \* a request is being served
    outcome,   \* of the last request: "ok", "error", or "none" before it ends
    has,       \* the part has what it was asked for last
    lost       \* it lost that, in a way that the request could not see

vars == <<busy, outcome, has, lost>>

Init ==
    /\ busy = FALSE
    /\ outcome \in {"none", "ok"}
    /\ has \in BOOLEAN /\ lost = FALSE
    /\ outcome = "ok" => has

\* A request begins.  The part may happen to have what is asked for.
Begin ==
    /\ ~busy
    /\ busy' = TRUE
    /\ outcome' = "none"
    /\ has' \in BOOLEAN
    /\ lost' \in {FALSE, lost}

\* The part works on it.
Work ==
    /\ busy
    /\ has' \in BOOLEAN
    /\ UNCHANGED <<busy, outcome, lost>>

\* The request ends, or begins and ends in one step.
Succeed ==
    /\ busy' = FALSE
    /\ outcome' = "ok"
    /\ lost' \in {FALSE, lost}
    /\ has' = TRUE \/ (has' = FALSE /\ lost' = TRUE)

Fail ==
    /\ busy' = FALSE
    /\ outcome' = "error"
    /\ has' \in BOOLEAN /\ lost' \in BOOLEAN

\* A process exits by itself.
Lose ==
    /\ Loses
    /\ has' = FALSE
    /\ lost' \in BOOLEAN
    /\ UNCHANGED <<busy, outcome>>

\* After a failure the part may still come to have it.
Drift ==
    /\ ~busy /\ outcome # "ok"
    /\ has' \in BOOLEAN
    /\ UNCHANGED <<busy, outcome, lost>>

\* clixon_backend exits, and the request with it.
Die ==
    /\ busy' = FALSE
    /\ outcome' = "none"
    /\ has' \in BOOLEAN /\ lost' = FALSE

Next == Begin \/ Work \/ Succeed \/ Fail \/ Lose \/ Drift \/ Die

\* Every request ends.
Ends == busy ~> ~busy

Safely == Init /\ [][Next]_vars
Spec == Safely /\ Ends
=============================================================================
