------------------------------ MODULE MCMstpd ------------------------------
(***************************************************************************)
(* Instance of Mstpd for TLC: two process ids, so that a process is        *)
(* replaced by another one, and configurations whose timers cannot be      *)
(* changed in one step from any to any other, whose MSTIs come and go, and *)
(* one of which has the longest forward delay.                             *)
(***************************************************************************)
EXTENDS Mstpd, TLC

Port == "lan1"

\* A configuration: its timers, its MSTIs, and the one value that all its
\* other settings have.
Config(max, delay, ids, v) ==
    [ protocol |-> v, max_age |-> max, forward_delay |-> delay,
      bridge |-> v, mstis |-> ids, vlans |-> ids,
      priority |-> [i \in {0} \cup ids |-> v],
      ports |-> (Port :> v),
      tree_ports |-> [i \in {0} \cup ids |-> (Port :> v)] ]

MCStps ==
    { Config(20, 15, {}, 1), Config(40, 21, {1}, 1),
      Config(20, 30, {1}, 2), Config(6, 4, {1, 2}, 2) }

PidSymmetry == Permutations(Pids)
=============================================================================
