------------------------------ MODULE MCSnmpd ------------------------------
(***************************************************************************)
(* Instance of Snmpd for TLC: four process ids, so that both processes can *)
(* be replaced while their predecessors are still there, and               *)
(* configurations that add, remove and exchange a user.                    *)
(***************************************************************************)
EXTENDS Snmpd, TLC

CONSTANTS alice, bob

MCConfs == {{alice}, {bob}, {alice, bob}}

Symmetry == Permutations(Pids)
=============================================================================
