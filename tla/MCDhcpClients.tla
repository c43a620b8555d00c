---------------------------- MODULE MCDhcpClients ----------------------------
\* Two SVIs and two pids: the client of one link and the client that replaces it.
EXTENDS DhcpClients, TLC

PidSymmetry == Permutations(Pids)
=============================================================================
