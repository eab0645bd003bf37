---------------------------- MODULE MCLatencySim ----------------------------
EXTENDS LatencySim

\* run() gives the client id -1.
MCClientId == -1

\* PASSIVE_REPLICA as shipped (None), and each replica but the leader.
MCPassiveChoices == {None, 1, 2, 3}
=============================================================================
