----------------------------- MODULE MCConnections -----------------------------
\* Two goroutines and two clients; two names, or one where liveness is checked.
EXTENDS Connections, TLC

CONSTANTS c1, c2, k1, k2, x1, x2, x3

MCCaller == {c1, c2}
MCName == {1, 2}
MCOneName == {1}
MCClient == {k1, k2}
MCConn == {x1, x2, x3}
MCTwoConn == {x1, x2}
MCSymmetry == Permutations(MCCaller) \union Permutations(MCClient) \union Permutations(MCConn)
=============================================================================
