------------------------------ MODULE MCHandles ------------------------------
\* Two goroutines; two live queries, or one with a session or a transaction.
EXTENDS Handles, TLC

CONSTANTS c1, c2, l1, l2, s1, t1, x1, x2

MCCaller == {c1, c2}
MCLive == {l1, l2}
MCSession == {s1}
MCTx == {t1}
MCProgram == {{l1, l2}, {l1, s1}, {l1, t1}, {s1, t1}}
MCConn == {x1, x2}
MCSymmetry == Permutations(MCCaller) \union Permutations(MCConn)
=============================================================================
