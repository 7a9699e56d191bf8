---------------------------- MODULE MCCacheManager ----------------------------
\* Two clients, two keys and two tables.
EXTENDS CacheManager, TLC

CONSTANTS c1, c2, k1, k2, t1, t2

MCClient == {c1, c2}
MCKey == {k1, k2}
MCTable == {t1, t2}
MCTTL == {1}
MCPatterns == {{k1}}
MCSymmetry == Permutations(MCClient) \union Permutations(MCTable)
=============================================================================
