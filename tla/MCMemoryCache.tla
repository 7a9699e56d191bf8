----------------------------- MODULE MCMemoryCache -----------------------------
\* Three keys for two places; two of them match the glob.
EXTENDS MemoryCache

CONSTANTS k1, k2, k3, v1, v2

MCKey == {k1, k2, k3}
MCValue == {v1, v2}
MCTTL == {1, 2}
MCPatterns == {{k1, k2}}
=============================================================================
