-------------------------- MODULE MCCachedFetcher --------------------------
EXTENDS CachedFetcher, TLC

CONSTANTS c1, c2, c3, head, block, older

\* The two callers that are never cancelled may be exchanged.
CallerSymmetry == Permutations({c2, c3})
=============================================================================
