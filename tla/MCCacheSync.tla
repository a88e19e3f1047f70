---------------------------- MODULE MCCacheSync ----------------------------
\* Model values for CacheSync; the downloads are interchangeable.
EXTENDS CacheSync, TLC
Symmetry == Permutations(Downloads)
=============================================================================
