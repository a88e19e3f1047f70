---------------------------- MODULE MCRenameCopy ----------------------------
\* Model values for RenameCopy; keys and requests are interchangeable.
EXTENDS RenameCopy, TLC
Symmetry == Permutations(Keys) \cup Permutations(Requests)
=============================================================================
