--------------------------- MODULE MCDownloadFile ---------------------------
\* Model values for DownloadFile; downloads and inodes are interchangeable.
EXTENDS DownloadFile, TLC
Symmetry == Permutations(Downloads) \cup Permutations(Inodes)
=============================================================================
