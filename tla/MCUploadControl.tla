-------------------------- MODULE MCUploadControl --------------------------
(* UploadControl on small instances. *)
EXTENDS UploadControl, TLC

Symmetry == Permutations(Uploaders) \cup Permutations(Timers) \cup Permutations(Handlers)
=============================================================================
