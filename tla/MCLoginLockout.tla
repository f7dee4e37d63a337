--------------------------- MODULE MCLoginLockout ---------------------------
(* Small instances of LoginLockout.                                         *)
EXTENDS LoginLockout, TLC

Symmetry == Permutations(Calls)

=============================================================================
