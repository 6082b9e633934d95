-------------------------------- MODULE MCFiles --------------------------------
(* Instances of Files for TLC.                                             *)
EXTENDS Files, TLC

CONSTANTS p1, p2, sh, cat
MCSectors == 1..4

(* Only Init tells First from the others: a step and a property hold for   *)
(* every process alike.                                                    *)
Symmetry == Permutations(Procs)

(* Two states are alike if the descriptors are of the same files, in       *)
(* whatever order (with two descriptors the set of the table's entries     *)
(* tells which they are), or if the kernel has stopped in both.            *)
Alike ==
  IF panicked = "no"
  THEN <<[p \in Procs |-> {fd_table[p][fd] : fd \in Fds}], pc, filelock,
         running, file, inodes, root, free, history>>
  ELSE <<panicked>>
=============================================================================
