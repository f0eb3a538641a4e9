------------------------------- MODULE MCBackups -------------------------------
(* Backups on small instances; the .cfg file gives the other constants.    *)
EXTENDS Backups, TLC

\* Jobs two at a time on a healthy disk, keeping two or one; jobs one after the other
\* beside restores, with a version that breaks a foreign key, a kill, a failing file
\* operation and a file damaged on disk.
MCBackupRooms ==
  {[keep |-> 2, bad |-> {}, active |-> 2, kills |-> 0, faults |-> 0, rots |-> 0],
   [keep |-> 1, bad |-> {}, active |-> 2, kills |-> 0, faults |-> 0, rots |-> 0],
   [keep |-> 1, bad |-> {1}, active |-> 1, kills |-> 1, faults |-> 1, rots |-> 1]}

\* Jobs are interchangeable.
JobSymmetry == Permutations(Jobs)
=============================================================================
