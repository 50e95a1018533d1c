-------------------------- MODULE MCOfflineSender --------------------------
(***************************************************************************)
(* OfflineSender for TLC.  Messages of one kind, deaddrops and task slots  *)
(* are interchangeable in runs that check no liveness.                     *)
(***************************************************************************)
EXTENDS OfflineSender, TLC

Symmetry ==
  Permutations(Messages \ TooLong) \cup Permutations(Drops) \cup Permutations(Tasks)

=============================================================================
