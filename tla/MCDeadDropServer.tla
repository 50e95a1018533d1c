-------------------------- MODULE MCDeadDropServer --------------------------
(***************************************************************************)
(* DeadDropServer for TLC.  Connections and blob contents are              *)
(* interchangeable in the safety runs.                                     *)
(***************************************************************************)
EXTENDS DeadDropServer, TLC

Symmetry == Permutations(Clients) \cup Permutations(Blobs)

=============================================================================
