--------------------------- MODULE MCStorageVault ---------------------------
(* Two contacts, one of them also in the backup files, and two tasks. *)
EXTENDS StorageVault, TLC
SlotSymmetry == Permutations(Slots)

(* Beside a second task, and once a task has met another storage than its  *)
(* own, there is one save and nothing else goes wrong; such a life of the  *)
(* program is followed to its end.  One file dialog is open at a time.     *)
TwoTasks == \A i \in Slots : jobs[i] # Idle
FewSteps ==
  /\ Cardinality(dialogs) <= 1
  /\ TwoTasks \/ "overlap" \in spoiled => saves <= 1 /\ faults = 0
  /\ "overlap" \in spoiled => app # "off"
=============================================================================
