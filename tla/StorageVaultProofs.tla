------------------------- MODULE StorageVaultProofs -------------------------
(***************************************************************************)
(* That the storage loses no contact, wherever the program is stopped, and *)
(* leaves a sealed vault behind when nothing went wrong.                   *)
(***************************************************************************)
EXTENDS StorageVault, TLAPS

(* The directory h holds all that the user relies on and the backup files  *)
(* do not have.                                                            *)
Covers(h, s) == \A p \in Places : s[p] \in {Absent, Imported, h[p]}
InBase == Covers(base.holds, saved)
InVault == Covers(vault.holds, saved)

NoTasks == jobs = NoJobs /\ op = Idle /\ dialogs = {}

(* Which file operation may run under which gate. *)
BusyOK ==
  /\ app \in {"off", "leaving"} => busy = NotBusy
  /\ app = "locked" => busy.at \in {"no", "extracting"}
  /\ app = "unlocked" => busy.at # "extracting"
  /\ busy.at = "extracting" => phrase
  /\ app = "off" => NoTasks
  /\ busy.at = "no" => busy = NotBusy
  /\ busy.at \in {"resetting", "renaming"} => busy.from \in Names /\ busy.to \in Names

(* Who has the contacts: the vault alone while plaintext is written at the *)
(* start or removed at the end, the plaintext alone while the program      *)
(* works on it, one of them while it does not.                             *)
Holder ==
  /\ busy.at \in {"extracting", "removing"} => InVault
  /\ app = "unlocked" /\ busy.at # "removing" => InBase
  /\ app # "unlocked" => InBase \/ InVault

(* What the steps that change the holder rest on: the archive is of the    *)
(* plaintext as it is; an open gate has a passphrase; a task that wiped    *)
(* the vault is the last to have touched it, until the next shutdown; and  *)
(* tasks and questions that outlive a wipe, behind the gate that it shut,  *)
(* find no storage at all.                                                 *)
Settled ==
  /\ busy.at = "archived" => tmp = base /\ base.exists
  /\ app = "unlocked" => phrase
  /\ app \in {"locked", "unlocked"} /\ busy.at # "removing" =>
       \A i \in Slots : jobs[i].at = "wiped" => ~vault.exists
  /\ app = "locked" /\ ~NoTasks => busy = NotBusy /\ ~base.exists /\ ~vault.exists

Unspoiled == spoiled \cap {"overlap", "torn"} = {}
IInv == TypeOK /\ BusyOK /\ (Unspoiled => Holder /\ Settled)

-----------------------------------------------------------------------------
(* Functions from places, and stores *)

(* A version put at the same place in a directory and in the history: what *)
(* was covered stays covered.                                              *)
LEMMA CoversPut ==
  ASSUME NEW h \in [Places -> Versions], NEW s \in [Places -> Versions],
         NEW p \in Places, NEW v \in Versions, Covers(h, s)
  PROVE  Covers([h EXCEPT ![p] = v], [s EXCEPT ![p] = v])
PROOF BY DEF Covers

(* So it does when both move the same place. *)
LEMMA CoversMove ==
  ASSUME NEW h \in [Places -> Versions], NEW s \in [Places -> Versions],
         NEW n \in Places, NEW m \in Places, Covers(h, s)
  PROVE  Covers(Move(h, n, m), Move(s, n, m))
PROOF BY DEF Covers, Move

(* A move keeps the type. *)
LEMMA MoveType ==
  ASSUME NEW h \in [Places -> Versions], NEW n \in Places, NEW m \in Places
  PROVE  Move(h, n, m) \in [Places -> Versions]
PROOF BY StorageAssumption DEF Move, Versions, Absent, Imported

(* An empty directory covers only what every directory covers. *)
LEMMA CoversEmpty ==
  ASSUME NEW h, NEW s, Covers(Empty, s)
  PROVE  Covers(h, s)
PROOF BY DEF Covers, Empty

(* Nothing to rely on is covered by all. *)
LEMMA CoversNone ==
  ASSUME NEW h
  PROVE  Covers(h, Empty)
PROOF BY DEF Covers, Empty

(* The constants that stand for nothing are of their types. *)
LEMMA NothingType ==
  /\ Empty \in [Places -> Versions]
  /\ Nothing \in Store /\ Nothing.exists = FALSE /\ Nothing.holds = Empty
  /\ Absent \in Versions /\ Imported \in Versions
PROOF BY StorageAssumption DEF Empty, Nothing, Store, Versions, Absent, Imported

(* A store that is absent or is a store, as the type invariant says. *)
StoreOK(s) == s \in Store /\ (~s.exists => s = Nothing)

LEMMA StoreParts ==
  ASSUME NEW s, StoreOK(s)
  PROVE  /\ s.exists \in BOOLEAN /\ s.holds \in [Places -> Versions]
         /\ ~s.exists => s.holds = Empty
         /\ s = [exists |-> s.exists, holds |-> s.holds]
PROOF BY NothingType DEF StoreOK, Store

LEMMA PutStore ==
  ASSUME NEW s, StoreOK(s), NEW p \in Places, NEW v \in Versions
  PROVE  /\ StoreOK(Put(s, p, v))
         /\ Put(s, p, v).exists
         /\ Put(s, p, v).holds = [s.holds EXCEPT ![p] = v]
PROOF BY StoreParts DEF StoreOK, Store, Put

LEMMA LaidOutStore ==
  ASSUME NEW s, StoreOK(s)
  PROVE  StoreOK(LaidOut(s)) /\ LaidOut(s).exists /\ LaidOut(s).holds = s.holds
PROOF BY StoreParts DEF StoreOK, Store, LaidOut

LEMMA MoveStore ==
  ASSUME NEW s, StoreOK(s), NEW n \in Places, NEW m \in Places, s.holds[n] # Absent
  PROVE  LET t == [s EXCEPT !.holds = Move(s.holds, n, m)]
         IN  StoreOK(t) /\ t.exists /\ t.holds = Move(s.holds, n, m)
PROOF
<1>1. s.exists \in BOOLEAN /\ s.holds \in [Places -> Versions]
      /\ s = [exists |-> s.exists, holds |-> s.holds]
      /\ (~s.exists => s.holds = Empty)
  BY StoreParts
<1>2. s.exists
  BY <1>1 DEF Empty
<1>3. Move(s.holds, n, m) \in [Places -> Versions]
  BY <1>1, MoveType
<1> DEFINE h == Move(s.holds, n, m)
           t == [s EXCEPT !.holds = h]
<1>4. t = [exists |-> s.exists, holds |-> h]
  BY <1>1
<1>5. QED
  BY <1>2, <1>3, <1>4 DEF StoreOK, Store

-----------------------------------------------------------------------------
(* Types *)

Ops == [at : {"no", "extracting", "archived", "removing", "resetting", "renaming"},
        from : Places, to : Places]
Jobs == [at : {"idle", "wipe", "wipeVault", "wiped", "invalid", "checkAll", "clear",
               "clearVault", "check", "delete", "install", "installAll"}, todo : SUBSET Names]
Questions == [at : {"idle", "busy", "confirm", "confirmInvalid", "confirmContact"},
              todo : SUBSET Names]

(* The type invariant in two parts: the stores, and the rest. *)
Stores(b, v, t) == StoreOK(b) /\ StoreOK(v) /\ StoreOK(t)
Types ==
  /\ app \in {"off", "locked", "unlocked", "leaving"}
  /\ phrase \in BOOLEAN /\ closing \in BOOLEAN /\ dialogs \subseteq {"full", "contact"}
  /\ busy \in Ops /\ jobs \in [Slots -> Jobs] /\ op \in Questions
  /\ known \subseteq Names
  /\ saves \in 0..MaxSaves /\ faults \in 0..MaxFaults
  /\ saved \in [Places -> Versions] /\ spoiled \subseteq {"overlap", "torn", "crash", "failed"}

LEMMA TypeIsTypes == TypeOK <=> Types /\ Stores(base, vault, tmp)
PROOF BY DEF TypeOK, Types, Stores, StoreOK, Ops, Jobs, Questions

(* The operations and tasks that the steps begin are of their types. *)
LEMMA OpsType ==
  /\ \A from, to \in Places :
       \A at \in {"no", "extracting", "archived", "removing", "resetting", "renaming"} :
         Running(at, from, to) \in Ops
  /\ NotBusy \in Ops /\ Staging \in Places
  /\ \A at \in {"extracting", "archived", "removing"} : Running(at, Staging, Staging) \in Ops
  /\ \A b \in Ops : b.from \in Places /\ b.to \in Places
PROOF BY DEF Ops, Running, NotBusy, Places

LEMMA JobsType ==
  /\ \A todo \in SUBSET Names :
       \A at \in {"idle", "wipe", "wipeVault", "wiped", "invalid", "checkAll", "clear",
                  "clearVault", "check", "delete", "install", "installAll"} :
         Task(at, todo) \in Jobs
  /\ \A todo \in SUBSET Names :
       \A at \in {"idle", "busy", "confirm", "confirmInvalid", "confirmContact"} :
         Task(at, todo) \in Questions
  /\ \A at, todo : Task(at, todo).at = at /\ Task(at, todo).todo = todo
  /\ Idle.at = "idle" /\ Idle \in Jobs /\ Idle \in Questions /\ Busy \in Questions
  /\ NoJobs \in [Slots -> Jobs] /\ \A i \in Slots : NoJobs[i] = Idle
  /\ {} \in SUBSET Names /\ BackupNames \in SUBSET Names
  /\ \A j \in Jobs : j.todo \in SUBSET Names
  /\ \A q \in Questions : q.todo \in SUBSET Names
PROOF BY StorageAssumption DEF Jobs, Questions, Task, Idle, Busy, NoJobs

LEMMA HasTask ==
  ASSUME NEW i \in Slots, jobs[i].at # "idle"
  PROVE  ~NoTasks
PROOF BY JobsType DEF NoTasks

(* A step of a task changes its slot only. *)
LEMMA GoesStep ==
  ASSUME Types, NEW i \in Slots, NEW t \in Jobs, Goes(i, t)
  PROVE  /\ jobs' \in [Slots -> Jobs] /\ jobs'[i] = t
         /\ \A k \in Slots : k # i => jobs'[k] = jobs[k]
         /\ t.at # "wiped" =>
              \A k \in Slots : jobs'[k].at = "wiped" => jobs[k].at = "wiped"
PROOF BY DEF Types, Goes

LEMMA BeginsStep ==
  ASSUME Types, NEW i \in Slots, NEW t \in Jobs, Begins(i, t)
  PROVE  /\ jobs' \in [Slots -> Jobs] /\ jobs[i] = Idle /\ jobs'[i] = t
         /\ \A k \in Slots : k # i => jobs'[k] = jobs[k]
         /\ t.at # "wiped" =>
              \A k \in Slots : jobs'[k].at = "wiped" => jobs[k].at = "wiped"
PROOF BY DEF Types, Begins

LEMMA EndsStep ==
  ASSUME Types, NEW i \in Slots, Ends(i)
  PROVE  /\ jobs' \in [Slots -> Jobs] /\ op' \in Questions /\ jobs'[i] = Idle
         /\ \A k \in Slots : k # i => jobs'[k] = jobs[k]
         /\ \A k \in Slots : jobs'[k].at = "wiped" => jobs[k].at = "wiped"
PROOF BY JobsType DEF Types, Ends

LEMMA FaultStep ==
  ASSUME Types, Fault
  PROVE  faults' \in 0..MaxFaults
PROOF BY StorageAssumption DEF Types, Fault

(* A save makes the next version, in the directory and in the history. *)
LEMMA SaveStep ==
  ASSUME Types, StoreOK(base), NEW n \in Places, Saves(n)
  PROVE  /\ StoreOK(base') /\ base'.exists
         /\ saves + 1 \in Versions
         /\ base'.holds = [base.holds EXCEPT ![n] = saves + 1]
         /\ saved' = [saved EXCEPT ![n] = saves + 1]
         /\ saves' \in 0..MaxSaves /\ saved' \in [Places -> Versions]
         /\ spoiled' \subseteq {"overlap", "torn", "crash", "failed"}
PROOF
<1>1. saves + 1 \in Versions /\ saves' \in 0..MaxSaves
  BY StorageAssumption DEF Types, Saves, Versions, Imported
<1>2. StoreOK(base') /\ base'.exists /\ base'.holds = [base.holds EXCEPT ![n] = saves + 1]
  BY <1>1, PutStore DEF Saves
<1>3. saved' = [saved EXCEPT ![n] = saves + 1] /\ saved' \in [Places -> Versions]
  BY <1>1 DEF Types, Saves
<1>4. spoiled' \subseteq {"overlap", "torn", "crash", "failed"}
  BY DEF Types, Saves, SpoilIfLate, Spoil
<1>5. QED
  BY <1>1, <1>2, <1>3, <1>4

(* The end of a rename moves the contact, in both as well. *)
LEMMA MoveStep ==
  ASSUME Types, StoreOK(base), NEW n \in Places, MoveTo(n)
  PROVE  /\ StoreOK(base') /\ base'.exists
         /\ base'.holds = Move(base.holds, Staging, n)
         /\ saved' = Move(saved, Staging, n) /\ saved' \in [Places -> Versions]
PROOF
<1>1. Staging \in Places /\ base.holds[Staging] # Absent
  BY DEF Places, MoveTo, CanMove
<1>2. StoreOK(base') /\ base'.exists /\ base'.holds = Move(base.holds, Staging, n)
  BY <1>1, MoveStore DEF MoveTo
<1>3. saved' = Move(saved, Staging, n) /\ saved' \in [Places -> Versions]
  BY <1>1, MoveType DEF MoveTo, Types
<1>4. QED
  BY <1>2, <1>3

(* Every step keeps the types, and the order of gate and file operations. *)
LEMMA TypeStep ==
  ASSUME Types, Stores(base, vault, tmp), BusyOK, Next
  PROVE  Types' /\ Stores(base', vault', tmp') /\ BusyOK'
PROOF
<1>1. ASSUME Start
      PROVE  Types' /\ Stores(base', vault', tmp') /\ BusyOK'
  <2>1. Types'
    BY <1>1 DEF Start, Types, files, history, tasks
  <2>2. Stores(base', vault', tmp')
    BY <1>1 DEF Start, Stores, files
  <2>3. BusyOK'
    BY <1>1 DEF Start, BusyOK, Running, NotBusy, tasks, NoTasks
  <2>4. QED
    BY <2>1, <2>2, <2>3
<1>2. ASSUME UnlockInputChanged
      PROVE  Types' /\ Stores(base', vault', tmp') /\ BusyOK'
  <2>1. Types'
    BY <1>2 DEF UnlockInputChanged, Types, files, history, tasks
  <2>2. Stores(base', vault', tmp')
    BY <1>2 DEF UnlockInputChanged, Stores, files
  <2>3. BusyOK'
    BY <1>2 DEF UnlockInputChanged, BusyOK, Ready, Running, NotBusy, NoTasks, tasks
  <2>4. QED
    BY <2>1, <2>2, <2>3
<1>3. ASSUME UnlockPressed
      PROVE  Types' /\ Stores(base', vault', tmp') /\ BusyOK'
  <2>1. Types'
    BY <1>3, OpsType DEF UnlockPressed, Types, history, Ready, tasks
  <2>2. Stores(base', vault', tmp')
    BY <1>3, NothingType DEF UnlockPressed, Stores, Opens, StoreOK, Store
  <2>3. BusyOK'
    BY <1>3 DEF UnlockPressed, BusyOK, Ready, Running, NotBusy, tasks, NoTasks
  <2>4. QED
    BY <2>1, <2>2, <2>3
<1>4. ASSUME Unlocked
      PROVE  Types' /\ Stores(base', vault', tmp') /\ BusyOK'
  <2>1. Types'
    BY <1>4, OpsType DEF Unlocked, Types, files, history, Contacts, tasks
  <2>2. Stores(base', vault', tmp')
    BY <1>4 DEF Unlocked, Stores, files
  <2>3. BusyOK'
    BY <1>4 DEF Unlocked, BusyOK, Running, NotBusy, tasks, NoTasks
  <2>4. QED
    BY <2>1, <2>2, <2>3
<1>5. ASSUME UnlockFails
      PROVE  Types' /\ Stores(base', vault', tmp') /\ BusyOK'
  <2>1. Types'
    BY <1>5, OpsType, FaultStep DEF UnlockFails, Types, files, Spoil, tasks
  <2>2. Stores(base', vault', tmp')
    BY <1>5 DEF UnlockFails, Stores, files
  <2>3. BusyOK'
    BY <1>5 DEF UnlockFails, BusyOK, Fault, Running, NotBusy, tasks, NoTasks
  <2>4. QED
    BY <2>1, <2>2, <2>3
<1>6. ASSUME CloseRequested
      PROVE  Types' /\ Stores(base', vault', tmp') /\ BusyOK'
  <2>1. Types'
    BY <1>6 DEF CloseRequested, Types, files, history, tasks
  <2>2. Stores(base', vault', tmp')
    BY <1>6 DEF CloseRequested, Stores, files
  <2>3. BusyOK'
    BY <1>6 DEF CloseRequested, BusyOK, Ready, Running, NotBusy, tasks, NoTasks
  <2>4. QED
    BY <2>1, <2>2, <2>3
<1>7. ASSUME ExitAfterNotify
      PROVE  Types' /\ Stores(base', vault', tmp') /\ BusyOK'
  <2>1. Types'
    BY <1>7, OpsType DEF ExitAfterNotify, Types, history, Ready, tasks
  <2>2. Stores(base', vault', tmp')
    BY <1>7 DEF ExitAfterNotify, Stores
  <2>3. BusyOK'
    BY <1>7 DEF ExitAfterNotify, BusyOK, Ready, Running, NotBusy, tasks, NoTasks
  <2>4. QED
    BY <2>1, <2>2, <2>3
<1>8. ASSUME ReplaceVault
      PROVE  Types' /\ Stores(base', vault', tmp') /\ BusyOK'
  <2>1. Types'
    BY <1>8, OpsType DEF ReplaceVault, Types, history, Places, tasks
  <2>2. Stores(base', vault', tmp')
    BY <1>8, NothingType DEF ReplaceVault, Stores, StoreOK
  <2>3. BusyOK'
    BY <1>8 DEF ReplaceVault, BusyOK, Running, NotBusy, tasks, NoTasks
  <2>4. QED
    BY <2>1, <2>2, <2>3
<1>9. ASSUME Encrypted
      PROVE  Types' /\ Stores(base', vault', tmp') /\ BusyOK'
  <2>1. Types'
    BY <1>9, OpsType DEF Encrypted, Types, history, tasks
  <2>2. Stores(base', vault', tmp')
    BY <1>9, NothingType DEF Encrypted, Stores, StoreOK
  <2>3. BusyOK'
    BY <1>9 DEF Encrypted, BusyOK, Running, NotBusy, tasks, NoTasks
  <2>4. QED
    BY <2>1, <2>2, <2>3
<1>10. ASSUME EncryptFails
      PROVE  Types' /\ Stores(base', vault', tmp') /\ BusyOK'
  <2>1. Types'
    BY <1>10, OpsType, FaultStep DEF EncryptFails, Types, files, Spoil, tasks
  <2>2. Stores(base', vault', tmp')
    BY <1>10 DEF EncryptFails, Stores, files
  <2>3. BusyOK'
    BY <1>10 DEF EncryptFails, BusyOK, Fault, Running, NotBusy, tasks, NoTasks
  <2>4. QED
    BY <2>1, <2>2, <2>3
<1>11. ASSUME Exit
      PROVE  Types' /\ Stores(base', vault', tmp') /\ BusyOK'
  <2>1. Types'
    BY <1>11, OpsType, JobsType DEF Exit, Types, files, Stopped, Spoil, tasks
  <2>2. Stores(base', vault', tmp')
    BY <1>11 DEF Exit, Stores, files
  <2>3. BusyOK'
    BY <1>11 DEF Exit, BusyOK, Running, NotBusy, Stopped, tasks, NoTasks
  <2>4. QED
    BY <2>1, <2>2, <2>3
<1>12. ASSUME Crash
      PROVE  Types' /\ Stores(base', vault', tmp') /\ BusyOK'
  <2>1. Types'
    BY <1>12, OpsType, JobsType, FaultStep DEF Crash, Types, files, Stopped, Spoil, tasks
  <2>2. Stores(base', vault', tmp')
    BY <1>12 DEF Crash, Stores, files
  <2>3. BusyOK'
    BY <1>12 DEF Crash, BusyOK, Fault, Running, NotBusy, Stopped, tasks, NoTasks
  <2>4. QED
    BY <2>1, <2>2, <2>3
<1>13. ASSUME NEW p \in Places, Extract(p)
      PROVE  Types' /\ Stores(base', vault', tmp') /\ BusyOK'
  <2>1. Types'
    BY <1>13 DEF Extract, Types, history, tasks
  <2>2. Stores(base', vault', tmp')
    BY <1>13, StoreParts, PutStore DEF Extract, Stores, StoreOK, Store
  <2>3. BusyOK'
    BY <1>13 DEF Extract, BusyOK, Running, NotBusy, tasks, NoTasks
  <2>4. QED
    BY <2>1, <2>2, <2>3
<1>14. ASSUME NEW p \in Places, Remove(p)
      PROVE  Types' /\ Stores(base', vault', tmp') /\ BusyOK'
  <2>1. Types'
    BY <1>14 DEF Remove, Types, history, tasks
  <2>2. Stores(base', vault', tmp')
    BY <1>14, NothingType, PutStore DEF Remove, Stores
  <2>3. BusyOK'
    BY <1>14 DEF Remove, BusyOK, Running, NotBusy, tasks, NoTasks
  <2>4. QED
    BY <2>1, <2>2, <2>3
<1>15. ASSUME NEW n \in Names, CreateContact(n)
      PROVE  Types' /\ Stores(base', vault', tmp') /\ BusyOK'
  <2>1. Types'
    BY <1>15, SaveStep DEF CreateContact, Types, Stores, Ready, Places, tasks
  <2>2. Stores(base', vault', tmp')
    BY <1>15, SaveStep DEF CreateContact, Stores, Places
  <2>3. BusyOK'
    BY <1>15 DEF CreateContact, BusyOK, Ready, Running, NotBusy, tasks, NoTasks
  <2>4. QED
    BY <2>1, <2>2, <2>3
<1>16. ASSUME NEW n \in Names, SaveContact(n)
      PROVE  Types' /\ Stores(base', vault', tmp') /\ BusyOK'
  <2>1. Types'
    BY <1>16, SaveStep DEF SaveContact, Types, Stores, Places, tasks
  <2>2. Stores(base', vault', tmp')
    BY <1>16, SaveStep DEF SaveContact, Stores, Places
  <2>3. BusyOK'
    BY <1>16 DEF SaveContact, BusyOK, Running, NotBusy, tasks, NoTasks
  <2>4. QED
    BY <2>1, <2>2, <2>3
<1>17. ASSUME NEW n \in Names, DeleteContact(n)
      PROVE  Types' /\ Stores(base', vault', tmp') /\ BusyOK'
  <2>1. Types'
    BY <1>17, NothingType DEF DeleteContact, Types, Ready, Places, tasks
  <2>2. Stores(base', vault', tmp')
    BY <1>17, PutStore, NothingType DEF DeleteContact, Stores, Places
  <2>3. BusyOK'
    BY <1>17 DEF DeleteContact, BusyOK, Ready, Running, NotBusy, tasks, NoTasks
  <2>4. QED
    BY <2>1, <2>2, <2>3
<1>18. ASSUME NEW n \in Names, ResetContact(n)
      PROVE  Types' /\ Stores(base', vault', tmp') /\ BusyOK'
  <2>1. Types'
    BY <1>18, OpsType, NothingType DEF ResetContact, Types, Places, tasks
  <2>2. Stores(base', vault', tmp')
    BY <1>18, PutStore, NothingType DEF ResetContact, Stores, Places
  <2>3. BusyOK'
    BY <1>18 DEF ResetContact, BusyOK, Ready, Running, NotBusy, tasks, NoTasks
  <2>4. QED
    BY <2>1, <2>2, <2>3
<1>19. ASSUME NEW n \in Names, NEW m \in Names, RenameContact(n, m)
      PROVE  Types' /\ Stores(base', vault', tmp') /\ BusyOK'
  <2>1. Types'
    BY <1>19, OpsType, MoveType DEF RenameContact, Types, Places, tasks
  <2>2. Stores(base', vault', tmp')
    BY <1>19, MoveStore DEF RenameContact, Stores, Places
  <2>3. BusyOK'
    BY <1>19 DEF RenameContact, BusyOK, Ready, Running, NotBusy, tasks, NoTasks
  <2>4. QED
    BY <2>1, <2>2, <2>3
<1>20. ASSUME ResetEnds
      PROVE  Types' /\ Stores(base', vault', tmp') /\ BusyOK'
  <2>1. Types'
    BY <1>20, OpsType, SaveStep, FaultStep DEF ResetEnds, Types, Stores, Spoil, tasks
  <2>2. Stores(base', vault', tmp')
    BY <1>20, OpsType, SaveStep DEF ResetEnds, Types, Stores
  <2>3. BusyOK'
    BY <1>20 DEF ResetEnds, BusyOK, Fault, Running, NotBusy, tasks, NoTasks
  <2>4. QED
    BY <2>1, <2>2, <2>3
<1>21. ASSUME RenameEnds
      PROVE  Types' /\ Stores(base', vault', tmp') /\ BusyOK'
  <2>0. busy.to \in Names /\ app = "unlocked"
    BY <1>21 DEF RenameEnds, Types, BusyOK, NotBusy, Running
  <2>1. Types'
    BY <1>21, <2>0, OpsType, MoveStep DEF RenameEnds, Types, Stores, tasks
  <2>2. Stores(base', vault', tmp')
    BY <1>21, OpsType, MoveStep DEF RenameEnds, Types, Stores
  <2>3. BusyOK'
    BY <1>21 DEF RenameEnds, BusyOK, Running, NotBusy, tasks, NoTasks
  <2>4. QED
    BY <2>1, <2>2, <2>3
<1>22. ASSUME RenameFails
      PROVE  Types' /\ Stores(base', vault', tmp') /\ BusyOK'
  <2>1. Types'
    BY <1>22, OpsType, MoveStep, FaultStep DEF RenameFails, Types, Stores, Spoil, tasks
  <2>2. Stores(base', vault', tmp')
    BY <1>22, OpsType, MoveStep DEF RenameFails, Types, Stores
  <2>3. BusyOK'
    BY <1>22 DEF RenameFails, BusyOK, Fault, Running, NotBusy, tasks, NoTasks
  <2>4. QED
    BY <2>1, <2>2, <2>3
<1>23. ASSUME ReplaceCancelled
      PROVE  Types' /\ Stores(base', vault', tmp') /\ BusyOK'
  <2>1. Types'
    BY <1>23, JobsType DEF ReplaceCancelled, Types, files, history
  <2>2. Stores(base', vault', tmp')
    BY <1>23 DEF ReplaceCancelled, Stores, files
  <2>3. BusyOK'
    BY <1>23 DEF ReplaceCancelled, BusyOK, Ready, Running, NotBusy
  <2>4. QED
    BY <2>1, <2>2, <2>3
<1>24. ASSUME NEW kind \in {"full", "contact"}, ImportPressed(kind)
      PROVE  Types' /\ Stores(base', vault', tmp') /\ BusyOK'
  <2>1. Types'
    BY <1>24 DEF ImportPressed, Types, files, history
  <2>2. Stores(base', vault', tmp')
    BY <1>24 DEF ImportPressed, Stores, files
  <2>3. BusyOK'
    BY <1>24 DEF ImportPressed, BusyOK, Ready, Running, NotBusy
  <2>4. QED
    BY <2>1, <2>2, <2>3
<1>25. ASSUME NEW i \in Slots, WipeConfirmed(i)
      PROVE  Types' /\ Stores(base', vault', tmp') /\ BusyOK'
  <2>0. jobs' \in [Slots -> Jobs] /\ op' \in Questions
    BY <1>25, JobsType, BeginsStep DEF WipeConfirmed, Types
  <2>1. Types'
    BY <1>25, <2>0 DEF WipeConfirmed, Types, files, history
  <2>2. Stores(base', vault', tmp')
    BY <1>25 DEF WipeConfirmed, Stores, files
  <2>3. BusyOK'
    BY <1>25 DEF WipeConfirmed, BusyOK, Ready, Running, NotBusy
  <2>4. QED
    BY <2>1, <2>2, <2>3
<1>26. ASSUME NEW i \in Slots, WipeBase(i)
      PROVE  Types' /\ Stores(base', vault', tmp') /\ BusyOK'
  <2>0. jobs' \in [Slots -> Jobs] /\ op' \in Questions
    BY <1>26, JobsType, GoesStep DEF WipeBase, Types
  <2>1. Types'
    BY <1>26, <2>0, NothingType DEF WipeBase, Types, SpoilIfLate, Spoil
  <2>2. Stores(base', vault', tmp')
    BY <1>26, NothingType DEF WipeBase, Stores, StoreOK
  <2>3. BusyOK'
    BY <1>26 DEF WipeBase, BusyOK, Alive, Running, NotBusy
  <2>4. QED
    BY <2>1, <2>2, <2>3
<1>27. ASSUME NEW i \in Slots, WipeVault(i)
      PROVE  Types' /\ Stores(base', vault', tmp') /\ BusyOK'
  <2>0. jobs' \in [Slots -> Jobs] /\ op' \in Questions
    BY <1>27, JobsType, GoesStep DEF WipeVault, Types
  <2>1. Types'
    BY <1>27, <2>0 DEF WipeVault, Types, Spoil
  <2>2. Stores(base', vault', tmp')
    BY <1>27, NothingType DEF WipeVault, Stores, StoreOK
  <2>3. BusyOK'
    BY <1>27 DEF WipeVault, BusyOK, Alive, Running, NotBusy
  <2>4. QED
    BY <2>1, <2>2, <2>3
<1>28. ASSUME NEW i \in Slots, WipeAllFinished(i)
      PROVE  Types' /\ Stores(base', vault', tmp') /\ BusyOK'
  <2>0. jobs' \in [Slots -> Jobs] /\ op' \in Questions
    BY <1>28, JobsType, EndsStep DEF WipeAllFinished, Types
  <2>1. Types'
    BY <1>28, <2>0 DEF WipeAllFinished, Types, files, Spoil
  <2>2. Stores(base', vault', tmp')
    BY <1>28 DEF WipeAllFinished, Stores, files
  <2>3. BusyOK'
    BY <1>28 DEF WipeAllFinished, BusyOK, Ready, Running, NotBusy
  <2>4. QED
    BY <2>1, <2>2, <2>3
<1>29. ASSUME NEW i \in Slots, BackupImportPathChosen(i)
      PROVE  Types' /\ Stores(base', vault', tmp') /\ BusyOK'
  <2>0. jobs' \in [Slots -> Jobs] /\ op' \in Questions
    BY <1>29, JobsType, BeginsStep DEF BackupImportPathChosen, Types
  <2>1. Types'
    BY <1>29, <2>0 DEF BackupImportPathChosen, Types, SpoilIfLate, Spoil
  <2>2. Stores(base', vault', tmp')
    BY <1>29, LaidOutStore DEF BackupImportPathChosen, Stores
  <2>3. BusyOK'
    BY <1>29 DEF BackupImportPathChosen, BusyOK, Ready, Running, NotBusy
  <2>4. QED
    BY <2>1, <2>2, <2>3
<1>30. ASSUME NEW i \in Slots, ReplaceConfirmed(i)
      PROVE  Types' /\ Stores(base', vault', tmp') /\ BusyOK'
  <2>0. jobs' \in [Slots -> Jobs] /\ op' \in Questions
    BY <1>30, JobsType, BeginsStep DEF ReplaceConfirmed, Types
  <2>1. Types'
    BY <1>30, <2>0 DEF ReplaceConfirmed, Types, files, history
  <2>2. Stores(base', vault', tmp')
    BY <1>30 DEF ReplaceConfirmed, Stores, files
  <2>3. BusyOK'
    BY <1>30 DEF ReplaceConfirmed, BusyOK, Ready, Running, NotBusy
  <2>4. QED
    BY <2>1, <2>2, <2>3
<1>31. ASSUME NEW i \in Slots, ClearContacts(i)
      PROVE  Types' /\ Stores(base', vault', tmp') /\ BusyOK'
  <2>0. jobs' \in [Slots -> Jobs] /\ op' \in Questions
    BY <1>31, JobsType, GoesStep DEF ClearContacts, Types
  <2>1. Types'
    BY <1>31, <2>0, NothingType DEF ClearContacts, Types, SpoilIfLate, Spoil, Places
  <2>2. Stores(base', vault', tmp')
    BY <1>31, StoreParts, NothingType DEF ClearContacts, Stores, StoreOK, Store, Places
  <2>3. BusyOK'
    BY <1>31 DEF ClearContacts, BusyOK, Alive, Running, NotBusy
  <2>4. QED
    BY <2>1, <2>2, <2>3
<1>32. ASSUME NEW i \in Slots, ClearVault(i)
      PROVE  Types' /\ Stores(base', vault', tmp') /\ BusyOK'
  <2>0. jobs' \in [Slots -> Jobs] /\ op' \in Questions
    BY <1>32, JobsType, GoesStep DEF ClearVault, Types
  <2>1. Types'
    BY <1>32, <2>0 DEF ClearVault, Types, SpoilIfLate, Spoil
  <2>2. Stores(base', vault', tmp')
    BY <1>32, NothingType, LaidOutStore DEF ClearVault, Stores, StoreOK
  <2>3. BusyOK'
    BY <1>32 DEF ClearVault, BusyOK, Alive, Running, NotBusy
  <2>4. QED
    BY <2>1, <2>2, <2>3
<1>33. ASSUME NEW i \in Slots, CheckTarget(i)
      PROVE  Types' /\ Stores(base', vault', tmp') /\ BusyOK'
  <2>0. jobs' \in [Slots -> Jobs] /\ op' \in Questions
    BY <1>33, JobsType, GoesStep DEF CheckTarget, Types
  <2>1. Types'
    BY <1>33, <2>0 DEF CheckTarget, Types, SpoilIfLate, Spoil
  <2>2. Stores(base', vault', tmp')
    BY <1>33, LaidOutStore DEF CheckTarget, Stores
  <2>3. BusyOK'
    BY <1>33 DEF CheckTarget, BusyOK, Alive, Running, NotBusy
  <2>4. QED
    BY <2>1, <2>2, <2>3
<1>34. ASSUME NEW i \in Slots, CheckContact(i)
      PROVE  Types' /\ Stores(base', vault', tmp') /\ BusyOK'
  <2>0. jobs' \in [Slots -> Jobs] /\ op' \in Questions
    BY <1>34, JobsType, GoesStep DEF CheckContact, Types
  <2>1. Types'
    BY <1>34, <2>0 DEF CheckContact, Types, files, history
  <2>2. Stores(base', vault', tmp')
    BY <1>34 DEF CheckContact, Stores, files
  <2>3. BusyOK'
    BY <1>34 DEF CheckContact, BusyOK, Alive, Running, NotBusy
  <2>4. QED
    BY <2>1, <2>2, <2>3
<1>35. ASSUME NEW i \in Slots, ProfileReplaceConfirmed(i)
      PROVE  Types' /\ Stores(base', vault', tmp') /\ BusyOK'
  <2>0. jobs' \in [Slots -> Jobs] /\ op' \in Questions
    BY <1>35, JobsType, BeginsStep DEF ProfileReplaceConfirmed, Types
  <2>1. Types'
    BY <1>35, <2>0 DEF ProfileReplaceConfirmed, Types, files, history
  <2>2. Stores(base', vault', tmp')
    BY <1>35 DEF ProfileReplaceConfirmed, Stores, files
  <2>3. BusyOK'
    BY <1>35 DEF ProfileReplaceConfirmed, BusyOK, Ready, Running, NotBusy
  <2>4. QED
    BY <2>1, <2>2, <2>3
<1>36. ASSUME NEW i \in Slots, ImportFinished(i)
      PROVE  Types' /\ Stores(base', vault', tmp') /\ BusyOK'
  <2>0. jobs' \in [Slots -> Jobs] /\ op' \in Questions
    BY <1>36, JobsType, EndsStep DEF ImportFinished, Types
  <2>1. Types'
    BY <1>36, <2>0 DEF ImportFinished, Types, SpoilIfLate, Spoil, Contacts
  <2>2. Stores(base', vault', tmp')
    BY <1>36, LaidOutStore DEF ImportFinished, Stores
  <2>3. BusyOK'
    BY <1>36 DEF ImportFinished, BusyOK, Ready, Running, NotBusy
  <2>4. QED
    BY <2>1, <2>2, <2>3
<1>37. ASSUME NEW i \in Slots, ImportLoadFails(i)
      PROVE  Types' /\ Stores(base', vault', tmp') /\ BusyOK'
  <2>0. jobs' \in [Slots -> Jobs] /\ op' \in Questions
    BY <1>37, JobsType, EndsStep DEF ImportLoadFails, Types
  <2>1. Types'
    BY <1>37, <2>0, FaultStep DEF ImportLoadFails, Types, files, Spoil
  <2>2. Stores(base', vault', tmp')
    BY <1>37 DEF ImportLoadFails, Stores, files
  <2>3. BusyOK'
    BY <1>37 DEF ImportLoadFails, BusyOK, Ready, Running, NotBusy
  <2>4. QED
    BY <2>1, <2>2, <2>3
<1>38. ASSUME NEW i \in Slots, JobFails(i)
      PROVE  Types' /\ Stores(base', vault', tmp') /\ BusyOK'
  <2>0. jobs' \in [Slots -> Jobs] /\ op' \in Questions
    BY <1>38, JobsType, EndsStep DEF JobFails, Types
  <2>1. Types'
    BY <1>38, <2>0, FaultStep DEF JobFails, Types, files, Spoil
  <2>2. Stores(base', vault', tmp')
    BY <1>38 DEF JobFails, Stores, files
  <2>3. BusyOK'
    BY <1>38 DEF JobFails, BusyOK, Ready, Running, NotBusy
  <2>4. QED
    BY <2>1, <2>2, <2>3
<1>39. ASSUME NEW i \in Slots, NEW n \in Names, ProfileBackupImportScanned(i, n)
      PROVE  Types' /\ Stores(base', vault', tmp') /\ BusyOK'
  <2>0. jobs' \in [Slots -> Jobs] /\ op' \in Questions
    BY <1>39, JobsType, BeginsStep DEF ProfileBackupImportScanned, Types
  <2>1. Types'
    BY <1>39, <2>0 DEF ProfileBackupImportScanned, Types, files, history
  <2>2. Stores(base', vault', tmp')
    BY <1>39 DEF ProfileBackupImportScanned, Stores, files
  <2>3. BusyOK'
    BY <1>39 DEF ProfileBackupImportScanned, BusyOK, Ready, Running, NotBusy
  <2>4. QED
    BY <2>1, <2>2, <2>3
<1>40. ASSUME NEW i \in Slots, NEW n \in Names, DeleteReplaced(i, n)
      PROVE  Types' /\ Stores(base', vault', tmp') /\ BusyOK'
  <2>0. jobs' \in [Slots -> Jobs] /\ op' \in Questions
    BY <1>40, JobsType, GoesStep DEF DeleteReplaced, Types
  <2>1. Types'
    BY <1>40, <2>0, NothingType DEF DeleteReplaced, Types, SpoilIfLate, Spoil, Places
  <2>2. Stores(base', vault', tmp')
    BY <1>40, PutStore, NothingType DEF DeleteReplaced, Stores, Places
  <2>3. BusyOK'
    BY <1>40 DEF DeleteReplaced, BusyOK, Alive, Running, NotBusy
  <2>4. QED
    BY <2>1, <2>2, <2>3
<1>41. ASSUME NEW i \in Slots, NEW n \in Names, InstallProfile(i, n)
      PROVE  Types' /\ Stores(base', vault', tmp') /\ BusyOK'
  <2>0. jobs' \in [Slots -> Jobs] /\ op' \in Questions
    BY <1>41, JobsType, GoesStep DEF InstallProfile, Types
  <2>1. Types'
    BY <1>41, <2>0, NothingType DEF InstallProfile, Types, SpoilIfLate, Spoil, Places
  <2>2. Stores(base', vault', tmp')
    BY <1>41, PutStore, NothingType DEF InstallProfile, Stores, Places
  <2>3. BusyOK'
    BY <1>41 DEF InstallProfile, BusyOK, Alive, Running, NotBusy
  <2>4. QED
    BY <2>1, <2>2, <2>3
<1>42. QED
  BY <1>1, <1>2, <1>3, <1>4, <1>5, <1>6, <1>7, <1>8, <1>9, <1>10, <1>11, <1>12, <1>13,
     <1>14, <1>15, <1>16, <1>17, <1>18, <1>19, <1>20, <1>21, <1>22, <1>23, <1>24,
     <1>25, <1>26, <1>27, <1>28, <1>29, <1>30, <1>31, <1>32, <1>33, <1>34, <1>35,
     <1>36, <1>37, <1>38, <1>39, <1>40, <1>41
     DEF Next, Gate, ContactSteps, TaskSteps

-----------------------------------------------------------------------------
(* The holder *)

(* What went wrong stays on record. *)
LEMMA SpoilKeeps ==
  /\ UNCHANGED spoiled /\ Unspoiled' => Unspoiled
  /\ \A why : Spoil(why) /\ Unspoiled' => Unspoiled /\ why \notin {"overlap", "torn"}
  /\ SpoilIfLate /\ Unspoiled' => Unspoiled /\ ~Late
PROOF BY DEF Unspoiled, Spoil, SpoilIfLate

(* What the contents of the directories decide. *)
LEMMA Contents ==
  /\ InBase' <=> Covers(base'.holds, saved')
  /\ InVault' <=> Covers(vault'.holds, saved')
  /\ UNCHANGED <<base, saved>> => (InBase' <=> InBase)
  /\ UNCHANGED <<vault, saved>> => (InVault' <=> InVault)
PROOF BY DEF InBase, InVault, Covers

(* The two changes of a directory that the history follows. *)
LEMMA KeepsPut ==
  ASSUME Types, Stores(base, vault, tmp), NEW p \in Places, NEW v \in Versions,
         base'.holds = [base.holds EXCEPT ![p] = v], saved' = [saved EXCEPT ![p] = v]
  PROVE  InBase => InBase'
PROOF
<1>1. base.holds \in [Places -> Versions] /\ saved \in [Places -> Versions]
  BY StoreParts DEF Types, Stores
<1>2. Covers(base.holds, saved) => Covers(base'.holds, saved')
  BY <1>1 DEF Covers
<1>3. QED
  BY <1>2, Contents DEF InBase

LEMMA KeepsMove ==
  ASSUME Types, Stores(base, vault, tmp), NEW n \in Places, NEW m \in Places,
         base'.holds = Move(base.holds, n, m), saved' = Move(saved, n, m)
  PROVE  InBase => InBase'
PROOF
<1>1. base.holds \in [Places -> Versions] /\ saved \in [Places -> Versions]
  BY StoreParts DEF Types, Stores
<1>2. Covers(base.holds, saved) => Covers(base'.holds, saved')
  BY <1>1, CoversMove
<1>3. QED
  BY <1>2, Contents DEF InBase

(* While nothing was spoiled, a task works behind an open gate, on a       *)
(* storage that is there, or its step spoils it.                           *)
LEMMA TaskMeetsOpen ==
  ASSUME Types, BusyOK, Settled, Alive, NEW i \in Slots, jobs[i].at # "idle", ~Late
  PROVE  app = "unlocked"
PROOF
<1>1. ~NoTasks
  BY HasTask
<1>2. QED
  BY <1>1 DEF Settled, Alive, Late, Types

(* Every step that does not spoil keeps a holder. *)
LEMMA HolderStep ==
  ASSUME Types, Stores(base, vault, tmp), BusyOK, Unspoiled => Holder /\ Settled,
         Next, Unspoiled'
  PROVE  Holder' /\ Settled'
PROOF
<1> USE SpoilKeeps, Contents
<1>1. ASSUME Start
      PROVE  Holder' /\ Settled'
  <2>1. Holder /\ Settled
    BY <1>1 DEF Start, history, Saves
  <2>2. Holder'
    BY <1>1, <2>1 DEF Start, Holder, Settled, files, history, BusyOK, Running, NotBusy
  <2>3. Settled'
    BY <1>1, <2>1, HasTask
       DEF Types, Start, Settled, files, history, BusyOK, Running, NotBusy, tasks, NoTasks
  <2>4. QED
    BY <2>2, <2>3
<1>2. ASSUME UnlockInputChanged
      PROVE  Holder' /\ Settled'
  <2>1. Holder /\ Settled
    BY <1>2 DEF UnlockInputChanged, history
  <2>2. Holder'
    BY <1>2, <2>1 DEF UnlockInputChanged, Holder, files, history
  <2>3. UNCHANGED jobs
    BY <1>2 DEF UnlockInputChanged, tasks
  <2>4. NoTasks' <=> NoTasks
    BY <1>2 DEF UnlockInputChanged, NoTasks, tasks
  <2>5. Settled'
    BY <1>2, <2>1, <2>3, <2>4 DEF UnlockInputChanged, Settled, Ready, files
  <2>6. QED
    BY <2>2, <2>5
<1>3. ASSUME UnlockPressed
      PROVE  Holder' /\ Settled'
  <2>1. Holder /\ Settled
    BY <1>3 DEF UnlockPressed, history, Saves
  <2>2. InBase \/ InVault => InVault' /\ (~vault.exists => InBase')
    BY <1>3, <2>1, StoreParts, CoversEmpty
       DEF UnlockPressed, history, Opens, Stores, InBase, InVault
  <2>3. Holder'
    BY <1>3, <2>1, <2>2
       DEF UnlockPressed, Holder, Settled, history, BusyOK, Ready, Running, NotBusy
  <2>4. Settled'
    BY <1>3, <2>1, <2>2
       DEF UnlockPressed, Settled, history, BusyOK, Ready, Running, NotBusy, tasks, NoTasks
  <2>5. QED
    BY <2>3, <2>4
<1>4. ASSUME Unlocked
      PROVE  Holder' /\ Settled'
  <2>1. Holder /\ Settled
    BY <1>4 DEF Unlocked, history, Saves
  <2>2. Holder'
    BY <1>4, <2>1 DEF Unlocked, Holder, Settled, files, history, BusyOK, Running, NotBusy
  <2>3. Settled'
    BY <1>4, <2>1, HasTask
       DEF Types, Unlocked, Settled, files, history, BusyOK, Running, NotBusy, tasks,
           NoTasks
  <2>4. QED
    BY <2>2, <2>3
<1>5. ASSUME UnlockFails
      PROVE  Holder' /\ Settled'
  <2>1. Holder /\ Settled
    BY <1>5 DEF UnlockFails, Saves
  <2>2. Holder'
    BY <1>5, <2>1 DEF UnlockFails, Holder, Settled, files, BusyOK, Running, NotBusy
  <2>3. Settled'
    BY <1>5, <2>1 DEF UnlockFails, Settled, files, BusyOK, Running, NotBusy, tasks, NoTasks
  <2>4. QED
    BY <2>2, <2>3
<1>6. ASSUME CloseRequested
      PROVE  Holder' /\ Settled'
  <2>1. Holder /\ Settled
    BY <1>6 DEF CloseRequested, history, Saves
  <2>2. Holder'
    BY <1>6, <2>1
       DEF CloseRequested, Holder, Settled, files, history, BusyOK, Ready, Running, NotBusy
  <2>3. Settled'
    BY <1>6, <2>1
       DEF CloseRequested, Settled, files, history, BusyOK, Ready, Running, NotBusy,
           tasks, NoTasks
  <2>4. QED
    BY <2>2, <2>3
<1>7. ASSUME ExitAfterNotify
      PROVE  Holder' /\ Settled'
  <2>1. Holder /\ Settled
    BY <1>7 DEF ExitAfterNotify, history, Saves
  <2>2. Holder'
    BY <1>7, <2>1
       DEF ExitAfterNotify, Holder, Settled, history, BusyOK, Ready, Running, NotBusy
  <2>3. Settled'
    BY <1>7, <2>1
       DEF ExitAfterNotify, Settled, history, BusyOK, Ready, Running, NotBusy, tasks,
           NoTasks
  <2>4. QED
    BY <2>2, <2>3
<1>8. ASSUME ReplaceVault
      PROVE  Holder' /\ Settled'
  <2>1. Holder /\ Settled
    BY <1>8 DEF ReplaceVault, history, Saves
  <2>2. InVault'
    BY <1>8, <2>1
       DEF ReplaceVault, history, BusyOK, NotBusy, Running, Types, Holder, Settled, InBase
  <2>3. Holder'
    BY <1>8, <2>1, <2>2 DEF ReplaceVault, Holder, Settled, history, BusyOK, Running, NotBusy
  <2>4. Settled'
    BY <1>8, <2>1, <2>2
       DEF ReplaceVault, Settled, history, BusyOK, Running, NotBusy, tasks, NoTasks
  <2>5. QED
    BY <2>3, <2>4
<1>9. ASSUME Encrypted
      PROVE  Holder' /\ Settled'
  <2>1. Holder /\ Settled
    BY <1>9 DEF Encrypted, history, Saves
  <2>2. base'.exists = FALSE
    BY <1>9, NothingType DEF Encrypted, history
  <2>3. Holder'
    BY <1>9, <2>1, <2>2 DEF Encrypted, Holder, Settled, history, BusyOK, Running, NotBusy
  <2>4. Settled'
    BY <1>9, <2>1, <2>2
       DEF Encrypted, Settled, history, BusyOK, Running, NotBusy, tasks, NoTasks
  <2>5. QED
    BY <2>3, <2>4
<1>10. ASSUME EncryptFails
      PROVE  Holder' /\ Settled'
  <2>1. Holder /\ Settled
    BY <1>10 DEF EncryptFails, Saves
  <2>2. Holder'
    BY <1>10, <2>1 DEF EncryptFails, Holder, Settled, files, BusyOK, Running, NotBusy
  <2>3. Settled'
    BY <1>10, <2>1
       DEF EncryptFails, Settled, files, BusyOK, Running, NotBusy, tasks, NoTasks
  <2>4. QED
    BY <2>2, <2>3
<1>11. ASSUME Exit
      PROVE  Holder' /\ Settled'
  <2>1. Holder /\ Settled
    BY <1>11 DEF Exit, Saves
  <2>2. Holder'
    BY <1>11, <2>1 DEF Exit, Holder, Settled, files, BusyOK, Running, NotBusy, Stopped
  <2>3. Settled'
    BY <1>11, <2>1
       DEF Exit, Settled, files, BusyOK, Running, NotBusy, Stopped, tasks, NoTasks
  <2>4. QED
    BY <2>2, <2>3
<1>12. ASSUME Crash
      PROVE  Holder' /\ Settled'
  <2>1. Holder /\ Settled
    BY <1>12 DEF Crash, Saves
  <2>2. Holder'
    BY <1>12, <2>1 DEF Crash, Holder, Settled, files, BusyOK, Running, NotBusy, Stopped
  <2>3. Settled'
    BY <1>12, <2>1
       DEF Crash, Settled, files, BusyOK, Running, NotBusy, Stopped, tasks, NoTasks
  <2>4. QED
    BY <2>2, <2>3
<1>13. ASSUME NEW p \in Places, Extract(p)
      PROVE  Holder' /\ Settled'
  <2>1. Holder /\ Settled
    BY <1>13 DEF Extract, history, Saves
  <2>2. app = "locked"
    BY <1>13 DEF Extract, history, Types, BusyOK, NotBusy, Running
  <2>3. Holder'
    BY <1>13, <2>1, <2>2 DEF Extract, Holder, Settled, history, BusyOK, Running, NotBusy
  <2>4. Settled'
    BY <1>13, <2>1, <2>2
       DEF Extract, Settled, history, BusyOK, Running, NotBusy, tasks, NoTasks
  <2>5. QED
    BY <2>3, <2>4
<1>14. ASSUME NEW p \in Places, Remove(p)
      PROVE  Holder' /\ Settled'
  <2>1. Holder /\ Settled
    BY <1>14 DEF Remove, history, Saves
  <2>2. base.exists
    BY <1>14, StoreParts DEF Remove, history, Stores, Empty
  <2>3. Holder'
    BY <1>14, <2>1, <2>2 DEF Remove, Holder, Settled, history, BusyOK, Running, NotBusy
  <2>4. Settled'
    BY <1>14, <2>1, <2>2
       DEF Remove, Settled, history, BusyOK, Running, NotBusy, tasks, NoTasks
  <2>5. QED
    BY <2>3, <2>4
<1>15. ASSUME NEW n \in Names, CreateContact(n)
      PROVE  Holder' /\ Settled'
  <2>1. Holder /\ Settled
    BY <1>15 DEF CreateContact, Saves
  <2>2. ~Late
    BY <1>15 DEF CreateContact, Saves
  <2>3. base'.exists /\ (InBase => InBase')
    BY <1>15, SaveStep, KeepsPut DEF CreateContact, Stores, Places
  <2>4. Holder'
    BY <1>15, <2>1, <2>2, <2>3
       DEF CreateContact, Holder, Settled, BusyOK, Ready, Running, NotBusy, Late
  <2>5. Settled'
    BY <1>15, <2>1, <2>2, <2>3
       DEF CreateContact, Settled, BusyOK, Ready, Running, NotBusy, Late, tasks, NoTasks
  <2>6. QED
    BY <2>4, <2>5
<1>16. ASSUME NEW n \in Names, SaveContact(n)
      PROVE  Holder' /\ Settled'
  <2>1. Holder /\ Settled
    BY <1>16 DEF SaveContact, Saves
  <2>2. ~Late
    BY <1>16 DEF SaveContact, Saves
  <2>3. base'.exists /\ (InBase => InBase')
    BY <1>16, SaveStep, KeepsPut DEF SaveContact, Stores, Places
  <2>4. Holder'
    BY <1>16, <2>1, <2>2, <2>3
       DEF SaveContact, Holder, Settled, BusyOK, Running, NotBusy, Late
  <2>5. Settled'
    BY <1>16, <2>1, <2>2, <2>3
       DEF SaveContact, Settled, BusyOK, Running, NotBusy, Late, tasks, NoTasks
  <2>6. QED
    BY <2>4, <2>5
<1>17. ASSUME NEW n \in Names, DeleteContact(n)
      PROVE  Holder' /\ Settled'
  <2>1. Holder /\ Settled
    BY <1>17 DEF DeleteContact, Saves
  <2>2. n \in Places /\ Absent \in Versions /\ base'.holds = [base.holds EXCEPT ![n] = Absent]
    BY <1>17, PutStore, NothingType DEF DeleteContact, Stores, Places
  <2>3. InBase => InBase'
    BY <1>17, <2>2, KeepsPut DEF DeleteContact
  <2>4. Holder'
    BY <1>17, <2>1, <2>2, <2>3
       DEF DeleteContact, Holder, Settled, BusyOK, Ready, Running, NotBusy
  <2>5. Settled'
    BY <1>17, <2>1, <2>2, <2>3
       DEF DeleteContact, Settled, BusyOK, Ready, Running, NotBusy, tasks, NoTasks
  <2>6. QED
    BY <2>4, <2>5
<1>18. ASSUME NEW n \in Names, ResetContact(n)
      PROVE  Holder' /\ Settled'
  <2>1. Holder /\ Settled
    BY <1>18 DEF ResetContact, Saves
  <2>2. n \in Places /\ Absent \in Versions /\ base'.holds = [base.holds EXCEPT ![n] = Absent]
    BY <1>18, PutStore, NothingType DEF ResetContact, Stores, Places
  <2>3. InBase => InBase'
    BY <1>18, <2>2, KeepsPut DEF ResetContact
  <2>4. base.exists
    BY <1>18, StoreParts DEF ResetContact, Stores, Empty, Places
  <2>5. Holder'
    BY <1>18, <2>1, <2>2, <2>3, <2>4
       DEF ResetContact, Holder, Settled, BusyOK, Ready, Running, NotBusy
  <2>6. Settled'
    BY <1>18, <2>1, <2>2, <2>3, <2>4
       DEF ResetContact, Settled, BusyOK, Ready, Running, NotBusy, tasks, NoTasks
  <2>7. QED
    BY <2>5, <2>6
<1>19. ASSUME NEW n \in Names, NEW m \in Names, RenameContact(n, m)
      PROVE  Holder' /\ Settled'
  <2>1. Holder /\ Settled
    BY <1>19 DEF RenameContact, Saves
  <2>2. InBase => InBase'
    BY <1>19, KeepsMove, MoveStore DEF RenameContact, Stores, Places
  <2>3. base.exists
    BY <1>19, StoreParts DEF RenameContact, Stores, Empty, Places
  <2>4. Holder'
    BY <1>19, <2>1, <2>2, <2>3
       DEF RenameContact, Holder, Settled, BusyOK, Ready, Running, NotBusy
  <2>5. Settled'
    BY <1>19, <2>1, <2>2, <2>3
       DEF RenameContact, Settled, BusyOK, Ready, Running, NotBusy, tasks, NoTasks
  <2>6. QED
    BY <2>4, <2>5
<1>20. ASSUME ResetEnds
      PROVE  Holder' /\ Settled'
  <2>1. Holder /\ Settled
    BY <1>20 DEF ResetEnds, Saves
  <2>2. app = "unlocked"
    BY <1>20 DEF ResetEnds, Types, BusyOK, NotBusy, Running
  <2>3. InBase => InBase'
    <3>1. busy.from \in Places
      BY OpsType DEF Types
    <3>2. CASE Saves(busy.from)
      <4>1. /\ saves + 1 \in Versions
            /\ base'.holds = [base.holds EXCEPT ![busy.from] = saves + 1]
            /\ saved' = [saved EXCEPT ![busy.from] = saves + 1]
        BY <3>1, <3>2, SaveStep DEF Stores
      <4>2. QED
        BY <3>1, <4>1, KeepsPut
    <3>3. CASE UNCHANGED <<base, saved>>
      BY <3>3
    <3>4. QED
      BY <1>20, <3>2, <3>3 DEF ResetEnds, tasks, NoTasks
  <2>4. base' = base \/ ~Late
    BY <1>20 DEF ResetEnds, Saves
  <2>5. Holder'
    BY <1>20, <2>1, <2>2, <2>3, <2>4
       DEF ResetEnds, Holder, Settled, BusyOK, Running, NotBusy, Late
  <2>6. Settled'
    BY <1>20, <2>1, <2>2, <2>3, <2>4
       DEF ResetEnds, Settled, BusyOK, Running, NotBusy, Late, tasks, NoTasks
  <2>7. QED
    BY <2>5, <2>6
<1>21. ASSUME RenameEnds
      PROVE  Holder' /\ Settled'
  <2>1. Holder /\ Settled
    BY <1>21 DEF RenameEnds, Saves
  <2>2. app = "unlocked"
    BY <1>21 DEF RenameEnds, Types, BusyOK, NotBusy, Running
  <2>3. (UNCHANGED base \/ base.exists) /\ (InBase => InBase')
    BY <1>21, MoveStep, KeepsMove, StoreParts, OpsType
       DEF RenameEnds, MoveTo, CanMove, Stores, Types, Empty
  <2>4. Holder'
    BY <1>21, <2>1, <2>2, <2>3 DEF RenameEnds, Holder, Settled, BusyOK, Running, NotBusy
  <2>5. Settled'
    BY <1>21, <2>1, <2>2, <2>3
       DEF RenameEnds, Settled, BusyOK, Running, NotBusy, tasks, NoTasks
  <2>6. QED
    BY <2>4, <2>5
<1>22. ASSUME RenameFails
      PROVE  Holder' /\ Settled'
  <2>1. Holder /\ Settled
    BY <1>22 DEF RenameFails, Saves
  <2>2. app = "unlocked"
    BY <1>22 DEF RenameFails, Types, BusyOK, NotBusy, Running
  <2>3. (UNCHANGED base \/ base.exists) /\ (InBase => InBase')
    BY <1>22, MoveStep, KeepsMove, StoreParts, OpsType
       DEF RenameFails, MoveTo, CanMove, Stores, Types, Empty
  <2>4. Holder'
    BY <1>22, <2>1, <2>2, <2>3 DEF RenameFails, Holder, Settled, BusyOK, Running, NotBusy
  <2>5. Settled'
    BY <1>22, <2>1, <2>2, <2>3
       DEF RenameFails, Settled, BusyOK, Running, NotBusy, tasks, NoTasks
  <2>6. QED
    BY <2>4, <2>5
<1>23. ASSUME ReplaceCancelled
      PROVE  Holder' /\ Settled'
  <2>1. Holder /\ Settled
    BY <1>23 DEF ReplaceCancelled, history
  <2>2. Holder'
    BY <1>23, <2>1 DEF ReplaceCancelled, Holder, files, history
  <2>3. UNCHANGED jobs
    BY <1>23 DEF ReplaceCancelled, tasks
  <2>4. ~NoTasks
    BY <1>23 DEF ReplaceCancelled, NoTasks, Idle, Task
  <2>5. Settled'
    BY <1>23, <2>1, <2>3, <2>4 DEF ReplaceCancelled, Settled, Ready, files
  <2>6. QED
    BY <2>2, <2>5
<1>24. ASSUME NEW kind \in {"full", "contact"}, ImportPressed(kind)
      PROVE  Holder' /\ Settled'
  <2>1. Holder /\ Settled
    BY <1>24 DEF ImportPressed, history
  <2>2. Holder'
    BY <1>24, <2>1 DEF ImportPressed, Holder, files, history
  <2>3. UNCHANGED jobs
    BY <1>24 DEF ImportPressed, tasks
  <2>4. app = "unlocked"
    BY <1>24 DEF ImportPressed
  <2>5. Settled'
    BY <1>24, <2>1, <2>3, <2>4 DEF ImportPressed, Settled, Ready, files
  <2>6. QED
    BY <2>2, <2>5
<1>25. ASSUME NEW i \in Slots, WipeConfirmed(i)
      PROVE  Holder' /\ Settled'
  <2>1. Holder /\ Settled
    BY <1>25 DEF WipeConfirmed, history
  <2>2. Holder'
    BY <1>25, <2>1 DEF WipeConfirmed, Holder, files, history
  <2>3. \A k \in Slots : jobs'[k].at = "wiped" => jobs[k].at = "wiped"
    BY <1>25, JobsType, BeginsStep DEF WipeConfirmed
  <2>4. app = "unlocked"
    BY <1>25 DEF WipeConfirmed
  <2>5. Settled'
    BY <1>25, <2>1, <2>3, <2>4 DEF WipeConfirmed, Settled, Ready, files
  <2>6. QED
    BY <2>2, <2>5
<1>26. ASSUME NEW i \in Slots, WipeBase(i)
      PROVE  Holder' /\ Settled'
  <2>1. Holder /\ Settled
    BY <1>26 DEF WipeBase
  <2>2. ~Late
    BY <1>26 DEF WipeBase
  <2>3. app = "unlocked"
    BY <1>26, <2>1, <2>2, JobsType, TaskMeetsOpen DEF WipeBase, Alive
  <2>4. \A k \in Slots : jobs'[k].at = "wiped" => jobs[k].at = "wiped"
    BY <1>26, JobsType, GoesStep DEF WipeBase
  <2>5. InBase'
    BY <1>26, CoversNone, NothingType DEF WipeBase, InBase
  <2>6. app' = "unlocked" /\ busy' = busy
    BY <1>26, <2>3 DEF WipeBase
  <2>7. Holder'
    BY <2>2, <2>3, <2>5, <2>6 DEF Holder, Late, BusyOK
  <2>8. Settled'
    BY <1>26, <2>1, <2>2, <2>3, <2>4, <2>6 DEF WipeBase, Settled, Late
  <2>9. QED
    BY <2>7, <2>8
<1>27. ASSUME NEW i \in Slots, WipeVault(i)
      PROVE  Holder' /\ Settled'
  <2>1. Holder /\ Settled
    BY <1>27 DEF WipeVault
  <2>2. app \in {"locked", "unlocked"} /\ busy = NotBusy /\ ~base.exists
    BY <1>27 DEF WipeVault, Alive, Types
  <2>3. vault'.exists = FALSE /\ ~NoTasks
    BY <1>27, NothingType, HasTask DEF WipeVault
  <2>4. InBase
    BY <2>1, <2>2, <2>3, StoreParts, CoversEmpty
       DEF Holder, Settled, Stores, InBase, InVault, NotBusy, Running
  <2>5. Holder'
    BY <1>27, <2>2, <2>4 DEF WipeVault, Holder, NotBusy, Running
  <2>6. Settled'
    BY <1>27, <2>1, <2>2, <2>3 DEF WipeVault, Settled, NotBusy, Running
  <2>7. QED
    BY <2>5, <2>6
<1>28. ASSUME NEW i \in Slots, WipeAllFinished(i)
      PROVE  Holder' /\ Settled'
  <2>1. Holder /\ Settled
    BY <1>28 DEF WipeAllFinished
  <2>2. app \in {"locked", "unlocked"} /\ busy = NotBusy /\ ~base.exists
    BY <1>28 DEF WipeAllFinished, Ready
  <2>3. ~vault.exists
    BY <1>28, <2>1, <2>2 DEF WipeAllFinished, Settled, NotBusy, Running
  <2>4. Holder'
    BY <1>28, <2>1, <2>2 DEF WipeAllFinished, Holder, files, NotBusy, Running
  <2>5. Settled'
    BY <1>28, <2>2, <2>3 DEF WipeAllFinished, Settled, files, NotBusy, Running
  <2>6. QED
    BY <2>4, <2>5
<1>29. ASSUME NEW i \in Slots, BackupImportPathChosen(i)
      PROVE  Holder' /\ Settled'
  <2>1. Holder /\ Settled
    BY <1>29 DEF BackupImportPathChosen
  <2>2. ~Late
    BY <1>29 DEF BackupImportPathChosen
  <2>3. app = "unlocked"
    BY <1>29, <2>1, <2>2 DEF BackupImportPathChosen, Ready, Late, Settled, NoTasks
  <2>4. \A k \in Slots : jobs'[k].at = "wiped" => jobs[k].at = "wiped"
    <3>1. CASE UNCHANGED jobs
      BY <3>1
    <3>2. CASE ~UNCHANGED jobs
      BY <1>29, <3>2, JobsType, BeginsStep DEF BackupImportPathChosen
    <3>3. QED
      BY <3>1, <3>2
  <2>5. InBase'
    BY <1>29, <2>1, <2>3, LaidOutStore
       DEF BackupImportPathChosen, Holder, Late, Stores, InBase
  <2>6. app' = "unlocked" /\ busy' = busy
    BY <1>29, <2>3 DEF BackupImportPathChosen
  <2>7. Holder'
    BY <2>2, <2>3, <2>5, <2>6 DEF Holder, Late, BusyOK
  <2>8. Settled'
    BY <1>29, <2>1, <2>2, <2>3, <2>4, <2>6 DEF BackupImportPathChosen, Settled, Late
  <2>9. QED
    BY <2>7, <2>8
<1>30. ASSUME NEW i \in Slots, ReplaceConfirmed(i)
      PROVE  Holder' /\ Settled'
  <2>1. Holder /\ Settled
    BY <1>30 DEF ReplaceConfirmed, history
  <2>2. Holder'
    BY <1>30, <2>1 DEF ReplaceConfirmed, Holder, files, history
  <2>3. \A k \in Slots : jobs'[k].at = "wiped" => jobs[k].at = "wiped"
    BY <1>30, JobsType, BeginsStep DEF ReplaceConfirmed
  <2>4. ~NoTasks
    BY <1>30 DEF ReplaceConfirmed, NoTasks, Idle, Task
  <2>5. Settled'
    BY <1>30, <2>1, <2>3, <2>4 DEF ReplaceConfirmed, Settled, Ready, files
  <2>6. QED
    BY <2>2, <2>5
<1>31. ASSUME NEW i \in Slots, ClearContacts(i)
      PROVE  Holder' /\ Settled'
  <2>1. Holder /\ Settled
    BY <1>31 DEF ClearContacts
  <2>2. ~Late
    BY <1>31 DEF ClearContacts
  <2>3. app = "unlocked"
    BY <1>31, <2>1, <2>2, JobsType, TaskMeetsOpen DEF ClearContacts, Alive
  <2>4. \A k \in Slots : jobs'[k].at = "wiped" => jobs[k].at = "wiped"
    BY <1>31, JobsType, GoesStep DEF ClearContacts
  <2>5. InBase'
    BY <1>31, <2>1, <2>3, StoreParts
       DEF ClearContacts, Holder, Late, Types, Stores, InBase, Covers, Empty, Places
  <2>6. app' = "unlocked" /\ busy' = busy
    BY <1>31, <2>3 DEF ClearContacts
  <2>7. Holder'
    BY <2>2, <2>3, <2>5, <2>6 DEF Holder, Late, BusyOK
  <2>8. Settled'
    BY <1>31, <2>1, <2>2, <2>3, <2>4, <2>6 DEF ClearContacts, Settled, Late
  <2>9. QED
    BY <2>7, <2>8
<1>32. ASSUME NEW i \in Slots, ClearVault(i)
      PROVE  Holder' /\ Settled'
  <2>1. Holder /\ Settled
    BY <1>32 DEF ClearVault
  <2>2. ~Late
    BY <1>32 DEF ClearVault
  <2>3. app = "unlocked"
    BY <1>32, <2>1, <2>2, JobsType, TaskMeetsOpen DEF ClearVault, Alive
  <2>4. \A k \in Slots : jobs'[k].at = "wiped" => jobs[k].at = "wiped"
    BY <1>32, JobsType, GoesStep DEF ClearVault
  <2>5. InBase'
    BY <1>32, <2>1, <2>3, LaidOutStore DEF ClearVault, Holder, Late, Stores, InBase
  <2>6. app' = "unlocked" /\ busy' = busy
    BY <1>32, <2>3 DEF ClearVault
  <2>7. Holder'
    BY <2>2, <2>3, <2>5, <2>6 DEF Holder, Late, BusyOK
  <2>8. Settled'
    BY <1>32, <2>1, <2>2, <2>3, <2>4, <2>6, NothingType DEF ClearVault, Settled, Late
  <2>9. QED
    BY <2>7, <2>8
<1>33. ASSUME NEW i \in Slots, CheckTarget(i)
      PROVE  Holder' /\ Settled'
  <2>1. Holder /\ Settled
    BY <1>33 DEF CheckTarget
  <2>2. ~Late
    BY <1>33 DEF CheckTarget
  <2>3. app = "unlocked"
    BY <1>33, <2>1, <2>2, JobsType, TaskMeetsOpen DEF CheckTarget, Alive
  <2>4. \A k \in Slots : jobs'[k].at = "wiped" => jobs[k].at = "wiped"
    BY <1>33, JobsType, GoesStep DEF CheckTarget
  <2>5. InBase'
    BY <1>33, <2>1, <2>3, LaidOutStore DEF CheckTarget, Holder, Late, Stores, InBase
  <2>6. app' = "unlocked" /\ busy' = busy
    BY <1>33, <2>3 DEF CheckTarget
  <2>7. Holder'
    BY <2>2, <2>3, <2>5, <2>6 DEF Holder, Late, BusyOK
  <2>8. Settled'
    BY <1>33, <2>1, <2>2, <2>3, <2>4, <2>6 DEF CheckTarget, Settled, Late
  <2>9. QED
    BY <2>7, <2>8
<1>34. ASSUME NEW i \in Slots, CheckContact(i)
      PROVE  Holder' /\ Settled'
  <2>1. Holder /\ Settled
    BY <1>34 DEF CheckContact, history
  <2>2. Holder'
    BY <1>34, <2>1 DEF CheckContact, Holder, files, history
  <2>3. \A k \in Slots : jobs'[k].at = "wiped" => jobs[k].at = "wiped"
    BY <1>34, JobsType, GoesStep DEF CheckContact, Types
  <2>4. ~NoTasks
    BY <1>34, JobsType, HasTask DEF CheckContact
  <2>5. Settled'
    BY <1>34, <2>1, <2>3, <2>4 DEF CheckContact, Settled, files
  <2>6. QED
    BY <2>2, <2>5
<1>35. ASSUME NEW i \in Slots, ProfileReplaceConfirmed(i)
      PROVE  Holder' /\ Settled'
  <2>1. Holder /\ Settled
    BY <1>35 DEF ProfileReplaceConfirmed, history
  <2>2. Holder'
    BY <1>35, <2>1 DEF ProfileReplaceConfirmed, Holder, files, history
  <2>3. \A k \in Slots : jobs'[k].at = "wiped" => jobs[k].at = "wiped"
    BY <1>35, JobsType, BeginsStep DEF ProfileReplaceConfirmed, Types
  <2>4. app = "unlocked"
    BY <1>35 DEF ProfileReplaceConfirmed
  <2>5. Settled'
    BY <1>35, <2>1, <2>3, <2>4 DEF ProfileReplaceConfirmed, Settled, Ready, files
  <2>6. QED
    BY <2>2, <2>5
<1>36. ASSUME NEW i \in Slots, ImportFinished(i)
      PROVE  Holder' /\ Settled'
  <2>1. Holder /\ Settled
    BY <1>36 DEF ImportFinished
  <2>2. ~Late
    BY <1>36 DEF ImportFinished
  <2>3. app = "unlocked"
    BY <1>36, <2>1, <2>2, JobsType, TaskMeetsOpen DEF ImportFinished, Alive, Ready
  <2>4. \A k \in Slots : jobs'[k].at = "wiped" => jobs[k].at = "wiped"
    BY <1>36, JobsType, EndsStep DEF ImportFinished
  <2>5. InBase'
    BY <1>36, <2>1, <2>3, LaidOutStore DEF ImportFinished, Holder, Late, Stores, InBase
  <2>6. app' = "unlocked" /\ busy' = busy
    BY <1>36, <2>3 DEF ImportFinished
  <2>7. Holder'
    BY <2>2, <2>3, <2>5, <2>6 DEF Holder, Late, BusyOK
  <2>8. Settled'
    BY <1>36, <2>1, <2>2, <2>3, <2>4, <2>6 DEF ImportFinished, Settled, Late
  <2>9. QED
    BY <2>7, <2>8
<1>37. ASSUME NEW i \in Slots, ImportLoadFails(i)
      PROVE  Holder' /\ Settled'
  <2>1. Holder /\ Settled
    BY <1>37 DEF ImportLoadFails
  <2>2. Holder'
    BY <1>37, <2>1 DEF ImportLoadFails, Holder, files
  <2>3. \A k \in Slots : jobs'[k].at = "wiped" => jobs[k].at = "wiped"
    BY <1>37, JobsType, EndsStep DEF ImportLoadFails
  <2>4. ~NoTasks
    BY <1>37, JobsType, HasTask DEF ImportLoadFails
  <2>5. Settled'
    BY <1>37, <2>1, <2>3, <2>4 DEF ImportLoadFails, Settled, Ready, files
  <2>6. QED
    BY <2>2, <2>5
<1>38. ASSUME NEW i \in Slots, JobFails(i)
      PROVE  Holder' /\ Settled'
  <2>1. Holder /\ Settled
    BY <1>38 DEF JobFails
  <2>2. Holder'
    BY <1>38, <2>1 DEF JobFails, Holder, files
  <2>3. \A k \in Slots : jobs'[k].at = "wiped" => jobs[k].at = "wiped"
    BY <1>38, JobsType, EndsStep DEF JobFails
  <2>4. ~NoTasks
    BY <1>38, JobsType, HasTask DEF JobFails
  <2>5. Settled'
    BY <1>38, <2>1, <2>3, <2>4 DEF JobFails, Settled, Ready, files
  <2>6. QED
    BY <2>2, <2>5
<1>39. ASSUME NEW i \in Slots, NEW n \in Names, ProfileBackupImportScanned(i, n)
      PROVE  Holder' /\ Settled'
  <2>1. Holder /\ Settled
    BY <1>39 DEF ProfileBackupImportScanned, history
  <2>2. Holder'
    BY <1>39, <2>1 DEF ProfileBackupImportScanned, Holder, files, history
  <2>3. \A k \in Slots : jobs'[k].at = "wiped" => jobs[k].at = "wiped"
    BY <1>39, JobsType, BeginsStep DEF ProfileBackupImportScanned
  <2>4. ~NoTasks
    BY <1>39 DEF ProfileBackupImportScanned, NoTasks
  <2>5. Settled'
    BY <1>39, <2>1, <2>3, <2>4 DEF ProfileBackupImportScanned, Settled, Ready, files
  <2>6. QED
    BY <2>2, <2>5
<1>40. ASSUME NEW i \in Slots, NEW n \in Names, DeleteReplaced(i, n)
      PROVE  Holder' /\ Settled'
  <2>1. Holder /\ Settled
    BY <1>40 DEF DeleteReplaced
  <2>2. ~Late
    BY <1>40 DEF DeleteReplaced
  <2>3. app = "unlocked"
    BY <1>40, <2>1, <2>2, JobsType, TaskMeetsOpen DEF DeleteReplaced, Alive
  <2>4. \A k \in Slots : jobs'[k].at = "wiped" => jobs[k].at = "wiped"
    BY <1>40, JobsType, GoesStep DEF DeleteReplaced
  <2>5. InBase'
    <3>1. n \in Places /\ Absent \in Versions /\ base'.holds = [base.holds EXCEPT ![n] = Absent]
      BY <1>40, <2>2, PutStore, NothingType DEF DeleteReplaced, Late, Stores, Places
    <3>2. InBase => InBase'
      BY <1>40, <3>1, KeepsPut DEF DeleteReplaced
    <3>3. QED
      BY <2>1, <2>2, <2>3, <3>2 DEF Holder, Late
  <2>6. app' = "unlocked" /\ busy' = busy
    BY <1>40, <2>3 DEF DeleteReplaced
  <2>7. Holder'
    BY <2>2, <2>3, <2>5, <2>6 DEF Holder, Late, BusyOK
  <2>8. Settled'
    BY <1>40, <2>1, <2>2, <2>3, <2>4, <2>6 DEF DeleteReplaced, Settled, Late
  <2>9. QED
    BY <2>7, <2>8
<1>41. ASSUME NEW i \in Slots, NEW n \in Names, InstallProfile(i, n)
      PROVE  Holder' /\ Settled'
  <2>1. Holder /\ Settled
    BY <1>41 DEF InstallProfile
  <2>2. ~Late
    BY <1>41 DEF InstallProfile
  <2>3. app = "unlocked"
    BY <1>41, <2>1, <2>2, JobsType, TaskMeetsOpen DEF InstallProfile, Alive
  <2>4. \A k \in Slots : jobs'[k].at = "wiped" => jobs[k].at = "wiped"
    BY <1>41, JobsType, GoesStep DEF InstallProfile, Types
  <2>5. InBase'
    <3>1. n \in Places /\ Imported \in Versions /\ base'.holds = [base.holds EXCEPT ![n] = Imported]
      BY <1>41, PutStore, NothingType DEF InstallProfile, Stores, Places
    <3>2. InBase => InBase'
      BY <1>41, <3>1, KeepsPut DEF InstallProfile
    <3>3. QED
      BY <2>1, <2>2, <2>3, <3>2 DEF Holder, Late
  <2>6. app' = "unlocked" /\ busy' = busy
    BY <1>41, <2>3 DEF InstallProfile
  <2>7. Holder'
    BY <2>2, <2>3, <2>5, <2>6 DEF Holder, Late, BusyOK
  <2>8. Settled'
    BY <1>41, <2>1, <2>2, <2>3, <2>4, <2>6 DEF InstallProfile, Settled, Late
  <2>9. QED
    BY <2>7, <2>8
<1>42. QED
  BY <1>1, <1>2, <1>3, <1>4, <1>5, <1>6, <1>7, <1>8, <1>9, <1>10, <1>11, <1>12, <1>13,
     <1>14, <1>15, <1>16, <1>17, <1>18, <1>19, <1>20, <1>21, <1>22, <1>23, <1>24,
     <1>25, <1>26, <1>27, <1>28, <1>29, <1>30, <1>31, <1>32, <1>33, <1>34, <1>35,
     <1>36, <1>37, <1>38, <1>39, <1>40, <1>41
     DEF Next, Gate, ContactSteps, TaskSteps

-----------------------------------------------------------------------------
(* The invariant and what follows from it *)

LEMMA InitInv == Init => IInv
PROOF
<1> SUFFICES ASSUME Init PROVE IInv
  OBVIOUS
<1>1. Types
  <2>1. saves \in 0..MaxSaves /\ faults \in 0..MaxFaults
    BY StorageAssumption DEF Init
  <2>2. QED
    BY <2>1, OpsType, JobsType, NothingType DEF Init, Types
<1>2. Stores(base, vault, tmp)
  BY NothingType DEF Init, Stores, StoreOK
<1>3. BusyOK
  BY DEF Init, BusyOK, NoTasks, NotBusy, Running
<1>4. Holder /\ Settled
  BY CoversNone, NothingType
     DEF Init, Holder, Settled, NoTasks, InBase, InVault, NotBusy, Running
<1>5. QED
  BY <1>1, <1>2, <1>3, <1>4, TypeIsTypes DEF IInv

LEMMA StepInv == IInv /\ [Next]_vars => IInv'
PROOF
<1> SUFFICES ASSUME IInv, [Next]_vars PROVE IInv'
  OBVIOUS
<1>1. Types /\ Stores(base, vault, tmp) /\ BusyOK /\ (Unspoiled => Holder /\ Settled)
  BY TypeIsTypes DEF IInv
<1>2. CASE Next
  <2>1. Types' /\ Stores(base', vault', tmp') /\ BusyOK'
    BY <1>1, <1>2, TypeStep
  <2>2. TypeOK'
    BY <2>1 DEF TypeOK, Types, Stores, StoreOK, Ops, Jobs, Questions
  <2>3. Unspoiled' => Holder' /\ Settled'
    BY <1>1, <1>2, HolderStep
  <2>4. QED
    BY <2>1, <2>2, <2>3 DEF IInv
<1>3. CASE UNCHANGED vars
  <2>1. TypeOK'
    BY <1>3 DEF IInv, TypeOK, vars, tasks, files, history
  <2>2. BusyOK'
    BY <1>1, <1>3 DEF BusyOK, NoTasks, vars, tasks, files, history
  <2>3. Unspoiled' => Holder' /\ Settled'
    BY <1>1, <1>3, Contents
       DEF Unspoiled, Holder, Settled, NoTasks, vars, tasks, files, history
  <2>4. QED
    BY <2>1, <2>2, <2>3 DEF IInv
<1>4. QED
  BY <1>2, <1>3

(* A place that is covered by the plaintext or by the vault is kept. *)
LEMMA HolderKeeps == IInv => NothingLost
PROOF
<1> SUFFICES ASSUME IInv, Unspoiled, NEW p \in Places PROVE Kept(saved[p])
  BY DEF NothingLost, Unspoiled
<1>1. InBase \/ InVault
  BY DEF IInv, Holder
<1>2. base.holds[p] \in Held(base) /\ vault.holds[p] \in Held(vault)
  BY DEF Held
<1>3. saved[p] \in {Absent, Imported, base.holds[p], vault.holds[p]}
  BY <1>1 DEF InBase, InVault, Covers
<1>4. QED
  BY <1>2, <1>3 DEF Kept

(* The variables of the storage always have their types, those of the two  *)
(* tasks too, and a directory that is absent is empty.                     *)
THEOREM StorageTypeCorrect == Spec => []TypeOK
PROOF
<1>1. IInv => TypeOK
  BY DEF IInv
<1>2. QED
  BY <1>1, InitInv, StepInv, PTL DEF Spec

(* Wherever the program is stopped, in an unlock, a shutdown, a rename, a  *)
(* save or an import, each contact the user relies on is whole in the      *)
(* plaintext, in the vault or in the backup files; only a task that met    *)
(* another storage than its own, and a removal that failed, are excused.   *)
THEOREM NoContactLost == Spec => []NothingLost
PROOF
<1>1. QED
  BY HolderKeeps, InitInv, StepInv, PTL DEF Spec

-----------------------------------------------------------------------------
(* What an undisturbed life of the program holds *)

(* The vault holds what the user relies on while the gate is shut, the     *)
(* plaintext while it is open, and the vault again once the new one is in  *)
(* its place.  An open gate without plaintext is the work of a wipe that   *)
(* has not ended.                                                          *)
Wiping == \E i \in Slots : jobs[i].at \in {"wipeVault", "wiped"}

Shut ==
  /\ app = "off" \/ (app = "locked" /\ busy.at = "no") => ~base.exists /\ vault.holds = saved
  /\ busy.at = "extracting" => base.exists /\ vault.holds = saved

Open ==
  /\ app = "unlocked" /\ busy.at # "removing" => base.holds = saved
  /\ app = "unlocked" /\ ~base.exists => Wiping

Sealing ==
  /\ busy.at = "removing" => base.exists /\ vault.holds = saved
  /\ app = "leaving" => ~base.exists /\ (jobs = NoJobs => vault.holds = saved)

Sealed == Shut /\ Open /\ Sealing
ISealed == IInv /\ (spoiled = {} => Sealed)

(* What went wrong before a step is on record after it. *)
LEMMA SpoilStays ==
  ASSUME [Next]_vars, spoiled' = {}
  PROVE  spoiled = {}
PROOF
<1>1. spoiled \subseteq spoiled'
  <2> DEFINE Grows == spoiled \subseteq spoiled'
  <2>0. /\ spoiled' = spoiled => Grows
        /\ \A why : Spoil(why) => Grows
        /\ SpoilIfLate => Grows
    BY DEF Spoil, SpoilIfLate
  <2> HIDE DEF Grows
  <2>1. ASSUME Gate PROVE Grows
    BY <2>0, <2>1
       DEF Gate, history, Start, UnlockInputChanged, UnlockPressed, Unlocked,
           UnlockFails, CloseRequested, ExitAfterNotify, ReplaceVault, Encrypted,
           EncryptFails, Exit, Crash, Extract, Remove
  <2>2. ASSUME ContactSteps PROVE Grows
    BY <2>0, <2>2
       DEF ContactSteps, history, Saves, CreateContact, SaveContact, DeleteContact,
           ResetContact, RenameContact, ResetEnds, RenameEnds, RenameFails
  <2>3. ASSUME TaskSteps PROVE Grows
    <3>1. ReplaceCancelled \/ (\E kind \in {"full", "contact"} : ImportPressed(kind)) => Grows
      BY <2>0 DEF history, ReplaceCancelled, ImportPressed
    <3>2. ASSUME NEW i \in Slots
          PROVE  WipeConfirmed(i) \/ WipeBase(i) \/ WipeVault(i) \/ WipeAllFinished(i)
                 \/ BackupImportPathChosen(i) \/ ReplaceConfirmed(i) \/ ClearContacts(i)
                 => Grows
      BY <2>0
         DEF history, WipeConfirmed, WipeBase, WipeVault, WipeAllFinished,
             BackupImportPathChosen, ReplaceConfirmed, ClearContacts
    <3>3. ASSUME NEW i \in Slots
          PROVE  ClearVault(i) \/ CheckTarget(i) \/ CheckContact(i)
                 \/ ProfileReplaceConfirmed(i) \/ ImportFinished(i) \/ ImportLoadFails(i)
                 \/ JobFails(i) => Grows
      BY <2>0
         DEF history, ClearVault, CheckTarget, CheckContact, ProfileReplaceConfirmed,
             ImportFinished, ImportLoadFails, JobFails
    <3>4. ASSUME NEW i \in Slots, NEW n \in Names
          PROVE  ProfileBackupImportScanned(i, n) \/ DeleteReplaced(i, n)
                 \/ InstallProfile(i, n) => Grows
      BY <2>0 DEF history, ProfileBackupImportScanned, DeleteReplaced, InstallProfile
    <3>5. QED
      BY <2>3, <3>1, <3>2, <3>3, <3>4 DEF TaskSteps
  <2>4. ASSUME UNCHANGED vars PROVE Grows
    BY <2>0, <2>4 DEF vars, history
  <2>5. Grows
    BY <2>1, <2>2, <2>3, <2>4 DEF Next
  <2>6. QED
    BY <2>5 DEF Grows
<1>2. QED
  BY <1>1

LEMMA WipingHasTask == Wiping => jobs # NoJobs
PROOF BY JobsType DEF Wiping

(* Only its own next step takes a wipe out of the slots. *)
LEMMA WipingStays ==
  ASSUME NEW i \in Slots, jobs[i].at \notin {"wipeVault", "wiped"},
         \A k \in Slots : k # i => jobs'[k] = jobs[k]
  PROVE  Wiping => Wiping'
PROOF BY DEF Wiping

(* A step that nothing spoils keeps it. *)
LEMMA SealedStep ==
  ASSUME Types, Stores(base, vault, tmp), BusyOK, Settled, Sealed, Next,
         spoiled = {}, spoiled' = {}
  PROVE  Sealed'
PROOF
<1>1. ASSUME Start
      PROVE  Sealed'
  <2>1. QED
    BY <1>1
       DEF Start, Sealed, Shut, Open, Sealing, Settled, Wiping, Types, BusyOK, Ready,
           Running, NotBusy, files, history, tasks, NoTasks
<1>2. ASSUME UnlockInputChanged
      PROVE  Sealed'
  <2>1. QED
    BY <1>2
       DEF UnlockInputChanged, Sealed, Shut, Open, Sealing, Wiping, files, history, tasks
<1>3. ASSUME UnlockPressed
      PROVE  Sealed'
  <2>1. base'.holds = Empty /\ base'.exists /\ (~vault.exists => vault.holds = Empty)
    BY <1>3, StoreParts DEF UnlockPressed, files, history, Stores
  <2>2. QED
    BY <1>3, <2>1
       DEF UnlockPressed, Sealed, Shut, Open, Sealing, Settled, Wiping, Types, BusyOK,
           Ready, Running, NotBusy, files, history, tasks, NoTasks
<1>4. ASSUME Unlocked
      PROVE  Sealed'
  <2>1. QED
    BY <1>4
       DEF Unlocked, Sealed, Shut, Open, Sealing, Settled, Wiping, Types, BusyOK, Ready,
           Running, NotBusy, files, history, tasks, NoTasks
<1>5. ASSUME UnlockFails
      PROVE  Sealed'
  <2>1. QED
    BY <1>5
       DEF UnlockFails, Sealed, Shut, Open, Sealing, Settled, Wiping, Types, BusyOK,
           Ready, Running, NotBusy, files, history, Spoil, tasks, NoTasks
<1>6. ASSUME CloseRequested
      PROVE  Sealed'
  <2>1. QED
    BY <1>6
       DEF CloseRequested, Sealed, Shut, Open, Sealing, Settled, Wiping, Types, BusyOK,
           Ready, Running, NotBusy, files, history, tasks, NoTasks
<1>7. ASSUME ExitAfterNotify
      PROVE  Sealed'
  <2>1. app \in {"locked", "unlocked"} /\ busy.at = "no"
    BY <1>7 DEF ExitAfterNotify, Ready, NotBusy, Running
  <2>2. CASE app = "unlocked" /\ phrase /\ base.exists
    BY <1>7, <2>1, <2>2
       DEF ExitAfterNotify, Sealed, Shut, Open, Sealing, Running, history
  <2>3. CASE ~(app = "unlocked" /\ phrase /\ base.exists)
    <3>1. ~base.exists /\ (jobs = NoJobs => vault.holds = saved)
      BY <2>1, <2>3, WipingHasTask DEF Sealed, Shut, Open, Settled
    <3>2. QED
      BY <1>7, <2>1, <2>3, <3>1
         DEF ExitAfterNotify, Sealed, Shut, Open, Sealing, history, tasks
  <2>4. QED
    BY <2>2, <2>3
<1>8. ASSUME ReplaceVault
      PROVE  Sealed'
  <2>1. QED
    BY <1>8
       DEF ReplaceVault, Sealed, Shut, Open, Sealing, Settled, Wiping, Types, BusyOK,
           Ready, Running, NotBusy, files, history, tasks, NoTasks
<1>9. ASSUME Encrypted
      PROVE  Sealed'
  <2>1. ~base'.exists
    BY <1>9, NothingType DEF Encrypted, files, history
  <2>2. QED
    BY <1>9, <2>1
       DEF Encrypted, Sealed, Shut, Open, Sealing, Settled, Wiping, Types, BusyOK, Ready,
           Running, NotBusy, files, history, tasks, NoTasks
<1>10. ASSUME EncryptFails
      PROVE  Sealed'
  <2>1. QED
    BY <1>10
       DEF EncryptFails, Sealed, Shut, Open, Sealing, Settled, Wiping, Types, BusyOK,
           Ready, Running, NotBusy, files, history, Spoil, tasks, NoTasks
<1>11. ASSUME Exit
      PROVE  Sealed'
  <2>1. QED
    BY <1>11, WipingHasTask
       DEF Exit, Sealed, Shut, Open, Sealing, Settled, Wiping, Types, BusyOK, Ready,
           Running, NotBusy, files, history, Spoil, Stopped, tasks, NoTasks
<1>12. ASSUME Crash
      PROVE  Sealed'
  <2>1. QED
    BY <1>12, WipingHasTask
       DEF Crash, Sealed, Shut, Open, Sealing, Settled, Wiping, Types, BusyOK, Ready,
           Running, NotBusy, files, history, Spoil, Stopped, tasks, NoTasks
<1>13. ASSUME NEW p \in Places, Extract(p)
      PROVE  Sealed'
  <2>1. vault.holds[p] \in Versions
    BY <1>13, StoreParts DEF Stores
  <2>2. base'.exists
    BY <1>13, <2>1, PutStore DEF Stores, Extract
  <2>3. QED
    BY <1>13, <2>1, <2>2
       DEF Extract, Sealed, Shut, Open, Sealing, Settled, Wiping, Types, BusyOK, Ready,
           Running, NotBusy, files, history, tasks, NoTasks
<1>14. ASSUME NEW p \in Places, Remove(p)
      PROVE  Sealed'
  <2>1. base'.exists
    BY <1>14, PutStore, NothingType DEF Remove, Stores
  <2>2. QED
    BY <1>14, <2>1
       DEF Remove, Sealed, Shut, Open, Sealing, Settled, Wiping, Types, BusyOK, Ready,
           Running, NotBusy, files, history, tasks, NoTasks
<1>15. ASSUME NEW n \in Names, CreateContact(n)
      PROVE  Sealed'
  <2>1. base'.exists /\ ~Late /\ (base.holds = saved => base'.holds = saved')
    BY <1>15, SaveStep
       DEF CreateContact, files, history, Idle, Task, Saves, SpoilIfLate, Spoil, Stores,
           Places
  <2>2. QED
    BY <1>15, <2>1
       DEF CreateContact, Sealed, Shut, Open, Sealing, Settled, Wiping, Types, BusyOK,
           Ready, Running, NotBusy, files, history, Late, tasks, NoTasks
<1>16. ASSUME NEW n \in Names, SaveContact(n)
      PROVE  Sealed'
  <2>1. base'.exists /\ ~Late /\ (base.holds = saved => base'.holds = saved')
    BY <1>16, SaveStep
       DEF SaveContact, files, history, Idle, Task, Saves, SpoilIfLate, Spoil, Stores,
           Places
  <2>2. QED
    BY <1>16, <2>1
       DEF SaveContact, Sealed, Shut, Open, Sealing, Settled, Wiping, Types, BusyOK,
           Ready, Running, NotBusy, files, history, Late, tasks, NoTasks
<1>17. ASSUME NEW n \in Names, DeleteContact(n)
      PROVE  Sealed'
  <2>1. n \in Places /\ base'.exists /\ base'.holds = [base.holds EXCEPT ![n] = Absent]
    BY <1>17, PutStore, NothingType DEF DeleteContact, Stores, Places
  <2>2. QED
    BY <1>17, <2>1
       DEF DeleteContact, Sealed, Shut, Open, Sealing, Settled, Wiping, Types, BusyOK,
           Ready, Running, NotBusy, files, history, tasks, NoTasks
<1>18. ASSUME NEW n \in Names, ResetContact(n)
      PROVE  Sealed'
  <2>1. n \in Places /\ base'.exists /\ base'.holds = [base.holds EXCEPT ![n] = Absent]
    BY <1>18, PutStore, NothingType DEF ResetContact, Stores, Places
  <2>2. app = "unlocked" /\ base.holds = saved /\ busy'.at = "resetting"
    BY <1>18, <2>1 DEF ResetContact, Ready, Sealed, Open, NotBusy, Running
  <2>3. base'.holds = saved' /\ base.exists
    BY <1>18, <2>1, <2>2, StoreParts DEF ResetContact, Stores, Empty
  <2>4. QED
    BY <1>18, <2>1, <2>2, <2>3
       DEF ResetContact, Sealed, Shut, Open, Sealing, Settled, Wiping, Types, BusyOK,
           Ready, Running, NotBusy, files, history, tasks, NoTasks
<1>19. ASSUME NEW n \in Names, NEW m \in Names, RenameContact(n, m)
      PROVE  Sealed'
  <2>1. base'.exists /\ (base.holds = saved => base'.holds = saved')
    BY <1>19, MoveStore DEF RenameContact, files, history, Stores, Places
  <2>2. QED
    BY <1>19, <2>1
       DEF RenameContact, Sealed, Shut, Open, Sealing, Settled, Wiping, Types, BusyOK,
           Ready, Running, NotBusy, files, history, tasks, NoTasks
<1>20. ASSUME ResetEnds
      PROVE  Sealed'
  <2>1. app = "unlocked" /\ base.holds = saved
    BY <1>20 DEF ResetEnds, Types, BusyOK, NotBusy, Running, Sealed, Open
  <2>2. busy.from \in Places /\ Saves(busy.from)
    BY <1>20, <2>1, OpsType DEF ResetEnds, Types, Spoil
  <2>3. base'.exists /\ base'.holds = saved'
    BY <1>20, <2>1, <2>2, SaveStep DEF Stores
  <2>4. base.exists
    BY <1>20, <2>1, <2>2, <2>3 DEF Saves, SpoilIfLate, Spoil, Late
  <2>5. QED
    BY <1>20, <2>1, <2>2, <2>3, <2>4
       DEF ResetEnds, Sealed, Shut, Open, Sealing, Settled, Wiping, Types, BusyOK, Ready,
           Running, NotBusy, files, history, tasks, NoTasks
<1>21. ASSUME RenameEnds
      PROVE  Sealed'
  <2>1. app = "unlocked" /\ base.holds = saved /\ busy.to \in Places
    <3>1. busy.to \in Places
      BY OpsType DEF Types
    <3>2. app = "unlocked"
      BY <1>21 DEF RenameEnds, Types, BusyOK, NotBusy, Running
    <3>3. QED
      BY <1>21, <3>1, <3>2 DEF RenameEnds, Sealed, Open
  <2>2. base'.exists /\ base'.holds = saved'
    BY <1>21, <2>1, MoveStep DEF RenameEnds, Stores
  <2>3. base.exists
    BY <1>21, <2>1, <2>2, StoreParts DEF RenameEnds, MoveTo, CanMove, Stores, Empty, Places
  <2>4. QED
    BY <1>21, <2>1, <2>2, <2>3
       DEF RenameEnds, Sealed, Shut, Open, Sealing, Settled, Wiping, Types, BusyOK, Ready,
           Running, NotBusy, files, history, tasks, NoTasks
<1>22. ASSUME RenameFails
      PROVE  Sealed'
  <2>1. app = "unlocked" /\ base.holds = saved /\ busy.from \in Places
    <3>1. busy.from \in Places
      BY OpsType DEF Types
    <3>2. app = "unlocked"
      BY <1>22 DEF RenameFails, Types, BusyOK, NotBusy, Running
    <3>3. QED
      BY <1>22, <3>1, <3>2 DEF RenameFails, Sealed, Open
  <2>2. MoveTo(busy.from)
    BY <1>22, <2>1 DEF RenameFails, Spoil
  <2>3. base'.exists /\ base'.holds = saved'
    BY <1>22, <2>1, <2>2, MoveStep DEF Stores
  <2>4. base.exists
    BY <1>22, <2>1, <2>2, <2>3, StoreParts DEF MoveTo, CanMove, Stores, Empty, Places
  <2>5. QED
    BY <1>22, <2>1, <2>2, <2>3, <2>4
       DEF RenameFails, Sealed, Shut, Open, Sealing, Settled, Wiping, Types, BusyOK,
           Ready, Running, NotBusy, files, history, tasks, NoTasks
<1>23. ASSUME ReplaceCancelled
      PROVE  Sealed'
  <2>1. QED
    BY <1>23 DEF ReplaceCancelled, Sealed, Shut, Open, Sealing, Wiping, files, history
<1>24. ASSUME NEW kind \in {"full", "contact"}, ImportPressed(kind)
      PROVE  Sealed'
  <2>1. QED
    BY <1>24 DEF ImportPressed, Sealed, Shut, Open, Sealing, Wiping, files, history
<1>25. ASSUME NEW i \in Slots, WipeConfirmed(i)
      PROVE  Sealed'
  <2>1. Wiping => Wiping'
    <3>1. jobs[i].at \notin {"wipeVault", "wiped"}
      BY <1>25, JobsType, BeginsStep DEF WipeConfirmed
    <3>2. \A k \in Slots : k # i => jobs'[k] = jobs[k]
      BY <1>25, JobsType, BeginsStep DEF WipeConfirmed
    <3>3. QED
      BY <3>1, <3>2, WipingStays
  <2>2. app # "leaving"
    BY <1>25 DEF WipeConfirmed, Ready
  <2>3. QED
    BY <1>25, <2>1, <2>2 DEF WipeConfirmed, Sealed, Shut, Open, Sealing, files, history
<1>26. ASSUME NEW i \in Slots, WipeBase(i)
      PROVE  Sealed'
  <2>1. ~Late
    BY <1>26 DEF WipeBase, SpoilIfLate, Spoil
  <2>2. app = "unlocked"
    BY <1>26, <2>1, JobsType, TaskMeetsOpen DEF WipeBase, Alive
  <2>3. base'.holds = saved'
    BY <1>26, NothingType DEF WipeBase
  <2>4. Wiping'
    BY <1>26, JobsType, GoesStep DEF WipeBase, Wiping
  <2>5. app' = "unlocked" /\ busy' = busy
    BY <1>26, <2>2 DEF WipeBase
  <2>6. QED
    BY <2>1, <2>2, <2>3, <2>4, <2>5 DEF Sealed, Shut, Open, Sealing, BusyOK, Late
<1>27. ASSUME NEW i \in Slots, WipeVault(i)
      PROVE  Sealed'
  <2>1. app \in {"locked", "unlocked"} /\ busy = NotBusy /\ ~base.exists
    BY <1>27 DEF WipeVault, Alive, Types, Spoil
  <2>2. Wiping' /\ vault'.holds = Empty
    BY <1>27, JobsType, GoesStep, NothingType DEF WipeVault, Wiping
  <2>3. app = "locked" => saved = Empty
    <3>1. ~NoTasks
      BY <1>27, HasTask DEF WipeVault
    <3>2. QED
      BY <2>1, <3>1, StoreParts DEF Settled, Sealed, Shut, Stores, NotBusy, Running
  <2>4. QED
    BY <1>27, <2>1, <2>2, <2>3 DEF WipeVault, Sealed, Shut, Open, Sealing, NotBusy, Running
<1>28. ASSUME NEW i \in Slots, WipeAllFinished(i)
      PROVE  Sealed'
  <2>1. app \in {"locked", "unlocked"} /\ busy = NotBusy /\ ~base.exists
    BY <1>28 DEF WipeAllFinished, Ready, Spoil
  <2>2. vault.holds = Empty
    BY <1>28, <2>1, StoreParts DEF WipeAllFinished, Settled, Stores, NotBusy, Running
  <2>3. saved = Empty
    BY <2>1, <2>2, StoreParts DEF Sealed, Shut, Open, Sealing, Stores, NotBusy, Running
  <2>4. QED
    BY <1>28, <2>1, <2>2, <2>3
       DEF WipeAllFinished, Sealed, Shut, Open, Sealing, files, NotBusy, Running
<1>29. ASSUME NEW i \in Slots, BackupImportPathChosen(i)
      PROVE  Sealed'
  <2>1. ~Late
    BY <1>29 DEF BackupImportPathChosen, SpoilIfLate, Spoil
  <2>2. app = "unlocked"
    BY <1>29, <2>1 DEF BackupImportPathChosen, Ready, Late, Settled, NoTasks
  <2>3. base'.holds = saved'
    BY <1>29, <2>1, <2>2, LaidOutStore
       DEF BackupImportPathChosen, Stores, Sealed, Open, Late, BusyOK
  <2>4. base'.exists
    BY <1>29, LaidOutStore DEF BackupImportPathChosen, Stores
  <2>5. app' = "unlocked" /\ busy' = busy
    BY <1>29, <2>2 DEF BackupImportPathChosen
  <2>6. QED
    BY <2>1, <2>2, <2>3, <2>4, <2>5 DEF Sealed, Shut, Open, Sealing, BusyOK, Late
<1>30. ASSUME NEW i \in Slots, ReplaceConfirmed(i)
      PROVE  Sealed'
  <2>1. Wiping => Wiping'
    <3>1. jobs[i].at \notin {"wipeVault", "wiped"}
      BY <1>30, JobsType, BeginsStep DEF ReplaceConfirmed
    <3>2. \A k \in Slots : k # i => jobs'[k] = jobs[k]
      BY <1>30, JobsType, BeginsStep DEF ReplaceConfirmed
    <3>3. QED
      BY <3>1, <3>2, WipingStays
  <2>2. app # "leaving"
    BY <1>30 DEF ReplaceConfirmed, Ready
  <2>3. QED
    BY <1>30, <2>1, <2>2 DEF ReplaceConfirmed, Sealed, Shut, Open, Sealing, files, history
<1>31. ASSUME NEW i \in Slots, ClearContacts(i)
      PROVE  Sealed'
  <2>1. ~Late
    BY <1>31 DEF ClearContacts, SpoilIfLate, Spoil
  <2>2. app = "unlocked"
    BY <1>31, <2>1, JobsType, TaskMeetsOpen DEF ClearContacts, Alive
  <2>3. base'.holds = saved'
    BY <1>31, <2>1, <2>2 DEF ClearContacts, Sealed, Open, Late
  <2>4. base'.exists
    BY <1>31 DEF ClearContacts
  <2>5. app' = "unlocked" /\ busy' = busy
    BY <1>31, <2>2 DEF ClearContacts
  <2>6. QED
    BY <2>1, <2>2, <2>3, <2>4, <2>5 DEF Sealed, Shut, Open, Sealing, BusyOK, Late
<1>32. ASSUME NEW i \in Slots, ClearVault(i)
      PROVE  Sealed'
  <2>1. ~Late
    BY <1>32 DEF ClearVault, SpoilIfLate, Spoil
  <2>2. app = "unlocked"
    BY <1>32, <2>1, JobsType, TaskMeetsOpen DEF ClearVault, Alive
  <2>3. base'.holds = saved'
    BY <1>32, <2>1, <2>2, LaidOutStore DEF ClearVault, Stores, Sealed, Open, Late, BusyOK
  <2>4. base'.exists
    BY <1>32, LaidOutStore DEF ClearVault, Stores
  <2>5. app' = "unlocked" /\ busy' = busy
    BY <1>32, <2>2 DEF ClearVault
  <2>6. QED
    BY <2>1, <2>2, <2>3, <2>4, <2>5 DEF Sealed, Shut, Open, Sealing, BusyOK, Late
<1>33. ASSUME NEW i \in Slots, CheckTarget(i)
      PROVE  Sealed'
  <2>1. ~Late
    BY <1>33 DEF CheckTarget, SpoilIfLate, Spoil
  <2>2. app = "unlocked"
    BY <1>33, <2>1, JobsType, TaskMeetsOpen DEF CheckTarget, Alive
  <2>3. base'.holds = saved'
    BY <1>33, <2>1, <2>2, LaidOutStore DEF CheckTarget, Stores, Sealed, Open, Late, BusyOK
  <2>4. base'.exists
    BY <1>33, LaidOutStore DEF CheckTarget, Stores
  <2>5. app' = "unlocked" /\ busy' = busy
    BY <1>33, <2>2 DEF CheckTarget
  <2>6. QED
    BY <2>1, <2>2, <2>3, <2>4, <2>5 DEF Sealed, Shut, Open, Sealing, BusyOK, Late
<1>34. ASSUME NEW i \in Slots, CheckContact(i)
      PROVE  Sealed'
  <2>1. Wiping => Wiping'
    <3>1. jobs[i].at \notin {"wipeVault", "wiped"}
      BY <1>34, JobsType DEF CheckContact
    <3>2. \A k \in Slots : k # i => jobs'[k] = jobs[k]
      BY <1>34, JobsType, GoesStep DEF CheckContact, Types
    <3>3. QED
      BY <3>1, <3>2, WipingStays
  <2>2. jobs' # NoJobs
    BY <1>34, JobsType, GoesStep DEF CheckContact, Types
  <2>3. QED
    BY <1>34, <2>1, <2>2 DEF CheckContact, Sealed, Shut, Open, Sealing, files, history
<1>35. ASSUME NEW i \in Slots, ProfileReplaceConfirmed(i)
      PROVE  Sealed'
  <2>1. Wiping => Wiping'
    <3>1. jobs[i].at \notin {"wipeVault", "wiped"}
      BY <1>35, JobsType, BeginsStep DEF ProfileReplaceConfirmed, Types
    <3>2. \A k \in Slots : k # i => jobs'[k] = jobs[k]
      BY <1>35, JobsType, BeginsStep DEF ProfileReplaceConfirmed, Types
    <3>3. QED
      BY <3>1, <3>2, WipingStays
  <2>2. app # "leaving"
    BY <1>35 DEF ProfileReplaceConfirmed, Ready
  <2>3. QED
    BY <1>35, <2>1, <2>2
       DEF ProfileReplaceConfirmed, Sealed, Shut, Open, Sealing, files, history
<1>36. ASSUME NEW i \in Slots, ImportFinished(i)
      PROVE  Sealed'
  <2>1. ~Late
    BY <1>36 DEF ImportFinished, SpoilIfLate, Spoil
  <2>2. app = "unlocked"
    BY <1>36, <2>1, JobsType, TaskMeetsOpen DEF ImportFinished, Alive, Ready
  <2>3. base'.holds = saved'
    BY <1>36, <2>1, <2>2, LaidOutStore
       DEF ImportFinished, Stores, Sealed, Open, Late, BusyOK
  <2>4. base'.exists
    BY <1>36, LaidOutStore DEF ImportFinished, Stores
  <2>5. app' = "unlocked" /\ busy' = busy
    BY <1>36, <2>2 DEF ImportFinished
  <2>6. QED
    BY <2>1, <2>2, <2>3, <2>4, <2>5 DEF Sealed, Shut, Open, Sealing, BusyOK, Late
<1>37. ASSUME NEW i \in Slots, ImportLoadFails(i)
      PROVE  Sealed'
  <2>1. QED
    BY <1>37 DEF ImportLoadFails, Spoil
<1>38. ASSUME NEW i \in Slots, JobFails(i)
      PROVE  Sealed'
  <2>1. Wiping => Wiping'
    <3>1. jobs[i].at \notin {"wipeVault", "wiped"}
      BY <1>38, JobsType DEF JobFails, Spoil
    <3>2. \A k \in Slots : k # i => jobs'[k] = jobs[k]
      BY <1>38, JobsType, EndsStep DEF JobFails
    <3>3. QED
      BY <3>1, <3>2, WipingStays
  <2>2. app # "leaving"
    BY <1>38 DEF JobFails, Ready
  <2>3. QED
    BY <1>38, <2>1, <2>2 DEF JobFails, Sealed, Shut, Open, Sealing, files
<1>39. ASSUME NEW i \in Slots, NEW n \in Names, ProfileBackupImportScanned(i, n)
      PROVE  Sealed'
  <2>1. Wiping => Wiping'
    <3>1. CASE UNCHANGED jobs
      BY <3>1 DEF Wiping
    <3>2. CASE ~UNCHANGED jobs
      <4>1. jobs[i].at = "idle" /\ \A k \in Slots : k # i => jobs'[k] = jobs[k]
        BY <1>39, <3>2, JobsType, BeginsStep DEF ProfileBackupImportScanned
      <4>2. QED
        BY <4>1, WipingStays
    <3>3. QED
      BY <3>1, <3>2
  <2>2. app # "leaving"
    BY <1>39 DEF ProfileBackupImportScanned, Ready
  <2>3. QED
    BY <1>39, <2>1, <2>2
       DEF ProfileBackupImportScanned, Sealed, Shut, Open, Sealing, files, history
<1>40. ASSUME NEW i \in Slots, NEW n \in Names, DeleteReplaced(i, n)
      PROVE  Sealed'
  <2>1. ~Late
    BY <1>40 DEF DeleteReplaced, SpoilIfLate, Spoil
  <2>2. app = "unlocked"
    BY <1>40, <2>1, JobsType, TaskMeetsOpen DEF DeleteReplaced, Alive
  <2>3. base'.exists /\ base'.holds = [base.holds EXCEPT ![n] = Absent]
    BY <1>40, <2>1, PutStore, NothingType DEF DeleteReplaced, Stores, Places, Late
  <2>4. base'.holds = saved'
    BY <1>40, <2>1, <2>2, <2>3 DEF DeleteReplaced, Sealed, Open, Late
  <2>5. app' = "unlocked" /\ busy' = busy
    BY <1>40, <2>2 DEF DeleteReplaced
  <2>6. QED
    BY <2>1, <2>2, <2>3, <2>4, <2>5 DEF Sealed, Shut, Open, Sealing, BusyOK, Late
<1>41. ASSUME NEW i \in Slots, NEW n \in Names, InstallProfile(i, n)
      PROVE  Sealed'
  <2>1. ~Late
    BY <1>41 DEF InstallProfile, SpoilIfLate, Spoil
  <2>2. app = "unlocked"
    BY <1>41, <2>1, JobsType, TaskMeetsOpen DEF InstallProfile, Alive
  <2>3. base'.exists /\ base'.holds = [base.holds EXCEPT ![n] = Imported]
    BY <1>41, <2>1, PutStore, NothingType DEF InstallProfile, Stores, Places, Late
  <2>4. base'.holds = saved'
    BY <1>41, <2>1, <2>2, <2>3 DEF InstallProfile, Sealed, Open, Late
  <2>5. app' = "unlocked" /\ busy' = busy
    BY <1>41, <2>2 DEF InstallProfile
  <2>6. QED
    BY <2>1, <2>2, <2>3, <2>4, <2>5 DEF Sealed, Shut, Open, Sealing, BusyOK, Late
<1>42. QED
  BY <1>1, <1>2, <1>3, <1>4, <1>5, <1>6, <1>7, <1>8, <1>9, <1>10, <1>11, <1>12, <1>13,
     <1>14, <1>15, <1>16, <1>17, <1>18, <1>19, <1>20, <1>21, <1>22, <1>23, <1>24,
     <1>25, <1>26, <1>27, <1>28, <1>29, <1>30, <1>31, <1>32, <1>33, <1>34, <1>35,
     <1>36, <1>37, <1>38, <1>39, <1>40, <1>41
     DEF Next, Gate, ContactSteps, TaskSteps

LEMMA SealedInit == Init => ISealed
PROOF
<1> SUFFICES ASSUME Init PROVE ISealed
  OBVIOUS
<1>1. Sealed
  BY NothingType DEF Init, Sealed, Shut, Open, Sealing, NotBusy, Running
<1>2. QED
  BY <1>1, InitInv DEF ISealed

LEMMA SealedInv == ISealed /\ [Next]_vars => ISealed'
PROOF
<1> SUFFICES ASSUME ISealed, [Next]_vars PROVE ISealed'
  OBVIOUS
<1>1. IInv /\ IInv' /\ (spoiled = {} => Sealed)
  BY StepInv DEF ISealed
<1>2. Types /\ Stores(base, vault, tmp) /\ BusyOK
  BY <1>1, TypeIsTypes DEF IInv
<1>3. ASSUME spoiled' = {} PROVE Sealed'
  <2>1. spoiled = {}
    BY <1>3, SpoilStays
  <2>2. CASE Next
    <3>1. Settled
      BY <1>1, <2>1 DEF IInv, Unspoiled
    <3>2. QED
      BY <1>1, <1>2, <1>3, <2>1, <2>2, <3>1, SealedStep
  <2>3. CASE UNCHANGED vars
    BY <1>1, <2>1, <2>3 DEF vars, tasks, files, history, Sealed, Shut, Open, Sealing, Wiping
  <2>4. QED
    BY <2>2, <2>3
<1>4. QED
  BY <1>1, <1>3 DEF ISealed

(* If the program stops and nothing went wrong in any of its lives, no     *)
(* plaintext is left, and the vault holds each contact as it was saved     *)
(* last and none that was deleted, whatever tasks ran and followed each    *)
(* other.  (An exit without a passphrase comes after an import that met    *)
(* the storage of a wipe, which counts as gone wrong.)                     *)
THEOREM ExitLeavesSealed == Spec => []CleanExitSealed
PROOF
<1>1. ISealed => CleanExitSealed
  BY DEF ISealed, Sealed, Shut, CleanExitSealed
<1>2. QED
  BY <1>1, SealedInit, SealedInv, PTL DEF Spec
=============================================================================
