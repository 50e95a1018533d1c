---------------------------- MODULE StorageVault ----------------------------
(***************************************************************************)
(* The storage of the program: the plaintext directory while it runs, the  *)
(* encrypted vault file while it does not, the start gate, the shutdown,   *)
(* the operations on contacts, and the wipe and import tasks that run next *)
(* to them.  A step is one change of the file system or one message that   *)
(* the program handles; the process may stop after any of them, or the     *)
(* file system refuse one.                                                 *)
(*                                                                         *)
(* A contact's files are one version: every save makes a new one.  The     *)
(* directory exists when it has entries, which is what the gate asks.  A   *)
(* wrong passphrase changes nothing and is left out, and so are the files  *)
(* of groups, received files and settings, which are in the same places.   *)
(***************************************************************************)
EXTENDS Integers, FiniteSets

CONSTANTS
  Names,        \* names of contacts
  BackupNames,  \* contacts in the backup files
  Slots,        \* bound: wipe and import tasks that run at the same time
  MaxSaves,     \* bound: versions that the user's changes make
  MaxFaults     \* bound: crashes and refused file operations

Staging == ".contact-rename"     \* where a contact is while it is renamed
Places == Names \cup {Staging}
Absent == 0
Imported == MaxSaves + 1         \* the version that the backup files hold
Versions == 0..Imported

ASSUME StorageAssumption ==
  /\ Staging \notin Names /\ BackupNames \subseteq Names
  /\ MaxSaves \in Nat /\ MaxFaults \in Nat

VARIABLES
  app,       \* the process and its gate
  phrase,    \* unlock_input is a passphrase, not empty
  closing,   \* the exit message is on its way
  busy,      \* the file operation that the update function is in
  jobs,      \* the wipe and import tasks
  op,        \* backup_operation, with the contact that a question is about
  dialogs,   \* the file dialogs that are open
  known,     \* contacts in the sidebar
  base,      \* the plaintext directory
  vault,     \* the vault file
  tmp,       \* the file that becomes the vault
  saves, faults,
  saved,     \* history: what the user relies on, each version at its place
  spoiled    \* history: what went wrong on the way, see Spoil

tasks == <<jobs, op, dialogs>>
files == <<base, vault, tmp>>
history == <<saved, spoiled>>
vars == <<app, phrase, closing, busy, tasks, known, files, saves, faults, history>>

Empty == [p \in Places |-> Absent]
Nothing == [exists |-> FALSE, holds |-> Empty]
Store == [exists : BOOLEAN, holds : [Places -> Versions]]
Held(s) == {s.holds[p] : p \in Places}
PutUnlaid(s, p, v) == [s EXCEPT !.holds = [s.holds EXCEPT ![p] = v]]
                                             \* mutant: no directory is made
Put(s, p, v) == [exists |-> TRUE, holds |-> [s.holds EXCEPT ![p] = v]]
LaidOut(s) == [exists |-> TRUE, holds |-> s.holds]
Move(f, n, m) == [f EXCEPT ![m] = f[n], ![n] = Absent]
Contacts(s) == {n \in Names : s.holds[n] # Absent}

Running(what, from, to) == [at |-> what, from |-> from, to |-> to]
NotBusy == Running("no", Staging, Staging)
Task(what, todo) == [at |-> what, todo |-> todo]
Idle == Task("idle", {})
Busy == Task("busy", {})
NoJobs == [i \in Slots |-> Idle]

Init ==
  /\ app = "off" /\ phrase = FALSE /\ closing = FALSE /\ busy = NotBusy
  /\ jobs = NoJobs /\ op = Idle /\ dialogs = {}
  /\ known = {} /\ base = Nothing /\ vault = Nothing /\ tmp = Nothing
  /\ saves = 0 /\ faults = 0
  /\ saved = Empty /\ spoiled = {}

(* What a property has to excuse:                                          *)
(*   overlap  a task or a late result met another storage than the one it  *)
(*            was started for: one that is absent, being encrypted or laid *)
(*            out since, or the exit cut a task off                        *)
(*   torn     the plaintext could not be removed as a whole                *)
(*   crash    the process died and left plaintext or half a task behind    *)
(*   failed   some other operation on several files ended half way         *)
Spoil(why) == spoiled' = spoiled \cup {why}
Late == app = "leaving" \/ busy.at \in {"archived", "removing"} \/ ~base.exists
SpoilIfLate == IF Late THEN Spoil("overlap") ELSE UNCHANGED spoiled

Fault == faults < MaxFaults /\ faults' = faults + 1
Ready == app \in {"locked", "unlocked"} /\ busy = NotBusy

-----------------------------------------------------------------------------
(* Start, unlock, shutdown *)

(* The lock on the application is taken, the gate is shut. *)
Start ==
  /\ app = "off"
  /\ app' = "locked"
  /\ UNCHANGED <<phrase, closing, busy, tasks, known, files, saves, faults, history>>

UnlockInputChanged ==
  /\ Ready /\ app = "locked"
  /\ phrase' = ~phrase
  /\ UNCHANGED <<app, closing, busy, tasks, known, files, saves, faults, history>>

(* No plaintext: the vault is opened, or a first storage laid out.  With   *)
(* plaintext either is refused.                                            *)
OpensAnyway == vault.exists \/ ~base.exists   \* mutant: plaintext is not looked for
Opens == ~base.exists
UnlockPressed ==
  /\ Ready /\ app = "locked" /\ phrase /\ Opens
  /\ base' = [exists |-> TRUE, holds |-> Empty]
  /\ IF vault.exists
     THEN busy' = Running("extracting", Staging, Staging) /\ UNCHANGED <<app, known>>
     ELSE app' = "unlocked" /\ known' = {} /\ UNCHANGED busy
  /\ UNCHANGED <<phrase, closing, tasks, vault, tmp, saves, faults, history>>

Extract(p) ==
  /\ busy.at = "extracting" /\ base.holds[p] # vault.holds[p]
  /\ base' = Put(base, p, vault.holds[p])
  /\ UNCHANGED <<app, phrase, closing, busy, tasks, known, vault, tmp, saves, faults,
                 history>>

Unlocked ==
  /\ busy.at = "extracting" /\ base.holds = vault.holds
  /\ app' = "unlocked" /\ busy' = NotBusy /\ known' = Contacts(base)
  /\ UNCHANGED <<phrase, closing, tasks, files, saves, faults, history>>

(* A file cannot be written, or the contacts cannot be loaded afterwards. *)
UnlockFails ==
  /\ busy.at = "extracting" /\ Fault
  /\ busy' = NotBusy /\ Spoil("failed")
  /\ UNCHANGED <<app, phrase, closing, tasks, known, files, saves, saved>>

CloseRequested ==
  /\ Ready /\ ~closing
  /\ closing' = TRUE
  /\ UNCHANGED <<app, phrase, busy, tasks, known, files, saves, faults, history>>

(* The grace of the shutdown is over: an open storage is archived into the *)
(* temporary file.  A gate that is shut, no passphrase (after an import    *)
(* that outlived a wipe) or no plaintext: just exit.                       *)
ExitAfterNotify ==
  /\ Ready /\ closing
  /\ IF app = "unlocked" /\ phrase /\ base.exists
     THEN /\ tmp' = base /\ busy' = Running("archived", Staging, Staging)
          /\ UNCHANGED <<app, phrase>>
     ELSE /\ app' = "leaving" /\ phrase' = (app = "locked" /\ phrase)
          /\ UNCHANGED <<tmp, busy>>
  /\ UNCHANGED <<closing, tasks, known, base, vault, saves, faults, history>>

ReplaceVault ==
  /\ busy.at = "archived"
  /\ vault' = tmp /\ tmp' = Nothing /\ busy' = Running("removing", Staging, Staging)
  /\ UNCHANGED <<app, phrase, closing, tasks, known, base, saves, faults, history>>

Remove(p) ==
  /\ busy.at = "removing" /\ base.holds[p] # Absent
  /\ base' = Put(base, p, Absent)
  /\ UNCHANGED <<app, phrase, closing, busy, tasks, known, vault, tmp, saves, faults,
                 history>>

Encrypted ==
  /\ busy.at = "removing" /\ base.holds = Empty
  /\ base' = Nothing /\ busy' = NotBusy /\ app' = "leaving" /\ phrase' = FALSE
  /\ UNCHANGED <<closing, tasks, known, vault, tmp, saves, faults, history>>

EncryptFailsAndExits ==                      \* mutant: the error is ignored
  /\ busy.at \in {"archived", "removing"} /\ Fault
  /\ busy' = NotBusy /\ app' = "leaving"
  /\ IF busy.at = "removing" THEN Spoil("torn") ELSE UNCHANGED spoiled
  /\ UNCHANGED <<phrase, closing, tasks, known, files, saves, saved>>
(* The application is not closed; the user may go on or try again. *)
EncryptFails ==
  /\ busy.at \in {"archived", "removing"} /\ Fault
  /\ busy' = NotBusy /\ closing' = FALSE
  /\ IF busy.at = "removing" THEN Spoil("torn") ELSE UNCHANGED spoiled
  /\ UNCHANGED <<app, phrase, tasks, known, files, saves, saved>>

Stopped ==
  /\ app' = "off" /\ phrase' = FALSE /\ closing' = FALSE /\ busy' = NotBusy
  /\ jobs' = NoJobs /\ op' = Idle /\ dialogs' = {} /\ known' = {}
Exit ==
  /\ app = "leaving"
  /\ Stopped
  /\ IF jobs = NoJobs THEN UNCHANGED spoiled ELSE Spoil("overlap")
  /\ UNCHANGED <<files, saves, faults, saved>>

Crash ==
  /\ app # "off" /\ Fault
  /\ Stopped
  /\ IF base.exists \/ jobs # NoJobs THEN Spoil("crash") ELSE UNCHANGED spoiled
  /\ UNCHANGED <<files, saves, saved>>

-----------------------------------------------------------------------------
(* Contacts *)

Saves(n) ==
  /\ saves < MaxSaves /\ saves' = saves + 1
  /\ base' = Put(base, n, saves + 1)
  /\ saved' = [saved EXCEPT ![n] = saves + 1]
  /\ SpoilIfLate

CreateContact(n) ==
  /\ Ready /\ app = "unlocked" /\ n \notin known /\ base.holds[n] = Absent
  /\ Saves(n) /\ known' = known \cup {n}
  /\ UNCHANGED <<app, phrase, closing, busy, tasks, vault, tmp, faults>>

(* A tab or a task's result saves, also when the storage was encrypted and *)
(* the exit is only on its way.                                            *)
SaveContact(n) ==
  /\ app \in {"unlocked", "leaving"} /\ busy = NotBusy /\ n \in known
  /\ Saves(n)
  /\ UNCHANGED <<app, phrase, closing, busy, tasks, known, vault, tmp, faults>>

DeleteContact(n) ==
  /\ Ready /\ app = "unlocked" /\ n \in known /\ base.exists
  /\ base' = Put(base, n, Absent)
  /\ saved' = [saved EXCEPT ![n] = Absent] /\ known' = known \ {n}
  /\ UNCHANGED <<app, phrase, closing, busy, tasks, vault, tmp, saves, faults, spoiled>>

(* Everything but the contact's own keys is given up. *)
ResetContact(n) ==
  /\ Ready /\ app = "unlocked" /\ n \in known /\ base.holds[n] # Absent
  /\ saves < MaxSaves
  /\ base' = Put(base, n, Absent) /\ busy' = Running("resetting", n, n)
  /\ saved' = [saved EXCEPT ![n] = Absent]
  /\ UNCHANGED <<app, phrase, closing, tasks, known, vault, tmp, saves, faults, spoiled>>
ResetEnds ==
  /\ busy.at = "resetting" /\ busy' = NotBusy
  /\ \/ /\ Saves(busy.from) /\ UNCHANGED faults
     \/ /\ Fault /\ Spoil("failed") /\ UNCHANGED <<base, saves, saved>>
  /\ UNCHANGED <<app, phrase, closing, tasks, known, vault, tmp>>

(* The directory goes to the staging name, gets its new metadata there, and *)
(* goes to the new name; a failure moves it back, which may fail as well.   *)
RenameContact(n, m) ==
  /\ Ready /\ app = "unlocked" /\ n \in known /\ m \notin known
  /\ base.holds[n] # Absent /\ base.holds[m] = Absent /\ base.holds[Staging] = Absent
  /\ base' = [base EXCEPT !.holds = Move(base.holds, n, Staging)]
  /\ saved' = Move(saved, n, Staging)
  /\ busy' = Running("renaming", n, m)
  /\ UNCHANGED <<app, phrase, closing, tasks, known, vault, tmp, saves, faults, spoiled>>

(* A task may have taken the name, or the directory, in the meantime. *)
CanMove(n) == base.holds[Staging] # Absent /\ base.holds[n] = Absent
MoveTo(n) ==
  /\ CanMove(n)
  /\ base' = [base EXCEPT !.holds = Move(base.holds, Staging, n)]
  /\ saved' = Move(saved, Staging, n)
RenameEnds ==
  /\ busy.at = "renaming" /\ busy' = NotBusy
  /\ MoveTo(busy.to)
  /\ known' = (known \ {busy.from}) \cup {busy.to}
  /\ UNCHANGED <<app, phrase, closing, tasks, vault, tmp, saves, faults, spoiled>>
RenameFails ==
  /\ busy.at = "renaming" /\ busy' = NotBusy
  /\ IF CanMove(busy.to) THEN Fault ELSE UNCHANGED faults
  /\ \/ MoveTo(busy.from) /\ UNCHANGED spoiled
     \/ UNCHANGED <<base, saved>> /\ Spoil("failed")
  /\ UNCHANGED <<app, phrase, closing, tasks, known, vault, tmp, saves>>

-----------------------------------------------------------------------------
(* The wipe and import tasks, which run beside the update function, and    *)
(* beside each other: only the presses ask backup_operation, and a file    *)
(* dialog may have been open since before.                                 *)

Alive == app # "off"
Begins(i, task) == jobs[i] = Idle /\ jobs' = [jobs EXCEPT ![i] = task]
Goes(i, task) == jobs' = [jobs EXCEPT ![i] = task]
Ends(i) == jobs' = [jobs EXCEPT ![i] = Idle] /\ op' = Idle

WipeConfirmed(i) ==
  /\ Ready /\ app = "unlocked" /\ op = Idle
  /\ Begins(i, Task("wipe", {})) /\ op' = Busy
  /\ UNCHANGED <<app, phrase, closing, busy, dialogs, known, files, saves, faults, history>>

WipeBase(i) ==
  /\ jobs[i].at = "wipe" /\ Alive
  /\ base' = Nothing /\ saved' = Empty
  /\ Goes(i, Task("wipeVault", {})) /\ SpoilIfLate
  /\ UNCHANGED <<app, phrase, closing, busy, op, dialogs, known, vault, tmp, saves, faults>>

WipeVault(i) ==
  /\ jobs[i].at = "wipeVault" /\ Alive
  /\ vault' = Nothing /\ tmp' = Nothing
  /\ Goes(i, Task("wiped", {}))
  /\ IF app = "leaving" \/ busy # NotBusy \/ base.exists
     THEN Spoil("overlap") ELSE UNCHANGED spoiled
  /\ UNCHANGED <<app, phrase, closing, busy, op, dialogs, known, base, saves, faults, saved>>

(* The gate is shut again: a new passphrase starts a new storage. *)
WipeAllFinished(i) ==
  /\ Ready /\ jobs[i].at = "wiped"
  /\ app' = "locked" /\ phrase' = FALSE /\ known' = {} /\ Ends(i)
  /\ IF base.exists THEN Spoil("overlap") ELSE UNCHANGED spoiled
  /\ UNCHANGED <<closing, busy, dialogs, files, saves, faults, saved>>

(* One dialog of a kind: what a cancelled one leaves open, the next press  *)
(* would open.                                                             *)
ImportPressed(kind) ==
  /\ Ready /\ app = "unlocked" /\ op = Idle /\ kind \notin dialogs
  /\ dialogs' = dialogs \cup {kind}
  /\ UNCHANGED <<app, phrase, closing, busy, jobs, op, known, files, saves, faults, history>>

(* The search for conflicts lays the directory out, behind a shut gate too, *)
(* where the passphrase of the backup is unlock_input.                      *)
BackupImportPathChosen(i) ==
  LET valid == app = "unlocked" \/ phrase IN
  /\ Ready /\ "full" \in dialogs
  /\ dialogs' = dialogs \ {"full"}
  /\ base' = LaidOut(base)
  /\ IF vault.exists \/ Contacts(base) # {}
     THEN op' = Task(IF valid THEN "confirm" ELSE "confirmInvalid", {}) /\ UNCHANGED jobs
     ELSE op' = Busy /\ Begins(i, Task(IF valid THEN "checkAll" ELSE "invalid", {}))
  /\ SpoilIfLate
  /\ UNCHANGED <<app, phrase, closing, busy, known, vault, tmp, saves, faults, saved>>

ReplaceCancelled ==
  /\ Ready /\ op.at \in {"confirm", "confirmInvalid", "confirmContact"}
  /\ op.at = "confirmContact" => app = "unlocked"
  /\ op' = Idle
  /\ UNCHANGED <<app, phrase, closing, busy, jobs, dialogs, known, files, saves, faults,
                 history>>

ReplaceConfirmed(i) ==
  /\ Ready /\ op.at \in {"confirm", "confirmInvalid"}
  /\ Begins(i, Task(IF op.at = "confirm" THEN "clear" ELSE "invalid", {})) /\ op' = Busy
  /\ UNCHANGED <<app, phrase, closing, busy, dialogs, known, files, saves, faults, history>>

(* The backup could be read: it takes the place of what is there. *)
ClearContacts(i) ==
  /\ jobs[i].at = "clear" /\ Alive
  /\ base' = [exists |-> TRUE, holds |-> [Empty EXCEPT ![Staging] = base.holds[Staging]]]
  /\ saved' = [Empty EXCEPT ![Staging] = saved[Staging]]
  /\ Goes(i, Task("clearVault", {})) /\ SpoilIfLate
  /\ UNCHANGED <<app, phrase, closing, busy, op, dialogs, known, vault, tmp, saves, faults>>

ClearVault(i) ==
  /\ jobs[i].at = "clearVault" /\ Alive
  /\ vault' = Nothing /\ base' = LaidOut(base)
  /\ Goes(i, Task("installAll", BackupNames)) /\ SpoilIfLate
  /\ UNCHANGED <<app, phrase, closing, busy, op, dialogs, known, tmp, saves, faults, saved>>

(* The task looks again whether there is something in its way. *)
CheckTarget(i) ==
  /\ jobs[i].at = "checkAll" /\ Contacts(base) = {} /\ Alive
  /\ base' = LaidOut(base)
  /\ Goes(i, Task("installAll", BackupNames)) /\ SpoilIfLate
  /\ UNCHANGED <<app, phrase, closing, busy, op, dialogs, known, vault, tmp, saves, faults,
                 saved>>

CheckContact(i) ==
  /\ jobs[i].at = "check" /\ Alive
  /\ \A n \in jobs[i].todo : base.holds[n] = Absent
  /\ Goes(i, Task("install", jobs[i].todo))
  /\ UNCHANGED <<app, phrase, closing, busy, op, dialogs, known, files, saves, faults,
                 history>>

(* The backup of one contact, named n, was read.  What was chosen, or      *)
(* ended, meanwhile may have set the operation.                            *)
ProfileBackupImportScanned(i, n) ==
  /\ Ready /\ "contact" \in dialogs /\ n \in BackupNames
  /\ dialogs' = dialogs \ {"contact"}
  /\ IF base.holds[n] # Absent
     THEN op' = Task("confirmContact", {n}) /\ UNCHANGED jobs
     ELSE op' \in {op, Busy} /\ Begins(i, Task("check", {n}))
  /\ UNCHANGED <<app, phrase, closing, busy, known, files, saves, faults, history>>

(* An existing one is deleted first. *)
ProfileReplaceConfirmed(i) ==
  /\ Ready /\ app = "unlocked" /\ op.at = "confirmContact"
  /\ Begins(i, Task("delete", op.todo)) /\ op' = Busy
  /\ UNCHANGED <<app, phrase, closing, busy, dialogs, known, files, saves, faults, history>>

DeleteReplaced(i, n) ==
  /\ jobs[i] = Task("delete", {n}) /\ Alive
  /\ base' = IF base.exists THEN Put(base, n, Absent) ELSE base
  /\ saved' = [saved EXCEPT ![n] = Absent]
  /\ Goes(i, Task("install", {n})) /\ SpoilIfLate
  /\ UNCHANGED <<app, phrase, closing, busy, op, dialogs, known, vault, tmp, saves, faults>>

InstallProfile(i, n) ==
  /\ jobs[i].at \in {"install", "installAll"} /\ n \in jobs[i].todo /\ Alive
  /\ base' = Put(base, n, Imported) /\ saved' = [saved EXCEPT ![n] = Imported]
  /\ Goes(i, Task(jobs[i].at, jobs[i].todo \ {n})) /\ SpoilIfLate
  /\ UNCHANGED <<app, phrase, closing, busy, op, dialogs, known, vault, tmp, saves, faults>>

(* The contacts are loaded, which lays the directory out; a whole backup   *)
(* opens a gate that is shut, with whatever passphrase it has by then.     *)
ImportFinished(i) ==
  /\ Ready /\ jobs[i] \in {Task("install", {}), Task("installAll", {})}
  /\ Ends(i)
  /\ base' = LaidOut(base) /\ known' = Contacts(base)
  /\ app' = IF jobs[i].at = "installAll" THEN "unlocked" ELSE app
  /\ SpoilIfLate
  /\ UNCHANGED <<phrase, closing, busy, dialogs, vault, tmp, saves, faults, saved>>

ImportLoadFails(i) ==
  /\ Ready /\ jobs[i] \in {Task("install", {}), Task("installAll", {})} /\ Fault
  /\ Ends(i) /\ Spoil("failed")
  /\ UNCHANGED <<app, phrase, closing, busy, dialogs, known, files, saves, saved>>

(* A task finds something in its way or no passphrase, or one of its       *)
(* operations is refused: what it did so far stays.                        *)
Refused(i) ==
  \/ jobs[i].at = "invalid"
  \/ jobs[i].at = "checkAll" /\ Contacts(base) # {}
  \/ jobs[i].at = "check" /\ \E n \in jobs[i].todo : base.holds[n] # Absent
JobFails(i) ==
  /\ Ready /\ jobs[i].at \in {"wipe", "wipeVault", "invalid", "checkAll", "clear",
                              "clearVault", "check", "delete", "install", "installAll"}
  /\ IF Refused(i) THEN UNCHANGED faults ELSE Fault
  /\ Ends(i)
  /\ IF jobs[i].at \in {"wipeVault", "clearVault", "install", "installAll"}
     THEN Spoil("failed") ELSE UNCHANGED spoiled
  /\ UNCHANGED <<app, phrase, closing, busy, dialogs, known, files, saves, saved>>

-----------------------------------------------------------------------------
Gate ==
  \/ Start \/ UnlockInputChanged \/ UnlockPressed \/ Unlocked \/ UnlockFails
  \/ CloseRequested \/ ExitAfterNotify \/ ReplaceVault \/ Encrypted \/ EncryptFails
  \/ Exit \/ Crash
  \/ \E p \in Places : Extract(p) \/ Remove(p)

ContactSteps ==
  \/ \E n \in Names : CreateContact(n) \/ SaveContact(n) \/ DeleteContact(n)
                        \/ ResetContact(n)
  \/ \E n, m \in Names : RenameContact(n, m)
  \/ ResetEnds \/ RenameEnds \/ RenameFails

TaskSteps ==
  \/ ReplaceCancelled \/ \E kind \in {"full", "contact"} : ImportPressed(kind)
  \/ \E i \in Slots :
       \/ WipeConfirmed(i) \/ WipeBase(i) \/ WipeVault(i) \/ WipeAllFinished(i)
       \/ BackupImportPathChosen(i) \/ ReplaceConfirmed(i) \/ ClearContacts(i)
       \/ ClearVault(i) \/ CheckTarget(i) \/ CheckContact(i)
       \/ ProfileReplaceConfirmed(i) \/ ImportFinished(i) \/ ImportLoadFails(i)
       \/ JobFails(i)
       \/ \E n \in Names : \/ ProfileBackupImportScanned(i, n) \/ DeleteReplaced(i, n)
                           \/ InstallProfile(i, n)

Next == Gate \/ ContactSteps \/ TaskSteps
Spec == Init /\ [][Next]_vars

-----------------------------------------------------------------------------
(* The variables are of their types, and a directory that is absent is     *)
(* empty.                                                                  *)
TypeOK ==
  /\ app \in {"off", "locked", "unlocked", "leaving"}
  /\ phrase \in BOOLEAN /\ closing \in BOOLEAN
  /\ dialogs \subseteq {"full", "contact"}
  /\ busy \in [at : {"no", "extracting", "archived", "removing", "resetting", "renaming"},
               from : Places, to : Places]
  /\ jobs \in [Slots -> [at : {"idle", "wipe", "wipeVault", "wiped", "invalid", "checkAll",
                               "clear", "clearVault", "check", "delete", "install",
                               "installAll"}, todo : SUBSET Names]]
  /\ op \in [at : {"idle", "busy", "confirm", "confirmInvalid", "confirmContact"},
             todo : SUBSET Names]
  /\ known \subseteq Names
  /\ \A s \in {base, vault, tmp} : s \in Store /\ (~s.exists => s = Nothing)
  /\ saves \in 0..MaxSaves /\ faults \in 0..MaxFaults
  /\ saved \in [Places -> Versions] /\ spoiled \subseteq {"overlap", "torn", "crash", "failed"}

(* However the program stops, in the middle of an unlock, a shutdown or a  *)
(* rename, the last version of every contact that the user did not delete, *)
(* reset or replace is whole in the plaintext directory, in the vault or   *)
(* in the backup files.  (A task that met another storage than its own,    *)
(* and a second encryption after a removal that failed, may lose it.)      *)
Kept(v) == v \in {Absent, Imported} \cup Held(base) \cup Held(vault)
NothingLost == spoiled \cap {"overlap", "torn"} = {} => \A p \in Places : Kept(saved[p])

(* After an exit that went well nothing is left in plaintext, and the      *)
(* vault holds every contact as it was saved last and none that was        *)
(* deleted: the next start is not refused and shows what the last one did. *)
(* Two tasks may follow each other; but where one went on after a wipe had *)
(* removed the storage (overlap), an import opens the gate again without a *)
(* passphrase, and the exit then leaves its plaintext as it is.            *)
CleanExitSealed ==
  app = "off" /\ spoiled = {} => ~base.exists /\ vault.holds = saved

(* README.md: "After successful vault encryption, the plaintext directory  *)
(* is removed."  A result that is handled after the encryption writes it   *)
(* again, and the next start is refused.                                   *)
PlaintextRemoved == app = "off" /\ faults = 0 /\ vault.exists => ~base.exists

=============================================================================
