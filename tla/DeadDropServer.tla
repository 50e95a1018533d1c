--------------------------- MODULE DeadDropServer ---------------------------
(***************************************************************************)
(* One drop of the deaddrop server: the tasks that handle the clients'     *)
(* connections, one await at a time, the blob files and temporary files in *)
(* its storage directory, the hourly garbage collection and the crash of   *)
(* the process.  Connections of one drop share nothing but the directory,  *)
(* the permits and the PUT times.                                          *)
(*                                                                         *)
(* A file is its content and whether it is older than BLOB_TTL_SECONDS.    *)
(* No request lasts that long, so that the temporary file of a running     *)
(* handler is never old.                                                   *)
(***************************************************************************)
EXTENDS Naturals, FiniteSets

CONSTANTS
  Keys, Blobs, Clients,  \* deaddrop keys, blob contents, connections
  NoBlob, NoRequest, NoAnswer, NoEntry,
  MaxActive,             \* MAX_ACTIVE_CLIENTS_PER_DROP
  MaxPuts,               \* MAX_PUTS_PER_WINDOW_PER_DROP
  MaxTemps,              \* bound: temporary files made by one process
  MaxCrashes,            \* bound: crashes and restarts of the server
  IoErrors               \* may looking for, creating, writing or reading a file fail?

ASSUME ServerAssumption ==
  /\ MaxActive \in Nat
  /\ MaxPuts \in Nat
  /\ MaxTemps \in Nat
  /\ MaxCrashes \in Nat
  /\ IoErrors \in BOOLEAN
  /\ NoBlob \notin Blobs
  /\ NoAnswer \notin Blobs \cup {"OK", "EXISTS", "MISS", "ERR"}
  /\ NoRequest \notin [op : {"PUT"}, key : Keys, data : Blobs]
                        \cup [op : {"GET"}, key : Keys]
  /\ NoEntry \notin Keys \X (0 .. MaxTemps)

PutRequest == [op : {"PUT"}, key : Keys, data : Blobs]
GetRequest == [op : {"GET"}, key : Keys]

\* The entries of the storage directory: the path of the blob of k is <<k, 0>>,
\* the temporary file of the n-th write of a process for k is <<k, n>>.
Entries == Keys \X (0 .. MaxTemps)
BlobPath(k) == <<k, 0>>

\* A file that is being written has the content "partial".
File == [data : Blobs \cup {"partial"}, old : BOOLEAN]
NoFile == [data |-> NoBlob, old |-> FALSE]

VARIABLES
  dir,       \* the files of the storage directory
  made,      \* TEMP_COUNTER
  pc,        \* where the handler of each connection is
  req,       \* the command it read
  temp,      \* the number of its temporary file
  answer,    \* the answer it is about to send
  recent,    \* number of drop_put_times within the rate window
  listed,    \* entries the running collection has still to look at
  doomed,    \* the entry it found old and is about to remove
  aged,      \* history: keys under which some blob has ever been old
  unsure,    \* history: requests that may not know of the blob of their key
  acked,     \* history: keys for which a client has read OK
  crashes    \* history: number of crashes

gcVars == <<listed, doomed>>
handlerVars == <<pc, req, temp, answer>>
historyVars == <<aged, acked, unsure, crashes>>
vars == <<dir, made, handlerVars, recent, gcVars, historyVars>>

Exists(e) == dir[e] # NoFile

\* The handlers that hold one of the drop's permits.
Active == {c \in Clients : pc[c] # "none"}

Init ==
  /\ dir = [e \in Entries |-> NoFile]
  /\ made = 0
  /\ pc = [c \in Clients |-> "none"]
  /\ req = [c \in Clients |-> NoRequest]
  /\ temp = [c \in Clients |-> 0]
  /\ answer = [c \in Clients |-> NoAnswer]
  /\ recent = 0
  /\ listed = {}
  /\ doomed = NoEntry
  /\ aged = {}
  /\ unsure = {}
  /\ acked = {}
  /\ crashes = 0

-----------------------------------------------------------------------------
(* Steps of handle_client.                                                 *)

GoTo(c, l) == pc' = [pc EXCEPT ![c] = l]

AnswerWith(c, a) ==
  /\ GoTo(c, "answer")
  /\ answer' = [answer EXCEPT ![c] = a]

\* The connection is shut down and the permit returned.
Close(c) ==
  /\ GoTo(c, "none")
  /\ req' = [req EXCEPT ![c] = NoRequest]
  /\ answer' = [answer EXCEPT ![c] = NoAnswer]
  /\ temp' = [temp EXCEPT ![c] = 0]
  /\ unsure' = unsure \ {c}

\* accept_loop spawns handle_client_limited, which takes a permit.  A connection
\* that gets none is answered ERR and closed, and leaves no trace.
Accept(c) ==
  /\ pc[c] = "none"
  /\ Cardinality(Active) < MaxActive
  /\ GoTo(c, "command")
  /\ UNCHANGED <<dir, made, req, temp, answer, recent, gcVars, historyVars>>

\* An oversized, unknown or malformed command.
RejectCommand(c) ==
  /\ pc[c] = "command"
  /\ Close(c)
  /\ UNCHANGED <<dir, made, recent, gcVars, aged, acked, crashes>>

PutCommand(c) ==
  /\ pc[c] = "command"
  /\ \E r \in PutRequest : req' = [req EXCEPT ![c] = r]
  /\ GoTo(c, "admit")
  /\ UNCHANGED <<dir, made, temp, answer, recent, gcVars, historyVars>>

\* Faulty variant: the limit is compared one PUT too late.
AdmitOneMore(c) ==
  /\ pc[c] = "admit"
  /\ IF recent > MaxPuts
     THEN AnswerWith(c, "ERR") /\ UNCHANGED recent
     ELSE GoTo(c, "data") /\ recent' = recent + 1 /\ UNCHANGED answer
  /\ UNCHANGED <<dir, made, req, temp, gcVars, historyVars>>

\* allow_put counts the PUT before its data and proof of work are read.
Admit(c) ==
  /\ pc[c] = "admit"
  /\ IF recent >= MaxPuts
     THEN AnswerWith(c, "ERR") /\ UNCHANGED recent
     ELSE GoTo(c, "data") /\ recent' = recent + 1 /\ UNCHANGED answer
  /\ UNCHANGED <<dir, made, req, temp, gcVars, historyVars>>

PutData(c) ==
  /\ pc[c] = "data"
  /\ \/ GoTo(c, "check") /\ UNCHANGED answer
     \/ AnswerWith(c, "ERR")   \* verify_put_pow fails
  /\ UNCHANGED <<dir, made, req, temp, recent, gcVars, historyVars>>

\* Faulty variant: the file is not looked for before it is written.
PutCheckMissing(c) ==
  /\ pc[c] = "check"
  /\ GoTo(c, "create")
  /\ UNCHANGED <<dir, made, req, temp, answer, recent, gcVars, historyVars>>

\* fs::metadata(path).is_ok(), whatever the age of the file.  An error of any
\* kind counts as no file.
PutCheck(c) ==
  /\ pc[c] = "check"
  /\ \/ /\ Exists(BlobPath(req[c].key))
        /\ AnswerWith(c, "EXISTS")
        /\ UNCHANGED unsure
     \/ /\ Exists(BlobPath(req[c].key)) => IoErrors
        /\ GoTo(c, "create")
        /\ unsure' = IF Exists(BlobPath(req[c].key)) THEN unsure \cup {c} ELSE unsure
        /\ UNCHANGED answer
  /\ UNCHANGED <<dir, made, req, temp, recent, gcVars, aged, acked, crashes>>

\* atomic_write_blob draws a number and creates the file of that name, which
\* must be new.
CreateTemp(c) ==
  /\ pc[c] = "create"
  /\ made < MaxTemps
  /\ made' = made + 1
  /\ ~Exists(<<req[c].key, made'>>)
  /\ dir' = [dir EXCEPT ![<<req[c].key, made'>>] = [data |-> "partial", old |-> FALSE]]
  /\ temp' = [temp EXCEPT ![c] = made']
  /\ GoTo(c, "write")
  /\ UNCHANGED <<req, answer, recent, gcVars, historyVars>>

\* The name carries the process id, which a restarted server may have again: a
\* file of that name may be there.  An error removes the file of that name.
\* At the bound of MaxTemps the file cannot be created either.
CreateTempFails(c) ==
  /\ pc[c] = "create"
  /\ \/ /\ made < MaxTemps
        /\ made' = made + 1
        /\ Exists(<<req[c].key, made'>>) \/ IoErrors
        /\ dir' = [dir EXCEPT ![<<req[c].key, made'>>] = NoFile]
     \/ /\ made = MaxTemps
        /\ UNCHANGED <<made, dir>>
  /\ Close(c)
  /\ UNCHANGED <<recent, gcVars, aged, acked, crashes>>

TempPath(c) == <<req[c].key, temp[c]>>

\* Faulty variant: the temporary file is left behind.
WriteFailsUnremoved(c) ==
  /\ IoErrors
  /\ pc[c] \in {"write", "rename"}
  /\ Close(c)
  /\ UNCHANGED <<dir, made, recent, gcVars, aged, acked, crashes>>

\* The write, the flush, sync_all or the rename fails.
WriteFails(c) ==
  /\ IoErrors
  /\ pc[c] \in {"write", "rename"}
  /\ dir' = [dir EXCEPT ![TempPath(c)] = NoFile]
  /\ Close(c)
  /\ UNCHANGED <<made, recent, gcVars, aged, acked, crashes>>

WriteTemp(c) ==
  /\ pc[c] = "write"
  /\ dir' = [dir EXCEPT ![TempPath(c)] = [data |-> req[c].data, old |-> FALSE]]
  /\ GoTo(c, "rename")
  /\ UNCHANGED <<made, req, temp, answer, recent, gcVars, historyVars>>

Rename(c) ==
  /\ pc[c] = "rename"
  /\ dir' = [dir EXCEPT ![BlobPath(req[c].key)] = dir[TempPath(c)],
                        ![TempPath(c)] = NoFile]
  /\ AnswerWith(c, "OK")
  /\ unsure' = unsure \cup {d \in Active : req[d] # NoRequest /\ req[d].key = req[c].key}
  /\ UNCHANGED <<made, req, temp, recent, gcVars, aged, acked, crashes>>

GetCommand(c) ==
  /\ pc[c] = "command"
  /\ \E r \in GetRequest : req' = [req EXCEPT ![c] = r]
  /\ GoTo(c, "stat")
  /\ UNCHANGED <<dir, made, temp, answer, recent, gcVars, historyVars>>

\* The file's metadata decides: no file is a MISS, an old one is removed first.
GetStat(c) ==
  /\ pc[c] = "stat"
  /\ LET f == dir[BlobPath(req[c].key)] IN
     \/ f = NoFile /\ AnswerWith(c, "MISS")
     \/ /\ f.old
        /\ GoTo(c, "remove")
        /\ answer' = [answer EXCEPT ![c] = "MISS"]
     \/ f # NoFile /\ ~f.old /\ GoTo(c, "read") /\ UNCHANGED answer
  /\ UNCHANGED <<dir, made, req, temp, recent, gcVars, historyVars>>

GetRemove(c) ==
  /\ pc[c] = "remove"
  /\ dir' = [dir EXCEPT ![BlobPath(req[c].key)] = NoFile]
  /\ GoTo(c, "answer")
  /\ UNCHANGED <<made, req, temp, answer, recent, gcVars, historyVars>>

\* fs::read returns the whole file that the path names when it is opened.  When
\* it is gone by then the handler ends without an answer.
GetRead(c) ==
  /\ pc[c] = "read"
  /\ IF Exists(BlobPath(req[c].key))
     THEN /\ AnswerWith(c, dir[BlobPath(req[c].key)].data)
          /\ UNCHANGED <<req, temp, unsure>>
     ELSE Close(c)
  /\ UNCHANGED <<dir, made, recent, gcVars, aged, acked, crashes>>

\* The metadata or the content of the file cannot be read.
GetFails(c) ==
  /\ IoErrors
  /\ pc[c] \in {"stat", "read"}
  /\ Close(c)
  /\ UNCHANGED <<dir, made, recent, gcVars, aged, acked, crashes>>

\* The answer is written and the client reads it.
Answer(c) ==
  /\ pc[c] = "answer"
  /\ acked' = IF answer[c] = "OK" THEN acked \cup {req[c].key} ELSE acked
  /\ Close(c)
  /\ UNCHANGED <<dir, made, recent, gcVars, aged, crashes>>

\* Faulty variant: only the command is read under CLIENT_READ_TIMEOUT.
HangUpInCommand(c) ==
  /\ pc[c] \in {"command", "answer"}
  /\ Close(c)
  /\ UNCHANGED <<dir, made, recent, gcVars, aged, acked, crashes>>

\* CLIENT_READ_TIMEOUT or CLIENT_WRITE_TIMEOUT elapses, or the client is gone.
HangUp(c) ==
  /\ pc[c] \in {"command", "data", "answer"}
  /\ Close(c)
  /\ UNCHANGED <<dir, made, recent, gcVars, aged, acked, crashes>>

-----------------------------------------------------------------------------
(* Time, garbage collection and crashes.                                   *)

\* The oldest PUT leaves the rate window.
PutTimeExpires ==
  /\ recent > 0
  /\ recent' = recent - 1
  /\ UNCHANGED <<dir, made, handlerVars, gcVars, historyVars>>

\* A file becomes older than BLOB_TTL_SECONDS.
Age(e) ==
  /\ Exists(e)
  /\ ~dir[e].old
  /\ \A c \in Clients : pc[c] \in {"write", "rename"} => e # TempPath(c)
  /\ dir' = [dir EXCEPT ![e] = [data |-> @.data, old |-> TRUE]]
  /\ aged' = IF e = BlobPath(e[1]) THEN aged \cup {e[1]} ELSE aged
  /\ UNCHANGED <<made, handlerVars, recent, gcVars, acked, unsure, crashes>>

\* Faulty variant: the walk looks at the files that are blobs only.
GcStartBlobsOnly ==
  /\ listed = {} /\ doomed = NoEntry
  /\ listed' = {e \in Entries : Exists(e) /\ e = BlobPath(e[1])}
  /\ listed' # {}
  /\ UNCHANGED <<dir, made, handlerVars, recent, doomed, historyVars>>

\* gc_loop starts the walk over every file of the directory.  A file that is
\* created while it runs is young: that it is listed or not makes no difference.
GcStart ==
  /\ listed = {} /\ doomed = NoEntry
  /\ listed' = {e \in Entries : Exists(e)}
  /\ listed' # {}
  /\ UNCHANGED <<dir, made, handlerVars, recent, doomed, historyVars>>

\* Faulty variant: the age of the file is not looked at.
GcStatAnyAge ==
  /\ doomed = NoEntry
  /\ \E e \in listed :
       /\ listed' = listed \ {e}
       /\ doomed' = e
  /\ UNCHANGED <<dir, made, handlerVars, recent, historyVars>>

GcStat ==
  /\ doomed = NoEntry
  /\ \E e \in listed :
       /\ listed' = listed \ {e}
       /\ doomed' = IF dir[e].old THEN e ELSE NoEntry
  /\ UNCHANGED <<dir, made, handlerVars, recent, historyVars>>

\* The path is removed, whichever file it names by now.
GcRemove ==
  /\ doomed # NoEntry
  /\ dir' = [dir EXCEPT ![doomed] = NoFile]
  /\ doomed' = NoEntry
  /\ UNCHANGED <<made, handlerVars, recent, listed, historyVars>>

\* The process ends, at a crash or at the end of main, and a new one is started.
Crash ==
  /\ crashes < MaxCrashes
  /\ crashes' = crashes + 1
  /\ made' = 0
  /\ pc' = [c \in Clients |-> "none"]
  /\ req' = [c \in Clients |-> NoRequest]
  /\ temp' = [c \in Clients |-> 0]
  /\ answer' = [c \in Clients |-> NoAnswer]
  /\ recent' = 0
  /\ listed' = {}
  /\ doomed' = NoEntry
  /\ unsure' = {}
  /\ UNCHANGED <<dir, aged, acked>>

-----------------------------------------------------------------------------
Put(c) ==
  \/ PutCommand(c) \/ Admit(c) \/ PutData(c) \/ PutCheck(c)
  \/ CreateTemp(c) \/ CreateTempFails(c) \/ WriteTemp(c) \/ WriteFails(c) \/ Rename(c)

Get(c) ==
  GetCommand(c) \/ GetStat(c) \/ GetRemove(c) \/ GetRead(c) \/ GetFails(c)

Gc == GcStart \/ GcStat \/ GcRemove

Next ==
  \/ \E c \in Clients :
       Accept(c) \/ RejectCommand(c) \/ Put(c) \/ Get(c) \/ Answer(c) \/ HangUp(c)
  \/ PutTimeExpires
  \/ \E e \in Entries : Age(e)
  \/ Gc
  \/ Crash

Spec == Init /\ [][Next]_vars

\* The runtime runs every ready task, file operations end, timeouts fire, and
\* the collector runs each hour.  Nothing is assumed of a client.
Fairness ==
  /\ \A c \in Clients :
       WF_vars(\/ Admit(c) \/ PutCheck(c) \/ CreateTemp(c) \/ CreateTempFails(c)
               \/ WriteTemp(c) \/ WriteFails(c) \/ Rename(c) \/ GetStat(c)
               \/ GetRemove(c) \/ GetRead(c) \/ HangUp(c) \/ Answer(c))
  /\ WF_vars(Gc)

FairSpec == Spec /\ Fairness

-----------------------------------------------------------------------------
(* Properties.                                                             *)

\* Every variable stays in its range; the number of PUTs within the rate window
\* is within its limit and the number of connections within that of permits.
TypeOK ==
  /\ dir \in [Entries -> File \cup {NoFile}]
  /\ made \in 0 .. MaxTemps
  /\ pc \in [Clients -> {"none", "command", "admit", "data", "check", "create",
                         "write", "rename", "stat", "remove", "read", "answer"}]
  /\ req \in [Clients -> PutRequest \cup GetRequest \cup {NoRequest}]
  /\ temp \in [Clients -> 0 .. MaxTemps]
  /\ answer \in [Clients -> Blobs \cup {"OK", "EXISTS", "MISS", "ERR", NoAnswer}]
  /\ recent \in 0 .. MaxPuts
  /\ Cardinality(Active) <= MaxActive
  /\ listed \subseteq Entries
  /\ doomed \in Entries \cup {NoEntry}
  /\ aged \subseteq Keys /\ acked \subseteq Keys /\ unsure \subseteq Clients
  /\ crashes \in 0 .. MaxCrashes

\* Each connection works on a temporary file of its own, and as long as the
\* process runs a temporary file that no connection works on is never left
\* behind, whatever fails (atomic_write_blob).
TempsOwned ==
  /\ \A c, d \in Clients :
       pc[c] \in {"write", "rename"} /\ pc[d] \in {"write", "rename"} /\ c # d
         => TempPath(c) # TempPath(d)
  /\ \A e \in Entries :
       crashes = 0 /\ Exists(e) /\ e # BlobPath(e[1])
         => \E c \in Clients : pc[c] \in {"write", "rename"} /\ e = TempPath(c)

\* The files as the clients see them.
StoredBlobs == [k \in Keys |-> dir[BlobPath(k)].data]
ExpiredKeys == {k \in Keys : dir[BlobPath(k)].old}

Store == INSTANCE BlobStore WITH blob <- StoredBlobs, expired <- ExpiredKeys

\* Seen by its clients the drop is a store of whole blobs: a PUT or GET takes
\* effect at one instant, no GET returns a partial or a removed blob, EXISTS and
\* MISS are true when they are decided, and a blob is overwritten only by a PUT
\* that overlapped another one or could not look for it (fs::metadata).
ImplementsStore == Store!StoreSpec

\* A PUT that a client was told is stored stays stored until a blob under its
\* key is past its time to live: no overlapping PUT, failed write, collection or
\* restart takes it away, be it one that removes by path (walk_and_gc_dir).
AckedBlobsStay == Store!AckedStaysStored

\* Every connection ends, however slow its client is: a permit is never held
\* for good (CLIENT_READ_TIMEOUT, CLIENT_WRITE_TIMEOUT).
ConnectionsEnd == \A c \in Clients : pc[c] # "none" ~> pc[c] = "none"

\* A file past its time to live is removed, also a temporary file that a crash
\* left behind and no request names again (gc_loop, walk_and_gc_dir).
OldFilesRemoved == \A e \in Entries : dir[e].old ~> ~dir[e].old

=============================================================================
