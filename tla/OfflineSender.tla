--------------------------- MODULE OfflineSender ---------------------------
(***************************************************************************)
(* The sending half of offline delivery for one chat tab: a message takes  *)
(* the next send index and a PUT task sends its blob to every deaddrop at  *)
(* once; when all of them are through, the result decides whether the      *)
(* message is marked delivered and the index moves on.  A deaddrop handles *)
(* a PUT in the steps of DeadDropServer that other PUTs can come between.  *)
(*                                                                         *)
(* A task outlives its tab: when the tab is closed and opened again, or    *)
(* the program crashes after the blob went out, the PUT goes on and its    *)
(* result is ignored.                                                      *)
(***************************************************************************)
EXTENDS Naturals

CONSTANTS
  Messages,     \* the messages the user writes
  TooLong,      \* those whose blob cannot be built
  Drops,        \* deaddrop_servers
  Tasks,        \* bound: PUT tasks outstanding at once
  NoTask, NoMessage,
  MaxIndex,     \* bound: messages are sent under indexes 0..MaxIndex
  MaxRestarts,  \* bound: crashes and reopenings of the tab
  DiskFaults    \* may a save of the offline state fail?

ASSUME SenderAssumption ==
  /\ TooLong \subseteq Messages
  /\ NoMessage \notin Messages
  /\ MaxIndex \in Nat
  /\ MaxRestarts \in Nat
  /\ DiskFaults \in BOOLEAN

Index == 0 .. MaxIndex
Top == MaxIndex + 1

Results == {"OK", "EXISTS", "FAIL"}
Task == [ message : Messages,
          index : Index,
          current : BOOLEAN,    \* does the tab that started it still exist?
          drop : [Drops -> {"sent", "writing"} \cup Results] ]

VARIABLES
  drop_send_index,  \* the session's next send index
  disk,             \* the saved one
  offline,          \* offline_mode
  putting,          \* deaddrop_put_in_flight
  tasks,            \* the PUT tasks outstanding
  box,              \* the message each deaddrop holds under each index
  written,          \* messages the user has sent
  used,             \* history: the index each message was sent under
  delivered,        \* messages with the delivered mark
  sent,             \* history: indexes 0..sent-1 have been filled
  held,             \* history: the messages ever stored under each index
  announced,        \* history: the highest send index the peer was told
  restarts          \* history: number of restarts

userVars == <<written, used, delivered>>
mailVars == <<sent, held, announced>>
vars == <<drop_send_index, disk, offline, putting, tasks, box, userVars,
          mailVars, restarts>>

Larger(m, n) == IF m > n THEN m ELSE n

Init ==
  /\ drop_send_index = 0
  /\ disk = 0
  /\ offline = FALSE
  /\ putting = FALSE
  /\ tasks = [t \in Tasks |-> NoTask]
  /\ box = [d \in Drops |-> [i \in Index |-> NoMessage]]
  /\ written = {}
  /\ used = [m \in Messages |-> 0]
  /\ delivered = {}
  /\ sent = 0
  /\ held = [i \in Index |-> {}]
  /\ announced = 0
  /\ restarts = 0

\* Faulty variant: the new index is not saved.
SaveForgotten(index) == UNCHANGED disk

\* save_offline_state; a failed save is logged and the file keeps its content.
Save(index) == disk' \in {index} \cup IF DiskFaults THEN {disk} ELSE {}

-----------------------------------------------------------------------------
(* The user sends a message in offline mode.                               *)

\* The blob cannot be built: the handler returns after it has set the flag.
SendTooLong(m) ==
  /\ m \in TooLong \ written
  /\ offline
  /\ ~putting
  /\ putting' = TRUE
  /\ written' = written \cup {m}
  /\ UNCHANGED <<drop_send_index, disk, offline, tasks, box, used, delivered,
                 mailVars, restarts>>

SendPressed(m) ==
  /\ m \in Messages \ (written \cup TooLong)
  /\ offline
  /\ ~putting
  /\ drop_send_index \in Index
  /\ \E t \in Tasks :
       /\ tasks[t] = NoTask
       /\ tasks' = [tasks EXCEPT ![t] =
                      [message |-> m, index |-> drop_send_index,
                       current |-> TRUE, drop |-> [d \in Drops |-> "sent"]]]
  /\ putting' = TRUE
  /\ written' = written \cup {m}
  /\ used' = [used EXCEPT ![m] = drop_send_index]
  /\ UNCHANGED <<drop_send_index, disk, offline, box, delivered, mailVars,
                 restarts>>

-----------------------------------------------------------------------------
(* put_one_parallel and the deaddrop that serves it.                       *)

PutAt(t, d, before, after) ==
  /\ tasks[t] # NoTask
  /\ tasks[t].drop[d] = before
  /\ tasks' = [tasks EXCEPT ![t].drop[d] = after]

\* The deaddrop looks for the key before it writes.
DropChecks(t, d) ==
  /\ \/ /\ PutAt(t, d, "sent", "writing")
        /\ box[d][tasks[t].index] = NoMessage
     \/ /\ PutAt(t, d, "sent", "EXISTS")
        /\ box[d][tasks[t].index] # NoMessage
  /\ UNCHANGED <<drop_send_index, disk, offline, putting, box, userVars,
                 mailVars, restarts>>

\* The blob is stored; the answer reaches the client or is lost.
DropStores(t, d) ==
  /\ \E r \in {"OK", "FAIL"} : PutAt(t, d, "writing", r)
  /\ LET i == tasks[t].index IN
     /\ box' = [box EXCEPT ![d][i] = tasks[t].message]
     /\ held' = [held EXCEPT ![i] = @ \cup {tasks[t].message}]
     /\ sent' = Larger(sent, i + 1)
  /\ UNCHANGED <<drop_send_index, disk, offline, putting, userVars, announced,
                 restarts>>

\* The deaddrop is not reached, refuses, or fails to write.
DropFails(t, d) ==
  /\ \E b \in {"sent", "writing"} : PutAt(t, d, b, "FAIL")
  /\ UNCHANGED <<drop_send_index, disk, offline, putting, box, userVars,
                 mailVars, restarts>>

\* A blob past its time to live is removed, or the deaddrop loses it.
DropLoses(d, i) ==
  /\ box[d][i] # NoMessage
  /\ box' = [box EXCEPT ![d][i] = NoMessage]
  /\ UNCHANGED <<drop_send_index, disk, offline, putting, tasks, userVars,
                 mailVars, restarts>>

-----------------------------------------------------------------------------
(* The result of a PUT.                                                    *)

Answers(t) == {tasks[t].drop[d] : d \in Drops}

\* put_with_pow_counter_and_stats, once every deaddrop is through.
Status(t) ==
  CASE "OK" \in Answers(t) -> "OK"
    [] "OK" \notin Answers(t) /\ "EXISTS" \in Answers(t) -> "EXISTS"
    [] OTHER -> "FAIL"

\* Faulty variants: a PUT that failed uses up its index, and the index moves on
\* from where it is by now.
AdvancedAlways(t) ==
  IF drop_send_index = tasks[t].index THEN tasks[t].index + 1 ELSE drop_send_index

AdvancedFromCurrent(t) ==
  IF Status(t) \in {"OK", "EXISTS"} THEN drop_send_index + 1 ELSE drop_send_index

\* The send index after the result of t.
Advanced(t) ==
  IF Status(t) \in {"OK", "EXISTS"} /\ drop_send_index = tasks[t].index
  THEN tasks[t].index + 1
  ELSE drop_send_index

\* Faulty variant: the early exit of a failed PUT keeps the flag.
OfflinePutFinishedFlagKept(t) ==
  /\ tasks[t] # NoTask
  /\ Answers(t) \subseteq Results
  /\ tasks[t].current
  /\ tasks' = [tasks EXCEPT ![t] = NoTask]
  /\ drop_send_index' = Advanced(t)
  /\ IF Status(t) = "FAIL"
     THEN UNCHANGED <<delivered, disk, putting>>
     ELSE /\ putting' = FALSE
          /\ delivered' = delivered \cup {tasks[t].message}
          /\ Save(Advanced(t))
  /\ UNCHANGED <<offline, box, written, used, mailVars, restarts>>

OfflinePutFinished(t) ==
  /\ tasks[t] # NoTask
  /\ Answers(t) \subseteq Results
  /\ tasks[t].current
  /\ tasks' = [tasks EXCEPT ![t] = NoTask]
  /\ putting' = FALSE
  /\ drop_send_index' = Advanced(t)
  /\ IF Status(t) = "FAIL"
     THEN UNCHANGED <<delivered, disk>>
     ELSE /\ delivered' = delivered \cup {tasks[t].message}
          /\ Save(Advanced(t))
  /\ UNCHANGED <<offline, box, written, used, mailVars, restarts>>

\* The tab of the task is gone: tab_by_id_mut finds none.  The task may also
\* have died with the program after any part of its work.
StaleTaskEnds(t) ==
  /\ tasks[t] # NoTask
  /\ ~tasks[t].current
  /\ tasks' = [tasks EXCEPT ![t] = NoTask]
  /\ UNCHANGED <<drop_send_index, disk, offline, putting, box, userVars,
                 mailVars, restarts>>

-----------------------------------------------------------------------------
(* Modes, index synchronisation and restarts.                              *)

GoOffline ==
  /\ ~offline
  /\ offline' = TRUE
  /\ UNCHANGED <<drop_send_index, disk, putting, tasks, box, userVars,
                 mailVars, restarts>>

GoOnline ==
  /\ offline
  /\ offline' = FALSE
  /\ UNCHANGED <<drop_send_index, disk, putting, tasks, box, userVars,
                 mailVars, restarts>>

\* The I frame sent to the peer when a live session is trusted.
SendIndexSync ==
  /\ ~offline
  /\ announced' = Larger(announced, drop_send_index)
  /\ UNCHANGED <<drop_send_index, disk, offline, putting, tasks, box, userVars,
                 sent, held, restarts>>

\* The peer's I frame.  Its receive base is at most what was ever stored
\* (OfflineReceiver, BaseBehindKnown).
ReceiveIndexSync ==
  /\ ~offline
  /\ \E remote_receive_base \in 0 .. sent :
       drop_send_index' = Larger(drop_send_index, remote_receive_base)
  /\ Save(drop_send_index')
  /\ UNCHANGED <<offline, putting, tasks, box, userVars, mailVars, restarts>>

\* The tab is closed and opened again, or the program crashes and is started.
Restart ==
  /\ restarts < MaxRestarts
  /\ restarts' = restarts + 1
  /\ drop_send_index' = disk
  /\ offline' = FALSE
  /\ putting' = FALSE
  /\ tasks' = [t \in Tasks |-> IF tasks[t] = NoTask THEN NoTask
                               ELSE [tasks[t] EXCEPT !.current = FALSE]]
  /\ UNCHANGED <<disk, box, userVars, mailVars>>

-----------------------------------------------------------------------------
DropServes ==
  \E t \in Tasks, d \in Drops :
    DropChecks(t, d) \/ DropStores(t, d) \/ DropFails(t, d)

Next ==
  \/ \E m \in Messages : SendTooLong(m) \/ SendPressed(m)
  \/ DropServes
  \/ \E d \in Drops, i \in Index : DropLoses(d, i)
  \/ \E t \in Tasks : OfflinePutFinished(t) \/ StaleTaskEnds(t)
  \/ GoOffline
  \/ GoOnline
  \/ SendIndexSync
  \/ ReceiveIndexSync
  \/ Restart

Spec == Init /\ [][Next]_vars

\* Every request to a deaddrop ends in some way, and results are handled.
Fairness ==
  \A t \in Tasks :
    /\ \A d \in Drops :
         WF_vars(DropChecks(t, d) \/ DropStores(t, d) \/ DropFails(t, d))
    /\ WF_vars(OfflinePutFinished(t))

FairSpec == Spec /\ Fairness

-----------------------------------------------------------------------------
(* Properties.                                                             *)

\* Every variable stays in its range: the counters that nothing bounds but the
\* PUTs stay within the indexes that messages were sent under.
TypeOK ==
  /\ drop_send_index \in 0 .. Top /\ disk \in 0 .. Top
  /\ offline \in BOOLEAN /\ putting \in BOOLEAN
  /\ tasks \in [Tasks -> Task \cup {NoTask}]
  /\ box \in [Drops -> [Index -> Messages \cup {NoMessage}]]
  /\ written \subseteq Messages /\ delivered \subseteq written
  /\ used \in [Messages -> Index]
  /\ sent \in 0 .. Top /\ announced \in 0 .. Top
  /\ held \in [Index -> SUBSET Messages]
  /\ restarts \in 0 .. MaxRestarts

\* The send index, in memory and on disk, never passes the indexes that were
\* filled: a failed PUT, a lost answer, a late result or an index that the peer
\* sends never makes the sender leave a gap (OfflinePutFinished, I frame).
SendIndexBehindFilled ==
  \A n \in {drop_send_index, disk, announced} :
    /\ n <= sent
    /\ \A i \in Index : i < n => held[i] # {}

\* With a disk that keeps what was saved, two messages with the delivered mark
\* were sent under different indexes, through restarts, late PUTs of a closed
\* tab and an index sync while a PUT is out (OfflinePutFinished).
DeliveredIndexesDistinct ==
  ~DiskFaults =>
    \A m, n \in delivered : m # n => used[m] # used[n]

Peer == INSTANCE Mailbox WITH Limit <- MaxIndex

\* To its peer the sender is a mailbox whose indexes are filled in order.
ImplementsMailbox == Peer!MailboxSpec

\* The PUT task of this tab that is outstanding, if any.
PutTaskOut == \E t \in Tasks : tasks[t] # NoTask /\ tasks[t].current

\* A PUT whose task is out ends, whatever the deaddrops answer: the tab can send
\* and poll again (OfflinePutFinished).
PutEnds == putting /\ PutTaskOut ~> ~putting

\* "Delivery indicators for live and offline messages": the mark on a message
\* means that a deaddrop has stored the message.
DeliveredWasStored == \A m \in delivered : m \in held[used[m]]

=============================================================================
