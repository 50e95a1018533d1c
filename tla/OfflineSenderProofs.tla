------------------------ MODULE OfflineSenderProofs ------------------------
(***************************************************************************)
(* Proofs about OfflineSender: its types, that the send index stays behind *)
(* the filled indexes, that the sender implements the Mailbox that         *)
(* OfflineReceiver assumes of its peer, and that no two delivered messages *)
(* have one index.                                                         *)
(***************************************************************************)
EXTENDS OfflineSender, TLAPS

\* The indexes below sent are filled and no other, the counters stay below
\* sent, and a task is behind them or fills the next index; an answer other than
\* FAIL says that the index of the task is filled.  A task's message was sent.
IFilled ==
  /\ drop_send_index <= sent /\ disk <= sent /\ announced <= sent
  /\ \A i \in Index : i < sent => held[i] # {}
  /\ \A d \in Drops, i \in Index : box[d][i] # NoMessage => i < sent
  /\ \A t \in Tasks : tasks[t] # NoTask =>
       /\ tasks[t].message \in written
       /\ tasks[t].index <= sent
       /\ \A d \in Drops :
            tasks[t].drop[d] \in {"OK", "EXISTS"} => tasks[t].index < sent

IInv == TypeOK /\ IFilled

-----------------------------------------------------------------------------
(* Lemmas about the state functions.                                       *)

LEMMA LargerFacts ==
  ASSUME NEW m \in Nat, NEW n \in Nat
  PROVE  /\ Larger(m, n) \in {m, n}
         /\ m <= Larger(m, n) /\ n <= Larger(m, n)
BY DEF Larger

\* Counters of the state are numbers.
LEMMA Counters ==
  ASSUME TypeOK
  PROVE  /\ drop_send_index \in Nat /\ disk \in Nat
         /\ sent \in Nat /\ announced \in Nat
         /\ Top \in Nat /\ Index \subseteq Nat
BY SenderAssumption DEF TypeOK, Top, Index

LEMMA TaskType ==
  ASSUME TypeOK, NEW t \in Tasks, tasks[t] # NoTask
  PROVE  tasks[t] \in Task
BY DEF TypeOK

\* A saved index is the new one or the old one.
LEMMA SaveCases ==
  ASSUME NEW n, Save(n)
  PROVE  disk' \in {n, disk}
BY DEF Save

\* One answer of one deaddrop changes nothing else of the task.
LEMMA PutAtFields ==
  ASSUME TypeOK, NEW t \in Tasks, NEW d \in Drops,
         NEW b, NEW a \in {"sent", "writing"} \cup Results, PutAt(t, d, b, a)
  PROVE  /\ tasks' \in [Tasks -> Task \cup {NoTask}]
         /\ \A u \in Tasks \ {t} : tasks'[u] = tasks[u]
         /\ tasks'[t] \in Task
         /\ tasks'[t].index = tasks[t].index
         /\ tasks'[t].message = tasks[t].message
         /\ \A e \in Drops \ {d} : tasks'[t].drop[e] = tasks[t].drop[e]
         /\ tasks'[t].drop[d] = a
<1>1. tasks[t] \in Task
  BY TaskType DEF PutAt
<1>2. tasks' = [tasks EXCEPT ![t].drop[d] = a]
  BY DEF PutAt
<1> DEFINE new == [tasks[t] EXCEPT !.drop = [tasks[t].drop EXCEPT ![d] = a]]
<1>3. tasks' = [tasks EXCEPT ![t] = new]
  BY <1>2
<1>4. [tasks[t].drop EXCEPT ![d] = a] \in [Drops -> {"sent", "writing"} \cup Results]
  BY <1>1 DEF Task
<1>5. new \in Task /\ new.index = tasks[t].index /\ new.message = tasks[t].message
        /\ new.drop = [tasks[t].drop EXCEPT ![d] = a]
  BY <1>1, <1>4 DEF Task
<1>6. new.drop[d] = a /\ \A e \in Drops \ {d} : new.drop[e] = tasks[t].drop[e]
  BY <1>1, <1>5 DEF Task
<1> HIDE DEF new
<1>7. tasks \in [Tasks -> Task \cup {NoTask}]
  BY DEF TypeOK
<1> QED  BY <1>3, <1>5, <1>6, <1>7

\* The index moves on only past an index that was filled.
LEMMA AdvancedFacts ==
  ASSUME IInv, NEW t \in Tasks, tasks[t] # NoTask
  PROVE  /\ Advanced(t) \in 0 .. Top
         /\ Advanced(t) <= sent
<1>1. CASE Status(t) \in {"OK", "EXISTS"}
  <2>1. \E d \in Drops : tasks[t].drop[d] \in {"OK", "EXISTS"}
    <3>1. "OK" \in Answers(t) \/ "EXISTS" \in Answers(t)
      BY <1>1 DEF Status
    <3> QED  BY <3>1 DEF Answers
  <2>2. tasks[t].index < sent
    BY <2>1 DEF IInv, IFilled
  <2>3. tasks[t].index \in Index
    BY TaskType DEF IInv, Task
  <2> QED  BY <2>2, <2>3, SenderAssumption DEF Advanced, IInv, IFilled, TypeOK, Index, Top
<1>2. CASE Status(t) \notin {"OK", "EXISTS"}
  BY <1>2 DEF Advanced, IInv, IFilled, TypeOK
<1> QED  BY <1>1, <1>2

-----------------------------------------------------------------------------
(* The inductive invariant.                                                *)

LEMMA InitIInv == Init => IInv
<1> SUFFICES ASSUME Init PROVE IInv
  OBVIOUS
<1>1. 0 \in 0 .. Top /\ 0 \in Index /\ 0 \in 0 .. MaxRestarts
  BY SenderAssumption DEF Index, Top
<1>3. box \in [Drops -> [Index -> Messages \cup {NoMessage}]]
  BY DEF Init
<1>4. TypeOK
  BY <1>1, <1>3 DEF Init, TypeOK
<1>2. IFilled
  BY SenderAssumption DEF Init, IFilled, Index
<1> QED  BY <1>2, <1>4 DEF IInv

\* Steps that leave the mailboxes, the tasks and the index alone.
LEMMA FlagsIInv ==
  ASSUME IInv,
         (\E m \in Messages : SendTooLong(m)) \/ GoOffline \/ GoOnline
  PROVE  IInv'
<1>1. UNCHANGED <<drop_send_index, disk, tasks, box, mailVars>>
  BY DEF SendTooLong, GoOffline, GoOnline
<1>2. TypeOK'
  BY DEF IInv, TypeOK, SendTooLong, GoOffline, GoOnline, userVars, mailVars
<1>3. written \subseteq written'
  BY DEF SendTooLong, GoOffline, GoOnline, userVars
<1>4. IFilled'
  BY <1>1, <1>3 DEF IInv, IFilled, mailVars
<1> QED  BY <1>2, <1>4 DEF IInv

LEMMA SendPressedIInv ==
  ASSUME IInv, NEW m \in Messages, SendPressed(m)
  PROVE  IInv'
<1> DEFINE new == [message |-> m, index |-> drop_send_index,
                   current |-> TRUE, drop |-> [d \in Drops |-> "sent"]]
<1>1. PICK t \in Tasks : tasks' = [tasks EXCEPT ![t] = new]
  BY DEF SendPressed
<1>2. new \in Task /\ new.index = drop_send_index /\ new.message = m
        /\ \A d \in Drops : new.drop[d] = "sent"
  BY DEF SendPressed, Task
<1> HIDE DEF new
<1>3. tasks' \in [Tasks -> Task \cup {NoTask}]
  BY <1>1, <1>2 DEF IInv, TypeOK
<1>4. used' \in [Messages -> Index]
  BY DEF SendPressed, IInv, TypeOK
<1>5. TypeOK'
  BY <1>3, <1>4 DEF SendPressed, IInv, TypeOK, mailVars
<1>6. \A u \in Tasks : tasks'[u] = tasks[u] \/ tasks'[u] = new
  BY <1>1 DEF IInv, TypeOK
<1>7. IFilled'
  BY <1>2, <1>6 DEF SendPressed, IInv, IFilled, mailVars
<1> QED  BY <1>5, <1>7 DEF IInv

\* Answers that store nothing: what they say is true by now.
LEMMA DropAnswersIInv ==
  ASSUME IInv, NEW t \in Tasks, NEW d \in Drops,
         DropChecks(t, d) \/ DropFails(t, d)
  PROVE  IInv'
<1>1. PICK b \in {"sent", "writing"}, a \in {"writing", "EXISTS", "FAIL"} :
        /\ PutAt(t, d, b, a)
        /\ a = "EXISTS" => box[d][tasks[t].index] # NoMessage
  BY DEF DropChecks, DropFails
<1>2. UNCHANGED <<drop_send_index, disk, offline, putting, box, userVars,
                  mailVars, restarts>>
  BY DEF DropChecks, DropFails
<1>3. a \in {"sent", "writing"} \cup Results
  BY DEF Results
<1>4. tasks[t] \in Task /\ tasks[t].index \in Index
  BY <1>1, TaskType DEF PutAt, IInv, Task
<1>5. /\ tasks' \in [Tasks -> Task \cup {NoTask}]
      /\ \A u \in Tasks \ {t} : tasks'[u] = tasks[u]
      /\ tasks'[t].index = tasks[t].index
      /\ tasks'[t].message = tasks[t].message
      /\ \A e \in Drops \ {d} : tasks'[t].drop[e] = tasks[t].drop[e]
      /\ tasks'[t].drop[d] = a
  BY <1>1, <1>3, PutAtFields DEF IInv
<1>6. TypeOK'
  BY <1>2, <1>5 DEF IInv, TypeOK, userVars, mailVars
<1>7. a \in {"OK", "EXISTS"} => tasks[t].index < sent
  BY <1>1, <1>4 DEF IInv, IFilled
<1>8. tasks[t] # NoTask
  BY <1>1 DEF PutAt
<1>9. IFilled'
  BY <1>2, <1>5, <1>7, <1>8 DEF IInv, IFilled, userVars, mailVars
<1> QED  BY <1>6, <1>9 DEF IInv

LEMMA DropStoresIInv ==
  ASSUME IInv, NEW t \in Tasks, NEW d \in Drops, DropStores(t, d)
  PROVE  IInv'
<1> DEFINE i == tasks[t].index
<1>1. PICK a \in {"OK", "FAIL"} : PutAt(t, d, "writing", a)
  BY DEF DropStores
<1>2. a \in {"sent", "writing"} \cup Results
  BY DEF Results
<1>3. tasks[t] \in Task /\ i \in Index /\ tasks[t].message \in Messages
  BY <1>1, TaskType DEF PutAt, IInv, Task
<1>4. /\ tasks' \in [Tasks -> Task \cup {NoTask}]
      /\ \A u \in Tasks \ {t} : tasks'[u] = tasks[u]
      /\ tasks'[t].index = i
      /\ tasks'[t].message = tasks[t].message
  BY <1>1, <1>2, PutAtFields DEF IInv
<1>5. /\ box' = [box EXCEPT ![d] = [box[d] EXCEPT ![i] = tasks[t].message]]
      /\ held' = [held EXCEPT ![i] = held[i] \cup {tasks[t].message}]
      /\ sent' = Larger(sent, i + 1)
      /\ UNCHANGED <<drop_send_index, disk, offline, putting, userVars,
                     announced, restarts>>
  BY DEF DropStores
<1>6. i <= sent
  BY <1>1 DEF PutAt, IInv, IFilled
<1>7. sent' \in 0 .. Top /\ sent <= sent' /\ i < sent'
        /\ \A j \in Index : j < sent' => j < sent \/ j = i
  BY <1>3, <1>5, <1>6, SenderAssumption DEF Larger, IInv, TypeOK, Index, Top
<1> HIDE DEF i
<1>8. held' \in [Index -> SUBSET Messages] /\ held'[i] # {}
        /\ \A j \in Index : j # i => held'[j] = held[j]
  BY <1>3, <1>5 DEF IInv, TypeOK
<1>9. box' \in [Drops -> [Index -> Messages \cup {NoMessage}]]
        /\ \A e \in Drops, j \in Index : box'[e][j] = box[e][j] \/ j = i
  <2>1. box[d] \in [Index -> Messages \cup {NoMessage}]
    BY DEF IInv, TypeOK
  <2> DEFINE row == [box[d] EXCEPT ![i] = tasks[t].message]
  <2>2. row \in [Index -> Messages \cup {NoMessage}]
          /\ \A j \in Index : j # i => row[j] = box[d][j]
    BY <2>1, <1>3
  <2>3. box' = [box EXCEPT ![d] = row]
    BY <1>5
  <2> HIDE DEF row
  <2> QED  BY <2>2, <2>3 DEF IInv, TypeOK
<1>10. TypeOK'
  BY <1>4, <1>5, <1>7, <1>8, <1>9 DEF IInv, TypeOK, userVars
<1>11. /\ drop_send_index' <= sent' /\ disk' <= sent' /\ announced' <= sent'
       /\ \A j \in Index : j < sent' => held'[j] # {}
  <2>1. sent' \in Nat /\ sent \in Nat /\ drop_send_index \in Nat /\ disk \in Nat
          /\ announced \in Nat
    BY <1>7, Counters DEF IInv
  <2>2. \A j \in Index : j < sent' => held'[j] # {}
    BY <1>7, <1>8 DEF IInv, IFilled
  <2>3. drop_send_index <= sent' /\ disk <= sent' /\ announced <= sent'
    BY <2>1, <1>7 DEF IInv, IFilled
  <2> QED  BY <2>2, <2>3, <1>5
<1>12. \A e \in Drops, j \in Index : box'[e][j] # NoMessage => j < sent'
  <2>1. \A j \in Index : j < sent => j < sent'
    BY <1>7, <1>10, Counters DEF IInv
  <2> QED  BY <2>1, <1>7, <1>9 DEF IInv, IFilled
<1>13. \A u \in Tasks : tasks'[u] # NoTask =>
         /\ tasks'[u].message \in written'
         /\ tasks'[u].index <= sent'
         /\ \A e \in Drops :
              tasks'[u].drop[e] \in {"OK", "EXISTS"} => tasks'[u].index < sent'
  <2> SUFFICES ASSUME NEW u \in Tasks, tasks'[u] # NoTask
               PROVE  /\ tasks'[u].message \in written'
                      /\ tasks'[u].index <= sent'
                      /\ \A e \in Drops :
                           tasks'[u].drop[e] \in {"OK", "EXISTS"}
                             => tasks'[u].index < sent'
    OBVIOUS
  <2>3. tasks'[u].message \in written'
    BY <1>1, <1>4, <1>5 DEF PutAt, IInv, IFilled, userVars
  <2>1. CASE u = t
    <3>1. tasks'[u].index = i /\ i \in Nat /\ sent' \in Nat
      BY <2>1, <1>3, <1>4, <1>10, Counters DEF IInv, TypeOK
    <3> QED  BY <3>1, <1>7, <2>3
  <2>2. CASE u # t
    <3>1. tasks'[u] = tasks[u] /\ tasks[u].index \in Nat
      BY <2>2, <1>4, TaskType, Counters DEF IInv, Task
    <3>2. sent \in Nat /\ sent' \in Nat /\ sent <= sent'
      BY <1>7, Counters DEF IInv
    <3>3. tasks[u].index <= sent
            /\ \A e \in Drops :
                 tasks[u].drop[e] \in {"OK", "EXISTS"} => tasks[u].index < sent
      BY <3>1 DEF IInv, IFilled
    <3> QED  BY <3>1, <3>2, <3>3, <2>3
  <2> QED  BY <2>1, <2>2
<1> QED  BY <1>10, <1>11, <1>12, <1>13 DEF IInv, IFilled

LEMMA DropLosesIInv ==
  ASSUME IInv, NEW d \in Drops, NEW i \in Index, DropLoses(d, i)
  PROVE  IInv'
<1> DEFINE row == [box[d] EXCEPT ![i] = NoMessage]
<1>1. box[d] \in [Index -> Messages \cup {NoMessage}]
  BY DEF IInv, TypeOK
<1>2. row \in [Index -> Messages \cup {NoMessage}]
        /\ \A j \in Index : row[j] \in {box[d][j], NoMessage}
  BY <1>1
<1>3. box' = [box EXCEPT ![d] = row]
  BY DEF DropLoses
<1> HIDE DEF row
<1>4. box' \in [Drops -> [Index -> Messages \cup {NoMessage}]]
        /\ \A e \in Drops, j \in Index : box'[e][j] \in {box[e][j], NoMessage}
  BY <1>2, <1>3 DEF IInv, TypeOK
<1>5. TypeOK'
  BY <1>4 DEF DropLoses, IInv, TypeOK, userVars, mailVars
<1>6. IFilled'
  BY <1>4 DEF DropLoses, IInv, IFilled, userVars, mailVars
<1> QED  BY <1>5, <1>6 DEF IInv

LEMMA TaskEndsIInv ==
  ASSUME IInv, NEW t \in Tasks, OfflinePutFinished(t) \/ StaleTaskEnds(t)
  PROVE  IInv'
<1>1. tasks[t] # NoTask /\ tasks' = [tasks EXCEPT ![t] = NoTask]
        /\ UNCHANGED <<offline, box, written, used, mailVars, restarts>>
  BY DEF OfflinePutFinished, StaleTaskEnds, userVars
<1>2. drop_send_index' \in 0 .. Top /\ drop_send_index' <= sent
        /\ disk' \in {drop_send_index', disk}
  <2>1. CASE OfflinePutFinished(t)
    BY <2>1, <1>1, AdvancedFacts, SaveCases DEF OfflinePutFinished
  <2>2. CASE StaleTaskEnds(t)
    BY <2>2 DEF StaleTaskEnds, IInv, TypeOK, IFilled
  <2> QED  BY <2>1, <2>2
<1>3. putting' \in BOOLEAN /\ delivered' \subseteq written
  <2>1. CASE OfflinePutFinished(t)
    BY <2>1, <1>1 DEF OfflinePutFinished, IInv, TypeOK, IFilled
  <2>2. CASE StaleTaskEnds(t)
    BY <2>2 DEF StaleTaskEnds, userVars, IInv, TypeOK
  <2> QED  BY <2>1, <2>2
<1>4. tasks' \in [Tasks -> Task \cup {NoTask}]
        /\ \A u \in Tasks : tasks'[u] = tasks[u] \/ tasks'[u] = NoTask
  BY <1>1 DEF IInv, TypeOK
<1>5. TypeOK'
  BY <1>1, <1>2, <1>3, <1>4 DEF IInv, TypeOK, mailVars
<1>6. IFilled'
  BY <1>1, <1>2, <1>4 DEF IInv, IFilled, mailVars
<1> QED  BY <1>5, <1>6 DEF IInv

LEMMA IndexSyncIInv ==
  ASSUME IInv, SendIndexSync \/ ReceiveIndexSync
  PROVE  IInv'
<1>1. CASE SendIndexSync
  <2>1. announced' \in 0 .. Top /\ announced' <= sent
    BY <1>1 DEF SendIndexSync, Larger, IInv, TypeOK, IFilled
  <2> QED  BY <1>1, <2>1 DEF SendIndexSync, IInv, TypeOK, IFilled, userVars
<1>2. CASE ReceiveIndexSync
  <2>1. PICK n \in 0 .. sent : drop_send_index' = Larger(drop_send_index, n)
    BY <1>2 DEF ReceiveIndexSync
  <2>2. drop_send_index' \in 0 .. Top /\ drop_send_index' <= sent
    BY <2>1, SenderAssumption DEF Larger, IInv, TypeOK, IFilled, Top
  <2>3. disk' \in {drop_send_index', disk}
    BY <1>2, SaveCases DEF ReceiveIndexSync
  <2> QED  BY <1>2, <2>2, <2>3
           DEF ReceiveIndexSync, IInv, TypeOK, IFilled, userVars, mailVars
<1> QED  BY <1>1, <1>2

LEMMA RestartIInv ==
  ASSUME IInv, Restart
  PROVE  IInv'
<1> DEFINE Stale(x) == [x EXCEPT !.current = FALSE]
<1>1. \A x \in Task : Stale(x) \in Task /\ Stale(x).index = x.index
                        /\ Stale(x).message = x.message
                        /\ Stale(x).drop = x.drop
  BY DEF Task
<1>2. tasks' = [t \in Tasks |-> IF tasks[t] = NoTask THEN NoTask ELSE Stale(tasks[t])]
  BY DEF Restart
<1> HIDE DEF Stale
<1>3. \A t \in Tasks : IF tasks[t] = NoTask THEN tasks'[t] = NoTask
                       ELSE /\ tasks'[t] \in Task
                            /\ tasks'[t].index = tasks[t].index
                            /\ tasks'[t].message = tasks[t].message
                            /\ tasks'[t].drop = tasks[t].drop
  BY <1>1, <1>2, TaskType DEF IInv
<1>4. tasks' \in [Tasks -> Task \cup {NoTask}]
  BY <1>2, <1>3
<1>5. restarts' \in 0 .. MaxRestarts
  BY SenderAssumption DEF Restart, IInv, TypeOK
<1>6. TypeOK'
  BY <1>4, <1>5 DEF Restart, IInv, TypeOK, userVars, mailVars
<1>7. IFilled'
  BY <1>3 DEF Restart, IInv, IFilled, userVars, mailVars
<1> QED  BY <1>6, <1>7 DEF IInv

LEMMA NextIInv == IInv /\ [Next]_vars => IInv'
<1> SUFFICES ASSUME IInv, [Next]_vars PROVE IInv'
  OBVIOUS
<1>1. CASE UNCHANGED vars
  BY <1>1 DEF vars, userVars, mailVars, IInv, TypeOK, IFilled
<1>2. ASSUME NEW m \in Messages, SendPressed(m) PROVE IInv'
  BY <1>2, SendPressedIInv
<1>3. CASE (\E m \in Messages : SendTooLong(m)) \/ GoOffline \/ GoOnline
  BY <1>3, FlagsIInv
<1>4. CASE DropServes
  BY <1>4, DropAnswersIInv, DropStoresIInv DEF DropServes
<1>5. ASSUME NEW d \in Drops, NEW i \in Index, DropLoses(d, i) PROVE IInv'
  BY <1>5, DropLosesIInv
<1>6. ASSUME NEW t \in Tasks, OfflinePutFinished(t) \/ StaleTaskEnds(t) PROVE IInv'
  BY <1>6, TaskEndsIInv
<1>7. CASE SendIndexSync \/ ReceiveIndexSync
  BY <1>7, IndexSyncIInv
<1>8. CASE Restart
  BY <1>8, RestartIInv
<1> QED  BY <1>1, <1>2, <1>3, <1>4, <1>5, <1>6, <1>7, <1>8 DEF Next

-----------------------------------------------------------------------------
(* The theorems.                                                           *)

\* The invariant of the sender: what was filled, and that every counter and
\* every answer that counts is behind it.
THEOREM Invariance == Spec => []IInv
BY InitIInv, NextIInv, PTL DEF Spec

\* Every variable of the sender keeps its type.
THEOREM SenderTypeCorrect == Spec => []TypeOK
<1>1. IInv => TypeOK
  BY DEF IInv
<1> QED  BY <1>1, Invariance, PTL

\* The sender never leaves a gap: its index in memory, in the file and in what
\* the peer was told is behind the filled ones (OfflinePutFinished, I frame).
THEOREM SenderLeavesNoGap == Spec => []SendIndexBehindFilled
<1>1. IInv => SendIndexBehindFilled
  BY Counters DEF IInv, IFilled, SendIndexBehindFilled
<1> QED  BY <1>1, Invariance, PTL

LEMMA InitMailbox == Init => Peer!MailboxInit
BY DEF Init, Peer!MailboxInit, Index

LEMMA StepMailbox ==
  IInv /\ [Next]_vars => [Peer!PeerStores \/ Peer!Announce]_(Peer!mailboxVars)
<1> SUFFICES ASSUME IInv, [Next]_vars
             PROVE  \/ Peer!PeerStores \/ Peer!Announce
                    \/ UNCHANGED Peer!mailboxVars
  OBVIOUS
<1> USE DEF Peer!mailboxVars
<1>1. CASE UNCHANGED vars
  BY <1>1 DEF vars, mailVars
<1>2. ASSUME NEW t \in Tasks, NEW d \in Drops, DropStores(t, d)
      PROVE  Peer!PeerStores
  <2>1. tasks[t] # NoTask
    BY <1>2 DEF DropStores, PutAt
  <2>2. tasks[t].index \in 0 .. MaxIndex /\ tasks[t].message \in Messages
    BY <2>1, TaskType DEF IInv, Task, Index
  <2>3. tasks[t].index <= sent
    BY <2>1 DEF IInv, IFilled
  <2>4. sent' = IF tasks[t].index = sent THEN tasks[t].index + 1 ELSE sent
    BY <1>2, <2>2, <2>3, Counters, SenderAssumption DEF DropStores, Larger, IInv
  <2>5. held' = [held EXCEPT ![tasks[t].index] = @ \cup {tasks[t].message}]
          /\ UNCHANGED announced
    BY <1>2 DEF DropStores
  <2> QED  BY <2>2, <2>3, <2>4, <2>5 DEF Peer!PeerStores
<1>3. CASE SendIndexSync
  BY <1>3 DEF SendIndexSync, Peer!Announce, Larger, IInv, TypeOK, IFilled
<1>4. CASE \/ \E m \in Messages : SendTooLong(m) \/ SendPressed(m)
           \/ \E t \in Tasks, d \in Drops : DropChecks(t, d) \/ DropFails(t, d)
           \/ \E d \in Drops, i \in Index : DropLoses(d, i)
           \/ \E t \in Tasks : OfflinePutFinished(t) \/ StaleTaskEnds(t)
           \/ GoOffline \/ GoOnline \/ ReceiveIndexSync \/ Restart
  BY <1>4 DEF SendTooLong, SendPressed, DropChecks, DropFails, DropLoses,
              OfflinePutFinished, StaleTaskEnds, GoOffline, GoOnline,
              ReceiveIndexSync, Restart, mailVars
<1> QED  BY <1>1, <1>2, <1>3, <1>4 DEF Next, DropServes

\* The sender implements the mailbox that the receiver assumes: whatever is lost
\* or repeated, its indexes are filled in order.
THEOREM SenderIsMailbox == Spec => ImplementsMailbox
BY InitMailbox, StepMailbox, Invariance, PTL
   DEF Spec, ImplementsMailbox, Peer!MailboxSpec

-----------------------------------------------------------------------------
(* Delivered messages keep their indexes to themselves.                    *)

\* The PUT task of this tab that is out.
Current(t) == tasks[t] # NoTask /\ tasks[t].current

\* On a disk that keeps what was saved the saved index is the one in memory, a
\* message with the mark is behind it, and the one PUT that is out for this tab
\* carries an index that no marked message was sent under.
IDelivered ==
  ~DiskFaults =>
    /\ disk = drop_send_index
    /\ \A m \in delivered : used[m] < drop_send_index
    /\ \A m, n \in delivered : m # n => used[m] # used[n]
    /\ \A t \in Tasks : Current(t) =>
         /\ putting
         /\ tasks[t].index <= drop_send_index
         /\ used[tasks[t].message] = tasks[t].index
         /\ \A n \in delivered : used[n] # tasks[t].index
    /\ \A t, u \in Tasks : Current(t) /\ Current(u) => t = u

\* A step after which the tab has no PUT task that it had not, none of another
\* index or message, and no new mark.
LEMMA NothingDelivered ==
  ASSUME IDelivered, drop_send_index' = drop_send_index, disk' = disk,
         delivered' = delivered, used' = used, putting => putting',
         \A t \in Tasks : Current(t)' =>
           /\ Current(t)
           /\ tasks'[t].index = tasks[t].index
           /\ tasks'[t].message = tasks[t].message
  PROVE  IDelivered'
BY DEF IDelivered

LEMMA InitIDelivered == Init => IDelivered
BY DEF Init, IDelivered, Current

\* The index moves on: what is behind it stays behind it.
LEMMA IndexMovesOn ==
  ASSUME IInv, IDelivered, drop_send_index' \in Nat, drop_send_index <= drop_send_index',
         ~DiskFaults => disk' = drop_send_index',
         UNCHANGED <<tasks, putting, delivered, used>>
  PROVE  IDelivered'
<1> SUFFICES ASSUME ~DiskFaults PROVE IDelivered'
  BY DEF IDelivered
<1>1. drop_send_index \in Nat /\ \A m \in delivered : used[m] \in Nat
  BY Counters DEF IInv, TypeOK
<1>2. \A m \in delivered' : used'[m] < drop_send_index'
  BY <1>1 DEF IDelivered
<1>3. \A t \in Tasks : Current(t) => tasks[t].index \in Nat
  BY TaskType, Counters DEF Current, IInv, Task
<1>4. \A t \in Tasks : Current(t)' => tasks'[t].index <= drop_send_index'
  <2> SUFFICES ASSUME NEW t \in Tasks, Current(t)
               PROVE  tasks[t].index <= drop_send_index'
    BY DEF Current
  <2>1. tasks[t].index <= drop_send_index /\ tasks[t].index \in Nat
    BY <1>3 DEF IDelivered
  <2> QED  BY <1>1, <2>1
<1> QED  BY <1>2, <1>4 DEF IDelivered, Current

\* The new message takes an index that no marked message has.
LEMMA SendPressedDelivered ==
  ASSUME IInv, IDelivered, NEW m \in Messages, SendPressed(m)
  PROVE  IDelivered'
<1> SUFFICES ASSUME ~DiskFaults PROVE IDelivered'
  BY DEF IDelivered
<1> DEFINE new == [message |-> m, index |-> drop_send_index,
                   current |-> TRUE, drop |-> [d \in Drops |-> "sent"]]
<1>1. PICK t \in Tasks : tasks[t] = NoTask /\ tasks' = [tasks EXCEPT ![t] = new]
  BY DEF SendPressed
<1>2. new.index = drop_send_index /\ new.message = m
  OBVIOUS
<1> HIDE DEF new
<1>3. /\ tasks'[t] = new /\ \A u \in Tasks \ {t} : tasks'[u] = tasks[u]
      /\ used'[m] = drop_send_index /\ \A n \in Messages \ {m} : used'[n] = used[n]
  BY <1>1 DEF SendPressed, IInv, TypeOK
<1>4. /\ ~putting /\ putting' = TRUE /\ m \notin written
      /\ UNCHANGED <<drop_send_index, disk, delivered>>
  BY DEF SendPressed
<1>5. \A u \in Tasks : ~Current(u)
  BY <1>4 DEF IDelivered
<1>6. \A u \in Tasks : Current(u)' => u = t
  BY <1>3, <1>5 DEF Current
<1>7. m \notin delivered /\ delivered \subseteq Messages
  BY <1>4 DEF IInv, TypeOK
<1>8. drop_send_index \in Nat /\ \A n \in delivered : used[n] \in Nat /\ used[n] < drop_send_index
  BY Counters DEF IInv, TypeOK, IDelivered
<1>9. \A n \in delivered : used'[n] = used[n] /\ used'[n] # drop_send_index
  BY <1>3, <1>7, <1>8
<1>10. disk = drop_send_index
       /\ \A x, y \in delivered : x # y => used[x] # used[y]
  BY DEF IDelivered
<1> QED  BY <1>2, <1>3, <1>4, <1>6, <1>8, <1>9, <1>10 DEF IDelivered

\* The mark and the index move together.
LEMMA FinishedDelivered ==
  ASSUME IInv, IDelivered, NEW t \in Tasks, OfflinePutFinished(t)
  PROVE  IDelivered'
<1> SUFFICES ASSUME ~DiskFaults PROVE IDelivered'
  BY DEF IDelivered
<1> DEFINE i == tasks[t].index
           m == tasks[t].message
<1>1. /\ Current(t) /\ tasks' = [tasks EXCEPT ![t] = NoTask]
      /\ drop_send_index' = Advanced(t) /\ UNCHANGED used
  BY DEF OfflinePutFinished, Current
<1>2. /\ i <= drop_send_index /\ used[m] = i /\ \A n \in delivered : used[n] # i
      /\ i \in Nat /\ drop_send_index \in Nat /\ m \in Messages
      /\ disk = drop_send_index
  BY <1>1, TaskType, Counters DEF IDelivered, Current, IInv, Task
<1>3. \A u \in Tasks : ~Current(u)'
  <2>1. \A u \in Tasks : Current(u) => u = t
    BY <1>1 DEF IDelivered
  <2>2. tasks'[t] = NoTask /\ \A u \in Tasks \ {t} : tasks'[u] = tasks[u]
    BY <1>1 DEF IInv, TypeOK
  <2> QED  BY <2>1, <2>2 DEF Current
<1>4. /\ \A n \in delivered : used[n] \in Nat /\ used[n] < drop_send_index
      /\ \A x, y \in delivered : x # y => used[x] # used[y]
  <2>1. \A n \in delivered : used[n] \in Nat
    BY Counters DEF IInv, TypeOK
  <2> QED  BY <2>1 DEF IDelivered
<1>5. CASE Status(t) = "FAIL"
  <2>1. drop_send_index' = drop_send_index /\ UNCHANGED <<delivered, disk>>
    BY <1>1, <1>5 DEF Advanced, OfflinePutFinished
  <2> QED  BY <1>1, <1>2, <1>3, <1>4, <2>1 DEF IDelivered
<1>6. CASE Status(t) # "FAIL"
  <2>1. Status(t) \in {"OK", "EXISTS"}
    BY <1>6 DEF Status
  <2>2. /\ delivered' = delivered \cup {m} /\ disk' = drop_send_index'
    BY <1>1, <1>6 DEF OfflinePutFinished, Save
  <2>3. /\ drop_send_index' = IF drop_send_index = i THEN i + 1 ELSE drop_send_index
    BY <1>1, <2>1 DEF Advanced
  <2> HIDE DEF i, m
  <2>4. \A n \in delivered' : used[n] < drop_send_index'
    BY <1>2, <1>4, <2>2, <2>3
  <2>5. \A x, y \in delivered' : x # y => used[x] # used[y]
    BY <1>2, <1>4, <2>2
  <2> QED  BY <1>1, <1>3, <2>2, <2>4, <2>5 DEF IDelivered
<1> QED  BY <1>5, <1>6

LEMMA RestartDelivered ==
  ASSUME IInv, IDelivered, Restart
  PROVE  IDelivered'
<1>1. \A t \in Tasks : ~Current(t)'
  <2> SUFFICES ASSUME NEW t \in Tasks, tasks'[t] # NoTask PROVE ~tasks'[t].current
    BY DEF Current
  <2>1. tasks[t] # NoTask /\ tasks'[t] = [tasks[t] EXCEPT !.current = FALSE]
    BY DEF Restart
  <2>2. tasks[t] \in Task
    BY <2>1, TaskType DEF IInv
  <2> QED  BY <2>1, <2>2 DEF Task
<1>2. drop_send_index' = disk /\ UNCHANGED <<disk, delivered, used>>
  BY DEF Restart, userVars
<1> QED  BY <1>1, <1>2 DEF IDelivered

LEMMA OtherStepsDelivered ==
  ASSUME IInv, IDelivered,
         \/ UNCHANGED vars \/ GoOffline \/ GoOnline \/ SendIndexSync
         \/ \E m \in Messages : SendTooLong(m)
         \/ \E d \in Drops, i \in Index : DropLoses(d, i)
         \/ \E t \in Tasks : StaleTaskEnds(t)
  PROVE  IDelivered'
<1>1. UNCHANGED <<drop_send_index, disk, delivered, used>> /\ (putting => putting')
  BY DEF vars, userVars, GoOffline, GoOnline, SendIndexSync, SendTooLong, DropLoses,
         StaleTaskEnds
<1>2. \A t \in Tasks : tasks'[t] = tasks[t] \/ tasks'[t] = NoTask
  <2>1. CASE \E t \in Tasks : StaleTaskEnds(t)
    BY <2>1 DEF StaleTaskEnds, IInv, TypeOK
  <2>2. CASE UNCHANGED tasks
    BY <2>2
  <2> QED  BY <2>1, <2>2 DEF vars, GoOffline, GoOnline, SendIndexSync, SendTooLong, DropLoses
<1> QED  BY <1>1, <1>2, NothingDelivered DEF Current

LEMMA DropServesDelivered ==
  ASSUME IInv, IDelivered, NEW t \in Tasks, NEW d \in Drops,
         DropChecks(t, d) \/ DropStores(t, d) \/ DropFails(t, d)
  PROVE  IDelivered'
<1>1. PICK b, a \in {"sent", "writing"} \cup Results : PutAt(t, d, b, a)
  BY DEF DropChecks, DropStores, DropFails, Results
<1>2. UNCHANGED <<drop_send_index, disk, putting, delivered, used>>
  BY DEF DropChecks, DropStores, DropFails, userVars
<1>3. /\ \A u \in Tasks \ {t} : tasks'[u] = tasks[u]
      /\ tasks'[t].index = tasks[t].index /\ tasks'[t].message = tasks[t].message
  BY <1>1, PutAtFields DEF IInv
<1>4. tasks[t] # NoTask /\ tasks'[t].current = tasks[t].current
  <2>1. tasks[t] # NoTask /\ tasks' = [tasks EXCEPT ![t].drop[d] = a]
    BY <1>1 DEF PutAt
  <2>2. tasks[t] \in Task /\ tasks \in [Tasks -> Task \cup {NoTask}]
    BY <2>1, TaskType DEF IInv, TypeOK
  <2>3. tasks'[t] = [tasks[t] EXCEPT !.drop = [tasks[t].drop EXCEPT ![d] = a]]
    BY <2>1, <2>2
  <2> QED  BY <2>1, <2>2, <2>3 DEF Task
<1> QED  BY <1>2, <1>3, <1>4, NothingDelivered DEF Current

LEMMA ReceiveDelivered ==
  ASSUME IInv, IDelivered, ReceiveIndexSync
  PROVE  IDelivered'
<1>1. PICK n \in 0 .. sent : drop_send_index' = Larger(drop_send_index, n)
  BY DEF ReceiveIndexSync
<1>2. drop_send_index' \in Nat /\ drop_send_index <= drop_send_index'
  BY <1>1, Counters, LargerFacts DEF IInv, Larger
<1>3. ~DiskFaults => disk' = drop_send_index'
  BY DEF ReceiveIndexSync, Save
<1> QED  BY <1>2, <1>3, IndexMovesOn DEF ReceiveIndexSync, userVars

LEMMA NextIDelivered == IInv /\ IDelivered /\ [Next]_vars => IDelivered'
<1> SUFFICES ASSUME IInv, IDelivered, [Next]_vars PROVE IDelivered'
  OBVIOUS
<1> QED  BY SendPressedDelivered, FinishedDelivered, RestartDelivered, OtherStepsDelivered,
            DropServesDelivered, ReceiveDelivered DEF Next, DropServes

\* For every number of messages, deaddrops and outstanding PUTs: on a disk that
\* keeps what was saved no two messages with the delivered mark were sent under
\* one index, whatever restarts, late PUTs and index syncs come between
\* (OfflinePutFinished).
THEOREM SenderIndexesDistinct == Spec => []DeliveredIndexesDistinct
<1>1. Init => IDelivered
  BY InitIDelivered
<1>2. IInv /\ IDelivered /\ [Next]_vars => IDelivered'
  BY NextIDelivered
<1>3. IDelivered => DeliveredIndexesDistinct
  BY DEF IDelivered, DeliveredIndexesDistinct
<1> QED  BY <1>1, <1>2, <1>3, Invariance, PTL DEF Spec

=============================================================================
