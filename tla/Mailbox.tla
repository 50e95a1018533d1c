------------------------------ MODULE Mailbox ------------------------------
(***************************************************************************)
(* What the sending half of offline delivery owes the receiving half: the  *)
(* indexes of the stored messages are filled in order, without a gap, and  *)
(* the peer is never told of an index that was not filled.  One index may  *)
(* come to hold several messages: different ones on different deaddrops,   *)
(* or one after the other.  OfflineReceiver assumes no more of its peer.   *)
(***************************************************************************)
EXTENDS Naturals

CONSTANTS Messages, Limit  \* the messages; bound: number of indexes

VARIABLES
  sent,      \* indexes 0..sent-1 have been filled
  held,      \* the messages ever stored under each index
  announced  \* the highest next send index the peer was told

mailboxVars == <<sent, held, announced>>

MailboxInit ==
  /\ sent = 0
  /\ held = [i \in 0 .. Limit |-> {}]
  /\ announced = 0

PeerStores ==
  \E i \in 0 .. Limit, m \in Messages :
    /\ i <= sent
    /\ held' = [held EXCEPT ![i] = @ \cup {m}]
    /\ sent' = IF i = sent THEN i + 1 ELSE sent
    /\ UNCHANGED announced

Announce ==
  /\ announced' \in announced .. sent
  /\ UNCHANGED <<sent, held>>

MailboxSpec == MailboxInit /\ [][PeerStores \/ Announce]_mailboxVars

=============================================================================
