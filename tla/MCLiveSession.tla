---------------------------- MODULE MCLiveSession ----------------------------
EXTENDS LiveSession

\* The transient peers 1 and 2 call each other, 1 calls the contact 3.
MCKnows == {<<1, 2>>, <<2, 1>>, <<1, 3>>}

\* Behaviours with an invitation, with a fault and with a locked contact are
\* explored apart from each other; peer 1 is the one that asks for an invitation.
InvitationsApart ==
  LET invitation == \E p \in Peers : access[p] # NoAccess \/ issued[p] # NoIssue
      locked == \E p \in Peers : tab[p].stored # None
  IN
  /\ ~(invitation /\ faults > 0) /\ ~(locked /\ faults > 0) /\ ~(locked /\ invitation)
  /\ invitation => \A c \in Calls : call[c].to \in Transient \cup {None}
  /\ access[2] = NoAccess
=============================================================================
