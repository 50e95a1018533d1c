---------------------------- MODULE MCGroupRoster ----------------------------
EXTENDS GroupRoster

\* The private invitation is for peer 3.
MCRecipient == [t \in Private |-> 3]

\* A change and a fault are explored apart from each other.  While the second
\* invitation is there too, only one peer joins: with two streams a second joiner
\* might find none free for ever.
Apart ==
  /\ edits + faults <= 1
  /\ \/ Cardinality({t \in Tokens : issued[t] # NotIssued}) <= 1
     \/ Cardinality({q \in Others : meta[q] # NoGroup}) <= 1
=============================================================================
