------------------------ MODULE OfflineReceiverProofs ------------------------
(***************************************************************************)
(* Proofs about OfflineReceiver, for every value of its constants.         *)
(***************************************************************************)
EXTENDS OfflineReceiver, FiniteSetTheorems, WellFoundedInduction, TLAPS

\* A nonempty set of naturals has a least member, and Min is it.  (The library
\* states it for a predicate; here it follows from the well-founded order of
\* the finite sets 0 .. x.)
LEMMA MinIsLeast ==
  ASSUME NEW S, S \subseteq Nat, S # {}
  PROVE  Min(S) \in S /\ \A y \in S : Min(S) <= y
<1> DEFINE Below(x) == 0 .. x
           T == {Below(x) : x \in S}
<1>1. \A x \in S : Below(x) \in FiniteSubsetsOf(Nat)
  <2> TAKE x \in S
  <2>1. IsFiniteSet(Below(x))
    BY FS_Interval
  <2> QED  BY <2>1 DEF FiniteSubsetsOf
<1>2. T \subseteq FiniteSubsetsOf(Nat) /\ T # {}
  BY <1>1
<1>3. \E b \in T : \A c \in T : ~(<<c, b>> \in StrictSubsetOrdering(Nat))
  <2>1. IsWellFoundedOn(StrictSubsetOrdering(Nat), FiniteSubsetsOf(Nat))
    BY FS_StrictSubsetOrderingWellFounded
  <2> HIDE DEF T
  <2> QED  BY <1>2, <2>1, WFMin
<1>4. \E x \in S : \A y \in S : ~(<<Below(y), Below(x)>> \in StrictSubsetOrdering(Nat))
  BY <1>3
<1>5. \A x, y \in S : ~(<<Below(y), Below(x)>> \in StrictSubsetOrdering(Nat)) => x <= y
  <2> SUFFICES ASSUME NEW x \in S, NEW y \in S, ~(x <= y)
               PROVE  <<Below(y), Below(x)>> \in StrictSubsetOrdering(Nat)
    OBVIOUS
  <2>1. Below(y) \subseteq Below(x) /\ x \in Below(x) /\ x \notin Below(y)
    BY SMT
  <2>2. Below(x) \subseteq Nat /\ Below(y) \subseteq Nat
    BY SMT
  <2> HIDE DEF Below
  <2> QED  BY <2>1, <2>2 DEF StrictSubsetOrdering
<1>6. \E x \in S : \A y \in S : x <= y
  BY <1>4, <1>5
<1> QED  BY <1>6 DEF Min

-----------------------------------------------------------------------------
(* The inductive invariant.                                                *)

ShownIndexes == {i \in Index : Shown(i)}

\* A receive state r is good for a peer that has sent n messages, the set S of
\* indexes shown, the set D of gaps forgotten and the count M of MISS rounds.
Good(r, n, S, D, M) ==
  /\ r \in OfflineState
  /\ r.drop_recv_base <= r.known_remote_next_send
  /\ r.known_remote_next_send <= n
  /\ \A i \in r.consumed_drop_recv \cup r.skipped_drop_recv :
       i < r.known_remote_next_send
  /\ r.consumed_drop_recv \subseteq S
  /\ \A i \in Index : i < r.drop_recv_base =>
       i \in S \/ i \in r.skipped_drop_recv \/ i \in D
  /\ \A i \in Index : r.missing_drop_recv[i] <= M[i]
  /\ \A i \in r.skipped_drop_recv : M[i] >= GapMissRounds

\* The receive base and the known send index of r are not behind those of q.
Ahead(q, r) ==
  /\ q.drop_recv_base <= r.drop_recv_base
  /\ q.known_remote_next_send <= r.known_remote_next_send

\* Counting the misses of the running round keeps within M.
Countable(r, misses, M) == \A i \in Index : Counted(r, misses)[i] <= M[i]

IRecv ==
  /\ Good(rx, sent, ShownIndexes, dropped, missAnswers)
  /\ Good(disk, sent, ShownIndexes, dropped, missAnswers)
  /\ Countable(rx, roundMisses, missAnswers)
  /\ \A i \in Index : held[i] # {} => i < sent
  /\ \A i \in dropped : missAnswers[i] >= GapMissRounds

IInv == TypeOK /\ IRecv

-----------------------------------------------------------------------------
(* What the pure parts do to a good receive state.                         *)

\* Nothing that the peer, the user's screen or the counters may gain makes a
\* good receive state bad.
LEMMA GoodMonotone ==
  ASSUME NEW r, NEW n \in Nat, NEW nn \in Nat, n <= nn,
         NEW S, NEW SS, S \subseteq SS, NEW D, NEW DD, D \subseteq DD,
         NEW M \in [Index -> Nat], NEW MM \in [Index -> Nat],
         \A i \in Index : M[i] <= MM[i],
         Good(r, n, S, D, M)
  PROVE  Good(r, nn, SS, DD, MM)
<1>0. /\ r \in OfflineState
      /\ r.drop_recv_base <= r.known_remote_next_send
      /\ r.known_remote_next_send <= n
      /\ \A i \in r.consumed_drop_recv \cup r.skipped_drop_recv :
           i < r.known_remote_next_send
      /\ r.consumed_drop_recv \subseteq S
      /\ \A i \in Index : i < r.drop_recv_base =>
           i \in S \/ i \in r.skipped_drop_recv \/ i \in D
      /\ \A i \in Index : r.missing_drop_recv[i] <= M[i]
      /\ \A i \in r.skipped_drop_recv : M[i] >= GapMissRounds
  BY DEF Good
<1>1. r.known_remote_next_send <= nn
  BY <1>0, ReceiverAssumption, SMT DEF OfflineState, Top
<1>2. \A i \in Index : r.missing_drop_recv[i] <= MM[i]
  <2> TAKE i \in Index
  <2>1. /\ r.missing_drop_recv[i] \in Nat /\ M[i] \in Nat /\ MM[i] \in Nat
        /\ r.missing_drop_recv[i] <= M[i] /\ M[i] <= MM[i]
    BY <1>0, ReceiverAssumption, SMT DEF OfflineState
  <2> QED  BY <2>1, SMT
<1>3. \A i \in r.skipped_drop_recv : MM[i] >= GapMissRounds
  <2> TAKE i \in r.skipped_drop_recv
  <2>1. i \in Index
    BY <1>0, SMT DEF OfflineState
  <2>2. M[i] \in Nat /\ MM[i] \in Nat /\ M[i] >= GapMissRounds /\ M[i] <= MM[i]
    BY <1>0, <2>1, SMT
  <2> QED  BY <2>2, ReceiverAssumption, SMT
<1>4. \A i \in Index : i < r.drop_recv_base =>
        i \in SS \/ i \in r.skipped_drop_recv \/ i \in DD
  BY <1>0
<1> QED  BY <1>0, <1>1, <1>2, <1>3, <1>4 DEF Good

\* The first open index lies between the base and the known send index, and
\* every index before it was consumed or skipped.
LEMMA FirstOpenBounds ==
  ASSUME NEW r \in OfflineState,
         r.drop_recv_base <= r.known_remote_next_send,
         \A i \in r.consumed_drop_recv \cup r.skipped_drop_recv :
           i < r.known_remote_next_send
  PROVE  /\ FirstOpen(r) \in r.drop_recv_base .. r.known_remote_next_send
         /\ \A i \in Index : r.drop_recv_base <= i /\ i < FirstOpen(r)
              => i \in r.consumed_drop_recv \cup r.skipped_drop_recv
<1> DEFINE Open == {i \in r.drop_recv_base .. Top :
                      i \notin r.consumed_drop_recv \cup r.skipped_drop_recv}
<1> USE ReceiverAssumption DEF OfflineState, Index, Top
<1>1. r.known_remote_next_send \in Open
  BY SMT
<1>2. Open \subseteq Nat
  BY SMT
<1>3. FirstOpen(r) = Min(Open)
  BY DEF FirstOpen
<1>4. Min(Open) \in Open /\ \A i \in Open : Min(Open) <= i
  <2> HIDE DEF Open
  <2> QED  BY <1>1, <1>2, MinIsLeast
<1>5. FirstOpen(r) \in r.drop_recv_base .. r.known_remote_next_send
  BY <1>1, <1>3, <1>4, SMT
<1>6. ASSUME NEW i \in Index, r.drop_recv_base <= i, i < FirstOpen(r)
      PROVE  i \in r.consumed_drop_recv \cup r.skipped_drop_recv
  <2>1. i \notin Open
    <3>1. i \in Nat /\ Min(Open) \in Nat /\ i < Min(Open)
      <4>1. Min(Open) \in Nat /\ i < Min(Open)
        <5> HIDE DEF Open
        <5> QED  BY <1>2, <1>3, <1>4, <1>6
      <4>2. i \in Nat
        OBVIOUS
      <4> QED  BY <4>1, <4>2
    <3>2. ASSUME i \in Open
          PROVE  Min(Open) <= i
      <4> HIDE DEF Open
      <4> QED  BY <1>4, <3>2
    <3> HIDE DEF Open
    <3>3. ~(Min(Open) <= i)
      BY <3>1, SMT
    <3> QED  BY <3>2, <3>3
  <2>2. i \in r.drop_recv_base .. Top
    BY <1>6, SMT
  <2> QED  BY <2>1, <2>2
<1> QED  BY <1>5, <1>6

\* The updates of an advance of the base, of a round's end and of an
\* authenticated message, and the fields they leave.  (The solvers take one
\* EXCEPT at a time.)
WithAdvance(r, f, c) ==
  [r EXCEPT !.drop_recv_base = f, !.consumed_drop_recv = c]

WithRound(r, m, s, p) ==
  [r EXCEPT !.missing_drop_recv = m, !.skipped_drop_recv = s,
            !.recently_probed = p]

WithMessage(r, k, m, s, p, c) ==
  [r EXCEPT !.known_remote_next_send = k, !.missing_drop_recv = m,
            !.skipped_drop_recv = s, !.recently_probed = p,
            !.consumed_drop_recv = c]

LEMMA AdvanceFields ==
  ASSUME NEW r \in OfflineState, NEW f \in 0 .. Top, NEW c \in SUBSET Index
  PROVE  LET a == WithAdvance(r, f, c) IN
         /\ a \in OfflineState
         /\ a.drop_recv_base = f
         /\ a.consumed_drop_recv = c
         /\ a.known_remote_next_send = r.known_remote_next_send
         /\ a.missing_drop_recv = r.missing_drop_recv
         /\ a.skipped_drop_recv = r.skipped_drop_recv
<1> DEFINE b == [r EXCEPT !.drop_recv_base = f]
           a == [b EXCEPT !.consumed_drop_recv = c]
<1>1. /\ b \in OfflineState
      /\ b.drop_recv_base = f
      /\ b.known_remote_next_send = r.known_remote_next_send
      /\ b.missing_drop_recv = r.missing_drop_recv
      /\ b.skipped_drop_recv = r.skipped_drop_recv
  BY SMT DEF OfflineState
<1>2. /\ a \in OfflineState
      /\ a.drop_recv_base = b.drop_recv_base
      /\ a.consumed_drop_recv = c
      /\ a.known_remote_next_send = b.known_remote_next_send
      /\ a.missing_drop_recv = b.missing_drop_recv
      /\ a.skipped_drop_recv = b.skipped_drop_recv
  <2> HIDE DEF b
  <2> QED  BY <1>1, SMT DEF OfflineState
<1> QED  BY <1>1, <1>2 DEF WithAdvance

LEMMA RoundFields ==
  ASSUME NEW r \in OfflineState, NEW m \in [Index -> 0 .. GapMissRounds],
         NEW s \in SUBSET Index, NEW p \in SUBSET Index
  PROVE  LET a == WithRound(r, m, s, p) IN
         /\ a \in OfflineState
         /\ a.drop_recv_base = r.drop_recv_base
         /\ a.consumed_drop_recv = r.consumed_drop_recv
         /\ a.known_remote_next_send = r.known_remote_next_send
         /\ a.missing_drop_recv = m
         /\ a.skipped_drop_recv = s
<1> DEFINE b == [r EXCEPT !.missing_drop_recv = m]
           d == [b EXCEPT !.skipped_drop_recv = s]
           a == [d EXCEPT !.recently_probed = p]
<1>1. /\ b \in OfflineState
      /\ b.drop_recv_base = r.drop_recv_base
      /\ b.consumed_drop_recv = r.consumed_drop_recv
      /\ b.known_remote_next_send = r.known_remote_next_send
      /\ b.missing_drop_recv = m
  BY SMT DEF OfflineState
<1>2. /\ d \in OfflineState
      /\ d.drop_recv_base = b.drop_recv_base
      /\ d.consumed_drop_recv = b.consumed_drop_recv
      /\ d.known_remote_next_send = b.known_remote_next_send
      /\ d.missing_drop_recv = b.missing_drop_recv
      /\ d.skipped_drop_recv = s
  <2> HIDE DEF b
  <2> QED  BY <1>1, SMT DEF OfflineState
<1>3. /\ a \in OfflineState
      /\ a.drop_recv_base = d.drop_recv_base
      /\ a.consumed_drop_recv = d.consumed_drop_recv
      /\ a.known_remote_next_send = d.known_remote_next_send
      /\ a.missing_drop_recv = d.missing_drop_recv
      /\ a.skipped_drop_recv = d.skipped_drop_recv
  <2> HIDE DEF d
  <2> QED  BY <1>2, SMT DEF OfflineState
<1> HIDE DEF b, d, a
<1>4. /\ a \in OfflineState
      /\ a.drop_recv_base = r.drop_recv_base
      /\ a.consumed_drop_recv = r.consumed_drop_recv
      /\ a.known_remote_next_send = r.known_remote_next_send
      /\ a.missing_drop_recv = m
      /\ a.skipped_drop_recv = s
  BY <1>1, <1>2, <1>3
<1> QED  BY <1>4 DEF WithRound, a, d, b

LEMMA MessageFields ==
  ASSUME NEW r \in OfflineState, NEW k \in 0 .. Top,
         NEW m \in [Index -> 0 .. GapMissRounds], NEW s \in SUBSET Index,
         NEW p \in SUBSET Index, NEW c \in SUBSET Index
  PROVE  LET a == WithMessage(r, k, m, s, p, c) IN
         /\ a \in OfflineState
         /\ a.drop_recv_base = r.drop_recv_base
         /\ a.consumed_drop_recv = c
         /\ a.known_remote_next_send = k
         /\ a.missing_drop_recv = m
         /\ a.skipped_drop_recv = s
<1> DEFINE b == [r EXCEPT !.known_remote_next_send = k]
           d == WithRound(b, m, s, p)
           a == [d EXCEPT !.consumed_drop_recv = c]
<1>1. /\ b \in OfflineState
      /\ b.drop_recv_base = r.drop_recv_base
      /\ b.known_remote_next_send = k
  BY SMT DEF OfflineState
<1>2. /\ d \in OfflineState
      /\ d.drop_recv_base = b.drop_recv_base
      /\ d.known_remote_next_send = b.known_remote_next_send
      /\ d.missing_drop_recv = m
      /\ d.skipped_drop_recv = s
  <2> HIDE DEF b
  <2> QED  BY <1>1, RoundFields
<1>3. /\ a \in OfflineState
      /\ a.drop_recv_base = d.drop_recv_base
      /\ a.consumed_drop_recv = c
      /\ a.known_remote_next_send = d.known_remote_next_send
      /\ a.missing_drop_recv = d.missing_drop_recv
      /\ a.skipped_drop_recv = d.skipped_drop_recv
  <2> HIDE DEF d
  <2> QED  BY <1>2, SMT DEF OfflineState
<1> HIDE DEF b, d, a
<1>4. /\ a \in OfflineState
      /\ a.drop_recv_base = r.drop_recv_base
      /\ a.consumed_drop_recv = c
      /\ a.known_remote_next_send = k
      /\ a.missing_drop_recv = m
      /\ a.skipped_drop_recv = s
  BY <1>1, <1>2, <1>3
<1> QED  BY <1>4 DEF WithMessage, WithRound, a, d, b

\* Advancing the base keeps a receive state good and changes only the base and
\* the consumed indexes.
LEMMA AdvanceGood ==
  ASSUME NEW r, NEW n \in Nat, NEW S, NEW D, NEW M, Good(r, n, S, D, M)
  PROVE  /\ Good(AdvanceDropRecvBase(r), n, S, D, M)
         /\ Ahead(r, AdvanceDropRecvBase(r))
         /\ AdvanceDropRecvBase(r).missing_drop_recv = r.missing_drop_recv
<1> DEFINE a == AdvanceDropRecvBase(r)
<1>0. r \in OfflineState
  BY DEF Good
<1>1. /\ FirstOpen(r) \in r.drop_recv_base .. r.known_remote_next_send
      /\ \A i \in Index : r.drop_recv_base <= i /\ i < FirstOpen(r)
           => i \in r.consumed_drop_recv \cup r.skipped_drop_recv
  BY FirstOpenBounds DEF Good
<1>2. FirstOpen(r) \in 0 .. Top
  BY <1>0, <1>1, ReceiverAssumption, SMT DEF OfflineState, Top
<1>3. /\ a.drop_recv_base = FirstOpen(r)
      /\ a.consumed_drop_recv = {i \in r.consumed_drop_recv : i >= FirstOpen(r)}
      /\ a.known_remote_next_send = r.known_remote_next_send
      /\ a.missing_drop_recv = r.missing_drop_recv
      /\ a.skipped_drop_recv = r.skipped_drop_recv
      /\ a \in OfflineState
  <2> DEFINE c == {i \in r.consumed_drop_recv : i >= FirstOpen(r)}
  <2>1. c \in SUBSET Index
    BY <1>0 DEF OfflineState
  <2>2. a = WithAdvance(r, FirstOpen(r), c)
    BY DEF AdvanceDropRecvBase, WithAdvance
  <2> HIDE DEF c, a
  <2>3. /\ a.drop_recv_base = FirstOpen(r)
        /\ a.consumed_drop_recv = c
        /\ a.known_remote_next_send = r.known_remote_next_send
        /\ a.missing_drop_recv = r.missing_drop_recv
        /\ a.skipped_drop_recv = r.skipped_drop_recv
        /\ a \in OfflineState
    BY <1>0, <1>2, <2>1, <2>2, AdvanceFields
  <2> QED  BY <2>3 DEF c
<1>4. a.drop_recv_base <= a.known_remote_next_send
  BY <1>0, <1>1, <1>3, ReceiverAssumption, SMT DEF OfflineState, Top
<1>5. ASSUME NEW i \in Index, i < a.drop_recv_base
      PROVE  i \in S \/ i \in a.skipped_drop_recv \/ i \in D
  <2>1. CASE i < r.drop_recv_base
    BY <2>1, <1>3 DEF Good
  <2>2. CASE ~(i < r.drop_recv_base)
    <3>1. r.drop_recv_base <= i
      BY <2>2, <1>0, ReceiverAssumption, SMT DEF OfflineState, Index, Top
    <3> QED  BY <3>1, <1>1, <1>3, <1>5 DEF Good
  <2> QED  BY <2>1, <2>2
<1> HIDE DEF a
<1>6. Ahead(r, a)
  BY <1>0, <1>1, <1>3, ReceiverAssumption, SMT DEF OfflineState, Top, Ahead
<1> QED  BY <1>3, <1>4, <1>5, <1>6 DEF Good, a

LEMMA AheadTransitive ==
  ASSUME NEW q \in OfflineState, NEW a \in OfflineState, NEW r \in OfflineState,
         Ahead(q, a), Ahead(a, r)
  PROVE  Ahead(q, r)
BY ReceiverAssumption, SMT DEF OfflineState, Top, Ahead

\* A message found under index i, which its sender has sent, leaves a good
\* receive state, once i counts as shown.
LEMMA AuthenticatedGood ==
  ASSUME NEW r, NEW n \in 0 .. Top, NEW S, NEW D,
         NEW M \in [Index -> 0 .. GapMissRounds], Good(r, n, S, D, M),
         NEW i \in Index, i < n, i \in S
  PROVE  /\ Good(Authenticated(r, i), n, S, D, M)
         /\ Ahead(r, Authenticated(r, i))
         /\ Authenticated(r, i).missing_drop_recv
              = [r.missing_drop_recv EXCEPT ![i] = 0]
<1> DEFINE k == Larger(r.known_remote_next_send, i + 1)
           m == [r.missing_drop_recv EXCEPT ![i] = 0]
           s == r.skipped_drop_recv \ {i}
           p == r.recently_probed \ {i}
           c == IF i >= r.drop_recv_base
                THEN r.consumed_drop_recv \cup {i} ELSE r.consumed_drop_recv
           a == WithMessage(r, k, m, s, p, c)
<1>0. /\ r \in OfflineState
      /\ r.drop_recv_base <= r.known_remote_next_send
      /\ r.known_remote_next_send <= n
      /\ \A j \in r.consumed_drop_recv \cup r.skipped_drop_recv :
           j < r.known_remote_next_send
      /\ r.consumed_drop_recv \subseteq S
      /\ \A j \in Index : j < r.drop_recv_base =>
           j \in S \/ j \in r.skipped_drop_recv \/ j \in D
      /\ \A j \in Index : r.missing_drop_recv[j] <= M[j]
      /\ \A j \in r.skipped_drop_recv : M[j] >= GapMissRounds
  BY DEF Good
<1>1. /\ k \in 0 .. Top /\ k <= n
      /\ i < k /\ r.known_remote_next_send <= k
  <2>1. /\ Top \in Nat /\ i \in 0 .. Top - 1 /\ n \in 0 .. Top
        /\ r.known_remote_next_send \in 0 .. Top
    BY <1>0, ReceiverAssumption, SMT DEF OfflineState, Index, Top
  <2>2. r.known_remote_next_send <= n
    BY <1>0
  <2>3. k = IF r.known_remote_next_send >= i + 1
            THEN r.known_remote_next_send ELSE i + 1
    BY <2>1, SMT DEF Larger
  <2> HIDE DEF k
  <2> QED  BY <2>1, <2>2, <2>3, SMT
<1>2. /\ m \in [Index -> 0 .. GapMissRounds]
      /\ \A j \in Index : m[j] <= M[j]
  BY <1>0, ReceiverAssumption, SMT DEF OfflineState
<1>3. s \in SUBSET Index /\ p \in SUBSET Index /\ c \in SUBSET Index
  BY <1>0, SMT DEF OfflineState
<1>4. /\ c \subseteq S
      /\ c \cup s \subseteq {i} \cup r.consumed_drop_recv \cup r.skipped_drop_recv
  BY <1>0
<1>5. Authenticated(r, i) = AdvanceDropRecvBase(a)
  BY DEF Authenticated, WithMessage
<1>6. /\ a \in OfflineState
      /\ a.drop_recv_base = r.drop_recv_base
      /\ a.consumed_drop_recv = c
      /\ a.known_remote_next_send = k
      /\ a.missing_drop_recv = m
      /\ a.skipped_drop_recv = s
  <2> HIDE DEF k, m, s, p, c
  <2> QED  BY <1>0, <1>1, <1>2, <1>3, MessageFields
<1>7. a.drop_recv_base <= a.known_remote_next_send
  <2> HIDE DEF k, a
  <2> QED  BY <1>0, <1>1, <1>6, ReceiverAssumption, SMT DEF OfflineState, Top
<1>8. \A j \in a.consumed_drop_recv \cup a.skipped_drop_recv :
        j < a.known_remote_next_send
  <2> TAKE j \in a.consumed_drop_recv \cup a.skipped_drop_recv
  <2>1. j \in Index /\ (j = i \/ j < r.known_remote_next_send)
    <3> HIDE DEF a, k
    <3> QED  BY <1>0, <1>3, <1>4, <1>6
  <2> HIDE DEF a, k
  <2> QED  BY <2>1, <1>0, <1>1, <1>6, ReceiverAssumption, SMT
           DEF OfflineState, Index, Top
<1>9. Good(a, n, S, D, M)
  <2>1. \A j \in Index : j < a.drop_recv_base =>
          j \in S \/ j \in a.skipped_drop_recv \/ j \in D
    BY <1>0, <1>6
  <2> HIDE DEF a, k, m, c
  <2>2. \A j \in a.skipped_drop_recv : M[j] >= GapMissRounds
    BY <1>0, <1>6
  <2> QED  BY <1>1, <1>2, <1>4, <1>6, <1>7, <1>8, <2>1, <2>2 DEF Good
<1> HIDE DEF a, m, k
<1>10. n \in Nat
  BY ReceiverAssumption DEF Top
<1>11. /\ Good(AdvanceDropRecvBase(a), n, S, D, M) /\ Ahead(a, AdvanceDropRecvBase(a))
       /\ AdvanceDropRecvBase(a).missing_drop_recv = a.missing_drop_recv
  BY <1>9, <1>10, AdvanceGood
<1>12. Ahead(r, a)
  BY <1>0, <1>1, <1>6, ReceiverAssumption, SMT DEF OfflineState, Top, Ahead
<1>13. Ahead(r, AdvanceDropRecvBase(a))
  BY <1>0, <1>6, <1>11, <1>12, AheadTransitive DEF Good
<1> QED  BY <1>5, <1>6, <1>11, <1>13 DEF m

\* The counters after a round stay counters.
LEMMA CountedType ==
  ASSUME NEW r \in OfflineState, NEW misses
  PROVE  Counted(r, misses) \in [Index -> 0 .. GapMissRounds]
<1> SUFFICES ASSUME NEW i \in Index
             PROVE  (IF i \in misses /\ r.missing_drop_recv[i] < GapMissRounds
                     THEN r.missing_drop_recv[i] + 1
                     ELSE r.missing_drop_recv[i]) \in 0 .. GapMissRounds
  BY DEF Counted
<1>1. r.missing_drop_recv[i] \in 0 .. GapMissRounds
  BY SMT DEF OfflineState
<1> QED  BY <1>1, ReceiverAssumption, SMT

\* The end of a round leaves a good receive state, when what it forgets of the
\* skipped gaps counts as forgotten; each gap it skips has its misses.
LEMMA RecountedGood ==
  ASSUME NEW r, NEW n \in 0 .. Top, NEW S, NEW D, NEW DD, D \subseteq DD,
         NEW M \in [Index -> 0 .. GapMissRounds], Good(r, n, S, D, M),
         NEW misses, NEW expired, Countable(r, misses, M),
         AllSkipped(r, misses) \ KeptSkipped(r, misses, expired) \subseteq DD
  PROVE  /\ Good(Recounted(r, misses, expired), n, S, DD, M)
         /\ Ahead(r, Recounted(r, misses, expired))
         /\ \A i \in AllSkipped(r, misses) : M[i] >= GapMissRounds
<1> DEFINE m == [i \in Index |-> IF i \in KeptMissing(r, misses)
                                 THEN Counted(r, misses)[i] ELSE 0]
           s == KeptSkipped(r, misses, expired)
           p == r.recently_probed \cap KeptSkipped(r, misses, expired)
           a == WithRound(r, m, s, p)
<1>0. /\ r \in OfflineState
      /\ r.drop_recv_base <= r.known_remote_next_send
      /\ r.known_remote_next_send <= n
      /\ \A j \in r.consumed_drop_recv \cup r.skipped_drop_recv :
           j < r.known_remote_next_send
      /\ r.consumed_drop_recv \subseteq S
      /\ \A j \in Index : j < r.drop_recv_base =>
           j \in S \/ j \in r.skipped_drop_recv \/ j \in D
      /\ \A j \in r.skipped_drop_recv : M[j] >= GapMissRounds
  BY DEF Good
<1>1. Counted(r, misses) \in [Index -> 0 .. GapMissRounds]
  BY <1>0, CountedType
<1>2. \A i \in Index : Counted(r, misses)[i] <= M[i]
  BY DEF Countable
<1>3. ASSUME NEW i \in AllSkipped(r, misses)
      PROVE  /\ i \in Index
             /\ i < r.known_remote_next_send
             /\ M[i] >= GapMissRounds
  <2>1. CASE i \in r.skipped_drop_recv
    BY <2>1, <1>0, SMT DEF OfflineState
  <2>2. CASE i \in SkipIndexes(r, misses)
    <3>1. /\ i \in Index /\ i < r.known_remote_next_send
          /\ Counted(r, misses)[i] >= GapMissRounds
      BY <2>2 DEF SkipIndexes
    <3>2. Counted(r, misses)[i] \in 0 .. GapMissRounds /\ M[i] \in 0 .. GapMissRounds
      BY <3>1, <1>1
    <3> QED  BY <3>1, <3>2, <1>2, ReceiverAssumption, SMT
  <2> QED  BY <2>1, <2>2, <1>3 DEF AllSkipped
<1>4. s \subseteq AllSkipped(r, misses)
  BY DEF KeptSkipped, Smallest
<1>5. m \in [Index -> 0 .. GapMissRounds] /\ \A i \in Index : m[i] <= M[i]
  <2> SUFFICES ASSUME NEW i \in Index
               PROVE  m[i] \in 0 .. GapMissRounds /\ m[i] <= M[i]
    OBVIOUS
  <2>1. m[i] = Counted(r, misses)[i] \/ m[i] = 0
    OBVIOUS
  <2>2. Counted(r, misses)[i] \in 0 .. GapMissRounds /\ M[i] \in 0 .. GapMissRounds
    BY <1>1
  <2> HIDE DEF m
  <2> QED  BY <2>1, <2>2, <1>2, ReceiverAssumption, SMT
<1>6. s \in SUBSET Index /\ p \in SUBSET Index
  BY <1>3, <1>4
<1>7. /\ a \in OfflineState
      /\ a.drop_recv_base = r.drop_recv_base
      /\ a.consumed_drop_recv = r.consumed_drop_recv
      /\ a.known_remote_next_send = r.known_remote_next_send
      /\ a.missing_drop_recv = m
      /\ a.skipped_drop_recv = s
  <2> HIDE DEF m, s, p
  <2> QED  BY <1>0, <1>5, <1>6, RoundFields
<1>8. Recounted(r, misses, expired) = AdvanceDropRecvBase(a)
  BY DEF Recounted, WithRound
<1>9. Good(a, n, S, DD, M)
  <2>1. ASSUME NEW j \in Index, j < a.drop_recv_base
        PROVE  j \in S \/ j \in a.skipped_drop_recv \/ j \in DD
    <3>1. r.skipped_drop_recv \subseteq AllSkipped(r, misses)
      BY DEF AllSkipped
    <3> HIDE DEF a, s
    <3> QED  BY <3>1, <2>1, <1>0, <1>7 DEF s
  <2> HIDE DEF a, m, s
  <2>2. \A j \in a.consumed_drop_recv \cup a.skipped_drop_recv :
          j < a.known_remote_next_send
    BY <1>0, <1>3, <1>4, <1>7
  <2>3. \A j \in a.skipped_drop_recv : M[j] >= GapMissRounds
    BY <1>3, <1>4, <1>7
  <2> QED  BY <1>0, <1>5, <1>7, <2>1, <2>2, <2>3 DEF Good
<1> HIDE DEF a
<1>10. n \in Nat
  BY ReceiverAssumption DEF Top
<1>11. Good(AdvanceDropRecvBase(a), n, S, DD, M) /\ Ahead(a, AdvanceDropRecvBase(a))
  BY <1>9, <1>10, AdvanceGood
<1>12. Ahead(r, a)
  BY <1>0, <1>7, ReceiverAssumption, SMT DEF OfflineState, Top, Ahead
<1>13. Ahead(r, AdvanceDropRecvBase(a))
  BY <1>0, <1>7, <1>11, <1>12, AheadTransitive DEF Good
<1> QED  BY <1>3, <1>8, <1>11, <1>13

LEMMA FinalizeGood ==
  ASSUME NEW r, NEW n \in 0 .. Top, NEW S, NEW D, NEW DD, D \subseteq DD,
         NEW M \in [Index -> 0 .. GapMissRounds], Good(r, n, S, D, M),
         NEW misses, NEW auth, NEW expired, Countable(r, misses, M),
         AllSkipped(r, misses) \ KeptSkipped(r, misses, expired) \subseteq DD
  PROVE  /\ Good(FinalizeOfflinePollRound(r, misses, auth, expired), n, S, DD, M)
         /\ Ahead(r, FinalizeOfflinePollRound(r, misses, auth, expired))
<1> DEFINE a == Recounted(r, misses, expired)
           f == SaturatingAdd(a.drop_recv_base, Window)
           b == [a EXCEPT !.forward_probe_index = f]
<1>1. Good(a, n, S, DD, M) /\ Ahead(r, a)
  BY RecountedGood
<1>2. a \in OfflineState
  BY <1>1 DEF Good
<1> HIDE DEF a
<1>3. f \in 0 .. Top
  BY <1>2, ReceiverAssumption, SMT DEF OfflineState, SaturatingAdd, Top
<1> HIDE DEF f
<1>4. /\ b \in OfflineState
      /\ b.drop_recv_base = a.drop_recv_base
      /\ b.consumed_drop_recv = a.consumed_drop_recv
      /\ b.known_remote_next_send = a.known_remote_next_send
      /\ b.missing_drop_recv = a.missing_drop_recv
      /\ b.skipped_drop_recv = a.skipped_drop_recv
  BY <1>2, <1>3, SMT DEF OfflineState
<1> HIDE DEF b
<1>5. Good(b, n, S, DD, M) /\ Ahead(r, b)
  BY <1>1, <1>4 DEF Good, Ahead
<1> QED  BY <1>1, <1>5 DEF FinalizeOfflinePollRound, a, b, f

\* With no miss to count, the counters of a good receive state are within M.
LEMMA NothingToCount ==
  ASSUME NEW r, NEW n, NEW S, NEW D, NEW M, Good(r, n, S, D, M)
  PROVE  Countable(r, {}, M)
BY DEF Good, Countable, Counted

-----------------------------------------------------------------------------
(* The steps.                                                              *)

LEMMA SaveCases ==
  ASSUME NEW earlier, NEW last, Save(earlier, last)
  PROVE  disk' = last \/ disk' = disk \/ disk' \in earlier
BY DEF Save

\* The variables a poll result leaves to start_next_deaddrop_poll_key_task are
\* of their type afterwards.
LEMMA PollStepTypes ==
  ASSUME TypeOK, NEW g \in Slots, NEW r, NEW misses \in SUBSET Index,
         NEW auth \in SUBSET Index, NEW saved,
         StartNextPollKey(g, r, misses, auth, saved)
  PROVE  /\ polling' \in BOOLEAN /\ pollRecent' \in BOOLEAN
         /\ queue' \subseteq Target
         /\ gets' \in [Slots -> Target \cup {NoTarget}]
         /\ roundMisses' \subseteq Index /\ roundAuth' \subseteq Index
         /\ stalled' \in 0 .. ForwardProbeStallRounds
<1> USE DEF TypeOK
<1>1. CASE AbandonRound(g, r, saved)
  BY <1>1 DEF AbandonRound
<1>2. CASE FinishRound(g, r, misses, auth, saved)
  <2>1. stalled' \in 0 .. ForwardProbeStallRounds
    <3>1. PICK x : stalled' = IF Progress(r, misses, auth, x) THEN 0
                              ELSE IF ForwardDue THEN stalled ELSE stalled + 1
      BY <1>2 DEF FinishRound
    <3> QED  BY <3>1, ReceiverAssumption, SMT DEF ForwardDue
  <2> QED  BY <2>1, <1>2 DEF FinishRound
<1>3. CASE PollNextKey(g, r, misses, auth, saved)
  BY <1>3 DEF PollNextKey
<1> QED  BY <1>1, <1>2, <1>3 DEF StartNextPollKey

\* A poll result that has left a good receive state leads to good receive
\* states in memory and on disk, whether the round goes on, ends or is dropped.
LEMMA PollStepGood ==
  ASSUME NEW n \in 0 .. Top, NEW S, NEW M \in [Index -> 0 .. GapMissRounds],
         NEW g, NEW r, NEW misses, NEW auth, NEW saved,
         Good(r, n, S, dropped, M), Good(disk, n, S, dropped, M),
         Countable(r, misses, M),
         dropped \subseteq Index, \A i \in dropped : M[i] >= GapMissRounds,
         StartNextPollKey(g, r, misses, auth, saved)
  PROVE  /\ Good(rx', n, S, dropped', M)
         /\ Good(disk', n, S, dropped', M)
         /\ Countable(rx', roundMisses', M)
         /\ dropped' \subseteq Index
         /\ \A i \in dropped' : M[i] >= GapMissRounds
<1>1. CASE AbandonRound(g, r, saved)
  <2>1. rx' = r /\ dropped' = dropped /\ roundMisses' = {}
    BY <1>1 DEF AbandonRound
  <2>2. disk' = r \/ disk' = disk
    <3>1. Save({}, r) \/ disk' = disk
      BY <1>1 DEF AbandonRound
    <3> QED  BY <3>1, SaveCases
  <2> QED  BY <2>1, <2>2, NothingToCount
<1>2. CASE PollNextKey(g, r, misses, auth, saved)
  <2>1. rx' = r /\ dropped' = dropped /\ roundMisses' = misses
    BY <1>2 DEF PollNextKey
  <2>2. disk' = r \/ disk' = disk
    <3>1. Save({}, r) \/ disk' = disk
      BY <1>2 DEF PollNextKey
    <3> QED  BY <3>1, SaveCases
  <2> QED  BY <2>1, <2>2
<1>3. CASE FinishRound(g, r, misses, auth, saved)
  <2>1. PICK expired :
          /\ rx' = FinalizeOfflinePollRound(r, misses, auth, expired)
          /\ Save(IF saved THEN {r} ELSE {}, rx')
          /\ dropped' = dropped \cup (AllSkipped(r, misses)
                                        \ KeptSkipped(r, misses, expired))
    BY <1>3 DEF FinishRound
  <2>2. roundMisses' = {}
    BY <1>3 DEF FinishRound
  <2>3. Good(rx', n, S, dropped', M)
    BY <2>1, FinalizeGood
  <2>4. Good(r, n, S, dropped', M) /\ Good(disk, n, S, dropped', M)
    <3>1. n \in Nat /\ M \in [Index -> Nat] /\ \A i \in Index : M[i] <= M[i]
      <4>1. \A i \in Index : M[i] \in 0 .. GapMissRounds
        OBVIOUS
      <4> QED  BY <4>1, ReceiverAssumption, SMT DEF Top
    <3>2. n <= n /\ S \subseteq S /\ dropped \subseteq dropped'
      BY <3>1, <2>1
    <3> QED  BY <3>1, <3>2, GoodMonotone
  <2>5. disk' = rx' \/ disk' = disk \/ disk' = r
    BY <2>1, SaveCases
  <2>6. /\ dropped' \subseteq Index
        /\ \A i \in dropped' : M[i] >= GapMissRounds
    <3>1. \A i \in AllSkipped(r, misses) : M[i] >= GapMissRounds
      <4>1. /\ dropped \subseteq dropped'
            /\ AllSkipped(r, misses) \ KeptSkipped(r, misses, expired) \subseteq dropped'
        BY <2>1
      <4> QED  BY <4>1, RecountedGood
    <3>2. AllSkipped(r, misses) \subseteq Index
      BY SMT DEF AllSkipped, SkipIndexes, Good, OfflineState
    <3> QED  BY <2>1, <3>1, <3>2
  <2> QED  BY <2>2, <2>3, <2>4, <2>5, <2>6, NothingToCount
<1> QED  BY <1>1, <1>2, <1>3 DEF StartNextPollKey

recvVars == <<rx, disk, sent, held, shown, dropped, missAnswers>>

\* A step that leaves the receive state, the peer's messages and the histories
\* alone, and the misses of the round too or clears them, keeps IRecv.
LEMMA RecvUnchanged ==
  ASSUME IRecv, UNCHANGED recvVars, roundMisses' = roundMisses \/ roundMisses' = {}
  PROVE  IRecv'
<1>1. /\ rx' = rx /\ disk' = disk /\ sent' = sent /\ held' = held
      /\ dropped' = dropped /\ missAnswers' = missAnswers
      /\ ShownIndexes' = ShownIndexes
  BY DEF recvVars, ShownIndexes, Shown
<1>2. Countable(rx, {}, missAnswers)
  BY NothingToCount DEF IRecv
<1> QED  BY <1>1, <1>2 DEF IRecv

LEMMA InitIInv == Init => IInv
<1> SUFFICES ASSUME Init PROVE IInv
  OBVIOUS
<1> USE ReceiverAssumption
<1>1. DefaultOfflineState \in OfflineState
  BY SMT DEF DefaultOfflineState, OfflineState, Top
<1>2. TypeOK
  <2>1. 0 \in 0 .. Top /\ 0 \in 0 .. MaxStarts /\ 0 \in 0 .. MaxRestarts
        /\ 0 \in 0 .. ForwardProbeStallRounds /\ 0 \in 0 .. GapMissRounds
        /\ 0 \in 0 .. 2
    BY SMT DEF Top
  <2> QED  BY <1>1, <2>1 DEF Init, TypeOK
<1>3. Good(DefaultOfflineState, 0, ShownIndexes, {}, [i \in Index |-> 0])
  <2>1. \A i \in Index : ~(i < 0)
    BY SMT DEF Index
  <2> QED  BY <1>1, <2>1, SMT DEF Good, DefaultOfflineState
<1>4. Countable(DefaultOfflineState, {}, [i \in Index |-> 0])
  BY <1>3, NothingToCount
<1> QED  BY <1>2, <1>3, <1>4 DEF Init, IInv, IRecv

\* The steps of the environment.
LEMMA EnvironmentIInv ==
  ASSUME IInv, Environment
  PROVE  IInv'
<1> USE DEF IInv
<1>1. CASE PeerStores
  <2>1. PICK i \in Index, v \in Versions :
          /\ i <= sent
          /\ held' = [held EXCEPT ![i] = @ \cup {v}]
          /\ sent' = Larger(sent, i + 1)
          /\ UNCHANGED <<rx, disk, seen, modeVars, roundVars, gets, stalled,
                         pollRecent, probeRecent, lost, historyVars>>
    BY <1>1 DEF PeerStores
  <2>2. sent \in 0 .. Top /\ sent' \in 0 .. Top /\ sent <= sent' /\ i < sent'
    BY <2>1, ReceiverAssumption, SMT DEF TypeOK, Larger, Index, Top
  <2>3. held' \in [Index -> SUBSET Versions]
    BY <2>1 DEF TypeOK
  <2>4. \A j \in Index : held'[j] # {} => j < sent'
    <3> TAKE j \in Index
    <3>1. CASE j = i
      BY <3>1, <2>2
    <3>2. CASE j # i
      <4>1. held'[j] = held[j]
        BY <3>2, <2>1 DEF TypeOK
      <4> QED  BY <4>1, <2>2, ReceiverAssumption, SMT DEF IRecv, Index, Top
    <3> QED  BY <3>1, <3>2
  <2>5. TypeOK'
    BY <2>1, <2>2, <2>3 DEF TypeOK, modeVars, roundVars, historyVars
  <2>6. /\ Good(rx, sent', ShownIndexes, dropped, missAnswers)
        /\ Good(disk, sent', ShownIndexes, dropped, missAnswers)
    <3>1. missAnswers \in [Index -> Nat] /\ \A j \in Index : missAnswers[j] <= missAnswers[j]
      <4>1. \A j \in Index : missAnswers[j] \in 0 .. GapMissRounds
        BY DEF TypeOK
      <4> QED  BY <4>1, ReceiverAssumption, SMT DEF TypeOK
    <3>2. sent \in Nat /\ sent' \in Nat /\ sent <= sent'
      BY <2>2, ReceiverAssumption, SMT DEF Top
    <3>3. ShownIndexes \subseteq ShownIndexes /\ dropped \subseteq dropped
      OBVIOUS
    <3> QED  BY <3>1, <3>2, <3>3, GoodMonotone DEF IRecv
  <2>7. /\ rx' = rx /\ disk' = disk /\ dropped' = dropped
        /\ missAnswers' = missAnswers /\ ShownIndexes' = ShownIndexes
        /\ roundMisses' = roundMisses
    BY <2>1 DEF historyVars, roundVars, ShownIndexes, Shown
  <2> QED  BY <2>4, <2>5, <2>6, <2>7 DEF IRecv
<1>2. CASE DeaddropsLose
  <2>1. TypeOK'
    BY <1>2 DEF DeaddropsLose, TypeOK, modeVars, roundVars, historyVars
  <2>2. UNCHANGED recvVars /\ roundMisses' = roundMisses
    BY <1>2 DEF DeaddropsLose, recvVars, roundVars, historyVars
  <2> QED  BY <2>1, <2>2, RecvUnchanged
<1>3. CASE PollIntervalElapses
  <2>1. TypeOK'
    BY <1>3 DEF PollIntervalElapses, TypeOK, modeVars, roundVars, envVars, historyVars
  <2>2. UNCHANGED recvVars /\ roundMisses' = roundMisses
    BY <1>3 DEF PollIntervalElapses, recvVars, roundVars, envVars, historyVars
  <2> QED  BY <2>1, <2>2, RecvUnchanged
<1>4. CASE RecoveryProbeIntervalElapses
  <2>1. /\ rx' = [rx EXCEPT !.recently_probed = {}]
        /\ disk' = [disk EXCEPT !.recently_probed = {}]
        /\ probeRecent' = FALSE
        /\ UNCHANGED <<seen, modeVars, roundVars, gets, stalled, pollRecent,
                       envVars, historyVars>>
    BY <1>4 DEF RecoveryProbeIntervalElapses
  <2>2. ASSUME NEW r, Good(r, sent, ShownIndexes, dropped, missAnswers)
        PROVE  /\ [r EXCEPT !.recently_probed = {}] \in OfflineState
               /\ Good([r EXCEPT !.recently_probed = {}], sent, ShownIndexes,
                       dropped, missAnswers)
               /\ Counted([r EXCEPT !.recently_probed = {}], roundMisses)
                    = Counted(r, roundMisses)
    <3> DEFINE a == [r EXCEPT !.recently_probed = {}]
    <3>1. /\ a \in OfflineState
          /\ a.drop_recv_base = r.drop_recv_base
          /\ a.consumed_drop_recv = r.consumed_drop_recv
          /\ a.known_remote_next_send = r.known_remote_next_send
          /\ a.missing_drop_recv = r.missing_drop_recv
          /\ a.skipped_drop_recv = r.skipped_drop_recv
      <4>1. r \in OfflineState
        BY <2>2 DEF Good
      <4> QED  BY <4>1, SMT DEF OfflineState
    <3> HIDE DEF a
    <3>2. Good(a, sent, ShownIndexes, dropped, missAnswers)
      BY <3>1, <2>2 DEF Good
    <3>3. Counted(a, roundMisses) = Counted(r, roundMisses)
      BY <3>1 DEF Counted
    <3> QED  BY <3>1, <3>2, <3>3 DEF a
  <2>3. /\ sent' = sent /\ held' = held /\ dropped' = dropped
        /\ missAnswers' = missAnswers /\ ShownIndexes' = ShownIndexes
        /\ roundMisses' = roundMisses
    BY <2>1 DEF historyVars, envVars, roundVars, ShownIndexes, Shown
  <2>4. IRecv'
    BY <2>1, <2>2, <2>3 DEF IRecv, Countable
  <2>5. TypeOK'
    BY <2>1, <2>2 DEF IRecv, TypeOK, modeVars, roundVars, envVars, historyVars
  <2> QED  BY <2>4, <2>5
<1> QED  BY <1>1, <1>2, <1>3, <1>4 DEF Environment

\* The steps that change modes, tasks and flags, and may save the state.
LEMMA ModeIInv ==
  ASSUME IInv,
         \/ EnsureDeaddropRuntimeStarted
         \/ \E ok \in BOOLEAN : DeaddropStarted(ok)
         \/ GoOffline
         \/ GoOnline
         \/ BeginPut
         \/ \E ok \in BOOLEAN : OfflinePutFinished(ok)
  PROVE  IInv'
<1> USE DEF IInv
<1>1. starting \in 0 .. MaxStarts /\ MaxStarts \in Nat
  BY ReceiverAssumption DEF TypeOK
<1>2. CASE EnsureDeaddropRuntimeStarted
  <2>1. starting' \in 0 .. MaxStarts
    BY <1>1, <1>2, SMT DEF EnsureDeaddropRuntimeStarted
  <2>2. TypeOK'
    BY <1>2, <2>1 DEF EnsureDeaddropRuntimeStarted, TypeOK, roundVars, envVars, historyVars
  <2>3. UNCHANGED recvVars /\ roundMisses' = roundMisses
    BY <1>2 DEF EnsureDeaddropRuntimeStarted, recvVars, roundVars, envVars, historyVars
  <2> QED  BY <2>2, <2>3, RecvUnchanged
<1>3. ASSUME NEW ok \in BOOLEAN, DeaddropStarted(ok)
      PROVE  IInv'
  <2>1. starting' \in 0 .. MaxStarts
    BY <1>1, <1>3, SMT DEF DeaddropStarted
  <2>2. TypeOK'
    BY <1>3, <2>1 DEF DeaddropStarted, TypeOK, roundVars, envVars, historyVars
  <2>3. UNCHANGED recvVars /\ (roundMisses' = roundMisses \/ roundMisses' = {})
    BY <1>3 DEF DeaddropStarted, recvVars, roundVars, envVars, historyVars
  <2> QED  BY <2>2, <2>3, RecvUnchanged
<1>4. CASE GoOffline
  <2>1. starting' \in 0 .. MaxStarts
    <3>1. starting' = starting \/ (starting < MaxStarts /\ starting' = starting + 1)
      BY <1>4 DEF GoOffline
    <3> QED  BY <1>1, <3>1, SMT
  <2>2. TypeOK'
    BY <1>4, <2>1 DEF GoOffline, TypeOK, roundVars, envVars, historyVars
  <2>3. UNCHANGED recvVars /\ roundMisses' = roundMisses
    BY <1>4 DEF GoOffline, recvVars, roundVars, envVars, historyVars
  <2> QED  BY <2>2, <2>3, RecvUnchanged
<1>5. CASE GoOnline
  <2>1. TypeOK'
    BY <1>5 DEF GoOnline, TypeOK, roundVars, envVars, historyVars
  <2>2. UNCHANGED recvVars /\ roundMisses' = roundMisses
    BY <1>5 DEF GoOnline, recvVars, roundVars, envVars, historyVars
  <2> QED  BY <2>1, <2>2, RecvUnchanged
<1>6. CASE BeginPut
  <2>1. TypeOK'
    BY <1>6 DEF BeginPut, TypeOK, roundVars, envVars, historyVars
  <2>2. UNCHANGED recvVars /\ roundMisses' = roundMisses
    BY <1>6 DEF BeginPut, recvVars, roundVars, envVars, historyVars
  <2> QED  BY <2>1, <2>2, RecvUnchanged
<1>7. ASSUME NEW ok \in BOOLEAN, OfflinePutFinished(ok)
      PROVE  IInv'
  <2>1. /\ disk' = rx \/ disk' = disk
        /\ started' \in BOOLEAN /\ putting' \in BOOLEAN
        /\ UNCHANGED <<rx, seen, offline, starting, roundVars, gets, stalled,
                       pollRecent, probeRecent, envVars, historyVars>>
    <3>1. Save({}, rx) \/ disk' = disk
      BY <1>7 DEF OfflinePutFinished
    <3> QED  BY <3>1, <1>7, SaveCases DEF OfflinePutFinished, TypeOK
  <2>2. TypeOK'
    BY <2>1 DEF TypeOK, roundVars, envVars, historyVars
  <2>3. /\ rx' = rx /\ sent' = sent /\ held' = held /\ dropped' = dropped
        /\ missAnswers' = missAnswers /\ ShownIndexes' = ShownIndexes
        /\ roundMisses' = roundMisses
    BY <2>1 DEF historyVars, envVars, roundVars, ShownIndexes, Shown
  <2> QED  BY <2>1, <2>2, <2>3 DEF IRecv
<1> QED  BY <1>2, <1>3, <1>4, <1>5, <1>6, <1>7

\* The index synchronisation of a live session.
LEMMA ReceiveIndexSyncIInv ==
  ASSUME IInv, ReceiveIndexSync
  PROVE  IInv'
<1> USE DEF IInv
<1>1. PICK k \in 0 .. sent :
        rx' = [rx EXCEPT !.known_remote_next_send =
                            Larger(rx.known_remote_next_send, k)]
  BY DEF ReceiveIndexSync
<1>2. /\ Save({}, rx')
      /\ UNCHANGED <<seen, modeVars, roundVars, gets, stalled, pollRecent,
                     probeRecent, envVars, historyVars>>
  BY DEF ReceiveIndexSync
<1>3. disk' = rx' \/ disk' = disk
  BY <1>2, SaveCases
<1>4. /\ rx \in OfflineState /\ sent \in 0 .. Top
      /\ rx.drop_recv_base <= rx.known_remote_next_send
      /\ rx.known_remote_next_send <= sent
      /\ \A i \in rx.consumed_drop_recv \cup rx.skipped_drop_recv :
           i < rx.known_remote_next_send
  BY DEF TypeOK, IRecv, Good
<1> DEFINE l == Larger(rx.known_remote_next_send, k)
           a == [rx EXCEPT !.known_remote_next_send = l]
<1>5. /\ l \in 0 .. Top /\ l <= sent
      /\ rx.known_remote_next_send <= l
      /\ rx.known_remote_next_send \in 0 .. Top /\ rx.drop_recv_base \in 0 .. Top
  BY <1>4, ReceiverAssumption, SMT DEF OfflineState, Larger, Top
<1> HIDE DEF l
<1>6. /\ a \in OfflineState
      /\ a.drop_recv_base = rx.drop_recv_base
      /\ a.consumed_drop_recv = rx.consumed_drop_recv
      /\ a.known_remote_next_send = l
      /\ a.missing_drop_recv = rx.missing_drop_recv
      /\ a.skipped_drop_recv = rx.skipped_drop_recv
  BY <1>4, <1>5, SMT DEF OfflineState
<1>7. a = rx'
  BY <1>1 DEF l
<1> HIDE DEF a
<1>8. a.drop_recv_base <= l
  BY <1>4, <1>5, <1>6, ReceiverAssumption, SMT DEF Top
<1>9. \A i \in rx.consumed_drop_recv \cup rx.skipped_drop_recv : i < l
  <2> TAKE i \in rx.consumed_drop_recv \cup rx.skipped_drop_recv
  <2>1. i \in Index /\ i < rx.known_remote_next_send
    BY <1>4, SMT DEF OfflineState
  <2> QED  BY <2>1, <1>5, ReceiverAssumption, SMT DEF Index, Top
<1>10. Good(a, sent, ShownIndexes, dropped, missAnswers)
  BY <1>5, <1>6, <1>8, <1>9 DEF IRecv, Good
<1>11. Countable(a, roundMisses, missAnswers)
  BY <1>6 DEF IRecv, Countable, Counted
<1>12. /\ sent' = sent /\ held' = held /\ dropped' = dropped
       /\ missAnswers' = missAnswers /\ ShownIndexes' = ShownIndexes
       /\ roundMisses' = roundMisses
  BY <1>2 DEF historyVars, envVars, roundVars, ShownIndexes, Shown
<1>13. TypeOK'
  BY <1>2, <1>3, <1>6, <1>7 DEF TypeOK, modeVars, roundVars, envVars, historyVars
<1> QED  BY <1>3, <1>7, <1>10, <1>11, <1>12, <1>13 DEF IRecv

\* The 150 ms tick: it charges the probes and may start a round.
LEMMA TickIInv ==
  ASSUME IInv, Tick
  PROVE  IInv'
<1> USE DEF IInv
<1> DEFINE f == IF ForwardDue THEN SaturatingAdd(ForwardIndex, 1)
                ELSE rx.forward_probe_index
           p == rx.recently_probed \cup RecoveryDue
           b == [rx EXCEPT !.forward_probe_index = f]
           a == [b EXCEPT !.recently_probed = p]
<1>1. rx \in OfflineState
  BY DEF TypeOK
<1>2. RecoveryDue \subseteq Index
  BY <1>1, SMT DEF RecoveryDue, Smallest, OfflineState
<1>3. p \in SUBSET Index
  BY <1>1, <1>2, SMT DEF OfflineState
<1>4. f \in 0 .. Top
  <2>1. rx.forward_probe_index \in 0 .. Top /\ rx.drop_recv_base \in 0 .. Top
    BY <1>1, SMT DEF OfflineState
  <2>2. SaturatingAdd(rx.drop_recv_base, Window) \in 0 .. Top
    BY <2>1, ReceiverAssumption, SMT DEF SaturatingAdd, Top
  <2>3. ForwardIndex \in 0 .. Top
    BY <2>1, <2>2, SMT DEF ForwardIndex, Larger
  <2>4. SaturatingAdd(ForwardIndex, 1) \in 0 .. Top
    BY <2>3, ReceiverAssumption, SMT DEF SaturatingAdd, Top
  <2> QED  BY <2>1, <2>4
<1>5. rx' = a
  BY DEF Tick
<1> HIDE DEF f, p
<1>6. /\ b \in OfflineState
      /\ b.drop_recv_base = rx.drop_recv_base
      /\ b.consumed_drop_recv = rx.consumed_drop_recv
      /\ b.known_remote_next_send = rx.known_remote_next_send
      /\ b.missing_drop_recv = rx.missing_drop_recv
      /\ b.skipped_drop_recv = rx.skipped_drop_recv
  BY <1>1, <1>4, SMT DEF OfflineState
<1> HIDE DEF b
<1>7. /\ a \in OfflineState
      /\ a.drop_recv_base = rx.drop_recv_base
      /\ a.consumed_drop_recv = rx.consumed_drop_recv
      /\ a.known_remote_next_send = rx.known_remote_next_send
      /\ a.missing_drop_recv = rx.missing_drop_recv
      /\ a.skipped_drop_recv = rx.skipped_drop_recv
  BY <1>3, <1>6, SMT DEF OfflineState
<1> HIDE DEF a
<1>8. Good(a, sent, ShownIndexes, dropped, missAnswers)
  BY <1>7 DEF IRecv, Good
<1>9. Countable(a, roundMisses, missAnswers)
  BY <1>7 DEF IRecv, Countable, Counted
<1>10. Countable(a, {}, missAnswers)
  BY <1>8, NothingToCount
<1>11. PollTargets \subseteq Target
  <2>1. RecvWindow(rx) \subseteq Target
    BY DEF RecvWindow, Target, Kinds
  <2>2. \A i \in Index : /\ [index |-> i, kind |-> "ForwardProbe"] \in Target
                         /\ [index |-> i, kind |-> "RecoveryProbe"] \in Target
    BY DEF Target, Kinds
  <2> QED  BY <2>1, <2>2, <1>2 DEF PollTargets
<1>12. /\ probeRecent' \in BOOLEAN
       /\ polling' \in BOOLEAN
       /\ queue' \subseteq Target
       /\ gets' \in [Slots -> Target \cup {NoTarget}]
       /\ roundMisses' = roundMisses \/ roundMisses' = {}
       /\ roundAuth' \subseteq Index
  <2>1. probeRecent' \in BOOLEAN
    BY DEF Tick, TypeOK
  <2>2. CASE UNCHANGED <<roundVars, gets>>
    BY <2>1, <2>2 DEF TypeOK, roundVars
  <2>3. CASE \E g \in Slots, t \in PollTargets :
               /\ gets' = [gets EXCEPT ![g] = t]
               /\ queue' = PollTargets \ {t}
               /\ polling' = TRUE /\ roundMisses' = {} /\ roundAuth' = {}
    <3>1. PICK g \in Slots, t \in PollTargets :
            /\ gets' = [gets EXCEPT ![g] = t]
            /\ queue' = PollTargets \ {t}
            /\ polling' = TRUE /\ roundMisses' = {} /\ roundAuth' = {}
      BY <2>3
    <3>2. t \in Target
      BY <1>11
    <3>3. gets' \in [Slots -> Target \cup {NoTarget}]
      BY <3>1, <3>2 DEF TypeOK
    <3> QED  BY <2>1, <3>1, <3>3, <1>11
  <2> QED  BY <2>2, <2>3 DEF Tick
<1>13. /\ disk' = disk /\ sent' = sent /\ held' = held /\ dropped' = dropped
       /\ missAnswers' = missAnswers /\ ShownIndexes' = ShownIndexes
  BY DEF Tick, historyVars, envVars, ShownIndexes, Shown
<1>14. TypeOK'
  BY <1>5, <1>7, <1>12 DEF Tick, TypeOK, modeVars, envVars, historyVars
<1> QED  BY <1>5, <1>8, <1>9, <1>10, <1>12, <1>13, <1>14 DEF IRecv

\* The counts of MISS rounds as numbers.
LEMMA MissAnswersNat ==
  ASSUME TypeOK
  PROVE  missAnswers \in [Index -> Nat] /\ \A i \in Index : missAnswers[i] <= missAnswers[i]
<1>1. \A i \in Index : missAnswers[i] \in 0 .. GapMissRounds
  BY DEF TypeOK
<1> QED  BY <1>1, ReceiverAssumption, SMT DEF TypeOK

\* A GET that finds blobs.
LEMMA PollHitIInv ==
  ASSUME IInv, NEW g \in Slots, PollHit(g)
  PROVE  IInv'
<1> USE DEF IInv
<1> DEFINE i == gets[g].index
<1>1. i \in Index
  BY DEF PollHit, TypeOK, Target
<1>2. PICK vs \in SUBSET held[i] :
        /\ vs # {}
        /\ seen' = seen \cup Fresh(i, vs)
        /\ shown' = [b \in Blob |-> IF b \in Fresh(i, vs) /\ shown[b] < 2
                                    THEN shown[b] + 1 ELSE shown[b]]
        /\ \/ /\ Fresh(i, vs) = {}
              /\ StartNextPollKey(g, rx, roundMisses, roundAuth, FALSE)
           \/ /\ Fresh(i, vs) # {}
              /\ StartNextPollKey(g, Authenticated(rx, i), roundMisses,
                                  roundAuth \cup {i}, TRUE)
  BY Zenon DEF PollHit
<1>3. UNCHANGED <<modeVars, probeRecent, envVars, missAnswers, restarts>>
  BY DEF PollHit
<1> HIDE DEF i
<1>4. i < sent
  BY <1>1, <1>2 DEF IRecv
<1>5. Fresh(i, vs) \subseteq Blob /\ \A b \in Fresh(i, vs) : b[1] = i
  BY <1>1, <1>2 DEF Fresh, Blob, TypeOK
<1>6. /\ shown' \in [Blob -> 0 .. 2]
      /\ \A b \in Blob : shown[b] > 0 => shown'[b] > 0
      /\ \A b \in Fresh(i, vs) : shown'[b] > 0
  <2>1. \A b \in Blob : shown[b] \in 0 .. 2
    BY DEF TypeOK
  <2>2. ASSUME NEW b \in Blob
        PROVE  /\ shown'[b] \in 0 .. 2
               /\ shown[b] > 0 => shown'[b] > 0
               /\ b \in Fresh(i, vs) => shown'[b] > 0
    <3>1. shown'[b] = IF b \in Fresh(i, vs) /\ shown[b] < 2
                      THEN shown[b] + 1 ELSE shown[b]
      BY <1>2
    <3> QED  BY <2>1, <3>1, SMT
  <2> QED  BY <1>2, <1>5, <2>2
<1>7. ShownIndexes \subseteq ShownIndexes'
  BY <1>6 DEF ShownIndexes, Shown, Blob
<1>8. Fresh(i, vs) # {} => i \in ShownIndexes'
  <2> SUFFICES ASSUME NEW b \in Fresh(i, vs) PROVE i \in ShownIndexes'
    OBVIOUS
  <2>1. b \in Blob /\ b = <<i, b[2]>> /\ b[2] \in Versions
    BY <1>5 DEF Blob
  <2>2. shown'[<<i, b[2]>>] > 0
    BY <1>6, <2>1
  <2> QED  BY <1>1, <2>1, <2>2 DEF ShownIndexes, Shown
<1>9. /\ Good(rx, sent, ShownIndexes', dropped, missAnswers)
      /\ Good(disk, sent, ShownIndexes', dropped, missAnswers)
  <2>1. sent \in Nat /\ sent <= sent /\ dropped \subseteq dropped
    BY ReceiverAssumption, SMT DEF TypeOK, Top
  <2> QED  BY <1>7, <2>1, MissAnswersNat, GoodMonotone DEF IRecv
<1>10. PICK r, auth, saved :
         /\ auth \in SUBSET Index
         /\ StartNextPollKey(g, r, roundMisses, auth, saved)
         /\ Good(r, sent, ShownIndexes', dropped, missAnswers)
         /\ Countable(r, roundMisses, missAnswers)
  <2>1. CASE /\ Fresh(i, vs) = {}
             /\ StartNextPollKey(g, rx, roundMisses, roundAuth, FALSE)
    <3>1. roundAuth \in SUBSET Index
      BY DEF TypeOK
    <3>2. Countable(rx, roundMisses, missAnswers)
      BY DEF IRecv
    <3> WITNESS rx, roundAuth, FALSE
    <3> QED  BY <2>1, <3>1, <3>2, <1>9
  <2>2. CASE /\ Fresh(i, vs) # {}
             /\ StartNextPollKey(g, Authenticated(rx, i), roundMisses,
                                 roundAuth \cup {i}, TRUE)
    <3>1. /\ sent \in 0 .. Top /\ missAnswers \in [Index -> 0 .. GapMissRounds]
          /\ rx \in OfflineState
      BY DEF TypeOK
    <3>2. /\ Good(Authenticated(rx, i), sent, ShownIndexes', dropped, missAnswers)
          /\ Authenticated(rx, i).missing_drop_recv
               = [rx.missing_drop_recv EXCEPT ![i] = 0]
      BY <1>1, <1>4, <1>8, <1>9, <2>2, <3>1, AuthenticatedGood
    <3>3. Countable(Authenticated(rx, i), roundMisses, missAnswers)
      <4> DEFINE m == Authenticated(rx, i).missing_drop_recv
      <4>1. ASSUME NEW j \in Index
            PROVE  Counted(Authenticated(rx, i), roundMisses)[j] <= missAnswers[j]
        <5>1. Counted(rx, roundMisses)[j] <= missAnswers[j]
          BY DEF IRecv, Countable
        <5>2. Counted(rx, roundMisses)[j]
                = IF j \in roundMisses /\ rx.missing_drop_recv[j] < GapMissRounds
                  THEN rx.missing_drop_recv[j] + 1 ELSE rx.missing_drop_recv[j]
          BY DEF Counted
        <5>3. Counted(Authenticated(rx, i), roundMisses)[j]
                = IF j \in roundMisses /\ m[j] < GapMissRounds
                  THEN m[j] + 1 ELSE m[j]
          BY DEF Counted
        <5>4. /\ rx.missing_drop_recv \in [Index -> 0 .. GapMissRounds]
              /\ rx.missing_drop_recv[j] \in 0 .. GapMissRounds
              /\ missAnswers[j] \in 0 .. GapMissRounds
          BY <3>1, SMT DEF OfflineState
        <5>5. m[j] = 0 \/ m[j] = rx.missing_drop_recv[j]
          BY <3>2, <5>4, <1>1
        <5> HIDE DEF m
        <5> QED  BY <5>1, <5>2, <5>3, <5>4, <5>5, ReceiverAssumption, SMT
      <4> QED  BY <4>1 DEF Countable
    <3>4. roundAuth \cup {i} \in SUBSET Index
      BY <1>1 DEF TypeOK
    <3> WITNESS Authenticated(rx, i), roundAuth \cup {i}, TRUE
    <3> QED  BY <2>2, <3>2, <3>3, <3>4
  <2> QED  BY <1>2, <2>1, <2>2
<1>11. /\ sent' = sent /\ held' = held /\ missAnswers' = missAnswers
  BY <1>3 DEF envVars
<1>12. /\ Good(rx', sent, ShownIndexes', dropped', missAnswers)
       /\ Good(disk', sent, ShownIndexes', dropped', missAnswers)
       /\ Countable(rx', roundMisses', missAnswers)
       /\ dropped' \subseteq Index
       /\ \A j \in dropped' : missAnswers[j] >= GapMissRounds
  <2>1. /\ sent \in 0 .. Top /\ missAnswers \in [Index -> 0 .. GapMissRounds]
        /\ dropped \subseteq Index
        /\ \A j \in dropped : missAnswers[j] >= GapMissRounds
    BY DEF TypeOK, IRecv
  <2> QED  BY <1>9, <1>10, <2>1, PollStepGood
<1>13. TypeOK'
  <2>1. /\ polling' \in BOOLEAN /\ pollRecent' \in BOOLEAN
        /\ queue' \subseteq Target
        /\ gets' \in [Slots -> Target \cup {NoTarget}]
        /\ roundMisses' \subseteq Index /\ roundAuth' \subseteq Index
        /\ stalled' \in 0 .. ForwardProbeStallRounds
    <3>1. roundMisses \in SUBSET Index
      BY DEF TypeOK
    <3> QED  BY <1>10, <3>1, PollStepTypes
  <2>2. rx' \in OfflineState /\ disk' \in OfflineState
    BY <1>12 DEF Good
  <2>3. seen' \subseteq Blob
    BY <1>2, <1>5 DEF TypeOK
  <2> QED  BY <1>3, <1>6, <1>12, <2>1, <2>2, <2>3 DEF TypeOK, modeVars, envVars
<1> QED  BY <1>11, <1>12, <1>13 DEF IRecv

\* A GET that is answered MISS.
LEMMA PollMissIInv ==
  ASSUME IInv, NEW g \in Slots, PollMiss(g)
  PROVE  IInv'
<1> USE DEF IInv
<1> DEFINE i == gets[g].index
           misses == IF gets[g].kind = "RecoveryProbe" THEN roundMisses
                     ELSE roundMisses \cup {i}
<1>1. i \in Index
  BY DEF PollMiss, TypeOK, Target
<1>2. /\ missAnswers' = [missAnswers EXCEPT ![i] =
                           IF misses = roundMisses \/ missAnswers[i] = GapMissRounds
                           THEN missAnswers[i] ELSE missAnswers[i] + 1]
      /\ StartNextPollKey(g, rx, misses, roundAuth, FALSE)
      /\ UNCHANGED <<seen, modeVars, probeRecent, envVars, shown, restarts>>
  BY DEF PollMiss
<1>3. misses \in SUBSET Index /\ (misses = roundMisses \/ misses = roundMisses \cup {i})
  BY <1>1 DEF TypeOK
<1> HIDE DEF i, misses
<1>4. \A j \in Index : missAnswers[j] \in 0 .. GapMissRounds
  BY DEF TypeOK
<1>5. /\ missAnswers' \in [Index -> 0 .. GapMissRounds]
      /\ \A j \in Index : missAnswers[j] <= missAnswers'[j]
  <2>1. (IF misses = roundMisses \/ missAnswers[i] = GapMissRounds
         THEN missAnswers[i] ELSE missAnswers[i] + 1) \in 0 .. GapMissRounds
    BY <1>1, <1>4, ReceiverAssumption, SMT
  <2>2. missAnswers' \in [Index -> 0 .. GapMissRounds]
    BY <1>2, <2>1 DEF TypeOK
  <2>3. ASSUME NEW j \in Index PROVE missAnswers[j] <= missAnswers'[j]
    <3>1. CASE j = i
      <4>1. missAnswers'[i] = IF misses = roundMisses \/ missAnswers[i] = GapMissRounds
                              THEN missAnswers[i] ELSE missAnswers[i] + 1
        BY <1>1, <1>2 DEF TypeOK
      <4> QED  BY <1>1, <1>4, <3>1, <4>1, ReceiverAssumption, SMT
    <3>2. CASE j # i
      <4>1. missAnswers'[j] = missAnswers[j]
        BY <1>2, <3>2 DEF TypeOK
      <4> QED  BY <1>4, <4>1, ReceiverAssumption, SMT
    <3> QED  BY <3>1, <3>2
  <2> QED  BY <2>2, <2>3
<1>6. Countable(rx, misses, missAnswers')
  <2>1. ASSUME NEW j \in Index
        PROVE  Counted(rx, misses)[j] <= missAnswers'[j]
    <3>1. /\ Counted(rx, roundMisses)[j]
               = IF j \in roundMisses /\ rx.missing_drop_recv[j] < GapMissRounds
                 THEN rx.missing_drop_recv[j] + 1 ELSE rx.missing_drop_recv[j]
          /\ Counted(rx, misses)[j]
               = IF j \in misses /\ rx.missing_drop_recv[j] < GapMissRounds
                 THEN rx.missing_drop_recv[j] + 1 ELSE rx.missing_drop_recv[j]
      BY DEF Counted
    <3>2. Counted(rx, roundMisses)[j] <= missAnswers[j]
      BY DEF IRecv, Countable
    <3>3. /\ rx.missing_drop_recv[j] \in 0 .. GapMissRounds
          /\ missAnswers'[j] \in 0 .. GapMissRounds
      BY <1>5, SMT DEF TypeOK, OfflineState
    <3>4. CASE j \in roundMisses \/ j \notin misses
      <4>1. Counted(rx, misses)[j] = Counted(rx, roundMisses)[j]
        BY <1>3, <3>1, <3>4
      <4>2. Counted(rx, roundMisses)[j] \in Nat
        BY <3>1, <3>3, ReceiverAssumption, SMT
      <4> QED  BY <1>4, <1>5, <3>2, <3>3, <4>1, <4>2, ReceiverAssumption, SMT
    <3>5. CASE j \notin roundMisses /\ j \in misses
      <4>1. j = i /\ misses # roundMisses
        BY <1>3, <3>5
      <4>2. missAnswers'[i] = IF missAnswers[i] = GapMissRounds
                              THEN missAnswers[i] ELSE missAnswers[i] + 1
        BY <1>1, <1>2, <4>1 DEF TypeOK
      <4>3. rx.missing_drop_recv[j] <= missAnswers[j]
        BY <3>1, <3>2, <3>5
      <4> QED  BY <1>4, <3>1, <3>3, <3>5, <4>1, <4>2, <4>3, ReceiverAssumption, SMT
    <3> QED  BY <3>4, <3>5
  <2> QED  BY <2>1 DEF Countable
<1>7. /\ Good(rx, sent, ShownIndexes, dropped, missAnswers')
      /\ Good(disk, sent, ShownIndexes, dropped, missAnswers')
  <2>1. sent \in Nat /\ sent <= sent /\ dropped \subseteq dropped
        /\ ShownIndexes \subseteq ShownIndexes
    BY ReceiverAssumption, SMT DEF TypeOK, Top
  <2>2. missAnswers' \in [Index -> Nat]
    <3>1. 0 .. GapMissRounds \subseteq Nat
      BY ReceiverAssumption, SMT
    <3> QED  BY <1>5, <3>1
  <2> QED  BY <1>5, <2>1, <2>2, MissAnswersNat, GoodMonotone DEF IRecv
<1>8. /\ Good(rx', sent, ShownIndexes, dropped', missAnswers')
      /\ Good(disk', sent, ShownIndexes, dropped', missAnswers')
      /\ Countable(rx', roundMisses', missAnswers')
      /\ dropped' \subseteq Index
      /\ \A j \in dropped' : missAnswers'[j] >= GapMissRounds
  <2>1. \A j \in dropped : missAnswers'[j] >= GapMissRounds
    <3> TAKE j \in dropped
    <3>1. j \in Index /\ missAnswers[j] >= GapMissRounds
      BY DEF TypeOK, IRecv
    <3>2. missAnswers'[j] \in 0 .. GapMissRounds /\ missAnswers[j] <= missAnswers'[j]
      BY <1>5, <3>1
    <3> QED  BY <1>4, <3>1, <3>2, ReceiverAssumption, SMT
  <2>2. sent \in 0 .. Top /\ dropped \subseteq Index
    BY DEF TypeOK
  <2> QED  BY <1>2, <1>5, <1>6, <1>7, <2>1, <2>2, PollStepGood
<1>9. TypeOK'
  <2>1. /\ polling' \in BOOLEAN /\ pollRecent' \in BOOLEAN
        /\ queue' \subseteq Target
        /\ gets' \in [Slots -> Target \cup {NoTarget}]
        /\ roundMisses' \subseteq Index /\ roundAuth' \subseteq Index
        /\ stalled' \in 0 .. ForwardProbeStallRounds
    <3>1. roundAuth \in SUBSET Index
      BY DEF TypeOK
    <3> QED  BY <1>2, <1>3, <3>1, PollStepTypes
  <2>2. rx' \in OfflineState /\ disk' \in OfflineState
    BY <1>8 DEF Good
  <2> QED  BY <1>2, <1>5, <1>8, <2>1, <2>2 DEF TypeOK, modeVars, envVars
<1>10. sent' = sent /\ held' = held /\ ShownIndexes' = ShownIndexes
  BY <1>2 DEF envVars, ShownIndexes, Shown
<1> QED  BY <1>8, <1>9, <1>10 DEF IRecv

\* A GET that neither finds a blob nor is answered MISS.
LEMMA PollIndeterminateIInv ==
  ASSUME IInv, NEW g \in Slots, PollIndeterminate(g)
  PROVE  IInv'
<1> USE DEF IInv
<1>1. /\ StartNextPollKey(g, rx, roundMisses, roundAuth, FALSE)
      /\ UNCHANGED <<seen, modeVars, probeRecent, envVars, shown, missAnswers,
                     restarts>>
  BY DEF PollIndeterminate
<1>2. /\ Good(rx', sent, ShownIndexes, dropped', missAnswers)
      /\ Good(disk', sent, ShownIndexes, dropped', missAnswers)
      /\ Countable(rx', roundMisses', missAnswers)
      /\ dropped' \subseteq Index
      /\ \A j \in dropped' : missAnswers[j] >= GapMissRounds
  <2>1. /\ sent \in 0 .. Top /\ missAnswers \in [Index -> 0 .. GapMissRounds]
        /\ dropped \subseteq Index
    BY DEF TypeOK
  <2> QED  BY <1>1, <2>1, PollStepGood DEF IRecv
<1>3. TypeOK'
  <2>1. /\ polling' \in BOOLEAN /\ pollRecent' \in BOOLEAN
        /\ queue' \subseteq Target
        /\ gets' \in [Slots -> Target \cup {NoTarget}]
        /\ roundMisses' \subseteq Index /\ roundAuth' \subseteq Index
        /\ stalled' \in 0 .. ForwardProbeStallRounds
    <3>1. roundAuth \in SUBSET Index /\ roundMisses \in SUBSET Index
      BY DEF TypeOK
    <3> QED  BY <1>1, <3>1, PollStepTypes
  <2>2. rx' \in OfflineState /\ disk' \in OfflineState
    BY <1>2 DEF Good
  <2> QED  BY <1>1, <1>2, <2>1, <2>2 DEF TypeOK, modeVars, envVars
<1>4. /\ sent' = sent /\ held' = held /\ missAnswers' = missAnswers
      /\ ShownIndexes' = ShownIndexes
  BY <1>1 DEF envVars, ShownIndexes, Shown
<1> QED  BY <1>2, <1>3, <1>4 DEF IRecv

\* A crash or a reopened tab: the state on disk is good too.
LEMMA RestartIInv ==
  ASSUME IInv, Restart
  PROVE  IInv'
<1> USE DEF IInv
<1>1. /\ disk \in OfflineState
      /\ disk.drop_recv_base \in 0 .. Top
      /\ disk.known_remote_next_send \in 0 .. Top
      /\ disk.drop_recv_base <= disk.known_remote_next_send
  BY SMT DEF TypeOK, OfflineState, IRecv, Good
<1>2. Larger(disk.known_remote_next_send, disk.drop_recv_base)
        = disk.known_remote_next_send
  BY <1>1, ReceiverAssumption, SMT DEF Larger, Top
<1>3. rx' = disk
  <2>1. rx' = [disk EXCEPT !.known_remote_next_send = disk.known_remote_next_send]
    BY <1>2 DEF Restart
  <2> QED  BY <1>1, <2>1, SMT DEF OfflineState
<1>4. restarts' \in 0 .. MaxRestarts
  BY ReceiverAssumption, SMT DEF Restart, TypeOK
<1>5. TypeOK'
  <2>1. 0 \in 0 .. MaxStarts /\ 0 \in 0 .. ForwardProbeStallRounds
    BY ReceiverAssumption, SMT
  <2> QED  BY <1>1, <1>3, <1>4, <2>1 DEF Restart, TypeOK, envVars
<1>6. /\ disk' = disk /\ sent' = sent /\ held' = held /\ dropped' = dropped
      /\ missAnswers' = missAnswers /\ roundMisses' = {}
      /\ ShownIndexes' = ShownIndexes
  BY DEF Restart, envVars, ShownIndexes, Shown
<1>7. Countable(disk, {}, missAnswers)
  BY NothingToCount DEF IRecv
<1> QED  BY <1>3, <1>5, <1>6, <1>7 DEF IRecv

\* IInv is inductive.
LEMMA NextIInv == IInv /\ [Next]_vars => IInv'
<1> SUFFICES ASSUME IInv, [Next]_vars PROVE IInv'
  OBVIOUS
<1>1. CASE Environment
  BY <1>1, EnvironmentIInv
<1>2. CASE \/ EnsureDeaddropRuntimeStarted
           \/ \E ok \in BOOLEAN : DeaddropStarted(ok)
           \/ GoOffline
           \/ GoOnline
           \/ BeginPut
           \/ \E ok \in BOOLEAN : OfflinePutFinished(ok)
  BY <1>2, ModeIInv
<1>3. CASE ReceiveIndexSync
  BY <1>3, ReceiveIndexSyncIInv
<1>4. CASE Tick
  BY <1>4, TickIInv
<1>5. CASE PollResult
  BY <1>5, PollHitIInv, PollMissIInv, PollIndeterminateIInv DEF PollResult
<1>6. CASE Restart
  BY <1>6, RestartIInv
<1>7. CASE UNCHANGED vars
  <2>1. UNCHANGED recvVars /\ roundMisses' = roundMisses
    BY <1>7 DEF vars, recvVars, roundVars, envVars, historyVars
  <2>2. TypeOK'
    BY <1>7 DEF IInv, TypeOK, vars, modeVars, roundVars, envVars, historyVars
  <2> QED  BY <2>1, <2>2, RecvUnchanged DEF IInv
<1> QED  BY <1>1, <1>2, <1>3, <1>4, <1>5, <1>6, <1>7 DEF Next

-----------------------------------------------------------------------------
(* The theorems.                                                           *)

\* The inductive invariant holds in every reachable state: the state in memory
\* and the saved one are Good after every handler, save and restart.
THEOREM Invariance == Spec => []IInv
BY InitIInv, NextIInv, PTL DEF Spec

\* The receive state in memory and on disk, the round and the GETs keep their
\* types (OfflineState and the poll fields of OpenedTab).
THEOREM TypeCorrect == Spec => []TypeOK
<1>1. IInv => TypeOK
  BY DEF IInv
<1> QED  BY <1>1, Invariance, PTL

\* Whatever MISS answers, probes, lost saves and restarts do, the receive base
\* stays behind what the peer is known to have sent, and that behind what it
\* has sent (finalize_offline_poll_round, advance_drop_recv_base).
THEOREM BaseStaysBehind == Spec => []BaseBehindKnown
<1>1. IInv => BaseBehindKnown
  BY DEF IInv, IRecv, Good, BaseBehindKnown
<1> QED  BY <1>1, Invariance, PTL

\* No index is passed over silently: what lies behind the base was shown, is a
\* skipped gap, or left the list of gaps (advance_drop_recv_base).
THEOREM NothingPassedSilently == Spec => []PassedIndexesAccounted
<1>1. IInv => PassedIndexesAccounted
  BY DEF IInv, IRecv, Good, PassedIndexesAccounted, ShownIndexes
<1> QED  BY <1>1, Invariance, PTL

\* Every gap given up had OFFLINE_GAP_MISS_ROUNDS rounds of confirmed MISS
\* (finalize_offline_poll_round).
THEOREM GapsAreConfirmed == Spec => []GapsConfirmed
<1>1. IInv => GapsConfirmed
  BY DEF IInv, IRecv, Good, GapsConfirmed
<1> QED  BY <1>1, Invariance, PTL

-----------------------------------------------------------------------------
(* What is shown while the tab is open, and the flag of a running round.   *)

\* A blob that is not among those seen has not been shown since the tab was
\* opened, and none has been shown twice.
ISeen ==
  restarts = 0 =>
    \A b \in Blob : /\ shown[b] <= 1
                    /\ b \notin seen => shown[b] = 0

LEMMA PollHitSeen ==
  ASSUME IInv, ISeen, NEW g \in Slots, PollHit(g)
  PROVE  ISeen'
<1>1. PICK i, vs :
        /\ seen' = seen \cup Fresh(i, vs)
        /\ shown' = [b \in Blob |-> IF b \in Fresh(i, vs) /\ shown[b] < 2
                                    THEN shown[b] + 1 ELSE shown[b]]
  BY ZenonT(60) DEF PollHit
<1>2. restarts' = restarts
  BY DEF PollHit
<1> SUFFICES ASSUME restarts = 0, NEW b \in Blob
             PROVE  shown'[b] <= 1 /\ (b \notin seen' => shown'[b] = 0)
  BY <1>2 DEF ISeen
<1>3. shown[b] \in 0 .. 2 /\ shown[b] <= 1 /\ (b \notin seen => shown[b] = 0)
  BY DEF IInv, TypeOK, ISeen
<1>4. shown'[b] = IF b \in Fresh(i, vs) /\ shown[b] < 2 THEN shown[b] + 1 ELSE shown[b]
  BY <1>1
<1>5. b \in Fresh(i, vs) => b \notin seen
  BY DEF Fresh
<1> QED  BY <1>1, <1>3, <1>4, <1>5

LEMMA NextISeen == IInv /\ ISeen /\ [Next]_vars => ISeen'
<1> SUFFICES ASSUME IInv, ISeen, [Next]_vars PROVE ISeen'
  OBVIOUS
<1>1. CASE \E g \in Slots : PollHit(g)
  BY <1>1, PollHitSeen
<1>2. CASE Restart
  <2>1. restarts' = restarts + 1 /\ restarts \in 0 .. MaxRestarts
    BY <1>2 DEF Restart, IInv, TypeOK
  <2>2. restarts' # 0
    BY <2>1, ReceiverAssumption
  <2> QED  BY <2>2 DEF ISeen
<1>3. CASE UNCHANGED <<seen, shown, restarts>>
  BY <1>3 DEF ISeen
<1>4. CASE \/ UNCHANGED vars \/ Environment \/ EnsureDeaddropRuntimeStarted
           \/ \E ok \in BOOLEAN : DeaddropStarted(ok)
           \/ GoOffline \/ GoOnline \/ ReceiveIndexSync \/ BeginPut
           \/ \E ok \in BOOLEAN : OfflinePutFinished(ok)
           \/ Tick
           \/ \E g \in Slots : PollMiss(g) \/ PollIndeterminate(g)
  <2>1. UNCHANGED <<seen, shown, restarts>>
    BY <1>4 DEF vars, Environment, PeerStores, DeaddropsLose, PollIntervalElapses,
       RecoveryProbeIntervalElapses, EnsureDeaddropRuntimeStarted, DeaddropStarted,
       GoOffline, GoOnline, ReceiveIndexSync, BeginPut, OfflinePutFinished, Tick,
       PollMiss, PollIndeterminate, historyVars
  <2> QED  BY <1>3, <2>1
<1> QED  BY <1>1, <1>2, <1>4 DEF Next, PollResult

\* A result whose slot gets the next key of the queue, or ends the round.
LEMMA PollStepFlag ==
  ASSUME TypeOK, NEW g \in Slots, NEW r, NEW misses, NEW auth, NEW saved,
         StartNextPollKey(g, r, misses, auth, saved)
  PROVE  PollInFlightIsReal'
<1>1. CASE AbandonRound(g, r, saved) \/ FinishRound(g, r, misses, auth, saved)
  BY <1>1 DEF AbandonRound, FinishRound, PollInFlightIsReal
<1>2. CASE PollNextKey(g, r, misses, auth, saved)
  <2>1. PICK t \in queue : gets' = [gets EXCEPT ![g] = t]
    BY <1>2 DEF PollNextKey
  <2>2. t # NoTarget
    BY ReceiverAssumption DEF TypeOK, Target, Kinds, Index
  <2>3. gets'[g] # NoTarget
    BY <2>1, <2>2 DEF TypeOK
  <2> QED  BY <2>3 DEF PollInFlightIsReal
<1> QED  BY <1>1, <1>2 DEF StartNextPollKey

LEMMA TargetsAreTargets ==
  ASSUME TypeOK
  PROVE  PollTargets \subseteq Target /\ NoTarget \notin Target
<1>1. RecvWindow(rx) \subseteq Target
  BY DEF RecvWindow, Target, Kinds
<1>2. RecoveryDue \subseteq Index
  BY SMT DEF RecoveryDue, Smallest, TypeOK, OfflineState
<1>3. NoTarget \notin Target
  BY ReceiverAssumption DEF Target, Kinds, Index
<1> QED  BY <1>1, <1>2, <1>3 DEF PollTargets, Target, Kinds

LEMMA NextPollFlag == IInv /\ PollInFlightIsReal /\ [Next]_vars => PollInFlightIsReal'
<1> SUFFICES ASSUME IInv, PollInFlightIsReal, [Next]_vars PROVE PollInFlightIsReal'
  OBVIOUS
<1>1. CASE PollResult
  BY <1>1, PollStepFlag DEF PollResult, PollHit, PollMiss, PollIndeterminate, IInv
<1>2. CASE Tick
  <2>1. CASE UNCHANGED <<polling, gets>>
    BY <2>1 DEF PollInFlightIsReal
  <2>2. CASE \E g \in Slots, t \in PollTargets : gets' = [gets EXCEPT ![g] = t]
    <3>1. PICK g \in Slots, t \in PollTargets : gets' = [gets EXCEPT ![g] = t]
      BY <2>2
    <3>2. t # NoTarget
      BY TargetsAreTargets DEF IInv
    <3>3. gets'[g] # NoTarget
      BY <3>1, <3>2 DEF IInv, TypeOK
    <3> QED  BY <3>3 DEF PollInFlightIsReal
  <2> QED  BY <1>2, <2>1, <2>2 DEF Tick, roundVars
<1>3. CASE \E ok \in BOOLEAN : DeaddropStarted(ok)
  BY <1>3 DEF DeaddropStarted, PollInFlightIsReal, roundVars
<1>4. CASE Restart
  BY <1>4 DEF Restart, PollInFlightIsReal
<1>5. CASE \/ UNCHANGED vars \/ Environment \/ EnsureDeaddropRuntimeStarted
           \/ GoOffline \/ GoOnline \/ ReceiveIndexSync \/ BeginPut
           \/ \E ok \in BOOLEAN : OfflinePutFinished(ok)
  BY <1>5 DEF vars, Environment, PeerStores, DeaddropsLose, PollIntervalElapses,
     RecoveryProbeIntervalElapses, EnsureDeaddropRuntimeStarted, GoOffline, GoOnline,
     ReceiveIndexSync, BeginPut, OfflinePutFinished, roundVars, PollInFlightIsReal
<1> QED  BY <1>1, <1>2, <1>3, <1>4, <1>5 DEF Next

-----------------------------------------------------------------------------
(* The progress in memory is that of the file.                             *)

SavedProgress ==
  ~DiskFaults => /\ disk.drop_recv_base = rx.drop_recv_base
                 /\ disk.known_remote_next_send = rx.known_remote_next_send

\* A step that keeps the progress and saves what it gains.
Durable == SavedProgress' /\ (~DiskFaults => Ahead(rx, rx'))

LEMMA NoProgressDurable ==
  ASSUME IInv, SavedProgress,
         ~DiskFaults =>
           /\ rx'.drop_recv_base = rx.drop_recv_base
           /\ rx'.known_remote_next_send = rx.known_remote_next_send
           /\ disk' = rx' \/ /\ disk'.drop_recv_base = disk.drop_recv_base
                             /\ disk'.known_remote_next_send = disk.known_remote_next_send
  PROVE  Durable
<1>1. rx.drop_recv_base \in Nat /\ rx.known_remote_next_send \in Nat
  BY ReceiverAssumption, SMT DEF IInv, TypeOK, OfflineState, Top
<1>2. ~DiskFaults => Ahead(rx, rx')
  BY <1>1 DEF Ahead
<1> QED  BY <1>2 DEF Durable, SavedProgress

\* What the progress of a receive state needs to be sound: Good, with nothing
\* asked of the screen, of the gaps forgotten and of the counts.
Most == [i \in Index |-> GapMissRounds]
Sound(r) == Good(r, sent, Index, Index, Most)

LEMMA ReceivedSound ==
  ASSUME IInv
  PROVE  /\ rx \in OfflineState /\ Sound(rx) /\ Ahead(rx, rx)
         /\ sent \in 0 .. Top /\ sent \in Nat
         /\ Most \in [Index -> 0 .. GapMissRounds]
<1>1. rx \in OfflineState /\ sent \in 0 .. Top /\ sent \in Nat
  BY ReceiverAssumption, SMT DEF IInv, TypeOK, Top
<1>2. Ahead(rx, rx)
  BY <1>1, ReceiverAssumption, SMT DEF OfflineState, Top, Ahead
<1>3. Most \in [Index -> 0 .. GapMissRounds] /\ Most \in [Index -> Nat]
  BY ReceiverAssumption, SMT DEF Most
<1>4. \A i \in Index : missAnswers[i] <= Most[i]
  BY ReceiverAssumption, SMT DEF Most, IInv, TypeOK
<1>5. ShownIndexes \subseteq Index /\ dropped \subseteq Index /\ sent <= sent
  BY <1>1 DEF ShownIndexes, IInv, TypeOK
<1>6. missAnswers \in [Index -> Nat]
  BY MissAnswersNat DEF IInv
<1> HIDE DEF Most
<1>7. Good(rx, sent, Index, Index, Most)
  BY <1>1, <1>3, <1>4, <1>5, <1>6, GoodMonotone DEF IInv, IRecv
<1> QED  BY <1>1, <1>2, <1>3, <1>7 DEF Sound

\* Whatever was missed, the end of a round moves nothing back.
LEMMA RoundAhead ==
  ASSUME IInv, NEW r, Sound(r), NEW misses, NEW auth, NEW expired
  PROVE  Ahead(r, FinalizeOfflinePollRound(r, misses, auth, expired))
<1>1. Counted(r, misses) \in [Index -> 0 .. GapMissRounds]
  BY CountedType DEF Sound, Good
<1>2. Countable(r, misses, Most)
  BY <1>1, ReceiverAssumption, SMT DEF Countable, Most
<1>3. AllSkipped(r, misses) \subseteq Index
  BY SMT DEF AllSkipped, SkipIndexes, Sound, Good, OfflineState
<1>4. sent \in 0 .. Top /\ Most \in [Index -> 0 .. GapMissRounds]
  BY ReceivedSound
<1>5. AllSkipped(r, misses) \ KeptSkipped(r, misses, expired) \subseteq Index
        /\ Index \subseteq Index
  BY <1>3
<1> QED  BY <1>2, <1>4, <1>5, FinalizeGood DEF Sound

\* What a poll result and the round that goes on with it do.
LEMMA PollStepDurable ==
  ASSUME IInv, SavedProgress, NEW g, NEW r, NEW misses, NEW auth, NEW saved \in BOOLEAN,
         Sound(r), Ahead(rx, r), ~saved => r = rx,
         StartNextPollKey(g, r, misses, auth, saved), rx' \in OfflineState
  PROVE  Durable
<1>0. rx \in OfflineState /\ r \in OfflineState
  BY DEF IInv, TypeOK, Sound, Good
<1> SUFFICES ASSUME ~DiskFaults PROVE Durable
  BY DEF Durable, SavedProgress
<1>1. CASE AbandonRound(g, r, saved) \/ PollNextKey(g, r, misses, auth, saved)
  <2>1. rx' = r /\ IF saved THEN Save({}, r) ELSE UNCHANGED disk
    BY <1>1 DEF AbandonRound, PollNextKey
  <2>2. disk' = rx' \/ (disk' = disk /\ rx' = rx)
    BY <2>1 DEF Save
  <2> QED  BY <2>1, <2>2 DEF Durable, SavedProgress
<1>2. CASE FinishRound(g, r, misses, auth, saved)
  <2>1. PICK expired :
          /\ rx' = FinalizeOfflinePollRound(r, misses, auth, expired)
          /\ Save(IF saved THEN {r} ELSE {}, rx')
    BY <1>2 DEF FinishRound
  <2>2. Ahead(rx, rx')
    BY <1>0, <2>1, RoundAhead, AheadTransitive
  <2>3. CASE disk' = rx'
    BY <2>2, <2>3 DEF Durable, SavedProgress
  <2> QED  BY <2>1, <2>3 DEF Save
<1> QED  BY <1>1, <1>2 DEF StartNextPollKey

LEMMA PollHitDurable ==
  ASSUME IInv, SavedProgress, NEW g \in Slots, PollHit(g), rx' \in OfflineState
  PROVE  Durable
<1> DEFINE i == gets[g].index
<1>1. i \in Index
  BY DEF PollHit, IInv, TypeOK, Target
<1>2. PICK vs \in SUBSET held[i] :
        /\ vs # {}
        /\ \/ StartNextPollKey(g, rx, roundMisses, roundAuth, FALSE)
           \/ StartNextPollKey(g, Authenticated(rx, i), roundMisses, roundAuth \cup {i}, TRUE)
  BY Zenon DEF PollHit
<1> HIDE DEF i
<1>3. i < sent
  BY <1>1, <1>2 DEF IInv, IRecv
<1>4. Sound(Authenticated(rx, i)) /\ Ahead(rx, Authenticated(rx, i))
  BY <1>1, <1>3, ReceivedSound, AuthenticatedGood DEF Sound
<1> QED  BY <1>2, <1>4, ReceivedSound, PollStepDurable

LEMMA PollEmptyDurable ==
  ASSUME IInv, SavedProgress, NEW g \in Slots, PollMiss(g) \/ PollIndeterminate(g),
         rx' \in OfflineState
  PROVE  Durable
<1>1. PICK misses : StartNextPollKey(g, rx, misses, roundAuth, FALSE)
  BY DEF PollMiss, PollIndeterminate
<1> QED  BY <1>1, ReceivedSound, PollStepDurable

LEMMA ReceiveDurable ==
  ASSUME IInv, SavedProgress, ReceiveIndexSync
  PROVE  Durable
<1>1. PICK n \in 0 .. sent :
        rx' = [rx EXCEPT !.known_remote_next_send = Larger(rx.known_remote_next_send, n)]
  BY DEF ReceiveIndexSync
<1>2. /\ rx'.drop_recv_base = rx.drop_recv_base
      /\ rx'.known_remote_next_send = Larger(rx.known_remote_next_send, n)
  BY <1>1, ReceivedSound, SMT DEF OfflineState
<1>3. rx.drop_recv_base \in Nat /\ rx.known_remote_next_send \in Nat /\ n \in Nat
  BY ReceivedSound, ReceiverAssumption, SMT DEF OfflineState, Top
<1>4. Ahead(rx, rx')
  BY <1>2, <1>3 DEF Ahead, Larger
<1>5. ~DiskFaults => disk' = rx'
  BY DEF ReceiveIndexSync, Save
<1> QED  BY <1>4, <1>5 DEF Durable, SavedProgress

LEMMA RestartDurable ==
  ASSUME IInv, SavedProgress, Restart
  PROVE  Durable
<1>1. /\ disk \in OfflineState /\ UNCHANGED disk
      /\ disk.drop_recv_base <= disk.known_remote_next_send
  BY DEF IInv, TypeOK, IRecv, Good, Restart
<1>2. Larger(disk.known_remote_next_send, disk.drop_recv_base)
        = disk.known_remote_next_send
  BY <1>1, ReceiverAssumption, SMT DEF Larger, OfflineState, Top
<1>3. /\ rx'.drop_recv_base = disk.drop_recv_base
      /\ rx'.known_remote_next_send = disk.known_remote_next_send
  <2>1. rx' = [disk EXCEPT !.known_remote_next_send = disk.known_remote_next_send]
    BY <1>2 DEF Restart
  <2> QED  BY <1>1, <2>1, SMT DEF OfflineState
<1> QED  BY <1>1, <1>3, NoProgressDurable DEF SavedProgress

LEMMA ClockDurable ==
  ASSUME IInv, SavedProgress, RecoveryProbeIntervalElapses \/ Tick
  PROVE  Durable
<1>1. rx \in OfflineState /\ disk \in OfflineState
  BY DEF IInv, TypeOK
<1>2. /\ rx'.drop_recv_base = rx.drop_recv_base
      /\ rx'.known_remote_next_send = rx.known_remote_next_send
  <2>1. CASE RecoveryProbeIntervalElapses
    <3>1. rx' = [rx EXCEPT !.recently_probed = {}]
      BY <2>1 DEF RecoveryProbeIntervalElapses
    <3> QED  BY <1>1, <3>1, SMT DEF OfflineState
  <2>2. CASE Tick
    <3>1. PICK f, p : rx' = [rx EXCEPT !.forward_probe_index = f, !.recently_probed = p]
      BY <2>2 DEF Tick
    <3> QED  BY <1>1, <3>1 DEF OfflineState
  <2> QED  BY <2>1, <2>2
<1>3. /\ disk'.drop_recv_base = disk.drop_recv_base
      /\ disk'.known_remote_next_send = disk.known_remote_next_send
  BY <1>1 DEF RecoveryProbeIntervalElapses, Tick, OfflineState
<1> QED  BY <1>2, <1>3, NoProgressDurable

LEMMA ModeDurable ==
  ASSUME IInv, SavedProgress,
         \/ UNCHANGED vars \/ PeerStores \/ DeaddropsLose \/ PollIntervalElapses
         \/ EnsureDeaddropRuntimeStarted \/ GoOffline \/ GoOnline \/ BeginPut
         \/ \E ok \in BOOLEAN : DeaddropStarted(ok) \/ OfflinePutFinished(ok)
  PROVE  Durable
<1>1. rx' = rx /\ (disk' = disk \/ Save({}, rx))
  BY DEF vars, PeerStores, DeaddropsLose, PollIntervalElapses,
     EnsureDeaddropRuntimeStarted, GoOffline, GoOnline, BeginPut, DeaddropStarted,
     OfflinePutFinished
<1>2. ~DiskFaults => disk' = disk \/ disk' = rx'
  BY <1>1 DEF Save
<1> QED  BY <1>1, <1>2, NoProgressDurable

LEMMA NextDurable == IInv /\ SavedProgress /\ IInv' /\ [Next]_vars => Durable
<1> SUFFICES ASSUME IInv, SavedProgress, IInv', [Next]_vars PROVE Durable
  OBVIOUS
<1>1. rx' \in OfflineState
  BY DEF IInv, TypeOK
<1>2. CASE PollResult
  BY <1>1, <1>2, PollHitDurable, PollEmptyDurable DEF PollResult
<1> QED  BY <1>2, ReceiveDurable, RestartDurable, ClockDurable, ModeDurable
         DEF Next, Environment

LEMMA InitMore == Init => ISeen /\ PollInFlightIsReal /\ SavedProgress
BY DEF Init, ISeen, PollInFlightIsReal, SavedProgress

-----------------------------------------------------------------------------
\* No blob is shown twice while the tab stays open, for every size of the window
\* and however poll chains overlap (seen_drop_msgs).
THEOREM BlobsShownOnce == Spec => []ShownOnceWhileOpen
<1>1. Init => ISeen
  BY InitMore
<1>2. IInv /\ ISeen /\ [Next]_vars => ISeen'
  BY NextISeen
<1>3. ISeen => ShownOnceWhileOpen
  BY DEF ISeen, ShownOnceWhileOpen
<1> QED  BY <1>1, <1>2, <1>3, Invariance, PTL DEF Spec

\* The flag that keeps the next round from starting is set only while a GET is
\* out whose result will continue or end the round (deaddrop_poll_in_flight).
THEOREM PollFlagIsReal == Spec => []PollInFlightIsReal
<1>1. Init => PollInFlightIsReal
  BY InitMore
<1>2. IInv /\ PollInFlightIsReal /\ [Next]_vars => PollInFlightIsReal'
  BY NextPollFlag
<1> QED  BY <1>1, <1>2, Invariance, PTL DEF Spec

\* On a disk that keeps what was saved no step and no restart moves the receive
\* base or the known send index back, in memory or in the file: the handlers save
\* before anything can be lost (OfflinePollKeyFinished, the I frame handler).
THEOREM ReceiverProgressDurable == Spec => ProgressIsDurable
<1>1. Init => SavedProgress
  BY InitMore
<1>2. IInv /\ SavedProgress /\ IInv' /\ [Next]_vars
        => /\ SavedProgress'
           /\ [DiskFaults \/ /\ rx.drop_recv_base <= rx'.drop_recv_base
                             /\ rx.known_remote_next_send <= rx'.known_remote_next_send
                             /\ disk.drop_recv_base <= disk'.drop_recv_base]_vars
  BY NextDurable DEF Durable, Ahead, SavedProgress
<1> QED  BY <1>1, <1>2, Invariance, PTL DEF Spec, ProgressIsDurable

=============================================================================
