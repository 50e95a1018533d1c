------------------------- MODULE GroupRosterProofs -------------------------
(***************************************************************************)
(* That a group has one roster per version, that only its members are      *)
(* authorised, that no peer goes back to an older roster, and that a token *)
(* brings one peer in.                                                     *)
(***************************************************************************)
EXTENDS GroupRoster, TLAPS

(* Frames whose rosters are among R. *)
FramesOf(R) ==
  [type : {"HELLO", "QUIT"}] \cup [type : {"RENAME"}, new : BOOLEAN]
    \cup [type : {"JOIN"}, token : Tokens, new : BOOLEAN]
    \cup [type : {"ROSTER"}, roster : R]

(* Streams that carry such frames only, and that have two ends when they   *)
(* have one.                                                               *)
StreamSet(R) ==
  [from : Peers \cup {None}, to : Peers \cup {None}, open : BOOLEAN,
   held : SUBSET Peers, pend : SUBSET Peers, shut : BOOLEAN,
   box : SUBSET (Peers \X FramesOf(R))]
StreamOf(s, R) ==
  /\ s \in StreamSet(R)
  /\ s.held \cup s.pend # {} => s.from \in Peers /\ s.to \in Peers /\ s.from # s.to

StreamsOK(st, R) ==
  /\ st = [c \in Streams |-> st[c]]
  /\ \A c \in Streams : StreamOf(st[c], R)

(* The links of peer p with the members M in its roster: none to itself,   *)
(* and only members are authorised.                                        *)
LinksOf(ls, p, M) ==
  /\ ls \in [Peers -> Link]
  /\ ls[p] = NoLink
  /\ \A q \in Peers : ls[q].auth => q \in M

(* What the owner has signed is at most as new as its group, and as new    *)
(* only if it is that group.                                               *)
Signs(S, m, d) ==
  LET r == [version |-> m.version, members |-> m.members \cup {Owner},
            renamed |-> m.renamed \cup (d \cap {Owner})]
  IN /\ r \in S
     /\ \A s \in S : s.version \in 1..m.version /\ (s.version = m.version => s = r)

(* No two rosters of a version. *)
OnePerVersion(S) == \A r, s \in S : r.version = s.version => r = s

(* The stored group of p is of a roster among S. *)
TakenFrom(m, p, S) ==
  m.members # {} => \E r \in S : /\ r.version = m.version
                                 /\ m.members = r.members \ {p}
                                 /\ m.renamed = r.renamed \ {p}

(* An invitation is of a roster among S. *)
Issues(is, S) ==
  /\ is \in [Tokens -> Issued]
  /\ \A t \in Tokens : IF is[t].state = "none" THEN is[t].by = None
                       ELSE is[t].invite \in S

(* What is stored: the owner's group is the last it signed, no version was *)
(* signed twice, invitations are of signed rosters, and so is what members *)
(* have.                                                                   *)
Rosters(ms, is, S, d, x) ==
  /\ ms \in [Peers -> Meta]
  /\ \A p \in Peers : p \notin ms[p].members
  /\ Issues(is, S)
  /\ S \subseteq Roster
  /\ Signs(S, ms[Owner], d)
  /\ OnePerVersion(S)
  /\ \A p \in Others \ x : TakenFrom(ms[p], p, S)

(* What the open tabs keep. *)
LinksOK(lk, ms) == /\ lk = [p \in Peers |-> lk[p]]
                   /\ \A p \in Peers : LinksOf(lk[p], p, ms[p].members)

(* The rest of the type invariant. *)
Rest ==
  /\ up \subseteq Peers
  /\ imported \subseteq Private /\ expired \subseteq Private
  /\ display \subseteq Peers
  /\ edits \in 0..MaxEdits /\ faults \in 0..MaxFaults
  /\ mixed \subseteq Others
  /\ admissions \in [Tokens -> Nat]

(* The invariant, and what every step does to the versions. *)
GInv ==
  /\ Rosters(meta, issued, signed, display, mixed)
  /\ LinksOK(link, meta)
  /\ StreamsOK(stream, signed)
  /\ Rest

Grows == \A p \in Peers : meta'[p].version >= meta[p].version

-----------------------------------------------------------------------------
(* Streams *)

(* The fields of a stream. *)
LEMMA StreamFields ==
  ASSUME NEW R, NEW s, StreamOf(s, R)
  PROVE  /\ s.from \in Peers \cup {None} /\ s.to \in Peers \cup {None}
         /\ s.open \in BOOLEAN /\ s.shut \in BOOLEAN
         /\ s.held \subseteq Peers /\ s.pend \subseteq Peers
         /\ s.box \subseteq Peers \X FramesOf(R)
         /\ s = [from |-> s.from, to |-> s.to, open |-> s.open, held |-> s.held,
                 pend |-> s.pend, shut |-> s.shut, box |-> s.box]
PROOF BY DEF StreamOf, StreamSet

LEMMA StreamDomain ==
  ASSUME NEW R, NEW s, StreamOf(s, R)
  PROVE  DOMAIN s = {"from", "to", "open", "held", "pend", "shut", "box"}
PROOF BY StreamFields

LEMMA NoStreamOK ==
  ASSUME NEW R
  PROVE  StreamOf(NoStream, R)
PROOF BY DEF StreamOf, StreamSet, NoStream

(* An end that is given up leaves a stream of its kind. *)
LEMMA LeftOK ==
  ASSUME NEW R, NEW s, StreamOf(s, R), NEW p, NEW shut \in BOOLEAN
  PROVE  StreamOf(Left(s, p, shut), R)
PROOF
<1> DEFINE t == [from |-> s.from, to |-> s.to, open |-> s.open,
                 held |-> s.held \ {p}, pend |-> s.pend \ {p},
                 shut |-> s.shut \/ shut, box |-> {m \in s.box : m[1] # p}]
<1>1. Left(s, p, shut) \in {NoStream, t}
  <2>1. s = [from |-> s.from, to |-> s.to, open |-> s.open, held |-> s.held,
             pend |-> s.pend, shut |-> s.shut, box |-> s.box]
    BY StreamFields
  <2>2. CASE s.held \subseteq {p}
    BY <2>2 DEF Left
  <2>3. CASE ~(s.held \subseteq {p})
    <3>1. Left(s, p, shut) = [s EXCEPT !.held = s.held \ {p}, !.pend = s.pend \ {p},
                                       !.shut = s.shut \/ shut,
                                       !.box = {m \in s.box : m[1] # p}]
      BY <2>3, Zenon DEF Left
    <3>2. DOMAIN s = {"from", "to", "open", "held", "pend", "shut", "box"}
      BY <2>1
    <3>3. QED
      BY <3>1, <3>2
  <2>4. QED
    BY <2>2, <2>3
<1>2. StreamOf(t, R)
  BY StreamFields DEF StreamOf, StreamSet
<1>3. QED
  BY <1>1, <1>2, NoStreamOK

LEMMA PostedOK ==
  ASSUME NEW R, NEW s, StreamOf(s, R), NEW q, NEW frames \in SUBSET FramesOf(R)
  PROVE  StreamOf(Posted(s, q, frames), R)
PROOF
<1>1. CASE s.shut \/ q \notin s.held
  BY <1>1 DEF Posted
<1>2. CASE ~s.shut /\ q \in s.held
  <2> DEFINE box == s.box \cup ({q} \X frames)
             t == [from |-> s.from, to |-> s.to, open |-> s.open, held |-> s.held,
                   pend |-> s.pend, shut |-> s.shut, box |-> box]
  <2>1. Posted(s, q, frames) = t
    BY <1>2, StreamFields DEF Posted
  <2>2. box \subseteq Peers \X FramesOf(R)
    BY <1>2, StreamFields
  <2>3. StreamOf(t, R)
    BY <2>2, StreamFields DEF StreamOf, StreamSet
  <2>4. QED
    BY <2>1, <2>3
<1>3. QED
  BY <1>1, <1>2

(* Streams that carry rosters among R carry rosters among more. *)
LEMMA MoreRosters ==
  ASSUME NEW R, NEW S, R \subseteq S, NEW st, StreamsOK(st, R)
  PROVE  StreamsOK(st, S)
PROOF
<1>1. FramesOf(R) \subseteq FramesOf(S)
  BY DEF FramesOf
<1>2. ASSUME NEW c \in Streams PROVE StreamOf(st[c], S)
  <2>1. StreamOf(st[c], R)
    BY DEF StreamsOK
  <2>2. st[c].box \subseteq Peers \X FramesOf(S)
    BY <1>1, <2>1, StreamFields
  <2>3. QED
    BY <2>1, <2>2 DEF StreamOf, StreamSet
<1>3. QED
  BY <1>2 DEF StreamsOK

LEMMA DroppedOK ==
  ASSUME NEW R, NEW st, StreamsOK(st, R), NEW p, NEW ls
  PROVE  StreamsOK(Dropped(st, p, ls), R)
PROOF
<1>1. ASSUME NEW c \in Streams PROVE StreamOf(Dropped(st, p, ls)[c], R)
  <2>1. StreamOf(st[c], R) /\ StreamOf(Left(st[c], p, FALSE), R)
    BY LeftOK DEF StreamsOK
  <2>2. Dropped(st, p, ls)[c] \in {st[c], Left(st[c], p, FALSE)}
    BY DEF Dropped
  <2>3. QED
    BY <2>1, <2>2
<1>2. QED
  BY <1>1 DEF StreamsOK, Dropped

LEMMA RosterFrame ==
  ASSUME NEW R, NEW roster
  PROVE  [type |-> "ROSTER", roster |-> roster] \in FramesOf(R) <=> roster \in R
PROOF BY DEF FramesOf

LEMMA SyncedOK ==
  ASSUME NEW R, NEW st, StreamsOK(st, R), NEW ls, NEW roster \in R
  PROVE  StreamsOK(Synced(st, ls, roster), R)
PROOF
<1> DEFINE fs == {[type |-> "ROSTER", roster |-> roster]}
<1>1. fs \in SUBSET FramesOf(R)
  BY RosterFrame
<1>2. ASSUME NEW c \in Streams PROVE StreamOf(Synced(st, ls, roster)[c], R)
  <2> DEFINE qs == {q \in Peers : ls[q].conn = c /\ ls[q].ready /\ ls[q].auth}
             q == CHOOSE x \in qs : TRUE
  <2>1. Synced(st, ls, roster)[c] \in {st[c], Posted(st[c], q, fs)}
    BY DEF Synced
  <2>2. StreamOf(st[c], R)
    BY DEF StreamsOK
  <2>3. StreamOf(Posted(st[c], q, fs), R)
    BY <1>1, <2>2, PostedOK
  <2>4. QED
    BY <2>1, <2>2, <2>3
<1>3. QED
  BY <1>2 DEF StreamsOK, Synced

(* Changing one stream. *)
LEMMA ExceptOK ==
  ASSUME NEW R, NEW st, StreamsOK(st, R), NEW c, NEW s, StreamOf(s, R)
  PROVE  StreamsOK([st EXCEPT ![c] = s], R)
PROOF BY DEF StreamsOK

-----------------------------------------------------------------------------
(* Links *)

LEMMA LinkFields ==
  ASSUME NEW l \in Link
  PROVE  /\ l.known \in BOOLEAN /\ l.auth \in BOOLEAN /\ l.ready \in BOOLEAN
         /\ l.conn \in Streams \cup {None} /\ l.dial \in BOOLEAN
         /\ l = [known |-> l.known, auth |-> l.auth, ready |-> l.ready,
                 conn |-> l.conn, dial |-> l.dial]
PROOF BY DEF Link

LEMMA LinkTypes ==
  /\ NoLink \in Link /\ NoLink.auth = FALSE /\ NoLink.known = FALSE
  /\ NoLink.conn = None /\ NoLink.ready = FALSE
  /\ \A a \in BOOLEAN : NewLink(a) \in Link
PROOF BY DEF NoLink, NewLink, Link

LEMMA ResetOK ==
  ASSUME NEW l \in Link
  PROVE  Reset(l) \in Link /\ Reset(l).auth = l.auth
PROOF BY DEF Reset, Link

LEMMA StartedOK ==
  ASSUME NEW l \in Link, NEW c \in Streams
  PROVE  Started(l, c) \in Link /\ Started(l, c).auth = l.auth
PROOF BY DEF Started, Link

(* After a roster with the members M only these are in the list.           *)
LEMMA UpdatedOK ==
  ASSUME NEW ls \in [Peers -> Link], NEW M, NEW p \in Peers, p \notin M
  PROVE  LinksOf(Updated(ls, M), p, M)
PROOF BY LinkTypes DEF LinksOf, Updated

LEMMA OpenedOK ==
  ASSUME NEW M, NEW p \in Peers, p \notin M
  PROVE  LinksOf(OpenedLinks(M), p, M)
PROOF BY LinkTypes DEF LinksOf, OpenedLinks

(* A link to another peer is replaced by one that is no more authorised.   *)
LEMMA LinkSet ==
  ASSUME NEW p \in Peers, NEW q \in Peers \ {p}, NEW M, NEW ls, LinksOf(ls, p, M),
         NEW l \in Link, l.auth => q \in M
  PROVE  LinksOf([ls EXCEPT ![q] = l], p, M)
PROOF BY DEF LinksOf

-----------------------------------------------------------------------------
(* What the owner signs *)

Older(m, n) == m = n \/ m.version < n.version

(* A newer group is signed; or the same group again.                       *)
LEMMA SignsNext ==
  ASSUME NEW S, NEW m \in Meta, NEW n \in Meta, NEW d, NEW e, Signs(S, m, d),
         OnePerVersion(S), m.version < n.version \/ (m = n /\ d = e),
         NEW r, r = [version |-> n.version, members |-> n.members \cup {Owner},
                     renamed |-> n.renamed \cup (e \cap {Owner})]
  PROVE  Signs(S \cup {r}, n, e) /\ OnePerVersion(S \cup {r})
PROOF
<1>1. m.version \in Nat /\ n.version \in Nat /\ r.version = n.version
  BY DEF Meta
<1>2. CASE m.version < n.version
  <2>1. \A s \in S : s.version \in 1..m.version
    BY DEF Signs
  <2>2. m.version \in 1..m.version
    BY <2>1 DEF Signs
  <2>3. \A s \in S \cup {r} : s.version \in 1..n.version /\ (s.version = n.version => s = r)
    BY <1>1, <1>2, <2>1, <2>2
  <2>4. \A s, t \in S \cup {r} : s.version = t.version => s = t
    <3>1. \A s \in S : s.version # r.version
      BY <1>1, <1>2, <2>1
    <3>2. \A s, t \in S : s.version = t.version => s = t
      BY DEF OnePerVersion
    <3>3. QED
      BY <3>1, <3>2
  <2>5. QED
    BY <2>3, <2>4 DEF Signs, OnePerVersion
<1>3. CASE m = n /\ d = e
  <2>1. r \in S
    BY <1>3 DEF Signs
  <2>2. S \cup {r} = S
    BY <2>1
  <2>3. QED
    BY <1>3, <2>2
<1>4. QED
  BY <1>2, <1>3

-----------------------------------------------------------------------------
(* The parts of the invariant *)

LEMMA PeerFacts ==
  /\ Owner \in Peers /\ Others \subseteq Peers /\ Owner \notin Others
  /\ \A p \in Peers : p # Owner => p \in Others
  /\ None \notin Peers /\ None \notin Streams /\ None \notin Tokens
PROOF BY GroupAssumption DEF Peers, None

(* What the owner signed before is a roster that it keeps.                 *)
LEMMA OwnRosterSigned ==
  ASSUME Rosters(meta, issued, signed, display, mixed)
  PROVE  OwnRoster(meta[Owner]) \in signed
PROOF BY DEF Rosters, Signs, OwnRoster

(* The owner signs a newer group, or the same one again.                   *)
LEMMA SigningOK ==
  ASSUME Rosters(meta, issued, signed, display, mixed),
         display \subseteq Peers, display' \subseteq Peers, mixed' = mixed,
         NEW n \in Meta, Owner \notin n.members,
         meta[Owner].version < n.version \/ (meta[Owner] = n /\ display' = display),
         Issues(issued', signed),
         NEW r, r = [version |-> n.version, members |-> n.members \cup {Owner},
                     renamed |-> n.renamed \cup (display' \cap {Owner})],
         meta' = [meta EXCEPT ![Owner] = n], signed' = signed \cup {r}
  PROVE  Rosters(meta', issued', signed', display', mixed') /\ Grows
PROOF
<1>1. /\ meta \in [Peers -> Meta] /\ meta' \in [Peers -> Meta] /\ meta'[Owner] = n
      /\ \A p \in Peers : p # Owner => meta'[p] = meta[p]
  BY PeerFacts DEF Rosters
<1>2. \A p \in Peers : p \notin meta'[p].members
  BY <1>1 DEF Rosters
<1>3. signed' \subseteq Roster
  <2>1. signed \subseteq Roster
    BY DEF Rosters
  <2>2. n.version \in Nat /\ n.members \subseteq Peers /\ n.renamed \subseteq Peers
    BY DEF Meta
  <2>3. r \in Roster
    BY <2>2, PeerFacts DEF Roster
  <2>4. QED
    BY <2>1, <2>3
<1>4. Signs(signed', n, display') /\ OnePerVersion(signed')
  <2>1. meta[Owner] \in Meta /\ Signs(signed, meta[Owner], display)
          /\ OnePerVersion(signed)
    BY <1>1, PeerFacts DEF Rosters
  <2>2. QED
    BY <2>1, SignsNext
<1>5. Issues(issued', signed')
  BY DEF Issues
<1>6. \A p \in Others \ mixed : TakenFrom(meta'[p], p, signed')
  <2>1. \A p \in Others \ mixed : TakenFrom(meta[p], p, signed) /\ meta'[p] = meta[p]
    BY <1>1, PeerFacts DEF Rosters
  <2>2. QED
    BY <2>1 DEF TakenFrom
<1>7. Grows
  <2>1. \A p \in Peers : meta[p].version \in Nat /\ meta'[p].version \in Nat
    BY <1>1 DEF Meta
  <2>2. QED
    BY <1>1, <2>1 DEF Grows
<1>8. QED
  BY <1>1, <1>2, <1>3, <1>4, <1>5, <1>6, <1>7 DEF Rosters

(* The links of one peer are replaced, and so may be its group. *)
LEMMA LinksSet ==
  ASSUME NEW lk, NEW ms \in [Peers -> Meta], LinksOK(lk, ms), NEW p \in Peers,
         NEW m, NEW ls, LinksOf(ls, p, m.members)
  PROVE  LinksOK([lk EXCEPT ![p] = ls], [ms EXCEPT ![p] = m])
PROOF
<1>1. \A q \in Peers : /\ [lk EXCEPT ![p] = ls][q] = IF q = p THEN ls ELSE lk[q]
                       /\ [ms EXCEPT ![p] = m][q] = IF q = p THEN m ELSE ms[q]
  BY DEF LinksOK
<1>2. QED
  BY <1>1 DEF LinksOK

LEMMA LinksKept ==
  ASSUME NEW lk, NEW ms, LinksOK(lk, ms), NEW p \in Peers,
         NEW ls, LinksOf(ls, p, ms[p].members)
  PROVE  LinksOK([lk EXCEPT ![p] = ls], ms)
PROOF BY DEF LinksOK

(* One link to another peer is replaced by one no more authorised.         *)
LEMMA OneLink ==
  ASSUME NEW lk, NEW ms, LinksOK(lk, ms), NEW p \in Peers, NEW q \in Peers, p # q,
         NEW l \in Link, l.auth => lk[p][q].auth
  PROVE  LinksOK([lk EXCEPT ![p][q] = l], ms)
PROOF
<1> DEFINE ls == [lk[p] EXCEPT ![q] = l]
<1>1. LinksOf(lk[p], p, ms[p].members)
  BY DEF LinksOK
<1>2. LinksOf(ls, p, ms[p].members)
  <2>1. l.auth => q \in ms[p].members
    BY <1>1 DEF LinksOf
  <2>2. QED
    BY <1>1, <2>1, LinkSet
<1>3. [lk EXCEPT ![p][q] = l] = [lk EXCEPT ![p] = ls]
  BY DEF LinksOK
<1>4. QED
  BY <1>2, <1>3, LinksKept

(* A link in use leads to another peer over a stream.                      *)
LEMMA LinkInUse ==
  ASSUME NEW lk, NEW ms, LinksOK(lk, ms), NEW p \in Peers, NEW q \in Peers
  PROVE  /\ lk[p][q] \in Link
         /\ lk[p] \in [Peers -> Link]
         /\ lk[p][q].auth => q \in ms[p].members
         /\ lk[p][q].conn # None => p # q /\ lk[p][q].conn \in Streams
PROOF BY LinkTypes, LinkFields DEF LinksOK, LinksOf

(* The owner publishes a group.                                            *)
LEMMA PublishesOK ==
  ASSUME GInv, NEW n \in Meta, Owner \notin n.members,
         meta[Owner].version < n.version \/ meta[Owner] = n,
         display' = display, mixed' = mixed,
         Issues(issued', signed),
         NEW ls \in [Peers -> Link], NEW st, StreamsOK(st, signed),
         Publishes(n, ls, st)
  PROVE  /\ Rosters(meta', issued', signed', display', mixed')
         /\ LinksOK(link', meta')
         /\ StreamsOK(stream', signed')
         /\ Grows
PROOF
<1> DEFINE r == OwnRoster(n)
           new == Updated(ls, n.members)
<1>1. /\ meta' = [meta EXCEPT ![Owner] = n]
      /\ signed' = signed \cup {r}
      /\ link' = [link EXCEPT ![Owner] = new]
      /\ stream' = Synced(Dropped(st, Owner, new), new, r)
  BY DEF Publishes
<1>2. /\ Rosters(meta, issued, signed, display, mixed)
      /\ LinksOK(link, meta) /\ display \subseteq Peers
      /\ meta \in [Peers -> Meta]
  BY DEF GInv, Rest, Rosters
<1>3. Rosters(meta', issued', signed', display', mixed') /\ Grows
  <2>1. r = [version |-> n.version, members |-> n.members \cup {Owner},
             renamed |-> n.renamed \cup (display' \cap {Owner})]
    BY DEF OwnRoster
  <2>2. QED
    BY <1>1, <1>2, <2>1, SigningOK
<1>4. LinksOK(link', meta')
  <2>1. LinksOf(new, Owner, n.members)
    BY UpdatedOK, PeerFacts
  <2>2. QED
    BY <1>1, <1>2, <2>1, LinksSet, PeerFacts
<1>5. StreamsOK(stream', signed')
  <2>1. StreamsOK(st, signed')
    BY <1>1, MoreRosters
  <2>2. StreamsOK(Dropped(st, Owner, new), signed') /\ r \in signed'
    BY <1>1, <2>1, DroppedOK
  <2>3. QED
    BY <1>1, <2>2, SyncedOK
<1>6. QED
  BY <1>3, <1>4, <1>5

-----------------------------------------------------------------------------
(* Connections *)

LEMMA FaultOK ==
  ASSUME Rest, Fault
  PROVE  faults' \in 0..MaxFaults
PROOF BY GroupAssumption DEF Rest, Fault

LEMMA EditOK ==
  ASSUME Rest, Edit
  PROVE  edits' \in 0..MaxEdits
PROOF BY GroupAssumption DEF Rest, Edit

(* The groups do not change. *)
LEMMA RuntimeStep ==
  ASSUME GInv, UNCHANGED rosterVars, up' \subseteq Peers, faults' \in 0..MaxFaults,
         LinksOK(link', meta), StreamsOK(stream', signed)
  PROVE  GInv' /\ Grows
PROOF
<1>1. /\ meta' = meta /\ issued' = issued /\ signed' = signed /\ display' = display
      /\ mixed' = mixed /\ imported' = imported /\ expired' = expired
      /\ edits' = edits /\ admissions' = admissions
  BY DEF rosterVars
<1>2. Rosters(meta', issued', signed', display', mixed')
  BY <1>1 DEF GInv
<1>3. Rest'
  BY <1>1 DEF GInv, Rest
<1>4. LinksOK(link', meta') /\ StreamsOK(stream', signed')
  BY <1>1
<1>5. Grows
  <2>1. \A p \in Peers : meta[p].version \in Nat
    BY DEF GInv, Rosters, Meta
  <2>2. QED
    BY <1>1, <2>1 DEF Grows
<1>6. QED
  BY <1>2, <1>3, <1>4, <1>5 DEF GInv

LEMMA BoxOK ==
  ASSUME NEW R, NEW s, StreamOf(s, R), NEW x
  PROVE  StreamOf([s EXCEPT !.box = @ \ {x}], R)
PROOF
<1> DEFINE t == [from |-> s.from, to |-> s.to, open |-> s.open, held |-> s.held,
                 pend |-> s.pend, shut |-> s.shut, box |-> s.box \ {x}]
<1>1. [s EXCEPT !.box = @ \ {x}] = t
  <2>1. s.box = s.box /\ DOMAIN s = {"from", "to", "open", "held", "pend", "shut", "box"}
    BY StreamDomain
  <2>2. QED
    BY <2>1
<1>2. StreamOf(t, R)
  BY StreamFields DEF StreamOf, StreamSet
<1>3. QED
  BY <1>1, <1>2

LEMMA ReadOK ==
  ASSUME StreamsOK(stream, signed), NEW p, NEW q, NEW f, link[p][q].conn \in Streams
  PROVE  StreamsOK(Read(p, q, f), signed)
PROOF
<1> DEFINE c == link[p][q].conn
           s == [stream[c] EXCEPT !.box = @ \ {<<p, f>>}]
<1>1. StreamOf(stream[c], signed)
  BY DEF StreamsOK
<1>2. StreamOf(s, signed)
  BY <1>1, BoxOK
<1>3. Read(p, q, f) = [stream EXCEPT ![c] = s]
  BY DEF Read, StreamsOK
<1>4. StreamsOK([stream EXCEPT ![c] = s], signed)
  <2> HIDE DEF s, c
  <2>1. QED
    BY <1>2, ExceptOK
<1>5. QED
  BY <1>3, <1>4, Zenon

LEMMA HangsOK ==
  ASSUME LinksOK(link, meta), NEW p \in Peers, NEW q \in Peers,
         link[p][q].conn # None, NEW auth \in BOOLEAN, auth => link[p][q].auth,
         NEW st, StreamsOK(st, signed), Hangs(p, q, auth, st)
  PROVE  LinksOK(link', meta) /\ StreamsOK(stream', signed)
PROOF
<1> DEFINE c == link[p][q].conn
           l == [Reset(link[p][q]) EXCEPT !.auth = auth]
<1>1. link[p][q] \in Link /\ p # q /\ c \in Streams
  BY LinkInUse
<1>2. link' = [link EXCEPT ![p][q] = l] /\ stream' = [st EXCEPT ![c] = Left(st[c], p, TRUE)]
  BY DEF Hangs
<1>3. l \in Link /\ l.auth = auth
  BY <1>1, ResetOK DEF Link
<1>4. LinksOK(link', meta)
  BY <1>1, <1>2, <1>3, OneLink
<1>5. StreamsOK(stream', signed)
  <2>1. StreamOf(st[c], signed)
    BY <1>1 DEF StreamsOK
  <2>2. StreamOf(Left(st[c], p, TRUE), signed)
    BY <2>1, LeftOK
  <2>3. QED
    BY <1>2, <2>2, ExceptOK
<1>6. QED
  BY <1>4, <1>5

LEMMA HelloFrame ==
  ASSUME NEW R
  PROVE  {[type |-> "HELLO"]} \in SUBSET FramesOf(R)
           /\ {[type |-> "QUIT"]} \in SUBSET FramesOf(R)
PROOF BY DEF FramesOf

LEMMA TakesOK ==
  ASSUME LinksOK(link, meta), StreamsOK(stream, signed), NEW p \in Peers,
         NEW q \in Peers, p # q, NEW c \in Streams, Takes(p, q, c)
  PROVE  LinksOK(link', meta) /\ StreamsOK(stream', signed)
PROOF
<1>1. LinksOK(link', meta)
  <2>1. link[p][q] \in Link
    BY LinkInUse
  <2>2. link' = [link EXCEPT ![p][q] = Started(link[p][q], c)]
    BY DEF Takes
  <2>3. QED
    BY <2>1, <2>2, StartedOK, OneLink
<1>2. StreamsOK(stream', signed)
  <2> DEFINE s == stream[c]
             t == [from |-> s.from, to |-> s.to, open |-> s.open, held |-> s.held,
                   pend |-> s.pend \ {p}, shut |-> s.shut, box |-> s.box]
  <2>1. StreamOf(s, signed)
    BY DEF StreamsOK
  <2>2. [s EXCEPT !.pend = @ \ {p}] = t
    BY <2>1, StreamFields
  <2>3. StreamOf(t, signed)
    BY <2>1, StreamFields DEF StreamOf, StreamSet
  <2>4. StreamOf(Posted([s EXCEPT !.pend = @ \ {p}], q, {[type |-> "HELLO"]}), signed)
    BY <2>2, <2>3, PostedOK, HelloFrame
  <2>5. \A d \in Streams : StreamOf(stream[d], signed)
                             /\ StreamOf(Left(stream[d], p, TRUE), signed)
    BY LeftOK DEF StreamsOK
  <2>6. ASSUME NEW d \in Streams PROVE StreamOf(stream'[d], signed)
    BY <2>4, <2>5 DEF Takes
  <2>7. stream' = [d \in Streams |-> stream'[d]]
    BY DEF Takes
  <2>8. QED
    BY <2>6, <2>7 DEF StreamsOK
<1>3. QED
  BY <1>1, <1>2

(* The ends of a stream that somebody holds. *)
LEMMA EndsOK ==
  ASSUME StreamsOK(stream, signed), NEW c \in Streams
  PROVE  LET s == stream[c] IN
         /\ StreamOf(s, signed)
         /\ s.held \cup s.pend # {} => s.from \in Peers /\ s.to \in Peers /\ s.from # s.to
PROOF BY DEF StreamsOK, StreamOf

LEMMA GroupConnectStep ==
  ASSUME GInv, NEW p \in Peers, NEW q \in Peers, p # q, NEW c \in Streams,
         GroupConnect(p, q, c)
  PROVE  GInv' /\ Grows
PROOF
<1> DEFINE s == [NoStream EXCEPT !.from = p, !.to = q, !.held = {p}, !.pend = {p}]
           l == [link[p][q] EXCEPT !.dial = TRUE]
<1>1. /\ stream' = [stream EXCEPT ![c] = s] /\ link' = [link EXCEPT ![p][q] = l]
      /\ up' = up /\ faults' = faults /\ UNCHANGED rosterVars
  BY DEF GroupConnect
<1>2. LinksOK(link, meta) /\ StreamsOK(stream, signed) /\ Rest
  BY DEF GInv
<1>3. LinksOK(link', meta)
  <2>1. link[p][q] \in Link
    BY <1>2, LinkInUse
  <2>2. l \in Link /\ l.auth = link[p][q].auth
    BY <2>1 DEF Link
  <2> HIDE DEF l
  <2>3. QED
    BY <1>1, <1>2, <2>2, OneLink
<1>4. StreamsOK(stream', signed)
  <2>1. NoStream \in StreamSet(signed)
    BY NoStreamOK DEF StreamOf
  <2>2. s \in StreamSet(signed) /\ s.from = p /\ s.to = q
    BY <2>1 DEF StreamSet
  <2>3. StreamOf(s, signed)
    BY <2>2 DEF StreamOf
  <2>4. QED
    BY <1>1, <1>2, <2>3, ExceptOK
<1>5. up' \subseteq Peers /\ faults' \in 0..MaxFaults
  BY <1>1, <1>2 DEF Rest
<1>6. QED
  BY <1>1, <1>3, <1>4, <1>5, RuntimeStep

LEMMA RouterConnectsStep ==
  ASSUME GInv, NEW c \in Streams, RouterConnects(c)
  PROVE  GInv' /\ Grows
PROOF
<1> DEFINE s == stream[c]
           both == {s.from, s.to}
           t == [s EXCEPT !.open = TRUE, !.held = both, !.pend = both]
<1>1. LinksOK(link, meta) /\ StreamsOK(stream, signed) /\ Rest
  BY DEF GInv
<1>2. StreamOf(s, signed) /\ s.from \in Peers /\ s.to \in Peers /\ s.from # s.to
  BY <1>1, EndsOK DEF RouterConnects
<1>3. StreamOf(t, signed)
  <2>1. s \in StreamSet(signed) /\ both \in SUBSET Peers
    BY <1>2 DEF StreamOf
  <2> HIDE DEF both
  <2>2. t \in StreamSet(signed) /\ t.from = s.from /\ t.to = s.to
    BY <2>1 DEF StreamSet
  <2>3. QED
    BY <1>2, <2>2 DEF StreamOf
<1>5. stream' = [stream EXCEPT ![c] = t]
  BY DEF RouterConnects
<1>6. StreamsOK(stream', signed)
  <2> HIDE DEF t
  <2>1. QED
    BY <1>1, <1>3, <1>5, ExceptOK
<1>7. /\ up' \subseteq Peers /\ faults' \in 0..MaxFaults
      /\ LinksOK(link', meta) /\ UNCHANGED rosterVars
  BY <1>1 DEF RouterConnects, Rest
<1>8. QED
  BY <1>6, <1>7, RuntimeStep

LEMMA GroupConnectFailsStep ==
  ASSUME GInv, NEW c \in Streams, GroupConnectFails(c)
  PROVE  GInv' /\ Grows
PROOF
<1> DEFINE s == stream[c]
           p == s.from
           q == s.to
           l == [link[p][q] EXCEPT !.dial = FALSE]
<1>1. LinksOK(link, meta) /\ StreamsOK(stream, signed) /\ Rest
  BY DEF GInv
<1>2. p \in Peers /\ q \in Peers /\ p # q
  BY <1>1, EndsOK DEF GroupConnectFails
<1>3. /\ stream' = [stream EXCEPT ![c] = NoStream] /\ link' = [link EXCEPT ![p][q] = l]
      /\ up' = up /\ UNCHANGED rosterVars
  BY DEF GroupConnectFails
<1>4. LinksOK(link', meta)
  <2>1. link[p][q] \in Link
    BY <1>1, <1>2, LinkInUse
  <2>2. l \in Link /\ l.auth = link[p][q].auth
    BY <2>1 DEF Link
  <2> HIDE DEF l, p, q
  <2>3. QED
    BY <1>1, <1>2, <1>3, <2>2, OneLink
<1>5. StreamsOK(stream', signed)
  BY <1>1, <1>3, NoStreamOK, ExceptOK
<1>6. up' \subseteq Peers /\ faults' \in 0..MaxFaults
  BY <1>1, <1>3, FaultOK DEF Rest, GroupConnectFails
<1>7. QED
  BY <1>3, <1>4, <1>5, <1>6, RuntimeStep

LEMMA GroupConnectFinishedStep ==
  ASSUME GInv, NEW c \in Streams, GroupConnectFinished(c)
  PROVE  GInv' /\ Grows
PROOF
<1> DEFINE s == stream[c]
           p == s.from
           q == s.to
           l == [link[p][q] EXCEPT !.dial = FALSE]
<1>1. LinksOK(link, meta) /\ StreamsOK(stream, signed) /\ Rest
  BY DEF GInv
<1>2. StreamOf(s, signed) /\ p \in Peers /\ q \in Peers /\ p # q
  BY <1>1, EndsOK DEF GroupConnectFinished
<1>3. up' = up /\ faults' = faults /\ UNCHANGED rosterVars
  BY DEF GroupConnectFinished
<1>4. \/ Takes(p, q, c)
      \/ /\ link' = [link EXCEPT ![p][q] = l]
         /\ stream' = [stream EXCEPT ![c] = Left(s, p, TRUE)]
  BY DEF GroupConnectFinished
<1>5. CASE Takes(p, q, c)
  <2>1. LinksOK(link', meta) /\ StreamsOK(stream', signed)
    BY <1>1, <1>2, <1>5, TakesOK
  <2>2. QED
    BY <1>1, <1>3, <2>1, RuntimeStep DEF Rest
<1>6. CASE /\ link' = [link EXCEPT ![p][q] = l]
           /\ stream' = [stream EXCEPT ![c] = Left(s, p, TRUE)]
  <2>1. link[p][q] \in Link
    BY <1>1, <1>2, LinkInUse
  <2>2. l \in Link /\ l.auth = link[p][q].auth
    BY <2>1 DEF Link
  <2>3. LinksOK(link', meta)
    <3> HIDE DEF l, p, q
    <3>1. QED
      BY <1>1, <1>2, <1>6, <2>2, OneLink
  <2>4. StreamsOK(stream', signed)
    BY <1>1, <1>2, <1>6, LeftOK, ExceptOK
  <2>5. QED
    BY <1>1, <1>3, <2>3, <2>4, RuntimeStep DEF Rest
<1>7. QED
  BY <1>4, <1>5, <1>6

LEMMA GroupIncomingAcceptedStep ==
  ASSUME GInv, NEW c \in Streams, GroupIncomingAccepted(c)
  PROVE  GInv' /\ Grows
PROOF
<1> DEFINE s == stream[c]
           p == s.to
           q == s.from
<1>1. LinksOK(link, meta) /\ StreamsOK(stream, signed) /\ Rest
  BY DEF GInv
<1>2. StreamOf(s, signed) /\ p \in Peers /\ q \in Peers /\ p # q
  BY <1>1, EndsOK DEF GroupIncomingAccepted
<1>3. up' = up /\ faults' = faults /\ UNCHANGED rosterVars
  BY DEF GroupIncomingAccepted
<1>4. \/ Takes(p, q, c)
      \/ link' = link /\ stream' = [stream EXCEPT ![c] = Left(s, p, TRUE)]
  BY DEF GroupIncomingAccepted
<1>5. LinksOK(link', meta) /\ StreamsOK(stream', signed)
  <2>1. CASE Takes(p, q, c)
    BY <1>1, <1>2, <2>1, TakesOK
  <2>2. CASE link' = link /\ stream' = [stream EXCEPT ![c] = Left(s, p, TRUE)]
    BY <1>1, <1>2, <2>2, LeftOK, ExceptOK
  <2>3. QED
    BY <1>4, <2>1, <2>2
<1>6. QED
  BY <1>1, <1>3, <1>5, RuntimeStep DEF Rest

-----------------------------------------------------------------------------
(* Ticks and tabs that leave the groups alone *)

(* A frame that is read came over a link to another peer, and its roster   *)
(* is signed.                                                              *)
LEMMA ReadsOK ==
  ASSUME GInv, NEW p \in Peers, NEW q \in Peers, NEW f, Reads(p, q, f)
  PROVE  /\ p # q /\ link[p][q] \in Link /\ link[p][q].conn \in Streams
         /\ f \in FramesOf(signed)
         /\ StreamsOK(Read(p, q, f), signed)
PROOF
<1>1. LinksOK(link, meta) /\ StreamsOK(stream, signed)
  BY DEF GInv
<1>2. p # q /\ link[p][q] \in Link /\ link[p][q].conn \in Streams
  BY <1>1, LinkInUse DEF Reads
<1>3. f \in FramesOf(signed)
  <2>1. StreamOf(stream[link[p][q].conn], signed)
    BY <1>1, <1>2 DEF StreamsOK
  <2>2. <<p, f>> \in Peers \X FramesOf(signed)
    BY <2>1, StreamFields DEF Reads
  <2>3. QED
    BY <2>2
<1>4. QED
  BY <1>1, <1>2, <1>3, ReadOK

LEMMA IntroductionOK ==
  ASSUME GInv, NEW p \in Peers
  PROVE  Introduction(p) \in SUBSET FramesOf(signed)
PROOF
<1>1. meta[p].token \in Tokens \cup {None} /\ (p \in display) \in BOOLEAN
  BY DEF GInv, Rosters, Meta
<1>2. \A b \in BOOLEAN : /\ [type |-> "RENAME", new |-> b] \in FramesOf(signed)
                         /\ \A t \in Tokens :
                              [type |-> "JOIN", token |-> t, new |-> b] \in FramesOf(signed)
  BY DEF FramesOf
<1>3. QED
  BY <1>1, <1>2 DEF Introduction

LEMMA TickHelloStep ==
  ASSUME GInv, NEW p \in Peers, NEW q \in Peers, TickHello(p, q)
  PROVE  GInv' /\ Grows
PROOF
<1> DEFINE f == [type |-> "HELLO"]
           c == link[p][q].conn
           l == [link[p][q] EXCEPT !.ready = TRUE]
           ls == [link[p] EXCEPT ![q] = l]
           st == Read(p, q, f)
<1>1. LinksOK(link, meta) /\ Rosters(meta, issued, signed, display, mixed) /\ Rest
  BY DEF GInv
<1>2. /\ p # q /\ link[p][q] \in Link /\ c \in Streams
      /\ StreamsOK(st, signed)
  BY ReadsOK DEF TickHello
<1>3. up' = up /\ faults' = faults /\ UNCHANGED rosterVars
  BY DEF TickHello
<1>4. LinksOK(link', meta)
  <2>1. l \in Link /\ l.auth = link[p][q].auth
    BY <1>2 DEF Link
  <2>2. link' = [link EXCEPT ![p][q] = l]
    BY <1>1 DEF TickHello, LinksOK
  <2> HIDE DEF l
  <2>3. QED
    BY <1>1, <1>2, <2>1, <2>2, OneLink
<1>5. StreamsOK(stream', signed)
  <2>1. CASE p = Owner
    <3>1. stream' = Synced(st, ls, OwnRoster(meta[p]))
      BY <2>1 DEF TickHello
    <3>2. OwnRoster(meta[p]) \in signed
      BY <1>1, <2>1, OwnRosterSigned
    <3> HIDE DEF st, ls
    <3>3. QED
      BY <1>2, <3>1, <3>2, SyncedOK
  <2>2. CASE p # Owner /\ q = Owner
    <3> DEFINE s == Posted(st[c], q, Introduction(p))
    <3>1. stream' = [st EXCEPT ![c] = s]
      BY <2>2 DEF TickHello
    <3>2. StreamOf(st[c], signed)
      BY <1>2 DEF StreamsOK
    <3>3. StreamOf(s, signed)
      BY <3>2, PostedOK, IntroductionOK
    <3> HIDE DEF s, st, c
    <3>4. QED
      BY <1>2, <3>1, <3>3, ExceptOK
  <2>3. CASE p # Owner /\ q # Owner
    BY <1>2, <2>3 DEF TickHello
  <2>4. QED
    BY <2>1, <2>2, <2>3
<1>6. QED
  BY <1>1, <1>3, <1>4, <1>5, RuntimeStep DEF Rest

(* A connection that ends. *)
LEMMA HangsStep ==
  ASSUME GInv, NEW p \in Peers, NEW q \in Peers, link[p][q].conn # None,
         NEW auth \in BOOLEAN, auth => link[p][q].auth, Hangs(p, q, auth, stream),
         up' = up, UNCHANGED rosterVars, faults' = faults \/ Fault
  PROVE  GInv' /\ Grows
PROOF
<1>1. LinksOK(link, meta) /\ StreamsOK(stream, signed) /\ Rest
  BY DEF GInv
<1>2. LinksOK(link', meta) /\ StreamsOK(stream', signed)
  BY <1>1, HangsOK
<1>3. up' \subseteq Peers /\ faults' \in 0..MaxFaults
  BY <1>1, FaultOK DEF Rest
<1>4. QED
  BY <1>2, <1>3, RuntimeStep

LEMMA EndingSteps ==
  ASSUME GInv, NEW p \in Peers, NEW q \in Peers,
         \/ TickQuit(p, q) \/ TickClosed(p, q)
         \/ HandshakeTimeout(p, q) \/ HeartbeatTimeout(p, q)
  PROVE  GInv' /\ Grows
PROOF
<1> DEFINE l == link[p][q]
<1>1. l.auth \in BOOLEAN
  BY LinkInUse, LinkFields DEF GInv
<1>2. CASE TickQuit(p, q)
  <2>1. /\ l.conn # None /\ Hangs(p, q, l.auth, stream)
        /\ up' = up /\ faults' = faults /\ UNCHANGED rosterVars
    BY <1>2 DEF TickQuit, Reads
  <2>2. QED
    BY <1>1, <2>1, HangsStep
<1>3. CASE TickClosed(p, q)
  <2>1. /\ l.conn # None /\ Hangs(p, q, l.auth, stream)
        /\ up' = up /\ faults' = faults /\ UNCHANGED rosterVars
    BY <1>3 DEF TickClosed
  <2>2. QED
    BY <1>1, <2>1, HangsStep
<1>4. CASE HandshakeTimeout(p, q)
  <2>1. /\ l.conn # None /\ Hangs(p, q, l.auth, stream)
        /\ up' = up /\ (faults' = faults \/ Fault) /\ UNCHANGED rosterVars
    BY <1>4 DEF HandshakeTimeout, Unanswered
  <2>2. QED
    BY <1>1, <2>1, HangsStep
<1>5. CASE HeartbeatTimeout(p, q)
  <2>1. /\ l.conn # None /\ l.auth /\ Hangs(p, q, TRUE, stream)
        /\ up' = up /\ (faults' = faults \/ Fault) /\ UNCHANGED rosterVars
    BY <1>5 DEF HeartbeatTimeout, Unanswered
  <2>2. QED
    BY <2>1, HangsStep
<1>6. QED
  BY <1>2, <1>3, <1>4, <1>5

LEMMA TabClosedStep ==
  ASSUME GInv, NEW p \in Peers, TabClosed(p)
  PROVE  GInv' /\ Grows
PROOF
<1>1. /\ LinksOK(link, meta) /\ StreamsOK(stream, signed) /\ Rest
      /\ p \notin meta[p].members
  BY DEF GInv, Rosters
<1>2. LinksOK(link', meta)
  <2>1. LinksOf(OpenedLinks(meta[p].members), p, meta[p].members)
    BY <1>1, OpenedOK
  <2>2. QED
    BY <1>1, <2>1, LinksKept DEF TabClosed
<1>3. StreamsOK(stream', signed)
  <2>1. ASSUME NEW c \in Streams PROVE StreamOf(stream'[c], signed)
    <3> DEFINE fs == IF p \in stream[c].pend THEN {} ELSE {[type |-> "QUIT"]}
               s == Posted(stream[c], Other(c, p), fs)
    <3>1. fs \in SUBSET FramesOf(signed) /\ StreamOf(stream[c], signed)
      BY <1>1, HelloFrame DEF StreamsOK
    <3>2. StreamOf(s, signed)
      BY <3>1, PostedOK
    <3>3. StreamOf(Left(s, p, TRUE), signed)
      BY <3>2, LeftOK
    <3>4. stream'[c] = IF p \notin stream[c].held THEN stream[c] ELSE Left(s, p, TRUE)
      BY DEF TabClosed
    <3>5. QED
      BY <3>1, <3>3, <3>4
  <2>2. stream' = [c \in Streams |-> stream'[c]]
    BY DEF TabClosed
  <2>3. QED
    BY <2>1, <2>2 DEF StreamsOK
<1>4. up' \subseteq Peers /\ faults' \in 0..MaxFaults /\ UNCHANGED rosterVars
  BY <1>1, FaultOK DEF Rest, TabClosed
<1>5. QED
  BY <1>2, <1>3, <1>4, RuntimeStep

LEMMA OpenGroupStep ==
  ASSUME GInv, NEW p \in Peers, OpenGroup(p)
  PROVE  GInv' /\ Grows
PROOF
<1>1. LinksOK(link, meta) /\ StreamsOK(stream, signed) /\ Rest
  BY DEF GInv
<1>2. /\ link' = link /\ stream' = stream /\ up' = up \cup {p} /\ faults' = faults
      /\ UNCHANGED rosterVars
  BY DEF OpenGroup
<1>3. QED
  BY <1>1, <1>2, RuntimeStep DEF Rest

-----------------------------------------------------------------------------
(* Changes of the group *)

LEMMA StoredGroup ==
  ASSUME GInv, NEW p \in Peers
  PROVE  /\ meta[p] \in Meta /\ p \notin meta[p].members
         /\ meta[p].version \in Nat
         /\ meta[p].members \subseteq Peers /\ meta[p].renamed \subseteq Peers
         /\ meta[p].token \in Tokens \cup {None}
PROOF BY DEF GInv, Rosters, Meta

LEMMA SameMeta ==
  ASSUME GInv, meta' = meta
  PROVE  Grows
PROOF BY StoredGroup DEF Grows

(* Only the invitations change. *)
LEMMA SameGroups ==
  ASSUME GInv, meta' = meta, signed' = signed, display' = display, mixed' = mixed,
         Issues(issued', signed)
  PROVE  Rosters(meta', issued', signed', display', mixed') /\ Grows
PROOF BY SameMeta DEF GInv, Rosters

LEMMA BumpedOK ==
  ASSUME NEW n \in Meta
  PROVE  /\ Bumped(n) \in Meta /\ Bumped(n).version = n.version + 1
         /\ Bumped(n).members = n.members /\ Bumped(n).renamed = n.renamed
PROOF BY DEF Bumped, Meta

LEMMA IssuesNow ==
  ASSUME GInv
  PROVE  Issues(issued, signed) /\ signed \subseteq Roster
PROOF BY DEF GInv, Rosters

(* One invitation is replaced. *)
LEMMA IssuesSet ==
  ASSUME GInv, NEW t \in Tokens, NEW i \in Issued,
         i.state # "none", i.invite \in signed
  PROVE  Issues([issued EXCEPT ![t] = i], signed)
PROOF BY IssuesNow DEF Issues

LEMMA ExpireStep ==
  ASSUME GInv, NEW t \in Tokens, Expire(t)
  PROVE  GInv' /\ Grows
PROOF
<1>1. Rosters(meta', issued', signed', display', mixed') /\ Grows
  BY IssuesNow, SameGroups DEF Expire
<1>2. LinksOK(link', meta') /\ StreamsOK(stream', signed')
  BY DEF GInv, Expire
<1>3. Rest'
  BY FaultOK DEF GInv, Rest, Expire
<1>4. QED
  BY <1>1, <1>2, <1>3 DEF GInv

(* The links of a peer after its roster was gone through. *)
LEMMA RefreshedOK ==
  ASSUME GInv, NEW p \in Peers, NEW ls, ls = Updated(link[p], meta[p].members)
  PROVE  LinksOK([link EXCEPT ![p] = ls], meta) /\ StreamsOK(Dropped(stream, p, ls), signed)
PROOF
<1>1. LinksOK(link, meta) /\ StreamsOK(stream, signed) /\ link[p] \in [Peers -> Link]
  BY LinkInUse DEF GInv
<1>2. LinksOf(ls, p, meta[p].members)
  BY <1>1, UpdatedOK, StoredGroup
<1>3. QED
  BY <1>1, <1>2, LinksKept, DroppedOK

LEMMA GenerateInviteStep ==
  ASSUME GInv, NEW t \in Tokens, GenerateInvite(t)
  PROVE  GInv' /\ Grows
PROOF
<1> DEFINE i == [state |-> "open", by |-> None, invite |-> OwnRoster(meta[Owner])]
           ls == Updated(link[Owner], meta[Owner].members)
<1>1. i.invite \in signed /\ i.invite \in Roster
  BY OwnRosterSigned, IssuesNow DEF GInv
<1>2. i \in Issued /\ i.state # "none"
  BY <1>1 DEF Issued
<1>3. issued' = [issued EXCEPT ![t] = i]
  BY DEF GenerateInvite
<1>4. Issues(issued', signed)
  <2> HIDE DEF i
  <2>1. QED
    BY <1>1, <1>2, <1>3, IssuesSet
<1>5. Rosters(meta', issued', signed', display', mixed') /\ Grows
  BY <1>4, SameGroups DEF GenerateInvite
<1>6. LinksOK(link', meta') /\ StreamsOK(stream', signed')
  <2>1. /\ link' = [link EXCEPT ![Owner] = ls] /\ stream' = Dropped(stream, Owner, ls)
        /\ meta' = meta /\ signed' = signed
    BY DEF GenerateInvite
  <2> HIDE DEF ls
  <2>2. QED
    BY <2>1, RefreshedOK, PeerFacts DEF ls
<1>7. Rest'
  BY DEF GInv, Rest, GenerateInvite
<1>8. QED
  BY <1>5, <1>6, <1>7 DEF GInv

LEMMA RevokePrivateStep ==
  ASSUME GInv, NEW t \in Tokens, RevokePrivate(t)
  PROVE  GInv' /\ Grows
PROOF
<1> DEFINE i == [issued[t] EXCEPT !.state = "gone"]
           ls == Updated(link[Owner], meta[Owner].members)
<1>1. issued[t] \in Issued /\ issued[t].invite \in signed
  BY IssuesNow DEF Issues, RevokePrivate
<1>2. i \in Issued /\ i.state # "none" /\ i.invite = issued[t].invite
  BY <1>1 DEF Issued
<1>3. issued' = [issued EXCEPT ![t] = i]
  BY IssuesNow DEF RevokePrivate, Issues
<1>4. Issues(issued', signed)
  <2> HIDE DEF i
  <2>1. QED
    BY <1>1, <1>2, <1>3, IssuesSet
<1>5. Rosters(meta', issued', signed', display', mixed') /\ Grows
  BY <1>4, SameGroups DEF RevokePrivate
<1>6. LinksOK(link', meta') /\ StreamsOK(stream', signed')
  <2>1. /\ link' = [link EXCEPT ![Owner] = ls] /\ stream' = Dropped(stream, Owner, ls)
        /\ meta' = meta /\ signed' = signed
    BY DEF RevokePrivate
  <2> HIDE DEF ls
  <2>2. QED
    BY <2>1, RefreshedOK, PeerFacts DEF ls
<1>7. Rest'
  BY EditOK DEF GInv, Rest, RevokePrivate
<1>8. QED
  BY <1>5, <1>6, <1>7 DEF GInv

LEMMA AddMemberStep ==
  ASSUME GInv, NEW q \in Others, AddMember(q)
  PROVE  GInv' /\ Grows
PROOF
<1> DEFINE m == meta[Owner]
           n == [m EXCEPT !.members = @ \cup {q}]
<1>1. m \in Meta /\ m.version \in Nat /\ Owner \notin m.members
        /\ q \in Peers /\ q # Owner
  BY StoredGroup, PeerFacts
<1>2. n \in Meta /\ n.version = m.version /\ n.members = m.members \cup {q}
  BY <1>1 DEF Meta
<1>3. /\ Bumped(n) \in Meta /\ Owner \notin Bumped(n).members
      /\ m.version < Bumped(n).version
  <2> HIDE DEF n
  <2>1. QED
    BY <1>1, <1>2, BumpedOK
<1>4. LinksOK(link, meta) /\ link[Owner] \in [Peers -> Link] /\ StreamsOK(stream, signed)
  BY LinkInUse, PeerFacts DEF GInv
<1>5. /\ Publishes(Bumped(n), link[Owner], stream) /\ issued' = issued
      /\ display' = display /\ mixed' = mixed
  BY DEF AddMember
<1>6. /\ Rosters(meta', issued', signed', display', mixed')
      /\ LinksOK(link', meta') /\ StreamsOK(stream', signed') /\ Grows
  <2> HIDE DEF n
  <2>1. QED
    BY <1>3, <1>4, <1>5, IssuesNow, PublishesOK
<1>7. Rest'
  BY EditOK DEF GInv, Rest, AddMember
<1>8. QED
  BY <1>6, <1>7 DEF GInv

LEMMA DeleteMemberStep ==
  ASSUME GInv, NEW q \in Others, DeleteMember(q)
  PROVE  GInv' /\ Grows
PROOF
<1> DEFINE m == meta[Owner]
           n == [m EXCEPT !.members = @ \ {q}, !.renamed = @ \ {q}]
<1>1. m \in Meta /\ m.version \in Nat /\ Owner \notin m.members
  BY StoredGroup, PeerFacts
<1>2. n \in Meta /\ n.version = m.version /\ n.members = m.members \ {q}
  BY <1>1 DEF Meta
<1>3. /\ Bumped(n) \in Meta /\ Owner \notin Bumped(n).members
      /\ m.version < Bumped(n).version
  <2> HIDE DEF n
  <2>1. QED
    BY <1>1, <1>2, BumpedOK
<1>4. LinksOK(link, meta) /\ link[Owner] \in [Peers -> Link] /\ StreamsOK(stream, signed)
  BY LinkInUse, PeerFacts DEF GInv
<1>5. /\ Publishes(Bumped(n), link[Owner], stream)
      /\ display' = display /\ mixed' = mixed
  BY DEF DeleteMember
<1>6. Issues(issued', signed)
  <2>1. ASSUME NEW t \in Tokens
        PROVE  /\ issued'[t] \in Issued
               /\ IF issued'[t].state = "none" THEN issued'[t].by = None
                  ELSE issued'[t].invite \in signed
    <3>1. /\ issued[t] \in Issued
          /\ IF issued[t].state = "none" THEN issued[t].by = None
             ELSE issued[t].invite \in signed
      BY IssuesNow DEF Issues
    <3> DEFINE i == [issued[t] EXCEPT !.state = "gone", !.by = None]
    <3>2. i \in Issued /\ i.state = "gone" /\ i.invite = issued[t].invite
      BY <3>1 DEF Issued
    <3>3. issued'[t] = IF issued[t].by = q THEN i ELSE issued[t]
      BY DEF DeleteMember
    <3>4. issued[t].by = q => issued[t].state # "none"
      BY <3>1, PeerFacts
    <3> HIDE DEF i
    <3>5. QED
      BY <3>1, <3>2, <3>3, <3>4
  <2>2. issued' = [t \in Tokens |-> issued'[t]]
    BY DEF DeleteMember
  <2>3. QED
    BY <2>1, <2>2 DEF Issues
<1>7. /\ Rosters(meta', issued', signed', display', mixed')
      /\ LinksOK(link', meta') /\ StreamsOK(stream', signed') /\ Grows
  <2> HIDE DEF n
  <2>1. QED
    BY <1>3, <1>4, <1>5, <1>6, PublishesOK
<1>8. Rest'
  BY EditOK DEF GInv, Rest, DeleteMember
<1>9. QED
  BY <1>7, <1>8 DEF GInv

-----------------------------------------------------------------------------
(* What peers tell the owner *)

LEMMA NamedOK ==
  ASSUME NEW m \in Meta, NEW q \in Peers, NEW new \in BOOLEAN
  PROVE  /\ Named(m, q, new) \in Meta /\ Named(m, q, new).version = m.version
         /\ Named(m, q, new).members = m.members \cup {q}
PROOF
<1>1. CASE new
  BY <1>1 DEF Named, Meta
<1>2. CASE ~new
  BY <1>2 DEF Named, Meta
<1>3. QED
  BY <1>1, <1>2

(* The owner's group with q in it, or with q under another name.           *)
LEMMA NamedGroup ==
  ASSUME GInv, NEW q \in Others, NEW new \in BOOLEAN
  PROVE  LET n == Bumped(Named(meta[Owner], q, new)) IN
         n \in Meta /\ Owner \notin n.members /\ meta[Owner].version < n.version
PROOF
<1>1. /\ meta[Owner] \in Meta /\ meta[Owner].version \in Nat
      /\ Owner \notin meta[Owner].members /\ q \in Peers /\ q # Owner
  BY StoredGroup, PeerFacts
<1>2. QED
  BY <1>1, NamedOK, BumpedOK

LEMMA JoinFrame ==
  ASSUME NEW R, NEW f \in FramesOf(R)
  PROVE  /\ f.type \in {"JOIN", "RENAME"} => f.new \in BOOLEAN
         /\ f.type = "JOIN" => f.token \in Tokens
         /\ f.type = "ROSTER" => f.roster \in R
PROOF BY DEF FramesOf

LEMMA TickJoinStep ==
  ASSUME GInv, NEW q \in Peers, NEW t \in Tokens, NEW new \in BOOLEAN,
         TickJoin(q, t, new)
  PROVE  GInv' /\ Grows
PROOF
<1> DEFINE f == [type |-> "JOIN", token |-> t, new |-> new]
           m == meta[Owner]
           n == Bumped(Named(m, q, new))
           ls == [link[Owner] EXCEPT ![q].auth = TRUE]
           st == Read(Owner, q, f)
           redeems == link[Owner][q].ready /\ ~Completed(t, q) /\ Redeemable(t, q)
<1>1. LinksOK(link, meta) /\ Rest
  BY DEF GInv
<1>2. /\ q \in Others /\ link[Owner][q] \in Link /\ link[Owner][q].conn # None
      /\ StreamsOK(st, signed)
  BY ReadsOK, PeerFacts DEF TickJoin
<1>3. /\ up' = up /\ imported' = imported /\ expired' = expired /\ display' = display
      /\ edits' = edits /\ faults' = faults /\ mixed' = mixed
  BY DEF TickJoin
<1>4. CASE redeems
  <2> DEFINE a == IF t \in Private THEN "gone" ELSE "redeemed"
             b == IF t \in Private THEN None ELSE q
             i == [issued[t] EXCEPT !.state = a, !.by = b]
             k == IF Named(m, q, new) # m \/ issued[t].state = "open" THEN n ELSE m
  <2>1. /\ Publishes(k, ls, st)
        /\ issued' = [issued EXCEPT ![t].state = a, ![t].by = b]
        /\ admissions' = IF q \in m.members THEN admissions
                         ELSE [admissions EXCEPT ![t] = @ + 1]
    BY <1>4 DEF TickJoin
  <2>2. Issues(issued', signed)
    <3>1. /\ issued[t] \in Issued /\ issued \in [Tokens -> Issued]
          /\ IF issued[t].state = "none" THEN issued[t].by = None
             ELSE issued[t].invite \in signed
      BY IssuesNow DEF Issues
    <3>2. issued[t].state # "none"
      BY <1>2, <1>4, <3>1, PeerFacts DEF Redeemable
    <3>3. a \in {"gone", "redeemed"} /\ b \in Others \cup {None}
      BY <1>2
    <3> HIDE DEF a, b
    <3>4. i \in Issued /\ i.state = a /\ i.invite = issued[t].invite
      BY <3>1, <3>3 DEF Issued
    <3>5. issued' = [issued EXCEPT ![t] = i]
      BY <2>1, <3>1
    <3> HIDE DEF i
    <3>6. QED
      BY <3>1, <3>2, <3>3, <3>4, <3>5, IssuesSet
  <2>3. /\ n \in Meta /\ Owner \notin n.members /\ m.version < n.version
        /\ m \in Meta /\ Owner \notin m.members
    BY <1>2, NamedGroup, StoredGroup, PeerFacts
  <2>4. k \in Meta /\ Owner \notin k.members /\ (m.version < k.version \/ m = k)
    BY <2>3
  <2>5. ls \in [Peers -> Link]
    <3>1. link[Owner] \in [Peers -> Link]
      BY <1>1, LinkInUse, PeerFacts
    <3>2. [link[Owner][q] EXCEPT !.auth = TRUE] \in Link
      BY <1>2 DEF Link
    <3>3. QED
      BY <3>1, <3>2
  <2>6. /\ Rosters(meta', issued', signed', display', mixed')
        /\ LinksOK(link', meta') /\ StreamsOK(stream', signed') /\ Grows
    <3> HIDE DEF k, ls, st
    <3>1. QED
      BY <1>2, <1>3, <2>1, <2>2, <2>4, <2>5, PublishesOK
  <2>7. Rest'
    BY <1>1, <1>3, <2>1 DEF Rest
  <2>8. QED
    BY <2>6, <2>7 DEF GInv
<1>5. CASE ~redeems
  <2>1. /\ \/ Hangs(Owner, q, FALSE, st)
           \/ stream' = st /\ link' = link
        /\ meta' = meta /\ signed' = signed /\ issued' = issued /\ admissions' = admissions
    BY <1>5 DEF TickJoin
  <2>2. LinksOK(link', meta) /\ StreamsOK(stream', signed)
    <3>1. CASE Hangs(Owner, q, FALSE, st)
      <4> HIDE DEF st
      <4>1. QED
        BY <1>1, <1>2, <3>1, HangsOK, PeerFacts
    <3>2. CASE stream' = st /\ link' = link
      BY <1>1, <1>2, <3>2
    <3>3. QED
      BY <2>1, <3>1, <3>2
  <2>3. UNCHANGED rosterVars
    BY <1>3, <2>1 DEF rosterVars
  <2>4. QED
    BY <1>1, <1>3, <2>2, <2>3, RuntimeStep DEF Rest
<1>6. QED
  BY <1>4, <1>5

LEMMA TickRenameStep ==
  ASSUME GInv, NEW q \in Peers, NEW new \in BOOLEAN, TickRename(q, new)
  PROVE  GInv' /\ Grows
PROOF
<1> DEFINE f == [type |-> "RENAME", new |-> new]
           m == meta[Owner]
           n == Bumped(Named(m, q, new))
           st == Read(Owner, q, f)
<1>1. LinksOK(link, meta) /\ Rest /\ link[Owner] \in [Peers -> Link]
  BY LinkInUse, PeerFacts DEF GInv
<1>2. q \in Others /\ StreamsOK(st, signed)
  BY ReadsOK, PeerFacts DEF TickRename
<1>3. /\ up' = up /\ issued' = issued /\ imported' = imported /\ expired' = expired
      /\ display' = display /\ edits' = edits /\ faults' = faults /\ mixed' = mixed
      /\ admissions' = admissions
  BY DEF TickRename
<1>4. \/ Publishes(n, link[Owner], st)
      \/ stream' = st /\ link' = link /\ meta' = meta /\ signed' = signed
  BY DEF TickRename
<1>5. CASE Publishes(n, link[Owner], st)
  <2>1. n \in Meta /\ Owner \notin n.members /\ m.version < n.version
    BY <1>2, NamedGroup
  <2>2. /\ Rosters(meta', issued', signed', display', mixed')
        /\ LinksOK(link', meta') /\ StreamsOK(stream', signed') /\ Grows
    <3> HIDE DEF n, st
    <3>1. QED
      BY <1>1, <1>2, <1>3, <1>5, <2>1, IssuesNow, PublishesOK
  <2>3. QED
    BY <1>1, <1>3, <2>2 DEF GInv, Rest
<1>6. CASE stream' = st /\ link' = link /\ meta' = meta /\ signed' = signed
  <2>1. UNCHANGED rosterVars
    BY <1>3, <1>6 DEF rosterVars
  <2>2. LinksOK(link', meta) /\ StreamsOK(stream', signed)
    BY <1>1, <1>2, <1>6
  <2>3. QED
    BY <1>1, <1>3, <2>1, <2>2, RuntimeStep DEF Rest
<1>7. QED
  BY <1>4, <1>5, <1>6

-----------------------------------------------------------------------------
(* What peers store *)

(* A peer that is not the owner stores another group. *)
LEMMA StoresOK ==
  ASSUME GInv, NEW p \in Others, NEW m \in Meta, p \notin m.members,
         m.version >= meta[p].version,
         meta' = [meta EXCEPT ![p] = m],
         issued' = issued, signed' = signed, display' = display,
         p \notin mixed' => TakenFrom(m, p, signed), mixed \ {p} \subseteq mixed'
  PROVE  Rosters(meta', issued', signed', display', mixed') /\ Grows
PROOF
<1>1. /\ Rosters(meta, issued, signed, display, mixed) /\ meta \in [Peers -> Meta]
      /\ p \in Peers /\ p # Owner
  BY PeerFacts DEF GInv, Rosters
<1>2. /\ meta' \in [Peers -> Meta] /\ meta'[p] = m
      /\ \A o \in Peers : o # p => meta'[o] = meta[o]
  BY <1>1
<1>3. \A o \in Peers : o \notin meta'[o].members
  BY <1>1, <1>2 DEF Rosters
<1>4. \A o \in Others \ mixed' : TakenFrom(meta'[o], o, signed')
  <2>1. ASSUME NEW o \in Others \ mixed', o # p PROVE TakenFrom(meta'[o], o, signed')
    <3>1. o \in Others \ mixed /\ meta'[o] = meta[o]
      BY <1>2, <2>1, PeerFacts
    <3>2. TakenFrom(meta[o], o, signed)
      BY <1>1, <3>1 DEF Rosters
    <3>3. QED
      BY <3>1, <3>2
  <2>2. QED
    BY <1>2, <2>1
<1>5. Signs(signed', meta'[Owner], display')
  BY <1>1, <1>2, PeerFacts DEF Rosters
<1>6. Grows
  BY <1>1, <1>2, StoredGroup DEF Grows
<1>7. QED
  BY <1>1, <1>2, <1>3, <1>4, <1>5, <1>6 DEF Rosters

LEMMA SignedRoster ==
  ASSUME GInv, NEW r \in signed
  PROVE  /\ r.version \in Nat /\ r.version >= 1 /\ r.version <= meta[Owner].version
         /\ r.members \subseteq Peers /\ r.renamed \subseteq Peers
PROOF
<1>1. r \in Roster /\ r.version \in 1..meta[Owner].version /\ meta[Owner].version \in Nat
  BY StoredGroup, PeerFacts DEF GInv, Rosters, Signs
<1>2. QED
  BY <1>1 DEF Roster

LEMMA MergedRosterOK ==
  ASSUME GInv, NEW p \in Others, NEW r \in signed, r.version > meta[p].version
  PROVE  LET m == MergedRoster(meta[p], p, r) IN
         /\ m \in Meta /\ p \notin m.members /\ m.version = r.version
         /\ TakenFrom(m, p, signed)
PROOF
<1> DEFINE old == meta[p]
           m == MergedRoster(old, p, r)
<1>1. /\ old.version \in Nat /\ old.token \in Tokens \cup {None}
      /\ r.version \in Nat /\ r.members \subseteq Peers /\ r.renamed \subseteq Peers
      /\ ~(r.version <= old.version)
  BY StoredGroup, SignedRoster, PeerFacts
<1>2. CASE p \notin r.members
  <2>1. m = [NoGroup EXCEPT !.version = r.version]
    BY <1>1, <1>2 DEF MergedRoster
  <2>2. m = [version |-> r.version, members |-> {}, renamed |-> {}, token |-> None]
    BY <2>1 DEF NoGroup
  <2>3. QED
    BY <1>1, <2>2 DEF Meta, TakenFrom
<1>3. CASE p \in r.members
  <2> DEFINE tok == IF old.token \in Private THEN None ELSE old.token
  <2>1. m = [version |-> r.version, members |-> r.members \ {p},
             renamed |-> r.renamed \ {p}, token |-> tok]
    BY <1>1, <1>3 DEF MergedRoster
  <2>2. tok \in Tokens \cup {None}
    BY <1>1
  <2> HIDE DEF tok
  <2>3. QED
    BY <1>1, <2>1, <2>2 DEF Meta, TakenFrom
<1>4. QED
  BY <1>2, <1>3

LEMMA TickRosterStep ==
  ASSUME GInv, NEW p \in Peers, NEW q \in Peers, NEW r, TickRoster(p, q, r)
  PROVE  GInv' /\ Grows
PROOF
<1> DEFINE f == [type |-> "ROSTER", roster |-> r]
           old == meta[p]
           takes == link[p][q].ready /\ link[p][q].auth
           m == IF takes THEN MergedRoster(old, p, r) ELSE old
           ls == IF takes THEN Updated(link[p], m.members) ELSE link[p]
           st == Read(p, q, f)
<1>1. /\ meta' = [meta EXCEPT ![p] = m]
      /\ mixed' = IF m.version > old.version THEN mixed \ {p} ELSE mixed
      /\ link' = [link EXCEPT ![p] = ls]
      /\ stream' = Dropped(st, p, ls)
      /\ up' = up /\ issued' = issued /\ imported' = imported /\ expired' = expired
      /\ display' = display /\ edits' = edits /\ faults' = faults /\ signed' = signed
      /\ admissions' = admissions
  BY DEF TickRoster
<1>2. /\ LinksOK(link, meta) /\ Rest /\ meta \in [Peers -> Meta]
      /\ Rosters(meta, issued, signed, display, mixed)
      /\ link[p] \in [Peers -> Link] /\ LinksOf(link[p], p, old.members)
  BY LinkInUse DEF GInv, LinksOK, Rosters
<1>3. StreamsOK(st, signed) /\ r \in signed
  BY ReadsOK, JoinFrame, RosterFrame DEF TickRoster
<1>4. old \in Meta /\ old.version \in Nat /\ p \notin old.members
  BY StoredGroup
<1>5. /\ m \in Meta /\ p \notin m.members /\ m.version >= old.version
      /\ \/ m = old
         \/ p \in Others /\ m.version > old.version /\ TakenFrom(m, p, signed)
  <2>1. CASE takes /\ r.version > old.version
    <3>1. p \in Others
      BY <2>1, <1>3, <1>4, SignedRoster, PeerFacts
    <3>2. m = MergedRoster(old, p, r)
      BY <2>1
    <3>3. /\ m \in Meta /\ p \notin m.members /\ m.version = r.version
          /\ TakenFrom(m, p, signed)
      BY <1>3, <2>1, <3>1, <3>2, MergedRosterOK
    <3> HIDE DEF m
    <3>4. QED
      BY <1>3, <1>4, <2>1, <3>1, <3>3, SignedRoster
  <2>2. CASE ~(takes /\ r.version > old.version)
    <3>1. r.version \in Nat
      BY <1>3, SignedRoster
    <3>2. m = old
      BY <1>4, <2>2, <3>1 DEF MergedRoster
    <3>3. QED
      BY <1>4, <3>2
  <2>3. QED
    BY <2>1, <2>2
<1>6. LinksOK(link', meta') /\ StreamsOK(stream', signed')
  <2>1. LinksOf(ls, p, m.members)
    <3>1. CASE takes
      BY <1>2, <1>5, <3>1, UpdatedOK
    <3>2. CASE ~takes
      BY <1>2, <3>2
    <3>3. QED
      BY <3>1, <3>2
  <2> HIDE DEF m, ls, st
  <2>2. LinksOK(link', meta')
    BY <1>1, <1>2, <2>1, LinksSet
  <2>3. QED
    BY <1>1, <1>3, <2>2, DroppedOK
<1>7. Rosters(meta', issued', signed', display', mixed') /\ Grows
  <2> HIDE DEF m, ls, st
  <2>1. CASE m = old
    <3>1. meta' = meta /\ mixed' = mixed
      BY <1>1, <1>2, <1>4, <2>1
    <3>2. QED
      BY <1>1, <1>2, <3>1, SameMeta
  <2>2. CASE p \in Others /\ m.version > old.version /\ TakenFrom(m, p, signed)
    <3>1. mixed' = mixed \ {p}
      BY <1>1, <2>2
    <3>2. QED
      BY <1>1, <1>5, <2>2, <3>1, StoresOK
  <2>3. QED
    BY <1>5, <2>1, <2>2
<1>8. Rest'
  BY <1>1, <1>2 DEF Rest
<1>9. QED
  BY <1>6, <1>7, <1>8 DEF GInv

LEMMA ImportInviteStep ==
  ASSUME GInv, NEW q \in Others, NEW t \in Tokens, ImportInvite(q, t)
  PROVE  GInv' /\ Grows
PROOF
<1> DEFINE old == meta[q]
           i == issued[t].invite
           m == MergedInvite(old, q, t)
           ls == IF q \in up THEN Updated(link[q], m.members) ELSE OpenedLinks(m.members)
<1>1. /\ meta' = [meta EXCEPT ![q] = m]
      /\ imported' = imported \cup ({t} \cap Private)
      /\ mixed' = IF old.version >= i.version /\ old # NoGroup
                  THEN mixed \cup {q} ELSE mixed
      /\ link' = [link EXCEPT ![q] = ls]
      /\ stream' = Dropped(stream, q, ls)
      /\ up' = up /\ issued' = issued /\ expired' = expired /\ display' = display
      /\ edits' = edits /\ faults' = faults /\ signed' = signed
      /\ admissions' = admissions
  BY DEF ImportInvite
<1>2. /\ LinksOK(link, meta) /\ StreamsOK(stream, signed) /\ Rest
      /\ meta \in [Peers -> Meta] /\ q \in Peers /\ link[q] \in [Peers -> Link]
  BY LinkInUse, PeerFacts DEF GInv, Rosters
<1>3. /\ old.version \in Nat /\ q \notin old.members
      /\ old.members \subseteq Peers /\ old.renamed \subseteq Peers
  BY <1>2, StoredGroup
<1>4. i \in signed
  BY IssuesNow DEF ImportInvite, Issues
<1>5. /\ i.version \in Nat /\ i.version >= 1
      /\ i.members \subseteq Peers /\ i.renamed \subseteq Peers
  BY <1>4, SignedRoster
<1>6. /\ m \in Meta /\ q \notin m.members /\ m.version >= old.version
      /\ q \notin mixed' => TakenFrom(m, q, signed)
  <2>1. CASE i.version > old.version
    <3>1. m = [version |-> i.version, members |-> i.members \ {q},
               renamed |-> i.renamed \ {q}, token |-> t]
      BY <2>1 DEF MergedInvite
    <3> HIDE DEF m
    <3>2. m \in Meta
      BY <1>5, <3>1 DEF Meta
    <3>3. TakenFrom(m, q, signed)
      BY <1>4, <3>1 DEF TakenFrom
    <3>4. QED
      BY <1>3, <1>5, <2>1, <3>1, <3>2, <3>3
  <2>2. CASE ~(i.version > old.version)
    <3>1. m = [version |-> old.version, members |-> old.members \cup (i.members \ {q}),
               renamed |-> (i.renamed \ {q}) \cup (old.renamed \ i.members),
               token |-> t]
      BY <2>2 DEF MergedInvite
    <3>2. old # NoGroup
      BY <1>3, <1>5, <2>2 DEF NoGroup
    <3>3. q \in mixed'
      BY <1>1, <1>3, <1>5, <2>2, <3>2
    <3> HIDE DEF m
    <3>4. m \in Meta
      BY <1>3, <1>5, <3>1 DEF Meta
    <3>5. QED
      BY <1>3, <3>1, <3>3, <3>4
  <2>3. QED
    BY <2>1, <2>2
<1>7. LinksOK(link', meta') /\ StreamsOK(stream', signed')
  <2>1. LinksOf(ls, q, m.members)
    <3>1. CASE q \in up
      BY <1>2, <1>6, <3>1, UpdatedOK
    <3>2. CASE q \notin up
      BY <1>2, <1>6, <3>2, OpenedOK
    <3>3. QED
      BY <3>1, <3>2
  <2> HIDE DEF m, ls
  <2>2. LinksOK(link', meta')
    BY <1>1, <1>2, <2>1, LinksSet
  <2>3. QED
    BY <1>1, <1>2, <2>2, DroppedOK
<1>8. Rosters(meta', issued', signed', display', mixed') /\ Grows
  <2>1. mixed \ {q} \subseteq mixed'
    BY <1>1
  <2> HIDE DEF m, ls
  <2>2. QED
    BY <1>1, <1>6, <2>1, StoresOK
<1>9. Rest'
  <2>1. mixed' \subseteq Others
    BY <1>1, <1>2 DEF Rest
  <2>2. QED
    BY <1>1, <1>2, <2>1 DEF Rest
<1>10. QED
  BY <1>7, <1>8, <1>9 DEF GInv

LEMMA SaveDisplayNameStep ==
  ASSUME GInv, NEW p \in Peers, SaveDisplayName(p)
  PROVE  GInv' /\ Grows
PROOF
<1> DEFINE m == meta[p]
           ls == IF p \in up THEN Updated(link[p], m.members) ELSE link[p]
<1>1. /\ LinksOK(link, meta) /\ StreamsOK(stream, signed) /\ Rest
      /\ meta \in [Peers -> Meta] /\ m \in Meta /\ m.version \in Nat
      /\ p \notin m.members
      /\ link[p] \in [Peers -> Link] /\ LinksOf(link[p], p, m.members)
      /\ Rosters(meta, issued, signed, display, mixed) /\ display \subseteq Peers
  BY StoredGroup, LinkInUse DEF GInv, LinksOK, Rosters, Rest
<1>2. /\ display' = display \cup {p} /\ link' = [link EXCEPT ![p] = ls]
      /\ up' = up /\ issued' = issued /\ imported' = imported /\ expired' = expired
      /\ faults' = faults /\ mixed' = mixed /\ admissions' = admissions /\ Edit
  BY DEF SaveDisplayName
<1>3. LinksOf(ls, p, m.members)
  <2>1. CASE p \in up
    BY <1>1, <2>1, UpdatedOK
  <2>2. CASE p \notin up
    BY <1>1, <2>2
  <2>3. QED
    BY <2>1, <2>2
<1>4. Rest'
  BY <1>1, <1>2, EditOK DEF Rest
<1>5. CASE p = Owner
  <2> DEFINE n == Bumped(m)
             r == [OwnRoster(n) EXCEPT !.renamed = @ \cup {Owner}]
  <2>1. /\ meta' = [meta EXCEPT ![p] = n] /\ signed' = signed \cup {r}
        /\ stream' = Synced(Dropped(stream, p, ls), ls, r)
    BY <1>5 DEF SaveDisplayName
  <2>2. /\ n \in Meta /\ m.version < n.version /\ n.members = m.members
        /\ Owner \notin n.members
    BY <1>1, <1>5, BumpedOK
  <2>3. r = [version |-> n.version, members |-> n.members \cup {Owner},
             renamed |-> n.renamed \cup (display' \cap {Owner})]
    <3>1. r = [version |-> n.version, members |-> n.members \cup {Owner},
               renamed |-> (n.renamed \cup (display \cap {Owner})) \cup {Owner}]
      <4> HIDE DEF n
      <4>1. OwnRoster(n) = [version |-> n.version, members |-> n.members \cup {Owner},
                            renamed |-> n.renamed \cup (display \cap {Owner})]
        BY DEF OwnRoster
      <4>2. QED
        BY <4>1
    <3>2. (n.renamed \cup (display \cap {Owner})) \cup {Owner}
            = n.renamed \cup (display' \cap {Owner})
      BY <1>2, <1>5
    <3>3. QED
      BY <3>1, <3>2
  <2> HIDE DEF n, r, ls
  <2>4. Rosters(meta', issued', signed', display', mixed') /\ Grows
    <3>1. display' \subseteq Peers /\ Issues(issued', signed)
      BY <1>1, <1>2, IssuesNow
    <3>2. QED
      BY <1>1, <1>2, <1>5, <2>1, <2>2, <2>3, <3>1, SigningOK
  <2>5. LinksOK(link', meta')
    BY <1>1, <1>2, <1>3, <2>1, <2>2, LinksSet
  <2>6. StreamsOK(stream', signed')
    <3>1. StreamsOK(stream, signed') /\ r \in signed'
      BY <1>1, <2>1, MoreRosters
    <3>2. QED
      BY <2>1, <3>1, DroppedOK, SyncedOK
  <2>7. QED
    BY <1>4, <2>4, <2>5, <2>6 DEF GInv
<1>6. CASE p # Owner
  <2> DEFINE l == ls[Owner]
             st == Dropped(stream, p, ls)
             fs == {[type |-> "RENAME", new |-> TRUE]}
  <2>1. /\ meta' = meta /\ signed' = signed
        /\ stream' = [c \in Streams |->
                        IF c = l.conn /\ l.ready /\ l.auth
                        THEN Posted(st[c], Owner, fs) ELSE st[c]]
    BY <1>6 DEF SaveDisplayName
  <2>2. Rosters(meta', issued', signed', display', mixed')
    <3>1. display' \cap {Owner} = display \cap {Owner}
      BY <1>2, <1>6
    <3>2. Signs(signed, meta[Owner], display') = Signs(signed, meta[Owner], display)
      BY <3>1 DEF Signs
    <3>3. QED
      BY <1>1, <1>2, <2>1, <3>2 DEF Rosters
  <2>3. LinksOK(link', meta')
    BY <1>1, <1>2, <1>3, <2>1, LinksKept
  <2>4. StreamsOK(stream', signed')
    <3>1. StreamsOK(st, signed)
      BY <1>1, DroppedOK
    <3>2. fs \in SUBSET FramesOf(signed)
      BY DEF FramesOf
    <3>3. ASSUME NEW c \in Streams PROVE StreamOf(stream'[c], signed)
      <4>1. StreamOf(st[c], signed)
        BY <3>1 DEF StreamsOK
      <4>2. StreamOf(Posted(st[c], Owner, fs), signed)
        BY <3>2, <4>1, PostedOK
      <4> HIDE DEF st, fs, l
      <4>3. QED
        BY <2>1, <4>1, <4>2
    <3>4. stream' = [c \in Streams |-> stream'[c]]
      BY <2>1
    <3>5. QED
      BY <2>1, <3>3, <3>4 DEF StreamsOK
  <2>5. QED
    BY <1>4, <2>1, <2>2, <2>3, <2>4, SameMeta DEF GInv
<1>7. QED
  BY <1>5, <1>6

-----------------------------------------------------------------------------
(* The theorems *)

LEMMA InitInv == Init => GInv
PROOF
<1> SUFFICES ASSUME Init PROVE GInv
  OBVIOUS
<1>1. /\ Owner \notin Founders /\ Founders \subseteq Peers /\ Owner \in Peers
      /\ Peers \subseteq Nat \ {0}
  BY GroupAssumption, PeerFacts
<1> DEFINE r == [version |-> 1, members |-> Founders \cup {Owner}, renamed |-> {}]
<1>2. /\ Founding \in Meta /\ Founding.version = 1 /\ Founding.members = Founders
      /\ Founding.renamed = {}
  <2>1. NoGroup \in Meta /\ NoGroup.renamed = {}
    BY DEF NoGroup, Meta
  <2>2. QED
    BY <1>1, <2>1 DEF Founding, Meta
<1>3. r \in Roster /\ OwnRoster(Founding) = r /\ signed = {r}
  BY <1>1, <1>2 DEF OwnRoster, Roster, Init
<1>4. ASSUME NEW p \in Peers
      PROVE  /\ meta[p] \in Meta /\ p \notin meta[p].members
             /\ p # Owner => TakenFrom(meta[p], p, signed)
  <2>1. CASE p = Owner
    BY <1>1, <1>2, <2>1 DEF Init
  <2>2. CASE p \in Founders
    <3> DEFINE others == ({Owner} \cup Founders) \ {p}
    <3>1. meta[p] = [Founding EXCEPT !.members = others]
      BY <1>1, <2>2 DEF Init
    <3>2. /\ meta[p] \in Meta /\ meta[p].version = 1 /\ meta[p].members = others
          /\ meta[p].renamed = {}
      BY <1>1, <1>2, <3>1 DEF Meta
    <3>3. QED
      BY <1>3, <3>2 DEF TakenFrom
  <2>3. CASE p # Owner /\ p \notin Founders
    <3>1. meta[p] = [version |-> 0, members |-> {}, renamed |-> {}, token |-> None]
      BY <2>3 DEF Init, NoGroup
    <3>2. QED
      BY <3>1 DEF Meta, TakenFrom
  <2>4. QED
    BY <2>1, <2>2, <2>3
<1>5. Signs(signed, meta[Owner], display) /\ OnePerVersion(signed)
  <2>1. meta[Owner] = Founding /\ display = {}
    BY <1>1 DEF Init
  <2>2. [version |-> meta[Owner].version, members |-> meta[Owner].members \cup {Owner},
         renamed |-> meta[Owner].renamed \cup (display \cap {Owner})] = r
    BY <1>2, <2>1
  <2>3. r.version = 1 /\ 1 \in 1..1
    OBVIOUS
  <2> HIDE DEF r
  <2>4. Signs(signed, meta[Owner], display)
    BY <1>2, <1>3, <2>1, <2>2, <2>3 DEF Signs
  <2>5. QED
    BY <1>3, <2>4 DEF OnePerVersion
<1>6. Issues(issued, signed)
  <2>1. [version |-> 0, members |-> {}, renamed |-> {}] \in Roster
    BY DEF Roster
  <2>2. NotIssued \in Issued /\ NotIssued.state = "none" /\ NotIssued.by = None
    BY <2>1 DEF NotIssued, Issued
  <2>3. QED
    BY <2>2 DEF Init, Issues
<1>7. Rosters(meta, issued, signed, display, mixed)
  <2>1. meta = [p \in Peers |-> meta[p]]
    BY DEF Init
  <2>2. meta \in [Peers -> Meta]
    BY <1>4, <2>1
  <2>3. \A p \in Others : TakenFrom(meta[p], p, signed)
    BY <1>4, PeerFacts
  <2>4. QED
    BY <1>3, <1>4, <1>5, <1>6, <2>2, <2>3 DEF Rosters
<1>8. LinksOK(link, meta)
  <2>1. ASSUME NEW p \in Peers PROVE LinksOf(link[p], p, meta[p].members)
    <3> DEFINE M == meta[p].members
    <3>1. link[p] = OpenedLinks(M)
      BY DEF Init
    <3>2. p \notin M
      BY <1>4
    <3>3. LinksOf(OpenedLinks(M), p, M)
      <4> HIDE DEF M
      <4>1. QED
        BY <3>2, OpenedOK
    <3>4. QED
      BY <3>1, <3>3
  <2>2. link = [p \in Peers |-> link[p]]
    <3>1. link = [p \in Peers |-> OpenedLinks(meta[p].members)]
      BY DEF Init
    <3>2. QED
      BY <3>1
  <2>3. QED
    BY <2>1, <2>2 DEF LinksOK
<1>9. StreamsOK(stream, signed)
  BY NoStreamOK DEF Init, StreamsOK
<1>10. Rest
  BY <1>1, GroupAssumption DEF Init, Rest
<1>11. QED
  BY <1>7, <1>8, <1>9, <1>10 DEF GInv

(* The frames that wait on a link. *)
LEMMA FramesOK ==
  ASSUME GInv, NEW p \in Peers, NEW q \in Peers, NEW f \in Frames(p, q)
  PROVE  f \in FramesOf(signed)
PROOF
<1>1. LinksOK(link, meta) /\ StreamsOK(stream, signed) /\ link[p][q].conn # None
  BY DEF GInv, Frames
<1>2. StreamOf(stream[link[p][q].conn], signed)
  BY <1>1, LinkInUse DEF StreamsOK
<1>3. stream[link[p][q].conn].box \subseteq Peers \X FramesOf(signed)
  BY <1>2, StreamFields
<1>4. QED
  BY <1>1, <1>3 DEF Frames

LEMMA NextStep ==
  ASSUME GInv, Next
  PROVE  GInv' /\ Grows
PROOF
<1>1. CASE Users
  BY <1>1, GenerateInviteStep, RevokePrivateStep, ExpireStep, AddMemberStep,
     DeleteMemberStep, ImportInviteStep, OpenGroupStep, SaveDisplayNameStep,
     TabClosedStep DEF Users
<1>2. ASSUME NEW c \in Streams, Connections(c) PROVE GInv' /\ Grows
  BY <1>2, RouterConnectsStep, GroupConnectFailsStep, GroupConnectFinishedStep,
     GroupIncomingAcceptedStep DEF Connections
<1>3. ASSUME NEW p \in Peers, NEW q \in Peers, Tick(p, q) PROVE GInv' /\ Grows
  <2>1. CASE TickHello(p, q)
    BY <2>1, TickHelloStep
  <2>2. CASE \/ TickQuit(p, q) \/ TickClosed(p, q)
             \/ HandshakeTimeout(p, q) \/ HeartbeatTimeout(p, q)
    BY <2>2, EndingSteps
  <2>3. ASSUME NEW f \in Frames(p, q), f.type = "JOIN", TickJoin(q, f.token, f.new)
        PROVE  GInv' /\ Grows
    <3>1. f.token \in Tokens /\ f.new \in BOOLEAN
      BY <2>3, FramesOK, JoinFrame
    <3>2. QED
      BY <2>3, <3>1, TickJoinStep
  <2>4. ASSUME NEW f \in Frames(p, q), f.type = "RENAME", TickRename(q, f.new)
        PROVE  GInv' /\ Grows
    <3>1. f.new \in BOOLEAN
      BY <2>4, FramesOK, JoinFrame
    <3>2. QED
      BY <2>4, <3>1, TickRenameStep
  <2>5. ASSUME NEW f \in Frames(p, q), TickRoster(p, q, f.roster)
        PROVE  GInv' /\ Grows
    BY <2>5, TickRosterStep
  <2>6. QED
    BY <1>3, <2>1, <2>2, <2>3, <2>4, <2>5 DEF Tick
<1>4. ASSUME NEW p \in Peers, NEW q \in Peers, p # q, Dials(p, q)
      PROVE  GInv' /\ Grows
  BY <1>4, GroupConnectStep DEF Dials
<1>5. QED
  BY <1>1, <1>2, <1>3, <1>4 DEF Next, Pairs

LEMMA InvTypeOK == GInv => TypeOK
PROOF
<1> SUFFICES ASSUME GInv PROVE TypeOK
  OBVIOUS
<1>1. /\ Rosters(meta, issued, signed, display, mixed) /\ LinksOK(link, meta)
      /\ StreamsOK(stream, signed) /\ Rest
  BY DEF GInv
<1>2. link \in [Peers -> [Peers -> Link]]
  BY <1>1 DEF LinksOK, LinksOf
<1>3. stream \in [Streams -> Stream]
  <2>1. FramesOf(signed) \subseteq Frame
    BY <1>1 DEF FramesOf, Frame, Rosters
  <2>2. ASSUME NEW c \in Streams PROVE stream[c] \in Stream
    <3>1. StreamOf(stream[c], signed)
      BY <1>1 DEF StreamsOK
    <3>2. stream[c].box \subseteq Peers \X Frame
      BY <2>1, <3>1, StreamFields
    <3>3. QED
      BY <3>1, <3>2, StreamFields DEF Stream
  <2>3. QED
    BY <1>1, <2>2 DEF StreamsOK
<1>4. QED
  BY <1>1, <1>2, <1>3 DEF TypeOK, Rosters, Issues, Rest

(* In every reachable state the invariant holds. *)
LEMMA Invariance == Spec => []GInv
PROOF
<1>1. GInv /\ [Next]_vars => GInv'
  <2> SUFFICES ASSUME GInv, [Next]_vars PROVE GInv'
    OBVIOUS
  <2>1. CASE Next
    BY <2>1, NextStep
  <2>2. CASE UNCHANGED vars
    <3>1. /\ meta' = meta /\ issued' = issued /\ signed' = signed /\ display' = display
          /\ mixed' = mixed /\ link' = link /\ stream' = stream
      BY <2>2 DEF vars, rosterVars
    <3>2. Rest'
      BY <2>2 DEF vars, rosterVars, GInv, Rest
    <3>3. QED
      BY <3>1, <3>2 DEF GInv
  <2>3. QED
    BY <2>1, <2>2
<1>2. QED
  BY <1>1, InitInv, PTL DEF Spec

(* Every variable of a group, its tabs and its streams stays in its range. *)
THEOREM GroupTypeCorrect == Spec => []TypeOK
PROOF BY Invariance, InvTypeOK, PTL

(* Only members are treated as authorised: update_open_group_roster runs   *)
(* after every change of a roster, before anything reads the links.        *)
THEOREM AuthorizedMembers == Spec => []AuthorizedIsMember
PROOF
<1>1. GInv => AuthorizedIsMember
  BY DEF GInv, LinksOK, LinksOf, AuthorizedIsMember
<1>2. QED
  BY <1>1, Invariance, PTL

(* The owner never signs two rosters of a version, and what a member has   *)
(* at a version is the roster signed for it (merge_group_roster_sync,      *)
(* merge_group_invite, and every place that bumps roster_version).         *)
THEOREM OneRosterPerVersion == Spec => []RosterIsSigned
PROOF
<1>1. GInv => RosterIsSigned
  BY DEF GInv, Rosters, OnePerVersion, TakenFrom, RosterIsSigned
<1>2. QED
  BY <1>1, Invariance, PTL

(* No step takes the stored roster of a peer back to an older version.     *)
THEOREM VersionsGrow == Spec => VersionNeverDecreases
PROOF
<1>1. GInv /\ [Next]_vars => [\A p \in Peers : meta'[p].version >= meta[p].version]_vars
  <2> SUFFICES ASSUME GInv, Next
               PROVE  \A p \in Peers : meta'[p].version >= meta[p].version
    OBVIOUS
  <2>1. QED
    BY NextStep DEF Grows
<1>2. QED
  BY <1>1, Invariance, PTL DEF Spec, VersionNeverDecreases

-----------------------------------------------------------------------------
(* Tokens *)

(* A token that nobody redeemed brought nobody in, and whom a token stands *)
(* for is a member: a member that is deleted takes its token with it.      *)
Redeeming(is, ad, M) ==
  \A t \in Tokens :
    /\ ad[t] \in {0, 1}
    /\ is[t].state \in {"none", "open"} => ad[t] = 0
    /\ is[t].by # None => is[t].by \in M

TokenInv == Redeeming(issued, admissions, meta[Owner].members)

(* Steps that leave the records of the tokens alone and delete no member.  *)
LEMMA TokensKept ==
  ASSUME TokenInv, issued' = issued, admissions' = admissions,
         meta[Owner].members \subseteq meta'[Owner].members
  PROVE  TokenInv'
PROOF BY DEF TokenInv, Redeeming

(* What the owner publishes is its group. *)
LEMMA PublishedMembers ==
  ASSUME GInv, NEW n, NEW ls, NEW st, Publishes(n, ls, st)
  PROVE  meta'[Owner] = n
PROOF BY PeerFacts DEF Publishes, GInv, Rosters

LEMMA TokensOfJoin ==
  ASSUME GInv, TokenInv, NEW q \in Peers, NEW t \in Tokens, NEW new \in BOOLEAN,
         TickJoin(q, t, new)
  PROVE  TokenInv'
PROOF
<1> DEFINE f == [type |-> "JOIN", token |-> t, new |-> new]
           m == meta[Owner]
           n == Bumped(Named(m, q, new))
           ls == [link[Owner] EXCEPT ![q].auth = TRUE]
           st == Read(Owner, q, f)
           redeems == link[Owner][q].ready /\ ~Completed(t, q) /\ Redeemable(t, q)
<1>1. CASE redeems
  <2> DEFINE a == IF t \in Private THEN "gone" ELSE "redeemed"
             b == IF t \in Private THEN None ELSE q
             i == [issued[t] EXCEPT !.state = a, !.by = b]
             k == IF Named(m, q, new) # m \/ issued[t].state = "open" THEN n ELSE m
             d == IF q \in m.members THEN admissions[t] ELSE 1
  <2>1. /\ Publishes(k, ls, st)
        /\ issued' = [issued EXCEPT ![t].state = a, ![t].by = b]
        /\ admissions' = IF q \in m.members THEN admissions
                         ELSE [admissions EXCEPT ![t] = @ + 1]
    BY <1>1 DEF TickJoin
  <2>2. /\ issued \in [Tokens -> Issued] /\ issued[t] \in Issued
        /\ admissions \in [Tokens -> Nat] /\ m \in Meta /\ q \in Others /\ q # None
    BY ReadsOK, PeerFacts, IssuesNow, StoredGroup DEF GInv, Rest, Issues, TickJoin
  <2>3. Named(m, q, new) \in Meta /\ Named(m, q, new).members = m.members \cup {q}
    BY <2>2, NamedOK, PeerFacts
  <2>4. meta'[Owner].members = m.members \cup {q}
    <3>1. n.members = m.members \cup {q}
      BY <2>3, BumpedOK
    <3>2. meta'[Owner] = k
      BY <2>1, PublishedMembers
    <3>3. k = n \/ (k = m /\ Named(m, q, new) = m)
      OBVIOUS
    <3> HIDE DEF k, n
    <3>4. QED
      BY <2>3, <3>1, <3>2, <3>3
  <2>5. /\ admissions[t] \in {0, 1} /\ (issued[t].state \in {"none", "open"} => admissions[t] = 0)
        /\ issued[t].by # None => issued[t].by \in m.members
    BY DEF TokenInv, Redeeming
  <2>6. q \notin m.members => admissions[t] = 0
    <3>1. CASE issued[t].state = "open"
      BY <2>5, <3>1
    <3>2. CASE issued[t].by = q
      BY <2>2, <2>5, <3>2
    <3>3. QED
      BY <1>1, <3>1, <3>2 DEF Redeemable
  <2>7. admissions' = [admissions EXCEPT ![t] = d] /\ d \in {0, 1}
    <3>1. CASE q \in m.members
      BY <2>1, <2>2, <2>5, <3>1
    <3>2. CASE q \notin m.members
      <4>1. admissions[t] + 1 = 1
        BY <2>6, <3>2
      <4>2. admissions' = [admissions EXCEPT ![t] = 1] /\ d = 1
        BY <2>1, <3>2, <4>1
      <4>3. QED
        BY <4>2
    <3>3. QED
      BY <3>1, <3>2
  <2>8. a \in {"gone", "redeemed"} /\ b \in {None, q}
    OBVIOUS
  <2> HIDE DEF a, b, d
  <2>9. i.state = a /\ i.by = b
    BY <2>2 DEF Issued
  <2>10. issued' = [issued EXCEPT ![t] = i]
    BY <2>1, <2>2
  <2> HIDE DEF i
  <2>11. Redeeming(issued', admissions', meta'[Owner].members)
    <3>1. Redeeming(issued, admissions, m.members) /\ m.members \subseteq meta'[Owner].members
      BY <2>4 DEF TokenInv
    <3>2. i.state \notin {"none", "open"} /\ (i.by # None => i.by \in meta'[Owner].members)
      BY <2>4, <2>8, <2>9
    <3>3. QED
      BY <2>2, <2>7, <2>10, <3>1, <3>2 DEF Redeeming
  <2>12. QED
    BY <2>11 DEF TokenInv
<1>2. CASE ~redeems
  <2>1. meta' = meta /\ issued' = issued /\ admissions' = admissions
    BY <1>2 DEF TickJoin
  <2>2. QED
    BY <2>1, TokensKept
<1>3. QED
  BY <1>1, <1>2

LEMMA TokensOfUsers ==
  ASSUME GInv, TokenInv, Users
  PROVE  TokenInv'
PROOF
<1> DEFINE m == meta[Owner]
<1>1. /\ issued \in [Tokens -> Issued] /\ \A t \in Tokens : issued[t] \in Issued
      /\ m \in Meta
  BY IssuesNow, StoredGroup, PeerFacts DEF Issues
<1>2. Redeeming(issued, admissions, m.members)
  BY DEF TokenInv
<1>3. ASSUME NEW t \in Tokens, GenerateInvite(t) PROVE TokenInv'
  <2> DEFINE i == [state |-> "open", by |-> None, invite |-> OwnRoster(meta[Owner])]
  <2>1. issued' = [issued EXCEPT ![t] = i] /\ meta' = meta /\ admissions' = admissions
    BY <1>3 DEF GenerateInvite
  <2>2. issued[t].state = "none" /\ i.by = None
    BY <1>3 DEF GenerateInvite
  <2> HIDE DEF i
  <2>3. QED
    BY <1>1, <1>2, <2>1, <2>2 DEF TokenInv, Redeeming
<1>4. ASSUME NEW t \in Tokens, RevokePrivate(t) PROVE TokenInv'
  <2> DEFINE i == [issued[t] EXCEPT !.state = "gone"]
  <2>1. issued' = [issued EXCEPT ![t] = i] /\ meta' = meta /\ admissions' = admissions
    BY <1>1, <1>4 DEF RevokePrivate
  <2>2. i.state = "gone" /\ i.by = issued[t].by
    BY <1>1 DEF Issued
  <2> HIDE DEF i
  <2>3. QED
    BY <1>1, <1>2, <2>1, <2>2 DEF TokenInv, Redeeming
<1>5. ASSUME NEW t \in Tokens, Expire(t) PROVE TokenInv'
  BY <1>5, TokensKept DEF Expire
<1>6. ASSUME NEW q \in Others, AddMember(q) PROVE TokenInv'
  <2> DEFINE n == [m EXCEPT !.members = @ \cup {q}]
  <2>1. n \in Meta /\ n.members = m.members \cup {q}
    BY <1>1, PeerFacts DEF Meta
  <2>2. /\ Publishes(Bumped(n), link[Owner], stream) /\ issued' = issued
        /\ admissions' = admissions
    BY <1>6 DEF AddMember
  <2> HIDE DEF n
  <2>3. meta'[Owner].members = m.members \cup {q}
    BY <2>1, <2>2, PublishedMembers, BumpedOK
  <2>4. QED
    BY <2>2, <2>3, TokensKept
<1>7. ASSUME NEW q \in Others, DeleteMember(q) PROVE TokenInv'
  <2> DEFINE n == [m EXCEPT !.members = @ \ {q}, !.renamed = @ \ {q}]
  <2>1. n \in Meta /\ n.members = m.members \ {q}
    BY <1>1 DEF Meta
  <2>2. Publishes(Bumped(n), link[Owner], stream) /\ admissions' = admissions
    BY <1>7 DEF DeleteMember
  <2> HIDE DEF n
  <2>3. meta'[Owner].members = m.members \ {q}
    BY <2>1, <2>2, PublishedMembers, BumpedOK
  <2>4. ASSUME NEW t \in Tokens
        PROVE  /\ issued'[t].state \in {"none", "open"} =>
                    issued[t].state \in {"none", "open"}
               /\ issued'[t].by # None => issued'[t].by = issued[t].by /\ issued[t].by # q
    <3> DEFINE i == [issued[t] EXCEPT !.state = "gone", !.by = None]
    <3>1. i.state = "gone" /\ i.by = None
      BY <1>1 DEF Issued
    <3>2. issued'[t] = IF issued[t].by = q THEN i ELSE issued[t]
      BY <1>7 DEF DeleteMember
    <3> HIDE DEF i
    <3>3. QED
      BY <3>1, <3>2
  <2>5. QED
    BY <1>2, <2>2, <2>3, <2>4 DEF TokenInv, Redeeming
<1>8. ASSUME NEW q \in Others, NEW t \in Tokens, ImportInvite(q, t) PROVE TokenInv'
  <2>1. meta'[Owner] = meta[Owner]
    BY <1>8, PeerFacts DEF ImportInvite, GInv, Rosters
  <2>2. issued' = issued /\ admissions' = admissions
    BY <1>8 DEF ImportInvite
  <2>3. QED
    BY <2>1, <2>2, TokensKept
<1>9. ASSUME NEW p \in Peers, OpenGroup(p) \/ TabClosed(p) PROVE TokenInv'
  BY <1>9, TokensKept DEF OpenGroup, TabClosed, rosterVars
<1>10. ASSUME NEW p \in Peers, SaveDisplayName(p) PROVE TokenInv'
  <2>1. issued' = issued /\ admissions' = admissions
    BY <1>10 DEF SaveDisplayName
  <2>2. CASE p = Owner
    <3>1. meta' = [meta EXCEPT ![p] = Bumped(meta[p])]
      BY <1>10, <2>2 DEF SaveDisplayName
    <3>2. meta'[Owner] = Bumped(m)
      BY <2>2, <3>1, PeerFacts DEF GInv, Rosters
    <3>3. QED
      BY <1>1, <2>1, <3>2, BumpedOK, TokensKept
  <2>3. CASE p # Owner
    BY <1>10, <2>1, <2>3, TokensKept DEF SaveDisplayName
  <2>4. QED
    BY <2>2, <2>3
<1>11. QED
  BY <1>3, <1>4, <1>5, <1>6, <1>7, <1>8, <1>9, <1>10 DEF Users

LEMMA TokensOfTicks ==
  ASSUME GInv, TokenInv, NEW p \in Peers, NEW q \in Peers, Tick(p, q)
  PROVE  TokenInv'
PROOF
<1>1. CASE \/ TickHello(p, q) \/ TickQuit(p, q) \/ TickClosed(p, q)
           \/ HandshakeTimeout(p, q) \/ HeartbeatTimeout(p, q)
  BY <1>1, TokensKept DEF TickHello, TickQuit, TickClosed, HandshakeTimeout,
     HeartbeatTimeout, rosterVars
<1>2. ASSUME NEW f \in Frames(p, q), f.type = "JOIN", TickJoin(q, f.token, f.new)
      PROVE  TokenInv'
  <2>1. f.token \in Tokens /\ f.new \in BOOLEAN
    BY <1>2, FramesOK, JoinFrame
  <2>2. QED
    BY <1>2, <2>1, TokensOfJoin
<1>3. ASSUME NEW f \in Frames(p, q), f.type = "RENAME", TickRename(q, f.new)
      PROVE  TokenInv'
  <2> DEFINE m == meta[Owner]
             n == Named(m, q, f.new)
             st == Read(Owner, q, [type |-> "RENAME", new |-> f.new])
  <2>1. f.new \in BOOLEAN /\ m \in Meta
    BY <1>3, FramesOK, JoinFrame, StoredGroup, PeerFacts
  <2>2. /\ issued' = issued /\ admissions' = admissions
        /\ Publishes(Bumped(n), link[Owner], st) \/ meta' = meta
    BY <1>3 DEF TickRename
  <2>3. m.members \subseteq meta'[Owner].members
    <3>1. n \in Meta /\ n.members = m.members \cup {q}
      BY <2>1, NamedOK
    <3> HIDE DEF n, st
    <3>2. QED
      BY <2>2, <3>1, PublishedMembers, BumpedOK
  <2>4. QED
    BY <2>2, <2>3, TokensKept
<1>4. ASSUME NEW f \in Frames(p, q), f.type = "ROSTER", TickRoster(p, q, f.roster)
      PROVE  TokenInv'
  <2> DEFINE takes == link[p][q].ready /\ link[p][q].auth
             m == IF takes THEN MergedRoster(meta[p], p, f.roster) ELSE meta[p]
  <2>1. /\ issued' = issued /\ admissions' = admissions
        /\ meta' = [meta EXCEPT ![p] = m]
    BY <1>4 DEF TickRoster
  <2>2. f.roster \in signed
    BY <1>4, FramesOK, JoinFrame
  <2>3. p = Owner => m = meta[Owner]
    BY <2>2, SignedRoster, StoredGroup, PeerFacts DEF MergedRoster
  <2> HIDE DEF m
  <2>4. meta'[Owner] = meta[Owner]
    BY <2>1, <2>3, PeerFacts DEF GInv, Rosters
  <2>5. QED
    BY <2>1, <2>4, TokensKept
<1>5. QED
  BY <1>1, <1>2, <1>3, <1>4 DEF Tick

LEMMA TokensNext ==
  ASSUME GInv, TokenInv, Next
  PROVE  TokenInv'
PROOF
<1>1. ASSUME NEW c \in Streams, Connections(c) PROVE TokenInv'
  BY <1>1, TokensKept DEF Connections, RouterConnects, GroupConnectFails,
     GroupConnectFinished, GroupIncomingAccepted, rosterVars
<1>2. ASSUME NEW p \in Peers, NEW q \in Peers, Dials(p, q) PROVE TokenInv'
  BY <1>2, TokensKept DEF Dials, GroupConnect, rosterVars
<1>3. QED
  BY <1>1, <1>2, TokensOfUsers, TokensOfTicks DEF Next, Pairs

(* A token brings one peer into the group, whoever presents it and however *)
(* often (redeem_group_invite_token, redeem_private_group_invite_token,    *)
(* and delete_group_member, which gives up the member's token).            *)
THEOREM TokensAdmitOnce == Spec => []TokenAdmitsOnce
PROOF
<1>1. Init => TokenInv
  BY DEF Init, TokenInv, Redeeming, NotIssued
<1>2. GInv /\ TokenInv /\ [Next]_vars => TokenInv'
  <2> SUFFICES ASSUME GInv, TokenInv, [Next]_vars PROVE TokenInv'
    OBVIOUS
  <2>1. CASE Next
    BY <2>1, TokensNext
  <2>2. CASE UNCHANGED vars
    BY <2>2, TokensKept DEF vars, rosterVars
  <2>3. QED
    BY <2>1, <2>2
<1>3. TokenInv => TokenAdmitsOnce
  BY DEF TokenInv, Redeeming, TokenAdmitsOnce
<1>4. QED
  BY <1>1, <1>2, <1>3, Invariance, PTL DEF Spec
=============================================================================
