-------------------------- MODULE LiveSessionProofs --------------------------
(***************************************************************************)
(* That a tab has one connection, that no end of a stream is kept in the   *)
(* dark, that a session is ready only when its call was accepted, that a   *)
(* tab listens when it believes so, and that an invitation makes one       *)
(* session.                                                                *)
(***************************************************************************)
EXTENDS LiveSession, TLAPS

(* The ends of a call: a call that was made has two, and its target hears  *)
(* of it only when the connect task is through.                            *)
CallOK(k) ==
  /\ k \in Call
  /\ k.out = "unused" => k = UnusedCall
  /\ k.out # "unused" => k.from \in Peers /\ k.to \in Peers /\ k.from # k.to
  /\ k.out \in {"unused", "dialing"} => k.inn = "none"

CallsOK(cl) == cl = [c \in Calls |-> cl[c]] /\ \A c \in Calls : CallOK(cl[c])

(* The tab t of peer p, by the calls cl and the calls acc that users have  *)
(* accepted: a connect in flight is the tab's only connection, so is a     *)
(* pending call; a live stream is the tab's latest attempt or a call that  *)
(* the user accepted.                                                      *)
InFlight(t, p, cl) ==
  t.flight => /\ t.up /\ t.live = None /\ t.pend = None
              /\ t.cur # None
              /\ cl[t.cur].from = p /\ cl[t.cur].out \in {"dialing", "up"}
IsPending(t, p, cl) ==
  t.pend # None => /\ t.up /\ t.live = None /\ ~t.armed
                   /\ cl[t.pend].to = p /\ cl[t.pend].inn = "done"
IsLive(t, p, cl, acc) ==
  t.live # None => /\ t.up
                   /\ \/ /\ cl[t.live].from = p /\ cl[t.live].out = "done"
                         /\ t.cur = t.live
                      \/ /\ cl[t.live].to = p /\ cl[t.live].inn = "done"
                         /\ t.live \in acc
TabOK(t, p, cl, acc) ==
  /\ t \in Tab
  /\ InFlight(t, p, cl) /\ IsPending(t, p, cl) /\ IsLive(t, p, cl, acc)
  /\ t.ready => t.live \in acc

TabsOK(tb, cl, acc) == /\ tb = [p \in Peers |-> tb[p]]
                       /\ \A p \in Peers : TabOK(tb[p], p, cl, acc)

(* The frames s on their way to p over call k: QUIT only if an end is      *)
(* closed, to the caller nothing else before the call is accepted, to its  *)
(* target nothing before the caller has its stream, and AUTH only first.   *)
NoAuth(s) == \A i \in 1..Len(s) : s[i].type # "AUTH"
Shut(k, c, cd) == <<c, k.from>> \in cd \/ <<c, k.to>> \in cd

FramesOK(s, k, p, c, cd, acc) ==
  /\ s \in Seq(Frame)
  /\ ~Shut(k, c, cd) => \A i \in 1..Len(s) : s[i].type # "QUIT"
  /\ p = k.from /\ c \notin acc => \A i \in 1..Len(s) : s[i].type = "QUIT"
  /\ \A i \in 2..Len(s) : s[i].type # "AUTH"
  /\ k.out # "done" /\ p = k.to => s = <<>>
  /\ k.out = "unused" => s = <<>>

WiresOK(w, cl, cd, acc) ==
  /\ w = [c \in Calls |-> w[c]]
  /\ \A c \in Calls :
       /\ w[c] = [p \in Peers |-> w[c][p]]
       /\ \A p \in Peers : FramesOK(w[c][p], cl[c], p, c, cd, acc)

(* Whether p holds call k of number c or may still come to hold it, as     *)
(* MayStillHold says.                                                      *)
HasIt(t, p, k, c) ==
  \/ c \in {t.live, t.pend}
  \/ k.from = p /\ k.out \in {"dialing", "up"}
  \/ k.to = p /\ k.inn = "arriving"

(* Both ends of a call hold it or neither does, or it can be seen that one *)
(* has given it up.                                                        *)
BothOrShut(c, k, tb, cd, lost) ==
  k.out \in {"up", "done"} =>
    \/ Shut(k, c, cd) \/ c \in lost
    \/ (HasIt(tb[k.from], k.from, k, c) <=> HasIt(tb[k.to], k.to, k, c))
EndsOK(cl, tb, cd, lost) == \A c \in Calls : BothOrShut(c, cl[c], tb, cd, lost)

(* An armed tab has an accept task, or its call is about to arrive.        *)
Listens(t, p, n, cl, df) ==
  t.up /\ t.armed /\ p \notin df =>
    n > 0 \/ \E c \in Calls : cl[c].to = p /\ cl[c].inn = "arriving"
AcceptsOK(ac, tb, cl, df) ==
  /\ ac \in [Peers -> Nat]
  /\ \A p \in Peers : Listens(tb[p], p, ac[p], cl, df)

(* The invitation that p has issued and the one its pending caller has     *)
(* shown: p answered their requests, and until they are used they made no  *)
(* session.  A reserved one is the pending caller's, whose proof has been  *)
(* read.                                                                   *)
Issue == [id : Invites \cup {None}, state : IssuedState,
          pending : Invites \cup {None}]
Unused(n, rd) == \A x \in rd : x[1] # n
Reserves(i, p, pend, cl, w) ==
  i.state = "Reserved" =>
    /\ i.pending = i.id /\ i.pending # None
    /\ pend # None /\ cl[pend].out = "done"
    /\ NoAuth(w[pend][p])
IssueOK(i, p, pend, an, rd) ==
  /\ i \in Issue
  /\ i.pending # None => /\ pend # None /\ an[i.pending] = p
                         /\ Unused(i.pending, rd)
                         /\ i.pending = i.id => i.state = "Reserved"
  /\ i.id # None => an[i.id] = p
  /\ i.id # None /\ i.state \in {"Available", "Reserved"} => Unused(i.id, rd)
IssuedOK(is, tb, an, rd, cl, w) ==
  /\ is = [p \in Peers |-> is[p]]
  /\ \A p \in Peers : /\ IssueOK(is[p], p, tb[p].pend, an, rd)
                      /\ Reserves(is[p], p, tb[p].pend, cl, w)

AccessOK(ax) ==
  /\ ax = [p \in Peers |-> ax[p]]
  /\ \A p \in Peers : ax[p] \in [outgoing : Invites \cup {None},
                                 request : Invites \cup {None}]
AnsweredOK(an) == an \in [Invites -> Peers \cup {None}]

(* What was used was answered, and made one session.                       *)
RedeemedOK(rd, an) ==
  /\ rd \subseteq Invites \X Calls
  /\ \A x \in rd : an[x[1]] # None
  /\ \A x, y \in rd : x[1] = y[1] => x = y

Rest == /\ closed \subseteq Calls \X Peers
        /\ silent \subseteq Calls
        /\ abandoned \subseteq Calls /\ accepted \subseteq Calls
        /\ expired \subseteq Invites /\ deaf \subseteq Peers

LInv ==
  /\ CallsOK(call)
  /\ TabsOK(tab, call, accepted)
  /\ WiresOK(wire, call, closed, accepted)
  /\ EndsOK(call, tab, closed, silent \cup abandoned)
  /\ AcceptsOK(accepts, tab, call, deaf)
  /\ IssuedOK(issued, tab, answered, redeemed, call, wire)
  /\ AccessOK(access) /\ AnsweredOK(answered) /\ RedeemedOK(redeemed, answered)
  /\ Rest

-----------------------------------------------------------------------------
(* Data *)

LEMMA NoNone == None \notin Peers /\ None \notin Calls /\ None \notin Invites
PROOF BY SessionAssumption DEF None, Calls, Invites

LEMMA TabFields ==
  ASSUME NEW t \in Tab
  PROVE  /\ t.up \in BOOLEAN /\ t.ready \in BOOLEAN /\ t.flight \in BOOLEAN
         /\ t.armed \in BOOLEAN
         /\ t.live \in Calls \cup {None} /\ t.pend \in Calls \cup {None}
         /\ t.cur \in Calls \cup {None} /\ t.stored \in Peers \cup {None}
         /\ DOMAIN t = {"up", "live", "pend", "ready", "flight", "cur", "armed",
                        "stored"}
PROOF BY DEF Tab

(* Nothing on its way. *)
LEMMA NoFrames ==
  ASSUME NEW k, NEW p, NEW c, NEW cd, NEW acc
  PROVE  FramesOK(<<>>, k, p, c, cd, acc)
PROOF BY DEF FramesOK

(* The first frame is read. *)
LEMMA FramesRead ==
  ASSUME NEW s, NEW k, NEW p, NEW c, NEW cd, NEW acc,
         FramesOK(s, k, p, c, cd, acc), s # <<>>
  PROVE  /\ FramesOK(Tail(s), k, p, c, cd, acc)
         /\ NoAuth(Tail(s))
         /\ Head(s) \in Frame
         /\ Head(s).type = "QUIT" => Shut(k, c, cd)
         /\ p = k.from /\ Head(s).type # "QUIT" => c \in acc
         /\ k.out # "unused" /\ (p = k.to => k.out = "done")
PROOF
<1>1. /\ s \in Seq(Frame) /\ Len(s) \in Nat /\ Len(s) >= 1
      /\ Head(s) = s[1] /\ Head(s) \in Frame
      /\ Tail(s) \in Seq(Frame) /\ Len(Tail(s)) = Len(s) - 1
      /\ \A i \in 1..Len(Tail(s)) : Tail(s)[i] = s[i + 1]
  BY DEF FramesOK
<1>2. \A i \in 1..Len(Tail(s)) : i + 1 \in 1..Len(s) /\ i + 1 \in 2..Len(s)
  BY <1>1
<1>3. QED
  BY <1>1, <1>2 DEF FramesOK, NoAuth

(* Frames are sent after those on their way. *)
LEMMA FramesSent ==
  ASSUME NEW s, NEW f, NEW k, NEW p, NEW c, NEW cd, NEW acc,
         FramesOK(s, k, p, c, cd, acc), FramesOK(f, k, p, c, cd, acc),
         s = <<>> \/ NoAuth(f)
  PROVE  FramesOK(s \o f, k, p, c, cd, acc)
PROOF
<1>1. /\ s \in Seq(Frame) /\ f \in Seq(Frame) /\ s \o f \in Seq(Frame)
      /\ Len(s) \in Nat /\ Len(f) \in Nat /\ Len(s \o f) = Len(s) + Len(f)
      /\ \A i \in 1..Len(s \o f) : (s \o f)[i] = IF i <= Len(s) THEN s[i]
                                                 ELSE f[i - Len(s)]
  BY DEF FramesOK
<1>2. \A i \in 1..Len(s \o f) : i \in 1..Len(s) \/ i - Len(s) \in 1..Len(f)
  BY <1>1
<1>3. ASSUME ~Shut(k, c, cd), NEW i \in 1..Len(s \o f)
      PROVE  (s \o f)[i].type # "QUIT"
  BY <1>1, <1>2, <1>3 DEF FramesOK
<1>4. ASSUME p = k.from, c \notin acc, NEW i \in 1..Len(s \o f)
      PROVE  (s \o f)[i].type = "QUIT"
  BY <1>1, <1>2, <1>4 DEF FramesOK
<1>5. ASSUME NEW i \in 2..Len(s \o f)
      PROVE  (s \o f)[i].type # "AUTH"
  <2>1. CASE i <= Len(s)
    BY <1>1, <1>5, <2>1 DEF FramesOK
  <2>2. CASE ~(i <= Len(s)) /\ s = <<>>
    <3>1. i - Len(s) \in 2..Len(f)
      BY <1>1, <1>5, <2>2
    <3>2. QED
      BY <1>1, <1>5, <2>2, <3>1 DEF FramesOK
  <2>3. CASE ~(i <= Len(s)) /\ s # <<>>
    <3>1. i - Len(s) \in 1..Len(f)
      BY <1>1, <1>5, <2>3
    <3>2. QED
      BY <1>1, <1>5, <2>3, <3>1 DEF NoAuth
  <2>4. QED
    BY <2>1, <2>2, <2>3
<1>6. s = <<>> /\ f = <<>> => s \o f = <<>>
  BY <1>1
<1>7. QED
  BY <1>1, <1>3, <1>4, <1>5, <1>6 DEF FramesOK

(* How a call may change: it starts, or it goes on. *)
Advances(k, m) ==
  \/ m = k
  \/ k = UnusedCall
  \/ /\ m.from = k.from /\ m.to = k.to
     /\ k.out # "unused" /\ m.out # "unused"
     /\ k.out = "done" => m.out = "done"
     /\ k.inn = "done" => m.inn = "done"

LEMMA FramesKept ==
  ASSUME NEW s, NEW k, NEW m, NEW p, NEW c, NEW cd, NEW de, NEW acc, NEW bcc,
         FramesOK(s, k, p, c, cd, acc), Advances(k, m),
         cd \subseteq de, acc \subseteq bcc
  PROVE  FramesOK(s, m, p, c, de, bcc)
PROOF
<1>1. CASE k = UnusedCall
  <2>1. s = <<>>
    BY <1>1 DEF FramesOK, UnusedCall
  <2>2. QED
    BY <2>1, NoFrames
<1>2. CASE k # UnusedCall
  <2>1. /\ m.from = k.from /\ m.to = k.to
        /\ m.out = "unused" => k.out = "unused"
        /\ k.out = "done" => m.out = "done"
    BY <1>2 DEF Advances
  <2>2. QED
    BY <2>1 DEF FramesOK, Shut
<1>3. QED
  BY <1>1, <1>2

LEMMA WiresKept ==
  ASSUME NEW w, NEW cl, NEW dl, NEW cd, NEW de, NEW acc, NEW bcc,
         WiresOK(w, cl, cd, acc), \A c \in Calls : Advances(cl[c], dl[c]),
         cd \subseteq de, acc \subseteq bcc
  PROVE  WiresOK(w, dl, de, bcc)
PROOF
<1>1. ASSUME NEW c \in Calls, NEW p \in Peers
      PROVE  FramesOK(w[c][p], dl[c], p, c, de, bcc)
  <2>1. FramesOK(w[c][p], cl[c], p, c, cd, acc) /\ Advances(cl[c], dl[c])
    BY DEF WiresOK
  <2>2. QED
    BY <2>1, FramesKept
<1>2. QED
  BY <1>1 DEF WiresOK

LEMMA WiresUnread ==
  ASSUME NEW w, NEW cl, NEW cd, NEW acc, WiresOK(w, cl, cd, acc), NEW cs, NEW p
  PROVE  WiresOK(Unread(w, cs, p), cl, cd, acc)
PROOF
<1> DEFINE u == Unread(w, cs, p)
<1>1. u = [c \in Calls |-> u[c]]
      /\ \A c \in Calls : u[c] = [q \in Peers |-> u[c][q]]
  BY DEF Unread
<1>2. ASSUME NEW c \in Calls, NEW q \in Peers
      PROVE  FramesOK(u[c][q], cl[c], q, c, cd, acc)
  <2>1. u[c][q] \in {<<>>, w[c][q]}
    BY DEF Unread
  <2>2. QED
    BY <2>1, NoFrames DEF WiresOK
<1> HIDE DEF u
<1>3. WiresOK(u, cl, cd, acc)
  BY <1>1, <1>2 DEF WiresOK
<1>4. QED
  BY <1>3 DEF u

(* A function with another value at an argument. *)
Put(f, x, v) == [f EXCEPT ![x] = v]
Put2(f, x, y, v) == [f EXCEPT ![x][y] = v]

(* The frames of one end change. *)
LEMMA WiresStep ==
  ASSUME NEW w, NEW cl, NEW cd, NEW acc, WiresOK(w, cl, cd, acc),
         NEW c \in Calls, NEW q \in Peers,
         NEW f, FramesOK(f, cl[c], q, c, cd, acc),
         NEW u, u = Put2(w, c, q, f)
  PROVE  /\ WiresOK(u, cl, cd, acc)
         /\ \A b \in Calls, p \in Peers :
              u[b][p] = IF b = c /\ p = q THEN f ELSE w[b][p]
PROOF
<1>1. w = [b \in Calls |-> w[b]] /\ w[c] = [p \in Peers |-> w[c][p]]
      /\ \A b \in Calls : w[b] = [p \in Peers |-> w[b][p]]
  BY DEF WiresOK
<1>2. u = [w EXCEPT ![c] = [w[c] EXCEPT ![q] = f]]
  BY DEF Put2
<1>3. u = [b \in Calls |-> u[b]] /\ u[c] = [w[c] EXCEPT ![q] = f]
      /\ \A b \in Calls : b # c => u[b] = w[b]
  BY <1>1, <1>2
<1>4. ASSUME NEW b \in Calls
      PROVE  /\ u[b] = [p \in Peers |-> u[b][p]]
             /\ \A p \in Peers : u[b][p] = IF b = c /\ p = q THEN f ELSE w[b][p]
  <2>1. CASE b = c
    BY <1>1, <1>3, <2>1
  <2>2. CASE b # c
    BY <1>1, <1>3, <2>2
  <2>3. QED
    BY <2>1, <2>2
<1>5. ASSUME NEW b \in Calls, NEW p \in Peers
      PROVE  FramesOK(u[b][p], cl[b], p, b, cd, acc)
  <2>1. FramesOK(w[b][p], cl[b], p, b, cd, acc)
    BY DEF WiresOK
  <2>2. u[b][p] = IF b = c /\ p = q THEN f ELSE w[b][p]
    BY <1>4
  <2>3. u[b][p] \in {f, w[b][p]} /\ (u[b][p] # w[b][p] => b = c /\ p = q)
    BY <2>2
  <2>4. QED
    BY <2>1, <2>3
<1>6. WiresOK(u, cl, cd, acc)
  BY <1>3, <1>4, <1>5 DEF WiresOK
<1>7. QED
  BY <1>4, <1>6

LEMMA WiresSent ==
  ASSUME NEW w, NEW cl, NEW cd, NEW acc, WiresOK(w, cl, cd, acc),
         NEW c \in Calls, NEW q \in Peers,
         NEW f, FramesOK(f, cl[c], q, c, cd, acc),
         w[c][q] = <<>> \/ NoAuth(f)
  PROVE  /\ WiresOK(Sent(w, c, q, f), cl, cd, acc)
         /\ \A b \in Calls, p \in Peers :
              Sent(w, c, q, f)[b][p] \in {w[b][p]} \cup
                (IF b = c /\ p = q THEN {w[b][p] \o f} ELSE {})
PROOF
<1>1. Sent(w, c, q, f) \in {w, [w EXCEPT ![c][q] = w[c][q] \o f]}
  BY Zenon DEF Sent
<1>2. FramesOK(w[c][q] \o f, cl[c], q, c, cd, acc)
  <2>1. FramesOK(w[c][q], cl[c], q, c, cd, acc)
    BY DEF WiresOK
  <2>2. QED
    BY <2>1, FramesSent
<1> DEFINE g == w[c][q] \o f
           u == [w EXCEPT ![c][q] = g]
<1>3. /\ WiresOK(u, cl, cd, acc)
      /\ \A b \in Calls, p \in Peers :
           u[b][p] = IF b = c /\ p = q THEN g ELSE w[b][p]
  <2> HIDE DEF g
  <2>1. FramesOK(g, cl[c], q, c, cd, acc)
    BY <1>2 DEF g
  <2>2. u = Put2(w, c, q, g)
    BY DEF Put2
  <2> HIDE DEF u
  <2>3. QED
    BY <2>1, <2>2, WiresStep
<1> HIDE DEF u
<1>4. Sent(w, c, q, f) \in {w, u}
  BY <1>1 DEF u
<1>5. QED
  BY <1>3, <1>4

LEMMA WiresRead ==
  ASSUME NEW w, NEW cl, NEW cd, NEW acc, WiresOK(w, cl, cd, acc),
         NEW c \in Calls, NEW p \in Peers, w[c][p] # <<>>,
         NEW u, u = Put2(w, c, p, Tail(w[c][p]))
  PROVE  /\ WiresOK(u, cl, cd, acc)
         /\ \A b \in Calls, q \in Peers :
              u[b][q] = IF b = c /\ q = p THEN Tail(w[c][p]) ELSE w[b][q]
PROOF
<1>1. FramesOK(w[c][p], cl[c], p, c, cd, acc)
  BY DEF WiresOK
<1> DEFINE g == Tail(w[c][p])
<1>2. FramesOK(g, cl[c], p, c, cd, acc)
  BY <1>1, FramesRead
<1>3. u = Put2(w, c, p, g)
  BY DEF Put2
<1> HIDE DEF g
<1>4. WiresOK(u, cl, cd, acc)
      /\ \A b \in Calls, q \in Peers :
           u[b][q] = IF b = c /\ q = p THEN g ELSE w[b][q]
  BY <1>2, <1>3, WiresStep
<1>5. QED
  BY <1>4 DEF g

-----------------------------------------------------------------------------
(* Tabs *)

(* A tab is not concerned by calls that go on, as long as its own attempt  *)
(* does not end.                                                           *)
LEMMA TabKept ==
  ASSUME NEW t, NEW p \in Peers, NEW cl, NEW dl, NEW acc, NEW bcc,
         TabOK(t, p, cl, acc), \A c \in Calls : Advances(cl[c], dl[c]),
         acc \subseteq bcc, t.flight => dl[t.cur].out \in {"dialing", "up"}
  PROVE  TabOK(t, p, dl, bcc)
PROOF
<1>1. t \in Tab /\ t.live \in Calls \cup {None} /\ t.pend \in Calls \cup {None}
      /\ t.cur \in Calls \cup {None}
  BY TabFields DEF TabOK
<1>2. ASSUME NEW c \in Calls, cl[c] # UnusedCall
      PROVE  /\ dl[c].from = cl[c].from /\ dl[c].to = cl[c].to
             /\ cl[c].out = "done" => dl[c].out = "done"
             /\ cl[c].inn = "done" => dl[c].inn = "done"
  BY <1>2 DEF Advances
<1>3. ASSUME NEW c \in Calls, cl[c].out # "unused" \/ cl[c].inn # "none"
      PROVE  cl[c] # UnusedCall
  BY <1>3 DEF UnusedCall
<1>4. InFlight(t, p, dl)
  BY <1>1, <1>2, <1>3 DEF TabOK, InFlight
<1>5. IsPending(t, p, dl)
  BY <1>1, <1>2, <1>3 DEF TabOK, IsPending
<1>6. IsLive(t, p, dl, bcc)
  BY <1>1, <1>2, <1>3 DEF TabOK, IsLive
<1>7. QED
  BY <1>1, <1>4, <1>5, <1>6 DEF TabOK

(* The tab of p changes. *)
LEMMA TabsStep ==
  ASSUME NEW tb, NEW cl, NEW dl, NEW acc, NEW bcc, NEW p \in Peers, NEW t,
         TabsOK(tb, cl, acc), \A c \in Calls : Advances(cl[c], dl[c]),
         acc \subseteq bcc,
         TabOK(t, p, dl, bcc),
         \A q \in Peers \ {p} :
           tb[q].flight => dl[tb[q].cur].out \in {"dialing", "up"},
         NEW u, u = Put(tb, p, t)
  PROVE  /\ TabsOK(u, dl, bcc)
         /\ \A q \in Peers : u[q] = IF q = p THEN t ELSE tb[q]
PROOF
<1>1. tb = [q \in Peers |-> tb[q]]
  BY DEF TabsOK
<1>2. u = [q \in Peers |-> u[q]]
      /\ \A q \in Peers : u[q] = IF q = p THEN t ELSE tb[q]
  BY <1>1 DEF Put
<1>3. ASSUME NEW q \in Peers
      PROVE  TabOK(u[q], q, dl, bcc)
  <2>1. CASE q = p
    BY <1>2, <2>1
  <2>2. CASE q # p
    <3>1. TabOK(tb[q], q, cl, acc) /\ u[q] = tb[q]
      BY <1>2, <2>2 DEF TabsOK
    <3>2. TabOK(tb[q], q, dl, bcc)
      BY <2>2, <3>1, TabKept
    <3>3. QED
      BY <3>1, <3>2
  <2>3. QED
    BY <2>1, <2>2
<1>4. TabsOK(u, dl, bcc)
  BY <1>2, <1>3 DEF TabsOK
<1>5. QED
  BY <1>2, <1>4
-----------------------------------------------------------------------------
(* The two ends of calls *)

LEMMA EndKept ==
  ASSUME NEW c, NEW k, NEW m, NEW tb, NEW ub, NEW cd, NEW de, NEW lost, NEW most,
         BothOrShut(c, k, tb, cd, lost), cd \subseteq de, lost \subseteq most,
         m.from = k.from, m.to = k.to,
         m.out \in {"up", "done"} => k.out \in {"up", "done"},
         HasIt(ub[k.from], k.from, m, c) <=> HasIt(tb[k.from], k.from, k, c),
         HasIt(ub[k.to], k.to, m, c) <=> HasIt(tb[k.to], k.to, k, c)
  PROVE  BothOrShut(c, m, ub, de, most)
PROOF
<1>1. Shut(k, c, cd) => Shut(m, c, de)
  BY DEF Shut
<1>2. QED
  BY <1>1 DEF BothOrShut

(* The tab of p drops some of what it held, which can be seen. *)
LEMMA EndsStep ==
  ASSUME NEW cl, NEW tb, NEW cd, NEW de, NEW lost, NEW most,
         EndsOK(cl, tb, cd, lost), cd \subseteq de, lost \subseteq most,
         CallsOK(cl), tb = [q \in Peers |-> tb[q]],
         NEW p \in Peers, NEW t, NEW ub, ub = Put(tb, p, t),
         {t.live, t.pend} \subseteq {None, tb[p].live, tb[p].pend},
         \A c \in Calls : c \in {tb[p].live, tb[p].pend} \ {t.live, t.pend}
                            => Shut(cl[c], c, de) \/ c \in most
  PROVE  EndsOK(cl, ub, de, most)
PROOF
<1>1. \A q \in Peers : ub[q] = IF q = p THEN t ELSE tb[q]
  BY DEF Put
<1>2. ASSUME NEW c \in Calls
      PROVE  BothOrShut(c, cl[c], ub, de, most)
  <2>1. BothOrShut(c, cl[c], tb, cd, lost)
    BY DEF EndsOK
  <2>2. CASE Shut(cl[c], c, de) \/ c \in most
    BY <2>2 DEF BothOrShut
  <2>3. CASE cl[c].out = "unused"
    BY <2>3 DEF BothOrShut
  <2>4. CASE ~(Shut(cl[c], c, de) \/ c \in most) /\ cl[c].out # "unused"
    <3>1. c # None /\ cl[c].from \in Peers /\ cl[c].to \in Peers
      BY <2>4, NoNone DEF CallsOK, CallOK
    <3>2. c \in {t.live, t.pend} <=> c \in {tb[p].live, tb[p].pend}
      BY <2>4, <3>1
    <3>3. \A q \in Peers : HasIt(ub[q], q, cl[c], c) <=> HasIt(tb[q], q, cl[c], c)
      BY <1>1, <3>2 DEF HasIt
    <3>4. /\ HasIt(ub[cl[c].from], cl[c].from, cl[c], c)
             <=> HasIt(tb[cl[c].from], cl[c].from, cl[c], c)
          /\ HasIt(ub[cl[c].to], cl[c].to, cl[c], c)
             <=> HasIt(tb[cl[c].to], cl[c].to, cl[c], c)
      BY <3>1, <3>3
    <3>5. QED
      BY <2>1, <3>4, EndKept
  <2>5. QED
    BY <2>2, <2>3, <2>4
<1>3. QED
  BY <1>2 DEF EndsOK

-----------------------------------------------------------------------------
(* Accept tasks *)

LEMMA PutSame ==
  ASSUME NEW S, NEW f, f = [x \in S |-> f[x]], NEW x \in S
  PROVE  f = Put(f, x, f[x])
PROOF BY DEF Put

LEMMA AcceptsStep ==
  ASSUME NEW ac, NEW tb, NEW cl, NEW df, AcceptsOK(ac, tb, cl, df),
         tb = [q \in Peers |-> tb[q]],
         NEW p \in Peers, NEW t, NEW ub, ub = Put(tb, p, t),
         NEW n \in Nat, NEW bc, bc = Put(ac, p, n),
         NEW dl, NEW ef, df \subseteq ef,
         Listens(t, p, n, dl, ef),
         \A q \in Peers \ {p}, c \in Calls :
           cl[c].to = q /\ cl[c].inn = "arriving" =>
             dl[c].to = q /\ dl[c].inn = "arriving"
  PROVE  AcceptsOK(bc, ub, dl, ef)
PROOF
<1>1. /\ bc \in [Peers -> Nat]
      /\ \A q \in Peers : ub[q] = (IF q = p THEN t ELSE tb[q])
                          /\ bc[q] = (IF q = p THEN n ELSE ac[q])
  BY DEF AcceptsOK, Put
<1>2. ASSUME NEW q \in Peers
      PROVE  Listens(ub[q], q, bc[q], dl, ef)
  <2>1. CASE q = p
    BY <1>1, <2>1
  <2>2. CASE q # p
    <3>1. Listens(tb[q], q, ac[q], cl, df) /\ ub[q] = tb[q] /\ bc[q] = ac[q]
      BY <1>1, <2>2 DEF AcceptsOK
    <3>2. QED
      BY <2>2, <3>1 DEF Listens
  <2>3. QED
    BY <2>1, <2>2
<1>3. QED
  BY <1>1, <1>2 DEF AcceptsOK

-----------------------------------------------------------------------------
(* Invitations *)

(* A call that is through carries no proof after it carried none. *)
Quieter(w, v, cl) ==
  \A c \in Calls, q \in Peers :
    cl[c].out = "done" /\ NoAuth(w[c][q]) => NoAuth(v[c][q])

LEMMA NoAuthCat ==
  ASSUME NEW s \in Seq(Frame), NEW f \in Seq(Frame), NoAuth(s), NoAuth(f)
  PROVE  NoAuth(s \o f)
PROOF
<1>1. /\ Len(s) \in Nat /\ Len(f) \in Nat /\ Len(s \o f) = Len(s) + Len(f)
      /\ \A i \in 1..Len(s \o f) : (s \o f)[i] = IF i <= Len(s) THEN s[i]
                                                 ELSE f[i - Len(s)]
  OBVIOUS
<1>2. \A i \in 1..Len(s \o f) : i \in 1..Len(s) \/ i - Len(s) \in 1..Len(f)
  BY <1>1
<1>3. QED
  BY <1>1, <1>2 DEF NoAuth

LEMMA QuieterUnread ==
  ASSUME NEW w, NEW v, NEW cl, Quieter(w, v, cl), NEW cs, NEW p
  PROVE  Quieter(w, Unread(v, cs, p), cl)
PROOF
<1>1. NoAuth(<<>>)
  BY DEF NoAuth
<1>2. \A c \in Calls, q \in Peers : Unread(v, cs, p)[c][q] \in {<<>>, v[c][q]}
  BY DEF Unread
<1>3. QED
  BY <1>1, <1>2 DEF Quieter

(* What p has issued is kept while others' invitations are answered and    *)
(* used.                                                                   *)
LEMMA IssueKept ==
  ASSUME NEW i, NEW p \in Peers, NEW pend, NEW an, NEW bn, NEW rd, NEW se,
         IssueOK(i, p, pend, an, rd),
         \A n \in Invites : an[n] # None => bn[n] = an[n],
         \A n \in Invites : an[n] = p /\ Unused(n, rd) => Unused(n, se)
  PROVE  IssueOK(i, p, pend, bn, se)
PROOF
<1>1. p # None
  BY NoNone
<1>2. QED
  BY <1>1 DEF IssueOK, Issue

LEMMA ReservesKept ==
  ASSUME NEW i, NEW p \in Peers, NEW pend \in Calls \cup {None},
         NEW cl, NEW dl, NEW w, NEW v,
         Reserves(i, p, pend, cl, w), \A c \in Calls : Advances(cl[c], dl[c]),
         Quieter(w, v, cl)
  PROVE  Reserves(i, p, pend, dl, v)
PROOF
<1>1. CASE i.state = "Reserved"
  <2>1. pend \in Calls /\ cl[pend].out = "done" /\ NoAuth(w[pend][p])
    BY <1>1 DEF Reserves
  <2>2. cl[pend] # UnusedCall
    BY <2>1 DEF UnusedCall
  <2>3. dl[pend].out = "done"
    BY <2>1, <2>2 DEF Advances
  <2>4. NoAuth(v[pend][p])
    BY <2>1 DEF Quieter
  <2>5. QED
    BY <1>1, <2>1, <2>3, <2>4 DEF Reserves
<1>2. CASE i.state # "Reserved"
  BY <1>2 DEF Reserves
<1>3. QED
  BY <1>1, <1>2

LEMMA IssuedStep ==
  ASSUME NEW is, NEW tb, NEW an, NEW rd, NEW cl, NEW w, NEW bn, NEW se, NEW dl, NEW v,
         IssuedOK(is, tb, an, rd, cl, w), tb = [q \in Peers |-> tb[q]],
         \A q \in Peers : tb[q].pend \in Calls \cup {None},
         NEW p \in Peers, NEW t, NEW ub, ub = Put(tb, p, t),
         NEW i, NEW js, js = Put(is, p, i),
         IssueOK(i, p, t.pend, bn, se), Reserves(i, p, t.pend, dl, v),
         \A c \in Calls : Advances(cl[c], dl[c]), Quieter(w, v, cl),
         \A n \in Invites : an[n] # None => bn[n] = an[n],
         \A n \in Invites : an[n] # p /\ Unused(n, rd) => Unused(n, se)
  PROVE  IssuedOK(js, ub, bn, se, dl, v)
PROOF
<1>1. /\ is = [q \in Peers |-> is[q]]
      /\ \A q \in Peers : /\ IssueOK(is[q], q, tb[q].pend, an, rd)
                          /\ Reserves(is[q], q, tb[q].pend, cl, w)
  BY DEF IssuedOK
<1>2. /\ js = [q \in Peers |-> js[q]]
      /\ \A q \in Peers : ub[q] = (IF q = p THEN t ELSE tb[q])
                          /\ js[q] = (IF q = p THEN i ELSE is[q])
  BY <1>1 DEF Put
<1>3. ASSUME NEW q \in Peers
      PROVE  /\ IssueOK(js[q], q, ub[q].pend, bn, se)
             /\ Reserves(js[q], q, ub[q].pend, dl, v)
  <2>1. CASE q = p
    BY <1>2, <2>1
  <2>2. CASE q # p
    <3>1. ub[q] = tb[q] /\ js[q] = is[q]
      BY <1>2, <2>2
    <3>2. \A n \in Invites : an[n] = q /\ Unused(n, rd) => Unused(n, se)
      BY <2>2
    <3>3. IssueOK(is[q], q, tb[q].pend, bn, se)
      BY <1>1, <3>2, IssueKept
    <3>4. Reserves(is[q], q, tb[q].pend, dl, v)
      BY <1>1, ReservesKept
    <3>5. QED
      BY <3>1, <3>3, <3>4
  <2>3. QED
    BY <2>1, <2>2
<1>4. QED
  BY <1>2, <1>3 DEF IssuedOK
-----------------------------------------------------------------------------
(* The state *)

LEMMA Peer ==
  ASSUME LInv, NEW p \in Peers
  PROVE  /\ tab = [q \in Peers |-> tab[q]]
         /\ TabOK(tab[p], p, call, accepted)
         /\ tab[p] \in Tab
         /\ tab[p].live \in Calls \cup {None} /\ tab[p].pend \in Calls \cup {None}
         /\ tab[p].cur \in Calls \cup {None}
         /\ issued = [q \in Peers |-> issued[q]]
         /\ IssueOK(issued[p], p, tab[p].pend, answered, redeemed)
         /\ Reserves(issued[p], p, tab[p].pend, call, wire)
         /\ accepts \in [Peers -> Nat] /\ accepts[p] \in Nat
         /\ access[p] \in [outgoing : Invites \cup {None},
                           request : Invites \cup {None}]
PROOF
<1>1. tab = [q \in Peers |-> tab[q]] /\ TabOK(tab[p], p, call, accepted)
  BY DEF LInv, TabsOK
<1>2. tab[p] \in Tab
  BY <1>1 DEF TabOK
<1>3. /\ tab[p].live \in Calls \cup {None} /\ tab[p].pend \in Calls \cup {None}
      /\ tab[p].cur \in Calls \cup {None}
  BY <1>2, TabFields
<1>4. /\ issued = [q \in Peers |-> issued[q]]
      /\ IssueOK(issued[p], p, tab[p].pend, answered, redeemed)
      /\ Reserves(issued[p], p, tab[p].pend, call, wire)
  BY DEF LInv, IssuedOK
<1>5. accepts \in [Peers -> Nat]
  BY DEF LInv, AcceptsOK
<1>6. QED
  BY <1>1, <1>2, <1>3, <1>4, <1>5 DEF LInv, AccessOK

(* The record of an invitation with other fields. *)
LEMMA IssueOne ==
  ASSUME NEW i, DOMAIN i = {"id", "state", "pending"}, NEW v
  PROVE  /\ [i EXCEPT !.id = v] = [id |-> v, state |-> i.state, pending |-> i.pending]
         /\ [i EXCEPT !.state = v] = [id |-> i.id, state |-> v, pending |-> i.pending]
         /\ [i EXCEPT !.pending = v] = [id |-> i.id, state |-> i.state, pending |-> v]
PROOF
<1>1. [i EXCEPT !.id = v] = [id |-> v, state |-> i.state, pending |-> i.pending]
  OBVIOUS
<1>2. [i EXCEPT !.state = v] = [id |-> i.id, state |-> v, pending |-> i.pending]
  OBVIOUS
<1>3. [i EXCEPT !.pending = v] = [id |-> i.id, state |-> i.state, pending |-> v]
  OBVIOUS
<1>4. QED
  BY <1>1, <1>2, <1>3

LEMMA IssueEdit ==
  ASSUME NEW i \in Issue, NEW s, NEW n
  PROVE  [i EXCEPT !.state = s, !.pending = n]
           = [id |-> i.id, state |-> s, pending |-> n]
PROOF
<1> DEFINE a == [i EXCEPT !.state = s]
<1>1. DOMAIN i = {"id", "state", "pending"}
  BY DEF Issue
<1>2. a = [id |-> i.id, state |-> s, pending |-> i.pending]
  BY <1>1, IssueOne
<1>3. [i EXCEPT !.state = s, !.pending = n] = [a EXCEPT !.pending = n]
  OBVIOUS
<1> HIDE DEF a
<1>4. /\ DOMAIN a = {"id", "state", "pending"}
      /\ a.id = i.id /\ a.state = s
      /\ a.pending = i.pending
  BY <1>2
<1>5. [a EXCEPT !.pending = n] = [id |-> i.id, state |-> s, pending |-> n]
  BY <1>4, IssueOne
<1>6. QED
  BY <1>3, <1>5

LEMMA IssueAnswered ==
  ASSUME NEW i \in Issue, NEW n, NEW s
  PROVE  [i EXCEPT !.id = n, !.state = s]
           = [id |-> n, state |-> s, pending |-> i.pending]
PROOF
<1> DEFINE a == [i EXCEPT !.id = n]
<1>1. DOMAIN i = {"id", "state", "pending"}
  BY DEF Issue
<1>2. a = [id |-> n, state |-> i.state, pending |-> i.pending]
  BY <1>1, IssueOne
<1>3. [i EXCEPT !.id = n, !.state = s] = [a EXCEPT !.state = s]
  OBVIOUS
<1> HIDE DEF a
<1>4. /\ DOMAIN a = {"id", "state", "pending"}
      /\ a.id = n /\ a.state = i.state
      /\ a.pending = i.pending
  BY <1>2
<1>5. [a EXCEPT !.state = s] = [id |-> n, state |-> s, pending |-> i.pending]
  BY <1>4, IssueOne
<1>6. QED
  BY <1>3, <1>5

LEMMA IssueSettled ==
  ASSUME NEW i \in Issue, NEW n, NEW s
  PROVE  [i EXCEPT !.pending = n, !.state = s]
           = [id |-> i.id, state |-> s, pending |-> n]
PROOF
<1> DEFINE a == [i EXCEPT !.pending = n]
<1>1. DOMAIN i = {"id", "state", "pending"}
  BY DEF Issue
<1>2. a = [id |-> i.id, state |-> i.state, pending |-> n]
  BY <1>1, IssueOne
<1>3. [i EXCEPT !.pending = n, !.state = s] = [a EXCEPT !.state = s]
  OBVIOUS
<1> HIDE DEF a
<1>4. /\ DOMAIN a = {"id", "state", "pending"}
      /\ a.id = i.id /\ a.state = i.state
      /\ a.pending = n
  BY <1>2
<1>5. [a EXCEPT !.state = s] = [id |-> i.id, state |-> s, pending |-> n]
  BY <1>4, IssueOne
<1>6. QED
  BY <1>3, <1>5

LEMMA AllPends ==
  ASSUME LInv
  PROVE  /\ tab = [q \in Peers |-> tab[q]]
         /\ \A q \in Peers : tab[q].pend \in Calls \cup {None}
PROOF
<1>1. \A q \in Peers : tab[q].pend \in Calls \cup {None}
  BY Peer
<1>2. QED
  BY <1>1 DEF LInv, TabsOK

LEMMA NoAdvance ==
  ASSUME NEW cl
  PROVE  \A c \in Calls : Advances(cl[c], cl[c])
PROOF BY DEF Advances

LEMMA QuieterSelf ==
  ASSUME NEW w, NEW cl
  PROVE  Quieter(w, w, cl)
PROOF BY DEF Quieter

(* What p has issued changes, and nothing of the sessions. *)
LEMMA IssuedAlone ==
  ASSUME LInv, NEW p \in Peers, NEW i, NEW bn,
         IssueOK(i, p, tab[p].pend, bn, redeemed),
         Reserves(i, p, tab[p].pend, call, wire),
         \A n \in Invites : answered[n] # None => bn[n] = answered[n]
  PROVE  IssuedOK(Put(issued, p, i), tab, bn, redeemed, call, wire)
PROOF
<1>1. tab = Put(tab, p, tab[p])
  BY Peer, PutSame
<1>2. IssuedOK(issued, tab, answered, redeemed, call, wire)
  BY DEF LInv
<1> DEFINE js == Put(issued, p, i)
<1>3. js = Put(issued, p, i)
  OBVIOUS
<1> HIDE DEF js
<1>4. \A c \in Calls : Advances(call[c], call[c])
  BY NoAdvance
<1>5. Quieter(wire, wire, call)
  BY QuieterSelf
<1>6. IssuedOK(js, tab, bn, redeemed, call, wire)
  BY <1>1, <1>2, <1>3, <1>4, <1>5, AllPends, IssuedStep
<1>7. QED
  BY <1>6 DEF js

-----------------------------------------------------------------------------
(* The rendezvous requests and responses *)

LEMMA GenerateRequestKeeps ==
  ASSUME LInv, NEW p \in Peers, NEW n \in Invites, GenerateRequest(p, n)
  PROVE  LInv'
PROOF
<1>1. access' = Put(access, p, [outgoing |-> None, request |-> n])
  BY DEF GenerateRequest, Put
<1>2. AccessOK(access)'
  BY <1>1 DEF LInv, AccessOK, Put
<1>3. QED
  BY <1>2 DEF LInv, GenerateRequest, sessionVars, historyVars, Rest

LEMMA ConnectResponseBusyKeeps ==
  ASSUME LInv, NEW p \in Peers, ConnectResponseBusy(p)
  PROVE  LInv'
PROOF
<1>1. AccessOK(access)'
  BY DEF LInv, AccessOK, ConnectResponseBusy
<1>2. QED
  BY <1>1 DEF LInv, ConnectResponseBusy, sessionVars, historyVars, Rest

LEMMA AnswerRequestKeeps ==
  ASSUME LInv, NEW q \in Peers, NEW p \in Peers, AnswerRequest(q, p)
  PROVE  LInv'
PROOF
<1> DEFINE n == access[p].request
           i == [id |-> n, state |-> "Available", pending |-> issued[q].pending]
<1>1. n \in Invites /\ answered[n] = None
  BY Peer DEF AnswerRequest
<1>2. issued' = Put(issued, q, i) /\ answered' = Put(answered, n, q)
  <2>1. issued[q] \in Issue
    BY Peer DEF IssueOK
  <2>2. issued' = [issued EXCEPT ![q] = [issued[q] EXCEPT !.id = n,
                                                     !.state = "Available"]]
    BY DEF AnswerRequest
  <2>3. [issued[q] EXCEPT !.id = n, !.state = "Available"] = i
    BY <2>1, IssueAnswered
  <2>4. QED
    BY <2>2, <2>3, Zenon DEF AnswerRequest, Put
<1>3. answered' \in [Invites -> Peers \cup {None}] /\ answered'[n] = q
      /\ \A m \in Invites : m # n => answered'[m] = answered[m]
  BY <1>1, <1>2 DEF LInv, AnsweredOK, Put
<1> HIDE DEF n
<1>4. \A m \in Invites : answered[m] # None => answered'[m] = answered[m]
  BY <1>1, <1>3
<1>5. Unused(n, redeemed)
  BY <1>1 DEF LInv, RedeemedOK, Unused
<1>6. IssueOK(i, q, tab[q].pend, answered', redeemed)
  <2>1. IssueOK(issued[q], q, tab[q].pend, answered, redeemed)
    BY Peer
  <2>2. i.pending # None => i.pending # n
    BY <1>1, <2>1, NoNone DEF IssueOK
  <2>3. QED
    BY <1>1, <1>3, <1>4, <1>5, <2>1, <2>2, NoNone DEF IssueOK, Issue, IssuedState
<1>7. Reserves(i, q, tab[q].pend, call, wire)
  BY DEF Reserves
<1> HIDE DEF i
<1>8. IssuedOK(issued, tab, answered, redeemed, call, wire)'
  <2>1. UNCHANGED <<tab, redeemed, call, wire>>
    BY DEF AnswerRequest, sessionVars
  <2>2. IssuedOK(Put(issued, q, i), tab, answered', redeemed, call, wire)
    BY <1>4, <1>6, <1>7, IssuedAlone
  <2>3. QED
    BY <1>2, <2>1, <2>2
<1>9. RedeemedOK(redeemed, answered)'
  <2>1. redeemed' = redeemed
    BY DEF AnswerRequest
  <2>2. \A x \in redeemed : x[1] \in Invites /\ answered[x[1]] # None
    BY DEF LInv, RedeemedOK
  <2>3. QED
    BY <1>4, <2>1, <2>2 DEF LInv, RedeemedOK
<1>10. QED
  BY <1>3, <1>8, <1>9 DEF LInv, AnsweredOK, AnswerRequest, sessionVars,
                          historyVars, Rest

LEMMA RevokeKeeps ==
  ASSUME LInv, NEW p \in Peers, Revoke(p)
  PROVE  LInv'
PROOF
<1> DEFINE i == [id |-> issued[p].id, state |-> "Revoked", pending |-> None]
<1>1. issued' = Put(issued, p, i)
  <2>1. issued[p] \in Issue
    BY Peer DEF IssueOK
  <2>2. issued' = [issued EXCEPT ![p] = [issued[p] EXCEPT !.state = "Revoked",
                                                     !.pending = None]]
    BY DEF Revoke
  <2>3. [issued[p] EXCEPT !.state = "Revoked", !.pending = None] = i
    BY <2>1, IssueEdit
  <2>4. QED
    BY <2>2, <2>3, Zenon DEF Put
<1>2. IssueOK(i, p, tab[p].pend, answered, redeemed)
  <2>1. IssueOK(issued[p], p, tab[p].pend, answered, redeemed)
    BY Peer
  <2>2. QED
    BY <2>1 DEF IssueOK, Issue, IssuedState
<1>3. Reserves(i, p, tab[p].pend, call, wire)
  BY DEF Reserves
<1> HIDE DEF i
<1>4. IssuedOK(issued, tab, answered, redeemed, call, wire)'
  <2>1. UNCHANGED <<tab, redeemed, answered, call, wire>>
    BY DEF Revoke, sessionVars
  <2>2. IssuedOK(Put(issued, p, i), tab, answered, redeemed, call, wire)
    BY <1>2, <1>3, IssuedAlone
  <2>3. QED
    BY <1>1, <2>1, <2>2
<1>5. AccessOK(access)'
  BY DEF LInv, AccessOK, Revoke, NoAccess
<1>6. QED
  BY <1>4, <1>5 DEF LInv, Revoke, sessionVars, historyVars, Rest

LEMMA ExpireKeeps ==
  ASSUME LInv, NEW n \in Invites, Expire(n)
  PROVE  LInv'
PROOF BY DEF LInv, Expire, sessionVars, historyVars, Rest

-----------------------------------------------------------------------------
(* A step of one tab in which no call goes on *)

LEMMA PeerStep ==
  ASSUME LInv, NEW p \in Peers, NEW t, NEW n \in Nat, NEW i,
         call' = call, tab' = Put(tab, p, t), accepts' = Put(accepts, p, n),
         issued' = Put(issued, p, i), answered' = answered,
         closed \subseteq closed', silent \subseteq silent',
         accepted \subseteq accepted', abandoned \subseteq abandoned',
         deaf \subseteq deaf',
         TabOK(t, p, call, accepted'),
         WiresOK(wire', call, closed', accepted'), Quieter(wire, wire', call),
         {t.live, t.pend} \subseteq {None, tab[p].live, tab[p].pend},
         \A c \in Calls : c \in {tab[p].live, tab[p].pend} \ {t.live, t.pend}
                            => Shut(call[c], c, closed') \/ c \in abandoned',
         Listens(t, p, n, call, deaf'),
         IssueOK(i, p, t.pend, answered, redeemed'),
         Reserves(i, p, t.pend, call, wire'),
         RedeemedOK(redeemed', answered),
         \A m \in Invites : answered[m] # p /\ Unused(m, redeemed)
                              => Unused(m, redeemed'),
         AccessOK(access'), Rest'
  PROVE  LInv'
PROOF
<1>1. \A c \in Calls : Advances(call[c], call[c])
  BY NoAdvance
<1>2. /\ CallsOK(call) /\ TabsOK(tab, call, accepted)
      /\ EndsOK(call, tab, closed, silent \cup abandoned)
      /\ AcceptsOK(accepts, tab, call, deaf)
      /\ IssuedOK(issued, tab, answered, redeemed, call, wire)
      /\ AnsweredOK(answered)
  BY DEF LInv
<1>3. TabsOK(tab', call, accepted')
  <2>1. \A q \in Peers : tab[q].flight => call[tab[q].cur].out \in {"dialing", "up"}
    BY Peer DEF TabOK, InFlight
  <2>2. QED
    BY <1>1, <1>2, <2>1, TabsStep
<1>4. EndsOK(call, tab', closed', silent' \cup abandoned')
  <2>1. silent \cup abandoned \subseteq silent' \cup abandoned'
    OBVIOUS
  <2>2. tab = [q \in Peers |-> tab[q]]
    BY Peer
  <2>3. \A c \in Calls : c \in {tab[p].live, tab[p].pend} \ {t.live, t.pend}
                           => Shut(call[c], c, closed')
                              \/ c \in silent' \cup abandoned'
    OBVIOUS
  <2>4. QED
    BY <1>2, <2>1, <2>2, <2>3, EndsStep
<1>5. AcceptsOK(accepts', tab', call, deaf')
  <2>1. tab = [q \in Peers |-> tab[q]]
    BY Peer
  <2>2. QED
    BY <1>2, <2>1, AcceptsStep
<1>6. IssuedOK(issued', tab', answered, redeemed', call, wire')
  BY <1>1, <1>2, AllPends, IssuedStep
<1>7. QED
  BY <1>2, <1>3, <1>4, <1>5, <1>6 DEF LInv

LEMMA HeldEnds ==
  ASSUME LInv, NEW p \in Peers, NEW c, c # None, c \in {tab[p].live, tab[p].pend}
  PROVE  /\ c \in Calls /\ CallOK(call[c])
         /\ p \in {call[c].from, call[c].to}
         /\ Other(c, p) \in Peers \ {p} /\ Other(c, p) \in {call[c].from, call[c].to}
         /\ {call[c].from, call[c].to} = {p, Other(c, p)}
         /\ tab[p].up /\ ~tab[p].flight
         /\ \A cd : <<c, p>> \in cd \/ <<c, Other(c, p)>> \in cd <=> Shut(call[c], c, cd)
         /\ FramesOK(wire[c][p], call[c], p, c, closed, accepted)
PROOF
<1>1. c \in Calls /\ TabOK(tab[p], p, call, accepted)
  BY Peer
<1>2. CallOK(call[c]) /\ call[c].out # "unused"
  <2>1. CallOK(call[c])
    BY <1>1 DEF LInv, CallsOK
  <2>2. call[c].out = "done" \/ call[c].inn = "done"
    BY <1>1 DEF TabOK, IsPending, IsLive
  <2>3. QED
    BY <2>1, <2>2 DEF CallOK, UnusedCall
<1>3. p \in {call[c].from, call[c].to} /\ tab[p].up /\ ~tab[p].flight
  BY <1>1 DEF TabOK, IsPending, IsLive, InFlight
<1>4. FramesOK(wire[c][p], call[c], p, c, closed, accepted)
  BY <1>1 DEF LInv, WiresOK
<1>5. QED
  BY <1>1, <1>2, <1>3, <1>4 DEF CallOK, Other, Shut

LEMMA DroppedTab ==
  ASSUME NEW t \in Tab, NEW r, r = Dropped(t)
  PROVE  /\ r \in Tab /\ r.up = t.up /\ r.flight = t.flight /\ r.cur = t.cur
         /\ r.live = None /\ r.pend = None /\ r.ready = FALSE /\ r.armed = TRUE
         /\ r.stored = t.stored
PROOF
<1>1. DOMAIN t = {"up", "live", "pend", "ready", "flight", "cur", "armed", "stored"}
  BY TabFields
<1>2. r \in Tab
  BY DEF Dropped, Tab
<1>3. QED
  BY <1>1, <1>2 DEF Dropped

(* The tab of p gives up c, which can be seen. *)
LEMMA DropStep ==
  ASSUME LInv, NEW p \in Peers, NEW c, c # None, c \in {tab[p].live, tab[p].pend},
         NEW n \in {1, 2}, Drops(p, c, n, wire),
         closed \subseteq closed', closed' \subseteq closed \cup Ends({c}, p),
         Shut(call[c], c, closed'),
         NEW i, issued' = Put(issued, p, i), i.state # "Reserved",
         IssueOK(i, p, None, answered, redeemed),
         UNCHANGED <<access, answered, expired, redeemed, historyVars>>
  PROVE  LInv'
PROOF
<1> DEFINE t == Dropped(tab[p])
           m == accepts[p] + n
<1>1. /\ tab' = Put(tab, p, t) /\ accepts' = Put(accepts, p, m)
      /\ wire' = Unread(wire, {c}, p)
      /\ UNCHANGED <<call, silent, access, answered, expired, redeemed, accepted,
                     abandoned, deaf>>
  BY DEF Drops, Put, historyVars
<1>2. /\ TabOK(tab[p], p, call, accepted) /\ tab[p] \in Tab
      /\ accepts[p] \in Nat /\ tab[p].live \in Calls \cup {None}
      /\ tab[p].pend \in Calls \cup {None}
  BY Peer
<1>3. m \in Nat /\ m > 0
  BY <1>2
<1>4. c \in Calls /\ ~tab[p].flight /\ tab[p].up
  BY HeldEnds
<1>5. /\ t \in Tab /\ t.up = tab[p].up /\ t.flight = tab[p].flight
      /\ t.live = None /\ t.pend = None /\ t.ready = FALSE
  BY <1>2, DroppedTab
<1> HIDE DEF t, m
<1>6. TabOK(t, p, call, accepted')
  BY <1>4, <1>5 DEF TabOK, InFlight, IsPending, IsLive
<1>7. WiresOK(wire', call, closed', accepted') /\ Quieter(wire, wire', call)
  <2>1. WiresOK(wire, call, closed, accepted)
    BY DEF LInv
  <2>2. \A b \in Calls : Advances(call[b], call[b])
    BY NoAdvance
  <2>3. WiresOK(wire, call, closed', accepted')
    BY <1>1, <2>1, <2>2, WiresKept
  <2>4. Quieter(wire, wire, call)
    BY QuieterSelf
  <2>5. QED
    BY <1>1, <2>3, <2>4, WiresUnread, QuieterUnread
<1>8. \A b \in Calls : b \in {tab[p].live, tab[p].pend} \ {t.live, t.pend}
                         => Shut(call[b], b, closed') \/ b \in abandoned'
  <2>1. tab[p].live = None \/ tab[p].pend = None
    BY <1>2 DEF TabOK, IsPending
  <2>2. QED
    BY <1>5, <2>1
<1>9. Listens(t, p, m, call, deaf')
  BY <1>3 DEF Listens
<1>10. IssueOK(i, p, t.pend, answered, redeemed') /\ Reserves(i, p, t.pend, call, wire')
  BY <1>1, <1>5 DEF Reserves
<1>11. RedeemedOK(redeemed', answered) /\ AccessOK(access') /\ Rest'
  BY <1>1, <1>4 DEF LInv, Rest, Ends
<1>12. {t.live, t.pend} \subseteq {None, tab[p].live, tab[p].pend}
  BY <1>5
<1>13. QED
  BY <1>1, <1>3, <1>6, <1>7, <1>8, <1>9, <1>10, <1>11, <1>12, PeerStep

(* A live stream leaves no invitation with a pending caller. *)
LEMMA LiveIssue ==
  ASSUME LInv, NEW p \in Peers, tab[p].pend = None
  PROVE  /\ issued[p].pending = None /\ issued[p].state # "Reserved"
         /\ IssueOK(issued[p], p, None, answered, redeemed)
         /\ issued = Put(issued, p, issued[p])
         /\ IssueOK([issued[p] EXCEPT !.pending = None], p, None, answered, redeemed)
         /\ [issued[p] EXCEPT !.pending = None] = issued[p]
PROOF
<1>1. /\ IssueOK(issued[p], p, None, answered, redeemed)
      /\ Reserves(issued[p], p, None, call, wire)
      /\ issued = [q \in Peers |-> issued[q]]
  BY Peer
<1>2. issued[p].pending = None /\ issued[p].state # "Reserved"
  BY <1>1 DEF IssueOK, Reserves
<1>3. issued = Put(issued, p, issued[p])
  BY <1>1, PutSame
<1>4. [issued[p] EXCEPT !.pending = None] = issued[p]
  <2>1. issued[p] \in Issue
    BY <1>1 DEF IssueOK
  <2> DEFINE i == issued[p]
  <2>2. i \in Issue /\ i.pending = None
    BY <1>2, <2>1
  <2> HIDE DEF i
  <2>3. [i EXCEPT !.pending = None] = i
    BY <2>2 DEF Issue
  <2>4. QED
    BY <2>3 DEF i
<1>5. QED
  BY <1>1, <1>2, <1>3, <1>4

LEMMA LivePend ==
  ASSUME LInv, NEW p \in Peers
  PROVE  tab[p].live # None => tab[p].pend = None
PROOF
<1>1. TabOK(tab[p], p, call, accepted)
  BY Peer
<1>2. QED
  BY <1>1 DEF TabOK, IsPending

LEMMA RearmsRange ==
  ASSUME NEW c, NEW p, NEW s
  PROVE  Rearms(c, p, s) \in {1, 2}
PROOF BY DEF Rearms

(* The invitation of a pending caller that is gone. *)
LEMMA ReleasedIssue ==
  ASSUME LInv, NEW p \in Peers
  PROVE  /\ IssueOK(Released(issued[p]), p, None, answered, redeemed)
         /\ Released(issued[p]).state # "Reserved"
PROOF
<1> DEFINE i == issued[p]
           s == IF i.pending # None /\ i.pending = i.id /\ i.state = "Reserved"
                THEN IF i.id \in expired THEN "Revoked" ELSE "Available"
                ELSE i.state
           r == [id |-> i.id, state |-> s, pending |-> None]
<1>1. /\ IssueOK(i, p, tab[p].pend, answered, redeemed)
      /\ Reserves(i, p, tab[p].pend, call, wire)
      /\ i \in Issue
  BY Peer DEF IssueOK
<1>2. /\ s \in IssuedState /\ s # "Reserved"
      /\ s = "Available" => i.state \in {"Available", "Reserved"}
  <2>1. i.state \in IssuedState
    BY <1>1 DEF Issue
  <2>2. QED
    BY <1>1, <2>1 DEF IssuedState, Reserves
<1>3. Released(i) = r
  <2> DEFINE j == [i EXCEPT !.pending = None]
  <2> HIDE DEF i, s
  <2>1. DOMAIN i = {"id", "state", "pending"}
    BY <1>1 DEF Issue
  <2>2. j = [id |-> i.id, state |-> i.state, pending |-> None]
    BY <2>1, IssueOne
  <2>3. /\ DOMAIN j = {"id", "state", "pending"} /\ j.state = i.state
        /\ j.id = i.id /\ j.pending = None
    BY <2>2
  <2>4. Released(i) = [j EXCEPT !.state = s]
    BY <2>3 DEF Released, s
  <2> HIDE DEF j
  <2>5. [j EXCEPT !.state = s] = r
    BY <2>3, IssueOne
  <2>6. QED
    BY <2>4, <2>5
<1> HIDE DEF i, s
<1>4. IssueOK(r, p, None, answered, redeemed)
  BY <1>1, <1>2, NoNone DEF IssueOK, Issue
<1>5. QED
  BY <1>2, <1>3, <1>4 DEF i

-----------------------------------------------------------------------------
(* The stream of a session or a call is given up *)

LEMMA LiveQuitKeeps ==
  ASSUME LInv, NEW p \in Peers, LiveQuit(p)
  PROVE  LInv'
PROOF
<1> DEFINE c == tab[p].live
           n == Rearms(c, p, Tail(wire[c][p]))
<1>1. /\ c # None /\ wire[c][p] # <<>> /\ Head(wire[c][p]).type = "QUIT"
      /\ Drops(p, c, n, wire)
      /\ UNCHANGED <<closed, rendezvousVars, historyVars>>
  BY DEF LiveQuit, LiveFrame
<1>2. n \in {1, 2}
  BY RearmsRange
<1> HIDE DEF n
<1>3. FramesOK(wire[c][p], call[c], p, c, closed, accepted)
  BY <1>1, HeldEnds
<1>4. Shut(call[c], c, closed')
  BY <1>1, <1>3, FramesRead
<1>5. issued' = Put(issued, p, issued[p]) /\ issued[p].state # "Reserved"
      /\ IssueOK(issued[p], p, None, answered, redeemed)
  BY <1>1, LivePend, LiveIssue DEF rendezvousVars
<1>6. UNCHANGED <<access, answered, expired, redeemed, historyVars, closed>>
  BY <1>1 DEF rendezvousVars
<1>7. c \in {tab[p].live, tab[p].pend}
  OBVIOUS
<1> HIDE DEF c
<1>8. QED
  BY <1>1, <1>2, <1>4, <1>5, <1>6, <1>7, DropStep

(* This end is closed too. *)
LEMMA LiveClosed ==
  ASSUME LInv, NEW p \in Peers, tab[p].live # None, NEW n \in {1, 2},
         Drops(p, tab[p].live, n, wire),
         closed' = closed \cup Ends({tab[p].live}, p),
         issued' = [issued EXCEPT ![p].pending = None] \/ issued' = issued,
         UNCHANGED <<access, answered, expired, redeemed, historyVars>>
  PROVE  LInv'
PROOF
<1> DEFINE c == tab[p].live
<1>1. /\ tab[p].pend = None /\ c # None /\ c \in {tab[p].live, tab[p].pend}
      /\ Drops(p, c, n, wire) /\ closed' = closed \cup Ends({c}, p)
  BY LivePend
<1>2. issued' = Put(issued, p, issued[p]) /\ issued[p].state # "Reserved"
      /\ IssueOK(issued[p], p, None, answered, redeemed)
  <2>1. issued' = Put(issued, p, issued[p])
    <3>1. [issued EXCEPT ![p].pending = None]
            = Put(issued, p, [issued[p] EXCEPT !.pending = None])
      BY DEF Put
    <3>2. QED
      BY <1>1, <3>1, LiveIssue
  <2>2. QED
    BY <1>1, <2>1, LiveIssue
<1>3. Shut(call[c], c, closed')
  <2>1. <<c, p>> \in closed'
    BY <1>1 DEF Ends
  <2>2. QED
    BY <1>1, <2>1, HeldEnds
<1> HIDE DEF c
<1>4. closed \subseteq closed' /\ closed' \subseteq closed \cup Ends({c}, p)
  BY <1>1
<1>5. QED
  BY <1>1, <1>2, <1>3, <1>4, DropStep

LEMMA HeartbeatTimeoutKeeps ==
  ASSUME LInv, NEW p \in Peers, HeartbeatTimeout(p)
  PROVE  LInv'
PROOF
<1> DEFINE n == Rearms(tab[p].live, p, <<>>)
<1>1. n \in {1, 2}
  BY RearmsRange
<1>2. /\ tab[p].live # None /\ Drops(p, tab[p].live, n, wire)
      /\ closed' = closed \cup Ends({tab[p].live}, p)
      /\ UNCHANGED <<rendezvousVars, historyVars>>
  BY DEF HeartbeatTimeout
<1> HIDE DEF n
<1>3. issued' = issued /\ UNCHANGED <<access, answered, expired, redeemed, historyVars>>
  BY <1>2 DEF rendezvousVars
<1>4. QED
  BY <1>1, <1>2, <1>3, LiveClosed

LEMMA LiveEndedKeeps ==
  ASSUME LInv, NEW p \in Peers, LiveEnded(p)
  PROVE  LInv'
PROOF
<1>1. /\ tab[p].live # None /\ Drops(p, tab[p].live, 1, wire)
      /\ closed' = closed \cup Ends({tab[p].live}, p)
      /\ UNCHANGED <<rendezvousVars, historyVars>>
  BY DEF LiveEnded
<1>2. issued' = issued /\ UNCHANGED <<access, answered, expired, redeemed, historyVars>>
  BY <1>1 DEF rendezvousVars
<1>3. QED
  BY <1>1, <1>2, LiveClosed

(* A pending call, whose end can be seen. *)
LEMMA PendingDropped ==
  ASSUME LInv, NEW p \in Peers, tab[p].pend # None, NEW n \in {1, 2},
         Drops(p, tab[p].pend, n, wire),
         closed' \in {closed, closed \cup Ends({tab[p].pend}, p)},
         Shut(call[tab[p].pend], tab[p].pend, closed'),
         issued' = [issued EXCEPT ![p] = Released(@)],
         UNCHANGED <<access, answered, expired, redeemed, historyVars>>
  PROVE  LInv'
PROOF
<1> DEFINE c == tab[p].pend
           i == Released(issued[p])
<1>1. /\ c # None /\ c \in {tab[p].live, tab[p].pend} /\ Drops(p, c, n, wire)
      /\ closed \subseteq closed' /\ closed' \subseteq closed \cup Ends({c}, p)
      /\ Shut(call[c], c, closed')
  OBVIOUS
<1>2. /\ issued' = Put(issued, p, i) /\ i.state # "Reserved"
      /\ IssueOK(i, p, None, answered, redeemed)
  BY ReleasedIssue DEF Put
<1> HIDE DEF c, i
<1>3. QED
  BY <1>1, <1>2, DropStep

LEMMA PendingQuitKeeps ==
  ASSUME LInv, NEW p \in Peers, PendingQuit(p)
  PROVE  LInv'
PROOF
<1> DEFINE c == tab[p].pend
           n == Rearms(c, p, Tail(wire[c][p]))
<1>1. /\ c # None /\ wire[c][p] # <<>> /\ Head(wire[c][p]).type = "QUIT"
      /\ Drops(p, c, n, wire)
      /\ issued' = [issued EXCEPT ![p] = Released(@)]
      /\ UNCHANGED <<closed, access, answered, expired, redeemed, historyVars>>
  BY DEF PendingQuit, PendingFrame
<1>2. n \in {1, 2}
  BY RearmsRange
<1> HIDE DEF n
<1>3. FramesOK(wire[c][p], call[c], p, c, closed, accepted)
  BY <1>1, HeldEnds
<1>4. Shut(call[c], c, closed')
  BY <1>1, <1>3, FramesRead
<1>5. QED
  BY <1>1, <1>2, <1>4, PendingDropped

LEMMA PendingEndedKeeps ==
  ASSUME LInv, NEW p \in Peers, PendingEnded(p)
  PROVE  LInv'
PROOF
<1> DEFINE c == tab[p].pend
<1>1. /\ c # None /\ Ended(c, p) /\ Drops(p, c, 1, wire)
      /\ closed' \in {closed, closed \cup Ends({c}, p)}
      /\ issued' = [issued EXCEPT ![p] = Released(@)]
      /\ UNCHANGED <<access, answered, expired, redeemed, historyVars>>
  BY DEF PendingEnded
<1>2. <<c, p>> \in closed' \/ <<c, Other(c, p)>> \in closed'
  BY <1>1 DEF Ended, IsClosed
<1>3. Shut(call[c], c, closed')
  BY <1>1, <1>2, HeldEnds
<1>4. QED
  BY <1>1, <1>3, PendingDropped

-----------------------------------------------------------------------------
(* A tab that gives nothing up *)

LEMMA TabStep ==
  ASSUME LInv, NEW p \in Peers, NEW t, NEW n \in Nat,
         call' = call, tab' = Put(tab, p, t), accepts' = Put(accepts, p, n),
         UNCHANGED <<closed, silent, access, issued, answered, expired, redeemed,
                     accepted, abandoned>>,
         deaf \subseteq deaf', deaf' \subseteq Peers,
         TabOK(t, p, call, accepted),
         WiresOK(wire', call, closed, accepted), Quieter(wire, wire', call),
         t.live = tab[p].live, t.pend = tab[p].pend,
         Listens(t, p, n, call, deaf')
  PROVE  LInv'
PROOF
<1> DEFINE i == issued[p]
<1>1. /\ issued = Put(issued, p, i)
      /\ IssueOK(i, p, t.pend, answered, redeemed)
      /\ Reserves(i, p, t.pend, call, wire)
      /\ tab[p].pend \in Calls \cup {None}
  BY Peer, PutSame
<1>2. \A c \in Calls : Advances(call[c], call[c])
  BY NoAdvance
<1>3. issued' = Put(issued, p, i)
  BY <1>1
<1> HIDE DEF i
<1>4. Reserves(i, p, t.pend, call, wire')
  BY <1>1, <1>2, ReservesKept
<1>5. /\ {t.live, t.pend} \subseteq {None, tab[p].live, tab[p].pend}
      /\ \A c \in Calls : c \in {tab[p].live, tab[p].pend} \ {t.live, t.pend}
                            => Shut(call[c], c, closed') \/ c \in abandoned'
  OBVIOUS
<1>6. /\ RedeemedOK(redeemed', answered) /\ AccessOK(access') /\ Rest'
  BY DEF LInv, Rest
<1>7. /\ closed \subseteq closed' /\ silent \subseteq silent'
      /\ accepted \subseteq accepted' /\ abandoned \subseteq abandoned'
      /\ answered' = answered
      /\ TabOK(t, p, call, accepted')
      /\ WiresOK(wire', call, closed', accepted')
      /\ IssueOK(i, p, t.pend, answered, redeemed')
      /\ \A m \in Invites : answered[m] # p /\ Unused(m, redeemed)
                              => Unused(m, redeemed')
  BY <1>1
<1>8. QED
  BY <1>3, <1>4, <1>5, <1>6, <1>7, PeerStep

LEMMA WiresSame ==
  ASSUME LInv
  PROVE  WiresOK(wire, call, closed, accepted) /\ Quieter(wire, wire, call)
PROOF BY QuieterSelf DEF LInv

LEMMA RearmAcceptKeeps ==
  ASSUME LInv, NEW p \in Peers, RearmAccept(p)
  PROVE  LInv'
PROOF
<1> DEFINE t == [tab[p] EXCEPT !.armed = TRUE]
           n == accepts[p] + 1
<1>1. /\ tab' = Put(tab, p, t) /\ accepts' = Put(accepts, p, n)
      /\ UNCHANGED <<call, wire, closed, silent, access, issued, answered, expired,
                     redeemed, accepted, abandoned, deaf>>
  BY DEF RearmAccept, Put, rendezvousVars, historyVars
<1>2. TabOK(tab[p], p, call, accepted) /\ tab[p] \in Tab /\ n \in Nat /\ n > 0
  BY Peer
<1>3. /\ t \in Tab /\ t.up = tab[p].up /\ t.live = tab[p].live /\ t.pend = tab[p].pend
      /\ t.flight = tab[p].flight /\ t.cur = tab[p].cur /\ t.ready = tab[p].ready
  BY <1>2, TabFields DEF Tab
<1>4. tab[p].pend = None
  BY DEF RearmAccept
<1> HIDE DEF t, n
<1>5. TabOK(t, p, call, accepted)
  BY <1>2, <1>3, <1>4 DEF TabOK, InFlight, IsPending, IsLive
<1>6. Listens(t, p, n, call, deaf')
  BY <1>2 DEF Listens
<1>7. WiresOK(wire', call, closed, accepted) /\ Quieter(wire, wire', call)
  BY <1>1, WiresSame
<1>8. deaf \subseteq deaf' /\ deaf' \subseteq Peers
  BY <1>1 DEF LInv, Rest
<1>9. QED
  BY <1>1, <1>2, <1>3, <1>5, <1>6, <1>7, <1>8, TabStep

LEMMA AcceptFailsKeeps ==
  ASSUME LInv, NEW p \in Peers, AcceptFails(p)
  PROVE  LInv'
PROOF
<1> DEFINE t == tab[p]
           n == accepts[p] - 1
<1>1. /\ accepts' = Put(accepts, p, n) /\ accepts[p] > 0 /\ deaf' = deaf \cup {p}
      /\ UNCHANGED <<tab, call, wire, closed, silent, access, issued, answered,
                     expired, redeemed, accepted, abandoned>>
  BY DEF AcceptFails, Put, rendezvousVars
<1>2. /\ TabOK(t, p, call, accepted) /\ tab = Put(tab, p, t)
      /\ accepts[p] \in Nat
  BY Peer, PutSame
<1>3. n \in Nat
  BY <1>1, <1>2
<1> HIDE DEF n
<1>4. Listens(t, p, n, call, deaf')
  BY <1>1 DEF Listens
<1>5. WiresOK(wire', call, closed, accepted) /\ Quieter(wire, wire', call)
  BY <1>1, WiresSame
<1>6. deaf \subseteq deaf' /\ deaf' \subseteq Peers
  BY <1>1 DEF LInv, Rest
<1>7. tab' = Put(tab, p, t)
  BY <1>1, <1>2
<1>8. QED
  BY <1>1, <1>2, <1>3, <1>4, <1>5, <1>6, <1>7, TabStep

(* The locked peer changes. *)
LEMMA StoredStep ==
  ASSUME LInv, NEW p \in Peers, NEW q \in Peers \cup {None},
         tab' = [tab EXCEPT ![p].stored = q],
         UNCHANGED <<call, accepts, wire, closed, silent, rendezvousVars, historyVars>>
  PROVE  LInv'
PROOF
<1> DEFINE t == [tab[p] EXCEPT !.stored = q]
           n == accepts[p]
<1>1. /\ tab' = Put(tab, p, t)
      /\ UNCHANGED <<call, accepts, wire, closed, silent, access, issued, answered,
                     expired, redeemed, accepted, abandoned, deaf>>
  BY DEF Put, rendezvousVars, historyVars
<1>2. /\ TabOK(tab[p], p, call, accepted) /\ tab[p] \in Tab
      /\ accepts \in [Peers -> Nat]
  BY Peer
<1>3. /\ t \in Tab /\ t.up = tab[p].up /\ t.live = tab[p].live /\ t.pend = tab[p].pend
      /\ t.flight = tab[p].flight /\ t.cur = tab[p].cur /\ t.ready = tab[p].ready
      /\ t.armed = tab[p].armed
  BY <1>2, TabFields DEF Tab
<1>4. n \in Nat /\ accepts' = Put(accepts, p, n) /\ Listens(tab[p], p, n, call, deaf)
  BY <1>1, <1>2, PutSame DEF LInv, AcceptsOK
<1> HIDE DEF t, n
<1>5. TabOK(t, p, call, accepted)
  BY <1>2, <1>3 DEF TabOK, InFlight, IsPending, IsLive
<1>6. Listens(t, p, n, call, deaf')
  BY <1>1, <1>3, <1>4 DEF Listens
<1>7. WiresOK(wire', call, closed, accepted) /\ Quieter(wire, wire', call)
  BY <1>1, WiresSame
<1>8. deaf \subseteq deaf' /\ deaf' \subseteq Peers
  BY <1>1 DEF LInv, Rest
<1>9. QED
  BY <1>1, <1>3, <1>4, <1>5, <1>6, <1>7, <1>8, TabStep

LEMMA LockKeeps ==
  ASSUME LInv, NEW p \in Peers, Lock(p)
  PROVE  LInv'
PROOF
<1> DEFINE q == Other(tab[p].live, p)
<1>1. q \in Peers
  BY HeldEnds DEF Lock
<1>2. /\ tab' = [tab EXCEPT ![p].stored = q]
      /\ UNCHANGED <<call, accepts, wire, closed, silent, rendezvousVars, historyVars>>
  BY DEF Lock
<1> HIDE DEF q
<1>3. QED
  BY <1>1, <1>2, StoredStep

LEMMA UnlockKeeps ==
  ASSUME LInv, NEW p \in Peers, Unlock(p)
  PROVE  LInv'
PROOF
<1>1. /\ tab' = [tab EXCEPT ![p].stored = None]
      /\ UNCHANGED <<call, accepts, wire, closed, silent, rendezvousVars, historyVars>>
  BY DEF Unlock
<1>2. QED
  BY <1>1, StoredStep

LEMMA SamInitializedKeeps ==
  ASSUME LInv, NEW p \in Peers, SamInitialized(p)
  PROVE  LInv'
PROOF
<1> DEFINE t == OpenTab(tab[p].stored)
<1>1. /\ tab' = Put(tab, p, t) /\ accepts' = Put(accepts, p, 1)
      /\ UNCHANGED <<call, wire, closed, silent, access, issued, answered, expired,
                     redeemed, accepted, abandoned, deaf>>
  BY DEF SamInitialized, Put, rendezvousVars, historyVars
<1>2. TabOK(tab[p], p, call, accepted) /\ tab[p] \in Tab /\ ~tab[p].up
  BY Peer DEF SamInitialized
<1>3. tab[p].live = None /\ tab[p].pend = None
  BY <1>2 DEF TabOK, IsPending, IsLive
<1>4. /\ t \in Tab /\ t.live = None /\ t.pend = None /\ ~t.flight /\ ~t.ready
  BY <1>2, TabFields DEF OpenTab, Tab
<1> HIDE DEF t
<1>5. TabOK(t, p, call, accepted)
  BY <1>4 DEF TabOK, InFlight, IsPending, IsLive
<1>6. Listens(t, p, 1, call, deaf')
  BY DEF Listens
<1>7. WiresOK(wire', call, closed, accepted) /\ Quieter(wire, wire', call)
  BY <1>1, WiresSame
<1>8. deaf \subseteq deaf' /\ deaf' \subseteq Peers
  BY <1>1 DEF LInv, Rest
<1>9. 1 \in Nat /\ t.live = tab[p].live /\ t.pend = tab[p].pend
  BY <1>3, <1>4
<1>10. QED
  BY <1>1, <1>5, <1>6, <1>7, <1>8, <1>9, TabStep

-----------------------------------------------------------------------------
(* A frame is read *)

LEMMA ReadOK ==
  ASSUME LInv, NEW p \in Peers, NEW c, c # None, c \in {tab[p].live, tab[p].pend},
         wire[c][p] # <<>>
  PROVE  LET w == [wire EXCEPT ![c][p] = Tail(@)] IN
         /\ WiresOK(w, call, closed, accepted)
         /\ Quieter(wire, w, call)
         /\ NoAuth(w[c][p])
PROOF
<1> DEFINE w == Put2(wire, c, p, Tail(wire[c][p]))
<1>1. WiresOK(wire, call, closed, accepted)
  BY DEF LInv
<1>2. c \in Calls /\ FramesOK(wire[c][p], call[c], p, c, closed, accepted)
  BY HeldEnds
<1>3. /\ WiresOK(w, call, closed, accepted)
      /\ \A b \in Calls, q \in Peers :
           w[b][q] = IF b = c /\ q = p THEN Tail(wire[c][p]) ELSE wire[b][q]
  <2> HIDE DEF w
  <2>1. w = Put2(wire, c, p, Tail(wire[c][p]))
    BY DEF w
  <2>2. QED
    BY <1>1, <1>2, <2>1, WiresRead
<1>4. w = [wire EXCEPT ![c][p] = Tail(@)]
  BY DEF Put2
<1> HIDE DEF w
<1>5. NoAuth(Tail(wire[c][p]))
  BY <1>2, FramesRead
<1>6. Quieter(wire, w, call)
  BY <1>3, <1>5 DEF Quieter
<1>7. NoAuth(w[c][p])
  BY <1>2, <1>3, <1>5
<1>8. QED
  BY <1>3, <1>4, <1>6, <1>7

LEMMA LiveHelloKeeps ==
  ASSUME LInv, NEW p \in Peers, LiveHello(p)
  PROVE  LInv'
PROOF
<1> DEFINE c == tab[p].live
           t == [tab[p] EXCEPT !.ready = TRUE]
           n == accepts[p]
<1>1. /\ c # None /\ wire[c][p] # <<>> /\ Head(wire[c][p]).type = "HELLO"
      /\ tab' = Put(tab, p, t) /\ wire' = [wire EXCEPT ![c][p] = Tail(@)]
      /\ UNCHANGED <<call, accepts, closed, silent, access, issued, answered, expired,
                     redeemed, accepted, abandoned, deaf>>
  BY DEF LiveHello, LiveFrame, Put, rendezvousVars, historyVars
<1>2. /\ TabOK(tab[p], p, call, accepted) /\ tab[p] \in Tab
      /\ accepts \in [Peers -> Nat]
  BY Peer
<1>3. /\ t \in Tab /\ t.up = tab[p].up /\ t.live = tab[p].live /\ t.pend = tab[p].pend
      /\ t.flight = tab[p].flight /\ t.cur = tab[p].cur /\ t.armed = tab[p].armed
  BY <1>2, TabFields DEF Tab
<1>4. c \in accepted
  <2>1. FramesOK(wire[c][p], call[c], p, c, closed, accepted)
    BY <1>1, HeldEnds
  <2>2. wire[c][p] # <<>> /\ Head(wire[c][p]).type # "QUIT"
    BY <1>1
  <2>3. p = call[c].from => c \in accepted
    BY <2>1, <2>2, FramesRead
  <2>4. QED
    BY <1>1, <1>2, <2>3 DEF TabOK, IsLive
<1>5. n \in Nat /\ accepts' = Put(accepts, p, n) /\ Listens(tab[p], p, n, call, deaf)
  BY <1>1, <1>2, PutSame DEF LInv, AcceptsOK
<1>6. WiresOK(wire', call, closed, accepted) /\ Quieter(wire, wire', call)
  BY <1>1, ReadOK
<1> HIDE DEF t, n
<1>7. TabOK(t, p, call, accepted)
  BY <1>2, <1>3, <1>4 DEF TabOK, InFlight, IsPending, IsLive
<1>8. Listens(t, p, n, call, deaf')
  BY <1>1, <1>3, <1>5 DEF Listens
<1>9. deaf \subseteq deaf' /\ deaf' \subseteq Peers
  BY <1>1 DEF LInv, Rest
<1>10. QED
  BY <1>1, <1>3, <1>5, <1>6, <1>7, <1>8, <1>9, TabStep

LEMMA PendingHelloKeeps ==
  ASSUME LInv, NEW p \in Peers, PendingHello(p)
  PROVE  LInv'
PROOF
<1> DEFINE c == tab[p].pend
           t == tab[p]
           n == accepts[p]
<1>1. /\ c # None /\ wire[c][p] # <<>>
      /\ wire' = [wire EXCEPT ![c][p] = Tail(@)]
      /\ UNCHANGED <<tab, call, accepts, closed, silent, access, issued, answered,
                     expired, redeemed, accepted, abandoned, deaf>>
  BY DEF PendingHello, PendingFrame, rendezvousVars, historyVars
<1>2. /\ TabOK(t, p, call, accepted) /\ tab = Put(tab, p, t)
      /\ accepts \in [Peers -> Nat]
  BY Peer, PutSame
<1>3. n \in Nat /\ accepts' = Put(accepts, p, n) /\ Listens(t, p, n, call, deaf)
  BY <1>1, <1>2, PutSame DEF LInv, AcceptsOK
<1>4. WiresOK(wire', call, closed, accepted) /\ Quieter(wire, wire', call)
  BY <1>1, ReadOK
<1> HIDE DEF n
<1>5. deaf \subseteq deaf' /\ deaf' \subseteq Peers /\ Listens(t, p, n, call, deaf')
  BY <1>1, <1>3 DEF LInv, Rest
<1>6. tab' = Put(tab, p, t)
  BY <1>1, <1>2
<1>7. QED
  BY <1>1, <1>2, <1>3, <1>4, <1>5, <1>6, TabStep

(* A proof is read and the tab stays as it is. *)
LEMMA ProofRead ==
  ASSUME LInv, NEW p \in Peers, NEW c, c # None, c \in {tab[p].live, tab[p].pend},
         wire[c][p] # <<>>, wire' = [wire EXCEPT ![c][p] = Tail(@)],
         NEW i, issued' = Put(issued, p, i),
         IssueOK(i, p, tab[p].pend, answered, redeemed'),
         Reserves(i, p, tab[p].pend, call, wire'),
         RedeemedOK(redeemed', answered),
         \A m \in Invites : answered[m] # p /\ Unused(m, redeemed)
                              => Unused(m, redeemed'),
         UNCHANGED <<tab, call, accepts, closed, silent, access, answered, expired,
                     historyVars>>
  PROVE  LInv'
PROOF
<1> DEFINE t == tab[p]
           n == accepts[p]
<1>1. /\ TabOK(t, p, call, accepted) /\ tab = Put(tab, p, t)
      /\ accepts \in [Peers -> Nat]
  BY Peer, PutSame
<1>2. n \in Nat /\ accepts = Put(accepts, p, n) /\ Listens(t, p, n, call, deaf)
  BY <1>1, PutSame DEF LInv, AcceptsOK
<1>3. WiresOK(wire', call, closed, accepted) /\ Quieter(wire, wire', call)
  BY ReadOK
<1>4. /\ tab' = Put(tab, p, t) /\ accepts' = Put(accepts, p, n)
      /\ call' = call /\ answered' = answered
      /\ closed \subseteq closed' /\ silent \subseteq silent'
      /\ accepted \subseteq accepted' /\ abandoned \subseteq abandoned'
      /\ deaf \subseteq deaf'
      /\ TabOK(t, p, call, accepted') /\ WiresOK(wire', call, closed', accepted')
      /\ Listens(t, p, n, call, deaf')
  BY <1>1, <1>2, <1>3 DEF historyVars
<1>5. AccessOK(access') /\ Rest'
  BY DEF LInv, Rest, historyVars
<1>6. /\ {t.live, t.pend} \subseteq {None, tab[p].live, tab[p].pend}
      /\ \A b \in Calls : b \in {tab[p].live, tab[p].pend} \ {t.live, t.pend}
                            => Shut(call[b], b, closed') \/ b \in abandoned'
  OBVIOUS
<1> HIDE DEF n
<1>7. QED
  BY <1>2, <1>3, <1>4, <1>5, <1>6, PeerStep

(* An invitation that verifies is free to make a session. *)
LEMMA VerifiedFree ==
  ASSUME LInv, NEW p \in Peers, NEW n \in Invites, Verified(p, n)
  PROVE  /\ issued[p].id = n /\ issued[p].state = "Available"
         /\ answered[n] = p /\ Unused(n, redeemed) /\ n # None
         /\ issued[p].pending # n
PROOF
<1>1. IssueOK(issued[p], p, tab[p].pend, answered, redeemed)
  BY Peer
<1>2. issued[p].id = n /\ issued[p].state = "Available" /\ n # None
  BY NoNone DEF Verified
<1>3. QED
  BY <1>1, <1>2 DEF IssueOK

LEMMA RedeemedMore ==
  ASSUME LInv, NEW p \in Peers, NEW n \in Invites, NEW c \in Calls,
         answered[n] = p, Unused(n, redeemed)
  PROVE  /\ RedeemedOK(redeemed \cup {<<n, c>>}, answered)
         /\ \A m \in Invites : m # n /\ Unused(m, redeemed)
                                 => Unused(m, redeemed \cup {<<n, c>>})
PROOF
<1>1. RedeemedOK(redeemed, answered)
  BY DEF LInv
<1>2. p # None
  BY NoNone
<1>3. QED
  BY <1>1, <1>2 DEF RedeemedOK, Unused

LEMMA LiveAuthKeeps ==
  ASSUME LInv, NEW p \in Peers, LiveAuth(p)
  PROVE  LInv'
PROOF
<1> DEFINE c == tab[p].live
           n == Head(wire[c][p]).id
           ok == p \in Transient /\ ~Outbound(p) /\ Verified(p, n)
           k == Rearms(c, p, Tail(wire[c][p]))
<1>1. /\ c # None /\ wire[c][p] # <<>> /\ Head(wire[c][p]).type = "AUTH"
      /\ UNCHANGED <<access, answered, expired, historyVars>>
  BY DEF LiveAuth, LiveFrame
<1>2. CASE ~ok
  <2>1. /\ Drops(p, c, k, wire) /\ closed' = closed \cup Ends({c}, p)
        /\ issued' = [issued EXCEPT ![p].pending = None] /\ redeemed' = redeemed
    BY <1>2 DEF LiveAuth
  <2>2. k \in {1, 2}
    BY RearmsRange
  <2> HIDE DEF k
  <2>3. QED
    BY <1>1, <2>1, <2>2, LiveClosed
<1>3. CASE ok
  <2> DEFINE i == [id |-> issued[p].id, state |-> "Consumed",
                   pending |-> issued[p].pending]
  <2>1. /\ wire' = [wire EXCEPT ![c][p] = Tail(@)]
        /\ issued' = [issued EXCEPT ![p].state = "Consumed"]
        /\ redeemed' = redeemed \cup {<<n, c>>}
        /\ UNCHANGED <<tab, call, accepts, closed, silent>>
    BY <1>3 DEF LiveAuth
  <2>2. c \in Calls /\ n \in Invites
    <3>1. c \in Calls /\ FramesOK(wire[c][p], call[c], p, c, closed, accepted)
      BY <1>1, HeldEnds
    <3>2. Head(wire[c][p]) \in Frame
      BY <1>1, <3>1, FramesRead
    <3>3. QED
      BY <1>1, <3>1, <3>2 DEF Frame
  <2> HIDE DEF n
  <2>3. /\ issued[p].id = n /\ answered[n] = p /\ Unused(n, redeemed)
        /\ issued[p].pending # n /\ n # None
    BY <1>3, <2>2, VerifiedFree DEF ok
  <2>4. /\ RedeemedOK(redeemed', answered)
        /\ \A m \in Invites : m # n /\ Unused(m, redeemed) => Unused(m, redeemed')
    BY <2>1, <2>2, <2>3, RedeemedMore
  <2>5. tab[p].pend = None
    BY <1>1, LivePend
  <2>6. issued[p].pending = None /\ IssueOK(issued[p], p, None, answered, redeemed)
    BY <2>5, LiveIssue
  <2>7. issued' = Put(issued, p, i)
    <3>1. DOMAIN issued[p] = {"id", "state", "pending"}
      BY <2>6 DEF IssueOK, Issue
    <3>2. [issued[p] EXCEPT !.state = "Consumed"] = i
      BY <3>1, IssueOne
    <3>3. QED
      BY <2>1, <3>2 DEF Put
  <2>8. IssueOK(i, p, tab[p].pend, answered, redeemed')
    BY <2>3, <2>6 DEF IssueOK, Issue, IssuedState
  <2>9. Reserves(i, p, tab[p].pend, call, wire')
    BY DEF Reserves
  <2> HIDE DEF i
  <2>10. \A m \in Invites : answered[m] # p /\ Unused(m, redeemed)
                              => Unused(m, redeemed')
    BY <2>3, <2>4
  <2>11. c \in {tab[p].live, tab[p].pend}
    OBVIOUS
  <2> HIDE DEF c
  <2>12. QED
    BY <1>1, <2>1, <2>4, <2>7, <2>8, <2>9, <2>10, <2>11, ProofRead
<1>4. QED
  BY <1>2, <1>3

LEMMA PendingAuthKeeps ==
  ASSUME LInv, NEW p \in Peers, PendingAuth(p)
  PROVE  LInv'
PROOF
<1> DEFINE c == tab[p].pend
           n == Head(wire[c][p]).id
           ok == p \in Transient /\ Verified(p, n)
           k == Rearms(c, p, Tail(wire[c][p]))
<1>1. /\ c # None /\ wire[c][p] # <<>> /\ Head(wire[c][p]).type = "AUTH"
      /\ UNCHANGED <<access, answered, expired, redeemed, historyVars>>
  BY DEF PendingAuth, PendingFrame
<1>2. /\ c \in Calls /\ CallOK(call[c])
      /\ p \in {call[c].from, call[c].to}
      /\ FramesOK(wire[c][p], call[c], p, c, closed, accepted)
      /\ TabOK(tab[p], p, call, accepted)
      /\ IssueOK(issued[p], p, c, answered, redeemed)
      /\ Reserves(issued[p], p, c, call, wire)
  BY <1>1, HeldEnds, Peer
<1>3. issued[p] \in Issue
  BY <1>2 DEF IssueOK
<1>4. ~NoAuth(wire[c][p])
  <2>1. Len(wire[c][p]) \in Nat /\ Len(wire[c][p]) >= 1
        /\ Head(wire[c][p]) = wire[c][p][1]
    BY <1>1, <1>2 DEF FramesOK
  <2>2. 1 \in 1..Len(wire[c][p])
    BY <2>1
  <2>3. QED
    BY <1>1, <2>1, <2>2 DEF NoAuth
<1>5. issued[p].state # "Reserved"
  BY <1>2, <1>4 DEF Reserves
<1>6. CASE ~ok
  <2> DEFINE i == [id |-> issued[p].id, state |-> issued[p].state, pending |-> None]
  <2>1. /\ Drops(p, c, k, wire) /\ closed' = closed \cup Ends({c}, p)
        /\ issued' = [issued EXCEPT ![p].pending = None]
    BY <1>6 DEF PendingAuth
  <2>2. k \in {1, 2}
    BY RearmsRange
  <2> HIDE DEF k
  <2>3. issued' = Put(issued, p, i)
    <3>1. DOMAIN issued[p] = {"id", "state", "pending"}
      BY <1>3 DEF Issue
    <3>2. [issued[p] EXCEPT !.pending = None] = i
      BY <3>1, IssueOne
    <3>3. QED
      BY <2>1, <3>2 DEF Put
  <2>4. i.state # "Reserved" /\ IssueOK(i, p, None, answered, redeemed)
    BY <1>2, <1>5 DEF IssueOK, Issue
  <2>5. Shut(call[c], c, closed')
    <3>1. <<c, p>> \in closed'
      BY <1>1, <2>1 DEF Ends
    <3>2. QED
      BY <1>1, <3>1, HeldEnds
  <2>6. /\ c \in {tab[p].live, tab[p].pend} /\ closed \subseteq closed'
        /\ closed' \subseteq closed \cup Ends({c}, p)
    BY <2>1
  <2> HIDE DEF i, c
  <2>7. QED
    BY <1>1, <2>1, <2>2, <2>3, <2>4, <2>5, <2>6, DropStep
<1>7. CASE ok
  <2> DEFINE i == [id |-> issued[p].id, state |-> "Reserved", pending |-> n]
  <2>1. /\ wire' = [wire EXCEPT ![c][p] = Tail(@)]
        /\ issued' = [issued EXCEPT ![p].state = "Reserved", ![p].pending = n]
        /\ UNCHANGED <<tab, call, accepts, closed, silent>>
    BY <1>7 DEF PendingAuth
  <2>2. n \in Invites
    <3>1. Head(wire[c][p]) \in Frame
      BY <1>1, <1>2, FramesRead
    <3>2. QED
      BY <1>1, <3>1 DEF Frame
  <2>3. c \in {tab[p].live, tab[p].pend}
    OBVIOUS
  <2>4. call[c].out = "done"
    <3>1. p = call[c].to
      BY <1>1, <1>2 DEF TabOK, IsPending
    <3>2. QED
      BY <1>1, <1>2, <3>1, FramesRead, ZenonT(60)
  <2> HIDE DEF n
  <2>5. /\ issued[p].id = n /\ answered[n] = p /\ Unused(n, redeemed) /\ n # None
    BY <1>7, <2>2, VerifiedFree DEF ok
  <2>6. issued' = Put(issued, p, i)
    <3>1. issued' = [issued EXCEPT ![p] = [issued[p] EXCEPT !.state = "Reserved",
                                                       !.pending = n]]
      BY <2>1
    <3>2. [issued[p] EXCEPT !.state = "Reserved", !.pending = n] = i
      BY <1>3, IssueEdit
    <3>3. QED
      BY <3>1, <3>2, Zenon DEF Put
  <2>7. IssueOK(i, p, c, answered, redeemed)
    BY <1>1, <1>2, <2>2, <2>5 DEF IssueOK, Issue, IssuedState
  <2>8. NoAuth(wire'[c][p])
    BY <1>1, <2>1, <2>3, ReadOK
  <2>9. Reserves(i, p, c, call, wire')
    BY <1>1, <2>4, <2>5, <2>8 DEF Reserves
  <2> HIDE DEF i
  <2>10. /\ IssueOK(i, p, tab[p].pend, answered, redeemed')
         /\ Reserves(i, p, tab[p].pend, call, wire')
         /\ RedeemedOK(redeemed', answered)
         /\ \A m \in Invites : answered[m] # p /\ Unused(m, redeemed)
                                 => Unused(m, redeemed')
    BY <1>1, <2>7, <2>9 DEF LInv
  <2> HIDE DEF c
  <2>11. QED
    BY <1>1, <2>1, <2>3, <2>6, <2>10, ProofRead
<1>8. QED
  BY <1>6, <1>7

-----------------------------------------------------------------------------
(* The user's buttons *)

LEMMA UnreadOK ==
  ASSUME LInv, NEW w, WiresOK(w, call, closed', accepted'), Quieter(wire, w, call),
         NEW cs, NEW p, wire' = Unread(w, cs, p)
  PROVE  WiresOK(wire', call, closed', accepted') /\ Quieter(wire, wire', call)
PROOF BY WiresUnread, QuieterUnread

LEMMA WiresLater ==
  ASSUME LInv, closed \subseteq closed', accepted \subseteq accepted'
  PROVE  WiresOK(wire, call, closed', accepted') /\ Quieter(wire, wire, call)
PROOF
<1>1. \A b \in Calls : Advances(call[b], call[b])
  BY NoAdvance
<1>2. WiresOK(wire, call, closed, accepted)
  BY DEF LInv
<1>3. QED
  BY <1>1, <1>2, WiresKept, QuieterSelf

LEMMA QuieterSent ==
  ASSUME NEW w, NEW cl, NEW cd, NEW acc, WiresOK(w, cl, cd, acc),
         NEW c \in Calls, NEW q \in Peers,
         NEW f, FramesOK(f, cl[c], q, c, cd, acc),
         w[c][q] = <<>> \/ NoAuth(f), cl[c].out # "done" \/ NoAuth(f)
  PROVE  Quieter(w, Sent(w, c, q, f), cl)
PROOF
<1> DEFINE u == Sent(w, c, q, f)
<1>1. \A b \in Calls, p \in Peers :
        u[b][p] \in {w[b][p]} \cup (IF b = c /\ p = q THEN {w[b][p] \o f} ELSE {})
  BY WiresSent
<1>2. f \in Seq(Frame) /\ w[c][q] \in Seq(Frame)
  BY DEF WiresOK, FramesOK
<1>3. NoAuth(f) /\ NoAuth(w[c][q]) => NoAuth(w[c][q] \o f)
  BY <1>2, NoAuthCat
<1> HIDE DEF u
<1>4. ASSUME NEW b \in Calls, NEW p \in Peers, cl[b].out = "done", NoAuth(w[b][p])
      PROVE  NoAuth(u[b][p])
  <2>1. CASE b = c /\ p = q
    <3>1. NoAuth(f)
      BY <1>4, <2>1
    <3>2. u[c][q] = w[c][q] \/ u[c][q] = w[c][q] \o f
      BY <1>1
    <3>3. QED
      BY <1>3, <1>4, <2>1, <3>1, <3>2
  <2>2. CASE ~(b = c /\ p = q)
    <3>1. u[b][p] = w[b][p]
      BY <1>1, <2>2
    <3>2. QED
      BY <1>4, <3>1
  <2>3. QED
    BY <2>1, <2>2
<1>5. QED
  BY <1>4 DEF Quieter, u

(* QUIT is sent to the other end of a stream that is closed. *)
LEMMA QuitSent ==
  ASSUME LInv, NEW p \in Peers, NEW c, c # None, c \in {tab[p].live, tab[p].pend},
         closed \subseteq closed', accepted \subseteq accepted', <<c, p>> \in closed'
  PROVE  LET w == Sent(wire, c, Other(c, p), <<[type |-> "QUIT"]>>) IN
         WiresOK(w, call, closed', accepted') /\ Quieter(wire, w, call)
PROOF
<1> DEFINE q == Other(c, p)
           f == <<[type |-> "QUIT"]>>
<1>1. /\ c \in Calls /\ CallOK(call[c]) /\ p \in {call[c].from, call[c].to}
      /\ q \in Peers \ {p} /\ q \in {call[c].from, call[c].to}
      /\ Shut(call[c], c, closed') /\ TabOK(tab[p], p, call, accepted)
  BY HeldEnds, Peer
<1>2. /\ f \in Seq(Frame) /\ Len(f) = 1 /\ f[1].type = "QUIT"
      /\ NoAuth(f)
  BY DEF Frame, NoAuth
<1>3. call[c].out # "unused" /\ (q = call[c].to => call[c].out = "done")
  BY <1>1 DEF CallOK, UnusedCall, TabOK, IsPending, IsLive
<1> HIDE DEF f, q
<1>4. FramesOK(f, call[c], q, c, closed', accepted')
  BY <1>1, <1>2, <1>3 DEF FramesOK
<1>5. WiresOK(wire, call, closed', accepted')
  BY WiresLater
<1>6. WiresOK(Sent(wire, c, q, f), call, closed', accepted')
  BY <1>1, <1>2, <1>4, <1>5, WiresSent
<1>7. Quieter(wire, Sent(wire, c, q, f), call)
  BY <1>1, <1>2, <1>4, <1>5, QuieterSent
<1>8. QED
  BY <1>6, <1>7 DEF f, q

(* The invitation of a pending call that the user has decided about. *)
LEMMA SettledState ==
  ASSUME LInv, NEW p \in Peers
  PROVE  [issued EXCEPT ![p].pending = None][p].state = issued[p].state
PROOF
<1> DEFINE j == [issued EXCEPT ![p].pending = None]
<1>1. issued = [q \in Peers |-> issued[q]] /\ issued[p] \in Issue
  BY Peer DEF IssueOK
<1>2. DOMAIN issued[p] = {"id", "state", "pending"}
  BY <1>1 DEF Issue
<1>3. j[p] = [issued[p] EXCEPT !.pending = None]
  BY <1>1
<1>4. QED
  BY <1>2, <1>3

LEMMA SettledIssue ==
  ASSUME LInv, NEW p \in Peers, NEW s
  PROVE  [issued EXCEPT ![p].pending = None, ![p].state = s]
           = Put(issued, p, [id |-> issued[p].id, state |-> s, pending |-> None])
PROOF
<1>1. issued[p] \in Issue
  BY Peer DEF IssueOK
<1>2. [issued[p] EXCEPT !.pending = None, !.state = s]
        = [id |-> issued[p].id, state |-> s, pending |-> None]
  BY <1>1, IssueSettled
<1>3. [issued EXCEPT ![p].pending = None, ![p].state = s]
        = [issued EXCEPT ![p] = [issued[p] EXCEPT !.pending = None, !.state = s]]
  OBVIOUS
<1>4. QED
  BY <1>2, <1>3, Zenon DEF Put

LEMMA DeclineKeeps ==
  ASSUME LInv, NEW p \in Peers, Decline(p)
  PROVE  LInv'
PROOF
<1> DEFINE c == tab[p].pend
           t == [tab[p] EXCEPT !.pend = None]
           n == accepts[p] + 1
           s == IF issued[p].pending = issued[p].id /\ issued[p].id # None
                THEN "Revoked" ELSE issued[p].state
           i == [id |-> issued[p].id, state |-> s, pending |-> None]
<1>1. /\ c # None /\ tab' = Put(tab, p, t) /\ accepts' = Put(accepts, p, n)
      /\ closed' = closed \cup Ends({c}, p) /\ wire' = Unread(wire, {c}, p)
      /\ UNCHANGED <<call, silent, access, answered, expired, redeemed, accepted,
                     abandoned, deaf>>
  BY DEF Decline, Put, historyVars
<1>2. /\ TabOK(tab[p], p, call, accepted) /\ tab[p] \in Tab
      /\ accepts[p] \in Nat /\ c \in Calls \cup {None}
      /\ IssueOK(issued[p], p, c, answered, redeemed)
      /\ Reserves(issued[p], p, c, call, wire)
  BY Peer
<1>3. /\ t \in Tab /\ t.up = tab[p].up /\ t.live = tab[p].live /\ t.pend = None
      /\ t.flight = tab[p].flight /\ t.cur = tab[p].cur /\ t.ready = tab[p].ready
  BY <1>2, TabFields DEF Tab
<1>4. c \in Calls /\ tab[p].live = None /\ n \in Nat /\ n > 0
  BY <1>1, <1>2 DEF TabOK, IsPending
<1>5. issued[p] \in Issue
  BY <1>2 DEF IssueOK
<1>6. issued' = Put(issued, p, i)
  <2>1. issued' = [issued EXCEPT ![p].pending = None, ![p].state = s]
    BY SettledState, Zenon DEF Decline
  <2> HIDE DEF s
  <2>2. QED
    BY <2>1, SettledIssue
<1>7. s \in IssuedState /\ s # "Reserved" /\ s \in {"Revoked", issued[p].state}
  <2>1. issued[p].state \in IssuedState
    BY <1>5 DEF Issue
  <2>2. QED
    BY <1>2, <2>1 DEF Reserves, IssuedState
<1> HIDE DEF s
<1>8. IssueOK(i, p, None, answered, redeemed)
  BY <1>2, <1>7, NoNone DEF IssueOK, Issue
<1>9. Reserves(i, p, None, call, wire')
  BY <1>7 DEF Reserves
<1>10. Shut(call[c], c, closed')
  <2>1. <<c, p>> \in closed'
    BY <1>1 DEF Ends
  <2>2. QED
    BY <1>1, <2>1, HeldEnds
<1> HIDE DEF t, n, i
<1>11. TabOK(t, p, call, accepted')
  BY <1>1, <1>2, <1>3, <1>4 DEF TabOK, InFlight, IsPending, IsLive
<1>12. Listens(t, p, n, call, deaf')
  BY <1>4 DEF Listens
<1>13. closed \subseteq closed' /\ accepted \subseteq accepted'
  BY <1>1
<1>14. WiresOK(wire', call, closed', accepted') /\ Quieter(wire, wire', call)
  BY <1>1, <1>13, WiresLater, UnreadOK
<1>15. RedeemedOK(redeemed', answered) /\ AccessOK(access') /\ Rest'
  BY <1>1, <1>4 DEF LInv, Rest, Ends
<1>16. /\ {t.live, t.pend} \subseteq {None, tab[p].live, tab[p].pend}
       /\ \A b \in Calls : b \in {tab[p].live, tab[p].pend} \ {t.live, t.pend}
                             => Shut(call[b], b, closed') \/ b \in abandoned'
  BY <1>3, <1>4, <1>10
<1>17. /\ IssueOK(i, p, t.pend, answered, redeemed')
       /\ Reserves(i, p, t.pend, call, wire')
       /\ \A m \in Invites : answered[m] # p /\ Unused(m, redeemed)
                               => Unused(m, redeemed')
  BY <1>1, <1>3, <1>8, <1>9
<1>18. QED
  BY <1>1, <1>4, <1>6, <1>11, <1>12, <1>13, <1>14, <1>15, <1>16, <1>17, PeerStep

LEMMA AcceptKeeps ==
  ASSUME LInv, NEW p \in Peers, Accept(p)
  PROVE  LInv'
PROOF
<1> DEFINE c == tab[p].pend
           from == call[c].from
           n == accepts[p]
<1>1. /\ c # None
      /\ UNCHANGED <<call, accepts, closed, silent, access, answered, expired, deaf>>
  BY DEF Accept
<1>2. /\ TabOK(tab[p], p, call, accepted) /\ tab[p] \in Tab
      /\ accepts \in [Peers -> Nat] /\ n \in Nat /\ c \in Calls \cup {None}
      /\ IssueOK(issued[p], p, c, answered, redeemed)
      /\ Reserves(issued[p], p, c, call, wire)
  BY Peer
<1>3. /\ c \in Calls /\ tab[p].live = None /\ ~tab[p].flight /\ ~tab[p].armed
      /\ call[c].to = p /\ call[c].inn = "done" /\ tab[p].up
  BY <1>1, <1>2 DEF TabOK, IsPending, InFlight
<1>4. issued[p] \in Issue
  BY <1>2 DEF IssueOK
<1>5. accepts' = Put(accepts, p, n)
  BY <1>1, <1>2, PutSame
<1>6. CASE tab[p].stored \in {None, from}
  <2> DEFINE t == [tab[p] EXCEPT !.live = c, !.pend = None, !.ready = TRUE]
             mine == issued[p].pending = issued[p].id /\ issued[p].state = "Reserved"
             s == IF mine THEN "Consumed" ELSE issued[p].state
             i == [id |-> issued[p].id, state |-> s, pending |-> None]
             f == <<[type |-> "HELLO"]>>
  <2>1. /\ tab' = Put(tab, p, t) /\ wire' = Sent(wire, c, from, f)
        /\ redeemed' = IF issued[p].pending = None THEN redeemed
                       ELSE redeemed \cup {<<issued[p].pending, c>>}
        /\ accepted' = accepted \cup {c} /\ abandoned' = abandoned
    BY <1>6, Zenon DEF Accept, Put
  <2>2. issued' = Put(issued, p, i)
    <3>1. issued' = [issued EXCEPT ![p].pending = None, ![p].state = s]
      BY <1>6, SettledState, Zenon DEF Accept
    <3> HIDE DEF s
    <3>2. QED
      BY <3>1, SettledIssue
  <2>3. /\ t \in Tab /\ t.up = tab[p].up /\ t.live = c /\ t.pend = None
        /\ t.flight = tab[p].flight /\ t.armed = tab[p].armed
    BY <1>2, <1>3, TabFields, ZenonT(60) DEF Tab
  <2>4. /\ from \in Peers /\ from # call[c].to /\ call[c].out # "unused"
    <3>1. CallOK(call[c])
      BY <1>3 DEF LInv, CallsOK
    <3>2. QED
      BY <1>3, <3>1 DEF CallOK, UnusedCall
  <2>5. FramesOK(f, call[c], from, c, closed', accepted') /\ NoAuth(f)
    <3>1. /\ f \in Seq(Frame) /\ Len(f) = 1 /\ f[1].type = "HELLO"
      BY DEF Frame
    <3>2. c \in accepted'
      BY <2>1
    <3> HIDE DEF f, from
    <3>3. from = call[c].from
      BY DEF from
    <3>4. QED
      BY <2>4, <3>1, <3>2, <3>3 DEF FramesOK, NoAuth
  <2>6. closed \subseteq closed' /\ accepted \subseteq accepted'
    BY <1>1, <2>1
  <2>7. WiresOK(wire', call, closed', accepted') /\ Quieter(wire, wire', call)
    <3>1. WiresOK(wire, call, closed', accepted')
      BY <2>6, WiresLater
    <3> HIDE DEF f, from
    <3>2. WiresOK(Sent(wire, c, from, f), call, closed', accepted')
      BY <1>3, <2>4, <2>5, <3>1, WiresSent
    <3>3. Quieter(wire, Sent(wire, c, from, f), call)
      BY <1>3, <2>4, <2>5, <3>1, QuieterSent
    <3>4. QED
      BY <2>1, <3>2, <3>3
  <2>8. /\ RedeemedOK(redeemed', answered)
        /\ \A m \in Invites : m # issued[p].pending /\ Unused(m, redeemed)
                                => Unused(m, redeemed')
    <3>1. CASE issued[p].pending = None
      BY <2>1, <3>1 DEF LInv
    <3>2. CASE issued[p].pending # None
      <4> DEFINE m == issued[p].pending
      <4>1. m \in Invites /\ answered[m] = p /\ Unused(m, redeemed)
        BY <1>2, <1>4, <3>2 DEF IssueOK, Issue
      <4>2. redeemed' = redeemed \cup {<<m, c>>}
        BY <2>1, <3>2
      <4> HIDE DEF m
      <4>3. /\ RedeemedOK(redeemed', answered)
            /\ \A b \in Invites : b # m /\ Unused(b, redeemed) => Unused(b, redeemed')
        BY <1>3, <4>1, <4>2, RedeemedMore
      <4>4. QED
        BY <4>3 DEF m
    <3>3. QED
      BY <3>1, <3>2
  <2>9. \A m \in Invites : answered[m] # p /\ Unused(m, redeemed)
                             => Unused(m, redeemed')
    <3>1. issued[p].pending = None \/ answered[issued[p].pending] = p
      BY <1>2 DEF IssueOK
    <3>2. \A m \in Invites : m # None
      BY NoNone
    <3>3. QED
      BY <2>8, <3>1, <3>2
  <2>10. /\ s \in IssuedState /\ s # "Reserved"
         /\ s = "Available" =>
              \/ issued[p].state = "Available" /\ issued[p].pending # issued[p].id
              \/ issued[p].id = None
    <3>1. issued[p].state \in IssuedState
      BY <1>4 DEF Issue
    <3>2. QED
      BY <1>2, <3>1 DEF Reserves, IssuedState, IssueOK
  <2> HIDE DEF s
  <2>11. IssueOK(i, p, None, answered, redeemed')
    <3>1. i \in Issue /\ i.pending = None /\ i.id = issued[p].id /\ i.state = s
      BY <1>4, <2>10 DEF Issue
    <3>2. i.id # None /\ i.state \in {"Available", "Reserved"} => Unused(i.id, redeemed')
      <4>1. issued[p].id \in Invites \cup {None}
        BY <1>4 DEF Issue
      <4>2. QED
        BY <1>2, <2>8, <2>10, <3>1, <4>1 DEF IssueOK
    <3> HIDE DEF i
    <3>3. QED
      BY <1>2, <3>1, <3>2 DEF IssueOK
  <2>12. Reserves(i, p, None, call, wire')
    BY <2>10 DEF Reserves
  <2> HIDE DEF t, i
  <2>13. TabOK(t, p, call, accepted')
    <3>1. c \in accepted'
      BY <2>1
    <3>2. QED
      BY <1>1, <1>2, <1>3, <2>3, <3>1 DEF TabOK, InFlight, IsPending, IsLive
  <2>14. Listens(t, p, n, call, deaf')
    BY <1>3, <2>3 DEF Listens
  <2>15. AccessOK(access') /\ Rest'
    BY <1>1, <1>3, <2>1 DEF LInv, Rest
  <2>16. /\ {t.live, t.pend} \subseteq {None, tab[p].live, tab[p].pend}
         /\ \A b \in Calls : b \in {tab[p].live, tab[p].pend} \ {t.live, t.pend}
                               => Shut(call[b], b, closed') \/ b \in abandoned'
    BY <1>3, <2>3
  <2>17. /\ IssueOK(i, p, t.pend, answered, redeemed')
         /\ Reserves(i, p, t.pend, call, wire')
    BY <2>3, <2>11, <2>12
  <2>18. /\ silent \subseteq silent' /\ abandoned \subseteq abandoned'
         /\ deaf \subseteq deaf' /\ call' = call /\ answered' = answered
    BY <1>1, <2>1
  <2> HIDE DEF n
  <2>19. QED
    BY <1>2, <1>5, <2>1, <2>2, <2>6, <2>7, <2>8, <2>9, <2>13, <2>14, <2>15, <2>16,
       <2>17, <2>18, PeerStep
<1>7. CASE tab[p].stored \notin {None, from}
  <2> DEFINE t == [Invalidated(tab[p]) EXCEPT !.pend = None, !.ready = FALSE]
             i == Released(issued[p])
  <2>1. /\ tab' = Put(tab, p, t) /\ wire' = Unread(wire, {c}, p)
        /\ issued' = Put(issued, p, i)
        /\ redeemed' = redeemed /\ accepted' = accepted
        /\ abandoned' = abandoned \cup {c}
    BY <1>7, Zenon DEF Accept, Put
  <2>2. /\ t \in Tab /\ t.live = tab[p].live /\ t.pend = None /\ t.ready = FALSE
        /\ t.flight = FALSE /\ t.armed = tab[p].armed
    BY <1>2, TabFields DEF Tab, Invalidated
  <2>3. i.state # "Reserved" /\ IssueOK(i, p, None, answered, redeemed)
    BY ReleasedIssue
  <2> HIDE DEF t, i
  <2>4. TabOK(t, p, call, accepted')
    BY <1>3, <2>2 DEF TabOK, InFlight, IsPending, IsLive
  <2>5. closed \subseteq closed' /\ accepted \subseteq accepted'
    BY <1>1, <2>1
  <2>6. WiresOK(wire', call, closed', accepted') /\ Quieter(wire, wire', call)
    BY <2>1, <2>5, WiresLater, UnreadOK
  <2>7. Listens(t, p, n, call, deaf')
    BY <1>3, <2>2 DEF Listens
  <2>8. RedeemedOK(redeemed', answered) /\ AccessOK(access') /\ Rest'
    BY <1>1, <1>3, <2>1 DEF LInv, Rest
  <2>9. /\ {t.live, t.pend} \subseteq {None, tab[p].live, tab[p].pend}
        /\ \A b \in Calls : b \in {tab[p].live, tab[p].pend} \ {t.live, t.pend}
                              => Shut(call[b], b, closed') \/ b \in abandoned'
    BY <1>3, <2>1, <2>2
  <2>10. /\ IssueOK(i, p, t.pend, answered, redeemed')
         /\ Reserves(i, p, t.pend, call, wire')
         /\ \A m \in Invites : answered[m] # p /\ Unused(m, redeemed)
                                 => Unused(m, redeemed')
    BY <2>1, <2>2, <2>3 DEF Reserves
  <2>11. /\ silent \subseteq silent' /\ abandoned \subseteq abandoned'
         /\ deaf \subseteq deaf' /\ call' = call /\ answered' = answered
    BY <1>1, <2>1
  <2> HIDE DEF n
  <2>12. QED
    BY <1>2, <1>5, <2>1, <2>4, <2>5, <2>6, <2>7, <2>8, <2>9, <2>10, <2>11, PeerStep
<1>8. QED
  BY <1>6, <1>7

LEMMA DisconnectKeeps ==
  ASSUME LInv, NEW p \in Peers, Disconnect(p)
  PROVE  LInv'
PROOF
<1> DEFINE c == tab[p].live
           t == Dropped(Invalidated(tab[p]))
           n == accepts[p] + 1
           i == Released(issued[p])
<1>1. /\ tab[p].pend = None
      /\ tab' = Put(tab, p, t) /\ accepts' = Put(accepts, p, n)
      /\ issued' = Put(issued, p, i) /\ closed' = closed \cup Ends({c}, p)
      /\ UNCHANGED <<call, silent, access, answered, expired, redeemed, accepted,
                     abandoned, deaf>>
  BY DEF Disconnect, Put, historyVars
<1>2. \/ wire' = Unread(wire, {c}, p)
      \/ c # None /\ wire' = Unread(Sent(wire, c, Other(c, p), <<[type |-> "QUIT"]>>),
                                    {c}, p)
  <2>1. PICK quit \in {<<>>} \cup IF c = None THEN {} ELSE {<<[type |-> "QUIT"]>>} :
          wire' = Unread(IF quit = <<>> THEN wire
                         ELSE Sent(wire, c, Other(c, p), quit), {c}, p)
    BY DEF Disconnect
  <2>2. CASE quit = <<>>
    BY <2>1, <2>2
  <2>3. CASE quit # <<>>
    <3>1. quit = <<[type |-> "QUIT"]>> /\ c # None
      BY <2>1, <2>3
    <3>2. wire' = Unread(Sent(wire, c, Other(c, p), quit), {c}, p)
      BY <2>1, <2>3
    <3>3. QED
      BY <3>1, <3>2
  <2>4. QED
    BY <2>2, <2>3
<1>3. /\ TabOK(tab[p], p, call, accepted) /\ tab[p] \in Tab
      /\ accepts[p] \in Nat /\ c \in Calls \cup {None}
  BY Peer
<1>4. n \in Nat /\ n > 0
  BY <1>3
<1>5. /\ t \in Tab /\ t.live = None /\ t.pend = None /\ t.ready = FALSE
      /\ t.flight = FALSE
  <2> DEFINE j == Invalidated(tab[p])
  <2>1. j \in Tab /\ j.flight = FALSE
    BY <1>3, TabFields DEF Tab, Invalidated
  <2>2. t = Dropped(j)
    OBVIOUS
  <2> HIDE DEF j, t
  <2>3. QED
    BY <2>1, <2>2, DroppedTab
<1>6. i.state # "Reserved" /\ IssueOK(i, p, None, answered, redeemed)
  BY ReleasedIssue
<1>7. closed \subseteq closed' /\ accepted \subseteq accepted'
      /\ (c # None => <<c, p>> \in closed')
  BY <1>1 DEF Ends
<1>8. WiresOK(wire', call, closed', accepted') /\ Quieter(wire, wire', call)
  <2>1. CASE wire' = Unread(wire, {c}, p)
    BY <1>7, <2>1, WiresLater, UnreadOK
  <2>2. CASE c # None /\ wire' = Unread(Sent(wire, c, Other(c, p), <<[type |-> "QUIT"]>>),
                                        {c}, p)
    <3> DEFINE w == Sent(wire, c, Other(c, p), <<[type |-> "QUIT"]>>)
    <3>1. WiresOK(w, call, closed', accepted') /\ Quieter(wire, w, call)
      BY <1>7, <2>2, QuitSent
    <3>2. wire' = Unread(w, {c}, p)
      BY <2>2
    <3> HIDE DEF w
    <3>3. QED
      BY <3>1, <3>2, UnreadOK
  <2>3. QED
    BY <1>2, <2>1, <2>2
<1>9. \A b \in Calls : b \in {tab[p].live, tab[p].pend} \ {t.live, t.pend}
                         => Shut(call[b], b, closed') \/ b \in abandoned'
  <2>1. c # None => Shut(call[c], c, closed')
    BY <1>7, HeldEnds
  <2>2. QED
    BY <1>1, <1>5, <2>1
<1> HIDE DEF t, n, i
<1>10. TabOK(t, p, call, accepted')
  BY <1>5 DEF TabOK, InFlight, IsPending, IsLive
<1>11. Listens(t, p, n, call, deaf')
  BY <1>4 DEF Listens
<1>12. RedeemedOK(redeemed', answered) /\ AccessOK(access') /\ Rest'
  BY <1>1, <1>3 DEF LInv, Rest, Ends
<1>13. {t.live, t.pend} \subseteq {None, tab[p].live, tab[p].pend}
  BY <1>5
<1>14. /\ IssueOK(i, p, t.pend, answered, redeemed')
       /\ Reserves(i, p, t.pend, call, wire')
       /\ \A m \in Invites : answered[m] # p /\ Unused(m, redeemed)
                               => Unused(m, redeemed')
  BY <1>1, <1>5, <1>6 DEF Reserves
<1>15. QED
  BY <1>1, <1>4, <1>7, <1>8, <1>9, <1>10, <1>11, <1>12, <1>13, <1>14, PeerStep

(* Each call's frames are those of some state of the streams.              *)
LEMMA WiresPick ==
  ASSUME NEW w, NEW v, NEW cl, NEW cd, NEW acc, v = [c \in Calls |-> v[c]],
         \A c \in Calls : \E u : /\ v[c] = u[c] /\ WiresOK(u, cl, cd, acc)
                                 /\ Quieter(w, u, cl)
  PROVE  WiresOK(v, cl, cd, acc) /\ Quieter(w, v, cl)
PROOF
<1>1. ASSUME NEW c \in Calls
      PROVE  /\ v[c] = [p \in Peers |-> v[c][p]]
             /\ \A p \in Peers : FramesOK(v[c][p], cl[c], p, c, cd, acc)
             /\ \A p \in Peers : cl[c].out = "done" /\ NoAuth(w[c][p]) => NoAuth(v[c][p])
  <2>1. PICK u : v[c] = u[c] /\ WiresOK(u, cl, cd, acc) /\ Quieter(w, u, cl)
    OBVIOUS
  <2>2. QED
    BY <2>1 DEF WiresOK, Quieter
<1>2. QED
  BY <1>1 DEF WiresOK, Quieter

LEMMA TabClosedKeeps ==
  ASSUME LInv, NEW p \in Peers, TabClosed(p)
  PROVE  LInv'
PROOF
<1> DEFINE t == [OpenTab(tab[p].stored) EXCEPT !.up = FALSE, !.armed = FALSE]
           held == {tab[p].live, tab[p].pend} \ {None}
           kept == {c \in Calls : \/ call[c].from = p /\ call[c].out = "done"
                                  \/ call[c].to = p /\ call[c].inn = "done"}
           f == <<[type |-> "QUIT"]>>
           v == [c \in Calls |-> IF c \in held THEN Sent(wire, c, Other(c, p), f)[c]
                                 ELSE wire[c]]
<1>1. /\ tab' = Put(tab, p, t) /\ accepts' = Put(accepts, p, 0)
      /\ issued' = Put(issued, p, NoIssue) /\ closed' = closed \cup Ends(kept, p)
      /\ wire' = Unread(v, kept, p) /\ access' = [access EXCEPT ![p] = NoAccess]
      /\ UNCHANGED <<call, silent, answered, expired, redeemed, accepted, abandoned,
                     deaf>>
  BY DEF TabClosed, Put, historyVars
<1>2. /\ TabOK(tab[p], p, call, accepted) /\ tab[p] \in Tab
      /\ tab[p].live \in Calls \cup {None} /\ tab[p].pend \in Calls \cup {None}
  BY Peer
<1>3. /\ t \in Tab /\ t.live = None /\ t.pend = None /\ t.ready = FALSE
      /\ t.flight = FALSE /\ t.up = FALSE
  BY <1>2, TabFields DEF OpenTab, Tab
<1>4. closed \subseteq closed' /\ accepted \subseteq accepted'
  BY <1>1
<1>5. held \subseteq kept /\ \A c \in held : <<c, p>> \in closed' /\ c # None
                                             /\ c \in {tab[p].live, tab[p].pend}
  <2>1. held \subseteq kept
    BY <1>2 DEF TabOK, IsPending, IsLive
  <2>2. \A c \in kept : c # None
    BY NoNone
  <2>3. QED
    BY <1>1, <2>1, <2>2 DEF Ends
<1>6. WiresOK(v, call, closed', accepted') /\ Quieter(wire, v, call)
  <2>1. ASSUME NEW c \in Calls
        PROVE  \E u : /\ v[c] = u[c] /\ WiresOK(u, call, closed', accepted')
                      /\ Quieter(wire, u, call)
    <3>1. CASE c \in held
      <4> DEFINE u == Sent(wire, c, Other(c, p), f)
      <4>1. WiresOK(u, call, closed', accepted') /\ Quieter(wire, u, call)
        BY <1>4, <1>5, <3>1, QuitSent
      <4>2. v[c] = u[c]
        BY <3>1
      <4> HIDE DEF u, v
      <4>3. QED
        BY <4>1, <4>2
    <3>2. CASE c \notin held
      <4>1. WiresOK(wire, call, closed', accepted') /\ Quieter(wire, wire, call)
        BY <1>4, WiresLater
      <4>2. v[c] = wire[c]
        BY <3>2
      <4> HIDE DEF v
      <4>3. QED
        BY <4>1, <4>2
    <3>3. QED
      BY <3>1, <3>2
  <2>2. v = [c \in Calls |-> v[c]]
    OBVIOUS
  <2> HIDE DEF v
  <2>3. QED
    BY <2>1, <2>2, WiresPick
<1>7. \A c \in held : Shut(call[c], c, closed')
  BY <1>5, HeldEnds
<1> HIDE DEF v, kept, t
<1>8. WiresOK(wire', call, closed', accepted') /\ Quieter(wire, wire', call)
  BY <1>1, <1>6, UnreadOK
<1>9. \A b \in Calls : b \in {tab[p].live, tab[p].pend} \ {t.live, t.pend}
                         => Shut(call[b], b, closed') \/ b \in abandoned'
  BY <1>3, <1>7
<1>10. TabOK(t, p, call, accepted')
  BY <1>3 DEF TabOK, InFlight, IsPending, IsLive
<1>11. Listens(t, p, 0, call, deaf')
  BY <1>3 DEF Listens
<1>12. RedeemedOK(redeemed', answered) /\ AccessOK(access') /\ Rest'
  <2>1. AccessOK(access')
    BY <1>1 DEF LInv, AccessOK, NoAccess
  <2>2. kept \subseteq Calls
    BY DEF kept
  <2>3. QED
    BY <1>1, <2>1, <2>2 DEF LInv, Rest, Ends
<1>13. {t.live, t.pend} \subseteq {None, tab[p].live, tab[p].pend}
  BY <1>3
<1>14. /\ IssueOK(NoIssue, p, t.pend, answered, redeemed')
       /\ Reserves(NoIssue, p, t.pend, call, wire')
       /\ \A m \in Invites : answered[m] # p /\ Unused(m, redeemed)
                               => Unused(m, redeemed')
  BY <1>1 DEF NoIssue, IssueOK, Issue, IssuedState, Reserves
<1>15. 0 \in Nat
  OBVIOUS
<1>16. QED
  BY <1>1, <1>4, <1>8, <1>9, <1>10, <1>11, <1>12, <1>13, <1>14, <1>15, PeerStep

-----------------------------------------------------------------------------
(* A step in which a call goes on *)

LEMMA EndsCall ==
  ASSUME NEW cl, NEW tb, NEW cd, NEW de, NEW lost,
         EndsOK(cl, tb, cd, lost), cd \subseteq de,
         CallsOK(cl), tb = [q \in Peers |-> tb[q]],
         NEW c \in Calls, NEW k, NEW dl, dl = Put(cl, c, k),
         NEW p \in Peers, NEW t, NEW ub, ub = Put(tb, p, t),
         {t.live, t.pend} \subseteq {None, c, tb[p].live, tb[p].pend},
         \A b \in Calls \ {c} : b \in {tb[p].live, tb[p].pend} \ {t.live, t.pend}
                                  => Shut(cl[b], b, de),
         BothOrShut(c, k, ub, de, lost)
  PROVE  EndsOK(dl, ub, de, lost)
PROOF
<1>1. /\ \A q \in Peers : ub[q] = IF q = p THEN t ELSE tb[q]
      /\ \A b \in Calls : dl[b] = IF b = c THEN k ELSE cl[b]
  <2>1. cl = [b \in Calls |-> cl[b]]
    BY DEF CallsOK
  <2>2. QED
    BY <2>1 DEF Put
<1>2. ASSUME NEW b \in Calls \ {c}
      PROVE  BothOrShut(b, cl[b], ub, de, lost)
  <2>1. BothOrShut(b, cl[b], tb, cd, lost)
    BY DEF EndsOK
  <2>2. CASE Shut(cl[b], b, de)
    BY <2>2 DEF BothOrShut
  <2>3. CASE cl[b].out = "unused"
    BY <2>3 DEF BothOrShut
  <2>4. CASE ~Shut(cl[b], b, de) /\ cl[b].out # "unused"
    <3>1. b # None /\ cl[b].from \in Peers /\ cl[b].to \in Peers
      BY <2>4, NoNone DEF CallsOK, CallOK
    <3>2. b \in {t.live, t.pend} <=> b \in {tb[p].live, tb[p].pend}
      BY <2>4, <3>1
    <3>3. \A q \in Peers : HasIt(ub[q], q, cl[b], b) <=> HasIt(tb[q], q, cl[b], b)
      BY <1>1, <3>2 DEF HasIt
    <3>4. /\ HasIt(ub[cl[b].from], cl[b].from, cl[b], b)
             <=> HasIt(tb[cl[b].from], cl[b].from, cl[b], b)
          /\ HasIt(ub[cl[b].to], cl[b].to, cl[b], b)
             <=> HasIt(tb[cl[b].to], cl[b].to, cl[b], b)
      BY <3>1, <3>3
    <3>5. QED
      BY <2>1, <3>4, EndKept
  <2>5. QED
    BY <2>2, <2>3, <2>4
<1>3. QED
  BY <1>1, <1>2 DEF EndsOK

LEMMA CallStep ==
  ASSUME LInv, NEW c \in Calls, NEW k, CallOK(k), Advances(call[c], k),
         call' = Put(call, c, k),
         NEW p \in Peers, NEW t, NEW n \in Nat, NEW i, tab' = Put(tab, p, t),
         accepts' = Put(accepts, p, n), issued' = Put(issued, p, i),
         UNCHANGED <<silent, answered, expired, redeemed, historyVars>>,
         closed \subseteq closed', closed' \subseteq Calls \X Peers,
         TabOK(t, p, call', accepted),
         \A q \in Peers \ {p} : tab[q].flight /\ tab[q].cur = c
                                  => k.out \in {"dialing", "up"},
         WiresOK(wire', call', closed', accepted), Quieter(wire, wire', call),
         {t.live, t.pend} \subseteq {None, c, tab[p].live, tab[p].pend},
         \A b \in Calls \ {c} : b \in {tab[p].live, tab[p].pend} \ {t.live, t.pend}
                                  => Shut(call[b], b, closed'),
         BothOrShut(c, k, tab', closed', silent \cup abandoned),
         Listens(t, p, n, call', deaf),
         call[c].inn = "arriving" /\ call[c].to # p =>
           k.inn = "arriving" /\ k.to = call[c].to,
         IssueOK(i, p, t.pend, answered, redeemed),
         Reserves(i, p, t.pend, call', wire'),
         AccessOK(access')
  PROVE  LInv'
PROOF
<1>1. /\ CallsOK(call) /\ TabsOK(tab, call, accepted)
      /\ EndsOK(call, tab, closed, silent \cup abandoned)
      /\ AcceptsOK(accepts, tab, call, deaf)
      /\ IssuedOK(issued, tab, answered, redeemed, call, wire)
      /\ AnsweredOK(answered) /\ RedeemedOK(redeemed, answered) /\ Rest
  BY DEF LInv
<1>2. tab = [q \in Peers |-> tab[q]]
  BY Peer
<1>3. \A b \in Calls : call'[b] = IF b = c THEN k ELSE call[b]
  BY <1>1 DEF CallsOK, Put
<1>4. CallsOK(call')
  BY <1>1, <1>3 DEF CallsOK, Put
<1>5. \A b \in Calls : Advances(call[b], call'[b])
  BY <1>3, NoAdvance
<1>6. TabsOK(tab', call', accepted)
  <2>1. ASSUME NEW q \in Peers \ {p}, tab[q].flight
        PROVE  call'[tab[q].cur].out \in {"dialing", "up"}
    <3>1. tab[q].cur \in Calls /\ call[tab[q].cur].out \in {"dialing", "up"}
      <4>1. TabOK(tab[q], q, call, accepted) /\ tab[q].cur \in Calls \cup {None}
        BY Peer
      <4>2. QED
        BY <2>1, <4>1 DEF TabOK, InFlight
    <3>2. QED
      BY <1>3, <2>1, <3>1
  <2>2. QED
    BY <1>1, <1>5, <2>1, TabsStep
<1>7. EndsOK(call', tab', closed', silent \cup abandoned)
  BY <1>1, <1>2, EndsCall
<1>8. AcceptsOK(accepts', tab', call', deaf)
  <2>1. \A q \in Peers \ {p}, b \in Calls :
          call[b].to = q /\ call[b].inn = "arriving" =>
            call'[b].to = q /\ call'[b].inn = "arriving"
    BY <1>3
  <2>2. QED
    BY <1>1, <1>2, <2>1, AcceptsStep
<1>9. IssuedOK(issued', tab', answered, redeemed, call', wire')
  BY <1>1, <1>5, AllPends, IssuedStep
<1>10. Rest' /\ UNCHANGED <<accepted, abandoned, deaf>>
  BY <1>1 DEF Rest, historyVars
<1>11. QED
  BY <1>1, <1>4, <1>6, <1>7, <1>8, <1>9, <1>10 DEF LInv

(* What the tab of p has when it keeps what it has while call c goes on.   *)
LEMMA PeerKept ==
  ASSUME LInv, NEW p \in Peers, NEW dl, \A b \in Calls : Advances(call[b], dl[b]),
         Quieter(wire, wire', call)
  PROVE  /\ tab = Put(tab, p, tab[p]) /\ accepts = Put(accepts, p, accepts[p])
         /\ accepts[p] \in Nat
         /\ issued = Put(issued, p, issued[p])
         /\ IssueOK(issued[p], p, tab[p].pend, answered, redeemed)
         /\ Reserves(issued[p], p, tab[p].pend, dl, wire')
         /\ AccessOK(access)
PROOF
<1>1. /\ tab = [q \in Peers |-> tab[q]] /\ accepts \in [Peers -> Nat]
      /\ issued = [q \in Peers |-> issued[q]]
      /\ IssueOK(issued[p], p, tab[p].pend, answered, redeemed)
      /\ Reserves(issued[p], p, tab[p].pend, call, wire)
      /\ tab[p].pend \in Calls \cup {None}
  BY Peer
<1>2. Reserves(issued[p], p, tab[p].pend, dl, wire')
  BY <1>1, ReservesKept
<1>3. tab = Put(tab, p, tab[p]) /\ issued = Put(issued, p, issued[p])
  BY <1>1, PutSame
<1>4. accepts = Put(accepts, p, accepts[p])
  <2>1. accepts = [q \in Peers |-> accepts[q]]
    BY <1>1
  <2>2. QED
    BY <2>1, PutSame
<1>5. QED
  BY <1>1, <1>2, <1>3, <1>4 DEF LInv

(* Calls that go on, and their frames. *)
LEMMA CallsAdvance ==
  ASSUME LInv, NEW c \in Calls, NEW k, Advances(call[c], k), call' = Put(call, c, k),
         closed \subseteq closed'
  PROVE  /\ \A b \in Calls : call'[b] = IF b = c THEN k ELSE call[b]
         /\ \A b \in Calls : Advances(call[b], call'[b])
         /\ WiresOK(wire, call', closed', accepted)
         /\ Quieter(wire, wire, call)
PROOF
<1>1. CallsOK(call) /\ WiresOK(wire, call, closed, accepted)
  BY DEF LInv
<1>2. \A b \in Calls : call'[b] = IF b = c THEN k ELSE call[b]
  BY <1>1 DEF CallsOK, Put
<1>3. \A b \in Calls : Advances(call[b], call'[b])
  BY <1>2, NoAdvance
<1>4. QED
  BY <1>1, <1>2, <1>3, WiresKept, QuieterSelf

-----------------------------------------------------------------------------
(* Calling *)

LEMMA CallFields ==
  ASSUME LInv, NEW c \in Calls
  PROVE  /\ CallOK(call[c]) /\ call[c] \in Call
         /\ DOMAIN call[c] = {"from", "to", "out", "inn"}
         /\ call[c].out # "unused" => /\ call[c].from \in Peers /\ call[c].to \in Peers
                                      /\ call[c].from # call[c].to
PROOF
<1>1. CallOK(call[c]) /\ call[c] \in Call
  BY DEF LInv, CallsOK, CallOK
<1>2. QED
  BY <1>1 DEF CallOK, Call

(* A call that is not through is held by nobody. *)
LEMMA NotHeld ==
  ASSUME LInv, NEW c \in Calls, call[c].out # "done", call[c].inn # "done",
         NEW q \in Peers
  PROVE  c \notin {tab[q].live, tab[q].pend}
PROOF
<1>1. TabOK(tab[q], q, call, accepted) /\ c # None
  BY Peer, NoNone
<1>2. QED
  BY <1>1 DEF TabOK, IsPending, IsLive

(* Only its caller has a call in flight. *)
LEMMA InFlightFrom ==
  ASSUME LInv, NEW q \in Peers, tab[q].flight
  PROVE  /\ tab[q].up /\ tab[q].live = None /\ tab[q].pend = None
         /\ tab[q].cur \in Calls /\ call[tab[q].cur].from = q
         /\ call[tab[q].cur].out \in {"dialing", "up"}
PROOF
<1>1. TabOK(tab[q], q, call, accepted) /\ tab[q].cur \in Calls \cup {None}
  BY Peer
<1>2. QED
  BY <1>1 DEF TabOK, InFlight

LEMMA StartConnectKeeps ==
  ASSUME LInv, NEW p \in Peers, NEW q \in Peers, NEW c \in Calls,
         StartConnect(p, q, c), AccessOK(access'),
         UNCHANGED <<issued, answered, expired, redeemed>>
  PROVE  LInv'
PROOF
<1> DEFINE k == [from |-> p, to |-> q, out |-> "dialing", inn |-> "none"]
           t == [tab[p] EXCEPT !.flight = TRUE, !.cur = c]
           n == accepts[p]
           i == issued[p]
<1>1. /\ tab[p].up /\ tab[p].live = None /\ tab[p].pend = None
      /\ p # q /\ call[c].out = "unused"
      /\ call' = Put(call, c, k)
      /\ UNCHANGED <<accepts, wire, closed, silent, historyVars>>
  BY DEF StartConnect, CanStart, Put
<1>2. tab' = Put(tab, p, t)
  BY DEF StartConnect, Put
<1>3. call[c] = UnusedCall /\ call[c].inn = "none"
  BY <1>1, CallFields DEF CallOK
<1>4. CallOK(k) /\ Advances(call[c], k)
  BY <1>1, <1>3 DEF CallOK, Call, Advances
<1>5. /\ \A b \in Calls : call'[b] = IF b = c THEN k ELSE call[b]
      /\ \A b \in Calls : Advances(call[b], call'[b])
      /\ WiresOK(wire, call', closed', accepted)
      /\ Quieter(wire, wire, call)
  <2>1. closed \subseteq closed'
    BY <1>1
  <2> HIDE DEF k
  <2>2. QED
    BY <1>1, <1>4, <2>1, CallsAdvance
<1>6. TabOK(tab[p], p, call, accepted) /\ tab[p] \in Tab
  BY Peer
<1>7. /\ t \in Tab /\ t.up = tab[p].up /\ t.live = None /\ t.pend = None
      /\ t.flight = TRUE /\ t.cur = c /\ t.armed = tab[p].armed
      /\ t.ready = tab[p].ready
  BY <1>1, <1>6, TabFields DEF Tab
<1>8. call'[c].from = p /\ call'[c].out = "dialing" /\ c # None
  BY <1>5, NoNone
<1>9. k.out = "dialing"
  OBVIOUS
<1> HIDE DEF t, k
<1>10. TabOK(t, p, call', accepted)
  BY <1>1, <1>6, <1>7, <1>8 DEF TabOK, InFlight, IsPending, IsLive
<1>11. /\ tab = Put(tab, p, tab[p]) /\ accepts = Put(accepts, p, n) /\ n \in Nat
       /\ issued = Put(issued, p, i)
       /\ IssueOK(i, p, tab[p].pend, answered, redeemed)
       /\ Reserves(i, p, tab[p].pend, call', wire')
  BY <1>1, <1>5, PeerKept
<1>12. Listens(tab[p], p, n, call, deaf)
  BY DEF LInv, AcceptsOK
<1>13. Listens(t, p, n, call', deaf)
  BY <1>3, <1>5, <1>7, <1>12 DEF Listens
<1>14. BothOrShut(c, k, tab', closed', silent \cup abandoned)
  BY <1>9 DEF BothOrShut
<1>15. /\ closed \subseteq closed' /\ closed' \subseteq Calls \X Peers
       /\ UNCHANGED <<silent, answered, expired, redeemed, historyVars>>
       /\ accepts' = Put(accepts, p, n) /\ issued' = Put(issued, p, i)
       /\ WiresOK(wire', call', closed', accepted) /\ Quieter(wire, wire', call)
  BY <1>1, <1>5, <1>11 DEF LInv, Rest
<1>16. /\ {t.live, t.pend} \subseteq {None, c, tab[p].live, tab[p].pend}
       /\ \A b \in Calls \ {c} : b \in {tab[p].live, tab[p].pend} \ {t.live, t.pend}
                                   => Shut(call[b], b, closed')
       /\ \A r \in Peers \ {p} : tab[r].flight /\ tab[r].cur = c
                                   => k.out \in {"dialing", "up"}
       /\ call[c].inn = "arriving" /\ call[c].to # p =>
            k.inn = "arriving" /\ k.to = call[c].to
  BY <1>1, <1>3, <1>7, <1>9
<1>17. IssueOK(i, p, t.pend, answered, redeemed) /\ Reserves(i, p, t.pend, call', wire')
  BY <1>1, <1>7, <1>11
<1> HIDE DEF n, i
<1>18. QED
  BY <1>1, <1>2, <1>4, <1>10, <1>11, <1>13, <1>14, <1>15, <1>16, <1>17, CallStep

LEMMA ConnectKeeps ==
  ASSUME LInv, NEW p \in Peers, NEW q \in Peers, NEW c \in Calls, Connect(p, q, c)
  PROVE  LInv'
PROOF
<1>1. StartConnect(p, q, c) /\ UNCHANGED <<issued, answered, expired, redeemed>>
  BY DEF Connect
<1>2. AccessOK(access')
  BY DEF LInv, AccessOK, Connect
<1>3. QED
  BY <1>1, <1>2, StartConnectKeeps

LEMMA ConnectResponseKeeps ==
  ASSUME LInv, NEW p \in Peers, NEW c \in Calls, ConnectResponse(p, c)
  PROVE  LInv'
PROOF
<1> DEFINE n == access[p].request
<1>1. n \in Invites /\ answered[n] \in Peers
  BY Peer DEF ConnectResponse, ResponseOpens, LInv, AnsweredOK
<1>2. /\ StartConnect(p, answered[n], c)
      /\ UNCHANGED <<issued, answered, expired, redeemed>>
      /\ access' = [access EXCEPT ![p] = [outgoing |-> n, request |-> None]]
  BY DEF ConnectResponse
<1> HIDE DEF n
<1>3. AccessOK(access')
  BY <1>1, <1>2 DEF LInv, AccessOK
<1>4. QED
  BY <1>1, <1>2, <1>3, StartConnectKeeps

(* The call as it goes on. *)
LEMMA CallGoesOn ==
  ASSUME LInv, NEW c \in Calls, NEW k, call[c].out # "unused",
         \/ k = [call[c] EXCEPT !.out = "up", !.inn = "arriving"] /\ call[c].out = "dialing"
         \/ k = [call[c] EXCEPT !.out = "done"]
         \/ k = [call[c] EXCEPT !.inn = "done"] /\ call[c].out # "dialing"
  PROVE  /\ CallOK(k) /\ Advances(call[c], k)
         /\ k.from = call[c].from /\ k.to = call[c].to
         /\ k.from \in Peers /\ k.to \in Peers /\ k.from # k.to
PROOF
<1>1. /\ call[c] \in Call /\ DOMAIN call[c] = {"from", "to", "out", "inn"}
      /\ call[c].from \in Peers /\ call[c].to \in Peers /\ call[c].from # call[c].to
      /\ call[c].out = "dialing" => call[c].inn = "none"
  BY CallFields DEF CallOK
<1>2. CASE k = [call[c] EXCEPT !.out = "up", !.inn = "arriving"] /\ call[c].out = "dialing"
  <2>1. k \in Call /\ k.from = call[c].from /\ k.to = call[c].to
        /\ k.out = "up" /\ k.inn = "arriving"
    BY <1>1, <1>2 DEF Call
  <2>2. QED
    BY <1>1, <1>2, <2>1 DEF CallOK, Advances
<1>3. CASE k = [call[c] EXCEPT !.out = "done"]
  <2>1. k \in Call /\ k.from = call[c].from /\ k.to = call[c].to
        /\ k.out = "done" /\ k.inn = call[c].inn
    BY <1>1, <1>3 DEF Call
  <2>2. QED
    BY <1>1, <2>1 DEF CallOK, Advances
<1>4. CASE k = [call[c] EXCEPT !.inn = "done"] /\ call[c].out # "dialing"
  <2>1. k \in Call /\ k.from = call[c].from /\ k.to = call[c].to
        /\ k.out = call[c].out /\ k.inn = "done"
    BY <1>1, <1>4 DEF Call
  <2>2. QED
    BY <1>1, <1>4, <2>1 DEF CallOK, Advances
<1>5. QED
  BY <1>2, <1>3, <1>4

LEMMA RouterConnectsKeeps ==
  ASSUME LInv, NEW c \in Calls, RouterConnects(c)
  PROVE  LInv'
PROOF
<1> DEFINE k == [call[c] EXCEPT !.out = "up", !.inn = "arriving"]
           p == call[c].to
           t == tab[p]
           n == accepts[p] - 1
           i == issued[p]
<1>1. /\ call[c].out = "dialing" /\ accepts[p] > 0
      /\ call' = Put(call, c, k) /\ accepts' = Put(accepts, p, n)
      /\ UNCHANGED <<tab, wire, closed, silent, access, issued, answered, expired,
                     redeemed, historyVars>>
  BY DEF RouterConnects, Put, rendezvousVars
<1>2. /\ p \in Peers /\ call[c].inn = "none" /\ call[c] \in Call
      /\ DOMAIN call[c] = {"from", "to", "out", "inn"}
  BY <1>1, CallFields DEF CallOK
<1>3. /\ CallOK(k) /\ Advances(call[c], k)
      /\ k.from = call[c].from /\ k.to = p
  BY <1>1, CallGoesOn
<1>4. k.out = "up" /\ k.inn = "arriving"
  BY <1>2 DEF Call
<1>5. /\ \A b \in Calls : call'[b] = IF b = c THEN k ELSE call[b]
      /\ \A b \in Calls : Advances(call[b], call'[b])
      /\ WiresOK(wire, call', closed', accepted)
      /\ Quieter(wire, wire, call)
  <2>1. closed \subseteq closed'
    BY <1>1
  <2> HIDE DEF k
  <2>2. QED
    BY <1>1, <1>3, <2>1, CallsAdvance
<1> HIDE DEF k
<1>6. WiresOK(wire', call', closed', accepted) /\ Quieter(wire, wire', call)
  BY <1>1, <1>5
<1>7. /\ tab = Put(tab, p, t) /\ accepts[p] \in Nat
      /\ issued = Put(issued, p, i)
      /\ IssueOK(i, p, t.pend, answered, redeemed)
      /\ Reserves(i, p, t.pend, call', wire')
      /\ AccessOK(access)
  BY <1>2, <1>5, <1>6, PeerKept
<1>8. n \in Nat
  BY <1>1, <1>7
<1>9. TabOK(t, p, call', accepted)
  <2>1. TabOK(t, p, call, accepted)
    BY <1>2, Peer
  <2>2. t.flight => call'[t.cur].out \in {"dialing", "up"}
    BY <1>2, <1>4, <1>5, InFlightFrom
  <2>3. QED
    BY <1>2, <1>5, <2>1, <2>2, TabKept
<1>10. BothOrShut(c, k, tab', closed', silent \cup abandoned)
  BY <1>3, <1>4 DEF BothOrShut, HasIt
<1>11. Listens(t, p, n, call', deaf)
  BY <1>3, <1>4, <1>5 DEF Listens
<1>12. /\ closed \subseteq closed' /\ closed' \subseteq Calls \X Peers
       /\ UNCHANGED <<silent, answered, expired, redeemed, historyVars>>
       /\ tab' = Put(tab, p, t) /\ issued' = Put(issued, p, i) /\ AccessOK(access')
  BY <1>1, <1>7 DEF LInv, Rest
<1>13. /\ {t.live, t.pend} \subseteq {None, c, tab[p].live, tab[p].pend}
       /\ \A b \in Calls \ {c} : b \in {tab[p].live, tab[p].pend} \ {t.live, t.pend}
                                   => Shut(call[b], b, closed')
       /\ \A r \in Peers \ {p} : tab[r].flight /\ tab[r].cur = c
                                   => k.out \in {"dialing", "up"}
       /\ call[c].inn = "arriving" /\ call[c].to # p =>
            k.inn = "arriving" /\ k.to = call[c].to
  BY <1>2, <1>4
<1>14. /\ p \in Peers /\ call' = Put(call, c, k) /\ accepts' = Put(accepts, p, n)
       /\ IssueOK(i, p, t.pend, answered, redeemed)
       /\ Reserves(i, p, t.pend, call', wire')
  BY <1>1, <1>2, <1>7
<1> HIDE DEF t, n, i, p
<1>15. QED
  BY <1>3, <1>6, <1>8, <1>9, <1>10, <1>11, <1>12, <1>13, <1>14, CallStep

LEMMA ConnectFailsKeeps ==
  ASSUME LInv, NEW c \in Calls, ConnectFails(c)
  PROVE  LInv'
PROOF
<1> DEFINE k == [call[c] EXCEPT !.out = "done"]
           p == call[c].from
           g == tab[p].flight /\ tab[p].cur # c
           t == [tab[p] EXCEPT !.flight = g]
           n == accepts[p]
           i == issued[p]
<1>1. /\ call[c].out = "dialing" /\ call' = Put(call, c, k)
      /\ UNCHANGED <<accepts, wire, closed, silent, access, issued, answered,
                     expired, redeemed, historyVars>>
  BY DEF ConnectFails, Put, rendezvousVars
<1>2. tab' = Put(tab, p, t)
  BY Zenon DEF ConnectFails, Put
<1>3. /\ p \in Peers /\ call[c].inn = "none" /\ call[c] \in Call
      /\ DOMAIN call[c] = {"from", "to", "out", "inn"}
  BY <1>1, CallFields DEF CallOK
<1>4. /\ CallOK(k) /\ Advances(call[c], k)
      /\ k.from = p /\ k.to = call[c].to /\ k.to \in Peers /\ k.from # k.to
  BY <1>1, CallGoesOn
<1>5. k.out = "done" /\ k.inn = "none"
  BY <1>3 DEF Call
<1>6. /\ \A b \in Calls : call'[b] = IF b = c THEN k ELSE call[b]
      /\ \A b \in Calls : Advances(call[b], call'[b])
      /\ WiresOK(wire, call', closed', accepted)
      /\ Quieter(wire, wire, call)
  <2>1. closed \subseteq closed'
    BY <1>1
  <2> HIDE DEF k
  <2>2. QED
    BY <1>1, <1>4, <2>1, CallsAdvance
<1> HIDE DEF k
<1>7. WiresOK(wire', call', closed', accepted) /\ Quieter(wire, wire', call)
  BY <1>1, <1>6
<1>8. /\ accepts = Put(accepts, p, n) /\ n \in Nat
      /\ issued = Put(issued, p, i)
      /\ IssueOK(i, p, tab[p].pend, answered, redeemed)
      /\ Reserves(i, p, tab[p].pend, call', wire')
      /\ AccessOK(access)
  BY <1>3, <1>6, <1>7, PeerKept
<1>9. TabOK(tab[p], p, call, accepted) /\ tab[p] \in Tab
  BY <1>3, Peer
<1>10. /\ t.flight = g /\ g \in BOOLEAN
       /\ t.live = tab[p].live /\ t.pend = tab[p].pend /\ t.cur = tab[p].cur
       /\ t.up = tab[p].up /\ t.armed = tab[p].armed /\ t.ready = tab[p].ready
       /\ t \in Tab
  <2>1. g \in BOOLEAN
    OBVIOUS
  <2> HIDE DEF g
  <2>2. QED
    BY <1>9, <2>1, TabFields DEF Tab
<1>11. TabOK(t, p, call', accepted)
  <2>1. TabOK(t, p, call, accepted)
    BY <1>9, <1>10 DEF TabOK, InFlight, IsPending, IsLive
  <2>2. ASSUME t.flight
        PROVE  call'[t.cur].out \in {"dialing", "up"}
    <3>1. tab[p].flight /\ tab[p].cur # c
      BY <1>10, <2>2
    <3>2. tab[p].cur \in Calls /\ call[tab[p].cur].out \in {"dialing", "up"}
      BY <1>3, <3>1, InFlightFrom
    <3> HIDE DEF t
    <3>3. QED
      BY <1>6, <1>10, <3>1, <3>2
  <2> HIDE DEF t
  <2>3. QED
    BY <1>3, <1>6, <2>1, <2>2, TabKept
<1>12. Listens(t, p, n, call', deaf)
  <2>1. Listens(tab[p], p, n, call, deaf)
    BY <1>3 DEF LInv, AcceptsOK
  <2>2. \A b \in Calls : call[b].to = p /\ call[b].inn = "arriving" =>
                           call'[b].to = p /\ call'[b].inn = "arriving"
    BY <1>3, <1>6
  <2> HIDE DEF t, n
  <2>3. QED
    BY <1>10, <2>1, <2>2 DEF Listens
<1>13. BothOrShut(c, k, tab', closed', silent \cup abandoned)
  <2>1. \A q \in Peers : c \notin {tab[q].live, tab[q].pend}
    BY <1>1, <1>3, NotHeld
  <2>2. \A q \in Peers : tab'[q].live = tab[q].live /\ tab'[q].pend = tab[q].pend
    <3>1. tab = [q \in Peers |-> tab[q]]
      BY <1>3, Peer
    <3> HIDE DEF t
    <3>2. \A q \in Peers : tab'[q] = IF q = p THEN t ELSE tab[q]
      BY <1>2, <3>1 DEF Put
    <3>3. QED
      BY <1>10, <3>2
  <2>3. ~HasIt(tab'[k.from], k.from, k, c) /\ ~HasIt(tab'[k.to], k.to, k, c)
    BY <1>3, <1>4, <1>5, <2>1, <2>2 DEF HasIt
  <2>4. QED
    BY <2>3 DEF BothOrShut
<1>14. /\ closed \subseteq closed' /\ closed' \subseteq Calls \X Peers
       /\ UNCHANGED <<silent, answered, expired, redeemed, historyVars>>
       /\ accepts' = Put(accepts, p, n) /\ issued' = Put(issued, p, i)
       /\ AccessOK(access')
       /\ IssueOK(i, p, t.pend, answered, redeemed)
       /\ Reserves(i, p, t.pend, call', wire')
  BY <1>1, <1>8, <1>10 DEF LInv, Rest
<1>15. /\ {t.live, t.pend} \subseteq {None, c, tab[p].live, tab[p].pend}
       /\ \A b \in Calls \ {c} : b \in {tab[p].live, tab[p].pend} \ {t.live, t.pend}
                                   => Shut(call[b], b, closed')
       /\ call[c].inn = "arriving" /\ call[c].to # p =>
            k.inn = "arriving" /\ k.to = call[c].to
  BY <1>3, <1>10
<1>16. \A r \in Peers \ {p} : tab[r].flight /\ tab[r].cur = c
                                => k.out \in {"dialing", "up"}
  BY InFlightFrom
<1>17. p \in Peers
  BY <1>3
<1> HIDE DEF t, n, i, p
<1>18. QED
  BY <1>1, <1>2, <1>4, <1>7, <1>8, <1>11, <1>12, <1>13, <1>14, <1>15, <1>16, <1>17,
     CallStep, ZenonT(60)

(* The end of p of a call that goes on is closed, the tab as it is. *)
LEMMA EndClosed ==
  ASSUME LInv, NEW c \in Calls, NEW p \in Peers, NEW k, call[c].out # "unused",
         \/ k = [call[c] EXCEPT !.out = "done"] /\ p = call[c].from
         \/ k = [call[c] EXCEPT !.inn = "done"] /\ call[c].out # "dialing"
            /\ p = call[c].to,
         ~(tab[p].flight /\ tab[p].cur = c) \/ k.out = call[c].out,
         call' = Put(call, c, k),
         closed' = closed \cup Ends({c}, p), wire' = Unread(wire, {c}, p),
         NEW t, tab' = Put(tab, p, t), NEW n \in Nat, accepts' = Put(accepts, p, n),
         TabOK(t, p, call, accepted), t.live = tab[p].live, t.pend = tab[p].pend,
         t.flight = tab[p].flight, t.cur = tab[p].cur,
         Listens(t, p, n, call', deaf),
         UNCHANGED <<silent, access, issued, answered, expired, redeemed, historyVars>>
  PROVE  LInv'
PROOF
<1> DEFINE i == issued[p]
<1>1. /\ CallOK(k) /\ Advances(call[c], k)
      /\ k.from = call[c].from /\ k.to = call[c].to
  BY CallGoesOn
<1>2. closed \subseteq closed' /\ <<c, p>> \in closed' /\ closed' \subseteq Calls \X Peers
  BY NoNone DEF LInv, Rest, Ends
<1>3. /\ \A b \in Calls : call'[b] = IF b = c THEN k ELSE call[b]
      /\ \A b \in Calls : Advances(call[b], call'[b])
      /\ WiresOK(wire, call', closed', accepted)
      /\ Quieter(wire, wire, call)
  BY <1>1, <1>2, CallsAdvance
<1>4. WiresOK(wire', call', closed', accepted) /\ Quieter(wire, wire', call)
  BY <1>3, WiresUnread, QuieterUnread
<1>5. /\ issued = Put(issued, p, i)
      /\ IssueOK(i, p, tab[p].pend, answered, redeemed)
      /\ Reserves(i, p, tab[p].pend, call', wire')
      /\ AccessOK(access)
  BY <1>3, <1>4, PeerKept
<1>6. TabOK(t, p, call', accepted)
  <2>1. ASSUME t.flight
        PROVE  call'[t.cur].out \in {"dialing", "up"}
    <3>1. tab[p].flight
      BY <2>1
    <3>2. tab[p].cur \in Calls /\ call[tab[p].cur].out \in {"dialing", "up"}
      BY <3>1, InFlightFrom
    <3>3. QED
      BY <1>3, <3>1, <3>2
  <2>2. QED
    BY <1>3, <2>1, TabKept
<1>7. BothOrShut(c, k, tab', closed', silent \cup abandoned)
  <2>1. Shut(k, c, closed')
    BY <1>1, <1>2 DEF Shut
  <2>2. QED
    BY <2>1 DEF BothOrShut
<1>8. \A r \in Peers \ {p} : tab[r].flight /\ tab[r].cur = c
                               => k.out \in {"dialing", "up"}
  <2>1. ASSUME NEW r \in Peers \ {p}, tab[r].flight, tab[r].cur = c
        PROVE  k.out \in {"dialing", "up"}
    <3>1. call[c].from = r /\ call[c].out \in {"dialing", "up"}
      BY <2>1, InFlightFrom
    <3>2. k = [call[c] EXCEPT !.inn = "done"]
      BY <2>1, <3>1
    <3>3. k.out = call[c].out
      BY <3>2, CallFields
    <3>4. QED
      BY <3>1, <3>3
  <2>2. QED
    BY <2>1
<1>9. call[c].inn = "arriving" /\ call[c].to # p => k.inn = "arriving" /\ k.to = call[c].to
  <2>1. ASSUME call[c].inn = "arriving", call[c].to # p
        PROVE  k.inn = "arriving"
    <3>1. k = [call[c] EXCEPT !.out = "done"]
      BY <2>1
    <3>2. k.inn = call[c].inn
      BY <3>1, CallFields
    <3>3. QED
      BY <2>1, <3>2
  <2>2. QED
    BY <1>1, <2>1
<1>10. /\ {t.live, t.pend} \subseteq {None, c, tab[p].live, tab[p].pend}
       /\ \A b \in Calls \ {c} : b \in {tab[p].live, tab[p].pend} \ {t.live, t.pend}
                                   => Shut(call[b], b, closed')
       /\ issued' = Put(issued, p, i) /\ AccessOK(access')
       /\ IssueOK(i, p, t.pend, answered, redeemed)
       /\ Reserves(i, p, t.pend, call', wire')
       /\ UNCHANGED <<silent, answered, expired, redeemed, historyVars>>
  BY <1>5
<1> HIDE DEF i
<1>11. QED
  BY <1>1, <1>2, <1>4, <1>6, <1>7, <1>8, <1>9, <1>10, CallStep

(* p keeps its tab and its accept tasks. *)
LEMMA AsItIs ==
  ASSUME LInv, NEW p \in Peers
  PROVE  /\ tab = Put(tab, p, tab[p]) /\ TabOK(tab[p], p, call, accepted)
         /\ accepts = Put(accepts, p, accepts[p]) /\ accepts[p] \in Nat
         /\ Listens(tab[p], p, accepts[p], call, deaf)
PROOF
<1>1. /\ tab = [q \in Peers |-> tab[q]] /\ TabOK(tab[p], p, call, accepted)
      /\ accepts \in [Peers -> Nat]
  BY Peer
<1>2. accepts = [q \in Peers |-> accepts[q]]
  BY <1>1
<1>3. tab = Put(tab, p, tab[p]) /\ accepts = Put(accepts, p, accepts[p])
  BY <1>1, <1>2, PutSame
<1>4. QED
  BY <1>1, <1>3 DEF LInv, AcceptsOK

LEMMA ConnectStaleKeeps ==
  ASSUME LInv, NEW c \in Calls, ConnectStale(c)
  PROVE  LInv'
PROOF
<1> DEFINE k == [call[c] EXCEPT !.out = "done"]
           p == call[c].from
           t == tab[p]
           n == accepts[p]
<1>1. /\ call[c].out = "up" /\ ~CurrentAttempt(c) /\ call' = Put(call, c, k)
      /\ closed' = closed \cup Ends({c}, p) /\ wire' = Unread(wire, {c}, p)
      /\ UNCHANGED <<tab, accepts>>
      /\ UNCHANGED <<silent, access, issued, answered, expired, redeemed, historyVars>>
  BY DEF ConnectStale, Put, rendezvousVars
<1>2. /\ p \in Peers /\ call[c].out # "unused"
      /\ DOMAIN call[c] = {"from", "to", "out", "inn"} /\ call[c].from # call[c].to
  BY <1>1, CallFields
<1>3. ~(tab[p].flight /\ tab[p].cur = c)
  <2>1. tab[p].flight => tab[p].up
    BY <1>2, InFlightFrom
  <2>2. QED
    BY <1>1, <2>1 DEF CurrentAttempt
<1>4. /\ tab = Put(tab, p, t) /\ TabOK(t, p, call, accepted)
      /\ accepts = Put(accepts, p, n) /\ n \in Nat /\ Listens(t, p, n, call, deaf)
  BY <1>2, AsItIs
<1>5. \A b \in Calls : call[b].to = p /\ call[b].inn = "arriving" =>
                         call'[b].to = p /\ call'[b].inn = "arriving"
  BY <1>1, <1>2 DEF LInv, CallsOK, Put
<1>6. Listens(t, p, n, call', deaf)
  BY <1>4, <1>5 DEF Listens
<1>7. k = [call[c] EXCEPT !.out = "done"] /\ p = call[c].from
  OBVIOUS
<1>8. tab' = Put(tab, p, t) /\ accepts' = Put(accepts, p, n)
      /\ t.live = tab[p].live /\ t.pend = tab[p].pend
      /\ t.flight = tab[p].flight /\ t.cur = tab[p].cur
  BY <1>1, <1>4
<1> HIDE DEF k, p, t, n
<1>9. QED
  BY <1>1, <1>2, <1>3, <1>4, <1>6, <1>7, <1>8, EndClosed

LEMMA ArrivingCall ==
  ASSUME LInv, NEW c \in Calls, call[c].inn = "arriving"
  PROVE  /\ call[c].out \notin {"unused", "dialing"}
         /\ call[c].from \in Peers /\ call[c].to \in Peers /\ call[c].from # call[c].to
         /\ DOMAIN call[c] = {"from", "to", "out", "inn"}
         /\ call[c].out \in {"up", "done"}
PROOF
<1>1. CallOK(call[c]) /\ call[c].out # "unused"
  BY CallFields DEF CallOK
<1>2. QED
  BY <1>1, CallFields DEF CallOK, Call

LEMMA IncomingTooLateKeeps ==
  ASSUME LInv, NEW c \in Calls, IncomingTooLate(c)
  PROVE  LInv'
PROOF
<1> DEFINE k == [call[c] EXCEPT !.inn = "done"]
           p == call[c].to
           t == tab[p]
           n == accepts[p]
<1>1. /\ call[c].inn = "arriving" /\ ~tab[p].up /\ call' = Put(call, c, k)
      /\ closed' = closed \cup Ends({c}, p) /\ wire' = Unread(wire, {c}, p)
      /\ UNCHANGED <<tab, accepts>>
      /\ UNCHANGED <<silent, access, issued, answered, expired, redeemed, historyVars>>
  BY DEF IncomingTooLate, Arrives, Put
<1>2. /\ p \in Peers /\ call[c].out \notin {"unused", "dialing"}
      /\ DOMAIN call[c] = {"from", "to", "out", "inn"}
  BY <1>1, ArrivingCall
<1>3. k.out = call[c].out
  BY <1>2
<1>4. /\ tab = Put(tab, p, t) /\ TabOK(t, p, call, accepted)
      /\ accepts = Put(accepts, p, n) /\ n \in Nat
  BY <1>2, AsItIs
<1>5. Listens(t, p, n, call', deaf)
  BY <1>1 DEF Listens
<1>6. /\ k = [call[c] EXCEPT !.inn = "done"] /\ p = call[c].to
      /\ tab' = Put(tab, p, t) /\ accepts' = Put(accepts, p, n)
      /\ t.live = tab[p].live /\ t.pend = tab[p].pend
      /\ t.flight = tab[p].flight /\ t.cur = tab[p].cur
      /\ call[c].out # "unused" /\ call[c].out # "dialing"
  BY <1>1, <1>2, <1>4
<1> HIDE DEF k, p, t, n
<1>7. QED
  BY <1>1, <1>2, <1>3, <1>4, <1>5, <1>6, EndClosed

LEMMA IncomingRefusedKeeps ==
  ASSUME LInv, NEW c \in Calls, IncomingRefused(c)
  PROVE  LInv'
PROOF
<1> DEFINE k == [call[c] EXCEPT !.inn = "done"]
           p == call[c].to
           rearm == tab[p].pend = None
           a == tab[p].armed \/ rearm
           t == [tab[p] EXCEPT !.armed = a]
           n == IF rearm THEN accepts[p] + 1 ELSE accepts[p]
<1>1. /\ call[c].inn = "arriving" /\ call' = Put(call, c, k)
      /\ closed' = closed \cup Ends({c}, p) /\ wire' = Unread(wire, {c}, p)
      /\ UNCHANGED <<silent, access, issued, answered, expired, redeemed, historyVars>>
  BY DEF IncomingRefused, Arrives, Put
<1>2. tab' = Put(tab, p, t) /\ accepts' = Put(accepts, p, n)
  BY Zenon DEF IncomingRefused, Put
<1>3. /\ p \in Peers /\ call[c].out \notin {"unused", "dialing"}
      /\ DOMAIN call[c] = {"from", "to", "out", "inn"}
  BY <1>1, ArrivingCall
<1>4. k.out = call[c].out
  BY <1>3
<1>5. /\ TabOK(tab[p], p, call, accepted) /\ tab[p] \in Tab /\ accepts[p] \in Nat
  BY <1>3, Peer
<1>6. /\ t \in Tab /\ t.live = tab[p].live /\ t.pend = tab[p].pend
      /\ t.flight = tab[p].flight /\ t.cur = tab[p].cur /\ t.up = tab[p].up
      /\ t.ready = tab[p].ready /\ t.armed = a /\ a \in BOOLEAN
  <2>1. a \in BOOLEAN
    OBVIOUS
  <2> HIDE DEF a
  <2>2. QED
    BY <1>5, <2>1, TabFields DEF Tab
<1>7. n \in Nat /\ (rearm => n > 0)
  BY <1>5
<1>8. ~rearm => ~a
  BY <1>5 DEF TabOK, IsPending
<1>9. Listens(t, p, n, call', deaf)
  <2> HIDE DEF t, n, a, rearm
  <2>1. QED
    BY <1>6, <1>7, <1>8 DEF Listens
<1>10. TabOK(t, p, call, accepted)
  <2>1. tab[p].pend # None => t.armed = FALSE
    BY <1>6, <1>8
  <2> HIDE DEF t, a
  <2>2. QED
    BY <1>5, <1>6, <2>1 DEF TabOK, InFlight, IsPending, IsLive
<1>11. /\ k = [call[c] EXCEPT !.inn = "done"] /\ p = call[c].to
       /\ call[c].out # "unused" /\ call[c].out # "dialing"
  BY <1>3
<1> HIDE DEF k, p, t, n
<1>12. QED
  BY <1>1, <1>2, <1>3, <1>4, <1>6, <1>7, <1>9, <1>10, <1>11, EndClosed

-----------------------------------------------------------------------------
(* The stream of the latest attempt *)

(* The tab waits for nothing else, so the stream is kept. *)
LEMMA FinishedTab ==
  ASSUME LInv, NEW c \in Calls, ConnectFinished(c), NEW p, p = call[c].from
  PROVE  \E f \in BOOLEAN, t \in Tab :
           /\ f = AuthFails(p, c)
           /\ tab' = Put(tab, p, t) /\ accepts' = Put(accepts, p, accepts[p])
           /\ issued' = Put(issued, p, issued[p])
           /\ t.up = tab[p].up /\ t.flight = FALSE /\ t.pend = None
           /\ t.ready = FALSE /\ t.live = (IF f THEN None ELSE c)
           /\ t.armed = tab[p].armed /\ t.cur = c
           /\ tab[p].up /\ tab[p].live = None /\ tab[p].pend = None
           /\ tab[p].flight /\ tab[p].cur = c
           /\ access' = [access EXCEPT ![p].outgoing = None]
           /\ closed' = closed \cup Ends(IF f THEN {None, c} ELSE {None}, p)
           /\ ~f => wire' = Sent(wire, c, call[c].to,
                      (IF access[p].outgoing = None THEN <<>>
                       ELSE <<[type |-> "AUTH", id |-> access[p].outgoing]>>)
                      \o <<[type |-> "HELLO"]>>)
           /\ f => wire' = Unread(wire, {None, c}, p)
PROOF
<1> DEFINE t == tab[p]
           f == AuthFails(p, c)
           a == t.armed \/ t.pend # None
           l == IF f THEN None ELSE c
           r == [t EXCEPT !.flight = FALSE, !.pend = None, !.ready = FALSE,
                          !.live = l, !.armed = a]
<1>1. call[c].out = "up" /\ CurrentAttempt(c)
  BY Zenon DEF ConnectFinished
<1>2. t.up /\ t.flight /\ t.cur = c /\ p \in Peers
  BY <1>1, CallFields DEF CurrentAttempt
<1>3. t.live = None /\ t.pend = None /\ t \in Tab
  BY <1>2, InFlightFrom, Peer
<1>4. KeepsOutbound(p, c)
  BY <1>3 DEF KeepsOutbound
<1>5. f \in BOOLEAN
  BY DEF AuthFails
<1>6. /\ access' = [access EXCEPT ![p].outgoing = None]
      /\ accepts' = [accepts EXCEPT ![p] = accepts[p]]
      /\ issued' = [issued EXCEPT ![p] = issued[p]]
  BY <1>3, <1>4 DEF ConnectFinished
<1>7. tab' = [tab EXCEPT ![p] = r]
  BY <1>3, <1>4 DEF ConnectFinished
<1>8. closed' = closed \cup Ends(IF f THEN {None, c} ELSE {None}, p)
  <2> DEFINE keep == KeepsOutbound(p, c)
             gone == (IF keep THEN {t.pend} ELSE {})
                     \cup (IF keep /\ ~(keep /\ f) THEN {} ELSE {c})
  <2>1. closed' = closed \cup Ends(gone, p)
    BY Zenon DEF ConnectFinished
  <2>2. gone = IF f THEN {None, c} ELSE {None}
    BY <1>3, <1>4
  <2>3. QED
    BY <2>1, <2>2
<1>9. /\ ~f => wire' = Sent(wire, c, call[c].to,
                      (IF access[p].outgoing = None THEN <<>>
                       ELSE <<[type |-> "AUTH", id |-> access[p].outgoing]>>)
                      \o <<[type |-> "HELLO"]>>)
      /\ f => wire' = Unread(wire, {None, c}, p)
  <2> DEFINE gone == (IF KeepsOutbound(p, c) THEN {t.pend} ELSE {})
                     \cup (IF KeepsOutbound(p, c) /\ ~(KeepsOutbound(p, c) /\ f)
                           THEN {} ELSE {c})
  <2>1. f => gone = {None, c}
    BY <1>3, <1>4
  <2>2. f => wire' = Unread(wire, gone, p)
    BY <1>4, Zenon DEF ConnectFinished
  <2>3. ~f => wire' = Sent(wire, c, call[c].to,
                      (IF access[p].outgoing = None THEN <<>>
                       ELSE <<[type |-> "AUTH", id |-> access[p].outgoing]>>)
                      \o <<[type |-> "HELLO"]>>)
    BY <1>4, Zenon DEF ConnectFinished
  <2>4. QED
    BY <2>1, <2>2, <2>3
<1> HIDE DEF f
<1>10. /\ r \in Tab /\ r.up = t.up /\ r.flight = FALSE /\ r.pend = None
       /\ r.ready = FALSE /\ r.live = l /\ r.armed = t.armed /\ r.cur = c
  <2>1. l \in Calls \cup {None} /\ a \in BOOLEAN /\ a = t.armed
    BY <1>3, TabFields
  <2> HIDE DEF l, a
  <2>2. QED
    BY <1>2, <1>3, <2>1, TabFields, ZenonT(60) DEF Tab
<1> HIDE DEF r
<1>11. /\ tab' = Put(tab, p, r) /\ accepts' = Put(accepts, p, accepts[p])
       /\ issued' = Put(issued, p, issued[p])
  BY <1>6, <1>7 DEF Put
<1>12. QED
  BY <1>2, <1>3, <1>5, <1>6, <1>8, <1>9, <1>10, <1>11 DEF f

LEMMA FramesCat ==
  ASSUME NEW s \in Seq(Frame), NEW f \in Seq(Frame)
  PROVE  /\ s \o f \in Seq(Frame) /\ Len(s \o f) = Len(s) + Len(f)
         /\ \A i \in 1..Len(s \o f) : (s \o f)[i] = IF i <= Len(s) THEN s[i]
                                                    ELSE f[i - Len(s)]
PROOF OBVIOUS

(* The handshake that the caller sends first. *)
LEMMA HandshakeOK ==
  ASSUME NEW n \in Invites \cup {None}, NEW k, k.out = "done", NEW p, p # k.from,
         NEW c, NEW cd, NEW acc
  PROVE  FramesOK((IF n = None THEN <<>> ELSE <<[type |-> "AUTH", id |-> n]>>)
                  \o <<[type |-> "HELLO"]>>, k, p, c, cd, acc)
PROOF
<1> DEFINE s == (IF n = None THEN <<>> ELSE <<[type |-> "AUTH", id |-> n]>>)
                \o <<[type |-> "HELLO"]>>
<1>1. [type |-> "HELLO"] \in Frame
  BY DEF Frame
<1>2. CASE n = None
  <2>1. s = <<[type |-> "HELLO"]>>
    BY <1>2
  <2>2. s \in Seq(Frame) /\ Len(s) = 1 /\ s[1].type = "HELLO"
    BY <1>1, <2>1
  <2> HIDE DEF s
  <2>3. FramesOK(s, k, p, c, cd, acc)
    BY <2>2 DEF FramesOK
  <2>4. QED
    BY <2>3 DEF s
<1>3. CASE n # None
  <2> DEFINE u == <<[type |-> "AUTH", id |-> n]>>
             v == <<[type |-> "HELLO"]>>
  <2>1. [type |-> "AUTH", id |-> n] \in Frame
    BY <1>3 DEF Frame
  <2>2. /\ u \in Seq(Frame) /\ Len(u) = 1 /\ u[1].type = "AUTH"
        /\ v \in Seq(Frame) /\ Len(v) = 1 /\ v[1].type = "HELLO"
    BY <1>1, <2>1
  <2>3. s \in Seq(Frame) /\ Len(s) = 2 /\ s[1].type = "AUTH" /\ s[2].type = "HELLO"
    <3>1. s = u \o v
      BY <1>3
    <3> HIDE DEF u, v
    <3>2. /\ u \o v \in Seq(Frame) /\ Len(u \o v) = Len(u) + Len(v)
          /\ \A j \in 1..Len(u \o v) :
               (u \o v)[j] = IF j <= Len(u) THEN u[j] ELSE v[j - Len(u)]
      BY <2>2, FramesCat
    <3> HIDE DEF s
    <3>3. QED
      BY <2>2, <3>1, <3>2
  <2> HIDE DEF s
  <2>4. FramesOK(s, k, p, c, cd, acc)
    BY <2>3 DEF FramesOK
  <2>5. QED
    BY <2>4 DEF s
<1>4. QED
  BY <1>2, <1>3

(* The new frames when the handshake goes out. *)
LEMMA HandshakeSent ==
  ASSUME LInv, NEW c \in Calls, call[c].out = "up", NEW k, k.out = "done",
         call' = Put(call, c, k), Advances(call[c], k), closed \subseteq closed',
         NEW q, q = call[c].to, NEW f, FramesOK(f, k, q, c, closed', accepted),
         wire' = Sent(wire, c, q, f)
  PROVE  WiresOK(wire', call', closed', accepted) /\ Quieter(wire, wire', call)
PROOF
<1>1. /\ \A b \in Calls : call'[b] = IF b = c THEN k ELSE call[b]
      /\ WiresOK(wire, call', closed', accepted)
  BY CallsAdvance
<1>2. q \in Peers /\ FramesOK(f, call'[c], q, c, closed', accepted)
  BY <1>1, CallFields
<1>3. wire[c][q] = <<>>
  BY <1>2 DEF LInv, WiresOK, FramesOK
<1>4. WiresOK(wire', call', closed', accepted)
  <2> DEFINE cl == call'
             cd == closed'
  <2>1. WiresOK(wire, cl, cd, accepted) /\ FramesOK(f, cl[c], q, c, cd, accepted)
    BY <1>1, <1>2
  <2> HIDE DEF cl, cd
  <2>2. WiresOK(Sent(wire, c, q, f), cl, cd, accepted)
    BY <1>2, <1>3, <2>1, WiresSent
  <2>3. QED
    BY <2>2 DEF cl, cd
<1>5. \A b \in Calls : call[b].out = "done" => wire'[b] = wire[b]
  <2>1. wire = [b \in Calls |-> wire[b]]
    BY DEF LInv, WiresOK
  <2>2. QED
    BY <2>1 DEF Sent
<1>6. QED
  BY <1>4, <1>5 DEF Quieter

LEMMA ConnectFinishedKeeps ==
  ASSUME LInv, NEW c \in Calls, ConnectFinished(c)
  PROVE  LInv'
PROOF
<1> DEFINE k == [call[c] EXCEPT !.out = "done"]
           p == call[c].from
           q == call[c].to
           n == accepts[p]
           i == issued[p]
<1>1. /\ call[c].out = "up" /\ call' = Put(call, c, k)
      /\ UNCHANGED <<silent, answered, expired, redeemed, historyVars>>
  BY DEF ConnectFinished, Put
<1>2. /\ p \in Peers /\ q \in Peers /\ p # q /\ call[c] \in Call
      /\ DOMAIN call[c] = {"from", "to", "out", "inn"}
  BY <1>1, CallFields
<1>3. /\ CallOK(k) /\ Advances(call[c], k) /\ k.from = p /\ k.to = q
  BY <1>1, CallGoesOn
<1>4. k.out = "done" /\ k.inn = call[c].inn
  BY <1>2 DEF Call
<1>5. PICK f \in BOOLEAN, t \in Tab :
           /\ f = AuthFails(p, c)
           /\ tab' = Put(tab, p, t) /\ accepts' = Put(accepts, p, n)
           /\ issued' = Put(issued, p, i)
           /\ t.up = tab[p].up /\ t.flight = FALSE /\ t.pend = None
           /\ t.ready = FALSE /\ t.live = (IF f THEN None ELSE c)
           /\ t.armed = tab[p].armed /\ t.cur = c
           /\ tab[p].up /\ tab[p].live = None /\ tab[p].pend = None
           /\ tab[p].flight /\ tab[p].cur = c
           /\ access' = [access EXCEPT ![p].outgoing = None]
           /\ closed' = closed \cup Ends(IF f THEN {None, c} ELSE {None}, p)
           /\ ~f => wire' = Sent(wire, c, q,
                      (IF access[p].outgoing = None THEN <<>>
                       ELSE <<[type |-> "AUTH", id |-> access[p].outgoing]>>)
                      \o <<[type |-> "HELLO"]>>)
           /\ f => wire' = Unread(wire, {None, c}, p)
  BY FinishedTab
<1>6. /\ closed \subseteq closed' /\ closed' \subseteq Calls \X Peers
      /\ f => <<c, p>> \in closed'
  BY <1>2, <1>5, NoNone DEF LInv, Rest, Ends
<1> HIDE DEF k
<1>7. /\ \A b \in Calls : call'[b] = IF b = c THEN k ELSE call[b]
      /\ \A b \in Calls : Advances(call[b], call'[b])
      /\ WiresOK(wire, call', closed', accepted)
      /\ Quieter(wire, wire, call)
  BY <1>1, <1>3, <1>6, CallsAdvance
<1>8. WiresOK(wire', call', closed', accepted) /\ Quieter(wire, wire', call)
  <2>1. CASE f
    BY <1>5, <1>7, <2>1, WiresUnread, QuieterUnread
  <2>2. CASE ~f
    <3> DEFINE m == access[p].outgoing
               s == (IF m = None THEN <<>> ELSE <<[type |-> "AUTH", id |-> m]>>)
                    \o <<[type |-> "HELLO"]>>
    <3>1. m \in Invites \cup {None}
      BY <1>2, Peer
    <3>2. wire' = Sent(wire, c, q, s)
      BY <1>5, <2>2
    <3> HIDE DEF m
    <3>3. FramesOK(s, k, q, c, closed', accepted)
      BY <1>2, <1>3, <1>4, <3>1, HandshakeOK
    <3> HIDE DEF s
    <3>4. QED
      BY <1>1, <1>3, <1>4, <1>6, <3>2, <3>3, HandshakeSent
  <2>3. QED
    BY <2>1, <2>2
<1>9. /\ n \in Nat
      /\ IssueOK(i, p, tab[p].pend, answered, redeemed)
      /\ Reserves(i, p, tab[p].pend, call', wire')
  BY <1>2, <1>7, <1>8, PeerKept
<1>10. AccessOK(access')
  BY <1>2, <1>5 DEF LInv, AccessOK
<1>11. TabOK(t, p, call', accepted)
  <2>1. call'[c].from = p /\ call'[c].out = "done"
    BY <1>3, <1>4, <1>7
  <2>2. QED
    BY <1>5, <2>1 DEF TabOK, InFlight, IsPending, IsLive
<1>12. Listens(t, p, n, call', deaf)
  <2>1. Listens(tab[p], p, n, call, deaf)
    BY <1>2 DEF LInv, AcceptsOK
  <2>2. \A b \in Calls : call[b].to = p /\ call[b].inn = "arriving" =>
                           call'[b].to = p /\ call'[b].inn = "arriving"
    BY <1>3, <1>4, <1>7
  <2>3. QED
    BY <1>5, <2>1, <2>2 DEF Listens
<1>13. BothOrShut(c, k, tab', closed', silent \cup abandoned)
  <2>1. CASE f
    BY <1>3, <1>6, <2>1 DEF BothOrShut, Shut
  <2>2. CASE ~f
    <3>1. tab'[p] = t /\ tab'[q] = tab[q]
      BY <1>2, <1>5, Peer DEF Put
    <3>2. HasIt(tab'[p], p, k, c)
      BY <1>5, <2>2, <3>1 DEF HasIt
    <3>3. HasIt(tab[p], p, call[c], c)
      BY <1>1 DEF HasIt
    <3>4. BothOrShut(c, call[c], tab, closed, silent \cup abandoned)
      BY DEF LInv, EndsOK
    <3>5. HasIt(tab'[q], q, k, c) <=> HasIt(tab[q], q, call[c], c)
      BY <1>2, <1>3, <1>4, <3>1 DEF HasIt
    <3>6. QED
      BY <1>1, <1>3, <1>6, <3>2, <3>3, <3>4, <3>5 DEF BothOrShut, Shut
  <2>3. QED
    BY <2>1, <2>2
<1>14. /\ {t.live, t.pend} \subseteq {None, c, tab[p].live, tab[p].pend}
       /\ \A b \in Calls \ {c} : b \in {tab[p].live, tab[p].pend} \ {t.live, t.pend}
                                   => Shut(call[b], b, closed')
       /\ call[c].inn = "arriving" /\ call[c].to # p =>
            k.inn = "arriving" /\ k.to = call[c].to
       /\ \A r \in Peers \ {p} : tab[r].flight /\ tab[r].cur = c
                                   => k.out \in {"dialing", "up"}
  <2>1. \A r \in Peers \ {p} : ~(tab[r].flight /\ tab[r].cur = c)
    BY InFlightFrom
  <2>2. QED
    BY <1>3, <1>4, <1>5, <2>1, NoNone
<1>15. /\ tab' = Put(tab, p, t) /\ accepts' = Put(accepts, p, n)
       /\ issued' = Put(issued, p, i)
       /\ IssueOK(i, p, t.pend, answered, redeemed)
       /\ Reserves(i, p, t.pend, call', wire')
  BY <1>5, <1>9
<1> HIDE DEF p, q, n, i
<1>16. QED
  BY <1>1, <1>2, <1>3, <1>6, <1>8, <1>9, <1>10, <1>11, <1>12, <1>13, <1>14, <1>15,
     CallStep

-----------------------------------------------------------------------------
(* A call that the tab keeps *)

(* The tab takes the call in the place of its live stream or its attempt. *)
LEMMA KeptTab ==
  ASSUME LInv, NEW c \in Calls, IncomingKept(c), NEW p \in Peers, p = call[c].to
  PROVE  /\ tab[p].up /\ tab[p].pend = None
         /\ \E t \in Tab : /\ tab' = Put(tab, p, t)
                           /\ t.up = tab[p].up /\ t.flight = FALSE
                           /\ t.live = None /\ t.pend = c
                           /\ t.ready = FALSE /\ t.armed = FALSE
PROOF
<1> DEFINE t == tab[p]
           base == IF OutboundCandidate(p) THEN Invalidated(t) ELSE t
           r == [base EXCEPT !.live = None, !.pend = c, !.ready = FALSE,
                             !.armed = FALSE]
<1>1. tab' = Put(tab, p, r)
  BY Zenon DEF IncomingKept, Put
<1>2. t.up /\ t.pend = None
  BY DEF IncomingKept, Refuses
<1>3. t \in Tab
  BY Peer
<1>4. base \in Tab /\ base.flight = FALSE /\ base.up = t.up
  <2>1. CASE OutboundCandidate(p)
    BY <1>3, <2>1, TabFields DEF Invalidated, Tab
  <2>2. CASE ~OutboundCandidate(p)
    <3>1. t.flight = FALSE
      BY <1>3, <2>2, TabFields DEF OutboundCandidate
    <3>2. QED
      BY <1>3, <2>2, <3>1
  <2>3. QED
    BY <2>1, <2>2
<1> HIDE DEF base
<1>5. /\ r \in Tab /\ r.up = t.up /\ r.flight = FALSE /\ r.live = None
      /\ r.pend = c /\ r.ready = FALSE /\ r.armed = FALSE
  BY <1>4, TabFields DEF Tab
<1> HIDE DEF r
<1>6. QED
  BY <1>1, <1>2, <1>5

LEMMA IncomingKeptKeeps ==
  ASSUME LInv, NEW c \in Calls, IncomingKept(c)
  PROVE  LInv'
PROOF
<1> DEFINE k == [call[c] EXCEPT !.inn = "done"]
           p == call[c].to
           from == call[c].from
           n == accepts[p]
           i == issued[p]
           b0 == tab[p].live
<1>1. /\ call[c].inn = "arriving" /\ call' = Put(call, c, k)
      /\ closed' = closed \cup Ends({b0}, p) /\ wire' = Unread(wire, {b0}, p)
      /\ issued' = [issued EXCEPT ![p].pending = None]
      /\ UNCHANGED <<accepts, silent, access, answered, expired, redeemed, historyVars>>
  BY DEF IncomingKept, Arrives, Put
<1>2. /\ call[c].out \in {"up", "done"}
      /\ from \in Peers /\ p \in Peers /\ from # p
      /\ DOMAIN call[c] = {"from", "to", "out", "inn"}
  BY <1>1, ArrivingCall
<1>3. /\ CallOK(k) /\ Advances(call[c], k) /\ k.from = from /\ k.to = p
  BY <1>2, CallGoesOn
<1>4. k.out = call[c].out /\ k.inn = "done"
  BY <1>2
<1>5. tab[p].up /\ tab[p].pend = None
  BY <1>2, KeptTab
<1>6. PICK t \in Tab : /\ tab' = Put(tab, p, t)
                       /\ t.up = tab[p].up /\ t.flight = FALSE
                       /\ t.live = None /\ t.pend = c
                       /\ t.ready = FALSE /\ t.armed = FALSE
  BY <1>2, KeptTab
<1>7. /\ closed \subseteq closed' /\ closed' \subseteq Calls \X Peers
      /\ b0 # None => Shut(call[b0], b0, closed')
  <2>1. b0 \in Calls \cup {None}
    BY <1>2, Peer
  <2>2. b0 # None => <<b0, p>> \in closed'
    BY <1>1 DEF Ends
  <2>3. b0 # None => p \in {call[b0].from, call[b0].to}
    BY <1>2, HeldEnds
  <2>4. QED
    BY <1>1, <1>2, <2>1, <2>2, <2>3 DEF LInv, Rest, Ends, Shut
<1> HIDE DEF k
<1>8. /\ \A b \in Calls : call'[b] = IF b = c THEN k ELSE call[b]
      /\ \A b \in Calls : Advances(call[b], call'[b])
      /\ WiresOK(wire, call', closed', accepted)
      /\ Quieter(wire, wire, call)
  BY <1>1, <1>3, <1>7, CallsAdvance
<1>9. WiresOK(wire', call', closed', accepted) /\ Quieter(wire, wire', call)
  BY <1>1, <1>8, WiresUnread, QuieterUnread
<1>10. /\ accepts = Put(accepts, p, n) /\ n \in Nat /\ AccessOK(access)
  BY <1>2, <1>8, <1>9, PeerKept
<1>11. /\ i.pending = None /\ i.state # "Reserved"
       /\ IssueOK(i, p, None, answered, redeemed)
       /\ issued = Put(issued, p, i)
       /\ [i EXCEPT !.pending = None] = i
  BY <1>2, <1>5, LiveIssue
<1>12. issued' = Put(issued, p, i)
  <2>1. issued' = [issued EXCEPT ![p] = [i EXCEPT !.pending = None]]
    BY <1>1
  <2> HIDE DEF i
  <2>2. QED
    BY <1>11, <2>1 DEF Put
<1>13. IssueOK(i, p, c, answered, redeemed) /\ Reserves(i, p, c, call', wire')
  <2> HIDE DEF i
  <2>1. QED
    BY <1>11 DEF IssueOK, Reserves
<1>14. TabOK(t, p, call', accepted)
  <2>1. call'[c].to = p /\ call'[c].inn = "done"
    BY <1>3, <1>4, <1>8
  <2>2. QED
    BY <1>5, <1>6, <2>1 DEF TabOK, InFlight, IsPending, IsLive
<1>15. Listens(t, p, n, call', deaf)
  BY <1>6 DEF Listens
<1>16. BothOrShut(c, k, tab', closed', silent \cup abandoned)
  <2>1. tab'[p] = t /\ tab'[from] = tab[from]
    BY <1>2, <1>6, Peer DEF Put
  <2>2. HasIt(tab'[p], p, k, c)
    BY <1>6, <2>1 DEF HasIt
  <2>3. HasIt(tab[p], p, call[c], c)
    BY <1>1 DEF HasIt
  <2>4. BothOrShut(c, call[c], tab, closed, silent \cup abandoned)
    BY DEF LInv, EndsOK
  <2>5. HasIt(tab'[from], from, k, c) <=> HasIt(tab[from], from, call[c], c)
    BY <1>2, <1>3, <1>4, <2>1 DEF HasIt
  <2>6. QED
    BY <1>2, <1>3, <1>7, <2>2, <2>3, <2>4, <2>5 DEF BothOrShut, Shut
<1>17. /\ {t.live, t.pend} \subseteq {None, c, tab[p].live, tab[p].pend}
       /\ \A b \in Calls \ {c} : b \in {tab[p].live, tab[p].pend} \ {t.live, t.pend}
                                   => Shut(call[b], b, closed')
       /\ call[c].inn = "arriving" /\ call[c].to # p =>
            k.inn = "arriving" /\ k.to = call[c].to
  BY <1>5, <1>6, <1>7
<1>18. \A r \in Peers \ {p} : tab[r].flight /\ tab[r].cur = c
                                => k.out \in {"dialing", "up"}
  BY <1>4, InFlightFrom
<1>19. /\ tab' = Put(tab, p, t) /\ accepts' = Put(accepts, p, n)
       /\ UNCHANGED <<silent, answered, expired, redeemed, historyVars>>
       /\ AccessOK(access')
       /\ IssueOK(i, p, t.pend, answered, redeemed)
       /\ Reserves(i, p, t.pend, call', wire')
  BY <1>1, <1>6, <1>10, <1>13
<1> HIDE DEF p, from, n, i, b0
<1>20. QED
  BY <1>1, <1>2, <1>3, <1>7, <1>9, <1>10, <1>12, <1>14, <1>15, <1>16, <1>17, <1>18,
     <1>19, CallStep, ZenonT(60)

LEMMA FallSilentKeeps ==
  ASSUME LInv, NEW c \in Calls, FallSilent(c)
  PROVE  LInv'
PROOF
<1> DEFINE p == call[c].from
           t == tab[p]
           n == accepts[p]
           i == issued[p]
<1>1. /\ call[c].out # "unused" /\ silent' = silent \cup {c}
      /\ wire' = [wire EXCEPT ![c] = [q \in Peers |-> <<>>]]
      /\ UNCHANGED <<tab, call, accepts, closed, access, issued, answered, expired,
                     redeemed, accepted, abandoned, deaf>>
  BY DEF FallSilent, rendezvousVars, historyVars
<1>2. p \in Peers
  BY <1>1, CallFields
<1>3. \A b \in Calls, q \in Peers : wire'[b][q] \in {<<>>, wire[b][q]}
  BY <1>1 DEF LInv, WiresOK
<1>4. WiresOK(wire', call, closed', accepted')
  <2>1. /\ wire' = [b \in Calls |-> wire'[b]]
        /\ \A b \in Calls : wire'[b] = [q \in Peers |-> wire'[b][q]]
    BY <1>1 DEF LInv, WiresOK
  <2>2. ASSUME NEW b \in Calls, NEW q \in Peers
        PROVE  FramesOK(wire'[b][q], call[b], q, b, closed', accepted')
    <3>1. FramesOK(wire[b][q], call[b], q, b, closed', accepted')
      BY <1>1 DEF LInv, WiresOK
    <3>2. QED
      BY <1>3, <3>1, NoFrames
  <2>3. QED
    BY <2>1, <2>2 DEF WiresOK
<1>5. Quieter(wire, wire', call)
  <2>1. NoAuth(<<>>)
    BY DEF NoAuth
  <2>2. QED
    BY <1>3, <2>1 DEF Quieter
<1>6. \A b \in Calls : Advances(call[b], call[b])
  BY NoAdvance
<1>7. /\ tab = Put(tab, p, t) /\ accepts = Put(accepts, p, n) /\ n \in Nat
      /\ issued = Put(issued, p, i)
      /\ IssueOK(i, p, t.pend, answered, redeemed)
      /\ Reserves(i, p, t.pend, call, wire')
      /\ AccessOK(access)
  BY <1>2, <1>5, <1>6, PeerKept
<1>8. TabOK(t, p, call, accepted) /\ Listens(t, p, n, call, deaf)
  BY <1>2, AsItIs
<1>9. /\ call' = call /\ tab' = Put(tab, p, t) /\ accepts' = Put(accepts, p, n)
      /\ issued' = Put(issued, p, i) /\ answered' = answered
      /\ closed \subseteq closed' /\ silent \subseteq silent'
      /\ accepted \subseteq accepted' /\ abandoned \subseteq abandoned'
      /\ deaf \subseteq deaf'
      /\ TabOK(t, p, call, accepted') /\ Listens(t, p, n, call, deaf')
      /\ IssueOK(i, p, t.pend, answered, redeemed')
      /\ \A m \in Invites : answered[m] # p /\ Unused(m, redeemed)
                              => Unused(m, redeemed')
      /\ {t.live, t.pend} \subseteq {None, tab[p].live, tab[p].pend}
      /\ \A b \in Calls : b \in {tab[p].live, tab[p].pend} \ {t.live, t.pend}
                            => Shut(call[b], b, closed') \/ b \in abandoned'
  BY <1>1, <1>7, <1>8
<1>10. RedeemedOK(redeemed', answered) /\ AccessOK(access') /\ Rest'
  BY <1>1 DEF LInv, Rest
<1> HIDE DEF p, t, n, i
<1>11. QED
  BY <1>2, <1>4, <1>5, <1>7, <1>9, <1>10, PeerStep

-----------------------------------------------------------------------------
(* The invariant *)

LEMMA LInvHoldsAtFirst == Init => LInv
PROOF
<1> SUFFICES ASSUME Init PROVE LInv
  OBVIOUS
<1>1. PICK stored \in [Peers -> Peers \cup {None}] :
        tab = [p \in Peers |-> OpenTab(stored[p])]
  BY DEF Init
<1>2. CallsOK(call)
  <2>1. CallOK(UnusedCall)
    BY DEF CallOK, Call, UnusedCall
  <2>2. QED
    BY <2>1 DEF Init, CallsOK
<1>3. TabsOK(tab, call, accepted)
  <2>1. ASSUME NEW p \in Peers PROVE TabOK(tab[p], p, call, accepted)
    <3>1. tab[p] = OpenTab(stored[p]) /\ stored[p] \in Peers \cup {None}
      BY <1>1
    <3>2. QED
      BY <3>1 DEF OpenTab, Tab, TabOK, InFlight, IsPending, IsLive
  <2>2. QED
    BY <1>1, <2>1 DEF TabsOK
<1>4. WiresOK(wire, call, closed, accepted)
  BY NoFrames DEF Init, WiresOK
<1>5. EndsOK(call, tab, closed, silent \cup abandoned)
  BY DEF Init, EndsOK, BothOrShut, UnusedCall
<1>6. AcceptsOK(accepts, tab, call, deaf)
  BY DEF Init, AcceptsOK, Listens
<1>7. IssuedOK(issued, tab, answered, redeemed, call, wire)
  BY DEF Init, IssuedOK, IssueOK, Issue, IssuedState, NoIssue, Reserves
<1>8. /\ AccessOK(access) /\ AnsweredOK(answered) /\ RedeemedOK(redeemed, answered)
      /\ Rest
  BY DEF Init, AccessOK, NoAccess, AnsweredOK, RedeemedOK, Rest
<1>9. QED
  BY <1>2, <1>3, <1>4, <1>5, <1>6, <1>7, <1>8 DEF LInv

LEMMA TickKeeps ==
  ASSUME LInv, NEW p \in Peers, Tick(p)
  PROVE  LInv'
PROOF
<1>1. CASE RearmAccept(p)
  BY <1>1, RearmAcceptKeeps
<1>2. CASE LiveHello(p)
  BY <1>2, LiveHelloKeeps
<1>3. CASE LiveQuit(p)
  BY <1>3, LiveQuitKeeps
<1>4. CASE LiveAuth(p)
  BY <1>4, LiveAuthKeeps
<1>5. CASE HeartbeatTimeout(p)
  BY <1>5, HeartbeatTimeoutKeeps
<1>6. CASE LiveEnded(p)
  BY <1>6, LiveEndedKeeps
<1>7. CASE PendingHello(p)
  BY <1>7, PendingHelloKeeps
<1>8. CASE PendingQuit(p)
  BY <1>8, PendingQuitKeeps
<1>9. CASE PendingAuth(p)
  BY <1>9, PendingAuthKeeps
<1>10. CASE PendingEnded(p)
  BY <1>10, PendingEndedKeeps
<1>11. QED
  BY <1>1, <1>2, <1>3, <1>4, <1>5, <1>6, <1>7, <1>8, <1>9, <1>10 DEF Tick

LEMMA RouterKeeps ==
  ASSUME LInv, NEW c \in Calls, Router(c)
  PROVE  LInv'
PROOF
<1>1. CASE RouterConnects(c)
  BY <1>1, RouterConnectsKeeps
<1>2. CASE ConnectFails(c)
  BY <1>2, ConnectFailsKeeps
<1>3. CASE ConnectStale(c)
  BY <1>3, ConnectStaleKeeps
<1>4. CASE ConnectFinished(c)
  BY <1>4, ConnectFinishedKeeps
<1>5. CASE IncomingTooLate(c)
  BY <1>5, IncomingTooLateKeeps
<1>6. CASE IncomingRefused(c)
  BY <1>6, IncomingRefusedKeeps
<1>7. CASE IncomingKept(c)
  BY <1>7, IncomingKeptKeeps
<1>8. QED
  BY <1>1, <1>2, <1>3, <1>4, <1>5, <1>6, <1>7 DEF Router

LEMMA NextKeeps ==
  ASSUME LInv, Next
  PROVE  LInv'
PROOF
<1>1. CASE \E p \in Peers : \/ Tick(p) \/ AcceptFails(p) \/ Accept(p) \/ Decline(p)
                            \/ Disconnect(p) \/ Lock(p) \/ Unlock(p)
                            \/ TabClosed(p) \/ SamInitialized(p)
                            \/ ConnectResponseBusy(p) \/ Revoke(p)
  BY <1>1, TickKeeps, AcceptFailsKeeps, AcceptKeeps, DeclineKeeps, DisconnectKeeps,
     LockKeeps, UnlockKeeps, TabClosedKeeps, SamInitializedKeeps,
     ConnectResponseBusyKeeps, RevokeKeeps
<1>2. CASE \E p \in Peers, c \in Calls : ConnectResponse(p, c)
  BY <1>2, ConnectResponseKeeps
<1>3. CASE \E p \in Peers, n \in Invites : GenerateRequest(p, n)
  BY <1>3, GenerateRequestKeeps
<1>4. CASE \E p, q \in Peers : AnswerRequest(p, q)
  BY <1>4, AnswerRequestKeeps
<1>5. CASE \E p, q \in Peers, c \in Calls : Connect(p, q, c)
  BY <1>5, ConnectKeeps
<1>6. CASE \E c \in Calls : Router(c) \/ FallSilent(c)
  BY <1>6, RouterKeeps, FallSilentKeeps
<1>7. CASE \E n \in Invites : Expire(n)
  BY <1>7, ExpireKeeps
<1>8. QED
  BY <1>1, <1>2, <1>3, <1>4, <1>5, <1>6, <1>7 DEF Next

LEMMA StutterKeeps ==
  ASSUME LInv, UNCHANGED vars
  PROVE  LInv'
PROOF
  BY DEF LInv, Rest, vars, sessionVars, rendezvousVars, historyVars, CallsOK, TabsOK,
         WiresOK, EndsOK, AcceptsOK, IssuedOK, AccessOK, AnsweredOK, RedeemedOK

LEMMA Invariance == Spec => []LInv
PROOF
<1>1. LInv /\ [Next]_vars => LInv'
  BY NextKeeps, StutterKeeps
<1>2. QED
  BY <1>1, LInvHoldsAtFirst, PTL DEF Spec

-----------------------------------------------------------------------------
(* The properties *)

(* The state of every tab, call, stream and invitation has its type, and a *)
(* connect in flight has the call of its generation.                       *)
THEOREM SessionTypeCorrect == Spec => []TypeOK
PROOF
<1>1. LInv => TypeOK
  <2> SUFFICES ASSUME LInv PROVE TypeOK
    OBVIOUS
  <2>1. tab \in [Peers -> Tab]
    BY DEF LInv, TabsOK, TabOK
  <2>2. \A p \in Peers : tab[p].flight => tab[p].cur # None
    BY Peer DEF TabOK, InFlight
  <2>3. call \in [Calls -> Call]
    BY DEF LInv, CallsOK, CallOK
  <2>4. accepts \in [Peers -> Nat]
    BY DEF LInv, AcceptsOK
  <2>5. \A c \in Calls, p \in Peers : wire[c][p] \in Seq(Frame)
    BY DEF LInv, WiresOK, FramesOK
  <2>6. \A p \in Peers : /\ access[p].outgoing \in Invites \cup {None}
                         /\ issued[p].state \in IssuedState
                         /\ issued[p].pending \in Invites \cup {None}
    BY Peer DEF IssueOK, Issue
  <2>7. QED
    BY <2>1, <2>2, <2>3, <2>4, <2>5, <2>6 DEF LInv, Rest, TypeOK
<1>2. QED
  BY <1>1, Invariance, PTL

(* A tab has at most one of a live stream, a pending call and a connect    *)
(* attempt, however calls cross (poll_one_to_one_events,                   *)
(* start_one_to_one_connect, TabClosed and the buttons).                   *)
THEOREM OneConnectionPerTab == Spec => []OneConnection
PROOF
<1>1. LInv => OneConnection
  BY Peer DEF OneConnection, TabOK, InFlight, IsPending
<1>2. QED
  BY <1>1, Invariance, PTL

(* A stream that a tab opened itself is that of its latest attempt: the    *)
(* result of an attempt that was given up is never taken for the current   *)
(* one (connect_generation).                                               *)
THEOREM OutboundStreamIsLatest == Spec => []OutboundIsLatest
PROOF
<1>1. LInv => OutboundIsLatest
  <2> SUFFICES ASSUME LInv, NEW p \in Peers, Outbound(p)
               PROVE  tab[p].cur = tab[p].live
    BY DEF OutboundIsLatest
  <2>1. tab[p].live \in Calls /\ call[tab[p].live].from = p
    BY Peer DEF Outbound
  <2>2. call[tab[p].live].to # p
    <3>1. CallOK(call[tab[p].live])
      BY <2>1, CallFields
    <3>2. call[tab[p].live].out # "unused"
      BY <2>1, NoNone, <3>1 DEF CallOK, UnusedCall
    <3>3. QED
      BY <2>1, <3>1, <3>2 DEF CallOK
  <2>3. QED
    BY <2>1, <2>2, NoNone, Peer DEF TabOK, IsLive
<1>2. QED
  BY <1>1, Invariance, PTL

(* No end of a stream is kept in the dark: the other end has it too, or    *)
(* will, or the stream is closed, silent, or was given up without being    *)
(* closed.                                                                 *)
THEOREM NoHiddenHalfOpen == Spec => []HalfOpenIsVisible
PROOF
<1>1. LInv => HalfOpenIsVisible
  <2> SUFFICES ASSUME LInv, NEW p \in Peers, NEW c \in Calls, Holds(p, c)
               PROVE  \/ MayStillHold(Other(c, p), c)
                      \/ IsClosed(c, p)
                      \/ c \in silent \cup abandoned
    BY DEF HalfOpenIsVisible
  <2> DEFINE q == Other(c, p)
  <2>1. c # None /\ c \in {tab[p].live, tab[p].pend}
    BY NoNone DEF Holds
  <2>2. /\ CallOK(call[c]) /\ q \in Peers \ {p}
        /\ {call[c].from, call[c].to} = {p, q}
        /\ \A cd : <<c, p>> \in cd \/ <<c, q>> \in cd <=> Shut(call[c], c, cd)
    BY <2>1, HeldEnds
  <2>3. call[c].out \in {"up", "done"}
    <3>1. TabOK(tab[p], p, call, accepted) /\ call[c] \in Call
      BY Peer, CallFields
    <3>2. call[c].out = "done" \/ call[c].inn = "done"
      BY <2>1, <3>1 DEF TabOK, IsPending, IsLive
    <3>3. QED
      BY <2>2, <3>1, <3>2 DEF CallOK, Call, UnusedCall
  <2>4. BothOrShut(c, call[c], tab, closed, silent \cup abandoned)
    BY DEF LInv, EndsOK
  <2>5. HasIt(tab[p], p, call[c], c)
    BY <2>1 DEF HasIt
  <2>6. HasIt(tab[q], q, call[c], c) => MayStillHold(q, c)
    BY DEF HasIt, MayStillHold, Holds
  <2>7. Shut(call[c], c, closed) => IsClosed(c, p) \/ c \in silent
    BY <2>2 DEF IsClosed
  <2> HIDE DEF q
  <2>8. HasIt(tab[q], q, call[c], c) \/ Shut(call[c], c, closed)
        \/ c \in silent \cup abandoned
    BY <2>2, <2>3, <2>4, <2>5 DEF BothOrShut
  <2>9. QED
    BY <2>6, <2>7, <2>8 DEF q
<1>2. QED
  BY <1>1, Invariance, PTL

(* A session is ready, so that messages can be sent, only after the user   *)
(* at the called end has accepted the call.                                *)
THEOREM ReadyOnlyWhenAccepted == Spec => []ReadyIsAccepted
PROOF
<1>1. LInv => ReadyIsAccepted
  BY Peer DEF ReadyIsAccepted, TabOK
<1>2. QED
  BY <1>1, Invariance, PTL

(* A tab that believes it listens (accept_armed) has an accept task, or    *)
(* the call it took is about to arrive, unless an accept task failed.      *)
THEOREM ArmedTabsListen == Spec => []ArmedTabListens
PROOF
<1>1. LInv => ArmedTabListens
  BY DEF LInv, AcceptsOK, Listens, ArmedTabListens
<1>2. QED
  BY <1>1, Invariance, PTL

(* A reserved invitation is that of the pending caller, so no caller that  *)
(* is gone keeps it (release_pending_rendezvous).                          *)
THEOREM ReservedForPending == Spec => []ReservedIsHeld
PROOF
<1>1. LInv => ReservedIsHeld
  BY Peer DEF ReservedIsHeld, Reserves
<1>2. QED
  BY <1>1, Invariance, PTL

(* An invitation makes at most one session, whether it is used before or   *)
(* after its caller is accepted.                                           *)
THEOREM InvitationMakesOneSession == Spec => []InvitationUsedOnce
PROOF
<1>1. LInv => InvitationUsedOnce
  BY DEF LInv, RedeemedOK, InvitationUsedOnce
<1>2. QED
  BY <1>1, Invariance, PTL
=============================================================================
