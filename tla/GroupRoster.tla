---------------------------- MODULE GroupRoster ----------------------------
(***************************************************************************)
(* A group: its owner keeps and signs the roster and issues invitations,   *)
(* peers call each other, prove an invitation to the owner, and take over  *)
(* the rosters that the owner sends.  The stored group, the copy of the    *)
(* group tab and that of the sidebar are one here: saves do not fail.      *)
(*                                                                         *)
(* A tick reads one frame of one peer; the code reads all that arrived and *)
(* reloads the group afterwards.  Identity and key frames of a handshake   *)
(* are one frame, which is read first: the task that sends it starts a     *)
(* tick before any other.  The frames after it are sent by tasks of their  *)
(* own and arrive in any order.  Texts and images are left out: they pass  *)
(* exactly the links that are ready and authorised.                        *)
(***************************************************************************)
EXTENDS Integers, FiniteSets

CONSTANTS
  Owner, Others,   \* peers as numbers, in the order of their addresses
  Founders,        \* the others that are members at first
  Shareable,       \* tokens of invitations that anybody may be given
  Private,         \* tokens bound to the request of one peer
  Recipient,       \* private token -> that peer
  Streams,         \* bound: streams that exist at a time
  MaxEdits,        \* bound: changes the users make
  MaxFaults        \* bound: closed tabs, failed calls, late answers

Peers == {Owner} \cup Others
Tokens == Shareable \cup Private
None == 0          \* no peer, stream or token

ASSUME GroupAssumption ==
  /\ Peers \subseteq Nat \ {0} /\ Owner \notin Others /\ Founders \subseteq Others
  /\ Shareable \cap Private = {} /\ None \notin Tokens \cup Streams
  /\ Recipient \in [Private -> Others]
  /\ MaxEdits \in Nat /\ MaxFaults \in Nat

VARIABLES
  up,          \* peers whose group tab is open and published
  meta,        \* per peer: version, members and names, join token
  issued,      \* per token: the owner's record of the invitation
  link,        \* per peer and other peer: the runtime of that peer
  stream,      \* the streams between two ends
  imported,    \* private tokens whose request was used up
  expired,     \* private tokens past their time
  display,     \* peers that changed their display name
  edits, faults,
  signed,      \* history: rosters the owner signed
  mixed,       \* history: members that imported an invitation not newer than
               \* their roster
  admissions   \* history: how often a token brought a peer into the roster

rosterVars == <<meta, issued, imported, expired, display, edits, signed, mixed,
                admissions>>
vars == <<up, link, stream, rosterVars, faults>>

Roster == [version : Nat, members : SUBSET Peers, renamed : SUBSET Peers]
Meta == [version : Nat, members : SUBSET Peers, renamed : SUBSET Peers,
         token : Tokens \cup {None}]
NoGroup == [version |-> 0, members |-> {}, renamed |-> {}, token |-> None]

Issued == [state : {"none", "open", "redeemed", "gone"},
           by : Others \cup {None}, invite : Roster]
NotIssued == [state |-> "none", by |-> None,
              invite |-> [version |-> 0, members |-> {}, renamed |-> {}]]

Link == [known : BOOLEAN, auth : BOOLEAN, ready : BOOLEAN,
         conn : Streams \cup {None}, dial : BOOLEAN]
NewLink(auth) == [known |-> TRUE, auth |-> auth, ready |-> FALSE,
                  conn |-> None, dial |-> FALSE]
NoLink == [NewLink(FALSE) EXCEPT !.known = FALSE]

Frame == [type : {"HELLO", "QUIT"}] \cup [type : {"RENAME"}, new : BOOLEAN]
           \cup [type : {"JOIN"}, token : Tokens, new : BOOLEAN]
           \cup [type : {"ROSTER"}, roster : Roster]

\* held: the ends that keep the stream or wait for it; pend: those whose
\* handler has not run; shut: an end was closed; box: frames not yet read.
Stream == [from : Peers \cup {None}, to : Peers \cup {None}, open : BOOLEAN,
           held : SUBSET Peers, pend : SUBSET Peers, shut : BOOLEAN,
           box : SUBSET (Peers \X Frame)]
NoStream == [from |-> None, to |-> None, open |-> FALSE, held |-> {},
             pend |-> {}, shut |-> FALSE, box |-> {}]

-----------------------------------------------------------------------------
(* Operators on links, streams and rosters.                                *)

LocalPrefersOutbound(p, q) == p < q

\* reset_group_peer_transport_state
Reset(l) == [l EXCEPT !.ready = FALSE, !.conn = None, !.dial = FALSE]

\* start_group_peer_handshake on stream c
Started(l, c) == [l EXCEPT !.known = TRUE, !.ready = FALSE, !.conn = c,
                           !.dial = FALSE]

OpenedLinks(members) ==
  [q \in Peers |-> IF q \in members THEN NewLink(TRUE) ELSE NoLink]

\* Faulty variant: a peer that left the roster stays in the list.
UpdatedKeeping(ls, members) ==
  [q \in Peers |-> IF q \in members /\ ~ls[q].known THEN NewLink(TRUE) ELSE ls[q]]

\* update_open_group_roster: who is not in the roster is dropped, new members
\* are authorised, and the others keep what they have.
Updated(ls, members) ==
  [q \in Peers |-> IF q \notin members THEN NoLink
                   ELSE IF ls[q].known THEN ls[q] ELSE NewLink(TRUE)]

Other(c, p) == IF stream[c].from = p THEN stream[c].to ELSE stream[c].from

\* The end of p is given up, with or without closing it.
Left(s, p, shut) ==
  IF s.held \subseteq {p} THEN NoStream
  ELSE [s EXCEPT !.held = @ \ {p}, !.pend = @ \ {p}, !.shut = @ \/ shut,
                 !.box = {m \in @ : m[1] # p}]

Posted(s, q, frames) ==
  IF s.shut \/ q \notin s.held THEN s
  ELSE [s EXCEPT !.box = @ \cup ({q} \X frames)]

\* Streams that the links ls of p no longer name are not read any more.
Dropped(st, p, ls) ==
  [c \in Streams |->
     IF p \in st[c].held \ st[c].pend /\ \A q \in Peers : ls[q].conn # c
     THEN Left(st[c], p, FALSE) ELSE st[c]]

\* The roster as the owner sends it: the owner is one of its members.
OwnRoster(m) == [version |-> m.version, members |-> m.members \cup {Owner},
                 renamed |-> m.renamed \cup (display \cap {Owner})]

\* send_group_roster_sync_task
Synced(st, ls, roster) ==
  [c \in Streams |->
     LET qs == {q \in Peers : ls[q].conn = c /\ ls[q].ready /\ ls[q].auth} IN
     IF qs = {} THEN st[c]
     ELSE Posted(st[c], CHOOSE q \in qs : TRUE,
                 {[type |-> "ROSTER", roster |-> roster]})]

\* Faulty variant: the version stays the same.
BumpedNot(m) == m

Bumped(m) == [m EXCEPT !.version = @ + 1]

\* The owner stores the changed group m, refreshes its links ls and sends the
\* roster; the streams are st.
Publishes(m, ls, st) ==
  LET new == Updated(ls, m.members) IN
  /\ meta' = [meta EXCEPT ![Owner] = m]
  /\ signed' = signed \cup {OwnRoster(m)}
  /\ link' = [link EXCEPT ![Owner] = new]
  /\ stream' = Synced(Dropped(st, Owner, new), new, OwnRoster(m))

Fault == faults < MaxFaults /\ faults' = faults + 1
Edit == edits < MaxEdits /\ edits' = edits + 1

Founding == [NoGroup EXCEPT !.version = 1, !.members = Founders]

Init ==
  /\ up = {Owner} \cup Founders
  /\ meta = [p \in Peers |->
       IF p = Owner THEN Founding
       ELSE IF p \in Founders
            THEN [Founding EXCEPT !.members = ({Owner} \cup Founders) \ {p}]
            ELSE NoGroup]
  /\ issued = [t \in Tokens |-> NotIssued]
  /\ link = [p \in Peers |-> OpenedLinks(meta[p].members)]
  /\ stream = [c \in Streams |-> NoStream]
  /\ imported = {}
  /\ expired = {}
  /\ display = {}
  /\ edits = 0
  /\ faults = 0
  /\ signed = {OwnRoster(Founding)}
  /\ mixed = {}
  /\ admissions = [t \in Tokens |-> 0]

-----------------------------------------------------------------------------
(* What the users do.                                                      *)

\* issue_group_invite, encode_private_group_invite_string.  A caller that has not
\* yet proved an invitation is forgotten, and its stream is not closed.
GenerateInvite(t) ==
  LET ls == Updated(link[Owner], meta[Owner].members) IN
  /\ issued[t].state = "none"
  /\ issued' = [issued EXCEPT ![t] =
       [state |-> "open", by |-> None, invite |-> OwnRoster(meta[Owner])]]
  /\ link' = [link EXCEPT ![Owner] = ls]
  /\ stream' = Dropped(stream, Owner, ls)
  /\ UNCHANGED <<up, meta, imported, expired, display, edits, faults, signed, mixed,
                 admissions>>

\* merge_group_invite: a newer roster replaces the stored one, any other is
\* merged into it.
MergedInvite(m, q, t) ==
  LET i == issued[t].invite
      newer == i.version > m.version
  IN
  [version |-> IF newer THEN i.version ELSE m.version,
   members |-> (IF newer THEN {} ELSE m.members) \cup (i.members \ {q}),
   renamed |-> (i.renamed \ {q})
                 \cup (IF newer THEN {} ELSE m.renamed \ i.members),
   token |-> t]

ImportInvite(q, t) ==
  LET m == MergedInvite(meta[q], q, t)
      ls == IF q \in up THEN Updated(link[q], m.members) ELSE OpenedLinks(m.members)
  IN
  /\ issued[t].state # "none"
  /\ t \in Private => q = Recipient[t] /\ t \notin imported \cup expired
  /\ meta' = [meta EXCEPT ![q] = m]
  /\ imported' = imported \cup ({t} \cap Private)
  /\ mixed' = IF meta[q].version >= issued[t].invite.version /\ meta[q] # NoGroup
              THEN mixed \cup {q} ELSE mixed
  /\ link' = [link EXCEPT ![q] = ls]
  /\ stream' = Dropped(stream, q, ls)
  /\ UNCHANGED <<up, issued, expired, display, edits, faults, signed, admissions>>

\* The tab is opened, its session initialised, and its tunnels published.
OpenGroup(p) ==
  /\ p \notin up
  /\ meta[p] # NoGroup
  /\ up' = up \cup {p}
  /\ UNCHANGED <<link, stream, rosterVars, faults>>

AddMember(q) ==
  LET m == meta[Owner] IN
  /\ Edit
  /\ meta[q] # NoGroup
  /\ q \notin m.members
  /\ Publishes(Bumped([m EXCEPT !.members = @ \cup {q}]), link[Owner], stream)
  /\ UNCHANGED <<up, issued, imported, expired, display, faults, mixed, admissions>>

\* Faulty variant: the invitation the member came with stays valid.
DeleteMemberOnly(q) ==
  LET m == meta[Owner] IN
  /\ Edit
  /\ q \in m.members
  /\ Publishes(Bumped([m EXCEPT !.members = @ \ {q}, !.renamed = @ \ {q}]),
               link[Owner], stream)
  /\ UNCHANGED <<up, issued, imported, expired, display, faults, mixed, admissions>>

DeleteMember(q) ==
  LET m == meta[Owner] IN
  /\ Edit
  /\ q \in m.members
  /\ issued' = [t \in Tokens |-> IF issued[t].by = q
                                 THEN [issued[t] EXCEPT !.state = "gone", !.by = None]
                                 ELSE issued[t]]
  /\ Publishes(Bumped([m EXCEPT !.members = @ \ {q}, !.renamed = @ \ {q}]),
               link[Owner], stream)
  /\ UNCHANGED <<up, imported, expired, display, faults, mixed, admissions>>

RevokePrivate(t) ==
  LET ls == Updated(link[Owner], meta[Owner].members) IN
  /\ Edit
  /\ t \in Private
  /\ issued[t].state = "open"
  /\ issued' = [issued EXCEPT ![t].state = "gone"]
  /\ link' = [link EXCEPT ![Owner] = ls]
  /\ stream' = Dropped(stream, Owner, ls)
  /\ UNCHANGED <<up, meta, imported, expired, display, faults, signed, mixed,
                 admissions>>

\* The owner's new name is part of the roster; a member asks for its own.
SaveDisplayName(p) ==
  LET m == meta[p]
      ls == IF p \in up THEN Updated(link[p], m.members) ELSE link[p]
      l == ls[Owner] IN
  /\ Edit
  /\ m # NoGroup
  /\ p \notin display
  /\ display' = display \cup {p}
  /\ IF p = Owner
     THEN LET r == [OwnRoster(Bumped(m)) EXCEPT !.renamed = @ \cup {Owner}] IN
          /\ meta' = [meta EXCEPT ![p] = Bumped(m)]
          /\ signed' = signed \cup {r}
          /\ link' = [link EXCEPT ![p] = ls]
          /\ stream' = Synced(Dropped(stream, p, ls), ls, r)
     ELSE /\ link' = [link EXCEPT ![p] = ls]
          /\ stream' = [c \in Streams |->
               IF c = l.conn /\ l.ready /\ l.auth
               THEN Posted(Dropped(stream, p, ls)[c], Owner,
                           {[type |-> "RENAME", new |-> TRUE]})
               ELSE Dropped(stream, p, ls)[c]]
          /\ UNCHANGED <<meta, signed>>
  /\ UNCHANGED <<up, issued, imported, expired, faults, mixed, admissions>>

\* QUIT is sent on every stream, and all of them are closed.
TabClosed(p) ==
  /\ p \in up
  /\ Fault
  /\ up' = up \ {p}
  /\ link' = [link EXCEPT ![p] = OpenedLinks(meta[p].members)]
  /\ stream' = [c \in Streams |->
       IF p \notin stream[c].held THEN stream[c]
       ELSE Left(Posted(stream[c], Other(c, p),
                        IF p \in stream[c].pend THEN {} ELSE {[type |-> "QUIT"]}),
                 p, TRUE)]
  /\ UNCHANGED rosterVars

Expire(t) ==
  /\ t \in Private \ expired
  /\ issued[t].state # "none"
  /\ Fault
  /\ expired' = expired \cup {t}
  /\ UNCHANGED <<up, link, stream, meta, issued, imported, display, edits, signed,
                 mixed, admissions>>

-----------------------------------------------------------------------------
(* Connections.                                                            *)

\* group_connect_tasks, at the end of a tick
GroupConnect(p, q, c) ==
  LET l == link[p][q] IN
  /\ p \in up
  /\ l.known /\ l.auth
  /\ ~l.ready /\ ~l.dial /\ l.conn = None
  /\ stream[c] = NoStream
  /\ \A d \in Streams : d < c => stream[d] # NoStream
  /\ stream' = [stream EXCEPT ![c] = [NoStream EXCEPT !.from = p, !.to = q,
                                                      !.held = {p}, !.pend = {p}]]
  /\ link' = [link EXCEPT ![p][q].dial = TRUE]
  /\ UNCHANGED <<up, rosterVars, faults>>

\* The accept task of the other end takes one call at a time.
RouterConnects(c) ==
  LET s == stream[c] IN
  /\ s.held # {} /\ ~s.open
  /\ s.to \in up
  /\ \A d \in Streams : ~(stream[d].to = s.to /\ s.to \in stream[d].pend)
  /\ stream' = [stream EXCEPT ![c] = [s EXCEPT !.open = TRUE,
                                               !.held = {s.from, s.to},
                                               !.pend = {s.from, s.to}]]
  /\ UNCHANGED <<up, link, rosterVars, faults>>

GroupConnectFails(c) ==
  LET s == stream[c] IN
  /\ s.held # {} /\ ~s.open
  /\ IF s.to \in up THEN Fault ELSE UNCHANGED faults
  /\ stream' = [stream EXCEPT ![c] = NoStream]
  /\ link' = [link EXCEPT ![s.from][s.to].dial = FALSE]
  /\ UNCHANGED <<up, rosterVars>>

\* p takes stream c for its link to q: an older stream is closed, and the
\* handshake goes out.
Takes(p, q, c) ==
  LET old == link[p][q].conn IN
  /\ link' = [link EXCEPT ![p][q] = Started(@, c)]
  /\ stream' = [d \in Streams |->
       IF d = c THEN Posted([stream[c] EXCEPT !.pend = @ \ {p}], q,
                            {[type |-> "HELLO"]})
       ELSE IF d = old THEN Left(stream[d], p, TRUE)
       ELSE stream[d]]

GroupConnectFinished(c) ==
  LET s == stream[c]
      p == s.from
      q == s.to
      l == link[p][q]
      refused == \/ ~l.known
                 \/ l.ready /\ l.conn # None
                 \/ l.conn # None /\ ~LocalPrefersOutbound(p, q)
  IN
  /\ s.open
  /\ p \in s.pend
  /\ IF refused
     THEN /\ link' = [link EXCEPT ![p][q].dial = FALSE]
          /\ stream' = [stream EXCEPT ![c] = Left(s, p, TRUE)]
     ELSE Takes(p, q, c)
  /\ UNCHANGED <<up, rosterVars, faults>>

\* A caller that is not in the list becomes a provisional peer.
GroupIncomingAccepted(c) ==
  LET s == stream[c]
      p == s.to
      q == s.from
      l == link[p][q]
      refused == \/ l.ready /\ l.conn # None
                 \/ (l.conn # None \/ l.dial) /\ LocalPrefersOutbound(p, q)
  IN
  /\ s.open
  /\ p \in s.pend
  /\ IF refused
     THEN /\ stream' = [stream EXCEPT ![c] = Left(s, p, TRUE)]
          /\ UNCHANGED link
     ELSE Takes(p, q, c)
  /\ UNCHANGED <<up, rosterVars, faults>>

-----------------------------------------------------------------------------
(* A tick of p reads a frame of its link to q.                             *)

Reads(p, q, f) ==
  LET box == stream[link[p][q].conn].box
      hello == [type |-> "HELLO"] IN
  /\ link[p][q].conn # None
  /\ <<p, f>> \in box
  /\ f = hello \/ <<p, hello>> \notin box

\* The streams once p has read frame f of its link to q.
Read(p, q, f) ==
  [stream EXCEPT ![link[p][q].conn].box = @ \ {<<p, f>>}]

\* What a peer tells the owner when their link is ready.
Introduction(p) ==
  LET t == meta[p].token IN
  IF t = None THEN {[type |-> "RENAME", new |-> p \in display]}
  ELSE IF t \in expired THEN {}
  ELSE {[type |-> "JOIN", token |-> t, new |-> p \in display]}

TickHello(p, q) ==
  LET f == [type |-> "HELLO"]
      l == link[p][q]
      ls == [link[p] EXCEPT ![q].ready = TRUE]
      st == Read(p, q, f)
  IN
  /\ Reads(p, q, f)
  /\ link' = [link EXCEPT ![p] = ls]
  /\ stream' = IF p = Owner THEN Synced(st, ls, OwnRoster(meta[p]))
               ELSE IF q = Owner
               THEN [st EXCEPT ![l.conn] = Posted(@, q, Introduction(p))]
               ELSE st
  /\ UNCHANGED <<up, rosterVars, faults>>

\* The link is reset and its stream closed.
Hangs(p, q, auth, st) ==
  /\ link' = [link EXCEPT ![p][q] = [Reset(@) EXCEPT !.auth = auth]]
  /\ stream' = [st EXCEPT ![link[p][q].conn] = Left(@, p, TRUE)]

TickQuit(p, q) ==
  /\ Reads(p, q, [type |-> "QUIT"])
  /\ Hangs(p, q, link[p][q].auth, stream)
  /\ UNCHANGED <<up, rosterVars, faults>>

\* redeem_group_invite_token, redeem_private_group_invite_token
Redeemable(t, q) ==
  \/ t \in Shareable /\ issued[t].state = "open"
  \/ t \in Shareable /\ issued[t].by = q
  \/ t \in Private /\ issued[t].state = "open" /\ t \notin expired

\* A private proof that was already redeemed by this member.
Completed(t, q) ==
  t \in Private /\ issued[t].state # "open" /\ link[Owner][q].auth
    /\ q \in meta[Owner].members

Named(m, q, new) == [m EXCEPT !.members = @ \cup {q},
                              !.renamed = IF new THEN @ \cup {q} ELSE @ \ {q}]

\* A proof is redeemed, is known to be redeemed, or ends the connection.
TickJoin(q, t, new) ==
  LET f == [type |-> "JOIN", token |-> t, new |-> new]
      m == meta[Owner]
      with == Named(m, q, new)
      changed == with # m \/ issued[t].state = "open"
      ls == [link[Owner] EXCEPT ![q].auth = TRUE]
      st == Read(Owner, q, f)
      ready == link[Owner][q].ready
  IN
  /\ Reads(Owner, q, f)
  /\ IF ready /\ ~Completed(t, q) /\ Redeemable(t, q)
     THEN /\ Publishes(IF changed THEN Bumped(with) ELSE m, ls, st)
          /\ issued' = [issued EXCEPT
               ![t].state = IF t \in Private THEN "gone" ELSE "redeemed",
               ![t].by = IF t \in Private THEN None ELSE q]
          /\ admissions' = IF q \in m.members THEN admissions
                           ELSE [admissions EXCEPT ![t] = @ + 1]
     ELSE /\ IF ready /\ ~Completed(t, q)
             THEN Hangs(Owner, q, FALSE, st)
             ELSE stream' = st /\ UNCHANGED link
          /\ UNCHANGED <<meta, signed, issued, admissions>>
  /\ UNCHANGED <<up, imported, expired, display, edits, faults, mixed>>

\* apply_group_member_rename: from members only, authorised or not.
TickRename(q, new) ==
  LET f == [type |-> "RENAME", new |-> new]
      m == meta[Owner]
      st == Read(Owner, q, f) IN
  /\ Reads(Owner, q, f)
  /\ IF link[Owner][q].ready /\ q \in m.members /\ Named(m, q, new) # m
     THEN Publishes(Bumped(Named(m, q, new)), link[Owner], st)
     ELSE stream' = st /\ UNCHANGED <<link, meta, signed>>
  /\ UNCHANGED <<up, issued, imported, expired, display, edits, faults, mixed,
                 admissions>>

\* Faulty variant: every roster is taken over.
MergedRosterAny(m, p, r) ==
  [m EXCEPT !.version = r.version, !.members = r.members \ {p},
            !.renamed = r.renamed \ {p}]

\* Faulty variant: the peer takes itself over as a member.
MergedRosterSelf(m, p, r) ==
  IF r.version <= m.version THEN m
  ELSE [m EXCEPT !.version = r.version, !.members = r.members, !.renamed = r.renamed]

\* merge_group_roster_sync
MergedRoster(m, p, r) ==
  IF r.version <= m.version THEN m
  ELSE IF p \notin r.members
  THEN [NoGroup EXCEPT !.version = r.version]
  ELSE [version |-> r.version, members |-> r.members \ {p},
        renamed |-> r.renamed \ {p},
        token |-> IF m.token \in Private THEN None ELSE m.token]

TickRoster(p, q, r) ==
  LET f == [type |-> "ROSTER", roster |-> r]
      takes == link[p][q].ready /\ link[p][q].auth
      m == IF takes THEN MergedRoster(meta[p], p, r) ELSE meta[p]
      ls == IF takes THEN Updated(link[p], m.members) ELSE link[p]
  IN
  /\ Reads(p, q, f)
  /\ meta' = [meta EXCEPT ![p] = m]
  /\ mixed' = IF m.version > meta[p].version THEN mixed \ {p} ELSE mixed
  /\ link' = [link EXCEPT ![p] = ls]
  /\ stream' = Dropped(Read(p, q, f), p, ls)
  /\ UNCHANGED <<up, issued, imported, expired, display, edits, faults, signed,
                 admissions>>

\* The stream was closed by the other end and nothing is left to read.
TickClosed(p, q) ==
  LET c == link[p][q].conn IN
  /\ c # None
  /\ stream[c].shut
  /\ \A m \in stream[c].box : m[1] # p
  /\ Hangs(p, q, link[p][q].auth, stream)
  /\ UNCHANGED <<up, rosterVars, faults>>

\* No answer arrives in time: the other end does not read the stream any more,
\* or is late.
Unanswered(p, q) ==
  LET c == link[p][q].conn IN
  /\ c # None
  /\ \A m \in stream[c].box : m[1] # p
  /\ IF q \in stream[c].held THEN Fault ELSE UNCHANGED faults

HandshakeTimeout(p, q) ==
  /\ ~link[p][q].ready
  /\ Unanswered(p, q)
  /\ Hangs(p, q, link[p][q].auth, stream)
  /\ UNCHANGED <<up, rosterVars>>

\* Faulty variant: only closed streams time out.
HeartbeatTimeoutShut(p, q) ==
  /\ link[p][q].ready
  /\ link[p][q].auth
  /\ Unanswered(p, q)
  /\ stream[link[p][q].conn].shut
  /\ Hangs(p, q, TRUE, stream)
  /\ UNCHANGED <<up, rosterVars>>

HeartbeatTimeout(p, q) ==
  /\ link[p][q].ready
  /\ link[p][q].auth
  /\ Unanswered(p, q)
  /\ Hangs(p, q, TRUE, stream)
  /\ UNCHANGED <<up, rosterVars>>

-----------------------------------------------------------------------------
Connections(c) ==
  RouterConnects(c) \/ GroupConnectFails(c) \/ GroupConnectFinished(c)
    \/ GroupIncomingAccepted(c)

Users ==
  \/ \E t \in Tokens : GenerateInvite(t) \/ RevokePrivate(t) \/ Expire(t)
  \/ \E q \in Others : AddMember(q) \/ DeleteMember(q)
  \/ \E q \in Others, t \in Tokens : ImportInvite(q, t)
  \/ \E p \in Peers : OpenGroup(p) \/ SaveDisplayName(p) \/ TabClosed(p)

\* The frames that wait at p on its link to q.
Frames(p, q) ==
  IF link[p][q].conn = None THEN {}
  ELSE {m[2] : m \in {n \in stream[link[p][q].conn].box : n[1] = p}}

Tick(p, q) ==
  \/ TickHello(p, q)
  \/ TickQuit(p, q)
  \/ \E f \in Frames(p, q) :
       \/ f.type = "JOIN" /\ TickJoin(q, f.token, f.new)
       \/ f.type = "RENAME" /\ TickRename(q, f.new)
       \/ f.type = "ROSTER" /\ TickRoster(p, q, f.roster)
  \/ TickClosed(p, q)
  \/ HandshakeTimeout(p, q)
  \/ HeartbeatTimeout(p, q)

Dials(p, q) == \E c \in Streams : GroupConnect(p, q, c)

Pairs == {x \in Peers \X Peers : x[1] # x[2]}

Next ==
  \/ Users
  \/ \E c \in Streams : Connections(c)
  \/ \E x \in Pairs : Tick(x[1], x[2]) \/ Dials(x[1], x[2])

Spec == Init /\ [][Next]_vars

\* Fairness asks for no fault: no timer needs to fire early, and no call to a
\* published tab needs to fail.  Routers answer calls and every tab ticks.
FairSpec ==
  /\ Spec
  /\ \A x \in {y \in Pairs : Owner \in {y[1], y[2]}} :
       WF_vars((Tick(x[1], x[2]) \/ Dials(x[1], x[2])) /\ UNCHANGED faults)
  /\ \A c \in Streams : SF_vars(Connections(c) /\ UNCHANGED faults)

-----------------------------------------------------------------------------
(* Properties.                                                             *)

TypeOK ==
  /\ up \subseteq Peers
  /\ meta \in [Peers -> Meta]
  /\ \A p \in Peers : p \notin meta[p].members
  /\ issued \in [Tokens -> Issued]
  /\ link \in [Peers -> [Peers -> Link]]
  /\ stream \in [Streams -> Stream]
  /\ imported \subseteq Private /\ expired \subseteq Private
  /\ display \subseteq Peers
  /\ edits \in 0..MaxEdits /\ faults \in 0..MaxFaults
  /\ signed \subseteq Roster
  /\ mixed \subseteq Others
  /\ admissions \in [Tokens -> Nat]

\* Whom a peer treats as authorised is in its stored roster: a member that was
\* deleted loses its standing on every path, also while it is connected
\* (update_open_group_roster after each change and each merge).
AuthorizedIsMember ==
  \A p \in Peers : \A q \in Peers :
    link[p][q].known /\ link[p][q].auth => q \in meta[p].members

\* A version stands for one roster: the owner never signs two, and a member at
\* some version has the roster that was signed for it, whatever the order in
\* which rosters and invitations reached it, unless it imported an invitation
\* that was not newer.
RosterIsSigned ==
  /\ \A r, s \in signed : r.version = s.version => r = s
  /\ \A p \in Others \ mixed : meta[p].members # {} =>
       \E r \in signed : /\ r.version = meta[p].version
                         /\ meta[p].members = r.members \ {p}
                         /\ meta[p].renamed = r.renamed \ {p}

\* Late rosters and old invitations never take a peer back.
VersionNeverDecreases ==
  [][\A p \in Peers : meta'[p].version >= meta[p].version]_vars

\* An invitation brings one peer into the group once, however often and by
\* whomever its token is presented: not a second peer with the same string,
\* not a member that was deleted since.
TokenAdmitsOnce == \A t \in Tokens : admissions[t] <= 1

HoldsOpenToken(q) ==
  /\ {q, Owner} \subseteq up
  /\ meta[q].token \in Tokens \ expired
  /\ issued[meta[q].token].state = "open"

\* A joiner that is not connected to the owner and has an invitation that is
\* still open gets in, also when calls fail, streams die and the owner forgets
\* it in between, unless a tab is closed or the token goes to another peer.  A
\* token imported while the two are connected is not presented before they
\* connect again, which nothing makes them do.
JoinerAdmitted ==
  \A q \in Others :
    HoldsOpenToken(q) /\ link[q][Owner].known /\ ~link[q][Owner].ready
      ~> q \in meta[Owner].members \/ ~HoldsOpenToken(q)

=============================================================================
