---------------------------- MODULE LiveSession ----------------------------
(***************************************************************************)
(* Live one-to-one sessions: a tab listens for calls with accept tasks,    *)
(* calls other peers with connect tasks, keeps at most one stream when     *)
(* calls cross, waits for the user to accept or decline a call, exchanges  *)
(* the handshake, and drops the stream when the peer quits, closes it or   *)
(* falls silent.  A tab can be closed and, for a contact, opened again.    *)
(* Transient tabs use one-time rendezvous invitations, contacts may lock   *)
(* the peer they talk to.                                                  *)
(*                                                                         *)
(* A tick drains the frames that have arrived; each of them is a step of   *)
(* its own here.  The identity (S) and key (K) frames of a handshake are   *)
(* sent by one task and travel as one frame.  PING and PONG frames are     *)
(* left out: they only keep the timer of HeartbeatTimeout from running     *)
(* out.  Since an address is the hash of a destination, the identity a     *)
(* peer sends matches the address it was called under.                     *)
(***************************************************************************)
EXTENDS Integers, Sequences

CONSTANTS
  Peers,          \* peers as numbers, in the order of their addresses
  Transient,      \* those with the "default" profile; the others are contacts
  Knows,          \* the <<peer, address>> pairs the users have
  MaxCalls,       \* bound: connect attempts, each with a stream of its number
  MaxInvites,     \* bound: rendezvous requests
  MaxFaults       \* bound: failed accepts, silent streams and closed tabs

ASSUME SessionAssumption ==
  /\ Peers \subseteq Nat \ {0}
  /\ Transient \subseteq Peers
  /\ Knows \subseteq Peers \X Peers
  /\ {MaxCalls, MaxInvites, MaxFaults} \subseteq Nat

Calls == 1 .. MaxCalls
Invites == 1 .. MaxInvites
None == 0    \* no call, peer or invitation

IssuedState == {"None", "Available", "Reserved", "Consumed", "Revoked"}
Frame == [type : {"HELLO", "QUIT"}] \cup [type : {"AUTH"}, id : Invites]

VARIABLES
  tab,        \* per peer: the tab's fields
  call,       \* per call: its ends, its connect task and its accept task
  accepts,    \* per peer: accept tasks that wait for a call
  wire,       \* per call and receiver: frames sent and not yet read
  closed,     \* the <<call, peer>> whose stream end is closed
  silent,     \* streams that carry nothing any more
  access,     \* per peer: rendezvous_outgoing and rendezvous_request
  issued,     \* per peer: rendezvous_issued and pending_rendezvous_request_id
  answered,   \* per invitation: the peer that answered the request
  expired,    \* invitations past their expiry
  accepted,   \* history: calls the user accepted
  abandoned,  \* history: calls dropped without closing the stream
  redeemed,   \* history: <<invitation, call>> that became sessions
  deaf,       \* history: peers one of whose accept tasks failed
  faults      \* history: failed accepts, silent streams and closed tabs

sessionVars == <<tab, call, accepts, wire, closed>>
rendezvousVars == <<access, issued, answered, expired, redeemed>>
historyVars == <<accepted, abandoned, deaf>>
vars == <<sessionVars, silent, rendezvousVars, historyVars, faults>>

Tab == [ up : BOOLEAN,        \* initialised and not closing
         live : Calls \cup {None},     \* live_conn
         pend : Calls \cup {None},     \* pending_conn
         ready : BOOLEAN,              \* live_ready
         flight : BOOLEAN,             \* connect_in_flight
         cur : Calls \cup {None},      \* the call of connect_generation
         armed : BOOLEAN,              \* accept_armed
         stored : Peers \cup {None} ]  \* stored_peer and its destination

Call == [ from : Peers \cup {None}, to : Peers \cup {None},
          out : {"unused", "dialing", "up", "done"},
          inn : {"none", "arriving", "done"} ]

UnusedCall == [from |-> None, to |-> None, out |-> "unused", inn |-> "none"]
OpenTab(stored) == [up |-> TRUE, live |-> None, pend |-> None, ready |-> FALSE,
                    flight |-> FALSE, cur |-> None, armed |-> TRUE,
                    stored |-> stored]
NoAccess == [outgoing |-> None, request |-> None]
NoIssue == [id |-> None, state |-> "None", pending |-> None]

\* A contact may be opened locked to a peer.
Init ==
  /\ \E stored \in [Peers -> Peers \cup {None}] :
       /\ \A p \in Peers : stored[p] # p /\ (p \in Transient => stored[p] = None)
       /\ tab = [p \in Peers |-> OpenTab(stored[p])]
  /\ call = [c \in Calls |-> UnusedCall]
  /\ accepts = [p \in Peers |-> 1]
  /\ wire = [c \in Calls |-> [p \in Peers |-> <<>>]]
  /\ closed = {}
  /\ silent = {}
  /\ access = [p \in Peers |-> NoAccess]
  /\ issued = [p \in Peers |-> NoIssue]
  /\ answered = [n \in Invites |-> None]
  /\ expired = {}
  /\ accepted = {}
  /\ abandoned = {}
  /\ redeemed = {}
  /\ deaf = {}
  /\ faults = 0

-----------------------------------------------------------------------------
(* Operators on streams and tabs.                                          *)

Other(c, p) == IF call[c].from = p THEN call[c].to ELSE call[c].from

LocalPrefersOutbound(p, q) == p < q

\* A live stream the tab has called itself.
Outbound(p) == tab[p].live # None /\ call[tab[p].live].from = p

OutboundCandidate(p) == tab[p].flight \/ Outbound(p)

\* Faulty variant: a pending call is forgotten.
CanStartPending(p) == tab[p].up /\ ~tab[p].flight /\ tab[p].live = None

CanStart(p) ==
  /\ tab[p].up
  /\ ~tab[p].flight
  /\ tab[p].live = None
  /\ tab[p].pend = None

Fault == faults < MaxFaults /\ faults' = faults + 1

\* is_closed: this end was closed, or the reader met the end of the stream.
IsClosed(c, p) ==
  \/ <<c, p>> \in closed
  \/ c \notin silent /\ <<c, Other(c, p)>> \in closed

\* ... and no frame is left to read.
Ended(c, p) == IsClosed(c, p) /\ wire[c][p] = <<>>

\* Faulty variant: the tab stays ready.
DroppedReady(t) == [t EXCEPT !.live = None, !.pend = None, !.armed = TRUE]

\* The tab without a connection, listening again.
Dropped(t) == [t EXCEPT !.live = None, !.pend = None, !.ready = FALSE,
                        !.armed = TRUE]

\* Faulty variant: the attempt stays in flight.
InvalidatedInFlight(t) == [t EXCEPT !.cur = None]

\* invalidate_one_to_one_connect
Invalidated(t) == [t EXCEPT !.flight = FALSE, !.cur = None]

\* Frames sent on a silent stream, or on one that was closed, are lost.
Sent(w, c, q, frames) ==
  IF c \in silent \/ (\E p \in Peers : <<c, p>> \in closed) THEN w
  ELSE [w EXCEPT ![c][q] = @ \o frames]

\* Nobody reads the frames of an end that was given up.
Unread(w, cs, p) == [c \in Calls |-> [q \in Peers |->
                       IF c \in cs /\ q = p THEN <<>> ELSE w[c][q]]]

Ends(cs, p) == (cs \ {None}) \X {p}

\* release_pending_rendezvous
Released(i) ==
  [i EXCEPT !.pending = None,
            !.state = IF i.pending # None /\ i.pending = i.id /\ @ = "Reserved"
                      THEN IF i.id \in expired THEN "Revoked" ELSE "Available"
                      ELSE @]

\* The end of a stream is met again by the check after the loop over its
\* frames, which then starts a second accept task.
Rearms(c, p, rest) == IF IsClosed(c, p) /\ rest = <<>> THEN 2 ELSE 1

\* The tab drops stream c: the connection state is reset, accept tasks are
\* started, and the frames in w are kept.
Drops(p, c, n, w) ==
  /\ tab' = [tab EXCEPT ![p] = Dropped(@)]
  /\ accepts' = [accepts EXCEPT ![p] = @ + n]
  /\ wire' = Unread(w, {c}, p)
  /\ UNCHANGED <<call, silent, faults>>

-----------------------------------------------------------------------------
(* Calling.                                                                *)

\* start_one_to_one_connect
StartConnect(p, q, c) ==
  /\ CanStart(p)
  /\ p # q
  /\ call[c].out = "unused"
  /\ \A b \in Calls : b < c => call[b].out # "unused"
  /\ call' = [call EXCEPT ![c] = [from |-> p, to |-> q, out |-> "dialing",
                                  inn |-> "none"]]
  /\ tab' = [tab EXCEPT ![p].flight = TRUE, ![p].cur = c]
  /\ UNCHANGED <<accepts, wire, closed, silent, historyVars, faults>>

\* The user enters an address; a locked contact is called at once.
Connect(p, q, c) ==
  /\ <<p, q>> \in Knows
  /\ tab[p].stored \in {None, q}
  /\ StartConnect(p, q, c)
  /\ access' = [access EXCEPT ![p].outgoing = IF tab[p].stored = None THEN None
                                              ELSE @]
  /\ UNCHANGED <<issued, answered, expired, redeemed>>

\* The router connects the two ends: the target had an accept task waiting.
RouterConnects(c) ==
  /\ call[c].out = "dialing"
  /\ accepts[call[c].to] > 0
  /\ call' = [call EXCEPT ![c].out = "up", ![c].inn = "arriving"]
  /\ accepts' = [accepts EXCEPT ![call[c].to] = @ - 1]
  /\ UNCHANGED <<tab, wire, closed, silent, rendezvousVars, historyVars, faults>>

\* The connect task fails, or ends because it was cancelled.
ConnectFails(c) ==
  LET p == call[c].from IN
  /\ call[c].out = "dialing"
  /\ call' = [call EXCEPT ![c].out = "done"]
  /\ tab' = [tab EXCEPT ![p].flight = @ /\ tab[p].cur # c]
  /\ UNCHANGED <<accepts, wire, closed, silent, rendezvousVars, historyVars,
                 faults>>

\* Faulty variant: the generation of the attempt is not compared.
CurrentAttemptAnyGeneration(c) ==
  LET t == tab[call[c].from] IN
  t.up /\ t.flight /\ call[t.cur].to = call[c].to

CurrentAttempt(c) ==
  LET t == tab[call[c].from] IN t.up /\ t.flight /\ t.cur = c

\* A stream that the tab no longer waits for is closed.
ConnectStale(c) ==
  LET p == call[c].from IN
  /\ call[c].out = "up"
  /\ ~CurrentAttempt(c)
  /\ call' = [call EXCEPT ![c].out = "done"]
  /\ closed' = closed \cup Ends({c}, p)
  /\ wire' = Unread(wire, {c}, p)
  /\ UNCHANGED <<tab, accepts, silent, rendezvousVars, historyVars, faults>>

\* A pending call is given up only for a call to the same peer that both
\* sides prefer; an established session is never given up.
KeepsOutbound(p, c) ==
  LET t == tab[p] IN
  /\ t.live = None
  /\ \/ t.pend = None
     \/ /\ call[t.pend].from = call[c].to
        /\ LocalPrefersOutbound(p, call[c].to)

\* The proof cannot be made: the response is another peer's, or has expired.
AuthFails(p, c) ==
  LET n == access[p].outgoing IN
  n # None /\ (n \in expired \/ answered[n] # call[c].to)

\* The stream becomes the live one and the handshake goes out; without a
\* proof the stream is closed again.
ConnectFinished(c) ==
  LET p == call[c].from
      t == tab[p]
      n == access[p].outgoing
      keep == KeepsOutbound(p, c)
      fails == keep /\ AuthFails(p, c)
      auth == IF n = None THEN <<>> ELSE <<[type |-> "AUTH", id |-> n]>>
      hello == auth \o <<[type |-> "HELLO"]>>
      gone == (IF keep THEN {t.pend} ELSE {}) \cup
              (IF keep /\ ~fails THEN {} ELSE {c})
  IN
  /\ call[c].out = "up"
  /\ CurrentAttempt(c)
  /\ call' = [call EXCEPT ![c].out = "done"]
  /\ tab' = [tab EXCEPT ![p] =
       IF keep
       THEN [t EXCEPT !.flight = FALSE, !.pend = None, !.ready = FALSE,
                      !.live = IF fails THEN None ELSE c,
                      !.armed = t.armed \/ t.pend # None]
       ELSE [t EXCEPT !.flight = FALSE]]
  /\ accepts' = [accepts EXCEPT ![p] = IF keep /\ t.pend # None THEN @ + 1 ELSE @]
  /\ access' = [access EXCEPT ![p].outgoing = IF keep THEN None ELSE @]
  /\ issued' = [issued EXCEPT ![p] = IF keep /\ t.pend # None THEN Released(@)
                                     ELSE @]
  /\ closed' = closed \cup Ends(gone, p)
  /\ wire' = IF keep /\ ~fails THEN Sent(wire, c, call[c].to, hello)
             ELSE Unread(wire, gone, p)
  /\ UNCHANGED <<silent, answered, expired, redeemed, historyVars, faults>>

-----------------------------------------------------------------------------
(* Being called.                                                           *)

\* The call is closed at once: the tab has a session or a pending call, calls
\* somebody else, or both ends prefer the stream it is opening itself.
Refuses(p, c) ==
  LET t == tab[p]
      from == call[c].from
      same == from = IF t.flight THEN call[t.cur].to
                     ELSE IF t.live # None THEN Other(t.live, p) ELSE None
  IN
  \/ t.ready /\ t.live # None
  \/ t.pend # None
  \/ OutboundCandidate(p) /\ (~same \/ LocalPrefersOutbound(p, from))

Arrives(c) ==
  /\ call[c].inn = "arriving"
  /\ call' = [call EXCEPT ![c].inn = "done"]
  /\ UNCHANGED <<silent, access, answered, expired, redeemed, historyVars, faults>>

\* IncomingAccepted for a tab that is closing or gone.
IncomingTooLate(c) ==
  LET p == call[c].to IN
  /\ Arrives(c)
  /\ ~tab[p].up
  /\ closed' = closed \cup Ends({c}, p)
  /\ wire' = Unread(wire, {c}, p)
  /\ UNCHANGED <<tab, accepts, issued>>

\* Faulty variant: the refusal does not start an accept task.
IncomingRefusedDeaf(c) ==
  LET p == call[c].to IN
  /\ Arrives(c)
  /\ tab[p].up
  /\ Refuses(p, c)
  /\ closed' = closed \cup Ends({c}, p)
  /\ wire' = Unread(wire, {c}, p)
  /\ UNCHANGED <<tab, accepts, issued>>

IncomingRefused(c) ==
  LET p == call[c].to
      rearm == tab[p].pend = None IN
  /\ Arrives(c)
  /\ tab[p].up
  /\ Refuses(p, c)
  /\ closed' = closed \cup Ends({c}, p)
  /\ wire' = Unread(wire, {c}, p)
  /\ tab' = [tab EXCEPT ![p].armed = @ \/ rearm]
  /\ accepts' = [accepts EXCEPT ![p] = IF rearm THEN @ + 1 ELSE @]
  /\ UNCHANGED issued

\* Faulty variant: the stream the call replaces is not closed.
IncomingKeptOldOpen(c) ==
  LET p == call[c].to
      base == IF OutboundCandidate(p) THEN Invalidated(tab[p]) ELSE tab[p] IN
  /\ Arrives(c)
  /\ tab[p].up
  /\ ~Refuses(p, c)
  /\ tab' = [tab EXCEPT ![p] = [base EXCEPT !.live = None, !.pend = c,
                                            !.ready = FALSE, !.armed = FALSE]]
  /\ issued' = [issued EXCEPT ![p].pending = None]
  /\ UNCHANGED <<accepts, closed, wire>>

\* The call becomes the pending one, in place of the tab's own attempt.
IncomingKept(c) ==
  LET p == call[c].to
      t == tab[p]
      base == IF OutboundCandidate(p) THEN Invalidated(t) ELSE t
  IN
  /\ Arrives(c)
  /\ t.up
  /\ ~Refuses(p, c)
  /\ tab' = [tab EXCEPT ![p] = [base EXCEPT !.live = None, !.pend = c,
                                            !.ready = FALSE, !.armed = FALSE]]
  /\ issued' = [issued EXCEPT ![p].pending = None]
  /\ closed' = closed \cup Ends({t.live}, p)
  /\ wire' = Unread(wire, {t.live}, p)
  /\ UNCHANGED accepts

\* An accept task fails; accept_armed stays set and no other is started.
AcceptFails(p) ==
  /\ accepts[p] > 0
  /\ tab[p].up
  /\ Fault
  /\ accepts' = [accepts EXCEPT ![p] = @ - 1]
  /\ deaf' = deaf \cup {p}
  /\ UNCHANGED <<tab, call, wire, closed, silent, rendezvousVars, accepted,
                 abandoned>>

\* A tick finds the tab without a connection and without an accept task.
RearmAccept(p) ==
  /\ tab[p].up
  /\ tab[p].live = None
  /\ tab[p].pend = None
  /\ ~tab[p].armed
  /\ tab' = [tab EXCEPT ![p].armed = TRUE]
  /\ accepts' = [accepts EXCEPT ![p] = @ + 1]
  /\ UNCHANGED <<call, wire, closed, silent, rendezvousVars, historyVars, faults>>

-----------------------------------------------------------------------------
(* One-time rendezvous invitations.                                        *)

\* Faulty variant: the state of the invitation is not compared.
VerifiedAnyState(p, n) ==
  /\ issued[p].id = n
  /\ n \notin expired

\* verify_auth_signal
Verified(p, n) ==
  /\ issued[p].state = "Available"
  /\ issued[p].id = n
  /\ n \notin expired

\* The user asks for an invitation; an answer of an earlier request is void.
GenerateRequest(p, n) ==
  /\ p \in Transient
  /\ tab[p].up
  /\ answered[n] = None
  /\ \A q \in Peers : access[q].request # n
  /\ \A m \in Invites : m < n => \/ answered[m] # None
                                 \/ \E q \in Peers : access[q].request = m
  /\ access' = [access EXCEPT ![p] = [outgoing |-> None, request |-> n]]
  /\ UNCHANGED <<sessionVars, silent, issued, answered, expired, redeemed,
                 historyVars, faults>>

\* answer_request replaces the invitation that was issued before.
AnswerRequest(q, p) ==
  LET n == access[p].request IN
  /\ q \in Transient \ {p}
  /\ tab[q].up
  /\ n # None
  /\ answered[n] = None
  /\ n \notin expired
  /\ issued' = [issued EXCEPT ![q].id = n, ![q].state = "Available"]
  /\ answered' = [answered EXCEPT ![n] = q]
  /\ UNCHANGED <<sessionVars, silent, access, expired, redeemed, historyVars,
                 faults>>

\* open_response: the latest request, its answer not expired.
ResponseOpens(p) ==
  LET n == access[p].request IN n # None /\ answered[n] # None /\ n \notin expired

ConnectResponse(p, c) ==
  LET n == access[p].request IN
  /\ ResponseOpens(p)
  /\ StartConnect(p, answered[n], c)
  /\ access' = [access EXCEPT ![p] = [outgoing |-> n, request |-> None]]
  /\ UNCHANGED <<issued, answered, expired, redeemed>>

\* The tab is busy: the access is kept, and the request too.
ConnectResponseBusy(p) ==
  /\ ResponseOpens(p)
  /\ tab[p].up
  /\ ~CanStart(p)
  /\ access' = [access EXCEPT ![p].outgoing = access[p].request]
  /\ UNCHANGED <<sessionVars, silent, issued, answered, expired, redeemed,
                 historyVars, faults>>

Revoke(p) ==
  /\ issued[p].id # None
  /\ issued[p].state # "Revoked"
  /\ issued' = [issued EXCEPT ![p].state = "Revoked", ![p].pending = None]
  /\ access' = [access EXCEPT ![p] = NoAccess]
  /\ UNCHANGED <<sessionVars, silent, answered, expired, redeemed, historyVars,
                 faults>>

Expire(n) ==
  /\ answered[n] # None
  /\ expired' = expired \cup {n}
  /\ UNCHANGED <<sessionVars, silent, access, issued, answered, redeemed,
                 historyVars, faults>>

-----------------------------------------------------------------------------
(* A tick reads a frame of the live stream.                                *)

LiveFrame(p, type) ==
  LET c == tab[p].live IN
  /\ c # None
  /\ wire[c][p] # <<>>
  /\ Head(wire[c][p]).type = type

LiveHello(p) ==
  LET c == tab[p].live IN
  /\ LiveFrame(p, "HELLO")
  /\ wire' = [wire EXCEPT ![c][p] = Tail(@)]
  /\ tab' = [tab EXCEPT ![p].ready = TRUE]
  /\ UNCHANGED <<call, accepts, closed, silent, rendezvousVars, historyVars,
                 faults>>

\* QUIT: the peer closes the stream; this end is not closed.
LiveQuit(p) ==
  LET c == tab[p].live IN
  /\ LiveFrame(p, "QUIT")
  /\ Drops(p, c, Rearms(c, p, Tail(wire[c][p])), wire)
  /\ UNCHANGED <<closed, rendezvousVars, historyVars>>

\* The call was accepted before its proof was read.
LiveAuth(p) ==
  LET c == tab[p].live
      n == Head(wire[c][p]).id
      ok == /\ p \in Transient
            /\ ~Outbound(p)
            /\ Verified(p, n)
  IN
  /\ LiveFrame(p, "AUTH")
  /\ IF ok
     THEN /\ wire' = [wire EXCEPT ![c][p] = Tail(@)]
          /\ issued' = [issued EXCEPT ![p].state = "Consumed"]
          /\ redeemed' = redeemed \cup {<<n, c>>}
          /\ UNCHANGED <<tab, call, accepts, closed, silent, faults>>
     ELSE /\ Drops(p, c, Rearms(c, p, Tail(wire[c][p])), wire)
          /\ closed' = closed \cup Ends({c}, p)
          /\ issued' = [issued EXCEPT ![p].pending = None]
          /\ UNCHANGED redeemed
  /\ UNCHANGED <<access, answered, expired, historyVars>>

\* Faulty variant: only a stream that has ended times out.
HeartbeatTimeoutEnded(p) ==
  LET c == tab[p].live IN
  /\ c # None
  /\ Ended(c, p)
  /\ Drops(p, c, 1, wire)
  /\ closed' = closed \cup Ends({c}, p)
  /\ UNCHANGED <<rendezvousVars, historyVars>>

\* Nothing was read for HEARTBEAT_TIMEOUT_MS.
HeartbeatTimeout(p) ==
  LET c == tab[p].live IN
  /\ c # None
  /\ tab[p].ready
  /\ wire[c][p] = <<>>
  /\ Drops(p, c, Rearms(c, p, <<>>), wire)
  /\ closed' = closed \cup Ends({c}, p)
  /\ UNCHANGED <<rendezvousVars, historyVars>>

LiveEnded(p) ==
  LET c == tab[p].live IN
  /\ c # None
  /\ Ended(c, p)
  /\ Drops(p, c, 1, wire)
  /\ closed' = closed \cup Ends({c}, p)
  /\ UNCHANGED <<rendezvousVars, historyVars>>

-----------------------------------------------------------------------------
(* A tick reads a frame of the pending stream.                             *)

PendingFrame(p, type) ==
  LET c == tab[p].pend IN
  /\ c # None
  /\ wire[c][p] # <<>>
  /\ Head(wire[c][p]).type = type

PendingHello(p) ==
  LET c == tab[p].pend IN
  /\ PendingFrame(p, "HELLO")
  /\ wire' = [wire EXCEPT ![c][p] = Tail(@)]
  /\ UNCHANGED <<tab, call, accepts, closed, silent, rendezvousVars,
                 historyVars, faults>>

PendingQuit(p) ==
  LET c == tab[p].pend IN
  /\ PendingFrame(p, "QUIT")
  /\ Drops(p, c, Rearms(c, p, Tail(wire[c][p])), wire)
  /\ issued' = [issued EXCEPT ![p] = Released(@)]
  /\ UNCHANGED <<closed, access, answered, expired, redeemed, historyVars>>

\* The proof reserves the invitation, or the call is closed.
PendingAuth(p) ==
  LET c == tab[p].pend
      n == Head(wire[c][p]).id
      ok == p \in Transient /\ Verified(p, n)
  IN
  /\ PendingFrame(p, "AUTH")
  /\ IF ok
     THEN /\ wire' = [wire EXCEPT ![c][p] = Tail(@)]
          /\ issued' = [issued EXCEPT ![p].state = "Reserved", ![p].pending = n]
          /\ UNCHANGED <<tab, call, accepts, closed, silent, faults>>
     ELSE /\ Drops(p, c, Rearms(c, p, Tail(wire[c][p])), wire)
          /\ closed' = closed \cup Ends({c}, p)
          /\ issued' = [issued EXCEPT ![p].pending = None]
  /\ UNCHANGED <<access, answered, expired, redeemed, historyVars>>

\* Faulty variant: the invitation of the caller stays reserved.
PendingEndedReserved(p) ==
  LET c == tab[p].pend IN
  /\ c # None
  /\ Ended(c, p)
  /\ Drops(p, c, 1, wire)
  /\ closed' \in {closed, closed \cup Ends({c}, p)}
  /\ issued' = [issued EXCEPT ![p].pending = None]
  /\ UNCHANGED <<access, answered, expired, redeemed, historyVars>>

\* The caller is gone: found before the frames are read, where this end is
\* left as it is, or after, where it is closed.
PendingEnded(p) ==
  LET c == tab[p].pend IN
  /\ c # None
  /\ Ended(c, p)
  /\ Drops(p, c, 1, wire)
  /\ closed' \in {closed, closed \cup Ends({c}, p)}
  /\ issued' = [issued EXCEPT ![p] = Released(@)]
  /\ UNCHANGED <<access, answered, expired, redeemed, historyVars>>

-----------------------------------------------------------------------------
(* The user's buttons.                                                     *)

\* Accept: the session is ready at once and answers with its handshake.  A
\* caller that is not the locked peer is dropped without being told.
Accept(p) ==
  LET c == tab[p].pend
      t == tab[p]
      from == call[c].from
      mine == issued[p].pending = issued[p].id /\ issued[p].state = "Reserved"
  IN
  /\ t.up
  /\ c # None
  /\ IF t.stored \in {None, from}
     THEN /\ tab' = [tab EXCEPT ![p] = [t EXCEPT !.live = c, !.pend = None,
                                                 !.ready = TRUE]]
          /\ wire' = Sent(wire, c, from, <<[type |-> "HELLO"]>>)
          /\ issued' = [issued EXCEPT ![p].pending = None,
                                      ![p].state = IF mine THEN "Consumed" ELSE @]
          /\ redeemed' = IF issued[p].pending = None THEN redeemed
                         ELSE redeemed \cup {<<issued[p].pending, c>>}
          /\ accepted' = accepted \cup {c}
          /\ UNCHANGED abandoned
     ELSE /\ tab' = [tab EXCEPT ![p] = [Invalidated(t) EXCEPT !.pend = None,
                                                              !.ready = FALSE]]
          /\ wire' = Unread(wire, {c}, p)
          /\ issued' = [issued EXCEPT ![p] = Released(@)]
          /\ abandoned' = abandoned \cup {c}
          /\ UNCHANGED <<redeemed, accepted>>
  /\ UNCHANGED <<call, accepts, closed, silent, access, answered, expired, deaf,
                 faults>>

\* Decline starts an accept task and leaves accept_armed as it is.
Decline(p) ==
  LET c == tab[p].pend IN
  /\ tab[p].up
  /\ c # None
  /\ tab' = [tab EXCEPT ![p].pend = None]
  /\ accepts' = [accepts EXCEPT ![p] = @ + 1]
  /\ closed' = closed \cup Ends({c}, p)
  /\ wire' = Unread(wire, {c}, p)
  /\ issued' = [issued EXCEPT ![p].pending = None,
                              ![p].state = IF issued[p].pending = issued[p].id
                                              /\ issued[p].id # None
                                           THEN "Revoked" ELSE @]
  /\ UNCHANGED <<call, silent, access, answered, expired, redeemed, historyVars,
                 faults>>

\* QUIT is sent and the stream closed by two tasks: QUIT may come too late.
Disconnect(p) ==
  LET c == tab[p].live
      t == tab[p] IN
  /\ t.up
  /\ t.pend = None
  /\ t.flight \/ c # None
  /\ tab' = [tab EXCEPT ![p] = Dropped(Invalidated(t))]
  /\ accepts' = [accepts EXCEPT ![p] = @ + 1]
  /\ issued' = [issued EXCEPT ![p] = Released(@)]
  /\ closed' = closed \cup Ends({c}, p)
  /\ \E quit \in {<<>>} \cup IF c = None THEN {} ELSE {<<[type |-> "QUIT"]>>} :
       wire' = Unread(IF quit = <<>> THEN wire ELSE Sent(wire, c, Other(c, p), quit),
                      {c}, p)
  /\ UNCHANGED <<call, silent, access, answered, expired, redeemed, historyVars,
                 faults>>

Lock(p) ==
  LET t == tab[p] IN
  /\ p \in Peers \ Transient
  /\ t.stored = None
  /\ t.ready
  /\ t.live # None
  /\ tab' = [tab EXCEPT ![p].stored = Other(t.live, p)]
  /\ UNCHANGED <<call, accepts, wire, closed, silent, rendezvousVars,
                 historyVars, faults>>

Unlock(p) ==
  /\ tab[p].stored # None
  /\ tab[p].up
  /\ tab[p].pend = None
  /\ tab' = [tab EXCEPT ![p].stored = None]
  /\ UNCHANGED <<call, accepts, wire, closed, silent, rendezvousVars,
                 historyVars, faults>>

\* The tab closes, as all tabs do at shutdown: the peer of its session or call
\* is sent QUIT, every stream it ever kept is closed, its tasks are cancelled.
TabClosed(p) ==
  LET t == tab[p]
      held == {t.live, t.pend} \ {None}
      kept == {c \in Calls : \/ call[c].from = p /\ call[c].out = "done"
                             \/ call[c].to = p /\ call[c].inn = "done"}
  IN
  /\ t.up
  /\ Fault
  /\ tab' = [tab EXCEPT ![p] = [OpenTab(t.stored) EXCEPT !.up = FALSE,
                                                         !.armed = FALSE]]
  /\ accepts' = [accepts EXCEPT ![p] = 0]
  /\ closed' = closed \cup Ends(kept, p)
  /\ wire' = Unread([c \in Calls |->
               IF c \in held
               THEN Sent(wire, c, Other(c, p), <<[type |-> "QUIT"]>>)[c]
               ELSE wire[c]], kept, p)
  /\ issued' = [issued EXCEPT ![p] = NoIssue]
  /\ access' = [access EXCEPT ![p] = NoAccess]
  /\ UNCHANGED <<call, silent, answered, expired, redeemed, historyVars>>

\* The contact is opened again and its SAM session is initialised.
SamInitialized(p) ==
  /\ p \notin Transient
  /\ ~tab[p].up
  /\ tab' = [tab EXCEPT ![p] = OpenTab(tab[p].stored)]
  /\ accepts' = [accepts EXCEPT ![p] = 1]
  /\ UNCHANGED <<call, wire, closed, silent, rendezvousVars, historyVars, faults>>

\* A stream falls silent: the router lost it and neither end is told.
FallSilent(c) ==
  /\ call[c].out # "unused"
  /\ c \notin silent
  /\ call[c].inn # "none"
  /\ Fault
  /\ silent' = silent \cup {c}
  /\ wire' = [wire EXCEPT ![c] = [p \in Peers |-> <<>>]]
  /\ UNCHANGED <<tab, call, accepts, closed, rendezvousVars, historyVars>>

-----------------------------------------------------------------------------
Tick(p) ==
  \/ RearmAccept(p)
  \/ LiveHello(p) \/ LiveQuit(p) \/ LiveAuth(p)
  \/ HeartbeatTimeout(p) \/ LiveEnded(p)
  \/ PendingHello(p) \/ PendingQuit(p) \/ PendingAuth(p) \/ PendingEnded(p)

Router(c) ==
  \/ RouterConnects(c) \/ ConnectFails(c) \/ ConnectStale(c) \/ ConnectFinished(c)
  \/ IncomingTooLate(c) \/ IncomingRefused(c) \/ IncomingKept(c)

Next ==
  \/ \E p \in Peers :
       \/ Tick(p)
       \/ AcceptFails(p)
       \/ Accept(p) \/ Decline(p) \/ Disconnect(p) \/ Lock(p) \/ Unlock(p)
       \/ TabClosed(p) \/ SamInitialized(p)
       \/ ConnectResponseBusy(p) \/ Revoke(p)
       \/ \E c \in Calls : ConnectResponse(p, c)
       \/ \E n \in Invites : GenerateRequest(p, n)
       \/ \E q \in Peers : \/ AnswerRequest(p, q)
                           \/ \E c \in Calls : Connect(p, q, c)
  \/ \E c \in Calls : Router(c) \/ FallSilent(c)
  \/ \E n \in Invites : Expire(n)

Spec == Init /\ [][Next]_vars

\* The timer's ticks reach every tab.
FairSpec == Spec /\ \A p \in Peers : WF_vars(Tick(p))

-----------------------------------------------------------------------------
\* The types of the variables; a connect in flight has its generation's call.
TypeOK ==
  /\ tab \in [Peers -> Tab]
  /\ \A p \in Peers : tab[p].flight => tab[p].cur # None
  /\ call \in [Calls -> Call]
  /\ accepts \in [Peers -> Nat]
  /\ \A c \in Calls, p \in Peers : wire[c][p] \in Seq(Frame)
  /\ closed \subseteq Calls \X Peers
  /\ silent \subseteq Calls
  /\ \A p \in Peers : /\ access[p].outgoing \in Invites \cup {None}
                      /\ issued[p].state \in IssuedState
                      /\ issued[p].pending \in Invites \cup {None}
  /\ abandoned \subseteq Calls /\ accepted \subseteq Calls

\* At most one of a live stream, a pending call and a connect attempt.
OneConnection ==
  \A p \in Peers :
    LET t == tab[p] IN
    /\ t.live # None => t.pend = None
    /\ t.flight => t.live = None /\ t.pend = None

\* An outbound stream is the one of the tab's latest attempt.
OutboundIsLatest ==
  \A p \in Peers : Outbound(p) => tab[p].cur = tab[p].live

Holds(p, c) == c \in {tab[p].live, tab[p].pend}
MayStillHold(p, c) ==
  \/ Holds(p, c)
  \/ call[c].from = p /\ call[c].out \in {"dialing", "up"}
  \/ call[c].to = p /\ call[c].inn = "arriving"

\* No end is kept in the dark: when a tab holds a stream, the other end holds
\* it too or will, or the stream is closed at one end.
HalfOpenIsVisible ==
  \A p \in Peers, c \in Calls :
    Holds(p, c) =>
      \/ MayStillHold(Other(c, p), c)
      \/ IsClosed(c, p)
      \/ c \in silent \cup abandoned

\* The caller's session is ready only after the user at the other end accepted.
ReadyIsAccepted ==
  \A p \in Peers : tab[p].ready => tab[p].live \in accepted

\* While the tab believes that it listens it does, unless an accept failed.
ArmedTabListens ==
  \A p \in Peers :
    tab[p].up /\ tab[p].armed /\ p \notin deaf =>
      accepts[p] > 0 \/ \E c \in Calls : call[c].to = p /\ call[c].inn = "arriving"

\* A reserved invitation belongs to the pending caller.
ReservedIsHeld ==
  \A p \in Peers :
    issued[p].state = "Reserved" =>
      tab[p].pend # None /\ issued[p].pending = issued[p].id

\* An invitation makes at most one session.
InvitationUsedOnce ==
  \A x, y \in redeemed : x[1] = y[1] => x = y

\* The other end no longer holds stream c and this end can find out: the stream
\* was closed and is not silent, or the session's heartbeats go unanswered.
Gone(p, c) ==
  /\ Holds(p, c)
  /\ ~MayStillHold(Other(c, p), c)
  /\ IsClosed(c, p) \/ tab[p].ready

\* A tab that holds a stream its peer has given up drops it, unless the stream
\* falls silent before the session is ready: nothing times such a call out.
HalfOpenEnds ==
  \A c \in Calls :
    (\E p \in Peers : Gone(p, c)) ~>
      \A p \in Peers : ~Holds(p, c) \/ (c \in silent /\ ~tab[p].ready)
=============================================================================
