--------------------------- MODULE OfflineReceiver ---------------------------
(***************************************************************************)
(* The receiving half of offline delivery for one chat tab: the poll       *)
(* rounds that GET the keys of the receive window from the deaddrops, the  *)
(* bookkeeping of consumed, missing and skipped indexes, the forward and   *)
(* recovery probes, the persisted offline state and its reload.            *)
(*                                                                         *)
(* A key is its message index.  The u64 indexes saturate at Top.  A blob   *)
(* is an index and a version: two versions under one index are the two     *)
(* blobs that two deaddrops may hold for the same key.  The clock is       *)
(* reduced to whether the two intervals the code compares have elapsed.    *)
(***************************************************************************)
EXTENDS Naturals, FiniteSets, FiniteSetsExt

CONSTANTS
  MaxIndex,                 \* bound: the peer writes indexes 0..MaxIndex
  Window,                   \* drop_window
  GapMissRounds,            \* OFFLINE_GAP_MISS_ROUNDS
  ForwardProbeStallRounds,  \* OFFLINE_FORWARD_PROBE_STALL_ROUNDS
  RecoveryStateLimit,       \* OFFLINE_RECOVERY_STATE_LIMIT
  Versions,                 \* versions of the blob under one key
  Slots,                    \* bound: GET tasks outstanding at once
  NoTarget,                 \* content of a slot without a GET
  MaxStarts,                \* bound: runtime start tasks outstanding at once
  MaxRestarts,              \* bound: crashes and reopenings of the tab
  DiskFaults,               \* may a save of the offline state fail?
  RetentionPasses           \* may OFFLINE_SKIPPED_RETENTION_MS elapse?

ASSUME ReceiverAssumption ==
  /\ MaxIndex \in Nat
  /\ Window \in Nat \ {0}
  /\ GapMissRounds \in Nat \ {0}
  /\ ForwardProbeStallRounds \in Nat
  /\ RecoveryStateLimit \in Nat
  /\ MaxStarts \in Nat
  /\ MaxRestarts \in Nat
  /\ DiskFaults \in BOOLEAN
  /\ RetentionPasses \in BOOLEAN
  /\ NoTarget \notin [index : 0 .. MaxIndex,
                      kind : {"Window", "ForwardProbe", "RecoveryProbe"}]

Index == 0 .. MaxIndex
Top == MaxIndex + 1
Blob == Index \X Versions

\* Faulty variant: the sum is not saturated.
PlainAdd(n, k) == n + k

SaturatingAdd(n, k) == IF n + k > Top THEN Top ELSE n + k
Larger(m, n) == IF m > n THEN m ELSE n

Kinds == {"Window", "ForwardProbe", "RecoveryProbe"}
Target == [index : Index, kind : Kinds]

VARIABLES
  rx,           \* receive part of the session's offline state
  disk,         \* the saved offline state
  seen,         \* seen_drop_msgs: blobs shown since the tab was opened
  offline,      \* offline_mode
  started,      \* deaddrop_started
  starting,     \* runtime start tasks outstanding
  putting,      \* deaddrop_put_in_flight
  polling,      \* deaddrop_poll_in_flight
  queue,        \* deaddrop_poll_queue
  gets,         \* the GET tasks outstanding
  roundMisses,  \* deaddrop_poll_round_misses
  roundAuth,    \* deaddrop_poll_round_authenticated
  stalled,      \* deaddrop_stalled_sweeps, saturated at the threshold
  pollRecent,   \* less than DEADDROP_POLL_INTERVAL_MS since the last poll
  probeRecent,  \* less than the probe interval since the last recovery probe
  sent,         \* environment: the peer has stored indexes 0..sent-1
  held,         \* environment: versions stored under each index
  lost,         \* environment: indexes whose blobs the deaddrops gave up
  shown,        \* history: how often each blob was shown to the user
  dropped,      \* history: skipped indexes no longer remembered
  missAnswers,  \* history: rounds in which each index was answered MISS
  restarts      \* history: number of restarts

envVars == <<sent, held, lost>>
historyVars == <<shown, dropped, missAnswers, restarts>>
roundVars == <<polling, queue, roundMisses, roundAuth>>
modeVars == <<offline, started, starting, putting>>
vars == <<rx, disk, seen, modeVars, roundVars, gets, stalled, pollRecent,
          probeRecent, envVars, historyVars>>

-----------------------------------------------------------------------------
(* Pure parts of the receive state.                                        *)

OfflineState ==
  [ drop_recv_base : 0 .. Top,
    consumed_drop_recv : SUBSET Index,
    known_remote_next_send : 0 .. Top,
    missing_drop_recv : [Index -> 0 .. GapMissRounds],
    skipped_drop_recv : SUBSET Index,
    recently_probed : SUBSET Index,
    forward_probe_index : 0 .. Top ]

\* missing_drop_recv maps an index without an entry to 0; its counter is only
\* compared with the threshold, where it saturates here.  recently_probed are
\* the skipped entries whose last_recovery_probe_ms is too recent to probe.
DefaultOfflineState ==
  [ drop_recv_base |-> 0,
    consumed_drop_recv |-> {},
    known_remote_next_send |-> 0,
    missing_drop_recv |-> [i \in Index |-> 0],
    skipped_drop_recv |-> {},
    recently_probed |-> {},
    forward_probe_index |-> 0 ]

\* Faulty variant: the base moves behind the last index received.
FirstBeyond(r) ==
  Min({i \in r.drop_recv_base .. Top :
         \A j \in r.consumed_drop_recv \cup r.skipped_drop_recv : j < i})

\* The first index from the base on that is neither consumed nor skipped.
FirstOpen(r) ==
  Min({i \in r.drop_recv_base .. Top :
         i \notin r.consumed_drop_recv \cup r.skipped_drop_recv})

AdvanceDropRecvBase(r) ==
  [r EXCEPT !.drop_recv_base = FirstOpen(r),
            !.consumed_drop_recv = {i \in @ : i >= FirstOpen(r)}]

\* An authenticated message was found under index i.
Authenticated(r, i) ==
  AdvanceDropRecvBase(
    [r EXCEPT !.known_remote_next_send = Larger(@, i + 1),
              !.missing_drop_recv[i] = 0,
              !.skipped_drop_recv = @ \ {i},
              !.recently_probed = @ \ {i},
              !.consumed_drop_recv =
                 IF i >= r.drop_recv_base THEN @ \cup {i} ELSE @])

\* The n smallest members of S: what truncating a sorted list keeps.
Smallest(S, n) == {i \in S : Cardinality({j \in S : j < i}) < n}

Counted(r, misses) ==
  [i \in Index |-> IF i \in misses /\ r.missing_drop_recv[i] < GapMissRounds
                   THEN r.missing_drop_recv[i] + 1
                   ELSE r.missing_drop_recv[i]]

\* Faulty variants: a gap is skipped without knowing that anything was sent
\* there, and a gap is skipped one round early.
SkipUnsent(r, misses) ==
  {i \in Index : Counted(r, misses)[i] >= GapMissRounds /\ i >= r.drop_recv_base}

SkipEarly(r, misses) ==
  {i \in Index : /\ Counted(r, misses)[i] + 1 >= GapMissRounds
                 /\ i < r.known_remote_next_send
                 /\ i >= r.drop_recv_base}

SkipIndexes(r, misses) ==
  {i \in Index : /\ Counted(r, misses)[i] >= GapMissRounds
                 /\ i < r.known_remote_next_send
                 /\ i >= r.drop_recv_base}

AllSkipped(r, misses) == r.skipped_drop_recv \cup SkipIndexes(r, misses)

KeptSkipped(r, misses, expired) ==
  Smallest(AllSkipped(r, misses) \ expired, RecoveryStateLimit)

KeptMissing(r, misses) ==
  Smallest({i \in Index \ AllSkipped(r, misses) : Counted(r, misses)[i] > 0},
           RecoveryStateLimit)

\* The recovery part of the end of a round; expired are the entries past
\* their retention.
Recounted(r, misses, expired) ==
  AdvanceDropRecvBase(
    [r EXCEPT !.missing_drop_recv =
                 [i \in Index |-> IF i \in KeptMissing(r, misses)
                                  THEN Counted(r, misses)[i] ELSE 0],
              !.skipped_drop_recv = KeptSkipped(r, misses, expired),
              !.recently_probed = @ \cap KeptSkipped(r, misses, expired)])

Progress(r, misses, auth, expired) ==
  \/ Recounted(r, misses, expired).drop_recv_base # r.drop_recv_base
  \/ auth # {}

FinalizeOfflinePollRound(r, misses, auth, expired) ==
  LET n == Recounted(r, misses, expired) IN
  IF Progress(r, misses, auth, expired)
  THEN [n EXCEPT !.forward_probe_index =
                    SaturatingAdd(n.drop_recv_base, Window)]
  ELSE n

\* What get_deaddrop_recv_window asks for, keys above MaxIndex left out.
RecvWindow(r) ==
  {[index |-> i, kind |-> "Window"] :
     i \in {j \in Index : /\ j >= r.drop_recv_base
                          /\ j < r.drop_recv_base + Window
                          /\ j \notin r.consumed_drop_recv}}

\* The order of the poll queue: the window upwards, then the probes.
Rank(t) == CASE t.kind = "Window" -> t.index
             [] t.kind = "ForwardProbe" -> Top
             [] t.kind = "RecoveryProbe" -> Top + 1

IsNext(t, q) == t \in q /\ \A u \in q : Rank(t) <= Rank(u)

-----------------------------------------------------------------------------
Init ==
  /\ rx = DefaultOfflineState
  /\ disk = DefaultOfflineState
  /\ seen = {}
  /\ offline = FALSE
  /\ started = FALSE
  /\ starting = 0
  /\ putting = FALSE
  /\ polling = FALSE
  /\ queue = {}
  /\ gets = [g \in Slots |-> NoTarget]
  /\ roundMisses = {}
  /\ roundAuth = {}
  /\ stalled = 0
  /\ pollRecent = FALSE
  /\ probeRecent = FALSE
  /\ sent = 0
  /\ held = [i \in Index |-> {}]
  /\ lost = {}
  /\ shown = [b \in Blob |-> 0]
  /\ dropped = {}
  /\ missAnswers = [i \in Index |-> 0]
  /\ restarts = 0

\* Faulty variant: the handler changes the state and does not save it.
SaveForgotten(earlier, last) == UNCHANGED disk

\* save_offline_state of last, after the saves of earlier in the same
\* handler.  A failed save is logged and the file keeps its old content.
Save(earlier, last) ==
  disk' \in {last} \cup IF DiskFaults THEN {disk} \cup earlier ELSE {}

-----------------------------------------------------------------------------
(* The environment: the peer's PUTs and the deaddrops.                     *)

\* A blob of the peer is stored (Mailbox, PeerStores): under the next index, or
\* once more under an earlier one when the peer did not learn that it was used.
PeerStores ==
  \E i \in Index, v \in Versions :
    /\ i <= sent
    /\ i \notin lost
    /\ v \notin held[i]
    /\ held' = [held EXCEPT ![i] = @ \cup {v}]
    /\ sent' = Larger(sent, i + 1)
    /\ UNCHANGED <<rx, disk, seen, modeVars, roundVars, gets, stalled,
                   pollRecent, probeRecent, lost, historyVars>>

\* The deaddrops delete the blobs under i for good.
DeaddropsLose ==
  \E i \in Index :
    /\ held[i] # {}
    /\ i \notin lost
    /\ lost' = lost \cup {i}
    /\ UNCHANGED <<rx, disk, seen, modeVars, roundVars, gets, stalled,
                   pollRecent, probeRecent, sent, held, historyVars>>

PollIntervalElapses ==
  /\ pollRecent
  /\ pollRecent' = FALSE
  /\ UNCHANGED <<rx, disk, seen, modeVars, roundVars, gets, stalled,
                 probeRecent, envVars, historyVars>>

RecoveryProbeIntervalElapses ==
  /\ probeRecent \/ rx.recently_probed # {}
  /\ probeRecent' = FALSE
  /\ rx' = [rx EXCEPT !.recently_probed = {}]
  /\ disk' = [disk EXCEPT !.recently_probed = {}]
  /\ UNCHANGED <<seen, modeVars, roundVars, gets, stalled, pollRecent,
                 envVars, historyVars>>

-----------------------------------------------------------------------------
(* Modes, runtime start, PUTs and index synchronisation.                   *)

\* Opening the tab, or choosing Offline again, launches the start task
\* unless the runtime is already started.
EnsureDeaddropRuntimeStarted ==
  /\ ~started
  /\ starting < MaxStarts
  /\ starting' = starting + 1
  /\ UNCHANGED <<rx, disk, seen, offline, started, putting, roundVars, gets,
                 stalled, pollRecent, probeRecent, envVars, historyVars>>

DeaddropStarted(ok) ==
  /\ starting > 0
  /\ starting' = starting - 1
  /\ IF ok
     THEN /\ started' = TRUE
          /\ polling' = FALSE
          /\ queue' = {}
          /\ roundMisses' = {}
          /\ roundAuth' = {}
          /\ pollRecent' = FALSE
     ELSE UNCHANGED <<started, roundVars, pollRecent>>
  /\ UNCHANGED <<rx, disk, seen, offline, putting, gets, stalled,
                 probeRecent, envVars, historyVars>>

GoOffline ==
  /\ offline' = TRUE
  /\ IF started
     THEN UNCHANGED starting
     ELSE starting < MaxStarts /\ starting' = starting + 1
  /\ UNCHANGED <<rx, disk, seen, started, putting, roundVars, gets, stalled,
                 pollRecent, probeRecent, envVars, historyVars>>

GoOnline ==
  /\ offline
  /\ offline' = FALSE
  /\ UNCHANGED <<rx, disk, seen, started, starting, putting, roundVars, gets,
                 stalled, pollRecent, probeRecent, envVars, historyVars>>

\* An authenticated I frame of the peer's live session carries the peer's
\* next send index, which is no larger than what it has stored.
ReceiveIndexSync ==
  /\ ~offline
  /\ \E remote_next_send \in 0 .. sent :
       rx' = [rx EXCEPT !.known_remote_next_send =
                           Larger(@, remote_next_send)]
  /\ Save({}, rx')
  /\ UNCHANGED <<seen, modeVars, roundVars, gets, stalled, pollRecent,
                 probeRecent, envVars, historyVars>>

BeginPut ==
  /\ offline
  /\ ~putting
  /\ putting' = TRUE
  /\ UNCHANGED <<rx, disk, seen, offline, started, starting, roundVars, gets,
                 stalled, pollRecent, probeRecent, envVars, historyVars>>

\* A stored PUT saves the whole offline state, a failed one stops the runtime.
OfflinePutFinished(ok) ==
  /\ putting
  /\ putting' = FALSE
  /\ IF ok
     THEN Save({}, rx) /\ UNCHANGED started
     ELSE started' = FALSE /\ UNCHANGED disk
  /\ UNCHANGED <<rx, seen, offline, starting, roundVars, gets, stalled,
                 pollRecent, probeRecent, envVars, historyVars>>

-----------------------------------------------------------------------------
(* Poll rounds.                                                            *)

ForwardDue == stalled >= ForwardProbeStallRounds

ForwardIndex == Larger(rx.forward_probe_index,
                       SaturatingAdd(rx.drop_recv_base, Window))

\* The first skipped entry whose probe interval has elapsed, if any.
RecoveryDue ==
  IF probeRecent THEN {}
  ELSE Smallest(rx.skipped_drop_recv \ rx.recently_probed, 1)

PollTargets ==
  RecvWindow(rx)
    \cup {[index |-> i, kind |-> "ForwardProbe"] :
            i \in {j \in Index : ForwardDue /\ j = ForwardIndex}}
    \cup {[index |-> i, kind |-> "RecoveryProbe"] : i \in RecoveryDue}

\* Message::Tick: the probes are charged before the poll interval is looked
\* at, so that a tick between two rounds charges them without polling.
Tick ==
  /\ started
  /\ offline
  /\ ~polling
  /\ ~putting
  /\ rx' = [rx EXCEPT
              !.forward_probe_index =
                 IF ForwardDue THEN SaturatingAdd(ForwardIndex, 1) ELSE @,
              !.recently_probed = @ \cup RecoveryDue]
  /\ probeRecent' = (probeRecent \/ RecoveryDue # {})
  /\ \/ /\ PollTargets = {} \/ pollRecent
        /\ UNCHANGED <<roundVars, gets>>
     \/ /\ ~pollRecent
        /\ \E g \in Slots, t \in PollTargets :
             /\ gets[g] = NoTarget
             /\ IsNext(t, PollTargets)
             /\ gets' = [gets EXCEPT ![g] = t]
             /\ queue' = PollTargets \ {t}
        /\ polling' = TRUE
        /\ roundMisses' = {}
        /\ roundAuth' = {}
  /\ UNCHANGED <<disk, seen, modeVars, stalled, pollRecent, envVars, historyVars>>

\* start_next_deaddrop_poll_key_task after the result in slot g, which left the
\* receive state r and the round's misses and authenticated indexes; saved says
\* whether the result was saved.

\* Faulty variant: the early return forgets deaddrop_poll_in_flight.
AbandonRoundFlagKept(g, r, saved) ==
  /\ ~started \/ ~offline \/ putting
  /\ rx' = r
  /\ IF saved THEN Save({}, r) ELSE UNCHANGED disk
  /\ gets' = [gets EXCEPT ![g] = NoTarget]
  /\ queue' = {}
  /\ roundMisses' = {}
  /\ roundAuth' = {}
  /\ pollRecent' = TRUE
  /\ UNCHANGED <<polling, stalled, dropped>>

AbandonRound(g, r, saved) ==
  /\ ~started \/ ~offline \/ putting
  /\ rx' = r
  /\ IF saved THEN Save({}, r) ELSE UNCHANGED disk
  /\ gets' = [gets EXCEPT ![g] = NoTarget]
  /\ polling' = FALSE
  /\ queue' = {}
  /\ roundMisses' = {}
  /\ roundAuth' = {}
  /\ pollRecent' = TRUE
  /\ UNCHANGED <<stalled, dropped>>

\* The queue is empty: the round is counted and ends.
FinishRound(g, r, misses, auth, saved) ==
  /\ started /\ offline /\ ~putting
  /\ queue = {}
  /\ \E expired \in IF RetentionPasses THEN SUBSET r.skipped_drop_recv
                                       ELSE {{}} :
       /\ rx' = FinalizeOfflinePollRound(r, misses, auth, expired)
       /\ Save(IF saved THEN {r} ELSE {}, rx')
       /\ dropped' = dropped \cup (AllSkipped(r, misses)
                                     \ KeptSkipped(r, misses, expired))
       /\ stalled' = IF Progress(r, misses, auth, expired) THEN 0
                     ELSE IF ForwardDue THEN stalled ELSE stalled + 1
  /\ gets' = [gets EXCEPT ![g] = NoTarget]
  /\ polling' = FALSE
  /\ roundMisses' = {}
  /\ roundAuth' = {}
  /\ pollRecent' = TRUE
  /\ UNCHANGED queue

PollNextKey(g, r, misses, auth, saved) ==
  /\ started /\ offline /\ ~putting
  /\ \E t \in queue :
       /\ IsNext(t, queue)
       /\ gets' = [gets EXCEPT ![g] = t]
       /\ queue' = queue \ {t}
  /\ rx' = r
  /\ IF saved THEN Save({}, r) ELSE UNCHANGED disk
  /\ roundMisses' = misses
  /\ roundAuth' = auth
  /\ UNCHANGED <<polling, stalled, dropped, pollRecent>>

StartNextPollKey(g, r, misses, auth, saved) ==
  \/ AbandonRound(g, r, saved)
  \/ FinishRound(g, r, misses, auth, saved)
  \/ PollNextKey(g, r, misses, auth, saved)

\* Faulty variant: the hashes of the blobs shown before are not looked at.
FreshUnfiltered(i, vs) == {i} \X vs

\* The blobs among the versions vs under i whose hash was not seen.
Fresh(i, vs) == ({i} \X vs) \ seen

\* Some deaddrops return blobs; those not seen before are shown.
PollHit(g) ==
  /\ gets[g] # NoTarget
  /\ LET i == gets[g].index IN
     /\ i \notin lost
     /\ \E vs \in SUBSET held[i] :
          /\ vs # {}
          /\ seen' = seen \cup Fresh(i, vs)
          /\ shown' = [b \in Blob |->
                         IF b \in Fresh(i, vs) /\ shown[b] < 2
                         THEN shown[b] + 1 ELSE shown[b]]
          /\ \/ /\ Fresh(i, vs) = {}
                /\ StartNextPollKey(g, rx, roundMisses, roundAuth, FALSE)
             \/ /\ Fresh(i, vs) # {}
                /\ StartNextPollKey(g, Authenticated(rx, i), roundMisses,
                                    roundAuth \cup {i}, TRUE)
  /\ UNCHANGED <<modeVars, probeRecent, envVars, missAnswers, restarts>>

\* No blob, and at least one deaddrop answered MISS.
PollMiss(g) ==
  /\ gets[g] # NoTarget
  /\ LET misses == IF gets[g].kind = "RecoveryProbe" THEN roundMisses
                   ELSE roundMisses \cup {gets[g].index} IN
     /\ missAnswers' = [missAnswers EXCEPT ![gets[g].index] =
                          IF misses = roundMisses \/ @ = GapMissRounds
                          THEN @ ELSE @ + 1]
     /\ StartNextPollKey(g, rx, misses, roundAuth, FALSE)
  /\ UNCHANGED <<seen, modeVars, probeRecent, envVars, shown, restarts>>

\* Every deaddrop failed, or what came back does not authenticate.
PollIndeterminate(g) ==
  /\ gets[g] # NoTarget
  /\ StartNextPollKey(g, rx, roundMisses, roundAuth, FALSE)
  /\ UNCHANGED <<seen, modeVars, probeRecent, envVars, shown, missAnswers,
                 restarts>>

\* A crash, or the tab closed and opened again: GET tasks of the old tab are
\* ignored, the offline state is read back.
Restart ==
  /\ restarts < MaxRestarts
  /\ restarts' = restarts + 1
  /\ rx' = [disk EXCEPT !.known_remote_next_send =
                           Larger(@, disk.drop_recv_base)]
  /\ seen' = {}
  /\ offline' = FALSE
  /\ started' = FALSE
  /\ starting' = 0
  /\ putting' = FALSE
  /\ polling' = FALSE
  /\ queue' = {}
  /\ gets' = [g \in Slots |-> NoTarget]
  /\ roundMisses' = {}
  /\ roundAuth' = {}
  /\ stalled' = 0
  /\ pollRecent' = FALSE
  /\ probeRecent' = FALSE
  /\ UNCHANGED <<disk, envVars, shown, dropped, missAnswers>>

-----------------------------------------------------------------------------
Environment ==
  PeerStores \/ DeaddropsLose \/ PollIntervalElapses
    \/ RecoveryProbeIntervalElapses

PollResult == \E g \in Slots : PollHit(g) \/ PollMiss(g) \/ PollIndeterminate(g)

Next ==
  \/ Environment
  \/ EnsureDeaddropRuntimeStarted
  \/ \E ok \in BOOLEAN : DeaddropStarted(ok)
  \/ GoOffline
  \/ GoOnline
  \/ ReceiveIndexSync
  \/ BeginPut
  \/ \E ok \in BOOLEAN : OfflinePutFinished(ok)
  \/ Tick
  \/ PollResult
  \/ Restart

Spec == Init /\ [][Next]_vars

\* The 150 ms tick keeps coming, time passes, and a GET or PUT ends in some way.
Fairness ==
  /\ WF_vars(Tick)
  /\ WF_vars(PollIntervalElapses)
  /\ WF_vars(RecoveryProbeIntervalElapses)
  /\ WF_vars(\E ok \in BOOLEAN : OfflinePutFinished(ok))
  /\ \A g \in Slots :
       WF_vars(PollIndeterminate(g) \/ PollMiss(g) \/ PollHit(g))

FairSpec == Spec /\ Fairness

-----------------------------------------------------------------------------
(* Properties.                                                             *)

\* Every variable stays in its range: the receive state of the session and of
\* the file are offline states, the round and the GETs name known indexes.
TypeOK ==
  /\ rx \in OfflineState
  /\ disk \in OfflineState
  /\ seen \subseteq Blob
  /\ offline \in BOOLEAN /\ started \in BOOLEAN
  /\ putting \in BOOLEAN /\ polling \in BOOLEAN
  /\ starting \in 0 .. MaxStarts
  /\ queue \subseteq Target
  /\ gets \in [Slots -> Target \cup {NoTarget}]
  /\ roundMisses \subseteq Index /\ roundAuth \subseteq Index
  /\ stalled \in 0 .. ForwardProbeStallRounds
  /\ pollRecent \in BOOLEAN /\ probeRecent \in BOOLEAN
  /\ sent \in 0 .. Top
  /\ held \in [Index -> SUBSET Versions]
  /\ lost \subseteq Index
  /\ shown \in [Blob -> 0 .. 2]
  /\ dropped \subseteq Index
  /\ missAnswers \in [Index -> 0 .. GapMissRounds]
  /\ restarts \in 0 .. MaxRestarts

\* The receive base, in memory and on disk, never passes what the peer is
\* known to have sent, and nothing is known that was not sent: whatever MISS
\* answers, probes and restarts do, a message sent later is never behind the
\* window (finalize_offline_poll_round, advance_drop_recv_base).
BaseBehindKnown ==
  \A r \in {rx, disk} :
    r.drop_recv_base <= r.known_remote_next_send
      /\ r.known_remote_next_send <= sent

Shown(i) == \E v \in Versions : shown[<<i, v>>] > 0

\* Every index behind the receive base was shown to the user, or is still in
\* the list of skipped gaps, or left that list through its limit or retention:
\* no index is passed over silently, whatever is lost in a crash or a failed
\* save (advance_drop_recv_base, finalize_offline_poll_round).
PassedIndexesAccounted ==
  \A r \in {rx, disk} : \A i \in Index :
    i < r.drop_recv_base =>
      \/ Shown(i)
      \/ i \in r.skipped_drop_recv
      \/ i \in dropped

\* An index is given up as a gap only after OFFLINE_GAP_MISS_ROUNDS rounds in
\* which a deaddrop confirmed the MISS: failed GETs, overlapping poll chains,
\* restarts and stale saves never add to the count.
GapsConfirmed ==
  \A i \in Index : i \in rx.skipped_drop_recv \cup disk.skipped_drop_recv \cup dropped
                      => missAnswers[i] >= GapMissRounds

\* While the tab is open a stored blob is shown at most once, although probes
\* and overlapping poll chains fetch a key again (seen_drop_msgs).
ShownOnceWhileOpen == restarts = 0 => \A b \in Blob : shown[b] <= 1

\* deaddrop_poll_in_flight is set only while a GET is outstanding whose result
\* will continue or end the round: polling is never blocked by a stale flag.
PollInFlightIsReal == polling => \E g \in Slots : gets[g] # NoTarget

\* With a disk that keeps what was saved, neither a step nor a crash moves the
\* receive base or the known send index of the file backwards, and a restart
\* loses none of the progress in memory (the order of updates and saves in
\* OfflinePollKeyFinished, OfflinePutFinished and the I frame handler).
ProgressIsDurable ==
  [][DiskFaults \/ /\ rx.drop_recv_base <= rx'.drop_recv_base
                   /\ rx.known_remote_next_send <= rx'.known_remote_next_send
                   /\ disk.drop_recv_base <= disk'.drop_recv_base]_vars

\* The tab can poll: offline mode, runtime started, no PUT in the way.
Listening == offline /\ started /\ ~putting

Stored(i) == held[i] # {} /\ i \notin lost

Asked(i) == \E g \in Slots : gets[g] # NoTarget /\ gets[g].index = i

\* The deaddrops that hold the blob of a key answer with it in the end, when
\* the key is asked for again and again.
DeaddropsAnswer ==
  \A i \in Index : []<>(Stored(i) /\ Asked(i)) => <>Shown(i)

\* A message under the base index that a deaddrop keeps is received, or
\* skipped as a gap, while the tab keeps listening.
NextMessageReceived ==
  <>[]Listening /\ DeaddropsAnswer =>
    \A i \in Index :
      [](rx.drop_recv_base = i => <>(~Stored(i) \/ rx.drop_recv_base > i))

=============================================================================
