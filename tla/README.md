# Verification of icedcomm-i2p

TLA+ modules for icedcomm-i2p, a one-to-one and group chat over I2P with offline
delivery through untrusted deaddrop servers. The modules are written from the
Rust sources (`src/` of the repository, `SERVER/src/main.rs`); paths and line
numbers below are those of the repository, `PROJECT.json` maps each definition
to the lines it stands for.

## 1. The system

| Part | State it keeps | Operations | Talks to |
| --- | --- | --- | --- |
| GUI state machine (`app.rs`, `update`) | `AppState`, one `OpenedTab` per chat or group; `session` is duplicated between the active tab and the window | one handler per `Message`, a tick every 150 ms | all other parts, through asynchronous tasks whose results come back as messages |
| Offline delivery, receiving (`app.rs` 6790-6887, 18636-19016) | `OfflineState` of the tab and its file; poll queue and round; seen hashes | tick, poll results, round end, restart | deaddrop client, live session (index sync) |
| Offline delivery, sending (`app.rs` 4572-4709, 8787-8868) | `drop_send_index`, `deaddrop_put_in_flight` | send, PUT result | deaddrop client, live session (index sync) |
| Deaddrop client (`deaddrop.rs`) | SAM session, list of drops | `start`, parallel `put`, parallel `get` | deaddrop servers |
| Deaddrop server (`SERVER/src/main.rs`) | one directory of files per drop, PUT times, permits | PUT, GET, hourly collection, shutdown | clients, SAM bridge |
| Live session (`app.rs` 1766-1815, 8950 ff., 13347-15320) | live and pending connection, generation of the connect, TOFU pin, end-to-end state, heartbeat | connect, accept, handshake, Accept/Decline, Lock/Unlock, Offline/Online | SAM runtime, peer |
| Offline secret sync (`app.rs` 17980-18151) | the contact's 32-byte secret | request, send, receive, reset at Unlock | live session, offline state |
| Groups (`app.rs` 11926-12260, 15321-16611) | roster with version, peers, invitations | merge roster, invite, redeem, leave | SAM runtime, storage |
| Group invitations (`group_invite.rs`) | one-time tokens | issue, verify, redeem | groups |
| Rendezvous (`rendezvous.rs`, `app.rs` 11290-11400) | one issued and one received invitation | issue, reserve, consume, release, revoke | live session |
| File and image transfer (`app.rs` 16620-17600) | outgoing and incoming transfers, offers | offer, accept, chunk, end, cancel, expire | live session |
| SAM client and runtime (`sam.rs`, `sam_runtime.rs`) | cancellation tokens, tracked tasks, streams | connect, accept, lookup, shutdown | I2P router |
| Storage, history (`storage.rs`, `history.rs`) | files of contacts and groups | load, save, rename, delete, append, compact | everyone |
| Vault, backup (`vault.rs`, `backup.rs`) | the storage directory, the vault file | encrypt at shutdown, decrypt at start, export, import | storage |
| Framing, end-to-end crypto (`protocol.rs`, `e2e.rs`) | none, and the session keys | encode, decode, encrypt, decrypt | live session |
| Interface (`view`, `app_home.rs`) | none | drawing | - |

What makes each part correct:

- receiving: no message is passed over silently; no gap is given up without
  confirmation; the window never runs ahead of the sender; polling never gets
  stuck; a restart loses no progress.
- sending: indexes are filled without a gap; two delivered messages do not share
  an index; a PUT ends.
- server: a PUT or GET takes effect at one instant; no partial blob is seen; an
  acknowledged blob stays until it expires; slow clients and crashes leave
  nothing behind for good.
- live session: at most one connection wins when both peers call; a result of an
  older connect is ignored; a session is ready only for a call that was accepted;
  an end that is given up is noticed by the other; a tab that says it listens
  does.
- rendezvous: an invitation is consumed at most once and comes back when the
  caller that reserved it is gone.
- secret sync: both peers end with the same secret; an old secret is not revived.
- groups and invitations: a version stands for one roster; nobody outside the
  roster is authorised; a token admits once; a joiner with an open token gets in.
- transfers: what is reported as received is complete and in order; every
  transfer ends; it ends with its connection.
- storage, vault, backup: wherever the program stops no contact is lost; after an
  exit that went well the plaintext is gone and the vault has all of it.

Hard behaviours: every task result may arrive after the state it was started
from has changed (closed tab, new round, new connection, encrypted storage);
several deaddrops answer differently; the client's PUT and GET have no timeout;
answers are lost after the server has acted; frames of one peer are written by
separate tasks and overtake each other; calls of two peers cross; the offline
state is saved by several handlers and a failed save is only logged; the server's
handlers and its collector share a directory without a lock; a wipe or an import
runs beside the rest of the program. `PROJECT.json` lists the hazards, each at
its line.

## 2. Modules

| Module | What it is |
| --- | --- |
| `OfflineReceiver` | the receiving half for one tab |
| `OfflineReceiverProofs` | its invariants, and seven theorems |
| `Mailbox` | what the sending half owes the receiving half |
| `OfflineSender` | the sending half for one tab, with the deaddrops it PUTs to |
| `OfflineSenderProofs` | its invariants, and that it implements `Mailbox` |
| `BlobStore` | what one drop of the server promises its clients |
| `BlobStoreProofs` | types of the store; acknowledged blobs stay |
| `DeadDropServer` | one drop of the server, await by await |
| `DeadDropServerProofs` | that it implements `BlobStore`, keeps what it acknowledged, leaves no temporary files |
| `LiveSession` | one-to-one sessions of several peers, with rendezvous invitations |
| `LiveSessionProofs` | its invariant, and eight theorems |
| `GroupRoster` | the owner and the other peers of a group |
| `GroupRosterProofs` | its invariant, and five theorems |
| `Transfers` | file and image transfers of one chat tab, both ends |
| `TransfersProofs` | its invariant: what is received is whole |
| `StorageVault` | plaintext directory, vault file, gate, and the tasks on them |
| `StorageVaultProofs` | its invariants: no contact is lost, a good exit leaves a sealed vault |
| `MC...` | one per component: its instance for TLC |

How they fit together: `DeadDropServer` implements `BlobStore`. `OfflineSender`
uses the server in the steps other PUTs can come between (look for the key, then
write) and implements `Mailbox`. The peer in `OfflineReceiver` (`PeerStores`,
`ReceiveIndexSync`) is a `Mailbox`: it fills indexes in order, may store a second
blob under an index, and announces no more than it has filled. In return the
sender takes the receive base of the peer to be at most what was ever stored
(`ReceiveIndexSync` of `OfflineSender`), which is the receiver's
`BaseBehindKnown`, proved without any assumption on what the sender does with it.

`LiveSession` is what the offline modules call going live, and what `Transfers`
takes for granted: one connection at a time, given up at both ends sooner or
later (`HalfOpenEnds`), with frames in the order they were written. `Transfers`
keeps of it the number of the connection and, per end, whether it is held and
has its keys. `GroupRoster` has streams of its own, since a group tab runs the
same tie-break over one link per member. `StorageVault` is below all of them:
what they save is a version of a contact there.

### OfflineReceiver

`rx` is the receive part of `SessionState` (`drop_recv_base`,
`consumed_drop_recv`, `known_remote_next_send`, `missing_drop_recv`,
`skipped_drop_recv`, `forward_probe_index`), `disk` the file that
`save_offline_state` writes. `queue`, `roundMisses`, `roundAuth`, `polling` are
the round; `gets` holds the GET tasks outstanding, of which there may be two
when a start task (`DeaddropStarted`) ends in the middle of a round and clears
`deaddrop_poll_in_flight`. `seen` is `seen_drop_msgs`, in memory only.

Actions: `Tick` (`Message::Tick`, with its order of forward probe, recovery
probe, interval); `PollHit`, `PollMiss`, `PollIndeterminate`
(`Message::OfflinePollKeyFinished`), each of which goes on with
`StartNextPollKey`, that abandons the round, asks for the next key, or finishes
the round with `FinalizeOfflinePollRound`; `EnsureDeaddropRuntimeStarted`,
`DeaddropStarted`, `GoOffline`, `GoOnline`, `BeginPut`, `OfflinePutFinished`,
`ReceiveIndexSync`, `Restart`. The environment: `PeerStores`, `DeaddropsLose`
and the two intervals.

Abstractions. A key is its index. The clock is two flags: less than the poll
interval since the last poll, less than the probe interval since the last
recovery probe (and per skipped entry the set `recently_probed`). Keys above
`MaxIndex` are not polled, as nothing is stored there. The counter of missed
rounds saturates at its threshold, so does `deaddrop_stalled_sweeps`; both are
only compared with it. Retention is a choice of the entries that have passed it.
A blob that does not authenticate counts as no answer.
`highest_authenticated_recv_index` is written and never read, and left out. The
preconditions that do not change within a run of the tab (persistent profile,
locked peer, configured deaddrops, a real secret) are assumed. That the mutex of
the deaddrop client serialises a PUT and a GET is not used: the model allows more.

### OfflineSender

A `Task` is a PUT task with the state of its request at each deaddrop;
`Status` is how `put_with_pow_counter_and_stats` turns the answers into one.
`SendPressed` and `SendTooLong` are the two ways through the handler of an
offline message: `deaddrop_put_in_flight` is set before the blob is built.
`OfflinePutFinished` marks the message and moves the index on only when it is
still the one of the task. After `Restart` the tasks of the closed tab go on and
their results find no tab. The deaddrop side: `DropChecks`, `DropStores` (the
answer arrives or is lost), `DropFails`, `DropLoses`. Proof of work, the start
of the client and its mutex can only delay or fail a request. A message above
256 KiB is a member of `TooLong`. An index sync is sent once per connection in
the code; here it may be sent whenever the tab is live, which includes that.

### DeadDropServer and BlobStore

`pc` says before which await the handler of a connection is. The directory
`dir` maps a path (`BlobPath`, or a temporary name with its number) to a file; a
file is its content and whether it is older than `BLOB_TTL_SECONDS`. `PutCheck`,
`CreateTemp`, `WriteTemp`, `Rename` are `atomic_write_blob` and the test before
it, which may fail; `GetStat`, `GetRemove`, `GetRead` the three steps of a GET; `GcStart`,
`GcStat`, `GcRemove` the collector, whose test and removal are apart. `HangUp`
is a timeout or a lost client. `Crash` loses the process and keeps the files;
the next process may have the same process id, and `TEMP_COUNTER` starts again,
so that names of temporary files may collide with left-over ones.

Abstractions. Write, flush and sync are one step, as nothing else reads a
temporary file. No request lasts as long as the time to live. A removal of a
file that is there works. A connection without a permit leaves no trace. A loss
of power, after which the rename may be undone (the directory is not synced), is
not modelled. The bound `MaxTemps` ends a PUT like a failed creation.

`BlobStore` has one step per effect. It is not a put-if-absent: `unsure` records
that a request may not know of the blob of its key, because another PUT stored it
while this one was running, or because it could not be looked for (`LookupFails`:
every error of the look-up, `main.rs:608`, counts as absence). Only then may a
stored blob be replaced. `aged` records that a blob of the key has ever expired:
only then may one be removed, and it may be one stored since. The sender's model
of a deaddrop takes look-ups that do not fail.

### LiveSession

`tab[p]` has the fields of peer `p`'s tab: `live_conn`, `pending_conn`,
`live_ready`, `connect_in_flight`, the call of `connect_generation`,
`accept_armed`, `stored_peer`. `call[c]` is a connect attempt, with the state of
its connect task (`out`) and of the accept task that met it (`inn`); once
connected it is also the name of the stream. `accepts[p]` counts accept tasks,
since the code may start a second one beside a first. `wire`, `closed`, `silent`
are the streams: frames not yet read, ends that were closed, streams that carry
nothing any more though neither end was told. `access` and `issued` are
`rendezvous_outgoing`/`rendezvous_request` and `rendezvous_issued` with the
pending request.

Actions: `Connect`, `ConnectFinished`, `ConnectStale` (the generation does not
fit), `ConnectFails`; `IncomingKept`, `IncomingRefused`, `IncomingTooLate`
(`Message::IncomingAccepted`, with the tie-break of `LocalPrefersOutbound`),
`AcceptFails`, `RearmAccept`; the buttons `Accept`, `Decline`, `Disconnect`,
`Lock`, `Unlock`; one action per kind of frame on the live and on the pending
stream; `HeartbeatTimeout`, `LiveEnded`, `PendingEnded`; `TabClosed`,
`SamInitialized`; `GenerateRequest`, `AnswerRequest`, `ConnectResponse`,
`ConnectResponseBusy`, `Revoke`, `Expire`. `RouterConnects` and `FallSilent` are
the router.

Abstractions. A tick reads all frames that have arrived, here one per step; the
check for the end of the stream after the loop is kept where it has an effect of
its own (`Rearms`: the second accept task). Identity and key frames of a
handshake are one frame. PING and PONG only keep the heartbeat's timer from
running out, so that `HeartbeatTimeout` may happen whenever nothing is there to
read. Left out: messages and their acknowledgements, the TOFU pin and its reset,
the lookup of a name (a peer is called by its address).

### GroupRoster

`meta[p]` is the stored group of peer `p`: version, members, who changed the
display name (one bit stands for the names) and the join token. `issued` is the
owner's record of an invitation and the roster that was put into it. `link[p][q]`
is `GroupPeerRuntime`, `stream` the streams between two ends with their unread
frames, `up` the open and published group tabs.

Actions: `GenerateInvite`, `ImportInvite` (`merge_group_invite`), `OpenGroup`,
`AddMember`, `DeleteMember`, `RevokePrivate`, `SaveDisplayName`, `TabClosed`,
`Expire`; `GroupConnect`, `GroupConnectFinished`, `GroupConnectFails`,
`GroupIncomingAccepted`; and what a tick does with a frame or without one:
`TickHello`, `TickQuit`, `TickJoin` (redemption), `TickRename`, `TickRoster`
(`merge_group_roster_sync`), `TickClosed`, `HandshakeTimeout`,
`HeartbeatTimeout`. `Updated` is `update_open_group_roster`, which every change
of the roster and every merge goes through, `Publishes` what the owner does with
a change: store, refresh the links, send the roster to who is ready and
authorised. `GenerateInvite` (both handlers, `app.rs` 3487-3588) stores, issues
and refreshes the links, and sends nothing: a caller that is connected and not in
the list is forgotten by it, while its stream stays open.

Abstractions. The stored group, the copy of the tab and the one of the sidebar
are one: saves do not fail. Frames after the handshake are sent by tasks of
their own and are an unordered box. Texts, images and acknowledgements pass the
links that are ready and authorised, and are left out. Signatures hold: a
roster frame is one the owner signed, which `RosterIsSigned` then says of what
is stored.

### Transfers

One direction of one chat tab: end `S` offers files and shows images, end `R`
accepts files and asks for originals. `out` and `iout` are the outgoing file and
preview (phase, chunks read, chunks reported as sent, a frame in flight), `inc`
and `iin` the incoming ones, `osend` and `series` the original being sent and the
tasks that send it, `shared` and `cached` the image caches, `pend` and `bubble`
what `R` asked for and what it shows. Every frame goes out through a task
(`tasks`) that writes it later and then reports a result; `wire` has what was
written and not read.

Actions: `FileChosen`, `PumpFile`, `FileSent`, `OfferExpires`,
`IncomingOfferExpires`, `AcceptIncomingFile`, `CancelIncomingFile`,
`CancelOutgoingFile`, and the `Read...` of each frame; `ImageChosen`,
`PumpImage`, `ImageSent`; `RequestOriginal`, `CancelOriginal`, `SendOriginal`,
`OriginalImageSendFinished`; `Disconnect`, `Interrupted` (QUIT, a dead stream,
the heartbeat), `Reconnect`, `KeysReady` (the end that accepts the connection has
its keys at once, the other one later); `FileEndsEarly`, `FileReadFails` and
`LeavesCache` for a file that shrinks, one that cannot be read, and an original
that later images push out.

Abstractions. A file, a preview and an original have the same number of chunks.
Digests are the comparison with the chunks that belong to the transfer, and only
originals carry one. History variables record what the code does not handle, and
the properties name them: `crossed` (the results of preview frames do not say
which image they are about), `orphaned` (files of which `R` is not told that they
are over: the cancellation was read before the offer, or the sender could not read
the file and gave it up without a frame), `forgotten` (a request for an original that is dropped, cancelled or cut
off without an answer), `hung` (the user disconnected), `strayed` (a file that
went on over another connection). Left out: a file that grows while it is sent,
disk errors of the receiver, images of groups, the byte limits of the cache.

### StorageVault

`base` is the plaintext directory, `vault` and `tmp` the vault file and the file
that becomes it; each holds a version of every contact, also under the staging
name of a rename. `app` is the process and its gate, `phrase` whether
`unlock_input` is not empty, `busy` the file operation that the update function
is in the middle of. `jobs` are the wipe and import tasks that run beside it, one
per slot; `op` is `backup_operation`, which only the presses ask, and `dialogs`
are the file dialogs that are open: one that was opened before a wipe or another
import starts a second task beside it. `saved` is what the user relies on,
`spoiled` what went wrong.

Actions: `Start`, `UnlockInputChanged`, `UnlockPressed`, `Extract`, `Unlocked`,
`UnlockFails` (`fs_decrypt`); `CloseRequested`, `ExitAfterNotify`,
`ReplaceVault`, `Remove`, `Encrypted`, `EncryptFails`, `Exit` (`fs_encrypt` and
the shutdown around it); `CreateContact`, `SaveContact`, `DeleteContact`,
`ResetContact`, `RenameContact` and their ends; `WipeConfirmed`, `WipeBase`,
`WipeVault`, `WipeAllFinished`; `ImportPressed`, and for a whole backup
`BackupImportPathChosen`, `ReplaceConfirmed`, `ClearContacts`, `ClearVault`,
`CheckTarget`, for one contact `ProfileBackupImportScanned`,
`ProfileReplaceConfirmed`, `DeleteReplaced`, `CheckContact`; `ReplaceCancelled`,
`InstallProfile`, `ImportFinished`, `ImportLoadFails`; `JobFails` (with `Refused`
where the code itself finds something in the way) and `Crash` at any step.
`ExitAfterNotify` encrypts only an open gate that has a passphrase and a
directory; otherwise the program exits and leaves what is there.

Abstractions. A contact's files are one version, and saving it is one step. A
rename of a file is atomic and no power is lost (nothing is synced). A wrong
passphrase changes nothing; one of blanks only is a failure (`EncryptFails`).
The question before a wipe and its confirmation are one step, so are the choice
of a contact's backup and what its scan finds. Presses that are refused because
tabs are open, and the cancelling of a question that a wipe has overtaken, which
only resets `op`, are left out. What `NothingLost` and `CleanExitSealed` excuse
is recorded in `spoiled`: `overlap`, a task or a late result met another storage
than the one it was started for (absent, being encrypted, laid out since), or the
exit cut a task off; `torn`, the plaintext could not be removed as a whole;
`crash` and `failed`, which only `CleanExitSealed` excuses. An import that
outlives a wipe and opens the gate again without a passphrase is an `overlap`.

## 3. Runs

| Run | Instance | What it shows |
| --- | --- | --- |
| `receiver_safety` | 2 indexes, window 1, gap after 2 rounds, 2 GETs at once, 1 restart, retention | `BaseBehindKnown`, `PassedIndexesAccounted`, `GapsConfirmed`, `ShownOnceWhileOpen`, `PollInFlightIsReal`, `ProgressIsDurable` |
| `receiver_live` | 2 indexes, 1 GET at a time | `NextMessageReceived` |
| `sender` | 2 messages and one too long, 2 deaddrops, 2 tasks, 1 restart | `SendIndexBehindFilled`, `DeliveredIndexesDistinct`, `ImplementsMailbox`, `PutEnds` |
| `sender_exists` | 2 messages, 2 deaddrops | violated: `DeliveredWasStored` |
| `server_safety` | 3 connections, 2 permits, 1 key, 2 contents, 2 temporary files, 1 crash | `TempsOwned`, `AckedBlobsStay`, `ImplementsStore` |
| `server_live` | 2 connections, 1 crash | `ConnectionsEnd`, `OldFilesRemoved` |
| `live_session` | 2 transient peers and a contact, 2 calls, 1 invitation, 1 fault | `OneConnection`, `OutboundIsLatest`, `HalfOpenIsVisible`, `ReadyIsAccepted`, `ArmedTabListens`, `ReservedIsHeld`, `InvitationUsedOnce`, `HalfOpenEnds` |
| `groups` | an owner and 2 joiners, 1 shareable and 1 private invitation, 2 streams, 1 edit or 1 fault | `AuthorizedIsMember`, `RosterIsSigned`, `TokenAdmitsOnce`, `VersionNeverDecreases`, `JoinerAdmitted` |
| `transfers` | 2 transfers out of 2 files and 2 images, 2 chunks, 2 connections, 2 requests, 2 faults | `ReceivedWhole`, `TransferEnds` |
| `transfers_disconnect` | 1 file, 2 connections, 1 fault | violated: `StaysOnConnection` |
| `storage` | 2 contacts, one also in the backup, 2 tasks at once, 2 saves, 1 fault | `NothingLost`, `CleanExitSealed` |
| `storage_plaintext` | 2 contacts, no backup, 3 saves, no fault | violated: `PlaintextRemoved` |

Every passing run but the two liveness runs also checks the `TypeOK` of its
module.

Why the bounds are enough for what the runs ask.

- Receiver: with a window of one key the forward probe reaches the second index,
  so that messages are consumed out of order, the base moves by two at once, a
  gap is skipped while a later message is known, and a skipped index is recovered
  or forgotten; two GETs give every overlap of two poll chains; one restart gives
  every point of a crash.
- Sender: a late PUT of a closed tab needs one restart and two tasks, a shared
  index two messages, a split answer two deaddrops.
- Server: a removal that hits a newer blob needs a collector, a GET and a PUT;
  two PUTs that race need two connections, the third sees what they do; a name
  collision needs one crash.
- Live session: two calls cross, follow each other, or replace one another; the
  third peer calls into a pair that is busy; one invitation is used by two calls;
  one fault is a failed accept, a silent stream or a closed tab at every point.
- Groups: two streams are a call each way between two peers, or a peer next to
  the one that a token went to before; one edit makes a deletion, a revocation or
  a rename race with a join, and it takes no second one to make two versions.
- Transfers: two transfers show results and frames of one met by the other; two
  chunks show order and a missing one; a second connection shows what outlives
  the first; the second request meets the cancellation of the one before it.
- Storage: two contacts are a rename beside a save, or one contact removed while
  the other is still there; two saves make an old and a new version; the fault may
  be a crash or a refused operation at any step. Two tasks are an import that
  outlives a wipe, two wipes, or two imports that meet in the same contact.

Four runs have a constraint, in their MC module. `InvitationsApart` explores
invitations, faults and locked contacts each on its own; `Apart` a change of the
group and a fault, and two tokens and two joiners; `FewTransfers` keeps the second
transfer, the second request and the second disturbance apart. `FewSteps` allows
one file dialog at a time, and one save and no fault beside a second task or once
a task met another storage than its own; a life of the program in which that
happened is followed to its end and not beyond. What they cut off is a combination
of such things in one behaviour. No step that fairness is asked of leads out of
them. The slots of the tasks are symmetric: nothing tells them apart.

`DiskFaults` is FALSE in the runs of the offline modules, since two properties
are about a disk that keeps what was saved. That the invariants hold when saves
fail is covered by the theorems, which leave `DiskFaults` open.

Deadlock is checked in the runs of the receiver, the sender, the server and the
storage, where something can always happen. In the runs of the live session, the
groups and the transfers it is not: when the calls, the edits or the transfers
are used up and all is read, the users have nothing left to do.

### Fairness

`receiver_live`: the 150 ms tick keeps coming, time passes, and a GET or PUT
ends in some way (the code has no timeout of its own there; the assumption is on
the SAM bridge, which closes dead streams). `NextMessageReceived` also assumes
that the tab stays in offline mode with a started runtime and no PUT, and that
deaddrops which are asked again and again for a blob they keep return it in the
end. `sender`: each request to a deaddrop ends in some way, and results are
handled. `server_live`: ready tasks run, file operations end, the read and write
timeouts fire, the collector runs; nothing is assumed of a client.

`live_session`: the tick reaches every tab, nothing else; the user need not press
a button, no call needs to come through. `groups`: the ticks of the owner's links
run, calls are answered by the router and their results handled, and none of this
needs a fault to happen (an early timer, a failed call to a published tab). The
fairness of calls is strong, since an accept task takes one call at a time.
`transfers`: tasks write and report, what was written is read, timers fire, the
handshake ends; users and faults need not act.

### What the violated runs show

- `sender_exists`. The answer to a stored PUT is lost, or the program stops
  before the new index is saved. The next message is sent under the same index,
  every deaddrop answers `EXISTS`, and `OfflinePutFinished` takes this for
  success (`app.rs:8799`): the second message gets the delivered mark
  (`README.md:42`), and nobody stores it.
- `transfers_disconnect`. Disconnect (`app.rs:4747`) drops the connection and
  does not end the outgoing file, as QUIT (`app.rs:14307`) and the replacement of
  a connection (`app.rs:14387`) do. When the tab is connected again, to whichever
  peer, the tick goes on with the file there.
- `storage_plaintext`. The storage was encrypted at the exit (`app.rs:5663`), and
  before the window closes the result of a task is handled and saves its contact
  (`app.rs:8811`): the plaintext directory is there again, against
  `README.md:506`, and the next start refuses to unlock.

### Other disagreements, without a run

Met while modelling; the models contain them.

- The in-flight flag of an offline message is set (`app.rs:4598`) before the blob
  is built; when that fails (`app.rs:4655`) the handler returns with the flag
  set. From then on every message is refused (`app.rs:4592`) and the tab does not
  poll until it is opened again.
- A tick between two polls charges the recovery probe (`app.rs:6847`) and then
  stops at the poll interval (`app.rs:6870`). When the ticks fall that way, the
  skipped index that "late recovery" (`app.rs:18968`) is about is never asked
  for. The forward probe's index moves on at such ticks too (`app.rs:6832`).
- The forward probe does not skip consumed indexes (`app.rs:6819`), as the window
  does (`app.rs:18672`), and the hashes of the messages shown are in memory only:
  after the tab is opened again a consumed message may be shown a second time,
  although `README.md:375` limits replay by both.
- `README.md:350` says that the text of an offline message is encrypted with the
  live encryption before the blob is; the code puts the plain text into the frame
  (`app.rs:4633`).
- A caller that is not in the list of the group becomes a provisional peer. When
  a roster with it arrives later, `update_open_group_roster`
  (`app.rs:17867`-`17897`) keeps the entry as it is: it stays unauthorised until
  the link is made again from a fresh entry. A provisional peer has no heartbeat
  timeout either (`app.rs:16518`).
- Importing an invitation whose roster is not newer merges it into the stored
  group: members deleted since come back there until the next roster. This is
  what `mixed` excuses in `RosterIsSigned`.
- A token that is imported while the two are connected is presented only when
  they connect again, and nothing makes them do so; `JoinerAdmitted` asks for
  joiners that are not connected.
- A member that was deleted is dropped and not told.
- The vault is replaced and the removal of the plaintext then fails half way
  (`vault.rs:71`-`75`): the gate stays open, and the next encryption archives what
  was left over the good vault. `NothingLost` excuses it (`torn`).
- An import beside a wipe: the dialog is opened before, its handlers
  (`app.rs:8369`-`8396`) do not ask `backup_operation`, the wipe shuts the gate
  and clears the passphrase (`app.rs:8656`), and the end of the import opens the
  gate again without one (`app.rs:8742`-`8745`). The exit then skips the
  encryption (`app.rs:1866`) and leaves the plaintext, against `README.md:500`
  ("When the app closes normally, storage is encrypted"). `CleanExitSealed`
  excuses it (`overlap`).
- An error when the outgoing file is read (`app.rs:15077`) ends the file at the
  sender without a frame: the receiver's accepted file stays open for as long as
  the connection lasts (`orphaned` in `TransferEnds`).
- Any error of the test whether a blob is there (`main.rs:608`) counts as
  absence: the PUT then writes over a stored blob (`unsure`).
- A new invitation (`app.rs:3505`, `app.rs:3567`) forgets a provisional caller
  that is connected, and does not close its stream: the caller is not told.
- The exit does not wait for a wipe or an import that is still writing
  (`overlap`). When the contacts cannot be loaded after a decryption, or the
  program dies, the plaintext stays and the next start refuses to open until the
  user has moved it.

## 4. Proofs

All theorems hold for every value of the constants that meets the named
assumption of the module (`ReceiverAssumption`, `SenderAssumption`,
`ServerAssumption`, `SessionAssumption`, `TransferAssumption`, `StorageAssumption`,
`GroupAssumption`;
for the abstract store `StoreAssumption`, which the server's assumption implies).
The assumptions give the constants their types and keep the values that stand for
nothing apart from the others (`NoTarget` is not a target of a poll).

`OfflineReceiverProofs`. The invariant `IInv` is `TypeOK` and `IRecv`. `IRecv`
says that both receive states, in memory and on disk, are `Good` for what was
sent, shown, forgotten and missed: base behind known behind sent; consumed and
skipped indexes below known; consumed ones shown; every index behind the base
accounted for; counters of missed rounds no larger than the confirmed misses.
It also says that counting the running round keeps that so, since the two
chains may count the same round. `Good` is needed of the file as well because a
restart continues from it, after a failed save from an old one: `GoodMonotone`
shows that an old good state stays good. From `IInv`: `TypeCorrect`,
`BaseStaysBehind`, `NothingPassedSilently`, `GapsAreConfirmed`.
Three more theorems rest on it. `BlobsShownOnce`: what was shown is among the
hashes seen (`ISeen`), so that a second GET of the same key shows nothing.
`PollFlagIsReal`: every step that sets the flag starts a GET, and every step that
takes the last answer goes on with another or clears the flag.
`ReceiverProgressDurable` is about steps: the progress in the file is that in
memory (`SavedProgress`), and what a step gains it saves; that no step takes it
back needs `Good`, since the round may only move the base on (`Ahead`).

`BlobStoreProofs`. An acknowledged blob stays (`AckedBlobStays`); the invariant
adds that an OK on its way to a client is as good as one that was read.

`DeadDropServerProofs`. The invariant `SrvInv` says what a handler knows before
each await (`Phase`), that its temporary file is its own, young and as it wrote
it (`OwnTemp`), that a blob which is there after the test was stored by a PUT
that overlapped or could not be looked for (`Unsure`), and that what the collector is about to remove was old
when it looked (`Doomed`). With it every step of the server is a step of the
store or a stutter: `ServerImplementsStore`. `ServerKeepsAcked` carries the
store's theorem over to the server. `ServerTypeCorrect` and `TempFilesOwned` need
`DropInv` beside it: the permits and the rate window are within their limits
(`Limits`, with finite sets of connections), and as long as nothing crashed every
temporary file belongs to a connection that is writing it (`NoneLeft`).

`LiveSessionProofs`. The invariant `LInv` describes one tab, one call and one
direction of a stream at a time, so that a step is about the few it touches.
`TabOK`: a connect in flight is the tab's latest call and the tab's only one; a
pending call has arrived and is unarmed; a live stream is the tab's latest attempt
or a call it accepted. `FramesOK`: QUIT is on its way only if an end is closed, to
the caller nothing else before the call was accepted, and AUTH only in front.
`BothOrShut`: both ends hold a stream or neither, or one can see that the other
gave it up. `Listens`: an armed tab has an accept task or a call about to arrive.
`IssueOK` and `Reserves`: an invitation that may still be used made no session,
and a reserved one is that of the pending caller, whose proof has been read; that
no second proof can come needs `FramesOK`. A call that goes on (`Advances`)
and streams that only lose frames keep what the rest of the invariant says of
them (`FramesKept`, `WiresKept`). From `LInv`: `SessionTypeCorrect`,
`OneConnectionPerTab`, `OutboundStreamIsLatest`, `NoHiddenHalfOpen`,
`ReadyOnlyWhenAccepted`, `ArmedTabsListen`, `ReservedForPending` and
`InvitationMakesOneSession`.

`OfflineSenderProofs`. `IFilled`: all indexes below `sent` are filled, all
counters and tasks are at most there, and an answer `OK` or `EXISTS` says that
the task's index is filled. From it `SenderTypeCorrect`, `SenderLeavesNoGap`
and the refinement `SenderIsMailbox`. `SenderIndexesDistinct` adds `IDelivered`:
what is delivered is behind the send index, which is that of the file; the tab
has at most one PUT of its own out, of an index that no delivered message has.
A task of a closed tab sets no mark, which is why two tasks may share an index.

`StorageVaultProofs`. `NoContactLost` needs to know at every moment which of the
two places is complete: `Holder` says that it is the vault while plaintext is
written at the start or removed at the end, the plaintext while the gate is open
otherwise, and one of them while the program is off or locked. `Settled` is what
the steps that change the holder rest on: the archive is of the plaintext as it
is, an open gate has a passphrase, and while a wipe that is done waits for its
result there is no vault until the next shutdown. Tasks, questions and dialogs
that outlive a wipe behind the shut gate find no storage at all (`NoTasks`), so
that whatever they do there spoils the history: an unspoiled task works behind an
open gate on a storage that is there (`TaskMeetsOpen`). `BusyOK`
says which file operation runs under which gate, and that an extraction has a
passphrase. Types and `BusyOK` are
preserved by every step (`TypeStep`), the other two by every step that is not
excused (`HolderStep`); a change of a directory that the history follows keeps
what is covered (`CoversPut`, `CoversMove`). `ExitLeavesSealed` adds what an
undisturbed life holds (`Sealed`), now exactly and not only covered: the vault is
what the user relies on while the gate is shut (`Shut`), the plaintext while it is
open (`Open`), and the vault again once it is replaced (`Sealing`). An open gate
without plaintext is the work of a wipe that has not ended (`Wiping`,
`WipingStays`), and an open gate with plaintext is encrypted at the exit because
`Settled` gives it its passphrase. Every step that does not spoil the history
keeps all that (`SealedStep`).

`GroupRosterProofs`. The invariant `GInv` has three parts. `Rosters`: the owner's
stored group is the newest roster it signed (`Signs`), no version was signed
twice, invitations that were issued are of signed rosters, and so is what a
member stores, unless it merged an invitation that was not newer. `LinksOK`: no
peer has a link to itself and only members are authorised. `StreamsOK`: every
roster on its way is a signed one, and a stream that somebody holds has two ends.
The first part needs the third, for what a peer takes over comes from a stream,
and the third the first, for what the owner sends is its own group. That no
version is signed twice rests on two facts: every change of the group counts the
version up (`SigningOK`), and a roster that comes back to the owner is never newer
than its own (`TickRosterStep`). From `GInv`: `GroupTypeCorrect`,
`AuthorizedMembers`, `OneRosterPerVersion`, and with every step `VersionsGrow`.
`TokensAdmitOnce` adds `TokenInv`: a token that is still open brought nobody in,
and the peer that a redeemed token stands for is a member, since a deletion gives
up the member's token.

`TransfersProofs`. The receiver of a file or a preview checks only how many chunks
it has, so `ReceivedIsWhole` rests on the way there. `TInv` follows the chunks of a
transfer x through the receiver, the wire and the sender's tasks (`Flow`): in this
order their numbers increase, at most one task carries a frame of x (`Single`),
and what was received is numbered from 1 without a gap or its last number is
beyond the count (`InOrder`). A number never exceeds that of the chunks, so that as
many as there are chunks are all of them (`WholeWhenFull`). For the next chunk to
continue the order the sender must know where it is: no chunk is beyond `Top`
(`Behind`), and while nothing is in flight there is no task of the transfer
(`InFlight`). That is where the result of another transfer would break it: for
files it is ignored, for previews it is taken, so that the invariant, like the
property, leaves out the previews in `crossed`. Originals need none of this: their
chunks are checked (`Whole`), and their ids are not those of previews.

Only model-checked: liveness (`NextMessageReceived`, `PutEnds`,
`ConnectionsEnd`, `OldFilesRemoved`, `HalfOpenEnds`, `JoinerAdmitted`,
`TransferEnds`), which is out of the prover's reach. Every safety invariant and
every property of steps that a passing run checks is also a theorem.

## 5. Plan

Done, in this order: `OfflineReceiver`, `BlobStore` and `DeadDropServer`,
`Mailbox` and `OfflineSender` with their proofs; `LiveSession`, `GroupRoster`,
`Transfers`, `StorageVault`; `StorageVaultProofs`, `GroupRosterProofs`,
`LiveSessionProofs`, `TransfersProofs`.

What would come next:

1. `SecretSync`: who sends the 32-byte secret, loss of a frame, Lock and Unlock.
2. Start and shutdown of the server, history and its compaction.

### Not modelled

- The exchange of the offline secret and its reset at Unlock; the TOFU pin and
  its reset: the offline and live modules begin when they are settled.
- Messages of a live chat and their acknowledgements, images of groups, the
  deletion of a whole group: they pass the connections that `LiveSession` and
  `GroupRoster` are about and change none of their state.
- A file that grows while it is sent, a receiver that cannot write, the byte
  limits of the image cache and of pending requests.
- History: a sequential file with unit tests of its own. Deaddrop statistics and
  ranking: counters that no modelled decision depends on.
- SAM monitor, SAM text protocol, name lookup, abort of tasks after the grace
  period: input and output; what they do to a tab is `TabClosed`, a failed call or
  a failed accept.
- Start and shutdown of the server, its key file.
- Loss of power (nothing is synced except blobs before their rename), a wrong
  passphrase.
- The widgets, the cryptographic primitives, proof of work, packaging and build
  scripts.
