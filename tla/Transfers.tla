----------------------------- MODULE Transfers -----------------------------
(***************************************************************************)
(* File and image transfers in a one-to-one chat, from the end "S" that    *)
(* offers files and shows images to the end "R" that accepts files and     *)
(* asks for original images.  Both ends run the same code; the transfers   *)
(* of the two directions keep their state apart.                           *)
(*                                                                         *)
(* Every frame is sent by a task of its own, which writes it to the stream *)
(* some time later and then reports the result.  A tick reads the frames   *)
(* that have arrived, lets offers expire and moves the outgoing transfers  *)
(* on; its parts are steps of their own here.  Files and images are a      *)
(* number of chunks.  The signal QUIT and the end of a stream are one      *)
(* thing, Interrupted: QUIT may overtake the frames of other tasks.        *)
(***************************************************************************)
EXTENDS Integers, Sequences, FiniteSets

CONSTANTS
  Files, Images,   \* ids of offers and of images
  Chunks,          \* chunks of a file, of a preview and of an original
  MaxConns,        \* bound: connections, one after the other
  MaxRequests,     \* bound: presses that ask for an original
  MaxFaults        \* bound: cancellations, disconnections, timeouts of the
                   \* heartbeat, shrinking or unreadable files, images that leave the cache

ASSUME TransferAssumption ==
  /\ Files \cap Images = {}
  /\ {Chunks, MaxConns} \subseteq Nat \ {0}
  /\ {MaxRequests, MaxFaults} \subseteq Nat

Ends == {"S", "R"}
Peer(e) == IF e = "S" THEN "R" ELSE "S"
None == <<>>

\* A transfer is a file, the preview <<m, 0>> or the k-th original <<m, k>>.
FileId == Files \X {0}
ImageId == Images \X Nat
Frame ==
  [type : {"Offer", "Accept", "Decline", "Cancel", "Chunk", "End", "Request",
           "Unavailable", "CancelImage", "Header", "ImageChunk", "ImageEnd"},
   id : FileId \cup ImageId \cup {None}, n : 0 .. Chunks]
F(type, id) == [type |-> type, id |-> id, n |-> 0]

VARIABLES
  conn,      \* number of the latest connection
  live,      \* per end: whether it holds that connection, with or without keys
  wire,      \* per end: frames that have not been read
  tasks,     \* frames that are to be sent, and results to be handled
  out, iout, \* S: the outgoing file and the outgoing preview
  inc, iin,  \* R: the incoming file and the incoming image
  osend,     \* S: the original that is being sent
  series,    \* S: the tasks that send originals
  shared,    \* S: originals in the cache
  pend,      \* R: pending_original_image_requests
  bubble,    \* R: per image, the state of the original
  dropped,   \* R: cancelled_incoming_image_transfers
  cached,    \* R: originals in the cache
  used,      \* transfers begun so far
  requests, faults,
  kept,      \* history: what R has received
  crossed,   \* history: images that met the result of another's frame
  orphaned,  \* history: files of which R is not told that they are over, see
             \* TransferEnds
  forgotten, \* history: originals asked for in vain, see TransferEnds
  hung,      \* history: ends whose user has disconnected
  begun,     \* history: per file, the connection it was begun on
  strayed    \* history: files that went on on another connection

fileVars == <<out, inc, orphaned, begun, strayed>>
previewVars == <<iout, crossed>>
originalVars == <<osend, series, pend, bubble, dropped, cached, requests, forgotten>>
imageVars == <<previewVars, originalVars, iin, shared>>
linkVars == <<conn, live, hung>>
vars == <<linkVars, wire, tasks, fileVars, imageVars, used, faults, kept>>

Task == [end : Ends, conn : 1 .. MaxConns, frame : Frame,
         st : {"new", "ok", "err"}, again : BOOLEAN]

\* next: chunks read from the file; sent: chunks whose write was reported.
NoOut == [id |-> None, phase |-> "Idle", next |-> 0, sent |-> 0, flight |-> FALSE]
NoInc == [id |-> None, open |-> FALSE, got |-> <<>>]
NoImage == [id |-> None, got |-> <<>>]
Series == [id : ImageId, conn : 1 .. MaxConns, next : 0 .. Chunks + 2,
           cancelled : BOOLEAN, st : {"run", "done"}]
Waiting == {"Requesting", "Receiving"}

Init ==
  /\ conn = 1
  /\ live = [e \in Ends |-> "ready"]
  /\ wire = [e \in Ends |-> <<>>]
  /\ tasks = {}
  /\ out = NoOut
  /\ iout = NoOut
  /\ inc = NoInc
  /\ iin = NoImage
  /\ osend = None
  /\ series = {}
  /\ shared = {}
  /\ pend = {}
  /\ bubble = [m \in Images |-> "None"]
  /\ dropped = {}
  /\ cached = {}
  /\ used = {}
  /\ requests = 0
  /\ faults = 0
  /\ kept = {}
  /\ crossed = {}
  /\ orphaned = {}
  /\ forgotten = {}
  /\ hung = {}
  /\ begun = [f \in Files |-> 0]
  /\ strayed = {}

-----------------------------------------------------------------------------
(* Operators.                                                              *)

Fault == faults < MaxFaults /\ faults' = faults + 1

NewTask(e, f) ==
  LET t == [end |-> e, conn |-> conn, frame |-> f, st |-> "new", again |-> FALSE] IN
  IF t \in tasks THEN [t EXCEPT !.again = TRUE] ELSE t

\* Frames are encrypted under the keys of the connection.
Spawn(ts, e, f) == IF live[e] = "ready" THEN ts \cup {NewTask(e, f)} ELSE ts

Chunk(type, id, n) == [type |-> type, id |-> id, n |-> n]
Whole(id, got) ==
  /\ Len(got) = Chunks
  /\ \A i \in 1 .. Chunks : got[i].id = id /\ got[i].n = i
Lost == {m \in Images : bubble[m] \in Waiting}

-----------------------------------------------------------------------------
(* The connection.                                                         *)

\* The user disconnects: transfers keep their state.
Disconnect(e) ==
  /\ Fault
  /\ live[e] # "off"
  /\ live' = [live EXCEPT ![e] = "off"]
  /\ hung' = hung \cup {e}
  /\ forgotten' = IF e = "R" THEN forgotten \cup Lost ELSE forgotten
  /\ UNCHANGED <<conn, wire, tasks, fileVars, previewVars, osend, series, pend,
                 bubble, dropped, cached, requests, iin, shared, used, kept>>

\* The other end has quit or closed the stream, or has been silent too long:
\* interrupt_file_transfers, clear_outgoing_image_state and
\* clear_incoming_image_state.
Interrupted(e, silent) ==
  /\ live[e] # "off"
  /\ IF silent THEN Fault ELSE live[Peer(e)] = "off" /\ UNCHANGED faults
  /\ live' = [live EXCEPT ![e] = "off"]
  /\ IF e = "S"
     THEN /\ out' = NoOut
          /\ iout' = NoOut
          /\ UNCHANGED <<inc, iin, forgotten>>
     ELSE /\ inc' = NoInc
          /\ iin' = NoImage
          /\ forgotten' = forgotten \cup Lost
          /\ UNCHANGED <<out, iout>>
  /\ UNCHANGED <<conn, hung, wire, tasks, orphaned, begun, strayed, crossed, osend,
                 series, pend, bubble, dropped, cached, requests, shared, used, kept>>

Reconnect ==
  /\ conn < MaxConns
  /\ \A e \in Ends : live[e] = "off"
  /\ conn' = conn + 1
  /\ live' = [e \in Ends |-> "shaking"]
  /\ wire' = [e \in Ends |-> <<>>]
  /\ UNCHANGED <<hung, tasks, fileVars, imageVars, used, faults, kept>>

\* The end that accepted the connection has its keys at once; during the
\* handshake of the other one ticks go by, in which a transfer that went on
\* would fail for want of keys (PumpFile).
KeysReady(e) ==
  /\ live[e] = "shaking"
  /\ live' = [live EXCEPT ![e] = "ready"]
  /\ UNCHANGED <<conn, hung, wire, tasks, fileVars, imageVars, used, faults, kept>>

\* send_frame: the frame reaches the other end as long as it reads the stream;
\* a write to a stream that was given up may fail or seem to succeed.
Write(t, st) ==
  LET heard == t.conn = conn /\ live[Peer(t.end)] # "off" IN
  /\ t.st = "new"
  /\ heard /\ live[t.end] # "off" => st = "ok"
  /\ wire' = IF heard /\ st = "ok"
             THEN [wire EXCEPT ![Peer(t.end)] = Append(@, t.frame)] ELSE wire
  /\ tasks' = (tasks \ {t}) \cup
       (IF t.frame.type \in {"Decline", "Cancel", "Unavailable", "CancelImage"}
        THEN {} ELSE {[t EXCEPT !.st = st]})
  /\ UNCHANGED <<linkVars, fileVars, imageVars, used, faults, kept>>

-----------------------------------------------------------------------------
(* Files.                                                                  *)

FileChosen(f) ==
  /\ <<f, 0>> \notin used
  /\ out.phase = "Idle"
  /\ iout.phase = "Idle"
  /\ live["S"] = "ready"
  /\ out' = [NoOut EXCEPT !.id = <<f, 0>>, !.phase = "Offer"]
  /\ begun' = [begun EXCEPT ![f] = conn]
  /\ used' = used \cup {<<f, 0>>}
  /\ UNCHANGED <<linkVars, wire, tasks, inc, orphaned, strayed, imageVars, faults, kept>>

\* The next frame of the outgoing file; without the keys it fails.
PumpFile ==
  LET f == CASE out.phase = "Offer" -> F("Offer", out.id)
             [] out.phase = "Chunks" -> Chunk("Chunk", out.id, out.next + 1)
             [] OTHER -> F("End", out.id)
  IN
  /\ live["S"] # "off"
  /\ out.phase \in {"Offer", "Chunks", "End"}
  /\ ~out.flight
  /\ IF live["S"] = "ready" \/ out.phase = "End"
     THEN /\ tasks' = tasks \cup {NewTask("S", f)}
          /\ out' = [out EXCEPT !.flight = TRUE,
                                !.next = IF out.phase = "Chunks" THEN @ + 1 ELSE @]
          /\ strayed' = IF begun[out.id[1]] # conn THEN strayed \cup {out.id} ELSE strayed
     ELSE out' = NoOut /\ UNCHANGED <<tasks, strayed>>
  /\ UNCHANGED <<linkVars, wire, inc, orphaned, begun, imageVars, used, faults, kept>>

\* The file has become shorter: nothing more can be read.
FileEndsEarly ==
  /\ Fault
  /\ live["S"] # "off"
  /\ out.phase = "Chunks"
  /\ ~out.flight
  /\ out' = [out EXCEPT !.phase = "End"]
  /\ UNCHANGED <<linkVars, wire, tasks, inc, orphaned, begun, strayed, imageVars, used,
                 kept>>

\* The file cannot be read any more: S gives it up, and R is not told.
FileReadFails ==
  /\ Fault
  /\ live["S"] # "off"
  /\ out.phase = "Chunks"
  /\ ~out.flight
  /\ out' = NoOut
  /\ orphaned' = orphaned \cup {out.id}
  /\ UNCHANGED <<linkVars, wire, tasks, inc, begun, strayed, imageVars, used, kept>>

\* Faulty variant: the result of another transfer is taken too.
FileSentAny(t) ==
  /\ t.st # "new"
  /\ t.frame.type \in {"Offer", "Chunk", "End"}
  /\ tasks' = tasks \ {t}
  /\ out' = IF t.st = "err" \/ t.frame.type = "End" THEN NoOut
            ELSE IF t.frame.type = "Offer"
                 THEN [out EXCEPT !.flight = FALSE, !.phase = "Await"]
                 ELSE [out EXCEPT !.flight = FALSE, !.sent = @ + 1,
                         !.phase = IF out.sent + 1 >= Chunks THEN "End" ELSE "Chunks"]
  /\ UNCHANGED <<linkVars, wire, inc, orphaned, begun, strayed, imageVars, used, faults,
                 kept>>

\* OutgoingFileOfferSent, OutgoingFileChunkSent, OutgoingFileEndSent: results of
\* another transfer are ignored.
FileSent(t) ==
  /\ t.st # "new"
  /\ t.frame.type \in {"Offer", "Chunk", "End"}
  /\ tasks' = tasks \ {t}
  /\ out' = IF t.frame.id # out.id THEN out
            ELSE IF t.st = "err" \/ t.frame.type = "End" THEN NoOut
            ELSE IF t.frame.type = "Offer"
                 THEN [out EXCEPT !.flight = FALSE, !.phase = "Await"]
                 ELSE [out EXCEPT !.flight = FALSE, !.sent = @ + 1,
                         !.phase = IF out.sent + 1 >= Chunks THEN "End" ELSE "Chunks"]
  /\ UNCHANGED <<linkVars, wire, inc, orphaned, begun, strayed, imageVars, used, faults,
                 kept>>

\* Faulty variant: the peer is not told.
OfferExpiresSilently ==
  /\ out.phase = "Await"
  /\ out' = NoOut
  /\ UNCHANGED <<linkVars, wire, tasks, inc, orphaned, begun, strayed, imageVars, used,
                 faults, kept>>

\* A minute without an answer.
OfferExpires ==
  /\ out.phase = "Await"
  /\ out' = NoOut
  /\ tasks' = Spawn(tasks, "S", F("Cancel", out.id))
  /\ UNCHANGED <<linkVars, wire, inc, orphaned, begun, strayed, imageVars, used, faults,
                 kept>>

IncomingOfferExpires ==
  /\ inc.id # None
  /\ ~inc.open
  /\ inc' = NoInc
  /\ tasks' = Spawn(tasks, "R", F("Decline", inc.id))
  /\ UNCHANGED <<linkVars, wire, out, orphaned, begun, strayed, imageVars, used, faults,
                 kept>>

AcceptIncomingFile ==
  /\ inc.id # None
  /\ ~inc.open
  /\ inc' = IF live["R"] = "ready" THEN [inc EXCEPT !.open = TRUE] ELSE NoInc
  /\ tasks' = Spawn(tasks, "R", F("Accept", inc.id))
  /\ UNCHANGED <<linkVars, wire, out, orphaned, begun, strayed, imageVars, used, faults,
                 kept>>

IncomingFileAcceptSent(t) ==
  /\ t.st # "new"
  /\ t.frame.type = "Accept"
  /\ tasks' = tasks \ {t}
  /\ inc' = IF t.st = "err" /\ t.frame.id = inc.id THEN NoInc ELSE inc
  /\ UNCHANGED <<linkVars, wire, out, orphaned, begun, strayed, imageVars, used, faults,
                 kept>>

\* An offer that is declined, or a transfer that is cancelled at R.
CancelIncomingFile ==
  /\ Fault
  /\ inc.id # None
  /\ \E type \in IF inc.open THEN {"Cancel"} ELSE {"Decline", "Cancel"} :
       tasks' = Spawn(tasks, "R", F(type, inc.id))
  /\ inc' = NoInc
  /\ UNCHANGED <<linkVars, wire, out, orphaned, begun, strayed, imageVars, used, kept>>

CancelOutgoingFile ==
  /\ Fault
  /\ out.phase # "Idle"
  /\ tasks' = Spawn(tasks, "S", F("Cancel", out.id))
  /\ out' = NoOut
  /\ UNCHANGED <<linkVars, wire, inc, orphaned, begun, strayed, imageVars, used, kept>>

Pops(e, f) ==
  /\ live[e] = "ready"
  /\ wire[e] # <<>>
  /\ f = Head(wire[e])
  /\ wire' = [wire EXCEPT ![e] = Tail(@)]

\* One incoming file at a time: another offer is declined.
ReadOffer(f) ==
  /\ Pops("R", f)
  /\ f.type = "Offer"
  /\ IF inc.id # None
     THEN /\ tasks' = Spawn(tasks, "R", F("Decline", f.id))
          /\ UNCHANGED inc
     ELSE /\ inc' = [NoInc EXCEPT !.id = f.id]
          /\ UNCHANGED tasks
  /\ UNCHANGED <<linkVars, out, orphaned, begun, strayed, imageVars, used, faults, kept>>

\* An acceptance counts only once the offer was reported as sent.
ReadFileAnswer(f) ==
  /\ Pops("S", f)
  /\ f.type \in {"Accept", "Decline", "Cancel"}
  /\ out' = IF f.id # out.id THEN out
            ELSE IF f.type # "Accept" THEN NoOut
            ELSE IF out.phase = "Await" THEN [out EXCEPT !.phase = "Chunks"] ELSE out
  /\ UNCHANGED <<linkVars, tasks, inc, orphaned, begun, strayed, imageVars, used, faults,
                 kept>>

ReadFileCancel(f) ==
  /\ Pops("R", f)
  /\ f.type = "Cancel"
  /\ inc' = IF f.id = inc.id THEN NoInc ELSE inc
  /\ orphaned' = IF f.id = inc.id THEN orphaned ELSE orphaned \cup {f.id}
  /\ UNCHANGED <<linkVars, tasks, out, begun, strayed, imageVars, used, faults, kept>>

ReadChunk(f) ==
  /\ Pops("R", f)
  /\ f.type = "Chunk"
  /\ inc' = IF f.id # inc.id \/ ~inc.open THEN inc
            ELSE IF Len(inc.got) = Chunks THEN NoInc
            ELSE [inc EXCEPT !.got = Append(@, f)]
  /\ UNCHANGED <<linkVars, tasks, out, orphaned, begun, strayed, imageVars, used, faults,
                 kept>>

\* Faulty variant: an incomplete file is kept.
ReadEndShort(f) ==
  /\ Pops("R", f)
  /\ f.type = "End"
  /\ IF f.id = inc.id /\ inc.open
     THEN /\ inc' = NoInc
          /\ kept' = kept \cup {[id |-> inc.id, got |-> inc.got]}
     ELSE UNCHANGED <<inc, kept>>
  /\ UNCHANGED <<linkVars, tasks, out, orphaned, begun, strayed, imageVars, used, faults>>

\* An incomplete file is rejected.
ReadEnd(f) ==
  /\ Pops("R", f)
  /\ f.type = "End"
  /\ IF f.id = inc.id /\ inc.open
     THEN /\ inc' = NoInc
          /\ kept' = IF Len(inc.got) = Chunks
                     THEN kept \cup {[id |-> inc.id, got |-> inc.got]} ELSE kept
     ELSE UNCHANGED <<inc, kept>>
  /\ UNCHANGED <<linkVars, tasks, out, orphaned, begun, strayed, imageVars, used, faults>>

-----------------------------------------------------------------------------
(* Previews.                                                               *)

\* send_prepared_image: the original goes to the cache.
ImageChosen(m) ==
  /\ <<m, 0>> \notin used
  /\ out.phase = "Idle"
  /\ iout.phase = "Idle"
  /\ osend = None
  /\ live["S"] # "off"
  /\ iout' = [NoOut EXCEPT !.id = <<m, 0>>, !.phase = "Header"]
  /\ shared' = shared \cup {m}
  /\ used' = used \cup {<<m, 0>>}
  /\ UNCHANGED <<linkVars, wire, tasks, fileVars, crossed, originalVars, iin, faults, kept>>

PumpImage ==
  LET total == IF iout.id = None THEN 0 ELSE Chunks
      f == CASE iout.phase = "Header" -> F("Header", iout.id)
             [] iout.phase = "Chunks" -> Chunk("ImageChunk", iout.id, iout.sent + 1)
             [] OTHER -> F("ImageEnd", iout.id)
  IN
  /\ live["S"] # "off"
  /\ iout.phase # "Idle"
  /\ ~iout.flight
  /\ IF iout.phase = "Chunks" /\ iout.sent >= total
     THEN iout' = [iout EXCEPT !.phase = "End"] /\ UNCHANGED tasks
     ELSE IF live["S"] = "ready" \/ iout.phase = "End"
     THEN iout' = [iout EXCEPT !.flight = TRUE] /\ tasks' = tasks \cup {NewTask("S", f)}
     ELSE iout' = NoOut /\ UNCHANGED tasks
  /\ UNCHANGED <<linkVars, wire, fileVars, crossed, originalVars, iin, shared, used,
                 faults, kept>>

\* OutgoingImageHeaderSent, OutgoingImageChunkSent, OutgoingImageEndSent: they do
\* not say which image they are about, and change the current one.
ImageSent(t) ==
  /\ t.st # "new"
  /\ t.frame.type \in {"Header", "ImageChunk", "ImageEnd"}
  /\ tasks' = tasks \ {t}
  /\ iout' = IF t.st = "err" \/ t.frame.type = "ImageEnd" THEN NoOut
             ELSE IF t.frame.type = "Header"
                  THEN [iout EXCEPT !.flight = FALSE, !.phase = "Chunks"]
                  ELSE [iout EXCEPT !.flight = FALSE, !.sent = @ + 1,
                          !.phase = IF iout.id = None \/ iout.sent + 1 >= Chunks
                                    THEN "End" ELSE "Chunks"]
  /\ crossed' = IF t.frame.id # iout.id \/ t.conn # conn
                THEN crossed \cup {iout.id} ELSE crossed
  /\ UNCHANGED <<linkVars, wire, fileVars, originalVars, iin, shared, used, faults, kept>>

IsOriginal(id) == id # None /\ id[2] > 0

\* The header of a preview, or of an original that was asked for, takes the
\* place of an image that is not complete.
ReadHeader(f) ==
  /\ Pops("R", f)
  /\ f.type = "Header"
  /\ IF IsOriginal(f.id) /\ f.id[1] \notin pend
     THEN UNCHANGED <<iin, bubble>>
     ELSE /\ iin' = [id |-> f.id, got |-> <<>>]
          /\ bubble' = IF IsOriginal(f.id)
                       THEN [bubble EXCEPT ![f.id[1]] = "Receiving"] ELSE bubble
  /\ UNCHANGED <<linkVars, tasks, fileVars, previewVars, osend, series, pend, dropped,
                 cached, requests, forgotten, shared, used, faults, kept>>

\* fail_incoming_original_image
Failed(b) == IF IsOriginal(iin.id) THEN [b EXCEPT ![iin.id[1]] = "Failed"] ELSE b

ReadImageChunk(f) ==
  /\ Pops("R", f)
  /\ f.type = "ImageChunk"
  /\ IF f.id \in dropped \/ iin.id = None \/ f.id # iin.id
     THEN UNCHANGED <<iin, bubble>>
     ELSE IF Len(iin.got) = Chunks
     THEN iin' = NoImage /\ bubble' = Failed(bubble)
     ELSE iin' = [iin EXCEPT !.got = Append(@, f)] /\ UNCHANGED bubble
  /\ UNCHANGED <<linkVars, tasks, fileVars, previewVars, osend, series, pend, dropped,
                 cached, requests, forgotten, shared, used, faults, kept>>

\* Only originals carry a digest; a preview is shown with the button that asks
\* for its original.
ReadImageEnd(f) ==
  LET whole == Len(iin.got) = Chunks
      m == iin.id[1]
  IN
  /\ Pops("R", f)
  /\ f.type = "ImageEnd"
  /\ dropped' = dropped \ {f.id}
  /\ IF f.id \in dropped \/ iin.id = None \/ f.id # iin.id
     THEN UNCHANGED <<iin, bubble, pend, cached, kept>>
     ELSE /\ iin' = NoImage
          /\ IF ~whole \/ (IsOriginal(iin.id) /\ ~Whole(iin.id, iin.got))
             THEN bubble' = Failed(bubble) /\ UNCHANGED <<pend, cached, kept>>
             ELSE /\ kept' = kept \cup {[id |-> iin.id, got |-> iin.got]}
                  /\ bubble' = [bubble EXCEPT ![m] = "Idle"]
                  /\ IF IsOriginal(iin.id)
                     THEN pend' = pend \ {m} /\ cached' = cached \cup {m}
                     ELSE UNCHANGED <<pend, cached>>
  /\ UNCHANGED <<linkVars, tasks, fileVars, previewVars, osend, series, requests,
                 forgotten, shared, used, faults>>

-----------------------------------------------------------------------------
(* Originals.                                                              *)

\* The view offers it for an image that is shown and not being fetched.
RequestOriginal(m) ==
  /\ bubble[m] \notin Waiting \cup {"None"}
  /\ m \notin cached
  /\ live["R"] = "ready"
  /\ requests < MaxRequests
  /\ requests' = requests + 1
  /\ pend' = pend \cup {m}
  /\ bubble' = [bubble EXCEPT ![m] = "Requesting"]
  /\ forgotten' = forgotten \ {m}
  /\ tasks' = tasks \cup {NewTask("R", F("Request", <<m, 0>>))}
  /\ UNCHANGED <<linkVars, wire, fileVars, previewVars, osend, series, dropped, cached,
                 iin, shared, used, faults, kept>>

\* OriginalImageRequestSent
RequestSent(t) ==
  LET m == t.frame.id[1] IN
  /\ t.st # "new"
  /\ t.frame.type = "Request"
  /\ tasks' = tasks \ {t}
  /\ IF t.st = "err"
     THEN pend' = pend \ {m} /\ bubble' = [bubble EXCEPT ![m] = "Failed"]
     ELSE UNCHANGED <<pend, bubble>>
  /\ UNCHANGED <<linkVars, wire, fileVars, previewVars, osend, series, dropped, cached,
                 requests, forgotten, iin, shared, used, faults, kept>>

CancelOriginal(m) ==
  LET current == IsOriginal(iin.id) /\ iin.id[1] = m IN
  /\ Fault
  /\ bubble[m] \in Waiting
  /\ pend' = pend \ {m}
  /\ bubble' = [bubble EXCEPT ![m] = "Cancelled"]
  /\ dropped' = IF current THEN dropped \cup {iin.id} ELSE dropped
  /\ iin' = IF current THEN NoImage ELSE iin
  /\ tasks' = Spawn(tasks, "R", F("CancelImage", <<m, 0>>))
  /\ UNCHANGED <<linkVars, wire, fileVars, previewVars, osend, series, cached, requests,
                 forgotten, shared, used, kept>>

\* An original that has left the cache is unavailable; while another image is
\* being sent the request is dropped.
ReadRequest(f) ==
  LET m == f.id[1]
      id == <<m, 1 + Cardinality({u \in used : u[1] = m /\ u[2] > 0})>>
  IN
  /\ Pops("S", f)
  /\ f.type = "Request"
  /\ IF m \notin shared
     THEN /\ tasks' = Spawn(tasks, "S", F("Unavailable", f.id))
          /\ UNCHANGED <<osend, series, used, forgotten>>
     ELSE IF iout.phase # "Idle" \/ osend # None
     THEN forgotten' = forgotten \cup {m} /\ UNCHANGED <<tasks, osend, series, used>>
     ELSE /\ osend' = id
          /\ series' = series \cup {[id |-> id, conn |-> conn, next |-> 0,
                                     cancelled |-> FALSE, st |-> "run"]}
          /\ used' = used \cup {id}
          /\ UNCHANGED <<tasks, forgotten>>
  /\ UNCHANGED <<linkVars, fileVars, previewVars, pend, bubble, dropped, cached, requests,
                 iin, shared, faults, kept>>

ReadCancelImage(f) ==
  LET hit == {q \in series : q.id = osend /\ q.id[1] = f.id[1]} IN
  /\ Pops("S", f)
  /\ f.type = "CancelImage"
  /\ series' = (series \ hit) \cup {[q EXCEPT !.cancelled = TRUE] : q \in hit}
  /\ forgotten' = IF hit # {} THEN forgotten \cup ({f.id[1]} \cap pend) ELSE forgotten
  /\ UNCHANGED <<linkVars, tasks, fileVars, previewVars, osend, pend, bubble, dropped,
                 cached, requests, iin, shared, used, faults, kept>>

ReadUnavailable(f) ==
  LET m == f.id[1] IN
  /\ Pops("R", f)
  /\ f.type = "Unavailable"
  /\ pend' = pend \ {m}
  /\ bubble' = IF m \in pend THEN [bubble EXCEPT ![m] = "Unavailable"] ELSE bubble
  /\ UNCHANGED <<linkVars, tasks, fileVars, previewVars, osend, series, dropped, cached,
                 requests, forgotten, iin, shared, used, faults, kept>>

\* send_original_image_sequence: one frame after the other, until it is
\* cancelled or a write fails.
SendOriginal(q, ok) ==
  LET heard == q.conn = conn /\ live["R"] # "off"
      f == CASE q.next = 0 -> F("Header", q.id)
             [] q.next \in 1 .. Chunks -> Chunk("ImageChunk", q.id, q.next)
             [] OTHER -> F("ImageEnd", q.id)
  IN
  /\ q.st = "run"
  /\ heard /\ live["S"] # "off" => ok
  /\ wire' = IF heard /\ ok /\ ~q.cancelled THEN [wire EXCEPT !["R"] = Append(@, f)] ELSE wire
  /\ series' = (series \ {q}) \cup
       {IF q.cancelled \/ ~ok \/ q.next = Chunks + 1
        THEN [q EXCEPT !.st = "done"] ELSE [q EXCEPT !.next = @ + 1]}
  /\ UNCHANGED <<linkVars, tasks, fileVars, previewVars, osend, pend, bubble, dropped,
                 cached, requests, forgotten, iin, shared, used, faults, kept>>

OriginalImageSendFinished(q) ==
  /\ q.st = "done"
  /\ series' = series \ {q}
  /\ osend' = IF osend # None /\ osend[1] = q.id[1] THEN None ELSE osend
  /\ UNCHANGED <<linkVars, wire, tasks, fileVars, previewVars, pend, bubble, dropped,
                 cached, requests, forgotten, iin, shared, used, faults, kept>>

\* Later images push the original out of the cache.
LeavesCache(m) ==
  /\ Fault
  /\ m \in shared
  /\ shared' = shared \ {m}
  /\ UNCHANGED <<linkVars, wire, tasks, fileVars, previewVars, originalVars, iin, used,
                 kept>>

-----------------------------------------------------------------------------
Results == \E t \in tasks : \/ \E st \in {"ok", "err"} : Write(t, st)
                            \/ FileSent(t) \/ ImageSent(t) \/ RequestSent(t)
                            \/ IncomingFileAcceptSent(t)
Reads ==
  \E e \in Ends : wire[e] # <<>> /\
    LET f == Head(wire[e]) IN
    \/ ReadOffer(f) \/ ReadFileAnswer(f) \/ ReadFileCancel(f) \/ ReadChunk(f)
    \/ ReadEnd(f) \/ ReadHeader(f) \/ ReadImageChunk(f) \/ ReadImageEnd(f)
    \/ ReadRequest(f) \/ ReadCancelImage(f) \/ ReadUnavailable(f)
Originals == \E q \in series : \/ \E ok \in BOOLEAN : SendOriginal(q, ok)
                               \/ OriginalImageSendFinished(q)

\* What goes on without the users and without faults.
Progress ==
  \/ Results \/ Reads \/ Originals \/ PumpFile \/ PumpImage
  \/ OfferExpires \/ IncomingOfferExpires
  \/ \E e \in Ends : Interrupted(e, FALSE) \/ KeysReady(e)

Users ==
  \/ \E f \in Files : FileChosen(f)
  \/ \E m \in Images : ImageChosen(m) \/ RequestOriginal(m) \/ CancelOriginal(m)
  \/ AcceptIncomingFile \/ CancelIncomingFile \/ CancelOutgoingFile
  \/ \E e \in Ends : Disconnect(e)

Next ==
  \/ Progress
  \/ Users
  \/ Reconnect
  \/ FileEndsEarly \/ FileReadFails
  \/ \E e \in Ends : Interrupted(e, TRUE)
  \/ \E m \in Images : LeavesCache(m)

Spec == Init /\ [][Next]_vars
FairSpec == Spec /\ WF_vars(Progress)

-----------------------------------------------------------------------------
TypeOK ==
  /\ conn \in 1 .. MaxConns
  /\ live \in [Ends -> {"off", "shaking", "ready"}]
  /\ wire \in [Ends -> Seq(Frame)]
  /\ tasks \subseteq Task
  /\ out.id \in FileId \cup {None} /\ out.flight \in BOOLEAN
  /\ {out.next, out.sent} \subseteq 0 .. Chunks
  /\ iout.id \in ImageId \cup {None} /\ iout.flight \in BOOLEAN
  /\ iout.next = 0 /\ iout.sent \in Nat
  /\ out.phase \in {"Idle", "Offer", "Await", "Chunks", "End"}
  /\ out.phase = "Idle" <=> out.id = None
  /\ iout.phase \in {"Idle", "Header", "Chunks", "End"}
  /\ inc.id \in FileId \cup {None} /\ inc.open \in BOOLEAN
  /\ \A i \in {inc, iin} : i.got \in Seq(Frame) /\ Len(i.got) <= Chunks
  /\ iin.id \in ImageId \cup {None}
  /\ osend \in ImageId \cup {None}
  /\ series \subseteq Series
  /\ pend \subseteq Images /\ shared \subseteq Images /\ cached \subseteq Images
  /\ bubble \in [Images -> Waiting \cup {"None", "Idle", "Cancelled", "Failed",
                                         "Unavailable"}]
  /\ dropped \subseteq ImageId
  /\ used \subseteq FileId \cup ImageId

\* A file or an image that R keeps consists of all the chunks of its transfer, in
\* order, whatever was cancelled, expired or sent again around it.  For a preview
\* this holds unless the result of another image's frame was taken for one of its
\* own (app.rs:7802-7896).
ReceivedWhole ==
  \A k \in kept : Whole(k.id, k.got) \/ k.id \in crossed

\* A transfer does not stay: the file that is sent, the one that is received and
\* the original that was asked for come to an end without the users.  Exceptions:
\* an end whose user disconnected keeps its transfers; R waits forever for a file
\* that it accepted after its cancellation, which overtook the offer, or that S has
\* given up after a failed read; a request is never answered
\* if it was dropped, lost its connection, or met the cancellation of the request
\* before it; and a preview that took the result of another's frame for its own
\* displaces an original.
TransferEnds ==
  /\ out.id # None ~> out.id = None \/ "S" \in hung
  /\ inc.id # None ~> inc.id = None \/ "R" \in hung \/ inc.id \in orphaned
  /\ \A m \in Images :
       bubble[m] \in Waiting ~>
         bubble[m] \notin Waiting \/ m \in forgotten \/ crossed # {}

\* The transfer of a file is over with its connection: its statuses are
\* "Cancelled: peer disconnected", "Cancelled: connection replaced".
StaysOnConnection == strayed = {}
=============================================================================
