--------------------------- MODULE TransfersProofs ---------------------------
(***************************************************************************)
(* That what is received in a transfer is whole.                           *)
(*                                                                         *)
(* Of a file and of a preview the receiver counts the chunks and does not  *)
(* look at their numbers.  That the right number of chunks is the whole    *)
(* therefore rests on the sender and on the way: the chunks of a transfer  *)
(* are in the order of their numbers everywhere, no chunk is there twice,  *)
(* and one that was lost leaves a gap, after which the numbers run ahead   *)
(* of the count for good.                                                  *)
(***************************************************************************)
EXTENDS Transfers, FiniteSetTheorems, TLAPS

FileTypes == {"Offer", "Chunk", "End"}
ImageTypes == {"Header", "ImageChunk", "ImageEnd"}
Previews == Images \X {0}

(* The chunks of transfer x, of type c: those in the received sequence g   *)
(* come first, then those on the wire w, then the one of a task in T; they *)
(* are in the order of their numbers, and a gap cannot be made up for.     *)
IsOf(f, x, D) == f.id = x /\ f.type \in D
IsChunk(f, x, c) == f.id = x /\ f.type = c
Reach(g) == IF g = <<>> THEN 0 ELSE g[Len(g)].n
InOrder(g) == (\A i \in 1 .. Len(g) : g[i].n = i) \/ Reach(g) > Len(g)

Single(x, D, T) ==
  \A t, u \in T : IsOf(t.frame, x, D) /\ IsOf(u.frame, x, D) => t = u
Flow(x, D, c, T, w, g) ==
  /\ Single(x, D, T)
  /\ \A i \in 1 .. Len(w) : IsChunk(w[i], x, c) =>
       /\ w[i].n > Reach(g)
       /\ \A j \in 1 .. i - 1 : IsChunk(w[j], x, c) => w[j].n < w[i].n
  /\ \A t \in T : t.st = "new" /\ IsChunk(t.frame, x, c) =>
       /\ t.frame.n > Reach(g)
       /\ \A i \in 1 .. Len(w) : IsChunk(w[i], x, c) => w[i].n < t.frame.n
  /\ InOrder(g)

(* No chunk of x is beyond number n. *)
Behind(x, c, T, w, g, n) ==
  /\ Reach(g) <= n
  /\ \A i \in 1 .. Len(w) : IsChunk(w[i], x, c) => w[i].n <= n
  /\ \A t \in T : t.st = "new" /\ IsChunk(t.frame, x, c) => t.frame.n <= n

Got(in, x) == IF in.id = x THEN in.got ELSE <<>>
Top(o) == o.sent + IF o.flight /\ o.phase = "Chunks" THEN 1 ELSE 0

(* The task of the frame that the sender o has in flight. *)
FileType(phase) == CASE phase = "Offer" -> "Offer" [] phase = "Chunks" -> "Chunk" [] OTHER -> "End"
ImageType(phase) ==
  CASE phase = "Header" -> "Header" [] phase = "Chunks" -> "ImageChunk" [] OTHER -> "ImageEnd"
InFlight(o, D, type, T) ==
  \A t \in T : IsOf(t.frame, o.id, D) => o.flight /\ t.frame.type = type

FileFlows == \A x \in FileId : Flow(x, FileTypes, "Chunk", tasks, wire["R"], Got(inc, x))
SendsFile ==
  out.id # None =>
    /\ Behind(out.id, "Chunk", tasks, wire["R"], Got(inc, out.id), Top(out))
    /\ InFlight(out, FileTypes, FileType(out.phase), tasks)
PreviewFlows ==
  \A x \in Previews \ crossed :
    Flow(x, ImageTypes, "ImageChunk", tasks, wire["R"], Got(iin, x))
SendsPreview ==
  iout.id # None /\ iout.id \notin crossed =>
    /\ Behind(iout.id, "ImageChunk", tasks, wire["R"], Got(iin, iout.id), Top(iout))
    /\ InFlight(iout, ImageTypes, ImageType(iout.phase), tasks)

(* The shape of frames, of the transfers us begun so far. *)
FrameOK(f, us) ==
  /\ f \in Frame
  /\ f.type \in FileTypes => f.id \in FileId \cap us
  /\ f.type \in {"Header", "ImageChunk"} => f.id \in ImageId \cap us
  /\ f.type = "ImageEnd" => f.id \in (ImageId \cap us) \cup {None}
  /\ f.type = "Request" => f.id \in ImageId
  /\ f.type \in {"Chunk", "ImageChunk"} => f.n \in 1 .. Chunks

TasksOK(T, us) == \A t \in T : t \in Task /\ FrameOK(t.frame, us)
WireOK(w, us) ==
  /\ w \in [Ends -> Seq(Frame)]
  /\ \A e \in Ends : \A i \in 1 .. Len(w[e]) : FrameOK(w[e][i], us)

OutOK(o, us) ==
  /\ o \in [id : FileId \cup {None}, phase : {"Idle", "Offer", "Await", "Chunks", "End"},
            next : 0 .. Chunks, sent : 0 .. Chunks, flight : BOOLEAN]
  /\ o.id \in us \cup {None}
  /\ o.phase = "Idle" <=> o.id = None
  /\ o.phase \in {"Idle", "Await"} => ~o.flight
  /\ o.phase \in {"Offer", "Await"} => o.sent = 0
  /\ o.phase = "Chunks" => o.sent < Chunks
  /\ o.next = Top(o)
IoutOK(o, us) ==
  /\ o \in [id : Previews \cup {None}, phase : {"Idle", "Header", "Chunks", "End"},
            next : {0}, sent : Nat, flight : BOOLEAN]
  /\ o.id \in us \cup {None}
  /\ o.phase = "Header" => o.id # None
IncOK(i, us) ==
  /\ i \in [id : FileId \cup {None}, open : BOOLEAN, got : Seq(Frame)]
  /\ i.id \in us \cup {None} /\ Len(i.got) <= Chunks
  /\ \A j \in 1 .. Len(i.got) : i.got[j].id = i.id
IinOK(i, us) ==
  /\ i \in [id : ImageId \cup {None}, got : Seq(Frame)]
  /\ i.id \in us \cup {None} /\ Len(i.got) <= Chunks
  /\ \A j \in 1 .. Len(i.got) : i.got[j].id = i.id

SeriesOK(q, us) == q \in Series /\ q.id \in us /\ q.id[2] > 0 /\ q.next <= Chunks + 1
Rest ==
  /\ conn \in 1 .. MaxConns
  /\ live \in [Ends -> {"off", "shaking", "ready"}]
  /\ osend \in ImageId \cup {None}
  /\ \A q \in series : SeriesOK(q, used)
  /\ pend \subseteq Images /\ shared \subseteq Images /\ cached \subseteq Images
  /\ bubble \in [Images -> Waiting \cup {"None", "Idle", "Cancelled", "Failed",
                                         "Unavailable"}]
  /\ dropped \subseteq ImageId
  /\ used \subseteq FileId \cup ImageId

Frames == TasksOK(tasks, used) /\ WireOK(wire, used)
Holders ==
  OutOK(out, used) /\ IoutOK(iout, used) /\ IncOK(inc, used) /\ IinOK(iin, used)

TInv ==
  /\ Rest /\ IsFiniteSet(used) /\ Frames /\ Holders
  /\ FileFlows /\ SendsFile /\ PreviewFlows /\ SendsPreview
  /\ ReceivedWhole

-----------------------------------------------------------------------------
(* Chunks on their way *)

LEMMA NoneIsNoId ==
  /\ None \notin FileId /\ None \notin ImageId /\ None \notin Previews
  /\ Previews \subseteq ImageId
PROOF BY DEF None, FileId, ImageId, Previews

LEMMA FrameFields ==
  ASSUME NEW f \in Frame
  PROVE  f.n \in 0 .. Chunks /\ f.n \in Nat
PROOF BY TransferAssumption DEF Frame

LEMMA ReachIsNat ==
  ASSUME NEW g \in Seq(Frame)
  PROVE  Reach(g) \in Nat
PROOF
<1>1. CASE g = <<>>
  BY <1>1 DEF Reach
<1>2. CASE g # <<>>
  <2>1. Len(g) \in 1 .. Len(g) /\ g[Len(g)] \in Frame
    BY <1>2
  <2>2. QED
    BY <1>2, <2>1, FrameFields DEF Reach
<1>3. QED
  BY <1>1, <1>2

(* Nothing was added to the chunks of x on the wire w: what is left of them is *)
(* on v in the same order.                                                     *)
Thins(w, v, x, c) ==
  \E d \in Nat : \A i \in 1 .. Len(v) :
    IsChunk(v[i], x, c) => i + d \in 1 .. Len(w) /\ v[i] = w[i + d]

LEMMA ThinsSame ==
  ASSUME NEW w \in Seq(Frame), NEW x, NEW c
  PROVE  Thins(w, w, x, c)
PROOF
<1>1. \A i \in 1 .. Len(w) : i + 0 \in 1 .. Len(w) /\ w[i] = w[i + 0]
  OBVIOUS
<1>2. QED
  BY <1>1 DEF Thins

LEMMA ThinsNil ==
  ASSUME NEW w, NEW x, NEW c
  PROVE  Thins(w, <<>>, x, c)
PROOF BY DEF Thins

LEMMA ThinsTail ==
  ASSUME NEW w \in Seq(Frame), w # <<>>, NEW x, NEW c
  PROVE  Thins(w, Tail(w), x, c)
PROOF
<1>1. \A i \in 1 .. Len(Tail(w)) : i + 1 \in 1 .. Len(w) /\ Tail(w)[i] = w[i + 1]
  OBVIOUS
<1>2. QED
  BY <1>1 DEF Thins

LEMMA ThinsOther ==
  ASSUME NEW w \in Seq(Frame), NEW f \in Frame, NEW x, NEW c, ~IsChunk(f, x, c)
  PROVE  Thins(w, Append(w, f), x, c)
PROOF
<1>1. /\ Len(Append(w, f)) = Len(w) + 1 /\ Len(w) \in Nat
      /\ \A i \in 1 .. Len(w) : Append(w, f)[i] = w[i]
      /\ Append(w, f)[Len(w) + 1] = f
  OBVIOUS
<1>2. \A i \in 1 .. Len(Append(w, f)) : i \in 1 .. Len(w) \/ i = Len(w) + 1
  BY <1>1
<1>3. \A i \in 1 .. Len(Append(w, f)) :
        IsChunk(Append(w, f)[i], x, c) =>
          i + 0 \in 1 .. Len(w) /\ Append(w, f)[i] = w[i + 0]
  BY <1>1, <1>2
<1>4. QED
  BY <1>3 DEF Thins

(* No new chunk of x is to be sent. *)
Fewer(T, U, x, c) ==
  \A t \in U : t.st = "new" /\ IsChunk(t.frame, x, c) => t \in T

(* Nothing is added to the chunks of x, and the received ones stay or are  *)
(* given up.                                                               *)
LEMMA FlowKept ==
  ASSUME NEW x, NEW D, NEW c \in D, NEW T, NEW U, NEW w \in Seq(Frame),
         NEW v \in Seq(Frame), NEW g \in Seq(Frame), NEW h \in Seq(Frame),
         Flow(x, D, c, T, w, g), Single(x, D, U), Fewer(T, U, x, c), Thins(w, v, x, c),
         h \in {g, <<>>},
         \A t \in T : t.frame \in Frame
  PROVE  Flow(x, D, c, U, v, h)
PROOF
<1>1. PICK d \in Nat : \A i \in 1 .. Len(v) :
        IsChunk(v[i], x, c) => i + d \in 1 .. Len(w) /\ v[i] = w[i + d]
  BY DEF Thins
<1>2. Reach(g) \in Nat /\ Reach(h) \in Nat /\ Reach(h) <= Reach(g)
  BY ReachIsNat DEF Reach
<1>3. \A t \in U : t.st = "new" /\ IsChunk(t.frame, x, c) => t \in T
  BY DEF Fewer
<1>4. \A i \in 1 .. Len(v) : v[i].n \in Nat
  BY FrameFields
<1>5. \A i \in 1 .. Len(w) : w[i].n \in Nat
  BY FrameFields
<1>6. Single(x, D, U)
  OBVIOUS
<1>7. ASSUME NEW i \in 1 .. Len(v), IsChunk(v[i], x, c)
      PROVE  /\ v[i].n > Reach(h)
             /\ \A j \in 1 .. i - 1 : IsChunk(v[j], x, c) => v[j].n < v[i].n
  <2>1. i + d \in 1 .. Len(w) /\ v[i] = w[i + d] /\ v[i].n > Reach(g)
    BY <1>1, <1>7 DEF Flow
  <2>2. ASSUME NEW j \in 1 .. i - 1, IsChunk(v[j], x, c)
        PROVE  v[j].n < v[i].n
    <3>1. j \in 1 .. Len(v) /\ j + d \in 1 .. (i + d) - 1
      BY <2>1
    <3>2. v[j] = w[j + d]
      BY <1>1, <2>2, <3>1
    <3>3. QED
      BY <1>7, <2>1, <2>2, <3>1, <3>2 DEF Flow
  <2>3. QED
    BY <1>2, <1>4, <2>1, <2>2
<1>8. ASSUME NEW t \in U, t.st = "new", IsChunk(t.frame, x, c)
      PROVE  /\ t.frame.n > Reach(h)
             /\ \A i \in 1 .. Len(v) : IsChunk(v[i], x, c) => v[i].n < t.frame.n
  <2>1. t \in T
    BY <1>3, <1>8
  <2>2. /\ t.frame.n > Reach(g)
        /\ \A i \in 1 .. Len(w) : IsChunk(w[i], x, c) => w[i].n < t.frame.n
    BY <1>8, <2>1 DEF Flow
  <2>3. \A i \in 1 .. Len(v) : IsChunk(v[i], x, c) => v[i].n < t.frame.n
    BY <1>1, <2>2
  <2>4. t.frame.n > Reach(h)
    <3>1. t.frame.n \in Nat
      BY <2>1, FrameFields
    <3>2. QED
      BY <1>2, <2>2, <3>1
  <2>5. QED
    BY <2>3, <2>4
<1>9. InOrder(h)
  BY DEF Flow, InOrder
<1>10. QED
  BY <1>6, <1>7, <1>8, <1>9 DEF Flow

LEMMA BehindKept ==
  ASSUME NEW x, NEW c, NEW T, NEW U, NEW w \in Seq(Frame),
         NEW v \in Seq(Frame), NEW g \in Seq(Frame), NEW h \in Seq(Frame), NEW n \in Nat,
         Behind(x, c, T, w, g, n), Fewer(T, U, x, c), Thins(w, v, x, c), h \in {g, <<>>}
  PROVE  Behind(x, c, U, v, h, n)
PROOF
<1>1. PICK d \in Nat : \A i \in 1 .. Len(v) :
        IsChunk(v[i], x, c) => i + d \in 1 .. Len(w) /\ v[i] = w[i + d]
  BY DEF Thins
<1>2. Reach(h) <= n
  BY DEF Behind, Reach
<1>3. \A t \in U : t.st = "new" /\ IsChunk(t.frame, x, c) => t \in T
  BY DEF Fewer
<1>4. \A i \in 1 .. Len(v) : IsChunk(v[i], x, c) => v[i].n <= n
  BY <1>1 DEF Behind
<1>5. \A t \in U : t.st = "new" /\ IsChunk(t.frame, x, c) => t.frame.n <= n
  BY <1>3 DEF Behind
<1>6. QED
  BY <1>2, <1>4, <1>5 DEF Behind

(* A chunk is written: its task was the only one of x. *)
LEMMA FlowWritten ==
  ASSUME NEW x, NEW D, NEW c \in D, NEW T, NEW U, NEW w \in Seq(Frame),
         NEW g \in Seq(Frame), Flow(x, D, c, T, w, g),
         NEW t \in T, NEW s, t.frame \in Frame, t.st = "new", IsChunk(t.frame, x, c),
         s.st # "new", U \subseteq (T \ {t}) \cup {s}
  PROVE  Flow(x, D, c, U, Append(w, t.frame), g)
PROOF
<1>1. \A u \in T : IsOf(u.frame, x, D) => u = t
  BY DEF Flow, Single, IsOf, IsChunk
<1>2. \A u \in U : IsOf(u.frame, x, D) => u = s
  BY <1>1
<1> DEFINE v == Append(w, t.frame)
<1>3. /\ Len(v) = Len(w) + 1 /\ Len(w) \in Nat
      /\ \A i \in 1 .. Len(w) : v[i] = w[i]
      /\ v[Len(w) + 1] = t.frame
  OBVIOUS
<1>4. \A i \in 1 .. Len(v) : i \in 1 .. Len(w) \/ i = Len(w) + 1
  BY <1>3
<1>5. \A i \in 1 .. Len(w) : IsChunk(w[i], x, c) => w[i].n < t.frame.n
  BY DEF Flow
<1> HIDE DEF v
<1>6. ASSUME NEW i \in 1 .. Len(v), IsChunk(v[i], x, c)
      PROVE  /\ v[i].n > Reach(g)
             /\ \A j \in 1 .. i - 1 : IsChunk(v[j], x, c) => v[j].n < v[i].n
  <2>1. CASE i = Len(w) + 1
    <3>1. v[i] = t.frame /\ \A j \in 1 .. i - 1 : j \in 1 .. Len(w) /\ v[j] = w[j]
      BY <1>3, <2>1
    <3>2. QED
      BY <1>5, <3>1 DEF Flow
  <2>2. CASE i \in 1 .. Len(w)
    <3>1. v[i] = w[i] /\ \A j \in 1 .. i - 1 : v[j] = w[j]
      BY <1>3, <2>2
    <3>2. QED
      BY <1>6, <2>2, <3>1 DEF Flow
  <2>3. QED
    BY <1>4, <2>1, <2>2
<1>7. \A u \in U : u.st = "new" => ~IsChunk(u.frame, x, c)
  BY <1>2 DEF IsOf, IsChunk
<1>8. Single(x, D, U)
  BY <1>2 DEF Single
<1>9. InOrder(g)
  BY DEF Flow
<1>10. QED
  BY <1>6, <1>7, <1>8, <1>9 DEF Flow, v

LEMMA BehindWritten ==
  ASSUME NEW x, NEW c, NEW T, NEW U, NEW w \in Seq(Frame),
         NEW g \in Seq(Frame), NEW n \in Nat, Behind(x, c, T, w, g, n),
         NEW t \in T, NEW s, t.frame \in Frame, t.st = "new", IsChunk(t.frame, x, c),
         s.st # "new", U \subseteq (T \ {t}) \cup {s}
  PROVE  Behind(x, c, U, Append(w, t.frame), g, n)
PROOF
<1> DEFINE v == Append(w, t.frame)
<1>1. /\ Len(v) = Len(w) + 1 /\ Len(w) \in Nat
      /\ \A i \in 1 .. Len(w) : v[i] = w[i]
      /\ v[Len(w) + 1] = t.frame
  OBVIOUS
<1>2. \A i \in 1 .. Len(v) : i \in 1 .. Len(w) \/ i = Len(w) + 1
  BY <1>1
<1> HIDE DEF v
<1>3. \A i \in 1 .. Len(v) : IsChunk(v[i], x, c) => v[i].n <= n
  BY <1>1, <1>2 DEF Behind
<1>4. \A u \in U : u.st = "new" /\ IsChunk(u.frame, x, c) => u \in T
  OBVIOUS
<1>5. QED
  BY <1>3, <1>4 DEF Behind, v

(* The first frame on the wire is a chunk and is taken. *)
LEMMA FlowTaken ==
  ASSUME NEW x, NEW D, NEW c, NEW T, NEW w \in Seq(Frame), w # <<>>,
         NEW g \in Seq(Frame), Flow(x, D, c, T, w, g), IsChunk(Head(w), x, c)
  PROVE  Flow(x, D, c, T, Tail(w), Append(g, Head(w)))
PROOF
<1> DEFINE f == Head(w)
           v == Tail(w)
           h == Append(g, f)
<1>1. /\ Len(v) = Len(w) - 1 /\ Len(w) \in Nat /\ Len(w) >= 1
      /\ \A i \in 1 .. Len(v) : v[i] = w[i + 1] /\ i + 1 \in 1 .. Len(w)
      /\ f = w[1] /\ f \in Frame
  OBVIOUS
<1>2. /\ Len(h) = Len(g) + 1 /\ Len(g) \in Nat /\ h \in Seq(Frame) /\ h # <<>>
      /\ \A i \in 1 .. Len(g) : h[i] = g[i]
      /\ h[Len(g) + 1] = f
  BY <1>1
<1>3. f.n \in Nat /\ Reach(g) \in Nat /\ f.n > Reach(g)
  BY <1>1, FrameFields, ReachIsNat DEF Flow
<1> HIDE DEF f, v, h
<1>4. Reach(h) = f.n
  BY <1>2 DEF Reach
<1>5. IsChunk(w[1], x, c)
  BY <1>1 DEF f
<1>6. ASSUME NEW i \in 1 .. Len(v), IsChunk(v[i], x, c)
      PROVE  /\ v[i].n > Reach(h)
             /\ \A j \in 1 .. i - 1 : IsChunk(v[j], x, c) => v[j].n < v[i].n
  <2>1. i + 1 \in 1 .. Len(w) /\ v[i] = w[i + 1] /\ 1 \in 1 .. (i + 1) - 1
    BY <1>1
  <2>2. \A j \in 1 .. (i + 1) - 1 : IsChunk(w[j], x, c) => w[j].n < w[i + 1].n
    BY <1>6, <2>1 DEF Flow
  <2>3. f.n < v[i].n
    BY <1>1, <1>5, <2>1, <2>2
  <2>4. v[i].n > Reach(h)
    <3>1. v[i].n \in Nat
      BY <2>1, FrameFields
    <3>2. QED
      BY <1>3, <1>4, <2>3, <3>1
  <2>5. ASSUME NEW j \in 1 .. i - 1, IsChunk(v[j], x, c)
        PROVE  v[j].n < v[i].n
    <3>1. j \in 1 .. Len(v) /\ j + 1 \in 1 .. (i + 1) - 1 /\ v[j] = w[j + 1]
      BY <1>1
    <3>2. QED
      BY <2>1, <2>2, <2>5, <3>1
  <2>6. QED
    BY <2>4, <2>5
<1>7. ASSUME NEW t \in T, t.st = "new", IsChunk(t.frame, x, c)
      PROVE  /\ t.frame.n > Reach(h)
             /\ \A i \in 1 .. Len(v) : IsChunk(v[i], x, c) => v[i].n < t.frame.n
  <2>1. \A i \in 1 .. Len(w) : IsChunk(w[i], x, c) => w[i].n < t.frame.n
    BY <1>7 DEF Flow
  <2>2. f.n < t.frame.n
    BY <1>1, <1>5, <2>1
  <2>3. t.frame.n > Reach(h)
    BY <1>4, <2>2
  <2>4. QED
    BY <1>1, <2>1, <2>3
<1>8. InOrder(h)
  <2>1. CASE \A i \in 1 .. Len(g) : g[i].n = i
    <3>1. Reach(g) = Len(g)
      BY <1>2, <2>1 DEF Reach
    <3>2. CASE f.n = Len(g) + 1
      <4>1. \A i \in 1 .. Len(h) : i \in 1 .. Len(g) \/ i = Len(g) + 1
        BY <1>2
      <4>2. QED
        BY <1>2, <2>1, <3>2, <4>1 DEF InOrder
    <3>3. CASE f.n # Len(g) + 1
      BY <1>2, <1>3, <1>4, <3>1, <3>3 DEF InOrder
    <3>4. QED
      BY <3>2, <3>3
  <2>2. CASE Reach(g) > Len(g)
    BY <1>2, <1>3, <1>4, <2>2 DEF InOrder
  <2>3. QED
    BY <2>1, <2>2 DEF Flow, InOrder
<1>9. Single(x, D, T)
  BY DEF Flow
<1>10. QED
  BY <1>6, <1>7, <1>8, <1>9 DEF Flow, f, v, h

LEMMA BehindTaken ==
  ASSUME NEW x, NEW c, NEW T, NEW w \in Seq(Frame), w # <<>>,
         NEW g \in Seq(Frame), NEW n \in Nat, Behind(x, c, T, w, g, n),
         IsChunk(Head(w), x, c)
  PROVE  Behind(x, c, T, Tail(w), Append(g, Head(w)), n)
PROOF
<1>1. /\ Head(w) = w[1] /\ 1 \in 1 .. Len(w)
      /\ \A i \in 1 .. Len(Tail(w)) : Tail(w)[i] = w[i + 1] /\ i + 1 \in 1 .. Len(w)
  OBVIOUS
<1>2. Reach(Append(g, Head(w))) = Head(w).n
  BY DEF Reach
<1>3. QED
  BY <1>1, <1>2 DEF Behind

(* The next chunk gets its task. *)
LEMMA FlowPumped ==
  ASSUME NEW x, NEW D, NEW c, NEW T, NEW w \in Seq(Frame), NEW g \in Seq(Frame),
         NEW n \in Nat, Flow(x, D, c, T, w, g), Behind(x, c, T, w, g, n),
         \A t \in T : t.frame \in Frame /\ ~IsOf(t.frame, x, D),
         NEW s, IsChunk(s.frame, x, c) => s.frame.n = n + 1
  PROVE  /\ Flow(x, D, c, T \cup {s}, w, g)
         /\ IsChunk(s.frame, x, c) => Behind(x, c, T \cup {s}, w, g, n + 1)
         /\ ~IsChunk(s.frame, x, c) => Behind(x, c, T \cup {s}, w, g, n)
PROOF
<1>1. Reach(g) \in Nat /\ \A i \in 1 .. Len(w) : w[i].n \in Nat
  BY ReachIsNat, FrameFields
<1>2. Single(x, D, T \cup {s})
  BY DEF Single
<1>3. ASSUME NEW t \in T \cup {s}, t.st = "new", IsChunk(t.frame, x, c)
      PROVE  /\ t.frame.n > Reach(g)
             /\ \A i \in 1 .. Len(w) : IsChunk(w[i], x, c) => w[i].n < t.frame.n
             /\ t = s => t.frame.n = n + 1
             /\ t # s => t.frame.n <= n
  <2>1. CASE t = s
    <3>1. t.frame.n = n + 1 /\ Reach(g) <= n
      BY <1>3, <2>1 DEF Behind
    <3>2. ASSUME NEW i \in 1 .. Len(w), IsChunk(w[i], x, c)
          PROVE  w[i].n < t.frame.n
      <4>1. w[i].n <= n /\ w[i].n \in Nat
        BY <1>1, <3>2 DEF Behind
      <4>2. QED
        BY <3>1, <4>1
    <3>3. QED
      BY <1>1, <2>1, <3>1, <3>2
  <2>2. CASE t # s
    BY <1>3, <2>2 DEF Flow, Behind
  <2>3. QED
    BY <2>1, <2>2
<1>4. Flow(x, D, c, T \cup {s}, w, g)
  BY <1>2, <1>3 DEF Flow
<1>5. ASSUME IsChunk(s.frame, x, c)
      PROVE  Behind(x, c, T \cup {s}, w, g, n + 1)
  <2>1. Reach(g) <= n + 1
    BY <1>1 DEF Behind
  <2>2. \A i \in 1 .. Len(w) : IsChunk(w[i], x, c) => w[i].n <= n + 1
    BY <1>1 DEF Behind
  <2>3. ASSUME NEW t \in T \cup {s}, t.st = "new", IsChunk(t.frame, x, c)
        PROVE  t.frame.n <= n + 1
    <3>1. CASE t = s
      BY <1>5, <3>1
    <3>2. CASE t # s
      <4>1. t \in T /\ IsChunk(t.frame, x, c) /\ t.frame.n <= n
        BY <2>3, <3>2 DEF Behind
      <4>2. t.frame.n \in Nat
        BY <4>1, FrameFields
      <4>3. QED
        BY <4>1, <4>2
    <3>3. QED
      BY <3>1, <3>2
  <2>4. QED
    BY <2>1, <2>2, <2>3 DEF Behind
<1>6. ASSUME ~IsChunk(s.frame, x, c)
      PROVE  Behind(x, c, T \cup {s}, w, g, n)
  BY <1>6 DEF Behind
<1>7. QED
  BY <1>4, <1>5, <1>6

-----------------------------------------------------------------------------
(* Steps that add no chunk *)

DataTypes == FileTypes \cup ImageTypes

\* No task is added that carries a part of a file, or of a preview.
NoNew(D) == \A t \in tasks' : t \in tasks \/ t.frame.type \notin D
NoNewData == NoNew(DataTypes)

FilesThin ==
  /\ wire'["R"] \in Seq(Frame)
  /\ \A x \in FileId : Thins(wire["R"], wire'["R"], x, "Chunk")
PreviewsThin ==
  /\ wire'["R"] \in Seq(Frame)
  /\ \A x \in Previews : Thins(wire["R"], wire'["R"], x, "ImageChunk")

\* What was received is kept or given up.
GotKept(i, j) == j.got \in Seq(Frame) /\ (j.got = <<>> \/ (j.id = i.id /\ j.got = i.got))

\* The sender goes on with its transfer, or gives it up.
OutKept ==
  \/ out'.id = None
  \/ /\ out'.id = out.id /\ Top(out') = Top(out)
     /\ InFlight(out', FileTypes, FileType(out'.phase), tasks')
IoutKept ==
  \/ iout'.id \in crossed' \cup {None}
  \/ /\ iout'.id = iout.id /\ Top(iout') = Top(iout)
     /\ InFlight(iout', ImageTypes, ImageType(iout'.phase), tasks')

LEMMA TypesOfChunks ==
  /\ "Chunk" \in FileTypes /\ "ImageChunk" \in ImageTypes
  /\ FileTypes \subseteq DataTypes /\ ImageTypes \subseteq DataTypes
  /\ "Chunk" \notin ImageTypes /\ "ImageChunk" \notin FileTypes
PROOF BY DEF FileTypes, ImageTypes, DataTypes

LEMMA TopIsNat ==
  /\ \A us : OutOK(out, us) => Top(out) \in Nat
  /\ \A us : IoutOK(iout, us) => Top(iout) \in Nat
PROOF
<1>1. ASSUME NEW us, OutOK(out, us) PROVE Top(out) \in Nat
  BY <1>1, TransferAssumption DEF OutOK, Top
<1>2. ASSUME NEW us, IoutOK(iout, us) PROVE Top(iout) \in Nat
  BY <1>2 DEF IoutOK, Top
<1>3. QED
  BY <1>1, <1>2

LEMMA NothingGot == <<>> \in Seq(Frame)
PROOF OBVIOUS

LEMMA WireIsSeq ==
  ASSUME Frames
  PROVE  /\ wire["R"] \in Seq(Frame) /\ wire["S"] \in Seq(Frame)
         /\ \A t \in tasks : t.frame \in Frame
PROOF BY DEF Frames, TasksOK, WireOK, FrameOK, Ends

LEMMA GotIsSeq ==
  ASSUME Holders, NEW x
  PROVE  Got(inc, x) \in Seq(Frame) /\ Got(iin, x) \in Seq(Frame)
PROOF BY NothingGot DEF Holders, IncOK, IinOK, Got

LEMMA StillSingle ==
  ASSUME NEW x, NEW D, NEW c \in D, NoNew(D), Single(x, D, tasks)
  PROVE  Single(x, D, tasks') /\ Fewer(tasks, tasks', x, c)
PROOF BY DEF NoNew, Single, Fewer, IsOf, IsChunk

(* The tasks of a sender that does not change. *)
LEMMA StillInFlight ==
  ASSUME NEW o, NEW D, NoNew(D), NEW k, InFlight(o, D, k, tasks)
  PROVE  InFlight(o, D, k, tasks')
PROOF BY DEF NoNew, InFlight, IsOf

LEMMA FilesKept ==
  ASSUME TInv, NoNew(FileTypes), FilesThin, GotKept(inc, inc'), OutKept
  PROVE  FileFlows' /\ SendsFile'
PROOF
<1>1. /\ Frames /\ Holders /\ FileFlows /\ SendsFile
      /\ wire["R"] \in Seq(Frame) /\ wire'["R"] \in Seq(Frame)
      /\ \A t \in tasks : t.frame \in Frame
  BY WireIsSeq DEF TInv, FilesThin
<1>2. ASSUME NEW x \in FileId
      PROVE  /\ Got(inc, x) \in Seq(Frame) /\ Got(inc', x) \in Seq(Frame)
             /\ Got(inc', x) \in {Got(inc, x), <<>>}
             /\ Thins(wire["R"], wire'["R"], x, "Chunk")
             /\ Fewer(tasks, tasks', x, "Chunk")
             /\ Single(x, FileTypes, tasks')
  <2>1. Got(inc, x) \in Seq(Frame)
    BY <1>1, GotIsSeq
  <2>2. Got(inc', x) \in {Got(inc, x), <<>>}
    BY DEF GotKept, Got
  <2>3. Thins(wire["R"], wire'["R"], x, "Chunk")
    BY DEF FilesThin
  <2>4. Single(x, FileTypes, tasks)
    BY <1>1 DEF FileFlows, Flow
  <2>5. Fewer(tasks, tasks', x, "Chunk") /\ Single(x, FileTypes, tasks')
    BY <2>4, StillSingle, TypesOfChunks
  <2>6. Got(inc', x) \in Seq(Frame)
    BY <2>1, <2>2, NothingGot
  <2>7. QED
    BY <2>1, <2>2, <2>3, <2>5, <2>6
<1>3. ASSUME NEW x \in FileId
      PROVE  Flow(x, FileTypes, "Chunk", tasks', wire'["R"], Got(inc', x))
  <2>1. Flow(x, FileTypes, "Chunk", tasks, wire["R"], Got(inc, x))
    BY <1>1 DEF FileFlows
  <2>2. QED
    BY <1>1, <1>2, <2>1, FlowKept, TypesOfChunks
<1>4. ASSUME out'.id # None
      PROVE  /\ Behind(out'.id, "Chunk", tasks', wire'["R"], Got(inc', out'.id), Top(out'))
             /\ InFlight(out', FileTypes, FileType(out'.phase), tasks')
  <2>1. /\ out'.id = out.id /\ Top(out') = Top(out)
        /\ InFlight(out', FileTypes, FileType(out'.phase), tasks')
    BY <1>4 DEF OutKept
  <2>2. out.id \in FileId /\ Top(out) \in Nat
    BY <1>1, <1>4, <2>1, TopIsNat DEF Holders, OutOK
  <2>3. Behind(out.id, "Chunk", tasks, wire["R"], Got(inc, out.id), Top(out))
    BY <1>1, <1>4, <2>1 DEF SendsFile
  <2>4. Behind(out.id, "Chunk", tasks', wire'["R"], Got(inc', out.id), Top(out))
    BY <1>1, <1>2, <2>2, <2>3, BehindKept
  <2>5. QED
    BY <2>1, <2>4
<1>5. QED
  BY <1>3, <1>4 DEF FileFlows, SendsFile

LEMMA PreviewsKept ==
  ASSUME TInv, NoNew(ImageTypes), PreviewsThin, GotKept(iin, iin'), IoutKept,
         crossed \subseteq crossed'
  PROVE  PreviewFlows' /\ SendsPreview'
PROOF
<1>1. /\ Frames /\ Holders /\ PreviewFlows /\ SendsPreview
      /\ wire["R"] \in Seq(Frame) /\ wire'["R"] \in Seq(Frame)
      /\ \A t \in tasks : t.frame \in Frame
  BY WireIsSeq DEF TInv, PreviewsThin
<1>2. ASSUME NEW x \in Previews \ crossed
      PROVE  /\ Got(iin, x) \in Seq(Frame) /\ Got(iin', x) \in Seq(Frame)
             /\ Got(iin', x) \in {Got(iin, x), <<>>}
             /\ Thins(wire["R"], wire'["R"], x, "ImageChunk")
             /\ Fewer(tasks, tasks', x, "ImageChunk")
             /\ Single(x, ImageTypes, tasks')
  <2>1. Got(iin, x) \in Seq(Frame)
    BY <1>1, GotIsSeq
  <2>2. Got(iin', x) \in {Got(iin, x), <<>>}
    BY DEF GotKept, Got
  <2>3. Thins(wire["R"], wire'["R"], x, "ImageChunk")
    BY DEF PreviewsThin
  <2>4. Single(x, ImageTypes, tasks)
    BY <1>1 DEF PreviewFlows, Flow
  <2>5. Fewer(tasks, tasks', x, "ImageChunk") /\ Single(x, ImageTypes, tasks')
    BY <2>4, StillSingle, TypesOfChunks
  <2>6. Got(iin', x) \in Seq(Frame)
    BY <2>1, <2>2, NothingGot
  <2>7. QED
    BY <2>1, <2>2, <2>3, <2>5, <2>6
<1>3. ASSUME NEW x \in Previews \ crossed'
      PROVE  Flow(x, ImageTypes, "ImageChunk", tasks', wire'["R"], Got(iin', x))
  <2>1. x \in Previews \ crossed
    OBVIOUS
  <2>2. Flow(x, ImageTypes, "ImageChunk", tasks, wire["R"], Got(iin, x))
    BY <1>1, <2>1 DEF PreviewFlows
  <2>3. QED
    BY <1>1, <1>2, <2>1, <2>2, FlowKept, TypesOfChunks
<1>4. ASSUME iout'.id # None, iout'.id \notin crossed'
      PROVE  /\ Behind(iout'.id, "ImageChunk", tasks', wire'["R"], Got(iin', iout'.id), Top(iout'))
             /\ InFlight(iout', ImageTypes, ImageType(iout'.phase), tasks')
  <2>1. /\ iout'.id = iout.id /\ Top(iout') = Top(iout)
        /\ InFlight(iout', ImageTypes, ImageType(iout'.phase), tasks')
    BY <1>4 DEF IoutKept
  <2>2. iout.id \in Previews \ crossed /\ Top(iout) \in Nat
    BY <1>1, <1>4, <2>1, TopIsNat DEF Holders, IoutOK
  <2>3. Behind(iout.id, "ImageChunk", tasks, wire["R"], Got(iin, iout.id), Top(iout))
    BY <1>1, <1>4, <2>1, <2>2 DEF SendsPreview
  <2>4. Behind(iout.id, "ImageChunk", tasks', wire'["R"], Got(iin', iout.id), Top(iout))
    BY <1>1, <1>2, <2>2, <2>3, BehindKept
  <2>5. QED
    BY <2>1, <2>4
<1>5. QED
  BY <1>3, <1>4 DEF PreviewFlows, SendsPreview

(* What does not change is kept. *)
LEMMA NoNewParts ==
  ASSUME NoNewData
  PROVE  NoNew(FileTypes) /\ NoNew(ImageTypes)
PROOF BY DEF NoNewData, NoNew, DataTypes

LEMMA OutStays ==
  ASSUME TInv, NoNew(FileTypes), out' = out
  PROVE  OutKept
PROOF
<1>1. CASE out.id = None
  BY <1>1 DEF OutKept
<1>2. CASE out.id # None
  <2>1. InFlight(out, FileTypes, FileType(out.phase), tasks')
    BY <1>2, StillInFlight, TypesOfChunks DEF TInv, SendsFile
  <2>2. QED
    BY <2>1 DEF OutKept
<1>3. QED
  BY <1>1, <1>2

LEMMA IoutStays ==
  ASSUME TInv, NoNew(ImageTypes), iout' = iout, crossed \subseteq crossed'
  PROVE  IoutKept
PROOF
<1>1. CASE iout.id \in crossed' \cup {None}
  BY <1>1 DEF IoutKept
<1>2. CASE iout.id \notin crossed' \cup {None}
  <2>1. InFlight(iout, ImageTypes, ImageType(iout.phase), tasks')
    BY <1>2, StillInFlight, TypesOfChunks DEF TInv, SendsPreview
  <2>2. QED
    BY <2>1 DEF IoutKept
<1>3. QED
  BY <1>1, <1>2

LEMMA OutSame ==
  ASSUME TInv, NoNewData, out' = out
  PROVE  OutKept
PROOF BY NoNewParts, OutStays

LEMMA IoutSame ==
  ASSUME TInv, NoNewData, iout' = iout, crossed \subseteq crossed'
  PROVE  IoutKept
PROOF BY NoNewParts, IoutStays

LEMMA GotSame ==
  ASSUME TInv
  PROVE  /\ inc' = inc => GotKept(inc, inc')
         /\ iin' = iin => GotKept(iin, iin')
         /\ \A j : j.got = <<>> => GotKept(inc, j) /\ GotKept(iin, j)
PROOF BY NothingGot DEF TInv, Holders, IncOK, IinOK, GotKept

(* One side of a step that moves only the other. *)
LEMMA FileSideKept ==
  ASSUME TInv, NoNew(FileTypes), FilesThin, out' = out, inc' = inc
  PROVE  FileFlows' /\ SendsFile'
PROOF BY FilesKept, OutStays, GotSame

LEMMA PreviewSideKept ==
  ASSUME TInv, NoNew(ImageTypes), PreviewsThin, iout' = iout, iin' = iin, crossed' = crossed
  PROVE  PreviewFlows' /\ SendsPreview'
PROOF BY PreviewsKept, IoutStays, GotSame

(* A sender that has nothing in flight may change its phase. *)
LEMMA NothingInFlight ==
  ASSUME TInv, NoNewData
  PROVE  /\ out.id # None /\ ~out.flight /\ out'.id = out.id =>
              \A k : InFlight(out', FileTypes, k, tasks')
         /\ iout.id # None /\ iout.id \notin crossed /\ ~iout.flight /\ iout'.id = iout.id =>
              \A k : InFlight(iout', ImageTypes, k, tasks')
PROOF
<1>1. ASSUME out.id # None, ~out.flight, out'.id = out.id, NEW k
      PROVE  InFlight(out', FileTypes, k, tasks')
  <2>1. \A t \in tasks : ~IsOf(t.frame, out.id, FileTypes)
    BY <1>1 DEF TInv, SendsFile, InFlight
  <2>2. QED
    BY <1>1, <2>1, TypesOfChunks DEF NoNewData, NoNew, InFlight, IsOf
<1>2. ASSUME iout.id # None, iout.id \notin crossed, ~iout.flight, iout'.id = iout.id, NEW k
      PROVE  InFlight(iout', ImageTypes, k, tasks')
  <2>1. \A t \in tasks : ~IsOf(t.frame, iout.id, ImageTypes)
    BY <1>2 DEF TInv, SendsPreview, InFlight
  <2>2. QED
    BY <1>2, <2>1, TypesOfChunks DEF NoNewData, NoNew, InFlight, IsOf
<1>3. QED
  BY <1>1, <1>2

-----------------------------------------------------------------------------
(* Parts of steps *)

LEMMA NewerTransfers ==
  ASSUME NEW us, NEW vs, us \subseteq vs
  PROVE  /\ \A T : TasksOK(T, us) => TasksOK(T, vs)
         /\ \A w : WireOK(w, us) => WireOK(w, vs)
         /\ \A o : (OutOK(o, us) => OutOK(o, vs)) /\ (IoutOK(o, us) => IoutOK(o, vs))
         /\ \A i : (IncOK(i, us) => IncOK(i, vs)) /\ (IinOK(i, us) => IinOK(i, vs))
         /\ \A q : SeriesOK(q, us) => SeriesOK(q, vs)
PROOF
<1>1. ASSUME NEW f, FrameOK(f, us) PROVE FrameOK(f, vs)
  BY <1>1 DEF FrameOK
<1>2. \A T : TasksOK(T, us) => TasksOK(T, vs)
  BY <1>1 DEF TasksOK
<1>3. \A w : WireOK(w, us) => WireOK(w, vs)
  BY <1>1 DEF WireOK
<1>4. \A o : OutOK(o, us) => OutOK(o, vs)
  BY DEF OutOK
<1>5. \A o : IoutOK(o, us) => IoutOK(o, vs)
  BY DEF IoutOK
<1>6. \A i : IncOK(i, us) => IncOK(i, vs)
  BY DEF IncOK
<1>7. \A i : IinOK(i, us) => IinOK(i, vs)
  BY DEF IinOK
<1>8. \A q : SeriesOK(q, us) => SeriesOK(q, vs)
  BY DEF SeriesOK
<1>9. QED
  BY <1>2, <1>3, <1>4, <1>5, <1>6, <1>7, <1>8

LEMMA TaskOfFrame ==
  ASSUME NEW e \in Ends, NEW f
  PROVE  /\ NewTask(e, f).frame = f /\ NewTask(e, f).st = "new" /\ NewTask(e, f).conn = conn
         /\ conn \in 1 .. MaxConns /\ f \in Frame => NewTask(e, f) \in Task
PROOF
<1> DEFINE t == [end |-> e, conn |-> conn, frame |-> f, st |-> "new", again |-> FALSE]
<1>1. NewTask(e, f) = IF t \in tasks THEN [t EXCEPT !.again = TRUE] ELSE t
  BY DEF NewTask
<1>2. CASE t \in tasks
  BY <1>1, <1>2 DEF Task
<1>3. CASE t \notin tasks
  BY <1>1, <1>3 DEF Task
<1>4. QED
  BY <1>2, <1>3

LEMMA SpawnStep ==
  ASSUME TInv, NEW e \in Ends, NEW f, FrameOK(f, used)
  PROVE  /\ TasksOK(Spawn(tasks, e, f), used)
         /\ TasksOK(tasks \cup {NewTask(e, f)}, used)
         /\ f.type \notin DataTypes =>
              \A t \in tasks \cup {NewTask(e, f)} : t \in tasks \/ t.frame.type \notin DataTypes
         /\ f.type \notin DataTypes =>
              \A t \in Spawn(tasks, e, f) : t \in tasks \/ t.frame.type \notin DataTypes
PROOF
<1>1. TasksOK(tasks, used) /\ conn \in 1 .. MaxConns /\ f \in Frame
  BY DEF TInv, Frames, Rest, FrameOK
<1>2. NewTask(e, f) \in Task /\ NewTask(e, f).frame = f
  BY <1>1, TaskOfFrame
<1>3. TasksOK(tasks \cup {NewTask(e, f)}, used)
  BY <1>1, <1>2 DEF TasksOK
<1>4. Spawn(tasks, e, f) \in {tasks, tasks \cup {NewTask(e, f)}}
  BY DEF Spawn
<1>5. QED
  BY <1>1, <1>2, <1>3, <1>4

LEMMA FewerTasks ==
  ASSUME TInv, tasks' \subseteq tasks
  PROVE  NoNewData /\ TasksOK(tasks', used)
PROOF BY DEF TInv, Frames, TasksOK, NoNewData, NoNew

LEMMA WireSame ==
  ASSUME TInv, wire' = wire
  PROVE  FilesThin /\ PreviewsThin /\ WireOK(wire', used)
PROOF
<1>1. wire["R"] \in Seq(Frame) /\ WireOK(wire, used)
  BY WireIsSeq DEF TInv, Frames
<1>2. QED
  BY <1>1, ThinsSame DEF FilesThin, PreviewsThin

LEMMA ReadStep ==
  ASSUME TInv, NEW e \in Ends, NEW f, Pops(e, f)
  PROVE  /\ WireOK(wire', used) /\ FilesThin /\ PreviewsThin /\ FrameOK(f, used)
         /\ e = "R" => wire["R"] # <<>> /\ f = Head(wire["R"]) /\ wire'["R"] = Tail(wire["R"])
PROOF
<1>1. /\ WireOK(wire, used) /\ wire["R"] \in Seq(Frame)
      /\ wire[e] \in Seq(Frame) /\ wire[e] # <<>> /\ f = wire[e][1] /\ 1 \in 1 .. Len(wire[e])
  BY WireIsSeq DEF TInv, Frames, Pops, WireOK
<1>2. wire \in [Ends -> Seq(Frame)] /\ wire' = [wire EXCEPT ![e] = Tail(wire[e])]
  BY DEF TInv, Frames, WireOK, Pops
<1>3. FrameOK(f, used)
  BY <1>1 DEF WireOK
<1>4. /\ Tail(wire[e]) \in Seq(Frame)
      /\ \A i \in 1 .. Len(Tail(wire[e])) : Tail(wire[e])[i] = wire[e][i + 1]
                                            /\ i + 1 \in 1 .. Len(wire[e])
  BY <1>1
<1>5. /\ wire' \in [Ends -> Seq(Frame)] /\ wire'[e] = Tail(wire[e])
      /\ \A d \in Ends : d # e => wire'[d] = wire[d]
  BY <1>2, <1>4
<1>6. ASSUME NEW d \in Ends, NEW i \in 1 .. Len(wire'[d])
      PROVE  FrameOK(wire'[d][i], used)
  <2>1. CASE d = e
    BY <1>1, <1>4, <1>5, <2>1 DEF WireOK
  <2>2. CASE d # e
    BY <1>1, <1>5, <2>2 DEF WireOK
  <2>3. QED
    BY <2>1, <2>2
<1>7. WireOK(wire', used)
  BY <1>5, <1>6 DEF WireOK
<1>8. wire'["R"] \in {wire["R"], Tail(wire["R"])} /\ wire'["R"] \in Seq(Frame)
      /\ (wire'["R"] # wire["R"] => wire["R"] # <<>>)
  BY <1>1, <1>5 DEF Ends
<1>9. ASSUME NEW x, NEW c PROVE Thins(wire["R"], wire'["R"], x, c)
  BY <1>1, <1>8, ThinsSame, ThinsTail
<1>10. QED
  BY <1>3, <1>5, <1>7, <1>8, <1>9 DEF FilesThin, PreviewsThin, Pops

LEMMA RestSame ==
  ASSUME TInv,
         UNCHANGED <<conn, live, osend, series, pend, shared, cached, bubble, dropped, used>>
  PROVE  Rest' /\ IsFiniteSet(used')
PROOF BY DEF TInv, Rest

LEMMA KeptSame ==
  ASSUME TInv, kept' = kept, crossed \subseteq crossed'
  PROVE  ReceivedWhole'
PROOF BY DEF TInv, ReceivedWhole

LEMMA QuietStep ==
  ASSUME TInv, (Rest /\ IsFiniteSet(used))', WireOK(wire', used'), TasksOK(tasks', used'),
         Holders', NoNewData, FilesThin, PreviewsThin, GotKept(inc, inc'), GotKept(iin, iin'),
         OutKept, IoutKept, crossed \subseteq crossed', ReceivedWhole'
  PROVE  TInv'
PROOF
<1>1. FileFlows' /\ SendsFile'
  BY FilesKept, NoNewParts
<1>2. PreviewFlows' /\ SendsPreview'
  BY PreviewsKept, NoNewParts
<1>3. Frames'
  BY DEF Frames
<1>4. QED
  BY <1>1, <1>2, <1>3 DEF TInv

-----------------------------------------------------------------------------
(* Steps of the connection *)

LEMMA HoldersSame ==
  ASSUME TInv, UNCHANGED <<out, iout, inc, iin, used>>
  PROVE  Holders'
PROOF BY DEF TInv, Holders

LEMMA IdleHolders ==
  ASSUME NEW us
  PROVE  OutOK(NoOut, us) /\ IoutOK(NoOut, us) /\ IncOK(NoInc, us) /\ IinOK(NoImage, us)
PROOF
<1>1. Top(NoOut) = 0 /\ 0 \in 0 .. Chunks
  BY TransferAssumption DEF Top, NoOut
<1>2. OutOK(NoOut, us)
  BY <1>1 DEF OutOK, NoOut
<1>3. IoutOK(NoOut, us)
  BY DEF IoutOK, NoOut
<1>4. Len(<<>>) = 0 /\ <<>> \in Seq(Frame) /\ 0 <= Chunks
  BY TransferAssumption
<1>5. IncOK(NoInc, us) /\ IinOK(NoImage, us)
  BY <1>4 DEF IncOK, IinOK, NoInc, NoImage
<1>6. QED
  BY <1>2, <1>3, <1>5

LEMMA IdleGot ==
  /\ \A i : GotKept(i, NoInc) /\ GotKept(i, NoImage)
  /\ NoOut.id = None
PROOF BY NothingGot DEF GotKept, NoInc, NoImage, NoOut

LEMMA DisconnectStep ==
  ASSUME TInv, NEW e \in Ends, Disconnect(e)
  PROVE  TInv'
PROOF
<1>1. UNCHANGED <<conn, wire, tasks, out, inc, iout, crossed, iin, used, kept, osend, series,
                  pend, shared, cached, bubble, dropped>>
  BY DEF Disconnect, fileVars, previewVars
<1>2. live' = [live EXCEPT ![e] = "off"]
  BY DEF Disconnect
<1>3. (Rest /\ IsFiniteSet(used))'
  BY <1>1, <1>2 DEF TInv, Rest
<1>4. NoNewData /\ TasksOK(tasks', used') /\ FilesThin /\ PreviewsThin /\ WireOK(wire', used')
  BY <1>1, FewerTasks, WireSame
<1>5. Holders' /\ ReceivedWhole' /\ GotKept(inc, inc') /\ GotKept(iin, iin')
  BY <1>1, HoldersSame, KeptSame, GotSame
<1>6. OutKept /\ IoutKept
  BY <1>1, <1>4, OutSame, IoutSame
<1>7. QED
  BY <1>1, <1>3, <1>4, <1>5, <1>6, QuietStep

LEMMA InterruptedStep ==
  ASSUME TInv, NEW e \in Ends, NEW silent, Interrupted(e, silent)
  PROVE  TInv'
PROOF
<1>1. UNCHANGED <<conn, wire, tasks, crossed, used, kept, osend, series, pend, shared,
                  cached, bubble, dropped>>
  BY DEF Interrupted
<1>2. live' = [live EXCEPT ![e] = "off"]
  BY DEF Interrupted
<1>3. /\ (out' = out /\ iout' = iout) \/ (out' = NoOut /\ iout' = NoOut)
      /\ (inc' = inc /\ iin' = iin) \/ (inc' = NoInc /\ iin' = NoImage)
  BY DEF Interrupted
<1>4. (Rest /\ IsFiniteSet(used))'
  BY <1>1, <1>2 DEF TInv, Rest
<1>5. NoNewData /\ TasksOK(tasks', used') /\ FilesThin /\ PreviewsThin /\ WireOK(wire', used')
  BY <1>1, FewerTasks, WireSame
<1>6. Holders'
  BY <1>1, <1>3, IdleHolders DEF TInv, Holders
<1>7. ReceivedWhole'
  BY <1>1, KeptSame
<1>8. GotKept(inc, inc') /\ GotKept(iin, iin')
  BY <1>3, GotSame DEF NoInc, NoImage
<1>9. OutKept
  BY <1>3, <1>5, OutSame DEF OutKept, NoOut
<1>10. IoutKept
  BY <1>1, <1>3, <1>5, IoutSame DEF IoutKept, NoOut
<1>11. QED
  BY <1>1, <1>4, <1>5, <1>6, <1>7, <1>8, <1>9, <1>10, QuietStep

LEMMA ReconnectStep ==
  ASSUME TInv, Reconnect
  PROVE  TInv'
PROOF
<1>1. /\ UNCHANGED <<tasks, out, inc, iout, crossed, iin, used, kept, osend, series,
                     pend, shared, cached, bubble, dropped>>
      /\ conn < MaxConns /\ conn' = conn + 1
      /\ live' = [e \in Ends |-> "shaking"] /\ wire' = [e \in Ends |-> <<>>]
  BY DEF Reconnect, fileVars, imageVars, previewVars, originalVars
<1>2. (Rest /\ IsFiniteSet(used))'
  BY <1>1, TransferAssumption DEF TInv, Rest
<1>3. NoNewData /\ TasksOK(tasks', used')
  BY <1>1, FewerTasks
<1>4. WireOK(wire', used')
  BY <1>1 DEF WireOK
<1>5. wire'["R"] = <<>> /\ <<>> \in Seq(Frame)
  BY <1>1 DEF Ends
<1>6. FilesThin /\ PreviewsThin
  BY <1>5, ThinsNil DEF FilesThin, PreviewsThin
<1>7. Holders' /\ ReceivedWhole' /\ GotKept(inc, inc') /\ GotKept(iin, iin')
  BY <1>1, HoldersSame, KeptSame, GotSame
<1>8. OutKept /\ IoutKept
  BY <1>1, <1>3, OutSame, IoutSame
<1>9. QED
  BY <1>1, <1>2, <1>3, <1>4, <1>6, <1>7, <1>8, QuietStep

LEMMA KeysReadyStep ==
  ASSUME TInv, NEW e \in Ends, KeysReady(e)
  PROVE  TInv'
PROOF
<1>1. UNCHANGED <<conn, wire, tasks, out, inc, iout, crossed, iin, used, kept, osend, series,
                  pend, shared, cached, bubble, dropped>>
  BY DEF KeysReady, fileVars, imageVars, previewVars, originalVars
<1>2. live' = [live EXCEPT ![e] = "ready"]
  BY DEF KeysReady
<1>3. (Rest /\ IsFiniteSet(used))'
  BY <1>1, <1>2 DEF TInv, Rest
<1>4. NoNewData /\ TasksOK(tasks', used') /\ FilesThin /\ PreviewsThin /\ WireOK(wire', used')
  BY <1>1, FewerTasks, WireSame
<1>5. Holders' /\ ReceivedWhole' /\ GotKept(inc, inc') /\ GotKept(iin, iin')
  BY <1>1, HoldersSame, KeptSame, GotSame
<1>6. OutKept /\ IoutKept
  BY <1>1, <1>4, OutSame, IoutSame
<1>7. QED
  BY <1>1, <1>3, <1>4, <1>5, <1>6, QuietStep

LEMMA LeavesCacheStep ==
  ASSUME TInv, NEW m, LeavesCache(m)
  PROVE  TInv'
PROOF
<1>1. /\ UNCHANGED <<conn, live, wire, tasks, out, inc, iout, crossed, iin, used, kept, osend,
                     series, pend, cached, bubble, dropped>>
      /\ shared' = shared \ {m}
  BY DEF LeavesCache, linkVars, fileVars, previewVars, originalVars
<1>2. (Rest /\ IsFiniteSet(used))'
  BY <1>1 DEF TInv, Rest
<1>3. NoNewData /\ TasksOK(tasks', used') /\ FilesThin /\ PreviewsThin /\ WireOK(wire', used')
  BY <1>1, FewerTasks, WireSame
<1>4. Holders' /\ ReceivedWhole' /\ GotKept(inc, inc') /\ GotKept(iin, iin')
  BY <1>1, HoldersSame, KeptSame, GotSame
<1>5. OutKept /\ IoutKept
  BY <1>1, <1>3, OutSame, IoutSame
<1>6. QED
  BY <1>1, <1>2, <1>3, <1>4, <1>5, QuietStep

-----------------------------------------------------------------------------
(* Steps of files *)

(* A step of a file that adds no chunk. *)
LEMMA FileStep ==
  ASSUME TInv, UNCHANGED <<linkVars, imageVars, used, kept>>, WireOK(wire', used),
         TasksOK(tasks', used), OutOK(out', used), IncOK(inc', used),
         NoNewData, FilesThin, PreviewsThin, GotKept(inc, inc'), OutKept
  PROVE  TInv'
PROOF
<1>1. UNCHANGED <<conn, live, iout, crossed, iin, used, kept, osend, series, pend, shared,
                  cached, bubble, dropped>>
  BY DEF linkVars, imageVars, previewVars, originalVars
<1>2. (Rest /\ IsFiniteSet(used))'
  BY <1>1, RestSame
<1>3. Holders'
  BY <1>1 DEF TInv, Holders
<1>4. ReceivedWhole' /\ GotKept(iin, iin') /\ IoutKept
  BY <1>1, KeptSame, GotSame, IoutSame
<1>5. QED
  BY <1>1, <1>2, <1>3, <1>4, QuietStep

(* A frame that carries no data. *)
LEMMA PlainFrame ==
  ASSUME NEW x \in FileId \cup ImageId \cup {None}, NEW k,
         k \in {"Accept", "Decline", "Cancel", "Unavailable", "CancelImage"}
  PROVE  F(k, x).type \notin DataTypes /\ \A us : FrameOK(F(k, x), us)
PROOF
<1>1. F(k, x) = [type |-> k, id |-> x, n |-> 0] /\ 0 \in 0 .. Chunks
  BY TransferAssumption DEF F
<1>2. F(k, x) \in Frame
  BY <1>1 DEF Frame
<1>3. QED
  BY <1>1, <1>2 DEF FrameOK, DataTypes, FileTypes, ImageTypes

LEMMA PlainSpawn ==
  ASSUME TInv, NEW e \in Ends, NEW x \in FileId \cup ImageId \cup {None}, NEW k,
         k \in {"Accept", "Decline", "Cancel", "Unavailable", "CancelImage"},
         tasks' = Spawn(tasks, e, F(k, x))
  PROVE  NoNewData /\ TasksOK(tasks', used)
PROOF
<1>1. F(k, x).type \notin DataTypes /\ FrameOK(F(k, x), used)
  BY PlainFrame
<1>2. QED
  BY <1>1, SpawnStep DEF NoNewData, NoNew

LEMMA HoldersNow ==
  ASSUME TInv
  PROVE  /\ OutOK(out, used) /\ IoutOK(iout, used) /\ IncOK(inc, used) /\ IinOK(iin, used)
         /\ out.id \in FileId \cup ImageId \cup {None}
         /\ inc.id \in FileId \cup ImageId \cup {None}
         /\ iin.id \in FileId \cup ImageId \cup {None}
         /\ \A t \in tasks : FrameOK(t.frame, used) /\ t.frame \in Frame
PROOF BY DEF TInv, Holders, OutOK, IncOK, IinOK, Frames, TasksOK, FrameOK

LEMMA FileSentOut ==
  ASSUME TInv, NEW t \in tasks, FileSent(t), t.frame.id = out.id, t.st # "err",
         t.frame.type # "End"
  PROVE  OutOK(out', used) /\ OutKept
PROOF
<1>1. out.id # None /\ IsOf(t.frame, out.id, FileTypes) /\ out.id \in FileId
  <2>1. t.frame.type \in FileTypes
    BY DEF FileSent, FileTypes
  <2>2. t.frame.id \in FileId
    BY <2>1, HoldersNow DEF FrameOK
  <2>3. QED
    BY <2>1, <2>2, NoneIsNoId DEF IsOf
<1>2. out.flight /\ t.frame.type = FileType(out.phase)
  BY <1>1 DEF TInv, SendsFile, InFlight
<1>3. \A u \in tasks' : ~IsOf(u.frame, out.id, FileTypes)
  BY <1>1 DEF TInv, FileFlows, Flow, Single, FileSent
<1>4. OutOK(out, used)
  BY HoldersNow
<1>5. CASE t.frame.type = "Offer"
  <2>1. out' = [out EXCEPT !.flight = FALSE, !.phase = "Await"]
    BY <1>5 DEF FileSent
  <2>2. out.phase = "Offer"
    BY <1>2, <1>5 DEF FileType
  <2>3. /\ out'.id = out.id /\ out'.phase = "Await" /\ out'.flight = FALSE
        /\ out'.sent = out.sent /\ out'.next = out.next
    BY <1>4, <2>1 DEF OutOK
  <2>4. out.sent = 0
    BY <1>4, <2>2 DEF OutOK
  <2>5. Top(out) = 0 /\ Top(out') = 0
    BY <2>2, <2>3, <2>4 DEF Top
  <2>6. out' \in [id : FileId \cup {None}, phase : {"Idle", "Offer", "Await", "Chunks", "End"},
                  next : 0 .. Chunks, sent : 0 .. Chunks, flight : BOOLEAN]
    BY <1>4, <2>1 DEF OutOK
  <2>7. OutOK(out', used)
    BY <1>1, <1>4, <2>3, <2>4, <2>5, <2>6 DEF OutOK
  <2>8. QED
    BY <1>3, <2>3, <2>5, <2>7 DEF OutKept, InFlight
<1>6. CASE t.frame.type = "Chunk"
  <2>1. out' = [out EXCEPT !.flight = FALSE, !.sent = out.sent + 1,
                    !.phase = IF out.sent + 1 >= Chunks THEN "End" ELSE "Chunks"]
    BY <1>6 DEF FileSent
  <2>2. out.phase = "Chunks"
    BY <1>2, <1>6 DEF FileType
  <2>3. /\ out'.id = out.id /\ out'.flight = FALSE
        /\ out'.phase = IF out.sent + 1 >= Chunks THEN "End" ELSE "Chunks"
        /\ out'.sent = out.sent + 1 /\ out'.next = out.next
    BY <1>4, <2>1 DEF OutOK
  <2>4. out.sent \in Nat /\ out.sent < Chunks /\ Chunks \in Nat
    BY <1>4, <2>2, TransferAssumption DEF OutOK
  <2>5. Top(out) = out.sent + 1 /\ Top(out') = out.sent + 1
    BY <1>2, <2>2, <2>3, <2>4 DEF Top
  <2>6. out.sent + 1 \in 0 .. Chunks
    BY <2>4
  <2>7. out' \in [id : FileId \cup {None}, phase : {"Idle", "Offer", "Await", "Chunks", "End"},
                  next : 0 .. Chunks, sent : 0 .. Chunks, flight : BOOLEAN]
    BY <1>4, <2>1, <2>6 DEF OutOK
  <2>8. out'.phase \in {"Chunks", "End"} /\ (out'.phase = "Chunks" => out'.sent < Chunks)
    BY <2>3, <2>4
  <2>9. OutOK(out', used)
    BY <1>1, <1>4, <2>3, <2>5, <2>7, <2>8 DEF OutOK
  <2>10. QED
    BY <1>3, <2>3, <2>5, <2>9 DEF OutKept, InFlight
<1>7. QED
  BY <1>5, <1>6 DEF FileSent

LEMMA FileSentStep ==
  ASSUME TInv, NEW t \in tasks, FileSent(t)
  PROVE  TInv'
PROOF
<1>1. /\ UNCHANGED <<linkVars, imageVars, used, kept, inc>> /\ wire' = wire
      /\ tasks' = tasks \ {t}
  BY DEF FileSent
<1>2. NoNewData /\ TasksOK(tasks', used) /\ FilesThin /\ PreviewsThin /\ WireOK(wire', used)
  BY <1>1, FewerTasks, WireSame
<1>3. IncOK(inc', used) /\ GotKept(inc, inc')
  BY <1>1, HoldersNow, GotSame
<1>4. OutOK(out', used) /\ OutKept
  <2>1. CASE t.frame.id # out.id
    <3>1. out' = out
      BY <2>1 DEF FileSent
    <3>2. QED
      BY <1>2, <3>1, HoldersNow, OutSame
  <2>2. CASE t.frame.id = out.id /\ (t.st = "err" \/ t.frame.type = "End")
    <3>1. out' = NoOut
      BY <2>2 DEF FileSent
    <3>2. QED
      BY <3>1, IdleHolders DEF OutKept, NoOut
  <2>3. QED
    BY <2>1, <2>2, FileSentOut
<1>5. QED
  BY <1>1, <1>2, <1>3, <1>4, FileStep

LEMMA OfferExpiresStep ==
  ASSUME TInv, OfferExpires
  PROVE  TInv'
PROOF
<1>1. /\ UNCHANGED <<linkVars, imageVars, used, kept, inc>> /\ wire' = wire /\ out' = NoOut
      /\ tasks' = Spawn(tasks, "S", F("Cancel", out.id))
  BY DEF OfferExpires
<1>2. NoNewData /\ TasksOK(tasks', used)
  BY <1>1, PlainSpawn, HoldersNow DEF Ends
<1>3. FilesThin /\ PreviewsThin /\ WireOK(wire', used)
  BY <1>1, WireSame
<1>4. IncOK(inc', used) /\ GotKept(inc, inc') /\ OutOK(out', used) /\ OutKept
  BY <1>1, HoldersNow, GotSame, IdleHolders DEF OutKept, NoOut
<1>5. QED
  BY <1>1, <1>2, <1>3, <1>4, FileStep

LEMMA IncomingOfferExpiresStep ==
  ASSUME TInv, IncomingOfferExpires
  PROVE  TInv'
PROOF
<1>1. /\ UNCHANGED <<linkVars, imageVars, used, kept, out>> /\ wire' = wire /\ inc' = NoInc
      /\ tasks' = Spawn(tasks, "R", F("Decline", inc.id))
  BY DEF IncomingOfferExpires
<1>2. NoNewData /\ TasksOK(tasks', used)
  BY <1>1, PlainSpawn, HoldersNow DEF Ends
<1>3. FilesThin /\ PreviewsThin /\ WireOK(wire', used)
  BY <1>1, WireSame
<1>4. IncOK(inc', used) /\ GotKept(inc, inc') /\ OutOK(out', used) /\ OutKept
  BY <1>1, <1>2, HoldersNow, GotSame, IdleHolders, IdleGot, OutSame
<1>5. QED
  BY <1>1, <1>2, <1>3, <1>4, FileStep

LEMMA AcceptIncomingFileStep ==
  ASSUME TInv, AcceptIncomingFile
  PROVE  TInv'
PROOF
<1>1. /\ UNCHANGED <<linkVars, imageVars, used, kept, out>> /\ wire' = wire
      /\ inc' \in {NoInc, [inc EXCEPT !.open = TRUE]}
      /\ tasks' = Spawn(tasks, "R", F("Accept", inc.id))
  BY DEF AcceptIncomingFile
<1>2. NoNewData /\ TasksOK(tasks', used)
  BY <1>1, PlainSpawn, HoldersNow DEF Ends
<1>3. FilesThin /\ PreviewsThin /\ WireOK(wire', used)
  BY <1>1, WireSame
<1>4. IncOK(inc', used) /\ GotKept(inc, inc')
  <2>1. IncOK(inc, used)
    BY HoldersNow
  <2>2. CASE inc' = NoInc
    BY <2>2, GotSame, IdleHolders, IdleGot
  <2>3. CASE inc' = [inc EXCEPT !.open = TRUE]
    <3>1. inc'.id = inc.id /\ inc'.got = inc.got /\ inc.got \in Seq(Frame)
      BY <2>1, <2>3 DEF IncOK
    <3>2. inc' \in [id : FileId \cup {None}, open : BOOLEAN, got : Seq(Frame)]
      BY <2>1, <2>3 DEF IncOK
    <3>3. QED
      BY <2>1, <3>1, <3>2 DEF IncOK, GotKept
  <2>4. QED
    BY <1>1, <2>2, <2>3
<1>5. OutOK(out', used) /\ OutKept
  BY <1>1, <1>2, HoldersNow, OutSame
<1>6. QED
  BY <1>1, <1>2, <1>3, <1>4, <1>5, FileStep

LEMMA IncomingFileAcceptSentStep ==
  ASSUME TInv, NEW t \in tasks, IncomingFileAcceptSent(t)
  PROVE  TInv'
PROOF
<1>1. /\ UNCHANGED <<linkVars, imageVars, used, kept, out>> /\ wire' = wire
      /\ inc' \in {NoInc, inc} /\ tasks' = tasks \ {t}
  BY DEF IncomingFileAcceptSent
<1>2. NoNewData /\ TasksOK(tasks', used) /\ FilesThin /\ PreviewsThin /\ WireOK(wire', used)
  BY <1>1, FewerTasks, WireSame
<1>3. IncOK(inc', used) /\ GotKept(inc, inc')
  BY <1>1, HoldersNow, GotSame, IdleHolders, IdleGot
<1>4. OutOK(out', used) /\ OutKept
  BY <1>1, <1>2, HoldersNow, OutSame
<1>5. QED
  BY <1>1, <1>2, <1>3, <1>4, FileStep

LEMMA CancelIncomingFileStep ==
  ASSUME TInv, CancelIncomingFile
  PROVE  TInv'
PROOF
<1>1. /\ UNCHANGED <<linkVars, imageVars, used, kept, out>> /\ wire' = wire /\ inc' = NoInc
  BY DEF CancelIncomingFile
<1>2. PICK k \in {"Cancel", "Decline"} : tasks' = Spawn(tasks, "R", F(k, inc.id))
  BY DEF CancelIncomingFile
<1>3. NoNewData /\ TasksOK(tasks', used)
  BY <1>2, PlainSpawn, HoldersNow DEF Ends
<1>4. FilesThin /\ PreviewsThin /\ WireOK(wire', used)
  BY <1>1, WireSame
<1>5. IncOK(inc', used) /\ GotKept(inc, inc') /\ OutOK(out', used) /\ OutKept
  BY <1>1, <1>3, HoldersNow, GotSame, IdleHolders, IdleGot, OutSame
<1>6. QED
  BY <1>1, <1>3, <1>4, <1>5, FileStep

LEMMA CancelOutgoingFileStep ==
  ASSUME TInv, CancelOutgoingFile
  PROVE  TInv'
PROOF
<1>1. /\ UNCHANGED <<linkVars, imageVars, used, kept, inc>> /\ wire' = wire /\ out' = NoOut
      /\ tasks' = Spawn(tasks, "S", F("Cancel", out.id))
  BY DEF CancelOutgoingFile
<1>2. NoNewData /\ TasksOK(tasks', used)
  BY <1>1, PlainSpawn, HoldersNow DEF Ends
<1>3. FilesThin /\ PreviewsThin /\ WireOK(wire', used)
  BY <1>1, WireSame
<1>4. IncOK(inc', used) /\ GotKept(inc, inc') /\ OutOK(out', used) /\ OutKept
  BY <1>1, HoldersNow, GotSame, IdleHolders DEF OutKept, NoOut
<1>5. QED
  BY <1>1, <1>2, <1>3, <1>4, FileStep

LEMMA FileEndsEarlyStep ==
  ASSUME TInv, FileEndsEarly
  PROVE  TInv'
PROOF
<1>1. /\ UNCHANGED <<linkVars, imageVars, used, kept, inc>> /\ wire' = wire /\ tasks' = tasks
      /\ out.phase = "Chunks" /\ ~out.flight /\ out' = [out EXCEPT !.phase = "End"]
  BY DEF FileEndsEarly
<1>2. NoNewData /\ TasksOK(tasks', used) /\ FilesThin /\ PreviewsThin /\ WireOK(wire', used)
  BY <1>1, FewerTasks, WireSame
<1>3. IncOK(inc', used) /\ GotKept(inc, inc') /\ OutOK(out, used)
  BY <1>1, HoldersNow, GotSame
<1>4. /\ out'.id = out.id /\ out'.phase = "End" /\ out'.flight = out.flight
      /\ out'.sent = out.sent /\ out'.next = out.next /\ out.id # None /\ out.sent \in Nat
      /\ out' \in [id : FileId \cup {None}, phase : {"Idle", "Offer", "Await", "Chunks", "End"},
                   next : 0 .. Chunks, sent : 0 .. Chunks, flight : BOOLEAN]
  BY <1>1, <1>3 DEF OutOK
<1>5. Top(out') = Top(out)
  BY <1>1, <1>4 DEF Top
<1>6. OutOK(out', used)
  BY <1>3, <1>4, <1>5 DEF OutOK
<1>7. OutKept
  BY <1>1, <1>2, <1>4, <1>5, NothingInFlight DEF OutKept
<1>8. QED
  BY <1>1, <1>2, <1>3, <1>6, <1>7, FileStep

LEMMA FileReadFailsStep ==
  ASSUME TInv, FileReadFails
  PROVE  TInv'
PROOF
<1>1. /\ UNCHANGED <<linkVars, imageVars, used, kept, inc>> /\ wire' = wire /\ tasks' = tasks
      /\ out' = NoOut
  BY DEF FileReadFails
<1>2. NoNewData /\ TasksOK(tasks', used) /\ FilesThin /\ PreviewsThin /\ WireOK(wire', used)
  BY <1>1, FewerTasks, WireSame
<1>3. IncOK(inc', used) /\ GotKept(inc, inc') /\ OutOK(out', used) /\ OutKept
  BY <1>1, HoldersNow, GotSame, IdleHolders DEF OutKept, NoOut
<1>4. QED
  BY <1>1, <1>2, <1>3, FileStep

LEMMA ReadOfferStep ==
  ASSUME TInv, NEW f, ReadOffer(f)
  PROVE  TInv'
PROOF
<1>1. /\ UNCHANGED <<linkVars, imageVars, used, kept, out>> /\ Pops("R", f) /\ f.type = "Offer"
      /\ \/ inc' = inc /\ tasks' = Spawn(tasks, "R", F("Decline", f.id))
         \/ inc' = [NoInc EXCEPT !.id = f.id] /\ tasks' = tasks
  BY DEF ReadOffer
<1>2. WireOK(wire', used) /\ FilesThin /\ PreviewsThin /\ FrameOK(f, used)
  BY <1>1, ReadStep DEF Ends
<1>3. f.id \in FileId \cap used
  BY <1>1, <1>2 DEF FrameOK, FileTypes
<1>4. NoNewData /\ TasksOK(tasks', used)
  <2>1. CASE tasks' = Spawn(tasks, "R", F("Decline", f.id))
    BY <1>3, <2>1, PlainSpawn DEF Ends
  <2>2. CASE tasks' = tasks
    BY <2>2, FewerTasks
  <2>3. QED
    BY <1>1, <2>1, <2>2
<1>5. IncOK(inc', used) /\ GotKept(inc, inc')
  <2>1. CASE inc' = inc
    BY <2>1, HoldersNow, GotSame
  <2>2. CASE inc' = [NoInc EXCEPT !.id = f.id]
    <3>1. inc' = [id |-> f.id, open |-> FALSE, got |-> <<>>]
      BY <2>2 DEF NoInc
    <3>2. <<>> \in Seq(Frame) /\ Len(<<>>) <= Chunks /\ Len(<<>>) = 0
      BY TransferAssumption
    <3>3. QED
      BY <1>3, <3>1, <3>2, GotSame DEF IncOK
  <2>3. QED
    BY <1>1, <2>1, <2>2
<1>6. OutOK(out', used) /\ OutKept
  BY <1>1, <1>4, HoldersNow, OutSame
<1>7. QED
  BY <1>1, <1>2, <1>4, <1>5, <1>6, FileStep

LEMMA ReadFileAnswerStep ==
  ASSUME TInv, NEW f, ReadFileAnswer(f)
  PROVE  TInv'
PROOF
<1>1. /\ UNCHANGED <<linkVars, imageVars, used, kept, inc>> /\ Pops("S", f) /\ tasks' = tasks
      /\ \/ out' \in {out, NoOut}
         \/ out.phase = "Await" /\ out' = [out EXCEPT !.phase = "Chunks"]
  BY DEF ReadFileAnswer
<1>2. WireOK(wire', used) /\ FilesThin /\ PreviewsThin
  BY <1>1, ReadStep DEF Ends
<1>3. NoNewData /\ TasksOK(tasks', used)
  BY <1>1, FewerTasks
<1>4. IncOK(inc', used) /\ GotKept(inc, inc') /\ OutOK(out, used)
  BY <1>1, HoldersNow, GotSame
<1>5. OutOK(out', used) /\ OutKept
  <2>1. CASE out' = out
    BY <1>3, <1>4, <2>1, OutSame
  <2>2. CASE out' = NoOut
    BY <2>2, IdleHolders DEF OutKept, NoOut
  <2>3. CASE out.phase = "Await" /\ out' = [out EXCEPT !.phase = "Chunks"]
    <3>1. /\ out'.id = out.id /\ out'.phase = "Chunks" /\ out'.flight = out.flight
          /\ out'.sent = out.sent /\ out'.next = out.next /\ out.id # None
          /\ out.sent = 0 /\ ~out.flight
          /\ out' \in [id : FileId \cup {None},
                       phase : {"Idle", "Offer", "Await", "Chunks", "End"},
                       next : 0 .. Chunks, sent : 0 .. Chunks, flight : BOOLEAN]
      BY <1>4, <2>3 DEF OutOK
    <3>2. Top(out') = Top(out) /\ 0 < Chunks
      BY <2>3, <3>1, TransferAssumption DEF Top
    <3>3. OutOK(out', used)
      BY <1>4, <3>1, <3>2 DEF OutOK
    <3>4. QED
      BY <1>3, <3>1, <3>2, <3>3, NothingInFlight DEF OutKept
  <2>4. QED
    BY <1>1, <2>1, <2>2, <2>3
<1>6. QED
  BY <1>1, <1>2, <1>3, <1>4, <1>5, FileStep

LEMMA ReadFileCancelStep ==
  ASSUME TInv, NEW f, ReadFileCancel(f)
  PROVE  TInv'
PROOF
<1>1. /\ UNCHANGED <<linkVars, imageVars, used, kept, out>> /\ Pops("R", f) /\ tasks' = tasks
      /\ inc' \in {NoInc, inc}
  BY DEF ReadFileCancel
<1>2. WireOK(wire', used) /\ FilesThin /\ PreviewsThin
  BY <1>1, ReadStep DEF Ends
<1>3. NoNewData /\ TasksOK(tasks', used)
  BY <1>1, FewerTasks
<1>4. IncOK(inc', used) /\ GotKept(inc, inc') /\ OutOK(out', used) /\ OutKept
  BY <1>1, <1>3, HoldersNow, GotSame, IdleHolders, IdleGot, OutSame
<1>5. QED
  BY <1>1, <1>2, <1>3, <1>4, FileStep

-----------------------------------------------------------------------------
(* Steps of files that send or receive a chunk *)

LEMMA FileSideStep ==
  ASSUME TInv, UNCHANGED <<linkVars, imageVars, used, kept>>, WireOK(wire', used),
         TasksOK(tasks', used), OutOK(out', used), IncOK(inc', used),
         NoNew(ImageTypes), PreviewsThin, FileFlows', SendsFile'
  PROVE  TInv'
PROOF
<1>1. UNCHANGED <<conn, live, iout, crossed, iin, used, kept, osend, series, pend, shared,
                  cached, bubble, dropped>>
  BY DEF linkVars, imageVars, previewVars, originalVars
<1>2. (Rest /\ IsFiniteSet(used))'
  BY <1>1, RestSame
<1>3. Holders' /\ Frames'
  BY <1>1 DEF TInv, Holders, Frames
<1>4. ReceivedWhole' /\ PreviewFlows' /\ SendsPreview'
  BY <1>1, KeptSame, PreviewSideKept
<1>5. QED
  BY <1>2, <1>3, <1>4 DEF TInv

LEMMA UnusedTransfer ==
  ASSUME TInv, NEW x, x \notin used
  PROVE  /\ x \in FileId => Behind(x, "Chunk", tasks, wire["R"], Got(inc, x), 0)
         /\ x \in FileId => \A t \in tasks : ~IsOf(t.frame, x, FileTypes)
         /\ x \in ImageId => Behind(x, "ImageChunk", tasks, wire["R"], Got(iin, x), 0)
         /\ x \in ImageId => \A t \in tasks : ~IsOf(t.frame, x, ImageTypes)
PROOF
<1>1. /\ \A t \in tasks : FrameOK(t.frame, used)
      /\ \A i \in 1 .. Len(wire["R"]) : FrameOK(wire["R"][i], used)
      /\ IncOK(inc, used) /\ IinOK(iin, used)
  BY DEF TInv, Frames, TasksOK, WireOK, Holders, Ends
<1>2. Reach(<<>>) = 0
  BY DEF Reach
<1>3. ASSUME x \in FileId
      PROVE  /\ Behind(x, "Chunk", tasks, wire["R"], Got(inc, x), 0)
             /\ \A t \in tasks : ~IsOf(t.frame, x, FileTypes)
  <2>1. \A us : \A f : FrameOK(f, us) /\ IsOf(f, x, FileTypes) => x \in us
    BY DEF FrameOK, IsOf
  <2>2. \A f : IsChunk(f, x, "Chunk") => IsOf(f, x, FileTypes)
    BY DEF IsChunk, IsOf, FileTypes
  <2>3. Got(inc, x) = <<>>
    BY <1>1, <1>3, NoneIsNoId DEF Got, IncOK
  <2>4. QED
    BY <1>1, <1>2, <2>1, <2>2, <2>3 DEF Behind
<1>4. ASSUME x \in ImageId
      PROVE  /\ Behind(x, "ImageChunk", tasks, wire["R"], Got(iin, x), 0)
             /\ \A t \in tasks : ~IsOf(t.frame, x, ImageTypes)
  <2>1. \A us : \A f : FrameOK(f, us) /\ IsOf(f, x, ImageTypes) => x \in us
    BY <1>4, NoneIsNoId DEF FrameOK, IsOf, ImageTypes
  <2>2. \A f : IsChunk(f, x, "ImageChunk") => IsOf(f, x, ImageTypes)
    BY DEF IsChunk, IsOf, ImageTypes
  <2>3. Got(iin, x) = <<>>
    BY <1>1, <1>4, NoneIsNoId DEF Got, IinOK
  <2>4. QED
    BY <1>1, <1>2, <2>1, <2>2, <2>3 DEF Behind
<1>5. QED
  BY <1>3, <1>4

LEMMA FileChosenStep ==
  ASSUME TInv, NEW f \in Files, FileChosen(f)
  PROVE  TInv'
PROOF
<1> DEFINE x == <<f, 0>>
<1>1. /\ UNCHANGED <<conn, live, wire, tasks, inc, iout, crossed, iin, kept, osend, series,
                     pend, shared, cached, bubble, dropped>>
      /\ used' = used \cup {x} /\ x \notin used
      /\ out' = [NoOut EXCEPT !.id = x, !.phase = "Offer"]
  BY DEF FileChosen, linkVars, imageVars, previewVars, originalVars
<1>2. x \in FileId
  BY DEF FileId
<1> HIDE DEF x
<1>3. out' = [id |-> x, phase |-> "Offer", next |-> 0, sent |-> 0, flight |-> FALSE]
  BY <1>1 DEF NoOut
<1>4. Top(out') = 0
  BY <1>3 DEF Top
<1>5. OutOK(out', used')
  <2>1. 0 \in 0 .. Chunks /\ x # None
    BY <1>2, NoneIsNoId, TransferAssumption
  <2>2. /\ out'.id = x /\ out'.phase = "Offer" /\ out'.next = 0 /\ out'.sent = 0
        /\ out' \in [id : FileId \cup {None},
                    phase : {"Idle", "Offer", "Await", "Chunks", "End"},
                    next : 0 .. Chunks, sent : 0 .. Chunks, flight : BOOLEAN]
    BY <1>2, <1>3, <2>1
  <2>3. QED
    BY <1>1, <1>4, <2>1, <2>2 DEF OutOK
<1>6. used \subseteq used'
  BY <1>1
<1>7. Holders' /\ Frames'
  <2>1. IoutOK(iout, used') /\ IncOK(inc, used') /\ IinOK(iin, used')
    BY <1>6, NewerTransfers, HoldersNow
  <2>2. TasksOK(tasks, used') /\ WireOK(wire, used')
    BY <1>6, NewerTransfers DEF TInv, Frames
  <2>3. QED
    BY <1>1, <1>5, <2>1, <2>2 DEF Holders, Frames
<1>8. (Rest /\ IsFiniteSet(used))'
  <2>1. IsFiniteSet(used')
    BY <1>1, FS_AddElement DEF TInv
  <2>2. \A q \in series : SeriesOK(q, used')
    BY <1>6, NewerTransfers DEF TInv, Rest
  <2>3. QED
    BY <1>1, <1>2, <2>1, <2>2 DEF TInv, Rest
<1>9. FileFlows' /\ PreviewFlows' /\ SendsPreview'
  BY <1>1 DEF TInv, FileFlows, PreviewFlows, SendsPreview
<1>10. SendsFile'
  <2>1. /\ Behind(x, "Chunk", tasks, wire["R"], Got(inc, x), 0)
        /\ \A t \in tasks : ~IsOf(t.frame, x, FileTypes)
    BY <1>1, <1>2, UnusedTransfer
  <2>2. out'.id = x
    BY <1>3
  <2>3. QED
    BY <1>1, <1>4, <2>1, <2>2 DEF SendsFile, InFlight
<1>11. ReceivedWhole'
  BY <1>1, KeptSame
<1>12. QED
  BY <1>7, <1>8, <1>9, <1>10, <1>11 DEF TInv

(* The frame that is sent next, and the transfer while it is in flight. *)
LEMMA NextFileFrame ==
  ASSUME TInv, out.phase \in {"Offer", "Chunks", "End"}, ~out.flight, NEW f,
         f = CASE out.phase = "Offer" -> F("Offer", out.id)
               [] out.phase = "Chunks" -> Chunk("Chunk", out.id, out.next + 1)
               [] OTHER -> F("End", out.id)
  PROVE  /\ FrameOK(f, used) /\ f.id = out.id /\ f.type = FileType(out.phase)
         /\ out.id \in FileId /\ Top(out) = out.sent /\ out.sent \in Nat
         /\ f.type = "Chunk" <=> out.phase = "Chunks"
         /\ f.type = "Chunk" => f.n = out.sent + 1
PROOF
<1>1. OutOK(out, used)
  BY HoldersNow
<1>2. out.id \in FileId \cap used /\ out.next = Top(out)
  BY <1>1 DEF OutOK
<1>3. Top(out) = out.sent /\ out.sent \in Nat /\ Chunks \in Nat
  BY <1>1, TransferAssumption DEF OutOK, Top
<1>4. CASE out.phase = "Chunks"
  <2>1. f = [type |-> "Chunk", id |-> out.id, n |-> out.sent + 1]
    BY <1>2, <1>3, <1>4 DEF Chunk
  <2>2. out.sent + 1 \in 1 .. Chunks /\ out.sent + 1 \in 0 .. Chunks
    BY <1>1, <1>3, <1>4 DEF OutOK
  <2>3. f \in Frame
    BY <1>2, <2>1, <2>2 DEF Frame
  <2>4. QED
    BY <1>2, <1>3, <1>4, <2>1, <2>2, <2>3 DEF FrameOK, FileType
<1>5. CASE out.phase # "Chunks"
  <2>1. f = [type |-> FileType(out.phase), id |-> out.id, n |-> 0]
    BY <1>5 DEF F, FileType
  <2>2. FileType(out.phase) \in {"Offer", "End"} /\ 0 \in 0 .. Chunks
    BY <1>3, <1>5 DEF FileType
  <2>3. f \in Frame
    BY <1>2, <2>1, <2>2 DEF Frame
  <2>4. QED
    BY <1>2, <1>3, <1>5, <2>1, <2>2, <2>3 DEF FrameOK
<1>6. QED
  BY <1>4, <1>5

LEMMA PumpFileStep ==
  ASSUME TInv, PumpFile
  PROVE  TInv'
PROOF
<1> DEFINE f == CASE out.phase = "Offer" -> F("Offer", out.id)
                  [] out.phase = "Chunks" -> Chunk("Chunk", out.id, out.next + 1)
                  [] OTHER -> F("End", out.id)
           s == NewTask("S", f)
           x == out.id
<1>1. /\ UNCHANGED <<linkVars, imageVars, used, kept>> /\ wire' = wire /\ inc' = inc
      /\ out.phase \in {"Offer", "Chunks", "End"} /\ ~out.flight
      /\ \/ /\ tasks' = tasks \cup {s}
            /\ out' = [out EXCEPT !.flight = TRUE,
                          !.next = IF out.phase = "Chunks" THEN out.next + 1 ELSE out.next]
         \/ out' = NoOut /\ tasks' = tasks
  BY DEF PumpFile
<1>2. /\ FrameOK(f, used) /\ f.id = x /\ f.type = FileType(out.phase)
      /\ x \in FileId /\ Top(out) = out.sent /\ out.sent \in Nat
      /\ f.type = "Chunk" <=> out.phase = "Chunks"
      /\ f.type = "Chunk" => f.n = out.sent + 1
  BY <1>1, NextFileFrame
<1> HIDE DEF f
<1>3. s.frame = f /\ s.st = "new" /\ TasksOK(tasks \cup {s}, used)
  BY <1>2, TaskOfFrame, SpawnStep DEF Ends
<1>4. FilesThin /\ PreviewsThin /\ WireOK(wire', used)
  BY <1>1, WireSame
<1>5. IncOK(inc', used) /\ OutOK(out, used) /\ GotKept(inc, inc')
  BY <1>1, HoldersNow, GotSame
<1> HIDE DEF s
<1>6. CASE out' = NoOut /\ tasks' = tasks
  <2>1. OutOK(out', used) /\ OutKept /\ NoNewData /\ TasksOK(tasks', used)
    BY <1>6, IdleHolders, FewerTasks DEF OutKept, NoOut
  <2>2. QED
    BY <1>1, <1>4, <1>5, <2>1, FileStep
<1>7. ASSUME tasks' = tasks \cup {s},
             out' = [out EXCEPT !.flight = TRUE,
                        !.next = IF out.phase = "Chunks" THEN out.next + 1 ELSE out.next]
      PROVE  TInv'
  <2>1. /\ out'.id = x /\ out'.phase = out.phase /\ out'.flight = TRUE /\ out'.sent = out.sent
        /\ out'.next = IF out.phase = "Chunks" THEN out.next + 1 ELSE out.next
    BY <1>5, <1>7 DEF OutOK
  <2>2. Top(out') = IF out.phase = "Chunks" THEN out.sent + 1 ELSE out.sent
    BY <1>2, <2>1 DEF Top
  <2>3. OutOK(out', used)
    <3>1. out.next = out.sent /\ Chunks \in Nat
      BY <1>2, <1>5, TransferAssumption DEF OutOK
    <3>2. out.phase = "Chunks" => out.sent < Chunks
      BY <1>5 DEF OutOK
    <3>3. out'.next = Top(out') /\ out'.next \in 0 .. Chunks
      <4>1. out.sent \in 0 .. Chunks
        BY <1>5 DEF OutOK
      <4>2. QED
        BY <2>1, <2>2, <3>1, <3>2, <4>1
    <3>4. out' \in [id : FileId \cup {None},
                    phase : {"Idle", "Offer", "Await", "Chunks", "End"},
                    next : 0 .. Chunks, sent : 0 .. Chunks, flight : BOOLEAN]
      BY <1>5, <1>7, <2>1, <3>3 DEF OutOK
    <3>5. QED
      BY <1>1, <1>5, <2>1, <3>3, <3>4 DEF OutOK
  <2>4. \A t \in tasks : t.frame \in Frame /\ ~IsOf(t.frame, x, FileTypes)
    <3>1. x # None
      BY <1>2, NoneIsNoId
    <3>2. QED
      BY <1>1, <3>1, HoldersNow DEF TInv, SendsFile, InFlight
  <2>5. /\ wire["R"] \in Seq(Frame) /\ \A y : Got(inc, y) \in Seq(Frame)
        /\ FileFlows /\ x # None
    BY <1>2, NoneIsNoId, WireIsSeq, GotIsSeq DEF TInv
  <2>6. /\ Flow(x, FileTypes, "Chunk", tasks', wire["R"], Got(inc, x))
        /\ Behind(x, "Chunk", tasks', wire["R"], Got(inc, x), Top(out'))
    <3>1. Behind(x, "Chunk", tasks, wire["R"], Got(inc, x), out.sent)
      BY <1>2, <2>5 DEF TInv, SendsFile
    <3>2. Flow(x, FileTypes, "Chunk", tasks, wire["R"], Got(inc, x))
      BY <1>2, <2>5 DEF FileFlows
    <3>3. IsChunk(s.frame, x, "Chunk") <=> out.phase = "Chunks"
      BY <1>2, <1>3 DEF IsChunk
    <3>4. IsChunk(s.frame, x, "Chunk") => s.frame.n = out.sent + 1
      BY <1>2, <1>3, <3>3
    <3>5. /\ Flow(x, FileTypes, "Chunk", tasks \cup {s}, wire["R"], Got(inc, x))
          /\ IsChunk(s.frame, x, "Chunk") =>
               Behind(x, "Chunk", tasks \cup {s}, wire["R"], Got(inc, x), out.sent + 1)
          /\ ~IsChunk(s.frame, x, "Chunk") =>
               Behind(x, "Chunk", tasks \cup {s}, wire["R"], Got(inc, x), out.sent)
      BY <1>2, <2>4, <2>5, <3>1, <3>2, <3>4, FlowPumped
    <3>6. QED
      BY <1>7, <2>2, <3>3, <3>5
  <2>7. ASSUME NEW y \in FileId, y # x
        PROVE  Flow(y, FileTypes, "Chunk", tasks', wire["R"], Got(inc, y))
    <3>1. \A t \in tasks' : IsOf(t.frame, y, FileTypes) => t \in tasks
      BY <1>2, <1>3, <1>7, <2>7 DEF IsOf
    <3>2. Flow(y, FileTypes, "Chunk", tasks, wire["R"], Got(inc, y))
      BY <2>5 DEF FileFlows
    <3>3. Single(y, FileTypes, tasks')
      BY <3>1, <3>2 DEF Flow, Single
    <3>4. Fewer(tasks, tasks', y, "Chunk")
      BY <3>1, TypesOfChunks DEF Fewer, IsOf, IsChunk
    <3>5. QED
      BY <2>4, <2>5, <3>2, <3>3, <3>4, FlowKept, ThinsSame, TypesOfChunks
  <2>8. FileFlows'
    BY <1>1, <2>6, <2>7 DEF FileFlows
  <2>9. InFlight(out', FileTypes, FileType(out'.phase), tasks')
    BY <1>2, <1>3, <1>7, <2>1, <2>4 DEF InFlight
  <2>10. SendsFile'
    BY <1>1, <2>1, <2>6, <2>9 DEF SendsFile
  <2>11. NoNew(ImageTypes)
    BY <1>2, <1>3, <1>7 DEF NoNew, FileType, ImageTypes
  <2>12. QED
    BY <1>1, <1>3, <1>4, <1>5, <1>7, <2>3, <2>8, <2>10, <2>11, FileSideStep
<1>8. QED
  BY <1>1, <1>6, <1>7

LEMMA ReadChunkStep ==
  ASSUME TInv, NEW f, ReadChunk(f)
  PROVE  TInv'
PROOF
<1>1. /\ UNCHANGED <<linkVars, imageVars, used, kept, out>> /\ Pops("R", f) /\ tasks' = tasks
      /\ f.type = "Chunk"
      /\ \/ inc' \in {NoInc, inc}
         \/ /\ f.id = inc.id /\ Len(inc.got) # Chunks
            /\ inc' = [inc EXCEPT !.got = Append(inc.got, f)]
  BY DEF ReadChunk
<1>2. /\ WireOK(wire', used) /\ FilesThin /\ PreviewsThin /\ FrameOK(f, used)
      /\ wire["R"] # <<>> /\ f = Head(wire["R"]) /\ wire'["R"] = Tail(wire["R"])
  BY <1>1, ReadStep DEF Ends
<1>3. NoNewData /\ NoNew(ImageTypes) /\ TasksOK(tasks', used)
  BY <1>1, FewerTasks, NoNewParts
<1>4. OutOK(out', used) /\ OutKept /\ IncOK(inc, used)
  BY <1>1, <1>3, HoldersNow, OutSame
<1>5. CASE inc' \in {NoInc, inc}
  <2>1. IncOK(inc', used) /\ GotKept(inc, inc')
    BY <1>4, <1>5, GotSame, IdleHolders, IdleGot
  <2>2. QED
    BY <1>1, <1>2, <1>3, <1>4, <2>1, FileStep
<1>6. ASSUME f.id = inc.id, Len(inc.got) # Chunks,
             inc' = [inc EXCEPT !.got = Append(inc.got, f)]
      PROVE  TInv'
  <2> DEFINE x == inc.id
  <2>1. /\ x \in FileId /\ f \in Frame /\ IsChunk(f, x, "Chunk")
    BY <1>1, <1>2, <1>6 DEF FrameOK, FileTypes, IsChunk
  <2>2. inc'.id = x /\ inc'.got = Append(inc.got, f) /\ inc.got \in Seq(Frame)
    BY <1>4, <1>6 DEF IncOK
  <2>3. IncOK(inc', used)
    <3>1. Len(inc.got) \in Nat /\ Len(inc.got) <= Chunks /\ Chunks \in Nat
      BY <1>4, <2>2, TransferAssumption DEF IncOK
    <3>2. /\ Append(inc.got, f) \in Seq(Frame) /\ Len(Append(inc.got, f)) = Len(inc.got) + 1
          /\ \A j \in 1 .. Len(inc.got) : Append(inc.got, f)[j] = inc.got[j]
          /\ Append(inc.got, f)[Len(inc.got) + 1] = f
      BY <2>1, <2>2
    <3>3. \A j \in 1 .. Len(inc.got) + 1 : j \in 1 .. Len(inc.got) \/ j = Len(inc.got) + 1
      BY <3>1
    <3>4. \A j \in 1 .. Len(inc'.got) : inc'.got[j].id = inc'.id
      BY <1>4, <1>6, <2>2, <3>2, <3>3 DEF IncOK
    <3>5. inc' \in [id : FileId \cup {None}, open : BOOLEAN, got : Seq(Frame)]
      BY <1>4, <1>6, <3>2 DEF IncOK
    <3>6. Len(inc'.got) <= Chunks
      BY <1>6, <2>2, <3>1, <3>2
    <3>7. QED
      BY <1>4, <2>2, <3>4, <3>5, <3>6 DEF IncOK
  <2>4. /\ wire["R"] \in Seq(Frame) /\ wire'["R"] \in Seq(Frame) /\ FileFlows /\ SendsFile
        /\ \A t \in tasks : t.frame \in Frame
        /\ \A y : Got(inc, y) \in Seq(Frame)
    BY <1>2, WireIsSeq, GotIsSeq DEF TInv, FilesThin
  <2>5. Got(inc, x) = inc.got /\ Got(inc', x) = Append(inc.got, f)
        /\ \A y : y # x => Got(inc, y) = <<>> /\ Got(inc', y) = <<>>
    BY <2>2 DEF Got
  <2>6. Flow(x, FileTypes, "Chunk", tasks', wire'["R"], Got(inc', x))
    <3>1. Flow(x, FileTypes, "Chunk", tasks, wire["R"], inc.got)
      BY <2>1, <2>4, <2>5 DEF FileFlows
    <3>2. Flow(x, FileTypes, "Chunk", tasks, Tail(wire["R"]), Append(inc.got, Head(wire["R"])))
      BY <1>2, <2>1, <2>2, <2>4, <3>1, FlowTaken
    <3>3. QED
      BY <1>1, <1>2, <2>5, <3>2
  <2>7. ASSUME NEW y \in FileId, y # x
        PROVE  Flow(y, FileTypes, "Chunk", tasks', wire'["R"], Got(inc', y))
    <3>1. Flow(y, FileTypes, "Chunk", tasks, wire["R"], Got(inc, y))
      BY <2>4 DEF FileFlows
    <3>2. Single(y, FileTypes, tasks') /\ Fewer(tasks, tasks', y, "Chunk")
      BY <1>1, <3>1 DEF Flow, Fewer
    <3>3. Thins(wire["R"], wire'["R"], y, "Chunk")
      BY <1>2 DEF FilesThin
    <3>4. Got(inc', y) = <<>> /\ Got(inc', y) \in Seq(Frame)
      BY <2>5, <2>7, NothingGot
    <3>5. QED
      BY <2>4, <3>1, <3>2, <3>3, <3>4, FlowKept, TypesOfChunks
  <2>8. FileFlows'
    BY <2>6, <2>7 DEF FileFlows
  <2>9. ASSUME out.id # None
        PROVE  Behind(out.id, "Chunk", tasks', wire'["R"], Got(inc', out.id), Top(out))
    <3>1. Top(out) \in Nat /\ Behind(out.id, "Chunk", tasks, wire["R"], Got(inc, out.id), Top(out))
      BY <2>4, <2>9, TopIsNat, HoldersNow DEF SendsFile
    <3>2. CASE out.id = x
      <4>1. Behind(x, "Chunk", tasks, Tail(wire["R"]), Append(inc.got, Head(wire["R"])), Top(out))
        BY <1>2, <2>1, <2>2, <2>4, <2>5, <3>1, <3>2, BehindTaken
      <4>2. QED
        BY <1>1, <1>2, <2>5, <3>2, <4>1
    <3>3. CASE out.id # x
      <4>1. out.id \in FileId /\ Thins(wire["R"], wire'["R"], out.id, "Chunk")
        BY <1>1, <1>2, <1>4, <2>9 DEF FilesThin, OutOK
      <4>2. Fewer(tasks, tasks', out.id, "Chunk")
        BY <1>1 DEF Fewer
      <4>3. Got(inc', out.id) = <<>> /\ Got(inc', out.id) \in Seq(Frame)
        BY <2>5, <3>3, NothingGot
      <4>4. QED
        BY <2>4, <3>1, <4>1, <4>2, <4>3, BehindKept
    <3>4. QED
      BY <3>2, <3>3
  <2>10. SendsFile'
    BY <1>1, <2>4, <2>9 DEF SendsFile
  <2>11. QED
    BY <1>1, <1>2, <1>3, <1>4, <2>3, <2>8, <2>10, FileSideStep
<1>7. QED
  BY <1>1, <1>5, <1>6

(* What has the right number of chunks, and no gap, is whole. *)
LEMMA WholeWhenFull ==
  ASSUME NEW x, NEW g \in Seq(Frame), InOrder(g), Len(g) = Chunks,
         \A i \in 1 .. Len(g) : g[i].id = x
  PROVE  Whole(x, g)
PROOF
<1>1. g # <<>> /\ Len(g) \in 1 .. Len(g) /\ Len(g) \in Nat
  BY TransferAssumption
<1>2. g[Len(g)] \in Frame
  BY <1>1
<1>3. Reach(g) <= Len(g) /\ Reach(g) \in Nat
  BY <1>1, <1>2, FrameFields DEF Reach
<1>4. \A i \in 1 .. Len(g) : g[i].n = i
  BY <1>1, <1>3 DEF InOrder
<1>5. QED
  BY <1>4 DEF Whole

LEMMA ReadEndStep ==
  ASSUME TInv, NEW f, ReadEnd(f)
  PROVE  TInv'
PROOF
<1>1. /\ UNCHANGED <<linkVars, imageVars, used, out>> /\ Pops("R", f) /\ tasks' = tasks
      /\ f.type = "End"
      /\ \/ inc' \in {NoInc, inc} /\ kept' = kept
         \/ /\ f.id = inc.id /\ Len(inc.got) = Chunks /\ inc' = NoInc
            /\ kept' = kept \cup {[id |-> inc.id, got |-> inc.got]}
  BY DEF ReadEnd
<1>2. WireOK(wire', used) /\ FilesThin /\ PreviewsThin /\ FrameOK(f, used)
  BY <1>1, ReadStep DEF Ends
<1>3. NoNewData /\ TasksOK(tasks', used)
  BY <1>1, FewerTasks
<1>4. OutOK(out', used) /\ OutKept /\ IncOK(inc, used)
  BY <1>1, <1>3, HoldersNow, OutSame
<1>5. IncOK(inc', used) /\ GotKept(inc, inc')
  BY <1>1, <1>4, GotSame, IdleHolders, IdleGot
<1>6. CASE kept' = kept
  BY <1>1, <1>2, <1>3, <1>4, <1>5, <1>6, FileStep
<1>7. ASSUME f.id = inc.id, Len(inc.got) = Chunks,
             kept' = kept \cup {[id |-> inc.id, got |-> inc.got]}
      PROVE  TInv'
  <2>1. UNCHANGED <<conn, live, iout, crossed, iin, used, osend, series, pend, shared,
                    cached, bubble, dropped>>
    BY <1>1 DEF linkVars, imageVars, previewVars, originalVars
  <2>2. (Rest /\ IsFiniteSet(used))' /\ Holders' /\ GotKept(iin, iin') /\ IoutKept
    BY <1>3, <1>4, <1>5, <2>1, RestSame, GotSame, IoutSame DEF TInv, Holders
  <2>3. Whole(inc.id, inc.got)
    <3>1. inc.id \in FileId /\ Got(inc, inc.id) = inc.got
      BY <1>1, <1>2, <1>7 DEF FrameOK, FileTypes, Got
    <3>2. InOrder(inc.got)
      BY <3>1 DEF TInv, FileFlows, Flow
    <3>3. QED
      BY <1>4, <1>7, <3>2, WholeWhenFull DEF IncOK
  <2>4. ReceivedWhole'
    BY <1>7, <2>1, <2>3 DEF TInv, ReceivedWhole
  <2>5. QED
    BY <1>2, <1>3, <1>4, <1>5, <2>1, <2>2, <2>4, QuietStep
<1>8. QED
  BY <1>1, <1>6, <1>7

-----------------------------------------------------------------------------
(* Steps of previews, and of what R has of an image *)

LEMMA OriginalStep ==
  ASSUME TInv, UNCHANGED <<linkVars, fileVars, previewVars, used, kept>>, Rest',
         WireOK(wire', used), TasksOK(tasks', used), IinOK(iin', used),
         NoNewData, FilesThin, PreviewsThin, GotKept(iin, iin')
  PROVE  TInv'
PROOF
<1>1. UNCHANGED <<out, inc, iout, crossed, used, kept>>
  BY DEF fileVars, previewVars
<1>2. Holders' /\ IsFiniteSet(used')
  BY <1>1 DEF TInv, Holders
<1>3. ReceivedWhole' /\ GotKept(inc, inc') /\ IoutKept /\ OutKept
  BY <1>1, KeptSame, GotSame, IoutSame, OutSame
<1>4. QED
  BY <1>1, <1>2, <1>3, QuietStep

LEMMA PreviewSideStep ==
  ASSUME TInv, UNCHANGED <<out, inc, kept>>, Rest', IsFiniteSet(used'), used \subseteq used',
         WireOK(wire', used'), TasksOK(tasks', used'), IoutOK(iout', used'), IinOK(iin', used'),
         crossed' = crossed, NoNew(FileTypes), FilesThin, PreviewFlows', SendsPreview'
  PROVE  TInv'
PROOF
<1>1. FileFlows' /\ SendsFile'
  BY FileSideKept
<1>2. OutOK(out', used') /\ IncOK(inc', used')
  BY HoldersNow, NewerTransfers
<1>3. Holders' /\ Frames'
  BY <1>2 DEF Holders, Frames
<1>4. ReceivedWhole'
  BY KeptSame
<1>5. QED
  BY <1>1, <1>3, <1>4 DEF TInv

LEMMA ImageChosenStep ==
  ASSUME TInv, NEW m \in Images, ImageChosen(m)
  PROVE  TInv'
PROOF
<1> DEFINE x == <<m, 0>>
<1>1. /\ UNCHANGED <<conn, live, wire, tasks, out, inc, crossed, iin, kept, osend, series,
                     pend, cached, bubble, dropped>>
      /\ used' = used \cup {x} /\ x \notin used /\ shared' = shared \cup {m}
      /\ iout' = [NoOut EXCEPT !.id = x, !.phase = "Header"]
  BY DEF ImageChosen, linkVars, fileVars, originalVars
<1>2. x \in ImageId /\ x \in Previews
  BY DEF ImageId, Previews
<1> HIDE DEF x
<1>3. iout' = [id |-> x, phase |-> "Header", next |-> 0, sent |-> 0, flight |-> FALSE]
  BY <1>1 DEF NoOut
<1>4. Top(iout') = 0
  BY <1>3 DEF Top
<1>5. IoutOK(iout', used')
  <2>1. x # None
    BY <1>2, NoneIsNoId
  <2>2. /\ iout'.id = x /\ iout'.phase = "Header"
        /\ iout' \in [id : Previews \cup {None}, phase : {"Idle", "Header", "Chunks", "End"},
                     next : {0}, sent : Nat, flight : BOOLEAN]
    BY <1>2, <1>3
  <2>3. QED
    BY <1>1, <2>1, <2>2 DEF IoutOK
<1>6. used \subseteq used'
  BY <1>1
<1>7. IinOK(iin', used') /\ TasksOK(tasks', used') /\ WireOK(wire', used')
  BY <1>1, <1>6, NewerTransfers, HoldersNow DEF TInv, Frames
<1>8. IsFiniteSet(used')
  BY <1>1, FS_AddElement DEF TInv
<1>9. Rest'
  <2>1. \A q \in series : SeriesOK(q, used')
    BY <1>6, NewerTransfers DEF TInv, Rest
  <2>2. QED
    BY <1>1, <1>2, <2>1 DEF TInv, Rest
<1>10. PreviewFlows'
  BY <1>1 DEF TInv, PreviewFlows
<1>11. SendsPreview'
  <2>1. /\ Behind(x, "ImageChunk", tasks, wire["R"], Got(iin, x), 0)
        /\ \A t \in tasks : ~IsOf(t.frame, x, ImageTypes)
    BY <1>1, <1>2, UnusedTransfer
  <2>2. iout'.id = x
    BY <1>3
  <2>3. QED
    BY <1>1, <1>4, <2>1, <2>2 DEF SendsPreview, InFlight
<1>12. NoNew(FileTypes) /\ FilesThin
  BY <1>1, FewerTasks, NoNewParts, WireSame
<1>13. QED
  BY <1>1, <1>5, <1>6, <1>7, <1>8, <1>9, <1>10, <1>11, <1>12, PreviewSideStep

(* The frame that is sent next, and the transfer while it is in flight. *)
LEMMA NextImageFrame ==
  ASSUME TInv, iout.phase # "Idle", ~iout.flight, NEW f,
         iout.phase = "Chunks" => iout.id # None /\ iout.sent < Chunks,
         f = CASE iout.phase = "Header" -> F("Header", iout.id)
               [] iout.phase = "Chunks" -> Chunk("ImageChunk", iout.id, iout.sent + 1)
               [] OTHER -> F("ImageEnd", iout.id)
  PROVE  /\ FrameOK(f, used) /\ f.id = iout.id /\ f.type = ImageType(iout.phase)
         /\ Top(iout) = iout.sent /\ iout.sent \in Nat
         /\ f.type = "ImageChunk" <=> iout.phase = "Chunks"
         /\ f.type = "ImageChunk" => f.n = iout.sent + 1
PROOF
<1>1. IoutOK(iout, used)
  BY HoldersNow
<1>2. iout.id \in (ImageId \cap used) \cup {None}
  BY <1>1, NoneIsNoId DEF IoutOK
<1>3. Top(iout) = iout.sent /\ iout.sent \in Nat /\ Chunks \in Nat
  BY <1>1, TransferAssumption DEF IoutOK, Top
<1>4. CASE iout.phase = "Chunks"
  <2>1. f = [type |-> "ImageChunk", id |-> iout.id, n |-> iout.sent + 1]
    BY <1>4 DEF Chunk
  <2>2. iout.sent + 1 \in 1 .. Chunks /\ iout.sent + 1 \in 0 .. Chunks
    BY <1>3, <1>4
  <2>3. f \in Frame /\ iout.id \in ImageId \cap used
    BY <1>2, <1>4, <2>1, <2>2 DEF Frame
  <2>4. QED
    BY <1>3, <1>4, <2>1, <2>2, <2>3 DEF FrameOK, ImageType, FileTypes
<1>5. CASE iout.phase # "Chunks"
  <2>1. f = [type |-> ImageType(iout.phase), id |-> iout.id, n |-> 0]
    BY <1>5 DEF F, ImageType
  <2>2. /\ ImageType(iout.phase) \in {"Header", "ImageEnd"} /\ 0 \in 0 .. Chunks
        /\ ImageType(iout.phase) = "Header" => iout.id # None
    BY <1>1, <1>3, <1>5 DEF ImageType, IoutOK
  <2>3. f \in Frame
    BY <1>2, <2>1, <2>2 DEF Frame
  <2>4. QED
    BY <1>2, <1>3, <1>5, <2>1, <2>2, <2>3 DEF FrameOK, FileTypes
<1>6. QED
  BY <1>4, <1>5

LEMMA PumpImageSends ==
  ASSUME TInv, UNCHANGED <<linkVars, fileVars, crossed, originalVars, iin, shared, used, kept>>,
         wire' = wire, iout.phase # "Idle", ~iout.flight, NEW f, FrameOK(f, used),
         f.id = iout.id, f.type = ImageType(iout.phase), Top(iout) = iout.sent,
         iout.sent \in Nat, f.type = "ImageChunk" <=> iout.phase = "Chunks",
         f.type = "ImageChunk" => f.n = iout.sent + 1,
         iout' = [iout EXCEPT !.flight = TRUE], tasks' = tasks \cup {NewTask("S", f)}
  PROVE  TInv'
PROOF
<1> DEFINE s == NewTask("S", f)
           x == iout.id
<1>1. s.frame = f /\ s.st = "new" /\ TasksOK(tasks', used) /\ tasks' = tasks \cup {s}
  BY TaskOfFrame, SpawnStep DEF Ends
<1> HIDE DEF s
<1>2. FilesThin /\ PreviewsThin /\ WireOK(wire', used)
  BY WireSame
<1>3. IinOK(iin', used) /\ IoutOK(iout, used)
  BY HoldersNow DEF IinOK
<1>4. /\ iout'.id = x /\ iout'.phase = iout.phase /\ iout'.flight = TRUE /\ iout'.sent = iout.sent
      /\ iout' \in [id : Previews \cup {None}, phase : {"Idle", "Header", "Chunks", "End"},
                   next : {0}, sent : Nat, flight : BOOLEAN]
  BY <1>3 DEF IoutOK
<1>5. IoutOK(iout', used)
  BY <1>3, <1>4 DEF IoutOK
<1>6. Top(iout') = IF iout.phase = "Chunks" THEN iout.sent + 1 ELSE iout.sent
  BY <1>4 DEF Top
<1>7. /\ wire["R"] \in Seq(Frame) /\ \A y : Got(iin, y) \in Seq(Frame)
      /\ \A t \in tasks : t.frame \in Frame
      /\ PreviewFlows /\ SendsPreview
  BY WireIsSeq, GotIsSeq DEF TInv
<1>8. ASSUME x \in Previews \ crossed
      PROVE  /\ Flow(x, ImageTypes, "ImageChunk", tasks', wire["R"], Got(iin, x))
             /\ Behind(x, "ImageChunk", tasks', wire["R"], Got(iin, x), Top(iout'))
             /\ InFlight(iout', ImageTypes, ImageType(iout'.phase), tasks')
  <2>1. x # None
    BY <1>8, NoneIsNoId
  <2>2. \A t \in tasks : t.frame \in Frame /\ ~IsOf(t.frame, x, ImageTypes)
    BY <1>7, <1>8, <2>1 DEF SendsPreview, InFlight
  <2>3. Behind(x, "ImageChunk", tasks, wire["R"], Got(iin, x), iout.sent)
    BY <1>7, <1>8, <2>1 DEF SendsPreview
  <2>4. Flow(x, ImageTypes, "ImageChunk", tasks, wire["R"], Got(iin, x))
    BY <1>7, <1>8 DEF PreviewFlows
  <2>5. IsChunk(s.frame, x, "ImageChunk") <=> iout.phase = "Chunks"
    BY <1>1 DEF IsChunk
  <2>6. IsChunk(s.frame, x, "ImageChunk") => s.frame.n = iout.sent + 1
    BY <1>1, <2>5
  <2>7. /\ Flow(x, ImageTypes, "ImageChunk", tasks \cup {s}, wire["R"], Got(iin, x))
        /\ IsChunk(s.frame, x, "ImageChunk") =>
             Behind(x, "ImageChunk", tasks \cup {s}, wire["R"], Got(iin, x), iout.sent + 1)
        /\ ~IsChunk(s.frame, x, "ImageChunk") =>
             Behind(x, "ImageChunk", tasks \cup {s}, wire["R"], Got(iin, x), iout.sent)
    BY <1>7, <2>2, <2>3, <2>4, <2>6, FlowPumped
  <2>8. InFlight(iout', ImageTypes, ImageType(iout'.phase), tasks')
    BY <1>1, <1>4, <2>2 DEF InFlight
  <2>9. QED
    BY <1>1, <1>6, <2>5, <2>7, <2>8
<1>9. ASSUME NEW y \in Previews \ crossed, y # x
      PROVE  Flow(y, ImageTypes, "ImageChunk", tasks', wire["R"], Got(iin, y))
  <2>1. \A t \in tasks' : IsOf(t.frame, y, ImageTypes) => t \in tasks
    BY <1>1, <1>9 DEF IsOf
  <2>2. Flow(y, ImageTypes, "ImageChunk", tasks, wire["R"], Got(iin, y))
    BY <1>7 DEF PreviewFlows
  <2>3. Single(y, ImageTypes, tasks')
    BY <2>1, <2>2 DEF Flow, Single
  <2>4. Fewer(tasks, tasks', y, "ImageChunk")
    BY <2>1, TypesOfChunks DEF Fewer, IsOf, IsChunk
  <2>5. QED
    BY <1>7, <2>2, <2>3, <2>4, FlowKept, ThinsSame, TypesOfChunks
<1>10. PreviewFlows'
  BY <1>8, <1>9 DEF PreviewFlows
<1>11. SendsPreview'
  <2>1. iout'.id # None /\ iout'.id \notin crossed' => x \in Previews \ crossed
    BY <1>3, <1>4 DEF IoutOK
  <2>2. QED
    BY <1>4, <1>8, <2>1 DEF SendsPreview
<1>12. NoNew(FileTypes)
  BY <1>1 DEF NoNew, ImageType, FileTypes
<1>13. UNCHANGED <<conn, live, osend, series, pend, shared, cached, bubble, dropped, used,
                   out, inc, kept, crossed>>
  BY DEF linkVars, originalVars, fileVars
<1>14. (Rest /\ IsFiniteSet(used))'
  BY <1>13, RestSame
<1>15. QED
  BY <1>1, <1>2, <1>3, <1>5, <1>10, <1>11, <1>12, <1>13, <1>14, PreviewSideStep

LEMMA PreviewStep ==
  ASSUME TInv, UNCHANGED <<linkVars, fileVars, originalVars, iin, shared, used, kept>>,
         wire' = wire, TasksOK(tasks', used), IoutOK(iout', used), NoNewData, IoutKept,
         crossed \subseteq crossed'
  PROVE  TInv'
PROOF
<1>1. UNCHANGED <<conn, live, out, inc, iin, used, kept, osend, series, pend, shared,
                  cached, bubble, dropped>>
  BY DEF linkVars, fileVars, originalVars
<1>2. (Rest /\ IsFiniteSet(used))'
  BY <1>1, RestSame
<1>3. Holders' /\ FilesThin /\ PreviewsThin /\ WireOK(wire', used')
  BY <1>1, WireSame DEF TInv, Holders
<1>4. ReceivedWhole' /\ GotKept(iin, iin') /\ GotKept(inc, inc') /\ OutKept
  BY <1>1, KeptSame, GotSame, OutSame
<1>5. QED
  BY <1>1, <1>2, <1>3, <1>4, QuietStep

LEMMA PumpImageStep ==
  ASSUME TInv, PumpImage
  PROVE  TInv'
PROOF
<1> DEFINE f == CASE iout.phase = "Header" -> F("Header", iout.id)
                  [] iout.phase = "Chunks" -> Chunk("ImageChunk", iout.id, iout.sent + 1)
                  [] OTHER -> F("ImageEnd", iout.id)
           total == IF iout.id = None THEN 0 ELSE Chunks
<1>1. /\ UNCHANGED <<linkVars, fileVars, crossed, originalVars, iin, shared, used, kept>>
      /\ wire' = wire /\ iout.phase # "Idle" /\ ~iout.flight
      /\ \/ iout.phase = "Chunks" /\ iout' = [iout EXCEPT !.phase = "End"] /\ tasks' = tasks
         \/ iout' = NoOut /\ tasks' = tasks
         \/ /\ ~(iout.phase = "Chunks" /\ iout.sent >= total)
            /\ iout' = [iout EXCEPT !.flight = TRUE] /\ tasks' = tasks \cup {NewTask("S", f)}
  BY DEF PumpImage
<1>2. IoutOK(iout, used) /\ iout.sent \in Nat /\ Chunks \in Nat
  BY HoldersNow, TransferAssumption DEF IoutOK
<1>3. CASE iout.phase = "Chunks" /\ iout' = [iout EXCEPT !.phase = "End"] /\ tasks' = tasks
  <2>1. NoNewData /\ TasksOK(tasks', used)
    BY <1>3, FewerTasks
  <2>2. /\ iout'.id = iout.id /\ iout'.phase = "End" /\ iout'.flight = iout.flight
        /\ iout'.sent = iout.sent
        /\ iout' \in [id : Previews \cup {None}, phase : {"Idle", "Header", "Chunks", "End"},
                     next : {0}, sent : Nat, flight : BOOLEAN]
    BY <1>2, <1>3 DEF IoutOK
  <2>3. IoutOK(iout', used) /\ Top(iout') = Top(iout)
    BY <1>1, <1>2, <2>2 DEF IoutOK, Top
  <2>4. CASE iout.id \in crossed' \cup {None}
    BY <1>1, <2>1, <2>2, <2>3, <2>4, PreviewStep DEF IoutKept
  <2>5. CASE iout.id \notin crossed' \cup {None}
    <3>1. InFlight(iout', ImageTypes, ImageType(iout'.phase), tasks')
      BY <1>1, <2>1, <2>2, <2>5, NothingInFlight
    <3>2. QED
      BY <1>1, <2>1, <2>2, <2>3, <3>1, PreviewStep DEF IoutKept
  <2>6. QED
    BY <2>4, <2>5
<1>4. CASE iout' = NoOut /\ tasks' = tasks
  <2>1. NoNewData /\ TasksOK(tasks', used) /\ IoutOK(iout', used) /\ IoutKept
    BY <1>4, FewerTasks, IdleHolders DEF IoutKept, NoOut
  <2>2. QED
    BY <1>1, <2>1, PreviewStep
<1>5. CASE /\ ~(iout.phase = "Chunks" /\ iout.sent >= total)
           /\ iout' = [iout EXCEPT !.flight = TRUE] /\ tasks' = tasks \cup {NewTask("S", f)}
  <2>1. iout.phase = "Chunks" => iout.id # None /\ iout.sent < Chunks
    BY <1>2, <1>5
  <2>2. /\ FrameOK(f, used) /\ f.id = iout.id /\ f.type = ImageType(iout.phase)
        /\ Top(iout) = iout.sent /\ iout.sent \in Nat
        /\ f.type = "ImageChunk" <=> iout.phase = "Chunks"
        /\ f.type = "ImageChunk" => f.n = iout.sent + 1
    BY <1>1, <2>1, NextImageFrame
  <2> HIDE DEF f
  <2>3. QED
    BY <1>1, <1>5, <2>2, PumpImageSends
<1>6. QED
  BY <1>1, <1>3, <1>4, <1>5

(* The result of the frame that is in flight, for the image it is about. *)
LEMMA ImageSentOut ==
  ASSUME TInv, NEW t \in tasks, ImageSent(t), t.frame.id = iout.id, t.st # "err",
         t.frame.type # "ImageEnd", iout.id # None, iout.id \notin crossed
  PROVE  iout'.id = iout.id /\ Top(iout') = Top(iout) /\ iout'.flight = FALSE
PROOF
<1>1. IsOf(t.frame, iout.id, ImageTypes)
  BY DEF ImageSent, ImageTypes, IsOf
<1>2. iout.flight /\ t.frame.type = ImageType(iout.phase)
  BY <1>1 DEF TInv, SendsPreview, InFlight
<1>3. IoutOK(iout, used)
  BY HoldersNow
<1>4. CASE t.frame.type = "Header"
  <2>1. iout' = [iout EXCEPT !.flight = FALSE, !.phase = "Chunks"]
    BY <1>4 DEF ImageSent
  <2>2. iout.phase = "Header"
    BY <1>2, <1>4 DEF ImageType
  <2>3. iout'.id = iout.id /\ iout'.flight = FALSE /\ iout'.sent = iout.sent /\ iout.sent \in Nat
    BY <1>3, <2>1 DEF IoutOK
  <2>4. QED
    BY <2>2, <2>3 DEF Top
<1>5. CASE t.frame.type = "ImageChunk"
  <2>1. iout' = [iout EXCEPT !.flight = FALSE, !.sent = iout.sent + 1,
                    !.phase = IF iout.id = None \/ iout.sent + 1 >= Chunks
                              THEN "End" ELSE "Chunks"]
    BY <1>5 DEF ImageSent
  <2>2. iout.phase = "Chunks"
    BY <1>2, <1>5 DEF ImageType
  <2>3. /\ iout'.id = iout.id /\ iout'.flight = FALSE /\ iout'.sent = iout.sent + 1
        /\ iout.sent \in Nat
    BY <1>3, <2>1 DEF IoutOK
  <2>4. QED
    BY <1>2, <2>2, <2>3 DEF Top
<1>6. QED
  BY <1>4, <1>5 DEF ImageSent

LEMMA ImageSentStep ==
  ASSUME TInv, NEW t \in tasks, ImageSent(t)
  PROVE  TInv'
PROOF
<1>1. /\ UNCHANGED <<linkVars, fileVars, originalVars, iin, shared, used, kept>> /\ wire' = wire
      /\ tasks' = tasks \ {t} /\ crossed \subseteq crossed'
      /\ t.frame.id # iout.id => iout.id \in crossed'
  BY DEF ImageSent
<1>2. NoNewData /\ TasksOK(tasks', used)
  BY <1>1, FewerTasks
<1>3. IoutOK(iout, used)
  BY HoldersNow
<1>4. IoutOK(iout', used) /\ iout'.id \in {iout.id, None}
  <2>1. CASE iout' = NoOut
    BY <2>1, IdleHolders, IdleGot
  <2>2. CASE iout' = [iout EXCEPT !.flight = FALSE, !.phase = "Chunks"]
    <3>1. /\ iout'.id = iout.id /\ iout'.phase = "Chunks"
          /\ iout' \in [id : Previews \cup {None}, phase : {"Idle", "Header", "Chunks", "End"},
                       next : {0}, sent : Nat, flight : BOOLEAN]
      BY <1>3, <2>2 DEF IoutOK
    <3>2. QED
      BY <1>3, <3>1 DEF IoutOK
  <2>3. CASE iout' = [iout EXCEPT !.flight = FALSE, !.sent = iout.sent + 1,
                         !.phase = IF iout.id = None \/ iout.sent + 1 >= Chunks
                                   THEN "End" ELSE "Chunks"]
    <3>1. iout.sent + 1 \in Nat
      BY <1>3 DEF IoutOK
    <3>2. /\ iout'.id = iout.id /\ iout'.phase \in {"Chunks", "End"}
          /\ iout' \in [id : Previews \cup {None}, phase : {"Idle", "Header", "Chunks", "End"},
                       next : {0}, sent : Nat, flight : BOOLEAN]
      BY <1>3, <2>3, <3>1 DEF IoutOK
    <3>3. QED
      BY <1>3, <3>2 DEF IoutOK
  <2>4. QED
    BY <2>1, <2>2, <2>3 DEF ImageSent
<1>5. IoutKept
  <2>1. CASE iout'.id \in crossed' \cup {None}
    BY <2>1 DEF IoutKept
  <2>2. CASE iout'.id \notin crossed' \cup {None}
    <3>1. iout.id # None /\ iout.id \notin crossed /\ t.frame.id = iout.id
      BY <1>1, <1>4, <2>2
    <3>2. t.st # "err" /\ t.frame.type # "ImageEnd"
      BY <2>2, IdleGot DEF ImageSent
    <3>3. iout'.id = iout.id /\ Top(iout') = Top(iout)
      BY <3>1, <3>2, ImageSentOut
    <3>4. IsOf(t.frame, iout.id, ImageTypes) /\ iout.id \in Previews \ crossed
      BY <1>3, <3>1 DEF ImageSent, ImageTypes, IsOf, IoutOK
    <3>5. \A u \in tasks' : ~IsOf(u.frame, iout.id, ImageTypes)
      BY <1>1, <3>4 DEF TInv, PreviewFlows, Flow, Single
    <3>6. QED
      BY <3>3, <3>5 DEF IoutKept, InFlight
  <2>3. QED
    BY <2>1, <2>2
<1>6. QED
  BY <1>1, <1>2, <1>4, <1>5, PreviewStep

LEMMA FailedBubble ==
  ASSUME TInv
  PROVE  Failed(bubble) \in [Images -> Waiting \cup {"None", "Idle", "Cancelled", "Failed",
                                                     "Unavailable"}]
PROOF BY DEF TInv, Rest, Failed

LEMMA ImageIdParts ==
  ASSUME NEW x \in ImageId
  PROVE  x[1] \in Images /\ x[2] \in Nat /\ x # None
PROOF
<1>1. x[1] \in Images /\ x[2] \in Nat
  BY DEF ImageId
<1>2. QED
  BY <1>1, NoneIsNoId

LEMMA ReadHeaderStep ==
  ASSUME TInv, NEW f, ReadHeader(f)
  PROVE  TInv'
PROOF
<1>1. /\ UNCHANGED <<linkVars, fileVars, previewVars, used, kept>> /\ Pops("R", f)
      /\ tasks' = tasks /\ f.type = "Header"
      /\ UNCHANGED <<osend, series, pend, dropped, cached, shared>>
      /\ \/ iin' = iin /\ bubble' = bubble
         \/ /\ iin' = [id |-> f.id, got |-> <<>>]
            /\ bubble' \in {bubble, [bubble EXCEPT ![f.id[1]] = "Receiving"]}
  BY DEF ReadHeader
<1>2. WireOK(wire', used) /\ FilesThin /\ PreviewsThin /\ FrameOK(f, used)
  BY <1>1, ReadStep DEF Ends
<1>3. NoNewData /\ TasksOK(tasks', used)
  BY <1>1, FewerTasks
<1>4. f.id \in ImageId \cap used /\ f.id[1] \in Images
  BY <1>1, <1>2, ImageIdParts DEF FrameOK
<1>5. IinOK(iin', used) /\ GotKept(iin, iin')
  <2>1. CASE iin' = iin
    BY <2>1, HoldersNow, GotSame
  <2>2. CASE iin' = [id |-> f.id, got |-> <<>>]
    <3>1. <<>> \in Seq(Frame) /\ Len(<<>>) <= Chunks /\ Len(<<>>) = 0
      BY TransferAssumption
    <3>2. QED
      BY <1>4, <2>2, <3>1, GotSame DEF IinOK
  <2>3. QED
    BY <1>1, <2>1, <2>2
<1>6. Rest'
  BY <1>1, <1>4 DEF TInv, Rest, linkVars, Waiting
<1>7. QED
  BY <1>1, <1>2, <1>3, <1>5, <1>6, OriginalStep

LEMMA ReadImageChunkStep ==
  ASSUME TInv, NEW f, ReadImageChunk(f)
  PROVE  TInv'
PROOF
<1>1. /\ UNCHANGED <<linkVars, fileVars, previewVars, used, kept>> /\ Pops("R", f)
      /\ tasks' = tasks /\ f.type = "ImageChunk"
      /\ UNCHANGED <<osend, series, pend, dropped, cached, shared>>
      /\ \/ iin' = iin /\ bubble' = bubble
         \/ iin' = NoImage /\ bubble' = Failed(bubble)
         \/ /\ f.id = iin.id /\ Len(iin.got) # Chunks /\ bubble' = bubble
            /\ iin' = [iin EXCEPT !.got = Append(iin.got, f)]
  BY DEF ReadImageChunk
<1>2. /\ WireOK(wire', used) /\ FilesThin /\ PreviewsThin /\ FrameOK(f, used)
      /\ wire["R"] # <<>> /\ f = Head(wire["R"]) /\ wire'["R"] = Tail(wire["R"])
  BY <1>1, ReadStep DEF Ends
<1>3. NoNewData /\ NoNew(FileTypes) /\ TasksOK(tasks', used)
  BY <1>1, FewerTasks, NoNewParts
<1>4. IinOK(iin, used)
  BY HoldersNow
<1>5. Rest'
  <2>1. bubble' \in {bubble, Failed(bubble)}
    BY <1>1
  <2>2. QED
    BY <1>1, <2>1, FailedBubble DEF TInv, Rest, linkVars
<1>6. CASE iin' \in {iin, NoImage}
  <2>1. IinOK(iin', used) /\ GotKept(iin, iin')
    BY <1>4, <1>6, GotSame, IdleHolders, IdleGot
  <2>2. QED
    BY <1>1, <1>2, <1>3, <1>5, <2>1, OriginalStep
<1>7. ASSUME f.id = iin.id, Len(iin.got) # Chunks,
             iin' = [iin EXCEPT !.got = Append(iin.got, f)]
      PROVE  TInv'
  <2> DEFINE x == iin.id
  <2>1. /\ x \in ImageId /\ f \in Frame /\ IsChunk(f, x, "ImageChunk")
    BY <1>1, <1>2, <1>7 DEF FrameOK, IsChunk
  <2>2. iin'.id = x /\ iin'.got = Append(iin.got, f) /\ iin.got \in Seq(Frame)
    BY <1>4, <1>7 DEF IinOK
  <2>3. IinOK(iin', used)
    <3>1. Len(iin.got) \in Nat /\ Len(iin.got) <= Chunks /\ Chunks \in Nat
      BY <1>4, <2>2, TransferAssumption DEF IinOK
    <3>2. /\ Append(iin.got, f) \in Seq(Frame) /\ Len(Append(iin.got, f)) = Len(iin.got) + 1
          /\ \A j \in 1 .. Len(iin.got) : Append(iin.got, f)[j] = iin.got[j]
          /\ Append(iin.got, f)[Len(iin.got) + 1] = f
      BY <2>1, <2>2
    <3>3. \A j \in 1 .. Len(iin.got) + 1 : j \in 1 .. Len(iin.got) \/ j = Len(iin.got) + 1
      BY <3>1
    <3>4. \A j \in 1 .. Len(iin'.got) : iin'.got[j].id = iin'.id
      BY <1>4, <1>7, <2>2, <3>2, <3>3 DEF IinOK
    <3>5. iin' \in [id : ImageId \cup {None}, got : Seq(Frame)]
      BY <1>4, <1>7, <3>2 DEF IinOK
    <3>6. Len(iin'.got) <= Chunks
      BY <1>7, <2>2, <3>1, <3>2
    <3>7. QED
      BY <1>4, <2>2, <3>4, <3>5, <3>6 DEF IinOK
  <2>4. /\ wire["R"] \in Seq(Frame) /\ wire'["R"] \in Seq(Frame) /\ PreviewFlows /\ SendsPreview
        /\ \A t \in tasks : t.frame \in Frame
        /\ \A y : Got(iin, y) \in Seq(Frame)
        /\ iout' = iout /\ crossed' = crossed
    BY <1>1, <1>2, WireIsSeq, GotIsSeq DEF TInv, PreviewsThin, previewVars
  <2>5. Got(iin, x) = iin.got /\ Got(iin', x) = Append(iin.got, f)
        /\ \A y : y # x => Got(iin, y) = <<>> /\ Got(iin', y) = <<>>
    BY <2>2 DEF Got
  <2>6. ASSUME x \in Previews \ crossed
        PROVE  Flow(x, ImageTypes, "ImageChunk", tasks', wire'["R"], Got(iin', x))
    <3>1. Flow(x, ImageTypes, "ImageChunk", tasks, wire["R"], iin.got)
      BY <2>4, <2>5, <2>6 DEF PreviewFlows
    <3>2. Flow(x, ImageTypes, "ImageChunk", tasks, Tail(wire["R"]),
               Append(iin.got, Head(wire["R"])))
      BY <1>2, <2>1, <2>2, <2>4, <3>1, FlowTaken
    <3>3. QED
      BY <1>1, <1>2, <2>5, <3>2
  <2>7. ASSUME NEW y \in Previews \ crossed, y # x
        PROVE  Flow(y, ImageTypes, "ImageChunk", tasks', wire'["R"], Got(iin', y))
    <3>1. Flow(y, ImageTypes, "ImageChunk", tasks, wire["R"], Got(iin, y))
      BY <2>4 DEF PreviewFlows
    <3>2. Single(y, ImageTypes, tasks') /\ Fewer(tasks, tasks', y, "ImageChunk")
      BY <1>1, <3>1 DEF Flow, Fewer
    <3>3. Thins(wire["R"], wire'["R"], y, "ImageChunk")
      BY <1>2 DEF PreviewsThin
    <3>4. Got(iin', y) = <<>> /\ Got(iin', y) \in Seq(Frame)
      BY <2>5, <2>7, NothingGot
    <3>5. QED
      BY <2>4, <3>1, <3>2, <3>3, <3>4, FlowKept, TypesOfChunks
  <2>8. PreviewFlows'
    BY <2>4, <2>6, <2>7 DEF PreviewFlows
  <2>9. ASSUME iout.id # None, iout.id \notin crossed
        PROVE  Behind(iout.id, "ImageChunk", tasks', wire'["R"], Got(iin', iout.id), Top(iout))
    <3>1. /\ Top(iout) \in Nat
          /\ Behind(iout.id, "ImageChunk", tasks, wire["R"], Got(iin, iout.id), Top(iout))
      BY <2>4, <2>9, TopIsNat, HoldersNow DEF SendsPreview
    <3>2. CASE iout.id = x
      <4>1. Behind(x, "ImageChunk", tasks, Tail(wire["R"]),
                   Append(iin.got, Head(wire["R"])), Top(iout))
        BY <1>2, <2>1, <2>2, <2>4, <2>5, <3>1, <3>2, BehindTaken
      <4>2. QED
        BY <1>1, <1>2, <2>5, <3>2, <4>1
    <3>3. CASE iout.id # x
      <4>1. iout.id \in Previews /\ Thins(wire["R"], wire'["R"], iout.id, "ImageChunk")
        BY <1>2, <2>9, HoldersNow DEF PreviewsThin, IoutOK
      <4>2. Fewer(tasks, tasks', iout.id, "ImageChunk")
        BY <1>1 DEF Fewer
      <4>3. Got(iin', iout.id) = <<>> /\ Got(iin', iout.id) \in Seq(Frame)
        BY <2>5, <3>3, NothingGot
      <4>4. QED
        BY <2>4, <3>1, <4>1, <4>2, <4>3, BehindKept
    <3>4. QED
      BY <3>2, <3>3
  <2>10. SendsPreview'
    BY <1>1, <2>4, <2>9 DEF SendsPreview
  <2>11. UNCHANGED <<out, inc, kept>> /\ IsFiniteSet(used') /\ used \subseteq used'
         /\ IoutOK(iout', used') /\ used' = used
    BY <1>1, <2>4, HoldersNow DEF TInv, fileVars
  <2>12. QED
    BY <1>2, <1>3, <1>5, <2>3, <2>4, <2>8, <2>10, <2>11, PreviewSideStep
<1>8. QED
  BY <1>1, <1>6, <1>7

LEMMA ReadImageEndStep ==
  ASSUME TInv, NEW f, ReadImageEnd(f)
  PROVE  TInv'
PROOF
<1> DEFINE m == iin.id[1]
<1>1. /\ UNCHANGED <<linkVars, fileVars, previewVars, used>> /\ Pops("R", f)
      /\ tasks' = tasks /\ dropped' = dropped \ {f.id}
      /\ UNCHANGED <<osend, series, shared>>
  BY DEF ReadImageEnd
<1>2. \/ UNCHANGED <<iin, bubble, pend, cached, kept>>
      \/ /\ iin' = NoImage /\ bubble' = Failed(bubble)
         /\ UNCHANGED <<pend, cached, kept>>
      \/ /\ iin.id # None /\ iin' = NoImage /\ bubble' = [bubble EXCEPT ![m] = "Idle"]
         /\ Len(iin.got) = Chunks /\ (IsOriginal(iin.id) => Whole(iin.id, iin.got))
         /\ kept' = kept \cup {[id |-> iin.id, got |-> iin.got]}
         /\ pend' \subseteq pend /\ cached' \subseteq cached \cup {m}
  BY DEF ReadImageEnd
<1>3. WireOK(wire', used) /\ FilesThin /\ PreviewsThin
  BY <1>1, ReadStep DEF Ends
<1>4. NoNewData /\ TasksOK(tasks', used)
  BY <1>1, FewerTasks
<1>5. IinOK(iin', used) /\ GotKept(iin, iin') /\ IinOK(iin, used)
  BY <1>2, HoldersNow, GotSame, IdleHolders, IdleGot
<1>6. Rest'
  <2>1. CASE UNCHANGED <<bubble, pend, cached>>
    BY <1>1, <2>1 DEF TInv, Rest, linkVars
  <2>2. CASE bubble' = Failed(bubble) /\ UNCHANGED <<pend, cached>>
    BY <1>1, <2>2, FailedBubble DEF TInv, Rest, linkVars
  <2>3. CASE /\ iin.id # None /\ bubble' = [bubble EXCEPT ![m] = "Idle"]
             /\ pend' \subseteq pend /\ cached' \subseteq cached \cup {m}
    <3>1. m \in Images
      BY <1>5, <2>3, ImageIdParts DEF IinOK
    <3>2. QED
      BY <1>1, <2>3, <3>1 DEF TInv, Rest, linkVars
  <2>4. QED
    BY <1>2, <2>1, <2>2, <2>3
<1>7. CASE kept' = kept
  BY <1>1, <1>3, <1>4, <1>5, <1>6, <1>7, OriginalStep
<1>8. CASE /\ iin.id # None /\ Len(iin.got) = Chunks
           /\ (IsOriginal(iin.id) => Whole(iin.id, iin.got))
           /\ kept' = kept \cup {[id |-> iin.id, got |-> iin.got]}
  <2>1. UNCHANGED <<out, inc, iout, crossed, used>>
    BY <1>1 DEF fileVars, previewVars
  <2>2. Holders' /\ IsFiniteSet(used') /\ GotKept(inc, inc') /\ OutKept /\ IoutKept
    BY <1>4, <1>5, <2>1, GotSame, OutSame, IoutSame DEF TInv, Holders
  <2>3. Whole(iin.id, iin.got) \/ iin.id \in crossed
    <3>1. CASE IsOriginal(iin.id)
      BY <1>8, <3>1
    <3>2. CASE ~IsOriginal(iin.id) /\ iin.id \notin crossed
      <4>1. iin.id \in Previews
        <5>1. iin.id \in Images \X Nat /\ ~(iin.id[2] > 0)
          BY <1>5, <1>8, <3>2 DEF IinOK, ImageId, IsOriginal
        <5>2. iin.id[2] = 0
          BY <5>1
        <5>3. QED
          BY <5>1, <5>2 DEF Previews
      <4>2. Got(iin, iin.id) = iin.got
        BY DEF Got
      <4>3. InOrder(iin.got)
        BY <3>2, <4>1, <4>2 DEF TInv, PreviewFlows, Flow
      <4>4. QED
        BY <1>5, <1>8, <4>3, WholeWhenFull DEF IinOK
    <3>3. QED
      BY <3>1, <3>2
  <2>4. ReceivedWhole'
    BY <1>8, <2>1, <2>3 DEF TInv, ReceivedWhole
  <2>5. QED
    BY <1>3, <1>4, <1>5, <1>6, <2>1, <2>2, <2>4, QuietStep
<1>9. QED
  BY <1>2, <1>7, <1>8

-----------------------------------------------------------------------------
(* Steps of originals *)

LEMMA RequestOriginalStep ==
  ASSUME TInv, NEW m \in Images, RequestOriginal(m)
  PROVE  TInv'
PROOF
<1> DEFINE f == F("Request", <<m, 0>>)
<1>1. /\ UNCHANGED <<linkVars, fileVars, previewVars, iin, used, kept>> /\ wire' = wire
      /\ tasks' = tasks \cup {NewTask("R", f)}
      /\ UNCHANGED <<osend, series, dropped, cached, shared>>
      /\ pend' = pend \cup {m} /\ bubble' = [bubble EXCEPT ![m] = "Requesting"]
  BY DEF RequestOriginal
<1>2. FrameOK(f, used) /\ f.type \notin DataTypes
  <2>1. <<m, 0>> \in ImageId /\ f = [type |-> "Request", id |-> <<m, 0>>, n |-> 0]
        /\ 0 \in 0 .. Chunks
    BY TransferAssumption DEF F, ImageId
  <2>2. QED
    BY <2>1 DEF FrameOK, Frame, DataTypes, FileTypes, ImageTypes
<1> HIDE DEF f
<1>3. NoNewData /\ TasksOK(tasks', used)
  BY <1>1, <1>2, SpawnStep DEF NoNewData, NoNew, Ends
<1>4. FilesThin /\ PreviewsThin /\ WireOK(wire', used)
  BY <1>1, WireSame
<1>5. IinOK(iin', used) /\ GotKept(iin, iin')
  BY <1>1, HoldersNow, GotSame
<1>6. Rest'
  BY <1>1 DEF TInv, Rest, linkVars, Waiting
<1>7. QED
  BY <1>1, <1>3, <1>4, <1>5, <1>6, OriginalStep

LEMMA RequestSentStep ==
  ASSUME TInv, NEW t \in tasks, RequestSent(t)
  PROVE  TInv'
PROOF
<1> DEFINE m == t.frame.id[1]
<1>1. /\ UNCHANGED <<linkVars, fileVars, previewVars, iin, used, kept>> /\ wire' = wire
      /\ tasks' = tasks \ {t} /\ t.frame.type = "Request"
      /\ UNCHANGED <<osend, series, dropped, cached, shared>>
      /\ pend' \subseteq pend /\ bubble' \in {bubble, [bubble EXCEPT ![m] = "Failed"]}
  BY DEF RequestSent
<1>2. NoNewData /\ TasksOK(tasks', used) /\ FilesThin /\ PreviewsThin /\ WireOK(wire', used)
  BY <1>1, FewerTasks, WireSame
<1>3. IinOK(iin', used) /\ GotKept(iin, iin')
  BY <1>1, HoldersNow, GotSame
<1>4. m \in Images
  BY <1>1, HoldersNow, ImageIdParts DEF FrameOK
<1>5. Rest'
  BY <1>1, <1>4 DEF TInv, Rest, linkVars
<1>6. QED
  BY <1>1, <1>2, <1>3, <1>5, OriginalStep

LEMMA CancelOriginalStep ==
  ASSUME TInv, NEW m \in Images, CancelOriginal(m)
  PROVE  TInv'
PROOF
<1> DEFINE x == <<m, 0>>
<1>1. /\ UNCHANGED <<linkVars, fileVars, previewVars, used, kept>> /\ wire' = wire
      /\ tasks' = Spawn(tasks, "R", F("CancelImage", x))
      /\ UNCHANGED <<osend, series, cached, shared>>
      /\ pend' = pend \ {m} /\ bubble' = [bubble EXCEPT ![m] = "Cancelled"]
      /\ \/ dropped' = dropped /\ iin' = iin
         \/ iin.id # None /\ dropped' = dropped \cup {iin.id} /\ iin' = NoImage
  BY DEF CancelOriginal, IsOriginal
<1>2. x \in FileId \cup ImageId \cup {None}
  BY DEF ImageId
<1> HIDE DEF x
<1>3. NoNewData /\ TasksOK(tasks', used)
  BY <1>1, <1>2, PlainSpawn DEF Ends
<1>4. FilesThin /\ PreviewsThin /\ WireOK(wire', used)
  BY <1>1, WireSame
<1>5. IinOK(iin', used) /\ GotKept(iin, iin') /\ IinOK(iin, used)
  BY <1>1, HoldersNow, GotSame, IdleHolders, IdleGot
<1>6. dropped' \subseteq ImageId
  BY <1>1, <1>5 DEF TInv, Rest, IinOK
<1>7. Rest'
  BY <1>1, <1>6 DEF TInv, Rest, linkVars
<1>8. QED
  BY <1>1, <1>3, <1>4, <1>5, <1>7, OriginalStep

LEMMA ReadRequestStep ==
  ASSUME TInv, NEW f, ReadRequest(f)
  PROVE  TInv'
PROOF
<1> DEFINE m == f.id[1]
           earlier == {u \in used : u[1] = m /\ u[2] > 0}
           id == <<m, 1 + Cardinality(earlier)>>
           q == [id |-> id, conn |-> conn, next |-> 0, cancelled |-> FALSE, st |-> "run"]
<1>1. /\ UNCHANGED <<linkVars, fileVars, previewVars, iin, kept>> /\ Pops("S", f)
      /\ UNCHANGED <<pend, bubble, dropped, cached, shared>> /\ f.type = "Request"
      /\ \/ /\ tasks' = Spawn(tasks, "S", F("Unavailable", f.id))
            /\ UNCHANGED <<osend, series, used>>
         \/ UNCHANGED <<tasks, osend, series, used>>
         \/ /\ osend' = id /\ series' = series \cup {q} /\ used' = used \cup {id}
            /\ UNCHANGED tasks
  BY DEF ReadRequest
<1>2. WireOK(wire', used) /\ FilesThin /\ PreviewsThin /\ FrameOK(f, used)
  BY <1>1, ReadStep DEF Ends
<1>3. f.id \in ImageId /\ m \in Images /\ f.id \in FileId \cup ImageId \cup {None}
  BY <1>1, <1>2, ImageIdParts DEF FrameOK
<1>4. NoNewData /\ TasksOK(tasks', used)
  <2>1. CASE tasks' = Spawn(tasks, "S", F("Unavailable", f.id))
    BY <1>3, <2>1, PlainSpawn DEF Ends
  <2>2. CASE tasks' = tasks
    BY <2>2, FewerTasks
  <2>3. QED
    BY <1>1, <2>1, <2>2
<1>5. IinOK(iin, used) /\ GotKept(iin, iin')
  BY <1>1, HoldersNow, GotSame
<1>6. CASE UNCHANGED <<osend, series, used>>
  <2>1. Rest'
    BY <1>1, <1>6 DEF TInv, Rest, linkVars
  <2>2. QED
    BY <1>1, <1>2, <1>4, <1>5, <1>6, <2>1, OriginalStep
<1>7. CASE osend' = id /\ series' = series \cup {q} /\ used' = used \cup {id}
  <2>1. Cardinality(earlier) \in Nat /\ IsFiniteSet(used)
    BY FS_Subset, FS_CardinalityType DEF TInv
  <2> HIDE DEF earlier
  <2>2. 1 + Cardinality(earlier) \in Nat /\ 1 + Cardinality(earlier) > 0
    BY <2>1
  <2>3. id \in ImageId /\ id[2] > 0
    BY <1>3, <2>2 DEF ImageId
  <2> HIDE DEF id
  <2>4. used \subseteq used' /\ id \in used' /\ IsFiniteSet(used')
    BY <1>7, <2>1, FS_AddElement
  <2>5. SeriesOK(q, used')
    <3>1. conn \in 1 .. MaxConns /\ 0 \in 0 .. Chunks + 2 /\ 0 <= Chunks + 1
      BY TransferAssumption DEF TInv, Rest
    <3>2. QED
      BY <2>3, <2>4, <3>1 DEF SeriesOK, Series
  <2>6. Rest'
    <3>1. \A p \in series : SeriesOK(p, used')
      BY <2>4, NewerTransfers DEF TInv, Rest
    <3>2. \A p \in series' : SeriesOK(p, used')
      BY <1>7, <2>5, <3>1
    <3>3. QED
      BY <1>1, <1>7, <2>3, <3>2 DEF TInv, Rest, linkVars
  <2>7. WireOK(wire', used') /\ TasksOK(tasks', used')
    BY <1>2, <1>4, <2>4, NewerTransfers
  <2>8. UNCHANGED <<out, iout, inc, iin, crossed, kept>>
    BY <1>1 DEF fileVars, previewVars
  <2>9. Holders'
    <3>1. OutOK(out, used') /\ IoutOK(iout, used') /\ IncOK(inc, used') /\ IinOK(iin, used')
      BY <2>4, NewerTransfers, HoldersNow
    <3>2. QED
      BY <2>8, <3>1 DEF Holders
  <2>10. ReceivedWhole' /\ GotKept(inc, inc') /\ OutKept /\ IoutKept
    BY <1>4, <2>8, KeptSame, GotSame, OutSame, IoutSame
  <2>11. QED
    BY <1>2, <1>4, <1>5, <2>4, <2>6, <2>7, <2>8, <2>9, <2>10, QuietStep
<1>8. QED
  BY <1>1, <1>6, <1>7

LEMMA ReadCancelImageStep ==
  ASSUME TInv, NEW f, ReadCancelImage(f)
  PROVE  TInv'
PROOF
<1> DEFINE hit == {q \in series : q.id = osend /\ q.id[1] = f.id[1]}
<1>1. /\ UNCHANGED <<linkVars, fileVars, previewVars, iin, used, kept>> /\ Pops("S", f)
      /\ UNCHANGED <<tasks, osend, pend, bubble, dropped, cached, shared>>
      /\ series' = (series \ hit) \cup {[q EXCEPT !.cancelled = TRUE] : q \in hit}
  BY DEF ReadCancelImage
<1>2. WireOK(wire', used) /\ FilesThin /\ PreviewsThin
  BY <1>1, ReadStep DEF Ends
<1>3. NoNewData /\ TasksOK(tasks', used)
  BY <1>1, FewerTasks
<1>4. IinOK(iin', used) /\ GotKept(iin, iin')
  BY <1>1, HoldersNow, GotSame
<1>5. \A q \in series' : SeriesOK(q, used)
  <2>1. ASSUME NEW q \in series PROVE SeriesOK([q EXCEPT !.cancelled = TRUE], used)
    BY DEF TInv, Rest, SeriesOK, Series
  <2>2. QED
    BY <1>1, <2>1 DEF TInv, Rest
<1>6. Rest'
  BY <1>1, <1>5 DEF TInv, Rest, linkVars
<1>7. QED
  BY <1>1, <1>2, <1>3, <1>4, <1>6, OriginalStep

LEMMA ReadUnavailableStep ==
  ASSUME TInv, NEW f, ReadUnavailable(f)
  PROVE  TInv'
PROOF
<1> DEFINE m == f.id[1]
<1>1. /\ UNCHANGED <<linkVars, fileVars, previewVars, iin, used, kept>> /\ Pops("R", f)
      /\ UNCHANGED <<tasks, osend, series, dropped, cached, shared>>
      /\ pend' = pend \ {m}
      /\ \/ bubble' = bubble
         \/ m \in pend /\ bubble' = [bubble EXCEPT ![m] = "Unavailable"]
  BY DEF ReadUnavailable
<1>2. WireOK(wire', used) /\ FilesThin /\ PreviewsThin
  BY <1>1, ReadStep DEF Ends
<1>3. NoNewData /\ TasksOK(tasks', used)
  BY <1>1, FewerTasks
<1>4. IinOK(iin', used) /\ GotKept(iin, iin')
  BY <1>1, HoldersNow, GotSame
<1>5. Rest'
  BY <1>1 DEF TInv, Rest, linkVars
<1>6. QED
  BY <1>1, <1>2, <1>3, <1>4, <1>5, OriginalStep

LEMMA WireAppended ==
  ASSUME NEW us, NEW w, WireOK(w, us), NEW e \in Ends, NEW f, FrameOK(f, us)
  PROVE  WireOK([w EXCEPT ![e] = Append(w[e], f)], us)
PROOF
<1> DEFINE v == [w EXCEPT ![e] = Append(w[e], f)]
<1>1. w \in [Ends -> Seq(Frame)] /\ w[e] \in Seq(Frame) /\ f \in Frame
  BY DEF WireOK, FrameOK
<1>2. /\ Append(w[e], f) \in Seq(Frame) /\ Len(Append(w[e], f)) = Len(w[e]) + 1
      /\ Len(w[e]) \in Nat
      /\ \A i \in 1 .. Len(w[e]) : Append(w[e], f)[i] = w[e][i]
      /\ Append(w[e], f)[Len(w[e]) + 1] = f
  BY <1>1
<1>3. /\ v \in [Ends -> Seq(Frame)] /\ v[e] = Append(w[e], f)
      /\ \A d \in Ends : d # e => v[d] = w[d]
  BY <1>1, <1>2
<1> HIDE DEF v
<1>4. ASSUME NEW d \in Ends, NEW i \in 1 .. Len(v[d]) PROVE FrameOK(v[d][i], us)
  <2>1. CASE d = e
    <3>1. i \in 1 .. Len(w[e]) \/ i = Len(w[e]) + 1
      BY <1>2, <1>3, <2>1
    <3>2. CASE i = Len(w[e]) + 1
      BY <1>2, <1>3, <2>1, <3>2
    <3>3. CASE i \in 1 .. Len(w[e])
      BY <1>2, <1>3, <2>1, <3>3 DEF WireOK
    <3>4. QED
      BY <3>1, <3>2, <3>3
  <2>2. CASE d # e
    BY <1>3, <2>2 DEF WireOK
  <2>3. QED
    BY <2>1, <2>2
<1>5. QED
  BY <1>3, <1>4 DEF WireOK, v

(* The frames of an original are not those of a preview. *)
LEMMA OriginalFrame ==
  ASSUME TInv, NEW q \in series, NEW f,
         f = CASE q.next = 0 -> F("Header", q.id)
               [] q.next \in 1 .. Chunks -> Chunk("ImageChunk", q.id, q.next)
               [] OTHER -> F("ImageEnd", q.id)
  PROVE  /\ FrameOK(f, used) /\ f.type # "Chunk" /\ f.id \notin Previews
PROOF
<1>1. /\ q.id \in ImageId \cap used /\ q.id[2] > 0
      /\ 0 \in 0 .. Chunks /\ 1 .. Chunks \subseteq 0 .. Chunks
  BY TransferAssumption DEF TInv, Rest, SeriesOK, Series
<1>2. q.id \notin Previews
  BY <1>1 DEF Previews
<1>3. \/ f = [type |-> "Header", id |-> q.id, n |-> 0]
      \/ q.next \in 1 .. Chunks /\ f = [type |-> "ImageChunk", id |-> q.id, n |-> q.next]
      \/ f = [type |-> "ImageEnd", id |-> q.id, n |-> 0]
  BY DEF F, Chunk
<1>4. f \in Frame /\ f.id = q.id
  BY <1>1, <1>3 DEF Frame
<1>5. QED
  BY <1>1, <1>2, <1>3, <1>4 DEF FrameOK, FileTypes

LEMMA SendOriginalStep ==
  ASSUME TInv, NEW q \in series, NEW ok, SendOriginal(q, ok)
  PROVE  TInv'
PROOF
<1> DEFINE f == CASE q.next = 0 -> F("Header", q.id)
                  [] q.next \in 1 .. Chunks -> Chunk("ImageChunk", q.id, q.next)
                  [] OTHER -> F("ImageEnd", q.id)
<1>1. /\ UNCHANGED <<linkVars, fileVars, previewVars, iin, used, kept>>
      /\ UNCHANGED <<tasks, osend, pend, bubble, dropped, cached, shared>>
      /\ wire' \in {wire, [wire EXCEPT !["R"] = Append(wire["R"], f)]}
  BY DEF SendOriginal
<1>2. \/ series' = (series \ {q}) \cup {[q EXCEPT !.st = "done"]}
      \/ q.next # Chunks + 1 /\ series' = (series \ {q}) \cup {[q EXCEPT !.next = q.next + 1]}
  BY DEF SendOriginal
<1>3. FrameOK(f, used) /\ f.type # "Chunk" /\ f.id \notin Previews
  BY OriginalFrame
<1> HIDE DEF f
<1>4. NoNewData /\ TasksOK(tasks', used)
  BY <1>1, FewerTasks
<1>5. IinOK(iin', used) /\ GotKept(iin, iin')
  BY <1>1, HoldersNow, GotSame
<1>6. WireOK(wire', used) /\ FilesThin /\ PreviewsThin
  <2>1. CASE wire' = wire
    BY <2>1, WireSame
  <2>2. CASE wire' = [wire EXCEPT !["R"] = Append(wire["R"], f)]
    <3>1. WireOK(wire, used) /\ wire["R"] \in Seq(Frame) /\ f \in Frame
      BY <1>3, WireIsSeq DEF TInv, Frames, FrameOK
    <3>2. WireOK(wire', used)
      BY <1>3, <2>2, <3>1, WireAppended DEF Ends
    <3>3. wire'["R"] = Append(wire["R"], f) /\ wire'["R"] \in Seq(Frame)
      BY <2>2, <3>1 DEF WireOK, Ends
    <3>4. \A x \in FileId : Thins(wire["R"], wire'["R"], x, "Chunk")
      BY <1>3, <3>1, <3>3, ThinsOther DEF IsChunk
    <3>5. \A x \in Previews : Thins(wire["R"], wire'["R"], x, "ImageChunk")
      BY <1>3, <3>1, <3>3, ThinsOther DEF IsChunk
    <3>6. QED
      BY <3>2, <3>3, <3>4, <3>5 DEF FilesThin, PreviewsThin
  <2>3. QED
    BY <1>1, <2>1, <2>2
<1>7. \A p \in series' : SeriesOK(p, used)
  <2>1. SeriesOK(q, used) /\ Chunks \in Nat /\ q.next \in Nat
    BY TransferAssumption DEF TInv, Rest, SeriesOK, Series
  <2>2. SeriesOK([q EXCEPT !.st = "done"], used)
    BY <2>1 DEF SeriesOK, Series
  <2>3. ASSUME q.next # Chunks + 1 PROVE SeriesOK([q EXCEPT !.next = q.next + 1], used)
    <3>1. q.next + 1 \in 0 .. Chunks + 2 /\ q.next + 1 <= Chunks + 1
      BY <2>1, <2>3 DEF SeriesOK
    <3>2. QED
      BY <2>1, <3>1 DEF SeriesOK, Series
  <2>4. QED
    BY <1>2, <2>2, <2>3 DEF TInv, Rest
<1>8. Rest'
  BY <1>1, <1>7 DEF TInv, Rest, linkVars
<1>9. QED
  BY <1>1, <1>4, <1>5, <1>6, <1>8, OriginalStep

LEMMA OriginalImageSendFinishedStep ==
  ASSUME TInv, NEW q \in series, OriginalImageSendFinished(q)
  PROVE  TInv'
PROOF
<1>1. /\ UNCHANGED <<linkVars, fileVars, previewVars, iin, used, kept>>
      /\ UNCHANGED <<wire, tasks, pend, bubble, dropped, cached, shared>>
      /\ series' = series \ {q} /\ osend' \in {osend, None}
  BY DEF OriginalImageSendFinished
<1>2. NoNewData /\ TasksOK(tasks', used) /\ FilesThin /\ PreviewsThin /\ WireOK(wire', used)
  BY <1>1, FewerTasks, WireSame
<1>3. IinOK(iin', used) /\ GotKept(iin, iin')
  BY <1>1, HoldersNow, GotSame
<1>4. Rest'
  BY <1>1 DEF TInv, Rest, linkVars
<1>5. QED
  BY <1>1, <1>2, <1>3, <1>4, OriginalStep

-----------------------------------------------------------------------------
(* The write of a frame, by its task *)

(* Task t becomes s, which carries the same frame, or is over. *)
LEMMA WriteThins ==
  ASSUME NEW x, NEW c, NEW w \in Seq(Frame), NEW v, NEW f \in Frame,
         v \in {w, Append(w, f)}, ~(v = Append(w, f) /\ IsChunk(f, x, c))
  PROVE  Thins(w, v, x, c)
PROOF
<1>1. CASE v = w
  BY <1>1, ThinsSame
<1>2. CASE v = Append(w, f) /\ ~IsChunk(f, x, c)
  BY <1>2, ThinsOther
<1>3. QED
  BY <1>1, <1>2

LEMMA WriteFlow ==
  ASSUME NEW x, NEW D, NEW c \in D, NEW T, NEW U, NEW w \in Seq(Frame), NEW v,
         NEW g \in Seq(Frame), NEW t \in T, NEW s, \A u \in T : u.frame \in Frame,
         t.st = "new", s.st # "new", s.frame = t.frame, U \subseteq (T \ {t}) \cup {s},
         v \in {w, Append(w, t.frame)}, Flow(x, D, c, T, w, g)
  PROVE  Flow(x, D, c, U, v, g)
PROOF
<1>1. Fewer(T, U, x, c) /\ t.frame \in Frame /\ v \in Seq(Frame)
  BY DEF Fewer
<1>2. CASE v = Append(w, t.frame) /\ IsChunk(t.frame, x, c)
  BY <1>1, <1>2, FlowWritten
<1>3. CASE ~(v = Append(w, t.frame) /\ IsChunk(t.frame, x, c))
  <2>1. Thins(w, v, x, c)
    BY <1>1, <1>3, WriteThins
  <2>2. ASSUME NEW a \in U, NEW b \in U, IsOf(a.frame, x, D), IsOf(b.frame, x, D)
        PROVE  a = b
    <3>1. CASE IsOf(t.frame, x, D)
      <4>1. \A u \in T : IsOf(u.frame, x, D) => u = t
        BY <3>1 DEF Flow, Single
      <4>2. QED
        BY <2>2, <4>1
    <3>2. CASE ~IsOf(t.frame, x, D)
      <4>1. a \in T /\ b \in T
        BY <2>2, <3>2
      <4>2. QED
        BY <2>2, <4>1 DEF Flow, Single
    <3>3. QED
      BY <3>1, <3>2
  <2>3. Single(x, D, U)
    BY <2>2 DEF Single
  <2>4. QED
    BY <1>1, <2>1, <2>3, FlowKept
<1>4. QED
  BY <1>2, <1>3

LEMMA WriteBehind ==
  ASSUME NEW x, NEW c, NEW T, NEW U, NEW w \in Seq(Frame), NEW v,
         NEW g \in Seq(Frame), NEW t \in T, NEW s, t.frame \in Frame, NEW n \in Nat,
         t.st = "new", s.st # "new", U \subseteq (T \ {t}) \cup {s},
         v \in {w, Append(w, t.frame)}, Behind(x, c, T, w, g, n)
  PROVE  Behind(x, c, U, v, g, n)
PROOF
<1>1. Fewer(T, U, x, c) /\ v \in Seq(Frame)
  BY DEF Fewer
<1>2. CASE v = Append(w, t.frame) /\ IsChunk(t.frame, x, c)
  BY <1>1, <1>2, BehindWritten
<1>3. CASE ~(v = Append(w, t.frame) /\ IsChunk(t.frame, x, c))
  <2>1. Thins(w, v, x, c)
    BY <1>3, WriteThins
  <2>2. QED
    BY <1>1, <2>1, BehindKept
<1>4. QED
  BY <1>2, <1>3

LEMMA WriteStep ==
  ASSUME TInv, NEW t \in tasks, NEW st \in {"ok", "err"}, Write(t, st)
  PROVE  TInv'
PROOF
<1> DEFINE s == [t EXCEPT !.st = st]
           p == Peer(t.end)
<1>1. /\ UNCHANGED <<linkVars, fileVars, imageVars, used, kept>> /\ t.st = "new"
      /\ wire' \in {wire, [wire EXCEPT ![p] = Append(wire[p], t.frame)]}
      /\ tasks' \subseteq (tasks \ {t}) \cup {s}
  BY DEF Write
<1>2. t \in Task /\ FrameOK(t.frame, used) /\ TasksOK(tasks, used) /\ WireOK(wire, used)
  BY DEF TInv, Frames, TasksOK
<1>3. s \in Task /\ s.frame = t.frame /\ s.st # "new"
  BY <1>2 DEF Task
<1>4. p \in Ends
  BY DEF Peer, Ends
<1> HIDE DEF s, p
<1>5. TasksOK(tasks', used)
  BY <1>1, <1>2, <1>3 DEF TasksOK
<1>6. WireOK(wire', used)
  BY <1>1, <1>2, <1>4, WireAppended
<1>7. /\ wire["R"] \in Seq(Frame) /\ \A u \in tasks : u.frame \in Frame
      /\ \A x : Got(inc, x) \in Seq(Frame) /\ Got(iin, x) \in Seq(Frame)
  BY WireIsSeq, GotIsSeq DEF TInv
<1>8. wire'["R"] \in {wire["R"], Append(wire["R"], t.frame)}
  BY <1>1, <1>2, <1>4 DEF WireOK, Ends
<1>9. UNCHANGED <<conn, live, out, iout, inc, iin, crossed, osend, series, pend, shared,
                  cached, bubble, dropped, used, kept>>
  BY <1>1 DEF linkVars, fileVars, imageVars, previewVars, originalVars
<1>10. \A o, D, k : InFlight(o, D, k, tasks) => InFlight(o, D, k, tasks')
  BY <1>1, <1>3 DEF InFlight
<1>11. FileFlows'
  <2>1. ASSUME NEW x \in FileId
        PROVE  Flow(x, FileTypes, "Chunk", tasks', wire'["R"], Got(inc, x))
    <3>1. Flow(x, FileTypes, "Chunk", tasks, wire["R"], Got(inc, x))
      BY DEF TInv, FileFlows
    <3>2. QED
      BY <1>1, <1>3, <1>7, <1>8, <3>1, WriteFlow, TypesOfChunks
  <2>2. QED
    BY <1>9, <2>1 DEF FileFlows
<1>12. SendsFile'
  <2>1. ASSUME out.id # None
        PROVE  Behind(out.id, "Chunk", tasks', wire'["R"], Got(inc, out.id), Top(out))
    <3>1. /\ Behind(out.id, "Chunk", tasks, wire["R"], Got(inc, out.id), Top(out))
          /\ Top(out) \in Nat
      BY <2>1, TopIsNat, HoldersNow DEF TInv, SendsFile
    <3>2. QED
      BY <1>1, <1>3, <1>7, <1>8, <3>1, WriteBehind
  <2>2. out.id # None => InFlight(out, FileTypes, FileType(out.phase), tasks')
    BY <1>10 DEF TInv, SendsFile
  <2>3. QED
    BY <1>9, <2>1, <2>2 DEF SendsFile
<1>13. PreviewFlows'
  <2>1. ASSUME NEW x \in Previews \ crossed
        PROVE  Flow(x, ImageTypes, "ImageChunk", tasks', wire'["R"], Got(iin, x))
    <3>1. Flow(x, ImageTypes, "ImageChunk", tasks, wire["R"], Got(iin, x))
      BY DEF TInv, PreviewFlows
    <3>2. QED
      BY <1>1, <1>3, <1>7, <1>8, <3>1, WriteFlow, TypesOfChunks
  <2>2. QED
    BY <1>9, <2>1 DEF PreviewFlows
<1>14. SendsPreview'
  <2>1. ASSUME iout.id # None, iout.id \notin crossed
        PROVE  Behind(iout.id, "ImageChunk", tasks', wire'["R"], Got(iin, iout.id), Top(iout))
    <3>1. /\ Behind(iout.id, "ImageChunk", tasks, wire["R"], Got(iin, iout.id), Top(iout))
          /\ Top(iout) \in Nat
      BY <2>1, TopIsNat, HoldersNow DEF TInv, SendsPreview
    <3>2. QED
      BY <1>1, <1>3, <1>7, <1>8, <3>1, WriteBehind
  <2>2. iout.id # None /\ iout.id \notin crossed =>
          InFlight(iout, ImageTypes, ImageType(iout.phase), tasks')
    BY <1>10 DEF TInv, SendsPreview
  <2>3. QED
    BY <1>9, <2>1, <2>2 DEF SendsPreview
<1>15. (Rest /\ IsFiniteSet(used))' /\ Holders' /\ ReceivedWhole'
  BY <1>9, RestSame, HoldersSame, KeptSame
<1>16. Frames'
  BY <1>5, <1>6, <1>9 DEF Frames
<1>17. QED
  BY <1>11, <1>12, <1>13, <1>14, <1>15, <1>16 DEF TInv

-----------------------------------------------------------------------------
(* The invariant *)

LEMMA TInit == Init => TInv
PROOF
<1> SUFFICES ASSUME Init PROVE TInv
  OBVIOUS
<1>1. Rest
  BY TransferAssumption DEF Init, Rest, Ends
<1>2. IsFiniteSet(used)
  BY FS_EmptySet DEF Init
<1>3. Frames
  BY DEF Init, Frames, TasksOK, WireOK
<1>4. Holders
  BY IdleHolders DEF Init, Holders
<1>5. /\ tasks = {} /\ wire["R"] = <<>> /\ crossed = {}
      /\ \A x : Got(inc, x) = <<>> /\ Got(iin, x) = <<>>
  BY DEF Init, Got, NoInc, NoImage, Ends
<1>6. \A x, D, c : Flow(x, D, c, {}, <<>>, <<>>)
  BY DEF Flow, Single, InOrder
<1>7. FileFlows /\ PreviewFlows
  BY <1>5, <1>6 DEF FileFlows, PreviewFlows
<1>8. SendsFile /\ SendsPreview
  BY IdleGot DEF Init, SendsFile, SendsPreview
<1>9. ReceivedWhole
  BY DEF Init, ReceivedWhole
<1>10. QED
  BY <1>1, <1>2, <1>3, <1>4, <1>7, <1>8, <1>9 DEF TInv

LEMMA ResultsStep ==
  ASSUME TInv, Results
  PROVE  TInv'
PROOF
<1>1. PICK t \in tasks : \/ \E st \in {"ok", "err"} : Write(t, st)
                         \/ FileSent(t) \/ ImageSent(t) \/ RequestSent(t)
                         \/ IncomingFileAcceptSent(t)
  BY DEF Results
<1>2. QED
  BY <1>1, WriteStep, FileSentStep, ImageSentStep, RequestSentStep, IncomingFileAcceptSentStep

LEMMA ReadsStep ==
  ASSUME TInv, Reads
  PROVE  TInv'
PROOF
<1>1. PICK f : \/ ReadOffer(f) \/ ReadFileAnswer(f) \/ ReadFileCancel(f) \/ ReadChunk(f)
               \/ ReadEnd(f) \/ ReadHeader(f) \/ ReadImageChunk(f) \/ ReadImageEnd(f)
               \/ ReadRequest(f) \/ ReadCancelImage(f) \/ ReadUnavailable(f)
  BY DEF Reads
<1>2. QED
  BY <1>1, ReadOfferStep, ReadFileAnswerStep, ReadFileCancelStep, ReadChunkStep, ReadEndStep,
     ReadHeaderStep, ReadImageChunkStep, ReadImageEndStep, ReadRequestStep,
     ReadCancelImageStep, ReadUnavailableStep

LEMMA OriginalsStep ==
  ASSUME TInv, Originals
  PROVE  TInv'
PROOF BY SendOriginalStep, OriginalImageSendFinishedStep DEF Originals

LEMMA ProgressStep ==
  ASSUME TInv, Progress
  PROVE  TInv'
PROOF BY ResultsStep, ReadsStep, OriginalsStep, PumpFileStep, PumpImageStep, OfferExpiresStep,
         IncomingOfferExpiresStep, InterruptedStep, KeysReadyStep DEF Progress

LEMMA UsersStep ==
  ASSUME TInv, Users
  PROVE  TInv'
PROOF BY FileChosenStep, ImageChosenStep, RequestOriginalStep, CancelOriginalStep,
         AcceptIncomingFileStep, CancelIncomingFileStep, CancelOutgoingFileStep,
         DisconnectStep DEF Users

LEMMA TStep == TInv /\ [Next]_vars => TInv'
PROOF
<1> SUFFICES ASSUME TInv, [Next]_vars PROVE TInv'
  OBVIOUS
<1>1. CASE Next
  BY <1>1, ProgressStep, UsersStep, ReconnectStep, FileEndsEarlyStep, FileReadFailsStep,
     InterruptedStep, LeavesCacheStep DEF Next
<1>2. CASE UNCHANGED vars
  <2>1. UNCHANGED <<linkVars, fileVars, imageVars, used, kept, tasks, wire>>
    BY <1>2 DEF vars
  <2>2. UNCHANGED <<out, inc>>
    BY <2>1 DEF fileVars
  <2>3. NoNewData /\ TasksOK(tasks', used) /\ FilesThin /\ PreviewsThin /\ WireOK(wire', used)
    BY <2>1, FewerTasks, WireSame
  <2>4. OutOK(out', used) /\ IncOK(inc', used) /\ GotKept(inc, inc') /\ OutKept
    BY <2>2, <2>3, HoldersNow, GotSame, OutSame
  <2>5. QED
    BY <2>1, <2>3, <2>4, FileStep
<1>3. QED
  BY <1>1, <1>2

LEMMA TInvAlways == Spec => []TInv
PROOF BY TInit, TStep, PTL DEF Spec

LEMMA TInvTypes == TInv => TypeOK
PROOF
<1> SUFFICES ASSUME TInv PROVE TypeOK
  OBVIOUS
<1>1. OutOK(out, used) /\ IoutOK(iout, used) /\ IncOK(inc, used) /\ IinOK(iin, used)
  BY HoldersNow
<1>2. /\ conn \in 1 .. MaxConns
      /\ live \in [Ends -> {"off", "shaking", "ready"}]
      /\ wire \in [Ends -> Seq(Frame)] /\ tasks \subseteq Task
      /\ osend \in ImageId \cup {None} /\ series \subseteq Series
      /\ pend \subseteq Images /\ shared \subseteq Images /\ cached \subseteq Images
      /\ bubble \in [Images -> Waiting \cup {"None", "Idle", "Cancelled", "Failed",
                                             "Unavailable"}]
      /\ dropped \subseteq ImageId /\ used \subseteq FileId \cup ImageId
  BY DEF TInv, Rest, Frames, WireOK, TasksOK, SeriesOK
<1>3. /\ out.id \in FileId \cup {None} /\ out.flight \in BOOLEAN
      /\ {out.next, out.sent} \subseteq 0 .. Chunks
      /\ out.phase \in {"Idle", "Offer", "Await", "Chunks", "End"}
      /\ out.phase = "Idle" <=> out.id = None
  BY <1>1 DEF OutOK
<1>4. /\ iout.id \in ImageId \cup {None} /\ iout.flight \in BOOLEAN
      /\ iout.next = 0 /\ iout.sent \in Nat
      /\ iout.phase \in {"Idle", "Header", "Chunks", "End"}
  BY <1>1, NoneIsNoId DEF IoutOK
<1>5. inc.id \in FileId \cup {None} /\ inc.open \in BOOLEAN
      /\ inc.got \in Seq(Frame) /\ Len(inc.got) <= Chunks
  BY <1>1 DEF IncOK
<1>6. iin.id \in ImageId \cup {None} /\ iin.got \in Seq(Frame) /\ Len(iin.got) <= Chunks
  BY <1>1 DEF IinOK
<1>7. QED
  BY <1>2, <1>3, <1>4, <1>5, <1>6 DEF TypeOK

(* The state keeps its types: the ids that the two ends hold, the counters *)
(* of the chunks and the frames on their way stay within the transfers and *)
(* their sizes, and a sender without a file is idle.                       *)
THEOREM TransferTypeCorrect == Spec => []TypeOK
PROOF BY TInvAlways, TInvTypes, PTL

(* What R keeps is the whole file, or the whole image, in order: a chunk   *)
(* that was lost, or that came for another transfer, is never made up for  *)
(* by the number of chunks alone, which is all that is counted of a file   *)
(* and of a preview.                                                       *)
THEOREM ReceivedIsWhole == Spec => []ReceivedWhole
PROOF
<1>1. TInv => ReceivedWhole
  BY DEF TInv
<1>2. QED
  BY <1>1, TInvAlways, PTL
=============================================================================
