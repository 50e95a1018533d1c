----------------------- MODULE DeadDropServerProofs -----------------------
(***************************************************************************)
(* The proof that DeadDropServer implements BlobStore: each step of a      *)
(* handler, of the collector and of time is a step of the store or leaves  *)
(* it alone.  Then the limits of a drop and its temporary files.           *)
(***************************************************************************)
EXTENDS DeadDropServer, FiniteSetTheorems, TLAPS

Places == {"none", "command", "admit", "data", "check", "create", "write",
           "rename", "stat", "remove", "read", "answer"}
Answers == Blobs \cup {"OK", "EXISTS", "MISS", "ERR", NoAnswer}
Requests == PutRequest \cup GetRequest

Shapes ==
  /\ dir \in [Entries -> File \cup {NoFile}]
  /\ made \in 0 .. MaxTemps
  /\ pc \in [Clients -> Places]
  /\ req \in [Clients -> Requests \cup {NoRequest}]
  /\ temp \in [Clients -> 0 .. MaxTemps]
  /\ answer \in [Clients -> Answers]
  /\ listed \subseteq Entries
  /\ doomed \in Entries \cup {NoEntry}
  /\ aged \subseteq Keys
  /\ unsure \subseteq Clients

Writing(c) == pc[c] \in {"write", "rename"}

\* What a handler knows at each place.
Phase(c) ==
  /\ pc[c] \in {"none", "command"} => req[c] = NoRequest /\ answer[c] = NoAnswer
  /\ pc[c] \in {"admit", "data", "check", "create", "write", "rename"}
       => req[c] \in PutRequest /\ answer[c] = NoAnswer
  /\ pc[c] \in {"stat", "read"} => req[c] \in GetRequest /\ answer[c] = NoAnswer
  /\ pc[c] = "remove"
       => req[c] \in GetRequest /\ answer[c] = "MISS" /\ req[c].key \in aged
  /\ pc[c] = "answer" => req[c] \in Requests /\ answer[c] # NoAnswer

\* A blob file is a whole blob, and an old one has left its mark.
BlobFile(k) ==
  /\ dir[BlobPath(k)] # NoFile => dir[BlobPath(k)].data \in Blobs
  /\ dir[BlobPath(k)].old => k \in aged

\* The temporary file of a handler is its own and as it wrote it.
OwnTemp(c) ==
  Writing(c) =>
    /\ temp[c] \in 1 .. made
    /\ dir[TempPath(c)] =
         [data |-> IF pc[c] = "write" THEN "partial" ELSE req[c].data, old |-> FALSE]
    /\ doomed # TempPath(c)
    /\ \A d \in Clients \ {c} : Writing(d) => temp[d] # temp[c]

\* When there is a blob under the key by now, another PUT has stored it.
Unsure(c) ==
  pc[c] \in {"create", "write", "rename"} /\ Exists(BlobPath(req[c].key))
    => c \in unsure

\* What the collector is about to remove was old when it looked.  A temporary
\* file among it is there still, or its number is used up.
Doomed ==
  doomed # NoEntry =>
    /\ doomed[2] = 0 => doomed[1] \in aged
    /\ doomed[2] # 0 => Exists(doomed) \/ doomed[2] <= made

SrvInv ==
  /\ Shapes
  /\ \A c \in Clients : Phase(c) /\ OwnTemp(c) /\ Unsure(c)
  /\ \A k \in Keys : BlobFile(k)
  /\ Doomed

-----------------------------------------------------------------------------
(* Paths, requests and files.                                              *)

LEMMA Paths ==
  /\ \A k \in Keys : BlobPath(k) \in Entries /\ BlobPath(k)[1] = k /\ BlobPath(k)[2] = 0
  /\ \A k \in Keys, n \in 0 .. MaxTemps : <<k, n>> \in Entries
  /\ \A e \in Entries : /\ e[1] \in Keys /\ e[2] \in 0 .. MaxTemps
                        /\ e = <<e[1], e[2]>>
                        /\ e[2] = 0 => e = BlobPath(e[1])
  /\ \A k, j \in Keys, n \in Nat : n # 0 => <<k, n>> # BlobPath(j)
BY ServerAssumption, SMT DEF Entries, BlobPath

LEMMA RequestFields ==
  /\ \A r \in PutRequest : r.key \in Keys /\ r.data \in Blobs /\ r.op = "PUT"
  /\ \A r \in GetRequest : r.key \in Keys /\ r.op = "GET"
  /\ NoRequest \notin Requests
BY ServerAssumption DEF PutRequest, GetRequest, Requests

LEMMA Files ==
  /\ \A b \in Blobs \cup {"partial"}, o \in BOOLEAN : [data |-> b, old |-> o] \in File
  /\ \A f \in File \cup {NoFile} : f.old \in BOOLEAN
  /\ ~NoFile.old /\ NoFile.data = NoBlob
  /\ \A f \in File \cup {NoFile} : f.data \in Blobs => f # NoFile
<1>1. NoFile.old = FALSE /\ NoFile.data = NoBlob
  BY DEF NoFile
<1>2. \A f \in File : f.old \in BOOLEAN
  BY DEF File
<1>3. \A b \in Blobs \cup {"partial"}, o \in BOOLEAN : [data |-> b, old |-> o] \in File
  BY DEF File
<1>4. NoBlob \notin Blobs
  BY ServerAssumption
<1> QED  BY <1>1, <1>2, <1>3, <1>4

\* A handler past the command has a request with a key.
LEMMA HasRequest ==
  ASSUME SrvInv, NEW c \in Clients, pc[c] \notin {"none", "command"}
  PROVE  req[c] \in Requests /\ req[c].key \in Keys /\ req[c] # NoRequest
<1>1. pc[c] \in Places
  BY DEF SrvInv, Shapes
<1>2. req[c] \in Requests
  BY <1>1 DEF SrvInv, Phase, Requests, Places
<1> QED  BY <1>2, RequestFields DEF Requests

LEMMA TempEntry ==
  ASSUME SrvInv, NEW c \in Clients, Writing(c)
  PROVE  /\ req[c] \in PutRequest /\ req[c].key \in Keys /\ req[c].data \in Blobs
         /\ temp[c] \in 1 .. made /\ temp[c] \in 1 .. MaxTemps
         /\ TempPath(c) \in Entries
         /\ TempPath(c)[1] = req[c].key /\ TempPath(c)[2] = temp[c]
         /\ \A k \in Keys : TempPath(c) # BlobPath(k)
<1>1. req[c] \in PutRequest
  BY DEF SrvInv, Phase, Writing
<1>2. req[c].key \in Keys /\ req[c].data \in Blobs
  BY <1>1, RequestFields
<1>3. temp[c] \in 1 .. made /\ made \in 0 .. MaxTemps
  BY DEF SrvInv, OwnTemp, Shapes
<1>4. temp[c] \in 1 .. MaxTemps /\ temp[c] \in Nat /\ temp[c] # 0 /\ temp[c] \in 0 .. MaxTemps
  BY <1>3, ServerAssumption
<1> QED  BY <1>1, <1>2, <1>3, <1>4, Paths DEF TempPath

-----------------------------------------------------------------------------
(* The invariant.                                                          *)

LEMMA InitSrvInv == Init => SrvInv
<1> SUFFICES ASSUME Init PROVE SrvInv
  OBVIOUS
<1>1. 0 \in 0 .. MaxTemps
  BY ServerAssumption
<1>2. Shapes
  BY <1>1 DEF Init, Shapes, Places, Answers
<1>3. \A c \in Clients : Phase(c) /\ OwnTemp(c) /\ Unsure(c)
  BY DEF Init, Phase, OwnTemp, Writing, Unsure
<1>4. \A k \in Keys : BlobFile(k)
  BY Paths, Files DEF Init, BlobFile
<1>5. Doomed
  BY DEF Init, Doomed
<1> QED  BY <1>2, <1>3, <1>4, <1>5 DEF SrvInv

\* A step of the handler of c that touches no file.
LEMMA HandlerStep ==
  ASSUME SrvInv, NEW c \in Clients,
         UNCHANGED <<dir, made, gcVars, aged>>,
         pc' \in [Clients -> Places],
         req' \in [Clients -> Requests \cup {NoRequest}],
         temp' \in [Clients -> 0 .. MaxTemps],
         answer' \in [Clients -> Answers],
         \A d \in Clients \ {c} : /\ pc'[d] = pc[d] /\ req'[d] = req[d]
                                  /\ temp'[d] = temp[d] /\ answer'[d] = answer[d],
         unsure \ {c} \subseteq unsure', unsure' \subseteq Clients,
         pc'[c] \notin {"write", "rename"}, Phase(c)', Unsure(c)'
  PROVE  SrvInv'
<1>1. Shapes'
  BY DEF SrvInv, Shapes, gcVars
<1>2. \A d \in Clients : Phase(d)'
  BY DEF SrvInv, Phase
<1>3. \A d \in Clients : Unsure(d)'
  BY DEF SrvInv, Unsure, Exists
<1>4. \A d \in Clients : OwnTemp(d)'
  <2> SUFFICES ASSUME NEW d \in Clients PROVE OwnTemp(d)'
    OBVIOUS
  <2>1. CASE d = c
    BY <2>1 DEF OwnTemp, Writing
  <2>2. CASE d # c
    <3>1. TempPath(d)' = TempPath(d) /\ (Writing(d)' <=> Writing(d))
      BY <2>2 DEF TempPath, Writing
    <3>2. \A e \in Clients \ {d} : Writing(e)' => Writing(e) /\ temp'[e] = temp[e]
      BY DEF Writing
    <3> QED  BY <2>2, <3>1, <3>2 DEF SrvInv, OwnTemp, gcVars
  <2> QED  BY <2>1, <2>2
<1>5. \A k \in Keys : BlobFile(k)'
  BY DEF SrvInv, BlobFile
<1>6. Doomed'
  BY DEF SrvInv, Doomed, Exists, gcVars
<1> QED  BY <1>1, <1>2, <1>3, <1>4, <1>5, <1>6 DEF SrvInv

\* What Close does.
LEMMA CloseFields ==
  ASSUME SrvInv, NEW c \in Clients, Close(c)
  PROVE  /\ pc' \in [Clients -> Places]
         /\ req' \in [Clients -> Requests \cup {NoRequest}]
         /\ temp' \in [Clients -> 0 .. MaxTemps]
         /\ answer' \in [Clients -> Answers]
         /\ \A d \in Clients \ {c} : /\ pc'[d] = pc[d] /\ req'[d] = req[d]
                                     /\ temp'[d] = temp[d] /\ answer'[d] = answer[d]
         /\ unsure \ {c} \subseteq unsure' /\ unsure' \subseteq unsure /\ unsure' \subseteq Clients
         /\ pc'[c] = "none" /\ Phase(c)' /\ Unsure(c)' /\ OwnTemp(c)'
         /\ Store!End({c})
<1>1. 0 \in 0 .. MaxTemps
  BY ServerAssumption
<1>2. /\ pc' = [pc EXCEPT ![c] = "none"]
      /\ req' = [req EXCEPT ![c] = NoRequest]
      /\ answer' = [answer EXCEPT ![c] = NoAnswer]
      /\ temp' = [temp EXCEPT ![c] = 0]
      /\ unsure' = unsure \ {c}
  BY DEF Close, GoTo
<1>3. /\ pc \in [Clients -> Places]
      /\ req \in [Clients -> Requests \cup {NoRequest}]
      /\ temp \in [Clients -> 0 .. MaxTemps]
      /\ answer \in [Clients -> Answers]
      /\ unsure \subseteq Clients
  BY DEF SrvInv, Shapes
<1>4. pc'[c] = "none" /\ req'[c] = NoRequest /\ answer'[c] = NoAnswer
  BY <1>2, <1>3
<1>5. Phase(c)' /\ Unsure(c)' /\ OwnTemp(c)'
  BY <1>4 DEF Phase, Unsure, OwnTemp, Writing
<1>6. Store!End({c})
  BY <1>2, <1>3 DEF Store!End
<1> QED  BY <1>1, <1>2, <1>3, <1>4, <1>5, <1>6 DEF Places, Answers

\* Steps that end a connection and touch no file.
LEMMA CloseInv ==
  ASSUME SrvInv, NEW c \in Clients, Close(c), UNCHANGED <<dir, made, gcVars, aged>>
  PROVE  SrvInv'
BY CloseFields, HandlerStep

\* The other steps of a handler that touch no file.
LEMMA AdvanceInv ==
  ASSUME SrvInv, NEW c \in Clients, NEW l \in Places \ {"write", "rename"},
         GoTo(c, l), UNCHANGED <<dir, made, gcVars, aged, temp, unsure>>,
         req' \in [Clients -> Requests \cup {NoRequest}],
         answer' \in [Clients -> Answers],
         \A d \in Clients \ {c} : req'[d] = req[d] /\ answer'[d] = answer[d],
         Phase(c)', Unsure(c)'
  PROVE  SrvInv'
<1>1. pc \in [Clients -> Places] /\ temp \in [Clients -> 0 .. MaxTemps] /\ unsure \subseteq Clients
  BY DEF SrvInv, Shapes
<1>2. pc' \in [Clients -> Places] /\ pc'[c] = l /\ \A d \in Clients \ {c} : pc'[d] = pc[d]
  BY <1>1 DEF GoTo
<1> QED  BY <1>1, <1>2, HandlerStep

\* Every step of a handler that touches no file.
LEMMA AcceptInv ==
  ASSUME SrvInv, NEW c \in Clients, Accept(c)
  PROVE  SrvInv'
<1>1. GoTo(c, "command") /\ UNCHANGED <<dir, made, req, temp, answer, gcVars, aged, unsure>>
        /\ pc[c] = "none"
  BY DEF Accept, historyVars
<1>2. pc'[c] = "command"
  BY <1>1 DEF GoTo, SrvInv, Shapes
<1>3. Phase(c)' /\ Unsure(c)'
  BY <1>1, <1>2 DEF Phase, Unsure, SrvInv
<1> QED  BY <1>1, <1>3, AdvanceInv DEF Places, SrvInv, Shapes

\* A command is read: the request is new and nothing is decided.
LEMMA CommandInv ==
  ASSUME SrvInv, NEW c \in Clients, PutCommand(c) \/ GetCommand(c)
  PROVE  /\ SrvInv'
         /\ \E r \in Requests : req' = [req EXCEPT ![c] = r]
         /\ req[c] = NoRequest
<1>1. PICK l \in {"admit", "stat"}, r \in Requests :
        /\ GoTo(c, l) /\ req' = [req EXCEPT ![c] = r]
        /\ l = "admit" => r \in PutRequest
        /\ l = "stat" => r \in GetRequest
  <2>1. CASE PutCommand(c)
    BY <2>1 DEF PutCommand, Requests
  <2>2. CASE GetCommand(c)
    BY <2>2 DEF GetCommand, Requests
  <2> QED  BY <2>1, <2>2
<1>2. pc[c] = "command" /\ UNCHANGED <<dir, made, temp, answer, gcVars, aged, unsure>>
  BY DEF PutCommand, GetCommand, historyVars
<1>3. pc'[c] = l /\ req'[c] = r /\ answer'[c] = NoAnswer /\ req[c] = NoRequest
  BY <1>1, <1>2 DEF GoTo, SrvInv, Shapes, Phase
<1>4. Phase(c)' /\ Unsure(c)'
  BY <1>1, <1>3 DEF Phase, Unsure
<1>5. req' \in [Clients -> Requests \cup {NoRequest}]
        /\ answer' \in [Clients -> Answers]
        /\ \A d \in Clients \ {c} : req'[d] = req[d] /\ answer'[d] = answer[d]
  BY <1>1, <1>2 DEF SrvInv, Shapes
<1>6. l \in Places \ {"write", "rename"}
  BY DEF Places
<1>7. SrvInv'
  BY <1>1, <1>2, <1>4, <1>5, <1>6, AdvanceInv
<1> QED  BY <1>1, <1>3, <1>7

\* A handler goes on without an answer.
LEMMA GoOnInv ==
  ASSUME SrvInv, NEW c \in Clients,
         NEW l \in {"data", "check", "create", "read"}, GoTo(c, l),
         UNCHANGED <<dir, made, req, temp, answer, gcVars, aged, unsure>>,
         l = "data" => pc[c] = "admit",
         l = "check" => pc[c] = "data",
         l = "create" => pc[c] = "check" /\ ~Exists(BlobPath(req[c].key)),
         l = "read" => pc[c] = "stat"
  PROVE  SrvInv'
<1>1. pc'[c] = l
  BY DEF GoTo, SrvInv, Shapes
<1>2. Phase(c)
  BY DEF SrvInv
<1>3. Phase(c)'
  BY <1>1, <1>2 DEF Phase
<1>4. Unsure(c)'
  BY <1>1 DEF Unsure, Exists
<1> QED  BY <1>3, <1>4, AdvanceInv DEF Places, SrvInv, Shapes

\* A handler has its answer; a GET may still have an old file to remove.
LEMMA AnswerWithInv ==
  ASSUME SrvInv, NEW c \in Clients, NEW a \in Answers \ {NoAnswer},
         NEW l \in {"answer", "remove"}, GoTo(c, l), answer' = [answer EXCEPT ![c] = a],
         pc[c] \notin {"none", "command"},
         l = "remove" => a = "MISS" /\ req[c] \in GetRequest /\ req[c].key \in aged,
         UNCHANGED <<dir, made, req, temp, gcVars, aged, unsure>>
  PROVE  SrvInv'
<1>1. pc'[c] = l
  BY DEF GoTo, SrvInv, Shapes
<1>2. answer'[c] = a /\ answer' \in [Clients -> Answers]
        /\ \A d \in Clients \ {c} : answer'[d] = answer[d]
  BY DEF SrvInv, Shapes
<1>3. Phase(c)'
  BY <1>1, <1>2, HasRequest DEF Phase
<1>4. Unsure(c)'
  BY <1>1 DEF Unsure
<1> QED  BY <1>2, <1>3, <1>4, AdvanceInv DEF Places, SrvInv, Shapes

-----------------------------------------------------------------------------
(* The steps that touch files.                                             *)

\* A step of the handler of c that changes the one temporary file e.
LEMMA TempStep ==
  ASSUME SrvInv, NEW c \in Clients, NEW e \in Entries, NEW f \in File \cup {NoFile},
         e[2] # 0, dir' = [dir EXCEPT ![e] = f],
         made' \in 0 .. MaxTemps, made <= made', UNCHANGED <<gcVars, aged>>,
         e = doomed => f # NoFile \/ e[2] <= made',
         pc' \in [Clients -> Places],
         req' \in [Clients -> Requests \cup {NoRequest}],
         temp' \in [Clients -> 0 .. MaxTemps],
         answer' \in [Clients -> Answers],
         \A d \in Clients \ {c} : /\ pc'[d] = pc[d] /\ req'[d] = req[d]
                                  /\ temp'[d] = temp[d] /\ answer'[d] = answer[d],
         unsure \ {c} \subseteq unsure', unsure' \subseteq Clients,
         Phase(c)', OwnTemp(c)', pc'[c] = "create" \/ Writing(c)' => Unsure(c)',
         \A d \in Clients \ {c} : Writing(d) => TempPath(d) # e
                                    /\ (Writing(c)' => temp'[c] # temp[d])
  PROVE  SrvInv'
<1> USE DEF gcVars
<1>1. \A k \in Keys : dir'[BlobPath(k)] = dir[BlobPath(k)]
  BY Paths DEF SrvInv, Shapes
<1>2. Shapes'
  BY DEF SrvInv, Shapes
<1>3. \A d \in Clients : Phase(d)'
  BY DEF SrvInv, Phase
<1>4. \A d \in Clients : Unsure(d)'
  <2> SUFFICES ASSUME NEW d \in Clients PROVE Unsure(d)'
    OBVIOUS
  <2>1. CASE d = c
    BY <2>1 DEF Unsure, Writing
  <2>2. CASE d # c
    <3> SUFFICES ASSUME pc[d] \in {"create", "write", "rename"} PROVE Unsure(d)'
      BY <2>2 DEF Unsure
    <3>1. req[d].key \in Keys
      BY HasRequest
    <3> QED  BY <1>1, <2>2, <3>1 DEF SrvInv, Unsure, Exists
  <2> QED  BY <2>1, <2>2
<1>5. \A d \in Clients : OwnTemp(d)'
  <2> SUFFICES ASSUME NEW d \in Clients, d # c, Writing(d)' PROVE OwnTemp(d)'
    BY DEF OwnTemp
  <2>1. Writing(d) /\ TempPath(d)' = TempPath(d) /\ pc'[d] = pc[d]
    BY DEF TempPath, Writing
  <2>2. TempPath(d) \in Entries /\ TempPath(d) # e
    BY <2>1, TempEntry
  <2>3. dir'[TempPath(d)] = dir[TempPath(d)]
    BY <2>2 DEF SrvInv, Shapes
  <2>4. temp'[d] \in 1 .. made'
    <3>1. temp[d] \in 1 .. made /\ temp'[d] = temp[d]
      BY <2>1 DEF SrvInv, OwnTemp
    <3>2. made \in Nat /\ made' \in Nat
      BY ServerAssumption DEF SrvInv, Shapes
    <3> QED  BY <3>1, <3>2
  <2>5. \A x \in Clients \ {d} : Writing(x)' => temp'[x] # temp'[d]
    <3> SUFFICES ASSUME NEW x \in Clients \ {d}, Writing(x)' PROVE temp'[x] # temp'[d]
      OBVIOUS
    <3>1. CASE x = c
      BY <2>1, <3>1
    <3>2. CASE x # c
      <4>1. Writing(x) /\ temp'[x] = temp[x] /\ temp'[d] = temp[d]
        BY <3>2 DEF Writing
      <4>2. OwnTemp(d)
        BY DEF SrvInv
      <4> QED  BY <2>1, <4>1, <4>2 DEF OwnTemp
    <3> QED  BY <3>1, <3>2
  <2> QED  BY <2>1, <2>3, <2>4, <2>5 DEF SrvInv, OwnTemp
<1>6. \A k \in Keys : BlobFile(k)'
  BY <1>1 DEF SrvInv, BlobFile
<1>7. Doomed'
  <2> SUFFICES ASSUME doomed # NoEntry, doomed[2] # 0
               PROVE  Exists(doomed)' \/ doomed[2] <= made'
    BY DEF SrvInv, Doomed
  <2>1. doomed \in Entries
    BY DEF SrvInv, Shapes
  <2>2. Exists(doomed) \/ doomed[2] <= made
    BY DEF SrvInv, Doomed
  <2>3. CASE doomed = e
    BY <2>1, <2>3 DEF Exists, SrvInv, Shapes
  <2>4. CASE doomed # e
    <3>1. doomed[2] \in 0 .. MaxTemps /\ made \in 0 .. MaxTemps
      BY <2>1, Paths DEF SrvInv, Shapes
    <3>2. Exists(doomed)' <=> Exists(doomed)
      BY <2>1, <2>4 DEF Exists, SrvInv, Shapes
    <3> QED  BY <2>2, <3>1, <3>2, ServerAssumption
  <2> QED  BY <2>3, <2>4
<1> QED  BY <1>2, <1>3, <1>4, <1>5, <1>6, <1>7 DEF SrvInv

\* The next temporary file is no other writer's, and the collector is about to
\* remove it only when it exists.
LEMMA NextTemp ==
  ASSUME SrvInv, NEW c \in Clients, pc[c] = "create", made < MaxTemps
  PROVE  LET e == <<req[c].key, made + 1>> IN
         /\ made + 1 \in 1 .. MaxTemps
         /\ e \in Entries /\ e[2] = made + 1 /\ e[2] # 0
         /\ \A d \in Clients : Writing(d) => TempPath(d) # e /\ temp[d] # made + 1
         /\ ~Exists(e) => doomed # e
         /\ \A k \in Keys : e # BlobPath(k)
<1>1. req[c].key \in Keys
  BY HasRequest
<1>2. made \in Nat /\ made + 1 \in 1 .. MaxTemps /\ made + 1 \in 0 .. MaxTemps
        /\ made + 1 \in Nat /\ made + 1 # 0
  BY ServerAssumption DEF SrvInv, Shapes
<1>3. \A d \in Clients : Writing(d) => temp[d] \in 1 .. made
  BY DEF SrvInv, OwnTemp
<1>4. \A d \in Clients : Writing(d) => temp[d] # made + 1
  BY <1>2, <1>3
<1>5. \A d \in Clients : Writing(d) => TempPath(d) # <<req[c].key, made + 1>>
  BY <1>4 DEF TempPath
<1>6. <<req[c].key, made + 1>> \in Entries /\ <<req[c].key, made + 1>>[2] = made + 1
  BY <1>1, <1>2, Paths
<1>7. ~Exists(<<req[c].key, made + 1>>) => doomed # <<req[c].key, made + 1>>
  <2> SUFFICES ASSUME doomed = <<req[c].key, made + 1>>, ~Exists(doomed) PROVE FALSE
    OBVIOUS
  <2>1. doomed # NoEntry /\ doomed[2] = made + 1
    BY <1>6, ServerAssumption DEF Entries
  <2>2. made + 1 <= made
    BY <1>2, <2>1 DEF SrvInv, Doomed
  <2> QED  BY <1>2, <2>2
<1>8. \A k \in Keys : <<req[c].key, made + 1>> # BlobPath(k)
  BY <1>1, <1>2, Paths
<1> QED  BY <1>2, <1>4, <1>5, <1>6, <1>7, <1>8

\* The paths of the blobs name the files they named.
SameBlobFiles == \A k \in Keys : dir'[BlobPath(k)] = dir[BlobPath(k)]

LEMMA CreateTempInv ==
  ASSUME SrvInv, NEW c \in Clients, CreateTemp(c)
  PROVE  SrvInv' /\ SameBlobFiles
<1> DEFINE e == <<req[c].key, made + 1>>
           f == [data |-> "partial", old |-> FALSE]
<1>1. /\ pc[c] = "create" /\ made < MaxTemps /\ made' = made + 1 /\ ~Exists(e)
      /\ dir' = [dir EXCEPT ![e] = f]
      /\ temp' = [temp EXCEPT ![c] = made + 1]
      /\ pc' = [pc EXCEPT ![c] = "write"]
      /\ UNCHANGED <<req, answer, gcVars, aged, unsure>>
  BY DEF CreateTemp, GoTo, historyVars
<1>2. /\ made + 1 \in 1 .. MaxTemps
      /\ e \in Entries /\ e[2] = made + 1 /\ e[2] # 0
      /\ \A d \in Clients : Writing(d) => TempPath(d) # e /\ temp[d] # made + 1
      /\ doomed # e
      /\ \A k \in Keys : e # BlobPath(k)
  BY <1>1, NextTemp
<1>3. f \in File /\ f.data = "partial" /\ f.old = FALSE
  BY Files
<1>4. /\ pc'[c] = "write" /\ temp'[c] = made + 1
      /\ pc' \in [Clients -> Places] /\ temp' \in [Clients -> 0 .. MaxTemps]
      /\ \A d \in Clients \ {c} : pc'[d] = pc[d] /\ temp'[d] = temp[d]
  BY <1>1, <1>2 DEF SrvInv, Shapes, Places
<1>5. TempPath(c)' = e /\ dir'[e] = f /\ req'[c] = req[c] /\ answer'[c] = answer[c]
  BY <1>1, <1>2, <1>4 DEF TempPath, SrvInv, Shapes
<1>6. Phase(c)'
  BY <1>1, <1>4, <1>5 DEF SrvInv, Phase
<1>7. SameBlobFiles
  BY <1>1, <1>2, Paths DEF SameBlobFiles, SrvInv, Shapes
<1>8. Unsure(c)'
  <2>1. req[c].key \in Keys
    BY <1>1, HasRequest
  <2> QED  BY <1>1, <1>5, <1>7, <2>1 DEF Unsure, Exists, SameBlobFiles, SrvInv
<1>9. OwnTemp(c)'
  <2>1. temp'[c] \in 1 .. made'
    BY <1>1, <1>2, <1>4
  <2>2. doomed' # TempPath(c)'
    BY <1>1, <1>2, <1>5 DEF gcVars
  <2>3. \A d \in Clients \ {c} : Writing(d)' => temp'[d] # temp'[c]
    BY <1>2, <1>4 DEF Writing
  <2> QED  BY <1>4, <1>5, <2>1, <2>2, <2>3 DEF OwnTemp
<1>10. made' \in 0 .. MaxTemps /\ made <= made'
  BY <1>1, <1>2, ServerAssumption DEF SrvInv, Shapes
<1>11. /\ req' \in [Clients -> Requests \cup {NoRequest}]
       /\ answer' \in [Clients -> Answers]
       /\ unsure' = unsure /\ unsure' \subseteq Clients
  BY <1>1 DEF SrvInv, Shapes
<1> HIDE DEF e, f
<1>12. SrvInv'
  BY <1>1, <1>2, <1>3, <1>4, <1>6, <1>8, <1>9, <1>10, <1>11, TempStep
<1> QED  BY <1>7, <1>12

LEMMA CreateTempFailsInv ==
  ASSUME SrvInv, NEW c \in Clients, CreateTempFails(c)
  PROVE  SrvInv' /\ SameBlobFiles /\ Store!End({c})
<1> DEFINE e == <<req[c].key, made + 1>>
<1>1. pc[c] = "create" /\ Close(c) /\ UNCHANGED <<gcVars, aged>>
  BY DEF CreateTempFails
<1>2. CASE UNCHANGED <<made, dir>>
  BY <1>1, <1>2, CloseFields, CloseInv DEF SameBlobFiles
<1>3. CASE made < MaxTemps /\ made' = made + 1 /\ dir' = [dir EXCEPT ![e] = NoFile]
  <2>1. /\ made + 1 \in 1 .. MaxTemps
        /\ e \in Entries /\ e[2] = made + 1 /\ e[2] # 0
        /\ \A d \in Clients : Writing(d) => TempPath(d) # e
        /\ \A k \in Keys : e # BlobPath(k)
    BY <1>1, <1>3, NextTemp
  <2>2. SameBlobFiles
    BY <1>3, <2>1, Paths DEF SameBlobFiles, SrvInv, Shapes
  <2>3. made' \in 0 .. MaxTemps /\ made <= made' /\ e[2] <= made'
    BY <1>3, <2>1, ServerAssumption DEF SrvInv, Shapes
  <2>4. ~Writing(c)'
    BY <1>1, CloseFields DEF Writing
  <2> HIDE DEF e
  <2>5. /\ pc' \in [Clients -> Places]
        /\ req' \in [Clients -> Requests \cup {NoRequest}]
        /\ temp' \in [Clients -> 0 .. MaxTemps]
        /\ answer' \in [Clients -> Answers]
        /\ \A d \in Clients \ {c} : /\ pc'[d] = pc[d] /\ req'[d] = req[d]
                                    /\ temp'[d] = temp[d] /\ answer'[d] = answer[d]
        /\ unsure \ {c} \subseteq unsure' /\ unsure' \subseteq Clients
        /\ Phase(c)' /\ Unsure(c)' /\ OwnTemp(c)'
    BY <1>1, CloseFields
  <2>6. \A d \in Clients \ {c} : Writing(d) => TempPath(d) # e
                                  /\ (Writing(c)' => temp'[c] # temp[d])
    BY <2>1, <2>4
  <2>7. e \in Entries /\ e[2] # 0 /\ dir' = [dir EXCEPT ![e] = NoFile]
        /\ UNCHANGED <<gcVars, aged>> /\ NoFile \in File \cup {NoFile}
    BY <1>1, <1>3, <2>1
  <2>8. SrvInv'
    BY <2>3, <2>5, <2>6, <2>7, TempStep
  <2> QED  BY <1>1, <2>2, <2>8, CloseFields
<1> QED  BY <1>2, <1>3 DEF CreateTempFails

LEMMA WriteFailsInv ==
  ASSUME SrvInv, NEW c \in Clients, WriteFails(c)
  PROVE  SrvInv' /\ SameBlobFiles /\ Store!End({c})
<1> DEFINE e == TempPath(c)
<1>1. Writing(c) /\ Close(c) /\ dir' = [dir EXCEPT ![e] = NoFile]
        /\ UNCHANGED <<made, gcVars, aged>>
  BY DEF WriteFails, Writing
<1>2. /\ req[c].key \in Keys
      /\ e \in Entries /\ e[1] = req[c].key /\ e[2] = temp[c] /\ e[2] # 0
      /\ \A k \in Keys : e # BlobPath(k)
  <2>1. temp[c] # 0
    BY <1>1, TempEntry
  <2> QED  BY <1>1, <2>1, TempEntry
<1>3. \A d \in Clients \ {c} : Writing(d) => TempPath(d) # e
  BY <1>1 DEF SrvInv, OwnTemp, TempPath
<1>4. doomed # e
  BY <1>1 DEF SrvInv, OwnTemp
<1>5. SameBlobFiles
  BY <1>1, <1>2, Paths DEF SameBlobFiles, SrvInv, Shapes
<1>6. made' \in 0 .. MaxTemps /\ made <= made'
  BY <1>1, ServerAssumption DEF SrvInv, Shapes
<1>7. ~Writing(c)'
  BY <1>1, CloseFields DEF Writing
<1> HIDE DEF e
<1>8. SrvInv'
  BY <1>1, <1>2, <1>3, <1>4, <1>6, <1>7, CloseFields, TempStep
<1> QED  BY <1>1, <1>5, <1>8, CloseFields

LEMMA WriteTempInv ==
  ASSUME SrvInv, NEW c \in Clients, WriteTemp(c)
  PROVE  SrvInv' /\ SameBlobFiles
<1> DEFINE e == TempPath(c)
           f == [data |-> req[c].data, old |-> FALSE]
<1>1. /\ Writing(c) /\ pc[c] = "write"
      /\ dir' = [dir EXCEPT ![TempPath(c)] = [data |-> req[c].data, old |-> FALSE]]
      /\ pc' = [pc EXCEPT ![c] = "rename"]
      /\ UNCHANGED <<made, req, temp, answer, gcVars, aged, unsure>>
  BY DEF WriteTemp, Writing, GoTo, historyVars
<1>2. /\ req[c] \in PutRequest /\ req[c].key \in Keys /\ req[c].data \in Blobs
      /\ temp[c] \in 1 .. made /\ e \in Entries /\ e[2] = temp[c] /\ e[2] # 0
      /\ \A k \in Keys : e # BlobPath(k)
  <2>1. temp[c] # 0
    BY <1>1, TempEntry
  <2> QED  BY <1>1, <2>1, TempEntry
<1>3. f \in File /\ f.data = req[c].data /\ f.old = FALSE
  BY <1>2, Files
<1>4. dir' = [dir EXCEPT ![e] = f]
  BY <1>1
<1>5. /\ pc'[c] = "rename" /\ pc' \in [Clients -> Places]
      /\ \A d \in Clients \ {c} : pc'[d] = pc[d]
  BY <1>1 DEF SrvInv, Shapes, Places
<1>6. TempPath(c)' = e /\ dir'[e] = f
  BY <1>1, <1>2, <1>4 DEF TempPath, SrvInv, Shapes
<1>7. Phase(c)'
  BY <1>1, <1>2, <1>5 DEF SrvInv, Phase
<1>8. SameBlobFiles
  BY <1>2, <1>4, Paths DEF SameBlobFiles, SrvInv, Shapes
<1>9. Unsure(c)'
  BY <1>1, <1>2, <1>8 DEF Unsure, Exists, SameBlobFiles, SrvInv
<1>10. \A d \in Clients \ {c} : Writing(d) => TempPath(d) # e /\ temp[d] # temp[c]
  BY <1>1 DEF SrvInv, OwnTemp, TempPath
<1>11. doomed # e
  BY <1>1 DEF SrvInv, OwnTemp
<1>12. OwnTemp(c)'
  <2>1. temp'[c] \in 1 .. made' /\ doomed' # TempPath(c)'
    BY <1>1, <1>2, <1>6, <1>11 DEF gcVars
  <2>2. \A d \in Clients \ {c} : Writing(d)' => temp'[d] # temp'[c]
    BY <1>1, <1>5, <1>10 DEF Writing
  <2>3. dir'[TempPath(c)'] = [data |-> req'[c].data, old |-> FALSE]
    BY <1>1, <1>6
  <2> QED  BY <1>5, <2>1, <2>2, <2>3 DEF OwnTemp
<1>13. made' \in 0 .. MaxTemps /\ made <= made'
  BY <1>1, ServerAssumption DEF SrvInv, Shapes
<1>14. /\ req' \in [Clients -> Requests \cup {NoRequest}]
       /\ answer' \in [Clients -> Answers] /\ temp' \in [Clients -> 0 .. MaxTemps]
       /\ unsure' = unsure /\ unsure' \subseteq Clients
  BY <1>1 DEF SrvInv, Shapes
<1> HIDE DEF e, f
<1>15. SrvInv'
  <2>1. \A d \in Clients \ {c} : Writing(d) => TempPath(d) # e
                                  /\ (Writing(c)' => temp'[c] # temp[d])
    BY <1>1, <1>10
  <2>2. \A d \in Clients \ {c} : /\ pc'[d] = pc[d] /\ req'[d] = req[d]
                                /\ temp'[d] = temp[d] /\ answer'[d] = answer[d]
    BY <1>1, <1>5
  <2>3. UNCHANGED <<gcVars, aged>> /\ unsure \ {c} \subseteq unsure'
    BY <1>1, <1>14
  <2> QED  BY <1>2, <1>3, <1>4, <1>5, <1>7, <1>9, <1>11, <1>12, <1>13, <1>14,
              <2>1, <2>2, <2>3, TempStep
<1> QED  BY <1>8, <1>15

LEMMA RenameInv ==
  ASSUME SrvInv, NEW c \in Clients, Rename(c)
  PROVE  /\ SrvInv'
         /\ dir'[BlobPath(req[c].key)] = [data |-> req[c].data, old |-> FALSE]
         /\ \A k \in Keys \ {req[c].key} : dir'[BlobPath(k)] = dir[BlobPath(k)]
<1> DEFINE e == TempPath(c)
           b == BlobPath(req[c].key)
           f == [data |-> req[c].data, old |-> FALSE]
<1>1. /\ Writing(c) /\ pc[c] = "rename"
      /\ dir' = [dir EXCEPT ![b] = dir[e], ![e] = NoFile]
      /\ pc' = [pc EXCEPT ![c] = "answer"]
      /\ answer' = [answer EXCEPT ![c] = "OK"]
      /\ unsure' = unsure \cup {d \in Active : req[d] # NoRequest /\ req[d].key = req[c].key}
      /\ UNCHANGED <<made, req, temp, gcVars, aged>>
  BY DEF Rename, Writing, GoTo, AnswerWith
<1>2. /\ req[c] \in PutRequest /\ req[c].key \in Keys /\ req[c].data \in Blobs
      /\ e \in Entries /\ e[2] # 0
      /\ \A k \in Keys : e # BlobPath(k)
  <2>1. temp[c] # 0 /\ e[2] = temp[c]
    BY <1>1, TempEntry
  <2> QED  BY <1>1, <2>1, TempEntry
<1>3. dir[e] = f /\ f \in File /\ f.data = req[c].data /\ f.old = FALSE /\ f # NoFile
  BY <1>1, <1>2, Files DEF SrvInv, OwnTemp
<1>4. b \in Entries /\ b # e /\ b[2] = 0
  BY <1>2, Paths
<1>5. /\ dir' \in [Entries -> File \cup {NoFile}]
      /\ dir'[b] = f
      /\ \A x \in Entries \ {b, e} : dir'[x] = dir[x]
  BY <1>1, <1>2, <1>3, <1>4 DEF SrvInv, Shapes
<1>6. \A k \in Keys \ {req[c].key} : dir'[BlobPath(k)] = dir[BlobPath(k)]
  <2> SUFFICES ASSUME NEW k \in Keys, k # req[c].key PROVE dir'[BlobPath(k)] = dir[BlobPath(k)]
    OBVIOUS
  <2>1. BlobPath(k) \in Entries /\ BlobPath(k) # e /\ BlobPath(k)[1] = k /\ b[1] = req[c].key
    BY <1>2, Paths
  <2> QED  BY <1>5, <2>1
<1>7. /\ pc'[c] = "answer" /\ answer'[c] = "OK" /\ pc' \in [Clients -> Places]
      /\ answer' \in [Clients -> Answers]
      /\ \A d \in Clients \ {c} : pc'[d] = pc[d] /\ answer'[d] = answer[d]
  BY <1>1 DEF SrvInv, Shapes, Places, Answers
<1>8. Shapes'
  BY <1>1, <1>5, <1>7 DEF SrvInv, Shapes, gcVars, Active
<1> HIDE DEF e, b, f
<1>9. \A d \in Clients : Phase(d)'
  <2>1. Phase(c)'
    BY <1>1, <1>2, <1>7, ServerAssumption DEF Phase, Requests
  <2>2. \A d \in Clients \ {c} : Phase(d)'
    BY <1>1, <1>7 DEF SrvInv, Phase
  <2> QED  BY <2>1, <2>2
<1>10. \A d \in Clients : OwnTemp(d)'
  <2> SUFFICES ASSUME NEW d \in Clients, Writing(d)' PROVE OwnTemp(d)'
    BY DEF OwnTemp
  <2>1. d # c /\ Writing(d) /\ pc'[d] = pc[d]
    BY <1>7 DEF Writing
  <2>2. TempPath(d)' = TempPath(d)
    BY <1>1 DEF TempPath
  <2>3. TempPath(d) \in Entries /\ \A k \in Keys : TempPath(d) # BlobPath(k)
    BY <2>1, TempEntry
  <2>4. TempPath(d) # e
    BY <1>1, <2>1 DEF SrvInv, OwnTemp, TempPath, e
  <2>5. dir'[TempPath(d)] = dir[TempPath(d)]
    BY <1>2, <1>5, <2>3, <2>4 DEF b
  <2>6. \A x \in Clients \ {d} : Writing(x)' => Writing(x)
    BY <1>7 DEF Writing
  <2> QED  BY <1>1, <2>1, <2>2, <2>5, <2>6 DEF SrvInv, OwnTemp, gcVars
<1>11. \A d \in Clients : Unsure(d)'
  <2> SUFFICES ASSUME NEW d \in Clients, pc'[d] \in {"create", "write", "rename"},
                      Exists(BlobPath(req[d].key))'
               PROVE  d \in unsure'
    BY DEF Unsure
  <2>1. d # c /\ pc'[d] = pc[d]
    BY <1>7
  <2>2. req[d] # NoRequest /\ req[d].key \in Keys /\ d \in Active
    BY <2>1, HasRequest DEF Active
  <2>3. CASE req[d].key = req[c].key
    BY <1>1, <2>2, <2>3
  <2>4. CASE req[d].key # req[c].key
    <3>1. Exists(BlobPath(req[d].key))
      BY <1>1, <1>6, <2>2, <2>4 DEF Exists
    <3> QED  BY <1>1, <2>1, <3>1 DEF SrvInv, Unsure
  <2> QED  BY <2>3, <2>4
<1>12. \A k \in Keys : BlobFile(k)'
  <2> SUFFICES ASSUME NEW k \in Keys PROVE BlobFile(k)'
    OBVIOUS
  <2>1. CASE k = req[c].key
    BY <1>2, <1>3, <1>5, <2>1 DEF BlobFile, b
  <2>2. CASE k # req[c].key
    BY <1>1, <1>6, <2>2 DEF SrvInv, BlobFile
  <2> QED  BY <2>1, <2>2
<1>13. Doomed'
  <2> SUFFICES ASSUME doomed # NoEntry, doomed[2] # 0
               PROVE  Exists(doomed)' \/ doomed[2] <= made
    BY <1>1 DEF SrvInv, Doomed, gcVars
  <2>1. doomed \in Entries /\ doomed # b /\ doomed # e
    BY <1>1, <1>4 DEF SrvInv, Shapes, OwnTemp, e
  <2> QED  BY <1>1, <1>5, <2>1 DEF SrvInv, Doomed, Exists, gcVars
<1>14. SrvInv'
  BY <1>8, <1>9, <1>10, <1>11, <1>12, <1>13 DEF SrvInv
<1> QED  BY <1>5, <1>6, <1>14 DEF b, f

\* A step that changes no handler: time or the collector.
LEMMA NoHandlerInv ==
  ASSUME SrvInv, UNCHANGED <<made, handlerVars, unsure>>, aged \subseteq aged', Shapes',
         \A c \in Clients : Writing(c) => /\ dir'[TempPath(c)] = dir[TempPath(c)]
                                          /\ doomed' # TempPath(c),
         \A k \in Keys : Exists(BlobPath(k))' => Exists(BlobPath(k)),
         \A k \in Keys : BlobFile(k)',
         Doomed'
  PROVE  SrvInv'
<1> SUFFICES ASSUME NEW c \in Clients PROVE (Phase(c) /\ OwnTemp(c) /\ Unsure(c))'
  BY DEF SrvInv
<1> USE DEF handlerVars
<1>1. Phase(c) /\ OwnTemp(c) /\ Unsure(c)
  BY DEF SrvInv
<1>2. Phase(c)'
  BY <1>1 DEF Phase
<1>3. Unsure(c)'
  <2> SUFFICES ASSUME pc[c] \in {"create", "write", "rename"} PROVE Unsure(c)'
    BY DEF Unsure
  <2>1. req[c].key \in Keys
    BY HasRequest
  <2>2. Exists(BlobPath(req[c].key))' => Exists(BlobPath(req[c].key))
    BY <2>1
  <2> QED  BY <1>1, <2>2 DEF Unsure
<1>4. OwnTemp(c)'
  <2>1. TempPath(c)' = TempPath(c) /\ \A d \in Clients : Writing(d)' <=> Writing(d)
    BY DEF TempPath, Writing
  <2> QED  BY <1>1, <2>1 DEF OwnTemp
<1> QED  BY <1>2, <1>3, <1>4

\* The blob under k is removed; no other blob changes.
BlobRemoved(k) ==
  /\ dir'[BlobPath(k)] = NoFile
  /\ \A j \in Keys \ {k} : dir'[BlobPath(j)] = dir[BlobPath(j)]

LEMMA GetRemoveInv ==
  ASSUME SrvInv, NEW c \in Clients, GetRemove(c)
  PROVE  SrvInv' /\ BlobRemoved(req[c].key) /\ req[c].key \in Keys \cap aged
<1> DEFINE b == BlobPath(req[c].key)
<1>1. /\ pc[c] = "remove"
      /\ dir' = [dir EXCEPT ![b] = NoFile]
      /\ pc' = [pc EXCEPT ![c] = "answer"]
      /\ UNCHANGED <<made, req, temp, answer, gcVars, aged, unsure>>
  BY DEF GetRemove, GoTo, historyVars
<1>2. /\ req[c] \in Requests /\ req[c].key \in Keys /\ req[c].key \in aged
      /\ answer[c] # NoAnswer
  BY <1>1, HasRequest, ServerAssumption DEF SrvInv, Phase
<1>3. b \in Entries /\ b[1] = req[c].key /\ b[2] = 0
  BY <1>2, Paths
<1>4. /\ dir' \in [Entries -> File \cup {NoFile}] /\ dir'[b] = NoFile
      /\ \A x \in Entries \ {b} : dir'[x] = dir[x]
  BY <1>1, <1>3 DEF SrvInv, Shapes
<1>5. \A k \in Keys \ {req[c].key} : dir'[BlobPath(k)] = dir[BlobPath(k)]
  BY <1>3, <1>4, Paths
<1>6. /\ pc'[c] = "answer" /\ pc' \in [Clients -> Places]
      /\ \A d \in Clients \ {c} : pc'[d] = pc[d]
  BY <1>1 DEF SrvInv, Shapes, Places
<1>7. Shapes'
  BY <1>1, <1>4, <1>6 DEF SrvInv, Shapes, gcVars
<1>8. \A k \in Keys : /\ Exists(BlobPath(k))' => Exists(BlobPath(k))
                      /\ BlobFile(k)'
  <2> SUFFICES ASSUME NEW k \in Keys
               PROVE  (Exists(BlobPath(k))' => Exists(BlobPath(k))) /\ BlobFile(k)'
    OBVIOUS
  <2>1. CASE k = req[c].key
    BY <1>4, <2>1, Files DEF Exists, BlobFile
  <2>2. CASE k # req[c].key
    BY <1>1, <1>5, <2>2 DEF SrvInv, Exists, BlobFile
  <2> QED  BY <2>1, <2>2
<1> HIDE DEF b
<1>9. \A d \in Clients : Phase(d)'
  <2>1. Phase(c)'
    BY <1>1, <1>2, <1>6 DEF Phase
  <2>2. \A d \in Clients \ {c} : Phase(d)'
    BY <1>1, <1>6 DEF SrvInv, Phase
  <2> QED  BY <2>1, <2>2
<1>10. \A d \in Clients : Unsure(d)'
  <2> SUFFICES ASSUME NEW d \in Clients, pc'[d] \in {"create", "write", "rename"},
                      Exists(BlobPath(req[d].key))'
               PROVE  d \in unsure'
    BY DEF Unsure
  <2>1. pc'[d] = pc[d]
    BY <1>6
  <2>2. req[d].key \in Keys
    BY <2>1, HasRequest
  <2> QED  BY <1>1, <1>8, <2>1, <2>2 DEF SrvInv, Unsure, Exists
<1>11. \A d \in Clients : OwnTemp(d)'
  <2> SUFFICES ASSUME NEW d \in Clients, Writing(d)' PROVE OwnTemp(d)'
    BY DEF OwnTemp
  <2>1. Writing(d) /\ pc'[d] = pc[d] /\ TempPath(d)' = TempPath(d)
    BY <1>1, <1>6 DEF Writing, TempPath
  <2>2. dir'[TempPath(d)] = dir[TempPath(d)]
    <3>1. TempPath(d) \in Entries /\ TempPath(d) # b
      BY <1>2, <2>1, TempEntry DEF b
    <3> QED  BY <1>4, <3>1
  <2>3. \A x \in Clients \ {d} : Writing(x)' => Writing(x)
    BY <1>6 DEF Writing
  <2> QED  BY <1>1, <2>1, <2>2, <2>3 DEF SrvInv, OwnTemp, gcVars
<1>12. Doomed'
  <2> SUFFICES ASSUME doomed # NoEntry, doomed[2] # 0
               PROVE  Exists(doomed)' \/ doomed[2] <= made
    BY <1>1 DEF SrvInv, Doomed, gcVars
  <2>1. doomed \in Entries /\ doomed # b
    BY <1>3 DEF SrvInv, Shapes
  <2> QED  BY <1>1, <1>4, <2>1 DEF SrvInv, Doomed, Exists, gcVars
<1>13. SrvInv'
  BY <1>7, <1>8, <1>9, <1>10, <1>11, <1>12 DEF SrvInv
<1> QED  BY <1>2, <1>4, <1>5, <1>13 DEF BlobRemoved, b

\* What ages: a blob file, which leaves its mark, or a temporary file that no
\* handler works on.
LEMMA AgeInv ==
  ASSUME SrvInv, NEW e \in Entries, Age(e)
  PROVE  /\ SrvInv'
         /\ dir' = [dir EXCEPT ![e] = [data |-> dir[e].data, old |-> TRUE]]
         /\ dir[e] \in File
<1> DEFINE f == [data |-> dir[e].data, old |-> TRUE]
<1>1. /\ Exists(e)
      /\ \A c \in Clients : Writing(c) => e # TempPath(c)
      /\ dir' = [dir EXCEPT ![e] = f]
      /\ aged' = IF e = BlobPath(e[1]) THEN aged \cup {e[1]} ELSE aged
      /\ UNCHANGED <<made, handlerVars, gcVars, unsure>>
  BY DEF Age, Writing
<1>2. dir[e] \in File
  BY <1>1 DEF Exists, SrvInv, Shapes
<1>3. f \in File /\ f.data = dir[e].data /\ f.old = TRUE /\ f # NoFile
  <2>1. dir[e].data \in Blobs \cup {"partial"}
    BY <1>2 DEF File
  <2>2. f \in File
    BY <2>1, Files
  <2>3. f.data = dir[e].data /\ f.old = TRUE
    OBVIOUS
  <2>4. f # NoFile
    BY <2>3, Files
  <2> QED  BY <2>2, <2>3, <2>4
<1>4. /\ dir' \in [Entries -> File \cup {NoFile}] /\ dir'[e] = f
      /\ \A x \in Entries \ {e} : dir'[x] = dir[x]
  BY <1>1, <1>3 DEF SrvInv, Shapes
<1>5. aged \subseteq aged' /\ aged' \subseteq Keys /\ (e = BlobPath(e[1]) => e[1] \in aged')
  BY <1>1, Paths DEF SrvInv, Shapes
<1>6. Shapes'
  BY <1>1, <1>4, <1>5 DEF SrvInv, Shapes, handlerVars, gcVars
<1> HIDE DEF f
<1>7. \A c \in Clients : Writing(c) => /\ dir'[TempPath(c)] = dir[TempPath(c)]
                                       /\ doomed' # TempPath(c)
  <2> SUFFICES ASSUME NEW c \in Clients, Writing(c)
               PROVE  dir'[TempPath(c)] = dir[TempPath(c)] /\ doomed' # TempPath(c)
    OBVIOUS
  <2>1. TempPath(c) \in Entries /\ TempPath(c) # e
    BY <1>1, TempEntry
  <2> QED  BY <1>1, <1>4, <2>1 DEF SrvInv, OwnTemp, gcVars
<1>8. \A x \in Entries : Exists(x)' => Exists(x)
  BY <1>1, <1>4 DEF Exists
<1>9. \A k \in Keys : Exists(BlobPath(k))' => Exists(BlobPath(k))
  BY <1>8, Paths DEF Exists
<1>10. \A k \in Keys : BlobFile(k)'
  <2> SUFFICES ASSUME NEW k \in Keys PROVE BlobFile(k)'
    OBVIOUS
  <2>1. BlobPath(k) \in Entries /\ BlobPath(k)[1] = k
    BY Paths
  <2>2. BlobFile(k)
    BY DEF SrvInv
  <2>3. CASE BlobPath(k) = e
    BY <1>1, <1>3, <1>4, <1>5, <2>1, <2>2, <2>3 DEF BlobFile, Exists
  <2>4. CASE BlobPath(k) # e
    BY <1>4, <1>5, <2>1, <2>2, <2>4 DEF BlobFile
  <2> QED  BY <2>3, <2>4
<1>11. Doomed'
  <2> SUFFICES ASSUME doomed # NoEntry PROVE Doomed'
    BY <1>1 DEF Doomed, gcVars
  <2>1. doomed \in Entries
    BY DEF SrvInv, Shapes
  <2>2. Exists(doomed) => dir'[doomed] # NoFile
    BY <1>3, <1>4, <2>1 DEF Exists
  <2>3. dir'[doomed'] = dir'[doomed] /\ doomed' = doomed /\ made' = made
    BY <1>1 DEF gcVars
  <2>4. doomed[2] = 0 => doomed[1] \in aged'
    BY <1>5 DEF SrvInv, Doomed
  <2>5. doomed[2] # 0 => dir'[doomed] # NoFile \/ doomed[2] <= made
    BY <2>2 DEF SrvInv, Doomed
  <2> QED  BY <2>3, <2>4, <2>5 DEF Doomed, Exists
<1>12. SrvInv'
  BY <1>1, <1>5, <1>6, <1>7, <1>9, <1>10, <1>11, NoHandlerInv
<1> QED  BY <1>1, <1>2, <1>12 DEF f

\* The collector looks at the directory and at its files.
LEMMA GcLookInv ==
  ASSUME SrvInv, GcStart \/ GcStat
  PROVE  SrvInv' /\ UNCHANGED <<dir, handlerVars, historyVars>>
<1>1. UNCHANGED <<dir, made, handlerVars, historyVars>>
  BY DEF GcStart, GcStat
<1>2. /\ listed' \subseteq Entries
      /\ \/ doomed' = doomed
         \/ doomed' = NoEntry
         \/ doomed' \in Entries /\ dir[doomed'].old
  <2>1. CASE GcStart
    BY <2>1 DEF GcStart
  <2>2. CASE GcStat
    <3>1. PICK e \in listed : /\ listed' = listed \ {e}
                              /\ doomed' = IF dir[e].old THEN e ELSE NoEntry
      BY <2>2 DEF GcStat
    <3>2. listed \subseteq Entries
      BY DEF SrvInv, Shapes
    <3> QED  BY <3>1, <3>2
  <2> QED  BY <2>1, <2>2
<1>3. Shapes'
  BY <1>1, <1>2 DEF SrvInv, Shapes, handlerVars, historyVars
<1>4. \A c \in Clients : Writing(c) => doomed' # TempPath(c)
  <2> SUFFICES ASSUME NEW c \in Clients, Writing(c) PROVE doomed' # TempPath(c)
    OBVIOUS
  <2>1. /\ TempPath(c) \in Entries /\ doomed # TempPath(c)
        /\ dir[TempPath(c)] =
             [data |-> IF pc[c] = "write" THEN "partial" ELSE req[c].data, old |-> FALSE]
    BY TempEntry DEF SrvInv, OwnTemp
  <2>2. ~dir[TempPath(c)].old
    BY <2>1
  <2>3. NoEntry \notin Entries
    BY ServerAssumption DEF Entries
  <2> QED  BY <1>2, <2>1, <2>2, <2>3
<1>5. \A k \in Keys : (Exists(BlobPath(k))' => Exists(BlobPath(k))) /\ BlobFile(k)'
  BY <1>1 DEF SrvInv, Exists, BlobFile, historyVars
<1>6. Doomed'
  <2>1. CASE doomed' = doomed
    BY <1>1, <2>1 DEF SrvInv, Doomed, Exists, historyVars
  <2>2. CASE doomed' = NoEntry
    BY <2>2 DEF Doomed
  <2>3. CASE doomed' \in Entries /\ dir[doomed'].old
    <3>1. doomed'[2] = 0 => doomed'[1] \in Keys /\ doomed' = BlobPath(doomed'[1])
      BY <2>3, Paths
    <3>2. doomed'[2] = 0 => doomed'[1] \in aged
      BY <2>3, <3>1 DEF SrvInv, BlobFile
    <3>3. dir[doomed'] # NoFile
      BY <2>3, Files
    <3> QED  BY <1>1, <3>2, <3>3 DEF Doomed, Exists, historyVars
  <2> QED  BY <1>2, <2>1, <2>2, <2>3
<1>7. SrvInv'
  BY <1>1, <1>3, <1>4, <1>5, <1>6, NoHandlerInv DEF historyVars
<1> QED  BY <1>1, <1>7

\* The collector removes a temporary file, or a blob under a key where one aged.
LEMMA GcRemoveInv ==
  ASSUME SrvInv, GcRemove
  PROVE  /\ SrvInv'
         /\ SameBlobFiles \/ \E k \in Keys \cap aged : BlobRemoved(k)
         /\ UNCHANGED <<handlerVars, historyVars>>
<1>1. /\ doomed # NoEntry
      /\ dir' = [dir EXCEPT ![doomed] = NoFile]
      /\ doomed' = NoEntry
      /\ UNCHANGED <<made, handlerVars, listed, historyVars>>
  BY DEF GcRemove
<1>2. doomed \in Entries /\ NoEntry \notin Entries
  BY <1>1, ServerAssumption DEF SrvInv, Shapes, Entries
<1>3. /\ dir' \in [Entries -> File \cup {NoFile}] /\ dir'[doomed] = NoFile
      /\ \A x \in Entries \ {doomed} : dir'[x] = dir[x]
  BY <1>1, <1>2 DEF SrvInv, Shapes
<1>4. Shapes'
  BY <1>1, <1>3 DEF SrvInv, Shapes, handlerVars, historyVars
<1>5. \A c \in Clients : Writing(c) => /\ dir'[TempPath(c)] = dir[TempPath(c)]
                                       /\ doomed' # TempPath(c)
  <2> SUFFICES ASSUME NEW c \in Clients, Writing(c)
               PROVE  dir'[TempPath(c)] = dir[TempPath(c)] /\ doomed' # TempPath(c)
    OBVIOUS
  <2>1. TempPath(c) \in Entries /\ doomed # TempPath(c)
    BY TempEntry DEF SrvInv, OwnTemp
  <2> QED  BY <1>1, <1>2, <1>3, <2>1
<1>6. \A k \in Keys : (Exists(BlobPath(k))' => Exists(BlobPath(k))) /\ BlobFile(k)'
  <2> SUFFICES ASSUME NEW k \in Keys
               PROVE  (Exists(BlobPath(k))' => Exists(BlobPath(k))) /\ BlobFile(k)'
    OBVIOUS
  <2>1. BlobPath(k) \in Entries
    BY Paths
  <2>2. CASE BlobPath(k) = doomed
    BY <1>3, <2>2, Files DEF Exists, BlobFile
  <2>3. CASE BlobPath(k) # doomed
    BY <1>1, <1>3, <2>1, <2>3 DEF SrvInv, Exists, BlobFile, historyVars
  <2> QED  BY <2>2, <2>3
<1>7. Doomed'
  BY <1>1 DEF Doomed
<1>8. SameBlobFiles \/ \E k \in Keys \cap aged : BlobRemoved(k)
  <2>1. CASE doomed[2] = 0
    <3>1. doomed[1] \in Keys /\ doomed = BlobPath(doomed[1]) /\ doomed[1] \in aged
      BY <1>1, <1>2, <2>1, Paths DEF SrvInv, Doomed
    <3>2. \A j \in Keys \ {doomed[1]} : BlobPath(j) \in Entries \ {doomed}
      BY <3>1, Paths
    <3>3. BlobRemoved(doomed[1])
      BY <1>3, <3>1, <3>2 DEF BlobRemoved
    <3> QED  BY <3>1, <3>3
  <2>2. CASE doomed[2] # 0
    <3>1. \A k \in Keys : BlobPath(k) \in Entries \ {doomed}
      BY <2>2, Paths
    <3> QED  BY <1>3, <3>1 DEF SameBlobFiles
  <2> QED  BY <2>1, <2>2
<1>9. SrvInv'
  BY <1>1, <1>4, <1>5, <1>6, <1>7, NoHandlerInv DEF historyVars
<1> QED  BY <1>1, <1>8, <1>9

LEMMA CrashInv ==
  ASSUME SrvInv, Crash
  PROVE  SrvInv'
<1>1. 0 \in 0 .. MaxTemps
  BY ServerAssumption
<1>2. Shapes'
  BY <1>1 DEF Crash, SrvInv, Shapes, Places, Answers
<1>3. \A c \in Clients : Phase(c)' /\ OwnTemp(c)' /\ Unsure(c)'
  BY DEF Crash, Phase, OwnTemp, Writing, Unsure
<1>4. \A k \in Keys : BlobFile(k)'
  BY DEF Crash, SrvInv, BlobFile
<1>5. Doomed'
  BY DEF Crash, Doomed
<1> QED  BY <1>2, <1>3, <1>4, <1>5 DEF SrvInv

\* No step at all, or one of the rate limit's window.
LEMMA IdleInv ==
  ASSUME SrvInv, UNCHANGED vars \/ PutTimeExpires
  PROVE  SrvInv' /\ UNCHANGED <<dir, handlerVars, historyVars>>
<1>1. UNCHANGED <<dir, made, handlerVars, gcVars, historyVars>>
  BY DEF vars, PutTimeExpires
<1> USE <1>1 DEF historyVars, gcVars
<1>2. Shapes' /\ Doomed'
  BY DEF SrvInv, Shapes, Doomed, Exists, handlerVars
<1>3. \A k \in Keys : (Exists(BlobPath(k))' => Exists(BlobPath(k))) /\ BlobFile(k)'
  BY DEF SrvInv, Exists, BlobFile
<1>4. \A c \in Clients : Writing(c) => doomed' # TempPath(c)
  BY DEF SrvInv, OwnTemp
<1> QED  BY <1>2, <1>3, <1>4, NoHandlerInv

-----------------------------------------------------------------------------
(* The files as the store sees them.                                       *)

LEMMA BlobsSeen ==
  /\ \A k \in Keys : StoredBlobs[k] = dir[BlobPath(k)].data
  /\ \A k \in Keys : k \in ExpiredKeys <=> dir[BlobPath(k)].old
  /\ ExpiredKeys \subseteq Keys
BY DEF StoredBlobs, ExpiredKeys

\* A step of the handlers' files that no blob is part of is none of the store's.
LEMMA SameBlobs ==
  ASSUME SameBlobFiles
  PROVE  UNCHANGED <<StoredBlobs, ExpiredKeys>>
BY DEF SameBlobFiles, StoredBlobs, ExpiredKeys

LEMMA SameDir ==
  ASSUME UNCHANGED dir
  PROVE  UNCHANGED <<StoredBlobs, ExpiredKeys>>
BY DEF StoredBlobs, ExpiredKeys, BlobPath

\* When the blob under one key changes, the store changes there.
LEMMA OneBlob ==
  ASSUME NEW k \in Keys, NEW f,
         dir'[BlobPath(k)] = f,
         \A j \in Keys \ {k} : dir'[BlobPath(j)] = dir[BlobPath(j)]
  PROVE  /\ StoredBlobs' = [StoredBlobs EXCEPT ![k] = f.data]
         /\ ~f.old => ExpiredKeys' = ExpiredKeys \ {k}
         /\ f.old => ExpiredKeys' = ExpiredKeys \cup {k}
<1>1. \A j \in Keys : StoredBlobs'[j] = IF j = k THEN f.data ELSE StoredBlobs[j]
  BY DEF StoredBlobs
<1>2. StoredBlobs' = [StoredBlobs EXCEPT ![k] = f.data]
  BY <1>1 DEF StoredBlobs
<1>3. \A j \in Keys : j \in ExpiredKeys' <=> IF j = k THEN f.old ELSE j \in ExpiredKeys
  BY DEF ExpiredKeys
<1>4. ExpiredKeys' \subseteq Keys /\ ExpiredKeys \subseteq Keys
  BY DEF ExpiredKeys
<1>5. ~f.old => ExpiredKeys' = ExpiredKeys \ {k}
  BY <1>3, <1>4
<1>6. f.old => ExpiredKeys' = ExpiredKeys \cup {k}
  BY <1>3, <1>4
<1> QED  BY <1>2, <1>5, <1>6

-----------------------------------------------------------------------------
(* Each step keeps the invariant and is a step of the store.               *)

StoreStep == [Store!StoreNext]_(Store!storeVars)

LEMMA StutterStep ==
  ASSUME UNCHANGED <<StoredBlobs, ExpiredKeys, aged, req, answer, unsure, acked>>
  PROVE  StoreStep
BY DEF StoreStep, Store!storeVars

LEMMA EndStep ==
  ASSUME NEW D \in SUBSET Clients, Store!End(D),
         UNCHANGED <<StoredBlobs, ExpiredKeys, aged, acked>>
  PROVE  StoreStep
BY DEF StoreStep, Store!StoreNext, Store!Dropped

\* The answer to an undecided request of c is decided, and nothing else is seen.
DecidedOnly(c, a) ==
  /\ answer' = [answer EXCEPT ![c] = a]
  /\ UNCHANGED <<StoredBlobs, ExpiredKeys, aged, req, unsure, acked>>

LEMMA DecideStep ==
  ASSUME SrvInv, NEW c \in Clients, NEW a, DecidedOnly(c, a), answer[c] = NoAnswer,
         \/ req[c] \in PutRequest /\ a = "ERR"
         \/ req[c] \in PutRequest /\ a = "EXISTS" /\ StoredBlobs[req[c].key] # NoBlob
         \/ /\ req[c] \in GetRequest /\ a = "MISS"
            /\ StoredBlobs[req[c].key] = NoBlob \/ req[c].key \in ExpiredKeys
         \/ /\ req[c] \in GetRequest /\ a = StoredBlobs[req[c].key]
            /\ StoredBlobs[req[c].key] # NoBlob
  PROVE  StoreStep
<1> USE DEF DecidedOnly, Store!Decide, Store!Undecided
<1>1. CASE req[c] \in PutRequest /\ a = "ERR"
  <2>1. Store!Refuse(c)
    BY <1>1, RequestFields DEF Store!Refuse, Requests
  <2> QED  BY <2>1 DEF StoreStep, Store!StoreNext
<1>2. CASE req[c] \in PutRequest /\ a = "EXISTS" /\ StoredBlobs[req[c].key] # NoBlob
  <2>1. Store!Exists(c)
    BY <1>2, RequestFields DEF Store!Exists, Requests
  <2> QED  BY <2>1 DEF StoreStep, Store!StoreNext
<1>3. CASE /\ req[c] \in GetRequest /\ a = "MISS"
           /\ StoredBlobs[req[c].key] = NoBlob \/ req[c].key \in ExpiredKeys
  <2>1. Store!Miss(c)
    BY <1>3, RequestFields DEF Store!Miss, Requests
  <2> QED  BY <2>1 DEF StoreStep, Store!StoreNext
<1>4. CASE /\ req[c] \in GetRequest /\ a = StoredBlobs[req[c].key]
           /\ StoredBlobs[req[c].key] # NoBlob
  <2>1. Store!Hit(c)
    BY <1>4, RequestFields DEF Store!Hit, Requests
  <2> QED  BY <2>1 DEF StoreStep, Store!StoreNext
<1> QED  BY <1>1, <1>2, <1>3, <1>4

\* What a handler that has a key finds there.
LEMMA BlobAt ==
  ASSUME SrvInv, NEW k \in Keys
  PROVE  /\ Exists(BlobPath(k)) => /\ StoredBlobs[k] \in Blobs
                                   /\ StoredBlobs[k] # NoBlob
         /\ ~Exists(BlobPath(k)) => StoredBlobs[k] = NoBlob
         /\ dir[BlobPath(k)].old => k \in ExpiredKeys /\ k \in aged
         /\ StoredBlobs[k] = dir[BlobPath(k)].data
<1>1. BlobFile(k)
  BY DEF SrvInv
<1> QED  BY <1>1, BlobsSeen, Files, ServerAssumption DEF BlobFile, Exists

LEMMA CommandStep ==
  ASSUME SrvInv, NEW c \in Clients, PutCommand(c) \/ GetCommand(c)
  PROVE  SrvInv' /\ StoreStep
<1>1. PICK r \in Requests : req' = [req EXCEPT ![c] = r]
  BY CommandInv
<1>2. req[c] = NoRequest /\ SrvInv'
  BY CommandInv
<1>3. UNCHANGED <<dir, aged, answer, unsure, acked>>
  BY DEF PutCommand, GetCommand, historyVars
<1>4. r \in Store!PutRequest \cup Store!GetRequest
  BY DEF Requests, PutRequest, GetRequest, Store!PutRequest, Store!GetRequest
<1>5. Store!Request(c)
  BY <1>1, <1>2, <1>3, <1>4, SameDir DEF Store!Request
<1> QED  BY <1>2, <1>5 DEF StoreStep, Store!StoreNext

LEMMA ClosingStep ==
  ASSUME SrvInv, NEW c \in Clients, RejectCommand(c) \/ HangUp(c) \/ GetFails(c)
  PROVE  SrvInv' /\ StoreStep
<1>1. Close(c) /\ UNCHANGED <<dir, made, gcVars, aged, acked>>
  BY DEF RejectCommand, HangUp, GetFails
<1>2. Store!End({c}) /\ UNCHANGED <<StoredBlobs, ExpiredKeys>>
  BY <1>1, CloseFields, SameDir
<1> QED  BY <1>1, <1>2, CloseInv, EndStep

LEMMA AnsweringStep ==
  ASSUME SrvInv, NEW c \in Clients, Answer(c)
  PROVE  SrvInv' /\ StoreStep
<1>1. /\ pc[c] = "answer" /\ Close(c) /\ UNCHANGED <<dir, made, gcVars, aged>>
      /\ acked' = IF answer[c] = "OK" THEN acked \cup {req[c].key} ELSE acked
  BY DEF Answer
<1>2. Store!End({c}) /\ UNCHANGED <<StoredBlobs, ExpiredKeys>>
  BY <1>1, CloseFields, SameDir
<1>3. answer[c] # NoAnswer
  BY <1>1 DEF SrvInv, Phase
<1>4. Store!Answered(c)
  BY <1>1, <1>2, <1>3 DEF Store!Answered
<1> QED  BY <1>1, <1>4, CloseInv DEF StoreStep, Store!StoreNext

\* A step that only moves the handler on, or gives the answer a.
LEMMA GoOnStep ==
  ASSUME SrvInv, NEW c \in Clients, UNCHANGED <<dir, req, temp, historyVars>>,
         UNCHANGED answer
  PROVE  StoreStep
BY SameDir, StutterStep DEF historyVars

LEMMA AdmitStep ==
  ASSUME SrvInv, NEW c \in Clients, Admit(c) \/ PutData(c)
  PROVE  SrvInv' /\ StoreStep
<1>1. UNCHANGED <<dir, made, req, temp, gcVars, historyVars>>
  BY DEF Admit, PutData
<1>2. pc[c] \in {"admit", "data"}
  BY DEF Admit, PutData
<1>3. req[c] \in PutRequest /\ answer[c] = NoAnswer
  BY <1>2 DEF SrvInv, Phase
<1>4. CASE AnswerWith(c, "ERR")
  <2>1. GoTo(c, "answer") /\ answer' = [answer EXCEPT ![c] = "ERR"]
    BY <1>4 DEF AnswerWith
  <2>2. "ERR" \in Answers \ {NoAnswer}
    BY ServerAssumption DEF Answers
  <2>3. SrvInv'
    BY <1>1, <1>2, <2>1, <2>2, AnswerWithInv DEF historyVars
  <2>4. DecidedOnly(c, "ERR")
    BY <1>1, <2>1, SameDir DEF DecidedOnly, historyVars
  <2> QED  BY <1>3, <2>3, <2>4, DecideStep
<1>5. CASE \E l \in {"data", "check"} :
             /\ GoTo(c, l) /\ UNCHANGED answer
             /\ l = "data" => pc[c] = "admit"
             /\ l = "check" => pc[c] = "data"
  <2>1. SrvInv'
    BY <1>1, <1>5, GoOnInv DEF historyVars
  <2> QED  BY <1>1, <1>5, <2>1, GoOnStep
<1> QED  BY <1>4, <1>5 DEF Admit, PutData

\* A PUT that cannot look for a blob goes on as if there were none.
LEMMA LookupFailsStep ==
  ASSUME SrvInv, NEW c \in Clients, pc[c] = "check", IoErrors, GoTo(c, "create"),
         UNCHANGED <<dir, made, req, temp, answer, gcVars, aged, acked>>,
         unsure' = unsure \cup {c}
  PROVE  SrvInv' /\ StoreStep
<1>1. req[c] \in PutRequest /\ answer[c] = NoAnswer /\ req[c].op = "PUT"
  BY RequestFields DEF SrvInv, Phase
<1>2. /\ pc' \in [Clients -> Places] /\ pc'[c] = "create"
      /\ \A d \in Clients \ {c} : pc'[d] = pc[d]
  BY DEF GoTo, SrvInv, Shapes, Places
<1>3. /\ req \in [Clients -> Requests \cup {NoRequest}] /\ unsure \subseteq Clients
      /\ temp \in [Clients -> 0 .. MaxTemps] /\ answer \in [Clients -> Answers]
  BY DEF SrvInv, Shapes
<1>4. Phase(c)' /\ Unsure(c)'
  BY <1>1, <1>2 DEF Phase, Unsure
<1>5. SrvInv'
  BY <1>2, <1>3, <1>4, HandlerStep
<1>6. Store!Undecided(c, "PUT")
  BY <1>1, RequestFields DEF Store!Undecided, Requests
<1>7. Store!LookupFails(c)
  BY <1>6, SameDir DEF Store!LookupFails
<1> QED  BY <1>5, <1>7 DEF StoreStep, Store!StoreNext

LEMMA PutCheckStep ==
  ASSUME SrvInv, NEW c \in Clients, PutCheck(c)
  PROVE  SrvInv' /\ StoreStep
<1>1. pc[c] = "check" /\ UNCHANGED <<dir, made, req, temp, gcVars, aged, acked, crashes>>
  BY DEF PutCheck
<1>2. req[c] \in PutRequest /\ answer[c] = NoAnswer /\ req[c].key \in Keys
  BY <1>1, HasRequest DEF SrvInv, Phase
<1>3. CASE /\ Exists(BlobPath(req[c].key)) /\ UNCHANGED unsure
           /\ AnswerWith(c, "EXISTS")
  <2>1. GoTo(c, "answer") /\ answer' = [answer EXCEPT ![c] = "EXISTS"]
    BY <1>3 DEF AnswerWith
  <2>2. "EXISTS" \in Answers \ {NoAnswer}
    BY ServerAssumption DEF Answers
  <2>3. SrvInv'
    BY <1>1, <1>3, <2>1, <2>2, AnswerWithInv
  <2>4. DecidedOnly(c, "EXISTS")
    BY <1>1, <1>3, <2>1, SameDir DEF DecidedOnly
  <2>5. StoredBlobs[req[c].key] # NoBlob
    BY <1>2, <1>3, BlobAt
  <2> QED  BY <1>2, <2>3, <2>4, <2>5, DecideStep
<1>4. CASE /\ ~Exists(BlobPath(req[c].key)) /\ UNCHANGED <<unsure, answer>>
           /\ GoTo(c, "create")
  <2>1. SrvInv'
    BY <1>1, <1>4, GoOnInv
  <2> QED  BY <1>1, <1>4, <2>1, GoOnStep DEF historyVars
<1>5. CASE /\ IoErrors /\ unsure' = unsure \cup {c} /\ UNCHANGED answer
           /\ GoTo(c, "create")
  BY <1>1, <1>5, LookupFailsStep
<1> QED  BY <1>3, <1>4, <1>5 DEF PutCheck

LEMMA WritingStep ==
  ASSUME SrvInv, NEW c \in Clients,
         CreateTemp(c) \/ WriteTemp(c) \/ CreateTempFails(c) \/ WriteFails(c)
  PROVE  SrvInv' /\ StoreStep
<1>1. CASE CreateTemp(c) \/ WriteTemp(c)
  <2>1. SrvInv' /\ SameBlobFiles
    BY <1>1, CreateTempInv, WriteTempInv
  <2>2. UNCHANGED <<aged, req, answer, unsure, acked>>
    BY <1>1 DEF CreateTemp, WriteTemp, historyVars
  <2> QED  BY <2>1, <2>2, SameBlobs, StutterStep
<1>2. CASE CreateTempFails(c) \/ WriteFails(c)
  <2>1. SrvInv' /\ SameBlobFiles /\ Store!End({c})
    BY <1>2, CreateTempFailsInv, WriteFailsInv
  <2>2. UNCHANGED <<aged, acked>>
    BY <1>2 DEF CreateTempFails, WriteFails
  <2> QED  BY <2>1, <2>2, SameBlobs, EndStep
<1> QED  BY <1>1, <1>2

LEMMA RenameStep ==
  ASSUME SrvInv, NEW c \in Clients, Rename(c)
  PROVE  SrvInv' /\ StoreStep
<1> DEFINE k == req[c].key
           f == [data |-> req[c].data, old |-> FALSE]
<1>1. /\ pc[c] = "rename" /\ UNCHANGED <<req, aged, acked>>
      /\ answer' = [answer EXCEPT ![c] = "OK"]
      /\ unsure' = unsure \cup {d \in Active : req[d] # NoRequest /\ req[d].key = req[c].key}
  BY DEF Rename, AnswerWith
<1>2. req[c] \in PutRequest /\ answer[c] = NoAnswer /\ k \in Keys
  BY <1>1, HasRequest DEF SrvInv, Phase
<1>3. Store!Undecided(c, "PUT")
  BY <1>2, RequestFields DEF Store!Undecided, Requests
<1>4. StoredBlobs[k] = NoBlob \/ c \in unsure
  <2>1. Unsure(c)
    BY DEF SrvInv
  <2> QED  BY <1>1, <1>2, <2>1, BlobAt DEF Unsure
<1>5. /\ SrvInv' /\ dir'[BlobPath(k)] = f
      /\ \A j \in Keys \ {k} : dir'[BlobPath(j)] = dir[BlobPath(j)]
  BY RenameInv
<1>6. f.data = req[c].data /\ ~f.old
  OBVIOUS
<1> HIDE DEF f
<1>7. /\ StoredBlobs' = [StoredBlobs EXCEPT ![k] = req[c].data]
      /\ ExpiredKeys' = ExpiredKeys \ {k}
  BY <1>2, <1>5, <1>6, OneBlob
<1>8. unsure' = unsure \cup Store!SameKey(c)
  <2>1. \A d \in Clients : req[d] # NoRequest => d \in Active
    BY DEF SrvInv, Phase, Active
  <2>2. Active \subseteq Clients
    BY DEF Active
  <2> QED  BY <1>1, <2>1, <2>2 DEF Store!SameKey
<1>9. Store!Store(c)
  BY <1>1, <1>3, <1>4, <1>7, <1>8 DEF Store!Store, Store!Decide
<1> QED  BY <1>5, <1>9 DEF StoreStep, Store!StoreNext

LEMMA GetStatStep ==
  ASSUME SrvInv, NEW c \in Clients, GetStat(c)
  PROVE  SrvInv' /\ StoreStep
<1> DEFINE k == req[c].key
           g == dir[BlobPath(k)]
<1>1. pc[c] = "stat" /\ UNCHANGED <<dir, made, req, temp, gcVars, historyVars>>
  BY DEF GetStat
<1>2. req[c] \in GetRequest /\ answer[c] = NoAnswer /\ k \in Keys
  BY <1>1, HasRequest DEF SrvInv, Phase
<1>3. "MISS" \in Answers \ {NoAnswer}
  BY ServerAssumption DEF Answers
<1>4. CASE \E l \in {"answer", "remove"} :
             /\ GoTo(c, l) /\ answer' = [answer EXCEPT ![c] = "MISS"]
             /\ l = "remove" => g.old
             /\ g = NoFile \/ g.old
  <2>1. PICK l \in {"answer", "remove"} :
             /\ GoTo(c, l) /\ answer' = [answer EXCEPT ![c] = "MISS"]
             /\ l = "remove" => g.old
             /\ g = NoFile \/ g.old
    BY <1>4
  <2>2. g.old => k \in aged /\ k \in ExpiredKeys
    BY <1>2, BlobAt
  <2>3. SrvInv'
    BY <1>1, <1>2, <1>3, <2>1, <2>2, AnswerWithInv DEF historyVars
  <2>4. DecidedOnly(c, "MISS")
    BY <1>1, <2>1, SameDir DEF DecidedOnly, historyVars
  <2>5. StoredBlobs[k] = NoBlob \/ k \in ExpiredKeys
    BY <1>2, <2>1, <2>2, BlobAt DEF Exists
  <2> QED  BY <1>2, <2>3, <2>4, <2>5, DecideStep
<1>5. CASE GoTo(c, "read") /\ UNCHANGED answer
  <2>1. SrvInv'
    BY <1>1, <1>5, GoOnInv DEF historyVars
  <2> QED  BY <1>1, <1>5, <2>1, GoOnStep
<1> QED  BY <1>4, <1>5 DEF GetStat, AnswerWith

\* A blob under a key where one aged is removed.
LEMMA RemoveStep ==
  ASSUME NEW k \in Keys \cap aged, BlobRemoved(k),
         UNCHANGED <<aged, req, answer, unsure, acked>>
  PROVE  StoreStep
<1>1. /\ StoredBlobs' = [StoredBlobs EXCEPT ![k] = NoBlob]
      /\ ExpiredKeys' = ExpiredKeys \ {k}
  <2> DEFINE f == NoFile
  <2>1. f.data = NoBlob /\ ~f.old /\ dir'[BlobPath(k)] = f
    BY Files DEF BlobRemoved
  <2> HIDE DEF f
  <2> QED  BY <2>1, OneBlob DEF BlobRemoved
<1>2. Store!Remove(k)
  BY <1>1 DEF Store!Remove
<1> QED  BY <1>2 DEF StoreStep, Store!StoreNext

LEMMA GetRemoveStep ==
  ASSUME SrvInv, NEW c \in Clients, GetRemove(c)
  PROVE  SrvInv' /\ StoreStep
<1>1. SrvInv' /\ BlobRemoved(req[c].key) /\ req[c].key \in Keys \cap aged
  BY GetRemoveInv
<1>2. UNCHANGED <<aged, req, answer, unsure, acked>>
  BY DEF GetRemove, historyVars
<1> QED  BY <1>1, <1>2, RemoveStep

LEMMA GetReadStep ==
  ASSUME SrvInv, NEW c \in Clients, GetRead(c)
  PROVE  SrvInv' /\ StoreStep
<1> DEFINE k == req[c].key
<1>1. pc[c] = "read" /\ UNCHANGED <<dir, made, gcVars, aged, acked>>
  BY DEF GetRead
<1>2. req[c] \in GetRequest /\ answer[c] = NoAnswer /\ k \in Keys
  BY <1>1, HasRequest DEF SrvInv, Phase
<1>3. CASE Exists(BlobPath(k))
  <2> DEFINE a == dir[BlobPath(k)].data
  <2>1. GoTo(c, "answer") /\ answer' = [answer EXCEPT ![c] = a]
          /\ UNCHANGED <<req, temp, unsure>>
    BY <1>3 DEF GetRead, AnswerWith
  <2>2. a = StoredBlobs[k] /\ a \in Blobs /\ a # NoBlob
    BY <1>2, <1>3, BlobAt
  <2>3. a \in Answers \ {NoAnswer}
    BY <2>2, ServerAssumption DEF Answers
  <2>4. SrvInv'
    BY <1>1, <2>1, <2>3, AnswerWithInv
  <2>5. DecidedOnly(c, a)
    BY <1>1, <2>1, SameDir DEF DecidedOnly
  <2> QED  BY <1>2, <2>2, <2>4, <2>5, DecideStep
<1>4. CASE ~Exists(BlobPath(k))
  <2>1. Close(c)
    BY <1>4 DEF GetRead
  <2>2. Store!End({c}) /\ UNCHANGED <<StoredBlobs, ExpiredKeys>>
    BY <1>1, <2>1, CloseFields, SameDir
  <2> QED  BY <1>1, <2>1, <2>2, CloseInv, EndStep
<1> QED  BY <1>3, <1>4

LEMMA AcceptStep ==
  ASSUME SrvInv, NEW c \in Clients, Accept(c)
  PROVE  SrvInv' /\ StoreStep
<1>1. UNCHANGED <<dir, req, temp, historyVars>> /\ UNCHANGED answer
  BY DEF Accept
<1> QED  BY <1>1, AcceptInv, GoOnStep

LEMMA AgeStep ==
  ASSUME SrvInv, NEW e \in Entries, Age(e)
  PROVE  SrvInv' /\ StoreStep
<1> DEFINE k == e[1]
           f == [data |-> dir[e].data, old |-> TRUE]
<1>1. SrvInv' /\ dir' = [dir EXCEPT ![e] = f] /\ dir[e] \in File
  BY AgeInv
<1>2. /\ Exists(e) /\ UNCHANGED <<handlerVars, acked, unsure>>
      /\ aged' = IF e = BlobPath(k) THEN aged \cup {k} ELSE aged
  BY DEF Age
<1>3. k \in Keys
  BY Paths
<1>4. CASE e = BlobPath(k)
  <2>1. f.data = dir[e].data /\ f.old
    OBVIOUS
  <2>2. dir'[BlobPath(k)] = f /\ \A j \in Keys \ {k} : dir'[BlobPath(j)] = dir[BlobPath(j)]
    <3>1. \A j \in Keys \ {k} : BlobPath(j) \in Entries \ {e}
      BY <1>3, <1>4, Paths
    <3> QED  BY <1>1, <1>4, <3>1 DEF SrvInv, Shapes
  <2> HIDE DEF f
  <2>3. /\ StoredBlobs' = [StoredBlobs EXCEPT ![k] = dir[e].data]
        /\ ExpiredKeys' = ExpiredKeys \cup {k}
    BY <1>3, <2>1, <2>2, OneBlob
  <2>4. StoredBlobs[k] = dir[e].data /\ StoredBlobs[k] # NoBlob
    BY <1>2, <1>3, <1>4, BlobAt
  <2>5. StoredBlobs' = StoredBlobs
    BY <2>3, <2>4 DEF StoredBlobs
  <2>6. Store!Expire(k)
    BY <1>2, <1>4, <2>3, <2>4, <2>5 DEF Store!Expire, handlerVars
  <2> QED  BY <1>1, <1>3, <2>6 DEF StoreStep, Store!StoreNext
<1>5. CASE e # BlobPath(k)
  <2>1. \A j \in Keys : BlobPath(j) \in Entries \ {e}
    BY <1>5, Paths
  <2>2. SameBlobFiles
    BY <1>1, <2>1 DEF SameBlobFiles, SrvInv, Shapes
  <2> QED  BY <1>1, <1>2, <1>5, <2>2, SameBlobs, StutterStep DEF handlerVars
<1> QED  BY <1>4, <1>5

LEMMA GcStep ==
  ASSUME SrvInv, Gc
  PROVE  SrvInv' /\ StoreStep
<1>1. CASE GcStart \/ GcStat
  BY <1>1, GcLookInv, SameDir, StutterStep DEF handlerVars, historyVars
<1>2. CASE GcRemove
  <2>1. /\ SrvInv' /\ UNCHANGED <<aged, req, answer, unsure, acked>>
        /\ SameBlobFiles \/ \E k \in Keys \cap aged : BlobRemoved(k)
    BY <1>2, GcRemoveInv DEF handlerVars, historyVars
  <2> QED  BY <2>1, RemoveStep, SameBlobs, StutterStep
<1> QED  BY <1>1, <1>2 DEF Gc

LEMMA CrashStep ==
  ASSUME SrvInv, Crash
  PROVE  SrvInv' /\ StoreStep
<1>1. /\ req' = [c \in Clients |-> NoRequest]
      /\ answer' = [c \in Clients |-> NoAnswer]
      /\ unsure' = {}
      /\ UNCHANGED <<dir, aged, acked>>
  BY DEF Crash
<1>2. unsure \subseteq Clients
  BY DEF SrvInv, Shapes
<1>3. Store!End(Clients)
  BY <1>1, <1>2 DEF Store!End
<1> QED  BY <1>1, <1>3, CrashInv, SameDir, EndStep

LEMMA NextStep ==
  ASSUME SrvInv, [Next]_vars
  PROVE  SrvInv' /\ StoreStep
<1>1. CASE UNCHANGED vars \/ PutTimeExpires
  BY <1>1, IdleInv, SameDir, StutterStep DEF handlerVars, historyVars
<1>2. ASSUME NEW c \in Clients,
             Accept(c) \/ RejectCommand(c) \/ Put(c) \/ Get(c) \/ Answer(c) \/ HangUp(c)
      PROVE  SrvInv' /\ StoreStep
  <2>1. CASE Accept(c)
    BY <2>1, AcceptStep
  <2>2. CASE RejectCommand(c) \/ HangUp(c)
    BY <2>2, ClosingStep
  <2>3. CASE Put(c)
    BY <2>3, CommandStep, AdmitStep, PutCheckStep, WritingStep, RenameStep DEF Put
  <2>4. CASE Get(c)
    BY <2>4, CommandStep, GetStatStep, GetRemoveStep, GetReadStep, ClosingStep DEF Get
  <2>5. CASE Answer(c)
    BY <2>5, AnsweringStep
  <2> QED  BY <1>2, <2>1, <2>2, <2>3, <2>4, <2>5
<1>3. ASSUME NEW e \in Entries, Age(e)
      PROVE  SrvInv' /\ StoreStep
  BY <1>3, AgeStep
<1>4. CASE Gc
  BY <1>4, GcStep
<1>5. CASE Crash
  BY <1>5, CrashStep
<1> QED  BY <1>1, <1>2, <1>3, <1>4, <1>5 DEF Next

LEMMA InitStore ==
  ASSUME Init
  PROVE  Store!StoreInit
<1>1. StoredBlobs = [k \in Keys |-> NoBlob]
  BY Paths, Files DEF Init, StoredBlobs
<1>2. ExpiredKeys = {}
  BY Paths, Files DEF Init, ExpiredKeys
<1> QED  BY <1>1, <1>2 DEF Init, Store!StoreInit

-----------------------------------------------------------------------------
\* What each handler knows of its file and of the other PUTs of its key stays
\* true through every interleaving, collection and restart (handle_client,
\* atomic_write_blob, walk_and_gc_dir).
THEOREM ServerInvariance == Spec => []SrvInv
<1>1. Init => SrvInv
  BY InitSrvInv
<1>2. SrvInv /\ [Next]_vars => SrvInv'
  BY NextStep
<1> QED  BY <1>1, <1>2, PTL DEF Spec

\* For every number of clients, keys and contents, and through failed writes,
\* collections and restarts, the drop is a store of whole blobs on which each
\* PUT and GET takes effect at one instant (handle_client).
THEOREM ServerImplementsStore == Spec => ImplementsStore
<1>1. Init => Store!StoreInit
  BY InitStore
<1>2. SrvInv /\ [Next]_vars => [Store!StoreNext]_(Store!storeVars)
  BY NextStep DEF StoreStep
<1> QED  BY <1>1, <1>2, ServerInvariance, PTL DEF Spec, ImplementsStore, Store!StoreSpec

\* The abstract store's own proofs, read over the server's files.
StoreProofs ==
  INSTANCE BlobStoreProofs WITH blob <- StoredBlobs, expired <- ExpiredKeys

\* A blob that a client was told is stored stays stored until a blob under its
\* key is past its time to live: the store's theorem, carried over to the
\* handlers, the collector and the restarts of the server.
THEOREM ServerKeepsAcked == Spec => []AckedBlobsStay
<1>1. StoreProofs!StoreAssumption
  BY ServerAssumption DEF StoreProofs!StoreAssumption, StoreProofs!PutRequest,
     StoreProofs!GetRequest
<1>2. Store!StoreInit => StoreProofs!StoreInv
  BY <1>1, StoreProofs!InitStoreInv DEF Store!StoreInit, StoreProofs!StoreInit
<1>3. [Store!StoreNext]_(Store!storeVars)
        => [StoreProofs!StoreNext]_(StoreProofs!storeVars)
  BY DEF Store!StoreNext, StoreProofs!StoreNext, Store!storeVars,
     StoreProofs!storeVars, Store!Request, StoreProofs!Request, Store!Store,
     StoreProofs!Store, Store!LookupFails, StoreProofs!LookupFails,
     Store!Exists, StoreProofs!Exists, Store!Refuse,
     StoreProofs!Refuse, Store!Hit, StoreProofs!Hit, Store!Miss, StoreProofs!Miss,
     Store!Dropped, StoreProofs!Dropped, Store!Answered, StoreProofs!Answered,
     Store!Expire, StoreProofs!Expire, Store!Remove, StoreProofs!Remove,
     Store!End, StoreProofs!End, Store!Undecided, StoreProofs!Undecided,
     Store!Decide, StoreProofs!Decide, Store!SameKey, StoreProofs!SameKey,
     Store!PutRequest, StoreProofs!PutRequest, Store!GetRequest,
     StoreProofs!GetRequest
<1>4. /\ StoreProofs!StoreInv
      /\ [StoreProofs!StoreNext]_(StoreProofs!storeVars)
      => StoreProofs!StoreInv'
  BY StoreProofs!NextStoreInv
<1>5. StoreProofs!StoreInv => AckedBlobsStay
  BY DEF StoreProofs!StoreInv, StoreProofs!AckedStaysStored, AckedBlobsStay,
     Store!AckedStaysStored
<1> QED  BY <1>2, <1>3, <1>4, <1>5, ServerImplementsStore, PTL
         DEF ImplementsStore, Store!StoreSpec

-----------------------------------------------------------------------------
(* The permits, the rate window and the temporary files left behind.       *)

\* As long as the process runs, a temporary file is that of a handler at work.
NoneLeft ==
  crashes = 0 =>
    \A e \in Entries : Exists(e) /\ e[2] # 0 => \E c \in Clients : Writing(c) /\ e = TempPath(c)

\* The permits, the rate window and the counters of the history.
Limits ==
  /\ recent \in 0 .. MaxPuts
  /\ IsFiniteSet(Active) /\ Cardinality(Active) <= MaxActive
  /\ acked \subseteq Keys
  /\ crashes \in 0 .. MaxCrashes

DropInv == NoneLeft /\ Limits

\* The handler of c is the only one that moves.
Alone(c) ==
  \A d \in Clients \ {c} : pc'[d] = pc[d] /\ req'[d] = req[d] /\ temp'[d] = temp[d]

\* Only Accept takes a permit.
LEMMA FewerActive ==
  ASSUME Limits, UNCHANGED crashes, acked' \subseteq Keys, recent' \in 0 .. MaxPuts,
         Active' \subseteq Active
  PROVE  Limits'
<1>1. IsFiniteSet(Active') /\ Cardinality(Active') <= Cardinality(Active)
  BY FS_Subset DEF Limits
<1>2. Cardinality(Active') \in Nat /\ Cardinality(Active) \in Nat
  BY <1>1, FS_CardinalityType DEF Limits
<1> QED  BY <1>1, <1>2, ServerAssumption DEF Limits

LEMMA OneMoreActive ==
  ASSUME SrvInv, Limits, NEW c \in Clients, Accept(c)
  PROVE  Limits'
<1>1. /\ pc[c] = "none" /\ Cardinality(Active) < MaxActive
      /\ pc' = [pc EXCEPT ![c] = "command"]
      /\ UNCHANGED <<acked, crashes, recent>>
  BY DEF Accept, GoTo, historyVars
<1>2. Active' = Active \cup {c} /\ c \notin Active
  BY <1>1 DEF Active, SrvInv, Shapes
<1>3. IsFiniteSet(Active') /\ Cardinality(Active') = Cardinality(Active) + 1
  BY <1>2, FS_AddElement DEF Limits
<1>4. Cardinality(Active) \in Nat
  BY FS_CardinalityType DEF Limits
<1> QED  BY <1>1, <1>3, <1>4, ServerAssumption DEF Limits

\* Steps of the handler of c that keep the limits.
LEMMA HandlerLimits ==
  ASSUME SrvInv, Limits, NEW c \in Clients, pc[c] # "none", NEW l, GoTo(c, l),
         UNCHANGED crashes, acked' \subseteq Keys, recent' \in 0 .. MaxPuts
  PROVE  Limits'
<1>1. Active' \subseteq Active
  BY DEF Active, GoTo, SrvInv, Shapes
<1> QED  BY <1>1, FewerActive

\* What is there of temporary files was there before and stays with its handler.
LEMMA NoneLeftKept ==
  ASSUME SrvInv, NoneLeft, NEW c \in Clients, Alone(c), UNCHANGED crashes,
         \A e \in Entries : Exists(e)' /\ e[2] # 0 =>
           \/ Writing(c)' /\ e = TempPath(c)'
           \/ Exists(e) /\ (Writing(c) => e # TempPath(c))
  PROVE  NoneLeft'
<1> SUFFICES ASSUME crashes = 0, NEW e \in Entries, Exists(e)', e[2] # 0,
                    ~(Writing(c)' /\ e = TempPath(c)')
             PROVE  \E d \in Clients : Writing(d)' /\ e = TempPath(d)'
  BY DEF NoneLeft
<1>1. PICK d \in Clients : Writing(d) /\ e = TempPath(d)
  BY DEF NoneLeft
<1>2. d # c
  BY <1>1
<1> QED  BY <1>1, <1>2 DEF Alone, Writing, TempPath

\* A handler that has no temporary file and touches none.
LEMMA NoTempTouched ==
  ASSUME SrvInv, NoneLeft, NEW c \in Clients, Alone(c), UNCHANGED crashes, ~Writing(c),
         \A e \in Entries : Exists(e)' /\ e[2] # 0 => Exists(e)
  PROVE  NoneLeft'
BY NoneLeftKept

LEMMA CloseAlone ==
  ASSUME SrvInv, NEW c \in Clients, Close(c)
  PROVE  Alone(c) /\ GoTo(c, "none") /\ ~Writing(c)'
BY CloseFields DEF Alone, Close, Writing

\* A handler that goes on with its request.
LEMMA GoToAlone ==
  ASSUME SrvInv, NEW c \in Clients, NEW l, GoTo(c, l), UNCHANGED <<req, temp>>
  PROVE  Alone(c) /\ pc'[c] = l
BY DEF Alone, GoTo, SrvInv, Shapes

LEMMA AcceptDrop ==
  ASSUME SrvInv, DropInv, NEW c \in Clients, Accept(c)
  PROVE  DropInv'
<1>1. /\ pc[c] = "none" /\ GoTo(c, "command")
      /\ UNCHANGED <<dir, req, temp, crashes>>
  BY DEF Accept, historyVars
<1>2. Alone(c) /\ ~Writing(c)
  BY <1>1, GoToAlone DEF Writing
<1>3. NoneLeft'
  BY <1>1, <1>2, NoTempTouched DEF DropInv, Exists
<1> QED  BY <1>3, OneMoreActive DEF DropInv

\* The steps of a handler that has no temporary file and touches none.
LEMMA ReadingDrop ==
  ASSUME SrvInv, DropInv, NEW c \in Clients,
         \/ RejectCommand(c) \/ HangUp(c) \/ Answer(c) \/ PutCommand(c) \/ GetCommand(c)
         \/ Admit(c) \/ PutData(c) \/ PutCheck(c) \/ GetStat(c) \/ GetRead(c) \/ GetFails(c)
  PROVE  DropInv'
<1>1. /\ pc[c] \in {"command", "admit", "data", "check", "stat", "read", "answer"}
      /\ UNCHANGED <<dir, crashes>>
  BY DEF RejectCommand, HangUp, Answer, PutCommand, GetCommand, Admit, PutData, PutCheck,
         GetStat, GetRead, GetFails, historyVars
<1>2. \E l : GoTo(c, l)
  BY DEF RejectCommand, HangUp, Answer, PutCommand, GetCommand, Admit, PutData, PutCheck,
         GetStat, GetRead, GetFails, Close, AnswerWith
<1>3. Alone(c)
  <2>1. CASE Close(c)
    BY <2>1, CloseAlone
  <2>2. CASE UNCHANGED <<req, temp>>
    BY <1>2, <2>2, GoToAlone
  <2>3. CASE PutCommand(c) \/ GetCommand(c)
    <3>1. PICK r \in Requests : req' = [req EXCEPT ![c] = r]
      BY <2>3, CommandInv
    <3>2. UNCHANGED temp
      BY <2>3 DEF PutCommand, GetCommand
    <3> QED  BY <1>2, <3>1, <3>2 DEF Alone, GoTo, SrvInv, Shapes
  <2> QED  BY <2>1, <2>2, <2>3 DEF RejectCommand, HangUp, Answer, Admit, PutData, PutCheck,
              GetStat, GetRead, GetFails
<1>4. acked' \subseteq Keys
  <2>1. CASE Answer(c)
    <3>1. req[c].key \in Keys /\ acked \subseteq Keys
      BY <1>1, <2>1, HasRequest DEF Answer, DropInv, Limits
    <3> QED  BY <2>1, <3>1 DEF Answer
  <2>2. CASE UNCHANGED acked
    BY <2>2 DEF DropInv, Limits
  <2> QED  BY <2>1, <2>2 DEF RejectCommand, HangUp, PutCommand, GetCommand, Admit, PutData,
              PutCheck, GetStat, GetRead, GetFails, historyVars
<1>5. recent' \in 0 .. MaxPuts
  <2>1. CASE Admit(c)
    BY <2>1, ServerAssumption DEF Admit, DropInv, Limits
  <2>2. CASE UNCHANGED recent
    BY <2>2 DEF DropInv, Limits
  <2> QED  BY <2>1, <2>2 DEF RejectCommand, HangUp, Answer, PutCommand, GetCommand, PutData,
              PutCheck, GetStat, GetRead, GetFails
<1>6. NoneLeft'
  BY <1>1, <1>3, NoTempTouched DEF DropInv, Exists, Writing
<1> QED  BY <1>1, <1>2, <1>4, <1>5, <1>6, HandlerLimits DEF DropInv

LEMMA CreateTempDrop ==
  ASSUME SrvInv, DropInv, NEW c \in Clients, CreateTemp(c)
  PROVE  DropInv'
<1> DEFINE n == made + 1
           k == req[c].key
<1>1. /\ pc[c] = "create" /\ made < MaxTemps /\ made' = n
      /\ dir' = [dir EXCEPT ![<<k, n>>] = [data |-> "partial", old |-> FALSE]]
      /\ temp' = [temp EXCEPT ![c] = n] /\ GoTo(c, "write")
      /\ UNCHANGED <<req, recent, acked, crashes>>
  BY DEF CreateTemp, historyVars
<1>2. made \in 0 .. MaxTemps /\ k \in Keys
  BY <1>1, HasRequest DEF SrvInv, Shapes
<1>3. <<k, n>> \in Entries
  BY <1>1, <1>2, Paths, ServerAssumption
<1>4. Alone(c) /\ Writing(c)' /\ TempPath(c)' = <<k, n>> /\ ~Writing(c)
  BY <1>1 DEF Alone, Writing, TempPath, GoTo, SrvInv, Shapes
<1>5. \A e \in Entries \ {<<k, n>>} : dir'[e] = dir[e]
  BY <1>1, <1>3 DEF SrvInv, Shapes
<1>6. NoneLeft'
  <2>1. \A e \in Entries : Exists(e)' /\ e[2] # 0 =>
           \/ Writing(c)' /\ e = TempPath(c)'
           \/ Exists(e) /\ (Writing(c) => e # TempPath(c))
    BY <1>4, <1>5 DEF Exists
  <2> QED  BY <1>1, <1>4, <2>1, NoneLeftKept DEF DropInv
<1> QED  BY <1>1, <1>6, HandlerLimits DEF DropInv, Limits

\* A file that is gone was not the only thing a handler had of its own.
LEMMA RemovingDrop ==
  ASSUME SrvInv, DropInv, NEW c \in Clients, CreateTempFails(c) \/ GetRemove(c)
  PROVE  DropInv'
<1>1. /\ pc[c] \in {"create", "remove"} /\ UNCHANGED <<recent, acked, crashes>>
      /\ \E l : GoTo(c, l)
  BY DEF CreateTempFails, GetRemove, Close, historyVars
<1>2. Alone(c) /\ ~Writing(c)
  BY <1>1, CloseAlone, GoToAlone DEF CreateTempFails, GetRemove, Writing
<1>3. \E p : dir' = [dir EXCEPT ![p] = NoFile] \/ UNCHANGED dir
  BY DEF CreateTempFails, GetRemove
<1>4. \A e \in Entries : Exists(e)' => Exists(e)
  BY <1>3 DEF Exists, SrvInv, Shapes
<1>5. NoneLeft'
  BY <1>1, <1>2, <1>4, NoTempTouched DEF DropInv
<1> QED  BY <1>1, <1>5, HandlerLimits DEF DropInv, Limits

LEMMA WritingDrop ==
  ASSUME SrvInv, DropInv, NEW c \in Clients, WriteTemp(c) \/ WriteFails(c) \/ Rename(c)
  PROVE  DropInv'
<1> DEFINE t == TempPath(c)
<1>1. /\ Writing(c) /\ pc[c] # "none" /\ UNCHANGED <<recent, acked, crashes>>
      /\ \E l : GoTo(c, l)
  BY DEF WriteTemp, WriteFails, Rename, Writing, Close, AnswerWith, historyVars
<1>2. Alone(c)
  BY <1>1, CloseAlone, GoToAlone DEF WriteTemp, WriteFails, Rename
<1>3. /\ t \in Entries /\ req[c].key \in Keys
      /\ BlobPath(req[c].key) \in Entries /\ BlobPath(req[c].key)[2] = 0
      /\ BlobPath(req[c].key) # t
  BY <1>1, TempEntry, Paths
<1>4. \A e \in Entries : e[2] # 0 /\ e # t => dir'[e] = dir[e]
  BY <1>3 DEF WriteTemp, WriteFails, Rename, SrvInv, Shapes
<1>5. dir'[t] # NoFile => Writing(c)' /\ TempPath(c)' = t
  <2>1. CASE WriteTemp(c)
    BY <2>1 DEF WriteTemp, GoTo, Writing, TempPath, SrvInv, Shapes
  <2>2. CASE WriteFails(c)
    BY <1>3, <2>2 DEF WriteFails, SrvInv, Shapes
  <2>3. CASE Rename(c)
    BY <1>3, <2>3 DEF Rename, SrvInv, Shapes
  <2> QED  BY <2>1, <2>2, <2>3
<1>6. NoneLeft'
  <2>1. \A e \in Entries : Exists(e)' /\ e[2] # 0 =>
           \/ Writing(c)' /\ e = TempPath(c)'
           \/ Exists(e) /\ (Writing(c) => e # TempPath(c))
    BY <1>4, <1>5 DEF Exists
  <2> QED  BY <1>1, <1>2, <2>1, NoneLeftKept DEF DropInv
<1> QED  BY <1>1, <1>6, HandlerLimits DEF DropInv, Limits

\* Steps of time and of the collector: no file appears and no handler moves.
LEMMA QuietDrop ==
  ASSUME SrvInv, DropInv, UNCHANGED <<handlerVars, acked, crashes>>,
         recent' \in 0 .. MaxPuts, \A e \in Entries : Exists(e)' => Exists(e)
  PROVE  DropInv'
<1>1. Active' \subseteq Active
  BY DEF Active, handlerVars
<1>2. Limits'
  BY <1>1, FewerActive DEF DropInv, Limits
<1>3. NoneLeft'
  BY DEF DropInv, NoneLeft, handlerVars, Writing, TempPath
<1> QED  BY <1>2, <1>3 DEF DropInv

LEMMA OutsideDrop ==
  ASSUME SrvInv, DropInv,
         UNCHANGED vars \/ PutTimeExpires \/ (\E e \in Entries : Age(e)) \/ Gc
  PROVE  DropInv'
<1>1. UNCHANGED <<handlerVars, acked, crashes>>
  BY DEF vars, PutTimeExpires, Age, Gc, GcStart, GcStat, GcRemove, historyVars
<1>2. recent' \in 0 .. MaxPuts
  <2>1. CASE PutTimeExpires
    BY <2>1, ServerAssumption DEF PutTimeExpires, DropInv, Limits
  <2>2. CASE UNCHANGED recent
    BY <2>2 DEF DropInv, Limits
  <2> QED  BY <2>1, <2>2 DEF vars, Age, Gc, GcStart, GcStat, GcRemove
<1>3. \A e \in Entries : Exists(e)' => Exists(e)
  <2>1. CASE UNCHANGED dir
    BY <2>1 DEF Exists
  <2>2. CASE \E p \in Entries : Age(p)
    BY <2>2 DEF Age, Exists, SrvInv, Shapes
  <2>3. CASE GcRemove
    BY <2>3 DEF GcRemove, Exists, SrvInv, Shapes
  <2> QED  BY <2>1, <2>2, <2>3 DEF vars, PutTimeExpires, Gc, GcStart, GcStat
<1> QED  BY <1>1, <1>2, <1>3, QuietDrop

LEMMA CrashDrop ==
  ASSUME SrvInv, DropInv, Crash
  PROVE  DropInv'
<1>1. crashes' = crashes + 1 /\ crashes < MaxCrashes /\ recent' = 0 /\ UNCHANGED acked
  BY DEF Crash
<1>2. Active' = {}
  BY DEF Crash, Active
<1>3. IsFiniteSet(Active') /\ Cardinality(Active') = 0
  BY <1>2, FS_EmptySet
<1>4. Limits'
  BY <1>1, <1>3, ServerAssumption DEF DropInv, Limits
<1>5. NoneLeft'
  BY <1>1 DEF DropInv, Limits, NoneLeft
<1> QED  BY <1>4, <1>5 DEF DropInv

LEMMA InitDrop == Init => DropInv
<1> SUFFICES ASSUME Init PROVE DropInv
  OBVIOUS
<1>1. Active = {}
  BY DEF Init, Active
<1>2. IsFiniteSet(Active) /\ Cardinality(Active) = 0
  BY <1>1, FS_EmptySet
<1>3. Limits
  BY <1>2, ServerAssumption DEF Init, Limits
<1>4. NoneLeft
  BY DEF Init, NoneLeft, Exists
<1> QED  BY <1>3, <1>4 DEF DropInv

LEMMA NextDrop ==
  ASSUME SrvInv, DropInv, [Next]_vars
  PROVE  DropInv'
<1>1. ASSUME NEW c \in Clients,
             Accept(c) \/ RejectCommand(c) \/ Put(c) \/ Get(c) \/ Answer(c) \/ HangUp(c)
      PROVE  DropInv'
  <2>1. CASE Accept(c)
    BY <2>1, AcceptDrop
  <2>2. CASE RejectCommand(c) \/ HangUp(c) \/ Answer(c)
    BY <2>2, ReadingDrop
  <2>3. CASE Put(c)
    BY <2>3, ReadingDrop, CreateTempDrop, RemovingDrop, WritingDrop DEF Put
  <2>4. CASE Get(c)
    BY <2>4, ReadingDrop, RemovingDrop DEF Get
  <2> QED  BY <1>1, <2>1, <2>2, <2>3, <2>4
<1> QED  BY <1>1, OutsideDrop, CrashDrop DEF Next

\* What the permits, the rate window and the directory hold at every moment:
\* only handlers at work have temporary files until the process crashes
\* (handle_client_limited, allow_put, atomic_write_blob).
THEOREM DropInvariance == Spec => []DropInv
<1>1. Init => DropInv
  BY InitDrop
<1>2. SrvInv /\ DropInv /\ [Next]_vars => DropInv'
  BY NextDrop
<1> QED  BY <1>1, <1>2, ServerInvariance, PTL DEF Spec

\* For every number of clients no more connections than permits are served, and
\* no more PUTs than the rate window allows are admitted (MAX_ACTIVE_CLIENTS_PER_DROP,
\* allow_put); every other variable keeps its range.
THEOREM ServerTypeCorrect == Spec => []TypeOK
<1>1. SrvInv /\ DropInv => TypeOK
  BY DEF SrvInv, Shapes, DropInv, Limits, TypeOK, Places, Requests, Answers
<1> QED  BY <1>1, ServerInvariance, DropInvariance, PTL

\* Whatever fails, and however handlers, collector and time interleave, no two
\* handlers share a temporary file and a running process leaves none behind
\* (atomic_write_blob).
THEOREM TempFilesOwned == Spec => []TempsOwned
<1>1. SrvInv /\ DropInv => TempsOwned
  <2> SUFFICES ASSUME SrvInv, DropInv PROVE TempsOwned
    OBVIOUS
  <2>1. ASSUME NEW c \in Clients, NEW d \in Clients, Writing(c), Writing(d), c # d
        PROVE  TempPath(c) # TempPath(d)
    <3>1. temp[c] # temp[d]
      BY <2>1 DEF SrvInv, OwnTemp
    <3>2. TempPath(c)[2] = temp[c] /\ TempPath(d)[2] = temp[d]
      BY <2>1, TempEntry
    <3> QED  BY <3>1, <3>2
  <2>2. ASSUME NEW e \in Entries, crashes = 0, Exists(e), e # BlobPath(e[1])
        PROVE  \E c \in Clients : Writing(c) /\ e = TempPath(c)
    <3>1. e[2] # 0
      BY <2>2, Paths
    <3> QED  BY <2>2, <3>1 DEF DropInv, NoneLeft
  <2> QED  BY <2>1, <2>2 DEF TempsOwned, Writing
<1> QED  BY <1>1, ServerInvariance, DropInvariance, PTL

=============================================================================
