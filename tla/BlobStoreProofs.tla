-------------------------- MODULE BlobStoreProofs --------------------------
(***************************************************************************)
(* Proofs about BlobStore: its types, and that an acknowledged blob stays  *)
(* stored until a blob under its key expires.  DeadDropServer implements   *)
(* BlobStore, so that both hold of the server's files.                     *)
(***************************************************************************)
EXTENDS BlobStore, TLAPS

\* An OK on its way to a client is as good as one that was read.
PendingIsStored ==
  \A c \in Clients :
    answer[c] = "OK" =>
      \/ req[c].key \in aged
      \/ blob[req[c].key] # NoBlob

StoreInv == StoreAssumption /\ StoreTypeOK /\ AckedStaysStored /\ PendingIsStored

-----------------------------------------------------------------------------
LEMMA RequestFields ==
  /\ \A r \in PutRequest : r.key \in Keys /\ r.data \in Blobs /\ r.op = "PUT"
  /\ \A r \in GetRequest : r.key \in Keys /\ r.op = "GET"
BY DEF PutRequest, GetRequest

\* A request that is not NoRequest names a key, and a blob when it is a PUT.
LEMMA OpenRequest ==
  ASSUME StoreTypeOK, NEW c \in Clients, req[c] # NoRequest
  PROVE  /\ req[c].key \in Keys
         /\ req[c].op = "PUT" => req[c].data \in Blobs
<1>1. req[c] \in PutRequest \cup GetRequest
  BY DEF StoreTypeOK
<1>2. CASE req[c] \in PutRequest
  BY <1>2, RequestFields
<1>3. CASE req[c] \in GetRequest
  BY <1>3, RequestFields
<1> QED  BY <1>1, <1>2, <1>3

LEMMA InitStoreInv == StoreAssumption /\ StoreInit => StoreInv
<1> SUFFICES ASSUME StoreAssumption, StoreInit PROVE StoreInv
  OBVIOUS
<1>1. StoreTypeOK
  BY DEF StoreInit, StoreTypeOK
<1>2. AckedStaysStored
  BY DEF StoreInit, AckedStaysStored
<1>3. PendingIsStored
  BY DEF StoreAssumption, StoreInit, PendingIsStored
<1> QED  BY <1>1, <1>2, <1>3 DEF StoreInv

\* A step that stores or removes nothing, and decides on "OK" for no request.
LEMMA UndisturbedStored ==
  ASSUME StoreInv,
         UNCHANGED <<blob, acked>>, aged \subseteq aged',
         \A c \in Clients : answer'[c] = "OK" =>
            \/ answer[c] = "OK" /\ req'[c] = req[c]
            \/ blob[req'[c].key] # NoBlob
  PROVE  AckedStaysStored' /\ PendingIsStored'
BY DEF StoreInv, AckedStaysStored, PendingIsStored

LEMMA RequestInv ==
  ASSUME StoreInv, NEW c \in Clients, Request(c)
  PROVE  StoreInv'
<1>1. PICK r \in PutRequest \cup GetRequest : req' = [req EXCEPT ![c] = r]
  BY DEF Request
<1>2. StoreTypeOK'
  BY <1>1 DEF Request, StoreInv, StoreTypeOK
<1>3. \A d \in Clients : answer'[d] = "OK" => answer[d] = "OK" /\ req'[d] = req[d]
  <2> SUFFICES ASSUME NEW d \in Clients, answer'[d] = "OK"
               PROVE  answer[d] = "OK" /\ req'[d] = req[d]
    OBVIOUS
  <2>1. answer[d] = "OK"
    BY DEF Request
  <2>2. d # c
    BY <2>1 DEF StoreAssumption, Request, StoreInv, StoreTypeOK
  <2> QED  BY <2>1, <2>2, <1>1 DEF StoreInv, StoreTypeOK
<1>4. AckedStaysStored' /\ PendingIsStored'
  BY <1>3, UndisturbedStored DEF Request
<1> QED  BY <1>2, <1>4 DEF StoreInv

\* The steps that decide a request and leave the blobs alone.
LEMMA DecideInv ==
  ASSUME StoreInv, NEW c \in Clients,
         Exists(c) \/ Refuse(c) \/ Hit(c) \/ Miss(c)
  PROVE  StoreInv'
<1>1. PICK a \in Blobs \cup {"EXISTS", "ERR", "MISS"} :
        /\ answer' = [answer EXCEPT ![c] = a]
        /\ a = "OK" => blob[req[c].key] # NoBlob
  <2>1. ASSUME NEW a \in {"EXISTS", "ERR", "MISS"}, Decide(c, a)
        PROVE  \E b \in Blobs \cup {"EXISTS", "ERR", "MISS"} :
                 /\ answer' = [answer EXCEPT ![c] = b]
                 /\ b = "OK" => blob[req[c].key] # NoBlob
    <3>1. a # "OK"
      OBVIOUS
    <3> QED  BY <2>1, <3>1 DEF Decide
  <2>2. CASE Hit(c)
    <3>1. blob[req[c].key] \in Blobs
      BY <2>2, OpenRequest DEF Hit, Undecided, StoreInv, StoreTypeOK
    <3> QED  BY <3>1, <2>2 DEF Hit, Decide
  <2>3. CASE Exists(c) \/ Refuse(c) \/ Miss(c)
    <3>1. \E a \in {"EXISTS", "ERR", "MISS"} : Decide(c, a)
      BY <2>3 DEF Exists, Refuse, Miss
    <3> QED  BY <3>1, <2>1
  <2> QED  BY <2>2, <2>3
<1>2. req[c] # NoRequest /\ UNCHANGED <<blob, expired, aged, req, unsure, acked>>
  BY DEF Exists, Refuse, Hit, Miss, Undecided
<1>3. StoreTypeOK'
  BY <1>1, <1>2 DEF StoreInv, StoreTypeOK
<1>4. \A d \in Clients : answer'[d] = "OK" =>
         \/ answer[d] = "OK" /\ req'[d] = req[d]
         \/ blob[req'[d].key] # NoBlob
  BY <1>1, <1>2 DEF StoreInv, StoreTypeOK
<1>5. AckedStaysStored' /\ PendingIsStored'
  BY <1>2, <1>4, UndisturbedStored
<1> QED  BY <1>3, <1>5 DEF StoreInv

LEMMA LookupFailsInv ==
  ASSUME StoreInv, NEW c \in Clients, LookupFails(c)
  PROVE  StoreInv'
<1>1. StoreTypeOK'
  BY DEF LookupFails, StoreInv, StoreTypeOK
<1>2. AckedStaysStored' /\ PendingIsStored'
  BY UndisturbedStored DEF LookupFails
<1> QED  BY <1>1, <1>2 DEF StoreInv

LEMMA StoreStepInv ==
  ASSUME StoreInv, NEW c \in Clients, Store(c)
  PROVE  StoreInv'
<1> DEFINE k == req[c].key
<1>1. k \in Keys /\ req[c].data \in Blobs /\ req[c] # NoRequest
  BY OpenRequest DEF Store, Undecided, StoreInv
<1>2. blob' = [blob EXCEPT ![k] = req[c].data] /\ answer' = [answer EXCEPT ![c] = "OK"]
  BY DEF Store, Decide
<1>3. unsure' \subseteq Clients
  BY DEF Store, SameKey, StoreInv, StoreTypeOK
<1>4. \A j \in Keys : blob[j] # NoBlob => blob'[j] # NoBlob
  BY <1>1, <1>2 DEF StoreAssumption, StoreInv, StoreTypeOK
<1>5. blob'[k] # NoBlob
  BY <1>1, <1>2 DEF StoreAssumption, StoreInv, StoreTypeOK
<1>6. StoreTypeOK'
  <2>1. blob' \in [Keys -> Blobs \cup {NoBlob}]
    BY <1>1, <1>2 DEF StoreInv, StoreTypeOK
  <2>2. \A j \in expired' : blob'[j] # NoBlob
    BY <1>4 DEF Store, StoreInv, StoreTypeOK
  <2> QED  BY <1>1, <1>2, <1>3, <2>1, <2>2 DEF Store, StoreInv, StoreTypeOK
<1>7. AckedStaysStored'
  BY <1>4 DEF Store, StoreInv, AckedStaysStored, StoreTypeOK
<1>8. PendingIsStored'
  <2> SUFFICES ASSUME NEW d \in Clients, answer'[d] = "OK"
               PROVE  req[d].key \in aged \/ blob'[req[d].key] # NoBlob
    BY DEF PendingIsStored, Store
  <2>1. CASE d = c
    BY <2>1, <1>5
  <2>2. CASE d # c
    <3>1. answer[d] = "OK"
      BY <2>2, <1>2 DEF StoreInv, StoreTypeOK
    <3>2. req[d].key \in Keys
      BY <3>1, OpenRequest DEF StoreAssumption, StoreInv, StoreTypeOK
    <3> QED  BY <3>1, <3>2, <1>4 DEF StoreInv, PendingIsStored
  <2> QED  BY <2>1, <2>2
<1> QED  BY <1>6, <1>7, <1>8 DEF StoreInv

\* Requests that end leave no OK behind.
LEMMA EndInv ==
  ASSUME StoreInv, NEW D \in SUBSET Clients, End(D),
         UNCHANGED <<blob, expired, aged>>,
         acked' \subseteq Keys,
         \A k \in acked' : k \in aged \/ blob[k] # NoBlob
  PROVE  StoreInv'
<1>1. StoreTypeOK'
  BY DEF End, StoreInv, StoreTypeOK
<1>2. AckedStaysStored'
  BY DEF AckedStaysStored
<1>3. PendingIsStored'
  BY DEF StoreAssumption, End, StoreInv, PendingIsStored
<1> QED  BY <1>1, <1>2, <1>3 DEF StoreInv

LEMMA AnsweredInv ==
  ASSUME StoreInv, NEW c \in Clients, Answered(c)
  PROVE  StoreInv'
<1>1. \A k \in acked' : k \in acked \/ (k = req[c].key /\ answer[c] = "OK")
  <2>1. acked' = IF answer[c] = "OK" THEN acked \cup {req[c].key} ELSE acked
    BY DEF Answered
  <2> QED  BY <2>1
<1>2. req[c].key \in Keys
  BY OpenRequest DEF Answered, StoreInv, StoreTypeOK
<1>3. \A k \in acked' : k \in Keys /\ (k \in aged \/ blob[k] # NoBlob)
  BY <1>1, <1>2 DEF StoreInv, StoreTypeOK, AckedStaysStored, PendingIsStored
<1>4. {c} \in SUBSET Clients /\ End({c}) /\ UNCHANGED <<blob, expired, aged>>
  BY DEF Answered
<1> QED  BY <1>3, <1>4, EndInv

LEMMA DroppedInv ==
  ASSUME StoreInv, Dropped
  PROVE  StoreInv'
<1>1. PICK D \in SUBSET Clients : End(D)
  BY DEF Dropped
<1>2. acked' = acked /\ UNCHANGED <<blob, expired, aged>>
  BY DEF Dropped
<1> QED  BY <1>1, <1>2, EndInv DEF StoreInv, StoreTypeOK, AckedStaysStored

LEMMA ExpireInv ==
  ASSUME StoreInv, NEW k \in Keys, Expire(k)
  PROVE  StoreInv'
<1>1. StoreTypeOK'
  BY DEF Expire, StoreInv, StoreTypeOK
<1>2. AckedStaysStored' /\ PendingIsStored'
  BY UndisturbedStored DEF Expire
<1> QED  BY <1>1, <1>2 DEF StoreInv

LEMMA RemoveInv ==
  ASSUME StoreInv, NEW k \in Keys, Remove(k)
  PROVE  StoreInv'
<1>1. \A j \in Keys : j # k => blob'[j] = blob[j]
  BY DEF Remove, StoreInv, StoreTypeOK
<1>2. StoreTypeOK'
  <2>1. \A j \in expired' : blob'[j] # NoBlob
    BY <1>1 DEF Remove, StoreInv, StoreTypeOK
  <2> QED  BY <2>1 DEF Remove, StoreInv, StoreTypeOK
<1>3. AckedStaysStored'
  BY <1>1 DEF Remove, StoreInv, AckedStaysStored, StoreTypeOK
<1>4. PendingIsStored'
  <2> SUFFICES ASSUME NEW d \in Clients, answer[d] = "OK"
               PROVE  req[d].key \in aged \/ blob'[req[d].key] # NoBlob
    BY DEF PendingIsStored, Remove
  <2>1. req[d].key \in Keys
    BY OpenRequest DEF StoreAssumption, StoreInv, StoreTypeOK
  <2> QED  BY <2>1, <1>1 DEF StoreInv, PendingIsStored, Remove
<1> QED  BY <1>2, <1>3, <1>4 DEF StoreInv

LEMMA NextStoreInv == StoreInv /\ [StoreNext]_storeVars => StoreInv'
<1> SUFFICES ASSUME StoreInv, [StoreNext]_storeVars PROVE StoreInv'
  OBVIOUS
<1>1. CASE UNCHANGED storeVars
  BY <1>1 DEF storeVars, StoreInv, StoreTypeOK, AckedStaysStored, PendingIsStored
<1>2. ASSUME NEW c \in Clients,
             \/ Request(c) \/ Store(c) \/ Exists(c) \/ Hit(c) \/ Miss(c)
             \/ LookupFails(c) \/ Refuse(c) \/ Answered(c)
      PROVE  StoreInv'
  BY <1>2, RequestInv, LookupFailsInv, StoreStepInv, DecideInv, AnsweredInv
<1>3. CASE Dropped
  BY <1>3, DroppedInv
<1>4. ASSUME NEW k \in Keys, Expire(k) \/ Remove(k)
      PROVE  StoreInv'
  BY <1>4, ExpireInv, RemoveInv
<1> QED  BY <1>1, <1>2, <1>3, <1>4 DEF StoreNext

-----------------------------------------------------------------------------
\* What is expired is stored, an answer belongs to a request, and every variable
\* of the store keeps its type.
THEOREM StoreTypeCorrect == StoreAssumption /\ StoreSpec => []StoreTypeOK
<1>1. StoreInv => StoreTypeOK
  BY DEF StoreInv
<1> QED  BY <1>1, InitStoreInv, NextStoreInv, PTL DEF StoreSpec

\* A PUT that was answered OK stays stored until a blob under its key expires,
\* whatever overlapping PUTs, failed look-ups, GETs that remove, and lost answers do.
THEOREM AckedBlobStays == StoreAssumption /\ StoreSpec => []AckedStaysStored
<1>1. StoreInv => AckedStaysStored
  BY DEF StoreInv
<1> QED  BY <1>1, InitStoreInv, NextStoreInv, PTL DEF StoreSpec

=============================================================================
