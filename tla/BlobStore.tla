----------------------------- MODULE BlobStore -----------------------------
(***************************************************************************)
(* What one deaddrop promises its clients: a map from keys to whole blobs  *)
(* on which every PUT and GET takes effect at one instant between its      *)
(* command and its answer.  A request may also end without an answer.      *)
(* A PUT is not a put-if-absent: of two PUTs that overlap both may store,  *)
(* and the later one stays; and a PUT that cannot look for the blob of its *)
(* key stores over it.  Otherwise a stored blob stays.                     *)
(***************************************************************************)
EXTENDS Naturals

CONSTANTS
  Keys,       \* deaddrop keys
  Blobs,      \* opaque encrypted blobs
  Clients,    \* connections of clients
  NoBlob,     \* content of a key without a blob
  NoRequest,  \* a connection that has not sent its command
  NoAnswer,   \* a request that is not decided yet
  IoErrors    \* may the look-up of a blob fail?

PutRequest == [op : {"PUT"}, key : Keys, data : Blobs]
GetRequest == [op : {"GET"}, key : Keys]

\* The marks for "nothing" are told apart from what they mark the absence of.
StoreAssumption ==
  /\ NoBlob \notin Blobs
  /\ NoAnswer \notin Blobs \cup {"OK", "EXISTS", "MISS", "ERR"}
  /\ NoRequest \notin PutRequest \cup GetRequest
  /\ IoErrors \in BOOLEAN

VARIABLES
  blob,     \* the blob stored under each key
  expired,  \* keys whose blob is past its time to live
  aged,     \* keys under which some blob has ever expired
  req,      \* the request of each connection
  answer,   \* its answer, once decided
  unsure,   \* connections whose request may not know of the blob of its key:
            \* another PUT stored it meanwhile, or it could not be looked for
  acked     \* keys for which a client has read the answer OK to a PUT

storeVars == <<blob, expired, aged, req, answer, unsure, acked>>

StoreInit ==
  /\ blob = [k \in Keys |-> NoBlob]
  /\ expired = {}
  /\ aged = {}
  /\ req = [c \in Clients |-> NoRequest]
  /\ answer = [c \in Clients |-> NoAnswer]
  /\ unsure = {}
  /\ acked = {}

Request(c) ==
  /\ req[c] = NoRequest
  /\ \E r \in PutRequest \cup GetRequest : req' = [req EXCEPT ![c] = r]
  /\ UNCHANGED <<blob, expired, aged, answer, unsure, acked>>

\* The request of c is undecided and is of the operation op.
Undecided(c, op) ==
  req[c] # NoRequest /\ req[c].op = op /\ answer[c] = NoAnswer

Decide(c, a) == answer' = [answer EXCEPT ![c] = a]

SameKey(c) == {d \in Clients : req[d] # NoRequest /\ req[d].key = req[c].key}

Store(c) ==
  /\ Undecided(c, "PUT")
  /\ blob[req[c].key] = NoBlob \/ c \in unsure
  /\ blob' = [blob EXCEPT ![req[c].key] = req[c].data]
  /\ expired' = expired \ {req[c].key}
  /\ unsure' = unsure \cup SameKey(c)
  /\ Decide(c, "OK")
  /\ UNCHANGED <<aged, req, acked>>

\* The PUT cannot look for the blob of its key and takes it for absent.
LookupFails(c) ==
  /\ IoErrors
  /\ Undecided(c, "PUT")
  /\ unsure' = unsure \cup {c}
  /\ UNCHANGED <<blob, expired, aged, req, answer, acked>>

Exists(c) ==
  /\ Undecided(c, "PUT")
  /\ blob[req[c].key] # NoBlob
  /\ Decide(c, "EXISTS")
  /\ UNCHANGED <<blob, expired, aged, req, unsure, acked>>

Refuse(c) ==
  /\ Undecided(c, "PUT")
  /\ Decide(c, "ERR")
  /\ UNCHANGED <<blob, expired, aged, req, unsure, acked>>

Hit(c) ==
  /\ Undecided(c, "GET")
  /\ blob[req[c].key] # NoBlob
  /\ Decide(c, blob[req[c].key])
  /\ UNCHANGED <<blob, expired, aged, req, unsure, acked>>

Miss(c) ==
  /\ Undecided(c, "GET")
  /\ \/ blob[req[c].key] = NoBlob
     \/ req[c].key \in expired
  /\ Decide(c, "MISS")
  /\ UNCHANGED <<blob, expired, aged, req, unsure, acked>>

\* Requests of the connections in D end; their clients learn nothing.
End(D) ==
  /\ req' = [c \in Clients |-> IF c \in D THEN NoRequest ELSE req[c]]
  /\ answer' = [c \in Clients |-> IF c \in D THEN NoAnswer ELSE answer[c]]
  /\ unsure' = unsure \ D

Dropped ==
  /\ \E D \in SUBSET Clients : End(D)
  /\ UNCHANGED <<blob, expired, aged, acked>>

\* The client reads the answer.
Answered(c) ==
  /\ answer[c] # NoAnswer
  /\ acked' = IF answer[c] = "OK" THEN acked \cup {req[c].key} ELSE acked
  /\ End({c})
  /\ UNCHANGED <<blob, expired, aged>>

Expire(k) ==
  /\ blob[k] # NoBlob
  /\ expired' = expired \cup {k}
  /\ aged' = aged \cup {k}
  /\ UNCHANGED <<blob, req, answer, unsure, acked>>

\* A blob is removed only under a key where a blob has expired; the removal of
\* the expired one may hit one stored after it.
Remove(k) ==
  /\ k \in aged
  /\ blob' = [blob EXCEPT ![k] = NoBlob]
  /\ expired' = expired \ {k}
  /\ UNCHANGED <<aged, req, answer, unsure, acked>>

StoreNext ==
  \/ \E c \in Clients :
       \/ Request(c) \/ Store(c) \/ Exists(c) \/ Hit(c) \/ Miss(c)
       \/ LookupFails(c) \/ Refuse(c) \/ Answered(c)
  \/ Dropped
  \/ \E k \in Keys : Expire(k) \/ Remove(k)

StoreSpec == StoreInit /\ [][StoreNext]_storeVars

-----------------------------------------------------------------------------
\* Every variable of the store stays in its range; what is expired is stored,
\* and an answer belongs to a request.
StoreTypeOK ==
  /\ blob \in [Keys -> Blobs \cup {NoBlob}]
  /\ expired \subseteq aged /\ aged \subseteq Keys /\ acked \subseteq Keys
  /\ unsure \subseteq Clients
  /\ \A k \in expired : blob[k] # NoBlob
  /\ req \in [Clients -> PutRequest \cup GetRequest \cup {NoRequest}]
  /\ answer \in [Clients -> Blobs \cup {"OK", "EXISTS", "MISS", "ERR", NoAnswer}]
  /\ \A c \in Clients : req[c] = NoRequest => answer[c] = NoAnswer

\* A PUT that a client was told is stored stays stored until a blob under its
\* key expires (blob_path, is_older_than_ttl).
AckedStaysStored == \A k \in acked : k \in aged \/ blob[k] # NoBlob

=============================================================================
