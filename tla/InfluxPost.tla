----------------------------- MODULE InfluxPost -----------------------------
(***************************************************************************)
(* The sending side of influxdb-post.c: influxdb_post_http_line posts the  *)
(* record main has formatted, puts it on a bounded retry queue when the    *)
(* server cannot be reached, and after every answer of the server posts    *)
(* queued records, oldest first.  A record is one buffer of line protocol  *)
(* (all meters of one poll); the server is the environment.  This is the   *)
(* client of the database, which uses HTTP: post_http_send_line returns -1 *)
(* for a websocket only, so the immediate second send of post_http_line is *)
(* part of GrafanaLive and not of this module.                             *)
(***************************************************************************)
EXTENDS Naturals, Sequences

CONSTANTS
  Records,        (* identities of the records in memory at one time       *)
  NoRecord,       (* stands for influxBuf = NULL                           *)
  BadRecords,     (* records the server rejects with a 4xx status          *)
  MaxQueue,       (* maxNumEntriesToQueue, the option "cache"              *)
  DequeueAtOnce   (* INFLUX_DEQUEUE_AT_ONCE                                *)

ASSUME PostAssumption ==
  /\ NoRecord \notin Records
  /\ BadRecords \subseteq Records
  /\ MaxQueue \in Nat
  /\ DequeueAtOnce \in Nat \ {0}

VARIABLES
  pc,                (* where main is inside the client                    *)
  influxBuf,         (* the record being built and posted                  *)
  queue,             (* the list from firstEntry: postData of its entries  *)
  numEntriesQueued,  (* the counter kept beside the list                   *)
  numDequeued,       (* entries posted by the running influxdb_deQueue     *)
  url,               (* c->url is set: the last request had an HTTP answer *)
  up,                (* the server answers                                 *)
  stored,            (* history: how often the server stored each record   *)
  answerLost         (* history: records stored by a post that failed      *)

clientVars == <<pc, influxBuf, queue, numEntriesQueued, numDequeued, url>>
vars == <<clientVars, up, stored, answerLost>>

MaxStored == 2       (* stored counts "never", "once", "more than once"    *)

InQueue(r) == \E i \in 1 .. Len(queue) : queue[i] = r
Held(r) == influxBuf = r \/ InQueue(r)

-----------------------------------------------------------------------------
(* post_http_send_line with its outcome: 0 ("ok"), a status in 200..499    *)
(* that is not 2xx ("rejected"), a status of 500 and more ("unavailable"), *)
(* or a curl error: the request did not arrive ("curlError") or it did and *)
(* its answer was lost ("unanswered").                                     *)
Outcomes(r) ==
  IF up THEN {IF r \in BadRecords THEN "rejected" ELSE "ok"}
  ELSE {"unavailable", "curlError"}
       \cup (IF r \in BadRecords THEN {} ELSE {"unanswered"})

CurlErrors == {"curlError", "unanswered"}

(* Mutant: every outcome is taken for a failure.                           *)
RetryableAlways(o) == TRUE

Retryable(o) == o \in {"unavailable"} \cup CurlErrors

(* The database's side of a request.                                       *)
Arrives(r, o) ==
  /\ stored' = [stored EXCEPT ![r] = IF o \in {"ok", "unanswered"} /\ @ < MaxStored
                                     THEN @ + 1 ELSE @]
  /\ answerLost' = IF o = "unanswered" THEN answerLost \cup {r} ELSE answerLost

(* post_http_send_line: the url is built if need be, and freed with the    *)
(* handle after a curl error.                                              *)
SendLine(r, o) ==
  /\ Arrives(r, o)
  /\ url' = (o \notin CurlErrors)

(* Mutant: the room test is off by one.                                    *)
QueueHasRoomOffByOne == numEntriesQueued <= MaxQueue

(* addToQueue: at the end of the list if the counter allows, otherwise the *)
(* caller frees the buffer and the record is lost.                         *)
QueueHasRoom == numEntriesQueued < MaxQueue

AddToQueue ==
  IF QueueHasRoom
  THEN /\ queue' = Append(queue, influxBuf)
       /\ numEntriesQueued' = numEntriesQueued + 1
  ELSE UNCHANGED <<queue, numEntriesQueued>>

-----------------------------------------------------------------------------
(* The main loop has formatted a new record and calls post_http_line.      *)
NewRecord(r) ==
  /\ pc = "idle"
  /\ ~Held(r)
  /\ influxBuf' = r
  /\ stored' = [stored EXCEPT ![r] = 0]
  /\ answerLost' = answerLost \ {r}
  /\ pc' = "post"
  /\ UNCHANGED <<queue, numEntriesQueued, numDequeued, url, up>>

(* Mutant: influxdb_deQueue is not called after a successful post.         *)
PostAnsweredNoDequeue(o) ==
  /\ ~Retryable(o)
  /\ influxBuf' = NoRecord
  /\ pc' = "idle"
  /\ UNCHANGED <<queue, numEntriesQueued, numDequeued>>

(* A server that answered is offered the queued records next.              *)
PostAnswered(o) ==
  /\ ~Retryable(o)
  /\ influxBuf' = NoRecord
  /\ pc' = "dequeue"
  /\ numDequeued' = 0
  /\ UNCHANGED <<queue, numEntriesQueued>>

(* Mutant: the buffer is not forgotten when the queue has taken it.        *)
PostFailedKeepsBuffer(o) ==
  /\ Retryable(o)
  /\ AddToQueue
  /\ pc' = "idle"
  /\ UNCHANGED <<influxBuf, numDequeued>>

(* Any other failure puts the record on the queue.                         *)
PostFailed(o) ==
  /\ Retryable(o)
  /\ AddToQueue
  /\ influxBuf' = NoRecord
  /\ pc' = "idle"
  /\ UNCHANGED numDequeued

PostLine ==
  /\ pc = "post"
  /\ \E o \in Outcomes(influxBuf) :
       /\ SendLine(influxBuf, o)
       /\ PostAnswered(o) \/ PostFailed(o)
  /\ UNCHANGED up

-----------------------------------------------------------------------------
(* influxdb_deQueue, called after an answered post ("dequeue") and, again  *)
(* and again while it returns more than 0, by influxdb_post_deInit         *)
(* ("final").                                                              *)
Dequeuing == pc \in {"dequeue", "final"}

MoreToDequeue == numEntriesQueued > 0 /\ numDequeued < DequeueAtOnce

RemoveHead ==
  /\ queue' = Tail(queue)
  /\ numEntriesQueued' = numEntriesQueued - 1
  /\ numDequeued' = numDequeued + 1

(* The call is over.  The last one of influxdb_post_deInit is followed by  *)
(* the rest of influxdb_post_free: the client goes, with all entries that  *)
(* are left on the list.                                                   *)
CallEnds ==
  IF pc = "final"
  THEN pc' = "freed" /\ queue' = <<>> /\ numEntriesQueued' = 0
  ELSE pc' = "idle" /\ UNCHANGED <<queue, numEntriesQueued>>

(* Mutant: the entry is removed whatever the result of sending it.         *)
DequeueSendAlwaysRemoves ==
  /\ Dequeuing /\ MoreToDequeue
  /\ \E o \in Outcomes(Head(queue)) :
       /\ SendLine(Head(queue), o)
       /\ RemoveHead
  /\ UNCHANGED <<pc, influxBuf, up>>

(* The oldest entry is posted; any answer but 2xx ends the call with -1    *)
(* and leaves the entry at the head.                                       *)
DequeueSend ==
  /\ Dequeuing /\ MoreToDequeue
  /\ \E o \in Outcomes(Head(queue)) :
       /\ SendLine(Head(queue), o)
       /\ IF o = "ok"
          THEN RemoveHead /\ UNCHANGED pc
          ELSE CallEnds /\ UNCHANGED numDequeued
  /\ UNCHANGED <<influxBuf, up>>

(* influxdb_deQueue returns the number of entries posted; deInit calls it  *)
(* again unless that is 0.                                                 *)
DequeueReturns ==
  /\ Dequeuing /\ ~MoreToDequeue
  /\ IF pc = "final" /\ numDequeued > 0
     THEN UNCHANGED <<pc, queue, numEntriesQueued>>
     ELSE CallEnds
  /\ numDequeued' = 0
  /\ UNCHANGED <<influxBuf, url, up, stored, answerLost>>

(* curl_easy_perform blocks for good: neither a timeout nor a keepalive is *)
(* set, so a peer that vanishes when it has taken the request, which it    *)
(* may have stored, is waited for for ever.                                *)
RequestHangs ==
  /\ pc = "post" \/ (Dequeuing /\ MoreToDequeue)
  /\ ~up
  /\ LET r == IF pc = "post" THEN influxBuf ELSE Head(queue)
     IN \E o \in Outcomes(r) \ {"unavailable"} : Arrives(r, o)
  /\ pc' = "hung"
  /\ UNCHANGED <<influxBuf, queue, numEntriesQueued, numDequeued, url, up>>

(* influxdb_post_free at the end of main.                                  *)
Free ==
  /\ pc = "idle"
  /\ pc' = "final"
  /\ numDequeued' = 0
  /\ UNCHANGED <<influxBuf, queue, numEntriesQueued, url, up, stored, answerLost>>

(* periodicProc, between and during the polls: influxdb_post_http is       *)
(* called without the arguments it reads.  Taken for the end of the list   *)
(* they make an empty line, which is not sent, and queued records are      *)
(* posted; anything else makes no line at all (a step that changes         *)
(* nothing).                                                               *)
PeriodicProc ==
  /\ pc = "idle" /\ url
  /\ pc' = "dequeue"
  /\ numDequeued' = 0
  /\ UNCHANGED <<influxBuf, queue, numEntriesQueued, url, up, stored, answerLost>>

(* The server, or the network to it, comes and goes.                       *)
ServerToggles ==
  /\ up' = ~up
  /\ UNCHANGED <<clientVars, stored, answerLost>>

-----------------------------------------------------------------------------
Init ==
  /\ pc = "idle"
  /\ influxBuf = NoRecord
  /\ queue = <<>>
  /\ numEntriesQueued = 0
  /\ numDequeued = 0
  /\ url = FALSE
  /\ up \in BOOLEAN
  /\ stored = [r \in Records |-> 0]
  /\ answerLost = {}

MainLoop == \E r \in Records : NewRecord(r)

Next ==
  \/ MainLoop
  \/ PostLine
  \/ DequeueSend
  \/ DequeueReturns
  \/ RequestHangs
  \/ Free
  \/ PeriodicProc
  \/ ServerToggles

Spec == Init /\ [][Next]_vars

(* A request that does not hang ends: by an answer, or by an error of the  *)
(* name lookup, of the connect (libcurl's limit is 300 s) or of the        *)
(* connection.  The main loop goes on polling and posting unless the       *)
(* program is stopped.  Nothing is assumed of RequestHangs.                *)
Fairness ==
  /\ WF_vars(PostLine)
  /\ WF_vars(DequeueSend)
  /\ WF_vars(DequeueReturns)
  /\ WF_vars(MainLoop)

FairSpec == Spec /\ Fairness

-----------------------------------------------------------------------------
(* Properties.                                                             *)

TypeOK ==
  /\ pc \in {"idle", "post", "dequeue", "final", "freed", "hung"}
  /\ influxBuf \in Records \cup {NoRecord}
  /\ queue \in Seq(Records)
  /\ numEntriesQueued \in Nat
  /\ numDequeued \in 0 .. DequeueAtOnce
  /\ url \in BOOLEAN
  /\ up \in BOOLEAN
  /\ stored \in [Records -> 0 .. MaxStored]
  /\ answerLost \subseteq Records

(* The counter that guards the NULL test of firstEntry agrees with the     *)
(* list, so that influxdb_deQueue never follows a NULL firstEntry, and the *)
(* list never outgrows the configured cache.                               *)
QueueConsistent ==
  /\ numEntriesQueued = Len(queue)
  /\ Len(queue) <= MaxQueue

(* No record's memory is owned twice: not by the buffer and a list entry,  *)
(* nor by two entries (each owner frees it).                               *)
OwnedOnce ==
  /\ ~InQueue(influxBuf)
  /\ \A i, j \in 1 .. Len(queue) : i # j => queue[i] # queue[j]
  /\ pc = "post" => influxBuf # NoRecord
  /\ influxBuf # NoRecord => pc \in {"post", "hung"}

(* A record none of whose answers was lost is not stored twice: while it   *)
(* is still held it has not been stored.                                   *)
NotStoredTwice ==
  \A r \in Records \ answerLost :
    stored[r] <= 1 /\ (Held(r) => stored[r] = 0)

(* A record leaves the client only when the server has stored it or        *)
(* refused it, at a moment when the queue is full, or at the end of the    *)
(* program, when the last attempt to work off the queue has failed: then   *)
(* all that is left on it is lost, and with a server that answers and has  *)
(* not refused the oldest record there is nothing left.                    *)
LostAtEnd == pc' = "freed" /\ (~up \/ Head(queue) \in BadRecords)

NoSilentLoss ==
  [][\A r \in Records : Held(r) /\ ~Held(r)' =>
       \/ stored'[r] > 0
       \/ r \in BadRecords /\ up
       \/ Len(queue) = MaxQueue
       \/ LostAtEnd]_clientVars

(* When the server stays reachable the backlog is worked off, although     *)
(* each call sends a bounded number of records.  Two things stop it: a     *)
(* record at the head of the list that the server refuses, and a request   *)
(* of an earlier time that hangs for ever.                                 *)
BacklogDrains ==
  <>[]up => \/ <>[](pc \in {"freed", "hung"})
            \/ []<>(queue = <<>>)
            \/ <>[](queue # <<>> /\ Head(queue) \in BadRecords)
=============================================================================
