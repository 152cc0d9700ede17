----------------------------- MODULE SyncHeader -----------------------------
(***************************************************************************)
(* One header download: the future SyncHeader of                           *)
(* src/src/tasks/sync_header.rs and the peer it downloads from.            *)
(*                                                                         *)
(* The future asks for the headers of (local head, target head] in batches *)
(* of RequestLimit, at most MaxConcurrent of them at a time.  One poll     *)
(* takes the answers that are there, sends what the limit leaves room for, *)
(* and starts over as long as it sent something.  Answers arrive while it  *)
(* runs and in any order (FuturesUnordered yields them as they complete),  *)
(* so a step of this model is one turn of one of those loops.              *)
(*                                                                         *)
(* A header is its number: the peer is honest and holds 0 .. peerTip of    *)
(* the one chain.  It may be behind the target and may grow meanwhile.     *)
(***************************************************************************)
EXTENDS Integers, Sequences, FiniteSets

CONSTANTS
  Jobs,           \* the (local head, target head) pairs to download
  RequestLimit,   \* request_limit
  MaxConcurrent,  \* max_concurrent_limit
  MaxPeerTip      \* bound: the peer's chain stops growing here

ASSUME LimitAssumption == RequestLimit \in Nat \ {0} /\ MaxConcurrent \in Nat \ {0}
ASSUME JobAssumption   == Jobs \subseteq [local : Nat, target : Nat]
ASSUME PeerAssumption  == MaxPeerTip \in Nat

VARIABLES
  job,                \* the download, chosen once
  local_head_block,   \* the last number asked for so far
  in_progress_queue,  \* the requests sent and not yet taken, with their state
  queued_headers,     \* the headers received, in the order they were taken
  phase,              \* where the poll is
  progress,           \* did this turn of the poll send a request
  output,             \* what the future returned
  peerTip             \* the tip of the peer's chain

vars == <<job, local_head_block, in_progress_queue, queued_headers, phase,
          progress, output, peerTip>>

target_head == job.target

----------------------------------------------------------------------------
(* The peer.                                                               *)

handle_get_block_headers_request_LatestFirst(start, limit) ==
  LET available == IF peerTip < start THEN 0 ELSE peerTip - start + 1
      count     == IF limit < available THEN limit ELSE available
  IN  [i \in 1 .. count |-> start + count - i]

(* The headers from start on, up to limit of them or the end of the chain. *)
handle_get_block_headers_request(start, limit) ==
  LET available == IF peerTip < start THEN 0 ELSE peerTip - start + 1
      count     == IF limit < available THEN limit ELSE available
  IN  [i \in 1 .. count |-> start + i - 1]

Complete(r, status, headers) ==
  /\ r.status = "waiting"
  /\ in_progress_queue' = (in_progress_queue \ {r}) \cup
       {[r EXCEPT !.status = status, !.headers = headers]}
  /\ UNCHANGED <<job, local_head_block, queued_headers, phase, progress, output, peerTip>>

Answer(r) ==
  Complete(r, "ok", handle_get_block_headers_request(r.start_block, r.limit))

(* The connection breaks or the request times out.                         *)
RequestFails(r) == Complete(r, "failed", <<>>)

PeerGrows ==
  /\ peerTip < MaxPeerTip
  /\ peerTip' = peerTip + 1
  /\ UNCHANGED <<job, local_head_block, in_progress_queue, queued_headers,
                 phase, progress, output>>

----------------------------------------------------------------------------
(* The poll.                                                               *)

Arrived == {r \in in_progress_queue : r.status # "waiting"}

(* The future is done and dropped with every request it still waits for.   *)
Return(result) ==
  /\ phase' = "done"
  /\ output' = result
  /\ in_progress_queue' = {}

on_header_response_EmptyIsOk(r) ==
  /\ queued_headers' = queued_headers \o r.headers
  /\ in_progress_queue' = in_progress_queue \ {r}
  /\ UNCHANGED <<phase, output>>

on_header_response(r) ==
  \/ /\ r.headers = <<>>
     /\ Return("EmptyResponse")
     /\ UNCHANGED queued_headers
  \/ /\ r.headers # <<>>
     /\ queued_headers' = queued_headers \o r.headers
     /\ in_progress_queue' = in_progress_queue \ {r}
     /\ UNCHANGED <<phase, output>>

TakeResponse(r) ==
  /\ phase = "take"
  /\ r \in Arrived
  /\ \/ r.status = "ok" /\ on_header_response(r)
     \/ r.status = "failed" /\ Return("RequestError") /\ UNCHANGED queued_headers
  /\ UNCHANGED <<job, local_head_block, progress, peerTip>>

StartSending_KeepProgress ==
  /\ phase = "take"
  /\ Arrived = {}
  /\ phase' = "send"
  /\ UNCHANGED <<job, local_head_block, in_progress_queue, queued_headers,
                 progress, output, peerTip>>

(* No answer is ready: see what can be sent.                               *)
StartSending ==
  /\ phase = "take"
  /\ Arrived = {}
  /\ phase' = "send"
  /\ progress' = FALSE
  /\ UNCHANGED <<job, local_head_block, in_progress_queue, queued_headers,
                 output, peerTip>>

CanSend_EvenIfAhead == Cardinality(in_progress_queue) < MaxConcurrent

CanSend ==
  /\ Cardinality(in_progress_queue) < MaxConcurrent
  /\ target_head > local_head_block

Request(start, limit) ==
  [start_block |-> start, limit |-> limit, status |-> "waiting", headers |-> <<>>]

SendRequest_FromLocalHead ==
  LET diff  == target_head - local_head_block
      limit == IF diff < RequestLimit THEN diff ELSE RequestLimit
  IN  /\ phase = "send"
      /\ CanSend
      /\ in_progress_queue' = in_progress_queue \cup {Request(local_head_block, limit)}
      /\ local_head_block' = local_head_block + limit
      /\ progress' = TRUE
      /\ UNCHANGED <<job, queued_headers, phase, output, peerTip>>

SendRequest ==
  LET diff  == target_head - local_head_block
      limit == IF diff < RequestLimit THEN diff ELSE RequestLimit
  IN  /\ phase = "send"
      /\ CanSend
      /\ in_progress_queue' = in_progress_queue \cup {Request(local_head_block + 1, limit)}
      /\ local_head_block' = local_head_block + limit
      /\ progress' = TRUE
      /\ UNCHANGED <<job, queued_headers, phase, output, peerTip>>

(* Nothing more to send: start over, return the headers, or wait.          *)
StopSending ==
  /\ phase = "send"
  /\ ~CanSend
  /\ \/ /\ progress
        /\ phase' = "take"
        /\ UNCHANGED <<in_progress_queue, output>>
     \/ /\ ~progress
        /\ in_progress_queue = {}
        /\ Return("Ok")
     \/ /\ ~progress
        /\ in_progress_queue # {}
        /\ phase' = "pending"
        /\ UNCHANGED <<in_progress_queue, output>>
  /\ UNCHANGED <<job, local_head_block, queued_headers, progress, peerTip>>

(* An answer wakes the task, which polls the future again.                 *)
Wake ==
  /\ phase = "pending"
  /\ Arrived # {}
  /\ phase' = "take"
  /\ UNCHANGED <<job, local_head_block, in_progress_queue, queued_headers,
                 progress, output, peerTip>>

Init ==
  /\ job \in Jobs
  /\ local_head_block = job.local
  /\ in_progress_queue = {}
  /\ queued_headers = <<>>
  /\ phase = "take"
  /\ progress = FALSE
  /\ output = "none"
  /\ peerTip \in 0 .. MaxPeerTip

Poll ==
  \/ \E r \in in_progress_queue : TakeResponse(r)
  \/ StartSending
  \/ SendRequest
  \/ StopSending
  \/ Wake

Peer == \E r \in in_progress_queue : Answer(r) \/ RequestFails(r)

Next == Poll \/ Peer \/ PeerGrows

(* The runtime polls a woken task, and libp2p ends every request with an   *)
(* answer, a failure or its timeout.                                       *)
Fairness == WF_vars(Poll) /\ WF_vars(Peer)

Spec == Init /\ [][Next]_vars /\ Fairness

----------------------------------------------------------------------------
(* Properties.                                                             *)

Status == {"waiting", "ok", "failed"}

(* The variables hold values of the code's types.                          *)
TypeOK ==
  /\ job \in Jobs
  /\ local_head_block \in Nat
  /\ in_progress_queue \subseteq
       [start_block : Nat, limit : Nat, status : Status, headers : Seq(Nat)]
  /\ queued_headers \in Seq(Nat)
  /\ phase \in {"take", "send", "pending", "done"}
  /\ progress \in BOOLEAN
  /\ output \in {"none", "Ok", "EmptyResponse", "RequestError"}
  /\ peerTip \in Nat

Asked(r) == r.start_block .. r.start_block + r.limit - 1

(* Whatever order the batches are sent and answered in, every number is    *)
(* asked for once and received once, and nothing outside (local head,      *)
(* target head] is.                                                        *)
ExactlyOnce ==
  /\ \A r \in in_progress_queue : Asked(r) \subseteq job.local + 1 .. job.target
  /\ \A r, s \in in_progress_queue : r # s => Asked(r) \cap Asked(s) = {}
  /\ \A i \in DOMAIN queued_headers :
       /\ queued_headers[i] \in job.local + 1 .. job.target
       /\ \A r \in in_progress_queue : queued_headers[i] \notin Asked(r)
       /\ \A j \in DOMAIN queued_headers : i # j => queued_headers[i] # queued_headers[j]

StartsBatch(n) == (n - job.local - 1) % RequestLimit = 0

(* The caller adds the headers one by one and stops at the first whose     *)
(* parent is missing.  Within a batch it never does: each header directly  *)
(* follows its parent, or is the first of its batch.                       *)
BatchesIntact ==
  \A i \in DOMAIN queued_headers :
    \/ StartsBatch(queued_headers[i])
    \/ i > 1 /\ queued_headers[i - 1] = queued_headers[i] - 1

(* Ok means that every batch brought something, in particular the header   *)
(* right after the local head: an Ok download can move the tip.            *)
OkCoversEveryBatch ==
  output = "Ok" =>
    \A n \in job.local + 1 .. job.target :
      StartsBatch(n) => \E i \in DOMAIN queued_headers : queued_headers[i] = n

(* The download ends: no lost wake-up, no turn of the poll that goes on    *)
(* for ever, whatever the peer holds and whichever requests fail.          *)
Terminates == <>(phase = "done")
=============================================================================
