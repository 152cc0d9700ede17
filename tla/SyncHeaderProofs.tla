-------------------------- MODULE SyncHeaderProofs --------------------------
(***************************************************************************)
(* What holds of SyncHeader for every pair of heads, every batch size,     *)
(* every limit on the concurrent requests and whatever the peer holds.     *)
(***************************************************************************)
EXTENDS SyncHeader, FiniteSetTheorems, TLAPS

RequestSet == [start_block : Nat, limit : Nat, status : Status, headers : Seq(Nat)]

(* TypeOK without its Boolean.                                             *)
ValuesOK ==
  /\ job \in Jobs
  /\ local_head_block \in Nat
  /\ in_progress_queue \subseteq RequestSet
  /\ queued_headers \in Seq(Nat)
  /\ phase \in {"take", "send", "pending", "done"}
  /\ output \in {"none", "Ok", "EmptyResponse", "RequestError"}
  /\ peerTip \in Nat

FlagOK == progress \in BOOLEAN

(* What was asked for so far: (local head, local_head_block], and while    *)
(* something is left, only whole batches.                                  *)
AskedSoFar ==
  /\ job.local <= local_head_block
  /\ job.local < local_head_block => local_head_block <= job.target
  /\ local_head_block < job.target => StartsBatch(local_head_block + 1)

(* A request is for one batch, and its answer is a prefix of that batch.   *)
OneBatch(r) ==
  /\ r.limit >= 1
  /\ r.start_block > job.local
  /\ r.start_block + r.limit - 1 <= local_head_block
  /\ StartsBatch(r.start_block)
  /\ Len(r.headers) <= r.limit
  /\ \A i \in 1 .. Len(r.headers) : r.headers[i] = r.start_block + i - 1

Apart(r, s) ==
  r.start_block + r.limit <= s.start_block \/ s.start_block + s.limit <= r.start_block

Requests ==
  /\ \A r \in in_progress_queue : OneBatch(r)
  /\ \A r, s \in in_progress_queue : r # s => Apart(r, s)

(* A received header was asked for, by no request still in progress, and   *)
(* is received once.                                                       *)
Received ==
  \A i \in 1 .. Len(queued_headers) :
    /\ job.local < queued_headers[i] /\ queued_headers[i] <= local_head_block
    /\ \A r \in in_progress_queue :
         queued_headers[i] < r.start_block \/ r.start_block + r.limit <= queued_headers[i]
    /\ \A j \in 1 .. Len(queued_headers) : i # j => queued_headers[i] # queued_headers[j]

(* Until the download fails, no batch is forgotten.                        *)
NoBatchLost ==
  output \in {"none", "Ok"} =>
    \A n \in job.local + 1 .. local_head_block : StartsBatch(n) =>
      \/ \E r \in in_progress_queue : r.start_block = n
      \/ \E i \in 1 .. Len(queued_headers) : queued_headers[i] = n

(* A download that is done waits for nothing, and Ok comes after the last  *)
(* request.                                                                *)
Done ==
  /\ phase = "done" <=> output # "none"
  /\ phase = "done" => in_progress_queue = {}
  /\ output = "Ok" => job.target <= local_head_block

Inv ==
  /\ ValuesOK /\ FlagOK /\ AskedSoFar
  /\ Requests /\ Received /\ BatchesIntact /\ NoBatchLost /\ Done

----------------------------------------------------------------------------
(* Lemmas.                                                                 *)

LEMMA JobNumbers ==
  ASSUME ValuesOK
  PROVE  job.local \in Nat /\ job.target \in Nat
BY JobAssumption DEF ValuesOK

LEMMA Division ==
  ASSUME NEW x \in Nat, NEW L \in Nat \ {0}
  PROVE  /\ (x \div L) \in Nat /\ x % L \in Nat /\ x % L < L
         /\ x % L = x - L * (x \div L)
OBVIOUS

LEMMA SmallMultiple ==
  ASSUME NEW L \in Nat \ {0}, NEW d \in Int, 0 <= L * d, L * d < L
  PROVE  d = 0
<1>1. d >= 1 => L * d >= L
  OBVIOUS
<1>2. d <= -1 => L * d < 0
  OBVIOUS
<1>3. L * d \in Int
  OBVIOUS
<1> QED
  BY <1>1, <1>2, <1>3

(* The next whole batch.                                                   *)
LEMMA NextMultiple ==
  ASSUME NEW x \in Nat, NEW L \in Nat \ {0}, x % L = 0
  PROVE  (x + L) % L = 0
<1> DEFINE z == x + L
           p == x \div L
           q == z \div L
<1>1. z \in Nat
  OBVIOUS
<1>2. p \in Nat /\ x = L * p
  <2>1. p \in Nat /\ 0 = x - L * p
    BY Division
  <2> HIDE DEF p
  <2> QED
    BY <2>1
<1>3. q \in Nat /\ z % L \in Nat /\ z % L < L /\ z % L = z - L * q
  BY <1>1, Division
<1> HIDE DEF p, q
<1>4. L * (p + 1 - q) = L * p + L - L * q
  BY <1>2, <1>3
<1>5. L * (p + 1 - q) = z % L
  <2>1. L * p \in Int /\ L * q \in Int
    BY <1>2, <1>3
  <2> QED
    BY <1>2, <1>3, <1>4, <2>1
<1>6. p + 1 - q = 0
  BY <1>2, <1>3, <1>5, SmallMultiple
<1> QED
  BY <1>5, <1>6

(* A batch holds one first number.                                         *)
LEMMA OneMultiple ==
  ASSUME NEW x \in Nat, NEW y \in Nat, NEW L \in Nat \ {0},
         x % L = 0, y % L = 0, x <= y, y < x + L
  PROVE  x = y
<1> DEFINE p == x \div L
           q == y \div L
<1>1. p \in Nat /\ x = L * p /\ q \in Nat /\ y = L * q
  <2>1. p \in Nat /\ 0 = x - L * p /\ q \in Nat /\ 0 = y - L * q
    BY Division
  <2> HIDE DEF p, q
  <2> QED
    BY <2>1
<1> HIDE DEF p, q
<1>2. L * (q - p) = L * q - L * p
  BY <1>1
<1>3. L * (q - p) = y - x
  BY <1>1, <1>2
<1>4. q - p = 0
  BY <1>1, <1>3, SmallMultiple
<1> QED
  BY <1>1, <1>3, <1>4

(* The first numbers of two neighbouring batches.                          *)
LEMMA NextBatch ==
  ASSUME ValuesOK, NEW n \in Nat, n > job.local, StartsBatch(n)
  PROVE  /\ StartsBatch(n + RequestLimit)
         /\ \A m \in Nat : (n <= m /\ m < n + RequestLimit /\ StartsBatch(m)) => m = n
<1>1. job.local \in Nat /\ RequestLimit \in Nat \ {0}
  BY JobNumbers, LimitAssumption
<1> DEFINE x == n - job.local - 1
<1>2. x \in Nat /\ x % RequestLimit = 0
  BY <1>1 DEF StartsBatch
<1>3. StartsBatch(n + RequestLimit)
  <2>1. (x + RequestLimit) % RequestLimit = 0
    BY <1>1, <1>2, NextMultiple
  <2>2. (n + RequestLimit) - job.local - 1 = x + RequestLimit
    BY <1>1
  <2> QED
    BY <2>1, <2>2 DEF StartsBatch
<1>4. ASSUME NEW m \in Nat, n <= m, m < n + RequestLimit, StartsBatch(m)
      PROVE  m = n
  <2> DEFINE y == m - job.local - 1
  <2>1. y \in Nat /\ x <= y /\ y < x + RequestLimit
    BY <1>1, <1>4
  <2>2. y % RequestLimit = 0
    BY <1>4 DEF StartsBatch
  <2>3. x = y
    BY <1>1, <1>2, <2>1, <2>2, OneMultiple
  <2> QED
    BY <1>1, <2>3
<1> QED
  BY <1>3, <1>4

(* What the peer answers: a prefix of what it is asked for.                *)
LEMMA AnswerIsPrefix ==
  ASSUME NEW start \in Nat, NEW limit \in Nat, peerTip \in Nat
  PROVE  LET hs == handle_get_block_headers_request(start, limit)
         IN  /\ hs \in Seq(Nat) /\ Len(hs) <= limit
             /\ \A i \in 1 .. Len(hs) : hs[i] = start + i - 1
<1> DEFINE available == IF peerTip < start THEN 0 ELSE peerTip - start + 1
           count == IF limit < available THEN limit ELSE available
           hs == [i \in 1 .. count |-> start + i - 1]
<1>1. count \in Nat /\ count <= limit
  OBVIOUS
<1>2. handle_get_block_headers_request(start, limit) = hs
  BY DEF handle_get_block_headers_request
<1> HIDE DEF count
<1>3. \A i \in 1 .. count : start + i - 1 \in Nat
  BY <1>1
<1>4. hs \in Seq(Nat) /\ Len(hs) = count /\ \A i \in 1 .. count : hs[i] = start + i - 1
  BY <1>1, <1>3
<1> QED
  BY <1>1, <1>2, <1>4

----------------------------------------------------------------------------
(* The steps.                                                              *)

LEMMA SyncInit == Init => Inv
<1> SUFFICES ASSUME Init
             PROVE  Inv
  OBVIOUS
<1>1. ValuesOK
  BY JobAssumption, PeerAssumption DEF Init, ValuesOK
<1>2. FlagOK
  BY Zenon DEF Init, FlagOK
<1>3. job.local \in Nat /\ local_head_block = job.local
  BY <1>1, JobNumbers DEF Init
<1>4. AskedSoFar
  <2>1. (local_head_block + 1) - job.local - 1 = 0 /\ 0 % RequestLimit = 0
    BY <1>3, LimitAssumption
  <2> QED
    BY <1>3, <2>1 DEF AskedSoFar, StartsBatch
<1>5. Requests /\ Received /\ Done
  BY DEF Init, Requests, Received, Done
<1>6. BatchesIntact
  BY DEF Init, BatchesIntact
<1>7. NoBatchLost
  BY <1>3 DEF NoBatchLost
<1> QED
  BY <1>1, <1>2, <1>4, <1>5, <1>6, <1>7 DEF Inv

(* A request is answered or fails.                                         *)
LEMMA CompleteStep ==
  ASSUME Inv, NEW r \in in_progress_queue, NEW status \in Status, NEW hs \in Seq(Nat),
         Complete(r, status, hs), Len(hs) <= r.limit,
         \A i \in 1 .. Len(hs) : hs[i] = r.start_block + i - 1
  PROVE  Inv'
<1> DEFINE c == [r EXCEPT !.status = status, !.headers = hs]
<1>1. /\ in_progress_queue' = (in_progress_queue \ {r}) \cup {c}
      /\ UNCHANGED <<job, local_head_block, queued_headers, phase, progress, output, peerTip>>
  BY DEF Complete
<1>2. r \in RequestSet /\ OneBatch(r)
  BY DEF Inv, ValuesOK, Requests
<1>3. /\ c \in RequestSet /\ c.start_block = r.start_block /\ c.limit = r.limit
      /\ c.headers = hs
  BY <1>2 DEF RequestSet
<1> HIDE DEF c
<1>4. ValuesOK' /\ FlagOK'
  BY <1>1, <1>3 DEF Inv, ValuesOK, FlagOK
<1>5. OneBatch(c)
  BY <1>2, <1>3 DEF OneBatch
<1>6. Requests'
  <2>1. \A q \in in_progress_queue' : OneBatch(q)
    BY <1>1, <1>5 DEF Inv, Requests
  <2>2. \A q \in in_progress_queue' : OneBatch(q)'
    BY <1>1, <2>1 DEF OneBatch, StartsBatch
  <2>3. \A q \in in_progress_queue \ {r} : Apart(q, c) /\ Apart(c, q)
    BY <1>3 DEF Inv, Requests, Apart
  <2>4. \A q, s \in in_progress_queue' : q # s => Apart(q, s)
    BY <1>1, <2>3 DEF Inv, Requests
  <2> QED
    BY <2>2, <2>4 DEF Requests, Apart
<1>7. AskedSoFar' /\ BatchesIntact'
  BY <1>1 DEF Inv, AskedSoFar, BatchesIntact, StartsBatch
<1>8. Received'
  BY <1>1, <1>3 DEF Inv, Received
<1>9. NoBatchLost'
  <2>1. \A n : (\E q \in in_progress_queue : q.start_block = n) =>
                (\E q \in in_progress_queue' : q.start_block = n)
    BY <1>1, <1>3
  <2> QED
    BY <1>1, <2>1 DEF Inv, NoBatchLost, StartsBatch
<1>10. Done'
  BY <1>1 DEF Inv, Done
<1> QED
  BY <1>4, <1>6, <1>7, <1>8, <1>9, <1>10 DEF Inv

(* The future returns an error.                                            *)
LEMMA ReturnErrorStep ==
  ASSUME Inv, NEW error \in {"EmptyResponse", "RequestError"}, Return(error),
         UNCHANGED <<job, local_head_block, queued_headers, progress, peerTip>>
  PROVE  Inv'
<1>1. phase' = "done" /\ output' = error /\ in_progress_queue' = {}
  BY DEF Return
<1>2. ValuesOK' /\ FlagOK'
  BY <1>1 DEF Inv, ValuesOK, FlagOK
<1>3. AskedSoFar' /\ BatchesIntact'
  BY DEF Inv, AskedSoFar, BatchesIntact, StartsBatch
<1>4. Requests' /\ Received' /\ NoBatchLost' /\ Done'
  BY <1>1 DEF Inv, Requests, Received, NoBatchLost, Done
<1> QED
  BY <1>2, <1>3, <1>4 DEF Inv

(* The headers of an answer are queued behind those received before.       *)
LEMMA QueueHeadersStep ==
  ASSUME Inv, NEW r \in in_progress_queue, r.headers # <<>>,
         queued_headers' = queued_headers \o r.headers,
         in_progress_queue' = in_progress_queue \ {r},
         UNCHANGED <<job, local_head_block, phase, progress, output, peerTip>>
  PROVE  Inv'
<1> DEFINE q == queued_headers
           hs == r.headers
           N == Len(q)
           M == Len(hs)
<1>1. q \in Seq(Nat) /\ hs \in Seq(Nat) /\ r \in RequestSet /\ OneBatch(r)
  BY DEF Inv, ValuesOK, RequestSet, Requests
<1>2. r.start_block \in Nat /\ r.limit \in Nat /\ local_head_block \in Nat
      /\ job.local \in Nat
  BY <1>1, JobNumbers DEF RequestSet, Inv, ValuesOK
<1>3. /\ q' \in Seq(Nat) /\ Len(q') = N + M /\ N \in Nat /\ M \in Nat /\ M > 0
      /\ \A i \in 1 .. N : q'[i] = q[i]
      /\ \A j \in 1 .. M : q'[N + j] = hs[j]
  BY <1>1
<1>4. \A i \in N + 1 .. N + M : q'[i] = r.start_block + (i - N) - 1
  <2> SUFFICES ASSUME NEW i \in N + 1 .. N + M
               PROVE  q'[i] = r.start_block + (i - N) - 1
    OBVIOUS
  <2> DEFINE j == i - N
  <2>1. j \in 1 .. M /\ N + j = i
    BY <1>3
  <2> HIDE DEF q, hs, N, M, j
  <2>2. q'[i] = hs[j]
    BY <1>3, <2>1
  <2>3. hs[j] = r.start_block + j - 1
    BY <1>1, <2>1 DEF OneBatch, hs, M
  <2> QED
    BY <2>2, <2>3 DEF j
<1>5. M <= r.limit
  BY <1>1 DEF OneBatch
<1>6. /\ N \in Nat /\ M \in Nat
      /\ \A i \in 1 .. N : q[i] \in Nat
      /\ \A i \in 1 .. N + M : q'[i] \in Nat
  <2>1. N \in Nat /\ M \in Nat
    BY <1>1
  <2>2. \A i \in 1 .. N : q[i] \in Nat
    BY <1>1
  <2>3. \A i \in 1 .. N + M : q'[i] \in Nat
    <3> DEFINE new == q'
    <3>1. new \in Seq(Nat) /\ Len(new) = N + M
      BY <1>3
    <3> HIDE DEF new, N, M
    <3> QED
      BY <3>1 DEF new
  <2> QED
    BY <2>1, <2>2, <2>3
<1>7. /\ q = queued_headers /\ N = Len(queued_headers)
      /\ q' = queued_headers' /\ N + M = Len(queued_headers')
      /\ DOMAIN queued_headers = 1 .. N /\ DOMAIN queued_headers' = 1 .. N + M
  BY <1>1, <1>3
<1> HIDE DEF q, hs, N, M
<1>8. ValuesOK' /\ FlagOK'
  BY <1>3, <1>7 DEF Inv, ValuesOK, FlagOK
<1>9. AskedSoFar' /\ Done'
  BY DEF Inv, AskedSoFar, Done, StartsBatch
<1>10. Requests'
  BY DEF Inv, Requests, OneBatch, Apart, StartsBatch
<1>11. Received'
  <2> SUFFICES ASSUME NEW i \in 1 .. N + M
               PROVE  /\ job.local < q'[i] /\ q'[i] <= local_head_block
                      /\ \A s \in in_progress_queue \ {r} :
                           q'[i] < s.start_block \/ s.start_block + s.limit <= q'[i]
                      /\ \A j \in 1 .. N + M : i # j => q'[i] # q'[j]
    BY <1>7 DEF Received
  <2>1. \A k \in 1 .. N :
          /\ job.local < q[k] /\ q[k] <= local_head_block
          /\ \A s \in in_progress_queue :
               q[k] < s.start_block \/ s.start_block + s.limit <= q[k]
          /\ \A j \in 1 .. N : k # j => q[k] # q[j]
    BY <1>7 DEF Inv, Received
  <2>2. \A k \in N + 1 .. N + M : r.start_block <= q'[k] /\ q'[k] < r.start_block + r.limit
    <3> SUFFICES ASSUME NEW k \in N + 1 .. N + M
                 PROVE  r.start_block <= q'[k] /\ q'[k] < r.start_block + r.limit
      OBVIOUS
    <3> DEFINE start == r.start_block
               limit == r.limit
               d == k - N
    <3>1. q'[k] = start + d - 1
      BY <1>4
    <3>2. d \in Int /\ 1 <= d /\ d <= M
      BY <1>3
    <3>3. start \in Nat /\ limit \in Nat /\ M \in Nat /\ M <= limit
      BY <1>2, <1>3, <1>5
    <3> HIDE DEF start, limit, d
    <3>4. start <= start + d - 1 /\ start + d - 1 < start + limit
      BY <3>2, <3>3
    <3> QED
      BY <3>1, <3>4 DEF start, limit
  <2>3. CASE i \in 1 .. N
    <3>1. q'[i] = q[i] /\ q[i] \in Nat
      BY <1>3, <1>6, <2>3
    <3>2. ASSUME NEW j \in 1 .. N + M, i # j
          PROVE  q'[i] # q'[j]
      <4>1. CASE j \in 1 .. N
        BY <1>3, <2>1, <2>3, <3>1, <3>2, <4>1
      <4>2. CASE j \in N + 1 .. N + M
        <5>1. q'[j] \in Nat
          BY <1>6
        <5>2. q[i] < r.start_block \/ r.start_block + r.limit <= q[i]
          BY <2>1, <2>3
        <5>3. r.start_block <= q'[j] /\ q'[j] < r.start_block + r.limit
          BY <2>2, <4>2
        <5>4. ASSUME q[i] = q'[j]
              PROVE  FALSE
          BY <1>2, <3>1, <5>1, <5>2, <5>3, <5>4
        <5> QED
          BY <3>1, <5>4
      <4> QED
        BY <1>3, <4>1, <4>2
    <3> QED
      BY <2>1, <2>3, <3>1, <3>2
  <2>4. CASE i \in N + 1 .. N + M
    <3>1. q'[i] \in Nat /\ r.start_block <= q'[i] /\ q'[i] < r.start_block + r.limit
      BY <1>6, <2>2, <2>4
    <3>2. job.local < q'[i] /\ q'[i] <= local_head_block
      BY <1>1, <1>2, <3>1 DEF OneBatch
    <3>3. ASSUME NEW s \in in_progress_queue \ {r}
          PROVE  q'[i] < s.start_block \/ s.start_block + s.limit <= q'[i]
      <4>1. Apart(r, s) /\ s.start_block \in Nat /\ s.limit \in Nat
        BY DEF Inv, Requests, ValuesOK, RequestSet
      <4> QED
        BY <1>2, <3>1, <4>1 DEF Apart
    <3>4. ASSUME NEW j \in 1 .. N + M, i # j
          PROVE  q'[i] # q'[j]
      <4>1. CASE j \in 1 .. N
        <5>1. q'[j] = q[j] /\ q[j] \in Nat
          BY <1>3, <1>6, <4>1
        <5>2. q[j] < r.start_block \/ r.start_block + r.limit <= q[j]
          BY <2>1, <4>1
        <5>3. ASSUME q'[i] = q[j]
              PROVE  FALSE
          BY <1>2, <3>1, <5>1, <5>2, <5>3
        <5> QED
          BY <5>1, <5>3
      <4>2. CASE j \in N + 1 .. N + M
        <5> DEFINE start == r.start_block
        <5>1. q'[i] = start + (i - N) - 1 /\ q'[j] = start + (j - N) - 1
          BY <1>4, <2>4, <4>2
        <5>2. start \in Nat /\ N \in Nat /\ i \in Int /\ j \in Int
          BY <1>2, <1>6, <2>4, <4>2
        <5> HIDE DEF start
        <5>3. start + (i - N) - 1 # start + (j - N) - 1
          BY <3>4, <5>2
        <5> QED
          BY <5>1, <5>3
      <4> QED
        BY <1>6, <4>1, <4>2
    <3> QED
      BY <3>2, <3>3, <3>4
  <2> QED
    BY <1>3, <2>3, <2>4
<1>12. BatchesIntact'
  <2> SUFFICES ASSUME NEW i \in 1 .. N + M
               PROVE  StartsBatch(q'[i]) \/ (i > 1 /\ q'[i - 1] = q'[i] - 1)
    BY <1>7 DEF BatchesIntact, StartsBatch
  <2>1. CASE i \in 1 .. N
    <3>1. StartsBatch(q[i]) \/ (i > 1 /\ q[i - 1] = q[i] - 1)
      BY <1>7, <2>1 DEF Inv, BatchesIntact
    <3>2. q'[i] = q[i] /\ (i > 1 => q'[i - 1] = q[i - 1])
      BY <1>3, <2>1
    <3> QED
      BY <3>1, <3>2
  <2>2. CASE i = N + 1
    <3>1. q'[i] = r.start_block
      BY <1>2, <1>3, <1>4, <2>2
    <3> QED
      BY <1>1, <3>1 DEF OneBatch
  <2>3. CASE i \in N + 2 .. N + M
    <3>1. i > 1 /\ i \in N + 1 .. N + M /\ i - 1 \in N + 1 .. N + M
      BY <1>3, <2>3
    <3>2. q'[i] = r.start_block + (i - N) - 1 /\ q'[i - 1] = r.start_block + ((i - 1) - N) - 1
      BY <1>4, <3>1
    <3> DEFINE start == r.start_block
    <3>3. start \in Nat /\ N \in Nat /\ i \in Int
      BY <1>2, <1>6, <3>1
    <3> HIDE DEF start
    <3>4. start + ((i - 1) - N) - 1 = (start + (i - N) - 1) - 1
      BY <3>3
    <3> QED
      BY <3>1, <3>2, <3>4 DEF start
  <2> QED
    BY <1>6, <2>1, <2>2, <2>3
<1>13. NoBatchLost'
  <2> SUFFICES ASSUME output \in {"none", "Ok"},
                      NEW n \in job.local + 1 .. local_head_block, StartsBatch(n)
               PROVE  \/ \E s \in in_progress_queue \ {r} : s.start_block = n
                      \/ \E i \in 1 .. N + M : q'[i] = n
    BY <1>7 DEF NoBatchLost, StartsBatch
  <2>1. CASE n = r.start_block
    <3>1. N + 1 \in 1 .. N + M /\ q'[N + 1] = n
      BY <1>2, <1>3, <1>4, <2>1
    <3> QED
      BY <3>1
  <2>2. CASE \E i \in 1 .. N : q[i] = n
    <3>1. PICK i \in 1 .. N : q[i] = n
      BY <2>2
    <3>2. i \in 1 .. N + M /\ q'[i] = n
      BY <1>3, <3>1
    <3> QED
      BY <3>2
  <2>3. CASE \E s \in in_progress_queue : s.start_block = n /\ n # r.start_block
    BY <2>3
  <2> QED
    BY <1>7, <2>1, <2>2, <2>3 DEF Inv, NoBatchLost
<1> QED
  BY <1>8, <1>9, <1>10, <1>11, <1>12, <1>13 DEF Inv

LEMMA TakeResponseStep ==
  ASSUME Inv, NEW r \in in_progress_queue, TakeResponse(r)
  PROVE  Inv'
<1>1. UNCHANGED <<job, local_head_block, progress, peerTip>>
  BY DEF TakeResponse
<1>2. CASE Return("EmptyResponse") /\ UNCHANGED queued_headers
  BY <1>1, <1>2, ReturnErrorStep
<1>3. CASE Return("RequestError") /\ UNCHANGED queued_headers
  BY <1>1, <1>3, ReturnErrorStep
<1>4. CASE /\ r.headers # <<>>
           /\ queued_headers' = queued_headers \o r.headers
           /\ in_progress_queue' = in_progress_queue \ {r}
           /\ UNCHANGED <<phase, output>>
  BY <1>1, <1>4, QueueHeadersStep
<1> QED
  BY <1>2, <1>3, <1>4 DEF TakeResponse, on_header_response

(* The next batch is asked for.                                            *)
LEMMA SendRequestStep ==
  ASSUME Inv, SendRequest
  PROVE  Inv'
<1> DEFINE diff == target_head - local_head_block
           limit == IF diff < RequestLimit THEN diff ELSE RequestLimit
           start == local_head_block + 1
<1>0. PICK new : new = Request(start, limit)
  OBVIOUS
<1>1. /\ phase = "send" /\ job.target > local_head_block
      /\ in_progress_queue' = in_progress_queue \cup {new}
      /\ local_head_block' = local_head_block + limit
      /\ progress' = TRUE
      /\ UNCHANGED <<job, queued_headers, phase, output, peerTip>>
  BY <1>0 DEF SendRequest, CanSend, target_head
<1>2. /\ local_head_block \in Nat /\ job.local \in Nat /\ job.target \in Nat
      /\ RequestLimit \in Nat \ {0}
  BY JobNumbers, LimitAssumption DEF Inv, ValuesOK
<1>3. /\ limit \in Nat /\ limit >= 1 /\ limit <= RequestLimit
      /\ local_head_block + limit <= job.target
      /\ local_head_block + limit < job.target => limit = RequestLimit
      /\ start \in Nat /\ start = local_head_block + 1
  BY <1>1, <1>2 DEF target_head
<1>4. new \in RequestSet /\ new.start_block = start /\ new.limit = limit /\ new.headers = <<>>
  BY <1>0, <1>3 DEF Request, RequestSet, Status
<1> HIDE DEF diff, limit, start
<1>5. StartsBatch(start) /\ job.local <= local_head_block /\ start > job.local
  BY <1>1, <1>2, <1>3 DEF Inv, AskedSoFar
<1>6. ValuesOK'
  BY <1>1, <1>2, <1>3, <1>4 DEF Inv, ValuesOK
<1>7. FlagOK'
  BY <1>1, Zenon DEF FlagOK
<1>8. AskedSoFar'
  <2>1. job.local <= local_head_block' /\ local_head_block' <= job.target
    BY <1>1, <1>2, <1>3, <1>5
  <2>2. ASSUME local_head_block' < job.target
        PROVE  StartsBatch(local_head_block' + 1)
    <3>1. local_head_block' + 1 = start + RequestLimit
      BY <1>1, <1>2, <1>3, <2>2
    <3>2. StartsBatch(start + RequestLimit)
      BY <1>3, <1>5, NextBatch DEF Inv
    <3> QED
      BY <3>1, <3>2
  <2> QED
    BY <1>1, <2>1, <2>2 DEF AskedSoFar, StartsBatch
<1>9. Requests'
  <2>1. ASSUME NEW r \in in_progress_queue
        PROVE  OneBatch(r)' /\ Apart(r, new) /\ Apart(new, r)
    <3>1. OneBatch(r) /\ r.start_block \in Nat /\ r.limit \in Nat
      BY DEF Inv, Requests, ValuesOK, RequestSet
    <3>2. r.start_block + r.limit <= start
      BY <1>2, <1>3, <3>1 DEF OneBatch
    <3>3. r.start_block + r.limit - 1 <= local_head_block'
      BY <1>1, <1>2, <1>3, <3>1 DEF OneBatch
    <3> QED
      BY <1>1, <1>4, <3>1, <3>2, <3>3 DEF OneBatch, Apart, StartsBatch
  <2>2. OneBatch(new)'
    <3>1. Len(new.headers) = 0
      BY <1>4
    <3>2. start + limit - 1 <= local_head_block'
      BY <1>1, <1>2, <1>3
    <3> QED
      BY <1>1, <1>3, <1>4, <1>5, <3>1, <3>2 DEF OneBatch, StartsBatch
  <2> QED
    BY <1>1, <2>1, <2>2 DEF Inv, Requests, Apart
<1>10. Received'
  <2>1. \A i \in 1 .. Len(queued_headers) : queued_headers[i] \in Nat
    BY DEF Inv, ValuesOK
  <2>2. \A i \in 1 .. Len(queued_headers) :
          queued_headers[i] < start /\ queued_headers[i] <= local_head_block'
    BY <1>1, <1>2, <1>3, <2>1 DEF Inv, Received
  <2> QED
    BY <1>1, <1>4, <2>2 DEF Inv, Received
<1>11. BatchesIntact'
  BY <1>1 DEF Inv, BatchesIntact, StartsBatch
<1>12. NoBatchLost'
  <2> SUFFICES ASSUME output \in {"none", "Ok"},
                      NEW n \in job.local + 1 .. local_head_block', StartsBatch(n)
               PROVE  \/ \E r \in in_progress_queue' : r.start_block = n
                      \/ \E i \in 1 .. Len(queued_headers) : queued_headers[i] = n
    BY <1>1 DEF NoBatchLost, StartsBatch
  <2>1. CASE n \in job.local + 1 .. local_head_block
    BY <1>1, <2>1 DEF Inv, NoBatchLost
  <2>2. CASE n \notin job.local + 1 .. local_head_block
    <3>1. n \in Nat /\ start <= n /\ n < start + RequestLimit
      BY <1>1, <1>2, <1>3, <2>2
    <3>2. n = start
      BY <1>3, <1>5, <3>1, NextBatch DEF Inv
    <3> QED
      BY <1>1, <1>4, <3>2
  <2> QED
    BY <2>1, <2>2
<1>13. Done'
  BY <1>1 DEF Inv, Done
<1> QED
  BY <1>6, <1>7, <1>8, <1>9, <1>10, <1>11, <1>12, <1>13 DEF Inv

(* A step of the poll that changes only where it is.                       *)
LEMMA PhaseStep ==
  ASSUME Inv, phase # "done", phase' \in {"take", "send", "pending"}, progress' \in BOOLEAN,
         UNCHANGED <<job, local_head_block, in_progress_queue, queued_headers, output, peerTip>>
  PROVE  Inv'
BY DEF Inv, ValuesOK, FlagOK, AskedSoFar, Requests, OneBatch, Apart, Received, BatchesIntact,
       NoBatchLost, Done, StartsBatch

LEMMA StopSendingStep ==
  ASSUME Inv, StopSending
  PROVE  Inv'
<1>1. phase = "send" /\ UNCHANGED <<job, local_head_block, queued_headers, progress, peerTip>>
  BY DEF StopSending
<1>2. CASE in_progress_queue = {} /\ Return("Ok")
  <2>1. phase' = "done" /\ output' = "Ok" /\ in_progress_queue' = {} /\ output = "none"
    BY <1>1, <1>2 DEF Return, Inv, Done, ValuesOK
  <2>2. job.target <= local_head_block
    <3>1. Cardinality(in_progress_queue) = 0
      BY <1>2, FS_EmptySet
    <3>2. ~(job.target > local_head_block)
      BY <3>1, LimitAssumption DEF StopSending, CanSend, target_head
    <3> QED
      BY <3>2, JobNumbers DEF Inv, ValuesOK
  <2>3. ValuesOK' /\ FlagOK'
    BY <1>1, <2>1 DEF Inv, ValuesOK, FlagOK
  <2>4. AskedSoFar' /\ BatchesIntact'
    BY <1>1 DEF Inv, AskedSoFar, BatchesIntact, StartsBatch
  <2>5. Requests' /\ Received' /\ Done'
    BY <1>1, <2>1, <2>2 DEF Inv, Requests, Received, Done
  <2>6. NoBatchLost'
    BY <1>1, <1>2, <2>1 DEF Inv, NoBatchLost, StartsBatch
  <2> QED
    BY <2>3, <2>4, <2>5, <2>6 DEF Inv
<1>3. CASE phase' \in {"take", "pending"} /\ UNCHANGED <<in_progress_queue, output>>
  BY <1>1, <1>3, PhaseStep DEF Inv, FlagOK
<1> QED
  BY <1>2, <1>3 DEF StopSending

LEMMA SyncNext == Inv /\ [Next]_vars => Inv'
<1> SUFFICES ASSUME Inv, [Next]_vars
             PROVE  Inv'
  OBVIOUS
<1>1. CASE UNCHANGED vars
  BY <1>1 DEF vars, Inv, ValuesOK, FlagOK, AskedSoFar, Requests, OneBatch, Apart, Received,
              BatchesIntact, NoBatchLost, Done, StartsBatch
<1>2. CASE \E r \in in_progress_queue : TakeResponse(r)
  BY <1>2, TakeResponseStep
<1>3. CASE StartSending
  <2>1. progress' \in BOOLEAN
    BY <1>3, Zenon DEF StartSending
  <2> QED
    BY <1>3, <2>1, PhaseStep DEF StartSending
<1>4. CASE SendRequest
  BY <1>4, SendRequestStep
<1>5. CASE StopSending
  BY <1>5, StopSendingStep
<1>6. CASE Wake
  BY <1>6, PhaseStep DEF Wake, Inv, FlagOK
<1>7. CASE Peer
  <2>1. PICK r \in in_progress_queue : Answer(r) \/ RequestFails(r)
    BY <1>7 DEF Peer
  <2>2. r.start_block \in Nat /\ r.limit \in Nat /\ peerTip \in Nat
    BY DEF Inv, ValuesOK, RequestSet
  <2>3. CASE Answer(r)
    BY <2>2, <2>3, AnswerIsPrefix, CompleteStep DEF Answer, Status
  <2>4. CASE RequestFails(r)
    <3>1. PICK hs \in Seq(Nat) : hs = <<>> /\ Len(hs) = 0
      <4>1. <<>> \in Seq(Nat) /\ Len(<<>>) = 0
        OBVIOUS
      <4> QED
        BY <4>1, Zenon
    <3>2. Len(hs) <= r.limit /\ \A i \in 1 .. Len(hs) : hs[i] = r.start_block + i - 1
      BY <2>2, <3>1
    <3>3. Complete(r, "failed", hs) /\ "failed" \in Status
      BY <2>4, <3>1 DEF RequestFails, Status
    <3> QED
      BY <3>2, <3>3, CompleteStep
  <2> QED
    BY <2>1, <2>3, <2>4
<1>8. CASE PeerGrows
  BY <1>8 DEF PeerGrows, Inv, ValuesOK, FlagOK, AskedSoFar, Requests, OneBatch, Apart, Received,
              BatchesIntact, NoBatchLost, Done, StartsBatch
<1> QED
  BY <1>1, <1>2, <1>3, <1>4, <1>5, <1>6, <1>7, <1>8 DEF Next, Poll

----------------------------------------------------------------------------
(* Theorems.                                                               *)

LEMMA SyncInvariant == Spec => []Inv
BY SyncInit, SyncNext, PTL DEF Spec

(* No arithmetic on the heads leaves the numbers the code's types hold.    *)
THEOREM SyncTypes == Spec => []TypeOK
<1>1. Inv => TypeOK
  BY DEF Inv, ValuesOK, FlagOK, RequestSet, TypeOK
<1> QED
  BY <1>1, SyncInvariant, PTL

(* Splitting a range into batches and sending them at any time neither     *)
(* overlaps nor leaves the range, and no answer is taken twice.            *)
THEOREM EveryHeaderOnce == Spec => []ExactlyOnce
<1>1. Inv => ExactlyOnce
  <2> SUFFICES ASSUME Inv
               PROVE  ExactlyOnce
    OBVIOUS
  <2>1. /\ local_head_block \in Nat /\ job.local \in Nat /\ job.target \in Nat
        /\ \A r \in in_progress_queue : r.start_block \in Nat /\ r.limit \in Nat
        /\ \A i \in 1 .. Len(queued_headers) : queued_headers[i] \in Nat
        /\ DOMAIN queued_headers = 1 .. Len(queued_headers)
    BY JobNumbers DEF Inv, ValuesOK, RequestSet
  <2>2. job.local < local_head_block => local_head_block <= job.target
    BY DEF Inv, AskedSoFar
  <2>3. ASSUME NEW r \in in_progress_queue
        PROVE  Asked(r) \subseteq job.local + 1 .. job.target
    <3>1. OneBatch(r)
      BY DEF Inv, Requests
    <3> QED
      BY <2>1, <2>2, <3>1 DEF OneBatch, Asked
  <2>4. ASSUME NEW r \in in_progress_queue, NEW s \in in_progress_queue, r # s
        PROVE  Asked(r) \cap Asked(s) = {}
    <3>1. Apart(r, s)
      BY <2>4 DEF Inv, Requests
    <3> QED
      BY <2>1, <3>1 DEF Apart, Asked
  <2>5. ASSUME NEW i \in 1 .. Len(queued_headers)
        PROVE  /\ queued_headers[i] \in job.local + 1 .. job.target
               /\ \A r \in in_progress_queue : queued_headers[i] \notin Asked(r)
               /\ \A j \in 1 .. Len(queued_headers) :
                    i # j => queued_headers[i] # queued_headers[j]
    <3> DEFINE n == queued_headers[i]
    <3>1. /\ n \in Nat /\ job.local < n /\ n <= local_head_block
          /\ \A r \in in_progress_queue : n < r.start_block \/ r.start_block + r.limit <= n
          /\ \A j \in 1 .. Len(queued_headers) : i # j => n # queued_headers[j]
      BY <2>1 DEF Inv, Received
    <3> HIDE DEF n
    <3>2. n \in job.local + 1 .. job.target
      BY <2>1, <2>2, <3>1
    <3>3. \A r \in in_progress_queue : n \notin Asked(r)
      BY <2>1, <3>1 DEF Asked
    <3> QED
      BY <3>1, <3>2, <3>3 DEF n
  <2> QED
    BY <2>1, <2>3, <2>4, <2>5 DEF ExactlyOnce
<1> QED
  BY <1>1, SyncInvariant, PTL

(* However the answers are ordered, the headers of one batch stay together *)
(* and in order.                                                           *)
THEOREM NoGapInBatch == Spec => []BatchesIntact
<1>1. Inv => BatchesIntact
  BY DEF Inv
<1> QED
  BY <1>1, SyncInvariant, PTL

(* The future returns Ok only when every batch of the range was asked for, *)
(* answered, and not empty.                                                *)
THEOREM OkIsComplete == Spec => []OkCoversEveryBatch
<1>1. Inv => OkCoversEveryBatch
  <2> SUFFICES ASSUME Inv, output = "Ok", NEW n \in job.local + 1 .. job.target, StartsBatch(n)
               PROVE  \E i \in DOMAIN queued_headers : queued_headers[i] = n
    BY DEF OkCoversEveryBatch
  <2>1. /\ job.local \in Nat /\ job.target \in Nat /\ local_head_block \in Nat
        /\ DOMAIN queued_headers = 1 .. Len(queued_headers)
    BY JobNumbers DEF Inv, ValuesOK
  <2>2. job.target <= local_head_block /\ in_progress_queue = {}
    BY DEF Inv, Done
  <2>3. n \in job.local + 1 .. local_head_block
    BY <2>1, <2>2
  <2> QED
    BY <2>1, <2>2, <2>3 DEF Inv, NoBatchLost
<1> QED
  BY <1>1, SyncInvariant, PTL
=============================================================================
