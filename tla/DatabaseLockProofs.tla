------------------------- MODULE DatabaseLockProofs -------------------------
(***************************************************************************)
(* What holds of DatabaseLock for every number of RPC requests in flight   *)
(* and every number of headers served to a peer.                           *)
(***************************************************************************)
EXTENDS DatabaseLock, TLAPS

Instruction == {"read", "unlock", "write", "unlock_write"}

(* The rest of a call that takes one guard at a time: each guard is        *)
(* released by the next instruction, and a release is followed by the next *)
(* guard or ends the call.                                                 *)
OneAtATime(p) ==
  /\ p \in Seq(Instruction)
  /\ \A i \in 1 .. Len(p) :
       /\ p[i] = "read" => (i < Len(p) /\ p[i + 1] = "unlock")
       /\ p[i] = "write" => (i < Len(p) /\ p[i + 1] = "unlock_write")
       /\ (p[i] \in {"unlock", "unlock_write"} /\ i < Len(p)) => p[i + 1] \in {"read", "write"}

(* The same of a call that holds nothing.                                  *)
Paired(p) == OneAtATime(p) /\ (p # <<>> => p[1] \in {"read", "write"})

----------------------------------------------------------------------------
(* The calls of the manager and of the miner take one guard at a time.     *)

LEMMA PairedConcat ==
  ASSUME NEW p, NEW q, Paired(p), Paired(q)
  PROVE  Paired(p \o q)
<1> DEFINE r == p \o q
<1>1. p \in Seq(Instruction) /\ q \in Seq(Instruction)
  BY DEF Paired, OneAtATime
<1>2. /\ r \in Seq(Instruction) /\ Len(r) = Len(p) + Len(q)
      /\ Len(p) \in Nat /\ Len(q) \in Nat
      /\ \A i \in 1 .. Len(p) : r[i] = p[i]
      /\ \A i \in 1 .. Len(q) : r[Len(p) + i] = q[i]
  BY <1>1
<1>3. \A i \in 1 .. Len(r) : i > Len(p) => (i - Len(p) \in 1 .. Len(q) /\ r[i] = q[i - Len(p)])
  <2> SUFFICES ASSUME NEW i \in 1 .. Len(r), i > Len(p)
               PROVE  i - Len(p) \in 1 .. Len(q) /\ r[i] = q[i - Len(p)]
    OBVIOUS
  <2>1. i - Len(p) \in 1 .. Len(q) /\ Len(p) + (i - Len(p)) = i
    BY <1>2
  <2> HIDE DEF r
  <2> QED
    BY <1>2, <2>1
<1> HIDE DEF r
<1>4. /\ p # <<>> <=> Len(p) > 0
      /\ q # <<>> <=> Len(q) > 0
      /\ r # <<>> <=> Len(r) > 0
  BY <1>1, <1>2
<1>5. ASSUME NEW i \in 1 .. Len(r)
      PROVE  /\ r[i] = "read" => (i < Len(r) /\ r[i + 1] = "unlock")
             /\ r[i] = "write" => (i < Len(r) /\ r[i + 1] = "unlock_write")
             /\ (r[i] \in {"unlock", "unlock_write"} /\ i < Len(r))
                  => r[i + 1] \in {"read", "write"}
  <2>1. CASE i < Len(p)
    <3>1. i \in 1 .. Len(p) /\ i + 1 \in 1 .. Len(p) /\ i < Len(r)
      BY <1>2, <2>1
    <3> QED
      BY <1>2, <2>1, <3>1 DEF Paired, OneAtATime
  <2>2. CASE i = Len(p)
    <3>1. i \in 1 .. Len(p) /\ r[i] = p[i] /\ p[i] \notin {"read", "write"}
      BY <1>2, <2>2 DEF Paired, OneAtATime
    <3>2. i < Len(r) => (Len(q) > 0 /\ r[i + 1] = q[1])
      BY <1>2, <2>2
    <3> QED
      BY <1>4, <3>1, <3>2 DEF Paired
  <2>3. CASE i > Len(p)
    <3> DEFINE j == i - Len(p)
    <3>1. j \in 1 .. Len(q) /\ r[i] = q[j] /\ (i < Len(r) <=> j < Len(q))
      BY <1>2, <1>3, <2>3
    <3>2. i < Len(r) => r[i + 1] = q[j + 1]
      <4>1. i < Len(r) => (i + 1 \in 1 .. Len(r) /\ i + 1 > Len(p) /\ (i + 1) - Len(p) = j + 1)
        BY <1>2, <2>3
      <4> QED
        BY <1>3, <4>1
    <3> HIDE DEF j
    <3> QED
      BY <3>1, <3>2 DEF Paired, OneAtATime
  <2> QED
    BY <1>2, <2>1, <2>2, <2>3
<1>6. r # <<>> => r[1] \in {"read", "write"}
  <2>1. CASE Len(p) > 0
    <3>1. r[1] = p[1]
      BY <1>2, <2>1
    <3> QED
      BY <1>4, <2>1, <3>1 DEF Paired
  <2>2. CASE Len(p) = 0
    <3>1. Len(r) > 0 => (Len(q) > 0 /\ r[1] = q[1])
      BY <1>2, <2>2
    <3> QED
      BY <1>4, <3>1 DEF Paired
  <2> QED
    BY <1>2, <2>1, <2>2
<1> QED
  BY <1>2, <1>5, <1>6 DEF Paired, OneAtATime, r

LEMMA PairedSteps ==
  /\ Paired(<<>>)
  /\ Paired(<<"read", "unlock">>)
  /\ Paired(<<"write", "unlock_write">>)
BY DEF Paired, OneAtATime, Instruction

LEMMA PairedLookups ==
  ASSUME NEW n \in Nat
  PROVE  Paired([i \in 1 .. 2 * n |-> IF i % 2 = 1 THEN "read" ELSE "unlock"])
<1> DEFINE p == [i \in 1 .. 2 * n |-> IF i % 2 = 1 THEN "read" ELSE "unlock"]
<1>1. p \in Seq(Instruction) /\ Len(p) = 2 * n
  BY DEF Instruction
<1>2. \A i \in 1 .. 2 * n : p[i] = IF i % 2 = 1 THEN "read" ELSE "unlock"
  OBVIOUS
<1> HIDE DEF p
<1>3. \A i \in 1 .. 2 * n : /\ i % 2 = 1 => (i < 2 * n /\ (i + 1) % 2 = 0)
                            /\ i % 2 # 1 => (i + 1) % 2 = 1
  OBVIOUS
<1>4. p # <<>> => p[1] = "read"
  BY <1>1, <1>2
<1> QED
  BY <1>1, <1>2, <1>3, <1>4 DEF Paired, OneAtATime, p

LEMMA CallsPaired ==
  ASSUME NEW t \in {Manager, Miner}, NEW c \in Calls(t)
  PROVE  Paired(c)
<1>1. t \notin RpcTasks
  BY TaskAssumption
<1>2. Paired(get_header_by_block_number) /\ Paired(tip)
      /\ \A v \in validate_adjacent_block_header : Paired(v)
  BY PairedSteps DEF get_header_by_block_number, tip, validate_adjacent_block_header
<1>3. \A a \in try_add_block_header : Paired(a)
  <2> SUFFICES ASSUME NEW v \in validate_adjacent_block_header
               PROVE  Paired(v \o tip \o <<"write", "unlock_write">> \o tip)
    BY <1>2 DEF try_add_block_header
  <2>1. Paired(v \o tip)
    BY <1>2, PairedConcat
  <2>2. Paired((v \o tip) \o <<"write", "unlock_write">>)
    BY <2>1, PairedSteps, PairedConcat
  <2> QED
    BY <1>2, <2>2, PairedConcat
<1>4. \A a \in mine_block : Paired(a)
  BY <1>2, <1>3, PairedConcat DEF mine_block
<1>5. \A a \in handle_get_block_headers_request : Paired(a)
  BY PairedLookups, TaskAssumption DEF handle_get_block_headers_request
<1>6. CASE t = Manager
  <2>1. c \in try_add_block_header \union {tip} \union handle_get_block_headers_request
    BY <1>1, <1>6, TaskAssumption DEF Calls
  <2> QED
    BY <1>2, <1>3, <1>5, <2>1
<1>7. CASE t = Miner
  <2>1. c \in mine_block
    BY <1>1, <1>7, TaskAssumption DEF Calls
  <2> QED
    BY <1>4, <2>1
<1> QED
  BY <1>6, <1>7

(* What is left of a call that takes one guard at a time.                  *)
LEMMA RestOfCall ==
  ASSUME NEW p, OneAtATime(p), p # <<>>
  PROVE  /\ OneAtATime(Tail(p)) /\ Head(p) \in Instruction
         /\ Head(p) = "read" => (Tail(p) # <<>> /\ Head(Tail(p)) = "unlock")
         /\ Head(p) = "write" => (Tail(p) # <<>> /\ Head(Tail(p)) = "unlock_write")
         /\ (Head(p) \in {"unlock", "unlock_write"} /\ Tail(p) # <<>>) =>
              Head(Tail(p)) \in {"read", "write"}
<1> DEFINE q == Tail(p)
<1>1. /\ p \in Seq(Instruction) /\ q \in Seq(Instruction)
      /\ Len(p) \in Nat \ {0} /\ Len(q) = Len(p) - 1
      /\ \A i \in 1 .. Len(q) : q[i] = p[i + 1]
      /\ Head(p) = p[1] /\ Head(p) \in Instruction
  BY DEF OneAtATime
<1> HIDE DEF q
<1>2. /\ q # <<>> <=> Len(q) > 0
      /\ q # <<>> => Head(q) = p[2]
  <2>1. q # <<>> <=> Len(q) > 0
    BY <1>1
  <2>2. q # <<>> => (Head(q) = q[1] /\ 1 \in 1 .. Len(q))
    BY <1>1
  <2> QED
    BY <1>1, <2>1, <2>2
<1>3. \A i \in 1 .. Len(q) :
        /\ i + 1 \in 1 .. Len(p) /\ (i < Len(q) <=> i + 1 < Len(p))
        /\ i < Len(q) => q[i + 1] = p[(i + 1) + 1]
  BY <1>1
<1>4. OneAtATime(q)
  <2> SUFFICES ASSUME NEW i \in 1 .. Len(q)
               PROVE  /\ q[i] = "read" => (i < Len(q) /\ q[i + 1] = "unlock")
                      /\ q[i] = "write" => (i < Len(q) /\ q[i + 1] = "unlock_write")
                      /\ (q[i] \in {"unlock", "unlock_write"} /\ i < Len(q)) =>
                           q[i + 1] \in {"read", "write"}
    BY <1>1 DEF OneAtATime
  <2> DEFINE k == i + 1
  <2>1. /\ k \in 1 .. Len(p) /\ q[i] = p[k] /\ (i < Len(q) <=> k < Len(p))
        /\ i < Len(q) => q[i + 1] = p[k + 1]
    BY <1>1, <1>3
  <2>2. /\ p[k] = "read" => (k < Len(p) /\ p[k + 1] = "unlock")
        /\ p[k] = "write" => (k < Len(p) /\ p[k + 1] = "unlock_write")
        /\ (p[k] \in {"unlock", "unlock_write"} /\ k < Len(p)) => p[k + 1] \in {"read", "write"}
    BY <2>1 DEF OneAtATime
  <2> HIDE DEF k
  <2> QED
    BY <2>1, <2>2
<1>5. 1 \in 1 .. Len(p) /\ 1 + 1 = 2 /\ (1 < Len(p) <=> Len(q) > 0)
  BY <1>1
<1> QED
  BY <1>1, <1>2, <1>4, <1>5 DEF OneAtATime, q

----------------------------------------------------------------------------
(* The invariant: where each task is in its call says what it holds.       *)

PathTyped ==
  /\ path \in [Tasks -> Seq(Instruction)]
  /\ guards \in [Tasks -> 0 .. 2]
  /\ writer \in Tasks \union {NoTask}
  /\ queued \subseteq Tasks

(* The manager and the miner hold at most one guard, and release it next.  *)
PlainTask(t) ==
  /\ OneAtATime(path[t])
  /\ \/ /\ guards[t] = 0 /\ writer # t
        /\ path[t] # <<>> => Head(path[t]) \in {"read", "write"}
     \/ guards[t] = 1 /\ writer # t /\ AtLock(t, "unlock")
     \/ guards[t] = 0 /\ writer = t /\ AtLock(t, "unlock_write")

(* An RPC request never writes.  Only get_header_by_hash, on its way to    *)
(* the second guard, wants the lock with a guard in its hands.             *)
RpcTask(t) ==
  /\ writer # t
  /\ \/ guards[t] = 0 /\ path[t] \in {<<>>, <<"read", "unlock">>,
                                      <<"read", "read", "unlock", "unlock">>}
     \/ guards[t] = 1 /\ path[t] \in {<<"unlock">>, <<"read", "unlock", "unlock">>}
     \/ guards[t] = 2 /\ path[t] = <<"unlock", "unlock">>

(* A write guard excludes all read guards.                                 *)
WriterAlone == writer # NoTask => \A t \in Tasks : guards[t] = 0

(* Who waits to write is at its write.                                     *)
QueuedWrite == \A t \in queued : AtLock(t, "write")

Inv ==
  /\ PathTyped
  /\ \A t \in {Manager, Miner} : PlainTask(t)
  /\ \A t \in RpcTasks : RpcTask(t)
  /\ WriterAlone /\ QueuedWrite

(* The sequences an RPC request goes through.                              *)
LEMMA RpcPaths ==
  /\ <<"read", "unlock">> \in Seq(Instruction)
  /\ <<"read", "read", "unlock", "unlock">> \in Seq(Instruction)
  /\ <<"unlock">> # <<>>
  /\ <<"unlock", "unlock">> # <<>>
  /\ <<"read", "unlock", "unlock">> # <<>>
  /\ <<"read", "unlock">> # <<>>
  /\ <<"read", "read", "unlock", "unlock">> # <<>>
BY DEF Instruction

LEMMA RpcTails ==
  /\ Tail(<<"read", "unlock">>) = <<"unlock">>
  /\ Tail(<<"read", "read", "unlock", "unlock">>) = <<"read", "unlock", "unlock">>
  /\ Tail(<<"read", "unlock", "unlock">>) = <<"unlock", "unlock">>
  /\ Tail(<<"unlock", "unlock">>) = <<"unlock">>
  /\ Tail(<<"unlock">>) = <<>>
OBVIOUS

LEMMA LockInit == Init => Inv
<1> SUFFICES ASSUME Init
             PROVE  Inv
  OBVIOUS
<1>1. PathTyped
  BY DEF Init, PathTyped
<1>2. ASSUME NEW t \in {Manager, Miner}
      PROVE  PlainTask(t)
  <2>1. t \in Tasks /\ t # NoTask
    BY TaskAssumption DEF Tasks
  <2>2. path[t] = <<>> /\ guards[t] = 0 /\ writer # t
    BY <2>1 DEF Init
  <2>3. OneAtATime(path[t])
    BY <2>2, PairedSteps DEF Paired
  <2> QED
    BY <2>2, <2>3 DEF PlainTask
<1>3. ASSUME NEW t \in RpcTasks
      PROVE  RpcTask(t)
  BY TaskAssumption DEF Init, RpcTask, Tasks
<1>4. WriterAlone /\ QueuedWrite
  BY DEF Init, WriterAlone, QueuedWrite
<1> QED
  BY <1>1, <1>2, <1>3, <1>4 DEF Inv

(* A step of one task does not touch what is said of the others.           *)
LEMMA OtherTask ==
  ASSUME NEW t \in Tasks, NEW u \in Tasks \ {t},
         path'[u] = path[u], guards'[u] = guards[u], writer' = u <=> writer = u
  PROVE  /\ PlainTask(u) => PlainTask(u)'
         /\ RpcTask(u) => RpcTask(u)'
BY DEF PlainTask, RpcTask, AtLock

(* A call starts.                                                          *)
LEMMA CallStep ==
  ASSUME Inv, NEW t \in Tasks, Call(t)
  PROVE  Inv'
<1>1. PICK c \in Calls(t) : path' = [path EXCEPT ![t] = c]
  BY DEF Call
<1>2. path[t] = <<>> /\ UNCHANGED <<guards, writer, queued>>
  BY DEF Call
<1>3. path'[t] = c /\ \A u \in Tasks \ {t} : path'[u] = path[u]
  BY <1>1 DEF Inv, PathTyped
<1>4. CASE t \in {Manager, Miner}
  <2>1. Paired(c)
    BY <1>4, CallsPaired
  <2>2. c \in Seq(Instruction)
    BY <2>1 DEF Paired, OneAtATime
  <2>3. guards[t] = 0 /\ writer # t
    BY <1>2, <1>4 DEF Inv, PlainTask, AtLock
  <2>4. c # <<>> => Head(c) = c[1]
    BY <2>2
  <2>5. PlainTask(t)'
    BY <1>2, <1>3, <2>1, <2>3, <2>4 DEF PlainTask, Paired
  <2> QED
    BY <1>1, <1>2, <1>3, <1>4, <2>2, <2>5, TaskAssumption, OtherTask
       DEF Inv, PathTyped, WriterAlone, QueuedWrite, AtLock, Tasks
<1>5. CASE t \in RpcTasks
  <2>1. c \in {<<"read", "unlock">>, <<"read", "read", "unlock", "unlock">>}
    BY <1>5, TaskAssumption DEF Calls, get_header_by_hash, get_header_by_block_number
  <2>2. c \in Seq(Instruction)
    BY <2>1, RpcPaths
  <2>3. guards[t] = 0 /\ writer # t
    BY <1>2, <1>5, RpcPaths DEF Inv, RpcTask
  <2>4. RpcTask(t)'
    BY <1>2, <1>3, <2>1, <2>3 DEF RpcTask
  <2> QED
    BY <1>1, <1>2, <1>3, <1>5, <2>2, <2>4, TaskAssumption, OtherTask
       DEF Inv, PathTyped, WriterAlone, QueuedWrite, AtLock, Tasks
<1> QED
  BY <1>4, <1>5 DEF Tasks

(* A task takes a read guard.                                              *)
LEMMA AcquireReadStep ==
  ASSUME Inv, NEW t \in Tasks, AcquireRead(t)
  PROVE  Inv'
<1>1. /\ path[t] # <<>> /\ Head(path[t]) = "read"
      /\ writer = NoTask /\ queued = {}
      /\ guards' = [guards EXCEPT ![t] = @ + 1]
      /\ path' = [path EXCEPT ![t] = Tail(@)]
      /\ UNCHANGED <<writer, queued>>
  BY DEF AcquireRead, AtLock, CanRead, Advance
<1>2. /\ path'[t] = Tail(path[t]) /\ guards'[t] = guards[t] + 1
      /\ \A u \in Tasks \ {t} : path'[u] = path[u] /\ guards'[u] = guards[u]
  BY <1>1 DEF Inv, PathTyped
<1>3. t # NoTask
  BY TaskAssumption
<1>4. WriterAlone' /\ QueuedWrite'
  BY <1>1 DEF WriterAlone, QueuedWrite
<1>5. CASE t \in {Manager, Miner}
  <2>1. guards[t] = 0
    BY <1>1, <1>3, <1>5 DEF Inv, PlainTask, AtLock
  <2>2. PlainTask(t)'
    <3>1. OneAtATime(path[t])
      BY <1>5 DEF Inv, PlainTask
    <3>2. OneAtATime(path'[t]) /\ path'[t] # <<>> /\ Head(path'[t]) = "unlock"
      BY <1>1, <1>2, <3>1, RestOfCall
    <3>3. guards'[t] = 1 /\ writer' # t
      BY <1>1, <1>2, <1>3, <2>1
    <3> QED
      BY <3>2, <3>3 DEF PlainTask, AtLock
  <2>3. PathTyped'
    BY <1>1, <2>1 DEF Inv, PathTyped
  <2> QED
    BY <1>1, <1>2, <1>4, <1>5, <2>2, <2>3, TaskAssumption, OtherTask DEF Inv, Tasks
<1>6. CASE t \in RpcTasks
  <2>1. \/ guards[t] = 0 /\ path[t] = <<"read", "unlock">>
        \/ guards[t] = 0 /\ path[t] = <<"read", "read", "unlock", "unlock">>
        \/ guards[t] = 1 /\ path[t] = <<"read", "unlock", "unlock">>
    BY <1>1, <1>6 DEF Inv, RpcTask
  <2>2. RpcTask(t)'
    <3>1. writer' # t
      BY <1>1, <1>3
    <3>2. \/ guards'[t] = 1 /\ path'[t] = <<"unlock">>
          \/ guards'[t] = 1 /\ path'[t] = <<"read", "unlock", "unlock">>
          \/ guards'[t] = 2 /\ path'[t] = <<"unlock", "unlock">>
      <4>1. guards[t] = 0 => guards'[t] = 1
        BY <1>2
      <4>2. guards[t] = 1 => guards'[t] = 2
        BY <1>2
      <4> QED
        BY <1>2, <2>1, <4>1, <4>2, RpcTails, Zenon
    <3> QED
      BY <3>1, <3>2, Zenon DEF RpcTask
  <2>3. PathTyped'
    BY <1>1, <2>1 DEF Inv, PathTyped
  <2> QED
    BY <1>1, <1>2, <1>4, <1>6, <2>2, <2>3, TaskAssumption, OtherTask DEF Inv, Tasks
<1> QED
  BY <1>5, <1>6 DEF Tasks

(* A task takes the write guard.                                           *)
LEMMA AcquireWriteStep ==
  ASSUME Inv, NEW t \in Tasks, AcquireWrite(t)
  PROVE  Inv'
<1>1. /\ path[t] # <<>> /\ Head(path[t]) = "write"
      /\ writer = NoTask /\ (\A u \in Tasks : guards[u] = 0)
      /\ writer' = t /\ queued' = queued \ {t} /\ guards' = guards
      /\ path' = [path EXCEPT ![t] = Tail(@)]
  BY DEF AcquireWrite, AtLock, CanWrite, Advance
<1>2. /\ path'[t] = Tail(path[t])
      /\ \A u \in Tasks \ {t} : path'[u] = path[u] /\ guards'[u] = guards[u]
  BY <1>1 DEF Inv, PathTyped
<1>3. PathTyped' /\ WriterAlone' /\ QueuedWrite'
  BY <1>1, <1>2 DEF Inv, PathTyped, WriterAlone, QueuedWrite, AtLock
<1>4. t \in {Manager, Miner}
  <2>1. t \in RpcTasks => Head(path[t]) # "write"
    BY <1>1 DEF Inv, RpcTask
  <2> QED
    BY <1>1, <2>1 DEF Tasks
<1>5. PlainTask(t)'
  BY <1>1, <1>2, <1>4, RestOfCall DEF Inv, PlainTask, AtLock
<1>6. \A u \in Tasks \ {t} : writer' # u /\ writer # u
  BY <1>1, TaskAssumption
<1> QED
  BY <1>2, <1>3, <1>4, <1>5, <1>6, TaskAssumption, OtherTask DEF Inv, Tasks

(* A task waits to write.                                                  *)
LEMMA QueueWriteStep ==
  ASSUME Inv, NEW t \in Tasks, QueueWrite(t)
  PROVE  Inv'
BY DEF QueueWrite, Inv, PathTyped, PlainTask, RpcTask, WriterAlone, QueuedWrite, AtLock

(* A task releases what it holds.                                          *)
LEMMA ReleaseStep ==
  ASSUME Inv, NEW t \in Tasks, Release(t)
  PROVE  Inv'
<1>1. /\ path[t] # <<>> /\ Head(path[t]) \in {"unlock", "unlock_write"}
      /\ path' = [path EXCEPT ![t] = Tail(@)]
      /\ queued' = queued
  BY DEF Release, AtLock, Advance
<1>2. path'[t] = Tail(path[t]) /\ \A u \in Tasks \ {t} : path'[u] = path[u]
  BY <1>1 DEF Inv, PathTyped
<1>3. t # NoTask /\ t \notin queued
  BY <1>1, TaskAssumption DEF Inv, QueuedWrite, AtLock
<1>4. QueuedWrite'
  BY <1>1, <1>2, <1>3 DEF Inv, PathTyped, QueuedWrite, AtLock
<1>5. CASE AtLock(t, "unlock")
  <2>1. guards' = [guards EXCEPT ![t] = @ - 1] /\ writer' = writer
    BY <1>5 DEF Release, AtLock
  <2>2. guards'[t] = guards[t] - 1 /\ \A u \in Tasks \ {t} : guards'[u] = guards[u]
    BY <2>1 DEF Inv, PathTyped
  <2>3. CASE t \in {Manager, Miner}
    <3>1. guards[t] = 1 /\ writer # t
      BY <1>5, <2>3 DEF Inv, PlainTask, AtLock
    <3>2. PlainTask(t)'
      <4>1. OneAtATime(path[t])
        BY <2>3 DEF Inv, PlainTask
      <4>2. /\ OneAtATime(path'[t])
            /\ path'[t] # <<>> => Head(path'[t]) \in {"read", "write"}
        BY <1>1, <1>2, <4>1, RestOfCall
      <4>3. guards'[t] = 0 /\ writer' # t
        BY <2>1, <2>2, <3>1
      <4> QED
        BY <4>2, <4>3 DEF PlainTask
    <3>3. PathTyped' /\ WriterAlone'
      BY <1>1, <2>1, <2>2, <3>1 DEF Inv, PathTyped, WriterAlone
    <3> QED
      BY <1>2, <1>4, <2>1, <2>2, <2>3, <3>2, <3>3, TaskAssumption, OtherTask DEF Inv, Tasks
  <2>4. CASE t \in RpcTasks
    <3>1. \/ guards[t] = 1 /\ path[t] = <<"unlock">>
          \/ guards[t] = 2 /\ path[t] = <<"unlock", "unlock">>
      BY <1>5, <2>4 DEF Inv, RpcTask, AtLock
    <3>2. RpcTask(t)'
      <4>1. writer' # t
        BY <2>1, <2>4 DEF Inv, RpcTask
      <4>2. \/ guards'[t] = 0 /\ path'[t] = <<>>
            \/ guards'[t] = 1 /\ path'[t] = <<"unlock">>
        <5>1. guards[t] = 1 => guards'[t] = 0
          BY <2>2
        <5>2. guards[t] = 2 => guards'[t] = 1
          BY <2>2
        <5> QED
          BY <1>2, <3>1, <5>1, <5>2, RpcTails, Zenon
      <4> QED
        BY <4>1, <4>2, Zenon DEF RpcTask
    <3>3. PathTyped' /\ WriterAlone'
      BY <1>1, <2>1, <2>2, <3>1 DEF Inv, PathTyped, WriterAlone
    <3> QED
      BY <1>2, <1>4, <2>1, <2>2, <2>4, <3>2, <3>3, TaskAssumption, OtherTask DEF Inv, Tasks
  <2> QED
    BY <2>3, <2>4 DEF Tasks
<1>6. CASE AtLock(t, "unlock_write")
  <2>1. writer' = NoTask /\ guards' = guards
    BY <1>6 DEF Release, AtLock
  <2>2. t \in {Manager, Miner}
    <3>1. t \in RpcTasks => Head(path[t]) # "unlock_write"
      BY <1>1 DEF Inv, RpcTask
    <3> QED
      BY <1>6, <3>1 DEF Tasks, AtLock
  <2>3. guards[t] = 0 /\ writer = t
    BY <1>6, <2>2 DEF Inv, PlainTask, AtLock
  <2>4. PlainTask(t)'
    BY <1>1, <1>2, <1>3, <2>1, <2>2, <2>3, RestOfCall DEF Inv, PlainTask, AtLock
  <2>5. PathTyped' /\ WriterAlone'
    BY <1>1, <2>1 DEF Inv, PathTyped, WriterAlone
  <2>6. \A u \in Tasks \ {t} : writer' # u /\ writer # u
    BY <2>1, <2>3, TaskAssumption
  <2> QED
    BY <1>2, <1>4, <2>1, <2>2, <2>4, <2>5, <2>6, TaskAssumption, OtherTask DEF Inv, Tasks
<1> QED
  BY <1>5, <1>6 DEF Release

LEMMA LockNext == Inv /\ [Next]_vars => Inv'
<1> SUFFICES ASSUME Inv, [Next]_vars
             PROVE  Inv'
  OBVIOUS
<1>1. CASE UNCHANGED vars
  BY <1>1 DEF vars, Inv, PathTyped, PlainTask, RpcTask, WriterAlone, QueuedWrite, AtLock
<1>2. CASE Next
  BY <1>2, CallStep, AcquireReadStep, AcquireWriteStep, QueueWriteStep, ReleaseStep
     DEF Next, Acquire
<1> QED
  BY <1>1, <1>2

----------------------------------------------------------------------------
(* Theorems.                                                               *)

LEMMA LockInvariant == Spec => []Inv
BY LockInit, LockNext, PTL DEF Spec

(* Every call returns all guards it took before it ends or takes more than *)
(* two.                                                                    *)
THEOREM LockTypes == Spec => []TypeOK
<1>1. Inv => TypeOK
  BY DEF Inv, PathTyped, TypeOK, Instruction
<1> QED
  BY <1>1, LockInvariant, PTL

(* Whoever holds a guard without asking for another one can release it, so *)
(* all calls under way wait for each other only around a get_header_by_hash*)
(* between its two guards: a task with a guard is such a lookup, and with  *)
(* no guard in anybody's hands the writer that waits can go on.            *)
THEOREM OnlyLookupsByHashStick == Spec => []OnlyNestedStuck
<1>1. Inv => OnlyNestedStuck
  <2> SUFFICES ASSUME Inv, NEW r \in Tasks, path[r] # <<>>,
                      \A t \in Tasks : path[t] # <<>> => Blocked(t)
               PROVE  NestedWait
    BY DEF OnlyNestedStuck, DbAvailable
  <2>1. CASE \E t \in Tasks : guards[t] # 0
    <3>1. PICK t \in Tasks : guards[t] # 0
      BY <2>1
    <3>2. guards[t] > 0 /\ writer = NoTask
      BY <3>1 DEF Inv, PathTyped, WriterAlone
    <3>3. t \notin {Manager, Miner}
      BY <3>1 DEF Inv, PlainTask, Blocked, AtLock
    <3>4. t \in RpcTasks
      BY <3>3 DEF Tasks
    <3>5. path[t] \in {<<"unlock">>, <<"read", "unlock", "unlock">>, <<"unlock", "unlock">>}
      BY <3>1, <3>4 DEF Inv, RpcTask
    <3>6. path[t] # <<>>
      BY <3>5, RpcPaths
    <3>7. AtLock(t, "read") /\ ~CanRead
      BY <3>5, <3>6 DEF Blocked, AtLock
    <3> QED
      BY <3>2, <3>4, <3>7 DEF NestedWait, CanRead
  <2>2. CASE \A t \in Tasks : guards[t] = 0
    <3>1. writer = NoTask
      <4> SUFFICES ASSUME writer # NoTask
                   PROVE  FALSE
        OBVIOUS
      <4>1. writer \in {Manager, Miner}
        BY DEF Inv, PathTyped, RpcTask, Tasks
      <4>2. AtLock(writer, "unlock_write") /\ writer \in Tasks
        BY <2>2, <4>1 DEF Inv, PlainTask, Tasks
      <4> QED
        BY <4>2 DEF Blocked, AtLock
    <3>2. CanWrite
      BY <2>2, <3>1 DEF CanWrite
    <3>3. queued # {}
      BY <3>1, <3>2 DEF Blocked, CanRead
    <3>4. PICK q \in queued : TRUE
      BY <3>3
    <3>5. q \in Tasks /\ AtLock(q, "write")
      BY DEF Inv, PathTyped, QueuedWrite
    <3> QED
      BY <3>2, <3>5 DEF Blocked, AtLock
  <2> QED
    BY <2>1, <2>2
<1> QED
  BY <1>1, LockInvariant, PTL
=============================================================================
