---------------------------- MODULE DatabaseLock ----------------------------
(***************************************************************************)
(* The RwLock around the database of src/src/blocktree.rs, and the tasks   *)
(* that share it: the handlers of the RPC server, the chain network        *)
(* manager and the miner.                                                  *)
(*                                                                         *)
(* The lock is the one of Rust's standard library on Linux: a reader waits *)
(* while another thread writes or waits to write, even one that holds a    *)
(* read guard already.  Each waiting task blocks its thread; there are     *)
(* threads enough for all tasks.                                           *)
(*                                                                         *)
(* A call is the sequence of what it does to the lock, in the order of the *)
(* code.  Where the code returns early, which of its sequences it takes    *)
(* depends on the data and is chosen when it starts.  The lock is never    *)
(* poisoned: nothing between write() and the end of its block panics.      *)
(***************************************************************************)
EXTENDS Integers, Sequences, FiniteSets

CONSTANTS
  RpcTasks,   \* handlers of RPC requests in flight
  Manager,    \* the task of the ChainNetworkManager
  Miner,      \* the task of the FixedBlockTimeMiner
  NoTask,
  MaxServed   \* bound: headers served to one request of a peer

Tasks == RpcTasks \union {Manager, Miner}

ASSUME TaskAssumption ==
  /\ NoTask \notin Tasks
  /\ Manager # Miner
  /\ RpcTasks \cap {Manager, Miner} = {}
  /\ MaxServed \in Nat \ {0}

VARIABLES
  path,     \* what the call of each task has still to do; empty when idle
  guards,   \* the read guards each task holds
  writer,   \* the task that holds the write guard
  queued    \* the tasks that wait to write

vars == <<path, guards, writer, queued>>

----------------------------------------------------------------------------
(* The calls.                                                              *)

get_header_by_block_number == <<"read", "unlock">>

(* An unknown hash returns under one guard; a known one calls              *)
(* get_header_by_block_number before the first guard is dropped.           *)
get_header_by_hash_Leaked ==
  {<<"read", "unlock">>, <<"read">> \o get_header_by_block_number}

get_header_by_hash ==
  {<<"read", "unlock">>, <<"read">> \o get_header_by_block_number \o <<"unlock">>}

tip == <<"read", "unlock">>

(* Only the genesis block is not looked up.                                *)
validate_adjacent_block_header == {<<>>, get_header_by_block_number}

try_add_block_header_GuardKept ==
  {get_header_by_block_number} \union
  {v \o tip \o <<"write">> \o tip \o <<"unlock_write">> :
     v \in validate_adjacent_block_header}

(* A header that does not validate ends the call, otherwise the write      *)
(* guard is dropped before the new tip is read.                            *)
try_add_block_header ==
  {get_header_by_block_number} \union
  {v \o tip \o <<"write", "unlock_write">> \o tip :
     v \in validate_adjacent_block_header}

mine_block == {tip \o a : a \in try_add_block_header}

(* One lookup per header served, the last one may find nothing.            *)
handle_get_block_headers_request ==
  {[i \in 1 .. 2 * n |-> IF i % 2 = 1 THEN "read" ELSE "unlock"] :
     n \in 1 .. MaxServed}

Calls(t) ==
  CASE t \in RpcTasks -> get_header_by_hash \union {get_header_by_block_number}
    [] t = Manager -> try_add_block_header \union {tip} \union
                        handle_get_block_headers_request
    [] t = Miner -> mine_block

----------------------------------------------------------------------------
(* The lock.                                                               *)

AtLock(t, instruction) == path[t] # <<>> /\ Head(path[t]) = instruction

Advance(t) == path' = [path EXCEPT ![t] = Tail(@)]

CanRead == writer = NoTask /\ queued = {}

CanWrite == writer = NoTask /\ \A t \in Tasks : guards[t] = 0

Call(t) ==
  /\ path[t] = <<>>
  /\ \E c \in Calls(t) : path' = [path EXCEPT ![t] = c]
  /\ UNCHANGED <<guards, writer, queued>>

AcquireRead(t) ==
  /\ AtLock(t, "read")
  /\ CanRead
  /\ guards' = [guards EXCEPT ![t] = @ + 1]
  /\ Advance(t)
  /\ UNCHANGED <<writer, queued>>

AcquireWrite(t) ==
  /\ AtLock(t, "write")
  /\ CanWrite
  /\ writer' = t
  /\ queued' = queued \ {t}
  /\ Advance(t)
  /\ UNCHANGED guards

(* A writer that cannot have the lock stops new readers.                   *)
QueueWrite(t) ==
  /\ AtLock(t, "write")
  /\ t \notin queued
  /\ ~CanWrite
  /\ queued' = queued \union {t}
  /\ UNCHANGED <<path, guards, writer>>

Release(t) ==
  /\ \/ AtLock(t, "unlock") /\ guards' = [guards EXCEPT ![t] = @ - 1] /\ UNCHANGED writer
     \/ AtLock(t, "unlock_write") /\ writer' = NoTask /\ UNCHANGED guards
  /\ Advance(t)
  /\ UNCHANGED queued

Acquire(t) == AcquireRead(t) \/ AcquireWrite(t)

Init ==
  /\ path = [t \in Tasks |-> <<>>]
  /\ guards = [t \in Tasks |-> 0]
  /\ writer = NoTask
  /\ queued = {}

Next == \E t \in Tasks : Call(t) \/ Acquire(t) \/ QueueWrite(t) \/ Release(t)

(* A thread that holds the lock runs on, and a thread that waits for it is *)
(* not passed over for ever by others that come and go.                    *)
Fairness ==
  \A t \in Tasks : SF_vars(Acquire(t)) /\ WF_vars(QueueWrite(t)) /\ WF_vars(Release(t))

Spec == Init /\ [][Next]_vars /\ Fairness

----------------------------------------------------------------------------
(* Properties.                                                             *)

(* The variables hold values of the code's types; no call holds more than  *)
(* two guards.                                                             *)
TypeOK ==
  /\ DOMAIN path = Tasks
  /\ \A t \in Tasks : path[t] \in Seq({"read", "unlock", "write", "unlock_write"})
  /\ guards \in [Tasks -> 0 .. 2]
  /\ writer \in Tasks \union {NoTask}
  /\ queued \subseteq Tasks

Blocked(t) ==
  \/ AtLock(t, "read") /\ ~CanRead
  \/ AtLock(t, "write") /\ ~CanWrite

(* A lookup by hash waits for its second guard behind a writer that waits  *)
(* for its first.                                                          *)
NestedWait ==
  \E t \in RpcTasks : guards[t] > 0 /\ AtLock(t, "read") /\ queued # {}

(* expect("db available"): the guard of each call comes, now or after      *)
(* those of others.  The calls under way do not all wait for each other.   *)
DbAvailable ==
  LET running == {t \in Tasks : path[t] # <<>>}
  IN running # {} => \E t \in running : ~Blocked(t)

(* The nested guard of get_header_by_hash is the only way in which all     *)
(* calls under way can wait for each other.                                *)
OnlyNestedStuck == DbAvailable \/ NestedWait

(* As long as no nested guard meets a writer, every call into the database *)
(* returns.                                                                *)
CallsReturn ==
  []~NestedWait => \A t \in Tasks : path[t] # <<>> ~> path[t] = <<>>
=============================================================================
