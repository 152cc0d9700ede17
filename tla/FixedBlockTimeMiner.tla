------------------------ MODULE FixedBlockTimeMiner ------------------------
(***************************************************************************)
(* The miner task of src/src/blocktree.rs: FixedBlockTimeMiner::execute,   *)
(* its interval, its pending broadcast, and the network task that takes    *)
(* the broadcasts.                                                         *)
(*                                                                         *)
(* The miner is a future without an end.  It runs only when it was woken,  *)
(* and is woken only by what holds its waker: the interval, whose last     *)
(* poll was not ready, or the receiver of a broadcast it has polled.  One  *)
(* poll goes through the phases                                            *)
(*     tick -> mine -> again -> broadcast -> parked                        *)
(* and skips the two in the middle when no tick is due.  Ticks fall due    *)
(* and the network task answers between any two of them.                   *)
(*                                                                         *)
(* A command in the channel is known by what its answer will find: the     *)
(* receiver is kept by the miner or was dropped.                           *)
(***************************************************************************)
EXTENDS Integers, Sequences

CONSTANTS
  SeveralMiners,  \* do other nodes mine too, which the program does not support
  MaxDue,         \* bound: ticks that can be overdue
  MaxCommands     \* bound: broadcasts that can be queued

ASSUME MinersAssumption == SeveralMiners \in BOOLEAN
ASSUME BoundAssumption == MaxDue \in Nat \ {0} /\ MaxCommands \in Nat \ {0}

VARIABLES
  due,                \* ticks of the interval that are due and not yet taken
  timer_waker,        \* does the interval hold the waker of the miner
  woken,              \* is the miner scheduled to run
  phase,              \* where the poll of the miner is
  pending_broadcast,  \* "none", "sent", "polled", "answered" or "closed"
  commands,           \* the broadcasts queued at the network task
  network,            \* "running" or "panicked"
  skipped             \* did the last look at the interval take a tick unused

vars == <<due, timer_waker, woken, phase, pending_broadcast, commands, network, skipped>>

----------------------------------------------------------------------------
(* Time.  The interval bursts: ticks that are overdue are all due at once. *)

Tick ==
  /\ due < MaxDue
  /\ due' = due + 1
  /\ woken' = (woken \/ timer_waker)
  /\ timer_waker' = FALSE
  /\ UNCHANGED <<phase, pending_broadcast, commands, network, skipped>>

----------------------------------------------------------------------------
(* The miner.                                                              *)

poll_tick_Unguarded == due' = due - 1 /\ UNCHANGED timer_waker

(* interval.poll_tick: takes a tick, or leaves the waker with the timer.   *)
poll_tick ==
  \/ due > 0 /\ due' = due - 1 /\ UNCHANGED timer_waker
  \/ due = 0 /\ timer_waker' = TRUE /\ UNCHANGED due

(* The runtime polls a task that was woken.                                *)
StartPoll ==
  /\ phase = "parked"
  /\ woken
  /\ phase' = "tick"
  /\ woken' = FALSE
  /\ UNCHANGED <<due, timer_waker, pending_broadcast, commands, network, skipped>>

PollTick ==
  /\ phase = "tick"
  /\ poll_tick
  /\ phase' = IF due > 0 THEN "mine" ELSE "broadcast"
  /\ skipped' = FALSE
  /\ UNCHANGED <<woken, pending_broadcast, commands, network>>

Dropped == [i \in DOMAIN commands |-> "dropped"]

(* The task ends and drops the receiver it holds.                          *)
Panic ==
  /\ phase' = "panicked"
  /\ pending_broadcast' = "none"
  /\ commands' = Dropped

Mined_Queued ==
  /\ network = "running"
  /\ Len(commands) < MaxCommands
  /\ phase' = "again"
  /\ pending_broadcast' = IF pending_broadcast = "none" THEN "sent" ELSE pending_broadcast
  /\ commands' = Append(commands, "kept")

(* The header is sent to the network task, which must be there, and its    *)
(* broadcast takes the place of one that may still be pending.             *)
Mined ==
  \/ /\ network = "running"
     /\ Len(commands) < MaxCommands
     /\ phase' = "again"
     /\ pending_broadcast' = "sent"
     /\ commands' = Append(Dropped, "kept")
  \/ network = "panicked" /\ Panic

(* Another miner's block got there first.                                  *)
BlockFallingBehind ==
  /\ SeveralMiners
  /\ phase' = "again"
  /\ UNCHANGED <<pending_broadcast, commands>>

(* mine_block, with the panic it ends in when the database fails.          *)
Mine ==
  /\ phase = "mine"
  /\ Mined \/ BlockFallingBehind \/ Panic
  /\ UNCHANGED <<due, timer_waker, woken, network, skipped>>

PollAgain_Forgotten ==
  /\ phase = "again"
  /\ phase' = "broadcast"
  /\ UNCHANGED <<due, timer_waker, woken, pending_broadcast, commands, network, skipped>>

(* The result of the second look at the interval is thrown away.           *)
PollAgain ==
  /\ phase = "again"
  /\ poll_tick
  /\ phase' = "broadcast"
  /\ skipped' = (due > 0)
  /\ UNCHANGED <<woken, pending_broadcast, commands, network>>

(* The pending broadcast is taken and polled: put back, done, or a panic   *)
(* when the network task is gone without an answer.                        *)
PollBroadcast ==
  /\ phase = "broadcast"
  /\ \/ /\ pending_broadcast \in {"sent", "polled"}
        /\ pending_broadcast' = "polled"
        /\ phase' = "parked"
        /\ UNCHANGED commands
     \/ /\ pending_broadcast \in {"none", "answered"}
        /\ pending_broadcast' = "none"
        /\ phase' = "parked"
        /\ UNCHANGED commands
     \/ pending_broadcast = "closed" /\ Panic
  /\ UNCHANGED <<due, timer_waker, woken, network, skipped>>

Poll == StartPoll \/ PollTick \/ Mine \/ PollAgain \/ PollBroadcast

----------------------------------------------------------------------------
(* The network task.                                                       *)

(* The answer to a broadcast, or the end of its channel, reaches a miner   *)
(* that has polled it.                                                     *)
Resolve(state) ==
  /\ pending_broadcast' = state
  /\ woken' = (woken \/ pending_broadcast = "polled")

Answer ==
  /\ Head(commands) = "kept"
  /\ Resolve("answered")
  /\ commands' = Tail(commands)
  /\ UNCHANGED network

(* expect("Reciever not to be dropped"): the task ends, the queue with it. *)
ReceiverDropped ==
  /\ Head(commands) = "dropped"
  /\ network' = "panicked"
  /\ commands' = <<>>
  /\ IF pending_broadcast \in {"sent", "polled"}
     THEN Resolve("closed")
     ELSE UNCHANGED <<pending_broadcast, woken>>

(* Whether the header could be published changes the answer only.          *)
HandleBroadcast ==
  /\ network = "running"
  /\ commands # <<>>
  /\ Answer \/ ReceiverDropped
  /\ UNCHANGED <<due, timer_waker, phase, skipped>>

(* The first tick of an interval is due at once.                           *)
Init ==
  /\ due = 1
  /\ timer_waker = FALSE
  /\ woken = TRUE
  /\ phase = "parked"
  /\ pending_broadcast = "none"
  /\ commands = <<>>
  /\ network = "running"
  /\ skipped = FALSE

Next == Tick \/ Poll \/ HandleBroadcast

(* Time passes, the runtime polls what was woken, and the network task     *)
(* takes the commands sent to it.                                          *)
Fairness == WF_vars(Tick) /\ WF_vars(Poll) /\ WF_vars(HandleBroadcast)

Spec == Init /\ [][Next]_vars /\ Fairness

----------------------------------------------------------------------------
(* Properties.                                                             *)

(* The variables hold values of the code's types.                          *)
TypeOK ==
  /\ due \in 0 .. MaxDue
  /\ timer_waker \in BOOLEAN
  /\ woken \in BOOLEAN
  /\ phase \in {"parked", "tick", "mine", "again", "broadcast", "panicked"}
  /\ pending_broadcast \in {"none", "sent", "polled", "answered", "closed"}
  /\ commands \in Seq({"kept", "dropped"})
  /\ Len(commands) <= MaxCommands
  /\ network \in {"running", "panicked"}
  /\ skipped \in BOOLEAN

(* The miner waits for an answer exactly while the broadcast it waits for  *)
(* is the last one in the queue: no answer is lost, none goes to another   *)
(* broadcast than the one it is for, and every earlier receiver is gone.   *)
WaitsForLast ==
  /\ \A i \in DOMAIN commands : commands[i] = "kept" => i = Len(commands)
  /\ pending_broadcast \in {"sent", "polled"} <=>
       commands # <<>> /\ commands[Len(commands)] = "kept"

(* A parked miner that nobody will wake for the next tick took that tick   *)
(* in its second look at the interval.                                     *)
ParkedHasWaker ==
  phase = "parked" => woken \/ timer_waker \/ skipped

(* No tick will wake the miner again, and no answer is to come.            *)
Stalled ==
  /\ phase = "parked" /\ ~woken /\ ~timer_waker
  /\ skipped
  /\ pending_broadcast = "none"

(* The miner mines again and again, unless a second look at the interval   *)
(* takes a tick and no pending broadcast makes up for it, or it panics.    *)
KeepsMining == []<>(phase = "mine") \/ <>(Stalled \/ phase = "panicked")

(* "This will poll the mining task every fixed interval": whatever the     *)
(* timing, a miner that does not panic goes on mining.                     *)
MinesEveryInterval == []<>(phase = "mine") \/ <>(phase = "panicked")
=============================================================================
