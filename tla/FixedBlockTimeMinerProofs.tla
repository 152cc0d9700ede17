---------------------- MODULE FixedBlockTimeMinerProofs ----------------------
(***************************************************************************)
(* What holds of FixedBlockTimeMiner for every bound on the overdue ticks  *)
(* and on the queued broadcasts, with or without other miners.             *)
(***************************************************************************)
EXTENDS FixedBlockTimeMiner, TLAPS

(* ParkedHasWaker is not inductive: the poll must already have left the    *)
(* waker somewhere when it turns to the pending broadcast, its last step.  *)
WakerKept ==
  phase \in {"broadcast", "parked"} => woken \/ timer_waker \/ skipped

(* The three flags are Booleans.                                           *)
FlagsOK == timer_waker \in BOOLEAN /\ woken \in BOOLEAN /\ skipped \in BOOLEAN

(* The rest of TypeOK.                                                     *)
ValuesOK ==
  /\ due \in 0 .. MaxDue
  /\ phase \in {"parked", "tick", "mine", "again", "broadcast", "panicked"}
  /\ pending_broadcast \in {"none", "sent", "polled", "answered", "closed"}
  /\ commands \in Seq({"kept", "dropped"})
  /\ Len(commands) <= MaxCommands
  /\ network \in {"running", "panicked"}

Inv == TypeOK /\ WaitsForLast /\ WakerKept

LEMMA TypeParts == TypeOK <=> ValuesOK /\ FlagsOK
BY DEF TypeOK, ValuesOK, FlagsOK

----------------------------------------------------------------------------
(* The queue of broadcasts.                                                *)

(* Dropping the receivers leaves the length of the queue as it is.         *)
LEMMA DroppedQueue ==
  ASSUME TypeOK
  PROVE  /\ Dropped \in Seq({"kept", "dropped"})
         /\ Len(Dropped) = Len(commands)
         /\ \A i \in 1 .. Len(commands) : Dropped[i] = "dropped"
BY DEF TypeOK, Dropped

(* A new broadcast goes behind receivers that are all gone.                *)
LEMMA ReplacedQueue ==
  ASSUME TypeOK
  PROVE  LET q == Append(Dropped, "kept")
         IN  /\ q \in Seq({"kept", "dropped"})
             /\ Len(q) = Len(commands) + 1
             /\ q # <<>>
             /\ q[Len(q)] = "kept"
             /\ \A i \in DOMAIN q : q[i] = "kept" => i = Len(q)
<1> DEFINE q == Append(Dropped, "kept")
<1>1. /\ q \in Seq({"kept", "dropped"})
      /\ Len(q) = Len(Dropped) + 1
      /\ q[Len(q)] = "kept"
      /\ \A i \in 1 .. Len(Dropped) : q[i] = Dropped[i]
  BY DroppedQueue
<1>2. \A i \in DOMAIN q : q[i] = "kept" => i = Len(q)
  BY <1>1, DroppedQueue DEF TypeOK
<1> QED
  BY <1>1, <1>2, DroppedQueue

(* Nobody may wait for an answer when the queue is empty.                  *)
LEMMA NoCommands ==
  ASSUME commands = <<>>, pending_broadcast \notin {"sent", "polled"}
  PROVE  WaitsForLast
<1>1. DOMAIN commands = {}
  OBVIOUS
<1> QED
  BY <1>1 DEF WaitsForLast

(* A task that panics keeps the invariant: nobody waits for an answer.     *)
LEMMA PanicKeepsQueue ==
  ASSUME TypeOK, Panic, network' = network
  PROVE  /\ commands' \in Seq({"kept", "dropped"}) /\ Len(commands') <= MaxCommands
         /\ pending_broadcast' = "none" /\ phase' = "panicked"
         /\ WaitsForLast'
<1>1. /\ commands' \in Seq({"kept", "dropped"})
      /\ Len(commands') = Len(commands)
      /\ \A i \in 1 .. Len(commands') : commands'[i] = "dropped"
      /\ pending_broadcast' = "none" /\ phase' = "panicked"
  BY DroppedQueue DEF Panic
<1>2. WaitsForLast'
  BY <1>1 DEF WaitsForLast
<1> QED
  BY <1>1, <1>2 DEF TypeOK

----------------------------------------------------------------------------
(* The steps.                                                              *)

LEMMA MinerInit == Init => Inv
<1> SUFFICES ASSUME Init
             PROVE  Inv
  OBVIOUS
<1>1. ValuesOK
  BY BoundAssumption DEF Init, ValuesOK
<1>2. FlagsOK
  BY Zenon DEF Init, FlagsOK
<1>3. WaitsForLast
  BY NoCommands DEF Init
<1>4. WakerKept
  BY Zenon DEF Init, WakerKept
<1> QED
  BY <1>1, <1>2, <1>3, <1>4, TypeParts DEF Inv

(* A step of the miner's poll.                                             *)
LEMMA PollStep ==
  ASSUME Inv, Poll
  PROVE  Inv'
<1> USE DEF Inv
<1>1. CASE StartPoll
  BY <1>1 DEF StartPoll, TypeOK, WaitsForLast, WakerKept
<1>2. CASE PollTick
  <2>1. ValuesOK'
    BY <1>2, TypeParts, BoundAssumption DEF PollTick, poll_tick, ValuesOK
  <2>2. FlagsOK'
    BY <1>2, TypeParts, Zenon DEF PollTick, poll_tick, FlagsOK
  <2>3. WaitsForLast'
    BY <1>2 DEF PollTick, WaitsForLast
  <2>4. WakerKept'
    BY <1>2 DEF PollTick, poll_tick, WakerKept, TypeOK
  <2> QED
    BY <2>1, <2>2, <2>3, <2>4 DEF TypeOK, ValuesOK, FlagsOK
<1>3. CASE Mine
  <2>1. CASE Panic
    <3>1. /\ UNCHANGED <<due, timer_waker, woken, network, skipped>>
      BY <1>3 DEF Mine
    <3> QED
      BY <2>1, <3>1, PanicKeepsQueue DEF TypeOK, WakerKept
  <2>2. CASE BlockFallingBehind
    BY <1>3, <2>2 DEF Mine, BlockFallingBehind, TypeOK, WaitsForLast, WakerKept
  <2>3. CASE Mined /\ ~Panic
    <3>1. /\ Len(commands) < MaxCommands
          /\ phase' = "again" /\ pending_broadcast' = "sent"
          /\ commands' = Append(Dropped, "kept")
          /\ UNCHANGED <<due, timer_waker, woken, network, skipped>>
      BY <1>3, <2>3 DEF Mine, Mined
    <3>2. TypeOK'
      BY <3>1, ReplacedQueue, BoundAssumption DEF TypeOK
    <3>3. WaitsForLast'
      BY <3>1, ReplacedQueue DEF WaitsForLast
    <3> QED
      BY <3>1, <3>2, <3>3 DEF WakerKept
  <2> QED
    BY <1>3, <2>1, <2>2, <2>3 DEF Mine
<1>4. CASE PollAgain
  <2>1. ValuesOK'
    BY <1>4, TypeParts, BoundAssumption DEF PollAgain, poll_tick, ValuesOK
  <2>2. FlagsOK'
    <3>1. timer_waker' \in BOOLEAN /\ woken' \in BOOLEAN
      BY <1>4, TypeParts, Zenon DEF PollAgain, poll_tick, FlagsOK
    <3>2. skipped' = TRUE \/ skipped' = FALSE
      BY <1>4 DEF PollAgain
    <3> QED
      BY <3>1, <3>2, Zenon DEF FlagsOK
  <2>3. WaitsForLast'
    BY <1>4 DEF PollAgain, WaitsForLast
  <2>4. WakerKept'
    BY <1>4 DEF PollAgain, poll_tick, WakerKept, TypeOK
  <2> QED
    BY <2>1, <2>2, <2>3, <2>4 DEF TypeOK, ValuesOK, FlagsOK
<1>5. CASE PollBroadcast
  <2>1. UNCHANGED <<due, timer_waker, woken, network, skipped>> /\ phase = "broadcast"
    BY <1>5 DEF PollBroadcast
  <2>2. CASE Panic
    BY <2>1, <2>2, PanicKeepsQueue DEF TypeOK, WakerKept
  <2>3. CASE ~Panic
    BY <1>5, <2>1, <2>3 DEF PollBroadcast, TypeOK, WaitsForLast, WakerKept
  <2> QED
    BY <2>2, <2>3
<1> QED
  BY <1>1, <1>2, <1>3, <1>4, <1>5 DEF Poll

(* A step of the network task.                                             *)
LEMMA HandleBroadcastStep ==
  ASSUME Inv, HandleBroadcast
  PROVE  Inv'
<1>1. /\ commands # <<>> /\ TypeOK /\ WaitsForLast /\ WakerKept
      /\ UNCHANGED <<due, timer_waker, phase, skipped>>
  BY DEF Inv, HandleBroadcast
<1>2. /\ Len(commands) \in Nat \ {0}
      /\ 1 \in DOMAIN commands /\ Head(commands) = commands[1]
      /\ Tail(commands) \in Seq({"kept", "dropped"})
      /\ Len(Tail(commands)) = Len(commands) - 1
  BY <1>1 DEF TypeOK
<1>3. CASE Answer
  <2>1. Len(commands) = 1
    BY <1>1, <1>2, <1>3 DEF Answer, WaitsForLast
  <2>2. commands' = <<>>
    BY <1>2, <1>3, <2>1 DEF Answer
  <2>3. pending_broadcast' = "answered" /\ woken' \in BOOLEAN /\ (woken => woken')
        /\ network' = network
    BY <1>1, <1>3 DEF Answer, Resolve, TypeOK
  <2> QED
    BY <1>1, <2>2, <2>3, BoundAssumption DEF Inv, TypeOK, WaitsForLast, WakerKept
<1>4. CASE ReceiverDropped
  <2>1. /\ commands' = <<>> /\ network' = "panicked"
        /\ woken' \in BOOLEAN /\ (woken => woken')
        /\ pending_broadcast' \in {"none", "answered", "closed"}
    BY <1>1, <1>4 DEF ReceiverDropped, Resolve, TypeOK
  <2> QED
    BY <1>1, <2>1, BoundAssumption DEF Inv, TypeOK, WaitsForLast, WakerKept
<1> QED
  BY <1>3, <1>4 DEF HandleBroadcast

LEMMA MinerNext == Inv /\ [Next]_vars => Inv'
<1> SUFFICES ASSUME Inv, [Next]_vars
             PROVE  Inv'
  OBVIOUS
<1>1. CASE Tick
  <2>1. ValuesOK'
    BY <1>1, TypeParts, BoundAssumption DEF Inv, Tick, ValuesOK
  <2>2. FlagsOK'
    BY <1>1, TypeParts, Zenon DEF Inv, Tick, FlagsOK
  <2>3. WaitsForLast'
    BY <1>1 DEF Inv, Tick, WaitsForLast
  <2>4. WakerKept'
    BY <1>1, Zenon DEF Inv, Tick, WakerKept
  <2> QED
    BY <2>1, <2>2, <2>3, <2>4 DEF Inv, TypeOK, ValuesOK, FlagsOK
<1>2. CASE Poll
  BY <1>2, PollStep
<1>3. CASE HandleBroadcast
  BY <1>3, HandleBroadcastStep
<1>4. CASE UNCHANGED vars
  BY <1>4 DEF vars, Inv, TypeOK, WaitsForLast, WakerKept
<1> QED
  BY <1>1, <1>2, <1>3, <1>4 DEF Next

----------------------------------------------------------------------------
(* Theorems.                                                               *)

LEMMA MinerInvariant == Spec => []Inv
BY MinerInit, MinerNext, PTL DEF Spec

(* The interval, the pending broadcast and the queue keep their types and  *)
(* the bounds on them.                                                     *)
THEOREM MinerTypes == Spec => []TypeOK
<1>1. Inv => TypeOK
  BY DEF Inv
<1> QED
  BY <1>1, MinerInvariant, PTL

(* Replacing a pending broadcast, answering it, dropping its receiver and  *)
(* panicking never leave the miner waiting for a broadcast other than the  *)
(* last one queued.                                                        *)
THEOREM AnswersReachTheMiner == Spec => []WaitsForLast
<1>1. Inv => WaitsForLast
  BY DEF Inv
<1> QED
  BY <1>1, MinerInvariant, PTL

(* Only the tick that the second poll_tick throws away can park the miner  *)
(* without anybody who will wake it for the next one.                      *)
THEOREM ParkedMinerIsWoken == Spec => []ParkedHasWaker
<1>1. Inv => ParkedHasWaker
  BY DEF Inv, WakerKept, ParkedHasWaker
<1> QED
  BY <1>1, MinerInvariant, PTL
=============================================================================
