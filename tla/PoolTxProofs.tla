---------------------------- MODULE PoolTxProofs ----------------------------
(***************************************************************************)
(* What holds of PoolTx for every set of nodes and transactions, every     *)
(* topology, every batch the API may be called with, any number of calls   *)
(* and any number of faults.                                               *)
(***************************************************************************)
EXTENDS PoolTx, FiniteSetTheorems, TLAPS

Batch == Seq(Txs)

(* TypeOK, with the domains of the functions.                              *)
Typed ==
  /\ pool \in [Nodes -> SUBSET Txs]
  /\ commands \in [Nodes -> Seq(Batch)]
  /\ events \in [Nodes -> Seq(Batch)]
  /\ seen \in [Nodes -> SUBSET Batch]
  /\ offered \in [Nodes -> SUBSET Batch]
  /\ published \in [Nodes -> SUBSET Batch]
  /\ received \in [Nodes -> SUBSET Batch]
  /\ unsent \in [Nodes -> SUBSET Batch]
  /\ submits \in 0 .. MaxSubmits
  /\ faults \in 0 .. MaxFaults

WireTyped ==
  \A msg \in wire :
    <<msg.from, msg.to>> \in Links /\ msg.source \in Nodes /\ msg.data \in Batch

(* gossipsub knows what it has told the manager.                           *)
EventsSeen == \A n \in Nodes : ToSet(events[n]) \subseteq seen[n]

(* What is to be broadcast was offered by the API, or is an echo of what   *)
(* gossipsub knows and will refuse.                                        *)
CommandsKnown == \A n \in Nodes : ToSet(commands[n]) \subseteq offered[n] \union seen[n]

(* gossipsub knows only what it accepted or delivered.                     *)
SeenExplained == \A n \in Nodes : seen[n] \subseteq published[n] \union received[n]

Inv ==
  /\ Typed /\ WireTyped
  /\ EventsSeen /\ CommandsKnown /\ SeenExplained
  /\ EchoStops /\ PooledIsAnnounced

----------------------------------------------------------------------------
(* Sequences.                                                              *)

LEMMA AppendElements ==
  ASSUME NEW S, NEW s \in Seq(S), NEW e \in S
  PROVE  ToSet(Append(s, e)) = ToSet(s) \union {e}
<1> DEFINE t == Append(s, e)
<1>1. /\ Len(t) = Len(s) + 1 /\ t[Len(s) + 1] = e
      /\ \A i \in 1 .. Len(s) : t[i] = s[i]
  OBVIOUS
<1>2. DOMAIN t = 1 .. Len(s) + 1 /\ DOMAIN s = 1 .. Len(s) /\ Len(s) \in Nat
  BY <1>1
<1>3. \A i \in DOMAIN t : i \in DOMAIN s \/ i = Len(s) + 1
  BY <1>2
<1> HIDE DEF t
<1>4. \A x : x \in ToSet(t) <=> x \in ToSet(s) \union {e}
  BY <1>1, <1>2, <1>3 DEF ToSet
<1> QED
  BY <1>4, Zenon DEF t

LEMMA HeadAndTail ==
  ASSUME NEW S, NEW s \in Seq(S), s # <<>>
  PROVE  /\ Head(s) \in S /\ Tail(s) \in Seq(S)
         /\ ToSet(s) = ToSet(Tail(s)) \union {Head(s)}
<1> DEFINE t == Tail(s)
<1>1. /\ Len(s) \in Nat \ {0} /\ t \in Seq(S) /\ Len(t) = Len(s) - 1
      /\ \A i \in 1 .. Len(t) : t[i] = s[i + 1]
      /\ Head(s) = s[1]
  OBVIOUS
<1>2. DOMAIN t = 1 .. Len(t) /\ DOMAIN s = 1 .. Len(s) /\ 1 \in DOMAIN s
  BY <1>1
<1> HIDE DEF t
<1>3. /\ \A i \in DOMAIN s : i = 1 \/ (i - 1 \in DOMAIN t /\ t[i - 1] = s[(i - 1) + 1])
      /\ \A i \in DOMAIN s : (i - 1) + 1 = i
      /\ \A i \in DOMAIN t : i + 1 \in DOMAIN s /\ t[i] = s[i + 1]
  BY <1>1, <1>2
<1>4. \A x : x \in ToSet(s) <=> x \in ToSet(t) \union {Head(s)}
  BY <1>1, <1>2, <1>3 DEF ToSet
<1>5. ToSet(s) = ToSet(t) \union {Head(s)}
  BY <1>4, Zenon
<1> QED
  BY <1>1, <1>2, <1>5 DEF t

LEMMA EmptyElements == ToSet(<<>>) = {}
BY DEF ToSet

(* The filter of add_transactions_and_broadcast returns transactions, and  *)
(* exactly those that the pool did not know.                               *)
LEMMA AddedElements ==
  ASSUME NEW known, NEW txs \in Batch, NEW new \in Added(known, txs)
  PROVE  new \in Batch /\ \A tx : tx \in ToSet(new) <=> tx \in ToSet(txs) /\ tx \notin known
<1> DEFINE kept == {i \in DOMAIN txs : txs[i] \notin known}
           k == Cardinality(kept)
<1>1. DOMAIN txs = 1 .. Len(txs) /\ Len(txs) \in Nat
  BY DEF Batch
<1>2. k \in Nat
  <2>1. IsFiniteSet(DOMAIN txs)
    BY <1>1, FS_Interval
  <2>2. IsFiniteSet(kept)
    BY <2>1, FS_Subset
  <2> QED
    BY <2>2, FS_CardinalityType
<1>3. PICK f \in Bijection(1 .. k, kept) : new = [i \in DOMAIN f |-> txs[f[i]]]
  BY Zenon DEF Added
<1> HIDE DEF k
<1>4. f \in [1 .. k -> kept] /\ \A t \in kept : \E i \in 1 .. k : f[i] = t
  BY <1>3 DEF Bijection, Injection, Surjection
<1>5. new = [i \in 1 .. k |-> txs[f[i]]]
  BY <1>3, <1>4
<1>6. \A i \in 1 .. k : f[i] \in DOMAIN txs /\ txs[f[i]] \in Txs
  BY <1>1, <1>4 DEF Batch
<1>7. new \in Batch
  BY <1>2, <1>5, <1>6 DEF Batch
<1>8. ASSUME NEW tx
      PROVE  tx \in ToSet(new) <=> tx \in ToSet(txs) /\ tx \notin known
  BY <1>4, <1>5, <1>6 DEF ToSet
<1> QED
  BY <1>7, <1>8

----------------------------------------------------------------------------
(* The steps.  One lemma per operation.                                    *)

LEMMA PoolInit == Init => Inv
<1> SUFFICES ASSUME Init
             PROVE  Inv
  OBVIOUS
<1>1. Typed
  BY PoolAssumption DEF Init, Typed, Batch
<1>2. WireTyped /\ EventsSeen /\ CommandsKnown /\ SeenExplained
  BY EmptyElements DEF Init, WireTyped, EventsSeen, CommandsKnown, SeenExplained
<1>3. EchoStops /\ PooledIsAnnounced
  BY DEF Init, EchoStops, PooledIsAnnounced
<1> QED
  BY <1>1, <1>2, <1>3 DEF Inv

(* A call of the pool's API.                                               *)
LEMMA SubmitStep ==
  ASSUME Inv, NEW n \in Nodes, Submit(n)
  PROVE  Inv'
<1>1. PICK txs \in Batches : add_transactions_and_broadcast(n, txs)
  BY DEF Submit
<1>2. txs \in Batch
  BY <1>1, PoolAssumption DEF Batch
<1>3. PICK new \in Added(pool[n], txs) :
        /\ commands' = [commands EXCEPT ![n] = Append(@, new)]
        /\ offered' = [offered EXCEPT ![n] = @ \union {new}]
  BY <1>1 DEF add_transactions_and_broadcast, broadcast_transactions
<1>4. pool' = [pool EXCEPT ![n] = @ \union ToSet(txs)]
  BY <1>1 DEF add_transactions_and_broadcast, add_transactions
<1>5. /\ submits < MaxSubmits /\ submits' = submits + 1
      /\ UNCHANGED <<events, seen, wire, published, received, unsent, faults>>
  BY DEF Submit
<1>6. new \in Batch /\ \A tx : tx \in ToSet(new) <=> tx \in ToSet(txs) /\ tx \notin pool[n]
  BY <1>2, <1>3, AddedElements
<1>7. ToSet(txs) \subseteq Txs
  BY <1>2 DEF Batch, ToSet
<1>8. Typed'
  BY <1>3, <1>4, <1>5, <1>6, <1>7, PoolAssumption DEF Inv, Typed
<1>9. \A m \in Nodes : ToSet(commands'[m]) = IF m = n THEN ToSet(commands[m]) \union {new}
                                                      ELSE ToSet(commands[m])
  <2>1. commands[n] \in Seq(Batch)
    BY DEF Inv, Typed
  <2>2. ToSet(Append(commands[n], new)) = ToSet(commands[n]) \union {new}
    BY <1>6, <2>1, AppendElements
  <2> QED
    BY <1>3, <2>2 DEF Inv, Typed
<1>10. WireTyped' /\ EventsSeen' /\ SeenExplained'
  BY <1>5 DEF Inv, WireTyped, EventsSeen, SeenExplained
<1>11. CommandsKnown'
  BY <1>3, <1>5, <1>9 DEF Inv, Typed, CommandsKnown
<1>12. EchoStops'
  BY <1>3, <1>5 DEF Inv, Typed, EchoStops
<1>13. PooledIsAnnounced'
  <2> SUFFICES ASSUME NEW m \in Nodes, NEW tx \in pool'[m]
               PROVE  \E data \in published'[m] \union received'[m] \union unsent'[m]
                                   \union ToSet(commands'[m]) : tx \in ToSet(data)
    BY DEF PooledIsAnnounced
  <2>1. CASE tx \in pool[m]
    BY <1>5, <1>9, <2>1 DEF Inv, PooledIsAnnounced
  <2>2. CASE tx \notin pool[m]
    <3>1. m = n /\ tx \in ToSet(txs)
      BY <1>4, <2>2 DEF Inv, Typed
    <3> QED
      BY <1>6, <1>9, <2>2, <3>1
  <2> QED
    BY <2>1, <2>2
<1> QED
  BY <1>8, <1>10, <1>11, <1>12, <1>13 DEF Inv

(* The manager takes a batch from the network task.                        *)
LEMMA IncomingStep ==
  ASSUME Inv, NEW n \in Nodes, IncomingTransactions(n)
  PROVE  Inv'
<1> DEFINE txs == Head(events[n])
<1>1. /\ events[n] # <<>>
      /\ pool' = [pool EXCEPT ![n] = @ \union ToSet(txs)]
      /\ commands' = [commands EXCEPT ![n] = Append(@, txs)]
      /\ events' = [events EXCEPT ![n] = Tail(@)]
      /\ UNCHANGED <<seen, wire, offered, published, received, unsent, submits, faults>>
  BY DEF IncomingTransactions, add_transactions, broadcast_transactions, history
<1>2. /\ txs \in Batch /\ Tail(events[n]) \in Seq(Batch)
      /\ ToSet(events[n]) = ToSet(Tail(events[n])) \union {txs}
  BY <1>1, HeadAndTail DEF Inv, Typed
<1> HIDE DEF txs
<1>3. ToSet(txs) \subseteq Txs
  BY <1>2 DEF Batch, ToSet
<1>4. Typed'
  BY <1>1, <1>2, <1>3 DEF Inv, Typed
<1>5. \A m \in Nodes : ToSet(commands'[m]) = IF m = n THEN ToSet(commands[m]) \union {txs}
                                                      ELSE ToSet(commands[m])
  <2>1. commands[n] \in Seq(Batch)
    BY DEF Inv, Typed
  <2>2. ToSet(Append(commands[n], txs)) = ToSet(commands[n]) \union {txs}
    BY <1>2, <2>1, AppendElements
  <2> QED
    BY <1>1, <2>2 DEF Inv, Typed
<1>6. \A m \in Nodes : ToSet(events'[m]) \subseteq ToSet(events[m])
  BY <1>1, <1>2 DEF Inv, Typed
<1>7. WireTyped' /\ EventsSeen' /\ SeenExplained' /\ EchoStops'
  BY <1>1, <1>6 DEF Inv, WireTyped, EventsSeen, SeenExplained, EchoStops
<1>8. CommandsKnown'
  <2>1. offered' = offered /\ seen' = seen
    BY <1>1
  <2>2. txs \in seen[n]
    BY <1>2 DEF Inv, EventsSeen
  <2> QED
    BY <1>5, <2>1, <2>2 DEF Inv, CommandsKnown
<1>9. PooledIsAnnounced'
  <2> SUFFICES ASSUME NEW m \in Nodes, NEW tx \in pool'[m]
               PROVE  \E data \in published'[m] \union received'[m] \union unsent'[m]
                                   \union ToSet(commands'[m]) : tx \in ToSet(data)
    BY DEF PooledIsAnnounced
  <2>1. CASE tx \in pool[m]
    <3>1. published' = published /\ received' = received /\ unsent' = unsent
      BY <1>1
    <3>2. ToSet(commands[m]) \subseteq ToSet(commands'[m])
      BY <1>5
    <3> QED
      BY <2>1, <3>1, <3>2 DEF Inv, PooledIsAnnounced
  <2>2. CASE tx \notin pool[m]
    <3>1. m = n /\ tx \in ToSet(txs)
      BY <1>1, <2>2 DEF Inv, Typed
    <3> QED
      BY <1>5, <3>1
  <2> QED
    BY <2>1, <2>2
<1> QED
  BY <1>4, <1>7, <1>8, <1>9 DEF Inv

(* The network task hands a batch to gossipsub.                            *)
LEMMA BroadcastStep ==
  ASSUME Inv, NEW n \in Nodes, BroadcastTransactions(n)
  PROVE  Inv'
<1> DEFINE data == Head(commands[n])
<1>1. /\ commands[n] # <<>>
      /\ Publish(n, data) \/ PublishDuplicate(n, data) \/ InsufficientPeers(n, data)
      /\ commands' = [commands EXCEPT ![n] = Tail(@)]
      /\ UNCHANGED <<pool, events, offered, received, submits>>
  BY DEF BroadcastTransactions
<1>2. /\ data \in Batch /\ Tail(commands[n]) \in Seq(Batch)
      /\ ToSet(commands[n]) = ToSet(Tail(commands[n])) \union {data}
  BY <1>1, HeadAndTail DEF Inv, Typed
<1> HIDE DEF data
<1>3. /\ ToSet(commands[n]) = ToSet(commands'[n]) \union {data}
      /\ \A m \in Nodes \ {n} : commands'[m] = commands[m]
      /\ commands' \in [Nodes -> Seq(Batch)]
  BY <1>1, <1>2 DEF Inv, Typed
(* Every outcome leaves the batch in published, received or unsent, and    *)
(* lets gossipsub know at most a batch the API has offered.                *)
<1>4. /\ seen' \in [Nodes -> SUBSET Batch] /\ published' \in [Nodes -> SUBSET Batch]
      /\ unsent' \in [Nodes -> SUBSET Batch] /\ faults' \in 0 .. MaxFaults
      /\ \A m \in Nodes : /\ seen[m] \subseteq seen'[m]
                           /\ published[m] \subseteq published'[m]
                           /\ unsent[m] \subseteq unsent'[m]
                           /\ seen'[m] \subseteq seen[m] \union published'[m]
                           /\ published'[m] \subseteq published[m] \union offered[m]
      /\ data \in published'[n] \union received[n] \union unsent'[n]
  <2>1. data \in offered[n] \union seen[n] /\ seen[n] \subseteq published[n] \union received[n]
    BY <1>3 DEF Inv, CommandsKnown, SeenExplained
  <2>2. CASE Publish(n, data)
    BY <1>2, <2>1, <2>2 DEF Publish, message_id_fn, Inv, Typed
  <2>3. CASE PublishDuplicate(n, data)
    BY <1>2, <2>1, <2>3 DEF PublishDuplicate, message_id_fn, Inv, Typed
  <2>4. CASE InsufficientPeers(n, data)
    BY <1>2, <2>1, <2>4, PoolAssumption DEF InsufficientPeers, message_id_fn, Inv, Typed
  <2> QED
    BY <1>1, <2>2, <2>3, <2>4
<1>5. Typed'
  BY <1>1, <1>3, <1>4 DEF Inv, Typed
<1>6. WireTyped'
  <2>1. \A m \in Peers(n) : <<n, m>> \in Links
    BY DEF Peers
  <2>2. \A msg \in Copies(n, n, data, {}) :
          <<msg.from, msg.to>> \in Links /\ msg.source \in Nodes /\ msg.data \in Batch
    BY <1>2, <2>1 DEF Copies
  <2>3. wire' \subseteq wire \union Copies(n, n, data, {})
    BY <1>1 DEF Publish, PublishDuplicate, InsufficientPeers
  <2> QED
    BY <2>2, <2>3 DEF Inv, WireTyped
<1>7. EventsSeen' /\ CommandsKnown'
  BY <1>1, <1>3, <1>4 DEF Inv, EventsSeen, CommandsKnown
<1>8. SeenExplained' /\ EchoStops'
  BY <1>1, <1>4 DEF Inv, SeenExplained, EchoStops
<1>9. PooledIsAnnounced'
  <2> SUFFICES ASSUME NEW m \in Nodes, NEW tx \in pool[m]
               PROVE  \E d \in published'[m] \union received[m] \union unsent'[m]
                                \union ToSet(commands'[m]) : tx \in ToSet(d)
    BY <1>1 DEF PooledIsAnnounced
  <2>1. PICK d \in published[m] \union received[m] \union unsent[m]
                     \union ToSet(commands[m]) : tx \in ToSet(d)
    BY DEF Inv, PooledIsAnnounced
  <2>2. d \in published'[m] \union received[m] \union unsent'[m] \union ToSet(commands'[m])
    BY <1>3, <1>4, <2>1
  <2> QED
    BY <2>1, <2>2
<1> QED
  BY <1>5, <1>6, <1>7, <1>8, <1>9 DEF Inv

(* gossipsub delivers a message, or drops it.                              *)
LEMMA ReceiveStep ==
  ASSUME Inv, NEW n \in Nodes, Receive(n)
  PROVE  Inv'
<1>1. PICK msg \in wire : Deliver(n, msg) \/ DropMessage(n, msg)
  BY DEF Receive
<1>2. UNCHANGED <<pool, commands, offered, published, unsent, submits, faults>>
  BY DEF Receive
<1>3. msg.data \in Batch /\ msg.source \in Nodes
  BY DEF Inv, WireTyped
<1>4. CASE Deliver(n, msg)
  <2>1. /\ seen' = [seen EXCEPT ![n] = @ \union {msg.data}]
        /\ wire' = (wire \ {msg}) \union
                      Copies(n, msg.source, msg.data, {msg.from, msg.source})
        /\ received' = [received EXCEPT ![n] = @ \union {msg.data}]
        /\ events' = [events EXCEPT ![n] = Append(@, msg.data)]
    BY <1>4 DEF Deliver, message_id_fn, handle_gossipsub_message
  <2>2. Typed'
    BY <1>2, <1>3, <2>1 DEF Inv, Typed
  <2>3. WireTyped'
    <3>1. \A m \in Peers(n) : <<n, m>> \in Links
      BY DEF Peers
    <3>2. \A c \in Copies(n, msg.source, msg.data, {msg.from, msg.source}) :
            <<c.from, c.to>> \in Links /\ c.source \in Nodes /\ c.data \in Batch
      BY <1>3, <3>1 DEF Copies
    <3> QED
      BY <2>1, <3>2 DEF Inv, WireTyped
  <2>4. EventsSeen'
    <3>1. events[n] \in Seq(Batch)
      BY DEF Inv, Typed
    <3>2. ToSet(Append(events[n], msg.data)) = ToSet(events[n]) \union {msg.data}
      BY <1>3, <3>1, AppendElements
    <3> QED
      BY <2>1, <3>2 DEF Inv, Typed, EventsSeen
  <2>5. CommandsKnown' /\ SeenExplained' /\ EchoStops'
    BY <1>2, <2>1 DEF Inv, Typed, CommandsKnown, SeenExplained, EchoStops
  <2>6. PooledIsAnnounced'
    <3>1. \A m \in Nodes : received[m] \subseteq received'[m]
      BY <2>1 DEF Inv, Typed
    <3> QED
      BY <1>2, <3>1 DEF Inv, PooledIsAnnounced
  <2> QED
    BY <2>2, <2>3, <2>4, <2>5, <2>6 DEF Inv
<1>5. CASE DropMessage(n, msg)
  BY <1>2, <1>5 DEF DropMessage, Inv, Typed, WireTyped, EventsSeen, CommandsKnown,
                    SeenExplained, EchoStops, PooledIsAnnounced
<1> QED
  BY <1>1, <1>4, <1>5

(* A message is lost.                                                      *)
LEMMA LoseStep ==
  ASSUME Inv, Lose
  PROVE  Inv'
<1>1. wire' \subseteq wire /\ faults' \in 0 .. MaxFaults
  BY PoolAssumption DEF Lose, Fault, Inv, Typed
<1>2. UNCHANGED <<pool, commands, events, seen, offered, published, received, unsent, submits>>
  BY DEF Lose, node, history
<1> QED
  BY <1>1, <1>2 DEF Inv, Typed, WireTyped, EventsSeen, CommandsKnown, SeenExplained,
                    EchoStops, PooledIsAnnounced

(* The cache of gossipsub forgets an id that nobody refers to any more.    *)
LEMMA ExpireStep ==
  ASSUME Inv, NEW n \in Nodes, Expire(n)
  PROVE  Inv'
<1>1. /\ commands[n] = <<>> /\ events[n] = <<>> /\ faults' \in 0 .. MaxFaults
      /\ UNCHANGED <<pool, commands, events, wire, offered, published, received, unsent, submits>>
  BY PoolAssumption DEF Expire, Fault, Inv, Typed, history
<1>2. PICK id \in seen[n] : seen' = [seen EXCEPT ![n] = @ \ {id}]
  BY DEF Expire
<1>3. Typed' /\ WireTyped' /\ SeenExplained' /\ EchoStops' /\ PooledIsAnnounced'
  BY <1>1, <1>2 DEF Inv, Typed, WireTyped, SeenExplained, EchoStops, PooledIsAnnounced
<1>4. EventsSeen' /\ CommandsKnown'
  BY <1>1, <1>2, EmptyElements DEF Inv, Typed, EventsSeen, CommandsKnown
<1> QED
  BY <1>3, <1>4 DEF Inv

(* A node starts again with nothing.                                       *)
LEMMA RestartStep ==
  ASSUME Inv, NEW n \in Nodes, Restart(n)
  PROVE  Inv'
<1>1. faults' \in 0 .. MaxFaults /\ submits' = submits /\ wire' \subseteq wire
  BY PoolAssumption DEF Restart, Fault, Inv, Typed
<1>2. /\ pool' = [pool EXCEPT ![n] = {}] /\ commands' = [commands EXCEPT ![n] = <<>>]
      /\ events' = [events EXCEPT ![n] = <<>>] /\ seen' = [seen EXCEPT ![n] = {}]
      /\ offered' = [offered EXCEPT ![n] = {}] /\ published' = [published EXCEPT ![n] = {}]
      /\ received' = [received EXCEPT ![n] = {}] /\ unsent' = [unsent EXCEPT ![n] = {}]
  BY DEF Restart
<1>3. Typed' /\ WireTyped'
  BY <1>1, <1>2 DEF Inv, Typed, WireTyped
<1>4. EventsSeen' /\ CommandsKnown' /\ SeenExplained' /\ EchoStops'
  BY <1>2, EmptyElements
     DEF Inv, Typed, EventsSeen, CommandsKnown, SeenExplained, EchoStops
<1>5. PooledIsAnnounced'
  BY <1>2 DEF Inv, Typed, PooledIsAnnounced
<1> QED
  BY <1>3, <1>4, <1>5 DEF Inv

LEMMA PoolNext == Inv /\ [Next]_vars => Inv'
<1> SUFFICES ASSUME Inv, [Next]_vars
             PROVE  Inv'
  OBVIOUS
<1>1. CASE UNCHANGED vars
  BY <1>1 DEF vars, node, history, Inv, Typed, WireTyped, EventsSeen, CommandsKnown,
              SeenExplained, EchoStops, PooledIsAnnounced
<1>2. CASE Next
  BY <1>2, SubmitStep, IncomingStep, BroadcastStep, ReceiveStep, ExpireStep, RestartStep,
     LoseStep DEF Next
<1> QED
  BY <1>1, <1>2

----------------------------------------------------------------------------
(* Theorems.                                                               *)

LEMMA PoolInvariant == Spec => []Inv
BY PoolInit, PoolNext, PTL DEF Spec

(* What goes from the API and the network through the channels of a node   *)
(* into its pool and back is always a batch of transactions.               *)
THEOREM PoolTypes == Spec => []TypeOK
<1>1. Inv => TypeOK
  BY DEF Inv, Typed, WireTyped, Batch, TypeOK
<1> QED
  BY <1>1, PoolInvariant, PTL

(* The manager broadcasts again every batch it is told of, and gossipsub   *)
(* refuses every one of them: it tells the manager only of ids it has      *)
(* seen, whatever is lost, forgotten or restarted.                         *)
THEOREM NoEcho == Spec => []EchoStops
<1>1. Inv => EchoStops
  BY DEF Inv
<1> QED
  BY <1>1, PoolInvariant, PTL

(* A batch that add_transactions_and_broadcast has stored is never         *)
(* forgotten silently: gossipsub took it, or reported that it had no peer. *)
THEOREM StoredIsAnnounced == Spec => []PooledIsAnnounced
<1>1. Inv => PooledIsAnnounced
  BY DEF Inv
<1> QED
  BY <1>1, PoolInvariant, PTL
=============================================================================
