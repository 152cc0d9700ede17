------------------------------- MODULE PoolTx -------------------------------
(***************************************************************************)
(* The transaction pools of a network of nodes: src/src/pool.rs, the       *)
(* transactions of src/src/net/chain.rs and of src/src/net/network.rs, and *)
(* the gossip between the nodes.                                           *)
(*                                                                         *)
(* On each node three parties pass batches of transactions on: the caller  *)
(* of the pool's API and the chain network manager send commands to the    *)
(* network task, which publishes them with gossipsub; the network task     *)
(* sends what gossipsub delivers to the manager.                           *)
(*                                                                         *)
(* gossipsub is external.  It keeps the ids of the messages it has seen,   *)
(* refuses to publish one of them and delivers a message once.             *)
(***************************************************************************)
EXTENDS Integers, Sequences, SequencesExt, FiniteSets

CONSTANTS
  Nodes,
  Links,        \* pairs of connected nodes, both ways
  Txs,
  Batches,      \* the batches of transactions the API is called with
  MaxSubmits,   \* bound: calls of the API
  MaxFaults     \* bound: failures of the network, expiries and restarts

ASSUME PoolAssumption ==
  /\ \A l \in Links : l \in Nodes \X Nodes /\ <<l[2], l[1]>> \in Links
  /\ \A n \in Nodes : \E l \in Links : l[1] = n
  /\ Batches \subseteq Seq(Txs)
  /\ MaxSubmits \in Nat
  /\ MaxFaults \in Nat

VARIABLES
  pool,       \* per node: the transactions of the pool
  commands,   \* per node: BroadcastTransactions queued at the network task
  events,     \* per node: IncomingTransactions queued at the manager
  seen,       \* per node: the message ids in the cache of gossipsub
  wire,       \* messages between the nodes
              \* the next four: what happened since the node was started
  offered,    \* per node: the batches the pool's API asked to broadcast
  published,  \* per node: the batches gossipsub accepted from this node
  received,   \* per node: the batches gossipsub delivered to this node
  unsent,     \* per node: the batches that found no peer to go to
  submits,    \* calls of the API so far
  faults      \* faults so far

node == <<pool, commands, events, seen>>
history == <<offered, published, received, unsent>>
vars == <<node, wire, history, submits, faults>>

Peers(n) == {m \in Nodes : <<n, m>> \in Links}

----------------------------------------------------------------------------
(* The pool.                                                               *)

add_transactions_OneKey(n, txs) == pool' = [pool EXCEPT ![n] = @ \union {txs}]

add_transactions(n, txs) == pool' = [pool EXCEPT ![n] = @ \union ToSet(txs)]

broadcast_transactions(n, txs) == commands' = [commands EXCEPT ![n] = Append(@, txs)]

(* What filter keeps of a batch: the transactions that add_transactions    *)
(* found no entry for, in their order.  A set of one sequence.             *)
Added(known, txs) ==
  LET kept == {i \in DOMAIN txs : txs[i] \notin known}
      inOrder == {f \in Bijection(1 .. Cardinality(kept), kept) :
                    \A i, j \in DOMAIN f : i < j => f[i] < f[j]}
  IN  {[i \in DOMAIN f |-> txs[f[i]]] : f \in inOrder}

add_transactions_and_broadcast_Late(n, txs) ==
  /\ add_transactions(n, txs)
  /\ \E new \in Added(pool'[n], txs) :
       /\ broadcast_transactions(n, new)
       /\ offered' = [offered EXCEPT ![n] = @ \union {new}]

(* Stores the transactions and broadcasts those that were new to the pool, *)
(* be it none.                                                             *)
add_transactions_and_broadcast(n, txs) ==
  /\ add_transactions(n, txs)
  /\ \E new \in Added(pool[n], txs) :
       /\ broadcast_transactions(n, new)
       /\ offered' = [offered EXCEPT ![n] = @ \union {new}]

Submit(n) ==
  /\ submits < MaxSubmits
  /\ \E txs \in Batches : add_transactions_and_broadcast(n, txs)
  /\ submits' = submits + 1
  /\ UNCHANGED <<events, seen, wire, published, received, unsent, faults>>

----------------------------------------------------------------------------
(* The chain network manager stores what it is told and broadcasts it all. *)

IncomingTransactions(n) ==
  /\ events[n] # <<>>
  /\ add_transactions(n, Head(events[n]))
  /\ broadcast_transactions(n, Head(events[n]))
  /\ events' = [events EXCEPT ![n] = Tail(@)]
  /\ UNCHANGED <<seen, wire, history, submits, faults>>

----------------------------------------------------------------------------
(* The network task and gossipsub.                                         *)

message_id_fn_WithSource(source, data) == <<source, data>>

(* The id of a message is a hash of its data, whoever published it.        *)
message_id_fn(source, data) == data

(* What a node sends to its neighbours, but to none that surely has it.    *)
Copies(n, source, data, except) ==
  {[from |-> n, to |-> m, source |-> source, data |-> data] : m \in Peers(n) \ except}

Publish(n, data) ==
  /\ message_id_fn(n, data) \notin seen[n]
  /\ seen' = [seen EXCEPT ![n] = @ \union {message_id_fn(n, data)}]
  /\ published' = [published EXCEPT ![n] = @ \union {data}]
  /\ wire' = wire \union Copies(n, n, data, {})
  /\ UNCHANGED <<unsent, faults>>

(* PublishError::Duplicate                                                 *)
PublishDuplicate(n, data) ==
  /\ message_id_fn(n, data) \in seen[n]
  /\ UNCHANGED <<seen, wire, published, unsent, faults>>

(* PublishError::InsufficientPeers: no neighbour has subscribed yet, or    *)
(* none is connected.  The message is not remembered.                      *)
InsufficientPeers(n, data) ==
  /\ message_id_fn(n, data) \notin seen[n]
  /\ faults < MaxFaults
  /\ faults' = faults + 1
  /\ unsent' = [unsent EXCEPT ![n] = @ \union {data}]
  /\ UNCHANGED <<seen, wire, published>>

BroadcastTransactions(n) ==
  /\ commands[n] # <<>>
  /\ LET data == Head(commands[n])
     IN  Publish(n, data) \/ PublishDuplicate(n, data) \/ InsufficientPeers(n, data)
  /\ commands' = [commands EXCEPT ![n] = Tail(@)]
  /\ UNCHANGED <<pool, events, offered, received, submits>>

handle_gossipsub_message(n, data) == events' = [events EXCEPT ![n] = Append(@, data)]

(* A message that is new to the node is delivered and passed on.           *)
Deliver(n, msg) ==
  LET id == message_id_fn(msg.source, msg.data)
  IN  /\ id \notin seen[n]
      /\ seen' = [seen EXCEPT ![n] = @ \union {id}]
      /\ wire' = (wire \ {msg}) \union
                   Copies(n, msg.source, msg.data, {msg.from, msg.source})
      /\ received' = [received EXCEPT ![n] = @ \union {msg.data}]
      /\ handle_gossipsub_message(n, msg.data)

(* One it has seen, or that names it as its source, is dropped.  A node    *)
(* that was restarted without a seed has another name and may take it.     *)
DropMessage(n, msg) ==
  /\ message_id_fn(msg.source, msg.data) \in seen[n] \/ msg.source = n
  /\ wire' = wire \ {msg}
  /\ UNCHANGED <<seen, received, events>>

Receive(n) ==
  /\ \E msg \in wire : msg.to = n /\ (Deliver(n, msg) \/ DropMessage(n, msg))
  /\ UNCHANGED <<pool, commands, offered, published, unsent, submits, faults>>

----------------------------------------------------------------------------
(* Faults.                                                                 *)

Fault == faults < MaxFaults /\ faults' = faults + 1

(* A connection closes with a message under way.                           *)
Lose ==
  /\ Fault
  /\ \E msg \in wire : wire' = wire \ {msg}
  /\ UNCHANGED <<node, history, submits>>

(* The cache forgets an id after a minute, long after the manager and the  *)
(* network task have taken what they were sent.                            *)
Expire(n) ==
  /\ Fault
  /\ commands[n] = <<>> /\ events[n] = <<>>
  /\ \E id \in seen[n] : seen' = [seen EXCEPT ![n] = @ \ {id}]
  /\ UNCHANGED <<pool, commands, events, wire, history, submits>>

(* The pool, the channels and the cache live in memory.                    *)
Restart(n) ==
  /\ Fault
  /\ pool' = [pool EXCEPT ![n] = {}]
  /\ commands' = [commands EXCEPT ![n] = <<>>]
  /\ events' = [events EXCEPT ![n] = <<>>]
  /\ seen' = [seen EXCEPT ![n] = {}]
  /\ wire' = {msg \in wire : msg.to # n}
  /\ offered' = [offered EXCEPT ![n] = {}]
  /\ published' = [published EXCEPT ![n] = {}]
  /\ received' = [received EXCEPT ![n] = {}]
  /\ unsent' = [unsent EXCEPT ![n] = {}]
  /\ UNCHANGED submits

----------------------------------------------------------------------------
Init ==
  /\ pool = [n \in Nodes |-> {}]
  /\ commands = [n \in Nodes |-> <<>>]
  /\ events = [n \in Nodes |-> <<>>]
  /\ seen = [n \in Nodes |-> {}]
  /\ wire = {}
  /\ offered = [n \in Nodes |-> {}]
  /\ published = [n \in Nodes |-> {}]
  /\ received = [n \in Nodes |-> {}]
  /\ unsent = [n \in Nodes |-> {}]
  /\ submits = 0
  /\ faults = 0

Next ==
  \/ \E n \in Nodes :
       \/ Submit(n)
       \/ IncomingTransactions(n)
       \/ BroadcastTransactions(n)
       \/ Receive(n)
       \/ Expire(n)
       \/ Restart(n)
  \/ Lose

(* The tasks are polled while they have input, and a message that is not   *)
(* lost arrives.                                                           *)
Fairness ==
  \A n \in Nodes :
    /\ WF_vars(IncomingTransactions(n))
    /\ WF_vars(BroadcastTransactions(n))
    /\ WF_vars(Receive(n))

Spec == Init /\ [][Next]_vars /\ Fairness

----------------------------------------------------------------------------
(* Properties.                                                             *)

(* The variables hold values of the code's types.                          *)
TypeOK ==
  /\ pool \in [Nodes -> SUBSET Txs]
  /\ \A n \in Nodes :
       /\ commands[n] \in Seq(Seq(Txs))
       /\ events[n] \in Seq(Seq(Txs))
       /\ \A data \in seen[n] \union offered[n] \union published[n] \union received[n]
                        \union unsent[n] : data \in Seq(Txs)
  /\ \A msg \in wire :
       /\ <<msg.from, msg.to>> \in Links
       /\ msg.source \in Nodes
       /\ msg.data \in Seq(Txs)
  /\ submits \in 0 .. MaxSubmits
  /\ faults \in 0 .. MaxFaults

(* Every node broadcasts again what it received, but the network carries   *)
(* only what a caller of the API has offered at the node it comes from:    *)
(* no transaction is echoed.                                               *)
EchoStops == \A n \in Nodes : published[n] \subseteq offered[n]

(* A transaction in a pool has been published or received by the node, is  *)
(* about to be, or belongs to a batch that found no peer, which no later   *)
(* call of the API will send again.                                        *)
PooledIsAnnounced ==
  \A n \in Nodes : \A tx \in pool[n] :
    \E data \in published[n] \union received[n] \union unsent[n] \union ToSet(commands[n]) :
      tx \in ToSet(data)

(* Without faults, a transaction in one pool reaches all pools.            *)
Spread ==
  [](faults = 0) =>
    \A n, m \in Nodes : \A tx \in Txs : tx \in pool[n] ~> tx \in pool[m]
=============================================================================
