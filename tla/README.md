# A TLA+ development for simb

`simb` is a small blockchain node: a header store on top of a key-value
database, a miner, a chain manager that follows the headers other nodes
announce, and a libp2p network task. This directory models its core, checks the
models with TLC and proves all but one of their safety properties with TLAPS.

## 1. Inventory

| Part | State | Operations | What must hold |
|---|---|---|---|
| `Chain` (`blocktree.rs`) | tables `HEADER` (number → header) and `HASH` (hash → number), behind one `RwLock` | `Chain::new`, `try_add_block_header`, `mine_block`, `tip`, the two lookups | no gap, nothing replaced, the two tables agree, a mined block is accepted |
| `FixedBlockTimeMiner` (`blocktree.rs`) | an interval, at most one pending broadcast | `execute`, `poll` | goes on mining, announces what it mined |
| `SyncHeader` (`tasks/sync_header.rs`) | what was asked for, the requests in flight, the headers received | one `poll` | every header once, in order, and an end |
| `ChainNetworkManager` (`net/chain.rs`) | `pending_sync_request`, the closest-peers request, downloads, broadcasts, `broadcasted_headers` | `on_event`, `send_sync_requests`, `poll` | catches up with the network, does not echo headers for ever |
| `NetworkManager`, `NetworkProvider` (`net/network.rs`, `net/provider.rs`) | the command channel, one `pending_*` map per kind of request, requests of other nodes | `handle_command`, the swarm events, `handle_response_block_headers` | every call ends, the task survives |
| `PoolTx` (`pool.rs`) | a map of transactions | add, add and broadcast, pop | what is stored gets broadcast, and is not sent round for ever |
| the `RwLock` of `Chain` (`blocktree.rs`) | guards and waiters | `read`, `write`, in the order of each call | every call returns |
| `RpcServer` (`rpc.rs`) | none | formats lookups | answers what the store holds, does not block the node |
| `client.rs`, `main.rs` | none after start | creates the tasks and the channels | – |

How they interact:

- Every task holds a clone of `Chain`. A call takes and drops the lock once per
  read and once for the write transaction, so two tasks interleave *inside*
  `try_add_block_header`.
- The tasks call the network task through `NetworkProvider`: a command with a
  oneshot sender, the answer through the receiver.
- The network task forwards gossip messages and header requests of other nodes
  to the chain manager over an unbounded channel.
- Transactions go from a caller of the pool, or from the chain manager that was
  told of them, to the network task, and by gossip to the other nodes.
- The chain manager asks for the closest peers, starts one `SyncHeader` per
  peer, and adds what they return to the store.

What is hard here: several readers and one writer that are not one transaction;
answers that complete in another order than they were asked for; several
downloads of the same range that finish in the middle of the next round; a flag
that only the successful path clears; receivers dropped while somebody insists
on answering; panics that spread over closed channels; wake-ups that must be
left behind before a task returns; a lock that is not reentrant; everything that
is received being broadcast again; restarts over an existing database.
`PROJECT.json` lists each of these hazards with its line and the properties that
would notice it going wrong.

## 2. The modules

**`BlockTree`** – the store and the tasks that share it. `header` and `hash` are
the two tables; `pc`, `arg`, `oldTip` and `result` are, for each task, the locked
section it takes next and the locals of its call. A step is one locked section:
`MineBlock` and `ImportHeader` start a call (`mine_block` reads the tip in that
step), `Validate`, `ReadOldTip`, `Write` and `ReadNewTip` are the four sections
of `try_add_block_header`. `DatabaseError` fails any of them without a write,
and where the caller panics the task is gone. `Restart` is a stop between any two
sections followed by `Chain::new`, which inserts genesis again. `RemoteMine` lets
another node mine on its own tip or on a higher one; `world` is what other nodes
hold and can send, which includes whatever this node wrote. `Stray` headers come
from a network with another genesis. Block numbers are a `u64`: the parent number
of a header with number 0 is `U64 - 1`, or a panic when the build checks overflow
(`OverflowChecks`).

**`AppendOnlyChain`** – what the store promises: a sequence of headers, each
linked to the one before, that only ever grows by one at the end.

**`SyncHeader`** – one download. `in_progress_queue` holds the requests with
their answers, `queued_headers` what was received. A step is one turn of one of
the loops of `poll` (take an answer, start sending, send, stop sending), so an
answer may arrive between any two turns. The peer answers with
`handle_get_block_headers_request`, translated from `net/chain.rs`; it may be
behind the target, may grow, and a request may fail.

**`ChainNetworkManager`** – from an announced header to a higher tip. The store
is here the append-only chain that `BlockTree` implements, so only `tip` is kept.
`on_event` has the three outcomes of the code, `PeersFound` and `PeersFailed` end
the closest-peers request, `SyncOk` and `SyncErr` a download, `BroadcastDone` a
broadcast. The network's one miner is elsewhere, or on this node (`mining`). Then
it may commit a block between the two reads of the tip in `try_add_block_header`
(the parameter `later`), and a stored header counts as one that extends the tip
(`AnnounceOvertaken`). The network around the node either behaves (`Announce`,
`FindPeers`, `Download`) or commits a counted fault: a header of another network,
whose number may be 0, no peers, a failed closest-peers request, a peer that is
behind, a peer of another network (`SyncInvalid`), a failed download, a restart of
the node, or a gap in a download (`SyncGap`): its batches completed out of order,
or one was short because the peer had no more at that time, and the headers from
the gap on find no parent. A download is known by its range and its batches
(`Starts`), and by `copy`, which keeps two downloads of one range from one peer
apart; how the batches are asked for and collected is the subject of `SyncHeader`.
`broadcasts` and `startTip` are history: what the manager has sent since it
started, and where the chain ended then. The order in which the poll takes what
is ready is arbitrary, since other tasks make more ready while it runs. Headers
are announced any number of times; gossipsub, whose cache would hold back a
repetition for a minute, is not in this module.

**`NetworkManager`** – calls and their oneshot channels. `sender[c]` says where
the sender of call `c` is (in the command channel, in a `pending_*` map, used,
dropped; or orphaned, in `pending_listening` after its listener failed),
`receiver[c]` what the caller has. `Send` is `send(..).expect(..)`: it panics when
the receiver is gone. `Panic` drops every sender the task owns, and the callers
see a closed channel: an error, or a panic where the provider says `expect`
(`Closed`). A receiver is dropped only where the code does it: a `SyncHeader`, one
of whose requests failed or came back empty, returns and drops those of its other
requests (`Siblings`, `SyncHeaderFails`); a new broadcast of the miner replaces
the one it waits for (`Replaced`); a chain manager that panics drops all of its
own. A gossip message that does not decode panics the network task
(`handle_gossipsub_message`), which `undecodable` remembers. `IncomingRequest`,
`ChainResponds` and `handle_response_block_headers` are the way of a header
request of another node.

**`FixedBlockTimeMiner`** – the miner task. `phase` is where one poll of it is
(`tick`, `mine`, `again`, `broadcast`, or `parked` between polls), `due` how many
ticks of the interval are overdue, `timer_waker` whether the interval holds the
task's waker, which `poll_tick` leaves there only when no tick is due.
`pending_broadcast` follows the one broadcast the miner keeps, `commands` the
ones the network task has not taken, each with what became of its receiver:
`Mined` drops the receiver of a broadcast that is still pending. A tick may fall
due and the network task may answer between any two phases. `skipped` remembers
that the second look at the interval took a tick.

**`DatabaseLock`** – the `RwLock` under the store. `BlockTree` takes a locked
section for one step; here each call is the sequence of `read`, `write` and
unlocks in the order of the code, one sequence for each way through it, and the
tasks (RPC handlers, chain manager, miner) take them step by step. A reader waits
while somebody writes or waits to write (`CanRead`), also when it holds a guard
already: that is how the standard library's lock behaves on Linux.

**`PoolTx`** – the pools of several nodes and the gossip between them. A batch is
a sequence of transactions, since the id of a message is a hash of the encoded
sequence (`message_id_fn`). `add_transactions_and_broadcast` stores all and
broadcasts the new ones in their order (`Added`), `IncomingTransactions` stores
and broadcasts all, `BroadcastTransactions` is the network task with the three
answers of gossipsub: accepted, a duplicate, no peers. `offered`, `published`,
`received` and `unsent` record what happened on a node since its start.
Faults are counted: a publication that finds no peer, a lost message, an id that
expires from the cache, a restart. An id expires only when the manager and the
network task have taken what they were sent: the cache keeps it for a minute, and
a batch that waits longer than that could be published a second time.

The `MC*` modules give the constants their values. The definitions named
`<definition>_<Variant>` are plausible mistakes in that definition; replacing the
definition by its variant makes a property fail, which shows that the property
depends on it.

## 3. The runs

| Run | Question | Answer |
|---|---|---|
| `store_one_miner` | One miner, here or elsewhere: does the store stay an append-only chain with an exact index under every interleaving, database error and restart, is a mined block always accepted, and does `ExtendTip` mean that this header extended the tip? | yes, the last but for a header imported while the node's own miner commits |
| `download` | Does a download ask for and return every header once, with intact batches, cover every batch when it says Ok, and end? | yes |
| `follow_network` | Does a node catch up, whatever fault it meets, as long as no ended sync leaves the pending flag set; is the flag owned without faults; do downloads attach; does a manager broadcast no more than its chain grew by plus one per recorded header, also on the node that mines? | yes |
| `restart_sync` | Does the node get the valid headers of a download with an empty batch, from it or from a sync that later headers restart, as the repository's README says? | no: the error throws them away, and the pending flag stays set |
| `broadcast_once` | Is a header broadcast once per hash, as the test of the chain manager says? | no: ahead of its validation, and again when it extends the tip |
| `calls` | Does every call end (but `start_listening` on a listener that failed), is every header request of another node served, and does the network task panic only on a dropped receiver, a dead chain manager or a message that does not decode? | yes |
| `calls_receivers` | Is a receiver never dropped while the chain manager runs, as the `expect`s say? | no: one failed request of a download drops the receivers of the others |
| `miner` | Does the miner wait only for the answer to its last broadcast, and does it mine on as long as its second look at the interval takes no tick? | yes |
| `miner_stalls` | Does the miner, alone in the network, mine at every interval whatever the timing? | no: an overdue tick is taken without mining, and no waker is left |
| `lock` | Does every call into the database return, and is the nested read of `get_header_by_hash` the only way to a deadlock? | yes |
| `lock_nested` | Does the database stay available to the calls under way? | no: a writer between the two guards of a lookup by hash blocks them all |
| `pool` | Does a transaction reach all pools; does the rebroadcast of everything received come to an end; is a pooled transaction announced unless it found no peer? | yes |

The five answers "no" are the findings of `PROJECT.json`, each with the quoted
line. Five more deviations of the code are part of the models:

- a stored header may be reported as `ExtendTip`, against "Block is extend the tip
  of chain" (`src/src/blocktree.rs:65`), when the miner commits between the two
  reads of the tip: the exception in `ExtendTipIsOwn`, and `AnnounceOvertaken` in
  `ChainNetworkManager`, where it costs a broadcast (`EchoIsBounded`);
- a download returns its batches in the order they completed, against "This
  response is in preserve order" (`src/src/net/chain.rs:285`): each batch is in
  order (`BatchesIntact`), and headers dropped at the gap come with a later sync
  (`SyncGap`, `CatchUp`);
- a new block of the miner drops the receiver of a broadcast that is still queued,
  and the network task panics on it: one of the causes in `PanicHasCause`;
- `start_listening` on a listener that failed never returns: the exception in
  `EveryCallEnds`;
- a transaction that found no peer is not sent when it is submitted again, since it
  is not new to the pool any more: the `unsent` batches in `PooledIsAnnounced`.

**Bounds.** `MaxNumber = 3` and three hashes in `BlockTree` leave room for a
header below, at and above the tip while two tasks race, and for both heads of a
fork; the stray network has a genesis and a block. `U64 = 16` only has to be
larger than the numbers in use; the runs take the release build (`OverflowChecks =
FALSE`), in which the header with number 0 wraps around, the proofs take both.
`SyncHeader` has batches of two, two in flight, and jobs with nothing to do, less
than a batch, and three batches with a short last one; the peer's tip ranges over
everything from empty to the target. `MaxNumber = 3` in `ChainNetworkManager` with
batches of two gives a download two batches, the first of which may be short or
late; a foreign header has the number 0 or 3. Two faults let one follow another:
the download that ended in a gap is repeated, with the same range and peer, while
the second of its round still runs, or the sync that a foreign header started
fails. One is enough to block the node, and `restart_sync` has one: it is the
foreign header whose number lies above the network's chain, so that a batch of the
download is empty although everybody behaves from then on. `MaxCalls = 3` covers a call that panics the task while
another is pending and a third is made afterwards, and two requests of one
download with a third call. `MaxDue = 2` in `FixedBlockTimeMiner` is a tick for
each of the two looks at the interval, `MaxCommands = 3` a dropped broadcast in
front of a kept one and room for the next. `DatabaseLock` has two RPC handlers, so
that one can hold a guard while the other does, and both tasks that write; a
request is served with up to two lookups. `PoolTx` has three nodes in a line, so
that the ends need the one in the middle, the batches `a`, `b` and `ab`, two calls
(the second may repeat the first or overlap with it) and one fault.

**Fairness.** `SyncHeader`: the runtime polls a woken future, and libp2p ends
every request with an answer, a failure or its timeout. `ChainNetworkManager`:
the newest header is announced again and again (a stand-in for blocks that keep
coming above the bound), closest-peers requests and downloads end. Nothing is
assumed about older announcements, mining or faults. `NetworkManager`: `select!`
does not starve a ready branch; header requests, queries and dials end, and a
listener gets an address or fails. `FixedBlockTimeMiner`: time passes, the runtime
polls a task that was woken, the network task takes its commands; nothing is
assumed about the miner when it was not woken. `DatabaseLock`: a thread that
holds the lock runs on (weak), and one that waits is not passed over for ever
when it could have the lock again and again (strong: the lock wakes the waiting
readers together, and a task that wrote reads the tip before it writes again).
No task has to make a call. `PoolTx`: the tasks are polled while they have input
and messages that are not lost arrive. `BlockTree` has no liveness property and
no fairness.

**Deadlock** is checked except in `SyncHeader`, whose future ends;
`NetworkManager` and `PoolTx`, where the bound on calls stops the system;
`FixedBlockTimeMiner`, which may stall; and `DatabaseLock`, which may deadlock:
the properties say exactly when.

## 4. The proofs

Each component has a module with its proofs: the inductive invariant as a
conjunction of named parts, a lemma per action that preserves it, and the
theorems, which follow from it. All of them hold for every value of the constants
that satisfies the named assumptions of the component's module: any number of
tasks, peers, nodes, calls, batches and faults, not only those of the runs.

**`BlockTreeProofs`**, any number of miners: `TypeCorrect` and
`StoreIsContiguous`. `Contiguous` alone is not inductive. Between `Validate` and
`Write` a task relies on the parent it saw; `StoreInv` adds that a task past
validation holds a header that is genesis or whose parent *number* is stored.
That survives the other tasks because the domain of `HEADER` only grows. The hash
of the parent may change meanwhile, which is why this invariant does not speak of
it.

**`OneMinerProofs`**, under `OneMiner`, the deployment `src/README.md:5` restricts
the program to ("This implementation only support for one miner"):
`HashIndexIsExact`, `MinedIsAdded` and `StoreImplementsChain`, the refinement of
`AppendOnlyChain`. `OneMinerInv` says that the headers of the network form one
chain (one header per height and per hash, each linked to the one before,
`WorldInv`), that the store is a part of it, and all of it when this node mines
(`StoredInv`), that a header from elsewhere does not get past the validation
(`ImporterInv`), and that from its read of the tip to its write the miner's header
stays the one right above the tip (`MinerInv`). From that an overwrite at a height
writes the header that is there, and the parent of a mined header is never
replaced. Assumed: mined hashes are fresh and differ from genesis, stray headers
share no hash with this network's, numbers fit the `u64`.

**`SyncHeaderProofs`**, any batch size, number of requests in flight and range:
`SyncTypes`, `EveryHeaderOnce`, `NoGapInBatch` and `OkIsComplete`. What was
received says nothing about the requests still out, so the invariant follows each
batch from its request on: as long as something is left to ask for, only whole
batches were asked for (`AskedSoFar`), every request is one batch of that range and
no two ask for the same (`Requests`), what was received is below what was asked for and
in no request (`Received`), and every batch that was asked for is either still in
a request or has its first header among the received ones (`NoBatchLost`). With
nothing left to ask for and no request out, the last part is `OkCoversEveryBatch`.
The lemmas are arithmetic: the multiples of the batch size that lie between two
heads, and that a peer's answer is a prefix of what it was asked for.

**`ChainNetworkManagerProofs`**, any peers, heights, batch size and faults, on a
node that mines and on one that does not: `ChainTypes`, `FlagIsOwned`,
`FirstHeaderAttaches` and `EchoesArePaidFor`. `DownloadsAttach` rests on a tip that
never falls. `PendingIsOwned` rests on `TargetsMined`: until a first fault every
target of a request or a download is mined and so within reach of a peer, which
leaves a download no empty batch (`WholeBatches`, `MinedIsCovered`) and hence no
failure that would keep the flag set. `TipMined` says that the local chain is a
part of the network's, and all of it on the node that mines: its tip then moves
only by the miner, which keeps it in range. `EchoIsBounded` needs that the set of
recorded headers is finite (`RecordsFinite`), so that a new entry counts one.

**`NetworkManagerProofs`**, any calls: `ManagerTypes`, `PanicsHaveThreeCauses`,
`PanicReleasesCallers` and, for every step, `CallsEndOnce`. `Send` panics when the
receiver is not there, so the invariant says that a sender in the channel or in a
`pending_*` map has a receiver that waits or is gone (`HeldHasCaller`), that whoever
waits has a sender held by the task (`WaitingIsHeld`), and that only callers who may
drop a receiver are gone (`GoneIsAllowed`). The second part also gives that a panic,
which drops all senders, leaves nobody waiting.

**`FixedBlockTimeMinerProofs`**, any bounds: `MinerTypes`, `AnswersReachTheMiner`,
`ParkedMinerIsWoken`. The waker is left one phase before the miner parks, and a
tick may fall due in between; `WakerKept` says so for both phases.

**`DatabaseLockProofs`**, any number of RPC handlers: `LockTypes` and
`OnlyLookupsByHashStick`. The invariant ties the guards of a task to what is left
of its call: manager and miner hold one guard at a time and release it next
(`PlainTask`), an RPC handler is in one of the listed states (`RpcTask`), a writer
is alone (`WriterAlone`), and who is queued is about to write (`QueuedWrite`).
When all wait, a task that holds a guard can only be a lookup by hash between its
guards, and if nobody held one, the first in the queue would go on. Assumed: the
tasks are different.

**`PoolTxProofs`**, any nodes, connections, batches and faults: `PoolTypes`,
`NoEcho`, `StoredIsAnnounced`. What stops the echo is gossipsub's cache, so the
invariant follows a batch on its way: what waits at the manager is in the cache
(`EventsSeen`), what the network task has still to publish is in the cache or was
offered by a caller (`CommandsKnown`), and what is in the cache was published
or received (`SeenExplained`), so that a refused duplicate is announced already.
`EventsSeen` is where the condition of `Expire` is needed.

**Only model-checked**: the liveness properties (`Terminates`, `CatchUp`,
`EveryCallEnds`, `InboundServed`, `KeepsMining`, `CallsReturn`, `Spread`), which
need fairness and are out of the prover's reach, `ExtendTipIsOwn`, which holds for
one chain manager only, and the five violations, which TLC refutes on an instance.
Every other invariant and action property of the passing runs is also a theorem. The models are written without recursive operators, and
without `SelectSeq`, whose definition the provers cannot unfold: what a filter
keeps of a batch is defined by the order-preserving bijection onto the kept
positions.

## 5. Not modelled

- the byte encoding of headers, hashing and the mocked balances: data the
  properties do not distinguish (a hash is a fresh value);
- what `RpcServer` does besides its lookups (parsing, formatting, HTTP), and
  `client.rs`, `main.rs`: no state of their own;
- two or more miners, which the program does not support: `BlockTree` allows them
  and its contiguity is proved for any number, everything else is checked and
  proved for one;
- `PoolTx::add_transaction` and its iterator: only a test calls them;
- mDNS and routing-table events, the bootstrap timer: they only configure libp2p;
- libp2p, redb and tokio themselves, modelled by how the code uses them.

## 6. Plan

Done, in this order: `BlockTree` with its abstract specification and proofs,
`SyncHeader`, `ChainNetworkManager`, `NetworkManager`, `FixedBlockTimeMiner`,
`DatabaseLock`, `PoolTx`, and downloads of several batches in
`ChainNetworkManager`.

The proofs followed: the header store first, then every safety property of the
other components.

Next:

1. what a download promises as a specification of its own (the headers of every
   batch, in batches, or an error), `SyncHeader` shown to implement it, and
   `ChainNetworkManager` read against it, since it takes a download for one step;
2. more action properties with their proofs: what a restart may lose, what a
   failed call leaves behind; `ExtendTipIsOwn` for one chain manager.
