------------------------------ MODULE BlockTree ------------------------------
(***************************************************************************)
(* The header store of a node: Chain<P> of src/src/blocktree.rs, with its  *)
(* two database tables, the operations that read and write them, and the   *)
(* tasks of the node that share it.                                        *)
(*                                                                         *)
(* Every task holds a clone of Chain and with it the same database behind  *)
(* one RwLock.  A call takes and drops that lock once for each read and    *)
(* once for the write transaction, so a step of this model is one locked   *)
(* section, and the sections of different tasks interleave.  In            *)
(* try_add_block_header they are: validate, read the old tip, write both   *)
(* tables in one transaction, read the new tip.  mine_block reads the tip  *)
(* first and then calls try_add_block_header.                              *)
(*                                                                         *)
(* The rest of the network appears as the set of headers it can send.      *)
(***************************************************************************)
EXTENDS Integers

CONSTANTS
  Hash,            \* the hashes mining can produce, never the same one twice
  Genesis,         \* Chain::genesis()
  Stray,           \* headers of a network that grew from another genesis
  Miner,           \* tasks of this node that call mine_block
  Importer,        \* tasks of this node that add headers received from peers
  Deployments,     \* who mines: a set of subsets of {"local", "remote"}
  OverflowChecks,  \* does the build panic on u64 underflow (the dev profile)
  MaxNumber,       \* bound: the highest block number
  U64              \* the number of values of a u64

Number  == 0 .. MaxNumber
Task    == Miner \cup Importer
AnyHash == Hash \cup {Genesis.hash, Genesis.parent_hash}
                \cup {s.hash : s \in Stray} \cup {s.parent_hash : s \in Stray}
Header  == [number : Number, hash : AnyHash, parent_hash : AnyHash]

(* The genesis constants, the width of a block number, and what makes a    *)
(* header stray: it belongs to a tree of hashes that shares none with the  *)
(* tree over Genesis, and it is not Genesis.                               *)
ASSUME BoundAssumption  == MaxNumber \in Nat /\ U64 \in Nat /\ MaxNumber + 1 < U64
ASSUME TaskAssumption   == Miner \cap Importer = {} /\ OverflowChecks \in BOOLEAN
ASSUME DeployAssumption == Deployments \subseteq SUBSET {"local", "remote"}
ASSUME GenesisAssumption ==
  /\ Genesis = [number |-> 0, hash |-> Genesis.hash, parent_hash |-> Genesis.parent_hash]
  /\ Genesis.hash \notin Hash
ASSUME StrayAssumption ==
  \A s \in Stray :
    /\ s = [number |-> s.number, hash |-> s.hash, parent_hash |-> s.parent_hash]
    /\ s.number \in Number
    /\ s.hash \notin Hash \cup {Genesis.hash}
    /\ s.parent_hash \notin Hash \cup {Genesis.hash}

VARIABLES
  header,     \* table HEADER: block number -> header
  hash,       \* table HASH: block hash -> block number
  pc,         \* task -> the locked section it takes next
  arg,        \* task -> the header its call is adding
  oldTip,     \* task -> old_tip.number, read before the write
  result,     \* task -> what its last call returned
  world,      \* the headers other nodes hold and may send
  remoteTip,  \* the tip of the remote miner
  mining      \* who mines in this behaviour, chosen once

vars == <<header, hash, pc, arg, oldTip, result, world, remoteTip, mining>>

----------------------------------------------------------------------------
(* The tables.                                                             *)

(* BTreeMap-like insert of redb: adds the key or replaces its value.       *)
Insert(table, key, value) ==
  [k \in DOMAIN table \cup {key} |-> IF k = key THEN value ELSE table[k]]

(* table.last(): the entry of the largest key.                             *)
TipNumber == CHOOSE n \in DOMAIN header : \A m \in DOMAIN header : m <= n

tip == header[TipNumber]

(* header.number - 1 on a u64.                                             *)
ParentNumber(h) == IF h.number = 0 THEN U64 - 1 ELSE h.number - 1

ParentMatches_NumberOnly(h) == header[ParentNumber(h)].number + 1 = h.number

(* validate_adjacent_block_header: parent present, parent hash and number. *)
ParentMatches(h) ==
  LET parent == header[ParentNumber(h)]
  IN  parent.hash = h.parent_hash /\ parent.number + 1 = h.number

validate_adjacent_block_header_MissingParentIsOk(h) ==
  IF ParentNumber(h) \notin DOMAIN header THEN "Ok"
  ELSE IF ParentMatches(h) THEN "Ok" ELSE "Invalid"

validate_adjacent_block_header(h) ==
  IF h = Genesis THEN "Ok"
  ELSE IF h.number = 0 /\ OverflowChecks THEN "Overflow"
  ELSE IF ParentNumber(h) \notin DOMAIN header THEN "BlockHeaderNotFound"
  ELSE IF ParentMatches(h) THEN "Ok" ELSE "Invalid"

(* The two point lookups, defined where the code returns Ok.               *)
get_header_by_block_number(n) == header[n]

get_header_by_hash(x) == get_header_by_block_number(hash[x])

----------------------------------------------------------------------------
(* Calls and returns.                                                      *)

(* The callers: mine_block panics on every Err, and ChainNetworkManager    *)
(* panics on a DatabaseError.  A panic ends the task.                      *)
Panics(t, r) ==
  \/ r \in {"Overflow", "DatabaseError"}
  \/ t \in Miner /\ r \in {"Invalid", "BlockHeaderNotFound"}

Return(t, r) ==
  /\ result' = [result EXCEPT ![t] = r]
  /\ pc' = [pc EXCEPT ![t] = IF Panics(t, r) THEN "panicked" ELSE "idle"]

Goto(t, section) ==
  /\ pc' = [pc EXCEPT ![t] = section]
  /\ UNCHANGED result

(* try_add_block_header(h) starts.                                         *)
Call(t, h) ==
  /\ pc[t] = "idle"
  /\ pc' = [pc EXCEPT ![t] = "validate"]
  /\ arg' = [arg EXCEPT ![t] = h]
  /\ result' = [result EXCEPT ![t] = "none"]

FreshHash == Hash \ ({h.hash : h \in world} \cup {arg[t].hash : t \in Task})

Child(parent, x) ==
  [number |-> parent.number + 1, hash |-> x, parent_hash |-> parent.hash]

(* mine_block: read the tip, build a header on it, try to add it.          *)
MineBlock(t) ==
  /\ "local" \in mining
  /\ tip.number < MaxNumber
  /\ \E x \in FreshHash : Call(t, Child(tip, x))
  /\ UNCHANGED <<header, hash, oldTip, world, remoteTip, mining>>

(* on_event and the end of a sync: try to add a header some peer sent.     *)
ImportHeader(t) ==
  /\ \E h \in world \cup Stray : Call(t, h)
  /\ UNCHANGED <<header, hash, oldTip, world, remoteTip, mining>>

Validate(t) ==
  LET verdict == validate_adjacent_block_header(arg[t])
  IN  /\ pc[t] = "validate"
      /\ IF verdict = "Ok" THEN Goto(t, "old_tip") ELSE Return(t, verdict)
      /\ UNCHANGED <<header, hash, arg, oldTip, world, remoteTip, mining>>

ReadOldTip(t) ==
  /\ pc[t] = "old_tip"
  /\ Goto(t, "write")
  /\ oldTip' = [oldTip EXCEPT ![t] = tip.number]
  /\ UNCHANGED <<header, hash, arg, world, remoteTip, mining>>

Write_KeyAndValueSwapped(t) ==
  /\ pc[t] = "write"
  /\ Goto(t, "new_tip")
  /\ header' = Insert(header, arg[t].number, arg[t])
  /\ hash' = Insert(hash, arg[t].number, arg[t].hash)
  /\ world' = world \cup {arg[t]}
  /\ UNCHANGED <<arg, oldTip, remoteTip, mining>>

Write_HashForgotten(t) ==
  /\ pc[t] = "write"
  /\ Goto(t, "new_tip")
  /\ header' = Insert(header, arg[t].number, arg[t])
  /\ world' = world \cup {arg[t]}
  /\ UNCHANGED <<hash, arg, oldTip, remoteTip, mining>>

(* One write transaction on both tables; from here on peers can fetch it.  *)
Write(t) ==
  /\ pc[t] = "write"
  /\ Goto(t, "new_tip")
  /\ header' = Insert(header, arg[t].number, arg[t])
  /\ hash' = Insert(hash, arg[t].hash, arg[t].number)
  /\ world' = world \cup {arg[t]}
  /\ UNCHANGED <<arg, oldTip, remoteTip, mining>>

ReadNewTip_NotStrict(t) ==
  /\ pc[t] = "new_tip"
  /\ Return(t, IF oldTip[t] + 1 < tip.number THEN "ExtendTip" ELSE "AlreadyInChain")
  /\ UNCHANGED <<header, hash, arg, oldTip, world, remoteTip, mining>>

ReadNewTip_OrEqual(t) ==
  /\ pc[t] = "new_tip"
  /\ Return(t, IF oldTip[t] <= tip.number THEN "ExtendTip" ELSE "AlreadyInChain")
  /\ UNCHANGED <<header, hash, arg, oldTip, world, remoteTip, mining>>

ReadNewTip(t) ==
  /\ pc[t] = "new_tip"
  /\ Return(t, IF oldTip[t] < tip.number THEN "ExtendTip" ELSE "AlreadyInChain")
  /\ UNCHANGED <<header, hash, arg, oldTip, world, remoteTip, mining>>

(* A redb call of the section fails: nothing is written, the task panics.  *)
DatabaseError(t) ==
  /\ pc[t] \in {"validate", "old_tip", "write", "new_tip"}
  /\ Return(t, "DatabaseError")
  /\ UNCHANGED <<header, hash, arg, oldTip, world, remoteTip, mining>>

----------------------------------------------------------------------------
(* The process and its surroundings.                                       *)

(* The process stops between any two sections and Chain::new opens the     *)
(* database again: the tables survive, the calls in flight do not.         *)
Restart ==
  /\ header' = Insert(header, 0, Genesis)
  /\ hash' = Insert(hash, Genesis.hash, 0)
  /\ pc' = [t \in Task |-> "idle"]
  /\ arg' = [t \in Task |-> Genesis]
  /\ oldTip' = [t \in Task |-> 0]
  /\ result' = [t \in Task |-> "none"]
  /\ UNCHANGED <<world, remoteTip, mining>>

(* Another node mines on its own tip, or on a higher one it has adopted.   *)
RemoteMine ==
  /\ "remote" \in mining
  /\ \E parent \in world, x \in FreshHash :
       /\ parent = remoteTip \/ parent.number > remoteTip.number
       /\ parent.number < MaxNumber
       /\ remoteTip' = Child(parent, x)
       /\ world' = world \cup {Child(parent, x)}
  /\ UNCHANGED <<header, hash, pc, arg, oldTip, result, mining>>

Init ==
  /\ header = [n \in {0} |-> Genesis]
  /\ hash = [x \in {Genesis.hash} |-> 0]
  /\ pc = [t \in Task |-> "idle"]
  /\ arg = [t \in Task |-> Genesis]
  /\ oldTip = [t \in Task |-> 0]
  /\ result = [t \in Task |-> "none"]
  /\ world = {Genesis}
  /\ remoteTip = Genesis
  /\ mining \in Deployments

TryAdd(t) ==
  Validate(t) \/ ReadOldTip(t) \/ Write(t) \/ ReadNewTip(t) \/ DatabaseError(t)

Next ==
  \/ \E t \in Miner : MineBlock(t)
  \/ \E t \in Importer : ImportHeader(t)
  \/ \E t \in Task : TryAdd(t)
  \/ Restart
  \/ RemoteMine

Spec == Init /\ [][Next]_vars

----------------------------------------------------------------------------
(* Properties.                                                             *)

Section == {"idle", "validate", "old_tip", "write", "new_tip", "panicked"}
Result  == {"none", "ExtendTip", "AlreadyInChain", "Invalid",
            "BlockHeaderNotFound", "Overflow", "DatabaseError"}

(* The variables hold values of the code's types.                          *)
TypeOK ==
  /\ DOMAIN header \subseteq Number
  /\ header \in [DOMAIN header -> Header]
  /\ DOMAIN hash \subseteq AnyHash
  /\ hash \in [DOMAIN hash -> Number]
  /\ pc \in [Task -> Section]
  /\ arg \in [Task -> Header]
  /\ oldTip \in [Task -> Number]
  /\ result \in [Task -> Result]
  /\ world \subseteq Header
  /\ remoteTip \in Header
  /\ mining \in Deployments

(* The table HEADER has no gap, holds every header under its own number    *)
(* and never loses the genesis header, whatever the tasks, the other       *)
(* miners and the restarts do.  tip(), get_header_by_block_number and the  *)
(* answer to a GetBlockHeaders request rely on it.                         *)
Contiguous ==
  /\ \E k \in Number : DOMAIN header = 0 .. k
  /\ \A n \in DOMAIN header : header[n].number = n
  /\ header[0] = Genesis

(* The README's deployment: one miner in the whole network.                *)
OneMiner ==
  /\ \A d \in Deployments : d \in {{}, {"local"}, {"remote"}}
  /\ \A t, u \in Miner : t = u

(* The table HEADER as the abstract chain.                                 *)
Abstract == INSTANCE AppendOnlyChain WITH chain <- header

(* With one miner the store is an append-only chain linked by hashes: no   *)
(* step replaces or drops a header, not the unconditional insert of        *)
(* try_add_block_header nor the genesis insert of a restart.               *)
ImplementsChain == Abstract!Spec

(* With one miner the two tables agree: a lookup by hash finds exactly the *)
(* stored headers, each under the hash it was asked for.                   *)
HashIndexExact ==
  /\ DOMAIN hash = {header[n].hash : n \in DOMAIN header}
  /\ \A x \in DOMAIN hash :
       hash[x] \in DOMAIN header /\ get_header_by_hash(x).hash = x

(* With one miner a mined block is never refused and never falls behind:   *)
(* the panic of mine_block is reached by a database failure only.          *)
MinerNeverRefused ==
  \A t \in Miner : result[t] \in {"none", "ExtendTip", "DatabaseError"}

(* ExtendTip, "Block is extend the tip of chain", is about the header of   *)
(* the call, which was above the tip this call saw before its write.  The  *)
(* tip is read in two locked sections, so it may be about the block of     *)
(* another task: on the node that mines, when a header is imported.        *)
ExtendTipIsOwn ==
  \A t \in Task :
    result[t] = "ExtendTip" =>
      arg[t].number > oldTip[t] \/ (t \in Importer /\ "local" \in mining)
=============================================================================
