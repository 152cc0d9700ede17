--------------------------- MODULE OneMinerProofs ---------------------------
(***************************************************************************)
(* What holds of BlockTree when the whole network has one miner, the       *)
(* deployment the node is written for ("this is not support chain re-org", *)
(* says tip()): the store is an append-only chain, its two tables agree    *)
(* and a mined block is never refused.  For every number of importing      *)
(* tasks, every set of hashes and stray headers and every height.          *)
(***************************************************************************)
EXTENDS BlockTreeProofs

(* p is the header right before h.                                         *)
Adjacent(p, h) == p.number + 1 = h.number /\ p.hash = h.parent_hash

(* The headers of the network form one chain, and a remote miner holds its *)
(* end.                                                                    *)
WorldInv ==
  /\ Genesis \in world
  /\ \A u, v \in world : u.number = v.number => u = v
  /\ \A u, v \in world : u.hash = v.hash => u = v
  /\ \A u \in world : u.hash \in Hash \cup {Genesis.hash}
  /\ \A u \in world : u = Genesis \/ \E p \in world : Adjacent(p, u)
  /\ "remote" \in mining =>
       remoteTip \in world /\ \A u \in world : u.number <= remoteTip.number

(* The store holds headers of that chain, all of them if this node mines.  *)
StoredInv ==
  /\ \A n \in DOMAIN header : header[n] \in world
  /\ "remote" \notin mining => \A u \in world : u.number \in DOMAIN header

(* A header from outside that chain does not get past the validation.      *)
ImporterInv ==
  \A t \in Importer :
    /\ pc[t] = "validate" => arg[t] \in world \cup Stray
    /\ pc[t] \in {"old_tip", "write", "new_tip"} => arg[t] \in world

(* Nothing moves the tip between mine_block's read of it and its write.    *)
MinerInv ==
  \A t \in Miner :
    /\ pc[t] \in {"validate", "old_tip", "write"} =>
         /\ mining = {"local"}
         /\ arg[t].number = TipNumber + 1
         /\ arg[t].parent_hash = tip.hash
         /\ arg[t].hash \in Hash
         /\ \A u \in world : u.hash # arg[t].hash
    /\ pc[t] = "write" => oldTip[t] = TipNumber
    /\ pc[t] = "new_tip" => mining = {"local"} /\ arg[t] \in world /\ oldTip[t] < TipNumber

OneMinerInv ==
  /\ StoreInv
  /\ WorldInv
  /\ StoredInv
  /\ HashIndexExact
  /\ ImporterInv
  /\ MinerInv
  /\ MinerNeverRefused

(* No task is between two sections of a call when the process starts.      *)
LEMMA InitOneMiner == Init => OneMinerInv
<1> SUFFICES ASSUME Init PROVE OneMinerInv
  OBVIOUS
<1>1. WorldInv /\ StoredInv
  BY GenesisIsHeader, BoundAssumption DEF Init, WorldInv, StoredInv, Number
<1>2. HashIndexExact
  BY DEF Init, HashIndexExact, get_header_by_hash, get_header_by_block_number
<1>3. ImporterInv /\ MinerInv /\ MinerNeverRefused
  BY DEF Init, ImporterInv, MinerInv, MinerNeverRefused, Task
<1> QED
  BY <1>1, <1>2, <1>3, InitStore DEF OneMinerInv

(* A stored header of the number of a header of the chain is that header;  *)
(* the header after the tip names the tip as its parent.                   *)
LEMMA ChainUnique ==
  ASSUME OneMinerInv, NEW h \in world
  PROVE  /\ h.number \in DOMAIN header => header[h.number] = h
         /\ h.number = TipNumber + 1 => h.parent_hash = tip.hash
<1>1. StoreInv /\ WorldInv /\ StoredInv /\ Contiguous /\ TypeOK
  BY DEF OneMinerInv, StoreInv
<1>2. h.number \in DOMAIN header => header[h.number] = h
  BY <1>1 DEF Contiguous, StoredInv, WorldInv
<1>3. ASSUME h.number = TipNumber + 1 PROVE h.parent_hash = tip.hash
  <2>1. TipNumber \in Nat /\ tip \in world /\ tip.number = TipNumber
    BY <1>1, TipOfContiguous, BoundAssumption DEF StoredInv, tip, Number
  <2>2. h # Genesis
    BY <1>3, <2>1, GenesisIsHeader
  <2>3. PICK p \in world : Adjacent(p, h)
    BY <1>1, <2>2 DEF WorldInv
  <2>4. p.number \in Nat
    BY <1>1, <2>3, BoundAssumption DEF TypeOK, Header, Number
  <2>5. p.number = TipNumber
    BY <1>3, <2>1, <2>3, <2>4 DEF Adjacent
  <2>6. p = tip
    BY <1>1, <2>1, <2>5 DEF WorldInv
  <2> QED
    BY <2>3, <2>6 DEF Adjacent
<1> QED
  BY <1>2, <1>3

(* The entry of HASH for a stored header is the number it is stored under. *)
LEMMA HashOfStored ==
  ASSUME OneMinerInv, NEW n \in DOMAIN header
  PROVE  header[n].hash \in DOMAIN hash /\ hash[header[n].hash] = n
<1>1. /\ WorldInv /\ StoredInv /\ Contiguous /\ HashIndexExact
  BY DEF OneMinerInv, StoreInv
<1>2. header[n].hash \in DOMAIN hash
  BY <1>1 DEF HashIndexExact
<1>3. PICK m \in DOMAIN header : m = hash[header[n].hash] /\ header[m].hash = header[n].hash
  BY <1>1, <1>2 DEF HashIndexExact, get_header_by_hash, get_header_by_block_number
<1>4. header[m] = header[n]
  BY <1>1, <1>3 DEF WorldInv, StoredInv
<1> QED
  BY <1>1, <1>2, <1>3, <1>4 DEF Contiguous

(* The write transaction of a call either writes what is already there or  *)
(* appends the header after the tip, which names the tip as its parent.    *)
Appends(h) ==
  /\ h.number = TipNumber + 1
  /\ h.parent_hash = tip.hash
  /\ DOMAIN header' = 0 .. TipNumber + 1
  /\ header' = [n \in 0 .. TipNumber + 1 |-> IF n = TipNumber + 1 THEN h ELSE header[n]]

LEMMA WriteAppendsOrNot ==
  ASSUME OneMinerInv, NEW t \in Task, Write(t)
  PROVE  \/ header' = header /\ hash' = hash /\ world' = world /\ arg[t] \in world
         \/ Appends(arg[t])
<1>1. /\ StoreInv /\ WorldInv /\ StoredInv /\ Contiguous /\ TypeOK
      /\ ParentStored /\ HashIndexExact /\ ImporterInv /\ MinerInv
  BY DEF OneMinerInv, StoreInv
<1>2. /\ TipNumber \in Nat /\ DOMAIN header = 0 .. TipNumber
      /\ arg[t] \in Header /\ arg[t].number \in Nat
  BY <1>1, TipOfContiguous, BoundAssumption DEF TypeOK, Header, Number
<1>3. CASE arg[t] \in world /\ arg[t].number \in DOMAIN header
  <2>1. header[arg[t].number] = arg[t]
    BY <1>3, ChainUnique
  <2>2. header' = header
    BY <1>1, <1>3, <2>1 DEF Write, Insert, TypeOK
  <2>3. arg[t].hash \in DOMAIN hash /\ hash[arg[t].hash] = arg[t].number
    BY <1>3, <2>1, HashOfStored
  <2>4. hash' = hash
    BY <1>1, <2>3 DEF Write, Insert, TypeOK
  <2> QED
    BY <1>3, <2>2, <2>4 DEF Write
<1>4. CASE arg[t].number = TipNumber + 1 /\ arg[t].parent_hash = tip.hash
  <2>1. 0 .. TipNumber + 1 = (0 .. TipNumber) \cup {TipNumber + 1}
    BY <1>2
  <2> QED
    BY <1>2, <1>4, <2>1 DEF Write, Insert, Appends
<1>5. CASE t \in Importer
  <2>1. arg[t] \in world /\ (arg[t] = Genesis \/ arg[t].number - 1 \in DOMAIN header)
    BY <1>1, <1>5 DEF ImporterInv, ParentStored, Write
  <2>2. arg[t].number \in DOMAIN header \/ arg[t].number = TipNumber + 1
    BY <1>2, <2>1, GenesisIsHeader
  <2> QED
    BY <1>3, <1>4, <2>1, <2>2, ChainUnique
<1>6. CASE t \in Miner
  BY <1>1, <1>4, <1>6 DEF MinerInv, Write
<1> QED
  BY <1>5, <1>6 DEF Task

(* A step that changes neither the tables nor the network.                 *)
LEMMA FrameOneMiner ==
  ASSUME OneMinerInv, UNCHANGED <<header, hash, world, remoteTip, mining>>
  PROVE  /\ WorldInv' /\ StoredInv' /\ HashIndexExact'
         /\ TipNumber' = TipNumber /\ tip' = tip
<1>1. WorldInv /\ StoredInv /\ HashIndexExact
  BY DEF OneMinerInv
<1>2. TipNumber' = TipNumber /\ tip' = tip
  BY DEF TipNumber, tip
<1>3. WorldInv'
  BY <1>1 DEF WorldInv
<1>4. StoredInv'
  BY <1>1 DEF StoredInv
<1>5. HashIndexExact'
  BY <1>1 DEF HashIndexExact, get_header_by_hash, get_header_by_block_number
<1> QED
  BY <1>2, <1>3, <1>4, <1>5

(* Of the headers that reach the validation, one from another genesis is   *)
(* refused and the one mine_block built on the tip is accepted.            *)
LEMMA ImporterVerdict ==
  ASSUME OneMinerInv, NEW h \in world \cup Stray,
         validate_adjacent_block_header(h) = "Ok"
  PROVE  h \in world
<1> SUFFICES ASSUME h \in Stray PROVE FALSE
  OBVIOUS
<1>1. h # Genesis /\ h \in Header
  BY StrayAssumption, StrayIsHeader
<1>2. ParentNumber(h) \in DOMAIN header /\ ParentMatches(h)
  BY <1>1 DEF validate_adjacent_block_header
<1>3. header[ParentNumber(h)] \in world
  BY <1>2 DEF OneMinerInv, StoredInv
<1>4. header[ParentNumber(h)].hash \in Hash \cup {Genesis.hash}
  BY <1>3 DEF OneMinerInv, WorldInv
<1> QED
  BY <1>2, <1>4, StrayAssumption DEF ParentMatches

LEMMA MinerVerdict ==
  ASSUME OneMinerInv, NEW h \in Header,
         h.number = TipNumber + 1, h.parent_hash = tip.hash
  PROVE  validate_adjacent_block_header(h) = "Ok"
<1>1. /\ TipNumber \in Nat /\ TipNumber \in DOMAIN header
      /\ tip.number = TipNumber /\ tip = header[TipNumber]
  BY TipOfContiguous, BoundAssumption DEF OneMinerInv, StoreInv, tip, Number
<1>2. h.number # 0 /\ ParentNumber(h) = TipNumber
  BY <1>1 DEF ParentNumber
<1>3. ParentMatches(h)
  BY <1>1, <1>2 DEF ParentMatches
<1> QED
  BY <1>1, <1>2, <1>3 DEF validate_adjacent_block_header

(* The header this call appends.                                           *)
LEMMA AppendOneMiner ==
  ASSUME OneMinerInv, OneMiner, NEW t \in Task, Write(t), Appends(arg[t]), StoreInv'
  PROVE  OneMinerInv'
<1>1. /\ StoreInv /\ WorldInv /\ StoredInv /\ Contiguous /\ TypeOK
      /\ HashIndexExact /\ ImporterInv /\ MinerInv /\ MinerNeverRefused
  BY DEF OneMinerInv, StoreInv
<1>2. /\ TipNumber \in Nat /\ DOMAIN header = 0 .. TipNumber
      /\ TipNumber \in DOMAIN header /\ tip.number = TipNumber
      /\ tip \in world /\ arg[t].number \notin DOMAIN header
  BY <1>1, TipOfContiguous, BoundAssumption DEF Number, StoredInv, tip, Appends
<1>3. TipNumber' = TipNumber + 1
  <2>1. DOMAIN header' = 0 .. TipNumber + 1
    BY DEF Appends
  <2>2. /\ TipNumber + 1 \in DOMAIN header'
        /\ \A m \in DOMAIN header' : m <= TipNumber + 1
    BY <1>2, <2>1
  <2>3. /\ TipNumber' \in DOMAIN header'
        /\ \A m \in DOMAIN header' : m <= TipNumber'
    BY <2>2 DEF TipNumber
  <2>4. TipNumber' \in 0 .. TipNumber + 1 /\ TipNumber + 1 <= TipNumber'
    BY <2>1, <2>2, <2>3
  <2> QED
    BY <1>2, <2>4
<1>4. DOMAIN header' = DOMAIN header \cup {arg[t].number}
  BY <1>2 DEF Write, Insert
<1>5. /\ header'[arg[t].number] = arg[t]
      /\ \A n \in DOMAIN header : header'[n] = header[n]
  BY <1>2 DEF Write, Insert
<1>6. HashIndexExact'
  <2>1. DOMAIN hash' = DOMAIN hash \cup {arg[t].hash}
    BY DEF Write, Insert
  <2>2. DOMAIN hash' = {header'[n].hash : n \in DOMAIN header'}
    BY <1>1, <1>4, <1>5, <2>1 DEF HashIndexExact
  <2>3. ASSUME NEW x \in DOMAIN hash'
        PROVE  hash'[x] \in DOMAIN header' /\ header'[hash'[x]].hash = x
    <3>1. CASE x = arg[t].hash
      BY <1>4, <1>5, <2>1, <3>1 DEF Write, Insert
    <3>2. CASE x # arg[t].hash
      <4>1. x \in DOMAIN hash /\ hash'[x] = hash[x]
        BY <2>1, <2>3, <3>2 DEF Write, Insert
      <4> QED
        BY <1>1, <1>4, <1>5, <4>1
        DEF HashIndexExact, get_header_by_hash, get_header_by_block_number
    <3> QED
      BY <3>1, <3>2
  <2> QED
    BY <2>2, <2>3 DEF HashIndexExact, get_header_by_hash, get_header_by_block_number
<1>7. CASE t \in Importer
  <2>1. arg[t] \in world /\ world' = world
    BY <1>1, <1>7 DEF ImporterInv, Write
  <2>2. "remote" \in mining
    BY <1>1, <1>2, <2>1 DEF StoredInv
  <2>3. WorldInv'
    BY <1>1, <2>1 DEF WorldInv, Write
  <2>4. StoredInv'
    BY <1>1, <1>4, <1>5, <2>1, <2>2 DEF StoredInv, Write
  <2>5. ImporterInv'
    BY <1>1, <1>7, <2>1 DEF ImporterInv, Write, Goto, TypeOK, StoreInv
  <2>6. MinerInv' /\ MinerNeverRefused'
    <3>1. t \notin Miner
      BY <1>7, TaskAssumption
    <3>2. mining # {"local"}
      BY <2>2
    <3>3. \A m \in Miner : pc'[m] \notin {"validate", "old_tip", "write", "new_tip"}
      BY <1>1, <3>1, <3>2 DEF MinerInv, Write, Goto, TypeOK, Task
    <3> QED
      BY <1>1, <3>3 DEF MinerInv, MinerNeverRefused, Write, Goto
  <2> QED
    BY <1>6, <2>3, <2>4, <2>5, <2>6 DEF OneMinerInv
<1>8. CASE t \in Miner
  <2>1. /\ mining = {"local"} /\ arg[t].hash \in Hash /\ oldTip[t] = TipNumber
        /\ \A u \in world : u.hash # arg[t].hash
        /\ \A u \in world : u.number # arg[t].number
    BY <1>1, <1>2, <1>8 DEF MinerInv, Write, StoredInv
  <2>2. mining' = {"local"} /\ "remote" \notin mining'
    BY <2>1 DEF Write
  <2>3. Adjacent(tip, arg[t])
    BY <1>2 DEF Adjacent, Appends
  <2>4. WorldInv'
    BY <1>1, <1>2, <2>1, <2>2, <2>3 DEF WorldInv, Write
  <2>5. StoredInv'
    BY <1>1, <1>4, <1>5, <2>1 DEF StoredInv, Write
  <2>6. ImporterInv'
    BY <1>1, <1>8, TaskAssumption DEF ImporterInv, Write, Goto, TypeOK, StoreInv
  <2>7. MinerInv'
    <3>1. \A m \in Miner : m = t
      BY <1>8 DEF OneMiner
    <3>2. pc'[t] = "new_tip" /\ arg'[t] \in world' /\ oldTip'[t] < TipNumber'
      BY <1>1, <1>2, <1>3, <2>1 DEF Write, Goto, TypeOK
    <3> QED
      BY <2>2, <3>1, <3>2 DEF MinerInv
  <2> QED
    BY <1>1, <1>6, <2>4, <2>5, <2>6, <2>7
    DEF OneMinerInv, MinerNeverRefused, Write, Goto
<1> QED
  BY <1>7, <1>8 DEF Task

LEMMA NextOneMiner == OneMiner /\ OneMinerInv /\ [Next]_vars => OneMinerInv'
<1> SUFFICES ASSUME OneMiner, OneMinerInv, [Next]_vars PROVE OneMinerInv'
  OBVIOUS
<1>0. /\ StoreInv /\ WorldInv /\ StoredInv /\ Contiguous /\ TypeOK
      /\ HashIndexExact /\ ImporterInv /\ MinerInv /\ MinerNeverRefused
  BY DEF OneMinerInv, StoreInv
<1>a. StoreInv'
  BY <1>0, NextStore
<1>b. mining \in {{}, {"local"}, {"remote"}}
  BY <1>0 DEF OneMiner, TypeOK
<1>c. Miner \cap Importer = {} /\ Miner \subseteq Task /\ Importer \subseteq Task
  BY TaskAssumption DEF Task
<1>1. ASSUME NEW t \in Miner, MineBlock(t) PROVE OneMinerInv'
  <2>1. PICK x \in FreshHash : Call(t, Child(tip, x))
    BY <1>1 DEF MineBlock
  <2>2. WorldInv' /\ StoredInv' /\ HashIndexExact' /\ TipNumber' = TipNumber /\ tip' = tip
    BY <1>1, FrameOneMiner DEF MineBlock
  <2>3. ImporterInv'
    BY <1>0, <1>1, <1>c, <2>1 DEF ImporterInv, MineBlock, Call, TypeOK
  <2>4. MinerInv'
    <3>1. \A m \in Miner : m = t
      BY <1>1 DEF OneMiner
    <3>2. mining' = {"local"}
      BY <1>1, <1>b DEF MineBlock
    <3>3. pc'[t] = "validate" /\ arg'[t] = Child(tip, x)
      BY <1>0, <1>c, <2>1 DEF Call, TypeOK
    <3>4. arg'[t].number = TipNumber' + 1 /\ arg'[t].parent_hash = tip'.hash
      BY <1>0, <2>2, <3>3, TipOfContiguous DEF Child
    <3>5. arg'[t].hash \in Hash /\ \A u \in world' : u.hash # arg'[t].hash
      BY <1>1, <2>1, <3>3 DEF Child, FreshHash, MineBlock
    <3> QED
      BY <3>1, <3>2, <3>3, <3>4, <3>5 DEF MinerInv
  <2>5. MinerNeverRefused'
    BY <1>0, <1>c, <2>1 DEF MinerNeverRefused, Call, TypeOK
  <2> QED
    BY <1>a, <2>2, <2>3, <2>4, <2>5 DEF OneMinerInv
<1>2. ASSUME NEW t \in Importer, ImportHeader(t) PROVE OneMinerInv'
  <2>1. PICK h \in world \cup Stray : Call(t, h)
    BY <1>2 DEF ImportHeader
  <2>2. WorldInv' /\ StoredInv' /\ HashIndexExact' /\ TipNumber' = TipNumber /\ tip' = tip
    BY <1>2, FrameOneMiner DEF ImportHeader
  <2>3. ImporterInv'
    BY <1>0, <1>2, <1>c, <2>1 DEF ImporterInv, ImportHeader, Call, TypeOK
  <2>4. MinerInv' /\ MinerNeverRefused'
    BY <1>0, <1>2, <1>c, <2>1, <2>2
    DEF MinerInv, MinerNeverRefused, ImportHeader, Call, TypeOK
  <2> QED
    BY <1>a, <2>2, <2>3, <2>4 DEF OneMinerInv
<1>3. ASSUME NEW t \in Task, Validate(t) PROVE OneMinerInv'
  <2>1. WorldInv' /\ StoredInv' /\ HashIndexExact' /\ TipNumber' = TipNumber /\ tip' = tip
    BY <1>3, FrameOneMiner DEF Validate
  <2>2. CASE t \in Importer
    <3>1. arg[t] \in world \cup Stray
      BY <1>0, <1>3, <2>2 DEF ImporterInv, Validate
    <3>2. pc'[t] = "old_tip" => arg[t] \in world
      BY <1>0, <1>3, <3>1, ImporterVerdict DEF Validate, Return, TypeOK
    <3>3. ImporterInv'
      BY <1>0, <1>3, <1>c, <2>2, <3>2 DEF ImporterInv, Validate, Goto, Return, TypeOK
    <3>4. MinerInv' /\ MinerNeverRefused'
      BY <1>0, <1>3, <1>c, <2>1, <2>2
      DEF MinerInv, MinerNeverRefused, Validate, Goto, Return, TypeOK
    <3> QED
      BY <1>a, <2>1, <3>3, <3>4 DEF OneMinerInv
  <2>3. CASE t \in Miner
    <3>1. validate_adjacent_block_header(arg[t]) = "Ok"
      BY <1>0, <1>3, <2>3, MinerVerdict DEF MinerInv, Validate, TypeOK
    <3>2. Goto(t, "old_tip")
      BY <1>3, <3>1 DEF Validate
    <3>3. ImporterInv'
      BY <1>0, <1>3, <1>c, <2>3, <3>2 DEF ImporterInv, Validate, Goto, TypeOK
    <3>4. MinerInv' /\ MinerNeverRefused'
      BY <1>0, <1>3, <1>c, <2>1, <2>3, <3>2
      DEF MinerInv, MinerNeverRefused, Validate, Goto, TypeOK
    <3> QED
      BY <1>a, <2>1, <3>3, <3>4 DEF OneMinerInv
  <2> QED
    BY <2>2, <2>3 DEF Task
<1>4. ASSUME NEW t \in Task, ReadOldTip(t) PROVE OneMinerInv'
  <2>1. WorldInv' /\ StoredInv' /\ HashIndexExact' /\ TipNumber' = TipNumber /\ tip' = tip
    BY <1>4, FrameOneMiner DEF ReadOldTip
  <2>2. ImporterInv'
    BY <1>0, <1>4, <1>c DEF ImporterInv, ReadOldTip, Goto, TypeOK
  <2>3. MinerInv' /\ MinerNeverRefused'
    <3>1. oldTip' = [oldTip EXCEPT ![t] = TipNumber]
      BY <1>0, <1>4, TipOfContiguous DEF ReadOldTip
    <3> QED
      BY <1>0, <1>4, <1>c, <2>1, <3>1
      DEF MinerInv, MinerNeverRefused, ReadOldTip, Goto, TypeOK
  <2> QED
    BY <1>a, <2>1, <2>2, <2>3 DEF OneMinerInv
<1>5. ASSUME NEW t \in Task, Write(t) PROVE OneMinerInv'
  <2>1. CASE Appends(arg[t])
    BY <1>5, <1>a, <2>1, AppendOneMiner
  <2>2. CASE header' = header /\ hash' = hash /\ world' = world /\ arg[t] \in world
    <3>1. WorldInv' /\ StoredInv' /\ HashIndexExact' /\ TipNumber' = TipNumber /\ tip' = tip
      BY <1>5, <2>2, FrameOneMiner DEF Write
    <3>2. t \in Importer
      BY <1>0, <1>5, <2>2 DEF MinerInv, Write, Task
    <3>3. ImporterInv'
      BY <1>0, <1>5, <1>c, <2>2, <3>2 DEF ImporterInv, Write, Goto, TypeOK
    <3>4. MinerInv' /\ MinerNeverRefused'
      BY <1>0, <1>5, <1>c, <2>2, <3>1, <3>2
      DEF MinerInv, MinerNeverRefused, Write, Goto, TypeOK
    <3> QED
      BY <1>a, <3>1, <3>3, <3>4 DEF OneMinerInv
  <2> QED
    BY <1>5, <2>1, <2>2, WriteAppendsOrNot
<1>6. ASSUME NEW t \in Task, ReadNewTip(t) PROVE OneMinerInv'
  <2>1. WorldInv' /\ StoredInv' /\ HashIndexExact' /\ TipNumber' = TipNumber /\ tip' = tip
    BY <1>6, FrameOneMiner DEF ReadNewTip
  <2>2. ImporterInv'
    BY <1>0, <1>6, <1>c DEF ImporterInv, ReadNewTip, Return, TypeOK
  <2>3. MinerInv'
    BY <1>0, <1>6, <1>c, <2>1 DEF MinerInv, ReadNewTip, Return, TypeOK
  <2>4. MinerNeverRefused'
    <3>1. t \in Miner => oldTip[t] < tip.number
      BY <1>0, <1>6, TipOfContiguous DEF MinerInv, ReadNewTip
    <3> QED
      BY <1>0, <1>6, <1>c, <3>1 DEF MinerNeverRefused, ReadNewTip, Return, TypeOK
  <2> QED
    BY <1>a, <2>1, <2>2, <2>3, <2>4 DEF OneMinerInv
<1>7. ASSUME NEW t \in Task, DatabaseError(t) PROVE OneMinerInv'
  <2>1. WorldInv' /\ StoredInv' /\ HashIndexExact' /\ TipNumber' = TipNumber /\ tip' = tip
    BY <1>7, FrameOneMiner DEF DatabaseError
  <2>2. ImporterInv'
    BY <1>0, <1>7, <1>c DEF ImporterInv, DatabaseError, Return, TypeOK
  <2>3. MinerInv' /\ MinerNeverRefused'
    BY <1>0, <1>7, <1>c, <2>1
    DEF MinerInv, MinerNeverRefused, DatabaseError, Return, TypeOK
  <2> QED
    BY <1>a, <2>1, <2>2, <2>3 DEF OneMinerInv
<1>8. CASE Restart
  <2>1. 0 \in DOMAIN header /\ header[0] = Genesis
    BY <1>0, TipOfContiguous, BoundAssumption DEF Contiguous, Number
  <2>2. header' = header
    BY <1>0, <1>8, <2>1 DEF Restart, Insert, TypeOK
  <2>3. Genesis.hash \in DOMAIN hash /\ hash[Genesis.hash] = 0
    BY <2>1, HashOfStored
  <2>4. hash' = hash
    BY <1>0, <1>8, <2>3 DEF Restart, Insert, TypeOK
  <2>5. WorldInv' /\ StoredInv' /\ HashIndexExact'
    BY <1>8, <2>2, <2>4, FrameOneMiner DEF Restart
  <2>6. ImporterInv' /\ MinerInv' /\ MinerNeverRefused'
    BY <1>8, <1>c DEF ImporterInv, MinerInv, MinerNeverRefused, Restart
  <2> QED
    BY <1>a, <2>5, <2>6 DEF OneMinerInv
<1>9. CASE RemoteMine
  <2>1. PICK parent \in world, x \in FreshHash :
          /\ parent = remoteTip \/ parent.number > remoteTip.number
          /\ remoteTip' = Child(parent, x)
          /\ world' = world \cup {Child(parent, x)}
    BY <1>9 DEF RemoteMine
  <2>2. \A u \in world : u.number \in Nat
    BY <1>0, BoundAssumption DEF TypeOK, Header, Number
  <2>3. "remote" \in mining /\ mining # {"local"} /\ mining' = mining
    BY <1>9 DEF RemoteMine
  <2>4. remoteTip \in world /\ \A u \in world : u.number <= remoteTip.number
    BY <1>0, <2>3 DEF WorldInv
  <2>5. parent = remoteTip
    BY <2>1, <2>2, <2>4
  <2>6. x \in Hash /\ \A u \in world : u.hash # x
    BY <2>1 DEF FreshHash
  <2> DEFINE child == Child(parent, x)
  <2>7. /\ child.number = parent.number + 1 /\ child.hash = x
        /\ child.parent_hash = parent.hash
    BY DEF Child
  <2> HIDE DEF child
  <2>8. \A u \in world : u.number < child.number
    BY <2>2, <2>4, <2>5, <2>7
  <2>9. world' = world \cup {child} /\ remoteTip' = child
    BY <2>1 DEF child
  <2>10. Adjacent(parent, child)
    BY <2>7 DEF Adjacent
  <2>11. child.number \in Nat
    BY <2>1, <2>2, <2>7
  <2>12. WorldInv'
    <3>1. \A u, v \in world' : u.number = v.number => u = v
      BY <1>0, <2>2, <2>8, <2>9, <2>11 DEF WorldInv
    <3>2. \A u, v \in world' : u.hash = v.hash => u = v
      BY <1>0, <2>6, <2>7, <2>9 DEF WorldInv
    <3>3. \A u \in world' : u.hash \in Hash \cup {Genesis.hash}
      BY <1>0, <2>6, <2>7, <2>9 DEF WorldInv
    <3>4. \A u \in world' : u = Genesis \/ \E p \in world' : Adjacent(p, u)
      BY <1>0, <2>1, <2>9, <2>10 DEF WorldInv
    <3>5. remoteTip' \in world' /\ \A u \in world' : u.number <= remoteTip'.number
      BY <2>2, <2>8, <2>9, <2>11
    <3> QED
      BY <1>0, <2>9, <3>1, <3>2, <3>3, <3>4, <3>5 DEF WorldInv
  <2>13. StoredInv'
    BY <1>0, <1>9, <2>3, <2>9 DEF StoredInv, RemoteMine
  <2>14. HashIndexExact'
    BY <1>0, <1>9
    DEF HashIndexExact, get_header_by_hash, get_header_by_block_number, RemoteMine
  <2>15. ImporterInv'
    BY <1>0, <1>9, <2>9 DEF ImporterInv, RemoteMine
  <2>16. MinerInv' /\ MinerNeverRefused'
    BY <1>0, <1>9, <2>3 DEF MinerInv, MinerNeverRefused, RemoteMine
  <2> QED
    BY <1>a, <2>12, <2>13, <2>14, <2>15, <2>16 DEF OneMinerInv
<1>10. CASE UNCHANGED vars
  <2>1. WorldInv' /\ StoredInv' /\ HashIndexExact' /\ TipNumber' = TipNumber /\ tip' = tip
    BY <1>10, FrameOneMiner DEF vars
  <2>2. ImporterInv' /\ MinerInv' /\ MinerNeverRefused'
    BY <1>0, <1>10, <2>1 DEF vars, ImporterInv, MinerInv, MinerNeverRefused
  <2> QED
    BY <1>a, <2>1, <2>2 DEF OneMinerInv
<1> QED
  BY <1>1, <1>2, <1>3, <1>4, <1>5, <1>6, <1>7, <1>8, <1>9, <1>10 DEF Next, TryAdd

----------------------------------------------------------------------------
(* The results.                                                            *)

LEMMA OneMinerInvariant == OneMiner => (Spec => []OneMinerInv)
<1> SUFFICES ASSUME OneMiner PROVE Spec => []OneMinerInv
  OBVIOUS
<1>1. OneMinerInv /\ [Next]_vars => OneMinerInv'
  BY NextOneMiner
<1> QED
  BY <1>1, InitOneMiner, PTL DEF Spec

(* With one miner, get_header_by_hash finds exactly the stored headers, in *)
(* whatever order the locked sections of the tasks are taken.              *)
THEOREM HashIndexIsExact == OneMiner => (Spec => []HashIndexExact)
<1>1. OneMinerInv => HashIndexExact
  BY DEF OneMinerInv
<1> QED
  BY <1>1, OneMinerInvariant, PTL

(* With one miner, the panic of mine_block is reached by a failure of the  *)
(* database only, and BlockFallingBehind is never returned.                *)
THEOREM MinedIsAdded == OneMiner => (Spec => []MinerNeverRefused)
<1>1. OneMinerInv => MinerNeverRefused
  BY DEF OneMinerInv
<1> QED
  BY <1>1, OneMinerInvariant, PTL

(* Only the write transaction of a call and the genesis insert of a        *)
(* restart touch HEADER, and both append to the chain or leave it alone.   *)
LEMMA StepRefines ==
  OneMinerInv /\ [Next]_vars => [Abstract!Next]_header
<1> SUFFICES ASSUME OneMinerInv, [Next]_vars, header' # header PROVE Abstract!Next
  OBVIOUS
<1>0. Contiguous /\ TypeOK
  BY DEF OneMinerInv, StoreInv
<1>1. ASSUME NEW t \in Task, Write(t) PROVE Abstract!Next
  <2>1. Appends(arg[t])
    BY <1>1, WriteAppendsOrNot
  <2>2. TipNumber \in DOMAIN header /\ DOMAIN header = 0 .. TipNumber /\ arg[t] \in Header
    BY <1>0, TipOfContiguous DEF TypeOK
  <2>3. Abstract!Append(TipNumber, arg[t])
    BY <2>1, <2>2 DEF Appends, Abstract!Append, tip
  <2> QED
    BY <2>2, <2>3 DEF Abstract!Next
<1>2. CASE Restart
  <2>1. 0 \in DOMAIN header /\ header[0] = Genesis
    BY <1>0, TipOfContiguous, BoundAssumption DEF Contiguous, Number
  <2> QED
    BY <1>0, <1>2, <2>1 DEF Restart, Insert, TypeOK
<1>3. \/ \E t \in Task : Write(t)
      \/ Restart
  BY DEF Next, TryAdd, MineBlock, ImportHeader, Validate, ReadOldTip, ReadNewTip,
         DatabaseError, RemoteMine, vars
<1> QED
  BY <1>1, <1>2, <1>3

(* With one miner the store of a node implements an append-only chain that *)
(* starts with the genesis header and whose headers are linked by hashes:  *)
(* no call, no stale read between two sections, no header of another       *)
(* network and no restart replaces or drops one.                           *)
THEOREM StoreImplementsChain == OneMiner => (Spec => ImplementsChain)
<1> SUFFICES ASSUME OneMiner PROVE Spec => Abstract!Spec
  BY DEF ImplementsChain
<1>1. Init => Abstract!Init
  BY DEF Init, Abstract!Init
<1>2. OneMinerInv /\ [Next]_vars => [Abstract!Next]_header
  BY StepRefines
<1>3. Spec => []OneMinerInv
  BY OneMinerInvariant
<1> QED
  BY <1>1, <1>2, <1>3, PTL DEF Spec, Abstract!Spec
=============================================================================
