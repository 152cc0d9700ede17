--------------------------- MODULE BlockTreeProofs ---------------------------
(***************************************************************************)
(* What holds of BlockTree for every set of tasks, every number of miners, *)
(* every set of hashes and every bound on the block numbers.               *)
(***************************************************************************)
EXTENDS BlockTree, TLAPS

----------------------------------------------------------------------------
(* The table HEADER and its last entry.                                    *)

(* tip() of a table without gaps is the entry of the number it ends with.  *)
LEMMA TipOfContiguous ==
  ASSUME Contiguous
  PROVE  /\ TipNumber \in Number /\ TipNumber \in DOMAIN header
         /\ DOMAIN header = 0 .. TipNumber
         /\ tip.number = TipNumber
<1>1. PICK k \in Number : DOMAIN header = 0 .. k
  BY DEF Contiguous
<1>2. k \in Nat
  BY <1>1, BoundAssumption DEF Number
<1>3. k \in DOMAIN header /\ \A m \in DOMAIN header : m <= k
  BY <1>1, <1>2
<1>4. TipNumber \in DOMAIN header /\ \A m \in DOMAIN header : m <= TipNumber
  BY <1>3 DEF TipNumber
<1>5. TipNumber = k
  <2>1. TipNumber \in 0 .. k
    BY <1>1, <1>4
  <2>2. k <= TipNumber
    BY <1>3, <1>4
  <2> QED
    BY <1>2, <2>1, <2>2
<1> QED
  BY <1>1, <1>4, <1>5 DEF tip, Contiguous

(* Chain::genesis() is a header.                                           *)
LEMMA GenesisIsHeader == Genesis \in Header /\ Genesis.number = 0
<1>1. 0 \in Number
  BY BoundAssumption DEF Number
<1> QED
  BY <1>1, GenesisAssumption DEF Header, AnyHash

(* What a peer of another network sends is a header.                       *)
LEMMA StrayIsHeader == Stray \subseteq Header
BY StrayAssumption DEF Header, AnyHash

----------------------------------------------------------------------------
(* Any deployment.                                                         *)

(* After its validation a call is adding the genesis header or a header    *)
(* whose parent number is in the table.                                    *)
ParentStored ==
  \A t \in Task : pc[t] \in {"old_tip", "write", "new_tip"} =>
    arg[t] = Genesis \/ arg[t].number - 1 \in DOMAIN header

StoreInv == TypeOK /\ Contiguous /\ ParentStored

(* A header that passes the validation of a table without gaps is the      *)
(* genesis header or has its parent number in the table: header.number - 1 *)
(* of a header with number 0 wraps to a number no table reaches.           *)
LEMMA ValidatedParentStored ==
  ASSUME TypeOK, NEW h \in Header, validate_adjacent_block_header(h) = "Ok"
  PROVE  h = Genesis \/ h.number - 1 \in DOMAIN header
<1>1. h.number \in Number /\ Number \subseteq Nat
  BY BoundAssumption DEF Header, Number
<1>2. U64 - 1 \notin DOMAIN header
  BY BoundAssumption DEF TypeOK, Number
<1>3. h = Genesis \/ ParentNumber(h) \in DOMAIN header
  BY DEF validate_adjacent_block_header
<1> QED
  BY <1>1, <1>2, <1>3 DEF ParentNumber

LEMMA InitStore == Init => StoreInv
<1> SUFFICES ASSUME Init PROVE StoreInv
  OBVIOUS
<1>1. 0 \in Number
  BY BoundAssumption DEF Number
<1>2. TypeOK
  BY <1>1, GenesisIsHeader DEF Init, TypeOK, Section, Result, AnyHash
<1>3. Contiguous
  <2>1. DOMAIN header = 0 .. 0
    BY DEF Init
  <2> QED
    BY <1>1, <2>1, GenesisIsHeader DEF Init, Contiguous
<1> QED
  BY <1>2, <1>3 DEF Init, StoreInv, ParentStored

(* Inserting under its own number a header whose parent number is stored,  *)
(* or the genesis header, leaves the table without gaps.                   *)
LEMMA InsertContiguous ==
  ASSUME Contiguous, NEW h \in Header,
         h = Genesis \/ h.number - 1 \in DOMAIN header,
         header' = Insert(header, h.number, h)
  PROVE  Contiguous' /\ DOMAIN header \subseteq DOMAIN header'
<1>1. PICK k \in Number : DOMAIN header = 0 .. k
  BY DEF Contiguous
<1>2. k \in Nat /\ h.number \in Number /\ Number \subseteq Nat
  BY BoundAssumption DEF Number, Header
<1>3. DOMAIN header' = DOMAIN header \cup {h.number}
  BY DEF Insert
<1>4. \A n \in DOMAIN header' : header'[n] = IF n = h.number THEN h ELSE header[n]
  BY <1>3 DEF Insert
<1>5. \E m \in Number : DOMAIN header' = 0 .. m
  <2>1. CASE h = Genesis
    BY <1>1, <1>2, <1>3, <2>1, GenesisIsHeader
  <2>2. CASE h.number - 1 \in DOMAIN header /\ h.number = k + 1
    <3>1. 0 .. k + 1 = (0 .. k) \cup {k + 1}
      BY <1>2
    <3> QED
      BY <1>1, <1>2, <1>3, <2>2, <3>1
  <2>3. CASE h.number - 1 \in DOMAIN header /\ h.number # k + 1
    <3>1. h.number \in 0 .. k
      <4>1. h.number - 1 \in 0 .. k /\ h.number \in Nat
        BY <1>1, <1>2, <2>3
      <4> QED
        BY <1>2, <2>3, <4>1
    <3> QED
      BY <1>1, <1>3, <3>1
  <2> QED
    BY <2>1, <2>2, <2>3
<1>6. \A n \in DOMAIN header' : header'[n].number = n
  BY <1>3, <1>4 DEF Contiguous
<1>7. header'[0] = Genesis
  <2>1. 0 \in DOMAIN header'
    BY <1>1, <1>2, <1>3
  <2>2. h.number = 0 => h = Genesis
    BY <1>1, <1>2
  <2> QED
    BY <1>4, <2>1, <2>2 DEF Contiguous
<1> QED
  BY <1>3, <1>5, <1>6, <1>7 DEF Contiguous

(* A new call takes a header and starts before its validation.             *)
LEMMA CallStore ==
  ASSUME StoreInv, NEW t \in Task, NEW h \in Header, Call(t, h),
         UNCHANGED <<header, hash, oldTip, world, remoteTip, mining>>
  PROVE  StoreInv'
<1>1. TypeOK'
  BY DEF StoreInv, TypeOK, Call, Section, Result, Header, Number, AnyHash
<1>2. Contiguous'
  BY DEF StoreInv, Contiguous
<1>3. ParentStored'
  BY DEF StoreInv, TypeOK, ParentStored, Call
<1> QED
  BY <1>1, <1>2, <1>3 DEF StoreInv

(* A section that writes no table keeps what the table is about.           *)
LEMMA ReturnStore ==
  ASSUME StoreInv, NEW t \in Task, NEW r \in Result, Return(t, r),
         UNCHANGED <<header, hash, arg, oldTip, world, remoteTip, mining>>
  PROVE  StoreInv'
<1>1. TypeOK'
  BY DEF StoreInv, TypeOK, Return, Section, Header, Number, AnyHash
<1>2. Contiguous'
  BY DEF StoreInv, Contiguous
<1>3. ParentStored'
  BY DEF StoreInv, TypeOK, ParentStored, Return
<1> QED
  BY <1>1, <1>2, <1>3 DEF StoreInv

LEMMA NextStore == StoreInv /\ [Next]_vars => StoreInv'
<1> SUFFICES ASSUME StoreInv, [Next]_vars PROVE StoreInv'
  OBVIOUS
<1>0. TypeOK /\ Contiguous /\ ParentStored
  BY DEF StoreInv
<1>1. ASSUME NEW t \in Miner, MineBlock(t) PROVE StoreInv'
  <2>1. PICK x \in FreshHash : Call(t, Child(tip, x))
    BY <1>1 DEF MineBlock
  <2>2. tip \in Header /\ tip.number + 1 \in Number
    <3>1. tip \in Header
      BY <1>0, TipOfContiguous DEF tip, TypeOK
    <3>2. tip.number \in Number /\ tip.number < MaxNumber
      BY <1>1, <3>1 DEF MineBlock, Header
    <3> QED
      BY <3>1, <3>2, BoundAssumption DEF Number
  <2>3. Child(tip, x) \in Header
    BY <2>1, <2>2 DEF Child, Header, FreshHash, AnyHash
  <2> QED
    BY <1>1, <2>1, <2>3, CallStore DEF MineBlock, Task
<1>2. ASSUME NEW t \in Importer, ImportHeader(t) PROVE StoreInv'
  <2>1. PICK h \in world \cup Stray : Call(t, h)
    BY <1>2 DEF ImportHeader
  <2>2. h \in Header
    BY <1>0, <2>1, StrayIsHeader DEF TypeOK
  <2> QED
    BY <1>2, <2>1, <2>2, CallStore DEF ImportHeader, Task
<1>3. ASSUME NEW t \in Task, Validate(t) PROVE StoreInv'
  <2>1. CASE validate_adjacent_block_header(arg[t]) = "Ok"
    <3>1. arg[t] = Genesis \/ arg[t].number - 1 \in DOMAIN header
      BY <1>0, <2>1, ValidatedParentStored DEF TypeOK
    <3>2. TypeOK'
      BY <1>0, <1>3, <2>1 DEF TypeOK, Validate, Goto, Section, Header, Number, AnyHash
    <3>3. ParentStored'
      BY <1>0, <1>3, <2>1, <3>1 DEF TypeOK, ParentStored, Validate, Goto
    <3> QED
      BY <1>0, <1>3, <3>2, <3>3 DEF Validate, Contiguous, StoreInv
  <2>2. CASE validate_adjacent_block_header(arg[t]) # "Ok"
    <3>1. validate_adjacent_block_header(arg[t]) \in Result
      BY <2>2 DEF validate_adjacent_block_header, Result
    <3> QED
      BY <1>3, <2>2, <3>1, ReturnStore DEF Validate
  <2> QED
    BY <2>1, <2>2
<1>4. ASSUME NEW t \in Task, ReadOldTip(t) PROVE StoreInv'
  <2>1. tip.number \in Number
    BY <1>0, TipOfContiguous
  <2>2. TypeOK'
    BY <1>0, <1>4, <2>1 DEF TypeOK, ReadOldTip, Goto, Section, Header, AnyHash
  <2>3. ParentStored'
    BY <1>0, <1>4 DEF TypeOK, ParentStored, ReadOldTip, Goto
  <2> QED
    BY <1>0, <1>4, <2>2, <2>3 DEF ReadOldTip, Contiguous, StoreInv
<1>5. ASSUME NEW t \in Task, Write(t) PROVE StoreInv'
  <2>1. /\ arg[t] \in Header
        /\ arg[t] = Genesis \/ arg[t].number - 1 \in DOMAIN header
    BY <1>0, <1>5 DEF TypeOK, ParentStored, Write
  <2>2. Contiguous' /\ DOMAIN header \subseteq DOMAIN header'
    BY <1>0, <1>5, <2>1, InsertContiguous DEF Write
  <2>3. TypeOK'
    <3>1. arg[t].number \in Number /\ arg[t].hash \in AnyHash
      BY <2>1 DEF Header
    <3>2. DOMAIN header' \subseteq Number /\ header' \in [DOMAIN header' -> Header]
      BY <1>0, <1>5, <2>1, <3>1 DEF TypeOK, Write, Insert
    <3>3. DOMAIN hash' \subseteq AnyHash /\ hash' \in [DOMAIN hash' -> Number]
      BY <1>0, <1>5, <3>1 DEF TypeOK, Write, Insert
    <3>4. pc' \in [Task -> Section] /\ result' \in [Task -> Result]
      BY <1>0, <1>5 DEF TypeOK, Write, Goto, Section
    <3> QED
      BY <1>0, <1>5, <2>1, <3>2, <3>3, <3>4 DEF TypeOK, Write
  <2>4. ParentStored'
    BY <1>0, <1>5, <2>1, <2>2 DEF TypeOK, ParentStored, Write, Goto
  <2> QED
    BY <2>2, <2>3, <2>4 DEF StoreInv
<1>6. ASSUME NEW t \in Task, ReadNewTip(t) PROVE StoreInv'
  BY <1>6, ReturnStore DEF ReadNewTip, Result
<1>7. ASSUME NEW t \in Task, DatabaseError(t) PROVE StoreInv'
  BY <1>7, ReturnStore DEF DatabaseError, Result
<1>8. CASE Restart
  <2>1. header' = Insert(header, Genesis.number, Genesis)
    BY <1>8, GenesisIsHeader DEF Restart
  <2>2. Contiguous'
    BY <1>0, <2>1, GenesisIsHeader, InsertContiguous
  <2>3. 0 \in Number /\ Genesis.hash \in AnyHash
    BY BoundAssumption DEF Number, AnyHash
  <2>4. DOMAIN header' \subseteq Number /\ header' \in [DOMAIN header' -> Header]
    BY <1>0, <1>8, <2>3, GenesisIsHeader DEF TypeOK, Restart, Insert
  <2>5. DOMAIN hash' \subseteq AnyHash /\ hash' \in [DOMAIN hash' -> Number]
    BY <1>0, <1>8, <2>3 DEF TypeOK, Restart, Insert
  <2>6. TypeOK'
    BY <1>0, <1>8, <2>3, <2>4, <2>5, GenesisIsHeader DEF TypeOK, Restart, Section, Result
  <2> QED
    BY <1>8, <2>2, <2>6 DEF Restart, ParentStored, StoreInv
<1>9. CASE RemoteMine
  <2>1. PICK parent \in world, x \in FreshHash :
          /\ parent.number < MaxNumber
          /\ remoteTip' = Child(parent, x)
          /\ world' = world \cup {Child(parent, x)}
    BY <1>9 DEF RemoteMine
  <2>2. parent \in Header /\ parent.number + 1 \in Number
    BY <1>0, <2>1, BoundAssumption DEF TypeOK, Header, Number
  <2>3. Child(parent, x) \in Header
    BY <2>1, <2>2 DEF Child, Header, FreshHash, AnyHash
  <2>4. TypeOK'
    BY <1>0, <1>9, <2>1, <2>3 DEF TypeOK, RemoteMine
  <2> QED
    BY <1>0, <1>9, <2>4 DEF RemoteMine, Contiguous, ParentStored, StoreInv
<1>10. CASE UNCHANGED vars
  BY <1>0, <1>10 DEF vars, TypeOK, Contiguous, ParentStored, StoreInv
<1> QED
  BY <1>1, <1>2, <1>3, <1>4, <1>5, <1>6, <1>7, <1>8, <1>9, <1>10 DEF Next, TryAdd

LEMMA StoreInvariant == Spec => []StoreInv
BY InitStore, NextStore, PTL DEF Spec

(* Every table entry, argument and result has the type the code gives it,  *)
(* whoever mines and however the locked sections of the calls interleave.  *)
THEOREM TypeCorrect == Spec => []TypeOK
<1>1. StoreInv => TypeOK
  BY DEF StoreInv
<1> QED
  BY <1>1, StoreInvariant, PTL

(* Chain::try_add_block_header never leaves a gap in HEADER, never files a *)
(* header under another number and never replaces the genesis header: with *)
(* any number of tasks, of miners and of forks, and across restarts.       *)
THEOREM StoreIsContiguous == Spec => []Contiguous
<1>1. StoreInv => Contiguous
  BY DEF StoreInv
<1> QED
  BY <1>1, StoreInvariant, PTL
=============================================================================
