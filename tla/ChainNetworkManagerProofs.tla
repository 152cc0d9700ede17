---------------------- MODULE ChainNetworkManagerProofs ----------------------
(***************************************************************************)
(* What holds of ChainNetworkManager for every set of peers, every set of  *)
(* foreign headers, every batch size, every height of the chain and any    *)
(* number of faults, on a node that mines and on one that does not.        *)
(***************************************************************************)
EXTENDS ChainNetworkManager, FiniteSetTheorems, TLAPS

(* TypeOK without its Boolean.                                             *)
ValuesOK ==
  /\ tip \in Number
  /\ closest_peers_request_for_sync \in Number \cup {NoTarget}
  /\ sync_requests \subseteq [peer : Peer, local : Number, target : Number, copy : Nat]
  /\ broadcast_requests \in Nat
  /\ broadcasted_headers \subseteq Header
  /\ broadcasts \in Nat
  /\ startTip \in Number
  /\ mining \in Deployments
  /\ networkTip \in Number
  /\ faults \in 0 .. MaxFaults

FlagOK == pending_sync_request \in BOOLEAN

(* The set of hashes is finite, so that its size counts it.                *)
RecordsFinite == IsFiniteSet(broadcasted_headers)

(* The local chain is a part of the network's; on the node that mines, all *)
(* of it.                                                                  *)
TipMined == tip <= networkTip /\ (mining = "local" => tip = networkTip)

(* As long as the network behaves, no sync aims above its chain.           *)
TargetsMined ==
  faults = 0 => /\ closest_peers_request_for_sync <= networkTip
                /\ \A s \in sync_requests : s.target <= networkTip

Inv ==
  /\ ValuesOK /\ FlagOK
  /\ RecordsFinite /\ EchoIsBounded
  /\ TipMined /\ DownloadsAttach
  /\ TargetsMined /\ PendingIsOwned

----------------------------------------------------------------------------
(* Lemmas.                                                                 *)

LEMMA Numbers ==
  /\ \A n \in Number : n \in Nat /\ n <= MaxNumber
  /\ \A n \in Nat : n <= MaxNumber => n \in Number
BY BoundAssumption DEF Number

LEMMA Headers ==
  /\ \A h \in Header : h.number \in Number
  /\ \A n \in Number : n > 0 => Mined(n) \in Header
<1>1. \A h \in Header : h.number \in 0 .. MaxNumber
  <2>1. \A n \in 1 .. MaxNumber : n \in 0 .. MaxNumber
    BY BoundAssumption
  <2> QED
    BY <2>1, ForeignAssumption, Zenon DEF Header
<1>2. \A n \in 1 .. MaxNumber : Mined(n) \in Header
  BY DEF Header, Mined
<1> QED
  BY <1>1, <1>2, BoundAssumption DEF Number

(* The size of the record of broadcasts when a header is added to it.      *)
LEMMA RecordGrows ==
  ASSUME RecordsFinite, NEW h, h \notin broadcasted_headers,
         broadcasted_headers' = broadcasted_headers \cup {h}
  PROVE  /\ RecordsFinite'
         /\ Cardinality(broadcasted_headers) \in Nat
         /\ Cardinality(broadcasted_headers)' = Cardinality(broadcasted_headers) + 1
BY FS_AddElement, FS_CardinalityType DEF RecordsFinite

LEMMA RecordSize == RecordsFinite => Cardinality(broadcasted_headers) \in Nat
BY FS_CardinalityType DEF RecordsFinite

(* A step back from the end by whole batches stays inside the download.    *)
LEMMA WholeBatches ==
  ASSUME NEW x \in Nat, NEW L \in Nat \ {0}, NEW k \in 0 .. x \div L
  PROVE  k * L <= x
<1>1. (x \div L) \in Nat /\ (x \div L) * L <= x
  OBVIOUS
<1>2. k * L <= (x \div L) * L
  BY <1>1
<1> QED
  BY <1>1, <1>2

(* A peer that holds the target has something of every batch.              *)
LEMMA MinedIsCovered ==
  ASSUME NEW s \in [peer : Peer, local : Number, target : Number, copy : Nat],
         NEW available \in Number, s.local < s.target, s.target <= available
  PROVE  Covers(available, s)
<1>1. s.local \in Nat /\ s.target \in Nat /\ available \in Nat
  BY Numbers
<1> DEFINE x == s.target - s.local - 1
<1>2. x \in Nat
  BY <1>1
<1>3. ASSUME NEW k \in 0 .. x \div RequestLimit
      PROVE  s.local + 1 + k * RequestLimit <= available
  <2>1. k * RequestLimit <= x
    BY <1>2, LimitAssumption, WholeBatches
  <2>2. k * RequestLimit \in Int
    BY LimitAssumption
  <2> QED
    BY <1>1, <2>1, <2>2
<1> QED
  BY <1>3 DEF Covers, Starts

(* What a finished download leaves of the tip.                             *)
LEMMA TipAfterNumber ==
  ASSUME ValuesOK, NEW first \in Int, NEW last \in Int, last <= MaxNumber
  PROVE  TipAfter(first, last) \in Number /\ TipAfter(first, last) >= tip
BY BoundAssumption DEF ValuesOK, TipAfter, Number

----------------------------------------------------------------------------
(* The handlers.                                                           *)

LEMMA ChainInit == Init => Inv
<1> SUFFICES ASSUME Init
             PROVE  Inv
  OBVIOUS
<1>1. ValuesOK
  BY BoundAssumption DEF Init, ValuesOK, Number, NoTarget
<1>2. FlagOK
  BY Zenon DEF Init, FlagOK
<1>3. DownloadsAttach /\ TargetsMined /\ TipMined
  BY DEF Init, DownloadsAttach, TargetsMined, NoTarget, TipMined
<1>4. PendingIsOwned
  BY DEF Init, PendingIsOwned, Stuck
<1>5. RecordsFinite /\ EchoIsBounded
  BY FS_EmptySet DEF Init, RecordsFinite, EchoIsBounded
<1> QED
  BY <1>1, <1>2, <1>3, <1>4, <1>5 DEF Inv

(* A header of the chain extends the tip: the header itself, or the miner  *)
(* while it was added.  The chain is one longer after one broadcast.       *)
LEMMA ExtendStep ==
  ASSUME Inv, NEW h \in Header, NEW later \in {tip, tip + 1}, AddAndBroadcast(h, later),
         \/ later = tip /\ UNCHANGED network /\ h.number <= networkTip
         \/ later = tip + 1 /\ mining = "local" /\ Commit /\ h.number <= networkTip
  PROVE  Inv'
<1>1. /\ h.ours /\ h.number <= tip + 1 /\ (h.number > tip \/ later > tip)
      /\ tip' = IF h.number > later THEN h.number ELSE later
      /\ broadcast_requests' = broadcast_requests + 1
      /\ broadcasts' = broadcasts + 1
      /\ UNCHANGED <<pending_sync_request, closest_peers_request_for_sync, sync_requests,
                     broadcasted_headers, startTip>>
  <2>1. try_add_block_header(h, later) = "ExtendTip"
    BY DEF AddAndBroadcast
  <2>2. h.ours /\ ~(h.number > tip + 1) /\ (h.number > tip \/ later > tip)
    BY <2>1 DEF try_add_block_header
  <2>3. tip \in Nat /\ h.number \in Nat
    BY Headers, Numbers DEF Inv, ValuesOK
  <2> QED
    BY <2>2, <2>3 DEF AddAndBroadcast, Broadcast
<1>2. /\ tip \in Nat /\ networkTip \in Nat /\ h.number \in Nat
      /\ networkTip <= MaxNumber /\ tip <= networkTip
      /\ mining = "local" => tip = networkTip
  BY Headers, Numbers DEF Inv, ValuesOK, TipMined
<1>3. tip' = tip + 1
  BY <1>1, <1>2
<1>4. /\ tip' <= networkTip' /\ (mining = "local" => tip' = networkTip')
      /\ networkTip' <= MaxNumber
      /\ networkTip' \in {networkTip, networkTip + 1} /\ faults' = faults
      /\ mining' = mining
  <2>1. CASE later = tip /\ UNCHANGED network /\ h.number <= networkTip
    BY <1>1, <1>2, <1>3, <2>1 DEF network
  <2>2. CASE later = tip + 1 /\ mining = "local" /\ Commit
    BY <1>2, <1>3, <2>2, BoundAssumption DEF Commit
  <2> QED
    BY <2>1, <2>2
<1>5. ValuesOK'
  BY <1>1, <1>2, <1>3, <1>4, BoundAssumption DEF Inv, ValuesOK, Number
<1>6. FlagOK'
  BY <1>1 DEF Inv, FlagOK
<1>7. TipMined'
  BY <1>4 DEF TipMined
<1>8. DownloadsAttach'
  <2>1. \A d \in sync_requests : d.local \in Nat
    BY Numbers DEF Inv, ValuesOK
  <2> QED
    BY <1>1, <1>2, <1>3, <2>1 DEF Inv, DownloadsAttach
<1>9. TargetsMined'
  <2>1. /\ closest_peers_request_for_sync \in Int
        /\ \A d \in sync_requests : d.target \in Nat
    BY Numbers DEF Inv, ValuesOK, NoTarget
  <2> QED
    BY <1>1, <1>2, <1>4, <2>1 DEF Inv, TargetsMined
<1>10. PendingIsOwned'
  BY <1>1, <1>4 DEF Inv, PendingIsOwned, Stuck
<1>11. RecordsFinite' /\ EchoIsBounded'
  <2>1. /\ Cardinality(broadcasted_headers) \in Nat
        /\ Cardinality(broadcasted_headers)' = Cardinality(broadcasted_headers)
    BY <1>1, RecordSize DEF Inv
  <2>2. startTip \in Nat /\ broadcasts \in Nat
    BY Numbers DEF Inv, ValuesOK
  <2> QED
    BY <1>1, <1>2, <1>3, <2>1, <2>2 DEF Inv, RecordsFinite, EchoIsBounded
<1> QED
  BY <1>5, <1>6, <1>7, <1>8, <1>9, <1>10, <1>11 DEF Inv

(* A header announced: mined by the network, or foreign and a fault.       *)
LEMMA OnEventStep ==
  ASSUME Inv, NEW h \in Header, on_event(h), UNCHANGED <<mining, networkTip>>,
         \/ faults' = faults /\ h.number <= networkTip
         \/ ~h.ours /\ faults < MaxFaults /\ faults' = faults + 1
  PROVE  Inv'
<1>1. h.number \in Number /\ h.number \in Nat
  BY Headers, Numbers
<1>2. faults' \in 0 .. MaxFaults /\ (faults' = 0 => (faults = 0 /\ h.number <= networkTip))
  BY BoundAssumption DEF Inv, ValuesOK
<1>3. CASE AddAndBroadcast(h, tip)
  <2>1. h.ours
    <3>1. try_add_block_header(h, tip) = "ExtendTip"
      BY <1>3 DEF AddAndBroadcast
    <3> QED
      BY <3>1 DEF try_add_block_header
  <2> QED
    BY <1>3, <2>1, ExtendStep DEF network
<1>4. CASE BroadcastAndSync(h)
  <2>1. /\ tip' = tip /\ sync_requests' = sync_requests
        /\ BroadcastUnvalidated(h) /\ RequestPeers(h)
    BY <1>4 DEF BroadcastAndSync
  <2>2. /\ broadcast_requests' \in Nat /\ broadcasted_headers' \subseteq Header
        /\ broadcasts' \in Nat /\ startTip' = startTip
    BY <2>1 DEF BroadcastUnvalidated, Broadcast, Inv, ValuesOK, history
  <2>3. \/ /\ pending_sync_request' = pending_sync_request
           /\ closest_peers_request_for_sync' = closest_peers_request_for_sync
        \/ /\ pending_sync_request' = TRUE
           /\ closest_peers_request_for_sync' = h.number
    BY <2>1 DEF RequestPeers
  <2>4. ValuesOK'
    BY <1>1, <1>2, <2>1, <2>2, <2>3 DEF Inv, ValuesOK
  <2>5. FlagOK'
    BY <2>3, Zenon DEF Inv, FlagOK
  <2>6. DownloadsAttach' /\ TipMined'
    BY <2>1 DEF Inv, DownloadsAttach, TipMined
  <2>7. TargetsMined'
    BY <1>2, <2>1, <2>3 DEF Inv, TargetsMined
  <2>8. PendingIsOwned'
    BY <1>1, <1>2, <2>1, <2>3 DEF Inv, PendingIsOwned, Stuck, NoTarget
  <2>9. RecordsFinite' /\ EchoIsBounded'
    <3>1. CASE h \in broadcasted_headers
      BY <2>1, <3>1 DEF BroadcastUnvalidated, history, Inv, RecordsFinite, EchoIsBounded
    <3>2. CASE h \notin broadcasted_headers
      <4>1. /\ broadcasts' = broadcasts + 1
            /\ broadcasted_headers' = broadcasted_headers \cup {h}
        BY <2>1, <3>2 DEF BroadcastUnvalidated, Broadcast
      <4>2. /\ RecordsFinite'
            /\ Cardinality(broadcasted_headers) \in Nat
            /\ Cardinality(broadcasted_headers)' = Cardinality(broadcasted_headers) + 1
        BY <3>2, <4>1, RecordGrows DEF Inv
      <4>3. tip \in Nat /\ startTip \in Nat /\ broadcasts \in Nat
        BY Numbers DEF Inv, ValuesOK
      <4> QED
        BY <2>1, <2>2, <4>1, <4>2, <4>3 DEF Inv, EchoIsBounded
    <3> QED
      BY <3>1, <3>2
  <2> QED
    BY <2>4, <2>5, <2>6, <2>7, <2>8, <2>9 DEF Inv
<1>5. CASE Ignore(h)
  BY <1>2, <1>5 DEF Ignore, history, Inv, ValuesOK, FlagOK, RecordsFinite, EchoIsBounded,
                    TipMined, DownloadsAttach, TargetsMined, PendingIsOwned, Stuck
<1> QED
  BY <1>3, <1>4, <1>5 DEF on_event

(* The request for peers ends.                                             *)
LEMMA PeersStep ==
  ASSUME Inv, UNCHANGED <<mining, networkTip>>,
         \/ faults' = faults /\ \E peers \in (SUBSET Peer) \ {{}} : PeersFound(peers)
         \/ /\ faults < MaxFaults /\ faults' = faults + 1
            /\ PeersFound({}) \/ PeersFailed
  PROVE  Inv'
<1> DEFINE download(p, copy) ==
             [peer |-> p, local |-> tip, target |-> closest_peers_request_for_sync,
              copy |-> copy]
<1>1. PICK peers \in SUBSET Peer, copy \in Nat :
        /\ sync_requests' = sync_requests \cup {download(p, copy) : p \in peers}
        /\ faults' = faults => peers # {}
        /\ closest_peers_request_for_sync' = NoTarget
        /\ UNCHANGED <<tip, pending_sync_request, broadcast_requests, broadcasted_headers,
                       history>>
  <2>1. CASE PeersFailed /\ faults' = faults + 1
    <3>1. sync_requests' = sync_requests \cup {download(p, 0) : p \in {}}
      BY <2>1 DEF PeersFailed
    <3>2. faults' # faults
      BY <2>1 DEF Inv, ValuesOK
    <3> HIDE DEF download
    <3> QED
      BY <2>1, <3>1, <3>2 DEF PeersFailed
  <2>2. ASSUME NEW peers \in SUBSET Peer, PeersFound(peers), faults' = faults => peers # {}
        PROVE  \E ps \in SUBSET Peer, copy \in Nat :
                 /\ sync_requests' = sync_requests \cup {download(p, copy) : p \in ps}
                 /\ faults' = faults => ps # {}
                 /\ closest_peers_request_for_sync' = NoTarget
                 /\ UNCHANGED <<tip, pending_sync_request, broadcast_requests,
                                broadcasted_headers, history>>
    <3>1. /\ \E copy \in Copies :
               sync_requests' = sync_requests \cup {download(p, copy) : p \in peers}
          /\ closest_peers_request_for_sync' = NoTarget
          /\ UNCHANGED <<tip, pending_sync_request, broadcast_requests, broadcasted_headers,
                         history>>
      BY <2>2 DEF PeersFound, send_sync_requests
    <3>2. Copies \subseteq Nat
      BY DEF Copies
    <3> HIDE DEF download
    <3> QED
      BY <2>2, <3>1, <3>2, Zenon
  <2>3. CASE PeersFound({}) /\ faults' = faults + 1
    <3>1. faults' # faults
      BY <2>3 DEF Inv, ValuesOK
    <3> HIDE DEF download
    <3> QED
      BY <2>2, <2>3, <3>1
  <2>4. CASE \E peers \in (SUBSET Peer) \ {{}} : PeersFound(peers)
    <3> HIDE DEF download
    <3> QED
      BY <2>2, <2>4
  <2> QED
    BY <2>1, <2>3, <2>4
<1>2. faults' \in 0 .. MaxFaults /\ (faults' = 0 => (faults = 0 /\ faults' = faults))
  BY BoundAssumption DEF Inv, ValuesOK
<1>3. closest_peers_request_for_sync \in Number
  BY DEF PeersFound, PeersFailed, Inv, ValuesOK
<1>4. \A s \in sync_requests' :
        s \in sync_requests \/ \E p \in Peer : s = download(p, copy)
  BY <1>1
<1>5. ValuesOK' /\ FlagOK'
  BY <1>1, <1>2, <1>3, <1>4, BoundAssumption DEF Inv, ValuesOK, FlagOK, NoTarget, history
<1>6. DownloadsAttach' /\ TipMined'
  BY <1>1, <1>4, Numbers DEF Inv, ValuesOK, DownloadsAttach, TipMined
<1>7. TargetsMined'
  BY <1>1, <1>2, <1>4, Numbers DEF Inv, ValuesOK, TargetsMined, NoTarget
<1>8. PendingIsOwned'
  <2>1. faults' = 0 => sync_requests' # {}
    BY <1>1, <1>2
  <2> QED
    BY <2>1 DEF PendingIsOwned, Stuck
<1>9. RecordsFinite' /\ EchoIsBounded'
  BY <1>1 DEF Inv, RecordsFinite, EchoIsBounded, history
<1> QED
  BY <1>5, <1>6, <1>7, <1>8, <1>9 DEF Inv

(* A download ends with headers.  It clears the flag.                      *)
LEMMA SyncDoneStep ==
  ASSUME Inv, NEW s \in sync_requests, NEW last \in Int, last <= s.target, SyncDone(s, last),
         tip' <= networkTip, UNCHANGED <<mining, networkTip>>,
         faults' \in {faults, faults + 1}, faults' \in 0 .. MaxFaults
  PROVE  Inv'
<1>1. /\ tip' = TipAfter(s.local + 1, last)
      /\ pending_sync_request' = FALSE
      /\ sync_requests' \subseteq sync_requests
      /\ UNCHANGED <<closest_peers_request_for_sync, broadcast_requests, broadcasted_headers,
                     broadcasts, startTip>>
  BY DEF SyncDone, history
<1>2. s.local \in Nat /\ s.target \in Nat /\ s.target <= MaxNumber
  BY Numbers DEF Inv, ValuesOK
<1>3. s.local + 1 \in Int /\ last <= MaxNumber
  BY <1>2, BoundAssumption
<1>4. tip' \in Number /\ tip' >= tip /\ tip \in Nat /\ tip' \in Nat
  BY <1>1, <1>3, TipAfterNumber, Numbers DEF Inv, ValuesOK
<1>5. faults' = 0 => faults = 0
  BY DEF Inv, ValuesOK
<1>6. ValuesOK'
  BY <1>1, <1>4 DEF Inv, ValuesOK
<1>7. FlagOK'
  BY <1>1, Zenon DEF FlagOK
<1>8. DownloadsAttach'
  <2>1. \A d \in sync_requests : d.local \in Nat
    BY Numbers DEF Inv, ValuesOK
  <2> QED
    BY <1>1, <1>4, <2>1 DEF Inv, DownloadsAttach
<1>9. TargetsMined'
  BY <1>1, <1>5 DEF Inv, TargetsMined
<1>10. PendingIsOwned'
  BY <1>1 DEF PendingIsOwned, Stuck
<1>11. TipMined'
  <2>1. networkTip \in Nat
    BY Numbers DEF Inv, ValuesOK
  <2> QED
    BY <1>4, <2>1 DEF Inv, TipMined
<1>12. RecordsFinite' /\ EchoIsBounded'
  <2>1. Cardinality(broadcasted_headers) \in Nat
    BY RecordSize DEF Inv
  <2>2. startTip \in Nat /\ broadcasts \in Nat
    BY Numbers DEF Inv, ValuesOK
  <2> QED
    BY <1>1, <1>4, <2>1, <2>2 DEF Inv, RecordsFinite, EchoIsBounded
<1> QED
  BY <1>6, <1>7, <1>8, <1>9, <1>10, <1>11, <1>12 DEF Inv

LEMMA SyncOkStep ==
  ASSUME Inv, NEW s \in sync_requests, NEW available \in 0 .. networkTip, SyncOk(s, available),
         UNCHANGED <<mining, networkTip>>,
         faults' \in {faults, faults + 1}, faults' \in 0 .. MaxFaults
  PROVE  Inv'
<1>1. /\ s.local \in Nat /\ s.target \in Nat /\ tip \in Nat /\ networkTip \in Nat
      /\ tip <= networkTip
  BY Numbers DEF Inv, ValuesOK, TipMined
<1>2. /\ Last(s, available) \in Int /\ Last(s, available) <= s.target
      /\ Last(s, available) <= networkTip
  BY <1>1 DEF Last
<1>3. SyncDone(s, Last(s, available))
  BY DEF SyncOk
<1>4. tip' <= networkTip
  BY <1>1, <1>2, <1>3 DEF SyncDone, TipAfter
<1> QED
  BY <1>2, <1>3, <1>4, SyncDoneStep

(* The header behind the gap was mined, so those before it were.           *)
LEMMA SyncGapStep ==
  ASSUME Inv, NEW s \in sync_requests, NEW last \in s.local .. s.target, SyncGap(s, last),
         UNCHANGED <<mining, networkTip>>,
         faults' \in {faults, faults + 1}, faults' \in 0 .. MaxFaults
  PROVE  Inv'
<1>1. s.local \in Nat /\ s.target \in Nat /\ s.target <= MaxNumber /\ networkTip \in Nat
  BY Numbers DEF Inv, ValuesOK
<1>2. last \in Int /\ last <= s.target /\ last <= MaxNumber
  BY <1>1, BoundAssumption
<1>3. SyncDone(s, last) /\ Covers(networkTip, s)
  BY DEF SyncGap
<1>4. PICK k \in 0 .. (s.target - s.local - 1) \div RequestLimit :
        s.local + 1 + k * RequestLimit > TipAfter(s.local + 1, last) + 1
  BY DEF SyncGap, Starts
<1>5. s.local + 1 + k * RequestLimit <= networkTip
  BY <1>3 DEF Covers, Starts
<1>6. TipAfter(s.local + 1, last) \in Nat
  <2>1. TipAfter(s.local + 1, last) \in Number
    BY <1>1, <1>2, TipAfterNumber DEF Inv
  <2> QED
    BY <2>1, Numbers
<1>7. k * RequestLimit \in Int
  BY LimitAssumption
<1>8. TipAfter(s.local + 1, last) <= networkTip
  BY <1>1, <1>4, <1>5, <1>6, <1>7
<1> QED
  BY <1>2, <1>3, <1>8, SyncDoneStep DEF SyncDone

LEMMA SyncInvalidStep ==
  ASSUME Inv, NEW s \in sync_requests, SyncInvalid(s),
         UNCHANGED <<mining, networkTip>>,
         faults' \in {faults, faults + 1}, faults' \in 0 .. MaxFaults
  PROVE  Inv'
<1>1. /\ s.local \in Nat /\ s.target \in Nat /\ tip \in Nat /\ networkTip \in Nat
      /\ tip <= networkTip /\ s.local <= tip
  BY Numbers DEF Inv, ValuesOK, TipMined, DownloadsAttach
<1>2. s.local < s.target /\ SyncDone(s, s.local)
  BY DEF SyncInvalid
<1>3. tip' <= networkTip
  BY <1>1, <1>2 DEF SyncDone, TipAfter
<1> QED
  BY <1>1, <1>2, <1>3, SyncDoneStep

(* A download fails, which only a network that misbehaved can cause: the   *)
(* flag may stay set for ever.                                             *)
LEMMA SyncErrStep ==
  ASSUME Inv, NEW s \in sync_requests, SyncErr(s), UNCHANGED <<mining, networkTip>>,
         \/ faults' = faults /\ ~Covers(networkTip, s)
         \/ faults < MaxFaults /\ faults' = faults + 1
  PROVE  Inv'
<1>1. /\ s.local < s.target
      /\ sync_requests' \subseteq sync_requests
      /\ UNCHANGED <<tip, pending_sync_request, closest_peers_request_for_sync,
                     broadcast_requests, broadcasted_headers, broadcasts, startTip>>
  BY DEF SyncErr, history
<1>2. faults' \in 0 .. MaxFaults /\ faults' # 0
  <2>1. CASE faults' = faults
    <3>1. faults' = faults /\ ~Covers(networkTip, s)
      BY <2>1 DEF Inv, ValuesOK
    <3>2. ~(s.target <= networkTip)
      BY <1>1, <3>1, MinedIsCovered DEF Inv, ValuesOK
    <3> QED
      BY <3>1, <3>2 DEF Inv, ValuesOK, TargetsMined
  <2>2. CASE faults < MaxFaults /\ faults' = faults + 1
    BY <2>2, BoundAssumption DEF Inv, ValuesOK
  <2> QED
    BY <2>1, <2>2
<1> QED
  BY <1>1, <1>2 DEF Inv, ValuesOK, FlagOK, RecordsFinite, EchoIsBounded, TipMined,
                    DownloadsAttach, TargetsMined, PendingIsOwned

LEMMA BroadcastDoneStep ==
  ASSUME Inv, BroadcastDone, UNCHANGED network
  PROVE  Inv'
BY DEF BroadcastDone, network, history, Inv, ValuesOK, FlagOK, RecordsFinite, EchoIsBounded,
       TipMined, DownloadsAttach, TargetsMined, PendingIsOwned, Stuck

LEMMA MineStep ==
  ASSUME Inv, Mine
  PROVE  Inv'
<1>1. /\ networkTip < MaxNumber /\ networkTip' = networkTip + 1
      /\ tip' = IF mining = "local" THEN tip + 1 ELSE tip
      /\ UNCHANGED <<pending_sync_request, closest_peers_request_for_sync, sync_requests,
                     broadcast_requests, broadcasted_headers, broadcasts, startTip, mining,
                     faults>>
  BY DEF Mine, Commit, history
<1>2. /\ tip \in Nat /\ networkTip \in Nat /\ tip <= networkTip
      /\ mining = "local" => tip = networkTip
  BY Numbers DEF Inv, ValuesOK, TipMined
<1>3. /\ tip' \in Number /\ networkTip' \in Number /\ tip' >= tip
      /\ tip' <= networkTip' /\ (mining = "local" => tip' = networkTip')
  BY <1>1, <1>2, BoundAssumption DEF Number
<1>4. ValuesOK' /\ FlagOK' /\ TipMined' /\ PendingIsOwned'
  BY <1>1, <1>3 DEF Inv, ValuesOK, FlagOK, TipMined, PendingIsOwned, Stuck
<1>5. TargetsMined' /\ DownloadsAttach'
  <2>1. /\ closest_peers_request_for_sync \in Int
        /\ \A s \in sync_requests : s.target \in Nat /\ s.local \in Nat
        /\ tip' \in Nat
    BY <1>3, Numbers DEF Inv, ValuesOK, NoTarget
  <2> QED
    BY <1>1, <1>2, <1>3, <2>1 DEF Inv, TargetsMined, DownloadsAttach
<1>6. RecordsFinite' /\ EchoIsBounded'
  <2>1. /\ Cardinality(broadcasted_headers) \in Nat
        /\ startTip \in Nat /\ broadcasts \in Nat /\ tip' \in Nat
    BY <1>3, RecordSize, Numbers DEF Inv, ValuesOK
  <2> QED
    BY <1>1, <1>2, <1>3, <2>1 DEF Inv, RecordsFinite, EchoIsBounded
<1> QED
  BY <1>4, <1>5, <1>6 DEF Inv

LEMMA RestartStep ==
  ASSUME Inv, Restart
  PROVE  Inv'
<1>1. /\ pending_sync_request' = FALSE /\ closest_peers_request_for_sync' = NoTarget
      /\ sync_requests' = {} /\ broadcast_requests' = 0 /\ broadcasted_headers' = {}
      /\ broadcasts' = 0 /\ startTip' = tip /\ tip' = tip
      /\ UNCHANGED <<mining, networkTip>>
      /\ faults < MaxFaults /\ faults' = faults + 1
  BY DEF Restart, Fault
<1>2. faults' \in 0 .. MaxFaults /\ faults' # 0
  BY <1>1, BoundAssumption DEF Inv, ValuesOK
<1>3. ValuesOK'
  BY <1>1, <1>2, BoundAssumption DEF Inv, ValuesOK, Number
<1>4. FlagOK'
  BY <1>1, Zenon DEF FlagOK
<1>5. DownloadsAttach' /\ TargetsMined' /\ PendingIsOwned' /\ TipMined'
  BY <1>1, <1>2 DEF Inv, DownloadsAttach, TargetsMined, PendingIsOwned, TipMined
<1>6. RecordsFinite' /\ EchoIsBounded'
  <2>1. tip \in Nat
    BY Numbers DEF Inv, ValuesOK
  <2> QED
    BY <1>1, <2>1, FS_EmptySet DEF RecordsFinite, EchoIsBounded
<1> QED
  BY <1>3, <1>4, <1>5, <1>6 DEF Inv

LEMMA ChainNext == Inv /\ [Next]_vars => Inv'
<1> SUFFICES ASSUME Inv, [Next]_vars
             PROVE  Inv'
  OBVIOUS
<1> USE DEF network
<1>1. CASE UNCHANGED vars
  BY <1>1 DEF vars, history, Inv, ValuesOK, FlagOK, RecordsFinite, EchoIsBounded, TipMined,
              DownloadsAttach, TargetsMined, PendingIsOwned, Stuck
<1>2. CASE Mine
  BY <1>2, MineStep
<1>3. CASE \E n \in 1 .. networkTip : Announce(n) \/ AnnounceOvertaken(n)
  <2>1. PICK n \in 1 .. networkTip : Announce(n) \/ AnnounceOvertaken(n)
    BY <1>3
  <2>2. n \in Number /\ n > 0 /\ n <= networkTip
    BY BoundAssumption DEF Inv, ValuesOK, Number
  <2>3. Mined(n) \in Header /\ Mined(n).number = n
    BY <2>2, Headers DEF Mined
  <2>4. CASE Announce(n)
    BY <2>2, <2>3, <2>4, OnEventStep DEF Announce
  <2>5. CASE AnnounceOvertaken(n)
    BY <2>2, <2>3, <2>5, ExtendStep DEF AnnounceOvertaken
  <2> QED
    BY <2>1, <2>4, <2>5
<1>4. CASE FindPeers
  BY <1>4, PeersStep DEF FindPeers
<1>5. CASE \E s \in sync_requests : Download(s)
  <2>1. PICK s \in sync_requests : Download(s)
    BY <1>5
  <2>2. CASE SyncOk(s, networkTip)
    BY <2>1, <2>2, SyncOkStep, Numbers DEF Download, Inv, ValuesOK
  <2>3. CASE ~Covers(networkTip, s) /\ SyncErr(s)
    BY <2>1, <2>3, SyncErrStep DEF Download
  <2> QED
    BY <2>1, <2>2, <2>3 DEF Download
<1>6. CASE FinishBroadcast
  BY <1>6, BroadcastDoneStep DEF FinishBroadcast
<1>7. CASE Misbehave
  <2>1. CASE AnnounceForeign
    BY <2>1, OnEventStep DEF AnnounceForeign, Fault
  <2>2. CASE FindNoPeers
    BY <2>2, PeersStep DEF FindNoPeers, Fault
  <2>3. CASE DownloadPart \/ DownloadGap \/ DownloadForeign
    <3>1. PICK s \in sync_requests :
            /\ Fault
            /\ \/ \E available \in 0 .. networkTip - 1 : SyncOk(s, available)
               \/ \E last \in s.local .. s.target : SyncGap(s, last)
               \/ SyncInvalid(s)
      BY <2>3 DEF DownloadPart, DownloadGap, DownloadForeign
    <3>2. /\ faults' \in {faults, faults + 1} /\ faults' \in 0 .. MaxFaults
          /\ UNCHANGED <<mining, networkTip>>
      BY <3>1, BoundAssumption DEF Fault, Inv, ValuesOK
    <3>3. networkTip \in Nat
      BY Numbers DEF Inv, ValuesOK
    <3>4. CASE \E available \in 0 .. networkTip - 1 : SyncOk(s, available)
      BY <3>2, <3>3, <3>4, SyncOkStep
    <3>5. CASE \E last \in s.local .. s.target : SyncGap(s, last)
      BY <3>2, <3>5, SyncGapStep
    <3>6. CASE SyncInvalid(s)
      BY <3>2, <3>6, SyncInvalidStep
    <3> QED
      BY <3>1, <3>4, <3>5, <3>6
  <2>4. CASE DownloadFails
    BY <2>4, SyncErrStep DEF DownloadFails, Fault
  <2>5. CASE Restart
    BY <2>5, RestartStep
  <2> QED
    BY <1>7, <2>1, <2>2, <2>3, <2>4, <2>5 DEF Misbehave
<1> QED
  BY <1>1, <1>2, <1>3, <1>4, <1>5, <1>6, <1>7 DEF Next

----------------------------------------------------------------------------
(* Theorems.                                                               *)

LEMMA ChainInvariant == Spec => []Inv
BY ChainInit, ChainNext, PTL DEF Spec

(* No tip, target or start of a download leaves the chain's range.         *)
THEOREM ChainTypes == Spec => []TypeOK
<1>1. Inv => TypeOK
  BY DEF Inv, ValuesOK, FlagOK, TypeOK
<1> QED
  BY <1>1, ChainInvariant, PTL

(* While the network behaves, a download of any size from any tip gets     *)
(* something of every batch it asks for, so no sync ends in an error and   *)
(* leaves pending_sync_request set.                                        *)
THEOREM FlagIsOwned == Spec => []PendingIsOwned
<1>1. Inv => PendingIsOwned
  BY DEF Inv
<1> QED
  BY <1>1, ChainInvariant, PTL

(* No header, download, fault or restart lowers the tip, so a download in  *)
(* progress finds the parent of its first header.                          *)
THEOREM FirstHeaderAttaches == Spec => []DownloadsAttach
<1>1. Inv => DownloadsAttach
  BY DEF Inv
<1> QED
  BY <1>1, ChainInvariant, PTL

(* Headers may come back from any peer any number of times, and the miner  *)
(* may move the tip while one is added: what a manager broadcasts is paid  *)
(* for by a longer chain or by a new entry of broadcasted_headers.         *)
THEOREM EchoesArePaidFor == Spec => []EchoIsBounded
<1>1. Inv => EchoIsBounded
  BY DEF Inv
<1> QED
  BY <1>1, ChainInvariant, PTL
=============================================================================
