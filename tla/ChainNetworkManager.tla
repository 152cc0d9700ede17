------------------------ MODULE ChainNetworkManager ------------------------
(***************************************************************************)
(* How a node follows the network: ChainNetworkManager of                  *)
(* src/src/net/chain.rs, from a header another node announces to the       *)
(* headers added to the local chain and the broadcasts sent on the way.    *)
(*                                                                         *)
(* The manager is one task.  Its poll handles announced headers, then the  *)
(* outcome of the request for the closest peers, then the outcomes of the  *)
(* downloads, then those of the broadcasts; each is a step here, and since *)
(* the other tasks add to all four while the poll runs, they are taken in  *)
(* any order.  The local chain is the append-only chain that BlockTree     *)
(* implements, and only its tip matters.  A download is a future of        *)
(* SyncHeader: it returns an error, or the headers of its batches, of each *)
(* batch as many as the peer had when it was asked, in the order the       *)
(* batches completed.                                                      *)
(*                                                                         *)
(* The network mines one chain, and one node mines it: this one or         *)
(* another.  A header is its number and whether it belongs to that chain.  *)
(***************************************************************************)
EXTENDS Integers, FiniteSets

CONSTANTS
  Peer,          \* the peers a closest-peers request can return
  Foreign,       \* the numbers of headers announced from another network
  RequestLimit,  \* the headers in one batch of a download
  Deployments,   \* where the miner runs: some of "local", "remote"
  MaxNumber,     \* bound: the height of the network's chain
  MaxFaults      \* bound: how often the network misbehaves

ASSUME PeerAssumption  == IsFiniteSet(Peer) /\ Peer # {}
ASSUME LimitAssumption == RequestLimit \in Nat \ {0}
ASSUME BoundAssumption == MaxNumber \in Nat \ {0} /\ MaxFaults \in Nat
ASSUME DeployAssumption == Deployments \subseteq {"local", "remote"}
ASSUME ForeignAssumption == Foreign \subseteq 0 .. MaxNumber

Number == 0 .. MaxNumber
Header == [number : 1 .. MaxNumber, ours : {TRUE}] \cup [number : Foreign, ours : {FALSE}]
NoTarget == -1  \* closest_peers_request_for_sync is None

VARIABLES
  tip,                             \* the number of the local tip
  pending_sync_request,
  closest_peers_request_for_sync,  \* the number of the header to sync to
  sync_requests,                   \* the downloads in progress
  broadcast_requests,              \* how many broadcasts are in progress
  broadcasted_headers,             \* headers broadcast without validation
  broadcasts,                      \* the broadcasts since the start
  startTip,                        \* the tip at the start of the manager
  mining,                          \* where the miner runs
  networkTip,                      \* the height of the network's chain
  faults                           \* how often the network misbehaved

history == <<broadcasts, startTip>>

vars == <<tip, pending_sync_request, closest_peers_request_for_sync, sync_requests,
          broadcast_requests, broadcasted_headers, history, mining, networkTip, faults>>

network == <<mining, networkTip, faults>>

----------------------------------------------------------------------------
(* Announced headers.                                                      *)

(* Chain::try_add_block_header.  The tip is read before the insertion and  *)
(* after it; meanwhile the node's own miner may have moved it from tip to  *)
(* later.  Number 0 of another network has no parent either: 0 - 1 wraps.  *)
try_add_block_header(h, later) ==
  IF h.number > tip + 1 \/ (h.number = 0 /\ ~h.ours) THEN "BlockHeaderNotFound"
  ELSE IF ~h.ours THEN "Invalid"
  ELSE IF h.number > tip \/ later > tip THEN "ExtendTip" ELSE "AlreadyInChain"

Broadcast ==
  /\ broadcast_requests' = broadcast_requests + 1
  /\ broadcasts' = broadcasts + 1
  /\ UNCHANGED startTip

AddAndBroadcast(h, later) ==
  /\ try_add_block_header(h, later) = "ExtendTip"
  /\ tip' = IF h.number > later THEN h.number ELSE later
  /\ Broadcast
  /\ UNCHANGED <<pending_sync_request, closest_peers_request_for_sync, sync_requests,
                 broadcasted_headers>>

BroadcastUnvalidated_Always(h) ==
  Broadcast /\ broadcasted_headers' = broadcasted_headers \cup {h}

BroadcastUnvalidated(h) ==
  IF h \in broadcasted_headers
  THEN UNCHANGED <<broadcast_requests, history, broadcasted_headers>>
  ELSE Broadcast /\ broadcasted_headers' = broadcasted_headers \cup {h}

(* At most one request for peers, and none before its downloads are done.  *)
RequestPeers(h) ==
  IF closest_peers_request_for_sync = NoTarget /\ ~pending_sync_request
  THEN /\ pending_sync_request' = TRUE
       /\ closest_peers_request_for_sync' = h.number
  ELSE UNCHANGED <<pending_sync_request, closest_peers_request_for_sync>>

BroadcastAndSync(h) ==
  /\ try_add_block_header(h, tip) = "BlockHeaderNotFound"
  /\ BroadcastUnvalidated(h)
  /\ RequestPeers(h)
  /\ UNCHANGED <<tip, sync_requests>>

Ignore(h) ==
  /\ try_add_block_header(h, tip) \in {"AlreadyInChain", "Invalid"}
  /\ UNCHANGED <<tip, pending_sync_request, closest_peers_request_for_sync, sync_requests,
                 broadcast_requests, broadcasted_headers, history>>

on_event(h) == AddAndBroadcast(h, tip) \/ BroadcastAndSync(h) \/ Ignore(h)

----------------------------------------------------------------------------
(* The rest of the poll.                                                   *)

(* How many downloads from a tip to a target are in progress with a peer   *)
(* is told by their copies: two that are otherwise the same stay apart.    *)
FreshCopy(local, target, copy) ==
  \A s \in sync_requests : s.local = local /\ s.target = target => s.copy # copy

Copies == 0 .. Cardinality(sync_requests)

send_sync_requests_FromTarget(target, peers) ==
  \E copy \in Copies :
    /\ FreshCopy(target - 1, target, copy)
    /\ sync_requests' = sync_requests \cup
         {[peer |-> p, local |-> target - 1, target |-> target, copy |-> copy] : p \in peers}

(* One download per peer, from the tip of this moment.                     *)
send_sync_requests(target, peers) ==
  \E copy \in Copies :
    /\ FreshCopy(tip, target, copy)
    /\ \A c \in Copies : c < copy => ~FreshCopy(tip, target, c)
    /\ sync_requests' = sync_requests \cup
         {[peer |-> p, local |-> tip, target |-> target, copy |-> copy] : p \in peers}

(* The request for peers is answered; no peer at all is an answer too.     *)
PeersFound(peers) ==
  /\ closest_peers_request_for_sync # NoTarget
  /\ send_sync_requests(closest_peers_request_for_sync, peers)
  /\ closest_peers_request_for_sync' = NoTarget
  /\ UNCHANGED <<tip, pending_sync_request, broadcast_requests, broadcasted_headers, history>>

(* The request for peers fails: a warning.                                 *)
PeersFailed ==
  /\ closest_peers_request_for_sync # NoTarget
  /\ closest_peers_request_for_sync' = NoTarget
  /\ UNCHANGED <<tip, pending_sync_request, sync_requests, broadcast_requests,
                 broadcasted_headers, history>>

TipAfter_OnePast(first, last) ==
  IF first > tip + 1 \/ last < tip THEN tip ELSE last + 1

(* Inserting the headers first .. last one by one, up to one without       *)
(* parent, into a table whose last key is tip.                             *)
TipAfter(first, last) ==
  IF first > tip + 1 THEN tip ELSE IF last > tip THEN last ELSE tip

Last(s, available) == IF s.target < available THEN s.target ELSE available

(* The first numbers of the batches of a download; none when nothing was   *)
(* missing.                                                                *)
Starts(s) ==
  {s.local + 1 + k * RequestLimit : k \in 0 .. (s.target - s.local - 1) \div RequestLimit}

(* The response to no batch is empty.                                      *)
Covers(available, s) == \A first \in Starts(s) : first <= available

SyncDone(s, last) ==
  /\ tip' = TipAfter(s.local + 1, last)
  /\ pending_sync_request' = FALSE
  /\ sync_requests' = sync_requests \ {s}
  /\ UNCHANGED <<closest_peers_request_for_sync, broadcast_requests, broadcasted_headers, history>>

SyncOk_FlagKept(s, available) ==
  /\ Covers(available, s)
  /\ tip' = TipAfter(s.local + 1, Last(s, available))
  /\ sync_requests' = sync_requests \ {s}
  /\ UNCHANGED <<pending_sync_request, closest_peers_request_for_sync, broadcast_requests,
                 broadcasted_headers, history>>

(* A download returns the headers its peer has in order, or nothing was    *)
(* missing.                                                                *)
SyncOk(s, available) ==
  /\ Covers(available, s)
  /\ SyncDone(s, Last(s, available))

(* A download returns a batch whose first header has no parent when its    *)
(* turn comes: an earlier batch is short, as the peer had no more at that  *)
(* time, or completed later.  Header, and all that follow, are dropped.    *)
SyncGap(s, last) ==
  /\ Covers(networkTip, s)
  /\ \E first \in Starts(s) : first > TipAfter(s.local + 1, last) + 1
  /\ SyncDone(s, last)

(* A download returns headers of another network: the parent of the first  *)
(* is another header.                                                      *)
SyncInvalid(s) ==
  /\ s.local < s.target
  /\ SyncDone(s, s.local)

(* It returns an error: a warning.                                         *)
SyncErr(s) ==
  /\ s.local < s.target
  /\ sync_requests' = sync_requests \ {s}
  /\ UNCHANGED <<tip, pending_sync_request, closest_peers_request_for_sync,
                 broadcast_requests, broadcasted_headers, history>>

(* A broadcast completes; a failure is a warning.                          *)
BroadcastDone ==
  /\ broadcast_requests > 0
  /\ broadcast_requests' = broadcast_requests - 1
  /\ UNCHANGED <<tip, pending_sync_request, closest_peers_request_for_sync, sync_requests,
                 broadcasted_headers, history>>

----------------------------------------------------------------------------
(* The network, well-behaved.                                              *)

Mined(n) == [number |-> n, ours |-> TRUE]

Commit ==
  /\ networkTip < MaxNumber
  /\ networkTip' = networkTip + 1
  /\ UNCHANGED <<mining, faults>>

(* On the node that mines, every block is in the local chain first.        *)
Mine ==
  /\ Commit
  /\ tip' = IF mining = "local" THEN tip + 1 ELSE tip
  /\ UNCHANGED <<pending_sync_request, closest_peers_request_for_sync, sync_requests,
                 broadcast_requests, broadcasted_headers, history>>

Announce(n) == on_event(Mined(n)) /\ UNCHANGED network

(* The miner of this node commits while an announced header is added.      *)
AnnounceOvertaken(n) ==
  mining = "local" /\ Commit /\ AddAndBroadcast(Mined(n), tip + 1)

AnnounceNewest == networkTip > 0 /\ Announce(networkTip)

FindPeers ==
  \E peers \in (SUBSET Peer) \ {{}} : PeersFound(peers) /\ UNCHANGED network

(* The peer holds every header mined so far.  After a foreign header that  *)
(* may be none of a batch asked for, and the empty response is an error.   *)
Download(s) ==
  /\ \/ SyncOk(s, networkTip)
     \/ ~Covers(networkTip, s) /\ SyncErr(s)
  /\ UNCHANGED network

FinishBroadcast == BroadcastDone /\ UNCHANGED network

(* The network, misbehaving, at most MaxFaults times.                      *)

Fault ==
  /\ faults < MaxFaults
  /\ faults' = faults + 1
  /\ UNCHANGED <<mining, networkTip>>

AnnounceForeign == \E h \in Header : ~h.ours /\ on_event(h) /\ Fault

FindNoPeers == (PeersFound({}) \/ PeersFailed) /\ Fault

(* The peer is behind, with headers to give or with none, or unreachable.  *)
DownloadPart ==
  \E s \in sync_requests, available \in 0 .. networkTip - 1 :
    SyncOk(s, available) /\ Fault

(* The peer falls behind for a time, or batches complete out of order.     *)
DownloadGap ==
  \E s \in sync_requests : \E last \in s.local .. s.target : SyncGap(s, last) /\ Fault

(* The peer belongs to another network.                                    *)
DownloadForeign == \E s \in sync_requests : SyncInvalid(s) /\ Fault

DownloadFails == \E s \in sync_requests : SyncErr(s) /\ Fault

(* The process restarts: the chain survives, the manager starts afresh.    *)
Restart ==
  /\ pending_sync_request' = FALSE
  /\ closest_peers_request_for_sync' = NoTarget
  /\ sync_requests' = {}
  /\ broadcast_requests' = 0
  /\ broadcasted_headers' = {}
  /\ broadcasts' = 0
  /\ startTip' = tip
  /\ UNCHANGED tip
  /\ Fault

Init ==
  /\ tip = 0
  /\ pending_sync_request = FALSE
  /\ closest_peers_request_for_sync = NoTarget
  /\ sync_requests = {}
  /\ broadcast_requests = 0
  /\ broadcasted_headers = {}
  /\ broadcasts = 0
  /\ startTip = 0
  /\ mining \in Deployments
  /\ networkTip = 0
  /\ faults = 0

Misbehave ==
  \/ AnnounceForeign \/ FindNoPeers
  \/ DownloadPart \/ DownloadGap \/ DownloadForeign \/ DownloadFails
  \/ Restart

Next ==
  \/ Mine
  \/ \E n \in 1 .. networkTip : Announce(n) \/ AnnounceOvertaken(n)
  \/ FindPeers
  \/ \E s \in sync_requests : Download(s)
  \/ FinishBroadcast
  \/ Misbehave

(* New headers keep coming, and the manager is polled when the answer to   *)
(* one of its requests is there.                                           *)
Fairness ==
  /\ WF_vars(AnnounceNewest)
  /\ WF_vars(FindPeers)
  /\ WF_vars(\E s \in sync_requests : Download(s))

Spec == Init /\ [][Next]_vars /\ Fairness

----------------------------------------------------------------------------
(* Properties.                                                             *)

(* The variables hold values of the code's types.                          *)
TypeOK ==
  /\ tip \in Number
  /\ pending_sync_request \in BOOLEAN
  /\ closest_peers_request_for_sync \in Number \cup {NoTarget}
  /\ sync_requests \subseteq [peer : Peer, local : Number, target : Number, copy : Nat]
  /\ broadcast_requests \in Nat
  /\ broadcasted_headers \subseteq Header
  /\ broadcasts \in Nat
  /\ startTip \in Number
  /\ mining \in Deployments
  /\ networkTip \in Number
  /\ faults \in 0 .. MaxFaults

(* The flag is set and nothing is in progress that will clear it.          *)
Stuck ==
  /\ pending_sync_request
  /\ closest_peers_request_for_sync = NoTarget
  /\ sync_requests = {}

(* The flag that holds back new syncs is set only while something is in    *)
(* progress that will clear it, as long as the network behaves.            *)
PendingIsOwned == faults = 0 => ~Stuck

(* A download in progress starts at or below the tip, however many others  *)
(* finish before it: its first header attaches, and the warning "Block     *)
(* header not found when sync header" comes from a gap between batches     *)
(* only.                                                                   *)
DownloadsAttach == \A s \in sync_requests : s.local <= tip

(* No storm: since it started, a manager has sent no more broadcasts than  *)
(* the chain has grown by, plus one for each header it has recorded as     *)
(* broadcast unvalidated, however often, in whatever order and from        *)
(* whomever headers are announced, and whatever the miner does meanwhile.  *)
EchoIsBounded == broadcasts <= (tip - startTip) + Cardinality(broadcasted_headers)

(* "broadcast process should be triggered only once per hash".             *)
BroadcastOncePerHash == [][\A h \in broadcasted_headers : ~AddAndBroadcast(h, tip)]_vars

(* A node that lags behind catches up.  A peer that lags itself, headers   *)
(* lost in a gap between batches, headers of another chain and a restart   *)
(* only delay it; the one thing that can stop it is a sync that ended and  *)
(* left the flag set.                                                      *)
CatchUp ==
  \A n \in 1 .. MaxNumber : networkTip >= n ~> tip >= n \/ Stuck

(* "If a batch is invalid or incomplete, the system syncs up to the last   *)
(* valid header, ignoring the rest", "relying on subsequent headers to     *)
(* restart the sync process": a header that the peer of a download has is  *)
(* added in the end, by that download or a later one, when another batch   *)
(* of it is empty.                                                         *)
SyncsUpToLastValid ==
  \A n \in 1 .. MaxNumber :
    (\E s \in sync_requests : s.local < n /\ n <= networkTip /\ ~Covers(networkTip, s))
      ~> tip >= n
=============================================================================
