--------------------------- MODULE NetworkManager ---------------------------
(***************************************************************************)
(* How the tasks of a node talk to its network task: NetworkProvider of    *)
(* src/src/net/provider.rs on the side of the callers and NetworkManager   *)
(* of src/src/net/network.rs on the other.                                 *)
(*                                                                         *)
(* A call sends a command with a oneshot sender and waits at the receiver. *)
(* The manager answers some commands at once and keeps the senders of the  *)
(* others until libp2p reports how the request ended.  It insists that the *)
(* receiver is still there: `expect` on every send.  A call is in one      *)
(* place at a time, so the pending_* maps and the command channel are the  *)
(* sets of the calls whose sender is there.  The manager takes commands,   *)
(* network events and answers of the chain manager in any order (select!). *)
(***************************************************************************)
EXTENDS Integers, FiniteSets

CONSTANTS
  GetHeaders, GetClosestPeers, ChainBroadcast,  \* calls of ChainNetworkManager
  SyncOf,            \* the download a header request belongs to
  MinerBroadcast,                               \* calls of the miner
  Dial, StartListening, ListenAddrs,            \* calls of the client
  Peer, PeerOf,      \* the peers, and whom a dial is for
  Inbound,           \* header requests that other nodes send
  MaxCalls           \* bound: calls made in one behaviour

ChainCall == GetHeaders \cup GetClosestPeers \cup ChainBroadcast
Broadcast == ChainBroadcast \cup MinerBroadcast
Call      == ChainCall \cup Broadcast \cup Dial \cup StartListening \cup ListenAddrs

ASSUME PeerAssumption    == PeerOf \in [Dial -> Peer]
ASSUME DistinctAssumption ==
  /\ ChainCall \cap (MinerBroadcast \cup Dial \cup StartListening \cup ListenAddrs) = {}
  /\ Broadcast \cap (Dial \cup StartListening \cup ListenAddrs) = {}
  /\ Dial \cap (StartListening \cup ListenAddrs) = {}
  /\ StartListening \cap ListenAddrs = {}
  /\ GetHeaders \cap (GetClosestPeers \cup ChainBroadcast) = {}
  /\ GetClosestPeers \cap ChainBroadcast = {}
ASSUME BoundAssumption == MaxCalls \in Nat

VARIABLES
  sender,      \* call -> where its oneshot sender is
  receiver,    \* call -> what its caller has
  inbound,     \* request of another node -> how far it got
  manager,     \* "running" or "panicked": the task NetworkManager::run
  chain,       \* "running" or "panicked": the task ChainNetworkManager
  undecodable  \* did a gossip message come that does not decode

vars == <<sender, receiver, inbound, manager, chain, undecodable>>

Queued  == {c \in Call : sender[c] = "queued"}    \* command_recv
Pending == {c \in Call : sender[c] \in {"pending", "orphaned"}}   \* the pending_* maps
Waiting == {c \in Call : receiver[c] = "waiting"}

----------------------------------------------------------------------------
(* The callers.                                                            *)

Closed_Swallowed(c) == "none"

(* What a caller makes of a closed channel: an error, or a panic where the *)
(* provider insists on an answer.                                          *)
Closed(c) == IF c \in Broadcast \cup StartListening THEN "panicked" ELSE "closed"

(* The other header requests of the download that c belongs to.            *)
Siblings(c) == {d \in GetHeaders \ {c} : c \in GetHeaders /\ SyncOf[d] = SyncOf[c]}

(* Who can make call c: the task is alive, and so is the download.  A      *)
(* request may still follow the failure of another, which the network task *)
(* can report between two turns of the loop that sends them.               *)
CallerLives(c) ==
  /\ c \in ChainCall => chain = "running"
  /\ \A d \in Siblings(c) : receiver[d] # "gone"
  /\ c \in MinerBroadcast => \A d \in MinerBroadcast : receiver[d] # "panicked"

(* The receivers a call drops: the miner keeps only its last broadcast.    *)
Replaced(c) == IF c \in MinerBroadcast THEN MinerBroadcast \cap Waiting ELSE {}

send_command(c) ==
  /\ receiver[c] = "none"
  /\ Cardinality({d \in Call : receiver[d] # "none"}) < MaxCalls
  /\ CallerLives(c)
  /\ LET result == IF manager = "running" THEN "waiting" ELSE Closed(c)
     IN  receiver' = [d \in Call |-> IF d = c THEN result
                                     ELSE IF d \in Replaced(c) THEN "gone" ELSE receiver[d]]
  /\ sender' = [sender EXCEPT ![c] = IF manager = "running" THEN "queued" ELSE "dropped"]
  /\ chain' = IF manager # "running" /\ c \in ChainBroadcast THEN "panicked" ELSE chain
  /\ UNCHANGED <<inbound, manager, undecodable>>

(* A SyncHeader takes the failure of one of its requests, or an empty      *)
(* answer, and returns: the receivers of its other requests are dropped.   *)
SyncHeaderFails(c) ==
  /\ c \in GetHeaders /\ receiver[c] \in {"failed", "closed"}
  /\ Siblings(c) \cap Waiting # {}
  /\ receiver' = [d \in Call |-> IF d \in Siblings(c) \cap Waiting THEN "gone" ELSE receiver[d]]
  /\ UNCHANGED <<sender, inbound, manager, chain, undecodable>>

(* The chain manager hits a fatal error of the database.                   *)
ChainPanics ==
  /\ chain = "running"
  /\ chain' = "panicked"
  /\ receiver' = [c \in Call |-> IF c \in ChainCall \cap Waiting THEN "gone" ELSE receiver[c]]
  /\ UNCHANGED <<sender, inbound, manager, undecodable>>

----------------------------------------------------------------------------
(* The manager.                                                            *)

(* The task ends and drops every sender it holds or would have received.   *)
(* The cause is a message that does not decode, or another one.            *)
Panic(message) ==
  LET held == Queued \cup Pending
      died == chain = "running" /\ ChainBroadcast \cap held \cap Waiting # {}
  IN  /\ manager' = "panicked"
      /\ sender' = [c \in Call |-> IF c \in held THEN "dropped" ELSE sender[c]]
      /\ receiver' = [c \in Call |->
           IF c \notin held \cap Waiting THEN receiver[c]
           ELSE IF died /\ c \in ChainCall \ ChainBroadcast THEN "gone" ELSE Closed(c)]
      /\ chain' = IF died THEN "panicked" ELSE chain
      /\ undecodable' = message
      /\ UNCHANGED inbound

(* sender.send(..).expect(..)                                              *)
Send(c, answer) ==
  \/ /\ receiver[c] = "waiting"
     /\ sender' = [sender EXCEPT ![c] = "sent"]
     /\ receiver' = [receiver EXCEPT ![c] = answer]
     /\ UNCHANGED <<inbound, manager, chain, undecodable>>
  \/ /\ receiver[c] # "waiting"
     /\ Panic(FALSE)

(* The caller of a header request tells a failure, or an answer without    *)
(* headers, from headers; the others only note a failure.                  *)
Answers(c) == IF c \in GetHeaders THEN {"answered", "failed"} ELSE {"answered"}

Reply(c) == \E answer \in Answers(c) : Send(c, answer)

Keep(c) ==
  /\ sender' = [sender EXCEPT ![c] = "pending"]
  /\ UNCHANGED <<receiver, inbound, manager, chain, undecodable>>

(* The sender of a second dial to the same peer is dropped.                *)
DropSender(c) ==
  /\ sender' = [sender EXCEPT ![c] = "dropped"]
  /\ receiver' = [receiver EXCEPT ![c] = Closed(c)]
  /\ UNCHANGED <<inbound, manager, chain, undecodable>>

AlreadyDialing(c) == \E d \in Dial \cap Pending : PeerOf[d] = PeerOf[c]

HandleDial(c) ==
  IF AlreadyDialing(c) THEN DropSender(c) ELSE Keep(c) \/ Reply(c)

handle_command(c) ==
  /\ manager = "running"
  /\ c \in Queued
  /\ \/ c \in GetHeaders \cup GetClosestPeers /\ Keep(c)
     \/ c \in Broadcast \cup ListenAddrs /\ Reply(c)
     \/ c \in StartListening /\ (Keep(c) \/ Reply(c))
     \/ c \in Dial /\ HandleDial(c)

(* The answer to a header request, or its failure.                         *)
HeadersEnd(c) ==
  /\ manager = "running"
  /\ c \in GetHeaders \cap Pending
  /\ Reply(c)

(* The result of a closest-peers query, or its timeout.                    *)
ClosestPeersEnd(c) ==
  /\ manager = "running"
  /\ c \in GetClosestPeers \cap Pending
  /\ Reply(c)

(* The first address of a listener.                                        *)
NewListenAddr(c) ==
  /\ manager = "running"
  /\ c \in StartListening
  /\ sender[c] = "pending"
  /\ Reply(c)

(* A listener fails before it has an address.  Nobody handles the event,   *)
(* and its sender stays in pending_listening.                              *)
ListenerFails(c) ==
  /\ manager = "running"
  /\ c \in StartListening
  /\ sender[c] = "pending"
  /\ sender' = [sender EXCEPT ![c] = "orphaned"]
  /\ UNCHANGED <<receiver, inbound, manager, chain, undecodable>>

RequestEnds_TimeoutIgnored(c) == HeadersEnd(c) \/ NewListenAddr(c) \/ ListenerFails(c)

(* libp2p reports the end of a request.                                    *)
RequestEnds(c) ==
  HeadersEnd(c) \/ ClosestPeersEnd(c) \/ NewListenAddr(c) \/ ListenerFails(c)

DialEnds_EntryExpected(p) ==
  /\ manager = "running"
  /\ IF \E c \in Dial \cap Pending : PeerOf[c] = p
     THEN \E c \in Dial \cap Pending : PeerOf[c] = p /\ Reply(c)
     ELSE Panic(FALSE)

(* A dialed connection is established or fails.  One that no call asked    *)
(* for, libp2p's own or that of another node, is nobody's.                 *)
DialEnds(p) ==
  /\ manager = "running"
  /\ \E c \in Dial \cap Pending : PeerOf[c] = p /\ Reply(c)

(* A gossip message, which must decode, goes to the chain manager, which   *)
(* must be there.                                                          *)
handle_gossipsub_message(decodes) ==
  /\ manager = "running"
  /\ decodes => chain = "panicked"
  /\ Panic(~decodes)

(* Another node asks for headers: the chain manager is asked in turn.      *)
IncomingRequest(r) ==
  /\ manager = "running"
  /\ inbound[r] = "none"
  /\ \/ /\ chain = "running"
        /\ inbound' = [inbound EXCEPT ![r] = "delegated"]
        /\ UNCHANGED <<sender, receiver, manager, chain, undecodable>>
     \/ /\ chain = "panicked"
        /\ Panic(FALSE)

ChainResponds(r) ==
  /\ chain = "running"
  /\ inbound[r] = "delegated"
  /\ inbound' = [inbound EXCEPT ![r] = "responded"]
  /\ UNCHANGED <<sender, receiver, manager, chain, undecodable>>

handle_response_block_headers_OnlyOk(r) ==
  /\ manager = "running"
  /\ inbound[r] = "responded"
  /\ inbound' = [inbound EXCEPT ![r] = "served"]
  /\ UNCHANGED <<sender, receiver, manager, chain, undecodable>>

(* The answer goes out, or there is none since the chain manager is gone.  *)
handle_response_block_headers(r) ==
  /\ manager = "running"
  /\ \/ inbound[r] = "responded" /\ inbound' = [inbound EXCEPT ![r] = "served"]
     \/ /\ inbound[r] = "delegated" /\ chain = "panicked"
        /\ inbound' = [inbound EXCEPT ![r] = "failed"]
  /\ UNCHANGED <<sender, receiver, manager, chain, undecodable>>

Init ==
  /\ sender = [c \in Call |-> "none"]
  /\ receiver = [c \in Call |-> "none"]
  /\ inbound = [r \in Inbound |-> "none"]
  /\ manager = "running"
  /\ chain = "running"
  /\ undecodable = FALSE

Serve(r) == ChainResponds(r) \/ handle_response_block_headers(r)

Next ==
  \/ \E c \in Call : send_command(c) \/ SyncHeaderFails(c) \/ handle_command(c) \/ RequestEnds(c)
  \/ \E p \in Peer : DialEnds(p)
  \/ \E r \in Inbound : IncomingRequest(r) \/ Serve(r)
  \/ \E decodes \in BOOLEAN : handle_gossipsub_message(decodes)
  \/ ChainPanics

(* select! does not starve a branch that stays ready, and libp2p ends what *)
(* it started: requests and queries with an answer or a timeout, dials     *)
(* with a connection or an error, listeners with an address or a failure.  *)
Fairness ==
  /\ \A c \in Call : WF_vars(handle_command(c))
  /\ \A c \in GetHeaders \cup GetClosestPeers \cup StartListening : WF_vars(RequestEnds(c))
  /\ \A p \in Peer : WF_vars(DialEnds(p))
  /\ \A r \in Inbound : WF_vars(Serve(r))

Spec == Init /\ [][Next]_vars /\ Fairness

----------------------------------------------------------------------------
(* Properties.                                                             *)

(* The variables hold the states of the code's channels and tasks, and a   *)
(* call that was made has both ends of its channel somewhere.              *)
TypeOK ==
  /\ sender \in [Call -> {"none", "queued", "pending", "orphaned", "sent", "dropped"}]
  /\ receiver \in [Call -> {"none", "waiting", "answered", "failed", "closed", "panicked", "gone"}]
  /\ \A c \in Call : sender[c] = "none" <=> receiver[c] = "none"
  /\ inbound \in [Inbound -> {"none", "delegated", "responded", "served", "failed"}]
  /\ manager \in {"running", "panicked"}
  /\ chain \in {"running", "panicked"}
  /\ undecodable \in BOOLEAN

(* The manager panics for one of three causes, and for no other end of a   *)
(* request, a dial or a connection: a caller dropped its receiver, the     *)
(* chain manager panicked, or a gossip message did not decode.             *)
PanicHasCause ==
  manager = "panicked" =>
    chain = "panicked" \/ undecodable \/ \E c \in Call : receiver[c] = "gone"

(* Every call ends, with an answer or with a closed channel: no handler    *)
(* forgets a sender, and a panic of the manager or a second dial to the    *)
(* same peer leaves no caller waiting.  The one that may wait for ever is  *)
(* start_listening on a listener that fails without an address.            *)
EveryCallEnds ==
  \A c \in Call : receiver[c] = "waiting" ~>
    receiver[c] # "waiting" \/ (c \in StartListening /\ sender[c] = "orphaned")

(* Every header request of another node that was taken up is answered, or  *)
(* given up, unless the manager panics.                                    *)
InboundServed ==
  \A r \in Inbound :
    inbound[r] = "delegated" ~> inbound[r] \in {"served", "failed"} \/ manager = "panicked"

(* `expect("Receiver not to dropped.")` and its likes never fire while the *)
(* chain manager runs and every message decodes.                           *)
ReceiverNotDropped == chain = "running" /\ ~undecodable => manager = "running"
=============================================================================
