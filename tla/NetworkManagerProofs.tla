------------------------ MODULE NetworkManagerProofs ------------------------
(***************************************************************************)
(* What holds of NetworkManager for every set of calls of each kind, every *)
(* set of peers and of requests of other nodes, and any number of calls.   *)
(***************************************************************************)
EXTENDS NetworkManager, TLAPS

Held == {"queued", "pending", "orphaned"}

(* A sender the manager will meet has a caller that waits, or one that     *)
(* dropped its receiver: nothing else can make `expect` fire.              *)
HeldHasCaller ==
  \A c \in Call : sender[c] \in Held => receiver[c] \in {"waiting", "gone"}

(* A caller waits only for a sender that a running manager has or gets.    *)
WaitingIsHeld ==
  \A c \in Call : receiver[c] = "waiting" => (sender[c] \in Held /\ manager = "running")

(* Only these callers drop a receiver.                                     *)
GoneIsAllowed ==
  \A c \in Call : receiver[c] = "gone" => c \in GetHeaders \cup MinerBroadcast \cup ChainCall

Inv == TypeOK /\ HeldHasCaller /\ WaitingIsHeld /\ GoneIsAllowed /\ PanicHasCause

----------------------------------------------------------------------------
(* Lemmas.                                                                 *)

LEMMA ClosedIsEnd == \A c : Closed(c) \in {"closed", "panicked"}
BY DEF Closed

(* What every panic of the manager does to the calls.                      *)
LEMMA PanicStep ==
  ASSUME Inv, NEW message \in BOOLEAN, Panic(message),
         chain = "panicked" \/ message \/ \E c \in Call : receiver[c] = "gone"
  PROVE  Inv'
<1> DEFINE held == Queued \cup Pending
           died == chain = "running" /\ ChainBroadcast \cap held \cap Waiting # {}
<1>1. \A c \in Call : c \in held <=> sender[c] \in Held
  BY DEF Queued, Pending, Held
<1>2. /\ manager' = "panicked" /\ inbound' = inbound /\ undecodable' = message
      /\ chain' = IF died THEN "panicked" ELSE chain
      /\ sender' = [c \in Call |-> IF c \in held THEN "dropped" ELSE sender[c]]
      /\ receiver' = [c \in Call |->
           IF c \notin held \cap Waiting THEN receiver[c]
           ELSE IF died /\ c \in ChainCall \ ChainBroadcast THEN "gone" ELSE Closed(c)]
  BY DEF Panic
<1> HIDE DEF held, died
<1>3. ASSUME NEW c \in Call
      PROVE  /\ sender'[c] \in {"none", "sent", "dropped"}
             /\ sender[c] \notin Held => sender'[c] = sender[c]
             /\ sender[c] \in Held => sender'[c] = "dropped"
             /\ receiver[c] # "waiting" => receiver'[c] = receiver[c]
             /\ receiver[c] = "waiting" => receiver'[c] \in {"closed", "panicked", "gone"}
             /\ receiver'[c] = "gone" => (receiver[c] = "gone" \/ c \in ChainCall)
  <2>1. sender[c] \in {"none", "queued", "pending", "orphaned", "sent", "dropped"}
    BY DEF Inv, TypeOK
  <2>2. receiver[c] = "waiting" => c \in held
    BY <1>1 DEF Inv, WaitingIsHeld
  <2>3. c \in Waiting <=> receiver[c] = "waiting"
    BY DEF Waiting
  <2>4. sender'[c] = IF sender[c] \in Held THEN "dropped" ELSE sender[c]
    BY <1>1, <1>2
  <2>5. receiver[c] # "waiting" => receiver'[c] = receiver[c]
    BY <1>2, <2>3
  <2>6. receiver[c] = "waiting" =>
          receiver'[c] = IF died /\ c \in ChainCall \ ChainBroadcast THEN "gone" ELSE Closed(c)
    BY <1>2, <2>2, <2>3
  <2> QED
    BY <2>1, <2>4, <2>5, <2>6, ClosedIsEnd DEF Held
<1>4. TypeOK'
  BY <1>2, <1>3 DEF Inv, TypeOK, HeldHasCaller, Held
<1>5. HeldHasCaller' /\ WaitingIsHeld' /\ GoneIsAllowed'
  BY <1>3 DEF Inv, HeldHasCaller, WaitingIsHeld, GoneIsAllowed, Held
<1>6. PanicHasCause'
  BY <1>2, <1>3 DEF PanicHasCause
<1> QED
  BY <1>4, <1>5, <1>6 DEF Inv

(* An answer to a sender the manager holds.                                *)
LEMMA ReplyStep ==
  ASSUME Inv, NEW c \in Call, sender[c] \in Held, Reply(c)
  PROVE  Inv'
<1>1. PICK answer \in {"answered", "failed"} : Send(c, answer)
  BY DEF Reply, Answers
<1>2. CASE receiver[c] # "waiting"
  <2>1. Panic(FALSE)
    BY <1>1, <1>2 DEF Send
  <2>2. receiver[c] = "gone"
    BY <1>2 DEF Inv, HeldHasCaller
  <2> QED
    BY <2>1, <2>2, PanicStep
<1>3. CASE receiver[c] = "waiting"
  <2>1. /\ sender' = [sender EXCEPT ![c] = "sent"]
        /\ receiver' = [receiver EXCEPT ![c] = answer]
        /\ UNCHANGED <<inbound, manager, chain, undecodable>>
    BY <1>1, <1>3 DEF Send
  <2> QED
    BY <1>3, <2>1 DEF Inv, TypeOK, HeldHasCaller, WaitingIsHeld, GoneIsAllowed, PanicHasCause, Held
<1> QED
  BY <1>2, <1>3

(* A command that is kept until libp2p reports its end.                    *)
LEMMA KeepStep ==
  ASSUME Inv, NEW c \in Call, sender[c] \in Held, Keep(c)
  PROVE  Inv'
BY DEF Keep, Inv, TypeOK, HeldHasCaller, WaitingIsHeld, GoneIsAllowed, PanicHasCause, Held

(* The sender of a second dial is dropped; nobody drops a dial's receiver. *)
LEMMA DropSenderStep ==
  ASSUME Inv, NEW c \in Dial, sender[c] \in Held, DropSender(c)
  PROVE  Inv'
<1>1. c \in Call /\ c \notin GetHeaders \cup MinerBroadcast \cup ChainCall
  BY DistinctAssumption DEF Call, ChainCall, Broadcast
<1>2. receiver[c] # "gone"
  BY <1>1 DEF Inv, GoneIsAllowed
<1>3. /\ sender' = [sender EXCEPT ![c] = "dropped"]
      /\ receiver' = [receiver EXCEPT ![c] = Closed(c)]
      /\ UNCHANGED <<inbound, manager, chain, undecodable>>
  BY DEF DropSender
<1>4. Closed(c) \in {"closed", "panicked"}
  BY ClosedIsEnd
<1> QED
  BY <1>1, <1>2, <1>3, <1>4
     DEF Inv, TypeOK, HeldHasCaller, WaitingIsHeld, GoneIsAllowed, PanicHasCause, Held

----------------------------------------------------------------------------
(* The steps.                                                              *)

LEMMA ManagerInit == Init => Inv
BY DEF Init, Inv, TypeOK, HeldHasCaller, WaitingIsHeld, GoneIsAllowed, PanicHasCause, Held

LEMMA SendStep ==
  ASSUME Inv, NEW c \in Call, send_command(c)
  PROVE  Inv'
<1> DEFINE result == IF manager = "running" THEN "waiting" ELSE Closed(c)
           place  == IF manager = "running" THEN "queued" ELSE "dropped"
<1>1. /\ receiver[c] = "none" /\ UNCHANGED <<inbound, manager, undecodable>>
      /\ sender' = [sender EXCEPT ![c] = place]
      /\ (chain' = chain \/ (manager # "running" /\ chain' = "panicked"))
  BY DEF send_command
<1>2. receiver' = [d \in Call |-> IF d = c THEN result
                                  ELSE IF d \in Replaced(c) THEN "gone" ELSE receiver[d]]
  BY DEF send_command
<1>3. /\ manager = "running" => (result = "waiting" /\ place = "queued")
      /\ manager # "running" => (result \in {"closed", "panicked"} /\ place = "dropped")
  BY ClosedIsEnd
<1> HIDE DEF result, place
<1>4. ASSUME NEW d \in Call, d # c
      PROVE  /\ sender'[d] = sender[d]
             /\ \/ receiver'[d] = receiver[d]
                \/ d \in MinerBroadcast /\ receiver[d] = "waiting" /\ receiver'[d] = "gone"
  BY <1>1, <1>2, <1>4 DEF Replaced, Waiting, Inv, TypeOK
<1>5. sender'[c] = place /\ receiver'[c] = result
  BY <1>1, <1>2 DEF Inv, TypeOK
<1>6. manager \in {"running", "panicked"}
  BY DEF Inv, TypeOK
<1>7. TypeOK'
  <2>1. sender' \in [Call -> {"none", "queued", "pending", "orphaned", "sent", "dropped"}]
    BY <1>1, <1>3, <1>6 DEF Inv, TypeOK
  <2>2. ASSUME NEW d \in Call
        PROVE  receiver'[d] \in {"none", "waiting", "answered", "failed", "closed", "panicked", "gone"}
    BY <1>3, <1>4, <1>5, <1>6 DEF Inv, TypeOK
  <2>3. receiver' \in [Call -> {"none", "waiting", "answered", "failed", "closed", "panicked", "gone"}]
    BY <1>2, <2>2
  <2>4. \A d \in Call : sender'[d] = "none" <=> receiver'[d] = "none"
    BY <1>3, <1>4, <1>5, <1>6 DEF Inv, TypeOK
  <2> QED
    BY <1>1, <2>1, <2>3, <2>4 DEF Inv, TypeOK
<1>8. HeldHasCaller'
  BY <1>3, <1>4, <1>5, <1>6 DEF Inv, HeldHasCaller, Held
<1>9. WaitingIsHeld' /\ GoneIsAllowed'
  BY <1>1, <1>3, <1>4, <1>5, <1>6 DEF Inv, WaitingIsHeld, GoneIsAllowed, Held
<1>10. PanicHasCause'
  <2> SUFFICES ASSUME manager' = "panicked", chain' # "panicked", ~undecodable'
               PROVE  \E d \in Call : receiver'[d] = "gone"
    BY DEF PanicHasCause
  <2>1. PICK d \in Call : receiver[d] = "gone"
    BY <1>1 DEF Inv, PanicHasCause
  <2> QED
    BY <1>1, <1>4, <2>1
<1> QED
  BY <1>7, <1>8, <1>9, <1>10 DEF Inv

LEMMA SyncHeaderFailsStep ==
  ASSUME Inv, NEW c \in Call, SyncHeaderFails(c)
  PROVE  Inv'
<1>1. UNCHANGED <<sender, inbound, manager, chain, undecodable>>
  BY DEF SyncHeaderFails
<1>2. receiver' = [d \in Call |-> IF d \in Siblings(c) \cap Waiting THEN "gone" ELSE receiver[d]]
  BY DEF SyncHeaderFails
<1>3. \A d \in Call : \/ receiver'[d] = receiver[d]
                      \/ d \in GetHeaders /\ receiver[d] = "waiting" /\ receiver'[d] = "gone"
  BY <1>2 DEF Siblings, Waiting
<1>4. TypeOK'
  BY <1>1, <1>2, <1>3 DEF Inv, TypeOK
<1>5. HeldHasCaller' /\ WaitingIsHeld' /\ GoneIsAllowed'
  BY <1>1, <1>3 DEF Inv, HeldHasCaller, WaitingIsHeld, GoneIsAllowed, Held
<1>6. PanicHasCause'
  BY <1>1, <1>3 DEF Inv, PanicHasCause
<1> QED
  BY <1>4, <1>5, <1>6 DEF Inv

LEMMA HandleCommandStep ==
  ASSUME Inv, NEW c \in Call, handle_command(c)
  PROVE  Inv'
<1>1. sender[c] \in Held
  BY DEF handle_command, Queued, Held
<1>2. Keep(c) \/ Reply(c) \/ (c \in Dial /\ DropSender(c))
  BY DEF handle_command, HandleDial
<1> QED
  BY <1>1, <1>2, KeepStep, ReplyStep, DropSenderStep

LEMMA RequestEndsStep ==
  ASSUME Inv, NEW c \in Call, RequestEnds(c)
  PROVE  Inv'
<1>1. sender[c] \in Held
  BY DEF RequestEnds, HeadersEnd, ClosestPeersEnd, NewListenAddr, ListenerFails, Pending, Held
<1>2. CASE Reply(c)
  BY <1>1, <1>2, ReplyStep
<1>3. CASE ListenerFails(c)
  BY <1>3 DEF ListenerFails, Inv, TypeOK, HeldHasCaller, WaitingIsHeld, GoneIsAllowed,
              PanicHasCause, Held
<1> QED
  BY <1>2, <1>3 DEF RequestEnds, HeadersEnd, ClosestPeersEnd, NewListenAddr

LEMMA DialEndsStep ==
  ASSUME Inv, NEW p \in Peer, DialEnds(p)
  PROVE  Inv'
<1>1. PICK c \in Dial \cap Pending : Reply(c)
  BY DEF DialEnds
<1>2. c \in Call /\ sender[c] \in Held
  BY DEF Pending, Held
<1> QED
  BY <1>1, <1>2, ReplyStep

LEMMA InboundStep ==
  ASSUME Inv, NEW r \in Inbound, IncomingRequest(r) \/ Serve(r)
  PROVE  Inv'
<1>1. CASE chain = "panicked" /\ Panic(FALSE)
  BY <1>1, PanicStep
<1>2. CASE ~(chain = "panicked" /\ Panic(FALSE))
  <2>1. /\ UNCHANGED <<sender, receiver, manager, chain, undecodable>>
        /\ \E s \in {"delegated", "responded", "served", "failed"} :
             inbound' = [inbound EXCEPT ![r] = s]
    BY <1>2 DEF IncomingRequest, Serve, ChainResponds, handle_response_block_headers
  <2> QED
    BY <2>1 DEF Inv, TypeOK, HeldHasCaller, WaitingIsHeld, GoneIsAllowed, PanicHasCause, Held
<1> QED
  BY <1>1, <1>2

LEMMA ChainPanicsStep ==
  ASSUME Inv, ChainPanics
  PROVE  Inv'
<1>1. /\ chain' = "panicked" /\ UNCHANGED <<sender, inbound, manager, undecodable>>
      /\ receiver' = [c \in Call |-> IF c \in ChainCall \cap Waiting THEN "gone" ELSE receiver[c]]
  BY DEF ChainPanics
<1>2. \A c \in Call : \/ receiver'[c] = receiver[c]
                      \/ c \in ChainCall /\ receiver[c] = "waiting" /\ receiver'[c] = "gone"
  BY <1>1 DEF Waiting
<1>3. TypeOK'
  BY <1>1, <1>2 DEF Inv, TypeOK
<1> QED
  BY <1>1, <1>2, <1>3 DEF Inv, HeldHasCaller, WaitingIsHeld, GoneIsAllowed, PanicHasCause, Held

LEMMA ManagerNext == Inv /\ [Next]_vars => Inv'
<1> SUFFICES ASSUME Inv, [Next]_vars
             PROVE  Inv'
  OBVIOUS
<1>1. CASE UNCHANGED vars
  BY <1>1 DEF vars, Inv, TypeOK, HeldHasCaller, WaitingIsHeld, GoneIsAllowed, PanicHasCause, Held
<1>2. ASSUME NEW decodes \in BOOLEAN, handle_gossipsub_message(decodes)
      PROVE  Inv'
  <2>1. Panic(~decodes) /\ (decodes => chain = "panicked")
    BY <1>2 DEF handle_gossipsub_message
  <2> QED
    BY <1>2, <2>1, PanicStep
<1>3. CASE ChainPanics
  BY <1>3, ChainPanicsStep
<1>4. CASE \E c \in Call : send_command(c) \/ SyncHeaderFails(c) \/ handle_command(c) \/ RequestEnds(c)
  BY <1>4, SendStep, SyncHeaderFailsStep, HandleCommandStep, RequestEndsStep
<1>5. CASE \E p \in Peer : DialEnds(p)
  BY <1>5, DialEndsStep
<1>6. CASE \E r \in Inbound : IncomingRequest(r) \/ Serve(r)
  BY <1>6, InboundStep
<1> QED
  BY <1>1, <1>2, <1>3, <1>4, <1>5, <1>6 DEF Next

----------------------------------------------------------------------------
(* Theorems.                                                               *)

LEMMA ManagerInvariant == Spec => []Inv
BY ManagerInit, ManagerNext, PTL DEF Spec

(* Both ends of every oneshot channel are somewhere, and only both at once *)
(* nowhere.                                                                *)
THEOREM ManagerTypes == Spec => []TypeOK
<1>1. Inv => TypeOK
  BY DEF Inv
<1> QED
  BY <1>1, ManagerInvariant, PTL

(* The network task panics only on a receiver that was dropped, a chain    *)
(* manager that is gone or a message that does not decode: for every       *)
(* sender it takes from a pending_* map or a command there was a receiver. *)
THEOREM PanicsHaveThreeCauses == Spec => []PanicHasCause
<1>1. Inv => PanicHasCause
  BY DEF Inv
<1> QED
  BY <1>1, ManagerInvariant, PTL

(* Nobody waits for a network task that has panicked: the senders it held  *)
(* and the commands in its channel are dropped with it, and send_command   *)
(* fails from then on.                                                     *)
THEOREM PanicReleasesCallers == Spec => [](manager = "panicked" => Waiting = {})
<1>1. Inv => (manager = "panicked" => Waiting = {})
  BY DEF Inv, WaitingIsHeld, Waiting
<1> QED
  BY <1>1, ManagerInvariant, PTL

(* A call ends once: no panic, late answer or second dial changes what a   *)
(* caller got, or reaches a caller that is gone.                           *)
THEOREM CallsEndOnce ==
  Spec => [][\A c \in Call : receiver[c] \notin {"none", "waiting"} => receiver'[c] = receiver[c]]_vars
<1> DEFINE Kept == \A c \in Call :
                     receiver[c] \notin {"none", "waiting"} => receiver'[c] = receiver[c]
<1>1. Inv /\ [Next]_vars => [Kept]_vars
  <2> SUFFICES ASSUME Inv, Next
               PROVE  Kept
    BY DEF vars
  <2>1. receiver \in [Call -> {"none", "waiting", "answered", "failed", "closed", "panicked", "gone"}]
    BY DEF Inv, TypeOK
  <2>2. ASSUME NEW d \in Call, NEW end, receiver[d] \in {"none", "waiting"},
               receiver' = [receiver EXCEPT ![d] = end]
        PROVE  Kept
    BY <2>1, <2>2
  <2>3. CASE UNCHANGED receiver
    BY <2>3
  <2>4. ASSUME NEW message, Panic(message)
        PROVE  Kept
    BY <2>4 DEF Panic, Waiting
  <2>5. ASSUME NEW d \in Call, Reply(d)
        PROVE  Kept
    <3>1. PICK answer \in Answers(d) : Send(d, answer)
      BY <2>5 DEF Reply
    <3>2. CASE receiver[d] = "waiting" /\ receiver' = [receiver EXCEPT ![d] = answer]
      BY <2>2, <3>2
    <3>3. CASE Panic(FALSE)
      BY <2>4, <3>3
    <3> QED
      BY <3>1, <3>2, <3>3 DEF Send
  <2>6. ASSUME NEW d \in Dial, sender[d] \in Held, DropSender(d)
        PROVE  Kept
    <3>1. d \in Call /\ d \notin GetHeaders \cup MinerBroadcast \cup ChainCall
      BY DistinctAssumption DEF Call, ChainCall, Broadcast
    <3>2. receiver[d] = "waiting"
      BY <2>6, <3>1 DEF Inv, HeldHasCaller, GoneIsAllowed
    <3> QED
      BY <2>2, <2>6, <3>1, <3>2 DEF DropSender
  <2>7. ASSUME NEW d \in Call, send_command(d)
        PROVE  Kept
    BY <2>7 DEF send_command, Replaced, Waiting
  <2>8. ASSUME NEW d \in Call, SyncHeaderFails(d)
        PROVE  Kept
    BY <2>8 DEF SyncHeaderFails, Waiting
  <2>9. ASSUME NEW d \in Call, handle_command(d)
        PROVE  Kept
    <3>1. sender[d] \in Held
      BY <2>9 DEF handle_command, Queued, Held
    <3>2. Keep(d) \/ Reply(d) \/ (d \in Dial /\ DropSender(d))
      BY <2>9 DEF handle_command, HandleDial
    <3>3. CASE Keep(d)
      BY <2>3, <3>3 DEF Keep
    <3> QED
      BY <2>5, <2>6, <3>1, <3>2, <3>3
  <2>10. ASSUME NEW d \in Call, RequestEnds(d)
         PROVE  Kept
    BY <2>3, <2>5, <2>10
       DEF RequestEnds, HeadersEnd, ClosestPeersEnd, NewListenAddr, ListenerFails
  <2>11. CASE \E p \in Peer : DialEnds(p)
    BY <2>5, <2>11 DEF DialEnds, Pending
  <2>12. CASE \E r \in Inbound : IncomingRequest(r) \/ Serve(r)
    BY <2>3, <2>4, <2>12
       DEF IncomingRequest, Serve, ChainResponds, handle_response_block_headers
  <2>13. CASE \E decodes \in BOOLEAN : handle_gossipsub_message(decodes)
    BY <2>4, <2>13 DEF handle_gossipsub_message
  <2>14. CASE ChainPanics
    BY <2>14 DEF ChainPanics, Waiting
  <2> HIDE DEF Kept
  <2> QED
    BY <2>7, <2>8, <2>9, <2>10, <2>11, <2>12, <2>13, <2>14 DEF Next
<1> QED
  BY <1>1, ManagerInvariant, PTL DEF Spec
=============================================================================
