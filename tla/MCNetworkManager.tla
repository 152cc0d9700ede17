-------------------------- MODULE MCNetworkManager --------------------------
(* Instances of NetworkManager for TLC.                                    *)
EXTENDS NetworkManager

CONSTANTS h1, h2, s1, q1, b1, m1, m2, d1, d2, l1, a1, p1, r1

(* Two header requests of one download.                                   *)
MCSyncOf == [h \in {h1, h2} |-> s1]

(* Both dials are for the same peer.                                       *)
MCPeerOf == [d \in {d1, d2} |-> p1]
=============================================================================
