----------------------- MODULE MCChainNetworkManager -----------------------
(* Instances of ChainNetworkManager for TLC.                               *)
EXTENDS ChainNetworkManager
CONSTANTS p1, p2
=============================================================================
