----------------------- MODULE MCFixedBlockTimeMiner -----------------------
(* Instances of FixedBlockTimeMiner for TLC.                               *)
EXTENDS FixedBlockTimeMiner
=============================================================================
