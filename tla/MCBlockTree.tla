---------------------------- MODULE MCBlockTree ----------------------------
(* Instances of BlockTree for TLC.                                         *)
EXTENDS BlockTree

CONSTANTS h1, h2, h3, g, gp, x0, x1, xp

MCGenesis == [number |-> 0, hash |-> g, parent_hash |-> gp]

(* Another network's genesis and its first block.                          *)
MCStray == {[number |-> 0, hash |-> x0, parent_hash |-> xp],
            [number |-> 1, hash |-> x1, parent_hash |-> x0]}

OneMinerDeployments == {{"local"}, {"remote"}}
=============================================================================
