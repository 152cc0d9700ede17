--------------------------- MODULE AppendOnlyChain ---------------------------
(***************************************************************************)
(* What the header store of a node promises to everybody who reads it: a   *)
(* chain of headers that starts with the genesis header and only ever      *)
(* grows, one header at a time, each new header naming the hash of the     *)
(* header before it.  Nothing is ever removed or replaced.                 *)
(***************************************************************************)
EXTENDS Integers

CONSTANTS
  Header,    \* the headers that may ever be stored
  Genesis    \* the header every node starts from

VARIABLE chain   \* a function from 0 .. tip to Header

Init == chain = [n \in {0} |-> Genesis]

(* h becomes the new tip, the header after number k.                       *)
Append(k, h) ==
  /\ DOMAIN chain = 0 .. k
  /\ h.number = k + 1
  /\ h.parent_hash = chain[k].hash
  /\ chain' = [n \in 0 .. k + 1 |-> IF n = k + 1 THEN h ELSE chain[n]]

Next == \E k \in DOMAIN chain, h \in Header : Append(k, h)

Spec == Init /\ [][Next]_chain
=============================================================================
