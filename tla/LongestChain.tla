---------------------------- MODULE LongestChain ----------------------------
(***************************************************************************)
(* What the chain tables promise, without transactions, flags or walks: a  *)
(* set of known blocks and its main chain.  The main chain is the branch of *)
(* the first known block of the greatest height; it changes only when a     *)
(* higher block arrives, and then in one step.                              *)
(***************************************************************************)
EXTENDS Naturals

CONSTANTS Block, Parent, Height

VARIABLES known, main

chain == <<known, main>>

Attached(b) ==
  Height[b] > 1 => Parent[b] \in known /\ Height[Parent[b]] = Height[b] - 1

(* m is b and its ancestors: connected downwards, one block per height.     *)
IsBranch(m, b) ==
  /\ b \in m
  /\ \A c \in m : Height[c] <= Height[b]
  /\ \A c \in m : Height[c] > 1 => Parent[c] \in m
  /\ \A c1, c2 \in m : Height[c1] = Height[c2] => c1 = c2

Init == known = {} /\ main = {}

(* A block not above the highest known one only becomes known.              *)
Fork(b) ==
  /\ Attached(b)
  /\ \E c \in known : Height[b] <= Height[c]
  /\ known' = known \cup {b}
  /\ main' = main

(* A new highest block makes its branch the main chain.                     *)
Extend(b) ==
  /\ Attached(b)
  /\ \A c \in known : Height[c] < Height[b]
  /\ known' = known \cup {b}
  /\ main' \in {m \in SUBSET known' : IsBranch(m, b)}

Next == \E b \in Block : Fork(b) \/ Extend(b)

Spec == Init /\ [][Next]_chain
=============================================================================
