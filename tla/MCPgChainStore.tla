--------------------------- MODULE MCPgChainStore ---------------------------
(***************************************************************************)
(* A small block tree for PgChainStore: two first-height blocks, a fork at  *)
(* height 2, a block whose parent is never announced,                       *)
(* one transaction both branches mine, at different heights, one that only  *)
(* one branch mines, and a name update with subdomains on one branch.       *)
(***************************************************************************)
EXTENDS PgChainStore, TLC

CONSTANTS a1, a2, a3, a4, b2, b3, z1, x2, none, t1, t2

MCBlock == {a1, a2, a3, a4, b2, b3, z1, x2}

MCParent ==
  a1 :> none @@ a2 :> a1 @@ a3 :> a2 @@ a4 :> a3 @@
  b2 :> a1 @@ b3 :> b2 @@ z1 :> none @@ x2 :> none

MCHeight ==
  a1 :> 1 @@ a2 :> 2 @@ a3 :> 3 @@ a4 :> 4 @@
  b2 :> 2 @@ b3 :> 3 @@ z1 :> 1 @@ x2 :> 2

MCTxsOf ==
  a1 :> {} @@ a2 :> {t1} @@ a3 :> {t2} @@ a4 :> {} @@
  b2 :> {t2} @@ b3 :> {} @@ z1 :> {} @@ x2 :> {t1}
=============================================================================
