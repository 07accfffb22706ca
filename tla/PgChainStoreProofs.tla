------------------------- MODULE PgChainStoreProofs -------------------------
(***************************************************************************)
(* Proofs about PgChainStore, for every block tree and every set of         *)
(* transactions: IInv is inductive, so the canonical rows always form one   *)
(* chain, the entity tables follow it and no transaction is lost.           *)
(***************************************************************************)
EXTENDS PgChainStore, TLAPS

(* What the database operators do to each table.                            *)
Marked(d, b, flag, e) ==
  /\ e \in Database
  /\ e.blocks = d.blocks /\ e.mempool = d.mempool /\ e.dropped = d.dropped
  /\ e.canonical = d.canonical /\ e.pruned = d.pruned
  /\ \A t \in EntityTable :
       KeyedByHash(t) => e.ent[t] = IF flag THEN d.ent[t] \cup {b} ELSE d.ent[t] \ {b}
  /\ flag =>
       /\ e.subdomains \subseteq d.subdomains \cup {b}
       /\ e.orphanSubdomains = d.orphanSubdomains \ {b}
  /\ ~flag =>
       /\ e.subdomains = d.subdomains \ {b}
       /\ e.orphanSubdomains \subseteq d.orphanSubdomains \cup {b}
  /\ e.late = d.late \ {b}

LEMMA MarkTables ==
  ASSUME NEW d \in Database, NEW b \in Block, NEW flag \in BOOLEAN
  PROVE  Marked(d, b, flag, markEntitiesCanonical(d, b, flag))
<1> DEFINE e == markEntitiesCanonical(d, b, flag)
<1> DEFINE m == markTables(d, b, flag)
<1>1. /\ m \in Database
      /\ m.blocks = d.blocks /\ m.mempool = d.mempool /\ m.dropped = d.dropped
      /\ m.canonical = d.canonical /\ m.pruned = d.pruned
      /\ \A t \in EntityTable :
           KeyedByHash(t) => m.ent[t] = IF flag THEN d.ent[t] \cup {b} ELSE d.ent[t] \ {b}
      /\ m.subdomains = d.subdomains /\ m.orphanSubdomains = d.orphanSubdomains
      /\ m.late = d.late
  BY DEF markTables, Database
<1>2. e = markSubdomains(m, b, flag)
  BY DEF markEntitiesCanonical
<1> HIDE DEF m, e
<1>3. /\ e \in Database
      /\ e.blocks = m.blocks /\ e.mempool = m.mempool /\ e.dropped = m.dropped
      /\ e.canonical = m.canonical /\ e.pruned = m.pruned /\ e.ent = m.ent
      /\ flag =>
           /\ e.subdomains \subseteq m.subdomains \cup {b}
           /\ e.orphanSubdomains = m.orphanSubdomains \ {b}
      /\ ~flag =>
           /\ e.subdomains = m.subdomains \ {b}
           /\ e.orphanSubdomains \subseteq m.orphanSubdomains \cup {b}
      /\ e.late = m.late \ {b}
  <2> DEFINE rows == {b} \cap (m.subdomains \cup m.orphanSubdomains)
             canon == IF flag THEN m.subdomains \cup rows ELSE m.subdomains \ {b}
             orphan == IF flag THEN m.orphanSubdomains \ {b}
                       ELSE m.orphanSubdomains \cup rows
  <2>1. e = [m EXCEPT !.subdomains = canon, !.orphanSubdomains = orphan,
                      !.late = m.late \ {b}]
    BY <1>1, <1>2 DEF markSubdomains, Database
  <2>2. /\ canon \subseteq Block /\ orphan \subseteq Block
        /\ flag => canon \subseteq m.subdomains \cup {b} /\ orphan = m.orphanSubdomains \ {b}
        /\ ~flag => canon = m.subdomains \ {b} /\ orphan \subseteq m.orphanSubdomains \cup {b}
    BY <1>1 DEF Database
  <2> HIDE DEF canon, orphan
  <2>3. /\ e.blocks = m.blocks /\ e.mempool = m.mempool /\ e.dropped = m.dropped
        /\ e.canonical = m.canonical /\ e.pruned = m.pruned /\ e.ent = m.ent
        /\ e.subdomains = canon /\ e.orphanSubdomains = orphan
        /\ e.late = m.late \ {b}
    BY <1>1, <2>1 DEF Database
  <2>4. e = [blocks |-> m.blocks, canonical |-> m.canonical, ent |-> m.ent,
             subdomains |-> canon, orphanSubdomains |-> orphan, late |-> m.late \ {b},
             mempool |-> m.mempool, pruned |-> m.pruned, dropped |-> m.dropped]
    BY <1>1, <2>1 DEF Database
  <2>5. e \in Database
    BY <1>1, <2>2, <2>4 DEF Database
  <2> QED BY <2>2, <2>3, <2>5
<1>4. Marked(d, b, flag, e)
  BY <1>1, <1>3 DEF Marked
<1> QED BY <1>4 DEF e

LEMMA RestoreLevelTables ==
  ASSUME NEW d \in Database, NEW b \in Block, NEW o \in Block \cup {NoBlock},
         o # b, NEW e, e = RestoreLevel(d, b, o)
  PROVE  /\ e \in Database
         /\ e.blocks = d.blocks
         /\ e.mempool = d.mempool
         /\ e.dropped = d.dropped
         /\ e.canonical = (d.canonical \cup {b}) \ Conflicting(d, b)
         /\ \A t \in EntityTable :
              KeyedByHash(t) => e.ent[t] = (d.ent[t] \cup {b}) \ {o}
         /\ e.subdomains \subseteq (d.subdomains \cup {b}) \ {o}
         /\ e.orphanSubdomains \subseteq (d.orphanSubdomains \cup ({o} \cap Block)) \ {b}
         /\ e.late = d.late \ {b, o}
         /\ \A x \in e.pruned :
              \/ x \in TxsOf[b]
              \/ x \in d.pruned /\ ~(o \in d.ent["txs"] /\ x \in TxsOf[o])
<1> DEFINE f == FlipBlocks(d, b)
           g == IF o = NoBlock THEN f ELSE OrphanEntities(f, o)
<1>0. "txs" \in EntityTable /\ KeyedByHash("txs")
  BY DEF EntityTable, TxTable, KeyedByHash, BnsTable
<1>1. /\ f \in Database
      /\ f.blocks = d.blocks /\ f.mempool = d.mempool /\ f.dropped = d.dropped
      /\ f.canonical = (d.canonical \cup {b}) \ Conflicting(d, b)
      /\ f.ent = d.ent /\ f.pruned = d.pruned
      /\ f.subdomains = d.subdomains /\ f.orphanSubdomains = d.orphanSubdomains
      /\ f.late = d.late
  BY DEF FlipBlocks, Database
<1>2. /\ g \in Database
      /\ g.blocks = f.blocks /\ g.mempool = f.mempool /\ g.dropped = f.dropped
      /\ g.canonical = f.canonical
      /\ \A t \in EntityTable : KeyedByHash(t) => g.ent[t] = f.ent[t] \ {o}
      /\ g.subdomains = f.subdomains \ {o}
      /\ g.orphanSubdomains \subseteq f.orphanSubdomains \cup ({o} \cap Block)
      /\ g.late = f.late \ {o}
      /\ g.pruned \subseteq f.pruned
      /\ o \in f.ent["txs"] => g.pruned \cap TxsOf[o] = {}
  <2>1. CASE o = NoBlock
    <3>1. /\ \A t \in EntityTable : o \notin f.ent[t]
          /\ o \notin f.subdomains /\ o \notin f.late
      BY <1>1, <2>1, BlockTreeAssumption DEF Database
    <3> QED BY <1>0, <1>1, <2>1, <3>1
  <2>2. CASE o # NoBlock
    <3> DEFINE m == markEntitiesCanonical(f, o, FALSE)
    <3>1. /\ m \in Database
          /\ m.blocks = f.blocks /\ m.mempool = f.mempool /\ m.dropped = f.dropped
          /\ m.canonical = f.canonical /\ m.pruned = f.pruned
          /\ \A t \in EntityTable : KeyedByHash(t) => m.ent[t] = f.ent[t] \ {o}
          /\ m.subdomains = f.subdomains \ {o} /\ m.late = f.late \ {o}
          /\ m.orphanSubdomains \subseteq f.orphanSubdomains \cup {o}
      <4> HIDE DEF f, m
      <4>1. o \in Block /\ f \in Database /\ FALSE \in BOOLEAN
        BY <1>1, <2>2
      <4>2. m = markEntitiesCanonical(f, o, FALSE)
        BY DEF m
      <4>3. Marked(f, o, FALSE, m)
        BY <4>1, <4>2, MarkTables
      <4> QED BY <4>3 DEF Marked
    <3>2. o \in f.ent["txs"] => txsMarked(f, o, FALSE) = TxsOf[o]
      BY DEF txsMarked
    <3>3. g = [m EXCEPT !.pruned = @ \ txsMarked(f, o, FALSE)]
      BY <2>2 DEF OrphanEntities, restoreMempoolTxs
    <3> HIDE DEF m, g, f
    <3> QED BY <3>1, <3>2, <3>3 DEF Database
  <2> QED BY <2>1, <2>2
<1>3. e = RestoreEntities(g, b)
  BY DEF RestoreLevel
<1>4. /\ e \in Database
      /\ e.blocks = g.blocks /\ e.mempool = g.mempool /\ e.dropped = g.dropped
      /\ e.canonical = g.canonical
      /\ \A t \in EntityTable : KeyedByHash(t) => e.ent[t] = g.ent[t] \cup {b}
      /\ e.subdomains \subseteq g.subdomains \cup {b}
      /\ e.orphanSubdomains = g.orphanSubdomains \ {b}
      /\ e.late = g.late \ {b}
      /\ e.pruned \subseteq g.pruned \cup TxsOf[b]
  <2> HIDE DEF g
  <2> DEFINE m == markEntitiesCanonical(g, b, TRUE)
  <2>1. /\ m \in Database
        /\ m.blocks = g.blocks /\ m.mempool = g.mempool /\ m.dropped = g.dropped
        /\ m.canonical = g.canonical /\ m.pruned = g.pruned
        /\ \A t \in EntityTable : KeyedByHash(t) => m.ent[t] = g.ent[t] \cup {b}
        /\ m.subdomains \subseteq g.subdomains \cup {b} /\ m.late = g.late \ {b}
        /\ m.orphanSubdomains = g.orphanSubdomains \ {b}
    <3> HIDE DEF m
    <3>1. g \in Database /\ TRUE \in BOOLEAN
      BY <1>2
    <3>2. m = markEntitiesCanonical(g, b, TRUE)
      BY DEF m
    <3>3. Marked(g, b, TRUE, m)
      BY <3>1, <3>2, MarkTables
    <3> QED BY <3>3 DEF Marked
  <2>2. txsMarked(g, b, TRUE) \subseteq TxsOf[b]
    BY DEF txsMarked
  <2>3. e = [m EXCEPT !.pruned = @ \cup (txsMarked(g, b, TRUE) \cap m.mempool)]
    BY <1>3 DEF RestoreEntities, pruneMempoolTxs
  <2> HIDE DEF m
  <2> QED BY <2>1, <2>2, <2>3 DEF Database
<1>5. \A t \in EntityTable : KeyedByHash(t) => e.ent[t] = (d.ent[t] \cup {b}) \ {o}
  <2> HIDE DEF f, g
  <2> QED BY <1>1, <1>2, <1>4
<1>6. \A x \in e.pruned :
        \/ x \in TxsOf[b]
        \/ x \in d.pruned /\ ~(o \in d.ent["txs"] /\ x \in TxsOf[o])
  <2> HIDE DEF f, g
  <2> QED BY <1>0, <1>1, <1>2, <1>4
<1>7. /\ e.subdomains \subseteq (d.subdomains \cup {b}) \ {o}
      /\ e.orphanSubdomains \subseteq (d.orphanSubdomains \cup ({o} \cap Block)) \ {b}
      /\ e.late = d.late \ {b, o}
  <2> HIDE DEF f, g
  <2> QED BY <1>1, <1>2, <1>4
<1> HIDE DEF f, g
<1> QED BY <1>1, <1>2, <1>4, <1>5, <1>6, <1>7

(* StoreBlock adds one row, canonical when it is above the tip.             *)
LEMMA StoreBlockTables ==
  ASSUME NEW d \in Database, NEW b \in Block, NEW tip \in Nat,
         NEW e, e = StoreBlock(d, b, tip)
  PROVE  /\ e \in Database
         /\ e.blocks = d.blocks \cup {b}
         /\ e.mempool = d.mempool
         /\ e.dropped = d.dropped
         /\ e.subdomains = d.subdomains /\ e.late = d.late
         /\ e.orphanSubdomains = d.orphanSubdomains
         /\ Height[b] > tip /\ b \notin d.blocks =>
              /\ e.canonical = d.canonical \cup {b}
              /\ \A t \in EntityTable : e.ent[t] = d.ent[t] \cup {b}
              /\ e.pruned \subseteq d.pruned \cup TxsOf[b]
         /\ ~(Height[b] > tip) =>
              /\ e.canonical = d.canonical
              /\ \A t \in EntityTable : e.ent[t] = d.ent[t]
              /\ e.pruned = d.pruned
<1>1. CASE Height[b] > tip
  <2> DEFINE p == pruneMempoolTxs(d, TxsOf[b])
  <2>1. /\ p \in Database
        /\ p.blocks = d.blocks /\ p.mempool = d.mempool /\ p.dropped = d.dropped
        /\ p.canonical = d.canonical /\ p.ent = d.ent
        /\ p.subdomains = d.subdomains /\ p.late = d.late
        /\ p.orphanSubdomains = d.orphanSubdomains
        /\ p.pruned \subseteq d.pruned \cup TxsOf[b]
    BY DEF pruneMempoolTxs, Database
  <2>2. e = InsertBlock(p, b, TRUE)
    BY <1>1 DEF StoreBlock
  <2> HIDE DEF p
  <2>3. CASE b \in p.blocks
    BY <1>1, <2>1, <2>2, <2>3 DEF InsertBlock, Database
  <2>4. CASE b \notin p.blocks
    BY <1>1, <2>1, <2>2, <2>4 DEF InsertBlock, Database
  <2> QED BY <2>3, <2>4
<1>2. CASE ~(Height[b] > tip)
  <2>1. e = InsertBlock(d, b, FALSE)
    BY <1>2 DEF StoreBlock
  <2>2. CASE b \in d.blocks
    BY <1>2, <2>1, <2>2 DEF InsertBlock, Database
  <2>3. CASE b \notin d.blocks
    BY <1>2, <2>1, <2>3 DEF InsertBlock, Database
  <2> QED BY <2>2, <2>3
<1> QED BY <1>1, <1>2

-----------------------------------------------------------------------------
(* The query of getChainTipHeight returns the greatest canonical height.    *)
LEMMA TipHeight ==
  ASSUME NEW d, d.canonical \subseteq d.blocks, d.blocks \subseteq Block,
         NEW h \in Nat, TipIs(d, h)
  PROVE  getChainTipHeight(d) = h
<1>1. CASE TipRows(d) = {}
  <2>1. h = 0
    BY <1>1 DEF TipIs, TipRows
  <2> QED BY <1>1, <2>1 DEF getChainTipHeight
<1>2. CASE TipRows(d) # {}
  <2> DEFINE r == CHOOSE b \in TipRows(d) : TRUE
  <2>1. r \in TipRows(d)
    BY <1>2
  <2> HIDE DEF r
  <2>2. r \in Block /\ r \in d.canonical /\ r \in d.blocks
    BY <2>1 DEF TipRows
  <2>3. Height[r] \in Nat \ {0} /\ Height[r] <= h
    BY <2>2, BlockTreeAssumption DEF TipIs
  <2>4. PICK b \in d.canonical : Height[b] = h
    BY <2>3 DEF TipIs
  <2>5. Height[b] <= Height[r]
    BY <2>1, <2>4 DEF TipRows
  <2>6. Height[r] = h
    BY <2>3, <2>4, <2>5
  <2> QED BY <1>2, <2>6 DEF getChainTipHeight, r
<1> QED BY <1>1, <1>2

LEMMA TipHeightType ==
  ASSUME NEW d \in Database
  PROVE  getChainTipHeight(d) \in Nat
<1>1. TipRows(d) \subseteq Block
  BY DEF TipRows, Database
<1> QED BY <1>1, BlockTreeAssumption DEF getChainTipHeight

(* One level of the restore walk keeps the walk's invariant, or ends it     *)
(* with a chain.                                                            *)
LEMMA RestoreStep ==
  ASSUME IInv, RestoreOrphanedChain
  PROVE  IInv'
<1> DEFINE r == restoring
<1>0. /\ TypeOK /\ DatabaseInv(db) /\ WorkInv /\ WalkInv
      /\ pc = "restore" /\ work \in Database /\ incoming \in Block
      /\ r \in work.blocks /\ r \notin work.canonical /\ r \in Block
      /\ work.blocks \subseteq Block /\ work.canonical \subseteq work.blocks
  BY DEF IInv, RestoreOrphanedChain, WalkInv, WorkInv, ParentsStored, TypeOK, Database
<1>1. PICK o \in Block \cup {NoBlock} :
        /\ work' = RestoreLevel(work, r, o)
        /\ o # r
        /\ o = NoBlock => Conflicting(work, r) = {}
        /\ o # NoBlock => o \in Conflicting(work, r)
  <2>1. PICK o \in (IF Conflicting(work, r) = {} THEN {NoBlock}
                    ELSE Conflicting(work, r)) :
          work' = RestoreLevel(work, r, o)
    BY DEF RestoreOrphanedChain
  <2>2. Conflicting(work, r) \subseteq Block /\ r \notin Conflicting(work, r)
    BY <1>0 DEF Conflicting
  <2> QED BY <1>0, <2>1, <2>2, BlockTreeAssumption
<1>2. Conflicting(work, r) = {o} \cap Block
  <2>1. \A c \in Conflicting(work, r) : c = o
    BY <1>0, <1>1 DEF Conflicting, WorkInv, OnePerHeight
  <2>2. Conflicting(work, r) \subseteq Block
    BY <1>0 DEF Conflicting
  <2> QED BY <1>1, <2>1, <2>2, BlockTreeAssumption
<1> DEFINE e == work'
<1>3. /\ e \in Database
      /\ e.blocks = work.blocks
      /\ e.mempool = work.mempool
      /\ e.dropped = work.dropped
      /\ e.canonical = (work.canonical \cup {r}) \ Conflicting(work, r)
      /\ \A t \in EntityTable :
           KeyedByHash(t) => e.ent[t] = (work.ent[t] \cup {r}) \ {o}
      /\ e.subdomains \subseteq (work.subdomains \cup {r}) \ {o}
      /\ e.orphanSubdomains \subseteq (work.orphanSubdomains \cup ({o} \cap Block)) \ {r}
      /\ e.late = work.late \ {r, o}
      /\ \A x \in e.pruned :
           \/ x \in TxsOf[r]
           \/ x \in work.pruned /\ ~(o \in work.ent["txs"] /\ x \in TxsOf[o])
  BY <1>0, <1>1, RestoreLevelTables
<1>4. e.canonical = (work.canonical \cup {r}) \ {o}
  BY <1>0, <1>2, <1>3
<1>5. UNCHANGED <<db, incoming, chainTip, blockUpdate>>
  BY DEF RestoreOrphanedChain
<1>6. \A b \in work.blocks : Height[b] \in Nat \ {0}
  BY <1>0, BlockTreeAssumption
<1>7. ParentsStored(e)
  BY <1>0, <1>3, <1>4 DEF WorkInv, ParentsStored
<1>8. OnePerHeight(e)
  <2> SUFFICES ASSUME NEW b \in e.canonical, NEW c \in e.canonical,
                      Height[b] = Height[c]
               PROVE  b = c
    BY DEF OnePerHeight
  <2> QED BY <1>0, <1>2, <1>3, <1>4 DEF WorkInv, OnePerHeight, Conflicting
<1>9. TipIs(e, chainTip)
  <2>1. ASSUME NEW b \in work.canonical
        PROVE  \E c \in e.canonical : Height[c] = Height[b]
    <3>1. CASE b = o
      <4>1. r \in e.canonical /\ Height[r] = Height[b]
        BY <1>0, <1>1, <1>4, <3>1, BlockTreeAssumption DEF Conflicting
      <4> QED BY <4>1
    <3>2. CASE b # o
      BY <1>4, <3>2
    <3> QED BY <3>1, <3>2
  <2> QED BY <1>0, <1>3, <2>1 DEF WorkInv, TipIs
<1>10. EntitiesFollow(e)
  <2>1. TablesFollow(e)
    BY <1>0, <1>3, <1>4 DEF WorkInv, EntitiesFollow, TablesFollow
  <2>2. {o} \cap Block \subseteq work.blocks
    BY <1>0, <1>1, BlockTreeAssumption DEF Conflicting
  <2>3. SubdomainsFollow(e)
    BY <1>0, <1>1, <1>3, <1>4, <2>2 DEF WorkInv, EntitiesFollow, SubdomainsFollow
  <2> QED BY <2>1, <2>3 DEF EntitiesFollow
<1>11. PrunedForAReason(e)
  <2>1. "txs" \in EntityTable /\ KeyedByHash("txs")
    BY DEF EntityTable, TxTable, KeyedByHash, BnsTable
  <2>2. e.ent["txs"] = (work.ent["txs"] \cup {r}) \ {o}
    BY <1>3, <2>1
  <2>3. TxsOf[r] \subseteq TxId
    BY <1>0, BlockTreeAssumption
  <2>4. ASSUME NEW x \in e.pruned
        PROVE  x \in e.dropped \cup MinedCanonical(e)
    <3>1. CASE x \in TxsOf[r]
      BY <1>1, <2>2, <2>3, <3>1 DEF MinedCanonical
    <3>2. CASE x \notin TxsOf[r]
      <4>1. x \in work.pruned /\ ~(o \in work.ent["txs"] /\ x \in TxsOf[o])
        BY <1>3, <3>2
      <4>2. x \in work.dropped \/ x \in MinedCanonical(work)
        BY <1>0, <4>1 DEF WorkInv, PrunedForAReason
      <4> QED BY <1>3, <2>2, <4>1, <4>2 DEF MinedCanonical
    <3> QED BY <3>1, <3>2
  <2> QED BY <2>4 DEF PrunedForAReason
<1>12. Height[incoming] > 1 => ParentRows(e, incoming) # {}
  BY <1>0, <1>3 DEF WorkInv, ParentRows
<1>13. WorkInv'
  BY <1>0, <1>3, <1>5, <1>7, <1>8, <1>9, <1>10, <1>11, <1>12
  DEF WorkInv, TipIs, ParentsStored, OnePerHeight, EntitiesFollow, TablesFollow,
      SubdomainsFollow,
      PrunedForAReason, MinedCanonical, ParentRows, getChainTipHeight, TipRows
<1>14. \A b \in e.canonical :
         b # r /\ Height[b] > 1 => Parent[b] \in e.canonical
  <2> SUFFICES ASSUME NEW b \in work.canonical, b # r, Height[b] > 1
               PROVE  Parent[b] \in e.canonical
    BY <1>4
  <2>1. CASE Height[b] = Height[r] + 1
    BY <1>0, <1>1, <1>4, <2>1 DEF WalkInv
  <2>2. CASE Height[b] # Height[r] + 1
    <3>1. Parent[b] \in work.canonical /\ Height[Parent[b]] = Height[b] - 1
      BY <1>0, <2>2 DEF WalkInv, WorkInv, ParentsStored
    <3>2. o \in Block => Height[o] = Height[r]
      BY <1>1, BlockTreeAssumption DEF Conflicting
    <3>3. Parent[b] # o
      BY <1>0, <1>6, <2>2, <3>1, <3>2
    <3> QED BY <1>4, <3>1, <3>3
  <2> QED BY <2>1, <2>2
<1>15. /\ Parent[incoming] \in e.canonical
       /\ Height[incoming] > chainTip /\ Height[incoming] > 1
       /\ Height[r] <= Height[Parent[incoming]]
  <2>1. CASE r = Parent[incoming]
    BY <1>0, <1>1, <1>4, <1>6, <2>1 DEF WalkInv
  <2>2. CASE r # Parent[incoming]
    <3>1. /\ Parent[incoming] \in work.canonical
          /\ Height[r] < Height[Parent[incoming]]
      BY <1>0, <2>2 DEF WalkInv
    <3>2. o \in Block => Height[o] = Height[r]
      BY <1>1, BlockTreeAssumption DEF Conflicting
    <3>3. Parent[incoming] # o
      BY <1>0, <1>6, <3>1, <3>2
    <3> QED BY <1>0, <1>4, <1>6, <3>1, <3>3 DEF WalkInv
  <2> QED BY <2>1, <2>2
<1>16. CASE /\ ParentRows(e, r) \ e.canonical = {}
            /\ restoring' = NoBlock
            /\ pc' = "store"
  <2>1. ParentsCanonical(e)
    <3>1. Height[r] > 1 => Parent[r] \in e.canonical
      BY <1>0, <1>3, <1>16 DEF WorkInv, ParentsStored, ParentRows
    <3> QED BY <1>14, <3>1 DEF ParentsCanonical
  <2>2. TypeOK'
    BY <1>0, <1>3, <1>5, <1>16 DEF TypeOK
  <2> QED
    BY <1>0, <1>5, <1>13, <1>15, <1>16, <2>1, <2>2
    DEF IInv, DatabaseInv, IsChain, ParentsStored, OnePerHeight, ParentsCanonical,
        TipIs, getChainTipHeight, TipRows, EntitiesFollow, PrunedForAReason,
        MinedCanonical
<1>17. CASE restoring' \in ParentRows(e, r) \ e.canonical /\ pc' = "restore"
  <2>1. /\ restoring' = Parent[r] /\ restoring' \in e.blocks \ e.canonical
        /\ Height[restoring'] = Height[r] - 1
        /\ restoring' \in Block
    BY <1>0, <1>3, <1>17 DEF ParentRows
  <2>2. ASSUME NEW b \in e.canonical
        PROVE  IF Height[b] = Height[restoring'] + 1 THEN Parent[b] = restoring'
               ELSE Height[b] > 1 => Parent[b] \in e.canonical
    <3>1. b \in work.blocks /\ Height[b] \in Nat /\ Height[r] \in Nat
      BY <1>0, <1>4, <1>6
    <3>2. CASE Height[b] = Height[restoring'] + 1
      <4>1. Height[b] = Height[r] /\ r \in e.canonical
        BY <1>1, <1>4, <2>1, <3>1, <3>2
      <4>2. b = r
        BY <1>8, <4>1 DEF OnePerHeight
      <4> QED BY <2>1, <3>2, <4>2
    <3>3. CASE Height[b] # Height[restoring'] + 1
      BY <1>14, <2>1, <3>1, <3>3
    <3> QED BY <3>2, <3>3
  <2>3. Height[restoring'] < Height[Parent[incoming]]
    BY <1>0, <1>4, <1>6, <1>15, <2>1
  <2>4. WalkInv'
    BY <1>5, <1>15, <2>1, <2>2, <2>3 DEF WalkInv
  <2>5. TypeOK'
    BY <1>0, <1>3, <1>5, <1>17, <2>1 DEF TypeOK
  <2> QED
    BY <1>0, <1>5, <1>13, <1>17, <2>4, <2>5
    DEF IInv, DatabaseInv, IsChain, ParentsStored, OnePerHeight, ParentsCanonical,
        TipIs, getChainTipHeight, TipRows, EntitiesFollow, PrunedForAReason,
        MinedCanonical
<1> QED BY <1>16, <1>17 DEF RestoreOrphanedChain

(* Storing the incoming block and committing keeps the chain.               *)
LEMMA StoreStep ==
  ASSUME IInv, StoreAndCommit
  PROVE  IInv'
<1> DEFINE n == incoming
           e == work'
<1>0. /\ TypeOK /\ WorkInv /\ pc = "store" /\ work \in Database
      /\ n \in Block /\ chainTip \in Nat
      /\ work.blocks \subseteq Block /\ work.canonical \subseteq work.blocks
      /\ ParentsCanonical(work)
      /\ Height[n] > chainTip /\ Height[n] > 1 => Parent[n] \in work.canonical
  BY DEF IInv, StoreAndCommit, WorkInv, ParentsStored, TypeOK, Database
<1>1. e = StoreBlock(work, n, chainTip) /\ db' = e /\ pc' = "emit"
      /\ UNCHANGED <<incoming, chainTip, restoring, blockUpdate>>
  BY DEF StoreAndCommit
<1>2. /\ e \in Database
      /\ e.blocks = work.blocks \cup {n}
      /\ e.mempool = work.mempool
      /\ e.dropped = work.dropped
      /\ e.subdomains = work.subdomains /\ e.late = work.late
      /\ e.orphanSubdomains = work.orphanSubdomains
      /\ Height[n] > chainTip /\ n \notin work.blocks =>
           /\ e.canonical = work.canonical \cup {n}
           /\ \A t \in EntityTable : e.ent[t] = work.ent[t] \cup {n}
           /\ e.pruned \subseteq work.pruned \cup TxsOf[n]
      /\ ~(Height[n] > chainTip) =>
           /\ e.canonical = work.canonical
           /\ \A t \in EntityTable : e.ent[t] = work.ent[t]
           /\ e.pruned = work.pruned
  BY <1>0, <1>1, StoreBlockTables
<1>3. \A b \in work.blocks \cup {n} : Height[b] \in Nat \ {0}
  BY <1>0, BlockTreeAssumption
<1>4. "txs" \in EntityTable /\ KeyedByHash("txs")
  BY DEF EntityTable, TxTable, KeyedByHash, BnsTable
<1>5. Height[n] > 1 => Parent[n] \in work.blocks /\ Height[Parent[n]] = Height[n] - 1
  BY <1>0 DEF WorkInv, ParentRows
<1>6. TypeOK'
  BY <1>0, <1>1, <1>2 DEF TypeOK
<1>7. CASE Height[n] > chainTip
  <2>1. n \notin work.blocks
    BY <1>0, <1>3, <1>7 DEF WorkInv, TipIs
  <2>2. /\ e.canonical = work.canonical \cup {n}
        /\ \A t \in EntityTable : e.ent[t] = work.ent[t] \cup {n}
        /\ e.pruned \subseteq work.pruned \cup TxsOf[n]
    BY <1>2, <1>7, <2>1
  <2>3. ParentsStored(e)
    BY <1>0, <1>2, <1>5, <2>2 DEF WorkInv, ParentsStored
  <2>4. \A b \in work.blocks : Height[b] < Height[n]
    BY <1>0, <1>3, <1>7 DEF WorkInv, TipIs
  <2>5. OnePerHeight(e)
    <3> SUFFICES ASSUME NEW b \in e.canonical, NEW c \in e.canonical,
                        Height[b] = Height[c]
                 PROVE  b = c
      BY DEF OnePerHeight
    <3> QED BY <1>0, <1>3, <2>2, <2>4 DEF WorkInv, OnePerHeight
  <2>6. ParentsCanonical(e)
    BY <1>0, <1>7, <2>2 DEF ParentsCanonical
  <2>7. TipIs(e, Height[n])
    BY <1>2, <1>3, <2>2, <2>4 DEF TipIs
  <2>8. getChainTipHeight(e) = Height[n]
    BY <1>0, <1>2, <1>3, <2>3, <2>7, TipHeight DEF ParentsStored
  <2>9. EntitiesFollow(e)
    <3>1. TablesFollow(e)
      BY <1>0, <2>2 DEF WorkInv, EntitiesFollow, TablesFollow
    <3>2. SubdomainsFollow(e)
      BY <1>0, <1>2, <2>1, <2>2 DEF WorkInv, EntitiesFollow, SubdomainsFollow
    <3> QED BY <3>1, <3>2 DEF EntitiesFollow
  <2>10. PrunedForAReason(e)
    <3>1. TxsOf[n] \subseteq MinedCanonical(e)
      BY <1>0, <1>4, <2>2, BlockTreeAssumption DEF MinedCanonical
    <3>2. MinedCanonical(work) \subseteq MinedCanonical(e)
      BY <1>4, <2>2 DEF MinedCanonical
    <3> QED BY <1>0, <1>2, <2>2, <3>1, <3>2 DEF WorkInv, PrunedForAReason
  <2>11. n \in TipRows(e)
    BY <1>2, <2>2, <2>4, <1>3 DEF TipRows
  <2>12. DatabaseInv(e)
    BY <2>3, <2>5, <2>6, <2>7, <2>8, <2>9, <2>10 DEF DatabaseInv, IsChain
  <2> HIDE DEF e
  <2> QED BY <1>1, <1>6, <2>11, <2>12 DEF IInv, e
<1>8. CASE ~(Height[n] > chainTip)
  <2>1. /\ e.canonical = work.canonical
        /\ \A t \in EntityTable : e.ent[t] = work.ent[t]
        /\ e.pruned = work.pruned
    BY <1>2, <1>8
  <2>2. ParentsStored(e)
    BY <1>0, <1>2, <1>5, <2>1 DEF WorkInv, ParentsStored
  <2>3. TipIs(e, chainTip)
    BY <1>0, <1>2, <1>3, <1>8, <2>1 DEF WorkInv, TipIs
  <2>4. getChainTipHeight(e) = chainTip
    BY <1>0, <1>2, <2>2, <2>3, TipHeight DEF ParentsStored
  <2>5. OnePerHeight(e) /\ ParentsCanonical(e)
    BY <1>0, <2>1 DEF WorkInv, OnePerHeight, ParentsCanonical
  <2>6. EntitiesFollow(e)
    BY <1>0, <1>2, <2>1 DEF WorkInv, EntitiesFollow, TablesFollow, SubdomainsFollow
  <2>7. PrunedForAReason(e)
    BY <1>0, <1>2, <1>4, <2>1 DEF WorkInv, PrunedForAReason, MinedCanonical
  <2>8. DatabaseInv(e)
    BY <2>2, <2>3, <2>4, <2>5, <2>6, <2>7 DEF DatabaseInv, IsChain
  <2> HIDE DEF e
  <2> QED BY <1>1, <1>6, <1>8, <2>8 DEF IInv, e
<1> QED BY <1>7, <1>8

(* Opening the transaction and the two outcomes of handleReorg.             *)
LEMMA BeginStep ==
  ASSUME IInv, NEW b \in Block, Begin(b)
  PROVE  IInv'
<1>1. /\ TypeOK /\ DatabaseInv(db) /\ db \in Database
      /\ work' = db /\ db' = db /\ pc' = "handleReorg" /\ incoming' = b
      /\ chainTip' = getChainTipHeight(db) /\ restoring' = restoring
      /\ blockUpdate' = NoEvent
  BY DEF IInv, Begin, TypeOK
<1>2. TypeOK'
  BY <1>1, TipHeightType DEF TypeOK, NoEvent
<1> QED BY <1>1, <1>2 DEF IInv

LEMMA HandleReorgStep ==
  ASSUME IInv, NoReorg \/ Reorg
  PROVE  IInv'
<1> DEFINE n == incoming
<1>0. /\ TypeOK /\ DatabaseInv(db) /\ work = db /\ n \in Block /\ db \in Database
      /\ chainTip = getChainTipHeight(db) /\ chainTip \in Nat
      /\ UNCHANGED <<db, work, incoming, chainTip, blockUpdate>>
      /\ Height[n] \in Nat \ {0}
  BY BlockTreeAssumption DEF IInv, NoReorg, Reorg, TypeOK
<1>1. /\ ParentsStored(work) /\ OnePerHeight(work) /\ ParentsCanonical(work)
      /\ TipIs(work, chainTip) /\ EntitiesFollow(work) /\ PrunedForAReason(work)
      /\ work.blocks = db.blocks
  BY <1>0 DEF DatabaseInv, IsChain
<1>2. \A p \in ParentRows(work, n) :
        /\ p = Parent[n] /\ p \in work.blocks /\ p \in Block
        /\ Height[p] = Height[n] - 1 /\ Height[p] \in Nat \ {0}
  BY <1>0, BlockTreeAssumption DEF ParentRows, Database
<1>3. Height[n] > 1 => ParentRows(work, n) # {}
  BY <1>0 DEF NoReorg, Reorg
<1>4. WorkInv
  BY <1>0, <1>1, <1>3 DEF WorkInv
<1>5. WorkInv'
  BY <1>0, <1>4 DEF WorkInv, ParentsStored, OnePerHeight, TipIs, EntitiesFollow,
     PrunedForAReason, MinedCanonical, getChainTipHeight, TipRows, ParentRows
<1>6. DatabaseInv(db)'
  BY <1>0 DEF DatabaseInv, IsChain, ParentsStored, OnePerHeight, ParentsCanonical,
     TipIs, getChainTipHeight, TipRows, EntitiesFollow, PrunedForAReason,
     MinedCanonical
<1>7. CASE NoReorg
  <2>1. TypeOK' /\ pc' = "store"
    BY <1>0, <1>7 DEF TypeOK, NoReorg
  <2>2. Height[n] > chainTip /\ Height[n] > 1 => Parent[n] \in work.canonical
    BY <1>0, <1>2, <1>7 DEF NoReorg
  <2>3. ParentsCanonical(work)'
    BY <1>0, <1>1 DEF ParentsCanonical
  <2> QED BY <1>0, <1>5, <1>6, <2>1, <2>2, <2>3 DEF IInv
<1>8. CASE Reorg
  <2>1. PICK p \in ParentRows(work, n) : p \notin work.canonical /\ restoring' = p
    BY <1>8 DEF Reorg
  <2>2. TypeOK' /\ pc' = "restore"
    BY <1>0, <1>2, <1>8, <2>1 DEF TypeOK, Reorg
  <2>3. Height[n] > chainTip /\ Height[n] > 1
    BY <1>8 DEF Reorg
  <2>4. \A b \in work.canonical : Height[b] # Height[p] + 1
    <3>1. \A b \in work.canonical : Height[b] <= chainTip /\ Height[b] \in Nat
      BY <1>0, <1>1, BlockTreeAssumption DEF ParentsStored, TipIs, Database
    <3> QED BY <1>0, <1>2, <2>1, <2>3, <3>1
  <2>5. WalkInv'
    BY <1>0, <1>1, <1>2, <2>1, <2>3, <2>4 DEF WalkInv, ParentsCanonical
  <2> QED BY <1>0, <1>5, <1>6, <2>2, <2>5 DEF IInv
<1> QED BY <1>7, <1>8

(* Undoing the transaction, and emitting after it.                          *)
LEMMA RollbackStep ==
  ASSUME IInv, Rollback
  PROVE  IInv'
<1>1. /\ TypeOK /\ DatabaseInv(db) /\ db' = db /\ work' = db /\ pc' = "idle"
      /\ incoming' = NoBlock /\ restoring' = NoBlock /\ chainTip' = 0
      /\ blockUpdate' = blockUpdate
  BY DEF IInv, Rollback
<1>2. TypeOK'
  BY <1>1 DEF TypeOK
<1> QED BY <1>1, <1>2 DEF IInv

LEMMA EmitStep ==
  ASSUME IInv, Emit
  PROVE  IInv'
<1>1. /\ TypeOK /\ DatabaseInv(db) /\ db' = db /\ work' = work /\ work = db
      /\ pc' = "idle" /\ pc = "emit" /\ incoming' = NoBlock /\ chainTip' = 0
      /\ restoring' = restoring
      /\ blockUpdate' = [block |-> incoming, canonical |-> Height[incoming] > chainTip]
  BY DEF IInv, Emit
<1>2. blockUpdate' \in [block : Block \cup {NoBlock}, canonical : BOOLEAN]
  BY <1>1 DEF TypeOK
<1>3. TypeOK'
  BY <1>1, <1>2 DEF TypeOK
<1> QED BY <1>1, <1>3 DEF IInv

(* The mempool handlers touch no block, and prune only what they drop.      *)
LEMMA MempoolStep ==
  ASSUME IInv, NEW txIds \in SUBSET TxId,
         UpdateMempoolTxs(txIds) \/ DropMempoolTxs(txIds)
  PROVE  IInv'
<1>0. /\ TypeOK /\ DatabaseInv(db) /\ db \in Database /\ pc = "idle"
      /\ UNCHANGED <<pc, incoming, chainTip, restoring, blockUpdate>>
      /\ work' = db'
  BY DEF IInv, UpdateMempoolTxs, DropMempoolTxs, TypeOK
<1>1. /\ db' \in Database
      /\ db'.blocks = db.blocks /\ db'.canonical = db.canonical /\ db'.ent = db.ent
      /\ db'.subdomains = db.subdomains /\ db'.orphanSubdomains = db.orphanSubdomains
      /\ db'.late = db.late
      /\ \A x \in db'.pruned : x \in db.pruned \/ x \in db'.dropped
      /\ db.dropped \subseteq db'.dropped
  <2>1. CASE UpdateMempoolTxs(txIds)
    BY <1>0, <2>1 DEF UpdateMempoolTxs, Database
  <2>2. CASE DropMempoolTxs(txIds)
    <3> DEFINE q == pruneMempoolTxs(db, txIds)
    <3>1. /\ q \in Database /\ q.blocks = db.blocks /\ q.canonical = db.canonical
          /\ q.ent = db.ent /\ q.dropped = db.dropped /\ q.mempool = db.mempool
          /\ q.subdomains = db.subdomains /\ q.orphanSubdomains = db.orphanSubdomains
          /\ q.late = db.late
          /\ q.pruned = db.pruned \cup (txIds \cap db.mempool)
      BY <1>0 DEF pruneMempoolTxs, Database
    <3>2. db' = [q EXCEPT !.dropped = @ \cup (txIds \cap db.mempool)]
      BY <2>2 DEF DropMempoolTxs
    <3> HIDE DEF q
    <3> QED BY <1>0, <3>1, <3>2 DEF Database
  <2> QED BY <2>1, <2>2
<1>2. TypeOK'
  BY <1>0, <1>1 DEF TypeOK
<1>3. getChainTipHeight(db') = getChainTipHeight(db)
  BY <1>1 DEF getChainTipHeight, TipRows
<1>4. IsChain(db')
  BY <1>0, <1>1, <1>3
  DEF DatabaseInv, IsChain, ParentsStored, OnePerHeight, ParentsCanonical, TipIs
<1>5. EntitiesFollow(db')
  BY <1>0, <1>1 DEF DatabaseInv, EntitiesFollow, TablesFollow, SubdomainsFollow
<1>6. PrunedForAReason(db')
  BY <1>0, <1>1 DEF DatabaseInv, PrunedForAReason, MinedCanonical
<1>7. DatabaseInv(db')
  BY <1>4, <1>5, <1>6 DEF DatabaseInv
<1> QED BY <1>0, <1>2, <1>7 DEF IInv

(* An attachment touches the subdomains alone, and notes the late ones.     *)
LEMMA AttachmentStep ==
  ASSUME IInv, NEW b \in NameUpdate, ResolveBnsSubdomains(b)
  PROVE  IInv'
<1>0. /\ TypeOK /\ DatabaseInv(db) /\ db \in Database /\ pc = "idle" /\ b \in Block
      /\ UNCHANGED <<pc, incoming, chainTip, restoring, blockUpdate>>
      /\ work' = db'
  BY BlockTreeAssumption DEF IInv, ResolveBnsSubdomains, TypeOK
<1>1. /\ db' \in Database
      /\ db'.blocks = db.blocks /\ db'.canonical = db.canonical /\ db'.ent = db.ent
      /\ db'.pruned = db.pruned /\ db'.dropped = db.dropped
      /\ db'.subdomains = db.subdomains \cup {b}
      /\ db'.orphanSubdomains = db.orphanSubdomains
      /\ db.late \subseteq db'.late
      /\ b \in db.canonical \cup db'.late
  BY <1>0 DEF ResolveBnsSubdomains, Database
<1>2. TypeOK'
  BY <1>0, <1>1 DEF TypeOK
<1>3. getChainTipHeight(db') = getChainTipHeight(db)
  BY <1>1 DEF getChainTipHeight, TipRows
<1>4. IsChain(db')
  BY <1>0, <1>1, <1>3
  DEF DatabaseInv, IsChain, ParentsStored, OnePerHeight, ParentsCanonical, TipIs
<1>5. EntitiesFollow(db')
  BY <1>0, <1>1 DEF DatabaseInv, EntitiesFollow, TablesFollow, SubdomainsFollow
<1>6. PrunedForAReason(db')
  BY <1>0, <1>1 DEF DatabaseInv, PrunedForAReason, MinedCanonical
<1>7. DatabaseInv(db')
  BY <1>4, <1>5, <1>6 DEF DatabaseInv
<1> QED BY <1>0, <1>2, <1>7 DEF IInv

-----------------------------------------------------------------------------
LEMMA InitInv == Init => IInv
<1> SUFFICES ASSUME Init PROVE IInv
  OBVIOUS
<1>1. /\ db \in Database /\ work = db /\ pc = "idle" /\ incoming = NoBlock
      /\ chainTip = 0 /\ restoring = NoBlock /\ blockUpdate = NoEvent
      /\ db.blocks = {} /\ db.canonical = {} /\ db.pruned = {}
      /\ \A t \in EntityTable : db.ent[t] = {}
      /\ db.subdomains = {} /\ db.orphanSubdomains = {}
  BY DEF Init, EmptyDatabase, Database
<1>2. TypeOK
  BY <1>1 DEF TypeOK, NoEvent
<1>3. getChainTipHeight(db) = 0
  BY <1>1 DEF getChainTipHeight, TipRows
<1>4. DatabaseInv(db)
  BY <1>1, <1>3 DEF DatabaseInv, IsChain, ParentsStored, OnePerHeight,
     ParentsCanonical, TipIs, EntitiesFollow, TablesFollow, SubdomainsFollow,
     PrunedForAReason
<1> QED BY <1>1, <1>2, <1>4 DEF IInv

LEMMA NextInv == IInv /\ [Next]_vars => IInv'
<1> SUFFICES ASSUME IInv, [Next]_vars PROVE IInv'
  OBVIOUS
<1>1. CASE \E b \in Block : Begin(b)
  BY <1>1, BeginStep
<1>2. CASE NoReorg \/ Reorg
  BY <1>2, HandleReorgStep
<1>3. CASE MissingParent \/ Abort
  BY <1>3, RollbackStep DEF MissingParent, Abort
<1>4. CASE RestoreOrphanedChain
  BY <1>4, RestoreStep
<1>5. CASE StoreAndCommit
  BY <1>5, StoreStep
<1>6. CASE Emit
  BY <1>6, EmitStep
<1>7. CASE Mempool
  BY <1>7, MempoolStep DEF Mempool
<1>8. CASE Attachments
  BY <1>8, AttachmentStep DEF Attachments
<1>9. CASE UNCHANGED vars
  BY <1>9 DEF vars, IInv, TypeOK, DatabaseInv, IsChain, ParentsStored, OnePerHeight,
     ParentsCanonical, TipIs, getChainTipHeight, TipRows, EntitiesFollow,
     PrunedForAReason, MinedCanonical, WorkInv, WalkInv, ParentRows
<1> QED BY <1>1, <1>2, <1>3, <1>4, <1>5, <1>6, <1>7, <1>8, <1>9 DEF Next, Update

(* The invariant holds in every behaviour of update() and the mempool and   *)
(* attachment handlers, for every block tree.                               *)
THEOREM Inductive == Spec => []IInv
<1>1. Init => IInv
  BY InitInv
<1>2. IInv /\ [Next]_vars => IInv'
  BY NextInv
<1> QED BY <1>1, <1>2, PTL DEF Spec

(* Type correctness of the tables and of update()'s local state.            *)
THEOREM TypeCorrect == Spec => []TypeOK
<1>1. IInv => TypeOK
  BY DEF IInv
<1> QED BY <1>1, Inductive, PTL

(* The canonical rows are one connected chain up to the greatest height,    *)
(* which getChainTipHeight returns.                                         *)
THEOREM ChainCorrect == Spec => []CanonicalChain
<1>1. IInv => CanonicalChain
  BY DEF IInv, DatabaseInv, CanonicalChain
<1> QED BY <1>1, Inductive, PTL

(* The tables matched by hash agree with `blocks' on what is canonical; the *)
(* subdomains do, but for attachments of a block not canonical.             *)
THEOREM EntitiesCorrect == Spec => []EntitiesFollowBlocks
<1>1. IInv => EntitiesFollowBlocks
  BY DEF IInv, DatabaseInv, EntitiesFollowBlocks
<1> QED BY <1>1, Inductive, PTL

(* restoreOrphanedChain never throws and never orphans two blocks at once.  *)
THEOREM RestoreSafe == Spec => []RestoreNeverThrows
<1>1. IInv => RestoreNeverThrows
  BY DEF IInv, WorkInv, WalkInv, OnePerHeight, Conflicting, RestoreNeverThrows
<1> QED BY <1>1, Inductive, PTL

(* No transaction of the mempool table is hidden by a reorg.                *)
THEOREM TxsKept == Spec => []NoTxLost
<1>1. IInv => NoTxLost
  <2> SUFFICES ASSUME IInv, NEW x \in db.mempool,
                      x \notin getMempoolTxList(db), x \notin MinedCanonical(db)
               PROVE  x \in getDroppedTxs(db)
    BY DEF NoTxLost
  <2>1. x \in db.pruned
    BY DEF getMempoolTxList
  <2>2. x \in db.dropped
    BY <2>1 DEF IInv, DatabaseInv, PrunedForAReason
  <2> QED BY <2>1, <2>2 DEF getDroppedTxs
<1> QED BY <1>1, Inductive, PTL

-----------------------------------------------------------------------------
(* How a step changes the committed `blocks' table: not at all, by one      *)
(* orphan, or by one new highest block on top of its parent's chain.        *)
ChangesNothing ==
  db'.blocks = db.blocks /\ db'.canonical = db.canonical

AddsOrphan ==
  /\ incoming \in Block
  /\ Index!Attached(incoming)
  /\ Height[incoming] <= getChainTipHeight(db)
  /\ db'.blocks = db.blocks \cup {incoming}
  /\ db'.canonical = db.canonical

AddsTip ==
  /\ incoming \in Block \ db.blocks
  /\ Index!Attached(incoming)
  /\ \A c \in db.blocks : Height[c] < Height[incoming]
  /\ db'.blocks = db.blocks \cup {incoming}
  /\ incoming \in db'.canonical
  /\ getChainTipHeight(db) < Height[incoming]

LEMMA CommitCases ==
  ASSUME IInv, [Next]_vars
  PROVE  ChangesNothing \/ AddsOrphan \/ AddsTip
<1>1. CASE StoreAndCommit
  <2> DEFINE n == incoming
  <2>0. /\ WorkInv /\ work \in Database /\ n \in Block /\ chainTip \in Nat
        /\ work.blocks = db.blocks /\ chainTip = getChainTipHeight(db)
        /\ ~(Height[n] > chainTip) => work.canonical = db.canonical
        /\ Height[n] \in Nat \ {0} /\ work.blocks \subseteq Block
    BY <1>1, BlockTreeAssumption DEF IInv, StoreAndCommit, WorkInv, TypeOK, Database
  <2>1. db' = StoreBlock(work, n, chainTip)
    BY <1>1 DEF StoreAndCommit
  <2>2. /\ db'.blocks = work.blocks \cup {n}
        /\ Height[n] > chainTip /\ n \notin work.blocks =>
             db'.canonical = work.canonical \cup {n}
        /\ ~(Height[n] > chainTip) => db'.canonical = work.canonical
    <3> DEFINE e == db'
    <3>1. work \in Database /\ n \in Block /\ chainTip \in Nat
          /\ e = StoreBlock(work, n, chainTip)
      BY <2>0, <2>1
    <3> HIDE DEF e, n
    <3>2. /\ e.blocks = work.blocks \cup {n}
          /\ Height[n] > chainTip /\ n \notin work.blocks =>
               e.canonical = work.canonical \cup {n}
          /\ ~(Height[n] > chainTip) => e.canonical = work.canonical
      BY <3>1, StoreBlockTables
    <3> QED BY <3>2 DEF e
  <2>3. Index!Attached(n)
    BY <2>0 DEF Index!Attached, WorkInv, ParentRows
  <2>4. \A c \in db.blocks : Height[c] <= chainTip /\ Height[c] \in Nat
    BY <2>0, BlockTreeAssumption DEF WorkInv, TipIs
  <2>5. CASE Height[n] > chainTip
    BY <2>0, <2>2, <2>3, <2>4, <2>5 DEF AddsTip
  <2>6. CASE ~(Height[n] > chainTip)
    BY <2>0, <2>2, <2>3, <2>6 DEF AddsOrphan
  <2> QED BY <2>5, <2>6
<1>2. CASE Mempool
  <2>1. db \in Database
    BY DEF IInv, TypeOK
  <2>2. PICK txIds \in SUBSET TxId : UpdateMempoolTxs(txIds) \/ DropMempoolTxs(txIds)
    BY <1>2 DEF Mempool
  <2>3. CASE UpdateMempoolTxs(txIds)
    BY <2>1, <2>3 DEF UpdateMempoolTxs, ChangesNothing, Database
  <2>4. CASE DropMempoolTxs(txIds)
    BY <2>1, <2>4 DEF DropMempoolTxs, pruneMempoolTxs, ChangesNothing, Database
  <2> QED BY <2>2, <2>3, <2>4
<1>3. CASE Attachments
  <2>1. db \in Database
    BY DEF IInv, TypeOK
  <2> QED BY <1>3, <2>1 DEF Attachments, ResolveBnsSubdomains, ChangesNothing, Database
<1>4. CASE db' = db
  BY <1>4 DEF ChangesNothing
<1> QED BY <1>1, <1>2, <1>3, <1>4 DEF Next, Update, vars, Begin, NoReorg, Reorg,
        MissingParent, Abort, Rollback, RestoreOrphanedChain, Emit

(* The committed tip height stays or grows by one.                          *)
THEOREM TipMonotone == Spec => TipNeverDecreases
<1>1. IInv /\ IInv' /\ [Next]_vars =>
        [getChainTipHeight(db') \in {getChainTipHeight(db), getChainTipHeight(db) + 1}]_vars
  <2> SUFFICES ASSUME IInv, IInv', [Next]_vars
               PROVE  getChainTipHeight(db') \in
                        {getChainTipHeight(db), getChainTipHeight(db) + 1}
    OBVIOUS
  <2>0. /\ db \in Database /\ db' \in Database
        /\ IsChain(db) /\ IsChain(db')
        /\ getChainTipHeight(db) \in Nat
    BY TipHeightType DEF IInv, TypeOK, DatabaseInv
  <2>1. CASE ChangesNothing
    BY <2>1 DEF ChangesNothing, getChainTipHeight, TipRows
  <2>2. CASE AddsOrphan
    <3>1. TipIs(db', getChainTipHeight(db))
      BY <2>0, <2>2 DEF AddsOrphan, IsChain, TipIs
    <3> QED BY <2>0, <3>1, TipHeight DEF IsChain, ParentsStored, Database
  <2>3. CASE AddsTip
    <3> DEFINE n == incoming
    <3>1. Height[n] \in Nat \ {0} /\ n \in Block
      BY <2>3, BlockTreeAssumption DEF AddsTip
    <3>2. TipIs(db', Height[n])
      BY <2>0, <2>3, <3>1, BlockTreeAssumption DEF AddsTip, TipIs, Database
    <3>3. getChainTipHeight(db') = Height[n]
      BY <2>0, <3>1, <3>2, TipHeight DEF IsChain, ParentsStored, Database
    <3>4. Height[n] > 1 => Height[n] - 1 <= getChainTipHeight(db)
      BY <2>0, <2>3 DEF AddsTip, Index!Attached, IsChain, TipIs
    <3> QED BY <2>0, <2>3, <3>1, <3>3, <3>4 DEF AddsTip
  <2> QED BY <2>1, <2>2, <2>3, CommitCases
<1> QED BY <1>1, Inductive, PTL DEF Spec, TipNeverDecreases

(* Canonical flags change only for a new highest block.                     *)
THEOREM ReorgRule == Spec => ReorgOnlyToLongerChain
<1>1. IInv /\ [Next]_vars =>
        [db'.canonical # db.canonical =>
           /\ incoming \in db'.canonical \ db.blocks
           /\ \A c \in db.blocks : Height[c] < Height[incoming]]_vars
  BY CommitCases DEF ChangesNothing, AddsOrphan, AddsTip
<1> QED BY <1>1, Inductive, PTL DEF Spec, ReorgOnlyToLongerChain

(* A block announced as canonical is the committed tip.                     *)
THEOREM AnnouncedTip == Spec => AnnouncedCanonicalIsTip
<1>1. IInv /\ [Next]_vars =>
        [blockUpdate' # blockUpdate /\ blockUpdate'.canonical =>
           blockUpdate'.block \in TipRows(db)]_vars
  <2> SUFFICES ASSUME IInv, [Next]_vars, blockUpdate' # blockUpdate,
                      blockUpdate'.canonical
               PROVE  blockUpdate'.block \in TipRows(db)
    OBVIOUS
  <2>1. CASE Emit
    <3>1. /\ pc = "emit"
          /\ blockUpdate'.block = incoming
          /\ blockUpdate'.canonical = (Height[incoming] > chainTip)
      BY <2>1 DEF Emit
    <3> QED BY <3>1 DEF IInv
  <2>2. CASE \E b \in Block : Begin(b)
    <3>1. blockUpdate'.canonical = FALSE
      BY <2>2 DEF Begin, NoEvent
    <3> QED BY <3>1
  <2>3. CASE UNCHANGED blockUpdate
    BY <2>3
  <2> QED BY <2>1, <2>2, <2>3 DEF Next, Update, Mempool, vars, NoReorg, Reorg,
        MissingParent, Abort, Rollback, RestoreOrphanedChain, StoreAndCommit,
        UpdateMempoolTxs, DropMempoolTxs, Attachments, ResolveBnsSubdomains
<1> QED BY <1>1, Inductive, PTL DEF Spec, AnnouncedCanonicalIsTip

(* The committed table implements the longest-chain index.                  *)
THEOREM Refinement == Spec => ImplementsLongestChain
<1>1. Init => Index!Init
  BY DEF Init, Index!Init, EmptyDatabase
<1>2. IInv /\ IInv' /\ [Next]_vars => [Index!Next]_(Index!chain)
  <2> SUFFICES ASSUME IInv, IInv', [Next]_vars
               PROVE  [Index!Next]_(Index!chain)
    OBVIOUS
  <2>0. IsChain(db) /\ IsChain(db') /\ db \in Database /\ db' \in Database
    BY DEF IInv, DatabaseInv, TypeOK
  <2>1. CASE ChangesNothing
    BY <2>1 DEF ChangesNothing, Index!chain
  <2>2. CASE AddsOrphan
    <3>1. Height[incoming] \in Nat \ {0}
      BY <2>2, BlockTreeAssumption DEF AddsOrphan
    <3>2. \E c \in db.blocks : Height[incoming] <= Height[c]
      BY <2>0, <2>2, <3>1 DEF AddsOrphan, IsChain, TipIs, ParentsStored
    <3>3. Index!Fork(incoming)
      BY <2>2, <3>2 DEF AddsOrphan, Index!Fork
    <3> QED BY <2>2, <3>3 DEF AddsOrphan, Index!Next
  <2>3. CASE AddsTip
    <3>1. db'.canonical \subseteq db'.blocks
      BY <2>0 DEF IsChain, ParentsStored
    <3>2. \A c \in db'.blocks : Height[c] <= Height[incoming]
      BY <2>0, <2>3, BlockTreeAssumption DEF AddsTip, Database
    <3>3. Index!IsBranch(db'.canonical, incoming)
      BY <2>0, <2>3, <3>1, <3>2
      DEF AddsTip, Index!IsBranch, IsChain, ParentsCanonical, OnePerHeight
    <3>4. Index!Extend(incoming)
      BY <2>3, <3>1, <3>3 DEF AddsTip, Index!Extend
    <3> QED BY <2>3, <3>4 DEF AddsTip, Index!Next
  <2> QED BY <2>1, <2>2, <2>3, CommitCases
<1> QED BY <1>1, <1>2, Inductive, PTL DEF Spec, ImplementsLongestChain, Index!Spec
=============================================================================
