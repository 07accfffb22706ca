---------------------------- MODULE SearchProofs ----------------------------
(***************************************************************************)
(* Search finds what was stored when it began, for every chain, every set   *)
(* of transactions and every interleaving with update, updateMempoolTxs and *)
(* dropMempoolTxs.                                                          *)
(***************************************************************************)
EXTENDS Search, TLAPS

-----------------------------------------------------------------------------
(* update only adds blocks, and the main chain stays among them.            *)
LEMMA ChainGrows ==
  ASSUME TypeOK, Update
  PROVE  /\ known' \subseteq Block /\ known \subseteq known'
         /\ main' \subseteq known'
<1>1. PICK b \in Block \ known : Chain!Fork(b) \/ Chain!Extend(b)
  BY DEF Update
<1>2. CASE Chain!Fork(b)
  BY <1>2 DEF Chain!Fork, TypeOK
<1>3. CASE Chain!Extend(b)
  BY <1>3 DEF Chain!Extend, TypeOK
<1> QED
  BY <1>1, <1>2, <1>3

(* update takes a transaction out of the mempool only when a block of the   *)
(* chain holds it, and takes no row away.                                   *)
LEMMA LeavesForTheChain ==
  ASSUME TypeOK, Update, NEW t \in Tx
  PROVE  /\ Mined(t) # {} => Mined(t)' # {}
         /\ Pending(t) => (Pending(t) \/ Mined(t) # {})'
<1>1. known \subseteq known' /\ main' \subseteq known'
  BY ChainGrows
<1>2. Mined(t) # {} => Mined(t)' # {}
  BY <1>1 DEF Mined
<1>3. ASSUME Pending(t), ~Pending(t)' PROVE Mined(t)' # {}
  <2>1. received' = received
    BY DEF Update
  <2>2. t \in received /\ t \notin pruned /\ t \in pruned'
    BY <1>3, <2>1 DEF Pending
  <2>3. t \in TxsIn(main' \ main)
    BY <2>2 DEF Update
  <2>4. PICK b \in main' \ main : t \in TxsOf[b]
    BY <2>3 DEF TxsIn
  <2> QED
    BY <1>1, <2>4 DEF Mined
<1> QED
  BY <1>2, <1>3

LEMMA InitHolds == Init => IInv
<1> SUFFICES ASSUME Init PROVE IInv
  OBVIOUS
<1>1. search.pc = "none" /\ known = {} /\ main = {} /\ received = {} /\ pruned = {}
  BY DEF Init, Chain!Init, NoSearch
<1> QED
  BY <1>1 DEF IInv, TypeOK, SearchShape, Steps, Asking, BlockLeft, AccountLeft, ContractLeft, TxLeft,
     BlockOrAccountFound, ContractFound, TxFoundUnlessMoved

-----------------------------------------------------------------------------
LEMMA UpdateHolds ==
  ASSUME IInv, Update
  PROVE  IInv'
<1> USE SearchAssumption
<1>0. TypeOK /\ SearchShape /\ moved' = TRUE /\ search' = search /\ received' = received
      /\ dropped' = dropped
  BY DEF IInv, Update
<1>1. known' \subseteq Block /\ known \subseteq known' /\ main' \subseteq known'
  BY <1>0, ChainGrows
<1>2. TypeOK'
  <2>1. pruned' \subseteq received'
    BY <1>0 DEF Update, TypeOK
  <2> QED
    BY <1>0, <1>1, <2>1 DEF TypeOK
<1>3. SearchShape'
  BY <1>0 DEF SearchShape, Steps, Asking
<1>4. BlockLeft'
  BY <1>0, <1>1 DEF IInv, BlockLeft, Asking
<1>5. AccountLeft'
  <2>1. SUFFICES ASSUME search.pc = "accounts", search.stored
                 PROVE  \E i \in search.table..Len(Tables) : RowsNaming(search.term, Tables[i])' # {}
    BY <1>0 DEF AccountLeft
  <2>2. PICK i \in search.table..Len(Tables) : RowsNaming(search.term, Tables[i]) # {}
    BY <2>1 DEF IInv, AccountLeft
  <2>3. RowsNaming(search.term, Tables[i])' # {}
    BY <1>0, <1>1, <2>2 DEF RowsNaming
  <2> QED
    BY <2>2, <2>3
<1>6. ContractLeft'
  <2>1. ASSUME search.pc \in {"contractMempool", "contractTxs"} PROVE DeployedBy[search.term] \in Tx
    BY <1>0, <2>1 DEF SearchShape, Steps
  <2>2. ASSUME search.pc = "contractMempool", search.stored,
               DeployedBy[search.term] \notin dropped
        PROVE  (Pending(DeployedBy[search.term]) \/ Mined(DeployedBy[search.term]) # {})'
    <3>1. Pending(DeployedBy[search.term]) \/ Mined(DeployedBy[search.term]) # {}
      BY <2>2 DEF IInv, ContractLeft
    <3> DEFINE t == DeployedBy[search.term]
    <3>2. t \in Tx /\ t' = t
      BY <2>1, <2>2, <1>0
    <3>3. ASSUME NEW u \in Tx, Pending(u) \/ Mined(u) # {} PROVE u \in (received' \ pruned') \/ {b \in known' : u \in TxsOf[b]} # {}
      BY <1>0, <3>3, LeavesForTheChain DEF Pending, Mined
    <3>4. t \in (received' \ pruned') \/ {b \in known' : t \in TxsOf[b]} # {}
      BY <3>1, <3>2, <3>3
    <3> QED
      BY <3>4, <1>0 DEF Pending, Mined
  <2>3. ASSUME search.pc = "contractTxs", search.stored, DeployedBy[search.term] \notin dropped
        PROVE  Mined(DeployedBy[search.term])' # {}
    BY <2>3, <1>0, <1>1 DEF IInv, ContractLeft, Mined
  <2> QED
    BY <1>0, <2>2, <2>3 DEF ContractLeft
<1>7. TxLeft'
  BY <1>0 DEF TxLeft
<1>8. BlockOrAccountFound' /\ ContractFound'
  BY <1>0 DEF IInv, BlockOrAccountFound, ContractFound
<1>9. TxFoundUnlessMoved'
  BY <1>0 DEF TxFoundUnlessMoved
<1> QED
  BY <1>2, <1>3, <1>4, <1>5, <1>6, <1>7, <1>8, <1>9 DEF IInv

LEMMA ReceiveHolds ==
  ASSUME IInv, NEW t \in Tx, Receive(t)
  PROVE  IInv'
<1>1. /\ known' = known /\ main' = main /\ pruned' = pruned /\ search' = search /\ moved' = moved
      /\ dropped' = dropped /\ received' = received \cup {t}
  BY DEF Receive, chain
<1>2. TypeOK' /\ SearchShape'
  BY <1>1 DEF IInv, TypeOK, SearchShape, Steps, Asking
<1>3. BlockLeft' /\ AccountLeft'
  BY <1>1 DEF IInv, BlockLeft, AccountLeft, Asking, RowsNaming
<1>4. ContractLeft'
  BY <1>1 DEF IInv, ContractLeft, Pending, Mined
<1>5. TxLeft'
  BY <1>1 DEF IInv, TxLeft, Asking, Pending, Mined
<1>6. BlockOrAccountFound' /\ ContractFound' /\ TxFoundUnlessMoved'
  BY <1>1 DEF IInv, BlockOrAccountFound, ContractFound, TxFoundUnlessMoved
<1> QED
  BY <1>2, <1>3, <1>4, <1>5, <1>6 DEF IInv

(* A dropped transaction is claimed to be nowhere.                          *)
LEMMA DropHolds ==
  ASSUME IInv, NEW t \in Tx, dropMempoolTxs(t)
  PROVE  IInv'
<1>1. /\ known' = known /\ main' = main /\ received' = received /\ search' = search
      /\ moved' = moved /\ t \in received
      /\ pruned' = pruned \cup {t} /\ dropped' = dropped \cup {t}
  BY DEF dropMempoolTxs, chain
<1>2. TypeOK' /\ SearchShape'
  BY <1>1 DEF IInv, TypeOK, SearchShape, Steps, Asking
<1>3. BlockLeft' /\ AccountLeft'
  BY <1>1 DEF IInv, BlockLeft, AccountLeft, Asking, RowsNaming
<1>4. ContractLeft'
  BY <1>1 DEF IInv, ContractLeft, Pending, Mined
<1>5. TxLeft'
  BY <1>1 DEF IInv, TxLeft, Asking, Pending, Mined
<1>6. BlockOrAccountFound' /\ ContractFound' /\ TxFoundUnlessMoved'
  BY <1>1 DEF IInv, BlockOrAccountFound, ContractFound, TxFoundUnlessMoved
<1> QED
  BY <1>2, <1>3, <1>4, <1>5, <1>6 DEF IInv

(* The search begins with every table ahead of it.                          *)
LEMMA BeginHolds ==
  ASSUME IInv, NEW x \in Terms, Begin(x)
  PROVE  IInv'
<1> USE SearchAssumption
<1>1. /\ known' = known /\ main' = main /\ pruned' = pruned /\ received' = received /\ moved' = FALSE
      /\ dropped' = {}
      /\ search' = [pc |-> FirstTable(x), term |-> x, stored |-> Stored(x), table |-> 1]
  BY DEF Begin, chain
<1>2. search'.pc = FirstTable(x) /\ search'.term = x /\ search'.stored = Stored(x) /\ search'.table = 1
  BY <1>1
<1>3. /\ x \in Hash => FirstTable(x) = "txs"
      /\ x \in Contract => FirstTable(x) = "contractMempool"
      /\ x \in Account => FirstTable(x) = "accounts"
  BY DEF FirstTable, Hash
<1>4. Len(Tables) = 4 /\ DOMAIN Tables = 1..4
  BY DEF Tables
<1>5. /\ x \in Block => Stored(x) = (x \in known)
      /\ x \in Tx => Stored(x) = (Pending(x) \/ Mined(x) # {})
      /\ x \in Contract => Stored(x) = (Pending(DeployedBy[x]) \/ Mined(DeployedBy[x]) # {})
      /\ x \in Account => Stored(x) = (\E i \in DOMAIN Tables : RowsNaming(x, Tables[i]) # {})
  BY DEF Stored
<1>6. x \in Block \/ x \in Tx \/ x \in Contract \/ x \in Account
  BY DEF Terms, Hash
<1>7. Stored(x) \in BOOLEAN
  <2>1. CASE x \in Block
    BY <1>5, <2>1
  <2>2. CASE x \in Tx
    BY <1>5, <2>2
  <2>3. CASE x \in Contract
    BY <1>5, <2>3
  <2>4. CASE x \in Account
    BY <1>5, <2>4
  <2> QED
    BY <1>6, <2>1, <2>2, <2>3, <2>4
<1>8. TypeOK'
  <2>1. search'.pc # "found"
    BY <1>2, <1>3, <1>6 DEF Hash
  <2> QED
    BY <1>1, <2>1 DEF IInv, TypeOK
<1>9. SearchShape'
  <2>1. FirstTable(x) \in {"txs", "contractMempool", "accounts"}
    BY <1>3, <1>6 DEF Hash
  <2>2. search' \in [pc : Steps, term : Terms, stored : BOOLEAN, table : 1..Len(Tables)]
    <3>1. FirstTable(x) \in Steps /\ 1 \in 1..Len(Tables)
      BY <1>4, <2>1 DEF Steps
    <3> QED
      BY <1>1, <1>7, <3>1, Zenon
  <2> QED
    BY <2>1, <2>2, <1>2, <1>3, <1>4, <1>6 DEF SearchShape, Steps, Terms, Hash
<1>10. BlockLeft'
  BY <1>1, <1>2, <1>5 DEF BlockLeft
<1>11. AccountLeft'
  <2>1. ASSUME search'.pc = "accounts", search'.stored
        PROVE  \E i \in search'.table..Len(Tables) : {b \in known' : Tables[i] \in AccountTables[<<b, search'.term>>]} # {}
    <3>1. x \in Account
      BY <2>1, <1>2, <1>3, <1>6 DEF Hash
    <3> QED
      BY <2>1, <3>1, <1>1, <1>2, <1>4, <1>5 DEF RowsNaming
  <2> QED
    BY <2>1 DEF AccountLeft, RowsNaming, Tables
<1>12. ContractLeft'
  <2>1. search'.pc # "contractTxs"
    BY <1>2, <1>3, <1>6 DEF Hash
  <2>2. search'.pc = "contractMempool" => x \in Contract
    BY <1>2, <1>3, <1>6 DEF Hash
  <2> QED
    BY <2>1, <2>2, <1>1, <1>2, <1>5 DEF ContractLeft, Pending, Mined
<1>13. TxLeft'
  <2>1. x \in Tx => search'.pc = "txs"
    BY <1>2, <1>3 DEF Hash
  <2> QED
    BY <2>1, <1>1, <1>2, <1>5 DEF TxLeft, Pending, Mined
<1>14. BlockOrAccountFound' /\ ContractFound' /\ TxFoundUnlessMoved'
  <2>1. search'.pc # "notFound"
    BY <1>2, <1>3, <1>6 DEF Hash
  <2> QED
    BY <2>1 DEF BlockOrAccountFound, ContractFound, TxFoundUnlessMoved
<1> QED
  BY <1>8, <1>9, <1>10, <1>11, <1>12, <1>13, <1>14 DEF IInv
-----------------------------------------------------------------------------
(* The tables, one statement each: what is found has its kind, and what is  *)
(* passed over is left to the tables that follow.                           *)
LEMMA FoundHolds ==
  ASSUME IInv, NEW is, NEW data, search.pc # "none", Set(Result(is, data)),
         is \in IF search.term \in Tx THEN {"tx_id", "mempool_tx_id"}
               ELSE IF search.term \in Block THEN {"block_hash"}
               ELSE IF search.term \in Contract THEN {"contract_address"} ELSE {"standard_address"}
  PROVE  IInv'
<1>1. /\ known' = known /\ main' = main /\ pruned' = pruned /\ received' = received /\ moved' = moved /\ dropped' = dropped
      /\ search' = Result(is, data)
  BY DEF Set, chain
<1>2. search'.pc = "found" /\ search'.term = search.term /\ search'.is = is
  BY <1>1 DEF Result
<1>3. TypeOK'
  BY <1>1, <1>2 DEF IInv, TypeOK
<1>4. SearchShape'
  BY <1>2 DEF IInv, SearchShape, Steps, Asking
<1>5. BlockLeft' /\ AccountLeft' /\ ContractLeft' /\ TxLeft'
  BY <1>2 DEF BlockLeft, AccountLeft, ContractLeft, TxLeft, Asking, Steps
<1>6. BlockOrAccountFound' /\ ContractFound' /\ TxFoundUnlessMoved'
  BY <1>2 DEF BlockOrAccountFound, ContractFound, TxFoundUnlessMoved
<1> QED
  BY <1>3, <1>4, <1>5, <1>6 DEF IInv

LEMMA HashHolds ==
  ASSUME IInv, HashInTxs \/ HashInMempool \/ HashInBlocks
  PROVE  IInv'
<1> USE SearchAssumption
<1>1. Asking /\ search.pc # "none" /\ search.term \in Hash
  BY DEF IInv, SearchShape, Steps, Asking, HashInTxs, HashInMempool, HashInBlocks
<1>2. CASE HashInTxs
  <2>1. CASE search.term \in Tx /\ Mined(search.term) # {}
    <3>1. PICK b \in Mined(search.term) :
            Set(Result("tx_id", [canonical |-> b \in main, mined |-> Mined(search.term) \cap main # {}]))
      BY <1>2, <2>1 DEF HashInTxs
    <3> QED
      BY <1>1, <2>1, <3>1, FoundHolds
  <2>2. CASE ~(search.term \in Tx /\ Mined(search.term) # {})
    <3>1. Set([search EXCEPT !.pc = "mempool"]) /\ search.pc = "txs"
      BY <1>2, <2>2 DEF HashInTxs
    <3>2. /\ known' = known /\ main' = main /\ pruned' = pruned /\ received' = received /\ moved' = moved /\ dropped' = dropped
          /\ search' \in [pc : Steps, term : Terms, stored : BOOLEAN, table : 1..Len(Tables)]
          /\ search'.pc = "mempool" /\ search'.term = search.term /\ search'.stored = search.stored
      BY <1>1, <3>1 DEF IInv, SearchShape, Steps, Asking, Set, chain
    <3>3. TypeOK' /\ SearchShape'
      BY <1>1, <3>2 DEF IInv, TypeOK, SearchShape, Steps
    <3>4. BlockLeft' /\ AccountLeft' /\ ContractLeft'
      BY <1>1, <3>2 DEF IInv, BlockLeft, AccountLeft, ContractLeft
    <3>5. TxLeft'
      BY <1>1, <2>2, <3>1, <3>2 DEF IInv, TxLeft, Pending, Mined
    <3>6. BlockOrAccountFound' /\ ContractFound' /\ TxFoundUnlessMoved'
      BY <3>2 DEF BlockOrAccountFound, ContractFound, TxFoundUnlessMoved
    <3> QED
      BY <3>3, <3>4, <3>5, <3>6 DEF IInv
  <2> QED
    BY <2>1, <2>2
<1>3. CASE HashInMempool
  <2>1. CASE search.term \in Tx /\ Pending(search.term)
    BY <1>1, <1>3, <2>1, FoundHolds DEF HashInMempool
  <2>2. CASE ~(search.term \in Tx /\ Pending(search.term))
    <3>1. Set([search EXCEPT !.pc = "blocks"]) /\ search.pc = "mempool"
      BY <1>3, <2>2 DEF HashInMempool
    <3>2. /\ known' = known /\ main' = main /\ pruned' = pruned /\ received' = received /\ moved' = moved /\ dropped' = dropped
          /\ search' \in [pc : Steps, term : Terms, stored : BOOLEAN, table : 1..Len(Tables)]
          /\ search'.pc = "blocks" /\ search'.term = search.term /\ search'.stored = search.stored
      BY <1>1, <3>1 DEF IInv, SearchShape, Steps, Asking, Set, chain
    <3>3. TypeOK' /\ SearchShape'
      BY <1>1, <3>2 DEF IInv, TypeOK, SearchShape, Steps
    <3>4. BlockLeft' /\ AccountLeft' /\ ContractLeft'
      BY <1>1, <3>2 DEF IInv, BlockLeft, AccountLeft, ContractLeft
    <3>5. TxLeft'
      BY <1>1, <2>2, <3>1, <3>2 DEF IInv, TxLeft
    <3>6. BlockOrAccountFound' /\ ContractFound' /\ TxFoundUnlessMoved'
      BY <3>2 DEF BlockOrAccountFound, ContractFound, TxFoundUnlessMoved
    <3> QED
      BY <3>3, <3>4, <3>5, <3>6 DEF IInv
  <2> QED
    BY <2>1, <2>2
<1>4. CASE HashInBlocks
  <2>1. CASE BlocksNamed(search.term) # {}
    <3>1. search.term \in Block /\ search.term \notin Tx
      BY <2>1 DEF BlocksNamed, IInv, TypeOK
    <3> QED
      BY <1>1, <1>4, <2>1, <3>1, FoundHolds DEF HashInBlocks
  <2>2. CASE BlocksNamed(search.term) = {}
    <3>1. Set([search EXCEPT !.pc = "notFound"]) /\ search.pc = "blocks" /\ search.term \notin known
      BY <1>4, <2>2 DEF HashInBlocks, NotFound, BlocksNamed
    <3>2. /\ known' = known /\ main' = main /\ pruned' = pruned /\ received' = received /\ moved' = moved /\ dropped' = dropped
          /\ search'.pc = "notFound" /\ search'.term = search.term /\ search'.stored = search.stored
      BY <1>1, <3>1 DEF IInv, SearchShape, Steps, Asking, Set, chain
    <3>3. TypeOK' /\ SearchShape'
      BY <3>2, <3>1 DEF IInv, TypeOK, SearchShape, Steps, Asking
    <3>4. BlockLeft' /\ AccountLeft' /\ ContractLeft' /\ TxLeft'
      BY <3>2 DEF BlockLeft, AccountLeft, ContractLeft, TxLeft, Asking, Steps
    <3>5. BlockOrAccountFound'
      BY <1>1, <3>1, <3>2 DEF IInv, BlockLeft, BlockOrAccountFound, Hash
    <3>6. ContractFound'
      BY <1>1, <3>2 DEF ContractFound, Hash
    <3>7. TxFoundUnlessMoved'
      BY <1>1, <3>1, <3>2 DEF IInv, TxLeft, TxFoundUnlessMoved
    <3> QED
      BY <3>3, <3>4, <3>5, <3>6, <3>7 DEF IInv
  <2> QED
    BY <2>1, <2>2
<1> QED
  BY <1>2, <1>3, <1>4

LEMMA ContractHolds ==
  ASSUME IInv, ContractInMempool \/ ContractInTxs
  PROVE  IInv'
<1> USE SearchAssumption
<1>1. /\ Asking /\ search.pc # "none" /\ search.term \in Contract
      /\ search.term \notin Tx /\ search.term \notin Block /\ search.term \notin Account
  BY DEF IInv, SearchShape, Steps, Asking, ContractInMempool, ContractInTxs
<1>2. CASE ContractInMempool
  <2>1. CASE Pending(DeployedBy[search.term])
    BY <1>1, <1>2, <2>1, FoundHolds DEF ContractInMempool
  <2>2. CASE ~Pending(DeployedBy[search.term])
    <3>1. Set([search EXCEPT !.pc = "contractTxs"]) /\ search.pc = "contractMempool"
      BY <1>2, <2>2 DEF ContractInMempool
    <3>2. /\ known' = known /\ main' = main /\ pruned' = pruned /\ received' = received /\ moved' = moved /\ dropped' = dropped
          /\ search' \in [pc : Steps, term : Terms, stored : BOOLEAN, table : 1..Len(Tables)]
          /\ search'.pc = "contractTxs" /\ search'.term = search.term /\ search'.stored = search.stored
      BY <1>1, <3>1 DEF IInv, SearchShape, Steps, Asking, Set, chain
    <3>3. TypeOK' /\ SearchShape'
      BY <1>1, <3>2 DEF IInv, TypeOK, SearchShape, Steps
    <3>4. BlockLeft' /\ AccountLeft' /\ TxLeft'
      BY <1>1, <3>2 DEF BlockLeft, AccountLeft, TxLeft
    <3>5. ContractLeft'
      BY <2>2, <3>1, <3>2 DEF IInv, ContractLeft, Pending, Mined
    <3>6. BlockOrAccountFound' /\ ContractFound' /\ TxFoundUnlessMoved'
      BY <3>2 DEF BlockOrAccountFound, ContractFound, TxFoundUnlessMoved
    <3> QED
      BY <3>3, <3>4, <3>5, <3>6 DEF IInv
  <2> QED
    BY <2>1, <2>2
<1>3. CASE ContractInTxs
  <2>1. CASE Mined(DeployedBy[search.term]) # {}
    BY <1>1, <1>3, <2>1, FoundHolds DEF ContractInTxs
  <2>2. CASE Mined(DeployedBy[search.term]) = {}
    <3>1. Set([search EXCEPT !.pc = "notFound"]) /\ search.pc = "contractTxs"
      BY <1>3, <2>2 DEF ContractInTxs, NotFound
    <3>2. /\ known' = known /\ main' = main /\ pruned' = pruned /\ received' = received /\ moved' = moved /\ dropped' = dropped
          /\ search'.pc = "notFound" /\ search'.term = search.term /\ search'.stored = search.stored
      BY <1>1, <3>1 DEF IInv, SearchShape, Steps, Asking, Set, chain
    <3>3. TypeOK' /\ SearchShape'
      BY <3>1, <3>2 DEF IInv, TypeOK, SearchShape, Steps, Asking
    <3>4. BlockLeft' /\ AccountLeft' /\ ContractLeft' /\ TxLeft'
      BY <3>2 DEF BlockLeft, AccountLeft, ContractLeft, TxLeft, Asking, Steps
    <3>5. ContractFound'
      BY <2>2, <3>1, <3>2 DEF IInv, ContractLeft, ContractFound
    <3>6. BlockOrAccountFound' /\ TxFoundUnlessMoved'
      BY <1>1, <3>2 DEF BlockOrAccountFound, TxFoundUnlessMoved
    <3> QED
      BY <3>3, <3>4, <3>5, <3>6 DEF IInv
  <2> QED
    BY <2>1, <2>2
<1> QED
  BY <1>2, <1>3

LEMMA AccountHolds ==
  ASSUME IInv, AccountInTable
  PROVE  IInv'
<1> USE SearchAssumption
<1>1. /\ Asking /\ search.pc = "accounts" /\ search.term \in Account /\ search.table \in 1..4
      /\ search.term \notin Tx /\ search.term \notin Block /\ search.term \notin Contract
      /\ Len(Tables) = 4
  <2>1. Len(Tables) = 4
    BY DEF Tables
  <2>2. search.pc = "accounts"
    BY DEF AccountInTable
  <2> QED
    BY <2>1, <2>2 DEF IInv, SearchShape, Steps, Asking
<1>2. CASE RowsNaming(search.term, Tables[search.table]) # {}
  BY <1>1, <1>2, FoundHolds DEF AccountInTable
<1>3. CASE RowsNaming(search.term, Tables[search.table]) = {} /\ search.table = Len(Tables)
  <2>1. Set([search EXCEPT !.pc = "notFound"])
    BY <1>3 DEF AccountInTable, NotFound
  <2>2. /\ known' = known /\ main' = main /\ pruned' = pruned /\ received' = received /\ moved' = moved /\ dropped' = dropped
        /\ search'.pc = "notFound" /\ search'.term = search.term /\ search'.stored = search.stored
    BY <1>1, <2>1 DEF IInv, SearchShape, Steps, Asking, Set, chain
  <2>3. TypeOK' /\ SearchShape'
    BY <1>1, <2>2 DEF IInv, TypeOK, SearchShape, Steps, Asking
  <2>4. BlockLeft' /\ AccountLeft' /\ ContractLeft' /\ TxLeft'
    BY <2>2 DEF BlockLeft, AccountLeft, ContractLeft, TxLeft, Asking, Steps
  <2>5. BlockOrAccountFound'
    <3>1. ~search.stored
      <4>1. SUFFICES ASSUME search.stored PROVE FALSE
        OBVIOUS
      <4>2. PICK i \in search.table..Len(Tables) : RowsNaming(search.term, Tables[i]) # {}
        BY <1>1, <4>1 DEF IInv, AccountLeft
      <4>3. i = search.table
        BY <1>1, <1>3, <4>2
      <4> QED
        BY <1>3, <4>2, <4>3
    <3> QED
      BY <2>2, <3>1 DEF BlockOrAccountFound
  <2>6. ContractFound' /\ TxFoundUnlessMoved'
    BY <1>1, <2>2 DEF ContractFound, TxFoundUnlessMoved
  <2> QED
    BY <2>3, <2>4, <2>5, <2>6 DEF IInv
<1>4. CASE RowsNaming(search.term, Tables[search.table]) = {} /\ search.table # Len(Tables)
  <2>1. Set([search EXCEPT !.table = search.table + 1])
    BY <1>4 DEF AccountInTable
  <2>2. /\ known' = known /\ main' = main /\ pruned' = pruned /\ received' = received /\ moved' = moved /\ dropped' = dropped
        /\ search' \in [pc : Steps, term : Terms, stored : BOOLEAN, table : 1..Len(Tables)]
        /\ search'.pc = "accounts" /\ search'.term = search.term /\ search'.stored = search.stored
        /\ search'.table = search.table + 1
    BY <1>1, <1>4, <2>1 DEF IInv, SearchShape, Steps, Asking, Set, chain
  <2>3. TypeOK' /\ SearchShape'
    BY <1>1, <2>2 DEF IInv, TypeOK, SearchShape, Steps
  <2>4. BlockLeft' /\ ContractLeft' /\ TxLeft'
    BY <1>1, <2>2 DEF BlockLeft, ContractLeft, TxLeft
  <2>5. ASSUME search.stored
        PROVE  \E i \in search.table + 1..Len(Tables) : RowsNaming(search.term, Tables[i]) # {}
    <3>1. PICK i \in search.table..Len(Tables) : RowsNaming(search.term, Tables[i]) # {}
      BY <1>1, <2>5 DEF IInv, AccountLeft
    <3>2. i # search.table
      BY <1>4, <3>1
    <3>3. i \in search.table + 1..Len(Tables)
      BY <1>1, <3>1, <3>2
    <3> QED
      BY <3>1, <3>3
  <2>6. AccountLeft'
    BY <2>2, <2>5 DEF AccountLeft, RowsNaming, Tables
  <2>7. BlockOrAccountFound' /\ ContractFound' /\ TxFoundUnlessMoved'
    BY <2>2 DEF BlockOrAccountFound, ContractFound, TxFoundUnlessMoved
  <2> QED
    BY <2>3, <2>4, <2>6, <2>7 DEF IInv
<1> QED
  BY <1>2, <1>3, <1>4

-----------------------------------------------------------------------------
(* IInv holds in every reachable state: what a search has not found yet is  *)
(* in a table it has not asked yet.                                         *)
THEOREM Invariant == Spec => []IInv
<1>1. ASSUME IInv, [Next]_vars PROVE IInv'
  <2>1. CASE Update
    BY <1>1, <2>1, UpdateHolds
  <2>2. CASE \E t \in Tx : Receive(t) \/ dropMempoolTxs(t)
    BY <1>1, <2>2, ReceiveHolds, DropHolds
  <2>3. CASE \E x \in Hash \cup Contract \cup Account : Begin(x)
    BY <1>1, <2>3, BeginHolds DEF Terms
  <2>4. CASE HashInTxs \/ HashInMempool \/ HashInBlocks
    BY <1>1, <2>4, HashHolds
  <2>5. CASE ContractInMempool \/ ContractInTxs
    BY <1>1, <2>5, ContractHolds
  <2>6. CASE AccountInTable
    BY <1>1, <2>6, AccountHolds
  <2>7. CASE UNCHANGED vars
    BY <1>1, <2>7 DEF vars, chain, IInv, TypeOK, SearchShape, Steps, Asking, BlockLeft, AccountLeft,
       ContractLeft, TxLeft, BlockOrAccountFound, ContractFound, TxFoundUnlessMoved, Pending, Mined, RowsNaming
  <2> QED
    BY <1>1, <2>1, <2>2, <2>3, <2>4, <2>5, <2>6, <2>7 DEF Next
<1> QED
  BY <1>1, InitHolds, PTL DEF Spec

(* TypeOK of Search: pruned rows are rows, and what is found has the kind   *)
(* of its term (searchHash, searchPrincipal).                               *)
THEOREM TypeCorrect == Spec => []TypeOK
<1>1. IInv => TypeOK
  BY DEF IInv
<1> QED
  BY <1>1, Invariant, PTL

(* A contract pending or mined when the search begins is found, whatever    *)
(* blocks, reorganisations and mempool messages come between the two        *)
(* statements, unless one of them drops its transaction: searchPrincipal    *)
(* asks mempool_txs before txs.                                             *)
THEOREM ContractsFound == Spec => []ContractFound
<1>1. IInv => ContractFound
  BY DEF IInv
<1> QED
  BY <1>1, Invariant, PTL

(* A block, and an account with a row in one of the four tables, is found.  *)
THEOREM BlocksAndAccountsFound == Spec => []BlockOrAccountFound
<1>1. IInv => BlockOrAccountFound
  BY DEF IInv
<1> QED
  BY <1>1, Invariant, PTL

(* searchHash asks txs before mempool_txs, so only a block stored, or a     *)
(* dropped transaction, between the two statements makes a stored           *)
(* transaction not found.                                                   *)
THEOREM TxsFoundUnlessMoved == Spec => []TxFoundUnlessMoved
<1>1. IInv => TxFoundUnlessMoved
  BY DEF IInv
<1> QED
  BY <1>1, Invariant, PTL

=============================================================================
