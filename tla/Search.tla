------------------------------- MODULE Search -------------------------------
(***************************************************************************)
(* GET /search/:term (search.ts; searchHash and searchPrincipal of          *)
(* postgres-store.ts) while blocks and mempool transactions arrive.  Each   *)
(* table is asked by a statement of its own.                                *)
(***************************************************************************)
EXTENDS Naturals, Sequences, FiniteSets

CONSTANTS
  Block, Parent, Height,
  Tx,
  TxsOf,          \* transactions of a block
  Contract,       \* contract principals
  DeployedBy,     \* contract -> the transaction that deploys it
  Account,        \* account principals
  AccountTables,  \* <<block, account>> -> tables with a row that names it
  MaxSearches

ASSUME SearchAssumption ==
  /\ Tx \cap Block = {} /\ Tx \cap Contract = {} /\ Tx \cap Account = {}
  /\ Block \cap Contract = {} /\ Block \cap Account = {} /\ Contract \cap Account = {}
  /\ TxsOf \in [Block -> SUBSET Tx]
  /\ DeployedBy \in [Contract -> Tx]
  /\ MaxSearches \in Nat

VARIABLES
  known, main,    \* blocks, and those with canonical = true
  received,       \* tx ids of mempool_txs
  pruned,         \* those with pruned = true
  search,         \* the search under way
  moved,          \* history: a block was stored during the search
  dropped,        \* history: transactions the node dropped during the search
  count

chain == <<known, main>>
vars == <<chain, received, pruned, search, moved, dropped, count>>

Chain == INSTANCE LongestChain
Hash == Tx \cup Block
Tables == <<"txs", "stx_events", "ft_events", "nft_events">>

-----------------------------------------------------------------------------
Mined(t) == {b \in known : t \in TxsOf[b]}
Pending(t) == t \in received \ pruned
TxsIn(blocks) == UNION {TxsOf[b] : b \in blocks}

BlocksNamed(x) == {x} \cap known

RowsNaming(a, table) == {b \in known : table \in AccountTables[<<b, a>>]}

(* What a search should find.                                               *)
Stored(x) ==
  CASE x \in Block -> x \in known
    [] x \in Tx -> Pending(x) \/ Mined(x) # {}
    [] x \in Contract -> Pending(DeployedBy[x]) \/ Mined(DeployedBy[x]) # {}
    [] x \in Account -> \E i \in DOMAIN Tables : RowsNaming(x, Tables[i]) # {}

NoSearch == [pc |-> "none"]
Idle == search.pc \in {"none", "found", "notFound"}

Init ==
  /\ Chain!Init
  /\ received = {} /\ pruned = {} /\ search = NoSearch
  /\ moved = FALSE /\ dropped = {} /\ count = 0

(* update, as PgChainStore implements it: what becomes canonical is pruned, *)
(* what is orphaned is given back, and a transaction of both branches of a  *)
(* fork may be given back too, depending on the order of the walk.          *)
Update ==
  /\ \E b \in Block \ known : Chain!Fork(b) \/ Chain!Extend(b)
  /\ LET joined == TxsIn(main' \ main)
         left == TxsIn(main \ main')
     IN  \E back \in SUBSET left :
           /\ left \ joined \subseteq back
           /\ pruned' = (pruned \cup (joined \cap received)) \ back
  /\ moved' = TRUE
  /\ UNCHANGED <<received, search, dropped, count>>

(* updateMempoolTxs.                                                        *)
Receive(t) ==
  /\ t \notin received /\ received' = received \cup {t}
  /\ UNCHANGED <<chain, pruned, search, moved, dropped, count>>

(* dropMempoolTxs, of a transaction that the node replaced or took for      *)
(* stale: pruned like one that is mined.                                    *)
dropMempoolTxs(t) ==
  /\ t \in received
  /\ pruned' = pruned \cup {t} /\ dropped' = dropped \cup {t}
  /\ UNCHANGED <<chain, received, search, moved, count>>

(* Mutant: contracts are looked for in txs first.                           *)
FirstTableMined(x) ==
  IF x \in Hash THEN "txs" ELSE IF x \in Contract THEN "contractTxs" ELSE "accounts"

(* performSearch: a hash, a contract or an account.                         *)
FirstTable(x) ==
  IF x \in Hash THEN "txs" ELSE IF x \in Contract THEN "contractMempool" ELSE "accounts"

Begin(x) ==
  /\ Idle /\ count < MaxSearches
  /\ count' = count + 1 /\ moved' = FALSE /\ dropped' = {}
  /\ search' = [pc |-> FirstTable(x), term |-> x, stored |-> Stored(x), table |-> 1]
  /\ UNCHANGED <<chain, received, pruned>>

Set(s) == search' = s /\ UNCHANGED <<chain, received, pruned, moved, dropped, count>>
Result(is, data) == [pc |-> "found", term |-> search.term, stored |-> search.stored, is |-> is, data |-> data]
NotFound == [search EXCEPT !.pc = "notFound"]

(* searchHash: txs, any row of the transaction.                             *)
HashInTxs ==
  /\ search.pc = "txs"
  /\ IF search.term \in Tx /\ Mined(search.term) # {}
     THEN \E b \in Mined(search.term) :
            Set(Result("tx_id", [canonical |-> b \in main, mined |-> Mined(search.term) \cap main # {}]))
     ELSE Set([search EXCEPT !.pc = "mempool"])

HashInMempool ==
  /\ search.pc = "mempool"
  /\ Set(IF search.term \in Tx /\ Pending(search.term) THEN Result("mempool_tx_id", {})
         ELSE [search EXCEPT !.pc = "blocks"])

HashInBlocks ==
  /\ search.pc = "blocks"
  /\ Set(IF BlocksNamed(search.term) # {} THEN Result("block_hash", {}) ELSE NotFound)

(* searchPrincipal of a contract: its transaction, pending or mined.        *)
ContractInMempool ==
  /\ search.pc = "contractMempool"
  /\ Set(IF Pending(DeployedBy[search.term]) THEN Result("contract_address", {})
         ELSE [search EXCEPT !.pc = "contractTxs"])

ContractInTxs ==
  /\ search.pc = "contractTxs"
  /\ Set(IF Mined(DeployedBy[search.term]) # {} THEN Result("contract_address", {}) ELSE NotFound)

(* searchPrincipal of an account: four tables, one after the other.         *)
AccountInTable ==
  /\ search.pc = "accounts"
  /\ Set(IF RowsNaming(search.term, Tables[search.table]) # {} THEN Result("standard_address", {})
         ELSE IF search.table = Len(Tables) THEN NotFound
         ELSE [search EXCEPT !.table = @ + 1])

Next ==
  \/ Update \/ \E t \in Tx : Receive(t) \/ dropMempoolTxs(t)
  \/ \E x \in Hash \cup Contract \cup Account : Begin(x)
  \/ HashInTxs \/ HashInMempool \/ HashInBlocks
  \/ ContractInMempool \/ ContractInTxs \/ AccountInTable

Spec == Init /\ [][Next]_vars

-----------------------------------------------------------------------------
(* TypeOK: pruned rows are rows, and the tables are gone through in order.  *)
TypeOK ==
  /\ known \subseteq Block /\ main \subseteq known
  /\ pruned \subseteq received /\ received \subseteq Tx
  /\ search.pc = "found" => search.is \in
       IF search.term \in Tx THEN {"tx_id", "mempool_tx_id"}
       ELSE IF search.term \in Block THEN {"block_hash"}
       ELSE IF search.term \in Contract THEN {"contract_address"} ELSE {"standard_address"}

(* A block or an account with a row in any fork is found.                   *)
BlockOrAccountFound ==
  search.pc = "notFound" /\ search.term \in Block \cup Account => ~search.stored

(* A contract pending or mined when the search begins is found, unless the  *)
(* node drops its transaction meanwhile: mempool_txs is asked before txs,   *)
(* so that it cannot slip from one to the other in between.                 *)
ContractFound ==
  search.pc = "notFound" /\ search.term \in Contract /\ search.stored =>
    DeployedBy[search.term] \in dropped

(* A stored transaction is found, apart from blocks stored meanwhile, and   *)
(* unless the node drops it meanwhile.                                      *)
TxFoundUnlessMoved ==
  search.pc = "notFound" /\ search.term \in Tx /\ search.stored =>
    moved \/ search.term \in dropped

(* The inductive invariant: the shape of the search, and what is left for   *)
(* the tables not asked yet to hold if the term was stored when it began.   *)
Terms == Hash \cup Contract \cup Account

Steps == {"txs", "mempool", "blocks", "contractMempool", "contractTxs", "accounts"}

Asking == search.pc \in Steps

SearchShape ==
  /\ search.pc \in Steps \cup {"none", "found", "notFound"}
  /\ search.pc # "none" => search.term \in Terms
  /\ Asking => search \in [pc : Steps, term : Terms, stored : BOOLEAN, table : 1..Len(Tables)]
  /\ search.pc \in {"txs", "mempool", "blocks"} => search.term \in Hash
  /\ search.pc \in {"contractMempool", "contractTxs"} => search.term \in Contract
  /\ search.pc = "accounts" => search.term \in Account

BlockLeft == Asking /\ search.term \in Block /\ search.stored => search.term \in known

AccountLeft ==
  search.pc = "accounts" /\ search.stored =>
    \E i \in search.table..Len(Tables) : RowsNaming(search.term, Tables[i]) # {}

(* A contract's transaction that is not dropped leaves the mempool only     *)
(* into the chain tables, and those lose no row.                            *)
ContractLeft ==
  LET deploy == DeployedBy[search.term] IN
  /\ search.pc = "contractMempool" /\ search.stored =>
       Pending(deploy) \/ Mined(deploy) # {} \/ deploy \in dropped
  /\ search.pc = "contractTxs" /\ search.stored => Mined(deploy) # {} \/ deploy \in dropped

TxLeft ==
  Asking /\ search.term \in Tx /\ search.stored /\ ~moved /\ search.term \notin dropped =>
    /\ search.pc = "txs" => Pending(search.term) \/ Mined(search.term) # {}
    /\ search.pc = "mempool" => Pending(search.term)
    /\ search.pc # "blocks"

IInv ==
  /\ TypeOK /\ SearchShape
  /\ BlockLeft /\ AccountLeft /\ ContractLeft /\ TxLeft
  /\ BlockOrAccountFound /\ ContractFound /\ TxFoundUnlessMoved

(* "Search blocks, transactions, contracts, or accounts by hash/ID": a      *)
(* transaction pending or mined when the search begins is found.            *)
TxFound == search.pc = "notFound" /\ search.term \in Tx => ~search.stored

(* The canonical flag shown with a transaction is TRUE if the canonical     *)
(* chain holds it.                                                          *)
CanonicalShown ==
  search.pc = "found" /\ search.is = "tx_id" => (search.data.mined => search.data.canonical)
=============================================================================
