---------------------------- MODULE PgChainStore ----------------------------
(***************************************************************************)
(* The chain tables of the Postgres store (src/datastore/postgres-store.ts): *)
(* the `blocks' table with its `canonical' flags, the ten tables of block   *)
(* entities update() fills, which repeat the flag, the `subdomains' table   *)
(* the attachments fill, and the `mempool_txs' table.                       *)
(*                                                                         *)
(* A block is named by its index_block_hash, the primary key of `blocks'.  *)
(* `PgDataStore.update' runs in one SQL transaction, so the store is kept   *)
(* twice: `db' is the committed state every other client sees, `work' the   *)
(* state inside the open transaction.  The recursion of                    *)
(* `restoreOrphanedChain' is a sequence of steps, one per level.  A crash,  *)
(* a lost connection or a thrown error may end the transaction at any step. *)
(* The event server's queue (concurrency 1) runs one writer at a time.      *)
(***************************************************************************)
EXTENDS Naturals

CONSTANTS
  Block,     \* the index_block_hashes the node may ever announce
  NoBlock,   \* no block: an unset cursor
  Parent,    \* parent_index_block_hash of a block, possibly never announced
  Height,    \* block_height of a block
  TxId,      \* transaction ids
  TxsOf,     \* the transactions of a block
  NameUpdate \* blocks with a name-update whose zone file lists subdomains

ASSUME BlockTreeAssumption ==
  /\ NoBlock \notin Block
  /\ Height \in [Block -> Nat \ {0}]
  /\ Parent \in [Block -> Block \cup {NoBlock}]
  /\ TxsOf \in [Block -> SUBSET TxId]
  /\ NameUpdate \subseteq Block

VARIABLES
  db,          \* committed tables, a record of Database
  work,        \* the tables as the open transaction sees them (db if none is open)
  pc,          \* where `update' stands
  incoming,    \* the block `update' was called with
  chainTip,    \* chainTip.blockHeight, read when the transaction began
  restoring,   \* argument of the pending restoreOrphanedChain call
  blockUpdate  \* the `blockUpdate' event the last call of `update' emitted

vars == <<db, work, pc, incoming, chainTip, restoring, blockUpdate>>

-----------------------------------------------------------------------------
(* Tables update() fills, whose rows carry a block's index_block_hash and   *)
(* canonical flag.                                                          *)
TxTable == {"txs", "miner_rewards"}
EventTable == {"stx_lock_events", "stx_events", "ft_events", "nft_events"}
ContractTable == {"contract_logs", "smart_contracts"}
BnsTable == {"names", "namespaces"}

EntityTable == TxTable \cup EventTable \cup ContractTable \cup BnsTable

(* updateNames and updateNamespaces pass index_block_hash as the text       *)
(* "0x...", which Postgres stores in the bytea column as those characters;  *)
(* every other insert decodes it with hexToBuffer.  A row is found by its   *)
(* block's hash only in the tables that decode it.                          *)
KeyedByHash(t) == t \notin BnsTable

(* blocks: rows of `blocks'; canonical: those flagged canonical; ent[t]:    *)
(* blocks whose rows in table t are flagged canonical; mempool: rows of     *)
(* mempool_txs; pruned, dropped: rows with pruned = true, dropped status.   *)
(* subdomains, orphanSubdomains: blocks with a row of `subdomains' flagged  *)
(* canonical, not canonical.  late (history): blocks whose subdomains were  *)
(* stored while they were not canonical, and which no reorg marked since.   *)
Database ==
  [blocks : SUBSET Block, canonical : SUBSET Block,
   ent : [EntityTable -> SUBSET Block],
   subdomains : SUBSET Block, orphanSubdomains : SUBSET Block, late : SUBSET Block,
   mempool : SUBSET TxId, pruned : SUBSET TxId, dropped : SUBSET TxId]

EmptyDatabase ==
  [blocks |-> {}, canonical |-> {}, ent |-> [t \in EntityTable |-> {}],
   subdomains |-> {}, orphanSubdomains |-> {}, late |-> {},
   mempool |-> {}, pruned |-> {}, dropped |-> {}]

-----------------------------------------------------------------------------
(* The canonical rows at MAX(block_height), and the height of the first.    *)
TipRows(d) == {b \in d.canonical : \A c \in d.blocks : Height[c] <= Height[b]}

getChainTipHeight(d) ==
  IF TipRows(d) = {} THEN 0 ELSE Height[CHOOSE b \in TipRows(d) : TRUE]

(* The row at the height below b with the hash b names as its parent.       *)
ParentRows(d, b) ==
  {p \in d.blocks : p = Parent[b] /\ Height[p] = Height[b] - 1}

(* Flag b's entities, in every table where its hash finds them.             *)
markTables(d, b, flag) ==
  [d EXCEPT !.ent =
     [t \in EntityTable |->
        IF ~KeyedByHash(t) THEN d.ent[t]
        ELSE IF flag THEN d.ent[t] \cup {b} ELSE d.ent[t] \ {b}]]

(* Flag the subdomains of b, if it has any.                                 *)
markSubdomains(d, b, flag) ==
  LET rows == {b} \cap (d.subdomains \cup d.orphanSubdomains)
  IN  [d EXCEPT
        !.subdomains = IF flag THEN @ \cup rows ELSE @ \ {b},
        !.orphanSubdomains = IF flag THEN @ \ {b} ELSE @ \cup rows,
        !.late = @ \ {b}]

(* Mutant: the subdomains table is forgotten.                               *)
MarkAllButSubdomains(d, b, flag) == markTables(d, b, flag)

markEntitiesCanonical(d, b, flag) == markSubdomains(markTables(d, b, flag), b, flag)

(* The transactions whose flag that call changes.                           *)
txsMarked(d, b, flag) ==
  IF (b \in d.ent["txs"]) = flag THEN {} ELSE TxsOf[b]

restoreMempoolTxs(d, txIds) == [d EXCEPT !.pruned = @ \ txIds]

pruneMempoolTxs(d, txIds) == [d EXCEPT !.pruned = @ \cup (txIds \cap d.mempool)]

(* Canonical rows in conflict with b: same height, another hash.            *)
Conflicting(d, b) == {o \in d.canonical : Height[o] = Height[b] /\ o # b}

(* Mutant: the conflicting row keeps its flag.                              *)
FlipWithoutOrphaning(d, b) == [d EXCEPT !.canonical = @ \cup {b}]

(* One level of restoreOrphanedChain.  Every conflicting row loses its      *)
(* flag, but only the entities of the first returned row, o, follow.        *)
FlipBlocks(d, b) ==
  [d EXCEPT !.canonical = (@ \cup {b}) \ Conflicting(d, b)]

(* Mutant: orphaned transactions are not given back to the mempool.         *)
OrphanWithoutMempool(d, o) == markEntitiesCanonical(d, o, FALSE)

OrphanEntities(d, o) ==
  restoreMempoolTxs(markEntitiesCanonical(d, o, FALSE), txsMarked(d, o, FALSE))

RestoreEntities(d, b) ==
  pruneMempoolTxs(markEntitiesCanonical(d, b, TRUE), txsMarked(d, b, TRUE))

RestoreLevel(d, b, o) ==
  IF o = NoBlock THEN RestoreEntities(FlipBlocks(d, b), b)
                 ELSE RestoreEntities(OrphanEntities(FlipBlocks(d, b), o), b)

(* Insert block b and its entities under one flag; a block that is already  *)
(* stored (ON CONFLICT DO NOTHING) leaves every table alone.  A message's   *)
(* list of subdomains is always empty.                                      *)
InsertBlock(d, b, flag) ==
  IF b \in d.blocks THEN d
  ELSE [blocks |-> d.blocks \cup {b},
        canonical |-> IF flag THEN d.canonical \cup {b} ELSE d.canonical,
        ent |-> [t \in EntityTable |->
                   IF flag THEN d.ent[t] \cup {b} ELSE d.ent[t]],
        subdomains |-> d.subdomains, orphanSubdomains |-> d.orphanSubdomains,
        late |-> d.late,
        mempool |-> d.mempool, pruned |-> d.pruned, dropped |-> d.dropped]

(* Mutant: a fork as high as the tip is stored as canonical.                *)
StoreAtLeastTip(d, b, tip) ==
  IF Height[b] >= tip
  THEN InsertBlock(pruneMempoolTxs(d, TxsOf[b]), b, TRUE)
  ELSE InsertBlock(d, b, FALSE)

(* The rest of the transaction: mined transactions leave the mempool only   *)
(* when the block is canonical.                                             *)
StoreBlock(d, b, tip) ==
  IF Height[b] > tip
  THEN InsertBlock(pruneMempoolTxs(d, TxsOf[b]), b, TRUE)
  ELSE InsertBlock(d, b, FALSE)

-----------------------------------------------------------------------------
NoEvent == [block |-> NoBlock, canonical |-> FALSE]

Init ==
  /\ db = EmptyDatabase
  /\ work = EmptyDatabase
  /\ pc = "idle"
  /\ incoming = NoBlock
  /\ chainTip = 0
  /\ restoring = NoBlock
  /\ blockUpdate = NoEvent

(* update(b): BEGIN and read the chain tip.  Any block may be announced at  *)
(* any time: again, before its parent, or below the tip.                    *)
Begin(b) ==
  /\ pc = "idle"
  /\ pc' = "handleReorg"
  /\ incoming' = b
  /\ chainTip' = getChainTipHeight(db)
  /\ work' = db
  /\ blockUpdate' = NoEvent
  /\ UNCHANGED <<db, restoring>>

(* handleReorg: a first-height block, a block on the canonical chain, or a  *)
(* fork not above the tip needs no restoring.                               *)
NoReorg ==
  /\ pc = "handleReorg"
  /\ \/ Height[incoming] = 1
     \/ \E p \in ParentRows(work, incoming) :
          p \in work.canonical \/ Height[incoming] <= chainTip
  /\ pc' = "store"
  /\ UNCHANGED <<db, work, incoming, chainTip, restoring, blockUpdate>>

(* handleReorg: a block above the tip that builds off an orphaned chain.    *)
Reorg ==
  /\ pc = "handleReorg"
  /\ Height[incoming] > 1
  /\ Height[incoming] > chainTip
  /\ \E p \in ParentRows(work, incoming) :
       /\ p \notin work.canonical
       /\ restoring' = p
  /\ pc' = "restore"
  /\ UNCHANGED <<db, work, incoming, chainTip, blockUpdate>>

(* ROLLBACK of an open transaction: the client sees the error, the tables   *)
(* are as they were.                                                        *)
Rollback ==
  /\ pc' = "idle"
  /\ work' = db
  /\ incoming' = NoBlock
  /\ restoring' = NoBlock
  /\ chainTip' = 0
  /\ UNCHANGED <<db, blockUpdate>>

(* handleReorg throws: "DB does not contain a parent block at height ...".  *)
MissingParent ==
  /\ pc = "handleReorg"
  /\ Height[incoming] > 1
  /\ ParentRows(work, incoming) = {}
  /\ Rollback

(* Mutant: the recursive call is missing, one level is restored.            *)
RestoreOneLevel ==
  /\ pc = "restore"
  /\ restoring \in work.blocks \ work.canonical
  /\ LET rows == Conflicting(work, restoring)
     IN  \E o \in IF rows = {} THEN {NoBlock} ELSE rows :
           work' = RestoreLevel(work, restoring, o)
  /\ restoring' = NoBlock
  /\ pc' = "store"
  /\ UNCHANGED <<db, incoming, chainTip, blockUpdate>>

(* One call of restoreOrphanedChain(restoring), up to its recursive call.   *)
(* It throws, leaving only Abort, unless restoring is stored and orphaned.  *)
RestoreOrphanedChain ==
  /\ pc = "restore"
  /\ restoring \in work.blocks \ work.canonical
  /\ LET rows == Conflicting(work, restoring)
     IN  \E o \in IF rows = {} THEN {NoBlock} ELSE rows :
           work' = RestoreLevel(work, restoring, o)
  /\ LET parent == ParentRows(work', restoring) \ work'.canonical
     IN  \/ /\ parent = {}
            /\ restoring' = NoBlock
            /\ pc' = "store"
         \/ /\ restoring' \in parent
            /\ pc' = "restore"
  /\ UNCHANGED <<db, incoming, chainTip, blockUpdate>>

(* The remaining statements of the transaction, then COMMIT.                *)
StoreAndCommit ==
  /\ pc = "store"
  /\ work' = StoreBlock(work, incoming, chainTip)
  /\ db' = work'
  /\ pc' = "emit"
  /\ UNCHANGED <<incoming, chainTip, restoring, blockUpdate>>

(* Mutant: the event carries the flag of the message, not the one stored.   *)
EmitAlwaysCanonical ==
  /\ pc = "emit"
  /\ blockUpdate' = [block |-> incoming, canonical |-> TRUE]
  /\ pc' = "idle"
  /\ incoming' = NoBlock
  /\ chainTip' = 0
  /\ UNCHANGED <<db, work, restoring>>

(* After the commit: emit blockUpdate with the flag `update' settled on.    *)
Emit ==
  /\ pc = "emit"
  /\ blockUpdate' = [block |-> incoming, canonical |-> Height[incoming] > chainTip]
  /\ pc' = "idle"
  /\ incoming' = NoBlock
  /\ chainTip' = 0
  /\ UNCHANGED <<db, work, restoring>>

(* The connection fails, a statement throws or the process dies: before the *)
(* commit the transaction is undone, after it only the event is lost.       *)
Abort ==
  /\ pc # "idle"
  /\ Rollback

(* updateMempoolTxs: one transaction, existing tx_ids are left alone.  The  *)
(* txs table is not consulted.                                              *)
UpdateMempoolTxs(txIds) ==
  /\ pc = "idle"
  /\ db' = [db EXCEPT !.mempool = @ \cup txIds]
  /\ work' = db'
  /\ UNCHANGED <<pc, incoming, chainTip, restoring, blockUpdate>>

(* dropMempoolTxs: flag the listed rows pruned, with a dropped status.      *)
DropMempoolTxs(txIds) ==
  /\ pc = "idle"
  /\ db' = [pruneMempoolTxs(db, txIds)
              EXCEPT !.dropped = @ \cup (txIds \cap db.mempool)]
  /\ work' = db'
  /\ UNCHANGED <<pc, incoming, chainTip, restoring, blockUpdate>>

(* resolveBnsSubdomains: an attachment of block b arrives, at any time and  *)
(* any number of times.  Its rows are stored as canonical: getNameCanonical *)
(* looks for the decoded hash in `names' and finds no row that would say    *)
(* otherwise.                                                               *)
ResolveBnsSubdomains(b) ==
  /\ pc = "idle"
  /\ db' = [db EXCEPT !.subdomains = @ \cup {b},
                      !.late = IF b \in db.canonical THEN @ ELSE @ \cup {b}]
  /\ work' = db'
  /\ UNCHANGED <<pc, incoming, chainTip, restoring, blockUpdate>>

Update ==
  \/ \E b \in Block : Begin(b)
  \/ NoReorg \/ Reorg \/ MissingParent
  \/ RestoreOrphanedChain \/ StoreAndCommit \/ Emit \/ Abort

Mempool ==
  \E txIds \in SUBSET TxId : UpdateMempoolTxs(txIds) \/ DropMempoolTxs(txIds)

Attachments == \E b \in NameUpdate : ResolveBnsSubdomains(b)

Next == Update \/ Mempool \/ Attachments

Spec == Init /\ [][Next]_vars

-----------------------------------------------------------------------------
(* What the API reads from the committed tables.                            *)
MinedCanonical(d) == {t \in TxId : \E b \in d.ent["txs"] : t \in TxsOf[b]}
getMempoolTxList(d) == d.mempool \ d.pruned
getMempoolTxIdList(d) == d.mempool
getDroppedTxs(d) == {t \in d.pruned \cap d.dropped : t \notin MinedCanonical(d)}

-----------------------------------------------------------------------------
(* TypeOK: the shape of the tables and of update's local state.             *)
TypeOK ==
  /\ db \in Database
  /\ work \in Database
  /\ pc \in {"idle", "handleReorg", "restore", "store", "emit"}
  /\ incoming \in Block \cup {NoBlock}
  /\ pc # "idle" => incoming \in Block
  /\ chainTip \in Nat
  /\ restoring \in Block \cup {NoBlock}
  /\ blockUpdate \in [block : Block \cup {NoBlock}, canonical : BOOLEAN]

(* A stored block above height 1 has its parent stored one height below.    *)
ParentsStored(d) ==
  /\ d.canonical \subseteq d.blocks
  /\ \A b \in d.blocks :
       Height[b] > 1 => Parent[b] \in d.blocks /\ Height[Parent[b]] = Height[b] - 1

OnePerHeight(d) ==
  \A b, c \in d.canonical : Height[b] = Height[c] => b = c

ParentsCanonical(d) ==
  \A b \in d.canonical : Height[b] > 1 => Parent[b] \in d.canonical

(* h is the greatest height stored, and a canonical block has it.           *)
TipIs(d, h) ==
  /\ \A b \in d.blocks : Height[b] <= h
  /\ h = 0 \/ \E b \in d.canonical : Height[b] = h

IsChain(d) ==
  /\ ParentsStored(d)
  /\ OnePerHeight(d)
  /\ ParentsCanonical(d)
  /\ TipIs(d, getChainTipHeight(d))

(* The canonical rows of `blocks' form one connected chain, from height 1   *)
(* to the greatest height stored, one block per height, and                 *)
(* getChainTipHeight is that height: what every query with `canonical =     *)
(* true' relies on, whatever order of forks, repeats and failures update()  *)
(* was driven through.                                                      *)
CanonicalChain == IsChain(db)

TablesFollow(d) ==
  \A t \in EntityTable : KeyedByHash(t) => d.ent[t] = d.canonical

(* Subdomains lag behind their block only from an attachment of an orphaned *)
(* block to the next reorg over it.                                         *)
SubdomainsFollow(d) ==
  /\ d.orphanSubdomains \cap d.canonical = {}
  /\ d.subdomains \subseteq d.canonical \cup d.late
  /\ d.orphanSubdomains \subseteq d.blocks

EntitiesFollow(d) == TablesFollow(d) /\ SubdomainsFollow(d)

(* In the tables whose rows are found by their hash, an entity is canonical *)
(* exactly when its block is: restoreOrphanedChain leaves no table behind.  *)
(* Of the subdomains, only those of an attachment that came while its block *)
(* was orphaned, or not stored yet, are canonical before their block is.    *)
EntitiesFollowBlocks == EntitiesFollow(db)

(* restoreOrphanedChain never meets its "Could not find orphaned block"     *)
(* error, and never finds two conflicting rows, of which it would update    *)
(* the entities of one only.                                                *)
RestoreNeverThrows ==
  pc = "restore" =>
    /\ restoring \in work.blocks \ work.canonical
    /\ \A o1, o2 \in Conflicting(work, restoring) : o1 = o2

(* Every transaction the mempool table ever held stays visible: pending,    *)
(* dropped, or mined in a canonical block.  No sequence of reorgs leaves a  *)
(* row pruned by a block that is canonical no longer.                       *)
NoTxLost ==
  db.mempool \subseteq
    getMempoolTxList(db) \cup getDroppedTxs(db) \cup MinedCanonical(db)

(* What the tests say of a mined transaction: it is in the mempool no       *)
(* longer.  updateMempoolTxs does not look at the txs table, so an          *)
(* announcement that arrives after the block is stored as pending.          *)
MinedNotPending == getMempoolTxList(db) \cap MinedCanonical(db) = {}

(* The same, of update() alone: storing a block leaves no transaction both  *)
(* mined and pending that was not so before.  restoreOrphanedChain walks    *)
(* down, so it prunes a transaction of the new branch before it gives the   *)
(* copy in a lower block of the old branch back to the mempool.             *)
UpdatePrunesMined ==
  [][pc = "store" /\ db' # db =>
       getMempoolTxList(db') \cap MinedCanonical(db')
         \subseteq getMempoolTxList(db) \cap MinedCanonical(db)]_vars

(* The identifiers /rosetta/v1/mempool lists are those in the mempool.      *)
IdListIsMempool == getMempoolTxIdList(db) = getMempoolTxList(db)

(* Every entity of a restored chain is canonical again, names and           *)
(* namespaces too.                                                          *)
EveryEntityFollowsBlocks == \A t \in EntityTable : db.ent[t] = db.canonical

(* The committed tip height never decreases, and grows one block at a time. *)
TipNeverDecreases ==
  [][getChainTipHeight(db') \in {getChainTipHeight(db), getChainTipHeight(db) + 1}]_vars

(* Canonical flags change only in the commit of a block that becomes the    *)
(* new highest block: a fork of equal height never replaces the chain.      *)
ReorgOnlyToLongerChain ==
  [][db'.canonical # db.canonical =>
       /\ incoming \in db'.canonical \ db.blocks
       /\ \A c \in db.blocks : Height[c] < Height[incoming]]_vars

(* A block announced to subscribers as canonical is the committed tip.      *)
AnnouncedCanonicalIsTip ==
  [][blockUpdate' # blockUpdate /\ blockUpdate'.canonical =>
       blockUpdate'.block \in TipRows(db)]_vars

(* The committed `blocks' table is a longest-chain index: whatever happens   *)
(* inside update(), a reader sees only the steps of LongestChain.            *)
Index == INSTANCE LongestChain WITH known <- db.blocks, main <- db.canonical

ImplementsLongestChain == Index!Spec

-----------------------------------------------------------------------------
(***************************************************************************)
(* The inductive invariant.  Between two levels of restoreOrphanedChain the *)
(* canonical rows are not a chain: the block just restored has an orphaned  *)
(* parent, `restoring', and below it the old chain still stands.            *)
(***************************************************************************)
PrunedForAReason(d) == d.pruned \subseteq d.dropped \cup MinedCanonical(d)

DatabaseInv(d) == IsChain(d) /\ EntitiesFollow(d) /\ PrunedForAReason(d)

(* The open transaction, whatever level of the recursion it has reached.    *)
WorkInv ==
  /\ work.blocks = db.blocks
  /\ ParentsStored(work)
  /\ OnePerHeight(work)
  /\ TipIs(work, chainTip)
  /\ EntitiesFollow(work)
  /\ PrunedForAReason(work)
  /\ chainTip = getChainTipHeight(db)
  /\ Height[incoming] > 1 => ParentRows(work, incoming) # {}

(* Above `restoring' the canonical rows are the new branch, which hangs on  *)
(* it; elsewhere every canonical block has a canonical parent.              *)
WalkInv ==
  /\ restoring \in work.blocks \ work.canonical
  /\ \A b \in work.canonical :
       IF Height[b] = Height[restoring] + 1
       THEN Parent[b] = restoring
       ELSE Height[b] > 1 => Parent[b] \in work.canonical
  /\ Height[incoming] > chainTip
  /\ Height[incoming] > 1
  /\ \/ restoring = Parent[incoming]
     \/ /\ Parent[incoming] \in work.canonical
        /\ Height[restoring] < Height[Parent[incoming]]

(* The chain invariant of the committed tables, and at each point of        *)
(* update() what holds of the open transaction.                             *)
IInv ==
  /\ TypeOK
  /\ DatabaseInv(db)
  /\ pc \in {"idle", "handleReorg", "emit"} => work = db
  /\ pc = "handleReorg" => chainTip = getChainTipHeight(db)
  /\ pc = "restore" => WorkInv /\ WalkInv
  /\ pc = "store" =>
       /\ WorkInv
       /\ ParentsCanonical(work)
       /\ Height[incoming] > chainTip /\ Height[incoming] > 1
            => Parent[incoming] \in work.canonical
       /\ ~(Height[incoming] > chainTip) => work.canonical = db.canonical
  /\ pc = "emit" /\ Height[incoming] > chainTip => incoming \in TipRows(db)
=============================================================================
