----------------------------- MODULE MemoryStore ----------------------------
(***************************************************************************)
(* MemoryDataStore: the store of STACKS_BLOCKCHAIN_API_DB=memory.  Rows are *)
(* kept in maps: blocks by hash, transactions and contracts by id, events   *)
(* by transaction, block and kind, and a mempool from which nothing is removed.   *)
(* update stores a block in many steps with an await after each, so that    *)
(* requests see what lies between.                                          *)
(***************************************************************************)
EXTENDS Naturals, Sequences, SequencesExt, FiniteSets

CONSTANTS
  Block, Parent, Height,   \* blocks, their parents (None for the lowest) and heights
  TxsOf,                   \* the sequence of transactions of each block
  KindsOf,                 \* of each transaction: the kinds of its events, in the order
                           \* update stores them, with "contract" if it deploys one
  Tx,
  MaxUpdates               \* bound on delivered block messages

None == "none"

MemoryAssumption == Height \in [Block -> Nat]

VARIABLES
  blocks,          \* of the stored blocks: canonical or not
  txs,             \* of the stored transactions: their block and whether canonical
  events,          \* of the stored events, by transaction, block and kind: canonical or not
  contracts,       \* of the stored contracts: the block and whether canonical
  mempool,         \* of the transactions ever pending: their status
  job,             \* the update under way: its block and what is still to store
  announced,       \* the blocks whose blockUpdate was emitted
  updates

vars == <<blocks, txs, events, contracts, mempool, job, announced, updates>>

Put(map, k, v) == [x \in DOMAIN map \cup {k} |-> IF x = k THEN v ELSE map[x]]
Empty == [x \in {} |-> None]
NoJob == [block |-> None, todo |-> <<>>]

-----------------------------------------------------------------------------
(* updateCanonicalStatus: what lies as high as the new block or higher.     *)
Demoted(h, from) == h >= from

DemoteBlocks(from) == [b \in DOMAIN blocks |-> blocks[b] /\ ~Demoted(Height[b], from)]
DemoteRows(rows, from) ==
  [t \in DOMAIN rows |-> [rows[t] EXCEPT !.canonical = @ /\ ~Demoted(Height[rows[t].block], from)]]
DemoteEvents(from) == [e \in DOMAIN events |-> events[e] /\ ~Demoted(Height[e.block], from)]

(* Another canonical block has the height of the new one.                   *)
ReorgDetected(b) == \E c \in DOMAIN blocks : c # b /\ Height[c] = Height[b] /\ blocks[c]

(* The steps of an update, with an await after each: the block, then of     *)
(* each transaction its row, its events kind by kind and its contract.      *)
StepOf(kind, t) == [kind |-> kind, tx |-> t]
Rows(b) ==
  FlattenSeq([i \in DOMAIN TxsOf[b] |-> LET t == TxsOf[b][i] IN
    <<StepOf("tx", t)>> \o [j \in DOMAIN KindsOf[t] |-> StepOf(KindsOf[t][j], t)]])

Step(kind) == job.todo # <<>> /\ Head(job.todo).kind = kind
Done(more) == job' = [job EXCEPT !.todo = more]
Current == Head(job.todo).tx

(* No one asks for the parent: the first block may be any.                  *)
Receive(b) ==
  /\ job = NoJob /\ updates < MaxUpdates
  /\ job' = [block |-> b, todo |-> <<StepOf("block", None)>>] /\ updates' = updates + 1
  /\ UNCHANGED <<blocks, txs, events, contracts, mempool, announced>>

Row == [block |-> job.block, canonical |-> TRUE]

(* Mutant: only the blocks are looked at when a fork is found.              *)
updateBlockOnly ==
  /\ Step("block")
  /\ blocks' = Put(IF ReorgDetected(job.block) THEN DemoteBlocks(Height[job.block]) ELSE blocks, job.block, TRUE)
  /\ Done(Rows(job.block) \o <<StepOf("emit", None)>>)
  /\ UNCHANGED <<txs, events, contracts, mempool, announced, updates>>

updateBlock ==
  LET h == Height[job.block] IN
  /\ Step("block")
  /\ IF ReorgDetected(job.block)
     THEN /\ blocks' = Put(DemoteBlocks(h), job.block, TRUE)
          /\ txs' = DemoteRows(txs, h) /\ events' = DemoteEvents(h) /\ contracts' = DemoteRows(contracts, h)
     ELSE /\ blocks' = Put(blocks, job.block, TRUE)
          /\ UNCHANGED <<txs, events, contracts>>
  /\ Done(Rows(job.block) \o <<StepOf("emit", None)>>)
  /\ UNCHANGED <<mempool, announced, updates>>

(* Mutant: a transaction that is stored already ends the update.            *)
updateTxStops ==
  /\ Step("tx")
  /\ Current \notin DOMAIN txs
  /\ txs' = Put(txs, Current, Row)
  /\ Done(Tail(job.todo))
  /\ UNCHANGED <<blocks, events, contracts, mempool, announced, updates>>

updateTx ==
  /\ Step("tx")
  /\ txs' = Put(txs, Current, Row)
  /\ Done(Tail(job.todo))
  /\ UNCHANGED <<blocks, events, contracts, mempool, announced, updates>>

(* updateStxLockEvent and so on: one kind of event, each in its map.        *)
EventKind == {"stx_lock", "stx", "ft", "nft", "contract_log"}

updateEvents(kind) ==
  /\ Step(kind)
  /\ events' = Put(events, [tx |-> Current, block |-> job.block, kind |-> kind], TRUE)
  /\ Done(Tail(job.todo))
  /\ UNCHANGED <<blocks, txs, contracts, mempool, announced, updates>>

updateSmartContract ==
  /\ Step("contract")
  /\ contracts' = Put(contracts, Current, Row)
  /\ Done(Tail(job.todo))
  /\ UNCHANGED <<blocks, txs, events, mempool, announced, updates>>

Emit ==
  /\ Step("emit")
  /\ announced' = announced \cup {job.block} /\ job' = NoJob
  /\ UNCHANGED <<blocks, txs, events, contracts, mempool, updates>>

updateMempoolTxs(t) ==
  /\ mempool' = Put(mempool, t, "pending")
  /\ UNCHANGED <<blocks, txs, events, contracts, job, announced, updates>>

dropMempoolTxs(t) ==
  /\ t \in DOMAIN mempool
  /\ mempool' = Put(mempool, t, "dropped")
  /\ UNCHANGED <<blocks, txs, events, contracts, job, announced, updates>>

-----------------------------------------------------------------------------
(* The lists, newest first, and a page of one.                              *)
BlockList == SetToSortSeq({b \in DOMAIN blocks : blocks[b]}, LAMBDA b, c : Height[b] > Height[c])

(* What lies from offset to offset + limit, both counted in, cut to limit.  *)
Page(list, limit, offset) ==
  LET found == SubSeq(list, offset + 1, IF Len(list) < offset + limit + 1 THEN Len(list) ELSE offset + limit + 1)
  IN  IF Len(found) > limit THEN SubSeq(found, 1, limit) ELSE found

(* What the transaction route shows of t: getTxFromDataStore.               *)
Shown(t) ==
  IF t \in DOMAIN txs /\ txs[t].canonical THEN txs[t].block
  ELSE IF t \in DOMAIN mempool THEN mempool[t]
  ELSE IF t \in DOMAIN txs THEN "orphaned" ELSE "not found"

-----------------------------------------------------------------------------
Init ==
  /\ blocks = Empty /\ txs = Empty /\ events = Empty /\ contracts = Empty /\ mempool = Empty
  /\ job = NoJob /\ announced = {} /\ updates = 0

Next ==
  \/ \E b \in Block : Receive(b)
  \/ updateBlock \/ updateTx \/ updateSmartContract \/ Emit
  \/ \E kind \in EventKind : updateEvents(kind)
  \/ \E t \in Tx : updateMempoolTxs(t) \/ dropMempoolTxs(t)

Update ==
  \/ updateBlock \/ updateTx \/ updateSmartContract \/ Emit
  \/ \E kind \in EventKind : updateEvents(kind)

(* The promises of an update that began settle one after the other.         *)
Spec == Init /\ [][Next]_vars /\ WF_vars(Update)

-----------------------------------------------------------------------------
(* TypeOK: rows belong to stored blocks; an update stores its block's rows. *)
TypeOK ==
  /\ DOMAIN blocks \subseteq Block /\ DOMAIN txs \subseteq Tx /\ DOMAIN contracts \subseteq DOMAIN txs
  /\ \A t \in DOMAIN txs : txs[t].block \in DOMAIN blocks /\ t \in ToSet(TxsOf[txs[t].block])
  /\ \A e \in DOMAIN events : e.block \in DOMAIN blocks
  /\ announced \subseteq DOMAIN blocks

(* No two canonical blocks have one height, whatever forks came in which    *)
(* order and how often.                                                     *)
OnePerHeight == \A b, c \in DOMAIN blocks : blocks[b] /\ blocks[c] /\ Height[b] = Height[c] => b = c

(* Whatever is canonical lies in a canonical block, also between two steps  *)
(* of an update.                                                            *)
RowsFollowBlocks ==
  /\ \A t \in DOMAIN txs : txs[t].canonical => blocks[txs[t].block]
  /\ \A t \in DOMAIN contracts : contracts[t].canonical => blocks[contracts[t].block]
  /\ \A e \in DOMAIN events : events[e] => blocks[e.block]

(* When a block is announced every transaction of it is there with its      *)
(* events of all kinds, and stays: a listener that asks for it is answered. *)
AnnouncedIsStored ==
  \A b \in announced : \A t \in ToSet(TxsOf[b]) :
    /\ Shown(t) # "not found"
    /\ \A kind \in ToSet(KindsOf[t]) \cap EventKind :
         [tx |-> t, block |-> b, kind |-> kind] \in DOMAIN events

(* Page after page a client reads the whole list, nothing twice.            *)
PagesCover ==
  \A limit \in 1..2 :
    LET pages == [i \in 1..(Len(BlockList) \div limit + 1) |->
                    IF (i - 1) * limit < Len(BlockList) THEN Page(BlockList, limit, (i - 1) * limit) ELSE <<>>]
    IN  FlattenSeq(pages) = BlockList

(* Every block that is received is announced.                               *)
ReceivedIsAnnounced == \A b \in Block : job.block = b ~> b \in announced

-----------------------------------------------------------------------------
(* The inductive invariant behind OnePerHeight and RowsFollowBlocks: rows   *)
(* lie in stored blocks, and once its block is stored the update under way  *)
(* has a canonical one, since no other update can take it back.             *)
IsRow(r) == r = [block |-> r.block, canonical |-> r.canonical] /\ r.block \in DOMAIN blocks

RowsStored ==
  /\ blocks \in [DOMAIN blocks -> BOOLEAN] /\ DOMAIN blocks \subseteq Block
  /\ \A t \in DOMAIN txs : IsRow(txs[t])
  /\ \A t \in DOMAIN contracts : IsRow(contracts[t])
  /\ \A e \in DOMAIN events : e.block \in DOMAIN blocks

JobStored ==
  job # NoJob =>
    /\ job = [block |-> job.block, todo |-> job.todo] /\ job.block \in Block
    /\ job.todo = <<StepOf("block", None)>> \/ (job.block \in DOMAIN blocks /\ blocks[job.block])

IInv == RowsStored /\ JobStored /\ OnePerHeight /\ RowsFollowBlocks

(* "Set to `true` if block corresponds to the canonical chain tip": the     *)
(* canonical blocks are a chain.                                            *)
CanonicalIsChain ==
  job = NoJob => \A b \in DOMAIN blocks :
    blocks[b] /\ Parent[b] \in DOMAIN blocks => blocks[Parent[b]]
=============================================================================
