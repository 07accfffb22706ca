----------------------------- MODULE TxQueries ------------------------------
(***************************************************************************)
(* The transaction and block routes (tx.ts, block.ts, db-controller.ts)     *)
(* over the chain tables, a statement at a time while blocks arrive.  The   *)
(* tables are what LongestChain promises; mempool rows are pruned, never    *)
(* deleted.                                                                 *)
(*                                                                         *)
(* A list is a count, then a page of rows, then one lookup per row: getTx,  *)
(* getMempoolTx and, for a contract call, getSmartContract; every statement *)
(* sees what is committed when it runs.  A client walks the transaction     *)
(* list page by page.                                                       *)
(***************************************************************************)
EXTENDS Naturals, Sequences, SequencesExt, FiniteSets, FiniteSetsExt, TLC

CONSTANTS
  Block, Parent, Height,
  Tx,
  Txs,          \* the transactions of a block in tx_index order
  Relayed,      \* transactions that come to this node's mempool
  Deploys,      \* contract-call transactions -> the transaction of the contract
  Events,       \* <<block, transaction>> -> event rows
  Limit,        \* page size
  MaxRequests

VARIABLES
  known, main,  \* blocks, and those with canonical = true
  received,     \* tx ids of mempool_txs
  req,          \* the request under way
  walk,         \* the client's position in the transaction list
  held,         \* history: what was true of the transaction asked for
  orphaned,     \* history: a canonical block was orphaned during the request
  asked

chain == <<known, main>>
vars == <<chain, received, req, walk, held, orphaned, asked>>

Chain == INSTANCE LongestChain
NoRow == [found |-> FALSE]
NoRequest == [pc |-> "none"]
Idle == req.pc \in {"none", "answered", "notFound", "threw"}
Smaller(m, n) == IF m < n THEN m ELSE n

-----------------------------------------------------------------------------
(* Rows.                                                                    *)
In(b) == ToSet(Txs[b])
Mined(t) == {b \in known : t \in In(b)}

(* ORDER BY canonical DESC, block_height DESC LIMIT 1.                      *)
getTx(t) ==
  LET rows == IF Mined(t) \cap main = {} THEN Mined(t) ELSE Mined(t) \cap main
  IN  IF rows = {} THEN NoRow
      ELSE LET b == CHOOSE b \in rows : \A c \in rows : Height[c] <= Height[b]
           IN  [found |-> TRUE, block |-> b, canonical |-> b \in main]

(* Mutant: without includePruned; update prunes what it mines.              *)
getMempoolTxUnpruned(t) == t \in received /\ Mined(t) \cap main = {}

(* getMempoolTx with includePruned.                                         *)
getMempoolTx(t) == t \in received

(* Rows of every fork count, canonical first.                               *)
getSmartContract(t) == Mined(Deploys[t]) # {}

getTxEvents(t, b) == Events[<<b, t>>]

(* Canonical rows, ORDER BY block_height DESC, tx_index DESC.               *)
TxList ==
  LET tip == Cardinality(main)
  IN  FlattenSeq([i \in 1..tip |-> Reverse(Txs[CHOOSE b \in main : Height[b] = tip + 1 - i])])

BlockList ==
  LET tip == Cardinality(main)
  IN  [i \in 1..tip |-> CHOOSE b \in main : Height[b] = tip + 1 - i]

(* By hash, canonical or not.                                               *)
getBlock(b) == IF b \in known THEN [found |-> TRUE, block |-> b, canonical |-> b \in main] ELSE NoRow

(* Canonical rows of a block, in no order the statement asks for.           *)
BlockRows(b) == IF b \in main THEN SetToSeqs(In(b)) ELSE {<<>>}

Count(r) ==
  CASE r.kind = "txs" -> Len(TxList)
    [] r.kind = "blocks" -> Len(BlockList)
    [] r.kind = "block" -> IF r.block \in main THEN Len(Txs[r.block]) ELSE 0

Listings(r) ==
  CASE r.kind = "txs" -> {TxList}
    [] r.kind = "blocks" -> {BlockList}
    [] r.kind = "block" -> BlockRows(r.block)

(* Mutant: the row after the last one seen is skipped.                      *)
PageSkipping(rows, offset) ==
  SubSeq(rows, (IF offset > 0 THEN offset + 2 ELSE 1), Smaller(offset + Limit, Len(rows)))

Page(rows, offset) == SubSeq(rows, offset + 1, Smaller(offset + Limit, Len(rows)))

(* What a lookup with no concurrent commit answers.                         *)
Status(t) ==
  CASE getTx(t).found /\ getTx(t).canonical -> [is |-> "mined", block |-> getTx(t).block]
    [] getMempoolTx(t) /\ Mined(t) \cap main = {} -> [is |-> "mempool"]
    [] ~getMempoolTx(t) /\ Mined(t) # {} /\ Mined(t) \cap main = {} -> [is |-> "forked"]
    [] OTHER -> [is |-> "unknown"]

-----------------------------------------------------------------------------
Init ==
  /\ Chain!Init
  /\ received = {} /\ req = NoRequest /\ held = {} /\ orphaned = FALSE /\ asked = 0
  /\ walk = [offset |-> 0, seen |-> {}, goal |-> {}, orphaned |-> FALSE]

Watch ==
  /\ UNCHANGED <<req, asked>>
  /\ held' = IF Idle \/ req.kind \notin {"tx", "stream"} THEN held
             ELSE held \cup {Status(req.id)'}

(* update commits a block; PgChainStore implements this step.               *)
Update ==
  /\ \E b \in Block \ known : Chain!Fork(b) \/ Chain!Extend(b)
  /\ orphaned' = (orphaned \/ ~(main \subseteq main'))
  /\ walk' = [walk EXCEPT !.orphaned = @ \/ ~(main \subseteq main')]
  /\ UNCHANGED received /\ Watch

(* updateMempoolTxs.                                                        *)
Receive(t) ==
  /\ t \notin received /\ received' = received \cup {t}
  /\ UNCHANGED <<chain, orphaned, walk>> /\ Watch

Begin(r) ==
  /\ Idle /\ asked < MaxRequests
  /\ asked' = asked + 1 /\ orphaned' = FALSE
  /\ req' = r @@ [row |-> NoRow, shown |-> <<>>]
  /\ held' = IF r.kind \in {"tx", "stream"} THEN {Status(r.id)} ELSE {}
  /\ UNCHANGED <<chain, received>>

(* GET /tx/:tx_id                                                           *)
RequestTx(t) == Begin([kind |-> "tx", pc |-> "getTx", id |-> t, todo |-> <<t>>]) /\ UNCHANGED walk

(* GET /tx/stream: a txUpdate event, emitted after the commit.              *)
StreamTx(t) ==
  /\ t \in received \/ Mined(t) # {}
  /\ Begin([kind |-> "stream", pc |-> "getTx", id |-> t, todo |-> <<t>>]) /\ UNCHANGED walk

(* GET /tx, a walk's first page or its next one.                            *)
RequestTxs ==
  /\ Begin([kind |-> "txs", pc |-> "count", offset |-> walk.offset])
  /\ walk' = IF walk.offset > 0 THEN walk
             ELSE [offset |-> 0, seen |-> {}, goal |-> UNION {In(b) : b \in main}, orphaned |-> FALSE]

(* GET /block                                                               *)
RequestBlocks(offset) ==
  Begin([kind |-> "blocks", pc |-> "count", offset |-> offset]) /\ UNCHANGED walk

(* GET /tx/block/:hash, or /tx/block_height/:height, which reads the block  *)
(* of the height first.                                                     *)
RequestBlockTxs(b) ==
  /\ b \in known
  /\ Begin([kind |-> "block", pc |-> "count", offset |-> 0, block |-> b]) /\ UNCHANGED walk

Set(r) == req' = r /\ UNCHANGED <<chain, received, held, orphaned, asked>>

CountRows ==
  /\ req.pc = "count"
  /\ Set([req EXCEPT !.pc = "rows"] @@ [total |-> Count(req)]) /\ UNCHANGED walk

ReadRows ==
  /\ req.pc = "rows"
  /\ \E rows \in Listings(req) :
       Set([req EXCEPT !.pc = IF req.kind = "blocks" THEN "getBlock" ELSE "getTx"]
            @@ [todo |-> Page(rows, req.offset)])
  /\ UNCHANGED walk

GetTx ==
  /\ req.pc = "getTx" /\ req.todo # <<>>
  /\ Set([req EXCEPT !.pc = "mempool", !.row = getTx(Head(req.todo))]) /\ UNCHANGED walk

Done(item) ==
  Set([req EXCEPT !.pc = "getTx", !.todo = Tail(@), !.shown = Append(@, item)])

(* getTxFromDataStore after both lookups: canonical, then mempool, then the *)
(* fallback to a row of another fork.                                       *)
GetMempoolTx ==
  LET t == Head(req.todo)
      row == req.row
      answer == IF row.found /\ row.canonical THEN [id |-> t, is |-> "mined", block |-> row.block]
                ELSE IF getMempoolTx(t) THEN [id |-> t, is |-> "mempool"]
                ELSE [id |-> t, is |-> "forked", block |-> row.block]
  IN  /\ req.pc = "mempool" /\ UNCHANGED walk
      /\ IF ~row.found /\ ~getMempoolTx(t)
         THEN Set([req EXCEPT !.pc = IF req.kind \in {"tx", "stream"} THEN "notFound" ELSE "threw"])
         ELSE Set([req EXCEPT !.pc = "contract", !.row = answer])

GetSmartContract ==
  LET t == Head(req.todo)
  IN  /\ req.pc = "contract" /\ UNCHANGED walk
      /\ IF t \in DOMAIN Deploys /\ ~getSmartContract(t) THEN Set([req EXCEPT !.pc = "threw"])
         ELSE IF req.kind = "tx" /\ req.row.is # "mempool" THEN Set([req EXCEPT !.pc = "events"])
         ELSE Done(req.row)

GetEvents ==
  /\ req.pc = "events" /\ UNCHANGED walk
  /\ Done(req.row @@ [events |-> getTxEvents(Head(req.todo), req.row.block)])

(* getBlockFromDataStore: getBlock, then getBlockTxs by index_block_hash.   *)
GetBlock ==
  LET b == Head(req.todo)
  IN  /\ req.pc = "getBlock" /\ req.todo # <<>> /\ UNCHANGED walk
      /\ Set([req EXCEPT !.pc = IF getBlock(b).found THEN "blockTxs" ELSE "threw", !.row = getBlock(b)])

GetBlockTxs ==
  /\ req.pc = "blockTxs" /\ UNCHANGED walk
  /\ Set([req EXCEPT !.pc = "getBlock", !.todo = Tail(@),
                     !.shown = Append(@, req.row @@ [txs |-> In(req.row.block)])])

(* The response; a walk ends with a page that is not full.                  *)
Answer ==
  /\ req.pc \in {"getTx", "getBlock"} /\ req.todo = <<>>
  /\ Set([req EXCEPT !.pc = "answered"])
  /\ walk' = IF req.kind # "txs" THEN walk
             ELSE [walk EXCEPT !.seen = @ \cup {s.id : s \in ToSet(req.shown)},
                               !.offset = IF Len(req.shown) < Limit THEN 0 ELSE @ + Limit]

Next ==
  \/ Update \/ \E t \in Relayed : Receive(t)
  \/ \E t \in Tx : RequestTx(t) \/ StreamTx(t)
  \/ RequestTxs \/ RequestBlocks(0) \/ RequestBlocks(Limit) \/ \E b \in Block : RequestBlockTxs(b)
  \/ CountRows \/ ReadRows \/ GetTx \/ GetMempoolTx \/ GetSmartContract \/ GetEvents
  \/ GetBlock \/ GetBlockTxs \/ Answer

Spec == Init /\ [][Next]_vars

-----------------------------------------------------------------------------
(* TypeOK: rows and positions are of the data.                              *)
TypeOK ==
  /\ known \subseteq Block /\ main \subseteq known /\ received \subseteq Tx
  /\ walk.seen \subseteq Tx /\ walk.offset % Limit = 0
  /\ asked \in 0..MaxRequests
  /\ req.pc = "answered" => \A s \in ToSet(req.shown) : req.kind = "blocks" \/ s.id \in Tx

(* "unexpected tx not found -- fix tx enumeration query" is never thrown:   *)
(* what a list names can be looked up, its contract too, whatever happens   *)
(* in between.                                                              *)
ListedIsFound == req.pc = "threw" => req.kind = "tx" \/ req.kind = "stream"

(* A transaction that was stored when the request began is found, also when *)
(* it moves between mempool and chain between the two lookups.              *)
StoredIsFound == req.pc = "notFound" => [is |-> "unknown"] \in held

(* A lookup answers exactly what is true of the transaction if nothing      *)
(* about it changed meanwhile.                                              *)
StableIsExact ==
  req.pc = "answered" /\ req.kind \in {"tx", "stream"} /\ Cardinality(held) = 1 =>
    LET s == CHOOSE s \in held : TRUE
        a == req.shown[1]
    IN  a.is = s.is /\ (s.is = "mined" => a.block = s.block)

(* The events shown are those of the block shown, even if it is orphaned    *)
(* between the statements.                                                  *)
EventsOfItsBlock ==
  req.pc = "answered" /\ req.kind = "tx" =>
    \A a \in ToSet(req.shown) : a.is = "mempool" \/ a.events = Events[<<a.block, a.id>>]

(* A page holds what the total promises: blocks stored between count and    *)
(* rows only add to it, unless one is orphaned.                             *)
PageHoldsTotal ==
  req.pc = "answered" /\ req.kind \in {"txs", "blocks", "block"} /\ ~orphaned =>
    /\ Len(req.shown) <= Limit
    /\ \A n \in 1..Limit : req.offset + n <= req.total => Len(req.shown) >= n

(* A client that walks the pages while blocks arrive misses no transaction  *)
(* of the chain it started on, unless a block of it is orphaned.            *)
PagesMissNothing ==
  req.pc = "answered" /\ req.kind = "txs" /\ walk.offset = 0 /\ ~walk.orphaned =>
    walk.goal \subseteq walk.seen
=============================================================================
