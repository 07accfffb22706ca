--------------------------- MODULE AddressQueries ---------------------------
(***************************************************************************)
(* The lists of address.ts and contract.ts: transactions, transfers, asset  *)
(* events, inbound transfers and NFTs of an address, each one statement of  *)
(* postgres-store.ts over joined tables.  Rows of every fork are in the     *)
(* tables; a transaction mined on two forks has rows of both under one id,  *)
(* and it may have succeeded on one and aborted on the other.               *)
(***************************************************************************)
EXTENDS Integers, Sequences, SequencesExt, FiniteSets, FiniteSetsExt, TLC

CONSTANTS
  Block, Parent, Height,
  Address, Nobody,
  Content,         \* what a block may hold: sequences of transactions
  Limit

VARIABLES
  known, main,     \* blocks, and those with canonical = true
  txs              \* the transactions of a stored block

chain == <<known, main>>
vars == <<chain, txs>>

Chain == INSTANCE LongestChain
Sum(rows) == MapThenSumSet(LAMBDA r : r.amount, rows)

-----------------------------------------------------------------------------
(* Tables.                                                                  *)
TxRows ==
  UNION {{[block |-> b, index |-> i, n |-> 0, tx |-> txs[b][i]] : i \in DOMAIN txs[b]} : b \in known}

EventsOf(r) ==
  {[block |-> r.block, index |-> r.index, n |-> n, id |-> r.tx.id] @@ r.tx.events[n] : n \in DOMAIN r.tx.events}

EventRows(kind) == {e \in UNION {EventsOf(r) : r \in TxRows} : e.kind = kind}

Canonical(rows) == {r \in rows : r.block \in main}

(* ORDER BY block_height DESC, tx_index DESC, event_index DESC              *)
NewestFirst(r, s) ==
  \/ Height[r.block] > Height[s.block]
  \/ r.block = s.block /\ (r.index > s.index \/ (r.index = s.index /\ r.n > s.n))

Names(e, a) == e.sender = a \/ e.recipient = a

(* The transactions of an address: its own, and those with an STX event     *)
(* that names it, joined by tx_id alone.                                    *)
AddressTxs(a) ==
  {r \in Canonical(TxRows) : r.tx.sender = a \/ r.tx.recipient = a \/ r.tx.contract = a}
    \cup {r \in Canonical(TxRows) : \E e \in EventRows("stx") : e.id = r.tx.id /\ Names(e, a)}

(* Mutant: events of other forks are joined too.                            *)
TransfersOfEveryFork(r, a) == {e \in EventRows("stx") : e.id = r.tx.id /\ Names(e, a)}

Transfers(r, a) == {e \in Canonical(EventRows("stx")) : e.id = r.tx.id /\ Names(e, a)}

(* getAddressTxsWithStxTransfers: stx_sent and stx_received of a row.       *)
StxSent(r, a) ==
  (IF r.tx.sender = a THEN r.tx.fee ELSE 0) + Sum({e \in Transfers(r, a) : e.sender = a})
StxReceived(r, a) == Sum({e \in Transfers(r, a) : e.recipient = a})

(* getAddressTxs: a page, and the total as the window function counts it.   *)
PageOf(rows, offset) ==
  LET list == SetToSortSeq(rows, NewestFirst)
      page == SubSeq(list, offset + 1, IF offset + Limit < Len(list) THEN offset + Limit ELSE Len(list))
  IN  [results |-> page, total |-> IF page = <<>> THEN 0 ELSE Len(list)]

(* getAddressAssetEvents.                                                   *)
AssetEvents(a) == {e \in Canonical(EventRows("stx") \cup EventRows("nft")) : Names(e, a)}

(* getInboundTransfers: a transfer of the send-many contract and the log    *)
(* behind it that carries its memo, paired by tx_id ...                     *)
BulkTransfers(a) ==
  {<<e, l>> \in Canonical(EventRows("stx")) \X EventRows("log") :
     l.id = e.id /\ e.recipient = a /\ l.n = e.n + 1}

(* ... and plain token transfers.                                           *)
PlainTransfers(a) == {r \in Canonical(TxRows) : r.tx.recipient = a}

(* getAddressNFTEvent: receipts of NFTs whose last recipient is a.          *)
HeldNfts(a) ==
  LET rows == Canonical(EventRows("nft"))
      last(asset) == CHOOSE e \in rows : e.asset = asset /\ \A f \in rows : f.asset = asset => f = e \/ NewestFirst(e, f)
  IN  {e \in rows : e.recipient = a /\ last(e.asset).recipient = a}

(* getNonFungibleTokenCounts.                                               *)
NftCount(a) ==
  Cardinality({e \in Canonical(EventRows("nft")) : e.recipient = a})
    - Cardinality({e \in Canonical(EventRows("nft")) : e.sender = a})

-----------------------------------------------------------------------------
(* What a chain admits: a transaction once, an NFT moved by its owner.      *)
Branch(b) ==
  LET up[i \in 0..Height[b] - 1] == IF i = 0 THEN b ELSE Parent[up[i - 1]]
  IN  {up[i] : i \in 1..Height[b] - 1}

Admits(b, content) ==
  LET past == UNION {ToSet(txs[c]) : c \in Branch(b)}
      moves(tx) == {e \in ToSet(tx.events) : e.kind = "nft"}
      in(asset, a) == Cardinality({tx \in past : \E e \in moves(tx) : e.asset = asset /\ e.recipient = a})
      out(asset, a) == Cardinality({tx \in past : \E e \in moves(tx) : e.asset = asset /\ e.sender = a})
  IN  \A tx \in ToSet(content) :
        /\ \A old \in past : old.id # tx.id
        /\ \A e \in moves(tx) :
             IF e.sender = Nobody THEN \A a \in Address : in(e.asset, a) = 0
             ELSE in(e.asset, e.sender) = out(e.asset, e.sender) + 1

Init == Chain!Init /\ txs = <<>>

(* update commits a block; PgChainStore implements this step.               *)
Update(b, content) ==
  /\ b \notin known
  /\ Chain!Fork(b) \/ Chain!Extend(b)
  /\ Admits(b, content)
  /\ txs' = [c \in known' |-> IF c = b THEN content ELSE txs[c]]

Next == \E b \in Block, content \in Content : Update(b, content)

Spec == Init /\ [][Next]_vars

-----------------------------------------------------------------------------
(* TypeOK: the tables hold what the blocks held.                            *)
TypeOK ==
  /\ known \subseteq Block /\ main \subseteq known
  /\ DOMAIN txs = known /\ \A b \in known : txs[b] \in Content

(* What the main chain did to an address.                                   *)
MainTxs == UNION {ToSet(txs[b]) : b \in main}
MainEvents == UNION {{<<tx.id, n>> : n \in DOMAIN tx.events} : tx \in MainTxs}
Event(x) == (CHOOSE tx \in MainTxs : tx.id = x[1]).events[x[2]]
StxMoves(a) == {x \in MainEvents : Event(x).kind = "stx" /\ Names(Event(x), a)}

(* The transactions_with_transfers of an address explain its balance: what  *)
(* they received less what they sent is the ledger's.                       *)
TransfersExplainBalance ==
  \A a \in Address :
    MapThenSumSet(LAMBDA r : StxReceived(r, a) - StxSent(r, a), AddressTxs(a))
      = MapThenSumSet(LAMBDA x : (IF Event(x).recipient = a THEN Event(x).amount ELSE 0)
                                   - (IF Event(x).sender = a THEN Event(x).amount ELSE 0), StxMoves(a))
          - MapThenSumSet(LAMBDA tx : tx.fee, {tx \in MainTxs : tx.sender = a})

(* The pages of asset events hold every event of the main chain that names  *)
(* the address exactly once.                                                *)
AssetPagesComplete ==
  \A a \in Address :
    LET rows == AssetEvents(a)
        pages == FlattenSeq([i \in 1..Cardinality(rows) + 1 |-> PageOf(rows, (i - 1) * Limit).results])
    IN  /\ Len(pages) = Cardinality({x \in MainEvents : Event(x).kind # "log" /\ Names(Event(x), a)})
        /\ \A i, j \in DOMAIN pages : i < j => NewestFirst(pages[i], pages[j])

(* The inbound list names the transfers of the main chain with a memo and   *)
(* its token transfers, no others and none in both halves.                  *)
InboundIsMain ==
  \A a \in Address :
    LET bulk == {<<p[1].id, p[1].n>> : p \in BulkTransfers(a)}
        plain == {r.tx.id : r \in PlainTransfers(a)}
    IN  /\ bulk = {x \in MainEvents : /\ Event(x).kind = "stx" /\ Event(x).recipient = a
                                      /\ <<x[1], x[2] + 1>> \in MainEvents
                                      /\ Event(<<x[1], x[2] + 1>>).kind = "log"}
        /\ plain = {tx.id : tx \in {u \in MainTxs : u.recipient = a}}
        /\ \A x \in bulk : x[1] \notin plain

(* The NFTs listed are as many as the balances route counts.                *)
NftsMatchCount == \A a \in Address : Cardinality({e.asset : e \in HeldNfts(a)}) = NftCount(a)

(* "recent txs associated (sender or receiver) with address": each listed   *)
(* one is the address's own or moved STX of it.                             *)
TxsAssociated ==
  \A a \in Address : \A r \in AddressTxs(a) :
    r.tx.sender = a \/ r.tx.recipient = a \/ r.tx.contract = a \/ Transfers(r, a) # {}

(* "The number of transactions available" does not depend on the offset.    *)
TotalAvailable ==
  \A a \in Address, offset \in {0, Limit} :
    PageOf(AddressTxs(a), offset).total = Cardinality(AddressTxs(a))

(* "a list of STX transfers with memos": a transfer is listed once.         *)
InboundOnce == \A a \in Address : \A p, q \in BulkTransfers(a) : p[1] = q[1] => p = q

(* "list of all nfts owned by an address": an NFT is listed once.           *)
NftListedOnce == \A a \in Address : \A e, f \in HeldNfts(a) : e.asset = f.asset => e = f
=============================================================================
