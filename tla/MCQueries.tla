----------------------------- MODULE MCQueries ------------------------------
(***************************************************************************)
(* The read side of the API: transactions and blocks (TxQueries), balances, *)
(* search, the lists of an address, and the burnchain routes.  Each         *)
(* behaviour (part) exercises one of them; the others stay idle.            *)
(***************************************************************************)
EXTENDS Search, Integers, TLC

VARIABLES
  part,
  txKnown, txMain, txReceived, req, walk, held, orphaned, asked,          \* TxQueries
  balKnown, balMain, read, reorged, balAsked,                             \* Balances
  listKnown, listMain, txs,                                               \* AddressQueries
  rewards, slots, message, messages, crashes, reader                      \* BurnchainQueries

txVars == <<txKnown, txMain, txReceived, req, walk, held, orphaned, asked>>
balanceVars == <<balKnown, balMain, read, reorged, balAsked>>
listVars == <<listKnown, listMain, txs>>
burnVars == <<rewards, slots, message, messages, crashes, reader>>

-----------------------------------------------------------------------------
(* Two branches from a1.                                                    *)
Tree == "a1" :> "none" @@ "a2" :> "a1" @@ "a3" :> "a2" @@ "b2" :> "a1" @@ "b3" :> "b2"
Levels == "a1" :> 1 @@ "a2" :> 2 @@ "a3" :> 3 @@ "b2" :> 2 @@ "b3" :> 3

(* Transactions: t and v are in both branches, t with other events; the     *)
(* contract c and its call u only in the first.                             *)
MCBlock == DOMAIN Tree
MCTxs == "a1" :> <<>> @@ "a2" :> <<"c", "t", "u">> @@ "a3" :> <<"v">> @@ "b2" :> <<"v">> @@ "b3" :> <<"t">>
MCDeploys == "u" :> "c"
MCEvents ==
  <<"a2", "c">> :> {} @@ <<"a2", "t">> :> {1, 2} @@ <<"a2", "u">> :> {1} @@ <<"a3", "v">> :> {} @@
  <<"b2", "v">> :> {} @@ <<"b3", "t">> :> {3}

Routes ==
  INSTANCE TxQueries WITH known <- txKnown, main <- txMain, received <- txReceived,
    Block <- MCBlock, Parent <- Tree, Height <- Levels, Tx <- {"c", "t", "u", "v"}, Txs <- MCTxs,
    Relayed <- {"t", "u"}, Deploys <- MCDeploys, Events <- MCEvents, Limit <- 2, MaxRequests <- 3

(* Balances: p locks at height 2; the branch b sees more of the burn chain, *)
(* so that the lock has expired there and p locks again at height 3.  Fees  *)
(* of a block are paid to the miner one block later.                        *)
LongTree == Tree @@ "b4" :> "b3"
LongLevels == Levels @@ "b4" :> 4
BurnLevels == "a1" :> 10 @@ "a2" :> 11 @@ "a3" :> 12 @@ "b2" :> 11 @@ "b3" :> 14 @@ "b4" :> 15

StxRow(k, n, from, to, amount) ==
  [kind |-> k, n |-> n, sender |-> from, recipient |-> to, amount |-> amount]
BalStxEvents ==
  "a1" :> {StxRow("mint", 1, "nobody", "p", 9), StxRow("mint", 2, "nobody", "q", 9)} @@
  "a2" :> {StxRow("transfer", 1, "p", "q", 2), StxRow("transfer", 2, "p", "q", 2)} @@
  "a3" :> {StxRow("burn", 1, "q", "nobody", 1)} @@
  "b2" :> {StxRow("transfer", 1, "q", "p", 4)} @@ "b3" :> {} @@ "b4" :> {StxRow("transfer", 1, "p", "p", 3)}

FeeRow(n, from, amount) == [n |-> n, sender |-> from, amount |-> amount]
BalFees ==
  "a1" :> {} @@ "a2" :> {FeeRow(1, "p", 1)} @@ "a3" :> {FeeRow(2, "q", 1)} @@
  "b2" :> {FeeRow(3, "q", 2)} @@ "b3" :> {} @@ "b4" :> {FeeRow(1, "p", 1)}

LockRow(a, unlock, amount) == [address |-> a, unlock |-> unlock, amount |-> amount]
BalLocks ==
  "a1" :> {} @@ "a2" :> {LockRow("p", 13, 3)} @@ "a3" :> {} @@
  "b2" :> {LockRow("p", 13, 3)} @@ "b3" :> {LockRow("p", 20, 4)} @@ "b4" :> {}

RewardRow(to, coinbase, fees) == [recipient |-> to, coinbase |-> coinbase, fees |-> fees]
BalRewards ==
  "a1" :> {} @@ "a2" :> {RewardRow("q", 1, 0)} @@ "a3" :> {RewardRow("p", 1, 1)} @@
  "b2" :> {RewardRow("q", 1, 0)} @@ "b3" :> {RewardRow("q", 1, 2)} @@ "b4" :> {RewardRow("p", 1, 0)}

TokenRow(asset, n, from, to, amount) ==
  [asset |-> asset, n |-> n, sender |-> from, recipient |-> to, amount |-> amount]
BalTokenEvents ==
  "a1" :> {TokenRow("ft", 1, "nobody", "p", 5), TokenRow("nft", 1, "nobody", "q", 1)} @@
  "a2" :> {TokenRow("ft", 2, "p", "q", 3), TokenRow("nft", 2, "q", "p", 1)} @@
  "a3" :> {TokenRow("nft", 3, "p", "nobody", 1)} @@
  "b2" :> {TokenRow("ft", 2, "p", "q", 3)} @@ "b3" :> {TokenRow("ft", 3, "q", "nobody", 1)} @@ "b4" :> {}

BalVesting == {[address |-> "p", block |-> 2, amount |-> 3], [address |-> "p", block |-> 3, amount |-> 4]}

Bal ==
  INSTANCE Balances WITH known <- balKnown, main <- balMain, asked <- balAsked,
    Block <- DOMAIN LongTree, Parent <- LongTree, Height <- LongLevels, BurnHeight <- BurnLevels,
    Address <- {"p", "q"}, Nobody <- "nobody", StxEvents <- BalStxEvents, Fees <- BalFees, Locks <- BalLocks,
    Rewards <- BalRewards, TokenEvents <- BalTokenEvents, Vesting <- BalVesting, MaxRequests <- 2

(* Search: t is in both branches; the account q is named only by an event   *)
(* of the shorter one.                                                      *)
ShortTree == [b \in MCBlock \ {"a3"} |-> Tree[b]]
SearchTxsOf == "a1" :> {} @@ "a2" :> {"t"} @@ "b2" :> {"u"} @@ "b3" :> {"t"}
SearchTables ==
  [x \in (DOMAIN ShortTree) \X {"p", "q"} |->
     CASE x = <<"a1", "p">> -> {"ft_events"} [] x = <<"a2", "q">> -> {"txs", "nft_events"} [] OTHER -> {}]

SearchBlock == DOMAIN ShortTree
SearchLevels == [b \in SearchBlock |-> Levels[b]]
MCDeployedBy == "contract" :> "u"

(* Address lists: a block is empty or holds one of: a token transfer; a     *)
(* bulk transfer, run or aborted; a mint, a transfer and the way back of an *)
(* NFT, the last with an STX payment.                                       *)
StxMove(from, to, amount) ==
  [kind |-> "stx", sender |-> from, recipient |-> to, amount |-> amount, asset |-> "stx"]
NftMove(from, to) == [kind |-> "nft", sender |-> from, recipient |-> to, amount |-> 1, asset |-> "n"]
Memo == [kind |-> "log", sender |-> "nobody", recipient |-> "nobody", amount |-> 0, asset |-> "memo"]
CallTx(id, from, evs) ==
  [id |-> id, sender |-> from, recipient |-> "nobody", contract |-> "sendMany", fee |-> 1, events |-> evs]
ListContent ==
  { <<>>,
    <<[id |-> "transfer", sender |-> "p", recipient |-> "q", contract |-> "nobody", fee |-> 1,
       events |-> <<StxMove("p", "q", 2)>>]>>,
    <<CallTx("bulk", "p", <<StxMove("p", "q", 1), Memo, StxMove("p", "q", 1), Memo>>)>>,
    <<CallTx("bulk", "p", <<>>)>>,
    <<CallTx("mint", "p", <<NftMove("nobody", "p")>>)>>,
    <<CallTx("sell", "p", <<NftMove("p", "q")>>)>>,
    <<CallTx("back", "p", <<StxMove("p", "q", 3), NftMove("q", "p")>>)>> }

Lists ==
  INSTANCE AddressQueries WITH known <- listKnown, main <- listMain,
    Block <- MCBlock, Parent <- Tree, Height <- Levels, Address <- {"p", "q", "sendMany"}, Nobody <- "nobody",
    Content <- ListContent, Limit <- 2

(* Burnchain: two burn blocks of one height, one below them, one above.     *)
BurnLevel == "k1" :> 1 @@ "k2" :> 2 @@ "f2" :> 2 @@ "k3" :> 3
BurnRecipients == "k1" :> <<"b1", "b2">> @@ "k2" :> <<"b1", "b1">> @@ "f2" :> <<"b2">> @@ "k3" :> <<"b1">>
BurnHolders == "k1" :> <<"b1">> @@ "k2" :> <<"b2", "b1">> @@ "f2" :> <<>> @@ "k3" :> <<"b1", "b1">>

Burn ==
  INSTANCE BurnchainQueries WITH BurnBlock <- DOMAIN BurnLevel, Height <- BurnLevel,
    Recipients <- BurnRecipients, Holders <- BurnHolders, Stx <- {"s1"}, Btc <- {"b1", "b2"},
    C32ToB58 <- "s1" :> "b1", PageLimit <- 2, MaxMessages <- 4, MaxCrashes <- 1

-----------------------------------------------------------------------------
QueriesInit ==
  /\ part \in {"txs", "balances", "search", "lists", "burnchain"}
  /\ Init /\ Routes!Init /\ Bal!Init /\ Lists!Init /\ Burn!Init

QueriesNext ==
  \/ part = "txs" /\ Routes!Next /\ UNCHANGED <<part, vars, balanceVars, listVars, burnVars>>
  \/ part = "balances" /\ Bal!Next /\ UNCHANGED <<part, vars, txVars, listVars, burnVars>>
  \/ part = "search" /\ Next /\ UNCHANGED <<part, txVars, balanceVars, listVars, burnVars>>
  \/ part = "lists" /\ Lists!Next /\ UNCHANGED <<part, vars, txVars, balanceVars, burnVars>>
  \/ part = "burnchain" /\ Burn!Next /\ UNCHANGED <<part, vars, txVars, balanceVars, listVars>>

QueriesSpec == QueriesInit /\ [][QueriesNext]_<<part, vars, txVars, balanceVars, listVars, burnVars>>

-----------------------------------------------------------------------------
(* A client that walks the transaction list sees every transaction listed   *)
(* when it began, unless a block is orphaned meanwhile.                     *)
PagesMissNothing == Routes!PagesMissNothing

(* As long as no block is orphaned, the answer is the balance the chain's   *)
(* ledger had at the height first read.                                     *)
BalanceIsLedger == Bal!BalanceIsLedger

(* The transactions_with_transfers of an address explain its balance.       *)
TransfersExplainBalance == Lists!TransfersExplainBalance

(* What else holds of the answers: nothing listed or stored is lost between *)
(* two statements; a height once read stays readable, and all holdings add  *)
(* up to the supply; what is stored is found; the lists of an address hold  *)
(* every event of the main chain once; the burnchain pages hold their total *)
(* and growth hides nothing.                                                *)
QueriesInv ==
  /\ Routes!TypeOK /\ Routes!ListedIsFound /\ Routes!StoredIsFound /\ Routes!StableIsExact
  /\ Routes!EventsOfItsBlock /\ Routes!PageHoldsTotal
  /\ Bal!TypeOK /\ Bal!HeightStaysFound /\ Bal!SupplyIsHeld /\ Bal!TokensConserved
  /\ IInv
  /\ Lists!TypeOK /\ Lists!AssetPagesComplete /\ Lists!InboundIsMain /\ Lists!NftsMatchCount
  /\ Burn!TypeOK /\ Burn!PagesSumToTotal /\ Burn!PagesHoldTotal
  /\ Burn!GrowthHidesNothing /\ Burn!OneBlockPerHeight
=============================================================================
