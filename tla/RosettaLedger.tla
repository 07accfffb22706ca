---------------------------- MODULE RosettaLedger ---------------------------
(***************************************************************************)
(* The Rosetta data API: /block, /block/transaction and /account/balance    *)
(* (rosetta-helpers.ts, db-controller.ts, routes/rosetta) over the chain    *)
(* tables.  A block is served as operations on accounts; a client adds up   *)
(* the successful ones and compares with /account/balance.  The statements  *)
(* of a request interleave with the blocks that arrive.                     *)
(***************************************************************************)
EXTENDS Integers, Sequences, SequencesExt, FiniteSets, FiniteSetsExt, TLC

CONSTANTS
  Block, Parent, Height,
  Account,
  Content,         \* what each block may hold: sequences of transactions
  Rewards,         \* miner_rewards rows that mature with a block
  MaxRequests

VARIABLES
  known, main,     \* blocks, and those with canonical = true
  txs,             \* the transactions of a stored block
  req,             \* the request under way
  stayed,          \* history: its block was canonical all the time
  asked

chain == <<known, main>>
vars == <<chain, txs, req, stayed, asked>>

Chain == INSTANCE LongestChain
NoRequest == [pc |-> "none"]
Idle == req.pc \in {"none", "answered", "failed"}

-----------------------------------------------------------------------------
(* Operations: an account, a signed amount (0 where there is none) and      *)
(* whether the status is success.                                           *)
Op(type, account, amount, ok) == [type |-> type, account |-> account, amount |-> amount, ok |-> ok]

FeeOperation(tx) == Op("fee", tx.sender, -tx.fee, TRUE)
SenderOperation(tx, from, amount) == Op(tx.type, from, -amount, tx.ok)
ReceiverOperation(tx, to, amount) == Op(tx.type, to, amount, tx.ok)
CallOperation(tx) == Op(tx.type, tx.sender, 0, tx.ok)
BurnOperation(tx, sender, e) == Op("burn", sender, -e.amount, tx.ok)
MintOperation(tx, e) == Op("mint", e.recipient, e.amount, tx.ok)
StakeLockOperation(tx, e) == Op("stx_lock", e.sender, 0, tx.ok)
MinerOperations(rewards) ==
  LET rows == SetToSeq(rewards)
  IN  [i \in DOMAIN rows |-> Op("miner_reward", rows[i].recipient, rows[i].coinbase + rows[i].fees, TRUE)]

(* Mutant: the transfer event of a token transfer is an operation again.    *)
processEventsTwice(tx, events, ops) ==
  LET step(acc, e) ==
        IF e.kind = "transfer"
        THEN acc \o <<SenderOperation(tx, e.sender, e.amount), ReceiverOperation(tx, e.recipient, e.amount)>>
        ELSE IF e.kind = "burn" THEN Append(acc, BurnOperation(tx, e.sender, e))
        ELSE IF e.kind = "mint" THEN Append(acc, MintOperation(tx, e)) ELSE acc
  IN  FoldLeft(step, ops, events)

(* processEvents.  A transfer overwrites the sender of the transaction that *)
(* later burn operations are attributed to.                                 *)
processEvents(tx, events, ops) ==
  LET step(acc, e) ==
        CASE e.kind = "transfer" /\ tx.type = "token_transfer" -> acc
          [] e.kind = "transfer" /\ tx.type # "token_transfer" ->
               [sender |-> e.sender,
                ops |-> acc.ops \o <<SenderOperation(tx, e.sender, e.amount),
                                     ReceiverOperation(tx, e.recipient, e.amount)>>]
          [] e.kind = "burn" -> [acc EXCEPT !.ops = Append(@, BurnOperation(tx, acc.sender, e))]
          [] e.kind = "mint" -> [acc EXCEPT !.ops = Append(@, MintOperation(tx, e))]
          [] e.kind = "lock" -> [acc EXCEPT !.ops = Append(@, StakeLockOperation(tx, e))]
  IN  FoldLeft(step, [sender |-> tx.sender, ops |-> ops], events).ops

getOperations(tx, rewards, events) ==
  LET own ==
        CASE tx.type = "token_transfer" ->
               <<FeeOperation(tx), SenderOperation(tx, tx.sender, tx.amount),
                 ReceiverOperation(tx, tx.recipient, tx.amount)>>
          [] tx.type \in {"contract_call", "smart_contract"} -> <<FeeOperation(tx), CallOperation(tx)>>
          [] tx.type = "coinbase" -> <<CallOperation(tx)>> \o MinerOperations(rewards)
          [] tx.type = "poison_microblock" -> <<CallOperation(tx)>>
  IN  processEvents(tx, events, own)

(* Only events of blocks above height 1 are returned.                       *)
EventsServed(b, tx) == IF Height[b] > 1 THEN tx.events ELSE <<>>

getMinerRewards(h) == UNION {Rewards[c] : c \in {d \in main : Height[d] = h}}

(* getBlockTxsRows: canonical rows.                                         *)
getBlockTxsRows(b) == IF b \in main THEN txs[b] ELSE <<>>

BlockOperations(b, rows, rewards) ==
  FlattenSeq([i \in DOMAIN rows |-> getOperations(rows[i], rewards, EventsServed(b, rows[i]))])

(* /block/transaction: neither events nor rewards.                          *)
TransactionOperations(tx) == getOperations(tx, {}, <<>>)

-----------------------------------------------------------------------------
(* The ledger behind /account/balance.                                      *)
Delta(b, a) ==
  LET sum(rows) == FoldSeq(LAMBDA n, acc : n + acc, 0, rows)
      ofEvents(tx) == sum([n \in DOMAIN tx.events |->
        (IF tx.events[n].kind \in {"transfer", "mint"} /\ tx.events[n].recipient = a THEN tx.events[n].amount ELSE 0)
        - (IF tx.events[n].kind \in {"transfer", "burn"} /\ tx.events[n].sender = a THEN tx.events[n].amount ELSE 0)])
  IN  sum([i \in DOMAIN txs[b] |-> ofEvents(txs[b][i]) - (IF txs[b][i].sender = a THEN txs[b][i].fee ELSE 0)])
        + MapThenSumSet(LAMBDA r : r.coinbase + r.fees, {r \in Rewards[b] : r.recipient = a})

(* getStxBalanceAtBlock; Balances models its statements.                    *)
getStxBalanceAtBlock(a, h) == MapThenSumSet(LAMBDA b : Delta(b, a), {b \in main : Height[b] <= h})

-----------------------------------------------------------------------------
Init == Chain!Init /\ txs = <<>> /\ req = NoRequest /\ stayed = FALSE /\ asked = 0

(* update commits a block; PgChainStore implements this step.               *)
Update(b, content) ==
  /\ b \notin known
  /\ Chain!Fork(b) \/ Chain!Extend(b)
  /\ txs' = [c \in known' |-> IF c = b THEN content ELSE txs[c]]
  /\ stayed' = (stayed /\ req.block \in main')
  /\ UNCHANGED <<req, asked>>

Begin(b, r) ==
  /\ Idle /\ asked < MaxRequests /\ b \in known
  /\ asked' = asked + 1 /\ stayed' = (b \in main)
  /\ req' = r @@ [block |-> b]
  /\ UNCHANGED <<chain, txs>>

Set(r) == req' = r /\ UNCHANGED <<chain, txs, stayed, asked>>

(* POST /rosetta/v1/block: the block by hash, by index or the current one.  *)
RequestBlock(b) == Begin(b, [kind |-> "block", pc |-> "txs"])

ReadTxs ==
  /\ req.pc = "txs"
  /\ Set([req EXCEPT !.pc = "rewards"] @@ [rows |-> getBlockTxsRows(req.block)])

(* No rows: the block is served without transactions.                       *)
ReadRewards ==
  /\ req.pc = "rewards"
  /\ Set([req EXCEPT !.pc = "parent"]
          @@ [ops |-> BlockOperations(req.block, req.rows, getMinerRewards(Height[req.block]))])

(* The parent by hash; the genesis block is its own parent.                 *)
ReadParent ==
  /\ req.pc = "parent"
  /\ LET parent == IF Height[req.block] = 1 THEN req.block ELSE Parent[req.block]
     IN  Set(IF parent \notin known THEN [req EXCEPT !.pc = "failed"]
             ELSE [req EXCEPT !.pc = "answered"] @@ [parent |-> parent])

(* POST /rosetta/v1/account/balance: the current block, or by index of a    *)
(* canonical one, or by hash; both index and hash compare the hash with one *)
(* that was not read from the request.                                      *)
RequestBalance(a, b, by) ==
  /\ by = "hash" \/ b \in main
  /\ Begin(b, [kind |-> "balance", pc |-> IF by = "both" THEN "failed" ELSE "balance", address |-> a])

ReadBalance ==
  /\ req.pc = "balance"
  /\ Set([req EXCEPT !.pc = "answered"]
          @@ [balance |-> getStxBalanceAtBlock(req.address, Height[req.block])])

Next ==
  \/ \E b \in Block : \E content \in Content[b] : Update(b, content)
  \/ \E b \in Block : RequestBlock(b)
  \/ ReadTxs \/ ReadRewards \/ ReadParent
  \/ \E a \in Account, b \in Block, by \in {"current", "index", "hash", "both"} : RequestBalance(a, b, by)
  \/ ReadBalance

Spec == Init /\ [][Next]_vars

-----------------------------------------------------------------------------
(* TypeOK: requests are about stored blocks.                                *)
TypeOK ==
  /\ known \subseteq Block /\ main \subseteq known /\ DOMAIN txs = known
  /\ ~Idle => req.block \in known
  /\ asked \in 0..MaxRequests

Effect(ops, a) == FoldSeq(LAMBDA op, acc : (IF op.account = a /\ op.ok THEN op.amount ELSE 0) + acc, 0, ops)

(* No burn of another account than the operations name, and no report of a  *)
(* microblock fork.                                                         *)
Plain(tx) ==
  /\ tx.type # "poison_microblock"
  /\ \A n \in DOMAIN tx.events :
       tx.events[n].kind = "burn" =>
         /\ tx.events[n].sender = tx.sender
         /\ \A m \in 1..n : tx.events[m].kind = "transfer" => tx.events[m].sender = tx.sender

(* A block that stays canonical while it is read is served with operations  *)
(* that add up, account by account, to the change of its balance.           *)
PlainBlockReconciles ==
  req.pc = "answered" /\ req.kind = "block" /\ stayed /\ Height[req.block] > 1
    /\ (\A i \in DOMAIN txs[req.block] : Plain(txs[req.block][i])) =>
    \A a \in Account :
      Effect(req.ops, a) = getStxBalanceAtBlock(a, Height[req.block])
                             - getStxBalanceAtBlock(a, Height[req.block] - 1)

(* "check blocks are connected": the parent served is the block's parent,   *)
(* whatever is canonical by then, and it is always found.                   *)
BlocksConnected ==
  /\ req.pc = "failed" => req.kind = "balance"
  /\ req.pc = "answered" /\ req.kind = "block" =>
       req.parent = IF Height[req.block] = 1 THEN req.block ELSE Parent[req.block]

LedgerUpTo(b, a) ==
  LET upTo[c \in known] == Delta(c, a) + IF Height[c] = 1 THEN 0 ELSE upTo[Parent[c]]
  IN  upTo[b]

(* A balance at a block that stays canonical is the ledger's at it.         *)
BalanceIfStayed ==
  req.pc = "answered" /\ req.kind = "balance" /\ stayed => req.balance = LedgerUpTo(req.block, req.address)

(* "Operations contain all balance-changing information within a            *)
(* transaction": every block that stays canonical reconciles.               *)
BlockReconciles ==
  req.pc = "answered" /\ req.kind = "block" /\ stayed /\ Height[req.block] > 1 =>
    \A a \in Account :
      Effect(req.ops, a) = getStxBalanceAtBlock(a, Height[req.block])
                             - getStxBalanceAtBlock(a, Height[req.block] - 1)

(* "all future calls for that same BlockIdentifier must return the same     *)
(* block contents".                                                         *)
BlocksInalterable == [][\A b \in known : getBlockTxsRows(b)' = getBlockTxsRows(b)]_vars

(* The balance is that of the block named in the answer.                    *)
BalanceOfItsBlock ==
  req.pc = "answered" /\ req.kind = "balance" => req.balance = LedgerUpTo(req.block, req.address)

(* "If the block_identifier is populated, a historical balance query should *)
(* be performed".                                                           *)
HistoricalAnswered == req.pc = "failed" => req.kind # "balance"

(* A transaction is served by /block/transaction with the operations that   *)
(* /block has for it.                                                       *)
TransactionComplete ==
  \A b \in main : Height[b] > 1 =>
    \A i \in DOMAIN txs[b] :
      LET tx == txs[b][i]
      IN  tx.type # "coinbase" => TransactionOperations(tx) = getOperations(tx, {}, EventsServed(b, tx))
=============================================================================
