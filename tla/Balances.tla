------------------------------ MODULE Balances ------------------------------
(***************************************************************************)
(* Balances and supply, read from the chain tables while blocks arrive      *)
(* (postgres-store.ts; address.ts and stx-supply.ts).  The tables are what  *)
(* LongestChain promises: known blocks and the canonical chain.  The rows   *)
(* of a block are canonical with it.                                        *)
(*                                                                         *)
(* A request reads the current height, then the STX balance at that height, *)
(* the vesting schedule and the token balances.  queryTx gives no snapshot: *)
(* under READ COMMITTED each statement sees what is committed then.         *)
(***************************************************************************)
EXTENDS Integers, FiniteSets, FiniteSetsExt, TLC

CONSTANTS
  Block, Parent, Height,
  BurnHeight,      \* burn_block_height of a block
  Address, Nobody, \* Nobody: the sender of a mint, the recipient of a burn
  StxEvents,       \* stx_events rows of a block
  Fees,            \* txs rows of a block: sender and fee_rate
  Locks,           \* stx_lock_events rows of a block
  Rewards,         \* miner_rewards rows of a block, mature at its height
  TokenEvents,     \* ft_events and nft_events rows of a block
  Vesting,         \* token_offering_locked
  MaxRequests

VARIABLES
  known, main,     \* blocks, and those with canonical = true
  read,            \* the request under way
  reorged,         \* history: a canonical block was orphaned during the read
  asked

chain == <<known, main>>
vars == <<chain, read, reorged, asked>>

Chain == INSTANCE LongestChain
NoRead == [pc |-> "none"]
Sum(rows) == MapThenSumSet(LAMBDA r : r.amount, rows)

-----------------------------------------------------------------------------
(* Canonical rows of a table up to a height.                                *)
Rows(table, h) == UNION {table[b] : b \in {c \in main : Height[c] <= h}}

(* getBlockByHeightInternal.                                                *)
AtHeight(h) == {b \in main : Height[b] = h}

(* getCurrentBlockHeight.                                                   *)
CurrentHeight == Max({Height[b] : b \in main})

(* Mutant: the height is not applied to the transfers.                      *)
ReceivedLessSentAtTip(a, h) ==
  LET rows == Rows(StxEvents, CurrentHeight)
  IN  Sum({r \in rows : r.recipient = a}) - Sum({r \in rows : r.sender = a})

(* credit_total - debit_total                                               *)
ReceivedLessSent(a, h) ==
  LET rows == Rows(StxEvents, h)
  IN  Sum({r \in rows : r.recipient = a}) - Sum({r \in rows : r.sender = a})

(* fee_sum                                                                  *)
FeesSent(a, h) == Sum({r \in Rows(Fees, h) : r.sender = a})

(* The locks in force at a burn block height.                               *)
LockRows(a, h, burn) == {r \in Rows(Locks, h) : r.address = a /\ r.unlock > burn}

(* coinbase_amount + tx_fees_*                                              *)
RewardsReceived(a, h) ==
  MapThenSumSet(LAMBDA r : r.coinbase + r.fees, {r \in Rows(Rewards, h) : r.recipient = a})

Balance(a, h) == ReceivedLessSent(a, h) - FeesSent(a, h) + RewardsReceived(a, h)

(* getUnlockedStxSupply.                                                    *)
Supply(h) ==
  Sum({r \in Rows(StxEvents, h) : r.kind = "mint"})
    - Sum({r \in Rows(StxEvents, h) : r.kind = "burn"})
    + MapThenSumSet(LAMBDA r : r.coinbase, Rows(Rewards, h))

(* getTokenOfferingLocked: locked and unlocked parts of the schedule.       *)
Offering(a, h) ==
  LET rows == {r \in Vesting : r.address = a}
  IN  [locked |-> Sum({r \in rows : r.block > h}), unlocked |-> Sum({r \in rows : r.block <= h})]

(* getFungibleTokenBalances and getNonFungibleTokenCounts, in which each    *)
(* row counts as one: received less sent, whatever the height.              *)
Tokens(a, asset) ==
  LET rows == {r \in Rows(TokenEvents, CurrentHeight) : r.asset = asset}
  IN  Sum({r \in rows : r.recipient = a}) - Sum({r \in rows : r.sender = a})

Assets == {r.asset : r \in UNION {TokenEvents[b] : b \in Block}}

-----------------------------------------------------------------------------
Init == Chain!Init /\ read = NoRead /\ reorged = FALSE /\ asked = 0

(* update commits a block; PgChainStore implements this step.               *)
Update ==
  /\ \E b \in Block \ known : Chain!Fork(b) \/ Chain!Extend(b)
  /\ reorged' = (reorged \/ ~(main \subseteq main'))
  /\ UNCHANGED <<read, asked>>

(* GET /address/:stx_address/stx and /balances.                             *)
Request(a) ==
  /\ read.pc \in {"none", "answered", "failed", "twoLocks"} /\ asked < MaxRequests /\ main # {}
  /\ asked' = asked + 1 /\ reorged' = FALSE
  /\ read' = [pc |-> "block", address |-> a, height |-> CurrentHeight]
  /\ UNCHANGED chain

Set(r) == read' = r /\ UNCHANGED <<chain, reorged, asked>>

(* getStxBalanceAtBlock.                                                    *)
GetBlock ==
  /\ read.pc = "block"
  /\ LET rows == AtHeight(read.height)
     IN  Set(IF rows = {} THEN [read EXCEPT !.pc = "failed"]
             ELSE [read EXCEPT !.pc = "transfers"] @@ [burn |-> BurnHeight[CHOOSE b \in rows : TRUE]])

GetTransfers ==
  /\ read.pc = "transfers"
  /\ Set([read EXCEPT !.pc = "fees"] @@ [moved |-> ReceivedLessSent(read.address, read.height)])

GetFees ==
  /\ read.pc = "fees"
  /\ Set([read EXCEPT !.pc = "locks"] @@ [fees |-> FeesSent(read.address, read.height)])

(* More than one lock is an error.                                          *)
GetLocks ==
  /\ read.pc = "locks"
  /\ LET rows == LockRows(read.address, read.height, read.burn)
     IN  Set([read EXCEPT !.pc = IF Cardinality(rows) > 1 THEN "twoLocks" ELSE "rewards"]
              @@ [locked |-> Sum(rows)])

GetRewards ==
  /\ read.pc = "rewards"
  /\ Set([read EXCEPT !.pc = "tokens"]
          @@ [balance |-> read.moved - read.fees + RewardsReceived(read.address, read.height)])

(* The schedule does not change while the API runs.                         *)
GetTokens ==
  /\ read.pc = "tokens"
  /\ Set([read EXCEPT !.pc = "answered"]
          @@ [offering |-> Offering(read.address, read.height),
              tokens |-> [t \in Assets |-> Tokens(read.address, t)]])

Next ==
  \/ Update
  \/ \E a \in Address : Request(a)
  \/ GetBlock \/ GetTransfers \/ GetFees \/ GetLocks \/ GetRewards \/ GetTokens

Spec == Init /\ [][Next]_vars

-----------------------------------------------------------------------------
(* TypeOK: a request is at the height of a stored block.                    *)
TypeOK ==
  /\ known \subseteq Block /\ main \subseteq known
  /\ asked \in 0..MaxRequests
  /\ read # NoRead => read.address \in Address /\ read.height \in {Height[b] : b \in known}

(* What the ledger of a chain says, block by block.                         *)
Delta(b, a) ==
  LET rows == StxEvents[b]
  IN  Sum({r \in rows : r.recipient = a}) - Sum({r \in rows : r.sender = a})
        - Sum({r \in Fees[b] : r.sender = a})
        + MapThenSumSet(LAMBDA r : r.coinbase + r.fees, {r \in Rewards[b] : r.recipient = a})

Ledger(m, h, a) ==
  LET ledger[n \in 0..h] ==
        IF n = 0 THEN 0
        ELSE ledger[n - 1] + Delta(CHOOSE b \in m : Height[b] = n, a)
  IN  ledger[h]

(* Blocks stored between the statements of a request do not disturb it: as  *)
(* long as none is orphaned, the answer is the balance the chain's ledger   *)
(* had at the height first read.                                            *)
BalanceIsLedger ==
  read.pc = "answered" /\ ~reorged => read.balance = Ledger(main, read.height, read.address)

(* A height once read stays readable: forks replace canonical blocks by a   *)
(* longer chain, so the second transaction finds a block.                   *)
HeightStaysFound == read.pc # "failed"

(* The books balance at every height: what all addresses hold, and the fees *)
(* not yet paid out to miners, is the supply.                               *)
SupplyIsHeld ==
  \A h \in {Height[b] : b \in main} :
    LET unpaid == Sum(Rows(Fees, h)) - MapThenSumSet(LAMBDA r : r.fees, Rows(Rewards, h))
    IN  MapThenSumSet(LAMBDA a : Balance(a, h), Address) + unpaid = Supply(h)

(* No address has received fewer tokens than it sent, and every token in    *)
(* circulation is somebody's.                                               *)
TokensConserved ==
  main # {} =>
    \A t \in Assets :
      LET rows == {r \in Rows(TokenEvents, CurrentHeight) : r.asset = t}
      IN  /\ \A a \in Address : Tokens(a, t) >= 0
          /\ MapThenSumSet(LAMBDA a : Tokens(a, t), Address)
               = Sum({r \in rows : r.sender = Nobody}) - Sum({r \in rows : r.recipient = Nobody})

(* "should return zero or one rows": an address has one lock in force.      *)
OneLock == read.pc # "twoLocks"
=============================================================================
