# A TLA+ model of the Stacks blockchain API

The repository is the API server that indexes a Stacks 2.0 node into Postgres
and serves the result over HTTP and WebSockets. This directory holds the TLA+
modules that model it, the TLC configurations that check them on small
instances, and TLAPS proofs of what matters most for every instance.
`PROJECT.json` lists components, runs, mutants, hazards and theorems, and maps
every definition to its source lines.

## Inventory

| Component | State | Operations | Interacts with | What makes it correct |
| --- | --- | --- | --- | --- |
| Chain store (`datastore/postgres-store.ts`) | `blocks`, ten entity tables, `subdomains`, `mempool_txs` | `update`, `handleReorg`, `restoreOrphanedChain`, `markEntitiesCanonical`, `updateMempoolTxs`, `dropMempoolTxs`, `resolveBnsSubdomains` | called by the event server, read by the API, emits events | one canonical chain up to the greatest height; entities follow it; no transaction lost |
| Burnchain tables | `burnchain_rewards`, `reward_slot_holders` | `updateBurnchainRewards`, `updateBurnchainRewardSlotHolders`, lists and totals | event server, burnchain routes | equal to the node's burnchain, nothing counted twice, pages that miss nothing |
| Event server (`event-stream/`) | the processor queue | one handler per kind of message | the node (at-least-once delivery), the store | what is answered with 200 is durable; every message is answered |
| Block message conversion (`reader.ts`, `event-server.ts`) | none | decode, drop, collect, renumber | event server | rows and messages stay aligned |
| Transaction reader (`p2p/tx.ts`) | position in the input | `readTransaction` and the second reading of stored parts | conversion, routes | every field gets its meaning, nothing unread |
| BNS tables | `names`, `namespaces`, `subdomains` | `updateNames`, `updateNamespaces`, `resolveBnsNames`, `resolveBnsSubdomains`, the name queries | event server, importer, routes | one latest canonical row per name, zone files that match |
| WebSocket RPC (`ws-rpc.ts`) and its client library | subscription sets, balance queue; pending calls, listeners | subscribe, unsubscribe, close, notify | events of the store | subscribers end with the current balance of the last block that names the address, in order; calls settle |
| socket.io server and client | rooms, handshake query | subscribe, unsubscribe, reconnect, notify | events of the store | rooms survive reconnection |
| Faucets (`faucets.ts`, `btc-faucet.ts`) | `faucet_requests`, two queues | STX and BTC request | node RPC, bitcoind | limits kept, one payment per request |
| Importer (`import-v1/`) | `config_state` flags | BNS and token offering import | start-up | imported entirely and once, or not at all |
| Queries (transactions, blocks, balances, supply, address lists, search) | none | several statements each under READ COMMITTED | API routes | answers agree with the chain although blocks arrive between statements |
| Rosetta API | none | blocks, balances; the construction calls | store, node | operations add up to balances; what is signed is what was asked |
| HTTP routing and generated client | one request | match, handle, redirect, fail | every route | the intended route answers, once |
| In-memory store (`memory-store.ts`) | maps | `update`, mempool, lists | routes | one canonical block per height, announced when stored |
| Lifecycle (`index.ts`, `shutdown-handler.ts`, `api/init.ts`) | shutdown flag, handlers | start, shutdown | everything | nothing somebody waits for meets a closed store; shutdown ends once the clients are gone |

The hard behaviours: blocks of forks in any order with reorgs of several
levels inside one SQL transaction; crashes and failures between transactions,
commit, events and answer; messages repeated by the node while an earlier copy
is still queued; notifications prepared after the event that caused them;
answers put together from several statements while blocks are committed;
payments made before they are recorded.

## Modules

### Writing the chain

`PgChainStore`. A block is its `index_block_hash`; the tree (`Parent`, `Height`,
`TxsOf`) is a constant, and so is arbitrary in the proofs. `db` is the committed
database, `work` what the open transaction sees. `update` is the sequence
`Begin`, `NoReorg` / `Reorg` / `MissingParent`, one `RestoreOrphanedChain` per
level of the recursion, `StoreAndCommit`, `Emit`; `Abort` ends the transaction
at any point. `UpdateMempoolTxs`, `DropMempoolTxs` and `ResolveBnsSubdomains`
are one transaction each. The processor queue runs one writer at a time, so they
do not interleave with an open `update`. Entity rows are kept per table and
block; `names` and `namespaces` store the hash as text and are not found by
`markEntitiesCanonical` (`KeyedByHash`). The subdomains are written by
attachments, never by `update` (the event server passes an empty list), and
always as canonical, also while their block is orphaned or not stored yet:
`getNameCanonical` compares the decoded hash with the text and finds no row. The
history `late` marks these until a reorg passes over their block.

`LongestChain` is the abstract promise: a set of known blocks and a main branch
that ends in a highest block and only changes when a higher block arrives. The
committed `blocks` table implements it (`ImplementsLongestChain`), and
`EventServer`, `Bns`, `Balances`, `TxQueries`, `Search`, `AddressQueries` and
`RosettaLedger` are built on it: for them a block is stored in one step.

`EventServer`. The node has three feeds (chain, mempool, attachments). Each
posts a message until it is answered with 200, then goes on; a post may time out
in the node while it is queued or running in the server (`live = FALSE`).
`Start` takes the next post from the queue of concurrency 1; each step of a
handler is one SQL transaction or the emission of events. `RespondError` (status
500), `Fail` (a transaction fails) and `Crash` (queue and handler are lost,
tables stay) end a handler. The node is external; it never sends a chain
message before the previous one was answered.

`BlockMessage`. The conversion of a `/new_block` message, as four steps over
every message of the bounds: which transactions parse (a PoisonMicroblock, like
a Bitcoin transaction with an unexpected event, makes the whole message fail),
the backward splice of
Bitcoin transactions that did not, the collection of committed events into
per-type arrays, and the renumbering of `event_index` per transaction.

`TxReader`. `readTransaction` field by field: a field of the input has a
meaning, a width and a value; the reader sees width and value only and gives
each field the meaning of the place it reads it at. The input may end early or
hold an unknown code at any field (`EndsHere`, `UnknownHere`). Reads past the
end are those of the `smart-buffer` library (external): integers throw, buffers
may come back short. The raw post conditions and arguments are stored and read
again without their first byte.

`Bns`. Rows of the three tables with `latest`, `canonical` and the encoding of
their hash. A row's `address` is the `tx_sender` of the event's metadata: the
previous owner for a transfer, the importer for an import. A transaction may
have several name events, and `resolveBnsNames` writes to every row of it. The inserts of one block, each of which takes `latest` from the
older rows of its name, are written in closed form: the rows of before lose it
for every name the block mentions, and of the new rows the last one of each name
has it (`Supersede`, `LastOfItsName`). A block is stored by `UpdateCanonical` or
`UpdateFork`; an attachment message is `StartAttachments`, `QueryCanonical`,
`resolveBnsSubdomains` and `resolveBnsNames`, one transaction each, with `Crash`
between any two. Routes read zone files, subdomains and namespaces in several
steps (`Read...`, `Lookup...`, `Answer...`).

`MemoryStore`. `update` of the in-memory store, one step per await: the block
with the demotion of what is as high or higher, then each transaction, its
events kind by kind and its contract, then the event. No one asks for a block's
parent. Mempool rows are never removed.

### Notifying

`WsRpc`. A topic is an address. The manager deletes an empty Set, and a queued
notification keeps the Set it found, so Sets carry a generation. A block's
commit, its `addressUpdate` events, the start of a notification, its balance
query and its send are separate actions; clients come and go between them.
`CommitBlock` chooses the addresses whose balance changes and those that the
block's transactions name independently of each other: `emitAddressTxUpdates`
goes by the transactions, so rewards and the blocks a reorg restores or orphans
change balances without an event (`silent`). A balance is the number of the
block that last changed it. Notifications of single transactions are sent
within the event and keep no state.

`SocketIo`. The client's wish list lives in the handshake query, emits are
buffered while the link is down and lost on a link that breaks, and the server's
rooms go with the connection. Every `addressUpdate` starts its own balance
query; answers may overtake each other.

`WsClient`. Handles, pending requests and listeners of the client library over
an ordered socket. The continuation that adds a listener is a step of its own
after the answer arrived. A closed socket leaves calls pending.

### Paying

`StxFaucet`. One request runs at a time. Rate limit, amounts, one nonce per
node, one send per node, the decision to retry, and the record are separate
actions. The one or two nodes are external: a view of the chain that may lag, a
mempool, relay, mining without reorgs. Failures: no answer, an answer lost after
the transfer was taken, a failed insert, a crash anywhere.

`BtcFaucet`. Rate limit, scan of the outputs, mempool ids, mempool
transactions, coin selection, send, record: bitcoind (external) mines between
any two. An address that is none throws before any of it and is left out.

### The process

`Lifecycle`. `init` opens store, event server, API server and metrics server,
each registered with a shutdown handler in the turn in which it opens; a signal
runs the handlers in their order while `init` goes on. A message of the node is
`waiting` while its connection is open and `abandoned` when the node gave up on
it (`ConnectionDrops`): its handler goes on, and closing the event server does
not wait for it. It takes a client of the pool for each of its transactions
(`StartStoring`, `StopStoring`); ending the pool refuses new ones and waits for
those in use (`EndPool`). The API handler closes socket.io, which waits for
clients, before the ws-rpc sockets; off line, closing the dummy store throws and
the exit code is 1.

`ImportV1`. The two imports, line by line, each in one transaction that ends
with its flag; any step may fail, a commit may lose its answer, the process may
stop and start again. An error in the writer of the name rows is an unhandled
rejection, which ends the process with code 0. What the files say as a whole is
written beside it without a fold: the k-th row of a section is the line with k
rows of the section up to it (`RowsAbove`, `Nth`).

`HttpApi`. The routes in the order `api/init.ts` mounts them, as patterns; the
calls of the generated client and the documented operations as requests.
`PassOver`, the handlers, redirects, `HandleError`. A handler that answers an
error and goes on answers twice, and the second answer throws.

### Reading

`TxQueries`, `Balances`, `Search`: a request is the sequence of its statements;
`Update` may commit a block, and a mempool transaction may come, between any
two; in `Search` the node may also drop one (`dropMempoolTxs`). History variables
say what was true when the request began, whether a block was orphaned since and
what was dropped. `TxQueries` also has a client that walks the
transaction list page by page. `Balances` has transfers, fees, locks, rewards,
vesting and tokens; fees of a sponsored transaction are charged to
`sender_address`, as in the query.

`AddressQueries`: one-statement lists over every state two branches of small
blocks reach; a transaction may succeed on one branch and abort on the other.
`BurnchainQueries`: a client reads lists page by page while the two transactions
of burn block messages, burnchain forks, repeats and crashes change them; every
reward counts 1, burn blocks are announced from the bottom.

`RosettaLedger`: `/block`, `/block/transaction`, `/account/balance` as
operations on accounts; amounts are relative to prior holdings, the 5000 events
a block reads at most are assumed not to be exceeded, sub-accounts are left out.
`RosettaConstruction`: sessions of clients with one key each through
`/preprocess`, `/metadata`, `/payloads`, `/parse`, `/combine`, `/hash` and
`/submit`; the nonce the node gives counts blocks only, and other sessions of
the account go on between two calls. A submission may find no node, or be taken
while its answer is lost (`SubmitUnanswered`): the client sees an error either
way. `getOptionsFromOperations` is written in
closed form, each option from the last operation that names it; `OptionsOfLoop`
in `MCRosetta` compares it with the loop of the source (`Apply`, operation by
operation) on every list of up to three operations.

## Runs

Components that meet only in values they hand on are checked in one run. Its MC
module extends the components whose properties it names or that are proved
about, and instantiates the others; the variable `part` is chosen in the initial
state and says which of them moves, the others stay in an idle state. The state
spaces add up instead of multiplying, and nothing is lost: the components share
no variable. Where components do interact through state they are composed in the
modules themselves (`LongestChain` under the store's readers and writers).

A run names its deepest properties one by one. The invariant `...Inv` of each MC
module is the conjunction of the other named invariants of its components, type
invariants included, and `...Live` that of their temporal properties; TLC checks
every conjunct. It also contains the inductive invariant of every component that
is proved about: `IInv` of `WsRpc` and `HandleIInv` of `WsClient` in
`notifications`, `IInv` of `StxFaucet`, with one node and with two, and of
`BtcFaucet` in `faucets`, `IInv` of `Lifecycle` and `ImportIInv` of `ImportV1`
in `process`, `IInv` of `RosettaConstruction` in `rosetta`, of `Search` in
`queries`, of `Bns` and of `MemoryStore` in `tables`, of `PgChainStore` and
`EventServer` in the first two runs. `IInv` of `Bns` is about the tables, which
a request does not change, and is checked before the first one; what a request
relies on, `RequestIInv`, is checked throughout.

| Run | Parts and bounds | States | Shows |
| --- | --- | --- | --- |
| `chain_store` | 8 blocks: fork of two levels, a second root, a missing parent; 2 transactions, one mined by both branches at different heights; attachments of one block of a fork | 73 thousand | one canonical chain, entities that follow it, no lost transaction, announcements of the tip only, refinement of `LongestChain` |
| `event_stream` | server: 2 blocks, 3 burn blocks (two at one height, one without recipients), 2 faults, either all burn blocks or all feeds; conversion: 2 transactions of 3 kinds, 3 events in any order; reader: every kind of authorisation, post condition and payload | 382 thousand | burnchain tables exact, acknowledged blocks durable, event numbers are ranks, fields keep their meaning, everything handled is acknowledged |
| `notifications` | WsRpc: 2 clients, 1 address, 3 blocks, 4 connections or subscriptions; SocketIo: 2 topics, 3 calls, 2 drops; WsClient: 3 handles, two on one topic | 239 thousand | subscribers up to date and in order, rooms as wanted, nothing missed, every call settles |
| `faucets` | STX with 1 node and with 2, 3 requests, 1 fault, limits 2 and 1 in windows of 1 and 2; BTC: 2 coins, 3 requests, 3 blocks | 275 thousand | limits, one payment per request with one node and with two, no displaced transfer, funds conserved, every request ends, answered transfers mined |
| `process` | 2 signals, 2 messages, 2 clients; 7 exports, 2 faults; every client call and documented operation | 15 thousand | store closed last, imports all or nothing, intended routes, one answer |
| `rosetta` | 2 sessions, 14 intents, 1 fault; 5 blocks with one of 6 transactions each | 46 thousand | what is mined was intended, blocks reconcile with balances, sessions end |
| `queries` | trees of 4 to 6 blocks with a fork; 3 requests (TxQueries), 2 (Balances, Search); 7 contents of a block (AddressQueries); 4 burn messages, 1 crash | 275 thousand | pages and look-ups lose nothing, balances are the ledger's, searches find, lists explain balances |
| `tables` | names: 4 blocks, 2 attachment messages handled twice in all, crashes, 1 request; memory: 5 blocks, 2 transactions with events of different kinds, 4 updates | 103 thousand | names right without forks, zone files match hashes, in-memory rows follow blocks |
| `reorg_unprunes_mined`, `names_after_reorg` | as `chain_store` | | findings 1 and 2 |
| `bns_fork_hides_name` | as `tables` | | finding 3 |
| `rosetta_reconcile` | as `rosetta` | | finding 4 |

Why the bounds suffice for the cases at hand: a reorg of two levels has a first,
a middle and a last step of the recursion, and the transaction in both branches
at different heights is what makes the order of levels matter. Two faults give a
time-out followed by a crash or failure of the repeat. Two clients suffice for
one leaving while another stays. Three requests exceed a limit of two and let a
third reuse a nonce. A fork that replaces two blocks takes away the block a
reader has found, and a page size of two needs a second page.

`CHECK_DEADLOCK FALSE` stands where the bounds on requests, connections, blocks
or faults end every behaviour: all passing runs but `chain_store` and `tables`.

### Fairness

* `EventServer`: weak fairness of the handler steps (the event loop runs what
  is ready, a query returns or fails) and of each feed's post (the node repeats
  until it is answered). Faults are bounded and never forced.
* `TxReader`, `HttpApi`: the one thread goes on reading or passing on a request.
* `WsRpc`: the emission of events and the notification queue. `SocketIo`:
  opening, the connection handler, packets on a link that holds (socket.io
  reconnects for ever). `WsClient`: continuations of answered calls and the
  server's answers. Clients need not do anything, links may break for good.
* `StxFaucet`, `BtcFaucet`: the job's steps; for `AnsweredIsMined` also the
  node's mining and synchronisation, without which no transfer is ever mined.
* `Lifecycle`: handlers and exit (weak), the end of a transaction (weak:
  Postgres answers) and of a message (strong: it is interrupted by its own
  transactions, of which it has finitely many). Nothing makes a client of the
  API leave, so `ShutdownEnds` says that a shutdown ends or waits for clients,
  and ends once there are none.
* `ImportV1`: the import goes on, and the operator starts a stopped process.
* `RosettaConstruction`: each session's next call, and the node's mining.
* `MemoryStore`: promises of an update settle.

## Findings

1. `restoreOrphanedChain` goes from the top of the new branch down, so a
   transaction pruned on an upper level is un-pruned by a lower level of the
   orphaned branch (`UpdatePrunesMined`).
2. `names` and `namespaces` never change their canonical flag in a reorg
   (`EveryEntityFollowsBlocks`).
3. A name event of a block below the tip clears `latest` of the canonical row
   and the name disappears from every query (`ForkInvisible`).
4. Burns are taken from the wrong account when a payment came before them or the
   burner is another principal, and a microblock report has no fee operation, so
   blocks do not reconcile (`BlockReconciles`).

### Other disagreements

Each of these properties states what the quoted line says, is defined beside the
model with that quotation, and is violated when it is added to the configuration
of its component (through the MC module's instance where the component is not
extended). None is part of a run.

| Property | Module | Code | What is said |
| --- | --- | --- | --- |
| `MinedNotPending` | `PgChainStore` | `postgres-store.ts:1695`: a mempool message after the block inserts a pending row | `datastore-tests.ts:2276` "tx should no longer be in the mempool after being mined" |
| `IdListIsMempool` | `PgChainStore` | `postgres-store.ts:1989`: pruned rows are listed | `openapi.yaml:1466` "Get all Transaction Identifiers in the mempool." |
| `PaymentsLimited` | `StxFaucet` | `faucets.ts:269`: a payment whose record is lost is not counted | `faucets.ts:134` "requests are limited to x times per y minutes" |
| `LatestBalanceLast` | `SocketIo` | `socket-io.ts:125`: queries are not queued and ask for the announced height (two events needed: `MaxEvents <- 2` in `MCNotifications`) | `socket-io.ts:122` "Get latest balance" |
| `ZonefileArrives` | `Bns` | `event-server.ts:513`: an attachment before its block updates nothing | `event-server.ts:288` "zone file will be updated in  /attachments/new" |
| `AddressIsOwner` | `Bns` | `event-server.ts:284`: the address is the event's `tx_sender`, after a transfer the previous owner | `openapi.yaml:2049` "Retrieves a list of names owned by the address provided." |
| `EveryChangeTold` | `WsRpc` | `postgres-store.ts:587`: only addresses that the arriving block's transactions name are announced, not a miner's reward nor what a reorg changes | `rpc-address-balance-subscription-params.schema.json:13`, `client/src/ws/index.ts:149` "address_balance_update", "subscribeAddressBalanceUpdates" |
| `OneLock` | `Balances` | `postgres-store.ts:2709`: burn height and locks are read by two statements | `postgres-store.ts:2730` "should return zero or one rows" |
| `TxFound` | `Search` | `postgres-store.ts:3316`: a transaction mined between two statements is in neither | `openapi.yaml:1270` "Search blocks, transactions, contracts, or accounts by hash/ID" |
| `CanonicalShown` | `Search` | `postgres-store.ts:3301`: any row of the id is taken | `abstract-transaction.schema.json:41` "Set to `true` if block corresponds to the canonical chain tip" |
| `TxsAssociated` | `AddressQueries` | `postgres-store.ts:3064`: orphaned events are joined | `address.ts:158` "txs associated (sender or receiver) with address" |
| `TotalAvailable`, `SlotTotalAvailable` | `AddressQueries`, `BurnchainQueries` | `postgres-store.ts:3076`, `:1443`: the total is a column of the page's rows | `get-transactions.schema.json:19` "The number of transactions available", `get-reward-slot-holders.schema.json:21` "Total number of available items" |
| `InboundOnce` | `AddressQueries` | `postgres-store.ts:3250`: logs of every fork are joined | `openapi.yaml:970` "Get a list of STX transfers with memos" |
| `NftListedOnce` | `AddressQueries` | `postgres-store.ts:3567`: every receipt of an NFT held is listed | `openapi.yaml:1014` "list of all nfts owned by an address" |
| `BalanceOfItsBlock`, `HistoricalAnswered` | `RosettaLedger` | `rosetta/account.ts:66`, `:62`: balance at the height whatever the block; index with hash always refused | `openapi.yaml:1385` "a historical balance query should be performed" |
| `TransactionComplete` | `RosettaLedger` | `db-controller.ts:416`: operations without events | `rosetta-operation.schema.json:4` "Operations contain all balance-changing information" |
| `BlocksInalterable` | `RosettaLedger` | `db-controller.ts:373`: an orphaned block has no transactions | `rosetta-block.schema.json:5` "must return the same block contents" |
| `ParseMatches` | `RosettaConstruction` | `construction.ts:571`: operations are not compared with each other | `rosetta-construction-parse-response.schema.json:6` "should match the array of operations" |
| `SuggestedFeeBounded` | `RosettaConstruction` | `construction.ts:354`: `max_fee` is unused | `rosetta-construction-preprocess-request.schema.json:29` "an upper bound on the suggested fee" |
| `SignerIsSender` | `RosettaConstruction` | `rosetta-helpers.ts:579`: version of the recipient's address | `tests-rosetta/api.ts:1212` |
| `PreparedIsBuilt` | `RosettaConstruction` | `construction.ts:533`: stacking always refused | `openapi.yaml:1682` "Generate and unsigned transaction from operations" |
| `DocumentedIsServed` | `HttpApi` | `api/init.ts:176`: no route | `openapi.yaml:1913`, `:2086`, `:2118` |
| `QueryKept` | `HttpApi` | `tx.ts:190`: the redirect drops the query | `openapi.yaml:215` "The number of events to skip" |
| `CanonicalIsChain` | `MemoryStore` | `memory-store.ts:115`: forks are noticed by height alone | `block.schema.json:10` "corresponds to the canonical chain tip" |

## Proofs

`PgChainStoreProofs` proves, for every block tree and every set of
transactions, from `BlockTreeAssumption` alone: `TypeOK`, `CanonicalChain`,
`EntitiesFollowBlocks`, `RestoreNeverThrows`, `NoTxLost`, `TipNeverDecreases`,
`ReorgOnlyToLongerChain`, `AnnouncedCanonicalIsTip` and the refinement of
`LongestChain`. `CanonicalChain` is not inductive: within the transaction the
canonical rows are not a chain, for the block just restored hangs on an orphan.
`IInv` describes that state. `WalkInv` says that above `restoring` the canonical
rows are the new branch, that the only broken link is the one to `restoring`,
and that below it the old chain still stands; each level moves the broken link
one height down, and at height 1 or at a canonical parent it closes
(`RestoreStep`). `SubdomainsFollow` needs `late`, and that only a stored block
has subdomains marked as orphaned. `PrunedForAReason` is what makes `NoTxLost` inductive. The
action properties follow from `IInv` and the cases of a commit (`CommitCases`),
the refinement from the same cases.

`EventServerProofs` proves, for every set of blocks, burn blocks and any number
of faults: `TypeOK`, `NoLateRepeat`, `BurnTablesExact`, `NoDoubleRewards` and
`AckedBlockDurable`. The strengthening `IInv` adds `LiveIsNewest` (only the
newest post of a feed can still be answered, so a 200 leaves no older copy
behind), `BurnProgress` (below the burn block being handled the tables are
right, whatever happened above), and `HandlerProgress` (what has been committed
by the step reached). The proof splits `IInv` in three parts, about the queue,
the burn tables and the blocks (`IInvParts`), each with one step per action.

`NotificationsProofs` is about two components. Of `WsRpc` it proves, for any
number of clients, topics, blocks and connections: `TypeOK`,
`SubscriptionsExact`, `SubscribersUpToDate` and the action property
`BalanceNeverGoesBack`. A client waits for an address if it subscribed before
the last change and a block has named the address since (`Waits`). That such a
client ends with the current balance is about
the last of the notifications to come, so the state between is what `IInv`
describes: whoever waits was told, will be told by a notification that is not
yet prepared, or lost it to a failed query (`NobodyForgotten`), and a
notification that holds a deleted Set, or read the balance before it changed,
has a later one behind it (`StaleIsFollowed`). `ReadsAreFresh` bounds what was
read by what is stored, `OneRunning` states the queue's concurrency of 1; both
are needed for the order of what is sent.

Of `WsClient` it proves `HandleTypeOK`, `NothingMissed` and `ServedWhatIsHeld`
for any handles and topics, several handles on one topic included. A request or
an answer on its way belongs to one pending promise (`PendingIsCalled`,
`RequestsArePending`), and what the server serves is held by a handle, or about
to be, or about to be given up (`ServedForSomebody`, `SubscribedIsServed`).

`FaucetsProofs` is about both faucets. Of `StxFaucet` it proves `TypeOK`,
`RequestsLimited`, `PaidOnce` and `AnsweredKept` for any addresses and requests,
with one node or two (`StxFaucetAssumption`: the code has a list of one or two
nodes, counts are positive, the query's row limit is not below the counts, the
stacking window is the longer). `PaidOnce` needs to know why a round that is
repeated paid nothing: a nonce conflict is with an earlier request's transfer
(`NoncesArePaid`, `RoundPaysOnce`), and the nodes that were asked hold the
transfer, passed its nonce, or said so (`NodesAgree`). `CheckedLimit` carries
the rate limit from the check to the record, since the queue runs one request at
a time.

Of `BtcFaucet` it proves `RejectedOnlyAfterBlock`, `SpendsConfirmed`,
`RecordedIsPaid` and `RequestsLimited` for any coins, amounts, fees and chain
at the start. The outputs and the mempool are read in two calls, and what was
read is what bitcoind has only as long as nothing is mined (`ScanIsFresh`);
change counts as unspent only from its block on (`OutputsMined`). `PaidInOrder`
places the payment between send and record, which is what makes a recorded
request a paid one, and `CheckedLimit` is the other faucet's argument again. The
module is instantiated; its `BtcFaucetAssumption` (positive amounts and counts,
the row limit not below the count, coins in blocks of the chain) is the
hypothesis of each theorem, and `MCFaucets` instantiates it with values of which
it holds.

`ProcessProofs` is about two components. Of `Lifecycle` it proves `TypeOK`,
`StoreClosedLast`, `CleanExit` and `HandlersOnce` whenever signals arrive and
servers fail. A handler registers in the turn in which its server opens, so its
position in the list is always the same (`RegisteredInOrder`), and the state of
each server follows from the position of the handler that runs
(`EventServerFollows`, `ApiServerFollows`, `StoreFollows`, `PrometheusFollows`).
The store is safe for two reasons: who waits for an answer holds a connection,
which the event server's handler waits for, and whose connection is gone can
hold a client of the pool, which the store's handler waits for.

Of `ImportV1` it proves `ImportTypeOK`, `BnsAllOrNothing`, `OfferingAllOrNothing`
and the action property `FlagsKept` for every set of exports, any batch size and
any number of faults and restarts. All or nothing is about the committed tables;
that a commit makes them whole is known only from what the transaction holds, so
`ImportIInv` says of each phase what was read so far: the rows inserted followed
by those in the batch are the rows of the section above the read position
(`VestingRead`), the tables of names and namespaces are those of the lines above
it and each name had its namespace above (`ChainstateSoFar`), and the subdomains
are the pairs of the two files, whose hashes agreed (`SubdomainsSoFar`).
`RowsGrow` gives the rows above one more line as those above the line with at
most one appended, from the ranks of their positions. `ImportV1Assumption` says
that the files are finite lists, that the batch size is positive, and of the
vesting file that its sections are not nested: its reader leaves a section at
the END marker of that section only, where `SectionOf` goes by the last marker
of any kind.

`RosettaConstructionProofs` proves `TypeOK`, `MinedIsIntended`,
`ParsedIsIntended` and `RefusedOnlyIfRaced` for any number of sessions, every
list of operations and every fee rate. The API keeps nothing between two calls,
so what ties the transaction that is mined to the operations given to
`/preprocess` is what each session holds: the operations of its intent with at
most the suggested fee in front (`OpsKept`), and a transaction that is the one
they give but for the signature (`TxKept`, `BuiltFrom`). A fee in front changes
no other option (`WithFee`), and an accepted list has at most three operations,
which is what makes the last of them a matter of cases. `NonceStillNext` carries
the nonce from `/metadata` to `/submit`: while no other transaction of the
account is pending or was accepted, it is the next one. `NodeKept` says that
every transaction of the node was submitted by a session, with or without an
answer. `RosettaAssumption`:
operations are finite lists whose amounts are integers or missing, rates and
sizes are natural numbers, and the value that stands for "missing" is none of
the others.

`SearchProofs` proves `TypeOK`, `ContractFound`, `BlockOrAccountFound` and
`TxFoundUnlessMoved` for every set of blocks, transactions, contracts and
accounts (`SearchAssumption`: identifiers of different kinds differ, a contract
is deployed by one transaction). The invariant follows the statements of a
search: what was stored when it began is found, dropped, or in a table not asked yet
(`BlockLeft`, `AccountLeft`, `ContractLeft`, `TxLeft`). It is the order of the
tables, mempool before the chain for contracts, that makes it hold.

`TablesProofs` is about two stores. Of `Bns` it proves `ZonefileMatchesHash`,
`LinearChainExact`, `LinearListsExact`, `FoundNameHasZonefile`, `OneLatest`,
`OneRowPerEvent` and `SubdomainsComplete` for every tree of blocks, every list
of events in a block and every attachment message. `BnsAssumption` is what the
node sends: heights from 1, finite lists of events and of attachments,
attachments that carry a zone file, and subdomains that are no names (they have
one label more). A transaction may have several name events; since
`resolveBnsNames` updates by transaction, `ZonefileMatchesHash` speaks of the
transactions whose events and attachments name one zone file (`OneZonefile`).
`LinearChainExact` says that the column `address` is the sender of the name's
last event, which the code stores, and not that it is the owner. `RowsFollowEvents` makes rows and
events correspond, `LatestInOrder` relates `latest` to the order of heights, and
`ChainShape` says that a fork once stored is never forgotten, so that a chain
without forks has only ever been extended. `NamespacesFollow` says the same of
namespaces, which have no order among them. A request runs two statements with
blocks and attachments stored in between: `RequestIInv` says that, without
forks, a name or subdomain found by the first is still found by the second
(`FoundStays`), since a row loses `latest` only to a newer row of its name. That
a reorg does not find a row of `names` (`ReorgMissesNames`, finding 2) is a
lemma of the proof.

Of `MemoryStore` it proves `OnePerHeight` and `RowsFollowBlocks` for every tree
of blocks with any transactions, from `MemoryAssumption` (heights are natural
numbers). The steps of an update are separated by awaits, so `JobStored` adds
that from its first step on the update under way has a canonical block: no other
update runs before it ends, so its later rows are right to be canonical. A fork
demotes blocks and rows by one rule, their height, and only then does a new
block leave no other at its height (`MemoryUpdateBlock`).

Each proof has one lemma per action of the component and combines them in
`Invariant`; the properties follow from `IInv`.

### Only model-checked

* Liveness under fairness, and whatever needs ENABLED, are out of the prover's
  reach.
* Properties about what a fold, a filter or a sort of a sequence computes, which
  needs induction over data: `PagesMissNothing`, `PlainBlockReconciles`,
  `BalanceIsLedger` and `TransfersExplainBalance` (sums), `EventIndexIsRank`,
  `LeadsToWanted` of `SocketIo`. `OptionsOfLoop`, that the closed form of
  `getOptionsFromOperations` is its loop, is of this kind too.
* `MeaningKept` and `ReachesIntended` are about a table of concrete fields and of
  concrete routes; TLC evaluates them over every input of the bounds.
* `FundsConserved` of `BtcFaucet` (a sum over outputs) and its `TypeOK`; of
  `MemoryStore` `TypeOK`, `AnnouncedIsStored` and `PagesCover`, which count
  positions in the sequence of steps that a fold lays out.
* The invariants of `SocketIo`, `Balances`, `TxQueries`, `AddressQueries`,
  `BurnchainQueries`, `RosettaLedger`, `BlockMessage`, `TxReader`, `HttpApi`.

## Not modelled

* Block decoding (`p2p/block*.ts`, `p2p/messages.ts`): nothing calls it.
* Clarity values, c32 and Bitcoin addresses, zone file parsing: libraries, used
  by what they decide (an address has a form, a zone file its records).
* Formatting of responses, the converters of the generated client, the HTML
  forms of the debug routes, schema migrations, pricing of names, network and
  fee routes, the proxy's cache rules, `connectWithRetry`, raw transactions,
  contract event lists: one statement or none, no state a property is about.
* The schema checks of `rosetta-validate.ts`, `/derive`; the documented maximum
  of 30 for a burnchain page against the code's 250; `tests-rosetta`.

## Plan

The model is complete along the first plan, and the components that keep state
between steps of several actors are proved about. What is left to prove:
action properties, such as that a row of `names` never changes its canonical
flag or that a search that found something keeps its answer;
`AnnouncedIsStored` of `MemoryStore`, with the steps still to do as a function
of the position reached; and the readers of a changing chain (`TxQueries`,
`BurnchainQueries`), as far as their answers are sets and not sorted pages. In
an instantiated module the assumption on the constants is a definition which the
MC module assumes for its own values; a theorem about such a module takes it as
its hypothesis.
