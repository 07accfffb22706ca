------------------------------ MODULE BtcFaucet ------------------------------
(***************************************************************************)
(* The BTC faucet (POST /extended/v1/faucets/btc in faucets.ts, and         *)
(* btc-faucet.ts).  One request runs at a time: rate limit, scan of the     *)
(* outputs, mempool ids, mempool transactions, coin selection, send,        *)
(* record, answer; bitcoind mines between any two calls.                    *)
(*                                                                         *)
(* bitcoind is external: its unspent outputs of the faucet's address, its   *)
(* mempool, which admits no conflicting transaction, and its height.  It    *)
(* keeps an index of transactions, without which the inputs' raw            *)
(* transactions could not be read.                                          *)
(***************************************************************************)
EXTENDS Integers, FiniteSets, FiniteSetsExt

CONSTANTS
  Address,
  Window, TriggerCount, RowLimit,   \* 5 minutes, 5 requests, LIMIT 5
  Amount, Fee,                      \* of a payment
  MinConfirmations,                 \* MIN_TX_CONFIRMATIONS
  StartHeight, Coins,               \* bitcoind's chain and the faucet's outputs at the start
  MaxTime, MaxRequests, MaxBlocks, MaxFaults

(* What the bounds and constants must be. *)
BtcFaucetAssumption ==
  /\ {Window, MinConfirmations, StartHeight, MaxTime, MaxRequests, MaxBlocks, MaxFaults} \subseteq Nat
  /\ {TriggerCount, RowLimit, Amount, Fee} \subseteq Nat \ {0}
  /\ TriggerCount <= RowLimit
  /\ \A c \in Coins : c.tx = 0 /\ c.value \in Nat /\ c.height \in 1..StartHeight

VARIABLES
  now, records, started,
  job,       \* the request the queue runs
  height, unspents, mempool,
  mined,     \* history: blocks mined since the job's scan
  accepted,  \* history: payments bitcoind took
  rejected,  \* history: mined at the time of each rejected send
  faults

requestVars == <<now, records, started>>
nodeVars == <<height, unspents, mempool>>
vars == <<requestVars, job, nodeVars, mined, accepted, rejected, faults>>

NoJob == [phase |-> "none"]
Value(outputs) == MapThenSumSet(LAMBDA o : o.value, outputs)

-----------------------------------------------------------------------------
Init ==
  /\ now = 0 /\ records = {} /\ started = 0
  /\ job = NoJob
  /\ height = StartHeight /\ unspents = Coins /\ mempool = {}
  /\ mined = 0
  /\ accepted = {} /\ rejected = {}
  /\ faults = 0

(* getBTCFaucetRequests.                                                    *)
LastRequests(a) ==
  LET rows == {r \in records : r.address = a}
  IN  CHOOSE rs \in SUBSET rows :
        /\ Cardinality(rs) = Min({Cardinality(rows), RowLimit})
        /\ \A r \in rs, q \in rows \ rs : q.at <= r.at

(* "requests are limited to 5 times per 5 minutes"                          *)
Limited(a) ==
  Cardinality({r \in LastRequests(a) : now - r.at <= Window}) >= TriggerCount

Start(a) ==
  /\ job = NoJob /\ started < MaxRequests
  /\ started' = started + 1
  /\ job' = IF Limited(a) THEN NoJob
            ELSE [phase |-> "scan", req |-> [id |-> started + 1, address |-> a, at |-> now],
                  scan |-> {}, scanHeight |-> 0, spent |-> {}, inputs |-> {}]
  /\ UNCHANGED <<now, records, nodeVars, mined, accepted, rejected, faults>>

(* getTxOutSet: a scan that another one holds up is started again.          *)
ScanTxOutSet ==
  /\ job.phase = "scan"
  /\ job' = [job EXCEPT !.phase = "mempool", !.scan = unspents, !.scanHeight = height]
  /\ mined' = 0
  /\ UNCHANGED <<requestVars, nodeVars, accepted, rejected, faults>>

(* getrawmempool and getRawTransactions: the outputs mempool transactions   *)
(* spend.                                                                   *)
ReadMempool ==
  /\ job.phase = "mempool"
  /\ job' = [job EXCEPT !.phase = "select", !.spent = UNION {tx.inputs : tx \in mempool}]
  /\ UNCHANGED <<requestVars, nodeVars, mined, accepted, rejected, faults>>

(* spendableUtxos.                                                          *)
Spendable(j) ==
  {o \in j.scan : o \notin j.spent /\ j.scanHeight - o.height > MinConfirmations}

(* coinselect: any outputs that cover the amount and the fee, none if there *)
(* are not enough.                                                          *)
CoinSelect(outputs) == {s \in SUBSET outputs : Value(s) >= Amount + Fee}

SelectInputs ==
  /\ job.phase = "select"
  /\ Value(Spendable(job)) >= Amount
  /\ \E s \in CoinSelect(Spendable(job)) :
       job' = [job EXCEPT !.phase = "send", !.inputs = s]
  /\ UNCHANGED <<requestVars, nodeVars, mined, accepted, rejected, faults>>

(* "not enough total amount in utxo set", or enough for the amount but not  *)
(* for the fee: coinselect returns no inputs, and reading them throws.      *)
NotEnough ==
  /\ job.phase = "select"
  /\ Value(Spendable(job)) < Amount \/ CoinSelect(Spendable(job)) = {}
  /\ job' = NoJob
  /\ UNCHANGED <<requestVars, nodeVars, mined, accepted, rejected, faults>>

(* Mutant: the change output is left without an address.                    *)
NoChange(j) == {}

(* What comes back to the faucet's address.                                 *)
Change(j) ==
  {[tx |-> j.req.id, value |-> v, height |-> 0]
     : v \in {Value(j.inputs) - Amount - Fee} \ {0}}

(* The mempool admits a transaction whose inputs are unspent and unclaimed. *)
Admitted(inputs) ==
  inputs \subseteq unspents /\ \A tx \in mempool : tx.inputs \cap inputs = {}

Accept ==
  /\ mempool' = mempool \cup {[id |-> job.req.id, inputs |-> job.inputs,
                               change |-> Change(job)]}
  /\ accepted' = accepted \cup {[req |-> job.req, inputs |-> job.inputs, sentAt |-> height]}

(* sendrawtransaction.                                                      *)
Send ==
  /\ job.phase = "send" /\ Admitted(job.inputs)
  /\ Accept
  /\ job' = [job EXCEPT !.phase = "insert"]
  /\ UNCHANGED <<requestVars, height, unspents, mined, rejected, faults>>

(* bitcoind refuses it: the error goes to the caller.                       *)
SendRejected ==
  /\ job.phase = "send" /\ ~Admitted(job.inputs)
  /\ job' = NoJob
  /\ rejected' = rejected \cup {mined}
  /\ UNCHANGED <<requestVars, nodeVars, mined, accepted, faults>>

(* insertFaucetRequest, then the answer.                                    *)
InsertFaucetRequest ==
  /\ job.phase = "insert"
  /\ records' = records \cup {job.req}
  /\ job' = NoJob
  /\ UNCHANGED <<now, started, nodeVars, mined, accepted, rejected, faults>>

-----------------------------------------------------------------------------
Tick ==
  /\ now < MaxTime
  /\ now' = now + 1
  /\ UNCHANGED <<records, started, job, nodeVars, mined, accepted, rejected, faults>>

(* A block with some of the mempool's transactions.                         *)
Mine(txs) ==
  /\ height < StartHeight + MaxBlocks
  /\ height' = height + 1
  /\ unspents' = (unspents \ UNION {tx.inputs : tx \in txs})
                   \cup {[o EXCEPT !.height = height + 1] : o \in UNION {tx.change : tx \in txs}}
  /\ mempool' = mempool \ txs
  /\ mined' = mined + 1
  /\ UNCHANGED <<requestVars, job, accepted, rejected, faults>>

(* A call or the insert fails, its answer is lost after bitcoind took the   *)
(* payment, or the process stops.                                           *)
Fail ==
  /\ faults < MaxFaults
  /\ faults' = faults + 1
  /\ job # NoJob
  /\ job' = NoJob
  /\ \/ UNCHANGED <<mempool, accepted>>
     \/ job.phase = "send" /\ Admitted(job.inputs) /\ Accept
  /\ UNCHANGED <<requestVars, height, unspents, mined, rejected>>

JobStep ==
  \/ ScanTxOutSet
  \/ ReadMempool
  \/ SelectInputs
  \/ NotEnough
  \/ Send
  \/ SendRejected
  \/ InsertFaucetRequest

Next ==
  \/ \E a \in Address : Start(a)
  \/ JobStep
  \/ Tick
  \/ \E txs \in SUBSET mempool : Mine(txs)
  \/ Fail

Spec == Init /\ [][Next]_vars
FairSpec == Spec /\ WF_vars(JobStep)

-----------------------------------------------------------------------------
(* TypeOK: outputs keep their shape and are spent by one transaction only.  *)
TypeOK ==
  /\ now \in 0..MaxTime /\ started \in 0..MaxRequests
  /\ \A o \in unspents : o.value \in Nat /\ o.height \in 0..height
  /\ \A tx \in mempool : tx.inputs \subseteq unspents /\ tx.inputs # {}
  /\ \A p, q \in mempool : p # q => p.inputs \cap q.inputs = {}
  /\ \A r \in records : r.id \in 1..started

(* No more than TriggerCount recorded requests of an address fall into any  *)
(* closed window, although the store returns only the last RowLimit rows.   *)
RequestsLimited ==
  \A r \in records :
    Cardinality({q \in records :
      q.address = r.address /\ q.at <= r.at /\ r.at - q.at <= Window}) <= TriggerCount

(* A recorded request was paid, and no request is paid twice.               *)
RecordedIsPaid ==
  /\ \A r \in records : \E p \in accepted : p.req = r
  /\ \A p, q \in accepted : p.req.id = q.req.id => p = q

(* The scan and the mempool are read one after the other.  Only a block     *)
(* mined since the scan can make bitcoind refuse the payment; otherwise the *)
(* outputs chosen are free.                                                 *)
RejectedOnlyAfterBlock == 0 \notin rejected

(* A payment never spends an output with fewer than MinConfirmations + 1    *)
(* confirmations on top of it, so that change in the mempool or in the      *)
(* latest block is left alone.                                              *)
SpendsConfirmed ==
  \A p \in accepted : \A o \in p.inputs : o.height > 0 /\ p.sentAt - o.height > MinConfirmations

(* The faucet pays amount and fee and keeps the rest: what is unspent, with *)
(* the mempool's transactions applied, is the start less the payments.      *)
FundsConserved ==
  LET after == (unspents \ UNION {tx.inputs : tx \in mempool})
                 \cup UNION {tx.change : tx \in mempool}
  IN  Value(after) + Cardinality(accepted) * (Amount + Fee) = Value(Coins)

(* Every request ends: the queue is free again.                             *)
EveryRequestEnds == []<>(job = NoJob)

-----------------------------------------------------------------------------
(* The inductive invariant behind the safety properties.  The queue runs    *)
(* the request that was started last, and the request keeps its columns.    *)
IsJob(j) ==
  /\ j.phase \in {"scan", "mempool", "select", "send", "insert"}
  /\ j = [phase |-> j.phase, req |-> j.req, scan |-> j.scan, scanHeight |-> j.scanHeight,
          spent |-> j.spent, inputs |-> j.inputs]
  /\ j.req.id = started /\ j.req.at \in Nat /\ j.req.at <= now

JobShape ==
  /\ job = NoJob \/ IsJob(job)
  /\ now \in 0..MaxTime /\ started \in Nat /\ height \in Nat /\ mined \in Nat

(* An output is unspent once it is in a block; change has no height before. *)
OutputsMined ==
  /\ \A o \in unspents : o.height \in 1..height
  /\ \A tx \in mempool : \A o \in tx.change : o = [tx |-> o.tx, value |-> o.value, height |-> 0]

(* What the job has read is what bitcoind has, as long as nothing is mined. *)
ScanIsFresh ==
  /\ job.phase \in {"mempool", "select", "send"} =>
       /\ job.scanHeight \in Nat /\ job.scanHeight <= height
       /\ \A o \in job.scan : o.height \in Nat \ {0}
       /\ mined = 0 => job.scan = unspents
  /\ job.phase \in {"select", "send"} /\ mined = 0 => job.spent = UNION {tx.inputs : tx \in mempool}
  /\ job.phase = "send" => job.inputs \subseteq Spendable(job)

(* The request is paid between its send and its record, and not before.     *)
PaidInOrder ==
  /\ \A p \in accepted : p.req.id \in Nat /\ p.req.id <= started
  /\ job # NoJob /\ job.phase # "insert" => \A p \in accepted : p.req.id # job.req.id
  /\ job.phase = "insert" => \E p \in accepted : p.req = job.req

(* The check of the rate limit still holds when the request is recorded.    *)
Within(r) == {q \in records : q.address = r.address /\ q.at <= r.at /\ r.at - q.at <= Window}

CheckedLimit ==
  /\ IsFiniteSet(records)
  /\ \A r \in records : r.at \in 0..now
  /\ job # NoJob => /\ \A r \in records : r.at <= job.req.at
                    /\ Cardinality(Within(job.req)) < TriggerCount

IInv ==
  /\ JobShape /\ OutputsMined /\ ScanIsFresh /\ PaidInOrder /\ CheckedLimit
  /\ RecordedIsPaid /\ RejectedOnlyAfterBlock /\ SpendsConfirmed /\ RequestsLimited
=============================================================================
