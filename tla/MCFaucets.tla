----------------------------- MODULE MCFaucets -----------------------------
(***************************************************************************)
(* The two faucets.  They have separate queues and share only a table whose *)
(* rows are kept apart by currency, so each behaviour (part) exercises one  *)
(* while the other is idle: the STX faucet with one node, the STX faucet    *)
(* with two nodes, or the BTC faucet with two coins, one that pays twice    *)
(* with its change and one that pays once exactly.                          *)
(***************************************************************************)
EXTENDS StxFaucet

VARIABLES part,
  now2, records2, job2, started2, account2, mempool2, chain2, paid2, answered2, faults2,
  btcNow, btcRecords, btcStarted, btcJob, height, unspents, btcMempool, mined, accepted, rejected,
  btcFaults

twoVars == <<now2, records2, job2, started2, account2, mempool2, chain2, paid2, answered2, faults2>>
btcVars ==
  <<btcNow, btcRecords, btcStarted, btcJob, height, unspents, btcMempool, mined, accepted, rejected,
    btcFaults>>

Two ==
  INSTANCE StxFaucet WITH N <- 2, MaxTime <- 1,
    now <- now2, records <- records2, job <- job2, started <- started2, account <- account2,
    mempool <- mempool2, chain <- chain2, paid <- paid2, answered <- answered2, faults <- faults2
Btc ==
  INSTANCE BtcFaucet WITH
    now <- btcNow, records <- btcRecords, started <- btcStarted, job <- btcJob,
    mempool <- btcMempool, faults <- btcFaults, Amount <- 1, Fee <- 1, MinConfirmations <- 1,
    StartHeight <- 3, Coins <- {[tx |-> 0, value |-> 5, height |-> 1], [tx |-> 0, value |-> 2, height |-> 1]},
    MaxBlocks <- 3

ASSUME Btc!BtcFaucetAssumption

-----------------------------------------------------------------------------
FaucetsInit == part \in {"stx", "stx2", "btc"} /\ Init /\ Two!Init /\ Btc!Init

FaucetsNext ==
  \/ part = "stx" /\ Next /\ UNCHANGED <<part, twoVars, btcVars>>
  \/ part = "stx2" /\ Two!Next /\ UNCHANGED <<part, vars, btcVars>>
  \/ part = "btc" /\ Btc!Next /\ UNCHANGED <<part, vars, twoVars>>

FaucetsSpec ==
  /\ FaucetsInit /\ [][FaucetsNext]_<<part, vars, twoVars, btcVars>>
  /\ WF_vars(JobStep) /\ WF_vars(Mine(1) \/ Sync(1))
  /\ WF_twoVars(Two!JobStep)
  /\ WF_btcVars(Btc!JobStep)

-----------------------------------------------------------------------------
(* What else holds: the inductive invariant, also with two nodes, where     *)
(* still no request is paid twice and an answered one keeps its transfer as *)
(* long as nothing failed; the inductive invariant of the BTC faucet, which *)
(* keeps its limits, records what was paid and spends confirmed outputs     *)
(* only, and whose payment bitcoind refuses only when a block came between  *)
(* the scan and the send; and that it keeps the change.                     *)
FaucetsInv ==
  /\ IInv /\ Two!IInv /\ Two!AnsweredKept
  /\ Btc!IInv /\ Btc!TypeOK /\ Btc!FundsConserved

(* An answered STX transfer is mined, and every request of either faucet    *)
(* leaves its queue, also when two nodes disagree on the nonce.             *)
FaucetsLive == EveryJobEnds /\ AnsweredIsMined /\ Two!EveryJobEnds /\ Btc!EveryRequestEnds
=============================================================================
