------------------------------ MODULE StxFaucet ------------------------------
(***************************************************************************)
(* The STX faucet (POST /extended/v1/faucets/stx in                        *)
(* src/api/routes/faucets.ts).  Requests go through a promise queue of      *)
(* concurrency 1, so one job runs at a time; between its awaits the nodes   *)
(* mine, relay and synchronise.  A job checks the rate limit, asks every    *)
(* node for the faucet's next nonce, sends one signed transfer to every     *)
(* node, goes on with the next nonce when all of them report a conflict,    *)
(* answers, and only then records the request.                              *)
(*                                                                         *)
(* The nodes are external: a view of the chain and a mempool each.          *)
(***************************************************************************)
EXTENDS Naturals, Sequences, FiniteSets, FiniteSetsExt

CONSTANTS
  Address,
  N,                     \* getStxFaucetNetworks().length, 1 or 2
  Window, TriggerCount,  \* FAUCET_DEFAULT_WINDOW, FAUCET_DEFAULT_TRIGGER_COUNT
  StackingWindow, StackingTriggerCount,
  RowLimit,              \* LIMIT of getSTXFaucetRequests
  MaxTime,               \* bound on the clock
  MaxRequests,           \* bound on the requests
  MaxFaults              \* bound on the failures of nodes, database and process

ASSUME StxFaucetAssumption ==
  /\ N \in {1, 2}
  /\ {Window, StackingWindow, RowLimit, MaxTime, MaxRequests, MaxFaults} \subseteq Nat
  /\ {TriggerCount, StackingTriggerCount} \subseteq Nat \ {0}
  /\ StackingTriggerCount <= TriggerCount /\ TriggerCount <= RowLimit
  /\ Window <= StackingWindow

VARIABLES
  now,       \* Date.now()
  records,   \* the rows of faucet_requests
  job,       \* the request the queue runs
  started,   \* how many requests were started
  account,   \* nonce of the faucet's account in each node's view of the chain
  mempool,   \* transactions each node holds
  chain,     \* requests paid by the faucet's mined transactions, in nonce order
  paid,      \* history: which node accepted which nonce for which request
  answered,  \* history: requests answered with 200
  faults     \* history: failures so far

vars == <<now, records, job, started, account, mempool, chain, paid, answered, faults>>
nodeVars == <<account, mempool, chain>>

Node == 1..N
Id == 1..MaxRequests
Nonce == 0..MaxRequests
Request == [id : Id, address : Address, at : 0..MaxTime, stacking : BOOLEAN]
NoJob == [phase |-> "none"]
Answer == {"success", "conflict", "error"}
Job == [phase : {"amounts", "nonces", "send", "insert"}, req : Request, i : 1..(N + 1),
        nonces : SUBSET Nonce, nonce : Nonce, results : SUBSET Answer, sent : BOOLEAN]

-----------------------------------------------------------------------------
Init ==
  /\ now = 0
  /\ records = {}
  /\ job = NoJob
  /\ started = 0
  /\ account = [n \in Node |-> 0]
  /\ mempool = [n \in Node |-> {}]
  /\ chain = <<>>
  /\ paid = {}
  /\ answered = {}
  /\ faults = 0

(* getSTXFaucetRequests: the latest rows of the address.                    *)
LastRequests(a) ==
  LET rows == {r \in records : r.address = a}
  IN  CHOOSE rs \in SUBSET rows :
        /\ Cardinality(rs) = Min({Cardinality(rows), RowLimit})
        /\ \A r \in rs, q \in rows \ rs : q.at <= r.at

(* Mutant: the request that reaches the limit still goes through.           *)
LimitedTooLate(a, stacking) ==
  Cardinality({r \in LastRequests(a) :
                 now - r.at <= (IF stacking THEN StackingWindow ELSE Window)})
    > (IF stacking THEN StackingTriggerCount ELSE TriggerCount)

(* The guard condition.                                                     *)
Limited(a, stacking) ==
  Cardinality({r \in LastRequests(a) :
                 now - r.at <= (IF stacking THEN StackingWindow ELSE Window)})
    >= (IF stacking THEN StackingTriggerCount ELSE TriggerCount)

(* The queue starts a request; a limited one is answered with 429.          *)
Start(a, stacking) ==
  /\ job = NoJob
  /\ started < MaxRequests
  /\ started' = started + 1
  /\ job' = IF Limited(a, stacking) THEN NoJob
            ELSE [phase |-> "amounts",
                  req |-> [id |-> started + 1, address |-> a, at |-> now,
                           stacking |-> stacking],
                  i |-> 1, nonces |-> {}, nonce |-> 0, results |-> {}, sent |-> FALSE]
  /\ UNCHANGED <<now, records, nodeVars, paid, answered, faults>>

(* The amount is the largest any node asks for stacking, or a constant.     *)
FetchAmounts ==
  /\ job.phase = "amounts"
  /\ job' = [job EXCEPT !.phase = "nonces"]
  /\ UNCHANGED <<now, records, started, nodeVars, paid, answered, faults>>

(* generateTx without a nonce asks node i for the account's nonce.          *)
FetchNonce ==
  /\ job.phase = "nonces" /\ job.i <= N
  /\ job' = [job EXCEPT !.i = job.i + 1, !.nonces = job.nonces \cup {account[job.i]}]
  /\ UNCHANGED <<now, records, started, nodeVars, paid, answered, faults>>

(* Mutant: the nonce after the next one is taken.                           *)
SkipNonce ==
  /\ job.phase = "nonces" /\ job.i > N
  /\ job' = IF job.nonces = {} THEN NoJob
            ELSE [job EXCEPT !.phase = "send", !.i = 1, !.nonce = Max(job.nonces) + 1]
  /\ UNCHANGED <<now, records, started, nodeVars, paid, answered, faults>>

(* nextNonce; if no node answered, the error is thrown.                     *)
ChooseNonce ==
  /\ job.phase = "nonces" /\ job.i > N
  /\ job' = IF job.nonces = {} THEN NoJob
            ELSE [job EXCEPT !.phase = "send", !.i = 1, !.nonce = Max(job.nonces)]
  /\ UNCHANGED <<now, records, started, nodeVars, paid, answered, faults>>

(* What a node says to a transfer of the request with that nonce.           *)
NodeAnswer(n, id, nonce) ==
  CASE [nonce |-> nonce, id |-> id] \in mempool[n] -> "success"
    [] nonce < account[n] -> "error"
    [] OTHER -> IF \E e \in mempool[n] : e.nonce = nonce THEN "conflict" ELSE "success"

(* The node keeps the transfer.                                             *)
Accept(n) ==
  /\ mempool' = [mempool EXCEPT ![n] = @ \cup {[nonce |-> job.nonce, id |-> job.req.id]}]
  /\ paid' = paid \cup {[req |-> job.req, nonce |-> job.nonce, node |-> n]}

(* Mutant: a conflict is taken for an answer of an earlier send.            *)
SendConflictIsSuccess ==
  /\ job.phase = "send" /\ job.i <= N
  /\ LET answer == NodeAnswer(job.i, job.req.id, job.nonce)
     IN  /\ job' = [job EXCEPT !.i = job.i + 1, !.results = job.results \cup {"success"},
                               !.sent = job.sent \/ answer # "error"]
         /\ IF answer = "success" THEN Accept(job.i) ELSE UNCHANGED <<mempool, paid>>
  /\ UNCHANGED <<now, records, started, account, chain, answered, faults>>

(* sendTransaction to node i, and its result.                               *)
Send ==
  /\ job.phase = "send" /\ job.i <= N
  /\ LET answer == NodeAnswer(job.i, job.req.id, job.nonce)
     IN  /\ job' = [job EXCEPT !.i = job.i + 1, !.results = job.results \cup {answer},
                               !.sent = job.sent \/ answer = "success"]
         /\ IF answer = "success" THEN Accept(job.i) ELSE UNCHANGED <<mempool, paid>>
  /\ UNCHANGED <<now, records, started, account, chain, answered, faults>>

(* Answer 200, or throw when no send succeeded.                             *)
Finish ==
  /\ job' = IF job.sent THEN [job EXCEPT !.phase = "insert"] ELSE NoJob
  /\ answered' = IF job.sent THEN answered \cup {job.req.id} ELSE answered

(* Mutant: a round without success is repeated with the next nonce.         *)
DecideRetryError ==
  /\ job.phase = "send" /\ job.i > N
  /\ IF ~job.sent /\ job.nonce < MaxRequests
     THEN /\ job' = [job EXCEPT !.i = 1, !.results = {}, !.nonce = job.nonce + 1]
          /\ UNCHANGED answered
     ELSE Finish
  /\ UNCHANGED <<now, records, started, nodeVars, paid, faults>>

(* All nodes asked: retry with the next nonce if every one has a conflict.  *)
Decide ==
  /\ job.phase = "send" /\ job.i > N
  /\ IF job.results = {"conflict"}
     THEN /\ job' = [job EXCEPT !.i = 1, !.results = {}, !.nonce = job.nonce + 1]
          /\ UNCHANGED answered
     ELSE Finish
  /\ UNCHANGED <<now, records, started, nodeVars, paid, faults>>

(* insertFaucetRequest.                                                     *)
InsertFaucetRequest ==
  /\ job.phase = "insert"
  /\ records' = records \cup {job.req}
  /\ job' = NoJob
  /\ UNCHANGED <<now, started, nodeVars, paid, answered, faults>>

-----------------------------------------------------------------------------
(* Failures.                                                                *)
Fault ==
  /\ faults < MaxFaults
  /\ faults' = faults + 1

(* No node tells the stacking minimum: intMax throws.                       *)
FailAmounts ==
  /\ Fault
  /\ job.phase = "amounts" /\ job.req.stacking
  /\ job' = NoJob
  /\ UNCHANGED <<now, records, started, nodeVars, paid, answered>>

FailNonce ==
  /\ Fault
  /\ job.phase = "nonces" /\ job.i <= N
  /\ job' = [job EXCEPT !.i = @ + 1]
  /\ UNCHANGED <<now, records, started, nodeVars, paid, answered>>

(* The node is not reached, or its answer is lost after it took the transfer. *)
FailSend ==
  /\ Fault
  /\ job.phase = "send" /\ job.i <= N
  /\ job' = [job EXCEPT !.i = job.i + 1, !.results = job.results \cup {"error"}]
  /\ \/ UNCHANGED <<mempool, paid>>
     \/ NodeAnswer(job.i, job.req.id, job.nonce) = "success" /\ Accept(job.i)
  /\ UNCHANGED <<now, records, started, account, chain, answered>>

FailInsert ==
  /\ Fault
  /\ job.phase = "insert"
  /\ job' = NoJob
  /\ UNCHANGED <<now, records, started, nodeVars, paid, answered>>

Crash ==
  /\ Fault
  /\ job # NoJob
  /\ job' = NoJob
  /\ UNCHANGED <<now, records, started, nodeVars, paid, answered>>

-----------------------------------------------------------------------------
(* The nodes.                                                               *)
Tick ==
  /\ now < MaxTime
  /\ now' = now + 1
  /\ UNCHANGED <<records, job, started, nodeVars, paid, answered, faults>>

Advance(n) ==
  /\ account' = [account EXCEPT ![n] = @ + 1]
  /\ mempool' = [mempool EXCEPT ![n] = {e \in @ : e.nonce > account[n]}]
  /\ UNCHANGED <<now, records, job, started, paid, answered, faults>>

Mine(n) ==
  /\ account[n] = Len(chain)
  /\ \E e \in mempool[n] : e.nonce = account[n] /\ chain' = Append(chain, e.id)
  /\ Advance(n)

Sync(n) ==
  /\ account[n] < Len(chain)
  /\ Advance(n)
  /\ UNCHANGED chain

Relay(m, n) ==
  /\ \E e \in mempool[m] \ mempool[n] :
       /\ NodeAnswer(n, e.id, e.nonce) = "success"
       /\ mempool' = [mempool EXCEPT ![n] = @ \cup {e}]
  /\ UNCHANGED <<now, records, job, started, account, chain, paid, answered, faults>>

JobStep ==
  \/ FetchAmounts
  \/ FetchNonce
  \/ ChooseNonce
  \/ Send
  \/ Decide
  \/ InsertFaucetRequest

Failures == FailAmounts \/ FailNonce \/ FailSend \/ FailInsert \/ Crash

Next ==
  \/ \E a \in Address, stacking \in BOOLEAN : Start(a, stacking)
  \/ JobStep
  \/ Failures
  \/ Tick
  \/ \E n \in Node : Mine(n) \/ Sync(n)
  \/ \E m, n \in Node : Relay(m, n)

Spec == Init /\ [][Next]_vars

(* The event loop goes on with the job; the nodes mine what they hold and    *)
(* follow the chain.                                                         *)
FairSpec ==
  /\ Spec
  /\ WF_vars(JobStep)
  /\ \A n \in Node : WF_vars(Mine(n) \/ Sync(n))

-----------------------------------------------------------------------------
(* TypeOK: the shape of the job, the table and the nodes; the loops over    *)
(* the nodes stay within the list.                                          *)
TypeOK ==
  /\ now \in 0..MaxTime
  /\ records \subseteq Request
  /\ job \in Job \cup {NoJob}
  /\ started \in 0..MaxRequests
  /\ account \in [Node -> Nonce]
  /\ mempool \in [Node -> SUBSET [nonce : Nonce, id : Id]]
  /\ chain \in Seq(Id)
  /\ paid \subseteq [req : Request, nonce : Nonce, node : Node]
  /\ answered \subseteq Id
  /\ faults \in 0..MaxFaults

(* Requests of r's address in the period that ends with r.                  *)
Within(requests, r, period) ==
  {q \in requests : q.address = r.address /\ q.at <= r.at /\ r.at - q.at <= period}

(* "requests are limited to x times per y minutes": of the recorded requests *)
(* of an address no more than TriggerCount fall into any window, whatever    *)
(* mix of stacking and other requests it made, and a stacking request comes  *)
(* after fewer than StackingTriggerCount others of its longer window.        *)
RequestsLimited ==
  \A r \in records :
    /\ Cardinality(Within(records, r, Window)) <= TriggerCount
    /\ r.stacking =>
         Cardinality({q \in Within(records, r, StackingWindow) : q.id < r.id})
           < StackingTriggerCount

(* The same limit on the requests that were paid, recorded or not.          *)
PaymentsLimited ==
  LET requests == {p.req : p \in paid}
  IN  \A r \in requests : Cardinality(Within(requests, r, Window)) <= TriggerCount

(* The retry loop never pays a request twice: no node accepts transfers of   *)
(* one request with two different nonces, although a node may have taken a   *)
(* transfer whose answer was lost.                                           *)
PaidOnce ==
  \A p, q \in paid : p.req.id = q.req.id => p.nonce = q.nonce

Reliable == N = 1 \/ faults = 0

(* With one node, or as long as nothing failed, a request answered with 200  *)
(* keeps its transfer: it is mined or in a mempool, and no later request     *)
(* takes its nonce.                                                          *)
AnsweredKept ==
  Reliable => \A id \in answered :
    \/ \E k \in DOMAIN chain : chain[k] = id
    \/ \E n \in Node : \E e \in mempool[n] : e.id = id

(* Every job ends: the retry loop reaches a free nonce.                      *)
EveryJobEnds == []<>(job = NoJob)

(* With one node an answered transfer is eventually mined: the nonces the    *)
(* faucet takes leave no gap, whatever fails.                                *)
AnsweredIsMined ==
  \A id \in Id :
    (N = 1 /\ id \in answered) ~> (\E k \in DOMAIN chain : chain[k] = id)

-----------------------------------------------------------------------------
(* The inductive invariant behind the safety properties.                    *)

(* Nonces are the faucet's: what a node holds or mined was accepted for a   *)
(* request, and a request's nonce is lower than its number.                 *)
NoncesArePaid ==
  /\ \A p \in paid : p.nonce < p.req.id /\ p.req.id <= started
  /\ \A n \in Node : \A e \in mempool[n] : \E p \in paid : p.req.id = e.id /\ p.nonce = e.nonce
  /\ \A k \in DOMAIN chain : \E p \in paid : p.req.id = chain[k] /\ p.nonce + 1 = k
  /\ \A n \in Node : account[n] <= Len(chain)

(* A request is paid in its last round only, so a round in which every node *)
(* had a conflict paid nothing; what it conflicts with is an earlier one's. *)
RoundPaysOnce ==
  job # NoJob =>
    /\ job.req.id = started
    /\ job.req.id \in answered => job.phase = "insert"
    /\ \A k \in job.nonces : k < started
    /\ job.phase \in {"amounts", "nonces"} => job.results = {} /\ ~job.sent
    /\ \A p \in paid : p.req.id = job.req.id =>
         /\ job.phase \in {"send", "insert"}
         /\ job.phase = "send" =>
              p.nonce = job.nonce /\ p.node < job.i /\ job.results \cap {"success", "error"} # {}
    /\ job.phase = "send" => job.nonce < started
    /\ job.phase = "send" /\ "conflict" \in job.results =>
         \E p \in paid : p.nonce = job.nonce /\ p.req.id < started
    /\ job.phase = "send" /\ job.sent => \E p \in paid : p.req.id = job.req.id

(* Whoever was answered was paid.                                           *)
AnsweredIsPaid ==
  \A id \in answered : id <= started /\ \E p \in paid : p.req.id = id

(* The nodes agree on who has a nonce, except those that the job has still  *)
(* to ask; those it asked have its transfer, have passed the nonce, or      *)
(* reported the conflict.                                                   *)
NodesAgree ==
  Reliable =>
    /\ \A p, q \in paid : p.nonce = q.nonce => p.req.id = q.req.id
    /\ \A p \in paid, n \in Node :
         \/ p.nonce < account[n]
         \/ [nonce |-> p.nonce, id |-> p.req.id] \in mempool[n]
         \/ job # NoJob /\ job.phase = "send" /\ p.req.id = job.req.id /\ job.i <= n
    /\ faults = 0 /\ job # NoJob /\ job.phase = "send" => \A n \in Node : n < job.i =>
         \/ job.nonce < account[n]
         \/ [nonce |-> job.nonce, id |-> job.req.id] \in mempool[n]
         \/ "conflict" \in job.results

(* The limits that apply to a request.                                      *)
LimitWindow(r) == IF r.stacking THEN StackingWindow ELSE Window
LimitCount(r) == IF r.stacking THEN StackingTriggerCount ELSE TriggerCount

(* The check of the rate limit still holds when the request is recorded:    *)
(* one job runs at a time.                                                  *)
CheckedLimit ==
  /\ IsFiniteSet(records)
  /\ \A r \in records : r.id <= started /\ r.at <= now
  /\ job # NoJob =>
       /\ job.req.at <= now
       /\ \A r \in records : r.id < job.req.id /\ r.at <= job.req.at
       /\ Cardinality(Within(records, job.req, LimitWindow(job.req))) < LimitCount(job.req)

IInv ==
  /\ TypeOK /\ NoncesArePaid /\ RoundPaysOnce /\ PaidOnce /\ AnsweredIsPaid /\ NodesAgree
  /\ CheckedLimit /\ RequestsLimited
=============================================================================
