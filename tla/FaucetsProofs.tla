---------------------------- MODULE FaucetsProofs ---------------------------
(***************************************************************************)
(* Proofs about the two faucets, for every set of addresses, every limit    *)
(* and every bound.  StxFaucet, with one node and with two: IInv is         *)
(* inductive, so the rate limit holds of what is recorded, the retry loop   *)
(* pays no request twice, and an answered request keeps its transfer.       *)
(* BtcFaucet: a transfer spends outputs that are mined and that no accepted *)
(* transfer spends, unless a block came after they were looked up.          *)
(***************************************************************************)
EXTENDS StxFaucet, FiniteSetTheorems, WellFoundedInduction, TLAPS

-----------------------------------------------------------------------------
(* Sets of numbers and of rows.                                             *)

(* The constants, one by one.                                               *)
LEMMA Constants ==
  /\ N \in Nat /\ (N = 1 \/ N = 2)
  /\ Window \in Nat /\ StackingWindow \in Nat /\ Window <= StackingWindow
  /\ MaxTime \in Nat /\ MaxRequests \in Nat /\ MaxFaults \in Nat
  /\ TriggerCount \in Nat /\ StackingTriggerCount \in Nat
  /\ RowLimit \in Nat /\ TriggerCount <= RowLimit
  /\ TriggerCount > 0 /\ StackingTriggerCount > 0 /\ StackingTriggerCount <= TriggerCount
BY StxFaucetAssumption

LEMMA Smallest ==
  ASSUME NEW T \in SUBSET Nat, T # {}
  PROVE  \E x \in T : \A y \in T : x <= y
<1>1. PICK x \in T : \A y \in T : <<y, x>> \notin OpToRel(<, Nat)
  BY NatLessThanWellFounded, WFMin
<1>2. \A y \in T : ~(y < x)
  BY <1>1 DEF OpToRel
<1> QED BY <1>2

LEMMA Largest ==
  ASSUME NEW T \in SUBSET Nat, NEW b \in Nat, T # {}, \A x \in T : x <= b
  PROVE  \E x \in T : \A y \in T : y <= x
<1> DEFINE D == {d \in Nat : \E x \in T : d = b - x}
<1>1. D \in SUBSET Nat /\ D # {}
  <2>1. PICK x : x \in T
    OBVIOUS
  <2>2. b - x \in D
    BY <2>1
  <2> QED BY <2>2
<1>2. PICK d \in D : \A e \in D : d <= e
  BY <1>1, Smallest
<1>3. PICK x \in T : d = b - x
  BY <1>2
<1>4. ASSUME NEW y \in T PROVE y <= x
  <2>1. b - y \in D
    OBVIOUS
  <2> QED BY <1>2, <1>3, <2>1
<1> QED BY <1>4

(* Max is what the code's intMax computes, on a set of nonces.              *)
LEMMA MaxNonce ==
  ASSUME NEW T \in SUBSET Nonce, T # {}
  PROVE  Max(T) \in T
<1>1. \E x \in T : \A y \in T : y <= x
  <2>1. T \in SUBSET Nat /\ \A x \in T : x <= MaxRequests
    BY Constants DEF Nonce
  <2> QED BY <2>1, Largest, Constants
<1>2. \E x \in T : \A y \in T : x >= y
  BY <1>1, Constants DEF Nonce
<1> QED BY <1>2 DEF Max

(* Of finitely many rows there are latest ones, of any number.              *)
LEMMA Latest ==
  ASSUME NEW rows, IsFiniteSet(rows), \A r \in rows : r.at \in Nat /\ r.at <= MaxTime,
         NEW k \in 0..Cardinality(rows)
  PROVE  \E rs \in SUBSET rows : Cardinality(rs) = k /\ \A r \in rs, q \in rows \ rs : q.at <= r.at
<1> DEFINE Good(j) ==
      \E rs \in SUBSET rows : Cardinality(rs) = j /\ \A r \in rs, q \in rows \ rs : q.at <= r.at
<1> DEFINE Bad == {j \in 0..Cardinality(rows) : ~Good(j)}
<1>0. Cardinality(rows) \in Nat
  BY FS_CardinalityType
<1> SUFFICES ASSUME Bad # {} PROVE FALSE
  BY DEF Bad
<1>1. PICK j \in Bad : \A i \in Bad : j <= i
  <2>1. Bad \in SUBSET Nat
    BY <1>0
  <2> HIDE DEF Bad
  <2> QED BY <2>1, Smallest
<1>2. Good(0)
  BY FS_EmptySet
<1>3. j \in 1..Cardinality(rows) /\ ~Good(j) /\ j - 1 \in 0..Cardinality(rows) /\ j - 1 \notin Bad
  <2> HIDE DEF Good
  <2> QED BY <1>0, <1>1, <1>2
<1>4. PICK rs \in SUBSET rows :
        Cardinality(rs) = j - 1 /\ \A r \in rs, q \in rows \ rs : q.at <= r.at
  BY <1>3
<1>5. rows \ rs # {}
  BY <1>0, <1>3, <1>4
<1>6. PICK m \in rows \ rs : \A q \in rows \ rs : q.at <= m.at
  <2> DEFINE times == {t \in Nat : \E q \in rows \ rs : t = q.at}
  <2>1. times \in SUBSET Nat /\ times # {} /\ \A t \in times : t <= MaxTime
    BY <1>5
  <2> HIDE DEF times
  <2>2. PICK t \in times : \A u \in times : u <= t
    BY <2>1, Constants, Largest
  <2> QED BY <2>2 DEF times
<1>7. Cardinality(rs \cup {m}) = j
  <2>1. IsFiniteSet(rs)
    BY FS_Subset
  <2>2. Cardinality(rs \cup {m}) = Cardinality(rs) + 1
    BY <2>1, <1>6, FS_AddElement
  <2> QED BY <2>2, <1>0, <1>3, <1>4
<1>8. \A r \in rs \cup {m}, q \in rows \ (rs \cup {m}) : q.at <= r.at
  BY <1>4, <1>6
<1>9. rs \cup {m} \in SUBSET rows
  BY <1>6
<1>10. Good(j)
  BY <1>7, <1>8, <1>9
<1> QED BY <1>3, <1>10

(* The rows read tell the limit as the whole table would, because the LIMIT *)
(* is no less than the count.                                               *)
LatestRows(rows) ==
  CHOOSE rs \in SUBSET rows :
    /\ Cardinality(rs) = Min({Cardinality(rows), RowLimit})
    /\ \A r \in rs, q \in rows \ rs : q.at <= r.at

LEMMA LatestSuffice ==
  ASSUME NEW rows, IsFiniteSet(rows), \A r \in rows : r.at \in Nat /\ r.at <= MaxTime,
         NEW t \in Nat, NEW W \in Nat, NEW C \in Nat, C <= RowLimit,
         ~(Cardinality({r \in LatestRows(rows) : t - r.at <= W}) >= C)
  PROVE  Cardinality({r \in rows : t - r.at <= W}) < C
<1> DEFINE rs == LatestRows(rows)
           k == Min({Cardinality(rows), RowLimit})
           All == {r \in rows : t - r.at <= W}
           Read == {r \in rs : t - r.at <= W}
<1>1. RowLimit \in Nat /\ Cardinality(rows) \in Nat
  BY Constants, FS_CardinalityType
<1>2. k \in 0..Cardinality(rows) /\ (k = Cardinality(rows) \/ k = RowLimit)
  <2>1. Min({Cardinality(rows), RowLimit}) \in {Cardinality(rows), RowLimit}
        /\ \A y \in {Cardinality(rows), RowLimit} : Min({Cardinality(rows), RowLimit}) <= y
    <3>1. \E x \in {Cardinality(rows), RowLimit} : \A y \in {Cardinality(rows), RowLimit} : x <= y
      BY <1>1
    <3> QED BY <3>1 DEF Min
  <2> HIDE DEF k
  <2>2. k \in {Cardinality(rows), RowLimit} /\ k <= Cardinality(rows) /\ k <= RowLimit
    BY <2>1 DEF k
  <2> QED BY <2>2, <1>1
<1>3. /\ rs \in SUBSET rows /\ Cardinality(rs) = k
      /\ \A r \in rs, q \in rows \ rs : q.at <= r.at
  <2>1. \E s \in SUBSET rows : Cardinality(s) = k /\ \A r \in s, q \in rows \ s : q.at <= r.at
    <3> HIDE DEF k
    <3> QED BY <1>2, Latest
  <2> QED BY <2>1 DEF LatestRows
<1> HIDE DEF rs
<1>4. IsFiniteSet(rs) /\ Cardinality(Read) < C
  <2> HIDE DEF k
  <2>1. IsFiniteSet(rs)
    BY <1>3, FS_Subset
  <2>2. IsFiniteSet(Read)
    BY <2>1, FS_Subset
  <2>3. Cardinality(Read) \in Nat
    BY <2>2, FS_CardinalityType
  <2>4. ~(Cardinality(Read) >= C)
    BY DEF rs
  <2> HIDE DEF Read
  <2> QED BY <2>1, <2>3, <2>4
<1>5. CASE rs = rows
  <2>1. All = Read
    BY <1>5
  <2> QED BY <1>4, <2>1
<1>6. CASE rs # rows
  <2>1. k = RowLimit
    <3> HIDE DEF k
    <3> QED BY <1>2, <1>3, <1>6, FS_Subset
  <2>2. CASE \A r \in rs : t - r.at <= W
    <3>1. Read = rs
      BY <2>2
    <3> HIDE DEF Read, k
    <3> QED BY <1>1, <1>3, <1>4, <2>1, <3>1
  <2>3. CASE \E r \in rs : ~(t - r.at <= W)
    <3>1. PICK r \in rs : ~(t - r.at <= W)
      BY <2>3
    <3>2. \A q \in rows \ rs : ~(t - q.at <= W)
      <4>1. \A q \in rows \ rs : q.at <= r.at /\ q.at \in Nat /\ r.at \in Nat
        BY <1>3, <3>1
      <4> QED BY <3>1, <4>1
    <3>3. All = Read
      BY <1>3, <3>2
    <3> QED BY <1>4, <3>3
  <2> QED BY <2>2, <2>3
<1> QED BY <1>5, <1>6

(* getSTXFaucetRequests: the same of the check of a request.                *)
LEMMA LastRequestsSuffice ==
  ASSUME TypeOK, CheckedLimit, NEW a \in Address, NEW stacking \in BOOLEAN, ~Limited(a, stacking)
  PROVE  Cardinality({r \in records : r.address = a /\ now - r.at <=
                         (IF stacking THEN StackingWindow ELSE Window)})
           < (IF stacking THEN StackingTriggerCount ELSE TriggerCount)
<1> DEFINE rows == {r \in records : r.address = a}
           W == IF stacking THEN StackingWindow ELSE Window
           C == IF stacking THEN StackingTriggerCount ELSE TriggerCount
<1>1. W \in Nat /\ C \in Nat /\ C <= RowLimit /\ now \in Nat
  BY Constants DEF TypeOK
<1>2. IsFiniteSet(rows)
  BY FS_Subset DEF CheckedLimit
<1>3. \A r \in rows : r.at \in Nat /\ r.at <= MaxTime
  BY Constants DEF TypeOK, Request
<1>4. LastRequests(a) = LatestRows(rows)
  BY DEF LastRequests, LatestRows
<1>5. ~(Cardinality({r \in LatestRows(rows) : now - r.at <= W}) >= C)
  BY <1>4 DEF Limited
<1>6. {r \in records : r.address = a /\ now - r.at <= W} = {r \in rows : now - r.at <= W}
  OBVIOUS
<1>7. Cardinality({r \in rows : now - r.at <= W}) < C
  <2> HIDE DEF rows, W, C
  <2> QED BY <1>1, <1>2, <1>3, <1>5, LatestSuffice
<1> QED BY <1>6, <1>7

-----------------------------------------------------------------------------
(* The shape of a job, and of the values in it.                             *)
LEMMA JobShape ==
  ASSUME NEW j \in Job \cup {NoJob}
  PROVE  /\ j.phase \in {"amounts", "nonces", "send", "insert"} => j \in Job
         /\ j # NoJob => j \in Job
         /\ j \in Job => /\ j # NoJob /\ j.req \in Request /\ j.i \in 1..(N + 1)
                         /\ j.nonces \in SUBSET Nonce /\ j.nonce \in Nonce
                         /\ j.results \in SUBSET Answer /\ j.sent \in BOOLEAN
                         /\ j.phase \in {"amounts", "nonces", "send", "insert"}
<1>1. NoJob.phase = "none"
  BY DEF NoJob
<1>2. j \in Job => j.phase \in {"amounts", "nonces", "send", "insert"}
  BY DEF Job
<1> QED BY <1>1, <1>2 DEF Job

LEMMA RequestShape ==
  ASSUME NEW r \in Request
  PROVE  r.id \in Nat /\ r.id \in Id /\ r.at \in Nat /\ r.at <= MaxTime /\ r.stacking \in BOOLEAN
         /\ r.address \in Address
BY Constants DEF Request, Id

LEMMA Values ==
  ASSUME TypeOK
  PROVE  /\ now \in Nat /\ started \in Nat /\ started <= MaxRequests /\ faults \in Nat
         /\ \A n \in Node : account[n] \in Nat /\ n \in Nat
         /\ Len(chain) \in Nat /\ DOMAIN chain = 1..Len(chain)
         /\ \A p \in paid : p.nonce \in Nat /\ p.req \in Request /\ p.req.id \in Nat /\ p.node \in Node
         /\ \A n \in Node : \A e \in mempool[n] : e.nonce \in Nat /\ e.id \in Id /\ e \in [nonce : Nonce, id : Id]
         /\ \A r \in records : r \in Request
<1>1. \A p \in paid : p.nonce \in Nat /\ p.req \in Request /\ p.node \in Node
  BY Constants DEF TypeOK, Nonce
<1>2. \A p \in paid : p.req.id \in Nat
  BY <1>1, RequestShape
<1>3. \A n \in Node : account[n] \in Nat /\ n \in Nat
  BY Constants DEF TypeOK, Node, Nonce
<1>4. \A n \in Node : \A e \in mempool[n] : e \in [nonce : Nonce, id : Id]
  BY DEF TypeOK
<1>5. \A n \in Node : \A e \in mempool[n] : e.nonce \in Nat /\ e.id \in Id
  BY <1>4, Constants DEF Nonce
<1>6. Len(chain) \in Nat /\ DOMAIN chain = 1..Len(chain)
  BY DEF TypeOK
<1> QED BY <1>1, <1>2, <1>3, <1>4, <1>5, <1>6, Constants DEF TypeOK

(* The changes the steps of a job make to it.                               *)
LEMMA NextNode ==
  ASSUME NEW j \in Job, j.i <= N, NEW k, k = [j EXCEPT !.i = @ + 1]
  PROVE  /\ k \in Job /\ k.i = j.i + 1
         /\ k.phase = j.phase /\ k.req = j.req /\ k.nonces = j.nonces /\ k.nonce = j.nonce
         /\ k.results = j.results /\ k.sent = j.sent
BY Constants DEF Job

LEMMA NextPhase ==
  ASSUME NEW j \in Job, NEW ph \in {"nonces", "insert"}, NEW k, k = [j EXCEPT !.phase = ph]
  PROVE  /\ k \in Job /\ k.phase = ph
         /\ k.i = j.i /\ k.req = j.req /\ k.nonces = j.nonces /\ k.nonce = j.nonce
         /\ k.results = j.results /\ k.sent = j.sent
BY DEF Job

-----------------------------------------------------------------------------
(* What holds of the rate limit is kept by a step that records nothing and  *)
(* starts nothing.                                                          *)
LEMMA LimitKept ==
  ASSUME IInv, TypeOK', records' = records, started' = started,
         now' = now \/ now' = now + 1,
         job' = NoJob \/ (job # NoJob /\ job'.req = job.req)
  PROVE  CheckedLimit' /\ RequestsLimited'
<1>1. RequestsLimited'
  BY DEF IInv, RequestsLimited, Within
<1>2. now \in Nat /\ \A r \in records : r.at \in Nat /\ r \in Request
  BY Values, RequestShape DEF IInv
<1>3. \A x \in Nat : x <= now => x <= now'
  BY <1>2
<1>4. IsFiniteSet(records') /\ \A r \in records' : r.id <= started' /\ r.at <= now'
  BY <1>2, <1>3 DEF IInv, CheckedLimit
<1>5. CASE job' = NoJob
  BY <1>1, <1>4, <1>5 DEF CheckedLimit
<1>6. CASE job' # NoJob
  <2>1. job # NoJob /\ job'.req = job.req /\ job.req.at \in Nat
    BY <1>6, JobShape, RequestShape DEF IInv, TypeOK
  <2>2. /\ job.req.at <= now
        /\ \A r \in records : r.id < job.req.id /\ r.at <= job.req.at
        /\ Cardinality(Within(records, job.req, LimitWindow(job.req))) < LimitCount(job.req)
    BY <2>1 DEF IInv, CheckedLimit
  <2>3. Cardinality(Within(records, job.req, LimitWindow(job.req)))' =
          Cardinality(Within(records, job.req, LimitWindow(job.req)))
        /\ LimitCount(job.req)' = LimitCount(job.req)
    BY <2>1 DEF Within, LimitWindow, LimitCount
  <2>4. /\ job'.req.at <= now'
        /\ \A r \in records' : r.id < job'.req.id /\ r.at <= job'.req.at
    BY <1>3, <2>1, <2>2
  <2>5. (Cardinality(Within(records, job.req, LimitWindow(job.req))) < LimitCount(job.req))'
    BY <2>2, <2>3
  <2> QED BY <1>1, <1>4, <2>4, <2>5 DEF CheckedLimit
<1> QED BY <1>5, <1>6

(* A step that changes no node and pays nothing.                            *)
LEMMA PaymentsKept ==
  ASSUME IInv, UNCHANGED <<account, mempool, chain, paid>>, started' \in Nat, started <= started'
  PROVE  NoncesArePaid' /\ PaidOnce'
<1>1. \A p \in paid : p.req.id \in Nat /\ started \in Nat
  BY Values DEF IInv
<1> QED BY <1>1 DEF IInv, NoncesArePaid, PaidOnce

(* The job ends without another answer.  Nodes it did not ask are left      *)
(* behind only by a failure.                                                *)
LEMMA JobEnds ==
  ASSUME IInv, job # NoJob, job' = NoJob, UNCHANGED <<account, mempool, chain, paid, answered, started>>,
         faults' = faults \/ faults' = faults + 1,
         job.phase = "send" /\ job.i <= N => faults' = faults + 1
  PROVE  NoncesArePaid' /\ RoundPaysOnce' /\ PaidOnce' /\ AnsweredIsPaid' /\ NodesAgree'
<1>1. NoncesArePaid' /\ PaidOnce'
  BY PaymentsKept, Values DEF IInv
<1>2. RoundPaysOnce' /\ AnsweredIsPaid'
  BY DEF IInv, RoundPaysOnce, AnsweredIsPaid
<1>3. NodesAgree'
  <2> SUFFICES ASSUME Reliable'
               PROVE  (/\ \A p, q \in paid : p.nonce = q.nonce => p.req.id = q.req.id
                       /\ \A p \in paid, n \in Node :
                            \/ p.nonce < account[n]
                            \/ [nonce |-> p.nonce, id |-> p.req.id] \in mempool[n])'
    BY DEF NodesAgree
  <2>1. faults \in Nat
    BY Values DEF IInv
  <2>2. Reliable /\ (N = 1 \/ faults' = faults)
    BY <2>1 DEF Reliable
  <2>3. ASSUME NEW p \in paid, NEW n \in Node, job.phase = "send", p.req.id = job.req.id, job.i <= n
        PROVE  FALSE
    <3>1. p.node < job.i /\ p.node \in 1..N /\ job.i \in Nat
      BY <2>3, Values, JobShape, Constants DEF IInv, RoundPaysOnce, TypeOK, Node
    <3>2. n \in 1..N /\ job.i <= N
      BY <2>3, <3>1, Constants DEF Node
    <3> QED BY <2>1, <2>2, <2>3, <3>1, <3>2, Constants
  <2> QED BY <2>2, <2>3 DEF IInv, NodesAgree, Node
<1> QED BY <1>1, <1>2, <1>3

(* The job goes on outside the sending loop.                                *)
LEMMA JobMoves ==
  ASSUME IInv, job \in Job, job' \in Job, job'.req = job.req,
         job.phase \in {"amounts", "nonces"}, job'.phase \in {"nonces", "send"},
         job'.sent = FALSE, job'.results = {},
         job'.phase = "send" => job'.nonce < started /\ job'.i = 1,
         \A k \in job'.nonces : k < started,
         UNCHANGED <<account, mempool, chain, paid, answered, started>>,
         faults' = faults \/ faults' = faults + 1
  PROVE  NoncesArePaid' /\ RoundPaysOnce' /\ PaidOnce' /\ AnsweredIsPaid' /\ NodesAgree'
<1>1. NoncesArePaid' /\ PaidOnce' /\ AnsweredIsPaid'
  BY PaymentsKept, Values DEF IInv, AnsweredIsPaid
<1>2. job # NoJob /\ job.req.id = started /\ job.req.id \notin answered
      /\ \A p \in paid : p.req.id # job.req.id
  BY JobShape DEF IInv, RoundPaysOnce
<1>3. RoundPaysOnce'
  BY <1>2 DEF RoundPaysOnce
<1>4. NodesAgree'
  <2>1. Reliable' => Reliable
    BY Values DEF IInv, Reliable
  <2>2. job.phase # "send"
    OBVIOUS
  <2>3. job'.phase = "send" => \A n \in Node : ~(n < job'.i)
    BY Constants DEF Node
  <2> QED BY <2>1, <2>2, <2>3 DEF IInv, NodesAgree, Node
<1> QED BY <1>1, <1>3, <1>4

LEMMA JobTyped ==
  ASSUME TypeOK, job' \in Job \cup {NoJob}, faults' \in 0..MaxFaults,
         UNCHANGED <<now, records, started, account, mempool, chain, paid, answered>>
  PROVE  TypeOK'
BY DEF TypeOK

LEMMA InitIInv == Init => IInv
<1> SUFFICES ASSUME Init PROVE IInv
  OBVIOUS
<1>1. TypeOK
  BY Constants DEF Init, TypeOK, Node, Nonce
<1>2. NoncesArePaid /\ RoundPaysOnce /\ PaidOnce /\ AnsweredIsPaid /\ NodesAgree /\ RequestsLimited
  BY DEF Init, NoncesArePaid, RoundPaysOnce, PaidOnce, AnsweredIsPaid, NodesAgree, RequestsLimited
<1>3. CheckedLimit
  BY FS_EmptySet DEF Init, CheckedLimit
<1> QED BY <1>1, <1>2, <1>3 DEF IInv

(* The request passed the rate limit, and its number is new.                *)
LEMMA StartStep ==
  ASSUME IInv, NEW a \in Address, NEW stacking \in BOOLEAN, Start(a, stacking)
  PROVE  IInv'
<1> DEFINE req == [id |-> started + 1, address |-> a, at |-> now, stacking |-> stacking]
           new == [phase |-> "amounts", req |-> req, i |-> 1, nonces |-> {}, nonce |-> 0,
                   results |-> {}, sent |-> FALSE]
<1>0. TypeOK
  BY DEF IInv
<1>1. started' = started + 1 /\ started' \in 0..MaxRequests /\ started \in Nat /\ started + 1 \in Id
  BY Values, Constants, <1>0 DEF Start, Id
<1>2. UNCHANGED <<now, records, account, mempool, chain, paid, answered, faults>> /\ job = NoJob
  BY DEF Start, nodeVars
<1>3. req \in Request
  BY <1>0, <1>1 DEF Request, TypeOK
<1>4. /\ new \in Job /\ new.phase = "amounts" /\ new.req = req /\ new.nonces = {}
      /\ new.results = {} /\ new.sent = FALSE
  <2> HIDE DEF req
  <2> QED BY <1>3, Constants DEF Job, Nonce, Answer
<1>5. job' = NoJob \/ (job' = new /\ ~Limited(a, stacking))
  BY DEF Start
<1> HIDE DEF new
<1>6. TypeOK'
  BY <1>0, <1>1, <1>2, <1>4, <1>5 DEF TypeOK
<1>7. NoncesArePaid' /\ PaidOnce'
  BY <1>1, <1>2, PaymentsKept
<1>8. \A p \in paid : p.req.id <= started /\ p.req.id \in Nat
  BY Values DEF IInv, NoncesArePaid
<1>9. \A id \in answered : id <= started /\ id \in Nat
  BY <1>0, Constants DEF IInv, AnsweredIsPaid, TypeOK, Id
<1>10. RoundPaysOnce'
  <2>1. req.id = started + 1 /\ \A p \in paid : p.req.id # req.id
    BY <1>1, <1>8
  <2>2. req.id \notin answered
    BY <1>1, <1>9
  <2> HIDE DEF req
  <2> QED BY <1>1, <1>2, <1>4, <1>5, <2>1, <2>2 DEF RoundPaysOnce
<1>11. AnsweredIsPaid'
  BY <1>1, <1>2, <1>9 DEF IInv, AnsweredIsPaid
<1>12. NodesAgree'
  <2>1. Reliable' = Reliable
    BY <1>2 DEF Reliable
  <2>2. job' # NoJob => job'.phase # "send"
    BY <1>4, <1>5
  <2> QED BY <1>2, <2>1, <2>2 DEF IInv, NodesAgree, Node
<1>13. RequestsLimited'
  BY <1>2 DEF IInv, RequestsLimited, Within
<1>14. \A r \in records : r.id <= started /\ r.id \in Nat /\ r.at <= now /\ r.at \in Nat
  BY Values, RequestShape DEF IInv, CheckedLimit
<1>15. CheckedLimit'
  <2>1. IsFiniteSet(records') /\ \A r \in records' : r.id <= started' /\ r.at <= now'
    BY <1>1, <1>2, <1>14 DEF IInv, CheckedLimit
  <2>2. CASE job' = NoJob
    BY <2>1, <2>2 DEF CheckedLimit
  <2>3. CASE job' = new /\ ~Limited(a, stacking)
    <3>1. req.at <= now /\ \A r \in records : r.id < req.id /\ r.at <= req.at
      BY <1>0, <1>1, <1>14, Values
    <3>2. Within(records, req, LimitWindow(req)) =
            {r \in records : r.address = a /\ now - r.at <= (IF stacking THEN StackingWindow ELSE Window)}
      BY <1>14 DEF Within, LimitWindow
    <3>3. LimitCount(req) = IF stacking THEN StackingTriggerCount ELSE TriggerCount
      BY DEF LimitCount
    <3>4. Cardinality(Within(records, req, LimitWindow(req))) < LimitCount(req)
      <4> HIDE DEF req
      <4> QED BY <2>3, <3>2, <3>3, LastRequestsSuffice DEF IInv
    <3>5. (Cardinality(Within(records, job.req, LimitWindow(job.req))) < LimitCount(job.req))'
      <4> HIDE DEF req
      <4> QED BY <2>3, <3>4, <1>2, <1>4 DEF Within, LimitWindow, LimitCount
    <3> HIDE DEF req
    <3> QED BY <1>2, <1>4, <2>1, <2>3, <3>1, <3>5 DEF CheckedLimit
  <2> QED BY <1>5, <2>2, <2>3
<1> QED BY <1>6, <1>7, <1>10, <1>11, <1>12, <1>13, <1>15 DEF IInv

(* Nothing is decided yet.                                                  *)
LEMMA FetchAmountsStep ==
  ASSUME IInv, FetchAmounts
  PROVE  IInv'
<1>1. job \in Job /\ job # NoJob
  BY JobShape DEF FetchAmounts, IInv, TypeOK
<1>2. /\ job' \in Job /\ job'.phase = "nonces" /\ job'.req = job.req /\ job'.nonces = job.nonces
      /\ job'.results = job.results /\ job'.sent = job.sent
  BY <1>1, NextPhase DEF FetchAmounts
<1>3. UNCHANGED <<now, records, started, account, mempool, chain, paid, answered, faults>>
  BY DEF FetchAmounts, nodeVars
<1>4. TypeOK'
  BY <1>2, <1>3, JobTyped DEF IInv, TypeOK
<1>5. job.phase = "amounts" /\ job.results = {} /\ ~job.sent /\ \A k \in job.nonces : k < started
  BY <1>1 DEF FetchAmounts, IInv, RoundPaysOnce
<1>6. job'.sent = FALSE
  BY <1>1, <1>2, <1>5, JobShape
<1>7. NoncesArePaid' /\ RoundPaysOnce' /\ PaidOnce' /\ AnsweredIsPaid' /\ NodesAgree'
  BY <1>1, <1>2, <1>3, <1>5, <1>6, JobMoves
<1>8. CheckedLimit' /\ RequestsLimited'
  BY <1>1, <1>2, <1>3, <1>4, LimitKept
<1> QED BY <1>4, <1>7, <1>8 DEF IInv

(* A node's nonce counts the faucet's mined transfers, which earlier        *)
(* requests paid.                                                           *)
LEMMA AccountBelow ==
  ASSUME IInv, job \in Job, job.phase \in {"amounts", "nonces"}, NEW n \in Node
  PROVE  account[n] < started /\ account[n] \in Nonce
<1>1. /\ job # NoJob /\ job.req.id = started /\ \A p \in paid : p.req.id # started
      /\ started \in Nat /\ account[n] \in Nat /\ Len(chain) \in Nat /\ account[n] <= Len(chain)
      /\ job.req.id \in Id
  BY JobShape, RequestShape, Values DEF IInv, RoundPaysOnce, NoncesArePaid
<1>2. account[n] \in Nonce
  BY DEF IInv, TypeOK
<1>3. CASE Len(chain) = 0
  BY <1>1, <1>2, <1>3, Constants DEF Id
<1>4. CASE Len(chain) # 0
  <2>1. Len(chain) \in DOMAIN chain
    BY <1>1, <1>4, Values DEF IInv
  <2>2. PICK p \in paid : p.nonce + 1 = Len(chain)
    BY <2>1 DEF IInv, NoncesArePaid
  <2>3. p.nonce < p.req.id /\ p.req.id <= started /\ p.nonce \in Nat /\ p.req.id \in Nat
    BY <2>2, Values DEF IInv, NoncesArePaid
  <2> QED BY <1>1, <1>2, <2>2, <2>3
<1> QED BY <1>3, <1>4

(* The nonce a node tells is below the number of the request.               *)
LEMMA FetchNonceStep ==
  ASSUME IInv, FetchNonce
  PROVE  IInv'
<1>1. job \in Job /\ job # NoJob /\ job.phase = "nonces" /\ job.i <= N
  BY JobShape DEF FetchNonce, IInv, TypeOK
<1>2. job.i \in Node /\ job.i + 1 \in 1..(N + 1)
  BY <1>1, JobShape, Constants DEF Node
<1>3. account[job.i] < started /\ account[job.i] \in Nonce
  BY <1>1, <1>2, AccountBelow
<1>4. job.nonces \cup {account[job.i]} \in SUBSET Nonce
  BY <1>1, <1>3, JobShape
<1>5. /\ job' \in Job /\ job'.phase = "nonces" /\ job'.req = job.req
      /\ job'.nonces = job.nonces \cup {account[job.i]}
      /\ job'.results = job.results /\ job'.sent = job.sent
  <2> DEFINE i == job.i + 1
             s == job.nonces \cup {account[job.i]}
  <2>1. job' = [job EXCEPT !.i = i, !.nonces = s]
    BY DEF FetchNonce
  <2>2. i \in 1..(N + 1) /\ s \in SUBSET Nonce /\ s = job.nonces \cup {account[job.i]}
    BY <1>2, <1>4
  <2> HIDE DEF i, s
  <2> QED BY <1>1, <2>1, <2>2 DEF Job
<1>6. UNCHANGED <<now, records, started, account, mempool, chain, paid, answered, faults>>
  BY DEF FetchNonce, nodeVars
<1>7. TypeOK'
  BY <1>5, <1>6, JobTyped DEF IInv, TypeOK
<1>8. job.results = {} /\ ~job.sent /\ \A k \in job.nonces : k < started
  BY <1>1 DEF IInv, RoundPaysOnce
<1>9. job'.sent = FALSE /\ \A k \in job'.nonces : k < started
  BY <1>1, <1>3, <1>5, <1>8, JobShape
<1>10. NoncesArePaid' /\ RoundPaysOnce' /\ PaidOnce' /\ AnsweredIsPaid' /\ NodesAgree'
  BY <1>1, <1>5, <1>6, <1>8, <1>9, JobMoves
<1>11. CheckedLimit' /\ RequestsLimited'
  BY <1>1, <1>5, <1>6, <1>7, LimitKept
<1> QED BY <1>7, <1>10, <1>11 DEF IInv

(* A node that does not answer is passed over.                              *)
LEMMA FailNonceStep ==
  ASSUME IInv, FailNonce
  PROVE  IInv'
<1>1. job \in Job /\ job # NoJob /\ job.phase = "nonces" /\ job.i <= N
  BY JobShape DEF FailNonce, IInv, TypeOK
<1>2. /\ job' \in Job /\ job'.phase = "nonces" /\ job'.req = job.req /\ job'.nonces = job.nonces
      /\ job'.results = job.results /\ job'.sent = job.sent
  BY <1>1, NextNode DEF FailNonce
<1>3. UNCHANGED <<now, records, started, account, mempool, chain, paid, answered>> /\ faults' = faults + 1
      /\ faults' \in 0..MaxFaults
  BY Constants, Values DEF FailNonce, Fault, nodeVars, IInv
<1>4. TypeOK'
  BY <1>2, <1>3, JobTyped DEF IInv
<1>5. job.results = {} /\ ~job.sent /\ \A k \in job.nonces : k < started
  BY <1>1 DEF IInv, RoundPaysOnce
<1>6. job'.sent = FALSE
  BY <1>1, <1>2, <1>5, JobShape
<1>7. NoncesArePaid' /\ RoundPaysOnce' /\ PaidOnce' /\ AnsweredIsPaid' /\ NodesAgree'
  BY <1>1, <1>2, <1>3, <1>5, <1>6, JobMoves
<1>8. CheckedLimit' /\ RequestsLimited'
  BY <1>1, <1>2, <1>3, <1>4, LimitKept
<1> QED BY <1>4, <1>7, <1>8 DEF IInv

(* The sending loop starts below the number of the request.                 *)
LEMMA ChooseNonceStep ==
  ASSUME IInv, ChooseNonce
  PROVE  IInv'
<1>1. job \in Job /\ job # NoJob /\ job.phase = "nonces"
  BY JobShape DEF ChooseNonce, IInv, TypeOK
<1>2. UNCHANGED <<now, records, started, account, mempool, chain, paid, answered, faults>>
  BY DEF ChooseNonce, nodeVars
<1>3. CASE job.nonces = {}
  <2>1. job' = NoJob
    BY <1>3 DEF ChooseNonce
  <2>2. TypeOK'
    BY <1>2, <2>1, JobTyped DEF IInv, TypeOK
  <2>3. NoncesArePaid' /\ RoundPaysOnce' /\ PaidOnce' /\ AnsweredIsPaid' /\ NodesAgree'
    BY <1>1, <1>2, <2>1, JobEnds
  <2>4. CheckedLimit' /\ RequestsLimited'
    BY <1>2, <2>1, <2>2, LimitKept
  <2> QED BY <2>2, <2>3, <2>4 DEF IInv
<1>4. CASE job.nonces # {}
  <2>1. Max(job.nonces) \in job.nonces /\ Max(job.nonces) \in Nonce
    BY <1>1, <1>4, JobShape, MaxNonce
  <2>2. 1 \in 1..(N + 1)
    BY Constants
  <2>3. /\ job' \in Job /\ job'.phase = "send" /\ job'.req = job.req /\ job'.nonces = job.nonces
        /\ job'.results = job.results /\ job'.sent = job.sent
        /\ job'.nonce = Max(job.nonces) /\ job'.i = 1
    <3> DEFINE m == Max(job.nonces)
    <3>1. job' = [job EXCEPT !.phase = "send", !.i = 1, !.nonce = m]
      BY <1>4 DEF ChooseNonce
    <3>2. m \in Nonce /\ m = Max(job.nonces)
      BY <2>1
    <3> HIDE DEF m
    <3> QED BY <1>1, <2>2, <3>1, <3>2 DEF Job
  <2>4. TypeOK'
    BY <1>2, <2>3, JobTyped DEF IInv, TypeOK
  <2>5. job.results = {} /\ ~job.sent /\ \A k \in job.nonces : k < started
    BY <1>1 DEF IInv, RoundPaysOnce
  <2>6. job'.sent = FALSE /\ job'.nonce < started /\ job'.i = 1
    BY <1>1, <2>1, <2>3, <2>5, JobShape
  <2>7. NoncesArePaid' /\ RoundPaysOnce' /\ PaidOnce' /\ AnsweredIsPaid' /\ NodesAgree'
    BY <1>1, <1>2, <2>3, <2>5, <2>6, JobMoves
  <2>8. CheckedLimit' /\ RequestsLimited'
    BY <1>1, <1>2, <2>3, <2>4, LimitKept
  <2> QED BY <2>4, <2>7, <2>8 DEF IInv
<1> QED BY <1>3, <1>4

(* A failure ends the job, wherever it is.                                  *)
LEMMA FailureStep ==
  ASSUME IInv, FailAmounts \/ FailInsert \/ Crash
  PROVE  IInv'
<1>1. job # NoJob /\ job' = NoJob
  BY JobShape DEF FailAmounts, FailInsert, Crash, IInv, TypeOK
<1>2. UNCHANGED <<now, records, started, account, mempool, chain, paid, answered>> /\ faults' = faults + 1
      /\ faults' \in 0..MaxFaults
  BY Constants, Values DEF FailAmounts, FailInsert, Crash, Fault, nodeVars, IInv
<1>3. TypeOK'
  BY <1>1, <1>2, JobTyped DEF IInv
<1>4. NoncesArePaid' /\ RoundPaysOnce' /\ PaidOnce' /\ AnsweredIsPaid' /\ NodesAgree'
  BY <1>1, <1>2, JobEnds
<1>5. CheckedLimit' /\ RequestsLimited'
  BY <1>1, <1>2, <1>3, LimitKept
<1> QED BY <1>3, <1>4, <1>5 DEF IInv

(* A round in which every node had a conflict paid nothing, and the nonce   *)
(* it had belongs to an earlier request: the next one is still below the    *)
(* number of this one.                                                      *)
LEMMA DecideStep ==
  ASSUME IInv, Decide
  PROVE  IInv'
<1>1. job \in Job /\ job # NoJob /\ job.phase = "send" /\ job.i > N /\ job.i \in Nat /\ job.nonce \in Nat
  BY JobShape, Constants DEF Decide, IInv, TypeOK, Nonce
<1>2. UNCHANGED <<now, records, started, account, mempool, chain, paid, faults>>
  BY DEF Decide, nodeVars
<1>3. /\ job.req.id = started /\ job.req.id \notin answered /\ job.req.id \in Id
      /\ \A k \in job.nonces : k < started
      /\ \A p \in paid : p.req.id = job.req.id => job.results \cap {"success", "error"} # {}
      /\ job.sent => \E p \in paid : p.req.id = job.req.id
  BY <1>1, JobShape, RequestShape DEF IInv, RoundPaysOnce
<1>4. NoncesArePaid' /\ PaidOnce'
  BY <1>2, PaymentsKept, Values DEF IInv
<1>5. Reliable' = Reliable
  BY <1>2 DEF Reliable
<1>6. \A n \in Node : ~(job.i <= n)
  BY <1>1, Constants DEF Node
<1>7. CASE job.results = {"conflict"}
  <2>1. \A p \in paid : p.req.id # job.req.id
    BY <1>3, <1>7
  <2>2. ~job.sent
    BY <1>3, <2>1
  <2>3. job.nonce + 1 < started /\ job.nonce + 1 \in Nonce
    <3>1. PICK p \in paid : p.nonce = job.nonce /\ p.req.id < started
      BY <1>1, <1>7 DEF IInv, RoundPaysOnce
    <3>2. p.nonce < p.req.id /\ p.req.id \in Nat /\ started \in Nat /\ started <= MaxRequests
      BY <3>1, Values DEF IInv, NoncesArePaid
    <3> QED BY <1>1, <3>1, <3>2, Constants DEF Nonce
  <2>4. 1 \in 1..(N + 1)
    BY Constants
  <2>5. /\ job' \in Job /\ job'.phase = "send" /\ job'.i = 1 /\ job'.req = job.req
        /\ job'.nonces = job.nonces /\ job'.nonce = job.nonce + 1 /\ job'.results = {}
        /\ job'.sent = job.sent
    <3> DEFINE k == job.nonce + 1
    <3>1. job' = [job EXCEPT !.i = 1, !.results = {}, !.nonce = k]
      BY <1>7 DEF Decide
    <3>2. k \in Nonce /\ k = job.nonce + 1
      BY <2>3
    <3> HIDE DEF k
    <3> QED BY <1>1, <2>4, <3>1, <3>2 DEF Job
  <2>6. answered' = answered /\ TypeOK'
    BY <1>2, <1>7, <2>5, JobTyped DEF Decide, IInv, TypeOK
  <2>7. RoundPaysOnce' /\ AnsweredIsPaid'
    BY <1>2, <1>3, <2>1, <2>2, <2>3, <2>5, <2>6 DEF IInv, RoundPaysOnce, AnsweredIsPaid
  <2>8. NodesAgree'
    <3>1. \A n \in Node : ~(n < job'.i)
      BY <2>5, Constants DEF Node
    <3> QED BY <1>1, <1>2, <1>5, <1>6, <2>5, <3>1 DEF IInv, NodesAgree, Node
  <2>9. CheckedLimit' /\ RequestsLimited'
    BY <1>1, <1>2, <2>5, <2>6, LimitKept
  <2> QED BY <1>4, <2>6, <2>7, <2>8, <2>9 DEF IInv
<1>8. CASE job.results # {"conflict"} /\ job.sent
  <2>1. job' = [job EXCEPT !.phase = "insert"] /\ answered' = answered \cup {job.req.id}
    BY <1>8 DEF Decide, Finish
  <2>2. job' \in Job /\ job'.phase = "insert" /\ job'.req = job.req /\ job'.nonces = job.nonces
    BY <1>1, <2>1, NextPhase
  <2>3. TypeOK'
    BY <1>2, <1>3, <2>1, <2>2 DEF IInv, TypeOK
  <2>4. RoundPaysOnce'
    BY <1>2, <1>3, <2>2 DEF RoundPaysOnce
  <2>5. AnsweredIsPaid'
    <3>1. started <= started
      BY Values DEF IInv
    <3> QED BY <1>2, <1>3, <1>8, <2>1, <3>1 DEF IInv, AnsweredIsPaid
  <2>6. NodesAgree'
    BY <1>2, <1>5, <1>6, <2>2 DEF IInv, NodesAgree, Node
  <2>7. CheckedLimit' /\ RequestsLimited'
    BY <1>1, <1>2, <2>2, <2>3, LimitKept
  <2> QED BY <1>4, <2>3, <2>4, <2>5, <2>6, <2>7 DEF IInv
<1>9. CASE job.results # {"conflict"} /\ ~job.sent
  <2>1. job' = NoJob /\ answered' = answered
    BY <1>9 DEF Decide, Finish
  <2>2. TypeOK'
    BY <1>2, <2>1, JobTyped DEF IInv, TypeOK
  <2>3. ~(job.i <= N)
    BY <1>1, Constants
  <2>4. NoncesArePaid' /\ RoundPaysOnce' /\ PaidOnce' /\ AnsweredIsPaid' /\ NodesAgree'
    BY <1>1, <1>2, <2>1, <2>3, JobEnds
  <2>5. CheckedLimit' /\ RequestsLimited'
    BY <1>2, <2>1, <2>2, LimitKept
  <2> QED BY <2>2, <2>4, <2>5 DEF IInv
<1> QED BY <1>7, <1>8, <1>9

(* What was checked before the first await still holds of the table when    *)
(* the row is added.                                                        *)
LEMMA InsertStep ==
  ASSUME IInv, InsertFaucetRequest
  PROVE  IInv'
<1> DEFINE req == job.req
<1>1. job \in Job /\ job # NoJob /\ job.phase = "insert" /\ job' = NoJob /\ req \in Request
  BY JobShape DEF InsertFaucetRequest, IInv, TypeOK
<1>2. records' = records \cup {req} /\ UNCHANGED <<now, started, account, mempool, chain, paid, answered, faults>>
  BY DEF InsertFaucetRequest, nodeVars
<1>3. TypeOK'
  BY <1>1, <1>2 DEF IInv, TypeOK
<1>4. NoncesArePaid' /\ RoundPaysOnce' /\ PaidOnce' /\ AnsweredIsPaid' /\ NodesAgree'
  BY <1>1, <1>2, JobEnds
<1>5. /\ IsFiniteSet(records) /\ req.at <= now /\ req.id = started
      /\ \A r \in records : r.id < req.id /\ r.at <= req.at /\ r.id <= started /\ r.at <= now
      /\ Cardinality(Within(records, req, LimitWindow(req))) < LimitCount(req)
  BY <1>1 DEF IInv, CheckedLimit, RoundPaysOnce
<1>6. \A r \in records \cup {req} : r.id \in Nat /\ r.at \in Nat /\ r.stacking \in BOOLEAN /\ started \in Nat
  BY <1>1, Values, RequestShape DEF IInv
<1> HIDE DEF req
<1>7. CheckedLimit'
  <2>1. IsFiniteSet(records')
    BY <1>2, <1>5, FS_AddElement
  <2>2. \A r \in records' : r.id <= started' /\ r.at <= now'
    BY <1>2, <1>5, <1>6
  <2> QED BY <1>1, <2>1, <2>2 DEF CheckedLimit
<1>8. ASSUME NEW w \in Nat, NEW r \in records \cup {req}
      PROVE  /\ IsFiniteSet(Within(records, r, w)) /\ Cardinality(Within(records, r, w)) \in Nat
  <2>1. Within(records, r, w) \in SUBSET records
    BY DEF Within
  <2> QED BY <1>5, <2>1, FS_Subset, FS_CardinalityType
<1>9. Cardinality(Within(records, req, Window)) < TriggerCount
  <2>1. CASE ~req.stacking
    BY <1>5, <2>1 DEF LimitWindow, LimitCount
  <2>2. CASE req.stacking
    <3>1. Within(records, req, Window) \in SUBSET Within(records, req, StackingWindow)
      BY <1>5, <1>6, Constants DEF Within
    <3>2. Cardinality(Within(records, req, StackingWindow)) < StackingTriggerCount
      BY <1>5, <2>2 DEF LimitWindow, LimitCount
    <3>3. Cardinality(Within(records, req, Window)) <= Cardinality(Within(records, req, StackingWindow))
      BY <1>8, <3>1, Constants, FS_Subset
    <3> QED BY <1>8, <3>2, <3>3, Constants
  <2> QED BY <2>1, <2>2
<1>10. Cardinality(Within(records', req, Window)) <= TriggerCount
  <2>1. Within(records', req, Window) = Within(records, req, Window) \cup {req}
    BY <1>2, <1>5, <1>6, Constants DEF Within
  <2>2. Cardinality(Within(records', req, Window)) <= Cardinality(Within(records, req, Window)) + 1
    <3> DEFINE S == Within(records, req, Window)
    <3>1. IsFiniteSet(S) /\ Cardinality(S) \in Nat
      BY <1>8, Constants
    <3> HIDE DEF S
    <3>2. Cardinality(S \cup {req}) = IF req \in S THEN Cardinality(S) ELSE Cardinality(S) + 1
      BY <3>1, FS_AddElement
    <3>3. \A n \in Nat : n <= n + 1 /\ n + 1 <= n + 1
      OBVIOUS
    <3>4. Cardinality(S \cup {req}) <= Cardinality(S) + 1
      BY <3>1, <3>2, <3>3
    <3> QED BY <2>1, <3>4 DEF S
  <2>3. Cardinality(Within(records, req, Window)) \in Nat
    BY <1>8, Constants
  <2>4. Cardinality(Within(records', req, Window)) \in Nat
    BY <1>5, <1>8, <2>1, Constants, FS_AddElement, FS_CardinalityType
  <2> QED BY <1>9, <2>2, <2>3, <2>4, Constants
<1>11. RequestsLimited'
  <2> SUFFICES ASSUME NEW r \in records'
               PROVE  /\ Cardinality(Within(records', r, Window)) <= TriggerCount
                      /\ r.stacking =>
                           Cardinality({q \in Within(records', r, StackingWindow) : q.id < r.id})
                             < StackingTriggerCount
    BY DEF RequestsLimited, Within
  <2>1. CASE r = req
    <3>1. ASSUME req.stacking
          PROVE  Cardinality({q \in Within(records', req, StackingWindow) : q.id < req.id})
                   < StackingTriggerCount
      <4>1. {q \in Within(records', req, StackingWindow) : q.id < req.id} =
              Within(records, req, StackingWindow)
        BY <1>2, <1>5, <1>6 DEF Within
      <4> QED BY <1>5, <3>1, <4>1 DEF LimitWindow, LimitCount
    <3> QED BY <1>10, <2>1, <3>1
  <2>2. CASE r # req /\ r.address = req.address /\ r.at = req.at
    <3>1. Within(records', r, Window) = Within(records', req, Window)
      BY <2>2 DEF Within
    <3>2. {q \in Within(records', r, StackingWindow) : q.id < r.id} =
            {q \in Within(records, r, StackingWindow) : q.id < r.id}
      BY <1>2, <1>5, <1>6, <2>2 DEF Within
    <3> QED BY <1>2, <1>10, <2>2, <3>1, <3>2 DEF IInv, RequestsLimited
  <2>3. CASE r # req /\ ~(r.address = req.address /\ r.at = req.at)
    <3>1. ~(req.address = r.address /\ req.at <= r.at)
      BY <1>2, <1>5, <1>6, <2>3
    <3>2. Within(records', r, Window) = Within(records, r, Window)
          /\ Within(records', r, StackingWindow) = Within(records, r, StackingWindow)
      BY <1>2, <3>1 DEF Within
    <3> QED BY <1>2, <2>3, <3>2 DEF IInv, RequestsLimited
  <2> QED BY <2>1, <2>2, <2>3
<1> QED BY <1>3, <1>4, <1>7, <1>11 DEF IInv

-----------------------------------------------------------------------------
(* Sending.  What a node's answer says of its mempool.                      *)
LEMMA AnswerMeans ==
  ASSUME TypeOK, NEW n \in Node, NEW id \in Id, NEW nonce \in Nonce
  PROVE  /\ NodeAnswer(n, id, nonce) \in Answer
         /\ NodeAnswer(n, id, nonce) = "error" => nonce < account[n]
         /\ NodeAnswer(n, id, nonce) = "success" =>
              \/ [nonce |-> nonce, id |-> id] \in mempool[n]
              \/ ~(nonce < account[n]) /\ \A e \in mempool[n] : e.nonce # nonce
<1> DEFINE entry == [nonce |-> nonce, id |-> id]
<1>1. CASE entry \in mempool[n]
  BY <1>1 DEF NodeAnswer, Answer
<1>2. CASE entry \notin mempool[n] /\ nonce < account[n]
  BY <1>2 DEF NodeAnswer, Answer
<1>3. CASE entry \notin mempool[n] /\ ~(nonce < account[n])
  <2>1. NodeAnswer(n, id, nonce) =
          IF \E e \in mempool[n] : e.nonce = nonce THEN "conflict" ELSE "success"
    BY <1>3 DEF NodeAnswer
  <2> QED BY <1>3, <2>1 DEF Answer
<1> QED BY <1>1, <1>2, <1>3

(* A conflict is with another request's transfer.                           *)
LEMMA ConflictMeans ==
  ASSUME IInv, NEW n \in Node, NEW id \in Id, NEW nonce \in Nonce,
         NodeAnswer(n, id, nonce) = "conflict"
  PROVE  \E p \in paid : p.nonce = nonce /\ p.req.id # id
<1> DEFINE entry == [nonce |-> nonce, id |-> id]
<1>1. entry \notin mempool[n] /\ ~(nonce < account[n])
  BY DEF NodeAnswer
<1>2. PICK e \in mempool[n] : e.nonce = nonce
  BY <1>1 DEF NodeAnswer
<1>3. e.id # id
  <2>1. e \in [nonce : Nonce, id : Id]
    BY Values DEF IInv
  <2>2. e = [nonce |-> e.nonce, id |-> e.id]
    BY <2>1
  <2> QED BY <1>1, <1>2, <2>2
<1> QED BY <1>2, <1>3 DEF IInv, NoncesArePaid

(* A node takes the transfer of the job.                                    *)
LEMMA AcceptStep ==
  ASSUME IInv, job \in Job, job.phase = "send", job.i <= N,
         NodeAnswer(job.i, job.req.id, job.nonce) = "success", Accept(job.i),
         job' \in Job, job'.phase = "send", job'.i = job.i + 1, job'.req = job.req,
         job'.nonces = job.nonces, job'.nonce = job.nonce,
         NEW x \in {"success", "error"}, job'.results = job.results \cup {x},
         job'.sent = job.sent \/ x = "success",
         UNCHANGED <<account, chain, answered, started>>,
         faults' = faults \/ faults' = faults + 1
  PROVE  /\ mempool' \in [Node -> SUBSET [nonce : Nonce, id : Id]]
         /\ paid' \subseteq [req : Request, nonce : Nonce, node : Node]
         /\ NoncesArePaid' /\ RoundPaysOnce' /\ PaidOnce' /\ AnsweredIsPaid' /\ NodesAgree'
<1> DEFINE n == job.i
           entry == [nonce |-> job.nonce, id |-> job.req.id]
           new == [req |-> job.req, nonce |-> job.nonce, node |-> n]
<1>1. n \in Node /\ n \in Nat /\ job.req \in Request /\ job.req.id \in Id /\ job.req.id \in Nat
      /\ job.nonce \in Nonce /\ job.nonce \in Nat /\ job # NoJob /\ job' # NoJob
  BY JobShape, RequestShape, Constants DEF Node, Nonce
<1>2. entry \in [nonce : Nonce, id : Id] /\ entry.nonce = job.nonce /\ entry.id = job.req.id
  BY <1>1
<1>3. /\ new \in [req : Request, nonce : Nonce, node : Node]
      /\ new.req = job.req /\ new.nonce = job.nonce /\ new.node = n
  BY <1>1
<1>4. mempool' = [mempool EXCEPT ![n] = mempool[n] \cup {entry}] /\ paid' = paid \cup {new}
  BY <1>1 DEF Accept
<1>5. /\ job.req.id = started /\ job.nonce < started /\ job.req.id \notin answered
      /\ \A k \in job.nonces : k < started
      /\ \A p \in paid : p.req.id = job.req.id => p.nonce = job.nonce /\ p.node < n
      /\ job.sent => \E p \in paid : p.req.id = job.req.id
      /\ "conflict" \in job.results => \E p \in paid : p.nonce = job.nonce /\ p.req.id < started
  BY <1>1 DEF IInv, RoundPaysOnce
<1> HIDE DEF n, entry, new
<1>6. mempool' \in [Node -> SUBSET [nonce : Nonce, id : Id]]
  BY <1>1, <1>2, <1>4 DEF IInv, TypeOK
<1>7. paid' \subseteq [req : Request, nonce : Nonce, node : Node]
  BY <1>3, <1>4 DEF IInv, TypeOK
<1>8. \A m \in Node : mempool'[m] = IF m = n THEN mempool[n] \cup {entry} ELSE mempool[m]
  BY <1>4 DEF IInv, TypeOK
<1>9. started \in Nat
  BY Values DEF IInv
<1>10. NoncesArePaid'
  <2>1. \A p \in paid' : p.nonce < p.req.id /\ p.req.id <= started'
    BY <1>3, <1>4, <1>5, <1>9 DEF IInv, NoncesArePaid
  <2>2. \A m \in Node : \A e \in mempool'[m] : \E p \in paid' : p.req.id = e.id /\ p.nonce = e.nonce
    BY <1>2, <1>3, <1>4, <1>8 DEF IInv, NoncesArePaid
  <2>3. \A k \in DOMAIN chain : \E p \in paid' : p.req.id = chain[k] /\ p.nonce + 1 = k
    BY <1>4 DEF IInv, NoncesArePaid
  <2> QED BY <2>1, <2>2, <2>3 DEF IInv, NoncesArePaid, Node
<1>11. PaidOnce'
  BY <1>3, <1>4, <1>5 DEF IInv, PaidOnce
<1>12. AnsweredIsPaid'
  BY <1>4 DEF IInv, AnsweredIsPaid
<1>13. RoundPaysOnce'
  <2>1. \A p \in paid' : p.req.id = job'.req.id => p.nonce = job'.nonce /\ p.node < job'.i
    BY <1>1, <1>3, <1>4, <1>5, Values DEF IInv, n, Node
  <2>2. job'.results \cap {"success", "error"} # {}
    OBVIOUS
  <2>3. "conflict" \in job'.results => \E p \in paid' : p.nonce = job'.nonce /\ p.req.id < started'
    BY <1>4, <1>5
  <2>4. \E p \in paid' : p.req.id = job'.req.id
    BY <1>3, <1>4
  <2> QED BY <1>5, <2>1, <2>2, <2>3, <2>4 DEF RoundPaysOnce
<1>14. NodesAgree'
  <2> SUFFICES ASSUME Reliable'
               PROVE  (/\ \A p, q \in paid : p.nonce = q.nonce => p.req.id = q.req.id
                       /\ \A p \in paid, m \in Node :
                            \/ p.nonce < account[m]
                            \/ [nonce |-> p.nonce, id |-> p.req.id] \in mempool[m]
                            \/ job # NoJob /\ job.phase = "send" /\ p.req.id = job.req.id /\ job.i <= m
                       /\ faults = 0 /\ job # NoJob /\ job.phase = "send" => \A m \in Node : m < job.i =>
                            \/ job.nonce < account[m]
                            \/ [nonce |-> job.nonce, id |-> job.req.id] \in mempool[m]
                            \/ "conflict" \in job.results)'
    BY DEF NodesAgree
  <2>1. Reliable /\ (N = 1 \/ (faults = 0 /\ faults' = 0))
    BY Values DEF IInv, Reliable
  <2>2. /\ \A p, q \in paid : p.nonce = q.nonce => p.req.id = q.req.id
        /\ \A p \in paid, m \in Node :
             \/ p.nonce < account[m]
             \/ [nonce |-> p.nonce, id |-> p.req.id] \in mempool[m]
             \/ p.req.id = job.req.id /\ n <= m
        /\ faults = 0 => \A m \in Node : m < n =>
             job.nonce < account[m] \/ entry \in mempool[m] \/ "conflict" \in job.results
    BY <1>1, <2>1 DEF IInv, NodesAgree, n, entry
  <2>3. entry \in mempool[n] \/ (~(job.nonce < account[n]) /\ \A e \in mempool[n] : e.nonce # job.nonce)
    BY <1>1, AnswerMeans DEF IInv, n, entry
  <2>4. ASSUME NEW q \in paid, q.nonce = job.nonce
        PROVE  q.req.id = job.req.id
    <3>1. CASE entry \in mempool[n]
      <4>1. PICK p \in paid : p.req.id = job.req.id /\ p.nonce = job.nonce
        BY <1>1, <1>2, <3>1 DEF IInv, NoncesArePaid
      <4> QED BY <2>2, <2>4, <4>1
    <3>2. CASE ~(job.nonce < account[n]) /\ \A e \in mempool[n] : e.nonce # job.nonce
      BY <1>1, <2>2, <2>4, <3>2
    <3> QED BY <2>3, <3>1, <3>2
  <2>5. \A p, q \in paid' : p.nonce = q.nonce => p.req.id = q.req.id
    BY <1>3, <1>4, <2>2, <2>4
  <2>6. "conflict" \notin job.results
    BY <1>5, <1>9, <2>4
  <2>7. faults = 0 => \A m \in Node : m < n => job.nonce < account[m] \/ entry \in mempool[m]
    BY <2>2, <2>6
  <2>8. \A m \in Node : m <= n => job.nonce < account[m] \/ entry \in mempool'[m]
    <3> SUFFICES ASSUME NEW m \in Node, m <= n
                 PROVE  job.nonce < account[m] \/ entry \in mempool'[m]
      OBVIOUS
    <3>1. CASE m = n
      BY <1>8, <3>1
    <3>2. CASE m # n
      <4>1. m < n /\ faults = 0
        BY <1>1, <2>1, <3>2, Constants DEF Node
      <4> QED BY <1>8, <2>7, <3>2, <4>1
    <3> QED BY <3>1, <3>2
  <2>9. ASSUME NEW p \in paid', NEW m \in Node
        PROVE  \/ p.nonce < account[m]
               \/ [nonce |-> p.nonce, id |-> p.req.id] \in mempool'[m]
               \/ p.req.id = job.req.id /\ job'.i <= m
    <3>1. m \in Nat
      BY Constants DEF Node
    <3>2. CASE p.req.id = job.req.id
      <4>1. p.nonce = job.nonce
        BY <1>3, <1>4, <1>5, <3>2
      <4>2. CASE m <= n
        BY <2>8, <3>2, <4>1, <4>2 DEF entry
      <4>3. CASE ~(m <= n)
        BY <1>1, <3>1, <3>2, <4>3 DEF n
      <4> QED BY <4>2, <4>3
    <3>3. CASE p.req.id # job.req.id
      BY <1>3, <1>4, <1>8, <2>2, <3>3
    <3> QED BY <3>2, <3>3
  <2>10. \A m \in Node : m < job'.i => job.nonce < account[m] \/ entry \in mempool'[m]
    BY <1>1, <2>8, Constants DEF Node, n
  <2> QED BY <1>1, <2>5, <2>9, <2>10 DEF Node, entry
<1> QED BY <1>6, <1>7, <1>10, <1>11, <1>12, <1>13, <1>14

(* A node does not take it.                                                 *)
LEMMA RefuseStep ==
  ASSUME IInv, job \in Job, job.phase = "send", job.i <= N,
         job' \in Job, job'.phase = "send", job'.i = job.i + 1, job'.req = job.req,
         job'.nonces = job.nonces, job'.nonce = job.nonce, job'.sent = job.sent,
         NEW x \in {"conflict", "error"}, job'.results = job.results \cup {x},
         UNCHANGED <<account, mempool, chain, paid, answered, started>>,
         \/ faults' = faults /\ x = NodeAnswer(job.i, job.req.id, job.nonce)
         \/ faults' = faults + 1 /\ x = "error"
  PROVE  NoncesArePaid' /\ RoundPaysOnce' /\ PaidOnce' /\ AnsweredIsPaid' /\ NodesAgree'
<1> DEFINE n == job.i
           entry == [nonce |-> job.nonce, id |-> job.req.id]
<1>1. n \in Node /\ n \in Nat /\ job.req.id \in Id /\ job.req.id \in Nat /\ started \in Nat
      /\ job.nonce \in Nonce /\ job.nonce \in Nat /\ job # NoJob /\ job' # NoJob
  BY JobShape, RequestShape, Values, Constants DEF Node, Nonce, IInv
<1>2. NoncesArePaid' /\ PaidOnce' /\ AnsweredIsPaid'
  BY <1>1, PaymentsKept DEF IInv, AnsweredIsPaid
<1>3. /\ job.req.id = started /\ job.nonce < started /\ job.req.id \notin answered
      /\ \A k \in job.nonces : k < started
      /\ \A p \in paid : p.req.id = job.req.id =>
           p.nonce = job.nonce /\ p.node < n /\ job.results \cap {"success", "error"} # {}
      /\ job.sent => \E p \in paid : p.req.id = job.req.id
      /\ "conflict" \in job.results => \E p \in paid : p.nonce = job.nonce /\ p.req.id < started
  BY <1>1 DEF IInv, RoundPaysOnce
<1>4. \A p \in paid : p.node \in Nat /\ p.node >= 1 /\ p.req.id \in Nat /\ p.req.id <= started
  BY Values, Constants DEF IInv, Node, NoncesArePaid
<1>5. ASSUME x = "conflict"
      PROVE  \E p \in paid : p.nonce = job.nonce /\ p.req.id # job.req.id
  <2>1. NodeAnswer(n, job.req.id, job.nonce) = "conflict"
    BY <1>5
  <2> HIDE DEF n
  <2>2. \E p \in paid : p.nonce = job.nonce /\ p.req.id # job.req.id
    BY <1>1, <2>1, ConflictMeans
  <2> QED BY <2>2
<1> HIDE DEF n
<1>6. RoundPaysOnce'
  <2>1. \A p \in paid : p.req.id = job.req.id => p.node < job'.i
    BY <1>1, <1>3, <1>4 DEF n
  <2>2. \A p \in paid : p.req.id = job.req.id => job'.results \cap {"success", "error"} # {}
    BY <1>3
  <2>3. "conflict" \in job'.results => \E p \in paid : p.nonce = job.nonce /\ p.req.id < started
    <3>1. \A p \in paid : p.req.id # job.req.id => p.req.id < started
      BY <1>1, <1>3, <1>4
    <3>2. CASE x = "conflict"
      BY <1>5, <3>1, <3>2
    <3>3. CASE x # "conflict"
      BY <1>3, <3>3
    <3> QED BY <3>2, <3>3
  <2> QED BY <1>3, <2>1, <2>2, <2>3 DEF RoundPaysOnce
<1>7. NodesAgree'
  <2> SUFFICES ASSUME Reliable'
               PROVE  (/\ \A p, q \in paid : p.nonce = q.nonce => p.req.id = q.req.id
                       /\ \A p \in paid, m \in Node :
                            \/ p.nonce < account[m]
                            \/ [nonce |-> p.nonce, id |-> p.req.id] \in mempool[m]
                            \/ job # NoJob /\ job.phase = "send" /\ p.req.id = job.req.id /\ job.i <= m
                       /\ faults = 0 /\ job # NoJob /\ job.phase = "send" => \A m \in Node : m < job.i =>
                            \/ job.nonce < account[m]
                            \/ [nonce |-> job.nonce, id |-> job.req.id] \in mempool[m]
                            \/ "conflict" \in job.results)'
    BY DEF NodesAgree
  <2>1. Reliable /\ (N = 1 \/ (faults = 0 /\ faults' = 0 /\ faults' = faults)) /\ faults \in Nat
    BY Values DEF IInv, Reliable
  <2>2. /\ \A p, q \in paid : p.nonce = q.nonce => p.req.id = q.req.id
        /\ \A p \in paid, m \in Node :
             \/ p.nonce < account[m]
             \/ [nonce |-> p.nonce, id |-> p.req.id] \in mempool[m]
             \/ p.req.id = job.req.id /\ n <= m
        /\ faults = 0 => \A m \in Node : m < n =>
             job.nonce < account[m] \/ entry \in mempool[m] \/ "conflict" \in job.results
    BY <1>1, <2>1 DEF IInv, NodesAgree, n
  <2>3. ASSUME NEW p \in paid, p.req.id = job.req.id
        PROVE  job.nonce < account[n]
    <3>1. p.node < n /\ p.nonce = job.nonce
      BY <1>3, <2>3
    <3>2. faults' = faults /\ faults = 0
      BY <1>1, <1>4, <2>1, <3>1, Constants DEF Node
    <3>3. x # "conflict"
      BY <1>5, <2>2, <2>3, <3>1
    <3>4. NodeAnswer(n, job.req.id, job.nonce) = "error"
      BY <2>1, <3>2, <3>3 DEF n
    <3> QED BY <1>1, <3>4, AnswerMeans DEF IInv
  <2>4. ASSUME NEW p \in paid, NEW m \in Node
        PROVE  \/ p.nonce < account[m]
               \/ [nonce |-> p.nonce, id |-> p.req.id] \in mempool[m]
               \/ p.req.id = job.req.id /\ job'.i <= m
    <3>1. CASE p.req.id = job.req.id /\ m = n
      BY <1>3, <2>3, <3>1
    <3>2. CASE p.req.id = job.req.id /\ m # n
      BY <1>1, <2>2, <3>2, Constants DEF n, Node
    <3>3. CASE p.req.id # job.req.id
      BY <2>2, <3>3
    <3> QED BY <3>1, <3>2, <3>3
  <2>5. ASSUME faults' = 0, NEW m \in Node, m < job'.i
        PROVE  job.nonce < account[m] \/ entry \in mempool[m] \/ "conflict" \in job'.results
    <3>1. faults = 0 /\ faults' = faults /\ x = NodeAnswer(n, job.req.id, job.nonce)
      BY <2>1, <2>5 DEF n
    <3>2. CASE m < n
      BY <2>2, <3>1, <3>2
    <3>3. CASE m = n
      <4>1. x = "error" => job.nonce < account[n]
        BY <1>1, <3>1, AnswerMeans DEF IInv
      <4> QED BY <3>3, <4>1
    <3> QED BY <1>1, <2>5, <3>2, <3>3, Constants DEF n, Node
  <2> QED BY <1>1, <2>2, <2>4, <2>5 DEF Node
<1> QED BY <1>2, <1>6, <1>7

LEMMA SendStep ==
  ASSUME IInv, Send
  PROVE  IInv'
<1> DEFINE answer == NodeAnswer(job.i, job.req.id, job.nonce)
           rs == job.results \cup {answer}
           sent == job.sent \/ answer = "success"
           i == job.i + 1
<1>1. job \in Job /\ job # NoJob /\ job.phase = "send" /\ job.i <= N
  BY JobShape DEF Send, IInv, TypeOK
<1>2. job.i \in Node /\ i \in 1..(N + 1) /\ job.req.id \in Id /\ job.nonce \in Nonce
      /\ job.results \in SUBSET Answer /\ job.sent \in BOOLEAN
  BY <1>1, JobShape, RequestShape, Constants DEF Node
<1>3. answer \in Answer
  BY <1>2, AnswerMeans DEF IInv
<1>4. job' = [job EXCEPT !.i = i, !.results = rs, !.sent = sent]
      /\ UNCHANGED <<now, records, started, account, chain, answered, faults>>
      /\ IF answer = "success" THEN Accept(job.i) ELSE UNCHANGED <<mempool, paid>>
  BY DEF Send
<1>5. rs \in SUBSET Answer /\ sent \in BOOLEAN /\ rs = job.results \cup {answer}
      /\ (answer = "success" => sent = TRUE) /\ (answer # "success" => sent = job.sent)
      /\ i = job.i + 1
  BY <1>2, <1>3
<1> HIDE DEF answer, rs, sent, i
<1>6. /\ job' \in Job /\ job'.phase = "send" /\ job'.i = job.i + 1 /\ job'.req = job.req
      /\ job'.nonces = job.nonces /\ job'.nonce = job.nonce
      /\ job'.results = job.results \cup {answer} /\ job'.sent = sent
  <2>1. /\ job' \in Job /\ job'.phase = "send" /\ job'.i = i /\ job'.req = job.req
        /\ job'.nonces = job.nonces /\ job'.nonce = job.nonce /\ job'.results = rs /\ job'.sent = sent
    BY <1>1, <1>2, <1>4, <1>5 DEF Job
  <2> QED BY <1>5, <2>1
<1>7. CASE answer = "success"
  <2>1. Accept(job.i) /\ job'.sent = (job.sent \/ answer = "success")
    BY <1>2, <1>4, <1>5, <1>6, <1>7
  <2>2. /\ mempool' \in [Node -> SUBSET [nonce : Nonce, id : Id]]
        /\ paid' \subseteq [req : Request, nonce : Nonce, node : Node]
        /\ NoncesArePaid' /\ RoundPaysOnce' /\ PaidOnce' /\ AnsweredIsPaid' /\ NodesAgree'
    BY <1>1, <1>4, <1>6, <1>7, <2>1, AcceptStep DEF answer
  <2>3. TypeOK'
    BY <1>4, <1>6, <2>2 DEF IInv, TypeOK
  <2>4. CheckedLimit' /\ RequestsLimited'
    BY <1>1, <1>4, <1>6, <2>3, LimitKept
  <2> QED BY <2>2, <2>3, <2>4 DEF IInv
<1>8. CASE answer # "success"
  <2>1. answer \in {"conflict", "error"} /\ job'.sent = job.sent /\ UNCHANGED <<mempool, paid>>
    BY <1>3, <1>4, <1>5, <1>6, <1>8 DEF Answer
  <2>2. NoncesArePaid' /\ RoundPaysOnce' /\ PaidOnce' /\ AnsweredIsPaid' /\ NodesAgree'
    BY <1>1, <1>4, <1>6, <2>1, RefuseStep DEF answer
  <2>3. TypeOK'
    BY <1>4, <1>6, <2>1 DEF IInv, TypeOK
  <2>4. CheckedLimit' /\ RequestsLimited'
    BY <1>1, <1>4, <1>6, <2>3, LimitKept
  <2> QED BY <2>2, <2>3, <2>4 DEF IInv
<1> QED BY <1>7, <1>8

LEMMA FailSendStep ==
  ASSUME IInv, FailSend
  PROVE  IInv'
<1> DEFINE rs == job.results \cup {"error"}
           i == job.i + 1
<1>1. job \in Job /\ job # NoJob /\ job.phase = "send" /\ job.i <= N
  BY JobShape DEF FailSend, IInv, TypeOK
<1>2. i \in 1..(N + 1) /\ rs \in SUBSET Answer
  BY <1>1, JobShape, Constants DEF Answer
<1>3. job' = [job EXCEPT !.i = i, !.results = rs]
      /\ UNCHANGED <<now, records, started, account, chain, answered>>
      /\ (UNCHANGED <<mempool, paid>> \/
            (NodeAnswer(job.i, job.req.id, job.nonce) = "success" /\ Accept(job.i)))
  BY DEF FailSend
<1>4. faults' = faults + 1 /\ faults' \in 0..MaxFaults
  BY Constants, Values DEF FailSend, Fault, IInv
<1> HIDE DEF rs, i
<1>5. /\ job' \in Job /\ job'.phase = "send" /\ job'.i = i /\ job'.req = job.req
      /\ job'.nonces = job.nonces /\ job'.nonce = job.nonce /\ job'.results = rs /\ job'.sent = job.sent
  BY <1>1, <1>2, <1>3 DEF Job
<1>6. job'.i = job.i + 1 /\ job'.results = job.results \cup {"error"}
  BY <1>5 DEF i, rs
<1>7. CASE UNCHANGED <<mempool, paid>>
  <2>1. NoncesArePaid' /\ RoundPaysOnce' /\ PaidOnce' /\ AnsweredIsPaid' /\ NodesAgree'
    BY <1>1, <1>3, <1>4, <1>5, <1>6, <1>7, RefuseStep
  <2>2. TypeOK'
    BY <1>3, <1>4, <1>5, <1>7, JobTyped DEF IInv
  <2>3. CheckedLimit' /\ RequestsLimited'
    BY <1>1, <1>3, <1>5, <2>2, LimitKept
  <2> QED BY <2>1, <2>2, <2>3 DEF IInv
<1>8. CASE NodeAnswer(job.i, job.req.id, job.nonce) = "success" /\ Accept(job.i)
  <2>1. job'.sent = (job.sent \/ "error" = "success")
    BY <1>1, <1>5, JobShape
  <2>2. /\ mempool' \in [Node -> SUBSET [nonce : Nonce, id : Id]]
        /\ paid' \subseteq [req : Request, nonce : Nonce, node : Node]
        /\ NoncesArePaid' /\ RoundPaysOnce' /\ PaidOnce' /\ AnsweredIsPaid' /\ NodesAgree'
    BY <1>1, <1>3, <1>4, <1>5, <1>6, <1>8, <2>1, AcceptStep
  <2>3. TypeOK'
    BY <1>3, <1>4, <1>5, <2>2 DEF IInv, TypeOK
  <2>4. CheckedLimit' /\ RequestsLimited'
    BY <1>1, <1>3, <1>5, <2>3, LimitKept
  <2> QED BY <2>2, <2>3, <2>4 DEF IInv
<1> QED BY <1>3, <1>7, <1>8

-----------------------------------------------------------------------------
(* The nodes.                                                               *)
LEMMA TickStep ==
  ASSUME IInv, Tick
  PROVE  IInv'
<1>1. UNCHANGED <<records, job, started, account, mempool, chain, paid, answered, faults>>
      /\ now' = now + 1 /\ now' \in 0..MaxTime
  BY Values, Constants DEF Tick, nodeVars, IInv
<1>2. TypeOK'
  BY <1>1 DEF IInv, TypeOK
<1>3. NoncesArePaid' /\ RoundPaysOnce' /\ PaidOnce' /\ AnsweredIsPaid' /\ NodesAgree'
  BY <1>1 DEF IInv, NoncesArePaid, RoundPaysOnce, PaidOnce, AnsweredIsPaid, NodesAgree, Reliable, Node
<1>4. CheckedLimit' /\ RequestsLimited'
  BY <1>1, <1>2, LimitKept
<1> QED BY <1>2, <1>3, <1>4 DEF IInv

(* The chain is no longer than the requests that were paid.                 *)
LEMMA ChainBounded ==
  ASSUME IInv
  PROVE  Len(chain) <= started /\ Len(chain) <= MaxRequests
<1>1. Len(chain) \in Nat /\ DOMAIN chain = 1..Len(chain) /\ started \in Nat /\ started <= MaxRequests
  BY Values DEF IInv
<1>2. CASE Len(chain) = 0
  BY <1>1, <1>2, Constants
<1>3. CASE Len(chain) # 0
  <2>1. Len(chain) \in DOMAIN chain
    BY <1>1, <1>3
  <2>2. PICK p \in paid : p.nonce + 1 = Len(chain)
    BY <2>1 DEF IInv, NoncesArePaid
  <2>3. p.nonce < p.req.id /\ p.req.id <= started /\ p.nonce \in Nat /\ p.req.id \in Nat
    BY <2>2, Values DEF IInv, NoncesArePaid
  <2> QED BY <1>1, <2>2, <2>3, Constants
<1> QED BY <1>2, <1>3

(* A node goes past a nonce, and drops the transfers that have it.          *)
LEMMA AdvanceStep ==
  ASSUME IInv, NEW n \in Node, Advance(n), chain' \in Seq(Id),
         account[n] + 1 <= Len(chain'), Len(chain) <= Len(chain'), account[n] + 1 <= MaxRequests,
         \A k \in DOMAIN chain' : \E p \in paid : p.req.id = chain'[k] /\ p.nonce + 1 = k
  PROVE  IInv'
<1>1. UNCHANGED <<now, records, job, started, paid, answered, faults>>
  BY DEF Advance
<1>2. /\ \A m \in Node : account[m] \in Nat
      /\ \A m \in Node : \A e \in mempool[m] : e.nonce \in Nat
      /\ \A p \in paid : p.nonce \in Nat
      /\ Len(chain) \in Nat /\ Len(chain') \in Nat
  BY Values DEF IInv
<1>3. /\ account' \in [Node -> Nonce]
      /\ \A m \in Node : account'[m] = IF m = n THEN account[n] + 1 ELSE account[m]
  BY <1>2, Constants DEF Advance, IInv, TypeOK, Nonce
<1>4. /\ mempool' \in [Node -> SUBSET [nonce : Nonce, id : Id]]
      /\ \A m \in Node : mempool'[m] =
           IF m = n THEN {e \in mempool[n] : e.nonce > account[n]} ELSE mempool[m]
  BY DEF Advance, IInv, TypeOK
<1>5. TypeOK'
  BY <1>1, <1>3, <1>4 DEF IInv, TypeOK
<1>6. NoncesArePaid'
  <2>1. \A m \in Node : account'[m] <= Len(chain')
    BY <1>2, <1>3 DEF IInv, NoncesArePaid
  <2>2. \A m \in Node : \A e \in mempool'[m] : \E p \in paid : p.req.id = e.id /\ p.nonce = e.nonce
    BY <1>4 DEF IInv, NoncesArePaid
  <2> QED BY <1>1, <2>1, <2>2 DEF IInv, NoncesArePaid, Node
<1>7. RoundPaysOnce' /\ PaidOnce' /\ AnsweredIsPaid'
  BY <1>1 DEF IInv, RoundPaysOnce, PaidOnce, AnsweredIsPaid
<1>8. ASSUME NEW m \in Node, NEW nonce \in Nat, NEW id,
             nonce < account[m] \/ [nonce |-> nonce, id |-> id] \in mempool[m]
      PROVE  nonce < account'[m] \/ [nonce |-> nonce, id |-> id] \in mempool'[m]
  <2>1. CASE m = n
    BY <1>2, <1>3, <1>4, <1>8, <2>1
  <2>2. CASE m # n
    BY <1>3, <1>4, <1>8, <2>2
  <2> QED BY <2>1, <2>2
<1>9. NodesAgree'
  <2> SUFFICES ASSUME Reliable'
               PROVE  (/\ \A p, q \in paid : p.nonce = q.nonce => p.req.id = q.req.id
                       /\ \A p \in paid, m \in Node :
                            \/ p.nonce < account[m]
                            \/ [nonce |-> p.nonce, id |-> p.req.id] \in mempool[m]
                            \/ job # NoJob /\ job.phase = "send" /\ p.req.id = job.req.id /\ job.i <= m
                       /\ faults = 0 /\ job # NoJob /\ job.phase = "send" => \A m \in Node : m < job.i =>
                            \/ job.nonce < account[m]
                            \/ [nonce |-> job.nonce, id |-> job.req.id] \in mempool[m]
                            \/ "conflict" \in job.results)'
    BY DEF NodesAgree
  <2>1. Reliable
    BY <1>1 DEF Reliable
  <2>2. \A p, q \in paid : p.nonce = q.nonce => p.req.id = q.req.id
    BY <2>1 DEF IInv, NodesAgree
  <2>3. ASSUME NEW p \in paid, NEW m \in Node
        PROVE  \/ p.nonce < account'[m]
               \/ [nonce |-> p.nonce, id |-> p.req.id] \in mempool'[m]
               \/ job # NoJob /\ job.phase = "send" /\ p.req.id = job.req.id /\ job.i <= m
    BY <1>2, <1>8, <2>1 DEF IInv, NodesAgree
  <2>4. ASSUME faults = 0, job # NoJob, job.phase = "send", NEW m \in Node, m < job.i
        PROVE  \/ job.nonce < account'[m]
               \/ [nonce |-> job.nonce, id |-> job.req.id] \in mempool'[m]
               \/ "conflict" \in job.results
    <3>1. job.nonce \in Nat
      BY <2>4, JobShape, Constants DEF IInv, TypeOK, Nonce
    <3> QED BY <1>8, <2>1, <2>4, <3>1 DEF IInv, NodesAgree
  <2> QED BY <1>1, <2>2, <2>3, <2>4 DEF Node
<1>10. CheckedLimit' /\ RequestsLimited'
  BY <1>1, <1>5, LimitKept
<1> QED BY <1>5, <1>6, <1>7, <1>9, <1>10 DEF IInv

LEMMA MineStep ==
  ASSUME IInv, NEW n \in Node, Mine(n)
  PROVE  IInv'
<1>1. PICK e \in mempool[n] : e.nonce = account[n] /\ chain' = Append(chain, e.id)
  BY DEF Mine
<1>2. account[n] = Len(chain) /\ Advance(n) /\ account[n] \in Nat /\ chain \in Seq(Id) /\ e.id \in Id
      /\ Len(chain) \in Nat
  BY Values DEF Mine, IInv, TypeOK
<1>3. PICK p \in paid : p.req.id = e.id /\ p.nonce = e.nonce
  BY <1>1 DEF IInv, NoncesArePaid
<1>4. p.nonce < p.req.id /\ p.req.id <= started /\ p.req.id \in Nat /\ started \in Nat /\ started <= MaxRequests
  BY <1>3, Values DEF IInv, NoncesArePaid
<1>5. account[n] + 1 <= MaxRequests
  BY <1>1, <1>2, <1>3, <1>4, Constants
<1>6. /\ chain' \in Seq(Id) /\ Len(chain') = Len(chain) + 1 /\ DOMAIN chain' = 1..(Len(chain) + 1)
      /\ \A k \in 1..Len(chain) : chain'[k] = chain[k]
      /\ chain'[Len(chain) + 1] = e.id
  BY <1>1, <1>2
<1>7. ASSUME NEW k \in DOMAIN chain' PROVE \E q \in paid : q.req.id = chain'[k] /\ q.nonce + 1 = k
  <2>1. CASE k \in 1..Len(chain)
    BY <1>2, <1>6, <2>1 DEF IInv, NoncesArePaid
  <2>2. CASE k = Len(chain) + 1
    BY <1>1, <1>2, <1>3, <1>6, <2>2
  <2> QED BY <1>2, <1>6, <2>1, <2>2
<1>8. account[n] + 1 <= Len(chain') /\ Len(chain) <= Len(chain')
  BY <1>2, <1>6
<1> QED BY <1>2, <1>5, <1>6, <1>7, <1>8, AdvanceStep

LEMMA SyncStep ==
  ASSUME IInv, NEW n \in Node, Sync(n)
  PROVE  IInv'
<1>1. account[n] < Len(chain) /\ Advance(n) /\ chain' = chain /\ account[n] \in Nat /\ Len(chain) \in Nat
      /\ chain \in Seq(Id)
  BY Values DEF Sync, IInv, TypeOK
<1>2. account[n] + 1 <= MaxRequests /\ account[n] + 1 <= Len(chain') /\ Len(chain) <= Len(chain')
  BY <1>1, ChainBounded, Constants
<1>3. \A k \in DOMAIN chain' : \E p \in paid : p.req.id = chain'[k] /\ p.nonce + 1 = k
  BY <1>1 DEF IInv, NoncesArePaid
<1> QED BY <1>1, <1>2, <1>3, AdvanceStep

LEMMA RelayStep ==
  ASSUME IInv, NEW m \in Node, NEW n \in Node, Relay(m, n)
  PROVE  IInv'
<1>1. PICK e \in mempool[m] : mempool' = [mempool EXCEPT ![n] = mempool[n] \cup {e}]
  BY DEF Relay
<1>2. UNCHANGED <<now, records, job, started, account, chain, paid, answered, faults>>
  BY DEF Relay
<1>3. e \in [nonce : Nonce, id : Id]
  BY Values DEF IInv
<1>4. /\ mempool' \in [Node -> SUBSET [nonce : Nonce, id : Id]]
      /\ \A k \in Node : mempool'[k] = IF k = n THEN mempool[n] \cup {e} ELSE mempool[k]
  BY <1>1, <1>3 DEF IInv, TypeOK
<1>5. TypeOK'
  BY <1>2, <1>4 DEF IInv, TypeOK
<1>6. NoncesArePaid'
  <2>1. \A k \in Node : \A f \in mempool'[k] : \E p \in paid : p.req.id = f.id /\ p.nonce = f.nonce
    BY <1>4 DEF IInv, NoncesArePaid
  <2> QED BY <1>2, <2>1 DEF IInv, NoncesArePaid, Node
<1>7. RoundPaysOnce' /\ PaidOnce' /\ AnsweredIsPaid'
  BY <1>2 DEF IInv, RoundPaysOnce, PaidOnce, AnsweredIsPaid
<1>8. NodesAgree'
  <2>1. Reliable' = Reliable /\ \A k \in Node : mempool[k] \subseteq mempool'[k]
    BY <1>2, <1>4 DEF Reliable
  <2> QED BY <1>2, <2>1 DEF IInv, NodesAgree, Node
<1>9. CheckedLimit' /\ RequestsLimited'
  BY <1>2, <1>5, LimitKept
<1> QED BY <1>5, <1>6, <1>7, <1>8, <1>9 DEF IInv

-----------------------------------------------------------------------------
LEMMA NextIInv == IInv /\ [Next]_vars => IInv'
<1> SUFFICES ASSUME IInv, [Next]_vars PROVE IInv'
  OBVIOUS
<1>1. CASE UNCHANGED vars
  <2>1. UNCHANGED <<now, records, job, started, account, mempool, chain, paid, answered, faults>>
    BY <1>1 DEF vars
  <2>2. TypeOK'
    BY <2>1 DEF IInv, TypeOK
  <2>3. NoncesArePaid' /\ RoundPaysOnce' /\ PaidOnce' /\ AnsweredIsPaid' /\ NodesAgree'
    BY <2>1 DEF IInv, NoncesArePaid, RoundPaysOnce, PaidOnce, AnsweredIsPaid, NodesAgree, Reliable, Node
  <2>4. CheckedLimit' /\ RequestsLimited'
    BY <2>1, <2>2, LimitKept
  <2> QED BY <2>2, <2>3, <2>4 DEF IInv
<1>2. ASSUME NEW a \in Address, NEW stacking \in BOOLEAN, Start(a, stacking) PROVE IInv'
  BY <1>2, StartStep
<1>3. CASE JobStep
  BY <1>3, FetchAmountsStep, FetchNonceStep, ChooseNonceStep, SendStep, DecideStep, InsertStep DEF JobStep
<1>4. CASE Failures
  BY <1>4, FailureStep, FailNonceStep, FailSendStep DEF Failures
<1>5. CASE Tick
  BY <1>5, TickStep
<1>6. ASSUME NEW n \in Node, Mine(n) \/ Sync(n) PROVE IInv'
  BY <1>6, MineStep, SyncStep
<1>7. ASSUME NEW m \in Node, NEW n \in Node, Relay(m, n) PROVE IInv'
  BY <1>7, RelayStep
<1> QED BY <1>1, <1>2, <1>3, <1>4, <1>5, <1>6, <1>7 DEF Next

(* The invariant holds throughout: every step of the handler in faucets.ts, *)
(* its failures and what the nodes do meanwhile keep it.                    *)
THEOREM Invariant == Spec => []IInv
<1>1. Init => IInv
  BY InitIInv
<1>2. IInv /\ [Next]_vars => IInv'
  BY NextIInv
<1> QED BY <1>1, <1>2, PTL DEF Spec

(* Type correctness; in particular the retry loop needs no nonce beyond the *)
(* number of requests.                                                      *)
THEOREM TypeCorrect == Spec => []TypeOK
<1>1. IInv => TypeOK
  BY DEF IInv
<1> QED BY <1>1, Invariant, PTL

(* The rate limit holds of the recorded requests, although the check comes  *)
(* many awaits before the row, reads no more than RowLimit rows, and mixes  *)
(* two limits.                                                              *)
THEOREM RateLimit == Spec => []RequestsLimited
<1>1. IInv => RequestsLimited
  BY DEF IInv
<1> QED BY <1>1, Invariant, PTL

(* The retry loop of the handler never pays a request twice, with one node  *)
(* and with two, whatever the nodes answer and whichever answers are lost.  *)
THEOREM NeverPaidTwice == Spec => []PaidOnce
<1>1. IInv => PaidOnce
  BY DEF IInv
<1> QED BY <1>1, Invariant, PTL

(* With one node, or while nothing failed, a request answered with 200      *)
(* keeps its transfer.                                                      *)
THEOREM KeptAnswers == Spec => []AnsweredKept
<1>1. IInv => AnsweredKept
  <2> SUFFICES ASSUME IInv, Reliable, NEW id \in answered
               PROVE  \/ \E k \in DOMAIN chain : chain[k] = id
                      \/ \E n \in Node : \E e \in mempool[n] : e.id = id
    BY DEF AnsweredKept
  <2>1. PICK p \in paid : p.req.id = id
    BY DEF IInv, AnsweredIsPaid
  <2>2. 1 \in Node
    BY Constants DEF Node
  <2>3. ~(job # NoJob /\ job.phase = "send" /\ p.req.id = job.req.id)
    BY <2>1 DEF IInv, RoundPaysOnce
  <2>4. p.nonce < account[1] \/ [nonce |-> p.nonce, id |-> p.req.id] \in mempool[1]
    BY <2>2, <2>3 DEF IInv, NodesAgree
  <2>5. CASE p.nonce < account[1]
    <3>1. /\ p.nonce \in Nat /\ account[1] \in Nat /\ Len(chain) \in Nat /\ account[1] <= Len(chain)
          /\ DOMAIN chain = 1..Len(chain)
      BY <2>2, Values DEF IInv, NoncesArePaid
    <3>2. p.nonce + 1 \in DOMAIN chain
      BY <2>5, <3>1
    <3>3. PICK q \in paid : q.req.id = chain[p.nonce + 1] /\ q.nonce + 1 = p.nonce + 1
      BY <3>2 DEF IInv, NoncesArePaid
    <3>4. q.nonce = p.nonce
      BY <3>1, <3>3, Values DEF IInv
    <3>5. q.req.id = p.req.id
      BY <3>4 DEF IInv, NodesAgree
    <3> QED BY <2>1, <3>2, <3>3, <3>5
  <2>6. CASE [nonce |-> p.nonce, id |-> p.req.id] \in mempool[1]
    BY <2>1, <2>2, <2>6
  <2> QED BY <2>4, <2>5, <2>6
<1> QED BY <1>1, Invariant, PTL

-----------------------------------------------------------------------------
(* The BTC faucet, which shares Window, TriggerCount and RowLimit with the  *)
(* other.                                                                   *)
CONSTANTS Amount, Fee, MinConfirmations, StartHeight, Coins, MaxBlocks
VARIABLES
  btcNow, btcRecords, btcStarted, btcJob, height, unspents, btcMempool, mined, accepted, rejected,
  btcFaults

Btc ==
  INSTANCE BtcFaucet WITH
    now <- btcNow, records <- btcRecords, started <- btcStarted, job <- btcJob,
    mempool <- btcMempool, faults <- btcFaults

(* The library's operators are the same for both faucets.                   *)
LEMMA BtcSets == \A S : (Btc!IsFiniteSet(S) <=> IsFiniteSet(S)) /\ Btc!Min(S) = Min(S)
BY DEF IsFiniteSet, Btc!IsFiniteSet, Min, Btc!Min

LEMMA BtcCardinality == \A S : Btc!Cardinality(S) = Cardinality(S)
BY DEF Cardinality, Btc!Cardinality

(* The job's record, spelled out.                                           *)
LEMMA BtcJobShape ==
  ASSUME Btc!JobShape, btcJob # Btc!NoJob \/ btcJob.phase # "none"
  PROVE  /\ btcJob # Btc!NoJob /\ Btc!IsJob(btcJob)
         /\ btcJob.phase \in {"scan", "mempool", "select", "send", "insert"}
         /\ btcJob = [phase |-> btcJob.phase, req |-> btcJob.req, scan |-> btcJob.scan,
                      scanHeight |-> btcJob.scanHeight, spent |-> btcJob.spent, inputs |-> btcJob.inputs]
         /\ btcJob.req.id = btcStarted /\ btcJob.req.at \in Nat /\ btcJob.req.at <= btcNow
BY DEF Btc!JobShape, Btc!IsJob, Btc!NoJob

(* A job that goes on with its request.                                     *)
LEMMA BtcJobGoesOn ==
  ASSUME Btc!JobShape, btcJob.phase # "none", UNCHANGED <<btcStarted, btcNow, height, mined>>,
         NEW ph \in {"mempool", "select", "send", "insert"}, NEW sc, NEW sh, NEW sp, NEW ins,
         btcJob' = [phase |-> ph, req |-> btcJob.req, scan |-> sc, scanHeight |-> sh, spent |-> sp, inputs |-> ins]
  PROVE  Btc!JobShape'
<1>1. btcJob.req.id = btcStarted /\ btcJob.req.at \in Nat /\ btcJob.req.at <= btcNow
  BY BtcJobShape
<1>2. btcJob'.req = btcJob.req
  OBVIOUS
<1>3. Btc!IsJob(btcJob)'
  BY <1>1, <1>2 DEF Btc!IsJob
<1> QED BY <1>3 DEF Btc!JobShape

(* What holds of the rate limit is kept by a step that records nothing and  *)
(* starts nothing.                                                          *)
LEMMA BtcLimitKept ==
  ASSUME Btc!IInv, btcRecords' = btcRecords, btcNow' = btcNow \/ btcNow' = btcNow + 1,
         btcJob' = Btc!NoJob \/ (btcJob # Btc!NoJob /\ btcJob'.req = btcJob.req)
  PROVE  Btc!CheckedLimit' /\ Btc!RequestsLimited'
<1>1. Btc!RequestsLimited'
  BY DEF Btc!IInv, Btc!RequestsLimited
<1>2. IsFiniteSet(btcRecords') /\ \A r \in btcRecords' : r.at \in 0..btcNow'
  <2>1. btcNow \in Nat
    BY Constants DEF Btc!IInv, Btc!JobShape
  <2>2. \A x : x \in 0..btcNow => x \in 0..btcNow'
    BY <2>1
  <2> QED BY <2>2, BtcSets DEF Btc!IInv, Btc!CheckedLimit
<1>3. ASSUME btcJob' # Btc!NoJob
      PROVE  /\ \A r \in btcRecords' : r.at <= btcJob'.req.at
             /\ (Cardinality(Btc!Within(btcJob.req)) < TriggerCount)'
  <2>1. btcJob # Btc!NoJob /\ btcJob'.req = btcJob.req
    BY <1>3
  <2>2. /\ \A r \in btcRecords : r.at <= btcJob.req.at
        /\ Cardinality(Btc!Within(btcJob.req)) < TriggerCount
    BY <2>1, BtcCardinality DEF Btc!IInv, Btc!CheckedLimit
  <2> QED BY <2>1, <2>2 DEF Btc!Within
<1>4. (btcJob # Btc!NoJob)' => btcJob' # Btc!NoJob
  BY DEF Btc!NoJob
<1>5. Btc!CheckedLimit'
  BY <1>2, <1>3, <1>4, BtcSets, BtcCardinality DEF Btc!CheckedLimit
<1> QED BY <1>1, <1>5

LEMMA BtcInit ==
  ASSUME Btc!BtcFaucetAssumption, Btc!Init
  PROVE  Btc!IInv
<1>1. /\ btcNow = 0 /\ btcRecords = {} /\ btcStarted = 0 /\ btcJob = Btc!NoJob
      /\ height = StartHeight /\ unspents = Coins /\ btcMempool = {} /\ mined = 0
      /\ accepted = {} /\ rejected = {}
  BY DEF Btc!Init
<1>2. Btc!JobShape
  BY <1>1, Constants DEF Btc!JobShape, Btc!BtcFaucetAssumption
<1>3. Btc!OutputsMined
  BY <1>1 DEF Btc!OutputsMined, Btc!BtcFaucetAssumption
<1>4. btcJob.phase = "none"
  BY <1>1 DEF Btc!NoJob
<1>5. Btc!ScanIsFresh /\ Btc!PaidInOrder
  BY <1>1, <1>4 DEF Btc!ScanIsFresh, Btc!PaidInOrder
<1>6. Btc!CheckedLimit
  BY <1>1, BtcSets, FS_EmptySet DEF Btc!CheckedLimit
<1>7. Btc!RecordedIsPaid /\ Btc!RejectedOnlyAfterBlock /\ Btc!SpendsConfirmed /\ Btc!RequestsLimited
  BY <1>1 DEF Btc!RecordedIsPaid, Btc!RejectedOnlyAfterBlock, Btc!SpendsConfirmed, Btc!RequestsLimited
<1> QED BY <1>2, <1>3, <1>5, <1>6, <1>7 DEF Btc!IInv

LEMMA BtcStart ==
  ASSUME Btc!BtcFaucetAssumption, Btc!IInv, NEW a \in Address, Btc!Start(a)
  PROVE  Btc!IInv'
<1> DEFINE req == [id |-> btcStarted + 1, address |-> a, at |-> btcNow]
<1>1. /\ btcJob = Btc!NoJob /\ btcStarted' = btcStarted + 1
      /\ UNCHANGED <<btcNow, btcRecords, height, unspents, btcMempool, mined, accepted, rejected>>
  BY DEF Btc!Start, Btc!nodeVars
<1>2. \/ btcJob' = Btc!NoJob
      \/ /\ ~Btc!Limited(a)
         /\ btcJob' = [phase |-> "scan", req |-> req, scan |-> {}, scanHeight |-> 0, spent |-> {}, inputs |-> {}]
  BY DEF Btc!Start
<1>3. req.id = btcStarted + 1 /\ req.address = a /\ req.at = btcNow
  OBVIOUS
<1> HIDE DEF req
<1>4. btcNow \in Nat /\ btcStarted \in Nat /\ btcNow \in 0..MaxTime
  BY Constants DEF Btc!IInv, Btc!JobShape
<1>5. ASSUME btcJob' # Btc!NoJob
      PROVE  /\ ~Btc!Limited(a) /\ btcJob'.req = req /\ btcJob'.phase = "scan"
             /\ Btc!IsJob(btcJob)'
  <2>1. btcJob' = [phase |-> "scan", req |-> req, scan |-> {}, scanHeight |-> 0, spent |-> {}, inputs |-> {}]
    BY <1>2, <1>5
  <2>2. btcJob'.req = req /\ btcJob'.phase = "scan"
    BY <2>1
  <2>3. Btc!IsJob(btcJob)'
    BY <1>1, <1>3, <1>4, <2>1, <2>2 DEF Btc!IsJob
  <2> QED BY <1>2, <1>5, <2>2, <2>3
<1>6. btcJob'.phase \in {"none", "scan"} /\ (btcJob' = Btc!NoJob => btcJob'.phase = "none")
  BY <1>5 DEF Btc!NoJob
<1>7. Btc!JobShape'
  <2>1. btcJob' = Btc!NoJob \/ Btc!IsJob(btcJob)'
    BY <1>5
  <2>2. (btcJob = Btc!NoJob)' <=> btcJob' = Btc!NoJob
    BY DEF Btc!NoJob
  <2>3. btcNow' \in 0..MaxTime /\ btcStarted' \in Nat /\ height' \in Nat /\ mined' \in Nat
    BY <1>1, <1>4 DEF Btc!IInv, Btc!JobShape
  <2> QED BY <2>1, <2>2, <2>3 DEF Btc!JobShape
<1>8. Btc!OutputsMined' /\ Btc!RecordedIsPaid' /\ Btc!RejectedOnlyAfterBlock' /\ Btc!SpendsConfirmed'
      /\ Btc!RequestsLimited'
  BY <1>1 DEF Btc!IInv, Btc!OutputsMined, Btc!RecordedIsPaid, Btc!RejectedOnlyAfterBlock, Btc!SpendsConfirmed,
     Btc!RequestsLimited
<1>9. Btc!ScanIsFresh'
  BY <1>6 DEF Btc!ScanIsFresh
<1>10. Btc!PaidInOrder'
  <2>1. \A p \in accepted : p.req.id \in Nat /\ p.req.id <= btcStarted
    BY DEF Btc!IInv, Btc!PaidInOrder
  <2>2. \A p \in accepted' : p.req.id \in Nat /\ p.req.id <= btcStarted' /\ p.req.id # btcStarted'
    BY <1>1, <1>4, <2>1
  <2>3. btcJob' # Btc!NoJob => btcJob'.req.id = btcStarted'
    BY <1>1, <1>3, <1>5
  <2>4. (btcJob # Btc!NoJob)' <=> btcJob' # Btc!NoJob
    BY DEF Btc!NoJob
  <2> QED BY <1>6, <2>2, <2>3, <2>4 DEF Btc!PaidInOrder
<1>11. Btc!CheckedLimit'
  <2>1. IsFiniteSet(btcRecords) /\ \A r \in btcRecords : r.at \in 0..btcNow
    BY BtcSets DEF Btc!IInv, Btc!CheckedLimit
  <2>2. ASSUME btcJob' # Btc!NoJob
        PROVE  /\ \A r \in btcRecords : r.at <= btcJob'.req.at
               /\ (Cardinality(Btc!Within(btcJob.req)) < TriggerCount)'
    <3> DEFINE rows == {r \in btcRecords : r.address = a}
    <3>1. Btc!LastRequests(a) = LatestRows(rows)
      BY BtcSets, BtcCardinality DEF Btc!LastRequests, LatestRows
    <3>2. ~(Cardinality({r \in LatestRows(rows) : btcNow - r.at <= Window}) >= TriggerCount)
      BY <1>5, <2>2, <3>1, BtcCardinality DEF Btc!Limited
    <3>3. IsFiniteSet(rows) /\ \A r \in rows : r.at \in Nat /\ r.at <= MaxTime
      BY <1>4, <2>1, Constants, FS_Subset
    <3>4. Btc!Within(req) = {r \in rows : btcNow - r.at <= Window}
      BY <1>3, <1>4, <2>1 DEF Btc!Within
    <3>5. Cardinality({r \in rows : btcNow - r.at <= Window}) < TriggerCount
      <4> HIDE DEF rows
      <4> QED BY <1>4, <3>2, <3>3, Constants, LatestSuffice
    <3>6. Cardinality(Btc!Within(req)) < TriggerCount
      BY <3>4, <3>5
    <3> HIDE DEF rows
    <3>7. (Cardinality(Btc!Within(btcJob.req)) < TriggerCount)'
      BY <1>1, <1>5, <2>2, <3>6 DEF Btc!Within
    <3> QED BY <1>3, <1>4, <1>5, <2>1, <2>2, <3>7
  <2>3. (btcJob # Btc!NoJob)' <=> btcJob' # Btc!NoJob
    BY DEF Btc!NoJob
  <2> QED BY <1>1, <2>1, <2>2, <2>3, BtcSets, BtcCardinality DEF Btc!CheckedLimit
<1> QED BY <1>7, <1>8, <1>9, <1>10, <1>11 DEF Btc!IInv

(* The job ends without another payment.                                    *)
LEMMA BtcJobEnds ==
  ASSUME Btc!IInv, btcJob' = Btc!NoJob,
         UNCHANGED <<btcNow, btcRecords, btcStarted, height, unspents, btcMempool, mined, accepted>>
  PROVE  /\ Btc!JobShape' /\ Btc!OutputsMined' /\ Btc!ScanIsFresh' /\ Btc!PaidInOrder' /\ Btc!CheckedLimit'
         /\ Btc!RecordedIsPaid' /\ Btc!SpendsConfirmed' /\ Btc!RequestsLimited'
<1>1. btcJob'.phase = "none" /\ Btc!NoJob' = Btc!NoJob
  BY DEF Btc!NoJob
<1>2. Btc!JobShape'
  BY <1>1 DEF Btc!IInv, Btc!JobShape
<1>3. Btc!OutputsMined' /\ Btc!RecordedIsPaid' /\ Btc!SpendsConfirmed'
  BY DEF Btc!IInv, Btc!OutputsMined, Btc!RecordedIsPaid, Btc!SpendsConfirmed
<1>4. Btc!ScanIsFresh' /\ Btc!PaidInOrder'
  BY <1>1 DEF Btc!IInv, Btc!ScanIsFresh, Btc!PaidInOrder
<1>5. Btc!CheckedLimit' /\ Btc!RequestsLimited'
  BY BtcLimitKept
<1> QED BY <1>2, <1>3, <1>4, <1>5

(* The job goes on without a payment: what is left to show is what it read. *)
LEMMA BtcJobMoves ==
  ASSUME Btc!IInv, btcJob.phase \notin {"none", "insert"}, Btc!JobShape', btcJob'.req = btcJob.req,
         btcJob'.phase \notin {"none", "insert"},
         UNCHANGED <<btcNow, btcRecords, btcStarted, height, unspents, btcMempool, accepted, rejected>>
  PROVE  /\ Btc!OutputsMined' /\ Btc!PaidInOrder' /\ Btc!CheckedLimit' /\ Btc!RejectedOnlyAfterBlock'
         /\ Btc!RecordedIsPaid' /\ Btc!SpendsConfirmed' /\ Btc!RequestsLimited'
<1>1. btcJob # Btc!NoJob
  BY DEF Btc!NoJob
<1>2. Btc!OutputsMined' /\ Btc!RecordedIsPaid' /\ Btc!RejectedOnlyAfterBlock' /\ Btc!SpendsConfirmed'
  BY DEF Btc!IInv, Btc!OutputsMined, Btc!RecordedIsPaid, Btc!RejectedOnlyAfterBlock, Btc!SpendsConfirmed
<1>3. Btc!PaidInOrder'
  BY <1>1 DEF Btc!IInv, Btc!PaidInOrder
<1>4. Btc!CheckedLimit' /\ Btc!RequestsLimited'
  BY <1>1, BtcLimitKept
<1> QED BY <1>2, <1>3, <1>4

LEMMA BtcScan ==
  ASSUME Btc!IInv, Btc!ScanTxOutSet
  PROVE  Btc!IInv'
<1>1. /\ btcJob.phase = "scan" /\ mined' = 0
      /\ btcJob' = [btcJob EXCEPT !.phase = "mempool", !.scan = unspents, !.scanHeight = height]
      /\ UNCHANGED <<btcNow, btcRecords, btcStarted, height, unspents, btcMempool, accepted, rejected>>
  BY DEF Btc!ScanTxOutSet, Btc!requestVars, Btc!nodeVars
<1>2. btcJob # Btc!NoJob /\ Btc!IsJob(btcJob)
  BY <1>1, BtcJobShape DEF Btc!IInv
<1>3. btcJob' = [phase |-> "mempool", req |-> btcJob.req, scan |-> unspents, scanHeight |-> height,
                 spent |-> btcJob.spent, inputs |-> btcJob.inputs]
  BY <1>1, <1>2 DEF Btc!IsJob
<1>4. /\ btcJob'.phase = "mempool" /\ btcJob'.req = btcJob.req /\ btcJob'.scan = unspents
      /\ btcJob'.scanHeight = height
  BY <1>3
<1>5. Btc!JobShape'
  <2>1. btcJob.req.id = btcStarted /\ btcJob.req.at \in Nat /\ btcJob.req.at <= btcNow
    BY <1>2 DEF Btc!IsJob
  <2>2. Btc!IsJob(btcJob)'
    BY <1>1, <1>3, <1>4, <2>1 DEF Btc!IsJob
  <2> QED BY <1>1, <2>2 DEF Btc!IInv, Btc!JobShape
<1>6. Btc!ScanIsFresh'
  <2>1. height \in Nat /\ height <= height /\ \A o \in unspents : o.height \in Nat \ {0}
    BY DEF Btc!IInv, Btc!OutputsMined, Btc!JobShape
  <2> QED BY <1>1, <1>4, <2>1 DEF Btc!ScanIsFresh
<1> QED BY <1>1, <1>4, <1>5, <1>6, BtcJobMoves DEF Btc!IInv

LEMMA BtcReadMempool ==
  ASSUME Btc!IInv, Btc!ReadMempool
  PROVE  Btc!IInv'
<1> DEFINE spent == UNION {tx.inputs : tx \in btcMempool}
<1>1. /\ btcJob.phase = "mempool" /\ btcJob' = [btcJob EXCEPT !.phase = "select", !.spent = spent]
      /\ UNCHANGED <<btcNow, btcRecords, btcStarted, height, unspents, btcMempool, mined, accepted, rejected>>
  BY DEF Btc!ReadMempool, Btc!requestVars, Btc!nodeVars
<1>2. btcJob # Btc!NoJob /\ Btc!IsJob(btcJob)
  BY <1>1, BtcJobShape DEF Btc!IInv
<1>3. spent' = spent
  BY <1>1
<1> HIDE DEF spent
<1>4. btcJob' = [phase |-> "select", req |-> btcJob.req, scan |-> btcJob.scan, scanHeight |-> btcJob.scanHeight,
                 spent |-> spent, inputs |-> btcJob.inputs]
  BY <1>1, <1>2 DEF Btc!IsJob
<1>5. /\ btcJob'.phase = "select" /\ btcJob'.req = btcJob.req /\ btcJob'.scan = btcJob.scan
      /\ btcJob'.scanHeight = btcJob.scanHeight /\ btcJob'.spent = spent
  BY <1>4
<1>6. Btc!JobShape'
  BY <1>1, <1>4, BtcJobGoesOn DEF Btc!IInv
<1>7. Btc!ScanIsFresh'
  BY <1>1, <1>3, <1>5 DEF Btc!IInv, Btc!ScanIsFresh, spent
<1> QED BY <1>1, <1>5, <1>6, <1>7, BtcJobMoves DEF Btc!IInv

LEMMA BtcSelect ==
  ASSUME Btc!IInv, Btc!SelectInputs
  PROVE  Btc!IInv'
<1>1. /\ btcJob.phase = "select"
      /\ \E s \in Btc!CoinSelect(Btc!Spendable(btcJob)) : btcJob' = [btcJob EXCEPT !.phase = "send", !.inputs = s]
      /\ UNCHANGED <<btcNow, btcRecords, btcStarted, height, unspents, btcMempool, mined, accepted, rejected>>
  BY DEF Btc!SelectInputs, Btc!requestVars, Btc!nodeVars
<1>2. PICK s \in Btc!CoinSelect(Btc!Spendable(btcJob)) : btcJob' = [btcJob EXCEPT !.phase = "send", !.inputs = s]
  BY <1>1
<1>3. s \subseteq Btc!Spendable(btcJob)
  BY DEF Btc!CoinSelect
<1>4. btcJob # Btc!NoJob /\ Btc!IsJob(btcJob)
  BY <1>1, BtcJobShape DEF Btc!IInv
<1>5. btcJob' = [phase |-> "send", req |-> btcJob.req, scan |-> btcJob.scan, scanHeight |-> btcJob.scanHeight,
                 spent |-> btcJob.spent, inputs |-> s]
  BY <1>2, <1>4 DEF Btc!IsJob
<1>6. /\ btcJob'.phase = "send" /\ btcJob'.req = btcJob.req /\ btcJob'.scan = btcJob.scan
      /\ btcJob'.scanHeight = btcJob.scanHeight /\ btcJob'.spent = btcJob.spent /\ btcJob'.inputs = s
  BY <1>5
<1>7. Btc!JobShape'
  BY <1>1, <1>5, BtcJobGoesOn DEF Btc!IInv
<1>8. Btc!ScanIsFresh'
  <2>1. Btc!Spendable(btcJob)' = Btc!Spendable(btcJob)
    BY <1>6 DEF Btc!Spendable
  <2>2. btcJob'.inputs \subseteq Btc!Spendable(btcJob)'
    BY <1>3, <1>6, <2>1
  <2> QED BY <1>1, <1>6, <2>2 DEF Btc!IInv, Btc!ScanIsFresh
<1> QED BY <1>1, <1>6, <1>7, <1>8, BtcJobMoves DEF Btc!IInv

(* What bitcoind takes has confirmations: the job scanned it at most at the *)
(* height at which it is sent.                                              *)
LEMMA BtcInputsConfirmed ==
  ASSUME Btc!BtcFaucetAssumption, Btc!IInv, btcJob.phase = "send", NEW o \in btcJob.inputs
  PROVE  o.height > 0 /\ height - o.height > MinConfirmations
<1>1. o \in btcJob.scan /\ btcJob.scanHeight - o.height > MinConfirmations
  BY DEF Btc!IInv, Btc!ScanIsFresh, Btc!Spendable
<1>2. btcJob.scanHeight \in Nat /\ btcJob.scanHeight <= height /\ o.height \in Nat \ {0}
  BY <1>1 DEF Btc!IInv, Btc!ScanIsFresh
<1>3. height \in Nat /\ MinConfirmations \in Nat
  BY DEF Btc!IInv, Btc!JobShape, Btc!BtcFaucetAssumption
<1> QED BY <1>1, <1>2, <1>3

(* ... and without a block since the scan nothing else has spent it.        *)
LEMMA BtcInputsFree ==
  ASSUME Btc!IInv, btcJob.phase = "send", mined = 0
  PROVE  Btc!Admitted(btcJob.inputs)
<1>1. /\ btcJob.scan = unspents /\ btcJob.spent = UNION {tx.inputs : tx \in btcMempool}
      /\ btcJob.inputs \subseteq Btc!Spendable(btcJob)
  BY DEF Btc!IInv, Btc!ScanIsFresh
<1>2. \A o \in btcJob.inputs : o \in unspents /\ \A tx \in btcMempool : o \notin tx.inputs
  BY <1>1 DEF Btc!Spendable
<1> QED BY <1>2 DEF Btc!Admitted

(* bitcoind takes the payment, and the job goes on or ends.                 *)
LEMMA BtcAccept ==
  ASSUME Btc!BtcFaucetAssumption, Btc!IInv, btcJob.phase = "send", Btc!Accept,
         \/ btcJob' = Btc!NoJob
         \/ btcJob' = [btcJob EXCEPT !.phase = "insert"],
         UNCHANGED <<btcNow, btcRecords, btcStarted, height, unspents, mined, rejected>>
  PROVE  Btc!IInv'
<1> DEFINE pay == [req |-> btcJob.req, inputs |-> btcJob.inputs, sentAt |-> height]
           tx == [id |-> btcJob.req.id, inputs |-> btcJob.inputs, change |-> Btc!Change(btcJob)]
<1>1. btcMempool' = btcMempool \cup {tx} /\ accepted' = accepted \cup {pay}
  BY DEF Btc!Accept
<1>2. btcJob # Btc!NoJob /\ Btc!IsJob(btcJob) /\ btcJob.req.id = btcStarted
  BY BtcJobShape DEF Btc!IInv
<1>3. pay.req = btcJob.req /\ pay.inputs = btcJob.inputs /\ pay.sentAt = height
  OBVIOUS
<1>4. tx.change = Btc!Change(btcJob)
  OBVIOUS
<1> HIDE DEF pay, tx
<1>5. \A o \in tx.change : o = [tx |-> o.tx, value |-> o.value, height |-> 0]
  BY <1>4 DEF Btc!Change
<1>6. Btc!OutputsMined'
  BY <1>1, <1>5 DEF Btc!IInv, Btc!OutputsMined
<1>7. \/ btcJob' = Btc!NoJob /\ btcJob'.phase = "none"
      \/ /\ btcJob' = [phase |-> "insert", req |-> btcJob.req, scan |-> btcJob.scan,
                       scanHeight |-> btcJob.scanHeight, spent |-> btcJob.spent, inputs |-> btcJob.inputs]
         /\ btcJob'.phase = "insert" /\ btcJob'.req = btcJob.req
  <2>1. CASE btcJob' = Btc!NoJob
    BY <2>1 DEF Btc!NoJob
  <2>2. CASE btcJob' = [btcJob EXCEPT !.phase = "insert"]
    <3>1. btcJob' = [phase |-> "insert", req |-> btcJob.req, scan |-> btcJob.scan,
                     scanHeight |-> btcJob.scanHeight, spent |-> btcJob.spent, inputs |-> btcJob.inputs]
      BY <1>2, <2>2 DEF Btc!IsJob
    <3> QED BY <3>1
  <2> QED BY <2>1, <2>2
<1>8. Btc!JobShape'
  <2>1. CASE btcJob' = Btc!NoJob
    BY <2>1 DEF Btc!IInv, Btc!JobShape, Btc!NoJob
  <2>2. CASE btcJob'.phase = "insert"
    BY <1>7, <2>2, BtcJobGoesOn DEF Btc!IInv
  <2> QED BY <1>7, <2>1, <2>2
<1>9. Btc!ScanIsFresh'
  BY <1>7 DEF Btc!ScanIsFresh
<1>10. \A p \in accepted : p.req.id # btcJob.req.id
  BY <1>2 DEF Btc!IInv, Btc!PaidInOrder
<1>11. Btc!PaidInOrder'
  <2>1. \A p \in accepted' : p.req.id \in Nat /\ p.req.id <= btcStarted'
    BY <1>1, <1>2, <1>3 DEF Btc!IInv, Btc!PaidInOrder, Btc!JobShape
  <2>2. btcJob'.phase = "insert" => \E p \in accepted' : p.req = btcJob'.req
    BY <1>1, <1>3, <1>7
  <2>3. (btcJob # Btc!NoJob)' => btcJob'.phase = "insert"
    BY <1>7 DEF Btc!NoJob
  <2> QED BY <2>1, <2>2, <2>3 DEF Btc!PaidInOrder
<1>12. Btc!CheckedLimit' /\ Btc!RequestsLimited'
  BY <1>2, <1>7, BtcLimitKept
<1>13. Btc!RecordedIsPaid'
  <2>1. \A r \in btcRecords' : \E p \in accepted' : p.req = r
    BY <1>1 DEF Btc!IInv, Btc!RecordedIsPaid
  <2>2. \A p, q \in accepted : p.req.id = q.req.id => p = q
    BY DEF Btc!IInv, Btc!RecordedIsPaid
  <2>3. \A p, q \in accepted' : p.req.id = q.req.id => p = q
    BY <1>1, <1>3, <1>10, <2>2
  <2> QED BY <2>1, <2>3 DEF Btc!RecordedIsPaid
<1>14. Btc!SpendsConfirmed'
  <2>1. \A o \in pay.inputs : o.height > 0 /\ pay.sentAt - o.height > MinConfirmations
    BY <1>3, BtcInputsConfirmed
  <2> QED BY <1>1, <2>1 DEF Btc!IInv, Btc!SpendsConfirmed
<1>15. Btc!RejectedOnlyAfterBlock'
  BY DEF Btc!IInv, Btc!RejectedOnlyAfterBlock
<1> QED BY <1>6, <1>8, <1>9, <1>11, <1>12, <1>13, <1>14, <1>15 DEF Btc!IInv

LEMMA BtcRejected ==
  ASSUME Btc!IInv, Btc!SendRejected
  PROVE  Btc!IInv'
<1>1. /\ btcJob.phase = "send" /\ ~Btc!Admitted(btcJob.inputs) /\ btcJob' = Btc!NoJob
      /\ rejected' = rejected \cup {mined}
      /\ UNCHANGED <<btcNow, btcRecords, btcStarted, height, unspents, btcMempool, mined, accepted>>
  BY DEF Btc!SendRejected, Btc!requestVars, Btc!nodeVars
<1>2. mined # 0
  BY <1>1, BtcInputsFree
<1>3. Btc!RejectedOnlyAfterBlock'
  BY <1>1, <1>2 DEF Btc!IInv, Btc!RejectedOnlyAfterBlock
<1> QED BY <1>1, <1>3, BtcJobEnds DEF Btc!IInv

LEMMA BtcEnds ==
  ASSUME Btc!IInv, btcJob' = Btc!NoJob,
         UNCHANGED <<btcNow, btcRecords, btcStarted, height, unspents, btcMempool, mined, accepted, rejected>>
  PROVE  Btc!IInv'
<1>1. Btc!RejectedOnlyAfterBlock'
  BY DEF Btc!IInv, Btc!RejectedOnlyAfterBlock
<1> QED BY <1>1, BtcJobEnds DEF Btc!IInv

(* insertFaucetRequest.  The rows of the window are those of the check and  *)
(* the new one.                                                             *)
LEMMA BtcInsert ==
  ASSUME Btc!IInv, Btc!InsertFaucetRequest
  PROVE  Btc!IInv'
<1> DEFINE req == btcJob.req
           Near(rows, r) == {q \in rows : q.address = r.address /\ q.at <= r.at /\ r.at - q.at <= Window}
<1>1. /\ btcJob.phase = "insert" /\ btcJob' = Btc!NoJob /\ btcRecords' = btcRecords \cup {req}
      /\ UNCHANGED <<btcNow, btcStarted, height, unspents, btcMempool, mined, accepted, rejected>>
  BY DEF Btc!InsertFaucetRequest, Btc!nodeVars
<1>2. btcJob # Btc!NoJob /\ req.at \in Nat /\ req.at <= btcNow
  BY <1>1, BtcJobShape DEF Btc!IInv
<1>3. /\ IsFiniteSet(btcRecords) /\ \A r \in btcRecords : r.at \in 0..btcNow /\ r.at <= req.at
      /\ Cardinality(Near(btcRecords, req)) < TriggerCount
  BY <1>2, BtcSets, BtcCardinality DEF Btc!IInv, Btc!CheckedLimit, Btc!Within
<1>4. btcNow \in Nat /\ TriggerCount \in Nat /\ Window \in Nat
  BY Constants DEF Btc!IInv, Btc!JobShape
<1>5. \A r \in btcRecords : Cardinality(Near(btcRecords, r)) <= TriggerCount
  BY BtcCardinality DEF Btc!IInv, Btc!RequestsLimited
<1>6. \A r \in btcRecords \cup {req} : r.at \in Nat /\ r.at <= req.at /\ r.at \in 0..btcNow
  BY <1>2, <1>3, <1>4
<1>7. \E p \in accepted : p.req = req
  BY <1>1 DEF Btc!IInv, Btc!PaidInOrder
<1> HIDE DEF req
<1>8. Cardinality(Near(btcRecords', req)) <= TriggerCount
  <2> DEFINE S == Near(btcRecords, req)
  <2>1. Near(btcRecords', req) = S \cup {req}
    BY <1>1, <1>4, <1>6
  <2>2. IsFiniteSet(S)
    BY <1>3, FS_Subset
  <2>3. Cardinality(S) < TriggerCount
    BY <1>3
  <2> HIDE DEF S, Near
  <2>4. Cardinality(S) \in Nat
    BY <2>2, FS_CardinalityType
  <2>5. Cardinality(S \cup {req}) = IF req \in S THEN Cardinality(S) ELSE Cardinality(S) + 1
    BY <2>2, FS_AddElement
  <2>6. Cardinality(S \cup {req}) = Cardinality(S) \/ Cardinality(S \cup {req}) = Cardinality(S) + 1
    BY <2>5
  <2> QED BY <1>4, <2>1, <2>3, <2>4, <2>6
<1>9. ASSUME NEW r \in btcRecords' PROVE Cardinality(Near(btcRecords', r)) <= TriggerCount
  <2>1. CASE r = req
    BY <1>8, <2>1
  <2>2. CASE r # req /\ r.address = req.address /\ r.at = req.at
    <3>1. Near(btcRecords', r) = Near(btcRecords', req)
      BY <2>2
    <3> HIDE DEF Near
    <3> QED BY <1>8, <3>1
  <2>3. CASE r # req /\ ~(r.address = req.address /\ r.at = req.at)
    <3>1. r \in btcRecords /\ ~(req.address = r.address /\ req.at <= r.at)
      <4>1. r \in btcRecords
        BY <1>1, <2>3
      <4>2. r.at \in Nat /\ req.at \in Nat /\ r.at <= req.at
        BY <1>2, <1>6, <4>1
      <4> QED BY <2>3, <4>1, <4>2
    <3>2. Near(btcRecords', r) = Near(btcRecords, r)
      BY <1>1, <3>1
    <3> HIDE DEF Near
    <3> QED BY <1>5, <3>1, <3>2
  <2> QED BY <2>1, <2>2, <2>3
<1>10. Btc!RequestsLimited'
  BY <1>9, BtcCardinality DEF Btc!RequestsLimited
<1>11. btcJob'.phase = "none" /\ Btc!NoJob' = Btc!NoJob
  BY <1>1 DEF Btc!NoJob
<1>12. Btc!CheckedLimit'
  <2>1. IsFiniteSet(btcRecords')
    BY <1>1, <1>3, FS_AddElement
  <2>2. \A r \in btcRecords' : r.at \in 0..btcNow'
    BY <1>1, <1>6
  <2> QED BY <1>1, <1>11, <2>1, <2>2, BtcSets DEF Btc!CheckedLimit
<1>13. Btc!RecordedIsPaid'
  BY <1>1, <1>7 DEF Btc!IInv, Btc!RecordedIsPaid
<1>14. Btc!JobShape' /\ Btc!OutputsMined' /\ Btc!RejectedOnlyAfterBlock' /\ Btc!SpendsConfirmed'
  BY <1>1, <1>11 DEF Btc!IInv, Btc!JobShape, Btc!OutputsMined, Btc!RejectedOnlyAfterBlock, Btc!SpendsConfirmed
<1>15. Btc!ScanIsFresh' /\ Btc!PaidInOrder'
  BY <1>1, <1>11 DEF Btc!IInv, Btc!ScanIsFresh, Btc!PaidInOrder
<1> QED BY <1>10, <1>12, <1>13, <1>14, <1>15 DEF Btc!IInv

LEMMA BtcTick ==
  ASSUME Btc!IInv, Btc!Tick
  PROVE  Btc!IInv'
<1>1. /\ btcNow < MaxTime /\ btcNow' = btcNow + 1
      /\ UNCHANGED <<btcRecords, btcStarted, btcJob, height, unspents, btcMempool, mined, accepted, rejected>>
  BY DEF Btc!Tick, Btc!nodeVars
<1>2. btcNow \in Nat /\ btcNow' \in 0..MaxTime /\ btcNow <= btcNow'
  BY <1>1, Constants DEF Btc!IInv, Btc!JobShape
<1>3. Btc!JobShape'
  <2>1. ASSUME Btc!IsJob(btcJob) PROVE Btc!IsJob(btcJob)'
    <3>1. btcJob.req.at \in Nat /\ btcJob.req.at <= btcNow'
      BY <1>1, <1>2, <2>1 DEF Btc!IsJob
    <3> QED BY <1>1, <2>1, <3>1 DEF Btc!IsJob
  <2> QED BY <1>1, <1>2, <2>1 DEF Btc!IInv, Btc!JobShape, Btc!NoJob
<1>4. Btc!OutputsMined' /\ Btc!RecordedIsPaid' /\ Btc!RejectedOnlyAfterBlock' /\ Btc!SpendsConfirmed'
  BY <1>1 DEF Btc!IInv, Btc!OutputsMined, Btc!RecordedIsPaid, Btc!RejectedOnlyAfterBlock, Btc!SpendsConfirmed
<1>5. Btc!ScanIsFresh' /\ Btc!PaidInOrder'
  BY <1>1 DEF Btc!IInv, Btc!ScanIsFresh, Btc!Spendable, Btc!PaidInOrder, Btc!NoJob
<1>6. Btc!CheckedLimit' /\ Btc!RequestsLimited'
  BY <1>1, BtcLimitKept
<1> QED BY <1>3, <1>4, <1>5, <1>6 DEF Btc!IInv

(* A block: what was scanned before it is stale, and mined says so.         *)
LEMMA BtcMine ==
  ASSUME Btc!IInv, NEW txs \in SUBSET btcMempool, Btc!Mine(txs)
  PROVE  Btc!IInv'
<1>1. /\ height' = height + 1 /\ btcMempool' = btcMempool \ txs /\ mined' = mined + 1
      /\ unspents' = (unspents \ UNION {tx.inputs : tx \in txs})
                       \cup {[o EXCEPT !.height = height + 1] : o \in UNION {tx.change : tx \in txs}}
      /\ UNCHANGED <<btcNow, btcRecords, btcStarted, btcJob, accepted, rejected>>
  BY DEF Btc!Mine, Btc!requestVars
<1>2. height \in Nat /\ mined \in Nat /\ height' \in Nat /\ mined' \in Nat /\ mined' # 0
  BY <1>1 DEF Btc!IInv, Btc!JobShape
<1>3. Btc!JobShape'
  BY <1>1, <1>2 DEF Btc!IInv, Btc!JobShape, Btc!IsJob, Btc!NoJob
<1>4. Btc!OutputsMined'
  <2>1. ASSUME NEW tx \in txs, NEW o \in tx.change PROVE [o EXCEPT !.height = height + 1].height = height + 1
    <3>1. o = [tx |-> o.tx, value |-> o.value, height |-> 0]
      BY <2>1 DEF Btc!IInv, Btc!OutputsMined
    <3> QED BY <3>1
  <2>2. \A o \in unspents : o.height \in 1..height
    BY DEF Btc!IInv, Btc!OutputsMined
  <2>3. height + 1 \in 1..(height + 1) /\ \A k \in 1..height : k \in 1..(height + 1)
    BY <1>2
  <2>4. ASSUME NEW u \in unspents' PROVE u.height \in 1..(height + 1)
    <3>1. CASE u \in unspents
      BY <2>2, <2>3, <3>1
    <3>2. CASE u \notin unspents
      <4>1. PICK tx \in txs : \E o \in tx.change : u = [o EXCEPT !.height = height + 1]
        BY <1>1, <2>4, <3>2
      <4>2. PICK o \in tx.change : u = [o EXCEPT !.height = height + 1]
        BY <4>1
      <4> QED BY <2>1, <2>3, <4>2
    <3> QED BY <3>1, <3>2
  <2>5. \A tx \in btcMempool' : \A o \in tx.change : o = [tx |-> o.tx, value |-> o.value, height |-> 0]
    BY <1>1 DEF Btc!IInv, Btc!OutputsMined
  <2> QED BY <1>1, <2>4, <2>5 DEF Btc!OutputsMined
<1>5. Btc!ScanIsFresh'
  <2>1. \A k \in Nat : k <= height => k <= height'
    BY <1>1, <1>2
  <2> QED BY <1>1, <1>2, <2>1 DEF Btc!IInv, Btc!ScanIsFresh, Btc!Spendable
<1>6. Btc!PaidInOrder' /\ Btc!RecordedIsPaid' /\ Btc!RejectedOnlyAfterBlock' /\ Btc!SpendsConfirmed'
  BY <1>1 DEF Btc!IInv, Btc!PaidInOrder, Btc!RecordedIsPaid, Btc!RejectedOnlyAfterBlock, Btc!SpendsConfirmed,
     Btc!NoJob
<1>7. Btc!CheckedLimit' /\ Btc!RequestsLimited'
  <2>1. btcJob' = Btc!NoJob \/ (btcJob # Btc!NoJob /\ btcJob'.req = btcJob.req)
    BY <1>1
  <2> QED BY <1>1, <2>1, BtcLimitKept
<1> QED BY <1>3, <1>4, <1>5, <1>6, <1>7 DEF Btc!IInv

LEMMA BtcStep ==
  ASSUME Btc!BtcFaucetAssumption
  PROVE  Btc!IInv /\ [Btc!Next]_Btc!vars => Btc!IInv'
<1> SUFFICES ASSUME Btc!IInv, [Btc!Next]_Btc!vars PROVE Btc!IInv'
  OBVIOUS
<1>1. ASSUME NEW a \in Address, Btc!Start(a) PROVE Btc!IInv'
  BY <1>1, BtcStart
<1>2. CASE Btc!NotEnough
  <2>1. btcJob' = Btc!NoJob /\
        UNCHANGED <<btcNow, btcRecords, btcStarted, height, unspents, btcMempool, mined, accepted, rejected>>
    BY <1>2 DEF Btc!NotEnough, Btc!requestVars, Btc!nodeVars
  <2> QED BY <2>1, BtcEnds
<1>3. CASE Btc!Send
  <2>1. /\ btcJob.phase = "send" /\ Btc!Accept /\ btcJob' = [btcJob EXCEPT !.phase = "insert"]
        /\ UNCHANGED <<btcNow, btcRecords, btcStarted, height, unspents, mined, rejected>>
    BY <1>3 DEF Btc!Send, Btc!requestVars
  <2> QED BY <2>1, BtcAccept
<1>4. CASE Btc!JobStep
  BY <1>2, <1>3, <1>4, BtcScan, BtcReadMempool, BtcSelect, BtcRejected, BtcInsert DEF Btc!JobStep
<1>5. CASE Btc!Tick
  BY <1>5, BtcTick
<1>6. ASSUME NEW txs \in SUBSET btcMempool, Btc!Mine(txs) PROVE Btc!IInv'
  BY <1>6, BtcMine
<1>7. CASE Btc!Fail
  <2>1. /\ btcJob' = Btc!NoJob
        /\ UNCHANGED <<btcNow, btcRecords, btcStarted, height, unspents, mined, rejected>>
        /\ UNCHANGED <<btcMempool, accepted>> \/ (btcJob.phase = "send" /\ Btc!Accept)
    BY <1>7 DEF Btc!Fail, Btc!requestVars
  <2> QED BY <2>1, BtcEnds, BtcAccept
<1>8. CASE UNCHANGED Btc!vars
  <2>1. UNCHANGED <<btcNow, btcRecords, btcStarted, btcJob, height, unspents, btcMempool, mined, accepted, rejected>>
    BY <1>8 DEF Btc!vars, Btc!requestVars, Btc!nodeVars
  <2>2. Btc!CheckedLimit' /\ Btc!RequestsLimited'
    <3>1. btcJob' = Btc!NoJob \/ (btcJob # Btc!NoJob /\ btcJob'.req = btcJob.req)
      BY <2>1
    <3> QED BY <2>1, <3>1, BtcLimitKept
  <2> QED BY <2>1, <2>2 DEF Btc!IInv, Btc!JobShape, Btc!IsJob, Btc!OutputsMined, Btc!ScanIsFresh, Btc!Spendable,
            Btc!PaidInOrder, Btc!NoJob, Btc!RecordedIsPaid, Btc!RejectedOnlyAfterBlock, Btc!SpendsConfirmed
<1> QED BY <1>1, <1>4, <1>5, <1>6, <1>7, <1>8 DEF Btc!Next

(* The BTC faucet's invariant holds throughout, for any coins, amounts and  *)
(* fees.                                                                    *)
THEOREM BtcInvariant ==
  ASSUME Btc!BtcFaucetAssumption
  PROVE  Btc!Spec => []Btc!IInv
<1>1. Btc!Init => Btc!IInv
  BY BtcInit
<1>2. Btc!IInv /\ [Btc!Next]_Btc!vars => Btc!IInv'
  BY BtcStep
<1> QED BY <1>1, <1>2, PTL DEF Btc!Spec

(* bitcoind refuses a payment of makeBtcFaucetPayment only when a block was *)
(* mined between the scan of the outputs and the send, and a payment spends *)
(* outputs with more than MinConfirmations confirmations only: although the *)
(* outputs and the mempool are read in two calls and bitcoind mines between *)
(* any two.                                                                 *)
THEOREM BtcSpendsFreeCoins ==
  ASSUME Btc!BtcFaucetAssumption
  PROVE  Btc!Spec => [](Btc!RejectedOnlyAfterBlock /\ Btc!SpendsConfirmed)
<1>1. Btc!IInv => Btc!RejectedOnlyAfterBlock /\ Btc!SpendsConfirmed
  BY DEF Btc!IInv
<1> QED BY <1>1, BtcInvariant, PTL

(* A recorded request was paid, none is paid twice, and no more than        *)
(* TriggerCount recorded requests of an address fall into any window: the   *)
(* record comes last, whatever fails before it.                             *)
THEOREM BtcPaysOnce ==
  ASSUME Btc!BtcFaucetAssumption
  PROVE  Btc!Spec => [](Btc!RecordedIsPaid /\ Btc!RequestsLimited)
<1>1. Btc!IInv => Btc!RecordedIsPaid /\ Btc!RequestsLimited
  BY DEF Btc!IInv
<1> QED BY <1>1, BtcInvariant, PTL
=============================================================================
