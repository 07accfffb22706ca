---------------------- MODULE RosettaConstructionProofs ----------------------
(***************************************************************************)
(* Proofs about RosettaConstruction, for every set of sessions, intents and *)
(* fee rates: IInv is inductive, so what is mined is what a client asked    *)
(* for, /parse gives the operations back, and the node refuses a payment    *)
(* only when another one of the account came between.                       *)
(***************************************************************************)
EXTENDS RosettaConstruction, FiniteSetTheorems, SequenceTheorems, TLAPS

USE DEF Sent

-----------------------------------------------------------------------------
(* Operations.                                                              *)
LEMMA OpsAreList ==
  ASSUME NEW i \in Intents
  PROVE  /\ Len(i.ops) \in Nat /\ DOMAIN i.ops = 1..Len(i.ops)
         /\ \A n \in DOMAIN i.ops : i.ops[n].amount \in Int \cup {None}
BY RosettaAssumption, LenProperties

(* At most four operations have a last one among any of them.               *)
LEMMA LastExists ==
  ASSUME NEW at \in SUBSET (1..4), at # {}
  PROVE  \E j \in at : \A k \in at : k <= j
<1>1. CASE 4 \in at
  BY <1>1
<1>2. CASE 4 \notin at /\ 3 \in at
  BY <1>2
<1>3. CASE 4 \notin at /\ 3 \notin at /\ 2 \in at
  BY <1>3
<1>4. CASE 4 \notin at /\ 3 \notin at /\ 2 \notin at
  <2>1. \A k \in at : k = 1
    BY <1>4
  <2>2. PICK j \in at : TRUE
    OBVIOUS
  <2>3. j = 1 /\ \A k \in at : k <= 1
    BY <2>1
  <2> QED BY <2>3
<1> QED BY <1>1, <1>2, <1>3, <1>4

LEMMA LastOfMember ==
  ASSUME NEW ops, NEW at \in SUBSET (1..4), at # {}
  PROVE  \E j \in at : LastOf(ops, at) = ops[j] /\ \A k \in at : k <= j
<1> DEFINE j == CHOOSE i \in at : \A k \in at : k <= i
<1>1. j \in at /\ \A k \in at : k <= j
  BY LastExists
<1>2. LastOf(ops, at) = ops[j]
  BY DEF LastOf
<1> HIDE DEF j
<1> QED BY <1>1, <1>2

(* An operation in front moves the others on.                               *)
IsShift(ops, more, n, at, on) ==
  /\ n \in 0..3 /\ at \in SUBSET (1..n) /\ on \in SUBSET (1..(n + 1)) /\ 1 \notin on
  /\ \A i \in 1..n : more[i + 1] = ops[i] /\ (i + 1 \in on <=> i \in at)

LEMMA Shifted ==
  ASSUME NEW ops, NEW more, NEW n, NEW at, NEW on, IsShift(ops, more, n, at, on)
  PROVE  LastOf(more, on) = LastOf(ops, at)
<1> USE DEF IsShift
<1>1. CASE at = {}
  <2>1. on = {}
    <3> SUFFICES ASSUME NEW k \in on PROVE FALSE
      OBVIOUS
    <3>1. k - 1 \in 1..n /\ (k - 1) + 1 = k
      OBVIOUS
    <3> QED BY <1>1, <3>1
  <2> QED BY <1>1, <2>1 DEF LastOf
<1>2. CASE at # {}
  <2>1. at \in SUBSET (1..4) /\ on \in SUBSET (1..4)
    OBVIOUS
  <2>2. PICK j \in at : LastOf(ops, at) = ops[j] /\ \A k \in at : k <= j
    BY <1>2, <2>1, LastOfMember
  <2>3. j \in 1..n /\ j + 1 \in on
    OBVIOUS
  <2>4. on # {}
    BY <2>3
  <2>5. PICK m \in on : LastOf(more, on) = more[m] /\ \A k \in on : k <= m
    BY <2>1, <2>4, LastOfMember
  <2>6. m - 1 \in 1..n /\ (m - 1) + 1 = m
    OBVIOUS
  <2>7. m - 1 \in at
    BY <2>6
  <2>8. m = j + 1
    <3>1. m - 1 <= j /\ j + 1 <= m /\ m \in Int /\ j \in Int
      BY <2>2, <2>3, <2>5, <2>7
    <3> QED BY <3>1
  <2> QED BY <2>2, <2>3, <2>5, <2>8
<1> QED BY <1>1, <1>2

(* What the options are, when no operation spoils them.                     *)
LEMMA OptionsOf ==
  ASSUME NEW ops, getOptionsFromOperations(ops) # None
  PROVE  /\ \A i \in DOMAIN ops : ~Refuses(ops[i])
         /\ getOptionsFromOperations(ops) =
              [type |-> LastOf(ops, {i \in DOMAIN ops : NamesSender(ops[i])}).type,
               sender |-> LastOf(ops, {i \in DOMAIN ops : NamesSender(ops[i])}).account,
               recipient |-> LastOf(ops, {i \in DOMAIN ops : NamesRecipient(ops[i])}).account,
               amount |-> Value(LastOf(ops, {i \in DOMAIN ops : NamesAmount(ops[i])})),
               fee |-> LastOf(ops, {i \in DOMAIN ops : ops[i].type = "fee"}).amount]
BY DEF getOptionsFromOperations

(* The suggested fee in front of operations without one changes nothing but *)
(* the fee.                                                                 *)
LEMMA WithFee ==
  ASSUME NEW i \in Intents, NEW fee, fee.type = "fee", Len(i.ops) <= 3, ~NamesFee(i.ops),
         NEW more, more = <<fee>> \o i.ops,
         getOptionsFromOperations(more) # None, getOptionsFromOperations(i.ops) # None
  PROVE  /\ getOptionsFromOperations(more)
              = [getOptionsFromOperations(i.ops) EXCEPT !.fee = fee.amount]
         /\ getOptionsFromOperations(i.ops).fee = None
<1> DEFINE ops == i.ops
           n == Len(ops)
           senders(s) == {k \in DOMAIN s : NamesSender(s[k])}
           recipients(s) == {k \in DOMAIN s : NamesRecipient(s[k])}
           amounts(s) == {k \in DOMAIN s : NamesAmount(s[k])}
           fees(s) == {k \in DOMAIN s : s[k].type = "fee"}
<1>1. n \in 0..3 /\ DOMAIN ops = 1..n /\ n \in Nat
  <2>1. n \in Nat /\ DOMAIN ops = 1..n /\ n <= 3
    BY OpsAreList
  <2> HIDE DEF n, ops
  <2> QED BY <2>1
<1>2. DOMAIN more = 1..(n + 1) /\ more[1] = fee /\ \A k \in 1..n : more[k + 1] = ops[k]
  <2> DEFINE S == {ops[k] : k \in DOMAIN ops} \cup {fee}
  <2>1. ops \in Seq({ops[k] : k \in DOMAIN ops})
    BY RosettaAssumption
  <2>2. ops \in Seq(S) /\ <<fee>> \in Seq(S) /\ Len(<<fee>>) = 1 /\ <<fee>>[1] = fee
    <3>1. {ops[k] : k \in DOMAIN ops} \subseteq S /\ fee \in S
      OBVIOUS
    <3> HIDE DEF S
    <3>2. ops \in Seq(S)
      BY <2>1, <3>1, SeqMonotonic
    <3> QED BY <3>1, <3>2
  <2> HIDE DEF S
  <2>3. more \in Seq(S) /\ Len(more) = 1 + n
        /\ \A k \in 1..(1 + n) : more[k] = IF k <= 1 THEN <<fee>>[k] ELSE ops[k - 1]
    BY <2>2, ConcatProperties
  <2>4. DOMAIN more = 1..(n + 1)
    BY <1>1, <2>3, LenProperties
  <2>5. more[1] = fee
    BY <1>1, <2>2, <2>3
  <2>6. \A k \in 1..n : more[k + 1] = ops[k]
    <3> TAKE k \in 1..n
    <3>1. k + 1 \in 1..(1 + n) /\ ~(k + 1 <= 1) /\ (k + 1) - 1 = k
      BY <1>1
    <3> QED BY <2>3, <3>1
  <2> QED BY <2>4, <2>5, <2>6
<1>3. ~NamesSender(fee) /\ ~NamesRecipient(fee) /\ ~NamesAmount(fee)
  BY DEF NamesSender, NamesRecipient, NamesAmount, Stacking
<1>4. \A k \in 1..n : k + 1 \in 1..(n + 1)
  BY <1>1
<1>5. LastOf(more, senders(more)) = LastOf(ops, senders(ops))
  <2>1. 1 \notin senders(more) /\ \A k \in 1..n : k + 1 \in senders(more) <=> k \in senders(ops)
    BY <1>1, <1>2, <1>3, <1>4
  <2>2. senders(more) \in SUBSET (1..(n + 1)) /\ senders(ops) \in SUBSET (1..n)
    BY <1>1, <1>2
  <2> DEFINE at == senders(ops)
             on == senders(more)
  <2> HIDE DEF senders, n, ops
  <2>3. at \in SUBSET (1..n) /\ on \in SUBSET (1..(n + 1)) /\ 1 \notin on
        /\ \A k \in 1..n : k + 1 \in on <=> k \in at
    BY <2>1, <2>2
  <2>4. n \in 0..3 /\ \A k \in 1..n : more[k + 1] = ops[k]
    BY <1>1, <1>2
  <2> HIDE DEF at, on
  <2>5. IsShift(ops, more, n, at, on)
    BY <2>3, <2>4 DEF IsShift
  <2>6. LastOf(more, on) = LastOf(ops, at)
    BY <2>5, Shifted
  <2> QED BY <2>6 DEF at, on
<1>6. LastOf(more, recipients(more)) = LastOf(ops, recipients(ops))
  <2>1. 1 \notin recipients(more) /\ \A k \in 1..n : k + 1 \in recipients(more) <=> k \in recipients(ops)
    BY <1>1, <1>2, <1>3, <1>4
  <2>2. recipients(more) \in SUBSET (1..(n + 1)) /\ recipients(ops) \in SUBSET (1..n)
    BY <1>1, <1>2
  <2> DEFINE at == recipients(ops)
             on == recipients(more)
  <2> HIDE DEF recipients, n, ops
  <2>3. at \in SUBSET (1..n) /\ on \in SUBSET (1..(n + 1)) /\ 1 \notin on
        /\ \A k \in 1..n : k + 1 \in on <=> k \in at
    BY <2>1, <2>2
  <2>4. n \in 0..3 /\ \A k \in 1..n : more[k + 1] = ops[k]
    BY <1>1, <1>2
  <2> HIDE DEF at, on
  <2>5. IsShift(ops, more, n, at, on)
    BY <2>3, <2>4 DEF IsShift
  <2>6. LastOf(more, on) = LastOf(ops, at)
    BY <2>5, Shifted
  <2> QED BY <2>6 DEF at, on
<1>7. LastOf(more, amounts(more)) = LastOf(ops, amounts(ops))
  <2>1. 1 \notin amounts(more) /\ \A k \in 1..n : k + 1 \in amounts(more) <=> k \in amounts(ops)
    BY <1>1, <1>2, <1>3, <1>4
  <2>2. amounts(more) \in SUBSET (1..(n + 1)) /\ amounts(ops) \in SUBSET (1..n)
    BY <1>1, <1>2
  <2> DEFINE at == amounts(ops)
             on == amounts(more)
  <2> HIDE DEF amounts, n, ops
  <2>3. at \in SUBSET (1..n) /\ on \in SUBSET (1..(n + 1)) /\ 1 \notin on
        /\ \A k \in 1..n : k + 1 \in on <=> k \in at
    BY <2>1, <2>2
  <2>4. n \in 0..3 /\ \A k \in 1..n : more[k + 1] = ops[k]
    BY <1>1, <1>2
  <2> HIDE DEF at, on
  <2>5. IsShift(ops, more, n, at, on)
    BY <2>3, <2>4 DEF IsShift
  <2>6. LastOf(more, on) = LastOf(ops, at)
    BY <2>5, Shifted
  <2> QED BY <2>6 DEF at, on
<1>8. LastOf(more, fees(more)) = fee
  <2>1. 1 \in fees(more)
    BY <1>1, <1>2
  <2>2. \A k \in fees(more) : k = 1
    <3> TAKE k \in fees(more)
    <3>1. CASE k # 1
      <4>1. k - 1 \in 1..n /\ (k - 1) + 1 = k
        BY <1>1, <1>2, <3>1
      <4>2. ops[k - 1].type = "fee"
        BY <1>2, <4>1
      <4> QED BY <1>1, <4>1, <4>2 DEF NamesFee
    <3> QED BY <3>1
  <2> HIDE DEF fees
  <2>3. fees(more) \in SUBSET (1..4) /\ fees(more) # {}
    BY <2>1, <2>2
  <2>4. PICK j \in fees(more) : LastOf(more, fees(more)) = more[j]
    BY <2>3, LastOfMember
  <2> QED BY <1>2, <2>2, <2>4
<1>9. LastOf(ops, fees(ops)).amount = None
  <2>1. fees(ops) = {}
    BY DEF NamesFee
  <2> QED BY <2>1 DEF LastOf, NoOp, Op
<1> DEFINE o == getOptionsFromOperations(ops)
           O == getOptionsFromOperations(more)
<1>10. o = [type |-> LastOf(ops, senders(ops)).type, sender |-> LastOf(ops, senders(ops)).account,
            recipient |-> LastOf(ops, recipients(ops)).account,
            amount |-> Value(LastOf(ops, amounts(ops))), fee |-> LastOf(ops, fees(ops)).amount]
  BY OptionsOf
<1>11. O = [type |-> LastOf(more, senders(more)).type, sender |-> LastOf(more, senders(more)).account,
            recipient |-> LastOf(more, recipients(more)).account,
            amount |-> Value(LastOf(more, amounts(more))), fee |-> LastOf(more, fees(more)).amount]
  BY OptionsOf
<1> HIDE DEF senders, recipients, amounts, fees, o, O
<1>12. O = [o EXCEPT !.fee = fee.amount] /\ o.fee = None
  BY <1>5, <1>6, <1>7, <1>8, <1>9, <1>10, <1>11
<1> QED BY <1>12 DEF o, O

(* The amount of operations that pass is natural, their fee an integer, and *)
(* their sender an account.                                                 *)
LEMMA OptionTypes ==
  ASSUME NEW i \in Intents, PreprocessError(i.ops) = None
  PROVE  LET o == getOptionsFromOperations(i.ops)
         IN  /\ Len(i.ops) <= 3 /\ o # None /\ o.type # None
             /\ o.amount \in Nat /\ o.fee \in Int \cup {None}
             /\ o.sender.id \in Accounts
             /\ o = [type |-> o.type, sender |-> o.sender, recipient |-> o.recipient,
                     amount |-> o.amount, fee |-> o.fee]
<1> DEFINE ops == i.ops
           o == getOptionsFromOperations(ops)
           senders == {k \in DOMAIN ops : NamesSender(ops[k])}
           amounts == {k \in DOMAIN ops : NamesAmount(ops[k])}
           fees == {k \in DOMAIN ops : ops[k].type = "fee"}
<1>1. /\ ~(Len(ops) > 3) /\ o # None /\ o.type # None /\ o.amount # None
      /\ \A k \in DOMAIN ops : ops[k].amount # None
  BY RosettaAssumption DEF PreprocessError, Errors
<1>2. Len(ops) \in Nat /\ DOMAIN ops = 1..Len(ops) /\ \A k \in DOMAIN ops : ops[k].amount \in Int \cup {None}
  BY OpsAreList
<1>3. Len(ops) <= 3 /\ DOMAIN ops \in SUBSET (1..4)
  BY <1>1, <1>2
<1>4. /\ o.type = LastOf(ops, senders).type /\ o.sender = LastOf(ops, senders).account
      /\ o.amount = Value(LastOf(ops, amounts)) /\ o.fee = LastOf(ops, fees).amount
      /\ o = [type |-> o.type, sender |-> o.sender, recipient |-> o.recipient,
              amount |-> o.amount, fee |-> o.fee]
      /\ \A k \in DOMAIN ops : ~Refuses(ops[k])
  <2>1. /\ \A k \in DOMAIN ops : ~Refuses(ops[k])
        /\ o = [type |-> LastOf(ops, senders).type, sender |-> LastOf(ops, senders).account,
                recipient |-> LastOf(ops, {k \in DOMAIN ops : NamesRecipient(ops[k])}).account,
                amount |-> Value(LastOf(ops, amounts)), fee |-> LastOf(ops, fees).amount]
    <3>1. getOptionsFromOperations(i.ops) # None
      BY <1>1
    <3> QED BY <3>1, OptionsOf
  <2> HIDE DEF o, senders, amounts, fees
  <2> QED BY <2>1
<1>5. senders \in SUBSET (1..4) /\ amounts \in SUBSET (1..4) /\ fees \in SUBSET (1..4)
  BY <1>3
<1>6. NoOp.type = None /\ NoOp.amount = None /\ NoOp.account = None
  BY DEF NoOp, Op
<1>7. o.sender.id \in Accounts
  <2>1. senders # {}
    BY <1>1, <1>4, <1>6 DEF LastOf
  <2>2. PICK j \in senders : LastOf(ops, senders) = ops[j]
    BY <1>5, <2>1, LastOfMember
  <2>3. j \in DOMAIN ops
    OBVIOUS
  <2>4. o.sender.id \in {ops[n].account.id : n \in DOMAIN ops}
    BY <1>4, <2>2, <2>3
  <2> HIDE DEF o
  <2> QED BY <2>4 DEF Accounts
<1>8. o.amount \in Nat
  <2>1. amounts # {}
    <3>1. ASSUME amounts = {} PROVE FALSE
      <4>1. LastOf(ops, amounts) = NoOp
        BY <3>1 DEF LastOf
      <4>2. Value(NoOp) = None
        BY <1>6 DEF Value
      <4> QED BY <1>1, <1>4, <4>1, <4>2
    <3> QED BY <3>1
  <2>2. PICK j \in amounts : LastOf(ops, amounts) = ops[j]
    BY <1>5, <2>1, LastOfMember
  <2>3. j \in DOMAIN ops /\ NamesAmount(ops[j])
    OBVIOUS
  <2>4. ops[j].amount \in Int /\ ~Refuses(ops[j])
    BY <1>1, <1>2, <1>4, <2>3
  <2>5. CASE ops[j].type \in Stacking
    <3>1. ~(ops[j].amount > 0)
      BY <1>1, <2>3, <2>4, <2>5 DEF Refuses
    <3>2. o.amount = -ops[j].amount
      BY <1>1, <1>4, <2>2, <2>3, <2>5 DEF Value
    <3> QED BY <2>4, <3>1, <3>2
  <2>6. CASE ops[j].type \notin Stacking
    <3>1. ops[j].amount >= 0
      BY <2>3, <2>6 DEF NamesAmount, NamesRecipient
    <3>2. o.amount = ops[j].amount
      BY <1>4, <2>2, <2>6 DEF Value
    <3> QED BY <2>4, <3>1, <3>2
  <2> QED BY <2>5, <2>6
<1>9. o.fee \in Int \cup {None}
  <2>1. CASE fees = {}
    BY <1>4, <1>6, <2>1 DEF LastOf
  <2>2. CASE fees # {}
    <3>1. PICK j \in fees : LastOf(ops, fees) = ops[j]
      BY <1>5, <2>2, LastOfMember
    <3>2. j \in DOMAIN ops
      OBVIOUS
    <3> QED BY <1>2, <1>4, <3>1, <3>2
  <2> QED BY <2>1, <2>2
<1> QED BY <1>1, <1>3, <1>4, <1>7, <1>8, <1>9

-----------------------------------------------------------------------------
(* The transaction that a session holds.                                    *)
LEMMA BuiltOptions ==
  ASSUME NEW r, OpsKept(r), BuiltFrom(r)
  PROVE  LET o == getOptionsFromOperations(r.intent.ops)
         IN  /\ r.tx.sender = r.intent.key /\ r.tx.nonce = r.nonce /\ r.nonce \in Nat
             /\ r.tx.recipient = o.recipient /\ o.recipient # None
             /\ r.tx.amount = o.amount /\ o.amount \in Nat
             /\ r.tx.fee = (IF o.fee # None THEN Abs(o.fee) ELSE r.suggested) /\ r.tx.fee \in Nat
             /\ o.fee = None => r.ops = <<FeeOp(r)>> \o r.intent.ops /\ r.suggested \in Nat
             /\ o.fee # None => r.ops = r.intent.ops /\ o.fee \in Int
<1> DEFINE o == getOptionsFromOperations(r.intent.ops)
           O == getOptionsFromOperations(r.ops)
<1>1. r.intent \in Intents /\ r.nonce \in Nat \cup {None} /\ PreprocessError(r.intent.ops) = None
  BY DEF OpsKept, BuiltFrom
<1>2. /\ Len(r.intent.ops) <= 3 /\ o # None /\ o.amount \in Nat /\ o.fee \in Int \cup {None}
      /\ o = [type |-> o.type, sender |-> o.sender, recipient |-> o.recipient, amount |-> o.amount, fee |-> o.fee]
  BY <1>1, OptionTypes
<1>3. O # None /\ O.amount # None /\ O.fee # None /\ O.recipient # None /\ r.nonce # None
  BY RosettaAssumption DEF BuiltFrom, PayloadsError, Errors
<1>4. /\ r.tx.sender = r.intent.key /\ r.tx.nonce = r.nonce /\ r.tx.recipient = O.recipient
      /\ r.tx.amount = O.amount /\ r.tx.fee = Abs(O.fee)
  BY DEF BuiltFrom, makeUnsigned
<1>5. CASE r.ops = r.intent.ops
  <2>1. O = o
    BY <1>5
  <2>2. o.fee \in Int /\ r.tx.fee = Abs(o.fee) /\ o.fee # None
    BY <1>2, <1>3, <1>4, <2>1
  <2>3. Abs(o.fee) \in Nat
    <3> HIDE DEF o
    <3> QED BY <2>2 DEF Abs
  <2> HIDE DEF o, O
  <2> QED BY <1>1, <1>2, <1>3, <1>4, <1>5, <2>1, <2>2, <2>3 DEF o
<1>6. CASE r.ops # r.intent.ops
  <2>1. ~NamesFee(r.intent.ops) /\ r.suggested \in Nat /\ r.ops = <<FeeOp(r)>> \o r.intent.ops
    BY <1>6 DEF OpsKept
  <2>2. FeeOp(r).type = "fee" /\ FeeOp(r).amount = -r.suggested
    BY DEF FeeOp, Op
  <2>3. O = [o EXCEPT !.fee = FeeOp(r).amount] /\ o.fee = None
    <3> DEFINE i == r.intent
               fee == FeeOp(r)
               more == r.ops
    <3>1. i \in Intents /\ fee.type = "fee" /\ Len(i.ops) <= 3 /\ ~NamesFee(i.ops) /\ more = <<fee>> \o i.ops
          /\ getOptionsFromOperations(more) # None /\ getOptionsFromOperations(i.ops) # None
      BY <1>1, <1>2, <1>3, <2>1, <2>2
    <3> HIDE DEF i, fee, more
    <3>2. getOptionsFromOperations(more) = [getOptionsFromOperations(i.ops) EXCEPT !.fee = fee.amount]
          /\ getOptionsFromOperations(i.ops).fee = None
      BY <3>1, WithFee
    <3> QED BY <3>2 DEF i, fee, more
  <2> HIDE DEF o, O
  <2>4. O.recipient = o.recipient /\ O.amount = o.amount /\ O.fee = -r.suggested
    BY <1>2, <2>2, <2>3
  <2>5. Abs(-r.suggested) = r.suggested
    BY <2>1 DEF Abs
  <2> QED BY <1>1, <1>2, <1>3, <1>4, <2>1, <2>3, <2>4, <2>5 DEF o
<1> QED BY <1>5, <1>6

(* One session goes on, and the node stands still.                          *)
LEMMA SessionStep ==
  ASSUME IInv, NEW s \in Session, NEW held, Go(s, held), UNCHANGED node,
         session[s].pc \notin Sent,
         OpsKept(held), TxKept(held),
         raced' \in [Session -> BOOLEAN], \A o \in Session \ {s} : raced'[o] = raced[o],
         held.pc \in Reading /\ ~raced'[s] =>
           /\ \A t \in mempool : t.sender # held.intent.key
           /\ Consistent(held.intent) => held.nonce = nonces[held.intent.key],
         Consistent(held.intent) /\ held.error = "refused" =>
           raced'[s] \/ held.tx.signature.over # makeSigHashPreSign(held.tx),
         faults' \in 0..MaxFaults
  PROVE  IInv'
<1>1. /\ session' = [x \in Session |-> session'[x]] /\ session'[s] = held
      /\ \A o \in Session \ {s} : session'[o] = session[o]
  BY DEF IInv, Go
<1>2. nonces' = nonces /\ mempool' = mempool /\ mined' = mined
  BY DEF node
<1>3. \A x \in Session : (OpsKept(session[x]) /\ TxKept(session[x]))'
  BY <1>1 DEF IInv
<1>4. \A x \in Session : NonceStillNext(x)'
  <2> TAKE x \in Session
  <2>1. CASE x = s
    BY <1>1, <1>2, <2>1 DEF NonceStillNext
  <2>2. CASE x # s
    <3>1. session'[x] = session[x] /\ raced'[x] = raced[x] /\ NonceStillNext(x)
      BY <1>1, <2>2 DEF IInv
    <3> QED BY <1>2, <3>1 DEF NonceStillNext
  <2> QED BY <2>1, <2>2
<1>5. NodeKept'
  <2>1. \A t \in mempool \cup mined : \E x \in Session : session'[x].pc \in Sent /\ session'[x].tx = t
    <3> TAKE t \in mempool \cup mined
    <3>1. PICK x \in Session : session[x].pc \in Sent /\ session[x].tx = t
      BY DEF IInv, NodeKept
    <3>2. session'[x] = session[x]
      BY <1>1, <3>1
    <3> QED BY <3>1, <3>2
  <2> QED BY <1>2, <2>1 DEF IInv, NodeKept
<1>6. RefusedOnlyIfRaced'
  BY <1>1 DEF IInv, RefusedOnlyIfRaced
<1>7. TypeOK'
  <2>1. \A x \in Session : session'[x].tx # None =>
          session'[x].tx.recipient # None
          /\ {session'[x].tx.amount, session'[x].tx.fee, session'[x].tx.nonce} \subseteq Nat
    <3> TAKE x \in Session
    <3>1. HAVE session'[x].tx # None
    <3>2. OpsKept(session'[x]) /\ BuiltFrom(session'[x])
      BY <1>3, <3>1 DEF TxKept
    <3> DEFINE r == session'[x]
    <3> HIDE DEF r
    <3>3. OpsKept(r) /\ BuiltFrom(r)
      BY <3>2 DEF r
    <3>4. r.tx.recipient # None /\ r.tx.amount \in Nat /\ r.tx.fee \in Nat /\ r.tx.nonce \in Nat
      BY <3>3, BuiltOptions
    <3> QED BY <3>4 DEF r
  <2> QED BY <1>2, <2>1 DEF IInv, TypeOK
<1> QED BY <1>1, <1>3, <1>4, <1>5, <1>6, <1>7 DEF IInv

LEMMA SameTransaction ==
  ASSUME NEW r, NEW q, q.intent = r.intent, q.ops = r.ops, q.nonce = r.nonce, q.tx = r.tx
  PROVE  BuiltFrom(q) <=> BuiltFrom(r)
BY DEF BuiltFrom

(* A request is answered with an error.                                     *)
LEMMA FailStep ==
  ASSUME IInv, NEW s \in Session, NEW e \in Errors, Fail(s, e), UNCHANGED node,
         session[s].pc \notin Sent, e = "refused" => session[s].pc = "hashed",
         raced' \in [Session -> BOOLEAN], \A o \in Session \ {s} : raced'[o] = raced[o],
         e = "refused" /\ Consistent(session[s].intent) =>
           raced'[s] \/ session[s].tx.signature.over # makeSigHashPreSign(session[s].tx),
         faults' \in 0..MaxFaults
  PROVE  IInv'
<1> DEFINE r == session[s]
           q == [r EXCEPT !.pc = "failed", !.error = e]
<1>1. OpsKept(r) /\ TxKept(r) /\ IsSession(r)
  BY DEF IInv, OpsKept
<1>2. /\ IsSession(q) /\ q.pc = "failed" /\ q.error = e /\ q.intent = r.intent /\ q.ops = r.ops
      /\ q.nonce = r.nonce /\ q.suggested = r.suggested /\ q.tx = r.tx /\ q.parsed = r.parsed
  <2>1. q = [r EXCEPT !.pc = "failed", !.error = e]
    OBVIOUS
  <2> HIDE DEF r, q
  <2> QED BY <1>1, <2>1 DEF IsSession
<1>3. Go(s, q)
  BY DEF Fail
<1>4. r.pc \notin Sent /\ (e = "refused" => r.pc = "hashed")
  OBVIOUS
<1>5. e = "refused" /\ Consistent(r.intent) => raced'[s] \/ r.tx.signature.over # makeSigHashPreSign(r.tx)
  OBVIOUS
<1> HIDE DEF r, q
<1>6. OpsKept(q)
  BY <1>1, <1>2 DEF OpsKept, FeeOp, Reading
<1>7. TxKept(q)
  <2>1. BuiltFrom(q) <=> BuiltFrom(r)
    BY <1>2, SameTransaction
  <2> QED BY <1>1, <1>2, <1>4, <2>1 DEF TxKept, Built
<1>8. q.pc \notin Reading
  BY <1>2 DEF Reading
<1> QED BY <1>2, <1>3, <1>5, <1>6, <1>7, <1>8, SessionStep

(* A request is answered: the session goes on to its next call.             *)
LEMMA CheckStep ==
  ASSUME IInv, NEW s \in Session, NEW e \in (Errors \ {"refused"}) \cup {None}, NEW held, Check(s, e, held),
         session[s].pc \notin Sent,
         e = None => /\ OpsKept(held) /\ TxKept(held)
                     /\ held.error = session[s].error /\ held.intent = session[s].intent
                     /\ held.nonce = session[s].nonce
                     /\ held.pc \in Reading => session[s].pc \in Reading
                     /\ session[s].pc # "failed"
  PROVE  IInv'
<1>1. UNCHANGED node /\ raced' = raced /\ raced' \in [Session -> BOOLEAN] /\ faults' \in 0..MaxFaults
  BY DEF Check, IInv, TypeOK
<1>2. CASE e # None
  BY <1>1, <1>2, FailStep DEF Check
<1>3. CASE e = None
  <2>1. NonceStillNext(s)
    BY DEF IInv
  <2>2. Go(s, held)
    BY <1>3 DEF Check
  <2>3. held.pc \in Reading /\ ~raced'[s] =>
           /\ \A t \in mempool : t.sender # held.intent.key
           /\ Consistent(held.intent) => held.nonce = nonces[held.intent.key]
    BY <1>1, <1>3, <2>1 DEF NonceStillNext
  <2>4. held.error # "refused"
    BY <1>3 DEF IInv, TxKept
  <2> QED BY <1>1, <1>3, <2>2, <2>3, <2>4, SessionStep
<1> QED BY <1>2, <1>3

-----------------------------------------------------------------------------
(* The requests.                                                            *)
LEMMA PreprocessStep == ASSUME IInv, NEW s \in Session, Preprocess(s) PROVE IInv'
<1> DEFINE r == session[s]
           q == [r EXCEPT !.pc = "preprocessed"]
           e == PreprocessError(r.ops)
<1>1. OpsKept(r) /\ TxKept(r) /\ IsSession(r) /\ r.pc = "new" /\ Check(s, e, q)
  BY DEF IInv, OpsKept, Preprocess, At
<1>2. /\ IsSession(q) /\ q.pc = "preprocessed" /\ q.error = r.error /\ q.intent = r.intent /\ q.ops = r.ops
      /\ q.nonce = r.nonce /\ q.suggested = r.suggested /\ q.tx = r.tx /\ q.parsed = r.parsed
  <2> HIDE DEF r
  <2> QED BY <1>1 DEF IsSession
<1>3. e \in (Errors \ {"refused"}) \cup {None}
  BY DEF PreprocessError, Errors
<1> HIDE DEF r, q
<1>4. ASSUME e = None PROVE OpsKept(q)
  BY <1>1, <1>2, <1>4 DEF OpsKept, FeeOp, Reading
<1>5. TxKept(q)
  <2>1. BuiltFrom(q) <=> BuiltFrom(r)
    BY <1>2, SameTransaction
  <2> QED BY <1>1, <1>2, <2>1 DEF TxKept, Built
<1>6. q.error = session[s].error /\ q.intent = session[s].intent /\ q.nonce = session[s].nonce /\ session[s].pc = "new"
      /\ q.pc \notin Reading
  BY <1>1, <1>2 DEF r, Reading
<1> HIDE DEF e
<1> QED BY <1>1, <1>3, <1>4, <1>5, <1>6, CheckStep

LEMMA MetadataNonceStep == ASSUME IInv, NEW s \in Session, MetadataNonce(s) PROVE IInv'
<1> DEFINE r == session[s]
           o == getOptionsFromOperations(r.ops)
           e == MetadataError(o)
           q == [r EXCEPT !.pc = "fee", !.nonce = nonces[o.sender.id]]
<1>1. OpsKept(r) /\ TxKept(r) /\ IsSession(r) /\ r.pc = "preprocessed" /\ r.ops = r.intent.ops
  BY DEF IInv, OpsKept, MetadataNonce, At
<1>2. /\ UNCHANGED node /\ faults' = faults /\ faults' \in 0..MaxFaults
      /\ raced' = [raced EXCEPT ![s] = \E t \in mempool : t.sender = r.intent.key]
      /\ IF e # None THEN Fail(s, e) ELSE Go(s, q)
  BY DEF IInv, TypeOK, MetadataNonce
<1>3. /\ raced' \in [Session -> BOOLEAN] /\ \A x \in Session \ {s} : raced'[x] = raced[x]
      /\ raced'[s] = \E t \in mempool : t.sender = r.intent.key
  BY <1>2 DEF IInv
<1>4. e \in Errors \cup {None} /\ e # "refused"
  BY RosettaAssumption DEF MetadataError, Errors
<1>5. CASE e # None
  BY <1>1, <1>2, <1>3, <1>4, <1>5, FailStep
<1>6. CASE e = None
  <2>1. r.intent \in Intents /\ PreprocessError(r.intent.ops) = None
    BY <1>1 DEF OpsKept
  <2>2. o.sender.id \in Accounts
    BY <1>1, <2>1, OptionTypes
  <2>3. nonces[o.sender.id] \in Nat
    BY <2>2 DEF IInv, NodeKept
  <2>4. /\ IsSession(q) /\ q.pc = "fee" /\ q.error = r.error /\ q.intent = r.intent /\ q.ops = r.ops
        /\ q.nonce = nonces[o.sender.id] /\ q.suggested = r.suggested /\ q.tx = r.tx /\ q.parsed = r.parsed
    <3> DEFINE n == nonces[o.sender.id]
    <3>1. q = [r EXCEPT !.pc = "fee", !.nonce = n]
      OBVIOUS
    <3> HIDE DEF r, q, o, n
    <3>2. IsSession(q) /\ q.pc = "fee" /\ q.error = r.error /\ q.intent = r.intent /\ q.ops = r.ops
          /\ q.nonce = n /\ q.suggested = r.suggested /\ q.tx = r.tx /\ q.parsed = r.parsed
      BY <1>1, <3>1 DEF IsSession
    <3> QED BY <3>2 DEF n
  <2>5. Go(s, q)
    BY <1>2, <1>6
  <2>6. Consistent(r.intent) => o.sender.id = r.intent.key
    BY <1>1 DEF Consistent, KeyAddress, Address
  <2>7. r.pc \notin Sent /\ session[s].pc \notin Sent
    BY <1>1
  <2> HIDE DEF r, q, o
  <2>8. OpsKept(q)
    BY <1>1, <2>1, <2>3, <2>4 DEF OpsKept, FeeOp, Reading
  <2>9. TxKept(q)
    <3> QED BY <1>1, <2>4 DEF TxKept, Built
  <2>10. q.error # "refused"
    BY <1>1, <2>4 DEF TxKept
  <2>11. ~raced'[s] => \A t \in mempool : t.sender # q.intent.key
    BY <1>3, <2>4
  <2>12. Consistent(q.intent) => q.nonce = nonces[q.intent.key]
    BY <2>4, <2>6
  <2> QED BY <1>2, <1>3, <2>5, <2>7, <2>8, <2>9, <2>10, <2>11, <2>12, SessionStep
<1> QED BY <1>5, <1>6

LEMMA MetadataFeeStep == ASSUME IInv, NEW s \in Session, NEW rate \in Rates, MetadataFee(s, rate) PROVE IInv'
<1> DEFINE r == session[s]
           sum == rate * Size
           q == [r EXCEPT !.pc = "metadata", !.suggested = sum]
           e == IF rate = 0 THEN "invalidFee" ELSE None
<1>1. OpsKept(r) /\ TxKept(r) /\ IsSession(r) /\ r.pc = "fee" /\ Check(s, e, q)
  BY DEF IInv, OpsKept, MetadataFee, At
<1>2. sum \in Nat
  BY RosettaAssumption
<1>3. e \in (Errors \ {"refused"}) \cup {None}
  BY DEF Errors
<1> HIDE DEF sum
<1>4. /\ IsSession(q) /\ q.pc = "metadata" /\ q.error = r.error /\ q.intent = r.intent /\ q.ops = r.ops
      /\ q.nonce = r.nonce /\ q.suggested = sum /\ q.tx = r.tx /\ q.parsed = r.parsed
  <2>1. q = [r EXCEPT !.pc = "metadata", !.suggested = sum]
    OBVIOUS
  <2> HIDE DEF r, q
  <2> QED BY <1>1, <2>1 DEF IsSession
<1>5. q.error = session[s].error /\ q.intent = session[s].intent /\ q.nonce = session[s].nonce /\ session[s].pc = "fee"
      /\ session[s].pc \in Reading
  BY <1>1, <1>4 DEF Reading
<1> HIDE DEF r, q
<1>6. OpsKept(q)
  <2>1. r.ops = r.intent.ops /\ PreprocessError(r.intent.ops) = None
    BY <1>1 DEF OpsKept, Reading
  <2> QED BY <1>1, <1>2, <1>4, <2>1 DEF OpsKept
<1>7. TxKept(q)
  BY <1>1, <1>4 DEF TxKept, Built
<1> HIDE DEF e
<1> QED BY <1>1, <1>3, <1>5, <1>6, <1>7, CheckStep

LEMMA NodeFaultStep == ASSUME IInv, NEW s \in Session, NodeFault(s) PROVE IInv'
<1>1. "unreachable" \in Errors /\ Fail(s, "unreachable") /\ UNCHANGED node /\ session[s].pc \notin Sent
  BY DEF Errors, NodeFault, node
<1>2. raced' \in [Session -> BOOLEAN] /\ \A o \in Session \ {s} : raced'[o] = raced[o]
  BY DEF NodeFault, IInv
<1>3. faults' \in 0..MaxFaults
  BY RosettaAssumption DEF NodeFault, IInv, TypeOK
<1> QED BY <1>1, <1>2, <1>3, FailStep

LEMMA SetFeeStep == ASSUME IInv, NEW s \in Session, SetFee(s) PROVE IInv'
<1> DEFINE r == session[s]
           more == IF NamesFee(r.ops) THEN r.ops ELSE <<FeeOp(r)>> \o r.ops
           q == [r EXCEPT !.pc = "priced", !.ops = more]
<1>1. OpsKept(r) /\ TxKept(r) /\ IsSession(r) /\ r.pc = "metadata"
  BY DEF IInv, OpsKept, SetFee, At
<1>2. Check(s, None, q)
  BY DEF SetFee, Check
<1>3. /\ IsSession(q) /\ q.pc = "priced" /\ q.error = r.error /\ q.intent = r.intent /\ q.ops = more
      /\ q.nonce = r.nonce /\ q.suggested = r.suggested /\ q.tx = r.tx /\ q.parsed = r.parsed
  <2>1. q = [r EXCEPT !.pc = "priced", !.ops = more]
    OBVIOUS
  <2> HIDE DEF r, more, q
  <2> QED BY <1>1, <2>1 DEF IsSession
<1>4. q.error = session[s].error /\ q.intent = session[s].intent /\ q.nonce = session[s].nonce
      /\ session[s].pc = "metadata" /\ session[s].pc \in Reading
  BY <1>1, <1>3 DEF Reading
<1> HIDE DEF r, q
<1>5. OpsKept(q)
  <2>1. r.ops = r.intent.ops /\ PreprocessError(r.intent.ops) = None /\ r.suggested \in Nat
    BY <1>1 DEF OpsKept, Reading
  <2>2. FeeOp(q) = FeeOp(r)
    BY <1>3 DEF FeeOp
  <2> QED BY <1>1, <1>3, <2>1, <2>2 DEF OpsKept
<1>6. TxKept(q)
  BY <1>1, <1>3 DEF TxKept, Built
<1> QED BY <1>2, <1>4, <1>5, <1>6, CheckStep

LEMMA PayloadsStep == ASSUME IInv, NEW s \in Session, Payloads(s) PROVE IInv'
<1> DEFINE r == session[s]
           e == PayloadsError(r.ops, r.nonce)
           tx == IF e = None THEN makeUnsigned(r.ops, r.intent.key, r.nonce) ELSE None
           q == [r EXCEPT !.pc = "unsigned", !.tx = tx]
<1>1. OpsKept(r) /\ TxKept(r) /\ IsSession(r) /\ r.pc = "priced" /\ Check(s, e, q)
  BY DEF IInv, OpsKept, Payloads, At
<1>2. e \in (Errors \ {"refused"}) \cup {None}
  BY DEF PayloadsError, Errors
<1>3. /\ IsSession(q) /\ q.pc = "unsigned" /\ q.error = r.error /\ q.intent = r.intent /\ q.ops = r.ops
      /\ q.nonce = r.nonce /\ q.suggested = r.suggested /\ q.tx = tx /\ q.parsed = r.parsed
  <2>1. q = [r EXCEPT !.pc = "unsigned", !.tx = tx]
    OBVIOUS
  <2> HIDE DEF r, tx, q
  <2> QED BY <1>1, <2>1 DEF IsSession
<1>4. q.error = session[s].error /\ q.intent = session[s].intent /\ q.nonce = session[s].nonce
      /\ session[s].pc = "priced" /\ session[s].pc \in Reading
  BY <1>1, <1>3 DEF Reading
<1> HIDE DEF r, q
<1>5. PreprocessError(r.intent.ops) = None
  BY <1>1 DEF OpsKept, Reading
<1>6. OpsKept(q)
  BY <1>1, <1>3, <1>5 DEF OpsKept, FeeOp
<1>7. ASSUME e = None PROVE TxKept(q)
  <2>1. q.tx = makeUnsigned(q.ops, q.intent.key, q.nonce)
    BY <1>3, <1>7
  <2>2. q.tx = [makeUnsigned(q.ops, q.intent.key, q.nonce) EXCEPT !.signature = q.tx.signature]
    BY <2>1 DEF makeUnsigned
  <2>3. BuiltFrom(q)
    BY <1>3, <1>5, <1>7, <2>2 DEF BuiltFrom
  <2>4. q.parsed = <<>> /\ q.error # "refused"
    BY <1>1, <1>3 DEF TxKept
  <2> QED BY <1>3, <2>3, <2>4 DEF TxKept
<1> HIDE DEF e
<1> QED BY <1>1, <1>2, <1>4, <1>6, <1>7, CheckStep

LEMMA ParseStep ==
  ASSUME IInv, NEW s \in Session, NEW from, NEW to, Parse(s, from, to),
         \/ from = "unsigned" /\ to = "checked"
         \/ from = "signed" /\ to = "parsed"
  PROVE  IInv'
<1> DEFINE r == session[s]
           ops == parseOperations(r.tx)
           signers == IF from = "signed" THEN getSigners(r.tx) ELSE <<>>
           q == [r EXCEPT !.pc = to, !.parsed = ops, !.signers = signers]
           e == IF isSignedTransaction(r.tx) # (from = "signed") THEN "invalidParams" ELSE None
<1>1. OpsKept(r) /\ TxKept(r) /\ IsSession(r) /\ r.pc = from /\ Check(s, e, q)
  BY DEF IInv, OpsKept, Parse, At
<1>2. e \in (Errors \ {"refused"}) \cup {None}
  BY DEF Errors
<1>3. /\ IsSession(q) /\ q.pc = to /\ q.error = r.error /\ q.intent = r.intent /\ q.ops = r.ops
      /\ q.nonce = r.nonce /\ q.suggested = r.suggested /\ q.tx = r.tx /\ q.parsed = ops
  <2>1. q = [r EXCEPT !.pc = to, !.parsed = ops, !.signers = signers]
    OBVIOUS
  <2> HIDE DEF r, ops, signers, q
  <2> QED BY <1>1, <2>1 DEF IsSession
<1>4. q.error = session[s].error /\ q.intent = session[s].intent /\ q.nonce = session[s].nonce
      /\ session[s].pc = from /\ from \in Reading /\ from # "failed" /\ from \notin Sent
  BY <1>1, <1>3 DEF Reading
<1> HIDE DEF r, q
<1>5. OpsKept(q)
  <2>1. PreprocessError(r.intent.ops) = None
    BY <1>1 DEF OpsKept, Reading
  <2> QED BY <1>1, <1>3, <2>1 DEF OpsKept, FeeOp
<1>6. TxKept(q)
  <2>1. BuiltFrom(q)
    <3>1. BuiltFrom(r)
      BY <1>1 DEF TxKept, Built
    <3> QED BY <1>3, <3>1, SameTransaction
  <2>2. q.error # "refused" /\ q.parsed = parseOperations(q.tx)
    BY <1>1, <1>3, <1>4 DEF TxKept
  <2>3. to = "parsed" => q.tx.signature = [key |-> q.intent.key, over |-> q.tx.signature.over]
    BY <1>1, <1>3 DEF TxKept
  <2> QED BY <1>3, <2>1, <2>2, <2>3 DEF TxKept
<1> HIDE DEF e
<1> QED BY <1>1, <1>2, <1>4, <1>5, <1>6, CheckStep

LEMMA CombineStep == ASSUME IInv, NEW s \in Session, NEW other \in Session, Combine(s, other) PROVE IInv'
<1> DEFINE r == session[s]
           signature == [key |-> r.intent.key, over |-> makeSigHashPreSign(session[other].tx)]
           tx == [r.tx EXCEPT !.signature = signature]
           q == [r EXCEPT !.pc = "signed", !.tx = tx]
<1>1. OpsKept(r) /\ TxKept(r) /\ IsSession(r) /\ r.pc = "checked" /\ Check(s, None, q)
  BY DEF IInv, OpsKept, Combine, At, verifySignature
<1>2. /\ IsSession(q) /\ q.pc = "signed" /\ q.error = r.error /\ q.intent = r.intent /\ q.ops = r.ops
      /\ q.nonce = r.nonce /\ q.suggested = r.suggested /\ q.tx = tx /\ q.parsed = r.parsed
  <2>1. q = [r EXCEPT !.pc = "signed", !.tx = tx]
    OBVIOUS
  <2> HIDE DEF r, tx, q
  <2> QED BY <1>1, <2>1 DEF IsSession
<1>3. q.error = session[s].error /\ q.intent = session[s].intent /\ q.nonce = session[s].nonce
      /\ session[s].pc = "checked" /\ session[s].pc \in Reading
  BY <1>1, <1>2 DEF Reading
<1>4. signature = [key |-> r.intent.key, over |-> signature.over]
  OBVIOUS
<1> HIDE DEF r, q, signature
<1>5. OpsKept(q)
  <2>1. PreprocessError(r.intent.ops) = None
    BY <1>1 DEF OpsKept, Reading
  <2> QED BY <1>1, <1>2, <2>1 DEF OpsKept, FeeOp
<1>6. BuiltFrom(r)
  BY <1>1 DEF TxKept, Built
<1> DEFINE unsigned == makeUnsigned(r.ops, r.intent.key, r.nonce)
<1>7. r.tx = [unsigned EXCEPT !.signature = r.tx.signature]
  BY <1>6 DEF BuiltFrom
<1>8. unsigned = [sender |-> unsigned.sender, recipient |-> unsigned.recipient, amount |-> unsigned.amount,
                  fee |-> unsigned.fee, nonce |-> unsigned.nonce, signature |-> unsigned.signature]
  BY DEF makeUnsigned
<1>9. /\ tx = [unsigned EXCEPT !.signature = signature] /\ tx.signature = signature
      /\ tx.sender = r.tx.sender /\ tx.recipient = r.tx.recipient /\ tx.amount = r.tx.amount /\ tx.fee = r.tx.fee
  <2> HIDE DEF unsigned
  <2> QED BY <1>7, <1>8
<1> HIDE DEF tx
<1>10. BuiltFrom(q)
  BY <1>2, <1>6, <1>9 DEF BuiltFrom
<1>11. TxKept(q)
  <2>1. q.parsed # <<>> => q.parsed = parseOperations(q.tx)
    BY <1>1, <1>2, <1>9 DEF TxKept, parseOperations
  <2>2. q.error # "refused"
    BY <1>1, <1>2 DEF TxKept
  <2>3. q.tx.signature = [key |-> q.intent.key, over |-> q.tx.signature.over]
    BY <1>2, <1>4, <1>9
  <2> QED BY <1>2, <1>10, <2>1, <2>2, <2>3 DEF TxKept
<1> QED BY <1>1, <1>3, <1>5, <1>11, CheckStep

LEMMA HashStep == ASSUME IInv, NEW s \in Session, Hash(s) PROVE IInv'
<1> DEFINE r == session[s]
           q == [r EXCEPT !.pc = "hashed"]
           e == IF isSignedTransaction(r.tx) THEN None ELSE "transactionNotSigned"
<1>1. OpsKept(r) /\ TxKept(r) /\ IsSession(r) /\ r.pc = "parsed" /\ Check(s, e, q)
  BY DEF IInv, OpsKept, Hash, At
<1>2. e \in (Errors \ {"refused"}) \cup {None}
  BY DEF Errors
<1>3. /\ IsSession(q) /\ q.pc = "hashed" /\ q.error = r.error /\ q.intent = r.intent /\ q.ops = r.ops
      /\ q.nonce = r.nonce /\ q.suggested = r.suggested /\ q.tx = r.tx /\ q.parsed = r.parsed
  <2>1. q = [r EXCEPT !.pc = "hashed"]
    OBVIOUS
  <2> HIDE DEF r, q
  <2> QED BY <1>1, <2>1 DEF IsSession
<1>4. q.error = session[s].error /\ q.intent = session[s].intent /\ q.nonce = session[s].nonce
      /\ session[s].pc = "parsed" /\ session[s].pc \in Reading
  BY <1>1, <1>3 DEF Reading
<1> HIDE DEF r, q
<1>5. OpsKept(q)
  <2>1. PreprocessError(r.intent.ops) = None
    BY <1>1 DEF OpsKept, Reading
  <2> QED BY <1>1, <1>3, <2>1 DEF OpsKept, FeeOp
<1>6. TxKept(q)
  <2>1. BuiltFrom(q)
    <3>1. BuiltFrom(r)
      BY <1>1 DEF TxKept, Built
    <3> QED BY <1>3, <3>1, SameTransaction
  <2> QED BY <1>1, <1>3, <2>1 DEF TxKept
<1> HIDE DEF e
<1> QED BY <1>1, <1>2, <1>4, <1>5, <1>6, CheckStep

(* /submit, accepted: no pending transaction of another session stays       *)
(* unnoticed, whether the client learns of it or not.                       *)
LEMMA AcceptStep ==
  ASSUME IInv, NEW s \in Session, At(s, "hashed"), Admissible(session[s].tx), faults' \in 0..MaxFaults,
         NEW pc \in Sent, NEW error, error # "refused",
         Accept(s, [session[s] EXCEPT !.pc = pc, !.error = error])
  PROVE  IInv'
<1> DEFINE r == session[s]
           tx == r.tx
           q == [r EXCEPT !.pc = pc, !.error = error]
<1>1. OpsKept(r) /\ TxKept(r) /\ IsSession(r) /\ r.pc = "hashed"
  BY DEF IInv, OpsKept, At
<1>2. /\ Go(s, q) /\ mempool' = mempool \cup {tx} /\ nonces' = nonces /\ mined' = mined
      /\ raced' = [o \in Session |-> raced[o] \/ (o # s /\ session[o].intent.key = tx.sender)]
  BY DEF Accept
<1>3. /\ IsSession(q) /\ q.pc = pc /\ q.error = error /\ q.intent = r.intent /\ q.ops = r.ops
      /\ q.nonce = r.nonce /\ q.suggested = r.suggested /\ q.tx = r.tx /\ q.parsed = r.parsed
  <2>1. q = [r EXCEPT !.pc = pc, !.error = error]
    OBVIOUS
  <2> HIDE DEF r, q
  <2> QED BY <1>1, <2>1 DEF IsSession
<1>4. /\ session' = [x \in Session |-> session'[x]] /\ session'[s] = q
      /\ \A x \in Session \ {s} : session'[x] = session[x]
  BY <1>2 DEF IInv, Go
<1>5. \A t \in mempool : t.sender = tx.sender => t.nonce # tx.nonce
  BY DEF Admissible
<1>6. BuiltFrom(r)
  BY <1>1 DEF TxKept, Built
<1>7. session[s] = r
  OBVIOUS
<1> HIDE DEF r, q
<1>9. OpsKept(q) /\ TxKept(q)
  <2>1. OpsKept(q)
    BY <1>1, <1>3 DEF OpsKept, FeeOp, Reading
  <2>2. BuiltFrom(q)
    BY <1>3, <1>6, SameTransaction
  <2> QED BY <1>1, <1>3, <2>1, <2>2 DEF TxKept
<1>10. raced' \in [Session -> BOOLEAN] /\ \A x \in Session : raced[x] => raced'[x]
  <2>1. raced \in [Session -> BOOLEAN]
    BY DEF IInv
  <2> QED BY <1>2, <2>1, Zenon
<1>11. \A x \in Session : (OpsKept(session[x]) /\ TxKept(session[x]))'
  BY <1>4, <1>9 DEF IInv
<1>12. \A x \in Session : NonceStillNext(x)'
  <2> TAKE x \in Session
  <2>1. CASE x = s
    BY <1>3, <1>4, <2>1 DEF NonceStillNext, Reading
  <2>2. CASE x # s
    <3>1. session'[x] = session[x] /\ NonceStillNext(x)
      BY <1>4, <2>2 DEF IInv
    <3>2. ~raced'[x] => ~raced[x] /\ session[x].intent.key # tx.sender
      BY <1>2, <2>2
    <3> QED BY <1>2, <3>1, <3>2 DEF NonceStillNext
  <2> QED BY <2>1, <2>2
<1>13. NodeKept'
  <2>1. \A t \in mempool' \cup mined' : \E x \in Session : session'[x].pc \in Sent /\ session'[x].tx = t
    <3> TAKE t \in mempool' \cup mined'
    <3>1. CASE t = tx
      BY <1>3, <1>4, <3>1
    <3>2. CASE t # tx
      <4>1. PICK x \in Session : session[x].pc \in Sent /\ session[x].tx = t
        BY <1>2, <3>2 DEF IInv, NodeKept
      <4>2. session'[x] = session[x]
        BY <1>1, <1>4, <1>7, <4>1
      <4> QED BY <4>1, <4>2
    <3> QED BY <3>1, <3>2
  <2> QED BY <1>2, <2>1 DEF IInv, NodeKept
<1>14. RefusedOnlyIfRaced'
  <2> SUFFICES ASSUME NEW x \in Session, Consistent(session'[x].intent), session'[x].error = "refused"
               PROVE  raced'[x] \/ session'[x].tx.signature.over # makeSigHashPreSign(session'[x].tx)
    BY DEF RefusedOnlyIfRaced
  <2>1. x # s /\ session'[x] = session[x]
    BY <1>3, <1>4
  <2>2. raced[x] \/ session[x].tx.signature.over # makeSigHashPreSign(session[x].tx)
    BY <2>1 DEF IInv, RefusedOnlyIfRaced
  <2> QED BY <1>10, <2>1, <2>2
<1>15. TypeOK'
  <2>1. \A t, u \in mempool' : t.sender = u.sender /\ t.nonce = u.nonce => t = u
    BY <1>2, <1>5 DEF IInv, TypeOK
  <2>2. \A x \in Session : session'[x].tx = session[x].tx
    BY <1>3, <1>4, <1>7
  <2> QED BY <1>2, <2>1, <2>2 DEF IInv, TypeOK
<1> QED BY <1>4, <1>10, <1>11, <1>12, <1>13, <1>14, <1>15 DEF IInv

LEMMA SubmitStep == ASSUME IInv, NEW s \in Session, Submit(s), Admissible(session[s].tx) PROVE IInv'
<1> DEFINE r == session[s]
<1>1. At(s, "hashed") /\ Accept(s, [r EXCEPT !.pc = "submitted"]) /\ faults' \in 0..MaxFaults
  BY DEF Submit, IInv, TypeOK
<1>2. IsSession(r) /\ TxKept(r) /\ r.pc = "hashed"
  BY <1>1 DEF IInv, OpsKept, At
<1>3. r.error # "refused" /\ [r EXCEPT !.pc = "submitted"] = [r EXCEPT !.pc = "submitted", !.error = r.error]
  <2> HIDE DEF r
  <2> QED BY <1>2 DEF TxKept, IsSession
<1> QED BY <1>1, <1>3, AcceptStep

LEMMA SubmitUnansweredStep == ASSUME IInv, NEW s \in Session, SubmitUnanswered(s) PROVE IInv'
<1>1. faults' \in 0..MaxFaults
  BY RosettaAssumption DEF SubmitUnanswered, IInv, TypeOK
<1> QED BY <1>1, AcceptStep DEF SubmitUnanswered

(* /submit, refused: an untouched account has no reason to refuse.          *)
LEMMA RefuseStep == ASSUME IInv, NEW s \in Session, Submit(s), ~Admissible(session[s].tx) PROVE IInv'
<1> DEFINE r == session[s]
<1>1. OpsKept(r) /\ TxKept(r) /\ r.pc = "hashed" /\ r.intent \in Intents
  BY DEF IInv, OpsKept, Submit, At
<1>2. Fail(s, "refused") /\ UNCHANGED node /\ raced' = raced /\ faults' = faults
  BY DEF Submit, node
<1>3. BuiltFrom(r)
  BY <1>1 DEF TxKept, Built
<1>4. r.tx.sender = r.intent.key /\ r.tx.nonce = r.nonce /\ r.nonce \in Nat
  <2> HIDE DEF r
  <2> QED BY <1>1, <1>3, BuiltOptions
<1>5. r.tx.signature = [key |-> r.intent.key, over |-> r.tx.signature.over]
  BY <1>1 DEF TxKept
<1>6. ASSUME Consistent(r.intent), ~raced[s], r.tx.signature.over = makeSigHashPreSign(r.tx) PROVE FALSE
  <2>1. /\ \A t \in mempool : t.sender # r.intent.key
        /\ r.nonce = nonces[r.intent.key]
    BY <1>1, <1>6 DEF IInv, NonceStillNext, Reading
  <2>2. Admissible(r.tx)
    <3> HIDE DEF r
    <3>1. r.tx.signature = [key |-> r.tx.sender, over |-> makeSigHashPreSign(r.tx)]
      BY <1>4, <1>5, <1>6
    <3>2. r.tx.nonce >= nonces[r.tx.sender]
      BY <1>4, <2>1
    <3> QED BY <1>4, <2>1, <3>1, <3>2 DEF Admissible
  <2> QED BY <2>2
<1>7. "refused" \in Errors
  BY DEF Errors
<1>8. raced' \in [Session -> BOOLEAN] /\ \A o \in Session \ {s} : raced'[o] = raced[o]
  BY <1>2 DEF IInv
<1>9. faults' \in 0..MaxFaults
  BY <1>2 DEF IInv, TypeOK
<1>10. Consistent(session[s].intent) =>
         raced'[s] \/ session[s].tx.signature.over # makeSigHashPreSign(session[s].tx)
  BY <1>2, <1>6
<1>11. session[s].pc = "hashed"
  BY <1>1
<1> HIDE DEF r
<1> QED BY <1>2, <1>7, <1>8, <1>9, <1>10, <1>11, FailStep

(* The node mines: its nonces go on counting what it mined.                 *)
LEMMA MineStep == ASSUME IInv, NEW tx \in mempool, Mine(tx) PROVE IInv'
<1>1. /\ tx.nonce = nonces[tx.sender] /\ nonces' = [nonces EXCEPT ![tx.sender] = @ + 1]
      /\ mempool' = mempool \ {tx} /\ mined' = mined \cup {tx}
      /\ session' = session /\ raced' = raced /\ faults' = faults
  BY DEF Mine
<1>2. \A i \in Intents : i.key \in Accounts
  BY DEF Accounts
<1>3. PICK s \in Session : session[s].pc \in Sent /\ session[s].tx = tx
  BY DEF IInv, NodeKept
<1>4. tx.sender \in Accounts
  <2> DEFINE r == session[s]
  <2>1. OpsKept(r) /\ TxKept(r)
    BY DEF IInv
  <2>2. r.pc \in Sent /\ r.tx = tx
    BY <1>3
  <2> HIDE DEF r
  <2>3. BuiltFrom(r)
    BY <2>1, <2>2 DEF TxKept, Built
  <2>4. r.tx.sender = r.intent.key
    BY <2>1, <2>3, BuiltOptions
  <2> QED BY <1>2, <2>1, <2>2, <2>4 DEF OpsKept
<1>5. nonces \in [Accounts -> Nat] /\ IsFiniteSet(mined) /\ \A t \in mined : t.nonce < nonces[t.sender]
  BY DEF IInv, NodeKept
<1>6. nonces[tx.sender] \in Nat
  BY <1>4, <1>5
<1>7. tx \notin mined
  BY <1>1, <1>5, <1>6
<1>8. /\ nonces' \in [Accounts -> Nat] /\ nonces'[tx.sender] = nonces[tx.sender] + 1
      /\ \A k \in Accounts : k # tx.sender => nonces'[k] = nonces[k]
  BY <1>1, <1>4, <1>5, <1>6
<1>9. \A x \in Session : (OpsKept(session[x]) /\ TxKept(session[x]))'
  BY <1>1 DEF IInv
<1>10. \A x \in Session : NonceStillNext(x)'
  <2> SUFFICES ASSUME NEW x \in Session, session[x].pc \in Reading, ~raced[x]
               PROVE  /\ \A t \in mempool' : t.sender # session[x].intent.key
                      /\ Consistent(session[x].intent) => session[x].nonce = nonces'[session[x].intent.key]
    BY <1>1 DEF NonceStillNext
  <2>1. /\ \A t \in mempool : t.sender # session[x].intent.key
        /\ Consistent(session[x].intent) => session[x].nonce = nonces[session[x].intent.key]
    BY DEF IInv, NonceStillNext
  <2>2. session[x].intent.key \in Accounts
    BY <1>2 DEF IInv, OpsKept
  <2>3. nonces'[session[x].intent.key] = nonces[session[x].intent.key]
    BY <1>8, <2>1, <2>2
  <2> QED BY <1>1, <2>1, <2>3
<1>11. NodeKept'
  <2>1. IsFiniteSet(mined')
    BY <1>1, <1>5, FS_AddElement
  <2>2. \A t \in mempool' \cup mined' : \E x \in Session : session'[x].pc \in Sent /\ session'[x].tx = t
    BY <1>1 DEF IInv, NodeKept
  <2>3. \A t \in mined' : t.nonce < nonces'[t.sender]
    <3> TAKE t \in mined'
    <3>1. CASE t = tx
      BY <1>1, <1>6, <1>8, <3>1
    <3>2. CASE t # tx
      <4>1. t \in mined /\ t.nonce < nonces[t.sender]
        BY <1>1, <1>5, <3>2
      <4>2. PICK x \in Session : session[x].pc \in Sent /\ session[x].tx = t
        BY <4>1 DEF IInv, NodeKept
      <4>3. t.sender \in Accounts /\ t.nonce \in Nat
        <5> DEFINE r == session[x]
        <5>1. OpsKept(r) /\ TxKept(r)
          BY DEF IInv
        <5>2. r.pc \in Sent /\ r.tx = t
          BY <4>2
        <5> HIDE DEF r
        <5>3. BuiltFrom(r)
          BY <5>1, <5>2 DEF TxKept, Built
        <5>4. r.tx.sender = r.intent.key /\ r.tx.nonce \in Nat
          BY <5>1, <5>3, BuiltOptions
        <5> QED BY <1>2, <5>1, <5>2, <5>4 DEF OpsKept
      <4>4. nonces[t.sender] \in Nat
        BY <1>5, <4>3
      <4>5. CASE t.sender = tx.sender
        <5>1. nonces'[t.sender] = nonces[t.sender] + 1
          BY <1>8, <4>5
        <5> QED BY <4>1, <4>3, <4>4, <5>1
      <4>6. CASE t.sender # tx.sender
        BY <1>8, <4>1, <4>3, <4>6
      <4> QED BY <4>5, <4>6
    <3> QED BY <3>1, <3>2
  <2> QED BY <1>8, <2>1, <2>2, <2>3 DEF NodeKept
<1>12. RefusedOnlyIfRaced'
  BY <1>1 DEF IInv, RefusedOnlyIfRaced
<1>13. TypeOK'
  <2>1. \A k \in DOMAIN nonces' : nonces'[k] = Cardinality({t \in mined' : t.sender = k})
    <3> TAKE k \in DOMAIN nonces'
    <3> DEFINE before == {t \in mined : t.sender = k}
               after == {t \in mined' : t.sender = k}
    <3>1. k \in Accounts /\ nonces[k] = Cardinality(before)
      BY <1>5, <1>8 DEF IInv, TypeOK
    <3>2. CASE k = tx.sender
      <4>1. after = before \cup {tx} /\ tx \notin before
        BY <1>1, <1>7, <3>2
      <4>2. IsFiniteSet(before)
        BY <1>5, FS_Subset
      <4>3. Cardinality(after) = Cardinality(before) + 1
        <5> HIDE DEF before, after
        <5> QED BY <4>1, <4>2, FS_AddElement
      <4> QED BY <1>8, <3>1, <3>2, <4>3
    <3>3. CASE k # tx.sender
      <4>1. after = before
        BY <1>1, <3>3
      <4> QED BY <1>8, <3>1, <3>3, <4>1
    <3> QED BY <3>2, <3>3
  <2> QED BY <1>1, <2>1 DEF IInv, TypeOK
<1> QED BY <1>1, <1>9, <1>10, <1>11, <1>12, <1>13 DEF IInv

-----------------------------------------------------------------------------
LEMMA InitIInv == Init => IInv
<1> SUFFICES ASSUME Init PROVE IInv
  OBVIOUS
<1>1. /\ nonces = [k \in Accounts |-> 0] /\ mempool = {} /\ mined = {}
      /\ raced = [s \in Session |-> FALSE] /\ faults = 0 /\ session = [s \in Session |-> session[s]]
  BY DEF Init
<1>2. \A s \in Session : OpsKept(session[s]) /\ TxKept(session[s]) /\ NonceStillNext(s) /\ session[s].tx = None
                         /\ session[s].error = None
  <2> TAKE s \in Session
  <2> DEFINE r == session[s]
  <2>1. PICK i \in Intents :
          r = [pc |-> "new", intent |-> i, ops |-> i.ops, nonce |-> None, suggested |-> None,
               tx |-> None, parsed |-> <<>>, signers |-> <<>>, error |-> None]
    BY DEF Init
  <2> HIDE DEF r
  <2>2. OpsKept(r)
    BY <2>1 DEF OpsKept, IsSession, Reading
  <2>3. None # "refused"
    BY RosettaAssumption DEF Errors
  <2>4. TxKept(r)
    BY <2>1, <2>3 DEF TxKept, Built
  <2>5. r.pc \notin Reading
    BY <2>1 DEF Reading
  <2> QED BY <2>1, <2>2, <2>4, <2>5 DEF r, NonceStillNext
<1>3. NodeKept
  BY <1>1, FS_EmptySet DEF NodeKept
<1>4. None # "refused"
  BY RosettaAssumption DEF Errors
<1>5. RefusedOnlyIfRaced
  BY <1>2, <1>4 DEF RefusedOnlyIfRaced
<1>6. TypeOK
  <2>1. \A k \in DOMAIN nonces : nonces[k] = Cardinality({t \in mined : t.sender = k})
    <3> TAKE k \in DOMAIN nonces
    <3>1. {t \in mined : t.sender = k} = {}
      BY <1>1
    <3> QED BY <1>1, <3>1, FS_EmptySet
  <2>2. faults \in 0..MaxFaults
    BY <1>1, RosettaAssumption
  <2> QED BY <1>1, <1>2, <2>1, <2>2 DEF TypeOK
<1>7. raced \in [Session -> BOOLEAN]
  BY <1>1
<1> QED BY <1>1, <1>2, <1>3, <1>5, <1>6, <1>7 DEF IInv

LEMMA NextIInv == IInv /\ [Next]_vars => IInv'
<1> SUFFICES ASSUME IInv, [Next]_vars PROVE IInv'
  OBVIOUS
<1>1. ASSUME NEW s \in Session, Step(s) PROVE IInv'
  <2>1. CASE Preprocess(s)
    BY <2>1, PreprocessStep
  <2>2. CASE MetadataNonce(s)
    BY <2>2, MetadataNonceStep
  <2>3. CASE \E rate \in Rates : MetadataFee(s, rate)
    BY <2>3, MetadataFeeStep
  <2>4. CASE NodeFault(s)
    BY <2>4, NodeFaultStep
  <2>5. CASE SetFee(s)
    BY <2>5, SetFeeStep
  <2>6. CASE Payloads(s)
    BY <2>6, PayloadsStep
  <2>7. CASE Parse(s, "unsigned", "checked")
    BY <2>7, ParseStep
  <2>8. CASE Parse(s, "signed", "parsed")
    BY <2>8, ParseStep
  <2>9. CASE \E other \in Session : Combine(s, other)
    BY <2>9, CombineStep
  <2>10. CASE Hash(s)
    BY <2>10, HashStep
  <2>11. CASE Submit(s)
    BY <2>11, SubmitStep, RefuseStep
  <2>12. CASE SubmitUnanswered(s)
    BY <2>12, SubmitUnansweredStep
  <2> QED BY <1>1, <2>1, <2>2, <2>3, <2>4, <2>5, <2>6, <2>7, <2>8, <2>9, <2>10, <2>11, <2>12 DEF Step
<1>2. CASE \E tx \in mempool : Mine(tx)
  BY <1>2, MineStep
<1>3. CASE UNCHANGED vars
  BY <1>3 DEF vars, node, IInv, OpsKept, IsSession, TxKept, BuiltFrom, NonceStillNext, NodeKept,
              RefusedOnlyIfRaced, TypeOK, Consistent
<1> QED BY <1>1, <1>2, <1>3 DEF Next

(* A list of two operations, and one in front.                              *)
InFront(a, ops, S, all) == ops \in Seq(S) /\ Len(ops) = 2 /\ all = <<a>> \o ops

LEMMA Prepended ==
  ASSUME NEW a, NEW S, NEW ops, NEW all, InFront(a, ops, S, all)
  PROVE  Len(all) = 3 /\ DOMAIN all = 1..3 /\ all[1] = a /\ all[2] = ops[1] /\ all[3] = ops[2]
<1> DEFINE U == S \cup {a}
           one == <<a>>
<1>1. one \in Seq(U) /\ ops \in Seq(U) /\ Len(one) = 1 /\ one[1] = a /\ Len(ops) = 2
  BY DEF InFront
<1> HIDE DEF U, one
<1>2. all = one \o ops
  BY DEF InFront, one
<1>3. all \in Seq(U) /\ Len(all) = 1 + 2 /\ \A i \in 1..(1 + 2) : all[i] = IF i <= 1 THEN one[i] ELSE ops[i - 1]
  <2>1. /\ one \o ops \in Seq(U)
        /\ Len(one \o ops) = Len(one) + Len(ops)
        /\ \A i \in 1..(Len(one) + Len(ops)) :
             (one \o ops)[i] = IF i <= Len(one) THEN one[i] ELSE ops[i - Len(one)]
    BY <1>1, ConcatProperties, Zenon
  <2>2. Len(one) = 1 /\ Len(ops) = 2
    BY <1>1
  <2> QED
    BY <1>2, <2>1, <2>2, Zenon
<1>4. DOMAIN all = 1..3
  BY <1>3, LenProperties
<1>5. all[1] = one[1] /\ all[2] = ops[2 - 1] /\ all[3] = ops[3 - 1]
  BY <1>3
<1> QED BY <1>1, <1>3, <1>4, <1>5

LEMMA TwoOps == ASSUME NEW a, NEW b, NEW c PROVE <<a>> \o <<b, c>> = <<a, b, c>>
<1> DEFINE ops == <<b, c>>
           all == <<a>> \o ops
           S == {b, c}
           U == {a, b, c}
<1>1. InFront(a, ops, S, all) /\ ops[1] = b /\ ops[2] = c
  BY DEF InFront
<1>2. all \in Seq(U)
  OBVIOUS
<1> HIDE DEF ops, all, S
<1>3. Len(all) = 3 /\ all[1] = a /\ all[2] = b /\ all[3] = c
  BY <1>1, Prepended
<1> DEFINE three == <<a, b, c>>
<1>4. three \in Seq(U) /\ Len(three) = 3 /\ three[1] = a /\ three[2] = b /\ three[3] = c
  OBVIOUS
<1> HIDE DEF three, U
<1>5. \A n \in 1..Len(all) : all[n] = three[n]
  BY <1>3, <1>4
<1>6. all = three
  BY <1>2, <1>3, <1>4, <1>5, SeqEqual
<1> QED BY <1>6 DEF all, ops, three

(* A built session has its operations back, if they make one payment.       *)
LEMMA ParsedMatches ==
  ASSUME NEW r, OpsKept(r), BuiltFrom(r), Consistent(r.intent)
  PROVE  SameOperations(parseOperations(r.tx), r.ops)
<1> DEFINE i == r.intent
           o == getOptionsFromOperations(i.ops)
           payer == KeyAddress(i.key)
           pays == Op("token_transfer", payer, -o.amount, None)
           gets == Op("token_transfer", o.recipient, o.amount, None)
           fee == Op("fee", payer, -r.tx.fee, None)
<1>1. i \in Intents /\ i.ops \in Seq({i.ops[n] : n \in DOMAIN i.ops})
  BY RosettaAssumption DEF OpsKept
<1>2. /\ r.tx.sender = i.key /\ r.tx.recipient = o.recipient /\ r.tx.amount = o.amount
      /\ r.tx.fee = (IF o.fee # None THEN Abs(o.fee) ELSE r.suggested)
      /\ o.fee = None => r.ops = <<FeeOp(r)>> \o i.ops
      /\ o.fee # None => r.ops = i.ops
  BY BuiltOptions
<1>3. o.sender = payer /\ SameOperations(i.ops, Fees(o) \o Payment(o))
  BY DEF Consistent
<1>4. Payment(o) = <<pays, gets>>
  BY <1>3 DEF Payment
<1>5. parseOperations(r.tx) = <<fee, pays, gets>>
  BY <1>2 DEF parseOperations
<1>6. CASE o.fee # None
  <2>1. Fees(o) = <<fee>>
    BY <1>2, <1>3, <1>6 DEF Fees
  <2> HIDE DEF pays, gets, fee
  <2>2. Fees(o) \o Payment(o) = <<fee, pays, gets>>
    <3>1. <<fee>> \o <<pays, gets>> = <<fee, pays, gets>>
      BY TwoOps
    <3> HIDE DEF o
    <3> QED BY <1>4, <2>1, <3>1
  <2>3. SameOperations(i.ops, <<fee, pays, gets>>)
    BY <1>3, <2>2
  <2> QED BY <1>2, <1>5, <1>6, <2>3 DEF SameOperations
<1>7. CASE o.fee = None
  <2>1. Fees(o) = <<>> /\ FeeOp(r) = fee
    BY <1>2, <1>7 DEF Fees, FeeOp
  <2>2. r.ops = <<fee>> \o i.ops
    BY <1>2, <1>7, <2>1
  <2> DEFINE ops == i.ops
             all == r.ops
  <2> HIDE DEF pays, gets, fee
  <2>3. Fees(o) \o Payment(o) = <<pays, gets>>
    BY <1>4, <2>1
  <2>4. /\ SameOperations(ops, <<pays, gets>>) /\ ops \in Seq({ops[n] : n \in DOMAIN ops}) /\ all = <<fee>> \o ops
        /\ DOMAIN ops = 1..Len(ops)
    BY <1>1, <1>3, <2>2, <2>3, OpsAreList
  <2> HIDE DEF ops, all, i, o
  <2>5. Len(ops) = 2 /\ DOMAIN ops = 1..2 /\ {ops[n] : n \in DOMAIN ops} = {pays, gets}
    <3>1. DOMAIN <<pays, gets>> = 1..2 /\ Len(<<pays, gets>>) = 2
      OBVIOUS
    <3>2. {<<pays, gets>>[n] : n \in 1..2} = {pays, gets}
      OBVIOUS
    <3>3. {ops[n] : n \in DOMAIN ops} = {<<pays, gets>>[n] : n \in DOMAIN <<pays, gets>>} /\ Len(ops) = Len(<<pays, gets>>)
      BY <2>4 DEF SameOperations
    <3>4. Len(ops) = 2 /\ DOMAIN ops = 1..2
      BY <2>4, <3>1, <3>3
    <3> QED BY <3>1, <3>2, <3>3, <3>4
  <2>6. Len(all) = 3 /\ DOMAIN all = 1..3 /\ all[1] = fee /\ all[2] = ops[1] /\ all[3] = ops[2]
    <3> DEFINE S == {ops[n] : n \in DOMAIN ops}
    <3>1. InFront(fee, ops, S, all)
      BY <2>4, <2>5 DEF InFront
    <3> HIDE DEF S
    <3> QED BY <3>1, Prepended
  <2>7. {all[n] : n \in DOMAIN all} = {fee, pays, gets}
    <3>1. {ops[1], ops[2]} = {pays, gets}
      BY <2>5
    <3>2. {all[n] : n \in 1..3} = {all[1], all[2], all[3]}
      OBVIOUS
    <3> QED BY <2>6, <3>1, <3>2
  <2>8. {<<fee, pays, gets>>[n] : n \in DOMAIN <<fee, pays, gets>>} = {fee, pays, gets}
    <3>1. DOMAIN <<fee, pays, gets>> = 1..3
      OBVIOUS
    <3> QED BY <3>1
  <2>9. SameOperations(<<fee, pays, gets>>, all)
    BY <2>6, <2>7, <2>8 DEF SameOperations
  <2> QED BY <1>5, <2>9 DEF all
<1> QED BY <1>6, <1>7

-----------------------------------------------------------------------------
(* The inductive invariant holds of every number of sessions, every list of *)
(* operations and every rate of the node.                                   *)
THEOREM Invariant == Spec => []IInv
BY InitIInv, NextIInv, PTL DEF Spec

(* The node's nonces count what it mined, none is pending twice, and every  *)
(* transaction that /payloads built has a recipient and natural amounts.    *)
THEOREM TypeCorrect == Spec => []TypeOK
<1>1. IInv => TypeOK
  BY DEF IInv
<1> QED BY <1>1, Invariant, PTL

(* What the node mines is a payment that a client asked for, with the fee   *)
(* it named or was suggested, although every request carries its own copy   *)
(* of the operations.                                                       *)
THEOREM OnlyIntendedMined == Spec => []MinedIsIntended
<1>1. IInv => MinedIsIntended
  <2> SUFFICES ASSUME IInv, NEW t \in mined
               PROVE  \E s \in Session :
                        /\ session[s].pc \in Sent
                        /\ LET o == getOptionsFromOperations(session[s].intent.ops)
                           IN  /\ o.recipient = t.recipient /\ o.amount = t.amount
                               /\ t.fee = IF o.fee # None THEN Abs(o.fee) ELSE session[s].suggested
                        /\ Consistent(session[s].intent) => session[s].intent.key = t.sender
    BY DEF MinedIsIntended
  <2>1. PICK s \in Session : session[s].pc \in Sent /\ session[s].tx = t
    BY DEF IInv, NodeKept
  <2> DEFINE r == session[s]
  <2>2. OpsKept(r) /\ TxKept(r) /\ r.pc \in Sent /\ r.tx = t
    BY <2>1 DEF IInv
  <2> HIDE DEF r
  <2>3. BuiltFrom(r)
    BY <2>2 DEF TxKept, Built
  <2>4. LET o == getOptionsFromOperations(r.intent.ops)
        IN  /\ o.recipient = t.recipient /\ o.amount = t.amount /\ r.intent.key = t.sender
            /\ t.fee = IF o.fee # None THEN Abs(o.fee) ELSE r.suggested
    BY <2>2, <2>3, BuiltOptions
  <2> QED BY <2>1, <2>4 DEF r
<1> QED BY <1>1, Invariant, PTL

(* Operations that make one payment by the account of the key come back     *)
(* from /parse, of the unsigned and of the signed transaction.              *)
THEOREM ParseGivesBack == Spec => []ParsedIsIntended
<1>1. IInv => ParsedIsIntended
  <2> SUFFICES ASSUME IInv, NEW s \in Session, Consistent(session[s].intent), session[s].parsed # <<>>
               PROVE  SameOperations(session[s].parsed, session[s].ops)
    BY DEF ParsedIsIntended, HasParsed
  <2> DEFINE r == session[s]
  <2>1. OpsKept(r) /\ TxKept(r) /\ Consistent(r.intent) /\ r.parsed # <<>>
    BY DEF IInv
  <2> HIDE DEF r
  <2>2. BuiltFrom(r) /\ r.parsed = parseOperations(r.tx)
    BY <2>1 DEF TxKept
  <2>3. SameOperations(r.parsed, r.ops)
    BY <2>1, <2>2, ParsedMatches
  <2> QED BY <2>3 DEF r
<1> QED BY <1>1, Invariant, PTL

(* The nonce read by /metadata stays good until /submit, unless another     *)
(* transaction of the account is pending or was accepted since.             *)
THEOREM RefusalHasCause == Spec => []RefusedOnlyIfRaced
<1>1. IInv => RefusedOnlyIfRaced
  BY DEF IInv
<1> QED BY <1>1, Invariant, PTL
=============================================================================
