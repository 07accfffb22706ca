------------------------- MODULE RosettaConstruction -------------------------
(***************************************************************************)
(* The Rosetta construction API (routes/rosetta/construction.ts and         *)
(* rosetta-helpers.ts): clients take their operations through /preprocess,  *)
(* /metadata, /payloads, /parse, /combine, /hash and /submit.  The API      *)
(* keeps nothing between the calls; the nonce and the fee rate are read     *)
(* from the node (external) while other clients of the account go on.       *)
(* A payment of a sum to a recipient stands for every transaction that can  *)
(* be built.                                                                *)
(***************************************************************************)
EXTENDS Integers, Sequences, FiniteSets

CONSTANTS
  Session,
  Intents,         \* [ops, key, maxFee]: what a client wants
  None,
  Rates,           \* fee rates of the node
  Size,            \* bytes of a transfer
  MaxFaults        \* calls of the node that fail

VARIABLES
  session,         \* what each client holds
  nonces,          \* the node: the next nonce of an account, by blocks
  mempool, mined,  \* the node: accepted transactions
  raced,           \* history: another transaction of the account, pending since
                   \* before the nonce was read or accepted after
  faults

node == <<nonces, mempool, mined>>
vars == <<session, node, raced, faults>>

(* A session whose transaction the node took: the client was told so, or    *)
(* the answer was lost and it got an error.                                 *)
Sent == {"submitted", "lost"}
Ended == Sent \cup {"failed"}
Address(id, version) == [id |-> id, version |-> version]
KeyAddress(key) == Address(key, "single")

(* Every account an intent names.                                           *)
Accounts == UNION {{i.key} \cup {i.ops[n].account.id : n \in DOMAIN i.ops} : i \in Intents}

(* RosettaErrors, those that the construction answers with; "unreachable"   *)
(* and "refused" stand for errors of the node.                              *)
Errors ==
  {"invalidOperation", "invalidCurrencySymbol", "invalidRecipient", "missingSenderAddress",
   "invalidAmount", "invalidFees", "invalidSender", "missingNonce", "invalidFee", "unreachable",
   "invalidParams", "signatureNotVerified", "transactionNotSigned", "refused"}

ASSUME RosettaAssumption ==
  /\ None \notin Int \cup Errors
  /\ Rates \subseteq Nat /\ Size \in Nat /\ MaxFaults \in Nat
  /\ \A i \in Intents :
       /\ i.ops \in Seq({i.ops[n] : n \in DOMAIN i.ops})
       /\ \A n \in DOMAIN i.ops : i.ops[n].amount \in Int \cup {None}

-----------------------------------------------------------------------------
(* Operations and what is read from them.                                   *)
Op(type, account, amount, arg) == [type |-> type, account |-> account, amount |-> amount, arg |-> arg]
NoOp == Op(None, None, None, None)

Stacking == {"stacking", "delegate-stacking"}

(* An operation without meaning.                                            *)
Refuses(op) ==
  \/ op.type \notin Stacking \cup {"fee", "token_transfer"}
  \/ op.type \in Stacking /\ ((op.amount # None /\ op.amount > 0) \/ op.arg = None)

(* An operation that names who pays, and one that names an amount.          *)
NamesSender(op) ==
  op.type \in Stacking \/ (op.type = "token_transfer" /\ op.amount # None /\ op.amount < 0)
NamesRecipient(op) == op.type = "token_transfer" /\ op.amount # None /\ op.amount >= 0
NamesAmount(op) == op.type \in Stacking \/ NamesRecipient(op)

Value(op) == IF op.type \in Stacking /\ op.amount # None THEN -op.amount ELSE op.amount

LastOf(ops, at) == IF at = {} THEN NoOp ELSE ops[CHOOSE i \in at : \A j \in at : j <= i]

(* Each option is set by the last operation that names it; one operation    *)
(* without meaning spoils them all.                                         *)
getOptionsFromOperations(ops) ==
  LET senders == {i \in DOMAIN ops : NamesSender(ops[i])}
      recipients == {i \in DOMAIN ops : NamesRecipient(ops[i])}
      amounts == {i \in DOMAIN ops : NamesAmount(ops[i])}
      fees == {i \in DOMAIN ops : ops[i].type = "fee"}
  IN  IF \E i \in DOMAIN ops : Refuses(ops[i]) THEN None
      ELSE [type |-> LastOf(ops, senders).type, sender |-> LastOf(ops, senders).account,
            recipient |-> LastOf(ops, recipients).account,
            amount |-> Value(LastOf(ops, amounts)), fee |-> LastOf(ops, fees).amount]

(* The first check that fails answers the request.                          *)
PreprocessError(ops) ==
  LET o == getOptionsFromOperations(ops)
  IN  IF Len(ops) > 3 THEN "invalidOperation"
      ELSE IF \E i \in DOMAIN ops : ops[i].amount = None THEN "invalidCurrencySymbol"
      ELSE IF o = None THEN "invalidOperation"
      ELSE IF o.type = None \/ o.amount = None THEN "invalidOperation"
      ELSE None

MetadataError(o) ==
  IF o.type = "token_transfer" /\ o.recipient = None THEN "invalidRecipient"
  ELSE IF o.sender = None THEN "missingSenderAddress"
  ELSE None

(* Neither stacking operation names a recipient, and getOptionsFrom-        *)
(* Operations never yields the contract the last check asks for.            *)
PayloadsError(ops, nonce) ==
  LET o == getOptionsFromOperations(ops)
  IN  IF o = None THEN "invalidOperation"
      ELSE IF o.amount = None THEN "invalidAmount"
      ELSE IF o.fee = None THEN "invalidFees"
      ELSE IF o.recipient = None THEN "invalidRecipient"
      ELSE IF o.sender = None THEN "invalidSender"
      ELSE IF nonce = None THEN "missingNonce"
      ELSE IF o.type # "token_transfer" THEN "invalidOperation"
      ELSE None

-----------------------------------------------------------------------------
(* Transactions.  The sender is the account of the public key, whatever the *)
(* operations say; the fee and the amount are written without a sign.       *)
Abs(n) == IF n < 0 THEN -n ELSE n

(* Mutant: the fee of the operations is left out.                           *)
makeUnsignedFree(ops, key, nonce) ==
  LET o == getOptionsFromOperations(ops)
  IN  [sender |-> key, recipient |-> o.recipient, amount |-> o.amount, fee |-> 0,
       nonce |-> nonce, signature |-> None]

(* Mutant: the nonce of the metadata is not used.                           *)
makeUnsignedFirstNonce(ops, key, nonce) == [makeUnsignedFree(ops, key, nonce) EXCEPT !.nonce = 0]

makeUnsigned(ops, key, nonce) ==
  LET o == getOptionsFromOperations(ops)
  IN  [sender |-> key, recipient |-> o.recipient, amount |-> o.amount, fee |-> Abs(o.fee),
       nonce |-> nonce, signature |-> None]

(* What is signed: the transaction without its signature.                   *)
makeSigHashPreSign(tx) == [tx EXCEPT !.signature = None]

isSignedTransaction(tx) == tx.signature # None

(* rawTxToBaseTx and getOperations of a token transfer.                     *)
parseOperations(tx) ==
  <<Op("fee", KeyAddress(tx.sender), -tx.fee, None),
    Op("token_transfer", KeyAddress(tx.sender), -tx.amount, None),
    Op("token_transfer", tx.recipient, tx.amount, None)>>

(* The signer's hash is written with the version of the recipient.          *)
getSigners(tx) == <<Address(tx.sender, tx.recipient.version)>>

(* The signature is of the key named in the request, over the payload named *)
(* in the request.                                                          *)
verifySignature(payload, key, signature) == signature = [key |-> key, over |-> payload]

(* The node takes a transaction with a valid signature, a nonce not used in *)
(* a block, and no pending transaction with that nonce.                     *)
Admissible(tx) ==
  /\ tx.signature = [key |-> tx.sender, over |-> makeSigHashPreSign(tx)]
  /\ tx.nonce >= nonces[tx.sender]
  /\ \A t \in mempool : t.sender = tx.sender => t.nonce # tx.nonce

-----------------------------------------------------------------------------
Init ==
  /\ session \in [Session -> {[pc |-> "new", intent |-> i, ops |-> i.ops, nonce |-> None, suggested |-> None,
                               tx |-> None, parsed |-> <<>>, signers |-> <<>>, error |-> None] : i \in Intents}]
  /\ nonces = [k \in Accounts |-> 0]
  /\ mempool = {} /\ mined = {}
  /\ raced = [s \in Session |-> FALSE]
  /\ faults = 0

At(s, pc) == session[s].pc = pc
Go(s, held) == session' = [session EXCEPT ![s] = held]
Fail(s, error) == Go(s, [session[s] EXCEPT !.pc = "failed", !.error = error])

Check(s, error, held) ==
  /\ IF error # None THEN Fail(s, error) ELSE Go(s, held)
  /\ UNCHANGED <<node, raced, faults>>

Preprocess(s) ==
  At(s, "new") /\ Check(s, PreprocessError(session[s].ops), [session[s] EXCEPT !.pc = "preprocessed"])

(* /metadata, one step per call of the node.                                *)
MetadataNonce(s) ==
  LET o == getOptionsFromOperations(session[s].ops)
  IN  /\ At(s, "preprocessed")
      /\ raced' = [raced EXCEPT ![s] = \E t \in mempool : t.sender = session[s].intent.key]
      /\ IF MetadataError(o) # None THEN Fail(s, MetadataError(o))
         ELSE Go(s, [session[s] EXCEPT !.pc = "fee", !.nonce = nonces[o.sender.id]])
      /\ UNCHANGED <<node, faults>>

(* A rate of 0 is refused; the max_fee given to /preprocess is not used.    *)
MetadataFee(s, rate) ==
  /\ At(s, "fee")
  /\ Check(s, IF rate = 0 THEN "invalidFee" ELSE None,
           [session[s] EXCEPT !.pc = "metadata", !.suggested = rate * Size])

(* The node cannot be reached: the request fails.                           *)
NodeFault(s) ==
  /\ session[s].pc \in {"preprocessed", "fee", "hashed"} /\ faults < MaxFaults
  /\ faults' = faults + 1
  /\ Fail(s, "unreachable")
  /\ UNCHANGED <<node, raced>>

FeeOp(held) == Op("fee", KeyAddress(held.intent.key), -held.suggested, None)
NamesFee(ops) == \E i \in DOMAIN ops : ops[i].type = "fee"

(* The client (external) puts the suggested fee in, if it named none.       *)
SetFee(s) ==
  /\ At(s, "metadata")
  /\ LET ops == session[s].ops
     IN  Go(s, [session[s] EXCEPT !.pc = "priced",
                                  !.ops = IF NamesFee(ops) THEN ops ELSE <<FeeOp(session[s])>> \o ops])
  /\ UNCHANGED <<node, raced, faults>>

Payloads(s) ==
  LET r == session[s]
      error == PayloadsError(r.ops, r.nonce)
  IN  /\ At(s, "priced")
      /\ Check(s, error,
               [r EXCEPT !.pc = "unsigned",
                         !.tx = IF error = None THEN makeUnsigned(r.ops, r.intent.key, r.nonce) ELSE None])

(* Mutant: parsing throws on a transaction without signature, and the error *)
(* is only logged.                                                          *)
ParseSilent(s, from, to) ==
  /\ At(s, from) /\ isSignedTransaction(session[s].tx)
  /\ Check(s, IF isSignedTransaction(session[s].tx) # (from = "signed") THEN "invalidParams" ELSE None,
           [session[s] EXCEPT !.pc = to, !.parsed = parseOperations(session[s].tx),
                              !.signers = getSigners(session[s].tx)])

(* /parse, of the unsigned transaction and again of the signed one.         *)
Parse(s, from, to) ==
  /\ At(s, from)
  /\ Check(s, IF isSignedTransaction(session[s].tx) # (from = "signed") THEN "invalidParams" ELSE None,
           [session[s] EXCEPT !.pc = to, !.parsed = parseOperations(session[s].tx),
                              !.signers = IF from = "signed" THEN getSigners(session[s].tx) ELSE <<>>])

(* The client signs a payload of its own or, by mistake, of another session *)
(* of its key, and /combine puts the signature in.                          *)
Combine(s, other) ==
  LET payload == makeSigHashPreSign(session[other].tx)
      signature == [key |-> session[s].intent.key, over |-> payload]
  IN  /\ At(s, "checked") /\ session[other].tx # None
      /\ session[other].intent.key = session[s].intent.key
      /\ Check(s, IF verifySignature(payload, session[s].intent.key, signature) THEN None ELSE "signatureNotVerified",
               [session[s] EXCEPT !.pc = "signed", !.tx = [@ EXCEPT !.signature = signature]])

Hash(s) ==
  /\ At(s, "parsed")
  /\ Check(s, IF isSignedTransaction(session[s].tx) THEN None ELSE "transactionNotSigned",
           [session[s] EXCEPT !.pc = "hashed"])

(* The node takes the transaction.                                          *)
Accept(s, held) ==
  LET tx == session[s].tx
  IN  /\ Go(s, held)
      /\ mempool' = mempool \cup {tx}
      /\ raced' = [o \in Session |-> raced[o] \/ (o # s /\ session[o].intent.key = tx.sender)]
      /\ UNCHANGED <<nonces, mined>>

(* /submit; what the node refuses is an error.                              *)
Submit(s) ==
  /\ At(s, "hashed")
  /\ IF Admissible(session[s].tx) THEN Accept(s, [session[s] EXCEPT !.pc = "submitted"])
     ELSE Fail(s, "refused") /\ UNCHANGED <<node, raced>>
  /\ UNCHANGED faults

(* The node takes it and its answer is lost: an error as well.              *)
SubmitUnanswered(s) ==
  /\ At(s, "hashed") /\ faults < MaxFaults /\ Admissible(session[s].tx)
  /\ faults' = faults + 1
  /\ Accept(s, [session[s] EXCEPT !.pc = "lost", !.error = "unreachable"])

(* The node mines the pending transaction with the next nonce.              *)
Mine(tx) ==
  /\ tx \in mempool /\ tx.nonce = nonces[tx.sender]
  /\ nonces' = [nonces EXCEPT ![tx.sender] = @ + 1]
  /\ mempool' = mempool \ {tx} /\ mined' = mined \cup {tx}
  /\ UNCHANGED <<session, raced, faults>>

Step(s) ==
  \/ Preprocess(s) \/ MetadataNonce(s)
  \/ \E rate \in Rates : MetadataFee(s, rate)
  \/ NodeFault(s) \/ SetFee(s) \/ Payloads(s)
  \/ Parse(s, "unsigned", "checked") \/ Parse(s, "signed", "parsed")
  \/ \E other \in Session : Combine(s, other)
  \/ Hash(s) \/ Submit(s) \/ SubmitUnanswered(s)

Next == (\E s \in Session : Step(s)) \/ (\E tx \in mempool : Mine(tx))

(* Clients go on and the node mines.                                        *)
Fairness == (\A s \in Session : WF_vars(Step(s))) /\ WF_vars(\E tx \in mempool : Mine(tx))
Spec == Init /\ [][Next]_vars /\ Fairness

-----------------------------------------------------------------------------
(* TypeOK: nonces count the mined transactions, no nonce is pending twice,  *)
(* and built transactions have a recipient and natural amounts.             *)
TypeOK ==
  /\ \A k \in DOMAIN nonces : nonces[k] = Cardinality({t \in mined : t.sender = k})
  /\ \A t, u \in mempool : t.sender = u.sender /\ t.nonce = u.nonce => t = u
  /\ \A s \in Session : session[s].tx # None =>
       session[s].tx.recipient # None /\ {session[s].tx.amount, session[s].tx.fee, session[s].tx.nonce} \subseteq Nat
  /\ faults \in 0..MaxFaults

SameOperations(ops1, ops2) ==
  {ops1[n] : n \in DOMAIN ops1} = {ops2[n] : n \in DOMAIN ops2} /\ Len(ops1) = Len(ops2)

Payment(o) ==
  <<Op("token_transfer", o.sender, -o.amount, None), Op("token_transfer", o.recipient, o.amount, None)>>
Fees(o) == IF o.fee = None THEN <<>> ELSE <<Op("fee", o.sender, -Abs(o.fee), None)>>

(* Operations that make one payment by the account of the key, with or      *)
(* without its fee.                                                         *)
Consistent(i) ==
  LET o == getOptionsFromOperations(i.ops)
  IN  /\ o # None /\ o.type = "token_transfer" /\ o.sender = KeyAddress(i.key) /\ o.amount # None
      /\ SameOperations(i.ops, Fees(o) \o Payment(o))

HasParsed(s) == session[s].parsed # <<>>

(* Consistent operations come back from /parse, before and after signing.   *)
ParsedIsIntended ==
  \A s \in Session : Consistent(session[s].intent) /\ HasParsed(s) =>
    SameOperations(session[s].parsed, session[s].ops)

(* What is mined is a payment some client asked for, and submitted even if  *)
(* it was told of an error: from the sender to the recipient of its         *)
(* operations, with the fee it named or was suggested.                      *)
MinedIsIntended ==
  \A t \in mined : \E s \in Session :
    /\ session[s].pc \in Sent
    /\ LET o == getOptionsFromOperations(session[s].intent.ops)
       IN  /\ o.recipient = t.recipient /\ o.amount = t.amount
           /\ t.fee = IF o.fee # None THEN Abs(o.fee) ELSE session[s].suggested
    /\ Consistent(session[s].intent) => session[s].intent.key = t.sender

(* The signed transaction of consistent operations is refused only if       *)
(* another one of the account was pending when its nonce was read or was    *)
(* accepted since, or if another payload was signed.                        *)
RefusedOnlyIfRaced ==
  \A s \in Session : Consistent(session[s].intent) /\ session[s].error = "refused" =>
    raced[s] \/ session[s].tx.signature.over # makeSigHashPreSign(session[s].tx)

(* The inductive invariant.  A session works on the operations of its       *)
(* intent, to which at most the suggested fee was added.                    *)
Reading == {"fee", "metadata", "priced", "unsigned", "checked", "signed", "parsed", "hashed"}
Built == {"unsigned", "checked", "signed", "parsed", "hashed"} \cup Sent

IsSession(r) ==
  r = [pc |-> r.pc, intent |-> r.intent, ops |-> r.ops, nonce |-> r.nonce, suggested |-> r.suggested,
       tx |-> r.tx, parsed |-> r.parsed, signers |-> r.signers, error |-> r.error]

OpsKept(r) ==
  /\ IsSession(r) /\ r.intent \in Intents /\ r.nonce \in Nat \cup {None}
  /\ \/ r.ops = r.intent.ops
     \/ ~NamesFee(r.intent.ops) /\ r.suggested \in Nat /\ r.ops = <<FeeOp(r)>> \o r.intent.ops
  /\ r.pc \in {"new", "preprocessed", "fee", "metadata"} => r.ops = r.intent.ops
  /\ r.pc \in {"preprocessed"} \cup Reading => PreprocessError(r.intent.ops) = None
  /\ r.pc \in {"metadata", "priced"} => r.suggested \in Nat

BuiltFrom(r) ==
  /\ PreprocessError(r.intent.ops) = None /\ PayloadsError(r.ops, r.nonce) = None
  /\ r.tx = [makeUnsigned(r.ops, r.intent.key, r.nonce) EXCEPT !.signature = r.tx.signature]

TxKept(r) ==
  /\ r.tx # None \/ r.pc \in Built \/ r.parsed # <<>> \/ r.error = "refused" => BuiltFrom(r)
  /\ r.parsed # <<>> => r.parsed = parseOperations(r.tx)
  /\ r.error = "refused" => r.pc = "failed"
  /\ r.pc \in {"new", "preprocessed", "fee", "metadata", "priced"} => r.tx = None /\ r.parsed = <<>>
  /\ r.pc \in {"signed", "parsed", "hashed"} =>
       r.tx.signature = [key |-> r.intent.key, over |-> r.tx.signature.over]

(* Unless another transaction of the account came between, the nonce that   *)
(* was read is still the next one, and none is pending.                     *)
NonceStillNext(s) ==
  session[s].pc \in Reading /\ ~raced[s] =>
    /\ \A t \in mempool : t.sender # session[s].intent.key
    /\ Consistent(session[s].intent) => session[s].nonce = nonces[session[s].intent.key]

(* The node has only what sessions submitted, each nonce once.              *)
NodeKept ==
  /\ nonces \in [Accounts -> Nat] /\ IsFiniteSet(mined)
  /\ \A t \in mempool \cup mined : \E s \in Session : session[s].pc \in Sent /\ session[s].tx = t
  /\ \A t \in mined : t.nonce < nonces[t.sender]

IInv ==
  /\ session = [s \in Session |-> session[s]] /\ raced \in [Session -> BOOLEAN]
  /\ \A s \in Session : OpsKept(session[s]) /\ TxKept(session[s]) /\ NonceStillNext(s)
  /\ NodeKept /\ RefusedOnlyIfRaced /\ TypeOK

(* Every session is answered to its end.                                    *)
SessionsEnd == \A s \in Session : <>(session[s].pc \in Ended)

(* What was submitted for consistent operations is mined, also if its       *)
(* answer was lost: the nonce leaves no gap.                                *)
SubmittedIsMined ==
  \A s \in Session :
    Consistent(session[s].intent) /\ session[s].pc \in Sent ~> session[s].tx \in mined

(* "This should match the array of operations provided to /construction/    *)
(* preprocess and /construction/payloads."                                  *)
ParseMatches == \A s \in Session : HasParsed(s) => SameOperations(session[s].parsed, session[s].ops)

(* "the max fee will set an upper bound on the suggested fee".              *)
SuggestedFeeBounded ==
  \A s \in Session : session[s].suggested # None /\ session[s].intent.maxFee # None =>
    session[s].suggested <= session[s].intent.maxFee

(* The signers of a signed transaction are its sender.                      *)
SignerIsSender ==
  \A s \in Session : HasParsed(s) /\ session[s].signers # <<>> =>
    session[s].signers = <<KeyAddress(session[s].tx.sender)>>

(* "Generate and unsigned transaction from operations and metadata": what   *)
(* /preprocess and /metadata accepted, /payloads builds.                    *)
PreparedIsBuilt ==
  \A s \in Session : session[s].suggested # None => session[s].error \in {None, "refused", "unreachable"}
=============================================================================
