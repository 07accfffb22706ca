----------------------------- MODULE MCRosetta -----------------------------
(***************************************************************************)
(* The two halves of the Rosetta API: blocks and balances read from the     *)
(* store, and transactions constructed without it.  Each behaviour (part)   *)
(* exercises one while the other is idle.                                   *)
(***************************************************************************)
EXTENDS RosettaConstruction, SequencesExt, TLC

VARIABLES part, known, main, txs, req, stayed, asked

ledgerVars == <<known, main, txs, req, stayed, asked>>

-----------------------------------------------------------------------------
(* Two sessions of one account, of one with another, or of a multi-         *)
(* signature recipient: payments with and without a fee, with amounts or a  *)
(* key that do not fit, without a recipient, and the stacking operations.   *)
P == KeyAddress("p")
Q == KeyAddress("q")
M == Address("m", "multi")

Pay(from, to, out, in) == <<Op("token_transfer", from, -out, None), Op("token_transfer", to, in, None)>>
Fee(from, n) == <<Op("fee", from, -n, None)>>
Wants(ops, key, maxFee) == [ops |-> ops, key |-> key, maxFee |-> maxFee]

MCIntents ==
  {Wants(Pay(P, Q, 5, 5), "p", None), Wants(Fee(P, 1) \o Pay(P, Q, 7, 7), "p", None),
   Wants(Pay(P, M, 5, 5) \o Fee(P, 1), "p", 3), Wants(Pay(Q, P, 5, 5), "q", None),
   Wants(Fee(P, 1) \o Pay(P, Q, 5, 4), "p", None), Wants(Fee(P, 1) \o Pay(P, Q, 5, 5), "q", None),
   Wants(<<Op("token_transfer", P, -5, None)>>, "p", None), Wants(<<Op("transfer", P, -5, None)>>, "p", None),
   Wants(Pay(P, Q, 5, 5) \o Pay(P, Q, 5, 5), "p", None), Wants(<<Op("token_transfer", Q, 5, None)>>, "q", None),
   Wants(Fee(P, 1) \o <<Op("stacking", P, -5, 1)>>, "p", None), Wants(<<Op("stacking", P, -5, None)>>, "p", None),
   Wants(Fee(P, 1) \o <<Op("delegate-stacking", P, -5, 1)>>, "p", None),
   Wants(<<Op("token_transfer", P, None, None)>>, "p", None)}

(* Two branches; a block holds a coinbase and one of: a token transfer, a   *)
(* call that moves, mints, locks or burns, or aborts, burns of a contract   *)
(* or after a payment of it, and a microblock report.                       *)
LedgerBlock == {"a1", "a2", "a3", "b2", "b3"}
LedgerParent == "a1" :> "none" @@ "a2" :> "a1" @@ "a3" :> "a2" @@ "b2" :> "a1" @@ "b3" :> "b2"
LedgerHeight == "a1" :> 1 @@ "a2" :> 2 @@ "a3" :> 3 @@ "b2" :> 2 @@ "b3" :> 3

E(k, from, to, amount) == [kind |-> k, sender |-> from, recipient |-> to, amount |-> amount]
T(type, from, to, amount, fee, ok, events) ==
  [type |-> type, sender |-> from, recipient |-> to, amount |-> amount, fee |-> fee, ok |-> ok, events |-> events]
Coinbase == T("coinbase", "q", "none", 0, 0, TRUE, <<>>)
Transfer == T("token_transfer", "p", "q", 2, 1, TRUE, <<E("transfer", "p", "q", 2)>>)
Call ==
  T("contract_call", "p", "none", 0, 1, TRUE,
    <<E("transfer", "p", "c", 2), E("burn", "p", "none", 1), E("mint", "none", "q", 3), E("lock", "p", "none", 4)>>)
AbortedCall == T("contract_call", "p", "none", 0, 1, FALSE, <<>>)
PaidThenBurn == T("contract_call", "p", "none", 0, 1, TRUE, <<E("transfer", "c", "p", 1), E("burn", "p", "none", 1)>>)
ContractBurns == T("smart_contract", "p", "none", 0, 1, TRUE, <<E("burn", "c", "none", 1)>>)
Report == T("poison_microblock", "p", "none", 0, 1, TRUE, <<>>)

Holding(set) == {<<Coinbase, tx>> : tx \in set}
AnyTx == {Transfer, Call, AbortedCall, PaidThenBurn, ContractBurns, Report}
LedgerContent ==
  "a1" :> Holding({Call}) @@ "a2" :> Holding(AnyTx) @@ "a3" :> Holding({Transfer})
    @@ "b2" :> Holding(AnyTx) @@ "b3" :> Holding({Transfer, AbortedCall})

R(to, coinbase, fees) == [recipient |-> to, coinbase |-> coinbase, fees |-> fees]
LedgerRewards == "a1" :> {} @@ "a2" :> {R("q", 5, 0)} @@ "a3" :> {} @@ "b2" :> {R("p", 5, 0)} @@ "b3" :> {R("q", 5, 1)}

Ledger ==
  INSTANCE RosettaLedger WITH Block <- LedgerBlock, Parent <- LedgerParent, Height <- LedgerHeight,
    Account <- {"p", "q", "c"}, Content <- LedgerContent, Rewards <- LedgerRewards, MaxRequests <- 1

(* The loop of getOptionsFromOperations, operation by operation.            *)
NoOptions == [type |-> None, sender |-> None, recipient |-> None, amount |-> None, fee |-> None]
Apply(o, op) ==
  IF o = None THEN None
  ELSE CASE op.type = "fee" -> [o EXCEPT !.fee = op.amount]
         [] op.type = "token_transfer" ->
              IF op.amount = None THEN o
              ELSE IF op.amount < 0 THEN [o EXCEPT !.sender = op.account, !.type = op.type]
              ELSE [o EXCEPT !.recipient = op.account, !.amount = op.amount]
         [] op.type \in Stacking ->
              IF (op.amount # None /\ op.amount > 0) \/ op.arg = None THEN None
              ELSE [o EXCEPT !.sender = op.account, !.type = op.type,
                             !.amount = IF op.amount = None THEN None ELSE -op.amount]
         [] OTHER -> None

LoopOps ==
  {Op("fee", P, -1, None), Op("token_transfer", P, -5, None), Op("token_transfer", Q, 0, None),
   Op("token_transfer", Q, None, None), Op("stacking", Q, -5, 1), Op("stacking", P, 5, 1),
   Op("delegate-stacking", P, None, 1), Op("transfer", P, -5, None)}

(* The options are those the loop collects, for three operations at a time. *)
OptionsOfLoop ==
  (\A s \in Session : At(s, "new")) =>
    \A ops \in BoundedSeq(LoopOps, 3) : getOptionsFromOperations(ops) = FoldLeft(Apply, NoOptions, ops)

-----------------------------------------------------------------------------
(* Sessions that were refused at their first call.                          *)
ConstructionIdle ==
  session = [s \in Session |->
    [pc |-> "failed", intent |-> CHOOSE i \in Intents : TRUE, ops |-> <<>>, nonce |-> None,
     suggested |-> None, tx |-> None, parsed |-> <<>>, signers |-> <<>>, error |-> None]]

RosettaInit ==
  /\ \/ part = "construction" /\ Init
     \/ /\ part = "ledger" /\ ConstructionIdle
        /\ nonces = <<>> /\ mempool = {} /\ mined = {} /\ raced = <<>> /\ faults = 0
  /\ Ledger!Init

RosettaNext ==
  \/ part = "construction" /\ Next /\ UNCHANGED <<part, ledgerVars>>
  \/ part = "ledger" /\ Ledger!Next /\ UNCHANGED <<part, vars>>

RosettaSpec == RosettaInit /\ [][RosettaNext]_<<part, vars, ledgerVars>> /\ Fairness

-----------------------------------------------------------------------------
(* The operations of a block that stays canonical while it is read add up,  *)
(* account by account, to the change of its balance, but for burns of other *)
(* accounts and microblock reports.                                         *)
PlainBlockReconciles == Ledger!PlainBlockReconciles

(* "Operations contain all balance-changing information within a            *)
(* transaction": every block that stays canonical reconciles.               *)
BlockReconciles == Ledger!BlockReconciles

(* What else holds: the options are those the loop over the operations      *)
(* collects; a transaction parses back to the operations asked for   *)
(* and the node refuses one only when another of the account was in the     *)
(* way; the parent served with a block is its parent, and the balance at a  *)
(* block that stays canonical is the ledger's.                              *)
RosettaInv ==
  /\ (part = "construction" => IInv) /\ TypeOK /\ ParsedIsIntended /\ RefusedOnlyIfRaced /\ OptionsOfLoop
  /\ Ledger!TypeOK /\ Ledger!BlocksConnected /\ Ledger!BalanceIfStayed

(* Every session ends, and what was submitted is mined unless it was raced. *)
RosettaLive == SessionsEnd /\ SubmittedIsMined
=============================================================================
