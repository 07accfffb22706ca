--------------------------- MODULE MCEventStream ---------------------------
(***************************************************************************)
(* From the node's messages to the tables: the event server, the conversion *)
(* of a block message, and the reader of its transactions.  They meet only  *)
(* in the values they hand on, so each behaviour (part) exercises one of    *)
(* them while the others are idle.                                          *)
(*                                                                         *)
(* The server handles two Stacks blocks, one of them with a parent it may   *)
(* not have, and three burn blocks: two at one height, one above, one of    *)
(* them without reward recipients.  The node either tells of all three burn *)
(* blocks and sends no mempool messages, or tells of one and sends          *)
(* everything else.                                                         *)
(***************************************************************************)
EXTENDS EventServer, TLC

CONSTANTS a1, a2, p1, q1, p2, none, x, y

MCParent == a1 :> none @@ a2 :> a1
MCHeight == a1 :> 1 @@ a2 :> 2
MCBurnHeight == p1 :> 1 @@ q1 :> 1 @@ p2 :> 2

VARIABLES part, stage, transactions, events, parsed, rows,
          stream, fault, phase, pc, todo, out, marks, raw

conversionVars == <<stage, transactions, events, parsed, rows>>
readerVars == <<stream, fault, phase, pc, todo, out, marks, raw>>

(* Every kind of spending condition, post condition and payload, in all     *)
(* combinations of authorisations, up to one post condition (and some       *)
(* pairs), and payloads.                                                    *)
Conditions ==
  {[hash |-> h, fields |-> <<>>] : h \in {0, 2}}
    \cup {[hash |-> 1, fields |-> <<>>], [hash |-> 3, fields |-> <<0, 3>>], [hash |-> 1, fields |-> <<2, 1>>]}
Auths == {<<c>> : c \in Conditions} \cup {<<c, d>> : c \in Conditions, d \in {e \in Conditions : e.hash \in {0, 3}}}
PostConditions == [asset : 0..2, principal : 1..3]
PostConditionLists ==
  {<<>>} \cup {<<p>> : p \in PostConditions}
    \cup {<<p, q>> : p \in {r \in PostConditions : r.principal = 3}, q \in {r \in PostConditions : r.principal = 1}}
Payloads ==
  [type : {0}, recipient : {5, 6}] \cup [type : {1, 3, 4}] \cup [type : {2}, args : 0..2]
ReaderTxs ==
  [auth : Auths, conditions : {<<>>}, payload : Payloads]
    \cup [auth : {<<[hash |-> 0, fields |-> <<>>]>>}, conditions : PostConditionLists, payload : Payloads]

Conversion ==
  INSTANCE BlockMessage WITH tables <- rows,
    TxId <- {x, y}, SentType <- {"log", "transfer"}, MaxTxs <- 2, MaxEvents <- 3
Reader == INSTANCE TxReader WITH Txs <- ReaderTxs

ASSUME Conversion!BlockMessageAssumption

-----------------------------------------------------------------------------
ConversionIdle ==
  /\ stage = "update" /\ transactions = <<>> /\ events = <<>> /\ parsed = <<>>
  /\ rows = [t \in Conversion!EventType |-> <<>>]
ReaderIdle ==
  /\ stream = <<>> /\ fault = "none" /\ phase = "tx" /\ pc = "done" /\ todo = <<>>
  /\ out = <<>> /\ marks = [post |-> 0, args |-> 0] /\ raw = Reader!NoRaw

(* What the node of a part may have outstanding.                            *)
Sent ==
  {NoMessage} \cup
    IF part = "burnchain" THEN {m \in Message : m.kind \notin {"mempool", "drop"}}
    ELSE {m \in Message : m.kind = "burn" => m.block = p1}

StreamInit ==
  \/ part \in {"burnchain", "feeds"} /\ Init /\ ConversionIdle /\ ReaderIdle
  \/ part = "message" /\ Init /\ Conversion!Init /\ ReaderIdle
  \/ part = "reader" /\ Init /\ ConversionIdle /\ Reader!Init

StreamNext ==
  \/ /\ part \in {"burnchain", "feeds"}
     /\ Next /\ \A f \in Feed : outstanding'[f] \in Sent
     /\ UNCHANGED <<part, conversionVars, readerVars>>
  \/ part = "message" /\ Conversion!Next /\ UNCHANGED <<part, vars, readerVars>>
  \/ part = "reader" /\ Reader!Next /\ UNCHANGED <<part, vars, conversionVars>>

StreamSpec ==
  /\ StreamInit /\ [][StreamNext]_<<part, vars, conversionVars, readerVars>>
  /\ Fairness
  /\ WF_readerVars(Reader!Read)

-----------------------------------------------------------------------------
(* handleClientMessage stores the committed events, each numbered by its    *)
(* rank among the events of its transaction over all tables.                *)
EventIndexIsRank == Conversion!EventIndexIsRank

(* Every field is read, and read again from what was stored, with the       *)
(* meaning and width it was written with, and a good transaction is never   *)
(* refused.                                                                 *)
MeaningKept == Reader!MeaningKept

(* What else holds on the way from a message to the store: the inductive    *)
(* invariant of the event server; the conversion deletes failed Bitcoin     *)
(* transactions from both arrays alike; the reader leaves nothing unread,   *)
(* refuses every unknown code, and takes a transaction that ends early for  *)
(* whole only where its last field is bytes of any length.                  *)
StreamInv ==
  /\ IInv
  /\ Conversion!TypeOK /\ Conversion!ArraysAligned
  /\ Reader!TypeOK /\ Reader!WholeInputRead /\ Reader!UnknownRefused /\ Reader!CutOnlyInBytes

(* Every message the server can handle is acknowledged in the end, also     *)
(* beside a feed that repeats one it cannot, and reading comes to an end.   *)
StreamLive == EventuallyAcked /\ Reader!ReadingEnds
=============================================================================
