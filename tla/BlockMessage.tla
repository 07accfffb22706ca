---------------------------- MODULE BlockMessage ----------------------------
(***************************************************************************)
(* From a /new_block message to the rows of db.update: what                 *)
(* parseMessageTransactions (src/event-stream/reader.ts) and                *)
(* handleClientMessage (src/event-stream/event-server.ts) compute.          *)
(*                                                                         *)
(* A transaction is a Stacks transaction, one of them a PoisonMicroblock,   *)
(* or one made on Bitcoin (raw_tx 0x00), which has to be rebuilt from its   *)
(* first event.  An event carries the index the node gave it within the     *)
(* block.                                                                   *)
(***************************************************************************)
EXTENDS Naturals, Sequences, SequencesExt, FiniteSets, TLC

CONSTANTS
  TxId,       \* transaction ids
  SentType,   \* types of event a message of this instance may list
  MaxTxs,     \* bound on the transactions of a message
  MaxEvents   \* bound on its events

(* What the bounds must be. *)
BlockMessageAssumption ==
  /\ MaxTxs \in Nat
  /\ MaxEvents \in Nat
  /\ SentType \subseteq {"log", "lock", "transfer", "ft", "nft"}

VARIABLES
  stage,        \* the step handleClientMessage is at
  transactions, \* msg.transactions
  events,       \* msg.events, in the order of the message
  parsed,       \* parsed_transactions, with Hole where nothing was parsed
  tables        \* the event rows collected so far, a sequence per table

vars == <<stage, transactions, events, parsed, tables>>

Hole == "hole"
Tx == [id : TxId, kind : {"stacks", "poison", "bitcoin"}]
EventType == {"log", "lock", "transfer", "ft", "nft"}
Event == [tx : TxId, type : EventType, committed : BOOLEAN, index : 1..MaxEvents]

(* The order in which the tables are put together before the sort.          *)
TableOrder == <<"log", "ft", "nft", "transfer", "lock">>

-----------------------------------------------------------------------------
Distinct(s, key(_)) == \A i, j \in DOMAIN s : key(s[i]) = key(s[j]) => i = j

(* A message lists a transaction once; the node numbers the events of a     *)
(* block, but need not list them in that order.                             *)
Init ==
  /\ stage = "received"
  /\ transactions \in {s \in SeqOf(Tx, MaxTxs) : Distinct(s, LAMBDA t : t.id)}
  /\ events \in {s \in SeqOf({e \in Event : e.type \in SentType}, MaxEvents) :
                   /\ Distinct(s, LAMBDA e : e.index)
                   /\ \A i \in DOMAIN s : s[i].index <= Len(s)}
  /\ parsed = <<>>
  /\ tables = [t \in EventType |-> <<>>]

-----------------------------------------------------------------------------
(* msg.events.find: the first event of a transaction, in message order.     *)
FirstEventOf(id) == SelectInSeq(events, LAMBDA e : e.tx = id)

(* What parseMessageTransactions makes of one transaction: a failed one on  *)
(* Bitcoin has no event and is passed over; any other event than a transfer *)
(* or a lock is an error, and so is a PoisonMicroblock.                     *)
Unparsable(t) ==
  \/ t.kind = "poison"
  \/ /\ t.kind = "bitcoin"
     /\ FirstEventOf(t.id) # 0
     /\ events[FirstEventOf(t.id)].type \notin {"transfer", "lock"}

ParseOne(t) == IF t.kind = "bitcoin" /\ FirstEventOf(t.id) = 0 THEN Hole ELSE t.id

ParseMessageTransactions ==
  /\ stage = "received"
  /\ \A i \in DOMAIN transactions : ~Unparsable(transactions[i])
  /\ parsed' = [i \in DOMAIN transactions |-> ParseOne(transactions[i])]
  /\ stage' = "parsed"
  /\ UNCHANGED <<transactions, events, tables>>

RejectTransactions ==
  /\ stage = "received"
  /\ \E i \in DOMAIN transactions : Unparsable(transactions[i])
  /\ stage' = "rejected"
  /\ UNCHANGED <<transactions, events, parsed, tables>>

(* One round of the loop that deletes entry i of both arrays.               *)
Splice(i, arrays) ==
  IF i \in DOMAIN arrays.parsed /\ arrays.parsed[i] = Hole
  THEN [parsed |-> RemoveAt(arrays.parsed, i), txs |-> RemoveAt(arrays.txs, i)]
  ELSE arrays

(* Mutant: the loop runs upwards, and skips the entry after a deleted one.  *)
SpliceUpwards(arrays) ==
  FoldLeft(LAMBDA a, i : Splice(i, a), arrays, [i \in DOMAIN arrays.txs |-> i])

(* The loop runs from the last entry down.                                  *)
SpliceAll(arrays) ==
  FoldRight(Splice, [i \in DOMAIN arrays.txs |-> i], arrays)

DeleteFailed ==
  /\ stage = "parsed"
  /\ LET kept == SpliceAll([parsed |-> parsed, txs |-> transactions])
     IN  parsed' = kept.parsed /\ transactions' = kept.txs
  /\ stage' = "events"
  /\ UNCHANGED <<events, tables>>

-----------------------------------------------------------------------------
Listed(e) == \E i \in DOMAIN transactions : transactions[i].id = e.tx

(* The committed events, each in the array of its type.                     *)
CollectEvents ==
  /\ stage = "events"
  /\ \A i \in DOMAIN events : events[i].committed => Listed(events[i])
  /\ tables' = [t \in EventType |->
                  SelectSeq(events, LAMBDA e : e.committed /\ e.type = t)]
  /\ stage' = "collected"
  /\ UNCHANGED <<transactions, events, parsed>>

RejectEvents ==
  /\ stage = "events"
  /\ \E i \in DOMAIN events : events[i].committed /\ ~Listed(events[i])
  /\ stage' = "rejected"
  /\ UNCHANGED <<transactions, events, parsed, tables>>

-----------------------------------------------------------------------------
(* One transaction's rows of every table, flattened and sorted.             *)
RowsOf(id) ==
  FlattenSeq([k \in DOMAIN TableOrder |->
                SelectSeq(tables[TableOrder[k]], LAMBDA e : e.tx = id)])

(* Mutant: the rows are numbered table by table.                            *)
UnsortedEvents(id) == RowsOf(id)

SortedEvents(id) == SortSeq(RowsOf(id), LAMBDA a, b : a.index < b.index)

(* The new index of a row: its position among its transaction's events.     *)
NewIndex(e) == SelectInSeq(SortedEvents(e.tx), LAMBDA x : x = e) - 1

(* Number the events of each transaction, then db.update.                   *)
NormalizeAndUpdate ==
  /\ stage = "collected"
  /\ tables' = [t \in EventType |->
                  [i \in DOMAIN tables[t] |->
                     [tables[t][i] EXCEPT !.index = NewIndex(tables[t][i])]]]
  /\ stage' = "update"
  /\ UNCHANGED <<transactions, events, parsed>>

(* Sent to db.update or refused: the message is done with.                  *)
Done == stage \in {"update", "rejected"} /\ UNCHANGED vars

Next ==
  \/ ParseMessageTransactions \/ RejectTransactions
  \/ DeleteFailed
  \/ CollectEvents \/ RejectEvents
  \/ NormalizeAndUpdate
  \/ Done

Spec == Init /\ [][Next]_vars

-----------------------------------------------------------------------------
RowIndex == IF stage = "update" THEN 0..(MaxEvents - 1) ELSE 1..MaxEvents
Row == [tx : TxId, type : EventType, committed : BOOLEAN, index : RowIndex]

StoredRows == UNION {ToSet(tables[t]) : t \in EventType}

Committed(id) == {e \in ToSet(events) : e.committed /\ e.tx = id}

(* TypeOK: the shape of the arrays handleClientMessage works on; a row      *)
(* given to db.update has an index from 0 on.                               *)
TypeOK ==
  /\ stage \in {"received", "parsed", "events", "collected", "update", "rejected"}
  /\ ToSet(transactions) \subseteq Tx
  /\ ToSet(events) \subseteq Event
  /\ ToSet(parsed) \subseteq TxId \cup {Hole}
  /\ \A t \in EventType : ToSet(tables[t]) \subseteq Row

(* Deleting the failed Bitcoin transactions keeps the two arrays aligned,   *)
(* leaves no hole, and drops exactly the transactions without an event.     *)
ArraysAligned ==
  stage \in {"events", "collected", "update"} =>
    /\ parsed = [i \in DOMAIN transactions |-> transactions[i].id]
    /\ \A i \in DOMAIN transactions :
         transactions[i].kind = "bitcoin" => \E e \in ToSet(events) : e.tx = transactions[i].id

(* The rows handed to db.update are the committed events, each numbered by  *)
(* its rank among the events of its transaction: the numbers run from 0     *)
(* without a gap over the five tables, in the node's order.                 *)
EventIndexIsRank ==
  stage = "update" =>
    StoredRows =
      UNION {{[e EXCEPT !.index = Cardinality({x \in Committed(id) : x.index < e.index})] :
                e \in Committed(id)} : id \in TxId}
=============================================================================
