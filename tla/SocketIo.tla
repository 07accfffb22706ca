------------------------------ MODULE SocketIo ------------------------------
(***************************************************************************)
(* The socket.io endpoint (src/api/routes/socket-io.ts) and one client of   *)
(* its library (client/src/socket-io).  The server keeps rooms per socket   *)
(* and forgets them when the connection breaks; the client keeps the topics *)
(* in the handshake query, which the next connection sends again.  A packet *)
(* emitted while the link is down is buffered by socket.io and sent after   *)
(* the next connection; packets on a link that breaks are lost.             *)
(*                                                                         *)
(* Balances: an addressUpdate event starts two queries and an emit, with no *)
(* queue between one event and the next.                                    *)
(***************************************************************************)
EXTENDS Naturals, Sequences, FiniteSets, SequencesExt

CONSTANTS
  Topic, BalanceTopic,   \* topics; the address-stx-balance topic among them
  MaxCalls,              \* bound on the client's subscribe and unsubscribe calls
  MaxDrops,              \* bound on broken connections
  MaxHeight, MaxEvents   \* bounds on the chain and on the addressUpdate events

(* What the bounds and constants must be. *)
SocketIoAssumption ==
  /\ BalanceTopic \in Topic /\ "" \notin Topic
  /\ {MaxCalls, MaxDrops, MaxHeight, MaxEvents} \subseteq Nat

VARIABLES
  link,       \* the client's connection: "down", "opening", "up"
  query,      \* opts.query.subscriptions of the client, as the set it joins
  handshake,  \* the query the connection being opened was given
  buffer,     \* emits waiting for a connection
  wire,       \* packets on their way to the server
  rooms,      \* rooms of the client's socket on the server
  wanted,     \* history: the topics the client asked for last
  calls, drops,
  tip,        \* height of the chain
  queries,    \* balance queries under way
  events,     \* addressUpdate events so far
  balances    \* heights of the balances the client received, in order

linkVars == <<link, query, handshake, buffer, wire, rooms, wanted, calls, drops>>
balanceVars == <<tip, queries, events, balances>>
vars == <<linkVars, balanceVars>>

Packet == [type : {"subscribe", "unsubscribe"}, topic : Topic]

-----------------------------------------------------------------------------
(* "".split(",") is [""], not []: an empty list of topics is read back as   *)
(* the one empty topic.                                                     *)
Split(joined) == IF joined = {} THEN {""} ELSE joined

(* The handler of `connection': the topics of the handshake, unless the     *)
(* string is empty.                                                         *)
JoinInitial(joined) == IF joined \subseteq {""} THEN {} ELSE joined

Init ==
  /\ link = "down"
  /\ query \in SUBSET Topic       \* connect({ subscriptions })
  /\ wanted = query
  /\ handshake = {}
  /\ buffer = <<>> /\ wire = <<>>
  /\ rooms = {}
  /\ calls = 0 /\ drops = 0
  /\ tip = 1
  /\ queries = {}
  /\ events = 0
  /\ balances = <<>>

(* Mutant: only subscribing is remembered for the next connection.          *)
HandleForgetUnsubscribe(topic, subscribe) ==
  LET packet == [type |-> IF subscribe THEN "subscribe" ELSE "unsubscribe", topic |-> topic]
  IN
  /\ calls < MaxCalls
  /\ calls' = calls + 1
  /\ IF link = "up" THEN wire' = Append(wire, packet) /\ UNCHANGED buffer
                    ELSE buffer' = Append(buffer, packet) /\ UNCHANGED wire
  /\ query' = IF subscribe THEN Split(query) \cup {topic} ELSE query
  /\ wanted' = IF subscribe THEN wanted \cup {topic} ELSE wanted \ {topic}
  /\ UNCHANGED <<link, handshake, rooms, drops, balanceVars>>

(* subscribeBlocks, unsubscribeBlocks, ...: emit, and update the query.     *)
handleSubscription(topic, subscribe) ==
  LET packet == [type |-> IF subscribe THEN "subscribe" ELSE "unsubscribe", topic |-> topic]
  IN
  /\ calls < MaxCalls
  /\ calls' = calls + 1
  /\ IF link = "up" THEN wire' = Append(wire, packet) /\ UNCHANGED buffer
                    ELSE buffer' = Append(buffer, packet) /\ UNCHANGED wire
  /\ query' = IF subscribe THEN Split(query) \cup {topic} ELSE Split(query) \ {topic}
  /\ wanted' = IF subscribe THEN wanted \cup {topic} ELSE wanted \ {topic}
  /\ UNCHANGED <<link, handshake, rooms, drops, balanceVars>>

(* socket.io opens a connection with the query as it is now.                *)
Open ==
  /\ link = "down"
  /\ link' = "opening"
  /\ handshake' = query
  /\ UNCHANGED <<query, buffer, wire, rooms, wanted, calls, drops, balanceVars>>

(* Mutant: the handshake is not looked at.                                  *)
ConnectionWithoutQuery ==
  /\ link = "opening"
  /\ link' = "up"
  /\ rooms' = {}
  /\ wire' = buffer /\ buffer' = <<>>
  /\ UNCHANGED <<query, handshake, wanted, calls, drops, balanceVars>>

(* The server's `connection' handler runs and the buffered emits are sent.  *)
Connection ==
  /\ link = "opening"
  /\ link' = "up"
  /\ rooms' = JoinInitial(handshake)
  /\ wire' = buffer /\ buffer' = <<>>
  /\ UNCHANGED <<query, handshake, wanted, calls, drops, balanceVars>>

Applied(rs, p) == IF p.type = "subscribe" THEN rs \cup {p.topic} ELSE rs \ {p.topic}

(* socket.on("subscribe"), socket.on("unsubscribe").                        *)
OnPacket ==
  /\ wire # <<>>
  /\ rooms' = Applied(rooms, Head(wire))
  /\ wire' = Tail(wire)
  /\ UNCHANGED <<link, query, handshake, buffer, wanted, calls, drops, balanceVars>>

Drop ==
  /\ link # "down" /\ drops < MaxDrops
  /\ drops' = drops + 1
  /\ link' = "down"
  /\ wire' = <<>>
  /\ rooms' = {}
  /\ UNCHANGED <<query, handshake, buffer, wanted, calls, balanceVars>>

-----------------------------------------------------------------------------
(* db.on("addressUpdate") for a block at that height: a new tip, or a block *)
(* of a fork below it.                                                      *)
AddressUpdate(height) ==
  /\ height <= tip + 1 /\ events < MaxEvents
  /\ events' = events + 1
  /\ tip' = IF height > tip THEN height ELSE tip
  /\ queries' = IF BalanceTopic \in rooms
                THEN queries \cup {[event |-> events, height |-> height, step |-> "balance"]}
                ELSE queries
  /\ UNCHANGED <<linkVars, balances>>

(* getStxBalanceAtBlock has answered, getTokenOfferingLocked is asked.      *)
BalanceRead(q) ==
  /\ q.step = "balance"
  /\ queries' = (queries \ {q}) \cup {[q EXCEPT !.step = "offering"]}
  /\ UNCHANGED <<linkVars, tip, events, balances>>

(* Both have: emit to the room as it is now.                                *)
EmitBalance(q) ==
  /\ q.step = "offering"
  /\ queries' = queries \ {q}
  /\ balances' = IF BalanceTopic \in rooms THEN Append(balances, q.height) ELSE balances
  /\ UNCHANGED <<linkVars, tip, events>>

(* A failed query is only logged.                                           *)
QueryFailed(q) ==
  /\ queries' = queries \ {q}
  /\ UNCHANGED <<linkVars, tip, events, balances>>

Next ==
  \/ \E t \in Topic, subscribe \in BOOLEAN : handleSubscription(t, subscribe)
  \/ Open
  \/ Connection
  \/ OnPacket
  \/ Drop
  \/ \E h \in 1..MaxHeight : AddressUpdate(h)
  \/ \E q \in queries : BalanceRead(q) \/ EmitBalance(q) \/ QueryFailed(q)

Spec == Init /\ [][Next]_vars

(* socket.io reconnects, the server reads what arrives.                     *)
FairSpec == Spec /\ WF_vars(Open) /\ WF_vars(Connection) /\ WF_vars(OnPacket)

-----------------------------------------------------------------------------
(* TypeOK: packets wait in one place only, and a broken link has no rooms.  *)
TypeOK ==
  /\ link \in {"down", "opening", "up"}
  /\ query \subseteq Topic \cup {""} /\ rooms \subseteq Topic \cup {""}
  /\ buffer \in Seq(Packet) /\ wire \in Seq(Packet)
  /\ link # "up" => wire = <<>> /\ rooms = {}
  /\ link = "up" => buffer = <<>>
  /\ wanted \subseteq Topic
  /\ tip \in 1..MaxHeight
  /\ balances \in Seq(1..MaxHeight)

(* "topics are persisted on re-connect": whatever calls, lost packets and    *)
(* broken connections came before, the packets on their way lead the rooms  *)
(* of an open connection to the topics wanted, and so do the handshake and  *)
(* the buffered packets for the next one.                                   *)
LeadsToWanted ==
  LET final == CASE link = "up" -> FoldLeft(Applied, rooms, wire)
                 [] link = "opening" -> FoldLeft(Applied, JoinInitial(handshake), buffer)
                 [] link = "down" -> FoldLeft(Applied, JoinInitial(query), buffer)
  IN  final \cap Topic = wanted

(* Every connection that holds gets there.                                  *)
EventuallyInRooms == <>[](link = "up" /\ rooms \cap Topic = wanted)

(* "Get latest balance": when nothing is under way any more and no query    *)
(* failed, the last balance a client got is the one at the tip, if it got   *)
(* the one at the tip at all.                                               *)
LatestBalanceLast ==
  queries = {} /\ tip \in Range(balances) => Last(balances) = tip
=============================================================================
