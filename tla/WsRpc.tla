-------------------------------- MODULE WsRpc --------------------------------
(***************************************************************************)
(* The WebSocket RPC endpoint (src/api/routes/ws-rpc.ts): the subscription  *)
(* manager and the balance notifications, which are put together in a       *)
(* promise queue of their own after the store emitted `addressUpdate'.      *)
(*                                                                         *)
(* A topic is an address.  The manager's map holds one JavaScript Set per   *)
(* topic and deletes an empty one; a queued notification keeps the Set it   *)
(* found, so a topic's Sets are told apart by a generation number.          *)
(***************************************************************************)
EXTENDS Naturals, Sequences, FiniteSets, SequencesExt

CONSTANTS
  Client,       \* WebSocket connections
  Topic,        \* addresses
  MaxBlocks,    \* bound on the blocks of a behaviour
  MaxChanges    \* bound on the subscriptions and connections of a behaviour

ASSUME WsRpcAssumption == MaxBlocks \in Nat /\ MaxChanges \in Nat

VARIABLES
  connected,      \* open sockets
  subscriptions,  \* the clients in the Set of each topic
  generation,     \* how many Sets of the topic were deleted
  onClose,        \* close listeners: pairs of a socket and a topic
  balance,        \* version of each address's committed balance
  unannounced,    \* topics the last block's transactions name, addressUpdate not emitted yet
  silent,         \* history: topics whose balance changed in a block that does not name them
  blocks,         \* blocks so far
  queue,          \* addrBalanceProcessorQueue: notifications to be prepared
  running,        \* the notification being prepared, a sequence
  delivered,      \* version of the balance last sent, per client and topic
  wanted,         \* history: pairs of a client and a topic it asked for
  subscribedAt,   \* history: balance version when the client last subscribed
  lost,           \* topics whose last notification failed
  changes         \* connections and subscriptions so far

vars == <<connected, subscriptions, generation, onClose, balance, unannounced, silent,
          blocks, queue, running, delivered, wanted, subscribedAt, lost, changes>>
clientVars == <<connected, subscriptions, generation, onClose, wanted, subscribedAt>>

Unread == MaxBlocks + 1
Job == [topic : Topic, generation : 0..MaxChanges, read : 0..Unread]

-----------------------------------------------------------------------------
Init ==
  /\ connected = {}
  /\ subscriptions = [t \in Topic |-> {}]
  /\ generation = [t \in Topic |-> 0]
  /\ onClose = {}
  /\ balance = [t \in Topic |-> 0]
  /\ unannounced = {}
  /\ silent = {}
  /\ blocks = 0
  /\ queue = <<>>
  /\ running = <<>>
  /\ delivered = [c \in Client |-> [t \in Topic |-> 0]]
  /\ wanted = {}
  /\ subscribedAt = [c \in Client |-> [t \in Topic |-> 0]]
  /\ lost = {}
  /\ changes = 0

Connect(c) ==
  /\ c \notin connected
  /\ changes < MaxChanges
  /\ changes' = changes + 1
  /\ connected' = connected \cup {c}
  /\ delivered' = [delivered EXCEPT ![c] = [t \in Topic |-> 0]]
  /\ UNCHANGED <<subscriptions, generation, onClose, balance, silent, blocks, unannounced, queue,
                 running, wanted, subscribedAt, lost>>

(* addSubscription, with its close listener.                                *)
Subscribe(c, t) ==
  /\ c \in connected
  /\ changes < MaxChanges
  /\ changes' = changes + 1
  /\ subscriptions' = [subscriptions EXCEPT ![t] = @ \cup {c}]
  /\ onClose' = onClose \cup {<<c, t>>}
  /\ wanted' = wanted \cup {<<c, t>>}
  /\ subscribedAt' = IF <<c, t>> \in wanted THEN subscribedAt
                     ELSE [subscribedAt EXCEPT ![c][t] = balance[t]]
  /\ UNCHANGED <<connected, generation, balance, silent, blocks, unannounced, queue, running,
                 delivered, lost>>

(* removeSubscription(c) for each of the topics ts: a Set that becomes      *)
(* empty is deleted.                                                        *)
RemoveSubscription(c, ts) ==
  /\ subscriptions' = [t \in Topic |->
                         IF t \in ts THEN subscriptions[t] \ {c} ELSE subscriptions[t]]
  /\ generation' = [t \in Topic |->
                      IF t \in ts /\ subscriptions[t] = {c}
                      THEN generation[t] + 1 ELSE generation[t]]

Unsubscribe(c, t) ==
  /\ c \in connected
  /\ <<c, t>> \in wanted
  /\ RemoveSubscription(c, {t})
  /\ wanted' = wanted \ {<<c, t>>}
  /\ UNCHANGED <<connected, onClose, balance, silent, blocks, unannounced, queue, running, delivered,
                 subscribedAt, lost, changes>>

(* The socket closes, from either side: its close listeners run.            *)
Close(c) ==
  /\ c \in connected
  /\ connected' = connected \ {c}
  /\ RemoveSubscription(c, {t \in Topic : <<c, t>> \in onClose})
  /\ onClose' = {p \in onClose : p[1] # c}
  /\ wanted' = {p \in wanted : p[1] # c}
  /\ UNCHANGED <<balance, silent, blocks, unannounced, queue, running, delivered, subscribedAt, lost,
                 changes>>

-----------------------------------------------------------------------------
(* The store commits a block.  Its transactions name the addresses named    *)
(* (emitAddressTxUpdates); the balances of changed are other ones after it. *)
(* Neither includes the other: a failed call or a block of a fork changes   *)
(* no balance, while miner rewards, and the transactions that a             *)
(* reorganization restores or orphans, change balances without an event.    *)
(* One update runs at a time; its events come after its commit.             *)
CommitBlock(changed, named) ==
  /\ unannounced = {}
  /\ blocks < MaxBlocks
  /\ blocks' = blocks + 1
  /\ balance' = [t \in Topic |-> IF t \in changed THEN blocks + 1 ELSE balance[t]]
  /\ silent' = (silent \cup changed) \ named
  /\ unannounced' = named
  /\ UNCHANGED <<clientVars, queue, running, delivered, lost, changes>>

(* Mutant: no notification is queued while one of the topic is prepared.    *)
AddressUpdateOnce(t) ==
  /\ t \in unannounced
  /\ unannounced' = unannounced \ {t}
  /\ queue' = IF subscriptions[t] = {} \/ \E i \in DOMAIN running : running[i].topic = t
              THEN queue
              ELSE Append(queue, [topic |-> t, generation |-> generation[t],
                                  read |-> Unread])
  /\ UNCHANGED <<clientVars, balance, silent, blocks, running, delivered, lost, changes>>

(* processAddressBalanceUpdate: queue a notification for the Set that the   *)
(* topic has now, if it has one.                                            *)
AddressUpdate(t) ==
  /\ t \in unannounced
  /\ unannounced' = unannounced \ {t}
  /\ queue' = IF subscriptions[t] = {} THEN queue
              ELSE Append(queue, [topic |-> t, generation |-> generation[t],
                                  read |-> Unread])
  /\ UNCHANGED <<clientVars, balance, silent, blocks, running, delivered, lost, changes>>

(* Mutant: a second notification is prepared beside the first.              *)
StartTwo ==
  /\ Len(running) < 2
  /\ queue # <<>>
  /\ running' = Append(running, Head(queue))
  /\ queue' = Tail(queue)
  /\ UNCHANGED <<clientVars, balance, silent, blocks, unannounced, delivered, lost, changes>>

(* The queue, of concurrency 1, starts the next notification.               *)
StartNotification ==
  /\ Len(running) < 1
  /\ queue # <<>>
  /\ running' = Append(running, Head(queue))
  /\ queue' = Tail(queue)
  /\ UNCHANGED <<clientVars, balance, silent, blocks, unannounced, delivered, lost, changes>>

(* getStxBalance answers with the balance committed by then.                *)
ReadBalance(i) ==
  /\ running[i].read = Unread
  /\ running' = [running EXCEPT ![i].read = balance[running[i].topic]]
  /\ UNCHANGED <<clientVars, balance, silent, blocks, unannounced, queue, delivered, lost, changes>>

(* Whom the kept Set holds now.  A deleted one is empty and stays so.       *)
Subscribers(job) ==
  IF job.generation = generation[job.topic] THEN subscriptions[job.topic] ELSE {}

(* The balance goes to the clients in the Set now.                          *)
SendBalance(i) ==
  /\ running[i].read # Unread
  /\ LET job == running[i]
     IN  /\ delivered' = [c \in Client |->
                            IF c \in Subscribers(job)
                            THEN [delivered[c] EXCEPT ![job.topic] = job.read]
                            ELSE delivered[c]]
         /\ lost' = lost \ {job.topic}
  /\ running' = RemoveAt(running, i)
  /\ UNCHANGED <<clientVars, balance, silent, blocks, unannounced, queue, changes>>

(* The query fails: the error is logged, nobody is told.                    *)
FailNotification(i) ==
  /\ running[i].read = Unread
  /\ lost' = lost \cup {running[i].topic}
  /\ running' = RemoveAt(running, i)
  /\ UNCHANGED <<clientVars, balance, silent, blocks, unannounced, queue, delivered, changes>>

Clients ==
  \E c \in Client :
    \/ Connect(c)
    \/ Close(c)
    \/ \E t \in Topic : Subscribe(c, t) \/ Unsubscribe(c, t)

Notify ==
  \/ StartNotification
  \/ \E i \in DOMAIN running : ReadBalance(i) \/ SendBalance(i)

Next ==
  \/ Clients
  \/ \E changed, named \in SUBSET Topic : CommitBlock(changed, named)
  \/ \E t \in Topic : AddressUpdate(t)
  \/ Notify
  \/ \E i \in DOMAIN running : FailNotification(i)

Spec == Init /\ [][Next]_vars

(* The event loop goes on emitting and preparing notifications.             *)
FairSpec ==
  /\ Spec
  /\ WF_vars(\E t \in Topic : AddressUpdate(t))
  /\ WF_vars(Notify)

-----------------------------------------------------------------------------
(* TypeOK: the shape of the subscriptions, the notifications and the        *)
(* balances sent; a balance that was not read is never sent.                *)
TypeOK ==
  /\ connected \subseteq Client
  /\ subscriptions \in [Topic -> SUBSET Client]
  /\ generation \in [Topic -> 0..MaxChanges]
  /\ onClose \subseteq Client \X Topic
  /\ blocks \in 0..MaxBlocks
  /\ balance \in [Topic -> 0..MaxBlocks]
  /\ unannounced \subseteq Topic
  /\ silent \subseteq Topic
  /\ queue \in Seq(Job)
  /\ running \in Seq(Job)
  /\ delivered \in [Client -> [Topic -> 0..MaxBlocks]]
  /\ subscribedAt \in [Client -> [Topic -> 0..MaxBlocks]]
  /\ wanted \subseteq Client \X Topic
  /\ lost \subseteq Topic
  /\ changes \in 0..MaxChanges

(* The manager's Sets hold exactly the clients that asked for the topic and  *)
(* are still connected, in whatever order clients subscribe, repeat it,       *)
(* unsubscribe, close and reconnect: a closed socket is never leaked, and     *)
(* nobody loses a subscription because somebody else left.                    *)
SubscriptionsExact ==
  \A t \in Topic : subscriptions[t] = {c \in connected : <<c, t>> \in wanted}

Settled(t) ==
  /\ t \notin unannounced
  /\ \A i \in DOMAIN queue : queue[i].topic # t
  /\ \A i \in DOMAIN running : running[i].topic # t

(* The client waits for the last change of the address: it was subscribed   *)
(* before it, and a block that named the address has come since.            *)
Waits(c, t) ==
  /\ <<c, t>> \in wanted
  /\ subscribedAt[c][t] < balance[t]
  /\ t \notin silent

(* Once the notifications of an address are through, every client that was   *)
(* subscribed before its last change has been sent the current balance,      *)
(* whoever came and went meanwhile, whichever changes came without an event  *)
(* before it, unless the query for it failed.  After a change that no        *)
(* transaction of the arriving block accounts for (a reward, a              *)
(* reorganization) nothing is claimed until the next block that names the    *)
(* address.                                                                  *)
SubscribersUpToDate ==
  \A t \in Topic : Settled(t) /\ t \notin lost =>
    \A c \in Client : Waits(c, t) => delivered[c][t] = balance[t]

(* Disagreement: what `address_balance_update' promises by its name (and     *)
(* subscribeAddressBalanceUpdates of client/src/ws/index.ts:149), that a     *)
(* subscriber hears of every change of the balance; a miner's reward and a   *)
(* reorganization change it silently.                                        *)
EveryChangeTold ==
  \A t \in Topic : Settled(t) /\ t \notin lost =>
    \A c \in Client :
      <<c, t>> \in wanted /\ subscribedAt[c][t] < balance[t] => delivered[c][t] = balance[t]

(* A client never receives an older balance after a newer one.               *)
BalanceNeverGoesBack ==
  [][\A c \in Client, t \in Topic :
       c \in connected => delivered'[c][t] >= delivered[c][t]]_vars

(* The event of every block is eventually through the queue.                 *)
EventuallySettled == \A t \in Topic : []<>Settled(t)
-----------------------------------------------------------------------------
(* The inductive invariant behind these properties.                         *)

(* A close listener exists for whatever is subscribed, and goes with its    *)
(* socket; a Set is deleted at most once per subscription.                  *)
ListenersCover ==
  /\ wanted \subseteq onClose
  /\ \A p \in onClose : p[1] \in connected
  /\ \A t \in Topic :
       generation[t] <= changes /\ (subscriptions[t] # {} => generation[t] < changes)

(* One notification is prepared at a time, and queued ones are unread.      *)
OneRunning ==
  /\ Len(running) <= 1
  /\ \A i \in DOMAIN queue : queue[i].read = Unread

(* What was read is at least what was sent before it, and at most what the  *)
(* store holds.                                                             *)
ReadsAreFresh ==
  /\ \A t \in Topic : balance[t] <= blocks
  /\ \A c \in Client, t \in Topic : delivered[c][t] <= balance[t]
  /\ \A i \in DOMAIN running : running[i].read # Unread =>
       /\ running[i].read <= balance[running[i].topic]
       /\ \A c \in Client : delivered[c][running[i].topic] <= running[i].read

(* A notification for the Set the topic has now is still to be prepared,    *)
(* at a position after k of the queue.                                      *)
WillNotify(t, k) ==
  \/ t \in unannounced
  \/ \E j \in DOMAIN queue :
       j > k /\ queue[j].topic = t /\ queue[j].generation = generation[t]

(* The notification tells the Set of now the balance of now.                *)
TellsNow(job) ==
  job.generation = generation[job.topic] /\ job.read \in {Unread, balance[job.topic]}

(* A notification that tells a deleted Set, or an old balance, is followed  *)
(* by another one as long as somebody waits.                                *)
StaleIsFollowed ==
  \A c \in Client, t \in Topic : Waits(c, t) =>
    /\ \A i \in DOMAIN queue :
         queue[i].topic = t /\ queue[i].generation # generation[t] => WillNotify(t, i)
    /\ \A i \in DOMAIN running :
         running[i].topic = t /\ ~TellsNow(running[i]) => WillNotify(t, 0)

(* Whoever waits was told, will be, or lost the notification to a failure.  *)
NobodyForgotten ==
  \A c \in Client, t \in Topic : Waits(c, t) =>
    \/ WillNotify(t, 0)
    \/ \E i \in DOMAIN running : running[i].topic = t /\ TellsNow(running[i])
    \/ delivered[c][t] = balance[t]
    \/ t \in lost

IInv ==
  /\ TypeOK /\ SubscriptionsExact /\ ListenersCover /\ OneRunning
  /\ ReadsAreFresh /\ StaleIsFollowed /\ NobodyForgotten
=============================================================================
