-------------------------- MODULE NotificationsProofs -------------------------
(***************************************************************************)
(* Proofs about what tells clients of changes.                              *)
(*                                                                         *)
(* WsRpc, for every set of clients and addresses and every bound: IInv is   *)
(* inductive, so the manager's Sets are exact, no subscriber is left with   *)
(* an old balance after a block that names the address, and none receives   *)
(* balances out of order.                                                   *)
(*                                                                         *)
(* WsClient, for every set of handles and topics and any number of          *)
(* notifications and errors: HandleIInv is inductive, so an active handle   *)
(* misses nothing and the server serves exactly what is held.               *)
(***************************************************************************)
EXTENDS WsRpc, WsClient, SequenceTheorems, TLAPS

(* The values behind the types, as the provers need them.                   *)
LEMMA Values ==
  ASSUME TypeOK
  PROVE  /\ \A t \in Topic : balance[t] \in Nat /\ generation[t] \in Nat /\ balance[t] # Unread
         /\ \A c \in Client, t \in Topic : delivered[c][t] \in Nat /\ subscribedAt[c][t] \in Nat
         /\ \A i \in DOMAIN running :
              running[i] \in Job /\ running[i].topic \in Topic /\ running[i].read \in Nat
         /\ \A i \in DOMAIN queue : queue[i] \in Job /\ queue[i].topic \in Topic
<1>1. \A i \in DOMAIN running : running[i] \in Job
  BY DEF TypeOK
<1>2. \A i \in DOMAIN queue : queue[i] \in Job
  BY DEF TypeOK
<1> QED BY <1>1, <1>2, WsRpcAssumption DEF TypeOK, Job, Unread

(* The queue of concurrency 1: taking out the notification under way        *)
(* leaves none.                                                             *)
LEMMA RunningGone ==
  ASSUME NEW S, NEW r \in Seq(S), Len(r) <= 1, NEW i \in DOMAIN r
  PROVE  i = 1 /\ Len(r) = 1 /\ DOMAIN r = {1} /\ RemoveAt(r, i) = <<>>
<1>1. \A n, k \in Nat : 1 <= k /\ k <= n /\ n <= 1 => k = 1 /\ n = 1
  OBVIOUS
<1>2. i \in Nat /\ 1 <= i /\ i <= Len(r) /\ Len(r) \in Nat
  OBVIOUS
<1>3. i = 1 /\ Len(r) = 1
  BY <1>1, <1>2
<1>4. SubSeq(r, 1, 0) = <<>>
  BY SubSeqEmpty
<1>5. SubSeq(r, 2, 1) = <<>>
  BY SubSeqEmpty
<1>6. DOMAIN r = {1}
  BY <1>3
<1> QED BY <1>3, <1>4, <1>5, <1>6 DEF RemoveAt

(* What the query's answer makes of a notification.                         *)
LEMMA Answered ==
  ASSUME NEW j \in Job, NEW b \in 0..Unread
  PROVE  LET d == [j EXCEPT !.read = b]
         IN  d \in Job /\ d.topic = j.topic /\ d.generation = j.generation /\ d.read = b
BY DEF Job

LEMMA InitIInv == Init => IInv
<1> SUFFICES ASSUME Init PROVE IInv
  OBVIOUS
<1>1. TypeOK
  BY WsRpcAssumption DEF Init, TypeOK
<1> QED BY <1>1 DEF Init, IInv, SubscriptionsExact, ListenersCover, OneRunning, ReadsAreFresh,
     StaleIsFollowed, NobodyForgotten, Waits

-----------------------------------------------------------------------------
(* Clients come and go.  A step that makes nobody wait, and deletes no Set  *)
(* of somebody who does, leaves the notifications as they are.              *)
LEMMA ClientStep ==
  ASSUME IInv, UNCHANGED <<balance, silent, blocks, unannounced, queue, running, lost>>,
         \A c \in Client, t \in Topic : Waits(c, t)' =>
           Waits(c, t) /\ generation'[t] = generation[t] /\ delivered'[c][t] = delivered[c][t],
         \A c \in Client, t \in Topic :
           delivered'[c][t] \in Nat /\ delivered'[c][t] <= delivered[c][t]
  PROVE  OneRunning' /\ ReadsAreFresh' /\ StaleIsFollowed' /\ NobodyForgotten'
<1>1. OneRunning'
  BY DEF IInv, OneRunning
<1>2. ReadsAreFresh'
  BY Values DEF IInv, ReadsAreFresh
<1>3. ASSUME NEW c \in Client, NEW t \in Topic, Waits(c, t)'
      PROVE  /\ \A k : WillNotify(t, k)' = WillNotify(t, k)
             /\ \A i \in DOMAIN running :
                  running[i].topic = t => TellsNow(running[i])' = TellsNow(running[i])
  BY <1>3 DEF WillNotify, TellsNow
<1>4. StaleIsFollowed'
  BY <1>3 DEF IInv, StaleIsFollowed
<1>5. NobodyForgotten'
  BY <1>3 DEF IInv, NobodyForgotten
<1> QED BY <1>1, <1>2, <1>4, <1>5

LEMMA ConnectStep ==
  ASSUME IInv, NEW c \in Client, Connect(c)
  PROVE  IInv'
<1>1. TypeOK'
  BY WsRpcAssumption, Z3 DEF IInv, TypeOK, Connect
<1>2. SubscriptionsExact'
  BY DEF IInv, SubscriptionsExact, ListenersCover, TypeOK, Connect
<1>3. ListenersCover'
  BY WsRpcAssumption DEF IInv, ListenersCover, TypeOK, Connect
<1>4. \A d \in Client, t \in Topic :
        delivered'[d][t] \in Nat /\ delivered'[d][t] <= delivered[d][t]
  BY Values, WsRpcAssumption DEF IInv, TypeOK, Connect
<1>5. ASSUME NEW d \in Client, NEW t \in Topic, Waits(d, t)'
      PROVE  Waits(d, t) /\ generation'[t] = generation[t] /\ delivered'[d][t] = delivered[d][t]
  <2>1. Waits(d, t) /\ d # c
    BY <1>5 DEF IInv, Waits, ListenersCover, Connect
  <2> QED BY <2>1 DEF IInv, TypeOK, Connect
<1>6. OneRunning' /\ ReadsAreFresh' /\ StaleIsFollowed' /\ NobodyForgotten'
  BY <1>4, <1>5, ClientStep DEF Connect
<1> QED BY <1>1, <1>2, <1>3, <1>6 DEF IInv

LEMMA SubscribeStep ==
  ASSUME IInv, NEW c \in Client, NEW t \in Topic, Subscribe(c, t)
  PROVE  IInv'
<1>1. TypeOK'
  <2>1. subscribedAt' \in [Client -> [Topic -> 0..MaxBlocks]]
    BY DEF IInv, TypeOK, Subscribe
  <2> QED BY <2>1, WsRpcAssumption, Z3 DEF IInv, TypeOK, Subscribe
<1>2. SubscriptionsExact'
  BY DEF IInv, SubscriptionsExact, TypeOK, Subscribe
<1>3. ListenersCover'
  BY WsRpcAssumption DEF IInv, ListenersCover, TypeOK, Subscribe
<1>4. ASSUME NEW d \in Client, NEW u \in Topic, Waits(d, u)'
      PROVE  Waits(d, u)
  <2>1. CASE d = c /\ u = t /\ <<c, t>> \notin wanted
    <3>1. subscribedAt'[d][u] = balance'[u]
      BY <2>1 DEF IInv, TypeOK, Subscribe
    <3> QED BY <3>1, <1>4, Values DEF IInv, Waits, Subscribe
  <2>2. CASE <<d, u>> \in wanted
    <3>1. subscribedAt'[d][u] = subscribedAt[d][u]
      BY <2>2 DEF IInv, TypeOK, Subscribe
    <3> QED BY <3>1, <2>2, <1>4 DEF Waits, Subscribe
  <2> QED BY <2>1, <2>2, <1>4 DEF Waits, Subscribe
<1>5. OneRunning' /\ ReadsAreFresh' /\ StaleIsFollowed' /\ NobodyForgotten'
  BY <1>4, ClientStep, Values DEF Subscribe, IInv
<1> QED BY <1>1, <1>2, <1>3, <1>5 DEF IInv

(* A Set is deleted only when its last member leaves: nobody waits for it.  *)
LEMMA RemoveStep ==
  ASSUME IInv, NEW c \in Client, NEW ts, RemoveSubscription(c, ts),
         ts \subseteq Topic, wanted' \subseteq wanted,
         \A t \in ts : <<c, t>> \notin wanted',
         \A d \in Client, t \in Topic :
           d # c \/ t \notin ts => (<<d, t>> \in wanted' <=> <<d, t>> \in wanted),
         connected' \subseteq connected,
         connected' = connected \/ (connected' = connected \ {c} /\ \A t \in Topic : <<c, t>> \notin wanted'),
         UNCHANGED <<balance, silent, blocks, unannounced, queue, running, delivered, lost, subscribedAt, changes>>
  PROVE  /\ subscriptions' \in [Topic -> SUBSET Client]
         /\ generation' \in [Topic -> 0..MaxChanges]
         /\ SubscriptionsExact'
         /\ \A t \in Topic :
              generation'[t] <= changes' /\ (subscriptions'[t] # {} => generation'[t] < changes')
         /\ OneRunning' /\ ReadsAreFresh' /\ StaleIsFollowed' /\ NobodyForgotten'
<1>1. subscriptions' \in [Topic -> SUBSET Client]
  BY DEF IInv, TypeOK, RemoveSubscription
<1>2. \A t \in Topic :
        generation'[t] <= changes' /\ (subscriptions'[t] # {} => generation'[t] < changes')
  <2> SUFFICES ASSUME NEW t \in Topic
               PROVE  generation'[t] <= changes' /\ (subscriptions'[t] # {} => generation'[t] < changes')
    OBVIOUS
  <2>1. /\ generation[t] <= changes /\ (subscriptions[t] # {} => generation[t] < changes)
        /\ generation[t] \in Nat /\ changes \in Nat /\ changes' = changes
    BY Values, WsRpcAssumption DEF IInv, TypeOK, ListenersCover
  <2>2. CASE t \in ts /\ subscriptions[t] = {c}
    <3>1. generation'[t] = generation[t] + 1 /\ subscriptions'[t] = {}
      BY <2>2 DEF RemoveSubscription
    <3> QED BY <2>1, <2>2, <3>1
  <2>3. CASE ~(t \in ts /\ subscriptions[t] = {c})
    <3>1. generation'[t] = generation[t] /\ subscriptions'[t] \subseteq subscriptions[t]
      BY <2>3 DEF RemoveSubscription
    <3> QED BY <2>1, <3>1
  <2> QED BY <2>2, <2>3
<1>3. generation' \in [Topic -> 0..MaxChanges]
  <2>1. \A t \in Topic : generation'[t] \in Nat
    BY Values DEF IInv, RemoveSubscription
  <2>2. changes' <= MaxChanges /\ changes' \in Nat
    BY WsRpcAssumption DEF IInv, TypeOK
  <2>3. \A t \in Topic : generation'[t] \in 0..MaxChanges
    BY <1>2, <2>1, <2>2, WsRpcAssumption
  <2>4. DOMAIN generation' = Topic /\ generation' = [t \in Topic |-> generation'[t]]
    BY DEF RemoveSubscription
  <2> QED BY <2>3, <2>4
<1>4. SubscriptionsExact'
  <2> SUFFICES ASSUME NEW t \in Topic
               PROVE  subscriptions'[t] = {d \in connected' : <<d, t>> \in wanted'}
    BY DEF SubscriptionsExact
  <2>1. subscriptions[t] = {d \in connected : <<d, t>> \in wanted} /\ connected \subseteq Client
    BY DEF IInv, SubscriptionsExact, TypeOK
  <2>2. CASE t \in ts
    <3>1. subscriptions'[t] = subscriptions[t] \ {c}
      BY <2>2 DEF RemoveSubscription
    <3> QED BY <2>1, <2>2, <3>1
  <2>3. CASE t \notin ts
    <3>1. subscriptions'[t] = subscriptions[t]
      BY <2>3 DEF RemoveSubscription
    <3> QED BY <2>1, <2>3, <3>1
  <2> QED BY <2>2, <2>3
<1>5. ASSUME NEW d \in Client, NEW t \in Topic, Waits(d, t)'
      PROVE  Waits(d, t) /\ generation'[t] = generation[t]
  <2>1. <<d, t>> \in wanted' /\ Waits(d, t)
    BY <1>5 DEF Waits
  <2>2. d \in subscriptions[t]
    BY <2>1 DEF IInv, SubscriptionsExact, ListenersCover
  <2>3. t \in ts => d # c
    BY <2>1
  <2> QED BY <2>1, <2>2, <2>3 DEF RemoveSubscription
<1>6. OneRunning' /\ ReadsAreFresh' /\ StaleIsFollowed' /\ NobodyForgotten'
  BY <1>5, ClientStep, Values DEF IInv
<1> QED BY <1>1, <1>2, <1>3, <1>4, <1>6

LEMMA UnsubscribeStep ==
  ASSUME IInv, NEW c \in Client, NEW t \in Topic, Unsubscribe(c, t)
  PROVE  IInv'
<1>1. /\ subscriptions' \in [Topic -> SUBSET Client]
      /\ generation' \in [Topic -> 0..MaxChanges]
      /\ SubscriptionsExact'
      /\ \A u \in Topic :
           generation'[u] <= changes' /\ (subscriptions'[u] # {} => generation'[u] < changes')
      /\ OneRunning' /\ ReadsAreFresh' /\ StaleIsFollowed' /\ NobodyForgotten'
  <2> DEFINE ts == {t}
  <2>1. /\ RemoveSubscription(c, ts) /\ ts \subseteq Topic /\ wanted' \subseteq wanted
        /\ \A u \in ts : <<c, u>> \notin wanted'
        /\ \A d \in Client, u \in Topic :
             d # c \/ u \notin ts => (<<d, u>> \in wanted' <=> <<d, u>> \in wanted)
    BY DEF Unsubscribe
  <2> HIDE DEF ts
  <2> QED BY <2>1, RemoveStep DEF Unsubscribe
<1>2. TypeOK'
  BY <1>1 DEF IInv, TypeOK, Unsubscribe
<1>3. ListenersCover'
  BY <1>1 DEF IInv, ListenersCover, Unsubscribe
<1> QED BY <1>1, <1>2, <1>3 DEF IInv

LEMMA CloseStep ==
  ASSUME IInv, NEW c \in Client, Close(c)
  PROVE  IInv'
<1>1. /\ subscriptions' \in [Topic -> SUBSET Client]
      /\ generation' \in [Topic -> 0..MaxChanges]
      /\ SubscriptionsExact'
      /\ \A t \in Topic :
           generation'[t] <= changes' /\ (subscriptions'[t] # {} => generation'[t] < changes')
      /\ OneRunning' /\ ReadsAreFresh' /\ StaleIsFollowed' /\ NobodyForgotten'
  <2> DEFINE ts == {t \in Topic : <<c, t>> \in onClose}
  <2>1. RemoveSubscription(c, ts) /\ ts \subseteq Topic /\ wanted' \subseteq wanted
    BY DEF Close
  <2>2. \A t \in Topic : <<c, t>> \notin wanted'
    BY DEF Close
  <2>3. \A d \in Client, t \in Topic :
          d # c \/ t \notin ts => (<<d, t>> \in wanted' <=> <<d, t>> \in wanted)
    BY DEF IInv, ListenersCover, Close
  <2> HIDE DEF ts
  <2> QED BY <2>1, <2>2, <2>3, RemoveStep DEF Close
<1>2. TypeOK'
  BY <1>1 DEF IInv, TypeOK, Close
<1>3. ListenersCover'
  BY <1>1 DEF IInv, ListenersCover, TypeOK, Close
<1> QED BY <1>1, <1>2, <1>3 DEF IInv
-----------------------------------------------------------------------------
(* The store and the queue.  They leave the clients alone.                  *)
LEMMA ClientsKept ==
  ASSUME IInv, UNCHANGED <<clientVars, changes>>
  PROVE  SubscriptionsExact' /\ ListenersCover'
BY DEF IInv, SubscriptionsExact, ListenersCover, clientVars

LEMMA CommitStep ==
  ASSUME IInv, NEW changed \in SUBSET Topic, NEW named \in SUBSET Topic,
         CommitBlock(changed, named)
  PROVE  IInv'
<1>1. TypeOK'
  <2>1. blocks' \in 0..MaxBlocks /\ blocks + 1 = blocks'
    BY WsRpcAssumption DEF IInv, TypeOK, CommitBlock
  <2>2. balance' \in [Topic -> 0..MaxBlocks]
    BY <2>1, WsRpcAssumption DEF IInv, TypeOK, CommitBlock
  <2>3. silent' \subseteq Topic /\ unannounced' \subseteq Topic
    BY DEF IInv, TypeOK, CommitBlock
  <2> QED BY <2>1, <2>2, <2>3 DEF IInv, TypeOK, CommitBlock, clientVars
<1>2. SubscriptionsExact' /\ ListenersCover'
  BY ClientsKept DEF CommitBlock
<1>3. OneRunning'
  BY DEF IInv, OneRunning, CommitBlock
<1>4. ReadsAreFresh'
  <2>1. \A t \in Topic : /\ balance'[t] \in Nat /\ balance[t] <= balance'[t]
                          /\ balance'[t] <= blocks'
    BY Values DEF IInv, TypeOK, ReadsAreFresh, CommitBlock
  <2> QED BY <2>1, Values DEF IInv, ReadsAreFresh, CommitBlock
<1>5. ASSUME NEW c \in Client, NEW t \in Topic, Waits(c, t)', t \notin named
      PROVE  /\ Waits(c, t) /\ balance'[t] = balance[t]
             /\ \A k : WillNotify(t, k) => WillNotify(t, k)'
             /\ \A i \in DOMAIN running :
                  running[i].topic = t => TellsNow(running[i])' = TellsNow(running[i])
  <2>1. t \notin silent /\ t \notin changed
    BY <1>5 DEF CommitBlock, Waits
  <2>2. balance'[t] = balance[t] /\ unannounced = {}
    BY <2>1 DEF CommitBlock
  <2> QED BY <1>5, <2>1, <2>2 DEF CommitBlock, clientVars, Waits, WillNotify, TellsNow
<1>6. ASSUME NEW t \in named
      PROVE  \A k : WillNotify(t, k)'
  BY DEF CommitBlock, WillNotify
<1>7. StaleIsFollowed'
  <2> SUFFICES ASSUME NEW c \in Client, NEW t \in Topic, Waits(c, t)'
               PROVE  (/\ \A i \in DOMAIN queue :
                            queue[i].topic = t /\ queue[i].generation # generation[t]
                              => WillNotify(t, i)
                       /\ \A i \in DOMAIN running :
                            running[i].topic = t /\ ~TellsNow(running[i]) => WillNotify(t, 0))'
    BY DEF StaleIsFollowed
  <2>1. CASE t \in named
    BY <2>1, <1>6
  <2>2. CASE t \notin named
    BY <2>2, <1>5 DEF IInv, StaleIsFollowed, CommitBlock, clientVars
  <2> QED BY <2>1, <2>2
<1>8. NobodyForgotten'
  <2> SUFFICES ASSUME NEW c \in Client, NEW t \in Topic, Waits(c, t)'
               PROVE  (\/ WillNotify(t, 0)
                       \/ \E i \in DOMAIN running : running[i].topic = t /\ TellsNow(running[i])
                       \/ delivered[c][t] = balance[t]
                       \/ t \in lost)'
    BY DEF NobodyForgotten
  <2>1. CASE t \in named
    BY <2>1, <1>6
  <2>2. CASE t \notin named
    BY <2>2, <1>5 DEF IInv, NobodyForgotten, CommitBlock
  <2> QED BY <2>1, <2>2
<1> QED BY <1>1, <1>2, <1>3, <1>4, <1>7, <1>8 DEF IInv

(* A topic somebody waits for has a Set, so its change is queued.           *)
LEMMA AddressUpdateStep ==
  ASSUME IInv, NEW t \in Topic, AddressUpdate(t)
  PROVE  IInv'
<1> DEFINE job == [topic |-> t, generation |-> generation[t], read |-> Unread]
<1>0. job \in Job
  BY WsRpcAssumption DEF IInv, TypeOK, Job, Unread
<1>1. /\ queue' \in Seq(Job) /\ Len(queue) <= Len(queue')
      /\ \A i \in DOMAIN queue : i \in DOMAIN queue' /\ queue'[i] = queue[i]
      /\ \A i \in DOMAIN queue' : i \notin DOMAIN queue => i = Len(queue) + 1 /\ queue'[i] = job
      /\ subscriptions[t] # {} =>
           Len(queue) + 1 \in DOMAIN queue' /\ queue'[Len(queue) + 1] = job
      /\ \A i \in DOMAIN queue : i < Len(queue) + 1 /\ i > 0
      /\ queue \in Seq(Job)
  <2> HIDE DEF job
  <2>1. queue \in Seq(Job) /\ \A i \in DOMAIN queue : i < Len(queue) + 1 /\ i > 0
    BY DEF IInv, TypeOK
  <2>2. CASE subscriptions[t] = {}
    <3>1. queue' = queue
      BY <2>2 DEF AddressUpdate
    <3> QED BY <2>1, <2>2, <3>1
  <2>3. CASE subscriptions[t] # {}
    <3>1. queue' = Append(queue, job)
      BY <2>3 DEF AddressUpdate, job
    <3>2. /\ queue' \in Seq(Job) /\ Len(queue') = Len(queue) + 1
          /\ \A i \in 1..Len(queue) : queue'[i] = queue[i]
          /\ queue'[Len(queue) + 1] = job
      BY <1>0, <2>1, <3>1, AppendProperties
    <3> QED BY <2>1, <3>2
  <2> QED BY <2>2, <2>3
<1> HIDE DEF job
<1>2. TypeOK'
  <2>1. unannounced' \subseteq Topic
    BY DEF IInv, TypeOK, AddressUpdate
  <2>2. UNCHANGED <<clientVars, balance, silent, blocks, running, delivered, lost, changes>>
    BY DEF AddressUpdate
  <2> QED BY <1>1, <2>1, <2>2 DEF IInv, TypeOK, clientVars
<1>3. SubscriptionsExact' /\ ListenersCover'
  BY ClientsKept DEF AddressUpdate
<1>4. OneRunning'
  BY <1>1 DEF IInv, OneRunning, AddressUpdate, job
<1>5. ReadsAreFresh'
  BY DEF IInv, ReadsAreFresh, AddressUpdate
<1>6. ASSUME NEW c \in Client, NEW u \in Topic, Waits(c, u)'
      PROVE  /\ Waits(c, u)
             /\ \A i \in DOMAIN running :
                  running[i].topic = u => TellsNow(running[i])' = TellsNow(running[i])
             /\ \A i \in DOMAIN queue \cup {0} : WillNotify(u, i) => WillNotify(u, i)'
             /\ u = t => \A i \in DOMAIN queue \cup {0} : WillNotify(u, i)'
  <2>1. Waits(c, u)
    BY <1>6 DEF Waits, AddressUpdate, clientVars
  <2>2. c \in subscriptions[u]
    BY <2>1 DEF Waits, IInv, SubscriptionsExact, ListenersCover
  <2>3. u = t => \A i \in DOMAIN queue \cup {0} : WillNotify(u, i)'
    <3> SUFFICES ASSUME u = t, NEW i \in DOMAIN queue \cup {0}
                 PROVE  WillNotify(u, i)'
      OBVIOUS
    <3>1. Len(queue) + 1 \in DOMAIN queue' /\ queue'[Len(queue) + 1] = job /\ Len(queue) + 1 > i
      BY <1>1, <2>2
    <3> QED BY <3>1 DEF WillNotify, job, AddressUpdate, clientVars
  <2>4. u # t => \A i \in DOMAIN queue \cup {0} : WillNotify(u, i) => WillNotify(u, i)'
    BY <1>1 DEF WillNotify, AddressUpdate, clientVars
  <2>5. \A i \in DOMAIN running :
          running[i].topic = u => TellsNow(running[i])' = TellsNow(running[i])
    BY DEF TellsNow, AddressUpdate, clientVars
  <2> QED BY <2>1, <2>3, <2>4, <2>5
<1>7. StaleIsFollowed'
  <2> SUFFICES ASSUME NEW c \in Client, NEW u \in Topic, Waits(c, u)'
               PROVE  (/\ \A i \in DOMAIN queue :
                            queue[i].topic = u /\ queue[i].generation # generation[u]
                              => WillNotify(u, i)
                       /\ \A i \in DOMAIN running :
                            running[i].topic = u /\ ~TellsNow(running[i]) => WillNotify(u, 0))'
    BY DEF StaleIsFollowed
  <2>1. ASSUME NEW i \in DOMAIN queue', queue'[i].topic = u, queue'[i].generation # generation[u]
        PROVE  i \in DOMAIN queue /\ queue[i] = queue'[i]
    BY <2>1, <1>1 DEF job
  <2>2. generation' = generation /\ running' = running
    BY DEF AddressUpdate, clientVars
  <2>3. ASSUME NEW i \in DOMAIN queue', queue'[i].topic = u, queue'[i].generation # generation[u]
        PROVE  WillNotify(u, i)'
    <3>1. WillNotify(u, i) /\ i \in DOMAIN queue
      BY <1>6, <2>1, <2>3 DEF IInv, StaleIsFollowed
    <3> QED BY <1>6, <3>1
  <2>4. ASSUME NEW i \in DOMAIN running, running[i].topic = u, ~TellsNow(running[i])'
        PROVE  WillNotify(u, 0)'
    <3>1. WillNotify(u, 0)
      BY <1>6, <2>4 DEF IInv, StaleIsFollowed
    <3> QED BY <1>6, <3>1
  <2> QED BY <2>2, <2>3, <2>4
<1>8. NobodyForgotten'
  <2> SUFFICES ASSUME NEW c \in Client, NEW u \in Topic, Waits(c, u)'
               PROVE  (\/ WillNotify(u, 0)
                       \/ \E i \in DOMAIN running : running[i].topic = u /\ TellsNow(running[i])
                       \/ delivered[c][u] = balance[u]
                       \/ u \in lost)'
    BY DEF NobodyForgotten
  <2>1. UNCHANGED <<running, delivered, balance, silent, lost>>
    BY DEF AddressUpdate
  <2>2. \/ WillNotify(u, 0)
        \/ \E i \in DOMAIN running : running[i].topic = u /\ TellsNow(running[i])
        \/ delivered[c][u] = balance[u]
        \/ u \in lost
    BY <1>6 DEF IInv, NobodyForgotten
  <2> QED BY <1>6, <2>1, <2>2
<1> QED BY <1>2, <1>3, <1>4, <1>5, <1>7, <1>8 DEF IInv

(* The head of the queue moves over; the others come one position closer.   *)
LEMMA StartStep ==
  ASSUME IInv, StartNotification
  PROVE  IInv'
<1>1. /\ queue \in Seq(Job) /\ queue # <<>>
      /\ running = <<>>
      /\ Head(queue) \in Job /\ Head(queue) = queue[1] /\ 1 \in DOMAIN queue
  BY DEF IInv, TypeOK, StartNotification
<1>2. running' = <<queue[1]>>
  BY <1>1 DEF StartNotification
<1>3. /\ queue' \in Seq(Job)
      /\ \A i \in DOMAIN queue' : i + 1 \in DOMAIN queue /\ queue'[i] = queue[i + 1]
      /\ \A i \in DOMAIN queue : i > 1 => i - 1 \in DOMAIN queue'
  BY <1>1, HeadTailProperties DEF StartNotification
<1>4. UNCHANGED <<clientVars, balance, silent, blocks, unannounced, delivered, lost, changes>>
  BY DEF StartNotification
<1>5. UNCHANGED <<generation, wanted, subscribedAt>>
  BY <1>4 DEF clientVars
<1>6. running' \in Seq(Job) /\ DOMAIN running' = {1} /\ running'[1] = queue[1]
  BY <1>1, <1>2
<1>7. TypeOK'
  BY <1>3, <1>4, <1>6, Z3 DEF IInv, TypeOK, clientVars
<1>8. SubscriptionsExact' /\ ListenersCover'
  BY <1>4, ClientsKept
<1>9. queue[1].read = Unread
  BY <1>1 DEF IInv, OneRunning
<1>10. OneRunning'
  BY <1>2, <1>3 DEF IInv, OneRunning
<1>11. ReadsAreFresh'
  BY <1>4, <1>6, <1>9 DEF IInv, ReadsAreFresh
<1>12. ASSUME NEW t \in Topic, NEW k \in Nat, WillNotify(t, k + 1)
       PROVE  WillNotify(t, k)'
  <2>1. CASE t \in unannounced
    BY <2>1, <1>4 DEF WillNotify
  <2>2. CASE t \notin unannounced
    <3>1. PICK j \in DOMAIN queue :
            j > k + 1 /\ queue[j].topic = t /\ queue[j].generation = generation[t]
      BY <1>12, <2>2 DEF WillNotify
    <3>2. j \in Nat /\ j > 1 /\ j - 1 > k /\ (j - 1) + 1 = j
      BY <3>1, <1>1
    <3>3. j - 1 \in DOMAIN queue' /\ queue'[j - 1] = queue[j]
      BY <1>3, <3>2
    <3> QED BY <3>1, <3>2, <3>3, <1>5 DEF WillNotify
  <2> QED BY <2>1, <2>2
<1>13. ASSUME NEW c \in Client, NEW t \in Topic, Waits(c, t)'
       PROVE  Waits(c, t)
  BY <1>13, <1>4, <1>5 DEF Waits
<1>14. TellsNow(running[1])' <=> queue[1].generation = generation[queue[1].topic]
  BY <1>5, <1>6, <1>9 DEF TellsNow
<1>15. StaleIsFollowed'
  <2> SUFFICES ASSUME NEW c \in Client, NEW t \in Topic, Waits(c, t)'
               PROVE  (/\ \A i \in DOMAIN queue :
                            queue[i].topic = t /\ queue[i].generation # generation[t]
                              => WillNotify(t, i)
                       /\ \A i \in DOMAIN running :
                            running[i].topic = t /\ ~TellsNow(running[i]) => WillNotify(t, 0))'
    BY DEF StaleIsFollowed
  <2>1. \A i \in DOMAIN queue :
          queue[i].topic = t /\ queue[i].generation # generation[t] => WillNotify(t, i)
    BY <1>13 DEF IInv, StaleIsFollowed
  <2>2. ASSUME NEW i \in DOMAIN queue', queue'[i].topic = t, queue'[i].generation # generation'[t]
        PROVE  WillNotify(t, i)'
    <3>1. i + 1 \in DOMAIN queue /\ queue'[i] = queue[i + 1] /\ i \in Nat
      BY <1>3
    <3>2. WillNotify(t, i + 1)
      BY <2>1, <2>2, <3>1, <1>5
    <3> QED BY <3>1, <3>2, <1>12
  <2>3. ASSUME queue[1].topic = t, ~TellsNow(running[1])'
        PROVE  WillNotify(t, 0)'
    <3>1. WillNotify(t, 1)
      BY <2>1, <2>3, <1>1, <1>14
    <3> QED BY <3>1, <1>12
  <2> QED BY <2>2, <2>3, <1>6
<1>16. NobodyForgotten'
  <2> SUFFICES ASSUME NEW c \in Client, NEW t \in Topic, Waits(c, t)'
               PROVE  (\/ WillNotify(t, 0)
                       \/ \E i \in DOMAIN running : running[i].topic = t /\ TellsNow(running[i])
                       \/ delivered[c][t] = balance[t]
                       \/ t \in lost)'
    BY DEF NobodyForgotten
  <2>1. \/ WillNotify(t, 0)
        \/ delivered[c][t] = balance[t]
        \/ t \in lost
    BY <1>1, <1>13 DEF IInv, NobodyForgotten
  <2>2. CASE WillNotify(t, 0)
    <3>1. CASE WillNotify(t, 1)
      BY <3>1, <1>12
    <3>2. CASE ~WillNotify(t, 1)
      <4>1. queue[1].topic = t /\ queue[1].generation = generation[t]
        BY <2>2, <3>2, <1>1 DEF WillNotify
      <4> QED BY <4>1, <1>6, <1>14
    <3> QED BY <3>1, <3>2
  <2>3. CASE delivered[c][t] = balance[t] \/ t \in lost
    BY <2>3, <1>4
  <2> QED BY <2>1, <2>2, <2>3
<1> QED BY <1>7, <1>8, <1>10, <1>11, <1>15, <1>16 DEF IInv

(* What a step of the running notification leaves as it is.                 *)
LEMMA QueueKept ==
  ASSUME IInv, UNCHANGED <<clientVars, balance, silent, blocks, unannounced, queue, changes>>
  PROVE  /\ SubscriptionsExact' /\ ListenersCover'
         /\ \A i \in DOMAIN queue' : queue'[i].read = Unread
         /\ \A c \in Client, t \in Topic : Waits(c, t)' = Waits(c, t)
         /\ \A t \in Topic, k \in Nat : WillNotify(t, k)' = WillNotify(t, k)
         /\ UNCHANGED <<generation, wanted, subscriptions, connected>>
<1>1. SubscriptionsExact' /\ ListenersCover'
  BY ClientsKept
<1>2. \A i \in DOMAIN queue' : queue'[i].read = Unread
  BY DEF IInv, OneRunning
<1>3. UNCHANGED <<generation, wanted, subscribedAt, subscriptions, connected>>
  BY DEF clientVars
<1> QED BY <1>1, <1>2, <1>3 DEF Waits, WillNotify

(* The query answers with the balance of now.                               *)
LEMMA ReadStep ==
  ASSUME IInv, NEW i \in DOMAIN running, ReadBalance(i)
  PROVE  IInv'
<1>1. i = 1 /\ DOMAIN running = {1} /\ running[1] \in Job /\ running \in Seq(Job) /\ Len(running) = 1
  <2>1. running \in Seq(Job) /\ Len(running) <= 1 /\ Len(running) \in Nat /\ i \in 1..Len(running)
    BY DEF IInv, TypeOK, OneRunning
  <2>2. i = 1 /\ Len(running) = 1 /\ DOMAIN running = {1}
    BY <2>1, RunningGone
  <2> QED BY <2>1, <2>2
<1> DEFINE job == running[1]
           done == [job EXCEPT !.read = balance[job.topic]]
<1>2. done \in Job /\ done.topic = job.topic /\ done.generation = job.generation
      /\ done.read = balance[job.topic] /\ job.topic \in Topic
  <2>1. running[1].topic \in Topic
    BY <1>1 DEF Job
  <2>2. balance[running[1].topic] \in 0..Unread
    BY <2>1, WsRpcAssumption DEF IInv, TypeOK, Unread
  <2> QED BY <1>1, <2>1, <2>2, Answered
<1>3. running' = [running EXCEPT ![1] = done]
  BY <1>1 DEF ReadBalance
<1> HIDE DEF done
<1>4. running' \in Seq(Job) /\ Len(running') = 1 /\ DOMAIN running' = {1} /\ running'[1] = done
  <2>1. 1 \in 1..Len(running)
    BY <1>1
  <2>2. running \in Seq(Job) /\ done \in Job
    BY <1>1, <1>2
  <2> DEFINE after == [running EXCEPT ![1] = done]
  <2>3. after \in Seq(Job) /\ Len(after) = Len(running) /\ after[1] = done
    BY <2>1, <2>2, ExceptSeq
  <2> HIDE DEF after
  <2>4. DOMAIN after = {1}
    BY <2>3, <1>1
  <2> QED BY <1>1, <1>3, <2>3, <2>4 DEF after
<1>5. UNCHANGED <<clientVars, balance, silent, blocks, unannounced, queue, delivered, lost, changes>>
  BY DEF ReadBalance
<1>6. TypeOK'
  BY <1>4, <1>5 DEF IInv, TypeOK, clientVars
<1>7. SubscriptionsExact' /\ ListenersCover' /\ OneRunning'
  BY <1>4, <1>5, QueueKept DEF OneRunning
<1>8. ReadsAreFresh'
  <2>1. balance[job.topic] \in Nat /\ balance[job.topic] <= balance[job.topic]
    BY <1>2, Values DEF IInv
  <2> QED BY <1>2, <1>4, <1>5, <2>1 DEF IInv, ReadsAreFresh
<1>9. TellsNow(running[1])' <=> job.generation = generation[job.topic]
  BY <1>2, <1>4, <1>5, QueueKept DEF TellsNow
<1>10. TellsNow(job) <=> job.generation = generation[job.topic]
  BY <1>1 DEF TellsNow, ReadBalance
<1>11. StaleIsFollowed'
  <2> SUFFICES ASSUME NEW c \in Client, NEW t \in Topic, Waits(c, t)'
               PROVE  (/\ \A k \in DOMAIN queue :
                            queue[k].topic = t /\ queue[k].generation # generation[t]
                              => WillNotify(t, k)
                       /\ \A k \in DOMAIN running :
                            running[k].topic = t /\ ~TellsNow(running[k]) => WillNotify(t, 0))'
    BY DEF StaleIsFollowed
  <2>1. /\ \A k \in DOMAIN queue :
             queue[k].topic = t /\ queue[k].generation # generation[t] => WillNotify(t, k)
        /\ job.topic = t /\ ~TellsNow(job) => WillNotify(t, 0)
    BY <1>1, <1>5, QueueKept DEF IInv, StaleIsFollowed
  <2>2. \A k \in DOMAIN queue : k \in Nat
    BY DEF IInv, TypeOK
  <2>3. ASSUME NEW k \in DOMAIN queue', queue'[k].topic = t, queue'[k].generation # generation'[t]
        PROVE  WillNotify(t, k)'
    BY <2>1, <2>2, <2>3, <1>5, QueueKept
  <2>4. job.topic = t /\ ~TellsNow(running[1])' => WillNotify(t, 0)'
    BY <2>1, <1>5, <1>9, <1>10, QueueKept
  <2> QED BY <2>3, <2>4, <1>2, <1>4
<1>12. NobodyForgotten'
  <2> SUFFICES ASSUME NEW c \in Client, NEW t \in Topic, Waits(c, t)'
               PROVE  (\/ WillNotify(t, 0)
                       \/ \E k \in DOMAIN running : running[k].topic = t /\ TellsNow(running[k])
                       \/ delivered[c][t] = balance[t]
                       \/ t \in lost)'
    BY DEF NobodyForgotten
  <2>1. \/ WillNotify(t, 0)
        \/ job.topic = t /\ TellsNow(job)
        \/ delivered[c][t] = balance[t]
        \/ t \in lost
    BY <1>1, <1>5, QueueKept DEF IInv, NobodyForgotten
  <2>2. WillNotify(t, 0)' = WillNotify(t, 0)
    BY <1>5, QueueKept
  <2>3. job.topic = t /\ TellsNow(job) => running'[1].topic = t /\ TellsNow(running[1])'
    BY <1>2, <1>4, <1>9, <1>10
  <2> QED BY <2>1, <2>2, <2>3, <1>4, <1>5
<1> QED BY <1>6, <1>7, <1>8, <1>11, <1>12 DEF IInv

(* The balance reaches the members of the Set; who is not told by a stale   *)
(* notification has another one coming.                                     *)
LEMMA SendStep ==
  ASSUME IInv, NEW i \in DOMAIN running, SendBalance(i)
  PROVE  IInv'
<1>1. i = 1 /\ DOMAIN running = {1} /\ running[1] \in Job /\ running' = <<>>
  <2>1. running \in Seq(Job) /\ Len(running) <= 1 /\ Len(running) \in Nat /\ i \in 1..Len(running)
    BY DEF IInv, TypeOK, OneRunning
  <2>2. i = 1 /\ DOMAIN running = {1} /\ RemoveAt(running, i) = <<>>
    BY <2>1, RunningGone
  <2> QED BY <2>1, <2>2 DEF SendBalance
<1> DEFINE job == running[1]
<1>2. job.topic \in Topic /\ job.read \in 0..MaxBlocks /\ job.read # Unread /\ job.read \in Nat
  BY <1>1, WsRpcAssumption DEF SendBalance, Job, Unread
<1>3. /\ delivered' = [c \in Client |-> IF c \in Subscribers(job)
                                       THEN [delivered[c] EXCEPT ![job.topic] = job.read]
                                       ELSE delivered[c]]
      /\ lost' = lost \ {job.topic}
      /\ UNCHANGED <<clientVars, balance, silent, blocks, unannounced, queue, changes>>
  BY <1>1 DEF SendBalance
<1>4. /\ \A c \in Client, t \in Topic : c \in Subscribers(job) /\ t = job.topic => delivered'[c][t] = job.read
      /\ \A c \in Client, t \in Topic : ~(c \in Subscribers(job) /\ t = job.topic)
                                     => delivered'[c][t] = delivered[c][t]
      /\ delivered' \in [Client -> [Topic -> 0..MaxBlocks]]
  <2> HIDE DEF job
  <2>1. delivered \in [Client -> [Topic -> 0..MaxBlocks]]
    BY DEF IInv, TypeOK
  <2> QED BY <2>1, <1>2, <1>3
<1> HIDE DEF job
<1>5. TypeOK'
  BY <1>1, <1>3, <1>4, Z3 DEF IInv, TypeOK, clientVars
<1>6. SubscriptionsExact' /\ ListenersCover' /\ OneRunning'
  BY <1>1, <1>3, QueueKept DEF OneRunning
<1>7. job.read <= balance[job.topic]
  BY <1>1, <1>2 DEF IInv, ReadsAreFresh, job
<1>8. ReadsAreFresh'
  BY <1>1, <1>3, <1>4, <1>7 DEF IInv, ReadsAreFresh
<1>9. StaleIsFollowed'
  <2> SUFFICES ASSUME NEW c \in Client, NEW t \in Topic, Waits(c, t)'
               PROVE  (/\ \A k \in DOMAIN queue :
                            queue[k].topic = t /\ queue[k].generation # generation[t]
                              => WillNotify(t, k)
                       /\ \A k \in DOMAIN running :
                            running[k].topic = t /\ ~TellsNow(running[k]) => WillNotify(t, 0))'
    BY DEF StaleIsFollowed
  <2>1. \A k \in DOMAIN queue :
          queue[k].topic = t /\ queue[k].generation # generation[t] => WillNotify(t, k)
    BY <1>3, QueueKept DEF IInv, StaleIsFollowed
  <2>2. \A k \in DOMAIN queue : k \in Nat
    BY DEF IInv, TypeOK
  <2>3. ASSUME NEW k \in DOMAIN queue', queue'[k].topic = t, queue'[k].generation # generation'[t]
        PROVE  WillNotify(t, k)'
    BY <2>1, <2>2, <2>3, <1>3, QueueKept
  <2> QED BY <2>3, <1>1
<1>10. NobodyForgotten'
  <2> SUFFICES ASSUME NEW c \in Client, NEW t \in Topic, Waits(c, t)'
               PROVE  (\/ WillNotify(t, 0)
                       \/ \E k \in DOMAIN running : running[k].topic = t /\ TellsNow(running[k])
                       \/ delivered[c][t] = balance[t]
                       \/ t \in lost)'
    BY DEF NobodyForgotten
  <2>1. WillNotify(t, 0)' = WillNotify(t, 0) /\ Waits(c, t) /\ balance' = balance
    BY <1>3, QueueKept
  <2>2. CASE t # job.topic
    BY <2>1, <2>2, <1>1, <1>3, <1>4 DEF IInv, NobodyForgotten, job
  <2>3. CASE t = job.topic /\ ~TellsNow(job)
    BY <2>1, <2>3, <1>1 DEF IInv, StaleIsFollowed, job
  <2>4. CASE t = job.topic /\ TellsNow(job)
    <3>1. c \in subscriptions[t]
      BY <2>1 DEF Waits, IInv, SubscriptionsExact, ListenersCover
    <3>2. c \in Subscribers(job) /\ job.read = balance[t]
      BY <2>4, <3>1, <1>2 DEF TellsNow, Subscribers
    <3> QED BY <2>1, <2>4, <3>2, <1>4
  <2> QED BY <2>2, <2>3, <2>4
<1> QED BY <1>5, <1>6, <1>8, <1>9, <1>10 DEF IInv

(* A failed query is remembered in lost.                                    *)
LEMMA FailStep ==
  ASSUME IInv, NEW i \in DOMAIN running, FailNotification(i)
  PROVE  IInv'
<1>1. i = 1 /\ DOMAIN running = {1} /\ running[1] \in Job /\ running' = <<>>
  <2>1. running \in Seq(Job) /\ Len(running) <= 1 /\ Len(running) \in Nat /\ i \in 1..Len(running)
    BY DEF IInv, TypeOK, OneRunning
  <2>2. i = 1 /\ DOMAIN running = {1} /\ RemoveAt(running, i) = <<>>
    BY <2>1, RunningGone
  <2> QED BY <2>1, <2>2 DEF FailNotification
<1>2. /\ lost' = lost \cup {running[1].topic} /\ running[1].topic \in Topic
      /\ UNCHANGED <<clientVars, balance, silent, blocks, unannounced, queue, delivered, changes>>
  BY <1>1 DEF FailNotification, Job
<1>3. TypeOK'
  <2>1. lost' \subseteq Topic /\ running' \in Seq(Job)
    BY <1>1, <1>2 DEF IInv, TypeOK
  <2> QED BY <1>2, <2>1, Z3 DEF IInv, TypeOK, clientVars
<1>4. SubscriptionsExact' /\ ListenersCover' /\ OneRunning'
  BY <1>1, <1>2, QueueKept DEF OneRunning
<1>5. ReadsAreFresh'
  BY <1>1, <1>2 DEF IInv, ReadsAreFresh
<1>6. StaleIsFollowed'
  <2> SUFFICES ASSUME NEW c \in Client, NEW t \in Topic, Waits(c, t)'
               PROVE  (/\ \A k \in DOMAIN queue :
                            queue[k].topic = t /\ queue[k].generation # generation[t]
                              => WillNotify(t, k)
                       /\ \A k \in DOMAIN running :
                            running[k].topic = t /\ ~TellsNow(running[k]) => WillNotify(t, 0))'
    BY DEF StaleIsFollowed
  <2>1. \A k \in DOMAIN queue :
          queue[k].topic = t /\ queue[k].generation # generation[t] => WillNotify(t, k)
    BY <1>2, QueueKept DEF IInv, StaleIsFollowed
  <2>2. \A k \in DOMAIN queue : k \in Nat
    BY DEF IInv, TypeOK
  <2>3. ASSUME NEW k \in DOMAIN queue', queue'[k].topic = t, queue'[k].generation # generation'[t]
        PROVE  WillNotify(t, k)'
    BY <2>1, <2>2, <2>3, <1>2, QueueKept
  <2> QED BY <2>3, <1>1
<1>7. NobodyForgotten'
  <2> SUFFICES ASSUME NEW c \in Client, NEW t \in Topic, Waits(c, t)'
               PROVE  (\/ WillNotify(t, 0)
                       \/ \E k \in DOMAIN running : running[k].topic = t /\ TellsNow(running[k])
                       \/ delivered[c][t] = balance[t]
                       \/ t \in lost)'
    BY DEF NobodyForgotten
  <2>1. WillNotify(t, 0)' = WillNotify(t, 0) /\ Waits(c, t)
    BY <1>2, QueueKept
  <2> QED BY <2>1, <1>1, <1>2 DEF IInv, NobodyForgotten
<1> QED BY <1>3, <1>4, <1>5, <1>6, <1>7 DEF IInv

-----------------------------------------------------------------------------
LEMMA NextIInv == IInv /\ [Next]_vars => IInv'
<1> SUFFICES ASSUME IInv, [Next]_vars PROVE IInv'
  OBVIOUS
<1>1. CASE UNCHANGED vars
  <2>1. UNCHANGED <<connected, subscriptions, generation, onClose, balance, silent, blocks, unannounced, queue,
                    running, delivered, wanted, subscribedAt, lost, changes>>
    BY <1>1 DEF vars
  <2>2. TypeOK' /\ SubscriptionsExact' /\ ListenersCover' /\ OneRunning' /\ ReadsAreFresh'
    BY <2>1 DEF IInv, TypeOK, SubscriptionsExact, ListenersCover, OneRunning, ReadsAreFresh
  <2>3. StaleIsFollowed' /\ NobodyForgotten'
    BY <2>1 DEF IInv, StaleIsFollowed, NobodyForgotten, Waits, WillNotify, TellsNow
  <2> QED BY <2>2, <2>3 DEF IInv
<1>2. CASE Clients
  BY <1>2, ConnectStep, CloseStep, SubscribeStep, UnsubscribeStep DEF Clients
<1>3. ASSUME NEW changed \in SUBSET Topic, NEW named \in SUBSET Topic, CommitBlock(changed, named)
      PROVE  IInv'
  BY <1>3, CommitStep
<1>4. ASSUME NEW t \in Topic, AddressUpdate(t) PROVE IInv'
  BY <1>4, AddressUpdateStep
<1>5. CASE Notify
  BY <1>5, StartStep, ReadStep, SendStep DEF Notify
<1>6. ASSUME NEW i \in DOMAIN running, FailNotification(i) PROVE IInv'
  BY <1>6, FailStep
<1> QED BY <1>1, <1>2, <1>3, <1>4, <1>5, <1>6 DEF Next

(* The invariant holds throughout: every handler of ws-rpc.ts keeps it.     *)
THEOREM Invariant == Spec => []IInv
<1>1. Init => IInv
  BY InitIInv
<1>2. IInv /\ [Next]_vars => IInv'
  BY NextIInv
<1> QED BY <1>1, <1>2, PTL DEF Spec

(* Type correctness: what is sent was read, and every counter stays within  *)
(* its bound.                                                               *)
THEOREM TypeCorrect == Spec => []TypeOK
<1>1. IInv => TypeOK
  BY DEF IInv
<1> QED BY <1>1, Invariant, PTL

(* The subscription manager's Sets hold exactly the connected clients that  *)
(* asked for the topic: addSubscription, removeSubscription and the close   *)
(* listeners never leak a socket nor drop somebody else's.                  *)
THEOREM ManagerIsExact == Spec => []SubscriptionsExact
<1>1. IInv => SubscriptionsExact
  BY DEF IInv
<1> QED BY <1>1, Invariant, PTL

(* Once the notifications of an address are through, whoever was subscribed *)
(* before its last change was sent the current balance, however             *)
(* subscriptions, commits and the queue's steps interleave, unless the      *)
(* query for it failed or the balance changed since in a block whose        *)
(* transactions do not name the address (a reward, a reorganization).       *)
THEOREM UpToDate == Spec => []SubscribersUpToDate
<1>1. IInv => SubscribersUpToDate
  <2> SUFFICES ASSUME IInv, NEW t \in Topic, Settled(t), t \notin lost, NEW c \in Client, Waits(c, t)
               PROVE  delivered[c][t] = balance[t]
    BY DEF SubscribersUpToDate, Waits
  <2>1. ~WillNotify(t, 0)
    BY DEF Settled, WillNotify
  <2> QED BY <2>1 DEF Settled, IInv, NobodyForgotten
<1> QED BY <1>1, Invariant, PTL

(* sendWsTxUpdate's order: no client receives an older balance of an        *)
(* address after a newer one, because the queue prepares one notification   *)
(* at a time.                                                               *)
THEOREM NeverGoesBack == Spec => BalanceNeverGoesBack
<1> DEFINE A == \A c \in Client, t \in Topic :
                  c \in connected => delivered'[c][t] >= delivered[c][t]
<1>1. IInv /\ [Next]_vars => [A]_vars
  <2> SUFFICES ASSUME IInv, Next, NEW c \in Client, NEW t \in Topic, c \in connected
               PROVE  delivered'[c][t] >= delivered[c][t]
    OBVIOUS
  <2>1. delivered[c][t] \in Nat /\ delivered \in [Client -> [Topic -> 0..MaxBlocks]]
    BY Values DEF IInv, TypeOK
  <2>2. CASE delivered' = delivered
    BY <2>1, <2>2
  <2>3. ASSUME NEW d \in Client, Connect(d) PROVE delivered'[c][t] >= delivered[c][t]
    BY <2>1, <2>3 DEF Connect
  <2>4. ASSUME NEW i \in DOMAIN running, SendBalance(i) PROVE delivered'[c][t] >= delivered[c][t]
    <3>1. running[i].topic \in Topic /\ running[i].read \in Nat
      BY Values DEF IInv
    <3>2. delivered[c][running[i].topic] <= running[i].read
      BY <2>4 DEF SendBalance, IInv, ReadsAreFresh
    <3>3. delivered'[c] = delivered[c] \/ delivered'[c] = [delivered[c] EXCEPT ![running[i].topic] = running[i].read]
      BY <2>4 DEF SendBalance
    <3> QED BY <2>1, <3>1, <3>2, <3>3
  <2> QED BY <2>2, <2>3, <2>4 DEF Next, Clients, Notify, Close, Subscribe, Unsubscribe, CommitBlock,
           AddressUpdate, StartNotification, ReadBalance, FailNotification
<1> HIDE DEF A
<1>2. Spec => [][A]_vars
  BY <1>1, Invariant, PTL DEF Spec
<1> QED BY <1>2 DEF A, BalanceNeverGoesBack

-----------------------------------------------------------------------------
(* What is left of a queue when its first message is taken.                 *)
LEMMA TailElements ==
  ASSUME NEW S, NEW q \in Seq(S), q # <<>>
  PROVE  /\ Tail(q) \in Seq(S) /\ 1 \in DOMAIN q /\ Head(q) = q[1] /\ q[1] \in S
         /\ \A i \in DOMAIN Tail(q) : i # 0 /\ i + 1 # 1 /\ i + 1 \in DOMAIN q /\ Tail(q)[i] = q[i + 1]
         /\ \A i \in DOMAIN q : i # 1 => \E j \in DOMAIN Tail(q) : Tail(q)[j] = q[i]
<1>1. /\ Tail(q) \in Seq(S) /\ 1 \in DOMAIN q /\ Head(q) = q[1] /\ q[1] \in S
      /\ \A i \in DOMAIN Tail(q) : i # 0 /\ i + 1 # 1 /\ i + 1 \in DOMAIN q /\ Tail(q)[i] = q[i + 1]
  OBVIOUS
<1>2. ASSUME NEW i \in DOMAIN q, i # 1
      PROVE  \E j \in DOMAIN Tail(q) : Tail(q)[j] = q[i]
  <2>1. i - 1 \in DOMAIN Tail(q) /\ Tail(q)[i - 1] = q[i]
    BY <1>2
  <2> QED BY <2>1
<1> QED BY <1>1, <1>2

(* A queue with a message put at its end.                                   *)
LEMMA AppendElements ==
  ASSUME NEW S, NEW q \in Seq(S), NEW e \in S
  PROVE  /\ Append(q, e) \in Seq(S) /\ Len(Append(q, e)) = Len(q) + 1
         /\ \A i \in DOMAIN q : i \in DOMAIN Append(q, e) /\ Append(q, e)[i] = q[i]
         /\ Len(q) + 1 \in DOMAIN Append(q, e) /\ Append(q, e)[Len(q) + 1] = e
         /\ \A i \in DOMAIN Append(q, e) : i \in DOMAIN q \/ i = Len(q) + 1
         /\ Len(q) + 1 \notin DOMAIN q
OBVIOUS

LEMMA HandleInitHolds == HandleInit => HandleIInv
<1> SUFFICES ASSUME HandleInit PROVE HandleIInv
  OBVIOUS
<1>1. Kinds
  <2>1. state \in [Sub -> {"idle", "calling", "answered", "leaving"} \cup SettledStates]
    BY DEF HandleInit
  <2>2. heard \in [Sub -> SUBSET Nat] /\ since \in [Sub -> Nat]
    BY DEF HandleInit
  <2>3. toServer \in Seq(Request) /\ toClient \in Seq(Answer \cup Notification) /\ sent \in Seq(UpdateTopic)
    BY DEF HandleInit
  <2>4. pending \subseteq [id : Nat, method : {"subscribe", "unsubscribe"}, sub : Sub] /\ served \subseteq UpdateTopic
    BY DEF HandleInit
  <2> QED BY <2>1, <2>2, <2>3, <2>4 DEF HandleInit, Kinds
<1>2. listeners = {s \in Sub : state[s] = "active"} /\ PendingIsCalled
  BY DEF HandleInit, PendingIsCalled
<1>3. RequestsArePending /\ NotesAreSent
  BY DEF HandleInit, RequestsArePending, NotesAreSent
<1>4. ServedForSomebody /\ SubscribedIsServed
  BY DEF HandleInit, ServedForSomebody, SubscribedIsServed, Subscribed
<1>5. NothingMissed
  BY DEF HandleInit, NothingMissed
<1> QED BY <1>1, <1>2, <1>3, <1>4, <1>5 DEF HandleIInv

-----------------------------------------------------------------------------
(* A handle calls for its subscription, or for the end of it: the new id is *)
(* on no promise and no message yet.                                        *)
LEMMA CallStep ==
  ASSUME HandleIInv, TopicOf \in [Sub -> UpdateTopic], NEW s \in Sub,
         NEW method \in {"subscribe", "unsubscribe"}, NEW to,
         \/ method = "subscribe" /\ state[s] = "idle" /\ to = "calling"
         \/ method = "unsubscribe" /\ state[s] = "active" /\ to = "leaving",
         rpcCall(method, s),
         state' = [state EXCEPT ![s] = to], listeners' = listeners \ {s},
         UNCHANGED <<toClient, served, sent, heard, since, closed, errors>>
  PROVE  HandleIInv'
<1> DEFINE p == [id |-> idCursor + 1, method |-> method, sub |-> s]
           m == [id |-> idCursor + 1, method |-> method, topic |-> TopicOf[s]]
<1>1. /\ idCursor' = idCursor + 1 /\ idCursor \in Nat /\ idCursor' \in Nat
      /\ m \in Request
      /\ p \in [id : Nat, method : {"subscribe", "unsubscribe"}, sub : Sub]
      /\ p.id = idCursor + 1 /\ p.method = method /\ p.sub = s
      /\ m.id = p.id /\ m.method = p.method /\ m.topic = TopicOf[s]
      /\ \A q \in pending : q.id # p.id
      /\ pending' = pending \cup {p}
      /\ toServer' = Append(toServer, m)
      /\ \A i \in DOMAIN toServer : toServer[i].id # m.id
      /\ \A j \in DOMAIN toClient : toClient[j].type # "notification" => toClient[j].id # m.id
  <2>1. m.id = p.id /\ m.method = p.method /\ m.topic = TopicOf[s]
    OBVIOUS
  <2>2. idCursor' = idCursor + 1 /\ idCursor \in Nat /\ idCursor' \in Nat
    BY DEF rpcCall, HandleIInv, Kinds
  <2>3. m \in Request /\ p \in [id : Nat, method : {"subscribe", "unsubscribe"}, sub : Sub]
    BY <2>2 DEF Request
  <2>4. \A q \in pending : q.id \in Nat /\ q.id <= idCursor
    BY DEF HandleIInv, Kinds, PendingIsCalled
  <2>5. \A q \in pending : q.id # idCursor + 1
    BY <2>2, <2>4
  <2>6. pending' = pending \cup {p} /\ toServer' = Append(toServer, m)
    BY <2>2, <2>5 DEF rpcCall
  <2>7. \A i \in DOMAIN toServer : toServer[i].id # m.id
    BY <2>5 DEF HandleIInv, RequestsArePending
  <2>8. ASSUME NEW j \in DOMAIN toClient, toClient[j].type # "notification"
        PROVE  toClient[j].id # m.id
    <3>1. toClient[j] \in Answer
      BY <2>8 DEF HandleIInv, Kinds, Notification
    <3>2. toClient[j].id \in Nat /\ toClient[j].id <= idCursor
      BY <2>8, <3>1 DEF HandleIInv, RequestsArePending, Answer
    <3> QED BY <2>2, <3>2
  <2> QED BY <2>1, <2>2, <2>3, <2>5, <2>6, <2>7, <2>8
<1> HIDE DEF p, m
<1>2. UNCHANGED <<toClient, served, sent, heard, since, closed, errors>>
  OBVIOUS
<1>3. state \in [Sub -> {"idle", "calling", "answered", "leaving"} \cup SettledStates]
  BY DEF HandleIInv, Kinds
<1>4. /\ state'[s] = to /\ to \in {"calling", "leaving"} /\ \A r \in Sub : r # s => state'[r] = state[r]
  BY <1>2, <1>3
<1>5. /\ toServer' \in Seq(Request)
      /\ \A i \in DOMAIN toServer : i \in DOMAIN toServer' /\ toServer'[i] = toServer[i]
      /\ \A i \in DOMAIN toServer' : i \in DOMAIN toServer \/ (i = Len(toServer) + 1 /\ toServer'[i] = m)
  BY <1>1, AppendElements DEF HandleIInv, Kinds
<1>6. Kinds'
  BY <1>1, <1>2, <1>3, <1>5 DEF HandleIInv, Kinds
<1>7. \A q \in pending : q.sub # s /\ q.sub \in Sub /\ q.id \in Nat
  BY DEF HandleIInv, Kinds, PendingIsCalled
<1>8. (listeners = {r \in Sub : state[r] = "active"})'
  BY <1>4 DEF HandleIInv
<1>9. PendingIsCalled'
  <2>1. \A q, r \in pending' : q.id = r.id \/ q.sub = r.sub => q = r
    BY <1>1, <1>7 DEF HandleIInv, PendingIsCalled
  <2>2. \A q \in pending' :
          q.id <= idCursor' /\ state'[q.sub] = IF q.method = "subscribe" THEN "calling" ELSE "leaving"
    BY <1>1, <1>4, <1>7 DEF HandleIInv, PendingIsCalled
  <2>3. \A r \in Sub : state'[r] \in {"calling", "leaving"} => \E q \in pending' : q.sub = r
    BY <1>1, <1>4 DEF HandleIInv, PendingIsCalled
  <2> QED BY <2>1, <2>2, <2>3 DEF PendingIsCalled
<1>10. RequestsArePending'
  <2>1. \A i \in DOMAIN toServer' : \E q \in pending' :
          q.id = toServer'[i].id /\ q.method = toServer'[i].method /\ TopicOf[q.sub] = toServer'[i].topic
    BY <1>1, <1>5 DEF HandleIInv, RequestsArePending
  <2>2. \A i, j \in DOMAIN toServer' : toServer'[i].id = toServer'[j].id => i = j
    BY <1>1, <1>5 DEF HandleIInv, RequestsArePending
  <2>3. \A j \in DOMAIN toClient : toClient[j].type # "notification" =>
          toClient[j].id \in Nat /\ toClient[j].id <= idCursor'
    <3> SUFFICES ASSUME NEW j \in DOMAIN toClient, toClient[j].type # "notification"
                 PROVE  toClient[j].id \in Nat /\ toClient[j].id <= idCursor'
      OBVIOUS
    <3>1. toClient[j] \in Answer
      BY DEF HandleIInv, Kinds, Notification
    <3> QED BY <1>1, <3>1 DEF HandleIInv, RequestsArePending, Answer
  <2>4. \A j \in DOMAIN toClient : toClient[j].type # "notification" =>
          /\ \A i \in DOMAIN toServer' : toServer'[i].id # toClient[j].id
          /\ toClient[j].type = "error" => errors > 0
    BY <1>1, <1>5 DEF HandleIInv, RequestsArePending
  <2> QED BY <2>1, <2>2, <2>3, <2>4, <1>2 DEF RequestsArePending
<1>11. NotesAreSent'
  BY <1>2 DEF HandleIInv, NotesAreSent
<1>12. /\ \A r \in Sub : r # s => (Subscribed(r)' <=> Subscribed(r))
       /\ ~Subscribed(s)'
  <2>1. ~Granted(p)
    BY <1>1 DEF Granted
  <2>2. \A q : Granted(q)' <=> Granted(q)
    BY <1>2 DEF Granted
  <2> QED BY <2>1, <2>2, <1>1, <1>2, <1>4, <1>7 DEF Subscribed
<1>13. ServedForSomebody'
  <2>1. \A q \in pending : OnItsWay(q) => OnItsWay(q)'
    BY <1>5 DEF OnItsWay
  <2>2. \E i \in DOMAIN toServer' : toServer'[i].id = p.id
    <3>1. toServer \in Seq(Request) /\ m \in Request /\ toServer' = Append(toServer, m) /\ m.id = p.id
      BY <1>1 DEF HandleIInv, Kinds
    <3>2. Len(toServer) + 1 \in DOMAIN toServer' /\ toServer'[Len(toServer) + 1] = m
      BY <3>1, AppendElements
    <3> QED BY <3>1, <3>2
  <2>3. \A q : q \in pending => q \in pending'
    BY <1>1
  <2>4. ASSUME Subscribed(s) PROVE method = "unsubscribe"
    BY <2>4, <1>7 DEF Subscribed
  <2> SUFFICES ASSUME errors = 0, NEW t \in served
               PROVE  \E r \in Sub : TopicOf[r] = t
                        /\ (Subscribed(r)' \/ \E q \in pending' : q.sub = r /\ q.method = "unsubscribe" /\ OnItsWay(q)')
    BY <1>2 DEF ServedForSomebody
  <2>5. PICK r \in Sub : TopicOf[r] = t
          /\ (Subscribed(r) \/ \E q \in pending : q.sub = r /\ q.method = "unsubscribe" /\ OnItsWay(q))
    BY DEF HandleIInv, ServedForSomebody
  <2>6. CASE r # s
    BY <2>1, <2>3, <2>5, <2>6, <1>12
  <2>7. CASE r = s
    <3>1. method = "unsubscribe"
      BY <1>7, <2>4, <2>5, <2>7
    <3>2. p \in pending' /\ p.sub = r /\ p.method = "unsubscribe"
      BY <1>1, <2>7, <3>1
    <3> QED BY <2>2, <2>5, <3>2 DEF OnItsWay
  <2> QED BY <2>6, <2>7
<1>14. SubscribedIsServed'
  <2>1. \A r \in Sub : SharedAndLeft(r) => SharedAndLeft(r)'
    BY <1>2, <1>4 DEF SharedAndLeft
  <2> QED BY <2>1, <1>2, <1>12 DEF HandleIInv, SubscribedIsServed
<1>15. NothingMissed'
  BY <1>2, <1>4 DEF HandleIInv, NothingMissed
<1> QED BY <1>6, <1>8, <1>9, <1>10, <1>11, <1>13, <1>14, <1>15 DEF HandleIInv

LEMMA SubscribeCallStep ==
  ASSUME HandleIInv, TopicOf \in [Sub -> UpdateTopic], NEW s \in Sub, subscribe(s)
  PROVE  HandleIInv'
<1>1. listeners' = listeners \ {s}
  BY DEF subscribe, HandleIInv
<1> QED BY <1>1, CallStep DEF subscribe

LEMMA UnsubscribeCallStep ==
  ASSUME HandleIInv, TopicOf \in [Sub -> UpdateTopic], NEW s \in Sub, unsubscribe(s)
  PROVE  HandleIInv'
BY CallStep DEF unsubscribe, RemoveListener

(* The await of a subscribe call goes on.                                   *)
LEMMA AddListenerStep ==
  ASSUME HandleIInv, NEW s \in Sub, AddListener(s)
  PROVE  HandleIInv'
<1> USE DEF AddListener
<1>1. state \in [Sub -> {"idle", "calling", "answered", "leaving"} \cup SettledStates] /\ Len(sent) \in Nat
  BY DEF HandleIInv, Kinds
<1>2. state'[s] = "active" /\ \A r \in Sub : r # s => state'[r] = state[r]
  BY <1>1
<1>3. Kinds'
  BY <1>1 DEF HandleIInv, Kinds, SettledStates
<1>4. (listeners = {r \in Sub : state[r] = "active"})'
  BY <1>2 DEF HandleIInv
<1>5. \A q \in pending : q.sub # s /\ q.sub \in Sub
  BY DEF HandleIInv, Kinds, PendingIsCalled
<1>6. PendingIsCalled'
  BY <1>2, <1>5 DEF HandleIInv, PendingIsCalled
<1>7. RequestsArePending' /\ NotesAreSent'
  BY DEF HandleIInv, RequestsArePending, NotesAreSent
<1>8. \A q : (Granted(q)' <=> Granted(q)) /\ (OnItsWay(q)' <=> OnItsWay(q))
  BY DEF Granted, OnItsWay
<1>9. \A r \in Sub : Subscribed(r)' <=> Subscribed(r)
  BY <1>2, <1>8 DEF Subscribed
<1>10. ServedForSomebody'
  BY <1>8, <1>9 DEF HandleIInv, ServedForSomebody
<1>11. SubscribedIsServed'
  <2>1. \A r \in Sub : SharedAndLeft(r) => SharedAndLeft(r)'
    BY <1>2 DEF SharedAndLeft
  <2> QED BY <2>1, <1>9 DEF HandleIInv, SubscribedIsServed
<1>12. NothingMissed'
  <2>1. since'[s] = Len(sent) /\ \A r \in Sub : r # s => since'[r] = since[r]
    BY DEF HandleIInv, Kinds
  <2>2. \A n : n \notin (since'[s] + 1)..Len(sent')
    BY <1>1, <2>1
  <2> QED BY <1>2, <2>1, <2>2 DEF HandleIInv, NothingMissed
<1> QED BY <1>3, <1>4, <1>6, <1>7, <1>10, <1>11, <1>12 DEF HandleIInv

-----------------------------------------------------------------------------
(* The message handler.                                                     *)
LEMMA OnAnswerStep ==
  ASSUME HandleIInv, OnAnswer
  PROVE  HandleIInv'
<1> DEFINE m == Head(toClient)
           Ends(q) == IF m.type # "success" THEN "failed"
                      ELSE IF q.method = "subscribe" THEN "answered" ELSE "done"
<1>1. /\ toClient # <<>> /\ m.type \in {"success", "error"} /\ toClient' = Tail(toClient)
      /\ pending' = {q \in pending : q.id # m.id}
      /\ UNCHANGED <<idCursor, toServer, served, listeners, sent, heard, since, closed, errors>>
  BY DEF OnAnswer
<1>2. /\ toClient' \in Seq(Answer \cup Notification) /\ m = toClient[1] /\ 1 \in DOMAIN toClient
      /\ \A j \in DOMAIN toClient' : j + 1 \in DOMAIN toClient /\ toClient'[j] = toClient[j + 1]
      /\ \A j \in DOMAIN toClient : j # 1 => \E k \in DOMAIN toClient' : toClient'[k] = toClient[j]
  BY <1>1, TailElements DEF HandleIInv, Kinds
<1>3. \A q \in pending : q.sub \in Sub /\ q.method \in {"subscribe", "unsubscribe"}
  BY DEF HandleIInv, Kinds
<1>4. ASSUME NEW r \in Sub, \A q \in pending : q.id = m.id => q.sub # r
      PROVE  state'[r] = state[r]
  BY <1>4 DEF OnAnswer
<1>5. ASSUME NEW q \in pending, q.id = m.id
      PROVE  state'[q.sub] = Ends(q)
  <2>1. q = CHOOSE z \in {y \in pending : y.id = m.id} : z.sub = q.sub
    BY <1>5 DEF HandleIInv, PendingIsCalled
  <2>2. state'[q.sub] = AfterAnswer(CHOOSE z \in {y \in pending : y.id = m.id} : z.sub = q.sub, m.type = "success")
    BY <1>3, <1>5 DEF OnAnswer
  <2>3. state'[q.sub] = AfterAnswer(q, m.type = "success")
    BY <2>1, <2>2
  <2> QED BY <1>1, <1>3, <2>3 DEF AfterAnswer
<1>6. ASSUME NEW q \in pending, q.id = m.id
      PROVE  /\ state'[q.sub] \in {"failed", "answered", "done"}
             /\ m.type = "success" => state'[q.sub] = IF q.method = "subscribe" THEN "answered" ELSE "done"
             /\ q.method = "unsubscribe" => state'[q.sub] \in {"failed", "done"}
  BY <1>3, <1>5, <1>6
<1> HIDE DEF m, Ends
<1>7. /\ state \in [Sub -> {"idle", "calling", "answered", "leaving"} \cup SettledStates]
      /\ state' = [r \in Sub |-> state'[r]]
  BY DEF OnAnswer, HandleIInv, Kinds
<1>8. \A r \in Sub : \/ state'[r] = state[r] /\ \A q \in pending : q.id = m.id => q.sub # r
                     \/ state'[r] \in {"failed", "answered", "done"} /\ \E q \in pending : q.id = m.id /\ q.sub = r
  <2> TAKE r \in Sub
  <2>1. CASE \A q \in pending : q.id = m.id => q.sub # r
    <3>1. state'[r] = state[r]
      BY <2>1, <1>4
    <3> QED BY <2>1, <3>1
  <2>2. ASSUME NEW q \in pending, q.id = m.id, q.sub = r
        PROVE  state'[r] \in {"failed", "answered", "done"}
    BY <2>2, <1>6
  <2> QED BY <2>1, <2>2
<1>9. Kinds'
  <2>1. state' \in [Sub -> {"idle", "calling", "answered", "leaving"} \cup SettledStates]
    <3>1. \A r \in Sub : state'[r] \in {"idle", "calling", "answered", "leaving"} \cup SettledStates
      BY <1>7, <1>8 DEF SettledStates
    <3> QED BY <1>7, <3>1
  <2> QED BY <1>1, <1>2, <2>1 DEF HandleIInv, Kinds
<1>10. \A q \in pending : state[q.sub] \in {"calling", "leaving"}
  BY <1>3 DEF HandleIInv, PendingIsCalled
<1>11. (listeners = {r \in Sub : state[r] = "active"})'
  <2>1. \A r \in Sub : state'[r] = "active" <=> state[r] = "active"
    BY <1>8, <1>10
  <2> QED BY <1>1, <2>1 DEF HandleIInv
<1>12. PendingIsCalled'
  <2>1. \A q \in pending' : q \in pending /\ state'[q.sub] = state[q.sub]
    BY <1>1, <1>3, <1>4 DEF HandleIInv, PendingIsCalled
  <2>2. \A r \in Sub : state'[r] \in {"calling", "leaving"} => \E q \in pending' : q.sub = r
    BY <1>1, <1>8 DEF HandleIInv, PendingIsCalled
  <2> QED BY <1>1, <2>1, <2>2 DEF HandleIInv, PendingIsCalled
<1>13. RequestsArePending'
  <2>1. \A i \in DOMAIN toServer : toServer[i].id # m.id
    BY <1>1, <1>2 DEF HandleIInv, RequestsArePending
  <2> QED BY <1>1, <1>2, <2>1 DEF HandleIInv, RequestsArePending
<1>14. NotesAreSent'
  BY <1>1, <1>2 DEF HandleIInv, NotesAreSent
<1>15. ASSUME NEW r \in Sub, errors = 0, Subscribed(r)
       PROVE  Subscribed(r)'
  <2>1. m.type = "success"
    BY <1>1, <1>2, <1>15 DEF HandleIInv, RequestsArePending, Kinds
  <2>2. CASE state[r] \in {"answered", "active"}
    BY <2>2, <1>8, <1>10 DEF Subscribed
  <2>3. ASSUME NEW q \in pending, q.sub = r, q.method = "subscribe", Granted(q) PROVE Subscribed(r)'
    <3>1. CASE q.id = m.id
      BY <2>1, <2>3, <3>1, <1>6 DEF Subscribed
    <3>2. CASE q.id # m.id
      <4>1. q \in pending'
        BY <1>1, <3>2
      <4>2. PICK j \in DOMAIN toClient : toClient[j].type = "success" /\ toClient[j].id = q.id
        BY <2>3 DEF Granted
      <4>3. \E k \in DOMAIN toClient' : toClient'[k].type = "success" /\ toClient'[k].id = q.id
        BY <1>2, <3>2, <4>2
      <4> QED BY <2>3, <4>1, <4>3 DEF Subscribed, Granted
    <3> QED BY <3>1, <3>2
  <2> QED BY <1>15, <2>2, <2>3 DEF Subscribed
<1>16. ASSUME NEW r \in Sub, errors = 0, Subscribed(r)'
       PROVE  Subscribed(r)
  <2>1. m.type = "success"
    BY <1>1, <1>2, <1>16 DEF HandleIInv, RequestsArePending, Kinds
  <2>2. CASE state'[r] \in {"answered", "active"}
    <3>1. CASE state'[r] = state[r]
      BY <2>2, <3>1 DEF Subscribed
    <3>2. ASSUME NEW q \in pending, q.id = m.id, q.sub = r PROVE Subscribed(r)
      <4>1. q.method = "subscribe"
        BY <1>3, <1>6, <2>2, <3>2
      <4>2. Granted(q)
        BY <1>2, <2>1, <3>2 DEF Granted
      <4> QED BY <3>2, <4>1, <4>2 DEF Subscribed
    <3> QED BY <1>8, <3>1, <3>2
  <2>3. ASSUME NEW q \in pending', q.sub = r, q.method = "subscribe", Granted(q)' PROVE Subscribed(r)
    <3>1. Granted(q) /\ q \in pending
      BY <1>1, <1>2, <2>3 DEF Granted
    <3> QED BY <2>3, <3>1 DEF Subscribed
  <2> QED BY <1>16, <2>2, <2>3 DEF Subscribed
<1>17. ServedForSomebody'
  <2>1. \A q \in pending : OnItsWay(q) => q \in pending' /\ OnItsWay(q)'
    BY <1>1, <1>2 DEF HandleIInv, RequestsArePending, OnItsWay
  <2> QED BY <1>1, <1>15, <2>1 DEF HandleIInv, ServedForSomebody
<1>18. SubscribedIsServed'
  <2>1. \A r \in Sub : SharedAndLeft(r) => SharedAndLeft(r)'
    <3>1. \A r \in Sub : state[r] \in {"leaving", "done", "failed"} => state'[r] \in {"leaving", "done", "failed"}
      BY <1>3, <1>6, <1>8, <1>10 DEF HandleIInv, PendingIsCalled
    <3> QED BY <3>1 DEF SharedAndLeft
  <2> QED BY <1>1, <1>16, <2>1 DEF HandleIInv, SubscribedIsServed
<1>19. NothingMissed'
  <2>1. \A r \in Sub : state'[r] = "active" => state[r] = "active"
    BY <1>8
  <2>2. \A n : (\E j \in DOMAIN toClient : toClient[j].type = "notification" /\ toClient[j].n = n) =>
              \E k \in DOMAIN toClient' : toClient'[k].type = "notification" /\ toClient'[k].n = n
    BY <1>1, <1>2
  <2> QED BY <1>1, <2>1, <2>2 DEF HandleIInv, NothingMissed
<1> QED BY <1>9, <1>11, <1>12, <1>13, <1>14, <1>17, <1>18, <1>19 DEF HandleIInv

LEMMA OnNotificationStep ==
  ASSUME HandleIInv, OnNotification
  PROVE  HandleIInv'
<1> DEFINE m == Head(toClient)
<1>1. /\ toClient # <<>> /\ m.type = "notification" /\ toClient' = Tail(toClient)
      /\ heard' = [s \in Sub |-> IF s \in listeners /\ TopicOf[s] = m.topic
                                THEN heard[s] \cup {m.n} ELSE heard[s]]
      /\ UNCHANGED <<state, idCursor, pending, toServer, served, listeners, sent, since, closed, errors>>
  BY DEF OnNotification
<1>2. /\ toClient' \in Seq(Answer \cup Notification) /\ m = toClient[1] /\ 1 \in DOMAIN toClient
      /\ \A j \in DOMAIN toClient' : j + 1 \in DOMAIN toClient /\ toClient'[j] = toClient[j + 1]
      /\ \A j \in DOMAIN toClient : j # 1 => \E k \in DOMAIN toClient' : toClient'[k] = toClient[j]
  BY <1>1, TailElements DEF HandleIInv, Kinds
<1>3. m.n \in DOMAIN sent /\ m.n \in Nat /\ sent[m.n] = m.topic
  BY <1>1, <1>2 DEF HandleIInv, NotesAreSent, Kinds
<1> HIDE DEF m
<1>4. heard \in [Sub -> SUBSET Nat]
  BY DEF HandleIInv, Kinds
<1>5. \A s \in Sub : /\ heard[s] \subseteq heard'[s] /\ heard'[s] \subseteq heard[s] \cup {m.n}
                     /\ s \in listeners /\ TopicOf[s] = m.topic => m.n \in heard'[s]
  BY <1>1
<1>6. Kinds'
  <2>1. heard' \in [Sub -> SUBSET Nat]
    BY <1>1, <1>3, <1>4
  <2> QED BY <1>1, <1>2, <2>1 DEF HandleIInv, Kinds
<1>7. PendingIsCalled' /\ RequestsArePending' /\ (listeners = {r \in Sub : state[r] = "active"})'
  BY <1>1, <1>2 DEF HandleIInv, PendingIsCalled, RequestsArePending
<1>8. NotesAreSent'
  BY <1>1, <1>2, <1>3, <1>5 DEF HandleIInv, NotesAreSent
<1>9. \A q : (Granted(q)' <=> Granted(q)) /\ (OnItsWay(q)' <=> OnItsWay(q))
  <2> SUFFICES ASSUME NEW q PROVE (Granted(q)' <=> Granted(q)) /\ (OnItsWay(q)' <=> OnItsWay(q))
    OBVIOUS
  <2>1. Granted(q)' => Granted(q)
    BY <1>2 DEF Granted
  <2>2. Granted(q) => Granted(q)'
    BY <1>1, <1>2 DEF Granted
  <2> QED BY <2>1, <2>2, <1>1 DEF OnItsWay
<1>10. \A r \in Sub : Subscribed(r)' <=> Subscribed(r)
  BY <1>1, <1>9 DEF Subscribed
<1>11. ServedForSomebody'
  BY <1>1, <1>9, <1>10 DEF HandleIInv, ServedForSomebody
<1>12. SubscribedIsServed'
  <2>1. \A r \in Sub : SharedAndLeft(r) => SharedAndLeft(r)'
    BY <1>1 DEF SharedAndLeft
  <2> QED BY <2>1, <1>1, <1>10 DEF HandleIInv, SubscribedIsServed
<1>13. NothingMissed'
  <2> SUFFICES ASSUME ~closed, NEW s \in Sub, NEW n \in (since[s] + 1)..Len(sent),
                      state[s] = "active", sent[n] = TopicOf[s]
               PROVE  \/ n \in heard'[s]
                      \/ \E j \in DOMAIN toClient' : toClient'[j].type = "notification" /\ toClient'[j].n = n
    BY <1>1 DEF NothingMissed
  <2>1. CASE n \in heard[s]
    <3>1. n \in heard'[s]
      BY <1>5, <2>1
    <3> QED BY <3>1
  <2>2. ASSUME NEW j \in DOMAIN toClient, toClient[j].type = "notification", toClient[j].n = n
        PROVE  \/ n \in heard'[s]
               \/ \E k \in DOMAIN toClient' : toClient'[k].type = "notification" /\ toClient'[k].n = n
    <3>1. CASE j = 1
      <4>1. m.n = n /\ TopicOf[s] = m.topic /\ s \in listeners
        BY <1>2, <1>3, <2>2, <3>1 DEF HandleIInv
      <4>2. n \in heard'[s]
        BY <1>5, <4>1
      <4> QED BY <4>2
    <3>2. CASE j # 1
      BY <1>2, <2>2, <3>2
    <3> QED BY <3>1, <3>2
  <2> QED BY <2>1, <2>2 DEF HandleIInv, NothingMissed
<1> QED BY <1>6, <1>7, <1>8, <1>11, <1>12, <1>13 DEF HandleIInv

-----------------------------------------------------------------------------
(* The server.                                                              *)
LEMMA HandleRequestStep ==
  ASSUME HandleIInv, NEW ok \in BOOLEAN, HandleRequest(ok)
  PROVE  HandleIInv'
<1> DEFINE m == Head(toServer)
           a == [type |-> IF ok THEN "success" ELSE "error", id |-> m.id]
<1>1. /\ ~closed /\ toServer # <<>> /\ toServer' = Tail(toServer)
      /\ toClient' = Append(toClient, a)
      /\ UNCHANGED <<state, idCursor, pending, listeners, heard, since, sent, closed>>
  BY DEF HandleRequest, libraryVars
<1>2. /\ toServer' \in Seq(Request) /\ m = toServer[1] /\ 1 \in DOMAIN toServer /\ m \in Request
      /\ \A i \in DOMAIN toServer' : i + 1 # 1 /\ i + 1 \in DOMAIN toServer /\ toServer'[i] = toServer[i + 1]
      /\ \A i \in DOMAIN toServer : i # 1 => \E k \in DOMAIN toServer' : toServer'[k] = toServer[i]
  BY <1>1, TailElements DEF HandleIInv, Kinds
<1>3. m.id \in Nat /\ m.method \in {"subscribe", "unsubscribe"} /\ m.topic \in UpdateTopic
  BY <1>2 DEF Request
<1>4. /\ a \in Answer /\ a.id = m.id /\ a.type \in {"success", "error"}
      /\ (ok => a.type = "success") /\ (~ok => a.type = "error")
  BY <1>3 DEF Answer
<1>5. /\ errors \in Nat /\ errors' \in Nat /\ errors <= errors'
      /\ (~ok => errors' > 0)
  BY DEF HandleRequest, HandleIInv, Kinds
<1>6. /\ ok /\ m.method = "subscribe" => served' = served \cup {m.topic}
      /\ ok /\ m.method = "unsubscribe" => served' = served \ {m.topic}
      /\ ~ok => served' = served
  BY DEF HandleRequest
<1> HIDE DEF m, a
<1>7. /\ toClient' \in Seq(Answer \cup Notification)
      /\ \A j \in DOMAIN toClient : j \in DOMAIN toClient' /\ toClient'[j] = toClient[j]
      /\ \E j \in DOMAIN toClient' : toClient'[j] = a
      /\ \A j \in DOMAIN toClient' : j \in DOMAIN toClient \/ toClient'[j] = a
  <2>1. toClient \in Seq(Answer \cup Notification) /\ a \in Answer \cup Notification
    BY <1>4 DEF HandleIInv, Kinds
  <2>2. /\ toClient' \in Seq(Answer \cup Notification)
        /\ \A j \in DOMAIN toClient : j \in DOMAIN toClient' /\ toClient'[j] = toClient[j]
        /\ Len(toClient) + 1 \in DOMAIN toClient' /\ toClient'[Len(toClient) + 1] = a
        /\ \A j \in DOMAIN toClient' : j \in DOMAIN toClient \/ j = Len(toClient) + 1
    BY <1>1, <2>1, AppendElements
  <2> QED BY <2>2
<1>8. PICK p \in pending : p.id = m.id /\ p.method = m.method /\ TopicOf[p.sub] = m.topic
  BY <1>2 DEF HandleIInv, RequestsArePending
<1>9. p.sub \in Sub /\ p.id <= idCursor
  BY DEF HandleIInv, Kinds, PendingIsCalled
<1>10. Kinds'
  <2>1. served' \subseteq UpdateTopic
    BY <1>3, <1>6 DEF HandleIInv, Kinds
  <2> QED BY <1>1, <1>2, <1>5, <1>7, <2>1 DEF HandleIInv, Kinds
<1>11. PendingIsCalled' /\ (listeners = {r \in Sub : state[r] = "active"})'
  BY <1>1 DEF HandleIInv, PendingIsCalled
<1>12. RequestsArePending'
  <2>1. \A i \in DOMAIN toServer' : \E q \in pending' :
          q.id = toServer'[i].id /\ q.method = toServer'[i].method /\ TopicOf[q.sub] = toServer'[i].topic
    BY <1>1, <1>2 DEF HandleIInv, RequestsArePending
  <2>2. \A i, j \in DOMAIN toServer' : toServer'[i].id = toServer'[j].id => i = j
    <3> SUFFICES ASSUME NEW i \in DOMAIN toServer', NEW j \in DOMAIN toServer',
                        toServer'[i].id = toServer'[j].id
                 PROVE  i = j
      OBVIOUS
    <3>1. i + 1 = j + 1
      BY <1>2 DEF HandleIInv, RequestsArePending
    <3>2. DOMAIN toServer' = 1..Len(toServer')
      BY <1>2
    <3> QED BY <3>1, <3>2
  <2>3. \A i \in DOMAIN toServer' : toServer'[i].id # m.id
    BY <1>2 DEF HandleIInv, RequestsArePending
  <2>4. ASSUME NEW j \in DOMAIN toClient', toClient'[j].type # "notification"
        PROVE  /\ toClient'[j].id <= idCursor'
               /\ \A i \in DOMAIN toServer' : toServer'[i].id # toClient'[j].id
               /\ toClient'[j].type = "error" => errors' > 0
    <3>1. CASE toClient'[j] = a
      BY <1>1, <1>4, <1>5, <1>8, <1>9, <2>3, <3>1
    <3>2. CASE j \in DOMAIN toClient /\ toClient'[j] = toClient[j]
      <4>1. toClient[j].id <= idCursor /\ (toClient[j].type = "error" => errors > 0)
        BY <2>4, <3>2 DEF HandleIInv, RequestsArePending
      <4>2. \A i \in DOMAIN toServer' : toServer'[i].id # toClient[j].id
        BY <1>2, <2>4, <3>2 DEF HandleIInv, RequestsArePending
      <4> QED BY <1>1, <1>5, <3>2, <4>1, <4>2
    <3> QED BY <1>7, <3>1, <3>2
  <2> QED BY <2>1, <2>2, <2>4 DEF RequestsArePending
<1>13. NotesAreSent'
  BY <1>1, <1>4, <1>7 DEF HandleIInv, NotesAreSent
<1>14. NothingMissed'
  BY <1>1, <1>7 DEF HandleIInv, NothingMissed
<1>15. \A q \in pending : q.id = p.id \/ q.sub = p.sub => q = p
  BY DEF HandleIInv, PendingIsCalled
<1>16. \A q : Granted(q) => Granted(q)'
  BY <1>7 DEF Granted
<1>17. \A r \in Sub : Subscribed(r) => Subscribed(r)'
  BY <1>1, <1>16 DEF Subscribed
<1>18. ServedForSomebody'
  <2> SUFFICES ASSUME errors' = 0, NEW t \in served'
               PROVE  \E r \in Sub :
                        /\ TopicOf[r] = t
                        /\ \/ Subscribed(r)'
                           \/ \E q \in pending' : q.sub = r /\ q.method = "unsubscribe" /\ OnItsWay(q)'
    BY DEF ServedForSomebody
  <2>1. ok /\ errors = 0
    BY <1>5
  <2>2. CASE m.method = "subscribe" /\ t = m.topic
    <3>1. \E j \in DOMAIN toClient' : toClient'[j].type = "success" /\ toClient'[j].id = p.id
      BY <1>4, <1>7, <1>8, <2>1
    <3>2. Subscribed(p.sub)'
      BY <1>1, <1>8, <2>2, <3>1 DEF Subscribed, Granted
    <3> QED BY <1>8, <1>9, <2>2, <3>2
  <2>3. CASE t \in served /\ (m.method = "unsubscribe" => t # m.topic)
    <3>1. PICK r \in Sub :
            /\ TopicOf[r] = t
            /\ \/ Subscribed(r)
               \/ \E q \in pending : q.sub = r /\ q.method = "unsubscribe" /\ OnItsWay(q)
      BY <2>1, <2>3 DEF HandleIInv, ServedForSomebody
    <3>2. CASE Subscribed(r)
      BY <1>17, <3>1, <3>2
    <3>3. ASSUME NEW q \in pending, q.sub = r, q.method = "unsubscribe", OnItsWay(q)
          PROVE  q \in pending' /\ OnItsWay(q)'
      <4>1. q.id # m.id
        BY <1>8, <1>15, <2>3, <3>1, <3>3
      <4>2. PICK i \in DOMAIN toServer : toServer[i].id = q.id
        BY <3>3 DEF OnItsWay
      <4>3. \E k \in DOMAIN toServer' : toServer'[k].id = q.id
        BY <1>2, <4>1, <4>2
      <4> QED BY <1>1, <4>3 DEF OnItsWay
    <3> QED BY <3>1, <3>2, <3>3
  <2> QED BY <1>3, <1>6, <2>1, <2>2, <2>3
<1>19. SubscribedIsServed'
  <2> SUFFICES ASSUME errors' = 0, NEW r \in Sub, Subscribed(r)', ~SharedAndLeft(r)'
               PROVE  TopicOf[r] \in served'
    BY DEF SubscribedIsServed
  <2>1. ok /\ errors = 0
    BY <1>5
  <2>2. ~SharedAndLeft(r)
    BY <1>1 DEF SharedAndLeft
  <2>3. CASE m.method = "subscribe"
    <3>1. CASE Subscribed(r)
      BY <1>1, <1>6, <2>1, <2>2, <2>3, <3>1 DEF HandleIInv, SubscribedIsServed
    <3>2. CASE ~Subscribed(r)
      <4>1. PICK q \in pending : q.sub = r /\ q.method = "subscribe" /\ ~Granted(q)
                                 /\ \E j \in DOMAIN toClient' : toClient'[j].type = "success" /\ toClient'[j].id = q.id
        BY <1>1, <3>2 DEF Subscribed, Granted
      <4>2. q.id = m.id
        BY <1>4, <1>7, <4>1 DEF Granted
      <4> QED BY <1>6, <1>8, <1>15, <2>1, <2>3, <4>1, <4>2
    <3> QED BY <3>1, <3>2
  <2>4. CASE m.method = "unsubscribe"
    <3>1. state[p.sub] = "leaving"
      BY <1>8, <2>4 DEF HandleIInv, PendingIsCalled
    <3>2. Subscribed(r)
      <4>1. ASSUME NEW q \in pending, q.sub = r, q.method = "subscribe", Granted(q)' PROVE Granted(q)
        BY <1>4, <1>7, <1>8, <1>15, <2>4, <4>1 DEF Granted
      <4> QED BY <1>1, <4>1 DEF Subscribed
    <3>3. r # p.sub
      BY <1>8, <1>15, <2>4, <3>1, <3>2 DEF Subscribed
    <3>4. TopicOf[r] # m.topic
      BY <1>8, <1>9, <2>2, <3>1, <3>3 DEF SharedAndLeft
    <3> QED BY <1>1, <1>6, <2>1, <2>2, <2>4, <3>2, <3>4 DEF HandleIInv, SubscribedIsServed
  <2> QED BY <1>3, <2>3, <2>4
<1> QED BY <1>10, <1>11, <1>12, <1>13, <1>14, <1>18, <1>19 DEF HandleIInv

LEMMA SendNotificationStep ==
  ASSUME HandleIInv, NEW t \in UpdateTopic, SendNotification(t)
  PROVE  HandleIInv'
<1> DEFINE m == [type |-> "notification", topic |-> t, n |-> Len(sent) + 1]
<1>1. /\ ~closed /\ sent' = Append(sent, t) /\ toClient' = Append(toClient, m)
      /\ UNCHANGED <<state, idCursor, pending, listeners, heard, since, toServer, served, closed, errors>>
  BY DEF SendNotification, libraryVars
<1>2. /\ sent \in Seq(UpdateTopic) /\ sent' \in Seq(UpdateTopic) /\ Len(sent) \in Nat /\ Len(sent') = Len(sent) + 1
      /\ \A n \in DOMAIN sent : n \in DOMAIN sent' /\ sent'[n] = sent[n]
      /\ Len(sent) + 1 \in DOMAIN sent' /\ sent'[Len(sent) + 1] = t
  BY <1>1, AppendElements DEF HandleIInv, Kinds
<1>3. m \in Notification /\ m.type = "notification" /\ m.topic = t /\ m.n = Len(sent) + 1
  BY <1>2 DEF Notification
<1> HIDE DEF m
<1>4. /\ toClient' \in Seq(Answer \cup Notification)
      /\ \A j \in DOMAIN toClient : j \in DOMAIN toClient' /\ toClient'[j] = toClient[j]
      /\ \E j \in DOMAIN toClient' : toClient'[j] = m
      /\ \A j \in DOMAIN toClient' : j \in DOMAIN toClient \/ toClient'[j] = m
  <2>1. toClient \in Seq(Answer \cup Notification) /\ m \in Answer \cup Notification
    BY <1>3 DEF HandleIInv, Kinds
  <2>2. /\ toClient' \in Seq(Answer \cup Notification)
        /\ \A j \in DOMAIN toClient : j \in DOMAIN toClient' /\ toClient'[j] = toClient[j]
        /\ Len(toClient) + 1 \in DOMAIN toClient' /\ toClient'[Len(toClient) + 1] = m
        /\ \A j \in DOMAIN toClient' : j \in DOMAIN toClient \/ j = Len(toClient) + 1
    BY <1>1, <2>1, AppendElements
  <2> QED BY <2>2
<1>5. Kinds'
  BY <1>1, <1>2, <1>4 DEF HandleIInv, Kinds
<1>6. PendingIsCalled' /\ (listeners = {r \in Sub : state[r] = "active"})'
  BY <1>1 DEF HandleIInv, PendingIsCalled
<1>7. RequestsArePending'
  BY <1>1, <1>3, <1>4 DEF HandleIInv, RequestsArePending
<1>8. NotesAreSent'
  BY <1>1, <1>2, <1>3, <1>4 DEF HandleIInv, NotesAreSent
<1>9. \A q : (Granted(q)' <=> Granted(q)) /\ (OnItsWay(q)' <=> OnItsWay(q))
  <2> SUFFICES ASSUME NEW q PROVE (Granted(q)' <=> Granted(q)) /\ (OnItsWay(q)' <=> OnItsWay(q))
    OBVIOUS
  <2>1. Granted(q)' => Granted(q)
    BY <1>3, <1>4 DEF Granted
  <2>2. Granted(q) => Granted(q)'
    BY <1>4 DEF Granted
  <2> QED BY <2>1, <2>2, <1>1 DEF OnItsWay
<1>10. \A r \in Sub : Subscribed(r)' <=> Subscribed(r)
  BY <1>1, <1>9 DEF Subscribed
<1>11. ServedForSomebody'
  BY <1>1, <1>9, <1>10 DEF HandleIInv, ServedForSomebody
<1>12. SubscribedIsServed'
  <2>1. \A r \in Sub : SharedAndLeft(r) => SharedAndLeft(r)'
    BY <1>1 DEF SharedAndLeft
  <2> QED BY <2>1, <1>1, <1>10 DEF HandleIInv, SubscribedIsServed
<1>13. NothingMissed'
  <2> SUFFICES ASSUME NEW s \in Sub, NEW n \in (since[s] + 1)..Len(sent'),
                      state[s] = "active", sent'[n] = TopicOf[s]
               PROVE  \/ n \in heard[s]
                      \/ \E j \in DOMAIN toClient' : toClient'[j].type = "notification" /\ toClient'[j].n = n
    BY <1>1 DEF NothingMissed
  <2>0. since[s] \in Nat
    BY DEF HandleIInv, Kinds
  <2>1. CASE n = Len(sent) + 1
    BY <1>3, <1>4, <2>1
  <2>2. CASE n # Len(sent) + 1
    <3>1. n \in (since[s] + 1)..Len(sent) /\ n \in DOMAIN sent
      BY <1>2, <2>0, <2>2
    <3>2. sent[n] = TopicOf[s]
      BY <1>2, <3>1
    <3>3. \/ n \in heard[s]
          \/ \E j \in DOMAIN toClient : toClient[j].type = "notification" /\ toClient[j].n = n
      BY <1>1, <3>1, <3>2 DEF HandleIInv, NothingMissed
    <3> QED BY <1>4, <3>3
  <2> QED BY <2>1, <2>2
<1> QED BY <1>5, <1>6, <1>7, <1>8, <1>11, <1>12, <1>13 DEF HandleIInv

(* What was on its way is lost with the socket; promises stay pending.      *)
LEMMA SocketClosesStep ==
  ASSUME HandleIInv, SocketCloses
  PROVE  HandleIInv'
<1> USE DEF SocketCloses, libraryVars
<1>1. Kinds'
  BY DEF HandleIInv, Kinds
<1>2. PendingIsCalled' /\ (listeners = {r \in Sub : state[r] = "active"})'
  BY DEF HandleIInv, PendingIsCalled
<1>3. RequestsArePending' /\ NotesAreSent'
  BY DEF HandleIInv, RequestsArePending, NotesAreSent
<1>4. ServedForSomebody' /\ SubscribedIsServed' /\ NothingMissed'
  BY DEF ServedForSomebody, SubscribedIsServed, NothingMissed
<1> QED BY <1>1, <1>2, <1>3, <1>4 DEF HandleIInv

LEMMA HandleStutterStep ==
  ASSUME HandleIInv, UNCHANGED handleVars
  PROVE  HandleIInv'
BY DEF handleVars, libraryVars, HandleIInv, Kinds, PendingIsCalled, RequestsArePending, NotesAreSent,
       ServedForSomebody, SubscribedIsServed, NothingMissed, Subscribed, SharedAndLeft, Granted, OnItsWay

-----------------------------------------------------------------------------
(* HandleIInv holds of every behaviour of the library and its server.       *)
THEOREM HandleInvariant ==
  HandleSpec => []HandleIInv
<1>1. HandleIInv /\ [HandleNext]_handleVars => HandleIInv'
  BY SubscribeCallStep, UnsubscribeCallStep, AddListenerStep, OnAnswerStep, OnNotificationStep,
     HandleRequestStep, SendNotificationStep, SocketClosesStep, HandleStutterStep, WsClientAssumption
  DEF HandleNext, LibraryStep
<1> QED BY <1>1, HandleInitHolds, PTL DEF HandleSpec

(* A listener belongs to an active handle, and a handle waits for at most   *)
(* one answer.                                                              *)
THEOREM HandleTypeCorrect ==
  HandleSpec => []HandleTypeOK
<1>1. ASSUME HandleIInv PROVE HandleTypeOK
  <2>1. {p.sub : p \in pending} = {s \in Sub : state[s] \in {"calling", "leaving"}}
    BY <1>1 DEF HandleIInv, Kinds, PendingIsCalled
  <2> QED BY <1>1, <2>1 DEF HandleIInv, Kinds, PendingIsCalled, NotesAreSent, HandleTypeOK
<1> QED BY <1>1, HandleInvariant, PTL

(* An active handle misses nothing that was sent after its subscribe call   *)
(* returned.                                                                *)
THEOREM HearsAll ==
  HandleSpec => []NothingMissed
<1>1. HandleIInv => NothingMissed
  BY DEF HandleIInv
<1> QED BY <1>1, HandleInvariant, PTL

(* Once all calls are answered, the server serves exactly the handles held, *)
(* but for those whose topic another handle gave up.                        *)
THEOREM ServesWhatIsHeld ==
  HandleSpec => []ServedWhatIsHeld
<1>1. ASSUME HandleIInv PROVE ServedWhatIsHeld
  <2> SUFFICES ASSUME Quiet, errors = 0
               PROVE  /\ served \subseteq {TopicOf[s] : s \in listeners}
                      /\ \A s \in listeners : ~SharedAndLeft(s) => TopicOf[s] \in served
    BY DEF ServedWhatIsHeld
  <2>1. \A s \in Sub : Subscribed(s) <=> s \in listeners
    BY <1>1 DEF HandleIInv, Subscribed, Quiet
  <2>2. served \subseteq {TopicOf[s] : s \in listeners}
    BY <1>1, <2>1 DEF HandleIInv, ServedForSomebody, Quiet
  <2>3. \A s \in listeners : ~SharedAndLeft(s) => TopicOf[s] \in served
    BY <1>1, <2>1 DEF HandleIInv, SubscribedIsServed, Quiet
  <2> QED BY <2>2, <2>3
<1> QED BY <1>1, HandleInvariant, PTL
=============================================================================
