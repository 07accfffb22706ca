------------------------------ MODULE WsClient ------------------------------
(***************************************************************************)
(* The WebSocket client library (client/src/ws) against the server of       *)
(* src/api/routes/ws-rpc.ts.  Both directions of the socket keep the order. *)
(* A subscribe call sends a request and waits; the continuation of the      *)
(* await, which adds the listener, runs in a step of its own after the      *)
(* answer, for the `ws' library may hand over the next messages of the same *)
(* packet before it.  A topic stands for an event type with its tx or       *)
(* address.                                                                 *)
(***************************************************************************)
EXTENDS Naturals, Sequences, FiniteSets

CONSTANTS
  Sub,         \* subscriptions the program makes, each once
  UpdateTopic, TopicOf,
  MaxNotes,    \* bound on the notifications
  MaxErrors    \* bound on the error answers

ASSUME WsClientAssumption ==
  TopicOf \in [Sub -> UpdateTopic] /\ MaxNotes \in Nat /\ MaxErrors \in Nat

VARIABLES
  state,       \* where each subscription's promise and handle stand
  idCursor,
  pending,     \* pendingRequests: records of an id, a method and a subscription
  toServer, toClient,   \* messages on their way
  served,      \* topics the server has the socket in
  listeners,   \* subscriptions whose listener is registered
  sent,        \* topics of the notifications sent, in order
  heard,       \* notifications each subscription's callback got
  since,       \* history: the last notification when its listener was added
  closed, errors

libraryVars == <<state, idCursor, pending, listeners, heard, since>>
handleVars == <<libraryVars, toServer, toClient, served, sent, closed, errors>>

SettledStates == {"active", "done", "failed"}

-----------------------------------------------------------------------------
HandleInit ==
  /\ state = [s \in Sub |-> "idle"]
  /\ idCursor = 0
  /\ pending = {}
  /\ toServer = <<>> /\ toClient = <<>>
  /\ served = {}
  /\ listeners = {}
  /\ sent = <<>>
  /\ heard = [s \in Sub |-> {}]
  /\ since = [s \in Sub |-> 0]
  /\ closed = FALSE
  /\ errors = 0

(* rpcCall: a request with the next id, and its pending promise.            *)
rpcCall(method, s) ==
  /\ idCursor' = idCursor + 1
  /\ pending' = {p \in pending : p.id # idCursor'}
                  \cup {[id |-> idCursor', method |-> method, sub |-> s]}
  /\ toServer' = Append(toServer, [id |-> idCursor', method |-> method, topic |-> TopicOf[s]])

(* subscribeTxUpdates, subscribeAddressTransactions, ...                    *)
subscribe(s) ==
  /\ ~closed /\ state[s] = "idle"
  /\ state' = [state EXCEPT ![s] = "calling"]
  /\ rpcCall("subscribe", s)
  /\ UNCHANGED <<toClient, served, listeners, sent, heard, since, closed, errors>>

(* The await continues: the listener is added.                              *)
AddListener(s) ==
  /\ state[s] = "answered"
  /\ state' = [state EXCEPT ![s] = "active"]
  /\ listeners' = listeners \cup {s}
  /\ since' = [since EXCEPT ![s] = Len(sent)]
  /\ UNCHANGED <<idCursor, pending, toServer, toClient, served, sent, heard, closed, errors>>

(* Mutant: every listener of the event goes with the first handle.          *)
RemoveAll(s) == listeners' = {}

RemoveListener(s) == listeners' = listeners \ {s}

(* unsubscribe of the handle.                                               *)
unsubscribe(s) ==
  /\ ~closed /\ state[s] = "active"
  /\ state' = [state EXCEPT ![s] = "leaving"]
  /\ RemoveListener(s)
  /\ rpcCall("unsubscribe", s)
  /\ UNCHANGED <<toClient, served, sent, heard, since, closed, errors>>

(* The state of the subscription after an answer to its request.            *)
AfterAnswer(p, ok) ==
  CASE ~ok -> "failed"
    [] ok /\ p.method = "subscribe" -> "answered"
    [] ok /\ p.method = "unsubscribe" -> "done"

(* The message handler, for the answer to a request.                        *)
OnAnswer ==
  /\ toClient # <<>> /\ Head(toClient).type \in {"success", "error"}
  /\ LET m == Head(toClient)
         reqs == {p \in pending : p.id = m.id}
     IN  /\ pending' = pending \ reqs
         /\ state' = [s \in Sub |->
                        IF \E p \in reqs : p.sub = s
                        THEN AfterAnswer(CHOOSE p \in reqs : p.sub = s, m.type = "success")
                        ELSE state[s]]
  /\ toClient' = Tail(toClient)
  /\ UNCHANGED <<idCursor, toServer, served, listeners, sent, heard, since, closed, errors>>

(* handleNotification: every listener of the topic is called.               *)
OnNotification ==
  /\ toClient # <<>> /\ Head(toClient).type = "notification"
  /\ LET m == Head(toClient)
     IN  heard' = [s \in Sub |-> IF s \in listeners /\ TopicOf[s] = m.topic
                                 THEN heard[s] \cup {m.n} ELSE heard[s]]
  /\ toClient' = Tail(toClient)
  /\ UNCHANGED <<state, idCursor, pending, toServer, served, listeners, sent, since, closed,
                 errors>>

-----------------------------------------------------------------------------
(* The server: a request is answered in its turn; invalid parameters are    *)
(* answered with an error.                                                  *)
HandleRequest(ok) ==
  /\ ~closed /\ toServer # <<>>
  /\ ok \/ errors < MaxErrors
  /\ errors' = IF ok THEN errors ELSE errors + 1
  /\ LET m == Head(toServer)
     IN  /\ served' = IF ~ok THEN served
                      ELSE IF m.method = "subscribe" THEN served \cup {m.topic}
                      ELSE served \ {m.topic}
         /\ toClient' = Append(toClient, [type |-> IF ok THEN "success" ELSE "error",
                                          id |-> m.id])
  /\ toServer' = Tail(toServer)
  /\ UNCHANGED <<libraryVars, sent, closed>>

SendNotification(t) ==
  /\ ~closed /\ Len(sent) < MaxNotes /\ t \in served
  /\ sent' = Append(sent, t)
  /\ toClient' = Append(toClient, [type |-> "notification", topic |-> t, n |-> Len(sent) + 1])
  /\ UNCHANGED <<libraryVars, toServer, served, closed, errors>>

(* The socket closes; the library has no handler for it.                    *)
SocketCloses ==
  /\ ~closed
  /\ closed' = TRUE
  /\ toServer' = <<>> /\ toClient' = <<>> /\ served' = {}
  /\ UNCHANGED <<libraryVars, sent, errors>>

LibraryStep == OnAnswer \/ OnNotification \/ \E s \in Sub : AddListener(s)

HandleNext ==
  \/ \E s \in Sub : subscribe(s) \/ unsubscribe(s)
  \/ LibraryStep
  \/ HandleRequest(TRUE)
  \/ HandleRequest(FALSE)
  \/ \E t \in UpdateTopic : SendNotification(t)
  \/ SocketCloses

HandleSpec == HandleInit /\ [][HandleNext]_handleVars

(* The client reads its messages, the server answers.                       *)
HandleFairSpec ==
  HandleSpec /\ WF_handleVars(LibraryStep) /\ WF_handleVars(HandleRequest(TRUE) \/ HandleRequest(FALSE))

-----------------------------------------------------------------------------
(* HandleTypeOK: a listener belongs to an active handle, and a subscription *)
(* waits for at most one answer.                                            *)
HandleTypeOK ==
  /\ state \in [Sub -> {"idle", "calling", "answered", "leaving"} \cup SettledStates]
  /\ listeners = {s \in Sub : state[s] = "active"}
  /\ \A p, q \in pending : p.id = q.id \/ p.sub = q.sub => p = q
  /\ {p.sub : p \in pending} = {s \in Sub : state[s] \in {"calling", "leaving"}}
  /\ served \subseteq UpdateTopic
  /\ \A s \in Sub : heard[s] \subseteq DOMAIN sent

(* Another handle of the topic has been, or is being, unsubscribed.         *)
SharedAndLeft(s) ==
  \E r \in Sub \ {s} : TopicOf[r] = TopicOf[s] /\ state[r] \in {"leaving", "done", "failed"}

Quiet == ~closed /\ pending = {} /\ \A s \in Sub : state[s] # "answered"

(* Once all calls are answered, the server sends to the socket exactly for  *)
(* the handles that are still held: it forgets the topics left, and serves  *)
(* every active handle, unless another handle of the same topic was given   *)
(* up (the server counts sockets, not handles).                             *)
ServedWhatIsHeld ==
  Quiet /\ errors = 0 =>
    /\ served \subseteq {TopicOf[s] : s \in listeners}
    /\ \A s \in listeners : ~SharedAndLeft(s) => TopicOf[s] \in served

(* An active handle misses nothing that was sent after its subscribe call   *)
(* returned: what it did not hear is still on its way.  (What the server    *)
(* sends between its answer and the return may be missed.)                  *)
NothingMissed ==
  ~closed => \A s \in Sub : \A n \in (since[s] + 1)..Len(sent) :
    state[s] = "active" /\ sent[n] = TopicOf[s] =>
      \/ n \in heard[s]
      \/ \E j \in DOMAIN toClient : toClient[j].type = "notification" /\ toClient[j].n = n

(* The inductive invariant.  The messages on their way.                     *)
Request == [id : Nat, method : {"subscribe", "unsubscribe"}, topic : UpdateTopic]
Answer == [type : {"success", "error"}, id : Nat]
Notification == [type : {"notification"}, topic : UpdateTopic, n : Nat]

Kinds ==
  /\ state \in [Sub -> {"idle", "calling", "answered", "leaving"} \cup SettledStates]
  /\ idCursor \in Nat
  /\ pending \subseteq [id : Nat, method : {"subscribe", "unsubscribe"}, sub : Sub]
  /\ toServer \in Seq(Request) /\ toClient \in Seq(Answer \cup Notification)
  /\ served \subseteq UpdateTopic
  /\ sent \in Seq(UpdateTopic)
  /\ heard \in [Sub -> SUBSET Nat] /\ since \in [Sub -> Nat]
  /\ closed \in BOOLEAN /\ errors \in Nat

(* A promise is pending for each call that is not answered, under an id of  *)
(* its own.                                                                 *)
PendingIsCalled ==
  /\ \A p, q \in pending : p.id = q.id \/ p.sub = q.sub => p = q
  /\ \A p \in pending :
       /\ p.id <= idCursor
       /\ state[p.sub] = IF p.method = "subscribe" THEN "calling" ELSE "leaving"
  /\ \A s \in Sub : state[s] \in {"calling", "leaving"} => \E p \in pending : p.sub = s

(* A request on its way is the one of a pending promise, and not answered.  *)
RequestsArePending ==
  /\ \A i \in DOMAIN toServer : \E p \in pending :
       p.id = toServer[i].id /\ p.method = toServer[i].method /\ TopicOf[p.sub] = toServer[i].topic
  /\ \A i, j \in DOMAIN toServer : toServer[i].id = toServer[j].id => i = j
  /\ \A j \in DOMAIN toClient : toClient[j].type # "notification" =>
       /\ toClient[j].id <= idCursor
       /\ \A i \in DOMAIN toServer : toServer[i].id # toClient[j].id
       /\ toClient[j].type = "error" => errors > 0

NotesAreSent ==
  /\ \A s \in Sub : heard[s] \subseteq DOMAIN sent
  /\ \A j \in DOMAIN toClient : toClient[j].type = "notification" =>
       toClient[j].n \in DOMAIN sent /\ sent[toClient[j].n] = toClient[j].topic

OnItsWay(p) == \E i \in DOMAIN toServer : toServer[i].id = p.id
Granted(p) == \E j \in DOMAIN toClient : toClient[j].type = "success" /\ toClient[j].id = p.id

(* The server has taken the subscription, and not yet its end.              *)
Subscribed(s) ==
  \/ state[s] \in {"answered", "active"}
  \/ \E p \in pending : p.sub = s /\ p.method = "subscribe" /\ Granted(p)

ServedForSomebody ==
  errors = 0 => \A t \in served : \E s \in Sub :
    /\ TopicOf[s] = t
    /\ \/ Subscribed(s)
       \/ \E p \in pending : p.sub = s /\ p.method = "unsubscribe" /\ OnItsWay(p)

SubscribedIsServed ==
  errors = 0 /\ ~closed => \A s \in Sub : Subscribed(s) /\ ~SharedAndLeft(s) => TopicOf[s] \in served

HandleIInv ==
  /\ Kinds
  /\ listeners = {s \in Sub : state[s] = "active"}
  /\ PendingIsCalled /\ RequestsArePending /\ NotesAreSent
  /\ ServedForSomebody /\ SubscribedIsServed /\ NothingMissed

(* Every call settles, as long as the socket stays open.  After it closed a *)
(* pending promise is never rejected.                                       *)
EveryCallSettles ==
  \A s \in Sub : state[s] \in {"calling", "answered", "leaving"} ~> (state[s] \in SettledStates \/ closed)
=============================================================================
