------------------------------ MODULE Lifecycle ------------------------------
(***************************************************************************)
(* Start-up and shutdown of the process (index.ts, shutdown-handler.ts,     *)
(* api/init.ts).  init opens the store, the event server, the API server    *)
(* and the metrics server one after the other, each with a shutdown         *)
(* handler; a signal, an unhandled rejection or an uncaught exception runs  *)
(* the handlers in the order of their registration, while init goes on.     *)
(*                                                                         *)
(* A step of the model is what Node runs between two awaits: a server that  *)
(* listens is registered in the same turn.                                  *)
(***************************************************************************)
EXTENDS Integers, Sequences

CONSTANTS
  Signals,        \* SIGINT, SIGTERM, unhandledRejection, uncaughtException
  MaxMessages,    \* messages of the node in the process at a time
  MaxClients      \* connections to the API server

(* What the bounds must be. *)
ASSUME LifecycleAssumption == MaxMessages \in Nat /\ MaxClients \in Nat

VARIABLES
  offline, prod,  \* STACKS_API_OFFLINE_MODE, isProdEnv
  phase,          \* what init waits for
  event, api, store, prom,
  waiting,        \* connections of the node that wait for an answer
  abandoned,      \* messages whose connection is gone, queued or being stored
  storing,        \* a message has a client of the store's pool
  clients,        \* open HTTP and WebSocket connections of the API server
  handlers,       \* shutdownHandlers
  current,        \* position of the running handler, 0 before a shutdown
  called,         \* history: calls of each handler
  errored,        \* errorEncountered
  listening,      \* process.once listeners left
  exit            \* "none", "ok" (0), "error" (1) or "killed"

modes == <<offline, prod>>
servers == <<event, api, store, prom>>
messages == <<waiting, abandoned, storing>>
shutdown == <<current, called, errored, listening>>
vars == <<modes, phase, servers, messages, clients, handlers, shutdown, exit>>

Handlers == {"event", "api", "store", "prom"}
Alive == exit = "none"

-----------------------------------------------------------------------------
Init ==
  /\ offline \in BOOLEAN /\ prod \in BOOLEAN
  /\ phase = "store"
  /\ event = "off" /\ api = "off" /\ store = "off" /\ prom = "off"
  /\ waiting = 0 /\ abandoned = 0 /\ storing = FALSE /\ clients = 0
  /\ handlers = <<>> /\ current = 0
  /\ called = [h \in Handlers |-> 0]
  /\ errored = FALSE /\ listening = Signals /\ exit = "none"

(* PgDataStore.connect tries until Postgres answers; offline, a dummy store *)
(* takes its place.                                                         *)
OpenStore ==
  /\ Alive /\ phase = "store"
  /\ store' = "open"
  /\ phase' = IF offline THEN "api" ELSE "import"
  /\ UNCHANGED <<modes, event, api, prom, messages, clients, handlers, shutdown, exit>>

Import ==
  /\ Alive /\ phase = "import"
  /\ phase' = "event"
  /\ UNCHANGED <<modes, servers, messages, clients, handlers, shutdown, exit>>

StartEventServer ==
  /\ Alive /\ phase = "event"
  /\ event' = "open"
  /\ handlers' = Append(handlers, "event")
  /\ phase' = "chain"
  /\ UNCHANGED <<modes, api, store, prom, messages, clients, shutdown, exit>>

(* getCoreChainID waits for the node for ever.                              *)
CheckChainId ==
  /\ Alive /\ phase = "chain"
  /\ phase' = "api"
  /\ UNCHANGED <<modes, servers, messages, clients, handlers, shutdown, exit>>

(* Mutant: the store is registered ahead of the server that uses it.        *)
StartApiServerStoreFirst ==
  /\ Alive /\ phase = "api"
  /\ api' = "open"
  /\ handlers' = <<"store">> \o handlers \o <<"api">>
  /\ phase' = IF prod THEN "prom" ELSE "done"
  /\ UNCHANGED <<modes, event, store, prom, messages, clients, shutdown, exit>>

StartApiServer ==
  /\ Alive /\ phase = "api"
  /\ api' = "open"
  /\ handlers' = handlers \o <<"api", "store">>
  /\ phase' = IF prod THEN "prom" ELSE "done"
  /\ UNCHANGED <<modes, event, store, prom, messages, clients, shutdown, exit>>

StartPrometheus ==
  /\ Alive /\ phase = "prom"
  /\ prom' = "open"
  /\ handlers' = Append(handlers, "prom")
  /\ phase' = "done"
  /\ UNCHANGED <<modes, event, api, store, messages, clients, shutdown, exit>>

(* A port in use, a failed import or another chain id: process.exit(1).     *)
InitFails ==
  /\ Alive /\ phase # "done"
  /\ exit' = "error"
  /\ UNCHANGED <<modes, phase, servers, messages, clients, handlers, shutdown>>

-----------------------------------------------------------------------------
(* A connection of the node brings a message for the queue.                 *)
MessageArrives ==
  /\ Alive /\ event = "open" /\ waiting + abandoned < MaxMessages
  /\ waiting' = waiting + 1
  /\ UNCHANGED <<modes, phase, servers, abandoned, storing, clients, handlers, shutdown, exit>>

(* The node gives up, or the connection breaks: its handler goes on.        *)
ConnectionDrops ==
  /\ Alive /\ waiting > 0
  /\ waiting' = waiting - 1 /\ abandoned' = abandoned + 1
  /\ UNCHANGED <<modes, phase, servers, storing, clients, handlers, shutdown, exit>>

(* The one message that the queue handles takes a client of the pool.  A    *)
(* pool that ends refuses.                                                  *)
StartStoring ==
  /\ Alive /\ waiting + abandoned > 0 /\ ~storing /\ store = "open"
  /\ storing' = TRUE
  /\ UNCHANGED <<modes, phase, servers, waiting, abandoned, clients, handlers, shutdown, exit>>

(* COMMIT or ROLLBACK: the client is given back.  The message may need it   *)
(* again.                                                                   *)
StopStoring ==
  /\ Alive /\ storing
  /\ storing' = FALSE
  /\ UNCHANGED <<modes, phase, servers, waiting, abandoned, clients, handlers, shutdown, exit>>

(* The message is handled, or failed: whoever still waits is answered.      *)
MessageDone ==
  /\ Alive /\ ~storing
  /\ \/ waiting > 0 /\ waiting' = waiting - 1 /\ UNCHANGED abandoned
     \/ abandoned > 0 /\ abandoned' = abandoned - 1 /\ UNCHANGED waiting
  /\ UNCHANGED <<modes, phase, servers, storing, clients, handlers, shutdown, exit>>

ClientJoins ==
  /\ Alive /\ api = "open" /\ clients < MaxClients
  /\ clients' = clients + 1
  /\ UNCHANGED <<modes, phase, servers, messages, handlers, shutdown, exit>>

ClientLeaves ==
  /\ Alive /\ clients > 0
  /\ clients' = clients - 1
  /\ UNCHANGED <<modes, phase, servers, messages, handlers, shutdown, exit>>

-----------------------------------------------------------------------------
(* startShutdown, up to its first handler: only one run.                    *)
StartShutdown == current' = IF current = 0 THEN 1 ELSE current

(* The first signal of its kind has a listener; a second one is Node's      *)
(* default and ends the process.                                            *)
Signal(s) ==
  /\ Alive
  /\ IF s \in listening
     THEN /\ StartShutdown
          /\ listening' = listening \ {s}
          /\ UNCHANGED exit
     ELSE exit' = "killed" /\ UNCHANGED <<current, listening>>
  /\ UNCHANGED <<modes, phase, servers, messages, clients, handlers, called, errored>>

Runs(h) == Alive /\ current \in DOMAIN handlers /\ handlers[current] = h

Finish(ok) ==
  /\ current' = current + 1
  /\ errored' = (errored \/ ~ok)

(* eventServer.close: no new connection, then wait for the open ones.  The  *)
(* messages of those that are gone are not waited for.                      *)
CloseEventServer ==
  /\ Runs("event")
  /\ \/ /\ event # "closing"
        /\ event' = "closing" /\ called' = [called EXCEPT !["event"] = @ + 1]
        /\ UNCHANGED <<current, errored>>
     \/ /\ event = "closing" /\ waiting = 0
        /\ event' = "closed" /\ Finish(TRUE)
        /\ UNCHANGED called
  /\ UNCHANGED <<api, store, prom>>

(* apiServer.terminate: socket.io closes the HTTP server first and waits    *)
(* for its connections; the WebSocket server and the sockets that terminate *)
(* would destroy come after that.                                           *)
TerminateApi ==
  /\ Runs("api")
  /\ \/ /\ api # "closing"
        /\ api' = "closing" /\ called' = [called EXCEPT !["api"] = @ + 1]
        /\ UNCHANGED <<current, errored>>
     \/ /\ api = "closing" /\ clients = 0
        /\ api' = "closed" /\ Finish(TRUE)
        /\ UNCHANGED called
  /\ UNCHANGED <<event, store, prom>>

(* pool.end: no query is taken any more, then wait for the clients in use.  *)
EndPool ==
  /\ ~offline
  /\ \/ /\ store # "closing"
        /\ store' = "closing" /\ called' = [called EXCEPT !["store"] = @ + 1]
        /\ UNCHANGED <<current, errored>>
     \/ /\ store = "closing" /\ ~storing
        /\ store' = "closed" /\ Finish(TRUE)
        /\ UNCHANGED called

(* Mutant: what the handler throws is not caught, and ends the loop.        *)
CloseStoreUncaught ==
  /\ Runs("store")
  /\ EndPool
  /\ UNCHANGED <<event, api, prom>>

(* db.close.  The dummy store of the offline mode throws.                   *)
CloseStore ==
  /\ Runs("store")
  /\ \/ EndPool
     \/ /\ offline
        /\ called' = [called EXCEPT !["store"] = @ + 1]
        /\ UNCHANGED store /\ Finish(FALSE)
  /\ UNCHANGED <<event, api, prom>>

(* The metrics server's sockets are destroyed, then it closes.              *)
ClosePrometheus ==
  /\ Runs("prom")
  /\ called' = [called EXCEPT !["prom"] = @ + 1]
  /\ prom' = "closed" /\ Finish(TRUE)
  /\ UNCHANGED <<event, api, store>>

RunHandler ==
  /\ CloseEventServer \/ TerminateApi \/ CloseStore \/ ClosePrometheus
  /\ UNCHANGED <<modes, phase, messages, clients, handlers, listening, exit>>

(* The loop sees handlers registered while it runs.                         *)
Exit ==
  /\ Alive /\ current > Len(handlers)
  /\ exit' = IF errored THEN "error" ELSE "ok"
  /\ UNCHANGED <<modes, phase, servers, messages, clients, handlers, shutdown>>

-----------------------------------------------------------------------------
Next ==
  \/ OpenStore \/ Import \/ StartEventServer \/ CheckChainId \/ StartApiServer
  \/ StartPrometheus \/ InitFails
  \/ MessageArrives \/ ConnectionDrops \/ StartStoring \/ StopStoring \/ MessageDone
  \/ ClientJoins \/ ClientLeaves
  \/ \E s \in Signals : Signal(s)
  \/ RunHandler \/ Exit

Spec == Init /\ [][Next]_vars

(* Handlers run on; Postgres ends each transaction, and a message has       *)
(* finitely many.  Nothing makes a client of the API leave.                 *)
FairSpec ==
  /\ Spec /\ WF_vars(RunHandler) /\ WF_vars(Exit)
  /\ WF_vars(StopStoring) /\ SF_vars(MessageDone)

-----------------------------------------------------------------------------
(* TypeOK: a server is registered when it opens, and the shutdown is at     *)
(* most one position past the handlers.                                     *)
TypeOK ==
  /\ current \in 0..(Len(handlers) + 1)
  /\ waiting + abandoned \in 0..MaxMessages /\ clients \in 0..MaxClients
  /\ {event, api, prom} \subseteq {"off", "open", "closing", "closed"}
  /\ exit \in {"none", "ok", "error", "killed"}
  /\ \A i, j \in DOMAIN handlers : handlers[i] = handlers[j] => i = j
  /\ event # "off" <=> \E i \in DOMAIN handlers : handlers[i] = "event"
  /\ api # "off" <=> \E i \in DOMAIN handlers : handlers[i] = "api"

(* Whenever the shutdown starts, even while init still opens servers, the   *)
(* store refuses queries only when no server takes another connection and   *)
(* no connection of the node waits for its message, and it is closed with   *)
(* no transaction of a message cut off.  A message whose connection is gone *)
(* may be refused: the node, which had no answer, sends it again.           *)
StoreClosedLast ==
  /\ store \in {"closing", "closed"} => event # "open" /\ waiting = 0 /\ api # "open"
  /\ store = "closed" => ~storing

(* Exit code 0 says that whatever was opened was closed again, the servers  *)
(* opened after the signal included, and that nobody waits for an answer.   *)
CleanExit ==
  exit = "ok" =>
    /\ {event, api, prom} \cap {"open", "closing"} = {}
    /\ waiting = 0 /\ clients = 0
    /\ api = "closed" => store = "closed" /\ ~storing

(* Several signals, rejections and exceptions lead to one run.              *)
HandlersOnce == \A h \in Handlers : called[h] <= 1

(* The inductive invariant.  A handler's position is the same whenever its  *)
(* server is started: the event server's is first, then come the API        *)
(* server, the store and the metrics server.                                *)
First == IF offline THEN 0 ELSE 1
At(h) ==
  CASE h = "event" -> First [] h = "api" -> First + 1 [] h = "store" -> First + 2 [] h = "prom" -> First + 3

HasEvent == ~offline /\ phase \in {"chain", "api", "prom", "done"}
HasApi == phase \in {"prom", "done"}
HasProm == prod /\ phase = "done"

(* What init has registered so far.                                         *)
RegisteredInOrder ==
  /\ phase \in {"store", "import", "event", "chain", "api", "prom", "done"}
  /\ phase \in {"import", "event", "chain"} => ~offline
  /\ phase = "prom" => prod
  /\ handlers \in Seq(Handlers)
  /\ ~HasEvent /\ ~HasApi => Len(handlers) = 0
  /\ HasEvent /\ ~HasApi => Len(handlers) = 1
  /\ HasApi => Len(handlers) = IF HasProm THEN At("prom") ELSE At("store")
  /\ \A i \in DOMAIN handlers, h \in Handlers : handlers[i] = h => i = At(h)

(* A server is closed once its handler is over, and only then.              *)
EventServerFollows ==
  IF ~HasEvent
  THEN event = "off" /\ called["event"] = 0 /\ waiting = 0 /\ abandoned = 0 /\ ~storing
  ELSE /\ current = 0 => event = "open"
       /\ current = 1 => event \in {"open", "closing"}
       /\ current > 1 => event = "closed" /\ waiting = 0
       /\ called["event"] = IF event = "open" THEN 0 ELSE 1

ApiServerFollows ==
  IF ~HasApi THEN api = "off" /\ called["api"] = 0 /\ clients = 0
  ELSE /\ current < At("api") => api = "open"
       /\ current = At("api") => api \in {"open", "closing"}
       /\ current > At("api") => api = "closed" /\ clients = 0
       /\ called["api"] = IF api = "open" THEN 0 ELSE 1

StoreFollows ==
  /\ store = "closing" => current = At("store") /\ ~offline
  /\ store = "closed" => current > At("store") /\ ~storing
  /\ current > At("store") /\ ~errored => store = "closed"
  /\ called["store"] = IF current > At("store") \/ store = "closing" THEN 1 ELSE 0

PrometheusFollows ==
  IF ~HasProm THEN prom = "off" /\ called["prom"] = 0
  ELSE /\ prom = IF current > At("prom") THEN "closed" ELSE "open"
       /\ called["prom"] = IF current > At("prom") THEN 1 ELSE 0

ExitsAtTheEnd == exit = "ok" => current > Len(handlers) /\ ~errored

Ranges ==
  /\ offline \in BOOLEAN /\ prod \in BOOLEAN /\ errored \in BOOLEAN
  /\ called \in [Handlers -> Nat]
  /\ waiting \in Nat /\ abandoned \in Nat /\ storing \in BOOLEAN
  /\ waiting + abandoned <= MaxMessages
  /\ clients \in 0..MaxClients
  /\ current \in 0..(Len(handlers) + 1)
  /\ exit \in {"none", "ok", "error", "killed"}

IInv ==
  /\ Ranges /\ RegisteredInOrder
  /\ EventServerFollows /\ ApiServerFollows /\ StoreFollows /\ PrometheusFollows
  /\ ExitsAtTheEnd

(* A shutdown comes to an end, unless it waits for connections of the API   *)
(* server; once they are gone it ends.                                      *)
ShutdownEnds ==
  /\ current > 0 ~> ~Alive \/ (api = "closing" /\ clients > 0)
  /\ api = "closing" /\ clients = 0 ~> ~Alive
=============================================================================
