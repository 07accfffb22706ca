---------------------------- MODULE ProcessProofs ----------------------------
(***************************************************************************)
(* Proofs about the process: its start and end (Lifecycle), and the import  *)
(* of Stacks 1.0 data at its start (ImportV1).                              *)
(*                                                                         *)
(* For every set of signals and every number of messages and clients, IInv  *)
(* is inductive, so the store is closed last, exit code 0 tells the truth   *)
(* and no handler is called twice.                                          *)
(*                                                                         *)
(* For every set of data directories, batch size and number of faults,      *)
(* ImportIInv is inductive, so an import is committed entirely or not at    *)
(* all and its flag is never taken back.                                    *)
(***************************************************************************)
EXTENDS Lifecycle, ImportV1, FiniteSetTheorems, SequenceTheorems, TLAPS

LEMMA InitIInv == Init => IInv
<1> SUFFICES ASSUME Init PROVE IInv
  OBVIOUS
<1>1. RegisteredInOrder
  BY DEF Init, RegisteredInOrder, HasEvent, HasApi, Handlers
<1>2. Ranges
  <2>1. called \in [Handlers -> Nat]
    BY DEF Init
  <2>2. current \in 0..(Len(handlers) + 1)
    BY DEF Init
  <2>3. waiting + abandoned <= MaxMessages /\ clients \in 0..MaxClients
    BY LifecycleAssumption DEF Init
  <2>4. offline \in BOOLEAN /\ prod \in BOOLEAN /\ errored \in BOOLEAN
    BY DEF Init
  <2> QED BY <2>1, <2>2, <2>3, <2>4 DEF Init, Ranges
<1>3. EventServerFollows /\ ApiServerFollows /\ PrometheusFollows
  BY DEF Init, EventServerFollows, ApiServerFollows, PrometheusFollows, HasEvent, HasApi, HasProm, Handlers
<1>4. StoreFollows
  BY DEF Init, StoreFollows, Handlers, At, First
<1> QED BY <1>1, <1>2, <1>3, <1>4 DEF Init, IInv, ExitsAtTheEnd

(* Where the handlers stand, as numbers.                                    *)
LEMMA Positions ==
  ASSUME IInv
  PROVE  /\ First \in {0, 1}
         /\ At("event") = First /\ At("api") = First + 1
         /\ At("store") = First + 2 /\ At("prom") = First + 3
         /\ Len(handlers) \in Nat /\ current \in Nat /\ current <= Len(handlers) + 1
         /\ offline <=> First = 0
BY DEF IInv, Ranges, First, At, RegisteredInOrder

(* A step that leaves offline alone moves no handler.                       *)
LEMMA SamePositions ==
  ASSUME offline' = offline
  PROVE  First' = First /\ At("event")' = At("event") /\ At("api")' = At("api")
           /\ At("store")' = At("store") /\ At("prom")' = At("prom")
BY DEF First, At

LEMMA SameRegistered ==
  ASSUME RegisteredInOrder, UNCHANGED <<offline, prod, phase, handlers>>
  PROVE  RegisteredInOrder' /\ HasEvent' = HasEvent /\ HasApi' = HasApi /\ HasProm' = HasProm
<1>1. HasEvent' = HasEvent /\ HasApi' = HasApi /\ HasProm' = HasProm
  BY DEF HasEvent, HasApi, HasProm
<1>2. \A h \in Handlers : At(h)' = At(h)
  BY SamePositions DEF Handlers
<1> QED BY <1>1, <1>2, SamePositions DEF RegisteredInOrder

-----------------------------------------------------------------------------
(* init.                                                                    *)
LEMMA OpenStoreStep == IInv /\ OpenStore => IInv'
<1> SUFFICES ASSUME IInv, OpenStore PROVE IInv'
  OBVIOUS
<1> USE DEF OpenStore, modes, messages, shutdown, IInv
<1>1. RegisteredInOrder'
  BY Positions DEF RegisteredInOrder, HasEvent, HasApi, HasProm, At, First
<1>2. Ranges'
  BY DEF Ranges
<1>3. EventServerFollows' /\ ApiServerFollows' /\ PrometheusFollows'
  BY DEF EventServerFollows, ApiServerFollows, PrometheusFollows, HasEvent, HasApi, HasProm
<1>4. StoreFollows'
  <2>1. Len(handlers) = 0
    BY DEF RegisteredInOrder, HasEvent, HasApi
  <2>2. ~(current > At("store")) /\ current # At("store")
    BY <2>1, Positions
  <2> QED BY <2>2, SamePositions DEF StoreFollows
<1> QED BY <1>1, <1>2, <1>3, <1>4 DEF ExitsAtTheEnd, Alive

LEMMA WaitStep == IInv /\ (Import \/ CheckChainId) => IInv'
<1> SUFFICES ASSUME IInv, Import \/ CheckChainId PROVE IInv'
  OBVIOUS
<1> USE DEF Import, CheckChainId, modes, servers, messages, shutdown, IInv
<1>0. ~HasApi /\ ~HasApi' /\ ~HasProm /\ ~HasProm' /\ HasEvent' = HasEvent
  BY DEF HasApi, HasProm, HasEvent
<1>1. RegisteredInOrder'
  BY <1>0, Positions, SamePositions DEF RegisteredInOrder, At, First
<1>2. Ranges'
  BY DEF Ranges
<1>3. EventServerFollows' /\ ApiServerFollows' /\ PrometheusFollows'
  BY <1>0 DEF EventServerFollows, ApiServerFollows, PrometheusFollows
<1>4. StoreFollows'
  BY SamePositions DEF StoreFollows
<1> QED BY <1>1, <1>2, <1>3, <1>4 DEF ExitsAtTheEnd

LEMMA StartEventServerStep == IInv /\ StartEventServer => IInv'
<1> SUFFICES ASSUME IInv, StartEventServer PROVE IInv'
  OBVIOUS
<1> USE DEF StartEventServer, modes, messages, shutdown, IInv
<1>0. ~HasApi /\ ~HasApi' /\ ~HasProm /\ ~HasProm' /\ ~HasEvent /\ HasEvent' /\ ~offline
  BY DEF HasApi, HasProm, HasEvent, RegisteredInOrder
<1>1. Len(handlers) = 0 /\ First = 1 /\ current \in {0, 1}
  BY <1>0, Positions DEF RegisteredInOrder, First
<1>2. /\ handlers' \in Seq(Handlers) /\ Len(handlers') = 1 /\ DOMAIN handlers' = {1}
      /\ handlers'[1] = "event"
  BY <1>1 DEF RegisteredInOrder, Handlers
<1>3. RegisteredInOrder'
  BY <1>0, <1>1, <1>2, Positions, SamePositions DEF RegisteredInOrder
<1>4. Ranges'
  BY <1>1, <1>2 DEF Ranges
<1>5. EventServerFollows' /\ ApiServerFollows' /\ PrometheusFollows'
  BY <1>0, <1>1 DEF EventServerFollows, ApiServerFollows, PrometheusFollows
<1>6. StoreFollows'
  BY SamePositions DEF StoreFollows
<1> QED BY <1>3, <1>4, <1>5, <1>6 DEF ExitsAtTheEnd, Alive

LEMMA StartApiServerStep == IInv /\ StartApiServer => IInv'
<1> SUFFICES ASSUME IInv, StartApiServer PROVE IInv'
  OBVIOUS
<1> USE DEF StartApiServer, modes, messages, shutdown, IInv
<1>0. ~HasApi /\ HasApi' /\ ~HasProm /\ ~HasProm' /\ HasEvent' = HasEvent /\ HasEvent = ~offline
  BY DEF HasApi, HasProm, HasEvent, Ranges
<1>1. Len(handlers) = First /\ current \in Nat /\ current <= First + 1
  BY <1>0, Positions DEF RegisteredInOrder, First, Ranges
<1>2. /\ handlers' \in Seq(Handlers) /\ Len(handlers') = First + 2
      /\ \A i \in 1..Len(handlers) : handlers'[i] = handlers[i]
      /\ handlers'[First + 1] = "api" /\ handlers'[First + 2] = "store"
  BY <1>1, Positions DEF RegisteredInOrder, Handlers
<1>3. RegisteredInOrder'
  <2>1. \A i \in DOMAIN handlers', h \in Handlers : handlers'[i] = h => i = At(h)'
    <3> SUFFICES ASSUME NEW i \in DOMAIN handlers', NEW h \in Handlers, handlers'[i] = h
                 PROVE  i = At(h)'
      OBVIOUS
    <3>1. i \in 1..Len(handlers) \/ i = First + 1 \/ i = First + 2
      BY <1>1, <1>2, Positions
    <3>2. CASE i \in 1..Len(handlers)
      <4>1. i = At(h)
        BY <3>2, <1>2 DEF RegisteredInOrder
      <4> QED BY <4>1, SamePositions DEF Handlers
    <3>3. CASE i = First + 1
      BY <3>3, <1>2, Positions, SamePositions
    <3>4. CASE i = First + 2
      BY <3>4, <1>2, Positions, SamePositions
    <3> QED BY <3>1, <3>2, <3>3, <3>4
  <2> QED BY <2>1, <1>0, <1>1, <1>2, Positions, SamePositions DEF RegisteredInOrder
<1>4. Ranges'
  BY <1>1, <1>2, Positions DEF Ranges
<1>5. EventServerFollows' /\ PrometheusFollows'
  BY <1>0, <1>1 DEF EventServerFollows, PrometheusFollows
<1>6. ApiServerFollows'
  BY <1>0, <1>1, Positions, SamePositions DEF ApiServerFollows
<1>7. StoreFollows'
  BY SamePositions DEF StoreFollows
<1> QED BY <1>3, <1>4, <1>5, <1>6, <1>7 DEF ExitsAtTheEnd, Alive

LEMMA StartPrometheusStep == IInv /\ StartPrometheus => IInv'
<1> SUFFICES ASSUME IInv, StartPrometheus PROVE IInv'
  OBVIOUS
<1> USE DEF StartPrometheus, modes, messages, shutdown, IInv
<1>0. HasApi /\ HasApi' /\ ~HasProm /\ HasProm' = prod /\ HasEvent' = HasEvent
  BY DEF HasApi, HasProm, HasEvent, Ranges
<1>1. Len(handlers) = First + 2 /\ current \in Nat /\ current <= First + 3
  BY <1>0, Positions DEF RegisteredInOrder
<1>2. /\ handlers' \in Seq(Handlers) /\ Len(handlers') = First + 3
      /\ \A i \in 1..Len(handlers) : handlers'[i] = handlers[i]
      /\ handlers'[First + 3] = "prom"
  BY <1>1, Positions DEF RegisteredInOrder, Handlers
<1>a. prod
  BY DEF RegisteredInOrder
<1>3. RegisteredInOrder'
  <2>1. \A i \in DOMAIN handlers', h \in Handlers : handlers'[i] = h => i = At(h)'
    <3> SUFFICES ASSUME NEW i \in DOMAIN handlers', NEW h \in Handlers, handlers'[i] = h
                 PROVE  i = At(h)'
      OBVIOUS
    <3>1. i \in 1..Len(handlers) \/ i = First + 3
      BY <1>1, <1>2, Positions
    <3>2. CASE i \in 1..Len(handlers)
      <4>1. i = At(h)
        BY <3>2, <1>2 DEF RegisteredInOrder
      <4> QED BY <4>1, SamePositions DEF Handlers
    <3>3. CASE i = First + 3
      BY <3>3, <1>2, Positions, SamePositions
    <3> QED BY <3>1, <3>2, <3>3
  <2> QED BY <2>1, <1>0, <1>a, <1>1, <1>2, Positions, SamePositions DEF RegisteredInOrder
<1>4. Ranges'
  BY <1>1, <1>2, Positions DEF Ranges
<1>5. EventServerFollows' /\ ApiServerFollows'
  BY <1>0, <1>1, SamePositions DEF EventServerFollows, ApiServerFollows
<1>6. PrometheusFollows'
  BY <1>0, <1>a, <1>1, Positions, SamePositions DEF PrometheusFollows
<1>7. StoreFollows'
  BY SamePositions DEF StoreFollows
<1> QED BY <1>3, <1>4, <1>5, <1>6, <1>7 DEF ExitsAtTheEnd, Alive

LEMMA InitFailsStep == IInv /\ InitFails => IInv'
<1> SUFFICES ASSUME IInv, InitFails PROVE IInv'
  OBVIOUS
<1> USE DEF InitFails, modes, servers, messages, shutdown, IInv
<1>0. HasApi' = HasApi /\ HasProm' = HasProm /\ HasEvent' = HasEvent
  BY DEF HasApi, HasProm, HasEvent
<1>1. Ranges' /\ RegisteredInOrder'
  BY SameRegistered DEF Ranges
<1>2. EventServerFollows' /\ ApiServerFollows' /\ PrometheusFollows' /\ StoreFollows'
  BY <1>0, SamePositions DEF EventServerFollows, ApiServerFollows, PrometheusFollows, StoreFollows
<1> QED BY <1>1, <1>2 DEF ExitsAtTheEnd

-----------------------------------------------------------------------------
(* Messages and clients: they come only while their server is open.         *)
LEMMA ConnectionStep ==
  ASSUME IInv,
         \/ MessageArrives \/ ConnectionDrops \/ StartStoring \/ StopStoring \/ MessageDone
         \/ ClientJoins \/ ClientLeaves
  PROVE  IInv'
<1> USE DEF MessageArrives, ConnectionDrops, StartStoring, StopStoring, MessageDone, ClientJoins,
            ClientLeaves, modes, servers, messages, shutdown, IInv
<1>0. /\ HasApi' = HasApi /\ HasProm' = HasProm /\ HasEvent' = HasEvent
      /\ offline' = offline /\ handlers' = handlers /\ current' = current
  BY DEF HasApi, HasProm, HasEvent
<1>1. RegisteredInOrder'
  BY SameRegistered
<1>2. Ranges'
  <2>1. waiting' \in Nat /\ abandoned' \in Nat /\ waiting' + abandoned' <= MaxMessages
    BY LifecycleAssumption DEF Ranges
  <2>2. clients' \in 0..MaxClients
    BY LifecycleAssumption DEF Ranges
  <2>3. storing' \in BOOLEAN
    BY Zenon DEF Ranges
  <2> QED BY <1>0, <2>1, <2>2, <2>3 DEF Ranges
<1>3. EventServerFollows'
  BY <1>0, Positions DEF EventServerFollows, Ranges
<1>4. ApiServerFollows'
  BY <1>0, Positions, SamePositions DEF ApiServerFollows, Ranges
<1>5. PrometheusFollows' /\ StoreFollows'
  BY <1>0, SamePositions DEF PrometheusFollows, StoreFollows
<1> QED BY <1>1, <1>2, <1>3, <1>4, <1>5 DEF ExitsAtTheEnd

-----------------------------------------------------------------------------
(* The shutdown.                                                            *)
LEMMA SignalStep == ASSUME NEW s \in Signals, IInv, Signal(s) PROVE IInv'
<1> USE DEF Signal, modes, servers, messages, IInv
<1>0. /\ HasApi' = HasApi /\ HasProm' = HasProm /\ HasEvent' = HasEvent
      /\ offline' = offline /\ handlers' = handlers
  BY DEF HasApi, HasProm, HasEvent
<1>1. current' \in Nat /\ (current' = current \/ (current = 0 /\ current' = 1))
  <2>1. current \in Nat
    BY Positions
  <2>2. CASE s \in listening
    BY <2>1, <2>2 DEF StartShutdown
  <2>3. CASE s \notin listening
    BY <2>1, <2>3
  <2> QED BY <2>2, <2>3
<1>2. RegisteredInOrder'
  BY SameRegistered
<1>3. Ranges'
  BY <1>0, <1>1, Positions DEF Ranges
<1>4. EventServerFollows'
  BY <1>0, <1>1, Positions DEF EventServerFollows
<1>5. ApiServerFollows'
  BY <1>0, <1>1, Positions, SamePositions DEF ApiServerFollows
<1>6. PrometheusFollows' /\ StoreFollows'
  BY <1>0, <1>1, Positions, SamePositions DEF PrometheusFollows, StoreFollows
<1> QED BY <1>2, <1>3, <1>4, <1>5, <1>6 DEF ExitsAtTheEnd, Alive

(* A handler in the list, by its position.                                  *)
LEMMA RegisteredAt ==
  ASSUME IInv, NEW i \in DOMAIN handlers, NEW h \in Handlers, handlers[i] = h
  PROVE  /\ i = At(h) /\ i \in Nat /\ i >= 1 /\ i <= Len(handlers)
         /\ h = "event" => HasEvent
         /\ h \in {"api", "store"} => HasApi
         /\ h = "prom" => HasProm
<1>1. i = At(h) /\ i \in Nat /\ i >= 1 /\ i <= Len(handlers)
  BY DEF IInv, RegisteredInOrder
<1>2. ASSUME ~HasEvent, ~HasApi PROVE FALSE
  BY <1>1, <1>2, Positions DEF IInv, RegisteredInOrder
<1>3. ASSUME HasEvent, ~HasApi PROVE h = "event"
  BY <1>1, <1>3, Positions DEF IInv, RegisteredInOrder, HasEvent, Handlers
<1>4. ASSUME HasApi, h = "prom" PROVE HasProm
  BY <1>1, <1>4, Positions DEF IInv, RegisteredInOrder
<1>5. ASSUME h = "event" PROVE HasEvent
  BY <1>1, <1>2, <1>5, Positions DEF HasEvent, HasApi
<1> QED BY <1>1, <1>2, <1>3, <1>4, <1>5 DEF Handlers

LEMMA RunsAt ==
  ASSUME IInv, NEW h \in Handlers, Runs(h)
  PROVE  /\ current = At(h) /\ current >= 1 /\ current <= Len(handlers)
         /\ h = "event" => HasEvent
         /\ h \in {"api", "store"} => HasApi
         /\ h = "prom" => HasProm
BY RegisteredAt DEF Runs

(* Every server that was opened has its handler.                            *)
LEMMA Registered ==
  ASSUME IInv
  PROVE  /\ HasEvent <=> \E i \in DOMAIN handlers : handlers[i] = "event"
         /\ HasApi <=> \E i \in DOMAIN handlers : handlers[i] = "api"
<1> USE DEF IInv
<1>1. \A i \in DOMAIN handlers : handlers[i] \in Handlers /\ i = At(handlers[i])
  BY DEF RegisteredInOrder
<1>2. ASSUME HasEvent PROVE First = 1 /\ 1 \in DOMAIN handlers
  BY <1>2, Positions DEF RegisteredInOrder, HasEvent
<1>3. ASSUME HasEvent PROVE \E i \in DOMAIN handlers : handlers[i] = "event"
  <2>1. handlers[1] = "event"
    BY <1>1, <1>2, <1>3, Positions DEF Handlers
  <2> QED BY <2>1, <1>2, <1>3
<1>4. ASSUME HasApi PROVE First + 1 \in DOMAIN handlers
  BY <1>4, Positions DEF RegisteredInOrder
<1>5. ASSUME HasApi PROVE \E i \in DOMAIN handlers : handlers[i] = "api"
  <2>1. handlers[First + 1] = "api"
    BY <1>1, <1>4, <1>5, Positions DEF Handlers
  <2> QED BY <2>1, <1>4, <1>5
<1> QED BY <1>3, <1>5, RegisteredAt DEF Handlers

(* Two kinds of step: a handler starts to close its server, or is over.     *)
LEMMA CloseEventServerStep == IInv /\ RunHandler /\ CloseEventServer => IInv'
<1> SUFFICES ASSUME IInv, RunHandler, CloseEventServer PROVE IInv'
  OBVIOUS
<1> USE DEF RunHandler, CloseEventServer, Finish, modes, messages, IInv
<1>1. /\ RegisteredInOrder' /\ HasEvent' = HasEvent /\ HasApi' = HasApi /\ HasProm' = HasProm
  BY SameRegistered
<1>2. current = 1 /\ First = 1 /\ HasEvent /\ current <= Len(handlers)
  BY RunsAt, Positions DEF Handlers
<1>3. called["event"] \in Nat /\ current' \in {1, 2} /\ (errored' = errored)
  BY <1>2 DEF Ranges, Handlers
<1>4. Ranges'
  BY <1>2, <1>3 DEF Ranges, Handlers
<1>5. EventServerFollows'
  BY <1>1, <1>2, <1>3 DEF EventServerFollows, Ranges, Handlers
<1>6. ApiServerFollows' /\ PrometheusFollows' /\ StoreFollows'
  BY <1>1, <1>2, <1>3, Positions, SamePositions
  DEF ApiServerFollows, PrometheusFollows, StoreFollows, Ranges, Handlers
<1> QED BY <1>1, <1>4, <1>5, <1>6 DEF ExitsAtTheEnd, Runs, Alive

LEMMA TerminateApiStep == IInv /\ RunHandler /\ TerminateApi => IInv'
<1> SUFFICES ASSUME IInv, RunHandler, TerminateApi PROVE IInv'
  OBVIOUS
<1> USE DEF RunHandler, TerminateApi, Finish, modes, messages, IInv
<1>1. /\ RegisteredInOrder' /\ HasEvent' = HasEvent /\ HasApi' = HasApi /\ HasProm' = HasProm
  BY SameRegistered
<1>2. current = First + 1 /\ HasApi /\ current <= Len(handlers)
  BY RunsAt, Positions DEF Handlers
<1>a. errored' = errored
  BY DEF Ranges
<1>3. called["api"] \in Nat /\ current' \in {First + 1, First + 2} /\ errored' = errored
  BY <1>2, <1>a, Positions DEF Ranges, Handlers
<1>4. Ranges'
  BY <1>2, <1>3, Positions DEF Ranges, Handlers
<1>5. ApiServerFollows'
  BY <1>1, <1>2, <1>3, Positions, SamePositions DEF ApiServerFollows, Ranges, Handlers
<1>6. EventServerFollows'
  BY <1>1, <1>2, <1>3, Positions DEF EventServerFollows, Ranges, Handlers, HasEvent
<1>7. PrometheusFollows' /\ StoreFollows'
  BY <1>1, <1>2, <1>3, Positions, SamePositions DEF PrometheusFollows, StoreFollows, Ranges, Handlers
<1> QED BY <1>1, <1>4, <1>5, <1>6, <1>7 DEF ExitsAtTheEnd, Runs, Alive

LEMMA CloseStoreStep == IInv /\ RunHandler /\ CloseStore => IInv'
<1> SUFFICES ASSUME IInv, RunHandler, CloseStore PROVE IInv'
  OBVIOUS
<1> USE DEF RunHandler, modes, messages, IInv
<1>1. /\ RegisteredInOrder' /\ HasEvent' = HasEvent /\ HasApi' = HasApi /\ HasProm' = HasProm
  BY SameRegistered
<1>2. current = First + 2 /\ HasApi /\ current <= Len(handlers)
  BY RunsAt, Positions DEF CloseStore, Handlers
<1>3. ~(current > At("store")) /\ called["store"] = IF store = "closing" THEN 1 ELSE 0
  BY <1>2, Positions DEF StoreFollows
<1>4. UNCHANGED <<event, api, prom, messages, clients, handlers, exit, offline, prod, phase>>
  BY DEF CloseStore
<1>5. /\ called' \in [Handlers -> Nat] /\ called'["store"] = 1
      /\ \A h \in Handlers : h # "store" => called'[h] = called[h]
  <2>1. CASE called' = [called EXCEPT !["store"] = @ + 1] /\ called["store"] = 0
    BY <2>1 DEF Ranges, Handlers
  <2>2. CASE called' = called /\ called["store"] = 1
    BY <2>2 DEF Ranges
  <2>3. offline => store # "closing"
    BY <1>2, Positions DEF StoreFollows
  <2> QED BY <2>1, <2>2, <2>3, <1>3 DEF CloseStore, EndPool
<1>a. store # "closed" /\ (store = "closing" => ~offline)
  BY <1>3 DEF StoreFollows
<1>6. \/ /\ store' = "closing" /\ ~offline /\ current' = First + 2 /\ errored' = errored
      \/ /\ store' = "closed" /\ ~storing /\ current' = First + 3 /\ errored' = errored
      \/ /\ store' = store /\ store # "closing" /\ current' = First + 3 /\ errored' = TRUE
  <2>1. CASE EndPool /\ store # "closing"
    BY <2>1, <1>2 DEF EndPool, Finish
  <2>2. CASE EndPool /\ store = "closing"
    <3>1. store' = "closed" /\ ~storing /\ Finish(TRUE)
      BY <2>2 DEF EndPool
    <3>2. current' = First + 3
      BY <3>1, <1>2, Positions DEF Finish
    <3>3. errored' = errored
      BY <3>1 DEF Finish, Ranges
    <3> QED BY <3>1, <3>2, <3>3
  <2>3. CASE offline /\ UNCHANGED store /\ Finish(FALSE)
    <3>1. current' = First + 3
      BY <2>3, <1>2, Positions DEF Finish
    <3>2. errored' = TRUE
      BY <2>3 DEF Finish
    <3> QED BY <2>3, <3>1, <3>2, <1>a
  <2> QED BY <2>1, <2>2, <2>3 DEF CloseStore
<1>7. Ranges'
  <2>1. current' \in {First + 2, First + 3} /\ First + 2 <= Len(handlers)
    BY <1>2, <1>6
  <2>2. current' \in 0..(Len(handlers') + 1)
    BY <2>1, <1>4, Positions
  <2>3. errored' \in BOOLEAN
    BY <1>6 DEF Ranges
  <2> QED BY <2>2, <2>3, <1>4, <1>5 DEF Ranges
<1>8. StoreFollows'
  <2>1. /\ At("store")' = First + 2 /\ storing' = storing /\ offline' = offline
        /\ First \in {0, 1}
    BY <1>4, Positions, SamePositions
  <2>2. CASE store' = "closing" /\ ~offline /\ current' = First + 2 /\ errored' = errored
    BY <2>1, <2>2, <1>5 DEF StoreFollows
  <2>3. CASE store' = "closed" /\ ~storing /\ current' = First + 3
    BY <2>1, <2>3, <1>5 DEF StoreFollows
  <2>4. CASE store' = store /\ store # "closing" /\ current' = First + 3 /\ errored' = TRUE
    BY <2>1, <2>4, <1>a, <1>5 DEF StoreFollows
  <2> QED BY <2>2, <2>3, <2>4, <1>6
<1>9. EventServerFollows'
  BY <1>1, <1>2, <1>4, <1>5, <1>6, Positions DEF EventServerFollows, Handlers, HasEvent
<1>10. ApiServerFollows' /\ PrometheusFollows'
  BY <1>1, <1>2, <1>4, <1>5, <1>6, Positions, SamePositions DEF ApiServerFollows, PrometheusFollows, Handlers
<1> QED BY <1>1, <1>4, <1>7, <1>8, <1>9, <1>10 DEF ExitsAtTheEnd, Runs, Alive, CloseStore

LEMMA ClosePrometheusStep == IInv /\ RunHandler /\ ClosePrometheus => IInv'
<1> SUFFICES ASSUME IInv, RunHandler, ClosePrometheus PROVE IInv'
  OBVIOUS
<1> USE DEF RunHandler, ClosePrometheus, Finish, modes, messages, IInv
<1>1. /\ RegisteredInOrder' /\ HasEvent' = HasEvent /\ HasApi' = HasApi /\ HasProm' = HasProm
  BY SameRegistered
<1>2. current = First + 3 /\ HasProm /\ HasApi /\ current <= Len(handlers)
  BY RunsAt, Positions DEF Handlers, HasProm, HasApi
<1>3. called["prom"] \in Nat /\ current' = First + 4 /\ errored' = errored
  BY <1>2, Positions DEF Ranges, Handlers
<1>4. Ranges'
  BY <1>2, <1>3, Positions DEF Ranges, Handlers
<1>5. PrometheusFollows' /\ StoreFollows'
  BY <1>1, <1>2, <1>3, Positions, SamePositions DEF PrometheusFollows, StoreFollows, Ranges, Handlers
<1>6. EventServerFollows'
  BY <1>1, <1>2, <1>3, Positions DEF EventServerFollows, Ranges, Handlers, HasEvent
<1>7. ApiServerFollows'
  BY <1>1, <1>2, <1>3, Positions, SamePositions DEF ApiServerFollows, Ranges, Handlers
<1> QED BY <1>1, <1>4, <1>5, <1>6, <1>7 DEF ExitsAtTheEnd, Runs, Alive

LEMMA ExitStep == IInv /\ Exit => IInv'
<1> SUFFICES ASSUME IInv, Exit PROVE IInv'
  OBVIOUS
<1> USE DEF Exit, modes, servers, messages, shutdown, IInv
<1>0. RegisteredInOrder' /\ HasEvent' = HasEvent /\ HasApi' = HasApi /\ HasProm' = HasProm
  BY SameRegistered
<1>1. Ranges'
  BY DEF Ranges
<1>2. EventServerFollows' /\ ApiServerFollows' /\ PrometheusFollows' /\ StoreFollows'
  BY <1>0, SamePositions DEF EventServerFollows, ApiServerFollows, PrometheusFollows, StoreFollows
<1>3. ExitsAtTheEnd'
  BY DEF ExitsAtTheEnd
<1> QED BY <1>0, <1>1, <1>2, <1>3

LEMMA StutterStep == IInv /\ UNCHANGED vars => IInv'
<1> SUFFICES ASSUME IInv, UNCHANGED vars PROVE IInv'
  OBVIOUS
<1> USE DEF vars, modes, servers, messages, shutdown, IInv
<1>0. RegisteredInOrder' /\ HasEvent' = HasEvent /\ HasApi' = HasApi /\ HasProm' = HasProm
  BY SameRegistered
<1>1. Ranges'
  BY DEF Ranges
<1>2. EventServerFollows' /\ ApiServerFollows' /\ PrometheusFollows' /\ StoreFollows'
  BY <1>0, SamePositions DEF EventServerFollows, ApiServerFollows, PrometheusFollows, StoreFollows
<1> QED BY <1>0, <1>1, <1>2 DEF ExitsAtTheEnd

-----------------------------------------------------------------------------
(* IInv holds of every behaviour of init and of the shutdown.               *)
THEOREM Invariant == Spec => []IInv
<1>1. IInv /\ [Next]_vars => IInv'
  BY OpenStoreStep, WaitStep, StartEventServerStep, StartApiServerStep, StartPrometheusStep,
     InitFailsStep, ConnectionStep, SignalStep, CloseEventServerStep, TerminateApiStep,
     CloseStoreStep, ClosePrometheusStep, ExitStep, StutterStep
  DEF Next, RunHandler
<1> QED BY <1>1, InitIInv, PTL DEF Spec

(* Every server that was opened has a handler, once, and startShutdown runs *)
(* through the list.                                                        *)
THEOREM TypeCorrect == Spec => []TypeOK
<1>1. ASSUME IInv PROVE TypeOK
  <2> USE <1>1 DEF IInv
  <2>1. \A i, j \in DOMAIN handlers : handlers[i] = handlers[j] => i = j
    <3> SUFFICES ASSUME NEW i \in DOMAIN handlers, NEW j \in DOMAIN handlers,
                        handlers[i] = handlers[j]
                 PROVE  i = j
      OBVIOUS
    <3>1. handlers[i] \in Handlers
      BY DEF RegisteredInOrder
    <3> QED BY <3>1 DEF RegisteredInOrder
  <2>2. event # "off" <=> HasEvent
    BY Positions DEF EventServerFollows
  <2>3. api # "off" <=> HasApi
    BY Positions DEF ApiServerFollows
  <2>4. {event, api, prom} \subseteq {"off", "open", "closing", "closed"}
    BY Positions DEF EventServerFollows, ApiServerFollows, PrometheusFollows
  <2> QED BY <2>1, <2>2, <2>3, <2>4, Registered DEF TypeOK, Ranges
<1> QED BY <1>1, Invariant, PTL

(* Whenever the shutdown starts, the store refuses nothing that somebody    *)
(* waits for, and closes with no transaction of a message under way: the    *)
(* event server waits for connections, the pool for its clients in use.     *)
THEOREM StoreLast == Spec => []StoreClosedLast
<1>1. ASSUME IInv PROVE StoreClosedLast
  <2> USE <1>1 DEF IInv
  <2>1. store = "closed" => ~storing
    BY DEF StoreFollows
  <2>2. ASSUME store \in {"closing", "closed"}
        PROVE  event # "open" /\ waiting = 0 /\ api # "open"
    <3>1. current >= First + 2
      BY <2>2, Positions DEF StoreFollows
    <3>2. event # "open" /\ waiting = 0
      BY <3>1, Positions DEF EventServerFollows
    <3>3. api # "open"
      BY <3>1, Positions DEF ApiServerFollows
    <3> QED BY <3>2, <3>3
  <2> QED BY <2>1, <2>2 DEF StoreClosedLast
<1> QED BY <1>1, Invariant, PTL

(* Exit code 0 says that whatever was opened was closed again, and that     *)
(* nobody waits for an answer.                                              *)
THEOREM ExitIsClean == Spec => []CleanExit
<1>1. ASSUME IInv PROVE CleanExit
  <2> USE <1>1 DEF IInv
  <2> SUFFICES ASSUME exit = "ok"
               PROVE  /\ {event, api, prom} \cap {"open", "closing"} = {}
                      /\ waiting = 0 /\ clients = 0
                      /\ api = "closed" => store = "closed" /\ ~storing
    BY DEF CleanExit
  <2>1. current > Len(handlers) /\ ~errored
    BY DEF ExitsAtTheEnd
  <2>2. event \in {"off", "closed"} /\ waiting = 0
    <3>1. HasEvent => current > 1
      BY <2>1, Positions DEF RegisteredInOrder, HasEvent
    <3> QED BY <3>1 DEF EventServerFollows
  <2>3. api \in {"off", "closed"} /\ clients = 0
    BY <2>1, Positions DEF ApiServerFollows, RegisteredInOrder
  <2>4. prom \in {"off", "closed"}
    BY <2>1, Positions DEF PrometheusFollows, RegisteredInOrder, HasProm, HasApi
  <2>5. api = "closed" => store = "closed" /\ ~storing
    BY <2>1, Positions DEF ApiServerFollows, StoreFollows, RegisteredInOrder
  <2> QED BY <2>2, <2>3, <2>4, <2>5
<1> QED BY <1>1, Invariant, PTL

(* Several signals, rejections and exceptions call no handler twice.        *)
THEOREM CalledOnce == Spec => []HandlersOnce
<1>1. ASSUME IInv PROVE HandlersOnce
  BY <1>1, Positions
  DEF IInv, HandlersOnce, Handlers, EventServerFollows, ApiServerFollows, StoreFollows, PrometheusFollows
<1> QED BY <1>1, Invariant, PTL

-----------------------------------------------------------------------------
(* The import of Stacks 1.0 data.                                           *)
-----------------------------------------------------------------------------
(* Sequences whose elements need no common type.                            *)
LEMMA ListProperties ==
  ASSUME NEW s, IsList(s)
  PROVE  Len(s) \in Nat /\ DOMAIN s = 1..Len(s) /\ s = [i \in 1..Len(s) |-> s[i]]
BY LenProperties DEF IsList

LEMMA IsListOf == ASSUME NEW S, NEW s \in Seq(S) PROVE IsList(s)
<1>1. s \in [1..Len(s) -> {s[i] : i \in DOMAIN s}] /\ Len(s) \in Nat /\ DOMAIN s = 1..Len(s)
  BY LenProperties
<1> QED BY <1>1 DEF IsList

LEMMA ListOfFunction ==
  ASSUME NEW n \in Nat, NEW s, s = [i \in 1..n |-> s[i]]
  PROVE  IsList(s) /\ Len(s) = n
<1>1. DOMAIN s = 1..n /\ s \in [1..n -> {s[i] : i \in DOMAIN s}]
  OBVIOUS
<1>2. s \in Seq({s[i] : i \in DOMAIN s})
  BY <1>1
<1> QED BY <1>1, <1>2, LenProperties DEF IsList

(* Two lists are lists over one set, so that the laws of \o apply.          *)
LEMMA OneSet ==
  ASSUME NEW a, NEW b, IsList(a), IsList(b), NEW x
  PROVE  \E S : a \in Seq(S) /\ b \in Seq(S) /\ x \in S
<1> DEFINE A == {a[i] : i \in DOMAIN a}
           B == {b[i] : i \in DOMAIN b}
           S == A \cup B \cup {x}
<1>1. a \in Seq(A) /\ b \in Seq(B)
  BY DEF IsList
<1> HIDE DEF A, B
<1>2. a \in Seq(S) /\ b \in Seq(S)
  BY <1>1, SeqMonotonic, A \subseteq S, B \subseteq S
<1> QED BY <1>2

LEMMA ConcatList ==
  ASSUME NEW a, NEW b, IsList(a), IsList(b)
  PROVE  IsList(a \o b) /\ (a \o b) \o <<>> = a \o b /\ IsList(<<>>)
<1>1. PICK S : a \in Seq(S) /\ b \in Seq(S)
  BY OneSet
<1>2. a \o b \in Seq(S) /\ <<>> \in Seq(S)
  BY <1>1, ConcatProperties, EmptySeq
<1> QED BY <1>2, ConcatEmptySeq, IsListOf

LEMMA AppendList ==
  ASSUME NEW a, NEW b, IsList(a), IsList(b), NEW x
  PROVE  /\ IsList(Append(b, x)) /\ Len(Append(b, x)) = Len(b) + 1
         /\ a \o Append(b, x) = Append(a \o b, x)
<1>1. PICK S : a \in Seq(S) /\ b \in Seq(S) /\ x \in S
  BY OneSet
<1>2. Append(b, x) \in Seq(S) /\ Len(Append(b, x)) = Len(b) + 1
  BY <1>1, AppendProperties
<1>3. a \o Append(b, x) = Append(a \o b, x)
  <2>1. Append(b, x) = b \o <<x>> /\ Append(a \o b, x) = (a \o b) \o <<x>>
    BY <1>1, AppendIsConcat, ConcatProperties
  <2>2. <<x>> \in Seq(S)
    BY <1>1
  <2> QED BY <1>1, <2>1, <2>2, ConcatAssociative
<1> QED BY <1>2, <1>3, IsListOf

LEMMA AppendFunction ==
  ASSUME NEW b, IsList(b), NEW x
  PROVE  Append(b, x) = [i \in 1..(Len(b) + 1) |-> IF i = Len(b) + 1 THEN x ELSE b[i]]
<1>1. PICK S : b \in Seq(S) /\ x \in S
  BY OneSet
<1>2. Append(b, x) \in Seq(S) /\ Len(Append(b, x)) = Len(b) + 1
      /\ \A i \in 1..Len(b) : Append(b, x)[i] = b[i]
      /\ Append(b, x)[Len(b) + 1] = x
  BY <1>1, AppendProperties
<1>3. Len(b) \in Nat
  BY ListProperties
<1>4. \A i \in 1..(Len(b) + 1) : Append(b, x)[i] = IF i = Len(b) + 1 THEN x ELSE b[i]
  BY <1>2, <1>3
<1>5. Append(b, x) = [i \in 1..(Len(b) + 1) |-> Append(b, x)[i]]
  BY <1>2, LenProperties
<1> QED BY <1>4, <1>5, Zenon

-----------------------------------------------------------------------------
(* Numbering a set of lines by rank.                                        *)
LEMMA FiniteLines ==
  ASSUME NEW n \in Nat, NEW at \in SUBSET (1..n)
  PROVE  IsFiniteSet(at) /\ Cardinality(at) \in Nat
<1>1. IsFiniteSet(1..n)
  BY FS_Interval
<1>2. IsFiniteSet(at)
  BY <1>1, FS_Subset
<1> QED BY <1>2, FS_CardinalityType

LEMMA NextLineCounted ==
  ASSUME NEW n \in Nat, NEW at \in SUBSET (1..n)
  PROVE  Cardinality(at \cup {n + 1}) = Cardinality(at) + 1
<1>1. n + 1 \notin at
  OBVIOUS
<1> QED BY <1>1, FiniteLines, FS_AddElement

LEMMA RankKept ==
  ASSUME NEW n \in Nat, NEW at \in SUBSET (1..n), NEW k \in 1..Cardinality(at)
  PROVE  Nth(at \cup {n + 1}, k) = Nth(at, k)
<1> DEFINE more == at \cup {n + 1}
           Rank(S, j) == Cardinality({m \in S : m <= j})
<1>0. \A m \in at : m \in Nat /\ m <= n
  OBVIOUS
<1>1. \A j \in at : {m \in more : m <= j} = {m \in at : m <= j}
  OBVIOUS
<1>2. {m \in more : m <= n + 1} = more
  <2>1. \A m \in more : m <= n + 1
    BY <1>0
  <2> HIDE DEF more
  <2> QED BY <2>1
<1>3. Rank(more, n + 1) # k
  <2>1. Cardinality(more) = Cardinality(at) + 1 /\ Cardinality(at) \in Nat
    BY NextLineCounted, FiniteLines
  <2>2. Rank(more, n + 1) = Cardinality(at) + 1
    BY <1>2, <2>1
  <2> HIDE DEF Rank
  <2> QED BY <2>1, <2>2
<1>4. \A j \in at : Rank(more, j) = Rank(at, j)
  BY <1>1
<1> HIDE DEF Rank
<1>5. {j \in more : Rank(more, j) = k} = {j \in at : Rank(at, j) = k}
  BY <1>3, <1>4
<1> QED BY <1>5 DEF Nth, Rank

LEMMA RankLast ==
  ASSUME NEW n \in Nat, NEW at \in SUBSET (1..n)
  PROVE  Nth(at \cup {n + 1}, Cardinality(at) + 1) = n + 1
<1> DEFINE more == at \cup {n + 1}
           Rank(j) == Cardinality({m \in more : m <= j})
<1>0. \A m \in at : m \in Nat /\ m <= n
  OBVIOUS
<1>1. \A j \in at : {m \in more : m <= j} \subseteq at
  OBVIOUS
<1>2. {m \in more : m <= n + 1} = more
  <2>1. \A m \in more : m <= n + 1
    BY <1>0
  <2> HIDE DEF more
  <2> QED BY <2>1
<1>3. Rank(n + 1) = Cardinality(at) + 1
  BY <1>2, NextLineCounted
<1>4. \A j \in at : Rank(j) \in Nat /\ Rank(j) <= Cardinality(at)
  BY <1>1, FiniteLines, FS_Subset, FS_CardinalityType
<1> HIDE DEF Rank
<1>5. {j \in more : Rank(j) = Cardinality(at) + 1} = {n + 1}
  <2>1. Cardinality(at) \in Nat
    BY FiniteLines
  <2>2. \A j \in more : Rank(j) = Cardinality(at) + 1 <=> j = n + 1
    BY <1>3, <1>4, <2>1
  <2>3. n + 1 \in more
    OBVIOUS
  <2> HIDE DEF more
  <2> QED BY <2>2, <2>3
<1> QED BY <1>5 DEF Nth, Rank

LEMMA RowsAreList ==
  ASSUME NEW lines, NEW sec, IsList(lines), NEW n
  PROVE  IsList(RowsAbove(lines, sec, n))
<1> DEFINE at == {i \in RowsAt(lines, sec) : i <= n}
           rows == RowsAbove(lines, sec, n)
<1>1. Len(lines) \in Nat /\ DOMAIN lines = 1..Len(lines)
  BY ListProperties
<1>2. at \in SUBSET (1..Len(lines))
  BY <1>1 DEF RowsAt
<1>3. Cardinality(at) \in Nat
  BY <1>1, <1>2, FiniteLines
<1>4. rows = [k \in 1..Cardinality(at) |-> lines[Nth(at, k)]]
  BY DEF RowsAbove
<1> HIDE DEF at, rows
<1> QED BY <1>3, <1>4, ListOfFunction DEF rows

(* RowsAbove grows by the next line when that is a row of the section.      *)
LEMMA RowsGrow ==
  ASSUME NEW lines, NEW sec, IsList(lines), NEW n \in Nat, n < Len(lines)
  PROVE  /\ IsList(RowsAbove(lines, sec, n))
         /\ n + 1 \in RowsAt(lines, sec) =>
              RowsAbove(lines, sec, n + 1) = Append(RowsAbove(lines, sec, n), lines[n + 1])
         /\ n + 1 \notin RowsAt(lines, sec) =>
              RowsAbove(lines, sec, n + 1) = RowsAbove(lines, sec, n)
<1> DEFINE UpTo(m) == {i \in RowsAt(lines, sec) : i <= m}
           rows == RowsAbove(lines, sec, n)
<1>0. Len(lines) \in Nat /\ DOMAIN lines = 1..Len(lines)
  BY ListProperties
<1>1. RowsAt(lines, sec) \subseteq 1..Len(lines)
  BY <1>0 DEF RowsAt
<1>2. UpTo(n) \in SUBSET (1..n)
  BY <1>0, <1>1
<1>3. Cardinality(UpTo(n)) \in Nat
  BY <1>2, FiniteLines
<1>4. rows = [k \in 1..Cardinality(UpTo(n)) |-> lines[Nth(UpTo(n), k)]]
  BY DEF RowsAbove
<1>5. IsList(rows) /\ Len(rows) = Cardinality(UpTo(n))
  <2> HIDE DEF UpTo, rows
  <2> QED BY <1>3, <1>4, ListOfFunction
<1>6. ASSUME n + 1 \in RowsAt(lines, sec)
      PROVE  RowsAbove(lines, sec, n + 1) = Append(rows, lines[n + 1])
  <2>1. UpTo(n + 1) = UpTo(n) \cup {n + 1}
    BY <1>0, <1>1, <1>6
  <2>2. RowsAbove(lines, sec, n + 1)
          = [k \in 1..Cardinality(UpTo(n + 1)) |-> lines[Nth(UpTo(n + 1), k)]]
    BY DEF RowsAbove
  <2> HIDE DEF UpTo, rows
  <2>3. Cardinality(UpTo(n + 1)) = Cardinality(UpTo(n)) + 1
    BY <1>2, <2>1, NextLineCounted
  <2>4. \A k \in 1..Cardinality(UpTo(n)) : Nth(UpTo(n + 1), k) = Nth(UpTo(n), k)
    BY <1>2, <2>1, RankKept
  <2>5. Nth(UpTo(n + 1), Cardinality(UpTo(n)) + 1) = n + 1
    BY <1>2, <2>1, RankLast
  <2>6. Append(rows, lines[n + 1])
          = [i \in 1..(Len(rows) + 1) |-> IF i = Len(rows) + 1 THEN lines[n + 1] ELSE rows[i]]
    BY <1>5, AppendFunction
  <2> QED BY <1>3, <1>4, <1>5, <2>2, <2>3, <2>4, <2>5, <2>6
<1>7. ASSUME n + 1 \notin RowsAt(lines, sec)
      PROVE  RowsAbove(lines, sec, n + 1) = rows
  <2>1. UpTo(n + 1) = UpTo(n)
    BY <1>0, <1>1, <1>7
  <2> QED BY <2>1 DEF RowsAbove
<1> QED BY <1>5, <1>6, <1>7

LEMMA NoRows ==
  ASSUME NEW lines, NEW sec, IsList(lines)
  PROVE  RowsAbove(lines, sec, 0) = <<>>
<1>1. {i \in RowsAt(lines, sec) : i <= 0} = {}
  BY ListProperties DEF RowsAt
<1>2. RowsAbove(lines, sec, 0) = [k \in 1..Cardinality({}) |-> lines[Nth({}, k)]]
  BY <1>1 DEF RowsAbove
<1>3. Cardinality({}) = 0
  BY FS_EmptySet
<1> DEFINE rows == RowsAbove(lines, sec, 0)
<1>4. rows = [k \in 1..0 |-> rows[k]]
  BY <1>2, <1>3
<1> HIDE DEF rows
<1>5. IsList(rows) /\ Len(rows) = 0
  BY <1>4, ListOfFunction
<1>6. rows = <<>>
  BY <1>5, EmptySeq DEF IsList
<1> QED BY <1>6 DEF rows

(* The section of a line, from the one of the line above.                   *)
LEMMA SectionAtTop ==
  ASSUME NEW lines, IsList(lines)
  PROVE  SectionOf(lines, 1) = "none"
<1>1. {j \in Marks(lines) : j < 1} = {}
  BY ListProperties DEF Marks
<1> QED BY <1>1 DEF SectionOf

LEMMA SectionNext ==
  ASSUME NEW lines, IsList(lines), NEW n \in Nat, n < Len(lines)
  PROVE  SectionOf(lines, n + 2) =
           CASE lines[n + 1].kind = "begin" -> lines[n + 1].section
             [] lines[n + 1].kind = "end" -> "none"
             [] OTHER -> SectionOf(lines, n + 1)
<1> DEFINE Above(m) == {j \in Marks(lines) : j < m}
           Last(S) == CHOOSE j \in S : \A k \in S : k <= j
<1>0. Len(lines) \in Nat /\ DOMAIN lines = 1..Len(lines) /\ Marks(lines) \subseteq 1..Len(lines)
  BY ListProperties DEF Marks
<1>1. \A m : SectionOf(lines, m) = IF Above(m) = {} \/ lines[Last(Above(m))].kind = "end"
                                   THEN "none" ELSE lines[Last(Above(m))].section
  BY DEF SectionOf
<1>2. CASE lines[n + 1].kind \in {"begin", "end"}
  <2>1. n + 1 \in Above(n + 2) /\ \A k \in Above(n + 2) : k \in Nat /\ k <= n + 1
    BY <1>0, <1>2 DEF Marks
  <2>2. Last(Above(n + 2)) = n + 1
    <3> DEFINE S == Above(n + 2)
    <3> HIDE DEF S
    <3> SUFFICES Last(S) = n + 1
      BY DEF S
    <3>1. n + 1 \in S /\ \A k \in S : k \in Nat /\ k <= n + 1
      BY <2>1 DEF S
    <3>2. Last(S) \in S /\ \A k \in S : k <= Last(S)
      BY <3>1
    <3> HIDE DEF Last
    <3> QED BY <3>1, <3>2
  <2> HIDE DEF Above, Last
  <2> QED BY <1>1, <1>2, <2>1, <2>2
<1>3. CASE lines[n + 1].kind \notin {"begin", "end"}
  <2>1. Above(n + 2) = Above(n + 1)
    BY <1>0, <1>3 DEF Marks
  <2> HIDE DEF Above, Last
  <2> QED BY <1>1, <1>3, <2>1
<1> QED BY <1>2, <1>3

-----------------------------------------------------------------------------
(* The tables that rows make.                                               *)
LEMMA TablesOfRows ==
  ASSUME NEW rows, IsList(rows), NEW zones
  PROVE  /\ IsList(VestingOf(rows)) /\ IsList(NamesOf(rows, zones)) /\ IsList(SpacesOf(rows))
         /\ Len(VestingOf(rows)) = Len(rows)
         /\ Len(NamesOf(rows, zones)) = Len(rows)
         /\ Len(SpacesOf(rows)) = Len(rows)
<1>1. Len(rows) \in Nat /\ DOMAIN rows = 1..Len(rows)
  BY ListProperties
<1> DEFINE v == VestingOf(rows)
           n == NamesOf(rows, zones)
           p == SpacesOf(rows)
<1>2. v = [k \in 1..Len(rows) |-> v[k]]
  BY <1>1 DEF VestingOf
<1>3. n = [k \in 1..Len(rows) |-> n[k]]
  BY <1>1 DEF NamesOf
<1>4. p = [k \in 1..Len(rows) |-> p[k]]
  BY <1>1 DEF SpacesOf
<1> HIDE DEF v, n, p
<1>5. IsList(v) /\ IsList(n) /\ IsList(p) /\ Len(v) = Len(rows) /\ Len(n) = Len(rows) /\ Len(p) = Len(rows)
  BY <1>1, <1>2, <1>3, <1>4, ListOfFunction
<1> QED BY <1>5 DEF v, n, p

VestingRow(row) == [address |-> ToStx(row.address), value |-> row.value, block |-> row.block]

LEMMA AppendedRow ==
  ASSUME NEW rows, IsList(rows), NEW zones, NEW x
  PROVE  /\ VestingOf(Append(rows, x)) = Append(VestingOf(rows), VestingRow(x))
         /\ NamesOf(Append(rows, x), zones) = Append(NamesOf(rows, zones), Name(x, zones))
         /\ SpacesOf(Append(rows, x)) = Append(SpacesOf(rows), x.name)
<1> DEFINE more == Append(rows, x)
           n == Len(rows)
<1>1. n \in Nat /\ DOMAIN rows = 1..n
  BY ListProperties
<1>2. more = [i \in 1..(n + 1) |-> IF i = n + 1 THEN x ELSE rows[i]]
  BY AppendFunction
<1> HIDE DEF more
<1>3. DOMAIN more = 1..(n + 1) /\ more[n + 1] = x /\ \A i \in 1..n : more[i] = rows[i]
  BY <1>1, <1>2
<1>4. VestingOf(more) = Append(VestingOf(rows), VestingRow(x))
  <2> DEFINE v == VestingOf(rows)
  <2>1. IsList(v) /\ Len(v) = n
    BY TablesOfRows
  <2>2. \A i \in 1..n : v[i] = VestingRow(rows[i])
    BY <1>1 DEF VestingOf, VestingRow
  <2>3. VestingOf(more) = [i \in 1..(n + 1) |-> VestingRow(more[i])]
    BY <1>3 DEF VestingOf, VestingRow
  <2> HIDE DEF v
  <2>4. Append(v, VestingRow(x)) = [i \in 1..(n + 1) |-> IF i = n + 1 THEN VestingRow(x) ELSE v[i]]
    BY <2>1, AppendFunction
  <2>5. \A i \in 1..(n + 1) : VestingRow(more[i]) = IF i = n + 1 THEN VestingRow(x) ELSE v[i]
    BY <1>1, <1>3, <2>2
  <2> QED BY <2>3, <2>4, <2>5 DEF v
<1>5. NamesOf(more, zones) = Append(NamesOf(rows, zones), Name(x, zones))
  <2> DEFINE v == NamesOf(rows, zones)
  <2>1. IsList(v) /\ Len(v) = n
    BY TablesOfRows
  <2>2. \A i \in 1..n : v[i] = Name(rows[i], zones)
    BY <1>1 DEF NamesOf
  <2>3. NamesOf(more, zones) = [i \in 1..(n + 1) |-> Name(more[i], zones)]
    BY <1>3 DEF NamesOf
  <2> HIDE DEF v
  <2>4. Append(v, Name(x, zones)) = [i \in 1..(n + 1) |-> IF i = n + 1 THEN Name(x, zones) ELSE v[i]]
    BY <2>1, AppendFunction
  <2>5. \A i \in 1..(n + 1) : Name(more[i], zones) = IF i = n + 1 THEN Name(x, zones) ELSE v[i]
    BY <1>1, <1>3, <2>2
  <2> QED BY <2>3, <2>4, <2>5 DEF v
<1>6. SpacesOf(more) = Append(SpacesOf(rows), x.name)
  <2> DEFINE v == SpacesOf(rows)
  <2>1. IsList(v) /\ Len(v) = n
    BY TablesOfRows
  <2>2. \A i \in 1..n : v[i] = rows[i].name
    BY <1>1 DEF SpacesOf
  <2>3. SpacesOf(more) = [i \in 1..(n + 1) |-> more[i].name]
    BY <1>3 DEF SpacesOf
  <2> HIDE DEF v
  <2>4. Append(v, x.name) = [i \in 1..(n + 1) |-> IF i = n + 1 THEN x.name ELSE v[i]]
    BY <2>1, AppendFunction
  <2>5. \A i \in 1..(n + 1) : more[i].name = IF i = n + 1 THEN x.name ELSE v[i]
    BY <1>1, <1>3, <2>2
  <2> QED BY <2>3, <2>4, <2>5 DEF v
<1> QED BY <1>4, <1>5, <1>6 DEF more

LEMMA EmptyTables ==
  ASSUME NEW zones
  PROVE  VestingOf(<<>>) = <<>> /\ NamesOf(<<>>, zones) = <<>> /\ SpacesOf(<<>>) = <<>>
<1>1. IsList(<<>>) /\ Len(<<>>) = 0
  BY EmptySeq, IsListOf
<1>2. \A s : IsList(s) /\ Len(s) = 0 => s = <<>>
  BY EmptySeq DEF IsList
<1> DEFINE v == VestingOf(<<>>)
           n == NamesOf(<<>>, zones)
           p == SpacesOf(<<>>)
<1>3. IsList(v) /\ IsList(n) /\ IsList(p) /\ Len(v) = 0 /\ Len(n) = 0 /\ Len(p) = 0
  BY <1>1, TablesOfRows
<1> HIDE DEF v, n, p
<1>4. v = <<>> /\ n = <<>> /\ p = <<>>
  BY <1>2, <1>3
<1> QED BY <1>4 DEF v, n, p

LEMMA SubdomainRowsGrow ==
  ASSUME NEW e, NEW n \in Nat
  PROVE  /\ IsList(SubdomainRows(e, n)) /\ SubdomainRows(e, 0) = <<>>
         /\ SubdomainRows(e, n + 1) = Append(SubdomainRows(e, n), SubdomainRow(e, n + 1))
<1>1. \A m \in Nat : IsList(SubdomainRows(e, m)) /\ Len(SubdomainRows(e, m)) = m
  <2> TAKE m \in Nat
  <2> DEFINE v == SubdomainRows(e, m)
  <2>1. v = [i \in 1..m |-> v[i]]
    BY DEF SubdomainRows
  <2> HIDE DEF v
  <2>2. IsList(v) /\ Len(v) = m
    BY <2>1, ListOfFunction
  <2> QED BY <2>2 DEF v
<1>2. SubdomainRows(e, 0) = <<>>
  BY <1>1, EmptySeq DEF IsList
<1>3. SubdomainRows(e, n + 1) = Append(SubdomainRows(e, n), SubdomainRow(e, n + 1))
  <2> DEFINE v == SubdomainRows(e, n)
  <2>1. IsList(v) /\ Len(v) = n
    BY <1>1
  <2>2. \A i \in 1..n : v[i] = SubdomainRow(e, i)
    BY DEF SubdomainRows
  <2>3. SubdomainRows(e, n + 1) = [i \in 1..(n + 1) |-> SubdomainRow(e, i)]
    BY DEF SubdomainRows
  <2> HIDE DEF v
  <2>4. Append(v, SubdomainRow(e, n + 1))
          = [i \in 1..(n + 1) |-> IF i = n + 1 THEN SubdomainRow(e, n + 1) ELSE v[i]]
    BY <2>1, AppendFunction
  <2>5. \A i \in 1..(n + 1) :
          SubdomainRow(e, i) = IF i = n + 1 THEN SubdomainRow(e, n + 1) ELSE v[i]
    BY <2>2
  <2> QED BY <2>3, <2>4, <2>5 DEF v
<1> QED BY <1>1, <1>2, <1>3

(* Both subdomain files have a length.                                      *)
LEMMA SubdomainLengths ==
  ASSUME NEW e \in Exports
  PROVE  Len(Subdomains(e.subdomains)) \in Nat /\ Len(Pairs(e.subdomainZones)) \in Nat
         /\ DOMAIN Subdomains(e.subdomains) = 1..Len(Subdomains(e.subdomains))
<1> DEFINE rows == e.subdomains
           data == {i \in DOMAIN rows : rows[i].kind # "header"}
           subs == Subdomains(rows)
           ps == Pairs(e.subdomainZones)
           half == Len(e.subdomainZones) \div 2
<1>1. IsList(rows) /\ IsList(e.subdomainZones)
  BY ImportV1Assumption
<1>2. Len(rows) \in Nat /\ data \in SUBSET (1..Len(rows))
  BY <1>1, ListProperties
<1>3. Cardinality(data) \in Nat
  BY <1>2, FiniteLines
<1>4. subs = [k \in 1..Cardinality(data) |-> subs[k]]
  BY DEF Subdomains
<1>5. Len(e.subdomainZones) \in Nat
  BY <1>1, ListProperties
<1>6. half \in Nat
  <2>1. \A n \in Nat : n \div 2 \in Nat
    OBVIOUS
  <2> QED BY <1>5, <2>1
<1>7. ps = [i \in 1..half |-> ps[i]]
  BY DEF Pairs
<1> HIDE DEF data, subs, ps, half
<1>8. IsList(subs) /\ IsList(ps)
  BY <1>3, <1>4, <1>6, <1>7, ListOfFunction
<1> QED BY <1>8, ListProperties DEF subs, ps

-----------------------------------------------------------------------------
(* The tables are lists, whatever was imported.                             *)
LEMMA TablesAreLists ==
  ASSUME ImportIInv
  PROVE  IsList(db.locked) /\ IsList(db.subdomains) /\ IsList(<<>>)
<1>0. export \in Exports /\ IsList(export.genesis)
  BY ImportV1Assumption DEF ImportIInv, Phase
<1>1. IsList(<<>>)
  BY EmptySeq, IsListOf
<1>2. IsList(VestingOf(RowsOf(export.genesis, "stx_vesting")))
  BY <1>0, RowsAreList, TablesOfRows DEF RowsOf
<1>3. IsList(SubdomainRows(export, Len(Subdomains(export.subdomains))))
  BY <1>0, SubdomainLengths, SubdomainRowsGrow
<1>4. IsList(db.locked)
  BY <1>1, <1>2 DEF ImportIInv, OfferingAllOrNothing
<1>5. IsList(db.subdomains)
  BY <1>1, <1>3 DEF ImportIInv, BnsAllOrNothing, BnsImported
<1> QED BY <1>1, <1>4, <1>5

LEMMA SameTables ==
  ASSUME ImportIInv, UNCHANGED <<db, export>>
  PROVE  BnsAllOrNothing' /\ OfferingAllOrNothing'
BY DEF ImportIInv, BnsAllOrNothing, BnsImported, OfferingAllOrNothing

(* Outside an import nothing is open.                                       *)
LEMMA Idle ==
  ASSUME ImportIInv, UNCHANGED <<db, export>>, txn' = db, batch' = <<>>, section' = "none", pos' = 0, faults' \in Nat,
         importPc' \in Phases \ {"vesting", "chain", "subdomains"}
  PROVE  ImportIInv'
<1>1. IsList(db.locked) /\ IsList(db.subdomains) /\ IsList(<<>>) /\ Len(<<>>) = 0
  BY TablesAreLists, EmptySeq
<1>2. Phase'
  BY <1>1, ImportV1Assumption DEF ImportIInv, Phase, IsDb
<1> QED BY <1>2, SameTables DEF ImportIInv

LEMMA ImportInitIInv == ImportInit => ImportIInv
<1> SUFFICES ASSUME ImportInit PROVE ImportIInv
  OBVIOUS
<1>1. IsList(<<>>) /\ Len(<<>>) = 0
  BY EmptySeq, IsListOf
<1>2. IsDb(EmptyDb) /\ EmptyDb.locked = <<>> /\ EmptyDb.subdomains = <<>>
  BY DEF IsDb, EmptyDb
<1>3. 0 <= BatchSize
  BY ImportV1Assumption
<1>4. Phase
  <2> USE DEF ImportInit
  <2>1. importPc = "down" /\ "down" \in Phases /\ faults \in Nat /\ export \in Exports /\ pos \in Nat
    BY DEF Phases
  <2>2. IsDb(db) /\ IsDb(txn) /\ IsList(txn.locked) /\ IsList(txn.subdomains) /\ IsList(batch)
    BY <1>1, <1>2
  <2>3. Len(batch) <= BatchSize /\ batch = <<>> /\ section = "none" /\ txn = db
    BY <1>1, <1>3
  <2> HIDE DEF ImportInit
  <2> QED BY <2>1, <2>2, <2>3 DEF Phase
<1> QED BY <1>4 DEF ImportInit, ImportIInv, BnsAllOrNothing, OfferingAllOrNothing, EmptyDb

LEMMA AbortStep == ASSUME ImportIInv, Abort PROVE ImportIInv'
BY Idle DEF Abort, Goto, Phases, ImportIInv, Phase

LEMMA BootStep == ASSUME ImportIInv, Boot PROVE ImportIInv'
BY Idle DEF Boot, Goto, Phases, ImportIInv, Phase

LEMMA FailStep == ASSUME ImportIInv, Fail PROVE ImportIInv'
<1>1. faults \in Nat
  BY DEF ImportIInv, Phase
<1>2. faults' = faults + 1
  BY DEF Fail, Stop
<1>3. faults' \in Nat
  BY <1>1, <1>2
<1> QED BY <1>3, Idle DEF Fail, Stop, Phases

-----------------------------------------------------------------------------
(* importV1TokenOfferingData.                                               *)
LEMMA ImportTokenOfferingStep == ASSUME ImportIInv, ImportTokenOffering PROVE ImportIInv'
<1>1. CASE db.offering
  BY <1>1, Idle DEF ImportTokenOffering, Goto, Phases, ImportIInv, Phase
<1>2. CASE ~db.offering
  <2>1. IsList(db.locked) /\ IsList(db.subdomains) /\ IsList(<<>>) /\ Len(<<>>) = 0
    BY TablesAreLists, EmptySeq
  <2>2. importPc' = "vesting" /\ batch' = <<>> /\ pos' = 0 /\ section' = "none" /\ txn' = db
        /\ UNCHANGED <<db, export, faults>> /\ config' = Flags
    BY <1>2 DEF ImportTokenOffering, Goto
  <2>3. Phase'
    <3>1. IsDb(db)' /\ IsDb(txn)'
      BY <2>2 DEF ImportIInv, Phase, IsDb
    <3>2. IsList(txn.locked)' /\ IsList(txn.subdomains)' /\ IsList(batch)'
      BY <2>1, <2>2
    <3>3. Len(batch') <= BatchSize /\ pos' \in Nat /\ faults' \in Nat /\ export' \in Exports
          /\ importPc' \in Phases
      <4>1. faults \in Nat /\ export \in Exports /\ BatchSize \in Nat
        BY ImportV1Assumption DEF ImportIInv, Phase
      <4>2. Len(batch') = 0
        BY <2>1, <2>2
      <4>3. pos' = 0 /\ faults' = faults /\ export' = export /\ importPc' = "vesting"
        BY <2>2
      <4> QED BY <4>1, <4>2, <4>3 DEF Phases
    <3>4. (config = Flags)'
      BY <2>2 DEF Flags
    <3> QED BY <2>2, <3>1, <3>2, <3>3, <3>4 DEF Phase
  <2>4. IsList(export.genesis) /\ Len(export.genesis) \in Nat
    BY ImportV1Assumption, ListProperties DEF ImportIInv, Phase
  <2>5. SectionOf(export.genesis, 1) = "none"
    BY <2>4, SectionAtTop
  <2>6. VestingOf(RowsAbove(export.genesis, "stx_vesting", 0)) = <<>>
    BY <2>4, NoRows, EmptyTables
  <2>7. db.locked = <<>> /\ <<>> \o <<>> = <<>>
    BY <1>2, ConcatEmptySeq, EmptySeq DEF ImportIInv, OfferingAllOrNothing
  <2>8. db = [db EXCEPT !.locked = db.locked]
    BY DEF ImportIInv, Phase, IsDb
  <2>9. VestingRead'
    <3>1. pos' + 1 = 1 /\ pos' <= Len(export.genesis)
      <4>1. pos' = 0 /\ Len(export.genesis) \in Nat
        BY <2>2, <2>4
      <4> QED BY <4>1
    <3>2. (txn = [db EXCEPT !.locked = txn.locked])'
      BY <2>2, <2>8
    <3> QED BY <1>2, <2>2, <2>5, <2>6, <2>7, <3>1, <3>2 DEF VestingRead
  <2> QED BY <2>2, <2>3, <2>9, SameTables DEF ImportIInv
<1> QED BY <1>1, <1>2

(* StxVestingTransform.                                                     *)
LEMMA ReadVestingStep == ASSUME ImportIInv, ReadVesting PROVE ImportIInv'
<1> DEFINE lines == export.genesis
           line == lines[pos + 1]
           sec == "stx_vesting"
           open == section = "vesting" /\ ~(line.kind = "end" /\ line.section = sec)
           row == [address |-> ToStx(line.address), value |-> line.value, block |-> line.block]
<1>1. /\ importPc = "vesting" /\ Len(batch) < BatchSize /\ pos < Len(lines) /\ pos' = pos + 1
      /\ UNCHANGED <<export, db, txn, config, importPc, namespaces, faults>>
      /\ batch' = IF open /\ line.kind = "row" THEN Append(batch, row) ELSE batch
      /\ section' = IF open \/ (line.kind = "begin" /\ line.section = sec) THEN "vesting" ELSE "none"
  BY DEF ReadVesting
<1>2. /\ IsList(lines) /\ Paired(lines) /\ pos \in Nat /\ VestingRead
      /\ IsList(batch) /\ IsList(txn.locked) /\ IsList(txn.subdomains)
      /\ Len(batch) \in Nat /\ Len(lines) \in Nat /\ DOMAIN lines = 1..Len(lines)
  BY <1>1, ImportV1Assumption, ListProperties DEF ImportIInv, Phase
<1>a. pos \in Nat /\ Len(lines) \in Nat /\ pos < Len(lines) /\ pos' = pos + 1
  BY <1>1, <1>2
<1>b. pos + 1 \in 1..Len(lines) /\ pos' \in Nat /\ pos' + 1 = pos + 2 /\ pos' <= Len(lines)
  BY <1>a
<1>c. IsList(batch) /\ IsList(txn.locked)
  BY <1>2
<1> HIDE DEF row
<1>3. IsList(Append(batch, row)) /\ Len(Append(batch, row)) = Len(batch) + 1
      /\ txn.locked \o Append(batch, row) = Append(txn.locked \o batch, row)
  <2> DEFINE a == txn.locked
             b == batch
  <2> HIDE DEF a, b
  <2>1. IsList(a) /\ IsList(b)
    BY <1>c DEF a, b
  <2>2. IsList(Append(b, row)) /\ Len(Append(b, row)) = Len(b) + 1
        /\ a \o Append(b, row) = Append(a \o b, row)
    BY <2>1, AppendList
  <2> QED BY <2>2 DEF a, b
<1>4. Phase'
  <2>1. IsDb(db)' /\ IsDb(txn)'
    BY <1>1 DEF ImportIInv, Phase, IsDb
  <2>2. IsList(txn.locked)' /\ IsList(txn.subdomains)'
    BY <1>1, <1>2
  <2>3. IsList(batch') /\ Len(batch') <= BatchSize
    <3>1. CASE batch' = batch
      BY <1>c, <3>1 DEF ImportIInv, Phase
    <3>2. CASE batch' = Append(batch, row)
      <4>1. Len(batch) \in Nat /\ Len(batch) < BatchSize /\ BatchSize \in Nat
        BY <1>1, <1>2, ImportV1Assumption
      <4> QED BY <1>3, <3>2, <4>1
    <3> QED BY <1>1, <3>1, <3>2
  <2>4. pos' \in Nat /\ faults' \in Nat /\ export' \in Exports /\ importPc' = "vesting" /\ importPc' \in Phases
    BY <1>1, <1>b DEF ImportIInv, Phase
  <2>5. (config = Flags)'
    BY <1>1 DEF Flags, ImportIInv, Phase
  <2> QED BY <2>1, <2>2, <2>3, <2>4, <2>5 DEF Phase
<1>5. pos + 1 \in RowsAt(lines, sec) <=> line.kind = "row" /\ SectionOf(lines, pos + 1) = sec
  BY <1>2, <1>b DEF RowsAt
<1>6. section = IF SectionOf(lines, pos + 1) = sec THEN "vesting" ELSE "none"
  BY <1>2 DEF VestingRead
<1>7. (open /\ line.kind = "row") <=> pos + 1 \in RowsAt(lines, sec)
  BY <1>5, <1>6
<1>8. txn.locked \o batch' = VestingOf(RowsAbove(lines, sec, pos + 1))
  <2> DEFINE rows == RowsAbove(lines, sec, pos)
  <2>1. txn.locked \o batch = VestingOf(rows) /\ IsList(rows)
    BY <1>2, RowsAreList DEF VestingRead
  <2>2. CASE pos + 1 \in RowsAt(lines, sec)
    <3>1. RowsAbove(lines, sec, pos + 1) = Append(rows, line)
      BY <1>1, <1>2, <2>2, RowsGrow
    <3> HIDE DEF rows
    <3>2. VestingOf(Append(rows, line)) = Append(VestingOf(rows), row)
      BY <2>1, AppendedRow DEF VestingRow, row
    <3> QED BY <1>1, <1>3, <1>7, <2>1, <2>2, <3>1, <3>2
  <2>3. CASE pos + 1 \notin RowsAt(lines, sec)
    BY <1>1, <1>2, <1>7, <2>1, <2>3, RowsGrow
  <2> QED BY <2>2, <2>3
<1>9. section' = IF SectionOf(lines, pos + 2) = sec THEN "vesting" ELSE "none"
  <2>1. SectionOf(lines, pos + 2) =
           CASE line.kind = "begin" -> line.section
             [] line.kind = "end" -> "none"
             [] OTHER -> SectionOf(lines, pos + 1)
    BY <1>1, <1>2, SectionNext
  <2>2. line.kind \in {"begin", "end"} /\ SectionOf(lines, pos + 1) # "none" =>
          line.kind = "end" /\ line.section = SectionOf(lines, pos + 1)
    BY <1>2, <1>b DEF Paired, Marks
  <2> QED BY <1>1, <1>6, <2>1, <2>2
<1>10. VestingRead'
  <2>1. pos' + 1 = pos + 2 /\ pos' <= Len(lines)
    BY <1>b
  <2>2. txn = [db EXCEPT !.locked = txn.locked] /\ ~db.offering
    BY <1>2 DEF VestingRead
  <2> QED BY <1>1, <1>8, <1>9, <2>1, <2>2 DEF VestingRead
<1> QED BY <1>1, <1>4, <1>10, SameTables DEF ImportIInv

(* updateBatchTokenOfferingLocked: a batch goes into the transaction.       *)
LEMMA InsertVestingStep == ASSUME ImportIInv, InsertVesting PROVE ImportIInv'
<1> DEFINE a == txn.locked
           b == batch
<1>1. /\ importPc = "vesting" /\ batch' = <<>> /\ txn' = [txn EXCEPT !.locked = a \o b]
      /\ UNCHANGED <<export, db, config, importPc, pos, section, namespaces, faults>>
  BY DEF InsertVesting, Flush
<1>2. IsList(a) /\ IsList(b) /\ IsDb(txn) /\ IsDb(db) /\ VestingRead /\ IsList(txn.subdomains)
  BY <1>1 DEF ImportIInv, Phase
<1>3. IsList(a \o b) /\ (a \o b) \o <<>> = a \o b /\ IsList(<<>>) /\ Len(<<>>) = 0
  <2> HIDE DEF a, b
  <2> QED BY <1>2, ConcatList, EmptySeq
<1>4. IsDb(txn') /\ txn'.locked = a \o b /\ txn'.subdomains = txn.subdomains
      /\ txn' = [db EXCEPT !.locked = txn'.locked]
  BY <1>1, <1>2 DEF IsDb, VestingRead
<1>5. Phase'
  <2>1. IsDb(db)' /\ IsDb(txn)'
    BY <1>1, <1>2, <1>4
  <2>2. IsList(txn.locked)' /\ IsList(txn.subdomains)' /\ IsList(batch)'
    BY <1>1, <1>2, <1>3, <1>4
  <2>3. BatchSize \in Nat /\ Len(batch') = 0
    BY <1>1, <1>3, ImportV1Assumption
  <2>4. Len(batch') <= BatchSize
    BY <2>3
  <2>5. pos' \in Nat /\ faults' \in Nat /\ export' \in Exports /\ importPc' = "vesting" /\ importPc' \in Phases
    BY <1>1 DEF ImportIInv, Phase
  <2>6. (config = Flags)'
    BY <1>1 DEF Flags, ImportIInv, Phase
  <2> QED BY <2>1, <2>2, <2>4, <2>5, <2>6 DEF Phase
<1>6. VestingRead'
  <2>1. (txn.locked \o batch)' = a \o b
    BY <1>1, <1>3, <1>4
  <2> QED BY <1>1, <1>2, <1>4, <2>1 DEF VestingRead
<1> QED BY <1>1, <1>5, <1>6, SameTables DEF ImportIInv

(* COMMIT, whether or not its answer arrives.                               *)
LEMMA OfferingCommittedStep ==
  ASSUME ImportIInv, OfferingCommitted, export' = export, faults' \in Nat, pos' = 0, batch' = <<>>, section' = "none",
         importPc' \in Phases \ {"vesting", "chain", "subdomains"}
  PROVE  ImportIInv'
<1>1. /\ importPc = "vesting" /\ pos = Len(export.genesis) /\ batch = <<>> /\ export.genesisIntact
      /\ db' = [txn EXCEPT !.offering = TRUE, !.bns = config.bns] /\ txn' = db'
  <2>1. config = Flags
    BY DEF OfferingCommitted, ImportIInv, Phase
  <2> QED BY <2>1 DEF OfferingCommitted, updateConfigState, Flags
<1>2. IsDb(txn) /\ IsDb(db) /\ VestingRead /\ config.bns = db.bns /\ IsList(txn.locked) /\ export \in Exports
  BY <1>1 DEF ImportIInv, Phase, Flags
<1>3. txn = [db EXCEPT !.locked = txn.locked]
      /\ txn.locked \o batch = VestingOf(RowsOf(export.genesis, "stx_vesting"))
  BY <1>1, <1>2 DEF VestingRead, RowsOf
<1>4. txn.locked \o <<>> = txn.locked
  BY <1>2, ConcatEmptySeq DEF IsList
<1>5. /\ IsDb(db') /\ db'.offering = TRUE /\ db'.bns = db.bns /\ db'.names = db.names
      /\ db'.spaces = db.spaces /\ db'.subdomains = db.subdomains /\ db'.locked = txn.locked
  BY <1>1, <1>2, <1>3 DEF IsDb
<1>6. IsList(db.subdomains) /\ IsList(<<>>) /\ Len(<<>>) = 0
  BY TablesAreLists, EmptySeq
<1>7. Phase'
  <2>1. IsDb(db)' /\ IsDb(txn)'
    BY <1>1, <1>5
  <2>2. IsList(txn.locked)' /\ IsList(txn.subdomains)' /\ IsList(batch)'
    BY <1>1, <1>2, <1>5, <1>6
  <2>3. BatchSize \in Nat /\ Len(batch') = 0
    BY <1>6, ImportV1Assumption
  <2>4. Len(batch') <= BatchSize
    BY <2>3
  <2> QED BY <1>1, <1>2, <2>1, <2>2, <2>4 DEF Phase
<1>8. OfferingAllOrNothing'
  BY <1>1, <1>3, <1>4, <1>5 DEF OfferingAllOrNothing
<1>9. BnsAllOrNothing'
  BY <1>5 DEF ImportIInv, BnsAllOrNothing, BnsImported
<1> QED BY <1>7, <1>8, <1>9 DEF ImportIInv

-----------------------------------------------------------------------------
(* importV1BnsData.                                                         *)
LEMMA ImportBnsStep == ASSUME ImportIInv, ImportBns PROVE ImportIInv'
<1>1. CASE db.bns \/ ~valid
  BY <1>1, Idle DEF ImportBns, Goto, Phases, ImportIInv, Phase
<1>2. CASE ~db.bns /\ valid
  <2>1. IsList(db.locked) /\ IsList(db.subdomains) /\ IsList(<<>>) /\ Len(<<>>) = 0
    BY TablesAreLists, EmptySeq
  <2>2. importPc' = "chain" /\ batch' = <<>> /\ pos' = 0 /\ section' = "none" /\ namespaces' = {} /\ txn' = db
        /\ UNCHANGED <<db, export, faults>> /\ config' = Flags
    BY <1>2 DEF ImportBns, Goto
  <2>3. Phase'
    <3>1. IsDb(db)' /\ IsDb(txn)'
      BY <2>2 DEF ImportIInv, Phase, IsDb
    <3>2. IsList(txn.locked)' /\ IsList(txn.subdomains)' /\ IsList(batch)'
      BY <2>1, <2>2
    <3>3. Len(batch') <= BatchSize /\ pos' \in Nat /\ faults' \in Nat /\ export' \in Exports
          /\ importPc' \in Phases
      <4>1. faults \in Nat /\ export \in Exports /\ BatchSize \in Nat
        BY ImportV1Assumption DEF ImportIInv, Phase
      <4>2. Len(batch') = 0
        BY <2>1, <2>2
      <4>3. pos' = 0 /\ faults' = faults /\ export' = export /\ importPc' = "chain"
        BY <2>2
      <4> QED BY <4>1, <4>2, <4>3 DEF Phases
    <3>4. (config = Flags)'
      BY <2>2 DEF Flags
    <3> QED BY <2>2, <3>1, <3>2, <3>3, <3>4 DEF Phase
  <2> DEFINE lines == export.chainstate
  <2>4. IsList(lines) /\ Len(lines) \in Nat /\ RowsAt(lines, "names") \subseteq 1..Len(lines)
        /\ RowsAt(lines, "namespaces") \subseteq 1..Len(lines)
    BY ImportV1Assumption, ListProperties DEF ImportIInv, Phase, RowsAt
  <2>5. SectionOf(lines, 1) = "none"
    BY <2>4, SectionAtTop
  <2>6. NamesOf(RowsAbove(lines, "names", 0), export.zones) = <<>>
        /\ SpacesOf(RowsAbove(lines, "namespaces", 0)) = <<>>
    BY <2>4, NoRows, EmptyTables
  <2>7. db.names = <<>> /\ db.spaces = <<>>
    BY <1>2 DEF ImportIInv, BnsAllOrNothing
  <2>8. db = [db EXCEPT !.names = <<>>, !.spaces = <<>>]
    BY <2>7 DEF ImportIInv, Phase, IsDb
  <2>9. ChainstateSoFar'
    <3>1. pos' + 1 = 1 /\ pos' <= Len(lines)
      <4>1. pos' = 0 /\ Len(lines) \in Nat
        BY <2>2, <2>4
      <4> QED BY <4>1
    <3>2. \A i \in RowsAt(lines, "names") \cup RowsAt(lines, "namespaces") : ~(i <= 0)
      BY <2>4
    <3>3. SpacesAbove(lines, 0) /\ {lines[j].name : j \in {i \in RowsAt(lines, "namespaces") : i <= 0}} = {}
      BY <3>2 DEF SpacesAbove
    <3>4. (txn = ChainTables(pos))'
      BY <2>2, <2>6, <2>8 DEF ChainTables
    <3>5. (~db.bns /\ valid /\ SpacesAbove(export.chainstate, pos))'
      BY <1>2, <2>2, <3>3 DEF valid
    <3> QED BY <2>2, <2>5, <3>1, <3>3, <3>4, <3>5 DEF ChainstateSoFar
  <2> QED BY <2>2, <2>3, <2>9, SameTables DEF ImportIInv
<1> QED BY <1>1, <1>2

(* ChainProcessor._write: one line of chainstate.txt.                       *)
LEMMA ReadChainstateStep == ASSUME ImportIInv, ReadChainstate PROVE ImportIInv'
<1> DEFINE lines == export.chainstate
           line == lines[pos + 1]
           Spaces(n) == {i \in RowsAt(lines, "namespaces") : i <= n}
           isSpace == line.kind = "row" /\ section = "namespaces"
           isName == line.kind = "row" /\ section = "names"
<1>1. /\ importPc = "chain" /\ pos < Len(lines) /\ pos' = pos + 1
      /\ UNCHANGED <<export, db, config, importPc, batch, faults>>
      /\ \/ /\ isSpace /\ namespaces' = namespaces \cup {line.name}
            /\ txn' = [txn EXCEPT !.spaces = Append(@, line.name)] /\ section' = section
         \/ /\ isName /\ line.ns \in namespaces
            /\ txn' = [txn EXCEPT !.names = Append(@, Name(line, export.zones))]
            /\ section' = section /\ namespaces' = namespaces
         \/ /\ ~isSpace /\ ~isName /\ (line.kind # "row" \/ section = "none")
            /\ section' = SectionAfter(line) /\ txn' = txn /\ namespaces' = namespaces
  BY DEF ReadChainstate
<1>2. IsList(lines) /\ ChainstateSoFar /\ export \in Exports /\ IsDb(db) /\ IsDb(txn)
  BY <1>1, ImportV1Assumption DEF ImportIInv, Phase
<1>a. pos \in Nat /\ Len(lines) \in Nat /\ pos < Len(lines) /\ pos' = pos + 1 /\ DOMAIN lines = 1..Len(lines)
  BY <1>1, <1>2, ListProperties DEF ImportIInv, Phase
<1>b. pos + 1 \in 1..Len(lines) /\ pos' \in Nat /\ pos' + 1 = pos + 2 /\ pos' <= Len(lines)
  BY <1>a
<1>3. section = IF SectionOf(lines, pos + 1) \in {"names", "namespaces"} THEN SectionOf(lines, pos + 1) ELSE "none"
  BY <1>2 DEF ChainstateSoFar
<1>4. /\ isSpace <=> pos + 1 \in RowsAt(lines, "namespaces")
      /\ isName <=> pos + 1 \in RowsAt(lines, "names")
  BY <1>a, <1>b, <1>3 DEF RowsAt
<1>5. section' = IF SectionOf(lines, pos + 2) \in {"names", "namespaces"} THEN SectionOf(lines, pos + 2) ELSE "none"
  <2>1. SectionOf(lines, pos + 2) =
           CASE line.kind = "begin" -> line.section
             [] line.kind = "end" -> "none"
             [] OTHER -> SectionOf(lines, pos + 1)
    BY <1>a, <1>2, SectionNext
  <2>2. section' = SectionAfter(line)
    BY <1>1 DEF SectionAfter
  <2> QED BY <1>3, <2>1, <2>2 DEF SectionAfter
<1>6. namespaces' = {lines[j].name : j \in Spaces(pos + 1)}
  <2>1. namespaces = {lines[j].name : j \in Spaces(pos)}
    BY <1>2 DEF ChainstateSoFar
  <2>2. \A i \in RowsAt(lines, "namespaces") : i \in Nat
    BY <1>a DEF RowsAt
  <2>3. isSpace => Spaces(pos + 1) = Spaces(pos) \cup {pos + 1}
    BY <1>a, <1>4, <2>2
  <2>4. ~isSpace => Spaces(pos + 1) = Spaces(pos)
    BY <1>a, <1>4, <2>2
  <2>5. CASE isSpace
    <3>1. namespaces' = namespaces \cup {line.name}
      BY <1>1, <2>5
    <3> HIDE DEF Spaces
    <3> QED BY <2>1, <2>3, <2>5, <3>1
  <2>6. CASE ~isSpace
    BY <1>1, <2>1, <2>4, <2>6
  <2> QED BY <2>5, <2>6
<1>7. SpacesAbove(lines, pos + 1)
  <2> SUFFICES ASSUME NEW i \in RowsAt(lines, "names"), i <= pos + 1
               PROVE  \E j \in RowsAt(lines, "namespaces") : j < i /\ lines[j].name = lines[i].ns
    BY DEF SpacesAbove
  <2>0. i \in Nat /\ \A j \in RowsAt(lines, "namespaces") : j \in Nat
    BY <1>a DEF RowsAt
  <2>1. CASE i <= pos
    BY <1>2, <2>1 DEF ChainstateSoFar, SpacesAbove
  <2>2. CASE i = pos + 1
    <3>1. line.ns \in namespaces
      BY <1>1, <1>4, <2>2
    <3>2. PICK j \in Spaces(pos) : lines[j].name = line.ns
      BY <1>2, <3>1 DEF ChainstateSoFar
    <3>3. j < pos + 1
      BY <1>a, <2>0, <3>2
    <3> QED BY <2>2, <3>2, <3>3
  <2> QED BY <1>a, <2>0, <2>1, <2>2
<1>8. txn' = [db EXCEPT !.names = NamesOf(RowsAbove(lines, "names", pos + 1), export.zones),
                       !.spaces = SpacesOf(RowsAbove(lines, "namespaces", pos + 1))]
  <2> DEFINE names(n) == NamesOf(RowsAbove(lines, "names", n), export.zones)
             spaces(n) == SpacesOf(RowsAbove(lines, "namespaces", n))
  <2>1. txn = [db EXCEPT !.names = names(pos), !.spaces = spaces(pos)]
    BY <1>2 DEF ChainstateSoFar, ChainTables
  <2>2. names(pos + 1) = IF isName THEN Append(names(pos), Name(line, export.zones)) ELSE names(pos)
    <3> DEFINE rows == RowsAbove(lines, "names", pos)
    <3>1. IsList(rows) /\ RowsAbove(lines, "names", pos + 1) = IF isName THEN Append(rows, line) ELSE rows
      BY <1>2, <1>a, <1>4, RowsGrow
    <3> HIDE DEF rows, isName
    <3>2. NamesOf(Append(rows, line), export.zones) = Append(NamesOf(rows, export.zones), Name(line, export.zones))
      BY <3>1, AppendedRow
    <3> QED BY <3>1, <3>2 DEF rows
  <2>3. spaces(pos + 1) = IF isSpace THEN Append(spaces(pos), line.name) ELSE spaces(pos)
    <3> DEFINE rows == RowsAbove(lines, "namespaces", pos)
    <3>1. IsList(rows) /\ RowsAbove(lines, "namespaces", pos + 1) = IF isSpace THEN Append(rows, line) ELSE rows
      BY <1>2, <1>a, <1>4, RowsGrow
    <3> HIDE DEF rows, isSpace
    <3>2. SpacesOf(Append(rows, line)) = Append(SpacesOf(rows), line.name)
      BY <3>1, AppendedRow
    <3> QED BY <3>1, <3>2 DEF rows
  <2> HIDE DEF names, spaces, line
  <2>4. isName /\ ~isSpace => txn' = [txn EXCEPT !.names = Append(@, Name(line, export.zones))]
    BY <1>1
  <2>5. isSpace /\ ~isName => txn' = [txn EXCEPT !.spaces = Append(@, line.name)]
    BY <1>1
  <2>6. ~isSpace /\ ~isName => txn' = txn
    BY <1>1
  <2>7. ~(isSpace /\ isName)
    OBVIOUS
  <2> HIDE DEF isSpace, isName
  <2>8. txn' = [db EXCEPT !.names = names(pos + 1), !.spaces = spaces(pos + 1)]
    BY <1>2, <2>1, <2>2, <2>3, <2>4, <2>5, <2>6, <2>7 DEF IsDb
  <2> QED BY <2>8 DEF names, spaces
<1>9. Phase'
  <2>1. /\ IsDb(txn') /\ txn'.locked = txn.locked /\ txn'.subdomains = txn.subdomains
    <3>1. txn = [db EXCEPT !.names = txn.names, !.spaces = txn.spaces]
      BY <1>2 DEF ChainstateSoFar, ChainTables, IsDb
    <3> QED BY <1>2, <1>8, <3>1 DEF IsDb
  <2>2. /\ importPc' = "chain" /\ pos' \in Nat
        /\ UNCHANGED <<export, db, config, importPc, batch, faults>>
    BY <1>1, <1>b
  <2>3. (config = Flags)'
    BY <2>2 DEF Flags, ImportIInv, Phase
  <2> QED BY <2>1, <2>2, <2>3 DEF ImportIInv, Phase, IsDb
<1>10. ChainstateSoFar'
  <2>1. (txn = ChainTables(pos))'
    BY <1>1, <1>8 DEF ChainTables
  <2>2. (~db.bns /\ valid)'
    BY <1>1, <1>2 DEF ChainstateSoFar, valid
  <2> QED BY <1>1, <1>b, <1>5, <1>6, <1>7, <2>1, <2>2 DEF ChainstateSoFar
<1> QED BY <1>1, <1>9, <1>10, SameTables DEF ImportIInv

(* The end of chainstate.txt.                                               *)
LEMMA ChainstateReadStep == ASSUME ImportIInv, ChainstateRead PROVE ImportIInv'
<1>1. /\ importPc = "chain" /\ pos = Len(export.chainstate) /\ importPc' = "subdomains" /\ pos' = 0 /\ section' = "none"
      /\ batch' = <<>> /\ UNCHANGED <<db, txn, config, export, faults>>
  BY DEF ChainstateRead, Goto
<1>2. ChainstateSoFar /\ export \in Exports /\ IsDb(db) /\ IsDb(txn) /\ batch = <<>> /\ ~db.bns
  BY <1>1 DEF ImportIInv, Phase, ChainstateSoFar
<1>3. Phase'
  <2>1. (config = Flags)'
    BY <1>1 DEF Flags, ImportIInv, Phase
  <2> QED BY <1>1, <1>2, <2>1 DEF ImportIInv, Phase, Phases, IsDb
<1>4. SubdomainsSoFar'
  <2>1. Len(Subdomains(export.subdomains)) \in Nat /\ Len(Pairs(export.subdomainZones)) \in Nat
    BY <1>2, SubdomainLengths
  <2>2. (pos <= Len(Subdomains(export.subdomains)) /\ pos <= Len(Pairs(export.subdomainZones)))'
    BY <1>1, <2>1
  <2>3. 1..pos' = {}
    <3>1. pos' = 0
      BY <1>1
    <3> QED BY <3>1
  <2>4. txn.subdomains = <<>> /\ <<>> \o <<>> = <<>> /\ SubdomainRows(export, 0) = <<>>
    <3>1. txn.subdomains = db.subdomains
      BY <1>2 DEF ChainstateSoFar, ChainTables, IsDb
    <3>2. db.subdomains = <<>>
      BY <1>2 DEF ImportIInv, BnsAllOrNothing
    <3> QED BY <3>1, <3>2, ConcatEmptySeq, EmptySeq, SubdomainRowsGrow
  <2>5. (txn.subdomains \o batch = SubdomainRows(export, pos))'
    BY <1>1, <2>4
  <2>6. (txn = [ChainTables(Len(export.chainstate)) EXCEPT !.subdomains = txn.subdomains])'
    <3>1. txn = ChainTables(Len(export.chainstate))
      BY <1>1, <1>2 DEF ChainstateSoFar
    <3>2. txn = [txn EXCEPT !.subdomains = txn.subdomains]
      BY <1>2 DEF IsDb
    <3> QED BY <1>1, <3>1, <3>2 DEF ChainTables
  <2>7. (~db.bns /\ valid /\ SpacesAbove(export.chainstate, Len(export.chainstate)))'
    BY <1>1, <1>2 DEF ChainstateSoFar, valid
  <2> QED BY <2>2, <2>3, <2>5, <2>6, <2>7 DEF SubdomainsSoFar
<1> QED BY <1>1, <1>3, <1>4, SameTables DEF ImportIInv

-----------------------------------------------------------------------------
(* readSubdomains: a pair of lines whose hashes agree.                      *)
LEMMA ReadSubdomainStep == ASSUME ImportIInv, ReadSubdomain PROVE ImportIInv'
<1> DEFINE subs == Subdomains(export.subdomains)
           zones == Pairs(export.subdomainZones)
           row == SubdomainRow(export, pos + 1)
           a == txn.subdomains
           b == batch
<1>1. /\ importPc = "subdomains" /\ Len(batch) < BatchSize /\ Aligned(pos + 1) /\ pos' = pos + 1
      /\ batch' = Append(batch, row)
      /\ UNCHANGED <<export, db, txn, config, importPc, section, namespaces, faults>>
  BY DEF ReadSubdomain, SubdomainRow
<1>2. /\ SubdomainsSoFar /\ export \in Exports /\ pos \in Nat /\ IsDb(db) /\ IsDb(txn)
      /\ IsList(a) /\ IsList(b) /\ IsList(txn.locked)
  BY <1>1 DEF ImportIInv, Phase
<1>3. pos + 1 <= Len(subs) /\ pos + 1 <= Len(zones) /\ subs[pos + 1].hash = zones[pos + 1].hash
  BY <1>1 DEF Aligned
<1>4. IsList(Append(b, row)) /\ Len(Append(b, row)) = Len(b) + 1
      /\ a \o Append(b, row) = Append(a \o b, row)
  <2> HIDE DEF a, b, row
  <2> QED BY <1>2, AppendList
<1>5. Phase'
  <2>1. IsDb(db)' /\ IsDb(txn)' /\ IsList(txn.locked)' /\ IsList(txn.subdomains)' /\ IsList(batch)'
    BY <1>1, <1>2, <1>4
  <2>2. Len(batch) \in Nat /\ BatchSize \in Nat /\ Len(batch) < BatchSize /\ Len(batch') = Len(batch) + 1
    BY <1>1, <1>2, <1>4, ImportV1Assumption, ListProperties
  <2>3. Len(batch') <= BatchSize
    BY <2>2
  <2>4. pos' \in Nat
    BY <1>1, <1>2
  <2>5. (config = Flags)'
    BY <1>1 DEF Flags, ImportIInv, Phase
  <2>6. faults' \in Nat /\ export' \in Exports /\ importPc' = "subdomains" /\ importPc' \in Phases
        /\ section' = "none"
    BY <1>1 DEF ImportIInv, Phase
  <2> QED BY <2>1, <2>3, <2>4, <2>5, <2>6 DEF Phase
<1>6. SubdomainsSoFar'
  <2>1. \A i \in 1..(pos + 1) : subs[i].hash = zones[i].hash
    <3>1. \A i \in 1..pos : subs[i].hash = zones[i].hash
      BY <1>2 DEF SubdomainsSoFar
    <3>2. \A i \in 1..(pos + 1) : i \in 1..pos \/ i = pos + 1
      BY <1>2
    <3> QED BY <1>3, <3>1, <3>2
  <2>2. a \o batch' = SubdomainRows(export, pos + 1)
    <3>1. a \o b = SubdomainRows(export, pos)
      BY <1>2 DEF SubdomainsSoFar
    <3>2. SubdomainRows(export, pos + 1) = Append(SubdomainRows(export, pos), row)
      BY <1>2, SubdomainRowsGrow
    <3> QED BY <1>1, <1>4, <3>1, <3>2
  <2>3. (txn = [ChainTables(Len(export.chainstate)) EXCEPT !.subdomains = txn.subdomains])'
    BY <1>1, <1>2 DEF SubdomainsSoFar, ChainTables
  <2>4. (~db.bns /\ valid /\ SpacesAbove(export.chainstate, Len(export.chainstate)))'
    BY <1>1, <1>2 DEF SubdomainsSoFar, valid
  <2> QED BY <1>1, <1>3, <2>1, <2>2, <2>3, <2>4 DEF SubdomainsSoFar
<1> QED BY <1>1, <1>5, <1>6, SameTables DEF ImportIInv

(* updateBatchSubdomains.                                                   *)
LEMMA InsertSubdomainsStep == ASSUME ImportIInv, InsertSubdomains PROVE ImportIInv'
<1> DEFINE a == txn.subdomains
           b == batch
           tables == ChainTables(Len(export.chainstate))
<1>1. /\ importPc = "subdomains" /\ batch' = <<>> /\ txn' = [txn EXCEPT !.subdomains = a \o b]
      /\ UNCHANGED <<export, db, config, importPc, pos, section, namespaces, faults>>
  BY DEF InsertSubdomains, Flush
<1>2. IsList(a) /\ IsList(b) /\ IsDb(txn) /\ IsDb(db) /\ SubdomainsSoFar /\ IsList(txn.locked)
  BY <1>1 DEF ImportIInv, Phase
<1>3. IsList(a \o b) /\ (a \o b) \o <<>> = a \o b /\ IsList(<<>>) /\ Len(<<>>) = 0
  <2> HIDE DEF a, b
  <2> QED BY <1>2, ConcatList, EmptySeq
<1>4. IsDb(txn') /\ txn'.subdomains = a \o b /\ txn'.locked = txn.locked
      /\ txn' = [tables EXCEPT !.subdomains = txn'.subdomains]
  <2>1. txn = [tables EXCEPT !.subdomains = txn.subdomains]
    BY <1>2 DEF SubdomainsSoFar
  <2>2. IsDb(tables)
    <3> DEFINE names == NamesOf(RowsAbove(export.chainstate, "names", Len(export.chainstate)), export.zones)
               spaces == SpacesOf(RowsAbove(export.chainstate, "namespaces", Len(export.chainstate)))
    <3>1. tables = [db EXCEPT !.names = names, !.spaces = spaces]
      BY DEF ChainTables
    <3> HIDE DEF names, spaces, tables
    <3> QED BY <1>2, <3>1 DEF IsDb
  <2> HIDE DEF tables
  <2> QED BY <1>1, <1>2, <2>1, <2>2 DEF IsDb
<1>5. Phase'
  <2>1. IsDb(db)' /\ IsDb(txn)'
    BY <1>1, <1>2, <1>4
  <2>2. IsList(txn.locked)' /\ IsList(txn.subdomains)' /\ IsList(batch)'
    BY <1>1, <1>2, <1>3, <1>4
  <2>3. BatchSize \in Nat /\ Len(batch') = 0
    BY <1>1, <1>3, ImportV1Assumption
  <2>4. Len(batch') <= BatchSize
    BY <2>3
  <2>5. pos' \in Nat /\ faults' \in Nat /\ export' \in Exports /\ importPc' = "subdomains" /\ importPc' \in Phases
        /\ section' = "none"
    BY <1>1 DEF ImportIInv, Phase
  <2>6. (config = Flags)'
    BY <1>1 DEF Flags, ImportIInv, Phase
  <2> QED BY <2>1, <2>2, <2>4, <2>5, <2>6 DEF Phase
<1>6. SubdomainsSoFar'
  <2>1. (txn.subdomains \o batch)' = a \o b
    BY <1>1, <1>3, <1>4
  <2>2. tables' = tables /\ valid' = valid
    BY <1>1 DEF ChainTables, valid
  <2> QED BY <1>1, <1>2, <1>4, <2>1, <2>2 DEF SubdomainsSoFar
<1> QED BY <1>1, <1>5, <1>6, SameTables DEF ImportIInv

(* COMMIT of the BNS import, whether or not its answer arrives.             *)
LEMMA BnsCommittedStep ==
  ASSUME ImportIInv, BnsCommitted, export' = export, faults' \in Nat, pos' = 0, batch' = <<>>, section' = "none",
         importPc' \in Phases \ {"vesting", "chain", "subdomains"}
  PROVE  ImportIInv'
<1> DEFINE subs == Subdomains(export.subdomains)
           zones == Pairs(export.subdomainZones)
           lines == export.chainstate
<1>1. /\ importPc = "subdomains" /\ pos = Len(subs) /\ pos = Len(zones) /\ batch = <<>>
      /\ db' = [txn EXCEPT !.offering = config.offering, !.bns = TRUE] /\ txn' = db'
  <2>1. config = Flags
    BY DEF BnsCommitted, ImportIInv, Phase
  <2> QED BY <2>1 DEF BnsCommitted, AtEnd, updateConfigState, Flags
<1>2. IsDb(txn) /\ IsDb(db) /\ SubdomainsSoFar /\ config.offering = db.offering /\ export \in Exports
      /\ IsList(txn.subdomains)
  BY <1>1 DEF ImportIInv, Phase, Flags
<1>3. txn.subdomains = SubdomainRows(export, Len(subs))
  <2>1. txn.subdomains \o <<>> = txn.subdomains
    BY <1>2, ConcatEmptySeq DEF IsList
  <2> QED BY <1>1, <1>2, <2>1 DEF SubdomainsSoFar
<1>4. /\ IsDb(db') /\ db'.offering = db.offering /\ db'.bns = TRUE /\ db'.locked = db.locked
      /\ db'.names = NamesOf(RowsOf(lines, "names"), export.zones)
      /\ db'.spaces = SpacesOf(RowsOf(lines, "namespaces"))
      /\ db'.subdomains = SubdomainRows(export, Len(subs))
  <2> DEFINE names == NamesOf(RowsOf(lines, "names"), export.zones)
             spaces == SpacesOf(RowsOf(lines, "namespaces"))
             rows == SubdomainRows(export, Len(subs))
  <2>1. txn = [db EXCEPT !.names = names, !.spaces = spaces, !.subdomains = txn.subdomains]
    BY <1>2 DEF SubdomainsSoFar, ChainTables, RowsOf, IsDb
  <2>2. txn.subdomains = rows
    BY <1>3
  <2> HIDE DEF names, spaces, rows
  <2>3. /\ IsDb(db') /\ db'.offering = db.offering /\ db'.bns = TRUE /\ db'.locked = db.locked
        /\ db'.names = names /\ db'.spaces = spaces /\ db'.subdomains = rows
    BY <1>1, <1>2, <2>1, <2>2 DEF IsDb
  <2> QED BY <2>3 DEF names, spaces, rows
<1>5. Importable(export)
  <2>1. export.intact /\ SpacesAbove(lines, Len(lines)) /\ \A i \in 1..pos : subs[i].hash = zones[i].hash
    BY <1>2 DEF SubdomainsSoFar, valid
  <2>2. \A i \in RowsAt(lines, "names") : i <= Len(lines)
    <3>1. IsList(lines)
      BY <1>2, ImportV1Assumption
    <3>2. Len(lines) \in Nat /\ DOMAIN lines = 1..Len(lines)
      BY <3>1, ListProperties
    <3> QED BY <3>2 DEF RowsAt
  <2>3. DOMAIN subs = 1..pos
    BY <1>1, <1>2, SubdomainLengths
  <2> QED BY <1>1, <2>1, <2>2, <2>3 DEF Importable, SpacesAbove
<1>6. IsList(db.locked) /\ IsList(<<>>) /\ Len(<<>>) = 0
  BY TablesAreLists, EmptySeq
<1>7. Phase'
  <2>1. IsDb(db)' /\ IsDb(txn)'
    BY <1>1, <1>4
  <2>2. IsList(txn.locked)' /\ IsList(txn.subdomains)' /\ IsList(batch)'
    BY <1>1, <1>2, <1>3, <1>4, <1>6
  <2>3. BatchSize \in Nat /\ Len(batch') = 0
    BY <1>6, ImportV1Assumption
  <2>4. Len(batch') <= BatchSize
    BY <2>3
  <2> QED BY <1>1, <1>2, <2>1, <2>2, <2>4 DEF Phase
<1>8. OfferingAllOrNothing'
  BY <1>4 DEF ImportIInv, OfferingAllOrNothing
<1>9. BnsAllOrNothing'
  BY <1>4, <1>5 DEF BnsAllOrNothing, BnsImported
<1> QED BY <1>7, <1>8, <1>9 DEF ImportIInv

-----------------------------------------------------------------------------
LEMMA ImportNextIInv == ImportIInv /\ [ImportNext]_importVars => ImportIInv'
<1> SUFFICES ASSUME ImportIInv, [ImportNext]_importVars PROVE ImportIInv'
  OBVIOUS
<1>0. faults \in Nat
  BY DEF ImportIInv, Phase
<1>1. CASE Step
  <2>1. CASE CommitOffering
    BY <1>0, <2>1, OfferingCommittedStep DEF CommitOffering, Goto, Phases
  <2>2. CASE CommitBns
    BY <1>0, <2>2, BnsCommittedStep DEF CommitBns, Goto, Phases
  <2>3. CASE OfferingHashMismatch \/ MissingNamespace \/ MismatchedSubdomain
    BY <2>3, AbortStep DEF OfferingHashMismatch, MissingNamespace, MismatchedSubdomain
  <2> QED BY <1>1, <2>1, <2>2, <2>3, ImportTokenOfferingStep, ReadVestingStep, InsertVestingStep,
             ImportBnsStep, ReadChainstateStep, ChainstateReadStep, ReadSubdomainStep,
             InsertSubdomainsStep DEF Step
<1>2. CASE CommitUnanswered
  <2>1. faults' = faults + 1 /\ export' = export /\ pos' = 0 /\ batch' = <<>> /\ importPc' = "down"
        /\ section' = "none"
    BY <1>2 DEF CommitUnanswered, Stop
  <2>2. faults' \in Nat
    BY <1>0, <2>1
  <2> QED BY <1>2, <2>1, <2>2, OfferingCommittedStep, BnsCommittedStep DEF CommitUnanswered, Phases
<1>3. CASE UNCHANGED importVars
  <2>1. UNCHANGED <<export, db, txn, config, importPc, pos, section, namespaces, batch, faults>>
    BY <1>3 DEF importVars
  <2>2. Phase'
    BY <2>1 DEF ImportIInv, Phase, IsDb, Flags
  <2>3. importPc' = "vesting" => VestingRead'
    BY <2>1 DEF ImportIInv, VestingRead
  <2>4. importPc' = "chain" => ChainstateSoFar'
    BY <2>1 DEF ImportIInv, ChainstateSoFar, ChainTables, valid
  <2>5. importPc' = "subdomains" => SubdomainsSoFar'
    BY <2>1 DEF ImportIInv, SubdomainsSoFar, ChainTables, valid
  <2> QED BY <2>1, <2>2, <2>3, <2>4, <2>5, SameTables DEF ImportIInv
<1> QED BY <1>1, <1>2, <1>3, BootStep, FailStep DEF ImportNext

(* The transaction differs from the tables only while an import runs, and   *)
(* holds the rows of the lines read so far.                                 *)
THEOREM ImportInvariant == ImportSpec => []ImportIInv
<1> QED BY ImportInitIInv, ImportNextIInv, PTL DEF ImportSpec

(* Type correctness: at most a batch of rows is held back.                  *)
THEOREM ImportTypeCorrect == ImportSpec => []ImportTypeOK
<1>1. ImportIInv => ImportTypeOK
  <2> SUFFICES ASSUME ImportIInv PROVE ImportTypeOK
    OBVIOUS
  <2>1. section \in {"none", "names", "namespaces", "vesting"}
    <3>1. CASE importPc = "vesting"
      BY <3>1 DEF ImportIInv, VestingRead
    <3>2. CASE importPc = "chain"
      BY <3>2 DEF ImportIInv, ChainstateSoFar
    <3> QED BY <3>1, <3>2 DEF ImportIInv, Phase
  <2> QED BY <2>1 DEF ImportIInv, Phase, ImportTypeOK
<1> QED BY <1>1, ImportInvariant, PTL

(* importV1BnsData: the tables hold nothing, or everything of a good export.*)
THEOREM BnsImport == ImportSpec => []BnsAllOrNothing
<1>1. ImportIInv => BnsAllOrNothing
  BY DEF ImportIInv
<1> QED BY <1>1, ImportInvariant, PTL

(* importV1TokenOfferingData: the same for the vesting schedule.            *)
THEOREM OfferingImport == ImportSpec => []OfferingAllOrNothing
<1>1. ImportIInv => OfferingAllOrNothing
  BY DEF ImportIInv
<1> QED BY <1>1, ImportInvariant, PTL

(* updateConfigState: no import takes back the flag of the other.           *)
THEOREM FlagsNeverTakenBack == ImportSpec => FlagsKept
<1>1. ImportIInv /\ [ImportNext]_importVars
        => [(db.offering => db'.offering) /\ (db.bns => db'.bns)]_importVars
  <2> SUFFICES ASSUME ImportIInv, ImportNext PROVE (db.offering => db'.offering) /\ (db.bns => db'.bns)
    OBVIOUS
  <2>1. CASE OfferingCommitted
    <3>1. importPc = "vesting" /\ config = Flags /\ IsDb(txn)
      BY <2>1 DEF OfferingCommitted, ImportIInv, Phase
    <3>2. db' = [txn EXCEPT !.offering = TRUE, !.bns = db.bns]
      BY <2>1, <3>1 DEF OfferingCommitted, updateConfigState, Flags
    <3> QED BY <3>1, <3>2 DEF IsDb
  <2>2. CASE BnsCommitted
    <3>1. importPc = "subdomains" /\ config = Flags /\ IsDb(txn)
      BY <2>2 DEF BnsCommitted, ImportIInv, Phase
    <3>2. db' = [txn EXCEPT !.offering = db.offering, !.bns = TRUE]
      BY <2>2, <3>1 DEF BnsCommitted, updateConfigState, Flags
    <3> QED BY <3>1, <3>2 DEF IsDb
  <2>3. CASE db' = db
    BY <2>3
  <2>4. Step => db' = db \/ OfferingCommitted \/ BnsCommitted
    BY DEF Step, ImportTokenOffering, ReadVesting, InsertVesting, CommitOffering, OfferingHashMismatch,
           ImportBns, ReadChainstate, MissingNamespace, ChainstateRead, ReadSubdomain,
           MismatchedSubdomain, InsertSubdomains, CommitBns, Abort
  <2> QED BY <2>1, <2>2, <2>3, <2>4 DEF ImportNext, Boot, Fail, CommitUnanswered
<1> QED BY <1>1, ImportInvariant, PTL DEF ImportSpec, FlagsKept
=============================================================================
