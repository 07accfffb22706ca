-------------------------- MODULE MCNotifications --------------------------
(***************************************************************************)
(* What tells clients of changes: the WebSocket RPC server, the socket.io   *)
(* server with its client, and the WebSocket client.  No two of them talk   *)
(* to each other in one process, so each behaviour (part) exercises one     *)
(* while the others are idle.                                               *)
(*                                                                         *)
(* WsRpc: two clients, an address.  SocketIo: two topics, one of them a     *)
(* balance.  WsClient: three handles, two of them on one topic.             *)
(***************************************************************************)
EXTENDS WsRpc, WsClient, TLC

CONSTANTS s1, s2, s3, t1, t2

VARIABLES part,
  link, query, handshake, buffer, wire, rooms, topics, calls, drops, tip, queries, events, balances

ioVars ==
  <<link, query, handshake, buffer, wire, rooms, topics, calls, drops, tip, queries, events, balances>>

Io ==
  INSTANCE SocketIo WITH wanted <- topics, Topic <- {t1, t2}, BalanceTopic <- t1,
    MaxCalls <- 3, MaxDrops <- 2, MaxHeight <- 2, MaxEvents <- 1

MCTopicOf == s1 :> t1 @@ s2 :> t1 @@ s3 :> t2

ASSUME Io!SocketIoAssumption

-----------------------------------------------------------------------------
(* An open connection without topics.                                       *)
IoIdle ==
  /\ link = "up" /\ query = {} /\ topics = {} /\ handshake = {} /\ buffer = <<>> /\ wire = <<>>
  /\ rooms = {} /\ calls = 0 /\ drops = 0 /\ tip = 1 /\ queries = {} /\ events = 0 /\ balances = <<>>

NotificationsInit ==
  /\ part \in {"wsRpc", "socketIo", "wsClient"}
  /\ IF part = "socketIo" THEN Io!Init ELSE IoIdle
  /\ Init /\ HandleInit

NotificationsNext ==
  \/ part = "wsRpc" /\ Next /\ UNCHANGED <<part, ioVars, handleVars>>
  \/ part = "socketIo" /\ Io!Next /\ UNCHANGED <<part, vars, handleVars>>
  \/ part = "wsClient" /\ HandleNext /\ UNCHANGED <<part, vars, ioVars>>

NotificationsSpec ==
  /\ NotificationsInit /\ [][NotificationsNext]_<<part, vars, ioVars, handleVars>>
  /\ WF_vars(\E t \in Topic : AddressUpdate(t)) /\ WF_vars(Notify)
  /\ WF_ioVars(Io!Open) /\ WF_ioVars(Io!Connection) /\ WF_ioVars(Io!OnPacket)
  /\ WF_handleVars(LibraryStep)
  /\ WF_handleVars(HandleRequest(TRUE) \/ HandleRequest(FALSE))

-----------------------------------------------------------------------------
(* What else holds of subscriptions: the inductive invariant of the RPC     *)
(* server, whose manager has exactly the open sockets that asked; "topics   *)
(* are persisted on re-connect", so packets,                                *)
(* handshake and buffer lead the socket.io rooms to the topics wanted; and  *)
(* once all calls are answered the server serves the handles still held.    *)
NotificationsInv ==
  /\ IInv
  /\ Io!TypeOK /\ Io!LeadsToWanted
  /\ HandleIInv /\ HandleTypeOK /\ ServedWhatIsHeld

(* Every subscriber that stays ends with the current balance, a connection  *)
(* that holds ends up in the rooms wanted, and every call settles while its *)
(* socket is open.                                                          *)
NotificationsLive == EventuallySettled /\ Io!EventuallyInRooms /\ EveryCallSettles
=============================================================================
