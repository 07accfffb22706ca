------------------------------ MODULE MCTables ------------------------------
(***************************************************************************)
(* Two stores written block by block: the tables of the name system (Bns)   *)
(* and the in-memory store.  Each behaviour (part) exercises one of them;   *)
(* the other stays idle.                                                    *)
(***************************************************************************)
EXTENDS Bns, TLC

VARIABLES
  part,
  blocks, txs, events, contracts, mempool, job, announced, updates   \* MemoryStore

memoryVars == <<blocks, txs, events, contracts, mempool, job, announced, updates>>

-----------------------------------------------------------------------------
(* Names: two names and a namespace on a chain of three blocks with a fork; *)
(* one transaction is mined on both branches, and one updates its name      *)
(* twice, the second time without a zone file.  The zone file of the update *)
(* has a TXT record without owner and, after it, a subdomain.               *)
MCParent == "a1" :> "none" @@ "a2" :> "a1" @@ "a3" :> "a2" @@ "b2" :> "a1"
MCHeight == "a1" :> 1 @@ "a2" :> 2 @@ "a3" :> 3 @@ "b2" :> 2
MCBlock == DOMAIN MCParent

NameEvent(tx, contract, fn, name, sender, zonefile) ==
  [tx |-> tx, contract |-> contract, fn |-> fn, name |-> name, namespace |-> "id",
   tx_sender |-> sender, owner |-> sender, zonefile |-> zonefile]
NameTransfer(tx, name, sender, owner, zonefile) ==
  [NameEvent(tx, "bns", "name-transfer", name, sender, zonefile) EXCEPT !.owner = owner]

MCEventsOf ==
  "a1" :> <<NameEvent(1, "bns", "namespace-ready", "id", "alice", "nozf"),
          NameEvent(2, "bns", "name-register", "n.id", "alice", "z0"),
          NameEvent(3, "bns", "name-register", "m.id", "bob", "z0")>> @@
  "a2" :> <<NameEvent(4, "bns", "name-update", "n.id", "alice", "z1"),
          NameEvent(4, "other", "name-update", "n.id", "alice", "z1")>> @@
  "a3" :> <<NameTransfer(5, "n.id", "alice", "bob", "z0"),
          NameEvent(7, "bns", "name-update", "m.id", "bob", "z0"),
          NameEvent(7, "bns", "name-update", "m.id", "bob", "nozf")>> @@
  "b2" :> <<NameEvent(4, "bns", "name-update", "n.id", "alice", "z1"),
          NameEvent(6, "bns", "name-preorder", "m.id", "alice", "z1")>>

MCTxtOf ==
  "z0" :> <<>> @@
  "z1" :> <<[sub |-> "s.n.id", owner |-> "nobody", zonefile |-> "z0"], [sub |-> "t.n.id", owner |-> "alice", zonefile |-> "z0"]>>
MCUriOf == "z0" :> "" @@ "z1" :> "resolver"

NameAttachment(b, i) ==
  LET e == EventsOf[b][i]
  IN  [block |-> b, tx |-> e.tx, fn |-> e.fn, name |-> e.name, zonefile |-> e.zonefile]

MCMessage ==
  {<<NameAttachment("a2", 1), NameAttachment("a3", 2)>>, <<NameAttachment("b2", 1)>>}

(* The in-memory store: the fork has a second block, and a transaction that *)
(* both branches hold.                                                      *)
MemoryParent == MCParent @@ "b3" :> "b2"
MemoryHeight == MCHeight @@ "b3" :> 3
MemoryTxsOf == "a1" :> <<>> @@ "a2" :> <<"t1">> @@ "a3" :> <<"t2">> @@ "b2" :> <<>> @@ "b3" :> <<"t1", "t2">>
MemoryKindsOf == "t1" :> <<"stx_lock", "stx", "contract">> @@ "t2" :> <<"ft", "nft", "contract_log">>

Memory ==
  INSTANCE MemoryStore WITH Block <- DOMAIN MemoryParent, Parent <- MemoryParent, Height <- MemoryHeight,
    TxsOf <- MemoryTxsOf, KindsOf <- MemoryKindsOf, Tx <- {"t1", "t2"}, MaxUpdates <- 4

ASSUME Memory!MemoryAssumption

-----------------------------------------------------------------------------
TablesInit == part \in {"names", "memory"} /\ Init /\ Memory!Init

TablesNext ==
  \/ part = "names" /\ Next /\ UNCHANGED <<part, memoryVars>>
  \/ part = "memory" /\ Memory!Next /\ UNCHANGED <<part, vars>>

TablesSpec ==
  TablesInit /\ [][TablesNext]_<<part, vars, memoryVars>> /\ WF_memoryVars(Memory!Update)

-----------------------------------------------------------------------------
(* Every block that is received is announced.                               *)
ReceivedIsAnnounced == Memory!ReceivedIsAnnounced

(* What else holds of the tables: one latest row of a name, one row an      *)
(* event, no subdomain lost, the lists right without forks (all checked     *)
(* before the first request, since requests change no table) and a found    *)
(* name served with its zone file; in memory one canonical block a height,  *)
(* its rows canonical with it, stored before it is announced, and pages     *)
(* that cover the list.                                                     *)
TablesInv ==
  /\ part = "names" => TypeOK /\ (reads = 0 => IInv /\ LinearListsExact) /\ RequestIInv
  /\ part = "memory" => Memory!TypeOK /\ Memory!IInv /\ Memory!AnnouncedIsStored /\ Memory!PagesCover
=============================================================================
