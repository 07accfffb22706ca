---------------------------- MODULE TablesProofs ----------------------------
(***************************************************************************)
(* Proofs about the two stores written block by block.  Bns, for every tree *)
(* of blocks, every sequence of name events in them and every set of        *)
(* attachment messages: IInv is inductive, so a resolved row holds the zone *)
(* file its hash names, a name has one latest row, a found name is served   *)
(* with its zone file, and as long as no fork is stored getName and the     *)
(* lists answer with the events of the chain.  MemoryStore, for every tree  *)
(* of blocks and all their transactions: no row is canonical whose block is *)
(* not.                                                                     *)
(***************************************************************************)
EXTENDS Bns, WellFoundedInduction, TLAPS

-----------------------------------------------------------------------------
(* Numbers.                                                                 *)
LEMMA Largest ==
  ASSUME NEW T \in SUBSET Nat, NEW n \in Nat, T # {}, \A x \in T : x <= n
  PROVE  \E x \in T : \A y \in T : y <= x
<1> DEFINE D == {d \in Nat : \E x \in T : d = n - x}
<1>1. D \in SUBSET Nat /\ D # {}
  <2>1. PICK x : x \in T
    OBVIOUS
  <2>2. n - x \in D
    BY <2>1
  <2> QED
    BY <2>2
<1>2. PICK d \in D : \A e \in D : <<e, d>> \notin OpToRel(<, Nat)
  BY <1>1, NatLessThanWellFounded, WFMin
<1>3. \A e \in D : ~(e < d)
  BY <1>2 DEF OpToRel
<1>4. PICK x \in T : d = n - x
  BY <1>2
<1>5. ASSUME NEW y \in T PROVE y <= x
  <2>1. n - y \in D
    OBVIOUS
  <2> QED
    BY <1>3, <1>4, <2>1
<1> QED
  BY <1>5

(* The constants, one by one.                                               *)
LEMMA Heights == \A b \in Block : Height[b] \in Nat /\ Height[b] >= 1
BY BnsAssumption

LEMMA Positions == \A b \in Block : \A i \in NameEvents(b) : i \in Nat /\ i <= Len(EventsOf[b])
BY BnsAssumption DEF NameEvents

LEMMA Lengths == \A b \in Block : Len(EventsOf[b]) \in Nat
BY BnsAssumption

(* The zone files of a transaction: its events' and its attachments'.       *)
LEMMA ZonefilesFound ==
  /\ \A b \in Block : \A i \in NameEvents(b) : EventsOf[b][i].zonefile \in ZonefilesOf(EventsOf[b][i].tx)
  /\ \A a \in Attachment : a.zonefile \in ZonefilesOf(a.tx)
<1>1. ASSUME NEW b \in Block, NEW i \in NameEvents(b)
      PROVE  EventsOf[b][i].zonefile \in ZonefilesOf(EventsOf[b][i].tx)
  <2> DEFINE x == <<b, i>>
             at == {y \in UNION {{c} \X NameEvents(c) : c \in Block} : EventsOf[y[1]][y[2]].tx = EventsOf[b][i].tx}
  <2>1. x \in at /\ EventsOf[x[1]][x[2]].zonefile = EventsOf[b][i].zonefile
    OBVIOUS
  <2> QED
    BY <2>1 DEF ZonefilesOf
<1> QED
  BY <1>1 DEF ZonefilesOf

LEMMA Hashes ==
  /\ \A b, c : Text(b) = Text(c) => b = c
  /\ \A b, c : Text(b) # Bytes(c)
BY DEF Text, Bytes

-----------------------------------------------------------------------------
(* The chain.                                                               *)

(* A branch has a block at every height up to its tip.                      *)
LEMMA BranchFills ==
  ASSUME NEW m, NEW b, m \subseteq Block, Chain!IsBranch(m, b),
         \A c \in m : Height[c] > 1 => Height[Parent[c]] = Height[c] - 1
  PROVE  \A k \in 1..Height[b] : \E c \in m : Height[c] = k
<1> DEFINE Missing == {k \in 1..Height[b] : ~\E c \in m : Height[c] = k}
<1>0. b \in m /\ Height[b] \in Nat
  BY Heights DEF Chain!IsBranch
<1>1. SUFFICES ASSUME Missing # {} PROVE FALSE
  OBVIOUS
<1>2. Missing \in SUBSET Nat /\ \A x \in Missing : x <= Height[b]
  BY <1>0
<1>3. PICK k \in Missing : \A y \in Missing : y <= k
  <2> HIDE DEF Missing
  <2> QED
    BY <1>0, <1>1, <1>2, Largest
<1>4. k # Height[b]
  BY <1>0, <1>3
<1>5. k + 1 \in 1..Height[b] /\ k \in Nat /\ k >= 1
  BY <1>0, <1>3, <1>4
<1>6. k + 1 \notin Missing
  BY <1>3, <1>5
<1>7. PICK c \in m : Height[c] = k + 1
  BY <1>5, <1>6
<1>8. Parent[c] \in m /\ Height[Parent[c]] = k
  <2>1. Height[c] > 1
    BY <1>5, <1>7
  <2>2. Parent[c] \in m
    BY <1>7, <2>1 DEF Chain!IsBranch
  <2>3. Height[Parent[c]] = Height[c] - 1
    BY <1>7, <2>1
  <2> QED
    BY <1>5, <1>7, <2>2, <2>3
<1> QED
  BY <1>3, <1>8

(* One block a height.                                                      *)
LEMMA OnePerHeight ==
  ASSUME ChainShape, NEW c \in main, NEW d \in main, Height[c] = Height[d]
  PROVE  c = d
BY DEF ChainShape, Chain!IsBranch

LEMMA ForkKeepsShape ==
  ASSUME ChainShape, NEW b \in Block, Chain!Fork(b)
  PROVE  ChainShape'
<1>1. known' = known \cup {b} /\ main' = main
  BY DEF Chain!Fork
<1>2. known' \subseteq Block /\ main' \subseteq known'
  BY <1>1 DEF ChainShape
<1>3. \A c \in known' : Height[c] > 1 => Parent[c] \in known' /\ Height[Parent[c]] = Height[c] - 1
  BY <1>1 DEF ChainShape, Chain!Fork, Chain!Attached
<1>4. main' # {} => \E t \in main' : Chain!IsBranch(main', t)
  BY <1>1 DEF ChainShape
<1>5. \E m \in main : Height[m] = Height[b]
  <2>1. PICK c \in known : Height[b] <= Height[c]
    BY DEF Chain!Fork
  <2>2. PICK m \in main : Height[m] = Height[c]
    BY <2>1 DEF ChainShape
  <2>3. PICK t \in main : Chain!IsBranch(main, t)
    BY <2>2 DEF ChainShape
  <2>4. main \subseteq Block /\ t \in Block /\ m \in Block /\ Height[m] <= Height[t]
    BY <2>2, <2>3 DEF ChainShape, Chain!IsBranch
  <2>5. \A d \in main : Height[d] > 1 => Height[Parent[d]] = Height[d] - 1
    BY DEF ChainShape
  <2>6. Height[b] \in 1..Height[t]
    BY <2>1, <2>2, <2>4, Heights
  <2> QED
    BY <2>3, <2>4, <2>5, <2>6, BranchFills
<1>6. \A c \in known' : \E m \in main' : Height[m] = Height[c]
  BY <1>1, <1>5 DEF ChainShape
<1> QED
  BY <1>2, <1>3, <1>4, <1>6 DEF ChainShape, Chain!IsBranch

LEMMA ExtendKeepsShape ==
  ASSUME ChainShape, NEW b \in Block, Chain!Extend(b)
  PROVE  ChainShape'
<1>1. known' = known \cup {b} /\ main' \subseteq known' /\ Chain!IsBranch(main', b)
  BY DEF Chain!Extend
<1>2. known' \subseteq Block /\ b \in main'
  BY <1>1 DEF ChainShape, Chain!IsBranch
<1>3. \A c \in known' : Height[c] > 1 => Parent[c] \in known' /\ Height[Parent[c]] = Height[c] - 1
  BY <1>1 DEF ChainShape, Chain!Extend, Chain!Attached
<1>4. \E t \in main' : Chain!IsBranch(main', t)
  BY <1>1, <1>2
<1>5. ASSUME NEW c \in known' PROVE \E m \in main' : Height[m] = Height[c]
  <2>1. Height[c] <= Height[b]
    BY <1>1, <1>2, Heights DEF Chain!Extend
  <2>2. Height[c] \in 1..Height[b]
    BY <1>2, <2>1, Heights
  <2>3. \A d \in main' : Height[d] > 1 => Height[Parent[d]] = Height[d] - 1
    BY <1>1, <1>3
  <2>4. main' \subseteq Block
    BY <1>1, <1>2
  <2> QED
    BY <1>1, <2>2, <2>3, <2>4, BranchFills
<1> QED
  BY <1>1, <1>2, <1>3, <1>4, <1>5 DEF ChainShape, Chain!IsBranch

(* A chain without forks grew without forks, one block at a time.           *)
LEMMA LinearGrowth ==
  ASSUME ChainShape, NEW b \in Block \ known, Chain!Fork(b) \/ Chain!Extend(b), known' = main'
  PROVE  Linear /\ Chain!Extend(b) /\ main' = main \cup {b} /\ \A c \in main : Height[c] < Height[b]
<1>1. ~Chain!Fork(b)
  BY DEF Chain!Fork, ChainShape
<1>2. known' = known \cup {b} /\ Chain!IsBranch(main', b) /\ \A c \in known : Height[c] < Height[b]
  BY <1>1 DEF Chain!Extend
<1>3. ASSUME NEW c \in known PROVE c \in main
  <2>1. PICK m \in main : Height[m] = Height[c]
    BY DEF ChainShape
  <2>2. m \in main' /\ c \in main'
    BY <1>2, <2>1 DEF ChainShape
  <2>3. m = c
    BY <1>2, <2>1, <2>2 DEF Chain!IsBranch
  <2> QED
    BY <2>1, <2>3
<1>4. known = main
  BY <1>3 DEF ChainShape
<1> QED
  BY <1>1, <1>2, <1>4 DEF Linear
-----------------------------------------------------------------------------
(* Rows.                                                                    *)

(* Taking `latest' away changes no other column.                            *)
LEMMA NameRowSuperseded ==
  ASSUME NEW r, IsNameRow(r), NEW q, q = [r EXCEPT !.latest = FALSE]
  PROVE  /\ IsNameRow(q) /\ q.latest = FALSE
         /\ q.name = r.name /\ q.address = r.address /\ q.zonefile_hash = r.zonefile_hash /\ q.namespace_id = r.namespace_id
         /\ q.zonefile = r.zonefile /\ q.atch_resolved = r.atch_resolved
         /\ q.canonical = r.canonical /\ q.tx = r.tx /\ q.index_block_hash = r.index_block_hash /\ q.event = r.event
<1>1. q = [id |-> r.id, event |-> r.event, name |-> r.name, namespace_id |-> r.namespace_id, address |-> r.address,
           zonefile_hash |-> r.zonefile_hash, zonefile |-> r.zonefile, atch_resolved |-> r.atch_resolved,
           latest |-> FALSE, canonical |-> r.canonical, tx |-> r.tx,
           index_block_hash |-> r.index_block_hash, at |-> r.at]
  BY DEF IsNameRow
<1>2. /\ q.latest = FALSE
      /\ q.name = r.name /\ q.address = r.address /\ q.zonefile_hash = r.zonefile_hash /\ q.namespace_id = r.namespace_id
      /\ q.zonefile = r.zonefile /\ q.atch_resolved = r.atch_resolved
      /\ q.canonical = r.canonical /\ q.tx = r.tx /\ q.index_block_hash = r.index_block_hash /\ q.event = r.event
  BY <1>1
<1>3. IsNameRow(q)
  BY <1>1 DEF IsNameRow
<1> QED
  BY <1>2, <1>3

LEMMA NamespaceRowSuperseded ==
  ASSUME NEW r, IsNamespaceRow(r), NEW q, q = [r EXCEPT !.latest = FALSE]
  PROVE  IsNamespaceRow(q) /\ q.latest = FALSE /\ q.name = r.name /\ q.canonical = r.canonical
<1>1. q = [id |-> r.id, name |-> r.name, latest |-> FALSE, canonical |-> r.canonical, tx |-> r.tx,
           index_block_hash |-> r.index_block_hash]
  BY DEF IsNamespaceRow
<1>2. q.latest = FALSE /\ q.name = r.name /\ q.canonical = r.canonical /\ q.index_block_hash = r.index_block_hash
  BY <1>1
<1> QED
  BY <1>1, <1>2 DEF IsNamespaceRow

LEMMA SubdomainRowFlagged ==
  ASSUME NEW r, IsSubdomainRow(r), NEW flag, NEW q, q = [r EXCEPT !.canonical = flag]
  PROVE  /\ IsSubdomainRow(q) /\ q.sub = r.sub /\ q.owner = r.owner /\ q.tx = r.tx
         /\ q.latest = r.latest /\ q.canonical = flag
<1>1. q = [id |-> r.id, name |-> r.name, sub |-> r.sub, owner |-> r.owner, zonefile |-> r.zonefile,
           resolver |-> r.resolver, latest |-> r.latest, canonical |-> flag, tx |-> r.tx,
           index_block_hash |-> r.index_block_hash, at |-> r.at]
  BY DEF IsSubdomainRow
<1> QED
  BY <1>1 DEF IsSubdomainRow

(* The hash of the block, written as text, is no hash: a reorg leaves the   *)
(* rows of names and namespaces as they are.                                *)
LEMMA ReorgMissesNames ==
  ASSUME RowsFollowEvents, NEW orphaned, NEW restored
  PROVE  Reflag(names, orphaned, restored) = names
<1>1. ASSUME NEW r \in names
      PROVE  [r EXCEPT !.canonical =
                IF r.index_block_hash \in {Bytes(b) : b \in restored} THEN TRUE
                ELSE IF r.index_block_hash \in {Bytes(b) : b \in orphaned} THEN FALSE ELSE @] = r
  <2>1. PICK b : r.index_block_hash = Text(b)
    BY DEF RowsFollowEvents, RowOf
  <2>2. /\ r.index_block_hash \notin {Bytes(c) : c \in restored}
        /\ r.index_block_hash \notin {Bytes(c) : c \in orphaned}
    BY <2>1, Hashes
  <2>3. IsNameRow(r)
    BY DEF RowsFollowEvents
  <2>4. [r EXCEPT !.canonical = r.canonical] = r
    BY <2>3 DEF IsNameRow
  <2> QED
    BY <2>2, <2>4
<1> QED
  BY <1>1 DEF Reflag

LEMMA ReorgMissesNamespaces ==
  ASSUME RowsFollowEvents, NEW orphaned, NEW restored
  PROVE  Reflag(namespaces, orphaned, restored) = namespaces
<1>1. ASSUME NEW r \in namespaces
      PROVE  [r EXCEPT !.canonical =
                IF r.index_block_hash \in {Bytes(b) : b \in restored} THEN TRUE
                ELSE IF r.index_block_hash \in {Bytes(b) : b \in orphaned} THEN FALSE ELSE @] = r
  <2>1. PICK b : r.index_block_hash = Text(b)
    BY DEF RowsFollowEvents, IsNamespaceRow
  <2>2. /\ r.index_block_hash \notin {Bytes(c) : c \in restored}
        /\ r.index_block_hash \notin {Bytes(c) : c \in orphaned}
    BY <2>1, Hashes
  <2>3. IsNamespaceRow(r)
    BY DEF RowsFollowEvents
  <2>4. [r EXCEPT !.canonical = r.canonical] = r
    BY <2>3 DEF IsNamespaceRow
  <2> QED
    BY <2>2, <2>4
<1> QED
  BY <1>1 DEF Reflag

(* A reorg keeps the subdomains, their owners and their transactions.       *)
LEMMA ReorgKeepsSubdomains ==
  ASSUME RowsFollowEvents, NEW orphaned, NEW restored
  PROVE  /\ \A q \in Reflag(subdomains, orphaned, restored) : IsSubdomainRow(q) /\ q.sub \in Subdomain
         /\ \A r \in subdomains : \E q \in Reflag(subdomains, orphaned, restored) :
              /\ q.sub = r.sub /\ q.owner = r.owner /\ q.tx = r.tx
              /\ q.latest = r.latest /\ (orphaned = {} /\ r.canonical => q.canonical)
<1> DEFINE Flag(r) ==
      IF r.index_block_hash \in {Bytes(b) : b \in restored} THEN TRUE
      ELSE IF r.index_block_hash \in {Bytes(b) : b \in orphaned} THEN FALSE ELSE r.canonical
<1>1. Reflag(subdomains, orphaned, restored) = {[r EXCEPT !.canonical = Flag(r)] : r \in subdomains}
  BY DEF Reflag
<1>0. ASSUME orphaned = {}, NEW r \in subdomains, r.canonical PROVE Flag(r)
  BY <1>0
<1> HIDE DEF Flag
<1>2. \A r \in subdomains : IsSubdomainRow(r) /\ r.sub \in Subdomain
  BY DEF RowsFollowEvents
<1>3. ASSUME NEW q \in Reflag(subdomains, orphaned, restored) PROVE IsSubdomainRow(q) /\ q.sub \in Subdomain
  BY <1>1, <1>2, SubdomainRowFlagged
<1>4. ASSUME NEW r \in subdomains
      PROVE  \E q \in Reflag(subdomains, orphaned, restored) :
               /\ q.sub = r.sub /\ q.owner = r.owner /\ q.tx = r.tx
               /\ q.latest = r.latest /\ (orphaned = {} /\ r.canonical => q.canonical)
  <2>1. [r EXCEPT !.canonical = Flag(r)] \in Reflag(subdomains, orphaned, restored)
    BY <1>1
  <2> QED
    BY <1>0, <1>2, <2>1, SubdomainRowFlagged
<1> QED
  BY <1>3, <1>4

-----------------------------------------------------------------------------
(* The rows of a new block: what becomes of an older row, and the row of an *)
(* event.                                                                   *)
OldRow(r, b) == IF r.name \in NamesIn(b) THEN [r EXCEPT !.latest = FALSE] ELSE r
NewRow(b, i, flag) ==
  NameRow(NewId(names, NameEvents(b), i), i, b, flag, LastOfItsName(NameEvents(b), b, i))

LEMMA UpdateNamesRows ==
  ASSUME NEW b, NEW flag
  PROVE  updateNames(names, b, flag)
           = {OldRow(r, b) : r \in names} \cup {NewRow(b, i, flag) : i \in NameEvents(b)}
<1>1. \A r \in names : (\E i \in NameEvents(b) : EventsOf[b][i].name = r.name) <=> r.name \in NamesIn(b)
  BY DEF NamesIn
<1>2. Supersede(names, NameEvents(b), b) = {OldRow(r, b) : r \in names}
  BY <1>1 DEF Supersede, OldRow
<1> QED
  BY <1>2 DEF updateNames, NewRow

LEMMA OldRowColumns ==
  ASSUME NEW r, IsNameRow(r), NEW b
  PROVE  /\ IsNameRow(OldRow(r, b))
         /\ OldRow(r, b).name = r.name /\ OldRow(r, b).address = r.address /\ OldRow(r, b).namespace_id = r.namespace_id
         /\ OldRow(r, b).zonefile_hash = r.zonefile_hash /\ OldRow(r, b).zonefile = r.zonefile
         /\ OldRow(r, b).atch_resolved = r.atch_resolved /\ OldRow(r, b).canonical = r.canonical
         /\ OldRow(r, b).event = r.event
         /\ OldRow(r, b).tx = r.tx /\ OldRow(r, b).index_block_hash = r.index_block_hash
         /\ r.name \in NamesIn(b) => OldRow(r, b).latest = FALSE
         /\ r.name \notin NamesIn(b) => OldRow(r, b).latest = r.latest
<1>1. CASE r.name \in NamesIn(b)
  <2>1. OldRow(r, b) = [r EXCEPT !.latest = FALSE]
    BY <1>1 DEF OldRow
  <2> QED
    BY <1>1, <2>1, NameRowSuperseded
<1>2. CASE r.name \notin NamesIn(b)
  BY <1>2 DEF OldRow
<1> QED
  BY <1>1, <1>2

LEMMA NewRowColumns ==
  ASSUME NEW b, NEW i, NEW flag
  PROVE  /\ IsNameRow(NewRow(b, i, flag))
         /\ RowOf(NewRow(b, i, flag), b, i)
         /\ NewRow(b, i, flag).atch_resolved = FALSE
         /\ NewRow(b, i, flag).canonical = flag
         /\ NewRow(b, i, flag).latest <=> LastOfItsName(NameEvents(b), b, i)
BY DEF NewRow, NameRow, IsNameRow, RowOf

(* The row of an event determines its block and its position.               *)
LEMMA RowOfOneEvent ==
  ASSUME NEW r, NEW b \in Block, NEW c \in Block, NEW i \in NameEvents(b), NEW j \in NameEvents(c),
         RowOf(r, b, i), RowOf(r, c, j)
  PROVE  b = c /\ i = j
BY Hashes DEF RowOf

(* Two events of one name in a block: one of them is the last.              *)
LEMMA OneLast ==
  ASSUME NEW b \in Block, NEW i \in NameEvents(b), NEW j \in NameEvents(b),
         EventsOf[b][i].name = EventsOf[b][j].name,
         LastOfItsName(NameEvents(b), b, i), LastOfItsName(NameEvents(b), b, j)
  PROVE  i = j
<1>1. i \in Nat /\ j \in Nat
  BY Positions
<1>2. ~(j > i) /\ ~(i > j)
  BY DEF LastOfItsName
<1> QED
  BY <1>1, <1>2

-----------------------------------------------------------------------------
(* Storing a new block keeps the table of names in order.                   *)
LEMMA StoreKeepsRows ==
  ASSUME ChainShape, RowsFollowEvents, NEW b \in Block \ known, NEW flag, known' = known \cup {b},
         names' = updateNames(names, b, flag)
  PROVE  /\ \A r \in names' : IsNameRow(r) /\ \E c \in known' : \E i \in NameEvents(c) : RowOf(r, c, i)
         /\ \A c \in known' : \A i \in NameEvents(c) : \E r \in names' : RowOf(r, c, i)
<1>1. names' = {OldRow(r, b) : r \in names} \cup {NewRow(b, i, flag) : i \in NameEvents(b)}
  BY UpdateNamesRows
<1>2. \A r \in names : IsNameRow(r) /\ \E c \in known : \E i \in NameEvents(c) : RowOf(r, c, i)
  BY DEF RowsFollowEvents
<1>3. ASSUME NEW r \in names, NEW c, NEW i, RowOf(r, c, i) PROVE RowOf(OldRow(r, b), c, i)
  <2>1. /\ OldRow(r, b).name = r.name /\ OldRow(r, b).address = r.address /\ OldRow(r, b).namespace_id = r.namespace_id
        /\ OldRow(r, b).zonefile_hash = r.zonefile_hash
        /\ OldRow(r, b).event = r.event
        /\ OldRow(r, b).tx = r.tx /\ OldRow(r, b).index_block_hash = r.index_block_hash
    BY <1>2, OldRowColumns
  <2> QED
    BY <1>3, <2>1 DEF RowOf
<1>4. ASSUME NEW q \in names' PROVE IsNameRow(q) /\ \E c \in known' : \E i \in NameEvents(c) : RowOf(q, c, i)
  <2>1. CASE \E r \in names : q = OldRow(r, b)
    <3>1. PICK r \in names : q = OldRow(r, b)
      BY <2>1
    <3>2. PICK c \in known : \E i \in NameEvents(c) : RowOf(r, c, i)
      BY <1>2
    <3>3. PICK i \in NameEvents(c) : RowOf(r, c, i)
      BY <3>2
    <3>4. RowOf(q, c, i) /\ IsNameRow(q)
      BY <1>2, <1>3, <3>1, <3>3, OldRowColumns
    <3> QED
      BY <3>2, <3>3, <3>4
  <2>2. CASE \E i \in NameEvents(b) : q = NewRow(b, i, flag)
    <3>1. PICK i \in NameEvents(b) : q = NewRow(b, i, flag)
      BY <2>2
    <3>2. RowOf(q, b, i) /\ IsNameRow(q)
      BY <3>1, NewRowColumns
    <3> QED
      BY <3>1, <3>2
  <2> QED
    BY <1>1, <2>1, <2>2
<1>5. ASSUME NEW c \in known', NEW i \in NameEvents(c) PROVE \E q \in names' : RowOf(q, c, i)
  <2>1. CASE c \in known
    <3>1. PICK r \in names : RowOf(r, c, i)
      BY <2>1 DEF RowsFollowEvents
    <3>2. OldRow(r, b) \in names' /\ RowOf(OldRow(r, b), c, i)
      BY <1>1, <1>3, <3>1
    <3> QED
      BY <3>2
  <2>2. CASE c = b
    <3>1. NewRow(b, i, flag) \in names' /\ RowOf(NewRow(b, i, flag), b, i)
      BY <1>1, <2>2, NewRowColumns
    <3> QED
      BY <2>2, <3>1
  <2> QED
    BY <2>1, <2>2
<1> QED
  BY <1>4, <1>5

(* ... with one row an event.                                               *)
LEMMA StoreKeepsOneRow ==
  ASSUME ChainShape, RowsFollowEvents, OneRowPerEvent, NEW b \in Block \ known, NEW flag,
         names' = updateNames(names, b, flag)
  PROVE  OneRowPerEvent'
<1>1. names' = {OldRow(r, b) : r \in names} \cup {NewRow(b, i, flag) : i \in NameEvents(b)}
  BY UpdateNamesRows
<1>2. ASSUME NEW r \in names
      PROVE  /\ OldRow(r, b).event = r.event
             /\ OldRow(r, b).tx = r.tx /\ OldRow(r, b).index_block_hash = r.index_block_hash
             /\ r.index_block_hash # Text(b)
  <2>1. IsNameRow(r) /\ \E c \in known : r.index_block_hash = Text(c)
    BY DEF RowsFollowEvents, RowOf
  <2> QED
    BY <2>1, OldRowColumns, Hashes
<1>3. ASSUME NEW i \in NameEvents(b)
      PROVE  NewRow(b, i, flag).event = i /\ NewRow(b, i, flag).index_block_hash = Text(b)
  <2>1. RowOf(NewRow(b, i, flag), b, i)
    BY NewRowColumns
  <2> QED
    BY <2>1 DEF RowOf
<1>4. SUFFICES ASSUME NEW q1 \in names', NEW q2 \in names', q1.event = q2.event,
                      q1.index_block_hash = q2.index_block_hash
               PROVE  q1 = q2
  BY DEF OneRowPerEvent
<1>5. CASE \E r \in names : q1 = OldRow(r, b)
  <2>1. PICK r1 \in names : q1 = OldRow(r1, b)
    BY <1>5
  <2>2. PICK r2 \in names : q2 = OldRow(r2, b)
    BY <1>1, <1>2, <1>3, <1>4, <2>1
  <2>3. r1 = r2
    BY <1>2, <1>4, <2>1, <2>2 DEF OneRowPerEvent
  <2> QED
    BY <2>1, <2>2, <2>3
<1>6. CASE \E i \in NameEvents(b) : q1 = NewRow(b, i, flag)
  <2>1. PICK i \in NameEvents(b) : q1 = NewRow(b, i, flag)
    BY <1>6
  <2>2. PICK j \in NameEvents(b) : q2 = NewRow(b, j, flag)
    BY <1>1, <1>2, <1>3, <1>4, <2>1
  <2>3. i = j
    BY <1>3, <1>4, <2>1, <2>2
  <2> QED
    BY <2>1, <2>2, <2>3
<1> QED
  BY <1>1, <1>5, <1>6

(* ... and one latest row a name.                                           *)
LEMMA StoreKeepsLatest ==
  ASSUME ChainShape, RowsFollowEvents, NEW b \in Block \ known, NEW flag,
         names' = updateNames(names, b, flag),
         \A r, q \in names : r.latest /\ q.latest /\ r.name = q.name => r = q
  PROVE  \A r, q \in names' : r.latest /\ q.latest /\ r.name = q.name => r = q
<1>1. names' = {OldRow(r, b) : r \in names} \cup {NewRow(b, i, flag) : i \in NameEvents(b)}
  BY UpdateNamesRows
<1>2. ASSUME NEW r \in names, OldRow(r, b).latest
      PROVE  r.latest /\ r.name \notin NamesIn(b) /\ OldRow(r, b).name = r.name
  <2>1. IsNameRow(r)
    BY DEF RowsFollowEvents
  <2> QED
    BY <1>2, <2>1, OldRowColumns
<1>3. ASSUME NEW i \in NameEvents(b)
      PROVE  /\ NewRow(b, i, flag).name = EventsOf[b][i].name /\ NewRow(b, i, flag).name \in NamesIn(b)
             /\ NewRow(b, i, flag).latest <=> LastOfItsName(NameEvents(b), b, i)
  <2>1. RowOf(NewRow(b, i, flag), b, i) /\ (NewRow(b, i, flag).latest <=> LastOfItsName(NameEvents(b), b, i))
    BY NewRowColumns
  <2>2. NewRow(b, i, flag).name = EventsOf[b][i].name
    BY <2>1 DEF RowOf
  <2> QED
    BY <2>1, <2>2 DEF NamesIn
<1>4. SUFFICES ASSUME NEW q1 \in names', NEW q2 \in names', q1.latest, q2.latest, q1.name = q2.name
               PROVE  q1 = q2
  OBVIOUS
<1>5. CASE \E r \in names : q1 = OldRow(r, b)
  <2>1. PICK r1 \in names : q1 = OldRow(r1, b)
    BY <1>5
  <2>2. q1.name \notin NamesIn(b)
    BY <1>2, <1>4, <2>1
  <2>3. PICK r2 \in names : q2 = OldRow(r2, b)
    BY <1>1, <1>3, <1>4, <2>2
  <2>4. r1 = r2
    BY <1>2, <1>4, <2>1, <2>3
  <2> QED
    BY <2>1, <2>3, <2>4
<1>6. CASE \E i \in NameEvents(b) : q1 = NewRow(b, i, flag)
  <2>1. PICK i \in NameEvents(b) : q1 = NewRow(b, i, flag)
    BY <1>6
  <2>2. q1.name \in NamesIn(b)
    BY <1>3, <2>1
  <2>3. PICK j \in NameEvents(b) : q2 = NewRow(b, j, flag)
    BY <1>1, <1>2, <1>4, <2>2
  <2>4. i = j
    BY <1>3, <1>4, <2>1, <2>3, OneLast
  <2> QED
    BY <2>1, <2>3, <2>4
<1> QED
  BY <1>1, <1>5, <1>6

(* Without forks, rows stay flagged in the order of the chain.              *)
LEMMA StoreKeepsOrder ==
  ASSUME ChainShape, RowsFollowEvents, LatestInOrder, NEW b \in Block \ known, NEW flag,
         (Chain!Fork(b) /\ flag = FALSE) \/ (Chain!Extend(b) /\ flag = TRUE),
         names' = updateNames(names, b, flag)
  PROVE  LatestInOrder'
<1>1. SUFFICES ASSUME known' = main', NEW q \in names'
               PROVE  /\ q.canonical
                      /\ \A c \in main' : \A i \in NameEvents(c) : RowOf(q, c, i) => (q.latest <=> LastOnChain(c, i)')
  BY DEF LatestInOrder, Linear
<1>2. Linear /\ Chain!Extend(b) /\ main' = main \cup {b} /\ \A c \in main : Height[c] < Height[b]
  BY <1>1, LinearGrowth
<1>3. flag = TRUE
  <2>1. ~Chain!Fork(b)
    <3>1. SUFFICES ASSUME Chain!Fork(b) PROVE FALSE
      OBVIOUS
    <3>2. PICK c \in known : Height[b] <= Height[c]
      BY <3>1 DEF Chain!Fork
    <3>3. c \in main /\ c \in Block
      BY <1>2, <3>2 DEF Linear, ChainShape
    <3> QED
      BY <1>2, <3>2, <3>3, Heights
  <2> QED
    BY <2>1
<1>4. names' = {OldRow(r, b) : r \in names} \cup {NewRow(b, i, flag) : i \in NameEvents(b)}
  BY UpdateNamesRows
<1>5. main \subseteq Block /\ main = known /\ main' \subseteq Block
  BY <1>2 DEF Linear, ChainShape
<1>6. CASE \E r \in names : q = OldRow(r, b)
  <2>1. PICK r \in names : q = OldRow(r, b)
    BY <1>6
  <2>2. IsNameRow(r) /\ \E c \in known : \E i \in NameEvents(c) : RowOf(r, c, i)
    BY DEF RowsFollowEvents
  <2>3. r.canonical /\ \A c \in main : \A i \in NameEvents(c) : RowOf(r, c, i) => (r.latest <=> LastOnChain(c, i))
    BY <1>2 DEF LatestInOrder
  <2>4. /\ q.canonical = r.canonical /\ q.name = r.name /\ q.address = r.address /\ q.namespace_id = r.namespace_id
        /\ q.zonefile_hash = r.zonefile_hash /\ q.tx = r.tx /\ q.index_block_hash = r.index_block_hash /\ q.event = r.event
        /\ r.name \in NamesIn(b) => q.latest = FALSE
        /\ r.name \notin NamesIn(b) => q.latest = r.latest
    BY <2>1, <2>2, OldRowColumns
  <2>5. ASSUME NEW c \in main', NEW i \in NameEvents(c), RowOf(q, c, i)
        PROVE  q.latest <=> LastOnChain(c, i)'
    <3>1. RowOf(r, c, i)
      BY <2>4, <2>5 DEF RowOf
    <3>2. c \in main
      <4>1. PICK d \in known : \E j \in NameEvents(d) : RowOf(r, d, j)
        BY <2>2
      <4>2. c = d
        BY <3>1, <4>1, Hashes DEF RowOf
      <4> QED
        BY <1>5, <4>1, <4>2
    <3>3. r.latest <=> LastOnChain(c, i)
      BY <2>3, <3>1, <3>2
    <3>4. LastOnChain(c, i)' <=> LastOnChain(c, i) /\ EventsOf[c][i].name \notin NamesIn(b)
      <4>1. Height[b] > Height[c]
        BY <1>2, <1>5, <3>2, Heights
      <4> QED
        BY <1>2, <4>1 DEF LastOnChain
    <3>5. EventsOf[c][i].name = r.name
      BY <3>1 DEF RowOf
    <3>6. CASE r.name \in NamesIn(b)
      BY <2>4, <3>4, <3>5, <3>6
    <3>7. CASE r.name \notin NamesIn(b)
      BY <2>4, <3>3, <3>4, <3>5, <3>7
    <3> QED
      BY <3>6, <3>7
  <2> QED
    BY <2>3, <2>4, <2>5
<1>7. CASE \E i \in NameEvents(b) : q = NewRow(b, i, flag)
  <2>1. PICK i \in NameEvents(b) : q = NewRow(b, i, flag)
    BY <1>7
  <2>2. RowOf(q, b, i) /\ q.canonical = flag /\ (q.latest <=> LastOfItsName(NameEvents(b), b, i))
    <3>1. RowOf(NewRow(b, i, flag), b, i)
      BY NewRowColumns
    <3>2. NewRow(b, i, flag).latest <=> LastOfItsName(NameEvents(b), b, i)
      BY NewRowColumns
    <3>3. NewRow(b, i, flag).canonical = flag
      BY DEF NewRow, NameRow
    <3> QED
      BY <2>1, <3>1, <3>2, <3>3
  <2>3. ASSUME NEW c \in main', NEW j \in NameEvents(c), RowOf(q, c, j)
        PROVE  q.latest <=> LastOnChain(c, j)'
    <3>1. c = b /\ j = i
      BY <1>5, <2>1, <2>2, <2>3, RowOfOneEvent
    <3>2. \A d \in main' : ~(Height[d] > Height[b])
      BY <1>2, <1>5, Heights
    <3>3. LastOnChain(b, i)' <=> LastOfItsName(NameEvents(b), b, i)
      BY <3>2 DEF LastOnChain
    <3> QED
      BY <2>2, <3>1, <3>3
  <2> QED
    BY <1>3, <2>2, <2>3
<1> QED
  BY <1>4, <1>6, <1>7

(* New rows are not resolved, older ones keep their zone file.              *)
LEMMA StoreKeepsZonefiles ==
  ASSUME RowsFollowEvents, ZonefileMatchesHash, NEW b, NEW flag, names' = updateNames(names, b, flag)
  PROVE  ZonefileMatchesHash'
<1>1. names' = {OldRow(r, b) : r \in names} \cup {NewRow(b, i, flag) : i \in NameEvents(b)}
  BY UpdateNamesRows
<1>2. ASSUME NEW r \in names
      PROVE  OldRow(r, b).atch_resolved /\ OneZonefile(OldRow(r, b).tx) =>
               OldRow(r, b).zonefile = OldRow(r, b).zonefile_hash
  <2>1. IsNameRow(r) /\ (r.atch_resolved /\ OneZonefile(r.tx) => r.zonefile = r.zonefile_hash)
    BY DEF RowsFollowEvents, ZonefileMatchesHash
  <2>2. /\ OldRow(r, b).atch_resolved = r.atch_resolved /\ OldRow(r, b).zonefile = r.zonefile
        /\ OldRow(r, b).zonefile_hash = r.zonefile_hash /\ OldRow(r, b).tx = r.tx
    BY <2>1, OldRowColumns
  <2> QED
    BY <2>1, <2>2
<1>3. ASSUME NEW i \in NameEvents(b) PROVE ~NewRow(b, i, flag).atch_resolved
  BY NewRowColumns
<1> QED
  BY <1>1, <1>2, <1>3 DEF ZonefileMatchesHash

(* The same for namespaces.                                                 *)
LEMMA StoreKeepsNamespaces ==
  ASSUME ChainShape, RowsFollowEvents, NamespacesFollow, OneLatest, NEW b \in Block \ known, NEW flag,
         (Chain!Fork(b) /\ flag = FALSE) \/ (Chain!Extend(b) /\ flag = TRUE),
         known' = known \cup {b}, namespaces' = updateNamespaces(namespaces, b, flag)
  PROVE  /\ \A r \in namespaces' : IsNamespaceRow(r)
         /\ \A r, q \in namespaces' : r.latest /\ q.latest /\ r.name = q.name => r = q
         /\ NamespacesFollow'
<1> DEFINE S == NamespaceEvents(b)
           Old(r) == IF \E i \in S : EventsOf[b][i].name = r.name THEN [r EXCEPT !.latest = FALSE] ELSE r
           New(i) == NamespaceRow(NewId(namespaces, S, i), EventsOf[b][i], b, flag, LastOfItsName(S, b, i))
<1>1. namespaces' = {Old(r) : r \in namespaces} \cup {New(i) : i \in S}
  BY DEF updateNamespaces, Supersede
<1>2. \A r \in namespaces : IsNamespaceRow(r)
  BY DEF RowsFollowEvents
<1>3. \A i \in S : i \in Nat
  BY BnsAssumption DEF NamespaceEvents
<1>4. ASSUME NEW r \in namespaces
      PROVE  /\ IsNamespaceRow(Old(r)) /\ Old(r).name = r.name /\ Old(r).canonical = r.canonical
             /\ Old(r).latest => r.latest /\ \A i \in S : EventsOf[b][i].name # r.name
             /\ (\A i \in S : EventsOf[b][i].name # r.name) => Old(r).latest = r.latest
  <2>1. CASE \E i \in S : EventsOf[b][i].name = r.name
    <3>1. Old(r) = [r EXCEPT !.latest = FALSE]
      BY <2>1
    <3>2. IsNamespaceRow(Old(r)) /\ Old(r).latest = FALSE /\ Old(r).name = r.name /\ Old(r).canonical = r.canonical
      <4> HIDE DEF Old
      <4> QED
        BY <1>2, <3>1, NamespaceRowSuperseded
    <3> HIDE DEF Old
    <3> QED
      BY <2>1, <3>2
  <2>2. CASE ~\E i \in S : EventsOf[b][i].name = r.name
    <3>1. Old(r) = r
      BY <2>2
    <3> HIDE DEF Old
    <3> QED
      BY <1>2, <2>2, <3>1
  <2> QED
    BY <2>1, <2>2
<1>5. ASSUME NEW i \in S
      PROVE  /\ IsNamespaceRow(New(i)) /\ New(i).name = EventsOf[b][i].name /\ New(i).canonical = flag
             /\ New(i).latest <=> LastOfItsName(S, b, i)
  BY DEF NamespaceRow, IsNamespaceRow
<1> HIDE DEF Old, New
<1>6. \A r \in namespaces' : IsNamespaceRow(r)
  BY <1>1, <1>4, <1>5
<1>7. ASSUME NEW q1 \in namespaces', NEW q2 \in namespaces', q1.latest, q2.latest, q1.name = q2.name
      PROVE  q1 = q2
  <2>1. CASE \E r \in namespaces : q1 = Old(r)
    <3>1. PICK r1 \in namespaces : q1 = Old(r1)
      BY <2>1
    <3>2. \A i \in S : EventsOf[b][i].name # q1.name
      BY <1>4, <1>7, <3>1
    <3>3. PICK r2 \in namespaces : q2 = Old(r2)
      BY <1>1, <1>5, <1>7, <3>2
    <3>4. r1 = r2
      BY <1>4, <1>7, <3>1, <3>3 DEF OneLatest
    <3> QED
      BY <3>1, <3>3, <3>4
  <2>2. CASE \E i \in S : q1 = New(i)
    <3>1. PICK i \in S : q1 = New(i)
      BY <2>2
    <3>2. q1.name = EventsOf[b][i].name
      BY <1>5, <3>1
    <3>3. PICK j \in S : q2 = New(j)
      <4>1. ASSUME NEW r \in namespaces, q2 = Old(r) PROVE FALSE
        <5>1. Old(r).name = EventsOf[b][i].name /\ Old(r).latest
          BY <1>7, <3>2, <4>1
        <5> QED
          BY <1>4, <5>1
      <4> QED
        BY <1>1, <4>1
    <3>4. LastOfItsName(S, b, i) /\ LastOfItsName(S, b, j) /\ EventsOf[b][i].name = EventsOf[b][j].name
      BY <1>5, <1>7, <3>1, <3>3
    <3>5. i = j
      BY <1>3, <3>4 DEF LastOfItsName
    <3> QED
      BY <3>1, <3>3, <3>5
  <2> QED
    BY <1>1, <2>1, <2>2
<1>8. ASSUME NEW q \in namespaces' PROVE \E c \in known' : q.name \in NamespacesIn(c)
  BY <1>1, <1>4, <1>5 DEF NamespacesFollow, NamespacesIn
<1>9. ASSUME NEW n \in NamespacesIn(b) PROVE \E q \in namespaces' : q.name = n /\ q.latest
  <2> DEFINE at == {i \in S : EventsOf[b][i].name = n}
  <2>1. at \in SUBSET Nat /\ at # {} /\ Len(EventsOf[b]) \in Nat /\ \A i \in at : i <= Len(EventsOf[b])
    BY BnsAssumption DEF NamespacesIn, NamespaceEvents
  <2>2. \E i \in at : \A j \in at : j <= i
    <3> HIDE DEF at
    <3> QED
      BY <2>1, Largest
  <2>3. PICK i \in at : \A j \in at : j <= i
    BY <2>2
  <2>4. LastOfItsName(S, b, i)
    BY <1>3, <2>3 DEF LastOfItsName
  <2>5. New(i) \in namespaces' /\ New(i).name = n /\ New(i).latest
    BY <1>1, <1>5, <2>3, <2>4
  <2> QED
    BY <2>5
<1>10. ASSUME NEW c \in known', NEW n \in NamespacesIn(c) PROVE \E q \in namespaces' : q.name = n /\ q.latest
  <2>1. CASE n \in NamespacesIn(b)
    BY <1>9, <2>1
  <2>2. CASE n \notin NamespacesIn(b)
    <3>1. c \in known
      BY <1>10, <2>2
    <3>2. PICK r \in namespaces : r.name = n /\ r.latest
      BY <1>10, <3>1 DEF NamespacesFollow
    <3>3. \A i \in S : EventsOf[b][i].name # r.name
      BY <2>2, <3>2 DEF NamespacesIn
    <3>4. Old(r) \in namespaces' /\ Old(r).name = n /\ Old(r).latest
      BY <1>1, <1>4, <3>2, <3>3
    <3> QED
      BY <3>4
  <2> QED
    BY <2>1, <2>2
<1>11. ASSUME known' = main', NEW q \in namespaces' PROVE q.canonical
  <2>1. Linear /\ Chain!Extend(b) /\ main' = main \cup {b} /\ \A c \in main : Height[c] < Height[b]
    BY <1>11, LinearGrowth
  <2>2. flag = TRUE
    <3>1. SUFFICES ASSUME Chain!Fork(b) PROVE FALSE
      OBVIOUS
    <3>2. PICK c \in known : Height[b] <= Height[c]
      BY <3>1 DEF Chain!Fork
    <3>3. c \in main /\ c \in Block
      BY <2>1, <3>2 DEF Linear, ChainShape
    <3> QED
      BY <2>1, <3>2, <3>3, Heights
  <2>3. \A r \in namespaces : r.canonical
    BY <2>1 DEF NamespacesFollow
  <2>4. ASSUME NEW r \in namespaces, q = Old(r) PROVE q.canonical
    <3>1. Old(r).canonical = r.canonical
      BY <1>4
    <3> QED
      BY <2>3, <2>4, <3>1
  <2>5. ASSUME NEW i \in S, q = New(i) PROVE q.canonical
    <3>1. New(i).canonical = flag
      BY <1>5
    <3> QED
      BY <2>2, <2>5, <3>1
  <2> QED
    BY <1>1, <2>4, <2>5
<1>12. NamespacesFollow'
  BY <1>8, <1>10, <1>11 DEF NamespacesFollow, Linear
<1> QED
  BY <1>6, <1>7, <1>12

-----------------------------------------------------------------------------
(* The steps.                                                               *)
LEMMA NothingMoves ==
  ASSUME IInv, known' = known, main' = main, names' = names, namespaces' = namespaces,
         subdomains' = subdomains, todo' = todo, isCanonical' = isCanonical, acked' = acked
  PROVE  IInv'
<1>1. ChainShape'
  BY DEF IInv, ChainShape
<1>2. RowsFollowEvents' /\ NamespacesFollow'
  BY DEF IInv, RowsFollowEvents, NamespacesFollow, Linear
<1>3. LatestInOrder'
  BY DEF IInv, LatestInOrder, Linear, LastOnChain
<1>4. TaskShape' /\ SubdomainsComplete'
  BY DEF IInv, TaskShape, SubdomainsComplete, HasRows
<1>5. OneRowPerEvent' /\ OneLatest' /\ ZonefileMatchesHash'
  BY DEF IInv, OneRowPerEvent, OneLatest, ZonefileMatchesHash
<1> QED
  BY <1>1, <1>2, <1>3, <1>4, <1>5 DEF IInv

(* Only the task changes.                                                   *)
LEMMA TaskMoves ==
  ASSUME IInv, UNCHANGED <<chainVars, tables, acked>>, TaskShape'
  PROVE  IInv'
<1>0. /\ known' = known /\ main' = main /\ names' = names /\ namespaces' = namespaces
      /\ subdomains' = subdomains /\ acked' = acked
  BY DEF chainVars, tables
<1>1. ChainShape'
  BY <1>0 DEF IInv, ChainShape
<1>2. RowsFollowEvents' /\ NamespacesFollow'
  BY <1>0 DEF IInv, RowsFollowEvents, NamespacesFollow, Linear
<1>3. LatestInOrder'
  BY <1>0 DEF IInv, LatestInOrder, Linear, LastOnChain
<1>4. SubdomainsComplete'
  BY <1>0 DEF IInv, SubdomainsComplete, HasRows
<1>5. OneRowPerEvent' /\ OneLatest' /\ ZonefileMatchesHash'
  BY <1>0 DEF IInv, OneRowPerEvent, OneLatest, ZonefileMatchesHash
<1> QED
  BY <1>1, <1>2, <1>3, <1>4, <1>5 DEF IInv

(* update, with the flag of the branch.                                     *)
LEMMA StoreHolds ==
  ASSUME IInv, NEW b \in Block, NEW flag, UNCHANGED taskVars, StoreEntities(b, flag),
         (Chain!Fork(b) /\ flag = FALSE) \/ (Chain!Extend(b) /\ flag = TRUE)
  PROVE  IInv'
<1>0. /\ ChainShape /\ RowsFollowEvents /\ NamespacesFollow /\ LatestInOrder /\ TaskShape
      /\ OneRowPerEvent /\ OneLatest /\ ZonefileMatchesHash /\ SubdomainsComplete
  BY DEF IInv
<1>1. todo' = todo /\ isCanonical' = isCanonical /\ acked' = acked
  BY DEF taskVars
<1>2. known' = known \cup {b}
  BY DEF Chain!Fork, Chain!Extend
<1>3. ChainShape'
  BY <1>0, ForkKeepsShape, ExtendKeepsShape
<1>4. CASE b \in known
  <2>1. ~Chain!Extend(b)
    BY <1>4, Heights DEF Chain!Extend
  <2>2. known' = known /\ main' = main
    BY <1>2, <1>4, <2>1 DEF Chain!Fork
  <2>3. names' = names /\ namespaces' = namespaces /\ subdomains' = subdomains
    BY <1>4 DEF StoreEntities, tables
  <2> QED
    BY <1>1, <2>2, <2>3, NothingMoves
<1>5. CASE b \notin known
  <2>1. /\ names' = updateNames(Reflag(names, main \ main', main' \ main), b, flag)
        /\ namespaces' = updateNamespaces(Reflag(namespaces, main \ main', main' \ main), b, flag)
        /\ subdomains' = Reflag(subdomains, main \ main', main' \ main)
    BY <1>5 DEF StoreEntities
  <2>2. names' = updateNames(names, b, flag) /\ namespaces' = updateNamespaces(namespaces, b, flag)
    BY <1>0, <2>1, ReorgMissesNames, ReorgMissesNamespaces
  <2>3. /\ \A r \in names' : IsNameRow(r) /\ \E c \in known' : \E i \in NameEvents(c) : RowOf(r, c, i)
        /\ \A c \in known' : \A i \in NameEvents(c) : \E r \in names' : RowOf(r, c, i)
    BY <1>0, <1>2, <1>5, <2>2, StoreKeepsRows
  <2>4. /\ \A r \in namespaces' : IsNamespaceRow(r)
        /\ \A r, q \in namespaces' : r.latest /\ q.latest /\ r.name = q.name => r = q
        /\ NamespacesFollow'
    BY <1>0, <1>2, <1>5, <2>2, StoreKeepsNamespaces
  <2>5. /\ \A q \in subdomains' : IsSubdomainRow(q) /\ q.sub \in Subdomain
        /\ \A r \in subdomains : \E q \in subdomains' : q.sub = r.sub /\ q.owner = r.owner /\ q.tx = r.tx
    BY <1>0, <2>1, ReorgKeepsSubdomains
  <2>6. RowsFollowEvents'
    BY <2>3, <2>4, <2>5 DEF RowsFollowEvents
  <2>7. LatestInOrder'
    BY <1>0, <1>5, <2>2, StoreKeepsOrder
  <2>8. OneRowPerEvent' /\ ZonefileMatchesHash'
    BY <1>0, <1>5, <2>2, StoreKeepsOneRow, StoreKeepsZonefiles
  <2>9. OneLatest'
    <3>1. \A r, q \in names : r.latest /\ q.latest /\ r.name = q.name => r = q
      BY <1>0 DEF OneLatest
    <3>2. \A r, q \in names' : r.latest /\ q.latest /\ r.name = q.name => r = q
      BY <1>0, <1>5, <2>2, <3>1, StoreKeepsLatest
    <3> QED
      BY <2>4, <3>2 DEF OneLatest
  <2>10. ASSUME NEW a, HasRows(a) PROVE HasRows(a)'
    BY <2>5, <2>10 DEF HasRows
  <2>11. TaskShape' /\ SubdomainsComplete'
    BY <1>0, <1>1, <2>10 DEF TaskShape, SubdomainsComplete
  <2> QED
    BY <1>3, <2>4, <2>6, <2>7, <2>8, <2>9, <2>11 DEF IInv
<1> QED
  BY <1>4, <1>5

LEMMA ResolveSubdomainsHolds ==
  ASSUME IInv, resolveBnsSubdomains
  PROVE  IInv'
<1> DEFINE a == Head(todo)
           new == {SubdomainRow(posts, a, k) : k \in Owned(a.zonefile)}
<1>1. /\ known' = known /\ main' = main /\ names' = names /\ namespaces' = namespaces
      /\ todo' = todo /\ acked' = acked /\ isCanonical' = "stored"
      /\ subdomains' = subdomains \cup new
  BY DEF resolveBnsSubdomains, chainVars
<1>2. ChainShape' /\ LatestInOrder' /\ OneRowPerEvent' /\ OneLatest' /\ ZonefileMatchesHash'
  BY <1>1 DEF IInv, ChainShape, LatestInOrder, Linear, LastOnChain, OneRowPerEvent, OneLatest, ZonefileMatchesHash
<1>3. RowsFollowEvents'
  <2>1. \A r \in new : IsSubdomainRow(r)
    BY DEF SubdomainRow, IsSubdomainRow
  <2>2. \A r \in new : r.sub \in Subdomain
    <3>1. a.zonefile \in Zonefile
      BY BnsAssumption DEF IInv, TaskShape, resolveBnsSubdomains
    <3>2. \A k \in Owned(a.zonefile) : TxtOf[a.zonefile][k].sub \in Subdomain
      BY <3>1 DEF Owned, Subdomain, Range
    <3> QED
      BY <3>2 DEF SubdomainRow
  <2> HIDE DEF new
  <2> QED
    BY <1>1, <2>1, <2>2 DEF IInv, RowsFollowEvents
<1>4. SubdomainsComplete' /\ NamespacesFollow'
  BY <1>1 DEF IInv, SubdomainsComplete, HasRows, NamespacesFollow, Linear
<1>5. ASSUME NEW t \in Range(TxtOf[a.zonefile]), t.owner # NoOwner
      PROVE  \E r \in subdomains' : r.sub = t.sub /\ r.owner = t.owner /\ r.tx = a.tx
  <2>1. PICK k \in DOMAIN TxtOf[a.zonefile] : t = TxtOf[a.zonefile][k]
    BY DEF Range
  <2>2. k \in Owned(a.zonefile)
    BY <1>5, <2>1 DEF Owned
  <2>3. SubdomainRow(posts, a, k) \in subdomains'
    BY <1>1, <2>2
  <2>4. /\ SubdomainRow(posts, a, k).sub = t.sub
        /\ SubdomainRow(posts, a, k).owner = t.owner
        /\ SubdomainRow(posts, a, k).tx = a.tx
    BY <2>1 DEF SubdomainRow
  <2> QED
    BY <2>3, <2>4
<1>6. TaskShape'
  BY <1>1, <1>5 DEF IInv, TaskShape, HasRows
<1> QED
  BY <1>2, <1>3, <1>4, <1>6 DEF IInv

(* What resolving makes of a row.                                           *)
ResolvedRow(r, a) ==
  IF r.tx = a.tx /\ r.canonical THEN [r EXCEPT !.zonefile = a.zonefile, !.atch_resolved = TRUE] ELSE r

LEMMA ResolvedRowColumns ==
  ASSUME NEW r, IsNameRow(r), NEW a
  PROVE  /\ IsNameRow(ResolvedRow(r, a))
         /\ ResolvedRow(r, a).name = r.name /\ ResolvedRow(r, a).address = r.address
         /\ ResolvedRow(r, a).namespace_id = r.namespace_id
         /\ ResolvedRow(r, a).zonefile_hash = r.zonefile_hash /\ ResolvedRow(r, a).latest = r.latest
         /\ ResolvedRow(r, a).canonical = r.canonical /\ ResolvedRow(r, a).tx = r.tx
         /\ ResolvedRow(r, a).index_block_hash = r.index_block_hash /\ ResolvedRow(r, a).event = r.event
         /\ ResolvedRow(r, a) = r \/ (r.tx = a.tx /\ ResolvedRow(r, a).zonefile = a.zonefile)
<1>1. CASE r.tx = a.tx /\ r.canonical
  <2>1. ResolvedRow(r, a) =
          [id |-> r.id, event |-> r.event, name |-> r.name, namespace_id |-> r.namespace_id, address |-> r.address,
           zonefile_hash |-> r.zonefile_hash, zonefile |-> a.zonefile, atch_resolved |-> TRUE,
           latest |-> r.latest, canonical |-> r.canonical, tx |-> r.tx,
           index_block_hash |-> r.index_block_hash, at |-> r.at]
    BY <1>1 DEF ResolvedRow, IsNameRow
  <2>2. IsNameRow(ResolvedRow(r, a))
    BY <2>1 DEF IsNameRow
  <2>3. /\ ResolvedRow(r, a).zonefile = a.zonefile
        /\ ResolvedRow(r, a).name = r.name /\ ResolvedRow(r, a).address = r.address
        /\ ResolvedRow(r, a).namespace_id = r.namespace_id
        /\ ResolvedRow(r, a).zonefile_hash = r.zonefile_hash /\ ResolvedRow(r, a).latest = r.latest
        /\ ResolvedRow(r, a).canonical = r.canonical /\ ResolvedRow(r, a).tx = r.tx
        /\ ResolvedRow(r, a).index_block_hash = r.index_block_hash /\ ResolvedRow(r, a).event = r.event
    BY <2>1
  <2> QED
    BY <1>1, <2>2, <2>3
<1>2. CASE ~(r.tx = a.tx /\ r.canonical)
  BY <1>2 DEF ResolvedRow
<1> QED
  BY <1>1, <1>2

LEMMA ResolveNamesHolds ==
  ASSUME IInv, resolveBnsNames
  PROVE  IInv'
<1> DEFINE a == Head(todo)
<1>1. /\ known' = known /\ main' = main /\ namespaces' = namespaces /\ subdomains' = subdomains
      /\ todo # <<>> /\ todo' = Tail(todo) /\ isCanonical' = "unknown" /\ acked' = acked \cup {a}
      /\ isCanonical = "stored" \/ ~HasSubdomains(a)
      /\ names' = {ResolvedRow(r, a) : r \in names}
  BY DEF resolveBnsNames, chainVars, Resolve, ResolvedRow
<1>2. a \in Attachment /\ Tail(todo) \in Seq(Attachment)
  BY <1>1 DEF IInv, TaskShape
<1>3. SubdomainsComplete'
  <2>1. HasSubdomains(a) => HasRows(a)
    BY <1>1 DEF IInv, TaskShape
  <2>2. \A x : HasRows(x)' <=> HasRows(x)
    BY <1>1 DEF HasRows
  <2> HIDE DEF a
  <2> QED
    BY <1>1, <2>1, <2>2 DEF IInv, SubdomainsComplete
<1>4. TaskShape'
  BY <1>1, <1>2 DEF TaskShape
<1> HIDE DEF a
<1>5. ChainShape' /\ NamespacesFollow'
  BY <1>1 DEF IInv, ChainShape, NamespacesFollow, Linear
<1>6. ASSUME NEW r \in names
      PROVE  /\ IsNameRow(ResolvedRow(r, a))
             /\ ResolvedRow(r, a).name = r.name /\ ResolvedRow(r, a).address = r.address
             /\ ResolvedRow(r, a).namespace_id = r.namespace_id
             /\ ResolvedRow(r, a).zonefile_hash = r.zonefile_hash /\ ResolvedRow(r, a).latest = r.latest
             /\ ResolvedRow(r, a).canonical = r.canonical /\ ResolvedRow(r, a).tx = r.tx
             /\ ResolvedRow(r, a).index_block_hash = r.index_block_hash /\ ResolvedRow(r, a).event = r.event
             /\ ResolvedRow(r, a) = r \/ (r.tx = a.tx /\ ResolvedRow(r, a).zonefile = a.zonefile)
  <2>1. IsNameRow(r)
    BY DEF IInv, RowsFollowEvents
  <2> QED
    BY <2>1, ResolvedRowColumns
<1>7. ASSUME NEW r \in names, NEW b, NEW i PROVE RowOf(ResolvedRow(r, a), b, i) <=> RowOf(r, b, i)
  BY <1>6 DEF RowOf
<1>8. RowsFollowEvents'
  <2>1. ASSUME NEW q \in names' PROVE IsNameRow(q) /\ \E b \in known : \E i \in NameEvents(b) : RowOf(q, b, i)
    <3>1. PICK r \in names : q = ResolvedRow(r, a)
      BY <1>1
    <3>2. PICK b \in known : \E i \in NameEvents(b) : RowOf(r, b, i)
      BY DEF IInv, RowsFollowEvents
    <3>3. PICK i \in NameEvents(b) : RowOf(r, b, i)
      BY <3>2
    <3>4. RowOf(q, b, i)
      BY <1>7, <3>1, <3>3
    <3> QED
      BY <1>6, <3>1, <3>4
  <2>2. ASSUME NEW b \in known, NEW i \in NameEvents(b) PROVE \E q \in names' : RowOf(q, b, i)
    <3>1. PICK r \in names : RowOf(r, b, i)
      BY DEF IInv, RowsFollowEvents
    <3>2. ResolvedRow(r, a) \in names' /\ RowOf(ResolvedRow(r, a), b, i)
      BY <1>1, <1>7, <3>1
    <3> QED
      BY <3>2
  <2> QED
    BY <1>1, <2>1, <2>2 DEF IInv, RowsFollowEvents
<1>9. LatestInOrder'
  <2>1. SUFFICES ASSUME Linear, NEW q \in names'
                 PROVE  /\ q.canonical
                        /\ \A b \in main : \A i \in NameEvents(b) : RowOf(q, b, i) => (q.latest <=> LastOnChain(b, i))
    BY <1>1 DEF LatestInOrder, Linear, LastOnChain
  <2>2. PICK r \in names : q = ResolvedRow(r, a)
    BY <1>1
  <2>3. q.canonical = r.canonical /\ q.latest = r.latest /\ \A b, i : RowOf(q, b, i) <=> RowOf(r, b, i)
    BY <1>6, <1>7, <2>2
  <2>4. /\ r.canonical
        /\ \A b \in main : \A i \in NameEvents(b) : RowOf(r, b, i) => (r.latest <=> LastOnChain(b, i))
    BY <2>1 DEF IInv, LatestInOrder
  <2> QED
    BY <2>3, <2>4
<1>10. OneRowPerEvent'
  <2>1. SUFFICES ASSUME NEW q1 \in names', NEW q2 \in names', q1.event = q2.event,
                        q1.index_block_hash = q2.index_block_hash
                 PROVE  q1 = q2
    BY DEF OneRowPerEvent
  <2>2. PICK r1 \in names : q1 = ResolvedRow(r1, a)
    BY <1>1
  <2>3. PICK r2 \in names : q2 = ResolvedRow(r2, a)
    BY <1>1
  <2>4. r1.event = r2.event /\ r1.index_block_hash = r2.index_block_hash
    BY <1>6, <2>1, <2>2, <2>3
  <2> QED
    BY <2>2, <2>3, <2>4 DEF IInv, OneRowPerEvent
<1>11. OneLatest'
  <2>1. ASSUME NEW q1 \in names', NEW q2 \in names', q1.latest, q2.latest, q1.name = q2.name
        PROVE  q1 = q2
    <3>1. PICK r1 \in names : q1 = ResolvedRow(r1, a)
      BY <1>1
    <3>2. PICK r2 \in names : q2 = ResolvedRow(r2, a)
      BY <1>1
    <3>3. r1.latest /\ r2.latest /\ r1.name = r2.name
      BY <1>6, <2>1, <3>1, <3>2
    <3> QED
      BY <3>1, <3>2, <3>3 DEF IInv, OneLatest
  <2> QED
    BY <1>1, <2>1 DEF IInv, OneLatest
<1>12. ZonefileMatchesHash'
  <2>1. SUFFICES ASSUME NEW q \in names', q.atch_resolved, OneZonefile(q.tx) PROVE q.zonefile = q.zonefile_hash
    BY DEF ZonefileMatchesHash
  <2>2. PICK r \in names : q = ResolvedRow(r, a)
    BY <1>1
  <2>3. CASE q = r
    BY <2>1, <2>2, <2>3 DEF IInv, ZonefileMatchesHash
  <2>4. CASE r.tx = a.tx /\ q.zonefile = a.zonefile
    <3>1. PICK b \in known : \E i \in NameEvents(b) : RowOf(r, b, i)
      BY DEF IInv, RowsFollowEvents
    <3>2. PICK i \in NameEvents(b) : RowOf(r, b, i)
      BY <3>1
    <3>3. b \in Block
      BY <3>1 DEF IInv, ChainShape
    <3>4. EventsOf[b][i].tx = a.tx /\ r.zonefile_hash = EventsOf[b][i].zonefile
      BY <2>4, <3>2 DEF RowOf
    <3>5. r.zonefile_hash \in ZonefilesOf(a.tx) /\ a.zonefile \in ZonefilesOf(a.tx)
      BY <1>2, <3>2, <3>3, <3>4, ZonefilesFound
    <3>6. OneZonefile(a.tx)
      BY <1>6, <2>1, <2>2, <2>4
    <3>7. r.zonefile_hash = a.zonefile
      BY <3>5, <3>6 DEF OneZonefile
    <3> QED
      BY <1>6, <2>2, <2>4, <3>7
  <2> QED
    BY <1>6, <2>2, <2>3, <2>4
<1> QED
  BY <1>3, <1>4, <1>5, <1>8, <1>9, <1>10, <1>11, <1>12 DEF IInv

LEMMA InitHolds == Init => IInv
<1> SUFFICES ASSUME Init PROVE IInv
  OBVIOUS
<1>1. /\ known = {} /\ main = {} /\ names = {} /\ namespaces = {} /\ subdomains = {}
      /\ todo = <<>> /\ isCanonical = "unknown" /\ acked = {}
  BY DEF Init, Chain!Init
<1> QED
  BY <1>1 DEF IInv, ChainShape, RowsFollowEvents, NamespacesFollow, LatestInOrder, TaskShape, OneRowPerEvent, OneLatest,
     ZonefileMatchesHash, SubdomainsComplete

LEMMA StepHolds ==
  ASSUME IInv, [Next]_vars
  PROVE  IInv'
<1>1. ASSUME NEW b \in Block, UpdateCanonical(b) PROVE IInv'
  <2>1. Chain!Extend(b) /\ StoreEntities(b, TRUE) /\ UNCHANGED taskVars
    BY <1>1 DEF UpdateCanonical
  <2> QED
    BY <2>1, StoreHolds
<1>2. ASSUME NEW b \in Block, UpdateFork(b) PROVE IInv'
  <2>1. Chain!Fork(b) /\ StoreEntities(b, FALSE) /\ UNCHANGED taskVars
    BY <1>2 DEF UpdateFork
  <2> QED
    BY <2>1, StoreHolds
<1>3. ASSUME NEW m \in Message, StartAttachments(m) PROVE IInv'
  <2>1. UNCHANGED <<chainVars, tables, acked>> /\ todo' = m /\ isCanonical' = "unknown"
    BY <1>3 DEF StartAttachments
  <2>2. TaskShape'
    BY <2>1, BnsAssumption DEF TaskShape
  <2> QED
    BY <2>1, <2>2, TaskMoves
<1>4. CASE QueryCanonical
  <2>1. UNCHANGED <<chainVars, tables, acked>> /\ todo' = todo /\ isCanonical' \in {"yes", "row"}
    BY <1>4 DEF QueryCanonical
  <2>2. TaskShape'
    BY <2>1 DEF IInv, TaskShape
  <2> QED
    BY <2>1, <2>2, TaskMoves
<1>5. CASE resolveBnsSubdomains
  BY <1>5, ResolveSubdomainsHolds
<1>6. CASE resolveBnsNames
  BY <1>6, ResolveNamesHolds
<1>7. CASE Crash
  <2>1. UNCHANGED <<chainVars, tables, acked>> /\ todo' = <<>> /\ isCanonical' = "unknown"
    BY <1>7 DEF Crash
  <2>2. TaskShape'
    BY <2>1 DEF TaskShape
  <2> QED
    BY <2>1, <2>2, TaskMoves
<1>8. CASE UNCHANGED <<chainVars, tables, taskVars>>
  BY <1>8, NothingMoves DEF chainVars, tables, taskVars
<1>9. CASE \E n \in Name \cup Subdomain, hash \in Zonefile \cup {NoZonefile} : ReadZonefile(n, hash)
  BY <1>8, <1>9 DEF ReadZonefile
<1>10. CASE LookupSubdomain \/ AnswerZonefile \/ AnswerSubdomain \/ EndRequest
  BY <1>8, <1>10 DEF LookupSubdomain, AnswerZonefile, AnswerSubdomain, EndRequest
<1>11. CASE (\E s \in Subdomain, n \in Name : ReadSubdomain(s, n)) \/ \E n \in Namespace : ReadNamespace(n)
  BY <1>8, <1>11 DEF ReadSubdomain, ReadNamespace
<1>12. CASE UNCHANGED vars
  BY <1>8, <1>12 DEF vars
<1> QED
  BY <1>1, <1>2, <1>3, <1>4, <1>5, <1>6, <1>7, <1>9, <1>10, <1>11, <1>12 DEF Next

-----------------------------------------------------------------------------
(* What the chain says of a name it mentions: the highest block with an     *)
(* event of the name, and its last event there.                             *)
LEMMA LastEventExists ==
  ASSUME ChainShape, NEW n, NEW b0 \in main, n \in NamesIn(b0)
  PROVE  \E b \in main : \E i \in NameEvents(b) :
           /\ EventsOf[b][i].name = n /\ LastOnChain(b, i)
           /\ LastEvent(n) = EventsOf[b][i]
<1>1. main \subseteq Block
  BY DEF ChainShape
<1>2. PICK t \in main : Chain!IsBranch(main, t)
  BY DEF ChainShape
<1> DEFINE Top(b) == n \in NamesIn(b) /\ \A c \in main : n \in NamesIn(c) => Height[c] <= Height[b]
           levels == {k \in Nat : \E b \in main : n \in NamesIn(b) /\ Height[b] = k}
<1>3. \E b \in main : Top(b)
  <2>1. Height[t] \in Nat /\ \A k \in levels : k <= Height[t]
    BY <1>1, <1>2, Heights DEF Chain!IsBranch
  <2>2. Height[b0] \in levels
    BY <1>1, Heights
  <2>3. \E k \in levels : \A l \in levels : l <= k
    <3>1. levels \in SUBSET Nat /\ levels # {}
      BY <2>2
    <3> HIDE DEF levels
    <3> QED
      BY <2>1, <3>1, Largest
  <2>4. PICK k \in levels : \A l \in levels : l <= k
    BY <2>3
  <2>5. PICK b \in main : n \in NamesIn(b) /\ Height[b] = k
    BY <2>4
  <2>6. ASSUME NEW c \in main, n \in NamesIn(c) PROVE Height[c] <= Height[b]
    <3>1. Height[c] \in levels
      BY <1>1, <2>6, Heights
    <3> QED
      BY <2>4, <2>5, <3>1
  <2> QED
    BY <2>5, <2>6
<1> DEFINE top == CHOOSE b \in main : Top(b)
<1>4. top \in main /\ Top(top)
  BY <1>3
<1> HIDE DEF Top
<1> DEFINE IsLast(i) == EventsOf[top][i].name = n /\ LastOfItsName(NameEvents(top), top, i)
           at == {i \in NameEvents(top) : EventsOf[top][i].name = n}
<1>5. \E i \in NameEvents(top) : IsLast(i)
  <2>1. at \in SUBSET Nat /\ \A i \in at : i <= Len(EventsOf[top])
    BY <1>1, <1>4, Positions
  <2>2. at # {}
    BY <1>4 DEF Top, NamesIn
  <2>3. Len(EventsOf[top]) \in Nat
    BY <1>1, <1>4, Lengths
  <2>4. \E i \in at : \A j \in at : j <= i
    <3> HIDE DEF at
    <3> QED
      BY <2>1, <2>2, <2>3, Largest
  <2>5. PICK i \in at : \A j \in at : j <= i
    BY <2>4
  <2>6. ASSUME NEW j \in NameEvents(top), j > i PROVE EventsOf[top][j].name # EventsOf[top][i].name
    <3>1. j \notin at
      BY <2>1, <2>5, <2>6, Positions, <1>1, <1>4
    <3> QED
      BY <2>5, <3>1
  <2> QED
    BY <2>5, <2>6 DEF LastOfItsName
<1> DEFINE pos == CHOOSE i \in NameEvents(top) : IsLast(i)
<1>6. pos \in NameEvents(top) /\ IsLast(pos)
  BY <1>5
<1>7. LastEvent(n) = EventsOf[top][pos]
  BY DEF LastEvent, Top
<1> HIDE DEF top, pos
<1>8. LastOnChain(top, pos)
  <2>1. ASSUME NEW c \in main, Height[c] > Height[top] PROVE n \notin NamesIn(c)
    BY <1>1, <1>4, <2>1, Heights DEF Top
  <2> QED
    BY <1>6, <2>1 DEF LastOnChain
<1> QED
  BY <1>4, <1>6, <1>7, <1>8

(* Without forks a name that the chain mentions is found, with the columns  *)
(* of its last event, and no other name is.                                 *)
LEMMA MentionedName ==
  ASSUME IInv, Linear, NEW n, NEW b0 \in main, n \in NamesIn(b0)
  PROVE  /\ \E r \in names : r \in getName(n)
         /\ \A r \in getName(n) : /\ r.address = LastEvent(n).tx_sender
                                  /\ r.zonefile_hash = LastEvent(n).zonefile
                                  /\ r.namespace_id = LastEvent(n).namespace
<1>1. main = known /\ main \subseteq Block /\ ChainShape
  BY DEF Linear, IInv, ChainShape
<1>2. \A r \in names : \E b \in main : \E i \in NameEvents(b) : RowOf(r, b, i)
  BY <1>1 DEF IInv, RowsFollowEvents
<1>3. \A b \in main : \A i \in NameEvents(b) : \E r \in names : RowOf(r, b, i)
  BY <1>1 DEF IInv, RowsFollowEvents
<1>4. \A r \in names : r.canonical
        /\ \A b \in main : \A i \in NameEvents(b) : RowOf(r, b, i) => (r.latest <=> LastOnChain(b, i))
  BY DEF IInv, LatestInOrder
<1>5. getName(n) = {r \in names : r.canonical /\ r.latest /\ r.name = n}
  BY DEF getName, Current
<1>6. PICK top \in main : \E i \in NameEvents(top) :
        EventsOf[top][i].name = n /\ LastOnChain(top, i) /\ LastEvent(n) = EventsOf[top][i]
  BY <1>1, LastEventExists
<1>7. PICK pos \in NameEvents(top) :
        EventsOf[top][pos].name = n /\ LastOnChain(top, pos) /\ LastEvent(n) = EventsOf[top][pos]
  BY <1>6
<1>8. PICK last \in names : RowOf(last, top, pos)
  BY <1>3, <1>7
<1>9. last \in getName(n)
  <2>1. last.canonical /\ last.latest
    BY <1>4, <1>7, <1>8
  <2>2. last.name = n
    BY <1>7, <1>8 DEF RowOf
  <2> QED
    BY <1>5, <2>1, <2>2
<1>10. ASSUME NEW r \in getName(n) PROVE RowOf(r, top, pos)
  <2>1. r \in names /\ r.latest /\ r.name = n
    BY <1>5
  <2>2. PICK b \in main : \E i \in NameEvents(b) : RowOf(r, b, i)
    BY <1>2, <2>1
  <2>3. PICK i \in NameEvents(b) : RowOf(r, b, i)
    BY <2>2
  <2>4. LastOnChain(b, i)
    BY <1>4, <2>1, <2>3
  <2>5. EventsOf[b][i].name = n
    BY <2>1, <2>3 DEF RowOf
  <2>6. n \in NamesIn(b) /\ n \in NamesIn(top)
    BY <1>7, <2>3, <2>5 DEF NamesIn
  <2>7. ~(Height[top] > Height[b]) /\ ~(Height[b] > Height[top])
    BY <1>7, <2>4, <2>5, <2>6 DEF LastOnChain
  <2>8. b = top
    BY <1>1, <2>7, Heights, OnePerHeight
  <2>9. i = pos
    BY <1>1, <1>7, <2>3, <2>4, <2>5, <2>8, OneLast DEF LastOnChain
  <2> QED
    BY <2>3, <2>8, <2>9
<1>11. ASSUME NEW r \in getName(n)
       PROVE  /\ r.address = LastEvent(n).tx_sender
              /\ r.zonefile_hash = LastEvent(n).zonefile
              /\ r.namespace_id = LastEvent(n).namespace
  BY <1>7, <1>10 DEF RowOf
<1> QED
  BY <1>8, <1>9, <1>11

LEMMA FoundIsMentioned ==
  ASSUME IInv, Linear, NEW n, NEW r \in getName(n)
  PROVE  \E b \in main : n \in NamesIn(b)
<1>1. r \in names /\ r.name = n
  BY DEF getName, Current
<1>2. PICK b \in main : \E i \in NameEvents(b) : RowOf(r, b, i)
  BY <1>1 DEF IInv, RowsFollowEvents, Linear
<1>3. n \in NamesIn(b)
  BY <1>1, <1>2 DEF RowOf, NamesIn
<1> QED
  BY <1>3

LEMMA GetNameExact == IInv => LinearChainExact
<1> SUFFICES ASSUME IInv, Linear, NEW n \in Name
             PROVE  {<<r.address, r.zonefile_hash>> : r \in getName(n)}
                      = IF \E b \in main : n \in NamesIn(b)
                        THEN {<<LastEvent(n).tx_sender, LastEvent(n).zonefile>>} ELSE {}
  BY DEF LinearChainExact
<1>1. CASE ~\E b \in main : n \in NamesIn(b)
  <2>1. getName(n) = {}
    BY <1>1, FoundIsMentioned
  <2> QED
    BY <1>1, <2>1
<1>2. CASE \E b \in main : n \in NamesIn(b)
  <2>1. PICK last \in names : last \in getName(n)
    BY <1>2, MentionedName
  <2>2. \A r \in getName(n) : r.address = LastEvent(n).tx_sender /\ r.zonefile_hash = LastEvent(n).zonefile
    BY <1>2, MentionedName
  <2>3. {<<r.address, r.zonefile_hash>> : r \in getName(n)} = {<<LastEvent(n).tx_sender, LastEvent(n).zonefile>>}
    BY <2>1, <2>2
  <2> QED
    BY <1>2, <2>3
<1> QED
  BY <1>1, <1>2

(* The lists: the names of an address, those of a namespace, and the        *)
(* namespaces.                                                              *)
LEMMA ListsExact == IInv => LinearListsExact
<1> SUFFICES ASSUME IInv, Linear PROVE LinearListsExact
  BY DEF LinearListsExact
<1> DEFINE mentioned == UNION {NamesIn(b) : b \in main}
           last == [n \in mentioned |-> LastEvent(n)]
<1>1. main = known /\ main \subseteq Block
  BY DEF Linear, IInv, ChainShape
<1>2. mentioned \subseteq Name
  BY <1>1 DEF Name
<1>3. \A n \in mentioned : last[n] = LastEvent(n)
  OBVIOUS
<1>4. ASSUME NEW n \in mentioned
      PROVE  /\ \E r \in names : r \in getName(n)
             /\ \A r \in getName(n) : r.address = LastEvent(n).tx_sender /\ r.namespace_id = LastEvent(n).namespace
  <2>1. PICK b \in main : n \in NamesIn(b)
    OBVIOUS
  <2> QED
    BY <2>1, MentionedName
<1>5. ASSUME NEW r \in Current(names) PROVE r \in getName(r.name) /\ r.name \in mentioned
  <2>1. r \in getName(r.name)
    BY DEF getName
  <2>2. \E b \in main : r.name \in NamesIn(b)
    <3> DEFINE n == r.name
    <3>1. r \in getName(n)
      BY <2>1
    <3> HIDE DEF n
    <3>2. \E b \in main : n \in NamesIn(b)
      BY <3>1, FoundIsMentioned
    <3> QED
      BY <3>2 DEF n
  <2> QED
    BY <2>1, <2>2
<1>6. \A n : \A r \in getName(n) : r \in Current(names) /\ r.name = n
  BY DEF getName
<1> HIDE DEF mentioned, last
<1>7. ASSUME NEW a \in Sender
      PROVE  getNamesByAddressList(a) \cap Name = {n \in mentioned : last[n].tx_sender = a}
  <2>1. ASSUME NEW n \in getNamesByAddressList(a), n \in Name PROVE n \in mentioned /\ last[n].tx_sender = a
    <3>1. ASSUME NEW r \in subdomains, r.sub = n PROVE FALSE
      <4>1. n \in Subdomain
        BY <3>1 DEF IInv, RowsFollowEvents
      <4> QED
        BY <2>1, <4>1, BnsAssumption
    <3>2. PICK r \in Current(names) : r.address = a /\ r.name = n
      BY <3>1 DEF getNamesByAddressList, Current
    <3>3. r \in getName(n) /\ n \in mentioned
      BY <1>5, <3>2
    <3> QED
      BY <1>3, <1>4, <3>2, <3>3
  <2>2. ASSUME NEW n \in mentioned, last[n].tx_sender = a PROVE n \in getNamesByAddressList(a)
    <3>1. PICK r \in names : r \in getName(n)
      BY <1>4
    <3>2. r \in Current(names) /\ r.name = n /\ r.address = a
      BY <1>3, <1>4, <1>6, <2>2, <3>1
    <3> QED
      BY <3>2 DEF getNamesByAddressList
  <2> QED
    BY <1>2, <2>1, <2>2
<1>8. ASSUME NEW ns \in Namespace
      PROVE  getNamespaceNamesList(ns) = {n \in mentioned : last[n].namespace = ns}
  <2>1. ASSUME NEW n \in getNamespaceNamesList(ns) PROVE n \in mentioned /\ last[n].namespace = ns
    <3>1. PICK r \in Current(names) : r.namespace_id = ns /\ r.name = n
      BY DEF getNamespaceNamesList
    <3>2. r \in getName(n) /\ n \in mentioned
      BY <1>5, <3>1
    <3> QED
      BY <1>3, <1>4, <3>1, <3>2
  <2>2. ASSUME NEW n \in mentioned, last[n].namespace = ns PROVE n \in getNamespaceNamesList(ns)
    <3>1. PICK r \in names : r \in getName(n)
      BY <1>4
    <3>2. r \in Current(names) /\ r.name = n /\ r.namespace_id = ns
      BY <1>3, <1>4, <1>6, <2>2, <3>1
    <3> QED
      BY <3>2 DEF getNamespaceNamesList
  <2> QED
    BY <2>1, <2>2
<1>9. getNamespaceList = UNION {{EventsOf[b][i].name : i \in NamespaceEvents(b)} : b \in main}
  <2>1. ASSUME NEW n \in getNamespaceList PROVE \E b \in main : n \in NamespacesIn(b)
    BY <1>1 DEF getNamespaceList, Current, IInv, NamespacesFollow
  <2>2. ASSUME NEW b \in main, NEW n \in NamespacesIn(b) PROVE n \in getNamespaceList
    BY <1>1 DEF getNamespaceList, Current, IInv, NamespacesFollow
  <2>3. getNamespaceList = UNION {NamespacesIn(b) : b \in main}
    BY <2>1, <2>2
  <2> QED
    BY <2>3 DEF NamespacesIn
<1> QED
  BY <1>7, <1>8, <1>9 DEF LinearListsExact, mentioned, last

-----------------------------------------------------------------------------
(* The request.  Without forks, a step takes away no name and no subdomain  *)
(* that a query has found.                                                  *)
NamesListed == \A n : (\E r \in names : r \in getName(n)) <=> \E b \in main : n \in NamesIn(b)

LEMMA ListedNames == IInv /\ Linear => NamesListed
<1> SUFFICES ASSUME IInv, Linear PROVE NamesListed
  OBVIOUS
<1> QED
  BY MentionedName, FoundIsMentioned DEF NamesListed

LEMMA ListedNamesNext == IInv' /\ Linear' => NamesListed'
BY ListedNames, PTL

LEMMA StoreKeepsFound ==
  ASSUME IInv, NEW b \in Block, NEW flag, StoreEntities(b, flag), Chain!Fork(b) \/ Chain!Extend(b), known' = main'
  PROVE  /\ Linear /\ main \subseteq main'
         /\ \A r \in subdomains : r.canonical =>
              \E q \in subdomains' : q.sub = r.sub /\ q.latest = r.latest /\ q.canonical
<1>1. known' = known \cup {b}
  BY DEF Chain!Fork, Chain!Extend
<1>2. ChainShape /\ RowsFollowEvents
  BY DEF IInv
<1>3. CASE b \in known
  <2>1. ~Chain!Extend(b)
    BY <1>3, Heights DEF Chain!Extend
  <2>2. known' = known /\ main' = main
    BY <1>1, <1>3, <2>1 DEF Chain!Fork
  <2>3. subdomains' = subdomains
    BY <1>3 DEF StoreEntities, tables
  <2> QED
    BY <2>2, <2>3 DEF Linear
<1>4. CASE b \notin known
  <2>1. Linear /\ main' = main \cup {b}
    BY <1>2, <1>4, LinearGrowth
  <2>2. subdomains' = Reflag(subdomains, main \ main', main' \ main)
    BY <1>4 DEF StoreEntities
  <2>3. main \ main' = {}
    BY <2>1
  <2>4. \A r \in subdomains : \E q \in subdomains' :
          /\ q.sub = r.sub /\ q.latest = r.latest
          /\ main \ main' = {} /\ r.canonical => q.canonical
    BY <1>2, <2>2, ReorgKeepsSubdomains
  <2> QED
    BY <2>1, <2>3, <2>4
<1> QED
  BY <1>3, <1>4

LEMMA FoundKept ==
  ASSUME IInv, [Next]_vars, Linear'
  PROVE  /\ Linear
         /\ \A n : getName(n) # {} => getName(n)' # {}
         /\ \A n : getSubdomain(n) # {} => getSubdomain(n)' # {}
<1>0. known' = main'
  BY DEF Linear
<1> DEFINE Kept == /\ Linear /\ main \subseteq main'
                   /\ \A r \in subdomains : r.canonical =>
                        \E q \in subdomains' : q.sub = r.sub /\ q.latest = r.latest /\ q.canonical
<1>1. Kept
  <2>1. ASSUME NEW b \in Block, UpdateCanonical(b) \/ UpdateFork(b) PROVE Kept
    <3>1. PICK flag \in BOOLEAN : StoreEntities(b, flag) /\ (Chain!Fork(b) \/ Chain!Extend(b))
      BY <2>1 DEF UpdateCanonical, UpdateFork
    <3> QED
      BY <1>0, <3>1, StoreKeepsFound
  <2>2. ASSUME UNCHANGED chainVars, subdomains \subseteq subdomains' PROVE Kept
    BY <1>0, <2>2 DEF chainVars, Linear
  <2>3. CASE resolveBnsSubdomains
    BY <2>2, <2>3 DEF resolveBnsSubdomains
  <2>4. CASE resolveBnsNames
    BY <2>2, <2>4 DEF resolveBnsNames
  <2>5. CASE UNCHANGED <<chainVars, tables>>
    BY <2>2, <2>5 DEF tables
  <2>6. CASE (\E m \in Message : StartAttachments(m)) \/ QueryCanonical \/ Crash
    BY <2>5, <2>6 DEF StartAttachments, QueryCanonical, Crash
  <2>7. CASE \E n \in Name \cup Subdomain, hash \in Zonefile \cup {NoZonefile} : ReadZonefile(n, hash)
    BY <2>5, <2>7 DEF ReadZonefile
  <2>8. CASE LookupSubdomain \/ AnswerZonefile \/ AnswerSubdomain \/ EndRequest
    BY <2>5, <2>8 DEF LookupSubdomain, AnswerZonefile, AnswerSubdomain, EndRequest
  <2>9. CASE (\E s \in Subdomain, n \in Name : ReadSubdomain(s, n)) \/ \E n \in Namespace : ReadNamespace(n)
    BY <2>5, <2>9 DEF ReadSubdomain, ReadNamespace
  <2>10. CASE UNCHANGED vars
    BY <2>5, <2>10 DEF vars
  <2> QED
    BY <2>1, <2>3, <2>4, <2>6, <2>7, <2>8, <2>9, <2>10 DEF Next
<1>2. NamesListed /\ NamesListed'
  BY <1>1, StepHolds, ListedNames, ListedNamesNext
<1>3. ASSUME NEW n, getName(n) # {} PROVE getName(n)' # {}
  <2>1. \E r \in names : r \in getName(n)
    BY <1>3 DEF getName, Current
  <2>2. PICK b \in main : n \in NamesIn(b)
    BY <1>2, <2>1 DEF NamesListed
  <2>3. \E r \in names' : r \in getName(n)'
    BY <1>1, <1>2, <2>2 DEF NamesListed
  <2> QED
    BY <2>3
<1>4. ASSUME NEW n, getSubdomain(n) # {} PROVE getSubdomain(n)' # {}
  <2>1. PICK r \in subdomains : r.canonical /\ r.latest /\ r.sub = n
    BY <1>4 DEF getSubdomain, Current
  <2>2. PICK q \in subdomains' : q.sub = n /\ q.latest /\ q.canonical
    BY <1>1, <2>1
  <2> QED
    BY <2>2 DEF getSubdomain, Current
<1> QED
  BY <1>1, <1>3, <1>4

(* The request does not move, or it ends.                                   *)
LEMMA RequestWaits ==
  ASSUME IInv, RequestIInv, [Next]_vars, request' = request
  PROVE  RequestIInv'
<1>1. RequestShape'
  BY DEF RequestIInv, RequestShape, IsZonefileRequest, IsSubdomainRequest, IsNamespaceRequest
<1>2. FoundStays'
  <2> DEFINE n == request.name
  <2>1. SUFFICES ASSUME Linear', request.route = "zonefile"
                 PROVE  /\ request.found = "name" => getName(n)' # {}
                        /\ request.found = "subdomain" => getSubdomain(n)' # {}
    BY DEF FoundStays, getName, getSubdomain
  <2>2. /\ Linear
        /\ \A m : getName(m) # {} => getName(m)' # {}
        /\ \A m : getSubdomain(m) # {} => getSubdomain(m)' # {}
    BY <2>1, FoundKept
  <2>3. /\ request.found = "name" => getName(n) # {}
        /\ request.found = "subdomain" => getSubdomain(n) # {}
    BY <2>1, <2>2 DEF RequestIInv, FoundStays
  <2> QED
    BY <2>2, <2>3 DEF getName, getSubdomain
<1>3. FoundNameHasZonefile'
  <2>1. SUFFICES ASSUME Linear', request.route = "zonefile", request.hash = NoZonefile
                 PROVE  request.status # 404
    BY DEF FoundNameHasZonefile
  <2>2. Linear
    BY <2>1, FoundKept
  <2> QED
    BY <2>1, <2>2 DEF RequestIInv, FoundNameHasZonefile
<1> QED
  BY <1>1, <1>2, <1>3 DEF RequestIInv

(* A request that is not for a zone file.                                   *)
LEMMA OtherRequest ==
  ASSUME RequestShape', request.route' # "zonefile"
  PROVE  RequestIInv'
BY DEF RequestIInv, FoundStays, FoundNameHasZonefile

LEMMA ReadZonefileHolds ==
  ASSUME NEW n, NEW hash, ReadZonefile(n, hash)
  PROVE  RequestIInv'
<1> DEFINE found == IF getName(n) # {} THEN "name" ELSE "unknown"
<1>1. request' = [route |-> "zonefile", name |-> n, hash |-> hash, found |-> found, status |-> 0]
  BY DEF ReadZonefile
<1>2. UNCHANGED tables
  BY DEF ReadZonefile
<1>3. found \in {"name", "unknown"} /\ (found = "name" => getName(n) # {})
  OBVIOUS
<1> HIDE DEF found
<1>4. /\ request'.route = "zonefile" /\ request'.name = n /\ request'.hash = hash
      /\ request'.found = found /\ request'.status = 0
  BY <1>1
<1>5. RequestShape'
  BY <1>1, <1>3, <1>4 DEF RequestShape, IsZonefileRequest
<1>6. FoundStays'
  <2>1. getName(n)' = getName(n)
    BY <1>2 DEF tables, getName, Current
  <2> QED
    BY <1>3, <1>4, <2>1 DEF FoundStays, getName, Current
<1>7. FoundNameHasZonefile'
  BY <1>4 DEF FoundNameHasZonefile
<1> QED
  BY <1>5, <1>6, <1>7 DEF RequestIInv

LEMMA LookupSubdomainHolds ==
  ASSUME RequestIInv, LookupSubdomain
  PROVE  RequestIInv'
<1> DEFINE found == IF getSubdomain(request.name) # {} THEN "subdomain" ELSE "none"
<1>1. request.route = "zonefile" /\ request' = [request EXCEPT !.found = found] /\ UNCHANGED <<chainVars, tables>>
  BY DEF LookupSubdomain
<1>2. IsZonefileRequest
  BY <1>1 DEF RequestIInv, RequestShape, NoRequest, IsSubdomainRequest, IsNamespaceRequest
<1>3. found \in {"subdomain", "none"} /\ (found = "subdomain" => getSubdomain(request.name) # {})
  OBVIOUS
<1> HIDE DEF found
<1>4. request' = [route |-> "zonefile", name |-> request.name, hash |-> request.hash,
                  found |-> found, status |-> request.status]
  BY <1>1, <1>2 DEF IsZonefileRequest
<1>5. /\ request'.route = "zonefile" /\ request'.name = request.name /\ request'.hash = request.hash
      /\ request'.found = found /\ request'.status = request.status
  BY <1>4
<1>6. RequestShape'
  BY <1>3, <1>4, <1>5 DEF RequestShape, IsZonefileRequest
<1>7. FoundStays'
  BY <1>1, <1>3, <1>5 DEF FoundStays, tables, getSubdomain, Current
<1>8. FoundNameHasZonefile'
  BY <1>1, <1>5 DEF RequestIInv, FoundNameHasZonefile, chainVars, Linear
<1> QED
  BY <1>6, <1>7, <1>8 DEF RequestIInv

LEMMA AnswerZonefileHolds ==
  ASSUME RequestIInv, AnswerZonefile
  PROVE  RequestIInv'
<1> DEFINE zonefiles == IF request.hash = NoZonefile THEN getLatestZoneFile(request.name)
                        ELSE getHistoricalZoneFile(request.name, request.hash)
           status == IF request.found = "none" THEN 400 ELSE IF zonefiles = {} THEN 404 ELSE 200
<1>1. /\ request.route = "zonefile" /\ request.found # "unknown" /\ UNCHANGED <<chainVars, tables>>
      /\ request' = [request EXCEPT !.status = status]
  BY DEF AnswerZonefile
<1>2. IsZonefileRequest
  BY <1>1 DEF RequestIInv, RequestShape, NoRequest, IsSubdomainRequest, IsNamespaceRequest
<1>3. ASSUME Linear, request.hash = NoZonefile PROVE status # 404
  <2>1. CASE request.found = "none"
    BY <2>1
  <2>2. CASE request.found # "none"
    <3>1. request.found \in {"name", "subdomain"}
      BY <1>1, <1>2, <2>2 DEF IsZonefileRequest
    <3>2. getName(request.name) \cup getSubdomain(request.name) # {}
      BY <1>1, <1>3, <3>1 DEF RequestIInv, FoundStays
    <3>3. getLatestZoneFile(request.name) # {}
      BY <3>2 DEF getLatestZoneFile
    <3>4. zonefiles # {}
      BY <1>3, <3>3
    <3> QED
      BY <2>2, <3>4
  <2> QED
    BY <2>1, <2>2
<1> HIDE DEF status
<1>4. request' = [route |-> "zonefile", name |-> request.name, hash |-> request.hash,
                  found |-> request.found, status |-> status]
  BY <1>1, <1>2 DEF IsZonefileRequest
<1>5. /\ request'.route = "zonefile" /\ request'.name = request.name /\ request'.hash = request.hash
      /\ request'.found = request.found /\ request'.status = status
  BY <1>4
<1>6. RequestShape'
  BY <1>2, <1>4, <1>5 DEF RequestShape, IsZonefileRequest
<1>7. FoundStays'
  BY <1>1, <1>5 DEF RequestIInv, FoundStays, chainVars, Linear, tables, getName, getSubdomain, Current
<1>8. FoundNameHasZonefile'
  BY <1>1, <1>3, <1>5 DEF FoundNameHasZonefile, chainVars, Linear
<1> QED
  BY <1>6, <1>7, <1>8 DEF RequestIInv

LEMMA ReadOthersHolds ==
  ASSUME \/ \E s \in Subdomain, n \in Name : ReadSubdomain(s, n)
         \/ \E n \in Namespace : ReadNamespace(n)
         \/ EndRequest
  PROVE  RequestIInv'
<1>1. ASSUME NEW s, NEW n, ReadSubdomain(s, n) PROVE RequestIInv'
  <2> DEFINE status == IF getSubdomain(s) # {} THEN 200 ELSE 0
  <2>1. request' = [route |-> "subdomain", name |-> n, sub |-> s, status |-> status]
    BY <1>1 DEF ReadSubdomain
  <2> HIDE DEF status
  <2>2. RequestShape' /\ request'.route # "zonefile"
    BY <2>1 DEF RequestShape, IsSubdomainRequest
  <2> QED
    BY <2>2, OtherRequest
<1>2. ASSUME NEW n, ReadNamespace(n) PROVE RequestIInv'
  <2> DEFINE status == IF getNamespace(n) = {} THEN 404 ELSE 200
  <2>1. request' = [route |-> "namespace", name |-> n, status |-> status]
    BY <1>2 DEF ReadNamespace
  <2> HIDE DEF status
  <2>2. RequestShape' /\ request'.route # "zonefile"
    BY <2>1 DEF RequestShape, IsNamespaceRequest
  <2> QED
    BY <2>2, OtherRequest
<1>3. CASE EndRequest
  <2>1. request' = NoRequest
    BY <1>3 DEF EndRequest
  <2>2. RequestShape' /\ request'.route # "zonefile"
    BY <2>1 DEF RequestShape, NoRequest
  <2> QED
    BY <2>2, OtherRequest
<1> QED
  BY <1>1, <1>2, <1>3

LEMMA AnswerSubdomainHolds ==
  ASSUME RequestIInv, AnswerSubdomain
  PROVE  RequestIInv'
<1>1. PICK status : request.route = "subdomain" /\ request' = [request EXCEPT !.status = status]
  BY DEF AnswerSubdomain
<1>2. IsSubdomainRequest
  BY <1>1 DEF RequestIInv, RequestShape, NoRequest, IsZonefileRequest, IsNamespaceRequest
<1>3. request' = [route |-> "subdomain", name |-> request.name, sub |-> request.sub, status |-> status]
  BY <1>1, <1>2 DEF IsSubdomainRequest
<1>4. RequestShape' /\ request'.route # "zonefile"
  BY <1>3 DEF RequestShape, IsSubdomainRequest
<1> QED
  BY <1>4, OtherRequest

LEMMA RequestStepHolds ==
  ASSUME IInv, RequestIInv, [Next]_vars
  PROVE  RequestIInv'
<1>1. CASE request' = request
  BY <1>1, RequestWaits
<1>2. ASSUME NEW b \in Block, UpdateCanonical(b) \/ UpdateFork(b) PROVE request' = request
  BY <1>2 DEF UpdateCanonical, UpdateFork, readVars
<1>3. CASE (\E m \in Message : StartAttachments(m)) \/ QueryCanonical \/ resolveBnsSubdomains
           \/ resolveBnsNames \/ Crash
  BY <1>1, <1>3 DEF StartAttachments, QueryCanonical, resolveBnsSubdomains, resolveBnsNames, Crash, readVars
<1>4. CASE \E n \in Name \cup Subdomain, hash \in Zonefile \cup {NoZonefile} : ReadZonefile(n, hash)
  BY <1>4, ReadZonefileHolds
<1>5. CASE LookupSubdomain
  BY <1>5, LookupSubdomainHolds
<1>6. CASE AnswerZonefile
  BY <1>6, AnswerZonefileHolds
<1>7. CASE AnswerSubdomain
  BY <1>7, AnswerSubdomainHolds
<1>8. CASE \/ \E s \in Subdomain, n \in Name : ReadSubdomain(s, n)
           \/ \E n \in Namespace : ReadNamespace(n)
           \/ EndRequest
  BY <1>8, ReadOthersHolds
<1>9. CASE UNCHANGED vars
  BY <1>1, <1>9 DEF vars, readVars
<1> QED
  BY <1>1, <1>2, <1>3, <1>4, <1>5, <1>6, <1>7, <1>8, <1>9 DEF Next

-----------------------------------------------------------------------------
(* IInv holds in every reachable state of the name tables.                  *)
THEOREM Invariant == Spec => []IInv
BY InitHolds, StepHolds, PTL DEF Spec

(* A row that an attachment resolved holds the zone file of its hash,       *)
(* whatever forks, repeated messages and crashes came in between            *)
(* (resolveBnsNames finds the rows by their transaction).                   *)
THEOREM ZonefilesMatch == Spec => []ZonefileMatchesHash
<1>1. IInv => ZonefileMatchesHash
  BY DEF IInv
<1> QED
  BY <1>1, Invariant, PTL

(* Without forks getName answers with the last event of the chain, on a     *)
(* chain of any length and for any events in its blocks (updateNames).      *)
THEOREM LinearExact == Spec => []LinearChainExact
BY GetNameExact, Invariant, PTL

(* A name, and a namespace, has at most one row flagged latest: rows[0] of  *)
(* getName is not a matter of chance.                                       *)
THEOREM LatestUnique == Spec => []OneLatest
<1>1. IInv => OneLatest
  BY DEF IInv
<1> QED
  BY <1>1, Invariant, PTL

(* A repeated block message adds no second row for a name event (update     *)
(* inserts entities for blocks that are new only).                          *)
THEOREM RowsUnique == Spec => []OneRowPerEvent
<1>1. IInv => OneRowPerEvent
  BY DEF IInv
<1> QED
  BY <1>1, Invariant, PTL

(* An acknowledged attachment's subdomains all have rows, although they and *)
(* the names are stored in transactions of their own and the process may    *)
(* stop between them.                                                       *)
THEOREM AckedSubdomains == Spec => []SubdomainsComplete
<1>1. IInv => SubdomainsComplete
  BY DEF IInv
<1> QED
  BY <1>1, Invariant, PTL

(* Without forks the lists by address, by namespace and of the namespaces   *)
(* agree with the chain, for any events in its blocks and any subdomains    *)
(* stored besides (getNamesByAddressList, getNamespaceNamesList,            *)
(* getNamespaceList).                                                       *)
THEOREM LinearLists == Spec => []LinearListsExact
BY ListsExact, Invariant, PTL

(* Without forks a name or a subdomain that the zone file route has found   *)
(* in its first query has a zone file in its last, whatever blocks and      *)
(* attachments are stored between the two (routes/bns/names.ts).            *)
THEOREM FoundIsServed == Spec => []FoundNameHasZonefile
<1>1. Init => RequestIInv
  BY DEF Init, RequestIInv, RequestShape, FoundStays, FoundNameHasZonefile, NoRequest
<1>2. RequestIInv => FoundNameHasZonefile
  BY DEF RequestIInv
<1> QED
  BY <1>1, <1>2, RequestStepHolds, Invariant, PTL DEF Spec

-----------------------------------------------------------------------------
(* The in-memory store.                                                     *)
CONSTANTS MemoryBlock, MemoryParent, MemoryHeight, TxsOf, KindsOf, MemoryTx, MaxUpdates
VARIABLES blocks, txs, events, contracts, mempool, job, announced, updates

Memory ==
  INSTANCE MemoryStore WITH
    Block <- MemoryBlock, Parent <- MemoryParent, Height <- MemoryHeight, Tx <- MemoryTx

(* A step that stores no block and no row keeps what IInv says of both.     *)
LEMMA MemoryRowsKept ==
  ASSUME Memory!IInv, UNCHANGED <<blocks, txs, events, contracts>>
  PROVE  Memory!RowsStored' /\ Memory!OnePerHeight' /\ Memory!RowsFollowBlocks'
BY DEF Memory!IInv, Memory!RowsStored, Memory!IsRow, Memory!OnePerHeight, Memory!RowsFollowBlocks

(* An update that has stored its block has a job with a canonical block,    *)
(* and goes on with that block.                                             *)
LEMMA MemoryJobGoesOn ==
  ASSUME Memory!JobStored, NEW kind, kind # "block", Memory!Step(kind), Memory!Done(Tail(job.todo)), blocks' = blocks
  PROVE  job.block \in DOMAIN blocks /\ blocks[job.block] /\ Memory!JobStored'
<1>1. job # Memory!NoJob
  BY DEF Memory!NoJob, Memory!Step
<1>2. job = [block |-> job.block, todo |-> job.todo] /\ job.block \in MemoryBlock
  BY <1>1 DEF Memory!JobStored
<1>3. job.todo # <<Memory!StepOf("block", Memory!None)>>
  BY DEF Memory!Step, Memory!StepOf
<1>4. job.block \in DOMAIN blocks /\ blocks[job.block]
  BY <1>1, <1>3 DEF Memory!JobStored
<1>5. job' = [block |-> job.block, todo |-> Tail(job.todo)]
  BY <1>2 DEF Memory!Done
<1> QED BY <1>2, <1>4, <1>5 DEF Memory!JobStored

LEMMA MemoryInit == Memory!Init => Memory!IInv
BY DEF Memory!Init, Memory!Empty, Memory!IInv, Memory!RowsStored, Memory!JobStored, Memory!OnePerHeight,
       Memory!RowsFollowBlocks

(* A fork demotes what lies as high as the new block or higher, blocks and  *)
(* rows by one rule.                                                        *)
LEMMA MemoryUpdateBlock ==
  ASSUME Memory!MemoryAssumption, Memory!IInv, Memory!updateBlock
  PROVE  Memory!IInv'
<1> DEFINE b == job.block
           h == MemoryHeight[b]
<1>1. job # Memory!NoJob
  BY DEF Memory!NoJob, Memory!updateBlock, Memory!Step
<1>2. job = [block |-> b, todo |-> job.todo] /\ b \in MemoryBlock
  BY <1>1 DEF Memory!JobStored, Memory!IInv
<1>3. \A c \in MemoryBlock : MemoryHeight[c] \in Nat
  BY DEF Memory!MemoryAssumption
<1>4. job' = [block |-> b, todo |-> Memory!Rows(b) \o <<Memory!StepOf("emit", Memory!None)>>]
  BY <1>2 DEF Memory!updateBlock, Memory!Done
<1>5. blocks \in [DOMAIN blocks -> BOOLEAN] /\ DOMAIN blocks \subseteq MemoryBlock
  BY DEF Memory!IInv, Memory!RowsStored
<1>6. CASE Memory!ReorgDetected(b)
  <2>1. /\ blocks' = Memory!Put(Memory!DemoteBlocks(h), b, TRUE)
        /\ txs' = Memory!DemoteRows(txs, h) /\ events' = Memory!DemoteEvents(h)
        /\ contracts' = Memory!DemoteRows(contracts, h)
    BY <1>6 DEF Memory!updateBlock
  <2>2. DOMAIN Memory!DemoteBlocks(h) = DOMAIN blocks
    BY DEF Memory!DemoteBlocks
  <2>3. DOMAIN blocks' = DOMAIN blocks \cup {b} /\ blocks'[b] = TRUE
    BY <2>1, <2>2 DEF Memory!Put
  <2>4. \A c \in DOMAIN blocks : c # b => (blocks'[c] <=> blocks[c] /\ ~(MemoryHeight[c] >= h))
    BY <2>1, <2>2 DEF Memory!Put, Memory!DemoteBlocks, Memory!Demoted
  <2>5. blocks' = [c \in DOMAIN blocks' |-> blocks'[c]]
    BY <2>1 DEF Memory!Put
  <2>6. \A c \in DOMAIN blocks' : blocks'[c] \in BOOLEAN
    BY <2>1, <2>2, <2>3 DEF Memory!Put, Memory!DemoteBlocks
  <2>7. blocks' \in [DOMAIN blocks' -> BOOLEAN]
    BY <2>5, <2>6
  <2>8. ASSUME NEW rows, NEW new, new = Memory!DemoteRows(rows, h), \A t \in DOMAIN rows : Memory!IsRow(rows[t]),
               \A t \in DOMAIN rows : rows[t].canonical => blocks[rows[t].block]
        PROVE  /\ \A t \in DOMAIN new : new[t] = [block |-> new[t].block, canonical |-> new[t].canonical]
                                        /\ new[t].block \in DOMAIN blocks'
               /\ \A t \in DOMAIN new : new[t].canonical => blocks'[new[t].block]
    <3>1. DOMAIN new = DOMAIN rows
      BY <2>8 DEF Memory!DemoteRows
    <3>2. SUFFICES ASSUME NEW t \in DOMAIN rows
                   PROVE  /\ new[t] = [block |-> new[t].block, canonical |-> new[t].canonical]
                          /\ new[t].block \in DOMAIN blocks'
                          /\ new[t].canonical => blocks'[new[t].block]
      BY <3>1
    <3>3. rows[t] = [block |-> rows[t].block, canonical |-> rows[t].canonical] /\ rows[t].block \in DOMAIN blocks
      BY <2>8 DEF Memory!IsRow
    <3>4. new[t] = [rows[t] EXCEPT !.canonical = rows[t].canonical /\ ~(MemoryHeight[rows[t].block] >= h)]
      BY <2>8 DEF Memory!DemoteRows, Memory!Demoted
    <3>5. new[t] = [block |-> rows[t].block,
                    canonical |-> (rows[t].canonical /\ ~(MemoryHeight[rows[t].block] >= h))]
      BY <3>3, <3>4
    <3>6. new[t].canonical => blocks'[rows[t].block]
      <4>1. ASSUME new[t].canonical
            PROVE  blocks[rows[t].block] /\ ~(MemoryHeight[rows[t].block] >= h)
        <5>1. new[t].canonical <=> (rows[t].canonical /\ ~(MemoryHeight[rows[t].block] >= h))
          <6> DEFINE f == rows[t].canonical /\ ~(MemoryHeight[rows[t].block] >= h)
          <6>1. new[t] = [block |-> rows[t].block, canonical |-> f]
            BY <3>5
          <6> HIDE DEF f
          <6>2. new[t].canonical = f
            BY <6>1
          <6>3. f <=> rows[t].canonical /\ ~(MemoryHeight[rows[t].block] >= h)
            BY Zenon DEF f
          <6> QED BY <6>2, <6>3
        <5> QED BY <4>1, <5>1, <2>8
      <4> QED BY <4>1, <3>3, <2>3, <2>4
    <3> QED BY <3>3, <3>5, <3>6, <2>3
  <2>9. Memory!RowsStored' /\ Memory!RowsFollowBlocks'
    <3>1. /\ \A t \in DOMAIN txs' : Memory!IsRow(txs[t])'
          /\ \A t \in DOMAIN txs' : txs'[t].canonical => blocks'[txs'[t].block]
      <4>1. /\ \A t \in DOMAIN txs : Memory!IsRow(txs[t])
            /\ \A t \in DOMAIN txs : txs[t].canonical => blocks[txs[t].block]
        BY DEF Memory!IInv, Memory!RowsStored, Memory!RowsFollowBlocks
      <4>2. txs' = Memory!DemoteRows(txs, h)
        BY <2>1
      <4>3. /\ \A t \in DOMAIN txs' : txs'[t] = [block |-> txs'[t].block, canonical |-> txs'[t].canonical]
                                     /\ txs'[t].block \in DOMAIN blocks'
            /\ \A t \in DOMAIN txs' : txs'[t].canonical => blocks'[txs'[t].block]
        BY <4>1, <4>2, <2>8
      <4> QED BY <4>3 DEF Memory!IsRow
    <3>2. /\ \A t \in DOMAIN contracts' : Memory!IsRow(contracts[t])'
          /\ \A t \in DOMAIN contracts' : contracts'[t].canonical => blocks'[contracts'[t].block]
      <4>1. /\ \A t \in DOMAIN contracts : Memory!IsRow(contracts[t])
            /\ \A t \in DOMAIN contracts : contracts[t].canonical => blocks[contracts[t].block]
        BY DEF Memory!IInv, Memory!RowsStored, Memory!RowsFollowBlocks
      <4>2. contracts' = Memory!DemoteRows(contracts, h)
        BY <2>1
      <4>3. /\ \A t \in DOMAIN contracts' : contracts'[t] = [block |-> contracts'[t].block, canonical |-> contracts'[t].canonical]
                                     /\ contracts'[t].block \in DOMAIN blocks'
            /\ \A t \in DOMAIN contracts' : contracts'[t].canonical => blocks'[contracts'[t].block]
        BY <4>1, <4>2, <2>8
      <4> QED BY <4>3 DEF Memory!IsRow
    <3>3. \A e \in DOMAIN events' : e.block \in DOMAIN blocks' /\ (events'[e] => blocks'[e.block])
      <4>1. DOMAIN events' = DOMAIN events
        BY <2>1 DEF Memory!DemoteEvents
      <4>2. \A e \in DOMAIN events : (events'[e] <=> events[e] /\ ~(MemoryHeight[e.block] >= h))
        BY <2>1 DEF Memory!DemoteEvents, Memory!Demoted
      <4>3. \A e \in DOMAIN events : e.block \in DOMAIN blocks /\ (events[e] => blocks[e.block])
        BY DEF Memory!IInv, Memory!RowsStored, Memory!RowsFollowBlocks
      <4> QED BY <4>1, <4>2, <4>3, <2>3, <2>4
    <3>4. DOMAIN blocks' \subseteq MemoryBlock
      BY <1>2, <1>5, <2>3
    <3> QED BY <3>1, <3>2, <3>3, <3>4, <2>7 DEF Memory!RowsStored, Memory!RowsFollowBlocks
  <2>10. Memory!OnePerHeight'
    <3>1. ASSUME NEW c \in DOMAIN blocks', blocks'[c], MemoryHeight[c] = h PROVE c = b
      <4>1. c \in MemoryBlock /\ h \in Nat
        BY <2>3, <1>2, <1>3, <1>5
      <4> QED BY <3>1, <4>1, <2>3, <2>4
    <3>2. ASSUME NEW c \in DOMAIN blocks', NEW d \in DOMAIN blocks', blocks'[c], blocks'[d],
                 MemoryHeight[c] = MemoryHeight[d]
          PROVE  c = d
      <4>1. CASE c = b \/ d = b
        BY <3>1, <3>2, <4>1
      <4>2. CASE c # b /\ d # b
        BY <3>2, <4>2, <2>3, <2>4 DEF Memory!IInv, Memory!OnePerHeight
      <4> QED BY <4>1, <4>2
    <3> QED BY <3>2 DEF Memory!OnePerHeight
  <2>11. Memory!JobStored'
    BY <1>2, <1>4, <2>3 DEF Memory!JobStored
  <2> QED BY <2>9, <2>10, <2>11 DEF Memory!IInv
<1>7. CASE ~Memory!ReorgDetected(b)
  <2>1. blocks' = Memory!Put(blocks, b, TRUE) /\ UNCHANGED <<txs, events, contracts>>
    BY <1>7 DEF Memory!updateBlock
  <2>2. DOMAIN blocks' = DOMAIN blocks \cup {b} /\ blocks'[b] = TRUE
    BY <2>1 DEF Memory!Put
  <2>3. \A c \in DOMAIN blocks : c # b => blocks'[c] = blocks[c]
    BY <2>1 DEF Memory!Put
  <2>4. \A c \in DOMAIN blocks : blocks[c] => blocks'[c]
    BY <2>2, <2>3
  <2>5. blocks' = [c \in DOMAIN blocks' |-> blocks'[c]]
    BY <2>1 DEF Memory!Put
  <2>6. blocks' \in [DOMAIN blocks' -> BOOLEAN] /\ DOMAIN blocks' \subseteq MemoryBlock
    <3>1. \A c \in DOMAIN blocks' : blocks'[c] \in BOOLEAN
      BY <2>2, <2>3, <1>5
    <3> QED BY <3>1, <2>2, <2>5, <1>2, <1>5
  <2>7. Memory!RowsStored' /\ Memory!RowsFollowBlocks'
    BY <2>1, <2>2, <2>4, <2>6 DEF Memory!IInv, Memory!RowsStored, Memory!RowsFollowBlocks, Memory!IsRow
  <2>8. Memory!OnePerHeight'
    <3>1. \A c \in DOMAIN blocks' : blocks'[c] /\ MemoryHeight[c] = h => c = b
      BY <1>7, <2>2, <2>3 DEF Memory!ReorgDetected
    <3>2. ASSUME NEW c \in DOMAIN blocks', NEW d \in DOMAIN blocks', blocks'[c], blocks'[d],
                 MemoryHeight[c] = MemoryHeight[d]
          PROVE  c = d
      <4>1. CASE c = b \/ d = b
        BY <3>1, <3>2, <4>1
      <4>2. CASE c # b /\ d # b
        BY <3>2, <4>2, <2>2, <2>3 DEF Memory!IInv, Memory!OnePerHeight
      <4> QED BY <4>1, <4>2
    <3> QED BY <3>2 DEF Memory!OnePerHeight
  <2>9. Memory!JobStored'
    BY <1>2, <1>4, <2>2 DEF Memory!JobStored
  <2> QED BY <2>7, <2>8, <2>9 DEF Memory!IInv
<1> QED BY <1>6, <1>7

(* A row of the update's block, put over whatever row of another block had  *)
(* its key.                                                                 *)
LEMMA MemoryPutRow ==
  ASSUME job.block \in DOMAIN blocks, blocks[job.block], NEW rows, NEW k,
         \A t \in DOMAIN rows : Memory!IsRow(rows[t]) /\ (rows[t].canonical => blocks[rows[t].block])
  PROVE  \A t \in DOMAIN Memory!Put(rows, k, Memory!Row) :
           /\ Memory!IsRow(Memory!Put(rows, k, Memory!Row)[t])
           /\ Memory!Put(rows, k, Memory!Row)[t].canonical => blocks[Memory!Put(rows, k, Memory!Row)[t].block]
<1> DEFINE new == Memory!Put(rows, k, Memory!Row)
<1>1. DOMAIN new = DOMAIN rows \cup {k} /\ new[k] = Memory!Row /\ \A t \in DOMAIN rows : t # k => new[t] = rows[t]
  BY DEF Memory!Put
<1>2. /\ Memory!Row.block = job.block
      /\ Memory!Row = [block |-> Memory!Row.block, canonical |-> Memory!Row.canonical]
  BY DEF Memory!Row
<1>3. Memory!IsRow(Memory!Row) /\ (Memory!Row.canonical => blocks[Memory!Row.block])
  BY <1>2 DEF Memory!IsRow
<1> HIDE DEF new
<1>4. ASSUME NEW t \in DOMAIN new
      PROVE  Memory!IsRow(new[t]) /\ (new[t].canonical => blocks[new[t].block])
  <2>1. CASE t = k
    BY <2>1, <1>1, <1>3
  <2>2. CASE t # k
    BY <2>2, <1>1
  <2> QED BY <2>1, <2>2
<1> QED BY <1>4 DEF new

LEMMA MemoryUpdateRows ==
  ASSUME Memory!IInv, Memory!updateTx \/ Memory!updateSmartContract \/ \E kind \in Memory!EventKind : Memory!updateEvents(kind)
  PROVE  Memory!IInv'
<1>1. blocks' = blocks /\ Memory!OnePerHeight'
  BY DEF Memory!IInv, Memory!OnePerHeight, Memory!updateTx, Memory!updateEvents, Memory!updateSmartContract
<1>2. job.block \in DOMAIN blocks /\ blocks[job.block] /\ Memory!JobStored'
  BY <1>1, MemoryJobGoesOn DEF Memory!IInv, Memory!updateTx, Memory!updateEvents, Memory!updateSmartContract, Memory!EventKind
<1>3. CASE Memory!updateTx
  <2>1. txs' = Memory!Put(txs, Memory!Current, Memory!Row) /\ UNCHANGED <<events, contracts>>
    BY <1>3 DEF Memory!updateTx
  <2>2. \A t \in DOMAIN txs' : /\ txs'[t] = [block |-> txs'[t].block, canonical |-> txs'[t].canonical]
                               /\ txs'[t].block \in DOMAIN blocks
                               /\ txs'[t].canonical => blocks[txs'[t].block]
    BY <1>2, <2>1, MemoryPutRow DEF Memory!IInv, Memory!RowsStored, Memory!RowsFollowBlocks, Memory!IsRow
  <2> QED BY <1>1, <1>2, <2>1, <2>2 DEF Memory!IInv, Memory!RowsStored, Memory!RowsFollowBlocks, Memory!IsRow
<1>4. CASE Memory!updateSmartContract
  <2>1. contracts' = Memory!Put(contracts, Memory!Current, Memory!Row) /\ UNCHANGED <<events, txs>>
    BY <1>4 DEF Memory!updateSmartContract
  <2>2. \A t \in DOMAIN contracts' : /\ contracts'[t] = [block |-> contracts'[t].block, canonical |-> contracts'[t].canonical]
                                     /\ contracts'[t].block \in DOMAIN blocks
                                     /\ contracts'[t].canonical => blocks[contracts'[t].block]
    BY <1>2, <2>1, MemoryPutRow DEF Memory!IInv, Memory!RowsStored, Memory!RowsFollowBlocks, Memory!IsRow
  <2> QED BY <1>1, <1>2, <2>1, <2>2 DEF Memory!IInv, Memory!RowsStored, Memory!RowsFollowBlocks, Memory!IsRow
<1>5. ASSUME NEW kind \in Memory!EventKind, Memory!updateEvents(kind) PROVE Memory!IInv'
  <2> DEFINE e == [tx |-> Memory!Current, block |-> job.block, kind |-> kind]
  <2>1. events' = Memory!Put(events, e, TRUE) /\ UNCHANGED <<txs, contracts>>
    BY <1>5 DEF Memory!updateEvents
  <2>2. e.block = job.block
    OBVIOUS
  <2> HIDE DEF e
  <2>3. \A d \in DOMAIN events' : d.block \in DOMAIN blocks /\ (events'[d] => blocks[d.block])
    <3>1. DOMAIN events' = DOMAIN events \cup {e} /\ \A d \in DOMAIN events : d # e => events'[d] = events[d]
      BY <2>1 DEF Memory!Put
    <3> QED BY <3>1, <2>2, <1>2 DEF Memory!IInv, Memory!RowsStored, Memory!RowsFollowBlocks
  <2> QED BY <1>1, <1>2, <2>1, <2>3 DEF Memory!IInv, Memory!RowsStored, Memory!RowsFollowBlocks, Memory!IsRow
<1> QED BY <1>3, <1>4, <1>5

LEMMA MemoryStep ==
  ASSUME Memory!MemoryAssumption, Memory!IInv, [Memory!Next]_Memory!vars
  PROVE  Memory!IInv'
<1>1. CASE \E b \in MemoryBlock : Memory!Receive(b)
  <2>1. PICK b \in MemoryBlock : Memory!Receive(b)
    BY <1>1
  <2>2. job' = [block |-> b, todo |-> <<Memory!StepOf("block", Memory!None)>>] /\ UNCHANGED <<blocks, txs, events, contracts>>
    BY <2>1 DEF Memory!Receive
  <2>3. Memory!JobStored'
    BY <2>2 DEF Memory!JobStored
  <2> QED BY <2>2, <2>3, MemoryRowsKept DEF Memory!IInv
<1>2. CASE Memory!updateBlock
  BY <1>2, MemoryUpdateBlock
<1>3. CASE Memory!updateTx \/ Memory!updateSmartContract \/ \E kind \in Memory!EventKind : Memory!updateEvents(kind)
  BY <1>3, MemoryUpdateRows
<1>4. CASE Memory!Emit
  <2>1. job' = Memory!NoJob /\ UNCHANGED <<blocks, txs, events, contracts>>
    BY <1>4 DEF Memory!Emit
  <2>2. Memory!JobStored'
    BY <2>1 DEF Memory!JobStored, Memory!NoJob
  <2> QED BY <2>1, <2>2, MemoryRowsKept DEF Memory!IInv
<1>5. CASE (\E t \in MemoryTx : Memory!updateMempoolTxs(t) \/ Memory!dropMempoolTxs(t)) \/ UNCHANGED Memory!vars
  <2>1. UNCHANGED <<blocks, txs, events, contracts, job>>
    BY <1>5 DEF Memory!updateMempoolTxs, Memory!dropMempoolTxs, Memory!vars
  <2>2. Memory!JobStored'
    BY <2>1 DEF Memory!JobStored, Memory!NoJob, Memory!IInv
  <2> QED BY <2>1, <2>2, MemoryRowsKept DEF Memory!IInv
<1> QED BY <1>1, <1>2, <1>3, <1>4, <1>5 DEF Memory!Next

(* In memory, whatever blocks come in whatever order, once or again, and    *)
(* between any two awaits of an update: no two canonical blocks have one    *)
(* height, and no row is canonical whose block is not.                      *)
THEOREM MemoryRowsFollow ==
  ASSUME Memory!MemoryAssumption
  PROVE  Memory!Spec => [](Memory!OnePerHeight /\ Memory!RowsFollowBlocks)
<1>1. Memory!Init => Memory!IInv
  BY MemoryInit
<1>2. Memory!IInv /\ [Memory!Next]_Memory!vars => Memory!IInv'
  BY MemoryStep
<1>3. Memory!IInv => Memory!OnePerHeight /\ Memory!RowsFollowBlocks
  BY DEF Memory!IInv
<1> QED BY <1>1, <1>2, <1>3, PTL DEF Memory!Spec
=============================================================================
