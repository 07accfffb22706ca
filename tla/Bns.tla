-------------------------------- MODULE Bns --------------------------------
(***************************************************************************)
(* The name system: the tables `names', `namespaces' and `subdomains' of    *)
(* the Postgres store, written by the block handler and by the attachment   *)
(* handler of the event server, and read by the routes under /v1/names and  *)
(* /v1/namespaces.                                                          *)
(*                                                                         *)
(* The blocks table is LongestChain, which the chain store implements, so   *)
(* storing a block is one step here.  An attachment message is handled in   *)
(* several transactions; the event server's queue runs one handler at a     *)
(* time, readers run between any two queries.                               *)
(***************************************************************************)
EXTENDS Naturals, Sequences, FiniteSets, Functions

CONSTANTS
  Block, Parent, Height,
  EventsOf,   \* the committed contract events of a block, in order.  Their tx_sender
              \* sent the transaction; their owner has the name afterwards, which
              \* the code does not read
  Zonefile, NoZonefile,
  TxtOf,      \* the TXT records of a zone file: a sequence of [sub, owner, zonefile]
  NoOwner,
  UriOf,      \* the resolver named by a zone file's URI records, "" if none
  Message,    \* attachment messages: sequences of attachments
  MaxPosts,   \* bound on the attachment messages handled
  MaxReads    \* bound on the requests read

VARIABLES
  known, main,   \* the blocks table: stored blocks, canonical blocks
  names, namespaces, subdomains,   \* the rows of the tables
  todo,          \* attachments of the running message that are not yet handled
  isCanonical,   \* the flag its subdomains will get
  posts, reads,
  acked,         \* history: attachments whose handling has ended
  request        \* the request being read

chainVars == <<known, main>>
tables == <<names, namespaces, subdomains>>
taskVars == <<todo, isCanonical, posts, acked>>
readVars == <<request, reads>>
vars == <<chainVars, tables, taskVars, readVars>>

Chain == INSTANCE LongestChain

-----------------------------------------------------------------------------
(* Rows.  A hash written as text into the bytea column is not the hash.  An *)
(* event's row has the sender as its address; event, the position of the    *)
(* event in its block, is history and no column.                            *)
Bytes(b) == [enc |-> "bytes", block |-> b]
Text(b) == [enc |-> "text", block |-> b]

NameRow(id, i, b, flag, latest) ==
  LET e == EventsOf[b][i] IN
  [id |-> id, event |-> i, name |-> e.name, namespace_id |-> e.namespace,
   address |-> e.tx_sender, zonefile_hash |-> e.zonefile, zonefile |-> NoZonefile, atch_resolved |-> FALSE, latest |-> latest,
   canonical |-> flag, tx |-> e.tx, index_block_hash |-> Text(b), at |-> Height[b]]

NamespaceRow(id, e, b, flag, latest) ==
  [id |-> id, name |-> e.name, latest |-> latest, canonical |-> flag, tx |-> e.tx,
   index_block_hash |-> Text(b)]

SubdomainRow(post, a, k) ==
  [id |-> <<post, k>>, name |-> a.name, sub |-> TxtOf[a.zonefile][k].sub,
   owner |-> TxtOf[a.zonefile][k].owner, zonefile |-> TxtOf[a.zonefile][k].zonefile,
   resolver |-> UriOf[a.zonefile],
   latest |-> TRUE, canonical |-> TRUE, tx |-> a.tx,
   index_block_hash |-> Bytes(a.block), at |-> Height[a.block]]

-----------------------------------------------------------------------------
(* The block handler: which rows a block's events become.                   *)
NameFunction == {"name-import", "name-revoke", "name-update", "name-transfer",
                 "name-renewal", "name-register"}

(* The function a transaction calls decides what its print event means;    *)
(* the positions of the events that mean a row.                             *)
IsBns(e) == e.contract = "bns"
NameEvents(b) ==
  {i \in DOMAIN EventsOf[b] : IsBns(EventsOf[b][i]) /\ EventsOf[b][i].fn \in NameFunction}
NamespaceEvents(b) ==
  {i \in DOMAIN EventsOf[b] : IsBns(EventsOf[b][i]) /\ EventsOf[b][i].fn = "namespace-ready"}

NamesIn(b) == {EventsOf[b][i].name : i \in NameEvents(b)}
Name == UNION {NamesIn(b) : b \in Block}
Subdomain == UNION {{t.sub : t \in Range(TxtOf[z])} : z \in Zonefile}
Attachment == UNION {Range(m) : m \in Message}

(* The zone files of a transaction, by the events it has on any branch and  *)
(* by its attachments.                                                      *)
ZonefilesOf(tx) ==
  {EventsOf[x[1]][x[2]].zonefile : x \in
     {y \in UNION {{b} \X NameEvents(b) : b \in Block} : EventsOf[y[1]][y[2]].tx = tx}}
    \cup {a.zonefile : a \in {c \in Attachment : c.tx = tx}}
OneZonefile(tx) == \A y, z \in ZonefilesOf(tx) : y = z

(* A subdomain has one label more than a name.                              *)
ASSUME BnsAssumption ==
  /\ Height \in [Block -> Nat \ {0}]
  /\ \A b \in Block : Len(EventsOf[b]) \in Nat /\ DOMAIN EventsOf[b] = 1..Len(EventsOf[b])
  /\ \A m \in Message : m \in Seq(Attachment)
  /\ \A a \in Attachment : a.zonefile \in Zonefile
  /\ Name \cap Subdomain = {}
  /\ {MaxPosts, MaxReads} \subseteq Nat

-----------------------------------------------------------------------------
(* The inserts of a block, one after the other in the order of its events:  *)
(* each takes `latest' from the older rows of its name, canonical or not,   *)
(* those just inserted included.                                            *)
NewId(rows, at, i) == Cardinality(rows) + Cardinality({j \in at : j <= i})
LastOfItsName(at, b, i) == \A j \in at : j > i => EventsOf[b][j].name # EventsOf[b][i].name

(* Mutant: every older row loses its flag.                                  *)
SupersedeAll(rows, at, b) ==
  {IF at # {} THEN [r EXCEPT !.latest = FALSE] ELSE r : r \in rows}

Supersede(rows, at, b) ==
  {IF \E i \in at : EventsOf[b][i].name = r.name THEN [r EXCEPT !.latest = FALSE] ELSE r : r \in rows}

updateNames(rows, b, flag) ==
  LET at == NameEvents(b)
  IN  Supersede(rows, at, b) \cup
        {NameRow(NewId(rows, at, i), i, b, flag, LastOfItsName(at, b, i)) : i \in at}

updateNamespaces(rows, b, flag) ==
  LET at == NamespaceEvents(b)
  IN  Supersede(rows, at, b) \cup
        {NamespaceRow(NewId(rows, at, i), EventsOf[b][i], b, flag, LastOfItsName(at, b, i)) : i \in at}

(* A reorg flags the rows it finds by the block's hash.                     *)
Reflag(rows, orphaned, restored) ==
  {[r EXCEPT !.canonical =
      IF r.index_block_hash \in {Bytes(b) : b \in restored} THEN TRUE
      ELSE IF r.index_block_hash \in {Bytes(b) : b \in orphaned} THEN FALSE ELSE @]
   : r \in rows}

(* The entity tables of update: a block already stored changes none.        *)
StoreEntities(b, flag) ==
  IF b \in known THEN UNCHANGED tables
  ELSE /\ names' = updateNames(Reflag(names, main \ main', main' \ main), b, flag)
       /\ namespaces' = updateNamespaces(Reflag(namespaces, main \ main', main' \ main), b, flag)
       /\ subdomains' = Reflag(subdomains, main \ main', main' \ main)

(* update with a block that extends the highest chain, or makes it.         *)
UpdateCanonical(b) ==
  /\ todo = <<>>
  /\ Chain!Extend(b)
  /\ StoreEntities(b, TRUE)
  /\ UNCHANGED <<taskVars, readVars>>

(* update with a block of a lower or equal height, or a repeated one.       *)
UpdateFork(b) ==
  /\ todo = <<>>
  /\ Chain!Fork(b)
  /\ StoreEntities(b, FALSE)
  /\ UNCHANGED <<taskVars, readVars>>

-----------------------------------------------------------------------------
(* The attachment handler.                                                  *)
StartAttachments(m) ==
  /\ todo = <<>> /\ posts < MaxPosts
  /\ todo' = m
  /\ posts' = posts + 1
  /\ isCanonical' = "unknown"
  /\ UNCHANGED <<chainVars, tables, acked, readVars>>

(* getNameCanonical decodes the hash; the rows it finds.                    *)
getNameCanonical(tx, b) == {r \in names : r.tx = tx /\ r.index_block_hash = Bytes(b)}

HasSubdomains(a) == a.fn = "name-update" /\ TxtOf[a.zonefile] # <<>>

(* Canonical, unless a row is found: then the whole row is taken for the    *)
(* flag.                                                                    *)
QueryCanonical ==
  /\ todo # <<>> /\ isCanonical = "unknown" /\ HasSubdomains(Head(todo))
  /\ isCanonical' = IF getNameCanonical(Head(todo).tx, Head(todo).block) = {} THEN "yes" ELSE "row"
  /\ UNCHANGED <<chainVars, tables, todo, posts, acked, readVars>>

(* A TXT record without an owner is skipped.                                *)
Owned(z) == {k \in DOMAIN TxtOf[z] : TxtOf[z][k].owner # NoOwner}

(* resolveBnsSubdomains: plain inserts, one transaction.  A row in place of *)
(* the flag is no BOOLEAN: such an insert fails, as in Crash.               *)
resolveBnsSubdomains ==
  /\ todo # <<>> /\ isCanonical = "yes"
  /\ LET a == Head(todo)
     IN  subdomains' = subdomains \cup
           {SubdomainRow(posts, a, k) : k \in Owned(a.zonefile)}
  /\ isCanonical' = "stored"
  /\ UNCHANGED <<chainVars, names, namespaces, todo, posts, acked, readVars>>

(* Mutant: the rows are found by name instead of transaction.               *)
ResolveByName(rows, a) ==
  {IF r.name = a.name /\ r.canonical
   THEN [r EXCEPT !.zonefile = a.zonefile, !.atch_resolved = TRUE] ELSE r : r \in rows}

Resolve(rows, a) ==
  {IF r.tx = a.tx /\ r.canonical
   THEN [r EXCEPT !.zonefile = a.zonefile, !.atch_resolved = TRUE] ELSE r : r \in rows}

(* resolveBnsNames; after the last attachment of the message, status 200.   *)
resolveBnsNames ==
  /\ todo # <<>>
  /\ isCanonical = "stored" \/ ~HasSubdomains(Head(todo))
  /\ names' = Resolve(names, Head(todo))
  /\ todo' = Tail(todo)
  /\ isCanonical' = "unknown"
  /\ acked' = acked \cup {Head(todo)}
  /\ UNCHANGED <<chainVars, namespaces, subdomains, posts, readVars>>

(* The process stops, or a transaction of the handler fails.                *)
Crash ==
  /\ todo # <<>>
  /\ todo' = <<>>
  /\ isCanonical' = "unknown"
  /\ UNCHANGED <<chainVars, tables, posts, acked, readVars>>

-----------------------------------------------------------------------------
(* Queries.                                                                 *)
Current(rows) == {r \in rows : r.canonical /\ r.latest}
getName(n) == {r \in Current(names) : r.name = n}
getNamespace(n) == {r \in Current(namespaces) : r.name = n}
getSubdomain(s) == {r \in Current(subdomains) : r.sub = s}

getLatestZoneFile(n) == {r.zonefile : r \in getName(n) \cup getSubdomain(n)}
getHistoricalZoneFile(n, hash) ==
  {r.zonefile : r \in {q \in names : q.name = n /\ q.zonefile_hash = hash}
                   \cup {q \in subdomains : q.sub = n /\ q.zonefile = hash}}

(* The row of the greatest height.                                          *)
getSubdomainResolver(n) ==
  LET rows == {r \in Current(subdomains) : r.name = n}
  IN  {r.resolver : r \in {q \in rows : \A o \in rows : o.at <= q.at}}

(* The lists.                                                               *)
getNamesByAddressList(a) ==
  {r.name : r \in {q \in Current(names) : q.address = a}}
    \cup {r.sub : r \in {q \in Current(subdomains) : q.owner = a}}
getNamespaceNamesList(ns) == {r.name : r \in {q \in Current(names) : q.namespace_id = ns}}
getNamespaceList == {r.name : r \in Current(namespaces)}

Namespace == {EventsOf[x[1]][x[2]].name : x \in UNION {{b} \X NamespaceEvents(b) : b \in Block}}
Sender == {EventsOf[x[1]][x[2]].tx_sender : x \in UNION {{b} \X NameEvents(b) : b \in Block}}

NoRequest == [route |-> "none"]

(* GET /v1/names/:name/zonefile and /:name/zonefile/:zoneFileHash: is there *)
(* such a name?                                                             *)
ReadZonefile(n, hash) ==
  /\ request = NoRequest /\ reads < MaxReads
  /\ reads' = reads + 1
  /\ request' = [route |-> "zonefile", name |-> n, hash |-> hash,
                 found |-> IF getName(n) # {} THEN "name" ELSE "unknown", status |-> 0]
  /\ UNCHANGED <<chainVars, tables, taskVars>>

(* If not, is it a subdomain?                                               *)
LookupSubdomain ==
  /\ request.route = "zonefile" /\ request.found = "unknown"
  /\ request' = [request EXCEPT !.found =
                   IF getSubdomain(request.name) # {} THEN "subdomain" ELSE "none"]
  /\ UNCHANGED <<chainVars, tables, taskVars, reads>>

(* ... then, in another query, its zone file.                               *)
AnswerZonefile ==
  /\ request.route = "zonefile" /\ request.status = 0 /\ request.found # "unknown"
  /\ LET zonefiles == IF request.hash = NoZonefile THEN getLatestZoneFile(request.name)
                      ELSE getHistoricalZoneFile(request.name, request.hash)
     IN  request' = [request EXCEPT !.status =
                       IF request.found = "none" THEN 400 ELSE IF zonefiles = {} THEN 404 ELSE 200]
  /\ UNCHANGED <<chainVars, tables, taskVars, reads>>

(* GET /v1/names/:name for a subdomain: the row, else a redirect to the     *)
(* resolver of its name's latest zone file.                                 *)
ReadSubdomain(s, n) ==
  /\ request = NoRequest /\ reads < MaxReads
  /\ reads' = reads + 1
  /\ request' = [route |-> "subdomain", name |-> n, sub |-> s,
                 status |-> IF getSubdomain(s) # {} THEN 200 ELSE 0]
  /\ UNCHANGED <<chainVars, tables, taskVars>>

AnswerSubdomain ==
  /\ request.route = "subdomain" /\ request.status = 0
  /\ LET resolvers == getSubdomainResolver(request.name)
     IN  \E status \in IF resolvers = {} THEN {404}
                       ELSE {IF v = "" THEN 404 ELSE 302 : v \in resolvers} :
           request' = [request EXCEPT !.status = status]
  /\ UNCHANGED <<chainVars, tables, taskVars, reads>>

(* GET /v1/namespaces/:tld/names.                                           *)
ReadNamespace(n) ==
  /\ request = NoRequest /\ reads < MaxReads
  /\ reads' = reads + 1
  /\ request' = [route |-> "namespace", name |-> n,
                 status |-> IF getNamespace(n) = {} THEN 404 ELSE 200]
  /\ UNCHANGED <<chainVars, tables, taskVars>>

EndRequest ==
  /\ request # NoRequest /\ request.status # 0
  /\ request' = NoRequest
  /\ UNCHANGED <<chainVars, tables, taskVars, reads>>

-----------------------------------------------------------------------------
Init ==
  /\ Chain!Init
  /\ names = {} /\ namespaces = {} /\ subdomains = {}
  /\ todo = <<>> /\ isCanonical = "unknown"
  /\ posts = 0 /\ reads = 0
  /\ acked = {}
  /\ request = NoRequest

Next ==
  \/ \E b \in Block : UpdateCanonical(b) \/ UpdateFork(b)
  \/ \E m \in Message : StartAttachments(m)
  \/ QueryCanonical
  \/ resolveBnsSubdomains
  \/ resolveBnsNames
  \/ Crash
  \/ \E n \in Name \cup Subdomain, hash \in Zonefile \cup {NoZonefile} : ReadZonefile(n, hash)
  \/ LookupSubdomain
  \/ AnswerZonefile
  \/ \E s \in Subdomain, n \in Name : ReadSubdomain(s, n)
  \/ AnswerSubdomain
  \/ \E n \in Namespace : ReadNamespace(n)
  \/ EndRequest

Spec == Init /\ [][Next]_vars

-----------------------------------------------------------------------------
(* TypeOK: rows and requests keep their shape, and ids are unique.          *)
TypeOK ==
  /\ main \subseteq known /\ known \subseteq Block
  /\ \A r \in names : r.id \in 1..Cardinality(names) /\ r.name \in Name
  /\ \A r \in namespaces : r.id \in 1..Cardinality(namespaces)
  /\ \A r, q \in names : r.id = q.id => r = q
  /\ isCanonical \in {"unknown", "yes", "row", "stored"}
  /\ todo = <<>> => isCanonical = "unknown"
  /\ posts \in 0..MaxPosts /\ reads \in 0..MaxReads
  /\ request = NoRequest \/ request.status \in {0, 200, 302, 400, 404}

(* However blocks of forks, repeats and reorgs interleave, a name has at    *)
(* most one row flagged latest, and so has a namespace: getName's rows[0]   *)
(* is not a matter of chance.                                               *)
OneLatest ==
  /\ \A r, q \in names : r.latest /\ q.latest /\ r.name = q.name => r = q
  /\ \A r, q \in namespaces : r.latest /\ q.latest /\ r.name = q.name => r = q

(* Stored blocks in the order of their heights, if there is no fork.        *)
Linear == known = main

(* The last event of the name on a chain without forks.                     *)
LastEvent(n) ==
  LET top == CHOOSE b \in main : n \in NamesIn(b) /\ \A c \in main : n \in NamesIn(c) => Height[c] <= Height[b]
  IN  EventsOf[top][CHOOSE i \in NameEvents(top) :
        EventsOf[top][i].name = n /\ LastOfItsName(NameEvents(top), top, i)]

(* As long as no fork block was stored, getName answers with the sender     *)
(* (tx_sender) and the zone file hash of the last name event on the chain,  *)
(* and finds every name that has one; block messages may have been          *)
(* repeated.  Of a transfer that is the previous owner, of an import the    *)
(* importer: see AddressIsOwner.                                            *)
LinearChainExact ==
  Linear => \A n \in Name :
    LET last == LastEvent(n) IN
    {<<r.address, r.zonefile_hash>> : r \in getName(n)}
      = IF \E b \in main : n \in NamesIn(b) THEN {<<last.tx_sender, last.zonefile>>} ELSE {}

(* Under the same condition the lists agree with the chain: an address has  *)
(* the names whose last event it sent (not those it owns, see               *)
(* AddressIsOwner), a namespace those registered in it.                     *)
LinearListsExact ==
  Linear =>
    LET mentioned == UNION {NamesIn(b) : b \in main}
        last == [n \in mentioned |-> LastEvent(n)]
    IN
    /\ \A a \in Sender :
         getNamesByAddressList(a) \cap Name = {n \in mentioned : last[n].tx_sender = a}
    /\ \A ns \in Namespace :
         getNamespaceNamesList(ns) = {n \in mentioned : last[n].namespace = ns}
    /\ getNamespaceList = UNION {{EventsOf[b][i].name : i \in NamespaceEvents(b)} : b \in main}

(* A repeated block message adds no second row for a name event.            *)
OneRowPerEvent ==
  \A r, q \in names :
    r.event = q.event /\ r.index_block_hash = q.index_block_hash => r = q

(* A resolved row holds the zone file its hash names, so the historical     *)
(* zone files stay right when a name is updated again.  Not the rows of a   *)
(* transaction that sets several zone files: the last attachment to come    *)
(* writes all of them.                                                      *)
ZonefileMatchesHash ==
  \A r \in names : r.atch_resolved /\ OneZonefile(r.tx) => r.zonefile = r.zonefile_hash

(* Every subdomain of the attachment's zone file that has an owner.         *)
HasRows(a) ==
  \A t \in Range(TxtOf[a.zonefile]) : t.owner # NoOwner =>
    \E r \in subdomains : r.sub = t.sub /\ r.owner = t.owner /\ r.tx = a.tx

(* Once an attachment is acknowledged, every subdomain of its zone file     *)
(* that has an owner has a row, whatever crashed on the way.                *)
SubdomainsComplete ==
  \A a \in acked : HasSubdomains(a) => HasRows(a)

(* The zone file route looks a name up and reads its zone file in another   *)
(* query; without forks a name found by the first still has one in the      *)
(* second, although a block may have superseded its row in between.         *)
FoundNameHasZonefile ==
  Linear /\ request.route = "zonefile" /\ request.hash = NoZonefile => request.status # 404

-----------------------------------------------------------------------------
(* The inductive invariant.  The chain: parents are known one height below, *)
(* main is a branch, and every known block has one of its height on it, so  *)
(* that a fork once stored is never forgotten.                              *)
ChainShape ==
  /\ known \subseteq Block /\ main \subseteq known
  /\ \A c \in known : Height[c] > 1 => Parent[c] \in known /\ Height[Parent[c]] = Height[c] - 1
  /\ main # {} => \E b \in main : Chain!IsBranch(main, b)
  /\ \A c \in known : \E m \in main : Height[m] = Height[c]

(* Rows keep their columns, and block hashes are written as text.           *)
IsNameRow(r) ==
  r = [id |-> r.id, event |-> r.event, name |-> r.name, namespace_id |-> r.namespace_id,
       address |-> r.address, zonefile_hash |-> r.zonefile_hash, zonefile |-> r.zonefile, atch_resolved |-> r.atch_resolved,
       latest |-> r.latest, canonical |-> r.canonical, tx |-> r.tx,
       index_block_hash |-> r.index_block_hash, at |-> r.at]
IsNamespaceRow(r) ==
  /\ r = [id |-> r.id, name |-> r.name, latest |-> r.latest, canonical |-> r.canonical, tx |-> r.tx,
          index_block_hash |-> r.index_block_hash]
  /\ \E b \in Block : r.index_block_hash = Text(b)
IsSubdomainRow(r) ==
  r = [id |-> r.id, name |-> r.name, sub |-> r.sub, owner |-> r.owner, zonefile |-> r.zonefile,
       resolver |-> r.resolver, latest |-> r.latest, canonical |-> r.canonical, tx |-> r.tx,
       index_block_hash |-> r.index_block_hash, at |-> r.at]

(* The row of an event, and every event of a stored block has one.          *)
RowOf(r, b, i) ==
  /\ r.index_block_hash = Text(b) /\ r.event = i
  /\ r.name = EventsOf[b][i].name /\ r.tx = EventsOf[b][i].tx
  /\ r.address = EventsOf[b][i].tx_sender /\ r.zonefile_hash = EventsOf[b][i].zonefile
  /\ r.namespace_id = EventsOf[b][i].namespace

RowsFollowEvents ==
  /\ \A r \in names : IsNameRow(r) /\ \E b \in known : \E i \in NameEvents(b) : RowOf(r, b, i)
  /\ \A b \in known : \A i \in NameEvents(b) : \E r \in names : RowOf(r, b, i)
  /\ \A r \in namespaces : IsNamespaceRow(r)
  /\ \A r \in subdomains : IsSubdomainRow(r) /\ r.sub \in Subdomain

(* The namespaces are those of the stored blocks, and each has a row that   *)
(* is flagged latest.                                                       *)
NamespacesIn(b) == {EventsOf[b][i].name : i \in NamespaceEvents(b)}
NamespacesFollow ==
  /\ \A r \in namespaces : \E b \in known : r.name \in NamespacesIn(b)
  /\ \A b \in known : \A n \in NamespacesIn(b) : \E r \in namespaces : r.name = n /\ r.latest
  /\ Linear => \A r \in namespaces : r.canonical

(* Without forks rows are flagged latest in the order of the chain.         *)
LastOnChain(b, i) ==
  /\ LastOfItsName(NameEvents(b), b, i)
  /\ \A c \in main : Height[c] > Height[b] => EventsOf[b][i].name \notin NamesIn(c)

LatestInOrder ==
  Linear => \A r \in names :
    /\ r.canonical
    /\ \A b \in main : \A i \in NameEvents(b) : RowOf(r, b, i) => (r.latest <=> LastOnChain(b, i))

(* The rows of the attachment that is handled are stored before it is       *)
(* acknowledged.                                                            *)
TaskShape ==
  /\ todo \in Seq(Attachment)
  /\ isCanonical \in {"unknown", "yes", "row", "stored"}
  /\ todo # <<>> /\ isCanonical = "stored" => HasRows(Head(todo))

IInv ==
  /\ ChainShape /\ RowsFollowEvents /\ NamespacesFollow /\ LatestInOrder /\ TaskShape
  /\ OneRowPerEvent /\ OneLatest /\ ZonefileMatchesHash /\ SubdomainsComplete

(* The request.  What its first query found is still there at the second,   *)
(* as long as there is no fork.                                             *)
IsZonefileRequest ==
  /\ request.route = "zonefile"
  /\ request = [route |-> "zonefile", name |-> request.name, hash |-> request.hash,
                found |-> request.found, status |-> request.status]
  /\ request.found \in {"name", "unknown", "subdomain", "none"}
IsSubdomainRequest ==
  /\ request.route = "subdomain"
  /\ request = [route |-> "subdomain", name |-> request.name, sub |-> request.sub, status |-> request.status]
IsNamespaceRequest ==
  /\ request.route = "namespace"
  /\ request = [route |-> "namespace", name |-> request.name, status |-> request.status]

RequestShape == request = NoRequest \/ IsZonefileRequest \/ IsSubdomainRequest \/ IsNamespaceRequest

FoundStays ==
  Linear /\ request.route = "zonefile" =>
    /\ request.found = "name" => getName(request.name) # {}
    /\ request.found = "subdomain" => getSubdomain(request.name) # {}

RequestIInv == RequestShape /\ FoundStays /\ FoundNameHasZonefile

(* "store data as non-canonical": a block below the tip changes no answer.  *)
ForkInvisible ==
  [][main' = main /\ known' # known => \A n \in Name : getName(n)' = getName(n)]_vars

(* "names owned by the address provided" (docs/openapi.yaml:2049), and the  *)
(* address of getName: the address of a name is its owner.                  *)
AddressIsOwner ==
  Linear => \A n \in Name : \A r \in getName(n) : r.address = LastEvent(n).owner

(* "zone file will be updated in /attachments/new": once the block and the  *)
(* attachment are both acknowledged, the canonical name has its zone file.  *)
ZonefileArrives ==
  \A a \in acked : todo = <<>> /\ a.block \in main =>
    \A r \in names : r.tx = a.tx /\ r.canonical => r.atch_resolved
=============================================================================
