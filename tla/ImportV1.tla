------------------------------ MODULE ImportV1 ------------------------------
(***************************************************************************)
(* The import of Stacks 1.0 data at start-up (import-v1/index.ts): the      *)
(* vesting schedule of the genesis chain state, then names, namespaces and  *)
(* subdomains of a BNS export.  Each import is one transaction, ended by    *)
(* the flag in config_state that keeps a later start from importing again.  *)
(* Any step may fail, and the process may stop at any time and start again. *)
(*                                                                         *)
(* A line of chainstate.txt is a BEGIN or END marker, a header or a row.    *)
(* Text is a sequence of symbols, in which "\\n" is an escaped line break.   *)
(* An address has a form: "btc", "stx" or neither.                          *)
(***************************************************************************)
EXTENDS Integers, Sequences, FiniteSets

CONSTANTS
  Exports,       \* the data directories an operator may start with
  BatchSize,     \* SUBDOMAIN_BATCH_SIZE, STX_VESTING_BATCH_SIZE
  MaxFaults

Marks(lines) == {i \in DOMAIN lines : lines[i].kind \in {"begin", "end"}}

(* The section of a line is that of the last marker above it.               *)
SectionOf(lines, i) ==
  LET marks == {j \in Marks(lines) : j < i}
      last == CHOOSE j \in marks : \A k \in marks : k <= j
  IN  IF marks = {} \/ lines[last].kind = "end" THEN "none" ELSE lines[last].section

(* The file of the vesting schedule: a marker inside a section ends it.     *)
Paired(lines) ==
  \A i \in Marks(lines) :
    SectionOf(lines, i) # "none" => lines[i].kind = "end" /\ lines[i].section = SectionOf(lines, i)

IsList(s) == s \in Seq({s[i] : i \in DOMAIN s})

ASSUME ImportV1Assumption ==
  /\ BatchSize \in Nat \ {0} /\ MaxFaults \in Nat
  /\ \A e \in Exports :
       /\ IsList(e.genesis) /\ IsList(e.chainstate) /\ IsList(e.subdomains) /\ IsList(e.subdomainZones)
       /\ Paired(e.genesis)

VARIABLES
  export,      \* the export of this deployment
  db,          \* committed tables and config_state
  txn,         \* what the open transaction sees
  config,      \* config_state as read before the transaction
  importPc,    \* phase of the start-up
  pos,         \* lines read of the current file
  section,     \* ChainProcessor.state, or "vesting" while isVesting
  namespaces,  \* ChainProcessor.namespace
  batch,       \* rows not yet inserted
  faults

importVars == <<export, db, txn, config, importPc, pos, section, namespaces, batch, faults>>

EmptyDb ==
  [locked |-> <<>>, spaces |-> <<>>, names |-> <<>>, subdomains |-> <<>>,
   offering |-> FALSE, bns |-> FALSE]

-----------------------------------------------------------------------------
(* getConfigState                                                           *)
Flags == [offering |-> db.offering, bns |-> db.bns]

updateConfigState(flags) == [txn EXCEPT !.offering = flags.offering, !.bns = flags.bns]

(* Every file's sha256 is the one its .sha256 file gives.                   *)
valid == export.intact

(* replace(/\\n/g, '\n')                                                    *)
Unescape(text) == [i \in DOMAIN text |-> IF text[i] = "\\n" THEN "newline" ELSE text[i]]

(* btcToStxAddress and b58ToC32.                                            *)
ToStx(a) == IF a.form = "btc" THEN [a EXCEPT !.form = "stx"] ELSE a

(* Lines in pairs of a hash and a zone file; an odd last line is dropped.   *)
Pairs(lines) ==
  [i \in 1..(Len(lines) \div 2) |->
     [hash |-> lines[2 * i - 1], zonefile |-> Unescape(lines[2 * i])]]

(* readZones: the map keeps the last zone file of a hash.                   *)
ZoneOf(lines, hash) ==
  LET ps == Pairs(lines)
      hits == {i \in DOMAIN ps : ps[i].hash = hash}
  IN  IF hits = {} THEN <<>> ELSE ps[CHOOSE i \in hits : \A j \in hits : j <= i].zonefile

(* The k-th of a set of line numbers.                                       *)
Nth(at, k) == CHOOSE i \in {j \in at : Cardinality({m \in at : m <= j}) = k} : TRUE

(* SubdomainTransform.                                                      *)
SubdomainOf(row) == [sub |-> row.sub, hash |-> row.hash, owner |-> ToStx(row.owner)]
Subdomains(rows) ==
  LET data == {i \in DOMAIN rows : rows[i].kind # "header"}
  IN  [k \in 1..Cardinality(data) |-> SubdomainOf(rows[Nth(data, k)])]

Name(row, zones) ==
  [name |-> row.name, ns |-> row.ns, zonefile |-> ZoneOf(zones, row.hash), hash |-> row.hash]

-----------------------------------------------------------------------------
ImportInit ==
  /\ export \in Exports
  /\ db = EmptyDb /\ txn = EmptyDb /\ config = Flags
  /\ importPc = "down" /\ pos = 0
  /\ section = "none" /\ namespaces = {} /\ batch = <<>>
  /\ faults = 0

Goto(phase) ==
  /\ importPc' = phase /\ pos' = 0 /\ section' = "none" /\ namespaces' = {} /\ batch' = <<>>
  /\ UNCHANGED <<export, faults>>

(* An error rolls the transaction back and ends the process.                *)
Abort == Goto("failed") /\ txn' = db /\ UNCHANGED <<db, config>>

Boot ==
  /\ importPc = "down"
  /\ Goto("offering") /\ txn' = db /\ UNCHANGED <<db, config>>

(* importV1TokenOfferingData, up to BEGIN.                                  *)
ImportTokenOffering ==
  /\ importPc = "offering"
  /\ config' = Flags
  /\ Goto(IF db.offering THEN "bns" ELSE "vesting")
  /\ txn' = db /\ UNCHANGED db

(* asyncBatchIterate: a full batch is inserted, and at the end the rest.    *)
Flush(table, last) ==
  /\ Len(batch) >= BatchSize \/ (last /\ batch # <<>>)
  /\ txn' = [txn EXCEPT ![table] = @ \o batch]
  /\ batch' = <<>>

(* StxVestingTransform.                                                     *)
ReadVesting ==
  /\ importPc = "vesting" /\ Len(batch) < BatchSize /\ pos < Len(export.genesis)
  /\ LET line == export.genesis[pos + 1]
         open == section = "vesting" /\ ~(line.kind = "end" /\ line.section = "stx_vesting")
     IN  /\ batch' = IF open /\ line.kind = "row"
                     THEN Append(batch, [address |-> ToStx(line.address), value |-> line.value,
                                         block |-> line.block])
                     ELSE batch
         /\ section' = IF open \/ (line.kind = "begin" /\ line.section = "stx_vesting")
                       THEN "vesting" ELSE "none"
  /\ pos' = pos + 1
  /\ UNCHANGED <<export, db, txn, config, importPc, namespaces, faults>>

(* updateBatchTokenOfferingLocked.                                          *)
InsertVesting ==
  /\ importPc = "vesting" /\ Flush("locked", pos = Len(export.genesis))
  /\ UNCHANGED <<export, db, config, importPc, pos, section, namespaces, faults>>

(* The file's hash is known once it was read; updateConfigState writes all  *)
(* flags; COMMIT.                                                           *)
OfferingCommitted ==
  /\ importPc = "vesting" /\ pos = Len(export.genesis) /\ batch = <<>>
  /\ export.genesisIntact
  /\ db' = updateConfigState([config EXCEPT !.offering = TRUE])
  /\ txn' = db'

CommitOffering == OfferingCommitted /\ Goto("bns") /\ UNCHANGED config

OfferingHashMismatch ==
  /\ importPc = "vesting" /\ pos = Len(export.genesis) /\ batch = <<>>
  /\ ~export.genesisIntact
  /\ Abort

(* importV1BnsData, up to BEGIN: files whose hash is wrong are refused.     *)
ImportBns ==
  /\ importPc = "bns"
  /\ config' = Flags
  /\ IF db.bns THEN Goto("up") ELSE IF valid THEN Goto("chain") ELSE Goto("failed")
  /\ txn' = db /\ UNCHANGED db

(* ChainProcessor._write, the markers.                                      *)
SectionAfter(line) ==
  CASE line.kind = "begin" -> IF line.section \in {"names", "namespaces"} THEN line.section ELSE "none"
    [] line.kind = "end" -> "none"
    [] OTHER -> section

(* ChainProcessor._write, a row: updateNamespaces and updateNames.          *)
ReadChainstate ==
  /\ importPc = "chain" /\ pos < Len(export.chainstate)
  /\ LET line == export.chainstate[pos + 1]
     IN  \/ /\ line.kind = "row" /\ section = "namespaces"
            /\ namespaces' = namespaces \cup {line.name}
            /\ txn' = [txn EXCEPT !.spaces = Append(@, line.name)]
            /\ UNCHANGED section
         \/ /\ line.kind = "row" /\ section = "names" /\ line.ns \in namespaces
            /\ txn' = [txn EXCEPT !.names = Append(@, Name(line, export.zones))]
            /\ UNCHANGED <<section, namespaces>>
         \/ /\ line.kind # "row" \/ section = "none"
            /\ section' = SectionAfter(line)
            /\ UNCHANGED <<txn, namespaces>>
  /\ pos' = pos + 1
  /\ UNCHANGED <<export, db, config, importPc, batch, faults>>

(* "Missing namespace": the rejection of _write is nobody's; it reaches     *)
(* unhandledRejection, and the shutdown ends the process.                   *)
MissingNamespace ==
  /\ importPc = "chain" /\ pos < Len(export.chainstate)
  /\ LET line == export.chainstate[pos + 1]
     IN  line.kind = "row" /\ section = "names" /\ line.ns \notin namespaces
  /\ Abort

ChainstateRead ==
  /\ importPc = "chain" /\ pos = Len(export.chainstate)
  /\ Goto("subdomains") /\ UNCHANGED <<db, txn, config>>

(* Mutant: the hashes of the two files are not compared.                    *)
AlignedUnchecked(i) == i <= Len(Subdomains(export.subdomains)) /\ i <= Len(Pairs(export.subdomainZones))

(* The i-th subdomain has the i-th zone file.                               *)
Aligned(i) ==
  LET subs == Subdomains(export.subdomains)
      zones == Pairs(export.subdomainZones)
  IN  i <= Len(subs) /\ i <= Len(zones) /\ subs[i].hash = zones[i].hash

(* readSubdomains.                                                          *)
ReadSubdomain ==
  /\ importPc = "subdomains" /\ Len(batch) < BatchSize
  /\ LET subs == Subdomains(export.subdomains)
         zones == Pairs(export.subdomainZones)
     IN  /\ Aligned(pos + 1)
         /\ batch' = Append(batch, [sub |-> subs[pos + 1].sub, owner |-> subs[pos + 1].owner,
                                    zonefile |-> zones[pos + 1].zonefile])
  /\ pos' = pos + 1
  /\ UNCHANGED <<export, db, txn, config, importPc, section, namespaces, faults>>

(* Both files end together.                                                 *)
AtEnd ==
  pos = Len(Subdomains(export.subdomains)) /\ pos = Len(Pairs(export.subdomainZones))

(* "Unexpected subdomain streams end mismatch", "Unordered entries".        *)
MismatchedSubdomain ==
  /\ importPc = "subdomains" /\ Len(batch) < BatchSize /\ ~AtEnd /\ ~Aligned(pos + 1)
  /\ Abort

(* updateBatchSubdomains.                                                   *)
InsertSubdomains ==
  /\ importPc = "subdomains" /\ Flush("subdomains", AtEnd)
  /\ UNCHANGED <<export, db, config, importPc, pos, section, namespaces, faults>>

(* updateConfigState and COMMIT.                                            *)
BnsCommitted ==
  /\ importPc = "subdomains" /\ AtEnd /\ batch = <<>>
  /\ db' = updateConfigState([config EXCEPT !.bns = TRUE])
  /\ txn' = db'

CommitBns == BnsCommitted /\ Goto("up") /\ UNCHANGED config

-----------------------------------------------------------------------------
Step ==
  \/ ImportTokenOffering \/ ReadVesting \/ InsertVesting \/ CommitOffering
  \/ OfferingHashMismatch
  \/ ImportBns \/ ReadChainstate \/ MissingNamespace \/ ChainstateRead
  \/ ReadSubdomain \/ MismatchedSubdomain \/ InsertSubdomains \/ CommitBns

Stop ==
  /\ faults < MaxFaults /\ faults' = faults + 1
  /\ importPc' = "down" /\ pos' = 0 /\ section' = "none" /\ namespaces' = {} /\ batch' = <<>>
  /\ UNCHANGED <<export, config>>

(* A statement fails or the process stops; Postgres drops the transaction.  *)
Fail == importPc # "down" /\ Stop /\ txn' = db /\ UNCHANGED db

(* The answer to COMMIT is lost.                                            *)
CommitUnanswered == Stop /\ (OfferingCommitted \/ BnsCommitted)

ImportNext == Boot \/ Step \/ Fail \/ CommitUnanswered

ImportSpec == ImportInit /\ [][ImportNext]_importVars

(* The start-up runs to its end, and a stopped process is started again.    *)
ImportFairSpec == ImportSpec /\ WF_importVars(Step) /\ WF_importVars(Boot)

-----------------------------------------------------------------------------
Phases == {"down", "offering", "vesting", "bns", "chain", "subdomains", "up", "failed"}

(* ImportTypeOK: rows are held back only up to a batch, and a transaction   *)
(* differs from the tables only while an import runs.                       *)
ImportTypeOK ==
  /\ importPc \in Phases
  /\ Len(batch) <= BatchSize
  /\ section \in {"none", "names", "namespaces", "vesting"}
  /\ importPc \notin {"vesting", "chain", "subdomains"} => txn = db

(* What the files say, read as a whole: the rows of a section.             *)
RowsAt(lines, sec) == {i \in DOMAIN lines : lines[i].kind = "row" /\ SectionOf(lines, i) = sec}

(* The rows of a section, in order, and those among the first n lines.      *)
RowsAbove(lines, sec, n) ==
  LET at == {i \in RowsAt(lines, sec) : i <= n}
  IN  [k \in 1..Cardinality(at) |-> lines[Nth(at, k)]]
RowsOf(lines, sec) == RowsAbove(lines, sec, Len(lines))

(* A data directory is good when its hashes match, every name's namespace   *)
(* comes before it, and the two subdomain files go together.                *)
Importable(e) ==
  /\ e.intact
  /\ \A i \in RowsAt(e.chainstate, "names") : \E j \in RowsAt(e.chainstate, "namespaces") :
       j < i /\ e.chainstate[j].name = e.chainstate[i].ns
  /\ Len(Subdomains(e.subdomains)) = Len(Pairs(e.subdomainZones))
  /\ \A i \in DOMAIN Subdomains(e.subdomains) :
       Subdomains(e.subdomains)[i].hash = Pairs(e.subdomainZones)[i].hash

NamesOf(rows, zones) == [k \in DOMAIN rows |-> Name(rows[k], zones)]
SpacesOf(rows) == [k \in DOMAIN rows |-> rows[k].name]
VestingOf(rows) ==
  [k \in DOMAIN rows |-> [address |-> ToStx(rows[k].address), value |-> rows[k].value, block |-> rows[k].block]]
SubdomainRow(e, i) ==
  LET sub == Subdomains(e.subdomains)[i]
  IN  [sub |-> sub.sub, owner |-> sub.owner, zonefile |-> Pairs(e.subdomainZones)[i].zonefile]
SubdomainRows(e, n) == [i \in 1..n |-> SubdomainRow(e, i)]

BnsImported(e) ==
  /\ db.names = NamesOf(RowsOf(e.chainstate, "names"), e.zones)
  /\ db.spaces = SpacesOf(RowsOf(e.chainstate, "namespaces"))
  /\ db.subdomains = SubdomainRows(e, Len(Subdomains(e.subdomains)))

(* Whatever fails and however often the process starts again, the BNS       *)
(* tables hold nothing, or, with the flag, each row of the files once and   *)
(* in order; and the flag is only ever set for a good data directory.       *)
BnsAllOrNothing ==
  IF db.bns THEN Importable(export) /\ BnsImported(export)
  ELSE db.names = <<>> /\ db.spaces = <<>> /\ db.subdomains = <<>>

(* The same for the vesting schedule: rows inserted before the hash of the  *)
(* file is known do not survive a mismatch.                                 *)
OfferingAllOrNothing ==
  IF db.offering
  THEN export.genesisIntact /\ db.locked = VestingOf(RowsOf(export.genesis, "stx_vesting"))
  ELSE db.locked = <<>>

(* Each import writes all flags from a row read before its transaction; it  *)
(* never takes back the flag of the other, which would import it twice.     *)
FlagsKept == [][(db.offering => db'.offering) /\ (db.bns => db'.bns)]_importVars

IsDb(d) ==
  /\ d = [locked |-> d.locked, spaces |-> d.spaces, names |-> d.names, subdomains |-> d.subdomains,
          offering |-> d.offering, bns |-> d.bns]
  /\ d.offering \in BOOLEAN /\ d.bns \in BOOLEAN

(* The inductive invariant.  An import reads its flag, and nothing else     *)
(* writes the tables until its transaction ends.                            *)
Phase ==
  /\ importPc \in Phases /\ faults \in Nat /\ export \in Exports /\ pos \in Nat
  /\ IsDb(db) /\ IsDb(txn) /\ IsList(txn.locked) /\ IsList(txn.subdomains) /\ IsList(batch)
  /\ importPc \notin {"vesting", "chain", "subdomains"} => txn = db
  /\ importPc \in {"vesting", "chain", "subdomains"} => config = Flags
  /\ importPc \notin {"vesting", "subdomains"} => batch = <<>>
  /\ importPc \notin {"vesting", "chain"} => section = "none"
  /\ Len(batch) <= BatchSize

(* The lines read so far are in the transaction or in the batch.            *)
VestingRead ==
  LET lines == export.genesis
  IN  /\ ~db.offering /\ pos <= Len(lines)
      /\ section = IF SectionOf(lines, pos + 1) = "stx_vesting" THEN "vesting" ELSE "none"
      /\ txn = [db EXCEPT !.locked = txn.locked]
      /\ txn.locked \o batch = VestingOf(RowsAbove(lines, "stx_vesting", pos))

(* All names read so far had their namespace above them.                    *)
SpacesAbove(lines, n) ==
  \A i \in RowsAt(lines, "names") : i <= n =>
    \E j \in RowsAt(lines, "namespaces") : j < i /\ lines[j].name = lines[i].ns

ChainTables(n) ==
  [db EXCEPT !.names = NamesOf(RowsAbove(export.chainstate, "names", n), export.zones),
             !.spaces = SpacesOf(RowsAbove(export.chainstate, "namespaces", n))]

ChainstateSoFar ==
  LET lines == export.chainstate
  IN  /\ ~db.bns /\ valid /\ pos <= Len(lines) /\ SpacesAbove(lines, pos)
      /\ section = IF SectionOf(lines, pos + 1) \in {"names", "namespaces"}
                   THEN SectionOf(lines, pos + 1) ELSE "none"
      /\ namespaces = {lines[j].name : j \in {i \in RowsAt(lines, "namespaces") : i <= pos}}
      /\ txn = ChainTables(pos)

SubdomainsSoFar ==
  LET subs == Subdomains(export.subdomains)
      zones == Pairs(export.subdomainZones)
  IN  /\ ~db.bns /\ valid /\ SpacesAbove(export.chainstate, Len(export.chainstate))
      /\ pos <= Len(subs) /\ pos <= Len(zones)
      /\ \A i \in 1..pos : subs[i].hash = zones[i].hash
      /\ txn = [ChainTables(Len(export.chainstate)) EXCEPT !.subdomains = txn.subdomains]
      /\ txn.subdomains \o batch = SubdomainRows(export, pos)

ImportIInv ==
  /\ Phase /\ BnsAllOrNothing /\ OfferingAllOrNothing
  /\ importPc = "vesting" => VestingRead
  /\ importPc = "chain" => ChainstateSoFar
  /\ importPc = "subdomains" => SubdomainsSoFar

(* With good data the API comes up, both imports done.                      *)
ComesUp ==
  Importable(export) /\ export.genesisIntact ~> importPc = "up" /\ db.offering /\ db.bns
=============================================================================
