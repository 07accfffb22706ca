-------------------------- MODULE BurnchainQueries --------------------------
(***************************************************************************)
(* The burnchain routes: lists of rewards and of reward slot holders, for   *)
(* all or for one address, read page by page while burn blocks, forks of    *)
(* the burnchain and repeated messages change the tables between two pages. *)
(* Only the canonical rows of a table are kept: no query reads others.      *)
(***************************************************************************)
EXTENDS Naturals, Sequences, SequencesExt, FiniteSets, FiniteSetsExt

CONSTANTS
  BurnBlock,       \* burnchain blocks
  Height,          \* the height of each
  Recipients,      \* of each the sequence of reward recipients
  Holders,         \* of each the sequence of slot holders
  Stx, Btc,        \* addresses in the two formats
  C32ToB58,        \* the Bitcoin address of a Stacks address
  PageLimit,       \* the limit of every request
  MaxMessages, MaxCrashes

Junk == "junk"     \* neither a Bitcoin nor a Stacks address
All == "all"       \* a route without an address
None == "none"

VARIABLES
  rewards, slots,  \* the canonical rows
  message,         \* the burn block being stored, and whether its rewards are
  messages, crashes,
  reader           \* the client that reads a list

vars == <<rewards, slots, message, messages, crashes, reader>>

-----------------------------------------------------------------------------
(* The two transactions of a burn block message.                            *)
Row(b, list, i) == [block |-> b, height |-> Height[b], index |-> i, addr |-> list[i]]
Rows(b, list) == {Row(b, list, i) : i \in DOMAIN list}
Replace(table, b, list) == {r \in table : r.block # b /\ r.height < Height[b]} \cup Rows(b, list)

Moved(grown) == [reader EXCEPT !.moved = TRUE, !.reorged = @ \/ ~grown]

Receive(b) ==
  /\ message = [block |-> None, rewarded |-> FALSE] /\ messages < MaxMessages
  /\ \A h \in 1..(Height[b] - 1) : \E r \in rewards : r.height = h
  /\ message' = [block |-> b, rewarded |-> FALSE] /\ messages' = messages + 1
  /\ UNCHANGED <<rewards, slots, crashes, reader>>

updateBurnchainRewards ==
  /\ message.block # None /\ ~message.rewarded
  /\ rewards' = Replace(rewards, message.block, Recipients[message.block])
  /\ message' = [message EXCEPT !.rewarded = TRUE]
  /\ reader' = IF reader.kind = "rewards" THEN Moved(rewards \subseteq rewards') ELSE reader
  /\ UNCHANGED <<slots, messages, crashes>>

updateBurnchainRewardSlotHolders ==
  /\ message.block # None /\ message.rewarded
  /\ slots' = Replace(slots, message.block, Holders[message.block])
  /\ message' = [block |-> None, rewarded |-> FALSE]
  /\ reader' = IF reader.kind = "slots" THEN Moved(slots \subseteq slots') ELSE reader
  /\ UNCHANGED <<rewards, messages, crashes>>

(* The process dies with the message; the node sends it again, or another.  *)
Crash ==
  /\ message.block # None /\ crashes < MaxCrashes
  /\ message' = [block |-> None, rewarded |-> FALSE] /\ crashes' = crashes + 1
  /\ UNCHANGED <<rewards, slots, messages, reader>>

-----------------------------------------------------------------------------
Later(r, s) == r.height > s.height \/ (r.height = s.height /\ r.index > s.index)

Matching(table, addr) == {r \in table : addr \in {All, r.addr}}

From(list, first) == SubSeq(list, first, IF Len(list) < first + PageLimit THEN Len(list) ELSE first + PageLimit - 1)

Page(rows, offset) == From(SetToSortSeq(rows, Later), offset + 1)

getBurnchainRewards(addr, offset) == Page(Matching(rewards, addr), offset)

(* The count is a column of the rows: without a row there is no count.      *)
getBurnchainRewardSlotHolders(addr, offset) ==
  LET rows == Page(Matching(slots, addr), offset)
  IN  [total |-> IF rows = <<>> THEN 0 ELSE Cardinality(Matching(slots, addr)), rows |-> rows]

(* Every reward counts 1: the total is the number of the canonical rewards. *)
getBurnchainRewardsTotal(addr) == Cardinality(Matching(rewards, addr))

(* A Stacks address is converted, anything else refused.                    *)
BurnchainAddress(addr) ==
  CASE addr \in Btc \cup {All} -> addr
    [] addr \in Stx -> C32ToB58[addr]
    [] OTHER -> None

Idle == [pc |-> "idle", kind |-> None, addr |-> None, asked |-> None, offset |-> 0, got |-> <<>>, before |-> {},
         moved |-> FALSE, reorged |-> FALSE, total |-> 0, last |-> 0]

Ask(kind, addr) ==
  /\ reader.pc \in {"idle", "done"} /\ messages < MaxMessages
  /\ reader' =
       IF BurnchainAddress(addr) = None THEN [Idle EXCEPT !.pc = "done", !.asked = addr]
       ELSE [Idle EXCEPT !.pc = "reading", !.kind = kind, !.addr = BurnchainAddress(addr), !.asked = addr,
               !.before = Matching(IF kind = "rewards" THEN rewards ELSE slots, BurnchainAddress(addr))]
  /\ UNCHANGED <<rewards, slots, message, messages, crashes>>

Turn(rows) == [reader EXCEPT !.got = @ \o rows, !.offset = @ + PageLimit,
                             !.pc = IF rows = <<>> THEN "pages read" ELSE "reading"]

ReadRewards ==
  /\ reader.pc = "reading" /\ reader.kind = "rewards"
  /\ reader' = Turn(getBurnchainRewards(reader.addr, reader.offset))
  /\ UNCHANGED <<rewards, slots, message, messages, crashes>>

ReadRewardsTotal ==
  /\ reader.pc = "pages read" /\ reader.kind = "rewards"
  /\ reader' = [reader EXCEPT !.pc = "done",
                  !.total = IF reader.addr = All THEN 0 ELSE getBurnchainRewardsTotal(reader.addr)]
  /\ UNCHANGED <<rewards, slots, message, messages, crashes>>

ReadSlots ==
  /\ reader.pc = "reading" /\ reader.kind = "slots"
  /\ LET answer == getBurnchainRewardSlotHolders(reader.addr, reader.offset)
     IN  reader' = [Turn(answer.rows) EXCEPT
                      !.pc = IF answer.rows = <<>> THEN "done" ELSE "reading",
                      !.last = answer.total,
                      !.total = IF answer.rows = <<>> THEN @ ELSE answer.total]
  /\ UNCHANGED <<rewards, slots, message, messages, crashes>>

Init ==
  /\ rewards = {} /\ slots = {} /\ message = [block |-> None, rewarded |-> FALSE]
  /\ messages = 0 /\ crashes = 0 /\ reader = Idle

Next ==
  \/ \E b \in BurnBlock : Receive(b)
  \/ updateBurnchainRewards \/ updateBurnchainRewardSlotHolders \/ Crash
  \/ \E kind \in {"rewards", "slots"}, addr \in Stx \cup Btc \cup {All, Junk} : Ask(kind, addr)
  \/ ReadRewards \/ ReadRewardsTotal \/ ReadSlots

Spec == Init /\ [][Next]_vars

-----------------------------------------------------------------------------
(* TypeOK: rows come from burn blocks, and a list is read for an address of *)
(* the burnchain.                                                           *)
TypeOK ==
  /\ rewards \subseteq UNION {Rows(b, Recipients[b]) : b \in BurnBlock}
  /\ slots \subseteq UNION {Rows(b, Holders[b]) : b \in BurnBlock}
  /\ reader.pc \in {"idle", "reading", "pages read", "done"}
  /\ reader.addr \in Btc \cup {All, None}
  /\ reader.asked \in {Junk, None} <=> reader.addr = None

(* The pages of rewards, read with nothing changed meanwhile, add up to the *)
(* total of the address.                                                    *)
PagesSumToTotal ==
  reader.pc = "done" /\ reader.kind = "rewards" /\ reader.addr # All /\ ~reader.moved => Len(reader.got) = reader.total

(* The pages of slot holders hold as many as the total said.                *)
PagesHoldTotal == reader.pc = "done" /\ reader.kind = "slots" /\ ~reader.moved => Len(reader.got) = reader.total

(* While the burnchain only grows, whoever reads all pages misses no row    *)
(* that was there when the reading began.                                   *)
GrowthHidesNothing ==
  reader.pc = "done" /\ ~reader.reorged => reader.before \subseteq ToSet(reader.got)

(* A list never shows two burn blocks of one height, unless the burnchain   *)
(* forked while it was read.                                                *)
OneBlockPerHeight ==
  ~reader.reorged =>
    \A i, j \in DOMAIN reader.got : reader.got[i].height = reader.got[j].height => reader.got[i].block = reader.got[j].block

(* "Total number of available items", with every answer.                    *)
SlotTotalAvailable ==
  reader.pc = "done" /\ reader.kind = "slots" /\ ~reader.moved => reader.last = Cardinality(Matching(slots, reader.addr))
=============================================================================
