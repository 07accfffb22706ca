-------------------------- MODULE EventServerProofs --------------------------
(***************************************************************************)
(* Proofs that IInv of EventServer is inductive, for every block tree, set  *)
(* of burn blocks and number of faults, and of the safety properties it     *)
(* implies.                                                                 *)
(***************************************************************************)
EXTENDS EventServer, TLAPS

USE EventServerAssumption, NoMessageAssumption

(* Every message belongs to one feed; blocks and burn blocks share one.     *)
LEMMA FeedFacts ==
  \A m \in Message :
    /\ FeedOf(m) \in Feed
    /\ m \in BlockMessage \cup BurnMessage => FeedOf(m) = "chain"
    /\ m \in OtherMessage => FeedOf(m) # "chain"
BY DEF Message, BlockMessage, BurnMessage, OtherMessage, FeedOf, Feed

(* The handlers of a block and of a burn block have two steps each.         *)
LEMMA StepFacts ==
  ASSUME NEW m \in Message
  PROVE  /\ Len(StepsOf(m)) \in 1..2
         /\ m \in BlockMessage =>
              Len(StepsOf(m)) = 2 /\ StepsOf(m)[1] = "update" /\ StepsOf(m)[2] = "emit"
         /\ m \in BurnMessage =>
              /\ Len(StepsOf(m)) = 2
              /\ StepsOf(m)[1] = "updateBurnchainRewards"
              /\ StepsOf(m)[2] = "updateBurnchainRewardSlotHolders"
         /\ m \in OtherMessage =>
              \A i \in 1..Len(StepsOf(m)) :
                StepsOf(m)[i] \in {"updateMempoolTxs", "dropMempoolTxs",
                                   "resolveBnsSubdomains", "resolveBnsNames"}
<1>1. CASE m \in BlockMessage
  BY <1>1 DEF Message, BlockMessage, BurnMessage, OtherMessage, StepsOf
<1>2. CASE m \in BurnMessage
  BY <1>2 DEF Message, BlockMessage, BurnMessage, OtherMessage, StepsOf
<1>3. CASE m \in OtherMessage
  BY <1>3 DEF Message, BlockMessage, BurnMessage, OtherMessage, StepsOf
<1> QED BY <1>1, <1>2, <1>3 DEF Message

LEMMA Kinds ==
  /\ BlockMessage \cap BurnMessage = {}
  /\ BlockMessage \cap OtherMessage = {}
  /\ BurnMessage \cap OtherMessage = {}
BY DEF BlockMessage, BurnMessage, OtherMessage

(* Which message a step of a handler is of, and where the handler stands.   *)
LEMMA StepOf ==
  ASSUME TypeOK, NEW s, AtStep(s)
  PROVE  /\ running \in Post
         /\ running.msg \in Message
         /\ s = "update" => running.msg \in BlockMessage /\ step = 1
         /\ s = "emit" => running.msg \in BlockMessage /\ step = 2
         /\ s = "updateBurnchainRewards" => running.msg \in BurnMessage /\ step = 1
         /\ s = "updateBurnchainRewardSlotHolders" => running.msg \in BurnMessage /\ step = 2
         /\ s \in {"updateMempoolTxs", "dropMempoolTxs", "resolveBnsSubdomains",
                   "resolveBnsNames"} => running.msg \in OtherMessage
         /\ step \in 1..2
         /\ step' = step + 1
<1>1. running \in Post /\ running.msg \in Message
  BY DEF AtStep, TypeOK, Post
<1>2. step \in 1..Len(StepsOf(running.msg)) /\ StepsOf(running.msg)[step] = s
  BY DEF AtStep, TypeOK
<1>3. step \in 1..2
  BY <1>1, <1>2, StepFacts
<1>4. CASE running.msg \in BlockMessage
  BY <1>1, <1>2, <1>3, <1>4, StepFacts DEF AtStep
<1>5. CASE running.msg \in BurnMessage
  BY <1>1, <1>2, <1>3, <1>5, StepFacts DEF AtStep
<1>6. CASE running.msg \in OtherMessage
  BY <1>1, <1>2, <1>3, <1>6, StepFacts DEF AtStep
<1> QED BY <1>1, <1>4, <1>5, <1>6 DEF Message

-----------------------------------------------------------------------------
(* Giving up on a feed keeps the queue's messages, and hushes that feed.    *)
LEMMA DeafFacts ==
  ASSUME NEW post \in Post \cup {NoPost}, NEW f \in Feed
  PROVE  /\ Deaf(post, f) \in Post \cup {NoPost}
         /\ Deaf(post, f).msg = post.msg
         /\ (Deaf(post, f) = NoPost) <=> (post = NoPost)
         /\ post \in Post => Deaf(post, f) \in Post
         /\ Deaf(post, f).live => post.live
         /\ post # NoPost /\ Deaf(post, f).live => FeedOf(post.msg) # f
<1>1. NoPost \notin Post
  BY DEF NoPost, Post
<1>2. CASE post = NoPost
  BY <1>2, <1>1 DEF Deaf, NoPost
<1>3. CASE post # NoPost /\ FeedOf(post.msg) = f
  BY <1>3, <1>1 DEF Deaf, Post
<1>4. CASE post # NoPost /\ FeedOf(post.msg) # f
  BY <1>4, <1>1 DEF Deaf, Post
<1> QED BY <1>2, <1>3, <1>4

-----------------------------------------------------------------------------
(* The queue: type, no late repeat, the newest post is the live one.        *)
QueueInv == TypeOK /\ NoLateRepeat /\ LiveIsNewest

LEMMA ReplaceType ==
  ASSUME NEW table \in [BurnBlock -> Nat], NEW b \in BurnBlock,
         NEW withRows \in SUBSET BurnBlock
  PROVE  ReplaceBurnRows(table, b, b \in withRows) \in [BurnBlock -> Nat]
<1>1. CASE b \in withRows
  BY <1>1 DEF ReplaceBurnRows
<1>2. CASE b \notin withRows
  BY <1>2 DEF ReplaceBurnRows
<1> QED BY <1>1, <1>2

LEMMA TypeStep == TypeOK /\ [Next]_vars => TypeOK'
<1> SUFFICES ASSUME TypeOK, [Next]_vars PROVE TypeOK'
  OBVIOUS
<1>0. NoPost \notin Post
  BY DEF NoPost, Post
<1>1. ASSUME NEW m \in Message, NextMessage(m) PROVE TypeOK'
  BY <1>1, FeedFacts DEF TypeOK, NextMessage, BurnMessage, serverVars, tables
<1>2. ASSUME NEW f \in Feed, PostMessage(f) PROVE TypeOK'
  <2>1. [msg |-> outstanding[f], live |-> TRUE] \in Post
    BY <1>2 DEF PostMessage, TypeOK, Post
  <2>2. queue' \in Seq(Post)
    BY <1>2, <2>1 DEF PostMessage, TypeOK
  <2> QED BY <1>2, <2>2 DEF PostMessage, TypeOK, tables
<1>3. ASSUME NEW f \in Feed, Timeout(f) PROVE TypeOK'
  <2>1. queue' \in Seq(Post)
    <3>1. \A i \in DOMAIN queue : Deaf(queue[i], f) \in Post
      BY DeafFacts DEF TypeOK
    <3>2. queue' = [i \in 1..Len(queue) |-> Deaf(queue[i], f)]
      BY <1>3 DEF Timeout, TypeOK
    <3> QED BY <3>1, <3>2 DEF TypeOK
  <2>2. running' \in Post \cup {NoPost}
    BY <1>3, DeafFacts DEF Timeout, TypeOK
  <2> QED BY <1>3, <2>1, <2>2 DEF Timeout, TypeOK, tables
<1>4. CASE Start
  BY <1>4 DEF Start, TypeOK, tables
<1>5. CASE UpdateBlock
  <2>1. running.msg.block \in Block /\ step = 1
    BY <1>5, StepOf DEF UpdateBlock, BlockMessage
  <2>2. known' \subseteq Block /\ main' \subseteq known'
    BY <1>5, <2>1 DEF UpdateBlock, Index!Fork, Index!Extend, TypeOK
  <2> QED BY <1>5, <2>1, <2>2 DEF UpdateBlock, AtStep, TypeOK
<1>6. CASE EmitBlock
  <2>1. running.msg.block \in Block /\ step = 2
    BY <1>6, StepOf DEF EmitBlock, BlockMessage
  <2> QED BY <1>6, <2>1 DEF EmitBlock, AtStep, TypeOK, tables
<1>7. CASE UpdateBurnchainRewards
  <2>1. running.msg.block \in BurnBlock /\ step = 1
    BY <1>7, StepOf DEF UpdateBurnchainRewards, BurnMessage
  <2>2. rewards' \in [BurnBlock -> Nat]
    BY <1>7, <2>1, ReplaceType DEF UpdateBurnchainRewards, TypeOK
  <2> QED BY <1>7, <2>1, <2>2 DEF UpdateBurnchainRewards, AtStep, TypeOK
<1>8. CASE UpdateBurnchainRewardSlotHolders
  <2>1. running.msg.block \in BurnBlock /\ step = 2
    BY <1>8, StepOf DEF UpdateBurnchainRewardSlotHolders, BurnMessage
  <2>2. slots' \in [BurnBlock -> Nat]
    BY <1>8, <2>1, ReplaceType DEF UpdateBurnchainRewardSlotHolders, TypeOK
  <2> QED BY <1>8, <2>1, <2>2 DEF UpdateBurnchainRewardSlotHolders, AtStep, TypeOK
<1>9. CASE UpdateOtherTables
  <2>1. step \in 1..2 /\ step' = step + 1
    BY <1>9, StepOf DEF UpdateOtherTables
  <2> QED BY <1>9, <2>1 DEF UpdateOtherTables, AtStep, TypeOK, tables
<1>10. CASE Respond
  <2>1. running \in Post /\ FeedOf(running.msg) \in Feed
    BY <1>10, FeedFacts DEF Respond, TypeOK, Post
  <2>2. /\ outstanding' \in [Feed -> Message \cup {NoMessage}]
        /\ waiting' \in [Feed -> BOOLEAN]
    BY <1>10, <2>1 DEF Respond, TypeOK
  <2>3. acked' \subseteq Block
    BY <1>10 DEF Respond, TypeOK, BlockMessage
  <2> QED BY <1>10, <2>2, <2>3 DEF Respond, TypeOK, tables
<1>11. ASSUME running # NoPost, RespondError, faults' \in 0..MaxFaults PROVE TypeOK'
  <2>1. running \in Post /\ FeedOf(running.msg) \in Feed
    BY <1>11, FeedFacts DEF TypeOK, Post
  <2> QED BY <1>11, <2>1 DEF RespondError, TypeOK, tables
<1>12. CASE RejectBlock
  BY <1>12, <1>11 DEF RejectBlock, TypeOK
<1>13. CASE Fail
  BY <1>13, <1>11 DEF Fail, TypeOK
<1>14. CASE Crash
  BY <1>14 DEF Crash, TypeOK, tables
<1>15. CASE UNCHANGED vars
  BY <1>15 DEF vars, TypeOK
<1> QED BY <1>1, <1>2, <1>3, <1>4, <1>5, <1>6, <1>7, <1>8, <1>9, <1>10, <1>12, <1>13,
           <1>14, <1>15 DEF Next, Handle, Node, Fault

(* Steps that leave the queue, the posts and what is outstanding alone.     *)
LEMMA QuietStep ==
  ASSUME QueueInv, UNCHANGED <<outstanding, waiting, queue, running>>
  PROVE  (NoLateRepeat /\ LiveIsNewest)'
BY DEF QueueInv, NoLateRepeat, LiveIsNewest, Outstanding

LEMMA QueueStep == QueueInv /\ [Next]_vars => QueueInv'
<1> SUFFICES ASSUME QueueInv, [Next]_vars PROVE (NoLateRepeat /\ LiveIsNewest)'
  BY TypeStep DEF QueueInv
<1> USE DEF QueueInv
<1>0. /\ NoPost \notin Post
      /\ queue \in Seq(Post)
      /\ \A i \in DOMAIN queue :
           queue[i] \in Post /\ queue[i].msg \in Message /\ FeedOf(queue[i].msg) \in Feed
      /\ running # NoPost =>
           running \in Post /\ running.msg \in Message /\ FeedOf(running.msg) \in Feed
  <2>1. NoPost \notin Post
    BY DEF NoPost, Post
  <2>2. \A p \in Post : p.msg \in Message /\ FeedOf(p.msg) \in Feed
    BY FeedFacts DEF Post
  <2>3. queue \in Seq(Post) /\ running \in Post \cup {NoPost}
    BY DEF TypeOK
  <2>4. \A i \in DOMAIN queue : queue[i] \in Post
    BY <2>3
  <2> QED BY <2>1, <2>2, <2>3, <2>4
<1>1. ASSUME NEW m \in Message, NextMessage(m) PROVE (NoLateRepeat /\ LiveIsNewest)'
  <2>1. \A n \in Message : FeedOf(n) # FeedOf(m) => outstanding'[FeedOf(n)] = outstanding[FeedOf(n)]
    BY <1>1, FeedFacts DEF NextMessage, TypeOK
  <2>2. \A i \in DOMAIN queue : FeedOf(queue[i].msg) # FeedOf(m)
    BY <1>0, <1>1 DEF NextMessage, NoLateRepeat, Outstanding
  <2>3. running # NoPost => FeedOf(running.msg) # FeedOf(m)
    BY <1>0, <1>1 DEF NextMessage, NoLateRepeat, Outstanding
  <2>4. UNCHANGED <<waiting, queue, running>>
    BY <1>1 DEF NextMessage, serverVars
  <2>5. NoLateRepeat'
    BY <1>0, <2>1, <2>2, <2>3, <2>4 DEF NoLateRepeat, Outstanding
  <2>6. LiveIsNewest'
    BY <2>4 DEF LiveIsNewest
  <2> QED BY <2>5, <2>6
<1>2. ASSUME NEW f \in Feed, PostMessage(f) PROVE (NoLateRepeat /\ LiveIsNewest)'
  <2> DEFINE p == [msg |-> outstanding[f], live |-> TRUE]
  <2>1. /\ p \in Post /\ p.msg = outstanding[f] /\ p.msg \in Message
        /\ UNCHANGED <<outstanding, running>>
        /\ queue' = Append(queue, p)
        /\ waiting' = [waiting EXCEPT ![f] = TRUE]
    BY <1>2 DEF PostMessage, TypeOK, Post
  <2> HIDE DEF p
  <2>2. /\ DOMAIN queue' = 1..(Len(queue) + 1)
        /\ DOMAIN queue = 1..Len(queue)
        /\ Len(queue) \in Nat
        /\ \A i \in DOMAIN queue : queue'[i] = queue[i]
        /\ queue'[Len(queue) + 1] = p
    BY <1>0, <2>1
  <2>3. outstanding[FeedOf(p.msg)] = p.msg /\ FeedOf(p.msg) = f
    \* a feed's outstanding message is one of that feed
    BY <1>2, <2>1 DEF PostMessage, TypeOK, Outstanding, NoLateRepeat
  <2>4. NoLateRepeat'
    BY <1>0, <2>1, <2>2, <2>3 DEF NoLateRepeat, Outstanding
  <2>5. ~waiting[f]
    BY <1>2 DEF PostMessage
  <2>6. LiveIsNewest'
    BY <1>0, <2>1, <2>2, <2>3, <2>5 DEF LiveIsNewest, TypeOK
  <2> QED BY <2>4, <2>6
<1>3. ASSUME NEW f \in Feed, Timeout(f) PROVE (NoLateRepeat /\ LiveIsNewest)'
  <2>1. /\ DOMAIN queue' = DOMAIN queue
        /\ \A i \in DOMAIN queue : queue'[i] = Deaf(queue[i], f)
        /\ running' = Deaf(running, f)
        /\ outstanding' = outstanding
        /\ waiting' = [waiting EXCEPT ![f] = FALSE]
    BY <1>3, <1>0 DEF Timeout
  <2>2. \A i \in DOMAIN queue :
          /\ queue'[i].msg = queue[i].msg
          /\ queue'[i].live => queue[i].live /\ FeedOf(queue[i].msg) # f
    BY <1>0, <2>1, DeafFacts
  <2>3. /\ (running' = NoPost) <=> (running = NoPost)
        /\ running'.msg = running.msg
        /\ running # NoPost /\ running'.live => running.live /\ FeedOf(running.msg) # f
    BY <1>0, <2>1, DeafFacts DEF TypeOK
  <2>4. NoLateRepeat'
    BY <2>1, <2>2, <2>3 DEF NoLateRepeat, Outstanding
  <2>5. LiveIsNewest'
    BY <1>0, <2>1, <2>2, <2>3 DEF LiveIsNewest, TypeOK
  <2> QED BY <2>4, <2>5
<1>4. CASE Start
  <2>1. /\ queue # <<>>
        /\ running' = queue[1]
        /\ UNCHANGED <<outstanding, waiting>>
        /\ 1 \in DOMAIN queue
        /\ DOMAIN queue = 1..Len(queue)
        /\ DOMAIN queue' = 1..(Len(queue) - 1)
        /\ Len(queue) \in Nat
        /\ \A i \in DOMAIN queue' : i + 1 \in DOMAIN queue /\ queue'[i] = queue[i + 1]
    BY <1>4, <1>0 DEF Start
  <2>2. NoLateRepeat'
    BY <2>1 DEF NoLateRepeat, Outstanding
  <2>3. LiveIsNewest'
    BY <2>1 DEF LiveIsNewest
  <2> QED BY <2>2, <2>3
<1>5. CASE \E s : AtStep(s)
  BY <1>5, QuietStep DEF AtStep
<1>6. CASE Respond
  <2> DEFINE f == FeedOf(running.msg)
  <2>1. /\ running # NoPost /\ running' = NoPost /\ queue' = queue
        /\ running.msg \in Message /\ f \in Feed
        /\ running.live => /\ outstanding' = [outstanding EXCEPT ![f] = NoMessage]
                           /\ waiting' = [waiting EXCEPT ![f] = FALSE]
        /\ ~running.live => UNCHANGED <<outstanding, waiting>>
    BY <1>6, <1>0 DEF Respond
  <2>2. running.live => \A j \in DOMAIN queue : FeedOf(queue[j].msg) # f
    BY <2>1 DEF LiveIsNewest
  <2> HIDE DEF f
  <2>3. \A j \in DOMAIN queue :
          /\ outstanding'[FeedOf(queue[j].msg)] = outstanding[FeedOf(queue[j].msg)]
          /\ waiting'[FeedOf(queue[j].msg)] = waiting[FeedOf(queue[j].msg)]
    BY <1>0, <2>1, <2>2 DEF TypeOK
  <2>4. NoLateRepeat'
    BY <2>1, <2>3 DEF NoLateRepeat, Outstanding
  <2>5. LiveIsNewest'
    BY <2>1, <2>3 DEF LiveIsNewest
  <2> QED BY <2>4, <2>5
<1>7. ASSUME running # NoPost, RespondError PROVE (NoLateRepeat /\ LiveIsNewest)'
  <2> DEFINE f == FeedOf(running.msg)
  <2>1. /\ running # NoPost /\ running' = NoPost /\ queue' = queue
        /\ f \in Feed
        /\ outstanding' = outstanding
        /\ running.live => waiting' = [waiting EXCEPT ![f] = FALSE]
        /\ ~running.live => waiting' = waiting
    BY <1>7, <1>0 DEF RespondError
  <2>2. running.live => \A j \in DOMAIN queue : FeedOf(queue[j].msg) # f
    BY <2>1 DEF LiveIsNewest
  <2> HIDE DEF f
  <2>3. \A j \in DOMAIN queue : waiting'[FeedOf(queue[j].msg)] = waiting[FeedOf(queue[j].msg)]
    BY <1>0, <2>1, <2>2 DEF TypeOK
  <2>4. NoLateRepeat'
    BY <2>1 DEF NoLateRepeat, Outstanding
  <2>5. LiveIsNewest'
    BY <2>1, <2>3 DEF LiveIsNewest
  <2> QED BY <2>4, <2>5
<1>8. CASE Crash
  BY <1>8 DEF Crash, NoLateRepeat, LiveIsNewest
<1>9. CASE UNCHANGED vars
  BY <1>9, QuietStep DEF vars
<1> QED BY <1>1, <1>2, <1>3, <1>4, <1>5, <1>6, <1>7, <1>8, <1>9
        DEF Next, Handle, Node, Fault, UpdateBlock, EmitBlock, UpdateBurnchainRewards,
            UpdateBurnchainRewardSlotHolders, UpdateOtherTables, RejectBlock, Fail

-----------------------------------------------------------------------------
(* What one burn transaction does to a table: exact below b before, exact   *)
(* everywhere after; and it never leaves a block twice, or two of a height. *)
NoDouble(table) ==
  \A c \in BurnBlock :
    /\ table[c] <= 1
    /\ table[c] = 1 =>
         \A d \in BurnBlock : BurnHeight[d] = BurnHeight[c] /\ table[d] > 0 => d = c

LEMMA ReplaceValues ==
  ASSUME NEW table \in [BurnBlock -> Nat], NEW b \in BurnBlock,
         NEW withRows \in SUBSET BurnBlock, NEW new,
         new = ReplaceBurnRows(table, b, b \in withRows)
  PROVE  /\ b \in withRows => new[b] = 1
         /\ b \notin withRows => new[b] = 0
         /\ \A c \in BurnBlock :
              /\ c # b /\ BurnHeight[c] >= BurnHeight[b] => new[c] = 0
              /\ c # b /\ BurnHeight[c] < BurnHeight[b] => new[c] = table[c]
<1>1. CASE b \in withRows
  BY <1>1 DEF ReplaceBurnRows
<1>2. CASE b \notin withRows
  BY <1>2 DEF ReplaceBurnRows
<1> QED BY <1>1, <1>2

LEMMA ReplaceExact ==
  ASSUME NEW table \in [BurnBlock -> Nat], NEW b \in BurnBlock,
         NEW withRows \in SUBSET BurnBlock, NEW new,
         new = ReplaceBurnRows(table, b, b \in withRows),
         burnChain \subseteq BurnBlock, b \in burnChain,
         \A c \in burnChain : c # b => BurnHeight[c] < BurnHeight[b],
         BurnRowsBelow(table, withRows, b)
  PROVE  BurnRows(new, withRows)
<1> SUFFICES ASSUME NEW c \in BurnBlock
             PROVE  new[c] = IF c \in burnChain \cap withRows THEN 1 ELSE 0
  BY DEF BurnRows
<1>1. CASE c = b
  BY <1>1, ReplaceValues
<1>2. CASE c # b /\ BurnHeight[c] < BurnHeight[b]
  BY <1>2, ReplaceValues DEF BurnRowsBelow
<1>3. CASE c # b /\ ~(BurnHeight[c] < BurnHeight[b])
  <2>1. BurnHeight[c] >= BurnHeight[b]
    BY <1>3
  <2>2. c \notin burnChain
    BY <1>3
  <2> QED BY <1>3, <2>1, <2>2, ReplaceValues
<1> QED BY <1>1, <1>2, <1>3

LEMMA ReplaceNoDouble ==
  ASSUME NEW table \in [BurnBlock -> Nat], NEW b \in BurnBlock,
         NEW withRows \in SUBSET BurnBlock, NEW new,
         new = ReplaceBurnRows(table, b, b \in withRows), NoDouble(table)
  PROVE  NoDouble(new)
<1>1. \A c \in BurnBlock : BurnHeight[c] \in Nat /\ table[c] \in Nat
  OBVIOUS
<1>2. \A c \in BurnBlock : new[c] > 0 => c = b \/ (BurnHeight[c] < BurnHeight[b] /\ new[c] = table[c])
  BY <1>1, ReplaceValues
<1>3. \A c \in BurnBlock : new[c] <= 1
  BY <1>1, ReplaceValues DEF NoDouble
<1>4. ASSUME NEW c \in BurnBlock, new[c] = 1, NEW d \in BurnBlock,
             BurnHeight[d] = BurnHeight[c], new[d] > 0
      PROVE  d = c
  <2>1. CASE c = b \/ d = b
    BY <1>1, <1>2, <1>4, <2>1
  <2>2. CASE c # b /\ d # b
    BY <1>1, <1>2, <1>4, <2>2 DEF NoDouble
  <2> QED BY <2>1, <2>2
<1> QED BY <1>3, <1>4 DEF NoDouble

(* Both burn tables, all through the life of a burn message.                *)
BurnInv ==
  /\ BurnTablesExact
  /\ BurnProgress
  /\ running # NoPost /\ running.msg \in BurnMessage =>
       /\ step >= 2 => BurnRows(rewards, Rewarded)
       /\ step >= 3 => BurnRows(slots, Slotted)
  /\ NoDouble(rewards)
  /\ NoDouble(slots)

LEMMA BurnQuiet ==
  ASSUME BurnInv, UNCHANGED <<rewards, slots, burnChain, outstanding>>,
         \/ running' = NoPost
         \/ running # NoPost /\ running'.msg = running.msg /\ step' = step
         \/ step' = 1
         \/ running' = running /\ running.msg \notin BurnMessage
  PROVE  BurnInv'
<1>1. /\ \A t, w : BurnRows(t, w)' <=> BurnRows(t', w')
      /\ BurnRows(rewards, Rewarded)' <=> BurnRows(rewards, Rewarded)
      /\ BurnRows(slots, Slotted)' <=> BurnRows(slots, Slotted)
  BY DEF BurnRows
<1>2. BurnTablesExact'
  BY <1>1 DEF BurnTablesExact, BurnInv, BurnRows
<1>3. BurnProgress'
  BY DEF BurnProgress, BurnInv, BurnRowsBelow
<1>4. (running # NoPost /\ running.msg \in BurnMessage =>
         /\ step >= 2 => BurnRows(rewards, Rewarded)
         /\ step >= 3 => BurnRows(slots, Slotted))'
  BY <1>1 DEF BurnInv, BurnRows
<1>5. NoDouble(rewards)' /\ NoDouble(slots)'
  BY DEF BurnInv, NoDouble
<1> QED BY <1>2, <1>3, <1>4, <1>5 DEF BurnInv

LEMMA BurnStep == QueueInv /\ BurnInv /\ [Next]_vars => BurnInv'
<1> SUFFICES ASSUME QueueInv, BurnInv, [Next]_vars PROVE BurnInv'
  OBVIOUS
<1> USE DEF QueueInv
<1>0. /\ rewards \in [BurnBlock -> Nat] /\ slots \in [BurnBlock -> Nat]
      /\ burnChain \subseteq BurnBlock /\ step \in 1..3
      /\ Rewarded \in SUBSET BurnBlock /\ Slotted \in SUBSET BurnBlock
      /\ outstanding \in [Feed -> Message \cup {NoMessage}]
      /\ "chain" \in Feed
  BY DEF TypeOK, Feed
\* the burn message being handled is the one outstanding
<1>b. ASSUME running # NoPost, running.msg \in BurnMessage
      PROVE  /\ outstanding["chain"] = running.msg
             /\ running.msg.block \in BurnBlock
             /\ running.msg.block \in burnChain
             /\ \A c \in burnChain :
                  c # running.msg.block => BurnHeight[c] < BurnHeight[running.msg.block]
             /\ BurnRowsBelow(rewards, Rewarded, running.msg.block)
             /\ BurnRowsBelow(slots, Slotted, running.msg.block)
  <2>1. running.msg \in Message /\ FeedOf(running.msg) = "chain"
    BY <1>b, FeedFacts DEF Message
  <2>2. outstanding["chain"] = running.msg
    BY <1>b, <2>1 DEF NoLateRepeat, Outstanding
  <2> QED BY <1>b, <2>2 DEF BurnInv, BurnProgress, BurnMessage
<1>1. ASSUME NEW m \in Message, NextMessage(m) PROVE BurnInv'
  <2>1. UNCHANGED <<waiting, queue, running, step, rewards, slots>>
    BY <1>1 DEF NextMessage, serverVars, tables
  <2>2. CASE m \in BurnMessage
    <3>1. /\ m.block \in BurnBlock
          /\ outstanding["chain"] = NoMessage
          /\ outstanding'["chain"] = m
          /\ burnChain' = {c \in burnChain : BurnHeight[c] < BurnHeight[m.block]} \cup {m.block}
      BY <1>0, <1>1, <2>2, FeedFacts DEF NextMessage, BurnMessage
    <3>2. outstanding["chain"] \notin BurnMessage
      BY <3>1 DEF Message
    <3>3. BurnRows(rewards, Rewarded) /\ BurnRows(slots, Slotted)
      BY <3>2 DEF BurnInv, BurnTablesExact
    <3>4. running = NoPost \/ running.msg \notin BurnMessage
      BY <1>b, <3>2
    <3>5. BurnProgress'
      BY <1>0, <2>1, <3>1, <3>3 DEF BurnProgress, BurnRowsBelow, BurnRows
    <3>6. BurnTablesExact'
      BY <2>2, <3>1 DEF BurnTablesExact
    <3>7. NoDouble(rewards)' /\ NoDouble(slots)'
      BY <2>1 DEF BurnInv, NoDouble
    <3> QED BY <2>1, <3>4, <3>5, <3>6, <3>7 DEF BurnInv
  <2>3. CASE m \notin BurnMessage
    <3>1. burnChain' = burnChain
      BY <1>1, <2>3 DEF NextMessage
    <3>2. outstanding'["chain"] \in BurnMessage <=> outstanding["chain"] \in BurnMessage
      BY <1>0, <1>1, <2>3, FeedFacts DEF NextMessage, Message
    <3>3. outstanding'["chain"] \in BurnMessage => outstanding'["chain"] = outstanding["chain"]
      BY <1>0, <1>1, <2>3, FeedFacts DEF NextMessage, Message
    <3>4. BurnTablesExact'
      BY <2>1, <3>1, <3>2 DEF BurnInv, BurnTablesExact, BurnRows
    <3>5. BurnProgress'
      BY <2>1, <3>1, <3>2, <3>3 DEF BurnInv, BurnProgress, BurnRowsBelow
    <3>6. (running # NoPost /\ running.msg \in BurnMessage =>
             /\ step >= 2 => BurnRows(rewards, Rewarded)
             /\ step >= 3 => BurnRows(slots, Slotted))'
      BY <2>1, <3>1 DEF BurnInv, BurnRows
    <3>7. NoDouble(rewards)' /\ NoDouble(slots)'
      BY <2>1 DEF BurnInv, NoDouble
    <3> QED BY <3>4, <3>5, <3>6, <3>7 DEF BurnInv
  <2> QED BY <2>2, <2>3
<1>2. ASSUME NEW f \in Feed, PostMessage(f) PROVE BurnInv'
  BY <1>2, BurnQuiet DEF PostMessage, tables, BurnInv
<1>3. ASSUME NEW f \in Feed, Timeout(f) PROVE BurnInv'
  <2>1. running \in Post \cup {NoPost}
    BY DEF TypeOK
  <2>2. running' = NoPost \/ (running # NoPost /\ running'.msg = running.msg /\ step' = step)
    BY <1>3, <2>1, DeafFacts DEF Timeout
  <2> QED BY <1>3, <2>2, BurnQuiet DEF Timeout, tables
<1>4. CASE Start
  BY <1>4, BurnQuiet DEF Start, tables
<1>5. CASE UpdateBlock \/ EmitBlock \/ UpdateOtherTables
  <2>1. running.msg \notin BurnMessage
    BY <1>5, StepOf, Kinds DEF UpdateBlock, EmitBlock, UpdateOtherTables
  <2> QED BY <1>5, <2>1, BurnQuiet DEF UpdateBlock, EmitBlock, UpdateOtherTables, AtStep, tables
<1>6. CASE UpdateBurnchainRewards
  <2>1. /\ running # NoPost /\ running.msg \in BurnMessage /\ step = 1 /\ step' = 2
        /\ UNCHANGED <<outstanding, running, slots, burnChain>>
        /\ rewards' = ReplaceBurnRows(rewards, running.msg.block, running.msg.block \in Rewarded)
    BY <1>6, StepOf DEF UpdateBurnchainRewards, AtStep
  <2>2. BurnRows(rewards', Rewarded)
    BY <1>0, <1>b, <2>1, ReplaceExact
  <2>3. NoDouble(rewards')
    BY <1>0, <1>b, <2>1, ReplaceNoDouble DEF BurnInv
  <2>4. BurnRows(rewards, Rewarded)'
    BY <2>1, <2>2 DEF BurnRows
  <2>5. BurnTablesExact'
    BY <1>b, <2>1 DEF BurnTablesExact
  <2>6. BurnProgress'
    BY <1>b, <2>1, <2>4 DEF BurnProgress, BurnRowsBelow, BurnRows
  <2>7. NoDouble(rewards)' /\ NoDouble(slots)'
    BY <2>1, <2>3 DEF BurnInv, NoDouble
  <2> QED BY <2>1, <2>4, <2>5, <2>6, <2>7 DEF BurnInv
<1>7. CASE UpdateBurnchainRewardSlotHolders
  <2>1. /\ running # NoPost /\ running.msg \in BurnMessage /\ step = 2 /\ step' = 3
        /\ UNCHANGED <<outstanding, running, rewards, burnChain>>
        /\ slots' = ReplaceBurnRows(slots, running.msg.block, running.msg.block \in Slotted)
    BY <1>7, StepOf DEF UpdateBurnchainRewardSlotHolders, AtStep
  <2>2. BurnRows(slots', Slotted)
    BY <1>0, <1>b, <2>1, ReplaceExact
  <2>3. NoDouble(slots')
    BY <1>0, <1>b, <2>1, ReplaceNoDouble DEF BurnInv
  <2>4. BurnRows(slots, Slotted)' /\ BurnRows(rewards, Rewarded)'
    BY <2>1, <2>2 DEF BurnRows, BurnInv
  <2>5. BurnTablesExact'
    BY <1>b, <2>1 DEF BurnTablesExact
  <2>6. BurnProgress'
    BY <1>b, <2>1, <2>4 DEF BurnProgress, BurnRowsBelow, BurnRows
  <2>7. NoDouble(rewards)' /\ NoDouble(slots)'
    BY <2>1, <2>3 DEF BurnInv, NoDouble
  <2> QED BY <2>1, <2>4, <2>5, <2>6, <2>7 DEF BurnInv
<1>8. CASE Respond
  <2>1. /\ running # NoPost /\ running' = NoPost /\ step' = 1
        /\ UNCHANGED <<rewards, slots, burnChain>>
        /\ running \in Post /\ running.msg \in Message
    BY <1>8 DEF Respond, tables, TypeOK, Post
  <2>2. CASE outstanding' = outstanding
    BY <2>1, <2>2, BurnQuiet
  <2>3. CASE running.live /\ FeedOf(running.msg) # "chain"
    <3>1. outstanding'["chain"] = outstanding["chain"]
      BY <1>0, <1>8, <2>1, <2>3, FeedFacts DEF Respond
    <3>2. BurnTablesExact'
      BY <2>1, <3>1 DEF BurnInv, BurnTablesExact, BurnRows
    <3>3. BurnProgress'
      BY <2>1, <3>1 DEF BurnInv, BurnProgress, BurnRowsBelow
    <3>4. NoDouble(rewards)' /\ NoDouble(slots)'
      BY <2>1 DEF BurnInv, NoDouble
    <3> QED BY <2>1, <3>2, <3>3, <3>4 DEF BurnInv
  <2>4. CASE running.live /\ FeedOf(running.msg) = "chain"
    <3>1. outstanding'["chain"] = NoMessage
      BY <1>0, <1>8, <2>1, <2>4, FeedFacts DEF Respond
    <3>2. outstanding'["chain"] \notin BurnMessage
      BY <3>1 DEF Message
    <3>3. BurnRows(rewards, Rewarded) /\ BurnRows(slots, Slotted)
      <4>1. CASE running.msg \in BurnMessage
        <5>1. step >= 3
          BY <1>0, <1>8, <2>1, <4>1, StepFacts DEF Respond
        <5> QED BY <1>0, <2>1, <4>1, <5>1 DEF BurnInv
      <4>2. CASE running.msg \notin BurnMessage
        <5>1. outstanding["chain"] = running.msg
          BY <2>1, <2>4 DEF NoLateRepeat, Outstanding
        <5> QED BY <4>2, <5>1 DEF BurnInv, BurnTablesExact
      <4> QED BY <4>1, <4>2
    <3>4. BurnTablesExact'
      BY <2>1, <3>3 DEF BurnTablesExact, BurnRows
    <3>5. BurnProgress'
      BY <3>2 DEF BurnProgress
    <3>6. NoDouble(rewards)' /\ NoDouble(slots)'
      BY <2>1 DEF BurnInv, NoDouble
    <3> QED BY <2>1, <3>4, <3>5, <3>6 DEF BurnInv
  <2> QED BY <1>8, <2>2, <2>3, <2>4 DEF Respond
<1>9. CASE RespondError
  BY <1>9, BurnQuiet DEF RespondError, tables
<1>10. CASE Crash
  BY <1>10, BurnQuiet DEF Crash, tables
<1>11. CASE UNCHANGED vars
  BY <1>11, BurnQuiet DEF vars
<1> QED BY <1>1, <1>2, <1>3, <1>4, <1>5, <1>6, <1>7, <1>8, <1>9, <1>10, <1>11
        DEF Next, Handle, Node, Fault, RejectBlock, Fail

-----------------------------------------------------------------------------
(* Blocks: stored before they are announced, announced before the answer,   *)
(* and the canonical chain as high as the highest block.                    *)
BlockInv ==
  /\ running # NoPost /\ running.msg \in BlockMessage =>
       /\ step >= 2 => running.msg.block \in known
       /\ step >= 3 => running.msg.block \in announced
  /\ MainReachesTop
  /\ acked \subseteq known \cap announced

LEMMA BlockQuiet ==
  ASSUME BlockInv, UNCHANGED <<known, main, announced, acked>>,
         \/ running' = NoPost
         \/ running # NoPost /\ running'.msg = running.msg /\ step' = step
         \/ step' = 1
         \/ running' = running /\ running.msg \notin BlockMessage
  PROVE  BlockInv'
BY DEF BlockInv, MainReachesTop

LEMMA BlockStep == QueueInv /\ BlockInv /\ [Next]_vars => BlockInv'
<1> SUFFICES ASSUME QueueInv, BlockInv, [Next]_vars PROVE BlockInv'
  OBVIOUS
<1> USE DEF QueueInv
<1>1. ASSUME NEW m \in Message, NextMessage(m) PROVE BlockInv'
  BY <1>1, BlockQuiet DEF NextMessage, tables, serverVars, BlockInv
<1>2. ASSUME NEW f \in Feed, PostMessage(f) PROVE BlockInv'
  BY <1>2, BlockQuiet DEF PostMessage, tables, BlockInv
<1>3. ASSUME NEW f \in Feed, Timeout(f) PROVE BlockInv'
  <2>1. running \in Post \cup {NoPost}
    BY DEF TypeOK
  <2>2. running' = NoPost \/ (running # NoPost /\ running'.msg = running.msg /\ step' = step)
    BY <1>3, <2>1, DeafFacts DEF Timeout
  <2> QED BY <1>3, <2>2, BlockQuiet DEF Timeout, tables
<1>4. CASE Start
  BY <1>4, BlockQuiet DEF Start, tables
<1>5. CASE UpdateBlock
  <2> DEFINE b == running.msg.block
  <2>1. /\ b \in Block /\ step = 1 /\ step' = 2
        /\ UNCHANGED <<running, announced, acked>>
    BY <1>5, StepOf DEF UpdateBlock, AtStep, BlockMessage
  <2>2. known' = known \cup {b} /\ known \subseteq Block /\ main \subseteq known
    BY <1>5 DEF UpdateBlock, Index!Fork, Index!Extend, TypeOK
  <2>3. MainReachesTop'
    <3>1. CASE Index!Fork(b)
      <4>1. main' = main /\ \E c \in known : Height[b] <= Height[c]
        BY <3>1 DEF Index!Fork
      <4>2. \E c \in main : Height[c] >= Height[b]
        BY <2>1, <2>2, <4>1 DEF BlockInv, MainReachesTop
      <4> QED BY <2>2, <4>1, <4>2 DEF BlockInv, MainReachesTop
    <3>2. CASE Index!Extend(b)
      <4>1. b \in main' /\ \A c \in known : Height[c] < Height[b]
        BY <3>2 DEF Index!Extend, Index!IsBranch
      <4> QED BY <2>1, <2>2, <4>1 DEF MainReachesTop
    <3> QED BY <1>5, <3>1, <3>2 DEF UpdateBlock
  <2> QED BY <2>1, <2>2, <2>3 DEF BlockInv
<1>6. CASE EmitBlock
  <2>1. /\ running.msg \in BlockMessage /\ step = 2 /\ step' = 3 /\ running # NoPost
        /\ UNCHANGED <<running, known, main, acked>>
        /\ announced' = announced \cup {running.msg.block}
    BY <1>6, StepOf DEF EmitBlock, AtStep, tables
  <2> QED BY <2>1 DEF BlockInv, MainReachesTop
<1>7. CASE UpdateBurnchainRewards \/ UpdateBurnchainRewardSlotHolders \/ UpdateOtherTables
  <2>1. running.msg \notin BlockMessage
    BY <1>7, StepOf, Kinds
    DEF UpdateBurnchainRewards, UpdateBurnchainRewardSlotHolders, UpdateOtherTables
  <2> QED BY <1>7, <2>1, BlockQuiet
    DEF UpdateBurnchainRewards, UpdateBurnchainRewardSlotHolders, UpdateOtherTables, AtStep, tables
<1>8. CASE Respond
  <2>1. /\ running # NoPost /\ running' = NoPost
        /\ UNCHANGED <<known, main, announced>>
        /\ running \in Post /\ running.msg \in Message /\ step \in 1..3
    BY <1>8 DEF Respond, tables, TypeOK, Post
  <2>2. acked' \subseteq known \cap announced
    <3>1. CASE running.msg \in BlockMessage
      <4>1. step >= 3
        BY <1>8, <2>1, <3>1, StepFacts DEF Respond
      <4> QED BY <1>8, <2>1, <3>1, <4>1 DEF Respond, BlockInv
    <3>2. CASE running.msg \notin BlockMessage
      BY <1>8, <3>2 DEF Respond, BlockInv
    <3> QED BY <3>1, <3>2
  <2> QED BY <2>1, <2>2 DEF BlockInv, MainReachesTop
<1>9. CASE RespondError
  BY <1>9, BlockQuiet DEF RespondError, tables
<1>10. CASE Crash
  BY <1>10, BlockQuiet DEF Crash, tables
<1>11. CASE UNCHANGED vars
  BY <1>11, BlockQuiet DEF vars
<1> QED BY <1>1, <1>2, <1>3, <1>4, <1>5, <1>6, <1>7, <1>8, <1>9, <1>10, <1>11
        DEF Next, Handle, Node, Fault, RejectBlock, Fail

-----------------------------------------------------------------------------
LEMMA IInvParts == IInv <=> QueueInv /\ BurnInv /\ BlockInv
<1>1. NoDoubleRewards <=> NoDouble(rewards) /\ NoDouble(slots)
  BY DEF NoDoubleRewards, NoDouble
<1> QED BY <1>1 DEF IInv, QueueInv, BurnInv, BlockInv, HandlerProgress

LEMMA InitIInv == Init => IInv
<1> SUFFICES ASSUME Init PROVE IInv
  OBVIOUS
<1>1. TypeOK
  BY DEF Init, TypeOK, Index!Init, NoPost
<1>2. NoLateRepeat /\ LiveIsNewest
  BY DEF Init, NoLateRepeat, LiveIsNewest
<1>3. outstanding["chain"] \notin BurnMessage
  BY DEF Init, Feed, Message
<1>4. BurnTablesExact /\ BurnProgress /\ NoDoubleRewards
  BY <1>3 DEF Init, BurnTablesExact, BurnProgress, BurnRows, NoDoubleRewards
<1>5. HandlerProgress /\ MainReachesTop /\ acked \subseteq known \cap announced
  BY DEF Init, HandlerProgress, MainReachesTop, Index!Init
<1> QED BY <1>1, <1>2, <1>4, <1>5 DEF IInv

(* The event server keeps its inductive invariant, for every set of blocks  *)
(* and burn blocks and any number of time-outs, failures and crashes.       *)
THEOREM Inductive == Spec => []IInv
<1>1. IInv /\ [Next]_vars => IInv'
  <2> SUFFICES ASSUME IInv, [Next]_vars PROVE IInv'
    OBVIOUS
  <2>1. QueueInv /\ BurnInv /\ BlockInv
    BY IInvParts
  <2>2. QueueInv' /\ BurnInv' /\ BlockInv'
    BY <2>1, QueueStep, BurnStep, BlockStep
  <2>3. (QueueInv /\ BurnInv /\ BlockInv)' => IInv'
    BY IInvParts, PTL
  <2> QED BY <2>2, <2>3
<1> QED BY <1>1, InitIInv, PTL DEF Spec

(* The state of the node, of the queue and of the tables keeps its type.    *)
THEOREM TypeCorrect == Spec => []TypeOK
<1>1. IInv => TypeOK
  BY DEF IInv
<1> QED BY <1>1, Inductive, PTL

(* The queue never handles a message its sender has left behind.            *)
THEOREM NeverLate == Spec => []NoLateRepeat
<1>1. IInv => NoLateRepeat
  BY DEF IInv
<1> QED BY <1>1, Inductive, PTL

(* At-least-once delivery, two transactions per message and any failure     *)
(* between them still leave each burn block in each table exactly once.     *)
THEOREM BurnExact == Spec => []BurnTablesExact
<1>1. IInv => BurnTablesExact
  BY DEF IInv
<1> QED BY <1>1, Inductive, PTL

(* No reader ever sees the rewards of one burn height twice.                *)
THEOREM RewardsOnce == Spec => []NoDoubleRewards
<1>1. IInv => NoDoubleRewards
  BY DEF IInv
<1> QED BY <1>1, Inductive, PTL

(* A block answered with 200 is stored, announced and within the height of  *)
(* the canonical chain.                                                     *)
THEOREM AckDurable == Spec => []AckedBlockDurable
<1>1. IInv => AckedBlockDurable
  BY DEF IInv, AckedBlockDurable, MainReachesTop
<1> QED BY <1>1, Inductive, PTL
=============================================================================
