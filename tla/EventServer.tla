----------------------------- MODULE EventServer -----------------------------
(***************************************************************************)
(* The event server (src/event-stream/event-server.ts): the HTTP endpoints  *)
(* the Stacks node posts its events to, the promise queue that handles one  *)
(* message at a time, and the burnchain tables its handlers write.          *)
(*                                                                         *)
(* The node is external.  It posts a message again until it is answered     *)
(* with 200, and only then goes on to the next message of that feed; a post *)
(* may time out in the node while the server still has it queued.  Each     *)
(* step of a handler is one SQL transaction or the emission of events; the  *)
(* blocks table is the LongestChain index that PgChainStore implements.     *)
(***************************************************************************)
EXTENDS Naturals, Sequences

CONSTANTS
  Block, Parent, Height,  \* the Stacks blocks, as in LongestChain
  BurnBlock,              \* burnchain block hashes
  BurnHeight,             \* burn_block_height of each
  Rewarded,               \* burn blocks with a non-empty reward_recipients
  Slotted,                \* burn blocks with a non-empty reward_slot_holders
  OtherKind,              \* kinds of message the node sends besides blocks
  NoMessage,              \* nothing being sent, nothing being handled
  MaxFaults               \* bound on time-outs, failed transactions, crashes

ASSUME EventServerAssumption ==
  /\ BurnHeight \in [BurnBlock -> Nat]
  /\ Rewarded \subseteq BurnBlock
  /\ Slotted \subseteq BurnBlock
  /\ Height \in [Block -> Nat]
  /\ OtherKind \subseteq {"mempool", "drop", "attachments"}
  /\ MaxFaults \in Nat

VARIABLES
  outstanding,  \* per feed of the node, the message not yet answered with 200
  waiting,      \* per feed, the node awaits the answer to a post
  queue,        \* processorQueue: the posts not yet started
  running,      \* the post being handled
  step,         \* the next step of its handler
  known, main,  \* the committed blocks table, as an index of LongestChain
  rewards,      \* canonical rows of burnchain_rewards, copies per burn block
  slots,        \* canonical rows of reward_slot_holders, copies per burn block
  announced,    \* blocks for which blockUpdate was emitted
  acked,        \* blocks whose message was answered with 200
  burnChain,    \* the node's own burnchain, as its messages so far describe it
  faults        \* faults so far

serverVars == <<queue, running, step>>
tables == <<known, main, rewards, slots>>
vars == <<outstanding, waiting, queue, running, step, known, main, rewards,
          slots, announced, acked, burnChain, faults>>

-----------------------------------------------------------------------------
BlockMessage == [kind : {"block"}, block : Block]
BurnMessage == [kind : {"burn"}, block : BurnBlock]
OtherMessage == [kind : OtherKind]
Message == BlockMessage \cup BurnMessage \cup OtherMessage

ASSUME NoMessageAssumption == NoMessage \notin Message

NoPost == [msg |-> NoMessage, live |-> FALSE]

(* The node sends from several threads: the chain's messages in one order,  *)
(* mempool and attachment messages beside them.                             *)
Feed == {"chain", "mempool", "attachments"}
FeedOf(m) ==
  CASE m.kind \in {"block", "burn"} -> "chain"
    [] m.kind \in {"mempool", "drop"} -> "mempool"
    [] m.kind = "attachments" -> "attachments"

(* live: the node still waits for the answer to this post.                  *)
Post == [msg : Message, live : BOOLEAN]

(* The steps of each handler, in order: handleClientMessage,                *)
(* handleBurnBlockMessage, handleMempoolTxsMessage,                         *)
(* handleDroppedMempoolTxsMessage, handleNewAttachmentMessage.              *)
StepsOf(m) ==
  CASE m.kind = "block" -> <<"update", "emit">>
    [] m.kind = "burn" -> <<"updateBurnchainRewards", "updateBurnchainRewardSlotHolders">>
    [] m.kind = "mempool" -> <<"updateMempoolTxs">>
    [] m.kind = "drop" -> <<"dropMempoolTxs">>
    [] m.kind = "attachments" -> <<"resolveBnsSubdomains", "resolveBnsNames">>

Index == INSTANCE LongestChain

-----------------------------------------------------------------------------
(* Mutant: a message without rows returns before the UPDATE.                *)
ReplaceUnlessEmpty(table, b, hasRows) ==
  [c \in BurnBlock |->
     IF ~hasRows THEN table[c]
     ELSE IF c = b THEN 1
     ELSE IF BurnHeight[c] >= BurnHeight[b] THEN 0 ELSE table[c]]

(* Invalidate the canonical rows of b and of every burn block as high or    *)
(* higher, then insert those of the message, if it lists any.               *)
ReplaceBurnRows(table, b, hasRows) ==
  [c \in BurnBlock |->
     (IF c = b /\ hasRows THEN 1 ELSE 0)
       + (IF c = b \/ BurnHeight[c] >= BurnHeight[b] THEN 0 ELSE table[c])]

-----------------------------------------------------------------------------
Init ==
  /\ outstanding = [f \in Feed |-> NoMessage]
  /\ waiting = [f \in Feed |-> FALSE]
  /\ queue = <<>>
  /\ running = NoPost
  /\ step = 1
  /\ Index!Init
  /\ rewards = [c \in BurnBlock |-> 0]
  /\ slots = [c \in BurnBlock |-> 0]
  /\ announced = {}
  /\ acked = {}
  /\ burnChain = {}
  /\ faults = 0

(* The node goes on to its next message.  It may announce any block, also   *)
(* one whose parent the server never saw.  A burn block replaces what the   *)
(* node told before of its height and above.                                *)
NextMessage(m) ==
  /\ outstanding[FeedOf(m)] = NoMessage
  /\ outstanding' = [outstanding EXCEPT ![FeedOf(m)] = m]
  /\ burnChain' =
       IF m \in BurnMessage
       THEN {c \in burnChain : BurnHeight[c] < BurnHeight[m.block]} \cup {m.block}
       ELSE burnChain
  /\ UNCHANGED <<waiting, serverVars, tables, announced, acked, faults>>

(* The node posts its message, again if need be; the endpoint queues it.    *)
PostMessage(f) ==
  /\ outstanding[f] # NoMessage
  /\ ~waiting[f]
  /\ waiting' = [waiting EXCEPT ![f] = TRUE]
  /\ queue' = Append(queue, [msg |-> outstanding[f], live |-> TRUE])
  /\ UNCHANGED <<outstanding, running, step, tables, announced, acked, burnChain, faults>>

Deaf(post, f) ==
  IF post # NoPost /\ FeedOf(post.msg) = f THEN [post EXCEPT !.live = FALSE] ELSE post

(* The node gives up waiting.  The server does not notice: the post stays   *)
(* queued or running, but nobody reads its answer.                          *)
Timeout(f) ==
  /\ waiting[f]
  /\ faults < MaxFaults
  /\ waiting' = [waiting EXCEPT ![f] = FALSE]
  /\ queue' = [i \in DOMAIN queue |-> Deaf(queue[i], f)]
  /\ running' = Deaf(running, f)
  /\ faults' = faults + 1
  /\ UNCHANGED <<outstanding, step, tables, announced, acked, burnChain>>

(* The queue (concurrency 1) starts its oldest post.                        *)
Start ==
  /\ running = NoPost
  /\ queue # <<>>
  /\ running' = Head(queue)
  /\ step' = 1
  /\ queue' = Tail(queue)
  /\ UNCHANGED <<outstanding, waiting, tables, announced, acked, burnChain, faults>>

AtStep(s) ==
  /\ running # NoPost
  /\ step <= Len(StepsOf(running.msg))
  /\ StepsOf(running.msg)[step] = s
  /\ step' = step + 1
  /\ UNCHANGED <<outstanding, waiting, queue, running, acked, burnChain, faults>>

(* db.update: the whole of PgChainStore's update, in the one step its       *)
(* readers see.                                                             *)
UpdateBlock ==
  /\ AtStep("update")
  /\ Index!Fork(running.msg.block) \/ Index!Extend(running.msg.block)
  /\ UNCHANGED <<rewards, slots, announced>>

EmitBlock ==
  /\ AtStep("emit")
  /\ announced' = announced \cup {running.msg.block}
  /\ UNCHANGED tables

UpdateBurnchainRewards ==
  /\ AtStep("updateBurnchainRewards")
  /\ LET b == running.msg.block
     IN  rewards' = ReplaceBurnRows(rewards, b, b \in Rewarded)
  /\ UNCHANGED <<known, main, slots, announced>>

UpdateBurnchainRewardSlotHolders ==
  /\ AtStep("updateBurnchainRewardSlotHolders")
  /\ LET b == running.msg.block
     IN  slots' = ReplaceBurnRows(slots, b, b \in Slotted)
  /\ UNCHANGED <<known, main, rewards, announced>>

(* The transactions of the other handlers write tables of other modules.    *)
UpdateOtherTables ==
  /\ \E s \in {"updateMempoolTxs", "dropMempoolTxs", "resolveBnsSubdomains",
               "resolveBnsNames"} : AtStep(s)
  /\ UNCHANGED <<tables, announced>>

(* The handler is done: 200.                                                *)
Respond ==
  /\ running # NoPost
  /\ step > Len(StepsOf(running.msg))
  /\ outstanding' = IF running.live
                    THEN [outstanding EXCEPT ![FeedOf(running.msg)] = NoMessage]
                    ELSE outstanding
  /\ waiting' = IF running.live
                THEN [waiting EXCEPT ![FeedOf(running.msg)] = FALSE] ELSE waiting
  /\ acked' = IF running.live /\ running.msg \in BlockMessage
              THEN acked \cup {running.msg.block} ELSE acked
  /\ running' = NoPost
  /\ step' = 1
  /\ UNCHANGED <<queue, tables, announced, burnChain, faults>>

(* Mutant: the error is logged and swallowed, no answer is sent.            *)
SwallowError ==
  /\ running' = NoPost
  /\ step' = 1
  /\ UNCHANGED <<outstanding, waiting, queue, tables, announced, acked, burnChain>>

(* The handler throws: 500, and the node will post the message again.       *)
RespondError ==
  /\ waiting' = IF running.live
                THEN [waiting EXCEPT ![FeedOf(running.msg)] = FALSE] ELSE waiting
  /\ running' = NoPost
  /\ step' = 1
  /\ UNCHANGED <<outstanding, queue, tables, announced, acked, burnChain>>

(* Mutant: a block that cannot be stored is skipped, as if it were done.    *)
SkipBlock ==
  /\ running # NoPost
  /\ running.msg \in BlockMessage
  /\ step = 1
  /\ ~Index!Attached(running.msg.block)
  /\ step' = 3
  /\ UNCHANGED <<outstanding, waiting, queue, running, tables, announced, acked,
                 burnChain, faults>>

(* handleReorg throws for a block whose parent is not stored.               *)
RejectBlock ==
  /\ running # NoPost
  /\ running.msg \in BlockMessage
  /\ step = 1
  /\ ~Index!Attached(running.msg.block)
  /\ RespondError
  /\ UNCHANGED faults

(* A transaction fails, or its connection is lost after the commit.         *)
Fail ==
  /\ running # NoPost
  /\ faults < MaxFaults
  /\ RespondError
  /\ faults' = faults + 1

(* The process dies: the queue is gone, every connection is reset.          *)
Crash ==
  /\ faults < MaxFaults
  /\ waiting' = [f \in Feed |-> FALSE]
  /\ queue' = <<>>
  /\ running' = NoPost
  /\ step' = 1
  /\ faults' = faults + 1
  /\ UNCHANGED <<outstanding, tables, announced, acked, burnChain>>

Handle ==
  \/ Start
  \/ UpdateBlock \/ EmitBlock \/ RejectBlock
  \/ UpdateBurnchainRewards \/ UpdateBurnchainRewardSlotHolders
  \/ UpdateOtherTables
  \/ Respond

Node ==
  \/ \E m \in Message : NextMessage(m)
  \/ \E f \in Feed : PostMessage(f)

Fault == (\E f \in Feed : Timeout(f)) \/ Fail \/ Crash

Next == Handle \/ Node \/ Fault

Spec == Init /\ [][Next]_vars

(* The node keeps posting, and the event loop keeps running handlers: both  *)
(* only need to go on taking the steps they can take.  Faults are finitely  *)
(* many and never have to happen.                                           *)
Fairness ==
  /\ WF_vars(Handle)
  /\ \A f \in Feed : WF_vars(PostMessage(f))

FairSpec == Spec /\ Fairness

-----------------------------------------------------------------------------
(* TypeOK: the shape of the node's feeds, the queue, the running handler    *)
(* and the tables.                                                          *)
TypeOK ==
  /\ outstanding \in [Feed -> Message \cup {NoMessage}]
  /\ \A f \in Feed : outstanding[f] # NoMessage => FeedOf(outstanding[f]) = f
  /\ waiting \in [Feed -> BOOLEAN]
  /\ queue \in Seq(Post)
  /\ running \in Post \cup {NoPost}
  /\ step \in 1..3
  /\ known \subseteq Block
  /\ main \subseteq known
  /\ rewards \in [BurnBlock -> Nat]
  /\ slots \in [BurnBlock -> Nat]
  /\ announced \subseteq Block
  /\ acked \subseteq Block
  /\ burnChain \subseteq BurnBlock
  /\ faults \in 0..MaxFaults

(* No post is handled after the node went on to another message: what is    *)
(* queued or running is always the message its feed still has outstanding.  *)
(* A late repeat of an older burn block would invalidate the newer ones.    *)
Outstanding(post) == outstanding[FeedOf(post.msg)] = post.msg

NoLateRepeat ==
  /\ \A i \in DOMAIN queue : Outstanding(queue[i])
  /\ running # NoPost => Outstanding(running)

BurnRows(table, withRows) ==
  \A c \in BurnBlock : table[c] = IF c \in burnChain \cap withRows THEN 1 ELSE 0

(* Whenever no burn block is unanswered, both burnchain tables list exactly *)
(* the node's burnchain: each block's rows once, however often its message  *)
(* was posted and wherever its two transactions were interrupted.           *)
BurnTablesExact ==
  outstanding["chain"] \notin BurnMessage =>
    BurnRows(rewards, Rewarded) /\ BurnRows(slots, Slotted)

(* At no moment, not even between the two transactions of a handler, does a *)
(* reader of one of the tables count a block twice, or two blocks of one    *)
(* height.                                                                  *)
NoDoubleRewards ==
  \A table \in {rewards, slots} : \A c \in BurnBlock :
    /\ table[c] <= 1
    /\ table[c] = 1 =>
         \A d \in BurnBlock : BurnHeight[d] = BurnHeight[c] /\ table[d] > 0 => d = c

(* A block message answered with 200 is durable and was announced: the      *)
(* block is stored, the canonical chain reaches its height, and blockUpdate *)
(* was emitted, whatever crashed between the commit and the answer.         *)
AckedBlockDurable ==
  \A b \in acked :
    /\ b \in known \cap announced
    /\ \E c \in main : Height[c] >= Height[b]

(* Messages the server can handle in the state it is in.                    *)
CanBeHandled(m) == m \in BlockMessage => Index!Attached(m.block)

(* Every message the server is able to handle is eventually answered with   *)
(* 200: also while another feed repeats, for ever, a block whose parent is  *)
(* missing.                                                                 *)
EventuallyAcked ==
  \A f \in Feed :
    (outstanding[f] # NoMessage /\ CanBeHandled(outstanding[f])) ~> (outstanding[f] = NoMessage)

-----------------------------------------------------------------------------
(* Of the posts of one feed, only the newest can still be answered: its 200 *)
(* leaves no older post of that feed behind.                                *)
LiveIsNewest ==
  /\ \A i \in DOMAIN queue :
       queue[i].live =>
         /\ waiting[FeedOf(queue[i].msg)]
         /\ \A j \in DOMAIN queue :
              j > i => FeedOf(queue[j].msg) # FeedOf(queue[i].msg)
  /\ running # NoPost /\ running.live =>
       /\ waiting[FeedOf(running.msg)]
       /\ \A j \in DOMAIN queue : FeedOf(queue[j].msg) # FeedOf(running.msg)

(* While burn block b is unanswered the tables agree with the burnchain     *)
(* below b, and each from the moment its transaction commits.               *)
BurnRowsBelow(table, withRows, b) ==
  \A c \in BurnBlock :
    BurnHeight[c] < BurnHeight[b] =>
      table[c] = IF c \in burnChain \cap withRows THEN 1 ELSE 0

BurnProgress ==
  outstanding["chain"] \in BurnMessage =>
    LET b == outstanding["chain"].block
    IN  /\ b \in burnChain
        /\ \A c \in burnChain : c # b => BurnHeight[c] < BurnHeight[b]
        /\ BurnRowsBelow(rewards, Rewarded, b)
        /\ BurnRowsBelow(slots, Slotted, b)

HandlerProgress ==
  /\ running # NoPost /\ running.msg \in BurnMessage =>
       /\ step >= 2 => BurnRows(rewards, Rewarded)
       /\ step >= 3 => BurnRows(slots, Slotted)
  /\ running # NoPost /\ running.msg \in BlockMessage =>
       /\ step >= 2 => running.msg.block \in known
       /\ step >= 3 => running.msg.block \in announced

MainReachesTop == \A b \in known : \E c \in main : Height[c] >= Height[b]

(* The inductive invariant of Spec.                                         *)
IInv ==
  /\ TypeOK
  /\ NoLateRepeat
  /\ LiveIsNewest
  /\ BurnTablesExact
  /\ BurnProgress
  /\ HandlerProgress
  /\ NoDoubleRewards
  /\ MainReachesTop
  /\ acked \subseteq known \cap announced
=============================================================================
