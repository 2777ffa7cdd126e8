-------------------------------- MODULE Indexer --------------------------------
(***************************************************************************)
(* The indexer (services/indexer/src): it copies the events of the         *)
(* contract from the chain into Postgres and keeps a projection of them.   *)
(*                                                                         *)
(* One bounty is followed. A block stands for its hash: number, fork and   *)
(* events together. The chain and its node are external: blocks are        *)
(* appended, the tip may be replaced before it is finalized, and any RPC   *)
(* may fail. One Postgres transaction is one action; between two awaits    *)
(* the process runs alone.                                                 *)
(*                                                                         *)
(* Three kinds of activity interleave: walkers (backfill, run by boot and  *)
(* by each reconnect), head handlers (the SDK's subscription filling the   *)
(* buffer) and finalized handlers (draining it).                           *)
(***************************************************************************)
EXTENDS Integers, Sequences, SequencesExt, FiniteSetsExt

CONSTANTS
  EventNames,    \* the contract's events that occur
  BatchSize,     \* config.backfillBatchSize
  PerBlock,      \* bound: events of the bounty in one block
  MaxBlock,      \* bound: blocks
  MaxReorgs,     \* bound: replacements of the tip
  MaxCrashes,    \* bound: crashes of the process
  MaxDisconnects,\* bound: drops of the WebSocket
  MaxFailures    \* bound: RPCs that fail for good

ASSUME IndexerAssumption ==
  /\ BatchSize \in Nat \ {0}
  /\ {PerBlock, MaxBlock, MaxReorgs, MaxCrashes, MaxDisconnects, MaxFailures} \subseteq Nat

VARIABLES
  chain,      \* external: the best chain, a sequence of blocks
  finalized,  \* external: number of its last finalized block
  faults,     \* external: how often each kind of fault has occurred
  mode,       \* "down", or HealthState.mode
  connected,  \* the WebSocket is up
  subs,       \* open SDK feeds and finalized-head listeners; subsBox holds a pair
  walkers,    \* walker -> its progress; 0 is boot, the others are reconnects
  heads,      \* blocks whose new-head handler is still awaiting
  buffer,     \* PendingBuffer.byBlock, in insertion order
  handlers,   \* finalized-head handlers in progress
  log,        \* Postgres: bounty_events
  row,        \* Postgres: the bounty's row in bounties
  watermark,  \* Postgres: indexer_state.last_finalized_block
  dispatched  \* history: the live path has ever advanced the watermark

node == <<chain, finalized, faults>>
process == <<mode, connected, subs, walkers, heads, buffer, handlers>>
db == <<log, row, watermark, dispatched>>
indexerVars == <<node, process, db>>

-------------------------------------------------------------------------------
(* The chain.                                                                 *)

\* The status an event leaves its bounty in.
StatusAfter ==
  [BountyPosted |-> "Open", BountyClaimed |-> "Claimed",
   BountySubmitted |-> "Submitted", BountyAccepted |-> "Accepted",
   BountyWithdrawn |-> "Accepted", BountyRejected |-> "Rejected",
   BountyCancelled |-> "Cancelled", BountyTimedOut |-> "TimedOut",
   BountyRevoked |-> "Revoked"]

\* The events the contract can emit next for a bounty, given those so far.
CanFollow(events) ==
  CASE events = <<>> -> {"BountyPosted"}
    [] events # <<>> ->
       CASE Last(events) = "BountyPosted" ->
              {"BountyClaimed", "BountyCancelled", "BountyTimedOut", "BountyRevoked"}
         [] Last(events) = "BountyClaimed" ->
              {"BountySubmitted", "BountyTimedOut", "BountyRevoked"}
         [] Last(events) = "BountySubmitted" ->
              {"BountyAccepted", "BountyRejected", "BountyTimedOut", "BountyRevoked"}
         [] Last(events) = "BountyAccepted" -> {"BountyWithdrawn", "BountyRevoked"}
         [] Last(events) = "BountyRevoked" -> {}
         [] OTHER -> {"BountyRevoked"}

EventsOf(blocks) == FlattenSeq([n \in DOMAIN blocks |-> blocks[n].events])

\* The blocks that can be built on `parent`.
Children(parent, fork) ==
  {block \in [number: {Len(parent) + 1}, fork: {fork},
              events: SeqOf(EventNames, PerBlock)] :
     \A i \in DOMAIN block.events :
       block.events[i] \in CanFollow(EventsOf(parent) \o SubSeq(block.events, 1, i - 1))}

Announce(block) ==
  heads' = IF connected /\ subs.feeds > 0 THEN heads \cup {block} ELSE heads

NewBlock ==
  /\ Len(chain) < MaxBlock
  /\ \E block \in Children(chain, 0) :
       /\ chain' = Append(chain, block)
       /\ Announce(block)
  /\ UNCHANGED <<finalized, faults, mode, connected, subs, walkers, buffer, handlers>>
  /\ UNCHANGED db

\* A sibling becomes best in place of a tip that is not final yet.
Reorg ==
  /\ faults.reorgs < MaxReorgs
  /\ finalized < Len(chain)
  /\ faults' = [faults EXCEPT !.reorgs = @ + 1]
  /\ \E block \in Children(Front(chain), faults.reorgs + 1) :
       /\ chain' = Append(Front(chain), block)
       /\ Announce(block)
  /\ UNCHANGED <<finalized, mode, connected, subs, walkers, buffer, handlers>>
  /\ UNCHANGED db

\* A finalized-head notification for block n starts, for each of k
\* subscriptions, a handler for the buffered blocks up to n in their order
\* (PendingBuffer.blockHashesUpTo), if there are any.
Notifies(n, k) ==
  LET due == {i \in DOMAIN buffer : buffer[i].number <= n}
  IN \/ due = {} /\ UNCHANGED handlers
     \/ /\ due # {}
        /\ \E turn \in [1 .. Cardinality(due) -> due] :
             /\ \A i, j \in DOMAIN turn : i < j => turn[i] < turn[j]
             /\ handlers' = handlers \o
                  [h \in 1 .. k |->
                     [todo |-> [i \in DOMAIN turn |-> buffer[turn[i]]], at |-> "header"]]

\* The node finalizes one or more blocks and announces the last of them.
Finalize ==
  /\ \E n \in finalized + 1 .. Len(chain) :
       /\ finalized' = n
       /\ IF connected THEN Notifies(n, subs.open) ELSE UNCHANGED handlers
  /\ UNCHANGED <<chain, faults, mode, connected, subs, walkers, heads, buffer>>
  /\ UNCHANGED db

\* An RPC fails, its retries included: always possible while the WebSocket is
\* down, and a fault of its own otherwise.
RpcFails ==
  IF connected
  THEN /\ faults.failures < MaxFailures
       /\ faults' = [faults EXCEPT !.failures = @ + 1]
  ELSE UNCHANGED faults

-------------------------------------------------------------------------------
(* Postgres: ingestSingleBlock and the watermark.                             *)

NoRow == [status |-> "None", last_event_block |-> 0]

\* Mutation of newer: no lt() guard.
newerAlways(r, n) == TRUE

\* lt(bounties.lastEventBlock, blockNumber)
newer(r, n) == r.last_event_block < n

\* Mutation of projectEvent: a missing row is created by any event.
projectEventUpsert(r, event, n) ==
  IF event = "BountyPosted" /\ r # NoRow THEN r
  ELSE IF newer(r, n) THEN [status |-> StatusAfter[event], last_event_block |-> n]
  ELSE r

\* projectEvent: BountyPosted inserts unless the row exists; every other event
\* updates the row if there is one and it is older than the block, all but
\* BountyWithdrawn its status too.
projectEvent(r, event, n) ==
  IF event = "BountyPosted"
  THEN IF r = NoRow THEN [status |-> "Open", last_event_block |-> n] ELSE r
  ELSE IF r # NoRow /\ newer(r, n)
       THEN [status |-> IF event = "BountyWithdrawn" THEN r.status ELSE StatusAfter[event],
             last_event_block |-> n]
       ELSE r

\* The events of a block as rows of bounty_events: ON CONFLICT DO NOTHING on
\* the uid hash-name-id makes them a set.
logged(block) == {[block |-> block, event |-> block.events[i]] : i \in DOMAIN block.events}

\* ingestSingleBlock projects the events of a block in their order.
project(r, block) ==
  FoldLeft(LAMBDA s, event : projectEvent(s, event, block.number), r, block.events)

\* ingestSingleBlock on each block in turn, in one transaction.
ingest(blocks) ==
  /\ log' = log \cup UNION {logged(blocks[i]) : i \in DOMAIN blocks}
  /\ row' = FoldLeft(project, row, blocks)

\* Mutation of advanceWatermark: no lt() guard.
advanceWatermarkAnyway(n) == watermark' = n

\* The guarded UPDATE of indexer_state.
advanceWatermark(n) == watermark' = IF watermark < n THEN n ELSE watermark

-------------------------------------------------------------------------------
(* Backfill. A walker is idle, waits for a probe of the node or to start a    *)
(* catch-up, walks the blocks next .. to in batches, or has given up its walk *)
(* and is about to open subscriptions.                                        *)

Idle == [at |-> "idle", next |-> 0, to |-> 0]

\* Mutation of walkFrom: the watermark's own successor is skipped.
walkFromAfter(n) == n + 2

\* The first block after the watermark n.
walkFrom(n) == n + 1

\* Mutation of Walking: the walk ends at the best head.
WalkingToBest == [at |-> "walking", next |-> walkFrom(watermark), to |-> Len(chain)]

Walking == [at |-> "walking", next |-> walkFrom(watermark), to |-> finalized]

\* Mutation of batchEnd: off by one.
batchEndShort(w) == Min({walkers[w].next + BatchSize - 2, walkers[w].to})

batchEnd(w) == Min({walkers[w].next + BatchSize - 1, walkers[w].to})

\* Blocks next .. batchEnd are read and ingested and the watermark moves to
\* batchEnd, all in one transaction.
CommitBatch(w) ==
  /\ walkers[w].at = "walking"
  /\ walkers[w].next <= walkers[w].to
  /\ connected
  /\ ingest(SubSeq(chain, walkers[w].next, batchEnd(w)))
  /\ advanceWatermark(batchEnd(w))
  /\ walkers' = [walkers EXCEPT ![w].next = batchEnd(w) + 1]
  /\ UNCHANGED dispatched
  /\ UNCHANGED node
  /\ UNCHANGED <<mode, connected, subs, heads, buffer, handlers>>

NoSubs == [feeds |-> 0, open |-> 0, held |-> FALSE]

Stopped ==
  /\ mode' = "down"
  /\ connected' = FALSE
  /\ subs' = NoSubs
  /\ walkers' = [w \in DOMAIN walkers |-> Idle]
  /\ heads' = {}
  /\ buffer' = <<>>
  /\ handlers' = <<>>

\* A batch that fails is rolled back. In boot it ends the process (the stages
\* are undone and main exits); in a reconnect it is logged and the
\* subscriptions are opened all the same.
BatchFails(w) ==
  /\ walkers[w].at = "walking"
  /\ walkers[w].next <= walkers[w].to
  /\ RpcFails
  /\ IF w = 0
     THEN Stopped
     ELSE /\ walkers' = [walkers EXCEPT ![w].at = "opening"]
          /\ UNCHANGED <<mode, connected, subs, heads, buffer, handlers>>
  /\ UNCHANGED <<chain, finalized>>
  /\ UNCHANGED db

BestHead == IF chain = <<>> THEN {} ELSE {Last(chain)}

\* openIngestionSubs: the new handle replaces whatever subsBox holds, which is
\* not closed here. The node announces its best and finalized heads at once.
OpenSubs(w, next) ==
  /\ connected
  /\ subs' = [feeds |-> subs.feeds + 1, open |-> subs.open + 1, held |-> TRUE]
  /\ walkers' = [walkers EXCEPT ![w] = next]
  /\ heads' = heads \cup BestHead
  /\ Notifies(finalized, 1)

\* Opening fails. If the SDK's feed was open by then nothing ever closes it.
\* In boot the failure ends the process, in a reconnect it is logged.
OpenFails(w) ==
  /\ \/ walkers[w].at = "opening"
     \/ /\ walkers[w].at = "walking" /\ walkers[w].next > walkers[w].to
        /\ w # 0 \/ mode = "backfilling"
  /\ RpcFails
  /\ IF w = 0
     THEN Stopped
     ELSE /\ \E leaked \in 0 .. 1 :
               /\ subs' = [subs EXCEPT !.feeds = @ + leaked]
               /\ heads' = IF leaked = 1 THEN heads \cup BestHead ELSE heads
          /\ walkers' = [walkers EXCEPT ![w] = Idle]
          /\ UNCHANGED <<mode, connected, buffer, handlers>>
  /\ UNCHANGED <<chain, finalized>>
  /\ UNCHANGED db

\* closeIngestionSubs
CloseSubs ==
  subs' = IF subs.held
          THEN [feeds |-> subs.feeds - 1, open |-> subs.open - 1, held |-> FALSE]
          ELSE subs

-------------------------------------------------------------------------------
(* Boot: stages 2 to 5.5.                                                      *)

Boot ==
  /\ mode = "down"
  /\ mode' = "backfilling"
  /\ connected' = TRUE
  /\ walkers' = [walkers EXCEPT ![0] = Walking]
  /\ UNCHANGED node
  /\ UNCHANGED <<subs, heads, buffer, handlers>>
  /\ UNCHANGED db

Stage5 ==
  /\ mode = "backfilling"
  /\ walkers[0].at = "walking"
  /\ walkers[0].next > walkers[0].to
  /\ OpenSubs(0, [Idle EXCEPT !.at = "catch-up"])
  /\ mode' = "catching-up"
  /\ UNCHANGED node
  /\ UNCHANGED <<connected, buffer>>
  /\ UNCHANGED db

\* Stage 5.5: catchUpBackfill reads the watermark and the finalized head anew.
CatchUp ==
  /\ mode = "catching-up"
  /\ walkers[0].at = "catch-up"
  /\ connected
  /\ walkers' = [walkers EXCEPT ![0] = Walking]
  /\ UNCHANGED node
  /\ UNCHANGED <<mode, connected, subs, heads, buffer, handlers>>
  /\ UNCHANGED db

\* Before its walk or after it, an RPC of Stage 5.5 fails: the process ends.
CatchUpFails ==
  /\ mode = "catching-up"
  /\ \/ walkers[0].at = "catch-up"
     \/ walkers[0].at = "walking" /\ walkers[0].next > walkers[0].to
  /\ RpcFails
  /\ Stopped
  /\ UNCHANGED <<chain, finalized>>
  /\ UNCHANGED db

GoLive ==
  /\ mode = "catching-up"
  /\ walkers[0].at = "walking"
  /\ walkers[0].next > walkers[0].to
  /\ mode' = "live"
  /\ walkers' = [walkers EXCEPT ![0] = Idle]
  /\ UNCHANGED node
  /\ UNCHANGED <<connected, subs, heads, buffer, handlers>>
  /\ UNCHANGED db

Crash ==
  /\ mode # "down"
  /\ faults.crashes < MaxCrashes
  /\ faults' = [faults EXCEPT !.crashes = @ + 1]
  /\ Stopped
  /\ UNCHANGED <<chain, finalized>>
  /\ UNCHANGED db

-------------------------------------------------------------------------------
(* The WebSocket drops and comes back.                                         *)

\* onDisconnect clears the buffer. Handlers already awaiting an RPC go on.
Disconnect ==
  /\ mode # "down"
  /\ connected
  /\ faults.disconnects < MaxDisconnects
  /\ faults' = [faults EXCEPT !.disconnects = @ + 1]
  /\ connected' = FALSE
  /\ buffer' = <<>>
  /\ UNCHANGED <<chain, finalized, mode, subs, walkers, heads, handlers>>
  /\ UNCHANGED db

Reconnect ==
  /\ mode # "down"
  /\ ~connected
  /\ connected' = TRUE
  /\ walkers' = [walkers EXCEPT ![faults.disconnects].at = "probing"]
  /\ UNCHANGED node
  /\ UNCHANGED <<mode, subs, heads, buffer, handlers>>
  /\ UNCHANGED db

\* The node answers the probe: onReconnect closes the subscriptions of the
\* current handle and catches up from the watermark to the finalized head.
OnReconnect(w) ==
  /\ walkers[w].at = "probing"
  /\ connected
  /\ CloseSubs
  /\ walkers' = [walkers EXCEPT ![w] = Walking]
  /\ UNCHANGED node
  /\ UNCHANGED <<mode, connected, heads, buffer, handlers>>
  /\ UNCHANGED db

\* It does not: onReconnect waits for the next 'connected'.
ProbeFails(w) ==
  /\ walkers[w].at = "probing"
  /\ RpcFails
  /\ walkers' = [walkers EXCEPT ![w] = Idle]
  /\ UNCHANGED <<chain, finalized, mode, connected, subs, heads, buffer, handlers>>
  /\ UNCHANGED db

Reopen(w) ==
  /\ w # 0
  /\ \/ walkers[w].at = "opening"
     \/ walkers[w].at = "walking" /\ walkers[w].next > walkers[w].to
  /\ OpenSubs(w, Idle)
  /\ UNCHANGED node
  /\ UNCHANGED <<mode, connected, buffer>>
  /\ UNCHANGED db

-------------------------------------------------------------------------------
(* The live path.                                                              *)

\* SubscriptionManager's head handler has read the block's events and pushes
\* them; a failure is swallowed.
Push(block) ==
  /\ block \in heads
  /\ connected
  /\ heads' = heads \ {block}
  /\ buffer' = IF block.events = <<>> \/ Contains(buffer, block) THEN buffer
               ELSE Append(buffer, block)
  /\ UNCHANGED node
  /\ UNCHANGED <<mode, connected, subs, walkers, handlers>>
  /\ UNCHANGED db

PushFails(block) ==
  /\ block \in heads
  /\ RpcFails
  /\ heads' = heads \ {block}
  /\ UNCHANGED <<chain, finalized, mode, connected, subs, walkers, buffer, handlers>>
  /\ UNCHANGED db

Drop(block) ==
  IF Contains(buffer, block)
  THEN \E i \in DOMAIN buffer : buffer[i] = block /\ buffer' = RemoveAt(buffer, i)
  ELSE UNCHANGED buffer

\* The handler moves on, with the buffer as it now is, to its next candidate
\* that is still buffered, or ends.
NextCandidate(i) ==
  LET later == Tail(handlers[i].todo)
      left  == {k \in DOMAIN later : Contains(buffer', later[k])}
  IN \/ left = {} /\ handlers' = RemoveAt(handlers, i)
     \/ \E k \in left :
          /\ \A j \in left : k <= j
          /\ handlers' = [handlers EXCEPT ![i] =
                            [todo |-> SubSeq(later, k, Len(later)), at |-> "header"]]

\* getHeader(blockHash) succeeds: the node has the block, on whichever fork.
HeaderFound(i) ==
  /\ handlers[i].at = "header"
  /\ connected
  /\ Drop(Head(handlers[i].todo))
  /\ handlers' = [handlers EXCEPT ![i].at = "decode"]
  /\ UNCHANGED node
  /\ UNCHANGED <<mode, connected, subs, walkers, heads>>
  /\ UNCHANGED db

\* getHeader fails: an orphan the node has pruned, or any other failure.
HeaderFails(i) ==
  /\ handlers[i].at = "header"
  /\ IF Head(handlers[i].todo) = chain[Head(handlers[i].todo).number]
     THEN RpcFails ELSE UNCHANGED faults
  /\ Drop(Head(handlers[i].todo))
  /\ NextCandidate(i)
  /\ UNCHANGED <<chain, finalized, mode, connected, subs, walkers, heads>>
  /\ UNCHANGED db

\* decodeBlockEvents and dispatchBlockEvents: one transaction with the events
\* of the block and the watermark.
Dispatch(i) ==
  LET block == Head(handlers[i].todo) IN
  /\ handlers[i].at = "decode"
  /\ connected
  /\ ingest(<<block>>)
  /\ advanceWatermark(block.number)
  /\ dispatched' = TRUE
  /\ UNCHANGED buffer
  /\ NextCandidate(i)
  /\ UNCHANGED node
  /\ UNCHANGED <<mode, connected, subs, walkers, heads>>

\* The error is logged: "events lost for this block".
DispatchFails(i) ==
  /\ handlers[i].at = "decode"
  /\ RpcFails
  /\ UNCHANGED buffer
  /\ NextCandidate(i)
  /\ UNCHANGED <<chain, finalized, mode, connected, subs, walkers, heads>>
  /\ UNCHANGED db

-------------------------------------------------------------------------------
Init ==
  /\ chain = <<>>
  /\ finalized = 0
  /\ faults = [reorgs |-> 0, crashes |-> 0, disconnects |-> 0, failures |-> 0]
  /\ mode = "down"
  /\ connected = FALSE
  /\ subs = NoSubs
  /\ walkers = [w \in 0 .. MaxDisconnects |-> Idle]
  /\ heads = {}
  /\ buffer = <<>>
  /\ handlers = <<>>
  /\ log = {}
  /\ row = NoRow
  /\ watermark = 0
  /\ dispatched = FALSE

Chain == NewBlock \/ Reorg \/ Finalize

Walk(w) ==
  CommitBatch(w) \/ BatchFails(w) \/ OnReconnect(w) \/ ProbeFails(w)
  \/ Reopen(w) \/ OpenFails(w)

Handle(i) == HeaderFound(i) \/ HeaderFails(i) \/ Dispatch(i) \/ DispatchFails(i)

Next ==
  \/ Chain
  \/ Boot \/ Stage5 \/ CatchUp \/ CatchUpFails \/ GoLive \/ Crash
  \/ Disconnect \/ Reconnect
  \/ \E w \in DOMAIN walkers : Walk(w)
  \/ \E block \in heads : Push(block) \/ PushFails(block)
  \/ \E i \in DOMAIN handlers : Handle(i)

Spec == Init /\ [][Next]_indexerVars

\* The event loop and the supervisor keep the process going, and the WebSocket
\* provider keeps reconnecting; nothing obliges the chain, a crash or a fault.
Fairness ==
  /\ WF_indexerVars(Boot \/ Stage5 \/ CatchUp \/ GoLive)
  /\ WF_indexerVars(Reconnect)
  /\ \A w \in 0 .. MaxDisconnects : WF_indexerVars(CommitBatch(w) \/ OnReconnect(w) \/ Reopen(w))
  /\ WF_indexerVars(\E block \in heads : Push(block))
  /\ WF_indexerVars(\E i \in DOMAIN handlers : HeaderFound(i) \/ Dispatch(i))

FairSpec == Spec /\ Fairness

-------------------------------------------------------------------------------
(* Properties.                                                                *)

\* The watermark and the event log keep to blocks that are final, whichever
\* activity writes them and whatever becomes of the best chain meanwhile.
OnlyFinal ==
  /\ watermark \in 0 .. finalized
  /\ \A entry \in log : entry.block.number <= finalized

\* Type invariant of the database and of the process. No more feeds are open
\* than there were openings: boot's own and one for each disconnect.
IndexerTypeOK ==
  /\ finalized \in 0 .. Len(chain)
  /\ mode \in {"down", "backfilling", "catching-up", "live"}
  /\ connected \in BOOLEAN
  /\ subs \in [feeds: 0 .. MaxDisconnects + 1, open: 0 .. MaxDisconnects + 1, held: BOOLEAN]
  /\ subs.open <= subs.feeds
  /\ \A w \in DOMAIN walkers :
       walkers[w].at \in {"idle", "probing", "catch-up", "walking", "opening"}
  /\ \A i \in DOMAIN handlers : handlers[i].todo # <<>>
  /\ OnlyFinal

AllLogged(n) == \A k \in 1 .. n : logged(chain[k]) \subseteq log

\* The event log is the final chain's events: all of them up to the watermark,
\* and no orphan's.
LogIsChain ==
  /\ AllLogged(watermark)
  /\ \A entry \in log : entry.block = chain[entry.block.number]

StatusOf(events) == IF events = <<>> THEN "None" ELSE StatusAfter[Last(events)]

\* Until the live path first advances the watermark, crashes, restarts, failed
\* batches and reorganisations lose nothing: every event up to the watermark
\* is in the event log, no event of an orphan is, and, if no block has two of
\* its events, the row is the bounty as of the watermark.
ColdStartComplete ==
  ~dispatched =>
    /\ LogIsChain
    /\ (\A n \in DOMAIN chain : Len(chain[n].events) <= 1) =>
         row.status = StatusOf(EventsOf(SubSeq(chain, 1, watermark)))

\* The projection never says what the event log does not: a row has its
\* bounty's BountyPosted in the log, the block it names has an event in the
\* log, and its status is that of a logged event no later than that block.
RowFromLog ==
  row # NoRow =>
    /\ \E entry \in log : entry.event = "BountyPosted"
    /\ \E entry \in log : entry.block.number = row.last_event_block
    /\ \E entry \in log : /\ StatusAfter[entry.event] = row.status
                          /\ entry.block.number <= row.last_event_block

\* Whatever is replayed, reordered or ingested twice, the row moves only to a
\* later block and never disappears.
RowMovesForward ==
  [][row' # row => row'.last_event_block > row.last_event_block]_indexerVars

\* The watermark never falls and the event log never loses an entry, through
\* backfill, live dispatch and reconnects running at once, and crashes.
WatermarkMovesForward ==
  [][watermark' >= watermark /\ log \subseteq log']_indexerVars

\* Every start ends: with the faults over, the process is live for good, and
\* the live path has finished whatever it had begun.
BecomesLive == <>[](mode = "live" /\ heads = {} /\ handlers = <<>>)

\* Stages 4 and 5.5 and the idempotent live path together leave no gap below
\* the watermark (subscriptions.ts:22-35, backfill.ts:7-12). Violated: blocks
\* between the finalized head of Stage 5.5 and the best head at which the
\* subscription opened are announced to nobody, and the next live dispatch
\* moves the watermark past them.
OnItsWay(n) ==
  \/ chain[n] \in heads
  \/ Contains(buffer, chain[n])
  \/ \E i \in DOMAIN handlers : Contains(handlers[i].todo, chain[n])
  \/ \E w \in DOMAIN walkers : \/ walkers[w].at = "catch-up"
                               \/ walkers[w].next <= n /\ n <= walkers[w].to

NothingSkipped ==
  \A n \in 1 .. watermark : logged(chain[n]) \subseteq log \/ OnItsWay(n)

===============================================================================
