--------------------------------- MODULE Ingest ---------------------------------
(***************************************************************************)
(* What the indexer makes of the contents of a block: decodeBlockEvents    *)
(* (services/indexer/src/chain/decode.ts), which names for every event the *)
(* transaction behind it, and ingestSingleBlock (ingest/dispatch.ts),      *)
(* which logs each event inside a savepoint. Module Indexer has the other  *)
(* half: who ingests which block when.                                     *)
(*                                                                         *)
(* A call to a program is its number; `via` is how it got there: "send" is *)
(* a signed gear.sendMessage to our program, "foreign" one to another      *)
(* program, "other" any other way to ours (a voucher, a batch, a program). *)
(* The node queues calls; it runs the queue in order, perhaps blocks later,*)
(* and a call that succeeds leaves one event.                              *)
(***************************************************************************)
EXTENDS Integers, Sequences, Functions, Collections

CONSTANTS
  CallKinds,  \* the kinds of calls there are
  MaxCalls,   \* bound: calls
  MaxBlocks   \* bound: blocks

ASSUME IngestAssumption ==
  /\ {MaxCalls, MaxBlocks} \subseteq Nat
  /\ CallKinds \subseteq [via : {"send", "foreign", "other"}, name : {"Submit", "Other"},
                          ok : BOOLEAN]

VARIABLES
  calls,      \* external: every call, in the order of its inclusion
  queue,      \* external: calls the node has not run yet
  current,    \* external: the block being built
  blocks,     \* external: the finalized blocks
  logs,       \* Postgres: bounty_events and what of it bounties repeats
  parked,     \* Postgres: parse_errors
  ingested    \* history: the blocks that a walker or a handler has ingested

ingestNode == <<calls, queue, current, blocks>>
ingestVars == <<calls, queue, current, blocks, logs, parked, ingested>>

EmptyBlock == [extrinsics |-> <<>>, events |-> <<>>]

IngestInit ==
  /\ calls = <<>> /\ queue = <<>> /\ current = EmptyBlock /\ blocks = <<>>
  /\ logs = [e \in {} |-> 0] /\ parked = {} /\ ingested = {}

-------------------------------------------------------------------------------
(* The node.                                                                *)

Include(call) ==
  /\ Len(calls) < MaxCalls
  /\ calls' = Append(calls, call)
  /\ queue' = Append(queue, Len(calls'))
  /\ current' = IF call.via = "other" THEN current
                ELSE [current EXCEPT !.extrinsics = Append(@, Len(calls'))]
  /\ UNCHANGED <<blocks, logs, parked, ingested>>

\* A call the program refuses leaves no broadcast event.
RunQueue ==
  /\ queue # <<>>
  /\ queue' = Tail(queue)
  /\ current' = IF calls[Head(queue)].ok
                THEN [current EXCEPT !.events = Append(@, Head(queue))] ELSE current
  /\ UNCHANGED <<calls, blocks, logs, parked, ingested>>

Seal ==
  /\ Len(blocks) < MaxBlocks
  /\ blocks' = Append(blocks, current)
  /\ current' = EmptyBlock
  /\ UNCHANGED <<calls, queue, logs, parked, ingested>>

-------------------------------------------------------------------------------
(* The indexer.                                                             *)

ToUs == {c \in 1 .. Len(calls) : calls[c].via # "foreign"}

\* The signed sends of a block to our program, in order.
collectUserSends(block) == Kept(block.extrinsics, ToUs)

\* The events of a block that our program broadcast.
ours(block) == Kept(block.events, ToUs)

None == 0
Garbage == -1

\* The payload of a BountySubmitted is read out of the paired call. A call of
\* another method fails to decode or, now and then, decodes to something.
decodeSubmitResultPayload(event, c, garbled) ==
  IF calls[event].name # "Submit" \/ c = None THEN None
  ELSE IF calls[c].name = "Submit" THEN c
  ELSE IF garbled THEN Garbage ELSE None

\* Mutation of PairedWith: counted from zero.
PairedWithNext(block, i) ==
  IF i + 1 <= Len(collectUserSends(block)) THEN collectUserSends(block)[i + 1] ELSE None

\* The i-th event is paired with the i-th send.
PairedWith(block, i) ==
  IF i <= Len(collectUserSends(block)) THEN collectUserSends(block)[i] ELSE None

\* decodeBlockEvents: the transaction and the payload the i-th event is given.
Decoded(block, i, garbled) ==
  [tx |-> PairedWith(block, i),
   payload |-> decodeSubmitResultPayload(ours(block)[i], PairedWith(block, i), garbled)]

\* Mutation of Savepoint: the first event that fails ends the block.
SavepointEndsBlock(block, bad, i) == \A j \in bad : i < j

\* The events whose insert and projection stay: each has a savepoint of its own.
Savepoint(block, bad, i) == i \notin bad

\* ingestSingleBlock, in the transaction of a walker or of a live handler: any
\* finalized block, in any order, any number of times. Events in `bad` throw
\* and are parked; ON CONFLICT DO NOTHING keeps what is there.
IngestBlock(b) ==
  LET block == blocks[b]
      events == ours(block)
  IN  /\ \E garbled \in BOOLEAN, bad \in SUBSET (1 .. Len(events)) :
           LET kept == {i \in 1 .. Len(events) : Savepoint(block, bad, i)}
               fresh == [e \in {events[i] : i \in kept} |->
                           Decoded(block, CHOOSE i \in kept : events[i] = e, garbled)]
           IN  /\ logs' = [e \in DOMAIN logs \cup DOMAIN fresh |->
                             IF e \in DOMAIN logs THEN logs[e] ELSE fresh[e]]
               /\ parked' = parked \cup {events[i] : i \in bad}
      /\ ingested' = ingested \cup {b}
      /\ UNCHANGED ingestNode

IngestNext ==
  \/ \E call \in CallKinds : Include(call)
  \/ RunQueue
  \/ Seal
  \/ \E b \in 1 .. Len(blocks) : IngestBlock(b)

IngestSpec == IngestInit /\ [][IngestNext]_ingestVars

-------------------------------------------------------------------------------
IngestTypeOK ==
  /\ calls \in Seq(CallKinds) /\ queue \in Seq(1 .. Len(calls))
  /\ parked \cup DOMAIN logs \subseteq {c \in ToUs : calls[c].ok}
  /\ \A e \in DOMAIN logs :
       logs[e] \in [tx : None .. Len(calls), payload : Garbage .. Len(calls)]
  /\ ingested \subseteq 1 .. Len(blocks)

\* Every event of our program in a block that was ingested, by whom and after
\* which others ever, is in the log or among the parse errors (or in both, if it
\* failed once and not another time), and nothing else is: one bad event costs
\* neither its siblings nor their block. That every block up to the watermark
\* is ingested is another claim, and false (see NothingSkipped of Indexer).
AccountedFor ==
  UNION {Range(ours(blocks[b])) : b \in ingested} = DOMAIN logs \cup parked

\* A block in which the pairing can be right: each of its sends succeeded in
\* this very block, and nothing else of ours did.
Direct(block) == Kept(block.extrinsics, ToUs) = ours(block)

\* In such a block every event names its own transaction, and a submission the
\* payload it was submitted with. A refused send, a voucher or a queue put off
\* to the next block shifts all that follow.
PairingExact ==
  \A b \in ingested : Direct(blocks[b]) =>
    \A e \in Range(ours(blocks[b])) \cap DOMAIN logs :
      logs[e] = [tx |-> e, payload |-> IF calls[e].name = "Submit" THEN e ELSE None]

\* However far the pairing is off, a row never carries a transaction of another
\* block, and only a submission carries a payload: its own, another one's of
\* the same block, or what a call of another method decodes to.
AttributionStaysInBlock ==
  \A b \in ingested : \A e \in Range(ours(blocks[b])) \cap DOMAIN logs :
    /\ logs[e].tx # None => logs[e].tx \in Range(blocks[b].extrinsics) \cap ToUs
    /\ logs[e].payload \in {None, Garbage, logs[e].tx}
    /\ logs[e].payload # None => calls[e].name = "Submit"

\* What a row says of its transaction and payload is exact where the pairing
\* can be, and stays in the block where it cannot.
AttributionSound == PairingExact /\ AttributionStaysInBlock

================================================================================
