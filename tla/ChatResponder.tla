----------------------------- MODULE ChatResponder -----------------------------
(***************************************************************************)
(* The chat-responder: the loop of services/chat-responder/src/main.ts,    *)
(* the two queries of indexer.ts it steers by, the SQLite file of state.ts *)
(* and the chat hub it posts to.                                           *)
(*                                                                         *)
(* A message is its number; numbers follow the order of the hub. It is     *)
(* kept with its time stamp, its author (a peer, or one of our own         *)
(* applications: the chat-poster mentions bountymesh-rep) and how many of  *)
(* our applications it mentions, as each mention is a row of its own in    *)
(* the answer of the query. A call is made in two steps: it is sent, and   *)
(* it lands; the answer may be lost in between or afterwards.              *)
(***************************************************************************)
EXTENDS Integers, Sequences, FiniteSets

CONSTANTS
  MaxMessages,             \* bound: messages posted to the hub
  MaxTime,                 \* bound: the clock
  Window,                  \* the 30 minutes a restarted responder looks back
  Limit,                   \* `first: 50` of the query
  Kinds,                   \* messages some account posts: author, our apps mentioned
  MAX_REPLIES_PER_CYCLE,
  MaxMishaps               \* bound: crashes, lost answers, failing queries

ASSUME RespAssumption ==
  /\ {MaxMessages, MaxTime, Window, MaxMishaps} \subseteq Nat
  /\ Kinds \subseteq {"peer", "ours"} \X (1 .. 3)
  /\ {Limit, MAX_REPLIES_PER_CYCLE} \subseteq Nat \ {0}

VARIABLES
  now,         \* Date.now()
  hub,         \* messages that mention us, in the order of the chain
  indexed,     \* how many of them the chat indexer shows
  replies,     \* how many replies each has on the chain
  shownReply,  \* messages whose reply the chat indexer shows
  adrift,      \* replies sent whose sender no longer waits for them
  processed,   \* table processed_messages
  lastProcessedAt,  \* counter last_processed_at, or -1
  resp,        \* pollAndRespond between two awaits
  mishaps,
  unmarked,    \* history: a reply was sent for it and its mark never made or lost
  unseen,      \* history: findOurExistingReply missed a reply sent for it
  failed,      \* history: an attempt to answer it failed
  outOfReach   \* history: too old, or beyond Limit, at some poll

respDisk == <<processed, lastProcessedAt>>
respPast == <<unmarked, unseen, failed, outOfReach>>
respHub == <<now, hub, indexed, shownReply>>
respVars == <<now, hub, indexed, replies, shownReply, adrift, processed, lastProcessedAt,
              resp, mishaps, unmarked, unseen, failed, outOfReach>>

Messages == 1 .. MaxMessages
Posted == 1 .. Len(hub)
Nothing == -1
Idle == [at |-> "idle", todo |-> <<>>, newest |-> Nothing, count |-> 0]

RespInit ==
  /\ now = 0
  /\ hub = <<>>
  /\ indexed = 0
  /\ replies = [m \in Messages |-> 0]
  /\ shownReply = {}
  /\ adrift = [m \in Messages |-> 0]
  /\ processed = {}
  /\ lastProcessedAt = Nothing
  /\ resp = Idle
  /\ mishaps = 0
  /\ unmarked = {} /\ unseen = {} /\ failed = {} /\ outOfReach = {}

-------------------------------------------------------------------------------
(* The hub, its indexer and the clock.                                      *)

Mention(kind) ==
  /\ Len(hub) < MaxMessages
  /\ hub' = Append(hub, [ts |-> now, author |-> kind[1], rows |-> kind[2]])
  /\ UNCHANGED <<now, indexed, replies, shownReply, adrift, respDisk, resp, mishaps, respPast>>

ChatIndexerCatchesUp ==
  /\ indexed' = Len(hub)
  /\ shownReply' = {m \in Messages : replies[m] > 0}
  /\ UNCHANGED <<now, hub, replies, adrift, respDisk, resp, mishaps, respPast>>

Tick ==
  /\ now < MaxTime
  /\ now' = now + 1
  /\ UNCHANGED <<hub, indexed, replies, shownReply, adrift, respDisk, resp, mishaps, respPast>>

\* A reply nobody waits for any more is included in a block after all.
DriftsIn(m) ==
  /\ adrift[m] > 0
  /\ adrift' = [adrift EXCEPT ![m] = @ - 1]
  /\ replies' = [replies EXCEPT ![m] = @ + 1]
  /\ UNCHANGED <<respHub, respDisk, resp, mishaps, respPast>>

Mishap == mishaps < MaxMishaps /\ mishaps' = mishaps + 1

-------------------------------------------------------------------------------
(* One poll.                                                                *)

\* max(lastProcessed, now - 30min).
Since == IF lastProcessedAt > now - Window THEN lastProcessedAt ELSE now - Window

Times(m, list) == Cardinality({i \in 1 .. Len(list) : list[i] = m})

\* Mutation of IsListing: newest first, as the query returns them.
IsListingBackwards(list) ==
  /\ \A i, j \in 1 .. Len(list) : i < j => hub[list[i]].ts >= hub[list[j]].ts
  /\ \A m \in 1 .. indexed :
       /\ Times(m, list) <= hub[m].rows
       /\ hub[m].ts < Since => Times(m, list) = 0
       /\ hub[m].ts >= Since /\ Times(m, list) < hub[m].rows =>
            Len(list) = Limit /\ hub[m].ts <= hub[list[Len(list)]].ts

\* getRecentMentions: of the Limit newest rows those not older than Since,
\* oldest first. Rows of one block come in any order.
IsListing(list) ==
  /\ \A i, j \in 1 .. Len(list) : i < j => hub[list[i]].ts <= hub[list[j]].ts
  /\ \A m \in 1 .. indexed :
       /\ Times(m, list) <= hub[m].rows
       /\ hub[m].ts < Since => Times(m, list) = 0
       /\ hub[m].ts >= Since /\ Times(m, list) < hub[m].rows =>
            Len(list) = Limit /\ hub[m].ts <= hub[list[1]].ts

\* pollAndRespond up to its loop. A query that fails skips the cycle, and so
\* changes nothing.
Poll ==
  /\ resp.at = "idle"
  /\ \E n \in 0 .. Limit : \E list \in [1 .. n -> 1 .. indexed] :
       /\ IsListing(list)
       /\ resp' = IF list = <<>> THEN Idle ELSE [Idle EXCEPT !.at = "next", !.todo = list]
       /\ outOfReach' = outOfReach \cup
            {m \in 1 .. indexed : \/ hub[m].ts < now - Window
                                  \/ hub[m].ts >= Since /\ Times(m, list) = 0}
  /\ UNCHANGED <<respHub, replies, adrift, respDisk, mishaps, unmarked, unseen, failed>>

Turns(at) == resp' = [resp EXCEPT !.at = at]

Passes == resp' = [resp EXCEPT !.at = "next", !.todo = Tail(@)]

Current == Head(resp.todo)
Up(at) == resp.at = at /\ UNCHANGED respHub

\* The reply cap, or the end of the list: the cursor moves to the last reply.
EndCycle ==
  /\ Up("next")
  /\ resp.todo = <<>> \/ resp.count >= MAX_REPLIES_PER_CYCLE
  /\ lastProcessedAt' = IF resp.newest = Nothing THEN lastProcessedAt ELSE resp.newest
  /\ resp' = Idle
  /\ UNCHANGED <<replies, adrift, processed, mishaps, respPast>>

InCycle(at) == Up(at) /\ resp.todo # <<>> /\ resp.count < MAX_REPLIES_PER_CYCLE

\* Mutation of Skippable: the rows of processed_messages are not asked.
SkippableOurs(m) == hub[m].author = "ours"

\* shouldSkip, or wasProcessed.
Skippable(m) == hub[m].author = "ours" \/ m \in processed

Skip ==
  /\ InCycle("next")
  /\ Skippable(Current)
  /\ Passes
  /\ UNCHANGED <<replies, adrift, respDisk, mishaps, respPast>>

AsksIndexer ==
  /\ InCycle("next")
  /\ ~Skippable(Current)
  /\ Turns("probing")
  /\ UNCHANGED <<replies, adrift, respDisk, mishaps, respPast>>

\* findOurExistingReply finds one: markProcessed, and on to the next.
AlreadyAnswered ==
  /\ Up("probing")
  /\ Current \in shownReply
  /\ processed' = processed \cup {Current}
  /\ Passes
  /\ UNCHANGED <<replies, adrift, lastProcessedAt, mishaps, respPast>>

Sent(m) == replies[m] + adrift[m] + (IF resp.at = "sending" /\ Current = m THEN 1 ELSE 0)

\* It finds none; a query that fails says the same.
NoReplySeen == \/ Current \notin shownReply /\ UNCHANGED mishaps
               \/ Current \in shownReply /\ Mishap

Unanswered ==
  /\ Up("probing")
  /\ NoReplySeen
  /\ Turns("composing")
  /\ unseen' = IF Sent(Current) > 0 THEN unseen \cup {Current} ELSE unseen
  /\ UNCHANGED <<replies, adrift, respDisk, unmarked, failed, outOfReach>>

\* Compose throws, its reply is too short, or the call fails before it is
\* sent: the mention is passed over.
GivesUp ==
  /\ Up("composing")
  /\ Mishap
  /\ failed' = failed \cup {Current}
  /\ Passes
  /\ UNCHANGED <<replies, adrift, respDisk, unmarked, unseen, outOfReach>>

SendsReply ==
  /\ Up("composing")
  /\ Turns("sending")
  /\ UNCHANGED <<replies, adrift, respDisk, mishaps, respPast>>

ReplyLands ==
  /\ Up("sending")
  /\ replies' = [replies EXCEPT ![Current] = @ + 1]
  /\ Turns("landed")
  /\ UNCHANGED <<adrift, respDisk, mishaps, respPast>>

\* The hub refuses it or the node drops it.
ReplyRefused ==
  /\ Up("sending")
  /\ Mishap
  /\ failed' = failed \cup {Current}
  /\ Passes
  /\ UNCHANGED <<replies, adrift, respDisk, unmarked, unseen, outOfReach>>

\* What becomes of a reply that its sender stops waiting for.
Abandons ==
  /\ adrift' = IF resp.at = "sending" THEN [adrift EXCEPT ![Current] = @ + 1] ELSE adrift
  /\ unmarked' = IF resp.at \in {"sending", "landed"} THEN unmarked \cup {Current} ELSE unmarked

\* signAndSend or response() throws although the reply lands, now or later.
AnswerLost ==
  /\ resp.at \in {"sending", "landed"}
  /\ Mishap
  /\ Abandons
  /\ failed' = failed \cup {Current}
  /\ Passes
  /\ UNCHANGED <<respHub, replies, respDisk, unseen, outOfReach>>

Mark ==
  /\ processed' = processed \cup {Current}
  /\ UNCHANGED lastProcessedAt

\* Mutation of Newest: the time of the reply.
NewestNow == now

\* The stamp of the mention answered last.
Newest == hub[Current].ts

ReplyReturns ==
  /\ Up("landed")
  /\ Mark
  /\ resp' = [at |-> "next", todo |-> Tail(resp.todo), newest |-> Newest,
              count |-> resp.count + 1]
  /\ UNCHANGED <<replies, adrift, mishaps, respPast>>

\* The process is gone and the supervisor starts it again.
RespCrash ==
  /\ Mishap
  /\ Abandons
  /\ resp' = Idle
  /\ UNCHANGED <<respHub, replies, respDisk, unseen, failed, outOfReach>>

\* A redeploy: the file system is new as well.
Redeploy ==
  /\ Mishap
  /\ adrift' = IF resp.at = "sending" THEN [adrift EXCEPT ![Current] = @ + 1] ELSE adrift
  /\ unmarked' = unmarked \cup processed \cup
                   (IF resp.at \in {"sending", "landed"} THEN {Current} ELSE {})
  /\ resp' = Idle
  /\ processed' = {}
  /\ lastProcessedAt' = Nothing
  /\ UNCHANGED <<respHub, replies, unseen, failed, outOfReach>>

RespStep ==
  \/ Poll \/ EndCycle \/ Skip \/ AsksIndexer \/ AlreadyAnswered \/ Unanswered
  \/ SendsReply \/ ReplyLands \/ ReplyReturns

RespNext ==
  \/ \E kind \in Kinds : Mention(kind)
  \/ ChatIndexerCatchesUp
  \/ Tick
  \/ \E m \in Messages : DriftsIn(m)
  \/ RespStep
  \/ GivesUp \/ ReplyRefused \/ AnswerLost \/ RespCrash \/ Redeploy

RespSpec == RespInit /\ [][RespNext]_respVars

-------------------------------------------------------------------------------
RespTypeOK ==
  /\ now \in 0 .. MaxTime
  /\ hub \in Seq([ts : 0 .. now, author : {"peer", "ours"}, rows : 1 .. 3])
  /\ Len(hub) <= MaxMessages
  /\ indexed \in 0 .. Len(hub)
  /\ replies \in [Messages -> Nat] /\ adrift \in [Messages -> Nat]
  /\ processed \subseteq Posted /\ shownReply \subseteq Messages
  /\ unmarked \subseteq Posted /\ unseen \subseteq Posted
  /\ failed \subseteq Posted /\ outOfReach \subseteq Posted
  /\ lastProcessedAt \in -1 .. now
  /\ resp \in [at : {"idle", "next", "probing", "composing", "sending", "landed"},
               todo : Seq(Posted), newest : -1 .. now, count : Nat]
  /\ resp.at \in {"probing", "composing", "sending", "landed"} => resp.todo # <<>>

\* A message is answered a second time only if two things went wrong together:
\* the mark of an earlier reply was never made or was lost (a crash, a lost
\* answer, a redeploy), and the chat indexer did not show that reply when it
\* was asked. Either of the two guards of the loop alone is enough otherwise,
\* also for a message that mentions two of our applications.
TwiceNeedsBoth ==
  \A m \in Messages : replies[m] > 1 => m \in unmarked \cap unseen

\* Whatever is marked as processed has a reply on the chain: a mark is never
\* made for an attempt that came to nothing.
MarkedIsAnswered == \A m \in processed : replies[m] > 0

\* The cursor has passed a peer's message for good only if it was answered, if
\* an attempt failed (main.ts:374, it is never tried again), or if it was too
\* old or beyond the newest fifty rows when the hub was asked.
PassedIsSettled ==
  \A m \in 1 .. indexed :
    hub[m].author = "peer" /\ hub[m].ts < lastProcessedAt =>
      replies[m] > 0 \/ m \in failed \cup outOfReach

\* A redeploy forgets the cursor; nothing else moves it back.
CursorForward ==
  [][lastProcessedAt' # Nothing => lastProcessedAt' >= lastProcessedAt]_respVars

\* Every message of a peer that the chat indexer shows is answered in the end,
\* unless an attempt failed or it fell out of reach.
MentionsSettle ==
  \A m \in Messages :
    m <= indexed /\ hub[m].author = "peer" ~>
      replies[m] > 0 \/ m \in failed \cup outOfReach

================================================================================
