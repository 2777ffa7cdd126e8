------------------------------ MODULE ChatProofs -------------------------------
(***************************************************************************)
(* Proofs about the two chat agents.                                       *)
(*                                                                         *)
(* The chat-responder, for any number of messages, polls, crashes,         *)
(* redeploys and lost answers, and any size of window, limit and cap.      *)
(* AnswersInv says where a reply can be known from: it is marked, its mark *)
(* is missing and recorded as such, or it is the one under way. CursorInv  *)
(* says what lies behind a row of the list: a peer's message older than it *)
(* is settled or comes before it.                                          *)
(*                                                                         *)
(* The chat-poster, for any caps and any number of cycles, lost answers    *)
(* and crashes. CapsInv says that the counters of the process cover what   *)
(* it has landed and learnt of: an invitation is counted, and a request    *)
(* that has not expired is in the log, unless its answer is still under    *)
(* way; and a call goes out only when its counter is below the cap.        *)
(***************************************************************************)
EXTENDS ChatResponder, ChatPoster, CollectionsProofs

Under == {"probing", "composing", "sending", "landed"}

Elsewhere(m) == replies[m] + adrift[m]

\* Whatever has been sent for m is known from one of three places.
Accounted(m) ==
  Elsewhere(m) > 0 =>
    m \in processed \cup unmarked \/ (resp.at = "landed" /\ Current = m)

AnswersInv ==
  /\ \A m \in Messages : Accounted(m)
  /\ \A m \in Messages : Elsewhere(m) > 1 => m \in unmarked \cap unseen
  /\ resp.at \in {"probing", "composing", "sending"} => Current \notin processed
  /\ resp.at \in {"composing", "sending"} =>
       (Elsewhere(Current) > 0 => Current \in unmarked \cap unseen)
  /\ resp.at = "landed" => replies[Current] > 0
  /\ \A m \in processed \cup shownReply : replies[m] > 0

Settled(m) == replies[m] > 0 \/ m \in failed \cup outOfReach

\* Some message the indexer shows carries the stamp t.
ReadAt(t) == \E k \in 1 .. indexed : hub[k].ts = t

\* The peers' messages older than t are settled.
PassedBy(t) ==
  \A m \in 1 .. indexed : hub[m].author = "peer" /\ hub[m].ts < t => Settled(m)

\* A row of the list was read from the indexer, is not older than the cursor,
\* and every older message of a peer is settled or comes first.
RowInTurn(i) ==
  /\ resp.todo[i] \in 1 .. indexed
  /\ hub[resp.todo[i]].ts >= lastProcessedAt
  /\ \A m \in 1 .. indexed :
       hub[m].author = "peer" /\ hub[m].ts < hub[resp.todo[i]].ts =>
         Settled(m) \/ \E j \in 1 .. i - 1 : resp.todo[j] = m

CursorInv ==
  /\ \A k, m \in Posted : k < m => hub[k].ts <= hub[m].ts
  /\ lastProcessedAt # Nothing => ReadAt(lastProcessedAt)
  /\ PassedBy(lastProcessedAt)
  /\ resp.newest # Nothing =>
       ReadAt(resp.newest) /\ PassedBy(resp.newest) /\ resp.newest >= lastProcessedAt
  /\ \A i \in 1 .. Len(resp.todo) : RowInTurn(i)

-------------------------------------------------------------------------------
(* Types.                                                                     *)

LEMMA RespFacts ==
  ASSUME RespTypeOK
  PROVE  /\ now \in Nat /\ Len(hub) \in Nat /\ indexed \in Nat /\ indexed <= Len(hub)
         /\ Posted \subseteq Messages /\ 1 .. indexed \subseteq Posted
         /\ \A m \in Posted : /\ hub[m] \in [ts : 0 .. now, author : {"peer", "ours"}, rows : 1 .. 3]
                              /\ hub[m].ts \in 0 .. now
         /\ resp.at \in {"idle", "next"} \cup Under
         /\ resp.todo \in Seq(Posted) /\ Len(resp.todo) \in Nat
         /\ resp.newest \in -1 .. now /\ resp.count \in Nat
<1>1. /\ now \in Nat /\ Len(hub) \in Nat /\ indexed \in Nat /\ indexed <= Len(hub)
      /\ MaxMessages \in Nat /\ Len(hub) <= MaxMessages
  BY RespAssumption, LenProperties DEF RespTypeOK
<1>2. Posted \subseteq Messages /\ 1 .. indexed \subseteq Posted
  BY <1>1 DEF Posted, Messages
<1>3. \A m \in Posted : hub[m] \in [ts : 0 .. now, author : {"peer", "ours"}, rows : 1 .. 3]
  BY ElementOfSeq DEF RespTypeOK, Posted
<1>4. /\ resp.at \in {"idle", "next"} \cup Under
      /\ resp.todo \in Seq(Posted) /\ resp.newest \in -1 .. now /\ resp.count \in Nat
  BY DEF RespTypeOK, Under
<1>5. Len(resp.todo) \in Nat
  BY <1>4, LenProperties
<1>6. QED
  BY <1>1, <1>2, <1>3, <1>4, <1>5

\* The mention the loop is at, and the list without it.
LEMMA CurrentFacts ==
  ASSUME RespTypeOK, resp.todo # <<>>
  PROVE  /\ Current \in Posted /\ Current \in Messages /\ Current = resp.todo[1]
         /\ Len(resp.todo) \in Nat \ {0}
         /\ Tail(resp.todo) \in Seq(Posted)
         /\ Len(Tail(resp.todo)) = Len(resp.todo) - 1
         /\ \A i \in 1 .. Len(resp.todo) - 1 : Tail(resp.todo)[i] = resp.todo[i + 1]
<1>1. resp.todo \in Seq(Posted) /\ Posted \subseteq Messages
  BY RespFacts
<1>2. /\ Head(resp.todo) \in Posted
      /\ Tail(resp.todo) \in Seq(Posted)
      /\ Len(Tail(resp.todo)) = Len(resp.todo) - 1
      /\ \A i \in 1 .. Len(Tail(resp.todo)) : Tail(resp.todo)[i] = resp.todo[i + 1]
  BY <1>1, HeadTailProperties
<1>3. Len(resp.todo) \in Nat \ {0}
  BY <1>1, EmptySeq
<1>4. Head(resp.todo) = resp.todo[1]
  BY <1>1
<1>5. QED
  BY <1>1, <1>2, <1>3, <1>4 DEF Current

\* A cycle between two awaits, as a set of records.
Cycles(posted, upTo) ==
  [at : {"idle", "next"} \cup Under, todo : Seq(posted), newest : -1 .. upTo, count : Nat]

\* How `resp` changes when a handler turns or passes on.
LEMMA TurnsFacts ==
  ASSUME RespTypeOK, NEW at \in {"idle", "next"} \cup Under, Turns(at)
  PROVE  /\ resp'.at = at /\ resp'.todo = resp.todo
         /\ resp'.newest = resp.newest /\ resp'.count = resp.count
         /\ resp' \in Cycles(Posted, now)
BY DEF RespTypeOK, Turns, Cycles, Under

LEMMA PassesFacts ==
  ASSUME RespTypeOK, resp.todo # <<>>, Passes
  PROVE  /\ resp'.at = "next" /\ resp'.todo = Tail(resp.todo)
         /\ resp'.newest = resp.newest /\ resp'.count = resp.count
         /\ resp' \in Cycles(Posted, now)
BY CurrentFacts DEF RespTypeOK, Passes, Cycles, Under

LEMMA IdleFacts == ASSUME RespTypeOK PROVE Idle \in Cycles(Posted, now) /\ Idle.at = "idle"
<1>1. now \in Nat /\ <<>> \in Seq(Posted)
  BY RespFacts, EmptySeq
<1>2. QED
  BY <1>1 DEF Idle, Cycles, Nothing

\* What the types ask of a step that leaves the hub alone.
LEMMA TypesAtHub ==
  ASSUME RespTypeOK, UNCHANGED respHub,
         resp' \in Cycles(Posted, now), resp'.at \in Under => resp'.todo # <<>>,
         replies' \in [Messages -> Nat], adrift' \in [Messages -> Nat],
         processed' \subseteq Posted, unmarked' \subseteq Posted, unseen' \subseteq Posted,
         failed' \subseteq Posted, outOfReach' \subseteq Posted,
         lastProcessedAt' \in -1 .. now
  PROVE  RespTypeOK'
BY DEF RespTypeOK, respHub, Cycles, Under, Posted

-------------------------------------------------------------------------------
(* Each step keeps the types.                                                 *)

LEMMA InitTypes == RespInit => RespTypeOK
<1>1. {MaxMessages, MaxTime} \subseteq Nat /\ \A S : <<>> \in Seq(S) /\ Len(<<>>) = 0
  BY RespAssumption, EmptySeq
<1>2. QED
  BY <1>1 DEF RespInit, RespTypeOK, Idle, Nothing, Posted, Messages

\* Posting to the hub, showing it, and the clock.
LEMMA HubTypes ==
  ASSUME RespTypeOK,
         \/ \E kind \in Kinds : Mention(kind)
         \/ ChatIndexerCatchesUp
         \/ Tick
  PROVE  RespTypeOK'
<1> USE RespFacts
<1>1. ASSUME NEW kind \in Kinds, Mention(kind)
      PROVE  RespTypeOK'
  <2> DEFINE new == [ts |-> now, author |-> kind[1], rows |-> kind[2]]
             HubRows == [ts : 0 .. now, author : {"peer", "ours"}, rows : 1 .. 3]
  <2>1. new \in HubRows
    BY RespAssumption
  <2>2. hub \in Seq(HubRows) /\ hub' = Append(hub, new) /\ Len(hub) < MaxMessages
    BY <1>1 DEF RespTypeOK, Mention
  <2> HIDE DEF new, HubRows
  <2>3. hub' \in Seq(HubRows) /\ Len(hub') = Len(hub) + 1
    BY <2>1, <2>2, AppendProperties
  <2>4. Posted \subseteq Posted' /\ Len(hub') <= MaxMessages
    BY <2>2, <2>3, RespAssumption DEF Posted
  <2>5. Seq(Posted) \subseteq Seq(Posted')
    BY <2>4, SeqMonotonic
  <2>6. /\ now' = now /\ indexed' = indexed /\ resp' = resp
        /\ UNCHANGED <<replies, shownReply, adrift, processed, lastProcessedAt,
                       unmarked, unseen, failed, outOfReach>>
    BY <1>1 DEF Mention, respDisk, respPast
  <2>7. resp' \in [at : {"idle", "next", "probing", "composing", "sending", "landed"},
                   todo : Seq(Posted'), newest : -1 .. now', count : Nat]
    BY <2>5, <2>6 DEF RespTypeOK
  <2>8. indexed' \in 0 .. Len(hub')
    BY <2>3, <2>6
  <2>9. hub' \in Seq([ts : 0 .. now', author : {"peer", "ours"}, rows : 1 .. 3])
    BY <2>3, <2>6 DEF HubRows
  <2>10. QED
    BY <2>4, <2>6, <2>7, <2>8, <2>9 DEF RespTypeOK
<1>2. CASE ChatIndexerCatchesUp
  <2>1. /\ indexed' = Len(hub) /\ shownReply' = {m \in Messages : replies[m] > 0}
        /\ UNCHANGED <<now, hub, replies, adrift, processed, lastProcessedAt, resp,
                       unmarked, unseen, failed, outOfReach>>
    BY <1>2 DEF ChatIndexerCatchesUp, respDisk, respPast
  <2>2. shownReply' \subseteq Messages /\ indexed' \in 0 .. Len(hub')
    BY <2>1
  <2>3. QED
    BY <2>1, <2>2 DEF RespTypeOK, Posted
<1>3. CASE Tick
  <2> MaxTime \in Nat
    BY RespAssumption
  <2>1. /\ now' = now + 1 /\ now < MaxTime
        /\ UNCHANGED <<hub, indexed, replies, shownReply, adrift, processed,
                       lastProcessedAt, resp, unmarked, unseen, failed, outOfReach>>
    BY <1>3 DEF Tick, respDisk, respPast
  <2>2. 0 .. now \subseteq 0 .. now' /\ -1 .. now \subseteq -1 .. now'
    BY <2>1
  <2>3. hub' \in Seq([ts : 0 .. now', author : {"peer", "ours"}, rows : 1 .. 3])
    <3> DEFINE A == [ts : 0 .. now, author : {"peer", "ours"}, rows : 1 .. 3]
               B == [ts : 0 .. now', author : {"peer", "ours"}, rows : 1 .. 3]
    <3>1. A \subseteq B
      BY <2>2
    <3>2. hub' \in Seq(A)
      BY <2>1 DEF RespTypeOK
    <3> HIDE DEF A, B
    <3>3. hub' \in Seq(B)
      BY <3>1, <3>2, SeqMonotonic
    <3>4. QED
      BY <3>3 DEF B
  <2>4. /\ now' \in 0 .. MaxTime
        /\ lastProcessedAt' \in -1 .. now'
    <3>1. now \in 0 .. MaxTime /\ lastProcessedAt \in -1 .. now
      BY DEF RespTypeOK
    <3>2. lastProcessedAt' \in -1 .. now'
      BY <2>1, <2>2, <3>1
    <3>3. now' \in 0 .. MaxTime
      BY <2>1, <3>1
    <3>4. QED
      BY <3>2, <3>3
  <2>5. resp' \in [at : {"idle", "next", "probing", "composing", "sending", "landed"},
                   todo : Seq(Posted'), newest : -1 .. now', count : Nat]
    BY <2>1, <2>2 DEF RespTypeOK, Posted
  <2>6. QED
    BY <2>1, <2>3, <2>4, <2>5 DEF RespTypeOK, Posted
<1>4. QED
  BY <1>1, <1>2, <1>3

\* One more for one message.
LEMMA OneMoreFor ==
  ASSUME NEW f \in [Messages -> Nat], NEW m \in Messages
  PROVE  /\ [f EXCEPT ![m] = @ + 1] \in [Messages -> Nat]
         /\ [f EXCEPT ![m] = @ + 1][m] = f[m] + 1
         /\ \A k \in Messages : k # m => [f EXCEPT ![m] = @ + 1][k] = f[k]
OBVIOUS

\* The steps of the loop, and what becomes of a reply and of the process.
LEMMA LoopTypes ==
  ASSUME RespTypeOK,
         \/ \E m \in Messages : DriftsIn(m)
         \/ RespStep
         \/ GivesUp \/ ReplyRefused \/ AnswerLost \/ RespCrash \/ Redeploy
  PROVE  RespTypeOK'
<1> USE RespFacts
<1>1. /\ resp \in Cycles(Posted, now) /\ (resp.at \in Under => resp.todo # <<>>)
      /\ replies \in [Messages -> Nat] /\ adrift \in [Messages -> Nat]
      /\ processed \subseteq Posted /\ unmarked \subseteq Posted /\ unseen \subseteq Posted
      /\ failed \subseteq Posted /\ outOfReach \subseteq Posted
      /\ lastProcessedAt \in -1 .. now
  BY DEF RespTypeOK, Cycles, Under
<1>2. ASSUME NEW m \in Messages, DriftsIn(m)
      PROVE  RespTypeOK'
  <2>1. /\ adrift[m] > 0
        /\ adrift' = [adrift EXCEPT ![m] = @ - 1] /\ replies' = [replies EXCEPT ![m] = @ + 1]
        /\ UNCHANGED <<respHub, resp, processed, lastProcessedAt, unmarked, unseen, failed,
                       outOfReach>>
    BY <1>2 DEF DriftsIn, respDisk, respPast
  <2>2. adrift' \in [Messages -> Nat] /\ replies' \in [Messages -> Nat]
    BY <1>1, <2>1
  <2>3. QED
    BY <1>1, <2>1, <2>2, TypesAtHub
<1>3. CASE Poll
  <2>1. PICK n \in 0 .. Limit : \E list \in [1 .. n -> 1 .. indexed] :
          /\ resp' = IF list = <<>> THEN Idle ELSE [Idle EXCEPT !.at = "next", !.todo = list]
          /\ outOfReach' = outOfReach \cup
               {m \in 1 .. indexed : \/ hub[m].ts < now - Window
                                     \/ hub[m].ts >= Since /\ Times(m, list) = 0}
    BY <1>3 DEF Poll
  <2>2. PICK list \in [1 .. n -> 1 .. indexed] :
          /\ resp' = IF list = <<>> THEN Idle ELSE [Idle EXCEPT !.at = "next", !.todo = list]
          /\ outOfReach' = outOfReach \cup
               {m \in 1 .. indexed : \/ hub[m].ts < now - Window
                                     \/ hub[m].ts >= Since /\ Times(m, list) = 0}
    BY <2>1
  <2>3. list \in Seq(Posted)
    <3>1. n \in Nat /\ list \in [1 .. n -> Posted]
      BY RespAssumption
    <3>2. QED
      BY <3>1, SeqDef
  <2>4. resp' \in Cycles(Posted, now) /\ resp'.at \notin Under
    <3>1. [Idle EXCEPT !.at = "next", !.todo = list] \in Cycles(Posted, now)
      BY <2>3, IdleFacts DEF Cycles
    <3>2. [Idle EXCEPT !.at = "next", !.todo = list].at \notin Under
      BY IdleFacts DEF Cycles, Under
    <3>3. QED
      BY <2>2, <3>1, <3>2, IdleFacts DEF Under
  <2>5. outOfReach' \subseteq Posted
    BY <1>1, <2>2
  <2>6. UNCHANGED <<respHub, replies, adrift, processed, lastProcessedAt, unmarked, unseen, failed>>
    BY <1>3 DEF Poll, respDisk
  <2>7. QED
    BY <1>1, <2>4, <2>5, <2>6, TypesAtHub
<1>4. CASE EndCycle
  <2>1. /\ lastProcessedAt' = IF resp.newest = Nothing THEN lastProcessedAt ELSE resp.newest
        /\ resp' = Idle
        /\ UNCHANGED <<respHub, replies, adrift, processed, unmarked, unseen, failed, outOfReach>>
    BY <1>4 DEF EndCycle, Up, respPast
  <2>2. lastProcessedAt' \in -1 .. now
    BY <1>1, <2>1
  <2>3. resp' \in Cycles(Posted, now) /\ resp'.at \notin Under
    BY <2>1, IdleFacts DEF Under
  <2>4. QED
    BY <1>1, <2>1, <2>2, <2>3, TypesAtHub
<1>5. CASE Skip \/ AlreadyAnswered \/ GivesUp \/ ReplyRefused
  <2>1. /\ resp.todo # <<>> /\ Passes
        /\ UNCHANGED <<respHub, replies, adrift, lastProcessedAt, unmarked, unseen, outOfReach>>
        /\ processed' \in {processed, processed \cup {Current}}
        /\ failed' \in {failed, failed \cup {Current}}
    BY <1>1, <1>5 DEF Skip, AlreadyAnswered, GivesUp, ReplyRefused, InCycle, Up, Under,
                      respDisk, respPast
  <2>2. Current \in Posted
    BY <2>1, CurrentFacts
  <2>3. resp' \in Cycles(Posted, now) /\ resp'.at \notin Under
    BY <2>1, PassesFacts DEF Under
  <2>4. processed' \subseteq Posted /\ failed' \subseteq Posted
    BY <1>1, <2>1, <2>2
  <2>5. QED
    BY <1>1, <2>1, <2>3, <2>4, TypesAtHub
<1>6. CASE AsksIndexer \/ Unanswered \/ SendsReply
  <2>1. PICK at \in Under :
          /\ resp.todo # <<>> /\ Turns(at)
          /\ UNCHANGED <<respHub, replies, adrift, processed, lastProcessedAt, unmarked,
                         failed, outOfReach>>
          /\ unseen' \in {unseen, unseen \cup {Current}}
    BY <1>1, <1>6 DEF AsksIndexer, Unanswered, SendsReply, InCycle, Up, Under, respDisk, respPast
  <2>2. Current \in Posted
    BY <2>1, CurrentFacts
  <2>3. resp' \in Cycles(Posted, now) /\ resp'.todo # <<>>
    BY <2>1, TurnsFacts
  <2>4. unseen' \subseteq Posted
    BY <1>1, <2>1, <2>2
  <2>5. QED
    BY <1>1, <2>1, <2>3, <2>4, TypesAtHub
<1>7. CASE ReplyLands
  <2>1. /\ resp.todo # <<>> /\ Turns("landed")
        /\ replies' = [replies EXCEPT ![Current] = @ + 1]
        /\ UNCHANGED <<respHub, adrift, processed, lastProcessedAt, unmarked, unseen,
                       failed, outOfReach>>
    BY <1>1, <1>7 DEF ReplyLands, Up, Under, respDisk, respPast
  <2>2. replies' \in [Messages -> Nat]
    <3>1. Current \in Messages
      BY <2>1, CurrentFacts
    <3>2. QED
      BY <1>1, <2>1, <3>1, OneMoreFor
  <2>3. resp' \in Cycles(Posted, now) /\ resp'.todo # <<>>
    BY <2>1, TurnsFacts DEF Under
  <2>4. QED
    BY <1>1, <2>1, <2>2, <2>3, TypesAtHub
<1>8. CASE ReplyReturns
  <2>1. /\ resp.todo # <<>>
        /\ processed' = processed \cup {Current} /\ lastProcessedAt' = lastProcessedAt
        /\ resp' = [at |-> "next", todo |-> Tail(resp.todo), newest |-> hub[Current].ts,
                    count |-> resp.count + 1]
        /\ UNCHANGED <<respHub, replies, adrift, unmarked, unseen, failed, outOfReach>>
    BY <1>1, <1>8 DEF ReplyReturns, Mark, Newest, Up, Under, respPast
  <2>2. Current \in Posted /\ Tail(resp.todo) \in Seq(Posted)
    BY <2>1, CurrentFacts
  <2>3. hub[Current].ts \in -1 .. now
    BY <2>2
  <2>4. resp' \in Cycles(Posted, now) /\ resp'.at \notin Under
    BY <2>1, <2>2, <2>3 DEF Cycles, Under
  <2>5. QED
    BY <1>1, <2>1, <2>2, <2>4, TypesAtHub
<1>9. CASE AnswerLost \/ RespCrash \/ Redeploy
  <2>1. /\ resp.at \in {"sending", "landed"} => Current \in Posted /\ Current \in Messages
        /\ resp.at \in {"sending", "landed"} => resp.todo # <<>>
    BY <1>1, CurrentFacts DEF Under
  <2>2. /\ UNCHANGED <<respHub, replies, unseen, outOfReach>>
        /\ adrift' = IF resp.at = "sending" THEN [adrift EXCEPT ![Current] = @ + 1] ELSE adrift
        /\ processed' \subseteq processed /\ lastProcessedAt' \in {lastProcessedAt, Nothing}
        /\ unmarked' \subseteq unmarked \cup processed \cup
                        (IF resp.at \in {"sending", "landed"} THEN {Current} ELSE {})
        /\ failed' \subseteq failed \cup
                        (IF resp.at \in {"sending", "landed"} THEN {Current} ELSE {})
    BY <1>9 DEF AnswerLost, RespCrash, Redeploy, Abandons, respDisk
  <2>3. resp' \in Cycles(Posted, now) /\ resp'.at \notin Under
    <3>1. CASE AnswerLost
      BY <2>1, <3>1, PassesFacts DEF AnswerLost, Under
    <3>2. CASE RespCrash \/ Redeploy
      BY <3>2, IdleFacts DEF RespCrash, Redeploy, Under
    <3>3. QED
      BY <1>9, <3>1, <3>2
  <2>4. adrift' \in [Messages -> Nat]
    <3>1. CASE resp.at = "sending"
      BY <1>1, <2>1, <2>2, <3>1, OneMoreFor
    <3>2. CASE resp.at # "sending"
      BY <1>1, <2>2, <3>2
    <3>3. QED
      BY <3>1, <3>2
  <2>5. /\ processed' \subseteq Posted /\ unmarked' \subseteq Posted /\ failed' \subseteq Posted
        /\ lastProcessedAt' \in -1 .. now
    <3>1. Nothing \in -1 .. now
      BY DEF Nothing
    <3>2. QED
      BY <1>1, <2>1, <2>2, <3>1
  <2>6. QED
    BY <1>1, <2>2, <2>3, <2>4, <2>5, TypesAtHub
<1>10. QED
  BY <1>2, <1>3, <1>4, <1>5, <1>6, <1>7, <1>8, <1>9 DEF RespStep

-------------------------------------------------------------------------------
(* Each step keeps AnswersInv.                                                *)

LEMMA InitAnswers == RespInit => AnswersInv
<1> SUFFICES ASSUME RespInit PROVE AnswersInv
  OBVIOUS
<1>1. /\ \A m \in Messages : replies[m] = 0 /\ adrift[m] = 0
      /\ processed = {} /\ shownReply = {} /\ resp.at = "idle"
  BY DEF RespInit, Idle
<1>2. QED
  BY <1>1 DEF AnswersInv, Accounted, Elsewhere

\* A step of the loop that sends nothing, marks nothing new and leaves the
\* mention it is at, or takes it up for the first time, keeps AnswersInv.
LEMMA AnswersQuiet ==
  ASSUME RespTypeOK, AnswersInv, resp.at # "landed",
         UNCHANGED <<replies, adrift, shownReply, processed, unmarked>>,
         unseen \subseteq unseen',
         resp'.at \in {"idle", "next", "probing"},
         resp'.at = "probing" => Current' \notin processed
  PROVE  AnswersInv'
<1>1. \A m \in Messages : Elsewhere(m)' = Elsewhere(m)
  BY DEF Elsewhere
<1>2. \A m \in Messages : Accounted(m)'
  BY <1>1 DEF AnswersInv, Accounted
<1>3. \A m \in Messages : Elsewhere(m)' > 1 => m \in unmarked' \cap unseen'
  BY <1>1 DEF AnswersInv
<1>4. QED
  BY <1>2, <1>3 DEF AnswersInv

\* One more reply for the mention the loop is at, and what is known of it.
LEMMA AnswersOneMore ==
  ASSUME RespTypeOK, AnswersInv, resp.at = "sending",
         \A m \in Messages :
           Elsewhere(m)' = IF m = Current THEN Elsewhere(m) + 1 ELSE Elsewhere(m),
         processed \subseteq processed' \cup unmarked', unmarked \subseteq unmarked',
         unseen' = unseen
  PROVE  /\ Current \in Messages
         /\ \A m \in Messages : m # Current => Accounted(m)'
         /\ \A m \in Messages : Elsewhere(m)' > 1 => m \in unmarked' \cap unseen'
<1>1. Current \in Messages
  BY CurrentFacts DEF RespTypeOK
<1>2. \A m \in Messages : Elsewhere(m) \in Nat
  BY DEF Elsewhere, RespTypeOK
<1>3. ASSUME NEW m \in Messages, Elsewhere(m)' > 1
      PROVE  m \in unmarked' \cap unseen'
  <2>1. CASE m = Current
    <3>1. Elsewhere(m) + 1 > 1
      BY <1>3, <2>1
    <3>2. Elsewhere(Current) > 0
      BY <1>2, <2>1, <3>1
    <3>3. Current \in unmarked \cap unseen
      BY <3>2 DEF AnswersInv
    <3>4. QED
      BY <2>1, <3>3
  <2>2. CASE m # Current
    <3>1. Elsewhere(m) > 1
      BY <1>3, <2>2
    <3>2. QED
      BY <3>1 DEF AnswersInv
  <2>3. QED
    BY <2>1, <2>2
<1>4. ASSUME NEW m \in Messages, m # Current
      PROVE  Accounted(m)'
  <2>1. Elsewhere(m)' = Elsewhere(m)
    BY <1>4
  <2>2. Elsewhere(m) > 0 => m \in processed \cup unmarked
    BY DEF AnswersInv, Accounted
  <2>3. QED
    BY <2>1, <2>2 DEF Accounted
<1>5. QED
  BY <1>1, <1>3, <1>4

LEMMA HubAnswers ==
  ASSUME RespTypeOK, AnswersInv,
         \/ \E kind \in Kinds : Mention(kind)
         \/ ChatIndexerCatchesUp
         \/ Tick
  PROVE  AnswersInv'
<1>1. /\ UNCHANGED <<replies, adrift, processed, resp, unmarked, unseen>>
      /\ shownReply' = shownReply \/ shownReply' = {m \in Messages : replies[m] > 0}
  BY DEF Mention, ChatIndexerCatchesUp, Tick, respDisk, respPast
<1>2. Current' = Current /\ \A m : Elsewhere(m)' = Elsewhere(m)
  BY <1>1 DEF Current, Elsewhere
<1>3. \A m \in processed' \cup shownReply' : replies'[m] > 0
  BY <1>1 DEF AnswersInv
<1>4. QED
  BY <1>1, <1>2, <1>3 DEF AnswersInv, Accounted

LEMMA DriftAnswers ==
  ASSUME RespTypeOK, AnswersInv, NEW m \in Messages, DriftsIn(m)
  PROVE  AnswersInv'
<1>1. /\ replies \in [Messages -> Nat] /\ adrift \in [Messages -> Nat]
      /\ adrift[m] > 0
      /\ adrift' = [adrift EXCEPT ![m] = @ - 1] /\ replies' = [replies EXCEPT ![m] = @ + 1]
      /\ UNCHANGED <<shownReply, processed, resp, unmarked, unseen>>
  BY DEF DriftsIn, RespTypeOK, respHub, respDisk, respPast
<1>2. \A k \in Messages : Elsewhere(k)' = Elsewhere(k) /\ replies'[k] >= replies[k]
                          /\ replies'[k] \in Nat
  BY <1>1 DEF Elsewhere
<1>3. Current' = Current
  BY <1>1 DEF Current
<1>4. resp.at \in Under => Current \in Messages
  BY CurrentFacts DEF RespTypeOK, Under
<1>5. \A k \in processed \cup shownReply : k \in Messages
  BY RespFacts DEF RespTypeOK
<1>6. \A k \in processed' \cup shownReply' : replies'[k] > 0
  BY <1>1, <1>2, <1>5 DEF AnswersInv
<1>7. resp'.at = "landed" => replies'[Current'] > 0
  BY <1>1, <1>2, <1>3, <1>4 DEF AnswersInv, Under
<1>8. resp'.at \in {"composing", "sending"} =>
        (Elsewhere(Current)' > 0 => Current' \in unmarked' \cap unseen')
  BY <1>1, <1>2, <1>3, <1>4 DEF AnswersInv, Under, Elsewhere
<1>9. QED
  BY <1>1, <1>2, <1>3, <1>6, <1>7, <1>8 DEF AnswersInv, Accounted

\* The steps of the loop.
LEMMA LoopAnswers ==
  ASSUME RespTypeOK, AnswersInv, RespStep \/ GivesUp \/ ReplyRefused
  PROVE  AnswersInv'
<1>1. resp.at \in Under => Current \in Messages /\ Current \in Posted /\ resp.todo # <<>>
  BY CurrentFacts DEF RespTypeOK, Under
<1>2. CASE Poll \/ EndCycle
  <2>1. UNCHANGED <<replies, adrift, shownReply, processed, unmarked, unseen>>
    BY <1>2 DEF Poll, EndCycle, Up, respHub, respDisk, respPast
  <2>2. resp.at # "landed" /\ resp'.at \in {"idle", "next"}
    <3>1. CASE EndCycle
      BY <3>1 DEF EndCycle, Up, Idle
    <3>2. CASE Poll
      BY <3>2 DEF Poll, Idle
    <3>3. QED
      BY <1>2, <3>1, <3>2
  <2>3. QED
    BY <2>1, <2>2, AnswersQuiet
<1>3. CASE Skip
  <2>1. resp.at = "next" /\ resp.todo # <<>> /\ Passes
        /\ UNCHANGED <<replies, adrift, shownReply, processed, unmarked, unseen>>
    BY <1>3 DEF Skip, InCycle, Up, respHub, respDisk, respPast
  <2>2. resp'.at = "next"
    BY <2>1, PassesFacts
  <2>3. QED
    BY <2>1, <2>2, AnswersQuiet
<1>4. CASE AsksIndexer
  <2>1. /\ resp.at = "next" /\ Current \notin processed /\ Turns("probing")
        /\ UNCHANGED <<replies, adrift, shownReply, processed, unmarked, unseen>>
    BY <1>4 DEF AsksIndexer, InCycle, Up, Skippable, respHub, respDisk, respPast
  <2>2. resp'.at = "probing" /\ Current' = Current
    BY <2>1, TurnsFacts DEF Under, Current
  <2>3. QED
    BY <2>1, <2>2, AnswersQuiet
<1>5. CASE GivesUp \/ ReplyRefused
  <2>1. /\ resp.at \in {"composing", "sending"} /\ Passes
        /\ UNCHANGED <<replies, adrift, shownReply, processed, unmarked, unseen>>
    BY <1>5 DEF GivesUp, ReplyRefused, Up, respHub, respDisk
  <2>2. resp'.at = "next"
    BY <1>1, <2>1, PassesFacts DEF Under
  <2>3. QED
    BY <2>1, <2>2, AnswersQuiet
<1>6. CASE AlreadyAnswered
  <2>1. /\ resp.at = "probing" /\ Passes /\ Current \in shownReply
        /\ processed' = processed \cup {Current}
        /\ UNCHANGED <<replies, adrift, shownReply, unmarked, unseen>>
    BY <1>6 DEF AlreadyAnswered, Up, respHub, respPast
  <2>2. resp'.at = "next"
    BY <1>1, <2>1, PassesFacts DEF Under
  <2>3. \A m : Elsewhere(m)' = Elsewhere(m)
    BY <2>1 DEF Elsewhere
  <2>4. QED
    BY <2>1, <2>2, <2>3 DEF AnswersInv, Accounted
<1>7. CASE Unanswered
  <2>1. /\ resp.at = "probing" /\ Turns("composing")
        /\ unseen' = IF Sent(Current) > 0 THEN unseen \cup {Current} ELSE unseen
        /\ UNCHANGED <<replies, adrift, shownReply, processed, unmarked>>
    BY <1>7 DEF Unanswered, Up, respHub, respDisk
  <2>2. resp'.at = "composing" /\ Current' = Current
    BY <2>1, TurnsFacts DEF Under, Current
  <2>3. /\ \A m : Elsewhere(m)' = Elsewhere(m)
        /\ unseen \subseteq unseen'
    BY <2>1 DEF Elsewhere
  <2>4. Sent(Current) = Elsewhere(Current)
    <3>1. Current \in Messages
      BY <1>1, <2>1 DEF Under
    <3>2. replies[Current] \in Nat /\ adrift[Current] \in Nat
      BY <3>1 DEF RespTypeOK
    <3>3. QED
      BY <2>1, <3>2 DEF Sent, Elsewhere
  <2>5. Elsewhere(Current) > 0 => Current \in unmarked' \cap unseen'
    <3>1. Current \in Messages
      BY <1>1, <2>1 DEF Under
    <3>2. QED
      BY <2>1, <2>4, <3>1 DEF AnswersInv, Accounted
  <2>6. Elsewhere(Current)' = Elsewhere(Current)
    BY <2>1, <2>2 DEF Elsewhere
  <2>7. QED
    BY <2>1, <2>2, <2>3, <2>5, <2>6 DEF AnswersInv, Accounted
<1>8. CASE SendsReply
  <2>1. /\ resp.at = "composing" /\ Turns("sending")
        /\ UNCHANGED <<replies, adrift, shownReply, processed, unmarked, unseen>>
    BY <1>8 DEF SendsReply, Up, respHub, respDisk, respPast
  <2>2. resp'.at = "sending" /\ Current' = Current
    BY <2>1, TurnsFacts DEF Under, Current
  <2>3. \A m : Elsewhere(m)' = Elsewhere(m)
    BY <2>1 DEF Elsewhere
  <2>4. Elsewhere(Current)' = Elsewhere(Current)
    BY <2>1, <2>2 DEF Elsewhere
  <2>5. QED
    BY <2>1, <2>2, <2>3, <2>4 DEF AnswersInv, Accounted
<1>9. CASE ReplyLands
  <2>1. /\ resp.at = "sending" /\ Turns("landed")
        /\ replies' = [replies EXCEPT ![Current] = @ + 1]
        /\ UNCHANGED <<adrift, shownReply, processed, unmarked, unseen>>
    BY <1>9 DEF ReplyLands, Up, respHub, respDisk, respPast
  <2>2. resp'.at = "landed" /\ Current' = Current
    BY <2>1, TurnsFacts DEF Under, Current
  <2>3. Current \in Messages
    BY <1>1, <2>1 DEF Under
  <2>4. replies \in [Messages -> Nat] /\ adrift \in [Messages -> Nat]
    BY DEF RespTypeOK
  <2>5. /\ replies'[Current] = replies[Current] + 1
        /\ \A m \in Messages : m # Current => replies'[m] = replies[m]
    BY <2>1, <2>3, <2>4, OneMoreFor
  <2>6. \A m \in Messages : replies[m] \in Nat /\ adrift[m] \in Nat
    BY <2>4
  <2>7. \A m \in Messages :
          Elsewhere(m)' = IF m = Current THEN Elsewhere(m) + 1 ELSE Elsewhere(m)
    BY <2>1, <2>3, <2>5, <2>6 DEF Elsewhere
  <2>8. /\ \A m \in Messages : m # Current => Accounted(m)'
        /\ \A m \in Messages : Elsewhere(m)' > 1 => m \in unmarked' \cap unseen'
    BY <2>1, <2>7, AnswersOneMore
  <2>9. Accounted(Current)'
    BY <2>2 DEF Accounted
  <2>10. \A m \in processed \cup shownReply : m \in Messages
    BY RespFacts DEF RespTypeOK
  <2>11. \A m \in processed' \cup shownReply' : replies'[m] > 0
    BY <2>1, <2>3, <2>5, <2>6, <2>10 DEF AnswersInv
  <2>12. replies'[Current'] > 0
    BY <2>2, <2>3, <2>5, <2>6
  <2>13. \A m \in Messages : Accounted(m)'
    BY <2>2, <2>8, <2>9 DEF Accounted
  <2>14. QED
    BY <2>2, <2>8, <2>11, <2>12, <2>13 DEF AnswersInv
<1>10. CASE ReplyReturns
  <2>1. /\ resp.at = "landed" /\ resp'.at = "next"
        /\ processed' = processed \cup {Current}
        /\ UNCHANGED <<replies, adrift, shownReply, unmarked, unseen>>
    BY <1>10 DEF ReplyReturns, Mark, Up, respHub, respPast
  <2>2. \A m : Elsewhere(m)' = Elsewhere(m)
    BY <2>1 DEF Elsewhere
  <2>3. QED
    BY <2>1, <2>2 DEF AnswersInv, Accounted
<1>11. QED
  BY <1>2, <1>3, <1>4, <1>5, <1>6, <1>7, <1>8, <1>9, <1>10 DEF RespStep

\* A lost answer, a crash and a redeploy: what they forget is recorded.
LEMMA LossAnswers ==
  ASSUME RespTypeOK, AnswersInv, AnswerLost \/ RespCrash \/ Redeploy
  PROVE  AnswersInv'
<1>1. /\ UNCHANGED <<replies, shownReply, unseen>>
      /\ adrift' = IF resp.at = "sending" THEN [adrift EXCEPT ![Current] = @ + 1] ELSE adrift
      /\ resp.at \in {"sending", "landed"} => Current \in unmarked'
      /\ processed' \subseteq processed /\ processed \subseteq processed' \cup unmarked'
      /\ unmarked \subseteq unmarked'
  BY DEF AnswerLost, RespCrash, Redeploy, Abandons, respHub, respDisk
<1>2. resp.at \in {"sending", "landed"} => resp.todo # <<>> /\ Current \in Messages
  BY CurrentFacts DEF RespTypeOK
<1>3. resp'.at \in {"idle", "next"}
  <2>1. CASE AnswerLost
    BY <1>2, <2>1, PassesFacts DEF AnswerLost
  <2>2. CASE RespCrash \/ Redeploy
    BY <2>2 DEF RespCrash, Redeploy, Idle
  <2>3. QED
    BY <2>1, <2>2
<1>4. \A m \in processed' \cup shownReply' : replies'[m] > 0
  BY <1>1 DEF AnswersInv
<1>5. CASE resp.at = "sending"
  <2>1. adrift \in [Messages -> Nat] /\ replies \in [Messages -> Nat]
    BY DEF RespTypeOK
  <2>2. /\ adrift'[Current] = adrift[Current] + 1
        /\ \A m \in Messages : m # Current => adrift'[m] = adrift[m]
    BY <1>1, <1>2, <1>5, <2>1, OneMoreFor
  <2>3. \A m \in Messages : replies[m] \in Nat /\ adrift[m] \in Nat
    BY <2>1
  <2>4. \A m \in Messages :
          Elsewhere(m)' = IF m = Current THEN Elsewhere(m) + 1 ELSE Elsewhere(m)
    BY <1>1, <1>2, <1>5, <2>2, <2>3 DEF Elsewhere
  <2>5. /\ \A m \in Messages : m # Current => Accounted(m)'
        /\ \A m \in Messages : Elsewhere(m)' > 1 => m \in unmarked' \cap unseen'
    BY <1>1, <1>5, <2>4, AnswersOneMore
  <2>6. \A m \in Messages : Accounted(m)'
    BY <1>1, <1>5, <2>5 DEF Accounted
  <2>7. QED
    BY <1>3, <1>4, <2>5, <2>6 DEF AnswersInv
<1>6. CASE resp.at # "sending"
  <2>1. \A m : Elsewhere(m)' = Elsewhere(m)
    BY <1>1, <1>6 DEF Elsewhere
  <2>2. \A m \in Messages : Accounted(m)'
    BY <1>1, <2>1 DEF AnswersInv, Accounted
  <2>3. \A m \in Messages : Elsewhere(m)' > 1 => m \in unmarked' \cap unseen'
    BY <1>1, <2>1 DEF AnswersInv
  <2>4. QED
    BY <1>3, <1>4, <2>2, <2>3 DEF AnswersInv
<1>7. QED
  BY <1>5, <1>6

-------------------------------------------------------------------------------
(* Each step keeps CursorInv.                                                 *)

LEMMA InitCursor == RespInit => CursorInv
<1> SUFFICES ASSUME RespInit PROVE CursorInv
  OBVIOUS
<1>1. hub = <<>> /\ indexed = 0 /\ lastProcessedAt = Nothing /\ resp = Idle
  BY DEF RespInit
<1>2. Posted = {} /\ 1 .. indexed = {} /\ resp.todo = <<>> /\ resp.newest = Nothing
  BY <1>1 DEF Posted, Idle
<1>3. 1 .. Len(resp.todo) = {}
  BY <1>2
<1>4. QED
  BY <1>1, <1>2, <1>3 DEF CursorInv, PassedBy

\* The list and the last reply stay, or the cycle is over.
LEMMA CursorRests ==
  ASSUME RespTypeOK, CursorInv, UNCHANGED <<hub, indexed>>,
         \A m \in Messages : Settled(m) => Settled(m)',
         \/ resp'.todo = resp.todo /\ resp'.newest = resp.newest
         \/ resp'.todo = <<>> /\ resp'.newest = Nothing,
         \/ lastProcessedAt' = lastProcessedAt
         \/ lastProcessedAt' = resp.newest /\ resp.newest # Nothing /\ resp'.todo = <<>>
                                            /\ resp'.newest = Nothing
         \/ lastProcessedAt' = Nothing
  PROVE  CursorInv'
<1> USE RespFacts
<1>1. Posted' = Posted /\ \A m \in 1 .. indexed : m \in Messages
  BY DEF Posted
<1>2. \A k, m \in Posted' : k < m => hub'[k].ts <= hub'[m].ts
  BY <1>1 DEF CursorInv
<1>3. \A t : (ReadAt(t) => ReadAt(t)') /\ (PassedBy(t) => PassedBy(t)')
  BY <1>1 DEF ReadAt, PassedBy
<1>4. /\ lastProcessedAt' # Nothing => ReadAt(lastProcessedAt')
      /\ PassedBy(lastProcessedAt')
  <2>1. \A m \in 1 .. indexed : hub[m].ts >= 0
    OBVIOUS
  <2>2. PassedBy(Nothing)
    BY <2>1 DEF PassedBy, Nothing
  <2>3. QED
    BY <2>2 DEF CursorInv
<1>5. /\ lastProcessedAt' # Nothing => ReadAt(lastProcessedAt)'
      /\ PassedBy(lastProcessedAt)'
  <2>1. \A t : (ReadAt(t) => \E k \in 1 .. indexed' : hub'[k].ts = t)
    BY DEF ReadAt
  <2>2. \A t : PassedBy(t) =>
          \A m \in 1 .. indexed' : hub'[m].author = "peer" /\ hub'[m].ts < t => Settled(m)'
    BY <1>1 DEF PassedBy
  <2>3. QED
    BY <1>4, <2>1, <2>2 DEF ReadAt, PassedBy
<1>6. lastProcessedAt' <= lastProcessedAt \/ (resp'.todo = <<>> /\ resp'.newest = Nothing)
  <2>1. lastProcessedAt \in Int /\ -1 <= lastProcessedAt
    BY DEF RespTypeOK
  <2>2. CASE lastProcessedAt' \in {lastProcessedAt, Nothing}
    BY <2>1, <2>2 DEF Nothing
  <2>3. CASE lastProcessedAt' \notin {lastProcessedAt, Nothing}
    BY <2>3
  <2>4. QED
    BY <2>2, <2>3
<1>7. resp'.newest # Nothing =>
        ReadAt(resp.newest)' /\ PassedBy(resp.newest)' /\ resp'.newest >= lastProcessedAt'
  <2> SUFFICES ASSUME resp'.newest # Nothing
               PROVE  ReadAt(resp.newest)' /\ PassedBy(resp.newest)'
                      /\ resp'.newest >= lastProcessedAt'
    OBVIOUS
  <2>1. /\ resp'.newest = resp.newest /\ lastProcessedAt' <= lastProcessedAt
        /\ ReadAt(resp.newest) /\ PassedBy(resp.newest) /\ resp.newest >= lastProcessedAt
    BY <1>6 DEF CursorInv
  <2>2. resp'.newest >= lastProcessedAt'
    <3>1. lastProcessedAt \in Int /\ lastProcessedAt' \in Int /\ resp.newest \in Int
      BY DEF RespTypeOK, Nothing
    <3>2. QED
      BY <2>1, <3>1
  <2>3. ReadAt(resp.newest)'
    BY <2>1 DEF ReadAt
  <2>4. PassedBy(resp.newest)'
    BY <1>1, <2>1 DEF PassedBy
  <2>5. QED
    BY <2>2, <2>3, <2>4
<1>8. \A i \in 1 .. Len(resp'.todo) : RowInTurn(i)'
  <2> SUFFICES ASSUME NEW i \in 1 .. Len(resp'.todo) PROVE RowInTurn(i)'
    OBVIOUS
  <2>1. resp'.todo = resp.todo /\ lastProcessedAt' <= lastProcessedAt
    BY <1>6
  <2>2. RowInTurn(i)
    BY <2>1 DEF CursorInv
  <2>3. resp'.todo[i] \in 1 .. indexed'
    BY <2>1, <2>2 DEF RowInTurn
  <2>4. hub'[resp'.todo[i]].ts >= lastProcessedAt'
    <3>1. lastProcessedAt \in Int /\ lastProcessedAt' \in Int
      BY DEF RespTypeOK, Nothing
    <3>2. hub[resp.todo[i]].ts \in Int
      BY <2>2 DEF RowInTurn
    <3>3. QED
      BY <2>1, <2>2, <3>1, <3>2 DEF RowInTurn
  <2>5. \A m \in 1 .. indexed' :
          hub'[m].author = "peer" /\ hub'[m].ts < hub'[resp'.todo[i]].ts =>
            Settled(m)' \/ \E j \in 1 .. i - 1 : resp'.todo[j] = m
    <3>1. \A m \in 1 .. indexed :
            hub[m].author = "peer" /\ hub[m].ts < hub[resp.todo[i]].ts =>
              Settled(m) \/ \E j \in 1 .. i - 1 : resp.todo[j] = m
      BY <2>2 DEF RowInTurn
    <3>2. \A m \in 1 .. indexed : Settled(m) => Settled(m)'
      BY <1>1
    <3>3. QED
      BY <2>1, <3>1, <3>2
  <2>6. QED
    BY <2>3, <2>4, <2>5 DEF RowInTurn
<1>9. QED
  BY <1>2, <1>5, <1>7, <1>8 DEF CursorInv

\* The loop passes on from a mention that is settled, ours, or answered just now.
LEMMA CursorPasses ==
  ASSUME RespTypeOK, CursorInv, UNCHANGED <<hub, indexed, lastProcessedAt>>,
         resp.todo # <<>>,
         \A m \in Messages : Settled(m) => Settled(m)',
         hub[Current].author = "peer" => replies'[Current] > 0 \/ Current \in failed',
         resp'.todo = Tail(resp.todo),
         resp'.newest = resp.newest \/ resp'.newest = hub[Current].ts
  PROVE  CursorInv'
<1> USE RespFacts
<1>1. Posted' = Posted /\ \A m \in 1 .. indexed : m \in Messages
  BY DEF Posted
<1>2. \A k, m \in Posted' : k < m => hub'[k].ts <= hub'[m].ts
  BY <1>1 DEF CursorInv
<1>3. /\ Current = resp.todo[1] /\ Len(resp.todo) \in Nat \ {0}
      /\ Len(resp'.todo) = Len(resp.todo) - 1
      /\ \A i \in 1 .. Len(resp.todo) - 1 : resp'.todo[i] = resp.todo[i + 1]
  BY CurrentFacts
<1>4. Current \in 1 .. indexed /\ hub[Current].ts >= lastProcessedAt
  BY <1>3 DEF CursorInv, RowInTurn
<1>5. \A t : /\ ReadAt(t) => \E k \in 1 .. indexed' : hub'[k].ts = t
             /\ PassedBy(t) =>
                  \A m \in 1 .. indexed' : hub'[m].author = "peer" /\ hub'[m].ts < t => Settled(m)'
  BY <1>1 DEF ReadAt, PassedBy
<1>6. /\ lastProcessedAt' # Nothing => ReadAt(lastProcessedAt)'
      /\ PassedBy(lastProcessedAt)'
  BY <1>5 DEF ReadAt, PassedBy, CursorInv
<1>7. ReadAt(hub[Current].ts) /\ PassedBy(hub[Current].ts)
  <2>1. RowInTurn(1)
    BY <1>3 DEF CursorInv
  <2>2. ~ \E j \in 1 .. 1 - 1 : resp.todo[j] = Current
    OBVIOUS
  <2>3. PassedBy(hub[Current].ts)
    BY <1>3, <2>1 DEF RowInTurn, PassedBy
  <2>4. QED
    BY <1>4, <2>3 DEF ReadAt
<1>8. resp'.newest # Nothing =>
        ReadAt(resp'.newest) /\ PassedBy(resp'.newest) /\ resp'.newest >= lastProcessedAt
  BY <1>4, <1>7 DEF CursorInv
<1>9. resp'.newest # Nothing =>
        ReadAt(resp.newest)' /\ PassedBy(resp.newest)' /\ resp'.newest >= lastProcessedAt'
  BY <1>5, <1>8 DEF ReadAt, PassedBy
<1>10. ASSUME NEW i \in 1 .. Len(resp'.todo)
       PROVE  RowInTurn(i)'
  <2>1. i + 1 \in 1 .. Len(resp.todo) /\ resp'.todo[i] = resp.todo[i + 1]
    BY <1>3
  <2>2. RowInTurn(i + 1)
    BY <2>1 DEF CursorInv
  <2>3. /\ resp'.todo[i] \in 1 .. indexed'
        /\ hub'[resp'.todo[i]].ts >= lastProcessedAt'
    BY <2>1, <2>2 DEF RowInTurn
  <2>4. ASSUME NEW m \in 1 .. indexed,
               hub[m].author = "peer", hub[m].ts < hub[resp.todo[i + 1]].ts
        PROVE  Settled(m)' \/ \E j \in 1 .. i - 1 : resp'.todo[j] = m
    <3>1. CASE Settled(m)
      BY <1>1, <3>1
    <3>2. ASSUME NEW j \in 1 .. (i + 1) - 1, resp.todo[j] = m
          PROVE  Settled(m)' \/ \E k \in 1 .. i - 1 : resp'.todo[k] = m
      <4>1. CASE j = 1
        <5>1. m = Current
          BY <1>3, <3>2, <4>1
        <5>2. replies'[m] > 0 \/ m \in failed'
          BY <2>4, <5>1
        <5>3. QED
          BY <5>2 DEF Settled
      <4>2. CASE j # 1
        <5>1. j - 1 \in 1 .. i - 1 /\ j - 1 \in 1 .. Len(resp.todo) - 1
          BY <1>3, <4>2
        <5>2. resp'.todo[j - 1] = resp.todo[(j - 1) + 1]
          BY <1>3, <5>1
        <5>3. (j - 1) + 1 = j
          BY <4>2
        <5>4. resp'.todo[j - 1] = m
          BY <3>2, <5>2, <5>3
        <5>5. QED
          BY <5>1, <5>4
      <4>3. QED
        BY <4>1, <4>2
    <3>3. Settled(m) \/ \E j \in 1 .. (i + 1) - 1 : resp.todo[j] = m
      BY <2>2, <2>4 DEF RowInTurn
    <3>4. QED
      BY <3>1, <3>2, <3>3
  <2>5. \A m \in 1 .. indexed' :
          hub'[m].author = "peer" /\ hub'[m].ts < hub'[resp'.todo[i]].ts =>
            Settled(m)' \/ \E j \in 1 .. i - 1 : resp'.todo[j] = m
    BY <2>1, <2>4
  <2>6. QED
    BY <2>3, <2>5 DEF RowInTurn
<1>11. QED
  BY <1>2, <1>6, <1>9, <1>10 DEF CursorInv

\* The hub grows at its end, and the indexer shows more of it.
LEMMA CursorSeesMore ==
  ASSUME RespTypeOK, RespTypeOK', CursorInv, UNCHANGED <<lastProcessedAt, resp>>,
         \A m \in Messages : Settled(m) => Settled(m)',
         indexed' >= indexed,
         Posted \subseteq Posted', \A k \in Posted : hub'[k] = hub[k],
         \A k, m \in Posted' : k < m => hub'[k].ts <= hub'[m].ts
  PROVE  CursorInv'
<1>1. /\ indexed \in Nat /\ 1 .. indexed \subseteq Posted /\ Posted \subseteq Messages
      /\ \A k \in Posted : hub[k].ts \in 0 .. now
      /\ resp.newest \in -1 .. now /\ lastProcessedAt \in -1 .. now /\ now \in Nat
  BY RespFacts DEF RespTypeOK
<1>2. indexed' \in Nat /\ 1 .. indexed' \subseteq Posted'
  BY DEF RespTypeOK, Posted
<1>3. \A m \in 1 .. indexed' : hub'[m].ts >= 0 /\ hub'[m].ts \in Int
  <2>1. hub' \in Seq([ts : 0 .. now', author : {"peer", "ours"}, rows : 1 .. 3])
    BY DEF RespTypeOK
  <2>2. \A m \in 1 .. Len(hub') :
          hub'[m] \in [ts : 0 .. now', author : {"peer", "ours"}, rows : 1 .. 3]
    BY <2>1, ElementOfSeq
  <2>3. now' \in Nat
    BY RespAssumption DEF RespTypeOK
  <2>4. QED
    BY <1>2, <2>2, <2>3 DEF Posted
<1>4. ASSUME NEW t \in Int, ReadAt(t) \/ t = Nothing
      PROVE  \A m \in 1 .. indexed' : m \notin 1 .. indexed => hub'[m].ts >= t
  <2>1. CASE t = Nothing
    BY <1>3, <2>1 DEF Nothing
  <2>2. CASE ReadAt(t)
    <3>1. PICK k \in 1 .. indexed : hub[k].ts = t
      BY <2>2 DEF ReadAt
    <3>2. k \in Posted /\ k \in Posted' /\ hub'[k].ts = t
      BY <1>1, <3>1
    <3>3. \A m \in 1 .. indexed' : m \notin 1 .. indexed => k < m
      BY <1>1, <1>2
    <3>4. QED
      BY <1>2, <1>3, <3>2, <3>3
  <2>3. QED
    BY <1>4, <2>1, <2>2
<1>5. ASSUME NEW t \in Int, ReadAt(t) \/ t = Nothing, PassedBy(t)
      PROVE  \A m \in 1 .. indexed' : hub'[m].author = "peer" /\ hub'[m].ts < t => Settled(m)'
  <2> SUFFICES ASSUME NEW m \in 1 .. indexed', hub'[m].author = "peer", hub'[m].ts < t
               PROVE  Settled(m)'
    OBVIOUS
  <2>1. m \in 1 .. indexed
    BY <1>3, <1>4, <1>5
  <2>2. hub'[m] = hub[m] /\ m \in Messages
    BY <1>1, <2>1
  <2>3. Settled(m)
    BY <1>5, <2>1, <2>2 DEF PassedBy
  <2>4. QED
    BY <2>2, <2>3
<1>6. \A t : ReadAt(t) => \E k \in 1 .. indexed' : hub'[k].ts = t
  BY <1>1, <1>2 DEF ReadAt
<1>7. /\ lastProcessedAt \in Int /\ resp.newest \in Int
      /\ ReadAt(lastProcessedAt) \/ lastProcessedAt = Nothing
      /\ PassedBy(lastProcessedAt)
      /\ resp.newest # Nothing =>
           ReadAt(resp.newest) /\ PassedBy(resp.newest) /\ resp.newest >= lastProcessedAt
  BY <1>1 DEF CursorInv
<1>8. lastProcessedAt' # Nothing => ReadAt(lastProcessedAt)'
  BY <1>6, <1>7 DEF ReadAt
<1>9. PassedBy(lastProcessedAt)'
  BY <1>5, <1>7 DEF PassedBy
<1>10. resp'.newest # Nothing =>
         ReadAt(resp.newest)' /\ PassedBy(resp.newest)' /\ resp'.newest >= lastProcessedAt'
  <2>1. resp.newest # Nothing => ReadAt(resp.newest)'
    BY <1>6, <1>7 DEF ReadAt
  <2>2. resp.newest # Nothing => PassedBy(resp.newest)'
    BY <1>5, <1>7 DEF PassedBy
  <2>3. QED
    BY <1>7, <2>1, <2>2
<1>11. ASSUME NEW i \in 1 .. Len(resp'.todo)
       PROVE  RowInTurn(i)'
  <2>1. RowInTurn(i)
    BY DEF CursorInv
  <2>2. /\ resp.todo[i] \in 1 .. indexed /\ resp.todo[i] \in 1 .. indexed'
        /\ hub'[resp.todo[i]] = hub[resp.todo[i]]
    BY <1>1, <1>2, <2>1 DEF RowInTurn
  <2>3. hub[resp.todo[i]].ts \in Int /\ ReadAt(hub[resp.todo[i]].ts)
    BY <1>1, <2>2 DEF ReadAt
  <2>4. ASSUME NEW m \in 1 .. indexed',
               hub'[m].author = "peer", hub'[m].ts < hub[resp.todo[i]].ts
        PROVE  Settled(m)' \/ \E j \in 1 .. i - 1 : resp.todo[j] = m
    <3>1. m \in 1 .. indexed
      BY <1>3, <1>4, <2>3, <2>4
    <3>2. hub'[m] = hub[m] /\ m \in Messages
      BY <1>1, <3>1
    <3>3. Settled(m) \/ \E j \in 1 .. i - 1 : resp.todo[j] = m
      BY <2>1, <2>4, <3>1, <3>2 DEF RowInTurn
    <3>4. QED
      BY <3>2, <3>3
  <2>5. QED
    BY <2>1, <2>2, <2>4 DEF RowInTurn
<1>12. QED
  BY <1>8, <1>9, <1>10, <1>11 DEF CursorInv

LEMMA HubCursor ==
  ASSUME RespTypeOK, RespTypeOK', CursorInv,
         \/ \E kind \in Kinds : Mention(kind)
         \/ ChatIndexerCatchesUp
         \/ Tick
  PROVE  CursorInv'
<1>1. /\ now \in Nat /\ Len(hub) \in Nat /\ indexed <= Len(hub) /\ indexed \in Nat
      /\ \A k \in Posted : hub[k].ts \in 0 .. now
      /\ \A k, m \in Posted : k < m => hub[k].ts <= hub[m].ts
  BY RespFacts DEF CursorInv
<1>2. ASSUME NEW kind \in Kinds, Mention(kind)
      PROVE  CursorInv'
  <2> DEFINE new == [ts |-> now, author |-> kind[1], rows |-> kind[2]]
  <2>1. /\ hub' = Append(hub, new) /\ new.ts = now
        /\ UNCHANGED <<indexed, lastProcessedAt, resp, replies, failed, outOfReach>>
    BY <1>2 DEF Mention, respDisk, respPast
  <2>2. new \in [ts : 0 .. now, author : {"peer", "ours"}, rows : 1 .. 3]
    BY <1>1, RespAssumption
  <2> HIDE DEF new
  <2>3. /\ Len(hub') = Len(hub) + 1 /\ \A k \in 1 .. Len(hub) : hub'[k] = hub[k]
        /\ hub'[Len(hub) + 1] = new
    BY <2>1, <2>2, AppendProperties DEF RespTypeOK
  <2>4. /\ Posted \subseteq Posted' /\ \A k \in Posted : hub'[k] = hub[k]
        /\ \A k \in Posted' : k \in Posted \/ (k = Len(hub) + 1 /\ hub'[k].ts = now)
    BY <1>1, <2>1, <2>3 DEF Posted
  <2>5. ASSUME NEW k \in Posted', NEW m \in Posted', k < m
        PROVE  hub'[k].ts <= hub'[m].ts
    <3>1. k \in Posted
      BY <1>1, <2>3, <2>5 DEF Posted
    <3>2. CASE m \in Posted
      BY <1>1, <2>4, <2>5, <3>1, <3>2
    <3>3. CASE m \notin Posted
      BY <1>1, <2>4, <3>1, <3>3
    <3>4. QED
      BY <3>2, <3>3
  <2>6. \A m : Settled(m) => Settled(m)'
    BY <2>1 DEF Settled
  <2>7. indexed' >= indexed
    BY <1>1, <2>1
  <2>8. UNCHANGED <<lastProcessedAt, resp>>
    BY <2>1
  <2>9. QED
    BY <2>4, <2>5, <2>6, <2>7, <2>8, CursorSeesMore
<1>3. CASE ChatIndexerCatchesUp \/ Tick
  <2>1. /\ indexed' \in {indexed, Len(hub)}
        /\ UNCHANGED <<hub, lastProcessedAt, resp, replies, failed, outOfReach>>
    BY <1>3 DEF ChatIndexerCatchesUp, Tick, respDisk, respPast
  <2>2. /\ Posted' = Posted /\ indexed' >= indexed /\ UNCHANGED <<lastProcessedAt, resp>>
        /\ \A m : Settled(m) => Settled(m)'
    BY <1>1, <2>1 DEF Settled, Posted
  <2>3. \A k, m \in Posted' : k < m => hub'[k].ts <= hub'[m].ts
    BY <1>1, <2>1, <2>2
  <2>4. \A k \in Posted : hub'[k] = hub[k]
    BY <2>1
  <2>5. QED
    BY <2>2, <2>3, <2>4, CursorSeesMore
<1>4. QED
  BY <1>2, <1>3

\* A row the listing does not hold at all is not in the list.
LEMMA TimesZero ==
  ASSUME NEW n \in Nat, NEW list \in [1 .. n -> Nat], NEW m, Times(m, list) = 0
  PROVE  \A i \in 1 .. n : list[i] # m
<1>1. list \in Seq(Nat) /\ Len(list) = n
  BY SeqDef, LenProperties
<1>2. IsFiniteSet({i \in 1 .. n : list[i] = m})
  <2>1. IsFiniteSet(1 .. n)
    BY FS_Interval
  <2>2. {i \in 1 .. n : list[i] = m} \subseteq 1 .. n
    OBVIOUS
  <2>3. QED
    BY <2>1, <2>2, FS_Subset
<1>3. {i \in 1 .. n : list[i] = m} = {}
  BY <1>1, <1>2, FS_EmptySet DEF Times
<1>4. QED
  BY <1>3

LEMMA PollCursor ==
  ASSUME RespTypeOK, CursorInv, Poll
  PROVE  CursorInv'
<1> USE RespFacts
<1>1. PICK n \in 0 .. Limit : \E list \in [1 .. n -> 1 .. indexed] :
        /\ IsListing(list)
        /\ resp' = IF list = <<>> THEN Idle ELSE [Idle EXCEPT !.at = "next", !.todo = list]
        /\ outOfReach' = outOfReach \cup
             {m \in 1 .. indexed : \/ hub[m].ts < now - Window
                                   \/ hub[m].ts >= Since /\ Times(m, list) = 0}
  BY DEF Poll
<1>2. PICK list \in [1 .. n -> 1 .. indexed] :
        /\ IsListing(list)
        /\ resp' = IF list = <<>> THEN Idle ELSE [Idle EXCEPT !.at = "next", !.todo = list]
        /\ outOfReach' = outOfReach \cup
             {m \in 1 .. indexed : \/ hub[m].ts < now - Window
                                   \/ hub[m].ts >= Since /\ Times(m, list) = 0}
  BY <1>1
<1>3. UNCHANGED <<hub, indexed, replies, failed, lastProcessedAt, now>>
  BY DEF Poll, respHub, respDisk
<1>4. n \in Nat /\ list \in [1 .. n -> Nat] /\ list \in Seq(Nat) /\ Len(list) = n
  <2>1. n \in Nat
    OBVIOUS
  <2>2. 1 .. indexed \subseteq Nat
    OBVIOUS
  <2>3. list \in [1 .. n -> Nat]
    BY <1>2, <2>2
  <2>4. QED
    BY <2>1, <2>3, SeqDef, LenProperties
<1>5. resp'.newest = Nothing /\ (resp'.todo = list \/ resp'.todo = <<>>)
  BY <1>2 DEF Idle
<1>6. \A m : Settled(m) => Settled(m)'
  BY <1>2, <1>3 DEF Settled
<1>7. Window \in Nat /\ lastProcessedAt \in Int /\ Since \in Int /\ Since >= lastProcessedAt
      /\ \A t \in Int : t < Since => t < now - Window \/ t < lastProcessedAt
  <2>1. Window \in Nat /\ lastProcessedAt \in Int
    BY RespAssumption DEF RespTypeOK
  <2>2. QED
    BY <2>1 DEF Since
<1>8. ASSUME NEW m \in 1 .. indexed, hub[m].author = "peer", hub[m].ts < Since
      PROVE  Settled(m)'
  <2>1. CASE hub[m].ts < now - Window
    BY <1>2, <2>1 DEF Settled
  <2>2. CASE hub[m].ts < lastProcessedAt
    BY <1>6, <1>8, <2>2 DEF CursorInv, PassedBy
  <2>3. hub[m].ts \in Int
    OBVIOUS
  <2>4. QED
    BY <1>7, <1>8, <2>1, <2>2, <2>3
<1>9. ASSUME NEW i \in 1 .. n
      PROVE  /\ list[i] \in 1 .. indexed /\ hub[list[i]].ts >= lastProcessedAt
             /\ \A m \in 1 .. indexed :
                  hub[m].author = "peer" /\ hub[m].ts < hub[list[i]].ts =>
                    Settled(m)' \/ \E j \in 1 .. i - 1 : list[j] = m
  <2>1. list[i] \in 1 .. indexed /\ hub[list[i]].ts \in Int
    <3>1. list[i] \in 1 .. indexed
      OBVIOUS
    <3>2. list[i] \in Posted
      BY <3>1
    <3>3. hub[list[i]].ts \in 0 .. now
      BY <3>2
    <3>4. QED
      BY <3>1, <3>3
  <2>2. hub[list[i]].ts >= Since
    <3> SUFFICES ASSUME hub[list[i]].ts < Since PROVE FALSE
      BY <1>7, <2>1
    <3>1. Times(list[i], list) = 0
      BY <1>2, <2>1 DEF IsListing
    <3>2. \A j \in 1 .. n : list[j] # list[i]
      BY <1>4, <3>1, TimesZero
    <3>3. QED
      BY <3>2
  <2>3. ASSUME NEW m \in 1 .. indexed, hub[m].author = "peer", hub[m].ts < hub[list[i]].ts
        PROVE  Settled(m)' \/ \E j \in 1 .. i - 1 : list[j] = m
    <3>1. CASE hub[m].ts < Since
      BY <1>8, <2>3, <3>1
    <3>2. CASE ~(hub[m].ts < Since) /\ Times(m, list) = 0
      <4>1. hub[m].ts >= Since
        BY <1>7, <3>2
      <4>2. QED
        BY <1>2, <3>2, <4>1 DEF Settled
    <3>3. CASE \E j \in 1 .. n : list[j] = m
      <4>1. PICK j \in 1 .. n : list[j] = m
        BY <3>3
      <4>2. i < j => hub[list[i]].ts <= hub[list[j]].ts
        BY <1>2, <1>4 DEF IsListing
      <4>3. hub[list[j]].ts < hub[list[i]].ts /\ hub[list[j]].ts \in Int
        BY <2>3, <4>1
      <4>4. j < i
        BY <1>4, <2>1, <4>2, <4>3
      <4>5. QED
        BY <1>4, <4>1, <4>4
    <3>4. Times(m, list) # 0 => \E j \in 1 .. n : list[j] = m
      <4> SUFFICES ASSUME \A j \in 1 .. n : list[j] # m PROVE Times(m, list) = 0
        OBVIOUS
      <4>1. {j \in 1 .. Len(list) : list[j] = m} = {}
        BY <1>4
      <4>2. QED
        BY <4>1, FS_EmptySet DEF Times
    <3>5. QED
      BY <3>1, <3>2, <3>3, <3>4
  <2>4. hub[list[i]].ts >= lastProcessedAt
    BY <1>7, <2>1, <2>2
  <2>5. QED
    BY <2>1, <2>3, <2>4
<1>10. ASSUME NEW i \in 1 .. Len(resp'.todo)
       PROVE  RowInTurn(i)'
  <2>1. CASE resp'.todo = <<>>
    BY <2>1
  <2>2. CASE resp'.todo = list
    <3>1. i \in 1 .. n
      BY <1>4, <2>2
    <3>2. /\ resp'.todo[i] \in 1 .. indexed' /\ hub'[resp'.todo[i]].ts >= lastProcessedAt'
          /\ \A m \in 1 .. indexed' :
               hub'[m].author = "peer" /\ hub'[m].ts < hub'[resp'.todo[i]].ts =>
                 Settled(m)' \/ \E j \in 1 .. i - 1 : resp'.todo[j] = m
      BY <1>3, <1>9, <2>2, <3>1
    <3>3. QED
      BY <3>2 DEF RowInTurn
  <2>3. QED
    BY <1>5, <2>1, <2>2
<1>11. /\ \A k, m \in Posted' : k < m => hub'[k].ts <= hub'[m].ts
       /\ lastProcessedAt' # Nothing => ReadAt(lastProcessedAt)'
  BY <1>3 DEF CursorInv, ReadAt, Posted
<1>12. PassedBy(lastProcessedAt)'
  BY <1>3, <1>6 DEF CursorInv, PassedBy
<1>13. QED
  BY <1>5, <1>10, <1>11, <1>12 DEF CursorInv

\* The other steps: the loop passes on, or rests at its mention, or ends.
LEMMA OtherCursor ==
  ASSUME RespTypeOK, AnswersInv, CursorInv,
         \/ \E m \in Messages : DriftsIn(m)
         \/ EndCycle \/ Skip \/ AsksIndexer \/ AlreadyAnswered \/ Unanswered
         \/ SendsReply \/ ReplyLands \/ ReplyReturns
         \/ GivesUp \/ ReplyRefused \/ AnswerLost \/ RespCrash \/ Redeploy
  PROVE  CursorInv'
<1>1. /\ replies \in [Messages -> Nat] /\ \A m \in Messages : replies[m] \in Nat
      /\ resp.at \in Under => resp.todo # <<>>
      /\ resp.todo # <<>> => Current \in Messages
  BY CurrentFacts DEF RespTypeOK, Under
<1>2. ASSUME NEW m \in Messages, DriftsIn(m)
      PROVE  CursorInv'
  <2>1. /\ replies' = [replies EXCEPT ![m] = @ + 1]
        /\ UNCHANGED <<hub, indexed, lastProcessedAt, resp, failed, outOfReach>>
    BY <1>2 DEF DriftsIn, respHub, respDisk, respPast
  <2>2. \A k \in Messages : Settled(k) => Settled(k)'
    BY <1>1, <2>1 DEF Settled
  <2>3. QED
    BY <2>1, <2>2, CursorRests
<1>3. CASE EndCycle \/ RespCrash \/ Redeploy
  <2>1. /\ resp' = Idle /\ UNCHANGED <<hub, indexed, replies, failed, outOfReach>>
        /\ \/ lastProcessedAt' \in {lastProcessedAt, Nothing}
           \/ lastProcessedAt' = resp.newest /\ resp.newest # Nothing
    BY <1>3 DEF EndCycle, RespCrash, Redeploy, Up, respHub, respDisk, respPast
  <2>2. resp'.todo = <<>> /\ resp'.newest = Nothing /\ \A k : Settled(k) => Settled(k)'
    BY <2>1 DEF Idle, Settled
  <2>3. QED
    BY <2>1, <2>2, CursorRests
<1>4. CASE AsksIndexer \/ Unanswered \/ SendsReply \/ ReplyLands
  <2>1. /\ resp'.todo = resp.todo /\ resp'.newest = resp.newest
        /\ resp.todo # <<>>
        /\ replies' = replies \/ replies' = [replies EXCEPT ![Current] = @ + 1]
        /\ UNCHANGED <<hub, indexed, lastProcessedAt, failed, outOfReach>>
    BY <1>1, <1>4, TurnsFacts DEF AsksIndexer, Unanswered, SendsReply, ReplyLands, InCycle, Up,
                                  Under, respHub, respDisk, respPast
  <2>2. \A k \in Messages : Settled(k) => Settled(k)'
    BY <1>1, <2>1, OneMoreFor DEF Settled
  <2>3. QED
    BY <2>1, <2>2, CursorRests
<1>5. CASE Skip \/ AlreadyAnswered \/ GivesUp \/ ReplyRefused \/ AnswerLost
  <2>1. /\ resp.todo # <<>> /\ Passes
        /\ UNCHANGED <<hub, indexed, lastProcessedAt, replies, outOfReach>>
        /\ failed' = failed \/ failed' = failed \cup {Current}
    BY <1>1, <1>5 DEF Skip, AlreadyAnswered, GivesUp, ReplyRefused, AnswerLost, InCycle, Up,
                      Under, respHub, respDisk, respPast
  <2>2. resp'.todo = Tail(resp.todo) /\ resp'.newest = resp.newest
    BY <2>1, PassesFacts
  <2>3. hub[Current].author = "peer" => replies'[Current] > 0 \/ Current \in failed'
    <3>1. CASE Skip \/ AlreadyAnswered
      <4>1. hub[Current].author = "peer" => Current \in processed \cup shownReply
        BY <3>1 DEF Skip, AlreadyAnswered, Skippable
      <4>2. QED
        BY <2>1, <4>1 DEF AnswersInv
    <3>2. CASE GivesUp \/ ReplyRefused \/ AnswerLost
      BY <3>2 DEF GivesUp, ReplyRefused, AnswerLost
    <3>3. QED
      BY <1>5, <3>1, <3>2
  <2>4. \A k \in Messages : Settled(k) => Settled(k)'
    BY <2>1 DEF Settled
  <2>5. QED
    BY <2>1, <2>2, <2>3, <2>4, CursorPasses
<1>6. CASE ReplyReturns
  <2>1. /\ resp.todo # <<>> /\ resp.at = "landed"
        /\ resp'.todo = Tail(resp.todo) /\ resp'.newest = hub[Current].ts
        /\ UNCHANGED <<hub, indexed, lastProcessedAt, replies, failed, outOfReach>>
    BY <1>1, <1>6 DEF ReplyReturns, Mark, Newest, Up, Under, respHub, respPast
  <2>2. replies'[Current] > 0
    BY <2>1 DEF AnswersInv
  <2>3. \A k \in Messages : Settled(k) => Settled(k)'
    BY <2>1 DEF Settled
  <2>4. QED
    BY <2>1, <2>2, <2>3, CursorPasses
<1>7. QED
  BY <1>2, <1>3, <1>4, <1>5, <1>6

-------------------------------------------------------------------------------
(* The theorems.                                                              *)

RespInv == RespTypeOK /\ AnswersInv /\ CursorInv

LEMMA InitRespInv == RespInit => RespInv
BY InitTypes, InitAnswers, InitCursor DEF RespInv

LEMMA NextRespInv == RespInv /\ [RespNext]_respVars => RespInv'
<1> SUFFICES ASSUME RespTypeOK, AnswersInv, CursorInv, [RespNext]_respVars
             PROVE  RespTypeOK' /\ AnswersInv' /\ CursorInv'
  BY DEF RespInv
<1>1. CASE UNCHANGED respVars
  <2>1. RespTypeOK'
    BY <1>1 DEF respVars, RespTypeOK, Posted
  <2>2. AnswersInv'
    BY <1>1 DEF respVars, AnswersInv, Accounted, Elsewhere, Current
  <2>3. CursorInv'
    BY <1>1 DEF respVars, CursorInv, RowInTurn, ReadAt, PassedBy, Settled, Posted
  <2>4. QED
    BY <2>1, <2>2, <2>3
<1>2. CASE (\E kind \in Kinds : Mention(kind)) \/ ChatIndexerCatchesUp \/ Tick
  <2>1. RespTypeOK' /\ AnswersInv'
    BY <1>2, HubTypes, HubAnswers
  <2>2. QED
    BY <1>2, <2>1, HubCursor
<1>3. CASE \E m \in Messages : DriftsIn(m)
  BY <1>3, LoopTypes, DriftAnswers, OtherCursor
<1>4. CASE RespStep
  <2>1. RespTypeOK' /\ AnswersInv'
    BY <1>4, LoopTypes, LoopAnswers
  <2>2. CursorInv'
    BY <1>4, PollCursor, OtherCursor DEF RespStep
  <2>3. QED
    BY <2>1, <2>2
<1>5. CASE GivesUp \/ ReplyRefused
  BY <1>5, LoopTypes, LoopAnswers, OtherCursor
<1>6. CASE AnswerLost \/ RespCrash \/ Redeploy
  BY <1>6, LoopTypes, LossAnswers, OtherCursor
<1>7. QED
  BY <1>1, <1>2, <1>3, <1>4, <1>5, <1>6 DEF RespNext

LEMMA AlwaysRespInv == RespSpec => []RespInv
BY InitRespInv, NextRespInv, PTL DEF RespSpec

\* Every reachable state is well typed: rows of the list are messages of the
\* hub, marks are made for messages posted, and the cursor is never ahead of
\* the clock.
THEOREM RespTypeCorrectness == RespSpec => []RespTypeOK
BY AlwaysRespInv, PTL DEF RespInv

\* main.ts:266 and :270: a second reply to one message takes both a lost or
\* missing mark and an indexer that did not show the first reply.
THEOREM SecondReplyNeedsBoth == RespSpec => []TwiceNeedsBoth
<1>1. RespInv => TwiceNeedsBoth
  <2> SUFFICES ASSUME RespInv, NEW m \in Messages, replies[m] > 1
               PROVE  m \in unmarked \cap unseen
    BY DEF TwiceNeedsBoth
  <2>1. replies[m] \in Nat /\ adrift[m] \in Nat
    BY DEF RespInv, RespTypeOK
  <2>2. Elsewhere(m) > 1
    BY <2>1 DEF Elsewhere
  <2>3. QED
    BY <2>2 DEF RespInv, AnswersInv
<1>2. QED
  BY <1>1, AlwaysRespInv, PTL

\* main.ts:272 and :354: no row of processed_messages is made for an attempt
\* that came to nothing.
THEOREM MarksAreAnswers == RespSpec => []MarkedIsAnswered
<1>1. RespInv => MarkedIsAnswered
  BY DEF RespInv, AnswersInv, MarkedIsAnswered
<1>2. QED
  BY <1>1, AlwaysRespInv, PTL

\* main.ts:374 and :383: a peer's message that the cursor has passed was
\* answered, or its attempt failed, or it was out of reach at some poll.
THEOREM CursorPassesSettled == RespSpec => []PassedIsSettled
<1>1. RespInv => PassedIsSettled
  BY DEF RespInv, CursorInv, PassedBy, Settled, PassedIsSettled
<1>2. QED
  BY <1>1, AlwaysRespInv, PTL

\* main.ts:383: only a redeploy, which forgets the cursor, moves it back.
THEOREM CursorNeverBack == RespSpec => CursorForward
<1>1. RespInv /\ [RespNext]_respVars =>
        [lastProcessedAt' # Nothing => lastProcessedAt' >= lastProcessedAt]_respVars
  <2> SUFFICES ASSUME RespInv, RespNext, lastProcessedAt' # Nothing
               PROVE  lastProcessedAt' >= lastProcessedAt
    OBVIOUS
  <2>1. /\ lastProcessedAt \in Int
        /\ resp.newest # Nothing => resp.newest >= lastProcessedAt
    BY DEF RespInv, RespTypeOK, CursorInv, Nothing
  <2>2. CASE EndCycle
    BY <2>1, <2>2 DEF EndCycle
  <2>3. CASE Redeploy
    BY <2>3 DEF Redeploy
  <2>4. CASE ~EndCycle /\ ~Redeploy
    <3>1. lastProcessedAt' = lastProcessedAt
      BY <2>4 DEF RespNext, RespStep, Mention, ChatIndexerCatchesUp, Tick, DriftsIn, Poll, Skip,
                  AsksIndexer, AlreadyAnswered, Unanswered, SendsReply, ReplyLands, ReplyReturns,
                  Mark, GivesUp, ReplyRefused, AnswerLost, RespCrash, respDisk
    <3>2. QED
      BY <2>1, <3>1
  <2>5. QED
    BY <2>2, <2>3, <2>4
<1>2. QED
  BY <1>1, AlwaysRespInv, PTL DEF RespSpec, CursorForward

-------------------------------------------------------------------------------
(* Types.                                                                     *)

\* The loop of shift() stops: at the first entry that has not expired, or at
\* the end of the log.
LEMMA ShiftsStop ==
  ASSUME Len(coverageRequestLog) \in Nat
  PROVE  \E n \in 0 .. Len(coverageRequestLog) : Shifts(n)
<1> DEFINE log == coverageRequestLog
           Stops == \E n \in 0 .. Len(log) : Shifts(n)
           S == {m \in Nat : m <= Len(log) => Stops \/ \A i \in 1 .. m : Expired(log[i])}
<1>1. 0 \in S
  OBVIOUS
<1>2. ASSUME NEW m \in Nat, m \in S PROVE m + 1 \in S
  <2>1. SUFFICES ASSUME m + 1 <= Len(log), ~Stops
                 PROVE  \A i \in 1 .. m + 1 : Expired(log[i])
    OBVIOUS
  <2>2. \A i \in 1 .. m : Expired(log[i])
    BY <1>2, <2>1
  <2>3. m \in 0 .. Len(log) /\ m < Len(log)
    BY <2>1
  <2>4. Expired(log[m + 1])
    BY <2>1, <2>2, <2>3 DEF Shifts
  <2>5. QED
    BY <2>2, <2>4
<1> HIDE DEF S
<1>3. Len(log) \in S
  BY <1>1, <1>2, StepInduction
<1>4. QED
  BY <1>3 DEF S, Shifts

\* What the loop leaves: the log without some entries at its front, all of
\* them expired.
LEMMA TrimmedLog ==
  ASSUME coverageRequestLog \in Seq(Nat)
  PROVE  \E n \in 0 .. Len(coverageRequestLog) :
           /\ \A i \in 1 .. n : Expired(coverageRequestLog[i])
           /\ Trimmed \in Seq(Nat)
           /\ Len(Trimmed) = Len(coverageRequestLog) - n
           /\ \A i \in 1 .. Len(coverageRequestLog) - n :
                Trimmed[i] = coverageRequestLog[n + i]
<1> DEFINE log == coverageRequestLog
<1>1. Len(log) \in Nat
  BY LenProperties
<1>2. PICK n \in 0 .. Len(log) :
        Shifts(n) /\ Trimmed = SubSeq(log, n + 1, Len(log))
  BY <1>1, ShiftsStop DEF Trimmed
<1>3. \A i \in n + 1 .. Len(log) : log[i] \in Nat
  BY <1>1, ElementOfSeq
<1>4. /\ Trimmed \in Seq(Nat)
      /\ Len(Trimmed) = IF n + 1 <= Len(log) THEN Len(log) - (n + 1) + 1 ELSE 0
      /\ \A i \in 1 .. Len(log) - (n + 1) + 1 : Trimmed[i] = log[n + 1 + i - 1]
  BY <1>1, <1>2, <1>3, SubSeqProperties
<1>5. \A i \in 1 .. n : Expired(log[i])
  BY <1>2 DEF Shifts
<1>6. Len(Trimmed) = Len(log) - n
  <2> HIDE DEF log
  <2>1. n \in Nat /\ n <= Len(log)
    BY <1>1
  <2>2. CASE n + 1 <= Len(log)
    BY <1>1, <1>4, <2>1, <2>2
  <2>3. CASE ~(n + 1 <= Len(log))
    BY <1>1, <1>4, <2>1, <2>3
  <2>4. QED
    BY <2>2, <2>3
<1>7. ASSUME NEW i \in 1 .. Len(log) - n PROVE Trimmed[i] = log[n + i]
  <2> HIDE DEF log
  <2>1. i \in 1 .. Len(log) - (n + 1) + 1 /\ n + 1 + i - 1 = n + i
    BY <1>1
  <2>2. Trimmed[i] = log[n + 1 + i - 1]
    BY <1>4, <2>1
  <2>3. QED
    BY <2>1, <2>2
<1>8. QED
  BY <1>4, <1>5, <1>6, <1>7

LEMMA PosterStart == PosterInit => PosterTypeOK
<1>1. SUFFICES ASSUME PosterInit PROVE PosterTypeOK
  OBVIOUS
<1>2. <<>> \in Seq(Nat) /\ <<>> \in Seq(LandedCall) /\ Len(<<>>) = 0
  BY EmptySeq
<1>3. 0 \in 0 .. CoverageEvery - 1 /\ COVERAGE_DAILY_CAP \in Nat \ {0}
      /\ MAX_INVITATIONS_PER_BOUNTY \in Nat \ {0}
  BY PosterAssumption
<1>4. cycle \in CycleState
  BY <1>1 DEF PosterInit, Asleep, CycleState
<1>5. QED
  BY <1>1, <1>2, <1>3, <1>4 DEF PosterInit, PosterTypeOK

\* One more call is on the chain, or the last one is marked as not known of.
LEMMA LandedTypes ==
  ASSUME PosterTypeOK
  PROVE  /\ \A a \in Invited \cup {Coverage} : Lands(a) => landed' \in Seq(LandedCall)
         /\ Loses /\ landed # <<>> => landed' \in Seq(LandedCall)
<1>1. landed \in Seq(LandedCall) /\ cycle \in CycleState /\ process \in Nat
  BY DEF PosterTypeOK
<1>2. ASSUME NEW a \in Invited \cup {Coverage}, Lands(a) PROVE landed' \in Seq(LandedCall)
  <2>1. [about |-> a, at |-> cycle.since, process |-> process, lost |-> FALSE] \in LandedCall
    BY <1>1 DEF LandedCall, CycleState
  <2>2. QED
    BY <1>1, <1>2, <2>1, AppendProperties DEF Lands
<1>3. ASSUME Loses, landed # <<>> PROVE landed' \in Seq(LandedCall)
  <2> DEFINE n == Len(landed)
  <2>1. n \in 1 .. Len(landed) /\ landed[n] \in LandedCall
    <3>1. n \in Nat \ {0}
      BY <1>1, <1>3, EmptySeq
    <3>2. n \in 1 .. Len(landed)
      BY <3>1
    <3>3. QED
      BY <1>1, <3>2, ElementOfSeq
  <2>2. [landed[n] EXCEPT !.lost = TRUE] \in LandedCall
    BY <2>1 DEF LandedCall
  <2>3. landed' = [landed EXCEPT ![n] = [landed[n] EXCEPT !.lost = TRUE]]
    BY <1>3 DEF Loses
  <2> HIDE DEF n
  <2>4. QED
    BY <1>1, <2>1, <2>2, <2>3, ExceptSeq
<1>4. QED
  BY <1>2, <1>3

\* A call under way is in the log of the chain, and of this process; and an
\* invitation under way is for a bounty that has invitations left.
InFlight ==
  IF cycle.at = "asked" \/ (cycle.at = "posted" /\ cycle.kind = "invitation")
  THEN {Len(landed)} ELSE {}

FlightInv ==
  /\ InFlight # {} =>
       /\ Len(landed) > 0
       /\ landed[Len(landed)].process = process
       /\ landed[Len(landed)].about = IF cycle.at = "asked" THEN Coverage ELSE cycle.bounty
       /\ landed[Len(landed)].at = cycle.since
       /\ ~landed[Len(landed)].lost
  /\ cycle.at \in {"posting", "posted"} /\ cycle.kind = "invitation" =>
       cycle.bounty \in Invited /\ HasInvitationsLeft(cycle.bounty)
  /\ cycle.at \in {"asking", "asked"} => Len(coverageRequestLog) < COVERAGE_DAILY_CAP

\* The record of the cycle after a move, or when it begins to post.
LEMMA CycleTypes ==
  ASSUME cycle \in CycleState
  PROVE  /\ \A at \in {"coverage", "data", "asked", "narrating", "invite", "ending"} :
              Goes(at) => cycle' \in CycleState
         /\ \A kind \in {"coverage", "settle", "oldest", "invitation", "generic"},
               b \in Invited \cup {0} :
              Posts(kind, b) => cycle' \in CycleState
         /\ Asleep \in CycleState
BY DEF CycleState, Goes, Posts, Asleep

LEMMA PosterTypeStep ==
  ASSUME PosterTypeOK, FlightInv, [PosterNext]_posterVars
  PROVE  PosterTypeOK'
<1>1. /\ cycle \in CycleState /\ landed \in Seq(LandedCall)
      /\ coverageRequestLog \in Seq(Nat) /\ process \in Nat
      /\ throws \in Nat /\ begun \in Nat /\ clock \in Nat
  BY DEF PosterTypeOK
<1>2. COVERAGE_DAILY_CAP \in Nat \ {0} /\ MAX_INVITATIONS_PER_BOUNTY \in Nat \ {0}
  BY PosterAssumption
<1>3. CASE TimePasses
  BY <1>3 DEF TimePasses, PosterTypeOK, posterMemory
<1>4. CASE ListingChanges
  BY <1>4 DEF ListingChanges, PosterTypeOK, posterMemory
<1>5. CASE Begin
  <2>1. cycle' \in CycleState
    BY <1>1, <1>5, CycleTypes DEF Begin
  <2>2. QED
    BY <1>5, <2>1 DEF Begin, PosterTypeOK, posterMemory
<1>6. CASE CoverageTurn
  <2>1. Trimmed \in Seq(Nat) /\ Len(Trimmed) <= Len(coverageRequestLog)
    BY <1>1, TrimmedLog, LenProperties
  <2>2. Len(Trimmed) <= COVERAGE_DAILY_CAP
    BY <1>1, <1>2, <2>1, LenProperties DEF PosterTypeOK
  <2>3. cycle' \in CycleState
    BY <1>1, <1>6 DEF CoverageTurn, CycleState
  <2>4. QED
    BY <1>6, <2>1, <2>2, <2>3 DEF CoverageTurn, PosterTypeOK
<1>7. CASE RequestLands
  <2>1. landed' \in Seq(LandedCall) /\ cycle' \in CycleState
    BY <1>1, <1>7, LandedTypes, CycleTypes DEF RequestLands
  <2>2. QED
    BY <1>7, <2>1 DEF RequestLands, PosterTypeOK, posterMemory
<1>8. CASE RequestReturns
  <2>1. cycle.since \in Nat /\ Len(coverageRequestLog) < COVERAGE_DAILY_CAP
    BY <1>1, <1>8 DEF RequestReturns, FlightInv, CycleState
  <2>2. /\ coverageRequestLog' \in Seq(Nat)
        /\ Len(coverageRequestLog') = Len(coverageRequestLog) + 1
    BY <1>1, <1>8, <2>1, AppendProperties DEF RequestReturns
  <2>3. Len(coverageRequestLog') <= COVERAGE_DAILY_CAP
    BY <1>1, <1>2, <2>1, <2>2, LenProperties
  <2>4. cycle' \in CycleState
    BY <1>1, <1>8, CycleTypes DEF RequestReturns
  <2>5. QED
    BY <1>8, <2>2, <2>3, <2>4 DEF RequestReturns, PosterTypeOK
<1>9. CASE RequestThrows
  <2>1. cycle.at = "asked" => landed # <<>>
    BY EmptySeq DEF FlightInv, InFlight
  <2>2. landed' \in Seq(LandedCall)
    BY <1>1, <1>9, <2>1, LandedTypes DEF RequestThrows
  <2>3. cycle' \in CycleState /\ throws' \in Nat
    BY <1>1, <1>9, CycleTypes DEF RequestThrows, Throwing
  <2>4. QED
    BY <1>9, <2>2, <2>3 DEF RequestThrows, PosterTypeOK, posterMemory
<1>10. CASE Narrate
  <2>1. cycle' \in CycleState
    BY <1>1, <1>10, CycleTypes DEF Narrate
  <2>2. QED
    BY <1>10, <2>1 DEF Narrate, AtBranch, PosterTypeOK, posterMemory
<1>11. CASE DataDriven
  <2>1. cycle' \in CycleState
    BY <1>1, <1>11, CycleTypes DEF DataDriven
  <2>2. QED
    BY <1>11, <2>1 DEF DataDriven, AtBranch, PosterTypeOK, posterMemory
<1>12. CASE Invite
  <2>1. Matching \subseteq Invited
    BY PosterAssumption
  <2>2. cycle' \in CycleState
    BY <1>1, <1>12, <2>1, CycleTypes DEF Invite
  <2>3. QED
    BY <1>12, <2>2 DEF Invite, AtBranch, PosterTypeOK, posterMemory
<1>13. CASE PostLands
  <2>1. landed' \in Seq(LandedCall)
    <3>1. CASE cycle.kind = "invitation"
      <4>1. cycle.bounty \in Invited
        BY <1>13, <3>1 DEF PostLands, FlightInv
      <4>2. QED
        BY <1>13, <3>1, <4>1, LandedTypes DEF PostLands
    <3>2. CASE cycle.kind # "invitation"
      BY <1>1, <1>13, <3>2 DEF PostLands
    <3>3. QED
      BY <3>1, <3>2
  <2>2. cycle' \in CycleState
    <3>1. cycle' = [cycle EXCEPT !.at = "posted", !.posts = @ + 1]
      BY <1>13 DEF PostLands
    <3> DEFINE n == cycle.posts + 1
    <3>2. n \in Nat
      BY <1>1 DEF CycleState
    <3>3. cycle' = [cycle EXCEPT !.at = "posted", !.posts = n]
      BY <3>1
    <3> HIDE DEF n
    <3>4. QED
      BY <1>1, <3>2, <3>3 DEF CycleState
  <2>3. QED
    BY <1>13, <2>1, <2>2 DEF PostLands, PosterTypeOK, posterMemory
<1>14. CASE PostReturns
  <2>1. invitationCounts' \in [Invited -> 0 .. MAX_INVITATIONS_PER_BOUNTY]
    <3>1. CASE cycle.kind = "invitation"
      <4>1. cycle.bounty \in Invited /\ HasInvitationsLeft(cycle.bounty)
        BY <1>14, <3>1 DEF PostReturns, FlightInv
      <4>2. invitationCounts[cycle.bounty] + 1 \in 0 .. MAX_INVITATIONS_PER_BOUNTY
        BY <1>2, <4>1 DEF HasInvitationsLeft, PosterTypeOK
      <4>3. QED
        BY <1>14, <3>1, <4>1, <4>2 DEF PostReturns, PosterTypeOK
    <3>2. CASE cycle.kind # "invitation"
      BY <1>14, <3>2 DEF PostReturns, PosterTypeOK
    <3>3. QED
      BY <3>1, <3>2
  <2>2. Following(cycle.kind) \in {"data", "invite", "ending"}
    BY DEF Following
  <2>3. cycle' \in CycleState
    BY <1>1, <1>14, <2>2, CycleTypes DEF PostReturns
  <2>4. QED
    BY <1>14, <2>1, <2>3 DEF PostReturns, PosterTypeOK
<1>15. CASE PostThrows
  <2>1. cycle.at = "posted" /\ cycle.kind = "invitation" => landed # <<>>
    BY EmptySeq DEF FlightInv, InFlight
  <2>2. landed' \in Seq(LandedCall)
    BY <1>1, <1>15, <2>1, LandedTypes DEF PostThrows
  <2>3. cycle' \in CycleState /\ throws' \in Nat
    <3>1. cycle' = [cycle EXCEPT !.at = "ending", !.threw = TRUE]
      BY <1>15 DEF PostThrows
    <3>2. cycle' \in CycleState
      BY <1>1, <3>1 DEF CycleState
    <3>3. QED
      BY <1>1, <1>15, <3>2 DEF PostThrows, Throwing
  <2>4. QED
    BY <1>15, <2>2, <2>3 DEF PostThrows, PosterTypeOK, posterMemory
<1>16. CASE End
  <2>1. (cycleIndex + 1) % CoverageEvery \in 0 .. CoverageEvery - 1
    BY PosterAssumption DEF PosterTypeOK
  <2>2. cycle' \in CycleState
    BY <1>1, <1>16, CycleTypes DEF End
  <2>3. QED
    BY <1>16, <2>1, <2>2 DEF End, PosterTypeOK
<1>17. CASE PosterCrash
  <2>1. <<>> \in Seq(Nat) /\ Len(<<>>) = 0 /\ 0 \in 0 .. CoverageEvery - 1
    BY EmptySeq, PosterAssumption
  <2>2. cycle' \in CycleState /\ throws' \in Nat /\ process' \in Nat
    BY <1>1, <1>17, CycleTypes DEF PosterCrash, Throwing
  <2>3. QED
    BY <1>2, <1>17, <2>1, <2>2 DEF PosterCrash, PosterTypeOK
<1>18. CASE UNCHANGED posterVars
  BY <1>18 DEF posterVars, posterMemory, PosterTypeOK
<1>19. QED
  BY <1>3, <1>4, <1>5, <1>6, <1>7, <1>8, <1>9, <1>10, <1>11, <1>12, <1>13,
     <1>14, <1>15, <1>16, <1>17, <1>18 DEF PosterNext

-------------------------------------------------------------------------------
(* The call under way.                                                        *)

\* Appending to what is on the chain, and marking its last call.
LEMMA LandedShape ==
  ASSUME PosterTypeOK
  PROVE  /\ Len(landed) \in Nat
         /\ \A i \in 1 .. Len(landed) : landed[i] \in LandedCall
         /\ \A a \in Invited \cup {Coverage} : Lands(a) =>
              /\ Len(landed') = Len(landed) + 1
              /\ \A i \in 1 .. Len(landed) : landed'[i] = landed[i]
              /\ landed'[Len(landed) + 1] =
                   [about |-> a, at |-> cycle.since, process |-> process, lost |-> FALSE]
         /\ Loses /\ Len(landed) > 0 =>
              /\ Len(landed') = Len(landed)
              /\ \A i \in 1 .. Len(landed) : i # Len(landed) => landed'[i] = landed[i]
              /\ landed'[Len(landed)] = [landed[Len(landed)] EXCEPT !.lost = TRUE]
<1>1. landed \in Seq(LandedCall) /\ cycle \in CycleState /\ process \in Nat
  BY DEF PosterTypeOK
<1>2. Len(landed) \in Nat /\ \A i \in 1 .. Len(landed) : landed[i] \in LandedCall
  BY <1>1, LenProperties, ElementOfSeq
<1>3. ASSUME NEW a \in Invited \cup {Coverage}, Lands(a)
      PROVE  /\ Len(landed') = Len(landed) + 1
             /\ \A i \in 1 .. Len(landed) : landed'[i] = landed[i]
             /\ landed'[Len(landed) + 1] =
                  [about |-> a, at |-> cycle.since, process |-> process, lost |-> FALSE]
  <2>1. [about |-> a, at |-> cycle.since, process |-> process, lost |-> FALSE] \in LandedCall
    BY <1>1 DEF LandedCall, CycleState
  <2>2. QED
    BY <1>1, <1>3, <2>1, AppendProperties DEF Lands
<1>4. ASSUME Loses, Len(landed) > 0
      PROVE  /\ Len(landed') = Len(landed)
             /\ \A i \in 1 .. Len(landed) : i # Len(landed) => landed'[i] = landed[i]
             /\ landed'[Len(landed)] = [landed[Len(landed)] EXCEPT !.lost = TRUE]
  <2> DEFINE n == Len(landed)
             e == [landed[n] EXCEPT !.lost = TRUE]
  <2>1. n \in 1 .. Len(landed) /\ landed[n] \in LandedCall
    BY <1>2, <1>4
  <2>2. e \in LandedCall
    BY <2>1 DEF LandedCall
  <2>3. landed' = [landed EXCEPT ![n] = e]
    BY <1>4 DEF Loses
  <2> HIDE DEF n, e
  <2>4. /\ Len(landed') = Len(landed)
        /\ \A j \in 1 .. Len(landed) : landed'[j] = IF j = n THEN e ELSE landed[j]
    BY <1>1, <2>1, <2>2, <2>3, ExceptSeq
  <2>5. QED
    BY <2>1, <2>4 DEF n, e
<1>5. QED
  BY <1>2, <1>3, <1>4

LEMMA FlightStart == PosterInit => FlightInv
BY DEF PosterInit, FlightInv, InFlight, Asleep

\* Steps that neither send nor learn of anything, nor change what is counted.
LEMMA FlightStays ==
  ASSUME FlightInv, InFlight' = {},
         cycle'.at \notin {"posting", "posted", "asking", "asked"}
  PROVE  FlightInv'
BY DEF FlightInv

LEMMA FlightStep ==
  ASSUME PosterTypeOK, FlightInv, [PosterNext]_posterVars
  PROVE  FlightInv'
<1>1. cycle \in CycleState /\ Len(landed) \in Nat
  BY LandedShape DEF PosterTypeOK
<1>2. CASE UNCHANGED <<cycle, landed, invitationCounts, coverageRequestLog, process>>
  BY <1>2 DEF FlightInv, InFlight, HasInvitationsLeft
<1>3. CASE TimePasses \/ ListingChanges \/ UNCHANGED posterVars
  BY <1>2, <1>3 DEF TimePasses, ListingChanges, posterVars, posterMemory
<1>4. CASE Begin \/ RequestThrows \/ PostReturns \/ PostThrows \/ End \/ PosterCrash
           \/ RequestReturns
  <2>1. Following(cycle.kind) \in {"data", "invite", "ending"}
    BY DEF Following
  <2>2. cycle'.at \in {"coverage", "data", "narrating", "invite", "ending", "asleep"}
    <3>1. CASE Begin \/ RequestThrows \/ RequestReturns \/ PostReturns
      BY <1>1, <2>1, <3>1
         DEF Begin, RequestThrows, RequestReturns, PostReturns, Goes, CycleState
    <3>2. CASE PostThrows
      BY <1>1, <3>2 DEF PostThrows, CycleState
    <3>3. CASE End \/ PosterCrash
      BY <3>3 DEF End, PosterCrash, Asleep
    <3>4. QED
      BY <1>4, <3>1, <3>2, <3>3
  <2>3. QED
    BY <2>2, FlightStays DEF InFlight
<1>5. CASE CoverageTurn
  <2>1. /\ cycle'.at \in {"asking", "narrating"}
        /\ cycle'.at = "asking" => Len(coverageRequestLog') < COVERAGE_DAILY_CAP
    BY <1>1, <1>5 DEF CoverageTurn, CycleState
  <2>2. QED
    BY <2>1 DEF FlightInv, InFlight
<1>6. CASE RequestLands
  <2>1. /\ cycle'.at = "asked" /\ cycle'.since = cycle.since /\ cycle.at = "asking"
        /\ process' = process /\ coverageRequestLog' = coverageRequestLog
    BY <1>1, <1>6 DEF RequestLands, Goes, CycleState, posterMemory
  <2>2. /\ Len(landed') = Len(landed) + 1
        /\ landed'[Len(landed) + 1] =
             [about |-> Coverage, at |-> cycle.since, process |-> process, lost |-> FALSE]
    BY <1>6, LandedShape DEF RequestLands
  <2>3. QED
    BY <1>1, <2>1, <2>2 DEF FlightInv
<1>7. CASE Narrate
  <2>1. /\ cycle'.at \in {"posting", "data"}
        /\ cycle'.at = "posting" => cycle'.kind = "coverage"
    BY <1>1, <1>7 DEF Narrate, AtBranch, Posts, Goes, CycleState
  <2>2. QED
    BY <2>1 DEF FlightInv, InFlight
<1>8. CASE DataDriven
  <2>1. /\ cycle'.at \in {"posting", "invite"}
        /\ cycle'.at = "posting" => cycle'.kind \in {"settle", "oldest"}
    BY <1>1, <1>8 DEF DataDriven, AtBranch, Posts, Goes, CycleState
  <2>2. QED
    BY <2>1 DEF FlightInv, InFlight
<1>9. CASE Invite
  <2>1. /\ cycle'.at \in {"posting", "ending"}
        /\ cycle'.at = "posting" /\ cycle'.kind = "invitation" =>
             cycle'.bounty \in Invited /\ HasInvitationsLeft(cycle'.bounty)
    BY <1>1, <1>9, PosterAssumption
       DEF Invite, AtBranch, Posts, Goes, CycleState, pickBountyForInvitation
  <2>2. invitationCounts' = invitationCounts
    BY <1>9 DEF Invite, AtBranch, posterMemory
  <2>3. QED
    BY <2>1, <2>2 DEF FlightInv, InFlight, HasInvitationsLeft
<1>10. CASE PostLands
  <2>1. /\ cycle'.at = "posted" /\ cycle'.since = cycle.since /\ cycle'.kind = cycle.kind
        /\ cycle'.bounty = cycle.bounty /\ cycle.at = "posting"
        /\ process' = process /\ invitationCounts' = invitationCounts
    BY <1>1, <1>10 DEF PostLands, CycleState, posterMemory
  <2>2. CASE cycle.kind = "invitation"
    <3>1. cycle.bounty \in Invited /\ HasInvitationsLeft(cycle.bounty)
      BY <2>1, <2>2 DEF FlightInv
    <3>2. /\ Len(landed') = Len(landed) + 1
          /\ landed'[Len(landed) + 1] =
               [about |-> cycle.bounty, at |-> cycle.since, process |-> process, lost |-> FALSE]
      BY <1>10, <2>2, <3>1, LandedShape DEF PostLands
    <3>3. QED
      BY <1>1, <2>1, <2>2, <3>1, <3>2 DEF FlightInv, HasInvitationsLeft
  <2>3. CASE cycle.kind # "invitation"
    BY <2>1, <2>3 DEF FlightInv, InFlight
  <2>4. QED
    BY <2>2, <2>3
<1>11. QED
  BY <1>3, <1>4, <1>5, <1>6, <1>7, <1>8, <1>9, <1>10 DEF PosterNext

-------------------------------------------------------------------------------
(* The caps.                                                                  *)

\* The calls about something that this process has landed and learnt of.
Answered(about) == Known(process, about) \ InFlight

\* The time by which an entry of the log is found expired: the one read before
\* a request that is under way.
ExpiredBy == IF cycle.at \in {"asking", "asked"} THEN cycle.since ELSE clock

AnsweredSince(u) == {i \in Answered(Coverage) : landed[i].at >= u}
LoggedSince(u) == {j \in 1 .. Len(coverageRequestLog) : coverageRequestLog[j] >= u}

\* The requests of a process in the day from t on.
InDay(p, t) == {i \in Known(p, Coverage) : landed[i].at \in t .. t + ONE_DAY_MS}

\* Nothing that has been answered and has not expired is missing from the log.
LogCovers ==
  \A u \in Int : u >= ExpiredBy - ONE_DAY_MS =>
    Cardinality(AnsweredSince(u)) <= Cardinality(LoggedSince(u))

CapsInv ==
  /\ cycle.since <= clock
  /\ \A i \in 1 .. Len(landed) : landed[i].process <= process
  /\ \A b \in Invited : Cardinality(Answered(b)) <= invitationCounts[b]
  /\ InvitedAtMostTwice
  /\ LogCovers
  /\ \A p \in 0 .. process, t \in Int : Cardinality(InDay(p, t)) <= COVERAGE_DAILY_CAP

PosterInv == PosterTypeOK /\ FlightInv /\ CapsInv

\* Subsets of a finite set, and a set with one element more.
LEMMA Fewer ==
  \A S, T : IsFiniteSet(T) /\ S \subseteq T =>
    /\ IsFiniteSet(S) /\ Cardinality(S) \in Nat /\ Cardinality(T) \in Nat
    /\ Cardinality(S) <= Cardinality(T)
BY FS_Subset, FS_CardinalityType

LEMMA OneMore ==
  \A S, x : IsFiniteSet(S) =>
    /\ IsFiniteSet(S \cup {x}) /\ Cardinality(S \cup {x}) \in Nat
    /\ Cardinality(S \cup {x}) <= Cardinality(S) + 1
    /\ x \notin S => Cardinality(S \cup {x}) = Cardinality(S) + 1
BY FS_AddElement, FS_CardinalityType

\* The entries of any log from some time on are finitely many.
LEMMA EntriesFinite ==
  \A log \in Seq(Nat) : \A u :
    /\ IsFiniteSet({j \in 1 .. Len(log) : log[j] >= u})
    /\ Cardinality({j \in 1 .. Len(log) : log[j] >= u}) \in Nat
<1>1. TAKE log \in Seq(Nat)
<1> TAKE u
<1>2. Len(log) \in Nat
  BY LenProperties
<1>3. IsFiniteSet(1 .. Len(log))
  BY <1>2, FS_Interval
<1>4. {j \in 1 .. Len(log) : log[j] >= u} \subseteq 1 .. Len(log)
  OBVIOUS
<1>5. QED
  BY <1>3, <1>4, Fewer

\* The sets counted are finite.
LEMMA PosterFinite ==
  ASSUME PosterTypeOK
  PROVE  /\ \A p, a : IsFiniteSet(Known(p, a)) /\ Cardinality(Known(p, a)) \in Nat
         /\ \A a : IsFiniteSet(Answered(a)) /\ Cardinality(Answered(a)) \in Nat
         /\ \A u : /\ IsFiniteSet(AnsweredSince(u)) /\ Cardinality(AnsweredSince(u)) \in Nat
                   /\ IsFiniteSet(LoggedSince(u)) /\ Cardinality(LoggedSince(u)) \in Nat
                   /\ Cardinality(LoggedSince(u)) <= Len(coverageRequestLog)
         /\ \A p, t : IsFiniteSet(InDay(p, t)) /\ Cardinality(InDay(p, t)) \in Nat
<1>1. /\ DOMAIN landed = 1 .. Len(landed) /\ Len(landed) \in Nat
      /\ Len(coverageRequestLog) \in Nat
  BY LenProperties DEF PosterTypeOK
<1>2. /\ IsFiniteSet(1 .. Len(landed))
      /\ IsFiniteSet(1 .. Len(coverageRequestLog))
      /\ Cardinality(1 .. Len(coverageRequestLog)) = Len(coverageRequestLog)
  <2>1. \A n \in Nat : IsFiniteSet(1 .. n) /\ Cardinality(1 .. n) = n
    <3>1. TAKE n \in Nat
    <3>2. IsFiniteSet(1 .. n) /\ Cardinality(1 .. n) = IF 1 > n THEN 0 ELSE n - 1 + 1
      BY FS_Interval
    <3>3. QED
      BY <3>2
  <2>2. QED
    BY <1>1, <2>1
<1>3. \A p, a : Known(p, a) \subseteq 1 .. Len(landed)
  BY <1>1 DEF Known
<1>4. \A a : Answered(a) \subseteq 1 .. Len(landed)
  BY <1>3 DEF Answered
<1>5. \A u : AnsweredSince(u) \subseteq 1 .. Len(landed)
  BY <1>4 DEF AnsweredSince
<1>6. \A u : LoggedSince(u) \subseteq 1 .. Len(coverageRequestLog)
  BY DEF LoggedSince
<1>7. \A p, t : InDay(p, t) \subseteq 1 .. Len(landed)
  BY <1>3 DEF InDay
<1>8. QED
  BY <1>2, <1>3, <1>4, <1>5, <1>6, <1>7, Fewer

LEMMA CapsStart == PosterInit => CapsInv
<1>1. SUFFICES ASSUME PosterInit PROVE CapsInv
  OBVIOUS
<1>2. landed = <<>> /\ DOMAIN landed = {} /\ Len(landed) = 0
  BY <1>1 DEF PosterInit
<1>3. /\ \A p, a : Known(p, a) = {}
      /\ \A a : Answered(a) = {}
      /\ \A u : AnsweredSince(u) = {}
      /\ \A p, t : InDay(p, t) = {}
  BY <1>2 DEF Known, Answered, AnsweredSince, InDay
<1>4. Cardinality({}) = 0 /\ \A u : Cardinality(LoggedSince(u)) \in Nat
  BY <1>1, FS_EmptySet, PosterStart, PosterFinite
<1>5. \A b \in Invited : 0 <= invitationCounts[b]
  BY <1>1 DEF PosterInit
<1>6. 0 <= MAX_INVITATIONS_PER_BOUNTY /\ 0 <= COVERAGE_DAILY_CAP
  BY PosterAssumption
<1>7. InvitedAtMostTwice /\ LogCovers
  <2>1. InvitedAtMostTwice
    BY <1>3, <1>4, <1>6 DEF InvitedAtMostTwice
  <2>2. \A u : Cardinality(AnsweredSince(u)) <= Cardinality(LoggedSince(u))
    BY <1>3, <1>4
  <2>3. QED
    BY <2>1, <2>2 DEF LogCovers
<1>8. cycle.since <= clock
  BY <1>1 DEF PosterInit, Asleep
<1>9. \A b \in Invited : Cardinality(Answered(b)) <= invitationCounts[b]
  BY <1>3, <1>4, <1>5
<1>10. \A p, t : Cardinality(InDay(p, t)) <= COVERAGE_DAILY_CAP
  BY <1>3, <1>4, <1>6
<1>11. QED
  BY <1>2, <1>7, <1>8, <1>9, <1>10 DEF CapsInv

\* Steps that change neither what has landed nor what is counted.
LEMMA CapsStay ==
  ASSUME PosterTypeOK, PosterTypeOK', CapsInv,
         UNCHANGED <<landed, process, invitationCounts, coverageRequestLog>>,
         InFlight' = InFlight, ExpiredBy <= ExpiredBy', cycle'.since <= clock'
  PROVE  CapsInv'
<1>1. /\ \A p, a : Known(p, a)' = Known(p, a)
      /\ \A a : Answered(a)' = Answered(a)
      /\ \A u : AnsweredSince(u)' = AnsweredSince(u) /\ LoggedSince(u)' = LoggedSince(u)
      /\ \A p, t : InDay(p, t)' = InDay(p, t)
  BY DEF Known, Answered, AnsweredSince, LoggedSince, InDay
<1>2. ExpiredBy \in Int /\ ExpiredBy' \in Int /\ ONE_DAY_MS \in Int
  BY PosterAssumption DEF PosterTypeOK, ExpiredBy, CycleState
<1>3. \A u \in Int : u >= ExpiredBy' - ONE_DAY_MS => u >= ExpiredBy - ONE_DAY_MS
  <2>1. \A x, y, d, u \in Int : x <= y /\ u >= y - d => u >= x - d
    OBVIOUS
  <2>2. QED
    BY <1>2, <2>1
<1>4. LogCovers'
  BY <1>1, <1>3 DEF CapsInv, LogCovers
<1>5. InvitedAtMostTwice'
  BY <1>1 DEF CapsInv, InvitedAtMostTwice
<1>6. QED
  BY <1>1, <1>4, <1>5 DEF CapsInv

\* The log loses only what has expired.
LEMMA TrimKeeps ==
  ASSUME PosterTypeOK, coverageRequestLog' = Trimmed, NEW u \in Int,
         u >= clock - ONE_DAY_MS,
         IsFiniteSet(LoggedSince(u)'), Cardinality(LoggedSince(u)') \in Nat
  PROVE  Cardinality(LoggedSince(u)) <= Cardinality(LoggedSince(u)')
<1> DEFINE log == coverageRequestLog
           S == LoggedSince(u)
           T == LoggedSince(u)'
<1>1. PICK n \in 0 .. Len(log) :
        /\ \A i \in 1 .. n : Expired(log[i])
        /\ Len(Trimmed) = Len(log) - n
        /\ \A i \in 1 .. Len(log) - n : Trimmed[i] = log[n + i]
  BY TrimmedLog DEF PosterTypeOK
<1>2. Len(log) \in Nat /\ clock \in Nat /\ ONE_DAY_MS \in Nat
      /\ \A j \in 1 .. Len(log) : log[j] \in Nat
  BY LenProperties, ElementOfSeq, PosterAssumption DEF PosterTypeOK
<1> DEFINE f == [j \in S |-> j - n]
<1>3. ASSUME NEW j \in S PROVE j - n \in T /\ j \in Nat
  <2>1. j \in 1 .. Len(log) /\ log[j] >= u
    BY DEF LoggedSince
  <2>2. ~Expired(log[j])
    BY <1>2, <2>1 DEF Expired
  <2>3. ~(j <= n)
    BY <1>1, <1>2, <2>1, <2>2
  <2>4. j - n \in 1 .. Len(log) - n /\ n + (j - n) = j
    BY <1>2, <2>1, <2>3
  <2>5. Trimmed[j - n] = log[j]
    BY <1>1, <2>4
  <2>6. QED
    BY <1>1, <2>1, <2>4, <2>5 DEF LoggedSince
<1>4. f \in Injection(S, T)
  <2>1. f \in [S -> T]
    BY <1>3
  <2>2. ASSUME NEW a \in S, NEW b \in S, f[a] = f[b] PROVE a = b
    <3>1. a \in Nat /\ b \in Nat /\ a - n = b - n /\ n \in Nat
      BY <1>2, <1>3, <2>2
    <3>2. QED
      BY <3>1
  <2> HIDE DEF f
  <2>3. QED
    BY <2>1, <2>2 DEF Injection, IsInjective
<1> HIDE DEF f, S, T
<1>5. IsFiniteSet(T)
  BY DEF T
<1>6. Cardinality(S) <= Cardinality(T)
  BY <1>4, <1>5, FS_Injection
<1>7. QED
  BY <1>6 DEF S, T

\* The bounties and the coverage requests are told apart.
LEMMA CoverageIsNoBounty == Coverage \notin Invited
BY PosterAssumption DEF Coverage

LEMMA CapsCoverageTurn ==
  ASSUME PosterTypeOK, PosterTypeOK', CapsInv, CoverageTurn
  PROVE  CapsInv'
<1>1. /\ landed' = landed /\ process' = process /\ invitationCounts' = invitationCounts
      /\ clock' = clock /\ coverageRequestLog' = Trimmed /\ cycle.at = "coverage"
  BY DEF CoverageTurn
<1>2. /\ cycle'.since = clock /\ cycle'.at \in {"asking", "narrating"}
      /\ InFlight = {} /\ InFlight' = {} /\ ExpiredBy = clock /\ ExpiredBy' = clock
  <2>1. cycle'.since = clock /\ cycle'.at \in {"asking", "narrating"}
    BY DEF CoverageTurn, PosterTypeOK, CycleState
  <2>2. QED
    BY <1>1, <2>1 DEF InFlight, ExpiredBy
<1>3. /\ \A p, a : Known(p, a)' = Known(p, a)
      /\ \A a : Answered(a)' = Answered(a)
      /\ \A u : AnsweredSince(u)' = AnsweredSince(u)
      /\ \A p, t : InDay(p, t)' = InDay(p, t)
  BY <1>1, <1>2 DEF Known, Answered, AnsweredSince, InDay
<1>4. LogCovers'
  <2>1. SUFFICES ASSUME NEW u \in Int, u >= clock - ONE_DAY_MS
                 PROVE  Cardinality(AnsweredSince(u)') <= Cardinality(LoggedSince(u)')
    BY <1>2 DEF LogCovers
  <2>2. Cardinality(AnsweredSince(u)) <= Cardinality(LoggedSince(u))
    BY <1>2, <2>1 DEF CapsInv, LogCovers
  <2>3. IsFiniteSet(LoggedSince(u)') /\ Cardinality(LoggedSince(u)') \in Nat
    <3>1. coverageRequestLog' \in Seq(Nat)
      BY DEF PosterTypeOK
    <3>2. QED
      BY <3>1, EntriesFinite DEF LoggedSince
  <2>4. Cardinality(LoggedSince(u)) <= Cardinality(LoggedSince(u)')
    BY <1>1, <2>1, <2>3, TrimKeeps
  <2>5. Cardinality(AnsweredSince(u)) \in Nat /\ Cardinality(LoggedSince(u)) \in Nat
    BY PosterFinite
  <2>6. AnsweredSince(u)' = AnsweredSince(u)
    BY <1>3
  <2>7. QED
    BY <2>2, <2>3, <2>4, <2>5, <2>6
<1>5. InvitedAtMostTwice'
  BY <1>1, <1>3 DEF CapsInv, InvitedAtMostTwice
<1>6. cycle'.since <= clock'
  BY <1>1, <1>2 DEF PosterTypeOK
<1>7. QED
  BY <1>1, <1>3, <1>4, <1>5, <1>6 DEF CapsInv

\* What is known of once one more call has landed.
LEMMA KnownLands ==
  ASSUME PosterTypeOK, NEW a \in Invited \cup {Coverage}, Lands(a)
  PROVE  /\ \A p, c : Known(p, c)' =
              IF p = process /\ c = a THEN Known(p, c) \cup {Len(landed) + 1} ELSE Known(p, c)
         /\ \A p, c : Len(landed) + 1 \notin Known(p, c)
         /\ \A p, c : \A i \in Known(p, c) : landed'[i] = landed[i]
<1> DEFINE n == Len(landed)
<1>1. n \in Nat /\ Len(landed') = n + 1
      /\ landed'[n + 1] =
           [about |-> a, at |-> cycle.since, process |-> process, lost |-> FALSE]
      /\ \A i \in 1 .. n : landed'[i] = landed[i]
  BY LandedShape
<1>2. DOMAIN landed = 1 .. n /\ DOMAIN landed' = 1 .. n + 1
  <2>1. landed' \in Seq(LandedCall)
    BY LandedTypes
  <2>2. QED
    BY <1>1, <2>1, LenProperties DEF PosterTypeOK
<1> HIDE DEF n
<1>3. 1 .. n + 1 = 1 .. n \cup {n + 1} /\ n + 1 \notin 1 .. n
  BY <1>1
<1>4. /\ landed'[n + 1].about = a /\ landed'[n + 1].process = process
      /\ landed'[n + 1].lost = FALSE
  BY <1>1
<1>5. ASSUME NEW p, NEW c
      PROVE  Known(p, c)' = IF p = process /\ c = a THEN Known(p, c) \cup {n + 1}
                            ELSE Known(p, c)
  <2>1. Known(p, c) = {i \in 1 .. n : landed[i].process = p /\ landed[i].about = c
                                        /\ ~landed[i].lost}
    BY <1>2 DEF Known
  <2>2. Known(p, c)' = {i \in 1 .. n + 1 : landed'[i].process = p /\ landed'[i].about = c
                                             /\ ~landed'[i].lost}
    BY <1>2 DEF Known
  <2>3. ASSUME NEW i \in 1 .. n PROVE i \in Known(p, c)' <=> i \in Known(p, c)
    BY <1>1, <1>3, <2>1, <2>2
  <2>4. n + 1 \in Known(p, c)' <=> p = process /\ c = a
    BY <1>3, <1>4, <2>2
  <2>5. Known(p, c) \subseteq 1 .. n /\ Known(p, c)' \subseteq 1 .. n \cup {n + 1}
    BY <1>3, <2>1, <2>2
  <2>6. QED
    BY <1>3, <2>3, <2>4, <2>5
<1>6. \A p, c : Known(p, c) \subseteq 1 .. n
  BY <1>2 DEF Known
<1>7. QED
  BY <1>1, <1>3, <1>5, <1>6 DEF n

\* A coverage request lands: the process asked for it within the cap, and the
\* requests that share a day with it are all in its log.
LEMMA CapsRequestLands ==
  ASSUME PosterTypeOK, FlightInv, CapsInv, RequestLands
  PROVE  CapsInv'
<1> DEFINE n == Len(landed)
<1>1. /\ cycle.at = "asking" /\ cycle'.at = "asked" /\ cycle'.since = cycle.since
      /\ UNCHANGED <<clock, process, invitationCounts, coverageRequestLog>>
      /\ Lands(Coverage)
  BY DEF RequestLands, Goes, PosterTypeOK, CycleState, posterMemory
<1>2. /\ n \in Nat /\ Len(landed') = n + 1
      /\ landed'[n + 1] =
           [about |-> Coverage, at |-> cycle.since, process |-> process, lost |-> FALSE]
      /\ \A i \in 1 .. n : landed'[i] = landed[i]
  BY <1>1, LandedShape
<1>3. InFlight = {} /\ InFlight' = {n + 1} /\ ExpiredBy = cycle.since /\ ExpiredBy' = cycle.since
  BY <1>1, <1>2 DEF InFlight, ExpiredBy
<1>4. /\ \A p, c : Known(p, c)' =
           IF p = process /\ c = Coverage THEN Known(p, c) \cup {n + 1} ELSE Known(p, c)
      /\ \A p, c : n + 1 \notin Known(p, c)
      /\ \A p, c : \A i \in Known(p, c) : landed'[i] = landed[i]
  BY <1>1, KnownLands
<1>5. cycle.since \in Nat /\ clock \in Nat /\ process \in Nat /\ ONE_DAY_MS \in Nat
      /\ COVERAGE_DAILY_CAP \in Nat
  BY PosterAssumption DEF PosterTypeOK, CycleState
<1> HIDE DEF n
<1>6. \A c : Answered(c)' = Answered(c)
  <2>1. TAKE c
  <2>2. PICK p : p = process
    OBVIOUS
  <2>3. Answered(c) = Known(p, c)
    BY <1>3, <2>2 DEF Answered
  <2>4. Answered(c)' = Known(p, c)' \ {n + 1}
    BY <1>1, <1>3, <2>2 DEF Answered
  <2>5. n + 1 \notin Known(p, c)
        /\ (Known(p, c)' = Known(p, c) \cup {n + 1} \/ Known(p, c)' = Known(p, c))
    BY <1>4
  <2>6. Known(p, c)' \ {n + 1} = Known(p, c)
    BY <2>5
  <2>7. QED
    BY <2>3, <2>4, <2>6
<1>7. ASSUME NEW u PROVE AnsweredSince(u)' = AnsweredSince(u)
  <2>1. \A i \in Answered(Coverage) : landed'[i] = landed[i]
    BY <1>4 DEF Answered
  <2>2. QED
    BY <1>6, <2>1 DEF AnsweredSince
<1>8. LogCovers'
  BY <1>1, <1>3, <1>7 DEF CapsInv, LogCovers, LoggedSince
<1>9. InvitedAtMostTwice'
  BY <1>1, <1>4, CoverageIsNoBounty DEF CapsInv, InvitedAtMostTwice
<1>10. ASSUME NEW p \in 0 .. process, NEW t \in Int
       PROVE  Cardinality(InDay(p, t)') <= COVERAGE_DAILY_CAP
  <2>1. Cardinality(InDay(p, t)) <= COVERAGE_DAILY_CAP
    BY DEF CapsInv
  <2>2. CASE p = process /\ cycle.since \in t .. t + ONE_DAY_MS
    <3>1. InDay(p, t)' \subseteq InDay(p, t) \cup {n + 1}
      BY <1>4 DEF InDay
    <3>2. InDay(p, t) \subseteq AnsweredSince(t)
      BY <1>3, <2>2 DEF InDay, AnsweredSince, Answered
    <3>3. t >= cycle.since - ONE_DAY_MS
      BY <1>5, <2>2
    <3>4. Cardinality(AnsweredSince(t)) <= Cardinality(LoggedSince(t))
      BY <1>3, <3>3 DEF CapsInv, LogCovers
    <3>5. /\ Cardinality(LoggedSince(t)) <= Len(coverageRequestLog)
          /\ Cardinality(LoggedSince(t)) \in Nat
          /\ Len(coverageRequestLog) \in Nat
      BY PosterFinite, LenProperties DEF PosterTypeOK
    <3>6. Len(coverageRequestLog) < COVERAGE_DAILY_CAP
      BY <1>1 DEF FlightInv
    <3>7. /\ IsFiniteSet(InDay(p, t)) /\ Cardinality(InDay(p, t)) \in Nat
          /\ Cardinality(AnsweredSince(t)) \in Nat
          /\ Cardinality(InDay(p, t)) <= Cardinality(AnsweredSince(t))
      BY <3>2, PosterFinite, Fewer
    <3>8. /\ IsFiniteSet(InDay(p, t) \cup {n + 1})
          /\ Cardinality(InDay(p, t) \cup {n + 1}) <= Cardinality(InDay(p, t)) + 1
          /\ Cardinality(InDay(p, t) \cup {n + 1}) \in Nat
      BY <3>7, OneMore
    <3>9. /\ Cardinality(InDay(p, t)') <= Cardinality(InDay(p, t) \cup {n + 1})
          /\ Cardinality(InDay(p, t)') \in Nat
      BY <3>1, <3>8, Fewer
    <3>10. QED
      BY <1>5, <3>4, <3>5, <3>6, <3>7, <3>8, <3>9
  <2>3. CASE ~(p = process /\ cycle.since \in t .. t + ONE_DAY_MS)
    <3>1. InDay(p, t)' = InDay(p, t)
      BY <1>2, <1>4, <2>3 DEF InDay
    <3>2. QED
      BY <2>1, <3>1
  <2>4. QED
    BY <2>2, <2>3
<1>11. \A i \in 1 .. Len(landed') : landed'[i].process <= process'
  <2>1. \A i \in 1 .. n : landed[i].process <= process
    BY DEF CapsInv, n
  <2>2. landed'[n + 1].process <= process
    BY <1>2, <1>5
  <2>3. \A i \in 1 .. n + 1 : i \in 1 .. n \/ i = n + 1
    BY <1>2
  <2>4. QED
    BY <1>1, <1>2, <2>1, <2>2, <2>3
<1>12. cycle'.since <= clock'
  BY <1>1 DEF CapsInv
<1>13. \A b \in Invited : Cardinality(Answered(b)') <= invitationCounts'[b]
  BY <1>1, <1>6 DEF CapsInv
<1>14. QED
  BY <1>1, <1>8, <1>9, <1>10, <1>11, <1>12, <1>13 DEF CapsInv

\* An invitation lands: the bounty has invitations left.
LEMMA CapsPostLands ==
  ASSUME PosterTypeOK, FlightInv, CapsInv, PostLands, cycle.kind = "invitation"
  PROVE  CapsInv'
<1> DEFINE n == Len(landed)
           a == cycle.bounty
<1>1. /\ cycle.at = "posting" /\ cycle'.at = "posted" /\ cycle'.since = cycle.since
      /\ cycle'.kind = "invitation"
      /\ UNCHANGED <<clock, process, invitationCounts, coverageRequestLog>>
      /\ Lands(a)
  BY DEF PostLands, PosterTypeOK, CycleState, posterMemory
<1>2. a \in Invited /\ HasInvitationsLeft(a) /\ a # Coverage
  BY <1>1, CoverageIsNoBounty DEF FlightInv
<1>3. PICK b0 \in Invited : b0 = a
  BY <1>2
<1>4. /\ n \in Nat /\ Len(landed') = n + 1
      /\ landed'[n + 1] =
           [about |-> b0, at |-> cycle.since, process |-> process, lost |-> FALSE]
      /\ \A i \in 1 .. n : landed'[i] = landed[i]
  BY <1>1, <1>3, LandedShape
<1>5. InFlight = {} /\ InFlight' = {n + 1} /\ ExpiredBy = clock /\ ExpiredBy' = clock
  BY <1>1, <1>4 DEF InFlight, ExpiredBy
<1>6. /\ \A p, c : Known(p, c)' =
           IF p = process /\ c = b0 THEN Known(p, c) \cup {n + 1} ELSE Known(p, c)
      /\ \A p, c : n + 1 \notin Known(p, c)
      /\ \A p, c : \A i \in Known(p, c) : landed'[i] = landed[i]
  BY <1>1, <1>3, KnownLands
<1>7. clock \in Nat /\ process \in Nat /\ MAX_INVITATIONS_PER_BOUNTY \in Nat
  BY PosterAssumption DEF PosterTypeOK
<1>8. b0 # Coverage /\ HasInvitationsLeft(b0)
  BY <1>2, <1>3
<1> HIDE DEF n, a
<1>9. \A c : Answered(c)' = Answered(c)
  <2>1. TAKE c
  <2>2. PICK p : p = process
    OBVIOUS
  <2>3. Answered(c) = Known(p, c)
    BY <1>5, <2>2 DEF Answered
  <2>4. Answered(c)' = Known(p, c)' \ {n + 1}
    BY <1>1, <1>5, <2>2 DEF Answered
  <2>5. n + 1 \notin Known(p, c)
        /\ (Known(p, c)' = Known(p, c) \cup {n + 1} \/ Known(p, c)' = Known(p, c))
    BY <1>6
  <2>6. Known(p, c)' \ {n + 1} = Known(p, c)
    BY <2>5
  <2>7. QED
    BY <2>3, <2>4, <2>6
<1>10. \A u : AnsweredSince(u)' = AnsweredSince(u)
  <2>1. \A i \in Answered(Coverage) : landed'[i] = landed[i]
    BY <1>6 DEF Answered
  <2>2. QED
    BY <1>9, <2>1 DEF AnsweredSince
<1>11. LogCovers'
  BY <1>1, <1>5, <1>10 DEF CapsInv, LogCovers, LoggedSince
<1>12. \A p, t : InDay(p, t)' = InDay(p, t)
  <2>1. \A p : Known(p, Coverage)' = Known(p, Coverage)
    BY <1>6, <1>8
  <2>2. QED
    BY <1>6, <2>1 DEF InDay
<1>13. ASSUME NEW p \in 0 .. process, NEW b \in Invited
       PROVE  Cardinality(Known(p, b)') <= MAX_INVITATIONS_PER_BOUNTY
  <2>1. CASE p = process /\ b = b0
    <3>1. Known(p, b) = Answered(b)
      BY <1>5, <2>1 DEF Answered
    <3>2. Cardinality(Known(p, b)) <= invitationCounts[b]
      BY <3>1 DEF CapsInv
    <3>3. invitationCounts[b] < MAX_INVITATIONS_PER_BOUNTY /\ invitationCounts[b] \in Nat
      BY <1>7, <1>8, <2>1 DEF HasInvitationsLeft, PosterTypeOK
    <3>4. Known(p, b)' = Known(p, b) \cup {n + 1}
      BY <1>6, <2>1
    <3>5. IsFiniteSet(Known(p, b)) /\ Cardinality(Known(p, b)) \in Nat
      BY PosterFinite
    <3>6. /\ Cardinality(Known(p, b) \cup {n + 1}) <= Cardinality(Known(p, b)) + 1
          /\ Cardinality(Known(p, b) \cup {n + 1}) \in Nat
      BY <3>5, OneMore
    <3>7. QED
      BY <1>7, <3>2, <3>3, <3>4, <3>5, <3>6
  <2>2. CASE ~(p = process /\ b = b0)
    BY <1>6, <2>2 DEF CapsInv, InvitedAtMostTwice
  <2>3. QED
    BY <2>1, <2>2
<1>14. InvitedAtMostTwice'
  BY <1>1, <1>13 DEF InvitedAtMostTwice
<1>15. \A i \in 1 .. Len(landed') : landed'[i].process <= process'
  <2>1. \A i \in 1 .. n : landed[i].process <= process
    BY DEF CapsInv, n
  <2>2. landed'[n + 1].process <= process
    BY <1>4, <1>7
  <2>3. \A i \in 1 .. n + 1 : i \in 1 .. n \/ i = n + 1
    BY <1>4
  <2>4. QED
    BY <1>1, <1>4, <2>1, <2>2, <2>3
<1>16. /\ cycle'.since <= clock'
       /\ \A b \in Invited : Cardinality(Answered(b)') <= invitationCounts'[b]
       /\ \A p \in 0 .. process', t \in Int : Cardinality(InDay(p, t)') <= COVERAGE_DAILY_CAP
  BY <1>1, <1>9, <1>12 DEF CapsInv
<1>17. QED
  BY <1>11, <1>14, <1>15, <1>16 DEF CapsInv

\* What is known of once the answer to the call under way is lost.
LEMMA KnownLoses ==
  ASSUME PosterTypeOK, FlightInv, InFlight # {}, Loses
  PROVE  /\ InFlight = {Len(landed)} /\ Len(landed') = Len(landed)
         /\ \A p, c : Known(p, c)' = Known(p, c) \ {Len(landed)}
         /\ \A i \in 1 .. Len(landed) : /\ landed'[i].at = landed[i].at
                                        /\ landed'[i].process = landed[i].process
<1> DEFINE n == Len(landed)
<1>1. InFlight = {n} /\ n \in Nat /\ n > 0
  BY LandedShape DEF InFlight, FlightInv
<1>2. /\ Len(landed') = n
      /\ \A i \in 1 .. n : i # n => landed'[i] = landed[i]
      /\ landed'[n] = [landed[n] EXCEPT !.lost = TRUE]
      /\ \A i \in 1 .. n : landed[i] \in LandedCall
  BY <1>1, LandedShape
<1>3. DOMAIN landed = 1 .. n /\ DOMAIN landed' = 1 .. n
  <2>1. landed # <<>>
    BY <1>1, EmptySeq
  <2>2. landed \in Seq(LandedCall) /\ landed' \in Seq(LandedCall)
    BY <2>1, LandedTypes DEF PosterTypeOK
  <2>3. QED
    BY <1>2, <2>2, LenProperties
<1> HIDE DEF n
<1>4. n \in 1 .. n /\ landed[n] \in LandedCall
  BY <1>1, <1>2
<1>5. /\ landed'[n].at = landed[n].at /\ landed'[n].process = landed[n].process
      /\ landed'[n].lost = TRUE
  BY <1>2, <1>4 DEF LandedCall
<1>6. ASSUME NEW p, NEW c PROVE Known(p, c)' = Known(p, c) \ {n}
  <2>1. Known(p, c) = {i \in 1 .. n : landed[i].process = p /\ landed[i].about = c
                                        /\ ~landed[i].lost}
    BY <1>3 DEF Known
  <2>2. Known(p, c)' = {i \in 1 .. n : landed'[i].process = p /\ landed'[i].about = c
                                         /\ ~landed'[i].lost}
    BY <1>3 DEF Known
  <2>3. ASSUME NEW i \in 1 .. n, i # n PROVE i \in Known(p, c)' <=> i \in Known(p, c)
    BY <1>2, <2>1, <2>2, <2>3
  <2>4. n \notin Known(p, c)'
    BY <1>5, <2>2
  <2>5. QED
    BY <2>1, <2>2, <2>3, <2>4
<1>7. \A i \in 1 .. n : landed'[i].at = landed[i].at /\ landed'[i].process = landed[i].process
  BY <1>2, <1>5
<1>8. QED
  BY <1>1, <1>2, <1>6, <1>7 DEF n

\* A call that throws after it has landed is no longer under way nor known of.
LEMMA CapsLoses ==
  ASSUME PosterTypeOK, FlightInv, CapsInv, InFlight # {}, Loses,
         UNCHANGED <<clock, process, invitationCounts, coverageRequestLog>>,
         cycle'.at \in {"narrating", "ending"}, cycle'.since = cycle.since
  PROVE  CapsInv'
<1> DEFINE n == Len(landed)
<1>1. /\ InFlight = {n} /\ Len(landed') = n
      /\ \A p, c : Known(p, c)' = Known(p, c) \ {n}
      /\ \A i \in 1 .. n : landed'[i].at = landed[i].at /\ landed'[i].process = landed[i].process
  BY KnownLoses
<1>2. InFlight' = {} /\ ExpiredBy' = clock
  BY DEF InFlight, ExpiredBy
<1>3. ExpiredBy \in Nat /\ clock \in Nat /\ ExpiredBy <= clock /\ ONE_DAY_MS \in Nat
      /\ process \in Nat /\ COVERAGE_DAILY_CAP \in Nat /\ MAX_INVITATIONS_PER_BOUNTY \in Nat
  BY PosterAssumption DEF PosterTypeOK, CapsInv, ExpiredBy, CycleState
<1>4. \A p, c : Known(p, c) \subseteq 1 .. n
  <2>1. DOMAIN landed = 1 .. n
    BY LenProperties DEF PosterTypeOK
  <2>2. QED
    BY <2>1 DEF Known
<1> HIDE DEF n
<1>5. \A c : Answered(c)' = Answered(c)
  <2>1. TAKE c
  <2>2. PICK p : p = process
    OBVIOUS
  <2>3. Answered(c) = Known(p, c) \ {n} /\ Answered(c)' = Known(p, c)'
    BY <1>1, <1>2, <2>2 DEF Answered
  <2>4. QED
    BY <1>1, <2>3
<1>6. \A u : AnsweredSince(u)' = AnsweredSince(u)
  <2>1. \A i \in Answered(Coverage) : landed'[i].at = landed[i].at
    BY <1>1, <1>4 DEF Answered
  <2>2. QED
    BY <1>5, <2>1 DEF AnsweredSince
<1>7. LogCovers'
  <2>1. \A u \in Int : u >= clock - ONE_DAY_MS => u >= ExpiredBy - ONE_DAY_MS
    BY <1>3
  <2>2. QED
    BY <1>2, <1>6, <2>1 DEF CapsInv, LogCovers, LoggedSince
<1>8. ASSUME NEW p \in 0 .. process
      PROVE  /\ \A b \in Invited : Cardinality(Known(p, b)') <= MAX_INVITATIONS_PER_BOUNTY
             /\ \A t \in Int : Cardinality(InDay(p, t)') <= COVERAGE_DAILY_CAP
  <2>1. ASSUME NEW b \in Invited
        PROVE  Cardinality(Known(p, b)') <= MAX_INVITATIONS_PER_BOUNTY
    <3>1. Cardinality(Known(p, b)) <= MAX_INVITATIONS_PER_BOUNTY
      BY DEF CapsInv, InvitedAtMostTwice
    <3>2. Known(p, b)' \subseteq Known(p, b) /\ IsFiniteSet(Known(p, b))
      BY <1>1, PosterFinite
    <3>3. QED
      BY <1>3, <3>1, <3>2, Fewer
  <2>2. ASSUME NEW t \in Int PROVE Cardinality(InDay(p, t)') <= COVERAGE_DAILY_CAP
    <3>1. Cardinality(InDay(p, t)) <= COVERAGE_DAILY_CAP
      BY DEF CapsInv
    <3>2. InDay(p, t)' \subseteq InDay(p, t) /\ IsFiniteSet(InDay(p, t))
      BY <1>1, <1>4, PosterFinite DEF InDay
    <3>3. QED
      BY <1>3, <3>1, <3>2, Fewer
  <2>3. QED
    BY <2>1, <2>2
<1>9. InvitedAtMostTwice'
  BY <1>8 DEF InvitedAtMostTwice
<1>10. /\ cycle'.since <= clock'
       /\ \A i \in 1 .. Len(landed') : landed'[i].process <= process'
       /\ \A b \in Invited : Cardinality(Answered(b)') <= invitationCounts'[b]
       /\ \A p \in 0 .. process', t \in Int : Cardinality(InDay(p, t)') <= COVERAGE_DAILY_CAP
  BY <1>1, <1>5, <1>8 DEF CapsInv, n
<1>11. QED
  BY <1>7, <1>9, <1>10 DEF CapsInv

\* The call under way is known of, by this process, as being about one thing.
LEMMA KnownInFlight ==
  ASSUME PosterTypeOK, FlightInv, InFlight # {}
  PROVE  /\ InFlight = {Len(landed)} /\ Len(landed) \in 1 .. Len(landed)
         /\ landed[Len(landed)].at = cycle.since
         /\ \A c : Len(landed) \in Known(process, c) <=>
                     c = IF cycle.at = "asked" THEN Coverage ELSE cycle.bounty
<1>1. InFlight = {Len(landed)} /\ Len(landed) \in 1 .. Len(landed)
  BY LandedShape DEF InFlight, FlightInv
<1>2. DOMAIN landed = 1 .. Len(landed)
  BY LenProperties DEF PosterTypeOK
<1>3. QED
  BY <1>1, <1>2 DEF Known, FlightInv

\* The answer to a coverage request arrives: it is logged.
LEMMA CapsRequestReturns ==
  ASSUME PosterTypeOK, PosterTypeOK', FlightInv, CapsInv, RequestReturns
  PROVE  CapsInv'
<1> DEFINE n == Len(landed)
           log == coverageRequestLog
           m == Len(coverageRequestLog)
<1>1. /\ cycle.at = "asked" /\ cycle'.at = "narrating" /\ cycle'.since = cycle.since
      /\ UNCHANGED <<clock, process, invitationCounts, landed>>
      /\ coverageRequestLog' = Append(log, cycle.since)
  BY DEF RequestReturns, Goes, PosterTypeOK, CycleState
<1>2. InFlight = {n} /\ InFlight' = {} /\ ExpiredBy = cycle.since /\ ExpiredBy' = clock
  BY <1>1 DEF InFlight, ExpiredBy
<1>3. /\ landed[n].at = cycle.since
      /\ \A c : n \in Known(process, c) <=> c = Coverage
  BY <1>1, <1>2, KnownInFlight
<1>4. cycle.since \in Nat /\ clock \in Nat /\ cycle.since <= clock /\ ONE_DAY_MS \in Nat
  BY PosterAssumption DEF PosterTypeOK, CycleState, CapsInv
<1>5. /\ log \in Seq(Nat) /\ m \in Nat /\ Len(coverageRequestLog') = m + 1
      /\ \A j \in 1 .. m : coverageRequestLog'[j] = log[j]
      /\ coverageRequestLog'[m + 1] = cycle.since
  BY <1>1, <1>4, AppendProperties, LenProperties DEF PosterTypeOK
<1>6. /\ \A p, c : Known(p, c)' = Known(p, c)
      /\ \A p, t : InDay(p, t)' = InDay(p, t)
  BY <1>1 DEF Known, InDay
<1> HIDE DEF n, m, log
<1>7. \A c : Answered(c) = Known(process, c) \ {n} /\ Answered(c)' = Known(process, c)
  BY <1>1, <1>2 DEF Answered, Known
<1>8. ASSUME NEW u \in Int, u >= clock - ONE_DAY_MS
      PROVE  Cardinality(AnsweredSince(u)') <= Cardinality(LoggedSince(u)')
  <2>1. u >= cycle.since - ONE_DAY_MS
    BY <1>4, <1>8
  <2>2. Cardinality(AnsweredSince(u)) <= Cardinality(LoggedSince(u))
    BY <1>2, <2>1 DEF CapsInv, LogCovers
  <2>3. /\ IsFiniteSet(AnsweredSince(u)) /\ Cardinality(AnsweredSince(u)) \in Nat
        /\ IsFiniteSet(LoggedSince(u)) /\ Cardinality(LoggedSince(u)) \in Nat
    BY PosterFinite
  <2>4. CASE cycle.since >= u
    <3>1. AnsweredSince(u)' \subseteq AnsweredSince(u) \cup {n}
      BY <1>1, <1>7 DEF AnsweredSince
    <3>2. LoggedSince(u)' = LoggedSince(u) \cup {m + 1} /\ m + 1 \notin LoggedSince(u)
      <4>1. 1 .. m + 1 = 1 .. m \cup {m + 1} /\ m + 1 \notin 1 .. m
        BY <1>5
      <4>2. LoggedSince(u) = {j \in 1 .. m : log[j] >= u}
        BY DEF LoggedSince, m, log
      <4>3. LoggedSince(u)' = {j \in 1 .. m + 1 : coverageRequestLog'[j] >= u}
        BY <1>5 DEF LoggedSince
      <4>4. QED
        BY <1>5, <2>4, <4>1, <4>2, <4>3
    <3>3. Cardinality(LoggedSince(u) \cup {m + 1}) = Cardinality(LoggedSince(u)) + 1
      BY <2>3, <3>2, OneMore
    <3>4. /\ IsFiniteSet(AnsweredSince(u) \cup {n})
          /\ Cardinality(AnsweredSince(u) \cup {n}) \in Nat
          /\ Cardinality(AnsweredSince(u) \cup {n}) <= Cardinality(AnsweredSince(u)) + 1
      BY <2>3, OneMore
    <3>5. /\ Cardinality(AnsweredSince(u)') \in Nat
          /\ Cardinality(AnsweredSince(u)') <= Cardinality(AnsweredSince(u) \cup {n})
      BY <3>1, <3>4, Fewer
    <3>6. Cardinality(LoggedSince(u)') = Cardinality(LoggedSince(u)) + 1
      BY <3>2, <3>3
    <3>7. QED
      BY <2>2, <2>3, <3>4, <3>5, <3>6
  <2>5. CASE ~(cycle.since >= u)
    <3>1. AnsweredSince(u)' = AnsweredSince(u)
      BY <1>1, <1>3, <1>7, <2>5 DEF AnsweredSince
    <3>2. LoggedSince(u) \subseteq LoggedSince(u)'
      <4>1. 1 .. m \subseteq 1 .. m + 1
        BY <1>5
      <4>2. LoggedSince(u) = {j \in 1 .. m : log[j] >= u}
        BY DEF LoggedSince, m, log
      <4>3. LoggedSince(u)' = {j \in 1 .. m + 1 : coverageRequestLog'[j] >= u}
        BY <1>5 DEF LoggedSince
      <4>4. QED
        BY <1>5, <4>1, <4>2, <4>3
    <3>3. IsFiniteSet(LoggedSince(u)')
      <4>1. coverageRequestLog' \in Seq(Nat)
        BY DEF PosterTypeOK
      <4>2. QED
        BY <4>1, EntriesFinite DEF LoggedSince
    <3>4. /\ Cardinality(LoggedSince(u)) <= Cardinality(LoggedSince(u)')
          /\ Cardinality(LoggedSince(u)') \in Nat
      BY <3>2, <3>3, Fewer
    <3>5. QED
      BY <2>2, <2>3, <3>1, <3>4
  <2>6. QED
    BY <2>4, <2>5
<1>9. LogCovers'
  BY <1>2, <1>8 DEF LogCovers
<1>10. ASSUME NEW b \in Invited PROVE Cardinality(Answered(b)') <= invitationCounts'[b]
  <2>1. Answered(b)' = Answered(b)
    BY <1>3, <1>7, CoverageIsNoBounty
  <2>2. QED
    BY <1>1, <2>1 DEF CapsInv
<1>11. InvitedAtMostTwice'
  BY <1>1, <1>6 DEF CapsInv, InvitedAtMostTwice
<1>12. QED
  BY <1>1, <1>4, <1>6, <1>9, <1>10, <1>11 DEF CapsInv

\* The answer to an invitation arrives: it is counted.
LEMMA CapsPostReturns ==
  ASSUME PosterTypeOK, FlightInv, CapsInv, PostReturns, cycle.kind = "invitation"
  PROVE  CapsInv'
<1> DEFINE n == Len(landed)
<1>1. /\ cycle.at = "posted" /\ cycle'.at = "ending" /\ cycle'.since = cycle.since
      /\ UNCHANGED <<clock, process, coverageRequestLog, landed>>
      /\ invitationCounts' = [invitationCounts EXCEPT ![cycle.bounty] = @ + 1]
  <2>1. Following(cycle.kind) = "ending"
    BY DEF Following
  <2>2. QED
    BY <2>1 DEF PostReturns, Goes, PosterTypeOK, CycleState
<1>2. InFlight = {n} /\ InFlight' = {} /\ ExpiredBy = clock /\ ExpiredBy' = clock
  BY <1>1 DEF InFlight, ExpiredBy
<1>3. cycle.bounty \in Invited
  BY <1>1 DEF FlightInv
<1>4. PICK b0 \in Invited : b0 = cycle.bounty
  BY <1>3
<1>5. \A c : n \in Known(process, c) <=> c = b0
  BY <1>1, <1>2, <1>4, KnownInFlight
<1>6. /\ invitationCounts' = [invitationCounts EXCEPT ![b0] = invitationCounts[b0] + 1]
      /\ \A b \in Invited : invitationCounts[b] \in Nat
      /\ DOMAIN invitationCounts = Invited
  BY <1>1, <1>4, PosterAssumption DEF PosterTypeOK
<1>7. /\ \A p, c : Known(p, c)' = Known(p, c)
      /\ \A p, t : InDay(p, t)' = InDay(p, t)
  BY <1>1 DEF Known, InDay
<1> HIDE DEF n
<1>8. \A c : Answered(c) = Known(process, c) \ {n} /\ Answered(c)' = Known(process, c)
  BY <1>1, <1>2 DEF Answered, Known
<1>9. ASSUME NEW b \in Invited PROVE Cardinality(Answered(b)') <= invitationCounts'[b]
  <2>1. /\ Cardinality(Answered(b)) <= invitationCounts[b]
        /\ IsFiniteSet(Answered(b)) /\ Cardinality(Answered(b)) \in Nat
    BY PosterFinite DEF CapsInv
  <2>2. CASE b = b0
    <3>1. Answered(b)' = Answered(b) \cup {n}
      BY <1>5, <1>8, <2>2
    <3>2. Cardinality(Answered(b) \cup {n}) <= Cardinality(Answered(b)) + 1
          /\ Cardinality(Answered(b) \cup {n}) \in Nat
      BY <2>1, OneMore
    <3>3. invitationCounts'[b] = invitationCounts[b] + 1
      BY <1>6, <2>2
    <3>4. QED
      BY <1>6, <2>1, <3>1, <3>2, <3>3
  <2>3. CASE b # b0
    <3>1. Answered(b)' = Answered(b) /\ invitationCounts'[b] = invitationCounts[b]
      BY <1>5, <1>6, <1>8, <2>3
    <3>2. QED
      BY <2>1, <3>1
  <2>4. QED
    BY <2>2, <2>3
<1>10. LogCovers'
  <2>1. Answered(Coverage)' = Answered(Coverage)
    BY <1>5, <1>8, CoverageIsNoBounty
  <2>2. QED
    BY <1>1, <1>2, <2>1 DEF CapsInv, LogCovers, AnsweredSince, LoggedSince
<1>11. InvitedAtMostTwice'
  BY <1>1, <1>7 DEF CapsInv, InvitedAtMostTwice
<1>12. QED
  BY <1>1, <1>7, <1>9, <1>10, <1>11 DEF CapsInv

\* The process dies: the next one has sent nothing.
LEMMA CapsCrash ==
  ASSUME PosterTypeOK, CapsInv, PosterCrash
  PROVE  CapsInv'
<1>1. /\ process' = process + 1 /\ clock' = clock /\ landed' = landed
      /\ invitationCounts' = [b \in Invited |-> 0] /\ cycle' = Asleep
  BY DEF PosterCrash
<1>2. process \in Nat /\ clock \in Nat /\ COVERAGE_DAILY_CAP \in Nat
      /\ MAX_INVITATIONS_PER_BOUNTY \in Nat
  BY PosterAssumption DEF PosterTypeOK
<1>3. DOMAIN landed = 1 .. Len(landed)
      /\ \A i \in 1 .. Len(landed) : landed[i].process \in Nat
  BY LandedShape, LenProperties DEF PosterTypeOK, LandedCall
<1>4. \A c : Known(process + 1, c) = {}
  <2>1. \A i \in 1 .. Len(landed) : landed[i].process # process + 1
    BY <1>2, <1>3 DEF CapsInv
  <2>2. QED
    BY <1>3, <2>1 DEF Known
<1>5. /\ \A p, c : Known(p, c)' = Known(p, c)
      /\ \A p, t : InDay(p, t)' = InDay(p, t)
  BY <1>1 DEF Known, InDay
<1>6. \A c : Answered(c)' = {}
  BY <1>1, <1>4 DEF Answered, Known
<1>7. \A t : InDay(process + 1, t) = {}
  BY <1>4 DEF InDay
<1>8. Cardinality({}) = 0
  BY FS_EmptySet
<1>9. \A p \in 0 .. process + 1 : p \in 0 .. process \/ p = process + 1
  BY <1>2
<1>10. InvitedAtMostTwice'
  <2>1. ASSUME NEW p \in 0 .. process + 1, NEW b \in Invited
        PROVE  Cardinality(Known(p, b)) <= MAX_INVITATIONS_PER_BOUNTY
    <3>1. CASE p \in 0 .. process
      BY <3>1 DEF CapsInv, InvitedAtMostTwice
    <3>2. CASE p = process + 1
      <4>1. Cardinality(Known(p, b)) = 0
        BY <1>4, <1>8, <3>2
      <4>2. QED
        BY <1>2, <4>1
    <3>3. QED
      BY <1>9, <3>1, <3>2
  <2>2. QED
    BY <1>1, <1>5, <2>1 DEF InvitedAtMostTwice
<1>11. LogCovers'
  <2>1. \A u : AnsweredSince(u)' = {}
    BY <1>6 DEF AnsweredSince
  <2>2. coverageRequestLog' \in Seq(Nat)
    BY EmptySeq DEF PosterCrash
  <2>3. \A u : Cardinality(LoggedSince(u)') \in Nat
    BY <2>2, EntriesFinite DEF LoggedSince
  <2>4. \A u : Cardinality(AnsweredSince(u)') <= Cardinality(LoggedSince(u)')
    BY <1>8, <2>1, <2>3
  <2>5. QED
    BY <2>4 DEF LogCovers
<1>12. \A p \in 0 .. process + 1, t \in Int : Cardinality(InDay(p, t)) <= COVERAGE_DAILY_CAP
  <2>1. TAKE p \in 0 .. process + 1, t \in Int
  <2>2. CASE p \in 0 .. process
    BY <2>2 DEF CapsInv
  <2>3. CASE p = process + 1
    <3>1. Cardinality(InDay(p, t)) = 0
      BY <1>7, <1>8, <2>3
    <3>2. QED
      BY <1>2, <3>1
  <2>4. QED
    BY <1>9, <2>2, <2>3
<1>13. \A b \in Invited : Cardinality(Answered(b)') <= invitationCounts'[b]
  BY <1>1, <1>6, <1>8
<1>14. \A i \in 1 .. Len(landed') : landed'[i].process <= process'
  <2>1. \A i \in 1 .. Len(landed) : landed[i].process <= process
    BY DEF CapsInv
  <2>2. QED
    BY <1>1, <1>2, <1>3, <2>1
<1>15. cycle'.since <= clock'
  BY <1>1, <1>2 DEF Asleep
<1>16. QED
  BY <1>1, <1>5, <1>10, <1>11, <1>12, <1>13, <1>14, <1>15 DEF CapsInv

\* The other steps leave the counts alone, and time passes.
LEMMA CapsQuiet ==
  ASSUME PosterTypeOK, PosterTypeOK', FlightInv, CapsInv,
         \/ TimePasses \/ ListingChanges \/ Begin \/ Narrate \/ DataDriven \/ Invite
         \/ RequestThrows /\ cycle.at = "asking"
         \/ PostLands /\ cycle.kind # "invitation"
         \/ PostReturns /\ cycle.kind # "invitation"
         \/ PostThrows /\ ~(cycle.at = "posted" /\ cycle.kind = "invitation")
         \/ End \/ UNCHANGED posterVars
  PROVE  CapsInv'
<1>1. cycle \in CycleState /\ clock \in Nat /\ cycle.since \in Nat /\ cycle.since <= clock
  BY DEF PosterTypeOK, CycleState, CapsInv
<1>2. UNCHANGED <<landed, process, invitationCounts, coverageRequestLog>>
  BY DEF TimePasses, ListingChanges, Begin, Narrate, DataDriven, Invite, RequestThrows,
         PostLands, PostReturns, PostThrows, End, AtBranch, posterMemory, posterVars
<1>3. /\ clock <= clock' /\ clock' \in Nat
      /\ clock' = clock \/ cycle' = cycle
  BY <1>1 DEF TimePasses, ListingChanges, Begin, Narrate, DataDriven, Invite, RequestThrows,
         PostLands, PostReturns, PostThrows, End, AtBranch, posterMemory, posterVars
<1>4. CASE cycle' = cycle
  <2>1. InFlight' = InFlight /\ ExpiredBy <= ExpiredBy' /\ cycle'.since <= clock'
    BY <1>1, <1>2, <1>3, <1>4 DEF InFlight, ExpiredBy
  <2>2. QED
    BY <1>2, <2>1, CapsStay
<1>5. CASE /\ clock' = clock /\ cycle'.since \in {0, cycle.since}
           /\ cycle'.at \notin {"asking", "asked"}
           /\ ~(cycle'.at = "posted" /\ cycle'.kind = "invitation")
           /\ cycle.at # "asked" /\ ~(cycle.at = "posted" /\ cycle.kind = "invitation")
  <2>1. InFlight' = InFlight /\ cycle'.since <= clock'
    BY <1>1, <1>5 DEF InFlight
  <2>2. ExpiredBy' = clock /\ ExpiredBy <= clock
    BY <1>1, <1>5 DEF ExpiredBy
  <2>3. QED
    BY <1>2, <2>1, <2>2, CapsStay
<1>6. CASE TimePasses \/ ListingChanges \/ UNCHANGED posterVars
  BY <1>4, <1>6 DEF TimePasses, ListingChanges, posterVars
<1>7. CASE Begin
  BY <1>1, <1>5, <1>7 DEF Begin, Goes, CycleState
<1>8. CASE Narrate
  BY <1>1, <1>5, <1>8 DEF Narrate, AtBranch, Posts, Goes, CycleState
<1>9. CASE DataDriven
  BY <1>1, <1>5, <1>9 DEF DataDriven, AtBranch, Posts, Goes, CycleState
<1>10. CASE Invite
  BY <1>1, <1>5, <1>10 DEF Invite, AtBranch, Posts, Goes, CycleState
<1>11. CASE RequestThrows /\ cycle.at = "asking"
  BY <1>1, <1>5, <1>11 DEF RequestThrows, Goes, CycleState
<1>12. CASE PostLands /\ cycle.kind # "invitation"
  BY <1>1, <1>5, <1>12 DEF PostLands, CycleState
<1>13. CASE PostReturns /\ cycle.kind # "invitation"
  <2>1. Following(cycle.kind) \in {"data", "invite", "ending"}
    BY DEF Following
  <2>2. QED
    BY <1>1, <1>5, <1>13, <2>1 DEF PostReturns, Goes, CycleState
<1>14. CASE PostThrows /\ ~(cycle.at = "posted" /\ cycle.kind = "invitation")
  BY <1>1, <1>5, <1>14 DEF PostThrows, CycleState
<1>15. CASE End
  BY <1>1, <1>5, <1>15 DEF End, Asleep
<1>16. QED
  BY <1>6, <1>7, <1>8, <1>9, <1>10, <1>11, <1>12, <1>13, <1>14, <1>15

\* Every step keeps the invariant.
LEMMA PosterStep == PosterInv /\ [PosterNext]_posterVars => PosterInv'
<1>1. SUFFICES ASSUME PosterTypeOK, FlightInv, CapsInv, [PosterNext]_posterVars
               PROVE  PosterInv'
  BY DEF PosterInv
<1>2. PosterTypeOK' /\ FlightInv'
  BY <1>1, PosterTypeStep, FlightStep
<1>3. CapsInv'
  <2>1. CASE CoverageTurn
    BY <1>1, <1>2, <2>1, CapsCoverageTurn
  <2>2. CASE RequestLands
    BY <1>1, <2>2, CapsRequestLands
  <2>3. CASE RequestReturns
    BY <1>1, <1>2, <2>3, CapsRequestReturns
  <2>4. CASE PostLands /\ cycle.kind = "invitation"
    BY <1>1, <2>4, CapsPostLands
  <2>5. CASE PostReturns /\ cycle.kind = "invitation"
    BY <1>1, <2>5, CapsPostReturns
  <2>6. CASE RequestThrows /\ cycle.at # "asking"
    <3>1. /\ InFlight # {} /\ Loses /\ cycle'.at = "narrating" /\ cycle'.since = cycle.since
          /\ UNCHANGED <<clock, process, invitationCounts, coverageRequestLog>>
      BY <1>1, <2>6 DEF RequestThrows, Goes, InFlight, posterMemory, PosterTypeOK, CycleState
    <3>2. QED
      BY <1>1, <3>1, CapsLoses
  <2>7. CASE PostThrows /\ cycle.at = "posted" /\ cycle.kind = "invitation"
    <3>1. /\ InFlight # {} /\ Loses /\ cycle'.at = "ending" /\ cycle'.since = cycle.since
          /\ UNCHANGED <<clock, process, invitationCounts, coverageRequestLog>>
      BY <1>1, <2>7 DEF PostThrows, InFlight, posterMemory, PosterTypeOK, CycleState
    <3>2. QED
      BY <1>1, <3>1, CapsLoses
  <2>8. CASE PosterCrash
    BY <1>1, <2>8, CapsCrash
  <2>9. QED
    BY <1>1, <1>2, <2>1, <2>2, <2>3, <2>4, <2>5, <2>6, <2>7, <2>8, CapsQuiet DEF PosterNext
<1>4. QED
  BY <1>2, <1>3 DEF PosterInv

LEMMA PosterInvariance == PosterSpec => []PosterInv
<1>1. PosterInit => PosterInv
  BY PosterStart, FlightStart, CapsStart DEF PosterInv
<1>2. QED
  BY <1>1, PosterStep, PTL DEF PosterSpec

\* The poster's state has the types of main.ts: the cycle, the counters and the
\* log of requests, which never holds more than the cap.
THEOREM PosterTypesKept == PosterSpec => []PosterTypeOK
<1>1. PosterInv => PosterTypeOK
  BY DEF PosterInv
<1>2. QED
  BY <1>1, PosterInvariance, PTL

\* One process asks for coverage at most COVERAGE_DAILY_CAP times in any day,
\* and posts at most MAX_INVITATIONS_PER_BOUNTY invitations for a bounty, those
\* aside of whose landing it did not learn.
THEOREM CapsAlwaysKept == PosterSpec => []CapsKept
<1>1. PosterInv => CapsKept
  <2>1. SUFFICES ASSUME PosterTypeOK, CapsInv PROVE CapsKept
    BY DEF PosterInv
  <2>2. InvitedAtMostTwice
    BY <2>1 DEF CapsInv
  <2>3. \A t \in 0 .. clock : t \in Int
    OBVIOUS
  <2>4. CoverageCap
    BY <2>1, <2>3 DEF CapsInv, CoverageCap, InDay
  <2>5. QED
    BY <2>2, <2>4 DEF CapsKept
<1>2. QED
  BY <1>1, PosterInvariance, PTL

================================================================================
