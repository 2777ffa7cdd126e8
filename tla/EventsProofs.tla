----------------------------- MODULE EventsProofs ------------------------------
(***************************************************************************)
(* Proofs about the two readers of the chain's events.                     *)
(*                                                                         *)
(* The shared subscription, for any number of consumers, heads, calls and  *)
(* failures, and blocks of any content. SubsInv adds to the types: who     *)
(* asks or holds is registered and does one of the two; a holder has the   *)
(* subscription open; an empty registry means that nothing is open; and a  *)
(* head's audience still holds. A handler that fetches has passed over     *)
(* nothing its audience asked for.                                         *)
(*                                                                         *)
(* The pairing of a block's events with its calls, for any calls, any      *)
(* filling of blocks and any number of crashes. NodeInv says what a block  *)
(* holds: the calls of a run of the pool and the messages they made, in    *)
(* order. LogInv says that what is stored of a block is what decoding it   *)
(* yields, whichever process did so, and that an ingested block is stored  *)
(* whole.                                                                  *)
(***************************************************************************)
EXTENDS Subscriptions, Ingest, CollectionsProofs

RegistryInv ==
  /\ asking \subseteq subs /\ holding \subseteq subs /\ asking \cap holding = {}
  /\ atNode = IF underlying THEN 1 ELSE 0
  /\ holding # {} => underlying
  /\ subs = {} => opening = "null"

PassedOver(h) ==
  \A i \in 1 .. heads[h].from - 1, c \in heads[h].audience :
    heads[h].events[i] # Subject[c]

Served(h) ==
  \A c \in heads[h].audience, i \in 1 .. Len(heads[h].events) :
    heads[h].events[i] = Subject[c] => <<c, <<h, i>>>> \in heard

HeadsInv ==
  \A h \in 1 .. Len(heads) :
    /\ heads[h].audience \subseteq holding
    /\ heads[h].at = "fetching" => PassedOver(h)
    /\ heads[h].at = "done" => Served(h)

SubsInv == SubsTypeOK /\ RegistryInv /\ HeadsInv

-------------------------------------------------------------------------------
(* The list of heads.                                                         *)

\* One head's record.
LEMMA HeadFields ==
  ASSUME SubsTypeOK, NEW h \in 1 .. Len(heads)
  PROVE  /\ heads[h] \in HeadHandler
         /\ heads[h].events \in Seq(EventNames)
         /\ Len(heads[h].events) \in Nat
         /\ heads[h].from \in Nat \ {0}
         /\ h \in Nat
<1>1. heads[h] \in HeadHandler
  BY ElementOfSeq DEF SubsTypeOK
<1>2. Len(heads) \in Nat
  BY LenProperties DEF SubsTypeOK
<1>3. heads[h].events \in Seq(EventNames) /\ heads[h].from \in Nat \ {0}
  BY <1>1 DEF HeadHandler
<1>4. Len(heads[h].events) \in Nat
  BY <1>3, LenProperties
<1>5. QED
  BY <1>1, <1>2, <1>3, <1>4

\* Replacing one head's record.
LEMMA HeadReplaced ==
  ASSUME SubsTypeOK, NEW h \in 1 .. Len(heads), NEW r \in HeadHandler,
         heads' = [heads EXCEPT ![h] = r]
  PROVE  /\ heads' \in Seq(HeadHandler)
         /\ Len(heads') = Len(heads)
         /\ heads'[h] = r
         /\ \A g \in 1 .. Len(heads) : g # h => heads'[g] = heads[g]
BY ExceptSeq DEF SubsTypeOK

\* A handler's step keeps HeadsInv when the record it leaves does.
LEMMA HeadStep ==
  ASSUME SubsInv, NEW h \in 1 .. Len(heads), NEW r \in HeadHandler,
         heads' = [heads EXCEPT ![h] = r],
         r.events = heads[h].events, r.audience = heads[h].audience,
         holding' = holding, heard \subseteq heard',
         heads'[h].at = "fetching" => PassedOver(h)',
         heads'[h].at = "done" => Served(h)'
  PROVE  HeadsInv'
<1>1. SubsTypeOK /\ HeadsInv
  BY DEF SubsInv
<1>2. /\ Len(heads') = Len(heads) /\ heads'[h] = r
      /\ \A g \in 1 .. Len(heads) : g # h => heads'[g] = heads[g]
  BY <1>1, HeadReplaced
<1>3. SUFFICES ASSUME NEW g \in 1 .. Len(heads')
               PROVE  /\ heads'[g].audience \subseteq holding'
                      /\ heads'[g].at = "fetching" => PassedOver(g)'
                      /\ heads'[g].at = "done" => Served(g)'
  BY DEF HeadsInv
<1>4. CASE g = h
  BY <1>1, <1>2, <1>4 DEF HeadsInv
<1>5. CASE g # h
  <2>1. g \in 1 .. Len(heads) /\ heads'[g] = heads[g]
    BY <1>2, <1>5
  <2>2. QED
    BY <1>1, <2>1 DEF HeadsInv, PassedOver, Served
<1>6. QED
  BY <1>4, <1>5

\* A step that leaves the heads alone and takes no holder away.
LEMMA HeadsKept ==
  ASSUME SubsInv, heads' = heads, heard' = heard, holding \subseteq holding'
  PROVE  HeadsInv'
BY DEF SubsInv, HeadsInv, PassedOver, Served

-------------------------------------------------------------------------------
(* The steps.                                                                 *)

LEMMA InitSubsInv == SubsInit => SubsInv
<1> SUFFICES ASSUME SubsInit PROVE SubsInv
  OBVIOUS
<1>1. SubsTypeOK
  <2>1. <<>> \in Seq(HeadHandler)
    BY EmptySeq
  <2>2. QED
    BY <2>1 DEF SubsInit, SubsTypeOK
<1>2. RegistryInv
  BY DEF SubsInit, RegistryInv
<1>3. HeadsInv
  BY DEF SubsInit, HeadsInv
<1>4. QED
  BY <1>1, <1>2, <1>3 DEF SubsInv

LEMMA OnSubsInv ==
  ASSUME SubsInv, NEW c \in Consumers, On(c)
  PROVE  SubsInv'
<1>1. SubsTypeOK /\ RegistryInv
  BY DEF SubsInv
<1>2. /\ c \notin subs /\ subs' = subs \cup {c} /\ asks' = asks + 1
      /\ UNCHANGED <<underlying, atNode, heads, heard, faults>>
      /\ \/ underlying /\ holding' = holding \cup {c} /\ asking' = asking /\ opening' = opening
         \/ ~underlying /\ asking' = asking \cup {c} /\ holding' = holding
            /\ opening' = IF opening = "null" THEN "pending" ELSE opening
  BY DEF On, subsRest
<1>3. SubsTypeOK'
  BY <1>1, <1>2 DEF SubsTypeOK
<1>4. RegistryInv'
  BY <1>1, <1>2 DEF SubsTypeOK, RegistryInv
<1>5. HeadsInv'
  BY <1>2, HeadsKept
<1>6. QED
  BY <1>3, <1>4, <1>5 DEF SubsInv

LEMMA OpeningSubsInv ==
  ASSUME SubsInv, Opened \/ OpeningFails
  PROVE  SubsInv'
<1>1. SubsTypeOK /\ RegistryInv
  BY DEF SubsInv
<1>2. /\ opening = "pending" /\ heads' = heads /\ heard' = heard
      /\ holding' = holding /\ asking' = asking /\ subs' = subs /\ asks' = asks
      /\ \/ opening' = "resolved" /\ underlying' = TRUE /\ atNode' = atNode + 1
            /\ faults' = faults
         \/ opening' = "rejected" /\ underlying' = underlying /\ atNode' = atNode
            /\ faults' = faults + 1
  BY DEF Opened, OpeningFails, Faulty, subsRest
<1>3. SubsTypeOK'
  <2>1. /\ underlying' \in BOOLEAN
        /\ underlying' <=> opening' = "resolved"
        /\ opening' \in {"resolved", "rejected"}
    <3>1. underlying \in BOOLEAN /\ ~underlying
      BY <1>1, <1>2 DEF SubsTypeOK
    <3>2. CASE opening' = "resolved" /\ underlying' = TRUE
      BY <3>2
    <3>3. CASE opening' = "rejected" /\ underlying' = underlying
      BY <3>1, <3>3
    <3>4. QED
      BY <1>2, <3>2, <3>3
  <2>2. atNode' \in Nat /\ faults' \in Nat
    BY <1>1, <1>2 DEF SubsTypeOK
  <2>3. QED
    BY <1>1, <1>2, <2>1, <2>2 DEF SubsTypeOK
<1>4. RegistryInv'
  BY <1>1, <1>2 DEF SubsTypeOK, RegistryInv
<1>5. HeadsInv'
  BY <1>2, HeadsKept
<1>6. QED
  BY <1>3, <1>4, <1>5 DEF SubsInv

LEMMA OnEndsSubsInv ==
  ASSUME SubsInv, NEW c \in Consumers, OnReturns(c) \/ OnThrows(c)
  PROVE  SubsInv'
<1>1. SubsTypeOK /\ RegistryInv
  BY DEF SubsInv
<1>2. /\ c \in asking /\ asking' = asking \ {c}
      /\ UNCHANGED <<subs, underlying, opening, atNode, asks, heads, heard, faults>>
      /\ \/ opening = "resolved" /\ holding' = holding \cup {c}
         \/ holding' = holding
  BY DEF OnReturns, OnThrows, subsRest
<1>3. SubsTypeOK'
  BY <1>1, <1>2 DEF SubsTypeOK
<1>4. RegistryInv'
  BY <1>1, <1>2 DEF SubsTypeOK, RegistryInv
<1>5. HeadsInv'
  BY <1>2, HeadsKept
<1>6. QED
  BY <1>3, <1>4, <1>5 DEF SubsInv

\* The last consumer closes the subscription, and every audience loses the one
\* who leaves.
LEMMA UnsubscribeSubsInv ==
  ASSUME SubsInv, NEW c \in Consumers, Unsubscribe(c)
  PROVE  SubsInv'
<1> DEFINE without(h) == [heads[h] EXCEPT !.audience = @ \ {c}]
<1>1. SubsTypeOK /\ RegistryInv /\ HeadsInv
  BY DEF SubsInv
<1>2. /\ c \in holding /\ holding' = holding \ {c} /\ subs' = subs \ {c}
      /\ UNCHANGED <<asking, asks, faults, heard>>
      /\ \/ /\ subs \ {c} = {} /\ underlying
            /\ underlying' = FALSE /\ opening' = "null" /\ atNode' = atNode - 1
         \/ /\ ~(subs \ {c} = {} /\ underlying)
            /\ UNCHANGED <<underlying, opening, atNode>>
  BY DEF Unsubscribe, LastOne, Forgotten
<1>3. heads' = [h \in 1 .. Len(heads) |-> without(h)]
  BY DEF Unsubscribe
<1>4. Len(heads) \in Nat
  BY <1>1, LenProperties DEF SubsTypeOK
<1>5. \A h \in 1 .. Len(heads) :
        /\ without(h) \in HeadHandler
        /\ without(h).events = heads[h].events /\ without(h).at = heads[h].at
        /\ without(h).from = heads[h].from
        /\ without(h).audience = heads[h].audience \ {c}
  <2>1. SUFFICES ASSUME NEW h \in 1 .. Len(heads)
                 PROVE  /\ without(h) \in HeadHandler
                        /\ without(h).events = heads[h].events /\ without(h).at = heads[h].at
                        /\ without(h).from = heads[h].from
                        /\ without(h).audience = heads[h].audience \ {c}
    OBVIOUS
  <2>2. heads[h] \in HeadHandler
    BY <1>1, HeadFields
  <2>3. QED
    BY <2>2 DEF HeadHandler
<1>6. /\ heads' \in Seq(HeadHandler) /\ Len(heads') = Len(heads)
      /\ \A h \in 1 .. Len(heads) :
           /\ heads'[h].events = heads[h].events /\ heads'[h].at = heads[h].at
           /\ heads'[h].from = heads[h].from
           /\ heads'[h].audience = heads[h].audience \ {c}
  <2> HIDE DEF without
  <2>1. heads' \in [1 .. Len(heads) -> HeadHandler]
    BY <1>3, <1>5
  <2>2. heads' \in Seq(HeadHandler)
    BY <1>4, <2>1, SeqDef
  <2>3. Len(heads') = Len(heads)
    BY <1>4, <2>1, <2>2, LenProperties
  <2>4. QED
    BY <1>3, <1>5, <2>2, <2>3
<1>7. SubsTypeOK'
  <2>1. atNode' \in Nat
    BY <1>1, <1>2 DEF SubsTypeOK, RegistryInv
  <2>2. /\ underlying' \in BOOLEAN
        /\ underlying' <=> opening' = "resolved"
        /\ opening' \in {"null", "pending", "resolved", "rejected"}
    <3>1. CASE underlying' = FALSE /\ opening' = "null"
      BY <3>1
    <3>2. CASE UNCHANGED <<underlying, opening>>
      BY <1>1, <3>2 DEF SubsTypeOK
    <3>3. QED
      BY <1>2, <3>1, <3>2
  <2>3. QED
    BY <1>1, <1>2, <1>6, <2>1, <2>2 DEF SubsTypeOK
<1>8. RegistryInv'
  BY <1>1, <1>2 DEF SubsTypeOK, RegistryInv
<1>9. HeadsInv'
  <2>1. SUFFICES ASSUME NEW h \in 1 .. Len(heads)
                 PROVE  /\ heads'[h].audience \subseteq holding'
                        /\ heads'[h].at = "fetching" => PassedOver(h)'
                        /\ heads'[h].at = "done" => Served(h)'
    BY <1>6 DEF HeadsInv
  <2>2. QED
    BY <1>1, <1>2, <1>6 DEF HeadsInv, PassedOver, Served
<1>10. QED
  BY <1>7, <1>8, <1>9 DEF SubsInv

LEMMA AnnounceSubsInv ==
  ASSUME SubsInv, NEW content \in Contents, Announce(content)
  PROVE  SubsInv'
<1> DEFINE r == [events |-> content, at |-> "reading", from |-> 1,
                 audience |-> holding, asked |-> {}]
<1>1. SubsTypeOK /\ RegistryInv /\ HeadsInv
  BY DEF SubsInv
<1>2. /\ heads' = Append(heads, r)
      /\ UNCHANGED <<subs, asking, holding, underlying, opening, atNode, asks, faults, heard>>
  BY DEF Announce
<1>3. r \in HeadHandler
  <2>1. content \in Seq(EventNames) /\ holding \in SUBSET Consumers
    BY <1>1, SubsAssumption DEF SubsTypeOK
  <2>2. QED
    BY <2>1 DEF HeadHandler
<1>4. r.at = "reading" /\ r.audience = holding
  OBVIOUS
<1> HIDE DEF r
<1>5. /\ heads' \in Seq(HeadHandler) /\ Len(heads') = Len(heads) + 1
      /\ \A h \in 1 .. Len(heads) : heads'[h] = heads[h]
      /\ heads'[Len(heads) + 1] = r /\ Len(heads) \in Nat
  BY <1>1, <1>2, <1>3, AppendProperties, LenProperties DEF SubsTypeOK
<1>6. SubsTypeOK'
  BY <1>1, <1>2, <1>5 DEF SubsTypeOK
<1>7. RegistryInv'
  BY <1>1, <1>2 DEF RegistryInv
<1>8. HeadsInv'
  <2>1. SUFFICES ASSUME NEW h \in 1 .. Len(heads')
                 PROVE  /\ heads'[h].audience \subseteq holding'
                        /\ heads'[h].at = "fetching" => PassedOver(h)'
                        /\ heads'[h].at = "done" => Served(h)'
    BY DEF HeadsInv
  <2>2. CASE h = Len(heads) + 1
    BY <1>2, <1>4, <1>5, <2>2
  <2>3. CASE h \in 1 .. Len(heads)
    BY <1>1, <1>2, <1>5, <2>3 DEF HeadsInv, PassedOver, Served
  <2>4. QED
    BY <1>5, <2>2, <2>3
<1>9. QED
  BY <1>6, <1>7, <1>8 DEF SubsInv

\* The handler skips what nobody wants, and the audience is somebody.
LEMMA EventsReadSubsInv ==
  ASSUME SubsInv, NEW h \in 1 .. Len(heads), EventsRead(h)
  PROVE  SubsInv'
<1> DEFINE b == heads[h]
<1>1. SubsTypeOK /\ RegistryInv /\ HeadsInv
  BY DEF SubsInv
<1>2. UNCHANGED <<subs, asking, holding, underlying, opening, atNode, asks, faults, heard>>
  BY DEF EventsRead
<1>3. b \in HeadHandler /\ Len(b.events) \in Nat
  BY <1>1, HeadFields
<1>4. \A c \in b.audience : c \in subs
  BY <1>1 DEF HeadsInv, RegistryInv
<1>5. RegistryInv'
  BY <1>1, <1>2 DEF RegistryInv
<1>6. CASE NoneWanted(h) /\ heads' = [heads EXCEPT ![h].at = "done"]
  <2> DEFINE r == [b EXCEPT !.at = "done"]
  <2>1. /\ r \in HeadHandler /\ r.events = b.events /\ r.audience = b.audience
        /\ r.at = "done"
    BY <1>3 DEF HeadHandler
  <2>2. heads' = [heads EXCEPT ![h] = r]
    BY <1>6
  <2>3. heads' \in Seq(HeadHandler) /\ heads'[h] = r
    BY <1>1, <2>1, <2>2, HeadReplaced
  <2>4. Served(h)'
    BY <1>4, <1>6, <2>1, <2>3 DEF Served, NoneWanted, Wanted
  <2> HIDE DEF r
  <2>5. HeadsInv'
    BY <1>2, <2>1, <2>2, <2>3, <2>4, HeadStep
  <2>6. SubsTypeOK'
    BY <1>1, <1>2, <2>3 DEF SubsTypeOK
  <2>7. QED
    BY <1>5, <2>5, <2>6 DEF SubsInv
<1>7. ASSUME NEW i \in FirstWanted(h),
             heads' = [heads EXCEPT ![h] =
                         [@ EXCEPT !.at = "fetching", !.from = i, !.asked = subs]]
      PROVE  SubsInv'
  <2> DEFINE r == [b EXCEPT !.at = "fetching", !.from = i, !.asked = subs]
  <2>1. i \in 1 .. Len(b.events) /\ \A j \in 1 .. i - 1 : ~Wanted(h, j)
    BY DEF FirstWanted
  <2>2. subs \in SUBSET Consumers /\ i \in Nat \ {0}
    BY <1>1, <1>3, <2>1 DEF SubsTypeOK
  <2>3. /\ r \in HeadHandler /\ r.events = b.events /\ r.audience = b.audience
        /\ r.at = "fetching" /\ r.from = i
    BY <1>3, <2>2 DEF HeadHandler
  <2>4. heads' = [heads EXCEPT ![h] = r]
    BY <1>7
  <2>5. heads' \in Seq(HeadHandler) /\ heads'[h] = r
    BY <1>1, <2>3, <2>4, HeadReplaced
  <2> HIDE DEF r
  <2>6. PassedOver(h)'
    BY <1>4, <2>1, <2>3, <2>5 DEF PassedOver, Wanted
  <2>7. HeadsInv'
    BY <1>2, <2>3, <2>4, <2>5, <2>6, HeadStep
  <2>8. SubsTypeOK'
    BY <1>1, <1>2, <2>5 DEF SubsTypeOK
  <2>9. QED
    BY <1>5, <2>7, <2>8 DEF SubsInv
<1>8. QED
  BY <1>6, <1>7 DEF EventsRead

\* What a handler calls are consumers, and it calls nobody who has left.
LEMMA CallsFacts ==
  ASSUME SubsTypeOK, NEW h \in 1 .. Len(heads), NEW upTo \in Nat
  PROVE  /\ Calls(h, upTo) \subseteq subs \X (Nat \X Nat)
         /\ \A i \in heads[h].from .. upTo, c \in subs :
              Subject[c] = heads[h].events[i] => <<c, <<h, i>>>> \in Calls(h, upTo)
<1>1. h \in Nat /\ heads[h].from \in Nat
  BY HeadFields
<1>2. \A i \in heads[h].from .. upTo : i \in Nat
  BY <1>1
<1>3. QED
  BY <1>1, <1>2 DEF Calls, Called

\* A handler that ends has called its audience.
LEMMA HandlerEndsSubsInv ==
  ASSUME SubsInv, NEW h \in 1 .. Len(heads), BlockFetched(h) \/ HandlerThrows(h)
  PROVE  SubsInv'
<1> DEFINE b == heads[h]
<1>1. SubsTypeOK /\ RegistryInv /\ HeadsInv
  BY DEF SubsInv
<1>2. /\ UNCHANGED <<subs, asking, holding, underlying, opening, atNode, asks>>
      /\ faults' \in Nat
  BY <1>1 DEF BlockFetched, HandlerThrows, Faulty, SubsTypeOK
<1>3. b \in HeadHandler /\ Len(b.events) \in Nat /\ b.from \in Nat \ {0} /\ h \in Nat
  BY <1>1, HeadFields
<1>4. RegistryInv'
  BY <1>1, <1>2 DEF RegistryInv
<1>5. subs \subseteq Consumers /\ \A c \in b.audience : c \in subs
  BY <1>1 DEF HeadsInv, RegistryInv, SubsTypeOK
<1>6. CASE BlockFetched(h)
  <2> DEFINE r == [b EXCEPT !.at = "done"]
  <2>1. /\ r \in HeadHandler /\ r.events = b.events /\ r.audience = b.audience
        /\ r.at = "done"
    BY <1>3 DEF HeadHandler
  <2>2. /\ b.at = "fetching" /\ heads' = [heads EXCEPT ![h] = r]
        /\ heard' = heard \cup Calls(h, Len(b.events))
    BY <1>6 DEF BlockFetched
  <2>3. heads' \in Seq(HeadHandler) /\ heads'[h] = r
    BY <1>1, <2>1, <2>2, HeadReplaced
  <2> HIDE DEF r
  <2>4. heard' \subseteq Consumers \X (Nat \X Nat)
    <3>1. Calls(h, Len(b.events)) \subseteq Consumers \X (Nat \X Nat)
      BY <1>1, <1>3, <1>5, CallsFacts
    <3>2. QED
      BY <1>1, <2>2, <3>1 DEF SubsTypeOK
  <2>5. Served(h)'
    <3>1. SUFFICES ASSUME NEW c \in b.audience, NEW i \in 1 .. Len(b.events),
                          b.events[i] = Subject[c]
                   PROVE  <<c, <<h, i>>>> \in heard'
      BY <2>1, <2>3 DEF Served
    <3>2. PassedOver(h)
      BY <1>1, <2>2 DEF HeadsInv
    <3>3. i \in b.from .. Len(b.events)
      BY <1>3, <3>1, <3>2 DEF PassedOver
    <3>4. <<c, <<h, i>>>> \in Calls(h, Len(b.events))
      BY <1>1, <1>3, <1>5, <3>1, <3>3, CallsFacts
    <3>5. QED
      BY <2>2, <3>4
  <2>6. HeadsInv'
    BY <1>2, <2>1, <2>2, <2>3, <2>5, HeadStep
  <2>7. SubsTypeOK'
    BY <1>1, <1>2, <2>3, <2>4 DEF SubsTypeOK
  <2>8. QED
    BY <1>4, <2>6, <2>7 DEF SubsInv
<1>7. CASE HandlerThrows(h)
  <2> DEFINE r == [b EXCEPT !.at = "thrown"]
  <2>1. /\ r \in HeadHandler /\ r.events = b.events /\ r.audience = b.audience
        /\ r.at = "thrown"
    BY <1>3 DEF HeadHandler
  <2>2. heads' = [heads EXCEPT ![h] = r]
    BY <1>7 DEF HandlerThrows
  <2>3. heads' \in Seq(HeadHandler) /\ heads'[h] = r
    BY <1>1, <2>1, <2>2, HeadReplaced
  <2> HIDE DEF r
  <2>4. heard' = heard \/ \E upTo \in Nat : heard' = heard \cup Calls(h, upTo)
    <3>1. \A upTo \in b.from .. Len(b.events) - 1 : upTo \in Nat
      BY <1>3
    <3>2. QED
      BY <1>7, <3>1 DEF HandlerThrows
  <2>5. heard \subseteq heard' /\ heard' \subseteq Consumers \X (Nat \X Nat)
    <3>1. CASE heard' = heard
      BY <1>1, <3>1 DEF SubsTypeOK
    <3>2. ASSUME NEW upTo \in Nat, heard' = heard \cup Calls(h, upTo)
          PROVE  heard \subseteq heard' /\ heard' \subseteq Consumers \X (Nat \X Nat)
      <4>1. Calls(h, upTo) \subseteq Consumers \X (Nat \X Nat)
        BY <1>1, <1>5, CallsFacts
      <4>2. QED
        BY <1>1, <3>2, <4>1 DEF SubsTypeOK
    <3>3. QED
      BY <2>4, <3>1, <3>2
  <2>6. HeadsInv'
    BY <1>2, <2>1, <2>2, <2>3, <2>5, HeadStep
  <2>7. SubsTypeOK'
    BY <1>1, <1>2, <2>3, <2>5 DEF SubsTypeOK
  <2>8. QED
    BY <1>4, <2>6, <2>7 DEF SubsInv
<1>8. QED
  BY <1>6, <1>7

\* Every step preserves SubsInv.
LEMMA NextSubsInv == SubsInv /\ [SubsNext]_subsVars => SubsInv'
<1> SUFFICES ASSUME SubsInv, [SubsNext]_subsVars PROVE SubsInv'
  OBVIOUS
<1>1. CASE UNCHANGED subsVars
  BY <1>1 DEF subsVars, SubsInv, SubsTypeOK, RegistryInv, HeadsInv, PassedOver, Served
<1>2. CASE SubsNext
  BY <1>2, OnSubsInv, OpeningSubsInv, OnEndsSubsInv, UnsubscribeSubsInv, AnnounceSubsInv,
     EventsReadSubsInv, HandlerEndsSubsInv DEF SubsNext
<1>3. QED
  BY <1>1, <1>2

-------------------------------------------------------------------------------
(* The theorems.                                                              *)

\* The inductive invariant holds throughout.
THEOREM SubsInvariance == SubsSpec => []SubsInv
BY InitSubsInv, NextSubsInv, PTL DEF SubsSpec

\* Every variable keeps its type, and the subscription is open exactly when its
\* promise is resolved.
THEOREM SubsTypeCorrectness == SubsSpec => []SubsTypeOK
<1>1. SubsInv => SubsTypeOK
  BY DEF SubsInv
<1>2. QED
  BY <1>1, SubsInvariance, PTL

\* The node serves one subscription while it is in use, and never two.
THEOREM OneForAll == SubsSpec => []UnderlyingFollowsUse
<1>1. SubsInv => UnderlyingFollowsUse
  <2> SUFFICES ASSUME SubsTypeOK, RegistryInv PROVE UnderlyingFollowsUse
    BY DEF SubsInv
  <2>1. CASE underlying
    BY <2>1 DEF SubsTypeOK, RegistryInv, UnderlyingFollowsUse
  <2>2. CASE ~underlying
    BY <2>2 DEF RegistryInv, UnderlyingFollowsUse
  <2>3. QED
    BY <2>1, <2>2
<1>2. QED
  BY <1>1, SubsInvariance, PTL

\* A handler that ends without throwing has skipped nothing for anyone who
\* stayed.
THEOREM NothingSkipped == SubsSpec => []NothingSkippedInBlock
<1>1. SubsInv => NothingSkippedInBlock
  BY DEF SubsInv, HeadsInv, Served, NothingSkippedInBlock
<1>2. QED
  BY <1>1, SubsInvariance, PTL

\* A consumer that has unsubscribed is not called.
THEOREM SilenceKept == SubsSpec => SilentAfterUnsubscribe
<1> DEFINE silent == \A c \in Consumers : c \notin subs =>
                       \A call \in heard' \ heard : call[1] # c
<1>1. SubsInv /\ [SubsNext]_subsVars => [silent]_subsVars
  <2> SUFFICES ASSUME SubsInv, SubsNext PROVE silent
    OBVIOUS
  <2>1. SubsTypeOK
    BY DEF SubsInv
  <2>2. CASE heard' = heard
    BY <2>2
  <2>3. ASSUME NEW h \in 1 .. Len(heads), NEW upTo \in Nat, heard' = heard \cup Calls(h, upTo)
        PROVE  silent
    BY <2>1, <2>3, CallsFacts
  <2>4. ASSUME NEW h \in 1 .. Len(heads), BlockFetched(h) \/ HandlerThrows(h)
        PROVE  silent
    <3>1. Len(heads[h].events) \in Nat /\ heads[h].from \in Nat
      BY <2>1, HeadFields
    <3>2. \A upTo \in heads[h].from .. Len(heads[h].events) - 1 : upTo \in Nat
      BY <3>1
    <3>3. heard' = heard \/ \E upTo \in Nat : heard' = heard \cup Calls(h, upTo)
      BY <2>4, <3>1, <3>2 DEF BlockFetched, HandlerThrows
    <3>4. QED
      BY <2>2, <2>3, <3>3
  <2>5. ASSUME NEW c \in Consumers, On(c) \/ OnReturns(c) \/ OnThrows(c) \/ Unsubscribe(c)
        PROVE  heard' = heard
    BY <2>5 DEF On, OnReturns, OnThrows, Unsubscribe, subsRest
  <2>6. ASSUME NEW content \in Contents, Announce(content)
        PROVE  heard' = heard
    BY <2>6 DEF Announce
  <2>7. ASSUME NEW h \in 1 .. Len(heads), EventsRead(h)
        PROVE  heard' = heard
    BY <2>7 DEF EventsRead
  <2>8. CASE Opened \/ OpeningFails
    BY <2>2, <2>8 DEF Opened, OpeningFails, subsRest
  <2> HIDE DEF silent
  <2>9. QED
    BY <2>2, <2>4, <2>5, <2>6, <2>7, <2>8 DEF SubsNext
<1>2. QED
  BY <1>1, SubsInvariance, PTL DEF SubsSpec, SilentAfterUnsubscribe

\* How many calls the node has run: the queue holds the others, in order.
Ran == Len(calls) - Len(queue)

\* A block names calls there are; its events are of calls that have run and
\* succeeded.
BlockContents == [extrinsics : Seq(1 .. Len(calls)),
                  events : Seq({c \in 1 .. Ran : calls[c].ok})]

NodeInv ==
  /\ calls \in Seq(CallKinds) /\ queue \in Seq(1 .. Len(calls))
  /\ Len(queue) <= Len(calls)
  /\ \A i \in 1 .. Len(queue) : queue[i] = Ran + i
  /\ current \in BlockContents /\ blocks \in Seq(BlockContents)
  /\ \A a, b \in 1 .. Len(blocks) :
       a # b => Range(blocks[a].events) \cap Range(blocks[b].events) = {}
  /\ \A b \in 1 .. Len(blocks) : Range(blocks[b].events) \cap Range(current.events) = {}

\* The row of event e is what decoding block b makes of it.
LoggedFrom(e, b) ==
  \E i \in 1 .. Len(ours(blocks[b])), garbled \in BOOLEAN :
    ours(blocks[b])[i] = e /\ logs[e] = Decoded(blocks[b], i, garbled)

LogInv ==
  /\ ingested \subseteq 1 .. Len(blocks)
  /\ AccountedFor
  /\ \A e \in DOMAIN logs : \E b \in ingested : LoggedFrom(e, b)

IngestInv == NodeInv /\ LogInv

-------------------------------------------------------------------------------
(* What decoding a block yields.                                              *)

LEMMA NodeFacts ==
  ASSUME NodeInv
  PROVE  /\ Len(calls) \in Nat /\ Len(queue) \in Nat /\ Ran \in Nat /\ Ran <= Len(calls)
         /\ Len(blocks) \in Nat
         /\ \A b \in 1 .. Len(blocks) : blocks[b] \in BlockContents
         /\ \A c \in 1 .. Len(calls) : calls[c] \in CallKinds
<1>1. Len(calls) \in Nat /\ Len(queue) \in Nat /\ Len(blocks) \in Nat
  BY LenProperties DEF NodeInv
<1>2. \A b \in 1 .. Len(blocks) : blocks[b] \in BlockContents
  BY ElementOfSeq DEF NodeInv
<1>3. \A c \in 1 .. Len(calls) : calls[c] \in CallKinds
  BY ElementOfSeq DEF NodeInv
<1>4. QED
  BY <1>1, <1>2, <1>3 DEF NodeInv, Ran

\* The events of ours in a block, and the sends to us.
LEMMA OursOfBlock ==
  ASSUME NodeInv, NEW block \in BlockContents
  PROVE  /\ ours(block) \in Seq({c \in ToUs : calls[c].ok}) /\ Len(ours(block)) \in Nat
         /\ Range(ours(block)) = Range(block.events) \cap ToUs
         /\ collectUserSends(block) \in Seq(Range(block.extrinsics) \cap ToUs)
         /\ Len(collectUserSends(block)) \in Nat
<1> DEFINE T == {c \in 1 .. Ran : calls[c].ok}
           evs == block.events
           exs == block.extrinsics
           mine == Kept(evs, ToUs)
           sends == Kept(exs, ToUs)
<1>1. exs \in Seq(1 .. Len(calls)) /\ evs \in Seq(T)
  BY DEF BlockContents
<1>2. T \cap ToUs \subseteq {c \in ToUs : calls[c].ok}
  OBVIOUS
<1>3. ours(block) = mine /\ collectUserSends(block) = sends
  BY DEF ours, collectUserSends
<1> HIDE DEF T, evs, exs
<1>4. /\ mine \in Seq(T \cap ToUs)
      /\ \A i \in 1 .. Len(mine) : \E j \in 1 .. Len(evs) : mine[i] = evs[j]
      /\ \A j \in 1 .. Len(evs) :
           evs[j] \in ToUs => \E i \in 1 .. Len(mine) : mine[i] = evs[j]
  BY <1>1, KeptElements
<1>5. exs \in Seq(Range(exs))
  BY <1>1, SeqRange
<1>6. sends \in Seq(Range(exs) \cap ToUs)
  BY <1>5, KeptElements
<1> HIDE DEF mine, sends
<1>7. mine \in Seq({c \in ToUs : calls[c].ok}) /\ Len(mine) \in Nat /\ Len(sends) \in Nat
  BY <1>2, <1>4, <1>6, SeqMonotonic, LenProperties
<1>8. Range(mine) \subseteq ToUs
  BY <1>4, SeqRange
<1>9. Range(mine) = Range(evs) \cap ToUs
  <2>1. /\ \A i \in 1 .. Len(mine) : mine[i] \in Range(mine)
        /\ \A x \in Range(mine) : \E i \in 1 .. Len(mine) : x = mine[i]
    BY <1>4, SeqRange
  <2>2. /\ \A i \in 1 .. Len(evs) : evs[i] \in Range(evs)
        /\ \A x \in Range(evs) : \E i \in 1 .. Len(evs) : x = evs[i]
    BY <1>1, SeqRange
  <2>3. ASSUME NEW x \in Range(mine) PROVE x \in Range(evs) \cap ToUs
    <3>1. PICK i \in 1 .. Len(mine) : x = mine[i]
      BY <2>1
    <3>2. PICK j \in 1 .. Len(evs) : mine[i] = evs[j]
      BY <1>4
    <3>3. QED
      BY <1>8, <2>2, <3>1, <3>2
  <2>4. ASSUME NEW x \in Range(evs), x \in ToUs PROVE x \in Range(mine)
    <3>1. PICK j \in 1 .. Len(evs) : x = evs[j]
      BY <2>2
    <3>2. PICK i \in 1 .. Len(mine) : mine[i] = evs[j]
      BY <1>4, <2>4, <3>1
    <3>3. QED
      BY <2>1, <3>1, <3>2
  <2>5. QED
    BY <2>3, <2>4
<1>10. QED
  BY <1>3, <1>6, <1>7, <1>9 DEF evs, exs

\* The transaction and the payload an event is given.
LEMMA DecodedOfBlock ==
  ASSUME NodeInv, NEW block \in BlockContents, NEW i \in 1 .. Len(ours(block)),
         NEW garbled \in BOOLEAN
  PROVE  /\ ours(block)[i] \in ToUs /\ calls[ours(block)[i]].ok
         /\ PairedWith(block, i) \in {None} \cup (Range(block.extrinsics) \cap ToUs)
         /\ Decoded(block, i, garbled) \in
              [tx : None .. Len(calls), payload : Garbage .. Len(calls)]
         /\ Decoded(block, i, garbled).payload \in {None, Garbage, Decoded(block, i, garbled).tx}
         /\ Decoded(block, i, garbled).payload # None => calls[ours(block)[i]].name = "Submit"
<1>1. ours(block)[i] \in ToUs /\ calls[ours(block)[i]].ok
  <2>1. ours(block)[i] \in {c \in ToUs : calls[c].ok}
    BY OursOfBlock, ElementOfSeq
  <2>2. QED
    BY <2>1
<1>2. i \in Nat \ {0}
  BY OursOfBlock
<1>3. PairedWith(block, i) \in {None} \cup (Range(block.extrinsics) \cap ToUs)
  <2>1. CASE i <= Len(collectUserSends(block))
    <3>1. i \in 1 .. Len(collectUserSends(block))
      BY <1>2, <2>1, OursOfBlock
    <3>2. collectUserSends(block)[i] \in Range(block.extrinsics) \cap ToUs
      BY <3>1, OursOfBlock, ElementOfSeq
    <3>3. QED
      BY <2>1, <3>2 DEF PairedWith
  <2>2. CASE ~(i <= Len(collectUserSends(block)))
    BY <2>2 DEF PairedWith
  <2>3. QED
    BY <2>1, <2>2
<1>4. PairedWith(block, i) \in None .. Len(calls)
  BY <1>3, NodeFacts DEF ToUs, None
<1>5. /\ decodeSubmitResultPayload(ours(block)[i], PairedWith(block, i), garbled)
           \in {None, Garbage, PairedWith(block, i)}
      /\ decodeSubmitResultPayload(ours(block)[i], PairedWith(block, i), garbled) # None
           => calls[ours(block)[i]].name = "Submit"
  BY DEF decodeSubmitResultPayload
<1>6. {None, Garbage, PairedWith(block, i)} \subseteq Garbage .. Len(calls)
  BY <1>4, NodeFacts DEF None, Garbage
<1>7. QED
  BY <1>1, <1>3, <1>4, <1>5, <1>6 DEF Decoded

\* A call more changes nothing of what the blocks there are decode to.
LEMMA DecodingStays ==
  ASSUME NodeInv, NEW call \in CallKinds, Include(call)
  PROVE  /\ ToUs \subseteq ToUs'
         /\ \A c \in 1 .. Len(calls) : calls'[c] = calls[c] /\ (c \in ToUs' <=> c \in ToUs)
         /\ \A block \in BlockContents :
              /\ ours(block)' = ours(block)
              /\ collectUserSends(block)' = collectUserSends(block)
              /\ \A i \in 1 .. Len(ours(block)), garbled \in BOOLEAN :
                   Decoded(block, i, garbled)' = Decoded(block, i, garbled)
<1>1. /\ calls' = Append(calls, call) /\ Len(calls') = Len(calls) + 1 /\ Len(calls) \in Nat
      /\ \A c \in 1 .. Len(calls) : calls'[c] = calls[c]
  BY AppendProperties, NodeFacts DEF NodeInv, Include
<1>2. \A c \in 1 .. Len(calls) : c \in ToUs' <=> c \in ToUs
  BY <1>1 DEF ToUs
<1>3. ToUs \subseteq ToUs'
  BY <1>2 DEF ToUs
<1>4. \A s : s \in Seq(1 .. Len(calls)) => Kept(s, ToUs') = Kept(s, ToUs)
  BY <1>2, KeptSame, ElementOfSeq, LenProperties
<1>5. ASSUME NEW block \in BlockContents
      PROVE  /\ Kept(block.events, ToUs') = Kept(block.events, ToUs)
             /\ Kept(block.extrinsics, ToUs') = Kept(block.extrinsics, ToUs)
  <2>1. {c \in 1 .. Ran : calls[c].ok} \subseteq 1 .. Len(calls)
    BY NodeFacts
  <2>2. block.extrinsics \in Seq(1 .. Len(calls)) /\ block.events \in Seq(1 .. Len(calls))
    BY <2>1, SeqMonotonic DEF BlockContents
  <2>3. QED
    BY <1>4, <2>2
<1>6. ASSUME NEW block \in BlockContents
      PROVE  ours(block)' = ours(block) /\ collectUserSends(block)' = collectUserSends(block)
  BY <1>5 DEF ours, collectUserSends
<1>7. ASSUME NEW block \in BlockContents, NEW i \in 1 .. Len(ours(block)),
             NEW garbled \in BOOLEAN
      PROVE  Decoded(block, i, garbled)' = Decoded(block, i, garbled)
  <2>1. PairedWith(block, i)' = PairedWith(block, i)
    BY <1>6 DEF PairedWith
  <2>2. /\ ours(block)[i] \in 1 .. Len(calls)
        /\ PairedWith(block, i) = None \/ PairedWith(block, i) \in 1 .. Len(calls)
    BY DecodedOfBlock DEF ToUs
  <2>3. decodeSubmitResultPayload(ours(block)[i], PairedWith(block, i), garbled)'
      = decodeSubmitResultPayload(ours(block)[i], PairedWith(block, i), garbled)
    BY <1>1, <1>6, <2>1, <2>2 DEF decodeSubmitResultPayload
  <2>4. QED
    BY <1>6, <2>1, <2>3 DEF Decoded
<1>8. QED
  BY <1>1, <1>2, <1>3, <1>6, <1>7

-------------------------------------------------------------------------------
(* The node.                                                                  *)

LEMMA NodeInclude ==
  ASSUME NodeInv, NEW call \in CallKinds, Include(call)
  PROVE  NodeInv'
<1> DEFINE n == Len(calls)
           q == Len(queue)
<1>1. n \in Nat /\ q \in Nat /\ q <= n /\ Ran = n - q /\ Ran \in Nat /\ Ran <= n
  BY NodeFacts DEF NodeInv, Ran
<1>2. /\ calls' = Append(calls, call) /\ calls' \in Seq(CallKinds) /\ Len(calls') = n + 1
      /\ \A c \in 1 .. n : calls'[c] = calls[c]
  BY AppendProperties DEF NodeInv, Include
<1>3. /\ queue' \in Seq(1 .. n + 1) /\ Len(queue') = q + 1
      /\ \A i \in 1 .. q : queue'[i] = queue[i]
      /\ queue'[q + 1] = n + 1
  <2>1. queue \in Seq(1 .. n + 1) /\ n + 1 \in 1 .. n + 1
    BY <1>1, SeqMonotonic DEF NodeInv
  <2>2. queue' = Append(queue, n + 1)
    BY <1>2 DEF Include
  <2>3. QED
    BY <2>1, <2>2, AppendProperties
<1>4. Ran' = Ran /\ Len(queue') <= Len(calls')
  BY <1>1, <1>2, <1>3 DEF Ran
<1>5. \A i \in 1 .. Len(queue') : queue'[i] = Ran' + i
  <2>1. \A i \in 1 .. q : queue[i] = Ran + i
    BY DEF NodeInv
  <2> HIDE DEF n, q
  <2>2. QED
    BY <1>1, <1>3, <1>4, <2>1
<1>6. BlockContents \subseteq BlockContents'
  <2>1. {c \in 1 .. Ran : calls[c].ok} = {c \in 1 .. Ran' : calls'[c].ok}
    BY <1>1, <1>2, <1>4
  <2>2. Seq(1 .. n) \subseteq Seq(1 .. n + 1)
    BY <1>1, SeqMonotonic
  <2>3. QED
    BY <1>2, <2>1, <2>2 DEF BlockContents
<1>7. current' \in BlockContents' /\ current'.events = current.events
  <2>1. CASE call.via = "other"
    BY <1>6, <2>1 DEF NodeInv, Include
  <2>2. CASE call.via # "other"
    <3>1. current \in BlockContents' /\ n + 1 \in 1 .. Len(calls')
      BY <1>1, <1>2, <1>6 DEF NodeInv
    <3>2. current' = [current EXCEPT !.extrinsics = Append(@, n + 1)]
      BY <1>2, <2>2 DEF Include
    <3>3. Append(current.extrinsics, n + 1) \in Seq(1 .. Len(calls'))
      BY <3>1, AppendProperties DEF BlockContents
    <3>4. QED
      BY <3>1, <3>2, <3>3 DEF BlockContents
  <2>3. QED
    BY <2>1, <2>2
<1>8. blocks' = blocks /\ blocks' \in Seq(BlockContents')
  BY <1>6, SeqMonotonic DEF NodeInv, Include
<1>9. QED
  BY <1>2, <1>3, <1>4, <1>5, <1>7, <1>8 DEF NodeInv

LEMMA NodeRuns ==
  ASSUME NodeInv, RunQueue
  PROVE  NodeInv'
<1> DEFINE n == Len(calls)
           q == Len(queue)
<1>1. n \in Nat /\ q \in Nat /\ q <= n /\ Ran = n - q /\ Ran \in Nat /\ Ran <= n
  BY NodeFacts DEF NodeInv, Ran
<1>2. calls' = calls /\ blocks' = blocks /\ queue # <<>> /\ queue' = Tail(queue)
  BY DEF RunQueue
<1>3. /\ q > 0 /\ Head(queue) = queue[1] /\ queue' \in Seq(1 .. n) /\ Len(queue') = q - 1
      /\ \A i \in 1 .. q - 1 : queue'[i] = queue[i + 1]
  <2>1. q \in Nat \ {0} /\ Head(queue) = queue[1]
    BY <1>2, EmptySeq DEF NodeInv
  <2>2. QED
    BY <1>2, <2>1, HeadTailProperties DEF NodeInv
<1>4. \A i \in 1 .. q : queue[i] = Ran + i
  BY DEF NodeInv
<1> HIDE DEF n, q
<1>5. Ran' = Ran + 1 /\ Len(queue') <= Len(calls')
  BY <1>1, <1>2, <1>3 DEF Ran, n
<1>6. Head(queue) = Ran + 1 /\ Ran + 1 \in 1 .. n
  BY <1>1, <1>3, <1>4
<1>7. \A i \in 1 .. Len(queue') : queue'[i] = Ran' + i
  <2>1. TAKE i \in 1 .. Len(queue')
  <2>2. i \in 1 .. q - 1 /\ i + 1 \in 1 .. q
    BY <1>1, <1>3, <2>1
  <2>3. QED
    BY <1>1, <1>3, <1>4, <1>5, <2>2
<1>8. BlockContents \subseteq BlockContents'
  <2>1. {c \in 1 .. Ran : calls[c].ok} \subseteq {c \in 1 .. Ran' : calls'[c].ok}
    BY <1>1, <1>2, <1>5
  <2>2. Seq({c \in 1 .. Ran : calls[c].ok}) \subseteq Seq({c \in 1 .. Ran' : calls'[c].ok})
    BY <2>1, SeqMonotonic
  <2>3. QED
    BY <1>2, <2>2 DEF BlockContents
<1>9. blocks' \in Seq(BlockContents')
  BY <1>2, <1>8, SeqMonotonic DEF NodeInv
<1>10. \A b \in 1 .. Len(blocks) : Range(blocks[b].events) \subseteq 1 .. Ran
  <2>1. TAKE b \in 1 .. Len(blocks)
  <2>2. blocks[b].events \in Seq({c \in 1 .. Ran : calls[c].ok})
    BY NodeFacts DEF BlockContents
  <2>3. QED
    BY <2>2, SeqRange
<1>11. /\ current' \in BlockContents'
       /\ Range(current'.events) \subseteq Range(current.events) \cup {Ran + 1}
  <2>1. CASE calls[Head(queue)].ok
    <3>1. /\ current' = [current EXCEPT !.events = Append(@, Ran + 1)]
          /\ current \in BlockContents'
          /\ Ran + 1 \in {c \in 1 .. Ran' : calls'[c].ok}
      <4>1. current' = [current EXCEPT !.events = Append(@, Ran + 1)]
        BY <1>6, <2>1 DEF RunQueue
      <4>2. current \in BlockContents'
        BY <1>8 DEF NodeInv
      <4>3. calls'[Ran + 1].ok
        BY <1>2, <1>6, <2>1
      <4>4. QED
        BY <1>1, <1>5, <4>1, <4>2, <4>3
    <3>2. current.events \in Seq({c \in 1 .. Ran' : calls'[c].ok})
      BY <3>1 DEF BlockContents
    <3>3. /\ Append(current.events, Ran + 1) \in Seq({c \in 1 .. Ran' : calls'[c].ok})
          /\ Range(Append(current.events, Ran + 1)) = Range(current.events) \cup {Ran + 1}
      BY <3>1, <3>2, AppendProperties, AppendRange
    <3>4. QED
      BY <3>1, <3>3 DEF BlockContents
  <2>2. CASE ~calls[Head(queue)].ok
    BY <1>8, <2>2 DEF RunQueue, NodeInv
  <2>3. QED
    BY <2>1, <2>2
<1>12. \A b \in 1 .. Len(blocks) : Range(blocks[b].events) \cap Range(current'.events) = {}
  <2>1. Ran + 1 \notin 1 .. Ran
    BY <1>1
  <2>2. \A b \in 1 .. Len(blocks) : Range(blocks[b].events) \cap Range(current.events) = {}
    BY DEF NodeInv
  <2>3. QED
    BY <1>10, <1>11, <2>1, <2>2
<1>13. QED
  BY <1>2, <1>3, <1>5, <1>7, <1>9, <1>11, <1>12 DEF NodeInv, n

LEMMA NodeSeals ==
  ASSUME NodeInv, Seal
  PROVE  /\ NodeInv'
         /\ Len(blocks') = Len(blocks) + 1
         /\ \A b \in 1 .. Len(blocks) : blocks'[b] = blocks[b]
<1>1. calls' = calls /\ queue' = queue /\ Ran' = Ran /\ BlockContents' = BlockContents
  BY DEF Seal, Ran, BlockContents
<1>2. /\ blocks' \in Seq(BlockContents) /\ Len(blocks') = Len(blocks) + 1
      /\ \A b \in 1 .. Len(blocks) : blocks'[b] = blocks[b]
      /\ blocks'[Len(blocks) + 1] = current
      /\ Len(blocks) \in Nat
  BY AppendProperties, NodeFacts DEF NodeInv, Seal
<1>3. current' \in BlockContents /\ Range(current'.events) = {}
  <2>1. current' = EmptyBlock
    BY DEF Seal
  <2>2. \A S : <<>> \in Seq(S)
    BY EmptySeq
  <2>3. Range(<<>>) = {}
    BY DEF Range
  <2>4. QED
    BY <2>1, <2>2, <2>3 DEF EmptyBlock, BlockContents
<1>4. \A a, b \in 1 .. Len(blocks') :
        a # b => Range(blocks'[a].events) \cap Range(blocks'[b].events) = {}
  <2>1. \A b \in 1 .. Len(blocks') : b \in 1 .. Len(blocks) \/ b = Len(blocks) + 1
    BY <1>2
  <2>2. QED
    BY <1>2, <2>1 DEF NodeInv
<1>5. QED
  BY <1>1, <1>2, <1>3, <1>4 DEF NodeInv

-------------------------------------------------------------------------------
(* The log.                                                                   *)

\* An event of ours is in one block at most.
LEMMA OneBlock ==
  ASSUME NodeInv, NEW a \in 1 .. Len(blocks), NEW b \in 1 .. Len(blocks),
         NEW e, e \in Range(ours(blocks[a])), e \in Range(ours(blocks[b]))
  PROVE  a = b
<1>1. blocks[a] \in BlockContents /\ blocks[b] \in BlockContents
  BY NodeFacts
<1>2. e \in Range(blocks[a].events) /\ e \in Range(blocks[b].events)
  BY <1>1, OursOfBlock
<1>3. QED
  BY <1>2 DEF NodeInv

\* What the node does leaves the log as good as it was.
LEMMA LogStays ==
  ASSUME NodeInv, LogInv, UNCHANGED <<logs, parked, ingested>>,
         Len(blocks') \in Nat, Len(blocks) <= Len(blocks'),
         \A b \in 1 .. Len(blocks) : blocks'[b] = blocks[b],
         \A block \in BlockContents :
           /\ ours(block)' = ours(block)
           /\ \A i \in 1 .. Len(ours(block)), garbled \in BOOLEAN :
                Decoded(block, i, garbled)' = Decoded(block, i, garbled)
  PROVE  LogInv'
<1>1. Len(blocks) \in Nat /\ ingested \subseteq 1 .. Len(blocks)
  BY NodeFacts DEF LogInv
<1>2. ASSUME NEW b \in ingested
      PROVE  /\ ours(blocks[b])' = ours(blocks[b])
             /\ \A e \in DOMAIN logs : LoggedFrom(e, b) => LoggedFrom(e, b)'
  <2>1. b \in 1 .. Len(blocks)
    BY <1>1
  <2>2. PICK block \in BlockContents : block = blocks[b]
    BY <2>1, NodeFacts
  <2>3. blocks'[b] = block
    BY <2>1, <2>2
  <2>4. ours(blocks[b])' = ours(blocks[b])
    <3>1. ours(blocks[b])' = ours(block)'
      BY <2>3 DEF ours
    <3>2. QED
      BY <2>2, <3>1
  <2>5. ASSUME NEW e \in DOMAIN logs, LoggedFrom(e, b) PROVE LoggedFrom(e, b)'
    <3>1. PICK i \in 1 .. Len(ours(block)), garbled \in BOOLEAN :
            ours(block)[i] = e /\ logs[e] = Decoded(block, i, garbled)
      BY <2>2, <2>5 DEF LoggedFrom
    <3>2. Decoded(blocks[b], i, garbled)' = Decoded(block, i, garbled)'
      BY <2>3 DEF Decoded, PairedWith, collectUserSends, ours
    <3>3. Decoded(block, i, garbled)' = Decoded(block, i, garbled)
      OBVIOUS
    <3>4. ours(blocks[b])' = ours(block)
      BY <2>2, <2>4
    <3>5. QED
      BY <3>1, <3>2, <3>3, <3>4 DEF LoggedFrom
  <2>6. QED
    BY <2>4, <2>5
<1>3. ingested' \subseteq 1 .. Len(blocks')
  BY <1>1
<1>4. AccountedFor'
  <2>1. {Range(ours(blocks[b])') : b \in ingested}
      = {Range(ours(blocks[b])) : b \in ingested}
    BY <1>2
  <2>2. QED
    BY <2>1 DEF LogInv, AccountedFor
<1>5. \A e \in DOMAIN logs' : \E b \in ingested' : LoggedFrom(e, b)'
  BY <1>2 DEF LogInv
<1>6. QED
  BY <1>3, <1>4, <1>5 DEF LogInv

\* Ingesting a block accounts for all of its events, whichever of them throw,
\* and leaves the rows that are there as they are.
LEMMA LogIngests ==
  ASSUME NodeInv, LogInv, NEW b \in 1 .. Len(blocks), IngestBlock(b)
  PROVE  LogInv'
<1> DEFINE events == ours(blocks[b])
           kept(bad) == {i \in 1 .. Len(events) : i \notin bad}
           fresh(bad, garbled) ==
             [e \in {events[i] : i \in kept(bad)} |->
                Decoded(blocks[b], CHOOSE i \in kept(bad) : events[i] = e, garbled)]
<1>1. PICK garbled \in BOOLEAN, bad \in SUBSET (1 .. Len(events)) :
        /\ logs' = [e \in DOMAIN logs \cup DOMAIN fresh(bad, garbled) |->
                      IF e \in DOMAIN logs THEN logs[e] ELSE fresh(bad, garbled)[e]]
        /\ parked' = parked \cup {events[i] : i \in bad}
  BY DEF IngestBlock, Savepoint
<1>2. /\ ingested' = ingested \cup {b}
      /\ calls' = calls /\ queue' = queue /\ current' = current /\ blocks' = blocks
  BY DEF IngestBlock, ingestNode
<1>3. Len(blocks) \in Nat /\ ingested \subseteq 1 .. Len(blocks)
  BY NodeFacts DEF LogInv
<1>4. /\ ingested' \subseteq 1 .. Len(blocks') /\ b \in ingested'
      /\ ingested' = ingested \cup {b}
  BY <1>2, <1>3
<1> DEFINE New == {events[i] : i \in kept(bad)}
<1>5. DOMAIN logs' = DOMAIN logs \cup New
  BY <1>1
<1>6. New \cup {events[i] : i \in bad} = Range(events)
  <2>1. blocks[b] \in BlockContents
    BY NodeFacts
  <2>2. events \in Seq({c \in ToUs : calls[c].ok})
    BY <2>1, OursOfBlock
  <2>3. Range(events) = {events[i] : i \in 1 .. Len(events)}
    BY <2>2, RangeEquality
  <2> HIDE DEF events
  <2>4. 1 .. Len(events) = kept(bad) \cup bad
    OBVIOUS
  <2>5. QED
    BY <2>3, <2>4
<1>7. /\ \A a : ours(blocks[a])' = ours(blocks[a])
      /\ \A a, i, g : Decoded(blocks[a], i, g)' = Decoded(blocks[a], i, g)
  BY <1>2 DEF Decoded, decodeSubmitResultPayload, PairedWith, collectUserSends, ours, ToUs
<1>8. AccountedFor'
  <2>1. UNION {Range(ours(blocks[a])) : a \in ingested'}
      = (UNION {Range(ours(blocks[a])) : a \in ingested}) \cup Range(events)
    BY <1>4
  <2>2. UNION {Range(ours(blocks[a])) : a \in ingested} = DOMAIN logs \cup parked
    BY DEF LogInv, AccountedFor
  <2>3. {Range(ours(blocks[a])') : a \in ingested'}
      = {Range(ours(blocks[a])) : a \in ingested'}
    BY <1>7
  <2>4. DOMAIN logs' \cup parked' = DOMAIN logs \cup parked \cup Range(events)
    BY <1>1, <1>5, <1>6
  <2> HIDE DEF events
  <2>5. QED
    BY <2>1, <2>2, <2>3, <2>4 DEF AccountedFor
<1>9. ASSUME NEW e \in DOMAIN logs' PROVE \E a \in ingested' : LoggedFrom(e, a)'
  <2>1. CASE e \in DOMAIN logs
    <3>1. PICK a \in ingested : LoggedFrom(e, a)
      BY <2>1 DEF LogInv
    <3>2. logs'[e] = logs[e]
      BY <1>1, <2>1
    <3>3. LoggedFrom(e, a)'
      <4>1. PICK i \in 1 .. Len(ours(blocks[a])), g \in BOOLEAN :
              ours(blocks[a])[i] = e /\ logs[e] = Decoded(blocks[a], i, g)
        BY <3>1 DEF LoggedFrom
      <4>2. /\ ours(blocks[a])' = ours(blocks[a])
            /\ Decoded(blocks[a], i, g)' = Decoded(blocks[a], i, g)
        BY <1>7
      <4>3. QED
        BY <3>2, <4>1, <4>2 DEF LoggedFrom
    <3>4. QED
      BY <1>4, <3>1, <3>3
  <2>2. CASE e \notin DOMAIN logs
    <3>1. e \in New
      BY <1>5, <2>2
    <3>2. PICK i \in 1 .. Len(events) : i = CHOOSE j \in kept(bad) : events[j] = e
      BY <3>1
    <3>3. events[i] = e /\ logs'[e] = Decoded(blocks[b], i, garbled)
      BY <1>1, <2>2, <3>1, <3>2
    <3>4. LoggedFrom(e, b)'
      <4>1. /\ ours(blocks[b])' = events
            /\ Decoded(blocks[b], i, garbled)' = Decoded(blocks[b], i, garbled)
        BY <1>7
      <4> HIDE DEF events
      <4>2. QED
        BY <3>2, <3>3, <4>1 DEF LoggedFrom
    <3>5. QED
      BY <1>4, <3>4
  <2>3. QED
    BY <2>1, <2>2
<1>10. QED
  BY <1>4, <1>8, <1>9 DEF LogInv

-------------------------------------------------------------------------------
(* The theorems.                                                              *)

LEMMA IngestStart == IngestInit => IngestInv
<1>1. SUFFICES ASSUME IngestInit PROVE IngestInv
  OBVIOUS
<1>2. \A S : <<>> \in Seq(S) /\ Len(<<>>) = 0
  BY EmptySeq
<1>3. NodeInv
  <2>1. current \in BlockContents
    BY <1>1, <1>2 DEF IngestInit, EmptyBlock, BlockContents
  <2>2. QED
    BY <1>1, <1>2, <2>1 DEF IngestInit, NodeInv
<1>4. LogInv
  <2>1. DOMAIN logs = {} /\ parked = {} /\ ingested = {}
    BY <1>1 DEF IngestInit
  <2>2. ingested \subseteq 1 .. Len(blocks)
    BY <1>1, <1>2 DEF IngestInit
  <2>3. QED
    BY <2>1, <2>2 DEF LogInv, AccountedFor
<1>5. QED
  BY <1>3, <1>4 DEF IngestInv

LEMMA IngestStep == IngestInv /\ [IngestNext]_ingestVars => IngestInv'
<1>1. SUFFICES ASSUME NodeInv, LogInv, [IngestNext]_ingestVars PROVE NodeInv' /\ LogInv'
  BY DEF IngestInv
<1>2. Len(blocks) \in Nat
  BY NodeFacts
<1>3. CASE \E call \in CallKinds : Include(call)
  <2>1. PICK call \in CallKinds : Include(call)
    BY <1>3
  <2>2. NodeInv'
    BY <1>1, <2>1, NodeInclude
  <2>3. UNCHANGED <<blocks, logs, parked, ingested>>
    BY <2>1 DEF Include
  <2>4. \A block \in BlockContents :
          /\ ours(block)' = ours(block)
          /\ \A i \in 1 .. Len(ours(block)), garbled \in BOOLEAN :
               Decoded(block, i, garbled)' = Decoded(block, i, garbled)
    BY <1>1, <2>1, DecodingStays
  <2>5. LogInv'
    BY <1>1, <1>2, <2>3, <2>4, LogStays
  <2>6. QED
    BY <2>2, <2>5
<1>4. ASSUME calls' = calls
      PROVE  \A block \in BlockContents :
               /\ ours(block)' = ours(block)
               /\ \A i \in 1 .. Len(ours(block)), garbled \in BOOLEAN :
                    Decoded(block, i, garbled)' = Decoded(block, i, garbled)
  BY <1>4 DEF ours, ToUs, Decoded, decodeSubmitResultPayload, PairedWith, collectUserSends
<1>5. CASE RunQueue
  <2>1. NodeInv'
    BY <1>1, <1>5, NodeRuns
  <2>2. UNCHANGED <<calls, blocks, logs, parked, ingested>>
    BY <1>5 DEF RunQueue
  <2>3. LogInv'
    BY <1>1, <1>2, <1>4, <2>2, LogStays
  <2>4. QED
    BY <2>1, <2>3
<1>6. CASE Seal
  <2>1. /\ NodeInv' /\ Len(blocks') = Len(blocks) + 1
        /\ \A b \in 1 .. Len(blocks) : blocks'[b] = blocks[b]
    BY <1>1, <1>6, NodeSeals
  <2>2. UNCHANGED <<calls, logs, parked, ingested>>
    BY <1>6 DEF Seal
  <2>3. Len(blocks') \in Nat /\ Len(blocks) <= Len(blocks')
    BY <1>2, <2>1
  <2>4. LogInv'
    BY <1>1, <1>4, <2>1, <2>2, <2>3, LogStays
  <2>5. QED
    BY <2>1, <2>4
<1>7. CASE \E b \in 1 .. Len(blocks) : IngestBlock(b)
  <2>1. PICK b \in 1 .. Len(blocks) : IngestBlock(b)
    BY <1>7
  <2>2. UNCHANGED ingestNode
    BY <2>1 DEF IngestBlock
  <2>3. NodeInv'
    BY <1>1, <2>2 DEF NodeInv, ingestNode, Ran, BlockContents
  <2>4. QED
    BY <1>1, <2>1, <2>3, LogIngests
<1>8. CASE UNCHANGED ingestVars
  <2>1. NodeInv'
    BY <1>1, <1>8 DEF ingestVars, NodeInv, Ran, BlockContents
  <2>2. UNCHANGED <<calls, blocks, logs, parked, ingested>>
    BY <1>8 DEF ingestVars
  <2>3. QED
    BY <1>1, <1>2, <1>4, <2>1, <2>2, LogStays
<1>9. QED
  BY <1>1, <1>3, <1>5, <1>6, <1>7, <1>8 DEF IngestNext

LEMMA IngestInvariance == IngestSpec => []IngestInv
BY IngestStart, IngestStep, PTL DEF IngestSpec

\* What the invariant says of a row: the block it is of is the only one that
\* holds its event.
LEMMA RowOfBlock ==
  ASSUME NodeInv, LogInv, NEW b \in ingested,
         NEW e \in Range(ours(blocks[b])), e \in DOMAIN logs
  PROVE  blocks[b] \in BlockContents /\ LoggedFrom(e, b)
<1>1. PICK a \in ingested : LoggedFrom(e, a)
  BY DEF LogInv
<1>2. a \in 1 .. Len(blocks) /\ b \in 1 .. Len(blocks)
  BY NodeFacts DEF LogInv
<1>3. blocks[a] \in BlockContents /\ blocks[b] \in BlockContents
  BY <1>2, NodeFacts
<1>4. e \in Range(ours(blocks[a]))
  BY <1>1, <1>3, OursOfBlock, SeqRange DEF LoggedFrom
<1>5. a = b
  BY <1>2, <1>4, OneBlock
<1>6. QED
  BY <1>1, <1>3, <1>5

\* Every row and every parse error is of a call to our program that has
\* succeeded, and what a row says lies in its range.
THEOREM IngestTypesKept == IngestSpec => []IngestTypeOK
<1>1. IngestInv => IngestTypeOK
  <2>1. SUFFICES ASSUME NodeInv, LogInv PROVE IngestTypeOK
    BY DEF IngestInv
  <2>2. Len(blocks) \in Nat /\ ingested \subseteq 1 .. Len(blocks)
    BY <2>1, NodeFacts DEF LogInv
  <2>3. \A b \in ingested : b \in 1 .. Len(blocks) /\ blocks[b] \in BlockContents
    BY <2>1, <2>2, NodeFacts
  <2>4. ASSUME NEW b \in ingested
        PROVE  Range(ours(blocks[b])) \subseteq {c \in ToUs : calls[c].ok}
    BY <2>1, <2>3, OursOfBlock, SeqRange
  <2>5. parked \cup DOMAIN logs \subseteq {c \in ToUs : calls[c].ok}
    BY <2>1, <2>4 DEF LogInv, AccountedFor
  <2>6. ASSUME NEW e \in DOMAIN logs
        PROVE  logs[e] \in [tx : None .. Len(calls), payload : Garbage .. Len(calls)]
    <3>1. PICK b \in ingested : LoggedFrom(e, b)
      BY <2>1 DEF LogInv
    <3>2. QED
      BY <2>1, <2>3, <3>1, DecodedOfBlock DEF LoggedFrom
  <2>7. QED
    BY <2>1, <2>2, <2>5, <2>6 DEF IngestTypeOK, NodeInv
<1>2. QED
  BY <1>1, IngestInvariance, PTL

\* Whichever events throw, whatever is ingested twice and in whatever order the
\* walkers come: the log and the parse errors hold exactly the events of our
\* program in the blocks that were ingested.
THEOREM EveryEventAccountedFor == IngestSpec => []AccountedFor
<1>1. IngestInv => AccountedFor
  BY DEF IngestInv, LogInv
<1>2. QED
  BY <1>1, IngestInvariance, PTL

\* A block whose sends are exactly its events is paired without error; in any
\* other a row's transaction is at least one of its own block, and its payload
\* that transaction's.
THEOREM AttributionIsSound == IngestSpec => []AttributionSound
<1>1. IngestInv => PairingExact
  <2>1. SUFFICES ASSUME NodeInv, LogInv, NEW b \in ingested, Direct(blocks[b]),
                        NEW e \in Range(ours(blocks[b])), e \in DOMAIN logs
                 PROVE  logs[e] = [tx |-> e,
                                   payload |-> IF calls[e].name = "Submit" THEN e ELSE None]
    BY DEF IngestInv, PairingExact
  <2>2. blocks[b] \in BlockContents /\ LoggedFrom(e, b)
    BY <2>1, RowOfBlock
  <2>3. PICK i \in 1 .. Len(ours(blocks[b])), garbled \in BOOLEAN :
          ours(blocks[b])[i] = e /\ logs[e] = Decoded(blocks[b], i, garbled)
    BY <2>2 DEF LoggedFrom
  <2>4. collectUserSends(blocks[b]) = ours(blocks[b])
    BY <2>1 DEF Direct, collectUserSends
  <2>5. i <= Len(ours(blocks[b]))
    BY <2>1, <2>2, <2>3, OursOfBlock
  <2>6. PairedWith(blocks[b], i) = e
    BY <2>3, <2>4, <2>5 DEF PairedWith
  <2>7. e \in ToUs /\ e # None
    <3>1. e \in ToUs
      BY <2>1, <2>2, <2>3, DecodedOfBlock
    <3>2. QED
      BY <3>1, NodeFacts, <2>1 DEF ToUs, None
  <2>8. QED
    BY <2>3, <2>6, <2>7 DEF Decoded, decodeSubmitResultPayload
<1>2. IngestInv => AttributionStaysInBlock
  <2>1. SUFFICES ASSUME NodeInv, LogInv, NEW b \in ingested,
                        NEW e \in Range(ours(blocks[b])), e \in DOMAIN logs
                 PROVE  /\ logs[e].tx # None =>
                             logs[e].tx \in Range(blocks[b].extrinsics) \cap ToUs
                        /\ logs[e].payload \in {None, Garbage, logs[e].tx}
                        /\ logs[e].payload # None => calls[e].name = "Submit"
    BY DEF IngestInv, AttributionStaysInBlock
  <2>2. blocks[b] \in BlockContents /\ LoggedFrom(e, b)
    BY <2>1, RowOfBlock
  <2>3. PICK i \in 1 .. Len(ours(blocks[b])), garbled \in BOOLEAN :
          ours(blocks[b])[i] = e /\ logs[e] = Decoded(blocks[b], i, garbled)
    BY <2>2 DEF LoggedFrom
  <2>4. logs[e].tx = PairedWith(blocks[b], i)
    BY <2>3 DEF Decoded
  <2>5. /\ PairedWith(blocks[b], i) \in {None} \cup (Range(blocks[b].extrinsics) \cap ToUs)
        /\ logs[e].payload \in {None, Garbage, logs[e].tx}
        /\ logs[e].payload # None => calls[e].name = "Submit"
    BY <2>1, <2>2, <2>3, DecodedOfBlock
  <2>6. QED
    BY <2>4, <2>5
<1>3. QED
  BY <1>1, <1>2, IngestInvariance, PTL DEF AttributionSound

================================================================================
