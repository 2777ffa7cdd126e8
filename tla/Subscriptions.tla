----------------------------- MODULE Subscriptions -----------------------------
(***************************************************************************)
(* SubscriptionManager (packages/sdk/src/events.ts): many consumers share  *)
(* one subscription to the heads of the chain. It is opened by the first   *)
(* on() and closed by the last unsubscribe; for every head a handler of    *)
(* its own reads the block and calls the consumers. Handlers overlap.      *)
(*                                                                         *)
(* A consumer is one entry of the registry and asks for one event name     *)
(* (Subject); asking again after a failure is another consumer. A block    *)
(* is the sequence of the names of its events. What an event says, and     *)
(* filters on it, are left out: a filter only narrows a consumer's events. *)
(***************************************************************************)
EXTENDS Integers, Sequences, FiniteSets

CONSTANTS
  Consumers,
  EventNames,
  Subject,      \* consumer -> the event name it asks for
  Contents,     \* sequences of event names that a block may hold
  MaxHeads,     \* bound: heads announced
  MaxAsks,      \* bound: calls of on()
  MaxFaults     \* bound: failing openings and reads

ASSUME SubsAssumption ==
  /\ Subject \in [Consumers -> EventNames]
  /\ Contents \subseteq Seq(EventNames)
  /\ {MaxHeads, MaxAsks, MaxFaults} \subseteq Nat

VARIABLES
  subs,        \* consumers with an entry in `subs`
  asking,      \* consumers whose on() awaits `opening`
  holding,     \* consumers whose on() has returned an unsubscribe
  underlying,  \* underlyingUnsub is set
  opening,     \* the promise: "null", "pending", "resolved", "rejected"
  atNode,      \* head subscriptions the node serves
  heads,       \* handlers: one record per announced head
  asks,
  faults,
  heard        \* history: <<consumer, head, index>> of every callback

subsVars == <<subs, asking, holding, underlying, opening, atNode, heads, asks, faults, heard>>
subsRest == <<heads, heard, faults>>

SubsInit ==
  /\ subs = {} /\ asking = {} /\ holding = {}
  /\ underlying = FALSE
  /\ opening = "null"
  /\ atNode = 0
  /\ heads = <<>>
  /\ asks = 0 /\ faults = 0
  /\ heard = {}

Faulty == faults < MaxFaults /\ faults' = faults + 1

-------------------------------------------------------------------------------
(* on() and unsubscribe.                                                    *)

\* on(): the entry is registered first, whatever becomes of the opening.
On(c) ==
  /\ asks < MaxAsks
  /\ c \notin subs
  /\ asks' = asks + 1
  /\ subs' = subs \cup {c}
  /\ IF underlying
     THEN holding' = holding \cup {c} /\ UNCHANGED <<asking, opening>>
     ELSE /\ asking' = asking \cup {c}
          /\ opening' = IF opening = "null" THEN "pending" ELSE opening
          /\ UNCHANGED holding
  /\ UNCHANGED <<underlying, atNode, subsRest>>

\* openUnderlying: subscribeNewHeads answers.
Opened ==
  /\ opening = "pending"
  /\ opening' = "resolved"
  /\ underlying' = TRUE
  /\ atNode' = atNode + 1
  /\ UNCHANGED <<subs, asking, holding, asks, subsRest>>

OpeningFails ==
  /\ opening = "pending"
  /\ Faulty
  /\ opening' = "rejected"
  /\ UNCHANGED <<subs, asking, holding, underlying, atNode, heads, asks, heard>>

\* `await this.opening` goes on.
OnReturns(c) ==
  /\ c \in asking
  /\ opening = "resolved"
  /\ asking' = asking \ {c}
  /\ holding' = holding \cup {c}
  /\ UNCHANGED <<subs, underlying, opening, atNode, asks, subsRest>>

\* on() throws: its caller has no unsubscribe, and the entry stays.
OnThrows(c) ==
  /\ c \in asking
  /\ opening = "rejected"
  /\ asking' = asking \ {c}
  /\ UNCHANGED <<subs, holding, underlying, opening, atNode, asks, subsRest>>

\* Mutation of Forgotten: the promise of the first opening is kept.
ForgottenNot == UNCHANGED opening

\* `this.opening = null` of the last unsubscribe.
Forgotten == opening' = "null"

LastOne(c) == subs \ {c} = {}

\* A consumer that unsubscribes is in no handler's audience any more.
Unsubscribe(c) ==
  /\ c \in holding
  /\ holding' = holding \ {c}
  /\ subs' = subs \ {c}
  /\ IF LastOne(c) /\ underlying
     THEN underlying' = FALSE /\ Forgotten /\ atNode' = atNode - 1
     ELSE UNCHANGED <<underlying, opening, atNode>>
  /\ heads' = [h \in 1 .. Len(heads) |-> [heads[h] EXCEPT !.audience = @ \ {c}]]
  /\ UNCHANGED <<asking, asks, faults, heard>>

-------------------------------------------------------------------------------
(* The handler of a head. `at` is "reading" while it awaits api.at and       *)
(* system.events, "fetching" while it awaits getBlock before event `from`;   *)
(* `audience` is who holds a subscription since before the head came.        *)

\* The node announces a head, of a fork as well.
Announce(content) ==
  /\ atNode > 0
  /\ Len(heads) < MaxHeads
  /\ heads' = Append(heads, [events |-> content, at |-> "reading", from |-> 1,
                             audience |-> holding, asked |-> {}])
  /\ UNCHANGED <<subs, asking, holding, underlying, opening, atNode, asks, faults, heard>>

Wanted(h, i) == \E c \in subs : Subject[c] = heads[h].events[i]

\* Mutation of NoneWanted: an event nobody asked for ends the handler.
NoneWantedAtFirst(h) == ~Wanted(h, 1)

NoneWanted(h) == \A i \in 1 .. Len(heads[h].events) : ~Wanted(h, i)

\* The first event with a subscriber: those before it are skipped.
FirstWanted(h) ==
  {i \in 1 .. Len(heads[h].events) : Wanted(h, i) /\ \A j \in 1 .. i - 1 : ~Wanted(h, j)}

\* system.events is there: the loop runs to the first event someone wants, and
\* there it awaits getBlock.
EventsRead(h) ==
  /\ heads[h].at = "reading"
  /\ \/ NoneWanted(h) /\ heads' = [heads EXCEPT ![h].at = "done"]
     \/ \E i \in FirstWanted(h) :
          heads' = [heads EXCEPT ![h] =
                      [@ EXCEPT !.at = "fetching", !.from = i, !.asked = subs]]
  /\ UNCHANGED <<subs, asking, holding, underlying, opening, atNode, asks, faults, heard>>

\* Mutation of Called: those who were subscribed before the await.
CalledBefore(h, i) == {c \in heads[h].asked : Subject[c] = heads[h].events[i]}

\* dispatch: the subscribers of the moment.
Called(h, i) == {c \in subs : Subject[c] = heads[h].events[i]}

Calls(h, upTo) == UNION {Called(h, i) \X {<<h, i>>} : i \in heads[h].from .. upTo}

\* The block is there and is kept, so that the rest of the loop does not wait.
BlockFetched(h) ==
  /\ heads[h].at = "fetching"
  /\ heard' = heard \cup Calls(h, Len(heads[h].events))
  /\ heads' = [heads EXCEPT ![h].at = "done"]
  /\ UNCHANGED <<subs, asking, holding, underlying, opening, atNode, asks, faults>>

\* A read throws, or the payload of an event does not decode: what was
\* dispatched stays, the rest of the block is dropped.
HandlerThrows(h) ==
  /\ Faulty
  /\ \/ heads[h].at \in {"reading", "fetching"} /\ UNCHANGED heard
     \/ /\ heads[h].at = "fetching"
        /\ \E upTo \in heads[h].from .. Len(heads[h].events) - 1 :
             heard' = heard \cup Calls(h, upTo)
  /\ heads' = [heads EXCEPT ![h].at = "thrown"]
  /\ UNCHANGED <<subs, asking, holding, underlying, opening, atNode, asks>>

SubsNext ==
  \/ \E c \in Consumers : On(c) \/ OnReturns(c) \/ OnThrows(c) \/ Unsubscribe(c)
  \/ Opened
  \/ OpeningFails
  \/ \E content \in Contents : Announce(content)
  \/ \E h \in 1 .. Len(heads) : EventsRead(h) \/ BlockFetched(h) \/ HandlerThrows(h)

SubsSpec == SubsInit /\ [][SubsNext]_subsVars

-------------------------------------------------------------------------------
HeadHandler == [events : Seq(EventNames), at : {"reading", "fetching", "done", "thrown"},
         from : Nat \ {0}, audience : SUBSET Consumers, asked : SUBSET Consumers]

SubsTypeOK ==
  /\ subs \subseteq Consumers /\ asking \subseteq Consumers /\ holding \subseteq Consumers
  /\ underlying \in BOOLEAN
  /\ opening \in {"null", "pending", "resolved", "rejected"}
  /\ underlying <=> opening = "resolved"
  /\ atNode \in Nat
  /\ heads \in Seq(HeadHandler)
  /\ asks \in Nat /\ faults \in Nat
  /\ heard \subseteq Consumers \X (Nat \X Nat)

\* The node serves one subscription as long as someone holds an unsubscribe, and
\* never two; none once the last consumer has left ("a client that never
\* subscribed pays zero WS overhead"); through any interleaving of opening,
\* failing, closing and opening again. Whoever holds an unsubscribe is registered.
UnderlyingFollowsUse ==
  /\ holding # {} => holding \subseteq subs /\ underlying /\ atNode = 1
  /\ atNode <= 1
  /\ subs = {} => atNode = 0 /\ opening = "null"

\* A handler that ends without throwing has called everyone who was subscribed
\* all along, for every event of the block with the name it asked for,
\* whatever other names nobody asked for are among them.
NothingSkippedInBlock ==
  \A h \in 1 .. Len(heads) : heads[h].at = "done" =>
    \A c \in heads[h].audience, i \in 1 .. Len(heads[h].events) :
      heads[h].events[i] = Subject[c] => <<c, <<h, i>>>> \in heard

\* No callback after unsubscribe() has returned, although the handler may have
\* looked at the subscribers before it awaited the block.
SilentAfterUnsubscribe ==
  [][\A c \in Consumers : c \notin subs =>
       \A call \in heard' \ heard : call[1] # c]_subsVars

================================================================================
