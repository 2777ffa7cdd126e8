------------------------------ MODULE Orchestrator ------------------------------
(***************************************************************************)
(* How the worker comes by a deliverable (services/orchestrator, called    *)
(* from services/worker/src/fsm/main.ts): classify the bounty, route it to *)
(* one query of some application, run the query with a limit of time, and  *)
(* ask Groq when there is no route or the query comes to nothing.          *)
(*                                                                         *)
(* A bounty is what the two functions tell apart in its text: the score of *)
(* every topic, whether it is research, names an entity, holds an id. An   *)
(* entry of the registry keeps which placeholders its arguments need.      *)
(***************************************************************************)
EXTENDS Integers, Sequences, FiniteSets, SequencesExt, FiniteSetsExt, Collections

CONSTANTS
  TopicNames,       \* the keys of TOPIC_KEYWORDS, in their order
  Entries,          \* CapabilityEntry: program, callType, auth, cost, needs
  TOPIC_OVERRIDES,  \* topic -> sequence of entries
  CAPABILITY_INDEX, \* topic -> sequence of entries
  BountyTexts,      \* score, research, structured, id
  MAX_TOPICS,
  Fallback,         \* the synthetic topic
  Null

VARIABLES
  bounty,      \* the bounty in hand, or Null
  chosen,      \* the entry route returned, or Null
  step,        \* the await the cycle is at
  sailsCache   \* program -> what its promise has come to

orchVars == <<bounty, chosen, step, sailsCache>>
Programs == {e.program : e \in Entries}
Topics == ToSet(TopicNames)

\* TopicNames are the keys of one object; Null is the code's null. Every list of
\* overrides.ts has an entry that needs nothing of the text.
ASSUME OrchAssumption ==
  /\ TopicNames \in Seq(Topics) /\ IsInjective(TopicNames)
  /\ MAX_TOPICS \in Nat \ {0}
  /\ Null \notin Entries /\ Null \notin BountyTexts
  /\ \A e \in Entries :
       /\ e.cost \in {"free", "gas-only", "voucher", "escrow"}
       /\ e.needs \subseteq {"handle", "id"}
  /\ \A t \in Topics \cup {Fallback} :
       /\ TOPIC_OVERRIDES[t] \in Seq(Entries) /\ CAPABILITY_INDEX[t] \in Seq(Entries)
       /\ TOPIC_OVERRIDES[t] # <<>> =>
            \E i \in DOMAIN TOPIC_OVERRIDES[t] :
              /\ TOPIC_OVERRIDES[t][i].callType = "query" /\ TOPIC_OVERRIDES[t][i].auth = "none"
              /\ TOPIC_OVERRIDES[t][i].cost \in {"free", "gas-only"}
              /\ TOPIC_OVERRIDES[t][i].needs = {}
  /\ \A text \in BountyTexts : \A t \in Topics : text.score[t] \in Int

OrchInit ==
  /\ bounty = Null
  /\ chosen = Null
  /\ step = "idle"
  /\ sailsCache = [p \in Programs |-> "absent"]

-------------------------------------------------------------------------------
(* classifier.ts and router.ts.                                             *)

Place(topic) == CHOOSE k \in DOMAIN TopicNames : TopicNames[k] = topic

\* The order that a stable sort by score gives the entries of the table.
Ahead(text) ==
  {p \in Topics \X Topics :
     \/ text.score[p[1]] > text.score[p[2]]
     \/ text.score[p[1]] = text.score[p[2]] /\ Place(p[1]) < Place(p[2])}

\* The topics that score, best first.
classify(text) ==
  LET ranked == Sorted({t \in Topics : text.score[t] > 0}, Ahead(text))
  IN IF ranked = <<>> THEN <<Fallback>>
     ELSE SubSeq(ranked, 1, Min({MAX_TOPICS, Len(ranked)}))

isResearchClassContent(text) == text.research /\ ~text.structured

resolveEntryArgs(entry, text) ==
  "handle" \notin entry.needs /\ ("id" \in entry.needs => text.id)

entryIsRoutable(entry) ==
  entry.callType = "query" /\ entry.auth = "none" /\ entry.cost \in {"free", "gas-only"}

FirstOf(list, found) == IF found = {} THEN Null ELSE list[Min(found)]

\* The first entry of a list that can be asked at one of these costs.
FirstRoutable(list, text, costs) ==
  FirstOf(list, {i \in DOMAIN list : /\ entryIsRoutable(list[i]) /\ list[i].cost \in costs
                                     /\ resolveEntryArgs(list[i], text)})

Or(entry, other) == IF entry = Null THEN other ELSE entry

\* Mutation of Found: a free entry of the index goes before a curated one.
FoundIndexFirst(topic, text) ==
  Or(FirstRoutable(CAPABILITY_INDEX[topic], text, {"free"}),
     FirstRoutable(TOPIC_OVERRIDES[topic], text, {"free", "gas-only"}))

\* What ends the loop of route at a topic.
Found(topic, text) ==
  Or(FirstRoutable(TOPIC_OVERRIDES[topic], text, {"free", "gas-only"}),
     FirstRoutable(CAPABILITY_INDEX[topic], text, {"free"}))

\* What the loop keeps in fallback.
FoundForGas(topic, text) == FirstRoutable(CAPABILITY_INDEX[topic], text, {"gas-only"})

route(topics, text) ==
  IF isResearchClassContent(text) THEN Null
  ELSE LET found == [i \in DOMAIN topics |-> Found(topics[i], text)]
           fallback == [i \in DOMAIN topics |-> FoundForGas(topics[i], text)]
       IN Or(FirstOf(found, {i \in DOMAIN topics : found[i] # Null}),
             FirstOf(fallback, {i \in DOMAIN topics : fallback[i] # Null}))

-------------------------------------------------------------------------------
(* caller.ts and the cycle of the worker.                                   *)

Takes(text) ==
  /\ step = "idle"
  /\ bounty' = text
  /\ chosen' = route(classify(text), text)
  /\ step' = IF chosen' = Null THEN "groq" ELSE "routed"
  /\ UNCHANGED sailsCache

GoesTo(from, to) == step = from /\ step' = to /\ UNCHANGED <<bounty, chosen>>
Promise == sailsCache[chosen.program]
Settles(outcome) == sailsCache' = [sailsCache EXCEPT ![chosen.program] = outcome]

\* getSailsForProgram: the promise is in the cache before it settles.
GetsSails ==
  /\ GoesTo("routed", "loading")
  /\ IF Promise = "absent" THEN Settles("pending") ELSE UNCHANGED sailsCache

Loaded ==
  /\ GoesTo("loading", "querying")
  /\ Promise \in {"pending", "parsed"}
  /\ Settles("parsed")

\* promise.catch drops it before the await of executeRoute throws.
LeftInCache == "absent"

\* The IDL is not found or does not parse.
LoadFails ==
  /\ GoesTo("loading", "groq")
  /\ Promise = "pending"
  /\ Settles(LeftInCache)

\* The query answers, and the envelope names its program.
QueryAnswers == GoesTo("querying", "submitting") /\ UNCHANGED sailsCache

\* The IDL has no such query, the answer cannot be decoded, the node refuses.
QueryFails == GoesTo("querying", "groq") /\ UNCHANGED sailsCache

\* Mutation of QueryTimesOut: the query has no limit of time.
QueryTimesOutNever == FALSE /\ UNCHANGED orchVars

\* withTimeout: an answer that comes later finds nobody waiting.
QueryTimesOut == GoesTo("querying", "groq") /\ UNCHANGED sailsCache

\* groqFallback: a text, or an error delivered in its place; AbortSignal.timeout
\* makes one of an answer that does not come.
GroqEnds == GoesTo("groq", "submitting") /\ UNCHANGED sailsCache

\* doSubmit, which awaits the node without a limit of time; the rest of the
\* cycle is module Worker's.
Submits ==
  /\ step = "submitting"
  /\ step' = "idle" /\ bounty' = Null /\ chosen' = Null
  /\ UNCHANGED sailsCache

\* What the process does by itself, whatever the others do.
OwnStep == GetsSails \/ Loaded \/ LoadFails \/ QueryTimesOut \/ GroqEnds

OrchNext ==
  \/ \E text \in BountyTexts : Takes(text)
  \/ OwnStep
  \/ QueryAnswers \/ QueryFails
  \/ Submits

OrchSpec == OrchInit /\ [][OrchNext]_orchVars

-------------------------------------------------------------------------------
OrchTypeOK ==
  /\ bounty \in BountyTexts \cup {Null}
  /\ chosen \in {e \in Entries : e.callType = "query"} \cup {Null}
  /\ step \in {"idle", "routed", "loading", "querying", "groq", "submitting"}
  /\ sailsCache \in [Programs -> {"absent", "pending", "parsed", "rejected"}]
  /\ step \in {"routed", "loading", "querying"} => chosen # Null

\* How well a topic fits a text, without regard to how classify sorts.
Fits(s, t, text) ==
  \/ text.score[s] > text.score[t]
  \/ /\ text.score[s] = text.score[t]
     /\ \E i, j \in DOMAIN TopicNames : i < j /\ TopicNames[i] = s /\ TopicNames[j] = t

Relevant(text) ==
  LET scoring == {t \in Topics : text.score[t] > 0}
  IN IF scoring = {} THEN {Fallback}
     ELSE {t \in scoring : Cardinality({s \in scoring : Fits(s, t, text)}) < MAX_TOPICS}

Table(topic, curated) ==
  IF curated THEN TOPIC_OVERRIDES[topic] ELSE CAPABILITY_INDEX[topic]

Offered(o) == Table(o.topic, o.curated)[o.at]

\* Costs no voucher and no escrow, wants no authority and no data the text lacks.
Admissible(entry, text) ==
  /\ entry.callType = "query" /\ entry.auth = "none"
  /\ entry.cost \notin {"voucher", "escrow"}
  /\ entry.needs \subseteq (IF text.id THEN {"id"} ELSE {})

\* Where an admissible entry stands in the tables of the relevant topics.
Offers(text) ==
  {o \in UNION {[topic : {t}, curated : {c}, at : DOMAIN Table(t, c)] :
                  t \in Relevant(text), c \in BOOLEAN} :
     Admissible(Offered(o), text)}

Costless(o) == Offered(o).cost = "free"

\* Offer p goes before offer o in what the sources say and nowhere deny. What
\* costs gas goes before nothing that is free (router.ts:9), and then
\*   - free entries go before those of the index that cost gas (router.ts:9-10),
\*   - a better topic before a worse one (router.ts:3-4), except that an entry of
\*     the index that costs gas does not go before a curated one (router.ts:283),
\*   - within a topic the curated entries before the others (overrides.ts:7),
\*   - within a list the earlier before the later (router.ts:273-274, 283).
Better(p, o, text) ==
  /\ Costless(p) \/ ~Costless(o)
  /\ \/ Costless(p) /\ ~Costless(o) /\ ~o.curated
     \/ /\ p.topic # o.topic /\ Fits(p.topic, o.topic, text)
        /\ Costless(p) \/ p.curated \/ ~o.curated
     \/ p.topic = o.topic /\ p.curated /\ ~o.curated
     \/ p.topic = o.topic /\ p.curated = o.curated /\ p.at < o.at

\* The cycle asks somebody exactly if there is an offer and the bounty is not
\* open-ended prose; it passes over no better offer, and asks an entry of the
\* index only for a topic without override (overrides.ts:7-8).
NoBetterOffer ==
  step # "idle" =>
    LET offers == IF bounty.research /\ ~bounty.structured THEN {} ELSE Offers(bounty)
    IN IF offers = {} THEN chosen = Null
       ELSE \E o \in offers :
              /\ chosen = Offered(o)
              /\ ~o.curated => TOPIC_OVERRIDES[o.topic] = <<>>
              /\ \A p \in offers : ~Better(p, o, bounty)

\* For a bounty taken, a deliverable is ready for submission whether or not the
\* node and Groq ever answer the routed query and the fallback.
DeliverableIsReady == step \notin {"idle", "submitting"} ~> step = "submitting"

================================================================================
