-------------------------------- MODULE MCParts --------------------------------
(* The parts that share nothing with one another, one at a time: an initial   *)
(* state picks the part, and the variables of the others never change.        *)
(*                                                                            *)
(* Reputation: MaxCount and MaxAmount are so small that every counter can     *)
(* saturate. Feeds: basis points scaled down to a denominator of 4. Chat: the *)
(* chat-poster's mentions of bountymesh-rep are "ours".                       *)
EXTENDS Reputation, Feeds, ChatResponder, ChatPoster, Subscriptions, Ingest,
        Orchestrator, TLC

CONSTANTS w1, w2, b1, b2, c1, c2, TaskPosted, TaskSubmitted, p1, p2, price, stats, tasks

MCWorkers == {w1, w2}
MCBounties == {b1, b2}
MCRewards == 0 .. 2
MCMultipliers == {1, 2, 5, 8, 11}
MCBases == {0, 1, 3, 10}
MCKinds == {<<"peer", 1>>, <<"peer", 2>>, <<"ours", 1>>}
MCSubject == c1 :> TaskPosted @@ c2 :> TaskSubmitted
MCContents == {<<TaskPosted, TaskSubmitted>>, <<TaskSubmitted, TaskPosted>>}
MCCallKinds ==
  {[via |-> "send", name |-> "Submit", ok |-> TRUE],
   [via |-> "send", name |-> "Submit", ok |-> FALSE],
   [via |-> "send", name |-> "Other", ok |-> TRUE],
   [via |-> "other", name |-> "Submit", ok |-> TRUE],
   [via |-> "foreign", name |-> "Other", ok |-> TRUE]}

\* The registry of the orchestrator: every kind of entry it must pass over or
\* choose between, curated ones for one topic.
Entry(p, callType, auth, cost, needs) ==
  [program |-> p, callType |-> callType, auth |-> auth, cost |-> cost, needs |-> needs]
ById == Entry(p1, "query", "none", "gas-only", {"id"})
Listing == Entry(p1, "query", "none", "gas-only", {})
Free == Entry(p2, "query", "none", "free", {})
Signed == Entry(p2, "function", "none", "free", {})
Walled == Entry(p2, "query", "Wallet", "free", {})
Vouched == Entry(p1, "query", "none", "voucher", {})
OfHandle == Entry(p1, "query", "none", "free", {"handle"})
Config == Entry(p1, "query", "none", "free", {})
MCEntries == {ById, Listing, Free, Signed, Walled, Vouched, OfHandle, Config}
MCTopicNames == <<price, stats, tasks>>
MCOverrides ==
  [t \in {price, stats, tasks, Fallback} |-> IF t = tasks THEN <<ById, Config>> ELSE <<>>]
MCIndex ==
  price :> <<Signed, Vouched, Listing>> @@ stats :> <<OfHandle, Walled, Listing, Free>>
  @@ tasks :> <<OfHandle, Free>> @@ Fallback :> <<Signed, Listing>>
MCBountyTexts ==
  [score : [{price, stats, tasks} -> 0 .. 2],
   research : BOOLEAN, structured : BOOLEAN, id : BOOLEAN]

VARIABLE part

notRep == <<feedsVars, respVars, posterVars, subsVars, ingestVars, orchVars, part>>
notFeeds == <<repVars, respVars, posterVars, subsVars, ingestVars, orchVars, part>>
notResp == <<repVars, feedsVars, posterVars, subsVars, ingestVars, orchVars, part>>
notPoster == <<repVars, feedsVars, respVars, subsVars, ingestVars, orchVars, part>>
notSubs == <<repVars, feedsVars, respVars, posterVars, ingestVars, orchVars, part>>
notIngest == <<repVars, feedsVars, respVars, posterVars, subsVars, orchVars, part>>
notOrch == <<repVars, feedsVars, respVars, posterVars, subsVars, ingestVars, part>>
partsVars == <<repVars, notRep>>

MCInit ==
  /\ part \in {"reputation", "feeds", "responder", "poster", "subscriptions", "ingest",
              "orchestrator"}
  /\ RepInit /\ FeedsInit /\ RespInit /\ PosterInit /\ SubsInit /\ IngestInit /\ OrchInit
  /\ part # "poster" => aanTvSails

MCNext ==
  \/ part = "reputation" /\ RepNext /\ UNCHANGED notRep
  \/ part = "feeds" /\ FeedsNext /\ UNCHANGED notFeeds
  \/ part = "responder" /\ RespNext /\ UNCHANGED notResp
  \/ part = "poster" /\ PosterNext /\ UNCHANGED notPoster
  \/ part = "subscriptions" /\ SubsNext /\ UNCHANGED notSubs
  \/ part = "ingest" /\ IngestNext /\ UNCHANGED notIngest
  \/ part = "orchestrator" /\ OrchNext /\ UNCHANGED notOrch

\* The responder goes on polling and finishing its polls; the orchestrator does
\* what it does by itself.
MCSpec ==
  /\ MCInit /\ [][MCNext]_partsVars
  /\ WF_partsVars(part = "responder" /\ RespStep /\ UNCHANGED notResp)
  /\ WF_partsVars(part = "orchestrator" /\ OwnStep /\ UNCHANGED notOrch)

\* Every part keeps its types: among them the widths of the counters of the
\* contracts, the cap on the invitations a process counts for a bounty, and
\* that only queries are ever routed to.
PartsTypeOK ==
  /\ RepTypeOK /\ FeedsTypeOK /\ RespTypeOK /\ PosterTypeOK
  /\ SubsTypeOK /\ IngestTypeOK /\ OrchTypeOK
================================================================================
