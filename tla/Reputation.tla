------------------------------ MODULE Reputation ------------------------------
(***************************************************************************)
(* The reputation ledger: RepState and the two recording methods of        *)
(* RepService (programs/bountymesh-rep/app/src). Anyone may call; get_score *)
(* only reads. One message at a time, so each method is one action.        *)
(*                                                                         *)
(* An entry missing from `recorded` is the value "None"; a missing score   *)
(* is ReputationScore::default(). Rewards and counters keep their width:   *)
(* MaxCount is u32::MAX and MaxAmount u128::MAX, small in the runs.        *)
(***************************************************************************)
EXTENDS Integers, FiniteSets, Collections

CONSTANTS
  Workers,    \* ActorIds named as worker by some caller
  BountyIds,  \* bounty ids named by some caller
  Rewards,    \* rewards named by some caller
  MaxCount,   \* u32::MAX
  MaxAmount   \* u128::MAX

ASSUME RepAssumption ==
  /\ IsFiniteSet(BountyIds)
  /\ MaxCount \in Nat
  /\ MaxAmount \in Nat
  /\ Rewards \subseteq 0 .. MaxAmount

VARIABLES
  recorded,   \* worker -> bounty id -> outcome
  scores,     \* worker -> ReputationScore
  said        \* history: worker -> bounty id -> reward of its completion, or 0

repVars == <<recorded, scores, said>>

RecordKind == {"Completion", "Rejection"}

ReputationScore ==
  [bounties_completed: 0 .. MaxCount, bounties_rejected: 0 .. MaxCount,
   total_earned: 0 .. MaxAmount]

RepInit ==
  /\ recorded = [w \in Workers |-> [id \in BountyIds |-> "None"]]
  /\ scores = [w \in Workers |-> [bounties_completed |-> 0, bounties_rejected |-> 0,
                                  total_earned |-> 0]]
  /\ said = [w \in Workers |-> [id \in BountyIds |-> 0]]

\* Mutation of saturating_add: a plain sum.
plain_add(x, y, max) == x + y

\* uN::saturating_add
saturating_add(x, y, max) == IF x + y > max THEN max ELSE x + y

\* Mutation of AlreadyRecorded: only the same outcome is a duplicate.
AlreadyRecordedAs(worker, id, kind) == recorded[worker][id] = kind

\* The dedupe key is the pair (worker, bounty_id), whatever the outcome.
AlreadyRecorded(worker, id, kind) == recorded[worker][id] # "None"

record_completion(worker, id, reward) ==
  /\ ~AlreadyRecorded(worker, id, "Completion")
  /\ recorded' = [recorded EXCEPT ![worker][id] = "Completion"]
  /\ scores' = [scores EXCEPT
       ![worker].bounties_completed = saturating_add(@, 1, MaxCount),
       ![worker].total_earned = saturating_add(@, reward, MaxAmount)]
  /\ said' = [said EXCEPT ![worker][id] = reward]

record_rejection(worker, id) ==
  /\ ~AlreadyRecorded(worker, id, "Rejection")
  /\ recorded' = [recorded EXCEPT ![worker][id] = "Rejection"]
  /\ scores' = [scores EXCEPT
       ![worker].bounties_rejected = saturating_add(@, 1, MaxCount)]
  /\ UNCHANGED said

\* Err(AlreadyRecorded) leaves no trace.
RecordRefused(worker, id) ==
  /\ \E kind \in RecordKind : AlreadyRecorded(worker, id, kind)
  /\ UNCHANGED repVars

RepNext ==
  \E worker \in Workers, id \in BountyIds :
    \/ \E reward \in Rewards : record_completion(worker, id, reward)
    \/ record_rejection(worker, id)
    \/ RecordRefused(worker, id)

RepSpec == RepInit /\ [][RepNext]_repVars

-------------------------------------------------------------------------------
RepTypeOK ==
  /\ recorded \in [Workers -> [BountyIds -> RecordKind \cup {"None"}]]
  /\ scores \in [Workers -> ReputationScore]
  /\ said \in [Workers -> [BountyIds -> 0 .. MaxAmount]]

Outcomes(worker, kind) == {id \in BountyIds : recorded[worker][id] = kind}

Capped(n, max) == IF n > max THEN max ELSE n

\* A score materialised at write time is what a count over the ledger would
\* say: the worker's recorded completions and rejections, each held at the
\* largest u32.
CountsMatchLedger ==
  \A w \in Workers :
    /\ scores[w].bounties_completed =
         Capped(Cardinality(Outcomes(w, "Completion")), MaxCount)
    /\ scores[w].bounties_rejected =
         Capped(Cardinality(Outcomes(w, "Rejection")), MaxCount)

\* What a worker has earned is the sum of the rewards of its recorded
\* completions, held at the largest u128.
EarningsMatchLedger ==
  \A w \in Workers :
    scores[w].total_earned = Capped(Total(said[w], BountyIds), MaxAmount)

\* Scores and ledger agree, in either order of Completion and Rejection and at
\* the limits of the counters (service.rs:42-49).
ScoresMatchLedger == CountsMatchLedger /\ EarningsMatchLedger

\* Completion XOR Rejection (service.rs:11-13): the first outcome recorded for
\* a (worker, bounty_id) pair stands for ever, with the reward it named, and
\* no score ever falls.
FirstWriterWins ==
  [][\A w \in Workers :
       /\ \A id \in BountyIds : recorded[w][id] # "None" =>
            recorded'[w][id] = recorded[w][id] /\ said'[w][id] = said[w][id]
       /\ scores[w].bounties_completed <= scores'[w].bounties_completed
       /\ scores[w].bounties_rejected <= scores'[w].bounties_rejected
       /\ scores[w].total_earned <= scores'[w].total_earned]_repVars

===============================================================================
