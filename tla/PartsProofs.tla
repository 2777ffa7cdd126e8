------------------------------- MODULE PartsProofs ------------------------------
(***************************************************************************)
(* Proofs about the two ledgers beside the market, the reputation of the   *)
(* workers and the demand telegraph, for any callers and any width of the  *)
(* counters; about the orchestrator's choice, for any tables; and about    *)
(* the seven parts explored together.                                      *)
(*                                                                         *)
(* Reputation: types and counts are inductive together, since a recording  *)
(* turns exactly one "None" into an outcome. The earnings need besides     *)
(* that a reward is only on record with a completion, so that recording    *)
(* one adds it to the sum. Feeds: a track's counter does not wrap before   *)
(* the total is at its limit, because it is never ahead of the total.      *)
(* Orchestrator: classify lists the relevant topics in their order         *)
(* (Ranked), each list of a topic yields the offer that leads its kind     *)
(* (Leading), and the first topic that yields one yields the best.         *)
(* Parts: a step of one is a step of its own specification and leaves the  *)
(* others alone.                                                           *)
(***************************************************************************)
EXTENDS MCParts, ChatProofs, EventsProofs

CountsInv == RepTypeOK /\ CountsMatchLedger

\* The ids with one outcome are finitely many.
LEMMA OutcomesFinite ==
  ASSUME NEW w \in Workers, NEW kind
  PROVE  IsFiniteSet(Outcomes(w, kind)) /\ Cardinality(Outcomes(w, kind)) \in Nat
<1>1. Outcomes(w, kind) \subseteq BountyIds
  BY DEF Outcomes
<1>2. QED
  BY <1>1, RepAssumption, FS_Subset, FS_CardinalityType

\* A saturating sum stays in range.
LEMMA SaturatingInRange ==
  ASSUME NEW max \in Nat, NEW x \in 0 .. max, NEW y \in Nat
  PROVE  saturating_add(x, y, max) \in 0 .. max
BY DEF saturating_add

\* One more of a capped count is the capped count of one more.
LEMMA CappedNext ==
  ASSUME NEW max \in Nat, NEW n \in Nat
  PROVE  saturating_add(Capped(n, max), 1, max) = Capped(n + 1, max)
BY DEF saturating_add, Capped

\* Recording an outcome for a fresh pair adds one id to that outcome's set and
\* none to any other.
LEMMA RecordAddsOne ==
  ASSUME NEW worker \in Workers, NEW id \in BountyIds, NEW kind \in RecordKind,
         RepTypeOK, ~AlreadyRecorded(worker, id, kind),
         recorded' = [recorded EXCEPT ![worker][id] = kind]
  PROVE  \A w \in Workers, k \in RecordKind :
           Cardinality(Outcomes(w, k))' =
             IF w = worker /\ k = kind THEN Cardinality(Outcomes(w, k)) + 1
             ELSE Cardinality(Outcomes(w, k))
<1>1. \A w \in Workers, i \in BountyIds :
        recorded'[w][i] = IF w = worker /\ i = id THEN kind ELSE recorded[w][i]
  BY DEF RepTypeOK
<1>2. recorded[worker][id] = "None" /\ "None" \notin RecordKind
  BY DEF AlreadyRecorded, RecordKind
<1>3. SUFFICES ASSUME NEW w \in Workers, NEW k \in RecordKind
               PROVE  Cardinality(Outcomes(w, k))' =
                        IF w = worker /\ k = kind THEN Cardinality(Outcomes(w, k)) + 1
                        ELSE Cardinality(Outcomes(w, k))
  OBVIOUS
<1>4. CASE w = worker /\ k = kind
  <2>1. Outcomes(w, k)' = Outcomes(w, k) \cup {id} /\ id \notin Outcomes(w, k)
    BY <1>1, <1>2, <1>4 DEF Outcomes
  <2>2. Cardinality(Outcomes(w, k) \cup {id}) = Cardinality(Outcomes(w, k)) + 1
    BY <2>1, OutcomesFinite, FS_AddElement
  <2>3. QED
    BY <1>4, <2>1, <2>2
<1>5. CASE ~(w = worker /\ k = kind)
  <2>1. Outcomes(w, k)' = Outcomes(w, k)
    BY <1>1, <1>2, <1>5 DEF Outcomes
  <2>2. QED
    BY <1>5, <2>1
<1>6. QED
  BY <1>4, <1>5

\* The counts hold initially.
LEMMA InitCounts == RepInit => CountsInv
<1> SUFFICES ASSUME RepInit PROVE CountsInv
  OBVIOUS
<1>1. RepTypeOK
  BY RepAssumption DEF RepInit, RepTypeOK, ReputationScore
<1>2. \A w \in Workers, kind \in RecordKind : Outcomes(w, kind) = {}
  BY DEF RepInit, Outcomes, RecordKind
<1>3. CountsMatchLedger
  <2>1. \A w \in Workers, kind \in RecordKind : Cardinality(Outcomes(w, kind)) = 0
    BY <1>2, FS_EmptySet
  <2>2. Capped(0, MaxCount) = 0
    BY RepAssumption DEF Capped
  <2>3. QED
    BY <2>1, <2>2 DEF CountsMatchLedger, RepInit, RecordKind
<1>4. QED
  BY <1>1, <1>3 DEF CountsInv

\* record_completion counts one completion more for its worker.
LEMMA CompletionCounts ==
  ASSUME NEW worker \in Workers, NEW id \in BountyIds, NEW reward \in Rewards,
         CountsInv, record_completion(worker, id, reward)
  PROVE  CountsInv'
<1>1. /\ RepTypeOK /\ reward \in 0 .. MaxAmount /\ reward \in Nat
      /\ MaxCount \in Nat /\ MaxAmount \in Nat
  BY RepAssumption DEF CountsInv
<1>2. scores[worker] \in ReputationScore
  BY <1>1 DEF RepTypeOK
<1> DEFINE completed == saturating_add(scores[worker].bounties_completed, 1, MaxCount)
           earned == saturating_add(scores[worker].total_earned, reward, MaxAmount)
<1>3. completed \in 0 .. MaxCount /\ earned \in 0 .. MaxAmount
  BY <1>1, <1>2, SaturatingInRange DEF ReputationScore
<1>4. scores' = [scores EXCEPT ![worker] = [@ EXCEPT !.bounties_completed = completed,
                                                     !.total_earned = earned]]
  BY <1>1 DEF record_completion, RepTypeOK, ReputationScore
<1> HIDE DEF completed, earned
<1>5. /\ scores' \in [Workers -> ReputationScore]
      /\ scores'[worker].bounties_completed = completed
      /\ \A w \in Workers :
           /\ w # worker => scores'[w] = scores[w]
           /\ scores'[w].bounties_rejected = scores[w].bounties_rejected
  BY <1>1, <1>2, <1>3, <1>4 DEF RepTypeOK, ReputationScore
<1>6. RepTypeOK'
  BY <1>1, <1>5 DEF RepTypeOK, record_completion, RecordKind
<1>7. \A w \in Workers, k \in RecordKind :
        Cardinality(Outcomes(w, k))' =
          IF w = worker /\ k = "Completion" THEN Cardinality(Outcomes(w, k)) + 1
          ELSE Cardinality(Outcomes(w, k))
  BY <1>1, RecordAddsOne DEF record_completion, RecordKind
<1>8. completed = Capped(Cardinality(Outcomes(worker, "Completion")) + 1, MaxCount)
  BY <1>1, OutcomesFinite, CappedNext DEF CountsInv, CountsMatchLedger, completed
<1>9. CountsMatchLedger'
  <2>1. SUFFICES ASSUME NEW w \in Workers
                 PROVE  /\ scores'[w].bounties_completed =
                             Capped(Cardinality(Outcomes(w, "Completion"))', MaxCount)
                        /\ scores'[w].bounties_rejected =
                             Capped(Cardinality(Outcomes(w, "Rejection"))', MaxCount)
    BY DEF CountsMatchLedger, Capped
  <2>2. /\ scores[w].bounties_completed =
             Capped(Cardinality(Outcomes(w, "Completion")), MaxCount)
        /\ scores[w].bounties_rejected =
             Capped(Cardinality(Outcomes(w, "Rejection")), MaxCount)
    BY DEF CountsInv, CountsMatchLedger
  <2>3. "Completion" \in RecordKind /\ "Rejection" \in RecordKind
    BY DEF RecordKind
  <2>4. QED
    BY <1>5, <1>7, <1>8, <2>2, <2>3
<1>10. QED
  BY <1>6, <1>9 DEF CountsInv

\* record_rejection counts one rejection more for its worker.
LEMMA RejectionCounts ==
  ASSUME NEW worker \in Workers, NEW id \in BountyIds,
         CountsInv, record_rejection(worker, id)
  PROVE  CountsInv'
<1>1. RepTypeOK /\ MaxCount \in Nat
  BY RepAssumption DEF CountsInv
<1>2. scores[worker] \in ReputationScore
  BY <1>1 DEF RepTypeOK
<1> DEFINE rejected == saturating_add(scores[worker].bounties_rejected, 1, MaxCount)
<1>3. rejected \in 0 .. MaxCount
  BY <1>1, <1>2, SaturatingInRange DEF ReputationScore
<1>4. scores' = [scores EXCEPT ![worker] = [@ EXCEPT !.bounties_rejected = rejected]]
  BY <1>1 DEF record_rejection, RepTypeOK, ReputationScore
<1> HIDE DEF rejected
<1>5. /\ scores' \in [Workers -> ReputationScore]
      /\ scores'[worker].bounties_rejected = rejected
      /\ \A w \in Workers :
           /\ w # worker => scores'[w] = scores[w]
           /\ scores'[w].bounties_completed = scores[w].bounties_completed
  BY <1>1, <1>2, <1>3, <1>4 DEF RepTypeOK, ReputationScore
<1>6. RepTypeOK'
  BY <1>1, <1>5 DEF RepTypeOK, record_rejection, RecordKind
<1>7. \A w \in Workers, k \in RecordKind :
        Cardinality(Outcomes(w, k))' =
          IF w = worker /\ k = "Rejection" THEN Cardinality(Outcomes(w, k)) + 1
          ELSE Cardinality(Outcomes(w, k))
  BY <1>1, RecordAddsOne DEF record_rejection, RecordKind
<1>8. rejected = Capped(Cardinality(Outcomes(worker, "Rejection")) + 1, MaxCount)
  BY <1>1, OutcomesFinite, CappedNext DEF CountsInv, CountsMatchLedger, rejected
<1>9. CountsMatchLedger'
  <2>1. SUFFICES ASSUME NEW w \in Workers
                 PROVE  /\ scores'[w].bounties_completed =
                             Capped(Cardinality(Outcomes(w, "Completion"))', MaxCount)
                        /\ scores'[w].bounties_rejected =
                             Capped(Cardinality(Outcomes(w, "Rejection"))', MaxCount)
    BY DEF CountsMatchLedger, Capped
  <2>2. /\ scores[w].bounties_completed =
             Capped(Cardinality(Outcomes(w, "Completion")), MaxCount)
        /\ scores[w].bounties_rejected =
             Capped(Cardinality(Outcomes(w, "Rejection")), MaxCount)
    BY DEF CountsInv, CountsMatchLedger
  <2>3. "Completion" \in RecordKind /\ "Rejection" \in RecordKind
    BY DEF RecordKind
  <2>4. QED
    BY <1>5, <1>7, <1>8, <2>2, <2>3
<1>10. QED
  BY <1>6, <1>9 DEF CountsInv

\* Every method keeps the counts.
LEMMA NextCounts == CountsInv /\ [RepNext]_repVars => CountsInv'
<1> SUFFICES ASSUME CountsInv, [RepNext]_repVars PROVE CountsInv'
  OBVIOUS
<1>1. CASE UNCHANGED repVars
  BY <1>1 DEF CountsInv, RepTypeOK, CountsMatchLedger, Outcomes, repVars
<1>2. ASSUME NEW worker \in Workers, NEW id \in BountyIds, NEW reward \in Rewards,
             record_completion(worker, id, reward)
      PROVE  CountsInv'
  BY <1>2, CompletionCounts
<1>3. ASSUME NEW worker \in Workers, NEW id \in BountyIds, record_rejection(worker, id)
      PROVE  CountsInv'
  BY <1>3, RejectionCounts
<1>4. ASSUME NEW worker \in Workers, NEW id \in BountyIds, RecordRefused(worker, id)
      PROVE  CountsInv'
  BY <1>1, <1>4 DEF RecordRefused
<1>5. QED
  BY <1>1, <1>2, <1>3, <1>4 DEF RepNext

-------------------------------------------------------------------------------
\* The counts of every score are those of the ledger, at every moment.
THEOREM CountsCorrect == RepSpec => []CountsMatchLedger
<1>1. CountsInv => CountsMatchLedger
  BY DEF CountsInv
<1>2. QED
  BY <1>1, InitCounts, NextCounts, PTL DEF RepSpec

\* The first outcome of a (worker, bounty_id) pair stands for ever, and no
\* score ever falls.
THEOREM FirstWriterWinsAlways == RepSpec => FirstWriterWins
<1> DEFINE Stands == \A w \in Workers :
             /\ \A id \in BountyIds : recorded[w][id] # "None" =>
                  recorded'[w][id] = recorded[w][id] /\ said'[w][id] = said[w][id]
             /\ scores[w].bounties_completed <= scores'[w].bounties_completed
             /\ scores[w].bounties_rejected <= scores'[w].bounties_rejected
             /\ scores[w].total_earned <= scores'[w].total_earned
<1>1. CountsInv /\ [RepNext]_repVars => [Stands]_repVars
  <2> SUFFICES ASSUME CountsInv, RepNext PROVE Stands \/ UNCHANGED repVars
    OBVIOUS
  <2>1. /\ RepTypeOK /\ MaxCount \in Nat /\ MaxAmount \in Nat
        /\ \A w \in Workers : scores[w] \in ReputationScore
    BY RepAssumption DEF CountsInv, RepTypeOK
  <2>2. ASSUME NEW worker \in Workers, NEW id \in BountyIds, NEW reward \in Rewards,
               record_completion(worker, id, reward)
        PROVE  Stands
    <3>1. reward \in Nat
      BY RepAssumption
    <3>2. QED
      BY <2>1, <2>2, <3>1
         DEF record_completion, AlreadyRecorded, saturating_add, RepTypeOK, ReputationScore
  <2>3. ASSUME NEW worker \in Workers, NEW id \in BountyIds, record_rejection(worker, id)
        PROVE  Stands
    BY <2>1, <2>3
       DEF record_rejection, AlreadyRecorded, saturating_add, RepTypeOK, ReputationScore
  <2>4. ASSUME NEW worker \in Workers, NEW id \in BountyIds, RecordRefused(worker, id)
        PROVE  UNCHANGED repVars
    BY <2>4 DEF RecordRefused
  <2>5. QED
    BY <2>2, <2>3, <2>4 DEF RepNext
<1>2. QED
  BY <1>1, InitCounts, NextCounts, PTL DEF RepSpec, FirstWriterWins

-------------------------------------------------------------------------------
(* The earnings.                                                              *)

\* A reward is on record with a completion only.
SaidFits ==
  \A w \in Workers, id \in BountyIds : recorded[w][id] # "Completion" => said[w][id] = 0

EarningsInv == CountsInv /\ SaidFits /\ EarningsMatchLedger

\* Adding to a capped sum is capping the larger sum.
LEMMA CappedSum ==
  ASSUME NEW max \in Nat, NEW n \in Nat, NEW k \in Nat
  PROVE  saturating_add(Capped(n, max), k, max) = Capped(n + k, max)
BY DEF saturating_add, Capped

\* What has been said of a worker adds up to a natural.
LEMMA SaidIsNat ==
  ASSUME RepTypeOK, NEW w \in Workers
  PROVE  /\ \A id \in BountyIds : said[w][id] \in Nat
         /\ Total(said[w], BountyIds) \in Nat
<1>1. \A id \in BountyIds : said[w][id] \in Nat
  BY RepAssumption DEF RepTypeOK
<1>2. IsFiniteSet(BountyIds)
  BY RepAssumption
<1>3. QED
  BY <1>1, <1>2, TotalType

\* Nobody has earned anything at first.
LEMMA InitEarnings == RepInit => EarningsInv
<1> SUFFICES ASSUME RepInit PROVE EarningsInv
  OBVIOUS
<1>1. \A w \in Workers : \A id \in BountyIds : said[w][id] = 0
  BY DEF RepInit
<1>2. IsFiniteSet(BountyIds) /\ MaxAmount \in Nat
  BY RepAssumption
<1>3. \A w \in Workers : Total(said[w], BountyIds) = 0
  BY <1>1, <1>2, TotalZero
<1>4. Capped(0, MaxAmount) = 0
  BY <1>2 DEF Capped
<1>5. EarningsMatchLedger
  BY <1>3, <1>4 DEF EarningsMatchLedger, RepInit
<1>6. QED
  BY <1>1, <1>5, InitCounts DEF EarningsInv, SaidFits

\* record_completion adds its reward to the sum and to the score.
LEMMA CompletionEarns ==
  ASSUME NEW worker \in Workers, NEW id \in BountyIds, NEW reward \in Rewards,
         EarningsInv, record_completion(worker, id, reward)
  PROVE  SaidFits' /\ EarningsMatchLedger'
<1>1. /\ RepTypeOK /\ RepTypeOK' /\ reward \in Nat /\ MaxAmount \in Nat
      /\ IsFiniteSet(BountyIds)
  BY CompletionCounts, RepAssumption DEF EarningsInv, CountsInv
<1>2. /\ recorded[worker][id] = "None" /\ said[worker][id] = 0
  BY DEF record_completion, AlreadyRecorded, EarningsInv, SaidFits
<1>3. /\ said' \in [Workers -> [BountyIds -> 0 .. MaxAmount]]
      /\ \A w \in Workers, i \in BountyIds :
           said'[w][i] = IF w = worker /\ i = id THEN reward ELSE said[w][i]
  BY <1>1 DEF record_completion, RepTypeOK
<1>4. \A w \in Workers, i \in BountyIds :
        recorded'[w][i] = IF w = worker /\ i = id THEN "Completion" ELSE recorded[w][i]
  BY <1>1 DEF record_completion, RepTypeOK
<1>5. SaidFits'
  BY <1>3, <1>4 DEF SaidFits, EarningsInv
<1>6. \A w \in Workers :
        scores'[w].total_earned =
          IF w = worker THEN saturating_add(scores[w].total_earned, reward, MaxAmount)
          ELSE scores[w].total_earned
  <2>1. scores[worker] \in ReputationScore
    BY <1>1 DEF RepTypeOK
  <2>2. QED
    BY <1>1, <2>1 DEF record_completion, RepTypeOK, ReputationScore
<1>7. \A w \in Workers :
        Total(said'[w], BountyIds) =
          IF w = worker THEN Total(said[w], BountyIds) + reward ELSE Total(said[w], BountyIds)
  <2>1. SUFFICES ASSUME NEW w \in Workers
                 PROVE  Total(said'[w], BountyIds) =
                          IF w = worker THEN Total(said[w], BountyIds) + reward
                          ELSE Total(said[w], BountyIds)
    OBVIOUS
  <2>2. CASE w # worker
    <3>1. said'[w] = said[w]
      BY <2>2 DEF record_completion
    <3>2. QED
      BY <2>2, <3>1
  <2>3. CASE w = worker
    <3> DEFINE f == said[w]
               g == said'[w]
    <3>1. \A i \in BountyIds : f[i] \in Int /\ g[i] \in Int
      BY <1>1, <1>3 DEF RepTypeOK
    <3>2. \A i \in BountyIds : i # id => g[i] = f[i]
      BY <1>3, <2>3
    <3>3. g[id] = reward /\ f[id] = 0
      BY <1>2, <1>3, <2>3
    <3>4. Total(f, BountyIds) \in Nat
      BY <1>1, SaidIsNat
    <3> HIDE DEF f, g
    <3>5. Total(g, BountyIds) = Total(f, BountyIds) + (g[id] - f[id])
      BY <1>1, <3>1, <3>2, TotalUpdate
    <3>6. Total(g, BountyIds) = Total(f, BountyIds) + reward
      BY <1>1, <3>3, <3>4, <3>5
    <3>7. QED
      BY <2>3, <3>6 DEF f, g
  <2>4. QED
    BY <2>2, <2>3
<1>8. EarningsMatchLedger'
  <2>1. SUFFICES ASSUME NEW w \in Workers
                 PROVE  scores'[w].total_earned =
                          Capped(Total(said'[w], BountyIds), MaxAmount)
    BY DEF EarningsMatchLedger, Capped
  <2>2. scores[w].total_earned = Capped(Total(said[w], BountyIds), MaxAmount)
    BY DEF EarningsInv, EarningsMatchLedger
  <2>3. Total(said[w], BountyIds) \in Nat
    BY <1>1, SaidIsNat
  <2>4. QED
    BY <1>1, <1>6, <1>7, <2>2, <2>3, CappedSum
<1>9. QED
  BY <1>5, <1>8

\* Every method keeps sum and score together.
LEMMA NextEarnings == EarningsInv /\ [RepNext]_repVars => EarningsInv'
<1> SUFFICES ASSUME EarningsInv, [RepNext]_repVars PROVE EarningsInv'
  OBVIOUS
<1>1. CountsInv'
  BY NextCounts DEF EarningsInv
<1>2. CASE UNCHANGED repVars
  BY <1>1, <1>2 DEF EarningsInv, SaidFits, EarningsMatchLedger, repVars
<1>3. ASSUME NEW worker \in Workers, NEW id \in BountyIds, NEW reward \in Rewards,
             record_completion(worker, id, reward)
      PROVE  EarningsInv'
  BY <1>1, <1>3, CompletionEarns DEF EarningsInv
<1>4. ASSUME NEW worker \in Workers, NEW id \in BountyIds, record_rejection(worker, id)
      PROVE  EarningsInv'
  <2>1. RepTypeOK
    BY DEF EarningsInv, CountsInv
  <2>2. \A w \in Workers, i \in BountyIds :
          recorded'[w][i] = IF w = worker /\ i = id THEN "Rejection" ELSE recorded[w][i]
    BY <1>4, <2>1 DEF record_rejection, RepTypeOK
  <2>3. recorded[worker][id] = "None" /\ said' = said
    BY <1>4 DEF record_rejection, AlreadyRecorded
  <2>4. SaidFits'
    BY <2>2, <2>3 DEF EarningsInv, SaidFits
  <2>5. \A w \in Workers : scores'[w].total_earned = scores[w].total_earned
    BY <1>4, <2>1 DEF record_rejection, RepTypeOK, ReputationScore
  <2>6. EarningsMatchLedger'
    BY <2>3, <2>5 DEF EarningsInv, EarningsMatchLedger
  <2>7. QED
    BY <1>1, <2>4, <2>6 DEF EarningsInv
<1>5. ASSUME NEW worker \in Workers, NEW id \in BountyIds, RecordRefused(worker, id)
      PROVE  EarningsInv'
  BY <1>2, <1>5 DEF RecordRefused
<1>6. QED
  BY <1>2, <1>3, <1>4, <1>5 DEF RepNext

\* Every state of the ledger satisfies the invariant.
LEMMA RepInvariance == RepSpec => []EarningsInv
BY InitEarnings, NextEarnings, PTL DEF RepSpec

\* Scores and ledger agree: the counts and the earnings of a worker are those
\* of its recorded outcomes, capped, in whatever order they were recorded.
THEOREM ScoresCorrect == RepSpec => []ScoresMatchLedger
<1>1. EarningsInv => ScoresMatchLedger
  BY DEF EarningsInv, CountsInv, ScoresMatchLedger
<1>2. QED
  BY <1>1, RepInvariance, PTL

-------------------------------------------------------------------------------
(* The demand telegraph.                                                      *)

\* The inductive invariant: the counters keep their width and no track is
\* ahead of the total.
CountersInv ==
  /\ total_signals \in 0 .. MaxU32
  /\ track_demand \in [Tracks -> 0 .. MaxU32]
  /\ total_effective_atomic \in 0 .. MaxU128
  /\ base_total \in Nat
  /\ exact \in BOOLEAN
  /\ NoTrackAhead

\* Both limits are naturals.
LEMMA LimitsAreNat == MaxU32 \in Nat /\ MaxU128 \in Nat /\ Denom \in Nat \ {0}
  BY FeedsAssumption DEF FeedsAssumption

\* A saturating sum stays within its type, never falls below the smaller of
\* its argument and the limit.
LEMMA SaturatedBounds ==
  ASSUME NEW n \in Nat, NEW max \in Nat
  PROVE  /\ saturated(n, max) \in 0 .. max
         /\ n <= max => saturated(n, max) = n
         /\ n > max => saturated(n, max) = max
  BY DEF saturated

\* A wrapping increment of a u32 stays a u32 and is never above the plain sum.
LEMMA WrappedBounds ==
  ASSUME NEW n \in 0 .. MaxU32
  PROVE  /\ wrapped(n + 1) \in 0 .. MaxU32
         /\ wrapped(n + 1) <= n + 1
  <1> DEFINE k == n + 1
             w == MaxU32 + 1
  <1>1. MaxU32 \in Nat /\ k \in Nat /\ w \in Nat \ {0} /\ k <= w
    BY LimitsAreNat
  <1>2. k % w \in 0 .. (w - 1)
    BY <1>1
  <1>3. CASE k < w
    <2>1. k % w = k
      BY <1>1, <1>3
    <2> QED
      BY <1>1, <1>2, <2>1 DEF wrapped
  <1>4. CASE k = w
    <2>1. k % w = 0
      BY <1>1, <1>4
    <2> QED
      BY <1>1, <1>2, <2>1 DEF wrapped
  <1> QED
    BY <1>1, <1>3, <1>4

\* The product of a boost is a natural, and so is what is left of it.
LEMMA EffectiveIsNat ==
  ASSUME NEW base \in Bases, NEW multiplier \in Multipliers
  PROVE  effective(base, multiplier) \in Nat
  <1>1. base \in Nat /\ multiplier \in Nat
    BY FeedsAssumption DEF FeedsAssumption
  <1>2. base * multiplier \in Nat
    BY <1>1
  <1> DEFINE s == saturated(base * multiplier, MaxU128)
  <1>3. s \in Nat
    BY <1>2, LimitsAreNat, SaturatedBounds
  <1> HIDE DEF s
  <1>4. s \div Denom \in Nat
    BY <1>3, LimitsAreNat
  <1> QED
    BY <1>4 DEF effective, s

\* The fresh contract satisfies the invariant.
LEMMA InitCounters == FeedsInit => CountersInv
  BY LimitsAreNat DEF FeedsInit, CountersInv, NoTrackAhead

\* Every call preserves it.
LEMMA StepCounters == CountersInv /\ [FeedsNext]_feedsVars => CountersInv'
  <1> SUFFICES ASSUME CountersInv, [FeedsNext]_feedsVars
               PROVE  CountersInv'
    OBVIOUS
  <1>1. CASE UNCHANGED feedsVars
    BY <1>1 DEF CountersInv, NoTrackAhead, feedsVars
  <1>2. CASE FeedsNext
    <2>1. PICK base \in Bases, multiplier \in Multipliers :
            \/ \E track \in Tracks : post_boosted(track, base, multiplier)
            \/ Refused(base, multiplier)
      BY <1>2 DEF FeedsNext
    <2>2. CASE Refused(base, multiplier)
      BY <2>2, <1>1 DEF Refused
    <2>3. CASE \E track \in Tracks : post_boosted(track, base, multiplier)
      <3>1. PICK track \in Tracks : post_boosted(track, base, multiplier)
        BY <2>3
      <3>2. /\ total_signals \in 0 .. MaxU32
            /\ track_demand \in [Tracks -> 0 .. MaxU32]
            /\ total_effective_atomic \in 0 .. MaxU128
            /\ base_total \in Nat
            /\ \A t \in Tracks : track_demand[t] <= total_signals
        BY DEF CountersInv, NoTrackAhead
      <3>3. /\ total_signals' \in 0 .. MaxU32
            /\ total_signals < MaxU32 => total_signals' = total_signals + 1
            /\ total_signals = MaxU32 => total_signals' = MaxU32
        <4>1. total_signals' = saturated(total_signals + 1, MaxU32)
          BY <3>1 DEF post_boosted
        <4>2. total_signals + 1 \in Nat
          BY <3>2
        <4> QED
          BY <3>2, <4>1, <4>2, LimitsAreNat DEF saturated
      <3>4. /\ track_demand' \in [Tracks -> 0 .. MaxU32]
            /\ \A t \in Tracks \ {track} : track_demand'[t] = track_demand[t]
            /\ track_demand'[track] \in 0 .. MaxU32
            /\ track_demand'[track] <= track_demand[track] + 1
        <4>1. wrapped(track_demand[track] + 1) \in 0 .. MaxU32
          BY <3>2, WrappedBounds
        <4>2. wrapped(track_demand[track] + 1) <= track_demand[track] + 1
          BY <3>2, WrappedBounds
        <4>3. track_demand' = [track_demand EXCEPT ![track] = wrapped(track_demand[track] + 1)]
          BY <3>1 DEF post_boosted, bump
        <4> QED
          BY <3>2, <4>1, <4>2, <4>3
      <3>5. total_effective_atomic' \in 0 .. MaxU128
        <4>1. effective(base, multiplier) \in Nat
          BY EffectiveIsNat
        <4>2. total_effective_atomic + effective(base, multiplier) \in Nat
          BY <3>2, <4>1, LimitsAreNat
        <4> QED
          BY <3>1, <4>2, LimitsAreNat, SaturatedBounds DEF post_boosted
      <3>6. base_total' \in Nat
        <4>1. base \in Nat
          BY FeedsAssumption DEF FeedsAssumption
        <4> QED
          BY <3>1, <3>2, <4>1 DEF post_boosted
      <3>7. exact' \in BOOLEAN
        BY <3>1 DEF post_boosted
      <3>8. NoTrackAhead'
        <4> SUFFICES ASSUME NEW t \in Tracks
                     PROVE  track_demand'[t] <= total_signals'
          BY DEF NoTrackAhead
        <4>1. total_signals <= total_signals'
          BY <3>2, <3>3, LimitsAreNat
        <4>2. CASE t # track
          BY <3>2, <3>3, <3>4, <4>1, <4>2, LimitsAreNat
        <4>3. CASE t = track
          BY <3>2, <3>3, <3>4, <4>3, LimitsAreNat
        <4> QED
          BY <4>2, <4>3
      <3> QED
        BY <3>3, <3>4, <3>5, <3>6, <3>7, <3>8 DEF CountersInv
    <2> QED
      BY <2>1, <2>2, <2>3
  <1> QED
    BY <1>1, <1>2

\* Every state of the telegraph satisfies the invariant.
LEMMA FeedsInvariance == FeedsSpec => []CountersInv
  BY InitCounters, StepCounters, PTL DEF FeedsSpec

\* The counters keep the widths of their types whatever is signalled.
THEOREM FeedsTypesKept == FeedsSpec => []FeedsTypeOK
  <1>1. CountersInv => FeedsTypeOK
    BY DEF CountersInv, FeedsTypeOK
  <1> QED
    BY <1>1, FeedsInvariance, PTL

\* A wrapping per-track counter beside a saturating total never makes a track
\* claim more signals than there have been.
THEOREM DemandNeverAhead == FeedsSpec => []NoTrackAhead
  <1>1. CountersInv => NoTrackAhead
    BY DEF CountersInv
  <1> QED
    BY <1>1, FeedsInvariance, PTL

-------------------------------------------------------------------------------
\* Cancelling a positive factor.
LEMMA Cancel ==
  ASSUME NEW d \in Nat \ {0}, NEW i \in Nat, NEW j \in Nat
  PROVE  /\ d * i < d * j => i < j
         /\ d * i <= d * j => i <= j
  <1>1. i >= j => d * i >= d * j
    OBVIOUS
  <1>2. i > j => d * i > d * j
    OBVIOUS
  <1> QED
    BY <1>1, <1>2

\* What a quotient says of its dividend.
LEMMA Quotient ==
  ASSUME NEW n \in Nat, NEW d \in Nat \ {0}
  PROVE  /\ n \div d \in Nat
         /\ d * (n \div d) <= n
         /\ n < d * ((n \div d) + 1)
  OBVIOUS

\* A multiplier between a half and two, in units of 1/d, moves a base to
\* between half of it, less one, and twice it.
LEMMA BoostBand ==
  ASSUME NEW b \in Nat, NEW m \in Nat, NEW d \in Nat \ {0}, d <= 2 * m, m <= 2 * d
  PROVE  /\ b <= 2 * ((b * m) \div d) + 1
         /\ (b * m) \div d <= 2 * b
  <1> DEFINE e == (b * m) \div d
  <1>1. b * m \in Nat
    OBVIOUS
  <1>2. e \in Nat /\ d * e <= b * m /\ b * m < d * (e + 1)
    BY <1>1, Quotient
  <1> HIDE DEF e
  <1>3. b * d <= b * (2 * m) /\ b * m <= b * (2 * d)
    OBVIOUS
  <1>4. b * (2 * m) = 2 * (b * m) /\ b * (2 * d) = d * (2 * b) /\ b * d = d * b
    OBVIOUS
  <1>5. d * (2 * (e + 1)) = 2 * (d * (e + 1))
    BY <1>2
  <1>6. d * b < d * (2 * (e + 1))
    BY <1>2, <1>3, <1>4, <1>5
  <1>7. b < 2 * (e + 1)
    BY <1>2, <1>6, Cancel
  <1>8. d * e <= d * (2 * b)
    BY <1>2, <1>3, <1>4
  <1>9. e <= 2 * b
    BY <1>2, <1>8, Cancel
  <1> QED
    BY <1>2, <1>7, <1>9 DEF e

\* A call keeps the effective total in its band.
LEMMA StepBand == CountersInv /\ EffectiveBand /\ [FeedsNext]_feedsVars => EffectiveBand'
  <1> SUFFICES ASSUME CountersInv, EffectiveBand, [FeedsNext]_feedsVars, exact'
               PROVE  /\ base_total' <= 2 * total_effective_atomic' + total_signals'
                      /\ total_effective_atomic' <= 2 * base_total'
    BY DEF EffectiveBand
  <1>1. CASE UNCHANGED feedsVars
    BY <1>1 DEF EffectiveBand, feedsVars
  <1>2. CASE FeedsNext
    <2>1. PICK base \in Bases, multiplier \in Multipliers :
            \/ \E track \in Tracks : post_boosted(track, base, multiplier)
            \/ Refused(base, multiplier)
      BY <1>2 DEF FeedsNext
    <2>2. CASE Refused(base, multiplier)
      BY <2>2, <1>1 DEF Refused
    <2>3. CASE \E track \in Tracks : post_boosted(track, base, multiplier)
      <3>1. PICK track \in Tracks : post_boosted(track, base, multiplier)
        BY <2>3
      <3> DEFINE e == (base * multiplier) \div Denom
      <3>2. base \in Nat /\ multiplier \in Nat
        BY FeedsAssumption DEF FeedsAssumption
      <3>3. base * multiplier \in Nat
        BY <3>2
      <3>4. Denom <= 2 * multiplier /\ multiplier <= 2 * Denom
        <4>1. MinMultiplier <= multiplier /\ multiplier <= MaxMultiplier
          BY <3>1 DEF post_boosted, ValidMultiplier
        <4>2. MinMultiplier \in Nat /\ MaxMultiplier \in Nat /\ Denom \in Nat
          BY FeedsAssumption DEF FeedsAssumption
        <4>3. 2 * MinMultiplier >= Denom /\ MaxMultiplier <= 2 * Denom
          BY FeedsAssumption DEF FeedsAssumption
        <4> QED
          BY <3>2, <4>1, <4>2, <4>3
      <3>5. e \in Nat /\ base <= 2 * e + 1 /\ e <= 2 * base
        BY <3>2, <3>3, <3>4, LimitsAreNat, BoostBand, Quotient
      <3> HIDE DEF e
      <3>6. /\ exact
            /\ total_signals < MaxU32
            /\ base * multiplier <= MaxU128
            /\ total_effective_atomic + effective(base, multiplier) <= MaxU128
        BY <3>1 DEF post_boosted
      <3>7. effective(base, multiplier) = e
        <4>1. saturated(base * multiplier, MaxU128) = base * multiplier
          BY <3>3, <3>6, LimitsAreNat DEF saturated
        <4> QED
          BY <4>1 DEF effective, e
      <3>8. total_signals' = total_signals + 1
        <4>1. total_signals' = saturated(total_signals + 1, MaxU32)
          BY <3>1 DEF post_boosted
        <4>2. total_signals \in Nat
          BY LimitsAreNat DEF CountersInv
        <4> QED
          BY <3>6, <4>1, <4>2, LimitsAreNat DEF saturated
      <3>9. total_effective_atomic' = total_effective_atomic + e
        <4>1. total_effective_atomic' = saturated(total_effective_atomic + e, MaxU128)
          BY <3>1, <3>7 DEF post_boosted
        <4>2. total_effective_atomic \in Nat
          BY LimitsAreNat DEF CountersInv
        <4>3. total_effective_atomic + e <= MaxU128
          BY <3>6, <3>7
        <4> QED
          BY <3>5, <4>1, <4>2, <4>3, LimitsAreNat DEF saturated
      <3>10. base_total' = base_total + base
        BY <3>1 DEF post_boosted
      <3>11. /\ base_total \in Nat /\ total_signals \in Nat /\ total_effective_atomic \in Nat
             /\ base_total <= 2 * total_effective_atomic + total_signals
             /\ total_effective_atomic <= 2 * base_total
        BY <3>6, LimitsAreNat DEF CountersInv, EffectiveBand
      <3> QED
        BY <3>2, <3>5, <3>8, <3>9, <3>10, <3>11
    <2> QED
      BY <2>1, <2>2, <2>3
  <1> QED
    BY <1>1, <1>2

\* Whatever the callers name, boosting moves the metric by a factor between a
\* half and two, up to one unit a signal, until a counter is capped.
THEOREM EffectiveStaysInBand == FeedsSpec => []EffectiveBand
  <1>1. FeedsInit => EffectiveBand
    BY DEF FeedsInit, EffectiveBand
  <1> QED
    BY <1>1, StepBand, FeedsInvariance, PTL DEF FeedsSpec

-------------------------------------------------------------------------------
(* The tracks add up.                                                         *)

\* A signal below the limit is one more for its track and one more in total.
LEMMA StepDemand == CountersInv /\ DemandAddsUp /\ [FeedsNext]_feedsVars => DemandAddsUp'
  <1> SUFFICES ASSUME CountersInv, DemandAddsUp, [FeedsNext]_feedsVars, total_signals' < MaxU32
               PROVE  Total(track_demand', Tracks) = total_signals'
    BY DEF DemandAddsUp
  <1>1. CASE UNCHANGED feedsVars
    BY <1>1 DEF DemandAddsUp, feedsVars
  <1>2. CASE FeedsNext
    <2>1. PICK base \in Bases, multiplier \in Multipliers :
            \/ \E track \in Tracks : post_boosted(track, base, multiplier)
            \/ Refused(base, multiplier)
      BY <1>2 DEF FeedsNext
    <2>2. CASE Refused(base, multiplier)
      BY <2>2, <1>1 DEF Refused
    <2>3. CASE \E track \in Tracks : post_boosted(track, base, multiplier)
      <3>1. PICK track \in Tracks : post_boosted(track, base, multiplier)
        BY <2>3
      <3>2. /\ total_signals \in 0 .. MaxU32 /\ MaxU32 \in Nat
            /\ track_demand \in [Tracks -> 0 .. MaxU32]
            /\ track_demand[track] <= total_signals
        BY LimitsAreNat DEF CountersInv, NoTrackAhead
      <3>3. total_signals < MaxU32 /\ total_signals' = total_signals + 1
        <4>1. total_signals' = saturated(total_signals + 1, MaxU32)
          BY <3>1 DEF post_boosted
        <4> QED
          BY <3>2, <4>1 DEF saturated
      <3>4. wrapped(track_demand[track] + 1) = track_demand[track] + 1
        <4>1. /\ track_demand[track] + 1 \in Nat /\ MaxU32 + 1 \in Nat \ {0}
              /\ track_demand[track] + 1 < MaxU32 + 1
          BY <3>2, <3>3
        <4> QED
          BY <4>1 DEF wrapped
      <3>5. track_demand' = [track_demand EXCEPT ![track] = track_demand[track] + 1]
        BY <3>1, <3>4 DEF post_boosted, bump
      <3>6. IsFiniteSet(Tracks)
        BY FeedsAssumption
      <3> DEFINE f == track_demand
                 g == track_demand'
      <3>7. /\ \A t \in Tracks : f[t] \in Int /\ g[t] \in Int
            /\ \A t \in Tracks : t # track => g[t] = f[t]
            /\ g[track] = f[track] + 1
        BY <3>2, <3>5
      <3>8. Total(f, Tracks) = total_signals
        BY <3>3 DEF DemandAddsUp
      <3> HIDE DEF f, g
      <3>9. Total(g, Tracks) = Total(f, Tracks) + (g[track] - f[track])
        BY <3>6, <3>7, TotalUpdate
      <3>10. g[track] - f[track] = 1
        BY <3>7
      <3> QED
        BY <3>2, <3>3, <3>8, <3>9, <3>10 DEF g
    <2> QED
      BY <2>1, <2>2, <2>3
  <1> QED
    BY <1>1, <1>2

\* Until the total is at the limit of its type, every signal is counted for
\* exactly one track, and the counters of the tracks add up to the total.
THEOREM DemandAlwaysAddsUp == FeedsSpec => []DemandAddsUp
  <1>1. FeedsInit => DemandAddsUp
    <2> SUFFICES ASSUME FeedsInit
                 PROVE  Total(track_demand, Tracks) = 0
      BY DEF FeedsInit, DemandAddsUp
    <2>1. IsFiniteSet(Tracks) /\ \A t \in Tracks : track_demand[t] = 0
      BY FeedsAssumption DEF FeedsInit
    <2> QED
      BY <2>1, TotalZero
  <1> QED
    BY <1>1, StepDemand, FeedsInvariance, PTL DEF FeedsSpec

-------------------------------------------------------------------------------
(* The orchestrator: what classify returns.                                   *)

Scoring(text) == {t \in Topics : text.score[t] > 0}

\* The names of the topics, each at its place.
LEMMA Places ==
  /\ IsFiniteSet(Topics)
  /\ \A t \in Topics : Place(t) \in DOMAIN TopicNames /\ Place(t) \in Nat /\ TopicNames[Place(t)] = t
  /\ \A i \in DOMAIN TopicNames : TopicNames[i] \in Topics /\ Place(TopicNames[i]) = i
<1>1. /\ TopicNames \in Seq(Topics) /\ Len(TopicNames) \in Nat
      /\ DOMAIN TopicNames = 1 .. Len(TopicNames)
      /\ TopicNames \in [1 .. Len(TopicNames) -> Topics]
  BY OrchAssumption, LenProperties
<1>2. \A t \in Topics : \E i \in DOMAIN TopicNames : TopicNames[i] = t
  BY DEF Topics, ToSet
<1>3. \A t \in Topics : Place(t) \in DOMAIN TopicNames /\ TopicNames[Place(t)] = t
  BY <1>2 DEF Place
<1>4. \A i, j \in DOMAIN TopicNames : TopicNames[i] = TopicNames[j] => i = j
  BY OrchAssumption DEF IsInjective
<1>5. TopicNames \in Surjection(1 .. Len(TopicNames), Topics)
  BY <1>1, <1>2 DEF Surjection
<1>6. IsFiniteSet(Topics)
  BY <1>1, <1>5, FS_Surjection, FS_Interval
<1>7. \A i \in DOMAIN TopicNames : TopicNames[i] \in Topics
  BY <1>1
<1>8. \A t \in Topics : Place(t) \in Nat
  BY <1>1, <1>3
<1>9. QED
  BY <1>3, <1>4, <1>6, <1>7, <1>8

\* Ahead is the order by which the reference definition compares topics, and
\* puts the topics in one line.
LEMMA AheadOrders ==
  ASSUME NEW text \in BountyTexts
  PROVE  /\ Orders(Ahead(text), Scoring(text))
         /\ \A s, t \in Topics : <<s, t>> \in Ahead(text) <=> Fits(s, t, text)
<1>1. \A t \in Topics : text.score[t] \in Int /\ Place(t) \in Nat
  BY OrchAssumption, Places
<1>2. \A s, t \in Topics : Place(s) = Place(t) => s = t
  BY Places
<1>3. \A s, t \in Topics :
        <<s, t>> \in Ahead(text) <=>
          \/ text.score[s] > text.score[t]
          \/ text.score[s] = text.score[t] /\ Place(s) < Place(t)
  BY DEF Ahead
<1>4. Orders(Ahead(text), Topics)
  BY <1>1, <1>2, <1>3 DEF Orders
<1>5. Orders(Ahead(text), Scoring(text))
  BY <1>4 DEF Orders, Scoring
<1>6. \A s, t \in Topics :
        Place(s) < Place(t) <=>
          \E i, j \in DOMAIN TopicNames : i < j /\ TopicNames[i] = s /\ TopicNames[j] = t
  BY Places
<1>7. QED
  BY <1>3, <1>5, <1>6 DEF Fits

\* How many come before one of a list.
LEMMA CountBefore ==
  ASSUME NEW S, NEW R, Orders(R, S), NEW n \in Nat, NEW r, Lists(r, n, S, R),
         \A x \in S : \E i \in 1 .. n : r[i] = x, NEW i \in 1 .. n
  PROVE  Cardinality({x \in S : <<x, r[i]>> \in R}) = i - 1
<1> DEFINE T == {x \in S : <<x, r[i]>> \in R}
           f == [j \in 1 .. i - 1 |-> r[j]]
<1>1. r \in [1 .. n -> S] /\ \A a, b \in 1 .. n : a < b => <<r[a], r[b]>> \in R
  BY DEF Lists
<1>2. \A a, b \in 1 .. n : <<r[a], r[b]>> \in R => a < b
  <2>1. SUFFICES ASSUME NEW a \in 1 .. n, NEW b \in 1 .. n, <<r[a], r[b]>> \in R, ~(a < b)
                 PROVE  FALSE
    OBVIOUS
  <2>2. a = b \/ b < a
    BY <2>1
  <2>3. r[a] \in S /\ r[b] \in S
    BY <1>1
  <2>4. a # b
    BY <2>1, <2>3 DEF Orders
  <2>5. <<r[b], r[a]>> \in R
    BY <1>1, <2>2, <2>4
  <2>6. r[a] # r[b]
    BY <2>1, <2>3 DEF Orders
  <2>7. QED
    BY <2>1, <2>3, <2>5, <2>6 DEF Orders
<1>3. \A j \in 1 .. i - 1 : j \in 1 .. n /\ j < i
  OBVIOUS
<1>4. f \in [1 .. i - 1 -> T]
  BY <1>1, <1>3
<1>5. \A a, b \in 1 .. i - 1 : f[a] = f[b] => a = b
  <2>1. SUFFICES ASSUME NEW a \in 1 .. i - 1, NEW b \in 1 .. i - 1, r[a] = r[b] PROVE a = b
    OBVIOUS
  <2>2. a \in 1 .. n /\ b \in 1 .. n /\ r[a] \in S
    BY <1>1, <1>3
  <2>3. <<r[a], r[a]>> \notin R
    BY <2>2 DEF Orders
  <2>4. ~(a < b) /\ ~(b < a)
    BY <1>1, <2>1, <2>2, <2>3
  <2>5. QED
    BY <2>4
<1>6. \A x \in T : \E j \in 1 .. i - 1 : f[j] = x
  <2>1. SUFFICES ASSUME NEW x \in T PROVE \E j \in 1 .. i - 1 : f[j] = x
    OBVIOUS
  <2>2. PICK j \in 1 .. n : r[j] = x
    OBVIOUS
  <2>3. j < i
    BY <1>2, <2>2
  <2>4. QED
    BY <2>2, <2>3
<1> HIDE DEF T, f
<1>7. f \in Bijection(1 .. i - 1, T)
  BY <1>4, <1>5, <1>6 DEF Bijection, Injection, Surjection, IsInjective
<1>8. ExistsBijection(1 .. i - 1, T)
  BY <1>7 DEF ExistsBijection
<1>9. IsFiniteSet(1 .. i - 1) /\ Cardinality(1 .. i - 1) = i - 1
  BY FS_Interval
<1>10. QED
  BY <1>8, <1>9, FS_Bijection DEF T

\* The topics classify returns are the relevant ones, the better before the worse.
Ranked(topics, text) ==
  /\ topics \in Seq(Relevant(text))
  /\ \A t \in Relevant(text) : \E i \in 1 .. Len(topics) : topics[i] = t
  /\ \A i, j \in 1 .. Len(topics) :
       /\ topics[i] = topics[j] => i = j
       /\ i < j => ~Fits(topics[j], topics[i], text)
  /\ Relevant(text) \subseteq Topics \cup {Fallback}

LEMMA ClassifyRanks ==
  ASSUME NEW text \in BountyTexts
  PROVE  Ranked(classify(text), text)
<1> DEFINE S == Scoring(text)
           R == Ahead(text)
           n == Cardinality(S)
           r == Sorted(S, R)
           m == Min({MAX_TOPICS, Len(r)})
<1>1. IsFiniteSet(S)
  BY Places, FS_Subset DEF Scoring
<1>2. /\ n \in Nat /\ Lists(r, n, S, R) /\ r \in Seq(S) /\ Len(r) = n
      /\ \A x \in S : \E i \in 1 .. n : r[i] = x
  BY <1>1, AheadOrders, SortedLists
<1>3. S \subseteq Topics
  BY DEF Scoring
<1>4. Relevant(text) = IF S = {} THEN {Fallback}
                       ELSE {t \in S : Cardinality({s \in S : Fits(s, t, text)}) < MAX_TOPICS}
  BY DEF Relevant, Scoring
<1>5. classify(text) = IF r = <<>> THEN <<Fallback>> ELSE SubSeq(r, 1, m)
  BY DEF classify, Scoring
<1> HIDE DEF S, R, r, n, m
<1>6. CASE S = {}
  <2>1. n = 0 /\ r = <<>>
    BY <1>2, <1>6, FS_EmptySet, EmptySeq DEF n
  <2>2. classify(text) = <<Fallback>> /\ Relevant(text) = {Fallback}
    BY <1>4, <1>5, <1>6, <2>1
  <2>3. QED
    BY <2>2 DEF Ranked
<1>7. CASE S # {}
  <2>1. n # 0 /\ r # <<>>
    BY <1>1, <1>2, <1>7, FS_EmptySet DEF n
  <2>2. m \in 1 .. n /\ (m = n \/ m = MAX_TOPICS) /\ m <= MAX_TOPICS
    <3>1. MAX_TOPICS \in Nat /\ MAX_TOPICS > 0 /\ n > 0
      BY <1>2, <2>1, OrchAssumption
    <3> DEFINE both == {MAX_TOPICS, Len(r)}
    <3>2. CASE MAX_TOPICS <= n
      <4>1. both \subseteq Int /\ MAX_TOPICS \in both /\ \A y \in both : MAX_TOPICS <= y
        BY <1>2, <3>1, <3>2
      <4>2. m = MAX_TOPICS
        BY <4>1, MinIs DEF m
      <4>3. QED
        BY <1>2, <3>1, <3>2, <4>2
    <3>3. CASE n <= MAX_TOPICS
      <4>1. both \subseteq Int /\ n \in both /\ \A y \in both : n <= y
        BY <1>2, <3>1, <3>3
      <4>2. m = n
        BY <4>1, MinIs DEF m
      <4>3. QED
        BY <1>2, <3>1, <3>3, <4>2
    <3>4. QED
      BY <1>2, <3>1, <3>2, <3>3
  <2> DEFINE c == SubSeq(r, 1, m)
  <2>3. classify(text) = c
    BY <1>5, <2>1
  <2>4. Len(c) = m /\ \A i \in 1 .. m : c[i] = r[i]
    BY <1>2, <2>2, SubSeqProperties
  <2>5. \A i \in 1 .. n : r[i] \in S
    BY <1>2 DEF Lists
  <2>6. \A i \in 1 .. n : Cardinality({s \in S : Fits(s, r[i], text)}) = i - 1
    <3>1. SUFFICES ASSUME NEW i \in 1 .. n
                   PROVE  Cardinality({s \in S : Fits(s, r[i], text)}) = i - 1
      OBVIOUS
    <3>2. {s \in S : Fits(s, r[i], text)} = {s \in S : <<s, r[i]>> \in R}
      BY <1>3, <2>5, AheadOrders DEF R
    <3>3. Orders(R, S)
      BY AheadOrders DEF R, S
    <3>4. QED
      BY <1>2, <3>2, <3>3, CountBefore
  <2>7. \A i \in 1 .. n : r[i] \in Relevant(text) <=> i <= m
    <3>1. SUFFICES ASSUME NEW i \in 1 .. n PROVE r[i] \in Relevant(text) <=> i <= m
      OBVIOUS
    <3>2. r[i] \in Relevant(text) <=> i - 1 < MAX_TOPICS
      BY <1>4, <1>7, <2>5, <2>6
    <3>3. QED
      BY <2>2, <3>2, OrchAssumption
  <2>8. c \in Seq(Relevant(text))
    <3>1. \A i \in 1 .. m : c[i] \in Relevant(text)
      <4>1. \A i \in 1 .. m : i \in 1 .. n /\ i <= m
        BY <1>2, <2>2
      <4> HIDE DEF c
      <4>2. QED
        BY <2>4, <2>7, <4>1
    <3>2. c = [i \in 1 .. m |-> c[i]]
      BY <1>2, <2>2, <2>4, SubSeqProperties
    <3> HIDE DEF c
    <3>3. QED
      BY <2>2, <3>1, <3>2, SeqDef
  <2>9. \A t \in Relevant(text) : \E i \in 1 .. m : c[i] = t
    <3>1. SUFFICES ASSUME NEW t \in Relevant(text) PROVE \E i \in 1 .. m : c[i] = t
      OBVIOUS
    <3>2. PICK i \in 1 .. n : r[i] = t
      BY <1>2, <1>4, <1>7
    <3>3. i \in 1 .. m
      BY <2>2, <2>7, <3>2
    <3>4. QED
      BY <2>4, <3>2, <3>3
  <2>10. \A i, j \in 1 .. m : i < j => c[i] # c[j] /\ ~Fits(c[j], c[i], text)
    <3>1. SUFFICES ASSUME NEW i \in 1 .. m, NEW j \in 1 .. m, i < j
                   PROVE  r[i] # r[j] /\ ~Fits(r[j], r[i], text)
      BY <2>4
    <3>2. i \in 1 .. n /\ j \in 1 .. n
      BY <1>2, <2>2
    <3>3. <<r[i], r[j]>> \in R /\ r[i] \in S /\ r[j] \in S
      BY <1>2, <2>5, <3>1, <3>2 DEF Lists
    <3>4. r[i] # r[j] /\ <<r[j], r[i]>> \notin R
      BY <3>3, AheadOrders DEF Orders, R, S
    <3>5. QED
      BY <1>3, <3>3, <3>4, AheadOrders DEF R
  <2>11. Relevant(text) \subseteq Topics
    BY <1>3, <1>4, <1>7
  <2> HIDE DEF c
  <2>12. \A i, j \in 1 .. m : c[i] = c[j] => i = j
    BY <2>2, <2>10
  <2>13. QED
    BY <2>3, <2>4, <2>8, <2>9, <2>10, <2>11, <2>12 DEF Ranked
<1>8. QED
  BY <1>6, <1>7

-------------------------------------------------------------------------------
(* What route finds.                                                          *)

\* Where a list has entries that can be asked at these costs.
Askable(list, text, costs) ==
  {i \in DOMAIN list : /\ entryIsRoutable(list[i]) /\ list[i].cost \in costs
                       /\ resolveEntryArgs(list[i], text)}

\* The first of the places found, and nothing only if there is none.
LEMMA FirstFound ==
  ASSUME NEW list, NEW found, found \subseteq Nat, \A i \in found : list[i] # Null
  PROVE  /\ FirstOf(list, found) = Null <=> found = {}
         /\ found # {} => \E i \in found : /\ FirstOf(list, found) = list[i]
                                           /\ \A k \in found : i <= k
<1>1. CASE found = {}
  BY <1>1 DEF FirstOf
<1>2. CASE found # {}
  <2>1. Min(found) \in found /\ \A k \in found : Min(found) <= k
    BY <1>2, MinExists
  <2>2. FirstOf(list, found) = list[Min(found)]
    BY <1>2 DEF FirstOf
  <2>3. QED
    BY <1>2, <2>1, <2>2
<1>3. QED
  BY <1>1, <1>2

Tables(text) == \A t \in Relevant(text), c \in BOOLEAN : Table(t, c) \in Seq(Entries)

LEMMA TablesOfEntries ==
  ASSUME NEW text \in BountyTexts
  PROVE  Tables(text)
<1>1. Relevant(text) \subseteq Topics \cup {Fallback}
  BY ClassifyRanks DEF Ranked
<1>2. QED
  BY <1>1, OrchAssumption DEF Tables, Table

LEMMA AskableFacts ==
  ASSUME NEW list \in Seq(Entries), NEW text, NEW costs
  PROVE  /\ Askable(list, text, costs) \subseteq Nat
         /\ Askable(list, text, costs) \subseteq DOMAIN list
         /\ \A i \in DOMAIN list : list[i] \in Entries /\ list[i] # Null
         /\ FirstRoutable(list, text, costs) = FirstOf(list, Askable(list, text, costs))
<1>1. DOMAIN list = 1 .. Len(list) /\ Len(list) \in Nat /\ \A i \in 1 .. Len(list) : list[i] \in Entries
  BY LenProperties
<1>2. QED
  BY <1>1, OrchAssumption DEF Askable, FirstRoutable

Shape(t, c) == [topic : {t}, curated : {c}, at : DOMAIN Table(t, c)]

\* Offers are the places at which the loops may stop.
LEMMA OffersAreAskable ==
  ASSUME NEW text \in BountyTexts
  PROVE  /\ \A t \in Relevant(text), c \in BOOLEAN : \A i \in Askable(Table(t, c), text, {"free", "gas-only"}) :
              /\ [topic |-> t, curated |-> c, at |-> i] \in Offers(text)
              /\ Table(t, c)[i].cost \in {"free", "gas-only"}
         /\ \A o \in Offers(text) :
              /\ o.topic \in Relevant(text) /\ o.curated \in BOOLEAN
              /\ o.at \in Askable(Table(o.topic, o.curated), text, {"free", "gas-only"})
<1>1. \A t \in Relevant(text), c \in BOOLEAN : \A i \in DOMAIN Table(t, c) :
        /\ Table(t, c)[i] \in Entries
        /\ Admissible(Table(t, c)[i], text) <=>
             i \in Askable(Table(t, c), text, {"free", "gas-only"})
  <2>1. SUFFICES ASSUME NEW t \in Relevant(text), NEW c \in BOOLEAN, NEW i \in DOMAIN Table(t, c)
                 PROVE  /\ Table(t, c)[i] \in Entries
                        /\ Admissible(Table(t, c)[i], text) <=>
                             i \in Askable(Table(t, c), text, {"free", "gas-only"})
    OBVIOUS
  <2> DEFINE e == Table(t, c)[i]
  <2>2. e \in Entries
    BY TablesOfEntries, AskableFacts DEF Tables
  <2>3. e.cost \in {"free", "gas-only", "voucher", "escrow"} /\ e.needs \subseteq {"handle", "id"}
    BY <2>2, OrchAssumption
  <2> HIDE DEF e
  <2>4. Admissible(e, text) <=>
          /\ entryIsRoutable(e) /\ e.cost \in {"free", "gas-only"} /\ resolveEntryArgs(e, text)
    <3>1. e.needs \subseteq (IF text.id THEN {"id"} ELSE {}) <=> resolveEntryArgs(e, text)
      BY <2>3 DEF resolveEntryArgs
    <3>2. QED
      BY <2>3, <3>1 DEF Admissible, entryIsRoutable
  <2>5. QED
    BY <2>2, <2>4 DEF Askable, e
<1>2. \A t \in Relevant(text), c \in BOOLEAN : \A i \in Askable(Table(t, c), text, {"free", "gas-only"}) :
        /\ [topic |-> t, curated |-> c, at |-> i] \in Offers(text)
        /\ Table(t, c)[i].cost \in {"free", "gas-only"}
  <2>1. SUFFICES ASSUME NEW t \in Relevant(text), NEW c \in BOOLEAN,
                        NEW i \in Askable(Table(t, c), text, {"free", "gas-only"})
                 PROVE  /\ [topic |-> t, curated |-> c, at |-> i] \in Offers(text)
                        /\ Table(t, c)[i].cost \in {"free", "gas-only"}
    OBVIOUS
  <2> DEFINE o == [topic |-> t, curated |-> c, at |-> i]
  <2>2. i \in DOMAIN Table(t, c) /\ Table(t, c)[i].cost \in {"free", "gas-only"}
    BY DEF Askable
  <2>3. o \in Shape(t, c)
    BY <2>2 DEF Shape
  <2>4. Offered(o) = Table(t, c)[i]
    BY DEF Offered
  <2>5. Admissible(Offered(o), text)
    BY <1>1, <2>2, <2>4
  <2> HIDE DEF o
  <2>6. o \in UNION {Shape(u, d) : u \in Relevant(text), d \in BOOLEAN}
    BY <2>3
  <2>7. o \in Offers(text)
    BY <2>5, <2>6 DEF Offers, Shape
  <2>8. QED
    BY <2>2, <2>7 DEF o
<1>3. ASSUME NEW o \in Offers(text)
      PROVE  /\ o.topic \in Relevant(text) /\ o.curated \in BOOLEAN
             /\ o.at \in Askable(Table(o.topic, o.curated), text, {"free", "gas-only"})
  <2>1. PICK t \in Relevant(text), c \in BOOLEAN : o \in Shape(t, c)
    <3>1. o \in UNION {Shape(u, d) : u \in Relevant(text), d \in BOOLEAN}
      BY DEF Offers, Shape
    <3>2. QED
      BY <3>1
  <2>2. o.topic = t /\ o.curated = c /\ o.at \in DOMAIN Table(t, c)
    BY <2>1 DEF Shape
  <2>3. Admissible(Table(t, c)[o.at], text)
    BY <2>2 DEF Offers, Offered
  <2>4. QED
    BY <1>1, <2>1, <2>2, <2>3
<1>4. QED
  BY <1>2, <1>3

\* The order of the loops: gas is spent on an entry of the index only for want of
\* any other; then the better topic, the curated table and the earlier entry count.
LastResort(o) == ~o.curated /\ Offered(o).cost # "free"

Beats(o, p, text) ==
  \/ ~LastResort(o) /\ LastResort(p)
  \/ /\ LastResort(o) = LastResort(p)
     /\ \/ o.topic # p.topic /\ Fits(o.topic, p.topic, text)
        \/ o.topic = p.topic /\ o.curated /\ ~p.curated
        \/ o.topic = p.topic /\ o.curated = p.curated /\ o.at < p.at

\* p counts no more than o among the offers of their topic.
Leads(o, p) ==
  /\ p.curated => o.curated
  /\ p.curated = o.curated => o.at <= p.at

\* o is an offer of topic t, a last resort or not, that leads all of its kind.
Leading(o, t, last, text) ==
  /\ o \in Offers(text) /\ o.topic = t /\ LastResort(o) = last
  /\ \A p \in Offers(text) : p.topic = t /\ LastResort(p) = last => Leads(o, p)

\* One list, looked through for its first entry at these costs.
LEMMA ListLeads ==
  ASSUME NEW text \in BountyTexts, NEW t \in Relevant(text), NEW c \in BOOLEAN, NEW costs,
         costs \subseteq {"free", "gas-only"}
  PROVE  LET list == Table(t, c)
             first == FirstRoutable(list, text, costs)
             these == {o \in Offers(text) : /\ o.topic = t /\ o.curated = c
                                            /\ Offered(o).cost \in costs}
         IN /\ first = Null <=> these = {}
            /\ first # Null => \E o \in these : /\ Offered(o) = first
                                                /\ \A p \in these : o.at <= p.at
<1> DEFINE list == Table(t, c)
           first == FirstRoutable(list, text, costs)
           these == {o \in Offers(text) : o.topic = t /\ o.curated = c /\ Offered(o).cost \in costs}
           found == Askable(list, text, costs)
<1>1. list \in Seq(Entries)
  BY TablesOfEntries DEF Tables
<1> HIDE DEF list
<1>2. /\ found \subseteq Nat /\ found \subseteq DOMAIN list
      /\ \A i \in found : list[i] # Null
      /\ first = FirstOf(list, found)
  BY <1>1, AskableFacts
<1> HIDE DEF first
<1>3. /\ first = Null <=> found = {}
      /\ found # {} => \E i \in found : first = list[i] /\ \A k \in found : i <= k
  BY <1>2, FirstFound
<1>4. \A i \in found : i \in Askable(list, text, {"free", "gas-only"}) /\ list[i].cost \in costs
  BY DEF Askable
<1>5. \A i \in found :
        /\ [topic |-> t, curated |-> c, at |-> i] \in these
        /\ Offered([topic |-> t, curated |-> c, at |-> i]) = list[i]
  <2>1. SUFFICES ASSUME NEW i \in found
                 PROVE  /\ [topic |-> t, curated |-> c, at |-> i] \in these
                        /\ Offered([topic |-> t, curated |-> c, at |-> i]) = list[i]
    OBVIOUS
  <2> DEFINE o == [topic |-> t, curated |-> c, at |-> i]
  <2>2. o.topic = t /\ o.curated = c /\ Offered(o) = list[i]
    BY DEF Offered, list
  <2>3. o \in Offers(text)
    BY <1>4, <2>1, OffersAreAskable DEF list
  <2> HIDE DEF o
  <2>4. o \in these
    BY <1>4, <2>1, <2>2, <2>3
  <2>5. QED
    BY <2>2, <2>4 DEF o
<1>6. \A o \in these : o.at \in found /\ Offered(o) = list[o.at]
  <2>1. SUFFICES ASSUME NEW o \in these PROVE o.at \in found /\ Offered(o) = list[o.at]
    OBVIOUS
  <2>2. Offered(o) = list[o.at]
    BY DEF Offered, list
  <2>3. o.at \in Askable(list, text, {"free", "gas-only"})
    BY OffersAreAskable DEF list
  <2>4. QED
    BY <2>1, <2>2, <2>3 DEF Askable
<1> HIDE DEF these, found
<1>7. first = Null <=> these = {}
  BY <1>3, <1>5, <1>6
<1>8. ASSUME first # Null
      PROVE  \E o \in these : Offered(o) = first /\ \A p \in these : o.at <= p.at
  <2>1. PICK i \in found : first = list[i] /\ \A k \in found : i <= k
    BY <1>3, <1>8
  <2> DEFINE o == [topic |-> t, curated |-> c, at |-> i]
  <2>2. o \in these /\ Offered(o) = first /\ o.at = i
    BY <1>5, <2>1
  <2>3. \A p \in these : o.at <= p.at
    BY <1>6, <2>1, <2>2
  <2> HIDE DEF o
  <2>4. QED
    BY <2>2, <2>3
<1>9. QED
  BY <1>7, <1>8 DEF these, first, list

LEMMA TopicLeads ==
  ASSUME NEW text \in BountyTexts, NEW t \in Relevant(text)
  PROVE  /\ Found(t, text) = Null =>
              \A o \in Offers(text) : o.topic = t => LastResort(o)
         /\ Found(t, text) # Null =>
              \E o : Leading(o, t, FALSE, text) /\ Offered(o) = Found(t, text)
         /\ FoundForGas(t, text) = Null =>
              \A o \in Offers(text) : o.topic = t => ~LastResort(o)
         /\ FoundForGas(t, text) # Null =>
              \E o : Leading(o, t, TRUE, text) /\ Offered(o) = FoundForGas(t, text)
<1> DEFINE handmade == FirstRoutable(Table(t, TRUE), text, {"free", "gas-only"})
           free == FirstRoutable(Table(t, FALSE), text, {"free"})
           gas == FirstRoutable(Table(t, FALSE), text, {"gas-only"})
           Of(c, costs) == {o \in Offers(text) : /\ o.topic = t /\ o.curated = c
                                                 /\ Offered(o).cost \in costs}
           C == Of(TRUE, {"free", "gas-only"})
           F == Of(FALSE, {"free"})
           G == Of(FALSE, {"gas-only"})
<1>1. Found(t, text) = (IF handmade = Null THEN free ELSE handmade) /\ FoundForGas(t, text) = gas
  BY DEF Found, FoundForGas, Or, Table
<1>2. /\ handmade = Null <=> C = {}
      /\ handmade # Null => \E o \in C : Offered(o) = handmade /\ \A p \in C : o.at <= p.at
  <2>1. ASSUME NEW both, both \subseteq {"free", "gas-only"}
        PROVE  LET first == FirstRoutable(Table(t, TRUE), text, both)
                   D == Of(TRUE, both)
               IN /\ first = Null <=> D = {}
                  /\ first # Null => \E o \in D : Offered(o) = first /\ \A p \in D : o.at <= p.at
    BY <2>1, ListLeads
  <2> HIDE DEF Of
  <2>2. QED
    BY <2>1
<1>3. /\ free = Null <=> F = {}
      /\ free # Null => \E o \in F : Offered(o) = free /\ \A p \in F : o.at <= p.at
  BY ListLeads
<1>4. /\ gas = Null <=> G = {}
      /\ gas # Null => \E o \in G : Offered(o) = gas /\ \A p \in G : o.at <= p.at
  BY ListLeads
<1> HIDE DEF handmade, free, gas
<1>5. \A o \in Offers(text) :
        /\ o.curated \in BOOLEAN
        /\ o.topic = t => (LastResort(o) <=> o \in G) /\ (~LastResort(o) <=> o \in C \cup F)
  <2>1. SUFFICES ASSUME NEW o \in Offers(text)
                 PROVE  /\ o.curated \in BOOLEAN
                        /\ o.topic = t => /\ LastResort(o) <=> o \in G
                                          /\ ~LastResort(o) <=> o \in C \cup F
    OBVIOUS
  <2>2. /\ o.topic \in Relevant(text) /\ o.curated \in BOOLEAN
        /\ o.at \in Askable(Table(o.topic, o.curated), text, {"free", "gas-only"})
    BY OffersAreAskable
  <2>3. Offered(o).cost \in {"free", "gas-only"}
    BY <2>2 DEF Askable, Offered
  <2>4. QED
    BY <2>2, <2>3 DEF LastResort
<1>6. (\A o \in C : o.curated) /\ (\A o \in F \cup G : ~o.curated)
      /\ (\A o \in C \cup F \cup G : o \in Offers(text) /\ o.topic = t)
  OBVIOUS
<1> HIDE DEF C, F, G
<1>7. /\ gas # Null => \E o : Leading(o, t, TRUE, text) /\ Offered(o) = gas
      /\ gas = Null => \A o \in Offers(text) : o.topic = t => ~LastResort(o)
  <2>1. ASSUME gas # Null PROVE \E o : Leading(o, t, TRUE, text) /\ Offered(o) = gas
    <3>1. PICK o \in G : Offered(o) = gas /\ \A p \in G : o.at <= p.at
      BY <1>4, <2>1
    <3>2. Leading(o, t, TRUE, text)
      BY <1>5, <1>6, <3>1 DEF Leading, Leads, LastResort
    <3>3. QED
      BY <3>1, <3>2
  <2>2. QED
    BY <1>4, <1>5, <2>1
<1>8. handmade # Null => \E o : Leading(o, t, FALSE, text) /\ Offered(o) = handmade
  <2>1. SUFFICES ASSUME handmade # Null PROVE \E o : Leading(o, t, FALSE, text) /\ Offered(o) = handmade
    OBVIOUS
  <2>2. PICK o \in C : Offered(o) = handmade /\ \A p \in C : o.at <= p.at
    BY <1>2, <2>1
  <2>3. Leading(o, t, FALSE, text)
    BY <1>5, <1>6, <2>2 DEF Leading, Leads, LastResort
  <2>4. QED
    BY <2>2, <2>3
<1>9. handmade = Null =>
        /\ free # Null => \E o : Leading(o, t, FALSE, text) /\ Offered(o) = free
        /\ free = Null => \A o \in Offers(text) : o.topic = t => LastResort(o)
  <2>1. SUFFICES ASSUME C = {}
                 PROVE  /\ free # Null => \E o : Leading(o, t, FALSE, text) /\ Offered(o) = free
                        /\ free = Null => \A o \in Offers(text) : o.topic = t => LastResort(o)
    BY <1>2
  <2>2. ASSUME free # Null PROVE \E o : Leading(o, t, FALSE, text) /\ Offered(o) = free
    <3>1. PICK o \in F : Offered(o) = free /\ \A p \in F : o.at <= p.at
      BY <1>3, <2>2
    <3>2. Leading(o, t, FALSE, text)
      BY <1>5, <1>6, <2>1, <3>1 DEF Leading, Leads, LastResort
    <3>3. QED
      BY <3>1, <3>2
  <2>3. QED
    BY <1>3, <1>5, <2>1, <2>2
<1>10. QED
  BY <1>1, <1>7, <1>8, <1>9

\* What the loops come to, said of the text and the entry.
BestFor(text, entry) ==
  LET offers == IF text.research /\ ~text.structured THEN {} ELSE Offers(text)
  IN IF offers = {} THEN entry = Null
     ELSE \E o \in offers : entry = Offered(o) /\ \A p \in offers : ~Beats(p, o, text)

\* An offer that leads its topic, with nothing in the topics before, is best.
LEMMA LeadingIsBest ==
  ASSUME NEW text \in BountyTexts, NEW topics, Ranked(topics, text), NEW last \in BOOLEAN,
         last => \A p \in Offers(text) : LastResort(p),
         NEW i \in 1 .. Len(topics), NEW o, Leading(o, topics[i], last, text),
         \A j \in 1 .. Len(topics), p \in Offers(text) :
           j < i /\ p.topic = topics[j] => LastResort(p) # last
  PROVE  \A p \in Offers(text) : ~Beats(p, o, text)
<1>1. SUFFICES ASSUME NEW p \in Offers(text), Beats(p, o, text) PROVE FALSE
  OBVIOUS
<1>2. o \in Offers(text) /\ o.topic = topics[i] /\ LastResort(o) = last
  BY DEF Leading
<1>3. LastResort(p) \in BOOLEAN
  BY DEF LastResort
<1>4. LastResort(p) = last
  BY <1>1, <1>2, <1>3 DEF Beats
<1>5. PICK j \in 1 .. Len(topics) : topics[j] = p.topic
  BY OffersAreAskable DEF Ranked
<1>6. ~(j < i)
  BY <1>4, <1>5
<1>7. /\ o.curated \in BOOLEAN /\ p.curated \in BOOLEAN /\ o.at \in Int /\ p.at \in Int
  <2>1. ASSUME NEW q \in Offers(text) PROVE q.curated \in BOOLEAN /\ q.at \in Int
    <3>1. /\ q.topic \in Relevant(text) /\ q.curated \in BOOLEAN
          /\ q.at \in Askable(Table(q.topic, q.curated), text, {"free", "gas-only"})
      BY OffersAreAskable
    <3>2. Table(q.topic, q.curated) \in Seq(Entries)
      BY <3>1, TablesOfEntries DEF Tables
    <3>3. Askable(Table(q.topic, q.curated), text, {"free", "gas-only"}) \subseteq Nat
      BY <3>2, AskableFacts
    <3>4. QED
      BY <3>1, <3>3
  <2>2. QED
    BY <1>2, <2>1
<1>8. CASE j = i
  <2>1. Leads(o, p)
    BY <1>2, <1>4, <1>5, <1>8 DEF Leading
  <2>2. p.topic = o.topic
    BY <1>2, <1>5, <1>8
  <2>3. QED
    BY <1>1, <1>2, <1>4, <1>7, <2>1, <2>2 DEF Beats, Leads
<1>9. CASE i < j
  <2>1. p.topic # o.topic /\ ~Fits(p.topic, o.topic, text)
    BY <1>2, <1>5, <1>9 DEF Ranked
  <2>2. QED
    BY <1>1, <1>2, <1>4, <2>1 DEF Beats
<1>10. Len(topics) \in Nat
  BY LenProperties DEF Ranked
<1>11. QED
  BY <1>6, <1>8, <1>9, <1>10

\* The loop over the topics ends with the best offer.
LEMMA RouteIsBest ==
  ASSUME NEW text \in BountyTexts
  PROVE  BestFor(text, route(classify(text), text))
<1> DEFINE topics == classify(text)
           places == 1 .. Len(topics)
           found == [i \in DOMAIN topics |-> Found(topics[i], text)]
           gas == [i \in DOMAIN topics |-> FoundForGas(topics[i], text)]
           hits == {i \in DOMAIN topics : found[i] # Null}
           gasHits == {i \in DOMAIN topics : gas[i] # Null}
           a == FirstOf(found, hits)
           b == FirstOf(gas, gasHits)
<1>1. Ranked(topics, text)
  BY ClassifyRanks
<1> HIDE DEF topics
<1>2. /\ DOMAIN topics = places /\ Len(topics) \in Nat
      /\ \A i \in places : topics[i] \in Relevant(text)
  BY <1>1, LenProperties DEF Ranked
<1>3. \A i \in places :
        /\ found[i] = Found(topics[i], text) /\ gas[i] = FoundForGas(topics[i], text)
        /\ i \in hits <=> Found(topics[i], text) # Null
        /\ i \in gasHits <=> FoundForGas(topics[i], text) # Null
  BY <1>2
<1>4. hits \subseteq places /\ gasHits \subseteq places /\ places \subseteq Nat
      /\ (\A i \in hits : found[i] # Null) /\ (\A i \in gasHits : gas[i] # Null)
  BY <1>2
<1> HIDE DEF found, gas, hits, gasHits
<1>5. /\ a = Null <=> hits = {}
      /\ hits # {} => \E i \in hits : a = found[i] /\ \A k \in hits : i <= k
  <2>1. hits \subseteq Nat
    BY <1>4
  <2>2. QED
    BY <1>4, <2>1, FirstFound
<1>6. /\ b = Null <=> gasHits = {}
      /\ gasHits # {} => \E i \in gasHits : b = gas[i] /\ \A k \in gasHits : i <= k
  <2>1. gasHits \subseteq Nat
    BY <1>4
  <2>2. QED
    BY <1>4, <2>1, FirstFound
<1> HIDE DEF a, b
<1>7. route(topics, text) =
        IF text.research /\ ~text.structured THEN Null ELSE IF a = Null THEN b ELSE a
  BY DEF route, isResearchClassContent, Or, a, b, hits, gasHits, found, gas
<1>8. \A p \in Offers(text) : \E j \in places : topics[j] = p.topic
  BY <1>1, OffersAreAskable DEF Ranked
<1>9. CASE text.research /\ ~text.structured
  BY <1>7, <1>9 DEF BestFor, topics
<1>10. CASE ~(text.research /\ ~text.structured) /\ a # Null
  <2>1. PICK i \in hits : a = found[i] /\ \A k \in hits : i <= k
    BY <1>5, <1>10
  <2>2. PICK o : Leading(o, topics[i], FALSE, text) /\ Offered(o) = a
    BY <1>2, <1>3, <1>4, <2>1, TopicLeads
  <2>3. \A j \in places, p \in Offers(text) :
          j < i /\ p.topic = topics[j] => LastResort(p) # FALSE
    <3>1. SUFFICES ASSUME NEW j \in places, NEW p \in Offers(text), j < i, p.topic = topics[j]
                   PROVE  LastResort(p)
      OBVIOUS
    <3>2. j \notin hits
      BY <1>2, <1>4, <2>1, <3>1
    <3>3. Found(topics[j], text) = Null
      BY <1>3, <3>2
    <3>4. QED
      BY <1>2, <3>1, <3>3, TopicLeads
  <2>4. \A p \in Offers(text) : ~Beats(p, o, text)
    BY <1>1, <1>4, <2>1, <2>2, <2>3, LeadingIsBest
  <2>5. QED
    BY <1>7, <1>10, <2>2, <2>4 DEF BestFor, Leading, topics
<1>11. CASE ~(text.research /\ ~text.structured) /\ a = Null
  <2>1. \A p \in Offers(text) : LastResort(p)
    <3>1. SUFFICES ASSUME NEW p \in Offers(text) PROVE LastResort(p)
      OBVIOUS
    <3>2. PICK j \in places : topics[j] = p.topic
      BY <1>8
    <3>3. Found(topics[j], text) = Null
      BY <1>3, <1>5, <1>11
    <3>4. QED
      BY <1>2, <3>2, <3>3, TopicLeads
  <2>2. CASE b = Null
    <3>1. Offers(text) = {}
      <4>1. SUFFICES ASSUME NEW p \in Offers(text) PROVE FALSE
        OBVIOUS
      <4>2. PICK j \in places : topics[j] = p.topic
        BY <1>8
      <4>3. FoundForGas(topics[j], text) = Null
        BY <1>3, <1>6, <2>2
      <4>4. QED
        BY <1>2, <2>1, <4>2, <4>3, TopicLeads
    <3>2. QED
      BY <1>7, <1>11, <2>2, <3>1 DEF BestFor, topics
  <2>3. CASE b # Null
    <3>1. PICK i \in gasHits : b = gas[i] /\ \A k \in gasHits : i <= k
      BY <1>6, <2>3
    <3>2. PICK o : Leading(o, topics[i], TRUE, text) /\ Offered(o) = b
      BY <1>2, <1>3, <1>4, <3>1, TopicLeads
    <3>3. \A j \in places, p \in Offers(text) :
            j < i /\ p.topic = topics[j] => LastResort(p) # TRUE
      <4>1. SUFFICES ASSUME NEW j \in places, NEW p \in Offers(text), j < i, p.topic = topics[j]
                     PROVE  ~LastResort(p)
        OBVIOUS
      <4>2. j \notin gasHits
        BY <1>2, <1>4, <3>1, <4>1
      <4>3. FoundForGas(topics[j], text) = Null
        BY <1>3, <4>2
      <4>4. QED
        BY <1>2, <4>1, <4>3, TopicLeads
    <3>4. \A p \in Offers(text) : ~Beats(p, o, text)
      BY <1>1, <1>4, <2>1, <3>1, <3>2, <3>3, LeadingIsBest
    <3>5. QED
      BY <1>7, <1>11, <3>2, <3>4 DEF BestFor, Leading, topics
  <2>4. QED
    BY <2>2, <2>3
<1>12. QED
  BY <1>9, <1>10, <1>11

\* What may be asked is a query of the registry.
LEMMA BestIsQuery ==
  ASSUME NEW text \in BountyTexts, NEW entry, BestFor(text, entry)
  PROVE  entry \in {e \in Entries : e.callType = "query"} \cup {Null}
<1>1. SUFFICES ASSUME entry # Null PROVE entry \in {e \in Entries : e.callType = "query"}
  OBVIOUS
<1>2. PICK o \in Offers(text) : entry = Offered(o)
  BY <1>1 DEF BestFor
<1>3. /\ o.topic \in Relevant(text) /\ o.curated \in BOOLEAN
      /\ o.at \in Askable(Table(o.topic, o.curated), text, {"free", "gas-only"})
  BY OffersAreAskable
<1>4. Table(o.topic, o.curated) \in Seq(Entries)
  BY <1>3, TablesOfEntries DEF Tables
<1>5. o.at \in DOMAIN Table(o.topic, o.curated) /\ entryIsRoutable(Offered(o))
  BY <1>3 DEF Askable, Offered
<1>6. Offered(o) \in Entries
  BY <1>4, <1>5, AskableFacts DEF Offered
<1>7. QED
  BY <1>2, <1>5, <1>6 DEF entryIsRoutable

\* The entry asked stays the one routed to, from the routing to the submit.
RoutedIsBest == step # "idle" => bounty \in BountyTexts /\ BestFor(bounty, chosen)

OrchInv == OrchTypeOK /\ RoutedIsBest

LEMMA InitOrchInv == OrchInit => OrchInv
BY DEF OrchInit, OrchInv, OrchTypeOK, RoutedIsBest

LEMMA NextOrchInv == OrchInv /\ [OrchNext]_orchVars => OrchInv'
<1> SUFFICES ASSUME OrchTypeOK, RoutedIsBest, [OrchNext]_orchVars PROVE OrchTypeOK' /\ RoutedIsBest'
  BY DEF OrchInv
<1> USE DEF GoesTo
<1>1. chosen # Null => chosen.program \in Programs
  BY DEF OrchTypeOK, Programs
<1>2. ASSUME NEW text \in BountyTexts, Takes(text) PROVE OrchTypeOK' /\ RoutedIsBest'
  <2>1. BestFor(text, chosen')
    BY <1>2, RouteIsBest DEF Takes
  <2>2. chosen' \in {e \in Entries : e.callType = "query"} \cup {Null}
    BY <2>1, BestIsQuery
  <2>3. bounty' = text /\ sailsCache' = sailsCache
        /\ step' = IF chosen' = Null THEN "groq" ELSE "routed"
    BY <1>2 DEF Takes
  <2>4. OrchTypeOK'
    BY <2>2, <2>3 DEF OrchTypeOK
  <2>5. RoutedIsBest'
    BY <2>1, <2>3 DEF RoutedIsBest, BestFor
  <2>6. QED
    BY <2>4, <2>5
<1>3. CASE /\ UNCHANGED <<bounty, chosen>> /\ step # "idle"
           /\ step' \in {"loading", "querying", "groq", "submitting"}
           /\ step' \in {"loading", "querying"} => chosen # Null
           /\ sailsCache' \in [Programs -> {"absent", "pending", "parsed", "rejected"}]
  <2>1. OrchTypeOK'
    BY <1>3 DEF OrchTypeOK
  <2>2. RoutedIsBest'
    BY <1>3 DEF RoutedIsBest
  <2>3. QED
    BY <2>1, <2>2
<1>4. CASE GetsSails
  BY <1>1, <1>3, <1>4 DEF GetsSails, Settles, OrchTypeOK
<1>5. CASE Loaded
  BY <1>1, <1>3, <1>5 DEF Loaded, Settles, OrchTypeOK
<1>6. CASE LoadFails
  BY <1>1, <1>3, <1>6 DEF LoadFails, Settles, LeftInCache, OrchTypeOK
<1>7. CASE QueryTimesOut \/ QueryAnswers \/ QueryFails
  BY <1>1, <1>3, <1>7 DEF QueryTimesOut, QueryAnswers, QueryFails, OrchTypeOK
<1>8. CASE GroqEnds
  BY <1>3, <1>8 DEF GroqEnds, OrchTypeOK
<1>9. CASE Submits
  BY <1>9 DEF Submits, OrchTypeOK, RoutedIsBest
<1>10. CASE UNCHANGED orchVars
  BY <1>10 DEF orchVars, OrchTypeOK, RoutedIsBest
<1>11. QED
  BY <1>2, <1>4, <1>5, <1>6, <1>7, <1>8, <1>9, <1>10 DEF OrchNext, OwnStep

\* Only queries are ever routed to, and a query is under way only with an entry
\* chosen, for every table, text and order of topics (router.ts, caller.ts).
THEOREM OrchTypesKept == OrchSpec => []OrchTypeOK
<1>1. OrchInv => OrchTypeOK
  BY DEF OrchInv
<1>2. QED
  BY <1>1, InitOrchInv, NextOrchInv, PTL DEF OrchSpec

\* A better offer beats in the order of the loops.
LEMMA BetterBeats ==
  ASSUME NEW text \in BountyTexts, NEW o \in Offers(text), NEW p \in Offers(text),
         Better(p, o, text)
  PROVE  Beats(p, o, text)
<1>1. /\ o.curated \in BOOLEAN /\ p.curated \in BOOLEAN
      /\ Offered(o).cost \in {"free", "gas-only"} /\ Offered(p).cost \in {"free", "gas-only"}
  BY OffersAreAskable DEF Askable, Offered
<1>2. LastResort(o) \in BOOLEAN /\ LastResort(p) \in BOOLEAN
  BY DEF LastResort
<1>3. LastResort(p) => LastResort(o)
  BY <1>1 DEF Better, LastResort, Costless
<1>4. QED
  BY <1>1, <1>2, <1>3 DEF Better, Beats, LastResort, Costless

\* A topic with overrides has a curated offer, which goes before the index.
LEMMA OverrideBeats ==
  ASSUME NEW text \in BountyTexts, NEW o \in Offers(text),
         ~o.curated, TOPIC_OVERRIDES[o.topic] # <<>>
  PROVE  \E p \in Offers(text) : Beats(p, o, text)
<1>1. o.topic \in Relevant(text)
  BY OffersAreAskable
<1>2. o.topic \in Topics \cup {Fallback}
  BY <1>1 DEF Relevant
<1>3. PICK i \in DOMAIN TOPIC_OVERRIDES[o.topic] :
        LET e == TOPIC_OVERRIDES[o.topic][i]
        IN e.callType = "query" /\ e.auth = "none" /\ e.cost \in {"free", "gas-only"} /\ e.needs = {}
  BY <1>2, OrchAssumption
<1>4. Table(o.topic, TRUE) = TOPIC_OVERRIDES[o.topic]
  BY DEF Table
<1>5. i \in Askable(Table(o.topic, TRUE), text, {"free", "gas-only"})
  BY <1>3, <1>4 DEF Askable, entryIsRoutable, resolveEntryArgs
<1> DEFINE p == [topic |-> o.topic, curated |-> TRUE, at |-> i]
<1>6. p \in Offers(text)
  BY <1>1, <1>5, OffersAreAskable
<1>7. /\ ~LastResort(p) /\ p.topic = o.topic /\ p.curated
      /\ LastResort(p) \in BOOLEAN /\ LastResort(o) \in BOOLEAN
  BY DEF LastResort
<1> HIDE DEF p
<1>8. Beats(p, o, text)
  <2>1. CASE LastResort(o)
    BY <1>7, <2>1 DEF Beats
  <2>2. CASE ~LastResort(o)
    BY <1>7, <2>2 DEF Beats
  <2>3. QED
    BY <2>1, <2>2
<1>9. QED
  BY <1>6, <1>8

\* The loops of classify and route pass over no offer that is better in what the
\* sources say, and nobody is asked only if there is no offer, whatever the
\* tables, the scores and the limit of topics (classifier.ts, router.ts).
THEOREM NothingBetterPassedOver == OrchSpec => []NoBetterOffer
<1>1. OrchInv => NoBetterOffer
  <2>1. SUFFICES ASSUME bounty \in BountyTexts, step # "idle", BestFor(bounty, chosen)
                 PROVE  NoBetterOffer
    BY DEF OrchInv, RoutedIsBest, NoBetterOffer
  <2>3. CASE bounty.research /\ ~bounty.structured
    BY <2>1, <2>3 DEF BestFor, NoBetterOffer
  <2>4. CASE ~(bounty.research /\ ~bounty.structured)
    <3>1. CASE Offers(bounty) = {}
      BY <2>1, <2>4, <3>1 DEF BestFor, NoBetterOffer
    <3>2. CASE Offers(bounty) # {}
      <4>1. PICK o \in Offers(bounty) :
              chosen = Offered(o) /\ \A p \in Offers(bounty) : ~Beats(p, o, bounty)
        BY <2>1, <2>4, <3>2 DEF BestFor
      <4>2. ~o.curated => TOPIC_OVERRIDES[o.topic] = <<>>
        BY <2>1, <4>1, OverrideBeats
      <4>3. \A p \in Offers(bounty) : ~Better(p, o, bounty)
        BY <2>1, <4>1, BetterBeats
      <4>4. QED
        BY <2>4, <3>2, <4>1, <4>2, <4>3 DEF NoBetterOffer
    <3>3. QED
      BY <3>1, <3>2
  <2>5. QED
    BY <2>3, <2>4
<1>2. QED
  BY <1>1, InitOrchInv, NextOrchInv, PTL DEF OrchSpec

-------------------------------------------------------------------------------
(* The seven parts together.                                                  *)

\* Each part, explored beside the others, does what its own specification says:
\* what is proved of one part holds of the composition.
THEOREM EachPartRuns ==
  MCSpec => RepSpec /\ FeedsSpec /\ RespSpec /\ PosterSpec /\ SubsSpec /\ IngestSpec /\ OrchSpec
<1> USE DEF notRep, notFeeds, notResp, notPoster, notSubs, notIngest, notOrch, partsVars
<1>1. MCInit => /\ RepInit /\ FeedsInit /\ RespInit /\ PosterInit
                /\ SubsInit /\ IngestInit /\ OrchInit
  BY DEF MCInit
<1>2. [MCNext]_partsVars => [RepNext]_repVars
  BY DEF MCNext
<1>3. [MCNext]_partsVars => [FeedsNext]_feedsVars
  BY DEF MCNext
<1>4. [MCNext]_partsVars => [RespNext]_respVars
  BY DEF MCNext
<1>5. [MCNext]_partsVars => [PosterNext]_posterVars
  BY DEF MCNext
<1>6. [MCNext]_partsVars => [SubsNext]_subsVars
  BY DEF MCNext
<1>7. [MCNext]_partsVars => [IngestNext]_ingestVars
  BY DEF MCNext
<1>8. [MCNext]_partsVars => [OrchNext]_orchVars
  BY DEF MCNext
<1>9. QED
  BY <1>1, <1>2, <1>3, <1>4, <1>5, <1>6, <1>7, <1>8, PTL
     DEF MCSpec, RepSpec, FeedsSpec, RespSpec, PosterSpec, SubsSpec, IngestSpec, OrchSpec

\* Every part keeps its types while the parts are explored together: the widths
\* of the contracts' counters, the poster's cap per bounty, queries only.
THEOREM PartsTypesKept == MCSpec => []PartsTypeOK
<1>1. EarningsInv => RepTypeOK
  BY DEF EarningsInv, CountsInv
<1>2. RepSpec => []RepTypeOK
  BY <1>1, RepInvariance, PTL
<1>3. RepTypeOK /\ FeedsTypeOK /\ RespTypeOK /\ PosterTypeOK /\ SubsTypeOK /\ IngestTypeOK
      /\ OrchTypeOK => PartsTypeOK
  BY DEF PartsTypeOK
<1>4. QED
  BY <1>2, <1>3, EachPartRuns, FeedsTypesKept, RespTypeCorrectness, PosterTypesKept,
     SubsTypeCorrectness, IngestTypesKept, OrchTypesKept, PTL
===============================================================================
