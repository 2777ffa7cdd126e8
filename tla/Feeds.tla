--------------------------------- MODULE Feeds ---------------------------------
(***************************************************************************)
(* The demand telegraph: FeedsState and post_boosted, the one method of    *)
(* FeedsService that changes it (programs/bountymesh-feeds/app/src). Anyone *)
(* but the program itself may call. One message at a time.                 *)
(*                                                                         *)
(* Counters keep their width: MaxU32 is u32::MAX, MaxU128 u128::MAX,   *)
(* both small in the runs. A track without an entry has demand 0.          *)
(***************************************************************************)
EXTENDS Integers, FiniteSets, Collections

CONSTANTS
  Tracks,          \* TrackEnum
  Bases,           \* base rewards some caller names
  Multipliers,     \* multipliers in basis points some caller names
  MinMultiplier,   \* MIN_MULTIPLIER_BPS
  MaxMultiplier,   \* MAX_MULTIPLIER_BPS
  Denom,           \* BPS_DENOM
  MaxU32,        \* u32::MAX
  MaxU128        \* u128::MAX

ASSUME FeedsAssumption ==
  /\ IsFiniteSet(Tracks)
  /\ Multipliers \subseteq Nat
  /\ {MinMultiplier, MaxMultiplier, MaxU32, MaxU128} \subseteq Nat
  /\ Denom \in Nat \ {0}
  /\ 2 * MinMultiplier >= Denom
  /\ MaxMultiplier <= 2 * Denom
  /\ Bases \subseteq 0 .. MaxU128

VARIABLES
  total_signals,
  track_demand,
  total_effective_atomic,
  base_total,   \* history: sum of the base rewards signalled while exact
  exact         \* history: no counter has been capped so far

feedsVars == <<total_signals, track_demand, total_effective_atomic, base_total, exact>>

FeedsInit ==
  /\ total_signals = 0
  /\ track_demand = [t \in Tracks |-> 0]
  /\ total_effective_atomic = 0
  /\ base_total = 0
  /\ exact = TRUE

saturated(n, max) == IF n > max THEN max ELSE n

\* `+= 1` on a u32 in a build without overflow checks.
wrapped(n) == n % (MaxU32 + 1)

\* Mutation of ValidMultiplier: no upper bound.
ValidMultiplierBelow(multiplier) == MinMultiplier <= multiplier

ValidMultiplier(multiplier) ==
  MinMultiplier <= multiplier /\ multiplier <= MaxMultiplier

effective(base, multiplier) == saturated(base * multiplier, MaxU128) \div Denom

\* Mutation of bump: the counter of every track already signalled is raised.
bumpAll(track) ==
  track_demand' = [t \in Tracks |-> IF t = track \/ track_demand[t] > 0
                                    THEN wrapped(track_demand[t] + 1) ELSE 0]

bump(track) == track_demand' = [track_demand EXCEPT ![track] = wrapped(@ + 1)]

post_boosted(track, base, multiplier) ==
  /\ base # 0
  /\ ValidMultiplier(multiplier)
  /\ total_signals' = saturated(total_signals + 1, MaxU32)
  /\ total_effective_atomic' =
       saturated(total_effective_atomic + effective(base, multiplier), MaxU128)
  /\ bump(track)
  /\ exact' = (/\ exact
               /\ total_signals < MaxU32
               /\ base * multiplier <= MaxU128
               /\ total_effective_atomic + effective(base, multiplier) <= MaxU128)
  /\ base_total' = IF exact' THEN base_total + base ELSE base_total

\* InvalidReward, InvalidMultiplier and SelfLoop change nothing.
Refused(base, multiplier) ==
  /\ base = 0 \/ ~ValidMultiplier(multiplier)
  /\ UNCHANGED feedsVars

FeedsNext ==
  \E base \in Bases, multiplier \in Multipliers :
    \/ \E track \in Tracks : post_boosted(track, base, multiplier)
    \/ Refused(base, multiplier)

FeedsSpec == FeedsInit /\ [][FeedsNext]_feedsVars

-------------------------------------------------------------------------------
FeedsTypeOK ==
  /\ total_signals \in 0 .. MaxU32
  /\ track_demand \in [Tracks -> 0 .. MaxU32]
  /\ total_effective_atomic \in 0 .. MaxU128
  /\ base_total \in Nat
  /\ exact \in BOOLEAN

\* As long as the total has not reached its largest value, every signal is
\* counted for exactly one track: the per-track counters add up to the total,
\* and none has wrapped. (The total then stays where it is and the counters
\* wrap, so nothing is claimed beyond.)
DemandAddsUp ==
  total_signals < MaxU32 => Total(track_demand, Tracks) = total_signals

\* No track ever claims more signals than the contract has had, the wrapping
\* of its counter included.
NoTrackAhead == \A t \in Tracks : track_demand[t] <= total_signals

\* Until something saturates, the boosts keep the effective total between half
\* and twice what the callers named, less than one unit a signal lost to
\* rounding.
EffectiveBand ==
  exact =>
    /\ base_total <= 2 * total_effective_atomic + total_signals
    /\ total_effective_atomic <= 2 * base_total

===============================================================================
