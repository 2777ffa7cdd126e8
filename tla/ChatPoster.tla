------------------------------ MODULE ChatPoster ------------------------------
(***************************************************************************)
(* The chat-poster (services/chat-poster/src/main.ts): one cycle after     *)
(* another, each asking aan-tv for coverage every fourth time and posting  *)
(* to the chat hub. Which text is posted, whom it mentions and the price   *)
(* and voucher calls, which only log, are left out.                        *)
(*                                                                         *)
(* A call is sent and lands; its answer may be lost before or after that,  *)
(* and the call then throws. The counters live in the process.             *)
(***************************************************************************)
EXTENDS Integers, Sequences, FiniteSets

CONSTANTS
  Invited,         \* ids of bounties, larger ones being newer
  Matching,        \* those of them for which an agent whose handle is resolved matches
  MAX_INVITATIONS_PER_BOUNTY,
  COVERAGE_DAILY_CAP,
  ONE_DAY_MS,      \* in ticks of the clock
  CoverageEvery,   \* a coverage cycle is every fourth
  MaxTicks,        \* bound: the clock
  MaxCycles,       \* bound: cycles between two ticks
  MaxThrows        \* bound: calls that throw, and crashes

ASSUME PosterAssumption ==
  /\ Invited \subseteq Nat \ {0} /\ Matching \subseteq Invited
  /\ {MAX_INVITATIONS_PER_BOUNTY, COVERAGE_DAILY_CAP, ONE_DAY_MS} \subseteq Nat \ {0}
  /\ {MaxTicks, MaxCycles, MaxThrows} \subseteq Nat
  /\ CoverageEvery \in Nat \ {0} /\ CoverageEvery % 2 = 0

VARIABLES
  clock,        \* Date.now()
  listed,       \* external: the open bounties the indexer lists, and
                \* Settlement once it knows of a withdrawal
  aanTvSails,   \* whether aan-tv's client was built at the start
  cycleIndex,   \* modulo CoverageEvery
  invitationCounts,
  coverageRequestLog,
  process,      \* processes that have died so far
  cycle,        \* where the cycle stands
  begun,        \* cycles begun since the last tick
  throws,
  landed        \* history: the coverage requests and invitations on the chain,
                \* the process that sent them, and whether it learnt of them

posterMemory == <<aanTvSails, cycleIndex, invitationCounts, coverageRequestLog, process>>
posterVars == <<clock, listed, posterMemory, cycle, begun, throws, landed>>

\* Not bounties: a withdrawal in the list, a coverage request in `landed`.
Settlement == 0
Coverage == 0

Asleep == [at |-> "asleep", kind |-> "none", bounty |-> 0, since |-> 0,
           queue |-> FALSE, posts |-> 0, threw |-> FALSE]

PosterInit ==
  /\ clock = 0 /\ listed = {}
  /\ aanTvSails \in BOOLEAN
  /\ cycleIndex = 0 /\ process = 0
  /\ invitationCounts = [b \in Invited |-> 0]
  /\ coverageRequestLog = <<>>
  /\ cycle = Asleep
  /\ begun = 0 /\ throws = 0 /\ landed = <<>>

isCoverageCycle == aanTvSails /\ cycleIndex = 0
preferDataDriven == cycleIndex % 2 = 0

Throwing == throws < MaxThrows /\ throws' = throws + 1
Goes(at) == cycle' = [cycle EXCEPT !.at = at]

\* The call under way is on the chain: what it is about.
Lands(about) ==
  landed' = Append(landed, [about |-> about, at |-> cycle.since, process |-> process, lost |-> FALSE])

\* The process does not learn that its last call has landed.
Loses == landed' = [landed EXCEPT ![Len(landed)].lost = TRUE]

-------------------------------------------------------------------------------
(* The world.                                                               *)

TimePasses ==
  /\ clock < MaxTicks
  /\ clock' = clock + 1
  /\ begun' = 0
  /\ UNCHANGED <<listed, posterMemory, cycle, throws, landed>>

\* Bounties open and close, and the first withdrawal settles one.
ListingChanges ==
  /\ \/ \E b \in Invited : listed' \in {listed \cup {b}, listed \ {b}}
     \/ listed' = listed \cup {Settlement}
  /\ UNCHANGED <<clock, posterMemory, cycle, begun, throws, landed>>

-------------------------------------------------------------------------------
(* The coverage request of a coverage cycle.                                *)

Begin ==
  /\ cycle.at = "asleep"
  /\ begun < MaxCycles
  /\ begun' = begun + 1
  /\ Goes(IF isCoverageCycle THEN "coverage" ELSE "data")
  /\ UNCHANGED <<clock, listed, posterMemory, throws, landed>>

\* Mutation of Expired: a request is dropped a tick too early.
ExpiredEarly(t) == clock - t >= ONE_DAY_MS

Expired(t) == clock - t > ONE_DAY_MS

\* How often the loop shifts: up to the first entry that has not expired.
Shifts(n) ==
  /\ \A i \in 1 .. n : Expired(coverageRequestLog[i])
  /\ n < Len(coverageRequestLog) => ~Expired(coverageRequestLog[n + 1])

\* The log after the loop of shift().
Trimmed ==
  LET n == CHOOSE n \in 0 .. Len(coverageRequestLog) : Shifts(n)
  IN SubSeq(coverageRequestLog, n + 1, Len(coverageRequestLog))

\* aan-tv's queue is read and has entries, or not; then the cap is asked.
CoverageTurn ==
  /\ cycle.at = "coverage"
  /\ coverageRequestLog' = Trimmed
  /\ \E queue \in BOOLEAN :
       cycle' = [cycle EXCEPT
         !.queue = queue,
         !.since = clock,
         !.at = IF Len(Trimmed) < COVERAGE_DAILY_CAP THEN "asking" ELSE "narrating"]
  /\ UNCHANGED <<clock, listed, aanTvSails, cycleIndex, invitationCounts, process, begun, throws, landed>>

RequestLands ==
  /\ cycle.at = "asking"
  /\ Lands(Coverage)
  /\ Goes("asked")
  /\ UNCHANGED <<clock, listed, posterMemory, begun, throws>>

\* `now` was read before the call and is what is logged.
RequestReturns ==
  /\ cycle.at = "asked"
  /\ coverageRequestLog' = Append(coverageRequestLog, cycle.since)
  /\ Goes("narrating")
  /\ UNCHANGED <<clock, listed, aanTvSails, cycleIndex, invitationCounts, process, begun, throws, landed>>

\* requestAanTvCoverage throws, whether or not it has landed: logged only.
RequestThrows ==
  /\ cycle.at \in {"asking", "asked"}
  /\ Throwing
  /\ IF cycle.at = "asked" THEN Loses ELSE UNCHANGED landed
  /\ Goes("narrating")
  /\ UNCHANGED <<clock, listed, posterMemory, begun>>

-------------------------------------------------------------------------------
(* What the cycle posts. Each branch posts, or falls through to the next.    *)

Posts(kind, bounty) ==
  cycle' = [cycle EXCEPT !.at = "posting", !.kind = kind, !.bounty = bounty]

AtBranch(at) ==
  /\ cycle.at = at
  /\ UNCHANGED <<clock, listed, posterMemory, begun, throws, landed>>

Narrate ==
  /\ AtBranch("narrating")
  /\ IF cycle.queue THEN Posts("coverage", 0) ELSE Goes("data")

\* Even cycles: the last settlement, else the oldest open bounty; a query that
\* fails counts as finding nothing.
DataDriven ==
  /\ AtBranch("data")
  /\ \/ preferDataDriven /\ Settlement \in listed /\ Posts("settle", 0)
     \/ preferDataDriven /\ listed \cap Invited # {} /\ Posts("oldest", 0)
     \/ Goes("invite")

HasInvitationsLeft(b) == invitationCounts[b] < MAX_INVITATIONS_PER_BOUNTY

\* The newest open bounty that has invitations left: not the newest of those
\* for which an agent matches.
pickBountyForInvitation(b) ==
  /\ b \in listed /\ HasInvitationsLeft(b)
  /\ \A c \in Invited \cap listed : HasInvitationsLeft(c) => c <= b

\* `!posted`
Unposted == cycle.posts = 0

\* An invitation, or the generic text when there is no candidate, no agent
\* matches it or the query fails.
Invite ==
  /\ AtBranch("invite")
  /\ IF ~Unposted THEN Goes("ending")
     ELSE \/ \E b \in Matching : pickBountyForInvitation(b) /\ Posts("invitation", b)
          \/ Posts("generic", 0)

PostLands ==
  /\ cycle.at = "posting"
  /\ cycle' = [cycle EXCEPT !.at = "posted", !.posts = @ + 1]
  /\ IF cycle.kind = "invitation" THEN Lands(cycle.bounty) ELSE UNCHANGED landed
  /\ UNCHANGED <<clock, listed, posterMemory, begun, throws>>

\* Where a cycle goes on after a post of each kind.
Following(kind) ==
  CASE kind = "coverage" -> "data"
    [] kind \in {"settle", "oldest"} -> "invite"
    [] OTHER -> "ending"

PostReturns ==
  /\ cycle.at = "posted"
  /\ invitationCounts' = IF cycle.kind = "invitation"
                         THEN [invitationCounts EXCEPT ![cycle.bounty] = @ + 1]
                         ELSE invitationCounts
  /\ Goes(Following(cycle.kind))
  /\ UNCHANGED <<clock, listed, aanTvSails, cycleIndex, coverageRequestLog, process, begun, throws, landed>>

\* postChat throws, whether or not it has landed: the cycle is over.
PostThrows ==
  /\ cycle.at \in {"posting", "posted"}
  /\ Throwing
  /\ IF cycle.at = "posted" /\ cycle.kind = "invitation" THEN Loses ELSE UNCHANGED landed
  /\ cycle' = [cycle EXCEPT !.at = "ending", !.threw = TRUE]
  /\ UNCHANGED <<clock, listed, posterMemory, begun>>

End ==
  /\ cycle.at = "ending"
  /\ cycle' = Asleep
  /\ cycleIndex' = (cycleIndex + 1) % CoverageEvery
  /\ UNCHANGED <<clock, listed, aanTvSails, invitationCounts, coverageRequestLog, process, begun, throws, landed>>

\* The process dies and is started again: its memory is new.
PosterCrash ==
  /\ Throwing
  /\ aanTvSails' \in BOOLEAN
  /\ cycleIndex' = 0 /\ process' = process + 1
  /\ invitationCounts' = [b \in Invited |-> 0]
  /\ coverageRequestLog' = <<>>
  /\ cycle' = Asleep
  /\ UNCHANGED <<clock, listed, begun, landed>>

PosterNext ==
  \/ TimePasses \/ ListingChanges
  \/ Begin \/ CoverageTurn \/ RequestLands \/ RequestReturns \/ RequestThrows
  \/ Narrate \/ DataDriven \/ Invite
  \/ PostLands \/ PostReturns \/ PostThrows
  \/ End \/ PosterCrash

PosterSpec == PosterInit /\ [][PosterNext]_posterVars

-------------------------------------------------------------------------------
LandedCall == [about : Invited \cup {Coverage}, at : Nat, process : Nat, lost : BOOLEAN]
CycleState == [at : {"asleep", "coverage", "asking", "asked", "narrating", "data", "invite",
                "posting", "posted", "ending"},
          kind : {"none", "coverage", "settle", "oldest", "invitation", "generic"},
          bounty : Invited \cup {0}, since : Nat, queue : BOOLEAN, posts : Nat, threw : BOOLEAN]

PosterTypeOK ==
  /\ clock \in Nat /\ listed \subseteq Invited \cup {Settlement}
  /\ aanTvSails \in BOOLEAN /\ cycleIndex \in 0 .. CoverageEvery - 1
  /\ invitationCounts \in [Invited -> 0 .. MAX_INVITATIONS_PER_BOUNTY]
  /\ coverageRequestLog \in Seq(Nat) /\ Len(coverageRequestLog) <= COVERAGE_DAILY_CAP
  /\ cycle \in CycleState /\ landed \in Seq(LandedCall)
  /\ {process, begun, throws} \subseteq Nat

\* What one process has landed and knows of.
Known(p, about) == {i \in DOMAIN landed : landed[i].process = p /\ landed[i].about = about
                                            /\ ~landed[i].lost}

\* "Capped at 4 RequestCoverage calls per rolling 24h" (main.ts:442): in every
\* window of a day, both ends included, a process sends no more requests than
\* the cap, those aside of whose landing it did not learn. A lost answer and a
\* restart each let more through.
CoverageCap ==
  \A p \in 0 .. process, t \in 0 .. clock :
    Cardinality({i \in Known(p, Coverage) : landed[i].at \in t .. t + ONE_DAY_MS})
      <= COVERAGE_DAILY_CAP

\* "at most 2 invitation posts per bounty" (main.ts:15): of one process, and
\* those aside of whose landing it did not learn, however often the bounty
\* leaves and enters the indexer's list.
InvitedAtMostTwice ==
  \A p \in 0 .. process, b \in Invited :
    Cardinality(Known(p, b)) <= MAX_INVITATIONS_PER_BOUNTY

\* Both caps of one process hold together.
CapsKept == CoverageCap /\ InvitedAtMostTwice

================================================================================
