-------------------------------- MODULE Cycler --------------------------------
(***************************************************************************)
(* The bounty-cycler (services/bounty-cycler/src/main.ts) at work on the   *)
(* market of BountyMesh: every cycle posts a bounty, waits, asks the       *)
(* indexer which of its bounties are submitted and accepts them one after  *)
(* another. The calls that only decorate a posting (context, price, demand *)
(* signal; a failure of theirs is logged) are left out. The same key also  *)
(* signs elsewhere: scripts/recover-open-bounties.ts and cancel-71-81.ts   *)
(* cancel with it, seed-mainnet.ts posts, the web app offers it the rest.  *)
(*                                                                         *)
(* A call of the SDK (packages/sdk/src/client.ts) lands, and then its      *)
(* reply comes back. signAndSend or response() may throw before, after, or *)
(* although the call lands later. The indexer's rows lag, and a row whose  *)
(* event went to parse_errors stays as it is.                              *)
(***************************************************************************)
EXTENDS BountyMesh

CONSTANTS
  Operator,            \* the account the cycler signs with
  POST_REWARD_ATOMIC,
  MaxBegun,            \* bound: `begun` counts no further
  MaxLost              \* bound: calls and queries that throw, and crashes

ASSUME CyclerAssumption ==
  /\ Operator \in Actors
  /\ POST_REWARD_ATOMIC \in Rewards \cap Values
  /\ NoBlock \in Deadlines
  /\ {MaxBegun, MaxLost} \subseteq Nat

VARIABLES
  shown,   \* external: the ids the indexer shows as Submitted
  stuck,   \* external: rows that do not change any more
  cyc,     \* where the cycle stands
  late,    \* calls the cycler gave up that may still land
  lost,    \* what has gone wrong so far
  begun,   \* history: cycles begun
  posted   \* history: the bounties the cycler's own calls posted

cyclerOwn == <<cyc, late, lost, begun, posted>>
cyclerVars == <<vars, shown, stuck, cyclerOwn>>

APost == -1   \* the call of a posting; the call of an acceptance is its id
Resting == [at |-> "resting", call |-> APost, ok |-> FALSE, todo |-> {}]

CyclerInit ==
  /\ Init
  /\ shown = {}
  /\ stuck = {}
  /\ cyc = Resting
  /\ late = {}
  /\ lost = 0 /\ begun = 0 /\ posted = {}

Losing == lost < MaxLost /\ lost' = lost + 1

-------------------------------------------------------------------------------
(* The market and its indexer.                                              *)

\* Every other account calls what it likes.
OthersCall ==
  /\ NextBlock \/ \E source \in Actors \ {Operator} : CallBy(source)
  /\ UNCHANGED <<shown, stuck, cyclerOwn>>

\* The operator's key in other hands than the cycler's does what a poster may:
\* the scripts post and cancel Open bounties, those of the cycler among them, and
\* the web app lets the poster cancel, accept and reject.
KeyElsewhere ==
  /\ \/ \E reward \in Rewards, value \in Values, deadline \in Deadlines, track \in Tracks :
          Post(Operator, reward, value, deadline, track)
     \/ \E id \in Ids : Cancel(Operator, id) \/ Accept(Operator, id) \/ Reject(Operator, id)
  /\ UNCHANGED <<shown, stuck, cyclerOwn>>

RowCatchesUp(id) ==
  /\ id \notin stuck
  /\ shown' = IF bounties[id].status = "Submitted" THEN shown \cup {id} ELSE shown \ {id}
  /\ UNCHANGED <<vars, stuck, cyclerOwn>>

RowSticks(id) ==
  /\ Losing
  /\ stuck' = stuck \cup {id}
  /\ UNCHANGED <<vars, shown, cyc, late, begun, posted>>

-------------------------------------------------------------------------------
(* A call.                                                                  *)

\* postBounty gives no deadline.
PostDeadline == NoBlock

PostReplyNow == PostReply(Operator, POST_REWARD_ATOMIC, POST_REWARD_ATOMIC)

\* What the contract makes of a call, and the answer it gives.
Answer(call) == IF call = APost THEN PostReplyNow ELSE AcceptReply(Operator, call)

Performs(call) ==
  IF Answer(call) # "Ok" THEN UNCHANGED <<vars, posted>>
  ELSE IF call = APost
  THEN /\ \E track \in Tracks :
            Post(Operator, POST_REWARD_ATOMIC, POST_REWARD_ATOMIC, PostDeadline, track)
       /\ posted' = posted \cup {next_id}
  ELSE Accept(Operator, call) /\ UNCHANGED posted

CallLands ==
  /\ cyc.at = "calling"
  /\ Performs(cyc.call)
  /\ cyc' = [cyc EXCEPT !.at = "answered", !.ok = Answer(cyc.call) = "Ok"]
  /\ UNCHANGED <<shown, stuck, late, lost, begun>>

LandsLate ==
  \E call \in late :
    /\ Performs(call)
    /\ late' = late \ {call}
    /\ UNCHANGED <<shown, stuck, cyc, lost, begun>>

\* Mutation of Remaining: the loop is left when an accept is refused.
RemainingUnlessRefused == IF cyc.ok THEN cyc.todo \ {cyc.call} ELSE {}

\* acceptSubmitted goes on to the next, whatever the contract answered.
Remaining == cyc.todo \ {cyc.call}

\* A refused posting is logged, and the cycle goes on to its sleep.
CallReturns ==
  /\ cyc.at = "answered"
  /\ cyc' = IF cyc.call = APost THEN [cyc EXCEPT !.at = "waiting"]
            ELSE [cyc EXCEPT !.at = "accepting", !.todo = Remaining]
  /\ UNCHANGED <<vars, shown, stuck, late, lost, begun, posted>>

\* The call under way may still land.
GivesUpCall ==
  IF cyc.at = "calling" THEN late' \in {late, late \cup {cyc.call}} ELSE UNCHANGED late

\* Mutation of AfterThrow: the call is made again.
AfterThrowAgain == [cyc EXCEPT !.at = "calling"]

\* runCycle throws, so that the cycle is over.
AfterThrow == Resting

CallThrows ==
  /\ cyc.at \in {"calling", "answered"}
  /\ Losing
  /\ GivesUpCall
  /\ cyc' = AfterThrow
  /\ UNCHANGED <<vars, shown, stuck, begun, posted>>

\* The process dies and is started again.
CyclerCrash ==
  /\ cyc.at # "resting"
  /\ Losing
  /\ GivesUpCall
  /\ cyc' = Resting
  /\ UNCHANGED <<vars, shown, stuck, begun, posted>>

-------------------------------------------------------------------------------
(* A cycle.                                                                 *)

CycleStarts ==
  /\ cyc.at = "resting"
  /\ cyc' = [Resting EXCEPT !.at = "calling"]
  /\ begun' = IF begun < MaxBegun THEN begun + 1 ELSE begun
  /\ UNCHANGED <<vars, shown, stuck, late, lost, posted>>

\* fetchOwnSubmitted
OwnSubmitted == {id \in shown : bounties[id].poster = Operator}

Fetches ==
  /\ cyc.at = "waiting"
  /\ cyc' = [cyc EXCEPT !.at = "accepting", !.todo = OwnSubmitted]
  /\ UNCHANGED <<vars, shown, stuck, late, lost, begun, posted>>

\* A status other than 200 is an empty list; fetch itself throws.
FetchFails ==
  /\ cyc.at = "waiting"
  /\ Losing
  /\ cyc' \in {[cyc EXCEPT !.at = "accepting", !.todo = {}], AfterThrow}
  /\ UNCHANGED <<vars, shown, stuck, late, begun, posted>>

\* The rows come by id.
AcceptsNext ==
  /\ cyc.at = "accepting"
  /\ \E id \in cyc.todo :
       /\ \A other \in cyc.todo : id <= other
       /\ cyc' = [cyc EXCEPT !.at = "calling", !.call = id]
  /\ UNCHANGED <<vars, shown, stuck, late, lost, begun, posted>>

CycleEnds ==
  /\ cyc.at = "accepting" /\ cyc.todo = {}
  /\ cyc' = Resting
  /\ UNCHANGED <<vars, shown, stuck, late, lost, begun, posted>>

CyclerStep ==
  \/ CycleStarts \/ CallLands \/ CallReturns \/ Fetches \/ AcceptsNext \/ CycleEnds

CyclerNext ==
  \/ OthersCall \/ KeyElsewhere
  \/ \E id \in Ids : RowCatchesUp(id) \/ RowSticks(id)
  \/ CyclerStep
  \/ LandsLate \/ CallThrows \/ CyclerCrash \/ FetchFails

CyclerSpec == CyclerInit /\ [][CyclerNext]_cyclerVars

\* The loop does not stop, and every await of it ends.
FairCycler == CyclerSpec /\ WF_cyclerVars(CyclerStep)

-------------------------------------------------------------------------------
Calls == Ids \cup {APost}

CyclerTypeOK ==
  /\ TypeOK
  /\ shown \subseteq Ids /\ stuck \subseteq Ids
  /\ cyc \in [at : {"resting", "calling", "answered", "waiting", "accepting"},
              call : Calls, ok : BOOLEAN, todo : SUBSET Ids]
  /\ \A id \in cyc.todo : bounties[id].poster = Operator
  /\ late \subseteq Calls
  /\ lost \in 0 .. MaxLost /\ begun \in 0 .. MaxBegun
  /\ posted \subseteq Ids
  /\ \A id \in posted :
       bounties[id].poster = Operator /\ bounties[id].deadline = NoBlock

\* A cycle posts one bounty at most: what a call that threw has posted, now or
\* later, is not posted a second time by the same cycle. (A cycle later it is
\* another bounty, and another reward.)
OnePostPerCycle == begun < MaxBegun => Cardinality(posted) <= begun

TakenBack == {"Cancelled", "Rejected", "TimedOut"}

\* What the cycler posts is for whoever delivers: no call of any other account
\* and none of the cycler's own, in time or late, gives the reward back to the
\* poster before a worker has it, save the owner's revocation. It takes the
\* operator's key in other hands.
NeverTakenBack ==
  [][OthersCall \/ CyclerStep \/ LandsLate =>
       \A id \in posted :
         bounties'[id].status \in TakenBack => bounties[id].status \in TakenBack]_cyclerVars

\* A delivery the indexer shows is accepted in the end, unless the owner revokes
\* it or the operator's key rejects it by hand: neither a refused accept of a
\* stale row, which comes back in every cycle, nor calls that throw, nor crashes
\* keep it from its turn.
DeliveryIsAccepted ==
  \A id \in Ids :
    id \in shown \cap posted ~>
      Stamped(bounties[id].settled_at) \/ bounties[id].status \in {"Revoked", "Rejected"}

===============================================================================
