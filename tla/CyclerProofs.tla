------------------------------ MODULE CyclerProofs ------------------------------
(***************************************************************************)
(* Proofs about the cycler on the market, for every number of accounts,    *)
(* bounties, blocks, cycles and mishaps.                                   *)
(*                                                                         *)
(* Every step of the composition is a step of the contract or none, so     *)
(* that the contract's invariants (BountyMeshProofs) carry over. To them   *)
(* CInv adds: what the cycler posted is the operator's and has no          *)
(* deadline, and together with the postings that may still land it is as   *)
(* much as the cycles begun, at most.                                      *)
(***************************************************************************)
EXTENDS Cycler, BountyMeshProofs, FiniteSetTheorems

CycleTypes ==
  /\ shown \subseteq Ids /\ stuck \subseteq Ids
  /\ cyc \in [at : {"resting", "calling", "answered", "waiting", "accepting"},
              call : Calls, ok : BOOLEAN, todo : SUBSET Ids]
  /\ \A id \in cyc.todo : bounties[id].poster = Operator
  /\ late \subseteq Calls
  /\ lost \in 0 .. MaxLost /\ begun \in 0 .. MaxBegun
  /\ posted \subseteq Ids
  /\ \A id \in posted :
       bounties[id].poster = Operator /\ bounties[id].deadline = NoBlock

LatePost == IF APost \in late THEN 1 ELSE 0
PostUnderWay == IF cyc.at = "calling" /\ cyc.call = APost THEN 1 ELSE 0

PostsCounted ==
  begun < MaxBegun => Cardinality(posted) + LatePost + PostUnderWay <= begun

CInv == IInv /\ CycleTypes /\ PostsCounted

-------------------------------------------------------------------------------
(* Every step is a step of the contract, or leaves it alone.                  *)

\* What the contract makes of a call of the cycler is a call by the operator.
LEMMA PerformsIsCall ==
  ASSUME NEW call \in Calls, Performs(call)
  PROVE  UNCHANGED vars \/ CallBy(Operator)
<1>1. CASE call = APost
  <2>1. /\ POST_REWARD_ATOMIC \in Rewards /\ POST_REWARD_ATOMIC \in Values
        /\ PostDeadline \in Deadlines
    BY CyclerAssumption DEF PostDeadline
  <2>2. QED
    BY <1>1, <2>1 DEF Performs, CallBy
<1>2. CASE call # APost
  <2>1. call \in Ids
    BY <1>2 DEF Calls
  <2>2. QED
    BY <1>2, <2>1 DEF Performs, CallBy
<1>3. QED
  BY <1>1, <1>2

\* A step of the composition is a step of the market or a stutter.
LEMMA StepOfMarket ==
  ASSUME CycleTypes, [CyclerNext]_cyclerVars
  PROVE  [Next]_vars
<1>1. CASE UNCHANGED cyclerVars
  BY <1>1 DEF cyclerVars
<1>2. CASE OthersCall
  BY <1>2 DEF OthersCall, Next
<1>8. CASE KeyElsewhere
  BY <1>8, CyclerAssumption DEF KeyElsewhere, CallBy, Next
<1>3. CASE CallLands
  <2>1. cyc.call \in Calls /\ Performs(cyc.call)
    BY <1>3 DEF CallLands, CycleTypes
  <2>2. QED
    BY <2>1, PerformsIsCall, CyclerAssumption DEF Next
<1>4. CASE LandsLate
  <2>1. PICK call \in late : Performs(call)
    BY <1>4 DEF LandsLate
  <2>2. QED
    BY <2>1, PerformsIsCall, CyclerAssumption DEF Next, CycleTypes
<1>5. ASSUME NEW id \in Ids, RowCatchesUp(id) \/ RowSticks(id)
      PROVE  UNCHANGED vars
  BY <1>5 DEF RowCatchesUp, RowSticks
<1>6. ASSUME \/ CycleStarts \/ CallReturns \/ Fetches \/ AcceptsNext \/ CycleEnds
             \/ CallThrows \/ CyclerCrash \/ FetchFails
      PROVE  UNCHANGED vars
  BY <1>6 DEF CycleStarts, CallReturns, Fetches, AcceptsNext, CycleEnds, CallThrows,
              CyclerCrash, FetchFails
<1>7. QED
  BY <1>1, <1>2, <1>3, <1>4, <1>5, <1>6, <1>8 DEF CyclerNext, CyclerStep

-------------------------------------------------------------------------------
(* What a step of the contract does to the bounties of the operator.          *)

\* Whatever is called, by whomever: what the operator posted keeps its terms.
LEMMA TermsStay ==
  ASSUME IInv, [Next]_vars, NEW id \in Ids, bounties[id].poster = Operator
  PROVE  /\ bounties'[id].poster = Operator
         /\ bounties'[id].deadline = bounties[id].deadline
<1>1. KeepsTerms(bounties[id], bounties'[id])
  BY NextLifecycle DEF LifecycleStep
<1>2. NoBounty.poster # Operator
  BY ConstantsAssumption, CyclerAssumption DEF NoBounty
<1>3. id \in Nat /\ next_id \in Nat
  BY ConstantsAssumption DEF Ids, IInv, TypeOK
<1>4. id < next_id
  BY <1>2, <1>3 DEF IInv, Unposted
<1>5. bounties[id].status # "Absent"
  BY <1>4 DEF IInv, IndexMapsAgree, Posted
<1>6. QED
  BY <1>1, <1>5 DEF KeepsTerms

\* A call of the cycler that lands is a posting, which adds one bounty to those
\* it posted, without a deadline, or adds none.
LEMMA PostedByCall ==
  ASSUME NEW call \in Calls, IInv, CycleTypes, Performs(call)
  PROVE  /\ posted' \subseteq Ids
         /\ posted' \subseteq posted \cup {next_id}
         /\ call # APost => posted' = posted
         /\ \A id \in posted' :
              bounties'[id].poster = Operator /\ bounties'[id].deadline = NoBlock
<1>1. [Next]_vars
  BY PerformsIsCall, CyclerAssumption DEF Next
<1>2. \A id \in posted :
        bounties'[id].poster = Operator /\ bounties'[id].deadline = NoBlock
  BY <1>1, TermsStay DEF CycleTypes
<1>3. CASE posted' = posted
  BY <1>2, <1>3 DEF CycleTypes
<1>4. ASSUME call = APost, posted' = posted \cup {next_id}, NEW track \in Tracks,
             Post(Operator, POST_REWARD_ATOMIC, POST_REWARD_ATOMIC, PostDeadline, track)
      PROVE  /\ posted' \subseteq Ids
             /\ \A id \in posted' :
                  bounties'[id].poster = Operator /\ bounties'[id].deadline = NoBlock
  <2> DEFINE c == [NoBounty EXCEPT !.poster = Operator, !.reward = POST_REWARD_ATOMIC,
                                   !.deadline = PostDeadline, !.status = "Open",
                                   !.posted_at = block_height]
  <2>1. /\ POST_REWARD_ATOMIC \in Rewards /\ POST_REWARD_ATOMIC \in Values
        /\ PostDeadline \in Deadlines /\ PostDeadline = NoBlock /\ Operator \in Actors
    BY CyclerAssumption DEF PostDeadline
  <2>2. next_id \in Ids
    BY <1>4, <2>1, NextSlotBlank
  <2>3. c \in Bounty
    BY <1>4, <2>1, PostedIsBounty
  <2>4. bounties'[next_id] = c
    BY <1>4, <2>2, <2>3, BecomesFrame DEF Post, IInv, TypeOK
  <2>5. c.poster = Operator /\ c.deadline = NoBlock
    BY <2>1 DEF NoBounty
  <2>6. QED
    BY <1>2, <1>4, <2>2, <2>4, <2>5 DEF CycleTypes
<1>5. QED
  BY <1>3, <1>4 DEF Performs

\* A change of one bounty that does not take it back takes none back.
LEMMA NotTakenBack ==
  ASSUME IInv, NEW i \in Ids, NEW c \in Bounty, Becomes(i, c),
         c.status \notin TakenBack \/ c.status = bounties[i].status,
         NEW id \in Ids, bounties'[id].status \in TakenBack
  PROVE  bounties[id].status \in TakenBack
BY BecomesFrame DEF IInv, TypeOK

\* Claim, Submit, Accept, Withdraw and Revoke take no bounty back.
LEMMA ForwardKeeps ==
  ASSUME NEW source \in Actors, NEW i \in Ids, IInv,
         \/ Claim(source, i) \/ Submit(source, i) \/ Accept(source, i)
         \/ Withdraw(source, i) \/ Revoke(source, i),
         NEW id \in Ids, bounties'[id].status \in TakenBack
  PROVE  bounties[id].status \in TakenBack
<1> DEFINE b == bounties[i]
<1>1. b \in Bounty /\ block_height \in Block
  BY BountyFacts
<1>3. CASE Claim(source, i)
  <2> DEFINE c == [b EXCEPT !.worker = source, !.status = "Claimed", !.claimed_at = block_height]
  <2>1. c \in Bounty /\ c.status \notin TakenBack
    BY <1>1 DEF Bounty, BountyStatus, TakenBack
  <2>2. Becomes(i, c)
    BY <1>3 DEF Claim
  <2>3. QED
    BY <2>1, <2>2, NotTakenBack
<1>4. CASE Submit(source, i)
  <2> DEFINE c == [b EXCEPT !.status = "Submitted", !.submitted_at = block_height]
  <2>1. c \in Bounty /\ c.status \notin TakenBack
    BY <1>1 DEF Bounty, BountyStatus, TakenBack
  <2>2. Becomes(i, c)
    BY <1>4 DEF Submit
  <2>3. QED
    BY <2>1, <2>2, NotTakenBack
<1>5. CASE Accept(source, i)
  <2> DEFINE c == [b EXCEPT !.status = "Accepted", !.settled_at = block_height]
  <2>1. c \in Bounty /\ c.status \notin TakenBack
    BY <1>1 DEF Bounty, BountyStatus, TakenBack
  <2>2. Becomes(i, c)
    BY <1>5 DEF Accept
  <2>3. QED
    BY <2>1, <2>2, NotTakenBack
<1>6. CASE Withdraw(source, i)
  <2> DEFINE c == [b EXCEPT !.withdrawn = TRUE]
  <2>1. c \in Bounty /\ c.status = b.status
    BY <1>1 DEF Bounty
  <2>2. Becomes(i, c)
    BY <1>6 DEF Withdraw
  <2>3. QED
    BY <2>1, <2>2, NotTakenBack
<1>7. CASE Revoke(source, i)
  <2> DEFINE c == [b EXCEPT !.status = "Revoked", !.revoked_at = block_height]
  <2>1. c \in Bounty /\ c.status \notin TakenBack
    BY <1>1 DEF Bounty, BountyStatus, TakenBack
  <2>2. Becomes(i, c)
    BY <1>7 DEF Revoke
  <2>3. QED
    BY <2>1, <2>2, NotTakenBack
<1>8. QED
  BY <1>3, <1>4, <1>5, <1>6, <1>7

\* Cancel and Reject are for the poster, and a timeout takes a deadline: none
\* of them takes back what the cycler posted when somebody else calls.
LEMMA BackwardKeeps ==
  ASSUME NEW source \in Actors \ {Operator}, NEW i \in Ids, IInv, CycleTypes,
         Cancel(source, i) \/ Reject(source, i) \/ Timeout(source, i),
         NEW id \in posted, bounties'[id].status \in TakenBack
  PROVE  bounties[id].status \in TakenBack
<1> DEFINE b == bounties[i]
<1>1. b \in Bounty /\ block_height \in Block /\ id \in Ids
  BY BountyFacts DEF CycleTypes
<1>2. b.poster # Operator \/ b.deadline # NoBlock
  BY DEF Cancel, CancelReply, Reject, RejectReply, Timeout, TimeoutReply
<1>3. id # i
  BY <1>2 DEF CycleTypes
<1>4. PICK c \in Bounty : Becomes(i, c)
  <2>1. CASE Cancel(source, i)
    <3>1. [b EXCEPT !.status = "Cancelled", !.cancelled_at = block_height] \in Bounty
      BY <1>1 DEF Bounty, BountyStatus
    <3>2. QED
      BY <2>1, <3>1 DEF Cancel
  <2>2. CASE Reject(source, i)
    <3>1. [b EXCEPT !.status = "Rejected", !.rejected_at = block_height] \in Bounty
      BY <1>1 DEF Bounty, BountyStatus
    <3>2. QED
      BY <2>2, <3>1 DEF Reject
  <2>3. CASE Timeout(source, i)
    <3>1. [b EXCEPT !.status = "TimedOut", !.timed_out_at = block_height] \in Bounty
      BY <1>1 DEF Bounty, BountyStatus
    <3>2. QED
      BY <2>3, <3>1 DEF Timeout
  <2>4. QED
    BY <2>1, <2>2, <2>3
<1>5. bounties'[id] = bounties[id]
  BY <1>1, <1>3, <1>4, BecomesFrame DEF IInv, TypeOK
<1>6. QED
  BY <1>5

\* A posting takes no bounty back.
LEMMA PostKeeps ==
  ASSUME NEW source \in Actors, NEW reward \in Rewards, NEW value \in Values,
         NEW deadline \in Deadlines, NEW track \in Tracks, IInv,
         Post(source, reward, value, deadline, track),
         NEW id \in Ids, bounties'[id].status \in TakenBack
  PROVE  bounties[id].status \in TakenBack
<1> DEFINE c == [NoBounty EXCEPT !.poster = source, !.reward = reward,
                                 !.deadline = deadline, !.status = "Open",
                                 !.posted_at = block_height]
<1>1. next_id \in Ids
  BY NextSlotBlank
<1>2. c \in Bounty
  BY PostedIsBounty
<1>3. Becomes(next_id, c)
  BY DEF Post
<1>4. c.status \notin TakenBack
  BY DEF NoBounty, TakenBack
<1>5. QED
  BY <1>1, <1>2, <1>3, <1>4, NotTakenBack

\* What everyone else calls takes nothing back from the cycler's workers.
LEMMA OthersKeep ==
  ASSUME IInv, CycleTypes, OthersCall,
         NEW id \in posted, bounties'[id].status \in TakenBack
  PROVE  bounties[id].status \in TakenBack
<1>1. id \in Ids
  BY DEF CycleTypes
<1>2. CASE NextBlock
  BY <1>2 DEF NextBlock
<1>3. ASSUME NEW source \in Actors \ {Operator}, CallBy(source)
      PROVE  bounties[id].status \in TakenBack
  <2>1. ASSUME NEW reward \in Rewards, NEW value \in Values, NEW deadline \in Deadlines,
               NEW track \in Tracks, Post(source, reward, value, deadline, track)
        PROVE  bounties[id].status \in TakenBack
    BY <1>1, <2>1, PostKeeps
  <2>2. ASSUME NEW i \in Ids,
               \/ Claim(source, i) \/ Submit(source, i) \/ Accept(source, i)
               \/ Withdraw(source, i) \/ Revoke(source, i)
        PROVE  bounties[id].status \in TakenBack
    BY <1>1, <2>2, ForwardKeeps
  <2>3. ASSUME NEW i \in Ids, Cancel(source, i) \/ Reject(source, i) \/ Timeout(source, i)
        PROVE  bounties[id].status \in TakenBack
    BY <2>3, BackwardKeeps
  <2>4. ASSUME NEW i \in Ids, Refused(source, i)
        PROVE  bounties[id].status \in TakenBack
    BY <2>4 DEF Refused, vars
  <2>5. QED
    BY <1>3, <2>1, <2>2, <2>3, <2>4 DEF CallBy
<1>4. QED
  BY <1>2, <1>3 DEF OthersCall

\* Nor does a call of the cycler's own.
LEMMA CallKeeps ==
  ASSUME IInv, CycleTypes, NEW call \in Calls, Performs(call),
         NEW id \in posted, bounties'[id].status \in TakenBack
  PROVE  bounties[id].status \in TakenBack
<1>1. id \in Ids /\ Operator \in Actors
  BY CyclerAssumption DEF CycleTypes
<1>2. CASE UNCHANGED vars
  BY <1>2 DEF vars
<1>3. ASSUME NEW track \in Tracks,
             Post(Operator, POST_REWARD_ATOMIC, POST_REWARD_ATOMIC, PostDeadline, track)
      PROVE  bounties[id].status \in TakenBack
  <2>1. /\ POST_REWARD_ATOMIC \in Rewards /\ POST_REWARD_ATOMIC \in Values
        /\ PostDeadline \in Deadlines
    BY CyclerAssumption DEF PostDeadline
  <2>2. QED
    BY <1>1, <1>3, <2>1, PostKeeps
<1>4. CASE call # APost /\ Accept(Operator, call)
  <2>1. call \in Ids
    BY <1>4 DEF Calls
  <2>2. QED
    BY <1>1, <1>4, <2>1, ForwardKeeps
<1>5. QED
  BY <1>2, <1>3, <1>4 DEF Performs

-------------------------------------------------------------------------------
(* Counting.                                                                  *)

\* The cycler's bounties are finitely many.
LEMMA PostedIsFinite ==
  ASSUME CycleTypes
  PROVE  IsFiniteSet(posted)
<1>1. MaxId \in Nat
  BY ConstantsAssumption
<1>2. IsFiniteSet(Ids)
  BY <1>1, FS_Interval DEF Ids
<1>3. QED
  BY <1>2, FS_Subset DEF CycleTypes

\* Adding one element to a set counts one more at most.
LEMMA OneMore ==
  ASSUME NEW S, NEW T, NEW e, IsFiniteSet(S), T \subseteq S \cup {e}
  PROVE  Cardinality(S) \in Nat /\ Cardinality(T) \in Nat
         /\ Cardinality(T) <= Cardinality(S) + 1
<1>1. /\ IsFiniteSet(S \cup {e})
      /\ Cardinality(S) \in Nat
      /\ Cardinality(S \cup {e}) <= Cardinality(S) + 1
  BY FS_AddElement, FS_CardinalityType
<1>2. /\ Cardinality(T) \in Nat
      /\ Cardinality(T) <= Cardinality(S \cup {e})
      /\ Cardinality(S \cup {e}) \in Nat
  BY <1>1, FS_Subset, FS_CardinalityType
<1>3. QED
  BY <1>1, <1>2

-------------------------------------------------------------------------------
(* The steps preserve CInv.                                                   *)

\* CInv holds at the start.
LEMMA InitCInv == CyclerInit => CInv
<1> SUFFICES ASSUME CyclerInit PROVE CInv
  OBVIOUS
<1>1. IInv
  BY InitIInv DEF CyclerInit
<1>2. /\ shown = {} /\ stuck = {} /\ cyc = Resting /\ late = {}
      /\ lost = 0 /\ begun = 0 /\ posted = {}
  BY DEF CyclerInit
<1>3. MaxLost \in Nat /\ MaxBegun \in Nat
  BY CyclerAssumption
<1>4. CycleTypes
  BY <1>2, <1>3 DEF CycleTypes, Resting, Calls
<1>5. PostsCounted
  BY <1>2, FS_EmptySet DEF PostsCounted, LatePost, PostUnderWay, Resting
<1>6. QED
  BY <1>1, <1>4, <1>5 DEF CInv

\* The fields of the cycle.
LEMMA CycFields ==
  ASSUME CycleTypes
  PROVE  /\ cyc.at \in {"resting", "calling", "answered", "waiting", "accepting"}
         /\ cyc.call \in Calls /\ cyc.ok \in BOOLEAN /\ cyc.todo \subseteq Ids
         /\ begun \in Nat /\ MaxBegun \in Nat /\ lost \in Nat /\ MaxLost \in Nat
         /\ begun <= MaxBegun /\ lost <= MaxLost
BY CyclerAssumption DEF CycleTypes

\* The list of a cycle holds the operator's bounties after a step of the contract.
LEMMA TodoStays ==
  ASSUME IInv, CycleTypes, [Next]_vars
  PROVE  /\ \A id \in cyc.todo : bounties'[id].poster = Operator
         /\ \A id \in posted :
              bounties'[id].poster = Operator /\ bounties'[id].deadline = NoBlock
BY TermsStay, CycFields DEF CycleTypes

\* A call that lands, while its caller waits or later: the new posting is
\* counted in place of the call.
LEMMA CallLandsCInv ==
  ASSUME CInv, CallLands
  PROVE  CycleTypes' /\ PostsCounted'
<1>1. IInv /\ CycleTypes /\ PostsCounted
  BY DEF CInv
<1>2. /\ cyc.at = "calling" /\ cyc.call \in Calls /\ Performs(cyc.call)
      /\ cyc' = [cyc EXCEPT !.at = "answered", !.ok = Answer(cyc.call) = "Ok"]
      /\ shown' = shown /\ stuck' = stuck /\ late' = late /\ lost' = lost /\ begun' = begun
  BY <1>1, CycFields DEF CallLands
<1>3. /\ posted' \subseteq Ids
      /\ posted' \subseteq posted \cup {next_id}
      /\ cyc.call # APost => posted' = posted
      /\ \A id \in posted' :
           bounties'[id].poster = Operator /\ bounties'[id].deadline = NoBlock
  BY <1>1, <1>2, PostedByCall
<1>4. \A id \in cyc.todo : bounties'[id].poster = Operator
  BY <1>1, <1>2, PerformsIsCall, TodoStays, CyclerAssumption DEF Next
<1>5. (Answer(cyc.call) = "Ok") \in BOOLEAN
  OBVIOUS
<1>6. CycleTypes'
  BY <1>1, <1>2, <1>3, <1>4, <1>5 DEF CycleTypes
<1>7. /\ Cardinality(posted) \in Nat /\ Cardinality(posted') \in Nat
      /\ Cardinality(posted') <= Cardinality(posted) + 1
  BY <1>1, <1>3, PostedIsFinite, OneMore
<1>8. LatePost' = LatePost /\ LatePost \in Nat
  BY <1>2 DEF LatePost
<1>9. PostUnderWay' = 0
  BY <1>2, <1>1 DEF PostUnderWay, CycleTypes
<1>10. CASE cyc.call = APost
  <2>1. PostUnderWay = 1
    BY <1>2, <1>10 DEF PostUnderWay
  <2>2. QED
    BY <1>1, <1>2, <1>3, <1>6, <1>7, <1>8, <1>9, <2>1, CycFields DEF PostsCounted
<1>11. CASE cyc.call # APost
  <2>1. PostUnderWay = 0
    BY <1>2, <1>11 DEF PostUnderWay
  <2>2. QED
    BY <1>1, <1>2, <1>3, <1>6, <1>7, <1>8, <1>9, <1>11, <2>1, CycFields DEF PostsCounted
<1>12. QED
  BY <1>10, <1>11

LEMMA LandsLateCInv ==
  ASSUME CInv, LandsLate
  PROVE  CycleTypes' /\ PostsCounted'
<1>1. IInv /\ CycleTypes /\ PostsCounted
  BY DEF CInv
<1>2. PICK call \in late :
        /\ Performs(call) /\ late' = late \ {call}
        /\ shown' = shown /\ stuck' = stuck /\ cyc' = cyc /\ lost' = lost /\ begun' = begun
  BY DEF LandsLate
<1>3. call \in Calls
  BY <1>1 DEF CycleTypes
<1>4. /\ posted' \subseteq Ids
      /\ posted' \subseteq posted \cup {next_id}
      /\ call # APost => posted' = posted
      /\ \A id \in posted' :
           bounties'[id].poster = Operator /\ bounties'[id].deadline = NoBlock
  BY <1>1, <1>2, <1>3, PostedByCall
<1>5. \A id \in cyc.todo : bounties'[id].poster = Operator
  BY <1>1, <1>2, <1>3, PerformsIsCall, TodoStays, CyclerAssumption DEF Next
<1>6. CycleTypes'
  BY <1>1, <1>2, <1>4, <1>5 DEF CycleTypes
<1>7. /\ Cardinality(posted) \in Nat /\ Cardinality(posted') \in Nat
      /\ Cardinality(posted') <= Cardinality(posted) + 1
  BY <1>1, <1>4, PostedIsFinite, OneMore
<1>8. PostUnderWay' = PostUnderWay /\ PostUnderWay \in Nat
  BY <1>2 DEF PostUnderWay
<1>9. CASE call = APost
  <2>1. LatePost = 1 /\ LatePost' = 0
    BY <1>2, <1>9 DEF LatePost
  <2>2. QED
    BY <1>1, <1>2, <1>4, <1>6, <1>7, <1>8, <2>1, CycFields DEF PostsCounted
<1>10. CASE call # APost
  <2>1. LatePost' = LatePost /\ LatePost \in Nat
    BY <1>2, <1>10 DEF LatePost
  <2>2. QED
    BY <1>1, <1>2, <1>4, <1>6, <1>7, <1>8, <1>10, <2>1, CycFields DEF PostsCounted
<1>11. QED
  BY <1>9, <1>10

\* A step that posts nothing keeps the count of what the cycler posted, or may
\* still post, within the cycles begun.
LEMMA CountKept ==
  ASSUME CInv, posted' = posted,
         begun' = begun \/ (begun' = begun + 1 /\ PostUnderWay = 0),
         LatePost' + PostUnderWay' <= LatePost + PostUnderWay + (begun' - begun)
  PROVE  PostsCounted'
<1>1. CycleTypes /\ PostsCounted
  BY DEF CInv
<1>2. Cardinality(posted) \in Nat
  BY <1>1, PostedIsFinite, FS_CardinalityType
<1>3. /\ LatePost \in Nat /\ LatePost' \in Nat
      /\ PostUnderWay \in Nat /\ PostUnderWay' \in Nat
  BY DEF LatePost, PostUnderWay
<1>4. QED
  BY <1>1, <1>2, <1>3, CycFields DEF PostsCounted

\* The steps that are the cycler's alone.
LEMMA OwnStepCInv ==
  ASSUME CInv,
         \/ CycleStarts \/ CallReturns \/ Fetches \/ AcceptsNext \/ CycleEnds
         \/ CallThrows \/ CyclerCrash \/ FetchFails
  PROVE  CycleTypes' /\ PostsCounted'
<1>1. CycleTypes
  BY DEF CInv
<1>2. CASE CycleStarts
  <2>1. /\ cyc.at = "resting" /\ cyc' = [Resting EXCEPT !.at = "calling"]
        /\ begun' = IF begun < MaxBegun THEN begun + 1 ELSE begun
        /\ UNCHANGED vars /\ posted' = posted
        /\ shown' = shown /\ stuck' = stuck /\ late' = late /\ lost' = lost
    BY <1>2 DEF CycleStarts
  <2>2. CycleTypes'
    <3>1. cyc' = [at |-> "calling", call |-> APost, ok |-> FALSE, todo |-> {}]
      BY <2>1 DEF Resting
    <3>2. begun' \in 0 .. MaxBegun
      BY <1>1, <2>1, CycFields
    <3>3. APost \in Calls
      BY DEF Calls
    <3>4. /\ cyc' \in [at : {"resting", "calling", "answered", "waiting", "accepting"},
                       call : Calls, ok : BOOLEAN, todo : SUBSET Ids]
          /\ cyc'.todo = {}
      BY <3>1, <3>3
    <3>5. QED
      BY <1>1, <2>1, <3>2, <3>4 DEF CycleTypes, vars
  <2>3. PostUnderWay = 0 /\ PostUnderWay' = 1 /\ LatePost' = LatePost /\ LatePost \in Nat
    BY <2>1 DEF PostUnderWay, LatePost, Resting
  <2>4. CASE begun < MaxBegun
    BY <1>1, <2>1, <2>2, <2>3, <2>4, CountKept, CycFields
  <2>5. CASE ~(begun < MaxBegun)
    BY <2>1, <2>2, <2>5 DEF PostsCounted
  <2>6. QED
    BY <2>4, <2>5
<1>3. CASE CallReturns
  <2>1. /\ cyc.at = "answered"
        /\ cyc' = IF cyc.call = APost THEN [cyc EXCEPT !.at = "waiting"]
                  ELSE [cyc EXCEPT !.at = "accepting", !.todo = cyc.todo \ {cyc.call}]
        /\ UNCHANGED vars /\ posted' = posted
        /\ shown' = shown /\ stuck' = stuck /\ late' = late /\ lost' = lost /\ begun' = begun
    BY <1>3 DEF CallReturns, Remaining
  <2>2. CycleTypes'
    <3>1. /\ cyc'.at \in {"waiting", "accepting"}
          /\ cyc'.todo \subseteq cyc.todo
          /\ cyc' \in [at : {"resting", "calling", "answered", "waiting", "accepting"},
                       call : Calls, ok : BOOLEAN, todo : SUBSET Ids]
      BY <1>1, <2>1 DEF CycleTypes, vars
    <3>2. QED
      BY <1>1, <2>1, <3>1 DEF CycleTypes, vars
  <2>3. PostUnderWay = 0 /\ PostUnderWay' = 0 /\ LatePost' = LatePost /\ LatePost \in Nat
    BY <1>1, <2>1 DEF PostUnderWay, LatePost, CycleTypes
  <2>4. QED
    BY <1>1, <2>1, <2>2, <2>3, CountKept, CycFields
<1>4. CASE Fetches
  <2>1. /\ cyc.at = "waiting" /\ cyc' = [cyc EXCEPT !.at = "accepting", !.todo = OwnSubmitted]
        /\ UNCHANGED vars /\ posted' = posted
        /\ shown' = shown /\ stuck' = stuck /\ late' = late /\ lost' = lost /\ begun' = begun
    BY <1>4 DEF Fetches
  <2>2. OwnSubmitted \subseteq Ids /\ \A id \in OwnSubmitted : bounties'[id].poster = Operator
    BY <1>1, <2>1 DEF OwnSubmitted, CycleTypes, vars
  <2>3. CycleTypes'
    BY <1>1, <2>1, <2>2 DEF CycleTypes, vars
  <2>4. PostUnderWay = 0 /\ PostUnderWay' = 0 /\ LatePost' = LatePost /\ LatePost \in Nat
    BY <1>1, <2>1 DEF PostUnderWay, LatePost, CycleTypes
  <2>5. QED
    BY <1>1, <2>1, <2>3, <2>4, CountKept, CycFields
<1>5. CASE AcceptsNext
  <2>1. PICK id \in cyc.todo :
          /\ cyc.at = "accepting" /\ cyc' = [cyc EXCEPT !.at = "calling", !.call = id]
          /\ UNCHANGED vars /\ posted' = posted
          /\ shown' = shown /\ stuck' = stuck /\ late' = late /\ lost' = lost /\ begun' = begun
    BY <1>5 DEF AcceptsNext
  <2>2. id \in Calls /\ id # APost
    BY <1>1, <2>1, CycFields, ConstantsAssumption DEF Calls, Ids, APost
  <2>3. CycleTypes'
    BY <1>1, <2>1, <2>2 DEF CycleTypes, vars
  <2>4. PostUnderWay = 0 /\ PostUnderWay' = 0 /\ LatePost' = LatePost /\ LatePost \in Nat
    BY <1>1, <2>1, <2>2 DEF PostUnderWay, LatePost, CycleTypes
  <2>5. QED
    BY <1>1, <2>1, <2>3, <2>4, CountKept, CycFields
<1>6. CASE CycleEnds
  <2>1. /\ cyc.at = "accepting" /\ cyc' = Resting
        /\ UNCHANGED vars /\ posted' = posted
        /\ shown' = shown /\ stuck' = stuck /\ late' = late /\ lost' = lost /\ begun' = begun
    BY <1>6 DEF CycleEnds
  <2>2. CycleTypes'
    BY <1>1, <2>1 DEF CycleTypes, Resting, Calls, vars
  <2>3. PostUnderWay = 0 /\ PostUnderWay' = 0 /\ LatePost' = LatePost /\ LatePost \in Nat
    BY <2>1 DEF PostUnderWay, LatePost, Resting
  <2>4. QED
    BY <1>1, <2>1, <2>2, <2>3, CountKept, CycFields
<1>7. CASE CallThrows \/ CyclerCrash
  <2>1. /\ Losing /\ GivesUpCall /\ cyc' = Resting
        /\ UNCHANGED vars /\ posted' = posted /\ shown' = shown /\ stuck' = stuck /\ begun' = begun
    BY <1>7 DEF CallThrows, CyclerCrash, AfterThrow
  <2>2. late' \subseteq Calls /\ lost' \in 0 .. MaxLost
    BY <1>1, <2>1, CycFields DEF GivesUpCall, Losing, CycleTypes
  <2>3. CycleTypes'
    BY <1>1, <2>1, <2>2 DEF CycleTypes, Resting, Calls, vars
  <2>4. PostUnderWay' = 0
    BY <2>1 DEF PostUnderWay, Resting
  <2>5. LatePost' <= LatePost + PostUnderWay /\ LatePost \in Nat /\ LatePost' \in Nat
        /\ PostUnderWay \in Nat
    BY <2>1 DEF LatePost, PostUnderWay, GivesUpCall
  <2>6. QED
    BY <1>1, <2>1, <2>3, <2>4, <2>5, CountKept, CycFields
<1>8. CASE FetchFails
  <2>1. /\ cyc.at = "waiting" /\ Losing
        /\ cyc' = [cyc EXCEPT !.at = "accepting", !.todo = {}] \/ cyc' = Resting
        /\ UNCHANGED vars /\ posted' = posted
        /\ shown' = shown /\ stuck' = stuck /\ late' = late /\ begun' = begun
    BY <1>8 DEF FetchFails, AfterThrow
  <2>2. lost' \in 0 .. MaxLost
    BY <2>1, <1>1, CycFields DEF Losing
  <2>3. /\ cyc' \in [at : {"resting", "calling", "answered", "waiting", "accepting"},
                     call : Calls, ok : BOOLEAN, todo : SUBSET Ids]
        /\ cyc'.todo = {} /\ cyc'.at # "calling"
    <3>1. CASE cyc' = [cyc EXCEPT !.at = "accepting", !.todo = {}]
      BY <1>1, <3>1 DEF CycleTypes
    <3>2. CASE cyc' = Resting
      BY <3>2 DEF Resting, Calls
    <3>3. QED
      BY <2>1, <3>1, <3>2
  <2>4. CycleTypes'
    BY <1>1, <2>1, <2>2, <2>3 DEF CycleTypes, vars
  <2>5. PostUnderWay = 0 /\ PostUnderWay' = 0 /\ LatePost' = LatePost /\ LatePost \in Nat
    BY <2>1, <2>3 DEF PostUnderWay, LatePost
  <2>6. QED
    BY <1>1, <2>1, <2>4, <2>5, CountKept, CycFields
<1>9. QED
  BY <1>2, <1>3, <1>4, <1>5, <1>6, <1>7, <1>8

\* Every step of the composition preserves CInv.
LEMMA NextCInv == CInv /\ [CyclerNext]_cyclerVars => CInv'
<1> SUFFICES ASSUME CInv, [CyclerNext]_cyclerVars PROVE CInv'
  OBVIOUS
<1>1. IInv /\ CycleTypes /\ PostsCounted
  BY DEF CInv
<1>2. IInv'
  BY <1>1, StepOfMarket, NextIInv
<1>3. CASE UNCHANGED cyclerVars
  <2>1. CycleTypes'
    BY <1>1, <1>3 DEF CycleTypes, cyclerVars, cyclerOwn, vars
  <2>2. PostsCounted'
    BY <1>1, <1>3 DEF PostsCounted, LatePost, PostUnderWay, cyclerVars, cyclerOwn
  <2>3. QED
    BY <1>2, <2>1, <2>2 DEF CInv
<1>4. CASE OthersCall \/ KeyElsewhere
  <2>1. UNCHANGED <<shown, stuck, cyc, late, lost, begun, posted>>
    BY <1>4 DEF OthersCall, KeyElsewhere, cyclerOwn
  <2>2. CycleTypes'
    BY <1>1, <2>1, StepOfMarket, TodoStays DEF CycleTypes
  <2>3. PostsCounted'
    BY <1>1, <2>1 DEF PostsCounted, LatePost, PostUnderWay
  <2>4. QED
    BY <1>2, <2>2, <2>3 DEF CInv
<1>5. ASSUME NEW id \in Ids, RowCatchesUp(id) \/ RowSticks(id)
      PROVE  CInv'
  <2>1. UNCHANGED vars /\ UNCHANGED <<cyc, late, begun, posted>>
    BY <1>5 DEF RowCatchesUp, RowSticks, cyclerOwn
  <2>2. stuck' \subseteq Ids /\ lost' \in 0 .. MaxLost /\ shown' \subseteq Ids
    <3>1. lost' = lost \/ Losing
      BY <1>5 DEF RowCatchesUp, RowSticks, cyclerOwn
    <3>2. lost' \in 0 .. MaxLost
      BY <1>1, <3>1, CycFields DEF Losing
    <3>3. QED
      BY <1>1, <1>5, <3>2 DEF RowCatchesUp, RowSticks, CycleTypes
  <2>3. CycleTypes'
    BY <1>1, <2>1, <2>2 DEF CycleTypes, vars
  <2>4. PostsCounted'
    BY <1>1, <2>1 DEF PostsCounted, LatePost, PostUnderWay
  <2>5. QED
    BY <1>2, <2>3, <2>4 DEF CInv
<1>6. CASE CallLands \/ LandsLate
  BY <1>2, <1>6, CallLandsCInv, LandsLateCInv DEF CInv
<1>7. ASSUME \/ CycleStarts \/ CallReturns \/ Fetches \/ AcceptsNext \/ CycleEnds
             \/ CallThrows \/ CyclerCrash \/ FetchFails
      PROVE  CInv'
  BY <1>2, <1>7, OwnStepCInv DEF CInv
<1>8. QED
  BY <1>3, <1>4, <1>5, <1>6, <1>7 DEF CyclerNext, CyclerStep

-------------------------------------------------------------------------------
(* The theorems.                                                              *)

\* The inductive invariant holds throughout.
THEOREM CyclerInvariance == CyclerSpec => []CInv
BY InitCInv, NextCInv, PTL DEF CyclerSpec

\* The market with the cycler and its mishaps is the contract at work: its
\* steps are steps of BountyMesh, so that whatever holds of the contract holds
\* beside the cycler.
THEOREM CyclerIsOnMarket == CyclerSpec => Spec
<1>1. CyclerInit => Init
  BY DEF CyclerInit
<1>2. CInv /\ [CyclerNext]_cyclerVars => [Next]_vars
  BY StepOfMarket DEF CInv
<1>3. QED
  BY <1>1, <1>2, CyclerInvariance, PTL DEF CyclerSpec, Spec

\* Every variable keeps its type, the list the cycle works through holds
\* bounties of the operator alone, and what the cycler posted has no deadline.
THEOREM CyclerTypeCorrectness == CyclerSpec => []CyclerTypeOK
<1>1. CInv => CyclerTypeOK
  BY DEF CInv, IInv, CycleTypes, CyclerTypeOK
<1>2. QED
  BY <1>1, CyclerInvariance, PTL

\* A cycle posts one bounty at most, whenever the calls that threw do land.
THEOREM CyclePostsOnce == CyclerSpec => []OnePostPerCycle
<1>1. CInv => OnePostPerCycle
  <2> SUFFICES ASSUME CInv PROVE OnePostPerCycle
    OBVIOUS
  <2>1. Cardinality(posted) \in Nat
    BY PostedIsFinite, FS_CardinalityType DEF CInv
  <2>2. LatePost \in Nat /\ PostUnderWay \in Nat
    BY DEF LatePost, PostUnderWay
  <2>3. QED
    BY <2>1, <2>2, CycFields DEF CInv, PostsCounted, OnePostPerCycle
<1>2. QED
  BY <1>1, CyclerInvariance, PTL

\* No call of another account and none of the cycler's own gives the reward of a
\* bounty the cycler posted back by Cancel, Reject or Timeout: only the
\* operator's key in other hands does, or the owner by Revoke.
THEOREM CyclerNeverTakesBack == CyclerSpec => NeverTakenBack
<1> DEFINE Keeps == OthersCall \/ CyclerStep \/ LandsLate =>
                      \A id \in posted :
                        bounties'[id].status \in TakenBack => bounties[id].status \in TakenBack
<1>1. CInv /\ [CyclerNext]_cyclerVars => [Keeps]_cyclerVars
  <2> SUFFICES ASSUME CInv, OthersCall \/ CyclerStep \/ LandsLate,
                      NEW id \in posted, bounties'[id].status \in TakenBack
               PROVE  bounties[id].status \in TakenBack
    OBVIOUS
  <2>1. IInv /\ CycleTypes
    BY DEF CInv
  <2>2. CASE OthersCall
    BY <2>1, <2>2, OthersKeep
  <2>3. CASE CallLands
    BY <2>1, <2>3, CycFields, CallKeeps DEF CallLands
  <2>4. CASE LandsLate
    BY <2>1, <2>4, CallKeeps DEF LandsLate, CycleTypes
  <2>5. CASE CycleStarts \/ CallReturns \/ Fetches \/ AcceptsNext \/ CycleEnds
    BY <2>5 DEF CycleStarts, CallReturns, Fetches, AcceptsNext, CycleEnds, vars
  <2>6. QED
    BY <2>2, <2>3, <2>4, <2>5 DEF CyclerStep
<1>2. QED
  BY <1>1, CyclerInvariance, PTL DEF CyclerSpec, NeverTakenBack

=================================================================================
