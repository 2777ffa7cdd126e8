------------------------------ MODULE BountyMesh ------------------------------
(***************************************************************************)
(* The on-chain market: BountyMeshState and the nine methods of            *)
(* BountyService (programs/bountymesh/app/src).                            *)
(*                                                                         *)
(* The program is an actor: one message is handled at a time, and a panic  *)
(* rolls the whole message back, so each method is one atomic action.      *)
(*                                                                         *)
(* What is abstracted:                                                     *)
(*   - texts (title, description, acceptance, payload, reason) and the     *)
(*     result hash only make a call fail when too long or zero; such calls *)
(*     change nothing and are left out.                                    *)
(*   - a Vec<BountyId> of an index map is the number of occurrences of     *)
(*     each id in it: push adds one, retain(|x| x != id) leaves none.      *)
(*   - Option::None is NoBlock for a block number, NoActor for an actor.   *)
(*   - the value attached to a call other than Post rides back on the same *)
(*     reply, Ok or Err, and cancels out; only the net flow is kept.       *)
(***************************************************************************)
EXTENDS Integers, Collections

CONSTANTS
  Actors,      \* accounts that send messages to the program
  Owner,       \* msg::source() of the constructor, fixed for ever
  NoActor,     \* Option<ActorId>::None
  Tracks,      \* TrackEnum
  Rewards,     \* rewards a poster may ask for
  Values,      \* values a poster may attach to Post
  Deadlines,   \* values of the deadline argument, NoBlock among them
  min_reward,  \* Config::min_reward
  MaxId,       \* the largest BountyId (u64::MAX in the program)
  MaxBlock     \* bound on the block height explored

NoBlock == -1

ASSUME ConstantsAssumption ==
  /\ Owner \in Actors
  /\ NoActor \notin Actors
  /\ Rewards \subseteq Nat
  /\ Values \subseteq Nat
  /\ min_reward \in Nat
  /\ Deadlines \subseteq Nat \cup {NoBlock}
  /\ MaxId \in Nat
  /\ MaxBlock \in Nat

Ids == 0 .. MaxId - 1

VARIABLES
  bounties,           \* id -> Bounty, status "Absent" where there is none
  next_id,
  bounties_by_status, \* status -> id -> occurrences, likewise the next three
  bounties_by_poster,
  bounties_by_worker,
  bounties_by_track,
  block_height,       \* exec::block_height()
  balance,            \* value held by the program above its deploy balance
  paid                \* history: id -> value sent out to its poster, its worker

vars == <<bounties, next_id, bounties_by_status, bounties_by_poster,
          bounties_by_worker, bounties_by_track, block_height, balance, paid>>

BountyStatus == {"Open", "Claimed", "Submitted", "Accepted", "Rejected",
                 "Cancelled", "TimedOut", "Revoked"}

Block == Nat \cup {NoBlock}

Bounty ==
  [poster: Actors \cup {NoActor}, worker: Actors \cup {NoActor}, reward: Nat,
   deadline: Block, status: BountyStatus \cup {"Absent"}, withdrawn: BOOLEAN,
   posted_at: Block, claimed_at: Block, submitted_at: Block, settled_at: Block,
   cancelled_at: Block, rejected_at: Block, timed_out_at: Block,
   revoked_at: Block]

NoBounty ==
  [poster |-> NoActor, worker |-> NoActor, reward |-> 0, deadline |-> NoBlock,
   status |-> "Absent", withdrawn |-> FALSE, posted_at |-> NoBlock,
   claimed_at |-> NoBlock, submitted_at |-> NoBlock, settled_at |-> NoBlock,
   cancelled_at |-> NoBlock, rejected_at |-> NoBlock, timed_out_at |-> NoBlock,
   revoked_at |-> NoBlock]

Posted(id) == id \in Ids /\ bounties[id].status # "Absent"

Init ==
  /\ bounties = [id \in Ids |-> NoBounty]
  /\ next_id = 0
  /\ bounties_by_status = [s \in BountyStatus |-> [id \in Ids |-> 0]]
  /\ bounties_by_poster = [a \in Actors |-> [id \in Ids |-> 0]]
  /\ bounties_by_worker = [a \in Actors |-> [id \in Ids |-> 0]]
  /\ bounties_by_track = [t \in Tracks |-> [id \in Ids |-> 0]]
  /\ block_height = 0
  /\ balance = 0
  /\ paid = [id \in Ids |-> [poster |-> 0, worker |-> 0]]

-------------------------------------------------------------------------------
(* What each method answers, its guards in the order of the code. Config      *)
(* starts with paused = FALSE and no method sets it; the program never sends  *)
(* a message to itself: MarketPaused and SelfLoop are never the answer.       *)

PostReply(source, reward, value) ==
  IF reward < min_reward THEN "RewardBelowMinimum"
  ELSE IF value < reward THEN "InsufficientPayment"
  ELSE IF next_id = MaxId THEN "IdSpaceExhausted"
  ELSE "Ok"

\* Mutation of ClaimReply: a claimed bounty can be claimed again.
ClaimReplyAgain(source, id) ==
  IF ~Posted(id) THEN "BountyNotFound"
  ELSE IF bounties[id].status \notin {"Open", "Claimed"} THEN "BountyNotOpen"
  ELSE "Ok"

ClaimReply(source, id) ==
  IF ~Posted(id) THEN "BountyNotFound"
  ELSE IF bounties[id].status # "Open" THEN "BountyNotOpen"
  ELSE "Ok"

SubmitReply(source, id) ==
  IF ~Posted(id) THEN "BountyNotFound"
  ELSE IF bounties[id].status # "Claimed" THEN "BountyNotClaimed"
  ELSE IF bounties[id].worker # source THEN "Unauthorized"
  ELSE "Ok"

AcceptReply(source, id) ==
  IF ~Posted(id) THEN "BountyNotFound"
  ELSE IF bounties[id].status # "Submitted" THEN "BountyNotSubmitted"
  ELSE IF bounties[id].poster # source THEN "Unauthorized"
  ELSE "Ok"

\* Mutation of WithdrawReply: no check of the withdrawn flag.
WithdrawReplyAgain(source, id) ==
  IF ~Posted(id) THEN "BountyNotFound"
  ELSE IF bounties[id].status # "Accepted" THEN "BountyNotAccepted"
  ELSE IF bounties[id].worker # source THEN "Unauthorized"
  ELSE "Ok"

\* Mutation of WithdrawReply: a delivered bounty counts as accepted.
WithdrawReplyEarly(source, id) ==
  IF ~Posted(id) THEN "BountyNotFound"
  ELSE IF bounties[id].status \notin {"Submitted", "Accepted"} THEN "BountyNotAccepted"
  ELSE IF bounties[id].worker # source THEN "Unauthorized"
  ELSE IF bounties[id].withdrawn THEN "AlreadyWithdrawn"
  ELSE "Ok"

WithdrawReply(source, id) ==
  IF ~Posted(id) THEN "BountyNotFound"
  ELSE IF bounties[id].status # "Accepted" THEN "BountyNotAccepted"
  ELSE IF bounties[id].worker # source THEN "Unauthorized"
  ELSE IF bounties[id].withdrawn THEN "AlreadyWithdrawn"
  ELSE "Ok"

CancelReply(source, id) ==
  IF ~Posted(id) THEN "BountyNotFound"
  ELSE IF bounties[id].status # "Open" THEN "BountyNotOpen"
  ELSE IF bounties[id].poster # source THEN "Unauthorized"
  ELSE "Ok"

RejectReply(source, id) ==
  IF ~Posted(id) THEN "BountyNotFound"
  ELSE IF bounties[id].status # "Submitted" THEN "BountyNotSubmitted"
  ELSE IF bounties[id].poster # source THEN "Unauthorized"
  ELSE "Ok"

\* Mutation of TimeoutReply: the deadline block itself is late enough.
TimeoutReplyAtDeadline(source, id) ==
  IF ~Posted(id) THEN "BountyNotFound"
  ELSE IF bounties[id].status \notin {"Open", "Claimed", "Submitted"}
  THEN "BountyAlreadyTerminal"
  ELSE IF bounties[id].deadline = NoBlock THEN "NoDeadlineSet"
  ELSE IF block_height < bounties[id].deadline THEN "DeadlineNotReached"
  ELSE "Ok"

\* Mutation of TimeoutReply: None is a deadline long past.
TimeoutReplyWithoutDeadline(source, id) ==
  IF ~Posted(id) THEN "BountyNotFound"
  ELSE IF bounties[id].status \notin {"Open", "Claimed", "Submitted"}
  THEN "BountyAlreadyTerminal"
  ELSE IF block_height <= bounties[id].deadline THEN "DeadlineNotReached"
  ELSE "Ok"

TimeoutReply(source, id) ==
  IF ~Posted(id) THEN "BountyNotFound"
  ELSE IF bounties[id].status \notin {"Open", "Claimed", "Submitted"}
  THEN "BountyAlreadyTerminal"
  ELSE IF bounties[id].deadline = NoBlock THEN "NoDeadlineSet"
  ELSE IF block_height <= bounties[id].deadline THEN "DeadlineNotReached"
  ELSE "Ok"

RevokeReply(source, id) ==
  IF source # Owner THEN "Unauthorized"
  ELSE IF ~Posted(id) THEN "BountyNotFound"
  ELSE IF bounties[id].status = "Revoked" THEN "BountyAlreadyTerminal"
  ELSE "Ok"

-------------------------------------------------------------------------------
(* State changes the methods share.                                           *)

\* The bounty `id` becomes the record c.
Becomes(id, c) == bounties' = [bounties EXCEPT ![id] = c]

Push(index, key, id) == [index EXCEPT ![key][id] = @ + 1]

\* Mutation of MoveStatus: the id stays in the list it leaves.
MoveStatusWithoutRetain(id, from, to) ==
  bounties_by_status' = Push(bounties_by_status, to, id)

\* The id leaves every place it has in the list of `from` and is appended to
\* the list of `to`.
MoveStatus(id, from, to) ==
  bounties_by_status' =
    Push([bounties_by_status EXCEPT ![from][id] = 0], to, id)

\* Value goes out on a reply or by msg::send_bytes. Without the funds the
\* call panics and the message is rolled back: no step.
Pay(id, whom, amount) ==
  /\ balance >= amount
  /\ balance' = balance - amount
  /\ paid' = [paid EXCEPT ![id][whom] = @ + amount]

NoPayment == UNCHANGED <<balance, paid>>

SameOwners == UNCHANGED <<next_id, bounties_by_poster, bounties_by_track>>

-------------------------------------------------------------------------------
\* Mutation of Excess: the overpayment stays in the program.
ExcessKept(reward, value) == 0

\* What Post sends back on its reply.
Excess(reward, value) == value - reward

Post(source, reward, value, deadline, track) ==
  LET id == next_id IN
  /\ PostReply(source, reward, value) = "Ok"
  /\ next_id' = id + 1
  /\ Becomes(id, [NoBounty EXCEPT !.poster = source, !.reward = reward,
                                  !.deadline = deadline, !.status = "Open",
                                  !.posted_at = block_height])
  /\ bounties_by_status' = Push(bounties_by_status, "Open", id)
  /\ bounties_by_poster' = Push(bounties_by_poster, source, id)
  /\ bounties_by_track' = Push(bounties_by_track, track, id)
  /\ balance' = (balance + value) - Excess(reward, value)
  /\ UNCHANGED <<bounties_by_worker, block_height, paid>>

Claim(source, id) ==
  /\ ClaimReply(source, id) = "Ok"
  /\ Becomes(id, [bounties[id] EXCEPT !.worker = source, !.status = "Claimed",
                                      !.claimed_at = block_height])
  /\ MoveStatus(id, "Open", "Claimed")
  /\ bounties_by_worker' = Push(bounties_by_worker, source, id)
  /\ NoPayment
  /\ SameOwners
  /\ UNCHANGED block_height

Submit(source, id) ==
  /\ SubmitReply(source, id) = "Ok"
  /\ Becomes(id, [bounties[id] EXCEPT !.status = "Submitted",
                                      !.submitted_at = block_height])
  /\ MoveStatus(id, "Claimed", "Submitted")
  /\ NoPayment
  /\ SameOwners
  /\ UNCHANGED <<bounties_by_worker, block_height>>

\* Accept moves no value: the reward stays until the worker withdraws it.
Accept(source, id) ==
  /\ AcceptReply(source, id) = "Ok"
  /\ Becomes(id, [bounties[id] EXCEPT !.status = "Accepted",
                                      !.settled_at = block_height])
  /\ MoveStatus(id, "Submitted", "Accepted")
  /\ NoPayment
  /\ SameOwners
  /\ UNCHANGED <<bounties_by_worker, block_height>>

Withdraw(source, id) ==
  /\ WithdrawReply(source, id) = "Ok"
  /\ Becomes(id, [bounties[id] EXCEPT !.withdrawn = TRUE])
  /\ Pay(id, "worker", bounties[id].reward)
  /\ SameOwners
  /\ UNCHANGED <<bounties_by_status, bounties_by_worker, block_height>>

Cancel(source, id) ==
  /\ CancelReply(source, id) = "Ok"
  /\ Becomes(id, [bounties[id] EXCEPT !.status = "Cancelled",
                                      !.cancelled_at = block_height])
  /\ MoveStatus(id, "Open", "Cancelled")
  /\ Pay(id, "poster", bounties[id].reward)
  /\ SameOwners
  /\ UNCHANGED <<bounties_by_worker, block_height>>

Reject(source, id) ==
  /\ RejectReply(source, id) = "Ok"
  /\ Becomes(id, [bounties[id] EXCEPT !.status = "Rejected",
                                      !.rejected_at = block_height])
  /\ MoveStatus(id, "Submitted", "Rejected")
  /\ Pay(id, "poster", bounties[id].reward)
  /\ SameOwners
  /\ UNCHANGED <<bounties_by_worker, block_height>>

Timeout(source, id) ==
  /\ TimeoutReply(source, id) = "Ok"
  /\ Becomes(id, [bounties[id] EXCEPT !.status = "TimedOut",
                                      !.timed_out_at = block_height])
  /\ MoveStatus(id, bounties[id].status, "TimedOut")
  /\ Pay(id, "poster", bounties[id].reward)
  /\ SameOwners
  /\ UNCHANGED <<bounties_by_worker, block_height>>

\* Mutation of escrow_to_refund: the withdrawn flag is not asked.
escrow_to_refundAlways(id) == bounties[id].reward

\* "Refund the escrow only if it hasn't already left the contract": the code
\* asks bounty.withdrawn, which only Withdraw sets.
escrow_to_refund(id) == IF bounties[id].withdrawn THEN 0 ELSE bounties[id].reward

Revoke(source, id) ==
  /\ RevokeReply(source, id) = "Ok"
  /\ Becomes(id, [bounties[id] EXCEPT !.status = "Revoked",
                                      !.revoked_at = block_height])
  /\ MoveStatus(id, bounties[id].status, "Revoked")
  /\ Pay(id, "poster", escrow_to_refund(id))
  /\ SameOwners
  /\ UNCHANGED <<bounties_by_worker, block_height>>

\* A call that returns Err, or panics for want of funds, leaves no trace.
Refused(source, id) ==
  /\ \E reply \in {ClaimReply(source, id), SubmitReply(source, id),
                   AcceptReply(source, id), WithdrawReply(source, id),
                   CancelReply(source, id), RejectReply(source, id),
                   TimeoutReply(source, id), RevokeReply(source, id)} :
       reply # "Ok"
  /\ UNCHANGED vars

NextBlock ==
  /\ block_height < MaxBlock
  /\ block_height' = block_height + 1
  /\ UNCHANGED <<bounties, next_id, bounties_by_status, bounties_by_poster,
                 bounties_by_worker, bounties_by_track, balance, paid>>

\* What one account may call.
CallBy(source) ==
  \/ \E reward \in Rewards, value \in Values, deadline \in Deadlines, track \in Tracks :
       Post(source, reward, value, deadline, track)
  \/ \E id \in Ids :
       \/ Claim(source, id)
       \/ Submit(source, id)
       \/ Accept(source, id)
       \/ Withdraw(source, id)
       \/ Cancel(source, id)
       \/ Reject(source, id)
       \/ Timeout(source, id)
       \/ Revoke(source, id)
       \/ Refused(source, id)

Next == NextBlock \/ \E source \in Actors : CallBy(source)

Spec == Init /\ [][Next]_vars

-------------------------------------------------------------------------------
(* Properties.                                                                *)

\* Type invariant: every field of BountyMeshState keeps its type; the balance
\* of the program is never negative.
TypeOK ==
  /\ bounties \in [Ids -> Bounty]
  /\ next_id \in 0 .. MaxId
  /\ bounties_by_status \in [BountyStatus -> [Ids -> Nat]]
  /\ bounties_by_poster \in [Actors -> [Ids -> Nat]]
  /\ bounties_by_worker \in [Actors -> [Ids -> Nat]]
  /\ bounties_by_track \in [Tracks -> [Ids -> Nat]]
  /\ block_height \in Nat
  /\ balance \in Nat
  /\ paid \in [Ids -> [poster: Nat, worker: Nat]]

OneIf(condition) == IF condition THEN 1 ELSE 0

\* The hand-kept index maps say what the bounties say: each posted id is once
\* in the list of its status and in no other, once in its poster's list, and
\* once in the list of its worker alone, through every move of every method.
IndexMapsAgree ==
  /\ \A id \in Ids : Posted(id) <=> id < next_id
  /\ \A s \in BountyStatus, id \in Ids :
       bounties_by_status[s][id] = OneIf(bounties[id].status = s)
  /\ \A a \in Actors, id \in Ids :
       /\ bounties_by_poster[a][id] = OneIf(bounties[id].poster = a)
       /\ bounties_by_worker[a][id] = OneIf(bounties[id].worker = a)

\* The stamps a bounty carries are exactly those of the steps on a path to its
\* status, they never run backwards, none is ahead of the chain, and a bounty
\* times out strictly after its deadline. (A Revoked bounty keeps the stamps
\* of the path it was on.)
Stamped(block) == block # NoBlock

InOrder(earlier, later) ==
  Stamped(later) => Stamped(earlier) /\ earlier <= later

StampsFitStatus(b) ==
  /\ Stamped(b.posted_at) <=> b.status # "Absent"
  /\ Stamped(b.claimed_at) <=> b.worker # NoActor
  /\ Stamped(b.cancelled_at) => ~Stamped(b.claimed_at) /\ ~Stamped(b.timed_out_at)
  /\ Stamped(b.rejected_at) => ~Stamped(b.settled_at) /\ ~Stamped(b.timed_out_at)
  /\ Stamped(b.timed_out_at) => ~Stamped(b.settled_at)
  /\ b.withdrawn => Stamped(b.settled_at)
  /\ Stamped(b.revoked_at) <=> b.status = "Revoked"
  /\ b.status # "Revoked" =>
       /\ b.status = "Open" => ~Stamped(b.claimed_at)
       /\ b.status = "Claimed" => Stamped(b.claimed_at) /\ ~Stamped(b.submitted_at)
       /\ b.status = "Submitted" => Stamped(b.submitted_at)
       /\ Stamped(b.settled_at) <=> b.status = "Accepted"
       /\ Stamped(b.cancelled_at) <=> b.status = "Cancelled"
       /\ Stamped(b.rejected_at) <=> b.status = "Rejected"
       /\ Stamped(b.timed_out_at) <=> b.status = "TimedOut"

StampsInOrder(b) ==
  /\ InOrder(b.posted_at, b.claimed_at)
  /\ InOrder(b.claimed_at, b.submitted_at)
  /\ InOrder(b.submitted_at, b.settled_at)
  /\ InOrder(b.submitted_at, b.rejected_at)
  /\ InOrder(b.posted_at, b.cancelled_at)
  /\ InOrder(b.posted_at, b.timed_out_at)
  /\ InOrder(b.posted_at, b.revoked_at)
  /\ \A stamp \in {b.posted_at, b.claimed_at, b.submitted_at, b.settled_at,
                    b.cancelled_at, b.rejected_at, b.timed_out_at, b.revoked_at} :
       stamp <= block_height
  /\ Stamped(b.timed_out_at) =>
       Stamped(b.deadline) /\ b.timed_out_at > b.deadline

Chronology ==
  \A id \in Ids : StampsFitStatus(bounties[id]) /\ StampsInOrder(bounties[id])

\* A bounty whose reward went back to the poster by Cancel, Reject or Timeout.
Refunded(b) ==
  Stamped(b.cancelled_at) \/ Stamped(b.rejected_at) \/ Stamped(b.timed_out_at)

\* A revoked bounty whose reward had been refunded before the revocation.
RefundedTwice(b) == Refunded(b) /\ Stamped(b.revoked_at)

\* A bounty whose reward the program still owes to somebody.
Held(b) ==
  /\ b.status # "Absent"
  /\ ~b.withdrawn
  /\ ~Refunded(b)
  /\ ~Stamped(b.revoked_at)

\* What left the program for a bounty, to the unit: the reward to its worker
\* when withdrawn, the reward to its poster for a refund and again for a
\* revocation of an unwithdrawn bounty, and nothing else.
RewardIf(b, condition) == IF condition THEN b.reward ELSE 0

PayoutsExact ==
  \A id \in Ids :
    LET b == bounties[id] IN
    /\ paid[id].worker = RewardIf(b, b.withdrawn)
    /\ paid[id].poster = RewardIf(b, Refunded(b))
                         + RewardIf(b, Stamped(b.revoked_at) /\ ~b.withdrawn)

\* Two accounts never both profit from one bounty: once the worker has been
\* paid no method pays the poster, and the other way round; the worker's pay
\* takes the poster's Accept.
OneBeneficiary ==
  \A id \in Ids :
    /\ ~(paid[id].worker > 0 /\ paid[id].poster > 0)
    /\ paid[id].worker > 0 => Stamped(bounties[id].settled_at)

RewardOf == [id \in Ids |-> bounties[id].reward]

\* The books balance: what the program holds is the sum of the rewards it
\* owes, less the rewards it refunded a second time.
EscrowAccounting ==
  balance = Total(RewardOf, {id \in Ids : Held(bounties[id])})
            - Total(RewardOf, {id \in Ids : RefundedTwice(bounties[id])})

\* The escrow of a bounty leaves the contract once (the comment in Revoke,
\* service.rs:750): what the program holds covers every reward it owes.
\* Violated: Revoke of a Cancelled, Rejected or TimedOut bounty pays again.
Solvent == balance >= Total(RewardOf, {id \in Ids : Held(bounties[id])})

\* The lifecycle of state.rs:4-8.
Transitions ==
  ({"Absent"} \X {"Open"})
  \cup ({"Open"} \X {"Claimed", "Cancelled", "TimedOut"})
  \cup ({"Claimed"} \X {"Submitted", "TimedOut"})
  \cup ({"Submitted"} \X {"Accepted", "Rejected", "TimedOut"})
  \cup ((BountyStatus \ {"Revoked"}) \X {"Revoked"})

\* What a step may do to a posted bounty: follow the lifecycle or leave the
\* status alone; it never alters the terms of the posting, the worker once one
\* has claimed, a stamp once set, or takes a withdrawal back.
KeepsTerms(b, c) ==
  /\ b.status # "Absent" =>
       c.poster = b.poster /\ c.reward = b.reward /\ c.deadline = b.deadline
  /\ b.worker # NoActor => c.worker = b.worker
  /\ b.withdrawn => c.withdrawn
  /\ c.withdrawn /\ ~b.withdrawn => b.status = "Accepted" /\ c.status = "Accepted"

KeepsStamps(b, c) ==
  \A field \in {"posted_at", "claimed_at", "submitted_at", "settled_at",
                "cancelled_at", "rejected_at", "timed_out_at", "revoked_at"} :
    Stamped(b[field]) => c[field] = b[field]

LifecycleStep(id) ==
  /\ \/ bounties'[id].status = bounties[id].status
     \/ <<bounties[id].status, bounties'[id].status>> \in Transitions
  /\ KeepsTerms(bounties[id], bounties'[id])
  /\ KeepsStamps(bounties[id], bounties'[id])

\* Action property: every step is a lifecycle step for every bounty.
Lifecycle == [][\A id \in Ids : LifecycleStep(id)]_vars

\* The contract implements the promise of module Escrow: the reward goes in
\* once, then to the worker (after Accept) or back to the poster, and stays
\* there. What the mapping hides, a second refund, is the subject of Solvent.
HolderOf(b) ==
  IF b.status = "Absent" THEN "nobody"
  ELSE IF b.withdrawn THEN "worker"
  ELSE IF Held(b) THEN "program"
  ELSE "poster"

E == INSTANCE Escrow WITH
       holder  <- [id \in Ids |-> HolderOf(bounties[id])],
       settled <- [id \in Ids |-> Stamped(bounties[id].settled_at)]

EscrowPromise == E!EscrowSpec

===============================================================================
