--------------------------- MODULE BountyMeshProofs ---------------------------
(***************************************************************************)
(* Proofs about the contract, for every value of its constants: any number *)
(* of accounts, bounties and blocks.                                       *)
(*                                                                         *)
(* IInv is the inductive invariant. Types alone are inductive; the payouts *)
(* need the stamps (a bounty whose status lets it be refunded has no other *)
(* refund behind it), the index maps need to agree with the status before  *)
(* a move, and Post needs the slot of next_id to be blank.                 *)
(***************************************************************************)
EXTENDS BountyMesh, CollectionsProofs

Unposted == \A id \in Ids : id >= next_id => bounties[id] = NoBounty

IInv == TypeOK /\ IndexMapsAgree /\ Chronology /\ PayoutsExact /\ Unposted

-------------------------------------------------------------------------------
(* What the shared state changes do.                                          *)

\* Replacing one bounty leaves the others alone.
LEMMA BecomesFrame ==
  ASSUME NEW id \in Ids, NEW c \in Bounty, bounties \in [Ids -> Bounty],
         Becomes(id, c)
  PROVE  /\ bounties' \in [Ids -> Bounty]
         /\ bounties'[id] = c
         /\ \A other \in Ids \ {id} : bounties'[other] = bounties[other]
BY DEF Becomes

\* Pushing to an index keeps its type and adds one occurrence in one place.
LEMMA PushFrame ==
  ASSUME NEW Keys, NEW index \in [Keys -> [Ids -> Nat]], NEW key \in Keys, NEW id \in Ids
  PROVE  /\ Push(index, key, id) \in [Keys -> [Ids -> Nat]]
         /\ \A k \in Keys, i \in Ids :
              Push(index, key, id)[k][i] =
                IF k = key /\ i = id THEN index[k][i] + 1 ELSE index[k][i]
BY DEF Push

\* A move takes every occurrence out of one list and puts one in another.
LEMMA MoveStatusFrame ==
  ASSUME NEW id \in Ids, NEW from \in BountyStatus, NEW to \in BountyStatus, from # to,
         bounties_by_status \in [BountyStatus -> [Ids -> Nat]],
         MoveStatus(id, from, to)
  PROVE  /\ bounties_by_status' \in [BountyStatus -> [Ids -> Nat]]
         /\ \A s \in BountyStatus, i \in Ids :
              bounties_by_status'[s][i] =
                IF i # id THEN bounties_by_status[s][i]
                ELSE IF s = to THEN bounties_by_status[s][i] + 1
                ELSE IF s = from THEN 0 ELSE bounties_by_status[s][i]
<1> DEFINE without == [bounties_by_status EXCEPT ![from][id] = 0]
<1>1. /\ without \in [BountyStatus -> [Ids -> Nat]]
      /\ \A s \in BountyStatus, i \in Ids :
           without[s][i] = IF s = from /\ i = id THEN 0 ELSE bounties_by_status[s][i]
  OBVIOUS
<1>2. bounties_by_status' = Push(without, to, id)
  BY DEF MoveStatus
<1> HIDE DEF without
<1>3. /\ Push(without, to, id) \in [BountyStatus -> [Ids -> Nat]]
      /\ \A s \in BountyStatus, i \in Ids :
           Push(without, to, id)[s][i] =
             IF s = to /\ i = id THEN without[s][i] + 1 ELSE without[s][i]
  BY <1>1 DEF Push
<1>4. QED
  BY <1>1, <1>2, <1>3

\* A payment keeps the types and adds to one account's receipts for one bounty.
LEMMA PayFrame ==
  ASSUME NEW id \in Ids, NEW whom \in {"poster", "worker"}, NEW amount \in Nat,
         balance \in Nat, paid \in [Ids -> [poster: Nat, worker: Nat]],
         Pay(id, whom, amount)
  PROVE  /\ balance' \in Nat
         /\ paid' \in [Ids -> [poster: Nat, worker: Nat]]
         /\ \A other \in Ids \ {id} : paid'[other] = paid[other]
         /\ paid'[id].poster =
              IF whom = "poster" THEN paid[id].poster + amount ELSE paid[id].poster
         /\ paid'[id].worker =
              IF whom = "worker" THEN paid[id].worker + amount ELSE paid[id].worker
BY DEF Pay

-------------------------------------------------------------------------------
(* How the conjuncts of IInv carry over when one bounty changes.              *)

\* Chronology holds after a change of one bounty when it holds of the result.
LEMMA ChronologyKept ==
  ASSUME NEW id \in Ids, NEW c \in Bounty, TypeOK, Chronology,
         Becomes(id, c), block_height' = block_height,
         StampsFitStatus(c), StampsInOrder(c)
  PROVE  Chronology'
<1>1. /\ bounties'[id] = c
      /\ \A other \in Ids \ {id} : bounties'[other] = bounties[other]
  BY BecomesFrame DEF TypeOK
<1>2. SUFFICES ASSUME NEW i \in Ids
               PROVE  StampsFitStatus(bounties'[i]) /\ StampsInOrder(bounties[i])'
  BY DEF Chronology, StampsFitStatus, StampsInOrder
<1>3. CASE i = id
  BY <1>1, <1>3 DEF StampsInOrder
<1>4. CASE i # id
  BY <1>1, <1>4 DEF StampsInOrder, Chronology
<1>5. QED
  BY <1>3, <1>4

\* The index maps still agree after a bounty moves from one status to another
\* and its poster and worker stay.
LEMMA IndexMapsMoved ==
  ASSUME NEW id \in Ids, NEW c \in Bounty, TypeOK, IndexMapsAgree,
         Becomes(id, c), bounties[id].status \in BountyStatus,
         c.status \in BountyStatus, c.status # bounties[id].status,
         c.poster = bounties[id].poster, c.worker = bounties[id].worker,
         MoveStatus(id, bounties[id].status, c.status),
         UNCHANGED <<next_id, bounties_by_poster, bounties_by_worker>>
  PROVE  IndexMapsAgree'
<1>1. /\ bounties' \in [Ids -> Bounty]
      /\ bounties'[id] = c
      /\ \A other \in Ids \ {id} : bounties'[other] = bounties[other]
  BY BecomesFrame DEF TypeOK
<1>2. \A s \in BountyStatus, i \in Ids :
        bounties_by_status'[s][i] =
          IF i # id THEN bounties_by_status[s][i]
          ELSE IF s = c.status THEN bounties_by_status[s][i] + 1
          ELSE IF s = bounties[id].status THEN 0 ELSE bounties_by_status[s][i]
  BY MoveStatusFrame DEF TypeOK
<1>3. ASSUME NEW i \in Ids
      PROVE  Posted(i)' <=> i < next_id'
  <2>1. CASE i = id
    BY <1>1, <2>1 DEF Posted, IndexMapsAgree, BountyStatus
  <2>2. CASE i # id
    BY <1>1, <2>2 DEF Posted, IndexMapsAgree
  <2>3. QED
    BY <2>1, <2>2
<1>4. ASSUME NEW s \in BountyStatus, NEW i \in Ids
      PROVE  bounties_by_status'[s][i] = OneIf(bounties'[i].status = s)
  <2>1. bounties_by_status[s][i] = OneIf(bounties[i].status = s)
    BY DEF IndexMapsAgree
  <2>2. CASE i = id
    BY <1>1, <1>2, <2>1, <2>2 DEF OneIf
  <2>3. CASE i # id
    BY <1>1, <1>2, <2>1, <2>3
  <2>4. QED
    BY <2>2, <2>3
<1>5. ASSUME NEW a \in Actors, NEW i \in Ids
      PROVE  /\ bounties_by_poster'[a][i] = OneIf(bounties'[i].poster = a)
             /\ bounties_by_worker'[a][i] = OneIf(bounties'[i].worker = a)
  BY <1>1 DEF IndexMapsAgree
<1>6. QED
  BY <1>3, <1>4, <1>5 DEF IndexMapsAgree, OneIf

\* The payouts stay exact when a bounty changes and its own payout is exact.
LEMMA PayoutsKept ==
  ASSUME NEW id \in Ids, NEW c \in Bounty, TypeOK, PayoutsExact,
         Becomes(id, c),
         \A other \in Ids \ {id} : paid'[other] = paid[other],
         paid'[id].worker = RewardIf(c, c.withdrawn),
         paid'[id].poster = RewardIf(c, Refunded(c))
                            + RewardIf(c, Stamped(c.revoked_at) /\ ~c.withdrawn)
  PROVE  PayoutsExact'
<1>1. /\ bounties'[id] = c
      /\ \A other \in Ids \ {id} : bounties'[other] = bounties[other]
  BY BecomesFrame DEF TypeOK
<1>2. SUFFICES ASSUME NEW i \in Ids
               PROVE  /\ paid'[i].worker = RewardIf(bounties'[i], bounties'[i].withdrawn)
                      /\ paid'[i].poster =
                           RewardIf(bounties'[i], Refunded(bounties'[i]))
                           + RewardIf(bounties'[i], Stamped(bounties'[i].revoked_at)
                                                    /\ ~bounties'[i].withdrawn)
  BY DEF PayoutsExact, RewardIf, Refunded, Stamped
<1>3. CASE i = id
  BY <1>1, <1>3
<1>4. CASE i # id
  BY <1>1, <1>4 DEF PayoutsExact
<1>5. QED
  BY <1>3, <1>4

\* A change that pays nothing and stamps no refund, withdrawal or revocation.
LEMMA PayoutsUntouched ==
  ASSUME NEW id \in Ids, NEW c \in Bounty, TypeOK, PayoutsExact,
         Becomes(id, c), NoPayment,
         c.reward = bounties[id].reward, c.withdrawn = bounties[id].withdrawn,
         c.cancelled_at = bounties[id].cancelled_at,
         c.rejected_at = bounties[id].rejected_at,
         c.timed_out_at = bounties[id].timed_out_at,
         c.revoked_at = bounties[id].revoked_at
  PROVE  PayoutsExact'
<1>1. /\ paid'[id].worker = RewardIf(c, c.withdrawn)
      /\ paid'[id].poster = RewardIf(c, Refunded(c))
                            + RewardIf(c, Stamped(c.revoked_at) /\ ~c.withdrawn)
  BY DEF PayoutsExact, RewardIf, Refunded, NoPayment
<1>2. QED
  BY <1>1, PayoutsKept DEF NoPayment

-------------------------------------------------------------------------------
(* The initial state.                                                         *)

\* IInv holds initially.
LEMMA InitIInv == Init => IInv
<1> SUFFICES ASSUME Init PROVE IInv
  OBVIOUS
<1>1. TypeOK
  BY ConstantsAssumption
     DEF Init, TypeOK, NoBounty, Bounty, Block, NoBlock, Ids, BountyStatus
<1>2. IndexMapsAgree
  BY ConstantsAssumption
     DEF Init, IndexMapsAgree, NoBounty, Ids, BountyStatus, Posted, OneIf
<1>3. Chronology
  BY DEF Init, Chronology, NoBounty, NoBlock, Ids, StampsFitStatus, StampsInOrder,
         Stamped, InOrder
<1>4. PayoutsExact
  BY DEF Init, PayoutsExact, NoBounty, NoBlock, RewardIf, Refunded, Stamped
<1>5. Unposted
  BY DEF Init, Unposted
<1>6. QED
  BY <1>1, <1>2, <1>3, <1>4, <1>5 DEF IInv

-------------------------------------------------------------------------------
(* Each method preserves IInv.                                                *)

\* Post preserves IInv.
LEMMA PostIInv ==
  ASSUME NEW source \in Actors, NEW reward \in Rewards, NEW value \in Values,
         NEW deadline \in Deadlines, NEW track \in Tracks,
         IInv, Post(source, reward, value, deadline, track)
  PROVE  IInv'
<1> DEFINE id == next_id
           c == [NoBounty EXCEPT !.poster = source, !.reward = reward,
                                 !.deadline = deadline, !.status = "Open",
                                 !.posted_at = block_height]
<1>1. /\ TypeOK /\ IndexMapsAgree /\ Chronology /\ PayoutsExact /\ Unposted
      /\ reward \in Nat /\ value \in Nat /\ value >= reward
      /\ id \in Ids /\ id + 1 \in 0 .. MaxId
  <2>1. TypeOK /\ IndexMapsAgree /\ Chronology /\ PayoutsExact /\ Unposted
    BY DEF IInv
  <2>2. reward \in Nat /\ value \in Nat /\ min_reward \in Nat /\ MaxId \in Nat
    BY ConstantsAssumption
  <2>3. value >= reward /\ next_id # MaxId
    BY <2>2 DEF Post, PostReply
  <2>4. next_id \in 0 .. MaxId
    BY <2>1 DEF TypeOK
  <2>5. QED
    BY <2>1, <2>2, <2>3, <2>4 DEF Ids
<1>2. c \in Bounty
  <2>1. NoBounty \in Bounty
    BY DEF NoBounty, Bounty, Block, NoBlock
  <2>2. block_height \in Block /\ deadline \in Block /\ "Open" \in BountyStatus
    BY <1>1, ConstantsAssumption DEF TypeOK, Block, BountyStatus
  <2>3. QED
    BY <1>1, <2>1, <2>2 DEF Bounty
<1>3. /\ c.poster = source /\ c.worker = NoActor /\ c.reward = reward
      /\ c.deadline = deadline /\ c.status = "Open" /\ c.withdrawn = FALSE
      /\ c.posted_at = block_height /\ c.claimed_at = NoBlock
      /\ c.submitted_at = NoBlock /\ c.settled_at = NoBlock
      /\ c.cancelled_at = NoBlock /\ c.rejected_at = NoBlock
      /\ c.timed_out_at = NoBlock /\ c.revoked_at = NoBlock
  BY DEF NoBounty
<1>4. Becomes(id, c)
  BY DEF Post
<1> HIDE DEF c
<1>5. /\ bounties' \in [Ids -> Bounty]
      /\ bounties'[id] = c
      /\ \A other \in Ids \ {id} : bounties'[other] = bounties[other]
  BY <1>1, <1>2, <1>4, BecomesFrame DEF TypeOK
<1>6. /\ bounties_by_status' \in [BountyStatus -> [Ids -> Nat]]
      /\ \A s \in BountyStatus, i \in Ids :
           bounties_by_status'[s][i] = IF s = "Open" /\ i = id
                                       THEN bounties_by_status[s][i] + 1
                                       ELSE bounties_by_status[s][i]
  BY <1>1, PushFrame DEF TypeOK, Post, Push, BountyStatus
<1>7. /\ bounties_by_poster' \in [Actors -> [Ids -> Nat]]
      /\ \A a \in Actors, i \in Ids :
           bounties_by_poster'[a][i] = IF a = source /\ i = id
                                       THEN bounties_by_poster[a][i] + 1
                                       ELSE bounties_by_poster[a][i]
  BY <1>1 DEF TypeOK, Post, Push
<1>8. bounties_by_track' \in [Tracks -> [Ids -> Nat]]
  BY <1>1 DEF TypeOK, Post, Push
<1>9. balance' \in Nat
  BY <1>1 DEF TypeOK, Post, Excess
<1>10. TypeOK'
  BY <1>1, <1>5, <1>6, <1>7, <1>8, <1>9 DEF TypeOK, Post
<1>11. bounties[id] = NoBounty /\ ~Posted(id)
  <2>1. id >= next_id
    BY <1>1 DEF TypeOK
  <2>2. bounties[id] = NoBounty
    BY <1>1, <2>1 DEF Unposted
  <2>3. QED
    BY <2>2 DEF Posted, NoBounty
<1>12. IndexMapsAgree'
  <2>1. ASSUME NEW i \in Ids
        PROVE  Posted(i)' <=> i < next_id'
    <3>1. CASE i = id
      BY <1>1, <1>3, <1>5, <3>1 DEF Posted, Post, Ids
    <3>2. CASE i # id
      BY <1>1, <1>5, <3>2 DEF Posted, Post, Ids, IndexMapsAgree
    <3>3. QED
      BY <3>1, <3>2
  <2>2. ASSUME NEW s \in BountyStatus, NEW i \in Ids
        PROVE  bounties_by_status'[s][i] = OneIf(bounties'[i].status = s)
    <3>1. bounties_by_status[s][i] = OneIf(bounties[i].status = s)
      BY <1>1 DEF IndexMapsAgree
    <3>2. "Absent" # s
      BY DEF BountyStatus
    <3>3. CASE i = id
      BY <1>3, <1>5, <1>6, <1>11, <3>1, <3>2, <3>3 DEF OneIf, NoBounty
    <3>4. CASE i # id
      BY <1>5, <1>6, <3>1, <3>4
    <3>5. QED
      BY <3>3, <3>4
  <2>3. ASSUME NEW a \in Actors, NEW i \in Ids
        PROVE  bounties_by_poster'[a][i] = OneIf(bounties'[i].poster = a)
    <3>1. bounties_by_poster[a][i] = OneIf(bounties[i].poster = a)
      BY <1>1 DEF IndexMapsAgree
    <3>2. a # NoActor
      BY ConstantsAssumption
    <3>3. CASE i = id
      BY <1>3, <1>5, <1>7, <1>11, <3>1, <3>2, <3>3 DEF OneIf, NoBounty
    <3>4. CASE i # id
      BY <1>5, <1>7, <3>1, <3>4
    <3>5. QED
      BY <3>3, <3>4
  <2>4. ASSUME NEW a \in Actors, NEW i \in Ids
        PROVE  bounties_by_worker'[a][i] = OneIf(bounties'[i].worker = a)
    <3>1. bounties_by_worker'[a][i] = OneIf(bounties[i].worker = a)
      BY <1>1 DEF IndexMapsAgree, Post
    <3>2. bounties'[i].worker = bounties[i].worker
      BY <1>3, <1>5, <1>11 DEF NoBounty
    <3>3. QED
      BY <3>1, <3>2
  <2>5. QED
    BY <2>1, <2>2, <2>3, <2>4 DEF IndexMapsAgree, OneIf
<1>13. Chronology'
  <2>1. StampsFitStatus(c) /\ StampsInOrder(c)
    BY <1>1, <1>3 DEF StampsFitStatus, StampsInOrder, Stamped, InOrder, NoBlock, TypeOK
  <2>2. QED
    BY <1>1, <1>2, <1>4, <2>1, ChronologyKept DEF Post
<1>14. PayoutsExact'
  <2>1. paid[id].worker = 0 /\ paid[id].poster = 0
    BY <1>1, <1>11 DEF PayoutsExact, NoBounty, RewardIf, Refunded, Stamped
  <2>2. /\ paid'[id].worker = RewardIf(c, c.withdrawn)
        /\ paid'[id].poster = RewardIf(c, Refunded(c))
                              + RewardIf(c, Stamped(c.revoked_at) /\ ~c.withdrawn)
    BY <1>3, <2>1 DEF RewardIf, Refunded, Stamped, Post
  <2>3. QED
    BY <1>1, <1>2, <1>4, <2>2, PayoutsKept DEF Post
<1>15. Unposted'
  BY <1>1, <1>5 DEF Unposted, Post, Ids, NoBounty
<1>16. QED
  BY <1>10, <1>12, <1>13, <1>14, <1>15 DEF IInv

\* An unposted slot stays blank when a posted bounty changes.
LEMMA UnpostedKept ==
  ASSUME NEW id \in Ids, NEW c \in Bounty, IInv, Posted(id), Becomes(id, c),
         next_id' = next_id
  PROVE  Unposted'
<1>1. \A other \in Ids \ {id} : bounties'[other] = bounties[other]
  BY BecomesFrame DEF IInv, TypeOK
<1>2. id < next_id /\ next_id \in 0 .. MaxId
  BY DEF IInv, TypeOK, IndexMapsAgree
<1>3. QED
  BY <1>1, <1>2 DEF IInv, Unposted, Ids

\* What Submit, Accept, Cancel, Reject, Timeout and Revoke have in common.
LEMMA MovePreserves ==
  ASSUME NEW id \in Ids, NEW c \in Bounty, IInv, Posted(id), Becomes(id, c),
         c.status \in BountyStatus, c.status # bounties[id].status,
         c.poster = bounties[id].poster, c.worker = bounties[id].worker,
         MoveStatus(id, bounties[id].status, c.status),
         SameOwners, UNCHANGED <<bounties_by_worker, block_height>>,
         balance' \in Nat, paid' \in [Ids -> [poster: Nat, worker: Nat]],
         StampsFitStatus(c), StampsInOrder(c), PayoutsExact'
  PROVE  IInv'
<1>1. TypeOK /\ IndexMapsAgree /\ Chronology
  BY DEF IInv
<1>2. bounties[id].status \in BountyStatus
  BY <1>1 DEF TypeOK, Bounty, Posted
<1>3. bounties' \in [Ids -> Bounty]
  BY <1>1, BecomesFrame DEF TypeOK
<1>4. bounties_by_status' \in [BountyStatus -> [Ids -> Nat]]
  BY <1>1, <1>2, MoveStatusFrame DEF TypeOK
<1>5. TypeOK'
  BY <1>1, <1>3, <1>4 DEF TypeOK, SameOwners
<1>6. IndexMapsAgree'
  BY <1>1, <1>2, IndexMapsMoved DEF SameOwners
<1>7. Chronology'
  BY <1>1, ChronologyKept
<1>8. Unposted'
  BY UnpostedKept DEF SameOwners
<1>9. QED
  BY <1>5, <1>6, <1>7, <1>8 DEF IInv

\* What IInv says of one posted bounty, as the methods use it.
LEMMA BountyFacts ==
  ASSUME NEW id \in Ids, IInv
  PROVE  /\ bounties[id] \in Bounty
         /\ block_height \in Nat /\ block_height \in Block
         /\ balance \in Nat
         /\ paid \in [Ids -> [poster: Nat, worker: Nat]]
         /\ StampsFitStatus(bounties[id]) /\ StampsInOrder(bounties[id])
         /\ paid[id].worker = RewardIf(bounties[id], bounties[id].withdrawn)
         /\ paid[id].poster =
              RewardIf(bounties[id], Refunded(bounties[id]))
              + RewardIf(bounties[id], Stamped(bounties[id].revoked_at)
                                       /\ ~bounties[id].withdrawn)
BY DEF IInv, TypeOK, Chronology, PayoutsExact, Block

\* Submit preserves IInv.
LEMMA SubmitIInv ==
  ASSUME NEW source \in Actors, NEW id \in Ids, IInv, Submit(source, id)
  PROVE  IInv'
<1> DEFINE b == bounties[id]
           c == [b EXCEPT !.status = "Submitted", !.submitted_at = block_height]
<1>1. /\ b \in Bounty /\ block_height \in Nat /\ block_height \in Block
      /\ StampsFitStatus(b) /\ StampsInOrder(b)
  BY BountyFacts
<1>2. Posted(id) /\ b.status = "Claimed"
  BY DEF Submit, SubmitReply
<1>3. c \in Bounty
  BY <1>1 DEF Bounty, BountyStatus
<1>4. /\ c.status = "Submitted" /\ c.submitted_at = block_height
      /\ c.poster = b.poster /\ c.worker = b.worker /\ c.reward = b.reward
      /\ c.deadline = b.deadline /\ c.withdrawn = b.withdrawn
      /\ c.posted_at = b.posted_at /\ c.claimed_at = b.claimed_at
      /\ c.settled_at = b.settled_at /\ c.cancelled_at = b.cancelled_at
      /\ c.rejected_at = b.rejected_at /\ c.timed_out_at = b.timed_out_at
      /\ c.revoked_at = b.revoked_at
  BY <1>1 DEF Bounty
<1>5. Becomes(id, c)
  BY DEF Submit
<1> HIDE DEF c
<1>6. StampsFitStatus(c) /\ StampsInOrder(c)
  BY <1>1, <1>2, <1>4 DEF StampsFitStatus, StampsInOrder, Stamped, InOrder, NoBlock, Bounty, Block
<1>7. PayoutsExact'
  BY <1>3, <1>4, <1>5, PayoutsUntouched DEF Submit, IInv
<1>8. balance' \in Nat /\ paid' \in [Ids -> [poster: Nat, worker: Nat]]
  BY BountyFacts DEF Submit, NoPayment
<1>9. QED
  BY <1>2, <1>3, <1>4, <1>5, <1>6, <1>7, <1>8, MovePreserves DEF Submit, BountyStatus

\* Accept preserves IInv.
LEMMA AcceptIInv ==
  ASSUME NEW source \in Actors, NEW id \in Ids, IInv, Accept(source, id)
  PROVE  IInv'
<1> DEFINE b == bounties[id]
           c == [b EXCEPT !.status = "Accepted", !.settled_at = block_height]
<1>1. /\ b \in Bounty /\ block_height \in Nat /\ block_height \in Block
      /\ StampsFitStatus(b) /\ StampsInOrder(b)
  BY BountyFacts
<1>2. Posted(id) /\ b.status = "Submitted"
  BY DEF Accept, AcceptReply
<1>3. c \in Bounty
  BY <1>1 DEF Bounty, BountyStatus
<1>4. /\ c.status = "Accepted" /\ c.settled_at = block_height
      /\ c.poster = b.poster /\ c.worker = b.worker /\ c.reward = b.reward
      /\ c.deadline = b.deadline /\ c.withdrawn = b.withdrawn
      /\ c.posted_at = b.posted_at /\ c.claimed_at = b.claimed_at
      /\ c.submitted_at = b.submitted_at /\ c.cancelled_at = b.cancelled_at
      /\ c.rejected_at = b.rejected_at /\ c.timed_out_at = b.timed_out_at
      /\ c.revoked_at = b.revoked_at
  BY <1>1 DEF Bounty
<1>5. Becomes(id, c)
  BY DEF Accept
<1> HIDE DEF c
<1>6. StampsFitStatus(c) /\ StampsInOrder(c)
  BY <1>1, <1>2, <1>4 DEF StampsFitStatus, StampsInOrder, Stamped, InOrder, NoBlock, Bounty, Block
<1>7. PayoutsExact'
  BY <1>3, <1>4, <1>5, PayoutsUntouched DEF Accept, IInv
<1>8. balance' \in Nat /\ paid' \in [Ids -> [poster: Nat, worker: Nat]]
  BY BountyFacts DEF Accept, NoPayment
<1>9. QED
  BY <1>2, <1>3, <1>4, <1>5, <1>6, <1>7, <1>8, MovePreserves DEF Accept, BountyStatus

\* Cancel preserves IInv.
LEMMA CancelIInv ==
  ASSUME NEW source \in Actors, NEW id \in Ids, IInv, Cancel(source, id)
  PROVE  IInv'
<1> DEFINE b == bounties[id]
           c == [b EXCEPT !.status = "Cancelled", !.cancelled_at = block_height]
<1>1. /\ b \in Bounty /\ block_height \in Nat /\ block_height \in Block
      /\ StampsFitStatus(b) /\ StampsInOrder(b)
  BY BountyFacts
<1>2. Posted(id) /\ b.status = "Open"
  BY DEF Cancel, CancelReply
<1>3. c \in Bounty
  BY <1>1 DEF Bounty, BountyStatus
<1>4. /\ c.status = "Cancelled" /\ c.cancelled_at = block_height
      /\ c.poster = b.poster /\ c.worker = b.worker /\ c.reward = b.reward
      /\ c.deadline = b.deadline /\ c.withdrawn = b.withdrawn
      /\ c.posted_at = b.posted_at /\ c.claimed_at = b.claimed_at
      /\ c.submitted_at = b.submitted_at /\ c.settled_at = b.settled_at
      /\ c.rejected_at = b.rejected_at /\ c.timed_out_at = b.timed_out_at
      /\ c.revoked_at = b.revoked_at
  BY <1>1 DEF Bounty
<1>5. Becomes(id, c)
  BY DEF Cancel
<1> HIDE DEF c
<1>6. StampsFitStatus(c) /\ StampsInOrder(c)
  BY <1>1, <1>2, <1>4 DEF StampsFitStatus, StampsInOrder, Stamped, InOrder, NoBlock, Bounty, Block
<1>7. /\ balance' \in Nat
      /\ paid' \in [Ids -> [poster: Nat, worker: Nat]]
      /\ \A other \in Ids \ {id} : paid'[other] = paid[other]
      /\ paid'[id].poster = paid[id].poster + b.reward
      /\ paid'[id].worker = paid[id].worker
  <2>1. b.reward \in Nat
    BY <1>1 DEF Bounty
  <2>2. QED
    BY <2>1, BountyFacts, PayFrame DEF Cancel
<1>8. PayoutsExact'
  <2>1. /\ paid'[id].worker = RewardIf(c, c.withdrawn)
        /\ paid'[id].poster = RewardIf(c, Refunded(c))
                              + RewardIf(c, Stamped(c.revoked_at) /\ ~c.withdrawn)
    BY <1>1, <1>2, <1>4, <1>7, BountyFacts
       DEF StampsFitStatus, Stamped, RewardIf, Refunded, NoBlock, Bounty, Block
  <2>2. QED
    BY <1>3, <1>5, <1>7, <2>1, PayoutsKept DEF IInv
<1>9. QED
  BY <1>2, <1>3, <1>4, <1>5, <1>6, <1>7, <1>8, MovePreserves DEF Cancel, BountyStatus

\* Reject preserves IInv.
LEMMA RejectIInv ==
  ASSUME NEW source \in Actors, NEW id \in Ids, IInv, Reject(source, id)
  PROVE  IInv'
<1> DEFINE b == bounties[id]
           c == [b EXCEPT !.status = "Rejected", !.rejected_at = block_height]
<1>1. /\ b \in Bounty /\ block_height \in Nat /\ block_height \in Block
      /\ StampsFitStatus(b) /\ StampsInOrder(b)
  BY BountyFacts
<1>2. Posted(id) /\ b.status = "Submitted"
  BY DEF Reject, RejectReply
<1>3. c \in Bounty
  BY <1>1 DEF Bounty, BountyStatus
<1>4. /\ c.status = "Rejected" /\ c.rejected_at = block_height
      /\ c.poster = b.poster /\ c.worker = b.worker /\ c.reward = b.reward
      /\ c.deadline = b.deadline /\ c.withdrawn = b.withdrawn
      /\ c.posted_at = b.posted_at /\ c.claimed_at = b.claimed_at
      /\ c.submitted_at = b.submitted_at /\ c.settled_at = b.settled_at
      /\ c.cancelled_at = b.cancelled_at /\ c.timed_out_at = b.timed_out_at
      /\ c.revoked_at = b.revoked_at
  BY <1>1 DEF Bounty
<1>5. Becomes(id, c)
  BY DEF Reject
<1> HIDE DEF c
<1>6. StampsFitStatus(c) /\ StampsInOrder(c)
  BY <1>1, <1>2, <1>4 DEF StampsFitStatus, StampsInOrder, Stamped, InOrder, NoBlock, Bounty, Block
<1>7. /\ balance' \in Nat
      /\ paid' \in [Ids -> [poster: Nat, worker: Nat]]
      /\ \A other \in Ids \ {id} : paid'[other] = paid[other]
      /\ paid'[id].poster = paid[id].poster + b.reward
      /\ paid'[id].worker = paid[id].worker
  <2>1. b.reward \in Nat
    BY <1>1 DEF Bounty
  <2>2. QED
    BY <2>1, BountyFacts, PayFrame DEF Reject
<1>8. PayoutsExact'
  <2>1. /\ paid'[id].worker = RewardIf(c, c.withdrawn)
        /\ paid'[id].poster = RewardIf(c, Refunded(c))
                              + RewardIf(c, Stamped(c.revoked_at) /\ ~c.withdrawn)
    BY <1>1, <1>2, <1>4, <1>7, BountyFacts
       DEF StampsFitStatus, Stamped, RewardIf, Refunded, NoBlock, Bounty, Block
  <2>2. QED
    BY <1>3, <1>5, <1>7, <2>1, PayoutsKept DEF IInv
<1>9. QED
  BY <1>2, <1>3, <1>4, <1>5, <1>6, <1>7, <1>8, MovePreserves DEF Reject, BountyStatus

\* Timeout preserves IInv.
LEMMA TimeoutIInv ==
  ASSUME NEW source \in Actors, NEW id \in Ids, IInv, Timeout(source, id)
  PROVE  IInv'
<1> DEFINE b == bounties[id]
           c == [b EXCEPT !.status = "TimedOut", !.timed_out_at = block_height]
<1>1. /\ b \in Bounty /\ block_height \in Nat /\ block_height \in Block
      /\ StampsFitStatus(b) /\ StampsInOrder(b)
  BY BountyFacts
<1>2. Posted(id) /\ b.status \in {"Open", "Claimed", "Submitted"}
      /\ b.deadline # NoBlock /\ b.deadline < block_height
  BY <1>1 DEF Timeout, TimeoutReply, Bounty, Block
<1>3. c \in Bounty
  BY <1>1 DEF Bounty, BountyStatus
<1>4. /\ c.status = "TimedOut" /\ c.timed_out_at = block_height
      /\ c.poster = b.poster /\ c.worker = b.worker /\ c.reward = b.reward
      /\ c.deadline = b.deadline /\ c.withdrawn = b.withdrawn
      /\ c.posted_at = b.posted_at /\ c.claimed_at = b.claimed_at
      /\ c.submitted_at = b.submitted_at /\ c.settled_at = b.settled_at
      /\ c.cancelled_at = b.cancelled_at /\ c.rejected_at = b.rejected_at
      /\ c.revoked_at = b.revoked_at
  BY <1>1 DEF Bounty
<1>5. Becomes(id, c)
  BY DEF Timeout
<1> HIDE DEF c
<1>6. StampsFitStatus(c) /\ StampsInOrder(c)
  BY <1>1, <1>2, <1>4 DEF StampsFitStatus, StampsInOrder, Stamped, InOrder, NoBlock, Bounty, Block
<1>7. /\ balance' \in Nat
      /\ paid' \in [Ids -> [poster: Nat, worker: Nat]]
      /\ \A other \in Ids \ {id} : paid'[other] = paid[other]
      /\ paid'[id].poster = paid[id].poster + b.reward
      /\ paid'[id].worker = paid[id].worker
  <2>1. b.reward \in Nat
    BY <1>1 DEF Bounty
  <2>2. QED
    BY <2>1, BountyFacts, PayFrame DEF Timeout
<1>8. PayoutsExact'
  <2>1. /\ paid'[id].worker = RewardIf(c, c.withdrawn)
        /\ paid'[id].poster = RewardIf(c, Refunded(c))
                              + RewardIf(c, Stamped(c.revoked_at) /\ ~c.withdrawn)
    BY <1>1, <1>2, <1>4, <1>7, BountyFacts
       DEF StampsFitStatus, Stamped, RewardIf, Refunded, NoBlock, Bounty, Block
  <2>2. QED
    BY <1>3, <1>5, <1>7, <2>1, PayoutsKept DEF IInv
<1>9. QED
  BY <1>2, <1>3, <1>4, <1>5, <1>6, <1>7, <1>8, MovePreserves DEF Timeout, BountyStatus

\* Revoke preserves IInv.
LEMMA RevokeIInv ==
  ASSUME NEW source \in Actors, NEW id \in Ids, IInv, Revoke(source, id)
  PROVE  IInv'
<1> DEFINE b == bounties[id]
           c == [b EXCEPT !.status = "Revoked", !.revoked_at = block_height]
<1>1. /\ b \in Bounty /\ block_height \in Nat /\ block_height \in Block
      /\ StampsFitStatus(b) /\ StampsInOrder(b)
  BY BountyFacts
<1>2. Posted(id) /\ b.status # "Revoked" /\ b.status # "Absent"
  BY DEF Revoke, RevokeReply, Posted
<1>3. c \in Bounty
  BY <1>1 DEF Bounty, BountyStatus
<1>4. /\ c.status = "Revoked" /\ c.revoked_at = block_height
      /\ c.poster = b.poster /\ c.worker = b.worker /\ c.reward = b.reward
      /\ c.deadline = b.deadline /\ c.withdrawn = b.withdrawn
      /\ c.posted_at = b.posted_at /\ c.claimed_at = b.claimed_at
      /\ c.submitted_at = b.submitted_at /\ c.settled_at = b.settled_at
      /\ c.cancelled_at = b.cancelled_at /\ c.rejected_at = b.rejected_at
      /\ c.timed_out_at = b.timed_out_at
  BY <1>1 DEF Bounty
<1>5. Becomes(id, c)
  BY DEF Revoke
<1> HIDE DEF c
<1>6. StampsFitStatus(c) /\ StampsInOrder(c)
  BY <1>1, <1>2, <1>4 DEF StampsFitStatus, StampsInOrder, Stamped, InOrder, NoBlock, Bounty, Block
<1>7. /\ balance' \in Nat
      /\ paid' \in [Ids -> [poster: Nat, worker: Nat]]
      /\ \A other \in Ids \ {id} : paid'[other] = paid[other]
      /\ paid'[id].poster = paid[id].poster + escrow_to_refund(id)
      /\ paid'[id].worker = paid[id].worker
  <2>1. escrow_to_refund(id) \in Nat
    BY <1>1 DEF Bounty, escrow_to_refund
  <2>2. QED
    BY <2>1, BountyFacts, PayFrame DEF Revoke
<1>8. PayoutsExact'
  <2>1. /\ paid'[id].worker = RewardIf(c, c.withdrawn)
        /\ paid'[id].poster = RewardIf(c, Refunded(c))
                              + RewardIf(c, Stamped(c.revoked_at) /\ ~c.withdrawn)
    BY <1>1, <1>2, <1>4, <1>7, BountyFacts
       DEF StampsFitStatus, Stamped, RewardIf, Refunded, NoBlock, Bounty, Block, escrow_to_refund
  <2>2. QED
    BY <1>3, <1>5, <1>7, <2>1, PayoutsKept DEF IInv
<1>9. QED
  BY <1>2, <1>3, <1>4, <1>5, <1>6, <1>7, <1>8, MovePreserves DEF Revoke, BountyStatus

\* Claim preserves IInv.
LEMMA ClaimIInv ==
  ASSUME NEW source \in Actors, NEW id \in Ids, IInv, Claim(source, id)
  PROVE  IInv'
<1> DEFINE b == bounties[id]
           c == [b EXCEPT !.worker = source, !.status = "Claimed",
                          !.claimed_at = block_height]
<1>1. /\ b \in Bounty /\ block_height \in Nat /\ block_height \in Block
      /\ StampsFitStatus(b) /\ StampsInOrder(b)
  BY BountyFacts
<1>2. Posted(id) /\ b.status = "Open" /\ b.worker = NoActor
  BY <1>1 DEF Claim, ClaimReply, StampsFitStatus
<1>3. c \in Bounty
  BY <1>1 DEF Bounty, BountyStatus
<1>4. /\ c.worker = source /\ c.status = "Claimed" /\ c.claimed_at = block_height
      /\ c.poster = b.poster /\ c.reward = b.reward /\ c.deadline = b.deadline
      /\ c.withdrawn = b.withdrawn /\ c.posted_at = b.posted_at
      /\ c.submitted_at = b.submitted_at /\ c.settled_at = b.settled_at
      /\ c.cancelled_at = b.cancelled_at /\ c.rejected_at = b.rejected_at
      /\ c.timed_out_at = b.timed_out_at /\ c.revoked_at = b.revoked_at
  BY <1>1 DEF Bounty
<1>5. Becomes(id, c)
  BY DEF Claim
<1> HIDE DEF c
<1>6. /\ bounties' \in [Ids -> Bounty]
      /\ bounties'[id] = c
      /\ \A other \in Ids \ {id} : bounties'[other] = bounties[other]
  BY <1>3, <1>5, BecomesFrame DEF IInv, TypeOK
<1>7. /\ bounties_by_status' \in [BountyStatus -> [Ids -> Nat]]
      /\ \A s \in BountyStatus, i \in Ids :
           bounties_by_status'[s][i] =
             IF i # id THEN bounties_by_status[s][i]
             ELSE IF s = "Claimed" THEN bounties_by_status[s][i] + 1
             ELSE IF s = "Open" THEN 0 ELSE bounties_by_status[s][i]
  <2>1. MoveStatus(id, "Open", "Claimed")
    BY DEF Claim
  <2>2. bounties_by_status \in [BountyStatus -> [Ids -> Nat]]
    BY DEF IInv, TypeOK
  <2>3. "Open" \in BountyStatus /\ "Claimed" \in BountyStatus
    BY DEF BountyStatus
  <2>4. QED
    BY <2>1, <2>2, <2>3, MoveStatusFrame
<1>8. /\ bounties_by_worker' \in [Actors -> [Ids -> Nat]]
      /\ \A a \in Actors, i \in Ids :
           bounties_by_worker'[a][i] = IF a = source /\ i = id
                                       THEN bounties_by_worker[a][i] + 1
                                       ELSE bounties_by_worker[a][i]
  BY DEF IInv, TypeOK, Claim, Push
<1>9. TypeOK'
  BY <1>6, <1>7, <1>8 DEF IInv, TypeOK, Claim, NoPayment, SameOwners
<1>10. IndexMapsAgree'
  <2>1. ASSUME NEW i \in Ids
        PROVE  Posted(i)' <=> i < next_id'
    <3>1. Posted(i)' <=> Posted(i)
      BY <1>2, <1>4, <1>6 DEF Posted
    <3>2. QED
      BY <3>1 DEF IInv, IndexMapsAgree, Claim, SameOwners
  <2>2. ASSUME NEW s \in BountyStatus, NEW i \in Ids
        PROVE  bounties_by_status'[s][i] = OneIf(bounties'[i].status = s)
    <3>1. bounties_by_status[s][i] = OneIf(bounties[i].status = s)
      BY DEF IInv, IndexMapsAgree
    <3>2. CASE i = id
      BY <1>2, <1>4, <1>6, <1>7, <3>1, <3>2 DEF OneIf
    <3>3. CASE i # id
      BY <1>6, <1>7, <3>1, <3>3
    <3>4. QED
      BY <3>2, <3>3
  <2>3. ASSUME NEW a \in Actors, NEW i \in Ids
        PROVE  bounties_by_poster'[a][i] = OneIf(bounties'[i].poster = a)
    <3>1. bounties_by_poster'[a][i] = OneIf(bounties[i].poster = a)
      BY DEF IInv, IndexMapsAgree, Claim, SameOwners
    <3>2. bounties'[i].poster = bounties[i].poster
      BY <1>4, <1>6
    <3>3. QED
      BY <3>1, <3>2
  <2>4. ASSUME NEW a \in Actors, NEW i \in Ids
        PROVE  bounties_by_worker'[a][i] = OneIf(bounties'[i].worker = a)
    <3>1. bounties_by_worker[a][i] = OneIf(bounties[i].worker = a)
      BY DEF IInv, IndexMapsAgree
    <3>2. a # NoActor
      BY ConstantsAssumption
    <3>3. CASE i = id
      BY <1>2, <1>4, <1>6, <1>8, <3>1, <3>2, <3>3 DEF OneIf
    <3>4. CASE i # id
      BY <1>6, <1>8, <3>1, <3>4
    <3>5. QED
      BY <3>3, <3>4
  <2>5. QED
    BY <2>1, <2>2, <2>3, <2>4 DEF IndexMapsAgree, OneIf
<1>11. Chronology'
  <2>1. StampsFitStatus(c) /\ StampsInOrder(c)
    BY <1>1, <1>2, <1>4, ConstantsAssumption
       DEF StampsFitStatus, StampsInOrder, Stamped, InOrder, NoBlock, Bounty, Block
  <2>2. QED
    BY <1>3, <1>5, <2>1, ChronologyKept DEF Claim, IInv
<1>12. PayoutsExact'
  BY <1>3, <1>4, <1>5, PayoutsUntouched DEF Claim, IInv
<1>13. Unposted'
  BY <1>2, <1>3, <1>5, UnpostedKept DEF Claim, SameOwners
<1>14. QED
  BY <1>9, <1>10, <1>11, <1>12, <1>13 DEF IInv

\* Withdraw preserves IInv.
LEMMA WithdrawIInv ==
  ASSUME NEW source \in Actors, NEW id \in Ids, IInv, Withdraw(source, id)
  PROVE  IInv'
<1> DEFINE b == bounties[id]
           c == [b EXCEPT !.withdrawn = TRUE]
<1>1. /\ b \in Bounty /\ block_height \in Nat /\ block_height \in Block
      /\ StampsFitStatus(b) /\ StampsInOrder(b)
  BY BountyFacts
<1>2. Posted(id) /\ b.status = "Accepted" /\ ~b.withdrawn
  BY DEF Withdraw, WithdrawReply
<1>3. c \in Bounty
  BY <1>1 DEF Bounty
<1>4. /\ c.withdrawn = TRUE
      /\ c.poster = b.poster /\ c.worker = b.worker /\ c.reward = b.reward
      /\ c.deadline = b.deadline /\ c.status = b.status
      /\ c.posted_at = b.posted_at /\ c.claimed_at = b.claimed_at
      /\ c.submitted_at = b.submitted_at /\ c.settled_at = b.settled_at
      /\ c.cancelled_at = b.cancelled_at /\ c.rejected_at = b.rejected_at
      /\ c.timed_out_at = b.timed_out_at /\ c.revoked_at = b.revoked_at
  BY <1>1 DEF Bounty
<1>5. Becomes(id, c)
  BY DEF Withdraw
<1> HIDE DEF c
<1>6. /\ bounties' \in [Ids -> Bounty]
      /\ bounties'[id] = c
      /\ \A other \in Ids \ {id} : bounties'[other] = bounties[other]
  BY <1>3, <1>5, BecomesFrame DEF IInv, TypeOK
<1>7. /\ balance' \in Nat
      /\ paid' \in [Ids -> [poster: Nat, worker: Nat]]
      /\ \A other \in Ids \ {id} : paid'[other] = paid[other]
      /\ paid'[id].poster = paid[id].poster
      /\ paid'[id].worker = paid[id].worker + b.reward
  <2>1. b.reward \in Nat
    BY <1>1 DEF Bounty
  <2>2. QED
    BY <2>1, BountyFacts, PayFrame DEF Withdraw
<1>8. TypeOK'
  BY <1>6, <1>7 DEF IInv, TypeOK, Withdraw, SameOwners
<1>9. IndexMapsAgree'
  <2>1. \A i \in Ids : /\ bounties'[i].status = bounties[i].status
                       /\ bounties'[i].poster = bounties[i].poster
                       /\ bounties'[i].worker = bounties[i].worker
    BY <1>4, <1>6
  <2>2. QED
    BY <2>1 DEF IInv, IndexMapsAgree, Withdraw, SameOwners, Posted, OneIf
<1>10. Chronology'
  <2>1. StampsFitStatus(c) /\ StampsInOrder(c)
    BY <1>1, <1>2, <1>4 DEF StampsFitStatus, StampsInOrder, Stamped, InOrder
  <2>2. QED
    BY <1>3, <1>5, <2>1, ChronologyKept DEF Withdraw, IInv
<1>11. PayoutsExact'
  <2>1. /\ paid'[id].worker = RewardIf(c, c.withdrawn)
        /\ paid'[id].poster = RewardIf(c, Refunded(c))
                              + RewardIf(c, Stamped(c.revoked_at) /\ ~c.withdrawn)
    BY <1>1, <1>2, <1>4, <1>7, BountyFacts
       DEF StampsFitStatus, Stamped, RewardIf, Refunded, Bounty
  <2>2. QED
    BY <1>3, <1>5, <1>7, <2>1, PayoutsKept DEF IInv
<1>12. Unposted'
  BY <1>2, <1>3, <1>5, UnpostedKept DEF Withdraw, SameOwners
<1>13. QED
  BY <1>8, <1>9, <1>10, <1>11, <1>12 DEF IInv

\* NextBlock preserves IInv.
LEMMA NextBlockIInv ==
  ASSUME IInv, NextBlock
  PROVE  IInv'
<1>1. TypeOK'
  BY DEF IInv, TypeOK, NextBlock
<1>2. IndexMapsAgree' /\ PayoutsExact' /\ Unposted'
  BY DEF IInv, NextBlock, IndexMapsAgree, PayoutsExact, Unposted, Posted
<1>3. Chronology'
  <2>1. SUFFICES ASSUME NEW id \in Ids
                 PROVE  StampsFitStatus(bounties[id]) /\ StampsInOrder(bounties[id])'
    BY DEF Chronology, NextBlock
  <2>2. StampsFitStatus(bounties[id]) /\ StampsInOrder(bounties[id])
    BY DEF IInv, Chronology
  <2>3. bounties[id] \in Bounty /\ block_height \in Nat
    BY DEF IInv, TypeOK
  <2>4. bounties' = bounties /\ block_height' = block_height + 1
    BY DEF NextBlock
  <2>5. QED
    BY <2>2, <2>3, <2>4 DEF StampsInOrder, Bounty, Block, NoBlock
<1>4. QED
  BY <1>1, <1>2, <1>3 DEF IInv

\* Every step of the contract preserves IInv.
LEMMA NextIInv == IInv /\ [Next]_vars => IInv'
<1> SUFFICES ASSUME IInv, [Next]_vars PROVE IInv'
  OBVIOUS
<1>1. CASE UNCHANGED vars
  BY <1>1 DEF IInv, TypeOK, IndexMapsAgree, Chronology, PayoutsExact, Unposted,
              Posted, StampsInOrder, vars
<1>2. CASE Next
  <2>1. ASSUME NEW source \in Actors, NEW reward \in Rewards, NEW value \in Values,
               NEW deadline \in Deadlines, NEW track \in Tracks,
               Post(source, reward, value, deadline, track)
        PROVE  IInv'
    BY <2>1, PostIInv
  <2>2. ASSUME NEW source \in Actors, NEW id \in Ids,
               \/ Claim(source, id) \/ Submit(source, id) \/ Accept(source, id)
               \/ Withdraw(source, id) \/ Cancel(source, id) \/ Reject(source, id)
               \/ Timeout(source, id) \/ Revoke(source, id)
        PROVE  IInv'
    BY <2>2, ClaimIInv, SubmitIInv, AcceptIInv, WithdrawIInv, CancelIInv,
       RejectIInv, TimeoutIInv, RevokeIInv
  <2>3. ASSUME NEW source \in Actors, NEW id \in Ids, Refused(source, id)
        PROVE  IInv'
    BY <1>1, <2>3 DEF Refused
  <2>4. CASE NextBlock
    BY <2>4, NextBlockIInv
  <2>5. QED
    BY <1>2, <2>1, <2>2, <2>3, <2>4 DEF Next, CallBy
<1>3. QED
  BY <1>1, <1>2

-------------------------------------------------------------------------------
(* The theorems.                                                              *)

\* The inductive invariant holds throughout.
THEOREM Invariance == Spec => []IInv
BY InitIInv, NextIInv, PTL DEF Spec

\* Every field of the contract's state keeps its type.
THEOREM TypeCorrectness == Spec => []TypeOK
<1>1. IInv => TypeOK
  BY DEF IInv
<1>2. QED
  BY <1>1, Invariance, PTL

\* The hand-kept index maps always agree with the bounties.
THEOREM IndexMapsCorrect == Spec => []IndexMapsAgree
<1>1. IInv => IndexMapsAgree
  BY DEF IInv
<1>2. QED
  BY <1>1, Invariance, PTL

\* The stamps always fit the status, the clock and the deadline.
THEOREM ChronologyCorrect == Spec => []Chronology
<1>1. IInv => Chronology
  BY DEF IInv
<1>2. QED
  BY <1>1, Invariance, PTL

\* What has left the program for a bounty is always exactly what its stamps
\* call for.
THEOREM PayoutsCorrect == Spec => []PayoutsExact
<1>1. IInv => PayoutsExact
  BY DEF IInv
<1>2. QED
  BY <1>1, Invariance, PTL

\* The worker and the poster are never both paid for one bounty.
THEOREM NeverBothPaid == Spec => []OneBeneficiary
<1>1. IInv => OneBeneficiary
  <2>1. SUFFICES ASSUME IInv, NEW id \in Ids
                 PROVE  /\ ~(paid[id].worker > 0 /\ paid[id].poster > 0)
                        /\ paid[id].worker > 0 => Stamped(bounties[id].settled_at)
    BY DEF OneBeneficiary
  <2>2. bounties[id].withdrawn => ~Refunded(bounties[id])
    <3>1. StampsFitStatus(bounties[id]) /\ StampsInOrder(bounties[id])
      BY <2>1, BountyFacts
    <3>2. QED
      BY <3>1 DEF StampsFitStatus, StampsInOrder, InOrder, Refunded
  <2>3. QED
    BY <2>1, <2>2, BountyFacts DEF RewardIf, StampsFitStatus, Bounty
<1>2. QED
  BY <1>1, Invariance, PTL

-------------------------------------------------------------------------------
(* What a step may do: the lifecycle, and the promise of module Escrow.       *)

\* Changing one bounty by a lifecycle step is a lifecycle step for all.
LEMMA OtherBountiesStep ==
  ASSUME NEW id \in Ids, NEW c \in Bounty, TypeOK, Becomes(id, c),
         \/ c.status = bounties[id].status
         \/ <<bounties[id].status, c.status>> \in Transitions,
         KeepsTerms(bounties[id], c), KeepsStamps(bounties[id], c)
  PROVE  \A i \in Ids : LifecycleStep(i)
<1>1. /\ bounties'[id] = c
      /\ \A other \in Ids \ {id} : bounties'[other] = bounties[other]
  BY BecomesFrame DEF TypeOK
<1>2. SUFFICES ASSUME NEW i \in Ids PROVE LifecycleStep(i)
  OBVIOUS
<1>3. CASE i = id
  BY <1>1, <1>3 DEF LifecycleStep
<1>4. CASE i # id
  BY <1>1, <1>4 DEF LifecycleStep, KeepsTerms, KeepsStamps
<1>5. QED
  BY <1>3, <1>4

\* Claim is a lifecycle step.
LEMMA ClaimStep ==
  ASSUME NEW source \in Actors, NEW id \in Ids, IInv, Claim(source, id)
  PROVE  \A i \in Ids : LifecycleStep(i)
<1> DEFINE b == bounties[id]
           c == [b EXCEPT !.worker = source, !.status = "Claimed", !.claimed_at = block_height]
<1>1. b \in Bounty /\ block_height \in Block /\ StampsFitStatus(b) /\ StampsInOrder(b)
  BY BountyFacts
<1>2. b.status = "Open" /\ b.worker = NoActor /\ ~Stamped(b.claimed_at)
  BY <1>1 DEF Claim, ClaimReply, StampsFitStatus, StampsInOrder, InOrder, Posted, Bounty
<1>3. c \in Bounty
  BY <1>1 DEF Bounty, BountyStatus
<1>4. <<b.status, c.status>> \in Transitions
  BY <1>1, <1>2 DEF Transitions, BountyStatus, Bounty
<1>5. KeepsTerms(b, c) /\ KeepsStamps(b, c)
  BY <1>1, <1>2 DEF KeepsTerms, KeepsStamps, Bounty
<1>6. Becomes(id, c)
  BY DEF Claim
<1>7. QED
  BY <1>3, <1>4, <1>5, <1>6, OtherBountiesStep DEF IInv

\* Submit is a lifecycle step.
LEMMA SubmitStep ==
  ASSUME NEW source \in Actors, NEW id \in Ids, IInv, Submit(source, id)
  PROVE  \A i \in Ids : LifecycleStep(i)
<1> DEFINE b == bounties[id]
           c == [b EXCEPT !.status = "Submitted", !.submitted_at = block_height]
<1>1. b \in Bounty /\ block_height \in Block /\ StampsFitStatus(b) /\ StampsInOrder(b)
  BY BountyFacts
<1>2. b.status = "Claimed" /\ ~Stamped(b.submitted_at)
  BY <1>1 DEF Submit, SubmitReply, StampsFitStatus, StampsInOrder, InOrder, Posted, Bounty
<1>3. c \in Bounty
  BY <1>1 DEF Bounty, BountyStatus
<1>4. <<b.status, c.status>> \in Transitions
  BY <1>1, <1>2 DEF Transitions, BountyStatus, Bounty
<1>5. KeepsTerms(b, c) /\ KeepsStamps(b, c)
  BY <1>1, <1>2 DEF KeepsTerms, KeepsStamps, Bounty
<1>6. Becomes(id, c)
  BY DEF Submit
<1>7. QED
  BY <1>3, <1>4, <1>5, <1>6, OtherBountiesStep DEF IInv

\* Accept is a lifecycle step.
LEMMA AcceptStep ==
  ASSUME NEW source \in Actors, NEW id \in Ids, IInv, Accept(source, id)
  PROVE  \A i \in Ids : LifecycleStep(i)
<1> DEFINE b == bounties[id]
           c == [b EXCEPT !.status = "Accepted", !.settled_at = block_height]
<1>1. b \in Bounty /\ block_height \in Block /\ StampsFitStatus(b) /\ StampsInOrder(b)
  BY BountyFacts
<1>2. b.status = "Submitted" /\ ~Stamped(b.settled_at)
  BY <1>1 DEF Accept, AcceptReply, StampsFitStatus, StampsInOrder, InOrder, Posted, Bounty
<1>3. c \in Bounty
  BY <1>1 DEF Bounty, BountyStatus
<1>4. <<b.status, c.status>> \in Transitions
  BY <1>1, <1>2 DEF Transitions, BountyStatus, Bounty
<1>5. KeepsTerms(b, c) /\ KeepsStamps(b, c)
  BY <1>1, <1>2 DEF KeepsTerms, KeepsStamps, Bounty
<1>6. Becomes(id, c)
  BY DEF Accept
<1>7. QED
  BY <1>3, <1>4, <1>5, <1>6, OtherBountiesStep DEF IInv

\* Cancel is a lifecycle step.
LEMMA CancelStep ==
  ASSUME NEW source \in Actors, NEW id \in Ids, IInv, Cancel(source, id)
  PROVE  \A i \in Ids : LifecycleStep(i)
<1> DEFINE b == bounties[id]
           c == [b EXCEPT !.status = "Cancelled", !.cancelled_at = block_height]
<1>1. b \in Bounty /\ block_height \in Block /\ StampsFitStatus(b) /\ StampsInOrder(b)
  BY BountyFacts
<1>2. b.status = "Open" /\ ~Stamped(b.cancelled_at)
  BY <1>1 DEF Cancel, CancelReply, StampsFitStatus, StampsInOrder, InOrder, Posted, Bounty
<1>3. c \in Bounty
  BY <1>1 DEF Bounty, BountyStatus
<1>4. <<b.status, c.status>> \in Transitions
  BY <1>1, <1>2 DEF Transitions, BountyStatus, Bounty
<1>5. KeepsTerms(b, c) /\ KeepsStamps(b, c)
  BY <1>1, <1>2 DEF KeepsTerms, KeepsStamps, Bounty
<1>6. Becomes(id, c)
  BY DEF Cancel
<1>7. QED
  BY <1>3, <1>4, <1>5, <1>6, OtherBountiesStep DEF IInv

\* Reject is a lifecycle step.
LEMMA RejectStep ==
  ASSUME NEW source \in Actors, NEW id \in Ids, IInv, Reject(source, id)
  PROVE  \A i \in Ids : LifecycleStep(i)
<1> DEFINE b == bounties[id]
           c == [b EXCEPT !.status = "Rejected", !.rejected_at = block_height]
<1>1. b \in Bounty /\ block_height \in Block /\ StampsFitStatus(b) /\ StampsInOrder(b)
  BY BountyFacts
<1>2. b.status = "Submitted" /\ ~Stamped(b.rejected_at)
  BY <1>1 DEF Reject, RejectReply, StampsFitStatus, StampsInOrder, InOrder, Posted, Bounty
<1>3. c \in Bounty
  BY <1>1 DEF Bounty, BountyStatus
<1>4. <<b.status, c.status>> \in Transitions
  BY <1>1, <1>2 DEF Transitions, BountyStatus, Bounty
<1>5. KeepsTerms(b, c) /\ KeepsStamps(b, c)
  BY <1>1, <1>2 DEF KeepsTerms, KeepsStamps, Bounty
<1>6. Becomes(id, c)
  BY DEF Reject
<1>7. QED
  BY <1>3, <1>4, <1>5, <1>6, OtherBountiesStep DEF IInv

\* Timeout is a lifecycle step.
LEMMA TimeoutStep ==
  ASSUME NEW source \in Actors, NEW id \in Ids, IInv, Timeout(source, id)
  PROVE  \A i \in Ids : LifecycleStep(i)
<1> DEFINE b == bounties[id]
           c == [b EXCEPT !.status = "TimedOut", !.timed_out_at = block_height]
<1>1. b \in Bounty /\ block_height \in Block /\ StampsFitStatus(b) /\ StampsInOrder(b)
  BY BountyFacts
<1>2. b.status \in {"Open", "Claimed", "Submitted"} /\ ~Stamped(b.timed_out_at)
  BY <1>1 DEF Timeout, TimeoutReply, StampsFitStatus, StampsInOrder, InOrder, Posted, Bounty
<1>3. c \in Bounty
  BY <1>1 DEF Bounty, BountyStatus
<1>4. <<b.status, c.status>> \in Transitions
  BY <1>1, <1>2 DEF Transitions, BountyStatus, Bounty
<1>5. KeepsTerms(b, c) /\ KeepsStamps(b, c)
  BY <1>1, <1>2 DEF KeepsTerms, KeepsStamps, Bounty
<1>6. Becomes(id, c)
  BY DEF Timeout
<1>7. QED
  BY <1>3, <1>4, <1>5, <1>6, OtherBountiesStep DEF IInv

\* Revoke is a lifecycle step.
LEMMA RevokeStep ==
  ASSUME NEW source \in Actors, NEW id \in Ids, IInv, Revoke(source, id)
  PROVE  \A i \in Ids : LifecycleStep(i)
<1> DEFINE b == bounties[id]
           c == [b EXCEPT !.status = "Revoked", !.revoked_at = block_height]
<1>1. b \in Bounty /\ block_height \in Block /\ StampsFitStatus(b) /\ StampsInOrder(b)
  BY BountyFacts
<1>2. b.status \notin {"Revoked", "Absent"} /\ ~Stamped(b.revoked_at)
  BY <1>1 DEF Revoke, RevokeReply, StampsFitStatus, StampsInOrder, InOrder, Posted, Bounty
<1>3. c \in Bounty
  BY <1>1 DEF Bounty, BountyStatus
<1>4. <<b.status, c.status>> \in Transitions
  BY <1>1, <1>2 DEF Transitions, BountyStatus, Bounty
<1>5. KeepsTerms(b, c) /\ KeepsStamps(b, c)
  BY <1>1, <1>2 DEF KeepsTerms, KeepsStamps, Bounty
<1>6. Becomes(id, c)
  BY DEF Revoke
<1>7. QED
  BY <1>3, <1>4, <1>5, <1>6, OtherBountiesStep DEF IInv

\* Withdraw is a lifecycle step.
LEMMA WithdrawStep ==
  ASSUME NEW source \in Actors, NEW id \in Ids, IInv, Withdraw(source, id)
  PROVE  \A i \in Ids : LifecycleStep(i)
<1> DEFINE b == bounties[id]
           c == [b EXCEPT !.withdrawn = TRUE]
<1>1. b \in Bounty
  BY BountyFacts
<1>2. b.status = "Accepted"
  BY DEF Withdraw, WithdrawReply
<1>3. c \in Bounty
  BY <1>1 DEF Bounty
<1>4. c.status = b.status
  BY <1>1 DEF Bounty
<1>5. KeepsTerms(b, c) /\ KeepsStamps(b, c)
  BY <1>1, <1>2 DEF KeepsTerms, KeepsStamps, Bounty
<1>6. Becomes(id, c)
  BY DEF Withdraw
<1>7. QED
  BY <1>3, <1>4, <1>5, <1>6, OtherBountiesStep DEF IInv

\* The slot Post fills is an id of the program and blank.
LEMMA NextSlotBlank ==
  ASSUME NEW source \in Actors, NEW reward \in Rewards, NEW value \in Values,
         NEW deadline \in Deadlines, NEW track \in Tracks,
         IInv, Post(source, reward, value, deadline, track)
  PROVE  next_id \in Ids /\ bounties[next_id] = NoBounty
<1>1. reward \in Nat /\ value \in Nat /\ min_reward \in Nat /\ MaxId \in Nat
  BY ConstantsAssumption
<1>2. next_id # MaxId
  BY <1>1 DEF Post, PostReply
<1>3. next_id \in Ids
  BY <1>1, <1>2 DEF IInv, TypeOK, Ids
<1>4. next_id >= next_id
  BY <1>1 DEF IInv, TypeOK
<1>5. QED
  BY <1>3, <1>4 DEF IInv, Unposted

\* The record Post writes is a bounty.
LEMMA PostedIsBounty ==
  ASSUME NEW source \in Actors, NEW reward \in Rewards, NEW deadline \in Deadlines, IInv
  PROVE  [NoBounty EXCEPT !.poster = source, !.reward = reward, !.deadline = deadline,
                          !.status = "Open", !.posted_at = block_height] \in Bounty
<1>1. NoBounty \in Bounty
  BY DEF NoBounty, Bounty, Block, NoBlock
<1>2. block_height \in Block /\ deadline \in Block /\ reward \in Nat /\ "Open" \in BountyStatus
  BY ConstantsAssumption DEF IInv, TypeOK, Block, BountyStatus
<1>3. QED
  BY <1>1, <1>2 DEF Bounty

\* Post is a lifecycle step.
LEMMA PostStep ==
  ASSUME NEW source \in Actors, NEW reward \in Rewards, NEW value \in Values,
         NEW deadline \in Deadlines, NEW track \in Tracks,
         IInv, Post(source, reward, value, deadline, track)
  PROVE  \A i \in Ids : LifecycleStep(i)
<1> DEFINE c == [NoBounty EXCEPT !.poster = source, !.reward = reward,
                                 !.deadline = deadline, !.status = "Open",
                                 !.posted_at = block_height]
<1>1. next_id \in Ids /\ bounties[next_id] = NoBounty
  BY NextSlotBlank
<1>2. c \in Bounty
  BY PostedIsBounty
<1>3. <<NoBounty.status, c.status>> \in Transitions
  BY DEF Transitions, NoBounty
<1>4. KeepsTerms(NoBounty, c) /\ KeepsStamps(NoBounty, c)
  BY DEF KeepsTerms, KeepsStamps, NoBounty, Stamped
<1>5. Becomes(next_id, c)
  BY DEF Post
<1>6. QED
  BY <1>1, <1>2, <1>3, <1>4, <1>5, OtherBountiesStep DEF IInv

\* A step of the contract, or of somebody else, is a lifecycle step for every bounty.
LEMMA NextLifecycle ==
  ASSUME IInv, [Next]_vars
  PROVE  \A id \in Ids : LifecycleStep(id)
<1>1. ASSUME NEW source \in Actors, NEW reward \in Rewards, NEW value \in Values,
             NEW deadline \in Deadlines, NEW track \in Tracks,
             Post(source, reward, value, deadline, track)
      PROVE  \A id \in Ids : LifecycleStep(id)
  BY <1>1, PostStep
<1>2. ASSUME NEW source \in Actors, NEW id \in Ids,
             \/ Claim(source, id) \/ Submit(source, id) \/ Accept(source, id)
             \/ Withdraw(source, id) \/ Cancel(source, id) \/ Reject(source, id)
             \/ Timeout(source, id) \/ Revoke(source, id)
      PROVE  \A i \in Ids : LifecycleStep(i)
  BY <1>2, ClaimStep, SubmitStep, AcceptStep, WithdrawStep, CancelStep,
     RejectStep, TimeoutStep, RevokeStep
<1>3. CASE UNCHANGED bounties
  BY <1>3 DEF LifecycleStep, KeepsTerms, KeepsStamps
<1>4. CASE UNCHANGED vars \/ NextBlock
  BY <1>3, <1>4 DEF vars, NextBlock
<1>5. ASSUME NEW source \in Actors, NEW id \in Ids, Refused(source, id)
      PROVE  \A i \in Ids : LifecycleStep(i)
  BY <1>4, <1>5 DEF Refused
<1>6. QED
  BY <1>1, <1>2, <1>4, <1>5 DEF Next, CallBy

\* Every step of the contract is a lifecycle step for every bounty.
THEOREM LifecycleFollowed == Spec => Lifecycle
<1>1. IInv /\ [Next]_vars => [\A id \in Ids : LifecycleStep(id)]_vars
  BY NextLifecycle
<1>2. QED
  BY <1>1, Invariance, PTL DEF Spec, Lifecycle

holderNow == [id \in Ids |-> HolderOf(bounties[id])]
settledNow == [id \in Ids |-> Stamped(bounties[id].settled_at)]

\* Changing one bounty changes the two mapped variables at that bounty alone.
LEMMA EscrowFrame ==
  ASSUME NEW id \in Ids, NEW c \in Bounty, TypeOK, Becomes(id, c)
  PROVE  /\ holderNow' = [holderNow EXCEPT ![id] = HolderOf(c)]
         /\ settledNow' = [settledNow EXCEPT ![id] = Stamped(c.settled_at)]
<1>1. /\ bounties'[id] = c
      /\ \A other \in Ids \ {id} : bounties'[other] = bounties[other]
  BY BecomesFrame DEF TypeOK
<1>2. \A i \in Ids : /\ HolderOf(bounties'[i]) = IF i = id THEN HolderOf(c)
                                                 ELSE HolderOf(bounties[i])
                     /\ Stamped(bounties'[i].settled_at) =
                          IF i = id THEN Stamped(c.settled_at)
                          ELSE Stamped(bounties[i].settled_at)
  BY <1>1
<1>3. holderNow' = [holderNow EXCEPT ![id] = HolderOf(c)]
  <2>1. holderNow' = [i \in Ids |-> HolderOf(bounties'[i])]
    BY DEF holderNow, HolderOf, Held, Refunded, Stamped
  <2>2. QED
    BY <1>2, <2>1 DEF holderNow
<1>4. settledNow' = [settledNow EXCEPT ![id] = Stamped(c.settled_at)]
  <2>1. settledNow' = [i \in Ids |-> Stamped(bounties'[i].settled_at)]
    BY DEF settledNow, Stamped
  <2>2. QED
    BY <1>2, <2>1 DEF settledNow
<1>5. QED
  BY <1>3, <1>4

\* A change that moves neither the holder nor the settlement is a stutter.
LEMMA EscrowStutter ==
  ASSUME NEW id \in Ids, NEW c \in Bounty, TypeOK, Becomes(id, c),
         HolderOf(c) = HolderOf(bounties[id]),
         Stamped(c.settled_at) = Stamped(bounties[id].settled_at)
  PROVE  UNCHANGED E!escrowVars
<1>1. /\ holderNow' = [holderNow EXCEPT ![id] = HolderOf(c)]
      /\ settledNow' = [settledNow EXCEPT ![id] = Stamped(c.settled_at)]
  BY EscrowFrame
<1>2. holderNow' = holderNow /\ settledNow' = settledNow
  BY <1>1 DEF holderNow, settledNow
<1>3. QED
  BY <1>2 DEF E!escrowVars, holderNow, settledNow

\* A change that sends the reward of a held bounty back is a Refund.
LEMMA EscrowRefund ==
  ASSUME NEW id \in Ids, NEW c \in Bounty, TypeOK, Becomes(id, c),
         HolderOf(bounties[id]) = "program", HolderOf(c) = "poster",
         Stamped(c.settled_at) = Stamped(bounties[id].settled_at)
  PROVE  E!EscrowNext
<1>1. /\ holderNow' = [holderNow EXCEPT ![id] = "poster"]
      /\ settledNow' = settledNow
      /\ holderNow[id] = "program"
  BY EscrowFrame DEF settledNow, holderNow
<1>2. E!Refund(id)
  BY <1>1 DEF E!Refund, holderNow, settledNow
<1>3. QED
  BY <1>2 DEF E!EscrowNext

\* Claim moves no reward.
LEMMA ClaimEscrow ==
  ASSUME NEW source \in Actors, NEW id \in Ids, IInv, Claim(source, id)
  PROVE  UNCHANGED E!escrowVars
<1> DEFINE b == bounties[id]
           c == [b EXCEPT !.worker = source, !.status = "Claimed", !.claimed_at = block_height]
<1>1. b \in Bounty /\ block_height \in Nat /\ StampsFitStatus(b) /\ StampsInOrder(b)
  BY BountyFacts
<1>2. b.status = "Open"
  BY DEF Claim, ClaimReply, Posted
<1>3. c \in Bounty
  BY <1>1 DEF Bounty, BountyStatus, Block
<1>4. Becomes(id, c)
  BY DEF Claim
<1>5. HolderOf(b) = "program"
  BY <1>1, <1>2 DEF HolderOf, Held, Refunded, StampsFitStatus, StampsInOrder, InOrder
<1>6. HolderOf(c) = "program" /\ Stamped(c.settled_at) = Stamped(b.settled_at)
  BY <1>1, <1>2 DEF HolderOf, Held, Refunded, StampsFitStatus, StampsInOrder, InOrder,
                    Stamped, NoBlock, Bounty
<1>7. QED
  BY <1>3, <1>4, <1>5, <1>6, EscrowStutter DEF IInv

\* Submit moves no reward.
LEMMA SubmitEscrow ==
  ASSUME NEW source \in Actors, NEW id \in Ids, IInv, Submit(source, id)
  PROVE  UNCHANGED E!escrowVars
<1> DEFINE b == bounties[id]
           c == [b EXCEPT !.status = "Submitted", !.submitted_at = block_height]
<1>1. b \in Bounty /\ block_height \in Nat /\ StampsFitStatus(b) /\ StampsInOrder(b)
  BY BountyFacts
<1>2. b.status = "Claimed"
  BY DEF Submit, SubmitReply, Posted
<1>3. c \in Bounty
  BY <1>1 DEF Bounty, BountyStatus, Block
<1>4. Becomes(id, c)
  BY DEF Submit
<1>5. HolderOf(b) = "program"
  BY <1>1, <1>2 DEF HolderOf, Held, Refunded, StampsFitStatus, StampsInOrder, InOrder
<1>6. HolderOf(c) = "program" /\ Stamped(c.settled_at) = Stamped(b.settled_at)
  BY <1>1, <1>2 DEF HolderOf, Held, Refunded, StampsFitStatus, StampsInOrder, InOrder,
                    Stamped, NoBlock, Bounty
<1>7. QED
  BY <1>3, <1>4, <1>5, <1>6, EscrowStutter DEF IInv

\* Cancel sends a held reward back.
LEMMA CancelEscrow ==
  ASSUME NEW source \in Actors, NEW id \in Ids, IInv, Cancel(source, id)
  PROVE  E!EscrowNext
<1> DEFINE b == bounties[id]
           c == [b EXCEPT !.status = "Cancelled", !.cancelled_at = block_height]
<1>1. b \in Bounty /\ block_height \in Nat /\ StampsFitStatus(b) /\ StampsInOrder(b)
  BY BountyFacts
<1>2. b.status = "Open"
  BY DEF Cancel, CancelReply, Posted
<1>3. c \in Bounty
  BY <1>1 DEF Bounty, BountyStatus, Block
<1>4. Becomes(id, c)
  BY DEF Cancel
<1>5. HolderOf(b) = "program"
  BY <1>1, <1>2 DEF HolderOf, Held, Refunded, StampsFitStatus, StampsInOrder, InOrder
<1>6. HolderOf(c) = "poster" /\ Stamped(c.settled_at) = Stamped(b.settled_at)
  BY <1>1, <1>2 DEF HolderOf, Held, Refunded, StampsFitStatus, StampsInOrder, InOrder,
                    Stamped, NoBlock, Bounty
<1>7. QED
  BY <1>3, <1>4, <1>5, <1>6, EscrowRefund DEF IInv

\* Reject sends a held reward back.
LEMMA RejectEscrow ==
  ASSUME NEW source \in Actors, NEW id \in Ids, IInv, Reject(source, id)
  PROVE  E!EscrowNext
<1> DEFINE b == bounties[id]
           c == [b EXCEPT !.status = "Rejected", !.rejected_at = block_height]
<1>1. b \in Bounty /\ block_height \in Nat /\ StampsFitStatus(b) /\ StampsInOrder(b)
  BY BountyFacts
<1>2. b.status = "Submitted"
  BY DEF Reject, RejectReply, Posted
<1>3. c \in Bounty
  BY <1>1 DEF Bounty, BountyStatus, Block
<1>4. Becomes(id, c)
  BY DEF Reject
<1>5. HolderOf(b) = "program"
  BY <1>1, <1>2 DEF HolderOf, Held, Refunded, StampsFitStatus, StampsInOrder, InOrder
<1>6. HolderOf(c) = "poster" /\ Stamped(c.settled_at) = Stamped(b.settled_at)
  BY <1>1, <1>2 DEF HolderOf, Held, Refunded, StampsFitStatus, StampsInOrder, InOrder,
                    Stamped, NoBlock, Bounty
<1>7. QED
  BY <1>3, <1>4, <1>5, <1>6, EscrowRefund DEF IInv

\* Timeout sends a held reward back.
LEMMA TimeoutEscrow ==
  ASSUME NEW source \in Actors, NEW id \in Ids, IInv, Timeout(source, id)
  PROVE  E!EscrowNext
<1> DEFINE b == bounties[id]
           c == [b EXCEPT !.status = "TimedOut", !.timed_out_at = block_height]
<1>1. b \in Bounty /\ block_height \in Nat /\ StampsFitStatus(b) /\ StampsInOrder(b)
  BY BountyFacts
<1>2. b.status \in {"Open", "Claimed", "Submitted"}
  BY DEF Timeout, TimeoutReply, Posted
<1>3. c \in Bounty
  BY <1>1 DEF Bounty, BountyStatus, Block
<1>4. Becomes(id, c)
  BY DEF Timeout
<1>5. HolderOf(b) = "program"
  BY <1>1, <1>2 DEF HolderOf, Held, Refunded, StampsFitStatus, StampsInOrder, InOrder
<1>6. HolderOf(c) = "poster" /\ Stamped(c.settled_at) = Stamped(b.settled_at)
  BY <1>1, <1>2 DEF HolderOf, Held, Refunded, StampsFitStatus, StampsInOrder, InOrder,
                    Stamped, NoBlock, Bounty
<1>7. QED
  BY <1>3, <1>4, <1>5, <1>6, EscrowRefund DEF IInv

\* Accept settles a held bounty.
LEMMA AcceptEscrow ==
  ASSUME NEW source \in Actors, NEW id \in Ids, IInv, Accept(source, id)
  PROVE  E!EscrowNext
<1> DEFINE b == bounties[id]
           c == [b EXCEPT !.status = "Accepted", !.settled_at = block_height]
<1>1. b \in Bounty /\ block_height \in Nat /\ StampsFitStatus(b) /\ StampsInOrder(b)
  BY BountyFacts
<1>2. b.status = "Submitted"
  BY DEF Accept, AcceptReply
<1>3. c \in Bounty
  BY <1>1 DEF Bounty, BountyStatus, Block
<1>4. Becomes(id, c)
  BY DEF Accept
<1>5. HolderOf(b) = "program" /\ ~Stamped(b.settled_at)
  BY <1>1, <1>2 DEF HolderOf, Held, Refunded, StampsFitStatus
<1>6. HolderOf(c) = "program" /\ Stamped(c.settled_at)
  BY <1>1, <1>2 DEF HolderOf, Held, Refunded, StampsFitStatus, Stamped, NoBlock, Bounty
<1>7. /\ holderNow' = [holderNow EXCEPT ![id] = "program"]
      /\ settledNow' = [settledNow EXCEPT ![id] = TRUE]
  BY <1>3, <1>4, <1>6, EscrowFrame DEF IInv
<1>8. E!Settle(id)
  BY <1>5, <1>7 DEF E!Settle, holderNow, settledNow
<1>9. QED
  BY <1>8 DEF E!EscrowNext

\* Withdraw pays the worker of a settled bounty.
LEMMA WithdrawEscrow ==
  ASSUME NEW source \in Actors, NEW id \in Ids, IInv, Withdraw(source, id)
  PROVE  E!EscrowNext
<1> DEFINE b == bounties[id]
           c == [b EXCEPT !.withdrawn = TRUE]
<1>1. b \in Bounty /\ StampsFitStatus(b) /\ StampsInOrder(b)
  BY BountyFacts
<1>2. b.status = "Accepted" /\ ~b.withdrawn
  BY DEF Withdraw, WithdrawReply
<1>3. c \in Bounty
  BY <1>1 DEF Bounty
<1>4. Becomes(id, c)
  BY DEF Withdraw
<1>5. HolderOf(b) = "program" /\ Stamped(b.settled_at)
  BY <1>1, <1>2 DEF HolderOf, Held, Refunded, StampsFitStatus
<1>6. HolderOf(c) = "worker" /\ c.settled_at = b.settled_at
  BY <1>1, <1>2 DEF HolderOf, Bounty
<1>7. /\ holderNow' = [holderNow EXCEPT ![id] = "worker"]
      /\ settledNow' = [settledNow EXCEPT ![id] = Stamped(b.settled_at)]
  <2> HIDE DEF c
  <2>1. QED
    BY <1>3, <1>4, <1>6, EscrowFrame DEF IInv
<1>8. E!PayWorker(id)
  BY <1>5, <1>7 DEF E!PayWorker, holderNow, settledNow
<1>9. QED
  BY <1>8 DEF E!EscrowNext

\* Revoke sends a held reward back, and moves nothing otherwise.
LEMMA RevokeEscrow ==
  ASSUME NEW source \in Actors, NEW id \in Ids, IInv, Revoke(source, id)
  PROVE  E!EscrowNext \/ UNCHANGED E!escrowVars
<1> DEFINE b == bounties[id]
           c == [b EXCEPT !.status = "Revoked", !.revoked_at = block_height]
<1>1. b \in Bounty /\ block_height \in Nat /\ block_height \in Block /\ StampsFitStatus(b)
  BY BountyFacts
<1>2. b.status \notin {"Revoked", "Absent"}
  BY DEF Revoke, RevokeReply, Posted
<1>3. c \in Bounty
  BY <1>1 DEF Bounty, BountyStatus
<1>4. Becomes(id, c)
  BY DEF Revoke
<1>5. /\ Stamped(c.settled_at) = Stamped(b.settled_at)
      /\ HolderOf(c) = IF b.withdrawn THEN "worker" ELSE "poster"
  BY <1>1, <1>2 DEF HolderOf, Held, Stamped, NoBlock, Bounty
<1>6. CASE Held(b)
  <2>1. HolderOf(b) = "program" /\ HolderOf(c) = "poster"
    BY <1>2, <1>5, <1>6 DEF HolderOf, Held
  <2>2. QED
    BY <1>3, <1>4, <1>5, <2>1, EscrowRefund DEF IInv
<1>7. CASE ~Held(b)
  <2>1. HolderOf(b) = HolderOf(c)
    BY <1>2, <1>5, <1>7 DEF HolderOf
  <2>2. QED
    BY <1>3, <1>4, <1>5, <2>1, EscrowStutter DEF IInv
<1>8. QED
  BY <1>6, <1>7

\* Post funds a bounty nobody held.
LEMMA PostEscrow ==
  ASSUME NEW source \in Actors, NEW reward \in Rewards, NEW value \in Values,
         NEW deadline \in Deadlines, NEW track \in Tracks,
         IInv, Post(source, reward, value, deadline, track)
  PROVE  E!EscrowNext
<1> DEFINE c == [NoBounty EXCEPT !.poster = source, !.reward = reward,
                                 !.deadline = deadline, !.status = "Open",
                                 !.posted_at = block_height]
<1>1. next_id \in Ids /\ bounties[next_id] = NoBounty
  BY NextSlotBlank
<1>2. c \in Bounty
  BY PostedIsBounty
<1>3. Becomes(next_id, c)
  BY DEF Post
<1>4. HolderOf(NoBounty) = "nobody" /\ Stamped(NoBounty.settled_at) = FALSE
  BY DEF HolderOf, NoBounty, Stamped
<1>5. HolderOf(c) = "program" /\ Stamped(c.settled_at) = FALSE
  BY DEF HolderOf, Held, Refunded, NoBounty, Stamped
<1>6. /\ holderNow' = [holderNow EXCEPT ![next_id] = "program"]
      /\ settledNow' = [settledNow EXCEPT ![next_id] = FALSE]
  <2> HIDE DEF c
  <2>1. QED
    BY <1>1, <1>2, <1>3, <1>5, EscrowFrame DEF IInv
<1>7. E!Fund(next_id)
  <2>1. holderNow[next_id] = "nobody" /\ settledNow[next_id] = FALSE
    BY <1>1, <1>4 DEF holderNow, settledNow
  <2>2. settledNow' = settledNow
    BY <1>6, <2>1 DEF settledNow
  <2>3. QED
    BY <1>6, <2>1, <2>2 DEF E!Fund, holderNow, settledNow
<1>8. QED
  BY <1>1, <1>7 DEF E!EscrowNext

\* The contract implements module Escrow: the reward of a bounty goes in once,
\* then to its worker after a settlement or back to its poster, and stays there.
THEOREM EscrowKept == Spec => EscrowPromise
<1>1. Init => E!EscrowInit
  <2>1. HolderOf(NoBounty) = "nobody" /\ Stamped(NoBounty.settled_at) = FALSE
    BY DEF HolderOf, NoBounty, Stamped
  <2>2. Init => \A id \in Ids : bounties[id] = NoBounty
    BY DEF Init
  <2>3. QED
    BY <2>1, <2>2 DEF E!EscrowInit
<1>2. IInv /\ [Next]_vars => [E!EscrowNext]_E!escrowVars
  <2> SUFFICES ASSUME IInv, [Next]_vars
               PROVE  E!EscrowNext \/ UNCHANGED E!escrowVars
    OBVIOUS
  <2>1. CASE bounties' = bounties
    BY <2>1 DEF E!escrowVars
  <2>2. ASSUME NEW source \in Actors, NEW reward \in Rewards, NEW value \in Values,
               NEW deadline \in Deadlines, NEW track \in Tracks,
               Post(source, reward, value, deadline, track)
        PROVE  E!EscrowNext
    BY <2>2, PostEscrow
  <2>3. ASSUME NEW source \in Actors, NEW id \in Ids,
               \/ Claim(source, id) \/ Submit(source, id) \/ Accept(source, id)
               \/ Withdraw(source, id) \/ Cancel(source, id) \/ Reject(source, id)
               \/ Timeout(source, id) \/ Revoke(source, id)
        PROVE  E!EscrowNext \/ UNCHANGED E!escrowVars
    BY <2>3, ClaimEscrow, SubmitEscrow, AcceptEscrow, WithdrawEscrow, CancelEscrow,
       RejectEscrow, TimeoutEscrow, RevokeEscrow
  <2>4. ASSUME NEW source \in Actors, NEW id \in Ids, Refused(source, id)
        PROVE  bounties' = bounties
    BY <2>4 DEF Refused, vars
  <2>5. NextBlock => bounties' = bounties
    BY DEF NextBlock
  <2>6. UNCHANGED vars => bounties' = bounties
    BY DEF vars
  <2>7. QED
    BY <2>1, <2>2, <2>3, <2>4, <2>5, <2>6 DEF Next, CallBy
<1>3. QED
  BY <1>1, <1>2, Invariance, PTL DEF Spec, EscrowPromise, E!EscrowSpec

-------------------------------------------------------------------------------
(* The books of the contract. What is left of a bounty is its reward less     *)
(* what was paid out for it; it is below zero when the reward went out twice. *)
(* The balance is the sum of what is left, and with PayoutsExact each of the  *)
(* summands is what EscrowAccounting says the contract owes or lost.          *)

Left(id) == bounties[id].reward - (paid[id].worker + paid[id].poster)

LeftOf == [id \in Ids |-> Left(id)]

Conserved == balance = Total(LeftOf, Ids)

\* The ids are finitely many.
LEMMA IdsFinite == IsFiniteSet(Ids)
<1>1. 0 \in Int /\ MaxId - 1 \in Int
  BY ConstantsAssumption
<1>2. QED
  BY <1>1, FS_Interval DEF Ids

\* What is left of a bounty is a number.
LEMMA LeftIsInt == TypeOK => \A id \in Ids : LeftOf[id] \in Int /\ bounties[id].reward \in Nat
BY DEF TypeOK, LeftOf, Left, Bounty

\* A step that changes what is left of one bounty by as much as the balance.
LEMMA ConservedByOne ==
  ASSUME TypeOK, TypeOK', Conserved, NEW id \in Ids,
         \A i \in Ids \ {id} : Left(i)' = Left(i),
         balance' - balance = Left(id)' - Left(id)
  PROVE  Conserved'
<1>1. \A i \in Ids : LeftOf[i] \in Int /\ LeftOf'[i] \in Int
  <2>1. TypeOK' => \A i \in Ids : LeftOf'[i] \in Int
    BY DEF TypeOK, LeftOf, Left, Bounty
  <2>2. QED
    BY <2>1, LeftIsInt
<1>2. \A i \in Ids : i # id => LeftOf'[i] = LeftOf[i]
  BY DEF LeftOf
<1>3. Total(LeftOf', Ids) = Total(LeftOf, Ids) + (LeftOf'[id] - LeftOf[id])
  <2> DEFINE f == LeftOf
             g == LeftOf'
  <2>1. \A i \in Ids : f[i] \in Int /\ g[i] \in Int
    BY <1>1
  <2>2. \A i \in Ids : i # id => g[i] = f[i]
    BY <1>2
  <2> HIDE DEF f, g
  <2>3. Total(g, Ids) = Total(f, Ids) + (g[id] - f[id])
    BY <2>1, <2>2, IdsFinite, TotalUpdate
  <2>4. QED
    BY <2>3 DEF f, g
<1>4. LeftOf'[id] - LeftOf[id] = balance' - balance
  BY DEF LeftOf
<1>5. balance \in Int /\ balance' \in Int
  BY DEF TypeOK
<1>6. Total(LeftOf, Ids)' = Total(LeftOf', Ids)
  BY DEF Conserved
<1>7. QED
  BY <1>3, <1>4, <1>5, <1>6 DEF Conserved

\* A method that leaves a posted bounty its reward, and pays for it or not.
LEMMA MethodConserves ==
  ASSUME IInv, IInv', Conserved, NEW id \in Ids, NEW c, Becomes(id, c),
         c.reward = bounties[id].reward,
         \/ NoPayment
         \/ \E whom \in {"poster", "worker"}, amount \in Nat : Pay(id, whom, amount)
  PROVE  Conserved'
<1>1. TypeOK /\ TypeOK'
  BY DEF IInv
<1>2. \A i \in Ids : bounties'[i].reward = bounties[i].reward
  BY <1>1 DEF Becomes, TypeOK
<1>3. /\ balance \in Nat /\ paid[id].poster \in Nat /\ paid[id].worker \in Nat
      /\ bounties[id].reward \in Nat
  BY <1>1 DEF TypeOK, Bounty
<1>4. CASE NoPayment
  <2>1. \A i \in Ids : Left(i)' = Left(i)
    BY <1>2, <1>4 DEF NoPayment, Left
  <2>2. balance' - balance = Left(id)' - Left(id)
    BY <1>3, <1>4, <2>1 DEF NoPayment, Left
  <2>3. QED
    BY <1>1, <2>1, <2>2, ConservedByOne
<1>5. CASE \E whom \in {"poster", "worker"}, amount \in Nat : Pay(id, whom, amount)
  <2>1. PICK whom \in {"poster", "worker"}, amount \in Nat : Pay(id, whom, amount)
    BY <1>5
  <2>2. /\ \A other \in Ids \ {id} : paid'[other] = paid[other]
        /\ paid'[id].poster + paid'[id].worker = paid[id].poster + paid[id].worker + amount
    BY <1>1, <1>3, <2>1, PayFrame DEF TypeOK
  <2>3. \A i \in Ids \ {id} : Left(i)' = Left(i)
    BY <1>2, <2>2 DEF Left
  <2>4. /\ balance' = balance - amount
        /\ paid'[id].poster \in Nat /\ paid'[id].worker \in Nat
    BY <1>1, <2>1 DEF Pay, TypeOK
  <2>5. Left(id)' = bounties[id].reward - (paid'[id].worker + paid'[id].poster)
    BY <1>2 DEF Left
  <2>6. balance' - balance = Left(id)' - Left(id)
    BY <1>3, <2>2, <2>4, <2>5 DEF Left
  <2>7. QED
    BY <1>1, <2>3, <2>6, ConservedByOne
<1>6. QED
  BY <1>4, <1>5

\* Post takes in the reward of the bounty it adds, and sends the rest back.
LEMMA PostConserves ==
  ASSUME NEW source \in Actors, NEW reward \in Rewards, NEW value \in Values,
         NEW deadline \in Deadlines, NEW track \in Tracks,
         IInv, IInv', Conserved, Post(source, reward, value, deadline, track)
  PROVE  Conserved'
<1> DEFINE c == [NoBounty EXCEPT !.poster = source, !.reward = reward,
                                 !.deadline = deadline, !.status = "Open",
                                 !.posted_at = block_height]
<1>1. PICK id \in Ids : id = next_id /\ bounties[id] = NoBounty
  BY NextSlotBlank
<1>2. TypeOK /\ TypeOK'
  BY DEF IInv
<1>3. c.reward = reward /\ NoBounty.reward = 0 /\ Becomes(id, c)
  BY <1>1 DEF NoBounty, Post
<1> HIDE DEF c
<1>4. bounties'[id].reward = reward /\ \A i \in Ids \ {id} : bounties'[i] = bounties[i]
  BY <1>1, <1>3, <1>2 DEF Becomes, TypeOK
<1>5. paid' = paid /\ balance' = (balance + value) - (value - reward)
  BY DEF Post, Excess
<1>6. /\ reward \in Nat /\ value \in Nat /\ balance \in Nat
      /\ paid[id].poster \in Nat /\ paid[id].worker \in Nat
  BY <1>2, ConstantsAssumption DEF TypeOK
<1>7. \A i \in Ids \ {id} : Left(i)' = Left(i)
  BY <1>4, <1>5 DEF Left
<1>8. /\ Left(id)' = reward - (paid[id].worker + paid[id].poster)
      /\ Left(id) = 0 - (paid[id].worker + paid[id].poster)
  BY <1>1, <1>3, <1>4, <1>5 DEF Left
<1>9. balance' - balance = Left(id)' - Left(id)
  BY <1>5, <1>6, <1>8
<1>10. QED
  BY <1>7, <1>9, <1>2, ConservedByOne

\* Every method but Post is one that MethodConserves speaks of.
LEMMA CallConserves ==
  ASSUME NEW source \in Actors, NEW id \in Ids, IInv, IInv', Conserved,
         \/ Claim(source, id) \/ Submit(source, id) \/ Accept(source, id)
         \/ Withdraw(source, id) \/ Cancel(source, id) \/ Reject(source, id)
         \/ Timeout(source, id) \/ Revoke(source, id)
  PROVE  Conserved'
<1> DEFINE b == bounties[id]
           pays == \E whom \in {"poster", "worker"}, amount \in Nat : Pay(id, whom, amount)
<1>1. b \in Bounty /\ b.reward \in Nat
  BY DEF IInv, TypeOK, Bounty
<1>2. escrow_to_refund(id) \in Nat
  BY <1>1 DEF escrow_to_refund
<1>3. SUFFICES \E c : /\ Becomes(id, c) /\ c.reward = b.reward
                      /\ NoPayment \/ pays
  BY MethodConserves
<1>4. CASE Claim(source, id)
  <2> DEFINE c == [b EXCEPT !.worker = source, !.status = "Claimed",
                            !.claimed_at = block_height]
  <2>1. Becomes(id, c) /\ c.reward = b.reward /\ NoPayment
    BY <1>1, <1>4 DEF Claim, Bounty
  <2>2. QED
    BY <2>1
<1>5. CASE Submit(source, id)
  <2> DEFINE c == [b EXCEPT !.status = "Submitted", !.submitted_at = block_height]
  <2>1. Becomes(id, c) /\ c.reward = b.reward /\ NoPayment
    BY <1>1, <1>5 DEF Submit, Bounty
  <2>2. QED
    BY <2>1
<1>6. CASE Accept(source, id)
  <2> DEFINE c == [b EXCEPT !.status = "Accepted", !.settled_at = block_height]
  <2>1. Becomes(id, c) /\ c.reward = b.reward /\ NoPayment
    BY <1>1, <1>6 DEF Accept, Bounty
  <2>2. QED
    BY <2>1
<1>7. CASE Withdraw(source, id)
  <2> DEFINE c == [b EXCEPT !.withdrawn = TRUE]
  <2>1. Becomes(id, c) /\ c.reward = b.reward /\ Pay(id, "worker", b.reward)
    BY <1>1, <1>7 DEF Withdraw, Bounty
  <2>2. QED
    BY <1>1, <2>1
<1>8. CASE Cancel(source, id)
  <2> DEFINE c == [b EXCEPT !.status = "Cancelled", !.cancelled_at = block_height]
  <2>1. Becomes(id, c) /\ c.reward = b.reward /\ Pay(id, "poster", b.reward)
    BY <1>1, <1>8 DEF Cancel, Bounty
  <2>2. QED
    BY <1>1, <2>1
<1>9. CASE Reject(source, id)
  <2> DEFINE c == [b EXCEPT !.status = "Rejected", !.rejected_at = block_height]
  <2>1. Becomes(id, c) /\ c.reward = b.reward /\ Pay(id, "poster", b.reward)
    BY <1>1, <1>9 DEF Reject, Bounty
  <2>2. QED
    BY <1>1, <2>1
<1>10. CASE Timeout(source, id)
  <2> DEFINE c == [b EXCEPT !.status = "TimedOut", !.timed_out_at = block_height]
  <2>1. Becomes(id, c) /\ c.reward = b.reward /\ Pay(id, "poster", b.reward)
    BY <1>1, <1>10 DEF Timeout, Bounty
  <2>2. QED
    BY <1>1, <2>1
<1>11. CASE Revoke(source, id)
  <2> DEFINE c == [b EXCEPT !.status = "Revoked", !.revoked_at = block_height]
  <2>1. Becomes(id, c) /\ c.reward = b.reward /\ Pay(id, "poster", escrow_to_refund(id))
    BY <1>1, <1>11 DEF Revoke, Bounty
  <2>2. QED
    BY <1>2, <2>1
<1>12. QED
  BY <1>4, <1>5, <1>6, <1>7, <1>8, <1>9, <1>10, <1>11

\* The balance is what is left, at first and after every step.
LEMMA InitConserved == Init => Conserved
<1> SUFFICES ASSUME Init PROVE Conserved
  OBVIOUS
<1>1. \A id \in Ids : LeftOf[id] = 0
  BY DEF Init, LeftOf, Left, NoBounty
<1>2. Total(LeftOf, Ids) = 0
  BY <1>1, IdsFinite, TotalZero
<1>3. QED
  BY <1>2 DEF Conserved, Init

LEMMA NextConserved == IInv /\ Conserved /\ [Next]_vars => Conserved'
<1> SUFFICES ASSUME IInv, Conserved, [Next]_vars PROVE Conserved'
  OBVIOUS
<1>1. IInv'
  BY NextIInv
<1>2. CASE UNCHANGED <<bounties, balance, paid>>
  <2>1. LeftOf' = LeftOf
    BY <1>2 DEF LeftOf, Left
  <2>2. QED
    BY <1>2, <2>1 DEF Conserved
<1>3. CASE UNCHANGED vars
  BY <1>2, <1>3 DEF vars
<1>4. CASE Next
  <2>1. ASSUME NEW source \in Actors, NEW reward \in Rewards, NEW value \in Values,
               NEW deadline \in Deadlines, NEW track \in Tracks,
               Post(source, reward, value, deadline, track)
        PROVE  Conserved'
    BY <1>1, <2>1, PostConserves
  <2>2. ASSUME NEW source \in Actors, NEW id \in Ids,
               \/ Claim(source, id) \/ Submit(source, id) \/ Accept(source, id)
               \/ Withdraw(source, id) \/ Cancel(source, id) \/ Reject(source, id)
               \/ Timeout(source, id) \/ Revoke(source, id)
        PROVE  Conserved'
    BY <1>1, <2>2, CallConserves
  <2>3. ASSUME NEW source \in Actors, NEW id \in Ids, Refused(source, id)
        PROVE  Conserved'
    BY <1>3, <2>3 DEF Refused
  <2>4. CASE NextBlock
    BY <1>2, <2>4 DEF NextBlock
  <2>5. QED
    BY <1>4, <2>1, <2>2, <2>3, <2>4 DEF Next, CallBy
<1>5. QED
  BY <1>3, <1>4

\* What is left of a bounty is owed to somebody, or missing after a second
\* refund, or nothing.
LEMMA LeftIsOwed ==
  ASSUME IInv, NEW id \in Ids
  PROVE  /\ ~(Held(bounties[id]) /\ RefundedTwice(bounties[id]))
         /\ Left(id) = IF Held(bounties[id]) THEN bounties[id].reward
                       ELSE IF RefundedTwice(bounties[id]) THEN 0 - bounties[id].reward
                       ELSE 0
<1> DEFINE b == bounties[id]
<1>1. /\ b \in Bounty /\ StampsFitStatus(b) /\ StampsInOrder(b)
      /\ paid[id].worker = RewardIf(b, b.withdrawn)
      /\ paid[id].poster = RewardIf(b, Refunded(b))
                           + RewardIf(b, Stamped(b.revoked_at) /\ ~b.withdrawn)
  BY BountyFacts DEF IInv, PayoutsExact
<1>2. b.reward \in Nat /\ b.withdrawn \in BOOLEAN
  BY <1>1 DEF Bounty
<1>3. b.withdrawn => ~Refunded(b)
  BY <1>1 DEF StampsFitStatus, StampsInOrder, InOrder, Refunded
<1>4. b.status = "Absent" => b.reward = 0 /\ ~b.withdrawn
  <2>1. SUFFICES ASSUME b.status = "Absent" PROVE b = NoBounty
    BY DEF NoBounty
  <2>2. ~(id < next_id)
    BY <2>1 DEF IInv, IndexMapsAgree, Posted
  <2>3. id >= next_id
    BY <2>2 DEF IInv, TypeOK, Ids
  <2>4. QED
    BY <2>3 DEF IInv, Unposted
<1>5. b.status = "Absent" => ~Stamped(b.revoked_at)
  BY <1>1 DEF StampsFitStatus
<1> HIDE DEF b
<1>6. Left(id) = b.reward - (RewardIf(b, b.withdrawn)
                             + (RewardIf(b, Refunded(b))
                                + RewardIf(b, Stamped(b.revoked_at) /\ ~b.withdrawn)))
  BY <1>1 DEF Left, b
<1>7. QED
  BY <1>2, <1>3, <1>4, <1>5, <1>6 DEF RewardIf, Held, RefundedTwice, b

\* The two sums of EscrowAccounting are the sum of what is left.
LEMMA BooksBalance == IInv /\ Conserved => EscrowAccounting
<1> SUFFICES ASSUME IInv, Conserved PROVE EscrowAccounting
  OBVIOUS
<1> DEFINE owed == {id \in Ids : Held(bounties[id])}
           lost == {id \in Ids : RefundedTwice(bounties[id])}
           f == [id \in Ids |-> IF id \in owed THEN RewardOf[id] ELSE 0]
           g == [id \in Ids |-> IF id \in lost THEN RewardOf[id] ELSE 0]
<1>1. \A id \in Ids : RewardOf[id] \in Int
  BY DEF IInv, TypeOK, Bounty, RewardOf
<1>2. Total(RewardOf, owed) = Total(f, Ids)
  <2>1. owed \in SUBSET Ids
    OBVIOUS
  <2> HIDE DEF owed
  <2>2. QED
    BY <1>1, <2>1, IdsFinite, TotalSubset
<1>3. Total(RewardOf, lost) = Total(g, Ids)
  <2>1. lost \in SUBSET Ids
    OBVIOUS
  <2> HIDE DEF lost
  <2>2. QED
    BY <1>1, <2>1, IdsFinite, TotalSubset
<1>4. \A id \in Ids : f[id] \in Int /\ g[id] \in Int /\ LeftOf[id] = f[id] - g[id]
  <2>1. SUFFICES ASSUME NEW id \in Ids
                 PROVE  f[id] \in Int /\ g[id] \in Int /\ Left(id) = f[id] - g[id]
    BY DEF LeftOf
  <2>2. /\ f[id] = IF Held(bounties[id]) THEN bounties[id].reward ELSE 0
        /\ g[id] = IF RefundedTwice(bounties[id]) THEN bounties[id].reward ELSE 0
    BY DEF RewardOf
  <2>3. bounties[id].reward \in Nat
    BY DEF IInv, TypeOK, Bounty
  <2> HIDE DEF f, g
  <2>4. QED
    BY <2>2, <2>3, LeftIsOwed
<1> HIDE DEF f, g
<1>5. Total(LeftOf, Ids) = Total(f, Ids) - Total(g, Ids)
  BY <1>4, IdsFinite, TotalMinus
<1>6. QED
  BY <1>2, <1>3, <1>5 DEF Conserved, EscrowAccounting

\* The balance and what is left agree in every state.
LEMMA ConservedInvariance == Spec => [](IInv /\ Conserved)
BY InitIInv, NextIInv, InitConserved, NextConserved, PTL DEF Spec

\* The books of the contract balance, to the unit, whatever is called: it
\* holds the rewards it owes, less those Revoke sent out a second time.
THEOREM BooksAlwaysBalance == Spec => []EscrowAccounting
BY ConservedInvariance, BooksBalance, PTL

\* No bounty has been refunded by Cancel, Reject or Timeout and then revoked.
NoSecondRefund == \A id \in Ids : ~RefundedTwice(bounties[id])

\* The second refund of Revoke is the only way for the contract to fall short
\* of what it owes.
THEOREM SolventButForRevoke == Spec => [](NoSecondRefund => Solvent)
<1>1. IInv /\ Conserved => (NoSecondRefund => Solvent)
  <2>1. SUFFICES ASSUME IInv, EscrowAccounting, NoSecondRefund PROVE Solvent
    BY BooksBalance
  <2>2. {id \in Ids : RefundedTwice(bounties[id])} = {}
    BY <2>1 DEF NoSecondRefund
  <2>3. Total(RewardOf, {id \in Ids : RefundedTwice(bounties[id])}) = 0
    BY <2>2, TotalEmpty
  <2>4. balance \in Nat
    BY <2>1 DEF IInv, TypeOK
  <2> DEFINE owed == Total(RewardOf, {id \in Ids : Held(bounties[id])})
  <2>5. owed \in Int
    <3>1. IsFiniteSet({id \in Ids : Held(bounties[id])})
      BY IdsFinite, FS_Subset
    <3>2. \A id \in {i \in Ids : Held(bounties[i])} : RewardOf[id] \in Int
      BY <2>1 DEF IInv, TypeOK, Bounty, RewardOf
    <3>3. QED
      BY <3>1, <3>2, TotalType
  <2> HIDE DEF owed
  <2>6. balance = owed - 0
    BY <2>1, <2>3 DEF EscrowAccounting, owed
  <2>7. balance >= owed
    BY <2>4, <2>5, <2>6
  <2>8. QED
    BY <2>7 DEF Solvent, owed
<1>2. QED
  BY <1>1, ConservedInvariance, PTL

\* Until then no call is rolled back for want of funds: whatever is still owed
\* for a bounty is there to be paid, to the worker or back to the poster.
THEOREM OwedIsPayable ==
  Spec => [](NoSecondRefund =>
               \A id \in Ids : Held(bounties[id]) => bounties[id].reward <= balance)
<1>1. IInv /\ (NoSecondRefund => Solvent)
      => (NoSecondRefund =>
            \A id \in Ids : Held(bounties[id]) => bounties[id].reward <= balance)
  <2>1. SUFFICES ASSUME IInv, Solvent, NEW id \in Ids, Held(bounties[id])
                 PROVE  bounties[id].reward <= balance
    OBVIOUS
  <2> DEFINE owed == {i \in Ids : Held(bounties[i])}
  <2>2. IsFiniteSet(owed)
    BY IdsFinite, FS_Subset
  <2>3. \A i \in owed : RewardOf[i] \in Nat
    BY <2>1 DEF IInv, TypeOK, Bounty, RewardOf
  <2>4. id \in owed
    BY <2>1
  <2>5. balance >= Total(RewardOf, owed) /\ balance \in Nat
    BY <2>1 DEF Solvent, IInv, TypeOK
  <2> HIDE DEF owed
  <2>6. Total(RewardOf, owed) \in Nat /\ RewardOf[id] <= Total(RewardOf, owed)
    BY <2>2, <2>3, <2>4, TotalBounds
  <2>7. RewardOf[id] = bounties[id].reward /\ RewardOf[id] \in Nat
    BY <2>3, <2>4 DEF RewardOf
  <2>8. QED
    BY <2>5, <2>6, <2>7
<1>2. QED
  BY <1>1, Invariance, SolventButForRevoke, PTL

===============================================================================
