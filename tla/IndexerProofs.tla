----------------------------- MODULE IndexerProofs -----------------------------
(***************************************************************************)
(* Proofs about the indexer, for chains, batches, blocks and faults of any *)
(* size and number.                                                        *)
(*                                                                         *)
(* LiveInv and WalkInv follow the blocks: whatever a handler or a walker   *)
(* is about to ingest was final when it was picked, and what is final      *)
(* stays so while the tip is replaced. FeedsInv counts the feeds: an       *)
(* activity that has yet to open one stands for it, and a lost link for    *)
(* the next.                                                               *)
(* RowInv ties the row to the log; it is carried through the projection    *)
(* one event, then one block at a time. ColdInv ties it to the chain: it   *)
(* needs that the chain is a history the contract can produce (LegalOn)    *)
(* and that no walk begins beyond the watermark (CopyInv).                 *)
(***************************************************************************)
EXTENDS Indexer, CollectionsProofs

Blocks == [number : Nat \ {0}, fork : Nat, events : SeqOf(EventNames, PerBlock)]
UpTo(n) == {block \in Blocks : block.number <= n}
HandlersOn(S) == [todo : Seq(S) \ {<<>>}, at : {"header", "decode"}]
WalkerStates ==
  [at : {"idle", "probing", "catch-up", "walking", "opening"}, next : Nat, to : Nat]

ChainInv ==
  /\ chain \in Seq(Blocks) /\ finalized \in 0 .. Len(chain)
  /\ \A k \in 1 .. Len(chain) : chain[k].number = k
  /\ faults \in [reorgs : Nat, crashes : Nat, disconnects : 0 .. MaxDisconnects, failures : Nat]

\* What the live path holds.
LiveInv ==
  /\ heads \subseteq Blocks /\ buffer \in Seq(Blocks)
  /\ handlers \in Seq(HandlersOn(UpTo(finalized)))

StoreInv ==
  /\ watermark \in 0 .. finalized
  /\ \A entry \in log : entry.block \in UpTo(finalized)

WalkInv ==
  /\ walkers \in [0 .. MaxDisconnects -> WalkerStates]
  /\ \A w \in 0 .. MaxDisconnects :
       /\ walkers[w].to <= finalized
       /\ walkers[w].at = "walking" => walkers[w].next >= 1

\* The activities that have yet to open a feed.
Openers ==
  {w \in 1 .. MaxDisconnects : walkers[w].at # "idle"}
    \cup (IF mode = "backfilling" THEN {0} ELSE {})

FeedsInv ==
  /\ mode \in {"down", "backfilling", "catching-up", "live"} /\ connected \in BOOLEAN
  /\ subs \in [feeds : Nat, open : Nat, held : BOOLEAN]
  /\ subs.open <= subs.feeds
  /\ subs.held => subs.open >= 1
  /\ mode = "down" =>
       /\ subs = NoSubs /\ ~connected
       /\ \A w \in 0 .. MaxDisconnects : walkers[w].at = "idle"
  /\ mode # "down" =>
       /\ ~connected => faults.disconnects >= 1
       /\ subs.feeds + Cardinality(Openers) + (IF connected THEN 0 ELSE 1)
            <= faults.disconnects + 1

\* Before the first live dispatch: the blocks up to the watermark are logged,
\* what is logged is on the chain, and no walk begins beyond the watermark.
CopyInv ==
  ~dispatched =>
    /\ LogIsChain
    /\ \A w \in 0 .. MaxDisconnects :
         walkers[w].at = "walking" => walkers[w].next <= watermark + 1

\* What the log L must hold for the row r.
RowIn(r, L) ==
  /\ r.last_event_block \in Nat
  /\ r # NoRow =>
       /\ \E entry \in L : entry.event = "BountyPosted"
       /\ \E entry \in L : entry.block.number = r.last_event_block
       /\ \E entry \in L : /\ StatusAfter[entry.event] = r.status
                           /\ entry.block.number <= r.last_event_block

\* The row stays, or moves to a later block.
Later(r, s) == s = r \/ s.last_event_block > r.last_event_block

RowInv == RowIn(row, log)

\* The events of the first n blocks of c.
EventsTo(c, n) == EventsOf(SubSeq(c, 1, n))

\* An only event of a block can follow those before it.
LegalOn(c) ==
  \A k \in 1 .. Len(c) :
    Len(c[k].events) = 1 => c[k].events[1] \in CanFollow(EventsTo(c, k - 1))

\* The row r is the bounty as of block n of c.
AsOf(r, c, n) ==
  /\ r.last_event_block \in 0 .. n
  /\ r = NoRow <=> EventsTo(c, n) = <<>>
  /\ r.status = StatusOf(EventsTo(c, n))
  /\ \A j \in 1 .. n : c[j].events # <<>> => j <= r.last_event_block

\* Blocks have one event at most.
Sparse(c, n) == \A k \in 1 .. n : Len(c[k].events) <= 1

\* Before the first live dispatch: if no block up to the watermark has two
\* events, the row is the bounty as of the watermark.
ColdInv ==
  /\ LegalOn(chain)
  /\ ~dispatched /\ Sparse(chain, watermark) => AsOf(row, chain, watermark)

IInv ==
  ChainInv /\ LiveInv /\ StoreInv /\ RowInv /\ WalkInv /\ FeedsInv /\ CopyInv /\ ColdInv

-------------------------------------------------------------------------------
(* Sequences.                                                                 *)

LEMMA RemoveAtFacts ==
  ASSUME NEW S, NEW s \in Seq(S), NEW i \in 1 .. Len(s)
  PROVE  RemoveAt(s, i) \in Seq(S)
<1>1. Len(s) \in Nat /\ \A k \in 1 .. Len(s) : s[k] \in S
  BY LenProperties, ElementOfSeq
<1>2. \A k \in 1 .. i - 1 : s[k] \in S
  BY <1>1
<1>3. \A k \in i + 1 .. Len(s) : s[k] \in S
  BY <1>1
<1>4. SubSeq(s, 1, i - 1) \in Seq(S)
  BY <1>1, <1>2, SubSeqProperties
<1>5. SubSeq(s, i + 1, Len(s)) \in Seq(S)
  BY <1>1, <1>3, SubSeqProperties
<1>6. QED
  BY <1>4, <1>5, ConcatProperties DEF RemoveAt

\* What was final stays final.
LEMMA UpToGrows ==
  ASSUME NEW m \in Nat, NEW n \in Nat, m <= n
  PROVE  /\ UpTo(m) \subseteq UpTo(n)
         /\ Seq(HandlersOn(UpTo(m))) \subseteq Seq(HandlersOn(UpTo(n)))
<1>1. UpTo(m) \subseteq UpTo(n)
  BY DEF UpTo, Blocks
<1>2. ASSUME NEW A, NEW B, A \subseteq B PROVE Seq(A) \subseteq Seq(B)
  <2> SUFFICES ASSUME NEW s \in Seq(A) PROVE s \in Seq(B)
    OBVIOUS
  <2>1. Len(s) \in Nat /\ s \in [1 .. Len(s) -> A]
    BY LenProperties
  <2>2. s \in [1 .. Len(s) -> B]
    BY <1>2, <2>1
  <2>3. QED
    BY <2>1, <2>2, SeqDef
<1>3. HandlersOn(UpTo(m)) \subseteq HandlersOn(UpTo(n))
  BY <1>1, <1>2 DEF HandlersOn
<1>4. QED
  BY <1>1, <1>2, <1>3

LEMMA HandlerFields ==
  ASSUME NEW S, handlers \in Seq(HandlersOn(S)), NEW i \in DOMAIN handlers
  PROVE  /\ i \in 1 .. Len(handlers) /\ handlers[i] \in HandlersOn(S)
         /\ handlers[i].todo \in Seq(S) /\ handlers[i].todo # <<>>
         /\ Head(handlers[i].todo) \in S
<1>1. i \in 1 .. Len(handlers)
  BY LenProperties
<1>2. handlers[i] \in HandlersOn(S)
  BY <1>1, ElementOfSeq
<1>3. handlers[i].todo \in Seq(S) /\ handlers[i].todo # <<>>
  BY <1>2 DEF HandlersOn
<1>4. QED
  BY <1>1, <1>2, <1>3, HeadTailProperties

LEMMA NextCandidateFacts ==
  ASSUME NEW S, handlers \in Seq(HandlersOn(S)), NEW i \in DOMAIN handlers, NextCandidate(i)
  PROVE  handlers' \in Seq(HandlersOn(S))
<1> DEFINE later == Tail(handlers[i].todo)
           left == {k \in DOMAIN later : Contains(buffer', later[k])}
<1>1. i \in 1 .. Len(handlers) /\ handlers[i].todo \in Seq(S) /\ handlers[i].todo # <<>>
  BY HandlerFields
<1>2. later \in Seq(S)
  BY <1>1, HeadTailProperties
<1>3. CASE handlers' = RemoveAt(handlers, i)
  BY <1>1, <1>3, RemoveAtFacts
<1>4. ASSUME NEW k \in left,
             handlers' = [handlers EXCEPT ![i] =
                            [todo |-> SubSeq(later, k, Len(later)), at |-> "header"]]
      PROVE  handlers' \in Seq(HandlersOn(S))
  <2> DEFINE rest == SubSeq(later, k, Len(later))
             h == [todo |-> rest, at |-> "header"]
  <2>1. k \in 1 .. Len(later) /\ Len(later) \in Nat /\ \A j \in 1 .. Len(later) : later[j] \in S
    BY <1>2, LenProperties, ElementOfSeq
  <2> HIDE DEF later
  <2>2. \A j \in k .. Len(later) : later[j] \in S
    BY <2>1
  <2>3. rest \in Seq(S) /\ Len(rest) = Len(later) - k + 1
    BY <2>1, <2>2, SubSeqProperties
  <2>4. rest # <<>>
    <3>1. Len(later) - k + 1 >= 1
      BY <2>1
    <3>2. QED
      BY <2>3, <3>1, EmptySeq
  <2>5. h \in HandlersOn(S)
    BY <2>3, <2>4 DEF HandlersOn
  <2>6. handlers' = [handlers EXCEPT ![i] = h]
    BY <1>4
  <2> HIDE DEF h
  <2>7. QED
    BY <1>1, <2>5, <2>6, ExceptSeq
<1>5. QED
  BY <1>3, <1>4 DEF NextCandidate

\* The handlers a notification starts go through blocks that are final.
LEMMA NotifiesFacts ==
  ASSUME buffer \in Seq(Blocks), NEW m \in Nat, NEW n \in Nat, n <= m, NEW k \in Nat,
         handlers \in Seq(HandlersOn(UpTo(m))), Notifies(n, k)
  PROVE  handlers' \in Seq(HandlersOn(UpTo(m)))
<1> DEFINE due == {i \in DOMAIN buffer : buffer[i].number <= n}
           todo(turn) == [i \in DOMAIN turn |-> buffer[turn[i]]]
           started(turn) == [h \in 1 .. k |-> [todo |-> todo(turn), at |-> "header"]]
<1>1. CASE UNCHANGED handlers
  BY <1>1
<1>2. ASSUME due # {}, NEW turn \in [1 .. Cardinality(due) -> due],
             handlers' = handlers \o started(turn)
      PROVE  handlers' \in Seq(HandlersOn(UpTo(m)))
  <2>1. DOMAIN buffer = 1 .. Len(buffer) /\ Len(buffer) \in Nat
        /\ \A i \in 1 .. Len(buffer) : buffer[i] \in Blocks
    BY LenProperties, ElementOfSeq
  <2>2. \A i \in due : buffer[i] \in UpTo(m)
    BY <2>1 DEF UpTo, Blocks
  <2>3. Cardinality(due) \in Nat /\ Cardinality(due) # 0
    <3>1. due \subseteq 1 .. Len(buffer) /\ IsFiniteSet(1 .. Len(buffer))
      BY <2>1, FS_Interval
    <3>2. IsFiniteSet(due)
      BY <3>1, FS_Subset
    <3>3. QED
      BY <1>2, <3>2, FS_EmptySet, FS_CardinalityType
  <2> HIDE DEF due
  <2>4. todo(turn) \in [1 .. Cardinality(due) -> UpTo(m)]
    BY <2>2
  <2> HIDE DEF todo
  <2>5. todo(turn) \in Seq(UpTo(m)) /\ todo(turn) # <<>>
    <3>1. todo(turn) \in Seq(UpTo(m))
      BY <2>3, <2>4, SeqDef
    <3>2. DOMAIN todo(turn) = 1 .. Cardinality(due) /\ 1 \in 1 .. Cardinality(due)
      BY <2>3, <2>4
    <3>3. DOMAIN todo(turn) # {}
      BY <3>2
    <3>4. QED
      BY <3>1, <3>3
  <2> DEFINE h0 == [todo |-> todo(turn), at |-> "header"]
  <2>6. h0 \in HandlersOn(UpTo(m))
    BY <2>5 DEF HandlersOn
  <2> HIDE DEF h0
  <2>7. started(turn) = [h \in 1 .. k |-> h0]
    BY DEF h0
  <2> HIDE DEF started
  <2>8. started(turn) \in [1 .. k -> HandlersOn(UpTo(m))]
    BY <2>6, <2>7
  <2>9. started(turn) \in Seq(HandlersOn(UpTo(m)))
    BY <2>8, SeqDef
  <2>10. QED
    BY <1>2, <2>9, ConcatProperties
<1>3. QED
  BY <1>1, <1>2 DEF Notifies

LEMMA DropFacts ==
  ASSUME buffer \in Seq(Blocks), NEW block, Drop(block)
  PROVE  buffer' \in Seq(Blocks)
<1>1. DOMAIN buffer = 1 .. Len(buffer)
  BY LenProperties
<1>2. QED
  BY <1>1, RemoveAtFacts DEF Drop

LEMMA BatchEnd ==
  ASSUME NEW a \in Int, NEW b \in Int
  PROVE  Min({a, b}) \in {a, b} /\ Min({a, b}) <= a /\ Min({a, b}) <= b
<1>1. CASE a <= b
  <2>1. Min({a, b}) = CHOOSE x \in {a, b} : \A y \in {a, b} : x <= y
    BY DEF Min
  <2>2. a \in {a, b} /\ \A y \in {a, b} : a <= y
    BY <1>1
  <2>3. QED
    BY <2>1, <2>2
<1>2. CASE b <= a
  <2>1. Min({a, b}) = CHOOSE x \in {a, b} : \A y \in {a, b} : x <= y
    BY DEF Min
  <2>2. b \in {a, b} /\ \A y \in {a, b} : b <= y
    BY <1>2
  <2>3. QED
    BY <2>1, <2>2
<1>3. QED
  BY <1>1, <1>2

\* Blocks that are final are logged, and nothing is taken out of the log.
LEMMA IngestFacts ==
  ASSUME NEW blocks \in Seq(UpTo(finalized)), ingest(blocks),
         \A entry \in log : entry.block \in UpTo(finalized)
  PROVE  log \subseteq log' /\ \A entry \in log' : entry.block \in UpTo(finalized)
<1>1. log' = log \cup UNION {logged(blocks[i]) : i \in DOMAIN blocks}
  BY DEF ingest
<1>2. \A i \in DOMAIN blocks : blocks[i] \in UpTo(finalized)
  BY LenProperties, ElementOfSeq
<1>3. \A i \in DOMAIN blocks : \A entry \in logged(blocks[i]) : entry.block = blocks[i]
  BY DEF logged
<1>4. QED
  BY <1>1, <1>2, <1>3

-------------------------------------------------------------------------------
(* The chain.                                                                 *)

LEMMA FaultsOf ==
  ASSUME ChainInv
  PROVE  /\ RpcFails => faults'.disconnects = faults.disconnects
         /\ RpcFails => faults' \in
              [reorgs : Nat, crashes : Nat, disconnects : 0 .. MaxDisconnects, failures : Nat]
BY DEF ChainInv, RpcFails

\* A block that is built on a chain extends it.
LEMMA ChildFacts ==
  ASSUME NEW s \in Seq(Blocks), \A k \in 1 .. Len(s) : s[k].number = k,
         NEW fork \in Nat, NEW block \in Children(s, fork)
  PROVE  /\ block \in Blocks /\ Append(s, block) \in Seq(Blocks)
         /\ Len(Append(s, block)) = Len(s) + 1
         /\ \A k \in 1 .. Len(s) + 1 : Append(s, block)[k].number = k
         /\ \A k \in 1 .. Len(s) : Append(s, block)[k] = s[k]
<1>1. Len(s) \in Nat
  BY LenProperties
<1>2. block \in Blocks /\ block.number = Len(s) + 1
  BY <1>1 DEF Children, Blocks
<1>3. QED
  BY <1>1, <1>2, AppendProperties

\* What is final is never replaced.
FinalKept == \A k \in 1 .. finalized : chain'[k] = chain[k]

LEMMA NewBlockFacts ==
  ASSUME ChainInv, heads \subseteq Blocks, NewBlock
  PROVE  ChainInv' /\ heads' \subseteq Blocks /\ FinalKept
<1> USE DEF ChainInv
<1>1. PICK block \in Children(chain, 0) : chain' = Append(chain, block) /\ Announce(block)
  BY DEF NewBlock
<1>2. /\ block \in Blocks /\ chain' \in Seq(Blocks) /\ Len(chain') = Len(chain) + 1
      /\ \A k \in 1 .. Len(chain) + 1 : chain'[k].number = k
      /\ \A k \in 1 .. Len(chain) : chain'[k] = chain[k]
  BY <1>1, ChildFacts
<1>3. heads' \subseteq Blocks
  BY <1>1, <1>2 DEF Announce
<1>4. finalized' = finalized /\ faults' = faults /\ Len(chain) \in Nat
  BY LenProperties DEF NewBlock
<1>5. FinalKept
  BY <1>2, <1>4 DEF FinalKept
<1>6. QED
  BY <1>2, <1>3, <1>4, <1>5

\* A chain without its last block.
LEMMA FrontFacts ==
  ASSUME ChainInv, 1 <= Len(chain)
  PROVE  /\ Front(chain) \in Seq(Blocks) /\ Len(Front(chain)) = Len(chain) - 1
         /\ \A k \in 1 .. Len(Front(chain)) :
              Front(chain)[k].number = k /\ Front(chain)[k] = chain[k]
<1> USE DEF ChainInv
<1> DEFINE parent == Front(chain)
<1>1. Len(chain) \in Nat /\ 1 <= Len(chain)
  BY LenProperties
<1>2. \A k \in 1 .. Len(chain) - 1 : chain[k] \in Blocks
  BY <1>1, ElementOfSeq
<1>3. parent = SubSeq(chain, 1, Len(chain) - 1)
  BY DEF Front
<1> HIDE DEF parent
<1>4. /\ parent \in Seq(Blocks)
      /\ Len(parent) = IF 1 <= Len(chain) - 1 THEN Len(chain) - 1 - 1 + 1 ELSE 0
  BY <1>1, <1>2, <1>3, SubSeqProperties
<1>5. \A k \in 1 .. Len(chain) - 1 - 1 + 1 : parent[k] = chain[1 + k - 1]
  BY <1>1, <1>2, <1>3, SubSeqProperties
<1>6. \A k \in 1 .. Len(chain) - 1 : parent[k] = chain[k]
  BY <1>1, <1>5
<1>7. Len(parent) = Len(chain) - 1
  <2>1. ASSUME NEW p, NEW l \in Nat, 1 <= l, p = IF 1 <= l - 1 THEN l - 1 - 1 + 1 ELSE 0
        PROVE  p = l - 1
    BY <2>1
  <2>2. 1 <= Len(chain)
    BY <1>1
  <2>3. QED
    BY <1>1, <1>4, <2>1, <2>2
<1>8. \A k \in 1 .. Len(chain) - 1 : chain[k].number = k
  BY <1>1
<1>9. QED
  BY <1>4, <1>6, <1>7, <1>8 DEF parent

LEMMA ReorgFacts ==
  ASSUME ChainInv, heads \subseteq Blocks, Reorg
  PROVE  ChainInv' /\ heads' \subseteq Blocks /\ FinalKept
<1> USE DEF ChainInv
<1> DEFINE parent == Front(chain)
<1>1. PICK block \in Children(parent, faults.reorgs + 1) :
        chain' = Append(parent, block) /\ Announce(block)
  BY DEF Reorg
<1>2. Len(chain) \in Nat /\ finalized <= Len(chain) - 1 /\ finalized \in Nat
  BY LenProperties DEF Reorg
<1>3. /\ parent \in Seq(Blocks) /\ Len(parent) = Len(chain) - 1
      /\ \A k \in 1 .. Len(parent) : parent[k].number = k /\ parent[k] = chain[k]
  BY <1>2, FrontFacts
<1> HIDE DEF parent
<1>4. faults.reorgs + 1 \in Nat
  OBVIOUS
<1>5. /\ block \in Blocks /\ chain' \in Seq(Blocks) /\ Len(chain') = Len(parent) + 1
      /\ \A k \in 1 .. Len(parent) + 1 : chain'[k].number = k
      /\ \A k \in 1 .. Len(parent) : chain'[k] = parent[k]
  <2> HIDE DEF ChainInv
  <2>1. \A k \in 1 .. Len(parent) : parent[k].number = k
    BY <1>3
  <2>2. QED
    BY <1>1, <1>3, <1>4, <2>1, ChildFacts
<1>6. heads' \subseteq Blocks
  BY <1>1, <1>5 DEF Announce
<1>7. finalized' = finalized /\ faults' = [faults EXCEPT !.reorgs = @ + 1]
  BY DEF Reorg
<1>8. FinalKept
  <2>1. \A k \in 1 .. finalized : k \in 1 .. Len(parent)
    BY <1>2, <1>3
  <2>2. QED
    BY <1>3, <1>5, <2>1 DEF FinalKept
<1>9. ChainInv'
  <2>1. Len(chain') = Len(chain) /\ \A k \in 1 .. Len(chain) : chain'[k].number = k
    BY <1>2, <1>3, <1>5
  <2>2. finalized' \in 0 .. Len(chain')
    BY <1>2, <1>7, <2>1
  <2>3. QED
    BY <1>5, <1>7, <2>1, <2>2
<1>10. QED
  BY <1>6, <1>8, <1>9

LEMMA FinalizeFacts ==
  ASSUME ChainInv, Finalize
  PROVE  ChainInv' /\ finalized < finalized'
<1>1. finalized' \in finalized + 1 .. Len(chain) /\ chain' = chain /\ faults' = faults
  BY DEF Finalize
<1>2. Len(chain) \in Nat
  BY LenProperties DEF ChainInv
<1>3. QED
  BY <1>1, <1>2 DEF ChainInv

\* The other actions leave the chain alone; what they do to the faults.
LEMMA ElsewhereChain ==
  ASSUME Next
  PROVE  \/ NewBlock \/ Reorg \/ Finalize
         \/ /\ UNCHANGED <<chain, finalized>>
            /\ UNCHANGED faults \/ RpcFails \/ Crash \/ Disconnect
BY DEF Next, Chain, Walk, Handle, Boot, Stage5, CatchUp, CatchUpFails, GoLive, Crash, Disconnect,
       Reconnect, CommitBatch, BatchFails, OnReconnect, ProbeFails, Reopen, OpenFails, Push,
       PushFails, HeaderFound, HeaderFails, Dispatch, DispatchFails, node

LEMMA ChainInvariance ==
  ASSUME ChainInv, heads \subseteq Blocks, [Next]_indexerVars
  PROVE  ChainInv' /\ finalized \in Nat /\ finalized' \in Nat /\ finalized <= finalized'
<1>1. finalized \in Nat
  BY LenProperties DEF ChainInv
<1>2. CASE NewBlock
  BY <1>1, <1>2, NewBlockFacts DEF NewBlock
<1>3. CASE Reorg
  BY <1>1, <1>3, ReorgFacts DEF Reorg
<1>4. CASE Finalize
  BY <1>1, <1>4, FinalizeFacts DEF ChainInv
<1>5. CASE UNCHANGED <<chain, finalized>> /\ UNCHANGED faults
  BY <1>1, <1>5 DEF ChainInv
<1>6. CASE UNCHANGED <<chain, finalized>> /\ RpcFails
  BY <1>1, <1>6, FaultsOf DEF ChainInv
<1>7. CASE Crash
  BY <1>1, <1>7 DEF ChainInv, Crash
<1>8. CASE Disconnect
  <2>1. MaxDisconnects \in Nat
    BY IndexerAssumption
  <2>2. /\ faults' = [faults EXCEPT !.disconnects = @ + 1]
        /\ faults.disconnects \in Nat /\ faults.disconnects < MaxDisconnects
    BY <1>8, <2>1 DEF ChainInv, Disconnect
  <2>3. faults.disconnects + 1 \in 0 .. MaxDisconnects
    BY <2>1, <2>2
  <2>4. QED
    BY <1>1, <1>8, <2>2, <2>3 DEF ChainInv, Disconnect
<1>9. CASE UNCHANGED indexerVars
  BY <1>1, <1>9 DEF ChainInv, indexerVars, node
<1>10. QED
  BY <1>2, <1>3, <1>4, <1>5, <1>6, <1>7, <1>8, <1>9, ElsewhereChain

-------------------------------------------------------------------------------
(* Postgres.                                                                  *)

LEMMA CommitBatchFacts ==
  ASSUME ChainInv, StoreInv, WalkInv, NEW w \in 0 .. MaxDisconnects, CommitBatch(w)
  PROVE  /\ log \subseteq log' /\ watermark <= watermark' /\ StoreInv'
         /\ batchEnd(w) \in walkers[w].next .. walkers[w].to
         /\ SubSeq(chain, walkers[w].next, batchEnd(w)) \in Seq(UpTo(finalized))
<1> DEFINE from == walkers[w].next
           to == walkers[w].to
           end == batchEnd(w)
<1>1. from \in Nat /\ to \in Nat /\ 1 <= from /\ from <= to /\ to <= finalized
  BY DEF CommitBatch, WalkInv, WalkerStates
<1>2. finalized \in Nat /\ finalized <= Len(chain) /\ Len(chain) \in Nat
  BY LenProperties DEF ChainInv
<1>3. BatchSize \in Nat /\ BatchSize >= 1
  BY IndexerAssumption
<1>4. end \in from .. to
  <2>1. from + BatchSize - 1 \in Int /\ to \in Int /\ from <= from + BatchSize - 1
    BY <1>1, <1>3
  <2>2. end = Min({from + BatchSize - 1, to})
    BY DEF batchEnd
  <2> HIDE DEF from, to, end
  <2>3. QED
    BY <1>1, <2>1, <2>2, BatchEnd
<1> DEFINE blocks == SubSeq(chain, from, end)
<1>5. blocks \in Seq(UpTo(finalized))
  <2> HIDE DEF from, to, end
  <2>1. \A k \in from .. end : k \in 1 .. Len(chain) /\ k <= finalized
    BY <1>1, <1>2, <1>4
  <2>2. \A k \in from .. end : chain[k] \in Blocks /\ chain[k].number = k
    BY <2>1, ElementOfSeq DEF ChainInv
  <2>3. \A k \in from .. end : chain[k] \in UpTo(finalized)
    BY <2>1, <2>2 DEF UpTo
  <2>4. QED
    BY <1>1, <1>2, <1>4, <2>3, SubSeqProperties DEF ChainInv
<1>6. ingest(blocks) /\ advanceWatermark(end) /\ finalized' = finalized
  BY DEF CommitBatch, node
<1> HIDE DEF from, to, end, blocks
<1>7. log \subseteq log' /\ \A entry \in log' : entry.block \in UpTo(finalized)
  BY <1>5, <1>6, IngestFacts DEF StoreInv
<1>8. watermark <= watermark' /\ watermark' \in 0 .. finalized
  BY <1>1, <1>2, <1>4, <1>6 DEF StoreInv, advanceWatermark
<1>9. QED
  BY <1>4, <1>5, <1>6, <1>7, <1>8 DEF StoreInv, from, to, end, blocks

LEMMA DispatchFacts ==
  ASSUME ChainInv, LiveInv, StoreInv, NEW i \in DOMAIN handlers, Dispatch(i)
  PROVE  log \subseteq log' /\ watermark <= watermark' /\ StoreInv'
<1> DEFINE block == Head(handlers[i].todo)
<1>1. block \in UpTo(finalized)
  BY HandlerFields DEF LiveInv
<1>2. finalized \in Nat
  BY LenProperties DEF ChainInv
<1>3. block.number \in Nat /\ block.number <= finalized
  BY <1>1 DEF UpTo, Blocks
<1>4. ingest(<<block>>) /\ advanceWatermark(block.number) /\ finalized' = finalized
  BY DEF Dispatch, node
<1> HIDE DEF block
<1>5. <<block>> \in Seq(UpTo(finalized))
  BY <1>1
<1>6. log \subseteq log' /\ \A entry \in log' : entry.block \in UpTo(finalized)
  BY <1>4, <1>5, IngestFacts DEF StoreInv
<1>7. watermark <= watermark' /\ watermark' \in 0 .. finalized
  BY <1>2, <1>3, <1>4 DEF StoreInv, advanceWatermark
<1>8. QED
  BY <1>4, <1>6, <1>7 DEF StoreInv

LEMMA ElsewhereStore ==
  ASSUME Next
  PROVE  \/ \E w \in DOMAIN walkers : CommitBatch(w)
         \/ \E i \in DOMAIN handlers : Dispatch(i)
         \/ UNCHANGED <<log, row, watermark>>
BY DEF Next, Chain, NewBlock, Reorg, Finalize, Walk, Handle, Boot, Stage5, CatchUp, CatchUpFails,
       GoLive, Crash, Disconnect, Reconnect, BatchFails, OnReconnect, ProbeFails, Reopen,
       OpenFails, Push, PushFails, HeaderFound, HeaderFails, DispatchFails, db

LEMMA StoreInvariance ==
  ASSUME ChainInv, LiveInv, StoreInv, WalkInv, [Next]_indexerVars
  PROVE  StoreInv' /\ log \subseteq log' /\ watermark <= watermark'
<1>1. /\ finalized \in Nat /\ finalized' \in Nat /\ finalized <= finalized'
      /\ watermark \in 0 .. finalized
  BY ChainInvariance DEF LiveInv, StoreInv
<1>2. ASSUME NEW w \in DOMAIN walkers, CommitBatch(w)
      PROVE  StoreInv' /\ log \subseteq log' /\ watermark <= watermark'
  BY <1>2, CommitBatchFacts DEF WalkInv
<1>3. ASSUME NEW i \in DOMAIN handlers, Dispatch(i)
      PROVE  StoreInv' /\ log \subseteq log' /\ watermark <= watermark'
  BY <1>3, DispatchFacts
<1>4. CASE UNCHANGED <<log, watermark>>
  <2>1. UpTo(finalized) \subseteq UpTo(finalized')
    BY <1>1, UpToGrows
  <2>2. QED
    BY <1>1, <1>4, <2>1 DEF StoreInv
<1>5. CASE UNCHANGED indexerVars
  BY <1>4, <1>5 DEF indexerVars, db
<1>6. QED
  BY <1>2, <1>3, <1>4, <1>5, ElsewhereStore

-------------------------------------------------------------------------------
(* The projection, event by event.                                           *)

\* The recursive function over sets of positions by which project is defined.
Projects(h, r, block, n) ==
  h = [S \in SUBSET (1 .. n) |->
         IF S = {} THEN r
         ELSE projectEvent(h[S \ {Max(S)}], block.events[Max(S)], block.number)]

\* A state of the row for every prefix of the events.
EventByEvent(g, r, block, m) ==
  /\ g[0] = r /\ g[m] = project(r, block)
  /\ \A k \in 1 .. m : g[k] = projectEvent(g[k - 1], block.events[k], block.number)

LEMMA ProjectSteps ==
  ASSUME NEW r, NEW block, NEW m \in Nat, DOMAIN block.events = 1 .. m
  PROVE  \E g : EventByEvent(g, r, block, m)
<1> DEFINE s == block.events
           Has == {n \in Nat : \E h : Projects(h, r, block, n)}
<1>1. 0 \in Has
  <2>1. Projects([S \in SUBSET (1 .. 0) |-> r], r, block, 0)
    BY DEF Projects
  <2>2. QED
    BY <2>1
<1>2. ASSUME NEW n \in Nat, n \in Has PROVE n + 1 \in Has
  <2>1. PICK h : Projects(h, r, block, n)
    BY <1>2
  <2> DEFINE f == [S \in SUBSET (1 .. n + 1) |->
                     IF n + 1 \notin S THEN h[S]
                     ELSE projectEvent(h[S \ {n + 1}], s[n + 1], block.number)]
  <2>2. ASSUME NEW S \in SUBSET (1 .. n + 1)
        PROVE  f[S] = IF S = {} THEN r
                      ELSE projectEvent(f[S \ {Max(S)}], s[Max(S)], block.number)
    <3>1. CASE n + 1 \notin S
      <4>1. S \in SUBSET (1 .. n)
        BY <3>1
      <4>2. \A x : /\ S \ {x} \in SUBSET (1 .. n) /\ S \ {x} \in SUBSET (1 .. n + 1)
                   /\ n + 1 \notin S \ {x}
        BY <3>1, <4>1
      <4>3. f[S] = h[S] /\ f[S \ {Max(S)}] = h[S \ {Max(S)}]
        BY <3>1, <4>1, <4>2
      <4>4. h[S] = IF S = {} THEN r
                   ELSE projectEvent(h[S \ {Max(S)}], s[Max(S)], block.number)
        BY <2>1, <4>1 DEF Projects
      <4>5. QED
        BY <4>3, <4>4
    <3>2. CASE n + 1 \in S
      <4>1. Max(S) = n + 1
        <5>1. S \subseteq Int /\ \A y \in S : y <= n + 1
          OBVIOUS
        <5>2. QED
          BY <3>2, <5>1, MaxIs
      <4>2. S \ {n + 1} \in SUBSET (1 .. n + 1) /\ n + 1 \notin S \ {n + 1} /\ S # {}
        BY <3>2
      <4>3. f[S] = projectEvent(h[S \ {n + 1}], s[n + 1], block.number)
            /\ f[S \ {n + 1}] = h[S \ {n + 1}]
        BY <3>2, <4>2
      <4>4. QED
        BY <4>1, <4>2, <4>3
    <3>3. QED
      BY <3>1, <3>2
  <2>3. Projects(f, r, block, n + 1)
    <3>1. f = [S \in SUBSET (1 .. n + 1) |-> f[S]]
      OBVIOUS
    <3> HIDE DEF f
    <3>2. QED
      BY <2>2, <3>1 DEF Projects
  <2>4. QED
    BY <2>3
<1>3. PICK h : Projects(h, r, block, m) /\ project(r, block) = h[1 .. m]
  <2>1. m \in Has
    <3> HIDE DEF Has
    <3>1. QED
      BY <1>1, <1>2, StepInduction
  <2>2. project(r, block) = (CHOOSE h : Projects(h, r, block, m))[1 .. m]
    BY DEF project, FoldLeft, MapThenFoldSet, Projects
  <2>3. QED
    BY <2>1, <2>2
<1> DEFINE g == [k \in 0 .. m |-> h[1 .. k]]
<1>4. ASSUME NEW k \in 1 .. m PROVE g[k] = projectEvent(g[k - 1], s[k], block.number)
  <2>1. 1 .. k \in SUBSET (1 .. m) /\ 1 .. k # {} /\ k \in 0 .. m /\ k - 1 \in 0 .. m
    OBVIOUS
  <2>2. Max(1 .. k) = k /\ (1 .. k) \ {Max(1 .. k)} = 1 .. k - 1
    BY MaxOfInterval
  <2>3. h[1 .. k] = projectEvent(h[1 .. k - 1], s[k], block.number)
    BY <1>3, <2>1, <2>2 DEF Projects
  <2>4. QED
    BY <2>1, <2>3
<1>5. g[0] = r
  <2>1. 1 .. 0 = {} /\ {} \in SUBSET (1 .. m) /\ 0 \in 0 .. m
    OBVIOUS
  <2>2. h[{}] = r
    BY <1>3, <2>1 DEF Projects
  <2>3. QED
    BY <2>1, <2>2
<1>6. g[m] = project(r, block)
  BY <1>3
<1>7. QED
  BY <1>4, <1>5, <1>6 DEF EventByEvent

\* And the one by which ingest defines the row.
IngestsRow(h, r, blocks, n) ==
  h = [S \in SUBSET (1 .. n) |->
         IF S = {} THEN r
         ELSE project(h[S \ {Max(S)}], blocks[Max(S)])]

\* A state of the row for every prefix of the blocks.
BlockByBlock(g, r, blocks, m) ==
  /\ g[0] = r /\ g[m] = FoldLeft(project, r, blocks)
  /\ \A k \in 1 .. m : g[k] = project(g[k - 1], blocks[k])

LEMMA IngestSteps ==
  ASSUME NEW r, NEW blocks, NEW m \in Nat, DOMAIN blocks = 1 .. m
  PROVE  \E g : BlockByBlock(g, r, blocks, m)
<1> DEFINE s == blocks
           Has == {n \in Nat : \E h : IngestsRow(h, r, blocks, n)}
<1>1. 0 \in Has
  <2>1. IngestsRow([S \in SUBSET (1 .. 0) |-> r], r, blocks, 0)
    BY DEF IngestsRow
  <2>2. QED
    BY <2>1
<1>2. ASSUME NEW n \in Nat, n \in Has PROVE n + 1 \in Has
  <2>1. PICK h : IngestsRow(h, r, blocks, n)
    BY <1>2
  <2> DEFINE f == [S \in SUBSET (1 .. n + 1) |->
                     IF n + 1 \notin S THEN h[S]
                     ELSE project(h[S \ {n + 1}], s[n + 1])]
  <2>2. ASSUME NEW S \in SUBSET (1 .. n + 1)
        PROVE  f[S] = IF S = {} THEN r
                      ELSE project(f[S \ {Max(S)}], s[Max(S)])
    <3>1. CASE n + 1 \notin S
      <4>1. S \in SUBSET (1 .. n)
        BY <3>1
      <4>2. \A x : /\ S \ {x} \in SUBSET (1 .. n) /\ S \ {x} \in SUBSET (1 .. n + 1)
                   /\ n + 1 \notin S \ {x}
        BY <3>1, <4>1
      <4>3. f[S] = h[S] /\ f[S \ {Max(S)}] = h[S \ {Max(S)}]
        BY <3>1, <4>1, <4>2
      <4>4. h[S] = IF S = {} THEN r
                   ELSE project(h[S \ {Max(S)}], s[Max(S)])
        BY <2>1, <4>1 DEF IngestsRow
      <4>5. QED
        BY <4>3, <4>4
    <3>2. CASE n + 1 \in S
      <4>1. Max(S) = n + 1
        <5>1. S \subseteq Int /\ \A y \in S : y <= n + 1
          OBVIOUS
        <5>2. QED
          BY <3>2, <5>1, MaxIs
      <4>2. S \ {n + 1} \in SUBSET (1 .. n + 1) /\ n + 1 \notin S \ {n + 1} /\ S # {}
        BY <3>2
      <4>3. f[S] = project(h[S \ {n + 1}], s[n + 1])
            /\ f[S \ {n + 1}] = h[S \ {n + 1}]
        BY <3>2, <4>2
      <4>4. QED
        BY <4>1, <4>2, <4>3
    <3>3. QED
      BY <3>1, <3>2
  <2>3. IngestsRow(f, r, blocks, n + 1)
    <3>1. f = [S \in SUBSET (1 .. n + 1) |-> f[S]]
      OBVIOUS
    <3> HIDE DEF f
    <3>2. QED
      BY <2>2, <3>1 DEF IngestsRow
  <2>4. QED
    BY <2>3
<1>3. PICK h : IngestsRow(h, r, blocks, m) /\ FoldLeft(project, r, blocks) = h[1 .. m]
  <2>1. m \in Has
    <3> HIDE DEF Has
    <3>1. QED
      BY <1>1, <1>2, StepInduction
  <2>2. FoldLeft(project, r, blocks) = (CHOOSE h : IngestsRow(h, r, blocks, m))[1 .. m]
    BY DEF FoldLeft, MapThenFoldSet, IngestsRow
  <2>3. QED
    BY <2>1, <2>2
<1> DEFINE g == [k \in 0 .. m |-> h[1 .. k]]
<1>4. ASSUME NEW k \in 1 .. m PROVE g[k] = project(g[k - 1], s[k])
  <2>1. 1 .. k \in SUBSET (1 .. m) /\ 1 .. k # {} /\ k \in 0 .. m /\ k - 1 \in 0 .. m
    OBVIOUS
  <2>2. Max(1 .. k) = k /\ (1 .. k) \ {Max(1 .. k)} = 1 .. k - 1
    BY MaxOfInterval
  <2>3. h[1 .. k] = project(h[1 .. k - 1], s[k])
    BY <1>3, <2>1, <2>2 DEF IngestsRow
  <2>4. QED
    BY <2>1, <2>3
<1>5. g[0] = r
  <2>1. 1 .. 0 = {} /\ {} \in SUBSET (1 .. m) /\ 0 \in 0 .. m
    OBVIOUS
  <2>2. h[{}] = r
    BY <1>3, <2>1 DEF IngestsRow
  <2>3. QED
    BY <2>1, <2>2
<1>6. g[m] = FoldLeft(project, r, blocks)
  BY <1>3
<1>7. QED
  BY <1>4, <1>5, <1>6 DEF BlockByBlock

\* One event: what it makes of a row that follows from L still does, if the
\* event is in L.
LEMMA EventOnRow ==
  ASSUME NEW r, NEW L, RowIn(r, L), NEW block, block.number \in Nat \ {0},
         \A entry \in L : entry.block.number \in Nat,
         NEW e, [block |-> block, event |-> e] \in L
  PROVE  RowIn(projectEvent(r, e, block.number), L) /\ Later(r, projectEvent(r, e, block.number))
<1> DEFINE n == block.number
           entry0 == [block |-> block, event |-> e]
           s == projectEvent(r, e, n)
<1>1. entry0 \in L /\ entry0.block.number = n /\ entry0.event = e
  OBVIOUS
<1>2. NoRow.last_event_block = 0 /\ n > 0 /\ n \in Nat
  BY DEF NoRow
<1>3. CASE e = "BountyPosted" /\ r = NoRow
  <2>1. s = [status |-> "Open", last_event_block |-> n]
    BY <1>3 DEF projectEvent
  <2>2. StatusAfter["BountyPosted"] = "Open"
    BY DEF StatusAfter
  <2>3. s.last_event_block = n /\ s.status = "Open"
    BY <2>1
  <2> HIDE DEF s, n, entry0
  <2>4. RowIn(s, L)
    BY <1>1, <1>2, <1>3, <2>2, <2>3 DEF RowIn
  <2>5. Later(r, s)
    BY <1>2, <1>3, <2>3 DEF Later
  <2>6. QED
    BY <2>4, <2>5 DEF s, n
<1>4. CASE e # "BountyPosted" /\ r # NoRow /\ newer(r, n)
  <2>1. s = [status |-> IF e = "BountyWithdrawn" THEN r.status ELSE StatusAfter[e],
             last_event_block |-> n]
    BY <1>4 DEF projectEvent
  <2>2. s.last_event_block = n
        /\ s.status = IF e = "BountyWithdrawn" THEN r.status ELSE StatusAfter[e]
    BY <2>1
  <2>3. r.last_event_block < n /\ r.last_event_block \in Nat
    BY <1>4 DEF newer, RowIn
  <2> HIDE DEF s, n, entry0
  <2>4. PICK posted \in L : posted.event = "BountyPosted"
    BY <1>4 DEF RowIn
  <2>5. PICK told \in L : /\ StatusAfter[told.event] = r.status
                          /\ told.block.number <= r.last_event_block
    BY <1>4 DEF RowIn
  <2>6. told.block.number <= n
    BY <1>2, <2>3, <2>5
  <2>7. \E entry \in L : StatusAfter[entry.event] = s.status /\ entry.block.number <= n
    <3>1. CASE e = "BountyWithdrawn"
      BY <2>2, <2>5, <2>6, <3>1
    <3>2. CASE e # "BountyWithdrawn"
      BY <1>1, <1>2, <2>2, <3>2
    <3>3. QED
      BY <3>1, <3>2
  <2>8. RowIn(s, L)
    BY <1>1, <1>2, <2>2, <2>4, <2>7 DEF RowIn
  <2>9. Later(r, s)
    BY <2>2, <2>3 DEF Later
  <2>10. QED
    BY <2>8, <2>9 DEF s, n
<1>5. CASE ~(e = "BountyPosted" /\ r = NoRow) /\ ~(e # "BountyPosted" /\ r # NoRow /\ newer(r, n))
  <2>1. s = r
    BY <1>5 DEF projectEvent
  <2>2. QED
    BY <2>1 DEF Later
<1>6. QED
  BY <1>3, <1>4, <1>5

\* The rows between move on, too.
LEMMA LaterStill ==
  ASSUME NEW r, NEW s, NEW t, NEW L, RowIn(r, L), RowIn(s, L), RowIn(t, L),
         Later(r, s), Later(s, t)
  PROVE  Later(r, t)
BY DEF RowIn, Later

LEMMA BlockOnRow ==
  ASSUME NEW L, \A entry \in L : entry.block.number \in Nat,
         NEW r, RowIn(r, L), NEW block \in Blocks, logged(block) \subseteq L
  PROVE  RowIn(project(r, block), L) /\ Later(r, project(r, block))
<1>1. PICK m \in Nat : block.events \in [1 .. m -> EventNames]
  BY IndexerAssumption DEF Blocks, SeqOf
<1>2. DOMAIN block.events = 1 .. m /\ block.number \in Nat \ {0}
  BY <1>1 DEF Blocks
<1>3. PICK g : EventByEvent(g, r, block, m)
  BY <1>2, ProjectSteps
<1> DEFINE Done == {k \in Nat : k <= m => RowIn(g[k], L) /\ Later(r, g[k])}
<1>4. 0 \in Done
  BY <1>3 DEF Later, EventByEvent
<1>5. ASSUME NEW k \in Nat, k \in Done PROVE k + 1 \in Done
  <2>1. SUFFICES ASSUME k + 1 <= m PROVE RowIn(g[k + 1], L) /\ Later(r, g[k + 1])
    OBVIOUS
  <2>2. k + 1 \in 1 .. m /\ k + 1 - 1 = k /\ RowIn(g[k], L) /\ Later(r, g[k])
    BY <1>5, <2>1
  <2>3. g[k + 1] = projectEvent(g[k], block.events[k + 1], block.number)
    BY <1>3, <2>2 DEF EventByEvent
  <2>4. [block |-> block, event |-> block.events[k + 1]] \in L
    BY <1>2, <2>2 DEF logged
  <2>5. RowIn(g[k + 1], L) /\ Later(g[k], g[k + 1])
    BY <1>2, <2>2, <2>3, <2>4, EventOnRow
  <2>6. QED
    BY <2>2, <2>5, LaterStill
<1> HIDE DEF Done
<1>6. m \in Done
  BY <1>4, <1>5, StepInduction
<1>7. QED
  BY <1>3, <1>6 DEF Done, EventByEvent

LEMMA RowOfIngest ==
  ASSUME NEW blocks \in Seq(Blocks), ingest(blocks), RowIn(row, log),
         \A entry \in log : entry.block.number \in Nat
  PROVE  RowIn(row', log') /\ Later(row, row')
<1> DEFINE m == Len(blocks)
           L == log \cup UNION {logged(blocks[i]) : i \in DOMAIN blocks}
<1>1. m \in Nat /\ DOMAIN blocks = 1 .. m /\ \A i \in 1 .. m : blocks[i] \in Blocks
  BY LenProperties, ElementOfSeq
<1>2. log' = L /\ row' = FoldLeft(project, row, blocks)
  BY DEF ingest
<1>3. \A i \in 1 .. m : logged(blocks[i]) \subseteq L
  BY <1>1
<1>4. \A entry \in L : entry.block.number \in Nat
  BY <1>1 DEF logged, Blocks
<1>5. RowIn(row, L)
  BY DEF RowIn
<1>6. PICK g : BlockByBlock(g, row, blocks, m)
  BY <1>1, IngestSteps
<1> DEFINE Done == {k \in Nat : k <= m => RowIn(g[k], L) /\ Later(row, g[k])}
<1> HIDE DEF m, L
<1>7. 0 \in Done
  BY <1>5, <1>6 DEF Later, BlockByBlock
<1>8. ASSUME NEW k \in Nat, k \in Done PROVE k + 1 \in Done
  <2>1. SUFFICES ASSUME k + 1 <= m PROVE RowIn(g[k + 1], L) /\ Later(row, g[k + 1])
    OBVIOUS
  <2>2. k + 1 \in 1 .. m /\ k + 1 - 1 = k /\ RowIn(g[k], L) /\ Later(row, g[k])
    BY <1>1, <1>8, <2>1
  <2>3. g[k + 1] = project(g[k], blocks[k + 1])
    BY <1>6, <2>2 DEF BlockByBlock
  <2>4. RowIn(g[k + 1], L) /\ Later(g[k], g[k + 1])
    BY <1>1, <1>3, <1>4, <2>2, <2>3, BlockOnRow
  <2>5. QED
    BY <1>5, <2>2, <2>4, LaterStill
<1> HIDE DEF Done
<1>9. m \in Done
  BY <1>1, <1>7, <1>8, StepInduction
<1>10. QED
  BY <1>1, <1>2, <1>6, <1>9 DEF Done, BlockByBlock

LEMMA RowInvariance ==
  ASSUME ChainInv, LiveInv, StoreInv, WalkInv, RowInv, [Next]_indexerVars
  PROVE  RowInv' /\ Later(row, row')
<1>1. UpTo(finalized) \subseteq Blocks /\ \A entry \in log : entry.block.number \in Nat
  BY DEF UpTo, Blocks, StoreInv
<1>2. ASSUME NEW w \in DOMAIN walkers, CommitBatch(w) PROVE RowInv' /\ Later(row, row')
  <2> DEFINE blocks == SubSeq(chain, walkers[w].next, batchEnd(w))
  <2>1. blocks \in Seq(UpTo(finalized)) /\ ingest(blocks)
    BY <1>2, CommitBatchFacts DEF CommitBatch, WalkInv
  <2> HIDE DEF blocks
  <2>2. blocks \in Seq(Blocks)
    BY <1>1, <2>1, SeqMonotonic
  <2>3. QED
    BY <1>1, <2>1, <2>2, RowOfIngest DEF RowInv
<1>3. ASSUME NEW i \in DOMAIN handlers, Dispatch(i) PROVE RowInv' /\ Later(row, row')
  <2> DEFINE block == Head(handlers[i].todo)
  <2>1. block \in Blocks /\ ingest(<<block>>)
    BY <1>1, <1>3, HandlerFields DEF Dispatch, LiveInv
  <2> HIDE DEF block
  <2>2. <<block>> \in Seq(Blocks)
    BY <2>1
  <2>3. QED
    BY <1>1, <2>1, <2>2, RowOfIngest DEF RowInv
<1>4. CASE UNCHANGED <<log, row, watermark>>
  BY <1>4 DEF RowInv, RowIn, Later
<1>5. CASE UNCHANGED indexerVars
  BY <1>4, <1>5 DEF indexerVars, db
<1>6. QED
  BY <1>2, <1>3, <1>4, <1>5, ElsewhereStore

-------------------------------------------------------------------------------
(* The live path.                                                             *)

LEMMA ElsewhereLive ==
  ASSUME Next
  PROVE  \/ NewBlock \/ Reorg \/ Finalize \/ Stage5 \/ Stopped
         \/ \E w \in DOMAIN walkers : Reopen(w) \/ OpenFails(w)
         \/ \E block \in heads : Push(block) \/ PushFails(block)
         \/ \E i \in DOMAIN handlers : Handle(i)
         \/ /\ UNCHANGED <<finalized, heads, handlers>>
            /\ buffer' = buffer \/ buffer' = <<>>
BY DEF Next, Chain, Walk, Boot, CatchUp, CatchUpFails, GoLive, Crash, Disconnect, Reconnect,
       CommitBatch, BatchFails, OnReconnect, ProbeFails, Stopped, node

LEMMA BestHeadFacts ==
  ASSUME ChainInv
  PROVE  BestHead \subseteq Blocks
<1>1. CASE chain = <<>>
  BY <1>1 DEF BestHead
<1>2. CASE chain # <<>>
  <2>1. Len(chain) \in 1 .. Len(chain)
    BY <1>2, EmptySeq, LenProperties DEF ChainInv
  <2>2. chain[Len(chain)] \in Blocks
    BY <2>1, ElementOfSeq DEF ChainInv
  <2>3. QED
    BY <1>2, <2>2 DEF BestHead, Last
<1>3. QED
  BY <1>1, <1>2

LEMMA OpenSubsFacts ==
  ASSUME ChainInv, LiveInv, NEW w, NEW next, OpenSubs(w, next),
         finalized' = finalized, buffer' = buffer
  PROVE  LiveInv'
<1>1. finalized \in Nat
  BY LenProperties DEF ChainInv
<1>2. handlers' \in Seq(HandlersOn(UpTo(finalized)))
  BY <1>1, NotifiesFacts DEF LiveInv, OpenSubs
<1>3. heads' \subseteq Blocks
  BY BestHeadFacts DEF LiveInv, OpenSubs
<1>4. QED
  BY <1>2, <1>3 DEF LiveInv

LEMMA OpenFailsFacts ==
  ASSUME ChainInv, LiveInv, NEW w, OpenFails(w)
  PROVE  LiveInv'
<1>1. finalized' = finalized
  BY DEF OpenFails
<1>2. CASE Stopped
  BY <1>1, <1>2, EmptySeq DEF LiveInv, Stopped
<1>3. CASE heads' \in {heads, heads \cup BestHead} /\ UNCHANGED <<buffer, handlers>>
  BY <1>1, <1>3, BestHeadFacts DEF LiveInv
<1>4. QED
  BY <1>2, <1>3 DEF OpenFails

LEMMA HandleFacts ==
  ASSUME LiveInv, NEW i \in DOMAIN handlers, Handle(i)
  PROVE  LiveInv'
<1> DEFINE S == UpTo(finalized)
<1>1. /\ finalized' = finalized /\ heads' = heads
      /\ buffer' \in Seq(Blocks)
  <2>1. finalized' = finalized /\ heads' = heads
    BY DEF Handle, HeaderFound, HeaderFails, Dispatch, DispatchFails, node
  <2>2. buffer' = buffer \/ Drop(Head(handlers[i].todo))
    BY DEF Handle, HeaderFound, HeaderFails, Dispatch, DispatchFails
  <2>3. QED
    BY <2>1, <2>2, DropFacts DEF LiveInv
<1>2. i \in 1 .. Len(handlers) /\ handlers[i] \in HandlersOn(S) /\ handlers \in Seq(HandlersOn(S))
  BY HandlerFields DEF LiveInv
<1>3. CASE HeaderFound(i)
  <2> DEFINE h == [handlers[i] EXCEPT !.at = "decode"]
  <2>1. h \in HandlersOn(S)
    BY <1>2 DEF HandlersOn
  <2>2. handlers' = [handlers EXCEPT ![i] = h]
    BY <1>3 DEF HeaderFound
  <2> HIDE DEF h
  <2>3. handlers' \in Seq(HandlersOn(S))
    BY <1>2, <2>1, <2>2, ExceptSeq
  <2>4. QED
    BY <1>1, <2>3 DEF LiveInv
<1>4. CASE NextCandidate(i)
  <2>1. handlers' \in Seq(HandlersOn(S))
    BY <1>2, <1>4, NextCandidateFacts
  <2>2. QED
    BY <1>1, <2>1 DEF LiveInv
<1>5. QED
  BY <1>3, <1>4 DEF Handle, HeaderFails, Dispatch, DispatchFails

LEMMA LiveInvariance ==
  ASSUME ChainInv, LiveInv, FeedsInv, [Next]_indexerVars
  PROVE  LiveInv'
<1>1. finalized \in Nat /\ finalized' \in Nat /\ finalized <= finalized'
  BY ChainInvariance DEF LiveInv
<1>2. Seq(HandlersOn(UpTo(finalized))) \subseteq Seq(HandlersOn(UpTo(finalized')))
  BY <1>1, UpToGrows
<1>3. CASE NewBlock
  BY <1>3, NewBlockFacts DEF LiveInv, NewBlock
<1>4. CASE Reorg
  BY <1>4, ReorgFacts DEF LiveInv, Reorg
<1>5. CASE Finalize
  <2>1. handlers \in Seq(HandlersOn(UpTo(finalized'))) /\ buffer \in Seq(Blocks)
    BY <1>2 DEF LiveInv
  <2>2. handlers' = handlers \/ Notifies(finalized', subs.open)
    BY <1>5 DEF Finalize
  <2>3. handlers' \in Seq(HandlersOn(UpTo(finalized')))
    BY <1>1, <2>1, <2>2, NotifiesFacts DEF FeedsInv
  <2>4. QED
    BY <1>5, <2>3 DEF LiveInv, Finalize
<1>6. CASE Stage5
  BY <1>6, OpenSubsFacts DEF Stage5, node
<1>7. CASE Stopped
  BY <1>7, EmptySeq DEF Stopped, LiveInv
<1>8. ASSUME NEW w \in DOMAIN walkers, Reopen(w) \/ OpenFails(w)
      PROVE  LiveInv'
  BY <1>8, OpenSubsFacts, OpenFailsFacts DEF Reopen, node
<1>9. ASSUME NEW block \in heads, Push(block) \/ PushFails(block)
      PROVE  LiveInv'
  <2>1. block \in Blocks /\ buffer \in Seq(Blocks)
    BY DEF LiveInv
  <2>2. Append(buffer, block) \in Seq(Blocks)
    BY <2>1, AppendProperties
  <2>3. /\ finalized' = finalized /\ handlers' = handlers /\ heads' \subseteq heads
        /\ buffer' = buffer \/ buffer' = Append(buffer, block)
    BY <1>9 DEF Push, PushFails, node
  <2>4. QED
    BY <2>2, <2>3 DEF LiveInv
<1>10. ASSUME NEW i \in DOMAIN handlers, Handle(i)
       PROVE  LiveInv'
  BY <1>10, HandleFacts
<1>11. CASE UNCHANGED <<finalized, heads, handlers>> /\ (buffer' = buffer \/ buffer' = <<>>)
  BY <1>11, EmptySeq DEF LiveInv
<1>12. CASE UNCHANGED indexerVars
  BY <1>12 DEF indexerVars, node, process, LiveInv
<1>13. QED
  BY <1>3, <1>4, <1>5, <1>6, <1>7, <1>8, <1>9, <1>10, <1>11, <1>12, ElsewhereLive

-------------------------------------------------------------------------------
(* The walkers.                                                               *)

LEMMA IdleFacts == Idle \in WalkerStates /\ Idle.at = "idle" /\ Idle.to = 0
BY DEF Idle, WalkerStates

\* One walker moves to a state that keeps below what is final.
LEMMA OneWalker ==
  ASSUME WalkInv, NEW w \in 0 .. MaxDisconnects, NEW st \in WalkerStates,
         st.to <= finalized, st.at = "walking" => st.next >= 1,
         walkers' = [walkers EXCEPT ![w] = st], finalized' = finalized
  PROVE  WalkInv'
<1>1. walkers' \in [0 .. MaxDisconnects -> WalkerStates]
  BY DEF WalkInv
<1>2. \A v \in 0 .. MaxDisconnects : walkers'[v] = IF v = w THEN st ELSE walkers[v]
  BY DEF WalkInv
<1>3. QED
  BY <1>1, <1>2 DEF WalkInv

LEMMA WalkingFacts ==
  ASSUME ChainInv, StoreInv
  PROVE  /\ Walking \in WalkerStates /\ Walking.at = "walking"
         /\ Walking.to <= finalized /\ Walking.next >= 1
<1>1. finalized \in Nat /\ watermark \in Nat
  BY LenProperties DEF ChainInv, StoreInv
<1>2. QED
  BY <1>1 DEF Walking, walkFrom, WalkerStates

LEMMA StoppedWalk ==
  ASSUME ChainInv, WalkInv, Stopped, finalized' = finalized
  PROVE  WalkInv'
<1>1. finalized \in Nat
  BY LenProperties DEF ChainInv
<1>2. walkers' = [w \in 0 .. MaxDisconnects |-> Idle]
  BY DEF Stopped, WalkInv
<1>3. QED
  BY <1>1, <1>2, IdleFacts DEF WalkInv

LEMMA ElsewhereWalk ==
  ASSUME Next
  PROVE  \/ Boot \/ Stage5 \/ CatchUp \/ GoLive \/ Reconnect
         \/ Stopped /\ UNCHANGED finalized
         \/ \E w \in DOMAIN walkers : Walk(w)
         \/ UNCHANGED walkers
BY DEF Next, Chain, NewBlock, Reorg, Finalize, CatchUpFails, Crash, Disconnect, Push, PushFails,
       Handle, HeaderFound, HeaderFails, Dispatch, DispatchFails

LEMMA WalkFacts ==
  ASSUME ChainInv, StoreInv, WalkInv, NEW w \in 0 .. MaxDisconnects, Walk(w)
  PROVE  WalkInv'
<1>1. finalized' = finalized /\ finalized \in Nat
  <2>1. finalized' = finalized
    BY DEF Walk, CommitBatch, BatchFails, OnReconnect, ProbeFails, Reopen, OpenFails, node
  <2>2. QED
    BY <2>1, LenProperties DEF ChainInv
<1>2. /\ walkers[w] \in WalkerStates /\ walkers[w].to <= finalized
      /\ walkers[w].at = "walking" => walkers[w].next >= 1
  BY DEF WalkInv
<1>3. CASE CommitBatch(w)
  <2> DEFINE end == batchEnd(w)
             st == [walkers[w] EXCEPT !.next = end + 1]
  <2>1. end \in walkers[w].next .. walkers[w].to /\ walkers[w].next \in Nat
    BY <1>2, <1>3, CommitBatchFacts DEF WalkerStates
  <2>2. walkers' = [walkers EXCEPT ![w] = st]
    BY <1>3 DEF CommitBatch
  <2> HIDE DEF end
  <2>3. end + 1 \in Nat /\ end + 1 >= 1
    BY <2>1
  <2>4. st \in WalkerStates /\ st.to = walkers[w].to /\ st.next = end + 1
    BY <1>2, <2>3 DEF WalkerStates
  <2> HIDE DEF st
  <2>5. QED
    BY <1>1, <1>2, <2>2, <2>3, <2>4, OneWalker
<1>4. CASE BatchFails(w)
  <2>1. CASE Stopped
    BY <1>1, <2>1, StoppedWalk
  <2>2. CASE walkers' = [walkers EXCEPT ![w].at = "opening"]
    <3> DEFINE st == [walkers[w] EXCEPT !.at = "opening"]
    <3>1. walkers' = [walkers EXCEPT ![w] = st]
      BY <2>2
    <3>2. st \in WalkerStates /\ st.to = walkers[w].to /\ st.at = "opening"
      BY <1>2 DEF WalkerStates
    <3> HIDE DEF st
    <3>3. QED
      BY <1>1, <1>2, <3>1, <3>2, OneWalker
  <2>3. QED
    BY <1>4, <2>1, <2>2 DEF BatchFails
<1>5. CASE OnReconnect(w)
  BY <1>1, <1>5, WalkingFacts, OneWalker DEF OnReconnect, node
<1>6. CASE walkers' = [walkers EXCEPT ![w] = Idle]
  <2>1. Idle.to <= finalized /\ (Idle.at = "walking" => Idle.next >= 1)
    BY <1>1, IdleFacts
  <2>2. QED
    BY <1>1, <1>6, <2>1, IdleFacts, OneWalker
<1>7. CASE OpenFails(w) /\ Stopped
  BY <1>1, <1>7, StoppedWalk
<1>8. QED
  BY <1>3, <1>4, <1>5, <1>6, <1>7 DEF Walk, ProbeFails, Reopen, OpenFails, OpenSubs

LEMMA WalkInvariance ==
  ASSUME ChainInv, LiveInv, StoreInv, WalkInv, FeedsInv, [Next]_indexerVars
  PROVE  WalkInv'
<1>1. /\ finalized \in Nat /\ finalized' \in Nat /\ finalized <= finalized'
      /\ MaxDisconnects \in Nat /\ 0 \in 0 .. MaxDisconnects
  BY ChainInvariance, IndexerAssumption DEF LiveInv
<1>2. CASE Boot \/ CatchUp
  <2>1. walkers' = [walkers EXCEPT ![0] = Walking] /\ finalized' = finalized
    BY <1>2 DEF Boot, CatchUp, node
  <2>2. QED
    BY <1>1, <2>1, WalkingFacts, OneWalker
<1>3. CASE Stage5
  <2> DEFINE st == [Idle EXCEPT !.at = "catch-up"]
  <2>1. walkers' = [walkers EXCEPT ![0] = st] /\ finalized' = finalized
    BY <1>3 DEF Stage5, OpenSubs, node
  <2>2. st \in WalkerStates /\ st.to = 0 /\ st.at = "catch-up"
    BY DEF Idle, WalkerStates
  <2> HIDE DEF st
  <2>3. st.to <= finalized /\ (st.at = "walking" => st.next >= 1)
    BY <1>1, <2>2
  <2>4. QED
    BY <1>1, <2>1, <2>2, <2>3, OneWalker
<1>4. CASE GoLive
  <2>1. walkers' = [walkers EXCEPT ![0] = Idle] /\ finalized' = finalized
    BY <1>4 DEF GoLive, node
  <2>2. Idle.to <= finalized /\ (Idle.at = "walking" => Idle.next >= 1)
    BY <1>1, IdleFacts
  <2>3. QED
    BY <1>1, <2>1, <2>2, IdleFacts, OneWalker
<1>5. CASE Reconnect
  <2> DEFINE d == faults.disconnects
             st == [walkers[d] EXCEPT !.at = "probing"]
  <2>1. d \in 0 .. MaxDisconnects
    BY DEF ChainInv
  <2>2. walkers' = [walkers EXCEPT ![d] = st] /\ finalized' = finalized
    BY <1>5 DEF Reconnect, node
  <2>3. walkers[d] \in WalkerStates /\ walkers[d].to <= finalized
    BY <2>1 DEF WalkInv
  <2> HIDE DEF d
  <2>4. st \in WalkerStates /\ st.to = walkers[d].to /\ st.at = "probing"
    BY <2>3 DEF WalkerStates
  <2> HIDE DEF st
  <2>5. QED
    BY <1>1, <2>1, <2>2, <2>3, <2>4, OneWalker
<1>6. CASE Stopped /\ UNCHANGED finalized
  BY <1>6, StoppedWalk
<1>7. ASSUME NEW w \in DOMAIN walkers, Walk(w) PROVE WalkInv'
  BY <1>7, WalkFacts DEF WalkInv
<1>8. CASE UNCHANGED walkers
  <2>1. \A w \in 0 .. MaxDisconnects : walkers[w].to \in Nat
    BY DEF WalkInv, WalkerStates
  <2>2. QED
    BY <1>1, <1>8, <2>1 DEF WalkInv
<1>9. CASE UNCHANGED indexerVars
  BY <1>8, <1>9 DEF indexerVars, process
<1>10. QED
  BY <1>2, <1>3, <1>4, <1>5, <1>6, <1>7, <1>8, <1>9, ElsewhereWalk

-------------------------------------------------------------------------------
(* The feeds.                                                                 *)

LEMMA Counted ==
  ASSUME NEW A, IsFiniteSet(A), NEW B, NEW x
  PROVE  /\ Cardinality(A) \in Nat
         /\ B \subseteq A => /\ Cardinality(B) \in Nat
                             /\ Cardinality(B) <= Cardinality(A)
         /\ x \in A /\ B \subseteq A \ {x} => /\ Cardinality(B) \in Nat
                                            /\ Cardinality(B) + 1 <= Cardinality(A)
         /\ B \subseteq A \cup {x} => /\ Cardinality(B) \in Nat
                                     /\ Cardinality(B) <= Cardinality(A) + 1
<1>1. Cardinality(A) \in Nat
  BY FS_CardinalityType
<1>2. ASSUME B \subseteq A
      PROVE  Cardinality(B) \in Nat /\ Cardinality(B) <= Cardinality(A)
  BY <1>2, FS_Subset, FS_CardinalityType
<1>3. ASSUME x \in A, B \subseteq A \ {x}
      PROVE  Cardinality(B) \in Nat /\ Cardinality(B) + 1 <= Cardinality(A)
  <2>1. IsFiniteSet(A \ {x}) /\ Cardinality(A \ {x}) = Cardinality(A) - 1
    BY <1>3, FS_RemoveElement
  <2>2. Cardinality(B) \in Nat /\ Cardinality(B) <= Cardinality(A \ {x})
    BY <1>3, <2>1, FS_Subset, FS_CardinalityType
  <2>3. QED
    BY <1>1, <2>1, <2>2
<1>4. ASSUME B \subseteq A \cup {x}
      PROVE  Cardinality(B) \in Nat /\ Cardinality(B) <= Cardinality(A) + 1
  <2>1. /\ IsFiniteSet(A \cup {x})
        /\ Cardinality(A \cup {x}) \in {Cardinality(A), Cardinality(A) + 1}
    BY <1>1, FS_AddElement
  <2>2. Cardinality(B) \in Nat /\ Cardinality(B) <= Cardinality(A \cup {x})
    BY <1>4, <2>1, FS_Subset, FS_CardinalityType
  <2>3. QED
    BY <1>1, <2>1, <2>2
<1>5. QED
  BY <1>1, <1>2, <1>3, <1>4

LEMMA OpenersFinite == IsFiniteSet(Openers)
<1>1. MaxDisconnects \in Nat
  BY IndexerAssumption
<1>2. Openers \subseteq 0 .. MaxDisconnects /\ IsFiniteSet(0 .. MaxDisconnects)
  BY <1>1, FS_Interval DEF Openers
<1>3. QED
  BY <1>2, FS_Subset

\* The walkers and the mode decide who has yet to open a feed.
LEMMA OpenersFollow ==
  ASSUME WalkInv, NEW w \in 0 .. MaxDisconnects, NEW st,
         walkers' = [walkers EXCEPT ![w] = st]
  PROVE  /\ mode' # "backfilling" =>
              /\ w = 0 => Openers' \subseteq Openers \ {0}
              /\ st.at = "idle" => Openers' \subseteq Openers \ {w}
         /\ mode' = mode =>
              /\ Openers' \subseteq Openers \cup {w}
              /\ walkers[w].at # "idle" \/ w = 0 => Openers' \subseteq Openers
              /\ st.at = "idle" /\ w # 0 => Openers' \subseteq Openers \ {w}
<1>1. \A v \in 1 .. MaxDisconnects :
        walkers'[v] = IF v = w THEN st ELSE walkers[v]
  BY DEF WalkInv
<1>2. QED
  BY <1>1 DEF Openers

LEMMA StoppedFeeds ==
  ASSUME WalkInv, Stopped
  PROVE  FeedsInv'
<1>1. /\ mode' = "down" /\ connected' = FALSE /\ subs' = NoSubs
      /\ walkers' = [w \in 0 .. MaxDisconnects |-> Idle]
  BY DEF Stopped, WalkInv
<1>2. \A w \in 0 .. MaxDisconnects : walkers'[w].at = "idle"
  BY <1>1, IdleFacts
<1>3. /\ subs' \in [feeds : Nat, open : Nat, held : BOOLEAN]
      /\ subs'.open = 0 /\ subs'.feeds = 0 /\ ~subs'.held
  BY <1>1 DEF NoSubs
<1>4. ~connected' /\ connected' \in BOOLEAN
  BY <1>1
<1>5. subs'.open <= subs'.feeds
  BY <1>3
<1>6. QED
  BY <1>1, <1>2, <1>3, <1>4, <1>5 DEF FeedsInv

\* A step that opens or closes feeds in a process that is up.
LEMMA UpFeeds ==
  ASSUME FeedsInv, mode # "down", mode' \in {"backfilling", "catching-up", "live"},
         connected' = connected, faults'.disconnects = faults.disconnects,
         subs' \in [feeds : Nat, open : Nat, held : BOOLEAN],
         subs'.open <= subs'.feeds, subs'.held => subs'.open >= 1,
         subs'.feeds + Cardinality(Openers') <= subs.feeds + Cardinality(Openers),
         Cardinality(Openers) \in Nat, Cardinality(Openers') \in Nat,
         faults.disconnects \in Nat
  PROVE  FeedsInv'
<1>1. /\ ~connected => faults.disconnects >= 1
      /\ subs.feeds \in Nat
      /\ subs.feeds + Cardinality(Openers) + (IF connected THEN 0 ELSE 1)
           <= faults.disconnects + 1
  BY DEF FeedsInv
<1>2. subs'.feeds + Cardinality(Openers') + (IF connected' THEN 0 ELSE 1)
        <= faults'.disconnects + 1
  BY <1>1
<1>3. connected' \in BOOLEAN
  BY DEF FeedsInv
<1>4. QED
  BY <1>1, <1>2, <1>3 DEF FeedsInv

LEMMA FeedsSame ==
  ASSUME FeedsInv, UNCHANGED <<mode, connected, subs, walkers>>,
         faults'.disconnects = faults.disconnects
  PROVE  FeedsInv'
<1>1. Openers' = Openers
  BY DEF Openers
<1>2. QED
  BY <1>1 DEF FeedsInv

LEMMA WalkFeeds ==
  ASSUME ChainInv, WalkInv, FeedsInv, NEW w \in 0 .. MaxDisconnects, Walk(w)
  PROVE  FeedsInv'
<1>1. mode # "down" /\ walkers[w].at # "idle"
  BY DEF FeedsInv, Walk, CommitBatch, BatchFails, OnReconnect, ProbeFails, Reopen, OpenFails
<1>2. faults'.disconnects = faults.disconnects /\ faults.disconnects \in Nat
  BY FaultsOf DEF ChainInv, Walk, CommitBatch, BatchFails, OnReconnect, ProbeFails, Reopen,
                  OpenFails, node
<1>3. /\ IsFiniteSet(Openers) /\ Cardinality(Openers) \in Nat
      /\ subs \in [feeds : Nat, open : Nat, held : BOOLEAN] /\ subs.open <= subs.feeds
      /\ subs.held => subs.open >= 1
      /\ mode \in {"backfilling", "catching-up", "live"}
  BY <1>1, OpenersFinite, Counted DEF FeedsInv
<1>4. CASE Stopped
  BY <1>4, StoppedFeeds
<1>5. ASSUME Openers' \subseteq Openers, UNCHANGED <<mode, connected>>, subs' = subs \/ CloseSubs
      PROVE  FeedsInv'
  <2>1. Cardinality(Openers') \in Nat /\ Cardinality(Openers') <= Cardinality(Openers)
    BY <1>3, <1>5, Counted
  <2>2. /\ subs' \in [feeds : Nat, open : Nat, held : BOOLEAN]
        /\ subs'.open <= subs'.feeds /\ subs'.feeds <= subs.feeds
        /\ subs'.held => subs'.open >= 1
    <3>1. CASE subs' = subs
      BY <1>3, <3>1
    <3>2. CASE subs.held /\ CloseSubs
      <4>1. /\ subs.feeds \in Nat /\ subs.open \in Nat
            /\ subs.open >= 1 /\ subs.open <= subs.feeds
        BY <1>3, <3>2
      <4>2. subs' = [feeds |-> subs.feeds - 1, open |-> subs.open - 1, held |-> FALSE]
        BY <3>2 DEF CloseSubs
      <4>3. /\ subs'.feeds = subs.feeds - 1 /\ subs'.open = subs.open - 1 /\ subs'.held = FALSE
            /\ subs.feeds - 1 \in Nat /\ subs.open - 1 \in Nat
        BY <4>1, <4>2
      <4>4. subs' \in [feeds : Nat, open : Nat, held : BOOLEAN]
        BY <4>2, <4>3
      <4>5. QED
        BY <4>1, <4>3, <4>4
    <3>3. QED
      BY <1>5, <3>1, <3>2 DEF CloseSubs
  <2>3. QED
    BY <1>1, <1>2, <1>3, <1>5, <2>1, <2>2, UpFeeds
<1>6. ASSUME w # 0, walkers' = [walkers EXCEPT ![w] = Idle], UNCHANGED <<mode, connected>>,
             subs' \in [feeds : Nat, open : Nat, held : BOOLEAN], subs'.open <= subs'.feeds,
             subs'.held => subs'.open >= 1, subs'.feeds <= subs.feeds + 1
      PROVE  FeedsInv'
  <2>1. Openers' \subseteq Openers \ {w}
    BY <1>6, IdleFacts, OpenersFollow
  <2>2. w \in Openers
    BY <1>1, <1>6 DEF Openers
  <2>3. Cardinality(Openers') \in Nat /\ Cardinality(Openers') + 1 <= Cardinality(Openers)
    BY <1>3, <2>1, <2>2, Counted
  <2>4. QED
    BY <1>1, <1>2, <1>3, <1>6, <2>3, UpFeeds
<1>7. CASE CommitBatch(w)
  <2> DEFINE st == [walkers[w] EXCEPT !.next = batchEnd(w) + 1]
  <2>1. walkers' = [walkers EXCEPT ![w] = st] /\ UNCHANGED <<mode, connected, subs>>
    BY <1>7 DEF CommitBatch
  <2> HIDE DEF st
  <2>2. QED
    BY <1>1, <1>5, <2>1, OpenersFollow
<1>8. CASE BatchFails(w) /\ ~Stopped
  <2> DEFINE st == [walkers[w] EXCEPT !.at = "opening"]
  <2>1. walkers' = [walkers EXCEPT ![w] = st] /\ UNCHANGED <<mode, connected, subs>>
    BY <1>8 DEF BatchFails
  <2> HIDE DEF st
  <2>2. QED
    BY <1>1, <1>5, <2>1, OpenersFollow
<1>9. CASE OnReconnect(w)
  <2>1. walkers' = [walkers EXCEPT ![w] = Walking] /\ UNCHANGED <<mode, connected>> /\ CloseSubs
    BY <1>9 DEF OnReconnect
  <2>2. QED
    BY <1>1, <1>5, <2>1, OpenersFollow
<1>10. CASE ProbeFails(w)
  <2>1. walkers' = [walkers EXCEPT ![w] = Idle] /\ UNCHANGED <<mode, connected, subs>>
    BY <1>10 DEF ProbeFails
  <2>2. QED
    BY <1>1, <1>5, <2>1, OpenersFollow
<1>11. CASE Reopen(w)
  <2>1. /\ w # 0 /\ walkers' = [walkers EXCEPT ![w] = Idle] /\ UNCHANGED <<mode, connected>>
        /\ subs' = [feeds |-> subs.feeds + 1, open |-> subs.open + 1, held |-> TRUE]
    BY <1>11 DEF Reopen, OpenSubs
  <2>2. subs.feeds \in Nat /\ subs.open \in Nat
    BY <1>3
  <2>3. /\ subs' \in [feeds : Nat, open : Nat, held : BOOLEAN] /\ subs'.open <= subs'.feeds
        /\ subs'.held => subs'.open >= 1
        /\ subs'.feeds <= subs.feeds + 1
    BY <1>3, <2>1, <2>2
  <2>4. QED
    BY <1>6, <2>1, <2>3
<1>12. CASE OpenFails(w) /\ ~Stopped
  <2>1. /\ w # 0 /\ walkers' = [walkers EXCEPT ![w] = Idle] /\ UNCHANGED <<mode, connected>>
        /\ \E leaked \in 0 .. 1 : subs' = [subs EXCEPT !.feeds = @ + leaked]
    BY <1>12 DEF OpenFails
  <2>2. PICK leaked \in 0 .. 1 : subs' = [subs EXCEPT !.feeds = @ + leaked]
    BY <2>1
  <2>3. /\ subs' \in [feeds : Nat, open : Nat, held : BOOLEAN] /\ subs'.open <= subs'.feeds
        /\ subs'.held => subs'.open >= 1
        /\ subs'.feeds <= subs.feeds + 1
    BY <1>3, <2>2
  <2>4. QED
    BY <1>6, <2>1, <2>3
<1>13. QED
  BY <1>4, <1>7, <1>8, <1>9, <1>10, <1>11, <1>12 DEF Walk

LEMMA BootFeeds ==
  ASSUME ChainInv, WalkInv, FeedsInv, Boot
  PROVE  FeedsInv'
<1>1. /\ mode' = "backfilling" /\ connected' = TRUE /\ subs' = subs /\ faults' = faults
      /\ walkers' = [walkers EXCEPT ![0] = Walking] /\ mode = "down"
  BY DEF Boot, node
<1>2. subs = NoSubs /\ \A w \in 0 .. MaxDisconnects : walkers[w].at = "idle"
  BY <1>1 DEF FeedsInv
<1>3. Openers' \subseteq {} \cup {0}
  BY <1>1, <1>2 DEF Openers, WalkInv
<1>4. Cardinality(Openers') \in Nat /\ Cardinality(Openers') <= 1
  <2>1. IsFiniteSet({}) /\ Cardinality({}) = 0
    BY FS_EmptySet
  <2>2. QED
    BY <1>3, <2>1, Counted
<1>5. faults.disconnects \in Nat /\ subs'.feeds = 0
  BY <1>1, <1>2 DEF ChainInv, NoSubs
<1>6. subs'.feeds + Cardinality(Openers') + (IF connected' THEN 0 ELSE 1)
        <= faults'.disconnects + 1
  BY <1>1, <1>4, <1>5
<1>7. QED
  BY <1>1, <1>6 DEF FeedsInv

LEMMA Stage5Feeds ==
  ASSUME ChainInv, WalkInv, FeedsInv, Stage5
  PROVE  FeedsInv'
<1> DEFINE st == [Idle EXCEPT !.at = "catch-up"]
<1>1. /\ mode' = "catching-up" /\ mode = "backfilling" /\ connected' = connected
      /\ faults' = faults /\ walkers' = [walkers EXCEPT ![0] = st]
      /\ subs' = [feeds |-> subs.feeds + 1, open |-> subs.open + 1, held |-> TRUE]
  BY DEF Stage5, OpenSubs, node
<1> HIDE DEF st
<1>2. 0 \in 0 .. MaxDisconnects /\ faults.disconnects \in Nat
  BY IndexerAssumption DEF ChainInv
<1>3. Openers' \subseteq Openers \ {0} /\ 0 \in Openers
  BY <1>1, <1>2, OpenersFollow DEF Openers
<1>4. /\ Cardinality(Openers) \in Nat /\ Cardinality(Openers') \in Nat
      /\ Cardinality(Openers') + 1 <= Cardinality(Openers)
  BY <1>3, OpenersFinite, Counted
<1>5. subs.feeds \in Nat /\ subs.open \in Nat /\ subs.open <= subs.feeds
  BY DEF FeedsInv
<1>6. /\ subs' \in [feeds : Nat, open : Nat, held : BOOLEAN]
      /\ subs'.open <= subs'.feeds /\ subs'.open >= 1 /\ subs'.feeds = subs.feeds + 1
  BY <1>1, <1>5
<1>7. QED
  BY <1>1, <1>2, <1>4, <1>5, <1>6, UpFeeds

\* In the catch-up and once it is over, boot has opened its feed.
LEMMA CatchUpFeeds ==
  ASSUME ChainInv, WalkInv, FeedsInv, CatchUp \/ GoLive
  PROVE  FeedsInv'
<1>1. /\ mode # "down" /\ mode' \in {"catching-up", "live"} /\ connected' = connected
      /\ faults' = faults /\ subs' = subs
      /\ \E st : walkers' = [walkers EXCEPT ![0] = st]
  BY DEF CatchUp, GoLive, node
<1>2. 0 \in 0 .. MaxDisconnects /\ faults.disconnects \in Nat
  BY IndexerAssumption DEF ChainInv
<1>3. Openers' \subseteq Openers
  BY <1>1, <1>2, OpenersFollow
<1>4. /\ Cardinality(Openers) \in Nat /\ Cardinality(Openers') \in Nat
      /\ Cardinality(Openers') <= Cardinality(Openers)
  BY <1>3, OpenersFinite, Counted
<1>5. /\ subs' \in [feeds : Nat, open : Nat, held : BOOLEAN] /\ subs'.open <= subs'.feeds
      /\ subs'.held => subs'.open >= 1
      /\ subs.feeds \in Nat
  BY <1>1 DEF FeedsInv
<1>6. QED
  BY <1>1, <1>2, <1>4, <1>5, UpFeeds

\* The link goes and comes back: what it may open next was paid for by the
\* disconnect.
LEMMA LinkFeeds ==
  ASSUME ChainInv, WalkInv, FeedsInv, Disconnect \/ Reconnect
  PROVE  FeedsInv'
<1>1. /\ mode' = mode /\ mode # "down" /\ subs' = subs
      /\ mode \in {"backfilling", "catching-up", "live"}
  BY DEF Disconnect, Reconnect, FeedsInv
<1>2. /\ faults.disconnects \in 0 .. MaxDisconnects /\ faults.disconnects \in Nat
      /\ subs.feeds \in Nat
      /\ subs \in [feeds : Nat, open : Nat, held : BOOLEAN] /\ subs.open <= subs.feeds
      /\ subs.held => subs.open >= 1
  BY DEF ChainInv, FeedsInv
<1>3. Cardinality(Openers) \in Nat
  BY OpenersFinite, Counted
<1>4. CASE Disconnect
  <2>1. /\ connected = TRUE /\ connected' = FALSE /\ walkers' = walkers
        /\ faults'.disconnects = faults.disconnects + 1
    BY <1>4 DEF Disconnect, ChainInv
  <2>2. Openers' = Openers
    BY <1>1, <2>1 DEF Openers
  <2>3. subs.feeds + Cardinality(Openers) <= faults.disconnects + 1
    BY <1>1, <1>2, <1>3, <2>1 DEF FeedsInv
  <2>4. /\ faults'.disconnects >= 1
        /\ subs'.feeds + Cardinality(Openers') + (IF connected' THEN 0 ELSE 1)
             <= faults'.disconnects + 1
    BY <1>1, <1>2, <1>3, <2>1, <2>2, <2>3
  <2>5. QED
    BY <1>1, <1>2, <2>1, <2>4 DEF FeedsInv
<1>5. CASE Reconnect
  <2> DEFINE d == faults.disconnects
             st == [walkers[d] EXCEPT !.at = "probing"]
  <2>1. /\ ~connected /\ connected' = TRUE /\ faults' = faults
        /\ walkers' = [walkers EXCEPT ![d] = st]
    BY <1>5 DEF Reconnect, node
  <2> HIDE DEF st
  <2>2. Openers' \subseteq Openers \cup {d}
    BY <1>1, <1>2, <2>1, OpenersFollow
  <2>3. Cardinality(Openers') \in Nat /\ Cardinality(Openers') <= Cardinality(Openers) + 1
    BY <2>2, OpenersFinite, Counted
  <2>4. subs.feeds + Cardinality(Openers) + 1 <= faults.disconnects + 1
    BY <1>1, <2>1 DEF FeedsInv
  <2>5. subs'.feeds + Cardinality(Openers') + (IF connected' THEN 0 ELSE 1)
          <= faults'.disconnects + 1
    BY <1>1, <1>2, <1>3, <2>1, <2>3, <2>4
  <2>6. QED
    BY <1>1, <1>2, <2>1, <2>5 DEF FeedsInv
<1>6. QED
  BY <1>4, <1>5

LEMMA ElsewhereFeeds ==
  ASSUME Next
  PROVE  \/ Boot \/ Stage5 \/ CatchUp \/ GoLive \/ Disconnect \/ Reconnect \/ Stopped
         \/ \E w \in DOMAIN walkers : Walk(w)
         \/ /\ UNCHANGED <<mode, connected, subs, walkers>>
            /\ UNCHANGED faults \/ RpcFails \/ faults' = [faults EXCEPT !.reorgs = @ + 1]
BY DEF Next, Chain, NewBlock, Reorg, Finalize, CatchUpFails, Crash, Push, PushFails,
       Handle, HeaderFound, HeaderFails, Dispatch, DispatchFails, node

LEMMA FeedsInvariance ==
  ASSUME ChainInv, WalkInv, FeedsInv, [Next]_indexerVars
  PROVE  FeedsInv'
<1>1. CASE Stopped
  BY <1>1, StoppedFeeds
<1>2. CASE Boot \/ Stage5 \/ CatchUp \/ GoLive \/ Disconnect \/ Reconnect
  BY <1>2, BootFeeds, Stage5Feeds, CatchUpFeeds, LinkFeeds
<1>3. ASSUME NEW w \in DOMAIN walkers, Walk(w) PROVE FeedsInv'
  BY <1>3, WalkFeeds DEF WalkInv
<1>4. ASSUME UNCHANGED <<mode, connected, subs, walkers>>,
             UNCHANGED faults \/ RpcFails \/ faults' = [faults EXCEPT !.reorgs = @ + 1]
      PROVE  FeedsInv'
  <2>1. faults'.disconnects = faults.disconnects
    BY <1>4, FaultsOf DEF ChainInv
  <2>2. QED
    BY <1>4, <2>1, FeedsSame
<1>5. CASE UNCHANGED indexerVars
  BY <1>4, <1>5 DEF indexerVars, node, process
<1>6. QED
  BY <1>1, <1>2, <1>3, <1>4, <1>5, ElsewhereFeeds

-------------------------------------------------------------------------------
(* A cold start.                                                              *)

LEMMA FinalStays ==
  ASSUME ChainInv, heads \subseteq Blocks, Next
  PROVE  FinalKept
<1>1. CASE NewBlock \/ Reorg
  BY <1>1, NewBlockFacts, ReorgFacts
<1>2. CASE UNCHANGED chain
  BY <1>2 DEF FinalKept
<1>3. QED
  BY <1>1, <1>2, ElsewhereChain DEF Finalize

LEMMA BatchLogged ==
  ASSUME ChainInv, StoreInv, WalkInv, NEW w \in 0 .. MaxDisconnects, CommitBatch(w)
  PROVE  /\ \A k \in walkers[w].next .. batchEnd(w) : logged(chain[k]) \subseteq log'
         /\ \A entry \in log' :
              entry \in log \/ \E k \in 1 .. finalized : entry.block = chain[k]
<1> DEFINE from == walkers[w].next
           end == batchEnd(w)
           blocks == SubSeq(chain, from, end)
<1>1. from \in Nat /\ from >= 1 /\ end \in from .. walkers[w].to
      /\ walkers[w].to \in Nat /\ walkers[w].to <= finalized
  BY CommitBatchFacts DEF CommitBatch, WalkInv, WalkerStates
<1>2. log' = log \cup UNION {logged(blocks[i]) : i \in DOMAIN blocks}
  BY DEF CommitBatch, ingest
<1>3. /\ finalized \in Nat /\ finalized <= Len(chain) /\ Len(chain) \in Nat
      /\ \A k \in 1 .. Len(chain) : chain[k] \in Blocks
  BY LenProperties, ElementOfSeq DEF ChainInv
<1> HIDE DEF from, end
<1>4. /\ end \in Nat /\ from <= end /\ end <= finalized
      /\ \A k \in from .. end : k \in 1 .. Len(chain) /\ k \in 1 .. finalized
  BY <1>1, <1>3
<1>5. blocks \in Seq(Blocks) /\ Len(blocks) = end - from + 1
      /\ \A i \in 1 .. end - from + 1 : blocks[i] = chain[from + i - 1]
  BY <1>1, <1>3, <1>4, SubSeqProperties
<1> HIDE DEF blocks
<1>6. DOMAIN blocks = 1 .. end - from + 1
  BY <1>5, LenProperties
<1>7. ASSUME NEW k \in from .. end PROVE logged(chain[k]) \subseteq log'
  <2>1. k - from + 1 \in 1 .. end - from + 1 /\ from + (k - from + 1) - 1 = k
    BY <1>1, <1>4
  <2>2. blocks[k - from + 1] = chain[k] /\ k - from + 1 \in DOMAIN blocks
    BY <1>5, <1>6, <2>1
  <2>3. QED
    BY <1>2, <2>2
<1>8. ASSUME NEW entry \in log', entry \notin log
      PROVE  \E k \in 1 .. finalized : entry.block = chain[k]
  <2>1. PICK i \in DOMAIN blocks : entry \in logged(blocks[i])
    BY <1>2, <1>8
  <2>2. entry.block = blocks[i]
    BY <2>1 DEF logged
  <2>3. i \in 1 .. end - from + 1 /\ from + i - 1 \in from .. end
    BY <1>1, <1>4, <1>6
  <2>4. QED
    BY <1>4, <1>5, <2>2, <2>3
<1>9. QED
  BY <1>7, <1>8 DEF from, end

LEMMA CommitBatchCopy ==
  ASSUME ChainInv, StoreInv, WalkInv, CopyInv, NEW w \in 0 .. MaxDisconnects, CommitBatch(w)
  PROVE  CopyInv'
<1> SUFFICES ASSUME ~dispatched'
             PROVE  /\ LogIsChain'
                    /\ \A v \in 0 .. MaxDisconnects :
                         walkers'[v].at = "walking" => walkers'[v].next <= watermark' + 1
  BY DEF CopyInv
<1> DEFINE end == batchEnd(w)
<1>1. /\ ~dispatched /\ chain' = chain
      /\ walkers[w].at = "walking"
      /\ walkers' = [walkers EXCEPT ![w].next = end + 1]
      /\ watermark' = IF watermark < end THEN end ELSE watermark
  BY DEF CommitBatch, node, advanceWatermark
<1>2. /\ LogIsChain
      /\ \A v \in 0 .. MaxDisconnects :
           walkers[v].at = "walking" => walkers[v].next <= watermark + 1
  BY <1>1 DEF CopyInv
<1>3. /\ end \in walkers[w].next .. walkers[w].to /\ log \subseteq log'
      /\ walkers[w].next \in Nat /\ walkers[w].next <= watermark + 1
      /\ \A v \in 0 .. MaxDisconnects : walkers[v].next \in Nat
  BY <1>1, <1>2, CommitBatchFacts DEF WalkInv, WalkerStates
<1>4. /\ watermark \in Nat /\ finalized \in Nat /\ finalized <= Len(chain)
      /\ Len(chain) \in Nat
  BY LenProperties DEF ChainInv, StoreInv
<1>5. /\ \A k \in walkers[w].next .. end : logged(chain[k]) \subseteq log'
      /\ \A entry \in log' :
           entry \in log \/ \E k \in 1 .. finalized : entry.block = chain[k]
  BY BatchLogged
<1> HIDE DEF end
<1>6. AllLogged(watermark)'
  <2> SUFFICES ASSUME NEW k \in 1 .. watermark' PROVE logged(chain[k]) \subseteq log'
    BY <1>1 DEF AllLogged, logged
  <2>1. CASE k <= watermark
    <3>1. k \in 1 .. watermark
      BY <1>1, <1>3, <1>4, <2>1
    <3>2. logged(chain[k]) \subseteq log
      BY <1>2, <3>1 DEF LogIsChain, AllLogged
    <3>3. QED
      BY <1>3, <3>2
  <2>2. CASE watermark < k
    <3>1. k \in walkers[w].next .. end
      BY <1>1, <1>3, <1>4, <2>2
    <3>2. QED
      BY <1>5, <3>1
  <2>3. QED
    BY <1>1, <1>3, <1>4, <2>1, <2>2
<1>7. \A entry \in log' : entry.block = chain'[entry.block.number]
  <2> SUFFICES ASSUME NEW entry \in log' PROVE entry.block = chain[entry.block.number]
    BY <1>1
  <2>1. CASE entry \in log
    BY <1>2, <2>1 DEF LogIsChain
  <2>2. ASSUME NEW k \in 1 .. finalized, entry.block = chain[k]
        PROVE  entry.block = chain[entry.block.number]
    <3>1. k \in 1 .. Len(chain)
      BY <1>4
    <3>2. chain[k].number = k
      BY <3>1 DEF ChainInv
    <3>3. QED
      BY <2>2, <3>2
  <2>3. QED
    BY <1>5, <2>1, <2>2
<1>8. ASSUME NEW v \in 0 .. MaxDisconnects, walkers'[v].at = "walking"
      PROVE  walkers'[v].next <= watermark' + 1
  <2>1. CASE v = w
    <3>1. walkers'[v].next = end + 1
      BY <1>1, <2>1 DEF WalkInv, WalkerStates
    <3>2. end \in Nat /\ end <= watermark'
      BY <1>1, <1>3, <1>4
    <3>3. QED
      BY <1>1, <1>4, <3>1, <3>2
  <2>2. CASE v # w
    <3>1. walkers'[v] = walkers[v]
      BY <1>1, <2>2 DEF WalkInv
    <3>2. watermark <= watermark' /\ watermark' \in Nat
      BY <1>1, <1>3, <1>4
    <3>3. QED
      BY <1>2, <1>3, <1>4, <1>8, <3>1, <3>2
  <2>3. QED
    BY <2>1, <2>2
<1>9. QED
  BY <1>6, <1>7, <1>8 DEF LogIsChain

\* Every other way to come to a walk starts it right after the watermark.
LEMMA WalksBegin ==
  ASSUME WalkInv, Next, NEW w \in 0 .. MaxDisconnects
  PROVE  \/ \E v \in 0 .. MaxDisconnects : CommitBatch(v)
         \/ walkers'[w] \in {walkers[w], Walking}
         \/ walkers'[w].at # "walking"
<1>1. DOMAIN walkers = 0 .. MaxDisconnects
  BY DEF WalkInv
<1>2. ASSUME NEW v \in 0 .. MaxDisconnects, NEW st, walkers' = [walkers EXCEPT ![v] = st],
             st = Walking \/ st.at # "walking"
      PROVE  walkers'[w] \in {walkers[w], Walking} \/ walkers'[w].at # "walking"
  BY <1>1, <1>2
<1>3. ASSUME NEW v \in 0 .. MaxDisconnects, NEW at, at # "walking",
             walkers' = [walkers EXCEPT ![v].at = at]
      PROVE  walkers'[w] \in {walkers[w], Walking} \/ walkers'[w].at # "walking"
  BY <1>3 DEF WalkInv, WalkerStates
<1>4. ASSUME Stopped PROVE walkers'[w].at # "walking"
  BY <1>1, <1>4, IdleFacts DEF Stopped
<1>5. CASE Boot \/ CatchUp \/ GoLive
  <2>1. walkers' = [walkers EXCEPT ![0] = Walking] \/ walkers' = [walkers EXCEPT ![0] = Idle]
    BY <1>5 DEF Boot, CatchUp, GoLive
  <2>2. 0 \in 0 .. MaxDisconnects
    BY IndexerAssumption
  <2>3. QED
    BY <1>2, <2>1, <2>2, IdleFacts
<1>6. CASE Stage5
  <2>1. walkers' = [walkers EXCEPT ![0] = [Idle EXCEPT !.at = "catch-up"]]
    BY <1>6 DEF Stage5, OpenSubs
  <2>2. [Idle EXCEPT !.at = "catch-up"].at # "walking"
    BY DEF Idle
  <2>3. 0 \in 0 .. MaxDisconnects
    BY IndexerAssumption
  <2>4. QED
    BY <1>2, <2>1, <2>2, <2>3
<1>7. CASE Reconnect
  <2>1. walkers' = [walkers EXCEPT ![faults.disconnects].at = "probing"]
    BY <1>7 DEF Reconnect
  <2>2. CASE faults.disconnects \in 0 .. MaxDisconnects
    BY <1>3, <2>1, <2>2
  <2>3. CASE faults.disconnects \notin 0 .. MaxDisconnects
    BY <1>1, <2>1, <2>3 DEF WalkInv
  <2>4. QED
    BY <2>2, <2>3
<1>8. ASSUME NEW v \in DOMAIN walkers, Walk(v), ~CommitBatch(v)
      PROVE  walkers'[w] \in {walkers[w], Walking} \/ walkers'[w].at # "walking"
  <2>1. \/ Stopped
        \/ walkers' = [walkers EXCEPT ![v].at = "opening"]
        \/ walkers' = [walkers EXCEPT ![v] = Walking]
        \/ walkers' = [walkers EXCEPT ![v] = Idle]
    BY <1>8 DEF Walk, BatchFails, OnReconnect, ProbeFails, Reopen, OpenFails, OpenSubs
  <2>2. CASE walkers' = [walkers EXCEPT ![v].at = "opening"]
    BY <1>1, <1>3, <2>2
  <2>3. CASE walkers' = [walkers EXCEPT ![v] = Walking]
    BY <1>1, <1>2, <2>3
  <2>4. CASE walkers' = [walkers EXCEPT ![v] = Idle]
    BY <1>1, <1>2, <2>4, IdleFacts
  <2>5. QED
    BY <1>4, <2>1, <2>2, <2>3, <2>4
<1>9. CASE UNCHANGED walkers
  BY <1>9
<1>10. QED
  BY <1>1, <1>4, <1>5, <1>6, <1>7, <1>8, <1>9, ElsewhereWalk

LEMMA ElsewhereCopy ==
  ASSUME Next
  PROVE  \/ \E w \in DOMAIN walkers : CommitBatch(w)
         \/ dispatched' = TRUE
         \/ UNCHANGED <<log, watermark, dispatched>>
BY DEF Next, Chain, NewBlock, Reorg, Finalize, Walk, Handle, Boot, Stage5, CatchUp, CatchUpFails,
       GoLive, Crash, Disconnect, Reconnect, BatchFails, OnReconnect, ProbeFails, Reopen,
       OpenFails, Push, PushFails, HeaderFound, HeaderFails, Dispatch, DispatchFails, db

LEMMA CopyInvariance ==
  ASSUME ChainInv, LiveInv, StoreInv, WalkInv, CopyInv, [Next]_indexerVars
  PROVE  CopyInv'
<1>1. CASE UNCHANGED indexerVars
  BY <1>1 DEF indexerVars, node, process, db, CopyInv, LogIsChain, AllLogged, logged
<1>2. CASE Next
  <2>1. ASSUME NEW v \in 0 .. MaxDisconnects, CommitBatch(v) PROVE CopyInv'
    BY <2>1, CommitBatchCopy
  <2>2. CASE dispatched' = TRUE
    BY <2>2 DEF CopyInv
  <2>3. ASSUME UNCHANGED <<log, watermark, dispatched>>, ~dispatched,
               ~\E v \in 0 .. MaxDisconnects : CommitBatch(v)
        PROVE  CopyInv'
    <3>1. /\ LogIsChain
          /\ \A v \in 0 .. MaxDisconnects :
               walkers[v].at = "walking" => walkers[v].next <= watermark + 1
      BY <2>3 DEF CopyInv
    <3>2. /\ watermark \in Nat /\ watermark <= finalized /\ finalized \in Nat
          /\ \A k \in 1 .. finalized : chain'[k] = chain[k]
      BY <1>2, FinalStays, LenProperties DEF ChainInv, LiveInv, StoreInv, FinalKept
    <3>3. AllLogged(watermark)'
      <4> SUFFICES ASSUME NEW k \in 1 .. watermark' PROVE logged(chain'[k]) \subseteq log'
        BY DEF AllLogged, logged
      <4>1. k \in 1 .. watermark /\ k \in 1 .. finalized
        BY <2>3, <3>2
      <4>2. logged(chain[k]) \subseteq log
        BY <3>1, <4>1 DEF LogIsChain, AllLogged
      <4>3. QED
        BY <2>3, <3>2, <4>1, <4>2
    <3>4. \A entry \in log' : entry.block = chain'[entry.block.number]
      <4> SUFFICES ASSUME NEW entry \in log PROVE entry.block = chain'[entry.block.number]
        BY <2>3
      <4>1. entry.block \in UpTo(finalized) /\ entry.block = chain[entry.block.number]
        BY <3>1 DEF StoreInv, LogIsChain
      <4>2. entry.block.number \in 1 .. finalized
        BY <3>2, <4>1 DEF UpTo, Blocks
      <4>3. QED
        BY <3>2, <4>1, <4>2
    <3>5. ASSUME NEW v \in 0 .. MaxDisconnects, walkers'[v].at = "walking"
          PROVE  walkers'[v].next <= watermark' + 1
      <4>1. walkers'[v] \in {walkers[v], Walking}
        BY <1>2, <2>3, <3>5, WalksBegin
      <4>2. Walking.next <= watermark + 1
        BY <3>2 DEF Walking, walkFrom
      <4>3. QED
        BY <2>3, <3>1, <3>5, <4>1, <4>2
    <3>6. QED
      BY <3>3, <3>4, <3>5 DEF CopyInv, LogIsChain
  <2>4. CASE dispatched /\ UNCHANGED dispatched
    BY <2>4 DEF CopyInv
  <2>5. QED
    BY <1>2, <2>1, <2>2, <2>3, <2>4, ElsewhereCopy DEF WalkInv
<1>3. QED
  BY <1>1, <1>2

-------------------------------------------------------------------------------
(* The events of the first blocks of a chain.                                 *)

\* The recursive function by which FlattenSeq is defined.
Flattens(g, s, n) == g = [i \in 1 .. n |-> IF i = 1 THEN s[i] ELSE g[i - 1] \o s[i]]

LEMMA FlattensAt ==
  ASSUME NEW g, NEW s, NEW n \in Nat, Flattens(g, s, n), NEW i \in 1 .. n
  PROVE  g[i] = IF i = 1 THEN s[i] ELSE g[i - 1] \o s[i]
<1> DEFINE Rule(j) == IF j = 1 THEN s[j] ELSE g[j - 1] \o s[j]
<1>1. g = [j \in 1 .. n |-> Rule(j)]
  BY DEF Flattens
<1>2. \A j : Rule(j) = IF j = 1 THEN s[j] ELSE g[j - 1] \o s[j]
  OBVIOUS
<1> HIDE DEF Rule
<1>3. g[i] = Rule(i)
  BY <1>1
<1>4. QED
  BY <1>2, <1>3

LEMMA FlattensExists == \A s : \A n \in Nat : \E g : Flattens(g, s, n)
<1>1. TAKE s
<1> DEFINE Has == {n \in Nat : \E g : Flattens(g, s, n)}
<1>2. 0 \in Has
  <2>1. Flattens([i \in 1 .. 0 |-> i], s, 0)
    BY DEF Flattens
  <2>2. QED
    BY <2>1
<1>3. ASSUME NEW n \in Nat, n \in Has PROVE n + 1 \in Has
  <2>1. PICK g : Flattens(g, s, n)
    BY <1>3
  <2> DEFINE h == [i \in 1 .. n + 1 |->
                     IF i <= n THEN g[i] ELSE IF i = 1 THEN s[i] ELSE g[n] \o s[i]]
  <2>2. ASSUME NEW i \in 1 .. n + 1
        PROVE  h[i] = IF i = 1 THEN s[i] ELSE h[i - 1] \o s[i]
    <3>1. CASE i = n + 1
      <4>1. i - 1 = n /\ ~(i <= n) /\ (i # 1 => n \in 1 .. n + 1 /\ n <= n)
        BY <3>1
      <4>2. i # 1 => h[i - 1] = g[n]
        BY <4>1
      <4>3. QED
        BY <4>1, <4>2
    <3>2. CASE i # n + 1
      <4>1. i \in 1 .. n /\ (i # 1 => i - 1 \in 1 .. n /\ i - 1 \in 1 .. n + 1)
        BY <3>2
      <4>2. h[i] = g[i] /\ (i # 1 => h[i - 1] = g[i - 1])
        BY <4>1
      <4>3. g[i] = IF i = 1 THEN s[i] ELSE g[i - 1] \o s[i]
        BY <2>1, <4>1 DEF Flattens
      <4>4. QED
        BY <4>2, <4>3
    <3>3. QED
      BY <3>1, <3>2
  <2>3. Flattens(h, s, n + 1)
    <3>1. h = [i \in 1 .. n + 1 |-> h[i]]
      OBVIOUS
    <3> HIDE DEF h
    <3>2. QED
      BY <2>2, <3>1 DEF Flattens
  <2>4. QED
    BY <2>3
<1> HIDE DEF Has
<1>4. \A n \in Nat : n \in Has
  BY <1>2, <1>3, StepInduction
<1>5. QED
  BY <1>4 DEF Has

Alike(s, t, n) == \A i \in 1 .. n : s[i] = t[i]

\* A function that flattens s also flattens, as far as it goes, what extends s.
LEMMA FlattensAgree ==
  ASSUME NEW s, NEW t, NEW n \in Nat, NEW m \in Nat, n <= m,
         Alike(s, t, n),
         NEW g, Flattens(g, s, n), NEW h, Flattens(h, t, m)
  PROVE  Alike(g, h, n)
<1> DEFINE Same == {i \in Nat : i \in 1 .. n => g[i] = h[i]}
<1>1. 0 \in Same
  OBVIOUS
<1>2. ASSUME NEW i \in Nat, i \in Same PROVE i + 1 \in Same
  <2>1. SUFFICES ASSUME i + 1 \in 1 .. n PROVE g[i + 1] = h[i + 1]
    OBVIOUS
  <2>2. i + 1 \in 1 .. m /\ i + 1 - 1 = i /\ s[i + 1] = t[i + 1]
    BY <2>1 DEF Alike
  <2>3. /\ g[i + 1] = IF i + 1 = 1 THEN s[i + 1] ELSE g[i] \o s[i + 1]
        /\ h[i + 1] = IF i + 1 = 1 THEN t[i + 1] ELSE h[i] \o t[i + 1]
    <3>1. i + 1 \in 1 .. n
      BY <2>1
    <3> PICK k : k = i + 1 /\ k \in 1 .. n /\ k \in 1 .. m /\ k - 1 = i
      BY <2>2, <3>1
    <3>2. g[k] = IF k = 1 THEN s[k] ELSE g[k - 1] \o s[k]
      BY FlattensAt
    <3>3. h[k] = IF k = 1 THEN t[k] ELSE h[k - 1] \o t[k]
      BY FlattensAt
    <3>4. QED
      BY <3>2, <3>3
  <2>4. CASE i + 1 = 1
    BY <2>2, <2>3, <2>4
  <2>5. CASE i + 1 # 1
    <3>1. i \in 1 .. n
      BY <2>1, <2>5
    <3>2. g[i] = h[i]
      BY <1>2, <3>1
    <3>3. QED
      BY <2>2, <2>3, <3>2
  <2>6. QED
    BY <2>4, <2>5
<1> HIDE DEF Same
<1>3. \A i \in Nat : i \in Same
  BY <1>1, <1>2, StepInduction
<1>4. QED
  BY <1>3 DEF Same, Alike

\* One block more adds its events at the end.
LEMMA FlattenAppend ==
  ASSUME NEW T, NEW s \in Seq(Seq(T)), NEW e \in Seq(T), FlattenSeq(s) \in Seq(T)
  PROVE  FlattenSeq(Append(s, e)) = FlattenSeq(s) \o e
<1> DEFINE n == Len(s)
           t == Append(s, e)
<1>1. /\ n \in Nat /\ t \in Seq(Seq(T)) /\ Len(t) = n + 1
      /\ \A i \in 1 .. n : t[i] = s[i]
      /\ t[n + 1] = e
  BY AppendProperties, LenProperties
<1> HIDE DEF t
<1>2. PICK h : Flattens(h, t, n + 1) /\ FlattenSeq(t) = h[n + 1]
  <2>1. \E h : Flattens(h, t, n + 1)
    <3>1. n + 1 \in Nat
      BY <1>1
    <3>2. QED
      BY <3>1, FlattensExists
  <2>2. FlattenSeq(t) = (CHOOSE h : Flattens(h, t, n + 1))[n + 1]
    BY <1>1 DEF FlattenSeq, Flattens
  <2>3. QED
    BY <2>1, <2>2
<1>3. h[n + 1] = IF n + 1 = 1 THEN e ELSE h[n] \o e
  <2> PICK k : k = n + 1 /\ k \in Nat /\ k \in 1 .. k /\ k - 1 = n
    BY <1>1
  <2>1. h[k] = IF k = 1 THEN t[k] ELSE h[k - 1] \o t[k]
    BY <1>2, FlattensAt
  <2>2. QED
    BY <1>1, <2>1
<1>4. CASE n = 0
  <2>1. s = <<>>
    BY <1>4, EmptySeq
  <2>2. FlattenSeq(s) = <<>>
    BY <1>4, <2>1 DEF FlattenSeq
  <2>3. <<>> \o e = e
    BY ConcatEmptySeq
  <2>4. QED
    BY <1>2, <1>3, <1>4, <2>2, <2>3 DEF t
<1>5. CASE n # 0
  <2>1. PICK g : Flattens(g, s, n) /\ FlattenSeq(s) = g[n]
    <3>1. \E g : Flattens(g, s, n)
      BY <1>1, FlattensExists
    <3>2. FlattenSeq(s) = (CHOOSE g : Flattens(g, s, n))[n]
      BY <1>5 DEF FlattenSeq, Flattens
    <3>3. QED
      BY <3>1, <3>2
  <2>2. n \in 1 .. n /\ n <= n + 1 /\ n + 1 \in Nat
    BY <1>1, <1>5
  <2>3. g[n] = h[n]
    <3>1. Alike(s, t, n)
      BY <1>1 DEF Alike
    <3> HIDE DEF n
    <3> PICK m : m = n + 1 /\ m \in Nat /\ n <= m
      BY <1>1
    <3>2. Flattens(h, t, m) /\ Flattens(g, s, n)
      BY <1>2, <2>1
    <3> HIDE DEF t
    <3>4. Alike(g, h, n)
      <4>1. n \in Nat /\ n <= m /\ m \in Nat
        BY <1>1
      <4>2. QED
        BY <3>1, <3>2, <4>1, FlattensAgree
    <3>3. QED
      BY <2>2, <3>4 DEF Alike
  <2>4. QED
    BY <1>1, <1>2, <1>3, <1>5, <2>1, <2>3 DEF t
<1>6. QED
  BY <1>4, <1>5

LEMMA BlockEvents == \A block \in Blocks : block.events \in Seq(EventNames)
<1>1. TAKE block \in Blocks
<1>2. block.events \in SeqOf(EventNames, PerBlock)
  BY DEF Blocks
<1>3. block.events \in UNION {[1 .. m -> EventNames] : m \in 0 .. PerBlock}
  BY <1>2 DEF SeqOf
<1>4. PICK m \in 0 .. PerBlock : block.events \in [1 .. m -> EventNames]
  BY <1>3
<1>5. m \in Nat
  BY IndexerAssumption
<1>6. QED
  BY <1>4, <1>5, SeqDef

LEMMA EventsBlockByBlock ==
  ASSUME NEW c \in Seq(Blocks)
  PROVE  /\ EventsTo(c, 0) = <<>>
         /\ \A n \in 0 .. Len(c) : EventsTo(c, n) \in Seq(EventNames)
         /\ \A n \in 1 .. Len(c) :
              EventsTo(c, n) = EventsTo(c, n - 1) \o c[n].events
<1> DEFINE lists(n) == [k \in DOMAIN SubSeq(c, 1, n) |-> SubSeq(c, 1, n)[k].events]
<1>1. Len(c) \in Nat
  BY LenProperties
<1>2. \A k \in 1 .. Len(c) : c[k] \in Blocks /\ c[k].events \in Seq(EventNames)
  <2>1. QED
    BY BlockEvents, ElementOfSeq
<1>3. ASSUME NEW n \in 0 .. Len(c)
      PROVE  /\ lists(n) \in Seq(Seq(EventNames)) /\ Len(lists(n)) = n
             /\ \A k \in 1 .. n : lists(n)[k] = c[k].events
  <2>1. /\ SubSeq(c, 1, n) \in Seq(Blocks)
        /\ Len(SubSeq(c, 1, n)) = IF 1 <= n THEN n - 1 + 1 ELSE 0
        /\ \A k \in 1 .. n - 1 + 1 : SubSeq(c, 1, n)[k] = c[1 + k - 1]
    <3>1. \A i \in 1 .. n : c[i] \in Blocks
      BY <1>1, <1>2
    <3>2. QED
      BY <1>1, <3>1, SubSeqProperties
  <2>2. DOMAIN SubSeq(c, 1, n) = 1 .. n
    <3>1. Len(SubSeq(c, 1, n)) = n
      BY <1>1, <2>1
    <3>2. QED
      BY <2>1, <3>1, LenProperties
  <2>3. \A k \in 1 .. n : SubSeq(c, 1, n)[k] = c[k]
    <3>1. TAKE k \in 1 .. n
    <3>2. k \in 1 .. n - 1 + 1 /\ 1 + k - 1 = k
      BY <1>1
    <3>3. QED
      BY <2>1, <3>2
  <2>4. lists(n) \in [1 .. n -> Seq(EventNames)]
    BY <1>1, <1>2, <2>2, <2>3
  <2>5. lists(n) \in Seq(Seq(EventNames)) /\ Len(lists(n)) = n
    <3>1. n \in Nat /\ DOMAIN lists(n) = 1 .. n
      BY <1>1, <2>2
    <3> HIDE DEF lists
    <3>2. lists(n) \in Seq(Seq(EventNames))
      BY <2>4, <3>1, SeqDef
    <3>3. Len(lists(n)) \in Nat /\ DOMAIN lists(n) = 1 .. Len(lists(n))
      BY <3>2, LenProperties
    <3>4. QED
      BY <3>1, <3>2, <3>3
  <2>6. QED
    BY <2>2, <2>3, <2>5
<1>4. \A n : EventsTo(c, n) = FlattenSeq(lists(n))
  BY DEF EventsTo, EventsOf
<1> HIDE DEF lists
<1>5. EventsTo(c, 0) = <<>>
  <2>1. lists(0) \in Seq(Seq(EventNames)) /\ Len(lists(0)) = 0
    BY <1>1, <1>3
  <2>2. lists(0) = <<>>
    BY <2>1, EmptySeq
  <2>3. FlattenSeq(lists(0)) = <<>>
    BY <2>1, <2>2 DEF FlattenSeq
  <2>4. QED
    BY <1>4, <2>3
<1>6. ASSUME NEW n \in 1 .. Len(c), EventsTo(c, n - 1) \in Seq(EventNames)
      PROVE  EventsTo(c, n) = EventsTo(c, n - 1) \o c[n].events
  <2>1. n \in 0 .. Len(c) /\ n - 1 \in 0 .. Len(c) /\ n \in Nat /\ n - 1 \in Nat
    BY <1>1
  <2>2. /\ lists(n) \in Seq(Seq(EventNames)) /\ Len(lists(n)) = n
        /\ \A k \in 1 .. n : lists(n)[k] = c[k].events
        /\ lists(n - 1) \in Seq(Seq(EventNames)) /\ Len(lists(n - 1)) = n - 1
        /\ \A k \in 1 .. n - 1 : lists(n - 1)[k] = c[k].events
    BY <1>3, <2>1
  <2>3. /\ Append(lists(n - 1), c[n].events) \in Seq(Seq(EventNames))
        /\ Len(Append(lists(n - 1), c[n].events)) = n
        /\ \A k \in 1 .. n - 1 : Append(lists(n - 1), c[n].events)[k] = lists(n - 1)[k]
        /\ Append(lists(n - 1), c[n].events)[n] = c[n].events
    <3>1. c[n].events \in Seq(EventNames)
      BY <1>2
    <3>2. /\ Append(lists(n - 1), c[n].events) \in Seq(Seq(EventNames))
          /\ Len(Append(lists(n - 1), c[n].events)) = n - 1 + 1
          /\ \A k \in 1 .. n - 1 : Append(lists(n - 1), c[n].events)[k] = lists(n - 1)[k]
          /\ Append(lists(n - 1), c[n].events)[n - 1 + 1] = c[n].events
      BY <2>2, <3>1, AppendProperties
    <3>3. n - 1 + 1 = n
      BY <2>1
    <3>4. QED
      BY <3>2, <3>3
  <2>4. lists(n) = Append(lists(n - 1), c[n].events)
    <3>1. \A k \in 1 .. n : k \in 1 .. n - 1 \/ k = n
      BY <2>1
    <3>2. \A k \in 1 .. n : lists(n)[k] = Append(lists(n - 1), c[n].events)[k]
      BY <2>2, <2>3, <3>1
    <3>3. QED
      BY <2>2, <2>3, <3>2, SeqEqual
  <2>5. c[n].events \in Seq(EventNames) /\ FlattenSeq(lists(n - 1)) \in Seq(EventNames)
    BY <1>2, <1>4, <1>6
  <2>6. FlattenSeq(Append(lists(n - 1), c[n].events)) = FlattenSeq(lists(n - 1)) \o c[n].events
    BY <2>2, <2>5, FlattenAppend
  <2>7. QED
    BY <1>4, <2>4, <2>6
<1>7. \A n \in 0 .. Len(c) : EventsTo(c, n) \in Seq(EventNames)
  <2> DEFINE Typed == {n \in Nat : n <= Len(c) => EventsTo(c, n) \in Seq(EventNames)}
  <2>1. 0 \in Typed
    BY <1>5, EmptySeq
  <2>2. ASSUME NEW n \in Nat, n \in Typed PROVE n + 1 \in Typed
    <3>1. SUFFICES ASSUME n + 1 <= Len(c) PROVE EventsTo(c, n + 1) \in Seq(EventNames)
      OBVIOUS
    <3>2. n + 1 \in 1 .. Len(c) /\ n + 1 - 1 = n /\ EventsTo(c, n) \in Seq(EventNames)
      BY <1>1, <2>2, <3>1
    <3> PICK k : k = n + 1 /\ k \in 1 .. Len(c) /\ k - 1 = n
      BY <3>2
    <3>3. EventsTo(c, k) = EventsTo(c, k - 1) \o c[k].events
      BY <1>6, <3>2
    <3>4. QED
      <4>1. c[k].events \in Seq(EventNames) /\ EventsTo(c, k - 1) \in Seq(EventNames)
        BY <1>2, <3>2
      <4>2. EventsTo(c, k - 1) \o c[k].events \in Seq(EventNames)
        BY <4>1, ConcatProperties
      <4>3. EventsTo(c, k) \in Seq(EventNames)
        BY <3>3, <4>2
      <4>4. QED
        BY <4>3
  <2> HIDE DEF Typed
  <2>3. \A n \in Nat : n \in Typed
    BY <2>1, <2>2, StepInduction
  <2>4. QED
    BY <1>1, <2>3 DEF Typed
<1>8. ASSUME NEW n \in 1 .. Len(c) PROVE EventsTo(c, n) = EventsTo(c, n - 1) \o c[n].events
  <2>1. n - 1 \in 0 .. Len(c)
    BY <1>1
  <2>2. QED
    BY <1>6, <1>7, <2>1
<1>9. QED
  BY <1>5, <1>7, <1>8

\* Chains that agree up to a block have the same events up to it.
LEMMA SamePrefix ==
  ASSUME NEW c \in Seq(Blocks), NEW d \in Seq(Blocks), NEW n \in Nat,
         n <= Len(c), n <= Len(d), \A k \in 1 .. n : c[k] = d[k]
  PROVE  SubSeq(c, 1, n) = SubSeq(d, 1, n)
<1>1. Len(c) \in Nat /\ Len(d) \in Nat
  BY LenProperties
<1>2. /\ \A i \in 1 .. n : c[i] \in Blocks
      /\ \A i \in 1 .. n : d[i] \in Blocks
  BY <1>1, ElementOfSeq
<1>3. /\ SubSeq(c, 1, n) \in Seq(Blocks)
      /\ Len(SubSeq(c, 1, n)) = IF 1 <= n THEN n - 1 + 1 ELSE 0
      /\ \A i \in 1 .. n - 1 + 1 : SubSeq(c, 1, n)[i] = c[1 + i - 1]
  BY <1>2, SubSeqProperties
<1>4. /\ SubSeq(d, 1, n) \in Seq(Blocks)
      /\ Len(SubSeq(d, 1, n)) = IF 1 <= n THEN n - 1 + 1 ELSE 0
      /\ \A i \in 1 .. n - 1 + 1 : SubSeq(d, 1, n)[i] = d[1 + i - 1]
  BY <1>2, SubSeqProperties
<1>5. Len(SubSeq(c, 1, n)) = n /\ Len(SubSeq(d, 1, n)) = n
  BY <1>3, <1>4
<1>6. ASSUME NEW i \in 1 .. n PROVE SubSeq(c, 1, n)[i] = SubSeq(d, 1, n)[i]
  <2>1. i \in 1 .. n - 1 + 1 /\ 1 + i - 1 = i
    OBVIOUS
  <2>2. QED
    BY <1>3, <1>4, <2>1
<1>7. QED
  BY <1>3, <1>4, <1>5, <1>6, SeqEqual

LEMMA WholePrefix ==
  ASSUME NEW c \in Seq(Blocks)
  PROVE  EventsTo(c, Len(c)) = EventsOf(c)
<1>1. Len(c) \in Nat /\ \A i \in 1 .. Len(c) : c[i] \in Blocks
  BY LenProperties, ElementOfSeq
<1>2. /\ SubSeq(c, 1, Len(c)) \in Seq(Blocks)
      /\ Len(SubSeq(c, 1, Len(c))) = IF 1 <= Len(c) THEN Len(c) - 1 + 1 ELSE 0
      /\ \A i \in 1 .. Len(c) - 1 + 1 : SubSeq(c, 1, Len(c))[i] = c[1 + i - 1]
  BY <1>1, SubSeqProperties
<1>3. Len(SubSeq(c, 1, Len(c))) = Len(c)
  BY <1>1, <1>2
<1>4. ASSUME NEW i \in 1 .. Len(c) PROVE SubSeq(c, 1, Len(c))[i] = c[i]
  <2>1. i \in 1 .. Len(c) - 1 + 1 /\ 1 + i - 1 = i
    BY <1>1
  <2>2. QED
    BY <1>2, <2>1
<1>5. SubSeq(c, 1, Len(c)) = c
  BY <1>2, <1>3, <1>4, SeqEqual
<1>6. QED
  BY <1>5 DEF EventsTo

LEMMA LegalPrefix ==
  ASSUME NEW c \in Seq(Blocks), NEW d \in Seq(Blocks), LegalOn(c), Len(d) <= Len(c),
         \A k \in 1 .. Len(d) : d[k] = c[k]
  PROVE  LegalOn(d)
<1>1. Len(c) \in Nat /\ Len(d) \in Nat
  BY LenProperties
<1>2. ASSUME NEW k \in 1 .. Len(d), Len(d[k].events) = 1
      PROVE  d[k].events[1] \in CanFollow(EventsTo(d, k - 1))
  <2>1. k \in 1 .. Len(c) /\ d[k] = c[k]
    BY <1>1
  <2>2. c[k].events[1] \in CanFollow(EventsTo(c, k - 1))
    BY <1>2, <2>1 DEF LegalOn
  <2>3. /\ k - 1 \in Nat /\ k - 1 <= Len(c) /\ k - 1 <= Len(d)
        /\ \A i \in 1 .. k - 1 : c[i] = d[i]
    BY <1>1
  <2>4. SubSeq(c, 1, k - 1) = SubSeq(d, 1, k - 1)
    BY <2>3, SamePrefix
  <2>5. QED
    BY <2>1, <2>2, <2>4 DEF EventsTo
<1>3. QED
  BY <1>2 DEF LegalOn

LEMMA LegalChild ==
  ASSUME NEW c \in Seq(Blocks), LegalOn(c), NEW fork, NEW block \in Children(c, fork),
         block \in Blocks
  PROVE  LegalOn(Append(c, block))
<1> DEFINE d == Append(c, block)
           n == Len(c)
<1>1. /\ n \in Nat /\ d \in Seq(Blocks) /\ Len(d) = n + 1
      /\ \A k \in 1 .. n : d[k] = c[k]
      /\ d[n + 1] = block
  BY LenProperties, AppendProperties
<1>2. EventsOf(c) \in Seq(EventNames)
  <2>1. Len(c) \in 0 .. Len(c)
    BY <1>1
  <2>2. EventsTo(c, Len(c)) \in Seq(EventNames)
    BY <2>1, EventsBlockByBlock
  <2>3. QED
    BY <2>2, WholePrefix
<1> HIDE DEF d
<1>3. ASSUME NEW k \in 1 .. n + 1, Len(d[k].events) = 1
      PROVE  d[k].events[1] \in CanFollow(EventsTo(d, k - 1))
  <2>1. /\ k - 1 \in Nat /\ k - 1 <= Len(c) /\ k - 1 <= Len(d)
        /\ \A i \in 1 .. k - 1 : c[i] = d[i]
    BY <1>1
  <2>2. EventsTo(d, k - 1) = EventsTo(c, k - 1)
    BY <1>1, <2>1, SamePrefix DEF EventsTo
  <2>3. CASE k <= n
    <3>1. k \in 1 .. n
      BY <1>1, <2>3
    <3>2. QED
      BY <1>1, <1>3, <2>2, <3>1 DEF LegalOn
  <2>4. CASE k = n + 1
    <3>1. d[k] = block /\ k - 1 = n
      BY <1>1, <2>4
    <3>2. 1 \in DOMAIN block.events
      <4>1. block.events \in Seq(EventNames)
        BY BlockEvents
      <4>2. QED
        BY <1>3, <3>1, <4>1, LenProperties
    <3>3. block.events[1] \in CanFollow(EventsOf(c) \o SubSeq(block.events, 1, 1 - 1))
      BY <3>2 DEF Children
    <3>4. SubSeq(block.events, 1, 1 - 1) = <<>>
      <4>1. block.events \in Seq(EventNames)
        BY BlockEvents
      <4>2. 1 - 1 = 0 /\ \A i \in 1 .. 0 : block.events[i] \in EventNames
        OBVIOUS
      <4>3. SubSeq(block.events, 1, 0) \in Seq(EventNames) /\ Len(SubSeq(block.events, 1, 0)) = 0
        BY <4>1, <4>2, SubSeqProperties
      <4>4. QED
        BY <4>2, <4>3, EmptySeq
    <3>5. EventsOf(c) \o <<>> = EventsOf(c)
      BY <1>2, ConcatEmptySeq
    <3>6. QED
      BY <2>2, <3>1, <3>3, <3>4, <3>5, WholePrefix
  <2>5. QED
    BY <1>1, <2>3, <2>4
<1>4. LegalOn(d)
  BY <1>1, <1>3 DEF LegalOn
<1>5. QED
  BY <1>4 DEF d

LEMMA NoEventOnRow ==
  ASSUME NEW r, NEW block, block.events = <<>>
  PROVE  project(r, block) = r
<1>1. DOMAIN block.events = 1 .. 0
  OBVIOUS
<1>2. PICK g : EventByEvent(g, r, block, 0)
  BY <1>1, ProjectSteps
<1>3. QED
  BY <1>2 DEF EventByEvent

LEMMA OneEventOnRow ==
  ASSUME NEW r, NEW block, block.events \in Seq(EventNames), Len(block.events) = 1
  PROVE  project(r, block) = projectEvent(r, block.events[1], block.number)
<1>1. DOMAIN block.events = 1 .. 1
  BY LenProperties
<1>2. PICK g : EventByEvent(g, r, block, 1)
  BY <1>1, ProjectSteps
<1>3. 1 \in 1 .. 1 /\ 1 - 1 = 0
  OBVIOUS
<1>4. QED
  BY <1>2, <1>3 DEF EventByEvent

LEMMA LegalStatus ==
  ASSUME NEW E, E # <<>>, NEW e \in CanFollow(E)
  PROVE  /\ e # "BountyPosted"
         /\ e = "BountyWithdrawn" => StatusAfter[Last(E)] = StatusAfter[e]
<1> DEFINE l == Last(E)
<1>1. CanFollow(E) =
        CASE l = "BountyPosted" ->
              {"BountyClaimed", "BountyCancelled", "BountyTimedOut", "BountyRevoked"}
         [] l = "BountyClaimed" ->
              {"BountySubmitted", "BountyTimedOut", "BountyRevoked"}
         [] l = "BountySubmitted" ->
              {"BountyAccepted", "BountyRejected", "BountyTimedOut", "BountyRevoked"}
         [] l = "BountyAccepted" -> {"BountyWithdrawn", "BountyRevoked"}
         [] l = "BountyRevoked" -> {}
         [] OTHER -> {"BountyRevoked"}
  BY DEF CanFollow
<1> HIDE DEF l
<1>2. e # "BountyPosted"
  BY <1>1
<1>3. e = "BountyWithdrawn" => l = "BountyAccepted"
  BY <1>1
<1>4. StatusAfter["BountyAccepted"] = "Accepted" /\ StatusAfter["BountyWithdrawn"] = "Accepted"
  BY DEF StatusAfter
<1>5. QED
  BY <1>2, <1>3, <1>4 DEF l

\* Ingesting a block that is at most one ahead of the row keeps the row true.
LEMMA BlockAsOf ==
  ASSUME NEW c \in Seq(Blocks), LegalOn(c), NEW n \in 0 .. Len(c), NEW k \in 1 .. n + 1,
         k <= Len(c), c[k].number = k, Len(c[k].events) <= 1, NEW r, AsOf(r, c, n)
  PROVE  AsOf(project(r, c[k]), c, IF k = n + 1 THEN n + 1 ELSE n)
<1> DEFINE ev == c[k].events
           E == EventsTo(c, n)
<1>1. /\ Len(c) \in Nat /\ n \in Nat /\ k \in 1 .. Len(c) /\ c[k] \in Blocks
      /\ ev \in Seq(EventNames) /\ Len(ev) \in Nat
      /\ r.last_event_block \in Nat /\ r.last_event_block <= n
  BY LenProperties, ElementOfSeq, BlockEvents DEF AsOf
<1>2. E \in Seq(EventNames)
  BY <1>1, EventsBlockByBlock
<1>3. CASE Len(ev) = 0
  <2>1. ev = <<>>
    BY <1>1, <1>3, EmptySeq
  <2>2. project(r, c[k]) = r
    BY <2>1, NoEventOnRow
  <2>3. CASE k = n + 1
    <3>1. EventsTo(c, k) = EventsTo(c, k - 1) \o ev /\ k - 1 = n
      <4>1. EventsTo(c, k) = EventsTo(c, k - 1) \o ev
        BY <1>1, EventsBlockByBlock
      <4>2. k - 1 = n
        BY <1>1, <2>3
      <4>3. QED
        BY <4>1, <4>2
    <3>2. EventsTo(c, k) = E
      BY <1>2, <2>1, <3>1, ConcatEmptySeq
    <3>3. r.last_event_block \in 0 .. k
      BY <1>1, <2>3
    <3>4. ASSUME NEW j \in 1 .. k, c[j].events # <<>> PROVE j <= r.last_event_block
      <4>1. j \in 1 .. n
        BY <1>1, <2>1, <2>3, <3>4
      <4>2. QED
        BY <3>4, <4>1 DEF AsOf
    <3>5. AsOf(r, c, k)
      BY <3>2, <3>3, <3>4 DEF AsOf
    <3>6. QED
      BY <2>2, <2>3, <3>5
  <2>4. QED
    BY <2>2, <2>3
<1>4. CASE Len(ev) = 1
  <2>1. ev # <<>> /\ project(r, c[k]) = projectEvent(r, ev[1], k)
    BY <1>1, <1>4, OneEventOnRow, EmptySeq
  <2>2. CASE k \in 1 .. n
    <3>1. k <= r.last_event_block
      BY <2>1, <2>2 DEF AsOf
    <3>2. r # NoRow /\ ~newer(r, k)
      BY <1>1, <3>1 DEF NoRow, newer
    <3>3. project(r, c[k]) = r
      BY <2>1, <3>2 DEF projectEvent
    <3>4. k # n + 1
      BY <1>1, <2>2
    <3>5. QED
      BY <3>3, <3>4
  <2>3. CASE k = n + 1
    <3> DEFINE e == ev[1]
               s == projectEvent(r, e, k)
    <3>1. /\ EventsTo(c, k) = E \o ev /\ e \in CanFollow(E)
          /\ newer(r, k)
      <4>1. k - 1 = n
        BY <1>1, <2>3
      <4>2. EventsTo(c, k) = EventsTo(c, k - 1) \o ev
        BY <1>1, EventsBlockByBlock
      <4>3. e \in CanFollow(EventsTo(c, k - 1))
        BY <1>1, <1>4 DEF LegalOn
      <4>4. newer(r, k)
        BY <1>1, <2>3 DEF newer
      <4>5. QED
        BY <4>1, <4>2, <4>3, <4>4
    <3>2. EventsTo(c, k) # <<>> /\ Last(EventsTo(c, k)) = e
      <4>1. /\ Len(E \o ev) = Len(E) + Len(ev) /\ E \o ev \in Seq(EventNames)
            /\ \A i \in 1 .. Len(E) + Len(ev) :
                 (E \o ev)[i] = IF i <= Len(E) THEN E[i] ELSE ev[i - Len(E)]
        BY <1>1, <1>2, ConcatProperties
      <4>2. Len(E) \in Nat
        BY <1>2, LenProperties
      <4> HIDE DEF E, ev
      <4>3. Len(E) + 1 \in 1 .. Len(E) + Len(ev) /\ ~(Len(E) + 1 <= Len(E))
            /\ Len(E) + 1 - Len(E) = 1
        BY <1>4, <4>2
      <4>4. (E \o ev)[Len(E) + 1] = ev[1] /\ Len(E \o ev) = Len(E) + 1
        BY <1>4, <4>1, <4>3
      <4>5. E \o ev # <<>>
        BY <4>1, <4>2, <4>4, EmptySeq
      <4>6. QED
        BY <3>1, <4>4, <4>5 DEF Last
    <3>3. s.status = StatusAfter[e] /\ s.last_event_block = k
      <4>1. CASE E = <<>>
        <5>1. e = "BountyPosted"
          BY <3>1, <4>1 DEF CanFollow
        <5>2. r = NoRow
          BY <4>1 DEF AsOf
        <5>3. s = [status |-> "Open", last_event_block |-> k]
          BY <5>1, <5>2 DEF projectEvent
        <5>4. StatusAfter["BountyPosted"] = "Open"
          BY DEF StatusAfter
        <5> HIDE DEF s
        <5>5. QED
          BY <5>1, <5>3, <5>4
      <4>2. CASE E # <<>>
        <5>1. r # NoRow /\ r.status = StatusAfter[Last(E)]
          BY <4>2 DEF AsOf, StatusOf
        <5>2. e # "BountyPosted" /\ (e = "BountyWithdrawn" => StatusAfter[Last(E)] = StatusAfter[e])
          <6> HIDE DEF E, e
          <6>1. QED
            BY <3>1, <4>2, LegalStatus
        <5>3. s = [status |-> IF e = "BountyWithdrawn" THEN r.status ELSE StatusAfter[e],
                   last_event_block |-> k]
          BY <3>1, <5>1, <5>2 DEF projectEvent
        <5> HIDE DEF s, e, E
        <5>4. QED
          BY <5>1, <5>2, <5>3
      <4>3. QED
        BY <4>1, <4>2
    <3> HIDE DEF s, e, E, ev
    <3>4. s # NoRow /\ s.last_event_block \in 0 .. k
      BY <1>1, <3>3 DEF NoRow
    <3>5. s.status = StatusOf(EventsTo(c, k))
      BY <3>2, <3>3 DEF StatusOf
    <3>6. AsOf(s, c, k)
      BY <3>2, <3>3, <3>4, <3>5 DEF AsOf
    <3>7. QED
      BY <2>1, <2>3, <3>6 DEF s, e
  <2>4. QED
    BY <1>1, <2>2, <2>3
<1>5. Len(ev) = 0 \/ Len(ev) = 1
  <2>1. \A l \in Nat : l <= 1 => l = 0 \/ l = 1
    OBVIOUS
  <2>2. QED
    BY <1>1, <2>1
<1>6. QED
  BY <1>3, <1>4, <1>5

LEMMA ColdBatch ==
  ASSUME ChainInv, StoreInv, WalkInv, LegalOn(chain), NEW w \in 0 .. MaxDisconnects,
         CommitBatch(w), walkers[w].next <= watermark + 1,
         AsOf(row, chain, watermark), Sparse(chain, watermark')
  PROVE  AsOf(row', chain, watermark')
<1> DEFINE from == walkers[w].next
           end == batchEnd(w)
           blocks == SubSeq(chain, from, end)
           m == end - from + 1
           upTo(k) == IF watermark < from + k - 1 THEN from + k - 1 ELSE watermark
<1>1. from \in Nat /\ from >= 1 /\ end \in from .. walkers[w].to
      /\ walkers[w].to \in Nat /\ walkers[w].to <= finalized
  BY CommitBatchFacts DEF CommitBatch, WalkInv, WalkerStates
<1>2. row' = FoldLeft(project, row, blocks)
      /\ watermark' = IF watermark < end THEN end ELSE watermark
  BY DEF CommitBatch, ingest, advanceWatermark
<1>3. /\ chain \in Seq(Blocks) /\ watermark \in Nat /\ watermark <= finalized
      /\ finalized \in Nat /\ finalized <= Len(chain) /\ Len(chain) \in Nat
      /\ \A k \in 1 .. Len(chain) : chain[k] \in Blocks /\ chain[k].number = k
  BY LenProperties, ElementOfSeq DEF ChainInv, StoreInv
<1>4. from <= watermark + 1
  OBVIOUS
<1> HIDE DEF from, end
<1>5. /\ end \in Nat /\ from <= end /\ end <= finalized /\ m \in Nat
      /\ \A k \in from .. end : k \in 1 .. Len(chain)
  BY <1>1, <1>3
<1>6. blocks \in Seq(Blocks) /\ Len(blocks) = m
      /\ \A i \in 1 .. m : blocks[i] = chain[from + i - 1]
  BY <1>1, <1>3, <1>5, SubSeqProperties
<1> HIDE DEF blocks
<1>7. DOMAIN blocks = 1 .. m
  BY <1>6, LenProperties
<1>8. PICK g : BlockByBlock(g, row, blocks, m)
  BY <1>5, <1>7, IngestSteps
<1> DEFINE Done == {k \in Nat : k <= m => AsOf(g[k], chain, upTo(k))}
<1>9. 0 \in Done
  <2>1. upTo(0) = watermark
    BY <1>1, <1>3, <1>4
  <2>2. g[0] = row
    BY <1>8 DEF BlockByBlock
  <2>3. QED
    BY <2>1, <2>2
<1>10. ASSUME NEW k \in Nat, k \in Done PROVE k + 1 \in Done
  <2>1. SUFFICES ASSUME k + 1 <= m PROVE AsOf(g[k + 1], chain, upTo(k + 1))
    OBVIOUS
  <2> PICK n : n = upTo(k)
    OBVIOUS
  <2> PICK b : b = from + k
    OBVIOUS
  <2>2. /\ k + 1 \in 1 .. m /\ k + 1 - 1 = k /\ AsOf(g[k], chain, n)
        /\ from + (k + 1) - 1 = b
    BY <1>1, <1>5, <1>10, <2>1
  <2>3. n \in 0 .. Len(chain) /\ b \in 1 .. n + 1 /\ b <= Len(chain) /\ b \in Nat
    BY <1>1, <1>3, <1>5, <2>1
  <2>4. upTo(k + 1) = IF b = n + 1 THEN n + 1 ELSE n
    BY <1>1, <1>3, <1>4, <1>5
  <2>5. blocks[k + 1] = chain[b]
    BY <1>6, <2>2
  <2>6. g[k + 1] = project(g[k], chain[b])
    BY <1>8, <2>2, <2>5 DEF BlockByBlock
  <2>7. chain[b].number = b /\ Len(chain[b].events) <= 1
    <3>1. b \in 1 .. watermark' /\ b \in 1 .. Len(chain)
      BY <1>1, <1>2, <1>3, <1>5, <2>1
    <3>2. QED
      BY <1>3, <3>1 DEF Sparse
  <2> HIDE DEF upTo, m
  <2>8. AsOf(project(g[k], chain[b]), chain, IF b = n + 1 THEN n + 1 ELSE n)
    BY <1>3, <2>2, <2>3, <2>7, BlockAsOf
  <2>9. QED
    BY <2>4, <2>6, <2>8
<1>11. upTo(m) = watermark'
  BY <1>1, <1>2, <1>3, <1>5
<1> HIDE DEF Done, m, upTo
<1>12. m \in Done
  BY <1>5, <1>9, <1>10, StepInduction
<1>13. m <= m /\ g[m] = row'
  BY <1>2, <1>5, <1>8 DEF BlockByBlock
<1>14. QED
  BY <1>11, <1>12, <1>13 DEF Done

LEMMA LegalInvariance ==
  ASSUME ChainInv, heads \subseteq Blocks, LegalOn(chain), [Next]_indexerVars
  PROVE  LegalOn(chain')
<1>1. chain \in Seq(Blocks) /\ \A k \in 1 .. Len(chain) : chain[k].number = k
  BY DEF ChainInv
<1>2. CASE NewBlock
  <2>1. PICK block \in Children(chain, 0) : chain' = Append(chain, block)
    BY <1>2 DEF NewBlock
  <2>2. block \in Blocks
    BY <1>1, ChildFacts
  <2>3. QED
    BY <1>1, <2>1, <2>2, LegalChild
<1>3. CASE Reorg
  <2> DEFINE parent == Front(chain)
             fork == faults.reorgs + 1
  <2>1. PICK block \in Children(parent, fork) : chain' = Append(parent, block)
    BY <1>3 DEF Reorg
  <2>2. Len(chain) \in Nat /\ finalized \in Nat /\ finalized < Len(chain) /\ fork \in Nat
    BY <1>1, <1>3, LenProperties DEF ChainInv, Reorg
  <2>3. 1 <= Len(chain)
    BY <2>2
  <2>4. /\ parent \in Seq(Blocks) /\ Len(parent) = Len(chain) - 1
        /\ \A k \in 1 .. Len(parent) : parent[k].number = k
        /\ \A k \in 1 .. Len(parent) : parent[k] = chain[k]
    BY <2>3, FrontFacts
  <2> HIDE DEF parent, fork
  <2>5. Len(parent) <= Len(chain)
    BY <2>2, <2>4
  <2>6. LegalOn(parent)
    BY <1>1, <2>4, <2>5, LegalPrefix
  <2>7. block \in Blocks
    BY <2>1, <2>2, <2>4, ChildFacts
  <2>8. QED
    BY <2>1, <2>4, <2>6, <2>7, LegalChild
<1>4. CASE chain' = chain
  BY <1>4
<1>5. QED
  BY <1>2, <1>3, <1>4, ElsewhereChain DEF Finalize, indexerVars, node

LEMMA ColdInvariance ==
  ASSUME ChainInv, LiveInv, StoreInv, WalkInv, CopyInv, ColdInv, [Next]_indexerVars
  PROVE  ColdInv'
<1>1. LegalOn(chain')
  BY LegalInvariance DEF ColdInv, LiveInv
<1>2. SUFFICES ASSUME ~dispatched', Sparse(chain', watermark')
               PROVE  AsOf(row', chain', watermark')
  BY <1>1 DEF ColdInv
<1>3. /\ chain \in Seq(Blocks) /\ watermark \in Nat /\ watermark <= finalized
      /\ finalized \in Nat /\ finalized <= Len(chain)
  BY LenProperties DEF ChainInv, StoreInv
<1>4. ASSUME NEW w \in 0 .. MaxDisconnects, CommitBatch(w)
      PROVE  AsOf(row', chain', watermark')
  <2>1. /\ chain' = chain /\ ~dispatched /\ walkers[w].at = "walking"
        /\ watermark <= watermark' /\ watermark' \in Nat
    <3>1. UNCHANGED <<node, dispatched>> /\ walkers[w].at = "walking"
      BY <1>4 DEF CommitBatch
    <3>2. watermark <= watermark' /\ watermark' \in 0 .. finalized'
      BY <1>4, CommitBatchFacts DEF StoreInv
    <3>3. QED
      BY <1>2, <1>3, <3>1, <3>2 DEF node
  <2>2. walkers[w].next <= watermark + 1
    BY <2>1 DEF CopyInv
  <2>3. Sparse(chain, watermark') /\ Sparse(chain, watermark)
    BY <1>2, <1>3, <2>1 DEF Sparse
  <2>4. LegalOn(chain) /\ AsOf(row, chain, watermark)
    BY <2>1, <2>3 DEF ColdInv
  <2>5. QED
    BY <1>4, <2>1, <2>2, <2>3, <2>4, ColdBatch
<1>5. ASSUME UNCHANGED <<row, watermark, dispatched>>, FinalKept, chain' \in Seq(Blocks),
             finalized <= Len(chain')
      PROVE  AsOf(row', chain', watermark')
  <2>1. \A k \in 1 .. watermark : chain'[k] = chain[k]
    BY <1>3, <1>5 DEF FinalKept
  <2>2. Sparse(chain, watermark)
    BY <1>2, <1>5, <2>1 DEF Sparse
  <2>3. AsOf(row, chain, watermark)
    BY <1>2, <1>5, <2>2 DEF ColdInv
  <2>4. watermark <= Len(chain) /\ watermark <= Len(chain')
    BY <1>3, <1>5, LenProperties
  <2>5. EventsTo(chain', watermark) = EventsTo(chain, watermark)
    BY <1>3, <1>5, <2>1, <2>4, SamePrefix DEF EventsTo
  <2>6. QED
    BY <1>5, <2>1, <2>3, <2>5 DEF AsOf
<1>6. CASE UNCHANGED indexerVars
  BY <1>2, <1>6 DEF ColdInv, Sparse, AsOf, indexerVars, node, db
<1>7. CASE Next
  <2>1. chain' \in Seq(Blocks) /\ finalized <= Len(chain') /\ FinalKept
    <3>1. FinalKept /\ ChainInv' /\ finalized <= finalized' /\ finalized' \in Nat
      BY <1>7, FinalStays, ChainInvariance DEF LiveInv
    <3>2. chain' \in Seq(Blocks) /\ finalized' <= Len(chain') /\ Len(chain') \in Nat
      BY <3>1, LenProperties DEF ChainInv
    <3>3. QED
      BY <1>3, <3>1, <3>2
  <2>2. ASSUME NEW i \in DOMAIN handlers, Dispatch(i) PROVE FALSE
    BY <1>2, <2>2 DEF Dispatch
  <2>3. \/ \E w \in 0 .. MaxDisconnects : CommitBatch(w)
        \/ UNCHANGED <<row, watermark, dispatched>>
    BY <1>2, <1>7, <2>2, ElsewhereStore, ElsewhereCopy DEF WalkInv
  <2>4. QED
    BY <1>4, <1>5, <2>1, <2>3
<1>8. QED
  BY <1>6, <1>7

-------------------------------------------------------------------------------
(* The theorems.                                                              *)

LEMMA InitIInv == Init => IInv
<1> SUFFICES ASSUME Init PROVE IInv
  OBVIOUS
<1> USE IndexerAssumption
<1>1. ChainInv
  BY EmptySeq DEF Init, ChainInv
<1>2. LiveInv
  BY EmptySeq DEF Init, LiveInv
<1>3. StoreInv
  BY DEF Init, StoreInv
<1>4. WalkInv
  BY DEF Init, WalkInv, WalkerStates, Idle
<1>5. FeedsInv
  <2>1. /\ mode = "down" /\ ~connected /\ connected \in BOOLEAN
        /\ subs = NoSubs /\ walkers = [w \in 0 .. MaxDisconnects |-> Idle]
    BY DEF Init
  <2>2. \A w \in 0 .. MaxDisconnects : walkers[w].at = "idle"
    BY <2>1 DEF Idle
  <2>3. /\ subs \in [feeds : Nat, open : Nat, held : BOOLEAN]
        /\ subs.open = 0 /\ subs.feeds = 0 /\ ~subs.held
    BY <2>1 DEF NoSubs
  <2>4. QED
    BY <2>1, <2>2, <2>3 DEF FeedsInv
<1>6. CopyInv
  <2>1. watermark = 0 /\ log = {} /\ walkers = [w \in 0 .. MaxDisconnects |-> Idle]
    BY DEF Init
  <2>2. \A k \in 1 .. watermark : FALSE
    BY <2>1
  <2>3. \A w \in 0 .. MaxDisconnects : walkers[w].at # "walking"
    BY <2>1 DEF Idle
  <2>4. QED
    BY <2>1, <2>2, <2>3 DEF CopyInv, LogIsChain, AllLogged
<1>7. RowInv
  BY DEF Init, RowInv, RowIn, NoRow
<1>8. ColdInv
  <2>1. chain = <<>> /\ chain \in Seq(Blocks) /\ Len(chain) = 0 /\ watermark = 0 /\ row = NoRow
    BY EmptySeq DEF Init
  <2>2. EventsTo(chain, 0) = <<>>
    BY <2>1, EventsBlockByBlock
  <2>3. LegalOn(chain)
    BY <2>1 DEF LegalOn
  <2>4. NoRow.last_event_block = 0 /\ NoRow.status = "None" /\ 0 \in 0 .. 0
    BY DEF NoRow
  <2>5. AsOf(row, chain, 0)
    BY <2>1, <2>2, <2>4 DEF AsOf, StatusOf
  <2>6. QED
    BY <2>1, <2>3, <2>5 DEF ColdInv
<1>9. QED
  BY <1>1, <1>2, <1>3, <1>4, <1>5, <1>6, <1>7, <1>8 DEF IInv

LEMMA InductiveStep == IInv /\ [Next]_indexerVars => IInv'
<1> SUFFICES ASSUME IInv, [Next]_indexerVars PROVE IInv'
  OBVIOUS
<1>1. /\ ChainInv /\ LiveInv /\ StoreInv /\ RowInv /\ WalkInv /\ FeedsInv /\ CopyInv
      /\ ColdInv /\ heads \subseteq Blocks
  BY DEF IInv, LiveInv
<1>2. QED
  BY <1>1, ChainInvariance, LiveInvariance, StoreInvariance, RowInvariance, WalkInvariance,
     FeedsInvariance, CopyInvariance, ColdInvariance DEF IInv

LEMMA Inductive == Spec => []IInv
<1>1. QED
  BY InitIInv, InductiveStep, PTL DEF Spec

LEMMA IInvTyped == IInv => IndexerTypeOK
<1> SUFFICES ASSUME IInv PROVE IndexerTypeOK
  OBVIOUS
<1> USE DEF IInv
<1>1. finalized \in 0 .. Len(chain) /\ finalized \in Nat /\ faults.disconnects \in Nat
      /\ faults.disconnects <= MaxDisconnects /\ MaxDisconnects \in Nat
  BY LenProperties, IndexerAssumption DEF ChainInv
<1>2. \A w \in DOMAIN walkers :
        walkers[w].at \in {"idle", "probing", "catch-up", "walking", "opening"}
  BY DEF WalkInv, WalkerStates
<1>3. \A i \in DOMAIN handlers : handlers[i].todo # <<>>
  BY HandlerFields DEF LiveInv
<1>4. OnlyFinal
  BY <1>1 DEF StoreInv, OnlyFinal, UpTo, Blocks
<1>5. /\ subs.feeds \in 0 .. MaxDisconnects + 1 /\ subs.open \in 0 .. MaxDisconnects + 1
      /\ subs.open <= subs.feeds
  <2>1. subs.feeds \in Nat /\ subs.open \in Nat /\ subs.open <= subs.feeds
    BY DEF FeedsInv
  <2>2. CASE mode = "down"
    BY <1>1, <2>2 DEF FeedsInv, NoSubs
  <2>3. CASE mode # "down"
    <3>1. Cardinality(Openers) \in Nat
      BY OpenersFinite, Counted
    <3>2. subs.feeds + Cardinality(Openers) + (IF connected THEN 0 ELSE 1)
            <= faults.disconnects + 1
      BY <2>3 DEF FeedsInv
    <3>3. QED
      BY <1>1, <2>1, <3>1, <3>2
  <2>4. QED
    BY <2>2, <2>3
<1>6. subs \in [feeds : Nat, open : Nat, held : BOOLEAN]
      /\ mode \in {"down", "backfilling", "catching-up", "live"} /\ connected \in BOOLEAN
  BY DEF FeedsInv
<1>7. subs \in [feeds: 0 .. MaxDisconnects + 1, open: 0 .. MaxDisconnects + 1, held: BOOLEAN]
  BY <1>5, <1>6
<1>8. QED
  BY <1>1, <1>2, <1>3, <1>4, <1>5, <1>6, <1>7 DEF IndexerTypeOK

\* Whatever the chain, the node and the link do, the watermark and the event
\* log hold only what is final, no handler runs out of blocks without ending,
\* and no more feeds are open than boot and the disconnects account for.
THEOREM IndexerTypeCorrectness == Spec => []IndexerTypeOK
<1>1. QED
  BY Inductive, IInvTyped, PTL

\* For any number of concurrent walkers and handlers, crashes and lost links,
\* the watermark never falls and no entry leaves the event log.
THEOREM WatermarkNeverBack == Spec => WatermarkMovesForward
<1>1. IInv /\ [Next]_indexerVars => [watermark' >= watermark /\ log \subseteq log']_indexerVars
  <2> SUFFICES ASSUME IInv, [Next]_indexerVars
               PROVE  watermark' >= watermark /\ log \subseteq log'
    OBVIOUS
  <2>1. log \subseteq log' /\ watermark <= watermark'
    BY StoreInvariance DEF IInv
  <2>2. QED
    BY <2>1
<1>2. QED
  BY <1>1, Inductive, PTL DEF Spec, WatermarkMovesForward

\* Until the live path first advances the watermark, no crash, restart, failed
\* batch, reconnect or reorganisation costs the event log an event up to the
\* watermark or brings it one of an orphan, and, if no block has two of the
\* bounty's events, the row is the bounty as of the watermark.
THEOREM ColdStartIsComplete == Spec => []ColdStartComplete
<1>1. IInv => ColdStartComplete
  <2> SUFFICES ASSUME IInv, ~dispatched
               PROVE  /\ LogIsChain
                      /\ (\A n \in DOMAIN chain : Len(chain[n].events) <= 1) =>
                           row.status = StatusOf(EventsOf(SubSeq(chain, 1, watermark)))
    BY DEF ColdStartComplete
  <2>1. LogIsChain
    BY DEF IInv, CopyInv
  <2>2. ASSUME \A n \in DOMAIN chain : Len(chain[n].events) <= 1
        PROVE  row.status = StatusOf(EventsOf(SubSeq(chain, 1, watermark)))
    <3>1. \A n \in 1 .. watermark : n \in DOMAIN chain
      BY LenProperties DEF IInv, ChainInv, StoreInv
    <3>2. Sparse(chain, watermark)
      BY <2>2, <3>1 DEF Sparse
    <3>3. QED
      BY <3>2 DEF IInv, ColdInv, AsOf, EventsTo
  <2>3. QED
    BY <2>1, <2>2
<1>2. QED
  BY <1>1, Inductive, PTL

\* Whatever is replayed, reordered or ingested twice, the row says nothing the
\* event log does not: it was posted, its block has an event, and its status
\* is that of an event no later than its block.
THEOREM RowAlwaysFromLog == Spec => []RowFromLog
<1>1. IInv => RowFromLog
  BY DEF IInv, RowInv, RowIn, RowFromLog
<1>2. QED
  BY <1>1, Inductive, PTL

\* No backfill, replay or late handler takes the row back to an earlier block.
THEOREM RowNeverBack == Spec => RowMovesForward
<1>1. IInv /\ [Next]_indexerVars =>
        [row' # row => row'.last_event_block > row.last_event_block]_indexerVars
  <2> SUFFICES ASSUME IInv, [Next]_indexerVars, row' # row
               PROVE  row'.last_event_block > row.last_event_block
    OBVIOUS
  <2>1. QED
    BY RowInvariance DEF IInv, Later
<1>2. QED
  BY <1>1, Inductive, PTL DEF Spec, RowMovesForward

================================================================================
