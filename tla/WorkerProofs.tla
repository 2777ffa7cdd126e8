------------------------------ MODULE WorkerProofs ------------------------------
(***************************************************************************)
(* Proofs about the worker, for any number of bounties and faults, however *)
(* far the indexer lags and however writes of the state file overlap.      *)
(*                                                                         *)
(* WorkerInv: beside the types, the FSM holds the slot and the queue of    *)
(* the signer has at most its one call; nothing runs before the resume     *)
(* check is over; who waits for a write is at an await of its own; and a   *)
(* withdrawal that was answered "ok" is paid.                              *)
(* FileInv: a write that waits differs from the file in what its caller    *)
(* changes, and else only in bounties that have gone astray; and the       *)
(* bounty in flight on file holds the slot, unless it has gone astray.     *)
(***************************************************************************)
EXTENDS Worker, SequenceTheorems, FiniteSetTheorems, TLAPS

Calls == [op : {"claim", "submit", "withdraw"}, id : Bounties]
Callers == {"fsm", "boot", "monitor"}
Writes == [who : Callers, next : WorkerState]
Awaits == {"deadline", "setInflight", "claim", "work", "submit", "height", "pending", "closing"}
Fsms == {Idle} \cup [at : Awaits, id : Bounties, by : {"boot", "live", "resume"}]

HoldsSlot == fsm # Idle => slot = fsm.id

OneCall ==
  \A i, j \in 1 .. Len(signer) :
    signer[i].op # "withdraw" =>
      /\ signer[i].op = fsm.at /\ signer[i].id = fsm.id
      /\ signer[j].op # "withdraw" => i = j

Starting == {"down", "resume", "rebuilding", "clearing"}
Stages == Starting \cup {"discover", "query", "catchup", "drain", "monitor", "accepted", "live"}

BootInv ==
  /\ stage \in Starting => fsm = Idle /\ signer = <<>>
  /\ stage \in {"down", "resume"} => writes = <<>>
  /\ stage = "resume" => state.inflight # None

Writing(who) ==
  \/ who = "fsm" /\ fsm.at \in {"setInflight", "pending", "closing"}
  \/ who = "monitor" /\ Calling("withdraw") /\ call = "writing"
  \/ who = "boot" /\ stage \in {"rebuilding", "clearing"}

Queues(who) == \E i \in 1 .. Len(writes) : writes[i].who = who

WritesInv ==
  /\ writes \in Seq(Writes)
  /\ \A i, j \in 1 .. Len(writes) : writes[i].who = writes[j].who => i = j
  /\ \A who \in Callers : Queues(who) => Writing(who)

PaidInv ==
  /\ signer = <<>> => call = "waiting"
  /\ signer # <<>> /\ Head(signer).op = "withdraw" /\ call = "ok" => Head(signer).id \in paid
  /\ \A b \in Bounties : "done" \in history[b] \/ chain[b].status = "Withdrawn" => b \in paid

WorkerInv == WorkerTypeOK /\ HoldsSlot /\ OneCall /\ BootInv /\ WritesInv /\ PaidInv

-------------------------------------------------------------------------------
(* The two queues.                                                            *)

\* The queue of the signer without its holder.
LEMMA SignerFacts ==
  ASSUME WorkerTypeOK, signer # <<>>
  PROVE  /\ Len(signer) \in Nat \ {0}
         /\ Head(signer) \in Calls /\ Head(signer) = signer[1]
         /\ Tail(signer) \in Seq(Calls) /\ Len(Tail(signer)) = Len(signer) - 1
         /\ \A i \in 1 .. Len(signer) - 1 : Tail(signer)[i] = signer[i + 1]
         /\ \A i \in 1 .. Len(signer) : signer[i] \in Calls
<1>1. signer \in Seq(Calls)
  BY DEF WorkerTypeOK, Calls
<1>2. Len(signer) \in Nat \ {0}
  BY <1>1, EmptySeq
<1>3. \A i \in 1 .. Len(signer) : signer[i] \in Calls
  BY <1>1, ElementOfSeq
<1>4. QED
  BY <1>1, <1>2, <1>3, HeadTailProperties

\* More calls behind those that wait.
LEMMA SignerGrows ==
  ASSUME WorkerTypeOK, NEW more \in Seq(Calls), signer' = signer \o more
  PROVE  /\ signer' \in Seq(Calls)
         /\ Len(signer) \in Nat /\ Len(more) \in Nat
         /\ Len(signer') = Len(signer) + Len(more)
         /\ \A i \in 1 .. Len(signer) : signer'[i] = signer[i]
         /\ \A i \in 1 .. Len(more) : signer'[Len(signer) + i] = more[i]
         /\ signer # <<>> => signer' # <<>> /\ Head(signer') = Head(signer)
<1>1. signer \in Seq(Calls)
  BY DEF WorkerTypeOK, Calls
<1>2. Len(signer) \in Nat /\ Len(more) \in Nat
  BY <1>1, LenProperties
<1>3. /\ signer' \in Seq(Calls) /\ Len(signer') = Len(signer) + Len(more)
      /\ \A i \in 1 .. Len(signer) : signer'[i] = signer[i]
      /\ \A i \in 1 .. Len(more) : signer'[Len(signer) + i] = more[i]
  BY <1>1, <1>2, ConcatProperties
<1>4. ASSUME signer # <<>> PROVE signer' # <<>> /\ Head(signer') = Head(signer)
  <2>1. Len(signer) > 0
    BY <1>1, <1>4, EmptySeq
  <2>2. signer' # <<>>
    BY <2>1, <1>2, <1>3, EmptySeq
  <2>3. Head(signer') = signer'[1] /\ Head(signer) = signer[1]
    BY <1>1, <1>3, <1>4, <2>2, HeadTailProperties
  <2>4. QED
    BY <2>1, <2>2, <2>3, <1>2, <1>3
<1>5. QED
  BY <1>2, <1>3, <1>4

\* The writes that wait and who waits for them.
LEMMA WriteFacts ==
  ASSUME WritesInv
  PROVE  /\ Len(writes) \in Nat
         /\ \A i \in 1 .. Len(writes) :
              /\ writes[i] \in Writes /\ writes[i].who \in Callers /\ writes[i].next \in WorkerState
              /\ Writing(writes[i].who)
<1>1. writes \in Seq(Writes)
  BY DEF WritesInv
<1>2. Len(writes) \in Nat /\ \A i \in 1 .. Len(writes) : writes[i] \in Writes
  BY <1>1, ElementOfSeq, LenProperties
<1>3. \A i \in 1 .. Len(writes) : writes[i].who \in Callers /\ writes[i].next \in WorkerState
  BY <1>2 DEF Writes
<1>4. QED
  BY <1>2, <1>3 DEF WritesInv, Queues

\* The queue of writes stays, and so do those who wait.
LEMMA WritesStay ==
  ASSUME WritesInv, writes' = writes, \A who \in Callers : Writing(who) => Writing(who)'
  PROVE  WritesInv'
BY DEF WritesInv, Queues

\* A write joins the queue.
LEMMA WriteJoins ==
  ASSUME WritesInv, NEW who \in Callers, NEW next \in WorkerState, Write(who, next),
         ~Writing(who), Writing(who)', \A c \in Callers : Writing(c) => Writing(c)'
  PROVE  /\ WritesInv' /\ Len(writes) \in Nat /\ Len(writes') = Len(writes) + 1
         /\ \A i \in 1 .. Len(writes) : writes'[i] = writes[i]
         /\ writes'[Len(writes) + 1] = [who |-> who, next |-> next]
<1> DEFINE w == [who |-> who, next |-> next]
<1>1. writes \in Seq(Writes) /\ w \in Writes /\ w.who = who /\ writes' = Append(writes, w)
  BY DEF WritesInv, Writes, Write
<1>2. \A i \in 1 .. Len(writes) : writes[i].who \in Callers /\ writes[i].who # who
  BY WriteFacts
<1> HIDE DEF w
<1>3. /\ writes' \in Seq(Writes) /\ Len(writes') = Len(writes) + 1 /\ Len(writes) \in Nat
      /\ \A i \in 1 .. Len(writes) : writes'[i] = writes[i]
      /\ writes'[Len(writes) + 1] = w
  BY <1>1, AppendProperties, LenProperties
<1>4. \A i \in 1 .. Len(writes') : i \in 1 .. Len(writes) \/ i = Len(writes) + 1
  BY <1>3
<1>5. ASSUME NEW c \in Callers, Queues(c)' PROVE Writing(c)'
  <2>1. PICK i \in 1 .. Len(writes') : writes'[i].who = c
    BY <1>5 DEF Queues
  <2>2. CASE i \in 1 .. Len(writes)
    BY <1>3, <2>1, <2>2 DEF WritesInv, Queues
  <2>3. CASE i = Len(writes) + 1
    BY <1>1, <1>3, <2>1, <2>3
  <2>4. QED
    BY <1>4, <2>1, <2>2, <2>3
<1>6. \A i, j \in 1 .. Len(writes') : writes'[i].who = writes'[j].who => i = j
  BY <1>1, <1>2, <1>3, <1>4 DEF WritesInv
<1>7. WritesInv'
  BY <1>3, <1>5, <1>6 DEF WritesInv
<1>8. QED
  BY <1>3, <1>7 DEF w

\* The first write leaves the queue.
LEMMA WriteLeaves ==
  ASSUME WritesInv, writes # <<>>, writes' = Tail(writes),
         \A c \in Callers \ {Head(writes).who} : Writing(c) => Writing(c)'
  PROVE  /\ WritesInv' /\ Head(writes) = writes[1] /\ Len(writes) \in Nat \ {0}
         /\ Len(writes') = Len(writes) - 1
         /\ \A i \in 1 .. Len(writes') :
              writes'[i] = writes[i + 1] /\ i + 1 \in 1 .. Len(writes)
         /\ \A i \in 2 .. Len(writes) : writes[i].who # Head(writes).who
<1>1. writes \in Seq(Writes) /\ Len(writes) \in Nat \ {0}
  BY EmptySeq, LenProperties DEF WritesInv
<1>2. /\ writes' \in Seq(Writes) /\ Len(writes') = Len(writes) - 1 /\ Head(writes) = writes[1]
      /\ \A i \in 1 .. Len(writes) - 1 : writes'[i] = writes[i + 1]
  BY <1>1, HeadTailProperties
<1>3. \A i \in 1 .. Len(writes') :
        writes'[i] = writes[i + 1] /\ i + 1 \in 1 .. Len(writes) /\ i + 1 \in 2 .. Len(writes)
  BY <1>1, <1>2
<1>4. \A i \in 2 .. Len(writes) : i \in 1 .. Len(writes) /\ 1 \in 1 .. Len(writes) /\ i # 1
  BY <1>1
<1>5. \A i \in 2 .. Len(writes) : writes[i].who # Head(writes).who
  BY <1>2, <1>4 DEF WritesInv
<1>6. ASSUME NEW c \in Callers, Queues(c)' PROVE Writing(c)'
  <2>1. PICK i \in 1 .. Len(writes') : writes'[i].who = c
    BY <1>6 DEF Queues
  <2>2. writes[i + 1].who = c /\ i + 1 \in 1 .. Len(writes) /\ c # Head(writes).who
    BY <1>3, <1>5, <2>1
  <2>3. Writing(c)
    BY <2>2 DEF WritesInv, Queues
  <2>4. QED
    BY <2>2, <2>3
<1>7. \A i, j \in 1 .. Len(writes') : writes'[i].who = writes'[j].who => i = j
  <2> SUFFICES ASSUME NEW i \in 1 .. Len(writes'), NEW j \in 1 .. Len(writes'),
                      writes'[i].who = writes'[j].who
               PROVE  i = j
    OBVIOUS
  <2>1. i + 1 = j + 1
    BY <1>3 DEF WritesInv
  <2>2. QED
    BY <1>2, <2>1
<1>8. WritesInv'
  BY <1>2, <1>6, <1>7 DEF WritesInv
<1>9. QED
  BY <1>1, <1>2, <1>3, <1>5, <1>8

\* The last write lands, or has landed before.
LEMMA LandFacts ==
  ASSUME WorkerTypeOK, NEW who, Landed(who)
  PROVE  /\ state' \in WorkerState
         /\ \/ writes = <<>> /\ state' = state
            \/ /\ Len(writes) = 1 /\ Head(writes) = writes[1] /\ Head(writes).who = who
               /\ state' = Head(writes).next
<1>1. writes \in Seq(Writes)
  BY DEF WorkerTypeOK, Writes, Callers
<1>2. CASE writes = <<>> /\ UNCHANGED state
  BY <1>2 DEF WorkerTypeOK
<1>3. CASE Len(writes) = 1 /\ Waits(who) /\ state' = Head(writes).next
  <2>1. Head(writes) = writes[1] /\ writes[1] \in Writes
    <3>1. 1 \in 1 .. Len(writes) /\ writes # <<>>
      BY <1>3 DEF Waits
    <3>2. QED
      BY <1>1, <3>1, HeadTailProperties, ElementOfSeq
  <2>2. QED
    BY <1>3, <2>1 DEF Waits, Writes
<1>4. QED
  BY <1>2, <1>3 DEF Landed

\* After it nothing waits,
LEMMA NothingWaits ==
  ASSUME writes' = <<>>
  PROVE  WritesInv'
BY EmptySeq DEF WritesInv, Queues

\* or the next write of its caller does.
LEMMA WriteAgain ==
  ASSUME NEW who \in Callers, NEW next \in WorkerState,
         writes' = <<[who |-> who, next |-> next]>>, Writing(who)'
  PROVE  /\ WritesInv' /\ Len(writes') = 1
         /\ writes'[1] = [who |-> who, next |-> next]
<1> DEFINE w == [who |-> who, next |-> next]
<1>1. w \in Writes /\ w.who = who
  BY DEF Writes
<1>2. writes' = <<w>>
  OBVIOUS
<1> HIDE DEF w
<1>3. writes' \in Seq(Writes) /\ Len(writes') = 1 /\ writes'[1] = w
  BY <1>1, <1>2
<1>4. WritesInv'
  BY <1>1, <1>3 DEF WritesInv, Queues
<1>5. QED
  BY <1>3, <1>4 DEF w

-------------------------------------------------------------------------------
(* What steps have in common.                                                 *)

LEMMA FaultFacts ==
  ASSUME WorkerTypeOK, NEW kind, Fault(kind)
  PROVE  faults' \in 0 .. MaxFaults
BY WorkerAssumption DEF WorkerTypeOK, Fault

\* A bounty changes on the chain; a withdrawn one is paid.
LEMMA BecomesFacts ==
  ASSUME WorkerTypeOK, NEW b \in Bounties, NEW status \in Statuses, NEW mine \in BOOLEAN,
         Becomes(b, status, mine)
  PROVE  /\ chain' \in [Bounties -> OnChain] /\ view' \in [Bounties -> OnChain]
         /\ paid' \subseteq Bounties /\ paid \subseteq paid'
         /\ chain'[b] = [status |-> status, mine |-> mine]
         /\ \A c \in Bounties : c # b => chain'[c] = chain[c]
         /\ \A c \in Bounties : (chain[c].status = "Withdrawn" => c \in paid) =>
              (chain'[c].status = "Withdrawn" => c \in paid')
<1>1. [status |-> status, mine |-> mine] \in OnChain
  BY DEF OnChain
<1>2. QED
  BY <1>1 DEF WorkerTypeOK, Becomes

\* Between the calls of its cycle the FSM has nothing in the signer's queue.
LEMMA NoOwnCall ==
  ASSUME WorkerTypeOK, OneCall, fsm.at \notin {"claim", "submit"}
  PROVE  \A i \in 1 .. Len(signer) : signer[i].op = "withdraw"
<1>1. signer \in Seq(Calls)
  BY DEF WorkerTypeOK, Calls
<1>2. \A i \in 1 .. Len(signer) : signer[i] \in Calls
  BY <1>1, ElementOfSeq
<1>3. QED
  BY <1>2 DEF OneCall, Calls

\* A running cycle has a bounty; a free slot has no cycle.
LEMMA FsmFacts ==
  ASSUME WorkerTypeOK, HoldsSlot
  PROVE  /\ Idle.at = "idle"
         /\ fsm.at # "idle" => fsm # Idle /\ fsm.id \in Bounties /\ slot = fsm.id
                               /\ fsm.by \in {"boot", "live", "resume"}
         /\ fsm.at = "idle" => fsm = Idle
         /\ slot = None => fsm = Idle
BY WorkerAssumption DEF WorkerTypeOK, HoldsSlot, Idle

-------------------------------------------------------------------------------
(* The world, and the end of the process.                                     *)

LEMMA InitWorkerInv == Init => WorkerInv
<1> SUFFICES ASSUME Init PROVE WorkerInv
  OBVIOUS
<1>1. WorkerTypeOK
  BY WorkerAssumption, EmptySeq DEF Init, WorkerTypeOK, OnChain, Statuses, WorkerState, Idle
<1>2. HoldsSlot /\ OneCall /\ BootInv
  BY EmptySeq DEF Init, HoldsSlot, OneCall, BootInv, Starting
<1>3. PaidInv
  BY DEF Init, PaidInv
<1>4. WritesInv
  BY EmptySeq DEF Init, WritesInv, Queues
<1>5. QED
  BY <1>1, <1>2, <1>3, <1>4 DEF WorkerInv

\* Whatever happens outside leaves the process, its files and a payment alone.
LEMMA OutsideInv ==
  ASSUME WorkerInv, UNCHANGED <<files, process>>,
         chain' \in [Bounties -> OnChain], view' \in [Bounties -> OnChain],
         faults' \in 0 .. MaxFaults, offers' \subseteq Bounties, accepts' \subseteq Bounties,
         paid' \subseteq Bounties, paid \subseteq paid',
         \A c \in Bounties : chain'[c].status = "Withdrawn" => c \in paid'
  PROVE  WorkerInv'
<1>1. WorkerTypeOK'
  BY DEF WorkerInv, WorkerTypeOK, files, process, boot
<1>2. (HoldsSlot /\ OneCall /\ BootInv)'
  BY DEF WorkerInv, HoldsSlot, OneCall, BootInv, files, process, boot
<1>3. PaidInv'
  BY DEF WorkerInv, PaidInv, files, process
<1>4. WritesInv'
  BY DEF WorkerInv, WritesInv, Queues, Writing, Calling, process, boot
<1>5. QED
  BY <1>1, <1>2, <1>3, <1>4 DEF WorkerInv

LEMMA WorldInv ==
  ASSUME WorkerInv, World \/ \E b \in Bounties : Repeat(b) \/ Lose(b)
  PROVE  WorkerInv'
<1> USE DEF WorkerInv
<1>1. WorkerTypeOK /\ \A c \in Bounties : chain[c].status = "Withdrawn" => c \in paid
  BY DEF PaidInv
<1>2. PICK b \in Bounties :
        Post(b) \/ OthersWork(b) \/ PosterAccepts(b) \/ Close(b) \/ Index(b)
          \/ Repeat(b) \/ Lose(b)
  BY WorkerAssumption DEF World
<1>3. chain[b] \in OnChain /\ chain[b].mine \in BOOLEAN
  BY <1>1 DEF WorkerTypeOK, OnChain
<1>4. CASE Post(b) \/ OthersWork(b) \/ PosterAccepts(b) \/ Close(b)
  <2>1. PICK status \in Statuses, mine \in BOOLEAN : Becomes(b, status, mine)
    BY <1>3, <1>4 DEF Post, OthersWork, PosterAccepts, Close, Statuses
  <2>2. /\ UNCHANGED <<files, process>> /\ faults' = faults
        /\ offers' \subseteq Bounties /\ accepts' \subseteq Bounties
    BY <1>1, <1>4 DEF Post, OthersWork, PosterAccepts, Close, WorkerTypeOK, events
  <2>3. /\ chain' \in [Bounties -> OnChain] /\ view' \in [Bounties -> OnChain]
        /\ paid' \subseteq Bounties /\ paid \subseteq paid'
        /\ \A c \in Bounties : chain'[c].status = "Withdrawn" => c \in paid'
    BY <1>1, <2>1, BecomesFacts
  <2>4. QED
    BY <1>1, <2>2, <2>3, OutsideInv DEF WorkerTypeOK
<1>5. CASE Index(b)
  BY <1>1, <1>3, <1>5, OutsideInv DEF Index, WorkerTypeOK, events
<1>6. CASE Repeat(b) \/ Lose(b)
  <2>1. faults' \in 0 .. MaxFaults
    BY <1>1, <1>6, FaultFacts DEF Repeat, Lose
  <2>2. /\ UNCHANGED <<market, files, process>>
        /\ offers' \subseteq Bounties /\ accepts' \subseteq Bounties
    BY <1>1, <1>6 DEF Repeat, Lose, WorkerTypeOK
  <2>3. QED
    BY <1>1, <2>1, <2>2, OutsideInv DEF WorkerTypeOK, market
<1>7. QED
  BY <1>2, <1>4, <1>5, <1>6

LEMMA DownInv ==
  ASSUME WorkerInv, Down, UNCHANGED <<market, state, history>>, astray' \subseteq Bounties,
         faults' \in 0 .. MaxFaults
  PROVE  WorkerInv'
<1>1. WorkerTypeOK'
  BY EmptySeq, WorkerAssumption DEF WorkerInv, WorkerTypeOK, Down, market
<1>2. (HoldsSlot /\ OneCall /\ BootInv)'
  BY EmptySeq DEF Down, HoldsSlot, OneCall, BootInv, Starting
<1>3. PaidInv'
  BY DEF WorkerInv, PaidInv, Down, market
<1>4. WritesInv'
  BY NothingWaits DEF Down
<1>5. QED
  BY <1>1, <1>2, <1>3, <1>4 DEF WorkerInv

-------------------------------------------------------------------------------
(* The cycle.                                                                 *)

LEMMA GoesFacts ==
  ASSUME WorkerTypeOK, fsm.at # "idle", NEW at \in Awaits, GoesTo(at)
  PROVE  /\ fsm' \in Fsms /\ fsm' # Idle
         /\ fsm'.at = at /\ fsm'.id = fsm.id /\ fsm'.by = fsm.by
<1>1. fsm \in [at : Awaits, id : Bounties, by : {"boot", "live", "resume"}]
  BY DEF WorkerTypeOK, Idle, Awaits
<1>2. fsm' \in [at : Awaits, id : Bounties, by : {"boot", "live", "resume"}]
      /\ fsm'.at = at /\ fsm'.id = fsm.id /\ fsm'.by = fsm.by
  BY <1>1 DEF GoesTo
<1>3. fsm' # Idle
  BY <1>2 DEF Idle, Awaits
<1>4. QED
  BY <1>2, <1>3 DEF Fsms

\* The queue of writes is of its type.
LEMMA WritesTypes ==
  ASSUME WritesInv'
  PROVE  /\ writes' \in Seq([who: {"fsm", "boot", "monitor"}, next: WorkerState])
         /\ \A i, j \in DOMAIN writes' : writes'[i].who = writes'[j].who => i = j
<1>1. writes' \in Seq(Writes) /\ \A i, j \in 1 .. Len(writes') : writes'[i].who = writes'[j].who => i = j
  BY DEF WritesInv
<1>2. DOMAIN writes' = 1 .. Len(writes')
  BY <1>1, LenProperties
<1>3. QED
  BY <1>1, <1>2 DEF Writes, Callers

\* Once a cycle runs or a call waits, the resume check is over.
LEMMA BusyInv ==
  ASSUME WorkerInv, fsm # Idle \/ signer # <<>>,
         UNCHANGED <<events, boot>>,
         chain' \in [Bounties -> OnChain], view' \in [Bounties -> OnChain],
         paid' \subseteq Bounties, faults' \in 0 .. MaxFaults, state' \in WorkerState,
         history' \in [Bounties -> SUBSET {"done", "abandoned"}], astray' \subseteq Bounties,
         slot' \in Bounties \cup {None}, fsm' \in Fsms, signer' \in Seq(Calls),
         call' \in {"waiting", "ok", "err", "writing"},
         HoldsSlot', OneCall', WritesInv', PaidInv'
  PROVE  WorkerInv'
<1>1. WorkerTypeOK'
  BY WritesTypes DEF WorkerInv, WorkerTypeOK, events, boot, Fsms, Awaits, Calls
<1>2. BootInv'
  BY DEF WorkerInv, BootInv, boot, Starting
<1>3. QED
  BY <1>1, <1>2 DEF WorkerInv

\* The queue of the signer, by who joins and who leaves.
LEMMA OwnCallJoins ==
  ASSUME WorkerTypeOK, OneCall, fsm.at \notin {"idle", "claim", "submit"},
         NEW op \in {"claim", "submit"}, GoesTo(op), AwaitsCall(op)
  PROVE  /\ signer' \in Seq(Calls) /\ OneCall' /\ signer' # <<>>
         /\ signer # <<>> => Head(signer') = Head(signer)
         /\ signer = <<>> => Head(signer').op = op
<1> DEFINE c == [op |-> op, id |-> fsm.id]
<1>1. c \in Calls /\ c.op = op /\ c.id = fsm.id
  BY DEF WorkerTypeOK, Idle, Calls
<1>2. signer \in Seq(Calls) /\ signer' = Append(signer, c)
  BY DEF WorkerTypeOK, Calls, AwaitsCall
<1> HIDE DEF c
<1>3. /\ signer' \in Seq(Calls) /\ signer' # <<>> /\ Len(signer') = Len(signer) + 1
      /\ \A i \in 1 .. Len(signer) : signer'[i] = signer[i]
      /\ signer'[Len(signer) + 1] = c /\ Len(signer) \in Nat
  BY <1>1, <1>2, AppendProperties, LenProperties
<1>4. \A i \in 1 .. Len(signer) : signer[i].op = "withdraw"
  BY NoOwnCall
<1>5. fsm'.at = op /\ fsm'.id = fsm.id
  BY GoesFacts DEF Awaits
<1>6. OneCall'
  BY <1>1, <1>3, <1>4, <1>5 DEF OneCall
<1>7. Head(signer') = signer'[1]
  BY <1>3, HeadTailProperties
<1>8. signer # <<>> => Head(signer) = signer[1] /\ Len(signer) > 0
  BY <1>2, <1>3, EmptySeq, HeadTailProperties
<1>9. signer = <<>> => Len(signer) = 0
  BY EmptySeq
<1>10. QED
  BY <1>1, <1>3, <1>6, <1>7, <1>8, <1>9

LEMMA HolderLeaves ==
  ASSUME WorkerTypeOK, OneCall, signer # <<>>, Unlock
  PROVE  /\ signer' \in Seq(Calls) /\ call' = "waiting"
         /\ fsm' = fsm => OneCall'
         /\ Head(signer).op # "withdraw" => OneCall'
<1>1. /\ signer' \in Seq(Calls) /\ Len(signer') = Len(signer) - 1 /\ Len(signer) \in Nat \ {0}
      /\ \A i \in 1 .. Len(signer) - 1 : signer'[i] = signer[i + 1]
      /\ Head(signer) = signer[1] /\ call' = "waiting"
  BY SignerFacts DEF Unlock
<1>2. ASSUME fsm' = fsm PROVE OneCall'
  <2> SUFFICES ASSUME NEW i \in 1 .. Len(signer'), NEW j \in 1 .. Len(signer'),
                      signer'[i].op # "withdraw"
               PROVE  /\ signer'[i].op = fsm.at /\ signer'[i].id = fsm.id
                      /\ signer'[j].op # "withdraw" => i = j
    BY <1>2 DEF OneCall
  <2>1. /\ i + 1 \in 1 .. Len(signer) /\ signer'[i] = signer[i + 1]
        /\ j + 1 \in 1 .. Len(signer) /\ signer'[j] = signer[j + 1]
        /\ i + 1 = j + 1 => i = j
    BY <1>1
  <2>2. QED
    BY <2>1 DEF OneCall
<1>3. ASSUME Head(signer).op # "withdraw" PROVE OneCall'
  <2>1. ASSUME NEW i \in 1 .. Len(signer') PROVE signer'[i].op = "withdraw"
    <3>1. i + 1 \in 1 .. Len(signer) /\ signer'[i] = signer[i + 1] /\ 1 # i + 1
          /\ 1 \in 1 .. Len(signer)
      BY <1>1
    <3>2. QED
      BY <3>1, <1>1, <1>3 DEF OneCall
  <2>2. QED
    BY <2>1 DEF OneCall
<1>4. QED
  BY <1>1, <1>2, <1>3

LEMMA WithdrawalsJoin ==
  ASSUME WorkerTypeOK, OneCall, NEW S \in SUBSET Bounties, NEW ids \in Seq(S),
         AwaitWithdrawals(ids), fsm' = fsm
  PROVE  /\ signer' \in Seq(Calls) /\ OneCall'
         /\ \A i \in 1 .. Len(signer') :
              \/ i \in 1 .. Len(signer) /\ signer'[i] = signer[i]
              \/ signer'[i].op = "withdraw" /\ signer'[i].id \in S
         /\ signer # <<>> => signer' # <<>> /\ Head(signer') = Head(signer)
<1> DEFINE known == {i \in DOMAIN ids : ids[i] \in state.pending}
           of(turn) == [i \in DOMAIN turn |-> [op |-> "withdraw", id |-> ids[turn[i]]]]
<1>1. /\ Len(ids) \in Nat /\ DOMAIN ids = 1 .. Len(ids)
      /\ IsFiniteSet(known) /\ Cardinality(known) \in Nat
  <2>1. Len(ids) \in Nat /\ DOMAIN ids = 1 .. Len(ids)
    BY LenProperties
  <2>2. IsFiniteSet(1 .. Len(ids)) /\ known \subseteq 1 .. Len(ids)
    BY <2>1, FS_Interval
  <2>3. QED
    BY <2>1, <2>2, FS_Subset, FS_CardinalityType
<1>2. PICK turn \in [1 .. Cardinality(known) -> known] : signer' = signer \o of(turn)
  BY DEF AwaitWithdrawals
<1>3. \A i \in 1 .. Cardinality(known) : ids[turn[i]] \in S
  BY <1>1, ElementOfSeq
<1>4. of(turn) = [i \in 1 .. Cardinality(known) |-> [op |-> "withdraw", id |-> ids[turn[i]]]]
  OBVIOUS
<1>5. \A i \in 1 .. Cardinality(known) : of(turn)[i] \in Calls /\ of(turn)[i].op = "withdraw"
                                           /\ of(turn)[i].id \in S
  BY <1>3, <1>4 DEF Calls
<1>6. of(turn) \in [1 .. Cardinality(known) -> Calls]
  BY <1>4, <1>5
<1>7. of(turn) \in Seq(Calls) /\ Len(of(turn)) = Cardinality(known)
  <2> HIDE DEF of
  <2>1. of(turn) \in Seq(Calls)
    BY <1>1, <1>6, SeqDef
  <2>2. DOMAIN of(turn) = 1 .. Cardinality(known)
    BY <1>6
  <2>3. Len(of(turn)) \in Nat /\ DOMAIN of(turn) = 1 .. Len(of(turn))
    BY <2>1, LenProperties
  <2>4. QED
    BY <1>1, <2>1, <2>2, <2>3
<1> HIDE DEF of, known
<1>8. /\ signer' \in Seq(Calls)
      /\ Len(signer) \in Nat /\ Len(signer') = Len(signer) + Cardinality(known)
      /\ \A i \in 1 .. Len(signer) : signer'[i] = signer[i]
      /\ \A i \in 1 .. Cardinality(known) : signer'[Len(signer) + i] = of(turn)[i]
      /\ signer # <<>> => signer' # <<>> /\ Head(signer') = Head(signer)
  BY <1>2, <1>7, SignerGrows
<1>9. \A i \in 1 .. Len(signer') :
        \/ i \in 1 .. Len(signer) /\ signer'[i] = signer[i]
        \/ signer'[i].op = "withdraw" /\ signer'[i].id \in S
  <2> SUFFICES ASSUME NEW i \in 1 .. Len(signer'), i > Len(signer)
               PROVE  signer'[i].op = "withdraw" /\ signer'[i].id \in S
    BY <1>8
  <2>1. i - Len(signer) \in 1 .. Cardinality(known) /\ i = Len(signer) + (i - Len(signer))
    BY <1>1, <1>8
  <2>2. QED
    BY <2>1, <1>5, <1>8
<1>10. OneCall'
  <2>1. \A i \in 1 .. Len(signer') :
          signer'[i].op # "withdraw" => i \in 1 .. Len(signer) /\ signer'[i] = signer[i]
    BY <1>9
  <2>2. QED
    BY <2>1 DEF OneCall
<1>11. QED
  BY <1>8, <1>9, <1>10

\* A payment is neither forgotten nor invented where no answer comes.
LEMMA PaidKept ==
  ASSUME WorkerInv, chain' = chain, paid' = paid, history' = history,
         \/ call' = "waiting"
         \/ call' = call /\ (signer # <<>> => signer' # <<>> /\ Head(signer') = Head(signer))
  PROVE  PaidInv'
BY DEF WorkerInv, PaidInv

\* The types of the state file's new contents.
LEMMA StateFacts ==
  ASSUME WorkerTypeOK, NEW b \in Bounties
  PROVE  /\ setInflight(state, b) \in WorkerState /\ clearInflight(state) \in WorkerState
         /\ addPendingAccept(state, b) \in WorkerState
         /\ clearPendingAccept(state, b) \in WorkerState
BY DEF WorkerTypeOK, WorkerState, setInflight, clearInflight, addPendingAccept, clearPendingAccept

\* The steps of the cycle between its calls.
LEMMA PassInv ==
  ASSUME WorkerInv, PassDeadline \/ HeightRead
  PROVE  WorkerInv'
<1>1. WorkerTypeOK /\ HoldsSlot /\ OneCall /\ fsm.at \in {"deadline", "height"}
  BY DEF WorkerInv, PassDeadline, HeightRead
<1>2. fsm # Idle /\ fsm.id \in Bounties /\ slot = fsm.id
  BY <1>1, FsmFacts
<1>3. PICK at \in Awaits : GoesTo(at)
  BY DEF PassDeadline, HeightRead, Awaits
<1>4. fsm' \in Fsms /\ fsm'.id = fsm.id
  BY <1>1, <1>3, GoesFacts
<1>5. UNCHANGED <<world, events, files, boot, slot, signer, call>>
  BY DEF PassDeadline, HeightRead
<1>6. WritesInv'
  <2>1. \A who \in Callers : Writing(who) => Writing(who)'
    BY <1>1, <1>5 DEF Writing, Calling, Callers, boot
  <2>2. CASE UNCHANGED writes
    BY <2>1, <2>2, WritesStay DEF WorkerInv
  <2>3. CASE ~UNCHANGED writes
    <3>1. PICK next \in WorkerState : Write("fsm", next)
      BY <1>1, <1>2, <2>3, StateFacts DEF PassDeadline, HeightRead
    <3>2. fsm'.at \in {"setInflight", "pending"}
      BY <1>1, <2>3, GoesFacts DEF PassDeadline, HeightRead, Awaits
    <3>3. ~Writing("fsm") /\ Writing("fsm")'
      BY <1>1, <3>2 DEF Writing
    <3>4. QED
      BY <2>1, <3>1, <3>3, WriteJoins DEF WorkerInv, Callers
  <2>4. QED
    BY <2>2, <2>3
<1>7. OneCall'
  BY <1>1, <1>5, NoOwnCall DEF OneCall
<1>8. HoldsSlot'
  BY <1>2, <1>4, <1>5 DEF HoldsSlot
<1>9. PaidInv'
  BY <1>5, PaidKept DEF world, market, files
<1>10. QED
  BY <1>1, <1>2, <1>4, <1>5, <1>6, <1>7, <1>8, <1>9, BusyInv
  DEF WorkerTypeOK, world, market, files, Calls

\* A cycle that is over gives the slot back; one that throws in a resume keeps it.
LEMMA EndInv ==
  ASSUME WorkerInv, fsm.at \notin {"idle", "claim", "submit"}, fsm' = Idle,
         slot' \in {slot, None}, UNCHANGED <<market, history, events, boot, signer, call>>,
         faults' \in 0 .. MaxFaults, state' \in WorkerState, astray' \subseteq Bounties,
         WritesInv'
  PROVE  WorkerInv'
<1>1. WorkerTypeOK /\ HoldsSlot /\ OneCall
  BY DEF WorkerInv
<1>2. fsm # Idle /\ slot' \in Bounties \cup {None} /\ fsm' \in Fsms
  BY <1>1, FsmFacts DEF Fsms
<1>3. OneCall'
  BY <1>1, NoOwnCall DEF OneCall
<1>4. HoldsSlot'
  BY DEF HoldsSlot
<1>5. PaidInv'
  BY PaidKept DEF market
<1>6. QED
  BY <1>1, <1>2, <1>3, <1>4, <1>5, BusyInv DEF WorkerTypeOK, Calls, market

LEMMA OverInv ==
  ASSUME WorkerInv, DropAtDeadline \/ Closed
  PROVE  WorkerInv'
<1>1. WorkerTypeOK
  BY DEF WorkerInv
<1>2. CASE DropAtDeadline
  <2>1. UNCHANGED <<stage, signer, call, writes>> /\ fsm.at = "deadline"
    BY <1>2 DEF DropAtDeadline, boot
  <2>2. \A who \in Callers : Writing(who) => Writing(who)'
    BY <2>1 DEF Writing, Calling, Callers
  <2>3. WritesInv'
    BY <2>1, <2>2, WritesStay DEF WorkerInv
  <2>4. QED
    BY <1>1, <1>2, <2>3, EndInv DEF DropAtDeadline, Release, world, files, WorkerTypeOK
<1>3. CASE Closed
  <2>1. state' \in WorkerState /\ WritesInv'
    BY <1>1, <1>3, LandFacts, NothingWaits DEF Closed, Lands
  <2>2. QED
    BY <1>1, <1>3, <2>1, EndInv DEF Closed, Release, world, WorkerTypeOK
<1>4. QED
  BY <1>2, <1>3

LEMMA PendingAddedInv ==
  ASSUME WorkerInv, PendingAdded
  PROVE  WorkerInv'
<1>1. WorkerTypeOK /\ HoldsSlot /\ OneCall /\ fsm.at = "pending"
  BY DEF WorkerInv, PendingAdded
<1>2. fsm # Idle /\ fsm.id \in Bounties /\ slot = fsm.id
  BY <1>1, FsmFacts
<1>3. fsm' \in Fsms /\ fsm'.id = fsm.id /\ fsm'.at = "closing"
  BY <1>1, GoesFacts DEF PendingAdded, Awaits
<1>4. Landed("fsm") /\ writes' = <<[who |-> "fsm", next |-> clearInflight(state')]>>
  BY DEF PendingAdded, LandsThenWrites
<1>5. state' \in WorkerState
  BY <1>1, <1>4, LandFacts
<1>6. WritesInv'
  <2>1. clearInflight(state') \in WorkerState
    BY <1>5 DEF WorkerState, clearInflight
  <2>2. Writing("fsm")'
    BY <1>3 DEF Writing
  <2>3. QED
    BY <1>4, <2>1, <2>2, WriteAgain DEF Callers
<1>7. UNCHANGED <<world, events, history, astray, boot, slot, signer, call>>
  BY DEF PendingAdded
<1>8. OneCall'
  BY <1>1, <1>7, NoOwnCall DEF OneCall
<1>9. HoldsSlot'
  BY <1>2, <1>3, <1>7 DEF HoldsSlot
<1>10. PaidInv'
  BY <1>7, PaidKept DEF world, market
<1>11. QED
  BY <1>1, <1>2, <1>3, <1>5, <1>6, <1>7, <1>8, <1>9, <1>10, BusyInv
  DEF WorkerTypeOK, world, market, Calls

\* The cycle asks for its call.
LEMMA AskInv ==
  ASSUME WorkerInv, InflightSet \/ Work
  PROVE  WorkerInv'
<1>1. WorkerTypeOK /\ HoldsSlot /\ OneCall /\ fsm.at \in {"setInflight", "work"}
  BY DEF WorkerInv, InflightSet, Work
<1>2. fsm # Idle /\ fsm.id \in Bounties /\ slot = fsm.id
  BY <1>1, FsmFacts
<1>3. PICK op \in {"claim", "submit"} : GoesTo(op) /\ AwaitsCall(op)
  BY DEF InflightSet, Work
<1>4. fsm' \in Fsms /\ fsm'.id = fsm.id
  BY <1>1, <1>3, GoesFacts DEF Awaits
<1>5. /\ signer' \in Seq(Calls) /\ OneCall' /\ signer' # <<>>
      /\ signer # <<>> => Head(signer') = Head(signer)
  BY <1>1, <1>3, OwnCallJoins
<1>6. UNCHANGED <<world, events, history, astray, boot, slot, call>>
  BY DEF InflightSet, Work, files
<1>7. state' \in WorkerState /\ WritesInv'
  <2>1. CASE InflightSet
    BY <1>1, <2>1, LandFacts, NothingWaits DEF InflightSet, Lands
  <2>2. CASE Work
    <3>1. \A who \in Callers : Writing(who) => Writing(who)'
      BY <1>1, <1>5, <1>6, <2>2 DEF Writing, Calling, Callers, boot, Work
    <3>2. QED
      BY <1>1, <2>2, <3>1, WritesStay DEF Work, WorkerTypeOK, WorkerInv, files
  <2>3. QED
    BY <2>1, <2>2
<1>8. HoldsSlot'
  BY <1>2, <1>4, <1>6 DEF HoldsSlot
<1>9. PaidInv'
  BY <1>5, <1>6, PaidKept DEF world, market
<1>10. QED
  BY <1>1, <1>2, <1>4, <1>5, <1>6, <1>7, <1>8, <1>9, BusyInv DEF WorkerTypeOK, world, market

\* The first call in the queue is the cycle's own.
LEMMA OwnCall ==
  ASSUME WorkerInv, Calling("claim") \/ Calling("submit")
  PROVE  /\ signer # <<>> /\ Head(signer).op = fsm.at /\ Head(signer).id = fsm.id
         /\ Head(signer).op \in {"claim", "submit"}
         /\ fsm # Idle /\ fsm.at # "idle" /\ fsm.id \in Bounties /\ slot = fsm.id
<1>1. WorkerTypeOK /\ HoldsSlot /\ OneCall /\ signer # <<>>
  BY DEF WorkerInv, Calling
<1>2. 1 \in 1 .. Len(signer) /\ Head(signer) = signer[1]
  BY <1>1, SignerFacts
<1>3. Head(signer).op \in {"claim", "submit"}
  BY DEF Calling
<1>4. Head(signer).op = fsm.at /\ Head(signer).id = fsm.id
  BY <1>1, <1>2, <1>3 DEF OneCall
<1>5. QED
  BY <1>1, <1>3, <1>4, FsmFacts

LEMMA LandsInv ==
  ASSUME WorkerInv, ClaimLands \/ SubmitLands
  PROVE  WorkerInv'
<1>1. /\ WorkerTypeOK /\ HoldsSlot /\ OneCall
      /\ \A c \in Bounties : chain[c].status = "Withdrawn" => c \in paid
  BY DEF WorkerInv, PaidInv
<1>2. /\ signer # <<>> /\ Head(signer).op \in {"claim", "submit"}
      /\ fsm # Idle /\ fsm.id \in Bounties
  BY OwnCall DEF ClaimLands, SubmitLands
<1>3. UNCHANGED <<faults, events, files, boot, slot, fsm, signer, writes>>
  BY DEF ClaimLands, SubmitLands
<1>4. /\ call' \in {"ok", "err"}
      /\ \/ UNCHANGED market
         \/ \E status \in Statuses : Becomes(fsm.id, status, TRUE)
  BY DEF ClaimLands, SubmitLands, Statuses
<1>5. /\ chain' \in [Bounties -> OnChain] /\ view' \in [Bounties -> OnChain]
      /\ paid' \subseteq Bounties /\ paid \subseteq paid'
      /\ \A c \in Bounties : chain'[c].status = "Withdrawn" => c \in paid'
  <2>1. CASE UNCHANGED market
    BY <1>1, <2>1 DEF WorkerTypeOK, market
  <2>2. CASE \E status \in Statuses : Becomes(fsm.id, status, TRUE)
    BY <1>1, <1>2, <2>2, BecomesFacts
  <2>3. QED
    BY <1>4, <2>1, <2>2
<1>6. OneCall' /\ HoldsSlot'
  BY <1>1, <1>3 DEF OneCall, HoldsSlot
<1>7. PaidInv'
  BY <1>2, <1>3, <1>5 DEF WorkerInv, PaidInv, files
<1>8. WritesInv'
  <2>1. \A who \in Callers : Writing(who) => Writing(who)'
    BY <1>2, <1>3 DEF Writing, Calling, Callers, boot
  <2>2. QED
    BY <1>3, <2>1, WritesStay DEF WorkerInv
<1>9. QED
  BY <1>1, <1>2, <1>3, <1>4, <1>5, <1>6, <1>7, <1>8, BusyInv
  DEF WorkerTypeOK, files, Fsms, Awaits, Calls

LEMMA ReturnsInv ==
  ASSUME WorkerInv, ClaimReturns \/ SubmitReturns
  PROVE  WorkerInv'
<1>1. WorkerTypeOK /\ HoldsSlot /\ OneCall
  BY DEF WorkerInv
<1>2. /\ signer # <<>> /\ Head(signer).op \in {"claim", "submit"}
      /\ fsm # Idle /\ fsm.at # "idle" /\ fsm.id \in Bounties /\ slot = fsm.id
  BY OwnCall DEF ClaimReturns, SubmitReturns
<1>3. Unlock /\ UNCHANGED <<world, events, files, boot, slot, writes>>
  BY DEF ClaimReturns, SubmitReturns
<1>4. PICK at \in Awaits : GoesTo(at)
  BY DEF ClaimReturns, SubmitReturns, Awaits
<1>5. fsm' \in Fsms /\ fsm'.id = fsm.id
  BY <1>1, <1>2, <1>4, GoesFacts
<1>6. signer' \in Seq(Calls) /\ call' = "waiting" /\ OneCall'
  BY <1>1, <1>2, <1>3, HolderLeaves
<1>7. HoldsSlot'
  BY <1>2, <1>3, <1>5 DEF HoldsSlot
<1>8. PaidInv'
  BY <1>3, <1>6, PaidKept DEF world, market, files
<1>9. WritesInv'
  <2>1. fsm.at \in {"claim", "submit"}
    BY OwnCall DEF ClaimReturns, SubmitReturns
  <2>2. \A who \in Callers : Writing(who) => Writing(who)'
    BY <1>2, <1>3, <2>1 DEF Writing, Calling, Callers, boot
  <2>3. QED
    BY <1>3, <2>2, WritesStay DEF WorkerInv
<1>10. QED
  BY <1>1, <1>2, <1>3, <1>5, <1>6, <1>7, <1>8, <1>9, BusyInv
  DEF WorkerTypeOK, world, market, files

\* A record of an abandoned bounty claims no payment.
LEMMA AbandonedInv ==
  ASSUME WorkerInv, CallRefused \/ CallThrows
  PROVE  WorkerInv'
<1>1. WorkerTypeOK /\ HoldsSlot /\ OneCall
  BY DEF WorkerInv
<1>2. /\ signer # <<>> /\ Head(signer).op \in {"claim", "submit"}
      /\ fsm # Idle /\ fsm.at \in {"claim", "submit"} /\ fsm.id \in Bounties /\ slot = fsm.id
  BY OwnCall DEF CallRefused, CallThrows
<1>3. Abandon /\ UNCHANGED <<market, events, state, boot, slot>>
  BY DEF CallRefused, CallThrows, Abandon, world
<1>4. faults' \in 0 .. MaxFaults /\ astray' \subseteq Bounties
  BY <1>1, <1>2, FaultFacts DEF CallRefused, CallThrows, world, WorkerTypeOK
<1>5. fsm' \in Fsms /\ fsm'.id = fsm.id /\ fsm'.at = "closing"
  BY <1>1, <1>2, <1>3, GoesFacts DEF Abandon, Awaits
<1>6. signer' \in Seq(Calls) /\ call' = "waiting" /\ OneCall'
  BY <1>1, <1>2, <1>3, HolderLeaves DEF Abandon
<1>7. WritesInv'
  <2>1. clearInflight(state) \in WorkerState /\ Write("fsm", clearInflight(state))
    BY <1>1, <1>2, <1>3, StateFacts DEF Abandon
  <2>2. \A who \in Callers : Writing(who) => Writing(who)'
    BY <1>2, <1>3 DEF Writing, Calling, Callers, boot
  <2>3. ~Writing("fsm") /\ Writing("fsm")'
    BY <1>2, <1>5 DEF Writing
  <2>4. QED
    BY <2>1, <2>2, <2>3, WriteJoins DEF WorkerInv, Callers
<1>8. history' \in [Bounties -> SUBSET {"done", "abandoned"}]
      /\ \A b \in Bounties : "done" \in history'[b] => "done" \in history[b]
  BY <1>1, <1>2, <1>3 DEF Abandon, Record, WorkerTypeOK
<1>9. HoldsSlot'
  BY <1>2, <1>3, <1>5 DEF HoldsSlot
<1>10. PaidInv'
  BY <1>3, <1>6, <1>8 DEF WorkerInv, PaidInv, market
<1>11. QED
  BY <1>1, <1>2, <1>3, <1>4, <1>5, <1>6, <1>7, <1>8, <1>9, <1>10, BusyInv
  DEF WorkerTypeOK, market

\* A paused market refuses the holder's call.
LEMMA PausedInv ==
  ASSUME WorkerInv, CallPaused
  PROVE  WorkerInv'
<1>1. WorkerTypeOK /\ HoldsSlot /\ OneCall /\ signer # <<>>
  BY DEF WorkerInv, CallPaused
<1>2. Head(signer).id \in Bounties
  BY <1>1, SignerFacts DEF Calls
<1>3. /\ UNCHANGED <<market, events, state, history, boot, slot, fsm, signer, writes>>
      /\ call = "waiting" /\ call' = "err" /\ faults' \in 0 .. MaxFaults
      /\ astray' = astray \cup {Head(signer).id}
  BY <1>1, FaultFacts DEF CallPaused
<1>4. HoldsSlot' /\ OneCall' /\ astray' \subseteq Bounties
  BY <1>1, <1>2, <1>3 DEF HoldsSlot, OneCall, WorkerTypeOK
<1>5. PaidInv'
  BY <1>1, <1>3 DEF WorkerInv, PaidInv, market
<1>6. WritesInv'
  <2>1. \A who \in Callers : Writing(who) => Writing(who)'
    BY <1>3 DEF Writing, Calling, Callers, boot
  <2>2. QED
    BY <1>3, <2>1, WritesStay DEF WorkerInv
<1>7. QED
  BY <1>1, <1>3, <1>4, <1>5, <1>6, BusyInv DEF WorkerTypeOK, market, Fsms, Awaits, Calls

\* A cycle that throws ends boot, releases the slot or keeps it.
LEMMA ThrowsInv ==
  ASSUME WorkerInv, FsmThrows \/ DeadlineThrows
  PROVE  WorkerInv'
<1>1. /\ WorkerTypeOK /\ HoldsSlot
      /\ fsm.at \in {"deadline", "work", "height"} \/ (Waits("fsm") /\ Writing("fsm"))
  <2>1. ASSUME Waits("fsm") PROVE Writing("fsm")
    <3>1. writes \in Seq(Writes) /\ writes # <<>> /\ Head(writes).who = "fsm"
      BY <2>1 DEF WorkerInv, WritesInv, Waits
    <3>2. Head(writes) = writes[1] /\ 1 \in 1 .. Len(writes)
      BY <3>1, HeadTailProperties, EmptySeq, LenProperties
    <3>3. QED
      BY <3>1, <3>2, WriteFacts DEF WorkerInv
  <2>2. QED
    BY <2>1 DEF WorkerInv, FsmThrows, DeadlineThrows
<1>2. /\ fsm.at \in {"deadline", "work", "height", "setInflight", "pending", "closing"}
      /\ fsm.id \in Bounties /\ fsm.by \in {"boot", "live", "resume"}
  <2>1. fsm.at \in {"deadline", "work", "height", "setInflight", "pending", "closing"}
    BY <1>1 DEF Writing
  <2>2. QED
    BY <1>1, <2>1, FsmFacts
<1>3. UNCHANGED <<market, state, history>> /\ faults' \in 0 .. MaxFaults
  BY <1>1, FaultFacts DEF FsmThrows, DeadlineThrows, files
<1>4. CASE fsm.by = "boot"
  <2>1. Down /\ astray' = astray
    BY <1>4 DEF FsmThrows, DeadlineThrows, files
  <2>2. QED
    BY <1>1, <1>3, <2>1, DownInv DEF WorkerTypeOK
<1>5. CASE fsm.by # "boot"
  <2>1. /\ fsm' = Idle /\ slot' \in {slot, None} /\ UNCHANGED <<events, boot, signer, call>>
        /\ astray' \in {astray, astray \cup {fsm.id}}
    BY <1>2, <1>5 DEF FsmThrows, DeadlineThrows, Throws, Release, files
  <2>2. \/ fsm.at \in {"deadline", "work", "height"} /\ UNCHANGED writes
        \/ Waits("fsm") /\ writes' = Tail(writes)
    BY <1>5 DEF FsmThrows, DeadlineThrows, Throws
  <2>3. WritesInv'
    <3>1. \A who \in Callers \ {"fsm"} : Writing(who) => Writing(who)'
      BY <2>1 DEF Writing, Calling, Callers, boot
    <3>2. CASE fsm.at \in {"deadline", "work", "height"} /\ UNCHANGED writes
      <4>1. ~Writing("fsm")
        BY <3>2 DEF Writing
      <4>2. QED
        BY <3>1, <3>2, <4>1, WritesStay DEF WorkerInv
    <3>3. CASE Waits("fsm") /\ writes' = Tail(writes)
      BY <3>1, <3>3, WriteLeaves DEF WorkerInv, Waits
    <3>4. QED
      BY <2>2, <3>2, <3>3
  <2>4. astray' \subseteq Bounties /\ state' \in WorkerState /\ UNCHANGED <<market, history>>
    BY <1>1, <1>2, <1>3, <2>1 DEF WorkerTypeOK
  <2>5. fsm.at \notin {"idle", "claim", "submit"}
    BY <1>2
  <2>6. QED
    BY <1>3, <2>1, <2>3, <2>4, <2>5, EndInv
<1>6. QED
  BY <1>4, <1>5

\* A write that is overtaken: its caller's bounty goes astray.
LEMMA InVainInv ==
  ASSUME WorkerInv, LandsInVain
  PROVE  /\ WorkerInv' /\ stage \notin Starting
         /\ Head(writes) = writes[1] /\ Head(writes).who \in {"fsm", "monitor"}
         /\ About(Head(writes).who) \in Bounties
         /\ Writing("fsm") /\ Writing("monitor")
<1>1. WorkerTypeOK /\ HoldsSlot /\ OneCall /\ BootInv /\ WritesInv
  BY DEF WorkerInv
<1>2. writes # <<>> /\ Len(writes) > 1 /\ writes' = Tail(writes) /\ state' = Head(writes).next
  BY EmptySeq DEF LandsInVain
<1>3. UNCHANGED <<world, events, history, boot, slot, fsm, signer, call>>
  BY DEF LandsInVain
<1>4. \A who \in Callers : Writing(who) => Writing(who)'
  BY <1>3 DEF Writing, Calling, Callers, boot
<1>5. /\ WritesInv' /\ Head(writes) = writes[1] /\ Len(writes) \in Nat
      /\ 1 \in 1 .. Len(writes) /\ 2 \in 1 .. Len(writes)
  BY <1>1, <1>2, <1>4, WriteLeaves
<1>6. /\ writes[1].who \in Callers /\ writes[2].who \in Callers /\ writes[1].who # writes[2].who
      /\ Writing(writes[1].who) /\ Writing(writes[2].who) /\ writes[1].next \in WorkerState
  <2>1. writes[1].who # writes[2].who
    BY <1>1, <1>5 DEF WritesInv
  <2>2. QED
    BY <1>1, <1>5, <2>1, WriteFacts
<1>7. stage \notin Starting
  <2>1. SUFFICES ASSUME stage \in Starting PROVE FALSE
    OBVIOUS
  <2>2. ~Writing("fsm") /\ ~Writing("monitor")
    BY <1>1, <2>1, FsmFacts DEF Writing, Calling, BootInv
  <2>3. QED
    BY <1>6, <2>2 DEF Callers
<1>8. ~Writing("boot")
  BY <1>7 DEF Writing, Starting
<1>9. Writing("fsm") /\ Writing("monitor") /\ writes[1].who \in {"fsm", "monitor"}
  BY <1>6, <1>8 DEF Callers
<1>10. About(Head(writes).who) \in Bounties
  <2>1. fsm.id \in Bounties /\ fsm # Idle
    BY <1>1, <1>9, FsmFacts DEF Writing
  <2>2. Head(signer).id \in Bounties
    BY <1>1, <1>9, SignerFacts DEF Writing, Calling, Calls
  <2>3. QED
    BY <2>1, <2>2 DEF About
<1>11. astray' \subseteq Bounties
  BY <1>1, <1>10 DEF LandsInVain, WorkerTypeOK
<1>12. signer # <<>> /\ HoldsSlot' /\ OneCall' /\ PaidInv'
  BY <1>1, <1>3, <1>9, PaidKept DEF HoldsSlot, OneCall, world, market, Writing, Calling
<1>13. WorkerInv'
  BY <1>1, <1>2, <1>3, <1>5, <1>6, <1>11, <1>12, BusyInv
  DEF WorkerTypeOK, world, market, Fsms, Awaits, Calls
<1>14. QED
  BY <1>5, <1>7, <1>9, <1>10, <1>13

-------------------------------------------------------------------------------
(* Withdrawals.                                                               *)

LEMMA SettlementInv ==
  ASSUME WorkerInv, WithdrawSkipped \/ WithdrawSettled \/ WithdrawThrows
  PROVE  WorkerInv'
<1>1. WorkerTypeOK /\ HoldsSlot /\ OneCall /\ signer # <<>>
  BY DEF WorkerInv, WithdrawSkipped, WithdrawSettled, WithdrawThrows, Calling
<1>2. Unlock /\ UNCHANGED <<market, events, history, astray, boot, slot, fsm>>
  BY DEF WithdrawSkipped, WithdrawSettled, WithdrawThrows, world, files
<1>3. signer' \in Seq(Calls) /\ call' = "waiting" /\ OneCall'
  BY <1>1, <1>2, HolderLeaves
<1>4. faults' \in 0 .. MaxFaults
  <2>1. CASE WithdrawThrows
    BY <1>1, <2>1, FaultFacts DEF WithdrawThrows
  <2>2. CASE ~WithdrawThrows
    BY <1>1, <2>2 DEF WithdrawSkipped, WithdrawSettled, world, WorkerTypeOK
  <2>3. QED
    BY <2>1, <2>2
<1>5. state' \in WorkerState /\ WritesInv'
  <2>1. \A who \in Callers \ {"monitor"} : Writing(who) => Writing(who)'
    BY <1>2 DEF Writing, Callers, boot
  <2>2. CASE WithdrawSettled
    BY <1>1, <2>2, LandFacts, NothingWaits DEF WithdrawSettled, Lands
  <2>3. CASE WithdrawSkipped \/ WithdrawThrows
    <3>1. state' \in WorkerState
      BY <1>1, <2>3 DEF WithdrawSkipped, WithdrawThrows, files, WorkerTypeOK
    <3>2. \/ ~Writing("monitor") /\ UNCHANGED writes
          \/ Waits("monitor") /\ writes' = Tail(writes)
      BY <2>3 DEF WithdrawSkipped, WithdrawThrows, Writing
    <3>3. CASE ~Writing("monitor") /\ UNCHANGED writes
      BY <2>1, <3>1, <3>3, WritesStay DEF WorkerInv
    <3>4. CASE Waits("monitor") /\ writes' = Tail(writes)
      BY <2>1, <3>1, <3>4, WriteLeaves DEF WorkerInv, Waits
    <3>5. QED
      BY <3>2, <3>3, <3>4
  <2>4. QED
    BY <2>2, <2>3
<1>6. HoldsSlot' /\ PaidInv'
  BY <1>1, <1>2, <1>3, PaidKept DEF HoldsSlot, market
<1>7. QED
  BY <1>1, <1>2, <1>3, <1>4, <1>5, <1>6, BusyInv DEF WorkerTypeOK, Fsms, Awaits, market

\* The answer "ok" to a withdrawal is a payment.
LEMMA WithdrawLandsInv ==
  ASSUME WorkerInv, WithdrawLands
  PROVE  WorkerInv'
<1>1. /\ WorkerTypeOK /\ HoldsSlot /\ OneCall /\ signer # <<>>
      /\ \A c \in Bounties : chain[c].status = "Withdrawn" => c \in paid
  BY DEF WorkerInv, WithdrawLands, Calling, PaidInv
<1>2. Withdrawing \in Bounties /\ Withdrawing = Head(signer).id
  BY <1>1, SignerFacts DEF Withdrawing, Calls
<1>3. UNCHANGED <<faults, events, files, boot, slot, fsm, signer, writes>> /\ call = "waiting"
  BY DEF WithdrawLands
<1>4. \/ call' = "ok" /\ Becomes(Withdrawing, "Withdrawn", TRUE)
      \/ call' = "err" /\ UNCHANGED market
  BY DEF WithdrawLands
<1>5. /\ chain' \in [Bounties -> OnChain] /\ view' \in [Bounties -> OnChain]
      /\ paid' \subseteq Bounties /\ paid \subseteq paid'
      /\ \A c \in Bounties : chain'[c].status = "Withdrawn" => c \in paid'
      /\ call' = "ok" => Withdrawing \in paid'
      /\ call' \in {"ok", "err"}
  <2>1. CASE call' = "ok" /\ Becomes(Withdrawing, "Withdrawn", TRUE)
    <3>1. "Withdrawn" \in Statuses /\ Withdrawing \in paid'
      BY <2>1 DEF Statuses, Becomes
    <3>2. QED
      BY <1>1, <1>2, <2>1, <3>1, BecomesFacts
  <2>2. CASE call' = "err" /\ UNCHANGED market
    BY <1>1, <2>2 DEF WorkerTypeOK, market
  <2>3. QED
    BY <1>4, <2>1, <2>2
<1>6. OneCall' /\ HoldsSlot'
  BY <1>1, <1>3 DEF OneCall, HoldsSlot
<1>7. PaidInv'
  BY <1>1, <1>2, <1>3, <1>5 DEF WorkerInv, PaidInv, files
<1>8. WritesInv'
  <2>1. \A who \in Callers : Writing(who) => Writing(who)'
    BY <1>3 DEF Writing, Calling, Callers, boot
  <2>2. QED
    BY <1>3, <2>1, WritesStay DEF WorkerInv
<1>9. QED
  BY <1>1, <1>3, <1>5, <1>6, <1>7, <1>8, BusyInv DEF WorkerTypeOK, files, Fsms, Awaits, Calls

LEMMA WithdrawReturnsInv ==
  ASSUME WorkerInv, WithdrawReturns
  PROVE  WorkerInv'
<1>1. WorkerTypeOK /\ HoldsSlot /\ OneCall /\ signer # <<>> /\ Head(signer).op = "withdraw"
  BY DEF WorkerInv, WithdrawReturns, Calling
<1>2. Withdrawing \in Bounties /\ Withdrawing = Head(signer).id
  BY <1>1, SignerFacts DEF Withdrawing, Calls
<1>3. /\ UNCHANGED <<world, events, state, astray, boot, slot, fsm, signer>>
      /\ call # "writing" /\ call' = "writing"
  BY DEF WithdrawReturns
<1>4. WritesInv'
  <2>1. /\ clearPendingAccept(state, Withdrawing) \in WorkerState
        /\ Write("monitor", clearPendingAccept(state, Withdrawing))
    BY <1>1, <1>2, StateFacts DEF WithdrawReturns
  <2>2. /\ \A who \in Callers : Writing(who) => Writing(who)'
        /\ ~Writing("monitor") /\ Writing("monitor")'
    BY <1>1, <1>3 DEF Writing, Calling, Callers, boot
  <2>3. QED
    BY <2>1, <2>2, WriteJoins DEF WorkerInv, Callers
<1>5. /\ history' \in [Bounties -> SUBSET {"done", "abandoned"}]
      /\ \A b \in Bounties : "done" \in history'[b] =>
           "done" \in history[b] \/ (b = Withdrawing /\ call = "ok")
  <2>1. /\ Outcome \in {"done", "abandoned"} /\ (Outcome = "done" => call = "ok")
        /\ history' = [history EXCEPT ![Withdrawing] = @ \cup {Outcome}]
    BY DEF WithdrawReturns, Record, Outcome
  <2>2. history \in [Bounties -> SUBSET {"done", "abandoned"}]
    BY <1>1 DEF WorkerTypeOK
  <2>3. QED
    BY <1>2, <2>1, <2>2
<1>6. OneCall' /\ HoldsSlot'
  BY <1>1, <1>3 DEF OneCall, HoldsSlot
<1>7. PaidInv'
  BY <1>1, <1>2, <1>3, <1>5 DEF WorkerInv, PaidInv, world, market
<1>8. QED
  BY <1>1, <1>3, <1>4, <1>5, <1>6, <1>7, BusyInv
  DEF WorkerTypeOK, world, market, Fsms, Awaits, Calls

-------------------------------------------------------------------------------
(* Boot and delivery.                                                         *)

\* What boot and the two subscriptions change, the types of it included.
LEMMA BootedInv ==
  ASSUME WorkerInv, UNCHANGED market, astray' \subseteq Bounties,
         faults' \in 0 .. MaxFaults, offers' \subseteq Bounties, accepts' \subseteq Bounties,
         state' \in WorkerState, history' \in [Bounties -> SUBSET {"done", "abandoned"}],
         stage' \in Stages, todo' \subseteq Bounties, surfaced' \subseteq Bounties,
         posted' \subseteq Bounties, bootBuffer' \in Seq(Bounties),
         slot' \in Bounties \cup {None}, fsm' \in Fsms, signer' \in Seq(Calls), call' = call,
         HoldsSlot', OneCall', BootInv', WritesInv', PaidInv'
  PROVE  WorkerInv'
<1>1. WorkerTypeOK'
  BY WritesTypes DEF WorkerInv, WorkerTypeOK, Stages, Starting, Fsms, Awaits, Calls, market
<1>2. QED
  BY <1>1 DEF WorkerInv

\* The types of what stays.
LEMMA TypesOf ==
  ASSUME WorkerTypeOK
  PROVE  /\ state \in WorkerState /\ history \in [Bounties -> SUBSET {"done", "abandoned"}]
         /\ faults \in 0 .. MaxFaults /\ offers \subseteq Bounties /\ accepts \subseteq Bounties
         /\ stage \in Stages /\ todo \subseteq Bounties /\ surfaced \subseteq Bounties
         /\ posted \subseteq Bounties /\ bootBuffer \in Seq(Bounties)
         /\ slot \in Bounties \cup {None} /\ fsm \in Fsms /\ signer \in Seq(Calls)
         /\ view \in [Bounties -> OnChain] /\ chain \in [Bounties -> OnChain]
         /\ paid \subseteq Bounties /\ astray \subseteq Bounties
BY DEF WorkerTypeOK, Stages, Starting, Fsms, Awaits, Calls

\* Stages of boot at which nothing but boot's own variables changes.
LEMMA StagesInv ==
  ASSUME WorkerInv, Boot \/ Discover \/ CatchUp \/ DrainAndGoHot \/ StartMonitor
  PROVE  WorkerInv'
<1>1. WorkerTypeOK /\ HoldsSlot /\ OneCall /\ BootInv
  BY DEF WorkerInv
<1>2. UNCHANGED <<market, faults, offers, accepts, state, history, astray, slot, fsm, signer,
                  call, writes>>
  BY DEF Boot, Discover, CatchUp, DrainAndGoHot, StartMonitor, world, events, files, volatile
<1>3. /\ stage' \in Stages /\ todo' \subseteq Bounties /\ surfaced' \subseteq Bounties
      /\ posted' \subseteq Bounties /\ bootBuffer' = bootBuffer
  <2>1. state.pending \subseteq Bounties
    BY <1>1 DEF WorkerTypeOK, WorkerState
  <2>2. QED
    BY <1>1, <2>1 DEF WorkerTypeOK, Boot, Discover, CatchUp, DrainAndGoHot, StartMonitor,
                      Stages, Starting
<1>4. BootInv'
  <2>1. CASE Boot
    BY <1>1, <1>2, <2>1 DEF Boot, BootInv, Starting
  <2>2. CASE ~Boot
    <3>1. stage' \notin Starting
      BY <2>2 DEF Discover, CatchUp, DrainAndGoHot, StartMonitor, Starting
    <3>2. QED
      BY <3>1 DEF BootInv, Starting
  <2>3. QED
    BY <2>1, <2>2
<1>5. HoldsSlot' /\ OneCall' /\ PaidInv'
  BY <1>1, <1>2, PaidKept DEF HoldsSlot, OneCall, market
<1>6. WritesInv'
  <2>1. ~Writing("boot")
    BY DEF Writing, Boot, Discover, CatchUp, DrainAndGoHot, StartMonitor
  <2>2. \A who \in Callers : Writing(who) => Writing(who)'
    BY <1>2, <2>1 DEF Writing, Calling, Callers
  <2>3. QED
    BY <1>2, <2>2, WritesStay DEF WorkerInv
<1>7. QED
  BY <1>1, <1>2, <1>3, <1>4, <1>5, <1>6, TypesOf, BootedInv

\* The resume check decides from the row: the file or the FSM.
LEMMA ResumeInv ==
  ASSUME WorkerInv, ResumeAbandons \/ ResumeClears \/ ResumeRebuilds
  PROVE  WorkerInv'
<1>1. WorkerTypeOK /\ HoldsSlot /\ OneCall /\ BootInv /\ stage = "resume"
  BY DEF WorkerInv, ResumeAbandons, ResumeClears, ResumeRebuilds
<1>2. state.inflight \in Bounties
  BY <1>1 DEF BootInv, WorkerTypeOK, WorkerState
<1>3. /\ UNCHANGED <<market, faults, offers, accepts, state, todo, surfaced, posted,
                    bootBuffer, slot, fsm, signer, call>>
      /\ stage' \in {"clearing", "rebuilding"} /\ astray' \subseteq Bounties
  BY <1>1, <1>2 DEF RowBelieved, WorkerTypeOK, ResumeAbandons, ResumeClears, ResumeRebuilds, world, events, files
<1>4. /\ history' \in [Bounties -> SUBSET {"done", "abandoned"}]
      /\ \A b \in Bounties : "done" \in history'[b] => "done" \in history[b]
  <2>1. \/ history' = history
        \/ history' = [history EXCEPT ![state.inflight] = @ \cup {"abandoned"}]
    BY DEF ResumeAbandons, ResumeClears, ResumeRebuilds, files, Record
  <2>2. history \in [Bounties -> SUBSET {"done", "abandoned"}]
    BY <1>1 DEF WorkerTypeOK
  <2>3. QED
    BY <1>2, <2>1, <2>2
<1>5. WritesInv'
  <2>1. PICK next \in WorkerState : Write("boot", next)
    BY <1>1, <1>2, StateFacts DEF ResumeAbandons, ResumeClears, ResumeRebuilds
  <2>2. /\ \A who \in Callers : Writing(who) => Writing(who)'
        /\ ~Writing("boot") /\ Writing("boot")'
    BY <1>1, <1>3 DEF Writing, Calling, Callers
  <2>3. QED
    BY <2>1, <2>2, WriteJoins DEF WorkerInv, Callers
<1>6. HoldsSlot' /\ OneCall' /\ BootInv'
  BY <1>1, <1>3 DEF HoldsSlot, OneCall, BootInv, Starting
<1>7. PaidInv'
  BY <1>3, <1>4 DEF WorkerInv, PaidInv, market
<1>8. stage' \in Stages
  BY <1>3 DEF Stages, Starting
<1>9. QED
  BY <1>1, <1>3, <1>4, <1>5, <1>6, <1>7, <1>8, TypesOf, BootedInv

LEMMA ResumeWorksInv ==
  ASSUME WorkerInv, ResumeWorks
  PROVE  WorkerInv'
<1>1. WorkerTypeOK /\ HoldsSlot /\ OneCall /\ BootInv /\ stage = "resume"
  BY DEF WorkerInv, ResumeWorks
<1>2. state.inflight \in Bounties /\ signer = <<>> /\ fsm = Idle
  BY <1>1 DEF BootInv, WorkerTypeOK, WorkerState, Starting
<1>3. /\ UNCHANGED <<market, faults, offers, accepts, state, history, todo, surfaced,
                     posted, bootBuffer, signer, call, writes>>
      /\ stage' = "discover" /\ slot' = state.inflight
      /\ fsm' = [at |-> "work", id |-> state.inflight, by |-> "resume"]
      /\ astray' \subseteq Bounties
  BY <1>1, <1>2 DEF ResumeWorks, RowBelieved, WorkerTypeOK, world, events, files
<1>4. fsm' \in Fsms
  BY <1>2, <1>3 DEF Fsms, Awaits
<1>5. HoldsSlot' /\ BootInv' /\ stage' \in Stages
  BY <1>3 DEF HoldsSlot, BootInv, Starting, Stages
<1>6. OneCall'
  BY <1>2, <1>3, EmptySeq DEF OneCall
<1>7. PaidInv'
  BY <1>3, PaidKept DEF market
<1>8. WritesInv'
  BY <1>1, <1>3, NothingWaits DEF BootInv
<1>9. QED
  BY <1>1, <1>2, <1>3, <1>4, <1>5, <1>6, <1>7, <1>8, TypesOf, BootedInv

LEMMA ResumeWritesInv ==
  ASSUME WorkerInv, Rebuilt \/ Cleared
  PROVE  WorkerInv'
<1>1. WorkerTypeOK /\ HoldsSlot /\ OneCall /\ BootInv /\ stage \in {"rebuilding", "clearing"}
  BY DEF WorkerInv, Rebuilt, Cleared
<1>2. UNCHANGED <<market, faults, offers, accepts, history, astray, todo, surfaced, posted,
                  bootBuffer, slot, fsm, signer, call>>
  BY DEF Rebuilt, Cleared, world, events
<1>3. stage' \in {"clearing", "discover"} /\ Landed("boot")
  BY DEF Rebuilt, Cleared, Lands, LandsThenWrites
<1>4. state' \in WorkerState
  BY <1>1, <1>3, LandFacts
<1>5. WritesInv'
  <2>1. CASE Cleared
    BY <2>1, NothingWaits DEF Cleared, Lands
  <2>2. CASE Rebuilt
    <3>1. writes' = <<[who |-> "boot", next |-> clearInflight(state')]>> /\ Writing("boot")'
      BY <2>2 DEF Rebuilt, LandsThenWrites, Writing
    <3>2. clearInflight(state') \in WorkerState
      BY <1>4 DEF WorkerState, clearInflight
    <3>3. QED
      BY <3>1, <3>2, WriteAgain DEF Callers
  <2>3. QED
    BY <2>1, <2>2
<1>6. HoldsSlot' /\ OneCall' /\ BootInv' /\ stage' \in Stages
  BY <1>1, <1>2, <1>3 DEF HoldsSlot, OneCall, BootInv, Starting, Stages
<1>7. PaidInv'
  BY <1>2, PaidKept DEF market
<1>8. QED
  BY <1>1, <1>2, <1>4, <1>5, <1>6, <1>7, TypesOf, BootedInv

\* A candidate takes the slot only when it is free, and then no cycle runs.
LEMMA OfferFacts ==
  ASSUME WorkerTypeOK, HoldsSlot, OneCall, NEW b \in Bounties, NEW by \in {"boot", "live"},
         Offer(b, by), signer' = signer
  PROVE  slot' \in Bounties \cup {None} /\ fsm' \in Fsms /\ HoldsSlot' /\ OneCall'
<1>1. CASE UNCHANGED <<slot, fsm>>
  BY <1>1, TypesOf DEF HoldsSlot, OneCall
<1>2. CASE /\ slot = None /\ slot' = b
           /\ fsm' = [at |-> "deadline", id |-> b, by |-> by]
  <2>1. fsm = Idle /\ fsm.at = "idle"
    BY <1>2, FsmFacts
  <2>2. fsm' \in Fsms /\ slot' \in Bounties
    BY <1>2 DEF Fsms, Awaits
  <2>3. HoldsSlot'
    BY <1>2 DEF HoldsSlot
  <2>4. OneCall'
    BY <2>1, NoOwnCall DEF OneCall
  <2>5. QED
    BY <2>2, <2>3, <2>4
<1>3. QED
  BY <1>1, <1>2 DEF Offer

LEMMA OfferInv ==
  ASSUME WorkerInv, OfferNext \/ \E b \in Bounties : DeliverPosted(b)
  PROVE  WorkerInv'
<1>1. WorkerTypeOK /\ HoldsSlot /\ OneCall /\ BootInv
  BY DEF WorkerInv
<1>2. /\ UNCHANGED <<market, faults, accepts, state, history, astray, stage, surfaced,
                     bootBuffer, signer, call, writes>>
      /\ offers' \subseteq Bounties /\ todo' \subseteq Bounties /\ posted' \subseteq Bounties
      /\ stage \notin Starting
  <2>1. CASE OfferNext
    BY <1>1, <2>1 DEF OfferNext, world, events, files, WorkerTypeOK, Starting
  <2>2. CASE \E b \in Bounties : DeliverPosted(b)
    BY <1>1, <2>2 DEF DeliverPosted, world, files, WorkerTypeOK, Starting, Discovering, Hot
  <2>3. QED
    BY <2>1, <2>2
<1>3. \/ UNCHANGED <<slot, fsm>>
      \/ \E b \in Bounties, by \in {"boot", "live"} : Offer(b, by)
  BY <1>1 DEF OfferNext, DeliverPosted, WorkerTypeOK
<1>4. slot' \in Bounties \cup {None} /\ fsm' \in Fsms /\ HoldsSlot' /\ OneCall'
  <2>1. CASE UNCHANGED <<slot, fsm>>
    BY <1>1, <1>2, <2>1, TypesOf DEF HoldsSlot, OneCall
  <2>2. CASE \E b \in Bounties, by \in {"boot", "live"} : Offer(b, by)
    BY <1>1, <1>2, <2>2, OfferFacts
  <2>3. QED
    BY <1>3, <2>1, <2>2
<1>5. BootInv' /\ PaidInv'
  BY <1>2, PaidKept DEF BootInv, Starting, market
<1>6. WritesInv'
  <2>1. Writing("fsm") => fsm' = fsm
    <3>1. Writing("fsm") => slot # None
      BY <1>1, FsmFacts DEF Writing
    <3>2. QED
      BY <3>1 DEF OfferNext, DeliverPosted, Offer
  <2>2. \A who \in Callers : Writing(who) => Writing(who)'
    BY <1>2, <2>1 DEF Writing, Calling, Callers
  <2>3. QED
    BY <1>2, <2>2, WritesStay DEF WorkerInv
<1>7. QED
  BY <1>1, <1>2, <1>4, <1>5, <1>6, TypesOf, BootedInv

\* The ids the monitor goes through are bounties.
LEMMA AnswersFacts ==
  ASSUME NEW S \in SUBSET Bounties, bootBuffer \in Seq(S),
         NEW rows \in SUBSET S, NEW answer \in SetToSeqs(rows)
  PROVE  answer \o bootBuffer \in Seq(S)
<1>1. IsFiniteSet(rows) /\ rows \subseteq S
  BY WorkerAssumption, FS_Subset
<1>2. Cardinality(rows) \in Nat
  BY <1>1, FS_CardinalityType
<1>3. answer \in [1 .. Cardinality(rows) -> S]
  BY <1>1 DEF SetToSeqs
<1>4. answer \in Seq(S)
  BY <1>2, <1>3, SeqDef
<1>5. QED
  BY <1>4, ConcatProperties

LEMMA MonitorInv ==
  ASSUME WorkerInv, BootResume \/ BootResumeFails \/ \E b \in Bounties : DeliverAccepted(b)
  PROVE  WorkerInv'
<1>1. WorkerTypeOK /\ HoldsSlot /\ OneCall /\ BootInv
  BY DEF WorkerInv
<1>2. CASE BootResume \/ BootResumeFails
  <2>1. PICK rows \in SUBSET todo : MonitorLive(rows)
    BY <1>2 DEF BootResume, BootResumeFails
  <2>2. /\ stage = "accepted" /\ stage' = "live" /\ todo' = {} /\ bootBuffer' = <<>>
        /\ UNCHANGED <<market, offers, accepts, state, history, astray, surfaced, posted,
                       slot, fsm, call, writes>>
    BY <2>1 DEF MonitorLive, events, files
  <2>3. faults' \in 0 .. MaxFaults
    BY <1>1, <1>2, FaultFacts DEF BootResume, BootResumeFails, WorkerTypeOK
  <2>4. PICK answer \in SetToSeqs(rows) : AwaitWithdrawals(answer \o bootBuffer)
    BY <2>1 DEF MonitorLive
  <2>5. answer \o bootBuffer \in Seq(Bounties)
    <3>1. bootBuffer \in Seq(Bounties) /\ rows \subseteq Bounties
      BY <1>1, <2>1 DEF WorkerTypeOK
    <3>2. QED
      BY <2>4, <3>1, AnswersFacts
  <2>6. /\ signer' \in Seq(Calls) /\ OneCall'
        /\ signer # <<>> => signer' # <<>> /\ Head(signer') = Head(signer)
    BY <1>1, <2>2, <2>4, <2>5, WithdrawalsJoin
  <2>7. HoldsSlot' /\ BootInv' /\ stage' \in Stages /\ bootBuffer' \in Seq(Bounties)
    BY <1>1, <2>2, EmptySeq DEF HoldsSlot, BootInv, Starting, Stages
  <2>8. PaidInv'
    BY <2>2, <2>6, PaidKept DEF market
  <2>9. WritesInv'
    <3>1. \A who \in Callers : Writing(who) => Writing(who)'
      BY <2>2, <2>6 DEF Writing, Calling, Callers
    <3>2. QED
      BY <2>2, <3>1, WritesStay DEF WorkerInv
  <2>10. QED
    BY <1>1, <2>2, <2>3, <2>6, <2>7, <2>8, <2>9, TypesOf, BootedInv
<1>3. ASSUME NEW b \in Bounties, DeliverAccepted(b) PROVE WorkerInv'
  <2>1. /\ UNCHANGED <<market, faults, offers, state, history, astray, stage, todo, surfaced,
                       posted, slot, fsm, call, writes>>
        /\ accepts' \subseteq Bounties
    BY <1>1, <1>3 DEF DeliverAccepted, world, files, WorkerTypeOK
  <2>2. CASE stage = "live"
    <3>1. <<b>> \in Seq(Bounties) /\ AwaitWithdrawals(<<b>>) /\ bootBuffer' = bootBuffer
      BY <1>3, <2>2 DEF DeliverAccepted
    <3>2. /\ signer' \in Seq(Calls) /\ OneCall'
          /\ signer # <<>> => signer' # <<>> /\ Head(signer') = Head(signer)
      BY <1>1, <2>1, <3>1, WithdrawalsJoin
    <3>3. HoldsSlot' /\ BootInv'
      BY <1>1, <2>1, <2>2 DEF HoldsSlot, BootInv, Starting
    <3>4. PaidInv'
      BY <2>1, <3>2, PaidKept DEF market
    <3>5. WritesInv'
      <4>1. \A who \in Callers : Writing(who) => Writing(who)'
        BY <2>1, <3>2 DEF Writing, Calling, Callers
      <4>2. QED
        BY <2>1, <4>1, WritesStay DEF WorkerInv
    <3>6. QED
      BY <1>1, <2>1, <3>1, <3>2, <3>3, <3>4, <3>5, TypesOf, BootedInv
  <2>3. CASE stage # "live"
    <3>1. signer' = signer /\ bootBuffer' = Append(bootBuffer, b)
      BY <1>3, <2>3 DEF DeliverAccepted
    <3>2. bootBuffer' \in Seq(Bounties)
      BY <1>1, <3>1, TypesOf, AppendProperties
    <3>3. HoldsSlot' /\ OneCall' /\ BootInv'
      BY <1>1, <2>1, <3>1 DEF HoldsSlot, OneCall, BootInv
    <3>4. PaidInv'
      BY <2>1, <3>1, PaidKept DEF market
    <3>5. WritesInv'
      <4>1. \A who \in Callers : Writing(who) => Writing(who)'
        BY <2>1, <3>1 DEF Writing, Calling, Callers
      <4>2. QED
        BY <2>1, <4>1, WritesStay DEF WorkerInv
    <3>6. QED
      BY <1>1, <2>1, <3>1, <3>2, <3>3, <3>4, <3>5, TypesOf, BootedInv
  <2>4. QED
    BY <2>2, <2>3
<1>4. QED
  BY <1>2, <1>3

LEMMA BootThrowsInv ==
  ASSUME WorkerInv, BootThrows \/ Crash
  PROVE  WorkerInv'
<1>1. WorkerTypeOK
  BY DEF WorkerInv
<1>2. /\ Down /\ UNCHANGED <<market, state, history>> /\ faults' \in 0 .. MaxFaults
      /\ astray' \subseteq Bounties
  BY <1>1, FaultFacts DEF BootThrows, Crash, files, WorkerTypeOK
<1>3. QED
  BY <1>2, DownInv

LEMMA StutterInv ==
  ASSUME WorkerInv, UNCHANGED workerVars
  PROVE  WorkerInv'
<1>1. UNCHANGED <<files, process, chain, view, paid, faults, offers, accepts>>
  BY DEF workerVars, world, market, events, process
<1>2. QED
  BY <1>1, OutsideInv, TypesOf DEF WorkerInv, PaidInv

\* Every step preserves WorkerInv.
LEMMA NextWorkerInv == WorkerInv /\ [Next]_workerVars => WorkerInv'
<1> SUFFICES ASSUME WorkerInv, [Next]_workerVars PROVE WorkerInv'
  OBVIOUS
<1>1. CASE World
  BY <1>1, WorldInv
<1>2. CASE FaultStep
  <2>1. \/ \E b \in Bounties : Repeat(b) \/ Lose(b)
        \/ Crash \/ CallPaused \/ CallThrows \/ FsmThrows \/ DeadlineThrows \/ WithdrawThrows
        \/ BootThrows \/ BootResumeFails
    BY <1>2 DEF FaultStep
  <2>2. QED
    BY <2>1, WorldInv, BootThrowsInv, PausedInv, AbandonedInv, ThrowsInv, SettlementInv, MonitorInv
<1>3. CASE Cycle
  BY <1>3, PassInv, OverInv, AskInv, LandsInv, ReturnsInv, AbandonedInv, PendingAddedInv DEF Cycle
<1>4. CASE Settlement
  BY <1>4, SettlementInv, WithdrawLandsInv, WithdrawReturnsInv DEF Settlement
<1>5. CASE Booting
  BY <1>5, StagesInv, ResumeInv, ResumeWorksInv, ResumeWritesInv, OfferInv, MonitorInv DEF Booting
<1>6. CASE Delivery
  BY <1>6, OfferInv, MonitorInv DEF Delivery
<1>7. CASE LandsInVain
  BY <1>7, InVainInv
<1>8. CASE UNCHANGED workerVars
  BY <1>8, StutterInv
<1>9. QED
  BY <1>1, <1>2, <1>3, <1>4, <1>5, <1>6, <1>7, <1>8 DEF Next

LEMMA WorkerInvariance == Spec => []WorkerInv
BY InitWorkerInv, NextWorkerInv, PTL DEF Spec

\* Every variable keeps its type, whatever fails (services/worker/src).
THEOREM WorkerTypeCorrectness == Spec => []WorkerTypeOK
<1>1. WorkerInv => WorkerTypeOK
  BY DEF WorkerInv
<1>2. QED
  BY <1>1, WorkerInvariance, PTL

\* The history never says "done" of a reward that was not paid, although calls
\* throw after they landed, acceptances come twice and the indexer lags
\* (fsm/withdraw.ts).
THEOREM HistoryNeverLies == Spec => []HistoryTruthful
<1>1. WorkerInv => HistoryTruthful
  BY DEF WorkerInv, PaidInv, HistoryTruthful
<1>2. QED
  BY <1>1, WorkerInvariance, PTL
-------------------------------------------------------------------------------
(* The state file, and its writes that wait.                                  *)

\* What a state of the file and the present one say alike of the bounties that
\* have not gone astray.
SameInflight(s) == \A b \in Bounties \ astray : s.inflight = b <=> state.inflight = b
SameBut(s, c) == \A b \in Bounties \ astray : b # c => (b \in s.pending <=> b \in state.pending)

CarriesFsm(s) ==
  /\ fsm.at = "setInflight" => s.inflight = fsm.id /\ SameBut(s, None)
  /\ fsm.at = "pending" => SameInflight(s) /\ fsm.id \in s.pending /\ SameBut(s, fsm.id)
  /\ fsm.at = "closing" => s.inflight = None /\ SameBut(s, None)

CarriesMonitor(s) == SameInflight(s) /\ SameBut(s, Head(signer).id)

CarriesBoot(s) ==
  s = IF stage = "clearing" THEN clearInflight(state)
      ELSE addPendingAccept(state, state.inflight)

Carries(w) ==
  /\ w.who = "fsm" => CarriesFsm(w.next)
  /\ w.who = "monitor" => CarriesMonitor(w.next)
  /\ w.who = "boot" => CarriesBoot(w.next)

CarryInv ==
  /\ \A i \in 1 .. Len(writes) : Carries(writes[i])
  /\ Writing("fsm") => Queues("fsm") \/ fsm.id \in astray
  /\ Writing("boot") => Queues("boot")
  /\ Writing("monitor") => history[Head(signer).id] # {}

\* The bounty in flight on file holds the slot, once its claim is under way.
FlowInv ==
  /\ stage \notin Starting /\ state.inflight \notin astray \cup {None} =>
       slot = state.inflight /\ fsm.at # "deadline"
  /\ fsm.at \in {"claim", "work", "submit", "height", "pending"} =>
       state.inflight = fsm.id \/ fsm.id \in astray

FileInv == CarryInv /\ FlowInv

\* Who writes: the FSM and the monitor never beside boot.
LEMMA WriterFacts ==
  ASSUME WorkerInv
  PROVE  /\ Writing("fsm") => fsm # Idle /\ fsm.id \in Bounties /\ slot = fsm.id
         /\ Writing("monitor") => signer # <<>> /\ Head(signer).id \in Bounties
         /\ Writing("fsm") \/ Writing("monitor") => stage \notin Starting /\ ~Writing("boot")
         /\ fsm # Idle => stage \notin Starting /\ fsm.id \in Bounties /\ slot = fsm.id
         /\ state.inflight \in Bounties \cup {None} /\ state.pending \subseteq Bounties
<1>1. WorkerTypeOK /\ HoldsSlot /\ BootInv
  BY DEF WorkerInv
<1>2. Writing("fsm") => fsm # Idle /\ fsm.id \in Bounties /\ slot = fsm.id
  BY <1>1, FsmFacts DEF Writing
<1>3. Writing("monitor") => signer # <<>> /\ Head(signer).id \in Bounties
  BY <1>1, SignerFacts DEF Writing, Calling, Calls
<1>4. Writing("fsm") \/ Writing("monitor") => stage \notin Starting
  BY <1>1, <1>2, <1>3 DEF BootInv
<1>5. stage \notin Starting => ~Writing("boot")
  BY DEF Writing, Starting
<1>6. fsm # Idle => fsm.id \in Bounties /\ slot = fsm.id /\ stage \notin Starting
  BY <1>1, FsmFacts DEF BootInv
<1>7. QED
  BY <1>1, <1>2, <1>3, <1>4, <1>5, <1>6 DEF WorkerTypeOK, WorkerState

\* What a write that waits would change.
LEMMA WhatWaits ==
  ASSUME WorkerInv, FileInv, NEW i \in 1 .. Len(writes)
  PROVE  /\ Writing(writes[i].who) /\ writes[i].who \in Callers
         /\ \A b \in Bounties \ astray :
              /\ state.inflight = b => writes[i].next.inflight \in {b, None}
              /\ b \in state.pending => b \in writes[i].next.pending \/ history[b] # {}
<1>1. WorkerTypeOK /\ WritesInv /\ CarryInv /\ FlowInv
  BY DEF WorkerInv, FileInv
<1> DEFINE w == writes[i]
<1>2. Writing(w.who) /\ w.who \in Callers
  BY <1>1, WriteFacts
<1>3. SUFFICES ASSUME NEW b \in Bounties \ astray
               PROVE  /\ state.inflight = b => w.next.inflight \in {b, None}
                      /\ b \in state.pending => b \in w.next.pending \/ history[b] # {}
  BY <1>2
<1>4. b # None
  BY WorkerAssumption
<1>5. CASE w.who = "fsm"
  <2>1. CarriesFsm(w.next) /\ Writing("fsm")
    BY <1>1, <1>2, <1>5 DEF CarryInv, Carries
  <2>2. state.inflight = b => fsm.id = b
    BY <1>1, <1>4, <2>1, WriterFacts DEF FlowInv
  <2>3. QED
    BY <1>4, <2>1, <2>2 DEF CarriesFsm, SameInflight, SameBut, Writing
<1>6. CASE w.who = "monitor"
  <2>1. CarriesMonitor(w.next) /\ history[Head(signer).id] # {}
    BY <1>1, <1>2, <1>6 DEF CarryInv, Carries
  <2>2. QED
    BY <2>1 DEF CarriesMonitor, SameInflight, SameBut
<1>7. CASE w.who = "boot"
  <2>1. CarriesBoot(w.next)
    BY <1>1, <1>7 DEF CarryInv, Carries
  <2>2. QED
    BY <1>1, <2>1 DEF CarriesBoot, clearInflight, addPendingAccept, WorkerTypeOK, WorkerState
<1>8. QED
  BY <1>2, <1>5, <1>6, <1>7 DEF Callers

\* Who else waits when the first write leaves the queue.
LEMMA OthersWait ==
  ASSUME WritesInv, writes # <<>>, writes' = Tail(writes), NEW c \in Callers,
         Head(writes).who # c, Queues(c)
  PROVE  Queues(c)'
<1>1. writes \in Seq(Writes) /\ Len(writes) \in Nat \ {0}
  BY EmptySeq, LenProperties DEF WritesInv
<1>2. /\ Len(writes') = Len(writes) - 1 /\ Head(writes) = writes[1]
      /\ \A i \in 1 .. Len(writes) - 1 : writes'[i] = writes[i + 1]
  BY <1>1, HeadTailProperties
<1>3. PICK i \in 1 .. Len(writes) : writes[i].who = c
  BY DEF Queues
<1>4. i # 1 /\ i - 1 \in 1 .. Len(writes) - 1 /\ (i - 1) + 1 = i
  BY <1>1, <1>2, <1>3
<1>5. writes'[i - 1].who = c /\ i - 1 \in 1 .. Len(writes')
  BY <1>2, <1>3, <1>4
<1>6. QED
  BY <1>5 DEF Queues

\* What a write carries, it carries on as long as the file and its caller stay.
LEMMA CarriesStays ==
  ASSUME NEW w, Carries(w), UNCHANGED state, astray \subseteq astray',
         w.who = "fsm" => fsm' = fsm,
         w.who = "monitor" => Head(signer') = Head(signer),
         w.who = "boot" => stage' = stage
  PROVE  Carries(w)'
<1>1. w.who = "fsm" => CarriesFsm(w.next)'
  BY DEF Carries, CarriesFsm, SameInflight, SameBut
<1>2. w.who = "monitor" => CarriesMonitor(w.next)'
  BY DEF Carries, CarriesMonitor, SameInflight, SameBut
<1>3. w.who = "boot" => CarriesBoot(w.next)'
  BY DEF Carries, CarriesBoot, clearInflight, addPendingAccept
<1>4. QED
  BY <1>1, <1>2, <1>3 DEF Carries

\* The file and its writes stay, and so do those who wait for one.
LEMMA CarryKept ==
  ASSUME WorkerInv, CarryInv, UNCHANGED <<state, writes>>, astray \subseteq astray',
         \A b \in Bounties : history[b] # {} => history'[b] # {},
         Writing("fsm") \/ Writing("fsm")' => fsm' = fsm,
         Writing("boot") \/ Writing("boot")' => stage' = stage,
         Writing("monitor") => Head(signer') = Head(signer),
         Writing("monitor")' => Writing("monitor")
  PROVE  CarryInv'
<1>1. ASSUME NEW w, NEW i \in 1 .. Len(writes), w = writes[i] PROVE Carries(w)'
  <2>1. Writing(w.who) /\ Carries(w)
    BY <1>1, WriteFacts DEF WorkerInv, CarryInv
  <2>2. QED
    BY <2>1, CarriesStays
<1>2. Writing("fsm")' => Queues("fsm")' \/ fsm'.id \in astray'
  BY DEF CarryInv, Queues, Writing
<1>3. Writing("boot")' => Queues("boot")'
  BY DEF CarryInv, Queues, Writing
<1>4. Writing("monitor")' => history'[Head(signer').id] # {}
  BY WriterFacts DEF CarryInv
<1>5. \A i \in 1 .. Len(writes') : Carries(writes[i])'
  BY <1>1 DEF Carries, CarriesFsm, CarriesMonitor, CarriesBoot, SameInflight, SameBut
<1>6. QED
  BY <1>2, <1>3, <1>4, <1>5 DEF CarryInv

\* The first write leaves the queue and nothing else changes about the others.
LEMMA CarryLeaves ==
  ASSUME WorkerInv, CarryInv, UNCHANGED <<state, history>>, astray \subseteq astray',
         writes # <<>>, writes' = Tail(writes), Head(writes).who \in {"fsm", "monitor"},
         Head(writes).who = "fsm" => ~Writing("fsm")' /\ UNCHANGED <<signer, call>>,
         Head(writes).who = "monitor" => ~Writing("monitor")' /\ UNCHANGED fsm,
         UNCHANGED stage
  PROVE  CarryInv'
<1>1. /\ Len(writes) \in Nat \ {0} /\ Len(writes') = Len(writes) - 1 /\ WritesInv
      /\ Head(writes) = writes[1]
      /\ \A i \in 1 .. Len(writes') : writes'[i] = writes[i + 1] /\ i + 1 \in 1 .. Len(writes)
      /\ \A i \in 2 .. Len(writes) : writes[i].who # Head(writes).who
  <2>1. writes \in Seq(Writes) /\ Len(writes) \in Nat \ {0} /\ WritesInv
    BY EmptySeq, LenProperties DEF WorkerInv, WritesInv
  <2>2. /\ Len(writes') = Len(writes) - 1 /\ Head(writes) = writes[1]
        /\ \A i \in 1 .. Len(writes) - 1 : writes'[i] = writes[i + 1]
    BY <2>1, HeadTailProperties
  <2>3. \A i \in 1 .. Len(writes') : writes'[i] = writes[i + 1] /\ i + 1 \in 1 .. Len(writes)
    BY <2>1, <2>2
  <2>4. \A i \in 2 .. Len(writes) : i \in 1 .. Len(writes) /\ 1 \in 1 .. Len(writes) /\ i # 1
    BY <2>1
  <2>5. \A i \in 2 .. Len(writes) : writes[i].who # Head(writes).who
    BY <2>1, <2>2, <2>4 DEF WritesInv
  <2>6. QED
    BY <2>1, <2>2, <2>3, <2>5
<1>2. Writing(Head(writes).who)
  BY <1>1, WriteFacts
<1>3. ~Writing("boot") /\ ~Writing("boot")'
  BY <1>2, WriterFacts DEF Writing
<1>4. ASSUME NEW i \in 1 .. Len(writes'), NEW w, w = writes'[i] PROVE Carries(w)'
  <2>1. /\ w = writes[i + 1] /\ i + 1 \in 1 .. Len(writes) /\ w.who # Head(writes).who
        /\ Writing(w.who) /\ Carries(w)
    <3>1. w = writes[i + 1] /\ i + 1 \in 1 .. Len(writes) /\ i + 1 \in 2 .. Len(writes)
      BY <1>1, <1>4
    <3>2. QED
      BY <1>1, <3>1, WriteFacts DEF CarryInv
  <2>2. w.who # "boot"
    BY <1>3, <2>1
  <2>3. (w.who = "fsm" => fsm' = fsm) /\ (w.who = "monitor" => signer' = signer)
    BY <2>1
  <2>4. QED
    BY <2>1, <2>2, <2>3, CarriesStays
<1>5. Writing("fsm")' => Queues("fsm")' \/ fsm'.id \in astray'
  <2>1. SUFFICES ASSUME Writing("fsm")' PROVE Queues("fsm")' \/ fsm'.id \in astray'
    OBVIOUS
  <2>2. Head(writes).who = "monitor" /\ fsm' = fsm /\ Writing("fsm")
    BY <2>1 DEF Writing
  <2>3. Queues("fsm") => Queues("fsm")'
    BY <1>1, <2>2, OthersWait DEF Callers
  <2>4. QED
    BY <2>2, <2>3 DEF CarryInv
<1>6. Writing("monitor")' => history'[Head(signer').id] # {}
  <2>1. SUFFICES ASSUME Writing("monitor")' PROVE history'[Head(signer').id] # {}
    OBVIOUS
  <2>2. UNCHANGED <<signer, call>> /\ Writing("monitor")
    BY <2>1 DEF Writing, Calling
  <2>3. QED
    BY <2>2 DEF CarryInv
<1>7. QED
  BY <1>3, <1>4, <1>5, <1>6
  DEF CarryInv, Carries, CarriesFsm, CarriesMonitor, CarriesBoot, SameInflight, SameBut

\* A write joins the queue.
LEMMA CarryJoins ==
  ASSUME WorkerInv, CarryInv, UNCHANGED state, astray \subseteq astray',
         \A b \in Bounties : history[b] # {} => history'[b] # {},
         NEW who \in Callers, NEW next \in WorkerState, Write(who, next),
         ~Writing(who), Writing(who)', \A c \in Callers : Writing(c) => Writing(c)',
         \A c \in Callers \ {who} : Writing(c)' => Writing(c),
         Carries([who |-> who, next |-> next])',
         who # "fsm" => UNCHANGED fsm,
         who # "boot" => UNCHANGED stage,
         Writing("monitor") => Head(signer') = Head(signer),
         who = "monitor" => history'[Head(signer').id] # {}
  PROVE  CarryInv'
<1> DEFINE w == [who |-> who, next |-> next]
<1>1. /\ WritesInv' /\ Len(writes) \in Nat /\ Len(writes') = Len(writes) + 1
      /\ \A i \in 1 .. Len(writes) : writes'[i] = writes[i]
      /\ writes'[Len(writes) + 1] = w
  BY WriteJoins DEF WorkerInv
<1>2. w.who = who /\ Carries(w)'
  OBVIOUS
<1> HIDE DEF w
<1>3. ASSUME NEW i \in 1 .. Len(writes'), NEW v, v = writes'[i] PROVE Carries(v)'
  <2>1. CASE i \in 1 .. Len(writes)
    <3>1. v = writes[i] /\ Writing(v.who) /\ Carries(v)
      BY <1>1, <1>3, <2>1, WriteFacts DEF WorkerInv, CarryInv
    <3>2. v.who # who
      BY <3>1
    <3>3. QED
      BY <3>1, <3>2, CarriesStays
  <2>2. CASE i = Len(writes) + 1
    BY <1>1, <1>2, <1>3, <2>2
  <2>3. QED
    BY <1>1, <2>1, <2>2
<1>4. \A i \in 1 .. Len(writes') : Carries(writes[i])'
  BY <1>3 DEF Carries, CarriesFsm, CarriesMonitor, CarriesBoot, SameInflight, SameBut
<1>5. ASSUME NEW c \in Callers, Queues(c) PROVE Queues(c)'
  <2>1. PICK i \in 1 .. Len(writes) : writes[i].who = c
    BY <1>5 DEF Queues
  <2>2. i \in 1 .. Len(writes') /\ writes'[i].who = c
    BY <1>1, <2>1
  <2>3. QED
    BY <2>2 DEF Queues
<1>6. Queues(who)'
  <2>1. Len(writes) + 1 \in 1 .. Len(writes') /\ writes'[Len(writes) + 1].who = who
    BY <1>1, <1>2
  <2>2. QED
    BY <2>1 DEF Queues
<1>7. Writing("fsm")' => Queues("fsm")' \/ fsm'.id \in astray'
  BY <1>5, <1>6 DEF CarryInv, Callers
<1>8. Writing("boot")' => Queues("boot")'
  BY <1>5, <1>6 DEF CarryInv, Callers
<1>9. Writing("monitor")' => history'[Head(signer').id] # {}
  BY WriterFacts DEF CarryInv, Callers
<1>10. QED
  BY <1>4, <1>7, <1>8, <1>9 DEF CarryInv

\* Nothing waits any more: at most the FSM and the monitor, in vain.
LEMMA CarryEmpty ==
  ASSUME writes' = <<>>, ~Writing("boot")',
         Writing("fsm")' => fsm'.id \in astray',
         Writing("monitor")' => history'[Head(signer').id] # {}
  PROVE  CarryInv'
BY EmptySeq DEF CarryInv

\* One write waits, which its caller computed from what has just landed.
LEMMA CarryAgain ==
  ASSUME NEW who \in {"fsm", "boot"}, NEW next,
         writes' = <<[who |-> who, next |-> next]>>,
         Carries([who |-> who, next |-> next])',
         Writing("fsm")' => who = "fsm", Writing("boot")' => who = "boot",
         Writing("monitor")' => history'[Head(signer').id] # {}
  PROVE  CarryInv'
<1> DEFINE w == [who |-> who, next |-> next]
<1>1. writes' = <<w>> /\ w.who = who /\ Carries(w)'
  OBVIOUS
<1> HIDE DEF w
<1>2. Len(writes') = 1 /\ writes'[1] = w
  BY <1>1
<1>3. \A i \in 1 .. Len(writes') : writes'[i] = w
  BY <1>2
<1>4. \A i \in 1 .. Len(writes') : Carries(writes[i])'
  BY <1>1, <1>3 DEF Carries, CarriesFsm, CarriesMonitor, CarriesBoot, SameInflight, SameBut
<1>5. Queues(who)'
  BY <1>1, <1>2 DEF Queues
<1>6. QED
  BY <1>4, <1>5 DEF CarryInv

\* A write that is overtaken changes nothing but of what has gone astray by it.
LEMMA InVainKeeps ==
  ASSUME WorkerInv, FileInv, LandsInVain
  PROVE  /\ astray \subseteq astray'
         /\ \A b \in Bounties \ astray' :
              /\ state'.inflight = b <=> state.inflight = b
              /\ b \in state'.pending <=> b \in state.pending
<1>1. /\ Head(writes) = writes[1] /\ stage \notin Starting
      /\ Head(writes).who \in {"fsm", "monitor"} /\ Writing("fsm") /\ Writing("monitor")
  BY InVainInv
<1>2. /\ state' = Head(writes).next
      /\ astray' = astray \cup {About(Head(writes).who)}
  BY DEF LandsInVain
<1>3. Carries(Head(writes)) /\ FlowInv
  <2>1. Len(writes) \in Nat /\ Len(writes) > 1
    BY WriteFacts DEF LandsInVain, WorkerInv
  <2>2. 1 \in 1 .. Len(writes)
    BY <2>1
  <2>3. QED
    BY <1>1, <2>2 DEF FileInv, CarryInv
<1>4. SUFFICES ASSUME NEW b \in Bounties \ astray'
               PROVE  /\ state'.inflight = b <=> state.inflight = b
                      /\ b \in state'.pending <=> b \in state.pending
  BY <1>2
<1>5. b \in Bounties \ astray /\ b # None /\ b # About(Head(writes).who)
  BY <1>2, WorkerAssumption
<1>6. CASE Head(writes).who = "fsm"
  <2>1. b # fsm.id /\ CarriesFsm(state')
    BY <1>2, <1>3, <1>5, <1>6 DEF About, Carries
  <2>2. state.inflight # b
    BY <1>1, <1>3, <1>5, <2>1, WriterFacts DEF FlowInv
  <2>3. QED
    BY <1>1, <1>5, <2>1, <2>2 DEF CarriesFsm, SameInflight, SameBut, Writing
<1>7. CASE Head(writes).who = "monitor"
  <2>1. b # Head(signer).id /\ CarriesMonitor(state')
    BY <1>2, <1>3, <1>5, <1>7 DEF About, Carries
  <2>2. QED
    BY <1>5, <2>1 DEF CarriesMonitor, SameInflight, SameBut
<1>8. QED
  BY <1>1, <1>6, <1>7

LEMMA InVainFile ==
  ASSUME WorkerInv, FileInv, LandsInVain
  PROVE  FileInv'
<1>1. /\ Head(writes) = writes[1] /\ stage \notin Starting /\ ~Writing("boot")
      /\ Head(writes).who \in {"fsm", "monitor"} /\ Writing("fsm") /\ Writing("monitor")
  BY InVainInv, WriterFacts
<1>2. /\ UNCHANGED <<history, stage, fsm, slot, signer, call>>
      /\ writes # <<>> /\ writes' = Tail(writes)
      /\ astray' = astray \cup {About(Head(writes).who)}
  BY EmptySeq DEF LandsInVain, boot
<1>3. /\ astray \subseteq astray'
      /\ \A b \in Bounties \ astray' :
           /\ state'.inflight = b <=> state.inflight = b
           /\ b \in state'.pending <=> b \in state.pending
  BY InVainKeeps
<1>4. /\ Len(writes') \in Nat
      /\ \A i \in 1 .. Len(writes') :
           writes'[i] = writes[i + 1] /\ i + 1 \in 1 .. Len(writes) /\ Writing(writes[i + 1].who)
  <2>1. \A c \in Callers : Writing(c) => Writing(c)'
    BY <1>2 DEF Writing, Calling
  <2>2. /\ Len(writes) \in Nat \ {0} /\ Len(writes') = Len(writes) - 1
        /\ \A i \in 1 .. Len(writes') : writes'[i] = writes[i + 1] /\ i + 1 \in 1 .. Len(writes)
    BY <1>2, <2>1, WriteLeaves DEF WorkerInv
  <2>3. QED
    BY <2>2, WriteFacts DEF WorkerInv
<1>5. ASSUME NEW i \in 1 .. Len(writes'), NEW w, w = writes'[i] PROVE Carries(w)'
  <2>1. w.who # "boot" /\ Carries(w)
    BY <1>1, <1>4, <1>5 DEF FileInv, CarryInv
  <2>2. w.who = "fsm" => CarriesFsm(w.next)'
    BY <1>2, <1>3, <2>1 DEF Carries, CarriesFsm, SameInflight, SameBut
  <2>3. w.who = "monitor" => CarriesMonitor(w.next)'
    BY <1>2, <1>3, <2>1 DEF Carries, CarriesMonitor, SameInflight, SameBut
  <2>4. QED
    BY <2>1, <2>2, <2>3 DEF Carries
<1>6. \A i \in 1 .. Len(writes') : Carries(writes[i])'
  BY <1>5 DEF Carries, CarriesFsm, CarriesMonitor, CarriesBoot, SameInflight, SameBut
<1>7. Queues("fsm")' \/ fsm'.id \in astray'
  <2>1. CASE Head(writes).who = "fsm"
    BY <1>2, <2>1 DEF About
  <2>2. CASE Head(writes).who = "monitor"
    <3>1. Queues("fsm") => Queues("fsm")'
      BY <1>2, <2>2, OthersWait DEF WorkerInv, Callers
    <3>2. QED
      BY <1>1, <1>2, <3>1 DEF FileInv, CarryInv
  <2>3. QED
    BY <1>1, <2>1, <2>2
<1>8. ~Writing("boot")' /\ history'[Head(signer').id] # {}
  BY <1>1, <1>2 DEF FileInv, CarryInv, Writing
<1>9. CarryInv'
  BY <1>6, <1>7, <1>8 DEF CarryInv
<1>10. FlowInv'
  <2>1. fsm.id \in Bounties /\ state'.inflight \in Bounties \cup {None}
    BY <1>1, WriterFacts, InVainInv DEF WorkerInv, WorkerTypeOK, WorkerState
  <2>2. QED
    BY <1>2, <1>3, <2>1 DEF FileInv, FlowInv
<1>11. QED
  BY <1>9, <1>10 DEF FileInv

LEMMA DownFile ==
  ASSUME Down
  PROVE  FileInv'
<1>1. CarryInv'
  BY CarryEmpty DEF Down, Writing, Calling, Idle
<1>2. FlowInv'
  BY DEF FlowInv, Down, Starting, Idle
<1>3. QED
  BY <1>1, <1>2 DEF FileInv

\* The world, boot's own stages, the calls and the two subscriptions.
LEMMA ElsewhereFile ==
  ASSUME WorkerInv, FileInv,
         \/ World
         \/ \E b \in Bounties : Repeat(b) \/ Lose(b)
         \/ ClaimLands \/ SubmitLands \/ CallPaused \/ WithdrawSkipped \/ WithdrawLands
         \/ Discover \/ CatchUp \/ DrainAndGoHot \/ StartMonitor
         \/ BootResume \/ BootResumeFails
         \/ \E b \in Bounties : DeliverAccepted(b)
         \/ UNCHANGED workerVars
  PROVE  FileInv' /\ UNCHANGED state
<1>1. /\ UNCHANGED <<state, history, fsm, slot, writes>> /\ astray \subseteq astray'
      /\ stage' = stage \/ (stage \notin Starting /\ stage' \notin Starting)
      /\ \/ UNCHANGED <<signer, call>>
         \/ UNCHANGED signer /\ call # "writing" /\ call' # "writing"
         \/ call = "waiting" /\ call' = "waiting"
         \/ UNCHANGED call /\ (signer # <<>> => signer' # <<>> /\ Head(signer') = Head(signer))
  <2>1. CASE World \/ \E b \in Bounties : Repeat(b) \/ Lose(b)
    BY <2>1 DEF World, Post, OthersWork, PosterAccepts, Close, Index, Repeat, Lose, files,
                process, boot
  <2>2. CASE ClaimLands \/ SubmitLands \/ CallPaused \/ WithdrawSkipped \/ WithdrawLands
    BY <2>2 DEF ClaimLands, SubmitLands, CallPaused, WithdrawSkipped, WithdrawLands, files,
                boot, Unlock
  <2>3. CASE Discover \/ CatchUp \/ DrainAndGoHot \/ StartMonitor
    BY <2>3 DEF Discover, CatchUp, DrainAndGoHot, StartMonitor, files, volatile, Starting
  <2>4. CASE BootResume \/ BootResumeFails
    <3>1. PICK rows \in SUBSET todo : MonitorLive(rows)
      BY <2>4 DEF BootResume, BootResumeFails
    <3>2. PICK answer \in SetToSeqs(rows) : AwaitWithdrawals(answer \o bootBuffer)
      BY <3>1 DEF MonitorLive
    <3>3. /\ WorkerTypeOK /\ OneCall /\ bootBuffer \in Seq(Bounties) /\ rows \subseteq Bounties
          /\ fsm' = fsm
      BY <3>1 DEF WorkerInv, WorkerTypeOK, MonitorLive
    <3>4. answer \o bootBuffer \in Seq(Bounties)
      BY <3>2, <3>3, AnswersFacts
    <3>5. signer # <<>> => signer' # <<>> /\ Head(signer') = Head(signer)
      BY <3>2, <3>3, <3>4, WithdrawalsJoin
    <3>6. QED
      BY <3>1, <3>5 DEF MonitorLive, files, Starting
  <2>5. ASSUME NEW b \in Bounties, DeliverAccepted(b)
        PROVE  /\ UNCHANGED <<files, fsm, slot, writes, stage, call>>
               /\ signer # <<>> => signer' # <<>> /\ Head(signer') = Head(signer)
    <3>1. WorkerTypeOK /\ OneCall /\ <<b>> \in Seq(Bounties) /\ fsm' = fsm
      BY <2>5 DEF WorkerInv, DeliverAccepted
    <3>2. AwaitWithdrawals(<<b>>) => (signer # <<>> => signer' # <<>> /\ Head(signer') = Head(signer))
      BY <3>1, WithdrawalsJoin
    <3>3. QED
      BY <2>5, <3>2 DEF DeliverAccepted
  <2>6. CASE UNCHANGED workerVars
    BY <2>6 DEF workerVars, files, boot
  <2>7. QED
    BY <2>1, <2>2, <2>3, <2>4, <2>5, <2>6 DEF files
<1>2. /\ Writing("monitor") => Writing("monitor")' /\ Head(signer') = Head(signer)
      /\ Writing("monitor")' => Writing("monitor")
  BY <1>1 DEF Writing, Calling, WorkerInv, PaidInv
<1>3. Writing("boot") \/ Writing("boot")' => stage' = stage
  BY <1>1 DEF Writing, Starting
<1>4. CarryInv'
  BY <1>1, <1>2, <1>3, CarryKept DEF FileInv
<1>5. FlowInv'
  BY <1>1 DEF FileInv, FlowInv
<1>6. QED
  BY <1>1, <1>4, <1>5 DEF FileInv

\* The steps of a cycle that write nothing.
LEMMA MovesFile ==
  ASSUME WorkerInv, FileInv,
         \/ DropAtDeadline \/ Work \/ ClaimReturns \/ SubmitReturns \/ OfferNext
         \/ \E b \in Bounties : DeliverPosted(b)
         \/ PassDeadline /\ state.inflight = fsm.id
  PROVE  FileInv' /\ UNCHANGED state
<1>1. WorkerTypeOK /\ HoldsSlot /\ OneCall /\ BootInv /\ CarryInv /\ FlowInv
  BY DEF WorkerInv, FileInv
<1>2. UNCHANGED <<state, history, astray, stage, writes>>
  BY DEF DropAtDeadline, Work, ClaimReturns, SubmitReturns, OfferNext, DeliverPosted,
         PassDeadline, files, boot
<1>3. /\ Writing("fsm") \/ Writing("fsm")' => fsm' = fsm
      /\ FlowInv'
  <2>1. CASE DropAtDeadline
    <3>1. fsm.at = "deadline" /\ fsm' = Idle /\ slot' = None /\ fsm # Idle
      BY <2>1 DEF DropAtDeadline, Release, Idle
    <3>2. stage \notin Starting /\ state.inflight \in astray \cup {None}
      BY <1>1, <3>1 DEF BootInv, FlowInv
    <3>3. QED
      BY <1>2, <3>1, <3>2 DEF Writing, Idle, FlowInv
  <2>2. CASE Work \/ ClaimReturns \/ SubmitReturns
    <3>1. fsm.at \in {"work", "claim", "submit"} /\ slot' = slot
      BY <2>2, OwnCall DEF Work, ClaimReturns, SubmitReturns, Calling
    <3>2. PICK at \in {"submit", "work", "height"} : GoesTo(at)
      BY <2>2 DEF Work, ClaimReturns, SubmitReturns
    <3>3. fsm'.at = at /\ fsm'.id = fsm.id
      BY <1>1, <3>1, <3>2, GoesFacts DEF Awaits
    <3>4. QED
      BY <1>1, <1>2, <3>1, <3>3 DEF Writing, FlowInv
  <2>3. CASE OfferNext \/ \E b \in Bounties : DeliverPosted(b)
    <3>1. \/ UNCHANGED <<slot, fsm>>
          \/ slot = None /\ fsm'.at = "deadline"
      BY <2>3 DEF OfferNext, DeliverPosted, Offer
    <3>2. slot = None => fsm.at = "idle" /\ (stage \notin Starting => state.inflight \in astray \cup {None})
      BY <1>1, FsmFacts DEF FlowInv
    <3>3. QED
      BY <1>1, <1>2, <3>1, <3>2 DEF Writing, FlowInv
  <2>4. CASE PassDeadline /\ state.inflight = fsm.id
    <3>1. fsm.at = "deadline" /\ GoesTo("work") /\ slot' = slot
      BY <2>4 DEF PassDeadline
    <3>2. fsm'.at = "work" /\ fsm'.id = fsm.id /\ slot = fsm.id
      BY <1>1, <3>1, GoesFacts, FsmFacts DEF Awaits
    <3>3. QED
      BY <1>2, <2>4, <3>1, <3>2 DEF Writing, FlowInv
  <2>5. QED
    BY <2>1, <2>2, <2>3, <2>4
<1>4. /\ Writing("monitor") => Writing("monitor")' /\ Head(signer') = Head(signer)
      /\ Writing("monitor")' => Writing("monitor")
  <2>1. CASE Work
    <3>1. fsm.at = "work" /\ AwaitsCall("submit") /\ GoesTo("submit") /\ call' = call
      BY <2>1 DEF Work
    <3>2. /\ signer # <<>> => signer' # <<>> /\ Head(signer') = Head(signer)
          /\ signer = <<>> => Head(signer').op = "submit"
      BY <1>1, <3>1, OwnCallJoins
    <3>3. QED
      BY <3>1, <3>2 DEF Writing, Calling
  <2>2. CASE ClaimReturns \/ SubmitReturns
    BY <2>2 DEF ClaimReturns, SubmitReturns, Writing, Calling, Unlock
  <2>3. CASE ~(Work \/ ClaimReturns \/ SubmitReturns)
    BY <2>3 DEF DropAtDeadline, OfferNext, DeliverPosted, PassDeadline, Writing, Calling
  <2>4. QED
    BY <2>1, <2>2, <2>3
<1>5. CarryInv'
  BY <1>1, <1>2, <1>3, <1>4, CarryKept
<1>6. QED
  BY <1>2, <1>3, <1>5 DEF FileInv

\* A cycle or a withdrawal that throws, its write dropped with it.
LEMMA ThrowsFile ==
  ASSUME WorkerInv, FileInv, FsmThrows \/ DeadlineThrows \/ WithdrawThrows
  PROVE  FileInv' /\ UNCHANGED state
<1>1. WorkerTypeOK /\ HoldsSlot /\ CarryInv /\ FlowInv
  BY DEF WorkerInv, FileInv
<1>2. CASE (FsmThrows \/ DeadlineThrows) /\ fsm.by = "boot"
  BY <1>2, DownFile DEF FsmThrows, DeadlineThrows, files
<1>3. CASE (FsmThrows \/ DeadlineThrows) /\ fsm.by # "boot"
  <2>1. /\ fsm.at \in {"deadline", "work", "height"} \/ (Waits("fsm") /\ Writing("fsm"))
        /\ fsm.id \in Bounties /\ fsm.by \in {"live", "resume"} /\ slot = fsm.id
    <3>1. Waits("fsm") => Writing("fsm")
      <4>1. SUFFICES ASSUME Waits("fsm") PROVE Writing("fsm")
        OBVIOUS
      <4>2. writes \in Seq(Writes) /\ writes # <<>> /\ Head(writes).who = "fsm"
        BY <4>1 DEF WorkerInv, WritesInv, Waits
      <4>3. Head(writes) = writes[1] /\ 1 \in 1 .. Len(writes)
        BY <4>2, HeadTailProperties, EmptySeq, LenProperties
      <4>4. QED
        BY <4>2, <4>3, WriteFacts DEF WorkerInv
    <3>2. fsm.at \in {"deadline", "work", "height"} \/ (Waits("fsm") /\ Writing("fsm"))
      BY <1>3, <3>1 DEF FsmThrows, DeadlineThrows
    <3>3. QED
      BY <1>1, <1>3, <3>2, FsmFacts DEF Writing
  <2>2. /\ fsm' = Idle /\ UNCHANGED <<state, history, stage, signer, call>>
        /\ \/ slot' = slot /\ astray' = astray
           \/ slot' = None /\ astray' = astray \cup {fsm.id}
        /\ \/ fsm.at \in {"deadline", "work", "height"} /\ UNCHANGED writes
           \/ Waits("fsm") /\ writes' = Tail(writes)
    BY <1>3, <2>1 DEF FsmThrows, DeadlineThrows, Throws, Release, files, boot
  <2>3. ~Writing("fsm")' /\ FlowInv'
    BY <1>1, <2>1, <2>2 DEF Writing, FlowInv, Idle
  <2>4. CarryInv'
    <3>1. CASE fsm.at \in {"deadline", "work", "height"} /\ UNCHANGED writes
      <4>1. ~Writing("fsm")
        BY <3>1 DEF Writing
      <4>2. QED
        BY <1>1, <2>2, <2>3, <3>1, <4>1, CarryKept DEF Writing, Calling
    <3>2. CASE Waits("fsm") /\ writes' = Tail(writes)
      BY <1>1, <2>2, <2>3, <3>2, CarryLeaves DEF Waits
    <3>3. QED
      BY <2>2, <3>1, <3>2
  <2>5. QED
    BY <2>2, <2>3, <2>4 DEF FileInv
<1>4. CASE WithdrawThrows
  <2>1. /\ UNCHANGED <<state, history, astray, stage, fsm, slot>> /\ call' = "waiting"
        /\ \/ call \in {"waiting", "ok"} /\ UNCHANGED writes
           \/ Waits("monitor") /\ writes' = Tail(writes)
    BY <1>4 DEF WithdrawThrows, Unlock, files, boot
  <2>2. ~Writing("monitor")'
    BY <2>1 DEF Writing
  <2>3. CarryInv'
    <3>1. CASE call \in {"waiting", "ok"} /\ UNCHANGED writes
      <4>1. ~Writing("monitor")
        BY <3>1 DEF Writing
      <4>2. QED
        BY <1>1, <2>1, <2>2, <3>1, <4>1, CarryKept
    <3>2. CASE Waits("monitor") /\ writes' = Tail(writes)
      BY <1>1, <2>1, <2>2, <3>2, CarryLeaves DEF Waits
    <3>3. QED
      BY <2>1, <3>1, <3>2
  <2>4. FlowInv'
    BY <1>1, <2>1 DEF FlowInv
  <2>5. QED
    BY <2>1, <2>3, <2>4 DEF FileInv
<1>5. QED
  BY <1>2, <1>3, <1>4

\* The steps of a cycle that ask for a write.
LEMMA WritesFile ==
  ASSUME WorkerInv, FileInv,
         \/ PassDeadline /\ state.inflight # fsm.id
         \/ HeightRead \/ CallRefused \/ CallThrows
  PROVE  FileInv' /\ UNCHANGED state
<1>1. WorkerTypeOK /\ HoldsSlot /\ OneCall /\ CarryInv /\ FlowInv
  BY DEF WorkerInv, FileInv
<1>2. /\ fsm.at \in {"deadline", "height", "claim", "submit"}
      /\ CallRefused \/ CallThrows => Calling("claim") \/ Calling("submit")
  BY OwnCall DEF PassDeadline, HeightRead, CallRefused, CallThrows, Calling
<1>3. fsm # Idle /\ fsm.id \in Bounties /\ slot = fsm.id
  BY <1>1, <1>2, FsmFacts
<1>4. PICK at \in {"setInflight", "pending", "closing"} :
        /\ GoesTo(at)
        /\ \/ at = "setInflight" /\ fsm.at = "deadline" /\ Write("fsm", setInflight(state, fsm.id))
           \/ at = "pending" /\ fsm.at = "height" /\ Write("fsm", addPendingAccept(state, fsm.id))
           \/ at = "closing" /\ Write("fsm", clearInflight(state))
  BY DEF PassDeadline, HeightRead, CallRefused, CallThrows, Abandon
<1>5. fsm'.at = at /\ fsm'.id = fsm.id
  BY <1>1, <1>2, <1>4, GoesFacts DEF Awaits
<1>6. /\ UNCHANGED <<state, stage, slot>> /\ astray \subseteq astray'
      /\ \A b \in Bounties : history[b] # {} => history'[b] # {}
      /\ \/ UNCHANGED <<signer, call>>
         \/ (Calling("claim") \/ Calling("submit")) /\ call' = "waiting"
  <2>1. CASE CallRefused \/ CallThrows
    <3>1. history' = [history EXCEPT ![fsm.id] = @ \cup {"abandoned"}]
      BY <2>1 DEF CallRefused, CallThrows, Abandon, Record
    <3>2. \A b \in Bounties : history[b] # {} => history'[b] # {}
      BY <1>1, <3>1 DEF WorkerTypeOK
    <3>3. QED
      BY <1>2, <2>1, <3>2 DEF CallRefused, CallThrows, Abandon, Unlock, boot
  <2>2. CASE ~(CallRefused \/ CallThrows)
    BY <2>2 DEF PassDeadline, HeightRead, files, boot
  <2>3. QED
    BY <2>1, <2>2
<1>7. /\ ~Writing("fsm") /\ Writing("fsm")'
      /\ Writing("monitor") => Writing("monitor")' /\ Head(signer') = Head(signer)
      /\ Writing("monitor")' => Writing("monitor")
      /\ Writing("boot") <=> Writing("boot")'
  BY <1>2, <1>4, <1>5, <1>6 DEF Writing, Calling
<1>8. /\ \A c \in Callers : Writing(c) => Writing(c)'
      /\ \A c \in Callers \ {"fsm"} : Writing(c)' => Writing(c)
  BY <1>7 DEF Callers
<1>9. PICK next \in WorkerState : Write("fsm", next) /\ CarriesFsm(next)'
  <2>1. CASE at = "setInflight" /\ fsm.at = "deadline" /\ Write("fsm", setInflight(state, fsm.id))
    <3>1. setInflight(state, fsm.id) \in WorkerState
      BY <1>1, <1>3, StateFacts
    <3>2. ASSUME NEW next, next = setInflight(state, fsm.id) PROVE CarriesFsm(next)'
      BY <1>1, <1>5, <1>6, <2>1, <3>2
      DEF CarriesFsm, SameBut, setInflight, WorkerTypeOK, WorkerState
    <3>3. QED
      BY <2>1, <3>1, <3>2
  <2>2. CASE at = "pending" /\ fsm.at = "height" /\ Write("fsm", addPendingAccept(state, fsm.id))
    <3>1. addPendingAccept(state, fsm.id) \in WorkerState
      BY <1>1, <1>3, StateFacts
    <3>2. ASSUME NEW next, next = addPendingAccept(state, fsm.id) PROVE CarriesFsm(next)'
      BY <1>1, <1>5, <1>6, <2>2, <3>2
      DEF CarriesFsm, SameInflight, SameBut, addPendingAccept, WorkerTypeOK, WorkerState
    <3>3. QED
      BY <2>2, <3>1, <3>2
  <2>3. CASE at = "closing" /\ Write("fsm", clearInflight(state))
    <3>1. clearInflight(state) \in WorkerState
      BY <1>1, <1>3, StateFacts
    <3>2. ASSUME NEW next, next = clearInflight(state) PROVE CarriesFsm(next)'
      BY <1>1, <1>5, <1>6, <2>3, <3>2
      DEF CarriesFsm, SameBut, clearInflight, WorkerTypeOK, WorkerState
    <3>3. QED
      BY <2>3, <3>1, <3>2
  <2>4. QED
    BY <1>4, <2>1, <2>2, <2>3
<1>10. CarryInv'
  <2>1. Carries([who |-> "fsm", next |-> next])'
    BY <1>9 DEF Carries
  <2>2. QED
    BY <1>1, <1>6, <1>7, <1>8, <1>9, <2>1, CarryJoins DEF Callers
<1>11. FlowInv'
  BY <1>1, <1>2, <1>3, <1>4, <1>5, <1>6 DEF FlowInv
<1>12. QED
  BY <1>6, <1>10, <1>11 DEF FileInv

\* The record of a withdrawal, and the write that takes its entry out.
LEMMA RecordFile ==
  ASSUME WorkerInv, FileInv, WithdrawReturns
  PROVE  FileInv' /\ UNCHANGED state
<1>1. WorkerTypeOK /\ CarryInv /\ FlowInv /\ signer # <<>> /\ Head(signer).op = "withdraw"
  BY DEF WorkerInv, FileInv, WithdrawReturns, Calling
<1>2. Withdrawing \in Bounties /\ Withdrawing = Head(signer).id
  BY <1>1, SignerFacts DEF Withdrawing, Calls
<1>3. /\ UNCHANGED <<state, astray, stage, slot, fsm, signer>>
      /\ call # "writing" /\ call' = "writing"
      /\ history' = [history EXCEPT ![Withdrawing] = @ \cup {Outcome}]
      /\ Write("monitor", clearPendingAccept(state, Withdrawing))
  BY DEF WithdrawReturns, Record, boot
<1>4. /\ \A b \in Bounties : history[b] # {} => history'[b] # {}
      /\ history'[Withdrawing] # {}
  BY <1>1, <1>2, <1>3 DEF WorkerTypeOK
<1>5. /\ ~Writing("monitor") /\ Writing("monitor")'
      /\ (Writing("fsm") <=> Writing("fsm")') /\ (Writing("boot") <=> Writing("boot")')
  BY <1>1, <1>3 DEF Writing, Calling
<1>6. /\ \A c \in Callers : Writing(c) => Writing(c)'
      /\ \A c \in Callers \ {"monitor"} : Writing(c)' => Writing(c)
  BY <1>5 DEF Callers
<1>7. PICK next \in WorkerState : Write("monitor", next) /\ CarriesMonitor(next)'
  <2>1. clearPendingAccept(state, Withdrawing) \in WorkerState
    BY <1>1, <1>2, StateFacts
  <2>2. ASSUME NEW next, next = clearPendingAccept(state, Withdrawing) PROVE CarriesMonitor(next)'
    BY <1>1, <1>2, <1>3, <2>2
    DEF CarriesMonitor, SameInflight, SameBut, clearPendingAccept, WorkerTypeOK, WorkerState
  <2>3. QED
    BY <1>3, <2>1, <2>2
<1>8. CarryInv'
  <2>1. Carries([who |-> "monitor", next |-> next])'
    BY <1>7 DEF Carries
  <2>2. QED
    BY <1>1, <1>2, <1>3, <1>4, <1>5, <1>6, <1>7, <2>1, CarryJoins DEF Callers
<1>9. FlowInv'
  BY <1>1, <1>3 DEF FlowInv
<1>10. QED
  BY <1>3, <1>8, <1>9 DEF FileInv

\* The resume check: nothing runs beside it.
LEMMA ResumeFile ==
  ASSUME WorkerInv, FileInv,
         Boot \/ ResumeAbandons \/ ResumeClears \/ ResumeRebuilds \/ ResumeWorks
  PROVE  FileInv' /\ UNCHANGED state
<1>1. /\ WorkerTypeOK /\ BootInv /\ CarryInv /\ FlowInv
      /\ stage \in {"down", "resume"} /\ fsm = Idle /\ signer = <<>> /\ writes = <<>>
  BY DEF WorkerInv, FileInv, Boot, ResumeAbandons, ResumeClears, ResumeRebuilds, ResumeWorks,
         BootInv, Starting
<1>2. UNCHANGED <<state, signer, call>>
  BY DEF Boot, ResumeAbandons, ResumeClears, ResumeRebuilds, ResumeWorks, files, volatile
<1>3. \A c \in Callers : ~Writing(c)
  BY <1>1 DEF Writing, Calling, Callers, Idle
<1>4. CASE Boot
  <2>1. /\ stage' = IF state.inflight = None THEN "discover" ELSE "resume"
        /\ UNCHANGED <<slot, fsm, writes>>
    BY <1>4 DEF Boot, volatile
  <2>2. CarryInv'
    BY <1>1, <1>2, <2>1, CarryEmpty DEF Writing, Calling, Idle
  <2>3. FlowInv'
    BY <1>1, <1>2, <2>1 DEF FlowInv, Starting, Idle
  <2>4. QED
    BY <1>2, <2>2, <2>3 DEF FileInv
<1>5. CASE ResumeWorks
  <2>1. /\ stage' = "discover" /\ slot' = state.inflight /\ writes' = <<>>
        /\ fsm' = [at |-> "work", id |-> state.inflight, by |-> "resume"]
    BY <1>1, <1>5 DEF ResumeWorks
  <2>2. CarryInv'
    BY <1>1, <1>2, <2>1, CarryEmpty DEF Writing, Calling
  <2>3. FlowInv'
    BY <1>1, <1>2, <2>1 DEF FlowInv
  <2>4. QED
    BY <1>2, <2>2, <2>3 DEF FileInv
<1>6. CASE ResumeAbandons \/ ResumeClears \/ ResumeRebuilds
  <2>1. state.inflight \in Bounties
    BY <1>1, <1>6 DEF BootInv, WorkerTypeOK, WorkerState, ResumeAbandons, ResumeClears,
                      ResumeRebuilds
  <2>2. /\ UNCHANGED <<slot, fsm>> /\ astray \subseteq astray'
        /\ \A b \in Bounties : history[b] # {} => history'[b] # {}
    <3>1. \/ history' = history
          \/ history' = [history EXCEPT ![state.inflight] = @ \cup {"abandoned"}]
      BY <1>6 DEF ResumeAbandons, ResumeClears, ResumeRebuilds, Record
    <3>2. QED
      BY <1>1, <1>6, <2>1, <3>1
      DEF ResumeAbandons, ResumeClears, ResumeRebuilds, RowBelieved, WorkerTypeOK
  <2>3. \/ stage' = "clearing" /\ Write("boot", clearInflight(state))
        \/ stage' = "rebuilding" /\ Write("boot", addPendingAccept(state, state.inflight))
    BY <1>6 DEF ResumeAbandons, ResumeClears, ResumeRebuilds
  <2>4. PICK next \in WorkerState : Write("boot", next) /\ CarriesBoot(next)'
    <3>1. clearInflight(state) \in WorkerState /\ addPendingAccept(state, state.inflight) \in WorkerState
      BY <1>1, <2>1, StateFacts
    <3>2. ASSUME stage' = "clearing", NEW next, next = clearInflight(state) PROVE CarriesBoot(next)'
      BY <1>2, <3>2 DEF CarriesBoot, clearInflight
    <3>3. ASSUME stage' = "rebuilding", NEW next, next = addPendingAccept(state, state.inflight)
          PROVE  CarriesBoot(next)'
      BY <1>2, <3>3 DEF CarriesBoot, addPendingAccept
    <3>4. QED
      BY <2>3, <3>1, <3>2, <3>3
  <2>5. /\ ~Writing("boot") /\ Writing("boot")' /\ stage' \in Starting
        /\ \A c \in Callers : Writing(c) => Writing(c)'
        /\ \A c \in Callers \ {"boot"} : Writing(c)' => Writing(c)
    BY <1>1, <1>2, <1>3, <2>2, <2>3 DEF Writing, Calling, Callers, Starting, Idle
  <2>6. CarryInv'
    <3>1. Carries([who |-> "boot", next |-> next])'
      BY <2>4 DEF Carries
    <3>2. QED
      BY <1>1, <1>2, <1>3, <2>2, <2>4, <2>5, <3>1, CarryJoins DEF Callers
  <2>7. FlowInv'
    BY <1>1, <2>2, <2>5 DEF FlowInv, Idle
  <2>8. QED
    BY <1>2, <2>6, <2>7 DEF FileInv
<1>7. QED
  BY <1>4, <1>5, <1>6

\* The last write lands, or has landed before in vain.
LEMMA LandedCarries ==
  ASSUME WorkerInv, CarryInv, NEW who \in Callers, Landed(who)
  PROVE  /\ \/ writes = <<>> /\ state' = state
            \/ /\ Len(writes) = 1 /\ state' = Head(writes).next /\ Writing(who)
               /\ who = "fsm" => CarriesFsm(state')
               /\ who = "monitor" => CarriesMonitor(state')
               /\ who = "boot" => CarriesBoot(state')
         /\ \A c \in Callers \ {who} : ~Queues(c)
         /\ writes = <<>> => \A c \in Callers : ~Queues(c)
<1>1. WorkerTypeOK /\ WritesInv
  BY DEF WorkerInv
<1>2. CASE writes = <<>> /\ state' = state
  BY <1>2, EmptySeq DEF Queues
<1>3. CASE /\ Len(writes) = 1 /\ Head(writes) = writes[1] /\ Head(writes).who = who
           /\ state' = Head(writes).next
  <2>1. Carries(writes[1]) /\ Writing(who) /\ writes[1].who = who
    <3>1. 1 \in 1 .. Len(writes)
      BY <1>3
    <3>2. QED
      BY <1>1, <1>3, <3>1, WriteFacts DEF CarryInv
  <2>2. \A c \in Callers \ {who} : ~Queues(c)
    BY <1>3 DEF Queues
  <2>3. writes # <<>>
    BY <1>3, EmptySeq
  <2>4. QED
    BY <1>3, <2>1, <2>2, <2>3 DEF Carries
<1>4. QED
  BY <1>1, <1>2, <1>3, LandFacts

LEMMA LandedFile ==
  ASSUME WorkerInv, FileInv,
         InflightSet \/ PendingAdded \/ Closed \/ WithdrawSettled \/ Rebuilt \/ Cleared
  PROVE  FileInv'
<1>1. WorkerTypeOK /\ HoldsSlot /\ OneCall /\ BootInv /\ CarryInv /\ FlowInv
  BY DEF WorkerInv, FileInv
<1>2. state'.inflight \in Bounties \cup {None} /\ None \notin Bounties
  BY <1>1, LandFacts, WorkerAssumption
  DEF InflightSet, PendingAdded, Closed, WithdrawSettled, Rebuilt, Cleared, Lands,
      LandsThenWrites, WorkerState
<1>3. CASE InflightSet
  <2>1. /\ fsm.at = "setInflight" /\ Landed("fsm") /\ writes' = <<>> /\ GoesTo("claim")
        /\ AwaitsCall("claim") /\ UNCHANGED <<history, astray, stage, slot, call>>
    BY <1>3 DEF InflightSet, Lands, boot
  <2>2. fsm'.at = "claim" /\ fsm'.id = fsm.id /\ slot = fsm.id /\ fsm.id \in Bounties /\ fsm # Idle
    BY <1>1, <2>1, GoesFacts, FsmFacts DEF Awaits
  <2>3. /\ signer # <<>> => signer' # <<>> /\ Head(signer') = Head(signer)
        /\ signer = <<>> => Head(signer').op = "claim"
    BY <1>1, <2>1, OwnCallJoins
  <2>4. stage \notin Starting /\ Writing("fsm")
    BY <2>1, <2>2, WriterFacts DEF Writing
  <2>5. CarryInv'
    <3>1. ~Writing("boot")' /\ ~Writing("fsm")'
      BY <2>1, <2>2, <2>4 DEF Writing, Starting
    <3>2. Writing("monitor")' => Writing("monitor") /\ Head(signer') = Head(signer)
      BY <2>1, <2>3 DEF Writing, Calling
    <3>3. QED
      BY <1>1, <2>1, <3>1, <3>2, CarryEmpty DEF CarryInv
  <2>6. CASE writes = <<>> /\ state' = state
    <3>1. fsm.id \in astray
      BY <1>1, <2>1, <2>4, <2>6, LandedCarries DEF CarryInv, Callers
    <3>2. QED
      BY <1>1, <2>1, <2>2, <2>5, <2>6, <3>1 DEF FileInv, FlowInv
  <2>7. CASE CarriesFsm(state')
    <3>1. state'.inflight = fsm.id
      BY <2>1, <2>7 DEF CarriesFsm
    <3>2. QED
      BY <2>1, <2>2, <2>5, <3>1 DEF FileInv, FlowInv
  <2>8. QED
    BY <1>1, <2>1, <2>6, <2>7, LandedCarries DEF Callers
<1>4. CASE PendingAdded
  <2>1. /\ fsm.at = "pending" /\ Landed("fsm") /\ GoesTo("closing")
        /\ writes' = <<[who |-> "fsm", next |-> clearInflight(state')]>>
        /\ UNCHANGED <<history, astray, stage, slot, signer, call>>
    BY <1>4 DEF PendingAdded, LandsThenWrites, boot
  <2>2. fsm'.at = "closing" /\ fsm'.id = fsm.id /\ slot = fsm.id /\ fsm # Idle
    BY <1>1, <2>1, GoesFacts, FsmFacts DEF Awaits
  <2>3. stage \notin Starting
    BY <2>2, WriterFacts
  <2>4. CarryInv'
    <3>1. ~Writing("boot")' /\ (Writing("monitor")' => Writing("monitor"))
      BY <2>1, <2>3 DEF Writing, Starting, Calling
    <3>2. ASSUME NEW next, next = clearInflight(state')
          PROVE  Carries([who |-> "fsm", next |-> next])'
      <4>1. state' \in WorkerState
        BY <1>1, <2>1, LandFacts
      <4>2. CarriesFsm(next)'
        BY <2>2, <3>2, <4>1 DEF CarriesFsm, SameBut, clearInflight, WorkerState
      <4>3. QED
        BY <4>2 DEF Carries
    <3>3. PICK next : next = clearInflight(state')
      OBVIOUS
    <3>4. QED
      BY <1>1, <2>1, <3>1, <3>2, <3>3, CarryAgain DEF CarryInv
  <2>5. FlowInv'
    <3>1. state' = state \/ SameInflight(state')
      BY <1>1, <2>1, LandedCarries DEF Callers, CarriesFsm
    <3>2. QED
      BY <1>1, <1>2, <2>1, <2>2, <2>3, <3>1 DEF FlowInv, SameInflight
  <2>6. QED
    BY <2>4, <2>5 DEF FileInv
<1>5. CASE Closed
  <2>1. /\ fsm.at = "closing" /\ Landed("fsm") /\ writes' = <<>> /\ fsm' = Idle /\ slot' = None
        /\ UNCHANGED <<history, astray, stage, signer, call>>
    BY <1>5 DEF Closed, Lands, Release, boot
  <2>2. slot = fsm.id /\ fsm # Idle
    BY <1>1, <2>1, FsmFacts
  <2>3. stage \notin Starting /\ Writing("fsm")
    BY <2>1, <2>2, WriterFacts DEF Writing
  <2>4. CarryInv'
    <3>1. ~Writing("boot")' /\ ~Writing("fsm")' /\ (Writing("monitor")' => Writing("monitor"))
      BY <2>1, <2>3 DEF Writing, Starting, Calling, Idle
    <3>2. QED
      BY <1>1, <2>1, <3>1, CarryEmpty DEF CarryInv
  <2>5. FlowInv'
    <3>1. CASE writes = <<>> /\ state' = state
      <4>1. fsm.id \in astray
        BY <1>1, <2>1, <2>3, <3>1, LandedCarries DEF CarryInv, Callers
      <4>2. QED
        BY <1>1, <2>1, <2>2, <2>3, <3>1, <4>1 DEF FlowInv, Idle
    <3>2. CASE CarriesFsm(state')
      <4>1. state'.inflight = None
        BY <2>1, <3>2 DEF CarriesFsm
      <4>2. QED
        BY <2>1, <4>1 DEF FlowInv, Idle
    <3>3. QED
      BY <1>1, <2>1, <3>1, <3>2, LandedCarries DEF Callers
  <2>6. QED
    BY <2>4, <2>5 DEF FileInv
<1>6. CASE WithdrawSettled
  <2>1. /\ Landed("monitor") /\ writes' = <<>> /\ call' = "waiting" /\ Writing("monitor")
        /\ UNCHANGED <<history, astray, stage, fsm, slot>>
    BY <1>6 DEF WithdrawSettled, Lands, Unlock, Writing, boot
  <2>2. stage \notin Starting
    BY <2>1, WriterFacts
  <2>3. CarryInv'
    <3>1. ~Writing("boot")' /\ ~Writing("monitor")' /\ (Writing("fsm")' => Writing("fsm"))
      BY <2>1, <2>2 DEF Writing, Starting
    <3>2. ~Queues("fsm")
      BY <1>1, <2>1, LandedCarries DEF Callers
    <3>3. QED
      BY <1>1, <2>1, <3>1, <3>2, CarryEmpty DEF CarryInv
  <2>4. FlowInv'
    <3>1. state' = state \/ SameInflight(state')
      BY <1>1, <2>1, LandedCarries DEF Callers, CarriesMonitor
    <3>2. fsm # Idle => fsm.id \in Bounties
      BY WriterFacts
    <3>3. QED
      BY <1>1, <1>2, <2>1, <2>2, <3>1, <3>2 DEF FlowInv, SameInflight, Idle
  <2>5. QED
    BY <2>3, <2>4 DEF FileInv
<1>7. CASE Rebuilt \/ Cleared
  <2>1. /\ stage \in {"rebuilding", "clearing"} /\ Landed("boot")
        /\ UNCHANGED <<history, astray, slot, fsm, signer, call>>
    BY <1>7 DEF Rebuilt, Cleared, Lands, LandsThenWrites
  <2>2. fsm = Idle /\ signer = <<>> /\ Writing("boot")
    BY <1>1, <2>1 DEF BootInv, Starting, Writing
  <2>3. CarriesBoot(state')
    BY <1>1, <2>1, <2>2, LandedCarries DEF CarryInv, Callers
  <2>4. ~Writing("fsm")' /\ ~Writing("monitor")'
    BY <2>1, <2>2 DEF Writing, Calling, Idle
  <2>5. CASE Rebuilt
    <3>1. /\ stage' = "clearing"
          /\ writes' = <<[who |-> "boot", next |-> clearInflight(state')]>>
      BY <2>5 DEF Rebuilt, LandsThenWrites
    <3>2. ASSUME NEW next, next = clearInflight(state')
          PROVE  Carries([who |-> "boot", next |-> next])'
      <4>1. CarriesBoot(next)'
        BY <3>1, <3>2 DEF CarriesBoot, clearInflight
      <4>2. QED
        BY <4>1 DEF Carries
    <3>3. PICK next : next = clearInflight(state')
      OBVIOUS
    <3>4. CarryInv'
      BY <2>4, <3>1, <3>2, <3>3, CarryAgain
    <3>5. FlowInv'
      BY <2>1, <2>2, <3>1 DEF FlowInv, Starting, Idle
    <3>6. QED
      BY <3>4, <3>5 DEF FileInv
  <2>6. CASE Cleared
    <3>1. stage = "clearing" /\ stage' = "discover" /\ writes' = <<>>
      BY <2>6 DEF Cleared, Lands
    <3>2. state'.inflight = None
      BY <1>1, <2>3, <3>1 DEF CarriesBoot, clearInflight, WorkerTypeOK, WorkerState
    <3>3. CarryInv'
      BY <2>4, <3>1, CarryEmpty DEF Writing
    <3>4. FlowInv'
      BY <2>1, <2>2, <3>2 DEF FlowInv, Idle
    <3>5. QED
      BY <3>3, <3>4 DEF FileInv
  <2>7. QED
    BY <1>7, <2>5, <2>6
<1>8. QED
  BY <1>3, <1>4, <1>5, <1>6, <1>7

\* Every step preserves FileInv, and the file changes by a write that waited.
LEMMA NextFileInv ==
  ASSUME WorkerInv, FileInv, [Next]_workerVars
  PROVE  /\ FileInv'
         /\ state' = state \/ \E i \in 1 .. Len(writes) : state' = writes[i].next
<1>1. CASE \/ World \/ \E b \in Bounties : Repeat(b) \/ Lose(b)
           \/ ClaimLands \/ SubmitLands \/ CallPaused \/ WithdrawSkipped \/ WithdrawLands
           \/ Discover \/ CatchUp \/ DrainAndGoHot \/ StartMonitor
           \/ BootResume \/ BootResumeFails
           \/ \E b \in Bounties : DeliverAccepted(b)
           \/ UNCHANGED workerVars
  BY <1>1, ElsewhereFile
<1>2. CASE \/ DropAtDeadline \/ Work \/ ClaimReturns \/ SubmitReturns \/ OfferNext
           \/ \E b \in Bounties : DeliverPosted(b)
  BY <1>2, MovesFile
<1>3. CASE PassDeadline \/ HeightRead \/ CallRefused \/ CallThrows
  BY <1>3, MovesFile, WritesFile
<1>4. CASE WithdrawReturns
  BY <1>4, RecordFile
<1>5. CASE Boot \/ ResumeAbandons \/ ResumeClears \/ ResumeRebuilds \/ ResumeWorks
  BY <1>5, ResumeFile
<1>6. CASE FsmThrows \/ DeadlineThrows \/ WithdrawThrows
  BY <1>6, ThrowsFile
<1>7. CASE Crash \/ BootThrows
  BY <1>7, DownFile DEF Crash, BootThrows, files
<1>8. CASE InflightSet \/ PendingAdded \/ Closed \/ WithdrawSettled \/ Rebuilt \/ Cleared
  <2>1. PICK who \in Callers : Landed(who)
    BY <1>8 DEF InflightSet, PendingAdded, Closed, WithdrawSettled, Rebuilt, Cleared, Lands,
                LandsThenWrites, Callers
  <2>2. state' = state \/ \E i \in 1 .. Len(writes) : state' = writes[i].next
    <3>1. CASE Len(writes) = 1 /\ Head(writes) = writes[1] /\ state' = Head(writes).next
      <4>1. 1 \in 1 .. Len(writes)
        BY <3>1
      <4>2. QED
        BY <3>1, <4>1
    <3>2. QED
      BY <2>1, <3>1, LandFacts DEF WorkerInv
  <2>3. QED
    BY <1>8, <2>2, LandedFile
<1>9. CASE LandsInVain
  <2>1. Len(writes) \in Nat /\ Len(writes) > 1 /\ Head(writes) = writes[1]
    BY <1>9, WriteFacts, InVainInv DEF LandsInVain, WorkerInv
  <2>2. 1 \in 1 .. Len(writes) /\ state' = writes[1].next
    BY <1>9, <2>1 DEF LandsInVain
  <2>3. QED
    BY <1>9, <2>2, InVainFile
<1>10. QED
  BY <1>1, <1>2, <1>3, <1>4, <1>5, <1>6, <1>7, <1>8, <1>9
  DEF Next, FaultStep, Cycle, Settlement, Booting, Delivery

LEMMA FileInvariance == Spec => [](WorkerInv /\ FileInv)
<1>1. Init => FileInv
  <2> SUFFICES ASSUME Init PROVE FileInv
    OBVIOUS
  <2>1. CarryInv
    BY EmptySeq DEF Init, CarryInv, Writing, Calling, Idle
  <2>2. FlowInv
    BY DEF Init, FlowInv, Starting, Idle
  <2>3. QED
    BY <2>1, <2>2 DEF FileInv
<1>2. WorkerInv /\ FileInv /\ [Next]_workerVars => FileInv'
  BY NextFileInv
<1>3. QED
  BY <1>1, <1>2, InitWorkerInv, NextWorkerInv, PTL DEF Spec

\* One cycle at a time: the slot, the bounty in flight on file and the one call
\* of the FSM in the signer's queue agree, over crashes, resumes, faults of every
\* kind and writes that overlap (filter/serializer.ts, fsm/main.ts).
THEOREM CeilingOfOne == Spec => []OneCycle
<1>1. WorkerInv /\ FileInv => OneCycle
  <2> SUFFICES ASSUME WorkerInv, FileInv PROVE OneCycle
    OBVIOUS
  <2>1. signer \in Seq(Calls) /\ HoldsSlot /\ OneCall
    BY DEF WorkerInv, WorkerTypeOK, Calls
  <2>2. DOMAIN signer = 1 .. Len(signer) /\ \A i \in 1 .. Len(signer) : signer[i] \in Calls
    BY <2>1, LenProperties, ElementOfSeq
  <2>3. \A i, j \in DOMAIN signer :
          signer[i].op # "withdraw" =>
            /\ signer[i] = [op |-> fsm.at, id |-> fsm.id]
            /\ signer[j].op # "withdraw" => i = j
    BY <2>1, <2>2 DEF OneCall, Calls
  <2>4. QED
    BY <2>1, <2>3 DEF OneCycle, HoldsSlot, FileInv, FlowInv
<1>2. QED
  BY <1>1, FileInvariance, PTL

\* The bounty in flight on file is displaced by another only if it has gone
\* astray, over crashes, resumes, lost and repeated events, throwing calls and
\* writes, and writes that overlap (fsm/main.ts, lifecycle/resume.ts).
THEOREM InflightNeverDisplaced == Spec => InflightStays
<1>1. WorkerInv /\ FileInv /\ [Next]_workerVars =>
        [state.inflight # None /\ state.inflight \notin astray =>
           state'.inflight \in {state.inflight, None}]_workerVars
  <2> SUFFICES ASSUME WorkerInv, FileInv, Next, state.inflight # None, state.inflight \notin astray
               PROVE  state'.inflight \in {state.inflight, None}
    OBVIOUS
  <2>1. state' = state \/ \E i \in 1 .. Len(writes) : state' = writes[i].next
    BY NextFileInv
  <2>2. state.inflight \in Bounties \ astray
    BY WriterFacts
  <2>3. QED
    BY <2>1, <2>2, WhatWaits
<1>2. QED
  BY <1>1, FileInvariance, PTL DEF Spec, InflightStays

\* An entry leaves pending_accept only after the history has a record of its
\* bounty, unless that has gone astray (fsm/withdraw.ts).
THEOREM EntriesAreRecorded == Spec => EntriesStay
<1>1. WorkerInv /\ FileInv /\ [Next]_workerVars =>
        [\A b \in state.pending \ state'.pending : history[b] # {} \/ b \in astray]_workerVars
  <2> SUFFICES ASSUME WorkerInv, FileInv, Next, NEW b \in state.pending \ state'.pending,
                      b \notin astray
               PROVE  history[b] # {}
    OBVIOUS
  <2>1. state' = state \/ \E i \in 1 .. Len(writes) : state' = writes[i].next
    BY NextFileInv
  <2>2. b \in Bounties \ astray
    BY WriterFacts
  <2>3. QED
    BY <2>1, <2>2, WhatWaits
<1>2. QED
  BY <1>1, FileInvariance, PTL DEF Spec, EntriesStay

=============================================================================
