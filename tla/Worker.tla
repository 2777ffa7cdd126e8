--------------------------------- MODULE Worker ---------------------------------
(***************************************************************************)
(* The worker daemon (services/worker/src): it claims posted bounties one  *)
(* at a time, submits its work and withdraws the reward once the poster    *)
(* has accepted. Several async activities share one process, one state     *)
(* file and one signer; between two awaits each runs alone.                *)
(*                                                                         *)
(* A bounty goes astray when the code acts on what it cannot rely on: it   *)
(* takes a call that threw, or was refused by a paused market, for the end *)
(* of the bounty; it gives the slot back although a cycle threw half-way;  *)
(* it resumes from a row of the indexer that is behind the chain; or it    *)
(* overwrites a change of the state file by one computed before it.        *)
(*                                                                         *)
(* What is abstracted:                                                     *)
(*   - a bounty on the chain is its status and whether this worker holds   *)
(*     it; cancelled, rejected, timed out and revoked are all "Closed".    *)
(*   - worker.state.json and its copy in memory change in the same         *)
(*     synchronous stretch, so they are one variable; an array that never  *)
(*     holds an id twice is a set.                                         *)
(*   - a transaction in flight at a crash has landed before it or never    *)
(*     does; the structural filter only hides bounties from the worker.    *)
(*   - a graceful shutdown stops at a point where a crash could.           *)
(***************************************************************************)
EXTENDS Integers, Sequences, FiniteSets, SequencesExt

CONSTANTS
  Bounties,
  None,        \* null
  Contested,   \* bound: bounties that other workers go for and that may be closed
  Lagging,     \* bounties whose row in the indexer may be behind the chain
  FaultKinds,  \* the faults that occur, among AllFaults
  MaxFaults    \* bound: how many of them

\* crash: the process dies; repeat, lose: the SDK delivers an event twice or
\* swallows it; rpc: getCurrentBlock throws; transport: a signed call throws,
\* landed or not; disk: a write throws; query: a query of the indexer fails;
\* pause: the market is paused and refuses a call whatever its bounty's status.
AllFaults == {"crash", "repeat", "lose", "rpc", "transport", "disk", "query", "pause"}

ASSUME WorkerAssumption ==
  /\ IsFiniteSet(Bounties)
  /\ None \notin Bounties
  /\ Contested \subseteq Bounties /\ Lagging \subseteq Bounties
  /\ FaultKinds \subseteq AllFaults
  /\ MaxFaults \in Nat

VARIABLES
  chain,        \* external: bounty -> its status and whether it is ours
  view,         \* external: bounty -> the indexer's row
  paid,         \* history variable: the bounties whose reward came to this worker
  faults,       \* external: faults so far
  offers,       \* external: BountyPosted events on their way to discovery
  accepts,      \* external: BountyAccepted events on their way to the monitor
  state,        \* worker.state.json: inflight and pending_accept
  history,      \* worker.history.jsonl: bounty -> statuses of its records
  astray,       \* history variable: the bounties the code has let go of unawares
  stage,        \* the boot stage
  todo,         \* what the boot stage still has to go through
  surfaced,     \* dedupIds
  posted,       \* BootBuffer.queue
  bootBuffer,   \* PendingAcceptMonitor.bootBuffer
  slot,         \* InflightSerializer.current
  fsm,          \* MainFsm.run: the await it is at, for which bounty, run by whom
  signer,       \* SignerMutex: the calls waiting, the holder first
  call,         \* how far the holder's call is
  writes        \* WorkerStateFile.writeLock: the writes waiting, in order

market == <<chain, view, paid>>
world == <<market, faults>>
events == <<offers, accepts>>
files == <<state, history, astray>>
boot == <<stage, todo, surfaced, posted, bootBuffer>>
workerVars == <<world, events, files, boot, slot, fsm, signer, call, writes>>

Statuses == {"Absent", "Open", "Claimed", "Submitted", "Accepted", "Withdrawn", "Closed"}
OnChain == [status: Statuses, mine: BOOLEAN]
WorkerState == [inflight: Bounties \cup {None}, pending: SUBSET Bounties]
Idle == [at |-> "idle", id |-> None, by |-> None]

Discovering == stage \in {"query", "catchup", "drain"}
Hot == stage \in {"monitor", "accepted", "live"}
Watching == stage \in {"accepted", "live"}

-------------------------------------------------------------------------------
(* The world outside: the contract, other actors, the indexer and the SDK.    *)

process == <<boot, slot, fsm, signer, call, writes>>

\* A transaction lands; a row that does not lag has it at once. A withdrawal
\* pays; a second one changes nothing.
Becomes(b, status, mine) ==
  /\ chain' = [chain EXCEPT ![b] = [status |-> status, mine |-> mine]]
  /\ view' = IF b \in Lagging THEN view ELSE [view EXCEPT ![b] = chain'[b]]
  /\ paid' = IF status = "Withdrawn" THEN paid \cup {b} ELSE paid

Post(b) ==
  /\ chain[b].status = "Absent"
  /\ Becomes(b, "Open", FALSE)
  /\ offers' = IF Discovering \/ Hot THEN offers \cup {b} ELSE offers
  /\ UNCHANGED <<faults, accepts, files, process>>

\* Another worker claims the bounty, or submits to it.
OthersWork(b) ==
  /\ \/ chain[b].status = "Open" /\ Becomes(b, "Claimed", FALSE)
     \/ chain[b] = [status |-> "Claimed", mine |-> FALSE] /\ Becomes(b, "Submitted", FALSE)
  /\ UNCHANGED <<faults, events, files, process>>

\* The monitor's subscription asks for the events that name this worker.
PosterAccepts(b) ==
  /\ chain[b].status = "Submitted"
  /\ Becomes(b, "Accepted", chain[b].mine)
  /\ accepts' = IF Watching /\ chain[b].mine THEN accepts \cup {b} ELSE accepts
  /\ UNCHANGED <<faults, offers, files, process>>

\* Cancelled, rejected, timed out or revoked, the last even after the withdrawal:
\* whose it was matters no more.
Close(b) ==
  /\ chain[b].status \notin {"Absent", "Closed"}
  /\ Becomes(b, "Closed", FALSE)
  /\ UNCHANGED <<faults, events, files, process>>

Index(b) ==
  /\ view[b] # chain[b]
  /\ view' = [view EXCEPT ![b] = chain[b]]
  /\ UNCHANGED <<chain, paid, faults, events, files, process>>

Fault(kind) ==
  /\ kind \in FaultKinds
  /\ faults < MaxFaults
  /\ faults' = faults + 1

\* Blocks of a fork are announced too, so an event may come a second time.
Repeat(b) ==
  /\ Fault("repeat")
  /\ \/ /\ Discovering \/ Hot
        /\ chain[b].status # "Absent" /\ b \notin offers
        /\ offers' = offers \cup {b}
        /\ UNCHANGED accepts
     \/ /\ Watching
        /\ chain[b].status \in {"Accepted", "Withdrawn"} /\ chain[b].mine /\ b \notin accepts
        /\ accepts' = accepts \cup {b}
        /\ UNCHANGED offers
  /\ UNCHANGED <<market, files, process>>

\* SubscriptionManager swallows what its handler throws, and the events with it.
Lose(b) ==
  /\ Fault("lose")
  /\ b \in offers \cup accepts
  /\ offers' = offers \ {b} /\ accepts' = accepts \ {b}
  /\ UNCHANGED <<market, files, process>>

-------------------------------------------------------------------------------
(* WorkerStateFile: a write is computed when it is called and lands when the  *)
(* writes before it have; all that wait land before any of their callers goes *)
(* on. Two wait at most: one of the FSM or of boot, and one of the monitor.   *)

setInflight(s, b) == [s EXCEPT !.inflight = b]
clearInflight(s) == [s EXCEPT !.inflight = None]
\* Mutation of addPendingAccept: the entries already there are not spread into the new array.
addPendingAcceptAlone(s, b) == [s EXCEPT !.pending = {b}]

addPendingAccept(s, b) == [s EXCEPT !.pending = @ \cup {b}]
\* Mutation of clearPendingAccept: the filter keeps nothing.
clearPendingAcceptAll(s, b) == [s EXCEPT !.pending = {}]

clearPendingAccept(s, b) == [s EXCEPT !.pending = @ \ {b}]

Write(who, next) == writes' = Append(writes, [who |-> who, next |-> next])

Waits(who) == writes # <<>> /\ Head(writes).who = who

\* The write `who` awaits is the last to land, or has landed before the last.
Landed(who) ==
  \/ Len(writes) = 1 /\ Waits(who) /\ state' = Head(writes).next
  \/ writes = <<>> /\ UNCHANGED state

Lands(who) == Landed(who) /\ writes' = <<>>

\* ... and its caller goes on to another write, computed from the new state.
LandsThenWrites(who, next(_)) ==
  Landed(who) /\ writes' = <<[who |-> who, next |-> next(state')]>>

\* The bounty a write of the FSM or of the monitor is about.
About(who) == IF who = "fsm" THEN fsm.id ELSE Head(signer).id

\* A write lands before one that was computed before it landed and takes its
\* change back.
LandsInVain ==
  /\ Len(writes) > 1
  /\ state' = Head(writes).next
  /\ writes' = Tail(writes)
  /\ astray' = astray \cup {About(Head(writes).who)}
  /\ UNCHANGED <<world, events, history, boot, slot, fsm, signer, call>>

\* appendHistoryRecord
Record(b, status) == history' = [history EXCEPT ![b] = @ \cup {status}]

-------------------------------------------------------------------------------
(* The process dies, by itself or because boot threw; nothing volatile stays. *)

Down ==
  /\ stage' = "down" /\ todo' = {} /\ surfaced' = {} /\ posted' = {}
  /\ bootBuffer' = <<>> /\ slot' = None /\ fsm' = Idle
  /\ signer' = <<>> /\ call' = "waiting" /\ writes' = <<>>
  /\ offers' = {} /\ accepts' = {}

Crash ==
  /\ stage # "down"
  /\ Fault("crash")
  /\ Down
  /\ UNCHANGED <<market, files>>

-------------------------------------------------------------------------------
(* The filter pipeline and the main FSM.                                      *)

\* Mutation of Offer: tryAcquire is not asked.
OfferAnyway(b, by) ==
  IF history[b] # {}
  THEN UNCHANGED <<slot, fsm>>
  ELSE slot' = b /\ fsm' = [at |-> "deadline", id |-> b, by |-> by]

\* The pipeline is handed a candidate: it drops one it has a record of, and
\* any while the slot is taken; else it takes the slot and asks the height.
Offer(b, by) ==
  IF history[b] # {} \/ slot # None
  THEN UNCHANGED <<slot, fsm>>
  ELSE slot' = b /\ fsm' = [at |-> "deadline", id |-> b, by |-> by]

GoesTo(at) == fsm' = [fsm EXCEPT !.at = at]

\* Mutation of Release: the cycle ends without clearing its candidate.
ReleaseHalf == slot' = None /\ GoesTo("idle")

\* Mutation of Release: the cycle ends without releasing the serializer.
ReleaseForgotten == fsm' = Idle /\ UNCHANGED slot

Release == slot' = None /\ fsm' = Idle

AwaitsCall(op) == signer' = Append(signer, [op |-> op, id |-> fsm.id])

\* getCurrentBlock answers and the deadline has not passed: MainFsm.run starts.
\* It takes a candidate that is already in flight on file for its own.
PassDeadline ==
  /\ fsm.at = "deadline"
  /\ IF state.inflight = fsm.id
     THEN GoesTo("work") /\ UNCHANGED writes
     ELSE GoesTo("setInflight") /\ Write("fsm", setInflight(state, fsm.id))
  /\ UNCHANGED <<world, events, files, boot, slot, signer, call>>

DropAtDeadline ==
  /\ fsm.at = "deadline"
  /\ Release
  /\ UNCHANGED <<world, events, files, boot, signer, call, writes>>

InflightSet ==
  /\ fsm.at = "setInflight"
  /\ Lands("fsm")
  /\ GoesTo("claim")
  /\ AwaitsCall("claim")
  /\ UNCHANGED <<world, events, history, astray, boot, slot, call>>

\* The adapter, getCurrentBlock and the orchestrator: they touch nothing here.
Work ==
  /\ fsm.at = "work"
  /\ GoesTo("submit")
  /\ AwaitsCall("submit")
  /\ UNCHANGED <<world, events, files, boot, slot, call, writes>>

Calling(op) == signer # <<>> /\ Head(signer).op = op

ClaimLands ==
  /\ Calling("claim") /\ call = "waiting"
  /\ IF chain[fsm.id].status = "Open"
     THEN call' = "ok" /\ Becomes(fsm.id, "Claimed", TRUE)
     ELSE call' = "err" /\ UNCHANGED market
  /\ UNCHANGED <<faults, events, files, boot, slot, fsm, signer, writes>>

SubmitLands ==
  /\ Calling("submit") /\ call = "waiting"
  /\ IF chain[fsm.id] = [status |-> "Claimed", mine |-> TRUE]
     THEN call' = "ok" /\ Becomes(fsm.id, "Submitted", TRUE)
     ELSE call' = "err" /\ UNCHANGED market
  /\ UNCHANGED <<faults, events, files, boot, slot, fsm, signer, writes>>

\* MarketPaused, which the worker takes for any other refusal.
CallPaused ==
  /\ signer # <<>> /\ call = "waiting"
  /\ Calling("withdraw") => Head(signer).id \in state.pending
  /\ Fault("pause")
  /\ call' = "err"
  /\ astray' = astray \cup {Head(signer).id}
  /\ UNCHANGED <<market, events, state, history, boot, slot, fsm, signer, writes>>

\* The holder leaves the mutex.
Unlock == signer' = Tail(signer) /\ call' = "waiting"

ClaimReturns ==
  /\ Calling("claim") /\ call = "ok"
  /\ Unlock
  /\ GoesTo("work")
  /\ UNCHANGED <<world, events, files, boot, slot, writes>>

SubmitReturns ==
  /\ Calling("submit") /\ call = "ok"
  /\ Unlock
  /\ GoesTo("height")
  /\ UNCHANGED <<world, events, files, boot, slot, writes>>

\* abandonAtClaim, abandonAtSubmit: the record first, then the state file.
Abandon ==
  /\ Unlock
  /\ Record(fsm.id, "abandoned")
  /\ Write("fsm", clearInflight(state))
  /\ GoesTo("closing")
  /\ UNCHANGED <<events, state, boot, slot>>

CallRefused ==
  /\ Calling("claim") \/ Calling("submit")
  /\ call = "err"
  /\ Abandon
  /\ UNCHANGED <<world, astray>>

\* The SDK throws, whether the call has landed or not: "TransportError".
CallThrows ==
  /\ Calling("claim") \/ Calling("submit")
  /\ Fault("transport")
  /\ Abandon
  /\ astray' = astray \cup {fsm.id}
  /\ UNCHANGED market

HeightRead ==
  /\ fsm.at = "height"
  /\ GoesTo("pending")
  /\ Write("fsm", addPendingAccept(state, fsm.id))
  /\ UNCHANGED <<world, events, files, boot, slot, signer, call>>

PendingAdded ==
  /\ fsm.at = "pending"
  /\ LandsThenWrites("fsm", clearInflight)
  /\ GoesTo("closing")
  /\ UNCHANGED <<world, events, history, astray, boot, slot, signer, call>>

Closed ==
  /\ fsm.at = "closing"
  /\ Lands("fsm")
  /\ Release
  /\ UNCHANGED <<world, events, history, astray, boot, signer, call>>

\* MainFsm.run throws. The pipeline releases the slot and throws on, which ends
\* boot if boot awaits it; the resume keeps the slot.
Throws ==
  /\ \/ fsm.by = "live" /\ Release /\ astray' = astray \cup {fsm.id}
     \/ fsm.by = "resume" /\ fsm' = Idle /\ UNCHANGED <<slot, astray>>
  /\ UNCHANGED <<events, boot, signer, call>>

FsmThrows ==
  /\ \/ /\ fsm.at \in {"work", "height"}
        /\ Fault("rpc")
        /\ IF fsm.by = "boot" THEN Down /\ UNCHANGED astray ELSE Throws /\ UNCHANGED writes
     \/ /\ Waits("fsm")
        /\ Fault("disk")
        /\ IF fsm.by = "boot" THEN Down /\ UNCHANGED astray ELSE Throws /\ writes' = Tail(writes)
  /\ UNCHANGED <<market, state, history>>

\* The height is asked outside the pipeline's try: the slot is not released.
DeadlineThrows ==
  /\ fsm.at = "deadline"
  /\ Fault("rpc")
  /\ IF fsm.by = "boot" THEN Down
     ELSE fsm' = Idle /\ UNCHANGED <<events, boot, slot, signer, call, writes>>
  /\ UNCHANGED <<market, files>>

-------------------------------------------------------------------------------
(* processWithdraw, inside the signer mutex.                                  *)

\* processForEventId for each of a sequence of ids: those with an entry queue,
\* in their order.
AwaitWithdrawals(ids) ==
  LET known == {i \in DOMAIN ids : ids[i] \in state.pending}
  IN \E turn \in [1 .. Cardinality(known) -> known] :
       /\ \A i, j \in DOMAIN turn : i < j => turn[i] < turn[j]
       /\ signer' = signer \o [i \in DOMAIN turn |-> [op |-> "withdraw", id |-> ids[turn[i]]]]

Withdrawing == Head(signer).id

\* The entries are read again under the mutex.
WithdrawSkipped ==
  /\ Calling("withdraw") /\ call = "waiting"
  /\ Withdrawing \notin state.pending
  /\ Unlock
  /\ UNCHANGED <<world, events, files, boot, slot, fsm, writes>>

\* AlreadyWithdrawn counts as Ok.
WithdrawLands ==
  /\ Calling("withdraw") /\ call = "waiting"
  /\ Withdrawing \in state.pending
  /\ IF chain[Withdrawing].mine /\ chain[Withdrawing].status \in {"Accepted", "Withdrawn"}
     THEN call' = "ok" /\ Becomes(Withdrawing, "Withdrawn", TRUE)
     ELSE call' = "err" /\ UNCHANGED market
  /\ UNCHANGED <<faults, events, files, boot, slot, fsm, signer, writes>>

\* Mutation of Outcome: a refused withdrawal is recorded like an accepted one.
OutcomeDone == "done"

Outcome == IF call = "ok" THEN "done" ELSE "abandoned"

WithdrawReturns ==
  /\ Calling("withdraw") /\ call \in {"ok", "err"}
  /\ Record(Withdrawing, Outcome)
  /\ Write("monitor", clearPendingAccept(state, Withdrawing))
  /\ call' = "writing"
  /\ UNCHANGED <<world, events, state, astray, boot, slot, fsm, signer>>

WithdrawSettled ==
  /\ Calling("withdraw") /\ call = "writing"
  /\ Lands("monitor")
  /\ Unlock
  /\ UNCHANGED <<world, events, history, astray, boot, slot, fsm>>

\* The call throws, or the write does: logged, and the entry stays.
WithdrawThrows ==
  /\ Calling("withdraw")
  /\ \/ /\ call \in {"waiting", "ok"} /\ Withdrawing \in state.pending
        /\ Fault("transport")
        /\ UNCHANGED writes
     \/ /\ call = "writing" /\ Waits("monitor")
        /\ Fault("disk")
        /\ writes' = Tail(writes)
  /\ Unlock
  /\ UNCHANGED <<market, events, files, boot, slot, fsm>>

-------------------------------------------------------------------------------
(* Boot: the resume check, discovery's catch-up and drain, the monitor.       *)

volatile == <<slot, fsm, signer, call, writes>>

Boot ==
  /\ stage = "down"
  /\ stage' = IF state.inflight = None THEN "discover" ELSE "resume"
  /\ UNCHANGED <<world, events, files, todo, surfaced, posted, bootBuffer, volatile>>

\* The indexer's row of the bounty in flight. A withdrawn bounty stays Accepted.
Row == view[state.inflight]

\* The row is taken for the chain's state.
RowBelieved ==
  astray' = IF Row = chain[state.inflight] THEN astray ELSE astray \cup {state.inflight}

\* No row, or one that says there is nothing left to do.
ResumeAbandons ==
  /\ stage = "resume"
  /\ \/ Row.status \in {"Absent", "Closed"}
     \/ Row = [status |-> "Claimed", mine |-> FALSE]
  /\ stage' = "clearing"
  /\ RowBelieved
  /\ Record(state.inflight, "abandoned")
  /\ Write("boot", clearInflight(state))
  /\ UNCHANGED <<world, events, state, todo, surfaced, posted, bootBuffer>>
  /\ UNCHANGED <<slot, fsm, signer, call>>

ResumeClears ==
  /\ stage = "resume"
  /\ \/ Row.status = "Open"
     \/ Row.status \in {"Submitted", "Accepted", "Withdrawn"} /\ state.inflight \in state.pending
  /\ stage' = "clearing"
  /\ RowBelieved
  /\ Write("boot", clearInflight(state))
  /\ UNCHANGED <<world, events, state, history, todo, surfaced, posted, bootBuffer>>
  /\ UNCHANGED <<slot, fsm, signer, call>>

ResumeRebuilds ==
  /\ stage = "resume"
  /\ Row.status \in {"Submitted", "Accepted", "Withdrawn"}
  /\ state.inflight \notin state.pending
  /\ stage' = "rebuilding"
  /\ RowBelieved
  /\ Write("boot", addPendingAccept(state, state.inflight))
  /\ UNCHANGED <<world, events, state, history, todo, surfaced, posted, bootBuffer>>
  /\ UNCHANGED <<slot, fsm, signer, call>>

\* Mutation of ResumeWorks: the resume does not acquire the serializer.
ResumeWorksUnacquired ==
  /\ stage = "resume"
  /\ Row = [status |-> "Claimed", mine |-> TRUE]
  /\ stage' = "discover"
  /\ fsm' = [at |-> "work", id |-> state.inflight, by |-> "resume"]
  /\ RowBelieved
  /\ UNCHANGED <<world, events, state, history, todo, surfaced, posted, bootBuffer>>
  /\ UNCHANGED <<slot, signer, call, writes>>

\* Claimed by this worker: the FSM starts over from Working, and boot goes on.
ResumeWorks ==
  /\ stage = "resume"
  /\ Row = [status |-> "Claimed", mine |-> TRUE]
  /\ stage' = "discover"
  /\ slot' = state.inflight
  /\ fsm' = [at |-> "work", id |-> state.inflight, by |-> "resume"]
  /\ RowBelieved
  /\ UNCHANGED <<world, events, state, history, todo, surfaced, posted, bootBuffer>>
  /\ UNCHANGED <<signer, call, writes>>

Rebuilt ==
  /\ stage = "rebuilding"
  /\ LandsThenWrites("boot", clearInflight)
  /\ stage' = "clearing"
  /\ UNCHANGED <<world, events, history, astray, todo, surfaced, posted, bootBuffer>>
  /\ UNCHANGED <<slot, fsm, signer, call>>

Cleared ==
  /\ stage = "clearing"
  /\ Lands("boot")
  /\ stage' = "discover"
  /\ UNCHANGED <<world, events, history, astray, todo, surfaced, posted, bootBuffer>>
  /\ UNCHANGED <<slot, fsm, signer, call>>

\* Boot throws: a write of the resume check fails, or the health probe or the
\* catch-up query. A resumed cycle's steps during the unwinding come before.
BootThrows ==
  /\ \/ stage \in {"clearing", "rebuilding"} /\ Fault("disk")
     \/ stage = "query" /\ Fault("query")
  /\ Down
  /\ UNCHANGED <<market, files>>

\* setupDiscovery: the live subscription first, then the indexer's Open rows.
Discover ==
  /\ stage = "discover"
  /\ stage' = "query"
  /\ UNCHANGED <<world, events, files, todo, surfaced, posted, bootBuffer, volatile>>

CatchUp ==
  /\ stage = "query"
  /\ stage' = "catchup"
  /\ todo' = {b \in Bounties : view[b].status = "Open"}
  /\ surfaced' = todo'
  /\ UNCHANGED <<world, events, files, posted, bootBuffer, volatile>>

\* Boot awaits the pipeline, so the whole cycle of the candidate it took.
BootWaits == fsm.by = "boot"

\* Mutation of OfferNext: the loop over the candidates does not advance.
OfferNextAgain ==
  /\ stage \in {"catchup", "drain"} /\ ~BootWaits
  /\ \E b \in todo : Offer(b, "boot")
  /\ UNCHANGED <<world, events, files, boot, signer, call, writes>>

OfferNext ==
  /\ stage \in {"catchup", "drain"} /\ ~BootWaits
  /\ \E b \in todo :
       /\ todo' = todo \ {b}
       /\ Offer(b, "boot")
  /\ UNCHANGED <<world, events, files, stage, surfaced, posted, bootBuffer>>
  /\ UNCHANGED <<signer, call, writes>>

\* drainAndGoHot: another round of the buffer, or the flip when it is empty.
DrainAndGoHot ==
  /\ stage \in {"catchup", "drain"} /\ ~BootWaits
  /\ todo = {}
  /\ stage' = IF posted = {} THEN "monitor" ELSE "drain"
  /\ todo' = posted \ surfaced
  /\ posted' = {}
  /\ UNCHANGED <<world, events, files, surfaced, bootBuffer, volatile>>

\* PendingAcceptMonitor.start subscribes, then asks for the entries of the moment.
StartMonitor ==
  /\ stage = "monitor"
  /\ stage' = "accepted"
  /\ todo' = state.pending
  /\ UNCHANGED <<world, events, files, surfaced, posted, bootBuffer, volatile>>

\* The rows that answer, in an order of the indexer's, then the buffered events.
MonitorLive(rows) ==
  /\ stage = "accepted"
  /\ \E answer \in SetToSeqs(rows) : AwaitWithdrawals(answer \o bootBuffer)
  /\ stage' = "live"
  /\ todo' = {}
  /\ bootBuffer' = <<>>
  /\ UNCHANGED <<market, events, files, surfaced, posted, slot, fsm, call, writes>>


BootResume ==
  /\ MonitorLive({b \in todo : view[b].status \in {"Accepted", "Withdrawn"}})
  /\ UNCHANGED faults

BootResumeFails ==
  /\ todo # {}
  /\ Fault("query")
  /\ MonitorLive({})

\* BootBuffer.push: kept while booting, dispatched when hot.
DeliverPosted(b) ==
  /\ b \in offers
  /\ offers' = offers \ {b}
  /\ \/ Discovering /\ posted' = posted \cup {b} /\ UNCHANGED <<slot, fsm>>
     \/ Hot /\ Offer(b, "live") /\ UNCHANGED posted
  /\ UNCHANGED <<world, accepts, files, stage, todo, surfaced, bootBuffer>>
  /\ UNCHANGED <<signer, call, writes>>

\* The monitor's callback.
DeliverAccepted(b) ==
  /\ b \in accepts
  /\ accepts' = accepts \ {b}
  /\ IF stage = "live"
     THEN AwaitWithdrawals(<<b>>) /\ UNCHANGED bootBuffer
     ELSE bootBuffer' = Append(bootBuffer, b) /\ UNCHANGED signer
  /\ UNCHANGED <<world, offers, files, stage, todo, surfaced, posted>>
  /\ UNCHANGED <<slot, fsm, call, writes>>

-------------------------------------------------------------------------------
Init ==
  /\ chain = [b \in Bounties |-> [status |-> "Absent", mine |-> FALSE]]
  /\ view = chain
  /\ paid = {} /\ astray = {}
  /\ faults = 0
  /\ offers = {} /\ accepts = {}
  /\ state = [inflight |-> None, pending |-> {}]
  /\ history = [b \in Bounties |-> {}]
  /\ stage = "down" /\ todo = {} /\ surfaced = {} /\ posted = {} /\ bootBuffer = <<>>
  /\ slot = None /\ fsm = Idle
  /\ signer = <<>> /\ call = "waiting" /\ writes = <<>>

World ==
  \/ \E b \in Bounties : Post(b) \/ PosterAccepts(b) \/ Index(b)
  \/ \E b \in Contested : OthersWork(b) \/ Close(b)

FaultStep ==
  \/ \E b \in Bounties : Repeat(b) \/ Lose(b)
  \/ Crash \/ CallPaused \/ CallThrows \/ FsmThrows \/ DeadlineThrows \/ WithdrawThrows
  \/ BootThrows \/ BootResumeFails

Cycle ==
  \/ PassDeadline \/ DropAtDeadline \/ InflightSet \/ ClaimLands \/ ClaimReturns
  \/ Work \/ SubmitLands \/ SubmitReturns \/ CallRefused
  \/ HeightRead \/ PendingAdded \/ Closed

Settlement == WithdrawSkipped \/ WithdrawLands \/ WithdrawReturns \/ WithdrawSettled

Booting ==
  \/ Boot \/ ResumeAbandons \/ ResumeClears \/ ResumeRebuilds \/ ResumeWorks
  \/ Rebuilt \/ Cleared \/ Discover \/ CatchUp \/ OfferNext \/ DrainAndGoHot
  \/ StartMonitor \/ BootResume

Delivery == \E b \in Bounties : DeliverPosted(b) \/ DeliverAccepted(b)

Next == World \/ FaultStep \/ LandsInVain \/ Cycle \/ Settlement \/ Booting \/ Delivery

Spec == Init /\ [][Next]_workerVars

\* The event loop runs every continuation whose await is over, writes land, the
\* node answers calls, the SDK delivers, and the supervisor restarts the process.
Fairness ==
  /\ WF_workerVars(LandsInVain) /\ WF_workerVars(Cycle) /\ WF_workerVars(Settlement)
  /\ WF_workerVars(Booting) /\ WF_workerVars(Delivery)

FairSpec == Spec /\ Fairness
-------------------------------------------------------------------------------
(* Types: a cycle has a bounty and someone who runs it, or is Idle; a write   *)
(* and a call belong to one of their callers.                                 *)
WorkerTypeOK ==
  /\ chain \in [Bounties -> OnChain] /\ view \in [Bounties -> OnChain]
  /\ paid \subseteq Bounties /\ faults \in 0 .. MaxFaults
  /\ offers \subseteq Bounties /\ accepts \subseteq Bounties
  /\ state \in WorkerState
  /\ history \in [Bounties -> SUBSET {"done", "abandoned"}]
  /\ astray \subseteq Bounties
  /\ stage \in {"down", "resume", "rebuilding", "clearing", "discover", "query",
               "catchup", "drain", "monitor", "accepted", "live"}
  /\ todo \subseteq Bounties /\ surfaced \subseteq Bounties /\ posted \subseteq Bounties
  /\ bootBuffer \in Seq(Bounties)
  /\ slot \in Bounties \cup {None}
  /\ fsm \in {Idle} \cup
       [at: {"deadline", "setInflight", "claim", "work", "submit", "height",
             "pending", "closing"},
        id: Bounties, by: {"boot", "live", "resume"}]
  /\ signer \in Seq([op: {"claim", "submit", "withdraw"}, id: Bounties])
  /\ call \in {"waiting", "ok", "err", "writing"}
  /\ writes \in Seq([who: {"fsm", "boot", "monitor"}, next: WorkerState])
  /\ \A i, j \in DOMAIN writes : writes[i].who = writes[j].who => i = j

Ours(b) == chain[b].mine /\ chain[b].status \in {"Claimed", "Submitted", "Accepted"}

OnFile(b) == state.inflight = b \/ b \in state.pending

\* The FSM that runs holds the slot, and from its claim to its closure its
\* bounty is the one in flight on file, unless it has gone astray; no other claim
\* or submit is queued. The ceiling of one that InflightSerializer and
\* worker.state.json enforce apart.
OneCycle ==
  /\ fsm # Idle => slot = fsm.id
  /\ fsm.at \in {"claim", "work", "submit", "height", "pending"} =>
       state.inflight = fsm.id \/ fsm.id \in astray
  /\ \A i, j \in DOMAIN signer :
       signer[i].op # "withdraw" =>
         /\ signer[i] = [op |-> fsm.at, id |-> fsm.id]
         /\ signer[j].op # "withdraw" => i = j

\* A bounty this worker holds on the chain is found again by the next boot, in
\* flight on file or awaiting acceptance there, unless it has gone astray
\* (fsm/main.ts orders its writes, and resume.ts rebuilds the entry, for this).
OwnWorkTracked == \A b \in Bounties : Ours(b) => OnFile(b) \/ b \in astray

\* The history says "done" only of a reward that was paid (withdraw.ts).
HistoryTruthful == \A b \in Bounties : "done" \in history[b] => b \in paid

\* A bounty in flight on file is displaced by another only if it has gone
\* astray: else the cycle that put it there takes it out.
InflightStays ==
  [][state.inflight # None /\ state.inflight \notin astray =>
       state'.inflight \in {state.inflight, None}]_workerVars

\* ... and without the exception: fsm/main.ts:19-21, "blocking new claims".
InflightKept ==
  [][state.inflight # None => state'.inflight \in {state.inflight, None}]_workerVars

\* An entry leaves pending_accept only when the history already has a record of
\* its bounty (withdraw.ts, "appendHistoryRecord FIRST"), unless it has gone astray.
EntriesStay ==
  [][\A b \in state.pending \ state'.pending : history[b] # {} \/ b \in astray]_workerVars

\* ... and without the exception: worker-state.ts:8, the lock "serializes mutations".
PendingKept ==
  [][\A b \in state.pending \ state'.pending : history[b] # {}]_workerVars

Queued(b) == \E i \in DOMAIN signer : signer[i] = [op |-> "withdraw", id |-> b]

\* A taken slot is given back: every cycle reaches its closure, through the
\* signer mutex and the write lock it shares with withdrawals and boot.
CyclesEnd == slot # None ~> slot = None

\* Boot ends although it awaits the whole cycle of each candidate it takes.
BootCompletes == []<>(stage = "live")

\* What the monitor has heard of, live, buffered or from the indexer, is settled,
\* crashes or not, unless the bounty is closed meanwhile: it is paid, and its
\* entry goes unless it has gone astray.
Heard(b) ==
  /\ b \in state.pending /\ chain[b] = [status |-> "Accepted", mine |-> TRUE]
  /\ \/ b \in accepts \/ Queued(b) \/ b \in ToSet(bootBuffer)
     \/ stage = "accepted" /\ b \in todo


\* An acceptance the monitor observes leads to a withdrawal
\* (fsm/pending-accept-monitor.ts, "on each BountyAccepted observation").
ObservedIsWithdrawn ==
  \A b \in Bounties : b \in accepts ~> b \in paid \/ chain[b].status = "Closed"
=============================================================================
