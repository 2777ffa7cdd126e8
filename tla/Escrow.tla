-------------------------------- MODULE Escrow --------------------------------
(***************************************************************************)
(* What the market promises about the reward of a bounty, and nothing      *)
(* else: it enters the program once; the poster may settle the work; it    *)
(* leaves at most once, to the worker only when the work was settled, to   *)
(* the poster otherwise; and once gone it stays gone.                      *)
(***************************************************************************)
CONSTANT Ids

VARIABLES
  holder,   \* id -> who has the reward
  settled   \* id -> whether the poster accepted the work

escrowVars == <<holder, settled>>

Holders == {"nobody", "program", "worker", "poster"}

EscrowInit ==
  /\ holder = [id \in Ids |-> "nobody"]
  /\ settled = [id \in Ids |-> FALSE]

Fund(id) ==
  /\ holder[id] = "nobody"
  /\ holder' = [holder EXCEPT ![id] = "program"]
  /\ UNCHANGED settled

Settle(id) ==
  /\ holder[id] = "program"
  /\ ~settled[id]
  /\ settled' = [settled EXCEPT ![id] = TRUE]
  /\ UNCHANGED holder

PayWorker(id) ==
  /\ holder[id] = "program"
  /\ settled[id]
  /\ holder' = [holder EXCEPT ![id] = "worker"]
  /\ UNCHANGED settled

Refund(id) ==
  /\ holder[id] = "program"
  /\ holder' = [holder EXCEPT ![id] = "poster"]
  /\ UNCHANGED settled

EscrowNext ==
  \E id \in Ids : Fund(id) \/ Settle(id) \/ PayWorker(id) \/ Refund(id)

EscrowSpec == EscrowInit /\ [][EscrowNext]_escrowVars

===============================================================================
