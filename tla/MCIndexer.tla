------------------------------- MODULE MCIndexer -------------------------------
(* One bounty that can be posted and claimed; the cfgs set how many blocks,   *)
(* events per block and faults of each kind a run has.                        *)
EXTENDS Indexer

MCTwoEvents == {"BountyPosted", "BountyClaimed"}
===============================================================================
