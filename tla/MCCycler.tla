------------------------------- MODULE MCCycler -------------------------------
(* A third account would triple the market's steps and add nothing to the      *)
(* cycler's: the other one works, posts and, as the owner, revokes. The chain  *)
(* stays at block 0: only a deadline asks for the height, and the cycler gives *)
(* none.                                                                       *)
EXTENDS Cycler, TLC

CONSTANTS cycler, worker, nobody, services

MCActors == {cycler, worker}
MCRewards == {1}
MCDeadlines == {NoBlock}
MCTracks == {services}
===============================================================================
