----------------------------- MODULE MCBountyMesh -----------------------------
(* A small market: two bounties, so that the escrows of two meet in one       *)
(* balance, an owner and one more account, and two blocks, so that a bounty   *)
(* can be at its deadline and past it.                                        *)
EXTENDS BountyMesh, TLC

CONSTANTS alice, root, nobody, services

MCActors == {alice, root}
MCRewards == {1}
MCExact == {1}
MCExcess == {1, 2}
MCDeadlines == {NoBlock, 0}
MCTracks == {services}
===============================================================================
