---------------------------- MODULE MCBuildBuddy ----------------------------
(* TLC instances of BuildBuddy: the table Blk of the powers of two.         *)
EXTENDS BuildBuddy

MCBlk == [i \in 0 .. MAX_ORDER - 1 |-> 2 ^ i]
=============================================================================
