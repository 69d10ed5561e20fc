------------------------------- MODULE MCGdbTrap -------------------------------
(* The values of registers and memory are alike for GdbTrap. *)
EXTENDS GdbTrap, TLC

CONSTANTS v0, v1
MCVals   == {v0, v1}
Symmetry == Permutations(MCVals)
================================================================================
