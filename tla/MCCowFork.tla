------------------------------ MODULE MCCowFork ------------------------------
(* CowFork for TLC: three environment slots, so that a child can fork a  *)
(* grandchild; the frame pool is set per run in the .cfg.                 *)
EXTENDS CowFork

=============================================================================
