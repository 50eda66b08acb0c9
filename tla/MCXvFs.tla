--------------------------------- MODULE MCXvFs --------------------------------
EXTENDS XvFs

(* The on-disk layout that mkfs writes: the log area is LOGSIZE blocks,   *)
(* header included, and the blocks the calls use come right after it.    *)
MCNLOG == LOGSIZE
MCBlocks == LOGSIZE .. LOGSIZE + 1

=============================================================================
