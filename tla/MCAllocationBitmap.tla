------------------------- MODULE MCAllocationBitmap -------------------------
(* AllocationBitmap on a range with Max usable addresses, asked for every   *)
(* offset of it and for the one before and the one after.                   *)
EXTENDS AllocationBitmap

MCAsked == (-1)..Max
=============================================================================
