------------------------------ MODULE MCVmHeap ------------------------------
(***************************************************************************)
(* VmHeap on a heap of four slots.  The addresses are null, a local slot,  *)
(* a misaligned word with and without the tag and every slot's address; the*)
(* counts include zero, one that fits only an empty heap and one that      *)
(* never fits.                                                             *)
(***************************************************************************)
EXTENDS VmHeap

MCAddresses == {0, 16, 8, 65} \cup {64 + 16 * i : i \in 0 .. 3}
MCSlotCounts == {0, 1, 2, 4, 5}
MCValues == {0, 1}
=============================================================================
