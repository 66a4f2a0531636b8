------------------------------ MODULE MCH2TRing ------------------------------
(***************************************************************************)
(* Values for model checking H2TRing.  A word is 2 bytes instead of 8; the *)
(* memory holds three words; the unsigned short wraps after 6, a multiple  *)
(* of the chain's length as 2^16 is of 128.                                *)
(***************************************************************************)
EXTENDS H2TRing

MCSizes == {0, 1, 3}

MCSizesLive == {0, 1, 6, 7}   \* ... the whole memory, and a packet that never fits
=============================================================================
