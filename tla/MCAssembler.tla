----------------------------- MODULE MCAssembler -----------------------------
(***************************************************************************)
(* Assembler for TLC: 3 contigs over 8 positions, so that ranges can fill  *)
(* a hole, touch or cover several contigs, and find the assembler full.    *)
(***************************************************************************)
EXTENDS Assembler

MCOffsets == 0..MaxSpan
MCSizes == 0..MaxSpan
=============================================================================
