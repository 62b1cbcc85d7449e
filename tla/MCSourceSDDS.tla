---------------------------- MODULE MCSourceSDDS ----------------------------
(***************************************************************************)
(* Instance of SourceSDDS for TLC: the constants are sets of model values  *)
(* and small numbers given in the configurations.  Addresses and stream    *)
(* IDs are only compared, so they may be permuted.                         *)
(***************************************************************************)
EXTENDS SourceSDDS, TLC

Symmetry == Permutations(Addresses) \cup Permutations(StreamIds)
=============================================================================
