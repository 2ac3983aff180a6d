--------------------------- MODULE MCGpioExpander ---------------------------
(***************************************************************************)
(* Instances of GpioExpander for TLC.                                       *)
(***************************************************************************)
EXTENDS GpioExpander, TLC

\* The last pin of bank A and the first of bank B, so that two tools work on one
\* expander without sharing a bank; an expander that does not exist.
MCBanks == {<<1, 7>>, <<1, 8>>, <<4, 0>>}

Symmetry == Permutations(Tools)
=============================================================================
