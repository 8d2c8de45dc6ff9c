------------------------------- MODULE MCShare -------------------------------
(***************************************************************************)
(* Share instantiated for TLC: transfers are model values.                 *)
(***************************************************************************)
EXTENDS Share, TLC

CONSTANTS t1, t2

\* Transfers are interchangeable: nothing in the code orders topics.
MCSymmetry == Permutations(Transfers)

=============================================================================
