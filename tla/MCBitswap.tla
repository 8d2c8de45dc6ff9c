------------------------------ MODULE MCBitswap ------------------------------
(***************************************************************************)
(* Bitswap instantiated for TLC: three peers, one of which only speaks     *)
(* 1.0.0, a ledger LRU smaller than the number of peers so that eviction   *)
(* happens, and the default protocol configuration [V120, V110, V100].     *)
(***************************************************************************)
EXTENDS Bitswap, TLC

CONSTANTS p1, p2, p3

MCLocalProtocols == <<"V120", "V110", "V100">>

\* p1 is an old node that speaks 1.0.0 only; p2 and p3 speak every version.
MCRemoteProtocols ==
    [p \in Peers |-> IF p = p1 THEN {"V100"} ELSE {"V120", "V110", "V100"}]

\* p2 and p3 are interchangeable.
MCSymmetry == Permutations({p2, p3})

=============================================================================
