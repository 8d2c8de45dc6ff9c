---------------------------- MODULE MCBitswapPair ----------------------------
(***************************************************************************)
(* The two engines of test_bitswap_multiprotocol for TLC: one block, and  *)
(* every case of the test's table.                                        *)
(***************************************************************************)
EXTENDS BitswapPair, TLC

=============================================================================
