-------------------------------- MODULE MCHamt --------------------------------
(***************************************************************************)
(* The HAMT reader over three names whose hashes are all-zero except for   *)
(* at most one digit, which is 1 or fanout - 1: every shard depth a pair   *)
(* of names can split at, and shards with children at the lowest, a low   *)
(* and the highest index.                                                  *)
(***************************************************************************)
EXTENDS Hamt

MCKeys == {<<"a">>, <<"b">>, <<"c", "d">>}

\* Two names, enough for one chain of shards as deep as their hashes agree.
MCKeyPair == {<<"a">>, <<"b">>}

\* Digit sequences of the full length HashBits allows at this fanout.
MCHashFamily ==
    LET L == NumDigits(Log2(Fanout))
        zero == [i \in 1..L |-> 0]
    IN {zero} \cup {[zero EXCEPT ![j] = v] : j \in 1..L, v \in {1, Fanout - 1}}

=============================================================================
