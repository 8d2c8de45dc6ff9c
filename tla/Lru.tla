-------------------------------- MODULE Lru --------------------------------
(***************************************************************************)
(* The key order of caches::RawLRU, the bounded LRU map that holds         *)
(* Bitswap's known_peers and ledgers.  The crate is a dependency, not code *)
(* of this repository; these operators follow its documented behaviour    *)
(* and spec.md section 3.  An LRU is the sequence of its keys, most        *)
(* recently used first, which is also the order iter() and values_mut()    *)
(* visit them in.  The values are kept by the user of the LRU.             *)
(***************************************************************************)
EXTENDS Sequences, SequencesExt

LruKeys(lru) == ToSet(lru)

\* get_mut on a present key, and put on a present key: move it to the front.
Promote(lru, k) == <<k>> \o Remove(lru, k)

\* The key put(k) evicts: the least recently used one, when k is new and the
\* cache is full.
EvictedBy(lru, k, cap) ==
    IF k \notin LruKeys(lru) /\ Len(lru) >= cap THEN {lru[Len(lru)]} ELSE {}

\* put(k): insert or refresh k at the front, evicting as above.
PutKey(lru, k, cap) ==
    IF k \in LruKeys(lru) THEN Promote(lru, k)
    ELSE IF Len(lru) >= cap THEN <<k>> \o SubSeq(lru, 1, cap - 1)
    ELSE <<k>> \o lru

\* remove(k).
RemoveKey(lru, k) == Remove(lru, k)

=============================================================================
