-------------------------------- MODULE Hamt --------------------------------
(***************************************************************************)
(* The HAMT directory reader of iroh-resolver (src/iroh-resolver/src/     *)
(* hamt.rs): Node::from_node, the recursive Node::get_value with its depth *)
(* limit, index_for_bit_pos and Node::children.                           *)
(*                                                                         *)
(* A directory is a set of entry names with their hashes.  The shards     *)
(* the reader loads are laid out as go-unixfs writes them: a key sits in  *)
(* the shallowest shard where no other key shares its hash prefix, and a  *)
(* link name is the shard index in upper-case hex, zero-padded to the     *)
(* width of fanout - 1, followed by the entry name (shard links carry the *)
(* padded index only).  A hash is the sequence of bit_width-bit chunks    *)
(* HashBits::next hands out from the 64-bit murmur3 hash.  Names are       *)
(* sequences of one-character strings.                                     *)
(***************************************************************************)
EXTENDS Naturals, Sequences, SequencesExt, FiniteSets

CONSTANTS
    Keys,        \* entry names: non-empty sequences of characters
    Fanout,      \* the shard's fanout, as stored in its unixfs Data
    HashFamily   \* the hash values (digit sequences) a key may have

VARIABLES
    dir,         \* the set of entry names in the directory
    hash,        \* hash_key of each name, as HashBits digits
    query,       \* the name looked up
    result,      \* what Hamt::get returned, or Pending
    listed       \* [done, names]: what Hamt::children yielded, once done

hamtVars == <<dir, hash, query, result, listed>>

\* HASH_BIT_LENGTH is a byte count: hash_key returns [u8; 8].
HASH_BIT_LENGTH == 8
MAX_DEPTH == HASH_BIT_LENGTH

\* log2: u32::BITS - x.leading_zeros() - 1, i.e. the floor of log2(x).
Log2(x) == CHOOSE n \in 0..31 : 2^n <= x /\ x < 2^(n + 1)

\* The digits of format!("{:X}", n), most significant first.
RECURSIVE HexDigits(_)
HexDigits(n) == IF n < 16 THEN <<n>> ELSE HexDigits(n \div 16) \o <<n % 16>>

HexChar == <<"0", "1", "2", "3", "4", "5", "6", "7",
             "8", "9", "A", "B", "C", "D", "E", "F">>

\* get_padding_len: the length of format!("{:X}", fanout - 1).
GetPaddingLen(fanout) == Len(HexDigits(fanout - 1))

\* The number of digits HashBits can hand out before it runs out of bits.
NumDigits(w) == (8 * HASH_BIT_LENGTH) \div w

-----------------------------------------------------------------------------
(* The shards as go-unixfs lays them out (the input the reader decodes). *)

Prefix(k, d) == SubSeq(hash[k], 1, d)
Under(p) == {k \in dir : Prefix(k, Len(p)) = p}
IsShard(p) == p = <<>> \/ Cardinality(Under(p)) >= 2

\* The index written as link-name prefix, zero-padded.
PaddedHex(i) ==
    LET h == [j \in 1..Len(HexDigits(i)) |-> HexChar[HexDigits(i)[j] + 1]]
    IN [j \in 1..(GetPaddingLen(Fanout) - Len(h)) |-> "0"] \o h

\* The shard at hash prefix p: its bitfield (unixfs Data) and its links,
\* ordered by index, each naming the prefix of the node it points to.
PbNode(p) ==
    LET idxs == {hash[k][Len(p) + 1] : k \in Under(p)}
        link(i) == LET q == p \o <<i>>
                   IN [path |-> q,
                       name |-> IF IsShard(q) THEN PaddedHex(i)
                                ELSE PaddedHex(i) \o CHOOSE k \in Under(q) : TRUE]
    IN [data |-> idxs,
        links |-> [j \in 1..Cardinality(idxs) |-> link(SetToSortSeq(idxs, <)[j])]]

-----------------------------------------------------------------------------
(* The reader. *)

\* Node::from_node: the bitfield from the Data, the links in order, and
\* bit_width and padding_len from the fanout.
FromNode(pb) ==
    [bitfield |-> pb.data, pointers |-> pb.links,
     bitWidth |-> Log2(Fanout), paddingLen |-> GetPaddingLen(Fanout)]

\* InnerNode::load_from_link (through load_child's cache): a HamtShard
\* becomes InnerNode::Node with that shard's root, anything else a Leaf.
LoadChild(link) ==
    IF IsShard(link.path)
    THEN [kind |-> "Node", node |-> FromNode(PbNode(link.path)), link |-> link]
    ELSE [kind |-> "Leaf", link |-> link]

\* Mutant of IndexForBitPos: the bits counted from the other end of the
\* bitfield (a bit-order mix-up in the mask).
IndexForBitPosReversed(bitfield, bp) == Cardinality({i \in bitfield : i > bp})

\* index_for_bit_pos: the number of set bits of the bitfield below bp.
IndexForBitPos(bitfield, bp) == Cardinality({i \in bitfield : i < bp})

\* &name[padding_len..], which panics when the name is shorter.
SlicePanics(name, pad) == Len(name) < pad

\* Mutant of StripPadding: one character too few cut off.
StripPaddingShort(name, pad) == SubSeq(name, pad, Len(name))

StripPadding(name, pad) == SubSeq(name, pad + 1, Len(name))

\* Mutant of IsEntryLink: a name as long as the padding counts as an entry.
IsEntryLinkGe(name, pad) == Len(name) >= pad

\* children: a named link longer than the padding is an entry.
IsEntryLink(name, pad) == Len(name) > pad

Pending == [r |-> "pending"]
NotFound == [r |-> "none"]
Found(name) == [r |-> "found", name |-> name]
Failed(why) == [r |-> why]

\* Node::get_value(hashed_key, key, depth).
RECURSIVE GetValue(_, _, _)
GetValue(n, key, depth) ==
    IF ~(depth < MAX_DEPTH) THEN Failed("max depth reached")
    ELSE IF depth >= NumDigits(n.bitWidth) THEN Failed("out of bits")
    ELSE LET idx == hash[key][depth + 1]
         IN IF idx \notin n.bitfield THEN NotFound
            ELSE LET child == n.pointers[IndexForBitPos(n.bitfield, idx) + 1]
                     inner == LoadChild(child)
                     name  == StripPadding(inner.link.name, n.paddingLen)
                 IN IF SlicePanics(inner.link.name, n.paddingLen) THEN Failed("panic")
                    ELSE IF key = name THEN Found(name)
                    ELSE IF inner.kind = "Node"
                    THEN GetValue(inner.node, key, depth + 1)
                    ELSE NotFound

\* Node::children: a link whose name is longer than the padding is an
\* entry (its name with the padding cut off); any other named link is a
\* shard whose children are listed in its place.  A Leaf has no children
\* here (the reader's leaves are files).
RECURSIVE ChildrenOf(_), ChildrenFrom(_, _)
ChildrenOf(n) == ChildrenFrom(n, 1)
ChildrenFrom(n, i) ==
    IF i > Len(n.pointers) THEN <<>>
    ELSE LET ptr  == n.pointers[i]
             here == IF IsEntryLink(ptr.name, n.paddingLen)
                     THEN <<StripPadding(ptr.name, n.paddingLen)>>
                     ELSE IF LoadChild(ptr).kind = "Node"
                          THEN ChildrenOf(LoadChild(ptr).node)
                          ELSE <<>>
         IN here \o ChildrenFrom(n, i + 1)

Root == FromNode(PbNode(<<>>))

-----------------------------------------------------------------------------
\* Any directory of the given names whose hashes are pairwise distinct (a
\* full 64-bit collision cannot be stored in a HAMT at all).
Init ==
    /\ dir \in SUBSET Keys
    /\ hash \in {h \in [Keys -> HashFamily] :
                   \A k1, k2 \in Keys : k1 # k2 => h[k1] # h[k2]}
    /\ query \in Keys
    /\ result = Pending
    /\ listed = [done |-> FALSE, names |-> <<>>]

\* Hamt::get / Node::get: hash the key and call get_value at depth 0.
Get ==
    /\ result = Pending
    /\ result' = GetValue(Root, query, 0)
    /\ UNCHANGED <<dir, hash, query, listed>>

\* Hamt::children: list the root's entries.
Children ==
    /\ ~listed.done
    /\ listed' = [done |-> TRUE, names |-> ChildrenOf(Root)]
    /\ UNCHANGED <<dir, hash, query, result>>

Next == Get \/ Children

Spec == Init /\ [][Next]_hamtVars

-----------------------------------------------------------------------------
TypeOK ==
    /\ dir \subseteq Keys
    /\ hash \in [Keys -> HashFamily]
    /\ query \in Keys
    /\ result \in {Pending, NotFound, Failed("max depth reached"),
                   Failed("out of bits"), Failed("panic")} \cup {Found(k) : k \in Keys}
    /\ listed \in [done: BOOLEAN, names: Seq(Keys)]

\* A lookup of a name finds exactly the names of the directory, whatever
\* shard depth their hashes put them at: get_value's depth limit, the
\* bitfield-to-pointer index and the padding cut must agree with the
\* layout the writer used.
GetFindsExactlyTheDirectory ==
    result # Pending =>
        result = IF query \in dir THEN Found(query) ELSE NotFound

\* Listing a directory yields every entry exactly once, whatever shards
\* they are spread over: children must tell entry links from shard links
\* by the name length alone.
ChildrenListsEachEntryOnce ==
    listed.done =>
        /\ ToSet(listed.names) = dir
        /\ Len(listed.names) = Cardinality(dir)

=============================================================================
