---------------------------- MODULE BloomFilter ----------------------------
(***************************************************************************)
(* The bloom-filter helpers of the service                                *)
(* (src/service/src/utils/bloom_filter.rs): bloom_filter_bits hashes an   *)
(* id num_hashes times into a vector of size words, bloom_filter_add ORs  *)
(* such a vector into a mask, bloom_filter_contains tests that every bit  *)
(* of it is in the mask.  A word has Width bits (64 for u64).             *)
(*                                                                         *)
(* DefaultHasher is deterministic but its values are not modelled: Hash,  *)
(* the value of the n-th hash of each id, is chosen freely in Init from   *)
(* HashVal, so every collision pattern of the bounded ids is checked.     *)
(* A caller adds ids to one mask; added is the set of ids added so far.   *)
(***************************************************************************)
EXTENDS Naturals, Sequences, FiniteSets, SequencesExt, Functions, Bitwise

CONSTANTS
    Size,       \* words per vector (the size argument)
    Width,      \* bits per word (64)
    NumHashes,  \* the num_hashes argument
    Id,         \* ids the caller adds or looks up
    HashVal     \* the values the hasher may return

ASSUME /\ Size \in Nat \ {0}
       /\ Width \in Nat \ {0}
       /\ NumHashes \in Nat \ {0}
       /\ HashVal \subseteq Nat

VARIABLES
    Hash,    \* id -> n -> finish() of the n-th hasher
    mask,    \* the caller's mask: Size words
    added    \* ids added to the mask

bvars == <<Hash, mask, added>>

\* Mutant: the bit index is the whole hash, not hash % 64
BloomFilterBitsNoMod(size, hs) ==
    FoldLeft(LAMBDA v, h : [v EXCEPT ![((h \div Width) % size) + 1] = @ | 2^h],
             [i \in 1 .. size |-> 0], hs)

\* bloom_filter_bits(size, num_hashes, id) for the hash values hs of id:
\* hash n sets bit hash % 64 of word (hash / 64) % size
BloomFilterBits(size, hs) ==
    FoldLeft(LAMBDA v, h : [v EXCEPT ![((h \div Width) % size) + 1] = @ | 2^(h % Width)],
             [i \in 1 .. size |-> 0], hs)

\* Mutant: ^= in place of |=
BloomFilterAddXor(m, bits) ==
    IF Len(m) # Len(bits) THEN [ok |-> FALSE, mask |-> m]
    ELSE [ok |-> TRUE, mask |-> [i \in 1 .. Len(m) |-> m[i] ^^ bits[i]]]

\* bloom_filter_add(mask, bits): Err(()) and the mask untouched when the
\* lengths differ, otherwise every word ORed in
BloomFilterAdd(m, bits) ==
    IF Len(m) # Len(bits) THEN [ok |-> FALSE, mask |-> m]
    ELSE [ok |-> TRUE, mask |-> [i \in 1 .. Len(m) |-> m[i] | bits[i]]]

\* Mutant: a word matches when it shares any bit with the mask
BloomFilterContainsAnyBit(m, bits) ==
    IF Len(m) # Len(bits) THEN [ok |-> FALSE]
    ELSE [ok |-> TRUE, val |-> \A i \in 1 .. Len(m) : bits[i] = 0 \/ (m[i] & bits[i]) # 0]

\* bloom_filter_contains(mask, bits): Err(()) when the lengths differ,
\* otherwise false at the first word with (mask & bits) != bits
BloomFilterContains(m, bits) ==
    IF Len(m) # Len(bits) THEN [ok |-> FALSE]
    ELSE [ok |-> TRUE, val |-> \A i \in 1 .. Len(m) : (m[i] & bits[i]) = bits[i]]

BitsOf(id) == BloomFilterBits(Size, Hash[id])

BInit ==
    /\ Hash \in [Id -> [1 .. NumHashes -> HashVal]]
    /\ mask = [i \in 1 .. Size |-> 0]
    /\ added = {}

\* The caller computes bloom_filter_bits(Size, NumHashes, id) and adds it
Add(id) ==
    /\ mask' = BloomFilterAdd(mask, BitsOf(id)).mask
    /\ added' = added \cup {id}
    /\ UNCHANGED Hash

BNext == \E id \in Id : Add(id)

BSpec == BInit /\ [][BNext]_bvars

-----------------------------------------------------------------------------
(* Properties                                                              *)

BloomTypeOK ==
    /\ mask \in [1 .. Size -> 0 .. 2^Width - 1]
    /\ added \subseteq Id

\* No false negatives: after any sequence of bloom_filter_add calls, every
\* id added is reported present by bloom_filter_contains, however the
\* hashes of different ids collide.
NoFalseNegatives ==
    \A id \in added : BloomFilterContains(mask, BitsOf(id)).val

\* (word, bit) positions the hashes of id select, computed without bit
\* arithmetic
Positions(id) == {<<(h \div Width) % Size, h % Width>> : h \in Range(Hash[id])}

\* bloom_filter_contains answers exactly the reference question: an id is
\* reported present iff every position its hashes select was selected by
\* some id added before; false positives are the collisions, nothing else.
ContainsMatchesReference ==
    \A id \in Id :
        BloomFilterContains(mask, BitsOf(id)).val
            <=> Positions(id) \subseteq UNION {Positions(a) : a \in added}

=============================================================================
