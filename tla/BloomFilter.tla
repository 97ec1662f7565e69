---------------------------- MODULE BloomFilter ----------------------------
(***************************************************************************)
(* The part of util/include/bloom_filter.hpp that the dictionary uses:     *)
(* insert and contains on a bit table.  The table is the set of the bits   *)
(* that are 1, a bit being the pair <<byte index, bit in that byte>> that  *)
(* insert and contains compute.  hash_ap with its salts is an arbitrary    *)
(* function of the key and of the number of the salt.                      *)
(***************************************************************************)
EXTENDS Naturals

CONSTANTS
    Key,          \* the keys of the dictionary
    Salt,         \* the indices of salt_: one hash per salt
    HashAp,       \* hash_ap(key, salt_[i]), as a function on Key \X Salt
    table_size_   \* bits in the table

bits_per_char == 8

\* compute_optimal_parameters rounds the table up to whole bytes.
WholeBytes(size) ==
    size + (IF size % bits_per_char # 0
            THEN bits_per_char - (size % bits_per_char) ELSE 0)

ASSUME BloomAssumption ==
    /\ HashAp \in [Key \X Salt -> Nat]
    /\ table_size_ \in Nat \ {0}
    /\ table_size_ = WholeBytes(table_size_)

hash_ap(key, salt) == HashAp[<<key, salt>>]

\* compute_indices, then the subscripts the callers derive from its results.
BitOf(hash) ==
    LET bit_index == hash % table_size_
    IN  <<bit_index \div bits_per_char, bit_index % bits_per_char>>

\* The bits of a key: one per salt.
BitsOf(key) == {BitOf(hash_ap(key, s)) : s \in Salt}

\* The bits that exist: bit_table_ has table_size_ / 8 bytes.
Bit == (0 .. table_size_ \div bits_per_char - 1) \X (0 .. bits_per_char - 1)

EmptyTable == {}

\* Faulty variant: the loop over the salts stops after the first.
insert_FirstSalt(bit_table_, key) ==
    bit_table_ \cup {BitOf(hash_ap(key, CHOOSE s \in Salt : TRUE))}

insert(bit_table_, key) == bit_table_ \cup BitsOf(key)
contains(bit_table_, key) == BitsOf(key) \subseteq bit_table_
=============================================================================
