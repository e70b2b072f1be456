\* Two-word masks of 2-bit words, two hashes per id, hash values that wrap
\* the word index (0..7 over 2 words of 2 bits), two ids.
CONSTANTS
    Size = 2
    Width = 2
    NumHashes = 2
    Id = {i1, i2}
    HashVal = {0, 1, 2, 3, 4, 5, 6, 7}
SPECIFICATION BSpec
INVARIANT BloomTypeOK
INVARIANT NoFalseNegatives
INVARIANT ContainsMatchesReference
