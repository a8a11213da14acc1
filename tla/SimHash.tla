------------------------------ MODULE SimHash --------------------------------
(***************************************************************************)
(* hashing/ConstantSpaceSimHasher.h hash(text), the simhash of the Python  *)
(* interface: walk the 2-shingles of the text (ShingleView2 over           *)
(* TokenView), count each shingle that a Bloom filter has not seen into    *)
(* one accumulator per bit, and return the bits that did not go negative.  *)
(***************************************************************************)
EXTENDS TokenView, Integers, SequencesExt

CONSTANTS Bit,              \* bit positions of the result, 0 .. 63 in the code
          HashBits(_),      \* bits set in the seeded hash of a shingle
          BloomIndexes(_)   \* filter bits of a shingle, one per hash function

VARIABLES first, second,    \* the two token iterators of the shingle iterator
          prevPart1,        \* byte offset of the previous shingle, NoPart at first
          bloom,            \* the set bits of the filter
          hashAccumulator,
          hashing,
          shingles,         \* history: the shingles walked, Len(text) + 1 at most
          counted           \* history: the contents counted

hashVars == <<first, second, prevPart1, bloom, hashAccumulator, hashing,
              shingles, counted>>

NoPart == -1

Word(token) == SubSeq(text, token.start + 1, token.end)
Shingle == <<Word(first), Word(second)>>

(* ShingleView2::Iterator::good *)
ShingleGood == Good(first) /\ first # second

(* The loop condition and its two breaks. *)
Continues == /\ ShingleGood
             /\ first # EndToken
             /\ prevPart1 # Offset(first.start)

-----------------------------------------------------------------------------
(* begin() pairs the first token with the one the post-increment returns.  *)
HashText(t) == /\ text' = t
               /\ first' = FirstToken'
               /\ second' = NextToken(FirstToken)'
               /\ prevPart1' = NoPart
               /\ bloom' = {}
               /\ hashAccumulator' = [b \in Bit |-> 0]
               /\ hashing' = TRUE
               /\ shingles' = <<>> /\ counted' = <<>>

NoHash == /\ first = EndToken /\ second = EndToken
          /\ prevPart1 = NoPart
          /\ bloom = {}
          /\ hashAccumulator = [b \in Bit |-> 0]
          /\ hashing = FALSE
          /\ shingles = <<>> /\ counted = <<>>

(* Variants of the increment: it skips a token; it swaps the iterators. *)
SkippingSecond ==
  LET next == NextToken(second)
  IN  first' = next /\ second' = NextToken(next)

SwappingBoth == first' = second /\ second' = first

(* ShingleView2::Iterator::operator++ of an iterator that is good: if the  *)
(* second token is not, both move past it.                                 *)
AdvanceShingle ==
  LET next == NextToken(second)
  IN  /\ first' = IF Good(second) THEN second ELSE next
      /\ second' = next

(* Variant: all bits must be new. *)
AnyIndexMissing(s) == BloomIndexes(s) \cap bloom = {}

(* BloomFilter::insertIfMissing answers that some bit was not set. *)
Missing(s) == ~ BloomIndexes(s) \subseteq bloom

AddTo(acc, s) == [b \in Bit |-> IF b \in HashBits(s) THEN acc[b] + 1 ELSE acc[b] - 1]

Walk ==
  /\ hashing /\ Continues
  /\ prevPart1' = Offset(first.start)
  /\ bloom' = bloom \cup BloomIndexes(Shingle)
  /\ IF Missing(Shingle)
     THEN /\ hashAccumulator' = AddTo(hashAccumulator, Shingle)
          /\ counted' = Append(counted, Shingle)
     ELSE UNCHANGED <<hashAccumulator, counted>>
  /\ shingles' = IF Len(shingles) > Len(text) THEN shingles
                                             ELSE Append(shingles, <<first, second>>)
  /\ AdvanceShingle
  /\ UNCHANGED <<text, hashing>>

Finish == /\ hashing /\ ~Continues
          /\ hashing' = FALSE
          /\ UNCHANGED <<text, first, second, prevPart1, bloom, hashAccumulator,
                         shingles, counted>>

Result == {b \in Bit : hashAccumulator[b] >= 0}

-----------------------------------------------------------------------------
Adjacent(a, b) == a.end < b.start /\ \A r \in Runs : r.end <= a.end \/ r.start >= b.start

(* Every shingle walked pairs a word with the next word of the text; only  *)
(* the last one may lack its second word; each word starts one shingle.    *)
ShinglesAreAdjacentWords ==
  \A i \in DOMAIN shingles :
    LET a == shingles[i][1]  b == shingles[i][2]
    IN  /\ a \in Runs
        /\ b \in Runs => Adjacent(a, b)
        /\ b \notin Runs => b.start = b.end /\ i = Len(shingles)
        /\ i > 1 => shingles[i - 1][2] = a

(* The shingles that were counted decide: each bit of the result is their  *)
(* majority vote, a tie counting as 1 (with nothing counted every bit is   *)
(* set).  A shingle that occurs twice is counted once, and one that is     *)
(* never counted shares every filter bit with some that were: the filter   *)
(* has false positives but no false negatives.                             *)
ResultIsMajority ==
  LET Content(s) == <<Word(s[1]), Word(s[2])>>
  IN  /\ \A b \in Bit : b \in Result <=>
           2 * Cardinality({s \in Range(counted) : b \in HashBits(s)}) >= Len(counted)
      /\ \A i \in DOMAIN shingles : Content(shingles[i]) \notin Range(counted) =>
           BloomIndexes(Content(shingles[i])) \subseteq UNION {BloomIndexes(s) : s \in Range(counted)}

=============================================================================
