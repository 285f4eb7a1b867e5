-------------------------- MODULE Telemetry_proofs --------------------------
(***************************************************************************)
(* truncate_error cuts every message soundly, however long it is and       *)
(* whatever its characters are.  The lemmas say that the CHOOSE in Largest *)
(* finds what it asks for; they go by the library's theorem that a         *)
(* nonempty set has a minimal element in a well-founded order.             *)
(***************************************************************************)
EXTENDS Telemetry, FiniteSetTheorems, WellFoundedInduction, TLAPS

----------------------------------------------------------------------------
(* Extreme elements of sets of numbers.                                    *)

LEMMA LeastElement ==
  ASSUME NEW S \in SUBSET Nat, S # {}
  PROVE  \E n \in S : \A m \in S : n <= m
<1> DEFINE R == OpToRel(<, Nat)
<1>1. IsWellFoundedOn(R, Nat)
  BY NatLessThanWellFounded
<1>2. \A x, y \in Nat : <<y, x>> \in R <=> y < x
  BY DEF OpToRel
<1> HIDE DEF R
<1>3. PICK n \in S : \A m \in S : ~(<<m, n>> \in R)
  BY <1>1, WFMin
<1>4. ASSUME NEW m \in S PROVE n <= m
  <2>1. n \in Nat /\ m \in Nat
    OBVIOUS
  <2>2. ~(m < n)
    BY <1>2, <1>3, <2>1
  <2> QED
    BY <2>1, <2>2
<1> QED
  BY <1>4

\* A bounded set of numbers has a largest element: the one closest to the bound.
LEMMA LargestBounded ==
  ASSUME NEW S \in SUBSET Nat, S # {}, NEW bound \in Nat, \A n \in S : n <= bound
  PROVE  Largest(S) \in S /\ \A m \in S : m <= Largest(S)
<1> DEFINE D == {bound - n : n \in S}
<1>1. D \in SUBSET Nat /\ D # {}
  <2>1. \A n \in S : bound - n \in Nat
    OBVIOUS
  <2> QED
    BY <2>1
<1>2. PICK d \in D : \A e \in D : d <= e
  BY <1>1, LeastElement
<1>3. PICK n \in S : d = bound - n
  BY <1>2
<1>4. \A m \in S : m <= n
  BY <1>2, <1>3
<1> QED
  BY <1>3, <1>4 DEF Largest

\* A finite set has one too: otherwise the elements above one of its elements
\* could be made fewer without end.
LEMMA LargestFinite ==
  ASSUME NEW S \in SUBSET Nat, S # {}, IsFiniteSet(S)
  PROVE  Largest(S) \in S /\ \A m \in S : m <= Largest(S)
<1> DEFINE Above(n) == {m \in S : n < m}
           Sizes == {Cardinality(Above(n)) : n \in S}
<1>1. \A n \in S : IsFiniteSet(Above(n)) /\ Cardinality(Above(n)) \in Nat
  BY FS_Subset, FS_CardinalityType
<1>2. PICK n \in S : \A m \in S : Cardinality(Above(n)) <= Cardinality(Above(m))
  <2>1. Sizes \in SUBSET Nat /\ Sizes # {}
    BY <1>1
  <2>2. PICK d \in Sizes : \A e \in Sizes : d <= e
    BY <2>1, LeastElement
  <2> QED
    BY <2>2
<1>3. ASSUME NEW m \in S, n < m PROVE FALSE
  <2>1. Above(m) \in SUBSET Above(n) /\ m \in Above(n) /\ m \notin Above(m)
    <3>1. \A k \in S : k \in Nat
      OBVIOUS
    <3>2. \A k \in S : m < k => n < k
      BY <1>3, <3>1
    <3>3. ~(m < m)
      BY <3>1
    <3> QED
      BY <1>3, <3>2, <3>3
  <2>2. Cardinality(Above(m)) <= Cardinality(Above(n))
        /\ (Cardinality(Above(n)) = Cardinality(Above(m)) => Above(n) = Above(m))
    BY <1>1, <2>1, FS_Subset
  <2>3. Cardinality(Above(n)) <= Cardinality(Above(m))
    BY <1>2
  <2> QED
    BY <1>1, <2>1, <2>2, <2>3
<1>4. \A m \in S : m <= n
  BY <1>3
<1> QED
  BY <1>4 DEF Largest

----------------------------------------------------------------------------
(* Messages.                                                               *)

\* The length of a message is where its last character ends.
LEMMA ByteLenFacts ==
  ASSUME NEW ends, IsMessage(ends)
  PROVE  /\ ByteLen(ends) \in ends \cup {0} /\ ByteLen(ends) \in Nat
         /\ \A e \in ends : e <= ByteLen(ends)
<1>1. ends \cup {0} \in SUBSET Nat
  BY DEF IsMessage
<1>2. IsFiniteSet(ends \cup {0})
  BY FS_AddElement DEF IsMessage
<1>3. /\ Largest(ends \cup {0}) \in ends \cup {0}
      /\ \A m \in ends \cup {0} : m <= Largest(ends \cup {0})
  BY <1>1, <1>2, LargestFinite
<1> QED
  BY <1>1, <1>3 DEF ByteLen

\* What is kept of a message that is too long ends with one of its characters
\* and stops short of the limit by less than a character.
LEMMA PrefixEndFacts ==
  ASSUME NEW ends, IsMessage(ends), ByteLen(ends) > MAX_ERROR_LEN
  PROVE  /\ PrefixEnd(ends) \in ends
         /\ PrefixEnd(ends) \in MAX_ERROR_LEN - 4 .. MAX_ERROR_LEN - 1
         /\ \A e \in ends : e > PrefixEnd(ends) => e >= MAX_ERROR_LEN
<1> USE DEF MAX_ERROR_LEN
<1> DEFINE Fits == {e \in ends : e <= 511} \cup {0}
           Over == {e \in ends : e > 511}
<1>1. ends \subseteq Nat \ {0} /\ \A e \in ends : \E d \in ends \cup {0} : d < e /\ e <= d + 4
  BY DEF IsMessage
<1>2. Fits \in SUBSET Nat /\ Fits # {} /\ \A n \in Fits : n <= 511
  <2>1. Fits \subseteq Nat /\ 0 \in Fits
    <3>1. \A e \in ends : e \in Nat
      BY <1>1
    <3>2. \A n \in Fits : n \in Nat
      BY <3>1
    <3> QED
      BY <3>2
  <2>2. \A n \in Fits : n <= 511
    OBVIOUS
  <2> QED
    BY <2>1, <2>2
<1>3. PrefixEnd(ends) = Largest(Fits)
  BY DEF PrefixEnd
<1> HIDE DEF Fits
<1>4. PrefixEnd(ends) \in Fits /\ \A m \in Fits : m <= PrefixEnd(ends)
  <2>1. 511 \in Nat
    OBVIOUS
  <2> QED
    BY <1>2, <1>3, <2>1, LargestBounded
<1>5. Over \in SUBSET Nat /\ Over # {}
  <2>1. ByteLen(ends) \in ends /\ ByteLen(ends) > 511
    BY ByteLenFacts
  <2> QED
    BY <1>1, <2>1
<1>6. PICK e \in Over : \A m \in Over : e <= m
  BY <1>5, LeastElement
<1>7. PICK d \in ends \cup {0} : d < e /\ e <= d + 4
  BY <1>1, <1>6
<1>8. d \in Nat /\ e \in Nat /\ e > 511
  BY <1>1, <1>5, <1>6, <1>7
<1>9. d \in Fits
  BY <1>1, <1>6, <1>7, <1>8 DEF Fits
<1>10. PrefixEnd(ends) \in 508 .. 511
  <2>1. PrefixEnd(ends) \in Nat /\ PrefixEnd(ends) <= 511 /\ d <= PrefixEnd(ends)
    BY <1>2, <1>4, <1>9
  <2> QED
    BY <1>7, <1>8, <2>1
<1>11. PrefixEnd(ends) \in ends
  BY <1>4, <1>10 DEF Fits
<1>12. ASSUME NEW c \in ends, c > PrefixEnd(ends) PROVE c >= 512
  BY <1>1, <1>4, <1>10, <1>12 DEF Fits
<1> QED
  BY <1>10, <1>11, <1>12

\* truncate_error, with the limit of 512 bytes it has: every message that fits is
\* kept as it is, and any other cut between two characters, as late as the limit
\* allows; the ellipsis carries the result at most two bytes past the limit.
THEOREM TruncateSound ==
  \A ends : IsMessage(ends) => SoundCut(ends, truncate_error(ends))
<1> SUFFICES ASSUME NEW ends, IsMessage(ends) PROVE SoundCut(ends, truncate_error(ends))
  OBVIOUS
<1>1. ByteLen(ends) \in ends \cup {0} /\ ByteLen(ends) \in Nat
  BY ByteLenFacts
<1>2. CASE ByteLen(ends) <= MAX_ERROR_LEN
  BY <1>1, <1>2 DEF SoundCut, truncate_error, MAX_ERROR_LEN
<1>3. CASE ByteLen(ends) > MAX_ERROR_LEN
  <2>1. truncate_error(ends) = [kept |-> PrefixEnd(ends), len |-> PrefixEnd(ends) + EllipsisLen]
    BY <1>1, <1>3 DEF truncate_error, MAX_ERROR_LEN
  <2> QED
    BY <1>1, <1>3, <2>1, PrefixEndFacts DEF SoundCut, MAX_ERROR_LEN, EllipsisLen
<1> QED
  BY <1>1, <1>2, <1>3 DEF MAX_ERROR_LEN

=============================================================================
