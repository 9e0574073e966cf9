--------------------------- MODULE Numeric_proofs ---------------------------
(***************************************************************************)
(* Proofs about the conversions of Numeric, for every input.               *)
(***************************************************************************)
EXTENDS NumericInputs, FiniteSetTheorems, WellFoundedInduction, TLAPS

\* The registers of a block are those its bytes are in.
LEMMA BytesCoverRegisters ==
  ASSUME NEW startReg \in Nat, NEW len \in Nat, len > 0
  PROVE  /\ \A i \in 0..(len - 1) :
              startReg + i \div 2 \in startReg..(startReg + RegisterSpan(len))
         /\ \A reg \in startReg..(startReg + RegisterSpan(len)) :
              \E i \in 0..(len - 1) : reg = startReg + i \div 2
<1>1. ASSUME NEW i \in 0..(len - 1)
      PROVE  startReg + i \div 2 \in startReg..(startReg + RegisterSpan(len))
  BY DEF RegisterSpan
<1>2. ASSUME NEW reg \in startReg..(startReg + RegisterSpan(len))
      PROVE  \E i \in 0..(len - 1) : reg = startReg + i \div 2
  <2>1. 2 * (reg - startReg) \in 0..(len - 1)
    BY <1>2 DEF RegisterSpan
  <2>2. reg = startReg + (2 * (reg - startReg)) \div 2
    BY <1>2 DEF RegisterSpan
  <2> QED BY <2>1, <2>2
<1> QED BY <1>1, <1>2

\* isValidPublicRegisterBlock accepts a block of any length, from any register,
\* exactly if every byte the device would reach is in a public register and no
\* address wraps: its guard on the span is neither too strict nor off by one.
THEOREM BlockGuardExact ==
  ASSUME NEW startReg \in 0..255, NEW len \in Nat
  PROVE  IsValidPublicRegisterBlock(startReg, len) <=> BlockIsPublic(startReg, len)
<1>1. CASE len = 0
  BY <1>1 DEF IsValidPublicRegisterBlock, BlockIsPublic
<1>2. CASE len > 0
  <2> DEFINE Last == startReg + RegisterSpan(len)
  <2>0. startReg \in Nat
    OBVIOUS
  <2>1. Last \in Nat /\ Last \in startReg..Last
    BY <1>2 DEF RegisterSpan
  <2>2. \A i \in 0..(len - 1) : startReg + i \div 2 \in startReg..Last
    BY <1>2, <2>0, BytesCoverRegisters
  <2>3. \A reg \in startReg..Last :
          \E i \in 0..(len - 1) : reg = startReg + i \div 2
    BY <1>2, <2>0, BytesCoverRegisters
  <2>4. RegisterSpan(len) <= 255 - startReg <=> Last <= 255
    BY <1>2 DEF RegisterSpan
  <2> HIDE DEF Last
  <2>5. ASSUME IsValidPublicRegisterBlock(startReg, len)
        PROVE  BlockIsPublic(startReg, len)
    <3>1. SUFFICES ASSUME NEW i \in 0..(len - 1)
                   PROVE  /\ startReg + i \div 2 <= 255
                          /\ IsValidPublicRegisterAddress(startReg + i \div 2)
      BY <1>2 DEF BlockIsPublic
    <3>2. startReg + i \div 2 \in startReg..Last /\ Last <= 255
      BY <2>2, <2>4, <2>5 DEF IsValidPublicRegisterBlock
    <3>3. \A reg \in startReg..Last : IsValidPublicRegisterAddress(reg)
      BY <2>5 DEF IsValidPublicRegisterBlock, Last
    <3> QED BY <2>1, <3>2, <3>3
  <2>6. ASSUME BlockIsPublic(startReg, len)
        PROVE  IsValidPublicRegisterBlock(startReg, len)
    <3>1. \A reg \in startReg..Last : reg <= 255 /\ IsValidPublicRegisterAddress(reg)
      BY <2>3, <2>6 DEF BlockIsPublic
    <3>2. Last <= 255
      BY <2>1, <3>1
    <3> QED BY <1>2, <2>4, <3>1, <3>2 DEF IsValidPublicRegisterBlock, Last
  <2> QED BY <2>5, <2>6
<1> QED BY <1>1, <1>2

-----------------------------------------------------------------------------
(* The threshold encoding. *)

\* A non-empty set of natural numbers has a least element.
LEMMA Smallest ==
  ASSUME NEW S, S \subseteq Nat, S # {}
  PROVE  \E m \in S : \A k \in S : m <= k
<1> DEFINE R == {p \in Nat \X Nat : p[1] < p[2]}
<1>1. IsWellFoundedOn(R, Nat)
  BY NatLessThanWellFounded DEF OpToRel
<1>2. PICK m \in S : \A k \in S : <<k, m>> \notin R
  <2> HIDE DEF R
  <2> QED BY <1>1, WFMin
<1>3. m \in Nat
  OBVIOUS
<1>4. ASSUME NEW k \in S PROVE m <= k
  <2>1. k \in Nat /\ <<k, m>> \notin R
    BY <1>2
  <2> QED BY <1>3, <2>1
<1> QED BY <1>4

\* A quantum is a positive number of codes: 2^n counts the subsets of n things.
LEMMA QuantumPositive ==
  ASSUME NEW e \in Nat
  PROVE  Quantum(e) \in Nat \ {0}
<1> DEFINE n == ThresholdShiftBase + e
<1>1. n \in Nat
  BY ThresholdAssumption
<1> HIDE DEF n
<1>2. IsFiniteSet(1..n) /\ Cardinality(1..n) = n
  BY <1>1, FS_Interval
<1>3. IsFiniteSet(SUBSET (1..n)) /\ Cardinality(SUBSET (1..n)) = 2^n
  BY <1>2, FS_SUBSET
<1>4. Cardinality(SUBSET (1..n)) \in Nat
  BY <1>3, FS_CardinalityType
<1>5. SUBSET (1..n) # {}
  OBVIOUS
<1>6. Cardinality(SUBSET (1..n)) # 0
  BY <1>3, <1>5, FS_EmptySet
<1>7. Quantum(e) = 2^n
  BY DEF Quantum, n
<1> QED BY <1>3, <1>4, <1>6, <1>7

Distance(a, b) == IF a < b THEN b - a ELSE a - b

LEMMA Multiples ==
  ASSUME NEW q \in Nat, NEW a \in Nat, NEW b \in Nat, a < b
  PROVE  a * q \in Nat /\ b * q \in Nat /\ a * q + q <= b * q
<1> DEFINE j == b - a - 1
<1>1. j \in Nat /\ b = a + 1 + j
  OBVIOUS
<1> HIDE DEF j
<1>2. (a + 1 + j) * q = a * q + q + j * q /\ j * q >= 0
  BY <1>1
<1>3. a * q \in Nat /\ b * q \in Nat /\ j * q \in Nat
  BY <1>1
<1> QED BY <1>1, <1>2, <1>3

\* Rounding to the nearest multiple of q, then clamping to max, gives the multiple
\* of at most max that is nearest.
LEMMA RoundingIsNearest ==
  ASSUME NEW q \in Nat \ {0}, NEW codes \in Nat, NEW max \in Nat,
         NEW r \in Nat,
         r = LET n == (2 * codes + q) \div (2 * q) IN IF n > max THEN max ELSE n,
         NEW s \in 0..max
  PROVE  r \in 0..max /\ Distance(r * q, codes) <= Distance(s * q, codes)
<1> DEFINE n == (2 * codes + q) \div (2 * q)
           rest == (2 * codes + q) % (2 * q)
<1>1. n \in Int /\ rest \in 0..(2 * q - 1)
  OBVIOUS
<1>2. 2 * codes + q = (2 * q) * n + rest
  BY SMTT(60)
<1>3. n \in Nat
  OBVIOUS
<1>4. r = IF n > max THEN max ELSE n
  OBVIOUS
<1> HIDE DEF n, rest
<1>5. n * q \in Nat /\ (2 * q) * n = 2 * (n * q)
  BY <1>3
<1>6. 2 * codes + q = 2 * (n * q) + rest
  BY <1>2, <1>5
<1>7. r \in 0..max /\ r <= n
  BY <1>3, <1>4
<1>8. r * q \in Nat /\ s * q \in Nat /\ s \in Nat
  OBVIOUS
<1> DEFINE a == n * q
           b == r * q
           c == s * q
<1>9. r < n => b + q <= a /\ r = max
  BY <1>3, <1>4, Multiples
<1>10. s < r => c + q <= b
  BY <1>8, Multiples
<1>11. r < s => b + q <= c /\ r = n
  BY <1>3, <1>4, <1>8, Multiples
<1>12. r = n => a = b
  OBVIOUS
<1>13. s = r => c = b
  OBVIOUS
<1>14. a \in Nat /\ b \in Nat /\ c \in Nat /\ 2 * codes + q = 2 * a + rest
  BY <1>5, <1>6, <1>8
<1> HIDE DEF a, b, c
<1>15. CASE s = r
  <2>1. Distance(b, codes) <= Distance(c, codes)
    BY <1>13, <1>14, <1>15 DEF Distance
  <2> QED BY <1>7, <2>1 DEF b, c
<1>16. CASE s < r
  <2>1. c + q <= b
    BY <1>10, <1>16
  <2>2. r = n \/ r < n
    BY <1>3, <1>7
  <2>3. 2 * b <= 2 * codes + q
    BY <1>1, <1>9, <1>12, <1>14, <2>2
  <2>4. Distance(b, codes) <= Distance(c, codes)
    BY <1>14, <2>1, <2>3 DEF Distance
  <2> QED BY <1>7, <2>4 DEF b, c
<1>17. CASE r < s
  <2>1. b + q <= c /\ a = b
    BY <1>11, <1>12, <1>17
  <2>2. 2 * codes + q <= 2 * b + 2 * q
    BY <1>1, <1>14, <2>1
  <2>3. Distance(b, codes) <= Distance(c, codes)
    BY <1>14, <2>1, <2>2 DEF Distance
  <2> QED BY <1>7, <2>3 DEF b, c
<1> QED BY <1>8, <1>15, <1>16, <1>17

\* luxToThreshold returns a valid threshold and the nearest of all valid ones, for
\* every format, whatever its widths, and every request, however large.
THEOREM ThresholdIsNearest ==
  ASSUME NEW codes \in Nat
  PROVE  LET t == LuxToThreshold(codes)
         IN t \in ValidThresholds /\ \A u \in ValidThresholds :
              EncodingError(codes, t) <= EncodingError(codes, u)
<1> DEFINE candidate(e) == [exponent |-> e, result |-> RoundedResult(codes, e)]
           err(e) == EncodingError(codes, candidate(e))
           Exponents == 0..ThresholdExponentMax
           Best(e) == \A f \in Exponents :
                        err(e) < err(f) \/ (err(e) = err(f) /\ e <= f)
           best == CHOOSE e \in Exponents : Best(e)
<1>1. \A t \in ValidThresholds :
        /\ t.result * Quantum(t.exponent) \in Nat
        /\ EncodingError(codes, t) = Distance(t.result * Quantum(t.exponent), codes)
  <2>1. SUFFICES ASSUME NEW t \in ValidThresholds
                 PROVE  /\ t.result * Quantum(t.exponent) \in Nat
                        /\ EncodingError(codes, t)
                             = Distance(t.result * Quantum(t.exponent), codes)
    OBVIOUS
  <2> DEFINE q == Quantum(t.exponent)
             r == t.result
  <2>2. q \in Nat /\ r \in Nat
    BY ThresholdAssumption, QuantumPositive DEF ValidThresholds
  <2> HIDE DEF q, r
  <2>3. r * q \in Nat
    BY <2>2
  <2> DEFINE p == r * q
  <2>4. EncodingError(codes, t) = IF p - codes < 0 THEN -(p - codes) ELSE p - codes
    BY DEF EncodingError, ThresholdToAdcCodes, q, r
  <2>5. p \in Nat
    BY <2>3
  <2> HIDE DEF p
  <2>6. EncodingError(codes, t) = Distance(p, codes)
    BY <2>4, <2>5 DEF Distance
  <2> QED BY <2>5, <2>6 DEF p, q, r
<1>2. \A e \in Exponents : candidate(e) \in ValidThresholds /\ err(e) \in Nat
  <2>1. SUFFICES ASSUME NEW e \in Exponents
                 PROVE  candidate(e) \in ValidThresholds /\ err(e) \in Nat
    OBVIOUS
  <2>2. RoundedResult(codes, e) \in 0..ThresholdResultMax
    <3> DEFINE q == Quantum(e)
    <3>1. q \in Nat \ {0}
      BY ThresholdAssumption, QuantumPositive
    <3>2. RoundedResult(codes, e) = LET n == (2 * codes + q) \div (2 * q)
                                    IN IF n > ThresholdResultMax THEN ThresholdResultMax ELSE n
      BY DEF RoundedResult
    <3> HIDE DEF q
    <3>3. (2 * codes + q) \div (2 * q) \in Nat
      BY <3>1
    <3> QED BY <3>2, <3>3, ThresholdAssumption
  <2>3. candidate(e) \in ValidThresholds
    BY <2>2 DEF ValidThresholds
  <2> HIDE DEF candidate
  <2>4. err(e) \in Nat
    BY <1>1, <2>3 DEF Distance
  <2> QED BY <2>3, <2>4
<1>3. \A e \in Exponents : \A s \in 0..ThresholdResultMax :
        err(e) <= EncodingError(codes, [exponent |-> e, result |-> s])
  <2>1. SUFFICES ASSUME NEW e \in Exponents, NEW s \in 0..ThresholdResultMax
                 PROVE  err(e) <= EncodingError(codes, [exponent |-> e, result |-> s])
    OBVIOUS
  <2> DEFINE u == [exponent |-> e, result |-> s]
             q == Quantum(e)
             r == RoundedResult(codes, e)
  <2>2. u \in ValidThresholds /\ u.exponent = e /\ u.result = s
    BY DEF ValidThresholds
  <2>3. q \in Nat \ {0} /\ ThresholdResultMax \in Nat
    BY ThresholdAssumption, QuantumPositive
  <2>4. candidate(e) \in ValidThresholds
    BY <1>2
  <2>5. r \in Nat
    BY <2>4 DEF ValidThresholds
  <2>6. r = LET n == (2 * codes + q) \div (2 * q)
            IN IF n > ThresholdResultMax THEN ThresholdResultMax ELSE n
    BY DEF RoundedResult
  <2>7. err(e) = Distance(r * q, codes)
    BY <1>1, <2>4
  <2>8. EncodingError(codes, u) = Distance(s * q, codes)
    <3> HIDE DEF u
    <3> QED BY <1>1, <2>2
  <2> HIDE DEF q, r
  <2>9. Distance(r * q, codes) <= Distance(s * q, codes)
    BY <2>3, <2>5, <2>6, RoundingIsNearest
  <2> QED BY <2>7, <2>8, <2>9
<1> HIDE DEF candidate, err
<1>4. \E e \in Exponents : Best(e)
  <2> DEFINE Errors == {err(e) : e \in Exponents}
  <2>1. Errors \subseteq Nat /\ Errors # {}
    BY <1>2, ThresholdAssumption
  <2>2. PICK least \in Errors : \A x \in Errors : least <= x
    <3> HIDE DEF Errors
    <3> QED BY <2>1, Smallest
  <2> DEFINE Ties == {e \in Exponents : err(e) = least}
  <2>3. Ties \subseteq Nat /\ Ties # {}
    OBVIOUS
  <2>4. PICK e \in Ties : \A f \in Ties : e <= f
    <3> HIDE DEF Ties
    <3> QED BY <2>3, Smallest
  <2>5. ASSUME NEW f \in Exponents
        PROVE  err(e) < err(f) \/ (err(e) = err(f) /\ e <= f)
    <3>1. err(e) = least /\ least <= err(f) /\ err(f) \in Nat /\ least \in Nat
      BY <1>2, <2>2
    <3>2. CASE err(f) = least
      BY <2>4, <3>1, <3>2
    <3>3. CASE err(f) # least
      BY <3>1, <3>3
    <3> QED BY <3>2, <3>3
  <2> QED BY <2>5
<1>5. best \in Exponents /\ Best(best)
  <2> HIDE DEF Best
  <2> QED BY <1>4
<1>6. LuxToThreshold(codes) = candidate(best)
  BY DEF LuxToThreshold, candidate, err
<1> HIDE DEF best
<1>7. ASSUME NEW u \in ValidThresholds
      PROVE  err(best) <= EncodingError(codes, u)
  <2>1. /\ u.exponent \in Exponents /\ u.result \in 0..ThresholdResultMax
        /\ u = [exponent |-> u.exponent, result |-> u.result]
    BY DEF ValidThresholds
  <2>2. err(u.exponent) <= EncodingError(codes, u)
    BY <1>3, <2>1
  <2>3. err(best) <= err(u.exponent)
    <3>1. err(best) \in Nat /\ err(u.exponent) \in Nat
      BY <1>2, <1>5, <2>1
    <3>2. err(best) < err(u.exponent) \/ err(best) = err(u.exponent)
      BY <1>5, <2>1
    <3> QED BY <3>1, <3>2
  <2>4. err(best) \in Nat /\ err(u.exponent) \in Nat /\ EncodingError(codes, u) \in Nat
    <3>1. Distance(u.result * Quantum(u.exponent), codes) \in Nat
      BY <1>1 DEF Distance
    <3> QED BY <1>1, <1>2, <1>5, <2>1, <3>1
  <2> QED BY <2>2, <2>3, <2>4
<1>8. candidate(best) \in ValidThresholds
  BY <1>2, <1>5
<1> QED BY <1>6, <1>7, <1>8 DEF err

-----------------------------------------------------------------------------
(* The CRC nibble. *)

\* A set with one element changed, as a bit is on the bus.
Toggled(S, x) == (S \cup {x}) \ (S \cap {x})
OddSize(S) == Cardinality(S) % 2 = 1

LEMMA ToggleParity ==
  ASSUME NEW S, IsFiniteSet(S), NEW x, NEW M
  PROVE  /\ Cardinality(S \cap M) \in Nat /\ Cardinality(Toggled(S, x) \cap M) \in Nat
         /\ x \in M => (OddSize(Toggled(S, x) \cap M) <=> ~OddSize(S \cap M))
         /\ x \notin M => Toggled(S, x) \cap M = S \cap M
<1> DEFINE T == S \cap M
<1>1. IsFiniteSet(T) /\ Cardinality(T) \in Nat
  BY FS_Intersection, FS_CardinalityType
<1>2. CASE x \notin M
  <2>1. Toggled(S, x) \cap M = T
    BY <1>2 DEF Toggled
  <2> QED BY <1>1, <1>2, <2>1
<1>3. CASE x \in M /\ x \in S
  <2>1. Toggled(S, x) \cap M = T \ {x} /\ x \in T
    BY <1>3 DEF Toggled
  <2> HIDE DEF T
  <2>2. Cardinality(T \ {x}) = Cardinality(T) - 1 /\ IsFiniteSet(T \ {x})
    BY <1>1, <2>1, FS_RemoveElement
  <2>3. Cardinality(T \ {x}) \in Nat
    BY <2>2, FS_CardinalityType
  <2>4. OddSize(T \ {x}) <=> ~OddSize(T)
    BY <1>1, <2>2 DEF OddSize
  <2> QED BY <1>1, <1>3, <2>1, <2>3, <2>4 DEF T
<1>4. CASE x \in M /\ x \notin S
  <2>1. Toggled(S, x) \cap M = T \cup {x} /\ x \notin T
    BY <1>4 DEF Toggled
  <2> HIDE DEF T
  <2>2. Cardinality(T \cup {x}) = Cardinality(T) + 1
    BY <1>1, <2>1, FS_AddElement
  <2>3. OddSize(T \cup {x}) <=> ~OddSize(T)
    BY <1>1, <2>2 DEF OddSize
  <2>4. Cardinality(T \cup {x}) \in Nat
    BY <1>1, <2>2
  <2> QED BY <1>1, <1>4, <2>1, <2>3, <2>4 DEF T
<1> HIDE DEF T
<1> QED BY <1>2, <1>3, <1>4, Zenon

\* Changing a bit of the frame changes one bit of the field it is in.
LEMMA ToggleField ==
  ASSUME NEW frame, NEW i \in 0..31, NEW low \in 0..31, NEW width \in 1..32
  PROVE  /\ IsFiniteSet(FrameField(frame, low, width))
         /\ FrameField(Toggled(frame, i), low, width) =
              IF i - low \in 0..(width - 1)
              THEN Toggled(FrameField(frame, low, width), i - low)
              ELSE FrameField(frame, low, width)
<1>1. IsFiniteSet(FrameField(frame, low, width))
  <2>1. IsFiniteSet(0..(width - 1))
    BY FS_Interval
  <2> QED BY <2>1, FS_Subset DEF FrameField
<1>2. \A j \in 0..(width - 1) :
        low + j \in Toggled(frame, i) <=>
          IF j = i - low THEN low + j \notin frame ELSE low + j \in frame
  BY DEF Toggled
<1>3. CASE i - low \in 0..(width - 1)
  <2>1. \A j : j \in FrameField(Toggled(frame, i), low, width) <=>
               j \in Toggled(FrameField(frame, low, width), i - low)
    BY <1>2, <1>3 DEF FrameField, Toggled
  <2>2. FrameField(Toggled(frame, i), low, width)
          = Toggled(FrameField(frame, low, width), i - low)
    BY <2>1
  <2> QED BY <1>1, <1>3, <2>2
<1>4. CASE i - low \notin 0..(width - 1)
  <2>1. \A j : j \in FrameField(Toggled(frame, i), low, width) <=>
               j \in FrameField(frame, low, width)
    BY <1>2, <1>4 DEF FrameField
  <2> QED BY <1>1, <1>4, <2>1
<1> QED BY <1>3, <1>4

\* So it changes the parity of what a CRC bit takes from the field, or leaves it.
LEMMA FieldParity ==
  ASSUME NEW frame, NEW i \in 0..31, NEW low \in 0..31, NEW width \in 1..32, NEW M
  PROVE  LET before == FrameField(frame, low, width) \cap M
             after  == FrameField(Toggled(frame, i), low, width) \cap M
         IN /\ Cardinality(before) \in Nat /\ Cardinality(after) \in Nat
            /\ OddSize(after) <=> IF i - low \in 0..(width - 1) /\ i - low \in M
                                  THEN ~OddSize(before) ELSE OddSize(before)
<1> DEFINE F == FrameField(frame, low, width)
           G == FrameField(Toggled(frame, i), low, width)
           x == i - low
<1>1. IsFiniteSet(F)
  BY ToggleField
<1>2. x \in 0..(width - 1) => G = Toggled(F, x)
  BY ToggleField
<1>3. x \notin 0..(width - 1) => G = F
  BY ToggleField
<1> SUFFICES /\ Cardinality(F \cap M) \in Nat /\ Cardinality(G \cap M) \in Nat
             /\ OddSize(G \cap M) <=> IF x \in 0..(width - 1) /\ x \in M
                                      THEN ~OddSize(F \cap M) ELSE OddSize(F \cap M)
  OBVIOUS
<1> HIDE DEF F, G, x
<1>4. /\ Cardinality(F \cap M) \in Nat /\ Cardinality(Toggled(F, x) \cap M) \in Nat
      /\ x \in M => (OddSize(Toggled(F, x) \cap M) <=> ~OddSize(F \cap M))
      /\ x \notin M => Toggled(F, x) \cap M = F \cap M
  BY <1>1, ToggleParity
<1>5. CASE x \in 0..(width - 1) /\ x \in M
  BY <1>2, <1>4, <1>5, Zenon
<1>6. CASE x \in 0..(width - 1) /\ x \notin M
  BY <1>2, <1>4, <1>6, Zenon
<1>7. CASE x \notin 0..(width - 1)
  BY <1>3, <1>4, <1>7, Zenon
<1> QED BY <1>5, <1>6, <1>7, Zenon

\* Bit i of the frame is one of those that CRC bit k is the XOR of.
Feeds(i, k) ==
  \/ i \in 28..31 /\ i - 28 \in CrcInputs(k).e
  \/ i \in 8..27  /\ i - 8 \in CrcInputs(k).m
  \/ i \in 4..7   /\ i - 4 \in CrcInputs(k).c

\* The CRC is linear: a changed bit changes the CRC bits it feeds and no others.
LEMMA ToggleCrc ==
  ASSUME NEW frame, NEW i \in 0..31, NEW k \in 0..3
  PROVE  k \in FrameCrc(Toggled(frame, i)) <=>
           IF Feeds(i, k) THEN k \notin FrameCrc(frame) ELSE k \in FrameCrc(frame)
<1> DEFINE other == Toggled(frame, i)
           in == CrcInputs(k)
           e == Exponent(frame) \cap in.e    ee == Exponent(other) \cap in.e
           m == Mantissa(frame) \cap in.m    mm == Mantissa(other) \cap in.m
           c == CounterOf(frame) \cap in.c     cc == CounterOf(other) \cap in.c
<1>1. /\ k \in FrameCrc(frame) <=>
           (Cardinality(e) + Cardinality(m) + Cardinality(c)) % 2 = 1
      /\ k \in FrameCrc(other) <=>
           (Cardinality(ee) + Cardinality(mm) + Cardinality(cc)) % 2 = 1
  BY DEF FrameCrc, ComputeCrcNibble
<1>2. /\ Exponent(frame) = FrameField(frame, 28, 4)
      /\ Exponent(other) = FrameField(Toggled(frame, i), 28, 4)
      /\ Mantissa(frame) = FrameField(frame, 8, 20)
      /\ Mantissa(other) = FrameField(Toggled(frame, i), 8, 20)
      /\ CounterOf(frame) = FrameField(frame, 4, 4)
      /\ CounterOf(other) = FrameField(Toggled(frame, i), 4, 4)
  BY DEF Exponent, Mantissa, CounterOf
<1>4. /\ Cardinality(e) \in Nat /\ Cardinality(ee) \in Nat
      /\ OddSize(ee) <=> IF i \in 28..31 /\ i - 28 \in in.e
                          THEN ~OddSize(e) ELSE OddSize(e)
  <2> DEFINE M == in.e
  <2> HIDE DEF M
  <2>1. /\ Cardinality(FrameField(frame, 28, 4) \cap M) \in Nat
        /\ Cardinality(FrameField(Toggled(frame, i), 28, 4) \cap M) \in Nat
        /\ OddSize(FrameField(Toggled(frame, i), 28, 4) \cap M) <=>
             IF i - 28 \in 0..(4 - 1) /\ i - 28 \in M
             THEN ~OddSize(FrameField(frame, 28, 4) \cap M)
             ELSE OddSize(FrameField(frame, 28, 4) \cap M)
    <3>1. 28 \in 0..31 /\ 4 \in 1..32
      OBVIOUS
    <3> QED BY <3>1, FieldParity, Zenon
  <2>2. i - 28 \in 0..(4 - 1) <=> i \in 28..31
    OBVIOUS
  <2> QED BY <1>2, <2>1, <2>2, Zenon DEF M
<1>5. /\ Cardinality(m) \in Nat /\ Cardinality(mm) \in Nat
      /\ OddSize(mm) <=> IF i \in 8..27 /\ i - 8 \in in.m
                          THEN ~OddSize(m) ELSE OddSize(m)
  <2> DEFINE M == in.m
  <2> HIDE DEF M
  <2>1. /\ Cardinality(FrameField(frame, 8, 20) \cap M) \in Nat
        /\ Cardinality(FrameField(Toggled(frame, i), 8, 20) \cap M) \in Nat
        /\ OddSize(FrameField(Toggled(frame, i), 8, 20) \cap M) <=>
             IF i - 8 \in 0..(20 - 1) /\ i - 8 \in M
             THEN ~OddSize(FrameField(frame, 8, 20) \cap M)
             ELSE OddSize(FrameField(frame, 8, 20) \cap M)
    <3>1. 8 \in 0..31 /\ 20 \in 1..32
      OBVIOUS
    <3> QED BY <3>1, FieldParity, Zenon
  <2>2. i - 8 \in 0..(20 - 1) <=> i \in 8..27
    OBVIOUS
  <2> QED BY <1>2, <2>1, <2>2, Zenon DEF M
<1>6. /\ Cardinality(c) \in Nat /\ Cardinality(cc) \in Nat
      /\ OddSize(cc) <=> IF i \in 4..7 /\ i - 4 \in in.c
                          THEN ~OddSize(c) ELSE OddSize(c)
  <2> DEFINE M == in.c
  <2> HIDE DEF M
  <2>1. /\ Cardinality(FrameField(frame, 4, 4) \cap M) \in Nat
        /\ Cardinality(FrameField(Toggled(frame, i), 4, 4) \cap M) \in Nat
        /\ OddSize(FrameField(Toggled(frame, i), 4, 4) \cap M) <=>
             IF i - 4 \in 0..(4 - 1) /\ i - 4 \in M
             THEN ~OddSize(FrameField(frame, 4, 4) \cap M)
             ELSE OddSize(FrameField(frame, 4, 4) \cap M)
    <3>1. 4 \in 0..31 /\ 4 \in 1..32
      OBVIOUS
    <3> QED BY <3>1, FieldParity, Zenon
  <2>2. i - 4 \in 0..(4 - 1) <=> i \in 4..7
    OBVIOUS
  <2> QED BY <1>2, <2>1, <2>2, Zenon DEF M
<1>7. Feeds(i, k) <=> \/ i \in 28..31 /\ i - 28 \in in.e
                      \/ i \in 8..27 /\ i - 8 \in in.m
                      \/ i \in 4..7 /\ i - 4 \in in.c
  BY DEF Feeds
<1> HIDE DEF e, m, c, ee, mm, cc, in, other
<1>8. \A x, y, z \in Nat : (x + y + z) % 2 = 1 <=>
        ((x % 2 = 1 <=> y % 2 = 1) <=> z % 2 = 1)
  OBVIOUS
<1>9. /\ k \in FrameCrc(frame) <=> ((OddSize(e) <=> OddSize(m)) <=> OddSize(c))
      /\ k \in FrameCrc(other) <=> ((OddSize(ee) <=> OddSize(mm)) <=> OddSize(cc))
  <2> DEFINE x == Cardinality(e)    xx == Cardinality(ee)
             y == Cardinality(m)    yy == Cardinality(mm)
             z == Cardinality(c)    zz == Cardinality(cc)
  <2>1. /\ x \in Nat /\ y \in Nat /\ z \in Nat
        /\ xx \in Nat /\ yy \in Nat /\ zz \in Nat
        /\ k \in FrameCrc(frame) <=> (x + y + z) % 2 = 1
        /\ k \in FrameCrc(other) <=> (xx + yy + zz) % 2 = 1
    BY <1>1, <1>4, <1>5, <1>6
  <2>2. /\ (OddSize(e) <=> x % 2 = 1) /\ (OddSize(ee) <=> xx % 2 = 1)
        /\ (OddSize(m) <=> y % 2 = 1) /\ (OddSize(mm) <=> yy % 2 = 1)
        /\ (OddSize(c) <=> z % 2 = 1) /\ (OddSize(cc) <=> zz % 2 = 1)
    BY DEF OddSize
  <2> HIDE DEF x, y, z, xx, yy, zz
  <2>3. /\ (x + y + z) % 2 = 1 <=> ((x % 2 = 1 <=> y % 2 = 1) <=> z % 2 = 1)
        /\ (xx + yy + zz) % 2 = 1 <=> ((xx % 2 = 1 <=> yy % 2 = 1) <=> zz % 2 = 1)
    BY <1>8, <2>1
  <2> QED BY <2>1, <2>2, <2>3, Zenon
<1>10. CASE i \in 28..31
  <2>1. i \notin 8..27 /\ i \notin 4..7
    BY <1>10
  <2> QED BY <1>4, <1>5, <1>6, <1>7, <1>9, <1>10, <2>1, Zenon DEF other
<1>11. CASE i \in 8..27
  <2>1. i \notin 28..31 /\ i \notin 4..7
    BY <1>11
  <2> QED BY <1>4, <1>5, <1>6, <1>7, <1>9, <1>11, <2>1, Zenon DEF other
<1>12. CASE i \notin 28..31 /\ i \notin 8..27
  BY <1>4, <1>5, <1>6, <1>7, <1>9, <1>12, Zenon DEF other
<1> QED BY <1>10, <1>11, <1>12

\* CRC bit k as received is the one computed from what was received.
Agrees(frame, k) == k \in FrameCrc(frame) <=> k \in Crc(frame)

\* A changed bit breaks the agreement where it feeds the CRC, or is the CRC bit.
LEMMA ToggleAgrees ==
  ASSUME NEW frame, NEW i \in 0..31, NEW k \in 0..3
  PROVE  Agrees(Toggled(frame, i), k) <=>
           IF Feeds(i, k) \/ i = k THEN ~Agrees(frame, k) ELSE Agrees(frame, k)
<1>1. k \in FrameCrc(Toggled(frame, i)) <=>
        IF Feeds(i, k) THEN k \notin FrameCrc(frame) ELSE k \in FrameCrc(frame)
  BY ToggleCrc
<1>2. k \in Crc(Toggled(frame, i)) <=> IF i = k THEN k \notin Crc(frame) ELSE k \in Crc(frame)
  BY DEF Crc, FrameField, Toggled
<1>3. ~(Feeds(i, k) /\ i = k)
  BY DEF Feeds
<1> QED BY <1>1, <1>2, <1>3, Zenon DEF Agrees

\* Which bits feed CRC bits 0 and 1: every data bit, and every odd one.
LEMMA FeedsAre ==
  ASSUME NEW i \in 0..31
  PROVE  /\ Feeds(i, 0) <=> i >= 4
         /\ Feeds(i, 1) <=> i >= 4 /\ i % 2 = 1
         /\ \A k \in 0..3 : Feeds(i, k) => i >= 4
<1>1. /\ CrcInputs(0) = [e |-> 0..3, m |-> 0..19, c |-> 0..3]
      /\ CrcInputs(1) = [e |-> {1, 3}, m |-> {1, 3, 5, 7, 9, 11, 13, 15, 17, 19}, c |-> {1, 3}]
  BY DEF CrcInputs, OddBits
<1>2. Feeds(i, 0) <=> i >= 4
  BY <1>1 DEF Feeds
<1>3. Feeds(i, 1) <=> i >= 4 /\ i % 2 = 1
  BY <1>1 DEF Feeds
<1>4. \A k \in 0..3 : Feeds(i, k) => i >= 4
  BY DEF Feeds
<1> QED BY <1>2, <1>3, <1>4

\* A frame that the sensor sent with its CRC is never accepted with one wrong bit, or
\* two neighbouring ones: for all of the 2^28 contents of a frame.
THEOREM NeighbouringErrorsNoticed ==
  ASSUME NEW frame, FrameCrc(frame) = Crc(frame), NEW changed \in Disturbances
  PROVE  DecodeSampleRegisters((frame \cup changed) \ (frame \cap changed)) = "CRC_ERROR"
<1> DEFINE received == (frame \cup changed) \ (frame \cap changed)
<1>1. \A k \in 0..3 : Agrees(frame, k)
  BY DEF Agrees
<1>2. SUFFICES \E k \in 0..3 : ~Agrees(received, k)
  BY DEF DecodeSampleRegisters, Agrees
<1>3. ASSUME NEW i \in 0..31, changed = {i} PROVE \E k \in 0..3 : ~Agrees(received, k)
  <2>1. received = Toggled(frame, i)
    BY <1>3 DEF Toggled
  <2> HIDE DEF received
  <2>2. CASE i >= 4
    <3>1. Feeds(i, 0)
      BY <2>2, FeedsAre
    <3> QED BY <1>1, <2>1, <3>1, ToggleAgrees
  <2>3. CASE ~ i >= 4
    <3>1. i \in 0..3
      BY <2>3
    <3> QED BY <1>1, <2>1, <3>1, ToggleAgrees
  <2> QED BY <2>2, <2>3
<1>4. ASSUME NEW i \in 0..30, changed = {i, i + 1} PROVE \E k \in 0..3 : ~Agrees(received, k)
  <2> DEFINE once == Toggled(frame, i)
  <2>1. received = Toggled(once, i + 1) /\ i \in 0..31 /\ i + 1 \in 0..31
    BY <1>4 DEF Toggled
  <2> HIDE DEF received, once
  <2>2. \A k \in 0..3 :
          Agrees(received, k) <=> IF Feeds(i + 1, k) \/ i + 1 = k THEN ~Agrees(once, k)
                                  ELSE Agrees(once, k)
    BY <2>1, ToggleAgrees
  <2>3. \A k \in 0..3 : Agrees(once, k) <=> ~(Feeds(i, k) \/ i = k)
    BY <1>1, <2>1, ToggleAgrees DEF once
  <2>4. CASE i >= 4
    <3>1. Feeds(i, 1) <=> i % 2 = 1
      BY <2>1, <2>4, FeedsAre
    <3>2. Feeds(i + 1, 1) <=> (i + 1) % 2 = 1
      BY <2>1, <2>4, FeedsAre
    <3>3. (i + 1) % 2 = 1 <=> ~ i % 2 = 1
      OBVIOUS
    <3>4. i # 1 /\ i + 1 # 1
      BY <2>4
    <3>5. ~Agrees(received, 1)
      BY <2>2, <2>3, <3>1, <3>2, <3>3, <3>4
    <3> QED BY <3>5
  <2>5. CASE i = 3
    <3>1. Feeds(i + 1, 0) /\ ~Feeds(i, 0) /\ i # 0
      BY <2>1, <2>5, FeedsAre
    <3>2. ~Agrees(received, 0)
      BY <2>2, <2>3, <3>1
    <3> QED BY <3>2
  <2>6. CASE i \in 0..2
    <3>1. ~Feeds(i + 1, i) /\ i + 1 # i /\ i \in 0..3
      <4>1. ~ i + 1 >= 4 /\ i \in 0..3
        BY <2>6
      <4> QED BY <2>1, <2>6, <4>1, FeedsAre
    <3>2. ~Agrees(received, i)
      BY <2>2, <2>3, <3>1
    <3> QED BY <3>1, <3>2
  <2> QED BY <2>4, <2>5, <2>6
<1> QED BY <1>3, <1>4 DEF Disturbances

-----------------------------------------------------------------------------
(***************************************************************************)
(* The register fields.  Both directions of the codec say the same of a    *)
(* mixed-radix number: its digits, each at its weight, add up to it, and   *)
(* dividing by the weight gives a digit back.  The names below keep the    *)
(* weights out of sight of the steps that do not need them.                *)
(***************************************************************************)
PackedConfiguration(q, z, r, t, m, l, p, f) ==
  q * 32768 + z * 16384 + r * 1024 + t * 64 + m * 16 + l * 8 + p * 4 + f * 1

PackedIntConfiguration(x, d, i, z, b) == x * 32 + d * 16 + i * 4 + z * 2 + b * 1

Nibbles == 0..15
FixedValues == 0..2047

Field(raw, name) == FieldValue(raw, ConfigurationLayout[name])
IntField(raw, name) == FieldValue(raw, IntConfigurationLayout[name])

ConfigurationOf(q, z, r, t, m, l, p, f) ==
  [quickWake |-> q, reserved |-> z, range |-> r, conversionTime |-> t, mode |-> m,
   interruptLatch |-> l, interruptPolarity |-> p, faultCount |-> f]

IntConfigurationOf(x, d, i, z, b) ==
  [fixed |-> x, intDirection |-> d, intConfig |-> i, reserved |-> z, burstMode |-> b]

\* The shifts and masks of the layouts.
LEMMA FieldWeights ==
  ASSUME NEW raw
  PROVE  /\ Field(raw, "quickWake") = (raw \div 32768) % 2
         /\ Field(raw, "reserved") = (raw \div 16384) % 2
         /\ Field(raw, "range") = (raw \div 1024) % 16
         /\ Field(raw, "conversionTime") = (raw \div 64) % 16
         /\ Field(raw, "mode") = (raw \div 16) % 4
         /\ Field(raw, "interruptLatch") = (raw \div 8) % 2
         /\ Field(raw, "interruptPolarity") = (raw \div 4) % 2
         /\ Field(raw, "faultCount") = (raw \div 1) % 4
  BY DEF Field, FieldValue, ConfigurationLayout, ConversionTimeField

LEMMA IntFieldWeights ==
  ASSUME NEW raw
  PROVE  /\ IntField(raw, "fixed") = (raw \div 32) % 2048
         /\ IntField(raw, "intDirection") = (raw \div 16) % 2
         /\ IntField(raw, "intConfig") = (raw \div 4) % 4
         /\ IntField(raw, "reserved") = (raw \div 2) % 2
         /\ IntField(raw, "burstMode") = (raw \div 1) % 2
  BY DEF IntField, FieldValue, IntConfigurationLayout

\* Shifting and masking gets back each field that was packed.
LEMMA ConfigurationDigits ==
  ASSUME NEW q \in 0..1, NEW z \in 0..1, NEW r \in Nibbles, NEW t \in Nibbles, NEW m \in 0..3,
         NEW l \in 0..1, NEW p \in 0..1, NEW f \in 0..3
  PROVE  LET raw == PackedConfiguration(q, z, r, t, m, l, p, f)
         IN  /\ Field(raw, "quickWake") = q
             /\ Field(raw, "reserved") = z
             /\ Field(raw, "range") = r
             /\ Field(raw, "conversionTime") = t
             /\ Field(raw, "mode") = m
             /\ Field(raw, "interruptLatch") = l
             /\ Field(raw, "interruptPolarity") = p
             /\ Field(raw, "faultCount") = f
<1>0. r \in 0..15 /\ t \in 0..15
  BY DEF Nibbles
<1> DEFINE raw == q * 32768 + z * 16384 + r * 1024 + t * 64 + m * 16 + l * 8 + p * 4 + f * 1
           r4 == q * 8192 + z * 4096 + r * 256 + t * 16 + m * 4 + l * 2 + p
           r8 == q * 4096 + z * 2048 + r * 128 + t * 8 + m * 2 + l
           r16 == q * 2048 + z * 1024 + r * 64 + t * 4 + m
           r64 == q * 512 + z * 256 + r * 16 + t
           r1024 == q * 32 + z * 16 + r
           r16384 == q * 2 + z
<1>1. /\ raw \in Nat /\ r4 \in Nat /\ r8 \in Nat /\ r16 \in Nat /\ r64 \in Nat
      /\ r1024 \in Nat /\ r16384 \in Nat
  BY <1>0
<1>2. /\ raw = 4 * r4 + f /\ r4 = 2 * r8 + p /\ r8 = 2 * r16 + l /\ r16 = 4 * r64 + m
      /\ r64 = 16 * r1024 + t /\ r1024 = 16 * r16384 + r /\ r16384 = 2 * q + z
  BY <1>0
<1> HIDE DEF raw, r4, r8, r16, r64, r1024, r16384
<1>3. raw \div 1 = raw /\ raw % 4 = f /\ raw \div 4 = r4
  BY <1>0, <1>1, <1>2
<1>4. r4 % 2 = p /\ raw \div 8 = r8
  BY <1>0, <1>1, <1>2
<1>5. r8 % 2 = l /\ raw \div 16 = r16
  BY <1>0, <1>1, <1>2
<1>6. r16 % 4 = m /\ raw \div 64 = r64
  BY <1>0, <1>1, <1>2
<1>7. r64 % 16 = t /\ raw \div 1024 = r1024
  BY <1>0, <1>1, <1>2
<1>8. r1024 % 16 = r /\ raw \div 16384 = r16384
  BY <1>0, <1>1, <1>2
<1>9. r16384 % 2 = z /\ raw \div 32768 = q /\ q % 2 = q
  BY <1>0, <1>1, <1>2
<1> QED BY FieldWeights, <1>3, <1>4, <1>5, <1>6, <1>7, <1>8, <1>9 DEF raw, PackedConfiguration

LEMMA IntConfigurationDigits ==
  ASSUME NEW x \in FixedValues, NEW d \in 0..1, NEW i \in 0..3, NEW z \in 0..1, NEW b \in 0..1
  PROVE  LET raw == PackedIntConfiguration(x, d, i, z, b)
         IN  /\ IntField(raw, "fixed") = x
             /\ IntField(raw, "intDirection") = d
             /\ IntField(raw, "intConfig") = i
             /\ IntField(raw, "reserved") = z
             /\ IntField(raw, "burstMode") = b
<1>0. x \in Nat /\ x < 2048
  BY DEF FixedValues
<1> DEFINE raw == x * 32 + d * 16 + i * 4 + z * 2 + b * 1
           r2 == x * 16 + d * 8 + i * 2 + z
           r4 == x * 8 + d * 4 + i
           r16 == x * 2 + d
<1>1. raw \in Nat /\ r2 \in Nat /\ r4 \in Nat /\ r16 \in Nat
  BY <1>0
<1>2. raw = 2 * r2 + b /\ r2 = 2 * r4 + z /\ r4 = 4 * r16 + i /\ r16 = 2 * x + d
  BY <1>0
<1> HIDE DEF raw, r2, r4, r16
<1>3. raw \div 1 = raw /\ raw % 2 = b /\ raw \div 2 = r2
  BY <1>0, <1>1, <1>2
<1>4. r2 % 2 = z /\ raw \div 4 = r4
  BY <1>0, <1>1, <1>2
<1>5. r4 % 4 = i /\ raw \div 16 = r16
  BY <1>0, <1>1, <1>2
<1>6. r16 % 2 = d /\ raw \div 32 = x /\ x % 2048 = x
  BY <1>0, <1>1, <1>2
<1> QED BY IntFieldWeights, <1>3, <1>4, <1>5, <1>6 DEF raw, PackedIntConfiguration

\* A 16-bit value is what its fields pack to: the masks cover it and none overlaps.
LEMMA ConfigurationFromDigits ==
  ASSUME NEW raw \in RawValues
  PROVE  raw = PackedConfiguration(
                 Field(raw, "quickWake"), Field(raw, "reserved"), Field(raw, "range"),
                 Field(raw, "conversionTime"), Field(raw, "mode"), Field(raw, "interruptLatch"),
                 Field(raw, "interruptPolarity"), Field(raw, "faultCount"))
<1>0. raw \in Nat /\ raw < 65536
  BY DEF RawValues
<1>1. raw = 4 * (raw \div 4) + (raw % 4) BY <1>0, SMT
<1>2. raw \div 4 = 2 * (raw \div 8) + ((raw \div 4) % 2) BY <1>0, SMT
<1>3. raw \div 8 = 2 * (raw \div 16) + ((raw \div 8) % 2) BY <1>0, SMT
<1>4. raw \div 16 = 4 * (raw \div 64) + ((raw \div 16) % 4) BY <1>0, SMT
<1>5. raw \div 64 = 16 * (raw \div 1024) + ((raw \div 64) % 16) BY <1>0, SMT
<1>6. raw \div 1024 = 16 * (raw \div 16384) + ((raw \div 1024) % 16) BY <1>0, SMT
<1>7. raw \div 16384 = 2 * (raw \div 32768) + ((raw \div 16384) % 2) BY <1>0, SMT
<1>8. (raw \div 32768) % 2 = raw \div 32768 BY <1>0, SMT
<1>9. raw \div 1 = raw BY <1>0, SMT
<1> DEFINE a == raw \div 4
           b == raw \div 8
           c == raw \div 16
           d == raw \div 64
           e == raw \div 1024
           g == raw \div 16384
           h == raw \div 32768
<1>10. a \in Nat /\ b \in Nat /\ c \in Nat /\ d \in Nat /\ e \in Nat /\ g \in Nat /\ h \in Nat
  <2>1. a \in Nat
    BY <1>0
  <2>2. b \in Nat
    BY <1>0
  <2>3. c \in Nat
    BY <1>0
  <2>4. d \in Nat
    BY <1>0
  <2>5. e \in Nat
    BY <1>0
  <2>6. g \in Nat
    BY <1>0
  <2>7. h \in Nat
    BY <1>0
  <2> HIDE DEF a, b, c, d, e, g, h
  <2> QED BY <2>1, <2>2, <2>3, <2>4, <2>5, <2>6, <2>7
<1>11. /\ a % 2 \in Nat /\ b % 2 \in Nat /\ c % 4 \in Nat /\ d % 16 \in Nat /\ e % 16 \in Nat
       /\ g % 2 \in Nat /\ raw % 4 \in Nat
  BY <1>0, <1>10
<1>12. /\ raw = 4 * a + (raw % 4) /\ a = 2 * b + (a % 2) /\ b = 2 * c + (b % 2)
       /\ c = 4 * d + (c % 4)
       /\ d = 16 * e + (d % 16) /\ e = 16 * g + (e % 16) /\ g = 2 * h + (g % 2) /\ h % 2 = h
  BY <1>1, <1>2, <1>3, <1>4, <1>5, <1>6, <1>7, <1>8
<1> HIDE DEF a, b, c, d, e, g, h
<1>13. raw = (h % 2) * 32768 + (g % 2) * 16384 + (e % 16) * 1024 + (d % 16) * 64
             + (c % 4) * 16 + (b % 2) * 8 + (a % 2) * 4 + (raw % 4) * 1
  BY <1>0, <1>10, <1>11, <1>12, SMT
<1> QED BY FieldWeights, <1>9, <1>13 DEF a, b, c, d, e, g, h, PackedConfiguration

LEMMA IntConfigurationFromDigits ==
  ASSUME NEW raw \in RawValues
  PROVE  raw = PackedIntConfiguration(
                 IntField(raw, "fixed"), IntField(raw, "intDirection"),
                 IntField(raw, "intConfig"), IntField(raw, "reserved"),
                 IntField(raw, "burstMode"))
<1>0. raw \in Nat /\ raw < 65536
  BY DEF RawValues
<1> DEFINE a == raw \div 2
           b == raw \div 4
           c == raw \div 16
           d == raw \div 32
<1>1. a \in Nat /\ b \in Nat /\ c \in Nat /\ d \in Nat
  <2>1. a \in Nat
    BY <1>0
  <2>2. b \in Nat
    BY <1>0
  <2>3. c \in Nat
    BY <1>0
  <2>4. d \in Nat
    BY <1>0
  <2> HIDE DEF a, b, c, d
  <2> QED BY <2>1, <2>2, <2>3, <2>4
<1>2. raw = 2 * a + (raw % 2)
  BY <1>0, SMT
<1>3. a = 2 * b + (a % 2)
  BY <1>0, SMT
<1>4. b = 4 * c + (b % 4)
  BY <1>0, SMT
<1>5. c = 2 * d + (c % 2)
  BY <1>0, SMT
<1>6. d % 2048 = d
  <2>1. d < 2048
    BY <1>0, SMT
  <2> HIDE DEF d
  <2> QED BY <1>1, <2>1
<1>7. raw \div 1 = raw
  BY <1>0, SMT
<1> HIDE DEF a, b, c, d
<1>8. raw % 2 \in Nat /\ a % 2 \in Nat /\ b % 4 \in Nat /\ c % 2 \in Nat
  BY <1>0, <1>1
<1>9. raw = (d % 2048) * 32 + (c % 2) * 16 + (b % 4) * 4 + (a % 2) * 2 + (raw % 2) * 1
  BY <1>0, <1>1, <1>2, <1>3, <1>4, <1>5, <1>6, <1>8
<1> QED BY IntFieldWeights, <1>7, <1>9 DEF a, b, c, d, PackedIntConfiguration

\* The decoders fill in every field of the record they return.
LEMMA ConfigurationFields ==
  ASSUME NEW raw
  PROVE  DecodedFields(raw, ConfigurationLayout) =
           ConfigurationOf(Field(raw, "quickWake"), Field(raw, "reserved"),
                           Field(raw, "range"), Field(raw, "conversionTime"),
                           Field(raw, "mode"), Field(raw, "interruptLatch"),
                           Field(raw, "interruptPolarity"), Field(raw, "faultCount"))
  BY DEF DecodedFields, Field, ConfigurationLayout, ConfigurationOf

LEMMA IntConfigurationFields ==
  ASSUME NEW raw
  PROVE  DecodedFields(raw, IntConfigurationLayout) =
           IntConfigurationOf(IntField(raw, "fixed"), IntField(raw, "intDirection"),
                              IntField(raw, "intConfig"), IntField(raw, "reserved"),
                              IntField(raw, "burstMode"))
  BY DEF DecodedFields, IntField, IntConfigurationLayout, IntConfigurationOf

\* The builders pack the fields of a configuration, with the reserved bit clear.
LEMMA ConfigurationSum ==
  ASSUME NEW q \in 0..1, NEW z, NEW r \in Nibbles, NEW t \in Nibbles, NEW m \in 0..3,
         NEW l \in 0..1, NEW p \in 0..1, NEW f \in 0..3
  PROVE  BuildConfigurationRegister(ConfigurationOf(q, z, r, t, m, l, p, f)) =
           PackedConfiguration(q, 0, r, t, m, l, p, f)
<1>0. r \in 0..15 /\ t \in 0..15
  BY DEF Nibbles
<1> DEFINE c == ConfigurationOf(q, z, r, t, m, l, p, f)
<1>1. /\ c.quickWake = q /\ c.range = r /\ c.conversionTime = t /\ c.mode = m
      /\ c.interruptLatch = l /\ c.interruptPolarity = p /\ c.faultCount = f
  BY DEF ConfigurationOf
<1> HIDE DEF c
<1>2. BuildConfigurationRegister(c) =
         (c.quickWake % 2) * 32768 + (c.range % 16) * 1024 + (c.conversionTime % 16) * 64
         + (c.mode % 4) * 16 + (c.interruptLatch % 2) * 8 + (c.interruptPolarity % 2) * 4
         + (c.faultCount % 4) * 1
  BY DEF BuildConfigurationRegister, FieldBits, ConfigurationLayout, ConversionTimeField
<1>3. /\ q % 2 = q /\ r % 16 = r /\ t % 16 = t /\ m % 4 = m /\ l % 2 = l /\ p % 2 = p
      /\ f % 4 = f
  BY <1>0
<1>4. BuildConfigurationRegister(c) =
         q * 32768 + r * 1024 + t * 64 + m * 16 + l * 8 + p * 4 + f * 1
  BY <1>0, <1>1, <1>2, <1>3
<1> QED BY <1>0, <1>4 DEF c, PackedConfiguration

LEMMA IntConfigurationSum ==
  ASSUME NEW x \in FixedValues, NEW d \in 0..1, NEW i \in 0..3, NEW z, NEW b \in 0..1
  PROVE  BuildIntConfigurationRegister(IntConfigurationOf(x, d, i, z, b)) =
           PackedIntConfiguration(x, d, i, 0, b)
<1>0. x \in Nat /\ x < 2048
  BY DEF FixedValues
<1> DEFINE c == IntConfigurationOf(x, d, i, z, b)
<1>1. c.fixed = x /\ c.intDirection = d /\ c.intConfig = i /\ c.burstMode = b
  BY DEF IntConfigurationOf
<1> HIDE DEF c
<1>2. BuildIntConfigurationRegister(c) =
         (c.fixed % 2048) * 32 + (c.intDirection % 2) * 16 + (c.intConfig % 4) * 4
         + (c.burstMode % 2) * 1
  BY DEF BuildIntConfigurationRegister, FieldBits, IntConfigurationLayout
<1>3. x % 2048 = x /\ d % 2 = d /\ i % 4 = i /\ b % 2 = b
  BY <1>0
<1>4. BuildIntConfigurationRegister(c) = x * 32 + d * 16 + i * 4 + b * 1
  BY <1>0, <1>1, <1>2, <1>3
<1> QED BY <1>0, <1>4 DEF c, PackedIntConfiguration

\* What the driver builds it decodes, and accepts.
LEMMA ConfigurationReturns ==
  ASSUME NEW c \in ConfigurationValues
  PROVE  LET back == DecodedFields(BuildConfigurationRegister(c), ConfigurationLayout)
         IN back = c /\ ValidConfiguration(back)
<1>1. PICK q \in 0..1, r \in RangeValues, t \in 0..11, m \in 0..3, l \in 0..1, p \in 0..1,
           f \in 0..3 : c = ConfigurationOf(q, 0, r, t, m, l, p, f)
  BY DEF ConfigurationValues, ConfigurationOf
<1>2. r \in Nibbles /\ t \in Nibbles /\ 0 \in 0..1
  BY DEF RangeValues, Nibbles
<1> DEFINE raw == PackedConfiguration(q, 0, r, t, m, l, p, f)
<1>3. BuildConfigurationRegister(c) = raw
  BY <1>1, <1>2, ConfigurationSum
<1>4. /\ Field(raw, "quickWake") = q /\ Field(raw, "reserved") = 0 /\ Field(raw, "range") = r
      /\ Field(raw, "conversionTime") = t /\ Field(raw, "mode") = m
      /\ Field(raw, "interruptLatch") = l /\ Field(raw, "interruptPolarity") = p
      /\ Field(raw, "faultCount") = f
  BY <1>2, ConfigurationDigits
<1> HIDE DEF raw
<1>5. DecodedFields(raw, ConfigurationLayout) = c
  BY <1>1, <1>4, ConfigurationFields
<1>6. ValidConfiguration(c)
  BY <1>1 DEF ValidConfiguration, ConfigurationOf
<1> QED BY <1>3, <1>5, <1>6

LEMMA IntConfigurationReturns ==
  ASSUME NEW c \in IntConfigurationValues
  PROVE  LET back == DecodedFields(BuildIntConfigurationRegister(c), IntConfigurationLayout)
         IN back = c /\ ValidIntConfiguration(back)
<1>1. PICK d \in 0..1, i \in IntConfigValues, b \in 0..1 :
        c = IntConfigurationOf(FixedPattern, d, i, 0, b)
  BY DEF IntConfigurationValues, IntConfigurationOf
<1>2. FixedPattern \in FixedValues /\ i \in 0..3 /\ 0 \in 0..1
  BY DEF IntConfigValues, FixedPattern, FixedValues
<1> DEFINE raw == PackedIntConfiguration(FixedPattern, d, i, 0, b)
<1>3. BuildIntConfigurationRegister(c) = raw
  BY <1>1, <1>2, IntConfigurationSum
<1>4. /\ IntField(raw, "fixed") = FixedPattern /\ IntField(raw, "intDirection") = d
      /\ IntField(raw, "intConfig") = i /\ IntField(raw, "reserved") = 0
      /\ IntField(raw, "burstMode") = b
  BY <1>2, IntConfigurationDigits
<1> HIDE DEF raw
<1>5. DecodedFields(raw, IntConfigurationLayout) = c
  BY <1>1, <1>4, IntConfigurationFields
<1>6. ValidIntConfiguration(c)
  BY <1>1 DEF ValidIntConfiguration, IntConfigurationOf
<1> QED BY <1>3, <1>5, <1>6

\* A mask bounds the field behind it.
LEMMA FieldRanges ==
  ASSUME NEW raw \in RawValues
  PROVE  /\ Field(raw, "quickWake") \in 0..1 /\ Field(raw, "range") \in Nibbles
         /\ Field(raw, "conversionTime") \in Nibbles /\ Field(raw, "mode") \in 0..3
         /\ Field(raw, "interruptLatch") \in 0..1
         /\ Field(raw, "interruptPolarity") \in 0..1 /\ Field(raw, "faultCount") \in 0..3
<1>0. raw \in Nat /\ raw < 65536
  BY DEF RawValues
<1>1. \A k \in {32768, 1024, 64, 16, 8, 4, 1} : raw \div k \in Nat
  BY <1>0
<1>2. \A n \in Nat : n % 2 \in 0..1 /\ n % 4 \in 0..3 /\ n % 16 \in Nibbles
  BY DEF Nibbles
<1> QED BY <1>1, <1>2, FieldWeights

LEMMA IntFieldRanges ==
  ASSUME NEW raw \in RawValues
  PROVE  /\ IntField(raw, "fixed") \in FixedValues /\ IntField(raw, "intDirection") \in 0..1
         /\ IntField(raw, "intConfig") \in 0..3 /\ IntField(raw, "burstMode") \in 0..1
<1>0. raw \in Nat /\ raw < 65536
  BY DEF RawValues
<1>1. \A k \in {32, 16, 4, 1} : raw \div k \in Nat
  BY <1>0
<1>2. \A n \in Nat : n % 2 \in 0..1 /\ n % 4 \in 0..3
  OBVIOUS
<1>3. ASSUME NEW n \in Nat PROVE n % 2048 \in FixedValues
  <2>1. n % 2048 \in Nat /\ n % 2048 < 2048
    OBVIOUS
  <2> QED BY <2>1 DEF FixedValues
<1> QED BY <1>1, <1>2, <1>3, IntFieldWeights

\* A raw value that is accepted is built again from its fields.
LEMMA ConfigurationReproduced ==
  ASSUME NEW raw \in RawValues,
         ValidConfiguration(DecodedFields(raw, ConfigurationLayout))
  PROVE  BuildConfigurationRegister(DecodedFields(raw, ConfigurationLayout)) = raw
<1> DEFINE q == Field(raw, "quickWake")
           z == Field(raw, "reserved")
           r == Field(raw, "range")
           t == Field(raw, "conversionTime")
           m == Field(raw, "mode")
           l == Field(raw, "interruptLatch")
           p == Field(raw, "interruptPolarity")
           f == Field(raw, "faultCount")
<1>2. /\ q \in 0..1 /\ r \in Nibbles /\ t \in Nibbles /\ m \in 0..3 /\ l \in 0..1 /\ p \in 0..1
      /\ f \in 0..3
  BY FieldRanges
<1>3. raw = PackedConfiguration(q, z, r, t, m, l, p, f)
  BY ConfigurationFromDigits
<1>4. DecodedFields(raw, ConfigurationLayout) = ConfigurationOf(q, z, r, t, m, l, p, f)
  BY ConfigurationFields
<1> HIDE DEF q, z, r, t, m, l, p, f
<1>5. z = 0
  BY <1>4 DEF ValidConfiguration, ConfigurationOf
<1> QED BY <1>2, <1>3, <1>4, <1>5, ConfigurationSum

LEMMA IntConfigurationReproduced ==
  ASSUME NEW raw \in RawValues,
         ValidIntConfiguration(DecodedFields(raw, IntConfigurationLayout))
  PROVE  BuildIntConfigurationRegister(DecodedFields(raw, IntConfigurationLayout)) = raw
<1> DEFINE x == IntField(raw, "fixed")
           d == IntField(raw, "intDirection")
           i == IntField(raw, "intConfig")
           z == IntField(raw, "reserved")
           b == IntField(raw, "burstMode")
<1>2. x \in FixedValues /\ d \in 0..1 /\ i \in 0..3 /\ b \in 0..1
  BY IntFieldRanges
<1>3. raw = PackedIntConfiguration(x, d, i, z, b)
  BY IntConfigurationFromDigits
<1>4. DecodedFields(raw, IntConfigurationLayout) = IntConfigurationOf(x, d, i, z, b)
  BY IntConfigurationFields
<1> HIDE DEF x, d, i, z, b
<1>5. z = 0
  BY <1>4 DEF ValidIntConfiguration, IntConfigurationOf
<1> QED BY <1>2, <1>3, <1>4, <1>5, IntConfigurationSum

-----------------------------------------------------------------------------
(* The waiting times and the transports. *)

\* For every conversion time, with and without quick wake-up, the longest gate and
\* one retry end before the read times out.
LEMMA TimeoutsCover ==
  ASSUME NEW time \in 1..12, NEW quickWake \in BOOLEAN,
         NEW forced \in BOOLEAN, NEW fifo \in BOOLEAN
  PROVE  /\ OneShotBudgetMs(time, forced, quickWake) + RetryIntervalMs(time)
              < ReadTimeoutMs(time, quickWake)
         /\ ContinuousGateMs(time, fifo) + RetryIntervalMs(time)
              < ReadTimeoutMs(time, quickWake)
<1> DEFINE us == ConversionTimeUs[time]
           ms == ConversionTimeMs[time]
           short == CeilUsToMs(us + (IF quickWake THEN 0 ELSE 500)
                               + (IF forced THEN 500 ELSE 0))
           long == CeilUsToMs(us + (IF quickWake THEN 0 ELSE 500) + 500)
           retry == RetryIntervalMs(time)
<1>1. us \in Nat /\ ms \in 1..800 /\ us <= 1000 * ms /\ ms * 1000 <= us + 600
  BY SMT DEF ConversionTimeUs, ConversionTimeMs
<1>2. retry \in 1..50
  BY <1>1 DEF RetryIntervalMs
<1>3. /\ OneShotBudgetMs(time, forced, quickWake) = short
      /\ OneShotBudgetMs(time, TRUE, quickWake) = long
  BY DEF OneShotBudgetMs, StandbyUs, ForcedAutoExtraUs
<1>4. ReadTimeoutMs(time, quickWake) = long * 4 + 1000
  <2> HIDE DEF long
  <2> QED BY <1>3 DEF ReadTimeoutMs, SlotCount
<1>5. ContinuousGateMs(time, fifo) \in 1..(4 * ms)
  <2>1. ContinuousGateMs(time, fifo) = ms * (IF fifo THEN 4 ELSE 1)
    BY DEF ContinuousGateMs, SlotCount
  <2> HIDE DEF ms
  <2> QED BY <1>1, <2>1
<1> HIDE DEF us, ms, retry
<1>6. short \in Nat /\ long \in Nat /\ short <= long /\ ms <= long
  BY <1>1 DEF CeilUsToMs
<1> HIDE DEF short, long
<1> QED BY <1>1, <1>2, <1>3, <1>4, <1>5, <1>6 DEF retry

\* The Wire adapter's verdict, for transfers of any length and any answers.
LEMMA WireTells ==
  ASSUME NEW tx \in Nat, NEW rx \in Nat, NEW taken \in Nat, NEW result \in Nat,
         NEW received \in Nat
  PROVE  WireVerdict(tx, rx, taken, result, received)
<1> DEFINE write == WireWrite(tx, taken, result)
           read  == WireWriteRead(tx, rx, taken, result, received)
           sent    == tx \in 1..WireCapacity /\ taken = tx /\ result = 0
           refused == tx \notin 1..WireCapacity \/ (taken = tx /\ result = 1)
           tooLong == rx \notin 1..WireCapacity
<1>1. /\ WireStatus(result) = "OK" <=> result = 0
      /\ WireStatus(result) \in Uncounted <=> result = 1
  BY DEF WireStatus, Uncounted
<1>2. /\ tx = 0 \/ tx > WireCapacity <=> tx \notin 1..WireCapacity
      /\ rx = 0 \/ rx > WireCapacity <=> tooLong
  BY DEF WireCapacity
<1>3. (write = "OK" <=> sent) /\ (write \in Uncounted <=> refused)
  BY <1>1, <1>2 DEF WireWrite, Uncounted
<1>4. read = IF tooLong THEN "INVALID_PARAM"
             ELSE IF write = "OK" /\ received # rx THEN "I2C_ERROR" ELSE write
  BY <1>2 DEF WireWriteRead
<1>5. "INVALID_PARAM" \in Uncounted /\ "I2C_ERROR" \notin Uncounted /\ "OK" \notin Uncounted
  BY DEF Uncounted
<1> HIDE DEF write, read, tooLong
<1>6. read = "OK" <=> sent /\ ~tooLong /\ received = rx
  BY <1>3, <1>4
<1>7. read \in Uncounted <=> refused \/ tooLong
  BY <1>3, <1>4, <1>5
<1> QED BY <1>3, <1>6, <1>7 DEF WireVerdict, write, read, tooLong

\* The ESP-IDF adapter's verdict, for any handles, addresses, lengths and answers.
LEMMA IdfTells ==
  ASSUME NEW context, context.device \in BOOLEAN, context.generalCall \in BOOLEAN,
         NEW addr, NEW len \in Nat, NEW err \in EspErrors
  PROVE  IdfVerdict(context, addr, len, err)
<1>1. /\ EspStatus(err) = "OK" <=> err = "ESP_OK"
      /\ EspStatus(err) \in Uncounted <=> err = "ESP_ERR_INVALID_ARG"
  BY DEF EspStatus, EspErrors, Uncounted
<1>2. /\ IdfHandle(context, addr) = NoHandle <=>
           addr # context.address /\ ~(addr = GeneralCall /\ context.generalCall)
      /\ IdfHandle(context, addr) = "device" <=> addr = context.address
  BY DEF IdfHandle, NoHandle
<1>3. {"INVALID_CONFIG", "INVALID_PARAM"} = Uncounted /\ "OK" \notin Uncounted
  BY DEF Uncounted
<1> QED BY <1>1, <1>2, <1>3 DEF IdfVerdict, IdfWrite, IdfWriteRead

-----------------------------------------------------------------------------
(* The inputs of NumericInputs. *)

LEMMA InputStays == NumericSpec => [](input \in Inputs)
<1>1. NumericInit => input \in Inputs
  BY DEF NumericInit
<1>2. input \in Inputs /\ [NumericNext]_input => (input \in Inputs)'
  BY DEF NumericNext
<1> QED BY <1>1, <1>2, PTL DEF NumericSpec

\* An input of a kind has the fields of that kind.
LEMMA InputsByKind ==
  ASSUME NEW x \in Inputs
  PROVE  /\ x.kind = "frame" => x \in FrameInputs
         /\ x.kind = "codes" => x \in CodeInputs
         /\ x.kind = "table" => x \in TableInputs
         /\ x.kind = "wire" => x \in WireInputs
         /\ x.kind = "idf" => x \in IdfInputs
         /\ x.kind = "block" => x \in BlockInputs
         /\ x.kind = "raw" => x \in RawInputs
         /\ x.kind = "configuration" => x \in ConfigurationInputs
         /\ x.kind = "intConfiguration" => x \in IntConfigurationInputs
<1>1. /\ \A y \in RawInputs : y.kind = "raw"
      /\ \A y \in ConfigurationInputs : y.kind = "configuration"
      /\ \A y \in IntConfigurationInputs : y.kind = "intConfiguration"
  <2>1. \A y \in RawInputs : y.kind = "raw"
    BY SMT DEF RawInputs
  <2>2. \A y \in ConfigurationInputs : y.kind = "configuration"
    BY SMT DEF ConfigurationInputs
  <2>3. \A y \in IntConfigurationInputs : y.kind = "intConfiguration"
    BY SMT DEF IntConfigurationInputs
  <2> QED BY <2>1, <2>2, <2>3
<1>2. /\ \A y \in FrameInputs : y.kind = "frame"
      /\ \A y \in CodeInputs : y.kind = "codes"
      /\ \A y \in TableInputs : y.kind = "table"
  BY SMT DEF FrameInputs, CodeInputs, TableInputs
<1>3. /\ \A y \in WireInputs : y.kind = "wire"
      /\ \A y \in IdfInputs : y.kind = "idf"
      /\ \A y \in BlockInputs : y.kind = "block"
  BY SMT DEF WireInputs, IdfInputs, BlockInputs
<1> QED BY <1>1, <1>2, <1>3, SMT DEF Inputs

\* What the sensor sends agrees with its CRC.
LEMMA SentAgrees ==
  ASSUME NEW frame \in SentFrames
  PROVE  FrameCrc(frame) = Crc(frame)
<1>1. PICK data \in SomeData : frame = data \cup FrameCrc(data)
  BY DEF SentFrames
<1>2. data \subseteq 4..31
  <2>1. data \in FewBits
    BY DEF SomeData
  <2>2. \A d \in FewBits : d \subseteq 4..31
    BY DEF FewBits
  <2> QED BY <2>1, <2>2
<1>3. FrameCrc(data) \subseteq 0..3
  BY DEF FrameCrc, ComputeCrcNibble
<1>4. Exponent(frame) = Exponent(data) /\ Mantissa(frame) = Mantissa(data)
  BY <1>1, <1>3 DEF Exponent, Mantissa, FrameField
<1>5. CounterOf(frame) = CounterOf(data) /\ Crc(frame) = FrameCrc(data)
  BY <1>1, <1>2, <1>3 DEF CounterOf, Crc, FrameField
<1> QED BY <1>4, <1>5 DEF FrameCrc

\* What the driver builds from a configuration it decodes back to it, for both
\* registers, and what it accepts of a raw write its fields reproduce.
THEOREM CodecsRoundTrip == NumericSpec => []CodecRoundTrip
<1>1. input \in Inputs => CodecRoundTrip
  <2> SUFFICES ASSUME input \in Inputs PROVE CodecRoundTrip
    OBVIOUS
  <2>1. CASE input.kind = "configuration"
    <3>1. input.values \in ConfigurationValues
      BY <2>1, InputsByKind, SMT DEF ConfigurationInputs
    <3> QED BY <2>1, <3>1, ConfigurationReturns DEF CodecRoundTrip
  <2>2. CASE input.kind = "intConfiguration"
    <3>1. input.values \in IntConfigurationValues
      BY <2>2, InputsByKind, SMT DEF IntConfigurationInputs
    <3> QED BY <2>2, <3>1, IntConfigurationReturns DEF CodecRoundTrip
  <2>3. CASE input.kind = "raw"
    <3>1. input.raw \in RawValues
      BY <2>3, InputsByKind, SMT DEF RawInputs
    <3> QED BY <2>3, <3>1, ConfigurationReproduced, IntConfigurationReproduced
            DEF CodecRoundTrip
  <2>4. CASE input.kind \notin {"configuration", "intConfiguration", "raw"}
    BY <2>4 DEF CodecRoundTrip
  <2> QED BY <2>1, <2>2, <2>3, <2>4
<1> QED BY <1>1, InputStays, PTL

\* A frame with one wrong bit, or two neighbouring ones, is not accepted.
THEOREM DisturbancesNoticed == NumericSpec => []DisturbanceNoticed
<1>1. input \in Inputs => DisturbanceNoticed
  <2> SUFFICES ASSUME input \in Inputs, input.kind = "frame"
               PROVE  DecodeSampleRegisters((input.sent \cup input.changed)
                                              \ (input.sent \cap input.changed)) = "CRC_ERROR"
    BY DEF DisturbanceNoticed
  <2>1. input.sent \in SentFrames /\ input.changed \in Disturbances
    BY InputsByKind, SMT DEF FrameInputs
  <2> QED BY <2>1, SentAgrees, NeighbouringErrorsNoticed
<1> QED BY <1>1, InputStays, PTL

\* luxToThreshold returns the nearest valid threshold.
THEOREM ThresholdsNearest == NumericSpec => []NearestThreshold
<1>1. input \in Inputs => NearestThreshold
  <2> SUFFICES ASSUME input \in Inputs, input.kind = "codes" PROVE NearestThreshold
    BY DEF NearestThreshold
  <2>1. input.codes \in 0..(2 * ThresholdAdcCodesMax)
    BY InputsByKind, SMT DEF CodeInputs
  <2>2. input.codes \in Nat
    BY <2>1
  <2> QED BY <2>2, ThresholdIsNearest DEF NearestThreshold
<1> QED BY <1>1, InputStays, PTL

\* A block is accepted exactly if all of it is public.
THEOREM BlocksExact == NumericSpec => []BlockAcceptsExactly
<1>1. input \in Inputs => BlockAcceptsExactly
  <2> SUFFICES ASSUME input \in Inputs, input.kind = "block" PROVE BlockAcceptsExactly
    BY DEF BlockAcceptsExactly
  <2>1. input.startReg \in 0..255 /\ input.len \in 0..40 \cup 470..520
    BY InputsByKind, SMT DEF BlockInputs
  <2>2. input.len \in Nat
    BY <2>1
  <2> QED BY <2>1, <2>2, BlockGuardExact DEF BlockAcceptsExactly
<1> QED BY <1>1, InputStays, PTL

\* A read's timeout covers its gates and a retry, for every conversion time.
THEOREM TimeoutsCoverGates == NumericSpec => []TimeoutCoversGates
<1>1. input \in Inputs => TimeoutCoversGates
  <2> SUFFICES ASSUME input \in Inputs, input.kind = "table" PROVE TimeoutCoversGates
    BY DEF TimeoutCoversGates
  <2>1. input.time \in 1..12 /\ input.quickWake \in BOOLEAN
    BY InputsByKind, SMT DEF TableInputs
  <2> QED BY <2>1, TimeoutsCover DEF TimeoutCoversGates
<1> QED BY <1>1, InputStays, PTL

\* An adapter reports OK only for a complete transfer, and a bus fault always with a
\* status that the health tracker counts.
THEOREM VerdictsRight == NumericSpec => []TransferVerdict
<1>1. input \in Inputs => TransferVerdict
  <2> SUFFICES ASSUME input \in Inputs PROVE TransferVerdict
    OBVIOUS
  <2>1. CASE input.kind = "wire"
    <3>1. /\ input.tx \in {0, 1, 3, 128, 129} /\ input.rx \in {0, 1, 4, 128, 129}
          /\ input.taken \in 0..3 \cup {128, 129} /\ input.result \in 0..6
          /\ input.received \in 0..4 \cup {128}
      BY <2>1, InputsByKind, SMT DEF WireInputs
    <3>2. /\ input.tx \in Nat /\ input.rx \in Nat /\ input.taken \in Nat
          /\ input.result \in Nat /\ input.received \in Nat
      BY <3>1
    <3> QED BY <2>1, <3>2, WireTells DEF TransferVerdict
  <2>2. CASE input.kind = "idf"
    <3>1. /\ input.context \in [device : BOOLEAN, generalCall : BOOLEAN, address : {68, 69}]
          /\ input.len \in Nat /\ input.err \in EspErrors
      BY <2>2, InputsByKind, SMT DEF IdfInputs
    <3> QED BY <2>2, <3>1, IdfTells DEF TransferVerdict
  <2>3. CASE input.kind \notin {"wire", "idf"}
    BY <2>3 DEF TransferVerdict
  <2> QED BY <2>1, <2>2, <2>3
<1> QED BY <1>1, InputStays, PTL
=============================================================================
