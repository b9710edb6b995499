----------------------- MODULE RschedAlgorithmProofs ------------------------
(***************************************************************************)
(* Proofs about the sequential algorithms: the random walk, the registry   *)
(* of mutex types, the seccomp filter, the recognition of TSAN's threads,  *)
(* the sleeps and the LLVM pass.                                           *)
(***************************************************************************)
EXTENDS RschedWalk, RschedRegistry, RschedFilter, RschedTsanCreate, RschedSleep, RschedPass,
        TLAPS, WellFoundedInduction, SequenceTheorems, FiniteSetTheorems

\* A non-empty set of natural numbers has a least element.
LEMMA LeastElement ==
  ASSUME NEW T \in SUBSET Nat, T # {}
  PROVE  \E x \in T : \A y \in T : x <= y
<1>1. \E x \in T : \A y \in T : ~(<<y, x>> \in OpToRel(<, Nat))
  BY NatLessThanWellFounded, WFMin
<1>2. \A x, y \in Nat : ~(<<y, x>> \in OpToRel(<, Nat)) => x <= y
  BY DEF OpToRel
<1> QED
  BY <1>1, <1>2

\* A set of bits has a greatest element as well.
LEMMA GreatestElement ==
  ASSUME NEW T \in SUBSET Bits, T # {}
  PROVE  \E x \in T : \A y \in T : y <= x
<1> DEFINE Mirror == {n \in Nat : Width - n \in T}
<1>1. \A i \in T : i \in Nat /\ Width - i \in Nat /\ Width - (Width - i) = i
  BY WalkAssumption DEF Bits
<1>2. \A i \in T : Width - i \in Mirror
  BY <1>1
<1>3. Mirror \in SUBSET Nat /\ Mirror # {}
  BY <1>2
<1>4. PICK m \in Mirror : \A y \in Mirror : m <= y
  <2> HIDE DEF Mirror
  <2> QED
    BY <1>3, LeastElement
<1>5. \A y \in T : y <= Width - m
  <2> SUFFICES ASSUME NEW y \in T PROVE y <= Width - m
    OBVIOUS
  <2>1. m <= Width - y
    BY <1>2, <1>4
  <2>2. m \in Nat /\ y \in Nat /\ Width \in Nat
    BY <1>1, WalkAssumption
  <2> QED
    BY <2>1, <2>2
<1> QED
  BY <1>4, <1>5

\* The step x ^= x << k keeps the lowest one bit.
LEMMA XorShlNonZero ==
  ASSUME NEW x \in SUBSET Bits, x # {}, NEW k \in Nat \ {0}
  PROVE  Xor(x, Shl(x, k)) \in SUBSET Bits /\ Xor(x, Shl(x, k)) # {}
<1> USE WalkAssumption DEF Bits
<1>1. PICK i \in x : \A j \in x : i <= j
  BY LeastElement
<1>2. i \notin Shl(x, k)
  BY <1>1 DEF Shl
<1> QED
  BY <1>1, <1>2 DEF Xor, Shl

\* The step x ^= x >> k keeps the highest one bit.
LEMMA XorShrNonZero ==
  ASSUME NEW x \in SUBSET Bits, x # {}, NEW k \in Nat \ {0}
  PROVE  Xor(x, Shr(x, k)) \in SUBSET Bits /\ Xor(x, Shr(x, k)) # {}
<1> USE WalkAssumption DEF Bits
<1>1. PICK i \in x : \A j \in x : j <= i
  BY GreatestElement
<1>2. i \notin Shr(x, k)
  BY <1>1 DEF Shr
<1> QED
  BY <1>1, <1>2 DEF Xor, Shr

\* Rng::next maps no other word to 0.
LEMMA RngNextNonZero ==
  ASSUME NEW x \in SUBSET Bits, x # {}
  PROVE  RngNext(x) \in SUBSET Bits /\ RngNext(x) # {}
<1> DEFINE a == Xor(x, Shl(x, 13))
           b == Xor(a, Shr(a, 7))
<1>1. a \in SUBSET Bits /\ a # {}
  BY XorShlNonZero
<1>2. b \in SUBSET Bits /\ b # {}
  <2> HIDE DEF a
  <2> QED
    BY <1>1, XorShrNonZero
<1>3. Xor(b, Shl(b, 17)) \in SUBSET Bits /\ Xor(b, Shl(b, 17)) # {}
  <2> HIDE DEF b
  <2> QED
    BY <1>2, XorShlNonZero
<1> QED
  BY <1>3 DEF RngNext

\* The generator never gets stuck at 0, from any seed and at any word size.
THEOREM RngNeverStuckHolds == WalkSpec => []RngNeverStuck
<1> DEFINE Word == rng \in SUBSET Bits /\ rng # {} /\ seed \in SUBSET Bits
<1>1. \A s \in SUBSET Bits : RngNew(s) \in SUBSET Bits /\ RngNew(s) # {}
  BY WalkAssumption DEF RngNew, Bits
<1>2. Init => Word
  BY <1>1, WalkAssumption DEF Init
<1>3. Word /\ [Next]_walkVars => Word'
  <2> SUFFICES ASSUME Word, [Next]_walkVars PROVE Word'
    OBVIOUS
  <2>1. ASSUME NEW b \in Lists, Choose(b) PROVE Word'
    BY <2>1, RngNextNonZero DEF Choose, fuzzVars
  <2>2. ASSUME NEW s \in Seeds, Reinit(s) \/ FuzzerInput(s) PROVE Word'
    BY <1>1, <2>2, WalkAssumption DEF Reinit, FuzzerInput, Reseed, fuzzVars
  <2>3. CASE FuzzerSchedule
    <3>1. Increment(seed) \in SUBSET Bits
      BY DEF Increment
    <3> QED
      BY <1>1, <2>3, <3>1 DEF FuzzerSchedule, Reseed
  <2> QED
    BY <2>1, <2>2, <2>3 DEF Next, walkVars, fuzzVars
<1>4. Word => RngNeverStuck
  BY DEF RngNeverStuck
<1> QED
  BY <1>2, <1>3, <1>4, PTL DEF WalkSpec

\* An index that runs off the end of the list by less than its length wraps once.
LEMMA WrapOnce ==
  ASSUME NEW n \in Nat \ {0}, NEW s \in 0 .. n - 1, NEW i \in 0 .. n - 1
  PROVE  (s + i) % n = IF s + i < n THEN s + i ELSE s + i - n
OBVIOUS

\* The flags handed to choose() are a sequence.
LEMMA ListIsSeq ==
  ASSUME NEW b \in Lists
  PROVE  b \in Seq(BOOLEAN)
<1>1. PICK n \in 0 .. MaxThreads : b \in [1 .. n -> BOOLEAN]
  BY DEF Lists
<1>2. n \in Nat
  BY <1>1, WalkAssumption
<1> QED
  BY <1>1, <1>2, IsASeq

\* The offsets of a scan stay inside the list.
LEMMA WrapInside ==
  ASSUME NEW n \in Nat \ {0}, NEW s \in 0 .. n - 1, NEW i \in 0 .. n - 1
  PROVE  (s + i) % n \in 0 .. n - 1
BY WrapOnce

\* A scan that meets only raised flags finds nobody.
LEMMA ScanNobody ==
  ASSUME NEW b \in Seq(BOOLEAN), NEW s \in 0 .. Len(b) - 1, Eligible(b) = {}
  PROVE  Scan(b, s) = Nobody
<1>1. Len(b) \in Nat \ {0}
  BY LenProperties
<1>2. \A i \in 0 .. Len(b) - 1 : (s + i) % Len(b) \in 0 .. Len(b) - 1
  BY <1>1, WrapInside
<1>3. {i \in 0 .. Len(b) - 1 : ~Flagged(b, (s + i) % Len(b))} = {}
  BY <1>2 DEF Eligible
<1> QED
  BY <1>3 DEF Scan

\* The scan from any start ends at an eligible index, and at once if start is one.
LEMMA ScanEligible ==
  ASSUME NEW b \in Seq(BOOLEAN), NEW s \in 0 .. Len(b) - 1, Eligible(b) # {}
  PROVE  /\ Scan(b, s) \in Eligible(b)
         /\ s \in Eligible(b) => Scan(b, s) = s
<1> DEFINE n == Len(b)
           free == {i \in 0 .. n - 1 : ~Flagged(b, (s + i) % n)}
<1>1. n \in Nat \ {0} /\ s \in 0 .. n - 1 /\ s \in Nat
  <2>1. n \in Nat
    BY LenProperties
  <2> QED
    BY <2>1
<1> HIDE DEF n
<1>2. \A i \in 0 .. n - 1 :
        (s + i) % n = IF s + i < n THEN s + i ELSE s + i - n
  BY <1>1, WrapOnce
<1>3. PICK j \in 0 .. n - 1 : ~Flagged(b, j)
  BY DEF Eligible, n
<1>4. free # {}
  <2>1. CASE s <= j
    <3>1. j - s \in 0 .. n - 1 /\ s + (j - s) = j /\ j < n
      BY <1>1, <1>3, <2>1
    <3>2. (s + (j - s)) % n = j
      BY <1>2, <3>1
    <3> QED
      BY <1>3, <3>1, <3>2
  <2>2. CASE j < s
    <3>1. PICK i \in 0 .. n - 1 : i = j - s + n
      BY <1>1, <1>3, <2>2
    <3>2. ~(s + i < n) /\ s + i - n = j
      BY <1>1, <1>3, <3>1
    <3>3. (s + i) % n = j
      BY <1>2, <3>2
    <3> QED
      BY <1>3, <3>3
  <2> QED
    BY <1>1, <1>3, <2>1, <2>2
<1>5. Min(free) \in free /\ \A y \in free : Min(free) <= y
  <2>1. free \in SUBSET Nat
    BY <1>1
  <2> HIDE DEF free
  <2> QED
    BY <1>4, <2>1, LeastElement DEF Min
<1>6. Scan(b, s) = (s + Min(free)) % n
  BY <1>4 DEF Scan, n
<1>7. Scan(b, s) \in Eligible(b)
  <2>1. Min(free) \in 0 .. n - 1 /\ ~Flagged(b, (s + Min(free)) % n)
    BY <1>5
  <2>2. \A i \in 0 .. n - 1 : (s + i) % n \in 0 .. n - 1
    BY <1>1, WrapInside
  <2> QED
    BY <1>6, <2>1, <2>2 DEF Eligible, n
<1>8. ASSUME s \in Eligible(b) PROVE Scan(b, s) = s
  <2>1. (s + 0) % n = s /\ 0 \in 0 .. n - 1
    BY <1>1, <1>2
  <2>2. 0 \in free
    BY <1>8, <2>1 DEF Eligible
  <2>3. Min(free) = 0
    BY <1>1, <1>5, <2>2
  <2> QED
    BY <1>6, <2>1, <2>3
<1> QED
  BY <1>7, <1>8

\* The flags handed to the last choose() are a list.
LEMMA FlagsAreList == WalkSpec => [](blocking \in Seq(BOOLEAN))
<1> DEFINE List == blocking \in Seq(BOOLEAN)
<1>1. Init => List
  BY DEF Init
<1>2. List /\ [Next]_walkVars => List'
  <2> SUFFICES ASSUME List, [Next]_walkVars PROVE List'
    OBVIOUS
  <2>1. ASSUME NEW b \in Lists, Choose(b) PROVE List'
    <3>1. b \in Seq(BOOLEAN)
      BY ListIsSeq
    <3> QED
      BY <2>1, <3>1 DEF Choose
  <2>2. ASSUME NEW s, Reinit(s) \/ FuzzerInput(s) \/ FuzzerSchedule PROVE List'
    <3>1. blocking' = blocking \/ blocking' = <<>>
      BY <2>2 DEF Reinit, FuzzerInput, FuzzerSchedule, Reseed
    <3>2. <<>> \in Seq(BOOLEAN)
      BY EmptySeq
    <3> QED
      BY <3>1, <3>2
  <2> QED
    BY <2>1, <2>2 DEF Next, walkVars
<1> QED
  BY <1>1, <1>2, PTL DEF WalkSpec

\* Over all starting points the walk returns exactly the eligible indices, for
\* lists of any length: nothing is lost by drawing from the set.
THEOREM WalkReachesEligibleHolds == WalkSpec => []WalkReachesEligible
<1>1. blocking \in Seq(BOOLEAN) => WalkReachesEligible
  <2> SUFFICES ASSUME blocking \in Seq(BOOLEAN), Eligible(blocking) # {}
               PROVE  {Scan(blocking, s) : s \in 0 .. Len(blocking) - 1} = Eligible(blocking)
    BY DEF WalkReachesEligible
  <2>1. Eligible(blocking) \subseteq 0 .. Len(blocking) - 1
    BY DEF Eligible
  <2>2. \A s \in 0 .. Len(blocking) - 1 :
          /\ Scan(blocking, s) \in Eligible(blocking)
          /\ s \in Eligible(blocking) => Scan(blocking, s) = s
    BY ScanEligible
  <2>3. {Scan(blocking, s) : s \in 0 .. Len(blocking) - 1} \subseteq Eligible(blocking)
    BY <2>2
  <2>4. ASSUME NEW i \in Eligible(blocking)
        PROVE  i \in {Scan(blocking, s) : s \in 0 .. Len(blocking) - 1}
    BY <2>1, <2>2
  <2> QED
    BY <2>3, <2>4
<1> QED
  BY <1>1, FlagsAreList, PTL

\* The equation that Residue solves for r.
ResidueStep(x, n, r) ==
    [i \in 0 .. Width |->
        IF i = Width THEN 0 ELSE (2 * r[i + 1] + (IF i \in x THEN 1 ELSE 0)) % n]

\* The recursion of Residue over the bits of a word has a solution.
LEMMA ResidueDefined ==
  ASSUME NEW x, NEW n \in Nat \ {0}
  PROVE  \E r \in [0 .. Width -> Int] : r = ResidueStep(x, n, r)
<1> DEFINE Down(i, v) == (2 * v + (IF i \in x THEN 1 ELSE 0)) % n
           Solves(d, f) == /\ f[Width] = 0
                           /\ \A i \in Width - d .. Width - 1 : f[i] = Down(i, f[i + 1])
           Open == {d \in 0 .. Width : ~ \E f \in [0 .. Width -> Int] : Solves(d, f)}
<1>0. Width \in Nat
  BY WalkAssumption
<1>1. \A i, v \in Int : Down(i, v) \in Int
  OBVIOUS
<1> HIDE DEF Down
<1>2. Open = {}
  <2> SUFFICES ASSUME Open # {} PROVE FALSE
    OBVIOUS
  <2>1. PICK d \in Open : \A e \in Open : d <= e
    <3>1. Open \in SUBSET Nat
      BY <1>0
    <3> HIDE DEF Open
    <3> QED
      BY <3>1, LeastElement
  <2>2. d # 0
    <3>1. Solves(0, [i \in 0 .. Width |-> 0])
      BY <1>0
    <3>2. [i \in 0 .. Width |-> 0] \in [0 .. Width -> Int]
      OBVIOUS
    <3> HIDE DEF Solves
    <3> QED
      BY <2>1, <3>1, <3>2
  <2>3. d \in 0 .. Width /\ d - 1 \in 0 .. Width /\ d - 1 \notin Open
    <3>1. d \in 0 .. Width
      BY <2>1
    <3> HIDE DEF Open
    <3> QED
      BY <1>0, <2>1, <2>2, <3>1
  <2>4. PICK f \in [0 .. Width -> Int] : Solves(d - 1, f)
    <3> HIDE DEF Solves
    <3> QED
      BY <2>3
  <2> DEFINE k == Width - d
             g == [f EXCEPT ![k] = Down(k, f[k + 1])]
  <2>5. k \in 0 .. Width - 1 /\ Width - (d - 1) = k + 1 /\ k + 1 \in 0 .. Width
    BY <1>0, <2>2, <2>3
  <2>6. g \in [0 .. Width -> Int]
    <3>1. k \in Int /\ f[k + 1] \in Int
      BY <1>0, <2>5
    <3>2. Down(k, f[k + 1]) \in Int
      BY <1>1, <3>1
    <3> QED
      BY <3>2
  <2>7. Solves(d, g)
    <3>1. g[Width] = 0
      BY <1>0, <2>4, <2>5
    <3>2. ASSUME NEW i \in k .. Width - 1 PROVE g[i] = Down(i, g[i + 1])
      <4>1. i \in 0 .. Width /\ i + 1 \in 0 .. Width /\ i + 1 # k
        BY <1>0, <2>5
      <4>2. CASE i = k
        BY <2>4, <4>1, <4>2
      <4>3. CASE i # k
        <5>1. i \in Width - (d - 1) .. Width - 1
          BY <1>0, <2>5, <4>3
        <5> QED
          BY <2>4, <4>1, <4>3, <5>1
      <4> QED
        BY <4>2, <4>3
    <3> HIDE DEF g
    <3> QED
      BY <3>1, <3>2
  <2> HIDE DEF Solves, g
  <2> QED
    BY <2>1, <2>6, <2>7
<1>3. PICK r \in [0 .. Width -> Int] : Solves(Width, r)
  <2>1. Width \in 0 .. Width
    BY <1>0
  <2> HIDE DEF Solves
  <2> QED
    BY <1>2, <2>1
<1>4. \A i \in 0 .. Width : r[i] = IF i = Width THEN 0 ELSE Down(i, r[i + 1])
  BY <1>0, <1>3
<1> QED
  BY <1>4 DEF Down, ResidueStep

\* A draw modulo n is an index of a list of length n.
LEMMA ResidueRange ==
  ASSUME NEW x, NEW n \in Nat \ {0}
  PROVE  Residue(x, n) \in 0 .. n - 1
<1> DEFINE r == CHOOSE f : f = ResidueStep(x, n, f)
           Bad == {d \in 0 .. Width : r[Width - d] \notin 0 .. n - 1}
<1>0. Width \in Nat
  BY WalkAssumption
<1>1. Residue(x, n) = r[0]
  BY DEF Residue, ResidueStep
<1>2. r = ResidueStep(x, n, r)
  BY ResidueDefined
<1> HIDE DEF r
<1>3. \A i \in 0 .. Width :
        r[i] = IF i = Width THEN 0 ELSE (2 * r[i + 1] + (IF i \in x THEN 1 ELSE 0)) % n
  BY <1>2 DEF ResidueStep
<1>4. \A v \in Int : \A i : (2 * v + (IF i \in x THEN 1 ELSE 0)) % n \in 0 .. n - 1
  OBVIOUS
<1>5. Bad = {}
  <2> SUFFICES ASSUME Bad # {} PROVE FALSE
    OBVIOUS
  <2>1. PICK d \in Bad : \A e \in Bad : d <= e
    <3>1. Bad \in SUBSET Nat
      BY <1>0
    <3> HIDE DEF Bad
    <3> QED
      BY <3>1, LeastElement
  <2>2. d \in 0 .. Width /\ r[Width - d] \notin 0 .. n - 1
    BY <2>1
  <2>3. d # 0
    BY <1>0, <1>3, <2>2
  <2>4. d - 1 \in 0 .. Width /\ d - 1 \notin Bad
    <3> HIDE DEF Bad
    <3> QED
      BY <1>0, <2>1, <2>2, <2>3
  <2>5. r[Width - (d - 1)] \in 0 .. n - 1
    BY <2>4
  <2>6. PICK k \in 0 .. Width : k = Width - d /\ k # Width /\ Width - (d - 1) = k + 1
    BY <1>0, <2>2, <2>3
  <2>7. r[k] \in 0 .. n - 1
    BY <1>3, <1>4, <2>5, <2>6
  <2> QED
    BY <2>2, <2>6, <2>7
<1>6. r[Width - Width] \in 0 .. n - 1
  BY <1>0, <1>5
<1> QED
  BY <1>0, <1>1, <1>6

\* The last answer of choose() is an index whose flag is down, or None when there
\* is none, for lists of any length and every word drawn.
THEOREM ChoiceIsEligibleHolds == WalkSpec => []ChoiceIsEligible
<1>1. Init => ChoiceIsEligible
  BY DEF Init, ChoiceIsEligible, Eligible
<1>2. ChoiceIsEligible /\ [Next]_walkVars => ChoiceIsEligible'
  <2> SUFFICES ASSUME ChoiceIsEligible, [Next]_walkVars PROVE ChoiceIsEligible'
    OBVIOUS
  <2>1. CASE UNCHANGED walkVars
    BY <2>1 DEF walkVars, ChoiceIsEligible
  <2>2. ASSUME NEW b \in Lists, Choose(b) PROVE ChoiceIsEligible'
    <3>1. b \in Seq(BOOLEAN)
      BY ListIsSeq
    <3>2. CASE b = <<>>
      <4>1. Eligible(b) = {}
        BY <3>2 DEF Eligible
      <4> QED
        BY <2>2, <3>2, <4>1 DEF Choose, ChoiceIsEligible
    <3>3. CASE b # <<>>
      <4>1. Len(b) \in Nat \ {0}
        BY <3>1, <3>3, LenProperties, EmptySeq
      <4>2. PICK s \in 0 .. Len(b) - 1 : chosen' = Scan(b, s)
        BY <2>2, <3>3, <4>1, ResidueRange DEF Choose
      <4>3. CASE Eligible(b) # {}
        BY <2>2, <3>1, <4>2, <4>3, ScanEligible DEF Choose, ChoiceIsEligible
      <4>4. CASE Eligible(b) = {}
        <5>1. Scan(b, s) = Nobody
          BY <3>1, <4>1, <4>4, ScanNobody
        <5> QED
          BY <2>2, <4>2, <4>4, <5>1 DEF Choose, ChoiceIsEligible
      <4> QED
        BY <4>3, <4>4
    <3> QED
      BY <3>2, <3>3
  <2>3. ASSUME NEW s, Reinit(s) \/ FuzzerSchedule PROVE ChoiceIsEligible'
    <3>1. blocking' = <<>> /\ chosen' = Nobody
      BY <2>3 DEF Reinit, FuzzerSchedule, Reseed
    <3> QED
      BY <3>1 DEF ChoiceIsEligible, Eligible
  <2>4. ASSUME NEW s, FuzzerInput(s) PROVE ChoiceIsEligible'
    BY <2>4 DEF FuzzerInput, ChoiceIsEligible
  <2> QED
    BY <2>1, <2>2, <2>3, <2>4 DEF Next
<1> QED
  BY <1>1, <1>2, PTL DEF WalkSpec

\* Going backwards around the list wraps once as well.
LEMMA WrapBack ==
  ASSUME NEW n \in Nat \ {0}, NEW i \in 0 .. n - 1, NEW k \in 0 .. n
  PROVE  (i - k) % n = IF k <= i THEN i - k ELSE i - k + n
OBVIOUS

\* A start that lies k places before the eligible index i leads there unless an
\* eligible index lies between them.
LEMMA ScanFromBehind ==
  ASSUME NEW b \in Seq(BOOLEAN), NEW i \in Eligible(b), NEW s \in 0 .. Len(b) - 1,
         NEW k \in 0 .. Len(b) - 1, s = (i - k) % Len(b)
  PROVE  Scan(b, s) = i <=> \A j \in 0 .. k - 1 : (i - 1 - j) % Len(b) \notin Eligible(b)
<1>0. PICK n \in Nat \ {0} : n = Len(b)
  <2>1. Len(b) \in Nat
    BY LenProperties
  <2> QED
    BY <2>1
<1> DEFINE free == {d \in 0 .. n - 1 : ~Flagged(b, (s + d) % n)}
<1>1. i \in 0 .. n - 1 /\ s \in 0 .. n - 1 /\ k \in 0 .. n - 1 /\ k \in 0 .. n /\ s = (i - k) % n
  BY <1>0 DEF Eligible
<1>2. free = {d \in 0 .. n - 1 : (s + d) % n \in Eligible(b)}
  BY <1>0, <1>1, WrapInside DEF Eligible
<1>3. s = IF k <= i THEN i - k ELSE i - k + n
  BY <1>1, WrapBack
<1>4. \A d \in 0 .. n - 1 : (s + d) % n = IF s + d < n THEN s + d ELSE s + d - n
  BY <1>1, WrapOnce
<1>5. \A j \in 0 .. n - 1 : (i - 1 - j) % n = IF j + 1 <= i THEN i - 1 - j ELSE i - 1 - j + n
  <2> SUFFICES ASSUME NEW j \in 0 .. n - 1
               PROVE  (i - 1 - j) % n = IF j + 1 <= i THEN i - 1 - j ELSE i - 1 - j + n
    OBVIOUS
  <2>1. j + 1 \in 0 .. n /\ i - (j + 1) = i - 1 - j
    BY <1>1
  <2> QED
    BY <1>1, <2>1, WrapBack
<1>6. (s + k) % n = i /\ k \in 0 .. n - 1
  <2>1. i < n /\ (s + k < n => s + k = i) /\ (~(s + k < n) => s + k - n = i)
    BY <1>1, <1>3
  <2> QED
    BY <1>1, <1>4, <2>1
<1>7. ASSUME NEW d \in 0 .. k - 1
      PROVE  d \in 0 .. n - 1 /\ k - 1 - d \in 0 .. k - 1 /\ (s + d) % n = (i - 1 - (k - 1 - d)) % n
  <2>1. PICK j \in 0 .. n - 1 : j = k - 1 - d /\ j \in 0 .. k - 1
    BY <1>1
  <2>2. d \in 0 .. n - 1
    BY <1>1
  <2>3. (i - 1 - j) % n = IF j + 1 <= i THEN i - 1 - j ELSE i - 1 - j + n
    BY <1>5
  <2>4. (s + d) % n = IF s + d < n THEN s + d ELSE s + d - n
    BY <1>4, <2>2
  <2>5. (IF j + 1 <= i THEN i - 1 - j ELSE i - 1 - j + n) = IF s + d < n THEN s + d ELSE s + d - n
    BY <1>1, <1>3, <2>1
  <2> QED
    BY <2>1, <2>2, <2>3, <2>4, <2>5
<1>8. k \in free
  BY <1>2, <1>6
<1>9. Min(free) \in free /\ \A y \in free : Min(free) <= y
  <2>1. free \in SUBSET Nat
    BY <1>1
  <2> HIDE DEF free
  <2> QED
    BY <1>8, <2>1, LeastElement DEF Min
<1>10. Scan(b, s) = (s + Min(free)) % n
  BY <1>0, <1>8 DEF Scan
<1>11. Min(free) \in 0 .. n - 1 /\ Min(free) <= k
  BY <1>8, <1>9
<1>12. Scan(b, s) = i <=> Min(free) = k
  <2> HIDE DEF free
  <2>1. PICK d \in 0 .. n - 1 : d = Min(free)
    BY <1>11
  <2>2. (s + d) % n = (s + k) % n <=> d = k
    <3>1. /\ (s + d) % n = IF s + d < n THEN s + d ELSE s + d - n
          /\ (s + k) % n = IF s + k < n THEN s + k ELSE s + k - n
      BY <1>1, <1>4
    <3>2. ASSUME d # k
          PROVE  (IF s + d < n THEN s + d ELSE s + d - n) # IF s + k < n THEN s + k ELSE s + k - n
      <4>1. s \in Int /\ d \in 0 .. n - 1 /\ k \in 0 .. n - 1
        BY <1>1
      <4>2. s + d # s + k /\ s + d # s + k - n /\ s + d - n # s + k /\ s + d - n # s + k - n
        BY <3>2, <4>1
      <4> QED
        BY <4>2
    <3> QED
      BY <3>1, <3>2
  <2> QED
    BY <1>6, <1>10, <2>1, <2>2
<1>13. Min(free) = k <=> \A d \in 0 .. k - 1 : d \notin free
  <2> HIDE DEF free
  <2>1. free \subseteq Nat
    BY <1>1 DEF free
  <2> QED
    BY <1>1, <1>6, <1>8, <1>9, <1>11, <2>1
<1>14. (\A d \in 0 .. k - 1 : d \notin free)
         <=> \A j \in 0 .. k - 1 : (i - 1 - j) % n \notin Eligible(b)
  <2>1. ASSUME NEW d \in 0 .. k - 1
        PROVE  d \notin free <=> (i - 1 - (k - 1 - d)) % n \notin Eligible(b)
    BY <1>2, <1>7
  <2>2. \A j \in 0 .. k - 1 : k - 1 - j \in 0 .. k - 1 /\ k - 1 - (k - 1 - j) = j
    BY <1>6
  <2> HIDE DEF free
  <2> QED
    BY <2>1, <2>2
<1> QED
  BY <1>0, <1>12, <1>13, <1>14

\* The starts that lead to i are i itself and the ineligible places just before it.
LEMMA StartsOf ==
  ASSUME NEW b \in Seq(BOOLEAN), NEW i \in Eligible(b)
  PROVE  Shadow(b, i) \in Nat /\ Cardinality(Starts(b, i)) = 1 + Shadow(b, i)
<1>0. PICK n \in Nat \ {0} : n = Len(b) /\ i \in 0 .. n - 1
  <2>1. Len(b) \in Nat /\ i \in 0 .. Len(b) - 1
    BY LenProperties DEF Eligible
  <2> QED
    BY <2>1
<1> DEFINE ahead == {k \in 0 .. n - 1 : (i - 1 - k) % n \in Eligible(b)}
           w == Min(ahead)
           starts == {s \in 0 .. n - 1 : Scan(b, s) = i}
           from == [k \in 0 .. w |-> (i - k) % n]
<1>1. n - 1 \in ahead
  <2>1. i - 1 - (n - 1) = i - n /\ n - 1 \in 0 .. n - 1 /\ n \in 0 .. n /\ ~(n <= i) /\ i - n + n = i
    BY <1>0
  <2>2. (i - n) % n = i
    BY <1>0, <2>1, WrapBack
  <2> QED
    BY <2>1, <2>2
<1>2. w \in ahead /\ \A y \in ahead : w <= y
  <2>1. ahead \in SUBSET Nat
    BY <1>0
  <2> HIDE DEF ahead
  <2> QED
    BY <1>1, <2>1, LeastElement DEF Min
<1>3. w \in 0 .. n - 1
  BY <1>2
<1>4. Shadow(b, i) = w
  BY <1>0 DEF Shadow
<1> HIDE DEF w
<1>5. \A k \in 0 .. n - 1 : (\A j \in 0 .. k - 1 : j \notin ahead) <=> k <= w
  <2>1. ahead \subseteq 0 .. n - 1
    OBVIOUS
  <2> HIDE DEF ahead
  <2> QED
    BY <1>0, <1>2, <1>3, <2>1
<1>6. ASSUME NEW k \in 0 .. n - 1
      PROVE  /\ (i - k) % n = IF k <= i THEN i - k ELSE i - k + n
             /\ (i - k) % n \in 0 .. n - 1
             /\ (i - k) % n \in starts <=> k <= w
  <2>1. k \in 0 .. n
    BY <1>0
  <2>2. (i - k) % n = IF k <= i THEN i - k ELSE i - k + n
    BY <1>0, <2>1, WrapBack
  <2>3. (i - k) % n \in 0 .. n - 1
    BY <1>0, <2>2
  <2>4. Scan(b, (i - k) % n) = i
          <=> \A j \in 0 .. k - 1 : (i - 1 - j) % n \notin Eligible(b)
    BY <1>0, <2>3, ScanFromBehind
  <2>5. \A j \in 0 .. k - 1 : j \in ahead <=> (i - 1 - j) % n \in Eligible(b)
    <3>1. \A j \in 0 .. k - 1 : j \in 0 .. n - 1
      BY <1>0
    <3> QED
      BY <3>1
  <2>6. (\A j \in 0 .. k - 1 : j \notin ahead) <=> k <= w
    BY <1>5
  <2> HIDE DEF ahead
  <2> QED
    BY <2>2, <2>3, <2>4, <2>5, <2>6
<1>7. from \in Bijection(0 .. w, starts)
  <2>1. \A k \in 0 .. w : k \in 0 .. n - 1 /\ k <= w
    BY <1>0, <1>3
  <2>2. from \in [0 .. w -> starts]
    BY <1>6, <2>1
  <2>3. ASSUME NEW k \in 0 .. w, NEW j \in 0 .. w, from[k] = from[j] PROVE k = j
    <3>1. (i - k) % n = (i - j) % n
      BY <2>3
    <3>2. (IF k <= i THEN i - k ELSE i - k + n) = IF j <= i THEN i - j ELSE i - j + n
      BY <1>6, <2>1, <3>1
    <3> QED
      BY <1>0, <2>1, <3>2
  <2>4. ASSUME NEW s \in starts PROVE \E k \in 0 .. w : from[k] = s
    <3>1. s \in 0 .. n - 1
      OBVIOUS
    <3>2. PICK k \in 0 .. n - 1 : (IF k <= i THEN i - k ELSE i - k + n) = s
      <4>1. CASE s <= i
        <5>1. i - s \in 0 .. n - 1 /\ i - s <= i /\ i - (i - s) = s
          BY <1>0, <3>1, <4>1
        <5> QED
          BY <5>1
      <4>2. CASE ~(s <= i)
        <5>1. i - s + n \in 0 .. n - 1 /\ ~(i - s + n <= i) /\ i - (i - s + n) + n = s
          BY <1>0, <3>1, <4>2
        <5> QED
          BY <5>1
      <4> QED
        BY <4>1, <4>2
    <3>3. (i - k) % n = s /\ k <= w
      BY <1>6, <3>2
    <3>4. k \in 0 .. w
      BY <1>3, <3>3
    <3> QED
      BY <3>3, <3>4
  <2> HIDE DEF from, starts
  <2> QED
    BY <2>2, <2>3, <2>4 DEF Bijection, Injection, Surjection, IsInjective
<1>8. Cardinality(starts) = Cardinality(0 .. w)
  <2> HIDE DEF starts, from
  <2>1. IsFiniteSet(0 .. w)
    BY <1>3, FS_Interval
  <2>2. ExistsBijection(0 .. w, starts)
    BY <1>7 DEF ExistsBijection
  <2> QED
    BY <2>1, <2>2, FS_Bijection
<1>9. Cardinality(0 .. w) = 1 + w
  BY <1>3, FS_Interval
<1>10. Starts(b, i) = starts
  BY <1>0 DEF Starts
<1> QED
  BY <1>3, <1>4, <1>8, <1>9, <1>10

\* When the walk is uniform, for lists of any length: exactly when the runs of
\* ineligible threads before the eligible ones are equally long.  The documentation
\* calls RandomWalk::choose uniform without that condition.
THEOREM UniformExactlyWhen ==
  WalkSpec => [](UniformDraw <=> \A i, j \in Eligible(blocking) :
                                   Shadow(blocking, i) = Shadow(blocking, j))
<1>1. blocking \in Seq(BOOLEAN) =>
        (UniformDraw <=> \A i, j \in Eligible(blocking) :
                           Shadow(blocking, i) = Shadow(blocking, j))
  <2> SUFFICES ASSUME blocking \in Seq(BOOLEAN)
               PROVE  \A i, j \in Eligible(blocking) :
                        Cardinality(Starts(blocking, i)) = Cardinality(Starts(blocking, j))
                          <=> Shadow(blocking, i) = Shadow(blocking, j)
    BY DEF UniformDraw
  <2>1. \A i \in Eligible(blocking) :
          /\ Shadow(blocking, i) \in Nat
          /\ Cardinality(Starts(blocking, i)) = 1 + Shadow(blocking, i)
    BY StartsOf
  <2> QED
    BY <2>1
<1> QED
  BY <1>1, FlagsAreList, PTL

(***************************************************************************)
(* The registry of mutex types.                                            *)
(***************************************************************************)
\* Types of the registry's state, and the notes on attributes.
RegistryInv ==
    /\ realAttr \in [Attrs -> MutexKinds \cup {"none"}]
    /\ realMutex \in [RegMutexes -> MutexKinds \cup {"none"}]
    /\ recursiveMutexes \subseteq RegMutexes
    /\ \A a \in recursiveAttrs : a \in Attrs /\ realAttr[a] = "recursive"
    /\ RegistryExact

\* A mutex is noted as recursive only if it is, and every recursive mutex made by
\* pthread_mutex_init is noted that rsched_reinit has not forgotten, for any number of
\* attributes and mutexes.
THEOREM RegistryExactHolds == RegistrySpec => []RegistryExact
<1> USE DEF MutexKinds
<1>1. RegistryInit => RegistryInv
  BY DEF RegistryInit, RegistryInv, RegistryExact
<1>2. RegistryInv /\ [RegistryNext]_registryVars => RegistryInv'
  <2> SUFFICES ASSUME RegistryInv, [RegistryNext]_registryVars PROVE RegistryInv'
    OBVIOUS
  <2> USE DEF RegistryInv, RegistryExact, Forget, NoteKind
  <2>1. ASSUME NEW a \in Attrs, MutexattrInit(a) PROVE RegistryInv'
    BY <2>1 DEF MutexattrInit
  <2>2. ASSUME NEW a \in Attrs, MutexattrDestroy(a) PROVE RegistryInv'
    BY <2>2 DEF MutexattrDestroy
  <2>3. ASSUME NEW a \in Attrs, NEW kind \in MutexKinds, MutexattrSettype(a, kind)
        PROVE  RegistryInv'
    BY <2>3 DEF MutexattrSettype
  <2>4. ASSUME NEW m \in RegMutexes, NEW a \in Attrs \cup {NoAttr}, MutexInit(m, a)
        PROVE  RegistryInv'
    BY <2>4 DEF MutexInit
  <2>5. ASSUME NEW m \in RegMutexes, MutexDestroy(m) \/ Toggle(m) PROVE RegistryInv'
    BY <2>5 DEF MutexDestroy, Toggle, noted
  <2>8. ASSUME NEW m \in RegMutexes, NEW kind \in MutexKinds, StaticInitializer(m, kind)
        PROVE  RegistryInv'
    BY <2>8 DEF StaticInitializer, noted
  <2>6. CASE RegistryReinit
    BY <2>6 DEF RegistryReinit, real
  <2>7. CASE UNCHANGED registryVars
    BY <2>7 DEF registryVars, real, noted
  <2> QED
    BY <2>1, <2>2, <2>3, <2>4, <2>5, <2>6, <2>7, <2>8 DEF RegistryNext
<1> QED
  BY <1>1, <1>2, PTL DEF RegistrySpec, RegistryInv

(***************************************************************************)
(* The seccomp filter.                                                     *)
(***************************************************************************)
\* The instructions of the filter, one by one.
LEMMA FilterCode ==
  ASSUME NEW trap
  PROVE  /\ DOMAIN Filter(trap) = 1 .. 14
         /\ Filter(trap)[1] = Load("arch")
         /\ Filter(trap)[2] = Jump(AuditArch, 1, 0)
         /\ Filter(trap)[3] = Ret("kill")
         /\ Filter(trap)[4] = Load("nr")
         /\ Filter(trap)[5] = Jump(SysFutex, 3, 0)
         /\ Filter(trap)[6] = Jump(CloneNumber(trap), 2, 0)
         /\ Filter(trap)[7] = Jump(Clone3Number(trap), 1, 0)
         /\ Filter(trap)[8] = Ret("allow")
         /\ Filter(trap)[9] = Load("lo")
         /\ Filter(trap)[10] = Jump(SiteLo, 0, 2)
         /\ Filter(trap)[11] = Load("hi")
         /\ Filter(trap)[12] = Jump(SiteHi, 1, 0)
         /\ Filter(trap)[13] = Ret("trap")
         /\ Filter(trap)[14] = Ret("allow")
BY DEF Filter, CheckSite

\* What the interpreter knows about the call when it reaches an instruction.
FilterKnows ==
    /\ ip \in 1 .. 14
    /\ ip = 2 => acc = data.arch
    /\ ip = 3 => data.arch # AuditArch
    /\ ip >= 4 => data.arch = AuditArch
    /\ ip \in 5 .. 7 => acc = data.nr
    /\ ip \in 6 .. 8 => data.nr # SysFutex
    /\ ip \in 7 .. 8 => data.nr # CloneNumber(trapClone)
    /\ ip = 8 => data.nr # Clone3Number(trapClone)
    /\ ip >= 9 => data.nr \in Guarded
    /\ ip = 10 => acc = data.lo
    /\ ip \in 11 .. 12 => data.lo = SiteLo
    /\ ip = 12 => acc = data.hi
    /\ ip = 13 => ~AtSite
    /\ ip = 14 => AtSite

FilterInv ==
    /\ trapClone \in BOOLEAN
    /\ verdict = "none" => FilterKnows
    /\ verdict # "none" =>
         verdict = (IF data.arch # AuditArch THEN "kill"
                    ELSE IF data.nr \in Guarded /\ ~AtSite THEN "trap"
                    ELSE "allow")

\* One step of the interpreter on each kind of instruction.
LEMMA FilterStepEffect ==
  ASSUME FilterStep
  PROVE  /\ verdict = "none" /\ trapClone' = trapClone /\ data' = data
         /\ \A f : Filter(trapClone)[ip] = Load(f) =>
              acc' = data[f] /\ ip' = ip + 1 /\ verdict' = verdict
         /\ \A k, jt, jf : Filter(trapClone)[ip] = Jump(k, jt, jf) =>
              acc' = acc /\ verdict' = verdict /\ ip' = ip + 1 + (IF acc = k THEN jt ELSE jf)
         /\ \A k : Filter(trapClone)[ip] = Ret(k) =>
              acc' = acc /\ ip' = ip /\ verdict' = k
BY DEF FilterStep, Load, Jump, Ret

\* Every path through the filter ends in the verdict its call deserves, for every
\* architecture, call number and address.
THEOREM FilterVerdictHolds == FilterSpec => []FilterVerdict
<1>1. FilterInit => FilterInv
  BY DEF FilterInit, FilterInv, FilterKnows
<1>2. FilterInv /\ [FilterStep]_filterVars => FilterInv'
  <2> SUFFICES ASSUME FilterInv, [FilterStep]_filterVars PROVE FilterInv'
    OBVIOUS
  <2>1. CASE UNCHANGED filterVars
    BY <2>1 DEF filterVars, FilterInv, FilterKnows, Guarded, AtSite
  <2>2. CASE FilterStep
    <3>1. FilterKnows /\ verdict = "none" /\ trapClone' = trapClone /\ data' = data
      BY <2>2 DEF FilterStep, FilterInv
    <3>2. CASE ip = 1
      <4>1. acc' = data.arch /\ ip' = 2 /\ verdict' = "none"
        BY <2>2, <3>1, <3>2, FilterCode, FilterStepEffect
      <4> QED
        BY <3>1, <3>2, <4>1 DEF FilterInv, FilterKnows
    <3>3. CASE ip = 2
      <4>1. ip' = (IF acc = AuditArch THEN 4 ELSE 3) /\ verdict' = "none"
        BY <2>2, <3>1, <3>3, FilterCode, FilterStepEffect
      <4> QED
        BY <3>1, <3>3, <4>1 DEF FilterInv, FilterKnows
    <3>4. CASE ip = 3
      <4>1. verdict' = "kill"
        BY <2>2, <3>1, <3>4, FilterCode, FilterStepEffect
      <4> QED
        BY <3>1, <3>4, <4>1 DEF FilterInv, FilterKnows
    <3>5. CASE ip = 4
      <4>1. acc' = data.nr /\ ip' = 5 /\ verdict' = "none"
        BY <2>2, <3>1, <3>5, FilterCode, FilterStepEffect
      <4> QED
        BY <3>1, <3>5, <4>1 DEF FilterInv, FilterKnows
    <3>6. CASE ip = 5
      <4>1. acc' = acc /\ ip' = (IF acc = SysFutex THEN 9 ELSE 6) /\ verdict' = "none"
        BY <2>2, <3>1, <3>6, FilterCode, FilterStepEffect
      <4> QED
        BY <3>1, <3>6, <4>1 DEF FilterInv, FilterKnows, Guarded, AtSite, CloneNumber, Clone3Number
    <3>7. CASE ip = 6
      <4>1. acc' = acc /\ ip' = (IF acc = CloneNumber(trapClone) THEN 9 ELSE 7) /\ verdict' = "none"
        BY <2>2, <3>1, <3>7, FilterCode, FilterStepEffect
      <4> QED
        BY <3>1, <3>7, <4>1 DEF FilterInv, FilterKnows, Guarded, AtSite, CloneNumber, Clone3Number
    <3>8. CASE ip = 7
      <4>1. acc' = acc /\ ip' = (IF acc = Clone3Number(trapClone) THEN 9 ELSE 8) /\ verdict' = "none"
        BY <2>2, <3>1, <3>8, FilterCode, FilterStepEffect
      <4> QED
        BY <3>1, <3>8, <4>1 DEF FilterInv, FilterKnows, Guarded, AtSite, CloneNumber, Clone3Number
    <3>9. CASE ip = 8
      <4>1. verdict' = "allow"
        BY <2>2, <3>1, <3>9, FilterCode, FilterStepEffect
      <4> QED
        BY <3>1, <3>9, <4>1 DEF FilterInv, FilterKnows, Guarded, AtSite, CloneNumber, Clone3Number
    <3>10. CASE ip = 9
      <4>1. acc' = data.lo /\ ip' = 10 /\ verdict' = "none"
        BY <2>2, <3>1, <3>10, FilterCode, FilterStepEffect
      <4> QED
        BY <3>1, <3>10, <4>1 DEF FilterInv, FilterKnows, Guarded, AtSite
    <3>11. CASE ip = 10
      <4>1. ip' = (IF acc = SiteLo THEN 11 ELSE 13) /\ verdict' = "none"
        BY <2>2, <3>1, <3>11, FilterCode, FilterStepEffect
      <4> QED
        BY <3>1, <3>11, <4>1 DEF FilterInv, FilterKnows, Guarded, AtSite
    <3>12. CASE ip = 11
      <4>1. acc' = data.hi /\ ip' = 12 /\ verdict' = "none"
        BY <2>2, <3>1, <3>12, FilterCode, FilterStepEffect
      <4> QED
        BY <3>1, <3>12, <4>1 DEF FilterInv, FilterKnows, Guarded, AtSite
    <3>13. CASE ip = 12
      <4>1. ip' = (IF acc = SiteHi THEN 14 ELSE 13) /\ verdict' = "none"
        BY <2>2, <3>1, <3>13, FilterCode, FilterStepEffect
      <4> QED
        BY <3>1, <3>13, <4>1 DEF FilterInv, FilterKnows, Guarded, AtSite
    <3>14. CASE ip = 13
      <4>1. verdict' = "trap"
        BY <2>2, <3>1, <3>14, FilterCode, FilterStepEffect
      <4> QED
        BY <3>1, <3>14, <4>1 DEF FilterInv, FilterKnows, Guarded, AtSite
    <3>15. CASE ip = 14
      <4>1. verdict' = "allow"
        BY <2>2, <3>1, <3>15, FilterCode, FilterStepEffect
      <4> QED
        BY <3>1, <3>15, <4>1 DEF FilterInv, FilterKnows, Guarded, AtSite
    <3>16. ip \in 1 .. 14
      BY <3>1 DEF FilterKnows
    <3> QED
      BY <3>2, <3>3, <3>4, <3>5, <3>6, <3>7, <3>8, <3>9, <3>10, <3>11, <3>12, <3>13, <3>14,
         <3>15, <3>16
  <2> QED
    BY <2>1, <2>2
<1>3. FilterInv => FilterVerdict
  BY FilterCode DEF FilterInv, FilterKnows, FilterVerdict
<1> QED
  BY <1>1, <1>2, <1>3, PTL DEF FilterSpec

(***************************************************************************)
(* The recognition of TSAN's threads.                                      *)
(***************************************************************************)
\* While a criterion is in use, every call of pthread_create is counted.
RecognitionInv ==
    /\ creates \in Seq(Creators \X {"forwarded", "scheduled"})
    /\ ordinal \in Nat
    /\ Mode(tokens) # {} => Len(creates) <= ordinal
    /\ ProgramThreadsScheduled

\* With a recognised thread_start every thread of the program is scheduled, unless the
\* order of creation is the only criterion and it comes first, for any number of
\* calls and any list of criteria.
THEOREM ProgramThreadsScheduledHolds == CreateSpec => []ProgramThreadsScheduled
<1>1. CreateInit => RecognitionInv
  BY EmptySeq DEF CreateInit, RecognitionInv, ProgramThreadsScheduled
<1>2. RecognitionInv /\ [CreateNext]_createVars => RecognitionInv'
  <2> SUFFICES ASSUME RecognitionInv, [CreateNext]_createVars PROVE RecognitionInv'
    OBVIOUS
  <2>1. CASE UNCHANGED createVars
    BY <2>1 DEF createVars, RecognitionInv, ProgramThreadsScheduled
  <2>2. ASSUME NEW c \in Creators, PthreadCreate(c) PROVE RecognitionInv'
    <3> DEFINE mode == Mode(tokens)
               n == IF mode = {} THEN ordinal ELSE ordinal + 1
               matched == Matches(c, n)
               forwarded == IsBackground(mode, matched) \/ ~IsThreadStart(c)
               call == <<c, IF forwarded THEN "forwarded" ELSE "scheduled">>
    <3>1. /\ ordinal' = n /\ tokens' = tokens /\ recognised' = recognised
          /\ creates' = creates \/ creates' = Append(creates, call)
      BY <2>2 DEF PthreadCreate
    <3>3. c = "program" /\ c \in recognised /\ forwarded => mode = {"first"} /\ n = 1
      BY DEF IsThreadStart, IsBackground, Matches, Criteria
    <3> HIDE DEF mode, forwarded
    <3>4. n = 1 /\ mode # {} => creates = <<>>
      BY EmptySeq DEF RecognitionInv, mode
    <3>5. n \in Nat /\ ordinal <= n /\ (mode # {} => ordinal + 1 <= n)
      BY DEF RecognitionInv
    <3>6. CASE creates' = creates
      BY <3>1, <3>5, <3>6 DEF RecognitionInv, ProgramThreadsScheduled, mode
    <3>7. CASE creates' = Append(creates, call)
      <4>1. /\ creates \in Seq(Creators \X {"forwarded", "scheduled"})
            /\ call \in Creators \X {"forwarded", "scheduled"}
            /\ Len(creates) \in Nat
        BY LenProperties DEF RecognitionInv
      <4>2. /\ creates' \in Seq(Creators \X {"forwarded", "scheduled"})
            /\ Len(creates') = Len(creates) + 1
            /\ creates'[Len(creates) + 1] = call
            /\ \A k \in 1 .. Len(creates) : creates'[k] = creates[k]
        BY <3>7, <4>1, AppendProperties
      <4>3. /\ DOMAIN creates = 1 .. Len(creates)
            /\ DOMAIN creates' = 1 .. Len(creates) + 1
        BY <4>1, <4>2, LenProperties
      <4>4. call[1] = c /\ (call[2] = "scheduled" <=> ~forwarded)
        OBVIOUS
      <4> HIDE DEF call, n
      <4>6. ASSUME "program" \in recognised,
                   mode # {"first"} \/ (creates' # <<>> /\ creates'[1][1] # "program"),
                   NEW k \in DOMAIN creates', creates'[k][1] = "program"
            PROVE  creates'[k][2] = "scheduled"
        <5>1. CASE k = Len(creates) + 1
          <6>1. c = "program"
            BY <4>2, <4>4, <4>6, <5>1
          <6>2. ~forwarded
            <7> SUFFICES ASSUME forwarded PROVE FALSE
              OBVIOUS
            <7>1. mode = {"first"} /\ creates = <<>>
              BY <3>3, <3>4, <4>6, <6>1
            <7>2. creates'[1] = call
              BY <4>2, <7>1
            <7> QED
              BY <4>4, <4>6, <6>1, <7>1, <7>2
          <6> QED
            BY <4>2, <4>4, <5>1, <6>2
        <5>2. CASE k # Len(creates) + 1
          <6>1. k \in DOMAIN creates /\ creates'[k] = creates[k]
            BY <4>1, <4>2, <4>3, <5>2
          <6>2. mode # {"first"} \/ (creates # <<>> /\ creates[1][1] # "program")
            <7>1. 1 \in 1 .. Len(creates) /\ creates # <<>>
              BY <4>1, <4>3, <6>1, EmptySeq
            <7> QED
              BY <4>2, <4>6, <7>1
          <6> QED
            BY <4>6, <6>1, <6>2 DEF RecognitionInv, ProgramThreadsScheduled, mode
        <5> QED
          BY <5>1, <5>2
      <4>7. mode # {} => Len(creates') <= n
        BY <3>5, <4>1, <4>2 DEF RecognitionInv, mode
      <4>8. /\ Mode(tokens)' = mode /\ recognised' = recognised
            /\ ordinal' = n
        BY <3>1 DEF mode
      <4>9. ProgramThreadsScheduled'
        BY <4>6, <4>8 DEF ProgramThreadsScheduled
      <4> QED
        BY <3>5, <4>2, <4>7, <4>8, <4>9 DEF RecognitionInv
    <3> QED
      BY <3>1, <3>6, <3>7
  <2> QED
    BY <2>1, <2>2 DEF CreateNext
<1> QED
  BY <1>1, <1>2, PTL DEF CreateSpec, RecognitionInv

(***************************************************************************)
(* Sleeps.                                                                 *)
(***************************************************************************)
\* The division of the rounding to milliseconds.
LEMMA DivBounds ==
  ASSUME NEW a \in Nat
  PROVE  /\ a \div 1000 \in Nat
         /\ 1000 * (a \div 1000) <= a /\ a < 1000 * (a \div 1000) + 1000
         /\ a \div 1000000 \in Nat
         /\ 1000000 * (a \div 1000000) <= a /\ a < 1000000 * (a \div 1000000) + 1000000
BY SMT

\* Rounding up to milliseconds, up to the saturation far beyond the clamp.
LEMMA DivUpBounds ==
  ASSUME NEW a \in 0 .. MaxWord
  PROVE  /\ DivUp(a, 1000) \in 0 .. MaxWord
         /\ 1000 * DivUp(a, 1000) < a + 1000
         /\ DivUp(a, 1000) >= 1000 \/ a <= 1000 * DivUp(a, 1000)
         /\ DivUp(a, 1000000) \in 0 .. MaxWord
         /\ 1000000 * DivUp(a, 1000000) < a + 1000000
         /\ DivUp(a, 1000000) >= 1000 \/ a <= 1000000 * DivUp(a, 1000000)
<1> USE SleepAssumption
<1> DEFINE p == SaturatingAdd(a, 999)
           q == SaturatingAdd(a, 999999)
<1>1. /\ p \in 0 .. MaxWord /\ p <= a + 999 /\ (p >= 1000000000 \/ a + 999 <= p)
      /\ q \in 0 .. MaxWord /\ q <= a + 999999 /\ (q >= 1000000000 \/ a + 999999 <= q)
  BY SMT DEF SaturatingAdd
<1>2. DivUp(a, 1000) = p \div 1000 /\ DivUp(a, 1000000) = q \div 1000000
  BY SMT DEF DivUp
<1> HIDE DEF p, q
<1>3. /\ p \div 1000 \in Nat
      /\ 1000 * (p \div 1000) <= p /\ p < 1000 * (p \div 1000) + 1000
      /\ q \div 1000000 \in Nat
      /\ 1000000 * (q \div 1000000) <= q /\ q < 1000000 * (q \div 1000000) + 1000000
  BY <1>1, DivBounds, SMT
<1> QED
  BY <1>1, <1>2, <1>3, SMT

\* Yields for a number n of milliseconds.
LEMMA VirtualSleepValue ==
  ASSUME NEW n \in 0 .. MaxWord
  PROVE  VirtualSleepYields(n) = IF n = 0 THEN 1 ELSE IF n >= 1000 THEN 100000 ELSE 100 * n
<1>1. MaxWord \div 100 >= 1000 /\ MaxWord \in Nat
  BY SleepAssumption, SMT
<1> QED
  BY <1>1, SleepAssumption, SMT DEF VirtualSleepYields, SaturatingMul, Larger, Smaller

\* The milliseconds of a call, as the code rounds them.
Millis(c) ==
    CASE c.fn = "null"   -> 1
      [] c.fn = "nsleep" -> TimespecYields(c.sec, c.nsec)
      [] c.fn = "usleep" -> DivUp(c.usec, 1000)
      [] c.fn = "sleep"  -> SaturatingMul(c.secs, 1000)

\* The nanoseconds it asked for.
Nanos(c) == 1000000000 * Duration(c)[1] + Duration(c)[2]

\* Millis is Nanos in milliseconds, rounded up, but that it may be 1 for 0 and any
\* value beyond the clamp.
Rounds(c) ==
    /\ Nanos(c) \in Nat
    /\ Duration(c)[1] \in Nat /\ Duration(c)[2] \in Nat /\ Duration(c)[2] <= 999999999
    /\ Millis(c) \in 0 .. MaxWord
    /\ Millis(c) <= 1 \/ 1000000 * (Millis(c) - 1) < Nanos(c)
    /\ Millis(c) >= 1000 \/ Nanos(c) <= 1000000 * Millis(c)

\* Every one of the four functions rounds alike.
LEMMA EveryCallRounds ==
  ASSUME NEW c \in SleepCalls
  PROVE  Rounds(c)
<1>0. MaxWord \in Nat /\ MaxWord >= 1000000000
  BY SleepAssumption, SMT
<1>1. CASE c.fn = "null"
  <2>1. Millis(c) = 1 /\ Duration(c) = <<0, 0>>
    BY <1>1, SMT DEF Millis, Duration
  <2> QED
    BY <1>0, <2>1, SMT DEF Rounds, Nanos
<1>2. CASE c.fn = "usleep"
  <2>1. PICK u \in 0 .. MaxWord : u = c.usec
    BY <1>2, SleepAssumption, SMT
  <2>2. Millis(c) = DivUp(u, 1000) /\ Duration(c) = <<u \div 1000000, (u % 1000000) * 1000>>
    BY <1>2, <2>1, SMT DEF Millis, Duration
  <2>3. PICK d \in Nat, e \in Nat : e <= 999999 /\ d = u \div 1000000 /\ e = u % 1000000 /\ u = 1000000 * d + e
    BY <1>0, SMT
  <2>4. Duration(c)[1] = d /\ Duration(c)[2] = 1000 * e
    BY <2>2, <2>3, SMT
  <2>5. Nanos(c) = 1000 * u
    BY <2>3, <2>4, SMT DEF Nanos
  <2> QED
    BY <1>0, <2>2, <2>3, <2>4, <2>5, DivUpBounds, SMT DEF Rounds
<1>3. CASE c.fn = "sleep"
  <2>1. PICK u \in 0 .. MaxWord : u = c.secs
    BY <1>3, SleepAssumption, SMT
  <2>2. Millis(c) = SaturatingMul(u, 1000) /\ Duration(c) = <<u, 0>>
    BY <1>3, <2>1, SMT DEF Millis, Duration
  <2>3. /\ SaturatingMul(u, 1000) \in 0 .. MaxWord
        /\ SaturatingMul(u, 1000) <= 1000 * u
        /\ SaturatingMul(u, 1000) >= 1000 \/ SaturatingMul(u, 1000) = 1000 * u
    BY <1>0, SMT DEF SaturatingMul
  <2>4. Duration(c)[1] = u /\ Duration(c)[2] = 0 /\ Nanos(c) = 1000000000 * u
    BY <2>2, SMT DEF Nanos
  <2> QED
    BY <1>0, <2>2, <2>3, <2>4, SMT DEF Rounds
<1>4. CASE c.fn = "nsleep"
  <2>1. PICK u \in 0 .. MaxWord, v \in 0 .. MaxWord : u = Larger(c.sec, 0) /\ v = Larger(c.nsec, 0)
    BY <1>0, <1>4, SleepAssumption, SMT DEF Larger
  <2>2. /\ Millis(c) = Larger(SaturatingAdd(SaturatingMul(u, 1000), DivUp(v, 1000000)), 1)
        /\ Duration(c) = <<u + v \div 1000000000, v % 1000000000>>
    BY <1>4, <2>1, SMT DEF Millis, Duration, TimespecYields
  <2>3. PICK d \in Nat, e \in Nat :
          e <= 999999999 /\ d = v \div 1000000000 /\ e = v % 1000000000 /\ v = 1000000000 * d + e
    BY <1>0, SMT
  <2>8. Duration(c)[1] = u + d /\ Duration(c)[2] = e
    BY <2>2, <2>3, SMT
  <2>9. Nanos(c) = 1000000000 * u + v
    BY <2>3, <2>8, SMT DEF Nanos
  <2>4. PICK p \in 0 .. MaxWord : /\ p = SaturatingMul(u, 1000)
                                  /\ p <= 1000 * u
                                  /\ p = MaxWord \/ p = 1000 * u
    BY <1>0, SMT DEF SaturatingMul
  <2>5. PICK q \in 0 .. MaxWord : /\ q = DivUp(v, 1000000)
                                  /\ 1000000 * q < v + 1000000
                                  /\ q >= 1000 \/ v <= 1000000 * q
    BY DivUpBounds, SMT
  <2>6. PICK n \in 0 .. MaxWord : /\ n = SaturatingAdd(p, q)
                                  /\ n <= p + q
                                  /\ n = MaxWord \/ n = p + q
    BY <1>0, SMT DEF SaturatingAdd
  <2>7. Millis(c) = IF n > 1 THEN n ELSE 1
    BY <2>2, <2>4, <2>5, <2>6, SMT DEF Larger
  <2> QED
    BY <1>0, <2>3, <2>4, <2>5, <2>6, <2>7, <2>8, <2>9, SMT DEF Rounds
<1> QED
  BY <1>1, <1>2, <1>3, <1>4, SleepAssumption, SMT

\* Of two sleeps, through whichever of the functions, the longer one never yields
\* less, and each yields between once and 100000 times, for all arguments and word
\* sizes of 30 bits and more.
THEOREM LongerSleepsYieldMoreHolds == SleepSpec => []LongerSleepsYieldMore
<1> DEFINE SleepInv == asked \in SleepCalls /\ yields \in {0, Yields(asked)}
<1>1. SleepInit => SleepInv
  BY SMT DEF SleepInit
<1>2. SleepInv /\ [Sleep]_sleepVars => SleepInv'
  BY SMT DEF Sleep, sleepVars
<1>3. SleepInv => LongerSleepsYieldMore
  <2> SUFFICES ASSUME SleepInv PROVE LongerSleepsYieldMore
    OBVIOUS
  <2>1. \A c \in SleepCalls : Yields(c) = VirtualSleepYields(Millis(c))
    BY SMT DEF Yields, Millis
  <2>2. Yields(asked) = VirtualSleepYields(Millis(asked)) /\ Rounds(asked)
    BY <2>1, EveryCallRounds, SMT
  <2>3. 1 <= Yields(asked) /\ Yields(asked) <= 100000
    BY <2>2, VirtualSleepValue, SMT DEF Rounds
  <2>4. ASSUME NEW c \in SleepCalls, LongerThan(Duration(asked), Duration(c))
        PROVE  Yields(asked) >= Yields(c)
    <3>1. Rounds(c) /\ Yields(c) = VirtualSleepYields(Millis(c))
      BY <2>1, EveryCallRounds, SMT
    <3>2. Nanos(asked) > Nanos(c)
      BY <2>2, <2>4, <3>1, SMT DEF LongerThan, Rounds, Nanos
    <3> DEFINE n == Millis(asked)
               k == Millis(c)
    <3>3. n \in Nat /\ k \in Nat /\ (n >= k \/ n >= 1000 \/ k <= 1)
      BY <2>2, <3>1, <3>2, SleepAssumption, SMT DEF Rounds
    <3>4. n > 0
      BY <2>2, <3>2, <3>1, SleepAssumption, SMT DEF Rounds
    <3> HIDE DEF n, k
    <3>5. /\ Yields(asked) = IF n = 0 THEN 1 ELSE IF n >= 1000 THEN 100000 ELSE 100 * n
          /\ Yields(c) = IF k = 0 THEN 1 ELSE IF k >= 1000 THEN 100000 ELSE 100 * k
      BY <2>2, <3>1, VirtualSleepValue, SMT DEF Rounds, n, k
    <3> QED
      BY <3>3, <3>4, <3>5, SMT
  <2> QED
    BY <2>3, <2>4, SMT DEF LongerSleepsYieldMore
<1> QED
  BY <1>1, <1>2, <1>3, PTL DEF SleepSpec

(***************************************************************************)
(* The LLVM pass.                                                          *)
(***************************************************************************)
\* A set of numbers that contains 0 and the successor of each below n contains all.
LEMMA Climb ==
  ASSUME NEW n \in Nat, NEW T, 0 \in T, \A k \in 0 .. n - 1 : k \in T => k + 1 \in T
  PROVE  0 .. n \subseteq T
<1> DEFINE Open == {k \in 0 .. n : k \notin T}
<1> SUFFICES ASSUME Open # {} PROVE FALSE
  OBVIOUS
<1>1. Open \in SUBSET Nat
  OBVIOUS
<1>2. PICK k \in Open : \A j \in Open : k <= j
  <2> HIDE DEF Open
  <2> QED
    BY <1>1, LeastElement
<1>3. k \in 1 .. n /\ k - 1 \in 0 .. n - 1
  BY <1>2
<1>4. k - 1 \in T
  BY <1>2, <1>3
<1>5. (k - 1) + 1 \in T
  BY <1>3, <1>4
<1> QED
  BY <1>2, <1>3, <1>5

\* f is defined by recursion on 0 .. n.
Iterates(f, n, S, z, G) ==
    f \in [0 .. n -> S] /\ f[0] = z /\ \A k \in 1 .. n : f[k] = G[f[k - 1]]

\* A function on 0 .. n may be defined by recursion.
LEMMA RecursionExists ==
  ASSUME NEW n \in Nat, NEW S, NEW z \in S, NEW G \in [S -> S]
  PROVE  \E f : Iterates(f, n, S, z, G)
<1> DEFINE Upto(d, f) == f[0] = z /\ \A k \in 1 .. d : f[k] = G[f[k - 1]]
           T == {d \in 0 .. n : \E f \in [0 .. n -> S] : Upto(d, f)}
<1>1. 0 \in T
  <2>1. [k \in 0 .. n |-> z] \in [0 .. n -> S] /\ Upto(0, [k \in 0 .. n |-> z])
    OBVIOUS
  <2> HIDE DEF Upto
  <2> QED
    BY <2>1
<1>2. ASSUME NEW d \in 0 .. n - 1, d \in T PROVE d + 1 \in T
  <2>1. PICK f \in [0 .. n -> S] : Upto(d, f)
    <3> HIDE DEF Upto
    <3> QED
      BY <1>2
  <2> DEFINE g == [f EXCEPT ![d + 1] = G[f[d]]]
  <2>2. g \in [0 .. n -> S]
    OBVIOUS
  <2>3. g[0] = z
    BY <2>1
  <2>4. ASSUME NEW k \in 1 .. d + 1 PROVE g[k] = G[g[k - 1]]
    <3>1. k \in 0 .. n /\ k - 1 \in 0 .. n /\ k - 1 # d + 1 /\ (k # d + 1 => k \in 1 .. d)
      OBVIOUS
    <3>2. g[k - 1] = f[k - 1] /\ g[k] = IF k = d + 1 THEN G[f[d]] ELSE f[k]
      BY <3>1
    <3> QED
      BY <2>1, <3>1, <3>2
  <2> HIDE DEF g
  <2>5. Upto(d + 1, g)
    BY <2>3, <2>4
  <2> HIDE DEF Upto
  <2> QED
    BY <2>2, <2>5
<1>3. n \in T
  <2> HIDE DEF T
  <2> QED
    BY <1>1, <1>2, Climb
<1> QED
  BY <1>3 DEF Iterates

\* What atomic_info finds out about an instruction.
LEMMA AtomicInfoIs ==
  ASSUME NEW i, IsInstruction(i)
  PROVE  /\ ~Announced(i) => AtomicInfo(i) = <<>>
         /\ Announced(i) =>
              AtomicInfo(i) = <<[ptr |-> i.addr, size |-> TypeSize(i.ty), access |-> AccessKind[i.op]]>>
<1>1. CASE IsCall(i)
  BY <1>1 DEF AtomicInfo, Announced
<1>2. CASE ~IsCall(i)
  <2>1. /\ i.op \in {"load", "store", "rmw", "cmpxchg"} /\ i.addr # Absent
        /\ i.ordered \in BOOLEAN /\ IsType(i.ty)
    BY <1>2 DEF IsInstruction, AccessKind
  <2>2. TypeSize(i.ty) = NoSize <=> i.ty = Opaque
    <3>1. CASE i.ty = Ptr
      <4>1. Ptr # Opaque
        <5>1. Ptr[1] = "ptr" /\ Opaque[1] = "opaque"
          BY DEF Ptr, Opaque
        <5> QED
          BY <5>1
      <4> QED
        BY <3>1, <4>1 DEF TypeSize, NoSize
    <3>2. CASE i.ty = Opaque /\ i.ty # Ptr
      BY <3>2 DEF TypeSize, NoSize
    <3>3. CASE i.ty # Ptr /\ i.ty # Opaque
      <4>1. i.ty[2] \in Nat \ {0}
        BY <2>1, <3>3 DEF IsType
      <4>2. (i.ty[2] + 7) \div 8 # 0
        BY <4>1
      <4> QED
        BY <3>3, <4>2 DEF TypeSize, NoSize
    <3> QED
      BY <3>1, <3>2, <3>3
  <2>3. AccessShape(i)[1] = AccessKind[i.op] /\ AccessShape(i)[3] = i.ty
    BY <2>1 DEF AccessShape, AccessKind, Operands, OpVal, OpAddr
  <2>4. PointerOperand(i, AccessShape(i)[2]) = i.addr
    BY <2>1 DEF AccessShape, PointerOperand, Operands, OpVal, OpAddr
  <2> QED
    BY <1>2, <2>1, <2>2, <2>3, <2>4 DEF AtomicInfo, Announced
<1> QED
  BY <1>1, <1>2

\* Counting announced accesses.
LEMMA CountFacts ==
  ASSUME NEW c
  PROVE  /\ Count(c, 0) = 0
         /\ \A j \in Nat : Count(c, j) \in Nat
         /\ \A j \in Nat : Count(c, j + 1) = Count(c, j) + IF Announced(c[j + 1]) THEN 1 ELSE 0
         /\ \A i, j \in Nat : i <= j => Count(c, i) <= Count(c, j)
         /\ \A i, j \in Nat : i <= j /\ (\A k \in i + 1 .. j : ~Announced(c[k]))
              => Count(c, j) = Count(c, i)
<1> DEFINE At_(j) == {k \in 1 .. j : Announced(c[k])}
<1>1. At_(0) = {}
  OBVIOUS
<1>2. ASSUME NEW j \in Nat PROVE IsFiniteSet(At_(j)) /\ Cardinality(At_(j)) \in Nat
  <2>1. IsFiniteSet(1 .. j)
    BY FS_Interval
  <2>2. At_(j) \subseteq 1 .. j
    OBVIOUS
  <2> HIDE DEF At_
  <2> QED
    BY <2>1, <2>2, FS_Subset, FS_CardinalityType
<1>3. ASSUME NEW j \in Nat
      PROVE  Cardinality(At_(j + 1)) = Cardinality(At_(j)) + IF Announced(c[j + 1]) THEN 1 ELSE 0
  <2>1. CASE Announced(c[j + 1])
    <3>1. At_(j + 1) = At_(j) \cup {j + 1} /\ j + 1 \notin At_(j)
      BY <2>1
    <3> HIDE DEF At_
    <3> QED
      BY <1>2, <2>1, <3>1, FS_AddElement
  <2>2. CASE ~Announced(c[j + 1])
    <3>1. At_(j + 1) = At_(j)
      BY <2>2
    <3> HIDE DEF At_
    <3> QED
      BY <1>2, <2>2, <3>1
  <2> QED
    BY <2>1, <2>2
<1>4. ASSUME NEW i \in Nat, NEW j \in Nat, i <= j PROVE Cardinality(At_(i)) <= Cardinality(At_(j))
  <2>1. At_(i) \subseteq At_(j)
    BY <1>4
  <2> HIDE DEF At_
  <2> QED
    BY <1>2, <2>1, FS_Subset
<1>5. ASSUME NEW i \in Nat, NEW j \in Nat, i <= j, \A k \in i + 1 .. j : ~Announced(c[k])
      PROVE  At_(i) = At_(j)
  BY <1>5
<1>6. Cardinality(At_(0)) = 0
  BY <1>1, FS_EmptySet
<1>7. \A j : Count(c, j) = Cardinality(At_(j))
  BY DEF Count
<1> HIDE DEF At_
<1>8. \A j \in Nat : Count(c, j) \in Nat
  BY <1>2, <1>7
<1>9. \A j \in Nat : Count(c, j + 1) = Count(c, j) + IF Announced(c[j + 1]) THEN 1 ELSE 0
  BY <1>3, <1>7
<1>10. \A i, j \in Nat : i <= j => Count(c, i) <= Count(c, j)
  BY <1>4, <1>7
<1>11. \A i, j \in Nat : i <= j /\ (\A k \in i + 1 .. j : ~Announced(c[k]))
         => Count(c, j) = Count(c, i)
  BY <1>5, <1>7
<1> QED
  BY <1>6, <1>7, <1>8, <1>9, <1>10, <1>11

\* Inserting into a list shifts the rest by one.
LEMMA InsertAtFacts ==
  ASSUME NEW S, NEW s \in Seq(S), NEW e \in S, NEW n \in 1 .. Len(s),
         NEW t, t = InsertAt(s, n, e)
  PROVE  /\ t \in Seq(S) /\ Len(t) = Len(s) + 1 /\ t[n] = e
         /\ \A q \in 1 .. n - 1 : t[q] = s[q]
         /\ \A q \in n + 1 .. Len(s) + 1 : t[q] = s[q - 1]
<1> DEFINE a == SubSeq(s, 1, n - 1)
           b == SubSeq(s, n, Len(s))
<1>1. a \in Seq(S) /\ Len(a) = n - 1 /\ \A q \in 1 .. n - 1 : a[q] = s[q]
  OBVIOUS
<1>2. b \in Seq(S) /\ Len(b) = Len(s) - n + 1 /\ \A q \in 1 .. Len(s) - n + 1 : b[q] = s[n + q - 1]
  OBVIOUS
<1>3. <<e>> \in Seq(S) /\ Len(<<e>>) = 1 /\ <<e>>[1] = e
  OBVIOUS
<1> HIDE DEF a, b
<1> DEFINE d == a \o <<e>>
<1>4. d \in Seq(S) /\ Len(d) = n /\ d[n] = e /\ \A q \in 1 .. n - 1 : d[q] = s[q]
  BY <1>1, <1>3
<1> HIDE DEF d
<1>5. /\ d \o b \in Seq(S) /\ Len(d \o b) = Len(s) + 1
      /\ \A q \in 1 .. Len(s) + 1 : (d \o b)[q] = IF q <= n THEN d[q] ELSE b[q - n]
  <2> DEFINE m == Len(b)
  <2>1. m \in Nat /\ Len(d) = n /\ n + m = Len(s) + 1
    BY <1>2, <1>4
  <2>2. /\ d \o b \in Seq(S) /\ Len(d \o b) = Len(d) + Len(b)
        /\ \A q \in 1 .. Len(d) + Len(b) : (d \o b)[q] = IF q <= Len(d) THEN d[q] ELSE b[q - Len(d)]
    <3>1. d \in Seq(S) /\ b \in Seq(S)
      BY <1>2, <1>4
    <3> QED
      BY <3>1, ConcatProperties
  <2> QED
    BY <2>1, <2>2
<1>6. \A q \in 1 .. n : (d \o b)[q] = d[q]
  BY <1>5
<1>7. ASSUME NEW q \in n + 1 .. Len(s) + 1 PROVE (d \o b)[q] = s[q - 1]
  <2>1. q \in 1 .. Len(s) + 1 /\ ~(q <= n) /\ q - n \in 1 .. Len(s) - n + 1
        /\ n + (q - n) - 1 = q - 1
    OBVIOUS
  <2>2. (d \o b)[q] = b[q - n]
    BY <1>5, <2>1
  <2> QED
    BY <1>2, <2>1, <2>2
<1>8. InsertAt(s, n, e) = d \o b
  BY DEF InsertAt, a, b, d
<1>9. \A q \in 1 .. n - 1 : (d \o b)[q] = s[q]
  BY <1>4, <1>6
<1>10. (d \o b)[n] = e
  BY <1>4, <1>6
<1> QED
  BY <1>5, <1>7, <1>8, <1>9, <1>10

\* What a turn of the loop of instrument_atomics does at instruction i.
Visited(S, s, i) ==
    /\ Visit(s) \in [code : Seq(S), at : Nat]
    /\ ~Announced(i) => Visit(s).code = s.code /\ Visit(s).at = s.at + 1
    /\ Announced(i) =>
         /\ Visit(s).at = s.at + 2 /\ Len(Visit(s).code) = Len(s.code) + 1
         /\ Visit(s).code[s.at] = Announcement(i)
         /\ \A q \in 1 .. s.at - 1 : Visit(s).code[q] = s.code[q]
         /\ \A q \in s.at + 1 .. Len(s.code) + 1 : Visit(s).code[q] = s.code[q - 1]

\* One turn of the loop of instrument_atomics.
LEMMA VisitFacts ==
  ASSUME NEW S, NEW s \in [code : Seq(S), at : Nat], s.at \in 1 .. Len(s.code),
         NEW i, i = s.code[s.at], IsInstruction(i), Announced(i) => Announcement(i) \in S
  PROVE  Visited(S, s, i)
<1>1. CASE ~Announced(i)
  <2>1. AtomicInfo(i) = <<>>
    BY <1>1, AtomicInfoIs
  <2>2. Visit(s) = [s EXCEPT !.at = @ + 1]
    BY <2>1 DEF Visit
  <2> QED
    BY <1>1, <2>2 DEF Visited
<1>2. CASE Announced(i)
  <2> DEFINE info == [ptr |-> i.addr, size |-> TypeSize(i.ty), access |-> AccessKind[i.op]]
             t == InsertAt(s.code, s.at, Announcement(i))
  <2>1. AtomicInfo(i) = <<info>>
    BY <1>2, AtomicInfoIs
  <2> HIDE DEF info
  <2>2. AtomicInfo(i) # <<>> /\ AtomicInfo(i)[1] = info
    BY <2>1
  <2>3. HookCall(info) = Announcement(i)
    BY DEF Announcement, info
  <2>4. Visit(s) = [code |-> t, at |-> s.at + 2]
    BY <2>2, <2>3 DEF Visit
  <2>5. s.code \in Seq(S) /\ Announcement(i) \in S
    BY <1>2
  <2>6. /\ t \in Seq(S) /\ Len(t) = Len(s.code) + 1 /\ t[s.at] = Announcement(i)
        /\ \A q \in 1 .. s.at - 1 : t[q] = s.code[q]
        /\ \A q \in s.at + 1 .. Len(s.code) + 1 : t[q] = s.code[q - 1]
    <3> HIDE DEF t
    <3>2. t = InsertAt(s.code, s.at, Announcement(i))
      BY DEF t
    <3> QED
      BY <2>5, <3>2, InsertAtFacts
  <2> HIDE DEF t
  <2>7. Visit(s).code = t /\ Visit(s).at = s.at + 2 /\ Visit(s) \in [code : Seq(S), at : Nat]
    BY <2>4, <2>6
  <2> QED
    BY <1>2, <2>6, <2>7 DEF Visited
<1> QED
  BY <1>1, <1>2

IsCode(c) == c \in Seq(Range(c)) /\ \A i \in Range(c) : IsInstruction(i)

\* A list of instructions.
LEMMA CodeFacts ==
  ASSUME NEW c, IsCode(c)
  PROVE  /\ Len(c) \in Nat /\ DOMAIN c = 1 .. Len(c)
         /\ \A i \in 1 .. Len(c) : c[i] \in Range(c) /\ IsInstruction(c[i])
<1>1. Len(c) \in Nat /\ DOMAIN c = 1 .. Len(c)
  BY DEF IsCode
<1> QED
  BY <1>1 DEF IsCode, Range

\* After k turns the first k instructions are in place, with their announcements.
Turned(c, k, s) ==
    /\ s.at = k + Count(c, k) + 1
    /\ Len(s.code) = Len(c) + Count(c, k)
    /\ \A i \in k + 1 .. Len(c) : s.code[i + Count(c, k)] = c[i]
    /\ \A i \in 1 .. k :
        /\ s.code[i + Count(c, i)] = c[i]
        /\ Announced(c[i]) => s.code[i + Count(c, i) - 1] = Announcement(c[i])

\* A turn of the loop.
LEMMA TurnedStep ==
  ASSUME NEW c, IsCode(c), NEW S, \A i \in 1 .. Len(c) : Announcement(c[i]) \in S,
         NEW k \in 0 .. Len(c) - 1, NEW s \in [code : Seq(S), at : Nat], Turned(c, k, s)
  PROVE  Visit(s) \in [code : Seq(S), at : Nat] /\ Turned(c, k + 1, Visit(s))
<1> DEFINE n == Len(c)
           C(i) == Count(c, i)
           m == C(k)
           x == c[k + 1]
           a == s.at
           u == s.code
           l == Len(u)
           v == Visit(s).code
           b == Visit(s).at
           w == Len(v)
           p == C(k + 1)
<1>1. n \in Nat /\ k \in Nat /\ k + 1 \in 1 .. n /\ IsInstruction(x) /\ Announcement(x) \in S
  BY CodeFacts
<1>2. /\ m \in Nat /\ (Announced(x) => p = m + 1) /\ (~Announced(x) => p = m)
      /\ \A i \in 1 .. k : C(i) \in Nat /\ C(i) <= m /\ (Announced(c[i]) => C(i) > 0)
  <2>1. m \in Nat /\ p = m + IF Announced(x) THEN 1 ELSE 0
    BY <1>1, CountFacts
  <2>2. ASSUME NEW i \in 1 .. k PROVE C(i) \in Nat /\ C(i) <= m /\ (Announced(c[i]) => C(i) > 0)
    <3>1. i \in Nat /\ i <= k /\ i - 1 \in Nat /\ (i - 1) + 1 = i
      BY <1>1
    <3>2. C(i) \in Nat /\ C(i) <= m
      BY <1>1, <3>1, CountFacts
    <3>3. C(i - 1) \in Nat /\ C((i - 1) + 1) = C(i - 1) + IF Announced(c[(i - 1) + 1]) THEN 1 ELSE 0
      BY <3>1, CountFacts
    <3> HIDE DEF C
    <3> QED
      BY <3>1, <3>2, <3>3
  <2> HIDE DEF C, m, p
  <2> QED
    BY <2>1, <2>2
<1>3. /\ a = k + m + 1 /\ l = n + m
      /\ \A i \in k + 1 .. n : u[i + m] = c[i]
      /\ \A i \in 1 .. k : u[i + C(i)] = c[i] /\ (Announced(c[i]) => u[i + C(i) - 1] = Announcement(c[i]))
  BY DEF Turned
<1>4. a \in 1 .. l /\ u[a] = x
  <2> HIDE DEF n, C, m, a, u, l
  <2>1. k + 1 \in k + 1 .. n /\ (k + 1) + m = a
    BY <1>1, <1>2, <1>3
  <2>2. u[(k + 1) + m] = x
    BY <1>3, <2>1
  <2> QED
    BY <1>1, <1>2, <1>3, <2>1, <2>2
<1>5. /\ Visit(s) \in [code : Seq(S), at : Nat]
      /\ ~Announced(x) => v = u /\ b = a + 1
      /\ Announced(x) =>
           /\ b = a + 2 /\ w = l + 1 /\ v[a] = Announcement(x)
           /\ \A q \in 1 .. a - 1 : v[q] = u[q]
           /\ \A q \in a + 1 .. l + 1 : v[q] = u[q - 1]
  <2>1. s.at \in 1 .. Len(s.code) /\ x = s.code[s.at] /\ IsInstruction(x)
        /\ (Announced(x) => Announcement(x) \in S)
    BY <1>1, <1>4
  <2> HIDE DEF x
  <2>2. Visited(S, s, x)
    BY <2>1, VisitFacts
  <2> QED
    BY <2>2 DEF Visited
<1>6. /\ b = (k + 1) + p + 1 /\ w = n + p
      /\ \A i \in (k + 1) + 1 .. n : v[i + p] = c[i]
      /\ \A i \in 1 .. k + 1 : v[i + C(i)] = c[i] /\ (Announced(c[i]) => v[i + C(i) - 1] = Announcement(c[i]))
  <2>0. (v = u => w = l) /\ x = c[k + 1] /\ p = C(k + 1)
    OBVIOUS
  <2> HIDE DEF n, C, m, a, u, l, v, b, x, w, p
  <2>3. n \in Nat /\ k \in Nat /\ m \in Nat /\ a = k + m + 1 /\ l = n + m /\ k + 1 <= n
    BY <1>1, <1>2, <1>3
  <2>1. CASE ~Announced(x)
    <3>1. p = m /\ v = u /\ b = a + 1 /\ w = l
      BY <1>2, <1>5, <2>0, <2>1
    <3>2. b = (k + 1) + p + 1 /\ w = n + p
      BY <2>3, <3>1
    <3>3. \A i \in (k + 1) + 1 .. n : v[i + p] = c[i]
      <4>1. \A i \in (k + 1) + 1 .. n : i \in k + 1 .. n
        BY <1>1
      <4> QED
        BY <1>3, <3>1, <4>1
    <3>4. ASSUME NEW i \in 1 .. k + 1
          PROVE  v[i + C(i)] = c[i] /\ (Announced(c[i]) => v[i + C(i) - 1] = Announcement(c[i]))
      <4>1. CASE i = k + 1
        <5>1. k + 1 \in k + 1 .. n
          BY <1>1
        <5> QED
          BY <1>3, <2>0, <2>1, <3>1, <4>1, <5>1
      <4>2. CASE i # k + 1
        <5>1. i \in 1 .. k
          BY <1>1, <4>2
        <5> QED
          BY <1>3, <3>1, <5>1
      <4> QED
        BY <4>1, <4>2
    <3> QED
      BY <3>2, <3>3, <3>4
  <2>2. CASE Announced(x)
    <3>1. /\ p = m + 1 /\ b = a + 2 /\ w = l + 1 /\ v[a] = Announcement(x)
          /\ \A q \in 1 .. a - 1 : v[q] = u[q]
          /\ \A q \in a + 1 .. l + 1 : v[q] = u[q - 1]
      BY <1>2, <1>5, <2>2
    <3>5. p = m + 1 /\ b = a + 2 /\ w = l + 1
      BY <3>1
    <3>2. b = (k + 1) + p + 1 /\ w = n + p
      BY <2>3, <3>5
    <3>3. ASSUME NEW i \in (k + 1) + 1 .. n PROVE v[i + p] = c[i]
      <4>1. /\ i + p \in a + 1 .. l + 1 /\ i + p - 1 = i + m /\ i \in k + 1 .. n
        BY <2>3, <3>5
      <4>2. v[i + p] = u[i + p - 1]
        BY <3>1, <4>1
      <4> QED
        BY <1>3, <4>1, <4>2
    <3>4. ASSUME NEW i \in 1 .. k + 1
          PROVE  v[i + C(i)] = c[i] /\ (Announced(c[i]) => v[i + C(i) - 1] = Announcement(c[i]))
      <4>1. CASE i = k + 1
        <5>1. i + C(i) = a + 1 /\ i + C(i) - 1 = a /\ (a + 1) - 1 = a /\ a + 1 \in a + 1 .. l + 1
          <6>1. C(i) = p
            BY <2>0, <4>1
          <6>2. i + p = a + 1 /\ i + p - 1 = a /\ (a + 1) - 1 = a /\ a + 1 \in a + 1 .. l + 1
            BY <2>3, <3>5, <4>1
          <6> QED
            BY <6>1, <6>2
        <5>2. v[a + 1] = u[a]
          BY <3>1, <5>1
        <5> QED
          BY <1>4, <2>0, <3>1, <4>1, <5>1, <5>2
      <4>2. CASE i # k + 1
        <5>1. i \in 1 .. k
          BY <1>1, <4>2
        <5>2. C(i) \in Nat /\ C(i) <= m /\ (Announced(c[i]) => C(i) > 0)
          BY <1>2, <5>1
        <5>3. i + C(i) \in 1 .. a - 1
          BY <2>3, <5>1, <5>2
        <5>4. Announced(c[i]) => i + C(i) - 1 \in 1 .. a - 1
          BY <2>3, <5>1, <5>2
        <5> QED
          BY <1>3, <3>1, <5>1, <5>3, <5>4
      <4> QED
        BY <4>1, <4>2
    <3> QED
      BY <3>2, <3>3, <3>4
  <2> QED
    BY <2>1, <2>2
<1> QED
  BY <1>5, <1>6 DEF Turned

\* The equation that the loop of instrument_atomics solves.
TurnStep(c, f) ==
    [k \in 0 .. Len(c) |-> IF k = 0 THEN [code |-> c, at |-> 1] ELSE Visit(f[k - 1])]

\* What the list may hold while it is walked.
Material(c) == Range(c) \cup {Announcement(c[i]) : i \in 1 .. Len(c)}

\* The walk is started on the list as it is.
LEMMA TurnedFirst ==
  ASSUME NEW c, IsCode(c)
  PROVE  /\ [code |-> c, at |-> 1] \in [code : Seq(Material(c)), at : Nat]
         /\ Turned(c, 0, [code |-> c, at |-> 1])
<1>1. Len(c) \in Nat /\ c \in Seq(Range(c)) /\ Range(c) \subseteq Material(c)
  BY CodeFacts DEF Material, IsCode
<1>2. c \in Seq(Material(c))
  <2> DEFINE R == Range(c)
             M == Material(c)
  <2> HIDE DEF R, M
  <2>1. c \in Seq(R) /\ R \subseteq M
    BY <1>1 DEF R, M
  <2>2. c \in Seq(M)
    BY <2>1
  <2> QED
    BY <2>2 DEF M
<1>3. Count(c, 0) = 0
  BY CountFacts
<1> QED
  BY <1>1, <1>2, <1>3 DEF Turned

\* A walk from there keeps its shape.
LEMMA TurnedAlways ==
  ASSUME NEW c, IsCode(c), NEW f, f[0] = [code |-> c, at |-> 1],
         \A k \in 1 .. Len(c) :
            f[k - 1] \in [code : Seq(Material(c)), at : Nat] /\ Turned(c, k - 1, f[k - 1])
              => f[k] = Visit(f[k - 1])
  PROVE  \A k \in 0 .. Len(c) : f[k] \in [code : Seq(Material(c)), at : Nat] /\ Turned(c, k, f[k])
<1> DEFINE S == Material(c)
           T == {k \in 0 .. Len(c) : f[k] \in [code : Seq(S), at : Nat] /\ Turned(c, k, f[k])}
<1>1. Len(c) \in Nat /\ \A i \in 1 .. Len(c) : Announcement(c[i]) \in S
  BY CodeFacts DEF Material
<1>2. 0 \in T
  BY <1>1, TurnedFirst
<1> HIDE DEF S
<1>3. ASSUME NEW k \in 0 .. Len(c) - 1, k \in T PROVE k + 1 \in T
  <2>1. k + 1 \in 1 .. Len(c) /\ (k + 1) - 1 = k /\ k + 1 \in 0 .. Len(c)
    BY <1>1
  <2>2. f[k] \in [code : Seq(S), at : Nat] /\ Turned(c, k, f[k])
    BY <1>3
  <2>3. f[k + 1] = Visit(f[k])
    BY <2>1, <2>2 DEF S
  <2>4. Visit(f[k]) \in [code : Seq(S), at : Nat] /\ Turned(c, k + 1, Visit(f[k]))
    BY <1>1, <2>2, TurnedStep
  <2> QED
    BY <2>1, <2>3, <2>4
<1>4. 0 .. Len(c) \subseteq T
  <2> HIDE DEF T
  <2> QED
    BY <1>1, <1>2, <1>3, Climb
<1> QED
  BY <1>4 DEF S

\* There is such a walk.
LEMMA TurnsDefined ==
  ASSUME NEW c, IsCode(c)
  PROVE  \E f : f = TurnStep(c, f)
<1> DEFINE S == [code : Seq(Material(c)), at : Nat]
           z == [code |-> c, at |-> 1]
           G == [s \in S |-> IF Visit(s) \in S THEN Visit(s) ELSE z]
<1>1. Len(c) \in Nat /\ z \in S /\ \A i \in 1 .. Len(c) : Announcement(c[i]) \in Material(c)
  BY CodeFacts, TurnedFirst DEF Material
<1>2. G \in [S -> S]
  <2> HIDE DEF S, z
  <2> QED
    BY <1>1
<1>3. PICK f \in [0 .. Len(c) -> S] : f[0] = z /\ \A k \in 1 .. Len(c) : f[k] = G[f[k - 1]]
  <2>1. Len(c) \in Nat /\ z \in S
    BY <1>1
  <2> HIDE DEF S, z, G
  <2>2. \E f : Iterates(f, Len(c), S, z, G)
    BY <1>2, <2>1, RecursionExists
  <2> QED
    BY <2>2 DEF Iterates
<1>4. ASSUME NEW k \in 1 .. Len(c), f[k - 1] \in S, Turned(c, k - 1, f[k - 1])
      PROVE  f[k] = Visit(f[k - 1])
  <2>1. k - 1 \in 0 .. Len(c) - 1
    BY <1>1
  <2>2. Visit(f[k - 1]) \in S
    BY <1>1, <1>4, <2>1, TurnedStep
  <2> HIDE DEF S
  <2> QED
    BY <1>3, <1>4, <2>2
<1>5. \A k \in 0 .. Len(c) : f[k] \in S /\ Turned(c, k, f[k])
  BY <1>3, <1>4, TurnedAlways
<1> HIDE DEF G
<1>6. \A k \in 1 .. Len(c) : f[k] = Visit(f[k - 1])
  <2>1. \A k \in 1 .. Len(c) : k - 1 \in 0 .. Len(c)
    BY <1>1
  <2> QED
    BY <1>4, <1>5, <2>1
<1>7. f = TurnStep(c, f)
  <2>1. \A k \in 0 .. Len(c) : k # 0 => k \in 1 .. Len(c)
    BY <1>1
  <2> HIDE DEF S
  <2> QED
    BY <1>1, <1>3, <1>6, <2>1 DEF TurnStep
<1> QED
  BY <1>7

\* instrument_atomics puts the announcement of every atomic access before it and
\* keeps the instructions in their order.
LEMMA InstrumentCodeIs ==
  ASSUME NEW c, IsCode(c), NEW v, v = InstrumentCode(c)
  PROVE  /\ v \in Seq(Material(c)) /\ Len(v) = Len(c) + Count(c, Len(c))
         /\ \A i \in 1 .. Len(c) :
              /\ v[i + Count(c, i)] = c[i]
              /\ Announced(c[i]) => v[i + Count(c, i) - 1] = Announcement(c[i])
<1> DEFINE f == CHOOSE g : g = TurnStep(c, g)
<1>1. v = f[Len(c)].code
  BY DEF InstrumentCode, TurnStep
<1>2. f = TurnStep(c, f)
  BY TurnsDefined
<1> HIDE DEF f
<1>3. Len(c) \in Nat
  BY CodeFacts
<1>4. f[0] = [code |-> c, at |-> 1] /\ \A k \in 1 .. Len(c) : f[k] = Visit(f[k - 1])
  <2>1. \A k \in 0 .. Len(c) : f[k] = IF k = 0 THEN [code |-> c, at |-> 1] ELSE Visit(f[k - 1])
    BY <1>2 DEF TurnStep
  <2> QED
    BY <1>3, <2>1
<1>5. \A k \in 0 .. Len(c) : f[k] \in [code : Seq(Material(c)), at : Nat] /\ Turned(c, k, f[k])
  BY <1>4, TurnedAlways
<1>6. f[Len(c)] \in [code : Seq(Material(c)), at : Nat] /\ Turned(c, Len(c), f[Len(c)])
  BY <1>3, <1>5
<1> QED
  BY <1>1, <1>6 DEF Turned

\* Where instructions end up.
LEMMA PlaceFacts ==
  ASSUME NEW b, NEW p \in Nat
  PROVE  /\ Place(b, 0, p) = 0
         /\ \A j \in Nat : Place(b, j, p) \in Nat /\ Place(b, j, p) >= j
         /\ \A j \in Nat : Place(b, j + 1, p) = Place(b, j, p) + IF Announced(b[j + 1]) THEN p + 1 ELSE 1
         /\ \A i, j \in Nat : i <= j => Place(b, i, p) <= Place(b, j, p)
         /\ \A j \in Nat : Place(b, j, p + 1) = Place(b, j, p) + Count(b, j)
<1>1. \A x, y \in Nat : p * x \in Nat /\ p * (x + 1) = p * x + p /\ (p + 1) * x = p * x + x /\ p * 0 = 0
  OBVIOUS
<1>2. ASSUME NEW x \in Nat, NEW y \in Nat, x <= y PROVE p * x <= p * y
  <2>1. PICK d \in Nat : y = x + d
    <3>1. y - x \in Nat /\ y = x + (y - x)
      BY <1>2
    <3> QED
      BY <3>1
  <2>2. p * y = p * x + p * d /\ p * d \in Nat /\ p * x \in Nat
    BY <2>1
  <2> QED
    BY <2>2
<1>3. Place(b, 0, p) = 0
  <2>1. Place(b, 0, p) = 0 + p * Count(b, 0) /\ Count(b, 0) = 0
    BY CountFacts DEF Place
  <2> QED
    BY <1>1, <2>1
<1>4. ASSUME NEW j \in Nat PROVE Place(b, j, p) \in Nat /\ Place(b, j, p) >= j
  <2>1. Count(b, j) \in Nat
    BY CountFacts
  <2> DEFINE x == p * Count(b, j)
  <2>2. x \in Nat /\ Place(b, j, p) = j + x
    BY <1>1, <2>1 DEF Place
  <2> HIDE DEF x
  <2> QED
    BY <2>2
<1>5. ASSUME NEW j \in Nat
      PROVE  Place(b, j + 1, p) = Place(b, j, p) + IF Announced(b[j + 1]) THEN p + 1 ELSE 1
  <2> DEFINE c == Count(b, j)
             d == Count(b, j + 1)
  <2>1. c \in Nat /\ d = c + IF Announced(b[j + 1]) THEN 1 ELSE 0
    BY CountFacts
  <2>2. Place(b, j, p) = j + p * c /\ Place(b, j + 1, p) = (j + 1) + p * d
    BY DEF Place
  <2> HIDE DEF c, d
  <2>3. CASE Announced(b[j + 1])
    BY <1>1, <2>1, <2>2, <2>3
  <2>4. CASE ~Announced(b[j + 1])
    <3>1. p * c \in Nat /\ d = c
      BY <1>1, <2>1, <2>4
    <3> DEFINE x == p * c
    <3>2. x \in Nat /\ Place(b, j, p) = j + x /\ Place(b, j + 1, p) = (j + 1) + x
      BY <2>2, <3>1
    <3> HIDE DEF x
    <3> QED
      BY <2>4, <3>2
  <2> QED
    BY <2>3, <2>4
<1>6. ASSUME NEW i \in Nat, NEW j \in Nat, i <= j PROVE Place(b, i, p) <= Place(b, j, p)
  <2>1. Count(b, i) \in Nat /\ Count(b, j) \in Nat /\ Count(b, i) <= Count(b, j)
    BY <1>6, CountFacts
  <2> DEFINE x == p * Count(b, i)
             y == p * Count(b, j)
  <2>2. x \in Nat /\ y \in Nat /\ x <= y /\ Place(b, i, p) = i + x /\ Place(b, j, p) = j + y
    BY <1>1, <1>2, <2>1 DEF Place
  <2> HIDE DEF x, y
  <2> QED
    BY <1>6, <2>2
<1>7. ASSUME NEW j \in Nat PROVE Place(b, j, p + 1) = Place(b, j, p) + Count(b, j)
  <2> DEFINE c == Count(b, j)
  <2>1. c \in Nat
    BY CountFacts
  <2>2. Place(b, j, p) = j + p * c /\ Place(b, j, p + 1) = j + (p + 1) * c
    BY DEF Place
  <2> HIDE DEF c
  <2>3. Place(b, j, p + 1) = Place(b, j, p) + c
    BY <1>1, <2>1, <2>2
  <2> QED
    BY <2>3 DEF c
<1> QED
  BY <1>3, <1>4, <1>5, <1>6, <1>7

\* The list v is b with p announcements before every atomic access.
Spread(b, v, p) ==
    /\ Len(v) = Place(b, Len(b), p)
    /\ \A j \in 1 .. Len(b) :
        /\ v[Place(b, j, p)] = b[j]
        /\ Announced(b[j]) => \A h \in 1 .. p : v[Place(b, j, p) - h] = Announcement(b[j])

\* An announcement is a call, which is not announced.
LEMMA AnnouncementIs ==
  ASSUME NEW i
  PROVE  /\ IsInstruction(Announcement(i)) /\ IsCall(Announcement(i)) /\ ~Announced(Announcement(i))
         /\ Announcement(i).callee = HookName
         /\ Announcement(i) = [op |-> "call", callee |-> Announcement(i).callee, args |-> Announcement(i).args]
BY DEF IsInstruction, Announcement, HookCall, IsCall, Announced

\* Announcements are not counted.
LEMMA SpreadCount ==
  ASSUME NEW b, IsCode(b), NEW v, NEW p \in Nat, Spread(b, v, p)
  PROVE  \A j \in 0 .. Len(b) : Count(v, Place(b, j, p)) = Count(b, j)
<1> DEFINE T == {j \in 0 .. Len(b) : Count(v, Place(b, j, p)) = Count(b, j)}
<1>1. Len(b) \in Nat
  BY CodeFacts
<1>2. 0 \in T
  BY <1>1, PlaceFacts, CountFacts
<1>3. ASSUME NEW j \in 0 .. Len(b) - 1, j \in T PROVE j + 1 \in T
  <2> DEFINE P == Place(b, j, p)
             Q == Place(b, j + 1, p)
             x == b[j + 1]
  <2>0. j \in Nat /\ j + 1 \in 1 .. Len(b) /\ j + 1 \in 0 .. Len(b)
    BY <1>1
  <2>1. j \in Nat /\ j + 1 \in 1 .. Len(b) /\ j + 1 \in 0 .. Len(b) /\ P \in Nat
    BY <2>0, PlaceFacts
  <2>2. Q = P + IF Announced(x) THEN p + 1 ELSE 1
    BY <2>1, PlaceFacts
  <2>3. v[Q] = x /\ (Announced(x) => \A h \in 1 .. p : v[Q - h] = Announcement(x))
    BY <2>1 DEF Spread
  <2>4. Count(v, P) = Count(b, j) /\ Count(b, j) \in Nat
    BY <1>3, <2>1, CountFacts
  <2>5. Count(b, j + 1) = Count(b, j) + IF Announced(x) THEN 1 ELSE 0
    BY <2>1, CountFacts
  <2> HIDE DEF P, Q, x
  <2>6. CASE ~Announced(x)
    <3>1. Q = P + 1
      BY <2>2, <2>6
    <3>2. Count(v, P + 1) = Count(v, P) + IF Announced(v[P + 1]) THEN 1 ELSE 0
      BY <2>1, CountFacts
    <3>3. Count(v, Q) = Count(b, j + 1)
      BY <2>3, <2>4, <2>5, <2>6, <3>1, <3>2
    <3> QED
      BY <2>1, <3>3 DEF Q
  <2>7. CASE Announced(x)
    <3>1. Q = (P + p) + 1 /\ P + p \in Nat /\ P <= P + p
      BY <2>1, <2>2, <2>7
    <3>2. ASSUME NEW k \in P + 1 .. P + p PROVE ~Announced(v[k])
      <4>1. Q - k \in 1 .. p /\ Q - (Q - k) = k
        BY <2>1, <3>1
      <4>2. v[Q - (Q - k)] = Announcement(x)
        BY <2>3, <2>7, <4>1
      <4> QED
        BY <4>1, <4>2, AnnouncementIs
    <3>3. Count(v, P + p) = Count(v, P)
      BY <2>1, <3>1, <3>2, CountFacts
    <3>4. Count(v, (P + p) + 1) = Count(v, P + p) + IF Announced(v[(P + p) + 1]) THEN 1 ELSE 0
      BY <3>1, CountFacts
    <3>5. Announced(v[(P + p) + 1])
      BY <2>3, <2>7, <3>1
    <3>6. Count(v, (P + p) + 1) = Count(b, j + 1)
      BY <2>4, <2>5, <2>7, <3>3, <3>4, <3>5
    <3>7. Count(v, Q) = Count(b, j + 1)
      BY <3>1, <3>6
    <3> QED
      BY <2>1, <3>7 DEF Q
  <2> QED
    BY <2>6, <2>7
<1>4. 0 .. Len(b) \subseteq T
  <2> HIDE DEF T
  <2> QED
    BY <1>1, <1>2, <1>3, Climb
<1> QED
  BY <1>4

\* Walking a list of that form adds one announcement before every atomic access.
LEMMA SpreadAgain ==
  ASSUME NEW b, IsCode(b), NEW v, IsCode(v), NEW p \in Nat, Spread(b, v, p)
  PROVE  Spread(b, InstrumentCode(v), p + 1)
<1> DEFINE w == InstrumentCode(v)
           n == Len(b)
<1>1. n \in Nat /\ Len(v) \in Nat /\ Len(v) = Place(b, n, p)
  BY CodeFacts DEF Spread
<1>2. /\ Len(w) = Len(v) + Count(v, Len(v))
      /\ \A i \in 1 .. Len(v) :
           /\ w[i + Count(v, i)] = v[i]
           /\ Announced(v[i]) => w[i + Count(v, i) - 1] = Announcement(v[i])
  BY InstrumentCodeIs
<1>3. \A j \in 0 .. n : Count(v, Place(b, j, p)) = Count(b, j)
  BY SpreadCount
<1> HIDE DEF w, n
<1>4. Len(w) = Place(b, n, p + 1)
  <2>1. Count(v, Place(b, n, p)) = Count(b, n) /\ Place(b, n, p + 1) = Place(b, n, p) + Count(b, n)
    BY <1>1, <1>3, PlaceFacts
  <2> QED
    BY <1>1, <1>2, <2>1
<1>5. ASSUME NEW j \in 1 .. n
      PROVE  /\ w[Place(b, j, p + 1)] = b[j]
             /\ Announced(b[j]) => \A h \in 1 .. p + 1 : w[Place(b, j, p + 1) - h] = Announcement(b[j])
  <2> DEFINE P == Place(b, j - 1, p)
             Q == Place(b, j, p)
             C == Count(b, j)
             R == Place(b, j, p + 1)
             x == b[j]
  <2>1. j \in Nat /\ j - 1 \in Nat /\ j - 1 \in 0 .. n /\ j \in 0 .. n /\ j <= n /\ (j - 1) + 1 = j /\ j >= 1
    BY <1>1
  <2>2. Q \in Nat /\ Q >= j /\ Q <= Len(v) /\ R = Q + C /\ P \in Nat /\ C \in Nat /\ Count(v, Q) = C
    <3>1. Q \in Nat /\ Q >= j /\ P \in Nat /\ R = Q + C
      BY <2>1, PlaceFacts
    <3>2. Place(b, j, p) <= Place(b, n, p)
      BY <1>1, <2>1, PlaceFacts
    <3>3. C \in Nat /\ Count(v, Q) = C
      BY <1>3, <2>1, CountFacts
    <3> QED
      BY <1>1, <3>1, <3>2, <3>3
  <2>3. v[Q] = x /\ (Announced(x) => \A h \in 1 .. p : v[Q - h] = Announcement(x))
    BY <2>1 DEF Spread, n
  <2>4. Announced(x) => Q = P + p + 1
    <3>1. Place(b, (j - 1) + 1, p) = P + IF Announced(b[(j - 1) + 1]) THEN p + 1 ELSE 1
      BY <2>1, PlaceFacts
    <3>2. Q = P + IF Announced(x) THEN p + 1 ELSE 1
      BY <2>1, <3>1
    <3> HIDE DEF P, Q, x
    <3> QED
      BY <2>2, <3>2
  <2> HIDE DEF P, Q, C, R, x
  <2>5. Q \in 1 .. Len(v)
    BY <1>1, <2>1, <2>2
  <2>6. w[Q + C] = v[Q] /\ (Announced(v[Q]) => w[Q + C - 1] = Announcement(v[Q]))
    BY <1>2, <2>2, <2>5
  <2>7. w[R] = x
    BY <2>2, <2>3, <2>6
  <2>8. ASSUME Announced(x), NEW h \in 1 .. p + 1 PROVE w[R - h] = Announcement(x)
    <3>1. CASE h = 1
      BY <2>2, <2>3, <2>6, <2>8, <3>1
    <3>2. CASE h # 1
      <4> DEFINE q == Q - (h - 1)
      <4>1. h - 1 \in 1 .. p /\ q \in P + 1 .. Q - 1 /\ q \in 1 .. Len(v) /\ q \in Nat /\ q <= Q - 1
        BY <2>2, <2>4, <2>5, <2>8, <3>2
      <4>2. v[q] = Announcement(x)
        BY <2>3, <2>8, <4>1
      <4> HIDE DEF q
      <4>3. \A k \in q + 1 .. Q - 1 : ~Announced(v[k])
        <5> SUFFICES ASSUME NEW k \in q + 1 .. Q - 1 PROVE ~Announced(v[k])
          OBVIOUS
        <5>1. Q - k \in 1 .. p /\ Q - (Q - k) = k
          BY <2>2, <2>4, <2>8, <4>1
        <5>2. v[Q - (Q - k)] = Announcement(x)
          BY <2>3, <2>8, <5>1
        <5> QED
          BY <5>1, <5>2, AnnouncementIs
      <4>4. Q - 1 \in Nat /\ Count(v, Q - 1) = Count(v, q)
        <5>1. Q - 1 \in Nat
          BY <2>2, <4>1
        <5> QED
          BY <4>1, <4>3, <5>1, CountFacts
      <4>5. Count(v, (Q - 1) + 1) = Count(v, Q - 1) + IF Announced(v[(Q - 1) + 1]) THEN 1 ELSE 0
        BY <4>4, CountFacts
      <4>6. (Q - 1) + 1 = Q /\ Announced(v[Q])
        BY <2>2, <2>3, <2>8
      <4>7. C = Count(v, q) + 1 /\ Count(v, q) \in Nat
        BY <2>2, <4>1, <4>4, <4>5, <4>6, CountFacts
      <4> DEFINE d == Count(v, q)
      <4>8. w[q + d] = v[q]
        BY <1>2, <4>1
      <4> HIDE DEF d
      <4>9. R - h = q + d
        BY <2>2, <4>7 DEF d, q
      <4> QED
        BY <4>2, <4>8, <4>9
    <3> QED
      BY <3>1, <3>2
  <2> QED
    BY <2>7, <2>8 DEF R, x
<1> QED
  BY <1>4, <1>5 DEF Spread, w, n

\* The list stays one of instructions.
LEMMA InstrumentedIsCode ==
  ASSUME NEW v, IsCode(v)
  PROVE  IsCode(InstrumentCode(v))
<1> DEFINE w == InstrumentCode(v)
           M == Material(v)
<1>1. w \in Seq(M)
  BY InstrumentCodeIs
<1>2. \A i \in M : IsInstruction(i)
  BY AnnouncementIs DEF Material, IsCode
<1> HIDE DEF w, M
<1>3. \A q \in 1 .. Len(w) : w[q] \in M
  BY <1>1
<1>4. Len(w) \in Nat /\ DOMAIN w = 1 .. Len(w) /\ w = [q \in 1 .. Len(w) |-> w[q]]
  BY <1>1
<1>5. w \in Seq(Range(w)) /\ Range(w) \subseteq M
  BY <1>3, <1>4 DEF Range
<1>6. IsCode(w)
  BY <1>2, <1>5 DEF IsCode
<1> QED
  BY <1>6 DEF w

\* Instructions that are replaced one for one are counted as before.
LEMMA SameCount ==
  ASSUME NEW b, NEW c, NEW n \in Nat, \A j \in 1 .. n : Announced(c[j]) <=> Announced(b[j])
  PROVE  /\ \A j \in 0 .. n : Count(c, j) = Count(b, j)
         /\ \A j \in 0 .. n, p \in Nat : Place(c, j, p) = Place(b, j, p)
<1>1. ASSUME NEW j \in 0 .. n
      PROVE  {k \in 1 .. j : Announced(c[k])} = {k \in 1 .. j : Announced(b[k])}
  OBVIOUS
<1>2. \A j \in 0 .. n : Count(c, j) = Count(b, j)
  BY <1>1 DEF Count
<1> QED
  BY <1>2 DEF Place

\* Replacing calls and nothing else keeps the form of a list.
LEMMA SpreadMapped ==
  ASSUME NEW b, NEW v, NEW c, NEW w, NEW p \in Nat, IsCode(b), Spread(b, v, p),
         Len(c) = Len(b), Len(w) = Len(v),
         \A j \in 1 .. Len(b) :
           /\ Announced(c[j]) <=> Announced(b[j])
           /\ Announced(b[j]) => c[j] = b[j]
           /\ \A q \in 1 .. Len(v) :
                /\ v[q] = b[j] => w[q] = c[j]
                /\ v[q] = Announcement(b[j]) => w[q] = v[q]
  PROVE  Spread(c, w, p)
<1> DEFINE n == Len(b)
<1>1. n \in Nat
  BY CodeFacts
<1>2. /\ \A j \in 0 .. n : Count(c, j) = Count(b, j)
      /\ \A j \in 0 .. n : Place(c, j, p) = Place(b, j, p)
  BY <1>1, SameCount
<1>3. Len(v) = Place(b, n, p)
  BY DEF Spread
<1>4. Len(w) = Place(c, Len(c), p)
  BY <1>1, <1>2, <1>3
<1> HIDE DEF n
<1>5. ASSUME NEW j \in 1 .. n
      PROVE  /\ w[Place(c, j, p)] = c[j]
             /\ Announced(c[j]) => \A h \in 1 .. p : w[Place(c, j, p) - h] = Announcement(c[j])
  <2> DEFINE Q == Place(b, j, p)
             P == Place(b, j - 1, p)
  <2>1. j \in Nat /\ j - 1 \in Nat /\ j \in 0 .. n /\ j <= n /\ (j - 1) + 1 = j /\ j >= 1
    BY <1>1
  <2>2. v[Q] = b[j] /\ (Announced(b[j]) => \A h \in 1 .. p : v[Q - h] = Announcement(b[j]))
    BY DEF Spread, n
  <2>3. Q = Place(c, j, p)
    BY <1>2, <2>1
  <2>4. Q \in Nat /\ Q >= j /\ P \in Nat
    BY <2>1, PlaceFacts
  <2>5. Q <= Len(v)
    <3>1. Place(b, j, p) <= Place(b, n, p)
      BY <1>1, <2>1, PlaceFacts
    <3> QED
      BY <1>3, <3>1
  <2>6. Q = P + IF Announced(b[j]) THEN p + 1 ELSE 1
    <3>1. Place(b, (j - 1) + 1, p) = P + IF Announced(b[(j - 1) + 1]) THEN p + 1 ELSE 1
      BY <2>1, PlaceFacts
    <3> QED
      BY <2>1, <3>1
  <2>7. Len(v) \in Nat
    BY <1>1, <1>3, PlaceFacts
  <2>8. \A q \in 1 .. Len(v) :
          /\ v[q] = b[j] => w[q] = c[j]
          /\ v[q] = Announcement(b[j]) => w[q] = v[q]
    BY DEF n
  <2>9. (Announced(c[j]) <=> Announced(b[j])) /\ (Announced(b[j]) => c[j] = b[j])
    BY DEF n
  <2> HIDE DEF Q, P
  <2>10. w[Q] = c[j]
    <3>1. Q \in 1 .. Len(v)
      BY <2>1, <2>4, <2>5, <2>7
    <3> QED
      BY <2>2, <2>8, <3>1
  <2>11. ASSUME Announced(c[j]), NEW h \in 1 .. p PROVE w[Q - h] = Announcement(c[j])
    <3>1. Announced(b[j]) /\ c[j] = b[j]
      BY <2>9, <2>11
    <3>2. Q = P + p + 1
      BY <2>6, <2>4, <3>1
    <3>3. Q - h \in 1 .. Len(v)
      BY <2>4, <2>5, <2>7, <3>2
    <3>4. v[Q - h] = Announcement(b[j])
      BY <2>2, <3>1
    <3> QED
      BY <2>8, <3>1, <3>3, <3>4
  <2> QED
    BY <2>3, <2>10, <2>11
<1> QED
  BY <1>4, <1>5 DEF Spread, n

(***************************************************************************)
(* The calls that are redirected.                                          *)
(***************************************************************************)
Pairs == Len(PthreadRewrites)
From(r) == PthreadRewrites[r][1]
To(r) == PthreadRewrites[r][2]

\* No name is replaced twice, and no replacement is replaced again.
LEMMA RewritesAre ==
  /\ Pairs \in Nat /\ DOMAIN PthreadRewrites = 1 .. Pairs
  /\ \A r, s \in 1 .. Pairs : From(r) = From(s) => r = s
  /\ \A r, s \in 1 .. Pairs : To(r) # From(s)
  /\ \A r \in 1 .. Pairs : From(r) \notin {Entry, Original, Helper, HookName}
<1>1. Pairs = 12 /\ DOMAIN PthreadRewrites = 1 .. 12
  BY DEF Pairs, PthreadRewrites
<1>2. /\ From(1) = "pthread_create" /\ From(2) = "pthread_join" /\ From(3) = "pthread_exit"
      /\ From(4) = "pthread_mutex_lock" /\ From(5) = "pthread_mutex_trylock"
      /\ From(6) = "pthread_mutex_unlock" /\ From(7) = "pthread_cond_wait"
      /\ From(8) = "pthread_cond_signal" /\ From(9) = "pthread_cond_broadcast"
      /\ From(10) = "pthread_barrier_init" /\ From(11) = "pthread_barrier_wait"
      /\ From(12) = "sched_yield"
  BY DEF From, PthreadRewrites
<1>3. /\ To(1) = "rsched_pthread_create" /\ To(2) = "rsched_pthread_join" /\ To(3) = "rsched_pthread_exit"
      /\ To(4) = "rsched_pthread_mutex_lock" /\ To(5) = "rsched_pthread_mutex_trylock"
      /\ To(6) = "rsched_pthread_mutex_unlock" /\ To(7) = "rsched_pthread_cond_wait"
      /\ To(8) = "rsched_pthread_cond_signal" /\ To(9) = "rsched_pthread_cond_broadcast"
      /\ To(10) = "rsched_pthread_barrier_init" /\ To(11) = "rsched_pthread_barrier_wait"
      /\ To(12) = "rsched_sched_yield"
  BY DEF To, PthreadRewrites
<1>4. \A r \in 1 .. 12 : r \in {1, 2, 3, 4, 5, 6, 7, 8, 9, 10, 11, 12}
  OBVIOUS
<1>5. \A r, s \in 1 .. 12 : From(r) = From(s) => r = s
  BY <1>2, <1>4
<1>6. \A r, s \in 1 .. 12 : To(r) # From(s)
  BY <1>2, <1>3, <1>4
<1>7. \A r \in 1 .. 12 : From(r) \notin {Entry, Original, Helper, HookName}
  BY <1>2, <1>4 DEF Entry, Original, Helper, HookName
<1> QED
  BY <1>1, <1>5, <1>6, <1>7

\* What a call of f has become after the first k walks.
Target(k, f) ==
    IF \E r \in 1 .. k : From(r) = f THEN To(CHOOSE r \in 1 .. k : From(r) = f) ELSE f

\* One more walk.
LEMMA TargetStep ==
  ASSUME NEW k \in 1 .. Pairs, NEW f
  PROVE  Target(k, f) = IF Target(k - 1, f) = From(k) THEN To(k) ELSE Target(k - 1, f)
<1>1. k \in Nat /\ k - 1 \in Nat /\ Pairs \in Nat /\ 1 .. k \subseteq 1 .. Pairs /\ 1 .. k - 1 \subseteq 1 .. k
      /\ k \notin 1 .. k - 1 /\ \A r \in 1 .. k : r = k \/ r \in 1 .. k - 1
  BY RewritesAre
<1>2. \A r, s \in 1 .. k : From(r) = From(s) => r = s
  BY <1>1, RewritesAre
<1>3. \A r, s \in 1 .. k : To(r) # From(s)
  BY <1>1, RewritesAre
<1>4. ASSUME NEW r \in 1 .. k, From(r) = f
      PROVE  Target(k, f) = To(r)
  <2>1. (CHOOSE s \in 1 .. k : From(s) = f) = r
    BY <1>2, <1>4
  <2> QED
    BY <1>4, <2>1 DEF Target
<1>5. ASSUME NEW r \in 1 .. k - 1, From(r) = f
      PROVE  Target(k - 1, f) = To(r)
  <2>1. (CHOOSE s \in 1 .. k - 1 : From(s) = f) = r
    BY <1>1, <1>2, <1>5
  <2> QED
    BY <1>5, <2>1 DEF Target
<1>6. (~ \E r \in 1 .. k : From(r) = f) => Target(k, f) = f
  BY DEF Target
<1>7. (~ \E r \in 1 .. k - 1 : From(r) = f) => Target(k - 1, f) = f
  BY DEF Target
<1>8. CASE \E r \in 1 .. k - 1 : From(r) = f
  <2>1. PICK r \in 1 .. k - 1 : From(r) = f
    BY <1>8
  <2>2. r \in 1 .. k /\ k \in 1 .. k
    BY <1>1, RewritesAre
  <2>3. Target(k - 1, f) = To(r) /\ Target(k, f) = To(r)
    BY <1>4, <1>5, <2>1, <2>2
  <2> QED
    BY <1>3, <2>2, <2>3
<1>9. CASE ~ \E r \in 1 .. k - 1 : From(r) = f
  <2>1. k \in 1 .. k
    BY <1>1
  <2>2. CASE f = From(k)
    BY <1>4, <1>7, <1>9, <2>1, <2>2
  <2>3. CASE f # From(k)
    BY <1>1, <1>6, <1>7, <1>9, <2>3
  <2> QED
    BY <2>2, <2>3
<1> QED
  BY <1>8, <1>9

\* All walks together.
LEMMA TargetFacts ==
  ASSUME NEW f
  PROVE  /\ Target(0, f) = f
         /\ Target(Pairs, Target(Pairs, f)) = Target(Pairs, f)
         /\ \A k \in 0 .. Pairs : f \in {Entry, Original, Helper, HookName} => Target(k, f) = f
         /\ Target(Pairs, f) = IF \E r \in Range(PthreadRewrites) : r[1] = f
                               THEN (CHOOSE r \in Range(PthreadRewrites) : r[1] = f)[2] ELSE f
<1>1. Target(0, f) = f
  BY DEF Target
<1>2. ASSUME NEW r \in 1 .. Pairs, From(r) = f PROVE Target(Pairs, f) = To(r)
  <2>1. (CHOOSE s \in 1 .. Pairs : From(s) = f) = r
    BY <1>2, RewritesAre
  <2> QED
    BY <1>2, <2>1 DEF Target
<1>3. (~ \E r \in 1 .. Pairs : From(r) = f) => Target(Pairs, f) = f
  BY DEF Target
<1>4. ASSUME NEW g, ~ \E r \in 1 .. Pairs : From(r) = g PROVE Target(Pairs, g) = g
  BY <1>4 DEF Target
<1>5. Target(Pairs, Target(Pairs, f)) = Target(Pairs, f)
  BY <1>2, <1>3, <1>4, RewritesAre
<1>6. ASSUME NEW k \in 0 .. Pairs, f \in {Entry, Original, Helper, HookName} PROVE Target(k, f) = f
  <2>1. 1 .. k \subseteq 1 .. Pairs
    BY RewritesAre
  <2> QED
    BY <1>6, <2>1, RewritesAre DEF Target
<1>7. Range(PthreadRewrites) = {PthreadRewrites[r] : r \in 1 .. Pairs}
  BY RewritesAre DEF Range
<1>8. Target(Pairs, f) = IF \E r \in Range(PthreadRewrites) : r[1] = f
                         THEN (CHOOSE r \in Range(PthreadRewrites) : r[1] = f)[2] ELSE f
  <2>1. CASE \E r \in 1 .. Pairs : From(r) = f
    <3>1. PICK r \in 1 .. Pairs : From(r) = f
      BY <2>1
    <3> DEFINE e == PthreadRewrites[r]
    <3>2. e \in Range(PthreadRewrites) /\ e[1] = f /\ e[2] = To(r)
      BY <1>7, <3>1 DEF From, To
    <3>3. ASSUME NEW d \in Range(PthreadRewrites), d[1] = f PROVE d = e
      <4>1. PICK s \in 1 .. Pairs : d = PthreadRewrites[s]
        BY <1>7
      <4>2. From(s) = From(r)
        BY <3>1, <3>3, <4>1 DEF From
      <4>3. s = r
        BY <4>2, RewritesAre
      <4> QED
        BY <4>1, <4>3
    <3> HIDE DEF e
    <3>4. (CHOOSE d \in Range(PthreadRewrites) : d[1] = f) = e
      BY <3>2, <3>3
    <3> QED
      BY <1>2, <3>1, <3>2, <3>4
  <2>2. CASE ~ \E r \in 1 .. Pairs : From(r) = f
    <3>1. ~ \E r \in Range(PthreadRewrites) : r[1] = f
      BY <1>7, <2>2 DEF From
    <3> QED
      BY <1>3, <2>2, <3>1
  <2> QED
    BY <2>1, <2>2
<1> QED
  BY <1>1, <1>5, <1>6, <1>8

\* An instruction after the first k walks.
Via(k, i) == IF IsCall(i) THEN [op |-> "call", callee |-> Target(k, i.callee), args |-> i.args] ELSE i

\* Instructions stay what they are, but for the functions they call.
LEMMA ViaFacts ==
  ASSUME NEW i, IsInstruction(i), NEW k \in 0 .. Pairs
  PROVE  /\ IsInstruction(Via(k, i)) /\ (Announced(Via(k, i)) <=> Announced(i))
         /\ Announced(i) => Via(k, i) = i
         /\ Via(0, i) = i
         /\ k # 0 => Via(k, i) = IF IsCall(Via(k - 1, i)) /\ Via(k - 1, i).callee = From(k)
                                 THEN [Via(k - 1, i) EXCEPT !.callee = To(k)] ELSE Via(k - 1, i)
<1>1. CASE ~IsCall(i)
  BY <1>1 DEF Via
<1>2. CASE IsCall(i)
  <2> DEFINE x(j) == [op |-> "call", callee |-> Target(j, i.callee), args |-> i.args]
  <2>1. i = [op |-> "call", callee |-> i.callee, args |-> i.args]
    BY <1>2 DEF IsInstruction, IsCall, AccessKind
  <2>2. ASSUME NEW j PROVE Via(j, i) = x(j) /\ IsCall(x(j)) /\ IsInstruction(x(j)) /\ ~Announced(x(j))
                           /\ x(j).callee = Target(j, i.callee)
                           /\ \A g : [x(j) EXCEPT !.callee = g] = [op |-> "call", callee |-> g, args |-> i.args]
    BY <1>2 DEF Via, IsCall, IsInstruction, Announced
  <2>3. ~Announced(i)
    BY <1>2 DEF Announced
  <2>4. Via(0, i) = i
    <3>1. Target(0, i.callee) = i.callee
      BY TargetFacts
    <3> QED
      BY <2>1, <2>2, <3>1
  <2>5. ASSUME k # 0
        PROVE  Via(k, i) = IF IsCall(Via(k - 1, i)) /\ Via(k - 1, i).callee = From(k)
                           THEN [Via(k - 1, i) EXCEPT !.callee = To(k)] ELSE Via(k - 1, i)
    <3>1. k \in 1 .. Pairs
      BY <2>5, RewritesAre
    <3>2. Target(k, i.callee) = IF Target(k - 1, i.callee) = From(k) THEN To(k) ELSE Target(k - 1, i.callee)
      BY <3>1, TargetStep
    <3>3. CASE Target(k - 1, i.callee) = From(k)
      <4>1. IsCall(Via(k - 1, i)) /\ Via(k - 1, i).callee = From(k) /\ Target(k, i.callee) = To(k)
        BY <2>2, <3>2, <3>3
      <4>2. [Via(k - 1, i) EXCEPT !.callee = To(k)] = [op |-> "call", callee |-> To(k), args |-> i.args]
        <5>1. Via(k - 1, i) = x(k - 1)
          BY <2>2
        <5>2. [x(k - 1) EXCEPT !.callee = To(k)] = [op |-> "call", callee |-> To(k), args |-> i.args]
          OBVIOUS
        <5> HIDE DEF x
        <5> QED
          BY <5>1, <5>2
      <4>3. Via(k, i) = [op |-> "call", callee |-> To(k), args |-> i.args]
        BY <2>2, <4>1
      <4> QED
        BY <4>1, <4>2, <4>3
    <3>4. CASE Target(k - 1, i.callee) # From(k)
      BY <2>2, <3>2, <3>4
    <3> QED
      BY <3>3, <3>4
  <2> QED
    BY <2>2, <2>3, <2>4, <2>5
<1> QED
  BY <1>1, <1>2

\* An announcement calls the hook, which is not replaced.
LEMMA ViaAnnouncement ==
  ASSUME NEW i, NEW k \in 0 .. Pairs
  PROVE  Via(k, Announcement(i)) = Announcement(i)
<1>1. Target(k, HookName) = HookName
  BY TargetFacts
<1> QED
  BY <1>1, AnnouncementIs DEF Via

\* A module with functions of instructions.
WellFormed(m) == m \in Seq(Range(m)) /\ \A k \in DOMAIN m : IsFunction(m[k])

\* A module after the first k walks.
Walked(m, k) ==
    [n \in DOMAIN m |->
        [name |-> m[n].name, code |-> [j \in DOMAIN m[n].code |-> Via(k, m[n].code[j])]]]

\* The equation that the walks of rewrite_pthread_calls solve.
WalkStep(m, f) ==
    [k \in 0 .. Len(PthreadRewrites) |->
        IF k = 0 THEN m
        ELSE MapCode(f[k - 1], LAMBDA c : RewriteFunctionUses(c, PthreadRewrites[k][1], PthreadRewrites[k][2]))]

\* One walk over a module.
LEMMA WalkedFacts ==
  ASSUME NEW m, WellFormed(m)
  PROVE  /\ Walked(m, 0) = m
         /\ \A k \in 1 .. Pairs :
              MapCode(Walked(m, k - 1), LAMBDA c : RewriteFunctionUses(c, PthreadRewrites[k][1], PthreadRewrites[k][2]))
                = Walked(m, k)
<1>1. ASSUME NEW n \in DOMAIN m
      PROVE  /\ m[n] = [name |-> m[n].name, code |-> m[n].code]
             /\ m[n].code = [j \in DOMAIN m[n].code |-> m[n].code[j]]
             /\ \A j \in DOMAIN m[n].code : IsInstruction(m[n].code[j])
  <2>1. m[n] = [name |-> m[n].name, code |-> m[n].code] /\ IsCode(m[n].code)
    BY DEF WellFormed, IsFunction, IsCode
  <2> DEFINE c == m[n].code
  <2>2. IsCode(c)
    BY <2>1
  <2> HIDE DEF c
  <2>3. c = [j \in DOMAIN c |-> c[j]] /\ \A j \in DOMAIN c : IsInstruction(c[j])
    BY <2>2 DEF IsCode, Range
  <2> QED
    BY <2>1, <2>3 DEF c
<1>2. Walked(m, 0) = m
  <2>1. m = [n \in DOMAIN m |-> m[n]]
    BY DEF WellFormed
  <2>2. 0 \in 0 .. Pairs
    BY RewritesAre
  <2>3. ASSUME NEW n \in DOMAIN m
        PROVE  [name |-> m[n].name, code |-> [j \in DOMAIN m[n].code |-> Via(0, m[n].code[j])]] = m[n]
    <3>1. \A j \in DOMAIN m[n].code : Via(0, m[n].code[j]) = m[n].code[j]
      BY <1>1, <2>2, ViaFacts
    <3>2. [j \in DOMAIN m[n].code |-> Via(0, m[n].code[j])] = m[n].code
      BY <1>1, <3>1
    <3> QED
      BY <1>1, <3>2
  <2> QED
    BY <2>1, <2>3 DEF Walked
<1>3. ASSUME NEW k \in 1 .. Pairs
      PROVE  MapCode(Walked(m, k - 1), LAMBDA c : RewriteFunctionUses(c, PthreadRewrites[k][1], PthreadRewrites[k][2]))
               = Walked(m, k)
  <2>1. k \in 0 .. Pairs /\ k # 0
    BY RewritesAre
  <2> DEFINE w == Walked(m, k - 1)
             R(c) == RewriteFunctionUses(c, PthreadRewrites[k][1], PthreadRewrites[k][2])
  <2>2. DOMAIN w = DOMAIN m
    BY DEF Walked
  <2>3. ASSUME NEW n \in DOMAIN m
        PROVE  [w[n] EXCEPT !.code = R(w[n].code)] = Walked(m, k)[n]
    <3> DEFINE c == m[n].code
               d == [j \in DOMAIN c |-> Via(k - 1, c[j])]
    <3>1. w[n] = [name |-> m[n].name, code |-> d]
      BY DEF Walked
    <3>2. Walked(m, k)[n] = [name |-> m[n].name, code |-> [j \in DOMAIN c |-> Via(k, c[j])]]
      BY DEF Walked
    <3>3. \A j \in DOMAIN c : IsInstruction(c[j])
      BY <1>1
    <3> HIDE DEF c, w
    <3>4. R(d) = [j \in DOMAIN c |-> Via(k, c[j])]
      <4>1. DOMAIN d = DOMAIN c /\ \A j \in DOMAIN c : d[j] = Via(k - 1, c[j])
        OBVIOUS
      <4> HIDE DEF d
      <4>2. \A j \in DOMAIN c : Via(k, c[j]) = IF IsCall(d[j]) /\ d[j].callee = From(k)
                                               THEN [d[j] EXCEPT !.callee = To(k)] ELSE d[j]
        BY <2>1, <3>3, <4>1, ViaFacts
      <4>3. R(d) = [j \in DOMAIN d |-> IF IsCall(d[j]) /\ d[j].callee = From(k)
                                       THEN [d[j] EXCEPT !.callee = To(k)] ELSE d[j]]
        BY DEF RewriteFunctionUses, From, To
      <4> QED
        BY <4>1, <4>2, <4>3
    <3> HIDE DEF d, R
    <3>5. [w[n] EXCEPT !.code = R(w[n].code)] = [name |-> m[n].name, code |-> R(d)]
      BY <3>1
    <3> QED
      BY <3>2, <3>4, <3>5
  <2>4. MapCode(w, R) = [n \in DOMAIN w |-> [w[n] EXCEPT !.code = R(w[n].code)]]
    BY DEF MapCode
  <2>5. Walked(m, k) = [n \in DOMAIN m |-> Walked(m, k)[n]]
    BY DEF Walked
  <2> HIDE DEF w, R
  <2>6. [n \in DOMAIN w |-> [w[n] EXCEPT !.code = R(w[n].code)]] = Walked(m, k)
    BY <2>2, <2>3, <2>5
  <2>7. MapCode(w, R) = Walked(m, k)
    BY <2>4, <2>6
  <2> QED
    BY <2>7 DEF w, R
<1> QED
  BY <1>2, <1>3

\* What rewrite_pthread_calls makes of a module.
LEMMA RewritePthreadCallsIs ==
  ASSUME NEW m, WellFormed(m)
  PROVE  RewritePthreadCalls(m) = Walked(m, Pairs)
<1> DEFINE f == CHOOSE g : g = WalkStep(m, g)
           e == [k \in 0 .. Pairs |-> Walked(m, k)]
           T == {k \in 0 .. Pairs : f[k] = Walked(m, k)}
<1>1. RewritePthreadCalls(m) = f[Pairs]
  BY DEF RewritePthreadCalls, WalkStep, Pairs
<1>2. e = WalkStep(m, e)
  <2>1. ASSUME NEW k \in 1 .. Pairs
        PROVE  MapCode(e[k - 1], LAMBDA c : RewriteFunctionUses(c, PthreadRewrites[k][1], PthreadRewrites[k][2])) = e[k]
    <3>1. k \in 0 .. Pairs /\ k - 1 \in 0 .. Pairs
      BY RewritesAre
    <3>2. e[k - 1] = Walked(m, k - 1) /\ e[k] = Walked(m, k)
      BY <3>1
    <3> HIDE DEF e
    <3> QED
      BY <3>2, WalkedFacts
  <2>2. e[0] = m
    <3>1. 0 \in 0 .. Pairs /\ Walked(m, 0) = m
      <4>1. 0 \in 0 .. Pairs
        BY RewritesAre
      <4>2. Walked(m, 0) = m
        BY WalkedFacts
      <4> QED
        BY <4>1, <4>2
    <3> QED
      BY <3>1
  <2>3. \A k \in 0 .. Pairs : k # 0 => k \in 1 .. Pairs
    BY RewritesAre
  <2>4. e = [k \in 0 .. Pairs |-> e[k]]
    OBVIOUS
  <2> HIDE DEF e
  <2>5. WalkStep(m, e) =
          [k \in 0 .. Pairs |->
             IF k = 0 THEN m
             ELSE MapCode(e[k - 1], LAMBDA c : RewriteFunctionUses(c, PthreadRewrites[k][1], PthreadRewrites[k][2]))]
    BY DEF WalkStep, Pairs
  <2> QED
    BY <2>1, <2>2, <2>3, <2>4, <2>5
<1>3. f = WalkStep(m, f)
  <2> HIDE DEF e
  <2>1. \E g : g = WalkStep(m, g)
    BY <1>2
  <2> QED
    BY <2>1
<1> HIDE DEF f, e
<1>4. \A k \in 0 .. Pairs :
        f[k] = IF k = 0 THEN m
               ELSE MapCode(f[k - 1], LAMBDA c : RewriteFunctionUses(c, PthreadRewrites[k][1], PthreadRewrites[k][2]))
  BY <1>3 DEF WalkStep, Pairs
<1>5. 0 \in T
  <2>1. 0 \in 0 .. Pairs /\ Walked(m, 0) = m
    <3>1. 0 \in 0 .. Pairs
      BY RewritesAre
    <3>2. Walked(m, 0) = m
      BY WalkedFacts
    <3> QED
      BY <3>1, <3>2
  <2>2. f[0] = m
    BY <1>4, <2>1
  <2> QED
    BY <2>1, <2>2
<1>6. ASSUME NEW k \in 0 .. Pairs - 1, k \in T PROVE k + 1 \in T
  <2>1. k + 1 \in 0 .. Pairs /\ k + 1 \in 1 .. Pairs /\ k + 1 # 0 /\ (k + 1) - 1 = k
    BY RewritesAre
  <2>2. f[(k + 1) - 1] = Walked(m, (k + 1) - 1)
    BY <1>6, <2>1
  <2>3. MapCode(Walked(m, (k + 1) - 1), LAMBDA c : RewriteFunctionUses(c, PthreadRewrites[k + 1][1], PthreadRewrites[k + 1][2]))
          = Walked(m, k + 1)
    BY <2>1, WalkedFacts
  <2>4. f[k + 1] = MapCode(f[(k + 1) - 1], LAMBDA c : RewriteFunctionUses(c, PthreadRewrites[k + 1][1], PthreadRewrites[k + 1][2]))
    BY <1>4, <2>1
  <2>5. f[k + 1] = Walked(m, k + 1)
    BY <2>2, <2>3, <2>4
  <2> QED
    BY <2>1, <2>5
<1>7. 0 .. Pairs \subseteq T
  <2> HIDE DEF T
  <2> QED
    BY <1>5, <1>6, Climb, RewritesAre
<1>8. Pairs \in 0 .. Pairs
  BY RewritesAre
<1> QED
  BY <1>1, <1>7, <1>8

\* The function that a call of f reaches, once the entry point is wrapped (w) and
\* calls are rewritten (d), and the call itself.
Goes(w, d, f) == IF w /\ f = Entry THEN Original ELSE IF d THEN Target(Pairs, f) ELSE f
Gone(w, d, i) == IF IsCall(i) THEN [op |-> "call", callee |-> Goes(w, d, i.callee), args |-> i.args] ELSE i
Base(w, d, c) == [j \in DOMAIN c |-> Gone(w, d, c[j])]

\* Instructions stay what they are, but for the functions they call.
LEMMA GoneFacts ==
  ASSUME NEW i, IsInstruction(i), NEW w \in BOOLEAN, NEW d \in BOOLEAN
  PROVE  /\ IsInstruction(Gone(w, d, i)) /\ (Announced(Gone(w, d, i)) <=> Announced(i))
         /\ Announced(i) => Gone(w, d, i) = i
         /\ Gone(FALSE, FALSE, i) = i
         /\ Via(Pairs, Gone(w, d, i)) = Gone(w, TRUE, i)
         /\ (IF IsCall(i) /\ i.callee = Entry THEN [i EXCEPT !.callee = Original] ELSE i)
              = Gone(TRUE, FALSE, i)
<1>1. CASE ~IsCall(i)
  BY <1>1 DEF Gone, Via
<1>2. CASE IsCall(i)
  <2> DEFINE x(f) == [op |-> "call", callee |-> f, args |-> i.args]
             f == i.callee
  <2>1. i = x(f)
    BY <1>2 DEF IsInstruction, IsCall, AccessKind
  <2>2. \A g : IsCall(x(g)) /\ x(g).callee = g /\ x(g).args = i.args /\ IsInstruction(x(g)) /\ ~Announced(x(g))
    BY DEF IsCall, IsInstruction, Announced
  <2>3. \A a, e : Gone(a, e, i) = x(Goes(a, e, f))
    BY <1>2 DEF Gone
  <2>4. Goes(FALSE, FALSE, f) = f /\ Goes(TRUE, FALSE, f) = IF f = Entry THEN Original ELSE f
    BY DEF Goes
  <2>5. [x(f) EXCEPT !.callee = Original] = x(Original)
    OBVIOUS
  <2>6. Target(Pairs, Goes(w, d, f)) = Goes(w, TRUE, f)
    <3>1. Target(Pairs, Target(Pairs, f)) = Target(Pairs, f)
      BY TargetFacts
    <3>2. Target(Pairs, Original) = Original
      <4>1. Pairs \in 0 .. Pairs
        BY RewritesAre
      <4> QED
        BY <4>1, TargetFacts
    <3> QED
      BY <3>1, <3>2 DEF Goes
  <2>7. \A g : Via(Pairs, x(g)) = x(Target(Pairs, g))
    BY <2>2 DEF Via
  <2>8. ~Announced(i)
    BY <1>2 DEF Announced
  <2> HIDE DEF x, f
  <2>9. Via(Pairs, Gone(w, d, i)) = Gone(w, TRUE, i)
    BY <2>3, <2>6, <2>7
  <2>10. IsInstruction(Gone(w, d, i)) /\ (Announced(Gone(w, d, i)) <=> Announced(i))
    BY <2>2, <2>3, <2>8
  <2>11. Gone(FALSE, FALSE, i) = i
    BY <2>1, <2>3, <2>4
  <2>12. (IF IsCall(i) /\ i.callee = Entry THEN [i EXCEPT !.callee = Original] ELSE i) = Gone(TRUE, FALSE, i)
    <3>1. Gone(TRUE, FALSE, i) = x(IF f = Entry THEN Original ELSE f) /\ f = i.callee
      BY <2>3, <2>4 DEF f
    <3>2. [i EXCEPT !.callee = Original] = x(Original)
      BY <2>1, <2>5
    <3>3. CASE f = Entry
      BY <1>2, <3>1, <3>2, <3>3
    <3>4. CASE f # Entry
      BY <1>2, <2>1, <3>1, <3>4
    <3> QED
      BY <3>3, <3>4
  <2> QED
    BY <2>8, <2>9, <2>10, <2>11, <2>12
<1> QED
  BY <1>1, <1>2

\* A function on 1 .. n of instructions is a list of instructions.
LEMMA CodeIntro ==
  ASSUME NEW n \in Nat, NEW c, c = [j \in 1 .. n |-> c[j]], \A j \in 1 .. n : IsInstruction(c[j])
  PROVE  IsCode(c) /\ Len(c) = n /\ DOMAIN c = 1 .. n
<1>1. DOMAIN c = 1 .. n /\ \A j \in 1 .. n : c[j] \in Range(c)
  BY DEF Range
<1>2. c \in Seq(Range(c)) /\ Len(c) = n
  <2> DEFINE R == Range(c)
  <2>1. \A j \in 1 .. n : c[j] \in R
    BY <1>1
  <2> HIDE DEF R
  <2>2. c \in [1 .. n -> R]
    BY <1>1, <2>1
  <2>3. c \in Seq(R) /\ Len(c) = n
    BY <2>2
  <2> QED
    BY <2>3 DEF R
<1>3. \A i \in Range(c) : IsInstruction(i)
  BY <1>1 DEF Range
<1> QED
  BY <1>1, <1>2, <1>3 DEF IsCode

\* The list of the program with its calls redirected.
LEMMA BaseFacts ==
  ASSUME NEW c, IsCode(c), NEW w \in BOOLEAN, NEW d \in BOOLEAN
  PROVE  /\ IsCode(Base(w, d, c)) /\ Len(Base(w, d, c)) = Len(c)
         /\ \A j \in 1 .. Len(c) :
              /\ Base(w, d, c)[j] = Gone(w, d, c[j]) /\ IsInstruction(c[j])
              /\ Announced(Base(w, d, c)[j]) <=> Announced(c[j])
              /\ Announced(c[j]) => Base(w, d, c)[j] = c[j]
<1> DEFINE b == Base(w, d, c)
<1>1. Len(c) \in Nat /\ DOMAIN c = 1 .. Len(c) /\ \A j \in 1 .. Len(c) : IsInstruction(c[j])
  BY CodeFacts
<1>2. b = [j \in 1 .. Len(c) |-> b[j]] /\ \A j \in 1 .. Len(c) : b[j] = Gone(w, d, c[j])
  BY <1>1 DEF Base
<1> HIDE DEF b
<1>3. \A j \in 1 .. Len(c) : IsInstruction(b[j]) /\ (Announced(b[j]) <=> Announced(c[j]))
                             /\ (Announced(c[j]) => b[j] = c[j])
  <2> SUFFICES ASSUME NEW j \in 1 .. Len(c)
               PROVE  IsInstruction(b[j]) /\ (Announced(b[j]) <=> Announced(c[j]))
                      /\ (Announced(c[j]) => b[j] = c[j])
    OBVIOUS
  <2>1. IsInstruction(c[j]) /\ b[j] = Gone(w, d, c[j])
    BY <1>1, <1>2
  <2>2. /\ IsInstruction(Gone(w, d, c[j])) /\ (Announced(Gone(w, d, c[j])) <=> Announced(c[j]))
        /\ Announced(c[j]) => Gone(w, d, c[j]) = c[j]
    BY <2>1, GoneFacts
  <2> QED
    BY <2>1, <2>2
<1>4. IsCode(b) /\ Len(b) = Len(c)
  BY <1>1, <1>2, <1>3, CodeIntro
<1> QED
  BY <1>1, <1>2, <1>3, <1>4 DEF b

\* A module whose functions get other code.
LEMMA WellFormedIntro ==
  ASSUME NEW m, WellFormed(m), NEW r, r = [k \in DOMAIN m |-> r[k]],
         \A k \in DOMAIN m : IsFunction(r[k])
  PROVE  WellFormed(r) /\ DOMAIN r = DOMAIN m /\ Len(r) = Len(m) /\ Len(m) \in Nat /\ DOMAIN m = 1 .. Len(m)
<1> DEFINE n == Len(m)
           R == Range(r)
<1>1. n \in Nat /\ DOMAIN m = 1 .. n
  BY DEF WellFormed
<1>2. DOMAIN r = 1 .. n /\ \A k \in 1 .. n : r[k] \in R
  BY <1>1 DEF Range
<1> HIDE DEF n, R
<1>3. r \in [1 .. n -> R]
  BY <1>1, <1>2
<1>4. r \in Seq(R) /\ Len(r) = n
  BY <1>1, <1>3
<1> QED
  BY <1>1, <1>2, <1>4 DEF WellFormed, n, R

\* A function of a module.
LEMMA FunctionFacts ==
  ASSUME NEW f
  PROVE  IsFunction(f) <=> f = [name |-> f.name, code |-> f.code] /\ IsCode(f.code)
BY DEF IsFunction, IsCode

\* The function that the pass adds.
LEMMA WrapperFacts ==
  /\ IsFunction(Wrapper) /\ InstrumentCode(Wrapper.code) = Wrapper.code
  /\ [j \in DOMAIN Wrapper.code |-> Via(Pairs, Wrapper.code[j])] = Wrapper.code
  /\ Wrapper = [name |-> Entry, code |-> Wrapper.code]
<1> DEFINE x == [op |-> "call", callee |-> Helper, args |-> <<Original>>]
           c == <<x>>
<1>1. Wrapper = [name |-> Entry, code |-> c] /\ Wrapper.code = c /\ Wrapper.name = Entry
  BY DEF Wrapper
<1>2. IsCall(x) /\ IsInstruction(x) /\ ~Announced(x) /\ x.callee = Helper /\ x.args = <<Original>>
  BY DEF IsCall, IsInstruction, Announced
<1>3. Via(Pairs, x) = x
  <2>1. Pairs \in 0 .. Pairs
    BY RewritesAre
  <2>2. Target(Pairs, Helper) = Helper
    BY <2>1, TargetFacts
  <2> QED
    BY <1>2, <2>2 DEF Via
<1> HIDE DEF x
<1>4. c = [j \in 1 .. 1 |-> c[j]] /\ c[1] = x /\ DOMAIN c = 1 .. 1 /\ Len(c) = 1
  OBVIOUS
<1> HIDE DEF c
<1>5. IsCode(c)
  <2>1. \A j \in 1 .. 1 : IsInstruction(c[j])
    BY <1>2, <1>4
  <2> QED
    BY <1>4, <2>1, CodeIntro
<1>6. InstrumentCode(c) = c
  <2> DEFINE v == InstrumentCode(c)
  <2>1. /\ v \in Seq(Material(c)) /\ Len(v) = Len(c) + Count(c, Len(c))
        /\ \A i \in 1 .. Len(c) : v[i + Count(c, i)] = c[i]
    BY <1>5, InstrumentCodeIs
  <2>2. Count(c, 1) = 0
    <3>1. Count(c, 0 + 1) = Count(c, 0) + IF Announced(c[0 + 1]) THEN 1 ELSE 0
      BY CountFacts
    <3>2. Count(c, 0) = 0
      BY CountFacts
    <3> QED
      BY <1>2, <1>4, <3>1, <3>2
  <2> HIDE DEF v
  <2>3. Len(v) = 1 /\ v[1] = x
    BY <1>4, <2>1, <2>2
  <2>4. v = [j \in 1 .. 1 |-> v[j]]
    <3>1. \A M : v \in Seq(M) => v = [j \in 1 .. Len(v) |-> v[j]]
      OBVIOUS
    <3>2. v = [j \in 1 .. Len(v) |-> v[j]]
      BY <2>1, <3>1
    <3> QED
      BY <2>3, <3>2
  <2>5. v = c
    BY <1>4, <2>3, <2>4
  <2> QED
    BY <2>5 DEF v
<1>7. [j \in DOMAIN c |-> Via(Pairs, c[j])] = c
  BY <1>3, <1>4
<1> QED
  BY <1>1, <1>5, <1>6, <1>7, FunctionFacts

(***************************************************************************)
(* The module m made from s by p runs of the pass; w: the entry point is   *)
(* wrapped, d: calls are rewritten.                                        *)
(***************************************************************************)
Laid(s, m, p, w, d) ==
    /\ WellFormed(m) /\ Len(m) = Len(s) + (IF w THEN 1 ELSE 0)
    /\ \A k \in 1 .. Len(s) :
        /\ m[k].name = IF w /\ s[k].name = Entry THEN Original ELSE s[k].name
        /\ Spread(Base(w, d, s[k].code), m[k].code, p)
    /\ w => m[Len(s) + 1] = Wrapper

\* The parts of a module.
LEMMA ModuleFacts ==
  ASSUME NEW m, WellFormed(m)
  PROVE  /\ Len(m) \in Nat /\ DOMAIN m = 1 .. Len(m) /\ m = [k \in 1 .. Len(m) |-> m[k]]
         /\ \A k \in 1 .. Len(m) :
              m[k] = [name |-> m[k].name, code |-> m[k].code] /\ IsCode(m[k].code)
<1>1. Len(m) \in Nat /\ DOMAIN m = 1 .. Len(m) /\ m = [k \in 1 .. Len(m) |-> m[k]]
  BY DEF WellFormed
<1> QED
  BY <1>1, FunctionFacts DEF WellFormed

\* A list that was not walked yet.
LEMMA SpreadStart ==
  ASSUME NEW c, IsCode(c)
  PROVE  Spread(c, c, 0)
<1>1. Len(c) \in Nat
  BY CodeFacts
<1>2. \A j \in Nat : Place(c, j, 0) = j
  BY CountFacts DEF Place
<1> QED
  BY <1>1, <1>2 DEF Spread

\* Before the first run.
LEMMA LaidStart ==
  ASSUME NEW s, WellFormed(s)
  PROVE  Laid(s, s, 0, FALSE, FALSE)
<1>1. /\ Len(s) \in Nat
      /\ \A k \in 1 .. Len(s) :
           s[k] = [name |-> s[k].name, code |-> s[k].code] /\ IsCode(s[k].code)
  BY ModuleFacts
<1>2. ASSUME NEW c, IsCode(c) PROVE Base(FALSE, FALSE, c) = c
  <2>1. c = [j \in DOMAIN c |-> c[j]] /\ \A j \in DOMAIN c : IsInstruction(c[j])
    BY <1>2, CodeFacts DEF IsCode
  <2>2. \A j \in DOMAIN c : Gone(FALSE, FALSE, c[j]) = c[j]
    BY <2>1, GoneFacts
  <2> QED
    BY <2>1, <2>2 DEF Base
<1>3. \A k \in 1 .. Len(s) : Spread(Base(FALSE, FALSE, s[k].code), s[k].code, 0)
  BY <1>1, <1>2, SpreadStart
<1>4. Len(s) = Len(s) + (IF FALSE THEN 1 ELSE 0)
  BY <1>1
<1> QED
  BY <1>3, <1>4 DEF Laid

\* The run that wraps the entry point.
LEMMA LaidWrapped ==
  ASSUME NEW s, WellFormed(s), MustWrap(s)
  PROVE  Laid(s, WrapFuzzerEntrypoint(s), 0, TRUE, FALSE)
<1> DEFINE n == Len(s)
           r == [k \in DOMAIN s |->
                   [name |-> IF s[k].name = Entry THEN Original ELSE s[k].name,
                    code |-> RenameUses(s[k].code)]]
           t == Append(r, Wrapper)
<1>1. /\ n \in Nat /\ DOMAIN s = 1 .. n
      /\ \A k \in 1 .. n : IsCode(s[k].code)
  BY ModuleFacts
<1>2. WrapFuzzerEntrypoint(s) = t
  BY DEF WrapFuzzerEntrypoint
<1>3. ASSUME NEW c, IsCode(c) PROVE RenameUses(c) = Base(TRUE, FALSE, c)
  <2>1. \A j \in DOMAIN c : IsInstruction(c[j])
    BY <1>3, CodeFacts
  <2>2. \A j \in DOMAIN c :
          (IF IsCall(c[j]) /\ c[j].callee = Entry THEN [c[j] EXCEPT !.callee = Original] ELSE c[j])
            = Gone(TRUE, FALSE, c[j])
    BY <2>1, GoneFacts
  <2> QED
    BY <2>2 DEF RenameUses, Base
<1>4. ASSUME NEW k \in 1 .. n
      PROVE  /\ r[k] = [name |-> IF s[k].name = Entry THEN Original ELSE s[k].name,
                        code |-> Base(TRUE, FALSE, s[k].code)]
             /\ IsFunction(r[k])
  <2>1. IsCode(s[k].code) /\ r[k] = [name |-> IF s[k].name = Entry THEN Original ELSE s[k].name,
                                     code |-> Base(TRUE, FALSE, s[k].code)]
    BY <1>1, <1>3
  <2>2. IsCode(Base(TRUE, FALSE, s[k].code))
    BY <2>1, BaseFacts
  <2> HIDE DEF r
  <2>3. r[k] = [name |-> r[k].name, code |-> r[k].code] /\ r[k].code = Base(TRUE, FALSE, s[k].code)
    BY <2>1
  <2>4. IsFunction(r[k])
    BY <2>2, <2>3, FunctionFacts
  <2> QED
    BY <2>1, <2>4
<1>5. r = [k \in DOMAIN s |-> r[k]]
  OBVIOUS
<1> HIDE DEF r
<1>6. WellFormed(r) /\ Len(r) = n /\ DOMAIN r = 1 .. n
  BY <1>1, <1>4, <1>5, WellFormedIntro
<1>7. /\ t = [k \in 1 .. n + 1 |-> t[k]] /\ Len(t) = n + 1 /\ t[n + 1] = Wrapper
      /\ \A k \in 1 .. n : t[k] = r[k]
  <2> DEFINE R == Range(r) \cup {Wrapper}
  <2>1. r \in Seq(Range(r))
    BY <1>6 DEF WellFormed
  <2>2. \A S : r \in Seq(S) => r \in Seq(S \cup {Wrapper})
    OBVIOUS
  <2>3. r \in Seq(R) /\ Wrapper \in R
    BY <2>1, <2>2
  <2> HIDE DEF R
  <2> QED
    <3>1. ASSUME NEW S, NEW q \in Seq(S), NEW e \in S
          PROVE  /\ Append(q, e) = [k \in 1 .. Len(q) + 1 |-> Append(q, e)[k]]
                 /\ Len(Append(q, e)) = Len(q) + 1 /\ Append(q, e)[Len(q) + 1] = e
                 /\ \A k \in 1 .. Len(q) : Append(q, e)[k] = q[k]
      <4>1. /\ Append(q, e) \in Seq(S) /\ Len(Append(q, e)) = Len(q) + 1 /\ Append(q, e)[Len(q) + 1] = e
            /\ \A k \in 1 .. Len(q) : Append(q, e)[k] = q[k]
        BY AppendProperties
      <4>2. \A a \in Seq(S) : a = [k \in 1 .. Len(a) |-> a[k]]
        OBVIOUS
      <4> QED
        BY <4>1, <4>2
    <3>2. /\ t = [k \in 1 .. Len(r) + 1 |-> t[k]]
          /\ Len(t) = Len(r) + 1 /\ t[Len(r) + 1] = Wrapper
          /\ \A k \in 1 .. Len(r) : t[k] = r[k]
      BY <2>3, <3>1
    <3> HIDE DEF t
    <3> QED
      BY <1>6, <3>2
<1> HIDE DEF t
<1>8. \A k \in 1 .. n + 1 : IsFunction(t[k])
  <2>1. \A k \in 1 .. n + 1 : k \in 1 .. n \/ k = n + 1
    BY <1>1
  <2> QED
    BY <1>4, <1>7, <2>1, WrapperFacts
<1>9. WellFormed(t)
  <2>1. DOMAIN t = 1 .. n + 1 /\ \A k \in 1 .. n + 1 : t[k] \in Range(t)
    BY <1>7 DEF Range
  <2>2. t \in Seq(Range(t))
    <3> DEFINE R == Range(t)
    <3>1. \A k \in 1 .. n + 1 : t[k] \in R
      BY <2>1
    <3> HIDE DEF R
    <3>2. t \in [1 .. n + 1 -> R] /\ n + 1 \in Nat
      BY <1>1, <1>7, <3>1
    <3>3. t \in Seq(R)
      BY <3>2
    <3> QED
      BY <3>3 DEF R
  <2> QED
    BY <1>8, <2>1, <2>2 DEF WellFormed
<1>10. ASSUME NEW k \in 1 .. n
       PROVE  /\ t[k].name = IF s[k].name = Entry THEN Original ELSE s[k].name
              /\ Spread(Base(TRUE, FALSE, s[k].code), t[k].code, 0)
  <2>1. IsCode(Base(TRUE, FALSE, s[k].code))
    BY <1>1, BaseFacts
  <2>2. t[k].code = Base(TRUE, FALSE, s[k].code)
        /\ t[k].name = IF s[k].name = Entry THEN Original ELSE s[k].name
    <3>1. t[k] = [name |-> IF s[k].name = Entry THEN Original ELSE s[k].name,
                  code |-> Base(TRUE, FALSE, s[k].code)]
      BY <1>4, <1>7
    <3> QED
      BY <3>1
  <2> QED
    BY <2>1, <2>2, SpreadStart
<1> QED
  BY <1>2, <1>7, <1>9, <1>10 DEF Laid, n

\* instrument_atomics.
LEMMA LaidInstrumented ==
  ASSUME NEW s, WellFormed(s), NEW m, NEW p \in Nat, NEW w \in BOOLEAN, NEW d \in BOOLEAN,
         Laid(s, m, p, w, d)
  PROVE  Laid(s, InstrumentAtomics(m), p + 1, w, d)
<1> DEFINE r == InstrumentAtomics(m)
<1>1. WellFormed(m) /\ Len(m) = Len(s) + (IF w THEN 1 ELSE 0)
  BY DEF Laid
<1>2. /\ Len(m) \in Nat /\ DOMAIN m = 1 .. Len(m) /\ Len(s) \in Nat
      /\ \A k \in 1 .. Len(m) :
           m[k] = [name |-> m[k].name, code |-> m[k].code] /\ IsCode(m[k].code)
      /\ \A k \in 1 .. Len(s) : IsCode(s[k].code)
  BY <1>1, ModuleFacts
<1>3. /\ r = [k \in DOMAIN m |-> r[k]]
      /\ \A k \in DOMAIN m : r[k] = [m[k] EXCEPT !.code = InstrumentCode(m[k].code)]
  BY DEF InstrumentAtomics, MapCode
<1> HIDE DEF r
<1>4. ASSUME NEW k \in 1 .. Len(m)
      PROVE  /\ r[k] = [name |-> m[k].name, code |-> InstrumentCode(m[k].code)]
             /\ IsFunction(r[k])
  <2> DEFINE c == InstrumentCode(m[k].code)
  <2>1. IsCode(c) /\ k \in DOMAIN m
    BY <1>2, InstrumentedIsCode
  <2> HIDE DEF c
  <2>2. r[k] = [name |-> m[k].name, code |-> c]
    <3>1. r[k] = [m[k] EXCEPT !.code = c]
      BY <1>3, <2>1 DEF c
    <3> QED
      BY <1>2, <3>1
  <2>3. r[k].code = c /\ r[k] = [name |-> r[k].name, code |-> r[k].code]
    BY <2>2
  <2>4. IsFunction(r[k])
    BY <2>1, <2>3, FunctionFacts
  <2> QED
    BY <2>2, <2>4 DEF c
<1>5. WellFormed(r) /\ Len(r) = Len(m)
  BY <1>1, <1>2, <1>3, <1>4, WellFormedIntro
<1>6. ASSUME NEW k \in 1 .. Len(s)
      PROVE  /\ r[k].name = m[k].name
             /\ Spread(Base(w, d, s[k].code), r[k].code, p + 1)
  <2>1. k \in 1 .. Len(m) /\ IsCode(s[k].code)
    BY <1>1, <1>2
  <2>2. IsCode(m[k].code) /\ IsCode(Base(w, d, s[k].code)) /\ Spread(Base(w, d, s[k].code), m[k].code, p)
    BY <1>2, <2>1, BaseFacts DEF Laid
  <2>3. Spread(Base(w, d, s[k].code), InstrumentCode(m[k].code), p + 1)
    BY <2>2, SpreadAgain
  <2> QED
    <3>1. r[k] = [name |-> m[k].name, code |-> InstrumentCode(m[k].code)]
      BY <1>4, <2>1
    <3>2. r[k].name = m[k].name /\ r[k].code = InstrumentCode(m[k].code)
      BY <3>1
    <3> QED
      BY <2>3, <3>2
<1>7. w => r[Len(s) + 1] = Wrapper
  <2> SUFFICES ASSUME w PROVE r[Len(s) + 1] = Wrapper
    OBVIOUS
  <2>1. Len(s) + 1 \in 1 .. Len(m) /\ m[Len(s) + 1] = Wrapper
    BY <1>1, <1>2 DEF Laid
  <2>2. r[Len(s) + 1] = [name |-> Wrapper.name, code |-> InstrumentCode(Wrapper.code)]
    BY <1>4, <2>1
  <2>3. Wrapper.name = Entry
    BY DEF Wrapper
  <2> QED
    BY <2>2, <2>3, WrapperFacts
<1>8. \A k \in 1 .. Len(s) : m[k].name = IF w /\ s[k].name = Entry THEN Original ELSE s[k].name
  BY DEF Laid
<1> QED
  BY <1>1, <1>5, <1>6, <1>7, <1>8 DEF Laid, r

\* rewrite_pthread_calls.
LEMMA LaidRewritten ==
  ASSUME NEW s, WellFormed(s), NEW m, NEW p \in Nat, NEW w \in BOOLEAN, NEW d \in BOOLEAN,
         Laid(s, m, p, w, d)
  PROVE  Laid(s, RewritePthreadCalls(m), p, w, TRUE)
<1> DEFINE r == RewritePthreadCalls(m)
           Moved(c) == [j \in DOMAIN c |-> Via(Pairs, c[j])]
<1>1. WellFormed(m) /\ Len(m) = Len(s) + (IF w THEN 1 ELSE 0)
  BY DEF Laid
<1>2. /\ Len(m) \in Nat /\ DOMAIN m = 1 .. Len(m) /\ Len(s) \in Nat
      /\ \A k \in 1 .. Len(m) :
           m[k] = [name |-> m[k].name, code |-> m[k].code] /\ IsCode(m[k].code)
      /\ \A k \in 1 .. Len(s) : IsCode(s[k].code)
  BY <1>1, ModuleFacts
<1>3. /\ r = [k \in DOMAIN m |-> r[k]]
      /\ \A k \in DOMAIN m : r[k] = [name |-> m[k].name, code |-> Moved(m[k].code)]
  BY <1>1, RewritePthreadCallsIs DEF Walked
<1>0. Pairs \in 0 .. Pairs
  BY RewritesAre
<1>4. ASSUME NEW c, IsCode(c)
      PROVE  /\ IsCode(Moved(c)) /\ Len(Moved(c)) = Len(c)
             /\ \A j \in 1 .. Len(c) : Moved(c)[j] = Via(Pairs, c[j])
  <2> DEFINE v == Moved(c)
  <2>1. Len(c) \in Nat /\ DOMAIN c = 1 .. Len(c) /\ \A j \in 1 .. Len(c) : IsInstruction(c[j])
    BY <1>4, CodeFacts
  <2>2. v = [j \in 1 .. Len(c) |-> v[j]] /\ \A j \in 1 .. Len(c) : v[j] = Via(Pairs, c[j])
    BY <2>1
  <2> HIDE DEF v
  <2>3. \A j \in 1 .. Len(c) : IsInstruction(v[j])
    BY <1>0, <2>1, <2>2, ViaFacts
  <2>4. IsCode(v) /\ Len(v) = Len(c)
    BY <2>1, <2>2, <2>3, CodeIntro
  <2> QED
    BY <2>2, <2>4 DEF v
<1>5. [j \in DOMAIN Wrapper.code |-> Via(Pairs, Wrapper.code[j])] = Moved(Wrapper.code)
  OBVIOUS
<1> HIDE DEF r, Moved
<1>6. ASSUME NEW k \in 1 .. Len(m)
      PROVE  /\ r[k] = [name |-> m[k].name, code |-> Moved(m[k].code)]
             /\ IsFunction(r[k])
  <2>1. IsCode(Moved(m[k].code)) /\ r[k] = [name |-> m[k].name, code |-> Moved(m[k].code)]
    BY <1>2, <1>3, <1>4
  <2>2. r[k].code = Moved(m[k].code) /\ r[k] = [name |-> r[k].name, code |-> r[k].code]
    BY <2>1
  <2>3. IsFunction(r[k])
    BY <2>1, <2>2, FunctionFacts
  <2> QED
    BY <2>1, <2>3
<1>7. WellFormed(r) /\ Len(r) = Len(m)
  BY <1>1, <1>2, <1>3, <1>6, WellFormedIntro
<1>8. ASSUME NEW k \in 1 .. Len(s)
      PROVE  /\ r[k].name = m[k].name
             /\ Spread(Base(w, TRUE, s[k].code), r[k].code, p)
  <2> DEFINE c == s[k].code
             b == Base(w, d, c)
             e == Base(w, TRUE, c)
             v == m[k].code
             u == r[k].code
  <2>1. k \in 1 .. Len(m) /\ IsCode(c)
    BY <1>1, <1>2
  <2>2. IsCode(v) /\ Spread(b, v, p) /\ u = Moved(v) /\ r[k].name = m[k].name
    <3>1. r[k] = [name |-> m[k].name, code |-> Moved(m[k].code)] /\ IsCode(m[k].code)
      BY <1>2, <1>6, <2>1
    <3>2. r[k].name = m[k].name /\ r[k].code = Moved(m[k].code)
      BY <3>1
    <3>3. Spread(b, v, p)
      BY DEF Laid
    <3> QED
      BY <3>1, <3>2, <3>3
  <2>3. IsCode(b) /\ Len(b) = Len(c) /\ Len(e) = Len(c)
    BY <2>1, BaseFacts
  <2>4. Len(u) = Len(v) /\ \A q \in 1 .. Len(v) : u[q] = Via(Pairs, v[q])
    BY <1>4, <2>2
  <2>5. ASSUME NEW j \in 1 .. Len(c)
        PROVE  /\ Announced(e[j]) <=> Announced(b[j])
               /\ Announced(b[j]) => e[j] = b[j]
               /\ Via(Pairs, b[j]) = e[j]
    <3>1. /\ b[j] = Gone(w, d, c[j]) /\ IsInstruction(c[j]) /\ (Announced(b[j]) <=> Announced(c[j]))
          /\ Announced(c[j]) => b[j] = c[j]
      BY <2>1, BaseFacts
    <3>2. /\ e[j] = Gone(w, TRUE, c[j]) /\ (Announced(e[j]) <=> Announced(c[j]))
          /\ Announced(c[j]) => e[j] = c[j]
      BY <2>1, BaseFacts
    <3>3. Via(Pairs, Gone(w, d, c[j])) = Gone(w, TRUE, c[j])
      BY <3>1, GoneFacts
    <3> QED
      BY <3>1, <3>2, <3>3
  <2> HIDE DEF c, b, e, v, u
  <2>6. ASSUME NEW j \in 1 .. Len(b), NEW q \in 1 .. Len(v)
        PROVE  /\ v[q] = b[j] => u[q] = e[j]
               /\ v[q] = Announcement(b[j]) => u[q] = v[q]
    BY <1>0, <2>3, <2>4, <2>5, ViaAnnouncement
  <2>7. Spread(e, u, p)
    BY <2>2, <2>3, <2>4, <2>5, <2>6, SpreadMapped
  <2> QED
    BY <2>2, <2>7 DEF e, u, c
<1>9. w => r[Len(s) + 1] = Wrapper
  <2> SUFFICES ASSUME w PROVE r[Len(s) + 1] = Wrapper
    OBVIOUS
  <2>1. Len(s) + 1 \in 1 .. Len(m) /\ m[Len(s) + 1] = Wrapper
    BY <1>1, <1>2 DEF Laid
  <2>2. r[Len(s) + 1] = [name |-> Wrapper.name, code |-> Moved(Wrapper.code)]
    BY <1>6, <2>1
  <2>3. Wrapper.name = Entry
    BY DEF Wrapper
  <2> QED
    BY <1>5, <2>2, <2>3, WrapperFacts
<1>10. \A k \in 1 .. Len(s) : m[k].name = IF w /\ s[k].name = Entry THEN Original ELSE s[k].name
  BY DEF Laid
<1> QED
  BY <1>1, <1>7, <1>8, <1>9, <1>10 DEF Laid, r

\* What PassAssumption says of one module.
LEMMA ModuleAssumed ==
  ASSUME NEW s \in Modules
  PROVE  /\ WellFormed(s) /\ Original \notin Names(s)
         /\ \A j, k \in DOMAIN s : s[j].name = s[k].name => j = k
<1>1. /\ s \in Seq(Range(s)) /\ \A f \in Range(s) : IsFunction(f)
      /\ \A j, k \in DOMAIN s : s[j].name = s[k].name => j = k
      /\ Original \notin Names(s)
  BY PassAssumption
<1>2. \A k \in DOMAIN s : s[k] \in Range(s)
  BY DEF Range
<1> QED
  BY <1>1, <1>2 DEF WellFormed

\* The names in a module.
LEMMA LaidNames ==
  ASSUME NEW s \in Modules, NEW m, NEW p, NEW w \in BOOLEAN, NEW d, Laid(s, m, p, w, d)
  PROVE  /\ Len(s) \in Nat /\ DOMAIN s = 1 .. Len(s)
         /\ DOMAIN m = 1 .. Len(s) + (IF w THEN 1 ELSE 0)
         /\ \A k \in 1 .. Len(s) :
              /\ s[k].name # Original
              /\ m[k].name = IF w /\ s[k].name = Entry THEN Original ELSE s[k].name
         /\ w => m[Len(s) + 1] = Wrapper /\ m[Len(s) + 1].name = Entry
<1>1. WellFormed(s) /\ Original \notin Names(s)
  BY ModuleAssumed
<1>2. Len(s) \in Nat /\ DOMAIN s = 1 .. Len(s)
  BY <1>1, ModuleFacts
<1>3. \A k \in 1 .. Len(s) : s[k].name # Original
  BY <1>1, <1>2 DEF Names
<1>4. WellFormed(m) /\ Len(m) = Len(s) + (IF w THEN 1 ELSE 0)
  BY DEF Laid
<1>5. DOMAIN m = 1 .. Len(m)
  BY <1>4, ModuleFacts
<1>6. Wrapper.name = Entry
  BY DEF Wrapper
<1> QED
  BY <1>2, <1>3, <1>4, <1>5, <1>6 DEF Laid

\* A module that the pass has seen is not wrapped again.
LEMMA WrapTwice ==
  ASSUME NEW s \in Modules, NEW m, NEW p, NEW d, Laid(s, m, p, MustWrap(s), d)
  PROVE  WrapFuzzerEntrypoint(m) = m
<1>1. MustWrap(s) \in BOOLEAN
  BY DEF MustWrap
<1> DEFINE w == MustWrap(s)
<1>2. /\ Len(s) \in Nat /\ DOMAIN s = 1 .. Len(s)
      /\ DOMAIN m = 1 .. Len(s) + (IF w THEN 1 ELSE 0)
      /\ \A k \in 1 .. Len(s) :
           /\ s[k].name # Original
           /\ m[k].name = IF w /\ s[k].name = Entry THEN Original ELSE s[k].name
  BY <1>1, LaidNames
<1>3. CASE w
  <2>1. PICK k \in 1 .. Len(s) : s[k].name = Entry
    BY <1>2, <1>3 DEF MustWrap, Names
  <2>2. k \in DOMAIN m /\ m[k].name = Original
    BY <1>2, <1>3, <2>1
  <2>3. Original \in Names(m)
    BY <2>2 DEF Names
  <2> QED
    BY <2>3 DEF WrapFuzzerEntrypoint, MustWrap
<1>4. CASE ~w
  <2>1. Original \notin Names(s)
    BY <1>2 DEF Names
  <2>2. Entry \notin Names(s)
    BY <1>4, <2>1 DEF MustWrap
  <2>3. \A k \in 1 .. Len(s) : s[k].name # Entry
    BY <1>2, <2>2 DEF Names
  <2>4. DOMAIN m = 1 .. Len(s) /\ \A k \in 1 .. Len(s) : m[k].name = s[k].name
    <3> HIDE DEF w
    <3> QED
      BY <1>2, <1>4
  <2>5. Entry \notin Names(m)
    BY <2>3, <2>4 DEF Names
  <2> QED
    BY <2>5 DEF WrapFuzzerEntrypoint, MustWrap
<1> QED
  BY <1>3, <1>4

\* The inductive invariant of the pass.
PassInv ==
    /\ source \in Modules /\ passes \in Nat /\ direct \in BOOLEAN
    /\ passes = 0 => mod = source /\ direct = FALSE
    /\ Laid(source, mod, passes, passes > 0 /\ MustWrap(source), direct)

\* A run of the pass.
LEMMA RunPassLaid ==
  ASSUME PassInv, NEW e \in BOOLEAN, RunPass(e)
  PROVE  PassInv'
<1> DEFINE w == MustWrap(source)
           q == WrapFuzzerEntrypoint(mod)
           i == InstrumentAtomics(q)
<1>1. /\ source \in Modules /\ passes \in Nat /\ direct \in BOOLEAN
      /\ source' = source /\ passes' = passes + 1 /\ direct' = (direct \/ e)
      /\ mod' = IF e THEN RewritePthreadCalls(i) ELSE i
  BY DEF PassInv, RunPass
<1>2. w \in BOOLEAN /\ WellFormed(source)
  BY <1>1, ModuleAssumed DEF MustWrap
<1>3. Laid(source, q, passes, w, direct)
  <2>1. CASE passes = 0
    <3>1. mod = source /\ direct = FALSE
      BY <2>1 DEF PassInv
    <3>2. CASE w
      <4>1. Laid(source, WrapFuzzerEntrypoint(source), 0, TRUE, FALSE)
        BY <1>2, <3>2, LaidWrapped
      <4>2. w = TRUE
        BY <1>2, <3>2
      <4> QED
        BY <2>1, <3>1, <4>1, <4>2
    <3>3. CASE ~w
      <4>1. Laid(source, source, 0, FALSE, FALSE)
        BY <1>2, LaidStart
      <4>2. q = source
        BY <3>1, <3>3 DEF WrapFuzzerEntrypoint
      <4>3. w = FALSE
        BY <1>2, <3>3
      <4> QED
        BY <2>1, <3>1, <4>1, <4>2, <4>3
    <3> QED
      BY <3>2, <3>3
  <2>2. CASE passes # 0
    <3>1. (passes > 0 /\ MustWrap(source)) = MustWrap(source)
      BY <1>1, <1>2, <2>2
    <3>2. Laid(source, mod, passes, MustWrap(source), direct)
      BY <3>1 DEF PassInv
    <3>3. q = mod
      BY <1>1, <3>2, WrapTwice
    <3> QED
      BY <3>2, <3>3
  <2> QED
    BY <2>1, <2>2
<1> HIDE DEF q
<1>4. Laid(source, i, passes + 1, w, direct)
  BY <1>1, <1>2, <1>3, LaidInstrumented
<1> HIDE DEF i
<1>5. Laid(source, mod', passes + 1, w, direct')
  <2>1. CASE e
    <3>1. Laid(source, RewritePthreadCalls(i), passes + 1, w, TRUE)
      <4>1. passes + 1 \in Nat
        BY <1>1
      <4> HIDE DEF w
      <4> QED
        BY <1>1, <1>2, <1>4, <4>1, LaidRewritten
    <3>2. direct' = TRUE /\ mod' = RewritePthreadCalls(i)
      BY <1>1, <2>1
    <3> QED
      BY <3>1, <3>2
  <2>2. CASE ~e
    <3>1. direct' = direct /\ mod' = i
      BY <1>1, <2>2
    <3> QED
      BY <1>4, <3>1
  <2> QED
    BY <2>1, <2>2
<1>6. (passes' > 0 /\ MustWrap(source')) = w
  BY <1>1, <1>2
<1>7. Laid(source', mod', passes', passes' > 0 /\ MustWrap(source'), direct')
  BY <1>1, <1>5, <1>6
<1>8. passes' \in Nat /\ passes' # 0 /\ direct' \in BOOLEAN /\ source' \in Modules
  BY <1>1
<1> QED
  BY <1>7, <1>8 DEF PassInv

\* However often the pass runs, with or without rewriting of calls, the module is
\* the compiled one with its functions, calls and announcements in their places.
THEOREM PassInvariant == PassSpec => []PassInv
<1>1. PassInit => PassInv
  <2> SUFFICES ASSUME PassInit PROVE PassInv
    OBVIOUS
  <2>1. source \in Modules /\ mod = source /\ passes = 0 /\ direct = FALSE
    BY DEF PassInit
  <2>2. Laid(source, source, 0, FALSE, FALSE)
    BY <2>1, ModuleAssumed, LaidStart
  <2>3. (passes > 0 /\ MustWrap(source)) = FALSE
    BY <2>1
  <2>4. Laid(source, mod, passes, passes > 0 /\ MustWrap(source), direct)
    BY <2>1, <2>2, <2>3
  <2> QED
    BY <2>1, <2>4 DEF PassInv
<1>2. PassInv /\ [PassNext]_passVars => PassInv'
  <2>1. CASE PassNext
    BY <2>1, RunPassLaid DEF PassNext
  <2>2. CASE UNCHANGED passVars
    BY <2>2 DEF PassInv, passVars
  <2> QED
    BY <2>1, <2>2
<1> QED
  BY <1>1, <1>2, PTL DEF PassSpec

\* Every instruction of the program is kept, in order and with its calls redirected,
\* and every atomic access of known size is announced with its own address, size and
\* kind immediately before it, once per run: for functions of any length.
THEOREM PassFaithfulHolds == PassSpec => []PassFaithful
<1>1. PassInv => PassFaithful
  <2> SUFFICES ASSUME PassInv, NEW k \in DOMAIN source
               PROVE  /\ Len(mod[k].code) = Place(source[k].code, Len(source[k].code), passes)
                      /\ \A j \in DOMAIN source[k].code :
                          /\ mod[k].code[Place(source[k].code, j, passes)] = AfterPass(source[k].code[j])
                          /\ Announced(source[k].code[j]) =>
                              \A h \in 1 .. passes : mod[k].code[Place(source[k].code, j, passes) - h]
                                                       = Announcement(source[k].code[j])
    BY DEF PassFaithful
  <2> DEFINE w == passes > 0 /\ MustWrap(source)
             c == source[k].code
             v == mod[k].code
             b == Base(w, direct, c)
  <2>1. source \in Modules /\ passes \in Nat /\ direct \in BOOLEAN /\ w \in BOOLEAN
        /\ Laid(source, mod, passes, w, direct)
    BY DEF PassInv
  <2>2. WellFormed(source)
    BY <2>1, ModuleAssumed
  <2>3. k \in 1 .. Len(source) /\ IsCode(c)
    BY <2>2, ModuleFacts
  <2>4. Spread(b, v, passes)
    BY <2>1, <2>3 DEF Laid
  <2>5. Len(c) \in Nat /\ DOMAIN c = 1 .. Len(c)
    BY <2>3, CodeFacts
  <2>6. /\ Len(b) = Len(c)
        /\ \A j \in 1 .. Len(c) :
             /\ b[j] = Gone(w, direct, c[j]) /\ IsInstruction(c[j]) /\ (Announced(b[j]) <=> Announced(c[j]))
             /\ Announced(c[j]) => b[j] = c[j]
    <3> HIDE DEF w
    <3> QED
      BY <2>1, <2>3, BaseFacts
  <2>7. ASSUME NEW i, IsInstruction(i) PROVE AfterPass(i) = Gone(w, direct, i)
    <3>1. CASE ~IsCall(i)
      BY <3>1 DEF AfterPass, Gone
    <3>2. CASE IsCall(i)
      <4>1. i = [op |-> "call", callee |-> i.callee, args |-> i.args]
        BY <2>7, <3>2 DEF IsInstruction, IsCall, AccessKind
      <4>2. Redirected(i.callee) = Goes(w, direct, i.callee)
        <5>1. Target(Pairs, i.callee) = IF \E r \in Range(PthreadRewrites) : r[1] = i.callee
                 THEN (CHOOSE r \in Range(PthreadRewrites) : r[1] = i.callee)[2] ELSE i.callee
          BY TargetFacts
        <5> QED
          BY <5>1 DEF Redirected, Goes
      <4>3. AfterPass(i) = [i EXCEPT !.callee = Redirected(i.callee)]
        BY <3>2 DEF AfterPass
      <4>4. \A g : [i EXCEPT !.callee = g] = [op |-> "call", callee |-> g, args |-> i.args]
        BY <4>1
      <4>5. AfterPass(i) = [op |-> "call", callee |-> Goes(w, direct, i.callee), args |-> i.args]
        BY <4>2, <4>3, <4>4
      <4> QED
        BY <3>2, <4>5 DEF Gone
    <3> QED
      BY <3>1, <3>2
  <2> HIDE DEF w, c, v, b
  <2>8. \A j \in 0 .. Len(c) : Place(b, j, passes) = Place(c, j, passes)
    <3>1. \A j \in 1 .. Len(c) : Announced(b[j]) <=> Announced(c[j])
      BY <2>6
    <3>2. \A j \in 0 .. Len(c), p \in Nat : Place(b, j, p) = Place(c, j, p)
      <4>1. ASSUME NEW n \in Nat, \A j \in 1 .. n : Announced(b[j]) <=> Announced(c[j])
            PROVE  \A j \in 0 .. n, p \in Nat : Place(b, j, p) = Place(c, j, p)
        BY <4>1, SameCount, Zenon
      <4> QED
        BY <2>5, <3>1, <4>1, Zenon
    <3> QED
      BY <2>1, <3>2
  <2>9. Len(v) = Place(c, Len(c), passes)
    BY <2>4, <2>5, <2>6, <2>8 DEF Spread
  <2>10. ASSUME NEW j \in DOMAIN c
         PROVE  /\ v[Place(c, j, passes)] = AfterPass(c[j])
                /\ Announced(c[j]) => \A h \in 1 .. passes : v[Place(c, j, passes) - h] = Announcement(c[j])
    <3>1. j \in 1 .. Len(b) /\ j \in 1 .. Len(c) /\ Place(b, j, passes) = Place(c, j, passes)
      BY <2>5, <2>6, <2>8
    <3>2. /\ v[Place(b, j, passes)] = b[j]
          /\ Announced(b[j]) => \A h \in 1 .. passes : v[Place(b, j, passes) - h] = Announcement(b[j])
      BY <2>4, <3>1 DEF Spread
    <3>3. b[j] = AfterPass(c[j])
      BY <2>6, <2>7, <3>1
    <3> QED
      BY <2>6, <3>1, <3>2, <3>3
  <2> QED
    BY <2>9, <2>10 DEF c, v
<1> QED
  BY <1>1, PassInvariant, PTL

\* However often the pass runs on however large a module, there is one
\* LLVMFuzzerTestOneInput, the wrapper, and it runs the program's own function.
THEOREM EntryWrappedOnceHolds == PassSpec => []EntryWrappedOnce
<1>1. PassInv => EntryWrappedOnce
  <2> SUFFICES ASSUME PassInv, Entry \in Names(source), passes > 0
               PROVE  /\ \E j \in DOMAIN mod :
                           {i \in DOMAIN mod : mod[i].name = Entry} = {j} /\ mod[j] = Wrapper
                      /\ \E k \in DOMAIN source :
                           {j \in DOMAIN mod : mod[j].name = Original} = {k} /\ source[k].name = Entry
    BY DEF EntryWrappedOnce
  <2> DEFINE n == Len(source)
  <2>1. source \in Modules /\ Laid(source, mod, passes, passes > 0 /\ MustWrap(source), direct)
    BY DEF PassInv
  <2>2. WellFormed(source) /\ Original \notin Names(source)
        /\ \A j, k \in DOMAIN source : source[j].name = source[k].name => j = k
    BY <2>1, ModuleAssumed
  <2>3. (passes > 0 /\ MustWrap(source)) = TRUE
    BY <2>2 DEF MustWrap
  <2>4. Laid(source, mod, passes, TRUE, direct)
    BY <2>1, <2>3
  <2>5. /\ n \in Nat /\ DOMAIN source = 1 .. n /\ DOMAIN mod = 1 .. n + 1
        /\ \A k \in 1 .. n :
             /\ source[k].name # Original
             /\ mod[k].name = IF source[k].name = Entry THEN Original ELSE source[k].name
        /\ mod[n + 1] = Wrapper /\ mod[n + 1].name = Entry
    <3>1. /\ Len(source) \in Nat /\ DOMAIN source = 1 .. Len(source)
          /\ DOMAIN mod = 1 .. Len(source) + (IF TRUE THEN 1 ELSE 0)
          /\ \A k \in 1 .. Len(source) :
               /\ source[k].name # Original
               /\ mod[k].name = IF TRUE /\ source[k].name = Entry THEN Original ELSE source[k].name
          /\ mod[Len(source) + 1] = Wrapper /\ mod[Len(source) + 1].name = Entry
      BY <2>1, <2>4, LaidNames, Zenon
    <3> QED
      BY <3>1
  <2>6. PICK k \in DOMAIN source : source[k].name = Entry
    BY DEF Names
  <2> HIDE DEF n
  <2>7. Entry # Original
    BY DEF Entry, Original
  <2>8. n + 1 \in DOMAIN mod /\ k \in DOMAIN mod /\ k # n + 1
        /\ \A i \in DOMAIN mod : i = n + 1 \/ i \in 1 .. n
    BY <2>5
  <2>9. {i \in DOMAIN mod : mod[i].name = Entry} = {n + 1}
    BY <2>5, <2>7, <2>8
  <2>10. {j \in DOMAIN mod : mod[j].name = Original} = {k}
    <3>1. mod[k].name = Original
      BY <2>5, <2>6
    <3>2. ASSUME NEW j \in DOMAIN mod, mod[j].name = Original PROVE j = k
      BY <2>2, <2>5, <2>6, <2>7, <2>8, <3>2
    <3> QED
      BY <2>8, <3>1, <3>2
  <2> QED
    BY <2>5, <2>6, <2>8, <2>9, <2>10
<1> QED
  BY <1>1, PassInvariant, PTL

=============================================================================
