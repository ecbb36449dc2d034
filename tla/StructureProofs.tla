-------------------------- MODULE StructureProofs ---------------------------
(***************************************************************************)
(* Proofs about the structures that are searched and rebuilt.              *)
(*                                                                         *)
(* XBitMap, for words of any size and any growths: find0, which looks at   *)
(* whole words first, finds the lowest unmarked slot, and the words        *)
(* implement a set of slots.                                               *)
(*                                                                         *)
(* MemoryMap, for regions of any number and sizes and a tree of any shape: *)
(* the flat view and the radix tree show the region in front at every page *)
(* and no two regions share RAM.  What a recursive function computes is    *)
(* shown step by step (UpTo, IteratesExist).                               *)
(***************************************************************************)
EXTENDS XBitMap, MemoryMap, SequenceTheorems, WellFoundedInduction, TLAPS

-----------------------------------------------------------------------------
(* Numbers *)

(* A set of numbers that is not empty has a least one, which Min gives. *)
LEMMA MinIsLeast ==
    ASSUME NEW S \in SUBSET Nat, S # {}
    PROVE  Min(S) \in S /\ \A k \in S : Min(S) <= k
  <1>1. PICK m \in S : \A k \in S : ~(<<k, m>> \in OpToRel(<, Nat))
    BY WFMin, NatLessThanWellFounded
  <1>2. ASSUME NEW k \in S, k < m  PROVE FALSE
    <2>1. <<k, m>> \in OpToRel(<, Nat)
      BY <1>2, Zenon DEF OpToRel
    <2> QED  BY <1>1, <2>1
  <1>3. \E j \in S : \A k \in S : j <= k
    BY <1>2
  <1> QED  BY <1>3 DEF Min

(* The least member is known by what it is. *)
LEMMA MinIs ==
    ASSUME NEW S \in SUBSET Nat, NEW m \in S, \A k \in S : m <= k
    PROVE  Min(S) = m
  <1>1. Min(S) \in S /\ \A k \in S : Min(S) <= k
    BY MinIsLeast
  <1>2. m \in Nat /\ Min(S) \in Nat /\ m <= Min(S) /\ Min(S) <= m
    BY <1>1
  <1> QED  BY <1>2

LEMMA MinOfTwo ==
    ASSUME NEW a \in Nat, NEW b \in Nat
    PROVE  Min({a, b}) = IF a <= b THEN a ELSE b
  <1>1. CASE a <= b
    BY <1>1, MinIs
  <1>2. CASE ~(a <= b)
    BY <1>2, MinIs
  <1> QED  BY <1>1, <1>2

(* A set of numbers up to n has a greatest one. *)
LEMMA MaxIsGreatest ==
    ASSUME NEW n \in Nat, NEW S \in SUBSET (0 .. n), S # {}
    PROVE  Max(S) \in S /\ \A k \in S : Max(S) >= k
  <1> DEFINE U == {u \in Nat : \A k \in S : u >= k}
  <1>1. U \in SUBSET Nat /\ n \in U
    OBVIOUS
  <1>2. Min(U) \in U /\ \A u \in U : Min(U) <= u
    <2> HIDE DEF U
    <2> QED  BY <1>1, MinIsLeast
  <1> DEFINE m == Min(U)
  <1>3. m \in Nat /\ \A k \in S : m >= k
    BY <1>2
  <1>4. m \in S
    <2> SUFFICES ASSUME m \notin S  PROVE FALSE
      OBVIOUS
    <2> HIDE DEF m
    <2>1. m # 0
      <3>1. PICK k \in S : TRUE
        OBVIOUS
      <3>2. k \in Nat /\ m >= k /\ k # m
        BY <1>3, <3>1
      <3> QED  BY <1>3, <3>2
    <2>2. m - 1 \in Nat /\ \A k \in S : m - 1 >= k
      BY <1>3, <2>1
    <2>3. m - 1 \in U
      BY <2>2
    <2> HIDE DEF U
    <2> QED  BY <1>2, <1>3, <2>3 DEF m
  <1> HIDE DEF m
  <1> QED  BY <1>3, <1>4 DEF Max

Quot(n, s) == n \div s
Over(n, s) == n % s

(* A number, its part of s and what is over. *)
LEMMA DivMod ==
    ASSUME NEW n \in Nat, NEW s \in Nat \ {0}
    PROVE  /\ Quot(n, s) \in Nat /\ Over(n, s) \in 0 .. s - 1
           /\ n = Quot(n, s) * s + Over(n, s)
  BY DEF Quot, Over

LEMMA MulApart ==
    ASSUME NEW a \in Nat, NEW b \in Nat, NEW s \in Nat, a < b
    PROVE  a * s + s <= b * s
  <1>1. PICK d \in Nat : b = a + 1 + d
    <2>1. b - a - 1 \in Nat
      OBVIOUS
    <2> QED  BY <2>1
  <1>2. b * s = a * s + s + d * s
    BY <1>1
  <1>3. d * s \in Nat /\ a * s \in Nat /\ b * s \in Nat
    OBVIOUS
  <1> QED  BY <1>2, <1>3

(* n is in the i-th run of s numbers. *)
LEMMA DivIs ==
    ASSUME NEW n \in Nat, NEW s \in Nat \ {0}, NEW i \in Nat
    PROVE  n \div s = i <=> i * s <= n /\ n < i * s + s
  <1> DEFINE q == Quot(n, s)
             r == Over(n, s)
             qs == q * s
             is == i * s
  <1>1. q \in Nat /\ r \in 0 .. s - 1 /\ n = qs + r /\ qs \in Nat /\ is \in Nat
    BY DivMod
  <1>2. q < i => qs + s <= is
    BY <1>1, MulApart
  <1>3. i < q => is + s <= qs
    BY <1>1, MulApart
  <1>4. q = i => qs = is
    OBVIOUS
  <1> HIDE DEF q, r, qs, is
  <1>5. q = i <=> is <= n /\ n < is + s
    BY <1>1, <1>2, <1>3, <1>4
  <1> QED  BY <1>5 DEF q, is, Quot
(* What holds of 0 and passes from each number to the next holds up to n. *)
LEMMA UpTo ==
    ASSUME NEW n \in Nat, NEW S, 0 \in S, \A k \in 0 .. n - 1 : k \in S => k + 1 \in S
    PROVE  \A k \in 0 .. n : k \in S
  <1> DEFINE Bad == {k \in 0 .. n : k \notin S}
  <1> SUFFICES ASSUME Bad # {}  PROVE FALSE
    OBVIOUS
  <1>1. PICK m \in Bad : \A k \in Bad : m <= k
    <2>1. Bad \in SUBSET Nat
      OBVIOUS
    <2> HIDE DEF Bad
    <2> QED  BY <2>1, MinIsLeast
  <1>2. m \in 0 .. n /\ m # 0
    BY <1>1
  <1>3. m - 1 \in 0 .. n - 1 /\ m - 1 \notin Bad
    BY <1>1, <1>2
  <1>4. m - 1 \in S
    BY <1>2, <1>3
  <1>5. m - 1 + 1 \in S
    BY <1>3, <1>4
  <1> QED  BY <1>1, <1>2, <1>5

(* f begins with x and takes n steps of F. *)
Iterates(f, F, S, x, n) ==
    /\ f \in [0 .. n -> S]
    /\ f[0] = x
    /\ \A k \in 1 .. n : f[k] = F[<<f[k - 1], k>>]

(* A function can be iterated. *)
LEMMA IteratesExist ==
    ASSUME NEW n \in Nat, NEW S, NEW x \in S, NEW F \in [S \X (1 .. n) -> S]
    PROVE  \E f : Iterates(f, F, S, x, n)
  <1> DEFINE Good == {m \in 0 .. n : \E f : Iterates(f, F, S, x, m)}
  <1>1. 0 \in Good
    <2> DEFINE w == [k \in 0 .. 0 |-> x]
    <2>1. Iterates(w, F, S, x, 0)
      BY DEF Iterates
    <2> QED  BY <2>1
  <1>2. ASSUME NEW m \in 0 .. n - 1, m \in Good  PROVE m + 1 \in Good
    <2>1. PICK w : Iterates(w, F, S, x, m)
      BY <1>2
    <2> DEFINE y == F[<<w[m], m + 1>>]
               v == [k \in 0 .. m + 1 |-> IF k = m + 1 THEN y ELSE w[k]]
    <2>2. w \in [0 .. m -> S] /\ w[m] \in S /\ m + 1 \in 1 .. n
      BY <2>1 DEF Iterates
    <2>3. y \in S
      BY <2>2
    <2> HIDE DEF y
    <2>4. v \in [0 .. m + 1 -> S]
      BY <2>2, <2>3
    <2>5. v[0] = x
      BY <2>1 DEF Iterates
    <2>6. ASSUME NEW k \in 1 .. m + 1  PROVE v[k] = F[<<v[k - 1], k>>]
      <3>1. v[k - 1] = w[k - 1]
        OBVIOUS
      <3>2. CASE k = m + 1
        <4>1. v[k] = y /\ v[k - 1] = w[m]
          BY <3>1, <3>2
        <4> QED  BY <3>2, <4>1 DEF y
      <3>3. CASE k # m + 1
        <4>1. k \in 1 .. m /\ v[k] = w[k]
          BY <3>3
        <4>2. w[k] = F[<<w[k - 1], k>>]
          BY <2>1, <4>1 DEF Iterates
        <4> QED  BY <3>1, <4>1, <4>2
      <3> QED  BY <3>2, <3>3
    <2>7. Iterates(v, F, S, x, m + 1)
      <3> HIDE DEF v
      <3> QED  BY <2>4, <2>5, <2>6 DEF Iterates
    <2> QED  BY <2>2, <2>7
  <1>3. \A k \in 0 .. n : k \in Good
    <2> HIDE DEF Good
    <2> QED  BY <1>1, <1>2, UpTo
  <1> QED  BY <1>3

-----------------------------------------------------------------------------
(* The steps of the radix tree *)

LEMMA StepDef ==
    /\ Step[0] = 1
    /\ \A l \in 1 .. P_L2_LEVELS : Step[l] = L2_SIZE * Step[l - 1]
    /\ \A l \in 0 .. P_L2_LEVELS : Step[l] \in Nat \ {0}
  <1> DEFINE n == P_L2_LEVELS
             G(w) == [l \in 0 .. n |-> IF l = 0 THEN 1 ELSE L2_SIZE * w[l - 1]]
             F == [z \in Nat \X (1 .. n) |-> L2_SIZE * z[1]]
  <1>1. n \in Nat /\ L2_SIZE \in Nat \ {0}
    BY MemoryMapAssumption
  <1>2. F \in [Nat \X (1 .. n) -> Nat]
    BY <1>1
  <1>3. PICK w : Iterates(w, F, Nat, 1, n)
    <2> HIDE DEF F, n
    <2> QED  BY <1>1, <1>2, IteratesExist
  <1>4. w = G(w)
    <2>1. w \in [0 .. n -> Nat]
      BY <1>3 DEF Iterates
    <2>2. ASSUME NEW l \in 0 .. n, l # 0  PROVE w[l] = L2_SIZE * w[l - 1]
      <3>1. l \in 1 .. n /\ w[l - 1] \in Nat
        BY <1>1, <2>1, <2>2
      <3>2. w[l] = F[<<w[l - 1], l>>]
        BY <1>3, <3>1 DEF Iterates
      <3> QED  BY <3>1, <3>2
    <2>3. w[0] = 1
      BY <1>3 DEF Iterates
    <2> QED  BY <2>1, <2>2, <2>3
  <1>5. Step = CHOOSE f : f = G(f)
    BY DEF Step
  <1>6. Step = G(Step)
    <2> HIDE DEF G
    <2> QED  BY <1>4, <1>5
  <1>7. \A l \in 0 .. n : Step[l] = IF l = 0 THEN 1 ELSE L2_SIZE * Step[l - 1]
    <2>1. \A l \in 0 .. n : Step[l] = G(Step)[l]
      <3> HIDE DEF G
      <3> QED  BY <1>6
    <2> QED  BY <2>1
  <1>8. Step[0] = 1
    BY <1>1, <1>7
  <1>9. \A l \in 1 .. n : Step[l] = L2_SIZE * Step[l - 1]
    BY <1>1, <1>7
  <1>10. \A l \in 0 .. n : Step[l] \in Nat \ {0}
    <2> DEFINE T == {l \in 0 .. n : Step[l] \in Nat \ {0}}
    <2>1. 0 \in T
      BY <1>1, <1>8
    <2>2. ASSUME NEW l \in 0 .. n - 1, l \in T  PROVE l + 1 \in T
      <3>1. l + 1 \in 1 .. n /\ l + 1 - 1 = l
        BY <1>1
      <3>2. Step[l + 1] = L2_SIZE * Step[l]
        BY <1>9, <3>1
      <3>3. Step[l] \in Nat \ {0}
        BY <2>2
      <3>4. Step[l + 1] \in Nat \ {0}
        BY <1>1, <3>2, <3>3, SMT
      <3> QED  BY <1>1, <3>4
    <2>3. \A l \in 0 .. n : l \in T
      <3> HIDE DEF T, n
      <3> QED  BY <1>1, <2>1, <2>2, UpTo
    <2> QED  BY <2>3
  <1> QED  BY <1>8, <1>9, <1>10

(* The entries of a lower level divide those of a higher one. *)
LEMMA StepDivides ==
    ASSUME NEW l \in 0 .. P_L2_LEVELS
    PROVE  \E q \in Nat : NumPages = q * Step[l]
  <1> DEFINE n == P_L2_LEVELS
             T == {d \in 0 .. n - l : \E q \in Nat : Step[l + d] = q * Step[l]}
  <1>1. n \in Nat /\ L2_SIZE \in Nat /\ l \in Nat /\ n - l \in Nat /\ Step[l] \in Nat
    BY MemoryMapAssumption, StepDef
  <1>2. 0 \in T
    <2>1. Step[l + 0] = 1 * Step[l]
      BY <1>1
    <2> QED  BY <1>1, <2>1
  <1>3. ASSUME NEW d \in 0 .. (n - l) - 1, d \in T  PROVE d + 1 \in T
    <2>1. PICK q \in Nat : Step[l + d] = q * Step[l]
      BY <1>3
    <2>2. l + d + 1 \in 1 .. P_L2_LEVELS /\ l + d + 1 - 1 = l + d /\ l + (d + 1) = l + d + 1
      BY <1>1
    <2>3. Step[l + (d + 1)] = L2_SIZE * Step[l + d]
      BY <2>2, StepDef
    <2>4. L2_SIZE * (q * Step[l]) = (L2_SIZE * q) * Step[l]
      BY <1>1
    <2>5. L2_SIZE * q \in Nat
      BY <1>1
    <2>6. Step[l + (d + 1)] = (L2_SIZE * q) * Step[l]
      BY <2>1, <2>3, <2>4
    <2>7. d + 1 \in 0 .. n - l
      BY <1>1
    <2> QED  BY <2>5, <2>6, <2>7
  <1>4. \A d \in 0 .. n - l : d \in T
    <2> DEFINE k == n - l
    <2> HIDE DEF T, k
    <2>1. k \in Nat /\ \A d \in 0 .. k - 1 : d \in T => d + 1 \in T
      BY <1>1, <1>3 DEF k
    <2>2. \A d \in 0 .. k : d \in T
      BY <1>2, <2>1, UpTo
    <2> QED  BY <2>2 DEF k
  <1>5. n - l \in T /\ l + (n - l) = n
    <2>1. n - l \in 0 .. n - l
      BY <1>1
    <2> HIDE DEF T
    <2> QED  BY <1>1, <1>4, <2>1
  <1> QED  BY <1>5 DEF NumPages

(* Every page has a place in every level. *)
LEMMA PlaceInLevel ==
    ASSUME NEW l \in Levels, NEW p \in Pages
    PROVE  /\ p \div Step[l] \in 0 .. (NumPages \div Step[l]) - 1
           /\ Step[l] \in Nat \ {0} /\ p \in Nat /\ NumPages \in Nat
  <1>1. l \in 0 .. P_L2_LEVELS /\ P_L2_LEVELS \in 0 .. P_L2_LEVELS
    BY MemoryMapAssumption DEF Levels
  <1>2. Step[l] \in Nat \ {0} /\ NumPages \in Nat /\ p \in Nat /\ p < NumPages
    BY <1>1, StepDef DEF NumPages, Pages
  <1>3. PICK q \in Nat : NumPages = q * Step[l]
    BY <1>1, StepDivides
  <1> DEFINE s == Step[l]
             i == Quot(p, s)
             qs == q * s
             is == i * s
  <1>4. s \in Nat \ {0}
    BY <1>2
  <1> HIDE DEF s
  <1>5. i \in Nat /\ Over(p, s) \in 0 .. s - 1 /\ p = is + Over(p, s)
    BY <1>2, <1>4, DivMod
  <1>6. qs \in Nat /\ is \in Nat
    BY <1>4, <1>5
  <1>7. NumPages \div s = q
    <2>1. qs <= NumPages /\ NumPages < qs + s
      BY <1>2, <1>3, <1>4, <1>6 DEF s
    <2> QED  BY <1>2, <1>4, <2>1, DivIs
  <1>8. i < q
    <2> SUFFICES ASSUME ~ (i < q)  PROVE FALSE
      OBVIOUS
    <2>1. CASE i = q
      BY <1>2, <1>3, <1>4, <1>5, <1>6, <2>1 DEF s
    <2>2. CASE q < i
      <3>1. qs + s <= is
        BY <1>4, <1>5, <2>2, MulApart
      <3> HIDE DEF qs, is, i
      <3>2. NumPages = qs
        BY <1>3 DEF qs, s
      <3> QED  BY <1>2, <1>4, <1>5, <1>6, <3>1, <3>2
    <2> QED  BY <1>5, <2>1, <2>2
  <1>9. i \in 0 .. q - 1
    BY <1>5, <1>8
  <1> QED  BY <1>2, <1>7, <1>9 DEF s, Quot

-----------------------------------------------------------------------------
(* XBitMap: bits and words *)

(* A bit's word and its place in the word. *)
LEMMA WordAndPlace ==
    ASSUME NEW idx \in Nat
    PROVE  /\ LI(idx) \in Nat /\ BI(idx) \in Positions
           /\ idx = LI(idx) * BitsPerLong + BI(idx)
  BY BitMapAssumption DEF LI, BI, Positions

(* Words do not overlap. *)
LEMMA WordsApart ==
    ASSUME NEW l \in Nat, NEW m \in Nat, l < m
    PROVE  l * BitsPerLong + BitsPerLong <= m * BitsPerLong
  <1>1. PICK d \in Nat : m = l + 1 + d
    <2>1. m - l - 1 \in Nat
      OBVIOUS
    <2> QED  BY <2>1
  <1>2. m * BitsPerLong = l * BitsPerLong + BitsPerLong + d * BitsPerLong
    BY <1>1, BitMapAssumption
  <1>3. d * BitsPerLong \in Nat
    BY BitMapAssumption
  <1> QED  BY <1>2, <1>3, BitMapAssumption

(* Slots are ordered by word, and in a word by place. *)
LEMMA SlotOrder ==
    ASSUME NEW i \in Nat, NEW j \in Nat
    PROVE  /\ i < j <=> LI(i) < LI(j) \/ (LI(i) = LI(j) /\ BI(i) < BI(j))
           /\ i = j <=> LI(i) = LI(j) /\ BI(i) = BI(j)
  <1> DEFINE a == LI(i)
             b == LI(j)
             x == BI(i)
             y == BI(j)
             wa == a * BitsPerLong
             wb == b * BitsPerLong
  <1>1. /\ a \in Nat /\ b \in Nat /\ x \in Positions /\ y \in Positions
        /\ i = wa + x /\ j = wb + y
    BY WordAndPlace
  <1>2. a < b => wa + BitsPerLong <= wb
    BY <1>1, WordsApart
  <1>3. b < a => wb + BitsPerLong <= wa
    BY <1>1, WordsApart
  <1>4. a = b => wa = wb
    OBVIOUS
  <1>5. wa \in Nat /\ wb \in Nat /\ x \in 0 .. BitsPerLong - 1 /\ y \in 0 .. BitsPerLong - 1
    BY <1>1, BitMapAssumption DEF Positions
  <1> HIDE DEF a, b, x, y, wa, wb
  <1>6. /\ i < j <=> a < b \/ (a = b /\ x < y)
        /\ i = j <=> a = b /\ x = y
    BY <1>1, <1>2, <1>3, <1>4, <1>5, BitMapAssumption
  <1> QED  BY <1>6 DEF a, b, x, y

(* The slot of a word and a place. *)
LEMMA SlotOf ==
    ASSUME NEW l \in Nat, NEW p \in Positions
    PROVE  /\ l * BitsPerLong + p \in Nat
           /\ LI(l * BitsPerLong + p) = l /\ BI(l * BitsPerLong + p) = p
  <1> DEFINE i == l * BitsPerLong + p
             a == LI(i)
             x == BI(i)
             wa == a * BitsPerLong
             wl == l * BitsPerLong
  <1>1. i \in Nat /\ wl \in Nat /\ p \in 0 .. BitsPerLong - 1
    BY BitMapAssumption DEF Positions
  <1>2. a \in Nat /\ x \in 0 .. BitsPerLong - 1 /\ i = wa + x
    BY <1>1, WordAndPlace DEF Positions
  <1>3. a < l => wa + BitsPerLong <= wl
    BY <1>2, WordsApart
  <1>4. l < a => wl + BitsPerLong <= wa
    BY <1>2, WordsApart
  <1>5. a = l => wa = wl
    OBVIOUS
  <1>6. i = wl + p /\ wa \in Nat
    BY <1>2, BitMapAssumption
  <1> HIDE DEF i, a, x, wa, wl
  <1>7. a = l /\ x = p
    BY <1>1, <1>2, <1>3, <1>4, <1>5, <1>6, BitMapAssumption
  <1> QED  BY <1>1, <1>7 DEF i, a, x

-----------------------------------------------------------------------------
(* The inductive invariant *)

NumWords(n) == LI(n) + (IF BI(n) # 0 THEN 1 ELSE 0)

(* There is a word for every slot, and no word has a bit set past the last *)
(* slot: what resize() brings into use is clear.                           *)
BitMapInv ==
    /\ bits \in Nat
    /\ DOMAIN buf = 0 .. NumWords(bits) - 1
    /\ \A l \in DOMAIN buf : buf[l] \subseteq Positions
    /\ \A l \in DOMAIN buf : \A p \in buf[l] : l * BitsPerLong + p < bits

(* The words of a map of n slots are those that its slots are in. *)
LEMMA WordsOfSlots ==
    ASSUME NEW n \in Nat
    PROVE  /\ NumWords(n) \in Nat
           /\ \A idx \in 0 .. n - 1 : LI(idx) \in 0 .. NumWords(n) - 1
           /\ 0 .. LI(n) - 1 \subseteq 0 .. NumWords(n) - 1
           /\ BI(n) # 0 => LI(n) \in 0 .. NumWords(n) - 1
  <1>1. LI(n) \in Nat /\ BI(n) \in Nat
    BY WordAndPlace DEF Positions
  <1>2. ASSUME NEW idx \in 0 .. n - 1  PROVE LI(idx) \in 0 .. NumWords(n) - 1
    <2>1. LI(idx) \in Nat /\ BI(idx) \in Nat
      BY WordAndPlace DEF Positions
    <2>2. LI(idx) < LI(n) \/ (LI(idx) = LI(n) /\ BI(idx) < BI(n))
      BY SlotOrder
    <2> QED  BY <1>1, <2>1, <2>2 DEF NumWords
  <1> QED  BY <1>1, <1>2 DEF NumWords

(* The marks are the bits that are set: no bit is set past the last slot. *)
LEMMA MarkedSlots ==
    ASSUME BitMapInv
    PROVE  /\ Marked = {idx \in 0 .. bits - 1 : BI(idx) \in buf[LI(idx)]}
           /\ \A idx \in 0 .. bits - 1 : LI(idx) \in DOMAIN buf
  <1>1. \A idx \in 0 .. bits - 1 : LI(idx) \in DOMAIN buf
    <2>1. bits \in Nat /\ DOMAIN buf = 0 .. NumWords(bits) - 1
      BY DEF BitMapInv
    <2> QED  BY <2>1, WordsOfSlots
  <1>2. \A idx \in 0 .. bits - 1 : TestBit(idx) <=> BI(idx) \in buf[LI(idx)]
    BY DEF BitMapInv, TestBit
  <1> QED  BY <1>1, <1>2 DEF Marked

-----------------------------------------------------------------------------
(* find0 *)

(* A slot that is unmarked while all before it are marked is what find0    *)
(* has to find.                                                            *)
LEMMA LowestIs ==
    ASSUME BitMapInv, NEW idx \in 0 .. bits - 1, idx \notin Marked,
           \A j \in 0 .. idx - 1 : j \in Marked, find0 = idx
    PROVE  FindsLowest
  <1> DEFINE S == 0 .. bits - 1 \ Marked
  <1>1. S \in SUBSET Nat /\ idx \in S
    BY DEF BitMapInv
  <1>2. \A k \in S : idx <= k
    BY DEF BitMapInv
  <1>3. Min(S) = idx
    <2> HIDE DEF S
    <2> QED  BY <1>1, <1>2, MinIs
  <1> QED  BY <1>1, <1>3 DEF FindsLowest

(* The search of whole words, then of the bits that count in the last.     *)
LEMMA FindLemma == BitMapInv => FindsLowest
  <1> SUFFICES ASSUME BitMapInv  PROVE FindsLowest
    OBVIOUS
  <1> DEFINE open == {l \in 0 .. LI(bits) - 1 : buf[l] # Positions}
             tail == {i \in 0 .. BI(bits) - 1 : i \notin buf[LI(bits)]}
  <1>1. /\ bits \in Nat /\ LI(bits) \in Nat /\ BI(bits) \in Positions
        /\ BI(bits) \in 0 .. BitsPerLong - 1
    BY WordAndPlace DEF BitMapInv, Positions
  <1>2. /\ \A l \in 0 .. LI(bits) - 1 : l \in DOMAIN buf
        /\ BI(bits) # 0 => LI(bits) \in DOMAIN buf
    BY <1>1, WordsOfSlots DEF BitMapInv
  <1>3. ASSUME NEW j \in 0 .. bits - 1
        PROVE  /\ LI(j) \in Nat /\ BI(j) \in Positions /\ BI(j) \in Nat
               /\ LI(j) < LI(bits) \/ (LI(j) = LI(bits) /\ BI(j) < BI(bits))
               /\ j \in Marked <=> BI(j) \in buf[LI(j)]
    <2>1. j \in Nat /\ j < bits
      BY <1>1
    <2>2. LI(j) \in Nat /\ BI(j) \in Positions /\ BI(j) \in Nat
      BY <2>1, WordAndPlace DEF Positions
    <2>3. LI(j) < LI(bits) \/ (LI(j) = LI(bits) /\ BI(j) < BI(bits))
      BY <1>1, <2>1, SlotOrder
    <2> QED  BY <2>2, <2>3, MarkedSlots
  <1>4. CASE open # {}
    <2> DEFINE m == Min(open)
               free == Positions \ buf[m]
               p == Min(free)
               idx == m * BitsPerLong + p
    <2>1. open \in SUBSET Nat
      BY <1>1
    <2>2. m \in open /\ \A l \in open : m <= l
      <3> HIDE DEF open
      <3> QED  BY <1>4, <2>1, MinIsLeast
    <2>3. free \in SUBSET Nat /\ free # {}
      <3>1. buf[m] \subseteq Positions /\ buf[m] # Positions
        BY <1>2, <2>2 DEF BitMapInv
      <3>2. Positions \subseteq Nat
        BY DEF Positions
      <3> HIDE DEF m
      <3> QED  BY <3>1, <3>2
    <2>4. p \in free /\ \A k \in free : p <= k
      <3> HIDE DEF free
      <3> QED  BY <2>3, MinIsLeast
    <2>5. /\ idx \in Nat /\ LI(idx) = m /\ BI(idx) = p
      BY <2>1, <2>2, <2>4, SlotOf
    <2>6. idx \in 0 .. bits - 1
      BY <1>1, <2>2, <2>5, SlotOrder
    <2>7. idx \notin Marked
      BY <1>3, <2>4, <2>5, <2>6
    <2>8. ASSUME NEW j \in 0 .. idx - 1  PROVE j \in Marked
      <3>1. j \in 0 .. bits - 1 /\ j \in Nat
        BY <1>1, <2>6
      <3>2. LI(j) < m \/ (LI(j) = m /\ BI(j) < p)
        BY <2>5, <3>1, SlotOrder
      <3>3. CASE LI(j) < m
        <4>1. LI(j) \notin open /\ LI(j) \in 0 .. LI(bits) - 1
          BY <1>1, <1>3, <2>1, <2>2, <3>1, <3>3
        <4> QED  BY <1>3, <3>1, <4>1
      <3>4. CASE LI(j) = m /\ BI(j) < p
        <4>1. BI(j) \in Nat /\ BI(j) \in Positions /\ p \in Nat
          BY <1>3, <2>3, <2>4, <3>1
        <4>2. BI(j) \notin free
          <5> HIDE DEF free, p
          <5> QED  BY <2>4, <3>4, <4>1
        <4> QED  BY <1>3, <3>1, <3>4, <4>1, <4>2
      <3> QED  BY <3>2, <3>3, <3>4
    <2>9. find0 = idx
      BY <1>4 DEF find0
    <2> HIDE DEF idx
    <2> QED  BY <2>6, <2>7, <2>8, <2>9, LowestIs
  <1>5. CASE open = {} /\ tail # {}
    <2> DEFINE p == Min(tail)
               idx == LI(bits) * BitsPerLong + p
    <2>1. tail \in SUBSET Nat
      BY <1>1
    <2>2. p \in tail /\ \A l \in tail : p <= l
      <3> HIDE DEF tail
      <3> QED  BY <1>5, <2>1, MinIsLeast
    <2>3. p \in Positions
      <3> HIDE DEF p
      <3> QED  BY <1>1, <2>2, BitMapAssumption DEF Positions
    <2>4. /\ idx \in Nat /\ LI(idx) = LI(bits) /\ BI(idx) = p
      BY <1>1, <2>3, SlotOf
    <2>5. idx \in 0 .. bits - 1
      BY <1>1, <2>2, <2>4, SlotOrder
    <2>6. idx \notin Marked
      BY <1>3, <2>2, <2>4, <2>5
    <2>7. ASSUME NEW j \in 0 .. idx - 1  PROVE j \in Marked
      <3>1. j \in 0 .. bits - 1 /\ j \in Nat
        BY <1>1, <2>5
      <3>2. LI(j) < LI(bits) \/ (LI(j) = LI(bits) /\ BI(j) < p)
        BY <2>4, <3>1, SlotOrder
      <3>3. CASE LI(j) < LI(bits)
        BY <1>1, <1>3, <1>5, <3>1, <3>3
      <3>4. CASE LI(j) = LI(bits) /\ BI(j) < p
        BY <1>1, <1>3, <2>2, <3>1, <3>4
      <3> QED  BY <3>2, <3>3, <3>4
    <2>8. find0 = idx
      BY <1>5 DEF find0
    <2> HIDE DEF idx
    <2> QED  BY <2>5, <2>6, <2>7, <2>8, LowestIs
  <1>6. CASE open = {} /\ tail = {}
    <2>1. ASSUME NEW j \in 0 .. bits - 1  PROVE j \in Marked
      BY <1>1, <1>3, <1>6
    <2>2. Marked = 0 .. bits - 1
      BY <2>1 DEF Marked
    <2> QED  BY <1>6, <2>2 DEF FindsLowest, find0
  <1> QED  BY <1>4, <1>5, <1>6

-----------------------------------------------------------------------------
(* The operations *)

(* A map without slots has no words. *)
LEMMA NoSlotsNoWords == NumWords(0) = 0
  <1>1. 0 \in Positions
    BY BitMapAssumption DEF Positions
  <1>2. LI(0) = 0 /\ BI(0) = 0
    <2>1. 0 * BitsPerLong + 0 = 0
      BY BitMapAssumption
    <2> QED  BY <1>1, <2>1, SlotOf
  <1> QED  BY <1>2 DEF NumWords

(* An empty map. *)
LEMMA EmptyInv == buf = << >> /\ bits = 0 => BitMapInv /\ Marked = {}
  BY NoSlotsNoWords DEF BitMapInv, Marked

(* What clear() leaves. *)
LEMMA ClearInv == clear => BitMapInv' /\ Marked' = {} /\ bits' = 0
  BY NoSlotsNoWords DEF clear, BitMapInv, Marked

(* resize() keeps the marks: a word that was used in part has no bit set   *)
(* where the new slots are.                                                *)
LEMMA ResizeKeepsMarks ==
    ASSUME BitMapInv, NEW n \in Nat, n >= bits, resize(n)
    PROVE  BitMapInv' /\ Marked' = Marked /\ bits' = n
  <1>1. /\ buf' = [l \in 0 .. NumWords(n) - 1 |-> IF l \in DOMAIN buf THEN buf[l] ELSE {}]
        /\ bits' = n /\ bits \in Nat
    BY DEF resize, NumWords, Words, BitMapInv
  <1>2. \A l \in DOMAIN buf' : buf'[l] = {} \/ (l \in DOMAIN buf /\ buf'[l] = buf[l])
    BY <1>1
  <1>3. BitMapInv'
    <2>1. \A l \in DOMAIN buf' : buf'[l] \subseteq Positions
      BY <1>2 DEF BitMapInv
    <2>2. ASSUME NEW l \in DOMAIN buf', NEW p \in buf'[l]
          PROVE  l * BitsPerLong + p < n
      <3>1. l \in DOMAIN buf /\ p \in buf[l]
        BY <1>2
      <3>2. l * BitsPerLong + p < bits /\ l \in Nat /\ p \in Positions
        BY <3>1 DEF BitMapInv
      <3>3. l * BitsPerLong + p \in Nat
        BY <3>2, SlotOf
      <3> QED  BY <1>1, <3>2, <3>3
    <2> QED  BY <1>1, <2>1, <2>2 DEF BitMapInv
  <1>4. ASSUME NEW j \in 0 .. n - 1  PROVE TestBit(j)' <=> j \in Marked
    <2>1. /\ j \in Nat /\ LI(j) \in Nat /\ BI(j) \in Positions
          /\ j = LI(j) * BitsPerLong + BI(j) /\ LI(j) \in DOMAIN buf'
      <3>1. j \in Nat
        OBVIOUS
      <3>2. LI(j) \in 0 .. NumWords(n) - 1
        BY WordsOfSlots
      <3> QED  BY <1>1, <3>1, <3>2, WordAndPlace
    <2>2. TestBit(j)' <=> BI(j) \in buf'[LI(j)]
      BY <1>1 DEF TestBit, BI, LI
    <2>3. j \in Marked <=> j < bits /\ BI(j) \in buf[LI(j)]
      BY <1>1, <2>1 DEF Marked, TestBit
    <2>4. j < bits => LI(j) \in DOMAIN buf
      BY <1>1, <2>1, MarkedSlots
    <2>5. LI(j) \in DOMAIN buf /\ BI(j) \in buf[LI(j)] => j < bits
      BY <2>1 DEF BitMapInv
    <2> QED  BY <1>2, <1>1, <2>1, <2>2, <2>3, <2>4, <2>5
  <1>5. Marked \subseteq 0 .. n - 1
    BY <1>1 DEF Marked
  <1>6. Marked' = {j \in 0 .. n - 1 : TestBit(j)'}
    BY <1>1 DEF Marked
  <1> QED  BY <1>1, <1>3, <1>4, <1>5, <1>6

(* setbit() changes one slot. *)
LEMMA SetBitMarks ==
    ASSUME BitMapInv, NEW idx \in 0 .. bits - 1, NEW f \in BOOLEAN, setbit(idx, f)
    PROVE  /\ BitMapInv' /\ bits' = bits
           /\ Marked' = IF f THEN Marked \cup {idx} ELSE Marked \ {idx}
  <1>1. /\ buf' = [buf EXCEPT ![LI(idx)] = IF f THEN buf[LI(idx)] \cup {BI(idx)}
                                           ELSE buf[LI(idx)] \ {BI(idx)}]
        /\ bits' = bits /\ bits \in Nat
    BY DEF setbit, BitMapInv
  <1>2. /\ idx \in Nat /\ LI(idx) \in DOMAIN buf /\ BI(idx) \in Positions
        /\ LI(idx) * BitsPerLong + BI(idx) < bits
    <2>1. idx \in Nat /\ idx < bits
      BY <1>1
    <2> QED  BY <2>1, MarkedSlots, WordAndPlace
  <1>3. /\ DOMAIN buf' = DOMAIN buf
        /\ \A l \in DOMAIN buf : buf'[l] = IF l # LI(idx) THEN buf[l]
                                          ELSE IF f THEN buf[l] \cup {BI(idx)}
                                          ELSE buf[l] \ {BI(idx)}
    BY <1>1
  <1>4. BitMapInv'
    <2>1. \A l \in DOMAIN buf' : buf'[l] \subseteq Positions
      BY <1>2, <1>3 DEF BitMapInv
    <2>2. \A l \in DOMAIN buf' : \A p \in buf'[l] : l * BitsPerLong + p < bits
      BY <1>2, <1>3 DEF BitMapInv
    <2> QED  BY <1>1, <1>3, <2>1, <2>2 DEF BitMapInv
  <1>5. ASSUME NEW j \in 0 .. bits - 1
        PROVE  /\ TestBit(j)' <=> BI(j) \in buf'[LI(j)]
               /\ j \in Marked <=> BI(j) \in buf[LI(j)]
               /\ LI(j) \in DOMAIN buf
               /\ j = idx <=> LI(j) = LI(idx) /\ BI(j) = BI(idx)
    <2>1. j \in Nat /\ j < bits
      BY <1>1
    <2>2. TestBit(j)' <=> BI(j) \in buf'[LI(j)]
      BY <1>1, <2>1 DEF TestBit, BI, LI
    <2> QED  BY <1>2, <2>1, <2>2, MarkedSlots, SlotOrder
  <1>6. ASSUME NEW j \in 0 .. bits - 1
        PROVE  TestBit(j)' <=> IF f THEN j \in Marked \cup {idx}
                                    ELSE j \in Marked \ {idx}
    BY <1>3, <1>5
  <1>7. Marked' = {j \in 0 .. bits - 1 : TestBit(j)'} /\ Marked \subseteq 0 .. bits - 1
    BY <1>1 DEF Marked
  <1> QED  BY <1>1, <1>4, <1>6, <1>7

(* Every step keeps the invariant and is a step of the set of slots. *)
LEMMA BitMapStep ==
    ASSUME BitMapInv, [Next]_bvars
    PROVE  BitMapInv' /\ [Map!Next]_(Map!mvars)
  <1>1. CASE PageFilePreAlloc
    <2>1. PICK g \in Growths : resize(bits + g)
      BY <1>1 DEF PageFilePreAlloc
    <2>2. bits + g \in Nat /\ bits + g >= bits
      BY <2>1, BitMapAssumption DEF BitMapInv
    <2>3. BitMapInv' /\ Marked' = Marked /\ bits' = bits + g
      BY <2>1, <2>2, ResizeKeepsMarks
    <2> QED  BY <2>2, <2>3 DEF Map!Next, Map!Grow
  <1>2. ASSUME NEW idx \in 0 .. MaxBits - 1, NEW bUsed \in BOOLEAN,
               MarkSwapBlockUsed(idx, bUsed)
        PROVE  BitMapInv' /\ Map!Next
    <2>1. idx \in 0 .. bits - 1
      BY <1>2, BitMapAssumption DEF MarkSwapBlockUsed, BitMapInv
    <2>2. /\ BitMapInv' /\ bits' = bits
          /\ Marked' = IF bUsed THEN Marked \cup {idx} ELSE Marked \ {idx}
      BY <1>2, <2>1, SetBitMarks DEF MarkSwapBlockUsed
    <2>3. Map!Mark(idx) \/ Map!Release(idx)
      BY <2>1, <2>2 DEF Map!Mark, Map!Release
    <2> QED  BY <2>1, <2>2, <2>3 DEF Map!Next
  <1>3. CASE clear
    BY <1>3, ClearInv DEF Map!Next, Map!Clear
  <1>4. CASE UNCHANGED bvars
    <2>1. BitMapInv'
      BY <1>4 DEF bvars, BitMapInv
    <2>2. UNCHANGED Map!mvars
      BY <1>4 DEF bvars, Map!mvars, Marked, TestBit
    <2> QED  BY <2>1, <2>2
  <1> QED  BY <1>1, <1>2, <1>3, <1>4 DEF Next

-----------------------------------------------------------------------------
(* The theorems *)

(* find0 finds the lowest slot that is not in use, and none only when all  *)
(* are: PageFilePreAlloc grows the file no sooner than it must.            *)
THEOREM LowestFound == Spec => []FindsLowest
  <1>1. Init => BitMapInv
    BY EmptyInv DEF Init
  <1>2. BitMapInv /\ [Next]_bvars => BitMapInv'
    BY BitMapStep
  <1> QED  BY <1>1, <1>2, FindLemma, PTL DEF Spec

(* The words implement the set of used slots that RamManager is modelled   *)
(* with.                                                                   *)
THEOREM WordsImplementSlots == Spec => ImplementsSlotMap
  <1>1. Init => BitMapInv /\ Map!Init
    BY EmptyInv DEF Init, Map!Init
  <1>2. BitMapInv /\ [Next]_bvars => BitMapInv' /\ [Map!Next]_(Map!mvars)
    BY BitMapStep
  <1> QED  BY <1>1, <1>2, PTL DEF Spec, ImplementsSlotMap, Map!Spec

-----------------------------------------------------------------------------
(* The entries that stand for a range *)

(* The entry with nb pages left before e, and the pages it takes. *)
Entry(e, nb) == <<EntryLevel(e - nb, nb), (e - nb) \div Step[EntryLevel(e - nb, nb)]>>
Taken(e, nb) == Step[EntryLevel(e - nb, nb)]

(* f has the entries of the last nb pages of a range that ends at e. *)
LeavesTo(f, e, n) ==
    /\ f = [k \in 0 .. n |-> f[k]]
    /\ f[0] = {}
    /\ \A nb \in 1 .. n : f[nb] = {Entry(e, nb)} \cup f[nb - Taken(e, nb)]

(* An entry begins where it should and is not too long. *)
LEMMA EntryFits ==
    ASSUME NEW index \in Nat, NEW nb \in Nat \ {0}
    PROVE  LET l == EntryLevel(index, nb)
           IN  /\ l \in Levels /\ Step[l] \in Nat \ {0} /\ Step[l] <= nb
               /\ index \div Step[l] \in Nat
               /\ index = (index \div Step[l]) * Step[l]
  <1> DEFINE S == {l \in Levels : index % Step[l] = 0 /\ nb >= Step[l]}
             n == P_L2_LEVELS - 1
             l == EntryLevel(index, nb)
  <1>1. n \in Nat /\ Levels = 0 .. n
    BY MemoryMapAssumption DEF Levels
  <1>2. 0 \in S
    <2>1. Step[0] = 1 /\ 0 \in Levels
      BY <1>1, StepDef
    <2>2. index % 1 = 0
      OBVIOUS
    <2> QED  BY <2>1, <2>2
  <1>3. S \in SUBSET (0 .. n)
    BY <1>1
  <1>4. Max(S) \in S
    <2> HIDE DEF S, n
    <2> QED  BY <1>1, <1>2, <1>3, MaxIsGreatest
  <1>5. l = Max(S)
    BY DEF EntryLevel
  <1>6. l \in Levels /\ index % Step[l] = 0 /\ nb >= Step[l]
    <2> HIDE DEF l
    <2> QED  BY <1>4, <1>5
  <1> HIDE DEF l
  <1>7. Step[l] \in Nat \ {0}
    BY <1>6, StepDef, MemoryMapAssumption DEF Levels
  <1> DEFINE s == Step[l]
  <1>8. Quot(index, s) \in Nat /\ Over(index, s) = 0
        /\ index = Quot(index, s) * s + Over(index, s)
    <2> HIDE DEF s
    <2>1. s \in Nat \ {0} /\ index % s = 0
      BY <1>6, <1>7 DEF s
    <2> QED  BY <2>1, DivMod DEF Over
  <1>9. index = Quot(index, s) * s
    <2> HIDE DEF s
    <2>1. s \in Nat
      BY <1>7 DEF s
    <2> DEFINE t == Quot(index, s) * s
    <2>2. t \in Nat /\ index = t + 0
      BY <1>8, <2>1
    <2> HIDE DEF t
    <2>3. index = t
      BY <2>2
    <2> QED  BY <2>3 DEF t
  <1>10. index \div s \in Nat /\ index = (index \div s) * s
    <2> HIDE DEF s
    <2> QED  BY <1>8, <1>9 DEF Quot
  <1>11. s \in Nat \ {0} /\ s <= nb
    BY <1>6, <1>7
  <1> QED  BY <1>6, <1>10, <1>11 DEF l

LEMMA LeavesExist ==
    ASSUME NEW e \in Nat, NEW n \in 0 .. e
    PROVE  \E f : LeavesTo(f, e, n)
  <1> DEFINE Good == {m \in 0 .. n : \E f : LeavesTo(f, e, m)}
  <1>1. 0 \in Good
    <2> DEFINE w == [k \in 0 .. 0 |-> {}]
    <2>1. LeavesTo(w, e, 0)
      BY DEF LeavesTo
    <2> QED  BY <2>1
  <1>2. ASSUME NEW m \in 0 .. n - 1, m \in Good  PROVE m + 1 \in Good
    <2>1. PICK w : LeavesTo(w, e, m)
      BY <1>2
    <2> DEFINE y == {Entry(e, m + 1)} \cup w[(m + 1) - Taken(e, m + 1)]
               v == [k \in 0 .. m + 1 |-> IF k = m + 1 THEN y ELSE w[k]]
    <2>2. \A nb \in 1 .. m + 1 : Taken(e, nb) \in Nat \ {0} /\ Taken(e, nb) <= nb
      <3> TAKE nb \in 1 .. m + 1
      <3>1. e - nb \in Nat /\ nb \in Nat \ {0}
        OBVIOUS
      <3> QED  BY <3>1, EntryFits DEF Taken
    <2>3. \A nb \in 1 .. m : w[nb] = {Entry(e, nb)} \cup w[nb - Taken(e, nb)]
      BY <2>1 DEF LeavesTo
    <2> HIDE DEF y
    <2>4. v = [k \in 0 .. m + 1 |-> v[k]]
      OBVIOUS
    <2>5. v[0] = {}
      BY <2>1 DEF LeavesTo
    <2>6. ASSUME NEW nb \in 1 .. m + 1
          PROVE v[nb] = {Entry(e, nb)} \cup v[nb - Taken(e, nb)]
      <3>1. nb - Taken(e, nb) \in 0 .. m
        BY <2>2
      <3>2. v[nb - Taken(e, nb)] = w[nb - Taken(e, nb)]
        BY <3>1
      <3>3. CASE nb = m + 1
        <4>1. v[nb] = y
          BY <3>3
        <4>2. y = {Entry(e, nb)} \cup w[nb - Taken(e, nb)]
          BY <3>3, Zenon DEF y
        <4> HIDE DEF v
        <4> QED  BY <3>2, <4>1, <4>2
      <3>4. CASE nb # m + 1
        <4>1. nb \in 1 .. m /\ v[nb] = w[nb]
          BY <3>4
        <4> QED  BY <2>3, <3>2, <4>1
      <3> QED  BY <3>3, <3>4
    <2>7. LeavesTo(v, e, m + 1)
      <3> HIDE DEF v
      <3> QED  BY <2>4, <2>5, <2>6 DEF LeavesTo
    <2> QED  BY <2>7
  <1>3. \A k \in 0 .. n : k \in Good
    <2> HIDE DEF Good
    <2> QED  BY <1>1, <1>2, UpTo
  <1> QED  BY <1>3

LEMMA LeavesUnfold ==
    ASSUME NEW f, NEW e, NEW n \in Nat,
           f = [nb \in 0 .. n |->
                  IF nb = 0 THEN {} ELSE {Entry(e, nb)} \cup f[nb - Taken(e, nb)]]
    PROVE  LeavesTo(f, e, n)
  <1>1. \A nb \in 0 .. n : f[nb] =
            IF nb = 0 THEN {} ELSE {Entry(e, nb)} \cup f[nb - Taken(e, nb)]
    BY Zenon
  <1>2. f[0] = {}
    BY <1>1
  <1>3. \A nb \in 1 .. n : f[nb] = {Entry(e, nb)} \cup f[nb - Taken(e, nb)]
    BY <1>1
  <1>4. f = [nb \in 0 .. n |-> f[nb]]
    OBVIOUS
  <1> QED  BY <1>2, <1>3, <1>4 DEF LeavesTo

LEMMA LeavesDef ==
    ASSUME NEW first \in Nat, NEW count \in Nat
    PROVE  \E f : LeavesTo(f, first + count, count) /\ Leaves(first, count) = f[count]
  <1> DEFINE e == first + count
             H(w) == [nb \in 0 .. count |->
                        IF nb = 0 THEN {}
                        ELSE LET index == first + count - nb
                                 l == EntryLevel(index, nb)
                             IN  {<<l, index \div Step[l]>>} \cup w[nb - Step[l]]]
             G(w) == [nb \in 0 .. count |->
                        IF nb = 0 THEN {} ELSE {Entry(e, nb)} \cup w[nb - Taken(e, nb)]]
             f == CHOOSE w : w = G(w)
  <1>1. PICK w : LeavesTo(w, e, count)
    <2>1. e \in Nat /\ count \in 0 .. e
      OBVIOUS
    <2> HIDE DEF e
    <2> QED  BY <2>1, LeavesExist
  <1>2. w = G(w)
    <2> HIDE DEF e
    <2>1. \A k \in 0 .. count : w[k] = G(w)[k]
      BY <1>1 DEF LeavesTo
    <2> QED  BY <1>1, <2>1 DEF LeavesTo
  <1>3. f = G(f)
    <2> HIDE DEF G
    <2> QED  BY <1>2
  <1>4. Leaves(first, count) = f[count]
    <2>1. Leaves(first, count) = (CHOOSE g : g = H(g))[count]
      BY Zenon DEF Leaves
    <2>2. ASSUME NEW g  PROVE H(g) = G(g)
      <3>1. ASSUME NEW nb \in 0 .. count
            PROVE  (IF nb = 0 THEN {}
                    ELSE LET index == first + count - nb
                             l == EntryLevel(index, nb)
                         IN  {<<l, index \div Step[l]>>} \cup g[nb - Step[l]])
                 = (IF nb = 0 THEN {} ELSE {Entry(e, nb)} \cup g[nb - Taken(e, nb)])
        <4> DEFINE index == first + count - nb
                   l == EntryLevel(index, nb)
        <4>1. index = e - nb
          OBVIOUS
        <4> HIDE DEF index, e
        <4>2. Entry(e, nb) = <<l, index \div Step[l]>> /\ Taken(e, nb) = Step[l]
          BY <4>1, Zenon DEF Entry, Taken
        <4> QED  BY <4>2, Zenon DEF index
      <3> QED  BY <3>1, Zenon
    <2>3. (CHOOSE g : g = H(g)) = f
      <3> HIDE DEF H, G
      <3> QED  BY <2>2, Zenon
    <2> HIDE DEF H, G
    <2> QED  BY <2>1, <2>3
  <1>5. LeavesTo(f, e, count)
    <2> HIDE DEF f, e
    <2> QED  BY <1>3, LeavesUnfold
  <1> QED  BY <1>4, <1>5

(* The entry of level l on the way to page p. *)
Place(l, p) == <<l, p \div Step[l]>>

(* An entry holds the pages it takes. *)
LEMMA EntryHolds ==
    ASSUME NEW e \in Nat, NEW nb \in 1 .. e, NEW l \in Levels, NEW p \in Nat
    PROVE  /\ Taken(e, nb) \in 1 .. nb
           /\ Place(l, p) = Entry(e, nb) => e - nb <= p /\ p < (e - nb) + Taken(e, nb)
           /\ e - nb <= p /\ p < (e - nb) + Taken(e, nb)
                => \E k \in Levels : Place(k, p) = Entry(e, nb)
  <1> DEFINE index == e - nb
             k == EntryLevel(index, nb)
             s == Step[k]
             i == index \div s
             is == i * s
  <1>1. index \in Nat /\ nb \in Nat \ {0}
    OBVIOUS
  <1>2. k \in Levels /\ s \in Nat \ {0} /\ s <= nb /\ i \in Nat /\ index = is
    <2> HIDE DEF index
    <2> QED  BY <1>1, EntryFits
  <1>3. Taken(e, nb) = s /\ Entry(e, nb) = <<k, i>>
    BY DEF Taken, Entry
  <1>4. p \div s = i <=> is <= p /\ p < is + s
    <2> HIDE DEF s, i
    <2> QED  BY <1>2, DivIs
  <1>5. Place(l, p) = <<k, i>> => l = k /\ p \div s = i
    <2> HIDE DEF index, i, k
    <2> QED  BY Zenon DEF Place, s
  <1>6. p \div s = i => Place(k, p) = <<k, i>>
    BY DEF Place
  <1> HIDE DEF index, k, s, i, is
  <1>7. Taken(e, nb) \in 1 .. nb
    BY <1>2, <1>3
  <1>8. is <= p /\ p < is + s <=> e - nb <= p /\ p < (e - nb) + Taken(e, nb)
    BY <1>2, <1>3 DEF index
  <1>9. Place(l, p) = Entry(e, nb) => e - nb <= p /\ p < (e - nb) + Taken(e, nb)
    BY <1>3, <1>4, <1>5, <1>8, Zenon
  <1>10. e - nb <= p /\ p < (e - nb) + Taken(e, nb) => Place(k, p) = Entry(e, nb)
    BY <1>3, <1>4, <1>6, <1>8, Zenon
  <1> QED  BY <1>2, <1>7, <1>9, <1>10

(* The leaves of a range are on the way to its pages and to no others. *)
LEMMA LeavesCover ==
    ASSUME NEW first \in Nat, NEW count \in Nat
    PROVE  \A p \in Nat :
              (\E l \in Levels : Place(l, p) \in Leaves(first, count))
                 <=> first <= p /\ p < first + count
  <1> DEFINE e == first + count
  <1>1. PICK f : LeavesTo(f, e, count) /\ Leaves(first, count) = f[count]
    BY LeavesDef
  <1>e. e \in Nat /\ count \in 0 .. e /\ first = e - count
    OBVIOUS
  <1> HIDE DEF e
  <1> DEFINE P(nb) == \A p \in Nat :
                         (\E l \in Levels : Place(l, p) \in f[nb]) <=> e - nb <= p /\ p < e
             T == {n \in 0 .. count : \A nb \in 0 .. n : P(nb)}
  <1>2. P(0)
    <2>1. f[0] = {}
      BY <1>1 DEF LeavesTo
    <2>2. \A p \in Nat : ~ (e - 0 <= p /\ p < e)
      BY <1>e
    <2> QED  BY <2>1, <2>2
  <1>3. 0 \in T
    <2>1. \A nb \in 0 .. 0 : nb = 0
      OBVIOUS
    <2> HIDE DEF P
    <2> QED  BY <1>2, <2>1
  <1>4. ASSUME NEW n \in 0 .. count - 1, n \in T  PROVE n + 1 \in T
    <2> DEFINE nb == n + 1
               t == Taken(e, nb)
    <2>1. nb \in 1 .. count /\ nb \in 1 .. e
      BY <1>e
    <2>2. f[nb] = {Entry(e, nb)} \cup f[nb - t]
      <3> HIDE DEF nb
      <3> QED  BY <1>1, <2>1 DEF LeavesTo
    <2>3. t \in 1 .. nb
      <3> HIDE DEF nb
      <3>1. 0 \in Levels
        BY MemoryMapAssumption DEF Levels
      <3> QED  BY <1>e, <2>1, <3>1, EntryHolds
    <2>4. nb - t \in 0 .. n
      <3> HIDE DEF t
      <3> QED  BY <2>3
    <2>5. P(nb - t)
      <3> HIDE DEF P, nb, t
      <3> QED  BY <1>4, <2>4
    <2>6. P(nb)
      <3> SUFFICES ASSUME NEW p \in Nat
                   PROVE  (\E l \in Levels : Place(l, p) \in f[nb]) <=> e - nb <= p /\ p < e
        OBVIOUS
      <3> HIDE DEF nb
      <3>1. \A l \in Levels : Place(l, p) = Entry(e, nb) => e - nb <= p /\ p < (e - nb) + t
        BY <1>e, <2>1, EntryHolds
      <3>2. e - nb <= p /\ p < (e - nb) + t => \E k \in Levels : Place(k, p) = Entry(e, nb)
        <4>1. 0 \in Levels
          BY MemoryMapAssumption DEF Levels
        <4> QED  BY <1>e, <2>1, <4>1, EntryHolds
      <3> HIDE DEF t
      <3>3. (\E l \in Levels : Place(l, p) \in f[nb - t]) <=> e - (nb - t) <= p /\ p < e
        BY <2>5
      <3>4. e - nb \in Nat /\ nb \in Nat /\ t \in Nat
        BY <1>e, <2>1, <2>3
      <3>5. e - (nb - t) = (e - nb) + t /\ (e - nb) + t <= e
        BY <1>e, <2>3, <3>4
      <3>6. (\E l \in Levels : Place(l, p) \in f[nb])
              <=> \/ \E l \in Levels : Place(l, p) = Entry(e, nb)
                  \/ \E l \in Levels : Place(l, p) \in f[nb - t]
        BY <2>2
      <3>7. (\E l \in Levels : Place(l, p) = Entry(e, nb)) <=> e - nb <= p /\ p < (e - nb) + t
        BY <3>1, <3>2
      <3> HIDE DEF P
      <3>8. (\E l \in Levels : Place(l, p) \in f[nb])
              <=> \/ e - nb <= p /\ p < (e - nb) + t
                  \/ (e - nb) + t <= p /\ p < e
        BY <3>3, <3>5, <3>6, <3>7
      <3>9. (\/ e - nb <= p /\ p < (e - nb) + t
             \/ (e - nb) + t <= p /\ p < e) <=> e - nb <= p /\ p < e
        BY <1>e, <3>4, <3>5
      <3> QED  BY <3>8, <3>9
    <2>7. \A k \in 0 .. n : P(k)
      <3> HIDE DEF P
      <3> QED  BY <1>4
    <2>8. \A k \in 0 .. nb : k \in 0 .. n \/ k = nb
      OBVIOUS
    <2> HIDE DEF P
    <2> QED  BY <1>e, <2>1, <2>6, <2>7, <2>8
  <1>5. \A n \in 0 .. count : n \in T
    <2> HIDE DEF T
    <2> QED  BY <1>3, <1>4, UpTo
  <1>6. P(count)
    <2>1. count \in T /\ count \in 0 .. count
      <3> HIDE DEF T
      <3> QED  BY <1>5
    <2> HIDE DEF P
    <2> QED  BY <2>1
  <1>7. \A p \in Nat : e - count <= p /\ p < e <=> first <= p /\ p < first + count
    BY <1>e DEF e
  <1> QED  BY <1>1, <1>6, <1>7

-----------------------------------------------------------------------------
(* The tree of a view *)

FlatRanges == [mr : MRs, start : Pages, size : 1 .. NumPages, off : Pages]
Covers(r, p) == r.start <= p /\ p < RangeEnd(r)

(* The trees: every level has its entries. *)
Trees == {t \in [Levels -> UNION {[0 .. n -> FlatRanges \cup {NULL}] : n \in Int}] :
             \A l \in Levels : t[l] \in [0 .. (NumPages \div Step[l]) - 1 -> FlatRanges \cup {NULL}]}

LEMMA TreeFacts ==
    ASSUME NEW t \in Trees, NEW r \in FlatRanges
    PROVE  mem_add(t, r) \in Trees
  <1> DEFINE V == FlatRanges \cup {NULL}
             N(l) == (NumPages \div Step[l]) - 1
             u == mem_add(t, r)
  <1>1. \A l \in Levels : t[l] \in [0 .. N(l) -> V]
    BY DEF Trees
  <1>2. \A l \in Levels : N(l) \in Int
    <2> TAKE l \in Levels
    <2>1. l \in 0 .. P_L2_LEVELS /\ P_L2_LEVELS \in 0 .. P_L2_LEVELS
      BY MemoryMapAssumption DEF Levels
    <2>2. Step[l] \in Nat \ {0} /\ NumPages \in Nat
      BY <2>1, StepDef DEF NumPages
    <2>3. NumPages \div Step[l] \in Nat
      BY <2>2, DivMod DEF Quot
    <2> QED  BY <2>3
  <1>3. u = [l \in Levels |-> [i \in DOMAIN t[l] |->
               IF <<l, i>> \in Leaves(r.start, r.size) THEN r ELSE t[l][i]]]
    BY DEF mem_add
  <1> HIDE DEF u, N
  <1>4. ASSUME NEW l \in Levels  PROVE u[l] \in [0 .. N(l) -> V]
    <2>1. u[l] = [i \in 0 .. N(l) |->
                    IF <<l, i>> \in Leaves(r.start, r.size) THEN r ELSE t[l][i]]
      BY <1>1, <1>3
    <2> QED  BY <1>1, <2>1
  <1>5. u \in [Levels -> UNION {[0 .. n -> V] : n \in Int}]
    <2>1. \A l \in Levels : u[l] \in UNION {[0 .. n -> V] : n \in Int}
      BY <1>2, <1>4
    <2> QED  BY <1>3, <2>1
  <1> QED  BY <1>4, <1>5 DEF Trees, u, N

(* A range is not the mark of no section, and its pages are pages. *)
LEMMA RangeFacts ==
    ASSUME NEW r \in FlatRanges
    PROVE  /\ r # NULL
           /\ r.mr \in MRs /\ r.start \in Nat /\ r.size \in Nat \ {0} /\ r.off \in Nat
           /\ RangeEnd(r) \in Nat /\ RangeEnd(r) = r.start + r.size
  <1>1. r = [mr |-> r.mr, start |-> r.start, size |-> r.size, off |-> r.off]
        /\ r.mr \in MRs /\ r.start \in Pages /\ r.off \in Pages /\ r.size \in 1 .. NumPages
    BY DEF FlatRanges
  <1>2. r # NULL
    BY <1>1, MemoryMapAssumption, Zenon
  <1>3. NumPages \in Nat
    BY StepDef, MemoryMapAssumption DEF NumPages
  <1> QED  BY <1>1, <1>2, <1>3 DEF RangeEnd, Pages

LEMMA NoTreeIsTree == NoTree \in Trees
  <1> DEFINE N(l) == (NumPages \div Step[l]) - 1
  <1>2. \A l \in Levels : N(l) \in Int
    <2> TAKE l \in Levels
    <2>1. l \in 0 .. P_L2_LEVELS /\ P_L2_LEVELS \in 0 .. P_L2_LEVELS
      BY MemoryMapAssumption DEF Levels
    <2>2. Step[l] \in Nat \ {0} /\ NumPages \in Nat
      BY <2>1, StepDef DEF NumPages
    <2>3. NumPages \div Step[l] \in Nat
      BY <2>2, DivMod DEF Quot
    <2> QED  BY <2>3
  <1>3. NoTree = [l \in Levels |-> [i \in 0 .. N(l) |-> NULL]]
    BY DEF NoTree
  <1> HIDE DEF N
  <1>4. \A l \in Levels : NoTree[l] \in [0 .. N(l) -> FlatRanges \cup {NULL}]
    BY <1>3
  <1>5. NoTree \in [Levels -> UNION {[0 .. n -> FlatRanges \cup {NULL}] : n \in Int}]
    <2>1. \A l \in Levels : NoTree[l] \in UNION {[0 .. n -> FlatRanges \cup {NULL}] : n \in Int}
      BY <1>2, <1>4
    <2> QED  BY <1>3, <2>1
  <1> QED  BY <1>4, <1>5 DEF Trees, N

(* The tree of a view is built a range at a time. *)
LEMMA TreeOfDef ==
    ASSUME NEW view \in Seq(FlatRanges)
    PROVE  \E t \in [0 .. Len(view) -> Trees] :
              /\ t[0] = NoTree
              /\ \A k \in 1 .. Len(view) : t[k] = mem_add(t[k - 1], view[k])
              /\ TreeOf(view) = t[Len(view)]
  <1> DEFINE n == Len(view)
             G(w) == [k \in 0 .. n |-> IF k = 0 THEN NoTree ELSE mem_add(w[k - 1], view[k])]
             F == [z \in Trees \X (1 .. n) |-> mem_add(z[1], view[z[2]])]
             t == CHOOSE w : w = G(w)
  <1>1. n \in Nat /\ \A k \in 1 .. n : view[k] \in FlatRanges
    OBVIOUS
  <1>2. F \in [Trees \X (1 .. n) -> Trees]
    <2>1. \A z \in Trees \X (1 .. n) : mem_add(z[1], view[z[2]]) \in Trees
      BY <1>1, TreeFacts
    <2> QED  BY <2>1
  <1>3. PICK w : Iterates(w, F, Trees, NoTree, n)
    <2> HIDE DEF F, n
    <2> QED  BY <1>1, <1>2, NoTreeIsTree, IteratesExist
  <1>4. w = G(w)
    <2>1. w \in [0 .. n -> Trees]
      BY <1>3 DEF Iterates
    <2>2. ASSUME NEW k \in 0 .. n, k # 0  PROVE w[k] = mem_add(w[k - 1], view[k])
      <3>1. k \in 1 .. n /\ w[k - 1] \in Trees
        BY <1>1, <2>1, <2>2
      <3>2. w[k] = F[<<w[k - 1], k>>]
        BY <1>3, <3>1 DEF Iterates
      <3> QED  BY <3>1, <3>2
    <2>3. w[0] = NoTree
      BY <1>3 DEF Iterates
    <2> QED  BY <2>1, <2>2, <2>3
  <1>5. t = G(t)
    <2> HIDE DEF G
    <2> QED  BY <1>4
  <1>6. TreeOf(view) = t[n]
    BY DEF TreeOf
  <1> HIDE DEF t
  <1>7. \A k \in 0 .. n : t[k] = IF k = 0 THEN NoTree ELSE mem_add(t[k - 1], view[k])
    <2>1. \A k \in 0 .. n : t[k] = G(t)[k]
      <3> HIDE DEF G
      <3> QED  BY <1>5
    <2> QED  BY <2>1
  <1>8. t[0] = NoTree /\ \A k \in 1 .. n : t[k] = mem_add(t[k - 1], view[k])
    BY <1>1, <1>7
  <1>9. \A k \in 0 .. n : t[k] \in Trees
    <2> DEFINE T == {k \in 0 .. n : t[k] \in Trees}
    <2>1. 0 \in T
      BY <1>1, <1>8, NoTreeIsTree
    <2>2. ASSUME NEW k \in 0 .. n - 1, k \in T  PROVE k + 1 \in T
      <3>1. k + 1 \in 1 .. n /\ (k + 1) - 1 = k
        BY <1>1
      <3>2. t[k + 1] = mem_add(t[k], view[k + 1])
        BY <1>8, <3>1
      <3>3. t[k + 1] \in Trees
        BY <1>1, <2>2, <3>1, <3>2, TreeFacts
      <3> QED  BY <3>1, <3>3
    <2>3. \A k \in 0 .. n : k \in T
      <3> HIDE DEF T, n
      <3> QED  BY <1>1, <2>1, <2>2, UpTo
    <2> QED  BY <2>3
  <1>10. t = [k \in 0 .. n |-> t[k]]
    BY <1>5
  <1>11. t \in [0 .. n -> Trees]
    BY <1>9, <1>10
  <1> QED  BY <1>6, <1>8, <1>11

IsLeaf(r, l, p) == Place(l, p) \in Leaves(r.start, r.size)

(* The ranges of view that have been added, k of them, are those whose     *)
(* leaves are in tree t.                                                   *)
Shown(t, view, k) ==
    \A l \in Levels, p \in Pages :
        \/ /\ t[l][p \div Step[l]] = NULL
           /\ \A j \in 1 .. k : ~ IsLeaf(view[j], l, p)
        \/ \E j \in 1 .. k : t[l][p \div Step[l]] = view[j] /\ IsLeaf(view[j], l, p)

LEMMA TreeShown ==
    ASSUME NEW view \in Seq(FlatRanges)
    PROVE  TreeOf(view) \in Trees /\ Shown(TreeOf(view), view, Len(view))
  <1> DEFINE n == Len(view)
  <1>1. PICK t \in [0 .. n -> Trees] :
              /\ t[0] = NoTree
              /\ \A k \in 1 .. n : t[k] = mem_add(t[k - 1], view[k])
              /\ TreeOf(view) = t[n]
    BY TreeOfDef
  <1>2. n \in Nat /\ \A k \in 1 .. n : view[k] \in FlatRanges
    OBVIOUS
  <1> DEFINE T == {k \in 0 .. n : Shown(t[k], view, k)}
  <1>3. 0 \in T
    <2>1. ASSUME NEW l \in Levels, NEW p \in Pages  PROVE NoTree[l][p \div Step[l]] = NULL
      <3> DEFINE x == p \div Step[l]
                 N == (NumPages \div Step[l]) - 1
      <3>1. x \in 0 .. N
        BY PlaceInLevel
      <3>2. NoTree[l] = [i \in 0 .. N |-> NULL]
        BY DEF NoTree
      <3> HIDE DEF x, N
      <3>3. NoTree[l][x] = NULL
        BY <3>1, <3>2
      <3> QED  BY <3>3 DEF x
    <2> QED  BY <1>1, <1>2, <2>1 DEF Shown
  <1>4. ASSUME NEW k \in 0 .. n - 1, k \in T  PROVE k + 1 \in T
    <2>1. k + 1 \in 1 .. n /\ (k + 1) - 1 = k /\ t[k] \in Trees
      BY <1>2
    <2> DEFINE r == view[k + 1]
    <2>2. t[k + 1] = mem_add(t[k], r) /\ r \in FlatRanges
      BY <1>1, <1>2, <2>1
    <2>3. ASSUME NEW l \in Levels, NEW p \in Pages
          PROVE  t[k + 1][l][p \div Step[l]] =
                     IF IsLeaf(r, l, p) THEN r ELSE t[k][l][p \div Step[l]]
      <3> DEFINE x == p \div Step[l]
                 N == (NumPages \div Step[l]) - 1
      <3>1. x \in 0 .. N
        BY PlaceInLevel
      <3>2. DOMAIN t[k][l] = 0 .. N
        BY <2>1 DEF Trees
      <3>3. mem_add(t[k], r)[l] = [i \in DOMAIN t[k][l] |->
               IF <<l, i>> \in Leaves(r.start, r.size) THEN r ELSE t[k][l][i]]
        BY DEF mem_add
      <3>4. IsLeaf(r, l, p) <=> <<l, x>> \in Leaves(r.start, r.size)
        BY DEF IsLeaf, Place
      <3> HIDE DEF x, N, r
      <3>5. t[k + 1][l][x] = IF <<l, x>> \in Leaves(r.start, r.size) THEN r ELSE t[k][l][x]
        BY <2>2, <3>1, <3>2, <3>3
      <3>6. t[k + 1][l][x] = IF IsLeaf(r, l, p) THEN r ELSE t[k][l][x]
        BY <3>4, <3>5
      <3> QED  BY <3>6 DEF x
    <2>4. ASSUME NEW l \in Levels, NEW p \in Pages
          PROVE  \/ /\ t[k + 1][l][p \div Step[l]] = NULL
                    /\ \A j \in 1 .. k + 1 : ~ IsLeaf(view[j], l, p)
                 \/ \E j \in 1 .. k + 1 :
                       t[k + 1][l][p \div Step[l]] = view[j] /\ IsLeaf(view[j], l, p)
      <3> DEFINE X == t[k + 1][l][p \div Step[l]]
                 Y == t[k][l][p \div Step[l]]
      <3>1. X = IF IsLeaf(r, l, p) THEN r ELSE Y
        BY <2>3
      <3>2. \/ Y = NULL /\ \A j \in 1 .. k : ~ IsLeaf(view[j], l, p)
            \/ \E j \in 1 .. k : Y = view[j] /\ IsLeaf(view[j], l, p)
        BY <1>4 DEF Shown
      <3> HIDE DEF X, Y
      <3>3. \A j \in 1 .. k + 1 : j \in 1 .. k \/ j = k + 1
        BY <1>2
      <3>4. 1 .. k \subseteq 1 .. k + 1 /\ k + 1 \in 1 .. k + 1
        BY <1>2
      <3>5. CASE IsLeaf(r, l, p)
        BY <3>1, <3>4, <3>5 DEF X
      <3>6. CASE ~ IsLeaf(r, l, p)
        <4>1. X = Y
          BY <3>1, <3>6
        <4> QED  BY <3>2, <3>3, <3>4, <3>6, <4>1 DEF X
      <3> QED  BY <3>5, <3>6
    <2>5. Shown(t[k + 1], view, k + 1)
      BY <2>4 DEF Shown
    <2> QED  BY <1>2, <2>5
  <1>5. \A k \in 0 .. n : k \in T
    <2> HIDE DEF T, n
    <2> QED  BY <1>2, <1>3, <1>4, UpTo
  <1>6. n \in T
    BY <1>2, <1>5
  <1> QED  BY <1>1, <1>2, <1>6

(* What a TLB fill finds is a range that covers the page, if one does. *)
LEMMA FindCovers ==
    ASSUME NEW view \in Seq(FlatRanges), NEW p \in Pages
    PROVE  LET leaf == phys_page_find(TreeOf(view), p)
           IN  \/ leaf = NULL /\ \A j \in DOMAIN view : ~ Covers(view[j], p)
               \/ \E j \in DOMAIN view : leaf = view[j] /\ leaf # NULL /\ Covers(view[j], p)
  <1> DEFINE t == TreeOf(view)
             At(l) == t[l][p \div Step[l]]
             met == {l \in Levels : At(l) # NULL}
             leaf == phys_page_find(TreeOf(view), p)
  <1>1. /\ p \in Nat
        /\ \A j \in DOMAIN view : view[j] \in FlatRanges /\ view[j] # NULL
        /\ DOMAIN view = 1 .. Len(view)
    <2>1. \A j \in DOMAIN view : view[j] \in FlatRanges
      OBVIOUS
    <2>2. p \in Nat
      BY DEF Pages
    <2> QED  BY <2>1, <2>2, RangeFacts
  <1>2. \A l \in Levels :
          \/ At(l) = NULL /\ \A j \in DOMAIN view : ~ IsLeaf(view[j], l, p)
          \/ \E j \in DOMAIN view : At(l) = view[j] /\ IsLeaf(view[j], l, p)
    BY <1>1, TreeShown DEF Shown
  <1>3. \A j \in DOMAIN view :
           (\E l \in Levels : IsLeaf(view[j], l, p)) <=> Covers(view[j], p)
    <2> TAKE j \in DOMAIN view
    <2>1. view[j].start \in Nat /\ view[j].size \in Nat
      BY <1>1, RangeFacts
    <2> QED  BY <1>1, <2>1, LeavesCover DEF IsLeaf, Covers, RangeEnd
  <1>4. leaf = IF met = {} THEN NULL ELSE At(Max(met))
    BY DEF phys_page_find
  <1>5. met # {} => Max(met) \in met
    <2>1. P_L2_LEVELS - 1 \in Nat /\ met \in SUBSET (0 .. P_L2_LEVELS - 1)
      BY MemoryMapAssumption DEF Levels
    <2> HIDE DEF met
    <2> QED  BY <2>1, MaxIsGreatest
  <1> HIDE DEF At, leaf
  <1>6. CASE met = {}
    <2>1. \A l \in Levels : At(l) = NULL
      BY <1>6
    <2>2. \A l \in Levels, j \in DOMAIN view : ~ IsLeaf(view[j], l, p)
      BY <1>1, <1>2, <2>1
    <2>3. \A j \in DOMAIN view : ~ Covers(view[j], p)
      BY <1>3, <2>2
    <2> QED  BY <1>4, <1>6, <2>3 DEF leaf
  <1>7. CASE met # {}
    <2> DEFINE x == Max(met)
    <2>1. x \in Levels /\ At(x) # NULL /\ leaf = At(x)
      BY <1>4, <1>5, <1>7
    <2> HIDE DEF x
    <2>2. PICK j \in DOMAIN view : At(x) = view[j] /\ IsLeaf(view[j], x, p)
      BY <1>2, <2>1
    <2>3. Covers(view[j], p)
      BY <1>3, <2>1, <2>2
    <2> QED  BY <2>1, <2>2, <2>3 DEF leaf
  <1> QED  BY <1>6, <1>7

-----------------------------------------------------------------------------
(* The sections the listeners are told of *)

(* What is left of new from j. *)
From(new, j) == SubSeq(new, j, Len(new))

LEMMA FromFacts ==
    ASSUME NEW S, NEW new \in Seq(S)
    PROVE  /\ From(new, Len(new) + 1) = <<>> /\ From(new, 1) = new
           /\ \A j \in 1 .. Len(new) : From(new, j) = <<new[j]>> \o From(new, j + 1)
  <1>1. From(new, Len(new) + 1) = <<>>
    BY DEF From
  <1>2. From(new, 1) = new
    BY DEF From
  <1>3. ASSUME NEW j \in 1 .. Len(new)  PROVE From(new, j) = <<new[j]>> \o From(new, j + 1)
    <2> DEFINE a == From(new, j)
               b == From(new, j + 1)
               n == Len(new)
    <2>1. n \in Nat /\ j \in 1 .. n /\ new[j] \in S
      OBVIOUS
    <2>2. a \in Seq(S) /\ Len(a) = n - j + 1 /\ \A i \in 1 .. n - j + 1 : a[i] = new[j + i - 1]
      BY SubSeqProperties DEF From
    <2>3. b \in Seq(S) /\ Len(b) = n - j /\ \A i \in 1 .. n - j : b[i] = new[(j + 1) + i - 1]
      BY SubSeqProperties DEF From
    <2> HIDE DEF a, b
    <2> DEFINE h == <<new[j]>>
               c == h \o b
    <2>4. h \in Seq(S) /\ Len(h) = 1 /\ h[1] = new[j]
      BY <2>1
    <2> HIDE DEF h
    <2>5. c \in Seq(S) /\ Len(c) = 1 + (n - j)
          /\ \A i \in 1 .. 1 + (n - j) : c[i] = IF i <= 1 THEN h[i] ELSE b[i - 1]
      <3>1. c \in Seq(S) /\ Len(c) = Len(h) + Len(b)
            /\ \A i \in 1 .. Len(h) + Len(b) : c[i] = IF i <= Len(h) THEN h[i] ELSE b[i - Len(h)]
        <4> HIDE DEF c
        <4> QED  BY <2>3, <2>4, ConcatProperties DEF c
      <3> HIDE DEF c
      <3> QED  BY <2>3, <2>4, <3>1
    <2> HIDE DEF c
    <2>6. \A i \in 1 .. Len(a) : a[i] = c[i]
      <3> TAKE i \in 1 .. Len(a)
      <3>1. i \in 1 .. n - j + 1 /\ i \in Nat
        BY <2>1, <2>2
      <3>2. CASE i = 1
        BY <2>1, <2>2, <2>4, <2>5, <3>1, <3>2
      <3>3. CASE i # 1
        <4> DEFINE k == i - 1
        <4>1. k \in 1 .. n - j /\ j + (i - 1) = (j + 1) + (k - 1) /\ ~ (i <= 1)
          BY <2>1, <3>1, <3>3
        <4>2. a[i] = new[j + (i - 1)]
          BY <2>2, <3>1
        <4>3. b[k] = new[(j + 1) + (k - 1)]
          <5> HIDE DEF k
          <5> QED  BY <2>3, <4>1
        <4>4. i \in 1 .. 1 + (n - j)
          BY <2>1, <3>1
        <4>5. c[i] = b[k]
          BY <2>5, <4>1, <4>4
        <4> HIDE DEF k
        <4> QED  BY <4>1, <4>2, <4>3, <4>5
      <3> QED  BY <3>2, <3>3
    <2>7. Len(a) = Len(c)
      BY <2>1, <2>2, <2>5
    <2>8. a = c
      BY <2>2, <2>5, <2>6, <2>7, SeqEqual
    <2> QED  BY <2>8 DEF a, b, c, h
  <1> QED  BY <1>1, <1>2, <1>3

(* The listeners are told of all of the new view, in order, whatever the   *)
(* old one was: the walk along both drops and repeats nothing.             *)
LEMMA AllAdded ==
    ASSUME NEW S, NEW old \in Seq(S), NEW new \in Seq(S)
    PROVE  Added(old, new) = new
  <1> DEFINE a == Len(old)
             b == Len(new)
             Heads == (1 .. a + 1) \X (1 .. b + 1)
             B(w, i, j) ==
                 IF i > a /\ j > b THEN <<>>
                 ELSE IF OldFirst(old, new, i, j) THEN w[<<i + 1, j>>]
                 ELSE IF i <= a /\ old[i] = new[j] THEN <<new[j]>> \o w[<<i + 1, j + 1>>]
                 ELSE <<new[j]>> \o w[<<i, j + 1>>]
             G(w) == [h \in Heads |-> B(w, h[1], h[2])]
             f == CHOOSE w : w = G(w)
             v == [h \in Heads |-> From(new, h[2])]
  <1>1. a \in Nat /\ b \in Nat
    OBVIOUS
  <1>2. Added(old, new) = f[<<1, 1>>]
    BY Zenon DEF Added
  (* Whatever w has From at the later heads has it at these. *)
  <1>3. ASSUME NEW w, NEW i \in 1 .. a + 1, NEW j \in 1 .. b + 1,
               \A x \in 1 .. a + 1, y \in 1 .. b + 1 :
                  x + y > i + j => w[<<x, y>>] = From(new, y)
        PROVE  B(w, i, j) = From(new, j)
    <2>1. CASE i > a /\ j > b
      <3>1. j = b + 1
        BY <1>1, <2>1
      <3> QED  BY <2>1, <3>1, FromFacts
    <2>2. CASE ~ (i > a /\ j > b) /\ OldFirst(old, new, i, j)
      <3>1. i + 1 \in 1 .. a + 1 /\ (i + 1) + j > i + j
        BY <1>1, <2>2 DEF OldFirst
      <3>2. w[<<i + 1, j>>] = From(new, j)
        BY <1>3, <3>1
      <3> QED  BY <2>2, <3>2
    <2>3. CASE ~ (i > a /\ j > b) /\ ~ OldFirst(old, new, i, j)
      <3>1. j \in 1 .. b /\ j + 1 \in 1 .. b + 1 /\ i + (j + 1) > i + j
        BY <1>1, <2>3 DEF OldFirst
      <3>2. From(new, j) = <<new[j]>> \o From(new, j + 1)
        BY <3>1, FromFacts
      <3>3. w[<<i, j + 1>>] = From(new, j + 1)
        BY <1>3, <3>1
      <3>4. CASE i <= a /\ old[i] = new[j]
        <4>1. i + 1 \in 1 .. a + 1 /\ (i + 1) + (j + 1) > i + j
          BY <1>1, <3>4
        <4>2. w[<<i + 1, j + 1>>] = From(new, j + 1)
          BY <1>3, <3>1, <4>1
        <4> QED  BY <2>3, <3>2, <3>4, <4>2
      <3>5. CASE ~ (i <= a /\ old[i] = new[j])
        BY <2>3, <3>2, <3>3, <3>5
      <3> QED  BY <3>4, <3>5
    <2> QED  BY <2>1, <2>2, <2>3
  <1> HIDE DEF B
  <1>4. v = G(v)
    <2>1. \A x \in 1 .. a + 1, y \in 1 .. b + 1 : v[<<x, y>>] = From(new, y)
      OBVIOUS
    <2>2. ASSUME NEW h \in Heads  PROVE From(new, h[2]) = B(v, h[1], h[2])
      <3> HIDE DEF v
      <3>1. h[1] \in 1 .. a + 1 /\ h[2] \in 1 .. b + 1
        OBVIOUS
      <3> QED  BY <1>3, <2>1, <3>1
    <2> QED  BY <2>2
  <1>5. f = G(f)
    <2> HIDE DEF G
    <2> QED  BY <1>4
  <1> HIDE DEF f
  <1>6. ASSUME NEW i \in 1 .. a + 1, NEW j \in 1 .. b + 1
        PROVE  f[<<i, j>>] = B(f, i, j)
    <2>1. f[<<i, j>>] = G(f)[<<i, j>>]
      <3> HIDE DEF G
      <3> QED  BY <1>5
    <2>2. <<i, j>> \in Heads
      OBVIOUS
    <2>3. G(f)[<<i, j>>] = B(f, <<i, j>>[1], <<i, j>>[2])
      <3> DEFINE h == <<i, j>>
      <3> HIDE DEF h, Heads
      <3> QED  BY <2>2 DEF h
    <2> QED  BY <2>1, <2>3
  (* By the pages still to be met, fewest first. *)
  <1> DEFINE N == a + b + 2
             T == {n \in 0 .. N : \A i \in 1 .. a + 1, j \in 1 .. b + 1 :
                                     N - (i + j) <= n => f[<<i, j>>] = From(new, j)}
  <1>7. ASSUME NEW n \in 0 .. N,
               \A i \in 1 .. a + 1, j \in 1 .. b + 1 :
                  N - (i + j) < n => f[<<i, j>>] = From(new, j)
        PROVE  n \in T
    <2> SUFFICES ASSUME NEW i \in 1 .. a + 1, NEW j \in 1 .. b + 1, N - (i + j) <= n
                 PROVE  f[<<i, j>>] = From(new, j)
      OBVIOUS
    <2>1. ASSUME NEW x \in 1 .. a + 1, NEW y \in 1 .. b + 1, x + y > i + j
          PROVE  f[<<x, y>>] = From(new, y)
      <3>1. N - (x + y) < n
        BY <1>1, <2>1
      <3> QED  BY <1>7, <3>1
    <2>2. B(f, i, j) = From(new, j)
      BY <1>3, <2>1
    <2> QED  BY <1>6, <2>2
  <1>8. 0 \in T
    <2>1. \A i \in 1 .. a + 1, j \in 1 .. b + 1 : ~ (N - (i + j) < 0)
      BY <1>1
    <2>2. 0 \in 0 .. N
      BY <1>1
    <2> QED  BY <1>7, <2>1, <2>2
  <1>9. ASSUME NEW n \in 0 .. N - 1, n \in T  PROVE n + 1 \in T
    <2>1. n + 1 \in 0 .. N
      BY <1>1
    <2>2. ASSUME NEW i \in 1 .. a + 1, NEW j \in 1 .. b + 1, N - (i + j) < n + 1
          PROVE  f[<<i, j>>] = From(new, j)
      <3>1. N - (i + j) <= n
        BY <1>1, <2>2
      <3> QED  BY <1>9, <3>1
    <2> QED  BY <1>7, <2>1, <2>2
  <1>10. \A n \in 0 .. N : n \in T
    <2>1. N \in Nat
      BY <1>1
    <2> HIDE DEF T, N
    <2> QED  BY <1>8, <1>9, <2>1, UpTo
  <1>11. N \in T /\ N - (1 + 1) <= N /\ 1 \in 1 .. a + 1 /\ 1 \in 1 .. b + 1
    BY <1>1, <1>10
  <1>12. f[<<1, 1>>] = From(new, 1)
    BY <1>11
  <1> QED  BY <1>2, <1>12, FromFacts

-----------------------------------------------------------------------------
(* Rendering one region *)

LeastOf(a, b) == IF a <= b THEN a ELSE b

(* A view's ranges are in order and apart. *)
Ordered(v) == \A i, j \in DOMAIN v : i < j => RangeEnd(v[i]) <= v[j].start

LEMMA OrderedAppend ==
    ASSUME NEW v \in Seq(FlatRanges), NEW r \in FlatRanges, Ordered(v),
           \A x \in Range(v) : RangeEnd(x) <= r.start
    PROVE  /\ Append(v, r) \in Seq(FlatRanges) /\ Ordered(Append(v, r))
           /\ Range(Append(v, r)) = Range(v) \cup {r}
  <1> DEFINE w == Append(v, r)
             n == Len(v)
  <1>1. /\ w \in Seq(FlatRanges) /\ Len(w) = n + 1 /\ n \in Nat
        /\ \A i \in 1 .. n : w[i] = v[i]
        /\ w[n + 1] = r
    BY AppendProperties
  <1>2. DOMAIN w = 1 .. n + 1 /\ DOMAIN v = 1 .. n
    BY <1>1
  <1> HIDE DEF w
  <1>3. ASSUME NEW i \in DOMAIN w, NEW j \in DOMAIN w, i < j
        PROVE  RangeEnd(w[i]) <= w[j].start
    <2>1. i \in 1 .. n /\ (j \in 1 .. n \/ j = n + 1)
      BY <1>1, <1>2, <1>3
    <2>2. CASE j \in 1 .. n
      BY <1>1, <1>2, <1>3, <2>1, <2>2 DEF Ordered
    <2>3. CASE j = n + 1
      <3>1. v[i] \in Range(v)
        BY <1>2, <2>1 DEF Range
      <3> QED  BY <1>1, <2>1, <2>3, <3>1
    <2> QED  BY <2>1, <2>2, <2>3
  <1>4. Range(w) = Range(v) \cup {r}
    <2>1. \A i \in DOMAIN w : i \in 1 .. n \/ i = n + 1
      BY <1>1, <1>2
    <2>2. n + 1 \in DOMAIN w /\ \A i \in DOMAIN v : i \in DOMAIN w
      BY <1>1, <1>2
    <2> QED  BY <1>1, <1>2, <2>1, <2>2 DEF Range
  <1> QED  BY <1>1, <1>3, <1>4 DEF Ordered, w

(* Two ranges of a view that cover a page are one. *)
LEMMA OrderedOne ==
    ASSUME NEW v \in Seq(FlatRanges), Ordered(v), NEW p \in Nat,
           NEW i \in DOMAIN v, NEW j \in DOMAIN v, Covers(v[i], p), Covers(v[j], p)
    PROVE  i = j
  <1>1. i \in Nat /\ j \in Nat /\ v[i] \in FlatRanges /\ v[j] \in FlatRanges
    OBVIOUS
  <1>2. /\ v[i].start \in Nat /\ RangeEnd(v[i]) \in Nat
        /\ v[j].start \in Nat /\ RangeEnd(v[j]) \in Nat
    BY <1>1, RangeFacts
  <1>3. /\ v[i].start <= p /\ p < RangeEnd(v[i])
        /\ v[j].start <= p /\ p < RangeEnd(v[j])
    BY DEF Covers
  <1>4. CASE i < j
    <2>1. RangeEnd(v[i]) <= v[j].start
      BY <1>4 DEF Ordered
    <2> QED  BY <1>2, <1>3, <2>1
  <1>5. CASE j < i
    <2>1. RangeEnd(v[j]) <= v[i].start
      BY <1>5 DEF Ordered
    <2> QED  BY <1>2, <1>3, <2>1
  <1> QED  BY <1>1, <1>4, <1>5

AnyRange == [mr : MRs, start : Nat, size : Nat, off : Int]
Renderings == [out : Seq(AnyRange), base : Nat, remain : Nat]

(* What passing r does, case by case. *)
LEMMA RenderPastIs ==
    ASSUME NEW mrs, NEW m \in MRs, mrs[m].addr \in Nat,
           NEW acc \in Renderings, NEW r \in FlatRanges
    PROVE  LET end == acc.base + acc.remain
               to  == RenderPast(mrs, m, acc, r)
           IN  /\ to \in Renderings
               /\ acc.remain = 0 \/ acc.base >= RangeEnd(r) =>
                     to = [out |-> Append(acc.out, r), base |-> acc.base, remain |-> acc.remain]
               /\ acc.remain # 0 /\ acc.base < RangeEnd(r) =>
                     /\ to.base = LeastOf(end, RangeEnd(r)) /\ to.remain = end - to.base
                     /\ acc.base >= r.start => to.out = Append(acc.out, r)
                     /\ acc.base < r.start =>
                          to.out = Append(Append(acc.out,
                                     Piece(mrs, m, acc.base, LeastOf(acc.remain, r.start - acc.base))), r)
  <1> DEFINE end == acc.base + acc.remain
             to  == RenderPast(mrs, m, acc, r)
             now  == IF acc.base < r.start THEN Min({acc.remain, r.start - acc.base}) ELSE 0
             base == acc.base + now
             left == acc.remain - now
             skip == Min({base + left, RangeEnd(r)}) - base
             taken == IF now > 0 THEN Append(acc.out, Piece(mrs, m, acc.base, now)) ELSE acc.out
  <1>1. acc.out \in Seq(AnyRange) /\ acc.base \in Nat /\ acc.remain \in Nat
    BY DEF Renderings
  <1>2. acc = [out |-> acc.out, base |-> acc.base, remain |-> acc.remain]
    BY DEF Renderings
  <1>3. r.start \in Nat /\ r.size \in Nat \ {0} /\ RangeEnd(r) = r.start + r.size
        /\ RangeEnd(r) \in Nat /\ r \in AnyRange
    <2>1. r = [mr |-> r.mr, start |-> r.start, size |-> r.size, off |-> r.off]
      BY DEF FlatRanges
    <2>2. r.mr \in MRs /\ r.start \in Nat /\ r.size \in Nat \ {0} /\ r.off \in Nat
      BY RangeFacts
    <2>3. r \in AnyRange
      BY <2>1, <2>2 DEF AnyRange
    <2> QED  BY <2>2, <2>3, RangeFacts
  <1>4. CASE acc.remain = 0 \/ acc.base >= RangeEnd(r)
    <2>1. to = [acc EXCEPT !.out = Append(@, r)]
      BY <1>4 DEF RenderPast
    <2>2. to = [out |-> Append(acc.out, r), base |-> acc.base, remain |-> acc.remain]
      BY <1>2, <2>1
    <2>3. Append(acc.out, r) \in Seq(AnyRange)
      BY <1>1, <1>3, AppendProperties
    <2>4. to \in Renderings
      BY <1>1, <2>2, <2>3 DEF Renderings
    <2>5. ~ (acc.remain # 0 /\ acc.base < RangeEnd(r))
      BY <1>1, <1>3, <1>4
    <2> HIDE DEF to
    <2> QED  BY <2>2, <2>4, <2>5 DEF to
  <1>5. CASE ~ (acc.remain = 0 \/ acc.base >= RangeEnd(r))
    <2>1. to = [out |-> Append(taken, r), base |-> base + skip, remain |-> left - skip]
      BY <1>5, Zenon DEF RenderPast
    <2>2. now = IF acc.base < r.start THEN LeastOf(acc.remain, r.start - acc.base) ELSE 0
      <3>1. CASE acc.base < r.start
        <4>1. r.start - acc.base \in Nat
          BY <1>1, <1>3, <3>1
        <4> QED  BY <1>1, <3>1, <4>1, MinOfTwo DEF LeastOf
      <3> QED  BY <3>1
    <2> HIDE DEF to, now
    <2>3. now \in 0 .. acc.remain /\ base \in Nat /\ left \in Nat /\ base + left = end
          /\ base <= RangeEnd(r) /\ end \in Nat /\ base <= end
          /\ (acc.base < r.start => now > 0)
      <3>1. acc.remain > 0 /\ acc.base < RangeEnd(r)
        BY <1>1, <1>3, <1>5
      <3>2. now \in 0 .. acc.remain /\ acc.base + now <= RangeEnd(r) /\ (acc.base < r.start => now > 0)
        <4>1. CASE acc.base < r.start
          BY <1>1, <1>3, <2>2, <3>1, <4>1 DEF LeastOf
        <4>2. CASE ~ (acc.base < r.start)
          <5>1. now = 0
            BY <2>2, <4>2
          <5> QED  BY <1>1, <1>3, <3>1, <4>2, <5>1
        <4> QED  BY <4>1, <4>2
      <3>3. now \in Nat /\ now <= acc.remain
        BY <1>1, <3>2
      <3>4. base \in Nat /\ left \in Nat /\ base + left = end /\ end \in Nat /\ base <= end
        BY <1>1, <3>3
      <3> QED  BY <3>2, <3>4
    <2>4. skip = LeastOf(end, RangeEnd(r)) - base
      <3> HIDE DEF base, left, end
      <3> QED  BY <1>3, <2>3, MinOfTwo DEF LeastOf
    <2>5. to.base = LeastOf(end, RangeEnd(r)) /\ to.remain = end - to.base
          /\ to.base \in Nat /\ to.remain \in Nat
      <3> DEFINE le == LeastOf(end, RangeEnd(r))
      <3>1. le \in Nat /\ base <= le /\ le <= end
        BY <1>3, <2>3 DEF LeastOf
      <3>2. to.base = base + skip /\ to.remain = left - skip
        BY <2>1
      <3> HIDE DEF skip, base, left, end, le
      <3>3. skip = le - base
        BY <2>4 DEF le
      <3>4. to.base = le /\ to.remain = end - le
        BY <2>3, <3>1, <3>2, <3>3
      <3> QED  BY <2>3, <3>1, <3>4 DEF le
    <2>6. to.out = Append(taken, r)
      BY <2>1
    <2>7. taken \in Seq(AnyRange)
      <3> DEFINE x == Piece(mrs, m, acc.base, now)
      <3>1. now \in Nat
        BY <2>3, <1>1
      <3>2. x \in AnyRange
        BY <1>1, <3>1 DEF Piece, AnyRange
      <3> HIDE DEF x
      <3>3. Append(acc.out, x) \in Seq(AnyRange)
        BY <1>1, <3>2, AppendProperties
      <3> QED  BY <1>1, <3>3 DEF x
    <2>8. to \in Renderings
      <3> HIDE DEF taken, base, skip, left
      <3>1. Append(taken, r) \in Seq(AnyRange)
        BY <1>3, <2>7, AppendProperties
      <3>2. to = [out |-> to.out, base |-> to.base, remain |-> to.remain]
        BY <2>1
      <3> QED  BY <2>5, <2>6, <3>1, <3>2 DEF Renderings
    <2>9. acc.base >= r.start => taken = acc.out
      BY <1>1, <1>3, <2>2
    <2>10. acc.base < r.start =>
             taken = Append(acc.out, Piece(mrs, m, acc.base, LeastOf(acc.remain, r.start - acc.base)))
      BY <2>2, <2>3
    <2> HIDE DEF taken, end
    <2> QED  BY <1>5, <2>5, <2>6, <2>8, <2>9, <2>10 DEF to, end
  <1> QED  BY <1>4, <1>5

(* Region m has an address and a size within the guest's memory. *)
Placed(mrs, m) ==
    /\ m \in MRs /\ mrs[m].addr \in Nat /\ mrs[m].size \in Nat \ {0}
    /\ mrs[m].addr + mrs[m].size <= NumPages

End(mrs, m) == mrs[m].addr + mrs[m].size

(* r is a part of region m. *)
PartOf(mrs, m, r) ==
    /\ r.mr = m /\ r.off = r.start - mrs[m].addr
    /\ mrs[m].addr <= r.start /\ RangeEnd(r) <= End(mrs, m)

LEMMA PieceFacts ==
    ASSUME NEW mrs, NEW m, Placed(mrs, m), NEW base \in Nat, NEW n \in Nat \ {0},
           mrs[m].addr <= base, base + n <= End(mrs, m)
    PROVE  LET x == Piece(mrs, m, base, n)
           IN  /\ x \in FlatRanges /\ PartOf(mrs, m, x)
               /\ x.start = base /\ RangeEnd(x) = base + n
  <1> DEFINE x == Piece(mrs, m, base, n)
  <1>1. NumPages \in Nat
    BY StepDef, MemoryMapAssumption DEF NumPages
  <1>2. x = [mr |-> m, start |-> base, size |-> n, off |-> base - mrs[m].addr]
    BY DEF Piece
  <1>3. m \in MRs /\ base \in Pages /\ n \in 1 .. NumPages /\ base - mrs[m].addr \in Pages
    BY <1>1 DEF Placed, End, Pages
  <1>4. x \in FlatRanges
    BY <1>2, <1>3 DEF FlatRanges
  <1>5. x.start = base /\ x.size = n /\ x.mr = m /\ x.off = base - mrs[m].addr
    BY <1>2
  <1> HIDE DEF x
  <1>6. RangeEnd(x) = base + n
    BY <1>5 DEF RangeEnd
  <1>7. PartOf(mrs, m, x)
    BY <1>5, <1>6 DEF PartOf
  <1> QED  BY <1>4, <1>5, <1>6, <1>7 DEF x

(* When the region has been rendered past the first k ranges of view. *)
RenderInv(mrs, m, view, k, a) ==
    /\ a \in Renderings
    /\ a.base + a.remain = End(mrs, m) /\ mrs[m].addr <= a.base
    /\ a.out \in Seq(FlatRanges) /\ Ordered(a.out)
    /\ \A r \in Range(a.out), i \in DOMAIN view : i > k => RangeEnd(r) <= view[i].start
    /\ a.remain > 0 => \A r \in Range(a.out) : RangeEnd(r) <= a.base
    /\ \A i \in DOMAIN view : i <= k => view[i] \in Range(a.out)
    /\ \A r \in Range(a.out) : r \in Range(view) \/ PartOf(mrs, m, r)
    /\ \A p \in Nat : mrs[m].addr <= p /\ p < a.base => \E r \in Range(a.out) : Covers(r, p)

(* Passing the next range keeps it so. *)
LEMMA RenderPastInv ==
    ASSUME NEW mrs, NEW m, Placed(mrs, m), NEW view \in Seq(FlatRanges), Ordered(view),
           NEW k \in Nat, k + 1 \in DOMAIN view, NEW a, RenderInv(mrs, m, view, k, a)
    PROVE  RenderInv(mrs, m, view, k + 1, RenderPast(mrs, m, a, view[k + 1]))
  <1> DEFINE r == view[k + 1]
             to == RenderPast(mrs, m, a, r)
             E == End(mrs, m)
             addr == mrs[m].addr
  <1>1. r \in FlatRanges /\ r \in Range(view)
    BY DEF Range
  <1>2. r.start \in Nat /\ r.size \in Nat \ {0} /\ RangeEnd(r) = r.start + r.size
        /\ RangeEnd(r) \in Nat
    BY <1>1, RangeFacts
  <1>3. \A i \in DOMAIN view : i > k + 1 => RangeEnd(r) <= view[i].start /\ i > k
    BY DEF Ordered
  <1>4. /\ a \in Renderings /\ a.base \in Nat /\ a.remain \in Nat /\ a.base + a.remain = E
        /\ addr \in Nat /\ addr <= a.base /\ m \in MRs /\ E \in Nat
    BY DEF RenderInv, Renderings, Placed
  <1>5. a.out \in Seq(FlatRanges) /\ Ordered(a.out)
    BY DEF RenderInv
  <1>6. \A x \in Range(a.out), i \in DOMAIN view : i > k => RangeEnd(x) <= view[i].start
    BY DEF RenderInv
  <1>7. \A i \in DOMAIN view : i <= k => view[i] \in Range(a.out)
    BY DEF RenderInv
  <1>8. \A x \in Range(a.out) : x \in Range(view) \/ PartOf(mrs, m, x)
    BY DEF RenderInv
  <1>9. \A p \in Nat : addr <= p /\ p < a.base => \E x \in Range(a.out) : Covers(x, p)
    BY DEF RenderInv
  <1>10. a.remain > 0 => \A x \in Range(a.out) : RangeEnd(x) <= a.base
    BY DEF RenderInv
  <1>11. \A x \in Range(a.out) : RangeEnd(x) \in Nat
    <2> TAKE x \in Range(a.out)
    <2>1. x \in FlatRanges
      BY <1>5 DEF Range
    <2> QED  BY <2>1, RangeFacts
  <1>12. k + 1 > k /\ \A i \in DOMAIN view : i <= k + 1 => i <= k \/ i = k + 1
    OBVIOUS
  <1>13. to \in Renderings
    BY <1>1, <1>4, RenderPastIs
  <1> HIDE DEF r, E, addr
  (* With r behind it, whatever was added before. *)
  <1>14. ASSUME NEW out \in Seq(FlatRanges), Ordered(out), to.out = Append(out, r),
                Range(a.out) \subseteq Range(out),
                \A x \in Range(out) : RangeEnd(x) \in Nat /\ RangeEnd(x) <= r.start,
                \A x \in Range(out) : x \in Range(view) \/ PartOf(mrs, m, x),
                to.base \in Nat, to.remain \in Nat, to.base + to.remain = E, addr <= to.base,
                to.remain > 0 => RangeEnd(r) <= to.base,
                \A p \in Nat : a.base <= p /\ p < to.base =>
                    Covers(r, p) \/ \E x \in Range(out) : Covers(x, p)
         PROVE  RenderInv(mrs, m, view, k + 1, to)
    <2>1. to.out \in Seq(FlatRanges) /\ Ordered(to.out) /\ Range(to.out) = Range(out) \cup {r}
      BY <1>1, <1>14, OrderedAppend
    <2>2. ASSUME NEW x \in Range(to.out), NEW i \in DOMAIN view, i > k + 1
          PROVE  RangeEnd(x) <= view[i].start
      <3>1. RangeEnd(r) <= view[i].start /\ view[i].start \in Nat
        <4>1. view[i] \in FlatRanges
          OBVIOUS
        <4> QED  BY <1>3, <2>2, <4>1, RangeFacts
      <3>2. RangeEnd(x) \in Nat /\ (RangeEnd(x) <= r.start \/ x = r)
        BY <1>2, <1>14, <2>1
      <3> QED  BY <1>2, <3>1, <3>2
    <2>3. ASSUME to.remain > 0, NEW x \in Range(to.out)  PROVE RangeEnd(x) <= to.base
      <3>1. RangeEnd(x) \in Nat /\ (RangeEnd(x) <= r.start \/ x = r)
        BY <1>2, <1>14, <2>1
      <3> QED  BY <1>2, <1>14, <2>3, <3>1
    <2>4. ASSUME NEW i \in DOMAIN view, i <= k + 1  PROVE view[i] \in Range(to.out)
      BY <1>7, <1>12, <1>14, <2>1, <2>4 DEF r
    <2>5. \A x \in Range(to.out) : x \in Range(view) \/ PartOf(mrs, m, x)
      BY <1>1, <1>14, <2>1
    <2>6. ASSUME NEW p \in Nat, addr <= p, p < to.base
          PROVE  \E x \in Range(to.out) : Covers(x, p)
      <3>1. CASE p < a.base
        BY <1>9, <1>14, <2>1, <2>6, <3>1
      <3>2. CASE a.base <= p
        BY <1>14, <2>1, <2>6, <3>2
      <3> QED  BY <1>4, <3>1, <3>2
    <2> HIDE DEF to
    <2> QED  BY <1>13, <1>14, <2>1, <2>2, <2>3, <2>4, <2>5, <2>6 DEF RenderInv, E, addr
  <1>15. \A x \in Range(a.out) : RangeEnd(x) <= r.start
    BY <1>6, <1>12 DEF r
  <1>16. CASE a.remain = 0 \/ a.base >= RangeEnd(r)
    <2>1. to = [out |-> Append(a.out, r), base |-> a.base, remain |-> a.remain]
      BY <1>1, <1>4, <1>16, RenderPastIs DEF addr
    <2>2. to.out = Append(a.out, r) /\ to.base = a.base /\ to.remain = a.remain
      BY <2>1
    <2>3. to.remain > 0 => RangeEnd(r) <= to.base
      BY <1>2, <1>4, <1>16, <2>2
    <2>4. \A p \in Nat : ~ (a.base <= p /\ p < to.base)
      BY <1>4, <2>2
    <2> HIDE DEF to
    <2> QED  BY <1>4, <1>5, <1>8, <1>11, <1>14, <1>15, <2>2, <2>3, <2>4 DEF to, r
  <1>17. CASE ~ (a.remain = 0 \/ a.base >= RangeEnd(r))
    <2>1. a.remain # 0 /\ a.remain > 0 /\ a.base < RangeEnd(r) /\ a.base < E
      BY <1>2, <1>4, <1>17
    <2>2. /\ to.base = LeastOf(E, RangeEnd(r)) /\ to.remain = E - to.base
          /\ a.base >= r.start => to.out = Append(a.out, r)
          /\ a.base < r.start =>
               to.out = Append(Append(a.out,
                          Piece(mrs, m, a.base, LeastOf(a.remain, r.start - a.base))), r)
      BY <1>1, <1>4, <2>1, RenderPastIs DEF addr
    <2> HIDE DEF to
    <2>3. /\ to.base \in Nat /\ to.remain \in Nat /\ to.base + to.remain = E /\ addr <= to.base
          /\ to.base <= E /\ to.base <= RangeEnd(r) /\ (to.remain > 0 => RangeEnd(r) <= to.base)
      <3>1. CASE E <= RangeEnd(r)
        <4>1. to.base = E /\ to.remain = E - E
          BY <2>2, <3>1 DEF LeastOf
        <4> QED  BY <1>2, <1>4, <2>1, <3>1, <4>1
      <3>2. CASE ~ (E <= RangeEnd(r))
        <4>1. to.base = RangeEnd(r) /\ to.remain = E - RangeEnd(r)
          BY <2>2, <3>2 DEF LeastOf
        <4> DEFINE f == RangeEnd(r)
        <4>2. f \in Nat /\ f < E /\ addr <= f
          BY <1>2, <1>4, <2>1, <3>2
        <4>3. to.base = f /\ to.remain = E - f
          BY <4>1
        <4> HIDE DEF f
        <4>4. /\ to.base \in Nat /\ to.remain \in Nat /\ to.base + to.remain = E
              /\ addr <= to.base /\ to.base <= E /\ to.base <= f /\ f <= to.base
          BY <1>4, <4>2, <4>3
        <4> QED  BY <4>4 DEF f
      <3> QED  BY <3>1, <3>2
    <2>4. CASE a.base >= r.start
      <3>1. \A p \in Nat : a.base <= p /\ p < to.base => Covers(r, p)
        BY <1>2, <1>4, <2>3, <2>4 DEF Covers
      <3> QED  BY <1>4, <1>5, <1>8, <1>11, <1>14, <1>15, <2>2, <2>3, <2>4, <3>1 DEF to, r
    <2>5. CASE a.base < r.start
      <3> DEFINE n == LeastOf(a.remain, r.start - a.base)
                 x == Piece(mrs, m, a.base, n)
                 out == Append(a.out, x)
      <3>1. n \in Nat \ {0} /\ a.base + n <= E /\ a.base + n <= r.start
            /\ (a.base + n = E \/ a.base + n = r.start)
        BY <1>2, <1>4, <2>1, <2>5 DEF LeastOf
      <3> HIDE DEF n
      <3>2. x \in FlatRanges /\ PartOf(mrs, m, x) /\ x.start = a.base /\ RangeEnd(x) = a.base + n
        BY <1>4, <3>1, PieceFacts DEF E, addr
      <3> HIDE DEF x
      <3>3. \A y \in Range(a.out) : RangeEnd(y) <= x.start
        BY <1>10, <2>1, <3>2
      <3>4. out \in Seq(FlatRanges) /\ Ordered(out) /\ Range(out) = Range(a.out) \cup {x}
        BY <1>5, <3>2, <3>3, OrderedAppend
      <3>5. to.out = Append(out, r)
        BY <2>2, <2>5 DEF x, n
      <3> HIDE DEF out
      <3>6. \A y \in Range(out) : RangeEnd(y) \in Nat /\ RangeEnd(y) <= r.start
        BY <1>4, <1>11, <1>15, <3>1, <3>2, <3>4
      <3>7. \A y \in Range(out) : y \in Range(view) \/ PartOf(mrs, m, y)
        BY <1>8, <3>2, <3>4
      <3>8. ASSUME NEW p \in Nat, a.base <= p, p < to.base
            PROVE  Covers(r, p) \/ \E y \in Range(out) : Covers(y, p)
        <4>1. CASE p < a.base + n
          <5>1. Covers(x, p)
            BY <3>2, <3>8, <4>1 DEF Covers
          <5> QED  BY <3>4, <5>1
        <4>2. CASE a.base + n <= p
          <5>1. r.start <= p /\ p < RangeEnd(r)
            BY <1>2, <1>4, <2>3, <3>1, <3>8, <4>2
          <5> QED  BY <5>1 DEF Covers
        <4> QED  BY <1>4, <3>1, <4>1, <4>2
      <3>9. Range(a.out) \subseteq Range(out)
        BY <3>4
      <3> QED  BY <1>14, <2>3, <3>4, <3>5, <3>6, <3>7, <3>8, <3>9 DEF to, r
    <2> QED  BY <1>2, <1>4, <2>4, <2>5
  <1> QED  BY <1>16, <1>17 DEF r

(* f has what has been rendered when k ranges of view have been passed. *)
RendersTo(f, mrs, m, view) ==
    /\ f[0] = [out |-> <<>>, base |-> mrs[m].addr, remain |-> mrs[m].size]
    /\ \A k \in 1 .. Len(view) : f[k] = RenderPast(mrs, m, f[k - 1], view[k])

LEMMA RenderDef ==
    ASSUME NEW mrs, NEW m, Placed(mrs, m), NEW view \in Seq(FlatRanges)
    PROVE  \E f : /\ RendersTo(f, mrs, m, view)
                  /\ Render(mrs, view, m) =
                       LET end == f[Len(view)]
                       IN  IF end.remain > 0 THEN Append(end.out, Piece(mrs, m, end.base, end.remain))
                           ELSE end.out
  <1> DEFINE n == Len(view)
             x == [out |-> <<>>, base |-> mrs[m].addr, remain |-> mrs[m].size]
             G(w) == [k \in 0 .. n |-> IF k = 0 THEN x ELSE RenderPast(mrs, m, w[k - 1], view[k])]
             F == [z \in Renderings \X (1 .. n) |-> RenderPast(mrs, m, z[1], view[z[2]])]
             f == CHOOSE w : w = G(w)
  <1>1. n \in Nat /\ \A k \in 1 .. n : view[k] \in FlatRanges
    OBVIOUS
  <1>2. x \in Renderings
    <2>1. <<>> \in Seq(AnyRange)
      OBVIOUS
    <2> QED  BY <2>1 DEF Renderings, Placed
  <1>3. F \in [Renderings \X (1 .. n) -> Renderings]
    <2>1. ASSUME NEW z \in Renderings \X (1 .. n)
          PROVE  RenderPast(mrs, m, z[1], view[z[2]]) \in Renderings
      <3>1. m \in MRs /\ mrs[m].addr \in Nat
        BY DEF Placed
      <3>2. z[1] \in Renderings /\ view[z[2]] \in FlatRanges
        BY <1>1
      <3> QED  BY <3>1, <3>2, RenderPastIs
    <2> QED  BY <2>1
  <1>4. PICK w : Iterates(w, F, Renderings, x, n)
    <2> HIDE DEF F, n, x
    <2> QED  BY <1>1, <1>2, <1>3, IteratesExist
  <1> HIDE DEF x
  <1>5. w = G(w)
    <2>1. w \in [0 .. n -> Renderings]
      BY <1>4 DEF Iterates
    <2>2. ASSUME NEW k \in 0 .. n, k # 0  PROVE w[k] = RenderPast(mrs, m, w[k - 1], view[k])
      <3>1. k \in 1 .. n /\ w[k - 1] \in Renderings
        BY <1>1, <2>1, <2>2
      <3>2. w[k] = F[<<w[k - 1], k>>]
        BY <1>4, <3>1 DEF Iterates
      <3> QED  BY <3>1, <3>2
    <2>3. w[0] = x
      BY <1>4 DEF Iterates
    <2> QED  BY <2>1, <2>2, <2>3
  <1>6. f = G(f)
    <2> HIDE DEF G
    <2> QED  BY <1>5
  <1>7. Render(mrs, view, m) =
          IF f[n].remain > 0 THEN Append(f[n].out, Piece(mrs, m, f[n].base, f[n].remain))
          ELSE f[n].out
    BY Zenon DEF Render, x
  <1> HIDE DEF f
  <1>8. \A k \in 0 .. n : f[k] = IF k = 0 THEN x ELSE RenderPast(mrs, m, f[k - 1], view[k])
    <2>1. \A k \in 0 .. n : f[k] = G(f)[k]
      <3> HIDE DEF G
      <3> QED  BY <1>6
    <2> QED  BY <2>1
  <1>9. f[0] = x
    BY <1>1, <1>8
  <1>10. \A k \in 1 .. n : f[k] = RenderPast(mrs, m, f[k - 1], view[k])
    BY <1>1, <1>8
  <1>11. RendersTo(f, mrs, m, view)
    BY <1>9, <1>10 DEF RendersTo, x
  <1> QED  BY <1>7, <1>11

(* A region is rendered behind what is in the view: all of that stays, and *)
(* the region shows wherever nothing was.                                  *)
LEMMA RenderIs ==
    ASSUME NEW mrs, NEW m, Placed(mrs, m), NEW view \in Seq(FlatRanges), Ordered(view)
    PROVE  LET new == Render(mrs, view, m)
           IN  /\ new \in Seq(FlatRanges) /\ Ordered(new)
               /\ Range(view) \subseteq Range(new)
               /\ \A r \in Range(new) : r \in Range(view) \/ PartOf(mrs, m, r)
               /\ \A p \in Nat : mrs[m].addr <= p /\ p < End(mrs, m)
                                    => \E r \in Range(new) : Covers(r, p)
  <1> DEFINE n == Len(view)
             new == Render(mrs, view, m)
             addr == mrs[m].addr
             E == End(mrs, m)
  <1>1. PICK f : /\ RendersTo(f, mrs, m, view)
                 /\ new = LET end == f[n]
                          IN  IF end.remain > 0
                              THEN Append(end.out, Piece(mrs, m, end.base, end.remain))
                              ELSE end.out
    BY RenderDef
  <1> HIDE DEF new
  <1>2. n \in Nat /\ DOMAIN view = 1 .. n
    OBVIOUS
  <1> DEFINE T == {k \in 0 .. n : RenderInv(mrs, m, view, k, f[k])}
  <1>3. 0 \in T
    <2> DEFINE a == [out |-> <<>>, base |-> addr, remain |-> mrs[m].size]
    <2>1. f[0] = a
      BY <1>1 DEF RendersTo
    <2>2. a.out = <<>> /\ a.base = addr /\ a.remain = mrs[m].size
      OBVIOUS
    <2>3. addr \in Nat /\ mrs[m].size \in Nat
      BY DEF Placed
    <2>4. a \in Renderings
      <3>1. <<>> \in Seq(AnyRange)
        OBVIOUS
      <3> QED  BY <2>3, <3>1 DEF Renderings
    <2> HIDE DEF a
    <2>5. a.out \in Seq(FlatRanges) /\ DOMAIN a.out = {} /\ Range(a.out) = {} /\ Ordered(a.out)
      BY <2>2 DEF Range, Ordered
    <2>6. a.base + a.remain = E /\ addr <= a.base
      BY <2>2, <2>3 DEF End
    <2>7. \A i \in DOMAIN view : ~ (i <= 0)
      BY <1>2
    <2>8. \A p \in Nat : ~ (addr <= p /\ p < a.base)
      BY <2>2, <2>3
    <2>9. RenderInv(mrs, m, view, 0, a)
      BY <2>4, <2>5, <2>6, <2>7, <2>8 DEF RenderInv
    <2> QED  BY <1>2, <2>1, <2>9
  <1>4. ASSUME NEW k \in 0 .. n - 1, k \in T  PROVE k + 1 \in T
    <2>1. k + 1 \in 1 .. n /\ (k + 1) - 1 = k /\ k \in Nat /\ k + 1 \in DOMAIN view
      BY <1>2
    <2>2. f[k + 1] = RenderPast(mrs, m, f[k], view[k + 1])
      BY <1>1, <2>1 DEF RendersTo
    <2>3. RenderInv(mrs, m, view, k, f[k])
      BY <1>4
    <2>4. RenderInv(mrs, m, view, k + 1, f[k + 1])
      BY <2>1, <2>2, <2>3, RenderPastInv
    <2> QED  BY <2>1, <2>4, <1>2
  <1>5. \A k \in 0 .. n : k \in T
    <2> HIDE DEF T, n
    <2> QED  BY <1>2, <1>3, <1>4, UpTo
  <1> DEFINE a == f[n]
  <1>6. RenderInv(mrs, m, view, n, a)
    BY <1>2, <1>5
  <1>7. new = IF a.remain > 0 THEN Append(a.out, Piece(mrs, m, a.base, a.remain)) ELSE a.out
    BY <1>1
  <1> HIDE DEF a
  <1>8. /\ a.base \in Nat /\ a.remain \in Nat /\ a.base + a.remain = E /\ addr \in Nat
        /\ addr <= a.base /\ a.out \in Seq(FlatRanges) /\ Ordered(a.out) /\ E \in Nat
    BY <1>6 DEF RenderInv, Renderings, Placed, End
  <1>9. Range(view) \subseteq Range(a.out)
    <2>1. \A i \in DOMAIN view : i <= n
      BY <1>2
    <2>2. \A i \in DOMAIN view : view[i] \in Range(a.out)
      BY <1>6, <2>1 DEF RenderInv
    <2>3. ASSUME NEW r \in Range(view)  PROVE r \in Range(a.out)
      <3>1. PICK i \in DOMAIN view : r = view[i]
        BY DEF Range
      <3> QED  BY <2>2, <3>1
    <2> QED  BY <2>3
  <1>10. /\ \A r \in Range(a.out) : r \in Range(view) \/ PartOf(mrs, m, r)
         /\ \A p \in Nat : addr <= p /\ p < a.base => \E r \in Range(a.out) : Covers(r, p)
         /\ a.remain > 0 => \A r \in Range(a.out) : RangeEnd(r) <= a.base
    BY <1>6 DEF RenderInv
  <1>11. CASE a.remain > 0
    <2> DEFINE x == Piece(mrs, m, a.base, a.remain)
    <2>1. x \in FlatRanges /\ PartOf(mrs, m, x) /\ x.start = a.base /\ RangeEnd(x) = E
      <3>1. a.remain \in Nat \ {0} /\ a.base + a.remain <= E
        BY <1>8, <1>11
      <3> QED  BY <1>8, <3>1, PieceFacts
    <2> HIDE DEF x
    <2>2. new = Append(a.out, x)
      BY <1>7, <1>11 DEF x
    <2>3. new \in Seq(FlatRanges) /\ Ordered(new) /\ Range(new) = Range(a.out) \cup {x}
      BY <1>8, <1>10, <1>11, <2>1, <2>2, OrderedAppend
    <2>4. ASSUME NEW p \in Nat, addr <= p, p < E  PROVE \E r \in Range(new) : Covers(r, p)
      <3>1. CASE p < a.base
        BY <1>10, <2>3, <2>4, <3>1
      <3>2. CASE a.base <= p
        <4>1. Covers(x, p)
          BY <2>1, <2>4, <3>2 DEF Covers
        <4> QED  BY <2>3, <4>1
      <3> QED  BY <1>8, <3>1, <3>2
    <2>5. Range(view) \subseteq Range(new)
      BY <1>9, <2>3
    <2>6. \A r \in Range(new) : r \in Range(view) \/ PartOf(mrs, m, r)
      BY <1>10, <2>1, <2>3
    <2> QED  BY <2>3, <2>4, <2>5, <2>6 DEF new
  <1>12. CASE ~ (a.remain > 0)
    <2>1. new = a.out /\ a.base = E
      BY <1>7, <1>8, <1>12
    <2> QED  BY <1>8, <1>9, <1>10, <2>1 DEF new
  <1> QED  BY <1>11, <1>12

-----------------------------------------------------------------------------
(* Rendering all regions, front first *)

AllPlaced(mrs, subs) ==
    subs \in Seq(MRs) /\ \A i \in DOMAIN subs : Placed(mrs, subs[i])

HasPage(mrs, m, p) == mrs[m].addr <= p /\ p < End(mrs, m)

(* What view shows when the k regions in front have been rendered. *)
ShowsFront(mrs, subs, view, k) ==
    /\ view \in Seq(FlatRanges) /\ Ordered(view)
    /\ \A r \in Range(view), p \in Nat : Covers(r, p) =>
          \E i \in 1 .. k : /\ r.mr = subs[i] /\ r.off = r.start - mrs[subs[i]].addr
                            /\ HasPage(mrs, subs[i], p)
                            /\ \A j \in 1 .. k : j < i => ~ HasPage(mrs, subs[j], p)
    /\ \A p \in Nat, i \in 1 .. k : HasPage(mrs, subs[i], p) =>
          \E r \in Range(view) : Covers(r, p)

LEMMA RenderNext ==
    ASSUME NEW mrs, NEW subs, AllPlaced(mrs, subs), NEW k \in Nat, k + 1 \in DOMAIN subs,
           NEW view, ShowsFront(mrs, subs, view, k)
    PROVE  ShowsFront(mrs, subs, Render(mrs, view, subs[k + 1]), k + 1)
  <1> DEFINE m == subs[k + 1]
             new == Render(mrs, view, m)
  <1>1. Placed(mrs, m) /\ view \in Seq(FlatRanges) /\ Ordered(view)
    BY DEF AllPlaced, ShowsFront
  <1>2. /\ new \in Seq(FlatRanges) /\ Ordered(new)
        /\ Range(view) \subseteq Range(new)
        /\ \A r \in Range(new) : r \in Range(view) \/ PartOf(mrs, m, r)
        /\ \A p \in Nat : HasPage(mrs, m, p) => \E r \in Range(new) : Covers(r, p)
    <2> HIDE DEF m
    <2> QED  BY <1>1, RenderIs DEF HasPage
  <1> HIDE DEF new
  <1>3. /\ \A j \in 1 .. k + 1 : j \in 1 .. k \/ j = k + 1
        /\ \A j \in 1 .. k : j \in 1 .. k + 1 /\ j < k + 1
        /\ k + 1 \in 1 .. k + 1
    OBVIOUS
  <1>4. ASSUME NEW r \in Range(new), NEW p \in Nat, Covers(r, p)
        PROVE  \E i \in 1 .. k + 1 :
                  /\ r.mr = subs[i] /\ r.off = r.start - mrs[subs[i]].addr
                  /\ HasPage(mrs, subs[i], p)
                  /\ \A j \in 1 .. k + 1 : j < i => ~ HasPage(mrs, subs[j], p)
    <2>1. CASE r \in Range(view)
      <3>1. PICK i \in 1 .. k :
              /\ r.mr = subs[i] /\ r.off = r.start - mrs[subs[i]].addr
              /\ HasPage(mrs, subs[i], p)
              /\ \A j \in 1 .. k : j < i => ~ HasPage(mrs, subs[j], p)
        BY <1>4, <2>1 DEF ShowsFront
      <3>2. i \in 1 .. k + 1 /\ ~ (k + 1 < i)
        OBVIOUS
      <3>3. \A j \in 1 .. k + 1 : j < i => ~ HasPage(mrs, subs[j], p)
        BY <1>3, <3>1, <3>2
      <3> QED  BY <3>1, <3>2, <3>3
    <2>2. CASE r \notin Range(view)
      <3>1. PartOf(mrs, m, r)
        BY <1>2, <2>2
      <3>2. r \in FlatRanges
        BY <1>2 DEF Range
      <3>3. HasPage(mrs, m, p)
        <4>1. r.start \in Nat /\ RangeEnd(r) \in Nat /\ r.start <= p /\ p < RangeEnd(r)
          BY <1>4, <3>2, RangeFacts DEF Covers
        <4>2. mrs[m].addr <= r.start /\ RangeEnd(r) <= End(mrs, m)
              /\ mrs[m].addr \in Nat /\ End(mrs, m) \in Nat
          BY <1>1, <3>1 DEF PartOf, Placed, End
        <4> QED  BY <4>1, <4>2 DEF HasPage
      <3>4. ASSUME NEW j \in 1 .. k, HasPage(mrs, subs[j], p)  PROVE FALSE
        <4>1. PICK x \in Range(view) : Covers(x, p)
          BY <3>4 DEF ShowsFront
        <4>2. x \in Range(new)
          BY <1>2, <4>1
        <4>3. PICK a \in DOMAIN new : new[a] = x
          BY <4>2 DEF Range
        <4>4. PICK b \in DOMAIN new : new[b] = r
          BY DEF Range
        <4>5. a = b
          BY <1>2, <1>4, <4>1, <4>3, <4>4, OrderedOne
        <4> QED  BY <2>2, <4>1, <4>3, <4>4, <4>5
      <3>5. \A j \in 1 .. k + 1 : j < k + 1 => ~ HasPage(mrs, subs[j], p)
        BY <1>3, <3>4
      <3>6. r.mr = subs[k + 1] /\ r.off = r.start - mrs[subs[k + 1]].addr
        BY <3>1 DEF PartOf
      <3> QED  BY <1>3, <3>3, <3>5, <3>6
    <2> QED  BY <2>1, <2>2
  <1>5. ASSUME NEW p \in Nat, NEW i \in 1 .. k + 1, HasPage(mrs, subs[i], p)
        PROVE  \E r \in Range(new) : Covers(r, p)
    <2>1. CASE i \in 1 .. k
      BY <1>2, <1>5, <2>1 DEF ShowsFront
    <2>2. CASE i = k + 1
      BY <1>2, <1>5, <2>2
    <2> QED  BY <1>3, <2>1, <2>2
  <1> QED  BY <1>2, <1>4, <1>5 DEF ShowsFront, new

LEMMA TopologyDef ==
    ASSUME NEW mrs, NEW subs, AllPlaced(mrs, subs)
    PROVE  \E f : /\ f[0] = <<>>
                  /\ \A k \in 1 .. Len(subs) : f[k] = Render(mrs, f[k - 1], subs[k])
                  /\ generate_memory_topology(mrs, subs) = f[Len(subs)]
  <1> DEFINE n == Len(subs)
             Views == {v \in Seq(FlatRanges) : Ordered(v)}
             G(w) == [k \in 0 .. n |-> IF k = 0 THEN <<>> ELSE Render(mrs, w[k - 1], subs[k])]
             F == [z \in Views \X (1 .. n) |-> Render(mrs, z[1], subs[z[2]])]
             f == CHOOSE w : w = G(w)
  <1>1. n \in Nat /\ \A k \in 1 .. n : Placed(mrs, subs[k])
    BY DEF AllPlaced
  <1>2. <<>> \in Views
    <2>1. Ordered(<<>>)
      BY DEF Ordered
    <2> QED  BY <2>1
  <1>3. F \in [Views \X (1 .. n) -> Views]
    <2>1. ASSUME NEW z \in Views \X (1 .. n)
          PROVE  Render(mrs, z[1], subs[z[2]]) \in Views
      <3>1. z[1] \in Seq(FlatRanges) /\ Ordered(z[1]) /\ Placed(mrs, subs[z[2]])
        BY <1>1
      <3> QED  BY <3>1, RenderIs
    <2> QED  BY <2>1
  <1> HIDE DEF Views
  <1>4. PICK w : Iterates(w, F, Views, <<>>, n)
    <2> HIDE DEF F, n
    <2> QED  BY <1>1, <1>2, <1>3, IteratesExist
  <1>5. w = G(w)
    <2>1. w \in [0 .. n -> Views]
      BY <1>4 DEF Iterates
    <2>2. ASSUME NEW k \in 0 .. n, k # 0  PROVE w[k] = Render(mrs, w[k - 1], subs[k])
      <3>1. k \in 1 .. n /\ w[k - 1] \in Views
        BY <1>1, <2>1, <2>2
      <3>2. w[k] = F[<<w[k - 1], k>>]
        BY <1>4, <3>1 DEF Iterates
      <3> QED  BY <3>1, <3>2
    <2>3. w[0] = <<>>
      BY <1>4 DEF Iterates
    <2> QED  BY <2>1, <2>2, <2>3
  <1>6. f = G(f)
    <2> HIDE DEF G
    <2> QED  BY <1>5
  <1>7. generate_memory_topology(mrs, subs) = f[n]
    BY Zenon DEF generate_memory_topology
  <1> HIDE DEF f
  <1>8. \A k \in 0 .. n : f[k] = IF k = 0 THEN <<>> ELSE Render(mrs, f[k - 1], subs[k])
    <2>1. \A k \in 0 .. n : f[k] = G(f)[k]
      <3> HIDE DEF G
      <3> QED  BY <1>6
    <2> QED  BY <2>1
  <1>9. f[0] = <<>>
    BY <1>1, <1>8
  <1>10. \A k \in 1 .. n : f[k] = Render(mrs, f[k - 1], subs[k])
    BY <1>1, <1>8
  <1> QED  BY <1>7, <1>9, <1>10

LEMMA TopologyShowsFront ==
    ASSUME NEW mrs, NEW subs, AllPlaced(mrs, subs)
    PROVE  ShowsFront(mrs, subs, generate_memory_topology(mrs, subs), Len(subs))
  <1> DEFINE n == Len(subs)
  <1>1. PICK f : /\ f[0] = <<>>
                 /\ \A k \in 1 .. n : f[k] = Render(mrs, f[k - 1], subs[k])
                 /\ generate_memory_topology(mrs, subs) = f[n]
    BY TopologyDef
  <1>2. n \in Nat /\ DOMAIN subs = 1 .. n
    BY DEF AllPlaced
  <1> DEFINE T == {k \in 0 .. n : ShowsFront(mrs, subs, f[k], k)}
  <1>3. 0 \in T
    <2> DEFINE e == <<>>
    <2>1. e \in Seq(FlatRanges) /\ Ordered(e) /\ Range(e) = {}
      BY DEF Ordered, Range
    <2>2. \A i \in 1 .. 0 : FALSE
      OBVIOUS
    <2>3. f[0] = e /\ 0 \in 0 .. n
      BY <1>1, <1>2
    <2> HIDE DEF e
    <2>4. ShowsFront(mrs, subs, e, 0)
      BY <2>1, <2>2 DEF ShowsFront
    <2> QED  BY <2>3, <2>4
  <1>4. ASSUME NEW k \in 0 .. n - 1, k \in T  PROVE k + 1 \in T
    <2>1. k + 1 \in 1 .. n /\ (k + 1) - 1 = k /\ k \in Nat /\ k + 1 \in DOMAIN subs
      BY <1>2
    <2>2. f[k + 1] = Render(mrs, f[k], subs[k + 1])
      BY <1>1, <2>1
    <2>3. ShowsFront(mrs, subs, f[k + 1], k + 1)
      BY <1>4, <2>1, <2>2, RenderNext
    <2> QED  BY <1>2, <2>1, <2>3
  <1>5. \A k \in 0 .. n : k \in T
    <2> HIDE DEF T, n
    <2> QED  BY <1>2, <1>3, <1>4, UpTo
  <1>6. n \in T
    BY <1>2, <1>5
  <1> QED  BY <1>1, <1>6

(* With the map and the tree as the last commit left them, the front       *)
(* region is what both show.                                               *)
LEMMA MapShowsFront ==
    ASSUME AllPlaced(mr, subregions),
           current_map = generate_memory_topology(mr, subregions),
           phys_map = TreeOf(current_map)
    PROVE  /\ current_map \in Seq(FlatRanges)
           /\ FlatOrdered /\ FlatIsFront /\ TreeIsFront
  <1> DEFINE n == Len(subregions)
  <1>1. ShowsFront(mr, subregions, current_map, n)
    BY TopologyShowsFront
  <1>2. current_map \in Seq(FlatRanges) /\ Ordered(current_map)
    BY <1>1 DEF ShowsFront
  <1>3. FlatOrdered
    BY <1>2 DEF FlatOrdered, Ordered
  <1>4. n \in Nat /\ DOMAIN subregions = 1 .. n
    BY DEF AllPlaced
  <1> DEFINE At(p) == {i \in DOMAIN subregions :
                          p - mr[subregions[i]].addr \in 0 .. mr[subregions[i]].size - 1}
             Flat(p) == {i \in DOMAIN current_map :
                           p - current_map[i].start \in 0 .. current_map[i].size - 1}
  <1>5. ASSUME NEW p \in Pages
        PROVE  /\ p \in Nat
               /\ \A i \in DOMAIN subregions : i \in At(p) <=> HasPage(mr, subregions[i], p)
               /\ \A i \in DOMAIN current_map : i \in Flat(p) <=> Covers(current_map[i], p)
    <2>1. p \in Nat
      BY DEF Pages
    <2>2. ASSUME NEW i \in DOMAIN subregions
          PROVE  i \in At(p) <=> HasPage(mr, subregions[i], p)
      <3>1. mr[subregions[i]].addr \in Nat /\ mr[subregions[i]].size \in Nat
        BY DEF AllPlaced, Placed
      <3> QED  BY <2>1, <3>1 DEF HasPage, End
    <2>3. ASSUME NEW i \in DOMAIN current_map
          PROVE  i \in Flat(p) <=> Covers(current_map[i], p)
      <3>1. current_map[i] \in FlatRanges
        BY <1>2
      <3>2. current_map[i].start \in Nat /\ current_map[i].size \in Nat
        BY <3>1, RangeFacts
      <3> QED  BY <2>1, <3>2 DEF Covers, RangeEnd
    <2> QED  BY <2>1, <2>2, <2>3
  <1>6. ASSUME NEW p \in Pages  PROVE At(p) \in SUBSET Nat /\ Flat(p) \in SUBSET Nat
    BY <1>2, <1>4
  <1>7. ASSUME NEW p \in Pages, At(p) = {}
        PROVE  InFront(p) = NULL /\ \A i \in DOMAIN current_map : ~ Covers(current_map[i], p)
    <2>1. InFront(p) = NULL
      BY <1>7 DEF InFront
    <2>2. ASSUME NEW i \in DOMAIN current_map, Covers(current_map[i], p)  PROVE FALSE
      <3>1. current_map[i] \in Range(current_map)
        BY DEF Range
      <3>2. PICK j \in 1 .. n : HasPage(mr, subregions[j], p)
        BY <1>1, <1>5, <2>2, <3>1 DEF ShowsFront
      <3> QED  BY <1>4, <1>5, <1>7, <3>2
    <2> QED  BY <2>1, <2>2
  <1>8. ASSUME NEW p \in Pages, NEW i \in DOMAIN current_map, Covers(current_map[i], p)
        PROVE  InFront(p) = RangeAt(current_map[i], p) /\ Min(Flat(p)) = i /\ Flat(p) # {}
    <2> DEFINE r == current_map[i]
    <2>1. r \in Range(current_map) /\ p \in Nat
      BY <1>5 DEF Range
    <2>2. PICK a \in 1 .. n :
            /\ r.mr = subregions[a] /\ r.off = r.start - mr[subregions[a]].addr
            /\ HasPage(mr, subregions[a], p)
            /\ \A j \in 1 .. n : j < a => ~ HasPage(mr, subregions[j], p)
      BY <1>1, <1>8, <2>1 DEF ShowsFront
    <2>3. Min(At(p)) = a /\ At(p) # {}
      <3>1. a \in At(p)
        BY <1>4, <1>5, <2>2
      <3>2. ASSUME NEW j \in At(p)  PROVE a <= j
        <4>1. j \in 1 .. n /\ HasPage(mr, subregions[j], p)
          BY <1>4, <1>5
        <4>2. ~ (j < a)
          BY <2>2, <4>1
        <4> QED  BY <4>1, <4>2
      <3> HIDE DEF At
      <3> QED  BY <1>6, <3>1, <3>2, MinIs
    <2>4. InFront(p) = [mr |-> subregions[a], off |-> p - mr[subregions[a]].addr]
      <3>1. InFront(p) = IF At(p) = {} THEN NULL
                         ELSE [mr |-> subregions[Min(At(p))],
                               off |-> p - mr[subregions[Min(At(p))]].addr]
        BY Zenon DEF InFront
      <3> HIDE DEF At
      <3> QED  BY <2>3, <3>1
    <2>5. r.off + p - r.start = p - mr[subregions[a]].addr
      <3>1. r.start \in Nat
        <4>1. r \in FlatRanges
          BY <1>2
        <4> QED  BY <4>1, RangeFacts
      <3>2. mr[subregions[a]].addr \in Nat
        BY <1>4 DEF AllPlaced, Placed
      <3> HIDE DEF r
      <3> QED  BY <2>1, <2>2, <3>1, <3>2
    <2>6. InFront(p) = RangeAt(r, p)
      <3> HIDE DEF r
      <3> QED  BY <2>2, <2>4, <2>5 DEF RangeAt
    <2>7. Min(Flat(p)) = i /\ Flat(p) # {}
      <3>1. i \in Flat(p)
        BY <1>5, <1>8
      <3>2. ASSUME NEW j \in Flat(p)  PROVE i <= j
        <4>1. j \in DOMAIN current_map /\ Covers(current_map[j], p)
          BY <1>5
        <4>2. i = j
          BY <1>2, <1>8, <2>1, <4>1, OrderedOne
        <4>3. i \in Nat
          BY <1>2
        <4> QED  BY <4>2, <4>3
      <3> HIDE DEF Flat
      <3> QED  BY <1>6, <3>1, <3>2, MinIs
    <2> QED  BY <2>6, <2>7
  (* Where a region is, a range is. *)
  <1>9. ASSUME NEW p \in Pages, At(p) # {}
        PROVE  \E i \in DOMAIN current_map : Covers(current_map[i], p)
    <2>1. PICK j \in At(p) : TRUE
      BY <1>9
    <2>2. j \in 1 .. n /\ HasPage(mr, subregions[j], p) /\ p \in Nat
      BY <1>4, <1>5
    <2>3. PICK r \in Range(current_map) : Covers(r, p)
      BY <1>1, <2>2 DEF ShowsFront
    <2> QED  BY <2>3 DEF Range
  <1>10. FlatIsFront
    <2> SUFFICES ASSUME NEW p \in Pages
                 PROVE  InFront(p) = IF Flat(p) = {} THEN NULL
                                     ELSE RangeAt(current_map[Min(Flat(p))], p)
      BY Zenon DEF FlatIsFront
    <2>1. CASE At(p) = {}
      <3>1. Flat(p) = {}
        BY <1>5, <1>7, <2>1
      <3> QED  BY <1>7, <2>1, <3>1
    <2>2. CASE At(p) # {}
      <3>1. PICK i \in DOMAIN current_map : Covers(current_map[i], p)
        BY <1>9, <2>2
      <3>2. InFront(p) = RangeAt(current_map[i], p) /\ Min(Flat(p)) = i /\ Flat(p) # {}
        BY <1>8, <3>1
      <3> HIDE DEF Flat
      <3> QED  BY <3>2
    <2> QED  BY <2>1, <2>2
  <1>11. TreeIsFront
    <2> SUFFICES ASSUME NEW p \in Pages
                 PROVE  InFront(p) = IF phys_page_find(phys_map, p) = NULL THEN NULL
                                     ELSE RangeAt(phys_page_find(phys_map, p), p)
      BY Zenon DEF TreeIsFront
    <2> DEFINE leaf == phys_page_find(phys_map, p)
    <2>1. \/ leaf = NULL /\ \A j \in DOMAIN current_map : ~ Covers(current_map[j], p)
          \/ \E j \in DOMAIN current_map :
                leaf = current_map[j] /\ leaf # NULL /\ Covers(current_map[j], p)
      BY <1>2, FindCovers
    <2> HIDE DEF leaf
    <2>2. CASE At(p) = {}
      <3>1. leaf = NULL
        BY <1>7, <2>1, <2>2
      <3> QED  BY <1>7, <2>2, <3>1 DEF leaf
    <2>3. CASE At(p) # {}
      <3>1. PICK j \in DOMAIN current_map :
              leaf = current_map[j] /\ leaf # NULL /\ Covers(current_map[j], p)
        BY <1>9, <2>1, <2>3
      <3>2. InFront(p) = RangeAt(current_map[j], p)
        BY <1>8, <3>1
      <3> QED  BY <3>1, <3>2 DEF leaf
    <2> QED  BY <2>2, <2>3
  <1> QED  BY <1>2, <1>3, <1>10, <1>11

-----------------------------------------------------------------------------
(* Lists *)

(* What is at j when e has been put at i of s. *)
WithInserted(s, i, e, j) == IF j < i THEN s[j] ELSE IF j = i THEN e ELSE s[j - 1]

LEMMA InsertFacts ==
    ASSUME NEW S, NEW s \in Seq(S), NEW e \in S, NEW i \in 1 .. Len(s) + 1
    PROVE  LET t == InsertAt(s, i, e)
           IN  /\ t \in Seq(S) /\ Len(t) = Len(s) + 1
               /\ \A j \in 1 .. Len(s) + 1 : t[j] = WithInserted(s, i, e, j)
  <1> DEFINE n == Len(s)
             a == SubSeq(s, 1, i - 1)
             b == SubSeq(s, i, n)
             h == <<e>>
             c == a \o h
             t == InsertAt(s, i, e)
  <1>1. n \in Nat /\ i \in 1 .. n + 1 /\ \A j \in 1 .. n : s[j] \in S
    OBVIOUS
  <1>2. a \in Seq(S) /\ Len(a) = i - 1 /\ \A j \in 1 .. i - 1 : a[j] = s[j]
    BY SubSeqProperties
  <1>3. b \in Seq(S) /\ Len(b) = (n - i) + 1 /\ \A j \in 1 .. (n - i) + 1 : b[j] = s[(i + j) - 1]
    BY SubSeqProperties
  <1>4. h \in Seq(S) /\ Len(h) = 1 /\ h[1] = e
    OBVIOUS
  <1>5. t = c \o b
    BY DEF InsertAt
  <1> HIDE DEF a, b, h, t, n
  <1>6. c \in Seq(S) /\ Len(c) = Len(a) + Len(h)
        /\ \A j \in 1 .. Len(a) + Len(h) : c[j] = IF j <= Len(a) THEN a[j] ELSE h[j - Len(a)]
    BY <1>2, <1>4, ConcatProperties
  <1> HIDE DEF c
  <1>7. c \in Seq(S) /\ Len(c) = i
        /\ \A j \in 1 .. i : c[j] = IF j < i THEN s[j] ELSE e
    <2>1. Len(c) = i /\ Len(a) + Len(h) = i
      BY <1>1, <1>2, <1>4, <1>6
    <2>2. ASSUME NEW j \in 1 .. i  PROVE c[j] = IF j < i THEN s[j] ELSE e
      <3>1. c[j] = IF j <= i - 1 THEN a[j] ELSE h[j - (i - 1)]
        BY <1>2, <1>6, <2>1
      <3>2. CASE j < i
        <4>1. j <= i - 1 /\ j \in 1 .. i - 1
          BY <1>1, <3>2
        <4> QED  BY <1>2, <3>1, <3>2, <4>1
      <3>3. CASE ~ (j < i)
        <4>1. j = i /\ ~ (j <= i - 1) /\ j - (i - 1) = 1
          BY <1>1, <3>3
        <4> QED  BY <1>4, <3>1, <3>3, <4>1
      <3> QED  BY <3>2, <3>3
    <2> QED  BY <1>6, <2>1, <2>2
  <1>8. t \in Seq(S) /\ Len(t) = Len(c) + Len(b)
        /\ \A j \in 1 .. Len(c) + Len(b) : t[j] = IF j <= Len(c) THEN c[j] ELSE b[j - Len(c)]
    BY <1>3, <1>5, <1>7, ConcatProperties
  <1>9. Len(t) = n + 1 /\ Len(c) + Len(b) = n + 1
    BY <1>1, <1>3, <1>7, <1>8
  <1>10. ASSUME NEW j \in 1 .. n + 1
         PROVE  t[j] = IF j < i THEN s[j] ELSE IF j = i THEN e ELSE s[j - 1]
    <2>1. t[j] = IF j <= i THEN c[j] ELSE b[j - i]
      BY <1>7, <1>8, <1>9
    <2>2. CASE j <= i
      <3>1. j \in 1 .. i
        BY <1>1, <2>2
      <3> QED  BY <1>1, <1>7, <2>1, <2>2, <3>1
    <2>3. CASE ~ (j <= i)
      <3>1. j - i \in 1 .. (n - i) + 1 /\ (i + (j - i)) - 1 = j - 1 /\ ~ (j < i) /\ j # i
        BY <1>1, <2>3
      <3> QED  BY <1>3, <2>1, <2>3, <3>1
    <2> QED  BY <2>2, <2>3
  <1> QED  BY <1>8, <1>9, <1>10 DEF t, n, WithInserted

LEMMA RemoveFacts ==
    ASSUME NEW S, NEW s \in Seq(S), NEW i \in 1 .. Len(s)
    PROVE  LET t == RemoveAt(s, i)
           IN  /\ t \in Seq(S) /\ Len(t) = Len(s) - 1
               /\ \A j \in 1 .. Len(s) - 1 : t[j] = IF j < i THEN s[j] ELSE s[j + 1]
  <1> DEFINE n == Len(s)
             a == SubSeq(s, 1, i - 1)
             b == SubSeq(s, i + 1, n)
             t == RemoveAt(s, i)
  <1>1. n \in Nat /\ i \in 1 .. n /\ \A j \in 1 .. n : s[j] \in S
    OBVIOUS
  <1>2. a \in Seq(S) /\ Len(a) = i - 1 /\ \A j \in 1 .. i - 1 : a[j] = s[j]
    BY SubSeqProperties
  <1>3. b \in Seq(S) /\ Len(b) = n - i /\ \A j \in 1 .. n - i : b[j] = s[((i + 1) + j) - 1]
    BY SubSeqProperties
  <1>4. t = a \o b
    BY DEF RemoveAt
  <1> HIDE DEF a, b, t, n
  <1>5. t \in Seq(S) /\ Len(t) = Len(a) + Len(b)
        /\ \A j \in 1 .. Len(a) + Len(b) : t[j] = IF j <= Len(a) THEN a[j] ELSE b[j - Len(a)]
    BY <1>2, <1>3, <1>4, ConcatProperties
  <1>6. Len(t) = n - 1 /\ Len(a) + Len(b) = n - 1
    BY <1>1, <1>2, <1>3, <1>5
  <1>7. ASSUME NEW j \in 1 .. n - 1  PROVE t[j] = IF j < i THEN s[j] ELSE s[j + 1]
    <2>1. t[j] = IF j <= i - 1 THEN a[j] ELSE b[j - (i - 1)]
      BY <1>2, <1>5, <1>6
    <2>2. CASE j < i
      <3>1. j \in 1 .. i - 1 /\ j <= i - 1
        BY <1>1, <2>2
      <3> QED  BY <1>2, <2>1, <2>2, <3>1
    <2>3. CASE ~ (j < i)
      <3>1. j - (i - 1) \in 1 .. n - i /\ ((i + 1) + (j - (i - 1))) - 1 = j + 1
            /\ ~ (j <= i - 1)
        BY <1>1, <2>3
      <3> QED  BY <1>3, <2>1, <2>3, <3>1
    <2> QED  BY <2>2, <2>3
  <1> QED  BY <1>5, <1>6, <1>7 DEF t, n

Apart(b, c) == BlockEnd(b) <= c.offset \/ BlockEnd(c) <= b.offset

(* A list of blocks that are apart stays so when one is put in that is     *)
(* apart from all, and when one is taken out.                              *)
LEMMA InsertApart ==
    ASSUME NEW S, NEW bs \in Seq(S), NEW b \in S, NEW i \in 1 .. Len(bs) + 1,
           \A j, k \in DOMAIN bs : j # k => Apart(bs[j], bs[k]),
           \A c \in Range(bs) : Apart(b, c)
    PROVE  LET t == InsertAt(bs, i, b)
           IN  /\ t \in Seq(S) /\ Range(t) = Range(bs) \cup {b}
               /\ \A j, k \in DOMAIN t : j # k => Apart(t[j], t[k])
  <1> DEFINE t == InsertAt(bs, i, b)
             at(j) == IF j < i THEN j ELSE j - 1
  <1>1. /\ t \in Seq(S) /\ Len(t) = Len(bs) + 1
        /\ \A j \in 1 .. Len(bs) + 1 : t[j] = IF j < i THEN bs[j] ELSE IF j = i THEN b ELSE bs[j - 1]
    <2>1. t \in Seq(S) /\ Len(t) = Len(bs) + 1
      BY InsertFacts
    <2>2. \A j \in 1 .. Len(bs) + 1 : t[j] = WithInserted(bs, i, b, j)
      BY InsertFacts
    <2> QED  BY <2>1, <2>2 DEF WithInserted
  <1> DEFINE n == Len(bs)
  <1>2. n \in Nat /\ DOMAIN bs = 1 .. n /\ DOMAIN t = 1 .. n + 1 /\ i \in 1 .. n + 1
    BY <1>1
  <1> HIDE DEF t
  <1>3. ASSUME NEW j \in DOMAIN t, j # i
        PROVE  at(j) \in DOMAIN bs /\ t[j] = bs[at(j)] /\ t[j] \in Range(bs)
    <2>1. at(j) \in 1 .. n
      BY <1>2, <1>3
    <2>2. t[j] = bs[at(j)]
      BY <1>1, <1>2, <1>3
    <2> QED  BY <1>2, <2>1, <2>2 DEF Range
  <1>4. t[i] = b /\ i \in DOMAIN t
    BY <1>1, <1>2
  <1>5. ASSUME NEW j \in DOMAIN t, NEW k \in DOMAIN t, j # k  PROVE Apart(t[j], t[k])
    <2>1. CASE j = i
      BY <1>3, <1>4, <1>5, <2>1
    <2>2. CASE k = i
      BY <1>3, <1>4, <1>5, <2>2 DEF Apart
    <2>3. CASE j # i /\ k # i
      <3>1. at(j) # at(k)
        BY <1>2, <1>5, <2>3
      <3>2. at(j) \in DOMAIN bs /\ at(k) \in DOMAIN bs /\ t[j] = bs[at(j)] /\ t[k] = bs[at(k)]
        BY <1>3, <2>3
      <3> HIDE DEF at
      <3> QED  BY <3>1, <3>2
    <2> QED  BY <2>1, <2>2, <2>3
  <1>6. Range(t) = Range(bs) \cup {b}
    <2>1. ASSUME NEW x \in Range(t)  PROVE x \in Range(bs) \cup {b}
      <3>1. PICK j \in DOMAIN t : x = t[j]
        BY DEF Range
      <3> QED  BY <1>3, <1>4, <3>1
    <2>2. ASSUME NEW x \in Range(bs)  PROVE x \in Range(t)
      <3>1. PICK j \in 1 .. n : x = bs[j]
        BY <1>2 DEF Range
      <3>2. CASE j < i
        <4>1. j \in DOMAIN t /\ t[j] = x
          BY <1>1, <1>2, <3>1, <3>2
        <4> QED  BY <4>1 DEF Range
      <3>3. CASE ~ (j < i)
        <4>1. j + 1 \in DOMAIN t /\ ~ (j + 1 < i) /\ j + 1 # i /\ (j + 1) - 1 = j
          BY <1>2, <3>3
        <4>2. t[j + 1] = x
          BY <1>1, <1>2, <3>1, <4>1
        <4> QED  BY <4>1, <4>2 DEF Range
      <3> QED  BY <3>2, <3>3
    <2>3. b \in Range(t)
      BY <1>4 DEF Range
    <2> QED  BY <2>1, <2>2, <2>3
  <1> QED  BY <1>1, <1>5, <1>6 DEF t

(* Every entry of t has a place of its own in s, and none is i. *)
KeptFrom(t, s, i) ==
    \E at \in [DOMAIN t -> (DOMAIN s) \ {i}] :
        /\ \A j \in DOMAIN t : t[j] = s[at[j]]
        /\ \A j, k \in DOMAIN t : j # k => at[j] # at[k]

LEMMA RemoveKeeps ==
    ASSUME NEW S, NEW s \in Seq(S), NEW i \in 1 .. Len(s)
    PROVE  LET t == RemoveAt(s, i)
           IN  /\ t \in Seq(S)
               /\ KeptFrom(t, s, i)
               /\ \A j \in DOMAIN s : j # i => s[j] \in Range(t)
               /\ Range(t) \subseteq Range(s)
  <1> DEFINE t == RemoveAt(s, i)
             n == Len(s)
             at == [j \in 1 .. n - 1 |-> IF j < i THEN j ELSE j + 1]
  <1>1. /\ t \in Seq(S) /\ Len(t) = n - 1
        /\ \A j \in 1 .. n - 1 : t[j] = IF j < i THEN s[j] ELSE s[j + 1]
    BY RemoveFacts
  <1>2. n \in Nat /\ DOMAIN s = 1 .. n /\ DOMAIN t = 1 .. n - 1 /\ i \in 1 .. n
    BY <1>1
  <1> HIDE DEF t, n
  <1>3. at \in [DOMAIN t -> (DOMAIN s) \ {i}]
    <2>1. \A j \in 1 .. n - 1 : (IF j < i THEN j ELSE j + 1) \in (1 .. n) \ {i}
      BY <1>2
    <2> QED  BY <1>2, <2>1
  <1>4. \A j \in DOMAIN t : t[j] = s[at[j]]
    BY <1>1, <1>2
  <1>5. \A j, k \in DOMAIN t : j # k => at[j] # at[k]
    BY <1>2
  <1>6. ASSUME NEW j \in DOMAIN s, j # i  PROVE s[j] \in Range(t)
    <2>1. CASE j < i
      <3>1. j \in DOMAIN t /\ t[j] = s[j]
        BY <1>1, <1>2, <2>1
      <3> QED  BY <3>1 DEF Range
    <2>2. CASE ~ (j < i)
      <3>1. j - 1 \in DOMAIN t /\ ~ (j - 1 < i) /\ (j - 1) + 1 = j
        BY <1>2, <1>6, <2>2
      <3>2. t[j - 1] = s[j]
        BY <1>1, <1>2, <3>1
      <3> QED  BY <3>1, <3>2 DEF Range
    <2> QED  BY <2>1, <2>2
  <1> HIDE DEF at
  <1>7. Range(t) \subseteq Range(s)
    BY <1>3, <1>4 DEF Range
  <1>8. KeptFrom(t, s, i)
    BY <1>3, <1>4, <1>5 DEF KeptFrom
  <1> QED  BY <1>1, <1>6, <1>7, <1>8 DEF t

-----------------------------------------------------------------------------
(* The host's calls *)

Blocks == [offset : 0 .. MaxRam, length : RamSizes]

BlockOf(r) == [offset |-> r.ram_addr, length |-> r.size]

BlocksApart(bs) == \A i, j \in DOMAIN bs : i # j => Apart(bs[i], bs[j])

(* The invariant that passes from one call to the next: beside what MapInv *)
(* says, regions and blocks are within their bounds, no two regions begin  *)
(* their RAM at one place (or a removal could take the block of another),  *)
(* and the map and the tree are those of the regions there are.            *)
MapIInv ==
    /\ MapTypeOK /\ RamApart
    /\ AllPlaced(mr, subregions)
    /\ \A b \in Range(ram_blocks) : BlockEnd(b) <= MaxRam
    /\ \A m, k \in Range(subregions) : m # k => mr[m].ram_addr # mr[k].ram_addr
    /\ current_map = generate_memory_topology(mr, subregions)
    /\ phys_map = TreeOf(current_map)

LEMMA BlockFacts ==
    ASSUME NEW b \in Blocks
    PROVE  /\ b.offset \in Nat /\ b.length \in Nat \ {0} /\ BlockEnd(b) \in Nat
           /\ BlockEnd(b) = b.offset + b.length
           /\ b = [offset |-> b.offset, length |-> b.length]
           /\ b.offset <= BlockEnd(b)
  <1>1. b.offset \in 0 .. MaxRam /\ b.length \in RamSizes
        /\ b = [offset |-> b.offset, length |-> b.length]
    BY DEF Blocks
  <1>2. b.offset \in Nat /\ b.length \in Nat \ {0}
    BY <1>1, MemoryMapAssumption
  <1> QED  BY <1>1, <1>2 DEF BlockEnd

(* A new block goes into a gap that is large enough: it is apart from all  *)
(* that are there and ends where RAM does or before.                       *)
LEMMA NewBlockApart ==
    ASSUME NEW bs \in Seq(Blocks), BlocksApart(bs), \A b \in Range(bs) : BlockEnd(b) <= MaxRam,
           NEW size \in RamSizes, CanAlloc(bs, size)
    PROVE  LET b == [offset |-> find_ram_offset(bs, size), length |-> size]
           IN  /\ b \in Blocks /\ BlockEnd(b) <= MaxRam
               /\ \A c \in Range(bs) : Apart(b, c)
  <1> DEFINE offset == find_ram_offset(bs, size)
             new == [offset |-> offset, length |-> size]
  <1>1. size \in Nat \ {0} /\ MaxRam \in Nat
    BY MemoryMapAssumption
  <1>2. \A c \in Range(bs) : c \in Blocks
    BY DEF Range
  <1>3. CASE bs = <<>>
    <2>1. offset = 0 /\ size <= MaxRam /\ Range(bs) = {}
      BY <1>3 DEF find_ram_offset, CanAlloc, Range
    <2> HIDE DEF offset
    <2>2. new \in Blocks /\ BlockEnd(new) <= MaxRam
      BY <1>1, <2>1 DEF Blocks, BlockEnd
    <2> QED  BY <2>1, <2>2 DEF offset
  <1>4. CASE bs # <<>>
    <2> DEFINE fits == Fits(bs, size)
               gaps == {Gap(bs, b) : b \in fits}
               least == Min(gaps)
               Js == {j \in DOMAIN bs : bs[j] \in Fits(bs, size) /\ Gap(bs, bs[j]) = least}
               b == bs[Min(Js)]
               above(c) == {d.offset : d \in {x \in Range(bs) : x.offset >= BlockEnd(c)}}
    <2>1. ASSUME NEW c \in Range(bs)
          PROVE  /\ Gap(bs, c) \in Nat /\ BlockEnd(c) + Gap(bs, c) <= MaxRam
                 /\ \A d \in Range(bs) : d.offset >= BlockEnd(c) =>
                       BlockEnd(c) + Gap(bs, c) <= d.offset
      <3>1. BlockEnd(c) \in Nat /\ BlockEnd(c) <= MaxRam
        BY <1>2, BlockFacts
      <3>2. above(c) \in SUBSET Nat /\ \A o \in above(c) : BlockEnd(c) <= o /\ o <= MaxRam
        <4>1. ASSUME NEW o \in above(c)  PROVE o \in Nat /\ BlockEnd(c) <= o /\ o <= MaxRam
          <5>1. PICK d \in Range(bs) : d.offset >= BlockEnd(c) /\ o = d.offset
            OBVIOUS
          <5>2. d \in Blocks
            BY <1>2
          <5>3. d.offset \in Nat /\ d.offset <= MaxRam
            BY <1>1, <5>2 DEF Blocks
          <5> QED  BY <3>1, <5>1, <5>3
        <4> QED  BY <4>1
      <3>3. \A d \in Range(bs) : d.offset >= BlockEnd(c) => d.offset \in above(c)
        OBVIOUS
      <3>4. Gap(bs, c) = (IF above(c) = {} THEN MaxRam ELSE Min(above(c))) - BlockEnd(c)
        BY Zenon DEF Gap
      <3> HIDE DEF above
      <3>5. CASE above(c) = {}
        BY <1>1, <3>1, <3>3, <3>4, <3>5
      <3>6. CASE above(c) # {}
        <4>1. Min(above(c)) \in above(c) /\ \A o \in above(c) : Min(above(c)) <= o
          BY <3>2, <3>6, MinIsLeast
        <4> DEFINE mn == Min(above(c))
        <4>2. mn \in Nat /\ BlockEnd(c) <= mn /\ mn <= MaxRam /\ \A o \in above(c) : mn <= o
          BY <3>2, <4>1
        <4>3. Gap(bs, c) = mn - BlockEnd(c)
          BY <3>4, <3>6
        <4> HIDE DEF mn
        <4>4. Gap(bs, c) \in Nat /\ BlockEnd(c) + Gap(bs, c) = mn
          BY <3>1, <4>2, <4>3
        <4> QED  BY <1>1, <3>3, <4>2, <4>4
      <3> QED  BY <3>5, <3>6
    <2>2. fits # {} /\ fits \subseteq Range(bs)
      BY <1>4 DEF CanAlloc, Fits
    <2>3. least \in gaps
      <3>1. gaps \in SUBSET Nat /\ gaps # {}
        BY <2>1, <2>2
      <3> HIDE DEF gaps
      <3> QED  BY <3>1, MinIsLeast
    <2>4. PICK c \in fits : Gap(bs, c) = least
      <3> HIDE DEF least
      <3> QED  BY <2>3
    <2>5. PICK j \in DOMAIN bs : bs[j] = c
      BY <2>2 DEF Range
    <2>6. Min(Js) \in Js
      <3>1. j \in Js
        BY <2>4, <2>5
      <3>2. Js \in SUBSET Nat
        OBVIOUS
      <3> HIDE DEF Js
      <3> QED  BY <3>1, <3>2, MinIsLeast
    <2>7. Min(Js) \in DOMAIN bs /\ b \in fits
      <3> DEFINE i == Min(Js)
      <3>1. i \in Js
        BY <2>6
      <3> HIDE DEF i
      <3>2. i \in DOMAIN bs /\ bs[i] \in Fits(bs, size)
        BY <3>1
      <3> QED  BY <3>2 DEF i
    <2>8. offset = BlockEnd(b)
      BY <1>4, Zenon DEF find_ram_offset
    <2> HIDE DEF offset, b, least, Js
    <2>9. b \in Range(bs) /\ Gap(bs, b) >= size /\ b \in Blocks
      BY <1>2, <2>2, <2>7 DEF Fits
    <2>10. BlockEnd(b) \in Nat /\ Gap(bs, b) \in Nat /\ BlockEnd(b) + Gap(bs, b) <= MaxRam
      BY <2>1, <2>9, BlockFacts
    <2>11. BlockEnd(b) + size <= MaxRam
      BY <1>1, <2>9, <2>10
    <2>12. new.offset = offset /\ new.length = size /\ BlockEnd(new) = offset + size
      BY DEF BlockEnd
    <2>13. new \in Blocks /\ BlockEnd(new) <= MaxRam
      <3>1. offset \in 0 .. MaxRam
        BY <1>1, <2>8, <2>10, <2>11
      <3> QED  BY <2>8, <2>11, <2>12, <3>1 DEF Blocks
    <2>14. ASSUME NEW d \in Range(bs)  PROVE Apart(new, d)
      <3>1. d.offset \in Nat /\ BlockEnd(d) \in Nat /\ d.offset <= BlockEnd(d)
            /\ b.offset \in Nat /\ b.offset <= BlockEnd(b)
        BY <1>2, <2>9, BlockFacts
      <3>2. CASE d.offset >= BlockEnd(b)
        <4>1. BlockEnd(b) + Gap(bs, b) <= d.offset
          BY <2>1, <2>9, <3>2
        <4>2. offset + size <= d.offset
          BY <1>1, <2>8, <2>9, <2>10, <3>1, <4>1
        <4> QED  BY <2>12, <4>2 DEF Apart
      <3>3. CASE ~ (d.offset >= BlockEnd(b))
        <4>1. BlockEnd(d) <= BlockEnd(b)
          <5>1. PICK x \in DOMAIN bs, y \in DOMAIN bs : d = bs[x] /\ b = bs[y]
            BY <2>9 DEF Range
          <5>2. CASE x = y
            BY <3>1, <5>1, <5>2
          <5>3. CASE x # y
            <6>1. Apart(d, b)
              BY <5>1, <5>3 DEF BlocksApart
            <6> QED  BY <2>10, <3>1, <3>3, <6>1 DEF Apart
          <5> QED  BY <5>2, <5>3
        <4> QED  BY <2>8, <2>12, <4>1 DEF Apart
      <3> QED  BY <3>2, <3>3
    <2> QED  BY <2>13, <2>14 DEF offset
  <1> QED  BY <1>3, <1>4

(* The dirty flags reach the end of every block. *)
LEMMA AllDirty ==
    ASSUME NEW bs \in Seq(Blocks), \A b \in Range(bs) : BlockEnd(b) <= MaxRam
    PROVE  \A b \in Range(bs) : BlockEnd(b) <= last_ram_offset(bs)
  <1> DEFINE S == {0} \cup {BlockEnd(b) : b \in Range(bs)}
  <1>1. \A b \in Range(bs) : BlockEnd(b) \in 0 .. MaxRam
    <2> TAKE b \in Range(bs)
    <2>1. b \in Blocks
      BY DEF Range
    <2> QED  BY <2>1, BlockFacts, MemoryMapAssumption
  <1>2. S \in SUBSET (0 .. MaxRam) /\ S # {} /\ MaxRam \in Nat
    BY <1>1, MemoryMapAssumption
  <1>3. \A b \in Range(bs) : BlockEnd(b) \in S
    OBVIOUS
  <1>4. last_ram_offset(bs) = Max(S)
    BY Zenon DEF last_ram_offset
  <1> HIDE DEF S
  <1>5. Max(S) \in S /\ \A k \in S : Max(S) >= k
    BY <1>2, MaxIsGreatest
  <1> QED  BY <1>1, <1>2, <1>3, <1>4, <1>5

(* A commit leaves the map and the tree those of the regions. *)
LEMMA CommitMaps ==
    ASSUME current_map \in Seq(FlatRanges), AllPlaced(mr, subregions)', Commit
    PROVE  /\ current_map' = generate_memory_topology(mr, subregions)'
           /\ phys_map' = TreeOf(current_map)'
           /\ current_map' \in Seq(FlatRanges)
  <1>1. current_map' = generate_memory_topology(mr', subregions')
        /\ phys_map' = TreeOf(Added(current_map, generate_memory_topology(mr', subregions')))
    BY DEF Commit
  <1>2. AllPlaced(mr', subregions')
    OBVIOUS
  <1>3. ShowsFront(mr', subregions', generate_memory_topology(mr', subregions'), Len(subregions'))
    BY <1>2, TopologyShowsFront
  <1>4. generate_memory_topology(mr', subregions') \in Seq(FlatRanges)
    BY <1>3 DEF ShowsFront
  <1>5. Added(current_map, generate_memory_topology(mr', subregions'))
          = generate_memory_topology(mr', subregions')
    BY <1>4, AllAdded
  <1> QED  BY <1>1, <1>4, <1>5

(* What the type says of the regions that are set up. *)
LEMMA RegionFacts ==
    ASSUME MapTypeOK, NEW m \in MRs, mr[m] # NULL
    PROVE  /\ mr[m].addr \in Pages /\ mr[m].size \in RamSizes /\ mr[m].ram_addr \in 0 .. MaxRam
           /\ m \in Range(subregions)
  BY DEF MapTypeOK

(* FlatRanges again. *)
LEMMA FlatType == Seq([mr : MRs, start : Pages, size : 1 .. NumPages, off : Pages]) = Seq(FlatRanges)
  BY DEF FlatRanges

LEMMA InitMaps == MapInit => MapIInv
  <1> SUFFICES ASSUME MapInit  PROVE MapIInv
    OBVIOUS
  <1>1. /\ mr = [m \in MRs |-> NULL] /\ subregions = <<>> /\ ram_blocks = <<>> /\ phys_dirty = 0
        /\ current_map = <<>> /\ phys_map = NoTree
    BY DEF MapInit
  <1>2. Range(subregions) = {} /\ DOMAIN subregions = {} /\ Len(subregions) = 0
        /\ Range(ram_blocks) = {} /\ DOMAIN ram_blocks = {}
    BY <1>1 DEF Range
  <1>3. \A m \in MRs : mr[m] = NULL
    BY <1>1
  <1>4. AllPlaced(mr, subregions)
    BY <1>1, <1>2 DEF AllPlaced
  <1>5. MapTypeOK
    <2>1. mr \in [MRs -> [addr : Pages, size : RamSizes, ram_addr : 0 .. MaxRam] \cup {NULL}]
      BY <1>1
    <2>2. Range(subregions) = {m \in MRs : mr[m] # NULL}
      BY <1>2, <1>3
    <2>3. subregions \in Seq(MRs) /\ IsInjective(subregions)
      BY <1>1, <1>2 DEF IsInjective
    <2>4. ram_blocks \in Seq([offset : 0 .. MaxRam, length : RamSizes])
      BY <1>1
    <2>5. current_map \in Seq([mr : MRs, start : Pages, size : 1 .. NumPages, off : Pages])
      BY <1>1
    <2> QED  BY <2>1, <2>2, <2>3, <2>4, <2>5 DEF MapTypeOK
  <1>6. RamApart
    BY <1>2 DEF RamApart
  <1>7. current_map = generate_memory_topology(mr, subregions)
    <2>1. PICK f : f[0] = <<>> /\ generate_memory_topology(mr, subregions) = f[Len(subregions)]
      BY <1>4, TopologyDef
    <2> QED  BY <1>1, <1>2, <2>1
  <1>8. phys_map = TreeOf(current_map)
    <2>1. current_map \in Seq(FlatRanges) /\ Len(current_map) = 0
      BY <1>1
    <2>2. PICK t \in [0 .. Len(current_map) -> Trees] :
              t[0] = NoTree /\ TreeOf(current_map) = t[Len(current_map)]
      BY <2>1, TreeOfDef
    <2> QED  BY <1>1, <2>1, <2>2
  <1> QED  BY <1>2, <1>4, <1>5, <1>6, <1>7, <1>8 DEF MapIInv

(* What both of the host's calls rely on. *)
LEMMA MapIFacts ==
    ASSUME MapIInv
    PROVE  /\ current_map \in Seq(FlatRanges) /\ ram_blocks \in Seq(Blocks) /\ BlocksApart(ram_blocks)
           /\ \A m \in Range(subregions) : BlockOf(mr[m]) \in Range(ram_blocks)
           /\ \A b \in Range(ram_blocks) : BlockEnd(b) <= phys_dirty
  <1>1. current_map \in Seq(FlatRanges)
    BY FlatType DEF MapIInv, MapTypeOK
  <1>2. ram_blocks \in Seq(Blocks)
    BY DEF MapIInv, MapTypeOK, Blocks
  <1>3. RamApart
    BY DEF MapIInv
  <1> QED  BY <1>1, <1>2, <1>3 DEF RamApart, BlocksApart, Apart, BlockOf

LEMMA SetupKeeps ==
    ASSUME MapIInv, NEW m \in MRs, NEW pa \in Pages, NEW size \in RamSizes,
           vx64_setup_ram(m, pa, size)
    PROVE  MapIInv'
  <1> DEFINE offset == find_ram_offset(ram_blocks, size)
             b == [offset |-> offset, length |-> size]
             smaller == {i \in DOMAIN ram_blocks : ram_blocks[i].length < b.length}
             at == IF smaller = {} THEN Len(ram_blocks) + 1 ELSE Min(smaller)
             new == [addr |-> pa, size |-> size, ram_addr |-> offset]
  <1>1. /\ mr[m] = NULL /\ pa + size <= NumPages /\ CanAlloc(ram_blocks, size)
        /\ ram_blocks' = InsertBlock(ram_blocks, b)
        /\ mr' = [mr EXCEPT ![m] = new]
        /\ phys_dirty' = last_ram_offset(ram_blocks')
        /\ subregions' = <<m>> \o subregions
        /\ Commit
    BY DEF vx64_setup_ram
  <1>2. /\ current_map \in Seq(FlatRanges) /\ ram_blocks \in Seq(Blocks) /\ BlocksApart(ram_blocks)
        /\ \A k \in Range(subregions) : BlockOf(mr[k]) \in Range(ram_blocks)
        /\ \A c \in Range(ram_blocks) : BlockEnd(c) <= MaxRam
    BY MapIFacts DEF MapIInv
  <1>3. /\ MapTypeOK /\ AllPlaced(mr, subregions)
        /\ \A j, k \in Range(subregions) : j # k => mr[j].ram_addr # mr[k].ram_addr
    BY DEF MapIInv
  <1>4. b \in Blocks /\ BlockEnd(b) <= MaxRam /\ \A c \in Range(ram_blocks) : Apart(b, c)
    BY <1>1, <1>2, NewBlockApart
  <1> HIDE DEF offset
  <1>5. b.offset = offset /\ b.length = size
    OBVIOUS
  <1>6. offset \in 0 .. MaxRam /\ size \in Nat \ {0} /\ NumPages \in Nat /\ pa \in Nat
    BY <1>4, MemoryMapAssumption, StepDef DEF Blocks, Pages, NumPages
  <1>7. at \in 1 .. Len(ram_blocks) + 1
    <2>1. smaller \in SUBSET Nat /\ smaller \subseteq 1 .. Len(ram_blocks) /\ Len(ram_blocks) \in Nat
      BY <1>2
    <2> HIDE DEF smaller
    <2>2. smaller # {} => Min(smaller) \in smaller
      BY <2>1, MinIsLeast
    <2>3. CASE smaller = {}
      <3>1. at = Len(ram_blocks) + 1
        BY <2>3
      <3> QED  BY <2>1, <3>1
    <2>4. CASE smaller # {}
      <3>1. at = Min(smaller)
        BY <2>4
      <3>2. at \in 1 .. Len(ram_blocks)
        BY <2>1, <2>2, <2>4, <3>1
      <3> HIDE DEF at
      <3> QED  BY <2>1, <3>2
    <2> QED  BY <2>3, <2>4
  <1>8. ram_blocks' = InsertAt(ram_blocks, at, b)
    BY <1>1, Zenon DEF InsertBlock
  <1> HIDE DEF at, b
  <1>9. /\ ram_blocks' \in Seq(Blocks) /\ Range(ram_blocks') = Range(ram_blocks) \cup {b}
        /\ \A i, j \in DOMAIN ram_blocks' : i # j => Apart(ram_blocks'[i], ram_blocks'[j])
    <2>1. \A i, j \in DOMAIN ram_blocks : i # j => Apart(ram_blocks[i], ram_blocks[j])
      BY <1>2 DEF BlocksApart
    <2> QED  BY <1>2, <1>4, <1>7, <1>8, <2>1, InsertApart
  <1>10. \A c \in Range(ram_blocks') : BlockEnd(c) <= MaxRam /\ BlockEnd(c) <= phys_dirty'
    <2>1. \A c \in Range(ram_blocks') : BlockEnd(c) <= MaxRam
      BY <1>2, <1>4, <1>9
    <2> QED  BY <1>1, <1>9, <2>1, AllDirty
  (* The regions: m in front of those there were. *)
  <1>11. subregions \in Seq(MRs) /\ IsInjective(subregions)
         /\ Range(subregions) = {k \in MRs : mr[k] # NULL}
         /\ mr \in [MRs -> [addr : Pages, size : RamSizes, ram_addr : 0 .. MaxRam] \cup {NULL}]
    BY <1>3 DEF MapTypeOK
  <1>12. m \notin Range(subregions)
    BY <1>1, <1>11
  <1> DEFINE n == Len(subregions)
  <1>13. /\ subregions' \in Seq(MRs) /\ Len(subregions') = n + 1 /\ n \in Nat
         /\ DOMAIN subregions' = 1 .. n + 1 /\ DOMAIN subregions = 1 .. n
         /\ subregions'[1] = m
         /\ \A i \in 2 .. n + 1 : subregions'[i] = subregions[i - 1] /\ i - 1 \in 1 .. n
    BY <1>1, <1>11
  <1> HIDE DEF n
  <1>14. Range(subregions') = Range(subregions) \cup {m}
    <2>1. ASSUME NEW x \in Range(subregions')  PROVE x \in Range(subregions) \cup {m}
      <3>1. PICK i \in 1 .. n + 1 : x = subregions'[i]
        BY <1>13 DEF Range
      <3>2. CASE i = 1
        BY <1>13, <3>1, <3>2
      <3>3. CASE i # 1
        <4>1. i \in 2 .. n + 1
          BY <1>13, <3>3
        <4>2. x = subregions[i - 1] /\ i - 1 \in DOMAIN subregions
          BY <1>13, <3>1, <4>1
        <4> QED  BY <4>2 DEF Range
      <3> QED  BY <3>2, <3>3
    <2>2. ASSUME NEW x \in Range(subregions)  PROVE x \in Range(subregions')
      <3>1. PICK i \in 1 .. n : x = subregions[i]
        BY <1>13 DEF Range
      <3>2. i + 1 \in 2 .. n + 1 /\ (i + 1) - 1 = i /\ i + 1 \in DOMAIN subregions'
        BY <1>13
      <3>3. subregions'[i + 1] = x
        BY <1>13, <3>1, <3>2
      <3> QED  BY <3>2, <3>3 DEF Range
    <2>3. m \in Range(subregions')
      <3>1. 1 \in DOMAIN subregions'
        BY <1>13
      <3> QED  BY <1>13, <3>1 DEF Range
    <2> QED  BY <2>1, <2>2, <2>3
  <1>15. IsInjective(subregions')
    <2> SUFFICES ASSUME NEW i \in 1 .. n + 1, NEW j \in 1 .. n + 1, subregions'[i] = subregions'[j]
                 PROVE  i = j
      BY <1>13 DEF IsInjective
    <2>0. \A k \in 1 .. n + 1 : k = 1 \/ k \in 2 .. n + 1
      BY <1>13
    <2>1. \A k \in 2 .. n + 1 : subregions'[k] \in Range(subregions)
      BY <1>13 DEF Range
    <2>2. CASE i \in 2 .. n + 1 /\ j \in 2 .. n + 1
      <3>1. i - 1 = j - 1
        BY <1>11, <1>13, <2>2 DEF IsInjective
      <3> QED  BY <3>1
    <2> QED  BY <1>12, <1>13, <2>0, <2>1, <2>2
  <1>16. mr'[m] = new /\ \A k \in MRs : k # m => mr'[k] = mr[k]
    BY <1>1, <1>11
  <1>17. new \in [addr : Pages, size : RamSizes, ram_addr : 0 .. MaxRam]
         /\ new.addr = pa /\ new.size = size /\ new.ram_addr = offset
    BY <1>6
  <1>18. new # NULL
    BY <1>6, MemoryMapAssumption
  <1> HIDE DEF new
  <1>19. mr' \in [MRs -> [addr : Pages, size : RamSizes, ram_addr : 0 .. MaxRam] \cup {NULL}]
    BY <1>1, <1>11, <1>17
  <1>20. Range(subregions') = {k \in MRs : mr'[k] # NULL}
    BY <1>11, <1>14, <1>16, <1>18
  <1>21. AllPlaced(mr, subregions)'
    <2>1. ASSUME NEW i \in DOMAIN subregions'  PROVE Placed(mr', subregions'[i])
      <3>1. CASE i = 1
        <4>1. subregions'[i] = m
          BY <1>13, <3>1
        <4> QED  BY <1>1, <1>6, <1>16, <1>17, <4>1 DEF Placed
      <3>2. CASE i # 1
        <4>1. i \in 2 .. n + 1
          BY <1>13, <3>2
        <4>2. subregions'[i] = subregions[i - 1] /\ i - 1 \in DOMAIN subregions
          BY <1>13, <4>1
        <4>3. Placed(mr, subregions[i - 1])
          BY <1>3, <4>2 DEF AllPlaced
        <4>4. subregions[i - 1] # m /\ subregions[i - 1] \in MRs
          BY <1>12, <4>2, <4>3 DEF Range, Placed
        <4> QED  BY <1>16, <4>2, <4>3, <4>4 DEF Placed
      <3> QED  BY <3>1, <3>2
    <2> QED  BY <1>13, <2>1 DEF AllPlaced
  <1>22. /\ current_map' = generate_memory_topology(mr, subregions)'
         /\ phys_map' = TreeOf(current_map)' /\ current_map' \in Seq(FlatRanges)
    BY <1>1, <1>2, <1>21, CommitMaps
  (* The RAM of the regions. *)
  <1>23. \A k \in Range(subregions) : k \in MRs /\ k # m /\ mr'[k] = mr[k]
    BY <1>11, <1>12, <1>16
  <1>24. BlockOf(mr'[m]) = b
    BY <1>16, <1>17 DEF BlockOf, b
  <1>25. \A k \in Range(subregions') : BlockOf(mr'[k]) \in Range(ram_blocks')
    BY <1>2, <1>9, <1>14, <1>23, <1>24
  <1>26. \A k \in Range(subregions) : mr[k].ram_addr # offset
    <2> TAKE k \in Range(subregions)
    <2>1. BlockOf(mr[k]) \in Range(ram_blocks) /\ BlockOf(mr[k]) \in Blocks
      BY <1>2 DEF Range
    <2> DEFINE c == BlockOf(mr[k])
    <2>2. c.offset = mr[k].ram_addr
      BY DEF BlockOf
    <2>3. Apart(b, c)
      BY <1>4, <2>1
    <2> HIDE DEF c
    <2>4. c \in Blocks
      BY <2>1 DEF c
    <2>5. c.offset # b.offset
      <3>1. /\ c.offset \in Nat /\ BlockEnd(c) = c.offset + c.length /\ c.length \in Nat \ {0}
            /\ b.offset \in Nat /\ BlockEnd(b) = b.offset + b.length /\ b.length \in Nat \ {0}
        BY <1>4, <2>4, BlockFacts
      <3> QED  BY <2>3, <3>1 DEF Apart
    <2> QED  BY <1>5, <2>2, <2>5 DEF b
  <1>27. ASSUME NEW j \in Range(subregions'), NEW k \in Range(subregions'), j # k
         PROVE  mr'[j].ram_addr # mr'[k].ram_addr
    <2>1. mr'[m].ram_addr = offset
      BY <1>16, <1>17
    <2>2. CASE j = m
      BY <1>14, <1>23, <1>26, <1>27, <2>1, <2>2
    <2>3. CASE k = m
      BY <1>14, <1>23, <1>26, <1>27, <2>1, <2>3
    <2>4. CASE j # m /\ k # m
      BY <1>3, <1>14, <1>23, <1>27, <2>4
    <2> QED  BY <2>2, <2>3, <2>4
  <1>28. RamApart'
    BY <1>9, <1>10, <1>25 DEF RamApart, Apart, BlockOf
  <1>29. MapTypeOK'
    <2>1. current_map' \in Seq([mr : MRs, start : Pages, size : 1 .. NumPages, off : Pages])
      BY <1>22, FlatType
    <2> QED  BY <1>9, <1>13, <1>15, <1>19, <1>20, <2>1 DEF MapTypeOK, Blocks
  <1> QED  BY <1>10, <1>21, <1>22, <1>27, <1>28, <1>29 DEF MapIInv

LEMMA RemovalKeeps ==
    ASSUME MapIInv, NEW m \in MRs, vx64_remove_ram(m)
    PROVE  MapIInv'
  <1> DEFINE Is == {i \in DOMAIN subregions : subregions[i] = m}
             Js == {i \in DOMAIN ram_blocks : ram_blocks[i].offset = mr[m].ram_addr}
             a == Min(Is)
             b == Min(Js)
  <1>1. /\ mr[m] # NULL
        /\ subregions' = RemoveAt(subregions, a)
        /\ ram_blocks' = RemoveAt(ram_blocks, b)
        /\ mr' = [mr EXCEPT ![m] = NULL]
        /\ Commit /\ phys_dirty' = phys_dirty
    BY DEF vx64_remove_ram
  <1>2. /\ current_map \in Seq(FlatRanges) /\ ram_blocks \in Seq(Blocks) /\ BlocksApart(ram_blocks)
        /\ \A k \in Range(subregions) : BlockOf(mr[k]) \in Range(ram_blocks)
        /\ \A c \in Range(ram_blocks) : BlockEnd(c) <= MaxRam /\ BlockEnd(c) <= phys_dirty
    BY MapIFacts DEF MapIInv
  <1>3. /\ MapTypeOK /\ AllPlaced(mr, subregions)
        /\ \A j, k \in Range(subregions) : j # k => mr[j].ram_addr # mr[k].ram_addr
    BY DEF MapIInv
  <1>4. subregions \in Seq(MRs) /\ IsInjective(subregions)
        /\ Range(subregions) = {k \in MRs : mr[k] # NULL}
        /\ mr \in [MRs -> [addr : Pages, size : RamSizes, ram_addr : 0 .. MaxRam] \cup {NULL}]
    BY <1>3 DEF MapTypeOK
  <1>5. m \in Range(subregions)
    BY <1>1, <1>4
  <1>6. a \in 1 .. Len(subregions) /\ subregions[a] = m
    <2>1. PICK i \in DOMAIN subregions : subregions[i] = m
      BY <1>5 DEF Range
    <2>2. i \in Is /\ Is \in SUBSET Nat
      BY <1>4, <2>1
    <2>3. Is \subseteq 1 .. Len(subregions) /\ \A x \in Is : subregions[x] = m
      BY <1>4
    <2> HIDE DEF Is
    <2>4. Min(Is) \in Is
      BY <2>2, MinIsLeast
    <2> QED  BY <2>3, <2>4
  <1>7. b \in 1 .. Len(ram_blocks) /\ ram_blocks[b].offset = mr[m].ram_addr
    <2>1. PICK i \in DOMAIN ram_blocks : ram_blocks[i] = BlockOf(mr[m])
      BY <1>2, <1>5 DEF Range
    <2>2. i \in Js /\ Js \in SUBSET Nat
      BY <1>2, <2>1 DEF BlockOf
    <2>3. Js \subseteq 1 .. Len(ram_blocks) /\ \A x \in Js : ram_blocks[x].offset = mr[m].ram_addr
      BY <1>2
    <2> HIDE DEF Js
    <2>4. Min(Js) \in Js
      BY <2>2, MinIsLeast
    <2> QED  BY <2>3, <2>4
  <1> HIDE DEF a, b
  (* The regions that are left. *)
  <1>8. PICK at \in [DOMAIN subregions' -> (DOMAIN subregions) \ {a}] :
           /\ \A j \in DOMAIN subregions' : subregions'[j] = subregions[at[j]]
           /\ \A j, k \in DOMAIN subregions' : j # k => at[j] # at[k]
    <2>1. KeptFrom(subregions', subregions, a)
      BY <1>1, <1>4, <1>6, RemoveKeeps
    <2> QED  BY <2>1 DEF KeptFrom
  <1>9. /\ subregions' \in Seq(MRs) /\ Range(subregions') \subseteq Range(subregions)
        /\ \A j \in DOMAIN subregions : j # a => subregions[j] \in Range(subregions')
    BY <1>1, <1>4, <1>6, RemoveKeeps
  <1>10. IsInjective(subregions')
    <2> SUFFICES ASSUME NEW i \in DOMAIN subregions', NEW j \in DOMAIN subregions',
                        subregions'[i] = subregions'[j]
                 PROVE  i = j
      BY DEF IsInjective
    <2>1. at[i] = at[j]
      BY <1>4, <1>8 DEF IsInjective
    <2> QED  BY <1>8, <2>1
  <1>11. m \notin Range(subregions')
    <2> SUFFICES ASSUME NEW i \in DOMAIN subregions', subregions'[i] = m  PROVE FALSE
      BY DEF Range
    <2>1. at[i] \in DOMAIN subregions /\ at[i] # a /\ subregions[at[i]] = m /\ a \in DOMAIN subregions
      BY <1>4, <1>6, <1>8
    <2> QED  BY <1>4, <1>6, <2>1 DEF IsInjective
  <1>12. Range(subregions') = Range(subregions) \ {m}
    <2>1. ASSUME NEW x \in Range(subregions), x # m  PROVE x \in Range(subregions')
      <3>1. PICK i \in DOMAIN subregions : x = subregions[i]
        BY DEF Range
      <3> QED  BY <1>6, <1>9, <2>1, <3>1
    <2> QED  BY <1>9, <1>11, <2>1
  <1>13. mr'[m] = NULL /\ \A k \in MRs : k # m => mr'[k] = mr[k]
    BY <1>1, <1>4
  <1>14. mr' \in [MRs -> [addr : Pages, size : RamSizes, ram_addr : 0 .. MaxRam] \cup {NULL}]
    BY <1>1, <1>4
  <1>15. Range(subregions') = {k \in MRs : mr'[k] # NULL}
    BY <1>4, <1>12, <1>13
  <1>16. \A k \in Range(subregions') : k \in MRs /\ k # m /\ mr'[k] = mr[k] /\ k \in Range(subregions)
    BY <1>4, <1>12, <1>13
  <1>17. AllPlaced(mr, subregions)'
    <2>1. ASSUME NEW i \in DOMAIN subregions'  PROVE Placed(mr', subregions'[i])
      <3> DEFINE k == subregions'[i]
      <3>1. k \in Range(subregions')
        BY DEF Range
      <3>2. k # m /\ mr'[k] = mr[k]
        BY <1>16, <3>1
      <3>3. Placed(mr, k)
        BY <1>3, <1>8 DEF AllPlaced
      <3> HIDE DEF k
      <3>4. Placed(mr', k)
        BY <3>2, <3>3 DEF Placed
      <3> QED  BY <3>4 DEF k
    <2> QED  BY <1>9, <2>1 DEF AllPlaced
  <1>18. /\ current_map' = generate_memory_topology(mr, subregions)'
         /\ phys_map' = TreeOf(current_map)' /\ current_map' \in Seq(FlatRanges)
    BY <1>1, <1>2, <1>17, CommitMaps
  (* The blocks that are left. *)
  <1>19. PICK bt \in [DOMAIN ram_blocks' -> (DOMAIN ram_blocks) \ {b}] :
           /\ \A j \in DOMAIN ram_blocks' : ram_blocks'[j] = ram_blocks[bt[j]]
           /\ \A j, k \in DOMAIN ram_blocks' : j # k => bt[j] # bt[k]
    <2>1. KeptFrom(ram_blocks', ram_blocks, b)
      BY <1>1, <1>2, <1>7, RemoveKeeps
    <2> QED  BY <2>1 DEF KeptFrom
  <1>20. /\ ram_blocks' \in Seq(Blocks) /\ Range(ram_blocks') \subseteq Range(ram_blocks)
         /\ \A j \in DOMAIN ram_blocks : j # b => ram_blocks[j] \in Range(ram_blocks')
    BY <1>1, <1>2, <1>7, RemoveKeeps
  <1>21. ASSUME NEW i \in DOMAIN ram_blocks', NEW j \in DOMAIN ram_blocks', i # j
         PROVE  Apart(ram_blocks'[i], ram_blocks'[j])
    <2>1. bt[i] # bt[j] /\ bt[i] \in DOMAIN ram_blocks /\ bt[j] \in DOMAIN ram_blocks
      BY <1>19, <1>21
    <2>2. Apart(ram_blocks[bt[i]], ram_blocks[bt[j]])
      BY <1>2, <2>1 DEF BlocksApart
    <2> QED  BY <1>19, <2>2
  <1>22. ASSUME NEW k \in Range(subregions')  PROVE BlockOf(mr'[k]) \in Range(ram_blocks')
    <2>1. k # m /\ mr'[k] = mr[k] /\ k \in Range(subregions)
      BY <1>16
    <2>2. PICK j \in DOMAIN ram_blocks : ram_blocks[j] = BlockOf(mr[k])
      BY <1>2, <2>1 DEF Range
    <2>3. ram_blocks[j].offset = mr[k].ram_addr
      BY <2>2 DEF BlockOf
    <2>4. j # b
      BY <1>3, <1>5, <1>7, <2>1, <2>3
    <2> QED  BY <1>20, <2>1, <2>2, <2>4
  <1>23. \A j, k \in Range(subregions') : j # k => mr'[j].ram_addr # mr'[k].ram_addr
    BY <1>3, <1>16
  <1>24. RamApart'
    <2>1. \A c \in Range(ram_blocks') : BlockEnd(c) <= phys_dirty'
      BY <1>1, <1>2, <1>20
    <2> QED  BY <1>21, <1>22, <2>1 DEF RamApart, Apart, BlockOf
  <1>25. \A c \in Range(ram_blocks') : BlockEnd(c) <= MaxRam
    BY <1>2, <1>20
  <1>26. MapTypeOK'
    <2>1. current_map' \in Seq([mr : MRs, start : Pages, size : 1 .. NumPages, off : Pages])
      BY <1>18, FlatType
    <2> QED  BY <1>9, <1>10, <1>14, <1>15, <1>20, <2>1 DEF MapTypeOK, Blocks
  <1> QED  BY <1>17, <1>18, <1>23, <1>24, <1>25, <1>26 DEF MapIInv

LEMMA MapStep == MapIInv /\ [MapNext]_mapvars => MapIInv'
  <1> SUFFICES ASSUME MapIInv, [MapNext]_mapvars  PROVE MapIInv'
    OBVIOUS
  <1>1. ASSUME NEW m \in MRs, NEW pa \in Pages, NEW size \in RamSizes, vx64_setup_ram(m, pa, size)
        PROVE  MapIInv'
    BY <1>1, SetupKeeps
  <1>2. ASSUME NEW m \in MRs, vx64_remove_ram(m)  PROVE MapIInv'
    BY <1>2, RemovalKeeps
  <1>3. CASE UNCHANGED mapvars
    BY <1>3 DEF mapvars, MapIInv, MapTypeOK, RamApart, AllPlaced, Placed
  <1> QED  BY <1>1, <1>2, <1>3 DEF MapNext

(* The invariant says that the front region is what the map and the tree   *)
(* show.                                                                   *)
LEMMA MapIInvShows == MapIInv => MapInv /\ FlatIsFront /\ TreeIsFront
  BY MapShowsFront DEF MapIInv, MapInv

(* Whatever the host sets up and removes: the lists and the flat view are  *)
(* well formed, the view's ranges are in order and do not overlap, and no  *)
(* two regions share RAM (vx64_setup_ram, vx64_remove_ram).                *)
THEOREM MapHolds == MapSpec => []MapInv
  <1>1. MapSpec => []MapIInv
    BY InitMaps, MapStep, PTL DEF MapSpec
  <1> QED  BY <1>1, MapIInvShows, PTL

(* The flat view (render_memory_region) shows at every page the region set *)
(* up last that covers it, for any number of regions that overlap anyhow.  *)
THEOREM FlatHolds == MapSpec => []FlatIsFront
  <1>1. MapSpec => []MapIInv
    BY InitMaps, MapStep, PTL DEF MapSpec
  <1> QED  BY <1>1, MapIInvShows, PTL

(* The radix tree that a TLB fill reads (phys_page_find), filled by what   *)
(* the difference of two views tells (address_space_update_topology_pass), *)
(* finds the region in front at every page, for a tree of any size.        *)
THEOREM TreeHolds == MapSpec => []TreeIsFront
  <1>1. MapSpec => []MapIInv
    BY InitMaps, MapStep, PTL DEF MapSpec
  <1> QED  BY <1>1, MapIInvShows, PTL
=============================================================================
