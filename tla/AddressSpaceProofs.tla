------------------------- MODULE AddressSpaceProofs -------------------------
(***************************************************************************)
(* Proofs about AddressSpace and the lists of DList, for a space of any    *)
(* size, any alignment, any sizes asked for and lists of any length.       *)
(*                                                                         *)
(* A list is shown to stand in a line: sq[1 .. n] are its nodes in the     *)
(* order of _next (Line), they tile a range (Tiled), and _prev leads       *)
(* somewhere to the left (Back), though seldom to the left neighbour.      *)
(* Each operation of dlinklist.h and space.h makes of such a list such a   *)
(* list, or follows a bad pointer; ASIInv says the rest.  What a recursive *)
(* function computes is shown step by step (UpTo, IteratesExist).          *)
(***************************************************************************)
EXTENDS AddressSpace, FiniteSetsExt, FiniteSetTheorems, WellFoundedInduction, TLAPS

-----------------------------------------------------------------------------
(* Numbers, as in StructureProofs *)

LEMMA MinIsLeast ==
    ASSUME NEW S \in SUBSET Nat, S # {}
    PROVE  Min(S) \in S /\ \A k \in S : Min(S) <= k
  <1>1. PICK m \in S : \A k \in S : ~(<<k, m>> \in OpToRel(<, Nat))
    BY WFMin, NatLessThanWellFounded
  <1>2. ASSUME NEW k \in S, k < m  PROVE FALSE
    <2>1. <<k, m>> \in OpToRel(<, Nat)
      BY <1>2, Zenon DEF OpToRel
    <2> QED  BY <1>1, <2>1
  <1>3. \E j \in S : \A k \in S : j <= k
    BY <1>2
  <1> QED  BY <1>3 DEF Min

(* Quotient and remainder, by names the provers do not look into. *)
Quot(n, s) == n \div s
Over(n, s) == n % s

(* A number, its part of s and what is over. *)
LEMMA DivMod ==
    ASSUME NEW n \in Nat, NEW s \in Nat \ {0}
    PROVE  /\ Quot(n, s) \in Nat /\ Over(n, s) \in 0 .. s - 1
           /\ n = Quot(n, s) * s + Over(n, s)
  BY DEF Quot, Over

(* Runs of s numbers do not meet. *)
LEMMA MulApart ==
    ASSUME NEW a \in Nat, NEW b \in Nat, NEW s \in Nat, a < b
    PROVE  a * s + s <= b * s
  <1>1. PICK d \in Nat : b = a + 1 + d
    <2>1. b - a - 1 \in Nat
      OBVIOUS
    <2> QED  BY <2>1
  <1>2. b * s = a * s + s + d * s
    BY <1>1
  <1>3. d * s \in Nat /\ a * s \in Nat /\ b * s \in Nat
    OBVIOUS
  <1> QED  BY <1>2, <1>3

(* What holds of 0 and passes from each number to the next holds up to n. *)
LEMMA UpTo ==
    ASSUME NEW n \in Nat, NEW S, 0 \in S, \A k \in 0 .. n - 1 : k \in S => k + 1 \in S
    PROVE  \A k \in 0 .. n : k \in S
  <1> DEFINE Bad == {k \in 0 .. n : k \notin S}
  <1> SUFFICES ASSUME Bad # {}  PROVE FALSE
    OBVIOUS
  <1>1. PICK m \in Bad : \A k \in Bad : m <= k
    <2>1. Bad \in SUBSET Nat
      OBVIOUS
    <2> HIDE DEF Bad
    <2> QED  BY <2>1, MinIsLeast
  <1>2. m \in 0 .. n /\ m # 0
    BY <1>1
  <1>3. m - 1 \in 0 .. n - 1 /\ m - 1 \notin Bad
    BY <1>1, <1>2
  <1>4. m - 1 \in S
    BY <1>2, <1>3
  <1>5. m - 1 + 1 \in S
    BY <1>3, <1>4
  <1> QED  BY <1>1, <1>2, <1>5

(* f begins with x and takes n steps of F. *)
Iterates(f, F, S, x, n) ==
    /\ f \in [0 .. n -> S]
    /\ f[0] = x
    /\ \A k \in 1 .. n : f[k] = F[<<f[k - 1], k>>]

(* A function can be iterated. *)
LEMMA IteratesExist ==
    ASSUME NEW n \in Nat, NEW S, NEW x \in S, NEW F \in [S \X (1 .. n) -> S]
    PROVE  \E f : Iterates(f, F, S, x, n)
  <1> DEFINE Good == {m \in 0 .. n : \E f : Iterates(f, F, S, x, m)}
  <1>1. 0 \in Good
    <2> DEFINE w == [k \in 0 .. 0 |-> x]
    <2>1. Iterates(w, F, S, x, 0)
      BY DEF Iterates
    <2> QED  BY <2>1
  <1>2. ASSUME NEW m \in 0 .. n - 1, m \in Good  PROVE m + 1 \in Good
    <2>1. PICK w : Iterates(w, F, S, x, m)
      BY <1>2
    <2> DEFINE y == F[<<w[m], m + 1>>]
               v == [k \in 0 .. m + 1 |-> IF k = m + 1 THEN y ELSE w[k]]
    <2>2. w \in [0 .. m -> S] /\ w[m] \in S /\ m + 1 \in 1 .. n
      BY <2>1 DEF Iterates
    <2>3. y \in S
      BY <2>2
    <2> HIDE DEF y
    <2>4. v \in [0 .. m + 1 -> S]
      BY <2>2, <2>3
    <2>5. v[0] = x
      BY <2>1 DEF Iterates
    <2>6. ASSUME NEW k \in 1 .. m + 1  PROVE v[k] = F[<<v[k - 1], k>>]
      <3>1. v[k - 1] = w[k - 1]
        OBVIOUS
      <3>2. CASE k = m + 1
        <4>1. v[k] = y /\ v[k - 1] = w[m]
          BY <3>1, <3>2
        <4> QED  BY <3>2, <4>1 DEF y
      <3>3. CASE k # m + 1
        <4>1. k \in 1 .. m /\ v[k] = w[k]
          BY <3>3
        <4>2. w[k] = F[<<w[k - 1], k>>]
          BY <2>1, <4>1 DEF Iterates
        <4> QED  BY <3>1, <4>1, <4>2
      <3> QED  BY <3>2, <3>3
    <2>7. Iterates(v, F, S, x, m + 1)
      <3> HIDE DEF v
      <3> QED  BY <2>4, <2>5, <2>6 DEF Iterates
    <2> QED  BY <2>2, <2>7
  <1>3. \A k \in 0 .. n : k \in Good
    <2> HIDE DEF Good
    <2> QED  BY <1>1, <1>2, UpTo
  <1> QED  BY <1>3

-----------------------------------------------------------------------------
(* Lists whose nodes stand in a line *)

(* sq is the n nodes of l in the order of _next. *)
Line(l, sq, n) ==
    /\ n \in Nat \ {0}
    /\ sq \in [1 .. n -> Nodes(l)]
    /\ \A i, j \in 1 .. n : sq[i] = sq[j] => i = j
    /\ \A x \in Nodes(l) : \E i \in 1 .. n : x = sq[i]
    /\ 0 \notin Nodes(l)
    /\ l.first = sq[1] /\ l.last = sq[n]
    /\ \A i \in 1 .. n : NextOf(l, sq[i]) = IF i = n THEN 0 ELSE sq[i + 1]

LEMMA LineCount ==
    ASSUME NEW l, NEW sq, NEW n, Line(l, sq, n)
    PROVE  Cardinality(Nodes(l)) = n /\ IsFiniteSet(Nodes(l))
  <1>1. n \in Nat
    BY DEF Line
  <1>2. sq \in Bijection(1 .. n, Nodes(l))
    BY DEF Line, Bijection, Injection, Surjection, IsInjective
  <1>3. ExistsBijection(1 .. n, Nodes(l))
    BY <1>2 DEF ExistsBijection
  <1>4. Cardinality(Nodes(l)) = n
    BY <1>1, <1>3, FS_CountingElements
  <1>5. IsFiniteSet(Nodes(l))
    BY <1>1, <1>3, FS_NatBijection
  <1> QED  BY <1>4, <1>5

(* at goes through what n steps of Search see. *)
Searches(at, step, x, S, n) ==
    /\ at[0] = x
    /\ \A k \in 1 .. n : at[k] = IF at[k - 1] \in DOMAIN step \ S THEN step[at[k - 1]]
                                 ELSE at[k - 1]

LEMMA SearchDef ==
    ASSUME NEW step, NEW x, NEW S, NEW n \in Nat, n = Cardinality(DOMAIN step)
    PROVE  \E at : Searches(at, step, x, S, n) /\ Search(step, x, S) = at[n]
  <1> DEFINE T == {x} \cup {step[y] : y \in DOMAIN step}
             F == [z \in T \X (1 .. n) |->
                     IF z[1] \in DOMAIN step \ S THEN step[z[1]] ELSE z[1]]
             G(w) == [k \in 0 .. n |->
                        IF k = 0 THEN x
                        ELSE LET y == w[k - 1] IN IF y \in DOMAIN step \ S THEN step[y] ELSE y]
             at == CHOOSE w : w = G(w)
  <1>1. F \in [T \X (1 .. n) -> T]
    OBVIOUS
  <1>2. PICK w : Iterates(w, F, T, x, n)
    <2>1. x \in T
      OBVIOUS
    <2> HIDE DEF F, T
    <2> QED  BY <1>1, <2>1, IteratesExist
  <1>3. w = G(w)
    <2>1. w \in [0 .. n -> T] /\ w[0] = x
      BY <1>2 DEF Iterates
    <2>2. ASSUME NEW k \in 1 .. n
          PROVE  w[k] = IF w[k - 1] \in DOMAIN step \ S THEN step[w[k - 1]] ELSE w[k - 1]
      <3>1. w[k - 1] \in T
        BY <2>1
      <3>2. w[k] = F[<<w[k - 1], k>>]
        BY <1>2 DEF Iterates
      <3> QED  BY <3>1, <3>2
    <2>3. \A k \in 0 .. n : w[k] = G(w)[k]
      BY <2>1, <2>2
    <2> HIDE DEF T
    <2> QED  BY <2>1, <2>3
  <1>4. at = G(at)
    <2> HIDE DEF G
    <2> QED  BY <1>3
  <1>5. Search(step, x, S) = at[n]
    BY DEF Search
  <1>6. Searches(at, step, x, S, n)
    <2> HIDE DEF at
    <2>1. \A k \in 0 .. n : at[k] = G(at)[k]
      <3> HIDE DEF G
      <3> QED  BY <1>4
    <2>2. at[0] = x
      BY <2>1
    <2>3. \A k \in 1 .. n : at[k] = IF at[k - 1] \in DOMAIN step \ S THEN step[at[k - 1]]
                                    ELSE at[k - 1]
      BY <2>1
    <2> QED  BY <2>2, <2>3 DEF Searches
  <1> HIDE DEF at
  <1> QED  BY <1>5, <1>6

(* r is the first of sq[i] .. sq[n] that is in S, or 0. *)
Finds(sq, n, i, S, r) ==
    \/ r = 0 /\ \A k \in i .. n : sq[k] \notin S
    \/ \E j \in i .. n : r = sq[j] /\ sq[j] \in S /\ \A k \in i .. j - 1 : sq[k] \notin S

LEMMA FirstFromFinds ==
    ASSUME NEW l, NEW sq, NEW n, Line(l, sq, n), NEW i \in 1 .. n, NEW S
    PROVE  Finds(sq, n, i, S, FirstFrom(l, sq[i], S))
  <1> DEFINE step == [y \in Nodes(l) |-> NextOf(l, y)]
  <1>1. /\ n \in Nat \ {0} /\ sq \in [1 .. n -> Nodes(l)] /\ 0 \notin Nodes(l)
        /\ \A j \in 1 .. n : NextOf(l, sq[j]) = IF j = n THEN 0 ELSE sq[j + 1]
    BY DEF Line
  <1>2. DOMAIN step = Nodes(l) /\ Cardinality(DOMAIN step) = n
    BY LineCount
  <1>3. PICK at : Searches(at, step, sq[i], S, n) /\ FirstFrom(l, sq[i], S) = at[n]
    <2>1. FirstFrom(l, sq[i], S) = Search(step, sq[i], S)
      BY DEF FirstFrom
    <2> HIDE DEF step
    <2> QED  BY <1>1, <1>2, <2>1, SearchDef
  <1> DEFINE Good == {k \in 0 .. n :
                        \/ at[k] = 0 /\ \A h \in i .. n : sq[h] \notin S
                        \/ \E j \in i .. n : /\ at[k] = sq[j]
                                             /\ sq[j] \in S \/ j = i + k
                                             /\ \A h \in i .. j - 1 : sq[h] \notin S}
  <1>4. 0 \in Good
    <2>1. at[0] = sq[i]
      BY <1>3 DEF Searches
    <2> QED  BY <1>1, <2>1
  <1>5. ASSUME NEW k \in 0 .. n - 1, k \in Good  PROVE k + 1 \in Good
    <2>1. at[k + 1] = IF at[k] \in Nodes(l) \ S THEN NextOf(l, at[k]) ELSE at[k]
      <3>1. k + 1 \in 1 .. n /\ (k + 1) - 1 = k
        BY <1>1
      <3>2. at[k + 1] = IF at[k] \in DOMAIN step \ S THEN step[at[k]] ELSE at[k]
        <4> HIDE DEF step
        <4> QED  BY <1>3, <3>1 DEF Searches
      <3> QED  BY <3>2
    <2>2. CASE at[k] = 0 /\ \A h \in i .. n : sq[h] \notin S
      BY <1>1, <2>1, <2>2
    <2>3. CASE \E j \in i .. n : /\ at[k] = sq[j]
                                 /\ sq[j] \in S \/ j = i + k
                                 /\ \A h \in i .. j - 1 : sq[h] \notin S
      <3>1. PICK j \in i .. n : /\ at[k] = sq[j]
                                /\ sq[j] \in S \/ j = i + k
                                /\ \A h \in i .. j - 1 : sq[h] \notin S
        BY <2>3
      <3>2. CASE sq[j] \in S
        <4>1. at[k + 1] = sq[j]
          BY <2>1, <3>1, <3>2
        <4> QED  BY <1>1, <3>1, <3>2, <4>1
      <3>3. CASE sq[j] \notin S
        <4>1. j = i + k /\ j \in 1 .. n /\ sq[j] \in Nodes(l) \ S
          BY <1>1, <3>1, <3>3
        <4>2. at[k + 1] = IF j = n THEN 0 ELSE sq[j + 1]
          BY <1>1, <2>1, <3>1, <4>1
        <4>3. \A h \in i .. j : sq[h] \notin S
          BY <1>1, <3>1, <3>3
        <4>4. CASE j = n
          BY <1>1, <4>2, <4>3, <4>4
        <4>5. CASE j # n
          <5>1. j + 1 \in i .. n /\ (j + 1) - 1 = j /\ j + 1 = i + (k + 1)
            BY <1>1, <3>1, <4>1, <4>5
          <5>2. at[k + 1] = sq[j + 1] /\ \A h \in i .. (j + 1) - 1 : sq[h] \notin S
            BY <4>2, <4>3, <4>5, <5>1
          <5> QED  BY <1>1, <5>1, <5>2
        <4> QED  BY <4>4, <4>5
      <3> QED  BY <3>2, <3>3
    <2> QED  BY <1>5, <2>2, <2>3
  <1>6. n \in Good
    <2>1. \A k \in 0 .. n : k \in Good
      <3> HIDE DEF Good
      <3> QED  BY <1>1, <1>4, <1>5, UpTo
    <2> HIDE DEF Good
    <2> QED  BY <1>1, <2>1
  <1>7. Finds(sq, n, i, S, at[n])
    BY <1>1, <1>6 DEF Finds
  <1> QED  BY <1>3, <1>7

(* Every _prev leads to an earlier node. *)
Back(l, sq, n) ==
    /\ PrevOf(l, sq[1]) = 0
    /\ \A i \in 2 .. n : \E j \in 1 .. i - 1 : PrevOf(l, sq[i]) = sq[j]

LEMMA LastUpToFinds ==
    ASSUME NEW l, NEW sq, NEW n, Line(l, sq, n), Back(l, sq, n), NEW S
    PROVE  LastUpTo(l, l.last, S) = 0 \/ LastUpTo(l, l.last, S) \in S \cap Nodes(l)
  <1> DEFINE step == [y \in Nodes(l) |-> PrevOf(l, y)]
  <1>1. /\ n \in Nat \ {0} /\ sq \in [1 .. n -> Nodes(l)] /\ 0 \notin Nodes(l)
        /\ l.last = sq[n]
    BY DEF Line
  <1>2. DOMAIN step = Nodes(l) /\ Cardinality(DOMAIN step) = n
    BY LineCount
  <1>3. PICK at : Searches(at, step, sq[n], S, n) /\ LastUpTo(l, l.last, S) = at[n]
    <2>1. LastUpTo(l, l.last, S) = Search(step, sq[n], S)
      BY <1>1 DEF LastUpTo
    <2> HIDE DEF step
    <2> QED  BY <1>1, <1>2, <2>1, SearchDef
  <1> DEFINE Good == {k \in 0 .. n : \/ at[k] = 0
                                     \/ at[k] \in S \cap Nodes(l)
                                     \/ \E j \in 1 .. n - k : at[k] = sq[j]}
  <1>4. 0 \in Good
    <2>1. at[0] = sq[n]
      BY <1>3 DEF Searches
    <2> QED  BY <1>1, <2>1
  <1>5. ASSUME NEW k \in 0 .. n - 1, k \in Good  PROVE k + 1 \in Good
    <2>1. at[k + 1] = IF at[k] \in Nodes(l) \ S THEN PrevOf(l, at[k]) ELSE at[k]
      <3>1. k + 1 \in 1 .. n /\ (k + 1) - 1 = k
        BY <1>1
      <3>2. at[k + 1] = IF at[k] \in DOMAIN step \ S THEN step[at[k]] ELSE at[k]
        <4> HIDE DEF step
        <4> QED  BY <1>3, <3>1 DEF Searches
      <3> QED  BY <3>2
    <2>2. CASE at[k] = 0 \/ at[k] \in S \cap Nodes(l)
      BY <1>1, <2>1, <2>2
    <2>3. CASE at[k] \notin S /\ \E j \in 1 .. n - k : at[k] = sq[j]
      <3>1. PICK j \in 1 .. n - k : at[k] = sq[j]
        BY <2>3
      <3>2. j \in 1 .. n /\ at[k + 1] = PrevOf(l, sq[j])
        BY <1>1, <2>1, <2>3, <3>1
      <3>3. CASE j = 1
        BY <1>1, <3>2, <3>3 DEF Back
      <3>4. CASE j # 1
        <4>1. PICK h \in 1 .. j - 1 : PrevOf(l, sq[j]) = sq[h]
          BY <3>2, <3>4 DEF Back
        <4>2. h \in 1 .. n - (k + 1)
          BY <1>1, <3>1, <4>1
        <4> QED  BY <1>1, <3>2, <4>1, <4>2
      <3> QED  BY <3>3, <3>4
    <2>4. at[k] \in S => \A j \in 1 .. n - k : at[k] = sq[j] => at[k] \in S \cap Nodes(l)
      BY <1>1
    <2> QED  BY <1>5, <2>2, <2>3, <2>4
  <1>6. n \in Good
    <2>1. \A k \in 0 .. n : k \in Good
      <3> HIDE DEF Good
      <3> QED  BY <1>1, <1>4, <1>5, UpTo
    <2> HIDE DEF Good
    <2> QED  BY <1>1, <2>1
  <1> QED  BY <1>1, <1>3, <1>6

-----------------------------------------------------------------------------
(* Lists that tile a range *)

(* The nodes of the line cover b to b + s without holes or overlaps. *)
Tiled(l, sq, n, b, s) ==
    /\ b \in Nat /\ s \in Nat
    /\ \A x \in Nodes(l) : Field(l, x).base \in Nat /\ Field(l, x).size \in Nat
    /\ Field(l, sq[1]).base = b
    /\ End(l, sq[n]) = b + s
    /\ \A i \in 1 .. n - 1 : Field(l, sq[i + 1]).base = End(l, sq[i])

LEMMA EndIs ==
    ASSUME NEW l, NEW sq, NEW n, NEW b, NEW s, Tiled(l, sq, n, b, s), NEW x \in Nodes(l)
    PROVE  /\ Field(l, x).base \in Nat /\ Field(l, x).size \in Nat /\ End(l, x) \in Nat
           /\ End(l, x) = Field(l, x).base + Field(l, x).size
           /\ Field(l, x).base <= End(l, x)
  BY DEF Tiled, End

LEMMA TiledOrder ==
    ASSUME NEW l, NEW sq, NEW n, NEW b, NEW s, Line(l, sq, n), Tiled(l, sq, n, b, s),
           NEW i \in 1 .. n, NEW j \in 1 .. n, i < j
    PROVE  End(l, sq[i]) <= Field(l, sq[j]).base
  <1>1. n \in Nat /\ sq \in [1 .. n -> Nodes(l)]
    BY DEF Line
  <1>2. \A k \in 1 .. n : /\ Field(l, sq[k]).base \in Nat /\ End(l, sq[k]) \in Nat
                          /\ Field(l, sq[k]).base <= End(l, sq[k])
    BY <1>1, EndIs
  <1>3. \A k \in 1 .. n - 1 : Field(l, sq[k + 1]).base = End(l, sq[k])
    BY DEF Tiled
  <1> DEFINE Good == {d \in 0 .. j - i - 1 : End(l, sq[i]) <= Field(l, sq[i + 1 + d]).base}
  <1>4. 0 \in Good
    <2>1. i + 1 + 0 = i + 1 /\ i \in 1 .. n - 1 /\ 0 \in 0 .. j - i - 1
      BY <1>1
    <2>2. End(l, sq[i]) <= Field(l, sq[i + 1]).base
      BY <1>2, <1>3, <2>1
    <2> QED  BY <2>1, <2>2
  <1>5. ASSUME NEW d \in 0 .. (j - i - 1) - 1, d \in Good  PROVE d + 1 \in Good
    <2> DEFINE k == i + 1 + d
    <2>1. k \in 1 .. n - 1 /\ k \in 1 .. n /\ k + 1 \in 1 .. n /\ k + 1 = i + 1 + (d + 1)
          /\ d + 1 \in 0 .. j - i - 1
      BY <1>1
    <2>2. End(l, sq[i]) <= Field(l, sq[k]).base
      BY <1>5
    <2> HIDE DEF k
    <2>3. End(l, sq[i]) <= Field(l, sq[k + 1]).base
      BY <1>2, <1>3, <2>1, <2>2
    <2> QED  BY <2>1, <2>3
  <1>6. j - i - 1 \in Nat /\ i + 1 + (j - i - 1) = j
    BY <1>1
  <1>7. j - i - 1 \in Good
    <2>1. \A d \in 0 .. j - i - 1 : d \in Good
      <3> HIDE DEF Good
      <3> DEFINE w == j - i - 1
      <3>1. w \in Nat /\ 0 \in Good /\ \A d \in 0 .. w - 1 : d \in Good => d + 1 \in Good
        BY <1>4, <1>5, <1>6
      <3> HIDE DEF w
      <3>2. \A d \in 0 .. w : d \in Good
        BY <3>1, UpTo
      <3> QED  BY <3>2 DEF w
    <2> HIDE DEF Good
    <2> QED  BY <1>6, <2>1
  <1> QED  BY <1>6, <1>7

LEMMA TiledBounds ==
    ASSUME NEW l, NEW sq, NEW n, NEW b, NEW s, Line(l, sq, n), Tiled(l, sq, n, b, s),
           NEW x \in Nodes(l)
    PROVE  b <= Field(l, x).base /\ End(l, x) <= b + s
  <1>1. n \in Nat \ {0} /\ sq \in [1 .. n -> Nodes(l)] /\ b \in Nat /\ s \in Nat
        /\ Field(l, sq[1]).base = b /\ End(l, sq[n]) = b + s
    BY DEF Line, Tiled
  <1>2. PICK i \in 1 .. n : x = sq[i]
    BY DEF Line
  <1>3. \A k \in 1 .. n : /\ Field(l, sq[k]).base \in Nat /\ End(l, sq[k]) \in Nat
                          /\ Field(l, sq[k]).base <= End(l, sq[k])
    BY <1>1, EndIs
  <1>4. 1 \in 1 .. n /\ n \in 1 .. n
    BY <1>1
  <1>5. b <= Field(l, x).base
    <2>1. CASE i = 1
      BY <1>1, <1>2, <2>1
    <2>2. CASE i # 1
      <3>1. End(l, sq[1]) <= Field(l, sq[i]).base
        BY <1>4, <2>2, TiledOrder
      <3> QED  BY <1>1, <1>2, <1>3, <1>4, <3>1
    <2> QED  BY <2>1, <2>2
  <1>6. End(l, x) <= b + s
    <2>1. CASE i = n
      BY <1>1, <1>2, <2>1
    <2>2. CASE i # n
      <3>1. End(l, sq[i]) <= Field(l, sq[n]).base
        BY <1>1, <1>4, <2>2, TiledOrder
      <3> QED  BY <1>1, <1>2, <1>3, <1>4, <3>1
    <2> QED  BY <2>1, <2>2
  <1> QED  BY <1>5, <1>6

LEMMA LineTiles ==
    ASSUME NEW l, NEW sq, NEW n, NEW b, NEW s, Line(l, sq, n), Tiled(l, sq, n, b, s)
    PROVE  Tiles(l, b, s)
  <1>1. /\ n \in Nat \ {0} /\ sq \in [1 .. n -> Nodes(l)] /\ 0 \notin Nodes(l)
        /\ l.first = sq[1] /\ l.last = sq[n]
        /\ \A i \in 1 .. n : NextOf(l, sq[i]) = IF i = n THEN 0 ELSE sq[i + 1]
        /\ \A i, j \in 1 .. n : sq[i] = sq[j] => i = j
        /\ \A x \in Nodes(l) : \E i \in 1 .. n : x = sq[i]
    BY DEF Line
  <1>2. ASSUME NEW x \in Nodes(l)  PROVE FirstFrom(l, l.first, {x}) = x
    <2>1. PICK i \in 1 .. n : x = sq[i]
      BY <1>1
    <2>2. Finds(sq, n, 1, {x}, FirstFrom(l, sq[1], {x}))
      BY <1>1, FirstFromFinds
    <2> QED  BY <1>1, <2>1, <2>2 DEF Finds
  <1>3. ASSUME NEW x \in Nodes(l)
        PROVE  /\ NextOf(l, x) = 0 <=> x = l.last
               /\ NextOf(l, x) # 0 => /\ NextOf(l, x) \in Nodes(l)
                                      /\ Field(l, NextOf(l, x)).base = End(l, x)
    <2>1. PICK i \in 1 .. n : x = sq[i]
      BY <1>1
    <2>2. CASE i = n
      BY <1>1, <2>1, <2>2
    <2>3. CASE i # n
      <3>1. i \in 1 .. n - 1 /\ i + 1 \in 1 .. n /\ n \in 1 .. n
        BY <1>1, <2>3
      <3>2. NextOf(l, x) = sq[i + 1] /\ sq[i + 1] \in Nodes(l) /\ x # sq[n]
        BY <1>1, <2>1, <2>3, <3>1
      <3>3. Field(l, sq[i + 1]).base = End(l, sq[i])
        BY <3>1 DEF Tiled
      <3> QED  BY <1>1, <2>1, <3>2, <3>3
    <2> QED  BY <2>2, <2>3
  <1>4. Field(l, l.first).base = b /\ End(l, l.last) = b + s
    BY <1>1 DEF Tiled
  <1> QED  BY <1>2, <1>3, <1>4 DEF Tiles

(* Address a lies in node x. *)
At(l, x, a) == x \in Nodes(l) /\ Field(l, x).base <= a /\ a < End(l, x)

LEMMA AtOnce ==
    ASSUME NEW l, NEW sq, NEW n, NEW b, NEW s, Line(l, sq, n), Tiled(l, sq, n, b, s),
           NEW a \in Int, NEW x, NEW y, At(l, x, a), At(l, y, a)
    PROVE  x = y
  <1>1. n \in Nat \ {0} /\ sq \in [1 .. n -> Nodes(l)]
    BY DEF Line
  <1>2. PICK i \in 1 .. n : x = sq[i]
    BY DEF Line, At
  <1>3. PICK j \in 1 .. n : y = sq[j]
    BY DEF Line, At
  <1>4. \A k \in 1 .. n : Field(l, sq[k]).base \in Nat /\ End(l, sq[k]) \in Nat
    BY <1>1, EndIs
  <1>5. ~(i < j)
    <2> SUFFICES ASSUME i < j  PROVE FALSE
      OBVIOUS
    <2>1. End(l, sq[i]) <= Field(l, sq[j]).base
      BY TiledOrder
    <2> QED  BY <1>2, <1>3, <1>4, <2>1 DEF At
  <1>6. ~(j < i)
    <2> SUFFICES ASSUME j < i  PROVE FALSE
      OBVIOUS
    <2>1. End(l, sq[j]) <= Field(l, sq[i]).base
      BY TiledOrder
    <2> QED  BY <1>2, <1>3, <1>4, <2>1 DEF At
  <1> QED  BY <1>1, <1>2, <1>3, <1>5, <1>6

(* r is the node in which a lies, which is sq[i] or behind it, or 0. *)
LiesIn(l, sq, n, i, a, e, r) ==
    \/ r = 0 /\ e <= a
    \/ a < e /\ \E j \in i .. n : r = sq[j] /\ At(l, r, a)

LEMMA EndsAfterIs ==
    ASSUME NEW l, NEW sq, NEW n, NEW b, NEW s, Line(l, sq, n), Tiled(l, sq, n, b, s),
           NEW i \in 1 .. n, NEW a \in Nat, Field(l, sq[i]).base <= a
    PROVE  LiesIn(l, sq, n, i, a, b + s, EndsAfter(l, sq[i], a))
  <1> DEFINE S == {y \in Nodes(l) : End(l, y) > a}
  <1>1. n \in Nat \ {0} /\ sq \in [1 .. n -> Nodes(l)] /\ b \in Nat /\ s \in Nat
        /\ End(l, sq[n]) = b + s /\ 0 \notin Nodes(l)
        /\ \A k \in 1 .. n - 1 : Field(l, sq[k + 1]).base = End(l, sq[k])
    BY DEF Line, Tiled
  <1>2. \A k \in 1 .. n : /\ Field(l, sq[k]).base \in Nat /\ End(l, sq[k]) \in Nat
                          /\ Field(l, sq[k]).base <= End(l, sq[k])
    BY <1>1, EndIs
  <1>3. PICK r : r = EndsAfter(l, sq[i], a)
    OBVIOUS
  <1>4. Finds(sq, n, i, S, r)
    <2>1. r = FirstFrom(l, sq[i], S)
      BY <1>3 DEF EndsAfter
    <2> HIDE DEF S
    <2> QED  BY <2>1, FirstFromFinds
  <1>5. \A k \in 1 .. n : sq[k] \in S <=> a < End(l, sq[k])
    BY <1>1, <1>2
  <1> HIDE DEF S
  <1>6. CASE r = 0 /\ \A k \in i .. n : sq[k] \notin S
    <2>1. n \in i .. n /\ n \in 1 .. n
      BY <1>1
    <2>2. ~(a < End(l, sq[n]))
      BY <1>5, <1>6, <2>1
    <2> QED  BY <1>1, <1>3, <1>6, <2>2 DEF LiesIn
  <1>7. CASE \E j \in i .. n : r = sq[j] /\ sq[j] \in S /\ \A k \in i .. j - 1 : sq[k] \notin S
    <2>1. PICK j \in i .. n : r = sq[j] /\ sq[j] \in S /\ \A k \in i .. j - 1 : sq[k] \notin S
      BY <1>7
    <2>2. j \in 1 .. n /\ sq[j] \in Nodes(l) /\ a < End(l, sq[j])
      BY <1>1, <1>5, <2>1
    <2>3. Field(l, sq[j]).base <= a
      <3>1. CASE j = i
        BY <3>1
      <3>2. CASE j # i
        <4>1. j - 1 \in i .. j - 1 /\ j - 1 \in 1 .. n - 1 /\ j - 1 \in 1 .. n /\ (j - 1) + 1 = j
          BY <1>1, <2>1, <3>2
        <4>2. Field(l, sq[j]).base = End(l, sq[j - 1])
          BY <1>1, <4>1
        <4>3. ~(a < End(l, sq[j - 1]))
          BY <1>5, <2>1, <4>1
        <4> QED  BY <1>2, <4>1, <4>2, <4>3
      <3> QED  BY <3>1, <3>2
    <2>4. End(l, sq[j]) <= b + s
      BY <2>2, TiledBounds
    <2>5. a < b + s
      BY <1>1, <1>2, <2>2, <2>4
    <2> QED  BY <1>3, <2>1, <2>2, <2>3, <2>5 DEF LiesIn, At
  <1> QED  BY <1>4, <1>6, <1>7 DEF Finds

(* The same from the first node. *)
LEMMA FirstEndsAfter ==
    ASSUME NEW l, NEW sq, NEW n, NEW b, NEW s, Line(l, sq, n), Tiled(l, sq, n, b, s),
           NEW a \in b .. b + s - 1
    PROVE  At(l, EndsAfter(l, l.first, a), a)
  <1>1. n \in Nat \ {0} /\ l.first = sq[1] /\ b \in Nat /\ s \in Nat /\ Field(l, sq[1]).base = b
    BY DEF Line, Tiled
  <1>2. 1 \in 1 .. n /\ a \in Nat /\ Field(l, sq[1]).base <= a
    BY <1>1
  <1>3. LiesIn(l, sq, n, 1, a, b + s, EndsAfter(l, sq[1], a))
    BY <1>2, EndsAfterIs
  <1> QED  BY <1>1, <1>3 DEF LiesIn

-----------------------------------------------------------------------------
(* What the operations do to a list *)

(* Lists whose fields are in F, and one that is put together from its parts. *)
Lists(F) == [first : Nat, last : Nat, fate : {"ok", "null", "dangling"}, made : Nat,
             node : UNION {[D -> [f : F, prev : Nat, next : Nat]] : D \in SUBSET (Nat \ {0})}]

LEMMA ListFacts ==
    ASSUME NEW F, NEW l \in Lists(F)
    PROVE  /\ l = [first |-> l.first, last |-> l.last, fate |-> l.fate, made |-> l.made,
                   node |-> l.node]
           /\ l.first \in Nat /\ l.last \in Nat /\ l.made \in Nat
           /\ l.fate \in {"ok", "null", "dangling"}
           /\ Nodes(l) \in SUBSET (Nat \ {0})
           /\ l.node \in [Nodes(l) -> [f : F, prev : Nat, next : Nat]]
           /\ \A x \in Nodes(l) :
                 /\ Field(l, x) \in F /\ PrevOf(l, x) \in Nat /\ NextOf(l, x) \in Nat
                 /\ l.node[x] = [f |-> Field(l, x), prev |-> PrevOf(l, x), next |-> NextOf(l, x)]
  <1>1. /\ l.node \in UNION {[D -> [f : F, prev : Nat, next : Nat]] : D \in SUBSET (Nat \ {0})}
        /\ l.first \in Nat /\ l.last \in Nat /\ l.made \in Nat
        /\ l.fate \in {"ok", "null", "dangling"}
        /\ l = [first |-> l.first, last |-> l.last, fate |-> l.fate, made |-> l.made,
                node |-> l.node]
    BY DEF Lists
  <1>2. PICK D \in SUBSET (Nat \ {0}) : l.node \in [D -> [f : F, prev : Nat, next : Nat]]
    BY <1>1
  <1>3. D = Nodes(l)
    BY <1>2 DEF Nodes
  <1>4. \A x \in D : /\ l.node[x] \in [f : F, prev : Nat, next : Nat]
                     /\ l.node[x] = [f |-> l.node[x].f, prev |-> l.node[x].prev,
                                     next |-> l.node[x].next]
    BY <1>2
  <1> QED  BY <1>1, <1>2, <1>3, <1>4 DEF Field, PrevOf, NextOf

ListOf(first, last, fate, made, D, f, prev, next) ==
    [first |-> first, last |-> last, fate |-> fate, made |-> made,
     node |-> [x \in D |-> [f |-> f[x], prev |-> prev[x], next |-> next[x]]]]

(* m has the nodes D, whose fields are f, prev and next. *)
Made(m, D, f, prev, next) ==
    /\ Nodes(m) = D
    /\ \A x \in D : /\ Field(m, x) = f[x]
                    /\ PrevOf(m, x) = prev[x]
                    /\ NextOf(m, x) = next[x]

LEMMA MadeList ==
    ASSUME NEW F, NEW D \in SUBSET (Nat \ {0}), NEW f \in [D -> F],
           NEW prev \in [D -> Nat], NEW next \in [D -> Nat],
           NEW first \in Nat, NEW last \in Nat, NEW fate \in {"ok", "null", "dangling"},
           NEW made \in Nat
    PROVE  /\ ListOf(first, last, fate, made, D, f, prev, next) \in Lists(F)
           /\ Made(ListOf(first, last, fate, made, D, f, prev, next), D, f, prev, next)
  <1> DEFINE m == ListOf(first, last, fate, made, D, f, prev, next)
             nd == [x \in D |-> [f |-> f[x], prev |-> prev[x], next |-> next[x]]]
  <1>1. nd \in [D -> [f : F, prev : Nat, next : Nat]]
    OBVIOUS
  <1>2. nd \in UNION {[C -> [f : F, prev : Nat, next : Nat]] : C \in SUBSET (Nat \ {0})}
    <2> HIDE DEF nd
    <2> QED  BY <1>1
  <1>3. m.node = nd
    BY DEF ListOf
  <1>4. m \in Lists(F)
    <2>1. m = [first |-> first, last |-> last, fate |-> fate, made |-> made, node |-> nd]
      BY DEF ListOf
    <2> HIDE DEF nd, m
    <2> QED  BY <1>2, <2>1 DEF Lists
  <1>5. Made(m, D, f, prev, next)
    <2> HIDE DEF m
    <2> QED  BY <1>3 DEF Made, Nodes, Field, PrevOf, NextOf
  <1> QED  BY <1>4, <1>5

(* Only the fields of x have changed. *)
FieldSet(m, l, x, f) ==
    /\ Nodes(m) = Nodes(l)
    /\ m.first = l.first /\ m.last = l.last /\ m.fate = l.fate /\ m.made = l.made
    /\ Field(m, x) = f
    /\ \A y \in Nodes(l) : /\ y # x => Field(m, y) = Field(l, y)
                           /\ PrevOf(m, y) = PrevOf(l, y) /\ NextOf(m, y) = NextOf(l, y)

LEMMA SetFieldDoes ==
    ASSUME NEW F, NEW l \in Lists(F), NEW x \in Nodes(l), NEW f \in F
    PROVE  SetField(l, x, f) \in Lists(F) /\ FieldSet(SetField(l, x, f), l, x, f)
  <1> DEFINE D == Nodes(l)
             fs == [y \in D |-> IF y = x THEN f ELSE Field(l, y)]
             ps == [y \in D |-> PrevOf(l, y)]
             ns == [y \in D |-> NextOf(l, y)]
             nd == [y \in D |-> [f |-> fs[y], prev |-> ps[y], next |-> ns[y]]]
             m == SetField(l, x, f)
  <1>1. D \in SUBSET (Nat \ {0}) /\ fs \in [D -> F] /\ ps \in [D -> Nat] /\ ns \in [D -> Nat]
        /\ l.first \in Nat /\ l.last \in Nat /\ l.made \in Nat
        /\ l.fate \in {"ok", "null", "dangling"}
    BY ListFacts
  <1>2. [l.node EXCEPT ![x] = [@ EXCEPT !.f = f]] = nd
    <2>1. l.node \in [D -> [f : F, prev : Nat, next : Nat]]
      BY ListFacts
    <2>2. \A y \in D : l.node[y] = [f |-> Field(l, y), prev |-> PrevOf(l, y), next |-> NextOf(l, y)]
      BY ListFacts
    <2>3. ASSUME NEW y \in D
          PROVE  (IF y = x THEN [l.node[y] EXCEPT !.f = f] ELSE l.node[y])
                   = [f |-> fs[y], prev |-> ps[y], next |-> ns[y]]
      <3>1. [l.node[y] EXCEPT !.f = f] = [f |-> f, prev |-> PrevOf(l, y), next |-> NextOf(l, y)]
        <4> DEFINE r == [f |-> Field(l, y), prev |-> PrevOf(l, y), next |-> NextOf(l, y)]
        <4>1. [l.node[y] EXCEPT !.f = f] = [r EXCEPT !.f = f]
          BY <2>2, Zenon
        <4>2. [r EXCEPT !.f = f] = [f |-> f, prev |-> PrevOf(l, y), next |-> NextOf(l, y)]
          OBVIOUS
        <4> QED  BY <4>1, <4>2
      <3> QED  BY <2>2, <3>1
    <2>4. [l.node EXCEPT ![x] = [@ EXCEPT !.f = f]]
            = [y \in D |-> IF y = x THEN [l.node[y] EXCEPT !.f = f] ELSE l.node[y]]
      BY <2>1
    <2> HIDE DEF fs, ps, ns, D
    <2> QED  BY <2>3, <2>4
  <1>3. m = [first |-> l.first, last |-> l.last, fate |-> l.fate, made |-> l.made, node |-> nd]
    <2>1. m = [l EXCEPT !.node = [l.node EXCEPT ![x] = [@ EXCEPT !.f = f]]]
      BY DEF SetField
    <2>2. l = [first |-> l.first, last |-> l.last, fate |-> l.fate, made |-> l.made,
               node |-> l.node]
      BY ListFacts
    <2> HIDE DEF nd, m
    <2> QED  BY <1>2, <2>1, <2>2
  <1>4. m \in Lists(F) /\ Made(m, D, fs, ps, ns)
    <2>1. m = ListOf(l.first, l.last, l.fate, l.made, D, fs, ps, ns)
      BY <1>3 DEF ListOf
    <2> HIDE DEF D, fs, ps, ns, m
    <2> QED  BY <1>1, <2>1, MadeList
  <1>5. m.first = l.first /\ m.last = l.last /\ m.fate = l.fate /\ m.made = l.made
    BY <1>3
  <1> HIDE DEF m
  <1>6. FieldSet(m, l, x, f)
    BY <1>4, <1>5 DEF FieldSet, Made
  <1> QED  BY <1>4, <1>6 DEF m

(* new has been put behind self. *)
Inserted(m, l, self, new, f) ==
    /\ Nodes(m) = Nodes(l) \cup {new}
    /\ m.first = l.first /\ m.fate = l.fate /\ m.made = new
    /\ m.last = IF NextOf(l, self) = 0 THEN new ELSE l.last
    /\ Field(m, new) = f /\ PrevOf(m, new) = self /\ NextOf(m, new) = NextOf(l, self)
    /\ NextOf(m, self) = new
    /\ \A y \in Nodes(l) : /\ Field(m, y) = Field(l, y) /\ PrevOf(m, y) = PrevOf(l, y)
                           /\ y # self => NextOf(m, y) = NextOf(l, y)

LEMMA linkNextDoes ==
    ASSUME NEW F, NEW l \in Lists(F), NEW self \in Nodes(l), NEW new \in Nat \ {0},
           new \notin Nodes(l), NEW f \in F
    PROVE  /\ linkNext(l, self, new, f) \in Lists(F)
           /\ Inserted(linkNext(l, self, new, f), l, self, new, f)
  <1> DEFINE D == Nodes(l) \cup {new}
             fs == [y \in D |-> IF y = new THEN f ELSE Field(l, y)]
             ps == [y \in D |-> IF y = new THEN self ELSE PrevOf(l, y)]
             ns == [y \in D |-> IF y = new THEN NextOf(l, self)
                                ELSE IF y = self THEN new ELSE NextOf(l, y)]
             nd == [y \in D |-> [f |-> fs[y], prev |-> ps[y], next |-> ns[y]]]
             m == linkNext(l, self, new, f)
             lst == IF NextOf(l, self) = 0 THEN new ELSE l.last
  <1>1. D \in SUBSET (Nat \ {0}) /\ fs \in [D -> F] /\ ps \in [D -> Nat] /\ ns \in [D -> Nat]
        /\ l.first \in Nat /\ lst \in Nat /\ l.fate \in {"ok", "null", "dangling"}
    BY ListFacts
  <1>2. [x \in Nodes(l) \cup {new} |->
            IF x = new THEN [f |-> f, prev |-> self, next |-> NextOf(l, self)]
            ELSE IF x = self THEN [l.node[x] EXCEPT !.next = new]
            ELSE l.node[x]] = nd
    <2>2. \A y \in Nodes(l) :
             l.node[y] = [f |-> Field(l, y), prev |-> PrevOf(l, y), next |-> NextOf(l, y)]
      BY ListFacts
    <2>3. ASSUME NEW y \in D
          PROVE  (IF y = new THEN [f |-> f, prev |-> self, next |-> NextOf(l, self)]
                  ELSE IF y = self THEN [l.node[y] EXCEPT !.next = new] ELSE l.node[y])
                   = [f |-> fs[y], prev |-> ps[y], next |-> ns[y]]
      <3>1. CASE y = new
        BY <3>1
      <3>2. CASE y # new
        <4>1. y \in Nodes(l)
          BY <3>2
        <4>2. [l.node[y] EXCEPT !.next = new]
                = [f |-> Field(l, y), prev |-> PrevOf(l, y), next |-> new]
          <5> DEFINE r == [f |-> Field(l, y), prev |-> PrevOf(l, y), next |-> NextOf(l, y)]
          <5>1. [l.node[y] EXCEPT !.next = new] = [r EXCEPT !.next = new]
            BY <2>2, <4>1, Zenon
          <5>2. [r EXCEPT !.next = new]
                  = [f |-> Field(l, y), prev |-> PrevOf(l, y), next |-> new]
            OBVIOUS
          <5> QED  BY <5>1, <5>2
        <4> QED  BY <2>2, <3>2, <4>1, <4>2
      <3> QED  BY <3>1, <3>2
    <2> HIDE DEF fs, ps, ns
    <2> QED  BY <2>3
  <1>3. m = [first |-> l.first, last |-> lst, fate |-> l.fate, made |-> new, node |-> nd]
    <2>1. m = [l EXCEPT !.last = lst, !.made = new,
                        !.node = [x \in Nodes(l) \cup {new} |->
                          IF x = new THEN [f |-> f, prev |-> self, next |-> NextOf(l, self)]
                          ELSE IF x = self THEN [@[x] EXCEPT !.next = new]
                          ELSE @[x]]]
      BY DEF linkNext
    <2>2. l = [first |-> l.first, last |-> l.last, fate |-> l.fate, made |-> l.made,
               node |-> l.node]
      BY ListFacts
    <2> HIDE DEF nd, m, lst
    <2> QED  BY <1>2, <2>1, <2>2
  <1>4. m \in Lists(F) /\ Made(m, D, fs, ps, ns)
    <2>1. m = ListOf(l.first, lst, l.fate, new, D, fs, ps, ns)
      BY <1>3 DEF ListOf
    <2> HIDE DEF D, fs, ps, ns, m, lst
    <2> QED  BY <1>1, <2>1, MadeList
  <1>5. m.first = l.first /\ m.last = lst /\ m.fate = l.fate /\ m.made = new
    BY <1>3
  <1> HIDE DEF m
  <1>6. Inserted(m, l, self, new, f)
    BY <1>4, <1>5 DEF Inserted, Made
  <1> QED  BY <1>4, <1>6 DEF m

(* The node n behind p has been taken out, whose _prev and _next are pp and nn. *)
Removed(m, l, n, pp, nn) ==
    /\ Nodes(m) = Nodes(l) \ {n}
    /\ m.fate = l.fate /\ m.made = l.made
    /\ m.first = IF pp = 0 THEN nn ELSE l.first
    /\ m.last = IF nn = 0 THEN pp ELSE l.last
    /\ \A y \in Nodes(m) : /\ Field(m, y) = Field(l, y)
                           /\ PrevOf(m, y) = IF y = nn THEN pp ELSE PrevOf(l, y)
                           /\ NextOf(m, y) = IF y = pp THEN nn ELSE NextOf(l, y)

LEMMA unlinkDoes ==
    ASSUME NEW F, NEW l \in Lists(F), NEW n \in Nodes(l)
    PROVE  /\ unlink(l, n) \in Lists(F)
           /\ \/ /\ unlink(l, n).fate = "dangling" /\ unlink(l, n).made = l.made
                 /\ Nodes(unlink(l, n)) = Nodes(l)
                 /\ \A y \in Nodes(l) : Field(unlink(l, n), y) = Field(l, y)
              \/ Removed(unlink(l, n), l, n, PrevOf(l, n), NextOf(l, n))
  <1> DEFINE p == PrevOf(l, n)
             x == NextOf(l, n)
             m == unlink(l, n)
  <1>1. /\ Nodes(l) \in SUBSET (Nat \ {0}) /\ p \in Nat /\ x \in Nat
        /\ l.first \in Nat /\ l.last \in Nat /\ l.made \in Nat
        /\ l.fate \in {"ok", "null", "dangling"}
        /\ l = [first |-> l.first, last |-> l.last, fate |-> l.fate, made |-> l.made,
                node |-> l.node]
        /\ \A y \in Nodes(l) : Field(l, y) \in F /\ PrevOf(l, y) \in Nat /\ NextOf(l, y) \in Nat
    BY ListFacts
  <1>2. CASE \E y \in {p, x} \ {0} : y \notin Nodes(l)
    <2>1. m = [l EXCEPT !.fate = "dangling"]
      BY <1>2 DEF unlink
    <2>2. m = [first |-> l.first, last |-> l.last, fate |-> "dangling", made |-> l.made,
               node |-> l.node]
      <3> HIDE DEF m
      <3> QED  BY <1>1, <2>1
    <2>3. m \in Lists(F)
      <3> HIDE DEF m
      <3>1. l.node \in UNION {[D -> [f : F, prev : Nat, next : Nat]] : D \in SUBSET (Nat \ {0})}
        BY DEF Lists
      <3> QED  BY <1>1, <2>2, <3>1 DEF Lists
    <2>4. m.fate = "dangling" /\ m.made = l.made /\ m.node = l.node
      <3> HIDE DEF m
      <3> QED  BY <2>2
    <2> HIDE DEF m
    <2> QED  BY <2>3, <2>4 DEF m, Nodes, Field
  <1>3. CASE ~\E y \in {p, x} \ {0} : y \notin Nodes(l)
    <2> DEFINE D == Nodes(l) \ {n}
               fs == [y \in D |-> Field(l, y)]
               ps == [y \in D |-> IF y = x THEN p ELSE PrevOf(l, y)]
               ns == [y \in D |-> IF y = p THEN x ELSE NextOf(l, y)]
               fst == IF p = 0 THEN x ELSE l.first
               lst == IF x = 0 THEN p ELSE l.last
               nd == [y \in D |-> [f |-> Field(l, y),
                                   prev |-> IF y = x THEN p ELSE PrevOf(l, y),
                                   next |-> IF y = p THEN x ELSE NextOf(l, y)]]
    <2>1. D \in SUBSET (Nat \ {0}) /\ fs \in [D -> F] /\ ps \in [D -> Nat] /\ ns \in [D -> Nat]
          /\ fst \in Nat /\ lst \in Nat
      <3> HIDE DEF p, x
      <3> QED  BY <1>1
    <2>2. m = [l EXCEPT !.first = fst, !.last = lst, !.node = nd]
      BY <1>3 DEF unlink
    <2>3. m = [first |-> fst, last |-> lst, fate |-> l.fate, made |-> l.made, node |-> nd]
      <3> HIDE DEF m, fst, lst, nd
      <3> QED  BY <1>1, <2>2
    <2>4. nd = [y \in D |-> [f |-> fs[y], prev |-> ps[y], next |-> ns[y]]]
      <3> HIDE DEF p, x
      <3> QED  OBVIOUS
    <2>5. m = ListOf(fst, lst, l.fate, l.made, D, fs, ps, ns)
      <3> HIDE DEF m, fst, lst, nd, D, fs, ps, ns
      <3> QED  BY <2>3, <2>4 DEF ListOf
    <2>6. m \in Lists(F) /\ Made(m, D, fs, ps, ns)
      <3> HIDE DEF m, fst, lst, nd, D, fs, ps, ns
      <3> QED  BY <1>1, <2>1, <2>5, MadeList
    <2>7. m.first = fst /\ m.last = lst /\ m.fate = l.fate /\ m.made = l.made
      <3> HIDE DEF m, fst, lst, nd
      <3> QED  BY <2>3
    <2>8. Removed(m, l, n, p, x)
      <3> HIDE DEF m, p, x
      <3> QED  BY <2>6, <2>7 DEF Removed, Made
    <2> HIDE DEF m
    <2> QED  BY <2>6, <2>8 DEF m
  <1> QED  BY <1>2, <1>3

LEMMA FollowDoes ==
    ASSUME NEW F, NEW l \in Lists(F), NEW p
    PROVE  /\ Follow(l, p) \in Lists(F)
           /\ Follow(l, p).made = l.made /\ Nodes(Follow(l, p)) = Nodes(l)
           /\ \A y \in Nodes(l) : Field(Follow(l, p), y) = Field(l, y)
           /\ Follow(l, p).fate = "ok" => Follow(l, p) = l /\ l.fate = "ok" /\ p \in Nodes(l)
           /\ l.fate = "ok" /\ p \in Nodes(l) => Follow(l, p) = l
  <1> DEFINE m == Follow(l, p)
  <1>1. /\ l.first \in Nat /\ l.last \in Nat /\ l.made \in Nat
        /\ l.fate \in {"ok", "null", "dangling"}
        /\ l = [first |-> l.first, last |-> l.last, fate |-> l.fate, made |-> l.made,
                node |-> l.node]
    BY ListFacts
  <1>2. CASE l.fate = "ok" /\ p \notin Nodes(l)
    <2>1. m = [l EXCEPT !.fate = Fate(p)] /\ Fate(p) \in {"null", "dangling"}
      BY <1>2 DEF Follow, Fate
    <2>2. m = [first |-> l.first, last |-> l.last, fate |-> Fate(p), made |-> l.made,
               node |-> l.node]
      <3> HIDE DEF m
      <3> QED  BY <1>1, <2>1
    <2>3. m \in Lists(F)
      <3> HIDE DEF m
      <3>1. l.node \in UNION {[D -> [f : F, prev : Nat, next : Nat]] : D \in SUBSET (Nat \ {0})}
        BY DEF Lists
      <3> QED  BY <1>1, <2>1, <2>2, <3>1 DEF Lists
    <2>4. m.fate = Fate(p) /\ m.made = l.made /\ m.node = l.node
      <3> HIDE DEF m
      <3> QED  BY <2>2
    <2> HIDE DEF m
    <2> QED  BY <1>2, <2>1, <2>3, <2>4 DEF m, Nodes, Field
  <1>3. CASE ~(l.fate = "ok" /\ p \notin Nodes(l))
    <2>1. m = l
      BY <1>3 DEF Follow
    <2> HIDE DEF m
    <2> QED  BY <1>3, <2>1 DEF m
  <1> QED  BY <1>2, <1>3

-----------------------------------------------------------------------------
(* A node is split *)

(* The nodes are those that have been made. *)
Numbered(l) == Nodes(l) \subseteq 1 .. l.made

(* Fields with a base and a size that may be changed. *)
Ranges(F) ==
    \A f \in F :
       /\ f.base \in Nat /\ f.size \in Nat
       /\ [f EXCEPT !.size = f.size] = f
       /\ \A a, w \in Nat : [[f EXCEPT !.size = a] EXCEPT !.size = w] = [f EXCEPT !.size = w]
       /\ \A a, w \in Nat :
             /\ [f EXCEPT !.size = w] \in F
             /\ [f EXCEPT !.size = w].base = f.base /\ [f EXCEPT !.size = w].size = w
             /\ [f EXCEPT !.base = a, !.size = w] \in F
             /\ [f EXCEPT !.base = a, !.size = w].base = a
             /\ [f EXCEPT !.base = a, !.size = w].size = w

(* The line with new behind sq[i]. *)
Spliced(sq, n, i, new) ==
    [j \in 1 .. n + 1 |-> IF j <= i THEN sq[j] ELSE IF j = i + 1 THEN new ELSE sq[j - 1]]

LEMMA SplicedFacts ==
    ASSUME NEW n \in Nat, NEW i \in 1 .. n, NEW sq, NEW new
    PROVE  /\ \A j \in 1 .. i : Spliced(sq, n, i, new)[j] = sq[j]
           /\ Spliced(sq, n, i, new)[i + 1] = new
           /\ \A j \in i + 1 .. n : Spliced(sq, n, i, new)[j + 1] = sq[j]
           /\ \A k \in 1 .. n + 1 : \/ k \in 1 .. i
                                    \/ k = i + 1
                                    \/ \E j \in i + 1 .. n : k = j + 1
  <1>1. ASSUME NEW k \in 1 .. n + 1, k \notin 1 .. i, k # i + 1
        PROVE  \E j \in i + 1 .. n : k = j + 1
    <2>1. k - 1 \in i + 1 .. n /\ k = (k - 1) + 1
      BY <1>1
    <2> QED  BY <2>1
  <1>2. \A j \in i + 1 .. n : j + 1 \in 1 .. n + 1 /\ ~(j + 1 <= i) /\ j + 1 # i + 1
                              /\ (j + 1) - 1 = j
    OBVIOUS
  <1>3. i + 1 \in 1 .. n + 1 /\ ~(i + 1 <= i) /\ \A j \in 1 .. i : j \in 1 .. n + 1
    OBVIOUS
  <1> QED  BY <1>1, <1>2, <1>3 DEF Spliced

LEMMA InsertLine ==
    ASSUME NEW l, NEW m, NEW sq, NEW n, Line(l, sq, n), NEW i \in 1 .. n,
           NEW new \in Nat \ {0}, new \notin Nodes(l), NEW f, Inserted(m, l, sq[i], new, f)
    PROVE  /\ Line(m, Spliced(sq, n, i, new), n + 1)
           /\ Back(l, sq, n) => Back(m, Spliced(sq, n, i, new), n + 1)
  <1> DEFINE t == Spliced(sq, n, i, new)
  <1>1. /\ n \in Nat \ {0} /\ sq \in [1 .. n -> Nodes(l)] /\ 0 \notin Nodes(l)
        /\ l.first = sq[1] /\ l.last = sq[n]
        /\ \A j \in 1 .. n : NextOf(l, sq[j]) = IF j = n THEN 0 ELSE sq[j + 1]
        /\ \A j, k \in 1 .. n : sq[j] = sq[k] => j = k
        /\ \A x \in Nodes(l) : \E j \in 1 .. n : x = sq[j]
    BY DEF Line
  <1>2. /\ \A j \in 1 .. i : t[j] = sq[j]
        /\ t[i + 1] = new
        /\ \A j \in i + 1 .. n : t[j + 1] = sq[j]
        /\ \A k \in 1 .. n + 1 : \/ k \in 1 .. i
                                 \/ k = i + 1
                                 \/ \E j \in i + 1 .. n : k = j + 1
    BY <1>1, SplicedFacts
  <1>3. /\ Nodes(m) = Nodes(l) \cup {new}
        /\ m.first = l.first /\ m.last = IF NextOf(l, sq[i]) = 0 THEN new ELSE l.last
        /\ PrevOf(m, new) = sq[i] /\ NextOf(m, new) = NextOf(l, sq[i])
        /\ NextOf(m, sq[i]) = new
        /\ \A y \in Nodes(l) : /\ PrevOf(m, y) = PrevOf(l, y)
                               /\ y # sq[i] => NextOf(m, y) = NextOf(l, y)
    BY DEF Inserted
  <1>4. t \in [1 .. n + 1 -> Nodes(m)]
    <2>1. DOMAIN t = 1 .. n + 1 /\ t = [j \in 1 .. n + 1 |-> t[j]]
      BY DEF Spliced
    <2>2. ASSUME NEW k \in 1 .. n + 1  PROVE t[k] \in Nodes(m)
      <3> HIDE DEF t
      <3>1. CASE k \in 1 .. i
        BY <1>1, <1>2, <1>3, <3>1
      <3>2. CASE k = i + 1
        BY <1>2, <1>3, <3>2
      <3>3. CASE \E j \in i + 1 .. n : k = j + 1
        <4>1. PICK j \in i + 1 .. n : k = j + 1
          BY <3>3
        <4>2. j \in 1 .. n
          BY <1>1
        <4>3. t[k] = sq[j]
          BY <1>2, <4>1
        <4> QED  BY <1>1, <1>3, <4>2, <4>3
      <3> QED  BY <1>2, <3>1, <3>2, <3>3
    <2> HIDE DEF t
    <2> QED  BY <2>1, <2>2
  <1> HIDE DEF t
  <1>5. ASSUME NEW j \in 1 .. n + 1, NEW k \in 1 .. n + 1, t[j] = t[k]  PROVE j = k
    <2>1. \A h \in i + 1 .. n : h \in 1 .. n /\ h \notin 1 .. i /\ h # i
      BY <1>1
    <2>2. \A h \in 1 .. i : h \in 1 .. n
      BY <1>1
    <2>3. \A h \in 1 .. n : sq[h] # new
      BY <1>1
    <2>4. \/ j \in 1 .. i /\ t[j] = sq[j]
          \/ j = i + 1 /\ t[j] = new
          \/ \E h \in i + 1 .. n : j = h + 1 /\ t[j] = sq[h]
      BY <1>2
    <2>5. \/ k \in 1 .. i /\ t[k] = sq[k]
          \/ k = i + 1 /\ t[k] = new
          \/ \E h \in i + 1 .. n : k = h + 1 /\ t[k] = sq[h]
      BY <1>2
    <2>6. CASE j \in 1 .. i /\ t[j] = sq[j]
      BY <1>1, <1>5, <2>1, <2>2, <2>3, <2>5, <2>6
    <2>7. CASE j = i + 1 /\ t[j] = new
      BY <1>5, <2>1, <2>2, <2>3, <2>5, <2>7
    <2>8. CASE \E h \in i + 1 .. n : j = h + 1 /\ t[j] = sq[h]
      BY <1>1, <1>5, <2>1, <2>2, <2>3, <2>5, <2>8
    <2> QED  BY <2>4, <2>6, <2>7, <2>8
  <1>6. ASSUME NEW x \in Nodes(m)  PROVE \E k \in 1 .. n + 1 : x = t[k]
    <2>1. CASE x = new
      <3>1. i + 1 \in 1 .. n + 1
        BY <1>1
      <3> QED  BY <1>2, <2>1, <3>1
    <2>2. CASE x # new
      <3>1. PICK j \in 1 .. n : x = sq[j]
        BY <1>1, <1>3, <2>2
      <3>2. CASE j \in 1 .. i
        BY <1>1, <1>2, <3>1, <3>2
      <3>3. CASE j \in i + 1 .. n
        <4>1. j + 1 \in 1 .. n + 1
          BY <1>1, <3>3
        <4> QED  BY <1>2, <3>1, <3>3, <4>1
      <3> QED  BY <1>1, <3>1, <3>2, <3>3
    <2> QED  BY <2>1, <2>2
  <1>7. ASSUME NEW k \in 1 .. n + 1
        PROVE  NextOf(m, t[k]) = IF k = n + 1 THEN 0 ELSE t[k + 1]
    <2>1. CASE k \in 1 .. i /\ k # i
      <3>1. k \in 1 .. n /\ k # n /\ k + 1 \in 1 .. i /\ k # n + 1 /\ i \in 1 .. n
        BY <1>1, <2>1
      <3>2. sq[k] # sq[i] /\ sq[k] \in Nodes(l)
        BY <1>1, <2>1, <3>1
      <3> QED  BY <1>1, <1>2, <1>3, <2>1, <3>1, <3>2
    <2>2. CASE k = i
      <3>1. k # n + 1 /\ i \in 1 .. i
        BY <1>1, <2>2
      <3> QED  BY <1>2, <1>3, <2>2, <3>1
    <2>3. CASE k = i + 1
      <3>1. NextOf(m, t[k]) = IF i = n THEN 0 ELSE sq[i + 1]
        BY <1>1, <1>2, <1>3, <2>3
      <3>2. i # n => i + 1 \in i + 1 .. n /\ k + 1 = (i + 1) + 1 /\ k # n + 1
        BY <1>1, <2>3
      <3>3. i = n => k = n + 1
        BY <2>3
      <3> QED  BY <1>2, <3>1, <3>2, <3>3
    <2>4. CASE \E j \in i + 1 .. n : k = j + 1
      <3>1. PICK j \in i + 1 .. n : k = j + 1
        BY <2>4
      <3>2. j \in 1 .. n /\ i \in 1 .. n /\ j # i /\ (j = n <=> k = n + 1)
            /\ (j # n => j + 1 \in i + 1 .. n /\ k + 1 = (j + 1) + 1)
        BY <1>1, <3>1
      <3>3. sq[j] # sq[i] /\ sq[j] \in Nodes(l) /\ t[k] = sq[j]
        BY <1>1, <1>2, <3>1, <3>2
      <3>4. NextOf(m, t[k]) = IF j = n THEN 0 ELSE sq[j + 1]
        BY <1>1, <1>3, <3>2, <3>3
      <3> QED  BY <1>2, <3>2, <3>4
    <2> QED  BY <1>2, <2>1, <2>2, <2>3, <2>4
  <1>8. m.first = t[1] /\ m.last = t[n + 1]
    <2>1. 1 \in 1 .. i /\ i \in 1 .. n
      BY <1>1
    <2>2. CASE i = n
      BY <1>1, <1>2, <1>3, <2>1, <2>2
    <2>3. CASE i # n
      <3>1. n \in i + 1 .. n /\ i + 1 \in 1 .. n /\ NextOf(l, sq[i]) = sq[i + 1]
        BY <1>1, <2>3
      <3>2. sq[i + 1] # 0
        BY <1>1, <3>1
      <3> QED  BY <1>1, <1>2, <1>3, <2>1, <3>1, <3>2
    <2> QED  BY <2>2, <2>3
  <1>9. Line(m, t, n + 1)
    <2>1. n + 1 \in Nat \ {0} /\ 0 \notin Nodes(m)
      BY <1>1, <1>3
    <2> QED  BY <1>4, <1>5, <1>6, <1>7, <1>8, <2>1 DEF Line
  <1>10. ASSUME Back(l, sq, n)  PROVE Back(m, t, n + 1)
    <2>1. PrevOf(m, t[1]) = 0
      <3>1. 1 \in 1 .. i /\ 1 \in 1 .. n
        BY <1>1
      <3> QED  BY <1>1, <1>2, <1>3, <1>10, <3>1 DEF Back
    <2>2. ASSUME NEW k \in 2 .. n + 1  PROVE \E j \in 1 .. k - 1 : PrevOf(m, t[k]) = t[j]
      <3>1. CASE k \in 1 .. i
        <4>1. k \in 2 .. n /\ k \in 1 .. n
          BY <1>1, <3>1
        <4>2. PICK j \in 1 .. k - 1 : PrevOf(l, sq[k]) = sq[j]
          BY <1>10, <4>1 DEF Back
        <4>3. j \in 1 .. i
          BY <1>1, <3>1, <4>2
        <4>4. PrevOf(m, t[k]) = t[j]
          BY <1>1, <1>2, <1>3, <3>1, <4>1, <4>2, <4>3
        <4> QED  BY <4>4
      <3>2. CASE k = i + 1
        <4>1. i \in 1 .. k - 1 /\ i \in 1 .. i
          BY <1>1, <3>2
        <4> QED  BY <1>2, <1>3, <3>2, <4>1
      <3>3. CASE \E h \in i + 1 .. n : k = h + 1
        <4>1. PICK h \in i + 1 .. n : k = h + 1
          BY <3>3
        <4>2. h \in 2 .. n /\ h \in 1 .. n
          BY <1>1, <4>1
        <4>3. PICK j \in 1 .. h - 1 : PrevOf(l, sq[h]) = sq[j]
          BY <1>10, <4>2 DEF Back
        <4>4. PrevOf(m, t[k]) = sq[j]
          BY <1>1, <1>2, <1>3, <4>1, <4>2, <4>3
        <4>5. CASE j \in 1 .. i
          <5>1. j \in 1 .. k - 1
            BY <1>1, <4>1, <4>3
          <5> QED  BY <1>2, <4>4, <4>5, <5>1
        <4>6. CASE j \notin 1 .. i
          <5>1. j \in i + 1 .. n /\ j + 1 \in 1 .. k - 1
            BY <1>1, <4>1, <4>3, <4>6
          <5> QED  BY <1>2, <4>4, <5>1
        <4> QED  BY <4>5, <4>6
      <3>4. k \in 1 .. n + 1
        BY <1>1
      <3> QED  BY <1>2, <3>1, <3>2, <3>3, <3>4
    <2> QED  BY <2>1, <2>2 DEF Back
  <1> QED  BY <1>9, <1>10 DEF t

(* sq[i] keeps want, the rest is a new node behind it. *)
SplitInto(m, l, sq, n, i, want) ==
    LET new == NewNode(l)
        f   == Field(l, sq[i])
    IN  /\ Numbered(m) /\ m.made = new /\ m.fate = l.fate
        /\ Nodes(m) = Nodes(l) \cup {new} /\ new \notin Nodes(l)
        /\ NextOf(m, sq[i]) = new
        /\ Field(m, sq[i]) = [f EXCEPT !.size = want]
        /\ Field(m, new) = [f EXCEPT !.base = f.base + want, !.size = f.size - want]
        /\ \A y \in Nodes(l) \ {sq[i]} : Field(m, y) = Field(l, y)

LEMMA SplitDoes ==
    ASSUME NEW F, Ranges(F), NEW l \in Lists(F), Numbered(l),
           NEW sq, NEW n, NEW b, NEW s, Line(l, sq, n), Tiled(l, sq, n, b, s),
           NEW i \in 1 .. n, NEW want \in 0 .. Field(l, sq[i]).size
    PROVE  /\ SplitAt(l, sq[i], want) \in Lists(F)
           /\ SplitInto(SplitAt(l, sq[i], want), l, sq, n, i, want)
           /\ Line(SplitAt(l, sq[i], want), Spliced(sq, n, i, NewNode(l)), n + 1)
           /\ Tiled(SplitAt(l, sq[i], want), Spliced(sq, n, i, NewNode(l)), n + 1, b, s)
           /\ Back(l, sq, n) =>
                 Back(SplitAt(l, sq[i], want), Spliced(sq, n, i, NewNode(l)), n + 1)
  <1> DEFINE f  == Field(l, sq[i])
             f1 == [f EXCEPT !.size = want]
             f2 == [f EXCEPT !.base = f.base + want, !.size = f.size - want]
             new == NewNode(l)
             k == SetField(l, sq[i], f1)
             m == SplitAt(l, sq[i], want)
             t == Spliced(sq, n, i, new)
  <1>1. /\ n \in Nat \ {0} /\ sq \in [1 .. n -> Nodes(l)] /\ 0 \notin Nodes(l)
        /\ l.first = sq[1] /\ l.last = sq[n] /\ sq[i] \in Nodes(l)
    BY DEF Line
  <1>2. l.made \in Nat /\ f \in F
    BY <1>1, ListFacts
  <1>3. new \in Nat \ {0} /\ new \notin Nodes(l) /\ new = l.made + 1
    BY <1>2 DEF NewNode, Numbered
  <1>4. f.base \in Nat /\ f.size \in Nat /\ want \in Nat /\ want <= f.size
        /\ f.base + want \in Nat /\ f.size - want \in Nat
    <2>1. f.base \in Nat /\ f.size \in Nat
      <3> HIDE DEF f
      <3> QED  BY <1>2 DEF Ranges
    <2>2. want \in 0 .. f.size
      OBVIOUS
    <2> HIDE DEF f
    <2> QED  BY <2>1, <2>2
  <1>5. /\ f1 \in F /\ f1.base = f.base /\ f1.size = want
        /\ f2 \in F /\ f2.base = f.base + want /\ f2.size = f.size - want
    <2> DEFINE a == f.base + want
               w == f.size - want
    <2>1. a \in Nat /\ w \in Nat /\ want \in Nat /\ f \in F
      BY <1>2, <1>4
    <2> HIDE DEF f, a, w
    <2>2. /\ [f EXCEPT !.size = want] \in F
          /\ [f EXCEPT !.size = want].base = f.base /\ [f EXCEPT !.size = want].size = want
          /\ [f EXCEPT !.base = a, !.size = w] \in F
          /\ [f EXCEPT !.base = a, !.size = w].base = a
          /\ [f EXCEPT !.base = a, !.size = w].size = w
      <3>1. \A a1, w1 \in Nat :
               /\ [f EXCEPT !.size = w1] \in F
               /\ [f EXCEPT !.size = w1].base = f.base /\ [f EXCEPT !.size = w1].size = w1
               /\ [f EXCEPT !.base = a1, !.size = w1] \in F
               /\ [f EXCEPT !.base = a1, !.size = w1].base = a1
               /\ [f EXCEPT !.base = a1, !.size = w1].size = w1
        BY <2>1, Zenon DEF Ranges
      <3> QED  BY <2>1, <3>1, Zenon
    <2> QED  BY <2>2 DEF a, w
  <1> HIDE DEF f1, f2, new, f
  <1>6. k \in Lists(F) /\ FieldSet(k, l, sq[i], f1)
    BY <1>1, <1>5, SetFieldDoes
  <1>7. m = linkNext(k, sq[i], new, f2)
    BY DEF SplitAt, f, f1, f2, new
  <1> HIDE DEF k, m
  <1>8. Nodes(k) = Nodes(l) /\ Line(k, sq, n) /\ (Back(l, sq, n) => Back(k, sq, n))
    <2>1. /\ Nodes(k) = Nodes(l) /\ k.first = l.first /\ k.last = l.last
          /\ \A y \in Nodes(l) : PrevOf(k, y) = PrevOf(l, y) /\ NextOf(k, y) = NextOf(l, y)
      BY <1>6 DEF FieldSet
    <2>2. \A j \in 1 .. n : sq[j] \in Nodes(l) /\ PrevOf(k, sq[j]) = PrevOf(l, sq[j])
                            /\ NextOf(k, sq[j]) = NextOf(l, sq[j])
      BY <1>1, <2>1
    <2>3. Line(k, sq, n)
      BY <2>1, <2>2 DEF Line
    <2>4. 1 \in 1 .. n /\ \A j \in 2 .. n : j \in 1 .. n
      BY <1>1
    <2>5. Back(l, sq, n) => Back(k, sq, n)
      BY <2>2, <2>4 DEF Back
    <2> QED  BY <2>1, <2>3, <2>5
  <1>9. m \in Lists(F) /\ Inserted(m, k, sq[i], new, f2)
    BY <1>1, <1>3, <1>5, <1>6, <1>7, <1>8, linkNextDoes
  <1>10. Line(m, t, n + 1) /\ (Back(l, sq, n) => Back(m, t, n + 1))
    BY <1>3, <1>8, <1>9, InsertLine
  <1>11. SplitInto(m, l, sq, n, i, want)
    <2>1. /\ m.made = new /\ m.fate = l.fate /\ Nodes(m) = Nodes(l) \cup {new}
          /\ NextOf(m, sq[i]) = new /\ Field(m, sq[i]) = f1 /\ Field(m, new) = f2
          /\ \A y \in Nodes(l) \ {sq[i]} : Field(m, y) = Field(l, y)
      BY <1>1, <1>6, <1>8, <1>9 DEF Inserted, FieldSet
    <2>2. Numbered(m)
      <3>1. \A y \in Nodes(l) : y \in 1 .. l.made
        BY DEF Numbered
      <3> QED  BY <1>2, <1>3, <2>1, <3>1 DEF Numbered
    <2> QED  BY <1>3, <2>1, <2>2 DEF SplitInto, f, f1, f2, new
  <1>12. Tiled(m, t, n + 1, b, s)
    <2>1. /\ b \in Nat /\ s \in Nat /\ Field(l, sq[1]).base = b /\ End(l, sq[n]) = b + s
          /\ \A y \in Nodes(l) : Field(l, y).base \in Nat /\ Field(l, y).size \in Nat
          /\ \A j \in 1 .. n - 1 : Field(l, sq[j + 1]).base = End(l, sq[j])
      BY DEF Tiled
    <2>2. /\ Nodes(m) = Nodes(l) \cup {new} /\ Field(m, sq[i]) = f1 /\ Field(m, new) = f2
          /\ \A y \in Nodes(l) \ {sq[i]} : Field(m, y) = Field(l, y)
      BY <1>11 DEF SplitInto, f, f1, f2, new
    <2>3. /\ \A j \in 1 .. i : t[j] = sq[j]
          /\ t[i + 1] = new
          /\ \A j \in i + 1 .. n : t[j + 1] = sq[j]
          /\ \A k1 \in 1 .. n + 1 : \/ k1 \in 1 .. i
                                    \/ k1 = i + 1
                                    \/ \E j \in i + 1 .. n : k1 = j + 1
      BY <1>1, SplicedFacts
    <2>4. /\ Field(m, sq[i]).base = Field(l, sq[i]).base
          /\ End(m, sq[i]) = f.base + want
          /\ Field(m, new).base = f.base + want
          /\ End(m, new) = f.base + f.size /\ End(l, sq[i]) = f.base + f.size
      <3>1. End(m, sq[i]) = f1.base + f1.size /\ End(m, new) = f2.base + f2.size
            /\ End(l, sq[i]) = f.base + f.size
        BY <2>2 DEF End, f
      <3>2. f2.base + f2.size = f.base + f.size
        BY <1>4, <1>5
      <3> QED  BY <1>5, <2>2, <3>1, <3>2 DEF f
    <2>5. \A y \in Nodes(l) \ {sq[i]} : Field(m, y) = Field(l, y) /\ End(m, y) = End(l, y)
      BY <2>2 DEF End
    <2>6. \A j \in 1 .. n : j # i => sq[j] \in Nodes(l) \ {sq[i]}
      BY DEF Line
    <2>7. \A y \in Nodes(m) : Field(m, y).base \in Nat /\ Field(m, y).size \in Nat
      BY <1>4, <1>5, <2>1, <2>2
    <2>8. Field(m, t[1]).base = b
      <3>1. 1 \in 1 .. i /\ 1 \in 1 .. n
        BY <1>1
      <3> QED  BY <2>1, <2>3, <2>4, <2>5, <2>6, <3>1
    <2>9. End(m, t[n + 1]) = b + s
      <3>1. CASE i = n
        BY <2>1, <2>3, <2>4, <3>1
      <3>2. CASE i # n
        <4>1. n \in i + 1 .. n /\ n \in 1 .. n
          BY <1>1, <3>2
        <4> QED  BY <2>1, <2>3, <2>5, <2>6, <3>2, <4>1
      <3> QED  BY <3>1, <3>2
    <2>10. ASSUME NEW j \in 1 .. (n + 1) - 1  PROVE Field(m, t[j + 1]).base = End(m, t[j])
      <3>1. j \in 1 .. n /\ i \in 1 .. n
        BY <1>1
      <3>2. CASE j \in 1 .. i /\ j # i
        <4>1. j + 1 \in 1 .. i /\ j \in 1 .. n - 1 /\ j + 1 \in 1 .. n
          BY <1>1, <3>1, <3>2
        <4>2. Field(m, sq[j + 1]).base = Field(l, sq[j + 1]).base
          BY <2>4, <2>5, <2>6, <4>1
        <4>3. End(m, sq[j]) = End(l, sq[j])
          BY <2>5, <2>6, <3>1, <3>2
        <4> QED  BY <2>1, <2>3, <3>2, <4>1, <4>2, <4>3
      <3>3. CASE j = i
        <4>1. i \in 1 .. i
          BY <1>1
        <4> QED  BY <2>3, <2>4, <3>3, <4>1
      <3>4. CASE j = i + 1
        <4>1. i + 1 \in i + 1 .. n /\ i \in 1 .. n - 1 /\ i + 1 \in 1 .. n /\ i + 1 # i
          BY <1>1, <3>1, <3>4
        <4>2. Field(m, sq[i + 1]).base = End(l, sq[i])
          BY <2>1, <2>5, <2>6, <4>1
        <4> QED  BY <2>3, <2>4, <3>4, <4>1, <4>2
      <3>5. CASE \E h \in i + 1 .. n : j = h + 1
        <4>1. PICK h \in i + 1 .. n : j = h + 1
          BY <3>5
        <4>2. h \in 1 .. n - 1 /\ h + 1 \in i + 1 .. n /\ h + 1 \in 1 .. n /\ h \in 1 .. n
              /\ h # i /\ h + 1 # i /\ j + 1 = (h + 1) + 1
          BY <1>1, <3>1, <4>1
        <4>3. Field(m, sq[h + 1]).base = End(m, sq[h])
          BY <2>1, <2>5, <2>6, <4>2
        <4> QED  BY <2>3, <4>1, <4>2, <4>3
      <3>6. j \in 1 .. n + 1
        BY <1>1, <3>1
      <3> QED  BY <2>3, <3>2, <3>3, <3>4, <3>5, <3>6
    <2>11. \A j \in 1 .. (n + 1) - 1 : Field(m, t[j + 1]).base = End(m, t[j])
      BY <2>10
    <2> HIDE DEF t
    <2> QED  BY <2>1, <2>7, <2>8, <2>9, <2>11 DEF Tiled
  <1> QED  BY <1>9, <1>10, <1>11, <1>12 DEF m, new

-----------------------------------------------------------------------------
(* A node takes in the one behind it *)

(* The line without the node behind sq[i]. *)
Without(sq, n, i) == [j \in 1 .. n - 1 |-> IF j <= i THEN sq[j] ELSE sq[j + 1]]

LEMMA RemoveLine ==
    ASSUME NEW l, NEW m, NEW sq, NEW n, Line(l, sq, n), NEW i \in 1 .. n - 1,
           Removed(m, l, sq[i + 1], sq[i], NextOf(l, sq[i + 1]))
    PROVE  Line(m, Without(sq, n, i), n - 1)
  <1> DEFINE t == Without(sq, n, i)
             nn == NextOf(l, sq[i + 1])
  <1>1. /\ n \in Nat \ {0} /\ sq \in [1 .. n -> Nodes(l)] /\ 0 \notin Nodes(l)
        /\ l.first = sq[1] /\ l.last = sq[n]
        /\ \A j \in 1 .. n : NextOf(l, sq[j]) = IF j = n THEN 0 ELSE sq[j + 1]
        /\ \A j, k \in 1 .. n : sq[j] = sq[k] => j = k
        /\ \A x \in Nodes(l) : \E j \in 1 .. n : x = sq[j]
    BY DEF Line
  <1>2. /\ i \in 1 .. n /\ i + 1 \in 1 .. n /\ n - 1 \in Nat \ {0} /\ n - 1 + 1 = n
        /\ 1 \in 1 .. n /\ n \in 1 .. n
    BY <1>1
  <1>3. /\ Nodes(m) = Nodes(l) \ {sq[i + 1]}
        /\ m.first = IF sq[i] = 0 THEN nn ELSE l.first
        /\ m.last = IF nn = 0 THEN sq[i] ELSE l.last
        /\ \A y \in Nodes(m) : NextOf(m, y) = IF y = sq[i] THEN nn ELSE NextOf(l, y)
    BY DEF Removed
  <1>4. sq[i] # 0 /\ sq[i] \in Nodes(l) /\ nn = IF i + 1 = n THEN 0 ELSE sq[(i + 1) + 1]
    BY <1>1, <1>2
  <1>5. \A j \in 1 .. n - 1 : t[j] = IF j <= i THEN sq[j] ELSE sq[j + 1]
    BY DEF Without
  <1>6. ASSUME NEW j \in 1 .. n - 1
        PROVE  \E k \in 1 .. n : k # i + 1 /\ t[j] = sq[k] /\ k = IF j <= i THEN j ELSE j + 1
    <2>1. CASE j <= i
      <3>1. j \in 1 .. n /\ j # i + 1
        BY <1>1, <1>2, <2>1
      <3> QED  BY <1>5, <2>1, <3>1
    <2>2. CASE ~(j <= i)
      <3>1. j + 1 \in 1 .. n /\ j + 1 # i + 1
        BY <1>1, <1>2, <2>2
      <3> QED  BY <1>5, <2>2, <3>1
    <2> QED  BY <2>1, <2>2
  <1>7. t \in [1 .. n - 1 -> Nodes(m)]
    <2>1. t = [j \in 1 .. n - 1 |-> t[j]]
      BY DEF Without
    <2>2. ASSUME NEW j \in 1 .. n - 1  PROVE t[j] \in Nodes(m)
      <3> HIDE DEF t
      <3>1. PICK k \in 1 .. n : k # i + 1 /\ t[j] = sq[k]
        BY <1>6
      <3> QED  BY <1>1, <1>2, <1>3, <3>1
    <2> HIDE DEF t
    <2> QED  BY <2>1, <2>2
  <1> HIDE DEF t, nn
  <1>8. ASSUME NEW j \in 1 .. n - 1, NEW k \in 1 .. n - 1, t[j] = t[k]  PROVE j = k
    <2>1. PICK j1 \in 1 .. n : j1 # i + 1 /\ t[j] = sq[j1] /\ j1 = IF j <= i THEN j ELSE j + 1
      BY <1>6
    <2>2. PICK k1 \in 1 .. n : k1 # i + 1 /\ t[k] = sq[k1] /\ k1 = IF k <= i THEN k ELSE k + 1
      BY <1>6
    <2>3. j1 = k1
      <3>1. sq[j1] = sq[k1]
        BY <1>8, <2>1, <2>2
      <3> QED  BY <1>1, <3>1
    <2> QED  BY <1>2, <2>1, <2>2, <2>3
  <1>9. ASSUME NEW x \in Nodes(m)  PROVE \E j \in 1 .. n - 1 : x = t[j]
    <2>1. PICK k \in 1 .. n : x = sq[k]
      BY <1>1, <1>3
    <2>2. k # i + 1
      BY <1>3, <2>1
    <2>3. CASE k <= i
      <3>1. k \in 1 .. n - 1
        BY <1>1, <1>2, <2>3
      <3> QED  BY <1>5, <2>1, <2>3, <3>1
    <2>4. CASE ~(k <= i)
      <3>1. k - 1 \in 1 .. n - 1 /\ ~(k - 1 <= i) /\ (k - 1) + 1 = k
        BY <1>1, <1>2, <2>2, <2>4
      <3> QED  BY <1>5, <2>1, <3>1
    <2> QED  BY <2>3, <2>4
  <1>10. ASSUME NEW j \in 1 .. n - 1
         PROVE  NextOf(m, t[j]) = IF j = n - 1 THEN 0 ELSE t[j + 1]
    <2>1. t[j] \in Nodes(m)
      BY <1>7
    <2>2. CASE j = i
      <3>1. t[j] = sq[i] /\ NextOf(m, t[j]) = nn
        BY <1>2, <1>3, <1>5, <2>1, <2>2
      <3>2. CASE j = n - 1
        BY <1>2, <1>4, <2>2, <3>1, <3>2
      <3>3. CASE j # n - 1
        <4>1. j + 1 \in 1 .. n - 1 /\ ~(j + 1 <= i) /\ i + 1 # n
          BY <1>1, <1>2, <2>2, <3>3
        <4>2. t[j + 1] = sq[(i + 1) + 1]
          BY <1>5, <2>2, <4>1
        <4> QED  BY <1>4, <3>1, <3>3, <4>1, <4>2
      <3> QED  BY <3>2, <3>3
    <2>3. CASE j # i
      <3>1. PICK k \in 1 .. n : k # i + 1 /\ t[j] = sq[k] /\ k = IF j <= i THEN j ELSE j + 1
        BY <1>6
      <3>2. k # i /\ sq[k] # sq[i]
        BY <1>1, <1>2, <2>3, <3>1
      <3>3. NextOf(m, t[j]) = IF k = n THEN 0 ELSE sq[k + 1]
        BY <1>1, <1>3, <2>1, <3>1, <3>2
      <3>4. CASE j = n - 1
        <4>1. k = n
          BY <1>1, <1>2, <2>3, <3>1, <3>4
        <4> QED  BY <3>3, <3>4, <4>1
      <3>5. CASE j # n - 1
        <4>1. k # n /\ j + 1 \in 1 .. n - 1
          BY <1>1, <1>2, <2>3, <3>1, <3>5
        <4>2. t[j + 1] = sq[k + 1]
          <5>1. CASE j <= i
            <6>1. j + 1 <= i /\ k = j
              BY <1>2, <2>3, <3>1, <5>1
            <6> QED  BY <1>5, <4>1, <6>1
          <5>2. CASE ~(j <= i)
            <6>1. ~(j + 1 <= i) /\ k = j + 1
              BY <1>2, <3>1, <5>2
            <6> QED  BY <1>5, <4>1, <6>1
          <5> QED  BY <5>1, <5>2
        <4> QED  BY <3>3, <3>5, <4>1, <4>2
      <3> QED  BY <3>4, <3>5
    <2> QED  BY <2>2, <2>3
  <1>11. m.first = t[1] /\ m.last = t[n - 1]
    <2>1. 1 \in 1 .. n - 1 /\ 1 <= i /\ n - 1 \in 1 .. n - 1
      BY <1>1, <1>2
    <2>2. m.first = t[1]
      BY <1>1, <1>3, <1>4, <1>5, <2>1
    <2>3. CASE i + 1 = n
      <3>1. n - 1 <= i /\ n - 1 = i
        BY <1>2, <2>3
      <3> QED  BY <1>3, <1>4, <1>5, <2>1, <2>2, <2>3, <3>1
    <2>4. CASE i + 1 # n
      <3>1. ~(n - 1 <= i) /\ (i + 1) + 1 \in 1 .. n
        BY <1>1, <1>2, <2>4
      <3>2. nn # 0
        BY <1>1, <1>4, <2>4, <3>1
      <3> QED  BY <1>1, <1>2, <1>3, <1>5, <2>1, <2>2, <3>1, <3>2
    <2> QED  BY <2>3, <2>4
  <1>12. 0 \notin Nodes(m)
    BY <1>1, <1>3
  <1>13. Line(m, t, n - 1)
    BY <1>2, <1>7, <1>8, <1>9, <1>10, <1>11, <1>12 DEF Line
  <1> QED  BY <1>13 DEF t

(* After p = sq[i] has taken in some of the nodes behind it, rightly or not. *)
Shrunk(m, l, sq, i, e) ==
    /\ m.made = l.made /\ Nodes(m) \subseteq Nodes(l)
    /\ \A j \in 1 .. i : sq[j] \in Nodes(m)
    /\ \A y \in Nodes(m) \ {sq[i]} : Field(m, y) = Field(l, y)
    /\ Field(m, sq[i]).size \in Nat /\ End(m, sq[i]) <= e
    /\ Field(m, sq[i]) = [Field(l, sq[i]) EXCEPT !.size = Field(m, sq[i]).size]

(* The node behind p has gone, and p still leads there. *)
Broken(m, p) == p \in Nodes(m) /\ NextOf(m, p) # 0 /\ NextOf(m, p) \notin Nodes(m)

(* The nodes taken in were of S and the list is whole. *)
WholeAgain(m, l, sq, i, S, b, s, t, n) ==
    /\ Line(m, t, n) /\ Tiled(m, t, n, b, s)
    /\ i <= n /\ \A j \in 1 .. i : t[j] = sq[j]
    /\ PrevOf(m, sq[i]) = PrevOf(l, sq[i])
    /\ \A y : \A a \in Int :
          At(m, y, a) => At(l, y, a) \/ (y = sq[i] /\ \E x \in S : At(l, x, a))

LEMMA AbsorbNextDoes ==
    ASSUME NEW F, Ranges(F), NEW l \in Lists(F), NEW sq, NEW n, NEW b, NEW s,
           Line(l, sq, n), Tiled(l, sq, n, b, s), NEW i \in 1 .. n - 1,
           NEW S, sq[i + 1] \in S
    PROVE  /\ AbsorbNext(l, sq[i]) \in Lists(F)
           /\ Shrunk(AbsorbNext(l, sq[i]), l, sq, i, b + s)
           /\ \/ AbsorbNext(l, sq[i]).fate # "ok"
              \/ AbsorbNext(l, sq[i]).fate = l.fate /\ Broken(AbsorbNext(l, sq[i]), sq[i])
              \/ /\ AbsorbNext(l, sq[i]).fate = l.fate
                 /\ WholeAgain(AbsorbNext(l, sq[i]), l, sq, i, S, b, s, Without(sq, n, i), n - 1)
  <1> DEFINE p  == sq[i]
             nx == sq[i + 1]
             nn == NextOf(l, nx)
             pp == PrevOf(l, nx)
             w  == Field(l, p).size + Field(l, nx).size
             f  == [Field(l, p) EXCEPT !.size = w]
             k  == SetField(l, p, f)
             m  == AbsorbNext(l, p)
             t  == Without(sq, n, i)
  <1>1. /\ n \in Nat \ {0} /\ sq \in [1 .. n -> Nodes(l)] /\ 0 \notin Nodes(l)
        /\ \A j \in 1 .. n : NextOf(l, sq[j]) = IF j = n THEN 0 ELSE sq[j + 1]
        /\ \A j, h \in 1 .. n : sq[j] = sq[h] => j = h
    BY DEF Line
  <1>2. /\ i \in 1 .. n /\ i + 1 \in 1 .. n /\ p \in Nodes(l) /\ nx \in Nodes(l) /\ p # nx
        /\ NextOf(l, p) = nx /\ nn = (IF i + 1 = n THEN 0 ELSE sq[(i + 1) + 1]) /\ nx # 0 /\ p # 0
    <2>1. i \in 1 .. n /\ i + 1 \in 1 .. n /\ i # n /\ i # i + 1
      BY <1>1
    <2> QED  BY <1>1, <2>1
  <1>3. /\ Field(l, p) \in F /\ Field(l, p).base \in Nat /\ Field(l, p).size \in Nat
        /\ Field(l, nx).base \in Nat /\ Field(l, nx).size \in Nat /\ w \in Nat
        /\ Field(l, nx).base = End(l, p)
    <2>1. Field(l, p) \in F /\ Field(l, p).base \in Nat /\ Field(l, p).size \in Nat
          /\ Field(l, nx).base \in Nat /\ Field(l, nx).size \in Nat
      BY <1>2, ListFacts DEF Tiled
    <2>2. Field(l, nx).base = End(l, p)
      BY DEF Tiled
    <2> QED  BY <2>1, <2>2
  <1>4. f \in F /\ f.base = Field(l, p).base /\ f.size = w
    <2> HIDE DEF w, p
    <2>1. \A g \in F : \A v \in Nat : /\ [g EXCEPT !.size = v] \in F
                                      /\ [g EXCEPT !.size = v].base = g.base
                                      /\ [g EXCEPT !.size = v].size = v
      BY Zenon DEF Ranges
    <2> QED  BY <1>3, <2>1, Zenon
  <1>5. m = unlink(k, nx)
    <2>1. m = unlink(SetField(l, p, [Field(l, p) EXCEPT !.size =
                        Field(l, p).size + Field(l, NextOf(l, p)).size]), NextOf(l, p))
      BY DEF AbsorbNext
    <2> HIDE DEF m, p, nx
    <2> QED  BY <1>2, <2>1
  <1> HIDE DEF k, f, m, w, p, nx, nn, pp, t
  <1>6. k \in Lists(F) /\ FieldSet(k, l, p, f)
    BY <1>2, <1>4, SetFieldDoes DEF k
  <1>7. /\ Nodes(k) = Nodes(l) /\ k.first = l.first /\ k.last = l.last
        /\ k.fate = l.fate /\ k.made = l.made /\ Field(k, p) = f
        /\ \A y \in Nodes(l) : /\ y # p => Field(k, y) = Field(l, y)
                               /\ PrevOf(k, y) = PrevOf(l, y) /\ NextOf(k, y) = NextOf(l, y)
    BY <1>6 DEF FieldSet
  <1>8. /\ m \in Lists(F)
        /\ \/ /\ m.fate = "dangling" /\ m.made = k.made /\ Nodes(m) = Nodes(k)
              /\ \A y \in Nodes(k) : Field(m, y) = Field(k, y)
           \/ Removed(m, k, nx, PrevOf(k, nx), NextOf(k, nx))
    BY <1>2, <1>5, <1>6, <1>7, unlinkDoes
  <1>9. PrevOf(k, nx) = pp /\ NextOf(k, nx) = nn
    BY <1>2, <1>7 DEF pp, nn
  <1>10. /\ m.made = l.made /\ Nodes(m) \subseteq Nodes(l) /\ Nodes(l) \ Nodes(m) \subseteq {nx}
         /\ \A y \in Nodes(m) : Field(m, y) = Field(k, y)
    BY <1>7, <1>8 DEF Removed
  <1>11. Field(m, p) = f /\ End(m, p) = End(l, nx) /\ End(l, nx) \in Nat /\ p \in Nodes(m)
    <2>1. Field(m, p) = f /\ p \in Nodes(m)
      BY <1>2, <1>7, <1>10
    <2>2. End(m, p) = f.base + f.size /\ End(l, nx) = Field(l, nx).base + Field(l, nx).size
          /\ End(l, p) = Field(l, p).base + Field(l, p).size
      BY <2>1 DEF End
    <2> QED  BY <1>3, <1>4, <2>1, <2>2 DEF w
  <1>12. Shrunk(m, l, sq, i, b + s)
    <2>1. ASSUME NEW j \in 1 .. i  PROVE sq[j] \in Nodes(m)
      <3>1. j \in 1 .. n /\ j # i + 1
        BY <1>1
      <3>2. sq[j] \in Nodes(l) /\ sq[j] # nx
        BY <1>1, <1>2, <3>1 DEF nx
      <3> QED  BY <1>10, <3>2
    <2>2. End(l, nx) <= b + s
      BY <1>2, TiledBounds
    <2>3. \A y \in Nodes(m) \ {p} : Field(m, y) = Field(l, y)
      BY <1>7, <1>10
    <2>4. Field(m, p).size = w /\ Field(m, p) = [Field(l, p) EXCEPT !.size = Field(m, p).size]
      BY <1>4, <1>11 DEF f
    <2>5. Field(m, p).size \in Nat /\ End(m, p) <= b + s
      BY <1>3, <1>11, <2>2, <2>4
    <2> QED  BY <1>10, <2>1, <2>3, <2>4, <2>5 DEF Shrunk, p
  <1>13. CASE m.fate = "dangling"
    BY <1>8, <1>12, <1>13 DEF m, p
  <1>14. CASE Removed(m, k, nx, pp, nn) /\ pp # p
    <2>1. m.fate = l.fate /\ NextOf(m, p) = NextOf(k, p) /\ Nodes(m) = Nodes(k) \ {nx}
      BY <1>7, <1>11, <1>14 DEF Removed
    <2>2. Broken(m, p)
      BY <1>2, <1>7, <1>11, <2>1 DEF Broken
    <2> QED  BY <1>8, <1>12, <2>1, <2>2 DEF m, p
  <1>15. CASE Removed(m, k, nx, pp, nn) /\ pp = p
    <2>1. Line(k, sq, n)
      <3>1. \A j \in 1 .. n : NextOf(k, sq[j]) = NextOf(l, sq[j])
        BY <1>1, <1>7
      <3> QED  BY <1>7, <3>1 DEF Line
    <2>2. Line(m, t, n - 1)
      <3>1. Removed(m, k, sq[i + 1], sq[i], NextOf(k, sq[i + 1]))
        BY <1>9, <1>15 DEF nx, p
      <3> QED  BY <2>1, <3>1, RemoveLine DEF t
    <2>3. \A j \in 1 .. n - 1 : t[j] = IF j <= i THEN sq[j] ELSE sq[j + 1]
      BY DEF t, Without
    <2>4. /\ \A y \in Nodes(m) : y # p => Field(m, y) = Field(l, y) /\ End(m, y) = End(l, y)
          /\ Field(m, p).base = Field(l, p).base
          /\ Nodes(m) = Nodes(l) \ {nx}
      BY <1>4, <1>7, <1>10, <1>11, <1>15 DEF End, Removed
    <2>5. \A j \in 1 .. n : j # i => sq[j] # p
      BY <1>1, <1>2 DEF p
    <2>6. Tiled(m, t, n - 1, b, s)
      <3>1. /\ b \in Nat /\ s \in Nat /\ Field(l, sq[1]).base = b /\ End(l, sq[n]) = b + s
            /\ \A y \in Nodes(l) : Field(l, y).base \in Nat /\ Field(l, y).size \in Nat
            /\ \A j \in 1 .. n - 1 : Field(l, sq[j + 1]).base = End(l, sq[j])
        BY DEF Tiled
      <3>2. t \in [1 .. n - 1 -> Nodes(m)]
        BY <2>2 DEF Line
      <3>3. \A y \in Nodes(m) : Field(m, y).base \in Nat /\ Field(m, y).size \in Nat
        BY <1>3, <1>4, <1>11, <2>4, <3>1
      <3>4. Field(m, t[1]).base = b
        <4>1. 1 \in 1 .. n - 1 /\ 1 <= i
          BY <1>1
        <4>2. t[1] = sq[1] /\ t[1] \in Nodes(m)
          BY <2>3, <3>2, <4>1
        <4> QED  BY <2>4, <3>1, <4>2
      <3>5. End(m, t[n - 1]) = b + s
        <4>1. n - 1 \in 1 .. n - 1 /\ (n - 1) + 1 = n
          BY <1>1
        <4>2. CASE i = n - 1
          <5>1. t[n - 1] = p /\ nx = sq[n]
            BY <2>3, <4>1, <4>2 DEF p, nx
          <5> QED  BY <1>11, <3>1, <5>1
        <4>3. CASE i # n - 1
          <5>1. ~(n - 1 <= i) /\ n \in 1 .. n /\ n # i
            BY <1>1, <4>3
          <5>2. t[n - 1] = sq[n] /\ sq[n] # p /\ sq[n] \in Nodes(m)
            BY <2>3, <2>5, <3>2, <4>1, <5>1
          <5> QED  BY <2>4, <3>1, <5>2
        <4> QED  BY <4>2, <4>3
      <3>6. ASSUME NEW j \in 1 .. (n - 1) - 1  PROVE Field(m, t[j + 1]).base = End(m, t[j])
        <4>1. j \in 1 .. n - 1 /\ j + 1 \in 1 .. n - 1 /\ j \in 1 .. n /\ j + 1 \in 1 .. n
              /\ (j + 1) + 1 \in 1 .. n
          BY <1>1
        <4>2. t[j] \in Nodes(m) /\ t[j + 1] \in Nodes(m)
          BY <3>2, <4>1
        <4>3. CASE j < i
          <5>1. j + 1 <= i /\ j <= i /\ j # i
            BY <4>3
          <5>2. t[j] = sq[j] /\ t[j + 1] = sq[j + 1] /\ sq[j] # p
            BY <2>3, <2>5, <4>1, <5>1
          <5>3. End(m, sq[j]) = End(l, sq[j])
            BY <2>4, <4>2, <5>2
          <5>4. Field(m, sq[j + 1]).base = Field(l, sq[j + 1]).base
            BY <2>4, <4>2, <5>2
          <5> QED  BY <3>1, <4>1, <5>2, <5>3, <5>4
        <4>4. CASE j = i
          <5>1. j <= i /\ ~(j + 1 <= i) /\ (j + 1) + 1 # i /\ i + 1 \in 1 .. n - 1
            BY <4>1, <4>4
          <5>2. t[j] = p /\ t[j + 1] = sq[(i + 1) + 1] /\ sq[(i + 1) + 1] # p
            BY <2>3, <2>5, <4>1, <4>4, <5>1 DEF p
          <5>3. Field(l, sq[(i + 1) + 1]).base = End(l, sq[i + 1])
            BY <3>1, <5>1
          <5> QED  BY <1>11, <2>4, <4>2, <5>2, <5>3 DEF nx
        <4>5. CASE i < j
          <5>1. ~(j <= i) /\ ~(j + 1 <= i) /\ (j + 1) + 1 # i /\ j + 1 # i
            BY <4>5
          <5>2. t[j] = sq[j + 1] /\ t[j + 1] = sq[(j + 1) + 1]
                /\ sq[(j + 1) + 1] # p /\ sq[j + 1] # p
            BY <2>3, <2>5, <4>1, <5>1
          <5>3. Field(l, sq[(j + 1) + 1]).base = End(l, sq[j + 1])
            BY <3>1, <4>1
          <5> QED  BY <2>4, <4>2, <5>2, <5>3
        <4> QED  BY <4>3, <4>4, <4>5
      <3>7. \A j \in 1 .. (n - 1) - 1 : Field(m, t[j + 1]).base = End(m, t[j])
        BY <3>6
      <3> QED  BY <3>1, <3>3, <3>4, <3>5, <3>7 DEF Tiled
    <2>7. i <= n - 1 /\ \A j \in 1 .. i : t[j] = sq[j]
      <3>1. \A j \in 1 .. i : j \in 1 .. n - 1 /\ j <= i
        BY <1>1
      <3> QED  BY <1>1, <2>3, <3>1
    <2>8. PrevOf(m, p) = PrevOf(l, p)
      <3>1. p # nn
        <4>1. CASE i + 1 = n
          BY <1>2, <4>1
        <4>2. CASE i + 1 # n
          <5>1. (i + 1) + 1 \in 1 .. n /\ (i + 1) + 1 # i
            BY <1>1, <4>2
          <5> QED  BY <1>2, <2>5, <4>2, <5>1
        <4> QED  BY <4>1, <4>2
      <3> QED  BY <1>2, <1>7, <1>11, <1>15, <3>1 DEF Removed
    <2>9. ASSUME NEW y, NEW a \in Int, At(m, y, a)
          PROVE  At(l, y, a) \/ (y = p /\ \E x \in S : At(l, x, a))
      <3>1. CASE y # p
        BY <1>10, <2>4, <2>9, <3>1 DEF At
      <3>2. CASE y = p
        <4>1. Field(l, p).base <= a /\ a < End(l, nx)
          BY <1>11, <2>4, <2>9, <3>2 DEF At
        <4>2. CASE a < End(l, p)
          <5>1. At(l, p, a)
            BY <1>2, <4>1, <4>2 DEF At
          <5> QED  BY <3>2, <5>1
        <4>3. CASE ~(a < End(l, p))
          <5>1. Field(l, nx).base <= a
            BY <1>3, <4>3
          <5> QED  BY <1>2, <3>2, <4>1, <5>1 DEF At, nx
        <4> QED  BY <4>2, <4>3
      <3> QED  BY <3>1, <3>2
    <2>10. WholeAgain(m, l, sq, i, S, b, s, t, n - 1)
      BY <2>2, <2>6, <2>7, <2>8, <2>9 DEF WholeAgain, p
    <2>11. m.fate = l.fate
      BY <1>7, <1>15 DEF Removed
    <2> QED  BY <1>8, <1>12, <2>10, <2>11 DEF m, p, t
  <1> QED  BY <1>8, <1>9, <1>13, <1>14, <1>15

-----------------------------------------------------------------------------
(* A node takes in those behind it *)

LEMMA AbsorbIsList ==
    ASSUME NEW F, Ranges(F), NEW l \in Lists(F), NEW p, NEW S
    PROVE  Absorb(l, p, S) \in Lists(F)
  <1> DEFINE here == Follow(l, p)
             n == NextOf(here, p)
             next == Follow(here, n)
             g == Field(next, p)
             w == g.size + Field(next, n).size
             k == SetField(next, p, [g EXCEPT !.size = w])
  <1>1. here \in Lists(F) /\ (here.fate = "ok" => p \in Nodes(here))
    <2>1. /\ here \in Lists(F) /\ Nodes(here) = Nodes(l)
          /\ here.fate = "ok" => p \in Nodes(l)
      BY FollowDoes
    <2> QED  BY <2>1
  <1>2. next \in Lists(F) /\ Nodes(next) = Nodes(here)
        /\ (next.fate = "ok" => next = here /\ n \in Nodes(next))
    <2> HIDE DEF here, n
    <2>1. /\ next \in Lists(F) /\ Nodes(next) = Nodes(here)
          /\ next.fate = "ok" => next = here /\ n \in Nodes(here)
      BY <1>1, FollowDoes
    <2> QED  BY <2>1
  <1>3. Absorb(l, p, S) = IF here.fate # "ok" \/ n = 0 THEN here
                          ELSE IF next.fate = "ok" /\ n \in S THEN AbsorbNext(next, p) ELSE next
    BY DEF Absorb
  <1>4. ASSUME here.fate = "ok", next.fate = "ok"  PROVE AbsorbNext(next, p) \in Lists(F)
    <2>1. p \in Nodes(next) /\ n \in Nodes(next) /\ n = NextOf(next, p)
      <3> HIDE DEF here, next
      <3> QED  BY <1>1, <1>2, <1>4
    <2>2. AbsorbNext(next, p) = unlink(k, n)
      <3> HIDE DEF here, next
      <3> QED  BY <2>1 DEF AbsorbNext
    <2> HIDE DEF here, n, next
    <2>3. g \in F /\ Field(next, n) \in F
      BY <1>2, <2>1, ListFacts
    <2>4. g.size \in Nat /\ Field(next, n).size \in Nat
      <3>1. \A h \in F : h.size \in Nat
        BY Zenon DEF Ranges
      <3> HIDE DEF g
      <3> QED  BY <2>3, <3>1
    <2>5. w \in Nat
      <3> HIDE DEF g
      <3> QED  BY <2>4
    <2>6. [g EXCEPT !.size = w] \in F
      <3> HIDE DEF g, w
      <3>1. \A h \in F : \A v \in Nat : [h EXCEPT !.size = v] \in F
        BY Zenon DEF Ranges
      <3> QED  BY <2>3, <2>5, <3>1, Zenon
    <2>7. k \in Lists(F) /\ Nodes(k) = Nodes(next)
      <3> HIDE DEF g, w
      <3> QED  BY <1>2, <2>1, <2>6, SetFieldDoes DEF FieldSet
    <2> HIDE DEF k
    <2>8. unlink(k, n) \in Lists(F)
      BY <2>1, <2>7, unlinkDoes
    <2> QED  BY <2>2, <2>8
  <1> HIDE DEF here, n, next
  <1> QED  BY <1>1, <1>2, <1>3, <1>4

(* f goes through what n turns of the loop make of l. *)
Turns(f, F, l, p, S, n) ==
    /\ f[0] = l
    /\ \A k \in 1 .. n : f[k] = Absorb(f[k - 1], p, S)
    /\ \A k \in 0 .. n : f[k] \in Lists(F)

LEMMA AbsorbWhileDef ==
    ASSUME NEW F, Ranges(F), NEW l \in Lists(F), NEW p, NEW S,
           NEW n \in Nat, n = Cardinality(Nodes(l))
    PROVE  \E f : Turns(f, F, l, p, S, n) /\ AbsorbWhile(l, p, S) = f[n]
  <1> DEFINE T == Lists(F)
             A == [z \in T \X (1 .. n) |-> Absorb(z[1], p, S)]
             G(w) == [k \in 0 .. n |-> IF k = 0 THEN l ELSE Absorb(w[k - 1], p, S)]
             f == CHOOSE w : w = G(w)
  <1>1. A \in [T \X (1 .. n) -> T]
    <2>1. \A z \in T \X (1 .. n) : Absorb(z[1], p, S) \in T
      <3> TAKE z \in T \X (1 .. n)
      <3>1. z[1] \in T
        OBVIOUS
      <3> QED  BY <3>1, AbsorbIsList
    <2> HIDE DEF T
    <2> QED  BY <2>1
  <1>2. PICK w : Iterates(w, A, T, l, n)
    <2>1. l \in T
      OBVIOUS
    <2> HIDE DEF A, T
    <2> QED  BY <1>1, <2>1, IteratesExist
  <1>3. w = G(w)
    <2>1. w \in [0 .. n -> T] /\ w[0] = l
      BY <1>2 DEF Iterates
    <2>2. ASSUME NEW k \in 1 .. n  PROVE w[k] = Absorb(w[k - 1], p, S)
      <3>1. w[k - 1] \in T
        <4> HIDE DEF T
        <4> QED  BY <2>1
      <3>2. w[k] = A[<<w[k - 1], k>>]
        BY <1>2 DEF Iterates
      <3> HIDE DEF T
      <3> QED  BY <3>1, <3>2
    <2>3. \A k \in 0 .. n : w[k] = G(w)[k]
      <3> HIDE DEF T
      <3> QED  BY <2>1, <2>2
    <2> HIDE DEF T
    <2> QED  BY <2>1, <2>3
  <1>4. f = G(f)
    <2> HIDE DEF G
    <2> QED  BY <1>3
  <1>5. AbsorbWhile(l, p, S) = f[n]
    BY DEF AbsorbWhile
  <1>6. f[0] = l /\ \A k \in 1 .. n : f[k] = Absorb(f[k - 1], p, S)
    <2> HIDE DEF f
    <2>1. \A k \in 0 .. n : f[k] = G(f)[k]
      <3> HIDE DEF G
      <3> QED  BY <1>4
    <2> QED  BY <2>1
  <1> HIDE DEF f
  <1>7. \A k \in 0 .. n : f[k] \in Lists(F)
    <2> DEFINE Good == {k \in 0 .. n : f[k] \in Lists(F)}
    <2>1. 0 \in Good
      BY <1>6
    <2>2. ASSUME NEW k \in 0 .. n - 1, k \in Good  PROVE k + 1 \in Good
      <3>1. k + 1 \in 1 .. n /\ (k + 1) - 1 = k /\ k + 1 \in 0 .. n
        OBVIOUS
      <3>2. f[k + 1] = Absorb(f[k], p, S)
        BY <1>6, <3>1
      <3>3. f[k + 1] \in Lists(F)
        BY <2>2, <3>2, AbsorbIsList
      <3> QED  BY <3>1, <3>3
    <2> HIDE DEF Good
    <2>3. \A k \in 0 .. n : k \in Good
      BY <2>1, <2>2, UpTo
    <2> QED  BY <2>3 DEF Good
  <1>8. Turns(f, F, l, p, S, n)
    BY <1>6, <1>7 DEF Turns
  <1> QED  BY <1>5, <1>8

(* The loop has nothing left to do. *)
Stopped(m, p, S) == NextOf(m, p) = 0 \/ NextOf(m, p) \notin S

LEMMA AbsorbStops ==
    ASSUME NEW F, NEW l \in Lists(F), NEW sq, NEW n, Line(l, sq, n), NEW i \in 1 .. n, NEW S,
           l.fate = "ok"
    PROVE  Absorb(l, sq[i], S) = IF Stopped(l, sq[i], S) THEN l ELSE AbsorbNext(l, sq[i])
  <1>1. sq[i] \in Nodes(l) /\ (NextOf(l, sq[i]) # 0 => NextOf(l, sq[i]) \in Nodes(l))
    <2>1. n \in Nat /\ sq \in [1 .. n -> Nodes(l)]
          /\ NextOf(l, sq[i]) = IF i = n THEN 0 ELSE sq[i + 1]
      BY DEF Line
    <2>2. i # n => i + 1 \in 1 .. n
      BY <2>1
    <2> QED  BY <2>1, <2>2
  <1>2. Follow(l, sq[i]) = l
    BY <1>1, FollowDoes
  <1>3. NextOf(l, sq[i]) # 0 => Follow(l, NextOf(l, sq[i])) = l
    BY <1>1, FollowDoes
  <1> QED  BY <1>2, <1>3 DEF Absorb, Stopped

LEMMA AbsorbBroken ==
    ASSUME NEW F, NEW l \in Lists(F), NEW p, NEW S, Broken(l, p), l.fate = "ok"
    PROVE  /\ Absorb(l, p, S).fate # "ok" /\ Absorb(l, p, S).made = l.made
           /\ Nodes(Absorb(l, p, S)) = Nodes(l)
           /\ \A y \in Nodes(l) : Field(Absorb(l, p, S), y) = Field(l, y)
  <1>1. Follow(l, p) = l
    BY FollowDoes DEF Broken
  <1> DEFINE m == Follow(l, NextOf(l, p))
  <1>2. Absorb(l, p, S) = IF m.fate = "ok" /\ NextOf(l, p) \in S THEN AbsorbNext(m, p) ELSE m
    BY <1>1 DEF Absorb, Broken
  <1>3. /\ m.made = l.made /\ Nodes(m) = Nodes(l)
        /\ \A y \in Nodes(l) : Field(m, y) = Field(l, y)
        /\ m.fate = "ok" => NextOf(l, p) \in Nodes(l)
    BY FollowDoes
  <1> HIDE DEF m
  <1>4. m.fate # "ok"
    BY <1>3 DEF Broken
  <1> QED  BY <1>2, <1>3, <1>4

LEMMA AbsorbFailed ==
    ASSUME NEW l, NEW p, NEW S, l.fate # "ok"
    PROVE  Absorb(l, p, S) = l
  BY DEF Absorb, Follow

(* What a list loses is lost for good. *)
LEMMA ShrunkOn ==
    ASSUME NEW F, Ranges(F), NEW l \in Lists(F), NEW m, NEW m2, NEW sq, NEW t, NEW i \in Nat,
           i # 0, NEW e, Shrunk(m, l, sq, i, e), Shrunk(m2, m, t, i, e),
           \A j \in 1 .. i : t[j] = sq[j]
    PROVE  Shrunk(m2, l, sq, i, e)
  <1> DEFINE p == sq[i]
  <1>1. i \in 1 .. i /\ t[i] = p
    OBVIOUS
  <1>2. /\ m.made = l.made /\ Nodes(m) \subseteq Nodes(l)
        /\ \A j \in 1 .. i : sq[j] \in Nodes(m)
        /\ \A y \in Nodes(m) \ {p} : Field(m, y) = Field(l, y)
        /\ Field(m, p).size \in Nat
        /\ Field(m, p) = [Field(l, p) EXCEPT !.size = Field(m, p).size]
    BY DEF Shrunk
  <1>3. /\ m2.made = m.made /\ Nodes(m2) \subseteq Nodes(m)
        /\ \A j \in 1 .. i : t[j] \in Nodes(m2)
        /\ \A y \in Nodes(m2) \ {p} : Field(m2, y) = Field(m, y)
        /\ Field(m2, p).size \in Nat /\ End(m2, p) <= e
        /\ Field(m2, p) = [Field(m, p) EXCEPT !.size = Field(m2, p).size]
    BY <1>1 DEF Shrunk
  <1>4. Field(l, p) \in F
    BY <1>1, <1>2, ListFacts
  <1>5. Field(m2, p) = [Field(l, p) EXCEPT !.size = Field(m2, p).size]
    <2> HIDE DEF p
    <2>1. \A g \in F : \A a, w \in Nat :
             [[g EXCEPT !.size = a] EXCEPT !.size = w] = [g EXCEPT !.size = w]
      BY Zenon DEF Ranges
    <2>2. [[Field(l, p) EXCEPT !.size = Field(m, p).size] EXCEPT !.size = Field(m2, p).size]
            = [Field(l, p) EXCEPT !.size = Field(m2, p).size]
      BY <1>2, <1>3, <1>4, <2>1, Zenon
    <2> QED  BY <1>2, <1>3, <2>2, Zenon
  <1> QED  BY <1>2, <1>3, <1>5 DEF Shrunk

(* Only the first two of these count for what has been lost. *)
LEMMA ShrunkStays ==
    ASSUME NEW l, NEW m, NEW m2, NEW sq, NEW i \in Nat, i # 0, NEW e, Shrunk(m, l, sq, i, e),
           m2.made = m.made, Nodes(m2) = Nodes(m),
           \A y \in Nodes(m) : Field(m2, y) = Field(m, y)
    PROVE  Shrunk(m2, l, sq, i, e)
  <1>1. i \in 1 .. i
    OBVIOUS
  <1>2. sq[i] \in Nodes(m)
    BY <1>1 DEF Shrunk
  <1>3. Field(m2, sq[i]) = Field(m, sq[i]) /\ End(m2, sq[i]) = End(m, sq[i])
    BY <1>2 DEF End
  <1> QED  BY <1>3 DEF Shrunk

LEMMA ShrunkNone ==
    ASSUME NEW F, Ranges(F), NEW l \in Lists(F), NEW sq, NEW n, NEW b, NEW s,
           Line(l, sq, n), Tiled(l, sq, n, b, s), NEW i \in 1 .. n, NEW S
    PROVE  Shrunk(l, l, sq, i, b + s) /\ WholeAgain(l, l, sq, i, S, b, s, sq, n)
  <1>1. n \in Nat \ {0} /\ sq \in [1 .. n -> Nodes(l)]
    BY DEF Line
  <1>2. \A j \in 1 .. i : sq[j] \in Nodes(l)
    <2>1. \A j \in 1 .. i : j \in 1 .. n
      BY <1>1
    <2> QED  BY <1>1, <2>1
  <1>3. Field(l, sq[i]).size \in Nat /\ End(l, sq[i]) <= b + s /\ Field(l, sq[i]) \in F
    BY <1>1, TiledBounds, ListFacts DEF Tiled
  <1>4. Field(l, sq[i]) = [Field(l, sq[i]) EXCEPT !.size = Field(l, sq[i]).size]
    <2>1. \A g \in F : [g EXCEPT !.size = g.size] = g
      BY Zenon DEF Ranges
    <2> QED  BY <1>3, <2>1, Zenon
  <1>5. Shrunk(l, l, sq, i, b + s)
    BY <1>2, <1>3, <1>4 DEF Shrunk
  <1>6. WholeAgain(l, l, sq, i, S, b, s, sq, n)
    BY <1>1 DEF WholeAgain
  <1> QED  BY <1>5, <1>6

LEMMA WholeOn ==
    ASSUME NEW l, NEW m, NEW m2, NEW sq, NEW i \in Nat, i # 0, NEW S, NEW b, NEW s,
           NEW t, NEW c, WholeAgain(m, l, sq, i, S, b, s, t, c),
           NEW t2, NEW c2, WholeAgain(m2, m, t, i, S, b, s, t2, c2)
    PROVE  WholeAgain(m2, l, sq, i, S, b, s, t2, c2)
  <1>1. /\ i \in 1 .. i /\ t[i] = sq[i] /\ \A j \in 1 .. i : t[j] = sq[j]
        /\ PrevOf(m, sq[i]) = PrevOf(l, sq[i])
        /\ \A y : \A a \in Int :
              At(m, y, a) => At(l, y, a) \/ (y = sq[i] /\ \E x \in S : At(l, x, a))
    BY DEF WholeAgain
  <1>2. /\ Line(m2, t2, c2) /\ Tiled(m2, t2, c2, b, s)
        /\ i <= c2 /\ \A j \in 1 .. i : t2[j] = t[j]
        /\ PrevOf(m2, sq[i]) = PrevOf(m, sq[i])
        /\ \A y : \A a \in Int :
              At(m2, y, a) => At(m, y, a) \/ (y = sq[i] /\ \E x \in S : At(m, x, a))
    BY <1>1 DEF WholeAgain
  <1>3. ASSUME NEW y, NEW a \in Int, At(m2, y, a)
        PROVE  At(l, y, a) \/ (y = sq[i] /\ \E x \in S : At(l, x, a))
    <2>1. CASE At(m, y, a)
      BY <1>1, <2>1
    <2>2. CASE y = sq[i] /\ \E x \in S : At(m, x, a)
      <3>1. PICK x \in S : At(m, x, a)
        BY <2>2
      <3>2. At(l, x, a) \/ \E z \in S : At(l, z, a)
        BY <1>1, <3>1
      <3> QED  BY <2>2, <3>1, <3>2
    <2> QED  BY <1>2, <1>3, <2>1, <2>2
  <1>4. \A j \in 1 .. i : t2[j] = sq[j]
    BY <1>1, <1>2
  <1>5. PrevOf(m2, sq[i]) = PrevOf(l, sq[i])
    BY <1>1, <1>2
  <1> QED  BY <1>2, <1>3, <1>4, <1>5 DEF WholeAgain

(* After k turns. *)
Turned(m, l, sq, n, i, S, b, s, k) ==
    /\ Shrunk(m, l, sq, i, b + s)
    /\ \/ m.fate # "ok"
       \/ Broken(m, sq[i]) /\ k < n
       \/ \E t : \E c : /\ WholeAgain(m, l, sq, i, S, b, s, t, c)
                        /\ c = n - k \/ Stopped(m, sq[i], S)

LEMMA TurnOn ==
    ASSUME NEW F, Ranges(F), NEW l \in Lists(F), NEW sq, NEW n, NEW b, NEW s,
           Line(l, sq, n), Tiled(l, sq, n, b, s), NEW i \in 1 .. n, NEW S,
           NEW k \in 0 .. n - 1, NEW m \in Lists(F), Turned(m, l, sq, n, i, S, b, s, k)
    PROVE  Turned(Absorb(m, sq[i], S), l, sq, n, i, S, b, s, k + 1)
  <1> DEFINE p == sq[i]
             m2 == Absorb(m, p, S)
  <1>1. n \in Nat \ {0} /\ i \in Nat /\ i # 0 /\ b \in Nat /\ s \in Nat
    BY DEF Line, Tiled
  <1>2. Shrunk(m, l, sq, i, b + s)
    BY DEF Turned
  <1>3. CASE m.fate # "ok"
    <2>1. m2 = m
      BY <1>3, AbsorbFailed
    <2> HIDE DEF m2
    <2> QED  BY <1>2, <1>3, <2>1 DEF Turned, m2, p
  <1>4. CASE m.fate = "ok" /\ Broken(m, p)
    <2>1. /\ m2.fate # "ok" /\ m2.made = m.made /\ Nodes(m2) = Nodes(m)
          /\ \A y \in Nodes(m) : Field(m2, y) = Field(m, y)
      BY <1>4, AbsorbBroken
    <2> HIDE DEF m2
    <2>2. Shrunk(m2, l, sq, i, b + s)
      BY <1>1, <1>2, <2>1, ShrunkStays
    <2> QED  BY <2>1, <2>2 DEF Turned, m2, p
  <1>5. CASE /\ m.fate = "ok"
             /\ \E t : \E c : /\ WholeAgain(m, l, sq, i, S, b, s, t, c)
                              /\ c = n - k \/ Stopped(m, sq[i], S)
    <2>1. PICK t, c : /\ WholeAgain(m, l, sq, i, S, b, s, t, c)
                      /\ c = n - k \/ Stopped(m, sq[i], S)
      BY <1>5
    <2>2. /\ Line(m, t, c) /\ Tiled(m, t, c, b, s) /\ i <= c /\ c \in Nat \ {0}
          /\ \A j \in 1 .. i : t[j] = sq[j]
          /\ i \in 1 .. c /\ t[i] = p
      <3>1. Line(m, t, c) /\ Tiled(m, t, c, b, s) /\ i <= c /\ \A j \in 1 .. i : t[j] = sq[j]
        BY <2>1 DEF WholeAgain
      <3>2. c \in Nat \ {0}
        BY <3>1 DEF Line
      <3> QED  BY <1>1, <3>1, <3>2
    <2>3. m2 = IF Stopped(m, t[i], S) THEN m ELSE AbsorbNext(m, t[i])
      BY <1>5, <2>2, AbsorbStops
    <2>4. CASE Stopped(m, p, S)
      <3>1. m2 = m
        BY <2>2, <2>3, <2>4
      <3> HIDE DEF m2
      <3> QED  BY <1>2, <2>1, <2>4, <3>1 DEF Turned, m2, p
    <2>5. CASE ~Stopped(m, p, S)
      <3>1. m2 = AbsorbNext(m, t[i]) /\ c = n - k
        BY <2>1, <2>2, <2>3, <2>5
      <3>2. i # c /\ t[i + 1] \in S
        <4>1. NextOf(m, t[i]) = IF i = c THEN 0 ELSE t[i + 1]
          BY <2>2 DEF Line
        <4> QED  BY <2>2, <2>5, <4>1 DEF Stopped
      <3>3. i \in 1 .. c - 1 /\ k + 1 < n /\ c - 1 = n - (k + 1)
        BY <1>1, <2>2, <3>1, <3>2
      <3>4. /\ Shrunk(m2, m, t, i, b + s)
            /\ \/ m2.fate # "ok"
               \/ Broken(m2, p)
               \/ WholeAgain(m2, m, t, i, S, b, s, Without(t, c, i), c - 1)
        <4> HIDE DEF m2
        <4> QED  BY <2>2, <3>1, <3>2, <3>3, AbsorbNextDoes
      <3> HIDE DEF m2, p
      <3>5. Shrunk(m2, l, sq, i, b + s)
        BY <1>1, <1>2, <2>2, <3>4, ShrunkOn
      <3>6. CASE m2.fate # "ok"
        BY <3>5, <3>6 DEF Turned, m2, p
      <3>7. CASE Broken(m2, p)
        BY <3>3, <3>5, <3>7 DEF Turned, m2, p
      <3>8. CASE WholeAgain(m2, m, t, i, S, b, s, Without(t, c, i), c - 1)
        <4>1. WholeAgain(m2, l, sq, i, S, b, s, Without(t, c, i), c - 1)
          BY <1>1, <2>1, <3>8, WholeOn
        <4>2. \E t1 : \E c1 : /\ WholeAgain(m2, l, sq, i, S, b, s, t1, c1)
                              /\ c1 = n - (k + 1) \/ Stopped(m2, sq[i], S)
          BY <3>3, <4>1
        <4> QED  BY <3>5, <4>2 DEF Turned, m2, p
      <3> QED  BY <3>4, <3>6, <3>7, <3>8
    <2> QED  BY <2>4, <2>5
  <1> QED  BY <1>3, <1>4, <1>5 DEF Turned, p

(* What the loop does to a list that is whole. *)
LEMMA AbsorbWhileDoes ==
    ASSUME NEW F, Ranges(F), NEW l \in Lists(F), NEW sq, NEW n, NEW b, NEW s,
           Line(l, sq, n), Tiled(l, sq, n, b, s), NEW i \in 1 .. n, NEW S
    PROVE  /\ AbsorbWhile(l, sq[i], S) \in Lists(F)
           /\ Shrunk(AbsorbWhile(l, sq[i], S), l, sq, i, b + s)
           /\ AbsorbWhile(l, sq[i], S).fate = "ok" =>
                 /\ Stopped(AbsorbWhile(l, sq[i], S), sq[i], S)
                 /\ \E t : \E c :
                       WholeAgain(AbsorbWhile(l, sq[i], S), l, sq, i, S, b, s, t, c)
  <1>1. n \in Nat \ {0} /\ n = Cardinality(Nodes(l))
    BY LineCount DEF Line
  <1>2. PICK f : Turns(f, F, l, sq[i], S, n) /\ AbsorbWhile(l, sq[i], S) = f[n]
    <2>1. n \in Nat
      BY <1>1
    <2> QED  BY <1>1, <2>1, AbsorbWhileDef
  <1> DEFINE Good == {k \in 0 .. n : Turned(f[k], l, sq, n, i, S, b, s, k)}
  <1>3. 0 \in Good
    <2>1. Shrunk(l, l, sq, i, b + s) /\ WholeAgain(l, l, sq, i, S, b, s, sq, n)
      BY ShrunkNone
    <2>2. n = n - 0
      BY <1>1
    <2>3. Turned(l, l, sq, n, i, S, b, s, 0)
      BY <2>1, <2>2 DEF Turned
    <2> QED  BY <1>1, <1>2, <2>3 DEF Turns
  <1>4. ASSUME NEW k \in 0 .. n - 1, k \in Good  PROVE k + 1 \in Good
    <2>1. k + 1 \in 1 .. n /\ (k + 1) - 1 = k /\ k + 1 \in 0 .. n /\ k \in 0 .. n
      BY <1>1
    <2>2. f[k + 1] = Absorb(f[k], sq[i], S) /\ f[k] \in Lists(F)
      BY <1>2, <2>1 DEF Turns
    <2>3. Turned(Absorb(f[k], sq[i], S), l, sq, n, i, S, b, s, k + 1)
      BY <1>4, <2>2, TurnOn
    <2> QED  BY <2>1, <2>2, <2>3
  <1>5. Turned(f[n], l, sq, n, i, S, b, s, n)
    <2> HIDE DEF Good
    <2>1. \A k \in 0 .. n : k \in Good
      BY <1>1, <1>3, <1>4, UpTo
    <2> QED  BY <1>1, <2>1 DEF Good
  <1>6. PICK m : m = f[n]
    OBVIOUS
  <1>7. ASSUME m.fate = "ok"
        PROVE  /\ Stopped(m, sq[i], S)
               /\ \E t : \E c : WholeAgain(m, l, sq, i, S, b, s, t, c)
    <2>1. PICK t, c : /\ WholeAgain(m, l, sq, i, S, b, s, t, c)
                      /\ c = n - n \/ Stopped(m, sq[i], S)
      BY <1>1, <1>5, <1>6, <1>7 DEF Turned
    <2>2. c \in Nat \ {0}
      BY <2>1 DEF WholeAgain, Line
    <2> QED  BY <1>1, <2>1, <2>2
  <1>8. Shrunk(m, l, sq, i, b + s)
    BY <1>5, <1>6 DEF Turned
  <1>9. m \in Lists(F)
    <2>1. n \in 0 .. n
      BY <1>1
    <2> QED  BY <1>2, <1>6, <2>1 DEF Turns
  <1> QED  BY <1>2, <1>6, <1>7, <1>8, <1>9

-----------------------------------------------------------------------------
(* Regions, blocks and aligned addresses *)

(* The fields of regions, whose MEM_FREE bit is never cleared, and of blocks. *)
Regions == [base : Nat, size : Nat, free : {TRUE}, typed : BOOLEAN]
BlockFields == [base : Nat, size : Nat, prot : Prots]

LEMMA RecordRanges ==
    ASSUME NEW A, NEW B
    PROVE  Ranges([base : Nat, size : Nat, free : A, typed : B])
  <1> DEFINE F == [base : Nat, size : Nat, free : A, typed : B]
  <1>1. ASSUME NEW f \in F
        PROVE  /\ f.base \in Nat /\ f.size \in Nat /\ [f EXCEPT !.size = f.size] = f
               /\ f = [base |-> f.base, size |-> f.size, free |-> f.free, typed |-> f.typed]
    OBVIOUS
  <1>2. ASSUME NEW f \in F, NEW a \in Nat, NEW w \in Nat
        PROVE  [[f EXCEPT !.size = a] EXCEPT !.size = w] = [f EXCEPT !.size = w]
    OBVIOUS
  <1>3. ASSUME NEW f \in F, NEW a \in Nat, NEW w \in Nat
        PROVE  /\ [f EXCEPT !.size = w] \in F
               /\ [f EXCEPT !.size = w].base = f.base /\ [f EXCEPT !.size = w].size = w
               /\ [f EXCEPT !.base = a, !.size = w] \in F
               /\ [f EXCEPT !.base = a, !.size = w].base = a
               /\ [f EXCEPT !.base = a, !.size = w].size = w
    OBVIOUS
  <1> HIDE DEF F
  <1>4. Ranges(F)
    BY <1>1, <1>2, <1>3, Zenon DEF Ranges
  <1> QED  BY <1>4 DEF F

LEMMA RegionsAreRanges == Ranges(Regions)
  BY RecordRanges DEF Regions

LEMMA BlocksAreRanges == Ranges(BlockFields)
  <1> DEFINE F == BlockFields
  <1>1. ASSUME NEW f \in F
        PROVE  f.base \in Nat /\ f.size \in Nat /\ [f EXCEPT !.size = f.size] = f
    BY DEF BlockFields
  <1>2. ASSUME NEW f \in F, NEW a \in Nat, NEW w \in Nat
        PROVE  [[f EXCEPT !.size = a] EXCEPT !.size = w] = [f EXCEPT !.size = w]
    BY DEF BlockFields
  <1>3. ASSUME NEW f \in F, NEW a \in Nat, NEW w \in Nat
        PROVE  /\ [f EXCEPT !.size = w] \in F
               /\ [f EXCEPT !.size = w].base = f.base /\ [f EXCEPT !.size = w].size = w
               /\ [f EXCEPT !.base = a, !.size = w] \in F
               /\ [f EXCEPT !.base = a, !.size = w].base = a
               /\ [f EXCEPT !.base = a, !.size = w].size = w
    BY DEF BlockFields
  <1> HIDE DEF F
  <1>4. Ranges(F)
    BY <1>1, <1>2, <1>3, Zenon DEF Ranges
  <1> QED  BY <1>4 DEF F

(* What a change to a region's range, or to its type, leaves alone. *)
LEMMA RecordRest ==
    ASSUME NEW A, NEW B, NEW f \in [base : Nat, size : Nat, free : A, typed : B],
           NEW a \in Nat, NEW w \in Nat, NEW u \in A, NEW v \in B
    PROVE  /\ [f EXCEPT !.size = w].typed = f.typed
           /\ [f EXCEPT !.size = w].base = f.base /\ [f EXCEPT !.size = w].size = w
           /\ [f EXCEPT !.base = a, !.size = w].base = a
           /\ [f EXCEPT !.base = a, !.size = w].size = w
           /\ [f EXCEPT !.base = a, !.size = w].typed = f.typed
           /\ [f EXCEPT !.typed = v] \in [base : Nat, size : Nat, free : A, typed : B]
           /\ [f EXCEPT !.typed = v].base = f.base /\ [f EXCEPT !.typed = v].size = f.size
           /\ [f EXCEPT !.typed = v].typed = v
           /\ [f EXCEPT !.typed = v, !.free = u]
                 \in [base : Nat, size : Nat, free : A, typed : B]
           /\ [f EXCEPT !.typed = v, !.free = u].base = f.base
           /\ [f EXCEPT !.typed = v, !.free = u].size = f.size
  OBVIOUS

LEMMA RegionSized ==
    ASSUME NEW f \in Regions, NEW w \in Nat
    PROVE  /\ [f EXCEPT !.size = w].base = f.base /\ [f EXCEPT !.size = w].size = w
           /\ [f EXCEPT !.size = w].typed = f.typed
  <1>1. TRUE \in {TRUE} /\ TRUE \in BOOLEAN
    OBVIOUS
  <1>2. f \in [base : Nat, size : Nat, free : {TRUE}, typed : BOOLEAN]
    BY Zenon DEF Regions
  <1> QED  BY <1>1, <1>2, RecordRest, Zenon

LEMMA RegionMoved ==
    ASSUME NEW f \in Regions, NEW a \in Nat, NEW w \in Nat
    PROVE  /\ [f EXCEPT !.base = a, !.size = w].base = a
           /\ [f EXCEPT !.base = a, !.size = w].size = w
           /\ [f EXCEPT !.base = a, !.size = w].typed = f.typed
  <1>1. TRUE \in {TRUE} /\ TRUE \in BOOLEAN
    OBVIOUS
  <1>2. f \in [base : Nat, size : Nat, free : {TRUE}, typed : BOOLEAN]
    BY Zenon DEF Regions
  <1> QED  BY <1>1, <1>2, RecordRest, Zenon

LEMMA RegionTyped ==
    ASSUME NEW f \in Regions, NEW v \in BOOLEAN
    PROVE  /\ [f EXCEPT !.typed = v] \in Regions
           /\ [f EXCEPT !.typed = v].base = f.base /\ [f EXCEPT !.typed = v].size = f.size
           /\ [f EXCEPT !.typed = v].typed = v
           /\ [f EXCEPT !.typed = v, !.free = TRUE] \in Regions
           /\ [f EXCEPT !.typed = v, !.free = TRUE].base = f.base
           /\ [f EXCEPT !.typed = v, !.free = TRUE].size = f.size
  <1>1. TRUE \in {TRUE} /\ 0 \in Nat
    OBVIOUS
  <1>2. f \in [base : Nat, size : Nat, free : {TRUE}, typed : BOOLEAN]
    BY Zenon DEF Regions
  <1>4. [f EXCEPT !.typed = v] \in [base : Nat, size : Nat, free : {TRUE}, typed : BOOLEAN]
    BY <1>1, <1>2, RecordRest, Zenon
  <1>5. /\ [f EXCEPT !.typed = v].base = f.base /\ [f EXCEPT !.typed = v].size = f.size
        /\ [f EXCEPT !.typed = v].typed = v
    BY <1>1, <1>2, RecordRest, Zenon
  <1>6. /\ [f EXCEPT !.typed = v, !.free = TRUE]
              \in [base : Nat, size : Nat, free : {TRUE}, typed : BOOLEAN]
        /\ [f EXCEPT !.typed = v, !.free = TRUE].base = f.base
        /\ [f EXCEPT !.typed = v, !.free = TRUE].size = f.size
    BY <1>1, <1>2, RecordRest, Zenon
  <1> QED  BY <1>4, <1>5, <1>6, Zenon DEF Regions

LEMMA BlockRest ==
    ASSUME NEW f \in BlockFields, NEW a \in Nat, NEW w \in Nat, NEW q \in Prots
    PROVE  /\ [f EXCEPT !.size = w].prot = f.prot
           /\ [f EXCEPT !.base = a, !.size = w].prot = f.prot
           /\ [f EXCEPT !.prot = q] \in BlockFields
           /\ [f EXCEPT !.prot = q].base = f.base /\ [f EXCEPT !.prot = q].size = f.size
           /\ [f EXCEPT !.prot = q].prot = q
  BY DEF BlockFields

(* a is a multiple of VMBLOCK_AT_ALIGN. *)
Aligned(a) == Over(a, Align) = 0

LEMMA AlignedTimes ==
    ASSUME NEW q \in Nat
    PROVE  Aligned(q * Align)
  <1>1. Align \in Nat \ {0}
    BY AddressSpaceAssumption
  <1> DEFINE a == q * Align
             d == Quot(a, Align)
             o == Over(a, Align)
  <1>2. a \in Nat
    BY <1>1
  <1>3. d \in Nat /\ o \in 0 .. Align - 1 /\ a = d * Align + o
    <2> HIDE DEF a
    <2> QED  BY <1>1, <1>2, DivMod
  <1> HIDE DEF d, o
  <1>4. ~(d < q)
    <2> SUFFICES ASSUME d < q  PROVE FALSE
      OBVIOUS
    <2>1. d * Align + Align <= q * Align
      BY <1>1, <1>3, MulApart
    <2>2. d * Align \in Nat /\ q * Align \in Nat
      BY <1>1, <1>3
    <2> QED  BY <1>1, <1>3, <2>1, <2>2
  <1>5. ~(q < d)
    <2> SUFFICES ASSUME q < d  PROVE FALSE
      OBVIOUS
    <2>1. q * Align + Align <= d * Align
      BY <1>1, <1>3, MulApart
    <2>2. d * Align \in Nat /\ q * Align \in Nat
      BY <1>1, <1>3
    <2> QED  BY <1>1, <1>3, <2>1, <2>2
  <1>6. d = q
    BY <1>3, <1>4, <1>5
  <1>7. o = 0
    BY <1>2, <1>3, <1>6
  <1> QED  BY <1>7 DEF Aligned, o

LEMMA AlignedIs ==
    ASSUME NEW a \in Nat, Aligned(a)
    PROVE  \E q \in Nat : a = q * Align
  <1>1. Align \in Nat \ {0}
    BY AddressSpaceAssumption
  <1>2. Quot(a, Align) \in Nat /\ a = Quot(a, Align) * Align + 0
    BY <1>1, DivMod DEF Aligned
  <1>3. Quot(a, Align) * Align \in Nat
    BY <1>1, <1>2
  <1> QED  BY <1>2, <1>3

LEMMA AlignedSum ==
    ASSUME NEW a \in Nat, NEW c \in Nat, Aligned(a), Aligned(c)
    PROVE  Aligned(a + c) /\ (c <= a => Aligned(a - c))
  <1>1. Align \in Nat \ {0}
    BY AddressSpaceAssumption
  <1>2. PICK q \in Nat : a = q * Align
    BY AlignedIs
  <1>3. PICK r \in Nat : c = r * Align
    BY AlignedIs
  <1>4. Aligned(a + c)
    <2>1. q + r \in Nat /\ a + c = (q + r) * Align
      BY <1>1, <1>2, <1>3
    <2>2. Aligned((q + r) * Align)
      BY <2>1, AlignedTimes
    <2> QED  BY <2>1, <2>2
  <1>5. ASSUME c <= a  PROVE Aligned(a - c)
    <2>1. ~(q < r)
      <3> SUFFICES ASSUME q < r  PROVE FALSE
        OBVIOUS
      <3>1. q * Align + Align <= r * Align
        BY <1>1, MulApart
      <3> QED  BY <1>1, <1>2, <1>3, <1>5, <3>1
    <2>2. q - r \in Nat /\ a - c = (q - r) * Align
      BY <1>1, <1>2, <1>3, <2>1
    <2>3. Aligned((q - r) * Align)
      BY <2>2, AlignedTimes
    <2> QED  BY <2>2, <2>3
  <1> QED  BY <1>4, <1>5

LEMMA AlignUpIs ==
    ASSUME NEW n \in Nat
    PROVE  /\ AlignUp(n) \in Nat /\ n <= AlignUp(n) /\ Aligned(AlignUp(n))
           /\ n < AlignUp(n) => ~Aligned(n)
  <1>1. Align \in Nat \ {0}
    BY AddressSpaceAssumption
  <1> DEFINE c == n + Align - 1
             q == Quot(c, Align)
             o == Over(c, Align)
  <1>2. c \in Nat /\ c = n + (Align - 1)
    BY <1>1
  <1>3. q \in Nat /\ o \in 0 .. Align - 1 /\ c = q * Align + o
    <2> HIDE DEF c
    <2> QED  BY <1>1, <1>2, DivMod
  <1>4. AlignUp(n) = q * Align
    BY DEF AlignUp, Quot
  <1> HIDE DEF c, q, o
  <1>5. q * Align \in Nat
    BY <1>1, <1>3
  <1>6. n <= q * Align
    BY <1>1, <1>2, <1>3, <1>5
  <1>7. Aligned(AlignUp(n))
    BY <1>3, <1>4, AlignedTimes
  <1>8. ASSUME n < AlignUp(n), Aligned(n)  PROVE FALSE
    <2>1. PICK r \in Nat : n = r * Align
      BY <1>8, AlignedIs
    <2>2. r < q
      <3> SUFFICES ASSUME q <= r  PROVE FALSE
        BY <1>3, <2>1
      <3>1. q = r \/ q < r
        BY <1>3, <2>1
      <3>2. q < r => q * Align + Align <= r * Align
        BY <1>1, <1>3, <2>1, MulApart
      <3> QED  BY <1>1, <1>4, <1>5, <1>8, <2>1, <3>1, <3>2
    <2>3. r * Align + Align <= q * Align
      BY <1>1, <1>3, <2>1, <2>2, MulApart
    <2> QED  BY <1>1, <1>2, <1>3, <1>5, <2>1, <2>3
  <1> QED  BY <1>4, <1>5, <1>6, <1>7, <1>8

-----------------------------------------------------------------------------
(* Lists of blocks *)

(* The nodes of l stand in a line that tiles b to b + s. *)
Covers(l, b, s) == \E sq : \E n : Line(l, sq, n) /\ Tiled(l, sq, n, b, s)

(* Every address has in m the protection it has in l. *)
Keeps(m, l) ==
    \A y : \A a \in Int : At(m, y, a) =>
       \E z : At(l, z, a) /\ Field(m, y).prot = Field(l, z).prot

(* New fields of the same range leave the line as it is. *)
LEMMA FieldSetLine ==
    ASSUME NEW l, NEW m, NEW p \in Nodes(l), NEW g, FieldSet(m, l, p, g),
           g.base = Field(l, p).base, g.size = Field(l, p).size,
           NEW sq, NEW n, NEW b, NEW s, Line(l, sq, n), Tiled(l, sq, n, b, s)
    PROVE  /\ Line(m, sq, n) /\ Tiled(m, sq, n, b, s)
           /\ Back(l, sq, n) => Back(m, sq, n)
           /\ \A y \in Nodes(l) : /\ Field(m, y).base = Field(l, y).base
                                  /\ Field(m, y).size = Field(l, y).size
                                  /\ End(m, y) = End(l, y)
  <1>1. /\ Nodes(m) = Nodes(l) /\ m.first = l.first /\ m.last = l.last /\ Field(m, p) = g
        /\ \A y \in Nodes(l) : /\ y # p => Field(m, y) = Field(l, y)
                               /\ PrevOf(m, y) = PrevOf(l, y) /\ NextOf(m, y) = NextOf(l, y)
    BY DEF FieldSet
  <1>2. \A y \in Nodes(l) : /\ Field(m, y).base = Field(l, y).base
                            /\ Field(m, y).size = Field(l, y).size
                            /\ End(m, y) = End(l, y)
    BY <1>1 DEF End
  <1>3. n \in Nat \ {0} /\ sq \in [1 .. n -> Nodes(l)]
    BY DEF Line
  <1>4. \A j \in 1 .. n : NextOf(m, sq[j]) = NextOf(l, sq[j]) /\ PrevOf(m, sq[j]) = PrevOf(l, sq[j])
    BY <1>1, <1>3
  <1>5. Line(m, sq, n)
    BY <1>1, <1>4 DEF Line
  <1>6. /\ Field(m, sq[1]).base = Field(l, sq[1]).base /\ End(m, sq[n]) = End(l, sq[n])
        /\ \A j \in 1 .. n - 1 : /\ Field(m, sq[j + 1]).base = Field(l, sq[j + 1]).base
                                 /\ End(m, sq[j]) = End(l, sq[j])
    <2>1. 1 \in 1 .. n /\ n \in 1 .. n /\ \A j \in 1 .. n - 1 : j \in 1 .. n /\ j + 1 \in 1 .. n
      BY <1>3
    <2> QED  BY <1>2, <1>3, <2>1
  <1>7. Tiled(m, sq, n, b, s)
    BY <1>1, <1>2, <1>6 DEF Tiled
  <1>8. ASSUME Back(l, sq, n)  PROVE Back(m, sq, n)
    <2>1. 1 \in 1 .. n /\ \A i \in 2 .. n : i \in 1 .. n
      BY <1>3
    <2> QED  BY <1>4, <1>8, <2>1 DEF Back
  <1> QED  BY <1>2, <1>5, <1>7, <1>8

LEMMA KeepsOn ==
    ASSUME NEW l, NEW m, NEW m2, Keeps(m, l), Keeps(m2, m)
    PROVE  Keeps(m2, l)
  <1> SUFFICES ASSUME NEW y, NEW a \in Int, At(m2, y, a)
               PROVE  \E z : At(l, z, a) /\ Field(m2, y).prot = Field(l, z).prot
    BY DEF Keeps
  <1>1. PICK x : At(m, x, a) /\ Field(m2, y).prot = Field(m, x).prot
    BY DEF Keeps
  <1>2. PICK z : At(l, z, a) /\ Field(m, x).prot = Field(l, z).prot
    BY <1>1 DEF Keeps
  <1> QED  BY <1>1, <1>2

LEMMA CoversFacts ==
    ASSUME NEW l, NEW b, NEW s, Covers(l, b, s)
    PROVE  /\ b \in Nat /\ s \in Nat /\ 0 \notin Nodes(l) /\ l.first \in Nodes(l)
           /\ Tiles(l, b, s)
           /\ \A x \in Nodes(l) :
                 /\ Field(l, x).base \in Nat /\ Field(l, x).size \in Nat /\ End(l, x) \in Nat
                 /\ End(l, x) = Field(l, x).base + Field(l, x).size
                 /\ b <= Field(l, x).base /\ End(l, x) <= b + s
  <1>1. PICK sq, n : Line(l, sq, n) /\ Tiled(l, sq, n, b, s)
    BY DEF Covers
  <1>2. b \in Nat /\ s \in Nat /\ 0 \notin Nodes(l) /\ l.first \in Nodes(l)
    BY <1>1 DEF Line, Tiled
  <1>3. Tiles(l, b, s)
    BY <1>1, LineTiles
  <1> QED  BY <1>1, <1>2, <1>3, EndIs, TiledBounds

LEMMA CoversAtOnce ==
    ASSUME NEW l, NEW b, NEW s, Covers(l, b, s), NEW a \in Int, NEW x, NEW y,
           At(l, x, a), At(l, y, a)
    PROVE  x = y
  <1>1. PICK sq, n : Line(l, sq, n) /\ Tiled(l, sq, n, b, s)
    BY DEF Covers
  <1> QED  BY <1>1, AtOnce

LEMMA CoversEndsAfter ==
    ASSUME NEW l, NEW b, NEW s, Covers(l, b, s), NEW x \in Nodes(l), NEW a \in Nat,
           Field(l, x).base <= a
    PROVE  \/ EndsAfter(l, x, a) = 0 /\ b + s <= a
           \/ EndsAfter(l, x, a) # 0 /\ a < b + s /\ At(l, EndsAfter(l, x, a), a)
  <1>1. PICK sq, n : Line(l, sq, n) /\ Tiled(l, sq, n, b, s)
    BY DEF Covers
  <1>2. PICK i \in 1 .. n : x = sq[i]
    BY <1>1 DEF Line
  <1>3. LiesIn(l, sq, n, i, a, b + s, EndsAfter(l, x, a))
    BY <1>1, <1>2, EndsAfterIs
  <1>4. 0 \notin Nodes(l)
    BY CoversFacts
  <1> QED  BY <1>3, <1>4 DEF LiesIn, At

LEMMA CoversFirst ==
    ASSUME NEW l, NEW b, NEW s, Covers(l, b, s), NEW a \in b .. b + s - 1
    PROVE  At(l, EndsAfter(l, l.first, a), a)
  <1>1. PICK sq, n : Line(l, sq, n) /\ Tiled(l, sq, n, b, s)
    BY DEF Covers
  <1> QED  BY <1>1, FirstEndsAfter

(* A list that is whole while the program runs. *)
BlockList(l, b, s) ==
    /\ l \in Lists(BlockFields) /\ Numbered(l)
    /\ l.fate = "ok" => Covers(l, b, s)

(* Block p has been cut behind want pages, if it has more than those. *)
CutOff(m, l, p, want, b, s) ==
    /\ m \in Lists(BlockFields) /\ Numbered(m) /\ m.fate = l.fate /\ Covers(m, b, s)
    /\ Keeps(m, l)
    /\ p \in Nodes(m) /\ Field(m, p).base = Field(l, p).base
    /\ want = 0 \/ want = Field(l, p).size => m = l
    /\ want # 0 /\ want # Field(l, p).size =>
          /\ End(m, p) = Field(l, p).base + want
          /\ NextOf(m, p) \in Nodes(m)
          /\ Field(m, NextOf(m, p)).base = Field(l, p).base + want
          /\ End(m, NextOf(m, p)) = End(l, p)

LEMMA SplitOffDoes ==
    ASSUME NEW l \in Lists(BlockFields), Numbered(l), NEW b, NEW s, Covers(l, b, s),
           NEW p \in Nodes(l), NEW want \in 0 .. Field(l, p).size
    PROVE  CutOff(SplitOff(l, p, want), l, p, want, b, s)
  <1> DEFINE m == SplitOff(l, p, want)
  <1>1. CASE want = 0 \/ want = Field(l, p).size
    <2>1. m = l
      BY <1>1 DEF SplitOff
    <2>2. Keeps(l, l)
      BY DEF Keeps
    <2> HIDE DEF m
    <2> QED  BY <1>1, <2>1, <2>2 DEF CutOff, m
  <1>2. CASE want # 0 /\ want # Field(l, p).size
    <2>1. m = SplitAt(l, p, want)
      BY <1>2 DEF SplitOff
    <2>2. PICK sq, n : Line(l, sq, n) /\ Tiled(l, sq, n, b, s)
      BY DEF Covers
    <2>3. PICK i \in 1 .. n : p = sq[i]
      BY <2>2 DEF Line
    <2> DEFINE new == NewNode(l)
               f == Field(l, p)
               g == [f EXCEPT !.size = want]
               h == [f EXCEPT !.base = f.base + want, !.size = f.size - want]
    <2> HIDE DEF m, new
    <2>4. /\ m \in Lists(BlockFields)
          /\ SplitInto(m, l, sq, n, i, want)
          /\ Line(m, Spliced(sq, n, i, new), n + 1)
          /\ Tiled(m, Spliced(sq, n, i, new), n + 1, b, s)
      BY <2>1, <2>2, <2>3, BlocksAreRanges, SplitDoes DEF new
    <2>5. /\ Numbered(m) /\ m.fate = l.fate
          /\ Nodes(m) = Nodes(l) \cup {new} /\ new \notin Nodes(l)
          /\ NextOf(m, p) = new /\ Field(m, p) = g /\ Field(m, new) = h
          /\ \A y \in Nodes(l) \ {p} : Field(m, y) = Field(l, y)
      BY <2>3, <2>4 DEF SplitInto, new
    <2>6. /\ f \in BlockFields /\ f.base \in Nat /\ f.size \in Nat /\ want \in Nat
          /\ want <= f.size /\ f.base + want \in Nat /\ f.size - want \in Nat
      <3>1. f \in BlockFields /\ f.base \in Nat /\ f.size \in Nat
        BY ListFacts, CoversFacts
      <3> HIDE DEF f
      <3>2. want \in 0 .. f.size
        BY DEF f
      <3> QED  BY <3>1, <3>2
    <2>7. /\ g.base = f.base /\ g.size = want /\ g.prot = f.prot
          /\ h.base = f.base + want /\ h.size = f.size - want /\ h.prot = f.prot
      <3> HIDE DEF f
      <3> QED  BY <2>6 DEF BlockFields
    <2> HIDE DEF f, g, h
    <2>8. /\ End(m, p) = f.base + want /\ End(m, new) = f.base + f.size
          /\ End(l, p) = f.base + f.size
      BY <2>5, <2>6, <2>7 DEF End, f
    <2>9. Keeps(m, l)
      <3> SUFFICES ASSUME NEW y, NEW a \in Int, At(m, y, a)
                   PROVE  \E z : At(l, z, a) /\ Field(m, y).prot = Field(l, z).prot
        BY DEF Keeps
      <3>1. CASE y = p
        <4>1. At(l, p, a)
          BY <2>5, <2>6, <2>7, <2>8, <3>1 DEF At, f
        <4> QED  BY <2>5, <2>7, <3>1, <4>1 DEF f
      <3>2. CASE y = new
        <4>1. At(l, p, a)
          BY <2>5, <2>6, <2>7, <2>8, <3>2 DEF At, f
        <4> QED  BY <2>5, <2>7, <3>2, <4>1 DEF f
      <3>3. CASE y # p /\ y # new
        <4>1. y \in Nodes(l) /\ Field(m, y) = Field(l, y)
          BY <2>5, <3>3 DEF At
        <4>2. At(l, y, a)
          BY <4>1 DEF At, End
        <4> QED  BY <4>1, <4>2
      <3> QED  BY <3>1, <3>2, <3>3
    <2>10. Covers(m, b, s)
      BY <2>4 DEF Covers
    <2>11. /\ p \in Nodes(m) /\ Field(m, p).base = Field(l, p).base
           /\ End(m, p) = Field(l, p).base + want
           /\ NextOf(m, p) \in Nodes(m)
           /\ Field(m, NextOf(m, p)).base = Field(l, p).base + want
           /\ End(m, NextOf(m, p)) = End(l, p)
      BY <2>5, <2>7, <2>8 DEF f
    <2> QED  BY <1>2, <2>4, <2>5, <2>9, <2>10, <2>11 DEF CutOff, m
  <1> QED  BY <1>1, <1>2

(* p has taken in blocks of S. *)
LEMMA AbsorbBlocks ==
    ASSUME NEW l \in Lists(BlockFields), Numbered(l), NEW b, NEW s, Covers(l, b, s),
           NEW p \in Nodes(l), NEW S
    PROVE  /\ BlockList(AbsorbWhile(l, p, S), b, s)
           /\ p \in Nodes(AbsorbWhile(l, p, S))
           /\ AbsorbWhile(l, p, S).fate = "ok" /\ S \subseteq SameProtect(l, p) =>
                 Keeps(AbsorbWhile(l, p, S), l)
  <1>1. PICK sq, n : Line(l, sq, n) /\ Tiled(l, sq, n, b, s)
    BY DEF Covers
  <1>2. PICK i \in 1 .. n : p = sq[i]
    BY <1>1 DEF Line
  <1>3. PICK m : m = AbsorbWhile(l, p, S)
    OBVIOUS
  <1>4. /\ m \in Lists(BlockFields) /\ Shrunk(m, l, sq, i, b + s)
        /\ m.fate = "ok" => \E t : \E c : WholeAgain(m, l, sq, i, S, b, s, t, c)
    BY <1>1, <1>2, <1>3, BlocksAreRanges, AbsorbWhileDoes
  <1>5. n \in Nat /\ i \in 1 .. i
    BY <1>1 DEF Line
  <1>6. /\ m.made = l.made /\ Nodes(m) \subseteq Nodes(l) /\ p \in Nodes(m)
        /\ \A y \in Nodes(m) \ {p} : Field(m, y) = Field(l, y)
        /\ Field(m, p).size \in Nat
        /\ Field(m, p) = [Field(l, p) EXCEPT !.size = Field(m, p).size]
    BY <1>2, <1>4, <1>5 DEF Shrunk
  <1>7. Numbered(m)
    BY <1>6 DEF Numbered
  <1>8. Field(m, p).prot = Field(l, p).prot
    <2>1. Field(l, p) \in BlockFields
      BY ListFacts
    <2>2. [Field(l, p) EXCEPT !.size = Field(m, p).size].prot = Field(l, p).prot
      BY <1>6, <2>1 DEF BlockFields
    <2> QED  BY <1>6, <2>2
  <1>9. ASSUME m.fate = "ok"
        PROVE  Covers(m, b, s) /\ (S \subseteq SameProtect(l, p) => Keeps(m, l))
    <2>1. PICK t, c : WholeAgain(m, l, sq, i, S, b, s, t, c)
      BY <1>4, <1>9
    <2>2. Covers(m, b, s)
      BY <2>1 DEF WholeAgain, Covers
    <2>3. ASSUME S \subseteq SameProtect(l, p)  PROVE Keeps(m, l)
      <3> SUFFICES ASSUME NEW y, NEW a \in Int, At(m, y, a)
                   PROVE  \E z : At(l, z, a) /\ Field(m, y).prot = Field(l, z).prot
        BY DEF Keeps
      <3>1. At(l, y, a) \/ (y = p /\ \E x \in S : At(l, x, a))
        BY <1>2, <2>1 DEF WholeAgain
      <3>2. Field(m, y).prot = Field(l, y).prot
        BY <1>6, <1>8 DEF At
      <3>3. \A x \in S : Field(l, x).prot = Field(l, p).prot
        BY <2>3 DEF SameProtect
      <3> QED  BY <3>1, <3>2, <3>3
    <2> QED  BY <2>2, <2>3
  <1> QED  BY <1>3, <1>4, <1>6, <1>7, <1>9 DEF BlockList

LEMMA FollowBlocks ==
    ASSUME NEW m, NEW b, NEW s, BlockList(m, b, s), NEW q
    PROVE  /\ BlockList(Follow(m, q), b, s)
           /\ Follow(m, q).fate = "ok" => Follow(m, q) = m /\ q \in Nodes(m)
  <1>1. PICK k : k = Follow(m, q)
    OBVIOUS
  <1>2. /\ k \in Lists(BlockFields) /\ k.made = m.made /\ Nodes(k) = Nodes(m)
        /\ k.fate = "ok" => k = m /\ m.fate = "ok" /\ q \in Nodes(m)
    BY <1>1, FollowDoes DEF BlockList
  <1> QED  BY <1>1, <1>2 DEF BlockList, Numbered

LEMMA MergeBackBlocks ==
    ASSUME NEW m, NEW b, NEW s, BlockList(m, b, s), NEW q
    PROVE  /\ BlockList(MergeBack(m, q), b, s)
           /\ MergeBack(m, q).fate = "ok" => MergeBack(m, q) = m
  BY FollowBlocks DEF MergeBack

LEMMA mergeDoes ==
    ASSUME NEW l \in Lists(BlockFields), Numbered(l), NEW b, NEW s, Covers(l, b, s)
    PROVE  BlockList(merge(l), b, s)
  <1>1. PICK m : m = AbsorbWhile(l, l.first, NotYetLast(l))
    OBVIOUS
  <1>2. BlockList(m, b, s)
    BY <1>1, AbsorbBlocks, CoversFacts
  <1>3. BlockList(Follow(m, NextOf(m, m.first)), b, s)
    BY <1>2, FollowBlocks
  <1> QED  BY <1>1, <1>2, <1>3 DEF merge

(* The pages of block p have protection prot, the others what they had. *)
Protects(m, l, p, prot) ==
    \A y : \A a \in Int : At(m, y, a) =>
       \E z : At(l, z, a) /\ Field(m, y).prot = IF z = p THEN prot ELSE Field(l, z).prot

LEMMA ProtectDoes ==
    ASSUME NEW l \in Lists(BlockFields), Numbered(l), NEW b, NEW s, Covers(l, b, s),
           NEW p, NEW prot \in Prots
    PROVE  /\ BlockList(Protect(l, p, prot), b, s)
           /\ Protect(l, p, prot).fate = "ok" => Protects(Protect(l, p, prot), l, p, prot)
  <1>0. BlockList(l, b, s)
    BY DEF BlockList
  <1>1. PICK m0 : m0 = Follow(l, p)
    OBVIOUS
  <1>2. BlockList(m0, b, s) /\ (m0.fate = "ok" => m0 = l /\ p \in Nodes(l))
    BY <1>0, <1>1, FollowBlocks
  <1>3. CASE m0.fate # "ok"
    BY <1>1, <1>2, <1>3 DEF Protect
  <1>4. CASE m0.fate = "ok"
    <2>1. m0 = l /\ p \in Nodes(l)
      BY <1>2, <1>4
    <2> DEFINE f == Field(l, p)
               g == [f EXCEPT !.prot = prot]
    <2>2. PICK k : k = SetField(l, p, g)
      OBVIOUS
    <2>3. f \in BlockFields /\ g \in BlockFields /\ g.base = f.base /\ g.size = f.size
          /\ g.prot = prot
      <3>1. f \in BlockFields
        BY <2>1, ListFacts
      <3> HIDE DEF f
      <3> QED  BY <3>1 DEF BlockFields
    <2> HIDE DEF f, g
    <2>4. k \in Lists(BlockFields) /\ FieldSet(k, l, p, g)
      BY <2>1, <2>2, <2>3, SetFieldDoes
    <2>5. /\ Nodes(k) = Nodes(l) /\ k.first = l.first /\ k.last = l.last /\ k.fate = l.fate
          /\ k.made = l.made /\ Field(k, p) = g
          /\ \A y \in Nodes(l) : /\ y # p => Field(k, y) = Field(l, y)
                                 /\ NextOf(k, y) = NextOf(l, y)
      BY <2>4 DEF FieldSet
    <2>6. PICK sq, n : Line(l, sq, n) /\ Tiled(l, sq, n, b, s)
      BY DEF Covers
    <2>7. /\ Covers(k, b, s)
          /\ \A y \in Nodes(l) : Field(k, y).base = Field(l, y).base /\ End(k, y) = End(l, y)
      <3>1. /\ Line(k, sq, n) /\ Tiled(k, sq, n, b, s)
            /\ \A y \in Nodes(l) : Field(k, y).base = Field(l, y).base /\ End(k, y) = End(l, y)
        BY <2>1, <2>3, <2>4, <2>6, FieldSetLine DEF f
      <3> QED  BY <3>1 DEF Covers
    <2>8. Protects(k, l, p, prot)
      <3> SUFFICES ASSUME NEW y, NEW a \in Int, At(k, y, a)
                   PROVE  \E z : /\ At(l, z, a)
                                 /\ Field(k, y).prot = IF z = p THEN prot ELSE Field(l, z).prot
        BY DEF Protects
      <3>1. At(l, y, a)
        BY <2>5, <2>7 DEF At
      <3>2. Field(k, y).prot = IF y = p THEN prot ELSE Field(l, y).prot
        BY <2>3, <2>5, <3>1 DEF At
      <3> QED  BY <3>1, <3>2
    <2>9. Numbered(k) /\ p \in Nodes(k)
      BY <2>1, <2>5 DEF Numbered
    <2>10. PICK m : m = AbsorbWhile(k, p, SameProtect(k, p))
      OBVIOUS
    <2>11. BlockList(m, b, s) /\ (m.fate = "ok" => Keeps(m, k))
      BY <2>4, <2>7, <2>9, <2>10, AbsorbBlocks
    <2>12. PICK e : e = MergeBack(m, p)
      OBVIOUS
    <2>13. BlockList(e, b, s) /\ (e.fate = "ok" => e = m)
      BY <2>11, <2>12, MergeBackBlocks
    <2>14. Protect(l, p, prot) = e
      BY <1>1, <1>4, <2>1, <2>2, <2>10, <2>12 DEF Protect, mergeSameProtect, f, g
    <2>15. ASSUME e.fate = "ok"  PROVE Protects(e, l, p, prot)
      <3> SUFFICES ASSUME NEW y, NEW a \in Int, At(e, y, a)
                   PROVE  \E z : /\ At(l, z, a)
                                 /\ Field(e, y).prot = IF z = p THEN prot ELSE Field(l, z).prot
        BY DEF Protects
      <3>1. PICK x : At(k, x, a) /\ Field(e, y).prot = Field(k, x).prot
        BY <2>11, <2>13, <2>15 DEF Keeps
      <3>2. PICK z : At(l, z, a) /\ Field(k, x).prot = IF z = p THEN prot ELSE Field(l, z).prot
        BY <2>8, <3>1 DEF Protects
      <3> QED  BY <3>1, <3>2
    <2> QED  BY <2>13, <2>14, <2>15
  <1> QED  BY <1>3, <1>4

(* The pages from base on have protection prot, the others what they had. *)
ProtectsRange(m, l, base, size, prot) ==
    \A y : \A a \in Int : At(m, y, a) =>
       \E z : /\ At(l, z, a)
              /\ Field(m, y).prot = IF a \in base .. base + size - 1 THEN prot
                                    ELSE Field(l, z).prot

LEMMA ProtectedDoes ==
    ASSUME NEW x, NEW b, NEW s, NEW size \in Nat \ {0}, NEW prot \in Prots,
           initBlock(x) \in Lists(BlockFields), Numbered(initBlock(x)),
           Covers(initBlock(x), b, s), NEW base \in b .. b + s - 1
    PROVE  /\ BlockList(Protected(x, base, size, prot), b, s)
           /\ Protected(x, base, size, prot).fate = "ok" /\ WithinBlock(x, base, size) =>
                 ProtectsRange(Protected(x, base, size, prot), initBlock(x), base, size, prot)
  <1> DEFINE l0   == initBlock(x)
             hit  == EndsAfter(l0, l0.first, base)
             gap  == base - Field(l0, hit).base
             l1   == SplitOff(l0, hit, gap)
             from == IF gap = 0 THEN hit ELSE NextOf(l1, hit)
             upto == EndsAfter(l1, from, base + size - 1)
             l2   == SplitOff(l1, upto, base + size - Field(l1, upto).base)
             l3   == IF from # upto THEN merge(l2) ELSE l2
             m    == Protected(x, base, size, prot)
  <1>1. m = IF upto = 0 THEN l1 ELSE IF l3.fate # "ok" THEN l3 ELSE Protect(l3, from, prot)
    BY DEF Protected
  <1>2. WithinBlock(x, base, size) <=> base + size <= End(l0, hit)
    BY DEF WithinBlock
  <1>3. l0 = initBlock(x)
    OBVIOUS
  <1>4. hit = EndsAfter(l0, l0.first, base)
    OBVIOUS
  <1>5. gap = base - Field(l0, hit).base
    OBVIOUS
  <1>6. l1 = SplitOff(l0, hit, gap)
    OBVIOUS
  <1>7. from = IF gap = 0 THEN hit ELSE NextOf(l1, hit)
    OBVIOUS
  <1>8. upto = EndsAfter(l1, from, base + size - 1)
    OBVIOUS
  <1>9. l2 = SplitOff(l1, upto, base + size - Field(l1, upto).base)
    OBVIOUS
  <1>10. l3 = IF from # upto THEN merge(l2) ELSE l2
    OBVIOUS
  <1>11. m = Protected(x, base, size, prot)
    OBVIOUS
  <1> HIDE DEF l0, hit, gap, l1, from, upto, l2, l3, m
  <1>12. l0 \in Lists(BlockFields) /\ Numbered(l0) /\ Covers(l0, b, s)
    BY <1>3
  <1>13. b \in Nat /\ s \in Nat /\ base \in Nat /\ b <= base /\ base < b + s
    BY <1>12, CoversFacts
  <1>14. At(l0, hit, base)
    BY <1>12, <1>4, CoversFirst
  <1>15. /\ hit \in Nodes(l0) /\ Field(l0, hit).base \in Nat /\ Field(l0, hit).size \in Nat
        /\ End(l0, hit) = Field(l0, hit).base + Field(l0, hit).size
        /\ Field(l0, hit).base <= base /\ base < End(l0, hit) /\ End(l0, hit) <= b + s
    BY <1>12, <1>14, CoversFacts DEF At
  <1>16. gap \in 0 .. Field(l0, hit).size /\ gap # Field(l0, hit).size
    BY <1>13, <1>15, <1>5
  <1>17. CutOff(l1, l0, hit, gap, b, s)
    BY <1>12, <1>15, <1>16, <1>6, SplitOffDoes
  <1>18. l1 \in Lists(BlockFields) /\ Numbered(l1) /\ Covers(l1, b, s) /\ Keeps(l1, l0)
         /\ l1.fate = l0.fate
    BY <1>17 DEF CutOff
  <1>19. /\ from \in Nodes(l1) /\ Field(l1, from).base = base
         /\ End(l1, from) = End(l0, hit)
    <2>1. CASE gap = 0
      <3>1. l1 = l0 /\ from = hit
        BY <1>17, <1>7, <2>1 DEF CutOff
      <3> QED  BY <1>13, <1>15, <1>5, <2>1, <3>1
    <2>2. CASE gap # 0
      <3>1. /\ from = NextOf(l1, hit) /\ NextOf(l1, hit) \in Nodes(l1)
            /\ Field(l1, NextOf(l1, hit)).base = Field(l0, hit).base + gap
            /\ End(l1, NextOf(l1, hit)) = End(l0, hit)
        BY <1>16, <1>17, <1>7, <2>2 DEF CutOff
      <3> QED  BY <1>13, <1>15, <1>5, <3>1
    <2> QED  BY <2>1, <2>2
  <1>20. base + size - 1 \in Nat /\ base <= base + size - 1
    BY <1>13
  <1>21. \/ upto = 0 /\ b + s <= base + size - 1
         \/ upto # 0 /\ base + size - 1 < b + s /\ At(l1, upto, base + size - 1)
    BY <1>18, <1>19, <1>8, <1>20, CoversEndsAfter
  <1>22. CASE upto = 0
    <2>1. ~WithinBlock(x, base, size)
      BY <1>13, <1>15, <1>21, <1>2, <1>22
    <2>2. BlockList(m, b, s)
      BY <1>18, <1>1, <1>22 DEF BlockList
    <2> QED  BY <1>11, <2>1, <2>2
  <1>23. CASE upto # 0
    <2> DEFINE want == base + size - Field(l1, upto).base
    <2>1. /\ upto \in Nodes(l1) /\ want \in 0 .. Field(l1, upto).size /\ want # 0
      <3>1. At(l1, upto, base + size - 1)
        BY <1>21, <1>23
      <3>2. /\ upto \in Nodes(l1) /\ Field(l1, upto).base \in Nat /\ Field(l1, upto).size \in Nat
            /\ Field(l1, upto).base <= base + size - 1
            /\ base + size - 1 < Field(l1, upto).base + Field(l1, upto).size
        BY <1>18, <3>1, CoversFacts DEF At
      <3> QED  BY <1>13, <3>2
    <2> HIDE DEF want
    <2>2. CutOff(l2, l1, upto, want, b, s)
      BY <1>18, <1>9, <2>1, SplitOffDoes DEF want
    <2>3. l2 \in Lists(BlockFields) /\ Numbered(l2) /\ Covers(l2, b, s) /\ Keeps(l2, l1)
      BY <2>2 DEF CutOff
    <2>4. BlockList(l3, b, s)
      <3>1. BlockList(merge(l2), b, s)
        BY <2>3, mergeDoes
      <3> QED  BY <1>10, <2>3, <3>1 DEF BlockList
    <2>5. BlockList(m, b, s)
      <3>1. CASE l3.fate # "ok"
        BY <1>1, <1>23, <2>4, <3>1
      <3>2. CASE l3.fate = "ok"
        BY <1>1, <1>23, <2>4, <3>2, ProtectDoes DEF BlockList
      <3> QED  BY <3>1, <3>2
    <2>6. ASSUME m.fate = "ok", WithinBlock(x, base, size)
          PROVE  ProtectsRange(m, l0, base, size, prot)
      <3>1. base + size <= End(l0, hit)
        BY <1>2, <2>6
      <3>2. At(l1, from, base + size - 1)
        BY <1>13, <1>15, <1>19, <3>1 DEF At
      <3>3. from = upto
        BY <1>18, <1>20, <1>21, <1>23, <3>2, CoversAtOnce
      <3>4. l3 = l2 /\ l2.fate = "ok"
        BY <1>10, <1>1, <1>23, <2>6, <3>3
      <3>5. Protects(m, l2, from, prot)
        BY <1>1, <1>23, <2>3, <2>6, <3>4, ProtectDoes
      <3>6. from \in Nodes(l2) /\ Field(l2, from).base = base /\ End(l2, from) = base + size
        <4>1. want = size
          BY <1>13, <1>19, <3>3 DEF want
        <4>2. from \in Nodes(l2) /\ Field(l2, from).base = base
          BY <1>19, <2>2, <3>3 DEF CutOff
        <4>3. CASE want = Field(l1, upto).size
          <5>1. l2 = l1
            BY <2>2, <4>3 DEF CutOff
          <5> QED  BY <1>19, <3>3, <4>1, <4>2, <4>3, <5>1 DEF End
        <4>4. CASE want # Field(l1, upto).size
          <5>1. End(l2, upto) = Field(l1, upto).base + want
            BY <2>1, <2>2, <4>4 DEF CutOff
          <5> QED  BY <1>19, <3>3, <4>1, <4>2, <5>1
        <4> QED  BY <4>3, <4>4
      <3>7. Keeps(l2, l0)
        BY <1>18, <2>3, KeepsOn
      <3> SUFFICES ASSUME NEW y, NEW a \in Int, At(m, y, a)
                   PROVE  \E z : /\ At(l0, z, a)
                                 /\ Field(m, y).prot = IF a \in base .. base + size - 1 THEN prot
                                                       ELSE Field(l0, z).prot
        BY DEF ProtectsRange
      <3>8. PICK w : At(l2, w, a) /\ Field(m, y).prot = IF w = from THEN prot
                                                         ELSE Field(l2, w).prot
        BY <3>5 DEF Protects
      <3>9. PICK z : At(l0, z, a) /\ Field(l2, w).prot = Field(l0, z).prot
        BY <3>7, <3>8 DEF Keeps
      <3>10. w = from <=> a \in base .. base + size - 1
        <4>1. a \in base .. base + size - 1 => At(l2, from, a)
          BY <1>13, <3>6 DEF At
        <4>2. w = from => base <= a /\ a < base + size
          BY <3>6, <3>8 DEF At
        <4> QED  BY <1>13, <2>3, <3>8, <4>1, <4>2, CoversAtOnce
      <3> QED  BY <3>8, <3>9, <3>10
    <2> QED  BY <1>3, <1>11, <2>5, <2>6
  <1> QED  BY <1>22, <1>23

LEMMA SingleBlock ==
    ASSUME NEW b \in Nat, NEW s \in Nat, NEW prot \in Prots, NEW l,
           l = Single([base |-> b, size |-> s, prot |-> prot])
    PROVE  /\ l \in Lists(BlockFields) /\ Numbered(l) /\ Covers(l, b, s) /\ l.fate = "ok"
           /\ \A x \in Nodes(l) : Field(l, x).prot = prot
  <1> DEFINE f == [base |-> b, size |-> s, prot |-> prot]
             D == {1}
             fs == [x \in D |-> f]
             zs == [x \in D |-> 0]
             sq == [i \in 1 .. 1 |-> 1]
  <1>1. f \in BlockFields /\ f.base = b /\ f.size = s /\ f.prot = prot
    BY DEF BlockFields
  <1>2. l = ListOf(1, 1, "ok", 1, D, fs, zs, zs)
    <2> HIDE DEF f
    <2>1. [x \in {1} |-> [f |-> f, prev |-> 0, next |-> 0]]
            = [x \in D |-> [f |-> fs[x], prev |-> zs[x], next |-> zs[x]]]
      OBVIOUS
    <2>2. l = Single(f)
      BY DEF f
    <2> HIDE DEF fs, zs, D
    <2> QED  BY <2>1, <2>2 DEF Single, ListOf
  <1>3. l \in Lists(BlockFields) /\ Made(l, D, fs, zs, zs)
    <2> HIDE DEF f
    <2>1. D \in SUBSET (Nat \ {0}) /\ fs \in [D -> BlockFields] /\ zs \in [D -> Nat]
      BY <1>1
    <2>2. 1 \in Nat /\ "ok" \in {"ok", "null", "dangling"}
      OBVIOUS
    <2> HIDE DEF fs, zs, D
    <2>3. /\ ListOf(1, 1, "ok", 1, D, fs, zs, zs) \in Lists(BlockFields)
          /\ Made(ListOf(1, 1, "ok", 1, D, fs, zs, zs), D, fs, zs, zs)
      BY <2>1, <2>2, MadeList
    <2> QED  BY <1>2, <2>3
  <1>4. Nodes(l) = {1} /\ Field(l, 1) = f /\ NextOf(l, 1) = 0
    <2> HIDE DEF f
    <2> QED  BY <1>3 DEF Made
  <1>5. l.first = 1 /\ l.last = 1 /\ l.fate = "ok" /\ l.made = 1
    <2> HIDE DEF fs, zs, D
    <2> QED  BY <1>2 DEF ListOf
  <1> HIDE DEF f
  <1>6. Line(l, sq, 1)
    BY <1>4, <1>5 DEF Line
  <1>7. Tiled(l, sq, 1, b, s)
    BY <1>1, <1>4 DEF Tiled, End
  <1>8. Numbered(l)
    BY <1>4, <1>5 DEF Numbered
  <1> QED  BY <1>1, <1>3, <1>4, <1>5, <1>6, <1>7, <1>8 DEF Covers

-----------------------------------------------------------------------------
(* Lists of regions *)

(* Forwards the regions cover the space, backwards every one leads to an   *)
(* earlier one.                                                            *)
Stands(l) == \E sq : \E n : Line(l, sq, n) /\ Tiled(l, sq, n, 0, Room) /\ Back(l, sq, n)

(* A region without a type begins and ends on aligned addresses, or begins *)
(* on none.                                                                *)
Even(l, x) == ~Field(l, x).typed /\ Aligned(Field(l, x).base) => Aligned(Field(l, x).size)

LEMMA StandsFacts ==
    ASSUME NEW l, Stands(l)
    PROVE  /\ Tiles(l, 0, Room) /\ 0 \notin Nodes(l) /\ l.first \in Nodes(l)
           /\ \A x \in Nodes(l) :
                 /\ Field(l, x).base \in 0 .. Room /\ Field(l, x).size \in 0 .. Room
                 /\ End(l, x) = Field(l, x).base + Field(l, x).size /\ End(l, x) <= Room
  <1>1. Covers(l, 0, Room)
    BY DEF Stands, Covers
  <1>2. /\ Tiles(l, 0, Room) /\ 0 \notin Nodes(l) /\ l.first \in Nodes(l)
        /\ \A x \in Nodes(l) :
              /\ Field(l, x).base \in Nat /\ Field(l, x).size \in Nat
              /\ End(l, x) = Field(l, x).base + Field(l, x).size /\ End(l, x) <= 0 + Room
    BY <1>1, CoversFacts
  <1>3. Room \in Nat
    BY AddressSpaceAssumption
  <1> QED  BY <1>2, <1>3

(* Region p has been cut behind want pages. *)
RegionCut(m, l, p, want) ==
    /\ m \in Lists(Regions) /\ Numbered(m) /\ Stands(m) /\ m.fate = l.fate
    /\ m.made = l.made + 1 /\ m.made \notin Nodes(l) /\ Nodes(m) = Nodes(l) \cup {m.made}
    /\ NextOf(m, p) = m.made
    /\ Field(m, p).base = Field(l, p).base /\ Field(m, p).size = want
    /\ Field(m, p).typed = Field(l, p).typed
    /\ Field(m, m.made).base = Field(l, p).base + want
    /\ Field(m, m.made).size = Field(l, p).size - want
    /\ Field(m, m.made).typed = Field(l, p).typed
    /\ \A y \in Nodes(l) \ {p} : Field(m, y) = Field(l, y)

LEMMA RegionCutDoes ==
    ASSUME NEW l \in Lists(Regions), Numbered(l), Stands(l), NEW p \in Nodes(l),
           NEW want \in 0 .. Field(l, p).size
    PROVE  RegionCut(SplitAt(l, p, want), l, p, want)
  <1> DEFINE m == SplitAt(l, p, want)
             new == NewNode(l)
             f == Field(l, p)
             g == [f EXCEPT !.size = want]
             h == [f EXCEPT !.base = f.base + want, !.size = f.size - want]
  <1>1. PICK sq, n : Line(l, sq, n) /\ Tiled(l, sq, n, 0, Room) /\ Back(l, sq, n)
    BY DEF Stands
  <1>2. PICK i \in 1 .. n : p = sq[i]
    BY <1>1 DEF Line
  <1>3. /\ m \in Lists(Regions)
        /\ SplitInto(m, l, sq, n, i, want)
        /\ Line(m, Spliced(sq, n, i, new), n + 1)
        /\ Tiled(m, Spliced(sq, n, i, new), n + 1, 0, Room)
        /\ Back(m, Spliced(sq, n, i, new), n + 1)
    BY <1>1, <1>2, RegionsAreRanges, SplitDoes
  <1> HIDE DEF m
  <1>4. /\ Numbered(m) /\ m.made = new /\ m.fate = l.fate
        /\ Nodes(m) = Nodes(l) \cup {new} /\ new \notin Nodes(l)
        /\ NextOf(m, p) = new /\ Field(m, p) = g /\ Field(m, new) = h
        /\ \A y \in Nodes(l) \ {p} : Field(m, y) = Field(l, y)
    <2> HIDE DEF new
    <2> QED  BY <1>2, <1>3 DEF SplitInto, new
  <1>5. /\ f \in Regions /\ f.base \in Nat /\ f.size \in Nat /\ want \in Nat
        /\ f.base + want \in Nat /\ f.size - want \in Nat
    <2>1. f \in Regions
      BY ListFacts
    <2>2. f.base \in Nat /\ f.size \in Nat /\ want \in 0 .. f.size
      BY StandsFacts
    <2> HIDE DEF f
    <2> QED  BY <2>1, <2>2
  <1> DEFINE u == f.base + want
             v == f.size - want
  <1>6. /\ g.base = f.base /\ g.size = want /\ g.typed = f.typed
    <2> HIDE DEF f
    <2> QED  BY <1>5, RegionSized, Zenon
  <1>7. /\ h.base = u /\ h.size = v /\ h.typed = f.typed
    <2>1. u \in Nat /\ v \in Nat /\ f \in Regions
      BY <1>5
    <2>2. h = [f EXCEPT !.base = u, !.size = v]
      OBVIOUS
    <2> HIDE DEF u, v, f, h
    <2>3. /\ [f EXCEPT !.base = u, !.size = v].base = u
          /\ [f EXCEPT !.base = u, !.size = v].size = v
          /\ [f EXCEPT !.base = u, !.size = v].typed = f.typed
      BY <2>1, RegionMoved
    <2> QED  BY <2>2, <2>3, Zenon
  <1>8. Stands(m)
    <2> HIDE DEF new
    <2> QED  BY <1>3 DEF Stands
  <1>9. Field(m, p).base = f.base /\ Field(m, p).size = want /\ Field(m, p).typed = f.typed
    <2> HIDE DEF f, g, h
    <2> QED  BY <1>4, <1>6, Zenon
  <1>10. /\ Field(m, m.made).base = u /\ Field(m, m.made).size = v
         /\ Field(m, m.made).typed = f.typed
    <2> HIDE DEF f, g, h, u, v
    <2> QED  BY <1>4, <1>6, <1>7, Zenon
  <1>11. new = l.made + 1
    BY DEF NewNode
  <1> HIDE DEF f, g, h, new
  <1>12. /\ m \in Lists(Regions) /\ Numbered(m) /\ Stands(m) /\ m.fate = l.fate
         /\ m.made = l.made + 1 /\ m.made \notin Nodes(l) /\ Nodes(m) = Nodes(l) \cup {m.made}
         /\ NextOf(m, p) = m.made
         /\ \A y \in Nodes(l) \ {p} : Field(m, y) = Field(l, y)
    BY <1>3, <1>4, <1>8, <1>11
  <1> QED  BY <1>9, <1>10, <1>12, Zenon DEF RegionCut, m, f, u, v

(* Up to k pieces have been cut off region fit of l, none of them typed. *)
Carved(m, l, fit, k) ==
    /\ m \in Lists(Regions) /\ Numbered(m) /\ Stands(m) /\ m.fate = l.fate
    /\ l.made <= m.made /\ m.made <= l.made + k
    /\ Nodes(l) \subseteq Nodes(m) /\ Nodes(m) \ Nodes(l) \subseteq l.made + 1 .. m.made
    /\ \A y \in Nodes(l) \ {fit} : Field(m, y) = Field(l, y)
    /\ \A y \in Nodes(m) : y \notin Nodes(l) \ {fit} => ~Field(m, y).typed

LEMMA CarveOn ==
    ASSUME NEW l \in Lists(Regions), Numbered(l), NEW fit \in Nodes(l), NEW k \in Nat,
           NEW m, Carved(m, l, fit, k), NEW p \in Nodes(m), p \notin Nodes(l) \ {fit},
           NEW want, NEW c, RegionCut(c, m, p, want)
    PROVE  Carved(c, l, fit, k + 1)
  <1>1. /\ m.made \in Nat /\ l.made \in Nat /\ m.made + 1 \notin Nodes(m)
        /\ l.made <= m.made /\ m.made <= l.made + k
    BY ListFacts DEF Carved, Numbered
  <1>2. /\ c \in Lists(Regions) /\ Numbered(c) /\ Stands(c) /\ c.fate = l.fate
        /\ c.made = m.made + 1 /\ Nodes(c) = Nodes(m) \cup {c.made} /\ c.made \notin Nodes(m)
    BY DEF RegionCut, Carved
  <1>3. \A y \in Nodes(l) \ {fit} : Field(c, y) = Field(l, y)
    BY DEF RegionCut, Carved
  <1>4. ASSUME NEW y \in Nodes(c), y \notin Nodes(l) \ {fit}  PROVE ~Field(c, y).typed
    <2>1. ~Field(m, p).typed
      BY DEF Carved
    <2>2. CASE y = p
      BY <2>1, <2>2, Zenon DEF RegionCut
    <2>3. CASE y = c.made
      BY <2>1, <2>3, Zenon DEF RegionCut
    <2>4. CASE y # p /\ y # c.made
      <3>1. y \in Nodes(m)
        BY <1>2, <2>4
      <3>2. ~Field(m, y).typed
        BY <1>4, <3>1 DEF Carved
      <3>3. Field(c, y) = Field(m, y)
        BY <2>4, <3>1 DEF RegionCut
      <3> QED  BY <3>2, <3>3, Zenon
    <2> QED  BY <2>2, <2>3, <2>4
  <1>5. Nodes(l) \subseteq Nodes(c) /\ Nodes(c) \ Nodes(l) \subseteq l.made + 1 .. c.made
    <2>1. Nodes(l) \subseteq Nodes(m) /\ Nodes(m) \ Nodes(l) \subseteq l.made + 1 .. m.made
      BY DEF Carved
    <2> QED  BY <1>1, <1>2, <2>1
  <1>6. l.made <= c.made /\ c.made <= l.made + (k + 1)
    BY <1>1, <1>2
  <1> QED  BY <1>2, <1>3, <1>4, <1>5, <1>6 DEF Carved

LEMMA EvenCut ==
    ASSUME NEW m, \A y \in Nodes(m) : Even(m, y), NEW p \in Nodes(m), NEW want \in Nat,
           Aligned(want), Aligned(Field(m, p).base), ~Field(m, p).typed,
           Field(m, p).base \in Nat, Field(m, p).size \in Nat, want <= Field(m, p).size,
           NEW c, RegionCut(c, m, p, want)
    PROVE  /\ \A y \in Nodes(c) : Even(c, y)
           /\ Aligned(Field(c, c.made).base) /\ Aligned(Field(c, c.made).size)
  <1>1. Aligned(Field(m, p).size)
    BY Zenon DEF Even
  <1>2. Aligned(Field(m, p).base + want) /\ Aligned(Field(m, p).size - want)
    BY <1>1, AlignedSum
  <1>3. /\ Nodes(c) = Nodes(m) \cup {c.made}
        /\ Field(c, p).size = want
        /\ Field(c, c.made).base = Field(m, p).base + want
        /\ Field(c, c.made).size = Field(m, p).size - want
        /\ \A y \in Nodes(m) \ {p} : Field(c, y) = Field(m, y)
    BY DEF RegionCut
  <1>4. ASSUME NEW y \in Nodes(c)  PROVE Even(c, y)
    <2>1. CASE y = p
      BY <1>3, <2>1, Zenon DEF Even
    <2>2. CASE y = c.made
      BY <1>2, <1>3, <2>2, Zenon DEF Even
    <2>3. CASE y # p /\ y # c.made
      <3>1. y \in Nodes(m) /\ Field(c, y) = Field(m, y)
        BY <1>3, <2>3
      <3>2. Even(m, y)
        BY <3>1
      <3> QED  BY <3>1, <3>2, Zenon DEF Even
    <2> QED  BY <2>1, <2>2, <2>3
  <1> QED  BY <1>2, <1>3, <1>4

LEMMA CarveMore ==
    ASSUME NEW l \in Lists(Regions), NEW fit, NEW k \in Nat, NEW m, Carved(m, l, fit, k)
    PROVE  Carved(m, l, fit, k + 1)
  <1>1. l.made \in Nat /\ m.made \in Nat
    BY ListFacts DEF Carved
  <1>2. l.made <= m.made /\ m.made <= l.made + k
    BY DEF Carved
  <1>3. m.made <= l.made + (k + 1)
    BY <1>1, <1>2
  <1> QED  BY <1>3 DEF Carved

(* A region that will do for a call. *)
Suits(l, x, base, size) ==
    /\ x \in Nodes(l) /\ ~Field(l, x).typed /\ Aligned(Field(l, x).base)
    /\ AlignUp(size) <= Field(l, x).size
    /\ base # 0 => Field(l, x).base <= base /\ base + AlignUp(size) <= End(l, x)

(* Region r of size pages has been cut out of fit. *)
HandedOut(m, r, l, fit, base, size) ==
    /\ Carved(m, l, fit, 3)
    /\ r \in Nodes(m) /\ r \notin Nodes(l) \ {fit}
    /\ Field(m, r).size = size /\ Aligned(Field(m, r).base)
    /\ base # 0 => Field(m, r).base = base
    /\ \A y \in Nodes(m) \ {r} : Even(m, y)

LEMMA CarvedFacts ==
    ASSUME NEW l \in Lists(Regions), NEW fit, NEW k, NEW m, Carved(m, l, fit, k)
    PROVE  /\ m \in Lists(Regions) /\ Numbered(m) /\ Stands(m)
           /\ \A x \in Nodes(m) : /\ Field(m, x).base \in Nat /\ Field(m, x).size \in Nat
                                  /\ End(m, x) = Field(m, x).base + Field(m, x).size
  <1>1. m \in Lists(Regions) /\ Numbered(m) /\ Stands(m)
    BY DEF Carved
  <1> QED  BY <1>1, StandsFacts

LEMMA CutOutDoes ==
    ASSUME NEW fit, NEW base \in Nat, NEW size \in Nat \ {0}, NEW top \in BOOLEAN,
           space \in Lists(Regions), Numbered(space), Stands(space),
           \A x \in Nodes(space) : Even(space, x),
           Suits(space, fit, base, size), Aligned(base)
    PROVE  HandedOut(CutOut(fit, base, size, top).list, CutOut(fit, base, size, top).region,
                     space, fit, base, size)
  <1> DEFINE off  == IF base = 0 THEN 0 ELSE base - Field(space, fit).base
             l1   == IF off = 0 THEN space ELSE SplitAt(space, fit, off)
             x1   == IF off = 0 THEN fit ELSE NextOf(l1, fit)
             down == base = 0 /\ top
             A    == AlignUp(size)
             want == IF down THEN Field(l1, x1).size - A ELSE A
             l2   == SplitAt(l1, x1, want)
             x2   == IF down THEN NextOf(l2, x1) ELSE x1
             l3   == GapSplit(l2, x2, size)
  <1>1. CutOut(fit, base, size, top).list = l3 /\ CutOut(fit, base, size, top).region = x2
    BY DEF CutOut
  <1>2. l1 = IF off = 0 THEN space ELSE SplitAt(space, fit, off)
    OBVIOUS
  <1>3. x1 = IF off = 0 THEN fit ELSE NextOf(l1, fit)
    OBVIOUS
  <1>4. l2 = SplitAt(l1, x1, want)
    OBVIOUS
  <1>5. x2 = IF down THEN NextOf(l2, x1) ELSE x1
    OBVIOUS
  <1>6. l3 = IF A > size THEN SplitAt(l2, x2, size) ELSE l2
    BY DEF GapSplit
  <1>7. want = IF down THEN Field(l1, x1).size - A ELSE A
    OBVIOUS
  <1>8. off = IF base = 0 THEN 0 ELSE base - Field(space, fit).base
    OBVIOUS
  <1>9. A \in Nat /\ size <= A /\ Aligned(A) /\ (size < A => ~Aligned(size))
    BY AlignUpIs
  <1>10. down => base = 0
    OBVIOUS
  <1>11. /\ fit \in Nodes(space) /\ ~Field(space, fit).typed /\ Aligned(Field(space, fit).base)
         /\ Field(space, fit).base \in Nat /\ Field(space, fit).size \in Nat
         /\ End(space, fit) = Field(space, fit).base + Field(space, fit).size
         /\ A <= Field(space, fit).size
         /\ base # 0 => Field(space, fit).base <= base /\ base + A <= End(space, fit)
    <2>1. fit \in Nodes(space)
      BY Zenon DEF Suits
    <2>2. /\ Field(space, fit).base \in Nat /\ Field(space, fit).size \in Nat
          /\ End(space, fit) = Field(space, fit).base + Field(space, fit).size
      BY <2>1, StandsFacts
    <2>3. ~Field(space, fit).typed /\ Aligned(Field(space, fit).base)
      BY Zenon DEF Suits
    <2>4. /\ A <= Field(space, fit).size
          /\ base # 0 => Field(space, fit).base <= base /\ base + A <= End(space, fit)
      BY Zenon DEF Suits
    <2> QED  BY <2>1, <2>2, <2>3, <2>4, Zenon
  <1> HIDE DEF off, l1, x1, down, A, want, l2, x2, l3
  <1>12. Carved(space, space, fit, 0)
    <2>1. space.made \in Nat /\ space.made <= space.made + 0
      BY ListFacts
    <2>2. ASSUME NEW y \in Nodes(space), y \notin Nodes(space) \ {fit}
          PROVE  ~Field(space, y).typed
      <3>1. y = fit
        BY <2>2
      <3> QED  BY <1>11, <3>1, Zenon
    <2> QED  BY <2>1, <2>2 DEF Carved
  <1>13. /\ Carved(l1, space, fit, 1) /\ x1 \in Nodes(l1) /\ x1 \notin Nodes(space) \ {fit}
         /\ Aligned(Field(l1, x1).base) /\ A <= Field(l1, x1).size
         /\ base # 0 => Field(l1, x1).base = base
         /\ \A y \in Nodes(l1) : Even(l1, y)
    <2>1. CASE off = 0
      <3>1. l1 = space /\ x1 = fit
        BY <1>2, <1>3, <2>1
      <3>2. base # 0 => Field(space, fit).base = base
        BY <1>8, <1>11, <2>1
      <3>3. Carved(space, space, fit, 0 + 1)
        BY <1>12, CarveMore
      <3> QED  BY <1>11, <3>1, <3>2, <3>3
    <2>2. CASE off # 0
      <3>1. /\ base # 0 /\ off \in 0 .. Field(space, fit).size /\ off \in Nat
            /\ Field(space, fit).base + off = base
            /\ A <= Field(space, fit).size - off
        BY <1>8, <1>9, <1>11, <2>2
      <3>2. l1 = SplitAt(space, fit, off) /\ x1 = NextOf(l1, fit)
        BY <1>2, <1>3, <2>2
      <3>3. RegionCut(l1, space, fit, off)
        BY <1>11, <3>1, <3>2, RegionCutDoes
      <3>4. Carved(l1, space, fit, 0 + 1)
        BY <1>11, <1>12, <3>3, CarveOn
      <3>5. /\ x1 = l1.made /\ x1 \in Nodes(l1) /\ x1 \notin Nodes(space)
            /\ Field(l1, x1).base = base
            /\ Field(l1, x1).size = Field(space, fit).size - off
        BY <3>1, <3>2, <3>3 DEF RegionCut
      <3>6. Aligned(off)
        BY <1>8, <1>11, <2>2, AlignedSum
      <3>7. off <= Field(space, fit).size
        BY <3>1
      <3>8. \A y \in Nodes(l1) : Even(l1, y)
        BY <1>11, <3>1, <3>3, <3>6, <3>7, EvenCut
      <3> QED  BY <3>1, <3>4, <3>5, <3>8
    <2> QED  BY <2>1, <2>2
  <1>14. /\ l1 \in Lists(Regions) /\ Numbered(l1) /\ Stands(l1) /\ ~Field(l1, x1).typed
         /\ Field(l1, x1).base \in Nat /\ Field(l1, x1).size \in Nat
    <2>1. ~Field(l1, x1).typed
      BY <1>13, Zenon DEF Carved
    <2> QED  BY <1>13, <2>1, CarvedFacts, Zenon
  <1>15. want \in 0 .. Field(l1, x1).size /\ want \in Nat /\ Aligned(want)
         /\ want <= Field(l1, x1).size
    <2>1. Aligned(Field(l1, x1).size)
      BY <1>13, <1>14, Zenon DEF Even
    <2>2. Aligned(Field(l1, x1).size - A)
      BY <1>9, <1>13, <1>14, <2>1, AlignedSum
    <2> QED  BY <1>7, <1>9, <1>13, <1>14, <2>2
  <1>16. RegionCut(l2, l1, x1, want)
    BY <1>4, <1>13, <1>14, <1>15, RegionCutDoes
  <1>17. Carved(l2, space, fit, 2)
    <2>1. Carved(l2, space, fit, 1 + 1)
      BY <1>11, <1>13, <1>16, CarveOn
    <2> QED  BY <2>1
  <1>18. \A y \in Nodes(l2) : Even(l2, y)
    BY <1>13, <1>14, <1>15, <1>16, EvenCut
  <1>19. /\ x2 \in Nodes(l2) /\ x2 \notin Nodes(space) \ {fit}
         /\ Field(l2, x2).size = A /\ Aligned(Field(l2, x2).base)
         /\ base # 0 => Field(l2, x2).base = base
    <2>1. CASE down
      <3>1. x2 = l2.made /\ x2 \in Nodes(l2)
        BY <1>5, <1>16, <2>1 DEF RegionCut
      <3>2. Nodes(space) \subseteq Nodes(l1) /\ l2.made \notin Nodes(l1)
        BY <1>13, <1>16 DEF Carved, RegionCut
      <3>3. Field(l2, x2).size = Field(l1, x1).size - want
        BY <1>16, <3>1 DEF RegionCut
      <3>4. Field(l2, x2).size = A
        BY <1>7, <1>9, <1>14, <2>1, <3>3
      <3>5. Aligned(Field(l2, x2).base)
        BY <1>13, <1>14, <1>15, <1>16, <3>1, EvenCut
      <3> QED  BY <1>10, <2>1, <3>1, <3>2, <3>4, <3>5
    <2>2. CASE ~down
      <3>1. x2 = x1 /\ x1 \in Nodes(l2) /\ want = A
        BY <1>5, <1>7, <1>13, <1>16, <2>2 DEF RegionCut
      <3>2. Field(l2, x1).base = Field(l1, x1).base /\ Field(l2, x1).size = want
        BY <1>16 DEF RegionCut
      <3> QED  BY <1>13, <3>1, <3>2
    <2> QED  BY <2>1, <2>2
  <1>20. /\ l2 \in Lists(Regions) /\ Numbered(l2) /\ Stands(l2)
         /\ Field(l2, x2).base \in Nat /\ Field(l2, x2).size \in Nat
    BY <1>17, <1>19, CarvedFacts, Zenon
  <1>21. HandedOut(l3, x2, space, fit, base, size)
    <2>1. CASE ~(A > size)
      <3>1. l3 = l2 /\ A = size
        BY <1>6, <1>9, <2>1
      <3>2. Carved(l2, space, fit, 2 + 1)
        BY <1>17, CarveMore
      <3> QED  BY <1>18, <1>19, <3>1, <3>2 DEF HandedOut
    <2>2. CASE A > size
      <3>1. l3 = SplitAt(l2, x2, size) /\ size \in 0 .. Field(l2, x2).size /\ ~Aligned(size)
        BY <1>6, <1>9, <1>19, <2>2
      <3>2. RegionCut(l3, l2, x2, size)
        BY <1>19, <1>20, <3>1, RegionCutDoes
      <3>3. Carved(l3, space, fit, 2 + 1)
        BY <1>11, <1>17, <1>19, <3>2, CarveOn
      <3>4. /\ Nodes(l3) = Nodes(l2) \cup {l3.made}
            /\ Field(l3, x2).base = Field(l2, x2).base /\ Field(l3, x2).size = size
            /\ Field(l3, l3.made).base = Field(l2, x2).base + size
            /\ \A y \in Nodes(l2) \ {x2} : Field(l3, y) = Field(l2, y)
        BY <3>2 DEF RegionCut
      <3>5. ~Aligned(Field(l2, x2).base + size)
        <4> SUFFICES ASSUME Aligned(Field(l2, x2).base + size)  PROVE FALSE
          OBVIOUS
        <4>1. Field(l2, x2).base + size \in Nat /\ Field(l2, x2).base <= Field(l2, x2).base + size
              /\ (Field(l2, x2).base + size) - Field(l2, x2).base = size
          BY <1>20
        <4>2. Aligned((Field(l2, x2).base + size) - Field(l2, x2).base)
          BY <1>19, <1>20, <4>1, AlignedSum
        <4> QED  BY <3>1, <4>1, <4>2
      <3>6. ASSUME NEW y \in Nodes(l3) \ {x2}  PROVE Even(l3, y)
        <4>1. CASE y = l3.made
          BY <3>4, <3>5, <4>1, Zenon DEF Even
        <4>2. CASE y # l3.made
          <5>1. y \in Nodes(l2) /\ Field(l3, y) = Field(l2, y)
            BY <3>4, <4>2
          <5>2. Even(l2, y)
            BY <1>18, <5>1
          <5> QED  BY <5>1, <5>2, Zenon DEF Even
        <4> QED  BY <4>1, <4>2
      <3> QED  BY <1>19, <3>3, <3>4, <3>6 DEF HandedOut
    <2> QED  BY <2>1, <2>2
  <1> QED  BY <1>1, <1>21

-----------------------------------------------------------------------------
(* The invariant of the space *)

(* What a region may have as its blocks, whole or not. *)
BlockLists == {l \in Lists(BlockFields) : Numbered(l)}

(* The regions are a list of ranges within the space. *)
Shapes ==
    /\ space \in Lists(Regions) /\ Numbered(space) /\ space.made <= MaxNodes
    /\ \A x \in Nodes(space) : Field(space, x).base \in 0 .. Room /\ Field(space, x).size \in 0 .. Room

(* What has been handed out has a type, and so has what has blocks. *)
Books ==
    /\ given \subseteq 1 .. space.made
    /\ wish \in [Ids -> Nat \X Nat] /\ \A x \in given : wish[x][2] \in Sizes
    /\ blocks \in [Ids -> BlockLists]
    /\ DOMAIN asked = Ids
    /\ \A x \in InUse : Field(space, x).typed
    /\ \A x \in Ids : blocks[x] # Empty => x \in Nodes(space) /\ Field(space, x).typed

(* Until a bad pointer is followed the regions are whole and Even. *)
Standing == space.fate = "ok" => Stands(space) /\ \A x \in Nodes(space) : Even(space, x)

(* And so are the blocks of each, over the region's range. *)
BlocksCover ==
    Fine => \A x \in Nodes(space) : blocks[x] # Empty =>
               Covers(blocks[x], Field(space, x).base, Field(space, x).size)

(* Until it has blocks a region has its first protection. *)
Untouched ==
    \A x \in InUse : asked[x] # <<>> /\ blocks[x] = Empty =>
       \A a \in Field(space, x).base .. End(space, x) - 1 : asked[x][a] = NOACCESS

(* The inductive invariant of the space. *)
ASIInv == Shapes /\ Books /\ AllocFits /\ Standing /\ BlocksCover /\ Untouched /\ ProtectExact

LEMMA ShapesFacts ==
    ASSUME Shapes
    PROVE  /\ space.made \in Nat /\ Nodes(space) \subseteq Ids /\ Nodes(space) \subseteq 1 .. space.made
           /\ 1 .. space.made \subseteq Ids
           /\ space.fate \in {"ok", "null", "dangling"}
           /\ \A x \in Nodes(space) : /\ Field(space, x) \in Regions
                                      /\ Field(space, x).base \in Nat /\ Field(space, x).size \in Nat
                                      /\ End(space, x) = Field(space, x).base + Field(space, x).size
  <1>1. space \in Lists(Regions) /\ Numbered(space) /\ space.made <= MaxNodes
        /\ \A x \in Nodes(space) : /\ Field(space, x).base \in 0 .. Room
                                   /\ Field(space, x).size \in 0 .. Room
    BY DEF Shapes
  <1>2. space.made \in Nat /\ space.fate \in {"ok", "null", "dangling"}
        /\ \A x \in Nodes(space) : Field(space, x) \in Regions
    BY <1>1, ListFacts
  <1>3. MaxNodes \in Nat
    BY DListAssumption
  <1>4. 1 .. space.made \subseteq Ids
    BY <1>1, <1>2, <1>3 DEF Ids
  <1>5. Nodes(space) \subseteq 1 .. space.made
    BY <1>1 DEF Numbered
  <1> QED  BY <1>1, <1>2, <1>4, <1>5 DEF End

LEMMA InvImplies ==
    ASSUME ASIInv
    PROVE  SpaceInv /\ PrevLeadsBack /\ ProtectExact
  <1>1. ASTypeOK
    <2>1. Shapes /\ Books
      BY DEF ASIInv
    <2>2. Nodes(space) \subseteq Ids /\ space.fate \in {"ok", "null", "dangling"}
      BY <2>1, ShapesFacts
    <2>3. ASSUME NEW x \in Nodes(space)
          PROVE  Field(space, x) \in
                    [base : 0 .. Room, size : 0 .. Room, free : BOOLEAN, typed : BOOLEAN]
      <3> DEFINE f == Field(space, x)
                 g == [base |-> f.base, size |-> f.size, free |-> f.free, typed |-> f.typed]
      <3>1. f \in Regions /\ f.base \in 0 .. Room /\ f.size \in 0 .. Room
        BY <2>1, ShapesFacts DEF Shapes
      <3> HIDE DEF f
      <3>2. f = g
        BY <3>1 DEF Regions
      <3>3. f.free \in {TRUE} /\ f.typed \in BOOLEAN
        BY <3>1, Zenon DEF Regions
      <3>4. f.free \in BOOLEAN
        BY <3>3
      <3>5. g \in [base : 0 .. Room, size : 0 .. Room, free : BOOLEAN, typed : BOOLEAN]
        BY <3>1, <3>3, <3>4, Zenon
      <3>6. f \in [base : 0 .. Room, size : 0 .. Room, free : BOOLEAN, typed : BOOLEAN]
        BY <3>2, <3>5, Zenon
      <3> QED  BY <3>6 DEF f
    <2>4. DOMAIN blocks = Ids
      BY <2>1 DEF Books
    <2>5. given \subseteq Ids
      <3>1. given \subseteq 1 .. space.made
        BY <2>1 DEF Books
      <3> QED  BY <2>1, <3>1, ShapesFacts
    <2> QED  BY <2>2, <2>3, <2>4, <2>5 DEF ASTypeOK
  <1>2. RegionsTile
    BY StandsFacts DEF RegionsTile, ASIInv, Standing
  <1>3. BlocksTile
    BY CoversFacts DEF BlocksTile, ASIInv, BlocksCover
  <1>4. PrevLeadsBack
    <2> SUFFICES ASSUME space.fate = "ok", NEW x \in Nodes(space) \ {space.first}
                 PROVE  /\ PrevOf(space, x) \in Nodes(space) \ {x}
                        /\ FirstFrom(space, PrevOf(space, x), {x}) = x
      BY DEF PrevLeadsBack
    <2>1. PICK sq, n : Line(space, sq, n) /\ Back(space, sq, n)
      BY DEF ASIInv, Standing, Stands
    <2>2. /\ n \in Nat \ {0} /\ sq \in [1 .. n -> Nodes(space)] /\ space.first = sq[1]
          /\ \A i, j \in 1 .. n : sq[i] = sq[j] => i = j
      BY <2>1 DEF Line
    <2>3. PICK i \in 1 .. n : x = sq[i]
      BY <2>1 DEF Line
    <2>4. i \in 2 .. n
      BY <2>2, <2>3
    <2>5. PICK j \in 1 .. i - 1 : PrevOf(space, x) = sq[j]
      BY <2>1, <2>3, <2>4 DEF Back
    <2>6. j \in 1 .. n /\ j # i /\ i \in j .. n
      BY <2>2, <2>4
    <2>7. sq[j] \in Nodes(space) /\ sq[j] # x
      BY <2>2, <2>3, <2>6
    <2>8. Finds(sq, n, j, {x}, FirstFrom(space, sq[j], {x}))
      BY <2>1, <2>6, FirstFromFinds
    <2>9. FirstFrom(space, sq[j], {x}) = x
      BY <2>3, <2>6, <2>8 DEF Finds
    <2> QED  BY <2>5, <2>7, <2>9
  <1> QED  BY <1>1, <1>2, <1>3, <1>4 DEF ASIInv, SpaceInv

LEMMA EmptyIs ==
    Empty \in BlockLists
  <1> DEFINE D == {}
             z == [x \in D |-> 0]
  <1>1. Empty = [first |-> 0, last |-> 0, fate |-> "ok", made |-> 0, node |-> z]
    BY DEF Empty
  <1>2. D \in SUBSET (Nat \ {0}) /\ z \in [D -> [f : BlockFields, prev : Nat, next : Nat]]
    OBVIOUS
  <1>3. Empty \in Lists(BlockFields)
    <2> HIDE DEF D, z
    <2> QED  BY <1>1, <1>2 DEF Lists
  <1>4. Nodes(Empty) = {}
    BY <1>1 DEF Nodes
  <1> QED  BY <1>3, <1>4 DEF BlockLists, Numbered

LEMMA ASInitIs ==
    ASSUME ASInit
    PROVE  ASIInv
  <1> DEFINE f == FreeRoom
             D == {1}
             fs == [x \in D |-> f]
             zs == [x \in D |-> 0]
             sq == [i \in 1 .. 1 |-> 1]
  <1>0. Room \in Nat /\ Room % Align = 0 /\ Align \in Nat \ {0} /\ MaxNodes \in Nat \ {0}
    BY AddressSpaceAssumption, DListAssumption
  <1>1. f \in Regions /\ f.base = 0 /\ f.size = Room
    BY <1>0 DEF Regions, FreeRoom
  <1>2. space = ListOf(1, 1, "ok", 1, D, fs, zs, zs)
    <2> HIDE DEF f
    <2>1. [x \in {1} |-> [f |-> f, prev |-> 0, next |-> 0]]
            = [x \in D |-> [f |-> fs[x], prev |-> zs[x], next |-> zs[x]]]
      OBVIOUS
    <2>2. space = Single(f)
      BY DEF f, ASInit
    <2> HIDE DEF fs, zs, D
    <2> QED  BY <2>1, <2>2 DEF Single, ListOf
  <1>3. space \in Lists(Regions) /\ Made(space, D, fs, zs, zs)
    <2> HIDE DEF f
    <2>1. D \in SUBSET (Nat \ {0}) /\ fs \in [D -> Regions] /\ zs \in [D -> Nat]
      BY <1>1
    <2>2. 1 \in Nat /\ "ok" \in {"ok", "null", "dangling"}
      OBVIOUS
    <2> HIDE DEF fs, zs, D
    <2>3. /\ ListOf(1, 1, "ok", 1, D, fs, zs, zs) \in Lists(Regions)
          /\ Made(ListOf(1, 1, "ok", 1, D, fs, zs, zs), D, fs, zs, zs)
      BY <2>1, <2>2, MadeList
    <2> QED  BY <1>2, <2>3
  <1>4. Nodes(space) = {1} /\ Field(space, 1) = f /\ NextOf(space, 1) = 0 /\ PrevOf(space, 1) = 0
    <2> HIDE DEF f
    <2> QED  BY <1>3 DEF Made
  <1>5. space.first = 1 /\ space.last = 1 /\ space.fate = "ok" /\ space.made = 1
    <2> HIDE DEF fs, zs, D
    <2> QED  BY <1>2 DEF ListOf
  <1> HIDE DEF f
  <1>6. Line(space, sq, 1) /\ Tiled(space, sq, 1, 0, Room) /\ Back(space, sq, 1)
    <2>1. Line(space, sq, 1)
      BY <1>4, <1>5 DEF Line
    <2>2. Tiled(space, sq, 1, 0, Room)
      BY <1>0, <1>1, <1>4 DEF Tiled, End
    <2>3. Back(space, sq, 1)
      BY <1>4 DEF Back
    <2> QED  BY <2>1, <2>2, <2>3
  <1>7. Shapes
    BY <1>0, <1>1, <1>3, <1>4, <1>5 DEF Shapes, Numbered
  <1>8. given = {} /\ InUse = {} /\ \A x \in Ids : blocks[x] = Empty
    BY DEF ASInit, InUse
  <1>9. Books
    <2>1. wish \in [Ids -> Nat \X Nat] /\ blocks \in [Ids -> BlockLists] /\ DOMAIN asked = Ids
      BY EmptyIs DEF ASInit
    <2> QED  BY <1>8, <2>1 DEF Books
  <1>10. Standing
    <2>1. Even(space, 1)
      BY <1>0, <1>1, <1>4 DEF Even, Aligned, Over
    <2> QED  BY <1>4, <1>6, <2>1 DEF Standing, Stands
  <1>11. 1 \in Ids
    BY <1>0 DEF Ids
  <1>12. AllocFits /\ BlocksCover /\ Untouched /\ ProtectExact
    BY <1>4, <1>8, <1>11 DEF AllocFits, BlocksCover, Untouched, ProtectExact
  <1> QED  BY <1>7, <1>9, <1>10, <1>12 DEF ASIInv

LEMMA InvStutters ==
    ASSUME ASIInv, UNCHANGED asvars
    PROVE  ASIInv'
  <1>1. /\ space' = space /\ blocks' = blocks /\ given' = given /\ wish' = wish /\ asked' = asked
    BY DEF asvars
  <1>2. Shapes' /\ Standing'
    BY <1>1 DEF ASIInv, Shapes, Standing
  <1>3. Books' /\ AllocFits'
    BY <1>1 DEF ASIInv, Books, AllocFits, InUse
  <1>4. BlocksCover' /\ Untouched'
    BY <1>1 DEF ASIInv, BlocksCover, Untouched, InUse, Fine
  <1>5. ProtectExact'
    BY <1>1 DEF ASIInv, ProtectExact, InUse, Fine
  <1> QED  BY <1>2, <1>3, <1>4, <1>5 DEF ASIInv

(* What a step leaves of the regions in use. *)
StepStays ==
    \A x \in InUse : x \notin Nodes(space)' \/ Field(space, x)' # Field(space, x) =>
       \E g \in given \ given' : Field(space, g).base <= Field(space, x).base

LEMMA FindFitIs ==
    ASSUME ASIInv, space.fate = "ok", NEW base, NEW size \in Sizes, NEW top \in BOOLEAN,
           base \in Nat
    PROVE  FindFit(base, size, top) = 0 \/ Suits(space, FindFit(base, size, top), base, size)
  <1> DEFINE fit == FindFit(base, size, top)
             usable == {x \in Nodes(space) : Usable(x, size)}
             fits == {x \in Nodes(space) : FitsAt(x, base, size)}
  <1>1. PICK sq, n : Line(space, sq, n) /\ Back(space, sq, n)
    BY DEF ASIInv, Standing, Stands
  <1>2. n \in Nat \ {0} /\ sq \in [1 .. n -> Nodes(space)] /\ space.first = sq[1] /\ 1 \in 1 .. n
    BY <1>1 DEF Line
  <1>3. \A S : Finds(sq, n, 1, S, FirstFrom(space, space.first, S))
    BY <1>1, <1>2, FirstFromFinds
  <1>4. \A S : FirstFrom(space, space.first, S) = 0 \/ FirstFrom(space, space.first, S) \in S
    BY <1>3 DEF Finds
  <1>5. \A S : LastUpTo(space, space.last, S) = 0 \/ LastUpTo(space, space.last, S) \in S
    BY <1>1, LastUpToFinds
  <1>6. ASSUME NEW x \in Nodes(space), Usable(x, size)
        PROVE  /\ ~Field(space, x).typed /\ Aligned(Field(space, x).base)
               /\ AlignUp(size) <= Field(space, x).size
    <2>1. ~Field(space, x).typed /\ Field(space, x).base % Align = 0
          /\ Field(space, x).size >= AlignUp(size)
      BY <1>6, Zenon DEF Usable
    <2>2. Field(space, x).size \in Nat /\ AlignUp(size) \in Nat
      BY ShapesFacts, AlignUpIs, AddressSpaceAssumption DEF ASIInv
    <2>3. AlignUp(size) <= Field(space, x).size
      BY <2>1, <2>2
    <2> QED  BY <2>1, <2>3, Zenon DEF Aligned, Over
  <1>7. CASE base # 0
    <2>1. fit = FirstFrom(space, space.first, fits)
      BY <1>7 DEF FindFit
    <2>2. fit = 0 \/ fit \in fits
      <3> HIDE DEF fits, fit
      <3> QED  BY <1>4, <2>1
    <2>3. ASSUME fit \in fits  PROVE Suits(space, fit, base, size)
      <3> HIDE DEF fit
      <3>1. fit \in Nodes(space) /\ Usable(fit, size)
        BY <2>3 DEF FitsAt
      <3>2. /\ Field(space, fit).base <= base
            /\ Field(space, fit).base + Field(space, fit).size > base + AlignUp(size)
        BY <2>3 DEF FitsAt
      <3>3. /\ Field(space, fit).base \in Nat /\ Field(space, fit).size \in Nat
            /\ End(space, fit) = Field(space, fit).base + Field(space, fit).size
            /\ AlignUp(size) \in Nat
        BY <3>1, ShapesFacts, AlignUpIs, AddressSpaceAssumption DEF ASIInv
      <3>4. base + AlignUp(size) <= End(space, fit)
        BY <3>2, <3>3
      <3> QED  BY <1>6, <3>1, <3>2, <3>4, Zenon DEF Suits
    <2> HIDE DEF fits, fit
    <2> QED  BY <2>2, <2>3 DEF fit
  <1>8. CASE base = 0
    <2>1. fit = IF top THEN LastUpTo(space, space.last, usable)
                ELSE FirstFrom(space, space.first, usable)
      BY <1>8 DEF FindFit
    <2>2. fit = 0 \/ fit \in usable
      <3> HIDE DEF usable, fit
      <3> QED  BY <1>4, <1>5, <2>1
    <2>3. ASSUME fit \in usable  PROVE Suits(space, fit, base, size)
      <3> HIDE DEF fit
      <3>1. fit \in Nodes(space) /\ Usable(fit, size)
        BY <2>3
      <3> QED  BY <1>6, <1>8, <3>1, Zenon DEF Suits
    <2> HIDE DEF usable, fit
    <2> QED  BY <2>2, <2>3 DEF fit
  <1> QED  BY <1>7, <1>8

LEMMA AllocKeeps ==
    ASSUME ASIInv, NEW base \in {b \in 0 .. Room - 1 : b % Align = 0}, NEW size \in Sizes,
           NEW top \in BOOLEAN, allocSectionAddress(base, size, top)
    PROVE  ASIInv' /\ StepStays
  <1> DEFINE fit == FindFit(base, size, top)
             cut == CutOut(fit, base, size, top)
             l   == cut.list
             r   == cut.region
             g   == [Field(l, r) EXCEPT !.typed = TRUE]
             S   == SetField(l, r, g)
  <1>1. Fine /\ space.made + 3 <= MaxNodes /\ blocks' = blocks
    BY DEF allocSectionAddress, NodesLeft
  <1>2. fit \notin Nodes(space) =>
           /\ space' = Follow(space, IF fit = 0 THEN space.first ELSE fit)
           /\ given' = given /\ wish' = wish /\ asked' = asked
    BY DEF allocSectionAddress
  <1>3. fit \in Nodes(space) =>
           /\ space' = S
           /\ given' = given \cup {r}
           /\ wish' = [wish EXCEPT ![r] = <<base, size>>]
           /\ asked' = [asked EXCEPT ![r] = [a \in 0 .. Room - 1 |-> NOACCESS]]
    BY DEF allocSectionAddress
  <1>4. /\ space.fate = "ok" /\ Stands(space) /\ \A x \in Nodes(space) : Even(space, x)
        /\ space \in Lists(Regions) /\ Numbered(space) /\ Shapes /\ Books
    BY <1>1 DEF Fine, ASIInv, Standing, Shapes
  <1>5. /\ base \in Nat /\ Aligned(base) /\ size \in Nat \ {0} /\ Room \in Nat /\ NOACCESS \in Prots
    BY AddressSpaceAssumption DEF Aligned, Over
  <1>6. fit = 0 \/ Suits(space, fit, base, size)
    BY <1>4, <1>5, FindFitIs
  <1>7. 0 \notin Nodes(space) /\ space.first \in Nodes(space)
    BY <1>4, StandsFacts
  <1>8. HandedOut(l, r, space, fit, base, size) \/ fit = 0
    <2>1. ASSUME Suits(space, fit, base, size)
          PROVE  HandedOut(l, r, space, fit, base, size)
      <3> HIDE DEF fit
      <3> QED  BY <1>4, <1>5, <2>1, CutOutDoes
    <2> QED  BY <1>6, <2>1
  <1> HIDE DEF fit, cut, l, r
  <1>9. CASE fit = 0
    <2>1. space' = space
      <3>1. Follow(space, space.first) = space
        BY <1>4, <1>7, FollowDoes
      <3> QED  BY <1>2, <1>7, <1>9, <3>1
    <2>2. UNCHANGED asvars
      BY <1>1, <1>2, <1>7, <1>9, <2>1 DEF asvars
    <2>3. ASIInv'
      BY <2>2, InvStutters
    <2>4. StepStays
      BY <2>1 DEF StepStays, InUse
    <2> QED  BY <2>3, <2>4
  <1>10. CASE fit # 0
    <2>1. /\ Carved(l, space, fit, 3)
          /\ r \in Nodes(l) /\ r \notin Nodes(space) \ {fit}
          /\ Field(l, r).size = size /\ Aligned(Field(l, r).base)
          /\ base # 0 => Field(l, r).base = base
          /\ \A y \in Nodes(l) \ {r} : Even(l, y)
      BY <1>8, <1>10 DEF HandedOut
    <2>2. fit \in Nodes(space) /\ ~Field(space, fit).typed
      BY <1>6, <1>10, Zenon DEF Suits
    <2>3. /\ l \in Lists(Regions) /\ Numbered(l) /\ Stands(l) /\ l.fate = "ok"
          /\ space.made \in Nat /\ space.made <= l.made /\ l.made <= space.made + 3
          /\ Nodes(space) \subseteq Nodes(l)
          /\ Nodes(l) \ Nodes(space) \subseteq space.made + 1 .. l.made
          /\ \A y \in Nodes(space) \ {fit} : Field(l, y) = Field(space, y)
          /\ l.made \in Nat
      BY <1>4, <2>1, ListFacts DEF Carved
    <2>4. /\ Field(l, r) \in Regions /\ g \in Regions
          /\ g.base = Field(l, r).base /\ g.size = Field(l, r).size /\ g.typed = TRUE
      <3>1. Field(l, r) \in Regions
        BY <2>1, <2>3, ListFacts
      <3> QED  BY <3>1, RegionTyped, Zenon
    <2> HIDE DEF g
    <2>5. S \in Lists(Regions) /\ FieldSet(S, l, r, g)
      BY <2>1, <2>3, <2>4, SetFieldDoes
    <2>6. space' = S /\ given' = given \cup {r}
          /\ wish' = [wish EXCEPT ![r] = <<base, size>>]
          /\ asked' = [asked EXCEPT ![r] = [a \in 0 .. Room - 1 |-> NOACCESS]]
      BY <1>3, <2>2 DEF g
    <2> HIDE DEF S
    <2>7. /\ Nodes(S) = Nodes(l) /\ S.fate = l.fate /\ S.made = l.made /\ Field(S, r) = g
          /\ \A y \in Nodes(l) \ {r} : Field(S, y) = Field(l, y)
      BY <2>5 DEF FieldSet
    <2>8. Stands(S)
      <3>1. PICK sq, n : Line(l, sq, n) /\ Tiled(l, sq, n, 0, Room) /\ Back(l, sq, n)
        BY <2>3 DEF Stands
      <3>2. Line(S, sq, n) /\ Tiled(S, sq, n, 0, Room) /\ Back(S, sq, n)
        BY <2>1, <2>4, <2>5, <3>1, FieldSetLine
      <3> QED  BY <3>2 DEF Stands
    <2>9. Numbered(S)
      BY <2>3, <2>7 DEF Numbered
    <2>10. /\ \A x \in Nodes(S) : /\ Field(S, x).base \in 0 .. Room /\ Field(S, x).size \in 0 .. Room
                                  /\ End(S, x) = Field(S, x).base + Field(S, x).size
                                  /\ End(S, x) <= Room
           /\ \A x \in Nodes(space) : End(space, x) = Field(space, x).base + Field(space, x).size
      BY <1>4, <2>8, StandsFacts
    <2>11. \A y \in Nodes(space) \ {fit} : /\ y \in Nodes(S) /\ y # r
                                           /\ Field(S, y) = Field(space, y)
                                           /\ End(S, y) = End(space, y)
      BY <2>1, <2>3, <2>7 DEF End
    <2>12. Shapes'
      <3>1. S.made <= MaxNodes
        BY <1>1, <2>3, <2>7, DListAssumption
      <3> QED  BY <2>5, <2>6, <2>9, <2>10, <3>1 DEF Shapes
    <2>13. /\ given \subseteq 1 .. space.made
           /\ wish \in [Ids -> Nat \X Nat] /\ \A x \in given : wish[x][2] \in Sizes
           /\ blocks \in [Ids -> BlockLists] /\ DOMAIN asked = Ids
           /\ \A x \in InUse : Field(space, x).typed
           /\ \A x \in Ids : blocks[x] # Empty => x \in Nodes(space) /\ Field(space, x).typed
      BY <1>4 DEF Books
    <2>14. /\ \A x \in InUse : x \in Nodes(space) \ {fit}
           /\ \A x \in Ids : blocks[x] # Empty => x \in Nodes(space) \ {fit}
      BY <2>2, <2>13, Zenon DEF InUse
    <2>15. r \in 1 .. S.made /\ r \in Ids /\ 1 .. S.made \subseteq Ids /\ blocks[r] = Empty
      <3>1. r \in 1 .. S.made
        BY <2>1, <2>7, <2>9 DEF Numbered
      <3>2. 1 .. S.made \subseteq Ids
        <4>1. Shapes' => 1 .. space'.made \subseteq Ids
          <5>1. space'.made \in Nat /\ S.made <= MaxNodes
            BY <2>3, <2>6, <2>7, <2>12 DEF Shapes
          <5> QED  BY <2>6, <5>1, DListAssumption DEF Ids
        <4> QED  BY <2>6, <2>12, <4>1
      <3> QED  BY <2>1, <2>14, <3>1, <3>2
    <2>16. \A x \in (given \cup {r}) \cap Nodes(S) : x = r \/ x \in InUse
      <3> SUFFICES ASSUME NEW x \in (given \cup {r}) \cap Nodes(S), x # r
                   PROVE  x \in InUse
        OBVIOUS
      <3>1. x \in given /\ x \in 1 .. space.made /\ x \in Nodes(l)
        BY <2>7, <2>13
      <3>2. x \in Nodes(space)
        BY <2>3, <3>1
      <3> QED  BY <3>1, <3>2 DEF InUse
    <2>17. InUse' = (given \cup {r}) \cap Nodes(S)
      BY <2>6 DEF InUse
    <2>18. /\ wish'[r] = <<base, size>> /\ \A x \in Ids \ {r} : wish'[x] = wish[x]
           /\ asked'[r] = [a \in 0 .. Room - 1 |-> NOACCESS]
           /\ \A x \in Ids \ {r} : asked'[x] = asked[x]
           /\ DOMAIN asked' = Ids /\ wish' \in [Ids -> Nat \X Nat]
      BY <1>5, <2>6, <2>13, <2>15
    <2>19. InUse \subseteq Ids
      BY <1>4, ShapesFacts DEF InUse
    <2>20. Books'
      <3>1. given' \subseteq 1 .. space'.made
        <4>1. 1 .. space.made \subseteq 1 .. S.made
          BY <2>3, <2>7
        <4> QED  BY <2>6, <2>13, <2>15, <4>1
      <3>2. \A x \in given' : wish'[x][2] \in Sizes
        <4>1. wish'[r][2] \in Sizes
          BY <2>18
        <4>2. \A x \in given : x # r => wish'[x][2] \in Sizes
          <5>1. 1 .. space.made \subseteq Ids
            BY <1>4, ShapesFacts
          <5> QED  BY <2>13, <2>18, <5>1
        <4> QED  BY <2>6, <4>1, <4>2
      <3>3. \A x \in InUse' : Field(space', x).typed
        <4> SUFFICES ASSUME NEW x \in InUse'  PROVE Field(S, x).typed
          BY <2>6
        <4>1. CASE x = r
          BY <2>4, <2>7, <4>1, Zenon
        <4>2. CASE x \in InUse
          <5>1. Field(S, x) = Field(space, x)
            BY <2>11, <2>14, <4>2
          <5>2. Field(space, x).typed
            BY <2>13, <4>2
          <5> QED  BY <5>1, <5>2, Zenon
        <4> QED  BY <2>16, <2>17, <4>1, <4>2
      <3>4. ASSUME NEW x \in Ids, blocks'[x] # Empty
            PROVE  x \in Nodes(space') /\ Field(space', x).typed
        <4>1. x \in Nodes(space) \ {fit}
          BY <1>1, <2>14, <3>4
        <4>2. Field(space, x).typed
          BY <1>1, <2>13, <3>4
        <4>3. x \in Nodes(S) /\ Field(S, x) = Field(space, x)
          BY <2>11, <4>1
        <4>4. Field(S, x).typed
          BY <4>2, <4>3, Zenon
        <4> QED  BY <2>6, <4>3, <4>4, Zenon
      <3>5. wish' \in [Ids -> Nat \X Nat] /\ blocks' \in [Ids -> BlockLists] /\ DOMAIN asked' = Ids
        BY <1>1, <2>13, <2>18
      <3> QED  BY <3>1, <3>2, <3>3, <3>4, <3>5, Zenon DEF Books
    <2>21. AllocFits'
      <3> SUFFICES ASSUME NEW x \in InUse'
                   PROVE  /\ Field(S, x).size = wish'[x][2] /\ Field(S, x).base % Align = 0
                          /\ wish'[x][1] # 0 => Field(S, x).base = wish'[x][1]
        BY <2>6 DEF AllocFits
      <3>1. CASE x = r
        <4>1. wish'[x][1] = base /\ wish'[x][2] = size
          BY <2>18, <3>1
        <4>2. Field(S, x).base = Field(l, r).base /\ Field(S, x).size = size
          BY <2>1, <2>4, <2>7, <3>1
        <4> QED  BY <2>1, <4>1, <4>2 DEF Aligned, Over
      <3>2. CASE x \in InUse /\ x # r
        <4>1. Field(S, x) = Field(space, x) /\ wish'[x] = wish[x]
          BY <2>11, <2>14, <2>18, <2>19, <3>2
        <4> QED  BY <3>2, <4>1 DEF ASIInv, AllocFits
      <3> QED  BY <2>16, <2>17, <3>1, <3>2
    <2>22. Standing'
      <3> SUFFICES ASSUME NEW x \in Nodes(S)  PROVE Even(S, x)
        BY <2>6, <2>8 DEF Standing
      <3>1. CASE x = r
        BY <2>4, <2>7, <3>1, Zenon DEF Even
      <3>2. CASE x # r
        <4>1. Even(l, x) /\ Field(S, x) = Field(l, x)
          BY <2>1, <2>7, <3>2
        <4> QED  BY <4>1, Zenon DEF Even
      <3> QED  BY <3>1, <3>2
    <2>23. BlocksCover'
      <3> SUFFICES ASSUME NEW x \in Nodes(S), blocks[x] # Empty
                   PROVE  Covers(blocks[x], Field(S, x).base, Field(S, x).size)
        BY <1>1, <2>6 DEF BlocksCover
      <3>1. x \in Ids
        BY <2>9, <2>15 DEF Numbered
      <3>2. x \in Nodes(space) \ {fit}
        BY <2>14, <3>1
      <3>3. Covers(blocks[x], Field(space, x).base, Field(space, x).size)
        BY <1>1, <3>2 DEF ASIInv, BlocksCover
      <3> QED  BY <2>11, <3>2, <3>3
    <2>24. Untouched'
      <3> SUFFICES ASSUME NEW x \in InUse', asked'[x] # <<>>, blocks[x] = Empty,
                          NEW a \in Field(S, x).base .. End(S, x) - 1
                   PROVE  asked'[x][a] = NOACCESS
        BY <1>1, <2>6 DEF Untouched
      <3>1. CASE x = r
        <4>1. a \in 0 .. Room - 1
          <5>1. r \in Nodes(S)
            BY <2>1, <2>7
          <5> QED  BY <1>5, <2>10, <3>1, <5>1
        <4> QED  BY <2>18, <3>1, <4>1
      <3>2. CASE x \in InUse /\ x # r
        <4>1. Field(S, x) = Field(space, x) /\ End(S, x) = End(space, x) /\ asked'[x] = asked[x]
          BY <2>11, <2>14, <2>18, <2>19, <3>2
        <4> QED  BY <3>2, <4>1 DEF ASIInv, Untouched
      <3> QED  BY <2>16, <2>17, <3>1, <3>2
    <2>25. ProtectExact'
      <3> SUFFICES ASSUME NEW x \in InUse', asked'[x] # <<>>, blocks[x] # Empty,
                          NEW a \in Field(S, x).base .. End(S, x) - 1
                   PROVE  ProtAt(blocks[x], a) = asked'[x][a]
        BY <1>1, <2>6 DEF ProtectExact
      <3>1. x \in InUse /\ x # r
        BY <2>15, <2>16, <2>17
      <3>2. Field(S, x) = Field(space, x) /\ End(S, x) = End(space, x) /\ asked'[x] = asked[x]
        BY <2>11, <2>14, <2>18, <2>19, <3>1
      <3> QED  BY <1>1, <3>1, <3>2 DEF ASIInv, ProtectExact
    <2>26. StepStays
      BY <2>6, <2>11, <2>14 DEF StepStays
    <2> QED  BY <2>12, <2>20, <2>21, <2>22, <2>23, <2>24, <2>25, <2>26 DEF ASIInv
  <1> QED  BY <1>9, <1>10

LEMMA MergeBackRegions ==
    ASSUME NEW m \in Lists(Regions), NEW x
    PROVE  /\ MergeBack(m, x) \in Lists(Regions)
           /\ MergeBack(m, x).made = m.made /\ Nodes(MergeBack(m, x)) = Nodes(m)
           /\ \A y \in Nodes(m) : Field(MergeBack(m, x), y) = Field(m, y)
           /\ MergeBack(m, x).fate = "ok" =>
                 /\ MergeBack(m, x) = m /\ m.fate = "ok"
                 /\ PrevOf(m, x) = 0 \/ NextOf(m, x) \in Nodes(m)
  <1>1. CASE m.fate # "ok" \/ PrevOf(m, x) = 0
    <2>1. MergeBack(m, x) = m
      BY <1>1 DEF MergeBack
    <2> QED  BY <1>1, <2>1
  <1>2. CASE ~(m.fate # "ok" \/ PrevOf(m, x) = 0)
    <2>1. MergeBack(m, x) = Follow(m, NextOf(m, x))
      BY <1>2 DEF MergeBack
    <2> QED  BY <1>2, <2>1, FollowDoes
  <1> QED  BY <1>1, <1>2

(* What freeing does to the regions: all from x on go, whole or broken. *)
Swallows(m, l, sq, n, i, x) ==
    /\ m \in Lists(Regions) /\ m.made = l.made /\ Nodes(m) \subseteq Nodes(l)
    /\ \A j \in 1 .. i : sq[j] \in Nodes(m)
    /\ \A y \in Nodes(m) \ {x} : Field(m, y) = Field(l, y)
    /\ Field(m, x).base = Field(l, x).base
    /\ Field(m, x).size \in 0 .. Room
    /\ m.fate = "ok" =>
          /\ Nodes(m) = {x} /\ Field(m, x).base = 0 /\ Field(m, x).size = Room
          /\ \E t : Line(m, t, 1) /\ Tiled(m, t, 1, 0, Room) /\ Back(m, t, 1)

LEMMA MergedIs ==
    ASSUME NEW l \in Lists(Regions), NEW sq, NEW n, Line(l, sq, n), Tiled(l, sq, n, 0, Room),
           Back(l, sq, n), NEW i \in 1 .. n, NEW x, x = sq[i]
    PROVE  Swallows(MergeBack(AbsorbWhile(l, x, MergesWith(l)), x), l, sq, n, i, x)
  <1> DEFINE T == MergesWith(l)
             m == AbsorbWhile(l, x, T)
             e == MergeBack(m, x)
  <1>1. T = Nodes(l)
    <2>1. \A y \in Nodes(l) : Field(l, y).free \in {TRUE}
      <3>1. \A f \in Regions : f.free \in {TRUE}
        BY DEF Regions
      <3> QED  BY <3>1, ListFacts
    <2>2. \A y \in Nodes(l) : Field(l, y).free
      BY <2>1
    <2> QED  BY <2>2 DEF MergesWith
  <1> HIDE DEF T
  <1>2. /\ m \in Lists(Regions) /\ Shrunk(m, l, sq, i, 0 + Room)
        /\ m.fate = "ok" => /\ Stopped(m, x, T)
                            /\ \E t : \E c : WholeAgain(m, l, sq, i, T, 0, Room, t, c)
    BY RegionsAreRanges, AbsorbWhileDoes
  <1> HIDE DEF m
  <1>3. /\ e \in Lists(Regions) /\ e.made = m.made /\ Nodes(e) = Nodes(m)
        /\ \A y \in Nodes(m) : Field(e, y) = Field(m, y)
        /\ e.fate = "ok" => /\ e = m /\ m.fate = "ok"
                            /\ PrevOf(m, x) = 0 \/ NextOf(m, x) \in Nodes(m)
    BY <1>2, MergeBackRegions
  <1> HIDE DEF e
  <1>4. Room \in Nat /\ n \in Nat \ {0} /\ i \in 1 .. i /\ sq \in [1 .. n -> Nodes(l)]
        /\ 0 \notin Nodes(l)
    BY AddressSpaceAssumption DEF Line
  <1>5. /\ m.made = l.made /\ Nodes(m) \subseteq Nodes(l)
        /\ \A j \in 1 .. i : sq[j] \in Nodes(m)
        /\ x \in Nodes(m)
        /\ \A y \in Nodes(m) \ {x} : Field(m, y) = Field(l, y)
        /\ Field(m, x).size \in Nat /\ End(m, x) <= 0 + Room
        /\ Field(m, x) = [Field(l, x) EXCEPT !.size = Field(m, x).size]
    BY <1>2, <1>4 DEF Shrunk
  <1>6. Field(l, x) \in Regions /\ Field(l, x).base \in Nat
    BY <1>4, ListFacts DEF Tiled
  <1>7. Field(m, x).base = Field(l, x).base
    <2>1. [Field(l, x) EXCEPT !.size = Field(m, x).size].base = Field(l, x).base
      BY <1>5, <1>6, RegionSized, Zenon
    <2> QED  BY <1>5, <2>1
  <1>8. Field(m, x).size \in 0 .. Room
    <2>1. End(m, x) = Field(m, x).base + Field(m, x).size
      BY DEF End
    <2> QED  BY <1>4, <1>5, <1>6, <1>7, <2>1
  <1>9. ASSUME e.fate = "ok"
        PROVE  /\ Nodes(e) = {x} /\ Field(e, x).base = 0 /\ Field(e, x).size = Room
               /\ \E t : Line(e, t, 1) /\ Tiled(e, t, 1, 0, Room) /\ Back(e, t, 1)
    <2>1. /\ e = m /\ m.fate = "ok" /\ Stopped(m, x, T)
          /\ PrevOf(m, x) = 0 \/ NextOf(m, x) \in Nodes(m)
      BY <1>2, <1>3, <1>9
    <2>2. PICK t, c : WholeAgain(m, l, sq, i, T, 0, Room, t, c)
      BY <1>2, <2>1
    <2>3. /\ Line(m, t, c) /\ Tiled(m, t, c, 0, Room) /\ i <= c /\ t[i] = x
          /\ PrevOf(m, x) = PrevOf(l, x)
      BY <1>4, <2>2 DEF WholeAgain
    <2>4. /\ c \in Nat \ {0} /\ t \in [1 .. c -> Nodes(m)]
          /\ \A y \in Nodes(m) : \E j \in 1 .. c : y = t[j]
          /\ \A j \in 1 .. c : NextOf(m, t[j]) = IF j = c THEN 0 ELSE t[j + 1]
      BY <2>3 DEF Line
    <2>5. i = c
      <3> SUFFICES ASSUME i # c  PROVE FALSE
        OBVIOUS
      <3>1. i \in 1 .. c /\ i + 1 \in 1 .. c
        BY <1>4, <2>3, <2>4
      <3>2. NextOf(m, x) = t[i + 1] /\ t[i + 1] \in Nodes(m)
        BY <2>3, <2>4, <3>1
      <3> QED  BY <1>1, <1>4, <1>5, <2>1, <3>2 DEF Stopped
    <2>6. NextOf(m, x) = 0 /\ PrevOf(l, x) = 0
      <3>1. NextOf(m, x) = 0
        BY <1>4, <2>3, <2>4, <2>5
      <3> QED  BY <1>4, <1>5, <2>1, <2>3, <3>1
    <2>7. i = 1
      <3> SUFFICES ASSUME i # 1  PROVE FALSE
        OBVIOUS
      <3>1. i \in 2 .. n
        BY <1>4
      <3>2. PICK j \in 1 .. i - 1 : PrevOf(l, sq[i]) = sq[j]
        BY <3>1 DEF Back
      <3>3. j \in 1 .. n
        BY <1>4
      <3> QED  BY <1>4, <2>6, <3>2, <3>3
    <2>8. c = 1 /\ t[1] = x /\ Nodes(m) = {x}
      <3>1. c = 1 /\ t[1] = x
        BY <2>3, <2>5, <2>7
      <3>2. \A y \in Nodes(m) : y = x
        BY <2>4, <3>1
      <3> QED  BY <1>5, <3>1, <3>2
    <2>9. Field(m, x).base = 0 /\ End(m, x) = 0 + Room
      BY <2>3, <2>8 DEF Tiled
    <2>10. Field(m, x).size = Room
      BY <1>4, <1>8, <2>9 DEF End
    <2>11. Back(m, t, 1)
      BY <2>3, <2>6, <2>8 DEF Back
    <2> QED  BY <2>1, <2>3, <2>8, <2>9, <2>10, <2>11
  <1>10. Swallows(e, l, sq, n, i, x)
    BY <1>3, <1>5, <1>7, <1>8, <1>9 DEF Swallows
  <1> QED  BY <1>10 DEF e, m, T

(* The region that is freed for g, and what the free regions then are. *)
FreedFirst(g) ==
    FirstFrom(space, space.first,
              {y \in Nodes(space) : Field(space, y).base >= Field(space, g).base})
Merged(x) == MergeBack(AbsorbWhile(space, x, MergesWith(space)), x)

LEMMA FreedFirstIs ==
    ASSUME NEW sq, NEW n, Line(space, sq, n), Tiled(space, sq, n, 0, Room), NEW g \in Nodes(space)
    PROVE  \E i \in 1 .. n :
              /\ FreedFirst(g) = sq[i]
              /\ Field(space, g).base <= Field(space, sq[i]).base
              /\ sq[i] = g \/ Field(space, sq[i]).size = 0
  <1> DEFINE T == {y \in Nodes(space) : Field(space, y).base >= Field(space, g).base}
             x == FirstFrom(space, space.first, T)
  <1>1. /\ n \in Nat \ {0} /\ sq \in [1 .. n -> Nodes(space)] /\ space.first = sq[1]
        /\ 1 \in 1 .. n /\ 0 \notin Nodes(space)
    BY DEF Line
  <1>2. \A y \in Nodes(space) : /\ Field(space, y).base \in Nat /\ Field(space, y).size \in Nat
                                /\ End(space, y) = Field(space, y).base + Field(space, y).size
    BY EndIs
  <1>3. PICK k \in 1 .. n : g = sq[k]
    BY DEF Line
  <1>4. g \in T /\ T \subseteq Nodes(space)
    BY <1>2
  <1>5. Finds(sq, n, 1, T, x)
    <2> HIDE DEF T
    <2> QED  BY <1>1, FirstFromFinds
  <1> HIDE DEF x
  <1>6. PICK i \in 1 .. n : x = sq[i] /\ sq[i] \in T /\ \A h \in 1 .. i - 1 : sq[h] \notin T
    <2> HIDE DEF T
    <2> QED  BY <1>3, <1>4, <1>5 DEF Finds
  <1>7. Field(space, g).base <= Field(space, sq[i]).base
    BY <1>1, <1>2, <1>6
  <1>8. sq[i] = g \/ Field(space, sq[i]).size = 0
    <2>1. ~(k < i)
      <3> SUFFICES ASSUME k < i  PROVE FALSE
        OBVIOUS
      <3>1. k \in 1 .. i - 1
        BY <1>1
      <3> HIDE DEF T
      <3> QED  BY <1>3, <1>4, <1>6, <3>1
    <2>2. CASE i < k
      <3>1. End(space, sq[i]) <= Field(space, sq[k]).base
        BY <2>2, TiledOrder
      <3> QED  BY <1>1, <1>2, <1>3, <1>7, <3>1
    <2>3. CASE i = k
      BY <1>3, <2>3
    <2> QED  BY <1>1, <2>1, <2>2, <2>3
  <1>9. FreedFirst(g) = x
    BY DEF FreedFirst, x
  <1> QED  BY <1>6, <1>7, <1>8, <1>9

LEMMA FreeKeeps ==
    ASSUME ASIInv, NEW g \in given, freeSectionAddress(g)
    PROVE  ASIInv' /\ StepStays
  <1> DEFINE x == FreedFirst(g)
             m == Merged(x)
             h == [Field(m, x) EXCEPT !.typed = FALSE, !.free = TRUE]
             S == SetField(m, x, h)
  <1>1. /\ Fine /\ g \in given \cap Nodes(space)
        /\ space' = IF m.fate # "ok" THEN m ELSE S
        /\ blocks' = [y \in Ids |-> IF y = x \/ y \notin Nodes(m) THEN Empty ELSE blocks[y]]
        /\ given' = given \ {g} /\ wish' = wish /\ asked' = asked
    BY DEF freeSectionAddress, FreedFirst, Merged
  <1> HIDE DEF x, m
  <1>2. /\ space.fate = "ok" /\ Stands(space) /\ Shapes /\ Books /\ AllocFits /\ Untouched
        /\ space \in Lists(Regions) /\ Numbered(space) /\ space.made <= MaxNodes
    BY <1>1 DEF Fine, ASIInv, Standing, Shapes
  <1>3. PICK sq, n : Line(space, sq, n) /\ Tiled(space, sq, n, 0, Room) /\ Back(space, sq, n)
    BY <1>2 DEF Stands
  <1>4. PICK i \in 1 .. n : /\ x = sq[i]
                            /\ Field(space, g).base <= Field(space, sq[i]).base
                            /\ sq[i] = g \/ Field(space, sq[i]).size = 0
    BY <1>1, <1>3, FreedFirstIs DEF x
  <1>5. Swallows(m, space, sq, n, i, x)
    BY <1>2, <1>3, <1>4, MergedIs DEF m, Merged
  <1>6. n \in Nat \ {0} /\ sq \in [1 .. n -> Nodes(space)] /\ i \in 1 .. i /\ x \in Nodes(space)
    BY <1>3, <1>4 DEF Line
  <1>7. /\ m \in Lists(Regions) /\ m.made = space.made /\ Nodes(m) \subseteq Nodes(space)
        /\ \A j \in 1 .. i : sq[j] \in Nodes(m)
        /\ x \in Nodes(m)
        /\ \A y \in Nodes(m) \ {x} : Field(m, y) = Field(space, y) /\ End(m, y) = End(space, y)
        /\ Field(m, x).base = Field(space, x).base /\ Field(m, x).size \in 0 .. Room
    BY <1>4, <1>5, <1>6 DEF Swallows, End
  <1>8. /\ given \subseteq 1 .. space.made
        /\ wish \in [Ids -> Nat \X Nat] /\ \A y \in given : wish[y][2] \in Sizes
        /\ blocks \in [Ids -> BlockLists] /\ DOMAIN asked = Ids
        /\ \A y \in InUse : Field(space, y).typed
        /\ \A y \in Ids : blocks[y] # Empty => y \in Nodes(space) /\ Field(space, y).typed
    BY <1>2 DEF Books
  <1>9. x \in InUse => x = g
    <2> SUFFICES ASSUME x \in InUse  PROVE x = g
      OBVIOUS
    <2>1. Field(space, x).size = wish[x][2] /\ wish[x][2] \in Sizes
      BY <1>2, <1>8 DEF AllocFits, InUse
    <2>2. Field(space, x).size # 0
      BY <2>1, AddressSpaceAssumption
    <2> QED  BY <1>4, <2>2
  <1>10. \A y \in (given \ {g}) \cap Nodes(m) : y \in InUse /\ y \in Nodes(m) \ {x}
    BY <1>7, <1>9 DEF InUse
  <1>11. \A y \in Ids : blocks'[y] # Empty => /\ y \in Nodes(m) \ {x} /\ blocks'[y] = blocks[y]
    BY <1>1
  <1>12. blocks' \in [Ids -> BlockLists]
    BY <1>1, <1>8, EmptyIs
  <1>13. Room \in Nat /\ MaxNodes \in Nat /\ Aligned(Room)
    BY AddressSpaceAssumption, DListAssumption DEF Aligned, Over
  <1>14. ASSUME NEW y \in InUse, y \notin Nodes(m) \/ Field(m, y) # Field(space, y)
         PROVE  Field(space, g).base <= Field(space, y).base
    <2>1. PICK j \in 1 .. n : y = sq[j]
      BY <1>3 DEF InUse, Line
    <2>2. CASE y = x
      BY <1>4, <2>2
    <2>3. CASE y # x
      <3>1. ~(j <= i)
        <4> SUFFICES ASSUME j <= i  PROVE FALSE
          OBVIOUS
        <4>1. j \in 1 .. i
          BY <1>6
        <4>2. y \in Nodes(m) \ {x}
          BY <1>7, <2>1, <2>3, <4>1
        <4> QED  BY <1>7, <1>14, <4>2
      <3>2. i < j
        BY <1>6, <3>1
      <3>3. End(space, sq[i]) <= Field(space, sq[j]).base
        BY <1>3, <3>2, TiledOrder
      <3>4. /\ Field(space, g).base \in Nat /\ Field(space, y).base \in Nat
            /\ Field(space, x).base \in Nat
            /\ End(space, x) \in Nat /\ Field(space, x).base <= End(space, x)
        BY <1>1, <1>3, <1>6, <2>1, EndIs
      <3> QED  BY <1>4, <2>1, <3>3, <3>4
    <2> QED  BY <2>2, <2>3
  <1>15. Numbered(m)
    BY <1>2, <1>7 DEF Numbered
  <1>16. given \ {g} \subseteq 1 .. m.made
    BY <1>7, <1>8
  <1>17. CASE m.fate # "ok"
    <2>1. space' = m /\ InUse' = (given \ {g}) \cap Nodes(m)
      BY <1>1, <1>17 DEF InUse
    <2>2. Shapes'
      <3>1. \A y \in Nodes(m) : Field(m, y).base \in 0 .. Room /\ Field(m, y).size \in 0 .. Room
        BY <1>2, <1>6, <1>7 DEF Shapes
      <3> QED  BY <1>2, <1>7, <1>15, <2>1, <3>1 DEF Shapes
    <2>3. Books'
      <3>1. ASSUME NEW y \in InUse'  PROVE Field(space', y).typed
        <4>1. y \in InUse /\ Field(m, y) = Field(space, y)
          BY <1>7, <1>10, <2>1
        <4>2. Field(space, y).typed
          BY <1>8, <4>1
        <4> QED  BY <2>1, <4>1, <4>2, Zenon
      <3>2. ASSUME NEW y \in Ids, blocks'[y] # Empty
            PROVE  y \in Nodes(space') /\ Field(space', y).typed
        <4>1. y \in Nodes(m) \ {x} /\ blocks'[y] = blocks[y]
          BY <1>11, <3>2
        <4>2. Field(space, y).typed
          BY <1>8, <3>2, <4>1
        <4>3. Field(m, y) = Field(space, y)
          BY <1>7, <4>1
        <4> QED  BY <2>1, <4>1, <4>2, <4>3, Zenon
      <3>3. /\ given' \subseteq 1 .. space'.made /\ wish' \in [Ids -> Nat \X Nat]
            /\ \A y \in given' : wish'[y][2] \in Sizes
            /\ DOMAIN asked' = Ids
        BY <1>1, <1>8, <1>16, <2>1
      <3> QED  BY <1>12, <3>1, <3>2, <3>3, Zenon DEF Books
    <2>4. AllocFits'
      <3> SUFFICES ASSUME NEW y \in InUse'
                   PROVE  /\ Field(m, y).size = wish[y][2] /\ Field(m, y).base % Align = 0
                          /\ wish[y][1] # 0 => Field(m, y).base = wish[y][1]
        BY <1>1, <2>1 DEF AllocFits
      <3>1. y \in InUse /\ Field(m, y) = Field(space, y)
        BY <1>7, <1>10, <2>1
      <3> QED  BY <1>2, <3>1 DEF AllocFits
    <2>5. Standing' /\ BlocksCover' /\ ProtectExact'
      BY <1>17, <2>1 DEF Standing, BlocksCover, ProtectExact, Fine
    <2>6. Untouched'
      <3> SUFFICES ASSUME NEW y \in InUse', asked[y] # <<>>, blocks'[y] = Empty,
                          NEW a \in Field(m, y).base .. End(m, y) - 1
                   PROVE  asked[y][a] = NOACCESS
        BY <1>1, <2>1 DEF Untouched
      <3>1. /\ y \in InUse /\ y \in Nodes(m) \ {x}
            /\ Field(m, y) = Field(space, y) /\ End(m, y) = End(space, y)
        BY <1>7, <1>10, <2>1
      <3>2. y \in Ids
        BY <1>2, <3>1, ShapesFacts DEF InUse
      <3>3. blocks[y] = Empty
        BY <1>1, <3>1, <3>2
      <3> QED  BY <1>2, <3>1, <3>3 DEF Untouched
    <2>7. StepStays
      <3>1. g \in given \ given'
        BY <1>1
      <3> QED  BY <1>14, <2>1, <3>1 DEF StepStays
    <2> QED  BY <2>2, <2>3, <2>4, <2>5, <2>6, <2>7 DEF ASIInv
  <1>18. CASE m.fate = "ok"
    <2>1. /\ space' = S
          /\ Nodes(m) = {x} /\ Field(m, x).base = 0 /\ Field(m, x).size = Room
      BY <1>1, <1>5, <1>18 DEF Swallows
    <2>2. PICK t : Line(m, t, 1) /\ Tiled(m, t, 1, 0, Room) /\ Back(m, t, 1)
      BY <1>5, <1>18 DEF Swallows
    <2>3. h \in Regions /\ h.base = 0 /\ h.size = Room
      <3>1. Field(m, x) \in Regions
        BY <1>7, ListFacts
      <3>2. h \in Regions /\ h.base = Field(m, x).base /\ h.size = Field(m, x).size
        BY <3>1, RegionTyped, Zenon
      <3> QED  BY <2>1, <3>2
    <2> HIDE DEF h
    <2>4. S \in Lists(Regions) /\ FieldSet(S, m, x, h)
      BY <1>7, <2>3, SetFieldDoes
    <2> HIDE DEF S
    <2>5. Nodes(S) = {x} /\ S.made = space.made /\ Field(S, x) = h /\ Nodes(S) = Nodes(m)
      BY <1>7, <2>1, <2>4 DEF FieldSet
    <2>6. Line(S, t, 1) /\ Tiled(S, t, 1, 0, Room) /\ Back(S, t, 1)
      BY <1>7, <2>1, <2>2, <2>3, <2>4, FieldSetLine
    <2>7. InUse' = {}
      BY <1>1, <1>10, <2>1, <2>5 DEF InUse
    <2>8. \A y \in Ids : blocks'[y] = Empty
      BY <1>11, <2>1
    <2>9. x \in Ids
      BY <1>2, <1>6, ShapesFacts
    <2>10. Shapes'
      BY <1>2, <1>13, <1>15, <1>7, <2>1, <2>3, <2>4, <2>5 DEF Shapes, Numbered
    <2>11. Books'
      <3>1. /\ given' \subseteq 1 .. space'.made /\ wish' \in [Ids -> Nat \X Nat]
            /\ \A y \in given' : wish'[y][2] \in Sizes
            /\ DOMAIN asked' = Ids
        BY <1>1, <1>8, <1>16, <1>7, <2>1, <2>5
      <3> QED  BY <1>12, <2>7, <2>8, <3>1 DEF Books
    <2>12. Standing'
      <3>1. Even(S, x)
        BY <1>13, <2>3, <2>5 DEF Even
      <3> QED  BY <2>1, <2>5, <2>6, <3>1 DEF Standing, Stands
    <2>13. AllocFits' /\ BlocksCover' /\ Untouched' /\ ProtectExact'
      <3>1. AllocFits' /\ Untouched' /\ ProtectExact'
        BY <2>7 DEF AllocFits, Untouched, ProtectExact
      <3>2. BlocksCover'
        BY <2>1, <2>5, <2>8, <2>9 DEF BlocksCover
      <3> QED  BY <3>1, <3>2
    <2>14. StepStays
      <3> SUFFICES ASSUME NEW y \in InUse
                   PROVE  Field(space, g).base <= Field(space, y).base
        BY <1>1 DEF StepStays
      <3>1. CASE y = x
        BY <1>4, <3>1
      <3>2. CASE y # x
        BY <1>14, <2>1, <3>2
      <3> QED  BY <3>1, <3>2
    <2> QED  BY <2>10, <2>11, <2>12, <2>13, <2>14 DEF ASIInv
  <1> QED  BY <1>17, <1>18

LEMMA ProtectKeeps ==
    ASSUME ASIInv, NEW x \in given, NEW base \in 0 .. Room - 1, NEW size \in Sizes,
           NEW prot \in Prots, vmprotect(x, base, size, prot)
    PROVE  ASIInv' /\ StepStays
  <1> DEFINE f == Field(space, x)
             l == initBlock(x)
             m == Protected(x, base, size, prot)
             within == WithinBlock(x, base, size)
  <1>1. /\ Fine /\ x \in InUse /\ x \in Nodes(space) /\ space.fate = "ok"
        /\ f.base <= base /\ base < End(space, x)
        /\ space' = space /\ given' = given /\ wish' = wish /\ InUse' = InUse
        /\ blocks' = [blocks EXCEPT ![x] = m]
        /\ asked' = [asked EXCEPT ![x] =
                        IF within /\ asked[x] # <<>>
                        THEN [a \in 0 .. Room - 1 |->
                                IF a \in base .. base + size - 1 THEN prot ELSE asked[x][a]]
                        ELSE <<>>]
    BY DEF vmprotect, InUse, Fine
  <1>2. /\ Stands(space) /\ Shapes /\ Books /\ AllocFits /\ Standing /\ BlocksCover
        /\ Untouched /\ ProtectExact
    BY <1>1 DEF ASIInv, Standing
  <1>3. x \in Ids /\ blocks \in [Ids -> BlockLists] /\ DOMAIN asked = Ids
    BY <1>1, <1>2, ShapesFacts DEF Books
  <1>4. f.base \in Nat /\ f.size \in Nat /\ End(space, x) = f.base + f.size
        /\ f.base + f.size <= Room /\ Room \in Nat
    <2>1. f.base \in 0 .. Room /\ f.size \in 0 .. Room
          /\ End(space, x) = f.base + f.size /\ End(space, x) <= Room
      BY <1>1, <1>2, StandsFacts
    <2> HIDE DEF f
    <2> QED  BY <2>1, AddressSpaceAssumption
  <1>5. /\ blocks'[x] = m /\ \A y \in Ids \ {x} : blocks'[y] = blocks[y] /\ asked'[y] = asked[y]
        /\ asked'[x] = IF within /\ asked[x] # <<>>
                       THEN [a \in 0 .. Room - 1 |->
                               IF a \in base .. base + size - 1 THEN prot ELSE asked[x][a]]
                       ELSE <<>>
        /\ DOMAIN blocks' = Ids /\ DOMAIN asked' = Ids
    <2> HIDE DEF m, within
    <2> QED  BY <1>1, <1>3
  <1>6. base \in Nat /\ base \in f.base .. f.base + f.size - 1 /\ size \in Nat \ {0}
    <2>1. base <= Room - 1 /\ base \in Nat
      BY <1>4
    <2> HIDE DEF f
    <2> QED  BY <1>1, <1>4, <2>1, AddressSpaceAssumption DEF f
  <1>7. l \in Lists(BlockFields) /\ Numbered(l) /\ Covers(l, f.base, f.size)
    <2>1. CASE blocks[x] # Empty
      BY <1>1, <1>2, <1>3, <2>1 DEF BlockLists, BlocksCover, initBlock
    <2>2. CASE blocks[x] = Empty
      <3>1. l = Single([base |-> f.base, size |-> f.size, prot |-> NOACCESS])
        BY <2>2 DEF initBlock
      <3> HIDE DEF l, f
      <3> QED  BY <1>4, <3>1, SingleBlock, AddressSpaceAssumption
    <2> QED  BY <2>1, <2>2
  <1>8. /\ BlockList(m, f.base, f.size)
        /\ m.fate = "ok" /\ within => ProtectsRange(m, l, base, size, prot)
    BY <1>6, <1>7, ProtectedDoes
  <1>9. ASSUME asked[x] # <<>>, NEW z, NEW a \in f.base .. f.base + f.size - 1, At(l, z, a)
        PROVE  Field(l, z).prot = asked[x][a]
    <2>0. a \in Nat /\ a \in Int
      BY <1>4
    <2>1. CASE blocks[x] # Empty
      <3>1. l = blocks[x]
        BY <2>1 DEF initBlock
      <3>2. ProtAt(blocks[x], a) = asked[x][a]
        BY <1>1, <1>2, <1>4, <1>9, <2>1 DEF ProtectExact
      <3>3. At(l, EndsAfter(l, l.first, a), a)
        <4> HIDE DEF l, f
        <4> QED  BY <1>7, <1>9, CoversFirst
      <3>4. EndsAfter(l, l.first, a) = z
        <4> HIDE DEF l, f
        <4> QED  BY <1>7, <1>9, <2>0, <3>3, CoversAtOnce
      <3> HIDE DEF l, f
      <3> QED  BY <3>1, <3>2, <3>4 DEF ProtAt
    <2>2. CASE blocks[x] = Empty
      <3>1. l = Single([base |-> f.base, size |-> f.size, prot |-> NOACCESS])
        BY <2>2 DEF initBlock
      <3>2. \A w \in Nodes(l) : Field(l, w).prot = NOACCESS
        <4> HIDE DEF l, f
        <4> QED  BY <1>4, <3>1, SingleBlock, AddressSpaceAssumption
      <3>3. asked[x][a] = NOACCESS
        BY <1>1, <1>2, <1>4, <1>9, <2>2 DEF Untouched
      <3> HIDE DEF l, f
      <3> QED  BY <1>9, <3>2, <3>3 DEF At
    <2> QED  BY <2>1, <2>2
  <1> HIDE DEF l, m, within
  <1>10. m \in BlockLists
    BY <1>8 DEF BlockList, BlockLists
  <1>11. Fine' => m.fate = "ok"
    BY <1>1, <1>5 DEF Fine
  <1>12. Shapes' /\ AllocFits' /\ Standing'
    BY <1>1, <1>2 DEF Shapes, AllocFits, Standing
  <1>13. Books'
    <2>1. blocks' \in [Ids -> BlockLists]
      BY <1>1, <1>3, <1>10
    <2>2. \A y \in Ids : blocks'[y] # Empty => y \in Nodes(space) /\ Field(space, y).typed
      <3> SUFFICES ASSUME NEW y \in Ids, blocks'[y] # Empty
                   PROVE  y \in Nodes(space) /\ Field(space, y).typed
        OBVIOUS
      <3>1. CASE y = x
        <4>1. Field(space, x).typed
          BY <1>1, <1>2, Zenon DEF Books
        <4> QED  BY <1>1, <3>1, <4>1, Zenon
      <3>2. CASE y # x
        BY <1>2, <1>5, <3>2, Zenon DEF Books
      <3> QED  BY <3>1, <3>2, Zenon
    <2>3. /\ given \subseteq 1 .. space.made /\ wish \in [Ids -> Nat \X Nat]
          /\ \A y \in given : wish[y][2] \in Sizes
      BY <1>2 DEF Books
    <2>4. \A y \in InUse : Field(space, y).typed
      BY <1>2, Zenon DEF Books
    <2> QED  BY <1>1, <1>5, <2>1, <2>2, <2>3, <2>4, Zenon DEF Books
  <1>14. BlocksCover'
    <2> SUFFICES ASSUME Fine', NEW y \in Nodes(space), blocks'[y] # Empty
                 PROVE  Covers(blocks'[y], Field(space, y).base, Field(space, y).size)
      BY <1>1 DEF BlocksCover
    <2>1. CASE y = x
      BY <1>5, <1>8, <1>11, <2>1 DEF BlockList
    <2>2. CASE y # x
      <3>1. y \in Ids
        BY <1>2, ShapesFacts
      <3> QED  BY <1>1, <1>2, <1>5, <2>2, <3>1 DEF BlocksCover
    <2> QED  BY <2>1, <2>2
  <1>15. m # Empty
    <2> SUFFICES ASSUME m = Empty  PROVE FALSE
      OBVIOUS
    <2>1. m.fate = "ok" /\ Nodes(m) = {}
      BY DEF Empty, Nodes
    <2>2. m.first \in Nodes(m)
      BY <1>8, <2>1, CoversFacts DEF BlockList
    <2> QED  BY <2>1, <2>2
  <1>16. Untouched'
    <2> SUFFICES ASSUME NEW y \in InUse, asked'[y] # <<>>, blocks'[y] = Empty,
                        NEW a \in Field(space, y).base .. End(space, y) - 1
                 PROVE  asked'[y][a] = NOACCESS
      BY <1>1 DEF Untouched
    <2>1. y # x /\ y \in Ids
      BY <1>2, <1>5, <1>15, ShapesFacts DEF InUse
    <2> QED  BY <1>2, <1>5, <2>1 DEF Untouched
  <1>17. ProtectExact'
    <2> SUFFICES ASSUME Fine', NEW y \in InUse, asked'[y] # <<>>, blocks'[y] # Empty,
                        NEW a \in Field(space, y).base .. End(space, y) - 1
                 PROVE  ProtAt(blocks'[y], a) = asked'[y][a]
      BY <1>1 DEF ProtectExact
    <2>1. CASE y # x
      <3>1. y \in Ids
        BY <1>2, ShapesFacts DEF InUse
      <3> QED  BY <1>1, <1>2, <1>5, <2>1, <3>1 DEF ProtectExact
    <2>2. CASE y = x
      <3>1. within /\ asked[x] # <<>>
        BY <1>5, <2>2
      <3>2. a \in f.base .. f.base + f.size - 1
        BY <1>4, <2>2
      <3> HIDE DEF f
      <3>3. a \in 0 .. Room - 1 /\ a \in Int
        BY <1>4, <3>2
      <3>4. asked'[x][a] = IF a \in base .. base + size - 1 THEN prot ELSE asked[x][a]
        BY <1>5, <3>1, <3>3
      <3> DEFINE w == EndsAfter(m, m.first, a)
      <3>5. At(m, w, a)
        BY <1>8, <1>11, <3>2, CoversFirst DEF BlockList
      <3> HIDE DEF w
      <3>6. PICK z : /\ At(l, z, a)
                     /\ Field(m, w).prot = IF a \in base .. base + size - 1 THEN prot
                                           ELSE Field(l, z).prot
        BY <1>8, <1>11, <3>1, <3>3, <3>5 DEF ProtectsRange
      <3>7. Field(l, z).prot = asked[x][a]
        BY <1>9, <3>1, <3>2, <3>6
      <3>8. ProtAt(blocks'[y], a) = Field(m, w).prot
        BY <1>5, <2>2 DEF ProtAt, w
      <3> QED  BY <2>2, <3>4, <3>6, <3>7, <3>8
    <2> QED  BY <2>1, <2>2
  <1>18. StepStays
    BY <1>1 DEF StepStays, InUse
  <1> QED  BY <1>12, <1>13, <1>14, <1>16, <1>17, <1>18 DEF ASIInv

LEMMA ASNextKeeps ==
    ASSUME ASIInv, [ASNext]_asvars
    PROVE  ASIInv' /\ [StepStays]_asvars
  <1>1. CASE UNCHANGED asvars
    BY <1>1, InvStutters
  <1>2. CASE ASNext
    <2>1. ASSUME NEW base \in {b \in 0 .. Room - 1 : b % Align = 0}, NEW size \in Sizes,
                 NEW top \in BOOLEAN, allocSectionAddress(base, size, top)
          PROVE  ASIInv' /\ StepStays
      BY <2>1, AllocKeeps
    <2>2. ASSUME NEW g \in given, freeSectionAddress(g)
          PROVE  ASIInv' /\ StepStays
      BY <2>2, FreeKeeps
    <2>3. ASSUME NEW x \in given, NEW base \in 0 .. Room - 1, NEW size \in Sizes,
                 NEW prot \in Prots, vmprotect(x, base, size, prot)
          PROVE  ASIInv' /\ StepStays
      BY <2>3, ProtectKeeps
    <2> QED  BY <1>2, <2>1, <2>2, <2>3 DEF ASNext
  <1> QED  BY <1>1, <1>2

(* space.h: whatever is allocated, freed and protected, and in whatever    *)
(* order, the regions cover the whole space in order and once, the blocks  *)
(* of a region cover it, and a region in use lies where it was asked for,  *)
(* as long as no bad pointer has been followed.                            *)
THEOREM SpaceStands == ASSpec => []SpaceInv
  <1>1. ASInit => ASIInv
    BY ASInitIs
  <1>2. ASIInv /\ [ASNext]_asvars => ASIInv'
    BY ASNextKeeps
  <1>3. ASIInv => SpaceInv
    BY InvImplies
  <1> QED  BY <1>1, <1>2, <1>3, PTL DEF ASSpec

(* linkNext (dlinklist.h) leaves the _prev of the following region wrong,  *)
(* and yet in any state it is that of an earlier region: no search from    *)
(* the top runs for ever.                                                  *)
THEOREM SpacePrevLeadsBack == ASSpec => []PrevLeadsBack
  <1>1. ASInit => ASIInv
    BY ASInitIs
  <1>2. ASIInv /\ [ASNext]_asvars => ASIInv'
    BY ASNextKeeps
  <1>3. ASIInv => PrevLeadsBack
    BY InvImplies
  <1> QED  BY <1>1, <1>2, <1>3, PTL DEF ASSpec

(* vmprotect: as long as the calls stay within a block, every page of a    *)
(* region has the protection last asked for it.                            *)
THEOREM SpaceProtectExact == ASSpec => []ProtectExact
  <1>1. ASInit => ASIInv
    BY ASInitIs
  <1>2. ASIInv /\ [ASNext]_asvars => ASIInv'
    BY ASNextKeeps
  <1>3. ASIInv => ProtectExact
    BY InvImplies
  <1> QED  BY <1>1, <1>2, <1>3, PTL DEF ASSpec

(* allocSectionAddress and vmprotect leave the regions in use as they are, *)
(* and freeSectionAddress those in front of the one it is given.           *)
THEOREM SpaceGivenStays == ASSpec => GivenStays
  <1>1. ASInit => ASIInv
    BY ASInitIs
  <1>2. ASIInv /\ [ASNext]_asvars => ASIInv' /\ [StepStays]_asvars
    BY ASNextKeeps
  <1>3. ASSpec => [][StepStays]_asvars
    BY <1>1, <1>2, PTL DEF ASSpec
  <1> QED  BY <1>3 DEF GivenStays, StepStays
=============================================================================
