--------------------------- MODULE DiskIndexProofs ---------------------------
(***************************************************************************)
(* The disk index where no directory sync fails, for any chunks,           *)
(* identities, contents and bounds and any other failures: searches see    *)
(* what completed operations left, a crash loses none of it, and vectors   *)
(* stay under their identity.                                              *)
(***************************************************************************)
EXTENDS DiskIndex, FiniteSetTheorems, WellFoundedInduction, TLAPS

-----------------------------------------------------------------------------
(* Sets of numbers and sequences of a set's elements *)

(* Max finds the greatest element of a bounded set of numbers.              *)
LEMMA Greatest ==
  ASSUME NEW n \in Nat, NEW S, S \subseteq 0 .. n, S # {}
  PROVE  Max(S) \in S /\ \A y \in S : y <= Max(S)
<1>. DEFINE T == {n - x : x \in S}
<1>1. T \subseteq Nat /\ T # {}
  <2>1. \A x \in S : n - x \in Nat
    OBVIOUS
  <2>2. QED
    BY <2>1
<1>2. PICK t \in T : \A y \in T : ~(<<y, t>> \in OpToRel(<, Nat))
  BY <1>1, NatLessThanWellFounded, WFMin
<1>3. \A y \in T : t <= y
  <2>. HIDE DEF T
  <2>1. \A y \in T : y \in Nat /\ t \in Nat /\ ~(y < t)
    BY <1>1, <1>2 DEF OpToRel
  <2>2. QED
    BY <2>1
<1>4. PICK m \in S : t = n - m
  OBVIOUS
<1>5. \A y \in S : m >= y
  <2>. SUFFICES ASSUME NEW y \in S PROVE m >= y
    OBVIOUS
  <2>1. t <= n - y
    BY <1>3
  <2>2. QED
    BY <1>4, <2>1
<1>6. Max(S) \in S /\ \A y \in S : Max(S) >= y
  BY <1>5 DEF Max
<1>7. QED
  BY <1>6

(* SetToSeq enumerates a finite set.                                        *)
LEMMA Enumerated ==
  ASSUME NEW S, IsFiniteSet(S)
  PROVE  SetToSeq(S) \in Seq(S)
<1>. DEFINE n == Cardinality(S)
<1>1. n \in Nat /\ ExistsBijection(1 .. n, S)
  BY FS_CardinalityType
<1>2. PICK f \in Bijection(1 .. n, S) : TRUE
  BY <1>1 DEF ExistsBijection
<1>3. f \in [1 .. n -> S] /\ IsInjective(f)
  BY <1>2 DEF Bijection, Injection
<1>4. SetToSeq(S) \in [1 .. n -> S]
  BY <1>3 DEF SetToSeq
<1>5. QED
  BY <1>1, <1>4

(* A finite set of numbers can be listed in increasing order: each element  *)
(* at the place its rank gives it.                                          *)
LEMMA Ranked ==
  ASSUME NEW S, S \subseteq Nat, IsFiniteSet(S)
  PROVE  \E ids \in SetToSeqs(S) : \A i, k \in DOMAIN ids : i < k => ids[i] < ids[k]
<1>. DEFINE n == Cardinality(S)
            upto(x) == {y \in S : y <= x}
            rank == [x \in S |-> Cardinality(upto(x))]
<1>1. n \in Nat
  BY FS_CardinalityType
<1>2. \A x \in S : IsFiniteSet(upto(x)) /\ Cardinality(upto(x)) \in Nat
                   /\ Cardinality(upto(x)) <= n
  <2>. SUFFICES ASSUME NEW x \in S
                PROVE  IsFiniteSet(upto(x)) /\ Cardinality(upto(x)) \in Nat
                       /\ Cardinality(upto(x)) <= n
    OBVIOUS
  <2>1. upto(x) \subseteq S
    OBVIOUS
  <2>2. QED
    BY <2>1, FS_Subset, FS_CardinalityType
<1>3. \A x, z \in S : x < z => rank[x] < rank[z]
  <2>. SUFFICES ASSUME NEW x \in S, NEW z \in S, x < z PROVE rank[x] < rank[z]
    OBVIOUS
  <2>1. upto(x) \subseteq upto(z) /\ z \in upto(z) /\ z \notin upto(x)
    <3>1. x \in Nat /\ z \in Nat /\ \A y \in S : y \in Nat
      OBVIOUS
    <3>2. z <= z /\ ~(z <= x) /\ \A y \in S : y <= x => y <= z
      BY <3>1
    <3>3. QED
      BY <3>2
  <2>2. Cardinality(upto(x)) <= Cardinality(upto(z))
        /\ (Cardinality(upto(x)) = Cardinality(upto(z)) => upto(x) = upto(z))
    BY <1>2, <2>1, FS_Subset
  <2>3. Cardinality(upto(x)) < Cardinality(upto(z))
    BY <1>2, <2>1, <2>2
  <2>4. QED
    BY <2>3
<1>4. \A x \in S : rank[x] \in 1 .. n
  <2>. SUFFICES ASSUME NEW x \in S PROVE rank[x] \in 1 .. n
    OBVIOUS
  <2>1. x \in upto(x)
    OBVIOUS
  <2>2. Cardinality(upto(x)) # 0
    BY <1>2, <2>1, FS_EmptySet
  <2>3. QED
    BY <1>1, <1>2, <2>2
<1>5. rank \in Injection(S, 1 .. n)
  <2>1. rank \in [S -> 1 .. n]
    BY <1>4
  <2>2. \A x, z \in S : rank[x] = rank[z] => x = z
    BY <1>3, <1>4
  <2>3. QED
    BY <2>1, <2>2 DEF Injection, IsInjective
<1>6. IsFiniteSet(1 .. n) /\ Cardinality(1 .. n) = n
  BY <1>1, FS_Interval
<1>7. rank \in Surjection(S, 1 .. n)
  BY <1>5, <1>6, FS_Injection
<1>8. \A i \in 1 .. n : \E x \in S : rank[x] = i
  BY <1>7 DEF Surjection
<1>. DEFINE ids == [i \in 1 .. n |-> CHOOSE x \in S : rank[x] = i]
<1>9. \A i \in 1 .. n : ids[i] \in S /\ rank[ids[i]] = i
  BY <1>8
<1>10. \A i, k \in 1 .. n : i < k => ids[i] < ids[k]
  <2>. SUFFICES ASSUME NEW i \in 1 .. n, NEW k \in 1 .. n, i < k PROVE ids[i] < ids[k]
    OBVIOUS
  <2>1. /\ ids[i] \in Nat /\ ids[k] \in Nat /\ ids[i] \in S /\ ids[k] \in S
        /\ rank[ids[i]] = i /\ rank[ids[k]] = k
    BY <1>9
  <2>. HIDE DEF ids, rank
  <2>2. CASE ids[k] < ids[i]
    <3>1. rank[ids[k]] < rank[ids[i]]
      BY <1>3, <2>1, <2>2
    <3>2. QED
      BY <2>1, <3>1
  <2>3. CASE ids[k] = ids[i]
    BY <2>1, <2>3
  <2>4. QED
    BY <2>1, <2>2, <2>3
<1>11. ids \in SetToSeqs(S)
  <2>1. ids \in [1 .. n -> S]
    BY <1>9
  <2>2. \A i, k \in 1 .. n : i # k => ids[i] # ids[k]
    BY <1>9
  <2>. HIDE DEF ids
  <2>3. QED
    BY <2>1, <2>2 DEF SetToSeqs
<1>12. DOMAIN ids = 1 .. n
  OBVIOUS
<1>13. QED
  BY <1>10, <1>11, <1>12

(* A listing of a finite set has every element at exactly one place.        *)
LEMMA Listed ==
  ASSUME NEW S, IsFiniteSet(S), NEW s \in SetToSeqs(S)
  PROVE  /\ s \in Seq(S) /\ Len(s) = Cardinality(S)
         /\ \A x \in S : \E i \in 1 .. Len(s) : s[i] = x
         /\ \A i, k \in 1 .. Len(s) : s[i] = s[k] => i = k
<1>. DEFINE n == Cardinality(S)
<1>1. n \in Nat
  BY FS_CardinalityType
<1>2. s \in [1 .. n -> S] /\ \A i, k \in 1 .. n : i # k => s[i] # s[k]
  BY DEF SetToSeqs
<1>3. s \in Injection(1 .. n, S)
  BY <1>2 DEF Injection, IsInjective
<1>4. IsFiniteSet(1 .. n) /\ Cardinality(1 .. n) = n
  BY <1>1, FS_Interval
<1>5. s \in Surjection(1 .. n, S)
  BY <1>3, <1>4, FS_Injection
<1>6. \A x \in S : \E i \in 1 .. n : s[i] = x
  BY <1>5 DEF Surjection
<1>7. s \in Seq(S) /\ Len(s) = n
  BY <1>1, <1>2
<1>8. QED
  BY <1>2, <1>6, <1>7

-----------------------------------------------------------------------------
(* Files *)

(* What the assumption on the constants says of cells and files.            *)
LEMMA Cells ==
  /\ \A r \in Record : r \in Cell /\ r \notin Marks
  /\ Header \in Cell /\ HalfHeader \in Cell /\ Torn \in Cell /\ Gap \in Cell
  /\ Header \notin Record /\ HalfHeader \notin Record /\ Torn \notin Record /\ Gap \notin Record
  /\ HalfHeader # Header /\ Torn # Header /\ Gap # Header
  /\ \A file \in Seq(Cell) : file # NoFile /\ file \in Image
BY DiskAssumption DEF Cell, Marks, Image

(* A write keeps what is before it, puts its cells behind that, and fills   *)
(* what it skips.                                                           *)
LEMMA Written ==
  ASSUME NEW file \in Seq(Cell), NEW at \in Nat, NEW cells \in Seq(Cell)
  PROVE  /\ Put(file, at, cells) \in Seq(Cell)
         /\ Len(Put(file, at, cells)) >= at + Len(cells)
         /\ Len(file) = at => Len(Put(file, at, cells)) = at + Len(cells)
         /\ \A i \in 1 .. Len(cells) : Put(file, at, cells)[at + i] = cells[i]
         /\ \A i \in 1 .. at :
              Put(file, at, cells)[i] = IF i <= Len(file) THEN file[i] ELSE Gap
         /\ \A i \in 1 .. at : i <= Len(file) => i <= Len(Put(file, at, cells))
         /\ \A i \in DOMAIN Put(file, at, cells) :
              \/ i \in 1 .. Len(file) /\ Put(file, at, cells)[i] = file[i]
              \/ i - at \in 1 .. Len(cells) /\ Put(file, at, cells)[i] = cells[i - at]
              \/ Put(file, at, cells)[i] = Gap
<1>. DEFINE S == {Len(file), at + Len(cells)}
            m == Max(S)
            g == Put(file, at, cells)
<1>1. Len(file) \in Nat /\ Len(cells) \in Nat
  OBVIOUS
<1>2. S \subseteq 0 .. (Len(file) + at + Len(cells)) /\ S # {}
        /\ Len(file) + at + Len(cells) \in Nat
  BY <1>1
<1>3. m \in S /\ \A y \in S : y <= m
  BY <1>2, Greatest
<1>4. /\ m \in Nat /\ m >= Len(file) /\ m >= at + Len(cells)
      /\ Len(file) = at => m = at + Len(cells)
  BY <1>1, <1>3
<1>. HIDE DEF m
<1>5. g = [i \in 1 .. m |-> IF i \in (at + 1) .. (at + Len(cells)) THEN cells[i - at]
                            ELSE IF i \in 1 .. Len(file) THEN file[i] ELSE Gap]
  BY DEF Put, m
<1>6. \A i \in 1 .. m :
        /\ i \in (at + 1) .. (at + Len(cells)) => g[i] = cells[i - at]
        /\ i \notin (at + 1) .. (at + Len(cells)) /\ i \in 1 .. Len(file) => g[i] = file[i]
        /\ i \notin (at + 1) .. (at + Len(cells)) /\ i \notin 1 .. Len(file) => g[i] = Gap
  BY <1>5
<1>7. DOMAIN g = 1 .. m
  BY <1>5
<1>. HIDE DEF g
<1>8. \A i \in 1 .. m : \/ i \in 1 .. Len(file) /\ g[i] = file[i]
                        \/ i - at \in 1 .. Len(cells) /\ g[i] = cells[i - at]
                        \/ g[i] = Gap
  <2>1. \A i \in 1 .. m : i \in (at + 1) .. (at + Len(cells)) => i - at \in 1 .. Len(cells)
    BY <1>1, <1>4
  <2>2. QED
    BY <1>6, <2>1
<1>9. \A i \in 1 .. m : g[i] \in Cell
  <2>1. /\ \A i \in 1 .. Len(file) : file[i] \in Cell
        /\ \A i \in 1 .. Len(cells) : cells[i] \in Cell
    OBVIOUS
  <2>2. QED
    BY <1>8, <2>1, Cells
<1>10. g \in Seq(Cell) /\ Len(g) = m
  <2>1. g = [i \in 1 .. m |-> g[i]]
    BY <1>5, <1>7 DEF g
  <2>2. g \in [1 .. m -> Cell]
    BY <1>9, <2>1
  <2>3. QED
    BY <1>4, <1>7, <2>2
<1>11. \A i \in 1 .. Len(cells) : g[at + i] = cells[i]
  <2>. SUFFICES ASSUME NEW i \in 1 .. Len(cells) PROVE g[at + i] = cells[i]
    OBVIOUS
  <2>1. at + i \in 1 .. m /\ at + i \in (at + 1) .. (at + Len(cells)) /\ (at + i) - at = i
    BY <1>1, <1>4
  <2>2. QED
    BY <1>6, <2>1
<1>12. \A i \in 1 .. at : g[i] = (IF i <= Len(file) THEN file[i] ELSE Gap)
  <2>. SUFFICES ASSUME NEW i \in 1 .. at PROVE g[i] = (IF i <= Len(file) THEN file[i] ELSE Gap)
    OBVIOUS
  <2>1. i \in 1 .. m /\ i \notin (at + 1) .. (at + Len(cells)) /\ (i <= Len(file) <=> i \in 1 .. Len(file))
    BY <1>1, <1>4
  <2>2. QED
    BY <1>6, <2>1
<1>13. \A i \in 1 .. at : i <= Len(file) => i <= m
  BY <1>4, <1>1
<1>14. QED
  BY <1>4, <1>7, <1>8, <1>10, <1>11, <1>12, <1>13 DEF g

(* A truncation keeps what is before it.                                    *)
LEMMA Truncated ==
  ASSUME NEW file \in Seq(Cell), NEW n \in Nat
  PROVE  /\ Resized(file, n) \in Seq(Cell) /\ Len(Resized(file, n)) = n
         /\ \A i \in 1 .. n : Resized(file, n)[i] = IF i <= Len(file) THEN file[i] ELSE Gap
         /\ \A i \in DOMAIN Resized(file, n) :
              \/ i \in 1 .. Len(file) /\ Resized(file, n)[i] = file[i]
              \/ Resized(file, n)[i] = Gap
<1>. DEFINE g == Resized(file, n)
<1>1. Len(file) \in Nat
  OBVIOUS
<1>2. g = [i \in 1 .. n |-> IF i \in 1 .. Len(file) THEN file[i] ELSE Gap]
  BY DEF Resized
<1>3. /\ DOMAIN g = 1 .. n
      /\ \A i \in 1 .. n : g[i] = IF i \in 1 .. Len(file) THEN file[i] ELSE Gap
  BY <1>2
<1>4. \A i \in 1 .. n : i \in 1 .. Len(file) <=> i <= Len(file)
  BY <1>1
<1>5. g \in [1 .. n -> Cell]
  <2>1. \A i \in 1 .. Len(file) : file[i] \in Cell
    OBVIOUS
  <2>2. QED
    BY <1>2, <2>1, Cells
<1>. HIDE DEF g
<1>6. g \in Seq(Cell) /\ Len(g) = n
  BY <1>5
<1>7. QED
  BY <1>3, <1>4, <1>6 DEF g

(* What arrives of a cut off write: some of its first cells, and then       *)
(* perhaps a torn one.                                                      *)
LEMMA Landed ==
  ASSUME NEW cells \in Seq(Record), NEW l \in Landings(cells)
  PROVE  /\ l \in Seq(Cell)
         /\ \E n \in 0 .. Len(cells) :
              /\ Len(l) \in {n, n + 1}
              /\ \A i \in 1 .. n : l[i] = cells[i]
              /\ Len(l) = n + 1 => l[n + 1] = Torn
<1>1. cells \in Seq(Cell)
  BY Cells
<1>2. CASE \E n \in 0 .. Len(cells) : l = SubSeq(cells, 1, n)
  <2>1. PICK n \in 0 .. Len(cells) : l = SubSeq(cells, 1, n)
    BY <1>2
  <2>2. l \in Seq(Cell) /\ Len(l) = n /\ \A i \in 1 .. n : l[i] = cells[i]
    BY <1>1, <2>1
  <2>3. QED
    BY <2>2
<1>3. CASE \E n \in 0 .. (Len(cells) - 1) : l = Append(SubSeq(cells, 1, n), Torn)
  <2>1. PICK n \in 0 .. (Len(cells) - 1) : l = Append(SubSeq(cells, 1, n), Torn)
    BY <1>3
  <2>. DEFINE k == SubSeq(cells, 1, n)
  <2>2. k \in Seq(Cell) /\ Len(k) = n /\ \A i \in 1 .. n : k[i] = cells[i]
    BY <1>1
  <2>. HIDE DEF k
  <2>3. /\ Append(k, Torn) \in Seq(Cell) /\ Len(Append(k, Torn)) = n + 1
        /\ \A i \in 1 .. n : Append(k, Torn)[i] = k[i]
        /\ Append(k, Torn)[n + 1] = Torn
    BY <2>2, Cells
  <2>4. n \in 0 .. Len(cells)
    BY <1>1
  <2>5. QED
    BY <2>1, <2>2, <2>3, <2>4 DEF k
<1>4. QED
  BY <1>2, <1>3 DEF Landings

-----------------------------------------------------------------------------
(* Reading and scanning *)

(* The first n cells of a segment are its header and complete records.      *)
Whole(file, n) ==
  /\ n \in 1 .. Len(file)
  /\ file[1] = Header
  /\ \A i \in 2 .. n : file[i] \in Record

(* Nothing more could be scanned.                                           *)
Ended(file, n) == n < Len(file) => file[n + 1] \notin Record

(* Where the newest vector of a chunk is among the first n cells, or 0.     *)
Points(file, n, c, i) ==
  \/ i = 0 /\ \A k \in 2 .. n : file[k].chunk # c
  \/ \E k \in 2 .. n :
       /\ file[k].chunk = c
       /\ \A j \in (k + 1) .. n : file[j].chunk # c
       /\ i = IF file[k].vector = NoVector THEN 0 ELSE k

(* Scanning a segment finds the end of its complete records.                *)
LEMMA ScanStops ==
  ASSUME NEW file \in Seq(Cell)
  PROVE  /\ HasHeader(file) => Whole(file, ScanEnd(file)) /\ Ended(file, ScanEnd(file))
         /\ ~HasHeader(file) => ScanEnd(file) = 0
         /\ \A n \in Nat : Whole(file, n) /\ Ended(file, n) => HasHeader(file) /\ ScanEnd(file) = n
<1>. DEFINE len == Len(file)
            S == {n \in 1 .. len : \A i \in 2 .. n : file[i] \in Record}
<1>1. len \in Nat /\ S \subseteq 0 .. len /\ file # NoFile /\ (file = <<>> <=> len = 0)
  BY Cells
<1>2. HasHeader(file) => Whole(file, ScanEnd(file)) /\ Ended(file, ScanEnd(file))
  <2>. SUFFICES ASSUME HasHeader(file)
                PROVE  Whole(file, ScanEnd(file)) /\ Ended(file, ScanEnd(file))
    OBVIOUS
  <2>1. file # <<>> /\ file[1] = Header
    BY DEF HasHeader
  <2>2. 1 \in S
    BY <1>1, <2>1
  <2>3. Max(S) \in S /\ \A y \in S : y <= Max(S)
    BY <1>1, <2>2, Greatest
  <2>4. ScanEnd(file) = Max(S)
    BY DEF ScanEnd
  <2>. DEFINE m == Max(S)
  <2>. HIDE DEF m
  <2>5. m \in 1 .. len /\ (\A i \in 2 .. m : file[i] \in Record) /\ \A y \in S : y <= m
    BY <2>3 DEF m
  <2>6. Ended(file, m)
    <3>. SUFFICES ASSUME m < len, file[m + 1] \in Record PROVE FALSE
      BY DEF Ended
    <3>1. m + 1 \in 1 .. len /\ \A i \in 2 .. (m + 1) : i \in 2 .. m \/ i = m + 1
      BY <1>1, <2>5
    <3>2. m + 1 \in S
      BY <2>5, <3>1
    <3>3. QED
      BY <2>5, <3>2
  <2>7. QED
    BY <2>1, <2>4, <2>5, <2>6 DEF Whole, m
<1>3. ~HasHeader(file) => ScanEnd(file) = 0
  BY DEF ScanEnd
<1>4. \A n \in Nat : Whole(file, n) /\ Ended(file, n) => HasHeader(file) /\ ScanEnd(file) = n
  <2>. SUFFICES ASSUME NEW n \in Nat, Whole(file, n), Ended(file, n)
                PROVE  HasHeader(file) /\ ScanEnd(file) = n
    OBVIOUS
  <2>1. n \in 1 .. len /\ file[1] = Header /\ (\A i \in 2 .. n : file[i] \in Record)
    BY DEF Whole
  <2>2. HasHeader(file)
    BY <1>1, <2>1 DEF HasHeader
  <2>. DEFINE m == ScanEnd(file)
  <2>3. m \in 1 .. len /\ (\A i \in 2 .. m : file[i] \in Record)
        /\ (m < len => file[m + 1] \notin Record)
    BY <1>2, <2>2 DEF Whole, Ended
  <2>. HIDE DEF m
  <2>4. n < len => file[n + 1] \notin Record
    BY DEF Ended
  <2>5. ~(m < n)
    <3>. SUFFICES ASSUME m < n PROVE FALSE
      OBVIOUS
    <3>1. m < len /\ m + 1 \in 2 .. n
      BY <2>1, <2>3
    <3>2. QED
      BY <2>1, <2>3, <3>1
  <2>6. ~(n < m)
    <3>. SUFFICES ASSUME n < m PROVE FALSE
      OBVIOUS
    <3>1. n < len /\ n + 1 \in 2 .. m
      BY <2>1, <2>3
    <3>2. QED
      BY <2>3, <2>4, <3>1
  <2>7. QED
    BY <2>1, <2>2, <2>3, <2>5, <2>6 DEF m
<1>5. QED
  BY <1>2, <1>3, <1>4

(* There is one such place.                                                 *)
LEMMA PointsOnce ==
  ASSUME NEW file, NEW n \in Nat, NEW c, NEW i, NEW j,
         Points(file, n, c, i), Points(file, n, c, j)
  PROVE  i = j
<1>1. CASE \A k \in 2 .. n : file[k].chunk # c
  BY <1>1 DEF Points
<1>2. CASE ~ \A k \in 2 .. n : file[k].chunk # c
  <2>1. PICK k \in 2 .. n : /\ file[k].chunk = c
                            /\ \A m \in (k + 1) .. n : file[m].chunk # c
                            /\ i = IF file[k].vector = NoVector THEN 0 ELSE k
    BY <1>2 DEF Points
  <2>2. PICK l \in 2 .. n : /\ file[l].chunk = c
                            /\ \A m \in (l + 1) .. n : file[m].chunk # c
                            /\ j = IF file[l].vector = NoVector THEN 0 ELSE l
    BY <1>2 DEF Points
  <2>3. k = l
    <3>1. ~(k < l)
      <4>. SUFFICES ASSUME k < l PROVE FALSE
        OBVIOUS
      <4>1. l \in (k + 1) .. n
        OBVIOUS
      <4>2. QED
        BY <2>1, <2>2, <4>1
    <3>2. ~(l < k)
      <4>. SUFFICES ASSUME l < k PROVE FALSE
        OBVIOUS
      <4>1. k \in (l + 1) .. n
        OBVIOUS
      <4>2. QED
        BY <2>1, <2>2, <4>1
    <3>3. QED
      BY <3>1, <3>2
  <2>4. QED
    BY <2>1, <2>2, <2>3
<1>3. QED
  BY <1>1, <1>2

(* The scan takes each chunk to that place.                                 *)
LEMMA ScanPoints ==
  ASSUME NEW file \in Seq(Cell), NEW n \in Nat, Whole(file, n), Ended(file, n), NEW c \in Chunk
  PROVE  /\ Points(file, n, c, Newest(file, c))
         /\ Newest(file, c) \in 0 .. n
<1>. DEFINE P == Places(file, c)
<1>1. P = {i \in 2 .. n : file[i].chunk = c}
  BY ScanStops DEF Places
<1>2. n \in Nat /\ P \subseteq 0 .. n
  BY <1>1
<1>3. CASE P = {}
  <2>1. Newest(file, c) = 0
    BY <1>3 DEF Newest
  <2>2. QED
    BY <1>1, <1>3, <2>1 DEF Points
<1>4. CASE P # {}
  <2>1. Max(P) \in P /\ \A y \in P : y <= Max(P)
    BY <1>2, <1>4, Greatest
  <2>2. Newest(file, c) = IF file[Max(P)].vector = NoVector THEN 0 ELSE Max(P)
    BY <1>4 DEF Newest
  <2>. DEFINE k == Max(P)
  <2>. HIDE DEF k
  <2>3. k \in 2 .. n /\ file[k].chunk = c
    BY <1>1, <2>1 DEF k
  <2>4. \A j \in (k + 1) .. n : file[j].chunk # c
    <3>. SUFFICES ASSUME NEW j \in (k + 1) .. n, file[j].chunk = c PROVE FALSE
      OBVIOUS
    <3>1. j \in 2 .. n /\ ~(j <= k)
      BY <2>3
    <3>2. QED
      BY <1>1, <2>1, <3>1 DEF k
  <2>5. Newest(file, c) = IF file[k].vector = NoVector THEN 0 ELSE k
    BY <2>2 DEF k
  <2>6. QED
    BY <2>3, <2>4, <2>5 DEF Points
<1>5. QED
  BY <1>3, <1>4

(* What a restart recovers of a chunk is read there.                        *)
LEMMA RecoveredPoints ==
  ASSUME NEW file \in Seq(Cell), NEW n \in Nat, Whole(file, n), Ended(file, n), NEW c \in Chunk,
         NEW i, Points(file, n, c, i)
  PROVE  Newest(file, c) = i /\ Recovered(file)[c] = ReadAt(file, i) /\ i \in 0 .. n
<1>1. Newest(file, c) = i /\ i \in 0 .. n
  BY ScanPoints, PointsOnce
<1>2. QED
  BY <1>1 DEF Recovered

(* Nothing is recovered of a segment without its header.                    *)
LEMMA NothingRecovered ==
  ASSUME NEW file \in Image, ~HasHeader(file)
  PROVE  Recovered(file) = Nothing /\ Scanned(file) = Nowhere
<1>1. ScanEnd(file) = 0
  BY DEF ScanEnd
<1>2. \A c \in Chunk : Newest(file, c) = 0
  BY <1>1 DEF Places, Newest
<1>3. ReadAt(file, 0) = NoVector
  <2>1. file # NoFile => 0 \notin 1 .. Len(file)
    OBVIOUS
  <2>2. QED
    BY <2>1 DEF ReadAt
<1>4. QED
  BY <1>2, <1>3 DEF Recovered, Scanned, Nothing, Nowhere

(* What can be read at a place.                                             *)
LEMMA Reads ==
  /\ \A file : ReadAt(file, 0) = NoVector
  /\ \A i : ReadAt(NoFile, i) = NoVector
  /\ \A file \in Seq(Cell), i \in Nat :
       i \in 1 .. Len(file) /\ file[i] \in Record => ReadAt(file, i) = file[i].vector
  /\ \A file \in Image, i \in Nat : ReadAt(file, i) \in Vector \cup {NoVector}
<1>1. \A file : ReadAt(file, 0) = NoVector
  BY DEF ReadAt
<1>2. \A i : ReadAt(NoFile, i) = NoVector
  BY DEF ReadAt
<1>3. \A file \in Seq(Cell), i \in Nat :
       i \in 1 .. Len(file) /\ file[i] \in Record => ReadAt(file, i) = file[i].vector
  BY Cells DEF ReadAt
<1>4. \A file \in Image, i \in Nat : ReadAt(file, i) \in Vector \cup {NoVector}
  BY DEF ReadAt, Record
<1>5. QED
  BY <1>1, <1>2, <1>3, <1>4

(* A write behind a place, or a truncation there, changes no read up to it. *)
LEMMA ReadsKept ==
  ASSUME NEW file \in Seq(Cell), NEW at \in Nat, NEW i \in 0 .. at
  PROVE  /\ \A cells \in Seq(Cell) : ReadAt(Put(file, at, cells), i) = ReadAt(file, i)
         /\ ReadAt(Resized(file, at), i) = ReadAt(file, i)
<1>1. CASE i = 0
  BY <1>1, Reads
<1>2. CASE i \in 1 .. at
  <2>1. ASSUME NEW g \in Seq(Cell), g[i] = IF i <= Len(file) THEN file[i] ELSE Gap,
               i <= Len(file) => i <= Len(g)
        PROVE  ReadAt(g, i) = ReadAt(file, i)
    <3>1. CASE i <= Len(file)
      <4>1. i \in 1 .. Len(file) /\ i \in 1 .. Len(g) /\ g[i] = file[i]
        BY <1>2, <2>1, <3>1
      <4>2. QED
        BY <4>1, Cells DEF ReadAt
    <3>2. CASE ~(i <= Len(file))
      <4>1. g[i] \notin Record /\ i \notin 1 .. Len(file)
        BY <2>1, <3>2, Cells
      <4>2. QED
        BY <4>1 DEF ReadAt
    <3>3. QED
      BY <3>1, <3>2
  <2>2. ASSUME NEW cells \in Seq(Cell)
        PROVE  ReadAt(Put(file, at, cells), i) = ReadAt(file, i)
    <3>. DEFINE g == Put(file, at, cells)
    <3>1. /\ g \in Seq(Cell) /\ g[i] = IF i <= Len(file) THEN file[i] ELSE Gap
          /\ i <= Len(file) => i <= Len(g)
      BY <1>2, Written
    <3>2. QED
      BY <2>1, <3>1
  <2>3. ReadAt(Resized(file, at), i) = ReadAt(file, i)
    <3>. DEFINE g == Resized(file, at)
    <3>1. /\ g \in Seq(Cell) /\ Len(g) = at
          /\ \A j \in 1 .. at : g[j] = IF j <= Len(file) THEN file[j] ELSE Gap
      BY Truncated
    <3>. HIDE DEF g
    <3>2. g[i] = (IF i <= Len(file) THEN file[i] ELSE Gap) /\ i <= Len(g)
      BY <1>2, <3>1
    <3>. USE DEF g
    <3>3. QED
      BY <2>1, <3>1, <3>2
  <2>4. QED
    BY <2>2, <2>3
<1>3. QED
  BY <1>1, <1>2

(* The first records of a sequence that are a chunk's.                      *)
Own(records, m, c) == {k \in 1 .. m : records[k].chunk = c}

(* Where the newest vectors are once records have been appended: at the     *)
(* last record of each chunk that has one.                                  *)
LEMMA AppendPoints ==
  ASSUME NEW file \in Seq(Cell), NEW g \in Seq(Cell), NEW n \in Nat \ {0},
         NEW records \in Seq(Record), NEW m \in 0 .. Len(records),
         \A i \in 1 .. n : g[i] = file[i],
         \A i \in 1 .. m : g[n + i] = records[i],
         NEW c \in Chunk, NEW i, Points(file, n, c, i)
  PROVE  /\ Own(records, m, c) = {} => Points(g, n + m, c, i)
         /\ Own(records, m, c) # {} =>
              LET k == Max(Own(records, m, c))
              IN  /\ k \in Own(records, m, c)
                  /\ Points(g, n + m, c, IF records[k].vector = NoVector THEN 0 ELSE n + k)
<1>. DEFINE own == {k \in 1 .. m : records[k].chunk = c}
<1>1. m \in Nat /\ own \subseteq 0 .. m
  OBVIOUS
<1>2. \A k \in (n + 1) .. (n + m) : k - n \in 1 .. m /\ g[k] = records[k - n]
  <2>. TAKE k \in (n + 1) .. (n + m)
  <2>1. k - n \in 1 .. m /\ n + (k - n) = k
    BY <1>1
  <2>2. QED
    BY <2>1
<1>3. \A k \in 2 .. n : g[k] = file[k]
  OBVIOUS
<1>4. ASSUME own = {} PROVE Points(g, n + m, c, i)
  <2>1. \A k \in (n + 1) .. (n + m) : g[k].chunk # c
    BY <1>2, <1>4
  <2>2. CASE i = 0 /\ \A k \in 2 .. n : file[k].chunk # c
    <3>1. \A k \in 2 .. (n + m) : k \in 2 .. n \/ k \in (n + 1) .. (n + m)
      BY <1>1
    <3>2. \A k \in 2 .. (n + m) : g[k].chunk # c
      BY <1>3, <2>1, <2>2, <3>1
    <3>3. QED
      BY <2>2, <3>2 DEF Points
  <2>3. CASE \E k \in 2 .. n : /\ file[k].chunk = c
                               /\ \A j \in (k + 1) .. n : file[j].chunk # c
                               /\ i = IF file[k].vector = NoVector THEN 0 ELSE k
    <3>1. PICK k \in 2 .. n : /\ file[k].chunk = c
                              /\ \A j \in (k + 1) .. n : file[j].chunk # c
                              /\ i = IF file[k].vector = NoVector THEN 0 ELSE k
      BY <2>3
    <3>2. /\ k \in 2 .. (n + m)
          /\ \A j \in (k + 1) .. (n + m) : (j \in 2 .. n /\ j \in (k + 1) .. n) \/ j \in (n + 1) .. (n + m)
      BY <1>1
    <3>3. \A j \in (k + 1) .. (n + m) : g[j].chunk # c
      BY <1>3, <2>1, <3>1, <3>2
    <3>4. QED
      BY <1>3, <3>1, <3>2, <3>3 DEF Points
  <2>4. QED
    BY <2>2, <2>3 DEF Points
<1>5. ASSUME own # {}
      PROVE  /\ Max(own) \in own
             /\ Points(g, n + m, c,
                  IF records[Max(own)].vector = NoVector THEN 0 ELSE n + Max(own))
  <2>1. Max(own) \in own /\ \A y \in own : y <= Max(own)
    BY <1>1, <1>5, Greatest
  <2>. DEFINE k == Max(own)
  <2>. HIDE DEF k
  <2>2. k \in 1 .. m /\ records[k].chunk = c /\ \A y \in own : y <= k
    BY <2>1 DEF k
  <2>3. n + k \in 2 .. (n + m) /\ g[n + k] = records[k]
    BY <1>1, <2>2
  <2>4. \A j \in (n + k + 1) .. (n + m) : g[j].chunk # c
    <3>. SUFFICES ASSUME NEW j \in (n + k + 1) .. (n + m), g[j].chunk = c PROVE FALSE
      OBVIOUS
    <3>1. j \in (n + 1) .. (n + m)
      BY <1>1, <2>2
    <3>2. j - n \in own
      BY <1>2, <3>1
    <3>3. j - n <= k
      BY <2>2, <3>2
    <3>4. QED
      BY <2>2, <3>3
  <2>5. Points(g, n + m, c, IF records[k].vector = NoVector THEN 0 ELSE n + k)
    BY <2>2, <2>3, <2>4 DEF Points
  <2>6. QED
    BY <2>1, <2>5 DEF k
<1>6. QED
  BY <1>4, <1>5 DEF Own

(* Whatever arrives of an append, a restart recovers for each chunk what it *)
(* would have before, or one of the records.                                *)
LEMMA AppendRecovers ==
  ASSUME NEW file \in Seq(Cell), NEW n \in Nat, Whole(file, n), Len(file) = n,
         NEW records \in Seq(Record), NEW l \in Landings(records), NEW c \in Chunk
  PROVE  LET new == Recovered(Put(file, n, l))[c]
         IN  \/ new = Recovered(file)[c]
             \/ \E k \in DOMAIN records : records[k].chunk = c /\ new = records[k].vector
<1>. DEFINE g == Put(file, n, l)
<1>1. PICK m \in 0 .. Len(records) :
        /\ Len(l) \in {m, m + 1}
        /\ \A i \in 1 .. m : l[i] = records[i]
        /\ Len(l) = m + 1 => l[m + 1] = Torn
  BY Landed
<1>2. l \in Seq(Cell) /\ n \in 1 .. Len(file) /\ file[1] = Header /\ m \in Nat
        /\ \A i \in 2 .. n : file[i] \in Record
  BY Landed DEF Whole
<1>3. /\ g \in Seq(Cell) /\ Len(g) = n + Len(l)
      /\ \A i \in 1 .. Len(l) : g[n + i] = l[i]
      /\ \A i \in 1 .. n : g[i] = file[i]
  <2>1. \A i \in 1 .. n : i <= Len(file)
    OBVIOUS
  <2>2. /\ g \in Seq(Cell) /\ Len(g) = n + Len(l)
        /\ \A i \in 1 .. Len(l) : g[n + i] = l[i]
        /\ \A i \in 1 .. n : g[i] = IF i <= Len(file) THEN file[i] ELSE Gap
    BY <1>2, Written
  <2>. HIDE DEF g
  <2>3. QED
    BY <2>1, <2>2
<1>. HIDE DEF g
<1>4. \A i \in 1 .. m : g[n + i] = records[i]
  <2>1. \A i \in 1 .. m : i \in 1 .. Len(l)
    BY <1>1, <1>2
  <2>2. QED
    BY <1>1, <1>3, <2>1
<1>5. Whole(g, n + m)
  <2>1. n + m \in 1 .. Len(g)
    BY <1>1, <1>2, <1>3
  <2>2. g[1] = Header
    BY <1>2, <1>3
  <2>3. ASSUME NEW i \in 2 .. (n + m) PROVE g[i] \in Record
    <3>1. CASE i <= n
      <4>1. i \in 2 .. n /\ i \in 1 .. n
        BY <1>2, <3>1
      <4>2. QED
        BY <1>2, <1>3, <4>1
    <3>2. CASE ~(i <= n)
      <4>1. i - n \in 1 .. m /\ n + (i - n) = i /\ i - n \in 1 .. Len(records)
        BY <1>2, <3>2
      <4>2. QED
        BY <1>4, <4>1
    <3>3. QED
      BY <3>1, <3>2
  <2>4. QED
    BY <2>1, <2>2, <2>3 DEF Whole
<1>6. Ended(g, n + m)
  <2>. SUFFICES ASSUME n + m < Len(g) PROVE g[n + m + 1] \notin Record
    BY DEF Ended
  <2>1. Len(l) = m + 1 /\ m + 1 \in 1 .. Len(l) /\ n + (m + 1) = n + m + 1
    BY <1>1, <1>2, <1>3
  <2>2. g[n + (m + 1)] = Torn
    BY <1>1, <1>3, <2>1
  <2>3. QED
    BY <2>1, <2>2, Cells
<1>7. Ended(file, n)
  BY <1>2 DEF Ended
<1>. DEFINE i == Newest(file, c)
            own == Own(records, m, c)
<1>8. Points(file, n, c, i) /\ i \in 0 .. n
  BY <1>7, ScanPoints
<1>9. Recovered(file)[c] = ReadAt(file, i)
  BY DEF Recovered
<1>. HIDE DEF i
<1>10. n \in Nat \ {0} /\ n + m \in Nat
  BY <1>2
<1>14. /\ own = {} => Points(g, n + m, c, i)
       /\ own # {} =>
            /\ Max(own) \in own
            /\ Points(g, n + m, c,
                 IF records[Max(own)].vector = NoVector THEN 0 ELSE n + Max(own))
  BY <1>3, <1>4, <1>8, <1>10, AppendPoints
<1>11. CASE own = {}
  <2>1. Points(g, n + m, c, i)
    BY <1>11, <1>14
  <2>2. Recovered(g)[c] = ReadAt(g, i)
    BY <1>3, <1>5, <1>6, <1>10, <2>1, RecoveredPoints
  <2>3. ReadAt(g, i) = ReadAt(file, i)
    BY <1>2, <1>8, ReadsKept DEF g
  <2>4. QED
    BY <1>9, <2>2, <2>3 DEF g
<1>12. CASE own # {}
  <2>. DEFINE k == Max(own)
  <2>1. k \in own /\ Points(g, n + m, c, IF records[k].vector = NoVector THEN 0 ELSE n + k)
    BY <1>12, <1>14
  <2>. HIDE DEF k
  <2>2. k \in 1 .. m /\ records[k].chunk = c /\ k \in DOMAIN records /\ records[k] \in Record
    BY <2>1 DEF Own
  <2>3. Recovered(g)[c] = ReadAt(g, IF records[k].vector = NoVector THEN 0 ELSE n + k)
    BY <1>3, <1>5, <1>6, <1>10, <2>1, RecoveredPoints
  <2>4. n + k \in 1 .. Len(g) /\ g[n + k] = records[k]
    <3>1. n + m \in 1 .. Len(g)
      BY <1>5 DEF Whole
    <3>2. QED
      BY <1>2, <1>4, <2>2, <3>1
  <2>5. ReadAt(g, n + k) = records[k].vector
    <3>1. n + k \in Nat /\ g[n + k] \in Record
      BY <1>2, <2>2, <2>4
    <3>2. QED
      BY <1>3, <2>4, <3>1, Reads
  <2>6. Recovered(g)[c] = records[k].vector
    BY <2>3, <2>5, Reads
  <2>7. QED
    BY <2>2, <2>6 DEF g
<1>13. QED
  BY <1>11, <1>12

-----------------------------------------------------------------------------
(* The invariant *)

Starting  == {"truncate", "reheader", "reheader2", "resync", "publish", "publishdir"}
Creating  == {"header", "header2", "headerdir"}
Appending == {"write", "sync", "rollback"}
Saving    == {"rename", "sidecar", "sidecardir"}
Serving   == {"idle"} \cup Creating \cup Appending \cup Saving

(* What the step under way says of the segment and of its end.              *)
SegmentInv ==
  /\ step \in (Starting \ {"truncate"}) \cup Creating \cup Appending \cup {"renamedir"} =>
       seg # NoFile
  /\ step \in Serving /\ end # 0 => seg # NoFile
  /\ step = "header" => seg = <<>>
  /\ step \in {"resync", "publish", "publishdir", "headerdir"} => seg = <<Header>>
  /\ step \in {"truncate", "reheader", "reheader2", "resync"} \cup Creating => end = 0
  /\ step \in {"publish", "publishdir"} => end = 1
  /\ step \in Appending \cup {"sidecar", "sidecardir"} => end # 0
  /\ step # "renamedir" => stale \subseteq {NoFile}
  /\ step \in {"publish", "publishdir", "renamedir"} => disk = {seg}

(* The locators and the file agree, on the file as it is and as it is       *)
(* mapped; after a compaction's rename the new file holds the same.         *)
AgreesInv ==
  /\ step \in Serving =>
       /\ \A c \in Chunk : ReadAt(seg, loc[c]) = acked[c]
       /\ view # NoFile => \A c \in Chunk : ReadAt(view, loc[c]) = acked[c]
  /\ step \in Starting => loc = Nowhere /\ view = NoFile
  /\ step \in Starting \ {"truncate"} => acked = Nothing
  /\ step = "sync" =>
       \A i \in 1 .. Len(recs) : end + i <= Len(seg) /\ seg[end + i] = recs[i]
  /\ step = "rename" =>
       \A c \in Chunk : /\ ReadAt(view, loc[c]) = acked[c]
                        /\ loc[c] # 0 => acked[c] # NoVector
  /\ step = "renamedir" =>
       Whole(seg, Len(seg)) /\ \A c \in Chunk : ReadAt(seg, Newest(seg, c)) = acked[c]

(* A crash loses nothing; and unless a failure has spoiled it, the segment  *)
(* up to its end is what a scan finds, with each locator at the newest      *)
(* record of its chunk.                                                     *)
DurableInv ==
  ~spoiled =>
    /\ AckedIsDurable
    /\ step \in (Serving \ Creating) \cup {"publish", "publishdir"} /\ end # 0 =>
         /\ Whole(seg, end)
         /\ \A c \in Chunk : Points(seg, end, c, loc[c])
         /\ step \notin {"sync", "rollback"} => Len(seg) = end
         /\ step = "sync" => Len(seg) = end + Len(recs)
    /\ step \in {"idle", "rename"} /\ end = 0 => seg \in {NoFile, <<>>}
    /\ step \in (Serving \ Creating) \cup {"down", "truncate"} /\ HasHeader(seg) => stale = {}

(* Every vector of a file has the identity `name`.                          *)
NamedAs(file, name) ==
  file # NoFile =>
    \A i \in 1 .. Len(file) :
      file[i] \in Record /\ file[i].vector # NoVector => file[i].vector.identity = name

(* Whatever a crash leaves, the vectors have the sidecar's identity.        *)
NamedInv ==
  /\ \A file \in Images : NamedAs(file, side)
  /\ \A c \in Chunk : acked[c] # NoVector => acked[c].identity = side
  /\ step # "publishdir" => sideDisk = {side}
  /\ step \in Serving \cup {"publishdir", "renamedir"} => side = identity
  /\ step \in Creating \cup Appending =>
       \A i \in 1 .. Len(recs) : recs[i].vector # NoVector => recs[i].vector.identity = identity

DiskInv == DiskTypeOK /\ SegmentInv /\ AgreesInv /\ DurableInv /\ NamedInv

-----------------------------------------------------------------------------
(* Types *)

(* The records an append may begin with.                                    *)
LEMMA RecordsToAppend ==
  ASSUME NEW r \in Upserts \cup Tombstones
  PROVE  /\ r \in Seq(Record)
         /\ \A i \in 1 .. Len(r) : r[i].vector # NoVector => r[i].vector.identity = identity
<1>1. CASE r \in Upserts
  <2>1. PICK n \in 1 .. MaxBatch :
          r \in [1 .. n -> {x \in Record : x.vector # NoVector /\ x.vector.identity = identity}]
    BY <1>1 DEF Upserts
  <2>2. n \in Nat /\ Len(r) = n /\ r \in Seq(Record)
    BY <2>1, DiskAssumption
  <2>3. QED
    BY <2>1, <2>2
<1>2. CASE r \in Tombstones
  <2>1. PICK ids \in {SetToSeq(cs) : cs \in SUBSET {c \in Chunk : loc[c] # 0} \ {{}}} :
          r = [i \in DOMAIN ids |-> [chunk |-> ids[i], vector |-> NoVector]]
    BY <1>2 DEF Tombstones
  <2>2. PICK cs \in SUBSET {c \in Chunk : loc[c] # 0} : ids = SetToSeq(cs)
    BY <2>1
  <2>3. cs \subseteq Chunk /\ IsFiniteSet(cs)
    BY <2>2, FS_Subset, DiskAssumption
  <2>4. ids \in Seq(cs)
    BY <2>2, <2>3, Enumerated
  <2>5. /\ DOMAIN ids = 1 .. Len(ids) /\ Len(ids) \in Nat
        /\ \A i \in 1 .. Len(ids) : ids[i] \in Chunk
    BY <2>3, <2>4
  <2>6. r \in [1 .. Len(ids) -> Record]
    BY <2>1, <2>5 DEF Record
  <2>7. r \in Seq(Record) /\ Len(r) = Len(ids)
    BY <2>5, <2>6
  <2>8. \A i \in 1 .. Len(r) : r[i].vector = NoVector
    BY <2>1, <2>5, <2>7
  <2>9. QED
    BY <2>7, <2>8
<1>3. QED
  BY <1>1, <1>2

(* The listing of the live chunks that a compaction follows.                *)
LEMMA Live ==
  LET live == {c \in Chunk : loc[c] # 0}
  IN  /\ LiveIds \in Seq(live)
      /\ \A c \in live : \E i \in 1 .. Len(LiveIds) : LiveIds[i] = c
      /\ \A i, k \in 1 .. Len(LiveIds) : LiveIds[i] = LiveIds[k] => i = k
<1>. DEFINE live == {c \in Chunk : loc[c] # 0}
            sorted(ids) == \A i, k \in DOMAIN ids : i < k => ids[i] < ids[k]
<1>1. live \subseteq Nat /\ IsFiniteSet(live)
  BY FS_Subset, DiskAssumption
<1>. HIDE DEF live
<1>2. \E ids \in SetToSeqs(live) : sorted(ids)
  BY <1>1, Ranked
<1>3. LiveIds = CHOOSE ids \in SetToSeqs(live) : sorted(ids)
  BY DEF LiveIds, live
<1>. HIDE DEF sorted
<1>. DEFINE pick == CHOOSE ids \in SetToSeqs(live) : sorted(ids)
<1>4. pick \in SetToSeqs(live)
  BY <1>2
<1>5. LiveIds \in SetToSeqs(live)
  BY <1>3, <1>4
<1>6. /\ LiveIds \in Seq(live)
      /\ \A c \in live : \E i \in 1 .. Len(LiveIds) : LiveIds[i] = c
      /\ \A i, k \in 1 .. Len(LiveIds) : LiveIds[i] = LiveIds[k] => i = k
  BY <1>1, <1>5, Listed
<1>7. QED
  BY <1>6 DEF live

(* The segment a compaction writes.                                         *)
LEMMA CompactedFile ==
  ASSUME DiskTypeOK
  PROVE  /\ Compacted \in Seq(Cell) /\ Len(Compacted) = 1 + Len(LiveIds)
         /\ Compacted[1] = Header
         /\ \A i \in 1 .. Len(LiveIds) :
              Compacted[1 + i] = [chunk |-> LiveIds[i], vector |-> ReadAt(view, loc[LiveIds[i]])]
         /\ \A i \in 1 .. Len(LiveIds) : Compacted[1 + i] \in Record
<1>. DEFINE ids == LiveIds
            e(i) == [chunk |-> ids[i], vector |-> ReadAt(view, loc[ids[i]])]
            tail == [i \in DOMAIN ids |-> e(i)]
<1>1. /\ ids \in Seq({c \in Chunk : loc[c] # 0})
      /\ DOMAIN ids = 1 .. Len(ids) /\ Len(ids) \in Nat
  BY Live
<1>. HIDE DEF ids
<1>2. \A i \in 1 .. Len(ids) : ids[i] \in Chunk
  BY <1>1
<1>3. \A i \in 1 .. Len(ids) : e(i) \in Record
  <2>. SUFFICES ASSUME NEW i \in 1 .. Len(ids) PROVE e(i) \in Record
    OBVIOUS
  <2>1. ids[i] \in Chunk
    BY <1>2
  <2>2. loc[ids[i]] \in Nat /\ view \in Image
    BY <2>1 DEF DiskTypeOK
  <2>3. ReadAt(view, loc[ids[i]]) \in Vector \cup {NoVector}
    BY <2>2, Reads
  <2>4. QED
    BY <2>1, <2>3 DEF Record
<1>. HIDE DEF e
<1>4. /\ tail \in Seq(Cell) /\ Len(tail) = Len(ids)
      /\ \A i \in 1 .. Len(ids) : tail[i] = e(i)
  <2>1. tail \in [1 .. Len(ids) -> Cell]
    BY <1>1, <1>3, Cells
  <2>2. QED
    BY <1>1, <2>1
<1>. HIDE DEF tail
<1>5. <<Header>> \in Seq(Cell) /\ Len(<<Header>>) = 1 /\ <<Header>>[1] = Header
  BY Cells
<1>6. Compacted = <<Header>> \o tail
  BY DEF Compacted, tail, e, ids
<1>7. /\ <<Header>> \o tail \in Seq(Cell) /\ Len(<<Header>> \o tail) = 1 + Len(ids)
      /\ (<<Header>> \o tail)[1] = Header
      /\ \A i \in 1 .. Len(ids) : (<<Header>> \o tail)[1 + i] = e(i)
  <2>1. /\ <<Header>> \o tail \in Seq(Cell)
        /\ Len(<<Header>> \o tail) = 1 + Len(ids)
        /\ (<<Header>> \o tail)[1] = Header
    BY <1>1, <1>4, <1>5
  <2>2. ASSUME NEW i \in 1 .. Len(ids) PROVE (<<Header>> \o tail)[1 + i] = tail[i]
    <3>1. 1 + i \in 1 .. (1 + Len(ids)) /\ 1 + i > 1 /\ (1 + i) - 1 = i
      BY <1>1
    <3>2. QED
      BY <1>4, <1>5, <3>1
  <2>3. QED
    BY <1>4, <2>1, <2>2
<1>8. QED
  BY <1>3, <1>6, <1>7 DEF e, ids

(* What a record holds.                                                     *)
LEMMA Fields ==
  \A r \in Record : r.chunk \in Chunk /\ r.vector \in Vector \cup {NoVector}
BY DEF Record

(* What is published of an append: the last record of each chunk.           *)
LEMMA Published ==
  ASSUME recs \in Seq(Record), NEW c \in Chunk
  PROVE  LET own == Own(recs, Len(recs), c)
             k   == Max(own)
         IN  /\ own = {} => /\ Moved[c] = loc[c]
                            /\ \A contents : Applied(contents, recs)[c] = contents[c]
             /\ own # {} =>
                  /\ k \in 1 .. Len(recs) /\ recs[k] \in Record /\ recs[k].chunk = c
                  /\ recs[k].vector \in Vector \cup {NoVector}
                  /\ Moved[c] = IF recs[k].vector = NoVector THEN 0 ELSE end + k
                  /\ \A contents : Applied(contents, recs)[c] = recs[k].vector
<1>. DEFINE own == Own(recs, Len(recs), c)
<1>1. own = {i \in DOMAIN recs : recs[i].chunk = c} /\ own \subseteq 0 .. Len(recs) /\ Len(recs) \in Nat
  BY DEF Own
<1>2. own # {} => Max(own) \in own
  BY <1>1, Greatest
<1>. HIDE DEF own
<1>3. /\ Moved[c] = IF own = {} THEN loc[c]
                    ELSE IF recs[Max(own)].vector = NoVector THEN 0 ELSE end + Max(own)
      /\ \A contents : Applied(contents, recs)[c] =
                         IF own = {} THEN contents[c] ELSE recs[Max(own)].vector
  BY <1>1 DEF Moved, Applied
<1>4. \A i \in own : /\ i \in 1 .. Len(recs) /\ recs[i] \in Record /\ recs[i].chunk = c
                     /\ recs[i].vector \in Vector \cup {NoVector}
  <2>1. \A i \in 1 .. Len(recs) : recs[i] \in Record
    OBVIOUS
  <2>2. QED
    BY <1>1, <2>1, Fields
<1>5. QED
  BY <1>2, <1>3, <1>4 DEF own

(* The types of what is published.                                          *)
LEMMA PublishedTypes ==
  ASSUME DiskTypeOK
  PROVE  /\ Moved \in [Chunk -> 0 .. (end + Len(recs))]
         /\ Applied(acked, recs) \in [Chunk -> Vector \cup {NoVector}]
         /\ InLimbo \in [Chunk -> SUBSET (Vector \cup {NoVector})]
<1>1. recs \in Seq(Record) /\ end \in Nat /\ Len(recs) \in Nat /\ loc \in [Chunk -> 0 .. end]
        /\ acked \in [Chunk -> Vector \cup {NoVector}]
        /\ limbo \in [Chunk -> SUBSET (Vector \cup {NoVector})]
  BY DEF DiskTypeOK
<1>2. ASSUME NEW c \in Chunk
      PROVE  /\ Moved[c] \in 0 .. (end + Len(recs))
             /\ Applied(acked, recs)[c] \in Vector \cup {NoVector}
  <2>. DEFINE own == Own(recs, Len(recs), c)
              k   == Max(own)
  <2>1. /\ own = {} => Moved[c] = loc[c] /\ Applied(acked, recs)[c] = acked[c]
        /\ own # {} => /\ k \in 1 .. Len(recs)
                       /\ recs[k].vector \in Vector \cup {NoVector}
                       /\ Moved[c] = IF recs[k].vector = NoVector THEN 0 ELSE end + k
                       /\ Applied(acked, recs)[c] = recs[k].vector
    BY <1>1, Published
  <2>. HIDE DEF own, k
  <2>2. loc[c] \in 0 .. end /\ acked[c] \in Vector \cup {NoVector}
    BY <1>1
  <2>3. CASE own = {}
    BY <1>1, <2>1, <2>2, <2>3
  <2>4. CASE own # {}
    BY <1>1, <2>1, <2>4
  <2>5. QED
    BY <2>3, <2>4
<1>3. Moved \in [Chunk -> 0 .. (end + Len(recs))]
  <2>1. Moved = [c \in Chunk |-> Moved[c]]
    BY DEF Moved
  <2>2. QED
    BY <1>2, <2>1
<1>4. Applied(acked, recs) \in [Chunk -> Vector \cup {NoVector}]
  <2>1. Applied(acked, recs) = [c \in Chunk |-> Applied(acked, recs)[c]]
    BY DEF Applied
  <2>2. QED
    BY <1>2, <2>1
<1>5. InLimbo \in [Chunk -> SUBSET (Vector \cup {NoVector})]
  <2>1. \A i \in DOMAIN recs : recs[i].vector \in Vector \cup {NoVector}
    BY <1>1, Fields
  <2>2. \A c \in Chunk :
          limbo[c] \cup {recs[i].vector : i \in {k \in DOMAIN recs : recs[k].chunk = c}}
            \in SUBSET (Vector \cup {NoVector})
    BY <1>1, <2>1
  <2>3. QED
    BY <2>2 DEF InLimbo
<1>6. QED
  BY <1>3, <1>4, <1>5

(* The locators and contents that a scan finds.                             *)
LEMMA ScannedTypes ==
  ASSUME NEW file \in Image
  PROVE  /\ ScanEnd(file) \in Nat
         /\ HasHeader(file) => file \in Seq(Cell) /\ ScanEnd(file) \in 1 .. Len(file)
         /\ Scanned(file) \in [Chunk -> 0 .. ScanEnd(file)]
         /\ Recovered(file) \in [Chunk -> Vector \cup {NoVector}]
<1>1. CASE HasHeader(file)
  <2>1. file \in Seq(Cell)
    BY <1>1 DEF HasHeader, Image
  <2>2. Whole(file, ScanEnd(file)) /\ Ended(file, ScanEnd(file))
    BY <1>1, <2>1, ScanStops
  <2>3. ScanEnd(file) \in 1 .. Len(file) /\ ScanEnd(file) \in Nat
    BY <2>1, <2>2 DEF Whole
  <2>4. \A c \in Chunk : Newest(file, c) \in 0 .. ScanEnd(file) /\ Newest(file, c) \in Nat
    BY <2>1, <2>2, <2>3, ScanPoints
  <2>5. \A c \in Chunk : ReadAt(file, Newest(file, c)) \in Vector \cup {NoVector}
    BY <2>4, Reads
  <2>6. QED
    BY <2>1, <2>3, <2>4, <2>5 DEF Scanned, Recovered
<1>2. CASE ~HasHeader(file)
  <2>1. ScanEnd(file) = 0
    BY <1>2 DEF ScanEnd
  <2>2. QED
    BY <1>2, <2>1, NothingRecovered DEF Nothing, Nowhere
<1>3. QED
  BY <1>1, <1>2

(* The files a Reset or a new segment goes through.                         *)
LEMMA NewFiles ==
  /\ <<>> \in Seq(Cell) /\ <<Header>> \in Seq(Cell) /\ <<HalfHeader>> \in Seq(Cell)
  /\ <<>> \in Image /\ <<Header>> \in Image /\ <<HalfHeader>> \in Image /\ NoFile \in Image
  /\ Len(<<>>) = 0 /\ Len(<<Header>>) = 1 /\ Len(<<HalfHeader>>) = 1
  /\ <<Header>>[1] = Header /\ <<HalfHeader>>[1] = HalfHeader
  /\ HasHeader(<<Header>>)
  /\ ~HasHeader(NoFile) /\ ~HasHeader(<<>>) /\ ~HasHeader(<<HalfHeader>>)
  /\ <<>> # NoFile /\ <<Header>> # NoFile /\ <<HalfHeader>> # NoFile
  /\ Whole(<<Header>>, 1) /\ Ended(<<Header>>, 1)
  /\ \A c \in Chunk : Points(<<Header>>, 1, c, 0) /\ Newest(<<Header>>, c) = 0
  /\ \A file \in {NoFile, <<>>, <<Header>>, <<HalfHeader>>}, c \in Chunk :
       Recovered(file)[c] = NoVector
<1>1. /\ <<>> \in Seq(Cell) /\ <<Header>> \in Seq(Cell) /\ <<HalfHeader>> \in Seq(Cell)
      /\ Len(<<>>) = 0 /\ Len(<<Header>>) = 1 /\ Len(<<HalfHeader>>) = 1
      /\ <<Header>>[1] = Header /\ <<HalfHeader>>[1] = HalfHeader
  BY Cells
<1>2. /\ <<>> \in Image /\ <<Header>> \in Image /\ <<HalfHeader>> \in Image /\ NoFile \in Image
      /\ <<>> # NoFile /\ <<Header>> # NoFile /\ <<HalfHeader>> # NoFile
  BY <1>1, Cells DEF Image
<1>3. /\ HasHeader(<<Header>>)
      /\ ~HasHeader(NoFile) /\ ~HasHeader(<<>>) /\ ~HasHeader(<<HalfHeader>>)
  BY <1>1, <1>2, Cells DEF HasHeader
<1>4. Whole(<<Header>>, 1) /\ Ended(<<Header>>, 1)
  BY <1>1 DEF Whole, Ended
<1>5. \A c \in Chunk : Points(<<Header>>, 1, c, 0)
  BY DEF Points
<1>6. \A c \in Chunk : /\ Newest(<<Header>>, c) = 0
                       /\ Recovered(<<Header>>)[c] = ReadAt(<<Header>>, 0)
  <2>. DEFINE file == <<Header>>
  <2>1. file \in Seq(Cell) /\ Whole(file, 1) /\ Ended(file, 1)
        /\ \A c \in Chunk : Points(file, 1, c, 0)
    BY <1>1, <1>4, <1>5
  <2>. HIDE DEF file
  <2>2. \A c \in Chunk : Newest(file, c) = 0 /\ Recovered(file)[c] = ReadAt(file, 0)
    BY <2>1, RecoveredPoints
  <2>3. QED
    BY <2>2 DEF file
<1>7. \A file \in {NoFile, <<>>, <<HalfHeader>>}, c \in Chunk : Recovered(file)[c] = NoVector
  <2>1. \A file \in {NoFile, <<>>, <<HalfHeader>>} : Recovered(file) = Nothing
    BY <1>2, <1>3, NothingRecovered
  <2>2. QED
    BY <2>1 DEF Nothing
<1>8. \A c \in Chunk : Recovered(<<Header>>)[c] = NoVector
  BY <1>6, Reads
<1>9. QED
  BY <1>1, <1>2, <1>3, <1>4, <1>5, <1>6, <1>7, <1>8

(* Initially everything is of its type.                                     *)
LEMMA TypeInit == DiskInit => DiskTypeOK
<1>1. /\ Nowhere \in [Chunk -> 0 .. 0] /\ Nothing \in [Chunk -> Vector \cup {NoVector}]
      /\ Certain \in [Chunk -> SUBSET (Vector \cup {NoVector})]
  BY DEF Nowhere, Nothing, Certain
<1>2. <<>> \in Seq(Record) /\ 0 \in 0 .. MaxMishaps
  BY DiskAssumption
<1>3. QED
  BY <1>1, <1>2, NewFiles DEF DiskInit, DiskTypeOK, Step

(* Every step keeps everything of its type.                                 *)
LEMMA TypeStep ==
  ASSUME DiskTypeOK, SegmentInv, [DiskNext]_dvars
  PROVE  DiskTypeOK'
<1>. USE DEF files, sides, memory, ghosts
<1>1. ASSUME NEW wanted \in Identity, Load(wanted) PROVE DiskTypeOK'
  <2>. DEFINE kept == IF HasHeader(seg) THEN SubSeq(seg, 1, ScanEnd(seg)) ELSE seg
  <2>1. seg \in Image
    BY DEF DiskTypeOK
  <2>2. /\ ScanEnd(seg) \in Nat
        /\ Scanned(seg) \in [Chunk -> 0 .. ScanEnd(seg)]
        /\ Recovered(seg) \in [Chunk -> Vector \cup {NoVector}]
    BY <2>1, ScannedTypes
  <2>3. kept \in Image
    <3>1. CASE HasHeader(seg)
      <4>1. seg \in Seq(Cell) /\ ScanEnd(seg) \in 1 .. Len(seg)
        BY <2>1, <3>1, ScannedTypes
      <4>2. SubSeq(seg, 1, ScanEnd(seg)) \in Seq(Cell)
        BY <4>1
      <4>3. QED
        BY <3>1, <4>2 DEF Image
    <3>2. CASE ~HasHeader(seg)
      BY <2>1, <3>2
    <3>3. QED
      BY <3>1, <3>2
  <2>4. seg' = kept /\ disk' = disk \cup {kept} /\ stale' = stale
    BY <1>1 DEF Load, Changed
  <2>. HIDE DEF kept
  <2>5. seg' \in Image /\ disk' \subseteq Image /\ stale' \subseteq Image
    BY <2>3, <2>4 DEF DiskTypeOK
  <2>6. acked' = Recovered(seg)
        /\ limbo' = [c \in Chunk |-> IF acked'[c] = acked[c] THEN limbo[c]
                                                             ELSE limbo[c] \cup {acked[c]}]
    BY <1>1 DEF Load
  <2>7. acked' \in [Chunk -> Vector \cup {NoVector}]
        /\ limbo' \in [Chunk -> SUBSET (Vector \cup {NoVector})]
    BY <2>2, <2>6 DEF DiskTypeOK
  <2>8. /\ view' = NoFile /\ identity' = wanted
        /\ side' = side /\ sideDisk' = sideDisk /\ recs' = recs /\ mishaps' = mishaps
        /\ spoiled' = spoiled
    BY <1>1 DEF Load
  <2>9. /\ end' \in Nat /\ loc' \in [Chunk -> 0 .. end']
        /\ dirty' \in BOOLEAN /\ step' \in Step
    <3>1. CASE loc' = Scanned(seg) /\ end' = ScanEnd(seg) /\ dirty' = FALSE /\ step' = "idle"
      BY <2>2, <3>1 DEF Step
    <3>2. CASE loc' = Nowhere /\ end' = 0 /\ dirty' = TRUE /\ step' = "truncate"
      BY <3>2 DEF Nowhere, Step
    <3>3. QED
      BY <1>1, <3>1, <3>2 DEF Load
  <2>10. QED
    BY <2>5, <2>7, <2>8, <2>9, NewFiles DEF DiskTypeOK
<1>2. CASE Truncate
  BY <1>2, NewFiles DEF DiskTypeOK, Truncate, Go, Opened, Changed, Nothing, Step
<1>3. CASE WriteHalf("reheader", "reheader2") \/ WriteHalf("header", "header2")
  BY <1>3, NewFiles DEF DiskTypeOK, WriteHalf, Go, Changed, Step
<1>4. CASE WriteRest("reheader2", "resync") \/ WriteRest("header2", "headerdir")
  BY <1>4, NewFiles DEF DiskTypeOK, WriteRest, Go, Changed, Step
<1>5. CASE SyncReset
  <2>1. step = "resync" /\ end = 0 /\ end' = 1 /\ loc' = loc
    BY <1>5 DEF SyncReset, Go, SegmentInv
  <2>2. loc' \in [Chunk -> 0 .. end'] /\ end' \in Nat
    BY <2>1 DEF DiskTypeOK
  <2>3. Certain \in [Chunk -> SUBSET (Vector \cup {NoVector})]
    BY DEF Certain
  <2>4. QED
    BY <1>5, <2>2, <2>3 DEF DiskTypeOK, SyncReset, Go, FileSynced, Step
<1>6. CASE RenameSidecar("publish", "publishdir") \/ RenameSidecar("sidecar", "sidecardir")
  BY <1>6 DEF DiskTypeOK, RenameSidecar, Go, Step
<1>7. CASE SyncPublished
  BY <1>7 DEF DiskTypeOK, SyncPublished, DirSynced, Go, Step
<1>8. CASE BeginAppend
  <2>1. recs' \in Seq(Record)
    BY <1>8, RecordsToAppend DEF BeginAppend
  <2>2. seg' \in Image /\ disk' \subseteq Image /\ stale' \subseteq Image
    BY <1>8, NewFiles DEF BeginAppend, Opened, DiskTypeOK
  <2>3. end' \in Nat /\ (end = 0 \/ end' = end) /\ step' \in Step
    <3>1. CASE end = 0 /\ seg \in {NoFile, <<>>}
      BY <1>8, <3>1 DEF BeginAppend, DiskTypeOK, Go, Step
    <3>2. CASE ~(end = 0 /\ seg \in {NoFile, <<>>})
      <4>1. step' = "write" /\ end' = IF end = 0 THEN Len(seg) ELSE end
        BY <1>8, <3>2 DEF BeginAppend, Go
      <4>2. end = 0 => seg \in Seq(Cell)
        BY <3>2 DEF DiskTypeOK, Image
      <4>3. QED
        BY <4>1, <4>2 DEF DiskTypeOK, Step
    <3>3. QED
      BY <3>1, <3>2
  <2>4. loc' \in [Chunk -> 0 .. end']
    <3>1. loc' = loc /\ loc \in [Chunk -> 0 .. end] /\ end \in Nat
      BY <1>8 DEF BeginAppend, DiskTypeOK
    <3>2. 0 .. end \subseteq 0 .. end'
      BY <2>3, <3>1
    <3>3. QED
      BY <3>1, <3>2
  <2>5. UNCHANGED <<side, sideDisk, identity, dirty, view, mishaps, acked, limbo, spoiled>>
    BY <1>8 DEF BeginAppend
  <2>6. QED
    BY <2>1, <2>2, <2>3, <2>4, <2>5 DEF DiskTypeOK
<1>9. CASE SyncCreated
  <2>1. step = "headerdir" /\ end = 0 /\ end' = 1 /\ loc' = loc
    BY <1>9 DEF SyncCreated, Go, SegmentInv, Creating
  <2>2. loc' \in [Chunk -> 0 .. end'] /\ end' \in Nat
    BY <2>1 DEF DiskTypeOK
  <2>3. QED
    BY <1>9, <2>2 DEF DiskTypeOK, SyncCreated, DirSynced, Go, Step
<1>10. CASE WriteRecords \/ WriteFails
  <2>1. step = "write" /\ seg \in Seq(Cell) /\ end \in Nat /\ recs \in Seq(Record) /\ recs \in Seq(Cell)
    BY <1>10, Cells DEF WriteRecords, WriteFails, Go, SegmentInv, Appending, DiskTypeOK, Image
  <2>2. Put(seg, end, recs) \in Image /\ \A l \in Landings(recs) : Put(seg, end, l) \in Image
    BY <2>1, Landed, Written, Cells
  <2>3. seg' \in Image /\ disk' \subseteq Image /\ stale' = stale
    BY <1>10, <2>2 DEF WriteRecords, WriteFails, DiskTypeOK
  <2>4. limbo' \in [Chunk -> SUBSET (Vector \cup {NoVector})]
    BY <1>10, PublishedTypes DEF WriteRecords, WriteFails
  <2>5. /\ UNCHANGED <<side, sideDisk, loc, end, identity, dirty, view, recs, acked, spoiled>>
        /\ mishaps' = mishaps \/ Mishap
        /\ step' \in Step
    BY <1>10 DEF WriteRecords, WriteFails, Fault, Go, Step
  <2>6. QED
    BY <2>3, <2>4, <2>5, DiskAssumption DEF DiskTypeOK, Mishap
<1>11. CASE SyncRecords
  <2>1. /\ end' = end + Len(recs) /\ loc' = Moved /\ acked' = Applied(acked, recs) /\ limbo' = Certain
        /\ seg' = seg /\ disk' = {seg} /\ stale' = stale /\ dirty' = TRUE /\ view' = NoFile
        /\ recs' = <<>> /\ step' = "idle"
        /\ UNCHANGED <<side, sideDisk, identity, mishaps, spoiled>>
    BY <1>11 DEF SyncRecords, FileSynced, Go
  <2>2. /\ Moved \in [Chunk -> 0 .. (end + Len(recs))] /\ end + Len(recs) \in Nat
        /\ Applied(acked, recs) \in [Chunk -> Vector \cup {NoVector}]
    BY PublishedTypes DEF DiskTypeOK
  <2>3. Certain \in [Chunk -> SUBSET (Vector \cup {NoVector})]
    BY DEF Certain
  <2>4. QED
    BY <2>1, <2>2, <2>3, NewFiles DEF DiskTypeOK, Step
<1>12. CASE SyncFails
  BY <1>12, DiskAssumption DEF DiskTypeOK, SyncFails, Fault, Mishap, Go, Step
<1>13. CASE RollBack
  <2>1. step = "rollback" /\ seg \in Seq(Cell) /\ end \in Nat
    BY <1>13 DEF RollBack, Go, SegmentInv, Appending, DiskTypeOK, Image
  <2>2. Resized(seg, end) \in Image
    BY <2>1, Truncated, Cells
  <2>3. seg' \in Image /\ disk' \subseteq Image /\ stale' = stale
    BY <1>13, <2>2 DEF RollBack, DiskTypeOK
  <2>4. Certain \in [Chunk -> SUBSET (Vector \cup {NoVector})]
    BY DEF Certain
  <2>5. limbo' \in [Chunk -> SUBSET (Vector \cup {NoVector})] /\ spoiled' \in BOOLEAN
        /\ (mishaps' = mishaps \/ Mishap)
    BY <1>13, <2>4 DEF RollBack, DiskTypeOK, Fault
  <2>6. /\ view' = NoFile /\ recs' = <<>> /\ step' = "idle"
        /\ UNCHANGED <<side, sideDisk, loc, end, identity, dirty, acked>>
    BY <1>13 DEF RollBack, Go
  <2>7. QED
    BY <2>3, <2>5, <2>6, NewFiles, DiskAssumption DEF DiskTypeOK, Mishap, Step
<1>14. CASE OpenFails
  <2>1. /\ UNCHANGED <<seg, disk, stale, side, sideDisk, loc, end, identity, dirty, view, acked, limbo>>
        /\ spoiled' \in {spoiled, TRUE} /\ step' = "idle" /\ recs' = <<>> /\ Mishap
    BY <1>14 DEF OpenFails, Fault, Go
  <2>2. mishaps' \in 0 .. MaxMishaps /\ recs' \in Seq(Record)
    BY <2>1, DiskAssumption DEF Mishap, DiskTypeOK
  <2>3. QED
    BY <2>1, <2>2 DEF DiskTypeOK, Step
<1>15. CASE BeginSave
  BY <1>15, DiskAssumption DEF DiskTypeOK, BeginSave, Mapped, Fault, Mishap, Step
<1>16. CASE RenameSegment
  <2>1. Compacted \in Image
    BY CompactedFile, Cells
  <2>2. QED
    BY <1>16, <2>1 DEF DiskTypeOK, RenameSegment, Go, Step
<1>17. CASE AdoptSegment
  <2>1. step = "renamedir" /\ seg \in Seq(Cell) /\ seg \in Image
    BY <1>17 DEF AdoptSegment, Go, SegmentInv, DiskTypeOK, Image
  <2>2. Scanned(seg) \in [Chunk -> 0 .. ScanEnd(seg)] /\ ScanEnd(seg) \in 0 .. Len(seg) /\ Len(seg) \in Nat
    <3>1. /\ Scanned(seg) \in [Chunk -> 0 .. ScanEnd(seg)]
          /\ HasHeader(seg) => ScanEnd(seg) \in 1 .. Len(seg)
      BY <2>1, ScannedTypes
    <3>2. ~HasHeader(seg) => ScanEnd(seg) = 0
      BY DEF ScanEnd
    <3>3. QED
      BY <2>1, <3>1, <3>2
  <2>3. Scanned(seg) \in [Chunk -> 0 .. Len(seg)]
    <3>1. 0 .. ScanEnd(seg) \subseteq 0 .. Len(seg)
      BY <2>2
    <3>2. QED
      BY <2>2, <3>1
  <2>4. QED
    BY <1>17, <2>2, <2>3, NewFiles DEF DiskTypeOK, AdoptSegment, DirSynced, Go, Step
<1>18. CASE FinishSave
  BY <1>18 DEF DiskTypeOK, FinishSave, DirSynced, Go, Step
<1>19. CASE SaveFails
  BY <1>19, DiskAssumption DEF DiskTypeOK, SaveFails, Fault, Mishap, Go, Step
<1>20. CASE MapForSearch
  BY <1>20 DEF DiskTypeOK, MapForSearch
<1>21. CASE Stop
  BY <1>21, NewFiles DEF DiskTypeOK, Stop, MemoryLost, Nowhere, Step
<1>22. CASE Kill
  BY <1>22, NewFiles, DiskAssumption DEF DiskTypeOK, Kill, MemoryLost, Mishap, Nowhere, Step
<1>23. CASE PowerLoss
  BY <1>23, NewFiles, DiskAssumption DEF DiskTypeOK, PowerLoss, MemoryLost, Mishap, Nowhere, Step
<1>24. CASE UNCHANGED dvars
  BY <1>24 DEF DiskTypeOK, dvars
<1>25. QED
  BY <1>1, <1>2, <1>3, <1>4, <1>5, <1>6, <1>7, <1>8, <1>9, <1>10, <1>11, <1>12, <1>13, <1>14,
     <1>15, <1>16, <1>17, <1>18, <1>19, <1>20, <1>21, <1>22, <1>23, <1>24
     DEF DiskNext, StartUp, Mutate, Save

-----------------------------------------------------------------------------
(* The segment *)

(* No directory sync fails.  Without this, SearchSeesAcked can be violated: *)
(* Save then keeps locators that the renamed segment no longer answers to.  *)
DirectoriesSync == "dirsync" \notin Faults

(* Initially there is no segment.                                           *)
LEMMA SegmentInit == DiskInit => SegmentInv
BY DEF DiskInit, SegmentInv, Starting, Creating, Appending, Saving, Serving

(* Every step leaves the segment as the next one expects it.                *)
LEMMA SegmentStep ==
  ASSUME DirectoriesSync, DiskTypeOK, SegmentInv, AgreesInv, [DiskNext]_dvars
  PROVE  SegmentInv'
<1>. USE DEF files, sides, memory, ghosts, Starting, Creating, Appending, Saving, Serving
<1>1. ASSUME NEW wanted \in Identity, Load(wanted) PROVE SegmentInv'
  <2>1. CASE step' = "truncate"
    BY <1>1, <2>1 DEF Load, Changed, SegmentInv
  <2>2. CASE step' # "truncate"
    <3>1. step' = "idle" /\ end' = ScanEnd(seg) /\ stale' = stale /\ step = "down"
      BY <1>1, <2>2 DEF Load, Changed
    <3>2. ScanEnd(seg) # 0 => seg' # NoFile
      <4>. SUFFICES ASSUME ScanEnd(seg) # 0 PROVE seg' # NoFile
        OBVIOUS
      <4>1. HasHeader(seg) /\ seg \in Image
        BY DEF ScanEnd, DiskTypeOK
      <4>2. seg \in Seq(Cell) /\ ScanEnd(seg) \in 1 .. Len(seg)
        BY <4>1, ScannedTypes
      <4>3. SubSeq(seg, 1, ScanEnd(seg)) \in Seq(Cell)
        BY <4>2
      <4>4. seg' = SubSeq(seg, 1, ScanEnd(seg))
        BY <1>1, <4>1 DEF Load, Changed
      <4>5. QED
        BY <4>3, <4>4, Cells
    <3>3. QED
      BY <3>1, <3>2 DEF SegmentInv
  <2>3. QED
    BY <2>1, <2>2
<1>2. CASE Truncate
  BY <1>2, NewFiles DEF SegmentInv, Truncate, Go, Opened, Changed
<1>3. CASE WriteHalf("reheader", "reheader2") \/ WriteHalf("header", "header2")
  BY <1>3, NewFiles DEF SegmentInv, WriteHalf, Go, Changed
<1>4. CASE WriteRest("reheader2", "resync") \/ WriteRest("header2", "headerdir")
  BY <1>4, NewFiles DEF SegmentInv, WriteRest, Go, Changed
<1>5. CASE SyncReset
  BY <1>5, NewFiles DEF SegmentInv, SyncReset, Go, FileSynced
<1>6. CASE RenameSidecar("publish", "publishdir")
  BY <1>6 DEF SegmentInv, RenameSidecar, Go
<1>7. CASE RenameSidecar("sidecar", "sidecardir")
  BY <1>7 DEF SegmentInv, RenameSidecar, Go
<1>8. CASE SyncPublished
  BY <1>8, NewFiles DEF SegmentInv, SyncPublished, DirSynced, Go
<1>9. CASE BeginAppend
  <2>1. step = "idle" /\ stale \subseteq {NoFile} /\ (seg = NoFile => end = 0)
    BY <1>9 DEF BeginAppend, Go, SegmentInv
  <2>2. /\ seg = NoFile => seg' = <<>> /\ stale' = stale \cup {NoFile}
        /\ seg # NoFile => seg' = seg /\ stale' = stale
    BY <1>9 DEF BeginAppend, Opened
  <2>3. CASE end = 0 /\ seg \in {NoFile, <<>>}
    <3>1. step' = "header" /\ end' = 0 /\ seg' = <<>>
      BY <1>9, <2>2, <2>3 DEF BeginAppend, Go
    <3>2. QED
      BY <2>1, <2>2, <3>1, NewFiles DEF SegmentInv
  <2>4. CASE ~(end = 0 /\ seg \in {NoFile, <<>>})
    <3>1. step' = "write" /\ end' = IF end = 0 THEN Len(seg) ELSE end
      BY <1>9, <2>4 DEF BeginAppend, Go
    <3>2. seg # NoFile
      BY <2>1, <2>4
    <3>3. end = 0 => Len(seg) # 0
      BY <2>4, <3>2 DEF DiskTypeOK, Image
    <3>4. QED
      BY <2>1, <2>2, <3>1, <3>2, <3>3 DEF SegmentInv
  <2>5. QED
    BY <2>3, <2>4
<1>10. CASE SyncCreated
  BY <1>10, NewFiles DEF SegmentInv, SyncCreated, DirSynced, Go
<1>11. CASE WriteRecords \/ WriteFails
  <2>1. step = "write" /\ seg \in Seq(Cell) /\ end \in Nat /\ recs \in Seq(Record) /\ recs \in Seq(Cell)
    BY <1>11, Cells DEF WriteRecords, WriteFails, Go, SegmentInv, DiskTypeOK, Image
  <2>2. Put(seg, end, recs) # NoFile /\ \A l \in Landings(recs) : Put(seg, end, l) # NoFile
    BY <2>1, Landed, Written, Cells
  <2>3. seg' # NoFile /\ UNCHANGED <<end, stale>> /\ step' \in {"sync", "rollback"}
    BY <1>11, <2>2 DEF WriteRecords, WriteFails, Go
  <2>4. QED
    BY <2>1, <2>3 DEF SegmentInv
<1>12. CASE SyncRecords
  BY <1>12 DEF SegmentInv, SyncRecords, FileSynced, Go
<1>13. CASE SyncFails
  BY <1>13 DEF SegmentInv, SyncFails, Go
<1>14. CASE RollBack
  <2>1. step = "rollback" /\ seg \in Seq(Cell) /\ end \in Nat
    BY <1>14 DEF RollBack, Go, SegmentInv, DiskTypeOK, Image
  <2>2. Resized(seg, end) # NoFile
    BY <2>1, Truncated, Cells
  <2>3. seg' # NoFile /\ UNCHANGED <<end, stale>> /\ step' = "idle"
    BY <1>14, <2>1, <2>2, Cells DEF RollBack, Go
  <2>4. QED
    BY <2>1, <2>3 DEF SegmentInv
<1>15. CASE OpenFails
  BY <1>15 DEF SegmentInv, OpenFails, Go
<1>16. CASE BeginSave
  BY <1>16 DEF SegmentInv, BeginSave
<1>17. CASE RenameSegment
  <2>1. Compacted # NoFile
    BY CompactedFile, Cells
  <2>2. QED
    BY <1>17, <2>1 DEF SegmentInv, RenameSegment, Go
<1>18. CASE AdoptSegment
  <2>1. step = "renamedir" /\ seg \in Seq(Cell) /\ seg # NoFile
    BY <1>18 DEF AdoptSegment, Go, SegmentInv, DiskTypeOK, Image
  <2>2. /\ seg' = seg /\ disk' = disk /\ stale' = {} /\ end' = Len(seg) /\ step' = "sidecar"
    BY <1>18 DEF AdoptSegment, Go, DirSynced
  <2>3. Len(seg) # 0
    BY <2>1 DEF AgreesInv, Whole
  <2>4. QED
    BY <2>1, <2>2, <2>3 DEF SegmentInv
<1>19. CASE FinishSave
  BY <1>19 DEF SegmentInv, FinishSave, DirSynced, Go
<1>20. CASE SaveFails
  BY <1>20 DEF SegmentInv, SaveFails, Go, Fault, DirectoriesSync
<1>21. CASE MapForSearch
  BY <1>21 DEF SegmentInv, MapForSearch
<1>22. CASE Stop \/ Kill \/ PowerLoss
  BY <1>22 DEF SegmentInv, Stop, Kill, PowerLoss, MemoryLost
<1>23. CASE UNCHANGED dvars
  BY <1>23 DEF SegmentInv, dvars
<1>24. QED
  BY <1>1, <1>2, <1>3, <1>4, <1>5, <1>6, <1>7, <1>8, <1>9, <1>10, <1>11, <1>12, <1>13, <1>14,
     <1>15, <1>16, <1>17, <1>18, <1>19, <1>20, <1>21, <1>22, <1>23
     DEF DiskNext, StartUp, Mutate, Save

-----------------------------------------------------------------------------
(* Searches *)

(* What Load drops of a torn segment changes nothing that a scan finds.     *)
LEMMA TornTailDropped ==
  ASSUME NEW file \in Image, HasHeader(file)
  PROVE  LET n    == ScanEnd(file)
             kept == SubSeq(file, 1, n)
         IN  /\ kept \in Seq(Cell) /\ Len(kept) = n /\ n \in Nat \ {0}
             /\ Whole(kept, n) /\ HasHeader(kept)
             /\ \A i \in 1 .. n : i \in 1 .. Len(file) /\ kept[i] = file[i]
             /\ \A i \in 0 .. n : ReadAt(kept, i) = ReadAt(file, i)
             /\ \A c \in Chunk : /\ Points(kept, n, c, Newest(file, c))
                                 /\ Newest(file, c) \in 0 .. n
                                 /\ Recovered(kept)[c] = Recovered(file)[c]
<1>. DEFINE n    == ScanEnd(file)
            kept == SubSeq(file, 1, n)
<1>1. file \in Seq(Cell)
  BY DEF HasHeader, Image
<1>2. Whole(file, n) /\ Ended(file, n) /\ n \in 1 .. Len(file) /\ n \in Nat
  <2>1. Whole(file, n) /\ Ended(file, n)
    BY <1>1, ScanStops
  <2>2. QED
    BY <1>1, <2>1 DEF Whole
<1>. HIDE DEF n
<1>3. kept \in Seq(Cell) /\ Len(kept) = n /\ \A i \in 1 .. n : i \in 1 .. Len(file) /\ kept[i] = file[i]
  BY <1>1, <1>2
<1>. HIDE DEF kept
<1>4. Whole(kept, n)
  <2>1. n \in 1 .. Len(kept) /\ \A i \in 2 .. n : i \in 1 .. n
    BY <1>2, <1>3
  <2>2. 1 \in 1 .. n
    BY <1>2
  <2>3. QED
    BY <1>2, <1>3, <2>1, <2>2 DEF Whole
<1>5. Ended(kept, n)
  BY <1>2, <1>3 DEF Ended
<1>6. HasHeader(kept)
  BY <1>2, <1>3, <1>4, <1>5, ScanStops
<1>7. \A i \in 0 .. n : ReadAt(kept, i) = ReadAt(file, i)
  <2>. TAKE i \in 0 .. n
  <2>1. CASE i = 0
    BY <2>1, Reads
  <2>2. CASE i \in 1 .. n
    BY <1>1, <1>3, <2>2, Cells DEF ReadAt
  <2>3. QED
    BY <1>2, <2>1, <2>2
<1>8. ASSUME NEW c \in Chunk
      PROVE  /\ Points(kept, n, c, Newest(file, c))
             /\ Newest(file, c) \in 0 .. n
             /\ Recovered(kept)[c] = Recovered(file)[c]
  <2>1. Points(file, n, c, Newest(file, c)) /\ Newest(file, c) \in 0 .. n
    BY <1>1, <1>2, ScanPoints
  <2>2. \A k \in 2 .. n : kept[k] = file[k]
    BY <1>2, <1>3
  <2>3. \A k \in 2 .. n : \A j \in (k + 1) .. n : kept[j] = file[j]
    BY <1>2, <1>3
  <2>4. Points(kept, n, c, Newest(file, c))
    BY <2>1, <2>2, <2>3 DEF Points
  <2>5. Recovered(kept)[c] = ReadAt(kept, Newest(file, c))
    BY <1>2, <1>3, <1>4, <1>5, <2>4, RecoveredPoints
  <2>6. Recovered(file)[c] = ReadAt(file, Newest(file, c))
    BY DEF Recovered
  <2>7. QED
    BY <1>7, <2>1, <2>4, <2>5, <2>6
<1>9. QED
  BY <1>2, <1>3, <1>4, <1>6, <1>7, <1>8 DEF kept, n

(* A compaction holds, for each chunk, what the locators read through the   *)
(* view.                                                                    *)
LEMMA CompactedHolds ==
  ASSUME DiskTypeOK, AgreesInv, step = "rename"
  PROVE  /\ Compacted \in Seq(Cell)
         /\ Whole(Compacted, Len(Compacted))
         /\ \A c \in Chunk : ReadAt(Compacted, Newest(Compacted, c)) = acked[c]
<1>. DEFINE file == Compacted
            len  == Len(Compacted)
            ids  == LiveIds
<1>1. /\ file \in Seq(Cell) /\ len = 1 + Len(ids) /\ file[1] = Header
      /\ \A i \in 1 .. Len(ids) :
           file[1 + i] = [chunk |-> ids[i], vector |-> ReadAt(view, loc[ids[i]])]
      /\ \A i \in 1 .. Len(ids) : file[1 + i] \in Record
  BY CompactedFile
<1>2. /\ ids \in Seq({c \in Chunk : loc[c] # 0}) /\ Len(ids) \in Nat
      /\ \A c \in Chunk : loc[c] # 0 => \E i \in 1 .. Len(ids) : ids[i] = c
      /\ \A i, k \in 1 .. Len(ids) : ids[i] = ids[k] => i = k
  BY Live
<1>. HIDE DEF ids
<1>3. \A i \in 1 .. Len(ids) : ids[i] \in Chunk /\ loc[ids[i]] # 0
  BY <1>2
<1>4. \A k \in 2 .. len : k - 1 \in 1 .. Len(ids) /\ 1 + (k - 1) = k
  BY <1>1, <1>2
<1>5. \A k \in 2 .. len :
        /\ file[k] \in Record
        /\ file[k].chunk = ids[k - 1]
        /\ file[k].vector = acked[ids[k - 1]]
  <2>. TAKE k \in 2 .. len
  <2>. DEFINE i == k - 1
  <2>1. i \in 1 .. Len(ids) /\ 1 + i = k
    BY <1>4
  <2>. HIDE DEF i
  <2>2. file[k] = [chunk |-> ids[i], vector |-> ReadAt(view, loc[ids[i]])] /\ file[k] \in Record
    BY <1>1, <2>1
  <2>3. ReadAt(view, loc[ids[i]]) = acked[ids[i]]
    BY <1>3, <2>1 DEF AgreesInv
  <2>4. QED
    BY <2>2, <2>3 DEF i
<1>6. Whole(file, len) /\ Ended(file, len)
  <2>1. len \in 1 .. Len(file)
    BY <1>1, <1>2
  <2>2. QED
    BY <1>1, <1>5, <2>1 DEF Whole, Ended
<1>7. ASSUME NEW c \in Chunk PROVE ReadAt(file, Newest(file, c)) = acked[c]
  <2>1. CASE loc[c] = 0
    <3>1. \A k \in 2 .. len : file[k].chunk # c
      BY <1>3, <1>4, <1>5, <2>1
    <3>2. Points(file, len, c, 0)
      BY <3>1 DEF Points
    <3>3. Newest(file, c) = 0
      BY <1>1, <1>2, <1>6, <3>2, RecoveredPoints
    <3>4. acked[c] = NoVector
      BY <2>1, Reads DEF AgreesInv
    <3>5. QED
      BY <3>3, <3>4, Reads
  <2>2. CASE loc[c] # 0
    <3>1. PICK i \in 1 .. Len(ids) : ids[i] = c
      BY <1>2, <2>2
    <3>. DEFINE k == 1 + i
    <3>2. k \in 2 .. len /\ k - 1 = i
      BY <1>1, <1>2
    <3>. HIDE DEF k
    <3>3. file[k] \in Record /\ file[k].chunk = c /\ file[k].vector = acked[c]
      BY <1>5, <3>1, <3>2
    <3>4. \A j \in (k + 1) .. len : file[j].chunk # c
      <4>. SUFFICES ASSUME NEW j \in (k + 1) .. len, file[j].chunk = c PROVE FALSE
        OBVIOUS
      <4>1. j \in 2 .. len /\ j - 1 \in 1 .. Len(ids) /\ j # k /\ j \in Nat /\ k \in Nat
        BY <1>1, <1>2, <3>2
      <4>2. ids[j - 1] = c
        BY <1>5, <4>1
      <4>3. j - 1 = i
        BY <1>2, <3>1, <4>1, <4>2
      <4>4. QED
        BY <3>2, <4>1, <4>3
    <3>5. acked[c] # NoVector
      BY <2>2 DEF AgreesInv
    <3>6. Points(file, len, c, k)
      BY <3>2, <3>3, <3>4, <3>5 DEF Points
    <3>7. Newest(file, c) = k
      BY <1>1, <1>2, <1>6, <3>6, RecoveredPoints
    <3>8. k \in 1 .. Len(file) /\ k \in Nat
      BY <1>1, <1>2, <3>2
    <3>9. ReadAt(file, k) = file[k].vector
      BY <1>1, <3>3, <3>8, Reads
    <3>10. QED
      BY <3>3, <3>7, <3>9
  <2>3. QED
    BY <2>1, <2>2
<1>8. QED
  BY <1>1, <1>6, <1>7

(* Where the log has no end yet, nothing has been published.                *)
LEMMA NoneLocated ==
  ASSUME DiskTypeOK, AgreesInv, end = 0, step \in Serving \cup Starting
  PROVE  /\ \A c \in Chunk : loc[c] = 0
         /\ step \in Serving => \A c \in Chunk : acked[c] = NoVector
<1>1. \A c \in Chunk : loc[c] = 0
  BY DEF DiskTypeOK
<1>2. QED
  BY <1>1, Reads DEF AgreesInv

(* Initially nothing is served.                                             *)
LEMMA AgreesInit == DiskInit => AgreesInv
BY DEF DiskInit, AgreesInv, Starting, Creating, Appending, Saving, Serving

(* Every step keeps the locators and the file in agreement.                 *)
LEMMA AgreesStep ==
  ASSUME DirectoriesSync, DiskTypeOK, SegmentInv, AgreesInv, [DiskNext]_dvars
  PROVE  AgreesInv'
<1>. USE DEF files, sides, memory, ghosts, Starting, Creating, Appending, Saving, Serving
<1>1. ASSUME NEW wanted \in Identity, Load(wanted) PROVE AgreesInv'
  <2>1. CASE step' = "truncate"
    BY <1>1, <2>1 DEF Load, AgreesInv
  <2>2. CASE step' # "truncate"
    <3>1. /\ step' = "idle" /\ loc' = Scanned(seg) /\ view' = NoFile
          /\ acked' = Recovered(seg)
          /\ seg' = IF HasHeader(seg) THEN SubSeq(seg, 1, ScanEnd(seg)) ELSE seg
          /\ seg \in Image
      BY <1>1, <2>2 DEF Load, Changed, DiskTypeOK
    <3>2. ASSUME NEW c \in Chunk PROVE ReadAt(seg', loc'[c]) = acked'[c]
      <4>1. loc'[c] = Newest(seg, c) /\ acked'[c] = ReadAt(seg, Newest(seg, c))
        BY <3>1 DEF Scanned, Recovered
      <4>2. CASE HasHeader(seg)
        <5>1. ReadAt(SubSeq(seg, 1, ScanEnd(seg)), Newest(seg, c)) = ReadAt(seg, Newest(seg, c))
          BY <3>1, <4>2, TornTailDropped
        <5>2. QED
          BY <3>1, <4>1, <4>2, <5>1
      <4>3. CASE ~HasHeader(seg)
        BY <3>1, <4>1, <4>3
      <4>4. QED
        BY <4>2, <4>3
    <3>3. QED
      BY <3>1, <3>2 DEF AgreesInv
  <2>3. QED
    BY <2>1, <2>2
<1>2. CASE Truncate
  BY <1>2 DEF AgreesInv, Truncate, Go
<1>3. CASE WriteHalf("reheader", "reheader2") \/ WriteRest("reheader2", "resync")
  BY <1>3 DEF AgreesInv, WriteHalf, WriteRest, Go
<1>4. CASE WriteHalf("header", "header2") \/ WriteRest("header2", "headerdir")
  <2>1. /\ step \in Creating /\ step' \in Creating
        /\ loc' = loc /\ acked' = acked /\ view' = view
    BY <1>4 DEF WriteHalf, WriteRest, Go
  <2>2. \A c \in Chunk : loc[c] = 0 /\ acked[c] = NoVector
    BY <2>1, NoneLocated DEF SegmentInv
  <2>3. \A c \in Chunk : ReadAt(seg', loc'[c]) = acked'[c] /\ ReadAt(view', loc'[c]) = acked'[c]
    BY <2>1, <2>2, Reads
  <2>4. QED
    BY <2>1, <2>3 DEF AgreesInv
<1>5. CASE SyncReset
  BY <1>5 DEF AgreesInv, SyncReset, Go
<1>6. CASE RenameSidecar("publish", "publishdir")
  BY <1>6 DEF AgreesInv, RenameSidecar, Go
<1>7. CASE RenameSidecar("sidecar", "sidecardir")
  BY <1>7 DEF AgreesInv, RenameSidecar, Go
<1>8. CASE SyncPublished
  <2>1. /\ step = "publishdir" /\ step' = "idle" /\ loc' = loc /\ acked' = acked /\ view' = view
    BY <1>8 DEF SyncPublished, Go
  <2>2. \A c \in Chunk : loc[c] = 0 /\ acked[c] = NoVector
    BY <2>1 DEF AgreesInv, Nowhere, Nothing
  <2>3. \A c \in Chunk : ReadAt(seg', loc'[c]) = acked'[c] /\ ReadAt(view', loc'[c]) = acked'[c]
    BY <2>1, <2>2, Reads
  <2>4. QED
    BY <2>1, <2>3 DEF AgreesInv
<1>9. CASE BeginAppend
  <2>1. /\ step = "idle" /\ step' \in {"header", "write"}
        /\ loc' = loc /\ acked' = acked /\ view' = view
    BY <1>9 DEF BeginAppend, Go
  <2>2. ASSUME NEW c \in Chunk PROVE ReadAt(seg', loc'[c]) = acked'[c]
    <3>1. CASE seg = NoFile
      <4>1. end = 0
        BY <2>1, <3>1 DEF SegmentInv
      <4>2. loc[c] = 0 /\ acked[c] = NoVector
        BY <2>1, <4>1, NoneLocated
      <4>3. QED
        BY <2>1, <4>2, Reads
    <3>2. CASE seg # NoFile
      <4>1. seg' = seg
        BY <1>9, <3>2 DEF BeginAppend, Opened
      <4>2. QED
        BY <2>1, <4>1 DEF AgreesInv
    <3>3. QED
      BY <3>1, <3>2
  <2>3. QED
    BY <2>1, <2>2 DEF AgreesInv
<1>10. CASE SyncCreated
  BY <1>10 DEF AgreesInv, SyncCreated, DirSynced, Go
<1>11. CASE WriteRecords \/ WriteFails
  <2>1. step = "write" /\ seg \in Seq(Cell) /\ end \in Nat /\ recs \in Seq(Record) /\ recs \in Seq(Cell)
    BY <1>11, Cells DEF WriteRecords, WriteFails, Go, SegmentInv, DiskTypeOK, Image
  <2>2. PICK cells \in Seq(Cell) : seg' = Put(seg, end, cells)
    <3>1. CASE WriteRecords
      BY <2>1, <3>1 DEF WriteRecords
    <3>2. CASE WriteFails
      <4>1. PICK l \in Landings(recs) : seg' = Put(seg, end, l)
        BY <3>2 DEF WriteFails
      <4>2. QED
        BY <2>1, <4>1, Landed
    <3>3. QED
      BY <1>11, <3>1, <3>2
  <2>3. UNCHANGED <<loc, acked, view, end, recs>>
    BY <1>11 DEF WriteRecords, WriteFails
  <2>4. ASSUME NEW c \in Chunk PROVE ReadAt(seg', loc'[c]) = acked'[c]
    <3>1. loc[c] \in 0 .. end
      BY DEF DiskTypeOK
    <3>2. ReadAt(Put(seg, end, cells), loc[c]) = ReadAt(seg, loc[c])
      BY <2>1, <3>1, ReadsKept
    <3>3. QED
      BY <2>1, <2>2, <2>3, <3>2 DEF AgreesInv
  <2>5. CASE WriteRecords
    <3>1. step' = "sync" /\ seg' = Put(seg, end, recs)
      BY <2>5 DEF WriteRecords, Go
    <3>2. /\ Len(Put(seg, end, recs)) >= end + Len(recs)
          /\ \A i \in 1 .. Len(recs) : Put(seg, end, recs)[end + i] = recs[i]
          /\ Len(Put(seg, end, recs)) \in Nat /\ Len(recs) \in Nat
      BY <2>1, Written
    <3>3. \A i \in 1 .. Len(recs') : end' + i <= Len(seg') /\ seg'[end' + i] = recs'[i]
      BY <2>1, <2>3, <3>1, <3>2
    <3>4. QED
      BY <2>1, <2>3, <2>4, <3>1, <3>3 DEF AgreesInv
  <2>6. CASE WriteFails
    <3>1. step' = "rollback"
      BY <2>6 DEF WriteFails, Go
    <3>2. QED
      BY <2>1, <2>3, <2>4, <3>1 DEF AgreesInv
  <2>7. QED
    BY <1>11, <2>5, <2>6
<1>12. CASE SyncRecords
  <2>1. /\ step = "sync" /\ step' = "idle" /\ seg' = seg /\ view' = NoFile
        /\ loc' = Moved /\ acked' = Applied(acked, recs)
    BY <1>12 DEF SyncRecords, Go, FileSynced
  <2>2. seg \in Seq(Cell) /\ end \in Nat /\ recs \in Seq(Record) /\ Len(recs) \in Nat
    BY <2>1 DEF SegmentInv, DiskTypeOK, Image
  <2>3. ASSUME NEW c \in Chunk PROVE ReadAt(seg', loc'[c]) = acked'[c]
    <3>. DEFINE own == Own(recs, Len(recs), c)
                k   == Max(own)
    <3>1. /\ own = {} => Moved[c] = loc[c] /\ Applied(acked, recs)[c] = acked[c]
          /\ own # {} => /\ k \in 1 .. Len(recs) /\ recs[k] \in Record
                         /\ Moved[c] = IF recs[k].vector = NoVector THEN 0 ELSE end + k
                         /\ Applied(acked, recs)[c] = recs[k].vector
      BY <2>2, Published
    <3>. HIDE DEF own, k
    <3>2. CASE own = {}
      BY <2>1, <3>1, <3>2 DEF AgreesInv
    <3>3. CASE own # {}
      <4>1. end + k <= Len(seg) /\ seg[end + k] = recs[k] /\ k \in Nat /\ k >= 1
        BY <2>1, <3>1, <3>3 DEF AgreesInv
      <4>2. end + k \in 1 .. Len(seg) /\ end + k \in Nat
        BY <2>2, <4>1
      <4>3. ReadAt(seg, end + k) = recs[k].vector
        BY <2>2, <3>1, <3>3, <4>1, <4>2, Reads
      <4>4. QED
        BY <2>1, <3>1, <3>3, <4>3, Reads
    <3>4. QED
      BY <3>2, <3>3
  <2>4. QED
    BY <2>1, <2>3 DEF AgreesInv
<1>13. CASE SyncFails
  BY <1>13 DEF AgreesInv, SyncFails, Go
<1>14. CASE RollBack
  <2>1. /\ step = "rollback" /\ step' = "idle" /\ seg \in Seq(Cell) /\ end \in Nat
        /\ seg' \in {seg, Resized(seg, end)} /\ view' = NoFile /\ loc' = loc /\ acked' = acked
    BY <1>14 DEF RollBack, Go, SegmentInv, DiskTypeOK, Image
  <2>2. ASSUME NEW c \in Chunk PROVE ReadAt(seg', loc'[c]) = acked'[c]
    <3>1. loc[c] \in 0 .. end
      BY DEF DiskTypeOK
    <3>2. ReadAt(Resized(seg, end), loc[c]) = ReadAt(seg, loc[c])
      BY <2>1, <3>1, ReadsKept
    <3>3. QED
      BY <2>1, <3>2 DEF AgreesInv
  <2>3. QED
    BY <2>1, <2>2 DEF AgreesInv
<1>15. CASE OpenFails
  BY <1>15 DEF AgreesInv, OpenFails, Go
<1>16. CASE BeginSave
  <2>1. /\ step = "idle" /\ UNCHANGED <<seg, loc, acked>>
        /\ view' = IF view = NoFile THEN seg ELSE view
        /\ (step' = "rename" /\ Readable) \/ step' = "idle"
    BY <1>16 DEF BeginSave, Mapped
  <2>2. \A c \in Chunk : ReadAt(seg', loc'[c]) = acked'[c] /\ ReadAt(view', loc'[c]) = acked'[c]
    BY <2>1 DEF AgreesInv
  <2>3. Readable => \A c \in Chunk : loc[c] # 0 => ReadAt(view', loc[c]) # NoVector
    BY <2>1 DEF Readable, Mapped
  <2>4. QED
    BY <2>1, <2>2, <2>3 DEF AgreesInv
<1>17. CASE RenameSegment
  <2>1. step = "rename" /\ step' = "renamedir" /\ seg' = Compacted /\ acked' = acked
    BY <1>17 DEF RenameSegment, Go
  <2>2. /\ Whole(Compacted, Len(Compacted))
        /\ \A c \in Chunk : ReadAt(Compacted, Newest(Compacted, c)) = acked[c]
    BY <2>1, CompactedHolds
  <2>. DEFINE file == Compacted
  <2>. HIDE DEF file
  <2>3. seg' = file /\ Whole(file, Len(file)) /\ \A c \in Chunk : ReadAt(file, Newest(file, c)) = acked[c]
    BY <2>1, <2>2 DEF file
  <2>4. QED
    BY <2>1, <2>3 DEF AgreesInv
<1>18. CASE AdoptSegment
  <2>1. /\ step = "renamedir" /\ step' = "sidecar" /\ seg' = seg /\ view' = NoFile
        /\ loc' = Scanned(seg) /\ acked' = acked
    BY <1>18 DEF AdoptSegment, DirSynced, Go
  <2>2. \A c \in Chunk : ReadAt(seg', loc'[c]) = acked'[c]
    BY <2>1 DEF AgreesInv, Scanned
  <2>3. QED
    BY <2>1, <2>2 DEF AgreesInv
<1>19. CASE FinishSave
  BY <1>19 DEF AgreesInv, FinishSave, DirSynced, Go
<1>20. CASE SaveFails
  BY <1>20 DEF AgreesInv, SaveFails, Go, Fault, DirectoriesSync
<1>21. CASE MapForSearch
  BY <1>21 DEF AgreesInv, MapForSearch
<1>22. CASE Stop \/ Kill \/ PowerLoss
  BY <1>22 DEF AgreesInv, Stop, Kill, PowerLoss, MemoryLost
<1>23. CASE UNCHANGED dvars
  BY <1>23 DEF AgreesInv, dvars
<1>24. QED
  BY <1>1, <1>2, <1>3, <1>4, <1>5, <1>6, <1>7, <1>8, <1>9, <1>10, <1>11, <1>12, <1>13, <1>14,
     <1>15, <1>16, <1>17, <1>18, <1>19, <1>20, <1>21, <1>22, <1>23
     DEF DiskNext, StartUp, Mutate, Save

(* A search between operations reads for each chunk what the last completed *)
(* upsert or delete left, across compactions, failed and rolled back        *)
(* appends, kills and restarts, where directories can be synced.            *)
THEOREM SearchesAgree ==
  ASSUME DirectoriesSync
  PROVE  DiskSpec => []SearchSeesAcked
<1>. DEFINE Inv == DiskTypeOK /\ SegmentInv /\ AgreesInv
<1>1. DiskInit => Inv
  BY TypeInit, SegmentInit, AgreesInit
<1>2. Inv /\ [DiskNext]_dvars => Inv'
  BY TypeStep, SegmentStep, AgreesStep
<1>3. Inv => SearchSeesAcked
  <2>. SUFFICES ASSUME Inv, step = "idle", NEW c \in Chunk
                PROVE  ReadAt(Mapped, loc[c]) = acked[c]
    BY DEF SearchSeesAcked
  <2>1. QED
    BY DEF AgreesInv, Serving, Mapped
<1>4. QED
  BY <1>1, <1>2, <1>3, PTL DEF DiskSpec

-----------------------------------------------------------------------------
(* Identities *)

(* A vector that can be read was written, and a write or truncation adds    *)
(* none but the ones it is given.                                           *)
LEMMA NamedFiles ==
  ASSUME NEW name
  PROVE  /\ \A file \in {NoFile, <<>>, <<Header>>, <<HalfHeader>>} : NamedAs(file, name)
         /\ \A file \in Image : \A i : NamedAs(file, name) /\ ReadAt(file, i) # NoVector =>
              ReadAt(file, i).identity = name
         /\ \A file \in Seq(Cell), at \in Nat, cells \in Seq(Cell) :
              NamedAs(file, name) /\ NamedAs(cells, name) => NamedAs(Put(file, at, cells), name)
         /\ \A file \in Seq(Cell), n \in Nat :
              NamedAs(file, name) => NamedAs(Resized(file, n), name)
         /\ \A records \in Seq(Record) : \A l \in Landings(records) :
              NamedAs(records, name) => NamedAs(l, name)
<1>1. \A file \in {NoFile, <<>>, <<Header>>, <<HalfHeader>>} : NamedAs(file, name)
  <2>1. \A i \in 1 .. 1 : i = 1
    OBVIOUS
  <2>2. \A file \in {<<Header>>, <<HalfHeader>>} : \A i \in 1 .. Len(file) : file[i] \notin Record
    BY <2>1, NewFiles, Cells
  <2>3. \A i : i \notin 1 .. 0
    OBVIOUS
  <2>4. QED
    BY <2>2, <2>3, NewFiles DEF NamedAs
<1>2. \A file \in Image : \A i : NamedAs(file, name) /\ ReadAt(file, i) # NoVector =>
        ReadAt(file, i).identity = name
  BY DEF NamedAs, ReadAt
<1>3. \A file \in Seq(Cell), at \in Nat, cells \in Seq(Cell) :
        NamedAs(file, name) /\ NamedAs(cells, name) => NamedAs(Put(file, at, cells), name)
  <2>. SUFFICES ASSUME NEW file \in Seq(Cell), NEW at \in Nat, NEW cells \in Seq(Cell),
                       NamedAs(file, name), NamedAs(cells, name),
                       NEW i \in 1 .. Len(Put(file, at, cells)),
                       Put(file, at, cells)[i] \in Record, Put(file, at, cells)[i].vector # NoVector
                PROVE  Put(file, at, cells)[i].vector.identity = name
    BY DEF NamedAs
  <2>. DEFINE g == Put(file, at, cells)
  <2>1. g \in Seq(Cell) /\ file # NoFile /\ cells # NoFile
    BY Written, Cells
  <2>2. \A k \in DOMAIN g : \/ k \in 1 .. Len(file) /\ g[k] = file[k]
                            \/ k - at \in 1 .. Len(cells) /\ g[k] = cells[k - at]
                            \/ g[k] = Gap
    BY Written
  <2>3. i \in DOMAIN g /\ g[i] \in Record /\ g[i].vector # NoVector
    BY <2>1
  <2>. HIDE DEF g
  <2>4. g[i].vector.identity = name
    BY <2>1, <2>2, <2>3, Cells DEF NamedAs
  <2>5. QED
    BY <2>4 DEF g
<1>4. \A file \in Seq(Cell), n \in Nat : NamedAs(file, name) => NamedAs(Resized(file, n), name)
  <2>. SUFFICES ASSUME NEW file \in Seq(Cell), NEW n \in Nat, NamedAs(file, name),
                       NEW i \in 1 .. Len(Resized(file, n)),
                       Resized(file, n)[i] \in Record, Resized(file, n)[i].vector # NoVector
                PROVE  Resized(file, n)[i].vector.identity = name
    BY DEF NamedAs
  <2>. DEFINE g == Resized(file, n)
  <2>1. g \in Seq(Cell) /\ file # NoFile
    BY Truncated, Cells
  <2>2. \A k \in DOMAIN g : (k \in 1 .. Len(file) /\ g[k] = file[k]) \/ g[k] = Gap
    BY Truncated
  <2>3. i \in DOMAIN g /\ g[i] \in Record /\ g[i].vector # NoVector
    BY <2>1
  <2>. HIDE DEF g
  <2>4. g[i].vector.identity = name
    BY <2>1, <2>2, <2>3, Cells DEF NamedAs
  <2>5. QED
    BY <2>4 DEF g
<1>5. \A records \in Seq(Record) : \A l \in Landings(records) :
        NamedAs(records, name) => NamedAs(l, name)
  <2>. SUFFICES ASSUME NEW records \in Seq(Record), NEW l \in Landings(records),
                       NamedAs(records, name), NEW i \in 1 .. Len(l),
                       l[i] \in Record, l[i].vector # NoVector
                PROVE  l[i].vector.identity = name
    BY DEF NamedAs
  <2>1. PICK n \in 0 .. Len(records) :
          /\ Len(l) \in {n, n + 1}
          /\ \A k \in 1 .. n : l[k] = records[k]
          /\ Len(l) = n + 1 => l[n + 1] = Torn
    BY Landed
  <2>2. i # n + 1
    BY <2>1, Cells
  <2>3. i \in 1 .. n /\ i \in 1 .. Len(records)
    BY <2>1, <2>2
  <2>4. records \in Seq(Cell) /\ records # NoFile
    <3>1. records \in Seq(Cell)
      BY Cells
    <3>2. QED
      BY <3>1, Cells
  <2>5. QED
    BY <2>1, <2>3, <2>4 DEF NamedAs
<1>6. QED
  BY <1>1, <1>2, <1>3, <1>4, <1>5

(* Initially there are no vectors.                                          *)
LEMMA NamedInit == DiskInit => NamedInv
BY NamedFiles
   DEF DiskInit, NamedInv, Images, Nothing, Starting, Creating, Appending, Saving, Serving

(* Every step keeps the vectors and the sidecar in agreement.               *)
LEMMA NamedStep ==
  ASSUME DirectoriesSync, DiskTypeOK, SegmentInv, AgreesInv, NamedInv, [DiskNext]_dvars
  PROVE  NamedInv'
<1>. USE DEF files, sides, memory, ghosts, Starting, Creating, Appending, Saving, Serving
<1>1. ASSUME NEW wanted \in Identity, Load(wanted) PROVE NamedInv'
  <2>. DEFINE kept == IF HasHeader(seg) THEN SubSeq(seg, 1, ScanEnd(seg)) ELSE seg
  <2>1. /\ step = "down" /\ seg' = kept /\ disk' = disk \cup {kept} /\ stale' = stale
        /\ acked' = Recovered(seg) /\ side' = side /\ sideDisk' = sideDisk /\ recs' = recs
        /\ identity' = wanted
        /\ (step' = "idle" /\ side = wanted) \/ step' = "truncate"
    BY <1>1 DEF Load, Changed
  <2>2. seg \in Image /\ NamedAs(seg, side)
    BY DEF DiskTypeOK, NamedInv, Images
  <2>3. NamedAs(kept, side)
    <3>1. CASE HasHeader(seg)
      <4>1. /\ kept \in Seq(Cell) /\ Len(kept) = ScanEnd(seg)
            /\ \A i \in 1 .. ScanEnd(seg) : i \in 1 .. Len(seg) /\ kept[i] = seg[i]
        BY <2>2, <3>1, TornTailDropped
      <4>2. seg # NoFile
        BY <3>1 DEF HasHeader
      <4>. HIDE DEF kept
      <4>3. QED
        BY <2>2, <4>1, <4>2 DEF NamedAs
    <3>2. CASE ~HasHeader(seg)
      BY <2>2, <3>2
    <3>3. QED
      BY <3>1, <3>2
  <2>. HIDE DEF kept
  <2>4. \A file \in Images' : NamedAs(file, side')
    BY <2>1, <2>3 DEF NamedInv, Images
  <2>5. \A c \in Chunk : acked'[c] # NoVector => acked'[c].identity = side'
    BY <2>1, <2>2, NamedFiles DEF Recovered
  <2>6. QED
    BY <2>1, <2>4, <2>5 DEF NamedInv
<1>2. CASE Truncate
  <2>1. /\ step = "truncate" /\ step' = "reheader" /\ seg' = <<>>
        /\ disk' \subseteq disk \cup {<<>>} /\ stale' \subseteq stale \cup {NoFile}
        /\ acked' = Nothing /\ UNCHANGED <<side, sideDisk>>
    BY <1>2 DEF Truncate, Go, Opened, Changed
  <2>2. \A file \in Images' : NamedAs(file, side')
    BY <2>1, NamedFiles DEF NamedInv, Images
  <2>3. QED
    BY <2>1, <2>2 DEF NamedInv, Nothing
<1>3. CASE \/ WriteHalf("reheader", "reheader2") \/ WriteRest("reheader2", "resync")
           \/ WriteHalf("header", "header2") \/ WriteRest("header2", "headerdir")
  <2>1. /\ seg' \in {<<Header>>, <<HalfHeader>>} /\ disk' = disk \cup {seg'} /\ stale' = stale
        /\ UNCHANGED <<side, sideDisk, acked, recs, identity>>
        /\ \/ step \in Starting /\ step' \in {"reheader2", "resync"}
           \/ step \in Creating /\ step' \in Creating
        /\ step # "publishdir"
    BY <1>3 DEF WriteHalf, WriteRest, Go, Changed
  <2>2. \A file \in Images' : NamedAs(file, side')
    BY <2>1, NamedFiles DEF NamedInv, Images
  <2>3. QED
    BY <2>1, <2>2 DEF NamedInv
<1>4. CASE SyncReset
  BY <1>4 DEF NamedInv, Images, SyncReset, FileSynced, Go
<1>5. CASE RenameSidecar("publish", "publishdir")
  <2>1. /\ step = "publish" /\ step' = "publishdir" /\ side' = identity
        /\ UNCHANGED <<seg, disk, stale, acked, identity, recs>>
    BY <1>5 DEF RenameSidecar, Go
  <2>2. seg = <<Header>> /\ disk = {seg} /\ stale \subseteq {NoFile}
    BY <2>1 DEF SegmentInv
  <2>3. \A file \in Images' : NamedAs(file, side')
    BY <2>1, <2>2, NamedFiles DEF Images
  <2>4. \A c \in Chunk : acked'[c] = NoVector
    BY <2>1 DEF AgreesInv, Nothing
  <2>5. QED
    BY <2>1, <2>3, <2>4 DEF NamedInv
<1>6. CASE RenameSidecar("sidecar", "sidecardir")
  <2>1. /\ step = "sidecar" /\ step' = "sidecardir" /\ side' = identity
        /\ sideDisk' = sideDisk \cup {identity}
        /\ UNCHANGED <<seg, disk, stale, acked, identity, recs>>
    BY <1>6 DEF RenameSidecar, Go
  <2>2. side = identity /\ sideDisk = {side}
    BY <2>1 DEF NamedInv
  <2>3. QED
    BY <2>1, <2>2 DEF NamedInv, Images
<1>7. CASE SyncPublished
  BY <1>7 DEF NamedInv, Images, SyncPublished, DirSynced, Go
<1>8. CASE BeginAppend
  <2>1. /\ step = "idle" /\ step' \in {"header", "write"}
        /\ Images' \subseteq Images \cup {<<>>, NoFile}
        /\ UNCHANGED <<side, sideDisk, acked, identity>>
    BY <1>8 DEF BeginAppend, Opened, Go, Images
  <2>2. \A file \in Images' : NamedAs(file, side')
    BY <2>1, NamedFiles DEF NamedInv
  <2>3. recs' \in Upserts \cup Tombstones
    BY <1>8 DEF BeginAppend
  <2>4. \A i \in 1 .. Len(recs') : recs'[i].vector # NoVector => recs'[i].vector.identity = identity
    BY <2>3, RecordsToAppend
  <2>5. QED
    BY <2>1, <2>2, <2>4 DEF NamedInv
<1>9. CASE SyncCreated
  BY <1>9 DEF NamedInv, Images, SyncCreated, DirSynced, Go
<1>10. CASE WriteRecords \/ WriteFails
  <2>1. step = "write" /\ seg \in Seq(Cell) /\ end \in Nat /\ recs \in Seq(Record) /\ recs \in Seq(Cell)
    BY <1>10, Cells DEF WriteRecords, WriteFails, Go, SegmentInv, DiskTypeOK, Image
  <2>2. NamedAs(seg, side) /\ NamedAs(recs, side)
    BY <2>1 DEF NamedInv, NamedAs, Images
  <2>3. NamedAs(Put(seg, end, recs), side)
    BY <2>1, <2>2, NamedFiles
  <2>4. \A l \in Landings(recs) : NamedAs(Put(seg, end, l), side)
    BY <2>1, <2>2, NamedFiles, Landed
  <2>5. /\ UNCHANGED <<side, sideDisk, acked, identity, recs>> /\ step' \in {"sync", "rollback"}
        /\ \A file \in Images' :
             \/ file \in Images \/ file = Put(seg, end, recs)
             \/ \E l \in Landings(recs) : file = Put(seg, end, l)
    BY <1>10 DEF WriteRecords, WriteFails, Go, Images
  <2>6. \A file \in Images' : NamedAs(file, side')
    BY <2>3, <2>4, <2>5 DEF NamedInv
  <2>7. QED
    BY <2>1, <2>5, <2>6 DEF NamedInv
<1>11. CASE SyncRecords
  <2>1. /\ step = "sync" /\ step' = "idle" /\ UNCHANGED <<seg, stale, side, sideDisk, identity>>
        /\ disk' = {seg} /\ acked' = Applied(acked, recs)
    BY <1>11 DEF SyncRecords, FileSynced, Go
  <2>2. recs \in Seq(Record)
    BY DEF DiskTypeOK
  <2>3. ASSUME NEW c \in Chunk, acked'[c] # NoVector PROVE acked'[c].identity = side'
    <3>. DEFINE own == Own(recs, Len(recs), c)
                k   == Max(own)
    <3>1. /\ own = {} => Applied(acked, recs)[c] = acked[c]
          /\ own # {} => k \in 1 .. Len(recs) /\ Applied(acked, recs)[c] = recs[k].vector
      BY <2>2, Published
    <3>. HIDE DEF own, k
    <3>2. QED
      BY <2>1, <2>3, <3>1 DEF NamedInv
  <2>4. QED
    BY <2>1, <2>3 DEF NamedInv, Images
<1>12. CASE SyncFails
  BY <1>12 DEF NamedInv, Images, SyncFails, Go
<1>13. CASE RollBack
  <2>1. /\ step = "rollback" /\ step' = "idle" /\ seg \in Seq(Cell) /\ end \in Nat
        /\ UNCHANGED <<side, sideDisk, acked, identity>>
        /\ Images' \subseteq Images \cup {Resized(seg, end)}
    BY <1>13 DEF RollBack, Go, SegmentInv, DiskTypeOK, Image, Images
  <2>2. NamedAs(Resized(seg, end), side)
    BY <2>1, NamedFiles DEF NamedInv, Images
  <2>3. QED
    BY <2>1, <2>2 DEF NamedInv
<1>14. CASE OpenFails
  BY <1>14 DEF NamedInv, Images, OpenFails, Go
<1>15. CASE BeginSave
  BY <1>15 DEF NamedInv, Images, BeginSave
<1>16. CASE RenameSegment
  <2>1. /\ step = "rename" /\ step' = "renamedir" /\ UNCHANGED <<side, sideDisk, acked, identity>>
        /\ Images' \subseteq Images \cup {Compacted}
    BY <1>16 DEF RenameSegment, Go, Images
  <2>2. NamedAs(Compacted, side)
    <3>. DEFINE file == Compacted
    <3>1. /\ file \in Seq(Cell) /\ Len(file) = 1 + Len(LiveIds) /\ file[1] = Header
          /\ \A i \in 1 .. Len(LiveIds) :
               file[1 + i] = [chunk |-> LiveIds[i], vector |-> ReadAt(view, loc[LiveIds[i]])]
      BY CompactedFile
    <3>2. LiveIds \in Seq({c \in Chunk : loc[c] # 0}) /\ Len(LiveIds) \in Nat
      BY Live
    <3>3. \A i \in 1 .. Len(LiveIds) : LiveIds[i] \in Chunk
      BY <3>2
    <3>. HIDE DEF file
    <3>4. ASSUME NEW i \in 1 .. Len(file), file[i] \in Record, file[i].vector # NoVector
          PROVE  file[i].vector.identity = side
      <4>1. i # 1
        BY <3>1, <3>4, Cells
      <4>. DEFINE k == i - 1
      <4>2. k \in 1 .. Len(LiveIds) /\ 1 + k = i
        BY <3>1, <3>2, <4>1
      <4>. HIDE DEF k
      <4>3. file[i].vector = ReadAt(view, loc[LiveIds[k]])
        <5>1. file[1 + k] = [chunk |-> LiveIds[k], vector |-> ReadAt(view, loc[LiveIds[k]])]
          BY <3>1, <4>2
        <5>2. file[i] = [chunk |-> LiveIds[k], vector |-> ReadAt(view, loc[LiveIds[k]])]
          BY <4>2, <5>1
        <5>3. QED
          BY <5>2
      <4>4. file[i].vector = acked[LiveIds[k]] /\ LiveIds[k] \in Chunk
        BY <2>1, <3>3, <4>2, <4>3 DEF AgreesInv
      <4>5. QED
        BY <3>4, <4>4 DEF NamedInv
    <3>5. QED
      BY <3>4 DEF NamedAs, file
  <2>3. QED
    BY <2>1, <2>2 DEF NamedInv
<1>17. CASE AdoptSegment
  BY <1>17 DEF NamedInv, Images, AdoptSegment, DirSynced, Go
<1>18. CASE FinishSave
  BY <1>18 DEF NamedInv, Images, FinishSave, DirSynced, Go
<1>19. CASE SaveFails
  BY <1>19 DEF NamedInv, Images, SaveFails, Go, Fault, DirectoriesSync
<1>20. CASE MapForSearch
  BY <1>20 DEF NamedInv, Images, MapForSearch
<1>21. CASE Stop
  BY <1>21 DEF NamedInv, Images, Stop, MemoryLost
<1>22. CASE Kill
  BY <1>22 DEF NamedInv, Images, Kill, MemoryLost
<1>23. CASE PowerLoss
  <2>1. /\ step' = "down" /\ seg' \in disk \cup stale /\ disk' = {seg'} /\ stale' = {}
        /\ side' \in sideDisk /\ sideDisk' = {side'} /\ acked' = acked
    BY <1>23 DEF PowerLoss, MemoryLost
  <2>2. CASE step # "publishdir"
    <3>1. side' = side /\ Images' \subseteq Images
      BY <2>1, <2>2 DEF NamedInv, Images
    <3>2. QED
      BY <2>1, <3>1 DEF NamedInv
  <2>3. CASE step = "publishdir"
    <3>1. Images' \subseteq {NoFile, <<Header>>}
      BY <2>1, <2>3 DEF SegmentInv, Images
    <3>2. \A file \in Images' : NamedAs(file, side')
      BY <3>1, NamedFiles
    <3>3. \A c \in Chunk : acked'[c] = NoVector
      BY <2>1, <2>3 DEF AgreesInv, Nothing
    <3>4. QED
      BY <2>1, <3>2, <3>3 DEF NamedInv
  <2>4. QED
    BY <2>2, <2>3
<1>24. CASE UNCHANGED dvars
  BY <1>24 DEF NamedInv, Images, dvars
<1>25. QED
  BY <1>1, <1>2, <1>3, <1>4, <1>5, <1>6, <1>7, <1>8, <1>9, <1>10, <1>11, <1>12, <1>13, <1>14,
     <1>15, <1>16, <1>17, <1>18, <1>19, <1>20, <1>21, <1>22, <1>23, <1>24
     DEF DiskNext, StartUp, Mutate, Save

(* Vectors are never read back under another identity than their own, and   *)
(* no start-up after a crash discards acknowledged vectors for their        *)
(* identity, where directories can be synced.                               *)
THEOREM IdentityKept ==
  ASSUME DirectoriesSync
  PROVE  DiskSpec => []IdentityFollowsVectors
<1>. DEFINE Inv == DiskTypeOK /\ SegmentInv /\ AgreesInv /\ NamedInv
<1>1. DiskInit => Inv
  BY TypeInit, SegmentInit, AgreesInit, NamedInit
<1>2. Inv /\ [DiskNext]_dvars => Inv'
  BY TypeStep, SegmentStep, AgreesStep, NamedStep
<1>3. Inv => IdentityFollowsVectors
  <2>. SUFFICES ASSUME Inv, NEW name \in {side} \cup sideDisk, NEW c \in Chunk
                PROVE  /\ \A file \in Images :
                            Recovered(file)[c] # NoVector => Recovered(file)[c].identity = name
                       /\ acked[c] # NoVector => name = acked[c].identity
    BY DEF IdentityFollowsVectors
  <2>1. \A file \in Images : NamedAs(file, name) /\ file \in Image
    <3>1. Images \subseteq Image
      BY DEF DiskTypeOK, Images
    <3>2. CASE step # "publishdir"
      BY <3>1, <3>2 DEF NamedInv
    <3>3. CASE step = "publishdir"
      <4>1. Images \subseteq {NoFile, <<Header>>}
        BY <3>3 DEF SegmentInv, Images
      <4>2. QED
        BY <3>1, <4>1, NamedFiles
    <3>4. QED
      BY <3>2, <3>3
  <2>2. acked[c] # NoVector => name = acked[c].identity
    <3>1. CASE step # "publishdir"
      BY <3>1 DEF NamedInv
    <3>2. CASE step = "publishdir"
      BY <3>2 DEF AgreesInv, Starting, Nothing
    <3>3. QED
      BY <3>1, <3>2
  <2>3. \A file \in Images :
          Recovered(file)[c] # NoVector => Recovered(file)[c].identity = name
    BY <2>1, NamedFiles DEF Recovered
  <2>4. QED
    BY <2>2, <2>3
<1>4. QED
  BY <1>1, <1>2, <1>3, PTL DEF DiskSpec

-----------------------------------------------------------------------------
(* Crashes *)

(* Files that agree up to a place are whole, and hold the same, up to it.   *)
LEMMA SamePrefix ==
  ASSUME NEW file \in Seq(Cell), NEW g \in Seq(Cell), NEW n \in Nat, n <= Len(g),
         \A i \in 1 .. n : g[i] = file[i], Whole(file, n)
  PROVE  /\ Whole(g, n) /\ HasHeader(g) /\ HasHeader(file)
         /\ \A c, i : Points(file, n, c, i) => Points(g, n, c, i)
<1>1. n \in 1 .. Len(file) /\ file[1] = Header /\ \A i \in 2 .. n : file[i] \in Record
  BY DEF Whole
<1>2. Len(file) \in Nat /\ Len(g) \in Nat /\ n \in 1 .. Len(g) /\ 1 \in 1 .. n
        /\ \A i \in 2 .. n : i \in 1 .. n
  BY <1>1
<1>3. Whole(g, n)
  BY <1>1, <1>2 DEF Whole
<1>4. HasHeader(g) /\ HasHeader(file)
  <2>1. g # <<>> /\ file # <<>> /\ g # NoFile /\ file # NoFile
    BY <1>1, <1>2, Cells
  <2>2. QED
    BY <1>1, <1>2, <2>1 DEF HasHeader
<1>5. ASSUME NEW c, NEW i, Points(file, n, c, i) PROVE Points(g, n, c, i)
  <2>1. \A k \in 2 .. n : g[k] = file[k]
    BY <1>2
  <2>2. \A k \in 2 .. n : \A j \in (k + 1) .. n : g[j] = file[j]
    BY <1>2
  <2>3. QED
    BY <1>5, <2>1, <2>2 DEF Points
<1>6. QED
  BY <1>3, <1>4, <1>5

(* A whole write is one of the ways a write may arrive.                     *)
LEMMA AllLands ==
  ASSUME NEW cells \in Seq(Record)
  PROVE  cells \in Landings(cells)
<1>1. Len(cells) \in 0 .. Len(cells) /\ SubSeq(cells, 1, Len(cells)) = cells
  OBVIOUS
<1>2. QED
  BY <1>1 DEF Landings

(* Initially there is nothing to lose.                                      *)
LEMMA DurableInit == DiskInit => DurableInv
BY NewFiles
   DEF DiskInit, DurableInv, AckedIsDurable, Images, Nothing, Starting, Creating, Appending, Saving, Serving

(* Every step keeps acknowledged vectors safe from a crash.                 *)
LEMMA DurableStep ==
  ASSUME DirectoriesSync, DiskTypeOK, SegmentInv, AgreesInv, DurableInv,
         [DiskNext]_dvars, AgreesInv', DiskTypeOK'
  PROVE  DurableInv'
<1>. USE DEF files, sides, memory, ghosts, Starting, Creating, Appending, Saving, Serving
<1>. DEFINE Safe(file) == \A c \in Chunk : Recovered(file)[c] \in {acked[c]} \cup limbo[c]
<1>a. ~spoiled => \A file \in Images : Safe(file)
  BY DEF DurableInv, AckedIsDurable
<1>b. Images \subseteq Image
  BY DEF DiskTypeOK, Images
<1>1. ASSUME NEW wanted \in Identity, Load(wanted) PROVE DurableInv'
  <2>. DEFINE n    == ScanEnd(seg)
              kept == IF HasHeader(seg) THEN SubSeq(seg, 1, n) ELSE seg
  <2>. SUFFICES ASSUME ~spoiled' PROVE DurableInv'
    BY DEF DurableInv
  <2>1. /\ step = "down" /\ seg' = kept /\ disk' = disk \cup {kept} /\ stale' = stale
        /\ acked' = Recovered(seg) /\ ~spoiled
        /\ limbo' = [c \in Chunk |-> IF acked'[c] = acked[c] THEN limbo[c]
                                                             ELSE limbo[c] \cup {acked[c]}]
        /\ HasHeader(seg) \/ seg \in {NoFile, <<>>}
        /\ \/ step' = "idle" /\ loc' = Scanned(seg) /\ end' = n
           \/ step' = "truncate"
    BY <1>1 DEF Load, Changed
  <2>2. seg \in Image
    BY DEF DiskTypeOK
  <2>3. HasHeader(seg) =>
          /\ Len(kept) = n /\ n # 0 /\ Whole(kept, n)
          /\ \A c \in Chunk : /\ Points(kept, n, c, Newest(seg, c))
                              /\ Recovered(kept)[c] = Recovered(seg)[c]
    BY <2>2, TornTailDropped
  <2>4. ~HasHeader(seg) => n = 0 /\ kept = seg
    BY DEF ScanEnd
  <2>5. \A c \in Chunk : Recovered(kept)[c] = acked'[c]
    BY <2>1, <2>3, <2>4
  <2>6. \A c \in Chunk : {acked[c]} \cup limbo[c] \subseteq {acked'[c]} \cup limbo'[c]
    BY <2>1
  <2>7. AckedIsDurable'
    <3>. SUFFICES ASSUME NEW file \in Images', NEW c \in Chunk
                  PROVE  Recovered(file)[c] \in {acked'[c]} \cup limbo'[c]
      BY DEF AckedIsDurable
    <3>1. CASE file = kept
      BY <2>5, <3>1
    <3>2. CASE file \in Images
      BY <1>a, <2>1, <2>6, <3>2
    <3>3. QED
      BY <2>1, <3>1, <3>2 DEF Images
  <2>8. HasHeader(seg') => stale' = {}
    BY <2>1, <2>4 DEF DurableInv
  <2>9. CASE step' = "idle"
    <3>1. step' = "idle" /\ loc' = Scanned(seg) /\ end' = n
      BY <2>1, <2>9
    <3>2. \A c \in Chunk : loc'[c] = Newest(seg, c)
      BY <3>1 DEF Scanned
    <3>. HIDE DEF n, kept
    <3>3. end' # 0 => /\ Whole(seg', end') /\ Len(seg') = end'
                      /\ \A c \in Chunk : Points(seg', end', c, loc'[c])
      BY <2>1, <2>3, <2>4, <3>1, <3>2
    <3>4. end' = 0 => seg' \in {NoFile, <<>>}
      BY <2>1, <2>3, <2>4, <3>1
    <3>5. QED
      BY <2>7, <2>8, <3>1, <3>3, <3>4 DEF DurableInv
  <2>10. CASE step' = "truncate"
    BY <2>7, <2>8, <2>10 DEF DurableInv
  <2>11. QED
    BY <2>1, <2>9, <2>10
<1>2. CASE Truncate
  <2>1. /\ step' = "reheader"
        /\ disk' \subseteq disk \cup {<<>>} /\ stale' \subseteq stale \cup {NoFile} /\ seg' = <<>>
        /\ acked' = Nothing /\ limbo' = [c \in Chunk |-> limbo[c] \cup {acked[c]}]
        /\ spoiled' = spoiled
    BY <1>2 DEF Truncate, Go, Opened, Changed
  <2>2. AckedIsDurable'
    <3>. SUFFICES ASSUME ~spoiled', NEW file \in Images', NEW c \in Chunk
                  PROVE  Recovered(file)[c] \in {acked'[c]} \cup limbo'[c]
      BY DEF AckedIsDurable
    <3>1. CASE file \in {NoFile, <<>>}
      BY <2>1, <3>1, NewFiles DEF Nothing
    <3>2. CASE file \in Images
      BY <1>a, <2>1, <3>2
    <3>3. QED
      BY <2>1, <3>1, <3>2 DEF Images
  <2>3. QED
    BY <2>1, <2>2 DEF DurableInv
<1>3. CASE \/ WriteHalf("reheader", "reheader2") \/ WriteRest("reheader2", "resync")
           \/ WriteHalf("header", "header2") \/ WriteRest("header2", "headerdir")
  <2>1. /\ seg' \in {<<Header>>, <<HalfHeader>>} /\ disk' = disk \cup {seg'} /\ stale' = stale
        /\ UNCHANGED <<acked, limbo, spoiled>>
        /\ \/ step \in Starting \ {"truncate"} /\ step' \in {"reheader2", "resync"}
           \/ step \in Creating /\ step' \in Creating
    BY <1>3 DEF WriteHalf, WriteRest, Go, Changed
  <2>2. \A c \in Chunk : acked[c] = NoVector
    <3>1. CASE step \in Creating
      BY <3>1, NoneLocated DEF SegmentInv
    <3>2. CASE step \notin Creating
      BY <2>1, <3>2 DEF AgreesInv, Nothing
    <3>3. QED
      BY <3>1, <3>2
  <2>3. AckedIsDurable'
    <3>. SUFFICES ASSUME ~spoiled', NEW file \in Images', NEW c \in Chunk
                  PROVE  Recovered(file)[c] \in {acked'[c]} \cup limbo'[c]
      BY DEF AckedIsDurable
    <3>1. CASE file \in {<<Header>>, <<HalfHeader>>}
      BY <2>1, <2>2, <3>1, NewFiles
    <3>2. CASE file \in Images
      BY <1>a, <2>1, <3>2
    <3>3. QED
      BY <2>1, <3>1, <3>2 DEF Images
  <2>4. QED
    BY <2>1, <2>3 DEF DurableInv
<1>4. CASE SyncReset
  <2>1. /\ step = "resync" /\ step' = "publish" /\ seg' = seg /\ disk' = {seg} /\ stale' = stale
        /\ end' = 1 /\ loc' = loc /\ acked' = acked
    BY <1>4 DEF SyncReset, Go, FileSynced
  <2>2. seg = <<Header>> /\ stale \subseteq {NoFile}
    BY <2>1 DEF SegmentInv
  <2>3. \A c \in Chunk : loc[c] = 0 /\ acked[c] = NoVector
    BY <2>1 DEF AgreesInv, Nowhere, Nothing
  <2>4. \A file \in Images', c \in Chunk : Recovered(file)[c] = acked'[c]
    <3>1. Images' \subseteq {NoFile, <<Header>>}
      BY <2>1, <2>2 DEF Images
    <3>2. QED
      BY <2>1, <2>3, <3>1, NewFiles
  <2>5. Whole(seg', end') /\ Len(seg') = end' /\ \A c \in Chunk : Points(seg', end', c, loc'[c])
    BY <2>1, <2>2, <2>3, NewFiles
  <2>6. QED
    BY <2>1, <2>4, <2>5 DEF DurableInv, AckedIsDurable
<1>5. CASE RenameSidecar("publish", "publishdir") \/ RenameSidecar("sidecar", "sidecardir")
  BY <1>5 DEF RenameSidecar, Go, DurableInv, AckedIsDurable, Images
<1>6. CASE SyncPublished
  <2>1. /\ step = "publishdir" /\ step' = "idle" /\ UNCHANGED <<seg, disk, loc, end, acked, limbo, spoiled>>
        /\ stale' = {} /\ end = 1
    BY <1>6 DEF SyncPublished, DirSynced, Go, SegmentInv
  <2>2. AckedIsDurable'
    BY <1>a, <2>1 DEF AckedIsDurable, Images
  <2>3. QED
    BY <2>1, <2>2 DEF DurableInv
<1>7. CASE BeginAppend
  <2>. SUFFICES ASSUME ~spoiled' PROVE DurableInv'
    BY DEF DurableInv
  <2>1. /\ step = "idle" /\ ~spoiled /\ UNCHANGED <<loc, acked, limbo>>
        /\ seg # NoFile => UNCHANGED <<seg, disk, stale>>
        /\ seg = NoFile => seg' = <<>> /\ disk' = {<<>>} /\ stale' = stale \cup {NoFile}
    BY <1>7 DEF BeginAppend, Opened, Go
  <2>2. seg = NoFile => end = 0 /\ \A c \in Chunk : acked[c] = NoVector
    BY <2>1, NoneLocated DEF SegmentInv
  <2>3. AckedIsDurable'
    <3>. SUFFICES ASSUME NEW file \in Images', NEW c \in Chunk
                  PROVE  Recovered(file)[c] \in {acked'[c]} \cup limbo'[c]
      BY DEF AckedIsDurable
    <3>1. CASE seg = NoFile /\ file \in {NoFile, <<>>}
      BY <2>1, <2>2, <3>1, NewFiles
    <3>2. CASE file \in Images
      BY <1>a, <2>1, <3>2
    <3>3. QED
      BY <2>1, <3>1, <3>2 DEF Images
  <2>4. CASE end = 0 /\ seg \in {NoFile, <<>>}
    <3>1. step' = "header"
      BY <1>7, <2>4 DEF BeginAppend, Go
    <3>2. QED
      BY <2>3, <3>1 DEF DurableInv
  <2>5. CASE ~(end = 0 /\ seg \in {NoFile, <<>>})
    <3>1. end # 0
      BY <2>1, <2>5 DEF DurableInv
    <3>2. seg # NoFile
      BY <2>2, <3>1
    <3>3. step' = "write" /\ end' = end
      BY <1>7, <2>5, <3>1 DEF BeginAppend, Go
    <3>4. /\ Whole(seg, end) /\ Len(seg) = end
          /\ \A c \in Chunk : Points(seg, end, c, loc[c])
          /\ HasHeader(seg) => stale = {}
      BY <2>1, <3>1 DEF DurableInv
    <3>5. QED
      BY <2>1, <2>3, <3>2, <3>3, <3>4 DEF DurableInv
  <2>6. QED
    BY <2>4, <2>5
<1>8. CASE SyncCreated
  <2>1. /\ step = "headerdir" /\ step' = "write" /\ UNCHANGED <<seg, disk, loc, acked, limbo, spoiled>>
        /\ stale' = {} /\ end' = 1
    BY <1>8 DEF SyncCreated, DirSynced, Go
  <2>2. seg = <<Header>> /\ \A c \in Chunk : loc[c] = 0
    BY <2>1, NoneLocated DEF SegmentInv
  <2>3. AckedIsDurable'
    BY <1>a, <2>1 DEF AckedIsDurable, Images
  <2>4. Whole(seg', end') /\ Len(seg') = end' /\ \A c \in Chunk : Points(seg', end', c, loc'[c])
    BY <2>1, <2>2, NewFiles
  <2>5. QED
    BY <2>1, <2>3, <2>4 DEF DurableInv
<1>9. CASE WriteRecords \/ WriteFails
  <2>. SUFFICES ASSUME ~spoiled' PROVE DurableInv'
    BY DEF DurableInv
  <2>1. /\ step = "write" /\ seg \in Seq(Cell) /\ end \in Nat /\ recs \in Seq(Record)
        /\ end # 0 /\ ~spoiled
    BY <1>9 DEF WriteRecords, WriteFails, Go, SegmentInv, DiskTypeOK, Image
  <2>2. /\ Whole(seg, end) /\ Len(seg) = end
        /\ \A c \in Chunk : Points(seg, end, c, loc[c])
        /\ HasHeader(seg) => stale = {}
    BY <2>1 DEF DurableInv
  <2>3. /\ UNCHANGED <<loc, end, recs, acked, stale>> /\ limbo' = InLimbo
        /\ disk' = disk \cup {Put(seg, end, l) : l \in Landings(recs)}
        /\ \E l \in Landings(recs) : seg' = Put(seg, end, l)
        /\ (step' = "sync" /\ seg' = Put(seg, end, recs)) \/ step' = "rollback"
    BY <1>9, <2>1, AllLands DEF WriteRecords, WriteFails, Go
  <2>4. AckedIsDurable'
    <3>. SUFFICES ASSUME NEW file \in Images', NEW c \in Chunk
                  PROVE  Recovered(file)[c] \in {acked'[c]} \cup limbo'[c]
      BY DEF AckedIsDurable
    <3>1. /\ limbo[c] \subseteq limbo'[c] /\ acked'[c] = acked[c]
          /\ \A k \in DOMAIN recs : recs[k].chunk = c => recs[k].vector \in limbo'[c]
      BY <2>3 DEF InLimbo
    <3>2. CASE file \in Images
      BY <1>a, <2>1, <3>1, <3>2
    <3>3. CASE \E l \in Landings(recs) : file = Put(seg, end, l)
      <4>1. PICK l \in Landings(recs) : file = Put(seg, end, l)
        BY <3>3
      <4>2. \/ Recovered(file)[c] = Recovered(seg)[c]
            \/ \E k \in DOMAIN recs : recs[k].chunk = c /\ Recovered(file)[c] = recs[k].vector
        BY <2>1, <2>2, <4>1, AppendRecovers
      <4>3. Recovered(seg)[c] \in {acked[c]} \cup limbo[c]
        BY <1>a, <2>1 DEF Images
      <4>4. QED
        BY <3>1, <4>2, <4>3
    <3>4. QED
      BY <2>3, <3>2, <3>3 DEF Images
  <2>5. PICK l \in Landings(recs) : seg' = Put(seg, end, l)
    BY <2>3
  <2>6. /\ seg' \in Seq(Cell) /\ end <= Len(seg')
        /\ \A i \in 1 .. end : seg'[i] = seg[i]
    <3>1. l \in Seq(Cell) /\ Len(l) \in Nat
      BY <2>1, Landed
    <3>2. /\ Put(seg, end, l) \in Seq(Cell) /\ Len(Put(seg, end, l)) = end + Len(l)
          /\ \A i \in 1 .. end : Put(seg, end, l)[i] = IF i <= Len(seg) THEN seg[i] ELSE Gap
      BY <2>1, <2>2, <3>1, Written
    <3>3. \A i \in 1 .. end : i <= Len(seg)
      BY <2>1, <2>2
    <3>. DEFINE g == Put(seg, end, l)
    <3>. HIDE DEF g
    <3>4. /\ g \in Seq(Cell) /\ Len(g) = end + Len(l) /\ \A i \in 1 .. end : g[i] = seg[i]
      BY <3>2, <3>3 DEF g
    <3>5. seg' = g
      BY <2>5 DEF g
    <3>6. QED
      BY <2>1, <3>1, <3>4, <3>5
  <2>7. /\ Whole(seg', end) /\ HasHeader(seg)
        /\ \A c \in Chunk : Points(seg', end, c, loc[c])
    BY <2>1, <2>2, <2>6, SamePrefix
  <2>8. step' = "sync" => Len(seg') = end + Len(recs)
    <3>1. recs \in Seq(Cell)
      BY <2>1, Cells
    <3>2. Len(Put(seg, end, recs)) = end + Len(recs)
      BY <2>1, <2>2, <3>1, Written
    <3>3. QED
      BY <2>3, <3>2
  <2>9. QED
    BY <2>1, <2>2, <2>3, <2>4, <2>7, <2>8 DEF DurableInv
<1>10. CASE SyncRecords
  <2>. SUFFICES ASSUME ~spoiled' PROVE DurableInv'
    BY DEF DurableInv
  <2>1. /\ step = "sync" /\ step' = "idle" /\ seg' = seg /\ disk' = {seg} /\ stale' = stale
        /\ end' = end + Len(recs) /\ loc' = Moved /\ ~spoiled
    BY <1>10 DEF SyncRecords, FileSynced, Go
  <2>2. seg \in Seq(Cell) /\ end \in Nat \ {0} /\ recs \in Seq(Record) /\ Len(recs) \in Nat
    BY <2>1 DEF SegmentInv, DiskTypeOK, Image
  <2>3. /\ Whole(seg, end) /\ Len(seg) = end + Len(recs)
        /\ \A c \in Chunk : Points(seg, end, c, loc[c])
        /\ HasHeader(seg) => stale = {}
    BY <2>1, <2>2 DEF DurableInv
  <2>4. \A i \in 1 .. Len(recs) : seg[end + i] = recs[i]
    BY <2>1 DEF AgreesInv
  <2>5. HasHeader(seg)
    <3>1. end <= Len(seg)
      BY <2>2, <2>3
    <3>2. QED
      BY <2>2, <2>3, <3>1, SamePrefix
  <2>6. Whole(seg, end')
    <3>1. end' \in 1 .. Len(seg)
      BY <2>1, <2>2, <2>3
    <3>2. ASSUME NEW i \in 2 .. end' PROVE seg[i] \in Record
      <4>1. CASE i <= end
        BY <2>2, <2>3, <4>1 DEF Whole
      <4>2. CASE ~(i <= end)
        <5>1. i - end \in 1 .. Len(recs) /\ end + (i - end) = i
          BY <2>1, <2>2, <4>2
        <5>2. recs[i - end] \in Record
          BY <2>2, <5>1
        <5>3. QED
          BY <2>4, <5>1, <5>2
      <4>3. QED
        BY <4>1, <4>2
    <3>3. QED
      BY <2>3, <3>1, <3>2 DEF Whole
  <2>7. ASSUME NEW c \in Chunk PROVE Points(seg, end', c, Moved[c])
    <3>. DEFINE own == Own(recs, Len(recs), c)
                k   == Max(own)
    <3>1. /\ own = {} => Moved[c] = loc[c]
          /\ own # {} => Moved[c] = IF recs[k].vector = NoVector THEN 0 ELSE end + k
      BY <2>2, Published
    <3>2. Len(recs) \in 0 .. Len(recs) /\ \A i \in 1 .. end : seg[i] = seg[i]
      BY <2>2
    <3>3. /\ own = {} => Points(seg, end + Len(recs), c, loc[c])
          /\ own # {} => Points(seg, end + Len(recs), c, IF recs[k].vector = NoVector THEN 0 ELSE end + k)
      BY <2>2, <2>3, <2>4, <3>2, AppendPoints
    <3>. HIDE DEF own, k
    <3>4. QED
      BY <2>1, <3>1, <3>3
  <2>8. Ended(seg, end') /\ Len(seg) = end' /\ end' \in Nat
    BY <2>1, <2>2, <2>3 DEF Ended
  <2>9. AckedIsDurable'
    <3>. SUFFICES ASSUME NEW file \in Images', NEW c \in Chunk
                  PROVE  Recovered(file)[c] \in {acked'[c]} \cup limbo'[c]
      BY DEF AckedIsDurable
    <3>1. file = seg
      BY <2>1, <2>3, <2>5 DEF Images
    <3>2. Recovered(seg)[c] = ReadAt(seg, Moved[c])
      BY <2>2, <2>6, <2>7, <2>8, RecoveredPoints
    <3>3. ReadAt(seg, Moved[c]) = acked'[c]
      BY <2>1 DEF AgreesInv
    <3>4. QED
      BY <3>1, <3>2, <3>3
  <2>10. \A c \in Chunk : Points(seg', end', c, loc'[c])
    BY <2>1, <2>7
  <2>11. end' # 0
    BY <2>1, <2>2
  <2>12. QED
    BY <2>1, <2>3, <2>5, <2>6, <2>8, <2>9, <2>10, <2>11 DEF DurableInv
<1>11. CASE SyncFails
  BY <1>11 DEF SyncFails, Go, DurableInv, AckedIsDurable, Images
<1>12. CASE RollBack
  <2>. SUFFICES ASSUME ~spoiled' PROVE DurableInv'
    BY DEF DurableInv
  <2>1. /\ step = "rollback" /\ step' = "idle" /\ seg \in Seq(Cell) /\ end \in Nat /\ end # 0
        /\ seg' = Resized(seg, end) /\ ~spoiled /\ UNCHANGED <<stale, loc, end, acked>>
        /\ \/ disk' = {seg'} /\ limbo' = Certain
           \/ disk' = disk \cup {seg'} /\ limbo' = limbo
    BY <1>12 DEF RollBack, Go, SegmentInv, DiskTypeOK, Image
  <2>2. /\ Whole(seg, end)
        /\ HasHeader(seg) => stale = {}
        /\ \A c \in Chunk : Points(seg, end, c, loc[c])
    BY <2>1 DEF DurableInv
  <2>3. seg' \in Seq(Cell) /\ Len(seg') = end /\ \A i \in 1 .. end : seg'[i] = seg[i]
    <3>. DEFINE g == Resized(seg, end)
    <3>1. /\ g \in Seq(Cell) /\ Len(g) = end
          /\ \A i \in 1 .. end : g[i] = IF i <= Len(seg) THEN seg[i] ELSE Gap
      BY <2>1, Truncated
    <3>2. \A i \in 1 .. end : i <= Len(seg)
      BY <2>1, <2>2 DEF Whole
    <3>. HIDE DEF g
    <3>3. g \in Seq(Cell) /\ Len(g) = end /\ \A i \in 1 .. end : g[i] = seg[i]
      BY <3>1, <3>2
    <3>4. seg' = g
      BY <2>1 DEF g
    <3>5. QED
      BY <3>3, <3>4
  <2>4. /\ Whole(seg', end) /\ HasHeader(seg)
        /\ \A c \in Chunk : Points(seg', end, c, loc[c])
    <3>1. end <= Len(seg')
      BY <2>1, <2>3
    <3>2. Whole(seg, end)
      BY <2>1 DEF DurableInv
    <3>3. QED
      BY <2>1, <2>2, <2>3, <3>1, <3>2, SamePrefix
  <2>5. stale = {}
    BY <2>1, <2>4 DEF DurableInv
  <2>6. Ended(seg', end)
    BY <2>1, <2>3 DEF Ended
  <2>7. AckedIsDurable'
    <3>. SUFFICES ASSUME NEW file \in Images', NEW c \in Chunk
                  PROVE  Recovered(file)[c] \in {acked'[c]} \cup limbo'[c]
      BY DEF AckedIsDurable
    <3>1. CASE file = seg'
      <4>1. Recovered(seg')[c] = ReadAt(seg', loc[c])
        BY <2>1, <2>3, <2>4, <2>6, RecoveredPoints
      <4>2. ReadAt(seg', loc[c]) = acked'[c]
        BY <2>1 DEF AgreesInv
      <4>3. QED
        BY <3>1, <4>1, <4>2
    <3>2. CASE file # seg'
      <4>1. file \in disk /\ limbo' = limbo
        BY <2>1, <2>5, <3>2 DEF Images
      <4>2. QED
        BY <1>a, <2>1, <4>1 DEF Images
    <3>3. QED
      BY <3>1, <3>2
  <2>8. QED
    BY <2>1, <2>3, <2>4, <2>5, <2>7 DEF DurableInv
<1>13. CASE OpenFails
  <2>1. /\ UNCHANGED <<seg, disk, stale, end, loc, acked, limbo>> /\ step' = "idle"
        /\ step \in {"header", "header2"} /\ (step = "header2" => spoiled')
        /\ (step = "header" => spoiled' = spoiled)
    BY <1>13 DEF OpenFails, Go, Fault, DirectoriesSync
  <2>2. step = "header" => seg = <<>> /\ end = 0
    BY DEF SegmentInv
  <2>3. QED
    BY <2>1, <2>2, NewFiles DEF DurableInv, AckedIsDurable, Images
<1>14. CASE BeginSave
  BY <1>14 DEF BeginSave, DurableInv, AckedIsDurable, Images
<1>15. CASE RenameSegment
  <2>1. /\ step = "rename" /\ step' = "renamedir" /\ UNCHANGED <<acked, limbo, spoiled>>
        /\ Images' \subseteq Images \cup {Compacted}
    BY <1>15 DEF RenameSegment, Go, Images
  <2>2. \A c \in Chunk : Recovered(Compacted)[c] = acked[c]
    BY <2>1, CompactedHolds DEF Recovered
  <2>3. AckedIsDurable'
    <3>. SUFFICES ASSUME ~spoiled', NEW file \in Images', NEW c \in Chunk
                  PROVE  Recovered(file)[c] \in {acked'[c]} \cup limbo'[c]
      BY DEF AckedIsDurable
    <3>1. CASE file = Compacted
      BY <2>1, <2>2, <3>1
    <3>2. CASE file \in Images
      BY <1>a, <2>1, <3>2
    <3>3. QED
      BY <2>1, <3>1, <3>2
  <2>4. QED
    BY <2>1, <2>3 DEF DurableInv
<1>16. CASE AdoptSegment
  <2>1. /\ step = "renamedir" /\ step' = "sidecar" /\ UNCHANGED <<seg, disk, acked, limbo>>
        /\ stale' = {} /\ loc' = Scanned(seg) /\ end' = Len(seg)
    BY <1>16 DEF AdoptSegment, DirSynced, Go
  <2>2. seg \in Seq(Cell) /\ Len(seg) \in Nat /\ disk = {seg}
    BY <2>1 DEF SegmentInv, DiskTypeOK, Image
  <2>3. /\ Whole(seg, Len(seg)) /\ Ended(seg, Len(seg))
        /\ \A c \in Chunk : Recovered(seg)[c] = acked[c]
    BY <2>1, <2>2 DEF AgreesInv, Ended, Recovered
  <2>4. \A c \in Chunk : Points(seg, Len(seg), c, loc'[c])
    BY <2>1, <2>2, <2>3, ScanPoints DEF Scanned
  <2>5. AckedIsDurable'
    BY <2>1, <2>2, <2>3 DEF AckedIsDurable, Images
  <2>6. Whole(seg', end') /\ Len(seg') = end' /\ \A c \in Chunk : Points(seg', end', c, loc'[c])
    BY <2>1, <2>3, <2>4
  <2>7. QED
    BY <2>1, <2>5, <2>6 DEF DurableInv
<1>17. CASE FinishSave
  <2>1. /\ step = "sidecardir" /\ step' = "idle" /\ UNCHANGED <<seg, disk, end, loc, acked, limbo, spoiled>>
        /\ stale' = {} /\ end # 0
    BY <1>17 DEF FinishSave, DirSynced, Go, SegmentInv
  <2>2. AckedIsDurable'
    BY <1>a, <2>1 DEF AckedIsDurable, Images
  <2>3. QED
    BY <2>1, <2>2 DEF DurableInv
<1>18. CASE SaveFails
  <2>1. /\ step \in {"rename", "sidecar"} /\ step' = "idle" /\ (step = "sidecar" => end # 0)
        /\ UNCHANGED <<seg, disk, stale, end, loc, acked, limbo, spoiled>>
    BY <1>18 DEF SaveFails, Go, Fault, DirectoriesSync, SegmentInv
  <2>2. QED
    BY <2>1 DEF DurableInv, AckedIsDurable, Images
<1>19. CASE MapForSearch
  BY <1>19 DEF MapForSearch, DurableInv, AckedIsDurable, Images
<1>20. CASE Stop
  BY <1>20 DEF Stop, MemoryLost, DurableInv, AckedIsDurable, Images
<1>21. CASE Kill \/ PowerLoss
  <2>1. /\ step' = "down" /\ stale' = {} /\ Images' \subseteq Images
        /\ UNCHANGED <<acked, limbo, spoiled>>
    BY <1>21 DEF Kill, PowerLoss, MemoryLost, Images
  <2>2. AckedIsDurable'
    BY <1>a, <2>1 DEF AckedIsDurable
  <2>3. QED
    BY <2>1, <2>2 DEF DurableInv
<1>22. CASE UNCHANGED dvars
  BY <1>22 DEF DurableInv, AckedIsDurable, Images, dvars
<1>23. QED
  BY <1>1, <1>2, <1>3, <1>4, <1>5, <1>6, <1>7, <1>8, <1>9, <1>10, <1>11, <1>12, <1>13, <1>14,
     <1>15, <1>16, <1>17, <1>18, <1>19, <1>20, <1>21, <1>22
     DEF DiskNext, StartUp, Mutate, Save

(* The invariant is one.                                                    *)
THEOREM DiskInvariant ==
  ASSUME DirectoriesSync
  PROVE  DiskSpec => []DiskInv
<1>1. DiskInit => DiskInv
  BY TypeInit, SegmentInit, AgreesInit, DurableInit, NamedInit DEF DiskInv
<1>2. DiskInv /\ [DiskNext]_dvars => DiskInv'
  BY TypeStep, SegmentStep, AgreesStep, DurableStep, NamedStep DEF DiskInv
<1>3. QED
  BY <1>1, <1>2, PTL DEF DiskSpec

(* Whatever a crash leaves of the segment, start-up recovers what the last  *)
(* completed upserts and deletes left, or what a later one was about to,    *)
(* unless a failed rollback or half a header has spoiled the segment, where *)
(* directories can be synced.                                               *)
THEOREM CrashesLoseNothing ==
  ASSUME DirectoriesSync
  PROVE  DiskSpec => []AckedIsDurable
<1>1. DiskInv => AckedIsDurable
  BY DEF DiskInv, DurableInv, AckedIsDurable
<1>2. QED
  BY <1>1, DiskInvariant, PTL

=============================================================================
