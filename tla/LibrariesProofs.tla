--------------------------- MODULE LibrariesProofs ---------------------------
(***************************************************************************)
(* Proofs about the libraries that compute with the data of a script, for  *)
(* all strings, dictionaries and arrays, any width of mln_size_t and any   *)
(* size of a double.                                                       *)
(***************************************************************************)
EXTENDS Libraries, StringsProofs

(* A number up to a quotient, times the divisor, is up to the dividend.    *)
LEMMA QuotientBound ==
  ASSUME NEW m \in Nat, NEW b \in Nat \ {0}, NEW a \in Nat, a <= m \div b
  PROVE  a * b <= m
<1>1. m \div b \in Nat /\ (m \div b) * b <= m
  BY Z3
<1>2. a * b <= (m \div b) * b
  BY <1>1, Z3
<1> QED  BY <1>1, <1>2, Z3

(* A product of a size that does not pass MaxSize does not wrap.           *)
LEMMA NoWrap ==
  ASSUME NEW x \in Nat, NEW y \in Nat, x * y <= MaxSize
  PROVE  Times(x, y) = x * y /\ x * y \in Nat
<1>1. x * y \in Nat
  BY Z3
<1>2. \A p \in Nat : p <= MaxSize => p % (MaxSize + 1) = p
  BY SizeAssumption
<1> QED  BY <1>1, <1>2 DEF Times

(* An array that is accepted has as many numbers as the rows and columns   *)
(* say, and the memory allocated holds all of them: neither the count nor  *)
(* the number of bytes wraps.                                              *)
THEOREM AcceptedFits ==
  ASSUME NEW row \in Signed, NEW col \in Signed, NEW n \in Nat,
         Accepts(row, col, n)
  PROVE  MatrixFits(row, col, n)
<1> USE SizeAssumption
<1>1. /\ row \in Nat /\ col \in Nat \ {0} /\ row <= MaxSize \div col
      /\ Times(row, col) <= MaxSize \div DoubleSize /\ n = Times(row, col)
  BY DEF Accepts, NoOverflow, Signed
<1>2. row * col <= MaxSize
  BY <1>1, QuotientBound
<1>3. n = row * col
  BY <1>1, <1>2, NoWrap
<1>4. n * DoubleSize <= MaxSize
  BY <1>1, QuotientBound
<1>5. Times(n, DoubleSize) = n * DoubleSize
  BY <1>4, NoWrap
<1> QED  BY <1>1, <1>3, <1>5 DEF MatrixFits, Allocated

-----------------------------------------------------------------------------
(* The indexes before x in a set of them                                   *)
Before(S, x) == {y \in S : y < x}
Rank(S, x) == Cardinality(Before(S, x))

(* Sets of indexes an array can have                                       *)
IndexSets == {S \in SUBSET Nat : IsFiniteSet(S)}

(* A later index has more before it.                                       *)
LEMMA RankGrows ==
  ASSUME NEW S \in IndexSets, NEW x \in S
  PROVE  /\ Rank(S, x) \in 0 .. Cardinality(S) - 1
         /\ \A z \in S : x < z => Rank(S, x) < Rank(S, z)
<1>1. S \in SUBSET Nat /\ IsFiniteSet(S)
  BY DEF IndexSets
<1>2. ASSUME NEW z \in S
      PROVE  /\ IsFiniteSet(Before(S, z))
             /\ Rank(S, z) \in Nat
  <2>1. Before(S, z) \in SUBSET S
    BY DEF Before
  <2>2. IsFiniteSet(Before(S, z))
    BY <1>1, <2>1, FS_Subset
  <2> QED  BY <2>2, FS_CardinalityType DEF Rank
<1> DEFINE T == Before(S, x) \cup {x}
<1>3. x \notin Before(S, x) /\ x \in Nat
  BY <1>1 DEF Before
<1>4. IsFiniteSet(T) /\ Cardinality(T) = Rank(S, x) + 1
  BY <1>2, <1>3, FS_AddElement DEF Rank
<1>5. T \in SUBSET S
  BY DEF Before
<1> HIDE DEF T
<1>6. Rank(S, x) + 1 <= Cardinality(S) /\ Cardinality(S) \in Nat
  BY <1>1, <1>4, <1>5, FS_Subset, FS_CardinalityType
<1>7. ASSUME NEW z \in S, x < z PROVE Rank(S, x) < Rank(S, z)
  <2>1. T \in SUBSET Before(S, z)
    <3>1. x \in Before(S, z)
      BY <1>7 DEF Before
    <3>2. ASSUME NEW y \in Before(S, x) PROVE y \in Before(S, z)
      <4>1. y \in S /\ y < x /\ y \in Nat /\ x \in Nat /\ z \in Nat
        BY <1>1 DEF Before
      <4>2. y < z
        BY <1>7, <4>1
      <4> QED  BY <4>1, <4>2 DEF Before
    <3> QED  BY <3>1, <3>2 DEF T
  <2>2. Cardinality(T) <= Rank(S, z)
    BY <1>2, <2>1, FS_Subset DEF Rank
  <2> QED  BY <1>2, <1>4, <2>2
<1> QED  BY <1>2, <1>6, <1>7

(* The next index after x has one more before it.                          *)
LEMMA RankOfNext ==
  ASSUME NEW S \in IndexSets, NEW x \in S, Rank(S, x) + 1 < Cardinality(S)
  PROVE  \E z \in S : Rank(S, z) = Rank(S, x) + 1
<1> DEFINE later == {z \in S : x < z}
<1>1. S \in SUBSET Nat /\ IsFiniteSet(S)
  BY DEF IndexSets
<1>2. /\ IsFiniteSet(Before(S, x))
      /\ x \notin Before(S, x)
      /\ x \in Nat
  <2>1. Before(S, x) \in SUBSET S
    BY DEF Before
  <2> QED  BY <1>1, <2>1, FS_Subset DEF Before
<1>3. Cardinality(Before(S, x) \cup {x}) = Rank(S, x) + 1
  BY <1>2, FS_AddElement DEF Rank
<1>4. later # {}
  <2> SUFFICES ASSUME later = {} PROVE FALSE
    OBVIOUS
  <2>1. S = Before(S, x) \cup {x}
    <3>1. ASSUME NEW y \in S PROVE y = x \/ y \in Before(S, x)
      <4>1. y \in Nat /\ ~(x < y)
        BY <1>1
      <4>2. y = x \/ y < x
        BY <1>2, <4>1
      <4> QED  BY <4>2 DEF Before
    <3>2. Before(S, x) \subseteq S
      BY DEF Before
    <3> QED  BY <3>1, <3>2
  <2>2. Rank(S, x) \in 0 .. Cardinality(S) - 1 /\ Cardinality(S) \in Nat
    BY <1>1, RankGrows, FS_CardinalityType
  <2> QED  BY <1>3, <2>1, <2>2
<1>5. later \in SUBSET Nat
  BY <1>1
<1> HIDE DEF later
<1>6. PICK z \in later : \A y \in later : z <= y
  BY <1>4, <1>5, LeastOf
<1>7. Before(S, z) = Before(S, x) \cup {x}
  <2>1. z \in S /\ z \in Nat /\ x < z
    BY <1>1 DEF later
  <2>2. ASSUME NEW y \in S
        PROVE  y \in Before(S, z) <=> y \in Before(S, x) \cup {x}
    <3>1. y \in Nat /\ (x < y => z <= y)
      BY <1>1, <1>6 DEF later
    <3>2. y < z <=> (y < x \/ y = x)
      BY <1>2, <2>1, <3>1
    <3> QED  BY <3>2 DEF Before
  <2>3. Before(S, z) \subseteq S /\ Before(S, x) \cup {x} \subseteq S
    BY DEF Before
  <2> QED  BY <2>2, <2>3
<1>8. z \in S
  BY DEF later
<1> QED  BY <1>3, <1>7, <1>8 DEF Rank

(* Every number of predecessors is that of one index.                      *)
LEMMA RankHits ==
  ASSUME NEW S \in IndexSets, NEW n \in 0 .. Cardinality(S) - 1
  PROVE  \E x \in S : Rank(S, x) = n
<1>1. S \in SUBSET Nat /\ IsFiniteSet(S) /\ Cardinality(S) \in Nat
  BY FS_CardinalityType DEF IndexSets
<1> DEFINE m == Cardinality(S)
           T == {k \in 0 .. m - 1 : \E x \in S : Rank(S, x) = k}
<1>2. m \in Nat /\ n \in 0 .. m - 1 /\ m - 1 \in Nat
  BY <1>1
<1>3. 0 \in T
  <2>1. S # {}
    BY <1>2, FS_EmptySet
  <2>2. PICK x \in S : \A y \in S : x <= y
    BY <1>1, <2>1, LeastOf
  <2>3. Before(S, x) = {}
    <3>1. ASSUME NEW y \in S PROVE ~(y < x)
      <4>1. x \in Nat /\ y \in Nat /\ x <= y
        BY <1>1, <2>2
      <4> QED  BY <4>1
    <3> QED  BY <3>1 DEF Before
  <2>4. Rank(S, x) = 0
    BY <2>3, FS_EmptySet DEF Rank
  <2> QED  BY <1>2, <2>4
<1>4. ASSUME NEW k \in 0 .. (m - 1) - 1, k \in T PROVE k + 1 \in T
  <2>1. PICK x \in S : Rank(S, x) = k
    BY <1>4
  <2>2. k + 1 < m /\ k + 1 \in 0 .. m - 1
    BY <1>2
  <2>3. \E z \in S : Rank(S, z) = k + 1
    BY <2>1, <2>2, RankOfNext
  <2> QED  BY <2>2, <2>3
<1> HIDE DEF T, m
<1>5. 0 .. m - 1 \subseteq T
  BY <1>2, <1>3, <1>4, UpTo
<1> QED  BY <1>2, <1>5 DEF T

(* What InOrder says: it lists all the indexes, each behind the lesser     *)
(* ones, at the place that its rank says.                                  *)
LEMMA InOrderLists ==
  ASSUME NEW S \in IndexSets
  PROVE  /\ Cardinality(S) \in Nat
         /\ InOrder(S) \in [1 .. Cardinality(S) -> S]
         /\ \A n \in 1 .. Cardinality(S), x \in S :
              InOrder(S)[n] = x <=> Rank(S, x) = n - 1
         /\ \A x \in S : \E n \in 1 .. Cardinality(S) : InOrder(S)[n] = x
         /\ \A n, o \in 1 .. Cardinality(S) :
              n < o => InOrder(S)[n] < InOrder(S)[o]
<1> DEFINE m == Cardinality(S)
           q == InOrder(S)
<1>1. S \in SUBSET Nat /\ IsFiniteSet(S) /\ m \in Nat
  BY FS_CardinalityType DEF IndexSets
<1>2. ASSUME NEW n \in 1 .. m PROVE q[n] \in S /\ Rank(S, q[n]) = n - 1
  <2>1. n - 1 \in 0 .. m - 1
    BY <1>1
  <2>2. \E x \in S : Rank(S, x) = n - 1
    BY <2>1, RankHits
  <2>3. q[n] = CHOOSE x \in S : Rank(S, x) = n - 1
    BY DEF InOrder, Rank, Before
  <2> HIDE DEF q
  <2> QED  BY <2>2, <2>3
<1>3. q \in [1 .. m -> S]
  <2>1. DOMAIN q = 1 .. m /\ q = [n \in 1 .. m |-> q[n]]
    <3> DEFINE At(n) == CHOOSE x \in S : Rank(S, x) = n - 1
    <3>1. q = [n \in 1 .. m |-> At(n)]
      BY DEF InOrder, Rank, Before
    <3> HIDE DEF q, m, At
    <3> QED  BY <3>1
  <2> HIDE DEF q, m
  <2> QED  BY <1>2, <2>1
<1> HIDE DEF q, m
<1>4. ASSUME NEW x \in S, NEW y \in S, Rank(S, x) = Rank(S, y) PROVE x = y
  <2>1. x \in Nat /\ y \in Nat /\ Rank(S, x) \in Nat
    BY <1>1, RankGrows DEF m
  <2>2. ~(x < y) /\ ~(y < x)
    BY <1>4, <2>1, RankGrows
  <2> QED  BY <2>1, <2>2
<1>5. ASSUME NEW n \in 1 .. m, NEW x \in S
      PROVE  q[n] = x <=> Rank(S, x) = n - 1
  BY <1>2, <1>4
<1>6. ASSUME NEW x \in S PROVE \E n \in 1 .. m : q[n] = x
  <2>1. Rank(S, x) \in 0 .. m - 1
    BY RankGrows DEF m
  <2>2. Rank(S, x) + 1 \in 1 .. m /\ (Rank(S, x) + 1) - 1 = Rank(S, x)
    BY <1>1, <2>1
  <2> QED  BY <1>5, <2>2
<1>7. ASSUME NEW n \in 1 .. m, NEW o \in 1 .. m, n < o PROVE q[n] < q[o]
  <2>1. q[n] \in S /\ q[o] \in S /\ Rank(S, q[n]) < Rank(S, q[o])
    BY <1>1, <1>2, <1>7
  <2>2. ~(q[o] < q[n]) /\ q[o] # q[n]
    <3>1. Rank(S, q[n]) \in Nat /\ Rank(S, q[o]) \in Nat
      BY <2>1, RankGrows
    <3>2. q[o] < q[n] => Rank(S, q[o]) < Rank(S, q[n])
      BY <2>1, RankGrows
    <3> QED  BY <2>1, <3>1, <3>2
  <2>3. q[n] \in Nat /\ q[o] \in Nat
    BY <1>1, <2>1
  <2> QED  BY <2>2, <2>3
<1> QED  BY <1>1, <1>3, <1>5, <1>6, <1>7 DEF m, q

(* A greatest index goes behind all others.                                *)
LEMMA InOrderAppend ==
  ASSUME NEW S \in IndexSets, NEW x \in Nat, \A y \in S : y < x
  PROVE  /\ S \cup {x} \in IndexSets
         /\ Cardinality(S \cup {x}) = Cardinality(S) + 1
         /\ InOrder(S \cup {x}) = Append(InOrder(S), x)
<1> DEFINE T == S \cup {x}
           m == Cardinality(S)
<1>1. S \in SUBSET Nat /\ IsFiniteSet(S) /\ m \in Nat /\ x \notin S
  BY FS_CardinalityType DEF IndexSets
<1>2. T \in IndexSets /\ Cardinality(T) = m + 1
  BY <1>1, FS_AddElement DEF IndexSets
<1>3. ASSUME NEW y \in S PROVE Rank(T, y) = Rank(S, y)
  <2>1. Before(T, y) = Before(S, y)
    BY <1>1 DEF Before
  <2> QED  BY <2>1 DEF Rank
<1>4. Rank(T, x) = m
  <2>1. Before(T, x) = S
    <3>1. ~(x < x) /\ \A y \in S : y < x
      OBVIOUS
    <3> QED  BY <3>1 DEF Before
  <2> QED  BY <2>1 DEF Rank
<1>5. S \subseteq T /\ x \in T
  OBVIOUS
<1> HIDE DEF T
<1> DEFINE q == InOrder(S)
           r == InOrder(T)
<1>6. /\ q \in [1 .. m -> S]
      /\ r \in [1 .. m + 1 -> T]
      /\ \A n \in 1 .. m, y \in S : q[n] = y <=> Rank(S, y) = n - 1
      /\ \A n \in 1 .. m + 1, y \in T : r[n] = y <=> Rank(T, y) = n - 1
  BY <1>2, InOrderLists
<1> HIDE DEF q, r, m
<1>7. r[m + 1] = x
  BY <1>1, <1>4, <1>5, <1>6
<1>8. ASSUME NEW n \in 1 .. m PROVE r[n] = q[n]
  <2>0. n \in 1 .. m + 1
    BY <1>1
  <2>1. q[n] \in S /\ Rank(S, q[n]) = n - 1 /\ n \in 1 .. m + 1
    BY <1>6, <2>0
  <2> QED  BY <1>3, <1>5, <1>6, <2>1
<1>9. q \in Seq(Nat) /\ Len(q) = m /\ r \in Seq(Nat) /\ Len(r) = m + 1
  <2>1. S \subseteq Nat /\ T \subseteq Nat
    BY <1>1, <1>2 DEF IndexSets
  <2>2. q \in [1 .. m -> Nat] /\ r \in [1 .. m + 1 -> Nat] /\ m + 1 \in Nat
    <3>1. q \in [1 .. m -> S] /\ r \in [1 .. m + 1 -> T] /\ m + 1 \in Nat
      BY <1>1, <1>6
    <3> QED  BY <2>1, <3>1
  <2>3. \A k \in Nat : \A f \in [1 .. k -> Nat] : f \in Seq(Nat) /\ Len(f) = k
    OBVIOUS
  <2> QED  BY <1>1, <2>2, <2>3
<1>10. r = Append(q, x)
  <2>1. /\ Append(q, x) \in Seq(Nat)
        /\ Len(Append(q, x)) = m + 1
        /\ \A n \in 1 .. m : Append(q, x)[n] = q[n]
        /\ Append(q, x)[m + 1] = x
    BY <1>1, <1>9, AppendProperties
  <2>2. \A n \in 1 .. m + 1 : n \in 1 .. m \/ n = m + 1
    BY <1>1
  <2>3. \A n \in 1 .. Len(r) : r[n] = Append(q, x)[n]
    BY <1>7, <1>8, <1>9, <2>1, <2>2
  <2> QED  BY <1>9, <2>1, <2>3, SeqEqual
<1> QED  BY <1>2, <1>10 DEF T, m, q, r

-----------------------------------------------------------------------------
(* Elements with keys in K and values in V, and the arrays of them: no two *)
(* elements have the same key.                                             *)
Cells(K, V) == [key : K \cup {NoKey}, value : V]

ArraysOf(K, V) ==
  {a \in UNION {[D -> Cells(K, V)] : D \in IndexSets} :
     \A i, j \in Keyed(a) : a[i].key = a[j].key => i = j}

(* What an array is                                                        *)
LEMMA ArrayIs ==
  ASSUME NEW K, NEW V, NEW a
  PROVE  a \in ArraysOf(K, V) <=>
           /\ DOMAIN a \in IndexSets
           /\ a \in [DOMAIN a -> Cells(K, V)]
           /\ \A i, j \in Keyed(a) : a[i].key = a[j].key => i = j
  BY DEF ArraysOf

(* The index for a new element is behind all others.                       *)
LEMMA NextIndexIs ==
  ASSUME NEW K, NEW V, NEW a \in ArraysOf(K, V)
  PROVE  NextIndex(a) \in Nat /\ \A i \in DOMAIN a : i < NextIndex(a)
<1> DEFINE D == DOMAIN a
           m == Cardinality(D)
           q == InOrder(D)
<1>1. D \in IndexSets /\ D \in SUBSET Nat
  BY ArrayIs DEF IndexSets
<1>2. CASE D = {}
  BY <1>2 DEF NextIndex
<1>3. CASE D # {}
  <2>1. /\ m \in Nat
        /\ q \in [1 .. m -> D]
        /\ \A x \in D : \E n \in 1 .. m : q[n] = x
        /\ \A n, o \in 1 .. m : n < o => q[n] < q[o]
    BY <1>1, InOrderLists
  <2> HIDE DEF D, m, q
  <2>2. m \in 1 .. m
    BY <1>3, <2>1
  <2>3. q[m] \in D
    BY <2>1, <2>2
  <2>4. ASSUME NEW x \in D PROVE q[m] >= x
    <3>1. PICK n \in 1 .. m : q[n] = x
      BY <2>1
    <3>2. n = m \/ n < m
      BY <2>1
    <3>3. q[m] \in Nat /\ x \in Nat
      BY <1>1, <2>3
    <3> QED  BY <2>1, <2>2, <3>1, <3>2, <3>3
  <2>5. Max(D) \in D /\ \A x \in D : Max(D) >= x
    BY <2>3, <2>4 DEF Max
  <2>6. NextIndex(a) = Max(D) + 1
    BY <1>3 DEF NextIndex, D
  <2> QED  BY <1>1, <2>5, <2>6 DEF D
<1> QED  BY <1>2, <1>3

(* b is a with the element c at p, which is the place of c's key or behind *)
(* all others if a has it not.                                             *)
PutAs(a, b, c, p) ==
  /\ DOMAIN b = DOMAIN a \cup {p}
  /\ b = [i \in DOMAIN b |-> b[i]]
  /\ b[p] = c
  /\ \A i \in DOMAIN a : i # p => b[i] = a[i]
  /\ p \in Nat
  /\ \/ p \in Keyed(a) /\ a[p].key = c.key
     \/ (\A i \in DOMAIN a : i < p) /\ c.key \notin KeysOf(a)

(* Put does this.                                                          *)
LEMMA PutPlace ==
  ASSUME NEW K, NEW V, NEW a \in ArraysOf(K, V), NEW c \in Cells(K, V)
  PROVE  PutAs(a, Put(a, c.key, c.value), c, Place(a, c.key))
<1> DEFINE p == Place(a, c.key)
           b == Put(a, c.key, c.value)
<1>1. DOMAIN a \in SUBSET Nat
  BY ArrayIs DEF IndexSets
<1>2. /\ p \in Nat
      /\ \/ p \in Keyed(a) /\ a[p].key = c.key
         \/ (\A i \in DOMAIN a : i < p) /\ c.key \notin KeysOf(a)
  <2>1. CASE c.key \in KeysOf(a)
    <3>1. p = CHOOSE i \in Keyed(a) : a[i].key = c.key
      BY <2>1 DEF Place
    <3>2. \E i \in Keyed(a) : a[i].key = c.key
      BY <2>1 DEF KeysOf
    <3> HIDE DEF p
    <3>3. p \in Keyed(a) /\ a[p].key = c.key
      BY <3>1, <3>2
    <3> QED  BY <1>1, <3>3 DEF Keyed
  <2>2. CASE c.key \notin KeysOf(a)
    <3>1. p = NextIndex(a)
      BY <2>2 DEF Place
    <3> HIDE DEF p
    <3> QED  BY <2>2, <3>1, NextIndexIs
  <2> QED  BY <2>1, <2>2
<1>3. Elem(c.key, c.value) = c
  BY DEF Elem, Cells
<1>4. b = [i \in DOMAIN a \cup {p} |-> IF i = p THEN c ELSE a[i]]
  BY <1>3 DEF Put
<1> HIDE DEF p, b
<1>5. /\ DOMAIN b = DOMAIN a \cup {p}
      /\ b = [i \in DOMAIN b |-> b[i]]
      /\ b[p] = c
      /\ \A i \in DOMAIN a : i # p => b[i] = a[i]
  BY <1>4
<1>6. PutAs(a, b, c, p)
  BY <1>2, <1>5 DEF PutAs
<1> QED  BY <1>6 DEF b, p

(* The elements with a key after a Put                                     *)
LEMMA PutKeyed ==
  ASSUME NEW K, NEW V, NEW a \in ArraysOf(K, V), NEW c \in Cells(K, V),
         NEW b, NEW p, PutAs(a, b, c, p)
  PROVE  /\ Keyed(b) = IF c.key = NoKey THEN Keyed(a) ELSE Keyed(a) \cup {p}
         /\ c.key = NoKey => p \notin DOMAIN a
         /\ \A i \in Keyed(a) : i # p => a[i].key # c.key
<1>1. c.key = NoKey => p \notin DOMAIN a
  <2>1. ASSUME c.key = NoKey, p \in DOMAIN a PROVE FALSE
    <3>1. p \notin Keyed(a) \/ a[p].key # c.key
      BY <2>1 DEF Keyed
    <3>2. p < p /\ p \in Nat
      BY <2>1, <3>1 DEF PutAs
    <3> QED  BY <3>2
  <2> QED  BY <2>1
<1>2. ASSUME NEW i \in Keyed(a), i # p PROVE a[i].key # c.key
  BY <1>2, ArrayIs DEF PutAs, KeysOf
<1>3. ASSUME NEW i
      PROVE  i \in Keyed(b) <=>
               i \in IF c.key = NoKey THEN Keyed(a) ELSE Keyed(a) \cup {p}
  BY <1>1 DEF PutAs, Keyed
<1> QED  BY <1>1, <1>2, <1>3

(* A Put makes an array of an array.                                       *)
LEMMA PutIsArray ==
  ASSUME NEW K, NEW V, NEW a \in ArraysOf(K, V), NEW c \in Cells(K, V)
  PROVE  Put(a, c.key, c.value) \in ArraysOf(K, V)
<1> DEFINE p == Place(a, c.key)
           b == Put(a, c.key, c.value)
<1>1. PutAs(a, b, c, p)
  BY PutPlace
<1> HIDE DEF p, b
<1>2. DOMAIN b \in IndexSets
  <2>1. DOMAIN a \in IndexSets /\ p \in Nat /\ DOMAIN b = DOMAIN a \cup {p}
    BY <1>1, ArrayIs DEF PutAs
  <2> QED  BY <2>1, FS_AddElement DEF IndexSets
<1>3. b \in [DOMAIN b -> Cells(K, V)]
  <2>1. \A i \in DOMAIN a : a[i] \in Cells(K, V)
    BY ArrayIs
  <2>2. \A i \in DOMAIN b : b[i] \in Cells(K, V)
    BY <1>1, <2>1 DEF PutAs
  <2> QED  BY <1>1, <2>2 DEF PutAs
<1>4. ASSUME NEW i \in Keyed(b), NEW j \in Keyed(b), b[i].key = b[j].key
      PROVE  i = j
  <2>1. \A x \in Keyed(b) : x = p \/ (x \in Keyed(a) /\ x \in DOMAIN a)
    BY <1>1, PutKeyed DEF Keyed
  <2>2. \A x \in Keyed(a) : x # p => b[x] = a[x] /\ a[x].key # c.key
    BY <1>1, PutKeyed DEF Keyed, PutAs
  <2>3. b[p] = c
    BY <1>1 DEF PutAs
  <2> QED  BY <1>4, <2>1, <2>2, <2>3, ArrayIs
<1>5. b \in ArraysOf(K, V)
  BY <1>2, <1>3, <1>4, ArrayIs
<1> QED  BY <1>5 DEF b

(* The entries with that of the element c, if it has a key                 *)
EntriesWith(a, c) ==
  IF c.key = NoKey THEN Entries(a)
  ELSE {e \in Entries(a) : e[1] # c.key} \cup {<<c.key, c.value>>}

(* After a Put there is one entry for its key, and the others are as they  *)
(* were.                                                                   *)
LEMMA PutEntries ==
  ASSUME NEW K, NEW V, NEW a \in ArraysOf(K, V), NEW c \in Cells(K, V)
  PROVE  Entries(Put(a, c.key, c.value)) = EntriesWith(a, c)
<1> DEFINE p == Place(a, c.key)
           b == Put(a, c.key, c.value)
<1>1. PutAs(a, b, c, p)
  BY PutPlace
<1> HIDE DEF p, b
<1>2. /\ Keyed(b) = IF c.key = NoKey THEN Keyed(a) ELSE Keyed(a) \cup {p}
      /\ c.key = NoKey => p \notin DOMAIN a
      /\ \A i \in Keyed(a) : i # p => b[i] = a[i] /\ a[i].key # c.key
  BY <1>1, PutKeyed DEF Keyed, PutAs
<1>3. b[p] = c
  BY <1>1 DEF PutAs
<1>4. CASE c.key = NoKey
  <2>1. \A i \in Keyed(a) : b[i] = a[i]
    BY <1>2, <1>4 DEF Keyed
  <2>2. Entries(b) = Entries(a)
    BY <1>2, <1>4, <2>1 DEF Entries
  <2> QED  BY <1>4, <2>2 DEF b, EntriesWith
<1>5. CASE c.key # NoKey
  <2>1. Keyed(b) = Keyed(a) \cup {p}
    BY <1>2, <1>5
  <2>2. a[p].key = c.key \/ p \notin Keyed(a)
    BY <1>1 DEF PutAs, Keyed
  <2> DEFINE F == {e \in Entries(a) : e[1] # c.key} \cup {<<c.key, c.value>>}
  <2>3. ASSUME NEW e \in Entries(b) PROVE e \in F
    <3>1. PICK i \in Keyed(b) : e = <<b[i].key, b[i].value>>
      BY DEF Entries
    <3>2. CASE i = p
      BY <1>3, <3>1, <3>2
    <3>3. CASE i # p
      <4>1. i \in Keyed(a) /\ b[i] = a[i] /\ a[i].key # c.key
        BY <1>2, <2>1, <3>3
      <4> QED  BY <3>1, <4>1 DEF Entries
    <3> QED  BY <3>2, <3>3
  <2>4. ASSUME NEW e \in F PROVE e \in Entries(b)
    <3>1. CASE e = <<c.key, c.value>>
      BY <1>3, <2>1, <3>1 DEF Entries
    <3>2. CASE e # <<c.key, c.value>>
      <4>1. e \in Entries(a) /\ e[1] # c.key
        BY <3>2
      <4>2. PICK i \in Keyed(a) : e = <<a[i].key, a[i].value>>
        BY <4>1 DEF Entries
      <4>3. i # p
        BY <2>2, <4>1, <4>2
      <4>4. i \in Keyed(b) /\ b[i] = a[i]
        BY <1>2, <2>1, <4>3
      <4> QED  BY <4>2, <4>4 DEF Entries
    <3> QED  BY <3>1, <3>2
  <2>5. Entries(b) = F
    <3> HIDE DEF F
    <3> QED  BY <2>3, <2>4
  <2> QED  BY <1>5, <2>5 DEF b, EntriesWith
<1> QED  BY <1>4, <1>5

(* The values of a at the indexes in R, in their order                     *)
ValuesAt(a, R) == [n \in DOMAIN InOrder(R) |-> a[InOrder(R)[n]].value]

(* The indexes of the elements that have no key                            *)
Rest(a) == DOMAIN a \ Keyed(a)

(* The n-th of these values is that at the n-th of the indexes.            *)
LEMMA ValuesAtIs ==
  ASSUME NEW K, NEW V, NEW a \in ArraysOf(K, V), NEW R \in SUBSET DOMAIN a
  PROVE  /\ R \in IndexSets
         /\ Len(InOrder(R)) = Cardinality(R)
         /\ Cardinality(R) \in Nat
         /\ DOMAIN InOrder(R) = 1 .. Cardinality(R)
         /\ ValuesAt(a, R) \in Seq(V)
         /\ Len(ValuesAt(a, R)) = Cardinality(R)
         /\ \A n \in 1 .. Cardinality(R) :
              /\ InOrder(R)[n] \in R
              /\ ValuesAt(a, R)[n] = a[InOrder(R)[n]].value
<1> DEFINE m == Cardinality(R)
           q == InOrder(R)
           w == ValuesAt(a, R)
<1>1. R \in IndexSets
  <2>1. DOMAIN a \in IndexSets
    BY ArrayIs
  <2> QED  BY <2>1, FS_Subset DEF IndexSets
<1>2. m \in Nat /\ q \in [1 .. m -> R]
  BY <1>1, InOrderLists
<1>3. \A i \in R : a[i].value \in V
  BY ArrayIs DEF Cells
<1>4. w = [n \in 1 .. m |-> a[q[n]].value]
  <2>1. DOMAIN InOrder(R) = 1 .. m
    BY <1>2
  <2> QED  BY <2>1 DEF ValuesAt
<1> HIDE DEF m, q, w
<1>5. w \in [1 .. m -> V]
  BY <1>2, <1>3, <1>4
<1>6. \A S : \A f \in [1 .. m -> S] : f \in Seq(S) /\ Len(f) = m
  BY <1>2
<1>7. w \in Seq(V) /\ Len(w) = m /\ Len(q) = m
  BY <1>2, <1>5, <1>6
<1> QED  BY <1>1, <1>2, <1>4, <1>7 DEF m, q, w

(* A greatest index puts its value behind the others.                      *)
LEMMA ValuesAppend ==
  ASSUME NEW K, NEW V, NEW a \in ArraysOf(K, V),
         NEW R \in SUBSET DOMAIN a, NEW x \in DOMAIN a, \A y \in R : y < x
  PROVE  ValuesAt(a, R \cup {x}) = Append(ValuesAt(a, R), a[x].value)
<1> DEFINE m == Cardinality(R)
           q == InOrder(R)
           u == ValuesAt(a, R)
           T == R \cup {x}
           w == ValuesAt(a, T)
<1>1. x \in Nat /\ a[x].value \in V
  BY ArrayIs DEF IndexSets, Cells
<1>2. R \in IndexSets /\ T \in SUBSET DOMAIN a
  BY ValuesAtIs
<1>3. Cardinality(T) = m + 1 /\ InOrder(T) = Append(q, x)
  BY <1>1, <1>2, InOrderAppend
<1>4. /\ m \in Nat /\ u \in Seq(V) /\ Len(u) = m
      /\ q \in Seq(R) /\ Len(q) = m
      /\ \A n \in 1 .. m : u[n] = a[q[n]].value
  <2>1. /\ m \in Nat /\ u \in Seq(V) /\ Len(u) = m /\ Len(q) = m
        /\ \A n \in 1 .. m : u[n] = a[q[n]].value
    BY ValuesAtIs
  <2>2. q \in [1 .. m -> R]
    BY <1>2, InOrderLists
  <2> HIDE DEF m, q, u
  <2>3. q \in Seq(R)
    BY <2>1, <2>2
  <2> QED  BY <2>1, <2>3
<1>5. /\ w \in Seq(V) /\ Len(w) = m + 1
      /\ \A n \in 1 .. m + 1 : w[n] = a[Append(q, x)[n]].value
  <2> HIDE DEF T
  <2> QED  BY <1>2, <1>3, ValuesAtIs
<1> HIDE DEF m, q, u, T, w
<1>6. Append(q, x)[m + 1] = x /\ \A n \in 1 .. m : Append(q, x)[n] = q[n]
  <2>1. q \in Seq(T) /\ x \in T
    BY <1>4 DEF T
  <2> QED  BY <1>4, <2>1, AppendProperties
<1> DEFINE z == Append(u, a[x].value)
<1>7. /\ z \in Seq(V)
      /\ Len(z) = m + 1
      /\ \A n \in 1 .. m : z[n] = u[n]
      /\ z[m + 1] = a[x].value
  BY <1>1, <1>4, AppendProperties
<1>8. \A n \in 1 .. m + 1 : n \in 1 .. m \/ n = m + 1
  BY <1>4
<1> HIDE DEF z
<1>9. \A n \in 1 .. Len(w) : w[n] = z[n]
  BY <1>4, <1>5, <1>6, <1>7, <1>8
<1>10. w = z
  BY <1>5, <1>7, <1>9, SeqEqual
<1> QED  BY <1>10 DEF w, z, u, T

(* A Put without a key puts its value behind those that have none; with a  *)
(* key it leaves them alone.                                               *)
LEMMA PutPlain ==
  ASSUME NEW K, NEW V, NEW a \in ArraysOf(K, V), NEW c \in Cells(K, V)
  PROVE  Plain(Put(a, c.key, c.value)) =
           IF c.key = NoKey THEN Append(Plain(a), c.value) ELSE Plain(a)
<1> DEFINE p == Place(a, c.key)
           b == Put(a, c.key, c.value)
<1>1. PutAs(a, b, c, p) /\ b \in ArraysOf(K, V)
  BY PutPlace, PutIsArray
<1> HIDE DEF p, b
<1>2. Plain(a) = ValuesAt(a, Rest(a)) /\ Plain(b) = ValuesAt(b, Rest(b))
  BY DEF Plain, ValuesAt, Rest
<1>3. /\ Keyed(b) = IF c.key = NoKey THEN Keyed(a) ELSE Keyed(a) \cup {p}
      /\ c.key = NoKey => p \notin DOMAIN a
      /\ Keyed(a) \subseteq DOMAIN a
  BY <1>1, PutKeyed DEF Keyed
<1>4. DOMAIN b = DOMAIN a \cup {p} /\ b[p] = c
  BY <1>1 DEF PutAs
<1>5. p \notin Rest(a)
  BY <1>1, <1>3 DEF Rest, PutAs
<1>6. \A i \in Rest(a) : i \in DOMAIN b /\ b[i] = a[i]
  BY <1>1, <1>5 DEF Rest, PutAs
<1>7. ValuesAt(b, Rest(a)) = ValuesAt(a, Rest(a))
  <2>1. /\ DOMAIN InOrder(Rest(a)) = 1 .. Cardinality(Rest(a))
        /\ \A n \in 1 .. Cardinality(Rest(a)) : InOrder(Rest(a))[n] \in Rest(a)
    BY ValuesAtIs DEF Rest
  <2> QED  BY <1>6, <2>1 DEF ValuesAt
<1>8. CASE c.key = NoKey
  <2>1. Rest(b) = Rest(a) \cup {p}
    BY <1>3, <1>4, <1>8 DEF Rest
  <2>2. \A y \in Rest(a) : y < p
    BY <1>1, <1>3, <1>8 DEF PutAs, Rest
  <2>3. Rest(a) \in SUBSET DOMAIN b /\ p \in DOMAIN b
    BY <1>4, <1>6
  <2>4. ValuesAt(b, Rest(b)) = Append(ValuesAt(b, Rest(a)), b[p].value)
    BY <1>1, <2>1, <2>2, <2>3, ValuesAppend
  <2> QED  BY <1>2, <1>4, <1>7, <1>8, <2>4 DEF b
<1>9. CASE c.key # NoKey
  <2>1. Rest(b) = Rest(a)
    BY <1>3, <1>4, <1>5, <1>9 DEF Rest
  <2> QED  BY <1>2, <1>7, <1>9, <2>1 DEF b
<1> QED  BY <1>8, <1>9

-----------------------------------------------------------------------------
(* A turn of a loop that puts the elements of e into an array              *)
PutTurns(K, V, n, e) ==
  [x \in (1 .. n) \X ArraysOf(K, V) |->
     Put(x[2], e[x[1]].key, e[x[1]].value)]

(* The fold of these turns from b                                          *)
PutFold(h, b, n, e) ==
  h = [S \in SUBSET (1 .. n) |->
         IF S = {} THEN b
         ELSE Put(h[S \ {Max(S)}], e[Max(S)].key, e[Max(S)].value)]

FoldOfPuts(b, n, e) == (CHOOSE h : PutFold(h, b, n, e))[1 .. n]

(* r gives the array after each of the n turns.                            *)
PutRuns(r, K, V, b, n, e) ==
  /\ r \in [0 .. n -> ArraysOf(K, V)]
  /\ r[0] = b
  /\ \A k \in 1 .. n : r[k] = Put(r[k - 1], e[k].key, e[k].value)

(* The fold is a run of Puts.                                              *)
LEMMA PutsRun ==
  ASSUME NEW K, NEW V, NEW b \in ArraysOf(K, V), NEW n \in Nat,
         NEW e \in [1 .. n -> Cells(K, V)]
  PROVE  \E r : PutRuns(r, K, V, b, n, e) /\ FoldOfPuts(b, n, e) = r[n]
<1> DEFINE A == ArraysOf(K, V)
           F == PutTurns(K, V, n, e)
           it == CHOOSE h : PutFold(h, b, n, e)
<1>1. ASSUME NEW v \in A, NEW m \in 1 .. n
      PROVE  Put(v, e[m].key, e[m].value) \in A
  <2>1. e[m] \in Cells(K, V)
    OBVIOUS
  <2> QED  BY <2>1, PutIsArray
<1>2. F \in Turns(n, A)
  <2> HIDE DEF A
  <2>1. F = [x \in (1 .. n) \X A |-> Put(x[2], e[x[1]].key, e[x[1]].value)]
    BY DEF PutTurns, A
  <2> HIDE DEF F
  <2> QED  BY <1>1, <2>1 DEF Turns
<1>3. ASSUME NEW m \in 1 .. n, NEW v \in A
      PROVE  F[<<m, v>>] = Put(v, e[m].key, e[m].value)
  BY <1>3 DEF PutTurns
<1>4. ASSUME NEW S \in SUBSET (1 .. n), S # {} PROVE Max(S) \in 1 .. n
  BY <1>4, MaxOf
<1>5. b \in A
  OBVIOUS
<1> HIDE DEF A, F
<1>6. PutFold(it, b, n, e)
  <2>1. HasFold(A, b, n, F)
    BY <1>2, <1>5, FoldExists
  <2>2. PICK g \in [SUBSET (1 .. n) -> A] :
          \A S \in SUBSET (1 .. n) :
            g[S] = IF S = {} THEN b ELSE F[<<Max(S), g[S \ {Max(S)}]>>]
    BY <2>1 DEF HasFold
  <2>3. PutFold(g, b, n, e)
    BY <1>3, <1>4, <2>2 DEF PutFold
  <2> QED  BY <2>3
<1> HIDE DEF it
<1>7. Folds(it, A, b, n, F)
  BY <1>3, <1>4, <1>6 DEF PutFold, Folds
<1>8. PICK r : Runs(r, A, b, n, F) /\ it[1 .. n] = r[n]
  BY <1>2, <1>5, <1>7, FoldRuns
<1>9. ASSUME NEW k \in 1 .. n
      PROVE  r[k] = Put(r[k - 1], e[k].key, e[k].value)
  <2>1. k - 1 \in 0 .. n
    OBVIOUS
  <2>2. r[k - 1] \in A /\ r[k] = F[<<k, r[k - 1]>>]
    BY <1>8, <2>1 DEF Runs
  <2> QED  BY <1>3, <2>2
<1>10. PutRuns(r, K, V, b, n, e)
  <2>1. r \in [0 .. n -> A] /\ r[0] = b
    BY <1>8 DEF Runs
  <2> QED  BY <1>9, <2>1 DEF PutRuns, A
<1>11. FoldOfPuts(b, n, e) = it[1 .. n]
  BY DEF FoldOfPuts, it
<1> QED  BY <1>8, <1>10, <1>11

(* The elements of a at the indexes in S, in their order                   *)
CellsAt(a, S) == [n \in 1 .. Cardinality(S) |-> a[InOrder(S)[n]]]

(* An iteration of merge is a fold of Puts.                                *)
LEMMA MergeEachPuts ==
  ASSUME NEW to, NEW a, NEW S \in IndexSets
  PROVE  MergeEach(to, a, S) = FoldOfPuts(to, Cardinality(S), CellsAt(a, S))
<1> DEFINE n == Cardinality(S)
           q == InOrder(S)
           e == CellsAt(a, S)
           G(h) == h = [T \in SUBSET (1 .. n) |->
                          IF T = {} THEN to
                          ELSE MergeElem(h[T \ {Max(T)}], a[q[Max(T)]])]
<1>1. n \in Nat /\ DOMAIN q = 1 .. n
  BY InOrderLists
<1>2. ASSUME NEW T \in SUBSET (1 .. n), T # {}
      PROVE  e[Max(T)] = a[q[Max(T)]]
  <2>1. Max(T) \in 1 .. n
    <3> HIDE DEF n
    <3> QED  BY <1>1, <1>2, MaxOf
  <2> QED  BY <2>1 DEF CellsAt
<1>3. MergeEach(to, a, S) = (CHOOSE h : G(h))[1 .. n]
  <2>1. \A h : G(h) <=> h = [T \in SUBSET DOMAIN q |->
                               IF T = {} THEN to
                               ELSE MergeElem(h[T \ {Max(T)}], a[q[Max(T)]])]
    BY <1>1
  <2> QED  BY <1>1 DEF MergeEach, FoldLeft, MapThenFoldSet
<1> HIDE DEF n, q, e
<1>4. ASSUME NEW h PROVE G(h) <=> PutFold(h, to, n, e)
  BY <1>2 DEF PutFold, MergeElem
<1> HIDE DEF G
<1>5. (CHOOSE h : G(h)) = (CHOOSE h : PutFold(h, to, n, e))
  BY <1>4
<1> QED  BY <1>3, <1>5 DEF FoldOfPuts, n, e

(* SetToSeq lists a finite set without repetition.                         *)
LEMMA SetListed ==
  ASSUME NEW W, IsFiniteSet(W)
  PROVE  /\ Cardinality(W) \in Nat
         /\ SetToSeq(W) \in [1 .. Cardinality(W) -> W]
         /\ Len(SetToSeq(W)) = Cardinality(W)
         /\ \A i, j \in 1 .. Cardinality(W) :
              SetToSeq(W)[i] = SetToSeq(W)[j] => i = j
         /\ \A x \in W : \E j \in 1 .. Cardinality(W) : SetToSeq(W)[j] = x
<1> DEFINE n == Cardinality(W)
           q == SetToSeq(W)
<1>1. n \in Nat /\ q \in [1 .. n -> W] /\ IsInjective(q)
  <2>1. n \in Nat /\ \E g \in [1 .. n -> W] : IsInjective(g)
    BY FS_CardinalityType DEF ExistsBijection, Bijection, Injection
  <2> QED  BY <2>1 DEF SetToSeq
<1> HIDE DEF n, q
<1>2. q \in Injection(1 .. n, W)
  BY <1>1 DEF Injection
<1>3. \A x \in W : \E j \in 1 .. n : q[j] = x
  <2>1. Cardinality(1 .. n) = n
    BY <1>1, FS_Interval
  <2>2. q \in Surjection(1 .. n, W)
    BY <1>2, <2>1, FS_Injection DEF n
  <2> QED  BY <2>2 DEF Surjection
<1>4. Len(q) = n
  BY <1>1
<1>5. \A i, j \in 1 .. n : q[i] = q[j] => i = j
  BY <1>1 DEF IsInjective
<1> QED  BY <1>1, <1>3, <1>4, <1>5 DEF n, q

(* The elements that Keys puts, in the order of the iteration              *)
KeyCells(t) == [n \in 1 .. Len(t) |-> Elem(NoKey, t[n])]

(* The iteration over the keys is a fold of Puts.                          *)
LEMMA KeysPuts ==
  ASSUME NEW a, NEW n \in Nat, DOMAIN SetToSeq(KeysOf(a)) = 1 .. n,
         Len(SetToSeq(KeysOf(a))) = n
  PROVE  Keys(a) = FoldOfPuts(EmptyArray, n, KeyCells(SetToSeq(KeysOf(a))))
<1> DEFINE q == SetToSeq(KeysOf(a))
           e == KeyCells(q)
           G(h) == h = [T \in SUBSET (1 .. n) |->
                          IF T = {} THEN EmptyArray
                          ELSE Put(h[T \ {Max(T)}], NoKey, q[Max(T)])]
<1>1. DOMAIN q = 1 .. n
  OBVIOUS
<1>2. ASSUME NEW T \in SUBSET (1 .. n), T # {}
      PROVE  e[Max(T)].key = NoKey /\ e[Max(T)].value = q[Max(T)]
  <2>1. Max(T) \in 1 .. n
    BY <1>2, MaxOf
  <2>2. e[Max(T)] = Elem(NoKey, q[Max(T)])
    BY <2>1 DEF KeyCells
  <2> QED  BY <2>2 DEF Elem
<1>3. Keys(a) = (CHOOSE h : G(h))[1 .. n]
  BY <1>1 DEF Keys, FoldLeft, MapThenFoldSet
<1> HIDE DEF q, e
<1>4. ASSUME NEW h PROVE G(h) <=> PutFold(h, EmptyArray, n, e)
  BY <1>2 DEF PutFold
<1> HIDE DEF G
<1>5. (CHOOSE h : G(h)) = (CHOOSE h : PutFold(h, EmptyArray, n, e))
  BY <1>4
<1> QED  BY <1>3, <1>5 DEF FoldOfPuts, e, q

(* No two elements of e have the same key.                                 *)
Apart(e, n) ==
  \A j, k \in 1 .. n : e[j].key = e[k].key /\ e[j].key # NoKey => j = k

(* The entries of the first k elements of e, and those of b under other    *)
(* keys                                                                    *)
EntriesOf(e, k) ==
  {<<e[j].key, e[j].value>> : j \in {i \in 1 .. k : e[i].key # NoKey}}

Kept(b, e, k) == {x \in Entries(b) : \A j \in 1 .. k : x[1] # e[j].key}

(* A run of Puts has the entries of its elements, and the others that were *)
(* there before.                                                           *)
LEMMA PutsEntries ==
  ASSUME NEW K, NEW V, NEW b, NEW n \in Nat,
         NEW e \in [1 .. n -> Cells(K, V)], Apart(e, n),
         NEW r, PutRuns(r, K, V, b, n, e)
  PROVE  Entries(r[n]) = Kept(b, e, n) \cup EntriesOf(e, n)
<1> DEFINE T == {k \in 0 .. n : Entries(r[k]) = Kept(b, e, k) \cup EntriesOf(e, k)}
<1>1. 0 \in T
  <2>1. r[0] = b
    BY DEF PutRuns
  <2>2. Kept(b, e, 0) = Entries(b) /\ EntriesOf(e, 0) = {}
    <3>1. (1 .. 0) = {}
      OBVIOUS
    <3> QED  BY <3>1 DEF Kept, EntriesOf
  <2> QED  BY <2>1, <2>2
<1>2. ASSUME NEW k \in 0 .. n - 1, k \in T PROVE k + 1 \in T
  <2> DEFINE c == e[k + 1]
             s == r[k]
  <2>1. /\ k + 1 \in 1 .. n /\ k + 1 \in 0 .. n /\ k \in 0 .. n
        /\ (k + 1) - 1 = k
        /\ \A j : j \in 1 .. k + 1 <=> (j \in 1 .. k \/ j = k + 1)
        /\ \A j \in 1 .. k : j \in 1 .. n /\ j # k + 1
    OBVIOUS
  <2>2. r[k + 1] = Put(s, c.key, c.value)
    BY <2>1 DEF PutRuns
  <2>3. c \in Cells(K, V) /\ s \in ArraysOf(K, V)
    BY <2>1 DEF PutRuns
  <2>4. Entries(s) = Kept(b, e, k) \cup EntriesOf(e, k)
    BY <1>2
  <2> HIDE DEF c, s
  <2>5. Entries(r[k + 1]) = EntriesWith(s, c)
    BY <2>2, <2>3, PutEntries
  <2> USE DEF c
  <2>6. CASE c.key = NoKey
    <3>1. \A x \in Entries(b) : x[1] # NoKey
      BY DEF Entries, Keyed
    <3>2. Kept(b, e, k + 1) = Kept(b, e, k)
      BY <2>1, <2>6, <3>1 DEF Kept
    <3>3. {i \in 1 .. k + 1 : e[i].key # NoKey} = {i \in 1 .. k : e[i].key # NoKey}
      BY <2>1, <2>6
    <3>4. EntriesOf(e, k + 1) = EntriesOf(e, k)
      BY <3>3 DEF EntriesOf
    <3> QED  BY <2>1, <2>4, <2>5, <2>6, <3>2, <3>4 DEF EntriesWith
  <2>7. CASE c.key # NoKey
    <3>1. Kept(b, e, k + 1) = {x \in Kept(b, e, k) : x[1] # c.key}
      BY <2>1 DEF Kept
    <3>2. {i \in 1 .. k + 1 : e[i].key # NoKey}
            = {i \in 1 .. k : e[i].key # NoKey} \cup {k + 1}
      BY <2>1, <2>7
    <3>3. EntriesOf(e, k + 1) = EntriesOf(e, k) \cup {<<c.key, c.value>>}
      BY <3>2 DEF EntriesOf
    <3>4. \A x \in EntriesOf(e, k) : x[1] # c.key
      BY <2>1, <2>7 DEF EntriesOf, Apart
    <3>5. {x \in Kept(b, e, k) \cup EntriesOf(e, k) : x[1] # c.key}
            = {x \in Kept(b, e, k) : x[1] # c.key} \cup EntriesOf(e, k)
      BY <3>4
    <3>6. Entries(r[k + 1]) = Kept(b, e, k + 1) \cup EntriesOf(e, k + 1)
      BY <2>4, <2>5, <2>7, <3>1, <3>3, <3>5 DEF EntriesWith
    <3> QED  BY <2>1, <3>6
  <2> QED  BY <2>6, <2>7
<1> HIDE DEF T
<1>3. 0 .. n \subseteq T
  BY <1>1, <1>2, UpTo
<1>4. n \in T
  BY <1>3
<1> QED  BY <1>4 DEF T

(* The elements of e at the indexes from 0                                 *)
Shifted(e, n) == [j \in 0 .. n - 1 |-> e[j + 1]]

(* From the empty array, every element comes behind the others.            *)
LEMMA PutsAppend ==
  ASSUME NEW K, NEW V, NEW n \in Nat,
         NEW e \in [1 .. n -> Cells(K, V)], Apart(e, n),
         NEW r, PutRuns(r, K, V, EmptyArray, n, e)
  PROVE  r[n] = Shifted(e, n)
<1> DEFINE Q(k) == Shifted(e, k)
           T == {k \in 0 .. n : r[k] = Q(k)}
<1>1. 0 \in T
  <2>1. r[0] = EmptyArray
    BY DEF PutRuns
  <2>2. (0 .. 0 - 1) = {}
    OBVIOUS
  <2>3. Q(0) = EmptyArray
    BY <2>2 DEF EmptyArray, Shifted
  <2> QED  BY <2>1, <2>3
<1>2. ASSUME NEW k \in 0 .. n - 1, k \in T PROVE k + 1 \in T
  <2> DEFINE c == e[k + 1]
             s == Q(k)
  <2>1. /\ k + 1 \in 1 .. n /\ k + 1 \in 0 .. n /\ k \in 0 .. n /\ k \in Nat
        /\ (k + 1) - 1 = k
        /\ \A j \in 0 .. k - 1 : j + 1 \in 1 .. n /\ j + 1 # k + 1 /\ j # k
        /\ 0 .. k = 0 .. k - 1 \cup {k}
    OBVIOUS
  <2>2. r[k + 1] = Put(s, c.key, c.value)
    BY <1>2, <2>1 DEF PutRuns
  <2>3. c \in Cells(K, V) /\ s \in ArraysOf(K, V)
    <3>1. r[k] \in ArraysOf(K, V) /\ r[k] = s
      BY <1>2, <2>1 DEF PutRuns
    <3> QED  BY <2>1, <3>1
  <2>4. /\ DOMAIN s = 0 .. k - 1
        /\ \A j \in 0 .. k - 1 : s[j] = e[j + 1]
    BY DEF Shifted
  <2> HIDE DEF Q
  <2>5. c.key \notin KeysOf(s)
    <3>1. SUFFICES ASSUME NEW j \in 0 .. k - 1, s[j].key # NoKey,
                          s[j].key = c.key
                   PROVE  FALSE
      BY <2>4 DEF KeysOf, Keyed
    <3>2. e[j + 1].key = e[k + 1].key /\ e[j + 1].key # NoKey
      BY <2>4, <3>1
    <3>3. j + 1 \in 1 .. n /\ j + 1 # k + 1
      BY <2>1
    <3> QED  BY <2>1, <3>2, <3>3 DEF Apart
  <2>6. Place(s, c.key) = k
    <3>1. Place(s, c.key) = NextIndex(s)
      BY <2>5 DEF Place
    <3>2. CASE k = 0
      <4>1. (0 .. k - 1) = {}
        BY <3>2
      <4> QED  BY <2>4, <3>1, <3>2, <4>1 DEF NextIndex
    <3>3. CASE k # 0
      <4>1. k - 1 \in 0 .. k - 1 /\ \A j \in 0 .. k - 1 : k - 1 >= j
        BY <2>1, <3>3
      <4>2. Max(0 .. k - 1) \in 0 .. k - 1 /\ \A j \in 0 .. k - 1 : Max(0 .. k - 1) >= j
        BY <4>1 DEF Max
      <4>3. Max(0 .. k - 1) = k - 1
        BY <2>1, <4>1, <4>2
      <4>4. NextIndex(s) = (k - 1) + 1
        BY <2>4, <4>1, <4>3 DEF NextIndex
      <4> QED  BY <2>1, <3>1, <4>4
    <3> QED  BY <3>2, <3>3
  <2>7. PutAs(s, r[k + 1], c, k)
    BY <2>2, <2>3, <2>6, PutPlace
  <2>8. r[k + 1] = Q(k + 1)
    <3>1. /\ DOMAIN r[k + 1] = 0 .. k
          /\ r[k + 1] = [j \in DOMAIN r[k + 1] |-> r[k + 1][j]]
          /\ \A j \in 0 .. k : r[k + 1][j] = e[j + 1]
      BY <2>1, <2>4, <2>7 DEF PutAs
    <3>2. Q(k + 1) = [j \in 0 .. k |-> e[j + 1]]
      BY <2>1 DEF Q, Shifted
    <3> QED  BY <3>1, <3>2
  <2> QED  BY <2>1, <2>8
<1> HIDE DEF T
<1>3. 0 .. n \subseteq T
  BY <1>1, <1>2, UpTo
<1>4. n \in T
  BY <1>3
<1> QED  BY <1>4 DEF T

-----------------------------------------------------------------------------
(* The elements that an iteration visits, one after the other              *)
LEMMA CellsAtIs ==
  ASSUME NEW K, NEW V, NEW a \in ArraysOf(K, V), NEW S \in SUBSET DOMAIN a
  PROVE  /\ S \in IndexSets
         /\ Cardinality(S) \in Nat
         /\ CellsAt(a, S) \in [1 .. Cardinality(S) -> Cells(K, V)]
         /\ Apart(CellsAt(a, S), Cardinality(S))
<1> DEFINE n == Cardinality(S)
           q == InOrder(S)
           e == CellsAt(a, S)
<1>1. S \in IndexSets
  BY ValuesAtIs
<1>2. /\ n \in Nat
      /\ q \in [1 .. n -> S]
      /\ \A j, k \in 1 .. n : j < k => q[j] < q[k]
  BY <1>1, InOrderLists
<1>3. e = [j \in 1 .. n |-> a[q[j]]]
  BY DEF CellsAt
<1> HIDE DEF n, q, e
<1>4. ASSUME NEW j \in 1 .. n PROVE e[j] = a[q[j]] /\ q[j] \in DOMAIN a
  BY <1>2, <1>3
<1>5. \A i \in DOMAIN a : a[i] \in Cells(K, V) /\ i \in Nat
  BY ArrayIs DEF IndexSets
<1>6. e \in [1 .. n -> Cells(K, V)]
  BY <1>3, <1>4, <1>5
<1>7. ASSUME NEW j \in 1 .. n, NEW k \in 1 .. n,
             e[j].key = e[k].key, e[j].key # NoKey
      PROVE  j = k
  <2>1. q[j] \in Keyed(a) /\ q[k] \in Keyed(a)
    BY <1>4, <1>7 DEF Keyed
  <2>2. q[j] = q[k]
    BY <1>4, <1>7, <2>1, ArrayIs
  <2>3. q[j] \in Nat
    BY <1>4, <1>5
  <2>4. ~(j < k) /\ ~(k < j)
    BY <1>2, <2>2, <2>3
  <2> QED  BY <1>2, <2>4
<1> QED  BY <1>1, <1>2, <1>6, <1>7 DEF Apart, n, e

(* The entries of a at the indexes in S, and those of to under other keys  *)
EntriesAt(a, S) == {<<a[i].key, a[i].value>> : i \in S \cap Keyed(a)}

Others(to, a, S) == {x \in Entries(to) : \A i \in S : x[1] # a[i].key}

(* An iteration of merge adds the entries of the elements that it visits,  *)
(* in the place of those that had the same keys.                           *)
LEMMA MergeEntries ==
  ASSUME NEW K, NEW V, NEW to \in ArraysOf(K, V), NEW a \in ArraysOf(K, V),
         NEW S \in SUBSET DOMAIN a
  PROVE  /\ MergeEach(to, a, S) \in ArraysOf(K, V)
         /\ Entries(MergeEach(to, a, S)) = Others(to, a, S) \cup EntriesAt(a, S)
<1> DEFINE n == Cardinality(S)
           q == InOrder(S)
           e == CellsAt(a, S)
           m == MergeEach(to, a, S)
<1>1. S \in IndexSets /\ n \in Nat /\ e \in [1 .. n -> Cells(K, V)] /\ Apart(e, n)
  BY CellsAtIs
<1>2. /\ q \in [1 .. n -> S]
      /\ \A i \in S : \E j \in 1 .. n : q[j] = i
  BY <1>1, InOrderLists
<1>3. \A j \in 1 .. n : e[j] = a[q[j]]
  BY DEF CellsAt
<1>4. m = FoldOfPuts(to, n, e)
  BY <1>1, MergeEachPuts
<1> HIDE DEF n, q, e, m
<1>5. PICK r : PutRuns(r, K, V, to, n, e) /\ m = r[n]
  BY <1>1, <1>4, PutsRun
<1>6. m \in ArraysOf(K, V)
  <2>1. n \in 0 .. n
    BY <1>1
  <2> QED  BY <1>5, <2>1 DEF PutRuns
<1>7. Entries(m) = Kept(to, e, n) \cup EntriesOf(e, n)
  BY <1>1, <1>5, PutsEntries
<1>8. Kept(to, e, n) = Others(to, a, S)
  BY <1>2, <1>3 DEF Kept, Others
<1>9. EntriesOf(e, n) = EntriesAt(a, S)
  <2>1. ASSUME NEW x \in EntriesOf(e, n) PROVE x \in EntriesAt(a, S)
    <3>1. PICK j \in 1 .. n : e[j].key # NoKey /\ x = <<e[j].key, e[j].value>>
      BY DEF EntriesOf
    <3>2. q[j] \in S /\ q[j] \in Keyed(a) /\ e[j] = a[q[j]]
      BY <1>2, <1>3, <3>1 DEF Keyed
    <3> QED  BY <3>1, <3>2 DEF EntriesAt
  <2>2. ASSUME NEW x \in EntriesAt(a, S) PROVE x \in EntriesOf(e, n)
    <3>1. PICK i \in S : i \in Keyed(a) /\ x = <<a[i].key, a[i].value>>
      BY DEF EntriesAt
    <3>2. PICK j \in 1 .. n : q[j] = i
      BY <1>2
    <3>3. e[j] = a[i] /\ e[j].key # NoKey
      BY <1>3, <3>1, <3>2 DEF Keyed
    <3> QED  BY <3>1, <3>3 DEF EntriesOf
  <2> QED  BY <2>1, <2>2
<1> QED  BY <1>6, <1>7, <1>8, <1>9 DEF m

(* The empty array is an array.                                            *)
LEMMA EmptyIsArray ==
  ASSUME NEW K, NEW V
  PROVE  EmptyArray \in ArraysOf(K, V) /\ DOMAIN EmptyArray = {}
<1>1. DOMAIN EmptyArray = {}
  BY DEF EmptyArray
<1>2. EmptyArray \in [DOMAIN EmptyArray -> Cells(K, V)]
  BY <1>1 DEF EmptyArray
<1>3. DOMAIN EmptyArray \in IndexSets
  BY <1>1, FS_EmptySet DEF IndexSets
<1>4. Keyed(EmptyArray) = {}
  BY <1>1 DEF Keyed
<1> QED  BY <1>1, <1>2, <1>3, <1>4, ArrayIs

(* Copies of the elements of a at the indexes in S, at the indexes from 0  *)
CopiesOf(a, S) == [j \in 0 .. Cardinality(S) - 1 |-> a[InOrder(S)[j + 1]]]

(* Into the empty array, an iteration of merge copies the elements that it *)
(* visits.                                                                 *)
LEMMA MergeIntoEmpty ==
  ASSUME NEW K, NEW V, NEW a \in ArraysOf(K, V), NEW S \in SUBSET DOMAIN a
  PROVE  MergeEach(EmptyArray, a, S) = CopiesOf(a, S)
<1> DEFINE n == Cardinality(S)
           e == CellsAt(a, S)
           m == MergeEach(EmptyArray, a, S)
<1>1. S \in IndexSets /\ n \in Nat /\ e \in [1 .. n -> Cells(K, V)] /\ Apart(e, n)
  BY CellsAtIs
<1>2. EmptyArray \in ArraysOf(K, V)
  BY EmptyIsArray
<1>3. m = FoldOfPuts(EmptyArray, n, e)
  BY <1>1, MergeEachPuts
<1>4. \A j \in 0 .. n - 1 : j + 1 \in 1 .. n
  BY <1>1
<1>5. \A j \in 0 .. n - 1 : e[j + 1] = a[InOrder(S)[j + 1]]
  BY <1>4 DEF CellsAt
<1> HIDE DEF n, e, m
<1>6. PICK r : PutRuns(r, K, V, EmptyArray, n, e) /\ m = r[n]
  BY <1>1, <1>2, <1>3, PutsRun
<1>7. r[n] = Shifted(e, n)
  BY <1>1, <1>6, PutsAppend
<1>8. m = [j \in 0 .. n - 1 |-> a[InOrder(S)[j + 1]]]
  BY <1>5, <1>6, <1>7 DEF Shifted
<1> QED  BY <1>8 DEF m, n, CopiesOf

(* The indexes of the first k elements visited that have no key            *)
PlainAmong(a, q, k) == {q[j] : j \in 1 .. k} \ Keyed(a)

(* v becomes the last of t.                                                *)
AppendsLast(s, t, v) == Append(s \o t, v) = s \o Append(t, v)

(* An element is appended to a concatenation at its second sequence.       *)
LEMMA AppendToConcat ==
  ASSUME NEW V, NEW s \in Seq(V), NEW t \in Seq(V), NEW v \in V
  PROVE  AppendsLast(s, t, v)
<1>1. s \o t \in Seq(V) /\ <<v>> \in Seq(V)
  BY ConcatProperties
<1>2. Append(s \o t, v) = (s \o t) \o <<v>>
  BY <1>1, AppendIsConcat
<1>3. Append(t, v) = t \o <<v>>
  BY AppendIsConcat
<1>4. (s \o t) \o <<v>> = s \o (t \o <<v>>)
  BY <1>1, ConcatAssociative
<1> QED  BY <1>2, <1>3, <1>4 DEF AppendsLast

(* An iteration of merge puts the values without a key behind those there  *)
(* are, in their order.                                                    *)
LEMMA MergePlain ==
  ASSUME NEW K, NEW V, NEW to \in ArraysOf(K, V), NEW a \in ArraysOf(K, V),
         NEW S \in SUBSET DOMAIN a
  PROVE  Plain(MergeEach(to, a, S)) = Plain(to) \o ValuesAt(a, S \ Keyed(a))
<1> DEFINE n == Cardinality(S)
           q == InOrder(S)
           e == CellsAt(a, S)
           m == MergeEach(to, a, S)
           R(k) == PlainAmong(a, q, k)
<1>1. S \in IndexSets /\ n \in Nat /\ e \in [1 .. n -> Cells(K, V)]
  BY CellsAtIs
<1>2. /\ q \in [1 .. n -> S]
      /\ \A i \in S : \E j \in 1 .. n : q[j] = i
      /\ \A j, k \in 1 .. n : j < k => q[j] < q[k]
  BY <1>1, InOrderLists
<1>3. \A j \in 1 .. n : e[j] = a[q[j]] /\ q[j] \in DOMAIN a
  BY <1>2 DEF CellsAt
<1>4. m = FoldOfPuts(to, n, e)
  BY <1>1, MergeEachPuts
<1> HIDE DEF n, q, e, m
<1>5. PICK r : PutRuns(r, K, V, to, n, e) /\ m = r[n]
  BY <1>1, <1>4, PutsRun
<1>6. Plain(to) \in Seq(V)
  <2>1. Plain(to) = ValuesAt(to, Rest(to))
    BY DEF Plain, ValuesAt, Rest
  <2>2. Rest(to) \in SUBSET DOMAIN to
    BY DEF Rest
  <2> QED  BY <2>1, <2>2, ValuesAtIs
<1>7. \A k \in 0 .. n : R(k) \in SUBSET DOMAIN a
  BY <1>1, <1>3 DEF PlainAmong
<1> DEFINE T == {k \in 0 .. n : Plain(r[k]) = Plain(to) \o ValuesAt(a, R(k))}
<1>8. 0 \in T
  <2>1. r[0] = to
    BY <1>5 DEF PutRuns
  <2>2. R(0) = {} /\ {} \in SUBSET DOMAIN a
    <3>1. (1 .. 0) = {}
      OBVIOUS
    <3> QED  BY <3>1 DEF PlainAmong
  <2>3. ValuesAt(a, {}) \in Seq(V) /\ Len(ValuesAt(a, {})) = 0
    BY <2>2, ValuesAtIs, FS_EmptySet
  <2>4. ValuesAt(a, {}) = <<>>
    BY <2>3, EmptySeq
  <2>5. Plain(to) \o ValuesAt(a, R(0)) = Plain(to)
    <3> HIDE DEF R
    <3> QED  BY <1>6, <2>2, <2>4, ConcatEmptySeq
  <2>6. 0 \in 0 .. n
    BY <1>1
  <2> QED  BY <2>1, <2>5, <2>6
<1>9. ASSUME NEW k \in 0 .. n - 1, k \in T PROVE k + 1 \in T
  <2> DEFINE c == e[k + 1]
             s == r[k]
             u == ValuesAt(a, R(k))
  <2>1. /\ k + 1 \in 1 .. n /\ k + 1 \in 0 .. n /\ k \in 0 .. n
        /\ (k + 1) - 1 = k
        /\ \A j : j \in 1 .. k + 1 <=> (j \in 1 .. k \/ j = k + 1)
        /\ \A j \in 1 .. k : j \in 1 .. n /\ j < k + 1
    BY <1>1
  <2>2. r[k + 1] = Put(s, c.key, c.value)
    BY <1>5, <2>1 DEF PutRuns
  <2>3. c \in Cells(K, V) /\ s \in ArraysOf(K, V)
    BY <1>1, <1>5, <2>1 DEF PutRuns
  <2>4. Plain(s) = Plain(to) \o u
    BY <1>9
  <2>5. c = a[q[k + 1]] /\ q[k + 1] \in DOMAIN a
    BY <1>3, <2>1
  <2>6. u \in Seq(V)
    <3>1. R(k) \in SUBSET DOMAIN a
      BY <1>7, <2>1
    <3> HIDE DEF R
    <3> QED  BY <3>1, ValuesAtIs
  <2>7. {q[j] : j \in 1 .. k + 1} = {q[j] : j \in 1 .. k} \cup {q[k + 1]}
    BY <2>1
  <2> HIDE DEF c, s, u, T
  <2>8. Plain(r[k + 1]) = IF c.key = NoKey THEN Append(Plain(s), c.value)
                                           ELSE Plain(s)
    BY <2>2, <2>3, PutPlain
  <2>9. Plain(r[k + 1]) = Plain(to) \o ValuesAt(a, R(k + 1))
    <3>1. CASE c.key = NoKey
      <4>1. R(k + 1) = R(k) \cup {q[k + 1]}
        BY <2>5, <2>7, <3>1 DEF PlainAmong, Keyed
      <4>2. \A y \in R(k) : y < q[k + 1]
        BY <1>2, <2>1 DEF PlainAmong
      <4>3. R(k) \in SUBSET DOMAIN a /\ c.value \in V
        BY <1>7, <2>1, <2>3 DEF Cells
      <4>4. ValuesAt(a, R(k + 1)) = Append(u, c.value)
        <5> HIDE DEF R
        <5> QED  BY <2>5, <4>1, <4>2, <4>3, ValuesAppend DEF u
      <4>5. Append(Plain(to) \o u, c.value) = Plain(to) \o Append(u, c.value)
        <5>1. c.value \in V
          BY <4>3
        <5>2. AppendsLast(Plain(to), u, c.value)
          BY <1>6, <2>6, <5>1, AppendToConcat
        <5> QED  BY <5>2 DEF AppendsLast
      <4> QED  BY <2>4, <2>8, <3>1, <4>4, <4>5
    <3>2. CASE c.key # NoKey
      <4>1. R(k + 1) = R(k)
        BY <2>5, <2>7, <3>2 DEF PlainAmong, Keyed
      <4> QED  BY <2>4, <2>8, <3>2, <4>1 DEF u
    <3> QED  BY <3>1, <3>2
  <2> QED  BY <2>1, <2>9 DEF T
<1> HIDE DEF T
<1>10. 0 .. n \subseteq T
  BY <1>1, <1>8, <1>9, UpTo
<1>11. n \in T
  BY <1>1, <1>10
<1>12. R(n) = S \ Keyed(a)
  BY <1>2 DEF PlainAmong
<1> QED  BY <1>5, <1>11, <1>12 DEF T, m

-----------------------------------------------------------------------------
(* The first numbers are in their own order.                               *)
LEMMA InOrderUpTo ==
  ASSUME NEW m \in Nat
  PROVE  /\ 0 .. m - 1 \in IndexSets
         /\ Cardinality(0 .. m - 1) = m
         /\ \A j \in 0 .. m - 1 : InOrder(0 .. m - 1)[j + 1] = j
<1> DEFINE S == 0 .. m - 1
<1>1. IsFiniteSet(S) /\ Cardinality(S) = m
  BY FS_Interval
<1>2. S \in IndexSets
  BY <1>1 DEF IndexSets
<1>3. ASSUME NEW j \in S PROVE InOrder(S)[j + 1] = j
  <2>1. Before(S, j) = 0 .. j - 1
    BY DEF Before
  <2>2. Rank(S, j) = j
    BY <2>1, FS_Interval DEF Rank
  <2>3. j + 1 \in 1 .. Cardinality(S) /\ (j + 1) - 1 = j
    BY <1>1
  <2> HIDE DEF S
  <2> QED  BY <1>2, <2>2, <2>3, InOrderLists
<1> QED  BY <1>1, <1>2, <1>3

(* A merge has the entries of both arrays, those of the second first of    *)
(* all, and the other values of both.                                      *)
LEMMA MergeViews ==
  ASSUME NEW K, NEW V, NEW a \in ArraysOf(K, V), NEW b \in ArraysOf(K, V)
  PROVE  /\ Entries(Merge(a, b)) =
              {e \in Entries(a) : e[1] \notin KeysOf(b)} \cup Entries(b)
         /\ Plain(Merge(a, b)) = Plain(a) \o Plain(b)
<1> DEFINE c == MergeInto(EmptyArray, a)
<1>1. \A x : EntriesAt(x, DOMAIN x) = Entries(x)
  BY DEF EntriesAt, Entries, Keyed
<1>2. \A x : Plain(x) = ValuesAt(x, DOMAIN x \ Keyed(x))
  BY DEF Plain, ValuesAt
<1>3. EmptyArray \in ArraysOf(K, V)
  BY EmptyIsArray
<1>4. DOMAIN EmptyArray = {}
  BY EmptyIsArray
<1>5. /\ c \in ArraysOf(K, V)
      /\ Entries(c) = Others(EmptyArray, a, DOMAIN a) \cup EntriesAt(a, DOMAIN a)
      /\ Plain(c) = Plain(EmptyArray) \o Plain(a)
  <2>1. c = MergeEach(EmptyArray, a, DOMAIN a) /\ DOMAIN a \in SUBSET DOMAIN a
    BY DEF MergeInto
  <2> HIDE DEF c
  <2>2. /\ c \in ArraysOf(K, V)
        /\ Entries(c) = Others(EmptyArray, a, DOMAIN a) \cup EntriesAt(a, DOMAIN a)
    BY <1>3, <2>1, MergeEntries
  <2>3. Plain(c) = Plain(EmptyArray) \o ValuesAt(a, DOMAIN a \ Keyed(a))
    <3>1. Plain(MergeEach(EmptyArray, a, DOMAIN a)) =
            Plain(EmptyArray) \o ValuesAt(a, DOMAIN a \ Keyed(a))
      <4>1. DOMAIN a \in SUBSET DOMAIN a
        OBVIOUS
      <4> QED  BY <1>3, <4>1, MergePlain
    <3> QED  BY <2>1, <3>1
  <2> QED  BY <1>2, <2>2, <2>3
<1>6. Entries(c) = Entries(a)
  <2>1. Others(EmptyArray, a, DOMAIN a) = {}
    BY <1>4 DEF Others, Entries, Keyed
  <2> QED  BY <1>1, <1>5, <2>1
<1>7. Plain(a) \in Seq(V)
  <2>1. DOMAIN a \ Keyed(a) \in SUBSET DOMAIN a
    OBVIOUS
  <2> QED  BY <1>2, <2>1, ValuesAtIs
<1>8. Plain(c) = Plain(a)
  <2>1. Plain(EmptyArray) = ValuesAt(EmptyArray, {})
    BY <1>2, <1>4
  <2>2. /\ ValuesAt(EmptyArray, {}) \in Seq(V)
        /\ Len(ValuesAt(EmptyArray, {})) = 0
    BY <1>3, ValuesAtIs, FS_EmptySet
  <2>3. Plain(EmptyArray) = <<>>
    BY <2>1, <2>2, EmptySeq
  <2> QED  BY <1>5, <1>7, <2>3, ConcatEmptySeq
<1> HIDE DEF c
<1>9. /\ Entries(Merge(a, b)) = Others(c, b, DOMAIN b) \cup Entries(b)
      /\ Plain(Merge(a, b)) = Plain(a) \o Plain(b)
  <2>1. /\ Merge(a, b) = MergeEach(c, b, DOMAIN b)
        /\ DOMAIN b \in SUBSET DOMAIN b
    BY DEF Merge, MergeInto, c
  <2>2. Entries(Merge(a, b)) = Others(c, b, DOMAIN b) \cup EntriesAt(b, DOMAIN b)
    BY <1>5, <2>1, MergeEntries
  <2>3. Plain(Merge(a, b)) = Plain(c) \o ValuesAt(b, DOMAIN b \ Keyed(b))
    <3>1. c \in ArraysOf(K, V)
      BY <1>5
    <3>2. Plain(MergeEach(c, b, DOMAIN b)) =
            Plain(c) \o ValuesAt(b, DOMAIN b \ Keyed(b))
      BY <2>1, <3>1, MergePlain
    <3> QED  BY <2>1, <3>2
  <2> QED  BY <1>1, <1>2, <1>8, <2>2, <2>3
<1>10. Others(c, b, DOMAIN b) = {e \in Entries(a) : e[1] \notin KeysOf(b)}
  <2>1. \A e \in Entries(a) :
          (\A i \in DOMAIN b : e[1] # b[i].key) <=> e[1] \notin KeysOf(b)
    <3>1. \A e \in Entries(a) : e[1] # NoKey
      BY DEF Entries, Keyed
    <3> QED  BY <3>1 DEF KeysOf, Keyed
  <2> QED  BY <1>6, <2>1 DEF Others
<1> QED  BY <1>9, <1>10

(* The difference of keys has the entries of the first array whose keys    *)
(* the second has not.                                                     *)
LEMMA KeyDiffViews ==
  ASSUME NEW K, NEW V, NEW a \in ArraysOf(K, V), NEW b \in ArraysOf(K, V)
  PROVE  /\ KeyDiff(a, b) \in ArraysOf(K, V)
         /\ Entries(KeyDiff(a, b)) =
              {e \in Entries(a) : e[1] \notin KeysOf(b)}
<1> DEFINE S == {i \in Visited(a, TRUE) : NotIn(a, i, b, TRUE)}
<1>1. KeyDiff(a, b) = MergeEach(EmptyArray, a, S)
  BY DEF KeyDiff, DiffOf
<1>2. S = {i \in Keyed(a) : a[i].key \notin KeysOf(b)}
  BY DEF Visited, NotIn
<1>3. S \in SUBSET DOMAIN a
  BY DEF Visited, Keyed
<1> HIDE DEF S
<1>4. EntriesAt(a, S) = {e \in Entries(a) : e[1] \notin KeysOf(b)}
  <2>1. S \cap Keyed(a) = {i \in Keyed(a) : a[i].key \notin KeysOf(b)}
    BY <1>2
  <2> QED  BY <2>1 DEF EntriesAt, Entries
<1>5. EmptyArray \in ArraysOf(K, V) /\ DOMAIN EmptyArray = {}
  BY EmptyIsArray
<1>6. Others(EmptyArray, a, S) = {}
  BY <1>5 DEF Others, Entries, Keyed
<1>7. /\ KeyDiff(a, b) \in ArraysOf(K, V)
      /\ Entries(KeyDiff(a, b)) = Others(EmptyArray, a, S) \cup EntriesAt(a, S)
  BY <1>1, <1>3, <1>5, MergeEntries
<1> QED  BY <1>4, <1>6, <1>7

(* The difference of values has the elements of the first array whose      *)
(* values the second has not, and taking them away again changes nothing.  *)
LEMMA DiffViews ==
  ASSUME NEW K, NEW V, NEW a \in ArraysOf(K, V), NEW b \in ArraysOf(K, V)
  PROVE  /\ Entries(Diff(a, b)) \subseteq Entries(a)
         /\ Diff(Diff(a, b), b) = Diff(a, b)
         /\ \A i \in DOMAIN a :
              \/ \E j \in DOMAIN b : b[j].value = a[i].value
              \/ \E j \in DOMAIN Diff(a, b) : Diff(a, b)[j].value = a[i].value
<1> DEFINE Left(x) == {i \in DOMAIN x : \A j \in DOMAIN b : b[j].value # x[i].value}
           S == Left(a)
           m == Cardinality(S)
           q == InOrder(S)
           d == Diff(a, b)
<1>1. \A x : Diff(x, b) = MergeEach(EmptyArray, x, Left(x))
  BY DEF Diff, DiffOf, Visited, NotIn
<1>2. S \in SUBSET DOMAIN a
  OBVIOUS
<1>3. d = MergeEach(EmptyArray, a, S)
  BY <1>1
<1>4. \A i \in S : i \in DOMAIN a /\ \A j \in DOMAIN b : b[j].value # a[i].value
  OBVIOUS
<1>5. \A i \in DOMAIN a : i \in S \/ \E j \in DOMAIN b : b[j].value = a[i].value
  OBVIOUS
<1> HIDE DEF S
<1>6. EmptyArray \in ArraysOf(K, V) /\ DOMAIN EmptyArray = {}
  BY EmptyIsArray
<1>7. /\ d \in ArraysOf(K, V)
      /\ Entries(d) = Others(EmptyArray, a, S) \cup EntriesAt(a, S)
  BY <1>2, <1>3, <1>6, MergeEntries
<1>8. d = [j \in 0 .. m - 1 |-> a[q[j + 1]]]
  BY <1>2, <1>3, MergeIntoEmpty DEF CopiesOf
<1>9. /\ S \in IndexSets /\ m \in Nat
      /\ q \in [1 .. m -> S]
      /\ \A i \in S : \E n \in 1 .. m : q[n] = i
  BY <1>2, CellsAtIs, InOrderLists
<1> HIDE DEF d, m, q
<1>10. Entries(d) \subseteq Entries(a)
  <2>1. Others(EmptyArray, a, S) = {}
    BY <1>6 DEF Others, Entries, Keyed
  <2>2. EntriesAt(a, S) \subseteq Entries(a)
    BY DEF EntriesAt, Entries
  <2> QED  BY <1>7, <2>1, <2>2
<1>11. ASSUME NEW j \in DOMAIN d PROVE j \in 0 .. m - 1 /\ d[j] = a[q[j + 1]] /\ q[j + 1] \in S
  <2>1. j \in 0 .. m - 1 /\ d[j] = a[q[j + 1]]
    BY <1>8
  <2>2. j + 1 \in 1 .. m
    BY <1>9, <2>1
  <2> QED  BY <1>9, <2>1, <2>2
<1>12. Left(d) = 0 .. m - 1
  <2>1. DOMAIN d = 0 .. m - 1
    BY <1>8
  <2> QED  BY <1>4, <1>11, <2>1
<1>13. Diff(d, b) = d
  <2> DEFINE T == 0 .. m - 1
  <2>1. T = DOMAIN d /\ T \in SUBSET DOMAIN d
    BY <1>8
  <2>2. Diff(d, b) = MergeEach(EmptyArray, d, T)
    <3> HIDE DEF Left
    <3> QED  BY <1>1, <1>12
  <2>3. /\ Cardinality(T) = m
        /\ \A j \in T : InOrder(T)[j + 1] = j
    BY <1>9, InOrderUpTo
  <2> HIDE DEF T
  <2>4. Diff(d, b) = [j \in 0 .. Cardinality(T) - 1 |-> d[InOrder(T)[j + 1]]]
    <3>1. Diff(d, b) = CopiesOf(d, T)
      BY <1>7, <2>1, <2>2, MergeIntoEmpty
    <3> QED  BY <3>1 DEF CopiesOf
  <2>5. Diff(d, b) = [j \in T |-> d[j]]
    BY <2>3, <2>4 DEF T
  <2>6. d = [j \in T |-> d[j]]
    BY <1>8, <2>1
  <2> QED  BY <2>5, <2>6
<1>14. ASSUME NEW i \in S PROVE \E j \in DOMAIN d : d[j].value = a[i].value
  <2>1. PICK n \in 1 .. m : q[n] = i
    BY <1>9
  <2>2. n - 1 \in 0 .. m - 1 /\ (n - 1) + 1 = n
    BY <1>9
  <2> QED  BY <1>8, <2>1, <2>2
<1> QED  BY <1>5, <1>10, <1>13, <1>14 DEF d

(* The keys of an array are as many as its elements with a key, and keys   *)
(* lists them all.                                                         *)
LEMMA KeysViews ==
  ASSUME NEW K, NEW V, NEW a \in ArraysOf(K, V)
  PROVE  /\ {Keys(a)[i].value : i \in DOMAIN Keys(a)} = KeysOf(a)
         /\ Cardinality(DOMAIN Keys(a)) = Cardinality(Keyed(a))
<1> DEFINE I == Keyed(a)
           W == KeysOf(a)
           n == Cardinality(W)
           q == SetToSeq(W)
           e == KeyCells(q)
           f == [i \in I |-> a[i].key]
<1>1. IsFiniteSet(I)
  <2>1. IsFiniteSet(DOMAIN a) /\ I \in SUBSET DOMAIN a
    BY ArrayIs DEF IndexSets, Keyed
  <2> QED  BY <2>1, FS_Subset
<1>2. f \in Bijection(I, W)
  <2>1. f \in [I -> W] /\ \A x \in W : \E i \in I : f[i] = x
    BY DEF KeysOf
  <2>2. \A i, j \in I : f[i] = f[j] => i = j
    BY ArrayIs
  <2> HIDE DEF f, I, W
  <2> QED  BY <2>1, <2>2 DEF Bijection, Injection, Surjection, IsInjective
<1>3. IsFiniteSet(W) /\ n = Cardinality(I)
  <2> HIDE DEF f, I, W
  <2>1. ExistsBijection(I, W)
    BY <1>2 DEF ExistsBijection
  <2> QED  BY <1>1, <2>1, FS_Bijection
<1>4. /\ n \in Nat /\ q \in [1 .. n -> W] /\ Len(q) = n /\ DOMAIN q = 1 .. n
      /\ \A i, j \in 1 .. n : q[i] = q[j] => i = j
      /\ \A x \in W : \E j \in 1 .. n : q[j] = x
  <2> HIDE DEF W
  <2>1. IsFiniteSet(W)
    BY <1>3
  <2> QED  BY <2>1, SetListed
<1>5. Keys(a) = FoldOfPuts(EmptyArray, n, e)
  <2> HIDE DEF n
  <2> QED  BY <1>4, KeysPuts
<1>6. \A j \in 1 .. n : e[j] = Elem(NoKey, q[j])
  BY <1>4 DEF KeyCells
<1>7. e \in [1 .. n -> Cells(W, W)] /\ Apart(e, n)
  <2>1. e = [j \in 1 .. n |-> e[j]]
    BY <1>4 DEF KeyCells
  <2> HIDE DEF e, n, q, W
  <2>2. ASSUME NEW j \in 1 .. n
        PROVE  e[j] \in Cells(W, W) /\ e[j].key = NoKey
    <3>1. e[j] = [key |-> NoKey, value |-> q[j]]
      BY <1>6 DEF Elem
    <3>2. q[j] \in W
      BY <1>4
    <3> QED  BY <3>1, <3>2 DEF Cells
  <2> QED  BY <2>1, <2>2 DEF Apart
<1> HIDE DEF e, n, q, W, I
<1>8. Keys(a) = Shifted(e, n)
  <2>1. EmptyArray \in ArraysOf(W, W)
    BY EmptyIsArray
  <2>2. n \in Nat
    BY <1>4
  <2>3. PICK r : PutRuns(r, W, W, EmptyArray, n, e) /\ Keys(a) = r[n]
    BY <1>5, <1>7, <2>1, <2>2, PutsRun
  <2> QED  BY <1>7, <2>2, <2>3, PutsAppend
<1>9. /\ DOMAIN Keys(a) = 0 .. n - 1
      /\ \A j \in 0 .. n - 1 : Keys(a)[j].value = q[j + 1]
  <2>1. \A j \in 0 .. n - 1 : j + 1 \in 1 .. n
    BY <1>4
  <2>2. /\ DOMAIN Keys(a) = 0 .. n - 1
        /\ \A j \in 0 .. n - 1 : Keys(a)[j] = e[j + 1]
    BY <1>8 DEF Shifted
  <2>3. ASSUME NEW j \in 0 .. n - 1 PROVE Keys(a)[j].value = q[j + 1]
    <3>1. Keys(a)[j] = Elem(NoKey, q[j + 1])
      BY <1>6, <2>1, <2>2
    <3> QED  BY <3>1 DEF Elem
  <2> QED  BY <2>2, <2>3
<1>10. {Keys(a)[i].value : i \in DOMAIN Keys(a)} = W
  <2>1. ASSUME NEW x \in W PROVE \E i \in DOMAIN Keys(a) : Keys(a)[i].value = x
    <3>1. PICK j \in 1 .. n : q[j] = x
      BY <1>4
    <3>2. j - 1 \in 0 .. n - 1 /\ (j - 1) + 1 = j
      BY <1>4
    <3> QED  BY <1>9, <3>1, <3>2
  <2>2. ASSUME NEW i \in DOMAIN Keys(a) PROVE Keys(a)[i].value \in W
    <3>1. i \in 0 .. n - 1 /\ i + 1 \in 1 .. n
      BY <1>4, <1>9
    <3> QED  BY <1>4, <1>9, <3>1
  <2> QED  BY <2>1, <2>2
<1>11. Cardinality(DOMAIN Keys(a)) = n
  BY <1>4, <1>9, FS_Interval
<1> QED  BY <1>3, <1>10, <1>11 DEF W, I

(* For all arrays, whatever holes their indexes have and however their     *)
(* keys collide: what a script sees of their merge, of their differences   *)
(* and of their keys is what the sets of their entries say.                *)
THEOREM MergeAgrees ==
  ASSUME NEW K, NEW V, NEW a \in ArraysOf(K, V), NEW b \in ArraysOf(K, V)
  PROVE  MergeAndDiffAgree(a, b, Merge(a, b))
<1> DEFINE own == {e \in Entries(a) : e[1] \notin KeysOf(b)}
<1>1. /\ Entries(Merge(a, b)) = own \cup Entries(b)
      /\ Plain(Merge(a, b)) = Plain(a) \o Plain(b)
  BY MergeViews
<1>2. KeyDiff(a, b) \in ArraysOf(K, V) /\ Entries(KeyDiff(a, b)) = own
  BY KeyDiffViews
<1>3. Entries(Merge(KeyDiff(a, b), b)) =
        {e \in Entries(KeyDiff(a, b)) : e[1] \notin KeysOf(b)} \cup Entries(b)
  BY <1>2, MergeViews
<1>4. Entries(Merge(KeyDiff(a, b), b)) = Entries(Merge(a, b))
  <2>1. {e \in own : e[1] \notin KeysOf(b)} = own
    OBVIOUS
  <2> HIDE DEF own
  <2> QED  BY <1>1, <1>2, <1>3, <2>1
<1> QED  BY <1>1, <1>2, <1>4, DiffViews, KeysViews DEF MergeAndDiffAgree

-----------------------------------------------------------------------------
(* The arrays that a script can build are arrays.                          *)
LEMMA ScriptArraysAre ==
  ASSUME NEW V, NEW n \in Nat, NEW a \in ScriptArrays(V, n)
  PROVE  a \in ArraysOf(KeyValues, V)
<1>1. PICK D \in SUBSET (0 .. n - 1) :
        a \in {x \in [D -> Elems(V)] :
                \A i, j \in Keyed(x) : i # j => x[i].key # x[j].key}
  BY DEF ScriptArrays
<1>2. Elems(V) \subseteq Cells(KeyValues, V)
  BY DEF Elems, Elem, Cells
<1>3. DOMAIN a = D /\ a \in [D -> Cells(KeyValues, V)]
  BY <1>1, <1>2
<1>4. D \in IndexSets
  <2>1. IsFiniteSet(0 .. n - 1)
    BY FS_Interval
  <2>2. IsFiniteSet(D)
    BY <2>1, FS_Subset
  <2> QED  BY <2>2 DEF IndexSets
<1>5. \A i, j \in Keyed(a) : a[i].key = a[j].key => i = j
  BY <1>1
<1> QED  BY <1>3, <1>4, <1>5, ArrayIs

(* The keys that an object gives to an array                               *)
NameKeys == {"str"} \X Names

(* Without keys and holes, the values are those at the indexes, in order.  *)
LEMMA PlainIs ==
  ASSUME NEW a, NEW n \in Nat, DOMAIN a = 0 .. n - 1, Keyed(a) = {}
  PROVE  /\ DOMAIN Plain(a) = 1 .. n /\ Len(Plain(a)) = n
         /\ \A k \in 1 .. n : Plain(a)[k] = a[k - 1].value
<1> DEFINE S == 0 .. n - 1
           q == InOrder(S)
<1>1. Plain(a) = [k \in DOMAIN q |-> a[q[k]].value]
  BY DEF Plain
<1>2. /\ S \in IndexSets /\ Cardinality(S) = n
      /\ \A j \in S : q[j + 1] = j
  BY InOrderUpTo
<1>3. DOMAIN q = 1 .. n
  BY <1>2 DEF InOrder
<1> HIDE DEF q
<1>4. ASSUME NEW k \in 1 .. n PROVE q[k] = k - 1
  <2>1. k - 1 \in S /\ (k - 1) + 1 = k
    OBVIOUS
  <2> HIDE DEF S
  <2> QED  BY <1>2, <2>1
<1> QED  BY <1>1, <1>3, <1>4

(* When every element has a key, there are no other values.                *)
LEMMA NoPlain ==
  ASSUME NEW a, Keyed(a) = DOMAIN a
  PROVE  Len(Plain(a)) = 0 /\ DOMAIN Plain(a) = {}
<1>1. DOMAIN InOrder({}) = {}
  BY FS_EmptySet DEF InOrder
<1>2. DOMAIN Plain(a) = {}
  BY <1>1 DEF Plain
<1>3. Plain(a) = <<>>
  <2>1. Plain(a) = [n \in {} |-> a[InOrder({})[n]].value]
    BY <1>1 DEF Plain
  <2> QED  BY <2>1
<1> QED  BY <1>2, <1>3

(* An element with a key is where its key is looked for.                   *)
LEMMA PlaceIs ==
  ASSUME NEW K, NEW V, NEW a \in ArraysOf(K, V), NEW i \in Keyed(a)
  PROVE  a[i].key \in KeysOf(a) /\ Place(a, a[i].key) = i
<1>1. a[i].key \in KeysOf(a)
  BY DEF KeysOf
<1>2. \A j \in Keyed(a) : a[j].key = a[i].key => j = i
  BY ArrayIs
<1>3. (CHOOSE j \in Keyed(a) : a[j].key = a[i].key) = i
  BY <1>2
<1> QED  BY <1>1, <1>3 DEF Place

-----------------------------------------------------------------------------
(* A decoded list has the values of its documents, without keys.           *)
LEMMA ListDecoded ==
  ASSUME NEW D, NEW q \in Seq(D), NEW b, b = DecodeArray(q)
  PROVE  /\ DOMAIN b = 0 .. Len(q) - 1 /\ Len(q) \in Nat
         /\ Keyed(b) = {} /\ KeysOf(b) = {}
         /\ \A k \in 1 .. Len(q) : b[k - 1] = Elem(NoKey, DecodeValue(q[k]))
<1>1. Len(q) \in Nat
  OBVIOUS
<1>2. DOMAIN b = 0 .. Len(q) - 1
  BY DEF DecodeArray
<1>3. \A i \in DOMAIN b : b[i] = Elem(NoKey, DecodeValue(q[i + 1]))
  BY DEF DecodeArray
<1>4. \A i \in DOMAIN b : b[i].key = NoKey
  BY <1>3 DEF Elem
<1>5. Keyed(b) = {} /\ KeysOf(b) = {}
  BY <1>4 DEF Keyed, KeysOf
<1>6. \A k \in 1 .. Len(q) : b[k - 1] = Elem(NoKey, DecodeValue(q[k]))
  <2>1. \A k \in 1 .. Len(q) : k - 1 \in DOMAIN b /\ (k - 1) + 1 = k
    BY <1>1, <1>2
  <2> QED  BY <1>3, <2>1
<1> QED  BY <1>1, <1>2, <1>5, <1>6

(* The elements that an object puts, in the order of the iteration         *)
NameCells(f, t) == [n \in 1 .. Len(t) |-> Elem(<<"str", t[n]>>, DecodeValue(f[t[n]]))]

(* The iteration over the names is a fold of Puts.                         *)
LEMMA NamesPuts ==
  ASSUME NEW f, NEW n \in Nat, DOMAIN SetToSeq(DOMAIN f) = 1 .. n,
         Len(SetToSeq(DOMAIN f)) = n
  PROVE  DecodeObj(f) =
           FoldOfPuts(EmptyArray, n, NameCells(f, SetToSeq(DOMAIN f)))
<1> DEFINE q == SetToSeq(DOMAIN f)
           e == NameCells(f, q)
           G(h) == h = [T \in SUBSET (1 .. n) |->
                          IF T = {} THEN EmptyArray
                          ELSE Put(h[T \ {Max(T)}], <<"str", q[Max(T)]>>,
                                   DecodeValue(f[q[Max(T)]]))]
<1>1. DOMAIN q = 1 .. n
  OBVIOUS
<1>2. ASSUME NEW T \in SUBSET (1 .. n), T # {}
      PROVE  /\ e[Max(T)].key = <<"str", q[Max(T)]>>
             /\ e[Max(T)].value = DecodeValue(f[q[Max(T)]])
  <2>1. Max(T) \in 1 .. n
    BY <1>2, MaxOf
  <2>2. e[Max(T)] = Elem(<<"str", q[Max(T)]>>, DecodeValue(f[q[Max(T)]]))
    BY <2>1 DEF NameCells
  <2> QED  BY <2>2 DEF Elem
<1>3. DecodeObj(f) = (CHOOSE h : G(h))[1 .. n]
  BY <1>1 DEF DecodeObj, FoldLeft, MapThenFoldSet
<1> HIDE DEF q, e
<1>4. ASSUME NEW h PROVE G(h) <=> PutFold(h, EmptyArray, n, e)
  BY <1>2 DEF PutFold
<1> HIDE DEF G
<1>5. (CHOOSE h : G(h)) = (CHOOSE h : PutFold(h, EmptyArray, n, e))
  BY <1>4
<1> QED  BY <1>3, <1>5 DEF FoldOfPuts, e, q

(* Objects with these names                                                *)
ObjectsOver(D) ==
  UNION {[N -> D] : N \in {M \in SUBSET Names : IsFiniteSet(M)}}

(* The values of the documents in an object                                *)
ValuesOf(f) == {DecodeValue(f[k]) : k \in DOMAIN f}

(* A decoded object has an element for each name, with that key and the    *)
(* value of its document.                                                  *)
LEMMA ObjectDecoded ==
  ASSUME NEW D, NEW f \in ObjectsOver(D), NEW b, b = DecodeObj(f)
  PROVE  /\ b \in ArraysOf(NameKeys, ValuesOf(f))
         /\ Keyed(b) = DOMAIN b
         /\ KeysOf(b) = {"str"} \X DOMAIN f
         /\ IsFiniteSet(DOMAIN f)
         /\ Cardinality(DOMAIN b) = Cardinality(DOMAIN f)
         /\ \A i \in DOMAIN b :
              \E k \in DOMAIN f : b[i] = Elem(<<"str", k>>, DecodeValue(f[k]))
         /\ \A k \in DOMAIN f :
              \E i \in DOMAIN b : b[i] = Elem(<<"str", k>>, DecodeValue(f[k]))
<1> DEFINE W == DOMAIN f
           n == Cardinality(W)
           q == SetToSeq(W)
           e == NameCells(f, q)
           V == {DecodeValue(f[k]) : k \in W}
<1>1. IsFiniteSet(W) /\ W \subseteq Names
  BY DEF ObjectsOver
<1>2. /\ n \in Nat /\ q \in [1 .. n -> W] /\ Len(q) = n /\ DOMAIN q = 1 .. n
      /\ \A i, j \in 1 .. n : q[i] = q[j] => i = j
      /\ \A x \in W : \E j \in 1 .. n : q[j] = x
  <2> HIDE DEF W
  <2>1. q \in [1 .. n -> W]
    BY <1>1, SetListed
  <2>2. DOMAIN q = 1 .. n
    BY <2>1
  <2> QED  BY <1>1, <2>2, SetListed
<1>3. b = FoldOfPuts(EmptyArray, n, e)
  BY <1>2, NamesPuts
<1>4. \A j \in 1 .. n : e[j] = Elem(<<"str", q[j]>>, DecodeValue(f[q[j]]))
  BY <1>2 DEF NameCells
<1>5. e = [j \in 1 .. n |-> e[j]]
  BY <1>2 DEF NameCells
<1> HIDE DEF e, q, n
<1>6. \A s \in Names : <<"str", s>> \in NameKeys /\ <<"str", s>> # NoKey
  BY KeysAssumption DEF NameKeys
<1>7. ASSUME NEW j \in 1 .. n
      PROVE  /\ e[j] \in Cells(NameKeys, V)
             /\ e[j].key = <<"str", q[j]>> /\ e[j].key # NoKey
  <2>1. q[j] \in W /\ DecodeValue(f[q[j]]) \in V
    BY <1>2
  <2>2. e[j] = [key |-> <<"str", q[j]>>, value |-> DecodeValue(f[q[j]])]
    BY <1>4 DEF Elem
  <2>3. <<"str", q[j]>> \in NameKeys /\ <<"str", q[j]>> # NoKey
    BY <1>1, <1>6, <2>1
  <2> HIDE DEF W, V
  <2> QED  BY <2>1, <2>2, <2>3 DEF Cells
<1>8. e \in [1 .. n -> Cells(NameKeys, V)]
  <2> HIDE DEF V, W
  <2> QED  BY <1>5, <1>7
<1>9. Apart(e, n)
  <2>1. ASSUME NEW j \in 1 .. n, NEW k \in 1 .. n, e[j].key = e[k].key
        PROVE  j = k
    <3>1. q[j] = q[k]
      <4>1. e[j].key = <<"str", q[j]>> /\ e[k].key = <<"str", q[k]>>
        BY <1>7
      <4>2. <<"str", q[j]>>[2] = <<"str", q[k]>>[2]
        BY <2>1, <4>1
      <4> QED  BY <4>2
    <3>2. \A i, o \in 1 .. n : q[i] = q[o] => i = o
      BY <1>2
    <3> QED  BY <3>1, <3>2
  <2> QED  BY <2>1 DEF Apart
<1> HIDE DEF W, V
<1>10. b \in ArraysOf(NameKeys, V) /\ b = Shifted(e, n)
  <2>1. EmptyArray \in ArraysOf(NameKeys, V)
    BY EmptyIsArray
  <2>2. PICK r : PutRuns(r, NameKeys, V, EmptyArray, n, e) /\ b = r[n]
    BY <1>2, <1>3, <1>8, <2>1, PutsRun
  <2>3. r[n] = Shifted(e, n)
    <3>1. n \in Nat
      BY <1>2
    <3>2. PutRuns(r, NameKeys, V, EmptyArray, n, e)
      BY <2>2
    <3> QED  BY <1>8, <1>9, <3>1, <3>2, PutsAppend
  <2>4. n \in 0 .. n
    BY <1>2
  <2>5. r[n] \in ArraysOf(NameKeys, V)
    BY <2>2, <2>4 DEF PutRuns
  <2> QED  BY <2>2, <2>3, <2>5
<1>11. DOMAIN b = 0 .. n - 1 /\ \A i \in 0 .. n - 1 : b[i] = e[i + 1]
  BY <1>10 DEF Shifted
<1>12. ASSUME NEW i \in DOMAIN b
       PROVE  /\ \E k \in W : b[i] = Elem(<<"str", k>>, DecodeValue(f[k]))
              /\ b[i].key # NoKey /\ b[i].key \in {"str"} \X W
  <2>1. i + 1 \in 1 .. n /\ b[i] = e[i + 1]
    BY <1>2, <1>11
  <2>2. q[i + 1] \in W
    BY <1>2, <2>1
  <2>3. b[i] = Elem(<<"str", q[i + 1]>>, DecodeValue(f[q[i + 1]]))
    BY <1>4, <2>1
  <2>4. b[i].key # NoKey /\ b[i].key = <<"str", q[i + 1]>>
    BY <1>7, <2>1
  <2>5. \E k \in W : b[i] = Elem(<<"str", k>>, DecodeValue(f[k]))
    BY <2>2, <2>3, Zenon
  <2> QED  BY <2>2, <2>4, <2>5
<1>13. ASSUME NEW k \in W
       PROVE  \E i \in DOMAIN b : b[i] = Elem(<<"str", k>>, DecodeValue(f[k]))
  <2>1. PICK j \in 1 .. n : q[j] = k
    BY <1>2
  <2>2. j - 1 \in DOMAIN b /\ (j - 1) + 1 = j
    BY <1>2, <1>11
  <2>3. b[j - 1] = e[j]
    BY <1>11, <2>2
  <2>4. b[j - 1] = Elem(<<"str", k>>, DecodeValue(f[k]))
    BY <1>4, <2>1, <2>3
  <2> QED  BY <2>2, <2>4, Zenon
<1>14. Keyed(b) = DOMAIN b
  BY <1>12 DEF Keyed
<1>15. KeysOf(b) = {"str"} \X W
  <2>1. \A x \in KeysOf(b) : x \in {"str"} \X W
    BY <1>12, <1>14 DEF KeysOf
  <2>2. ASSUME NEW x \in {"str"} \X W PROVE x \in KeysOf(b)
    <3>1. PICK k \in W : x = <<"str", k>>
      OBVIOUS
    <3>2. PICK i \in DOMAIN b : b[i] = Elem(<<"str", k>>, DecodeValue(f[k]))
      BY <1>13
    <3>3. b[i].key = x
      BY <3>1, <3>2 DEF Elem
    <3> QED  BY <1>14, <3>3 DEF KeysOf
  <2> QED  BY <2>1, <2>2
<1>16. Cardinality(DOMAIN b) = n
  BY <1>2, <1>11, FS_Interval
<1>17. \A i \in DOMAIN b :
         \E k \in W : b[i] = Elem(<<"str", k>>, DecodeValue(f[k]))
  BY <1>12
<1> QED  BY <1>1, <1>10, <1>13, <1>14, <1>15, <1>16, <1>17 DEF W, V, n, ValuesOf

-----------------------------------------------------------------------------
(* What is encoded is a list or an object.                                 *)
LEMMA EncodedKind ==
  ASSUME NEW a, Encode(a) # Fail
  PROVE  Encode(a)[1] \in {"list", "object"}
BY DEF Encode, EncodeArray, EncodeObj, Fail

(* An array without keys is encoded as a list or refused.                  *)
LEMMA ListEncoded ==
  ASSUME NEW a, NEW n \in Nat, n = Cardinality(DOMAIN a), Keyed(a) = {},
         NEW q, q = [k \in 1 .. n |-> EncodeValue(a[k - 1].value)]
  PROVE  /\ Encode(a) # Fail =>
              /\ DOMAIN a = 0 .. n - 1
              /\ \A i \in DOMAIN a : EncodeValue(a[i].value) # Fail
              /\ Encode(a) = <<"list", q>>
         /\ (/\ DOMAIN a = 0 .. n - 1
             /\ \A i \in DOMAIN a : EncodeValue(a[i].value) # Fail)
              => Encode(a) # Fail
<1>1. Encode(a) =
        IF DOMAIN a # 0 .. n - 1
             \/ \E i \in DOMAIN a : EncodeValue(a[i].value) = Fail
        THEN Fail ELSE <<"list", q>>
  BY DEF Encode, EncodeArray
<1>2. <<"list", q>> # Fail
  BY DEF Fail
<1> HIDE DEF Fail
<1> QED  BY <1>1, <1>2

(* A value that a document can say is encoded, and comes back as a value   *)
(* that a script cannot tell from it.                                      *)
ValueReturns(v) ==
  Sayable(v) =>
    EncodeValue(v) # Fail /\ SameValue(DecodeValue(EncodeValue(v)), v)

(* An array without keys comes back when its values do.                    *)
LEMMA ListReturns ==
  ASSUME NEW K, NEW V, NEW a \in ArraysOf(K, V), Keyed(a) = {},
         \A v \in V : ValueReturns(v)
  PROVE  ArrayReturns(a, Encode(a))
<1> DEFINE n == Cardinality(DOMAIN a)
           q == [k \in 1 .. n |-> EncodeValue(a[k - 1].value)]
<1>1. n \in Nat
  <2>1. IsFiniteSet(DOMAIN a)
    BY ArrayIs DEF IndexSets
  <2> QED  BY <2>1, FS_CardinalityType
<1>2. \A i \in DOMAIN a : ValueReturns(a[i].value)
  <2>1. a \in [DOMAIN a -> Cells(K, V)]
    BY ArrayIs
  <2>2. \A i \in DOMAIN a : a[i].value \in V
    BY <2>1 DEF Cells
  <2> QED  BY <2>2
<1>3. /\ Encode(a) # Fail =>
           /\ DOMAIN a = 0 .. n - 1
           /\ \A i \in DOMAIN a : EncodeValue(a[i].value) # Fail
           /\ Encode(a) = <<"list", q>>
      /\ (/\ DOMAIN a = 0 .. n - 1
          /\ \A i \in DOMAIN a : EncodeValue(a[i].value) # Fail)
           => Encode(a) # Fail
  BY <1>1, ListEncoded
<1>4. StringKeyed(a) = {} /\ KeysOf(a) = {}
  BY DEF StringKeyed, KeysOf
<1> HIDE DEF n
<1>5. ASSUME SayableArray(a)
      PROVE  Encode(a) # Fail /\ \A i \in DOMAIN a : Sayable(a[i].value)
  <2>1. DOMAIN a = 0 .. n - 1 /\ \A i \in DOMAIN a : Sayable(a[i].value)
    BY <1>5 DEF SayableArray, n
  <2>2. \A i \in DOMAIN a : EncodeValue(a[i].value) # Fail
    BY <1>2, <2>1 DEF ValueReturns
  <2> HIDE DEF q
  <2> QED  BY <1>3, <2>1, <2>2
<1>6. ASSUME Encode(a) # Fail, NEW b, b = Decode(Encode(a))
      PROVE  /\ Cardinality(DOMAIN b) = n
             /\ SayableArray(a) => SameArray(b, a)
  <2>1. DOMAIN a = 0 .. n - 1 /\ Encode(a) = <<"list", q>>
    BY <1>3, <1>6
  <2>2. q \in Seq({EncodeValue(v) : v \in V}) /\ Len(q) = n
    <3> SUFFICES \A k \in 1 .. n : EncodeValue(a[k - 1].value) \in {EncodeValue(v) : v \in V}
      BY <1>1
    <3>1. a \in [DOMAIN a -> Cells(K, V)]
      BY ArrayIs
    <3>2. \A i \in DOMAIN a : a[i].value \in V
      BY <3>1 DEF Cells
    <3>3. \A k \in 1 .. n : k - 1 \in DOMAIN a
      BY <1>1, <2>1
    <3> QED  BY <3>2, <3>3
  <2>3. \A k \in 1 .. n : q[k] = EncodeValue(a[k - 1].value)
    OBVIOUS
  <2>4. b = DecodeArray(q)
    BY <1>6, <2>1 DEF Decode
  <2> HIDE DEF q
  <2>5. /\ DOMAIN b = 0 .. n - 1 /\ Keyed(b) = {} /\ KeysOf(b) = {}
        /\ \A k \in 1 .. n : b[k - 1] = Elem(NoKey, DecodeValue(q[k]))
    BY <2>2, <2>4, ListDecoded
  <2>6. Cardinality(DOMAIN b) = n
    BY <1>1, <2>5, FS_Interval
  <2>7. /\ DOMAIN Plain(b) = 1 .. n /\ Len(Plain(b)) = n
        /\ \A k \in 1 .. n : Plain(b)[k] = b[k - 1].value
    BY <1>1, <2>5, PlainIs
  <2>8. /\ DOMAIN Plain(a) = 1 .. n /\ Len(Plain(a)) = n
        /\ \A k \in 1 .. n : Plain(a)[k] = a[k - 1].value
    BY <1>1, <2>1, PlainIs
  <2>9. ASSUME SayableArray(a), NEW k \in 1 .. n
        PROVE  SameValue(Plain(b)[k], Plain(a)[k])
    <3>1. k - 1 \in DOMAIN a
      BY <1>1, <2>1
    <3>2. SameValue(DecodeValue(EncodeValue(a[k - 1].value)), a[k - 1].value)
      <4>1. Sayable(a[k - 1].value)
        BY <1>5, <2>9, <3>1
      <4>2. ValueReturns(a[k - 1].value)
        BY <1>2, <3>1
      <4> QED  BY <4>1, <4>2 DEF ValueReturns
    <3>3. b[k - 1].value = DecodeValue(EncodeValue(a[k - 1].value))
      <4>1. b[k - 1] = Elem(NoKey, DecodeValue(q[k]))
        BY <2>5
      <4>2. q[k] = EncodeValue(a[k - 1].value)
        BY <2>3
      <4> QED  BY <4>1, <4>2 DEF Elem
    <3>4. /\ Plain(b)[k] = DecodeValue(EncodeValue(a[k - 1].value))
          /\ Plain(a)[k] = a[k - 1].value
      BY <2>7, <2>8, <3>3
    <3> QED  BY <3>2, <3>4
  <2>10. ASSUME SayableArray(a) PROVE SameArray(b, a)
    <3>1. \A k \in 1 .. n : SameValue(Plain(b)[k], Plain(a)[k])
      BY <2>9, <2>10
    <3> QED  BY <1>4, <2>5, <2>7, <2>8, <3>1 DEF SameArray
  <2> QED  BY <2>6, <2>10
<1> QED  BY <1>5, <1>6 DEF ArrayReturns, n

(* The names that an array gives to the members of an object               *)
NamesOf(a) == {a[i].key[2] : i \in StringKeyed(a)}

(* Every string that is a key is the key of one element.                   *)
LEMMA StringKeys ==
  ASSUME NEW V, NEW a \in ArraysOf(KeyValues, V)
  PROVE  /\ \A i \in StringKeyed(a) :
              /\ a[i].key = <<"str", a[i].key[2]>>
              /\ Place(a, a[i].key) = i
              /\ i \in DOMAIN a
         /\ NamesOf(a) \subseteq Names /\ IsFiniteSet(NamesOf(a))
         /\ Cardinality(NamesOf(a)) = Cardinality(StringKeyed(a))
<1> DEFINE I == StringKeyed(a)
           N == NamesOf(a)
           f == [i \in I |-> a[i].key[2]]
<1>1. ASSUME NEW i \in I
      PROVE  /\ i \in Keyed(a) /\ i \in DOMAIN a
             /\ a[i].key \in {"str"} \X Names
  <2>1. i \in Keyed(a) /\ i \in DOMAIN a /\ a[i].key[1] = "str"
        /\ a[i].key # NoKey
    BY DEF StringKeyed, Keyed
  <2>2. a \in [DOMAIN a -> Cells(KeyValues, V)]
    BY ArrayIs
  <2>3. a[i] \in Cells(KeyValues, V)
    BY <2>1, <2>2
  <2>4. a[i].key \in KeyValues \cup {NoKey}
    BY <2>3 DEF Cells
  <2>5. a[i].key \in KeyValues
    BY <2>1, <2>4
  <2> QED  BY <2>1, <2>5, KeysAssumption
<1>2. ASSUME NEW i \in I
      PROVE  a[i].key = <<"str", a[i].key[2]>> /\ a[i].key[2] \in Names
  BY <1>1
<1>3. ASSUME NEW i \in I PROVE Place(a, a[i].key) = i
  BY <1>1, PlaceIs
<1>4. IsFiniteSet(I)
  <2>1. IsFiniteSet(DOMAIN a)
    BY ArrayIs DEF IndexSets
  <2>2. I \in SUBSET DOMAIN a
    BY <1>1
  <2> QED  BY <2>1, <2>2, FS_Subset
<1>5. f \in Bijection(I, N)
  <2>1. f \in [I -> N] /\ \A x \in N : \E i \in I : f[i] = x
    BY DEF NamesOf
  <2>2. ASSUME NEW i \in I, NEW j \in I, f[i] = f[j] PROVE i = j
    <3>1. a[i].key[2] = a[j].key[2]
      BY <2>2
    <3>2. a[i].key = a[j].key
      BY <1>2, <3>1
    <3> QED  BY <1>3, <3>2
  <2> HIDE DEF f, I, N
  <2> QED  BY <2>1, <2>2 DEF Bijection, Injection, Surjection, IsInjective
<1>6. IsFiniteSet(N) /\ Cardinality(N) = Cardinality(I)
  <2> HIDE DEF f, I, N
  <2>1. ExistsBijection(I, N)
    BY <1>5 DEF ExistsBijection
  <2> QED  BY <1>4, <2>1, FS_Bijection
<1>7. N \subseteq Names
  BY <1>2 DEF NamesOf
<1>8. \A i \in I : i \in DOMAIN a
  BY <1>1
<1> HIDE DEF f
<1> QED  BY <1>2, <1>3, <1>6, <1>7, <1>8

(* An array of elements with keys is encoded as an object or refused.      *)
LEMMA ObjectEncoded ==
  ASSUME NEW a, Keyed(a) = DOMAIN a, DOMAIN a # {},
         NEW f, f = [k \in NamesOf(a) |->
                       EncodeValue(a[Place(a, <<"str", k>>)].value)]
  PROVE  /\ Encode(a) # Fail =>
              /\ \A i \in StringKeyed(a) : EncodeValue(a[i].value) # Fail
              /\ Encode(a) = <<"object", f>>
         /\ (\A i \in StringKeyed(a) : EncodeValue(a[i].value) # Fail)
              => Encode(a) # Fail
<1>1. Encode(a) =
        IF \E i \in StringKeyed(a) : EncodeValue(a[i].value) = Fail
        THEN Fail ELSE <<"object", f>>
  BY DEF Encode, EncodeObj, NamesOf
<1>2. <<"object", f>> # Fail
  BY DEF Fail
<1> HIDE DEF Fail
<1> QED  BY <1>1, <1>2

(* An array of elements with keys comes back when its values do.           *)
LEMMA ObjectReturns ==
  ASSUME NEW V, NEW a \in ArraysOf(KeyValues, V), Keyed(a) = DOMAIN a,
         DOMAIN a # {}, \A v \in V : ValueReturns(v)
  PROVE  ArrayReturns(a, Encode(a))
<1> DEFINE N == NamesOf(a)
           f == [k \in N |-> EncodeValue(a[Place(a, <<"str", k>>)].value)]
           D == {EncodeValue(v) : v \in V}
<1>1. /\ \A i \in StringKeyed(a) :
           /\ a[i].key = <<"str", a[i].key[2]>>
           /\ Place(a, a[i].key) = i
           /\ i \in DOMAIN a
      /\ N \subseteq Names /\ IsFiniteSet(N)
      /\ Cardinality(N) = Cardinality(StringKeyed(a))
  BY StringKeys
<1>2. \A i \in DOMAIN a : a[i].value \in V
  <2>1. a \in [DOMAIN a -> Cells(KeyValues, V)]
    BY ArrayIs
  <2> QED  BY <2>1 DEF Cells
<1>3. \A i \in DOMAIN a : ValueReturns(a[i].value)
  BY <1>2
<1>4. /\ Encode(a) # Fail =>
           /\ \A i \in StringKeyed(a) : EncodeValue(a[i].value) # Fail
           /\ Encode(a) = <<"object", f>>
      /\ (\A i \in StringKeyed(a) : EncodeValue(a[i].value) # Fail)
           => Encode(a) # Fail
  BY ObjectEncoded
<1>5. \A k \in N : \E i \in StringKeyed(a) :
         a[i].key = <<"str", k>> /\ f[k] = EncodeValue(a[i].value)
  <2> SUFFICES ASSUME NEW k \in N
               PROVE  \E i \in StringKeyed(a) :
                        a[i].key = <<"str", k>> /\ f[k] = EncodeValue(a[i].value)
    OBVIOUS
  <2>1. PICK i \in StringKeyed(a) : k = a[i].key[2]
    BY DEF NamesOf
  <2>2. a[i].key = <<"str", k>> /\ Place(a, <<"str", k>>) = i
    BY <1>1, <2>1
  <2>3. f[k] = EncodeValue(a[i].value)
    BY <2>2
  <2> QED  BY <2>2, <2>3
<1>6. f \in ObjectsOver(D) /\ DOMAIN f = N
  <2>1. ASSUME NEW k \in N PROVE f[k] \in D
    <3>1. PICK i \in StringKeyed(a) : f[k] = EncodeValue(a[i].value)
      BY <1>5
    <3>2. a[i].value \in V
      BY <1>1, <1>2
    <3> QED  BY <3>1, <3>2
  <2>2. f \in [N -> D]
    BY <2>1
  <2> HIDE DEF f, D, N
  <2>3. DOMAIN f = N
    BY <2>2
  <2> QED  BY <1>1, <2>2, <2>3 DEF ObjectsOver
<1> HIDE DEF f, D, N
<1>7. ASSUME SayableArray(a)
      PROVE  /\ StringKeyed(a) = DOMAIN a
             /\ \A i \in DOMAIN a : Sayable(a[i].value)
             /\ Encode(a) # Fail
  <2>1. StringKeyed(a) = DOMAIN a /\ \A i \in DOMAIN a : Sayable(a[i].value)
    BY <1>7 DEF SayableArray
  <2>2. \A i \in StringKeyed(a) : EncodeValue(a[i].value) # Fail
    BY <1>3, <2>1 DEF ValueReturns
  <2> QED  BY <1>4, <2>1, <2>2
<1>8. ASSUME Encode(a) # Fail, NEW b, b = Decode(Encode(a))
      PROVE  /\ Cardinality(DOMAIN b) = Cardinality(StringKeyed(a))
             /\ SayableArray(a) => SameArray(b, a)
  <2>1. b = DecodeObj(f)
    <3>1. Encode(a) = <<"object", f>>
      BY <1>4, <1>8
    <3> QED  BY <1>8, <3>1 DEF Decode
  <2>2. /\ b \in ArraysOf(NameKeys, ValuesOf(f))
        /\ Keyed(b) = DOMAIN b
        /\ KeysOf(b) = {"str"} \X N
        /\ Cardinality(DOMAIN b) = Cardinality(N)
        /\ \A k \in N :
             \E i \in DOMAIN b : b[i] = Elem(<<"str", k>>, DecodeValue(f[k]))
    BY <1>6, <2>1, ObjectDecoded
  <2>3. ASSUME SayableArray(a) PROVE KeysOf(b) = KeysOf(a)
    <3>1. StringKeyed(a) = Keyed(a)
      BY <1>7, <2>3
    <3>2. ASSUME NEW x \in KeysOf(a) PROVE x \in {"str"} \X N
      <4>1. PICK i \in StringKeyed(a) : x = a[i].key
        BY <3>1 DEF KeysOf
      <4>2. x = <<"str", a[i].key[2]>> /\ a[i].key[2] \in N
        BY <1>1, <4>1 DEF N, NamesOf
      <4> QED  BY <4>2
    <3>3. ASSUME NEW x \in {"str"} \X N PROVE x \in KeysOf(a)
      <4>1. PICK k \in N : x = <<"str", k>>
        OBVIOUS
      <4>2. PICK i \in StringKeyed(a) : a[i].key = <<"str", k>>
        BY <1>5
      <4> QED  BY <3>1, <4>1, <4>2 DEF KeysOf
    <3> QED  BY <2>2, <3>2, <3>3
  <2>4. ASSUME SayableArray(a), NEW x \in KeysOf(b)
        PROVE  SameValue(b[Place(b, x)].value, a[Place(a, x)].value)
    <3>1. PICK k \in N : x = <<"str", k>>
      BY <2>2
    <3>2. PICK i \in StringKeyed(a) :
            a[i].key = <<"str", k>> /\ f[k] = EncodeValue(a[i].value)
      BY <1>5
    <3>3. Place(a, x) = i /\ i \in DOMAIN a
      BY <1>1, <3>1, <3>2
    <3>4. PICK j \in DOMAIN b : b[j] = Elem(<<"str", k>>, DecodeValue(f[k]))
      BY <2>2
    <3>5. b[j].key = x /\ b[j].value = DecodeValue(f[k])
      BY <3>1, <3>4 DEF Elem
    <3>6. Place(b, x) = j
      <4>1. j \in Keyed(b)
        BY <2>2
      <4>2. Place(b, b[j].key) = j
        BY <2>2, <4>1, PlaceIs
      <4> QED  BY <3>5, <4>2
    <3>7. Sayable(a[i].value) /\ ValueReturns(a[i].value)
      BY <1>3, <1>7, <2>4, <3>3
    <3>8. SameValue(DecodeValue(EncodeValue(a[i].value)), a[i].value)
      BY <3>7 DEF ValueReturns
    <3>9. b[Place(b, x)].value = DecodeValue(EncodeValue(a[i].value))
      BY <3>2, <3>5, <3>6
    <3> QED  BY <3>3, <3>8, <3>9
  <2>5. /\ Len(Plain(a)) = 0 /\ DOMAIN Plain(a) = {}
        /\ Len(Plain(b)) = 0 /\ DOMAIN Plain(b) = {}
    BY <2>2, NoPlain
  <2>6. ASSUME SayableArray(a) PROVE SameArray(b, a)
    <3>1. KeysOf(b) = KeysOf(a)
      BY <2>3, <2>6
    <3>2. \A x \in KeysOf(b) : SameValue(b[Place(b, x)].value, a[Place(a, x)].value)
      BY <2>4, <2>6
    <3> QED  BY <2>5, <3>1, <3>2 DEF SameArray
  <2> QED  BY <1>1, <2>2, <2>6
<1> QED  BY <1>7, <1>8 DEF ArrayReturns

(* An array inside comes back as a value.                                  *)
LEMMA NestedReturns ==
  ASSUME NEW a \in InnerArrays, ArrayReturns(a, Encode(a))
  PROVE  ValueReturns(<<"array", a>>)
<1> DEFINE v == <<"array", a>>
           d == Encode(a)
<1> SUFFICES ASSUME Sayable(v)
             PROVE  /\ EncodeValue(v) # Fail
                    /\ SameValue(DecodeValue(EncodeValue(v)), v)
  BY DEF ValueReturns
<1>1. /\ EncodeInside(a) = d
      /\ SayableInside(a) <=> SayableArray(a)
      /\ d # Fail => /\ DecodeInside(d) = Decode(d)
                     /\ SameInside(Decode(d), a) <=> SameArray(Decode(d), a)
  BY InsideAssumption
<1>2. SayableArray(a)
  <2>1. Sayable(v) <=> SayableInside(a)
    BY DEF Sayable
  <2> QED  BY <1>1, <2>1
<1>3. d # Fail /\ SameArray(Decode(d), a)
  BY <1>2 DEF ArrayReturns
<1>4. EncodeValue(v) = d
  BY <1>1 DEF EncodeValue
<1>5. DecodeValue(d) = <<"array", Decode(d)>>
  <2>1. d[1] \in {"list", "object"}
    BY <1>3, EncodedKind
  <2>2. DecodeValue(d) = <<"array", DecodeInside(d)>>
    BY <2>1 DEF DecodeValue
  <2> QED  BY <1>1, <1>3, <2>2
<1>6. SameInside(Decode(d), a)
  BY <1>1, <1>3
<1>7. SameValue(<<"array", Decode(d)>>, v)
  BY <1>6 DEF SameValue
<1> QED  BY <1>3, <1>4, <1>5, <1>7

(* An array comes back when its values do (mln_lang_json_encode_generate). *)
THEOREM ArraysReturn ==
  ASSUME NEW V, NEW a \in ArraysOf(KeyValues, V), \A v \in V : ValueReturns(v)
  PROVE  ArrayReturns(a, Encode(a))
<1>1. CASE Keyed(a) = {}
  BY <1>1, ListReturns
<1>2. CASE Keyed(a) # {} /\ Keyed(a) = DOMAIN a
  BY <1>2, ObjectReturns
<1>3. CASE Keyed(a) # {} /\ Keyed(a) # DOMAIN a
  <2>1. Encode(a) = Fail
    BY <1>3 DEF Encode
  <2>2. ~SayableArray(a)
    BY <1>3 DEF SayableArray
  <2> QED  BY <2>1, <2>2 DEF ArrayReturns
<1> QED  BY <1>1, <1>2, <1>3

(* A value without others inside comes back.                               *)
LEMMA ScalarReturns ==
  ASSUME NEW v, ScalarValue(v)
  PROVE  ValueReturns(v)
<1> SUFFICES ASSUME Sayable(v)
             PROVE  /\ EncodeValue(v) # Fail
                    /\ SameValue(DecodeValue(EncodeValue(v)), v)
  BY DEF ValueReturns
<1>1. CASE v = <<"nil">>
  <2>1. EncodeValue(v) = <<"null">>
    BY <1>1 DEF EncodeValue
  <2>2. DecodeValue(<<"null">>) = v
    BY <1>1 DEF DecodeValue
  <2> QED  BY <1>1, <2>1, <2>2 DEF SameValue, Fail
<1>2. CASE v = <<"func">>
  BY <1>2 DEF Sayable
<1>3. CASE v \in {"bool"} \X BOOLEAN \/ (v[1] = "str" /\ v = <<"str", v[2]>>)
  <2>1. v[1] \in {"bool", "str"} /\ v # Fail
    BY <1>3 DEF Fail
  <2>2. EncodeValue(v) = v
    BY <2>1 DEF EncodeValue
  <2>3. DecodeValue(v) = v
    BY <2>1 DEF DecodeValue
  <2> QED  BY <2>1, <2>2, <2>3 DEF SameValue
<1>4. CASE v \in {"int"} \X Int
  <2>1. PICK i \in Int : v = <<"int", i>>
    BY <1>4
  <2>2. i \in -Exact .. Exact
    BY <2>1 DEF Sayable
  <2>3. EncodeValue(v) = <<"num", 2 * i>>
    BY <2>1, <2>2 DEF EncodeValue, Double
  <2>4. (2 * i) % 2 = 0 /\ (2 * i) \div 2 = i
    BY <2>1, Z3
  <2>5. DecodeValue(<<"num", 2 * i>>) = v
    BY <2>1, <2>4 DEF DecodeValue, DecodeNumber
  <2> QED  BY <2>1, <2>3, <2>5 DEF SameValue, Fail
<1>5. CASE v \in {"real"} \X Int
  <2>1. PICK h \in Int : v = <<"real", h>>
    BY <1>5
  <2>2. h % 2 = 1
    BY <2>1 DEF Sayable
  <2>3. EncodeValue(v) = <<"num", h>>
    BY <2>1 DEF EncodeValue
  <2>4. DecodeValue(<<"num", h>>) = v
    BY <2>1, <2>2 DEF DecodeValue, DecodeNumber
  <2> QED  BY <2>1, <2>3, <2>4 DEF SameValue, Fail
<1>6. \/ v \in {<<"nil">>, <<"func">>}
      \/ v \in {"bool"} \X BOOLEAN \/ (v[1] = "str" /\ v = <<"str", v[2]>>)
      \/ v \in {"int"} \X Int \/ v \in {"real"} \X Int
  BY DEF ScalarValue
<1> QED  BY <1>1, <1>2, <1>3, <1>4, <1>5, <1>6

(* All values come back, however deep arrays nest in them.                 *)
LEMMA ValuesReturn ==
  ASSUME NEW n \in 1 .. Len(ValueLevels), NEW v \in ValueLevels[n]
  PROVE  ValueReturns(v)
<1> DEFINE m == Len(ValueLevels)
           T == {k \in 0 .. m :
                   \A o \in 1 .. k : \A w \in ValueLevels[o] : ValueReturns(w)}
<1>1. m \in Nat /\ DOMAIN ValueLevels = 1 .. m
  BY NestingAssumption
<1>2. 0 \in T
  BY <1>1
<1>3. ASSUME NEW k \in 0 .. m - 1, k \in T PROVE k + 1 \in T
  <2>1. k + 1 \in 1 .. m /\ k \in Nat /\ (k + 1) - 1 = k
    BY <1>1
  <2>2. \A o \in 1 .. k : \A w \in ValueLevels[o] : ValueReturns(w)
    BY <1>3
  <2>3. ASSUME NEW w \in ValueLevels[k + 1] PROVE ValueReturns(w)
    <3>1. \/ ScalarValue(w)
          \/ /\ k + 1 > 1
             /\ w \in {"array"} \X ScriptArrays(ValueLevels[(k + 1) - 1], MaxElems)
      BY <1>1, <2>1, <2>3, NestingAssumption
    <3>2. CASE ScalarValue(w)
      BY <3>2, ScalarReturns
    <3>3. CASE k + 1 > 1 /\ w \in {"array"} \X ScriptArrays(ValueLevels[k], MaxElems)
      <4>1. PICK a \in ScriptArrays(ValueLevels[k], MaxElems) : w = <<"array", a>>
        BY <3>3
      <4>2. k \in 1 .. k /\ k \in 1 .. m
        BY <1>1, <2>1, <3>3
      <4>3. a \in ArraysOf(KeyValues, ValueLevels[k])
        BY ScriptArraysAre, LibrariesAssumption
      <4>4. \A u \in ValueLevels[k] : ValueReturns(u)
        BY <2>2, <4>2
      <4>5. ArrayReturns(a, Encode(a))
        BY <4>3, <4>4, ArraysReturn
      <4>6. a \in InnerArrays
        <5>1. w \in UNION {ValueLevels[o] : o \in DOMAIN ValueLevels}
          BY <1>1, <2>1, <2>3
        <5>2. w[1] = "array" /\ w[2] = a
          BY <4>1
        <5> QED  BY <5>1, <5>2 DEF InnerArrays
      <4> QED  BY <4>1, <4>5, <4>6, NestedReturns
    <3> QED  BY <2>1, <3>1, <3>2, <3>3
  <2> QED  BY <2>1, <2>2, <2>3
<1>4. 0 .. m \subseteq T
  <2> HIDE DEF m, T
  <2> QED  BY <1>1, <1>2, <1>3, UpTo
<1>5. m \in T
  BY <1>1, <1>4
<1> QED  BY <1>5

-----------------------------------------------------------------------------
(* A document inside another comes back as it settles.                     *)
DocumentSettles(d) ==
  EncodeValue(DecodeValue(d)) = SettledInside(d) /\ SettledInside(d) # Fail

(* A decoded list is encoded as the list that its documents settle to.     *)
LEMMA ListSettles ==
  ASSUME NEW D, NEW q \in Seq(D), NEW d, d = <<"list", q>>,
         \A e \in D : DocumentSettles(e)
  PROVE  Encode(Decode(d)) = Settled(d)
<1> DEFINE n == Len(q)
           b == DecodeArray(q)
           s == [k \in 1 .. n |-> EncodeValue(b[k - 1].value)]
<1>1. n \in Nat /\ DOMAIN q = 1 .. n /\ \A k \in 1 .. n : DocumentSettles(q[k])
  OBVIOUS
<1>2. Decode(d) = b
  BY DEF Decode
<1>3. /\ DOMAIN b = 0 .. n - 1 /\ Keyed(b) = {}
      /\ \A k \in 1 .. n : b[k - 1] = Elem(NoKey, DecodeValue(q[k]))
  BY ListDecoded
<1>4. \A k \in 1 .. n : EncodeValue(b[k - 1].value) = SettledInside(q[k])
                          /\ SettledInside(q[k]) # Fail
  <2> SUFFICES ASSUME NEW k \in 1 .. n
               PROVE  EncodeValue(b[k - 1].value) = SettledInside(q[k])
                        /\ SettledInside(q[k]) # Fail
    OBVIOUS
  <2>0. b[k - 1] = Elem(NoKey, DecodeValue(q[k]))
    BY <1>3
  <2>1. b[k - 1].value = DecodeValue(q[k])
    BY <2>0 DEF Elem
  <2>2. DocumentSettles(q[k])
    BY <1>1
  <2> QED  BY <2>1, <2>2 DEF DocumentSettles
<1> HIDE DEF b, n
<1>5. \A i \in DOMAIN b : EncodeValue(b[i].value) # Fail
  <2>1. \A i \in DOMAIN b : i + 1 \in 1 .. n /\ (i + 1) - 1 = i
    BY <1>1, <1>3
  <2> QED  BY <1>4, <2>1
<1>6. Cardinality(DOMAIN b) = n
  BY <1>1, <1>3, FS_Interval
<1>7. Encode(b) = <<"list", s>>
  BY <1>1, <1>3, <1>5, <1>6, ListEncoded
<1>8. s = [k \in 1 .. n |-> SettledInside(q[k])]
  BY <1>4
<1>9. Settled(d) = <<"list", [k \in 1 .. n |-> SettledInside(q[k])]>>
  BY <1>1 DEF Settled
<1> QED  BY <1>2, <1>7, <1>8, <1>9

(* A decoded object is encoded as the object that its documents settle to, *)
(* or as the empty list.                                                   *)
LEMMA ObjectSettles ==
  ASSUME NEW D, NEW f \in ObjectsOver(D), NEW d, d = <<"object", f>>,
         \A e \in D : DocumentSettles(e)
  PROVE  Encode(Decode(d)) = Settled(d)
<1> DEFINE b == DecodeObj(f)
           W == DOMAIN f
           g == [k \in NamesOf(b) |-> EncodeValue(b[Place(b, <<"str", k>>)].value)]
<1>1. Decode(d) = b
  BY DEF Decode
<1>2. \A k \in W : DocumentSettles(f[k])
  BY DEF ObjectsOver
<1> HIDE DEF g
<1>3. /\ b \in ArraysOf(NameKeys, ValuesOf(f))
      /\ Keyed(b) = DOMAIN b
      /\ KeysOf(b) = {"str"} \X W
      /\ IsFiniteSet(W)
      /\ Cardinality(DOMAIN b) = Cardinality(W)
      /\ \A i \in DOMAIN b :
           \E k \in W : b[i] = Elem(<<"str", k>>, DecodeValue(f[k]))
      /\ \A k \in W :
           \E i \in DOMAIN b : b[i] = Elem(<<"str", k>>, DecodeValue(f[k]))
  BY ObjectDecoded
<1> HIDE DEF b
<1> USE DEF g
<1>4. ASSUME NEW k \in W
      PROVE  /\ \E i \in DOMAIN b :
                  b[i].key = <<"str", k>> /\ b[i].value = DecodeValue(f[k])
             /\ EncodeValue(b[Place(b, <<"str", k>>)].value) = SettledInside(f[k])
  <2>1. PICK i \in DOMAIN b : b[i] = Elem(<<"str", k>>, DecodeValue(f[k]))
    BY <1>3
  <2>2. b[i].key = <<"str", k>> /\ b[i].value = DecodeValue(f[k])
    BY <2>1 DEF Elem
  <2>3. Place(b, b[i].key) = i
    BY <1>3, PlaceIs
  <2>4. EncodeValue(DecodeValue(f[k])) = SettledInside(f[k])
    BY <1>2 DEF DocumentSettles
  <2> QED  BY <2>2, <2>3, <2>4
<1>5. ASSUME NEW i \in DOMAIN b
      PROVE  /\ b[i].key[1] = "str" /\ b[i].key[2] \in W
             /\ EncodeValue(b[i].value) # Fail
  <2>1. PICK k \in W : b[i] = Elem(<<"str", k>>, DecodeValue(f[k]))
    BY <1>3
  <2>2. b[i].key = <<"str", k>> /\ b[i].value = DecodeValue(f[k])
    BY <2>1 DEF Elem
  <2>3. EncodeValue(DecodeValue(f[k])) # Fail
    BY <1>2 DEF DocumentSettles
  <2> QED  BY <2>2, <2>3
<1>6. StringKeyed(b) = DOMAIN b /\ NamesOf(b) = W
  <2>1. StringKeyed(b) = DOMAIN b
    BY <1>3, <1>5 DEF StringKeyed
  <2>2. ASSUME NEW k \in W PROVE k \in NamesOf(b)
    <3>1. PICK i \in DOMAIN b : b[i].key = <<"str", k>>
      BY <1>4
    <3>2. b[i].key[2] = k
      BY <3>1
    <3> QED  BY <2>1, <3>2 DEF NamesOf
  <2>3. \A k \in NamesOf(b) : k \in W
    BY <1>5, <2>1 DEF NamesOf
  <2> QED  BY <2>1, <2>2, <2>3
<1>7. CASE W = {}
  <2>1. DOMAIN b = {}
    BY <1>3, <1>7
  <2>2. Keyed(b) = {} /\ Cardinality(DOMAIN b) = 0 /\ DOMAIN b = 0 .. 0 - 1
    BY <1>3, <2>1, FS_EmptySet
  <2>3. PICK n \in Nat : n = Cardinality(DOMAIN b) /\ n = 0
    BY <2>2
  <2> DEFINE s == [k \in 1 .. n |-> EncodeValue(b[k - 1].value)]
  <2>4. s = <<>>
    BY <2>3
  <2> HIDE DEF s
  <2>6. Encode(b) = <<"list", s>>
    <3>1. DOMAIN b = 0 .. n - 1
      BY <2>2, <2>3
    <3>2. \A i \in DOMAIN b : EncodeValue(b[i].value) # Fail
      BY <2>1
    <3>3. s = [k \in 1 .. n |-> EncodeValue(b[k - 1].value)]
      BY DEF s
    <3> QED  BY <2>2, <2>3, <3>1, <3>2, <3>3, ListEncoded
  <2>5. Settled(d) = <<"list", <<>>>>
    BY <1>7 DEF Settled
  <2> QED  BY <1>1, <2>4, <2>5, <2>6
<1>8. CASE W # {}
  <2>1. DOMAIN b # {}
    BY <1>4, <1>8
  <2>2. Encode(b) = <<"object", g>>
    <3>1. \A i \in StringKeyed(b) : EncodeValue(b[i].value) # Fail
      BY <1>5, <1>6
    <3> QED  BY <1>3, <2>1, <3>1, ObjectEncoded
  <2>3. g = [k \in W |-> SettledInside(f[k])]
    BY <1>4, <1>6
  <2>4. Settled(d) = <<"object", [k \in W |-> SettledInside(f[k])]>>
    BY <1>8 DEF Settled
  <2> QED  BY <1>1, <2>2, <2>3, <2>4
<1> QED  BY <1>7, <1>8

(* A document made of others comes back when they do.                      *)
LEMMA MadeSettles ==
  ASSUME NEW D, NEW d, MadeOf(d, Names, D), \A e \in D : DocumentSettles(e)
  PROVE  /\ Encode(Decode(d)) = Settled(d)
         /\ d[1] \in {"list", "object"}
<1>1. CASE d \in {"list"} \X Seq(D)
  <2>1. PICK q \in Seq(D) : d = <<"list", q>>
    BY <1>1
  <2> QED  BY <2>1, ListSettles
<1>2. CASE d \in {"object"} \X ObjectsOver(D)
  <2>1. PICK f \in ObjectsOver(D) : d = <<"object", f>>
    BY <1>2
  <2> QED  BY <2>1, ObjectSettles
<1> QED  BY <1>1, <1>2 DEF MadeOf, ObjectsOver

(* A document without others inside is encoded as it is.                   *)
LEMMA ScalarSettles ==
  ASSUME NEW d, ScalarDocument(d)
  PROVE  /\ EncodeValue(DecodeValue(d)) = d /\ d # Fail
         /\ Settled(d) = d /\ d[1] \notin {"list", "object"}
<1>1. CASE d = <<"null">>
  <2>1. DecodeValue(d) = <<"nil">>
    BY <1>1 DEF DecodeValue
  <2>2. EncodeValue(<<"nil">>) = d
    BY <1>1 DEF EncodeValue
  <2> QED  BY <1>1, <2>1, <2>2 DEF Settled, Fail
<1>2. CASE d \in {"bool"} \X BOOLEAN \/ (d[1] = "str" /\ d = <<"str", d[2]>>)
  <2>1. d[1] \in {"bool", "str"} /\ d # Fail
    BY <1>2 DEF Fail
  <2>2. DecodeValue(d) = d /\ EncodeValue(d) = d /\ Settled(d) = d
    BY <2>1 DEF DecodeValue, EncodeValue, Settled
  <2> QED  BY <2>1, <2>2
<1>3. CASE d \in {"num"} \X {h \in Int : h % 2 = 0 => Double(h \div 2) = h \div 2}
  <2>1. PICK h \in Int : d = <<"num", h>> /\ (h % 2 = 0 => Double(h \div 2) = h \div 2)
    BY <1>3
  <2>2. DecodeValue(d) = DecodeNumber(h)
    BY <2>1 DEF DecodeValue
  <2>3. EncodeValue(DecodeNumber(h)) = d
    <3>1. CASE h % 2 = 0
      <4>1. DecodeNumber(h) = <<"int", h \div 2>>
        BY <3>1 DEF DecodeNumber
      <4>2. EncodeValue(<<"int", h \div 2>>) = <<"num", 2 * Double(h \div 2)>>
        BY DEF EncodeValue
      <4>3. 2 * (h \div 2) = h
        BY <2>1, <3>1, Z3
      <4> QED  BY <2>1, <3>1, <4>1, <4>2, <4>3
    <3>2. CASE h % 2 # 0
      <4>1. DecodeNumber(h) = <<"real", h>>
        BY <3>2 DEF DecodeNumber
      <4> QED  BY <2>1, <4>1 DEF EncodeValue
    <3> QED  BY <3>1, <3>2
  <2> QED  BY <2>1, <2>2, <2>3 DEF Settled, Fail
<1> QED  BY <1>1, <1>2, <1>3 DEF ScalarDocument


(* A document with others inside settles to a list or an object.           *)
LEMMA SettledKind ==
  ASSUME NEW d, d[1] \in {"list", "object"}
  PROVE  Settled(d) # Fail
<1>1. CASE d[1] = "list"
  <2>1. Settled(d) = <<"list", [n \in DOMAIN d[2] |-> SettledInside(d[2][n])]>>
    BY <1>1 DEF Settled
  <2>2. Settled(d)[1] = "list"
    BY <2>1
  <2> QED  BY <2>2 DEF Fail
<1>2. CASE d[1] = "object" /\ DOMAIN d[2] = {}
  <2>1. Settled(d) = <<"list", <<>>>>
    BY <1>2 DEF Settled
  <2>2. Settled(d)[1] = "list"
    BY <2>1
  <2> QED  BY <2>2 DEF Fail
<1>3. CASE d[1] = "object" /\ DOMAIN d[2] # {}
  <2>1. Settled(d) = <<"object", [k \in DOMAIN d[2] |-> SettledInside(d[2][k])]>>
    BY <1>3 DEF Settled
  <2>2. Settled(d)[1] = "object"
    BY <2>1
  <2> QED  BY <2>2 DEF Fail
<1> QED  BY <1>1, <1>2, <1>3

(* All documents settle, however deep they nest.                           *)
LEMMA DocumentsSettle ==
  ASSUME NEW n \in 1 .. Len(DocumentLevels), NEW d \in DocumentLevels[n]
  PROVE  DocumentSettles(d)
<1> DEFINE m == Len(DocumentLevels)
           T == {k \in 0 .. m :
                   \A o \in 1 .. k : \A e \in DocumentLevels[o] : DocumentSettles(e)}
<1>1. m \in Nat /\ DOMAIN DocumentLevels = 1 .. m
  BY NestingAssumption
<1>2. 0 \in T
  BY <1>1
<1>3. ASSUME NEW k \in 0 .. m - 1, k \in T PROVE k + 1 \in T
  <2>1. k + 1 \in 1 .. m /\ k \in Nat /\ (k + 1) - 1 = k
    BY <1>1
  <2>2. \A o \in 1 .. k : \A e \in DocumentLevels[o] : DocumentSettles(e)
    BY <1>3
  <2>3. ASSUME NEW e \in DocumentLevels[k + 1] PROVE DocumentSettles(e)
    <3>1. \/ ScalarDocument(e)
          \/ k + 1 > 1 /\ MadeOf(e, Names, DocumentLevels[(k + 1) - 1])
      BY <1>1, <2>1, <2>3, NestingAssumption
    <3>2. e \in InnerDocuments
      BY <1>1, <2>1, <2>3 DEF InnerDocuments
    <3>3. /\ DecodeInside(e) = Decode(e)
          /\ EncodeInside(Decode(e)) = Encode(Decode(e))
          /\ SettledInside(e) = Settled(e)
      BY <3>2, InsideAssumption
    <3>4. CASE ScalarDocument(e)
      <4>1. EncodeValue(DecodeValue(e)) = e /\ e # Fail /\ Settled(e) = e
        BY <3>4, ScalarSettles
      <4> QED  BY <3>3, <4>1 DEF DocumentSettles
    <3>5. CASE k + 1 > 1 /\ MadeOf(e, Names, DocumentLevels[k])
      <4>1. k \in 1 .. k
        BY <2>1, <3>5
      <4>2. \A u \in DocumentLevels[k] : DocumentSettles(u)
        BY <2>2, <4>1
      <4>3. Encode(Decode(e)) = Settled(e) /\ e[1] \in {"list", "object"}
        BY <3>5, <4>2, MadeSettles
      <4>4. DecodeValue(e) = <<"array", DecodeInside(e)>>
        BY <4>3 DEF DecodeValue
      <4>5. EncodeValue(<<"array", Decode(e)>>) = EncodeInside(Decode(e))
        BY DEF EncodeValue
      <4>6. Settled(e) # Fail
        BY <4>3, SettledKind
      <4> QED  BY <3>3, <4>3, <4>4, <4>5, <4>6 DEF DocumentSettles
    <3> QED  BY <2>1, <3>1, <3>4, <3>5
  <2> QED  BY <2>1, <2>2, <2>3
<1>4. 0 .. m \subseteq T
  <2> HIDE DEF m, T
  <2> QED  BY <1>1, <1>2, <1>3, UpTo
<1>5. m \in T
  BY <1>1, <1>4
<1> QED  BY <1>5

(* A scalar alone comes back as the only value of a list.                  *)
LEMMA ScalarDocumentReturns ==
  ASSUME NEW d, ScalarDocument(d), SettledInside(d) = Settled(d)
  PROVE  DocumentReturns(d, Decode(d))
<1> DEFINE b == [i \in 0 .. 0 |-> Elem(NoKey, DecodeValue(d))]
<1>1. /\ EncodeValue(DecodeValue(d)) = d /\ d # Fail
      /\ Settled(d) = d /\ d[1] \notin {"list", "object"}
  BY ScalarSettles
<1>2. Decode(d) = Put(EmptyArray, NoKey, DecodeValue(d))
  BY <1>1 DEF Decode
<1>3. Put(EmptyArray, NoKey, DecodeValue(d)) = b
  <2>1. DOMAIN EmptyArray = {}
    BY DEF EmptyArray
  <2>2. Place(EmptyArray, NoKey) = 0
    BY <2>1 DEF Place, KeysOf, Keyed, NextIndex
  <2> QED  BY <2>1, <2>2 DEF Put
<1>4. /\ DOMAIN b = 0 .. 0 /\ b[0] = Elem(NoKey, DecodeValue(d))
      /\ Keyed(b) = {}
  <2>1. DOMAIN b = 0 .. 0 /\ b[0] = Elem(NoKey, DecodeValue(d))
    OBVIOUS
  <2>2. b[0].key = NoKey
    BY <2>1 DEF Elem
  <2> HIDE DEF b
  <2>3. Keyed(b) = {}
    BY <2>1, <2>2 DEF Keyed
  <2> QED  BY <2>1, <2>3
<1>5. EncodeValue(b[0].value) = d
  BY <1>1, <1>4 DEF Elem
<1> HIDE DEF b
<1>6. PICK n \in Nat : n = 1 /\ n = Cardinality(DOMAIN b) /\ DOMAIN b = 0 .. n - 1
  <2>1. Cardinality(0 .. 0) = 1
    <3>1. 0 .. 0 = {0}
      OBVIOUS
    <3>2. Cardinality({0}) = 1
      BY FS_Singleton
    <3> QED  BY <3>1, <3>2
  <2>2. 1 \in Nat /\ 1 = Cardinality(DOMAIN b) /\ DOMAIN b = 0 .. 1 - 1
    BY <1>4, <2>1
  <2> QED  BY <2>2
<1> DEFINE s == [k \in 1 .. n |-> EncodeValue(b[k - 1].value)]
<1>7. s = <<d>>
  BY <1>5, <1>6
<1> HIDE DEF s
<1>8. Encode(b) = <<"list", s>>
  <2>1. \A i \in DOMAIN b : EncodeValue(b[i].value) # Fail
    BY <1>1, <1>4, <1>5
  <2>2. s = [k \in 1 .. n |-> EncodeValue(b[k - 1].value)]
    BY DEF s
  <2> QED  BY <1>4, <1>6, <2>1, <2>2, ListEncoded
<1>9. Settled(Whole(d)) = <<"list", <<d>>>>
  <2>1. Whole(d) = <<"list", <<d>>>>
    BY <1>1 DEF Whole
  <2>2. [k \in DOMAIN <<d>> |-> SettledInside(<<d>>[k])] = <<d>>
    BY <1>1
  <2> QED  BY <2>1, <2>2 DEF Settled
<1> QED  BY <1>2, <1>3, <1>7, <1>8, <1>9 DEF DocumentReturns


(* All documents come back, a scalar in a list.                            *)
LEMMA DocumentsReturn ==
  ASSUME NEW d \in Documents
  PROVE  DocumentReturns(d, Decode(d))
<1> DEFINE m == Len(DocumentLevels)
<1>1. m \in Nat /\ m \in 1 .. m /\ DOMAIN DocumentLevels = 1 .. m
  BY NestingAssumption
<1>2. d \in DocumentLevels[m]
  BY DEF Documents
<1>3. ScalarDocument(d) \/ (m > 1 /\ MadeOf(d, Names, DocumentLevels[m - 1]))
  BY <1>1, <1>2, NestingAssumption
<1>4. CASE ScalarDocument(d)
  <2>1. d \in InnerDocuments
    BY <1>1, <1>2 DEF InnerDocuments
  <2>2. SettledInside(d) = Settled(d)
    BY <2>1, InsideAssumption
  <2> QED  BY <1>4, <2>2, ScalarDocumentReturns
<1>5. CASE m > 1 /\ MadeOf(d, Names, DocumentLevels[m - 1])
  <2>1. m - 1 \in 1 .. m
    BY <1>1, <1>5
  <2>2. \A e \in DocumentLevels[m - 1] : DocumentSettles(e)
    <3> HIDE DEF m
    <3> SUFFICES ASSUME NEW e \in DocumentLevels[m - 1] PROVE DocumentSettles(e)
      OBVIOUS
    <3>1. m - 1 \in 1 .. Len(DocumentLevels)
      BY <2>1 DEF m
    <3> QED  BY <3>1, DocumentsSettle
  <2>3. Encode(Decode(d)) = Settled(d) /\ d[1] \in {"list", "object"}
    BY <1>5, <2>2, MadeSettles
  <2> QED  BY <2>3 DEF DocumentReturns, Whole
<1> QED  BY <1>3, <1>4, <1>5

-----------------------------------------------------------------------------
(* What is known of the arguments and of the answer of each call           *)
EncodeCall ==
  call = "encode" =>
    /\ args \in {<<a>> : a \in ScriptArrays(Values, 2)}
    /\ answer # <<>> => answer = <<Encode(args[1])>>

DecodeCall ==
  call = "decode" =>
    /\ args \in {<<d>> : d \in Documents}
    /\ answer # <<>> => answer = <<Decode(args[1])>>

ReplaceCall ==
  call = "replace" =>
    /\ args \in Texts \X Dicts
    /\ answer # <<>> => answer = <<Replace(args[1], args[2])>>

MergeCall ==
  call = "merge" =>
    /\ args \in ScriptArrays(Small, MaxElems) \X ScriptArrays(Small, MaxElems)
    /\ answer # <<>> => answer = <<Merge(args[1], args[2])>>

MatrixCall ==
  call = "matrix" =>
    /\ args \in Signed \X Signed \X (0 .. MaxSize)
    /\ answer # <<>> => answer = <<Accepts(args[1], args[2], args[3])>>

(* Each call answers from the arguments it was given.                      *)
CallsInv ==
  EncodeCall /\ DecodeCall /\ MergeCall /\ ReplaceCall /\ MatrixCall

(* It holds from the start on, and a call preserves it.                    *)
LEMMA CallsInductive ==
  /\ Init => CallsInv
  /\ CallsInv /\ [Next]_vars => CallsInv'
<1> USE DEF CallsInv, EncodeCall, DecodeCall, MergeCall, ReplaceCall,
           MatrixCall
<1>1. ASSUME Init PROVE CallsInv
  BY <1>1 DEF Init, Asks
<1>2. ASSUME CallsInv, [Next]_vars PROVE CallsInv'
  <2>1. CASE Encodes
    BY <1>2, <2>1 DEF Encodes, Makes
  <2>2. CASE Decodes
    BY <1>2, <2>2 DEF Decodes, Makes
  <2>3. CASE Merges
    BY <1>2, <2>3 DEF Merges, Makes
  <2>4. CASE Replaces
    BY <1>2, <2>4 DEF Replaces, Makes
  <2>5. CASE Builds
    BY <1>2, <2>5 DEF Builds, Makes
  <2>6. CASE UNCHANGED vars
    BY <1>2, <2>6 DEF vars
  <2> QED  BY <1>2, <2>1, <2>2, <2>3, <2>4, <2>5, <2>6 DEF Next
<1> QED  BY <1>1, <1>2

(* The arrays that are encoded come back, and the documents that are       *)
(* decoded (mln_lang_json_encode_generate, mln_lang_json_decode_process).  *)
THEOREM JsonAlwaysReturns == Spec => []JsonRoundTrip
<1>1. CallsInv => JsonRoundTrip
  <2> SUFFICES ASSUME CallsInv PROVE JsonRoundTrip
    OBVIOUS
  <2>1. ASSUME Answered("encode") PROVE ArrayReturns(args[1], answer[1])
    <3>1. /\ args \in {<<a>> : a \in ScriptArrays(Values, 2)}
          /\ answer = <<Encode(args[1])>>
      BY <2>1 DEF CallsInv, EncodeCall, Answered
    <3>2. args[1] \in ScriptArrays(Values, 2) /\ answer[1] = Encode(args[1])
      BY <3>1
    <3>3. args[1] \in ArraysOf(KeyValues, Values)
      BY <3>2, ScriptArraysAre
    <3>4. \A v \in Values : ValueReturns(v)
      <4>1. Len(ValueLevels) \in 1 .. Len(ValueLevels)
        BY NestingAssumption
      <4> QED  BY <4>1, ValuesReturn DEF Values
    <3> QED  BY <3>2, <3>3, <3>4, ArraysReturn
  <2>2. ASSUME Answered("decode") PROVE DocumentReturns(args[1], answer[1])
    <3>1. /\ args \in {<<d>> : d \in Documents}
          /\ answer = <<Decode(args[1])>>
      BY <2>2 DEF CallsInv, DecodeCall, Answered
    <3>2. args[1] \in Documents /\ answer[1] = Decode(args[1])
      BY <3>1
    <3> QED  BY <3>2, DocumentsReturn
  <2> QED  BY <2>1, <2>2 DEF JsonRoundTrip
<1> QED  BY <1>1, CallsInductive, PTL DEF Spec

(* What a script sees of a merge and of the differences of two arrays is   *)
(* what the sets of their entries say (mln_lang_sys_merge_process,         *)
(* mln_lang_sys_diff_process, mln_lang_sys_key_diff_process).              *)
THEOREM MergesAlwaysAgree == Spec => []MergeDiffAgree
<1>1. CallsInv => MergeDiffAgree
  <2> SUFFICES ASSUME CallsInv, Answered("merge")
               PROVE  MergeAndDiffAgree(args[1], args[2], answer[1])
    BY DEF MergeDiffAgree
  <2>1. /\ args \in ScriptArrays(Small, MaxElems) \X ScriptArrays(Small, MaxElems)
        /\ answer[1] = Merge(args[1], args[2])
    BY DEF CallsInv, MergeCall, Answered
  <2>2. /\ args[1] \in ArraysOf(KeyValues, Small)
        /\ args[2] \in ArraysOf(KeyValues, Small)
    BY <2>1, ScriptArraysAre, LibrariesAssumption
  <2> QED  BY <2>1, <2>2, MergeAgrees
<1> QED  BY <1>1, CallsInductive, PTL DEF Spec

(* replace writes as many bytes as it has counted, and the text that is    *)
(* wanted when no occurrences overlap (mln_replace_do).                    *)
THEOREM ReplaceAlwaysFits == Spec => []ReplaceFits
<1>1. CallsInv => ReplaceFits
  <2> SUFFICES ASSUME CallsInv, Answered("replace")
               PROVE  FitsAndReplaces(args[1], args[2], answer[1])
    BY DEF ReplaceFits
  <2>1. /\ args \in Texts \X Dicts
        /\ answer[1] = Replace(args[1], args[2])
    BY DEF CallsInv, ReplaceCall, Answered
  <2>2. args[1] \in Seq(Chars) /\ args[2] \in Seq(WordsOf(Chars))
    BY <2>1, LibrariesAssumption DEF WordsOf
  <2> QED  BY <2>1, <2>2, ReplaceIsRight
<1> QED  BY <1>1, CallsInductive, PTL DEF Spec

(* Whatever the sizes of the script wrap to, a matrix that is accepted     *)
(* fits into the memory allocated for it (mln_lang_array2matrix).          *)
THEOREM MatrixAlwaysFits == Spec => []BuiltMatrixFits
<1>1. CallsInv => BuiltMatrixFits
  <2> SUFFICES ASSUME CallsInv, Answered("matrix"), answer[1]
               PROVE  MatrixFits(args[1], args[2], args[3])
    BY DEF BuiltMatrixFits
  <2>1. /\ args \in Signed \X Signed \X (0 .. MaxSize)
        /\ answer = <<Accepts(args[1], args[2], args[3])>>
    BY Zenon DEF CallsInv, MatrixCall, Answered
  <2>3. Accepts(args[1], args[2], args[3])
    BY <2>1
  <2>2. args[1] \in Signed /\ args[2] \in Signed /\ args[3] \in Nat
    BY <2>1, SizeAssumption
  <2> QED  BY <2>2, <2>3, AcceptedFits
<1> QED  BY <1>1, CallsInductive, PTL DEF Spec

=============================================================================
