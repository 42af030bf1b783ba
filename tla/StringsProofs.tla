--------------------------- MODULE StringsProofs ---------------------------
(***************************************************************************)
(* Proofs about Strings: what replace computes for every string and every  *)
(* dictionary.  A loop of the code is a fold over a sequence; its proof is *)
(* an induction on the turns of the loop, from the lemma that a set of     *)
(* numbers has a least one.                                                *)
(***************************************************************************)
EXTENDS Strings, FiniteSetTheorems, SequenceTheorems, WellFoundedInduction, TLAPS

(* Every set of numbers that is not empty has a least one.                 *)
LEMMA LeastOf ==
  ASSUME NEW S \in SUBSET Nat, S # {}
  PROVE  \E n \in S : \A m \in S : n <= m
<1> DEFINE R == OpToRel(<, Nat)
<1>1. IsWellFoundedOn(R, Nat)
  BY NatLessThanWellFounded, Zenon
<1>2. ASSUME NEW x \in Nat, NEW y \in Nat, x < y PROVE <<x, y>> \in R
  BY <1>2, Zenon DEF OpToRel
<1> HIDE DEF R
<1>3. PICK n \in S : \A y \in S : <<y, n>> \notin R
  BY <1>1, WFMin
<1>4. ASSUME NEW m \in S PROVE n <= m
  <2>1. ~(m < n)
    BY <1>2, <1>3
  <2> QED  BY <2>1
<1> QED  BY <1>4

(* Induction: a set that has 0, and with a number below n the next, has    *)
(* all numbers up to n.                                                    *)
LEMMA UpTo ==
  ASSUME NEW n \in Nat, NEW S, 0 \in S,
         \A k \in 0 .. n - 1 : k \in S => k + 1 \in S
  PROVE  0 .. n \subseteq S
<1> SUFFICES ASSUME ~(0 .. n \subseteq S) PROVE FALSE
  OBVIOUS
<1> DEFINE T == {k \in 0 .. n : k \notin S}
<1>1. T \in SUBSET Nat /\ T # {}
  OBVIOUS
<1>2. PICK m \in T : \A k \in T : m <= k
  BY <1>1, LeastOf
<1>3. m \in 0 .. n /\ m # 0 /\ m \notin S
  OBVIOUS
<1>4. m - 1 \in 0 .. n - 1 /\ m - 1 \notin T
  BY <1>2, <1>3
<1>5. m - 1 \in S
  BY <1>4
<1>6. (m - 1) + 1 \in S
  BY <1>4, <1>5
<1> QED  BY <1>3, <1>6

(* The greatest of a set of numbers                                        *)
LEMMA MaxOf ==
  ASSUME NEW n \in Nat, NEW S \in SUBSET (1 .. n), S # {}
  PROVE  Max(S) \in S /\ \A y \in S : y <= Max(S)
<1> DEFINE T == {n - x : x \in S}
<1>1. \A x \in S : x \in Int /\ n - x \in Nat
  OBVIOUS
<1>2. PICK m \in T : \A k \in T : m <= k
  <2>1. T \in SUBSET Nat /\ T # {}
    BY <1>1
  <2> HIDE DEF T
  <2> QED  BY <2>1, LeastOf
<1>3. PICK x \in S : m = n - x
  OBVIOUS
<1>4. ASSUME NEW y \in S PROVE x >= y
  <2>1. m <= n - y
    BY <1>2
  <2> QED  BY <1>1, <1>3, <2>1
<1> QED  BY <1>4 DEF Max

(* and of the first numbers                                                *)
LEMMA MaxUpTo ==
  ASSUME NEW k \in Nat \ {0}
  PROVE  Max(1 .. k) = k /\ (1 .. k) \ {k} = 1 .. k - 1
<1>1. k \in 1 .. k /\ (1 .. k) \in SUBSET (1 .. k)
  OBVIOUS
<1>2. Max(1 .. k) \in 1 .. k /\ \A y \in 1 .. k : y <= Max(1 .. k)
  BY <1>1, MaxOf
<1>3. k <= Max(1 .. k)
  BY <1>1, <1>2
<1> QED  BY <1>2, <1>3

(* What each of n turns of a loop makes of its number and a state in V     *)
Turns(n, V) == [(1 .. n) \X V -> V]

(* The state after the turns whose numbers are in S, the greatest last     *)
HasFold(V, b, n, F) ==
  \E g \in [SUBSET (1 .. n) -> V] :
    \A S \in SUBSET (1 .. n) :
      g[S] = IF S = {} THEN b ELSE F[<<Max(S), g[S \ {Max(S)}]>>]

(* Whatever the turns do, there is such a function.                        *)
LEMMA FoldExists ==
  ASSUME NEW V, NEW b \in V, NEW n \in Nat, NEW F \in Turns(n, V)
  PROVE  HasFold(V, b, n, F)
<1> USE DEF Turns, HasFold
<1> DEFINE Folds(g, k) ==
             \A S \in SUBSET (1 .. k) :
               g[S] = IF S = {} THEN b ELSE F[<<Max(S), g[S \ {Max(S)}]>>]
           T == {k \in 0 .. n : \E g \in [SUBSET (1 .. k) -> V] : Folds(g, k)}
<1>1. 0 \in T
  <2> DEFINE g == [S \in SUBSET (1 .. 0) |-> b]
  <2>1. g \in [SUBSET (1 .. 0) -> V] /\ Folds(g, 0)
    OBVIOUS
  <2> HIDE DEF g, Folds
  <2>2. 0 \in 0 .. n
    OBVIOUS
  <2> QED  BY <2>1, <2>2
<1>2. ASSUME NEW k \in 0 .. n - 1, k \in T
      PROVE  k + 1 \in T
  <2>1. PICK g \in [SUBSET (1 .. k) -> V] : Folds(g, k)
    BY <1>2
  <2> DEFINE h == [S \in SUBSET (1 .. k + 1) |->
                     IF S \subseteq 1 .. k THEN g[S]
                     ELSE F[<<k + 1, g[S \ {k + 1}]>>]]
  <2>2. \A S \in SUBSET (1 .. k + 1) : S \ {k + 1} \subseteq 1 .. k
    OBVIOUS
  <2>3. h \in [SUBSET (1 .. k + 1) -> V]
    BY <2>2
  <2>4. ASSUME NEW S \in SUBSET (1 .. k + 1)
        PROVE  h[S] = IF S = {} THEN b ELSE F[<<Max(S), h[S \ {Max(S)}]>>]
    <3>1. CASE S \subseteq 1 .. k
      <4>1. \A R \in SUBSET (1 .. k) : h[R] = g[R]
        OBVIOUS
      <4>2. S \ {Max(S)} \subseteq 1 .. k
        BY <3>1
      <4>3. h[S] = g[S] /\ h[S \ {Max(S)}] = g[S \ {Max(S)}]
        BY <3>1, <4>1, <4>2
      <4> HIDE DEF h
      <4> QED  BY <2>1, <3>1, <4>3
    <3>2. CASE ~(S \subseteq 1 .. k)
      <4>1. k + 1 \in S /\ k + 1 \in Nat
        BY <3>2
      <4>2. Max(S) \in S /\ \A y \in S : y <= Max(S)
        BY <4>1, MaxOf
      <4>3. Max(S) = k + 1
        <5>1. Max(S) \in 1 .. k + 1 /\ k + 1 <= Max(S)
          BY <4>1, <4>2
        <5> QED  BY <5>1
      <4>4. S \ {k + 1} \in SUBSET (1 .. k + 1) /\ S \ {k + 1} \subseteq 1 .. k
        BY <2>2
      <4>5. h[S \ {k + 1}] = g[S \ {k + 1}]
        BY <4>4
      <4> QED  BY <3>2, <4>1, <4>3, <4>5
    <3> QED  BY <3>1, <3>2
  <2>5. Folds(h, k + 1)
    BY <2>4
  <2> HIDE DEF h, Folds
  <2> QED  BY <2>3, <2>5
<1> HIDE DEF T
<1>3. n \in T
  BY <1>1, <1>2, UpTo
<1> QED  BY <1>3 DEF T

(* h gives the state after turns, starting from b: as FoldLeft, it chooses *)
(* the greatest number first, and says nothing of a state not in V.        *)
Folds(h, V, b, n, F) ==
  /\ h[{}] = b
  /\ \A S \in SUBSET (1 .. n) :
       (S # {} /\ h[S \ {Max(S)}] \in V)
         => h[S] = F[<<Max(S), h[S \ {Max(S)}]>>]

(* r gives the state after each turn.                                      *)
Runs(r, V, b, n, F) ==
  /\ r \in [0 .. n -> V]
  /\ r[0] = b
  /\ \A k \in 1 .. n : r[k] = F[<<k, r[k - 1]>>]

(* A fold is a run of the loop.                                            *)
LEMMA FoldRuns ==
  ASSUME NEW V, NEW b \in V, NEW n \in Nat, NEW F \in Turns(n, V), NEW h,
         Folds(h, V, b, n, F)
  PROVE  \E r : Runs(r, V, b, n, F) /\ h[1 .. n] = r[n]
<1> DEFINE r == [k \in 0 .. n |-> h[1 .. k]]
           T == {k \in 0 .. n : r[k] \in V}
<1>1. r[0] = b
  <2>1. (1 .. 0) = {}
    OBVIOUS
  <2> QED  BY <2>1 DEF Folds
<1>2. ASSUME NEW k \in 0 .. n - 1, k \in T
      PROVE  r[k + 1] = F[<<k + 1, r[k]>>] /\ r[k + 1] \in V
  <2>1. k + 1 \in Nat \ {0} /\ (k + 1) - 1 = k /\ k + 1 \in 1 .. n
    OBVIOUS
  <2>2. (1 .. k + 1) \in SUBSET (1 .. n) /\ (1 .. k + 1) # {}
    BY <2>1
  <2>3. Max(1 .. k + 1) = k + 1 /\ (1 .. k + 1) \ {k + 1} = 1 .. k
    BY <2>1, MaxUpTo
  <2>4. h[1 .. k] \in V
    BY <1>2
  <2>5. h[1 .. k + 1] = F[<<k + 1, h[1 .. k]>>]
    BY <2>2, <2>3, <2>4 DEF Folds
  <2>6. <<k + 1, h[1 .. k]>> \in (1 .. n) \X V
    BY <2>1, <2>4
  <2>7. F[<<k + 1, h[1 .. k]>>] \in V
    BY <2>6 DEF Turns
  <2>8. r[k] = h[1 .. k] /\ r[k + 1] = h[1 .. k + 1]
    BY <2>1
  <2> HIDE DEF r
  <2> QED  BY <2>5, <2>7, <2>8
<1>3. 0 \in T
  BY <1>1
<1>4. ASSUME NEW k \in 0 .. n - 1, k \in T PROVE k + 1 \in T
  <2>1. r[k + 1] \in V
    <3> HIDE DEF r, T
    <3> QED  BY <1>2, <1>4
  <2>2. k + 1 \in 0 .. n
    OBVIOUS
  <2> HIDE DEF r
  <2> QED  BY <2>1, <2>2
<1>5. 0 .. n \subseteq T
  <2> HIDE DEF T
  <2> QED  BY <1>3, <1>4, UpTo
<1>6. ASSUME NEW k \in 1 .. n PROVE r[k] = F[<<k, r[k - 1]>>]
  <2>1. k - 1 \in 0 .. n - 1 /\ (k - 1) + 1 = k
    OBVIOUS
  <2>2. k - 1 \in T
    BY <1>5, <2>1
  <2> HIDE DEF r, T
  <2> QED  BY <1>2, <2>1, <2>2
<1>7. r \in [0 .. n -> V]
  BY <1>5
<1>8. h[1 .. n] = r[n]
  OBVIOUS
<1>9. Runs(r, V, b, n, F)
  <2> HIDE DEF r
  <2> QED  BY <1>1, <1>6, <1>7 DEF Runs
<1> QED  BY <1>8, <1>9

-----------------------------------------------------------------------------
(* Entries of a dictionary and occurrences of their keys, over a set C of  *)
(* characters                                                              *)
WordsOf(C) == [key : Seq(C) \ {<<>>}, value : Seq(C)]
PositionsOf(C) == [off : Nat, elem : WordsOf(C)]

(* What the bytes of an occurrence are                                     *)
LEMMA PositionTypes ==
  ASSUME NEW C, NEW list \in Seq(PositionsOf(C)), NEW i \in DOMAIN list
  PROVE  /\ list[i] \in PositionsOf(C)
         /\ list[i].off \in Nat
         /\ list[i].elem \in WordsOf(C)
         /\ list[i].elem.value \in Seq(C)
         /\ Behind(list[i]) \in Nat
         /\ Behind(list[i]) = list[i].off + Len(list[i].elem.key)
         /\ list[i].off < Behind(list[i])
<1>1. list[i] \in PositionsOf(C)
  OBVIOUS
<1>2. list[i].off \in Nat /\ list[i].elem \in WordsOf(C)
  BY <1>1 DEF PositionsOf
<1> DEFINE e == list[i].elem
<1> HIDE DEF e
<1>3. /\ e.value \in Seq(C)
      /\ Len(e.key) \in Nat
      /\ Len(e.key) > 0
  BY <1>2, EmptySeq DEF e, WordsOf
<1> QED  BY <1>1, <1>2, <1>3 DEF e, Behind

(* A turn of the loop of Found, over mln_string_strstr, for each byte      *)
FoundTurn(s, e, acc, p) ==
  IF p >= acc.end /\ Occurs(e.key, s, p)
  THEN [end |-> p + Len(e.key),
        list |-> Append(acc.list, [off |-> p, elem |-> e])]
  ELSE acc

FoundStates(C) == [end : Nat, list : Seq(PositionsOf(C))]
FoundStart == [end |-> 0, list |-> <<>>]
FoundTurns(C, s, e) ==
  [x \in (1 .. Len(s)) \X FoundStates(C) |-> FoundTurn(s, e, x[2], x[1] - 1)]

(* Found is a run of this loop.                                            *)
LEMMA FoundRuns ==
  ASSUME NEW C, NEW s \in Seq(C), NEW e \in WordsOf(C)
  PROVE  \E r : /\ Runs(r, FoundStates(C), FoundStart, Len(s),
                        FoundTurns(C, s, e))
                /\ Found(s, e) = r[Len(s)].list
<1> DEFINE V == FoundStates(C)
           n == Len(s)
           b == FoundStart
           seq == [i \in 1 .. Len(s) |-> i - 1]
           F == FoundTurns(C, s, e)
           IsFold(h) == h = [S \in SUBSET (1 .. n) |->
                               IF S = {} THEN b
                               ELSE FoundTurn(s, e, h[S \ {Max(S)}], seq[Max(S)])]
           it == CHOOSE h : IsFold(h)
<1>1. n \in Nat /\ b \in V
  BY DEF FoundStates, FoundStart
<1>2. ASSUME NEW v \in V, NEW p \in Nat PROVE FoundTurn(s, e, v, p) \in V
  <2>1. Len(e.key) \in Nat /\ [off |-> p, elem |-> e] \in PositionsOf(C)
    BY DEF WordsOf, PositionsOf
  <2> QED  BY <2>1 DEF FoundTurn, FoundStates
<1>3. F \in Turns(n, V)
  BY <1>1, <1>2 DEF Turns, FoundTurns
<1>4. Found(s, e) = it[DOMAIN seq].list
  BY DEF Found, FoldLeft, MapThenFoldSet, FoundTurn, FoundStart
<1>5. ASSUME NEW m \in 1 .. n, NEW v \in V
      PROVE  F[<<m, v>>] = FoundTurn(s, e, v, seq[m])
  BY <1>5 DEF FoundTurns
<1> HIDE DEF V, b, F, seq
<1>6. IsFold(it)
  <2>1. HasFold(V, b, n, F)
    BY <1>1, <1>3, FoldExists
  <2>2. PICK g \in [SUBSET (1 .. n) -> V] :
          \A S \in SUBSET (1 .. n) :
            g[S] = IF S = {} THEN b ELSE F[<<Max(S), g[S \ {Max(S)}]>>]
    BY <2>1 DEF HasFold
  <2>3. ASSUME NEW S \in SUBSET (1 .. n), S # {}
        PROVE  Max(S) \in 1 .. n
    BY <1>1, <2>3, MaxOf
  <2>4. IsFold(g)
    BY <1>5, <2>2, <2>3
  <2> HIDE DEF IsFold
  <2> QED  BY <2>4
<1>7. Folds(it, V, b, n, F)
  <2>1. ASSUME NEW S \in SUBSET (1 .. n), S # {} PROVE Max(S) \in 1 .. n
    BY <1>1, <2>1, MaxOf
  <2> HIDE DEF it
  <2> QED  BY <1>5, <1>6, <2>1 DEF Folds
<1>8. PICK r : Runs(r, V, b, n, F) /\ it[1 .. n] = r[n]
  <2> HIDE DEF it, n
  <2> QED  BY <1>1, <1>3, <1>7, FoldRuns
<1>9. DOMAIN seq = 1 .. n
  BY DEF seq
<1> QED  BY <1>4, <1>8, <1>9 DEF V, b, F

(* What Found returns are occurrences of the key of e in s,                *)
Occurrences(C, s, e, list) ==
  /\ list \in Seq(PositionsOf(C))
  /\ \A i \in DOMAIN list :
       list[i].elem = e /\ Occurs(e.key, s, list[i].off)

(* and where it returns none, it has returned one that lies over it.       *)
Covers(list, e, p) ==
  \E i \in DOMAIN list : list[i].off <= p /\ p < list[i].off + Len(e.key)

(* What is found are occurrences, and every occurrence is covered by one.  *)
LEMMA FoundOccurrences ==
  ASSUME NEW C, NEW s \in Seq(C), NEW e \in WordsOf(C)
  PROVE  /\ Occurrences(C, s, e, Found(s, e))
         /\ \A p \in Nat : Occurs(e.key, s, p) => Covers(Found(s, e), e, p)
<1> DEFINE n == Len(s)
           F == FoundTurns(C, s, e)
<1>1. PICK r : /\ Runs(r, FoundStates(C), FoundStart, n, F)
               /\ Found(s, e) = r[n].list
  BY FoundRuns
<1> DEFINE Behinds(k) ==
             \/ r[k].end = 0
             \/ \E i \in DOMAIN r[k].list :
                  r[k].end = r[k].list[i].off + Len(e.key)
           Inv(k) == /\ Occurrences(C, s, e, r[k].list)
                     /\ \A i \in DOMAIN r[k].list : r[k].list[i].off < k
                     /\ Behinds(k)
                     /\ \A p \in 0 .. k - 1 :
                          Occurs(e.key, s, p) => Covers(r[k].list, e, p)
           T == {k \in 0 .. n : Inv(k)}
<1>2. n \in Nat /\ Len(e.key) \in Nat /\ Len(e.key) > 0
  BY EmptySeq DEF WordsOf
<1>3. 0 \in T
  <2>1. r[0].end = 0 /\ r[0].list = <<>>
    BY <1>1 DEF Runs, FoundStart
  <2>2. Inv(0)
    BY <2>1 DEF Occurrences
  <2> QED  BY <1>2, <2>2
<1>4. ASSUME NEW k \in 0 .. n - 1, k \in T PROVE k + 1 \in T
  <2> DEFINE acc == r[k]
             new == [off |-> k, elem |-> e]
  <2>1. k \in Nat /\ k + 1 \in 1 .. n /\ (k + 1) - 1 = k
    BY <1>2
  <2>2. acc \in FoundStates(C) /\ r[k + 1] = FoundTurn(s, e, acc, k)
    BY <1>1, <1>2, <2>1 DEF Runs, FoundTurns
  <2>3. Inv(k)
    BY <1>4
  <2>4. acc.list \in Seq(PositionsOf(C)) /\ acc.end \in Nat
        /\ \A i \in DOMAIN acc.list : acc.list[i].off \in Nat
    <3>1. acc.list \in Seq(PositionsOf(C)) /\ acc.end \in Nat
      BY <2>2 DEF FoundStates
    <3> HIDE DEF acc
    <3> QED  BY <3>1, PositionTypes
  <2>5. \A p \in 0 .. (k + 1) - 1 : p \in 0 .. k - 1 \/ p = k
    BY <2>1
  <2> HIDE DEF acc
  <2>6. CASE k >= acc.end /\ Occurs(e.key, s, k)
    <3>1. r[k + 1] = [end |-> k + Len(e.key), list |-> Append(acc.list, new)]
      BY <2>2, <2>6 DEF FoundTurn
    <3> DEFINE list == Append(acc.list, new)
               m == Len(acc.list)
    <3>2. new \in PositionsOf(C)
      BY <2>1 DEF PositionsOf
    <3>3. list \in Seq(PositionsOf(C)) /\ DOMAIN list = 1 .. m + 1
          /\ m \in Nat /\ list[m + 1] = new
          /\ \A i \in DOMAIN acc.list : i \in DOMAIN list /\ list[i] = acc.list[i]
      BY <2>4, <3>2
    <3>4. \A i \in DOMAIN list : i \in DOMAIN acc.list \/ i = m + 1
      BY <2>4, <3>3
    <3> HIDE DEF list, m
    <3>5. Occurrences(C, s, e, list)
      BY <2>3, <2>6, <3>3, <3>4 DEF Occurrences, acc
    <3>6. \A i \in DOMAIN list : list[i].off < k + 1
      <4>1. new.off < k + 1
        BY <2>1
      <4>2. \A i \in DOMAIN acc.list : acc.list[i].off < k + 1
        BY <2>1, <2>3, <2>4 DEF acc
      <4> HIDE DEF new
      <4> QED  BY <3>3, <3>4, <4>1, <4>2
    <3>7. \E i \in DOMAIN list : k + Len(e.key) = list[i].off + Len(e.key)
      BY <3>3
    <3>8. ASSUME NEW p \in 0 .. (k + 1) - 1, Occurs(e.key, s, p)
          PROVE  Covers(list, e, p)
      <4>1. CASE p = k
        <5>1. list[m + 1].off <= p /\ p < list[m + 1].off + Len(e.key)
          BY <1>2, <2>1, <3>3, <4>1
        <5> QED  BY <3>3, <5>1 DEF Covers
      <4>2. CASE p \in 0 .. k - 1
        <5>1. Covers(acc.list, e, p)
          BY <2>3, <3>8, <4>2 DEF acc
        <5> QED  BY <3>3, <5>1 DEF Covers
      <4> QED  BY <2>5, <4>1, <4>2
    <3>9. Inv(k + 1)
      BY <3>1, <3>5, <3>6, <3>7, <3>8 DEF list
    <3> QED  BY <2>1, <3>9
  <2>7. CASE ~(k >= acc.end /\ Occurs(e.key, s, k))
    <3>1. r[k + 1] = acc
      BY <2>2, <2>7 DEF FoundTurn
    <3>2. \A i \in DOMAIN acc.list : acc.list[i].off < k + 1
      BY <2>1, <2>3, <2>4 DEF acc
    <3>3. ASSUME NEW p \in 0 .. (k + 1) - 1, Occurs(e.key, s, p)
          PROVE  Covers(acc.list, e, p)
      <4>1. CASE p = k
        <5>1. k < acc.end
          BY <2>1, <2>4, <2>7, <3>3, <4>1
        <5>2. PICK i \in DOMAIN acc.list :
                acc.end = acc.list[i].off + Len(e.key)
          BY <2>1, <2>3, <5>1 DEF acc
        <5>3. acc.list[i].off <= k
          BY <2>1, <2>3, <2>4 DEF acc
        <5> QED  BY <4>1, <5>1, <5>2, <5>3 DEF Covers
      <4>2. CASE p \in 0 .. k - 1
        BY <2>3, <3>3, <4>2 DEF acc
      <4> QED  BY <2>5, <4>1, <4>2
    <3>4. Inv(k + 1)
      BY <2>3, <3>1, <3>2, <3>3 DEF acc
    <3> QED  BY <2>1, <3>4
  <2> QED  BY <2>6, <2>7
<1>5. Inv(n)
  <2> HIDE DEF T
  <2>1. 0 .. n \subseteq T
    BY <1>2, <1>3, <1>4, UpTo
  <2> QED  BY <1>2, <2>1 DEF T
<1>6. ASSUME NEW p \in Nat, Occurs(e.key, s, p) PROVE p \in 0 .. n - 1
  BY <1>2, <1>6 DEF Occurs
<1> QED  BY <1>1, <1>5, <1>6

-----------------------------------------------------------------------------
(* What is where in a list after an insertion                              *)
LEMMA InsertAtElements ==
  ASSUME NEW V, NEW list \in Seq(V), NEW x \in V, NEW m \in 0 .. Len(list)
  PROVE  InsertAt(list, m + 1, x) =
           [i \in 1 .. Len(list) + 1 |->
              IF i <= m THEN list[i] ELSE IF i = m + 1 THEN x ELSE list[i - 1]]
<1> DEFINE front == SubSeq(list, 1, m)
           back == SubSeq(list, m + 1, Len(list))
           new == [i \in 1 .. Len(list) + 1 |->
                     IF i <= m THEN list[i]
                     ELSE IF i = m + 1 THEN x ELSE list[i - 1]]
<1>1. /\ front \in Seq(V)
      /\ Len(front) = m
      /\ \A i \in 1 .. m : front[i] = list[i]
  OBVIOUS
<1>2. /\ back \in Seq(V)
      /\ Len(back) = Len(list) - m
      /\ \A i \in 1 .. Len(list) - m : back[i] = list[m + i]
  OBVIOUS
<1> HIDE DEF front, back
<1>3. InsertAt(list, m + 1, x) = front \o <<x>> \o back
  <2>1. (m + 1) - 1 = m
    OBVIOUS
  <2> QED  BY <2>1 DEF InsertAt, front, back
<1> DEFINE half == front \o <<x>>
<1>4. /\ half \in Seq(V)
      /\ Len(half) = m + 1
      /\ \A i \in 1 .. m : half[i] = list[i]
      /\ half[m + 1] = x
  BY <1>1
<1> HIDE DEF half
<1>5. /\ half \o back \in Seq(V)
      /\ Len(half \o back) = Len(list) + 1
      /\ \A i \in 1 .. m + 1 : (half \o back)[i] = half[i]
      /\ \A i \in m + 2 .. Len(list) + 1 : (half \o back)[i] = list[i - 1]
  <2>1. /\ half \o back \in Seq(V)
        /\ Len(half \o back) = Len(half) + Len(back)
        /\ \A i \in 1 .. Len(half) + Len(back) :
             (half \o back)[i] =
               IF i <= Len(half) THEN half[i] ELSE back[i - Len(half)]
    BY <1>2, <1>4, ConcatProperties
  <2>2. \A i \in m + 2 .. Len(list) + 1 :
          /\ i \in 1 .. Len(half) + Len(back)
          /\ ~(i <= Len(half))
          /\ i - Len(half) \in 1 .. Len(list) - m
          /\ m + (i - Len(half)) = i - 1
    BY <1>2, <1>4
  <2>3. \A i \in 1 .. m + 1 :
          i \in 1 .. Len(half) + Len(back) /\ i <= Len(half)
    BY <1>2, <1>4
  <2>4. Len(half) + Len(back) = Len(list) + 1
    BY <1>2, <1>4
  <2> QED  BY <1>2, <2>1, <2>2, <2>3, <2>4
<1>6. \A i \in 1 .. Len(list) + 1 : (half \o back)[i] = new[i]
  <2> SUFFICES ASSUME NEW i \in 1 .. Len(list) + 1
               PROVE  (half \o back)[i] = new[i]
    OBVIOUS
  <2>1. CASE i \in 1 .. m
    <3>1. i \in 1 .. m + 1 /\ new[i] = list[i]
      BY <2>1
    <3> QED  BY <1>4, <1>5, <2>1, <3>1
  <2>2. CASE i = m + 1
    <3>1. i \in 1 .. m + 1 /\ new[i] = x
      BY <2>2
    <3> QED  BY <1>4, <1>5, <2>2, <3>1
  <2>3. CASE i \in m + 2 .. Len(list) + 1
    <3>1. new[i] = list[i - 1]
      BY <2>3
    <3>2. (half \o back)[i] = list[i - 1]
      BY <1>5, <2>3
    <3> QED  BY <3>1, <3>2
  <2>4. i \in 1 .. m \/ i = m + 1 \/ i \in m + 2 .. Len(list) + 1
    OBVIOUS
  <2> QED  BY <2>1, <2>2, <2>3, <2>4
<1>7. \A i \in 1 .. Len(list) + 1 : new[i] \in V
  OBVIOUS
<1>8. new \in Seq(V) /\ Len(new) = Len(list) + 1
  BY <1>7
<1>9. half \o back = new
  <2> HIDE DEF new
  <2> QED  BY <1>5, <1>6, <1>8, SeqEqual
<1> QED  BY <1>3, <1>9 DEF half, new

(* The occurrences in a list are in the order of their offsets.            *)
Ordered(list) ==
  \A i, j \in DOMAIN list : i < j => list[i].off <= list[j].off

(* An insertion keeps this order and adds what is inserted, whatever       *)
(* offsets the list has already (mln_replace_do_iterate_handler).          *)
LEMMA InsertedOrdered ==
  ASSUME NEW C, NEW list \in Seq(PositionsOf(C)), Ordered(list),
         NEW pos \in PositionsOf(C)
  PROVE  /\ Inserted(list, pos) \in Seq(PositionsOf(C))
         /\ Ordered(Inserted(list, pos))
         /\ Range(Inserted(list, pos)) = Range(list) \cup {pos}
<1> DEFINE A == {i \in DOMAIN list : list[i].off < pos.off}
           n == Len(list)
<1>1. n \in Nat /\ DOMAIN list = 1 .. n /\ pos.off \in Nat
      /\ \A i \in 1 .. n : list[i].off \in Nat
  <2>1. n \in Nat /\ DOMAIN list = 1 .. n
    OBVIOUS
  <2> QED  BY <2>1, PositionTypes DEF PositionsOf
<1>2. PICK m \in 0 .. n : A = 1 .. m
  <2>1. CASE A = {}
    <3>1. 0 \in 0 .. n /\ A = 1 .. 0
      BY <1>1, <2>1
    <3> QED  BY <3>1
  <2>2. CASE A # {}
    <3>1. Max(A) \in A /\ \A y \in A : y <= Max(A)
      <4>1. A \in SUBSET (1 .. n)
        BY <1>1
      <4> HIDE DEF A
      <4> QED  BY <1>1, <2>2, <4>1, MaxOf
    <3> DEFINE m == Max(A)
    <3> HIDE DEF m
    <3>2. m \in 1 .. n /\ list[m].off < pos.off
      BY <1>1, <3>1 DEF m
    <3>3. ASSUME NEW i \in 1 .. m PROVE i \in A
      <4>1. i \in 1 .. n /\ i <= m
        BY <1>1, <3>2
      <4>2. list[i].off <= list[m].off
        BY <1>1, <3>2, <4>1 DEF Ordered
      <4> QED  BY <1>1, <3>2, <4>1, <4>2
    <3>4. \A i \in A : i \in 1 .. m
      BY <1>1, <3>1, <3>2 DEF m
    <3>5. m \in 0 .. n /\ A = 1 .. m
      BY <1>1, <3>2, <3>3, <3>4
    <3> QED  BY <3>5
  <2> QED  BY <2>1, <2>2
<1>3. Cardinality(A) = m
  <2>1. Cardinality(1 .. m) = m
    BY <1>1, FS_Interval
  <2> QED  BY <1>2, <2>1
<1> DEFINE new == Inserted(list, pos)
<1>4. new = [i \in 1 .. n + 1 |->
               IF i <= m THEN list[i] ELSE IF i = m + 1 THEN pos ELSE list[i - 1]]
  BY <1>3, InsertAtElements DEF Inserted
<1> HIDE DEF A, new
<1>5. /\ DOMAIN new = 1 .. n + 1
      /\ \A i \in 1 .. m : new[i] = list[i]
      /\ new[m + 1] = pos
      /\ \A i \in m + 2 .. n + 1 : new[i] = list[i - 1]
  BY <1>1, <1>4
<1>6. ASSUME NEW i \in 1 .. n + 1
      PROVE  i \in 1 .. m \/ i = m + 1 \/ (i \in m + 2 .. n + 1 /\ i - 1 \in m + 1 .. n)
  BY <1>1
<1>7. new \in Seq(PositionsOf(C))
  <2>1. \A i \in 1 .. n : list[i] \in PositionsOf(C)
    OBVIOUS
  <2>2. \A i \in 1 .. n + 1 : new[i] \in PositionsOf(C)
    BY <1>1, <1>4, <2>1
  <2> QED  BY <1>1, <1>4, <2>2
<1>8. /\ \A i \in 1 .. m : list[i].off < pos.off
      /\ \A i \in m + 1 .. n : pos.off <= list[i].off
  <2>1. \A i \in 1 .. m : i \in A
    BY <1>2
  <2>2. \A i \in m + 1 .. n : i \in 1 .. n /\ i \notin A
    BY <1>1, <1>2
  <2> QED  BY <1>1, <2>1, <2>2 DEF A
<1>9. Ordered(new)
  <2> SUFFICES ASSUME NEW i \in 1 .. n + 1, NEW j \in 1 .. n + 1, i < j
               PROVE  new[i].off <= new[j].off
    BY <1>5 DEF Ordered
  <2>1. ASSUME NEW k \in 1 .. n + 1
        PROVE  /\ k \in 1 .. m => new[k].off < pos.off /\ new[k].off \in Nat
               /\ k = m + 1 => new[k].off = pos.off
               /\ k \in m + 2 .. n + 1 => pos.off <= new[k].off
    <3>1. CASE k \in 1 .. m
      BY <1>1, <1>5, <1>8, <3>1
    <3>2. CASE k = m + 1
      BY <1>1, <1>5, <3>2
    <3>3. CASE k \in m + 2 .. n + 1
      <4>1. k - 1 \in m + 1 .. n
        BY <1>1, <3>3
      <4> QED  BY <1>1, <1>5, <1>8, <3>3, <4>1
    <3> QED  BY <1>6, <3>1, <3>2, <3>3
  <2>2. CASE i \in 1 .. m /\ j \in 1 .. m
    <3>1. i \in 1 .. n /\ j \in 1 .. n
      BY <1>1, <2>2
    <3>2. list[i].off <= list[j].off
      BY <1>1, <3>1 DEF Ordered
    <3> QED  BY <1>5, <2>2, <3>2
  <2>3. CASE i \in m + 2 .. n + 1 /\ j \in m + 2 .. n + 1
    <3>1. i - 1 \in 1 .. n /\ j - 1 \in 1 .. n /\ i - 1 < j - 1
      BY <1>1, <2>3
    <3>2. list[i - 1].off <= list[j - 1].off
      BY <1>1, <3>1 DEF Ordered
    <3> QED  BY <1>5, <2>3, <3>2
  <2>4. CASE i \in 1 .. m /\ ~(j \in 1 .. m)
    <3>1. new[i].off < pos.off /\ pos.off <= new[j].off /\ new[i].off \in Nat
      BY <1>1, <1>6, <2>1, <2>4
    <3>2. new[j].off \in Nat
      BY <1>7, <1>5, PositionTypes
    <3> QED  BY <1>1, <3>1, <3>2
  <2>5. CASE i = m + 1
    <3>1. j \in m + 2 .. n + 1
      BY <1>1, <2>5
    <3> QED  BY <1>1, <2>1, <2>5, <3>1
  <2>6. CASE i \in m + 2 .. n + 1 /\ ~(j \in m + 2 .. n + 1)
    BY <1>1, <2>6
  <2> QED  BY <1>6, <2>2, <2>3, <2>4, <2>5, <2>6
<1>10. Range(new) = Range(list) \cup {pos}
  <2>1. ASSUME NEW i \in 1 .. n + 1
        PROVE  new[i] = pos \/ \E j \in 1 .. n : new[i] = list[j]
    BY <1>1, <1>4
  <2>2. ASSUME NEW j \in 1 .. n
        PROVE  \E i \in 1 .. n + 1 : new[i] = list[j]
    <3>1. CASE j \in 1 .. m
      <4>1. j \in 1 .. n + 1 /\ new[j] = list[j]
        BY <1>1, <1>5, <3>1
      <4> QED  BY <4>1
    <3>2. CASE ~(j \in 1 .. m)
      <4>1. j + 1 \in m + 2 .. n + 1 /\ (j + 1) - 1 = j
        BY <1>1, <3>2
      <4>2. j + 1 \in 1 .. n + 1 /\ new[j + 1] = list[j]
        BY <1>1, <1>5, <4>1
      <4> QED  BY <4>2
    <3> QED  BY <3>1, <3>2
  <2>3. m + 1 \in 1 .. n + 1
    BY <1>1
  <2>4. ASSUME NEW x \in Range(new) PROVE x \in Range(list) \cup {pos}
    BY <1>1, <1>5, <2>1 DEF Range
  <2>5. ASSUME NEW x \in Range(list) PROVE x \in Range(new)
    <3>1. PICK j \in 1 .. n : x = list[j]
      BY <1>1 DEF Range
    <3>2. PICK i \in 1 .. n + 1 : new[i] = list[j]
      BY <2>2
    <3> QED  BY <1>5, <3>1, <3>2 DEF Range
  <2>6. pos \in Range(new)
    BY <1>5, <2>3 DEF Range
  <2> QED  BY <2>4, <2>5, <2>6
<1> QED  BY <1>7, <1>9, <1>10 DEF new

(* Lists of occurrences in this order                                      *)
OrderedLists(C) == {list \in Seq(PositionsOf(C)) : Ordered(list)}

(* The insertion of all that Found returns for a key                       *)
Added(list, found) == FoldLeft(Inserted, list, found)

AddedTurns(C, found) ==
  [x \in (1 .. Len(found)) \X OrderedLists(C) |-> Inserted(x[2], found[x[1]])]

(* is a run of insertions.                                                 *)
LEMMA AddedRuns ==
  ASSUME NEW C, NEW list \in OrderedLists(C), NEW found \in Seq(PositionsOf(C))
  PROVE  /\ AddedTurns(C, found) \in Turns(Len(found), OrderedLists(C))
         /\ \E r : /\ Runs(r, OrderedLists(C), list, Len(found),
                           AddedTurns(C, found))
                   /\ Added(list, found) = r[Len(found)]
<1> DEFINE V == OrderedLists(C)
           n == Len(found)
           F == AddedTurns(C, found)
           IsFold(h) == h = [S \in SUBSET (1 .. n) |->
                               IF S = {} THEN list
                               ELSE Inserted(h[S \ {Max(S)}], found[Max(S)])]
           it == CHOOSE h : IsFold(h)
<1>1. n \in Nat /\ DOMAIN found = 1 .. n
  OBVIOUS
<1>2. ASSUME NEW v \in V, NEW m \in 1 .. n PROVE Inserted(v, found[m]) \in V
  BY InsertedOrdered DEF OrderedLists
<1>3. F \in Turns(n, V)
  <2> HIDE DEF V, n
  <2>1. F = [x \in (1 .. n) \X V |-> Inserted(x[2], found[x[1]])]
    BY DEF AddedTurns, V, n
  <2> HIDE DEF F
  <2> QED  BY <1>2, <2>1 DEF Turns
<1>4. Added(list, found) = it[DOMAIN found]
  <2>1. \A h : IsFold(h) <=>
          h = [S \in SUBSET DOMAIN found |->
                 IF S = {} THEN list
                 ELSE Inserted(h[S \ {Max(S)}], found[Max(S)])]
    BY <1>1
  <2> QED  BY <1>1 DEF Added, FoldLeft, MapThenFoldSet
<1>5. ASSUME NEW m \in 1 .. n, NEW v \in V
      PROVE  F[<<m, v>>] = Inserted(v, found[m])
  BY <1>5 DEF AddedTurns
<1> HIDE DEF V, F, n
<1>6. IsFold(it)
  <2>1. HasFold(V, list, n, F)
    BY <1>1, <1>3, FoldExists DEF V
  <2>2. PICK g \in [SUBSET (1 .. n) -> V] :
          \A S \in SUBSET (1 .. n) :
            g[S] = IF S = {} THEN list ELSE F[<<Max(S), g[S \ {Max(S)}]>>]
    BY <2>1 DEF HasFold
  <2>3. ASSUME NEW S \in SUBSET (1 .. n), S # {} PROVE Max(S) \in 1 .. n
    BY <1>1, <2>3, MaxOf
  <2>4. IsFold(g)
    BY <1>5, <2>2, <2>3
  <2> HIDE DEF IsFold
  <2> QED  BY <2>4
<1>7. Folds(it, V, list, n, F)
  <2>1. ASSUME NEW S \in SUBSET (1 .. n), S # {} PROVE Max(S) \in 1 .. n
    BY <1>1, <2>1, MaxOf
  <2> HIDE DEF it
  <2> QED  BY <1>5, <1>6, <2>1 DEF Folds
<1>8. PICK r : Runs(r, V, list, n, F) /\ it[1 .. n] = r[n]
  <2> HIDE DEF it
  <2>1. list \in V
    BY DEF V
  <2> QED  BY <1>1, <1>3, <1>7, <2>1, FoldRuns
<1> QED  BY <1>1, <1>3, <1>4, <1>8 DEF V, F, n

(* It keeps the order and adds all of them.                                *)
LEMMA AddedOrdered ==
  ASSUME NEW C, NEW list \in OrderedLists(C), NEW found \in Seq(PositionsOf(C))
  PROVE  /\ Added(list, found) \in OrderedLists(C)
         /\ Range(Added(list, found)) = Range(list) \cup Range(found)
<1> DEFINE n == Len(found)
           F == AddedTurns(C, found)
<1>1. PICK r : /\ Runs(r, OrderedLists(C), list, n, F)
               /\ Added(list, found) = r[n]
  BY AddedRuns
<1> DEFINE Inv(k) ==
             Range(r[k]) = Range(list) \cup {found[i] : i \in 1 .. k}
           T == {k \in 0 .. n : Inv(k)}
<1>2. n \in Nat /\ DOMAIN found = 1 .. n
  OBVIOUS
<1>3. \A k \in 0 .. n : r[k] \in OrderedLists(C)
  BY <1>1 DEF Runs
<1>4. 0 \in T
  <2>1. r[0] = list
    BY <1>1 DEF Runs
  <2>2. Inv(0)
    BY <2>1
  <2> QED  BY <1>2, <2>2
<1>5. ASSUME NEW k \in 0 .. n - 1, k \in T PROVE k + 1 \in T
  <2>1. k + 1 \in 1 .. n /\ (k + 1) - 1 = k /\ k \in 0 .. n
    BY <1>2
  <2>2. r[k + 1] = F[<<k + 1, r[k]>>]
    BY <1>1, <2>1 DEF Runs
  <2>3. r[k + 1] = Inserted(r[k], found[k + 1])
    BY <1>3, <2>1, <2>2 DEF AddedTurns
  <2>4. found[k + 1] \in PositionsOf(C)
    BY <1>2, <2>1
  <2>5. Range(r[k + 1]) = Range(r[k]) \cup {found[k + 1]}
    BY <1>3, <2>1, <2>3, <2>4, InsertedOrdered DEF OrderedLists
  <2>6. (1 .. k + 1) = (1 .. k) \cup {k + 1}
    BY <2>1
  <2>7. Inv(k)
    BY <1>5
  <2>8. Inv(k + 1)
    BY <2>5, <2>6, <2>7
  <2> QED  BY <1>2, <2>1, <2>8
<1>6. Inv(n)
  <2> HIDE DEF T
  <2>1. 0 .. n \subseteq T
    BY <1>2, <1>4, <1>5, UpTo
  <2> QED  BY <1>2, <2>1 DEF T
<1>7. Range(found) = {found[i] : i \in 1 .. n}
  BY <1>2 DEF Range
<1>8. n \in 0 .. n
  BY <1>2
<1> QED  BY <1>1, <1>3, <1>6, <1>7, <1>8

(* The insertions for each element of the dictionary                       *)
PositionsTurns(C, s, dict) ==
  [x \in (1 .. Len(dict)) \X OrderedLists(C) |->
     Added(x[2], Found(s, dict[x[1]]))]

(* are a run of the loop over the tree.                                    *)
LEMMA PositionsRuns ==
  ASSUME NEW C, NEW s \in Seq(C), NEW dict \in Seq(WordsOf(C))
  PROVE  \E r : /\ Runs(r, OrderedLists(C), <<>>, Len(dict),
                        PositionsTurns(C, s, dict))
                /\ Positions(s, dict) = r[Len(dict)]
<1> DEFINE V == OrderedLists(C)
           n == Len(dict)
           b == <<>>
           F == PositionsTurns(C, s, dict)
           IsFold(h) == h = [S \in SUBSET (1 .. n) |->
                               IF S = {} THEN b
                               ELSE Added(h[S \ {Max(S)}],
                                          Found(s, dict[Max(S)]))]
           it == CHOOSE h : IsFold(h)
<1>1. n \in Nat /\ DOMAIN dict = 1 .. n /\ b \in V
  BY DEF OrderedLists, Ordered
<1>2. ASSUME NEW v \in V, NEW m \in 1 .. n
      PROVE  Added(v, Found(s, dict[m])) \in V
  <2>1. dict[m] \in WordsOf(C)
    BY <1>1
  <2>2. Found(s, dict[m]) \in Seq(PositionsOf(C))
    BY <2>1, FoundOccurrences DEF Occurrences
  <2> QED  BY <2>2, AddedOrdered
<1>3. F \in Turns(n, V)
  <2> HIDE DEF V, n
  <2>1. F = [x \in (1 .. n) \X V |-> Added(x[2], Found(s, dict[x[1]]))]
    BY DEF PositionsTurns, V, n
  <2> HIDE DEF F
  <2> QED  BY <1>2, <2>1 DEF Turns
<1>4. Positions(s, dict) = it[DOMAIN dict]
  <2>1. \A h : IsFold(h) <=>
          h = [S \in SUBSET DOMAIN dict |->
                 IF S = {} THEN b
                 ELSE Added(h[S \ {Max(S)}], Found(s, dict[Max(S)]))]
    BY <1>1
  <2> QED  BY <1>1 DEF Positions, Added, FoldLeft, MapThenFoldSet
<1>5. ASSUME NEW m \in 1 .. n, NEW v \in V
      PROVE  F[<<m, v>>] = Added(v, Found(s, dict[m]))
  BY <1>5 DEF PositionsTurns
<1> HIDE DEF V, F, n, b
<1>6. IsFold(it)
  <2>1. HasFold(V, b, n, F)
    BY <1>1, <1>3, FoldExists
  <2>2. PICK g \in [SUBSET (1 .. n) -> V] :
          \A S \in SUBSET (1 .. n) :
            g[S] = IF S = {} THEN b ELSE F[<<Max(S), g[S \ {Max(S)}]>>]
    BY <2>1 DEF HasFold
  <2>3. ASSUME NEW S \in SUBSET (1 .. n), S # {} PROVE Max(S) \in 1 .. n
    BY <1>1, <2>3, MaxOf
  <2>4. IsFold(g)
    BY <1>5, <2>2, <2>3
  <2> HIDE DEF IsFold
  <2> QED  BY <2>4
<1>7. Folds(it, V, b, n, F)
  <2>1. ASSUME NEW S \in SUBSET (1 .. n), S # {} PROVE Max(S) \in 1 .. n
    BY <1>1, <2>1, MaxOf
  <2> HIDE DEF it
  <2> QED  BY <1>5, <1>6, <2>1 DEF Folds
<1>8. PICK r : Runs(r, V, b, n, F) /\ it[1 .. n] = r[n]
  <2> HIDE DEF it
  <2> QED  BY <1>1, <1>3, <1>7, FoldRuns
<1> QED  BY <1>1, <1>4, <1>8 DEF V, F, n, b

(* The list has the occurrences found for each entry, in their order.      *)
LEMMA PositionsOrdered ==
  ASSUME NEW C, NEW s \in Seq(C), NEW dict \in Seq(WordsOf(C))
  PROVE  /\ Positions(s, dict) \in OrderedLists(C)
         /\ Range(Positions(s, dict)) =
              UNION {Range(Found(s, dict[m])) : m \in 1 .. Len(dict)}
<1> DEFINE n == Len(dict)
           F == PositionsTurns(C, s, dict)
<1>1. PICK r : /\ Runs(r, OrderedLists(C), <<>>, n, F)
               /\ Positions(s, dict) = r[n]
  BY PositionsRuns
<1> DEFINE Inv(k) ==
             Range(r[k]) = UNION {Range(Found(s, dict[m])) : m \in 1 .. k}
           T == {k \in 0 .. n : Inv(k)}
<1>2. n \in Nat /\ DOMAIN dict = 1 .. n
  OBVIOUS
<1>3. \A k \in 0 .. n : r[k] \in OrderedLists(C)
  BY <1>1 DEF Runs
<1>4. 0 \in T
  <2>1. r[0] = <<>>
    BY <1>1 DEF Runs
  <2>2. Range(<<>>) = {}
    BY DEF Range
  <2>3. Inv(0)
    BY <2>1, <2>2
  <2> QED  BY <1>2, <2>3
<1>5. ASSUME NEW k \in 0 .. n - 1, k \in T PROVE k + 1 \in T
  <2>1. k + 1 \in 1 .. n /\ (k + 1) - 1 = k /\ k \in 0 .. n
    BY <1>2
  <2>2. r[k + 1] = F[<<k + 1, r[k]>>]
    BY <1>1, <2>1 DEF Runs
  <2>3. r[k + 1] = Added(r[k], Found(s, dict[k + 1]))
    BY <1>3, <2>1, <2>2 DEF PositionsTurns
  <2>4. dict[k + 1] \in WordsOf(C)
    BY <1>2, <2>1
  <2>5. Found(s, dict[k + 1]) \in Seq(PositionsOf(C))
    BY <2>4, FoundOccurrences DEF Occurrences
  <2>6. Range(r[k + 1]) = Range(r[k]) \cup Range(Found(s, dict[k + 1]))
    BY <1>3, <2>1, <2>3, <2>5, AddedOrdered
  <2>7. (1 .. k + 1) = (1 .. k) \cup {k + 1}
    BY <2>1
  <2>8. Inv(k)
    BY <1>5
  <2>9. Inv(k + 1)
    BY <2>6, <2>7, <2>8
  <2> QED  BY <1>2, <2>1, <2>9
<1>6. Inv(n)
  <2> HIDE DEF T
  <2>1. 0 .. n \subseteq T
    BY <1>2, <1>4, <1>5, UpTo
  <2> QED  BY <1>2, <2>1 DEF T
<1>7. n \in 0 .. n
  BY <1>2
<1> QED  BY <1>1, <1>3, <1>6, <1>7

(* Every member of the list is an occurrence of a key, and it has one of   *)
(* the same key that lies over each occurrence.                            *)
LEMMA PositionsOccurrences ==
  ASSUME NEW C, NEW s \in Seq(C), NEW dict \in Seq(WordsOf(C)), NEW list,
         list = Positions(s, dict)
  PROVE  /\ \A i \in DOMAIN list :
              /\ \E m \in DOMAIN dict : list[i].elem = dict[m]
              /\ Occurs(list[i].elem.key, s, list[i].off)
         /\ \A m \in DOMAIN dict, p \in Nat :
              Occurs(dict[m].key, s, p) =>
                \E i \in DOMAIN list :
                  /\ list[i].elem = dict[m]
                  /\ list[i].off <= p /\ p < Behind(list[i])
<1>1. /\ Range(list) = UNION {Range(Found(s, dict[m])) : m \in DOMAIN dict}
      /\ DOMAIN dict = 1 .. Len(dict)
  BY PositionsOrdered
<1>2. ASSUME NEW m \in DOMAIN dict
      PROVE  /\ Occurrences(C, s, dict[m], Found(s, dict[m]))
             /\ \A p \in Nat : Occurs(dict[m].key, s, p)
                                 => Covers(Found(s, dict[m]), dict[m], p)
  <2>1. dict[m] \in WordsOf(C)
    OBVIOUS
  <2> QED  BY <2>1, FoundOccurrences
<1>3. ASSUME NEW i \in DOMAIN list
      PROVE  /\ \E m \in DOMAIN dict : list[i].elem = dict[m]
             /\ Occurs(list[i].elem.key, s, list[i].off)
  <2>1. list[i] \in Range(list)
    BY DEF Range
  <2>2. PICK m \in DOMAIN dict : list[i] \in Range(Found(s, dict[m]))
    BY <1>1, <2>1
  <2>3. PICK j \in DOMAIN Found(s, dict[m]) : list[i] = Found(s, dict[m])[j]
    BY <2>2 DEF Range
  <2> QED  BY <1>2, <2>3 DEF Occurrences
<1>4. ASSUME NEW m \in DOMAIN dict, NEW p \in Nat, Occurs(dict[m].key, s, p)
      PROVE  \E i \in DOMAIN list :
               /\ list[i].elem = dict[m]
               /\ list[i].off <= p /\ p < Behind(list[i])
  <2> DEFINE found == Found(s, dict[m])
  <2>1. PICK j \in DOMAIN found :
          found[j].off <= p /\ p < found[j].off + Len(dict[m].key)
    BY <1>2, <1>4 DEF Covers
  <2>2. found[j].elem = dict[m]
    BY <1>2, <2>1 DEF Occurrences
  <2>3. found[j] \in Range(found)
    BY DEF Range
  <2>4. found[j] \in Range(list)
    BY <1>1, <2>3
  <2> HIDE DEF found
  <2>5. PICK i \in DOMAIN list : list[i] = found[j]
    BY <2>4 DEF Range
  <2>6. Behind(list[i]) = found[j].off + Len(dict[m].key)
    BY <2>2, <2>5 DEF Behind
  <2> QED  BY <2>1, <2>2, <2>5, <2>6
<1> QED  BY <1>3, <1>4

-----------------------------------------------------------------------------
(* A list whose occurrences end within s                                   *)
Within(s, list) == \A i \in DOMAIN list : Behind(list[i]) <= Len(s)

(* The bytes between two occurrences are as many as the first loop counts. *)
LEMMA CopiedBytes ==
  ASSUME NEW C, NEW s \in Seq(C), NEW off \in Nat, NEW end \in 0 .. Len(s)
  PROVE  /\ SubSeq(s, off + 1, end) \in Seq(C)
         /\ Len(SubSeq(s, off + 1, end)) = Gap(off, end)
<1>1. \A i \in off + 1 .. end : s[i] \in C
  OBVIOUS
<1>2. /\ SubSeq(s, off + 1, end) \in Seq(C)
      /\ Len(SubSeq(s, off + 1, end)) =
           IF off + 1 <= end THEN end - (off + 1) + 1 ELSE 0
  BY <1>1, SubSeqProperties
<1> QED  BY <1>2 DEF Gap

(* A turn of the first loop of mln_replace_do                              *)
SizeTurn(acc, pos) ==
  [size |-> acc.size + Gap(acc.off, pos.off) + Len(pos.elem.value),
   off  |-> Behind(pos)]

SizeStates == [size : Nat, off : Nat]
SizeStart == [size |-> 0, off |-> 0]
SizeTurns(list) ==
  [x \in (1 .. Len(list)) \X SizeStates |-> SizeTurn(x[2], list[x[1]])]

(* Size is a run of it.                                                    *)
LEMMA SizeRuns ==
  ASSUME NEW C, NEW s \in Seq(C), NEW list \in Seq(PositionsOf(C))
  PROVE  \E r : /\ Runs(r, SizeStates, SizeStart, Len(list), SizeTurns(list))
                /\ Size(s, list) = r[Len(list)].size
                                     + Gap(r[Len(list)].off, Len(s))
<1> DEFINE V == SizeStates
           n == Len(list)
           b == SizeStart
           F == SizeTurns(list)
           IsFold(h) == h = [S \in SUBSET (1 .. n) |->
                               IF S = {} THEN b
                               ELSE SizeTurn(h[S \ {Max(S)}], list[Max(S)])]
           it == CHOOSE h : IsFold(h)
<1>1. n \in Nat /\ DOMAIN list = 1 .. n /\ b \in V
  BY DEF SizeStates, SizeStart
<1>2. ASSUME NEW v \in V, NEW m \in 1 .. n PROVE SizeTurn(v, list[m]) \in V
  <2>1. list[m].off \in Nat /\ Len(list[m].elem.value) \in Nat
        /\ Behind(list[m]) \in Nat
    BY <1>1, PositionTypes
  <2>2. v.size \in Nat /\ v.off \in Nat /\ Gap(v.off, list[m].off) \in Nat
    BY <2>1 DEF SizeStates, Gap
  <2>3. v.size + Gap(v.off, list[m].off) + Len(list[m].elem.value) \in Nat
    <3> DEFINE x == v.size
               y == Gap(v.off, list[m].off)
               z == Len(list[m].elem.value)
    <3>1. x \in Nat /\ y \in Nat /\ z \in Nat
      BY <2>1, <2>2
    <3> HIDE DEF x, y, z
    <3>2. x + y + z \in Nat
      BY <3>1
    <3> QED  BY <3>2 DEF x, y, z
  <2> QED  BY <2>1, <2>3 DEF SizeTurn, SizeStates
<1>3. F \in Turns(n, V)
  <2> HIDE DEF V, n
  <2>1. F = [x \in (1 .. n) \X V |-> SizeTurn(x[2], list[x[1]])]
    BY DEF SizeTurns, V, n
  <2> HIDE DEF F
  <2> QED  BY <1>2, <2>1 DEF Turns
<1>4. Size(s, list) = it[DOMAIN list].size + Gap(it[DOMAIN list].off, Len(s))
  <2>1. \A h : IsFold(h) <=>
          h = [S \in SUBSET DOMAIN list |->
                 IF S = {} THEN b
                 ELSE SizeTurn(h[S \ {Max(S)}], list[Max(S)])]
    BY <1>1
  <2> QED  BY <1>1 DEF Size, SizeTurn, SizeStart, FoldLeft, MapThenFoldSet
<1>5. ASSUME NEW m \in 1 .. n, NEW v \in V
      PROVE  F[<<m, v>>] = SizeTurn(v, list[m])
  BY <1>5 DEF SizeTurns
<1> HIDE DEF V, F, n, b
<1>6. IsFold(it)
  <2>1. HasFold(V, b, n, F)
    BY <1>1, <1>3, FoldExists
  <2>2. PICK g \in [SUBSET (1 .. n) -> V] :
          \A S \in SUBSET (1 .. n) :
            g[S] = IF S = {} THEN b ELSE F[<<Max(S), g[S \ {Max(S)}]>>]
    BY <2>1 DEF HasFold
  <2>3. ASSUME NEW S \in SUBSET (1 .. n), S # {} PROVE Max(S) \in 1 .. n
    BY <1>1, <2>3, MaxOf
  <2>4. IsFold(g)
    BY <1>5, <2>2, <2>3
  <2> HIDE DEF IsFold
  <2> QED  BY <2>4
<1>7. Folds(it, V, b, n, F)
  <2>1. ASSUME NEW S \in SUBSET (1 .. n), S # {} PROVE Max(S) \in 1 .. n
    BY <1>1, <2>1, MaxOf
  <2> HIDE DEF it
  <2> QED  BY <1>5, <1>6, <2>1 DEF Folds
<1>8. PICK r : Runs(r, V, b, n, F) /\ it[1 .. n] = r[n]
  <2> HIDE DEF it
  <2> QED  BY <1>1, <1>3, <1>7, FoldRuns
<1> QED  BY <1>1, <1>4, <1>8 DEF V, F, n, b

(* A turn of the second loop                                               *)
TextAfter(s, acc, pos) ==
  acc.text \o SubSeq(s, acc.off + 1, pos.off) \o pos.elem.value

TextTurn(s, acc, pos) ==
  [text |-> TextAfter(s, acc, pos), off |-> Behind(pos)]

TextStates(C) == [text : Seq(C), off : Nat]
TextStart == [text |-> <<>>, off |-> 0]
TextTurns(C, s, list) ==
  [x \in (1 .. Len(list)) \X TextStates(C) |-> TextTurn(s, x[2], list[x[1]])]

(* Text is a run of it.                                                    *)
LEMMA TextRuns ==
  ASSUME NEW C, NEW s \in Seq(C), NEW list \in Seq(PositionsOf(C)),
         Within(s, list)
  PROVE  \E r : /\ Runs(r, TextStates(C), TextStart, Len(list),
                        TextTurns(C, s, list))
                /\ Text(s, list) =
                     r[Len(list)].text
                       \o SubSeq(s, r[Len(list)].off + 1, Len(s))
<1> DEFINE V == TextStates(C)
           n == Len(list)
           b == TextStart
           F == TextTurns(C, s, list)
           IsFold(h) == h = [S \in SUBSET (1 .. n) |->
                               IF S = {} THEN b
                               ELSE TextTurn(s, h[S \ {Max(S)}], list[Max(S)])]
           it == CHOOSE h : IsFold(h)
<1>1. n \in Nat /\ DOMAIN list = 1 .. n /\ b \in V
  BY DEF TextStates, TextStart
<1>2. ASSUME NEW v \in V, NEW m \in 1 .. n PROVE TextTurn(s, v, list[m]) \in V
  <2>1. /\ list[m].off \in 0 .. Len(s)
        /\ list[m].elem.value \in Seq(C)
        /\ Behind(list[m]) \in Nat
    <3>1. /\ list[m].off \in Nat
          /\ list[m].off < Behind(list[m])
          /\ list[m].elem.value \in Seq(C)
          /\ Behind(list[m]) \in Nat
      BY <1>1, PositionTypes
    <3>2. Behind(list[m]) <= Len(s) /\ Len(s) \in Nat
      BY <1>1 DEF Within
    <3> QED  BY <3>1, <3>2
  <2>2. v.text \in Seq(C) /\ v.off \in Nat
    BY DEF TextStates
  <2>3. SubSeq(s, v.off + 1, list[m].off) \in Seq(C)
    BY <2>1, <2>2, CopiedBytes
  <2>4. v.text \o SubSeq(s, v.off + 1, list[m].off) \in Seq(C)
    BY <2>2, <2>3, ConcatProperties
  <2>5. v.text \o SubSeq(s, v.off + 1, list[m].off) \o list[m].elem.value
          \in Seq(C)
    BY <2>1, <2>4, ConcatProperties
  <2> QED  BY <2>1, <2>5 DEF TextTurn, TextAfter, TextStates
<1>3. F \in Turns(n, V)
  <2> HIDE DEF V, n
  <2>1. F = [x \in (1 .. n) \X V |-> TextTurn(s, x[2], list[x[1]])]
    BY DEF TextTurns, V, n
  <2> HIDE DEF F
  <2> QED  BY <1>2, <2>1 DEF Turns
<1>4. Text(s, list) = it[DOMAIN list].text
                        \o SubSeq(s, it[DOMAIN list].off + 1, Len(s))
  <2>1. \A h : IsFold(h) <=>
          h = [S \in SUBSET DOMAIN list |->
                 IF S = {} THEN b
                 ELSE TextTurn(s, h[S \ {Max(S)}], list[Max(S)])]
    BY <1>1
  <2> QED  BY <1>1 DEF Text, TextTurn, TextAfter, TextStart, FoldLeft, MapThenFoldSet
<1>5. ASSUME NEW m \in 1 .. n, NEW v \in V
      PROVE  F[<<m, v>>] = TextTurn(s, v, list[m])
  BY <1>5 DEF TextTurns
<1> HIDE DEF V, F, n, b
<1>6. IsFold(it)
  <2>1. HasFold(V, b, n, F)
    BY <1>1, <1>3, FoldExists
  <2>2. PICK g \in [SUBSET (1 .. n) -> V] :
          \A S \in SUBSET (1 .. n) :
            g[S] = IF S = {} THEN b ELSE F[<<Max(S), g[S \ {Max(S)}]>>]
    BY <2>1 DEF HasFold
  <2>3. ASSUME NEW S \in SUBSET (1 .. n), S # {} PROVE Max(S) \in 1 .. n
    BY <1>1, <2>3, MaxOf
  <2>4. IsFold(g)
    BY <1>5, <2>2, <2>3
  <2> HIDE DEF IsFold
  <2> QED  BY <2>4
<1>7. Folds(it, V, b, n, F)
  <2>1. ASSUME NEW S \in SUBSET (1 .. n), S # {} PROVE Max(S) \in 1 .. n
    BY <1>1, <2>1, MaxOf
  <2> HIDE DEF it
  <2> QED  BY <1>5, <1>6, <2>1 DEF Folds
<1>8. PICK r : Runs(r, V, b, n, F) /\ it[1 .. n] = r[n]
  <2> HIDE DEF it
  <2> QED  BY <1>1, <1>3, <1>7, FoldRuns
<1> QED  BY <1>1, <1>4, <1>8 DEF V, F, n, b

(* The second loop writes as many bytes as the first counts, even when     *)
(* occurrences overlap (mln_replace_do).                                   *)
LEMMA TextHasSize ==
  ASSUME NEW C, NEW s \in Seq(C), NEW list \in Seq(PositionsOf(C)),
         Within(s, list)
  PROVE  Text(s, list) \in Seq(C) /\ Len(Text(s, list)) = Size(s, list)
<1> DEFINE n == Len(list)
           F == SizeTurns(list)
           G == TextTurns(C, s, list)
<1>1. PICK q : /\ Runs(q, SizeStates, SizeStart, n, F)
               /\ Size(s, list) = q[n].size + Gap(q[n].off, Len(s))
  BY SizeRuns
<1>2. PICK r : /\ Runs(r, TextStates(C), TextStart, n, G)
               /\ Text(s, list) = r[n].text \o SubSeq(s, r[n].off + 1, Len(s))
  BY TextRuns
<1> DEFINE Inv(k) == Len(r[k].text) = q[k].size /\ r[k].off = q[k].off
           T == {k \in 0 .. n : Inv(k)}
<1>3. n \in Nat /\ DOMAIN list = 1 .. n /\ Len(s) \in Nat
  OBVIOUS
<1>4. \A k \in 0 .. n : /\ r[k].text \in Seq(C) /\ r[k].off \in Nat
                        /\ q[k].size \in Nat /\ q[k].off \in Nat
                        /\ q[k] \in SizeStates /\ r[k] \in TextStates(C)
  BY <1>1, <1>2 DEF Runs, TextStates, SizeStates
<1>5. 0 \in T
  <2>1. r[0] = TextStart /\ q[0] = SizeStart
    BY <1>1, <1>2 DEF Runs
  <2>2. Inv(0)
    BY <2>1 DEF TextStart, SizeStart
  <2> QED  BY <1>3, <2>2
<1>6. ASSUME NEW k \in 0 .. n - 1, k \in T PROVE k + 1 \in T
  <2> DEFINE pos == list[k + 1]
  <2>1. k + 1 \in 1 .. n /\ (k + 1) - 1 = k /\ k \in 0 .. n
    BY <1>3
  <2>2. q[k + 1] = SizeTurn(q[k], pos)
    <3>1. q[k + 1] = F[<<k + 1, q[k]>>]
      BY <1>1, <2>1 DEF Runs
    <3> QED  BY <1>4, <2>1, <3>1 DEF SizeTurns
  <2>3. r[k + 1] = TextTurn(s, r[k], pos)
    <3>1. r[k + 1] = G[<<k + 1, r[k]>>]
      BY <1>2, <2>1 DEF Runs
    <3> QED  BY <1>4, <2>1, <3>1 DEF TextTurns
  <2>4. pos.off \in 0 .. Len(s) /\ pos.elem.value \in Seq(C)
    <3>1. /\ pos.off \in Nat
          /\ pos.off < Behind(pos)
          /\ pos.elem.value \in Seq(C)
          /\ Behind(pos) \in Nat
      BY <1>3, <2>1, PositionTypes
    <3>2. Behind(pos) <= Len(s)
      BY <1>3, <2>1 DEF Within
    <3> QED  BY <1>3, <3>1, <3>2
  <2> HIDE DEF pos
  <2>5. Inv(k)
    BY <1>6
  <2> DEFINE gap == SubSeq(s, r[k].off + 1, pos.off)
  <2>6. gap \in Seq(C) /\ Len(gap) = Gap(r[k].off, pos.off)
    BY <1>4, <2>1, <2>4, CopiedBytes
  <2> HIDE DEF gap
  <2>7. r[k].text \o gap \in Seq(C)
        /\ Len(r[k].text \o gap) = Len(r[k].text) + Len(gap)
    BY <1>4, <2>1, <2>6, ConcatProperties
  <2>8. Len(r[k].text \o gap \o pos.elem.value)
          = Len(r[k].text) + Len(gap) + Len(pos.elem.value)
    BY <2>4, <2>7, ConcatProperties
  <2>9. r[k + 1].text = r[k].text \o gap \o pos.elem.value
        /\ r[k + 1].off = Behind(pos)
    <3>1. r[k + 1].text = TextAfter(s, r[k], pos) /\ r[k + 1].off = Behind(pos)
      BY <2>3 DEF TextTurn
    <3> QED  BY <3>1 DEF TextAfter, gap
  <2>10. /\ q[k + 1].size = q[k].size + Gap(q[k].off, pos.off)
                              + Len(pos.elem.value)
         /\ q[k + 1].off = Behind(pos)
    BY <2>2 DEF SizeTurn
  <2>11. Inv(k + 1)
    BY <2>5, <2>6, <2>8, <2>9, <2>10
  <2> QED  BY <1>3, <2>1, <2>11
<1>7. Inv(n)
  <2> HIDE DEF T
  <2>1. 0 .. n \subseteq T
    BY <1>3, <1>5, <1>6, UpTo
  <2> QED  BY <1>3, <2>1 DEF T
<1> DEFINE rest == SubSeq(s, r[n].off + 1, Len(s))
<1>8. rest \in Seq(C) /\ Len(rest) = Gap(r[n].off, Len(s))
  BY <1>3, <1>4, CopiedBytes
<1> HIDE DEF rest
<1>9. r[n].text \o rest \in Seq(C)
      /\ Len(r[n].text \o rest) = Len(r[n].text) + Len(rest)
  <2>1. r[n].text \in Seq(C)
    BY <1>3, <1>4
  <2> HIDE DEF n
  <2> QED  BY <1>8, <2>1, ConcatProperties
<1> QED  BY <1>1, <1>2, <1>7, <1>8, <1>9 DEF rest

-----------------------------------------------------------------------------
(* The string read from left to right from p on, when f has what is read   *)
(* from the positions behind it                                            *)
KeyAt(s, dict, p) == \E m \in DOMAIN dict : Occurs(dict[m].key, s, p)
EntryAt(s, dict, p) ==
  dict[CHOOSE m \in DOMAIN dict : Occurs(dict[m].key, s, p)]

ReadFrom(s, dict, f, p) ==
  IF p = Len(s) THEN <<>>
  ELSE IF KeyAt(s, dict, p)
  THEN EntryAt(s, dict, p).value \o f[p + Len(EntryAt(s, dict, p).key)]
  ELSE <<s[p + 1]>> \o f[p + 1]

(* A key that occurs ends within the string.                               *)
LEMMA EntryWithin ==
  ASSUME NEW C, NEW s \in Seq(C), NEW dict \in Seq(WordsOf(C)),
         NEW p \in 0 .. Len(s), KeyAt(s, dict, p)
  PROVE  LET e == EntryAt(s, dict, p)
         IN /\ \E m \in DOMAIN dict : e = dict[m]
            /\ e \in WordsOf(C)
            /\ e.value \in Seq(C)
            /\ Occurs(e.key, s, p)
            /\ p + Len(e.key) \in p + 1 .. Len(s)
<1> DEFINE e == EntryAt(s, dict, p)
<1>1. PICK m \in DOMAIN dict : e = dict[m] /\ Occurs(dict[m].key, s, p)
  BY DEF KeyAt, EntryAt
<1> HIDE DEF e
<1>2. e \in WordsOf(C)
  BY <1>1
<1>3. e.value \in Seq(C) /\ Len(e.key) \in Nat /\ Len(e.key) > 0
  BY <1>2, EmptySeq DEF WordsOf
<1>4. p + Len(e.key) <= Len(s) /\ Len(s) \in Nat
  BY <1>1 DEF Occurs
<1>5. p + Len(e.key) \in p + 1 .. Len(s)
  BY <1>3, <1>4
<1> QED  BY <1>1, <1>2, <1>3, <1>5 DEF e

(* What is read from a position depends on what is read from those behind  *)
(* it only.                                                                *)
LEMMA ReadsBehind ==
  ASSUME NEW C, NEW s \in Seq(C), NEW dict \in Seq(WordsOf(C)), NEW f, NEW g,
         NEW p \in 0 .. Len(s), \A q \in p + 1 .. Len(s) : f[q] = g[q]
  PROVE  ReadFrom(s, dict, f, p) = ReadFrom(s, dict, g, p)
<1>1. CASE p = Len(s)
  BY <1>1 DEF ReadFrom
<1>2. CASE p # Len(s) /\ KeyAt(s, dict, p)
  <2> DEFINE e == EntryAt(s, dict, p)
  <2>1. p + Len(e.key) \in p + 1 .. Len(s)
    BY <1>2, EntryWithin
  <2>2. f[p + Len(e.key)] = g[p + Len(e.key)]
    BY <2>1
  <2> QED  BY <1>2, <2>2 DEF ReadFrom
<1>3. CASE p # Len(s) /\ ~KeyAt(s, dict, p)
  <2>1. p + 1 \in p + 1 .. Len(s)
    BY <1>3
  <2> QED  BY <1>3, <2>1 DEF ReadFrom
<1> QED  BY <1>1, <1>2, <1>3

(* The string can be read from every position.                             *)
LEMMA ReadsExist ==
  ASSUME NEW C, NEW s \in Seq(C), NEW dict \in Seq(WordsOf(C))
  PROVE  \E f \in [0 .. Len(s) -> Seq(C)] :
           /\ \A p \in 0 .. Len(s) : f[p] = ReadFrom(s, dict, f, p)
           /\ Replaced(s, dict) = f[0]
<1> DEFINE n == Len(s)
           Reads(f, k) == \A p \in n - k .. n : f[p] = ReadFrom(s, dict, f, p)
           T == {k \in 0 .. n : \E f \in [n - k .. n -> Seq(C)] : Reads(f, k)}
<1>1. n \in Nat
  OBVIOUS
<1>2. 0 \in T
  <2> DEFINE f == [p \in n - 0 .. n |-> <<>>]
  <2>1. f \in [n - 0 .. n -> Seq(C)]
    OBVIOUS
  <2>2. Reads(f, 0)
    <3>1. ASSUME NEW p \in n - 0 .. n PROVE f[p] = ReadFrom(s, dict, f, p)
      <4>1. p = n
        BY <1>1
      <4> QED  BY <4>1 DEF ReadFrom
    <3> QED  BY <3>1
  <2>3. 0 \in 0 .. n
    BY <1>1
  <2> HIDE DEF f, Reads
  <2> QED  BY <2>1, <2>2, <2>3
<1>3. ASSUME NEW k \in 0 .. n - 1, k \in T PROVE k + 1 \in T
  <2>1. PICK f \in [n - k .. n -> Seq(C)] : Reads(f, k)
    BY <1>3
  <2> DEFINE q == n - (k + 1)
             h == [p \in q .. n |->
                     IF p = q THEN ReadFrom(s, dict, f, q) ELSE f[p]]
  <2>2. /\ q \in 0 .. n /\ q # n /\ q + 1 \in n - k .. n
        /\ n - (k + 1) = q /\ n \in Nat /\ q \in Nat
        /\ \A p \in q .. n : p = q \/ p \in n - k .. n
        /\ \A p \in n - k .. n : p # q /\ p \in q .. n /\ p \in 0 .. n
    BY <1>1
  <2> HIDE DEF q
  <2>3. \A p \in n - k .. n : h[p] = f[p]
    BY <2>2
  <2>4. ASSUME NEW p \in q .. n
        PROVE  ReadFrom(s, dict, h, p) = ReadFrom(s, dict, f, p)
    <3>1. p \in 0 .. n /\ \A o \in p + 1 .. n : o \in n - k .. n
      BY <2>2
    <3>2. \A o \in p + 1 .. n : h[o] = f[o]
      BY <2>3, <3>1
    <3> HIDE DEF h
    <3> QED  BY <3>1, <3>2, ReadsBehind
  <2>5. ReadFrom(s, dict, f, q) \in Seq(C)
    <3>1. CASE KeyAt(s, dict, q)
      <4> DEFINE e == EntryAt(s, dict, q)
      <4>1. e.value \in Seq(C) /\ q + Len(e.key) \in q + 1 .. n
        BY <2>2, <3>1, EntryWithin
      <4> HIDE DEF e
      <4>2. f[q + Len(e.key)] \in Seq(C)
        BY <2>2, <4>1
      <4>3. e.value \o f[q + Len(e.key)] \in Seq(C)
        BY <4>1, <4>2, ConcatProperties
      <4> QED  BY <2>2, <3>1, <4>3 DEF ReadFrom, e
    <3>2. CASE ~KeyAt(s, dict, q)
      <4>1. <<s[q + 1]>> \in Seq(C) /\ f[q + 1] \in Seq(C)
        BY <2>2
      <4>2. <<s[q + 1]>> \o f[q + 1] \in Seq(C)
        BY <4>1, ConcatProperties
      <4> QED  BY <2>2, <3>2, <4>2 DEF ReadFrom
    <3> QED  BY <3>1, <3>2
  <2>6. h \in [q .. n -> Seq(C)]
    BY <2>2, <2>5
  <2>7. ASSUME NEW p \in q .. n PROVE h[p] = ReadFrom(s, dict, h, p)
    <3>1. CASE p = q
      BY <2>2, <2>4, <3>1
    <3>2. CASE p \in n - k .. n
      <4>1. h[p] = f[p] /\ f[p] = ReadFrom(s, dict, f, p)
        BY <2>1, <2>3, <3>2
      <4> QED  BY <2>4, <4>1
    <3> QED  BY <2>2, <3>1, <3>2
  <2>8. k + 1 \in 0 .. n
    BY <1>1
  <2> HIDE DEF h
  <2>9. \E g \in [n - (k + 1) .. n -> Seq(C)] : Reads(g, k + 1)
    BY <2>2, <2>6, <2>7
  <2> QED  BY <2>8, <2>9
<1>4. n \in T
  <2> HIDE DEF T
  <2>1. 0 .. n \subseteq T
    BY <1>1, <1>2, <1>3, UpTo
  <2> QED  BY <1>1, <2>1
<1>5. PICK f \in [0 .. n -> Seq(C)] :
        \A p \in 0 .. n : f[p] = ReadFrom(s, dict, f, p)
  <2>1. n - n = 0
    BY <1>1
  <2> QED  BY <1>4, <2>1
<1> DEFINE IsFrom(g) == g = [p \in 0 .. Len(s) |-> ReadFrom(s, dict, g, p)]
           it == CHOOSE g : IsFrom(g)
<1>6. Replaced(s, dict) = it[0]
  BY DEF Replaced, ReadFrom, KeyAt, EntryAt
<1>7. IsFrom(it)
  <2>1. IsFrom(f)
    BY <1>5
  <2> HIDE DEF IsFrom
  <2> QED  BY <2>1
<1> DEFINE U == {k \in 0 .. n : \A p \in n - k .. n : it[p] = f[p]}
<1>8. ASSUME NEW p \in 0 .. n, \A q \in p + 1 .. n : it[q] = f[q]
      PROVE  it[p] = f[p]
  <2>1. it[p] = ReadFrom(s, dict, it, p)
    <3> HIDE DEF it
    <3> QED  BY <1>7
  <2>2. f[p] = ReadFrom(s, dict, f, p)
    BY <1>5
  <2> HIDE DEF it
  <2>3. ReadFrom(s, dict, it, p) = ReadFrom(s, dict, f, p)
    BY <1>8, ReadsBehind
  <2> QED  BY <2>1, <2>2, <2>3
<1> HIDE DEF it
<1>9. 0 \in U
  <2>1. \A p \in n - 0 .. n : p \in 0 .. n /\ p = n
    BY <1>1
  <2>2. \A p \in n - 0 .. n : \A q \in p + 1 .. n : it[q] = f[q]
    BY <1>1
  <2>3. 0 \in 0 .. n
    BY <1>1
  <2> QED  BY <1>8, <2>1, <2>2, <2>3
<1>10. ASSUME NEW k \in 0 .. n - 1, k \in U PROVE k + 1 \in U
  <2>1. \A p \in n - k .. n : it[p] = f[p]
    BY <1>10
  <2> DEFINE q == n - (k + 1)
  <2>2. /\ q \in 0 .. n
        /\ \A o \in q + 1 .. n : o \in n - k .. n
        /\ \A p \in q .. n : p = q \/ p \in n - k .. n
        /\ k + 1 \in 0 .. n
    BY <1>1
  <2> HIDE DEF q
  <2>3. it[q] = f[q]
    BY <1>8, <2>1, <2>2
  <2>4. \A p \in q .. n : it[p] = f[p]
    BY <2>1, <2>2, <2>3
  <2> QED  BY <2>2, <2>4 DEF q
<1>11. \A p \in 0 .. n : it[p] = f[p]
  <2> HIDE DEF U
  <2>1. 0 .. n \subseteq U
    BY <1>1, <1>9, <1>10, UpTo
  <2>2. n \in U /\ n - n = 0
    BY <1>1, <2>1
  <2> QED  BY <2>2 DEF U
<1>12. 0 \in 0 .. n
  BY <1>1
<1> QED  BY <1>5, <1>6, <1>11, <1>12

Grouped(x, y, z) == x \o (y \o z) = (x \o y) \o z

(* Concatenations can be grouped in any way.                               *)
LEMMA ConcatGrouped ==
  ASSUME NEW C, NEW x \in Seq(C), NEW y \in Seq(C), NEW z \in Seq(C)
  PROVE  Grouped(x, y, z)
<1>1. (x \o y) \o z = x \o (y \o z)
  BY ConcatAssociative
<1> QED  BY <1>1 DEF Grouped

Regroups(w, x, y, z) == w \o (x \o (y \o z)) = (w \o x \o y) \o z

(* Also four of them.                                                      *)
LEMMA ConcatFour ==
  ASSUME NEW C, NEW w \in Seq(C), NEW x \in Seq(C), NEW y \in Seq(C),
         NEW z \in Seq(C)
  PROVE  Regroups(w, x, y, z)
<1>1. w \o x \in Seq(C) /\ y \o z \in Seq(C)
  BY ConcatProperties
<1>2. w \o (x \o (y \o z)) = (w \o x) \o (y \o z)
  <2> DEFINE v == y \o z
  <2>1. v \in Seq(C)
    BY <1>1
  <2> HIDE DEF v
  <2>2. Grouped(w, x, v)
    BY <2>1, ConcatGrouped
  <2> QED  BY <2>2 DEF v, Grouped
<1>3. (w \o x) \o (y \o z) = ((w \o x) \o y) \o z
  <2> DEFINE v == w \o x
  <2>1. v \in Seq(C)
    BY <1>1
  <2> HIDE DEF v
  <2>2. Grouped(v, y, z)
    BY <2>1, ConcatGrouped
  <2> QED  BY <2>2 DEF v, Grouped
<1> QED  BY <1>2, <1>3 DEF Regroups

(* f has what is read from every position on.                              *)
ReadsAll(C, s, dict, f) ==
  /\ f \in [0 .. Len(s) -> Seq(C)]
  /\ \A p \in 0 .. Len(s) : f[p] = ReadFrom(s, dict, f, p)

(* Between a and b the string is read as it is; no key occurs there.       *)
PlainRead(s, f, a, b) == f[a] = SubSeq(s, a + 1, b) \o f[b]
NoKeys(s, dict, a, b) == \A p \in a .. b - 1 : ~KeyAt(s, dict, p)

(* Where no key occurs, the string is read as it is.                       *)
LEMMA ReadsPlain ==
  ASSUME NEW C, NEW s \in Seq(C), NEW dict \in Seq(WordsOf(C)), NEW f,
         ReadsAll(C, s, dict, f), NEW a \in 0 .. Len(s), NEW b \in a .. Len(s),
         NoKeys(s, dict, a, b)
  PROVE  PlainRead(s, f, a, b)
<1> DEFINE n == b - a
           Inv(k) == f[b - k] = SubSeq(s, (b - k) + 1, b) \o f[b]
           T == {k \in 0 .. n : Inv(k)}
<1>1. /\ n \in Nat /\ a \in Nat /\ b \in Nat /\ Len(s) \in Nat
      /\ b \in 0 .. Len(s) /\ b - n = a
  OBVIOUS
<1>2. f[b] \in Seq(C)
  BY <1>1 DEF ReadsAll
<1>3. 0 \in T
  <2>1. SubSeq(s, b + 1, b) = <<>>
    BY <1>1, SubSeqEmpty
  <2>2. f[b] = <<>> \o f[b]
    BY <1>2, ConcatEmptySeq
  <2>3. b - 0 = b
    BY <1>1
  <2>4. Inv(0)
    BY <2>1, <2>2, <2>3
  <2> QED  BY <1>1, <2>4
<1>4. ASSUME NEW k \in 0 .. n - 1, k \in T PROVE k + 1 \in T
  <2> DEFINE q == b - (k + 1)
  <2>1. /\ q \in a .. b - 1 /\ q \in 0 .. Len(s) /\ q # Len(s)
        /\ q + 1 = b - k /\ q + 1 \in 1 .. Len(s) /\ b \in q + 1 .. Len(s)
        /\ k + 1 \in 0 .. n
    BY <1>1
  <2>2. f[b - k] = SubSeq(s, (b - k) + 1, b) \o f[b]
    BY <1>4
  <2> HIDE DEF q
  <2>3. f[q + 1] = SubSeq(s, (q + 1) + 1, b) \o f[b]
    BY <2>1, <2>2
  <2>4. f[q] = <<s[q + 1]>> \o f[q + 1]
    <3>1. ~KeyAt(s, dict, q)
      BY <2>1 DEF NoKeys
    <3>2. f[q] = ReadFrom(s, dict, f, q)
      BY <2>1 DEF ReadsAll
    <3> QED  BY <2>1, <3>1, <3>2 DEF ReadFrom
  <2> DEFINE one == <<s[q + 1]>>
             sub == SubSeq(s, (q + 1) + 1, b)
  <2>5. SubSeq(s, q + 1, b) = one \o sub
    BY <2>1, SubSeqRecursiveFirst
  <2>6. one \in Seq(C)
    BY <2>1
  <2>7. sub \in Seq(C)
    <3>1. \A i \in (q + 1) + 1 .. b : s[i] \in C
      BY <1>1, <2>1
    <3> QED  BY <1>1, <2>1, <3>1, SubSeqProperties
  <2> HIDE DEF one, sub
  <2>8. one \o (sub \o f[b]) = (one \o sub) \o f[b]
    <3> DEFINE tail == f[b]
    <3>1. tail \in Seq(C)
      BY <1>2
    <3> HIDE DEF tail
    <3>2. Grouped(one, sub, tail)
      BY <2>6, <2>7, <3>1, ConcatGrouped
    <3> QED  BY <3>2 DEF tail, Grouped
  <2>9. f[q] = SubSeq(s, q + 1, b) \o f[b]
    BY <2>3, <2>4, <2>5, <2>8 DEF one, sub
  <2> QED  BY <2>1, <2>9 DEF q
<1>5. Inv(n)
  <2> HIDE DEF T
  <2>1. 0 .. n \subseteq T
    BY <1>1, <1>3, <1>4, UpTo
  <2>2. n \in T
    BY <1>1, <2>1
  <2> QED  BY <2>2 DEF T
<1> QED  BY <1>1, <1>5 DEF PlainRead

(* Between two occurrences of the list that follow each other, when none   *)
(* overlap, no key occurs; nor before the first or behind the last.        *)
LEMMA NoKeyBetween ==
  ASSUME NEW C, NEW s \in Seq(C), NEW dict \in Seq(WordsOf(C)), NEW list,
         list = Positions(s, dict), Disjoint(list), NEW k \in 0 .. Len(list),
         NEW p \in Nat, p < Len(s),
         k # 0 => Behind(list[k]) <= p,
         k # Len(list) => p < list[k + 1].off
  PROVE  ~KeyAt(s, dict, p)
<1> SUFFICES ASSUME KeyAt(s, dict, p) PROVE FALSE
  OBVIOUS
<1>1. PICK m \in DOMAIN dict : Occurs(dict[m].key, s, p)
  BY DEF KeyAt
<1>2. list \in Seq(PositionsOf(C)) /\ Ordered(list)
  BY PositionsOrdered DEF OrderedLists
<1>3. PICK i \in DOMAIN list : list[i].off <= p /\ p < Behind(list[i])
  <2>1. \A h \in DOMAIN dict, o \in Nat :
          Occurs(dict[h].key, s, o) =>
            \E i \in DOMAIN list :
              /\ list[i].elem = dict[h]
              /\ list[i].off <= o /\ o < Behind(list[i])
    BY PositionsOccurrences, SMTT(30)
  <2> QED  BY <1>1, <2>1
<1> DEFINE n == Len(list)
<1>4. n \in Nat /\ DOMAIN list = 1 .. n /\ i \in 1 .. n /\ k \in 0 .. n
      /\ (k # n => p < list[k + 1].off)
  BY <1>2, <1>3
<1> HIDE DEF n
<1>5. \A j \in 1 .. n : /\ list[j].off \in Nat
                        /\ Behind(list[j]) \in Nat
                        /\ list[j].off < Behind(list[j])
  BY <1>2, <1>4, PositionTypes
<1>6. CASE i <= k
  <2>1. k \in 1 .. n /\ k # 0 /\ i \in 1 .. n
    BY <1>3, <1>4, <1>6
  <2>2. Behind(list[k]) <= p
    BY <2>1
  <2>3. CASE i = k
    BY <1>3, <1>5, <2>1, <2>2, <2>3
  <2>4. CASE i < k
    <3>1. Behind(list[i]) <= list[k].off
      BY <1>4, <2>1, <2>4 DEF Disjoint
    <3> QED  BY <1>3, <1>5, <2>1, <2>2, <3>1
  <2> QED  BY <1>4, <1>6, <2>1, <2>3, <2>4
<1>7. CASE k < i
  <2>1. k # n /\ k + 1 \in 1 .. n /\ i \in 1 .. n /\ k + 1 <= i
    BY <1>3, <1>4, <1>7
  <2>2. p < list[k + 1].off
    BY <2>1
  <2>3. list[k + 1].off <= list[i].off
    <3>1. CASE k + 1 = i
      BY <1>5, <2>1, <3>1
    <3>2. CASE k + 1 < i
      BY <1>2, <1>4, <2>1, <3>2 DEF Ordered
    <3> QED  BY <1>4, <2>1, <3>1, <3>2
  <2> QED  BY <1>3, <1>5, <2>1, <2>2, <2>3
<1> QED  BY <1>3, <1>4, <1>6, <1>7

(* And where an occurrence of the list begins, its key is the one read.    *)
LEMMA KeyAtOccurrence ==
  ASSUME NEW C, NEW s \in Seq(C), NEW dict \in Seq(WordsOf(C)), NEW list,
         list = Positions(s, dict), Disjoint(list), NEW k \in DOMAIN list
  PROVE  /\ list[k].off \in 0 .. Len(s)
         /\ list[k].off # Len(s)
         /\ KeyAt(s, dict, list[k].off)
         /\ EntryAt(s, dict, list[k].off) = list[k].elem
         /\ Behind(list[k]) \in 0 .. Len(s)
<1> DEFINE p == list[k].off
           n == Len(list)
<1>1. list \in Seq(PositionsOf(C)) /\ Ordered(list)
  BY PositionsOrdered DEF OrderedLists
<1>2. n \in Nat /\ DOMAIN list = 1 .. n /\ Len(s) \in Nat
  BY <1>1
<1>3. \A j \in 1 .. n : /\ list[j].off \in Nat
                        /\ Behind(list[j]) \in Nat
                        /\ list[j].off < Behind(list[j])
                        /\ Behind(list[j]) = list[j].off + Len(list[j].elem.key)
  BY <1>1, <1>2, PositionTypes
<1>4. PICK m \in DOMAIN dict : list[k].elem = dict[m]
  BY PositionsOccurrences
<1>5. Occurs(list[k].elem.key, s, p)
  BY PositionsOccurrences
<1>6. p \in 0 .. Len(s) /\ p # Len(s) /\ Behind(list[k]) \in 0 .. Len(s)
  <2>1. p + Len(list[k].elem.key) <= Len(s)
    BY <1>5 DEF Occurs
  <2>2. /\ p \in Nat /\ Behind(list[k]) \in Nat /\ p < Behind(list[k])
        /\ Behind(list[k]) = p + Len(list[k].elem.key)
    BY <1>2, <1>3
  <2> QED  BY <1>2, <2>1, <2>2
<1>7. KeyAt(s, dict, p)
  BY <1>4, <1>5 DEF KeyAt
<1> HIDE DEF p
<1>8. PICK o \in DOMAIN dict :
        EntryAt(s, dict, p) = dict[o] /\ Occurs(dict[o].key, s, p)
  BY <1>7 DEF KeyAt, EntryAt
<1>9. PICK i \in DOMAIN list :
        list[i].elem = dict[o] /\ list[i].off <= p /\ p < Behind(list[i])
  BY <1>6, <1>8, PositionsOccurrences
<1>10. i = k
  <2>1. CASE i < k
    <3>1. Behind(list[i]) <= p
      BY <2>1 DEF Disjoint, p
    <3> QED  BY <1>2, <1>3, <1>6, <1>9, <3>1
  <2>2. CASE k < i
    <3>1. Behind(list[k]) <= list[i].off
      BY <2>2 DEF Disjoint
    <3> QED  BY <1>2, <1>3, <1>9, <3>1 DEF p
  <2> QED  BY <1>2, <2>1, <2>2
<1> QED  BY <1>6, <1>7, <1>8, <1>9, <1>10 DEF p

(* When no two occurrences overlap, the second loop writes the string read *)
(* from left to right with each key replaced where it begins.              *)
LEMMA TextIsReplaced ==
  ASSUME NEW C, NEW s \in Seq(C), NEW dict \in Seq(WordsOf(C)), NEW list,
         list = Positions(s, dict), Disjoint(list), Within(s, list)
  PROVE  Text(s, list) = Replaced(s, dict)
<1> DEFINE n == Len(list)
           G == TextTurns(C, s, list)
           end == Len(s)
<1>1. list \in Seq(PositionsOf(C))
  BY PositionsOrdered DEF OrderedLists
<1>2. PICK r : /\ Runs(r, TextStates(C), TextStart, n, G)
               /\ Text(s, list) = r[n].text \o SubSeq(s, r[n].off + 1, end)
  BY <1>1, TextRuns
<1>3. PICK f : ReadsAll(C, s, dict, f) /\ Replaced(s, dict) = f[0]
  <2>1. PICK f \in [0 .. end -> Seq(C)] :
          /\ \A p \in 0 .. end : f[p] = ReadFrom(s, dict, f, p)
          /\ Replaced(s, dict) = f[0]
    BY ReadsExist
  <2> QED  BY <2>1 DEF ReadsAll
<1>4. n \in Nat /\ DOMAIN list = 1 .. n /\ end \in Nat
  BY <1>1
<1>5. \A k \in 0 .. n : /\ r[k] \in TextStates(C)
                        /\ r[k].text \in Seq(C) /\ r[k].off \in Nat
  BY <1>2 DEF Runs, TextStates
<1>6. \A p \in 0 .. end : f[p] \in Seq(C)
  BY <1>3 DEF ReadsAll
<1>7. r[0].text = <<>> /\ r[0].off = 0
  BY <1>2 DEF Runs, TextStart
<1>8. \A k \in 1 .. n : r[k] = TextTurn(s, r[k - 1], list[k])
  <2> SUFFICES ASSUME NEW k \in 1 .. n
               PROVE  r[k] = TextTurn(s, r[k - 1], list[k])
    OBVIOUS
  <2>1. r[k] = G[<<k, r[k - 1]>>] /\ k - 1 \in 0 .. n
    BY <1>2, <1>4 DEF Runs
  <2> QED  BY <1>5, <2>1 DEF TextTurns
<1>9. \A k \in 1 .. n : r[k].off = Behind(list[k])
  <2> SUFFICES ASSUME NEW k \in 1 .. n PROVE r[k].off = Behind(list[k])
    OBVIOUS
  <2>1. r[k] = TextTurn(s, r[k - 1], list[k])
    BY <1>8
  <2> QED  BY <2>1 DEF TextTurn
<1> HIDE DEF G, n, end
<1>10. ASSUME NEW k \in 0 .. n, NEW b \in 0 .. end, r[k].off <= b,
              k # n => b <= list[k + 1].off
       PROVE  f[r[k].off] = SubSeq(s, r[k].off + 1, b) \o f[b]
  <2> DEFINE a == r[k].off
  <2>1. a \in 0 .. end /\ b \in a .. end
    BY <1>4, <1>5, <1>10
  <2>2. ASSUME NEW p \in a .. b - 1 PROVE ~KeyAt(s, dict, p)
    <3>1. p \in Nat /\ p < end /\ a <= p /\ p < b
      BY <1>4, <2>1
    <3>2. k # 0 => Behind(list[k]) <= p
      BY <1>4, <1>9, <3>1
    <3>3. k # n => p < list[k + 1].off
      <4>1. k # n => list[k + 1].off \in Nat
        BY <1>1, <1>4, PositionTypes
      <4> QED  BY <1>4, <1>10, <3>1, <4>1
    <3> QED  BY <3>1, <3>2, <3>3, NoKeyBetween DEF n, end
  <2> HIDE DEF a
  <2>3. f[a] = SubSeq(s, a + 1, b) \o f[b]
    <3>1. a \in 0 .. Len(s) /\ b \in a .. Len(s)
      BY <2>1 DEF end
    <3>2. NoKeys(s, dict, a, b)
      BY <2>2 DEF NoKeys
    <3> HIDE DEF end
    <3>3. PlainRead(s, f, a, b)
      BY <1>3, <3>1, <3>2, ReadsPlain
    <3> QED  BY <3>3 DEF PlainRead
  <2> QED  BY <2>3 DEF a
<1> DEFINE Inv(k) == /\ r[k].off \in 0 .. end
                     /\ r[k].text \o f[r[k].off] = f[0]
           T == {k \in 0 .. n : Inv(k)}
<1>11. 0 \in T
  <2>1. f[0] \in Seq(C)
    BY <1>4, <1>6
  <2>2. <<>> \o f[0] = f[0]
    BY <2>1, ConcatEmptySeq
  <2>3. Inv(0) /\ 0 \in 0 .. n
    BY <1>4, <1>7, <2>2
  <2> HIDE DEF Inv
  <2> QED  BY <2>3
<1>12. ASSUME NEW k \in 0 .. n - 1, k \in T PROVE k + 1 \in T
  <2> DEFINE pos == list[k + 1]
             a == r[k].off
             gap == SubSeq(s, a + 1, pos.off)
             val == pos.elem.value
             rest == f[Behind(pos)]
             txt == r[k].text
  <2>1. k + 1 \in 1 .. n /\ (k + 1) - 1 = k /\ k \in 0 .. n /\ k # n
        /\ k + 1 \in 0 .. n
    BY <1>4
  <2>2. /\ pos.off \in 0 .. end
        /\ pos.off # end
        /\ KeyAt(s, dict, pos.off)
        /\ EntryAt(s, dict, pos.off) = pos.elem
        /\ Behind(pos) \in 0 .. end
    BY <1>4, <2>1, KeyAtOccurrence DEF end
  <2>3. r[k + 1].text = txt \o gap \o val /\ r[k + 1].off = Behind(pos)
    <3>1. r[k + 1] = TextTurn(s, r[k], pos)
      BY <1>8, <2>1
    <3>2. r[k + 1].text = TextAfter(s, r[k], pos) /\ r[k + 1].off = Behind(pos)
      BY <3>1 DEF TextTurn
    <3> QED  BY <3>2 DEF TextAfter
  <2>4. a <= pos.off
    <3>1. CASE k = 0
      BY <1>4, <1>7, <2>2, <3>1
    <3>2. CASE k # 0
      <4>1. k \in 1 .. n /\ k < k + 1
        BY <2>1, <3>2
      <4>2. Behind(list[k]) <= pos.off
        BY <1>4, <2>1, <4>1 DEF Disjoint
      <4> QED  BY <1>9, <4>1, <4>2
    <3> QED  BY <3>1, <3>2
  <2>5. f[a] = gap \o f[pos.off]
    <3>1. pos.off <= pos.off
      BY <1>4, <2>2
    <3> QED  BY <1>10, <2>1, <2>2, <2>4, <3>1
  <2>6. f[pos.off] = val \o rest
    <3>1. f[pos.off] = ReadFrom(s, dict, f, pos.off)
      BY <1>3, <2>2 DEF ReadsAll, end
    <3>2. Behind(pos) = pos.off + Len(pos.elem.key)
      BY DEF Behind
    <3> HIDE DEF pos
    <3> QED  BY <2>2, <3>1, <3>2 DEF ReadFrom, end
  <2>7. txt \o f[a] = f[0]
    BY <1>12
  <2>8. txt \in Seq(C) /\ gap \in Seq(C) /\ val \in Seq(C) /\ rest \in Seq(C)
    <3>1. txt \in Seq(C) /\ a \in Nat
      BY <1>5, <2>1
    <3>2. rest \in Seq(C)
      BY <1>6, <2>2
    <3>3. val \in Seq(C)
      BY <1>1, <1>4, <2>1, PositionTypes
    <3>4. gap \in Seq(C)
      BY <2>2, <3>1, CopiedBytes DEF end
    <3> QED  BY <3>1, <3>2, <3>3, <3>4
  <2>9. f[0] = txt \o (gap \o (val \o rest))
    BY <2>5, <2>6, <2>7
  <2> HIDE DEF txt, gap, val, rest, pos, a
  <2>10. txt \o (gap \o (val \o rest)) = (txt \o gap \o val) \o rest
    <3>1. Regroups(txt, gap, val, rest)
      BY <2>8, ConcatFour
    <3> QED  BY <3>1 DEF Regroups
  <2>11. Inv(k + 1)
    BY <2>2, <2>3, <2>9, <2>10 DEF rest
  <2> HIDE DEF Inv
  <2> QED  BY <2>1, <2>11
<1>13. Inv(n)
  <2> HIDE DEF T
  <2>1. 0 .. n \subseteq T
    BY <1>4, <1>11, <1>12, UpTo
  <2>2. n \in T
    BY <1>4, <2>1
  <2> HIDE DEF Inv
  <2> QED  BY <2>2 DEF T
<1>14. f[r[n].off] = SubSeq(s, r[n].off + 1, end)
  <2> DEFINE last == SubSeq(s, r[n].off + 1, end)
  <2>1. f[r[n].off] = last \o f[end]
    <3>1. n \in 0 .. n /\ end \in 0 .. end /\ r[n].off <= end
      BY <1>4, <1>13
    <3> QED  BY <1>10, <3>1
  <2>2. f[end] = <<>>
    <3>1. end \in 0 .. Len(s)
      BY <1>4 DEF end
    <3>2. f[end] = ReadFrom(s, dict, f, end)
      BY <1>3, <3>1 DEF ReadsAll
    <3> QED  BY <3>2 DEF ReadFrom, end
  <2>3. last \in Seq(C)
    <3>1. r[n].off \in Nat /\ end \in 0 .. Len(s)
      BY <1>4, <1>5 DEF end
    <3> QED  BY <3>1, CopiedBytes
  <2> HIDE DEF last
  <2>4. last \o <<>> = last
    BY <2>3, ConcatEmptySeq
  <2> QED  BY <2>1, <2>2, <2>4 DEF last
<1> QED  BY <1>2, <1>3, <1>13, <1>14

(* For every string and every dictionary, the answer of replace has the    *)
(* size that the first loop counts, it is made of the occurrences in their *)
(* order, and it is the string with every key replaced when no two         *)
(* occurrences overlap (mln_replace_do).                                   *)
THEOREM ReplaceIsRight ==
  ASSUME NEW C, NEW s \in Seq(C), NEW dict \in Seq(WordsOf(C))
  PROVE  FitsAndReplaces(s, dict, Replace(s, dict))
<1> DEFINE list == Positions(s, dict)
<1>1. list \in Seq(PositionsOf(C)) /\ Ordered(list)
  BY PositionsOrdered DEF OrderedLists
<1>2. Within(s, list)
  <2>1. ASSUME NEW i \in DOMAIN list PROVE Behind(list[i]) <= Len(s)
    BY PositionsOccurrences DEF Occurs, Behind
  <2> QED  BY <2>1 DEF Within
<1>3. Len(Text(s, list)) = Size(s, list)
  BY <1>1, <1>2, TextHasSize
<1>4. Disjoint(list) => Text(s, list) = Replaced(s, dict)
  BY <1>2, TextIsReplaced
<1> QED  BY <1>1, <1>3, <1>4 DEF FitsAndReplaces, Replace, Ordered

=============================================================================
