--------------------------- MODULE StoredFilesProofs ---------------------------
(***************************************************************************)
(* Proofs about the files that are stored and read back:                   *)
(*                                                                         *)
(*   RadioFile     for any images and texts, sizes of headers and payloads *)
(*                 and range of fragment numbers, and files cut anywhere;  *)
(*   DatasetFiles  for any datasets, uploads, edits and word size.         *)
(***************************************************************************)
EXTENDS RadioFile, WellFoundedInduction, TLAPS

\* Of DatasetFiles.
CONSTANTS Configs, Uploads, Edited, Frames, Times, Word, MAX_SAMPLES,
          ABSOLUTE_MINIMUM_PERIOD, ABSOLUTE_MAXIMUM_PERIOD, PERIODIC, PERIODIC_LDMK,
          Defaults, WholeFiles

VARIABLES dataset, disk, origin

DF == INSTANCE DatasetFiles

-----------------------------------------------------------------------------
(***************************************************************************)
(* RadioFile                                                               *)
(***************************************************************************)

-----------------------------------------------------------------------------
(* Lists *)

\* A set of numbers has a smallest one: what holds at 0 and is kept by each step has no
\* smallest number at which it fails, and so holds throughout.
LEMMA Smallest ==
  ASSUME NEW T \in SUBSET Nat, T # {}
  PROVE  \E n \in T : \A m \in T : n <= m
<1>1. PICK n \in T : \A m \in T : <<m, n>> \notin OpToRel(<, Nat)
  BY NatLessThanWellFounded, WFMin
<1>2. \A m \in T : ~(m < n)
  BY <1>1, Zenon DEF OpToRel
<1>3. \A m \in T : n <= m
  BY <1>2, SMT
<1> QED BY <1>3

\* The elements of two sequences, one after the other.
LEMMA Concatenated ==
  ASSUME NEW T, NEW a \in Seq(T), NEW b \in Seq(T)
  PROVE  /\ a \o b \in Seq(T) /\ Len(a \o b) = Len(a) + Len(b)
         /\ DOMAIN (a \o b) = 1..(Len(a) + Len(b))
         /\ \A i \in 1..(Len(a) + Len(b)) :
              (a \o b)[i] = IF i <= Len(a) THEN a[i] ELSE b[i - Len(a)]
OBVIOUS

\* FlattenSeq builds its result from left to right.
LEMMA FlattenSteps ==
  ASSUME NEW T, NEW s \in Seq(Seq(T)), s # <<>>
  PROVE  \E F \in [1..Len(s) -> Seq(T)] :
           /\ F[1] = s[1]
           /\ \A i \in 2..Len(s) : F[i] = F[i - 1] \o s[i]
           /\ FlattenSeq(s) = F[Len(s)]
<1> DEFINE n == Len(s)
           OfFirst(F, m) ==
             /\ F \in [1..m -> Seq(T)]
             /\ F[1] = s[1]
             /\ \A i \in 2..m : F[i] = F[i - 1] \o s[i]
           Bad == {m \in 1..n : ~ \E F : OfFirst(F, m)}
           flatten == CHOOSE F : F = [i \in 1..n |-> IF i = 1 THEN s[i] ELSE F[i - 1] \o s[i]]
<1>1. n \in Nat \ {0} /\ \A i \in 1..n : s[i] \in Seq(T)
  OBVIOUS
<1> HIDE DEF n
<1>2. ASSUME NEW m \in Bad, \A k \in Bad : m <= k PROVE FALSE
  <2>1. m # 1
    <3> SUFFICES ASSUME m = 1 PROVE FALSE
      OBVIOUS
    <3> DEFINE F == [i \in 1..1 |-> s[1]]
    <3>1. OfFirst(F, 1)
      BY <1>1
    <3> QED BY <3>1
  <2>2. m \in 2..n /\ m - 1 \in 1..n
    BY <1>1, <2>1
  <2>3. m - 1 \notin Bad
    <3> HIDE DEF Bad
    <3> QED BY <1>2, <2>2
  <2>4. PICK F : OfFirst(F, m - 1)
    BY <2>2, <2>3, Zenon
  <2> DEFINE G == [i \in 1..m |-> IF i = m THEN F[m - 1] \o s[m] ELSE F[i]]
  <2>5. OfFirst(G, m)
    <3>1. F[m - 1] \o s[m] \in Seq(T)
      BY <1>1, <2>2, <2>4
    <3>2. G \in [1..m -> Seq(T)]
      BY <2>2, <2>4, <3>1
    <3>3. G[1] = s[1]
      BY <2>2, <2>4
    <3>4. ASSUME NEW i \in 2..m PROVE G[i] = G[i - 1] \o s[i]
      <4>1. i \in 1..m /\ i - 1 \in 1..m /\ i - 1 # m
        BY <2>2
      <4>2. G[i - 1] = F[i - 1] /\ G[i] = IF i = m THEN F[m - 1] \o s[m] ELSE F[i]
        BY <4>1
      <4>3. i # m => i \in 2..(m - 1)
        BY <2>2
      <4> QED BY <2>4, <4>2, <4>3, Zenon
    <3> HIDE DEF G
    <3> QED BY <3>2, <3>3, <3>4
  <2> HIDE DEF OfFirst
  <2> QED BY <2>5
<1>3. PICK F : OfFirst(F, n)
  <2>1. Bad \in SUBSET Nat
    <3>1. Bad \subseteq 1..n
      BY Zenon
    <3>2. 1..n \subseteq Nat
      BY <1>1
    <3> QED BY <3>1, <3>2, Zenon
  <2>2. Bad = {}
    <3> HIDE DEF Bad
    <3> QED BY <1>2, <2>1, Smallest
  <2>3. n \in 1..n
    BY <1>1
  <2> HIDE DEF OfFirst
  <2> QED BY <2>2, <2>3
<1>4. F = [i \in 1..n |-> IF i = 1 THEN s[i] ELSE F[i - 1] \o s[i]]
  <2>1. F = [i \in 1..n |-> F[i]]
    BY <1>3
  <2>2. \A i \in 1..n : F[i] = IF i = 1 THEN s[i] ELSE F[i - 1] \o s[i]
    <3>1. \A i \in 1..n : i # 1 => i \in 2..n
      BY <1>1
    <3> QED BY <1>3, <3>1, Zenon
  <2> QED BY <2>1, <2>2, Zenon
<1>5. flatten = [i \in 1..n |-> IF i = 1 THEN s[i] ELSE flatten[i - 1] \o s[i]]
  BY <1>4, Zenon
<1>6. FlattenSeq(s) = flatten[n]
  BY <1>1, Zenon DEF FlattenSeq, n
<1> HIDE DEF flatten
<1>7. DOMAIN flatten = 1..n
  BY <1>5, Zenon
<1>8. \A i \in 1..n : flatten[i] = IF i = 1 THEN s[i] ELSE flatten[i - 1] \o s[i]
  BY <1>5, Zenon
<1> DEFINE Wrong == {m \in 1..n : flatten[m] # F[m]}
<1>9. ASSUME NEW m \in Wrong, \A k \in Wrong : m <= k PROVE FALSE
  <2>1. m # 1
    BY <1>1, <1>3, <1>8
  <2>2. m \in 2..n /\ m - 1 \in 1..n
    BY <1>1, <2>1
  <2>3. m - 1 \notin Wrong
    <3> HIDE DEF Wrong
    <3> QED BY <1>9, <2>2
  <2>4. flatten[m - 1] = F[m - 1]
    BY <2>2, <2>3
  <2>5. flatten[m] = flatten[m - 1] \o s[m]
    BY <1>8, <2>1, Zenon
  <2> QED BY <1>3, <2>2, <2>4, <2>5
<1>10. flatten[n] = F[n]
  <2>1. Wrong \in SUBSET Nat
    BY <1>1
  <2>2. Wrong = {}
    <3> HIDE DEF Wrong
    <3> QED BY <1>9, <2>1, Smallest
  <2>3. n \in 1..n
    BY <1>1
  <2> QED BY <2>2, <2>3
<1> HIDE DEF flatten
<1> QED BY <1>3, <1>6, <1>10 DEF n

\* A list of prefixes, each longer by one sequence, ends in the flattened list.
LEMMA FlattenIs ==
  ASSUME NEW T, NEW s \in Seq(Seq(T)), NEW G \in [0..Len(s) -> Seq(T)], G[0] = <<>>,
         \A i \in 1..Len(s) : G[i] = G[i - 1] \o s[i]
  PROVE  FlattenSeq(s) = G[Len(s)]
<1>1. CASE s = <<>>
  BY <1>1 DEF FlattenSeq
<1>2. CASE s # <<>>
  <2> DEFINE n == Len(s)
  <2>1. n \in Nat \ {0} /\ \A i \in 1..n : s[i] \in Seq(T)
    BY <1>2
  <2>2. PICK F \in [1..n -> Seq(T)] : /\ F[1] = s[1]
                                      /\ \A i \in 2..n : F[i] = F[i - 1] \o s[i]
                                      /\ FlattenSeq(s) = F[n]
    BY <1>2, FlattenSteps
  <2> DEFINE Wrong == {m \in 1..n : F[m] # G[m]}
  <2> HIDE DEF n
  <2>3. \A i \in 1..n : G[i] = G[i - 1] \o s[i]
    BY DEF n
  <2>4. ASSUME NEW m \in Wrong, \A k \in Wrong : m <= k PROVE FALSE
    <3>1. m # 1
      <4>1. 1 \in 1..n /\ 1 - 1 = 0
        BY <2>1
      <4>2. G[1] = <<>> \o s[1]
        BY <2>3, <4>1, Zenon
      <4>3. <<>> \o s[1] = s[1]
        BY <2>1, <4>1
      <4> QED BY <2>2, <4>2, <4>3
    <3>2. m \in 2..n /\ m - 1 \in 1..n
      BY <2>1, <3>1
    <3>3. m - 1 \notin Wrong
      <4> HIDE DEF Wrong
      <4> QED BY <2>4, <3>2
    <3> QED BY <2>2, <2>3, <3>2, <3>3
  <2>5. Wrong = {}
    <3>1. Wrong \in SUBSET Nat
      BY <2>1
    <3> HIDE DEF Wrong
    <3> QED BY <2>4, <3>1, Smallest
  <2>6. n \in 1..n
    BY <2>1
  <2> QED BY <2>2, <2>5, <2>6 DEF n
<1> QED BY <1>1, <1>2

\* There is such a list of prefixes.
LEMMA Flattened ==
  ASSUME NEW T, NEW s \in Seq(Seq(T))
  PROVE  /\ FlattenSeq(s) \in Seq(T)
         /\ \E G \in [0..Len(s) -> Seq(T)] :
              /\ G[0] = <<>> /\ G[Len(s)] = FlattenSeq(s)
              /\ \A i \in 1..Len(s) : G[i] = G[i - 1] \o s[i]
<1>1. CASE s = <<>>
  <2>1. Len(s) = 0 /\ FlattenSeq(s) = <<>>
    BY <1>1 DEF FlattenSeq
  <2> DEFINE G == [i \in 0..0 |-> <<>>]
  <2>2. G \in [0..0 -> Seq(T)] /\ G[0] = <<>>
    OBVIOUS
  <2> HIDE DEF G
  <2>3. \A i \in 1..0 : G[i] = G[i - 1] \o s[i]
    OBVIOUS
  <2>4. <<>> \in Seq(T)
    OBVIOUS
  <2> QED BY <2>1, <2>2, <2>3, <2>4, Zenon
<1>2. CASE s # <<>>
  <2> DEFINE n == Len(s)
  <2>1. n \in Nat \ {0} /\ \A i \in 1..n : s[i] \in Seq(T)
    BY <1>2
  <2>2. PICK F \in [1..n -> Seq(T)] : /\ F[1] = s[1]
                                      /\ \A i \in 2..n : F[i] = F[i - 1] \o s[i]
                                      /\ FlattenSeq(s) = F[n]
    BY <1>2, FlattenSteps
  <2> HIDE DEF n
  <2> DEFINE G == [i \in 0..n |-> IF i = 0 THEN <<>> ELSE F[i]]
  <2>3. G \in [0..n -> Seq(T)]
    <3>1. \A i \in 0..n : i # 0 => i \in 1..n
      BY <2>1
    <3>2. <<>> \in Seq(T)
      OBVIOUS
    <3> QED BY <3>1, <3>2
  <2>4. G[0] = <<>> /\ G[n] = F[n]
    BY <2>1
  <2>5. ASSUME NEW i \in 1..n PROVE G[i] = G[i - 1] \o s[i]
    <3>1. CASE i = 1
      <4>1. G[1] = F[1] /\ G[0] = <<>> /\ 1 - 1 = 0
        BY <2>1
      <4>2. <<>> \o s[1] = s[1]
        BY <2>1
      <4> QED BY <2>2, <3>1, <4>1, <4>2
    <3>2. CASE i # 1
      <4>1. i \in 2..n /\ i - 1 \in 0..n /\ i - 1 # 0 /\ i \in 0..n /\ i # 0
        BY <3>2, <2>1
      <4> QED BY <2>2, <4>1
    <3> QED BY <3>1, <3>2
  <2> HIDE DEF G
  <2>6. G[n] = FlattenSeq(s) /\ F[n] \in Seq(T)
    BY <2>1, <2>2, <2>4
  <2> QED BY <2>1, <2>2, <2>3, <2>4, <2>5, <2>6 DEF n
<1> QED BY <1>1, <1>2

\* Flattening goes through concatenation: the partial results of u, and those of v behind
\* all of u, are the partial results of both.
LEMMA FlattenJoin ==
  ASSUME NEW T, NEW u \in Seq(Seq(T)), NEW v \in Seq(Seq(T))
  PROVE  FlattenSeq(u \o v) = FlattenSeq(u) \o FlattenSeq(v)
<1> DEFINE m == Len(u)
           n == Len(v)
           s == u \o v
<1>1. /\ m \in Nat /\ n \in Nat /\ s \in Seq(Seq(T)) /\ Len(s) = m + n
      /\ \A i \in 1..m : u[i] \in Seq(T)
      /\ \A i \in 1..n : v[i] \in Seq(T)
      /\ \A i \in 1..(m + n) : s[i] = IF i <= m THEN u[i] ELSE v[i - m]
  <2>1. m \in Nat /\ n \in Nat
    OBVIOUS
  <2> QED BY <2>1, Concatenated
<1>2. PICK G \in [0..m -> Seq(T)] : /\ G[0] = <<>> /\ G[m] = FlattenSeq(u)
                                    /\ \A i \in 1..m : G[i] = G[i - 1] \o u[i]
  BY Flattened
<1>3. PICK H \in [0..n -> Seq(T)] : /\ H[0] = <<>> /\ H[n] = FlattenSeq(v)
                                    /\ \A i \in 1..n : H[i] = H[i - 1] \o v[i]
  BY Flattened
<1> DEFINE a == FlattenSeq(u)
           K == [i \in 0..(m + n) |-> IF i <= m THEN G[i] ELSE a \o H[i - m]]
<1>4. a \in Seq(T)
  BY Flattened
<1> HIDE DEF m, n, s, a
<1>5. K \in [0..(m + n) -> Seq(T)]
  <2>1. ASSUME NEW i \in 0..(m + n) PROVE K[i] \in Seq(T)
    <3>1. CASE i <= m
      <4>1. i \in 0..m
        BY <1>1, <3>1
      <4> QED BY <3>1, <4>1
    <3>2. CASE ~(i <= m)
      <4>1. i - m \in 0..n
        BY <1>1, <3>2
      <4>2. a \o H[i - m] \in Seq(T)
        BY <1>3, <1>4, <4>1
      <4> QED BY <3>2, <4>2
    <3> QED BY <3>1, <3>2
  <2> QED BY <2>1
<1>6. K[0] = <<>>
  BY <1>1, <1>2
<1>7. ASSUME NEW i \in 1..(m + n) PROVE K[i] = K[i - 1] \o s[i]
  <2>1. CASE i <= m
    <3>1. i \in 1..m /\ i \in 0..(m + n) /\ i - 1 \in 0..(m + n) /\ i - 1 <= m
      BY <1>1, <2>1
    <3> QED BY <1>1, <1>2, <2>1, <3>1
  <2>2. CASE i = m + 1
    <3>1. /\ 1 \in 1..n /\ i \in 0..(m + n) /\ i - 1 \in 0..(m + n) /\ i - 1 = m /\ i - m = 1
          /\ ~(i <= m)
      BY <1>1, <2>2
    <3>2. K[i] = a \o H[1]
      BY <3>1
    <3>3. K[i - 1] = a
      <4>1. K[i - 1] = G[m]
        BY <1>1, <3>1
      <4> QED BY <1>2, <4>1 DEF a
    <3>4. s[i] = v[1]
      BY <1>1, <3>1
    <3>5. H[1] = v[1]
      <4>1. 1 - 1 = 0
        OBVIOUS
      <4>2. H[1] = <<>> \o v[1]
        BY <1>3, <3>1, <4>1, Zenon
      <4>3. <<>> \o v[1] = v[1]
        BY <1>1, <3>1
      <4> QED BY <4>2, <4>3
    <3> QED BY <3>2, <3>3, <3>4, <3>5
  <2>3. CASE i > m + 1
    <3>1. /\ i - m \in 1..n /\ (i - 1) - m = (i - m) - 1 /\ (i - m) - 1 \in 0..n
          /\ i \in 0..(m + n) /\ i - 1 \in 0..(m + n) /\ ~(i <= m) /\ ~(i - 1 <= m)
      BY <1>1, <2>3
    <3>2. K[i] = a \o H[i - m] /\ K[i - 1] = a \o H[(i - m) - 1] /\ s[i] = v[i - m]
      BY <1>1, <3>1
    <3>3. H[i - m] = H[(i - m) - 1] \o v[i - m]
      BY <1>3, <3>1
    <3> DEFINE x == H[(i - m) - 1]
               y == v[i - m]
    <3>4. x \in Seq(T) /\ y \in Seq(T)
      BY <1>1, <1>3, <3>1
    <3> HIDE DEF x, y
    <3>5. (a \o x) \o y = a \o (x \o y)
      BY <1>4, <3>4
    <3> QED BY <3>2, <3>3, <3>5 DEF x, y
  <2>4. i <= m \/ i = m + 1 \/ i > m + 1
    BY <1>1
  <2> HIDE DEF K
  <2> QED BY <2>1, <2>2, <2>3, <2>4
<1> HIDE DEF K
<1>8. FlattenSeq(s) = K[m + n]
  BY <1>1, <1>5, <1>6, <1>7, FlattenIs
<1>9. K[m + n] = a \o FlattenSeq(v)
  <2>1. CASE n = 0
    <3>1. K[m + n] = a /\ FlattenSeq(v) = <<>>
      BY <1>1, <1>2, <1>3, <2>1 DEF K, a
    <3> QED BY <1>4, <3>1
  <2>2. CASE n # 0
    <3>1. ~(m + n <= m) /\ (m + n) - m = n /\ m + n \in 0..(m + n)
      BY <1>1, <2>2
    <3> QED BY <1>3, <3>1 DEF K
  <2> QED BY <2>1, <2>2
<1> QED BY <1>8, <1>9 DEF s, a

LEMMA IsSeq ==
  ASSUME NEW T, NEW k \in Nat, NEW a \in [1..k -> T]
  PROVE  a \in Seq(T) /\ Len(a) = k
OBVIOUS

LEMMA SameSeq ==
  ASSUME NEW T, NEW a \in Seq(T), NEW b \in Seq(T), Len(a) = Len(b),
         \A i \in 1..Len(b) : a[i] = b[i]
  PROVE  a = b
OBVIOUS

\* Piece k of s ends where e[k] says, in a list g of n entries.
Ends(s, g, n, e) ==
  /\ e \in [0..Len(s) -> 0..n] /\ e[0] = 0 /\ e[Len(s)] = n
  /\ \A k \in 1..Len(s) :
       /\ e[k - 1] <= e[k] /\ Len(s[k]) = e[k] - e[k - 1]
       /\ \A b \in 1..(e[k] - e[k - 1]) : s[k][b] = g[e[k - 1] + b]

\* Pieces that follow one another without a gap are the whole.
LEMMA Contiguous ==
  ASSUME NEW T, NEW n \in Nat, NEW g \in [1..n -> T], NEW s \in Seq(Seq(T)), NEW e,
         Ends(s, g, n, e)
  PROVE  FlattenSeq(s) = g
<1> DEFINE m == Len(s)
           G == [k \in 0..m |-> [b \in 1..e[k] |-> g[b]]]
<1>1. m \in Nat /\ m \in 0..m
  OBVIOUS
<1>2. \A k \in 0..m : e[k] \in 0..n
  BY DEF Ends
<1> USE DEF Ends
<1> HIDE DEF m
<1>3. G \in [0..m -> Seq(T)]
  <2>1. ASSUME NEW k \in 0..m PROVE [b \in 1..e[k] |-> g[b]] \in Seq(T)
    <3>1. e[k] \in Nat /\ \A b \in 1..e[k] : g[b] \in T
      BY <1>2
    <3> DEFINE l == e[k]
               x == [b \in 1..l |-> g[b]]
    <3>2. x \in [1..l -> T] /\ l \in Nat
      BY <3>1
    <3> HIDE DEF l, x
    <3>3. x \in Seq(T)
      BY <3>2, IsSeq
    <3> QED BY <3>3 DEF l, x
  <2> QED BY <2>1
<1>4. G[0] = <<>> /\ G[m] = g
  <2>1. G[0] = [b \in 1..0 |-> g[b]] /\ G[m] = [b \in 1..n |-> g[b]]
    BY <1>1 DEF m
  <2>2. [b \in 1..0 |-> g[b]] = <<>>
    OBVIOUS
  <2>3. [b \in 1..n |-> g[b]] = g
    OBVIOUS
  <2> HIDE DEF G
  <2> QED BY <2>1, <2>2, <2>3
<1>5. ASSUME NEW k \in 1..m PROVE G[k] = G[k - 1] \o s[k]
  <2> DEFINE i == e[k - 1]
             j == e[k]
             x == [b \in 1..i |-> g[b]]
             y == s[k]
             z == [b \in 1..j |-> g[b]]
  <2>1. k - 1 \in 0..m /\ k \in 0..m
    BY <1>1
  <2>2. i \in 0..n /\ j \in 0..n /\ i <= j
    BY <1>2, <2>1 DEF m
  <2>3. G[k] = z /\ G[k - 1] = x
    BY <2>1
  <2>4. y \in Seq(T) /\ Len(y) = j - i /\ \A b \in 1..(j - i) : y[b] = g[i + b]
    <3>1. s[k] \in Seq(T)
      BY DEF m
    <3>2. /\ Len(s[k]) = e[k] - e[k - 1]
          /\ \A b \in 1..(e[k] - e[k - 1]) : s[k][b] = g[e[k - 1] + b]
      BY Zenon DEF m, Ends
    <3> QED BY <3>1, <3>2
  <2> HIDE DEF G, i, j, y
  <2>5. x \in [1..i -> T] /\ z \in [1..j -> T]
    BY <2>2
  <2>6. /\ x \in Seq(T) /\ Len(x) = i /\ z \in Seq(T) /\ Len(z) = j
    <3>1. i \in Nat /\ j \in Nat
      BY <2>2
    <3> HIDE DEF x, z
    <3> QED BY <2>5, <3>1, IsSeq
  <2>7. \A b \in 1..j : z[b] = IF b <= i THEN x[b] ELSE y[b - i]
    <3>1. ASSUME NEW b \in 1..j, ~(b <= i) PROVE y[b - i] = g[b]
      <4>1. b - i \in 1..(j - i) /\ i + (b - i) = b
        BY <2>2, <3>1
      <4> QED BY <2>4, <4>1
    <3>2. ASSUME NEW b \in 1..j, b <= i PROVE x[b] = g[b]
      BY <2>2, <3>2
    <3> QED BY <3>1, <3>2
  <2> HIDE DEF x, z
  <2>8. /\ x \o y \in Seq(T) /\ Len(x \o y) = j
        /\ \A b \in 1..j : (x \o y)[b] = IF b <= i THEN x[b] ELSE y[b - i]
    <3>1. i + (j - i) = j
      BY <2>2
    <3> QED BY <2>4, <2>6, <3>1, Concatenated
  <2>9. x \o y = z
    <3>1. \A b \in 1..j : (x \o y)[b] = z[b]
      BY <2>7, <2>8
    <3> QED BY <2>6, <2>8, <3>1, SameSeq
  <2> QED BY <2>3, <2>9 DEF y
<1> HIDE DEF G
<1>6. FlattenSeq(s) = G[m]
  BY <1>3, <1>4, <1>5, FlattenIs DEF m
<1> QED BY <1>4, <1>6

-----------------------------------------------------------------------------
(* Pieces *)

LEMMA Product ==
  ASSUME NEW i \in Nat, NEW j \in Nat, NEW max \in Nat, i <= j
  PROVE  i * max \in Nat /\ i * max <= j * max
<1>1. j * max = i * max + (j - i) * max
  OBVIOUS
<1>2. (j - i) * max \in Nat
  OBVIOUS
<1> QED BY <1>1, <1>2

\* The number of pieces of n bytes.
LEMMA Quotient ==
  ASSUME NEW n \in Nat, NEW max \in Nat \ {0}
  PROVE  LET q == (n + max - 1) \div max IN
         q \in Nat /\ n <= q * max /\ q * max < n + max
<1> DEFINE a == n + max - 1
           q == a \div max
<1>1. a \in Nat
  OBVIOUS
<1> HIDE DEF a
<1>2. q \in Nat
  BY <1>1
<1>3. a = q * max + (a % max) /\ a % max \in 0..max - 1
  BY <1>1
<1> HIDE DEF q
<1> DEFINE p == q * max
           r == a % max
<1>4. p \in Int /\ r \in 0..max - 1 /\ a = p + r
  BY <1>2, <1>3
<1> HIDE DEF p, r
<1>5. n <= p /\ p < n + max
  BY <1>4 DEF a
<1> QED BY <1>2, <1>5 DEF p, q, a

\* Pieces cuts n bytes into pieces that follow each other without a gap, of the full
\* size but for the last one.
LEMMA PiecesOf ==
  ASSUME NEW n \in Nat, NEW max \in Nat \ {0}
  PROVE  LET q == (n + max - 1) \div max
             s == Pieces(n, max)
         IN /\ q \in Nat /\ s \in Seq([first : Nat, size : 1..max]) /\ Len(s) = q
            /\ \A k \in 1..q :
                 /\ s[k].first = (k - 1) * max
                 /\ s[k].first + s[k].size = Least(n, k * max)
                 /\ s[k].first < n
            /\ n <= q * max
<1> DEFINE q == (n + max - 1) \div max
           s == Pieces(n, max)
<1>1. q \in Nat /\ n <= q * max /\ q * max < n + max
  BY Quotient
<1>2. s = [k \in 1..q |-> [first |-> (k - 1) * max, size |-> Least(max, n - (k - 1) * max)]]
  BY DEF Pieces
<1> HIDE DEF q, s
<1>3. ASSUME NEW k \in 1..q
      PROVE  /\ (k - 1) * max \in Nat /\ (k - 1) * max < n
             /\ Least(max, n - (k - 1) * max) \in 1..max
             /\ (k - 1) * max + Least(max, n - (k - 1) * max) = Least(n, k * max)
  <2> DEFINE f == (k - 1) * max
             l == k * max
             t == q * max
  <2>1. f \in Nat /\ l = f + max /\ l \in Nat /\ t \in Nat
    BY <1>1
  <2>2. l <= t
    BY <1>1, Product
  <2>3. t < n + max
    BY <1>1
  <2> HIDE DEF f, l, t
  <2>4. f \in Nat /\ f < n /\ Least(max, n - f) \in 1..max
          /\ f + Least(max, n - f) = Least(n, l)
    BY <2>1, <2>2, <2>3 DEF Least
  <2> QED BY <2>4 DEF f, l
<1>4. ASSUME NEW k \in 1..q
      PROVE  /\ s[k] \in [first : Nat, size : 1..max]
             /\ s[k].first = (k - 1) * max
             /\ s[k].first + s[k].size = Least(n, k * max)
             /\ s[k].first < n
  <2>1. s[k] = [first |-> (k - 1) * max, size |-> Least(max, n - (k - 1) * max)]
    BY <1>2
  <2> DEFINE f == (k - 1) * max
             z == Least(max, n - (k - 1) * max)
             l == Least(n, k * max)
  <2>2. f \in Nat /\ f < n /\ z \in 1..max /\ f + z = l
    BY <1>3
  <2>3. s[k] = [first |-> f, size |-> z]
    BY <2>1
  <2> HIDE DEF f, z, l
  <2>4. s[k] \in [first : Nat, size : 1..max] /\ s[k].first = f /\ s[k].size = z
    BY <2>2, <2>3
  <2>5. s[k].first + s[k].size = l /\ s[k].first < n
    BY <2>2, <2>4
  <2> QED BY <2>4, <2>5 DEF f, l
<1>5. s \in Seq([first : Nat, size : 1..max]) /\ Len(s) = q
  <2>1. s \in [1..q -> [first : Nat, size : 1..max]]
    <3>1. DOMAIN s = 1..q /\ s = [k \in 1..q |-> s[k]]
      BY <1>2
    <3> QED BY <1>4, <3>1
  <2> QED BY <1>1, <2>1, IsSeq
<1> QED BY <1>1, <1>4, <1>5 DEF q, s

-----------------------------------------------------------------------------
(* Bytes of payloads *)

Packets ==
  [tile : Int, frag : 0..FragRange - 1, header : {0, PACKET_HEADER_SIZE}, first : Nat,
   size : Nat]
Place == Int \X Int
Piece(p) == [b \in 1..p.size |-> <<p.tile, p.first + b>>]

\* The bytes of payloads are those of each, one after the other.
LEMMA BytesOf ==
  ASSUME NEW p \in Seq(Packets)
  PROVE  LET s == [k \in 1..Len(p) |-> Piece(p[k])] IN
         /\ s \in Seq(Seq(Place)) /\ Len(s) = Len(p)
         /\ Bytes(p) = FlattenSeq(s) /\ Bytes(p) \in Seq(Place)
<1> DEFINE n == Len(p)
           s == [k \in 1..n |-> Piece(p[k])]
<1>1. n \in Nat /\ DOMAIN p = 1..n /\ \A k \in 1..n : p[k] \in Packets
  OBVIOUS
<1> HIDE DEF n
<1>2. ASSUME NEW k \in 1..n PROVE Piece(p[k]) \in Seq(Place)
  <2>1. p[k].size \in Nat /\ p[k].tile \in Int /\ p[k].first \in Nat
    BY <1>1 DEF Packets
  <2> DEFINE z == p[k].size
             t == p[k].tile
             f == p[k].first
             x == [b \in 1..z |-> <<t, f + b>>]
  <2>2. x \in [1..z -> Place] /\ z \in Nat
    <3> HIDE DEF z, t, f
    <3> QED BY <2>1 DEF Place, z, t, f
  <2>3. Piece(p[k]) = x
    BY DEF Piece
  <2> HIDE DEF z, x
  <2> QED BY <2>2, <2>3, IsSeq
<1>3. s \in Seq(Seq(Place)) /\ Len(s) = n
  <2>1. s \in [1..n -> Seq(Place)]
    BY <1>2
  <2> HIDE DEF s
  <2> QED BY <1>1, <2>1, IsSeq
<1>4. Bytes(p) = FlattenSeq(s)
  BY <1>1 DEF Bytes, Piece
<1>5. FlattenSeq(s) \in Seq(Place)
  <2> HIDE DEF s
  <2> QED BY <1>3, Flattened
<1> QED BY <1>3, <1>4, <1>5 DEF n

\* The bytes of two lists of payloads.
LEMMA BytesJoin ==
  ASSUME NEW p \in Seq(Packets), NEW r \in Seq(Packets)
  PROVE  Bytes(p \o r) = Bytes(p) \o Bytes(r)
<1> DEFINE m == Len(p)
           n == Len(r)
           x == p \o r
           u == [k \in 1..m |-> Piece(p[k])]
           v == [k \in 1..n |-> Piece(r[k])]
           w == [k \in 1..Len(x) |-> Piece(x[k])]
<1>1. /\ m \in Nat /\ n \in Nat /\ x \in Seq(Packets) /\ Len(x) = m + n
      /\ \A k \in 1..(m + n) : x[k] = IF k <= m THEN p[k] ELSE r[k - m]
  BY Concatenated
<1>2. /\ u \in Seq(Seq(Place)) /\ Len(u) = m /\ Bytes(p) = FlattenSeq(u)
      /\ v \in Seq(Seq(Place)) /\ Len(v) = n /\ Bytes(r) = FlattenSeq(v)
  BY BytesOf
<1>3. w \in Seq(Seq(Place)) /\ Len(w) = m + n /\ Bytes(x) = FlattenSeq(w)
  <2> HIDE DEF x
  <2> QED BY <1>1, BytesOf
<1>4. ASSUME NEW k \in 1..(m + n) PROVE w[k] = IF k <= m THEN u[k] ELSE v[k - m]
  <2>1. w[k] = Piece(x[k])
    BY <1>1
  <2>2. CASE k <= m
    BY <1>1, <2>1, <2>2
  <2>3. CASE ~(k <= m)
    <3>1. k - m \in 1..n
      BY <1>1, <2>3
    <3> QED BY <1>1, <2>1, <2>3, <3>1
  <2> QED BY <2>2, <2>3
<1> HIDE DEF m, n, u, v, w
<1>5. /\ u \o v \in Seq(Seq(Place)) /\ Len(u \o v) = m + n
      /\ \A k \in 1..(m + n) : (u \o v)[k] = IF k <= m THEN u[k] ELSE v[k - m]
  BY <1>2, Concatenated
<1>6. w = u \o v
  BY <1>3, <1>4, <1>5, SameSeq
<1>7. FlattenSeq(u \o v) = FlattenSeq(u) \o FlattenSeq(v)
  BY <1>2, FlattenJoin
<1> QED BY <1>2, <1>3, <1>6, <1>7, Zenon

\* A sequence is its first m elements and the others.
LEMMA Cut ==
  ASSUME NEW T, NEW p \in Seq(T), NEW m \in 0..Len(p)
  PROVE  LET x == SubSeq(p, 1, m)
             y == SubSeq(p, m + 1, Len(p))
         IN x \in Seq(T) /\ y \in Seq(T) /\ p = x \o y
<1> DEFINE n == Len(p)
           x == SubSeq(p, 1, m)
           y == SubSeq(p, m + 1, n)
<1>1. n \in Nat /\ m \in 0..n
  OBVIOUS
<1>2. /\ x \in Seq(T) /\ Len(x) = m /\ \A i \in 1..m : x[i] = p[i]
      /\ y \in Seq(T) /\ Len(y) = n - m /\ \A i \in 1..(n - m) : y[i] = p[m + i]
  OBVIOUS
<1> HIDE DEF n, x, y
<1>3. /\ x \o y \in Seq(T) /\ Len(x \o y) = n
      /\ \A i \in 1..n : (x \o y)[i] = IF i <= m THEN x[i] ELSE y[i - m]
  <2>1. m + (n - m) = n
    BY <1>1
  <2>2. m \in Nat /\ n - m \in Nat
    BY <1>1
  <2>3. /\ x \o y \in Seq(T) /\ Len(x \o y) = Len(x) + Len(y)
        /\ \A i \in 1..(Len(x) + Len(y)) :
             (x \o y)[i] = IF i <= Len(x) THEN x[i] ELSE y[i - Len(x)]
    BY <1>2, Concatenated
  <2> QED BY <1>2, <2>1, <2>2, <2>3
<1>4. \A i \in 1..n : (x \o y)[i] = p[i]
  <2>1. ASSUME NEW i \in 1..n, ~(i <= m) PROVE y[i - m] = p[i]
    <3>1. i - m \in 1..(n - m) /\ m + (i - m) = i
      BY <1>1, <2>1
    <3> QED BY <1>2, <3>1
  <2> QED BY <1>1, <1>2, <1>3, <2>1
<1>5. x \o y = p
  BY <1>3, <1>4, SameSeq DEF n
<1> QED BY <1>2, <1>5 DEF x, y, n

\* The first payloads are the first bytes.
LEMMA BytesOfFirst ==
  ASSUME NEW p \in Seq(Packets), NEW m \in 0..Len(p)
  PROVE  IsPrefix(Bytes(SubSeq(p, 1, m)), Bytes(p))
<1> DEFINE x == SubSeq(p, 1, m)
           y == SubSeq(p, m + 1, Len(p))
<1>1. x \in Seq(Packets) /\ y \in Seq(Packets) /\ p = x \o y
  BY Cut
<1> HIDE DEF x, y
<1> DEFINE a == Bytes(x)
           b == Bytes(y)
<1>2. Bytes(p) = a \o b
  BY <1>1, BytesJoin
<1>3. a \in Seq(Place) /\ b \in Seq(Place)
  BY <1>1, BytesOf
<1> HIDE DEF a, b
<1>4. IsPrefix(a, a \o b)
  BY <1>3 DEF IsPrefix
<1> QED BY <1>2, <1>4 DEF a, x

\* The pieces of the n bytes of tile t.
AsPieces(p, t, n, max) ==
  /\ Len(p) = Len(Pieces(n, max))
  /\ \A k \in 1..Len(p) : /\ p[k].tile = t
                          /\ p[k].first = Pieces(n, max)[k].first
                          /\ p[k].size = Pieces(n, max)[k].size

\* Payloads that are the pieces of one text or tile have its bytes.
LEMMA BytesOfPieces ==
  ASSUME NEW n \in Nat, NEW max \in Nat \ {0}, NEW t \in Int, NEW p \in Seq(Packets),
         AsPieces(p, t, n, max)
  PROVE  Bytes(p) = [b \in 1..n |-> <<t, b>>]
<1> DEFINE q == (n + max - 1) \div max
           g == [b \in 1..n |-> <<t, b>>]
           s == [k \in 1..Len(p) |-> Piece(p[k])]
           e == [k \in 0..q |-> Least(n, k * max)]
<1>1. /\ q \in Nat /\ Len(p) = q /\ n <= q * max
      /\ \A k \in 1..q :
           /\ p[k].tile = t
           /\ p[k].size \in 1..max /\ p[k].first \in Nat /\ p[k].first = (k - 1) * max
           /\ p[k].first + p[k].size = Least(n, k * max) /\ p[k].first < n
  <2> DEFINE ps == Pieces(n, max)
  <2>1. /\ q \in Nat /\ n <= q * max /\ ps \in Seq([first : Nat, size : 1..max]) /\ Len(ps) = q
        /\ \A k \in 1..q :
             /\ ps[k].first = (k - 1) * max
             /\ ps[k].first + ps[k].size = Least(n, k * max)
             /\ ps[k].first < n
    BY PiecesOf
  <2> DEFINE R == [first : Nat, size : 1..max]
  <2> HIDE DEF ps, q
  <2>2. \A k \in 1..q : ps[k] \in R
    <3>1. ps \in Seq(R) /\ Len(ps) = q
      BY <2>1
    <3> HIDE DEF R
    <3> QED BY <3>1
  <2>3. Len(p) = q
    BY <2>1 DEF ps, AsPieces
  <2>4. \A k \in 1..q : p[k].tile = t /\ p[k].first = ps[k].first /\ p[k].size = ps[k].size
    BY <2>3 DEF ps, AsPieces
  <2> QED BY <2>1, <2>2, <2>3, <2>4
<1>2. s \in Seq(Seq(Place)) /\ Len(s) = q /\ Bytes(p) = FlattenSeq(s)
  BY <1>1, BytesOf
<1> HIDE DEF q
<1>3. \A k \in 0..q : k * max \in Nat
  BY <1>1
<1>4. e \in [0..q -> 0..n] /\ e[0] = 0 /\ e[q] = n
  <2>1. 0 * max = 0 /\ 0 \in 0..q /\ q \in 0..q
    BY <1>1
  <2>2. Least(n, 0 * max) = 0
    BY <2>1 DEF Least
  <2>3. Least(n, q * max) = n
    BY <1>1 DEF Least
  <2>4. ASSUME NEW k \in 0..q PROVE Least(n, k * max) \in 0..n
    BY <1>3 DEF Least
  <2> QED BY <2>1, <2>2, <2>3, <2>4
<1>5. g \in [1..n -> Place]
  BY DEF Place
<1>6. ASSUME NEW k \in 1..q
      PROVE  /\ e[k - 1] <= e[k] /\ Len(s[k]) = e[k] - e[k - 1]
             /\ \A b \in 1..(e[k] - e[k - 1]) : s[k][b] = g[e[k - 1] + b]
  <2> DEFINE f == p[k].first
             z == p[k].size
             l == Least(n, k * max)
  <2>1. k \in 0..q /\ k - 1 \in 0..q
    BY <1>1
  <2>2. f \in Nat /\ z \in 1..max /\ f + z = l /\ f < n /\ f = (k - 1) * max
    BY <1>1
  <2>3. e[k] = l /\ e[k - 1] = f
    <3>1. Least(n, (k - 1) * max) = f
      BY <2>2 DEF Least
    <3> QED BY <2>1, <3>1
  <2>4. Len(s[k]) = z /\ \A b \in 1..z : s[k][b] = <<t, f + b>>
    <3> DEFINE x == [b \in 1..z |-> <<t, f + b>>]
    <3>1. s[k] = x
      BY <1>1 DEF Piece
    <3>2. x \in [1..z -> Place] /\ z \in Nat
      <4> HIDE DEF z, f
      <4> QED BY <2>2 DEF Place
    <3>3. \A b \in 1..z : x[b] = <<t, f + b>>
      OBVIOUS
    <3> HIDE DEF x, z, s
    <3> QED BY <3>1, <3>2, <3>3, IsSeq
  <2>5. l \in 0..n
    BY <1>3, <2>1 DEF Least
  <2> HIDE DEF e, s, f, z, l
  <2>6. l - f = z /\ f <= l
    BY <2>2, <2>5
  <2>7. \A b \in 1..z : g[f + b] = <<t, f + b>>
    <3>1. \A b \in 1..z : f + b \in 1..n
      BY <2>2, <2>5
    <3> QED BY <3>1
  <2> HIDE DEF g
  <2> QED BY <2>3, <2>4, <2>6, <2>7
<1> HIDE DEF e, s, g
<1>7. FlattenSeq(s) = g
  <2>1. /\ e \in [0..Len(s) -> 0..n] /\ e[Len(s)] = n
        /\ \A k \in 1..Len(s) :
             /\ e[k - 1] <= e[k] /\ Len(s[k]) = e[k] - e[k - 1]
             /\ \A b \in 1..(e[k] - e[k - 1]) : s[k][b] = g[e[k - 1] + b]
    BY <1>2, <1>4, <1>6, Zenon
  <2>2. Ends(s, g, n, e)
    BY <1>4, <2>1 DEF Ends
  <2> QED BY <1>2, <1>5, <2>2, Contiguous
<1> QED BY <1>2, <1>7 DEF g

-----------------------------------------------------------------------------
(* Images and texts as payloads *)

\* A fragment of a tile tells its place.
TilePackets ==
  {p \in Packets : /\ p.tile > 0 /\ p.header = PACKET_HEADER_SIZE
                   /\ p.size \in 1..MAX_PAYLOAD_PER_PACKET
                   /\ p.first = p.frag * MAX_PAYLOAD_PER_PACKET}
TextPackets == {p \in Packets : p.tile = 0 /\ p.header = 0 /\ p.size \in 1..DH_MAX_PAYLOAD_SIZE}

TextSize(text) == IF text.bom THEN text.size - BOM ELSE text.size
OfText(text) ==
  LET pieces == Pieces(TextSize(text), DH_MAX_PAYLOAD_SIZE) IN
  [k \in DOMAIN pieces |->
     [tile |-> 0, frag |-> 0, header |-> 0, first |-> pieces[k].first, size |-> pieces[k].size]]

LEMMA SeqOfMore ==
  ASSUME NEW T, NEW S, S \subseteq T, NEW s \in Seq(S)
  PROVE  s \in Seq(T)
OBVIOUS

\* The fragments of a tile tell their places and have its bytes.
LEMMA OneTile ==
  ASSUME RadioFileAssumption, NEW t \in Nat \ {0},
         NEW n \in 1..FragRange * MAX_PAYLOAD_PER_PACKET
  PROVE  /\ packetize_tile(t, n) \in Seq(TilePackets)
         /\ Bytes(packetize_tile(t, n)) = [b \in 1..n |-> <<t, b>>]
<1> DEFINE max == MAX_PAYLOAD_PER_PACKET
           q == (n + max - 1) \div max
           ps == Pieces(n, max)
           p == packetize_tile(t, n)
<1>1. max \in Nat \ {0} /\ FragRange \in Nat \ {0} /\ n \in Nat
  BY DEF RadioFileAssumption
<1>2. /\ q \in Nat /\ ps \in Seq([first : Nat, size : 1..max]) /\ Len(ps) = q
      /\ \A k \in 1..q : /\ ps[k].first = (k - 1) * max
                         /\ ps[k].first < n
  BY <1>1, PiecesOf
<1>3. p = [k \in 1..q |->
             [tile |-> t, frag |-> (k - 1) % FragRange, header |-> PACKET_HEADER_SIZE,
              first |-> ps[k].first, size |-> ps[k].size]]
  BY <1>2 DEF packetize_tile
<1> HIDE DEF q, ps, p
<1>4. ASSUME NEW k \in 1..q
      PROVE  /\ p[k] \in TilePackets
             /\ p[k].tile = t /\ p[k].first = ps[k].first /\ p[k].size = ps[k].size
  <2> DEFINE R == [first : Nat, size : 1..max]
             f == ps[k].first
             z == ps[k].size
  <2>1. f \in Nat /\ z \in 1..max /\ z \in Nat
    <3>1. ps \in Seq(R) /\ k \in 1..Len(ps)
      BY <1>2
    <3> HIDE DEF R
    <3>2. ps[k] \in R
      BY <3>1
    <3> QED BY <1>1, <3>2 DEF R
  <2>2. k - 1 \in Nat /\ k - 1 < FragRange
    <3>1. k - 1 \in Nat
      BY <1>2
    <3>2. ~(FragRange <= k - 1)
      <4> SUFFICES ASSUME FragRange <= k - 1 PROVE FALSE
        OBVIOUS
      <4> DEFINE x == FragRange * max
                 y == (k - 1) * max
      <4>1. x <= y /\ x \in Nat
        BY <1>1, <3>1, Product
      <4>2. y < n
        <5>1. ps[k].first = y /\ ps[k].first < n
          BY <1>2
        <5> HIDE DEF y
        <5> QED BY <5>1
      <4>4. n <= x
        OBVIOUS
      <4>3. y \in Nat
        BY <1>1, <3>1
      <4> HIDE DEF x, y
      <4> QED BY <1>1, <4>1, <4>2, <4>3, <4>4
    <3> QED BY <1>1, <3>1, <3>2
  <2>3. (k - 1) % FragRange = k - 1
    BY <1>1, <2>2
  <2>4. p[k] = [tile |-> t, frag |-> k - 1, header |-> PACKET_HEADER_SIZE, first |-> f,
          size |-> z]
    BY <1>3, <2>3
  <2>5. f = (k - 1) * max
    BY <1>2
  <2> HIDE DEF f, z
  <2>6. k - 1 \in 0..FragRange - 1
    BY <1>1, <2>2
  <2> DEFINE j == k - 1
  <2> HIDE DEF j
  <2>7. /\ p[k] \in Packets /\ p[k].tile = t /\ p[k].first = f /\ p[k].size = z /\ p[k].frag = j
        /\ p[k].header = PACKET_HEADER_SIZE
    BY <2>1, <2>4, <2>6 DEF Packets, j
  <2>8. f = j * max
    BY <2>5 DEF j
  <2> QED BY <2>1, <2>7, <2>8 DEF TilePackets, f, z
<1>5. p \in Seq(TilePackets) /\ Len(p) = q
  <2>1. p \in [1..q -> TilePackets]
    <3>1. p = [k \in 1..q |-> p[k]]
      BY <1>3
    <3> QED BY <1>4, <3>1
  <2> QED BY <1>2, <2>1, IsSeq
<1>6. p \in Seq(Packets)
  BY <1>5, SeqOfMore DEF TilePackets
<1>7. Bytes(p) = [b \in 1..n |-> <<t, b>>]
  <2>1. AsPieces(p, t, n, max)
    BY <1>2, <1>4, <1>5 DEF ps, AsPieces
  <2> QED BY <1>1, <1>6, <2>1, BytesOfPieces
<1> QED BY <1>5, <1>7 DEF p

\* The payloads of a text have the bytes behind its byte order mark.
LEMMA OneText ==
  ASSUME RadioFileAssumption, NEW text \in Texts
  PROVE  /\ TextSize(text) \in Nat /\ OfText(text) \in Seq(TextPackets)
         /\ Bytes(OfText(text)) = [b \in 1..TextSize(text) |-> <<0, b>>]
<1> DEFINE max == DH_MAX_PAYLOAD_SIZE
           n == TextSize(text)
           q == (n + max - 1) \div max
           ps == Pieces(n, max)
           p == OfText(text)
<1>1. max \in Nat \ {0} /\ FragRange \in Nat \ {0} /\ n \in Nat
  BY DEF RadioFileAssumption, TextSize, BOM
<1>2. q \in Nat /\ ps \in Seq([first : Nat, size : 1..max]) /\ Len(ps) = q
  <2> HIDE DEF n
  <2> QED BY <1>1, PiecesOf
<1>3. p = [k \in 1..q |->
             [tile |-> 0, frag |-> 0, header |-> 0, first |-> ps[k].first, size |-> ps[k].size]]
  BY <1>2 DEF OfText
<1> HIDE DEF n, q, ps, p
<1>4. ASSUME NEW k \in 1..q
      PROVE  /\ p[k] \in TextPackets
             /\ p[k].tile = 0 /\ p[k].first = ps[k].first /\ p[k].size = ps[k].size
  <2> DEFINE R == [first : Nat, size : 1..max]
             f == ps[k].first
             z == ps[k].size
  <2>1. f \in Nat /\ z \in 1..max /\ z \in Nat
    <3>1. ps \in Seq(R) /\ k \in 1..Len(ps)
      BY <1>2
    <3> HIDE DEF R
    <3>2. ps[k] \in R
      BY <3>1
    <3> QED BY <1>1, <3>2 DEF R
  <2>2. p[k] = [tile |-> 0, frag |-> 0, header |-> 0, first |-> f, size |-> z]
    BY <1>3
  <2> HIDE DEF f, z
  <2>3. p[k] \in Packets /\ p[k].tile = 0 /\ p[k].first = f /\ p[k].size = z /\ p[k].header = 0
    BY <1>1, <2>1, <2>2 DEF Packets
  <2> QED BY <2>1, <2>3 DEF TextPackets, f, z
<1>5. p \in Seq(TextPackets) /\ Len(p) = q
  <2>1. p \in [1..q -> TextPackets]
    <3>1. p = [k \in 1..q |-> p[k]]
      BY <1>3
    <3> QED BY <1>4, <3>1
  <2> QED BY <1>2, <2>1, IsSeq
<1>6. p \in Seq(Packets)
  BY <1>5, SeqOfMore DEF TextPackets
<1>7. Bytes(p) = [b \in 1..n |-> <<0, b>>]
  <2>1. AsPieces(p, 0, n, max)
    BY <1>2, <1>4, <1>5 DEF ps, AsPieces
  <2> QED BY <1>1, <1>6, <2>1, BytesOfPieces
<1> QED BY <1>1, <1>5, <1>7 DEF p, n

\* The tiles of an image, one after another.
OfImage(image) == FlattenSeq([t \in DOMAIN image |-> [b \in 1..image[t] |-> <<t, b>>]])

\* The fragments of an image have the bytes of its tiles.
LEMMA OneImage ==
  ASSUME RadioFileAssumption, NEW image \in Images
  PROVE  /\ packetize_tiles(image) \in Seq(TilePackets)
         /\ Bytes(packetize_tiles(image)) = OfImage(image)
<1> DEFINE m == Len(image)
           ss == [t \in 1..m |-> packetize_tile(t, image[t])]
           orig == [t \in 1..m |-> [b \in 1..image[t] |-> <<t, b>>]]
           ps == packetize_tiles(image)
<1>1. /\ m \in Nat /\ DOMAIN image = 1..m
      /\ \A t \in 1..m : image[t] \in 1..FragRange * MAX_PAYLOAD_PER_PACKET
  BY DEF RadioFileAssumption
<1>2. ps = FlattenSeq(ss) /\ OfImage(image) = FlattenSeq(orig)
  BY <1>1 DEF packetize_tiles, OfImage
<1> HIDE DEF m, ps
<1>3. ASSUME NEW t \in 1..m
      PROVE  ss[t] \in Seq(TilePackets) /\ Bytes(ss[t]) = orig[t]
  <2>1. t \in Nat \ {0}
    BY <1>1
  <2> QED BY <1>1, <2>1, OneTile
<1>4. ss \in Seq(Seq(TilePackets)) /\ Len(ss) = m
  <2>1. ss \in [1..m -> Seq(TilePackets)]
    BY <1>3
  <2> HIDE DEF ss
  <2> QED BY <1>1, <2>1, IsSeq
<1>5. PICK G \in [0..m -> Seq(TilePackets)] :
        /\ G[0] = <<>> /\ G[m] = ps
        /\ \A i \in 1..m : G[i] = G[i - 1] \o ss[i]
  <2> HIDE DEF ss
  <2>1. \E G \in [0..Len(ss) -> Seq(TilePackets)] :
          /\ G[0] = <<>> /\ G[Len(ss)] = FlattenSeq(ss)
          /\ \A i \in 1..Len(ss) : G[i] = G[i - 1] \o ss[i]
    BY <1>4, Flattened
  <2> QED BY <1>2, <1>4, <2>1, Zenon
<1>6. ps \in Seq(TilePackets)
  <2> HIDE DEF ss
  <2> QED BY <1>2, <1>4, Flattened
<1> HIDE DEF ss, orig
<1> DEFINE H == [i \in 0..m |-> Bytes(G[i])]
<1>7. \A i \in 0..m : G[i] \in Seq(Packets)
  BY <1>5, SeqOfMore DEF TilePackets
<1>8. \A i \in 1..m : ss[i] \in Seq(Packets)
  BY <1>3, SeqOfMore DEF TilePackets
<1>9. H \in [0..m -> Seq(Place)]
  BY <1>7, BytesOf
<1>10. H[0] = <<>> /\ H[m] = Bytes(ps)
  <2>1. Bytes(<<>>) = <<>>
    BY DEF Bytes, FlattenSeq
  <2> QED BY <1>1, <1>5, <2>1
<1>11. ASSUME NEW i \in 1..m PROVE H[i] = H[i - 1] \o orig[i]
  <2>1. i \in 0..m /\ i - 1 \in 0..m
    BY <1>1
  <2>2. G[i] = G[i - 1] \o ss[i]
    BY <1>5
  <2>3. Bytes(G[i]) = Bytes(G[i - 1]) \o Bytes(ss[i])
    BY <1>7, <1>8, <2>1, <2>2, BytesJoin
  <2> QED BY <1>3, <2>1, <2>3
<1>12. orig \in Seq(Seq(Place)) /\ Len(orig) = m
  <2>1. \A t \in 1..m : orig[t] \in Seq(Place)
    BY <1>3, <1>8, BytesOf
  <2>2. orig \in [1..m -> Seq(Place)]
    <3>1. orig = [t \in 1..m |-> orig[t]]
      BY DEF orig
    <3> QED BY <2>1, <3>1
  <2> QED BY <1>1, <2>2, IsSeq
<1> HIDE DEF H
<1>13. FlattenSeq(orig) = H[m]
  BY <1>9, <1>10, <1>11, <1>12, FlattenIs
<1> QED BY <1>2, <1>6, <1>10, <1>13 DEF ps

-----------------------------------------------------------------------------
(* The invariant *)

EncoderOK ==
  /\ encoder \in [image : Images \cup {None}, tiles_ : Seq(Nat), packets_ : Seq(Packets)]
  /\ loaded \in BOOLEAN
  /\ loaded => encoder.image \in Images /\ encoder.packets_ = packetize_tiles(encoder.image)

\* A file is cut from the payloads of what it was written for.
BinOK ==
  /\ bin \in [image : Images \cup {None}, text : Texts \cup {NoText}, size : Nat \cup {-1},
              payloads : Seq(Packets)]
  /\ bin.size <= FileSize(Len(bin.payloads))
  /\ \/ bin.image \in Images /\ bin.text = NoText /\ bin.payloads = packetize_tiles(bin.image)
     \/ bin.image = None /\ bin.text \in Texts /\ bin.payloads = OfText(bin.text)
     \/ bin.image = None /\ bin.text = NoText /\ bin.payloads = <<>>

\* What was read is what the file has now.
OutOK ==
  /\ out \in [ok : BOOLEAN, payloads : Seq(Packets)]
  /\ out.ok => /\ ReadFixedPacketFile(bin).ok
               /\ out.payloads = ReadFixedPacketFile(bin).payloads
               /\ bin.image = None => bin.text # NoText
               /\ bin.image # None =>
                    \A k \in DOMAIN out.payloads : Length(out.payloads[k]) >= PACKET_HEADER_SIZE

RadioInv == EncoderOK /\ BinOK /\ OutOK

LEMMA Sizes ==
  ASSUME RadioFileAssumption
  PROVE  /\ DH_FILE_HEADER_SIZE \in Nat \ {0} /\ DH_FIXED_PACKET_SIZE \in Nat \ {0}
         /\ PACKET_HEADER_SIZE \in Nat \ {0} /\ MAX_PAYLOAD_PER_PACKET \in Nat \ {0}
         /\ DH_MAX_PAYLOAD_SIZE \in Nat \ {0} /\ FragRange \in Nat \ {0}
         /\ \A n \in Nat : FileSize(n) \in Nat \ {0}
<1>1. /\ DH_FILE_HEADER_SIZE \in Nat \ {0} /\ DH_FIXED_PACKET_SIZE \in Nat \ {0}
      /\ PACKET_HEADER_SIZE \in Nat \ {0} /\ MAX_PAYLOAD_PER_PACKET \in Nat \ {0}
      /\ DH_MAX_PAYLOAD_SIZE \in Nat \ {0} /\ FragRange \in Nat \ {0}
  BY DEF RadioFileAssumption, DH_FIXED_PACKET_SIZE
<1>2. \A n \in Nat : n * DH_FIXED_PACKET_SIZE \in Nat
  BY <1>1
<1> QED BY <1>1, <1>2 DEF FileSize

LEMMA LengthOf ==
  ASSUME RadioFileAssumption, NEW p \in Seq(Packets), NEW k \in 1..Len(p)
  PROVE  Length(p[k]) \in Nat
<1>1. p[k] \in Packets
  OBVIOUS
<1>2. p[k].header \in {0, PACKET_HEADER_SIZE} /\ p[k].size \in Nat
  BY <1>1 DEF Packets
<1> DEFINE h == p[k].header
           z == p[k].size
<1>3. Length(p[k]) = h + z
  BY DEF Length
<1>4. h \in {0, PACKET_HEADER_SIZE} /\ z \in Nat
  BY <1>2
<1> HIDE DEF h, z
<1>5. h + z \in Nat
  BY <1>4, Sizes
<1> QED BY <1>3, <1>5

LEMMA ImageSizes ==
  ASSUME RadioFileAssumption, NEW image \in Images
  PROVE  image \in Seq(Nat)
<1>1. image \in Seq(1..FragRange * MAX_PAYLOAD_PER_PACKET)
  BY DEF RadioFileAssumption
<1> DEFINE m == FragRange * MAX_PAYLOAD_PER_PACKET
<1>2. m \in Nat
  BY Sizes, Product
<1> HIDE DEF m
<1>3. 1..m \subseteq Nat
  BY <1>2
<1> QED BY <1>1, <1>3, SeqOfMore DEF m

LEMMA RadioInitInv == RadioFileAssumption /\ Init => RadioInv
<1> SUFFICES ASSUME RadioFileAssumption, Init PROVE RadioInv
  OBVIOUS
<1>1. FileSize(0) \in Nat
  BY Sizes
<1>2. <<>> \in Seq(Packets) /\ Len(<<>>) = 0 /\ <<>> \in Seq(Nat)
  OBVIOUS
<1>3. EncoderOK
  BY <1>2 DEF Init, EncoderOK, None
<1>4. BinOK
  BY <1>1, <1>2 DEF Init, BinOK, None
<1>5. OutOK
  BY <1>2 DEF Init, OutOK, Unread, None
<1> QED BY <1>3, <1>4, <1>5 DEF RadioInv

\* Payloads that are not too large are all written.
LEMMA AllWritten ==
  ASSUME NEW image, NEW text, NEW p \in Seq(Packets), WriteFixedPacketFile(image, text, p),
         RadioFileAssumption, \A k \in 1..Len(p) : Length(p[k]) <= DH_MAX_PAYLOAD_SIZE
  PROVE  /\ \E size \in 0..FileSize(Len(p)) :
              bin' = [image |-> image, text |-> text, size |-> size, payloads |-> p]
         /\ out' = Unread
<1> DEFINE large == SelectInSeq(p, LAMBDA r : Length(r) > DH_MAX_PAYLOAD_SIZE)
<1>1. large = 0
  <2>1. \A k \in 1..Len(p) : ~(Length(p[k]) > DH_MAX_PAYLOAD_SIZE)
    <3>1. ASSUME NEW k \in 1..Len(p) PROVE ~(Length(p[k]) > DH_MAX_PAYLOAD_SIZE)
      <4>1. Length(p[k]) \in Nat
        BY LengthOf
      <4>2. DH_MAX_PAYLOAD_SIZE \in Nat
        BY Sizes
      <4> QED BY <4>1, <4>2
    <3> QED BY <3>1
  <2>2. {k \in 1..Len(p) : Length(p[k]) > DH_MAX_PAYLOAD_SIZE} = {}
    BY <2>1, Zenon
  <2> QED BY <2>2, Zenon DEF SelectInSeq
<1>2. (IF large = 0 THEN p ELSE SubSeq(p, 1, large - 1)) = p
  BY <1>1
<1> QED BY <1>2, Zenon DEF WriteFixedPacketFile

\* A file that was just written, of an image or a text.
LEMMA WrittenInv ==
  ASSUME RadioFileAssumption, RadioInv, UNCHANGED <<encoder, loaded>>,
         NEW image \in Images \cup {None}, NEW text \in Texts \cup {NoText},
         NEW p \in Seq(Packets), WriteFixedPacketFile(image, text, p),
         \A k \in 1..Len(p) : Length(p[k]) <= DH_MAX_PAYLOAD_SIZE,
         \/ image \in Images /\ text = NoText /\ p = packetize_tiles(image)
         \/ image = None /\ text \in Texts /\ p = OfText(text)
  PROVE  RadioInv'
<1>1. PICK size \in 0..FileSize(Len(p)) :
        /\ bin' = [image |-> image, text |-> text, size |-> size, payloads |-> p]
        /\ out' = Unread
  BY AllWritten
<1>2. FileSize(Len(p)) \in Nat
  <2>1. Len(p) \in Nat
    OBVIOUS
  <2> QED BY <2>1, Sizes
<1>3. size \in Nat /\ size <= FileSize(Len(p))
  BY <1>2
<1>4. BinOK'
  BY <1>1, <1>3 DEF BinOK, FileSize
<1>5. OutOK'
  <2>1. <<>> \in Seq(Packets)
    OBVIOUS
  <2>2. out'.ok = FALSE /\ out' \in [ok : BOOLEAN, payloads : Seq(Packets)]
    BY <1>1, <2>1 DEF Unread, None
  <2> QED BY <2>2 DEF OutOK
<1>6. EncoderOK'
  BY DEF RadioInv, EncoderOK
<1> QED BY <1>4, <1>5, <1>6 DEF RadioInv

LEMMA ImageUnreadInv ==
  ASSUME RadioInv, ImageUnread
  PROVE  RadioInv'
BY DEF RadioInv, ImageUnread, EncoderOK, BinOK, OutOK

LEMMA load_imageInv ==
  ASSUME RadioFileAssumption, RadioInv, NEW image \in Images, load_image(image)
  PROVE  RadioInv'
<1>1. packetize_tiles(image) \in Seq(Packets)
  BY OneImage, SeqOfMore DEF TilePackets
<1>2. image \in Seq(Nat)
  BY ImageSizes
<1>3. EncoderOK'
  BY <1>1, <1>2 DEF load_image, EncoderOK
<1> QED BY <1>3 DEF RadioInv, load_image, BinOK, OutOK

LEMMA TileFailsInv ==
  ASSUME RadioFileAssumption, RadioInv, NEW image \in Images, TileFails(image)
  PROVE  RadioInv'
<1>1. PICK n \in 0..Len(image) - 1 : encoder' = [encoder EXCEPT !.tiles_ = SubSeq(image, 1, n)]
  BY DEF TileFails
<1>2. SubSeq(image, 1, n) \in Seq(Nat)
  <2>1. image \in Seq(Nat)
    BY ImageSizes
  <2>2. n \in 0..Len(image)
    OBVIOUS
  <2> QED BY <2>1, <2>2, Cut
<1>3. EncoderOK'
  BY <1>1, <1>2 DEF TileFails, RadioInv, EncoderOK
<1> QED BY <1>3 DEF RadioInv, TileFails, BinOK, OutOK

LEMMA write_radio_fileInv ==
  ASSUME RadioFileAssumption, RadioInv, write_radio_file
  PROVE  RadioInv'
<1>1. encoder.image \in Images /\ encoder.packets_ = packetize_tiles(encoder.image)
  BY DEF RadioInv, EncoderOK, write_radio_file
<1> DEFINE p == encoder.packets_
<1>2. p \in Seq(TilePackets)
  BY <1>1, OneImage
<1>3. ASSUME NEW k \in 1..Len(p) PROVE Length(p[k]) <= DH_MAX_PAYLOAD_SIZE
  <2>1. p[k] \in TilePackets
    BY <1>2
  <2>2. PACKET_HEADER_SIZE + MAX_PAYLOAD_PER_PACKET = DH_MAX_PAYLOAD_SIZE
    BY DEF RadioFileAssumption
  <2> HIDE DEF p
  <2>3. p[k].header = PACKET_HEADER_SIZE /\ p[k].size \in 1..MAX_PAYLOAD_PER_PACKET
    BY <2>1 DEF TilePackets
  <2> DEFINE z == p[k].size
  <2>4. Length(p[k]) = PACKET_HEADER_SIZE + z
    BY <2>3 DEF Length
  <2>5. z \in 1..MAX_PAYLOAD_PER_PACKET
    BY <2>3
  <2> HIDE DEF z
  <2>6. PACKET_HEADER_SIZE + z <= DH_MAX_PAYLOAD_SIZE
    BY <2>2, <2>5, Sizes
  <2> QED BY <2>4, <2>6
<1>4. p \in Seq(Packets)
  BY <1>2, SeqOfMore DEF TilePackets
<1> QED BY <1>1, <1>3, <1>4, WrittenInv DEF write_radio_file

LEMMA PacketizeJsonFileInv ==
  ASSUME RadioFileAssumption, RadioInv, NEW text \in Texts, PacketizeJsonFile(text)
  PROVE  RadioInv'
<1> DEFINE p == OfText(text)
<1>1. p \in Seq(TextPackets)
  BY OneText
<1>2. WriteFixedPacketFile(None, text, p)
  BY DEF PacketizeJsonFile, OfText, TextSize
<1> HIDE DEF p
<1>3. ASSUME NEW k \in 1..Len(p) PROVE Length(p[k]) <= DH_MAX_PAYLOAD_SIZE
  <2>1. p[k] \in TextPackets
    BY <1>1
  <2>2. p[k].header = 0 /\ p[k].size \in 1..DH_MAX_PAYLOAD_SIZE
    BY <2>1 DEF TextPackets
  <2> DEFINE z == p[k].size
  <2>3. Length(p[k]) = 0 + z
    BY <2>2 DEF Length
  <2>4. z \in 1..DH_MAX_PAYLOAD_SIZE
    BY <2>2
  <2> HIDE DEF z
  <2>5. 0 + z <= DH_MAX_PAYLOAD_SIZE
    BY <2>4, Sizes
  <2> QED BY <2>3, <2>5
<1>4. p \in Seq(Packets)
  BY <1>1, SeqOfMore DEF TextPackets
<1>5. UNCHANGED <<encoder, loaded>>
  BY DEF PacketizeJsonFile
<1> QED BY <1>2, <1>3, <1>4, <1>5, WrittenInv DEF p

LEMMA PowerFailsInv ==
  ASSUME RadioFileAssumption, RadioInv, PowerFails
  PROVE  RadioInv'
<1>1. PICK size \in 0..bin.size : bin' = [bin EXCEPT !.size = size]
  BY DEF PowerFails
<1>2. <<>> \in Seq(Packets) /\ <<>> \in Seq(Nat)
  OBVIOUS
<1>3. EncoderOK'
  BY <1>2 DEF PowerFails, EncoderOK, None
<1>4. OutOK'
  <2>1. out'.ok = FALSE /\ out' \in [ok : BOOLEAN, payloads : Seq(Packets)]
    BY <1>2 DEF PowerFails, Unread, None
  <2> QED BY <2>1 DEF OutOK
<1>5. BinOK'
  <2>1. bin.size \in Int /\ bin.size <= FileSize(Len(bin.payloads))
    BY DEF RadioInv, BinOK
  <2>2. FileSize(Len(bin.payloads)) \in Nat
    <3>1. Len(bin.payloads) \in Nat
      BY DEF RadioInv, BinOK
    <3> QED BY <3>1, Sizes
  <2>3. size \in Nat /\ size <= FileSize(Len(bin.payloads))
    BY <2>1, <2>2
  <2> QED BY <1>1, <2>3 DEF RadioInv, BinOK, FileSize
<1> QED BY <1>3, <1>4, <1>5 DEF RadioInv

-----------------------------------------------------------------------------
(* Reading *)

\* The whole records of b bytes, of w each, and the one that may be cut.
LEMMA Records ==
  ASSUME NEW n \in Nat, NEW w \in Nat \ {0}, NEW b \in Nat, b <= n * w
  PROVE  /\ b % w \in 0..w - 1
         /\ (IF b % w > 0 THEN (b \div w) + 1 ELSE b \div w) \in 0..n
         /\ b = n * w => b % w = 0 /\ b \div w = n
<1> DEFINE q == b \div w
           r == b % w
<1>1. q \in Nat
  OBVIOUS
<1>2. b = (q * w) + r /\ r \in 0..w - 1
  OBVIOUS
<1> HIDE DEF q, r
<1>3. ASSUME q > n PROVE FALSE
  <2> DEFINE x == q * w
             y == (n + 1) * w
             z == n * w
  <2>1. y <= x /\ y = z + w /\ z \in Nat /\ x \in Nat
    BY <1>1, <1>3, Product
  <2>2. x <= b /\ b <= z
    <3> DEFINE u == q * w
    <3>1. u \in Nat
      BY <1>1
    <3> HIDE DEF u
    <3> QED BY <1>2, <3>1 DEF u
  <2> HIDE DEF x, y, z
  <2> QED BY <2>1, <2>2
<1>4. ASSUME q = n PROVE r = 0
  <2> DEFINE z == n * w
  <2>1. b <= z /\ b = z + r /\ z \in Nat
    BY <1>2, <1>4
  <2> HIDE DEF z
  <2> QED BY <1>2, <2>1
<1>5. ASSUME b = n * w PROVE q = n
  <2> SUFFICES ASSUME q < n PROVE FALSE
    BY <1>1, <1>3
  <2> DEFINE x == q * w
             y == (q + 1) * w
             z == n * w
  <2>1. y <= z /\ y = x + w /\ z \in Nat /\ x \in Nat
    BY <1>1, Product
  <2>2. b = z /\ b = x + r
    BY <1>2, <1>5
  <2> HIDE DEF x, y, z
  <2> QED BY <1>2, <2>1, <2>2
<1>6. (IF r > 0 THEN q + 1 ELSE q) \in 0..n
  BY <1>1, <1>2, <1>3, <1>4
<1>7. b = n * w => r = 0 /\ q = n
  BY <1>4, <1>5
<1> QED BY <1>2, <1>6, <1>7 DEF q, r

\* A file with the magic number is read as the payloads of its first records.
LEMMA FirstRecords ==
  ASSUME RadioFileAssumption, RadioInv, bin.size >= DH_FILE_HEADER_SIZE
  PROVE  \E m \in 0..Len(bin.payloads) :
           /\ ReadFixedPacketFile(bin).payloads = SubSeq(bin.payloads, 1, m)
           /\ bin.size = FileSize(Len(bin.payloads)) => m = Len(bin.payloads)
<1> DEFINE n == Len(bin.payloads)
           w == DH_FIXED_PACKET_SIZE
           b == bin.size - DH_FILE_HEADER_SIZE
           m == IF b % w > 0 THEN (b \div w) + 1 ELSE b \div w
<1>1. /\ n \in Nat /\ bin.size \in Int /\ bin.size <= FileSize(n)
      /\ w \in Nat \ {0} /\ DH_FILE_HEADER_SIZE \in Nat
  <2>1. n \in Nat /\ bin.size \in Int /\ bin.size <= FileSize(n)
    BY DEF RadioInv, BinOK
  <2> HIDE DEF n, w
  <2> QED BY <2>1, Sizes DEF w
<1>2. n * w \in Nat /\ FileSize(n) = DH_FILE_HEADER_SIZE + n * w
  BY <1>1 DEF FileSize
<1>3. b \in Nat /\ b <= n * w /\ (bin.size = FileSize(n) => b = n * w)
  <2> DEFINE z == n * w
  <2>1. z \in Nat /\ FileSize(n) = DH_FILE_HEADER_SIZE + z
    BY <1>2
  <2> HIDE DEF z, n
  <2>2. b \in Nat /\ b <= z /\ (bin.size = FileSize(n) => b = z)
    BY <1>1, <2>1
  <2> QED BY <2>2 DEF z
<1>4. ReadFixedPacketFile(bin).payloads = SubSeq(bin.payloads, 1, m)
  <2>1. ~(bin.size < DH_FILE_HEADER_SIZE)
    BY <1>1
  <2> QED BY <2>1 DEF ReadFixedPacketFile
<1> HIDE DEF n, w, b
<1>5. m \in 0..n /\ (b = n * w => m = n)
  <2>1. /\ m \in 0..n
        /\ b = n * w => b % w = 0 /\ b \div w = n
    BY <1>1, <1>3, Records
  <2> QED BY <1>1, <2>1
<1> HIDE DEF m
<1> QED BY <1>3, <1>4, <1>5 DEF n

LEMMA ReadTypes ==
  ASSUME RadioFileAssumption, RadioInv
  PROVE  ReadFixedPacketFile(bin).ok \in BOOLEAN
         /\ ReadFixedPacketFile(bin).payloads \in Seq(Packets)
<1>1. bin.size \in Int /\ bin.payloads \in Seq(Packets) /\ DH_FILE_HEADER_SIZE \in Nat
  BY Sizes DEF RadioInv, BinOK
<1>2. CASE bin.size < DH_FILE_HEADER_SIZE
  <2> DEFINE ok == bin.size >= 0
             ps == IF bin.size > 0 THEN <<Magic(bin.size)>> ELSE <<>>
  <2>1. ReadFixedPacketFile(bin) = [ok |-> ok, payloads |-> ps]
    BY <1>2 DEF ReadFixedPacketFile
  <2>2. ok \in BOOLEAN
    OBVIOUS
  <2>3. ASSUME bin.size > 0 PROVE Magic(bin.size) \in Packets
    <3> DEFINE z == bin.size
    <3>1. z \in Nat
      BY <1>1, <2>3
    <3>2. 0 \in 0..FragRange - 1 /\ -1 \in Int
      BY Sizes
    <3> HIDE DEF z
    <3>3. Magic(z) \in Packets
      BY <3>1, <3>2 DEF Magic, Packets
    <3> QED BY <3>3 DEF z
  <2>4. ps \in Seq(Packets)
    BY <2>3
  <2> HIDE DEF ok, ps
  <2> QED BY <2>1, <2>2, <2>4
<1>3. CASE ~(bin.size < DH_FILE_HEADER_SIZE)
  <2>1. ReadFixedPacketFile(bin).ok \in BOOLEAN
    <3> DEFINE bytes == bin.size - DH_FILE_HEADER_SIZE
               whole == bytes \div DH_FIXED_PACKET_SIZE
               left == bytes % DH_FIXED_PACKET_SIZE
               Valid(k) == Length(bin.payloads[k]) \in 1..DH_MAX_PAYLOAD_SIZE
               Fits(k) == Length(bin.payloads[k]) <= left - DH_PACKET_HEADER_SIZE
               ok == /\ \A k \in 1..whole : Valid(k)
                     /\ left > 0 =>
                          left >= DH_PACKET_HEADER_SIZE /\ Valid(whole + 1) /\ Fits(whole + 1)
    <3>1. ReadFixedPacketFile(bin).ok = ok
      BY <1>3, Zenon DEF ReadFixedPacketFile
    <3>2. ok \in BOOLEAN
      BY Zenon
    <3> HIDE DEF ok
    <3> QED BY <3>1, <3>2
  <2>2. PICK m \in 0..Len(bin.payloads) :
          ReadFixedPacketFile(bin).payloads = SubSeq(bin.payloads, 1, m)
    <3>1. bin.size >= DH_FILE_HEADER_SIZE
      BY <1>1, <1>3
    <3> QED BY <3>1, FirstRecords
  <2>3. SubSeq(bin.payloads, 1, m) \in Seq(Packets)
    BY <1>1, Cut
  <2> QED BY <2>1, <2>2, <2>3
<1> QED BY <1>2, <1>3

LEMMA ReadPacketsFromDataHandlerFileInv ==
  ASSUME RadioFileAssumption, RadioInv, ReadPacketsFromDataHandlerFile
  PROVE  RadioInv'
<1> DEFINE read == ReadFixedPacketFile(bin)
           Sound(p) == Length(p) >= PACKET_HEADER_SIZE
             /\ PACKET_HEADER_SIZE + p.size <= Length(p)
           sound == \A k \in DOMAIN read.payloads : Sound(read.payloads[k])
           ok == read.ok /\ sound
<1>1. bin.image # None /\ UNCHANGED <<encoder, loaded, bin>>
  BY DEF ReadPacketsFromDataHandlerFile
<1>2. out' = [ok |-> ok, payloads |-> read.payloads]
  BY Zenon DEF ReadPacketsFromDataHandlerFile
<1>3. ok \in BOOLEAN
  BY Zenon
<1>4. read.payloads \in Seq(Packets)
  BY ReadTypes
<1>5. out'.ok = ok /\ out'.payloads = read.payloads
        /\ out' \in [ok : BOOLEAN, payloads : Seq(Packets)]
  <2> HIDE DEF ok, read
  <2> QED BY <1>2, <1>3, <1>4
<1>6. out'.ok => read.ok
        /\ \A k \in DOMAIN read.payloads : Length(read.payloads[k]) >= PACKET_HEADER_SIZE
  <2>1. ok => read.ok
          /\ \A k \in DOMAIN read.payloads : Length(read.payloads[k]) >= PACKET_HEADER_SIZE
    BY Zenon
  <2> HIDE DEF ok, read
  <2> QED BY <1>5, <2>1
<1>7. ReadFixedPacketFile(bin)' = read
  BY <1>1 DEF ReadFixedPacketFile
<1> HIDE DEF ok, read
<1>8. OutOK'
  BY <1>1, <1>5, <1>6, <1>7 DEF OutOK, Length
<1>9. EncoderOK' /\ BinOK'
  BY <1>1 DEF RadioInv, EncoderOK, BinOK
<1> QED BY <1>8, <1>9 DEF RadioInv

LEMMA DepacketizeJsonFileInv ==
  ASSUME RadioFileAssumption, RadioInv, DepacketizeJsonFile
  PROVE  RadioInv'
<1> DEFINE read == ReadFixedPacketFile(bin)
           ok == read.ok /\ read.payloads # <<>>
<1>1. bin.text # NoText /\ UNCHANGED <<encoder, loaded, bin>>
  BY DEF DepacketizeJsonFile
<1>2. out' = [ok |-> ok, payloads |-> read.payloads]
  BY DEF DepacketizeJsonFile
<1>3. ok \in BOOLEAN
  BY Zenon
<1>4. read.payloads \in Seq(Packets)
  BY ReadTypes
<1>5. out'.ok = ok /\ out'.payloads = read.payloads
        /\ out' \in [ok : BOOLEAN, payloads : Seq(Packets)]
  <2> HIDE DEF ok, read
  <2> QED BY <1>2, <1>3, <1>4
<1>6. out'.ok => read.ok
  <2>1. ok => read.ok
    BY Zenon
  <2> HIDE DEF ok, read
  <2> QED BY <1>5, <2>1
<1>7. ReadFixedPacketFile(bin)' = read
  BY <1>1 DEF ReadFixedPacketFile
<1>8. bin.image = None
  BY <1>1 DEF RadioInv, BinOK
<1> HIDE DEF ok, read
<1>9. OutOK'
  BY <1>1, <1>5, <1>6, <1>7, <1>8 DEF OutOK
<1>10. EncoderOK' /\ BinOK'
  BY <1>1 DEF RadioInv, EncoderOK, BinOK
<1> QED BY <1>9, <1>10 DEF RadioInv

\* Every step of encoder, writers, readers and crash keeps the invariant.
LEMMA RadioInvNext == RadioFileAssumption /\ RadioInv /\ [Next]_vars => RadioInv'
<1> SUFFICES ASSUME RadioFileAssumption, RadioInv, [Next]_vars PROVE RadioInv'
  OBVIOUS
<1>1. CASE UNCHANGED vars
  <2>1. ReadFixedPacketFile(bin)' = ReadFixedPacketFile(bin)
    BY <1>1 DEF vars, ReadFixedPacketFile
  <2> QED BY <1>1, <2>1 DEF vars, RadioInv, EncoderOK, BinOK, OutOK
<1>2. CASE Next
  BY <1>2, ImageUnreadInv, load_imageInv, TileFailsInv, write_radio_fileInv,
    PacketizeJsonFileInv,
     PowerFailsInv, ReadPacketsFromDataHandlerFileInv, DepacketizeJsonFileInv DEF Next
<1> QED BY <1>1, <1>2

LEMMA TypesImplied == RadioInv => TypeOK
BY DEF RadioInv, EncoderOK, BinOK, OutOK, TypeOK, Payloads, Packets

\* A cut file has the first payloads of what it was written for, and their bytes are the
\* first bytes of the original.
LEMMA ReadBackImplied == RadioFileAssumption /\ RadioInv => ReadBackIsOriginal
<1> SUFFICES ASSUME RadioFileAssumption, RadioInv, out.ok,
                    bin.text = NoText \/ bin.size >= DH_FILE_HEADER_SIZE
             PROVE  /\ IsPrefix(Bytes(out.payloads), Original)
                    /\ bin.size = FileSize(Len(bin.payloads)) => Bytes(out.payloads) = Original
                    /\ \A k \in DOMAIN out.payloads :
                         out.payloads[k].tile > 0 =>
                           out.payloads[k].first = out.payloads[k].frag * MAX_PAYLOAD_PER_PACKET
  BY DEF ReadBackIsOriginal
<1> DEFINE p == bin.payloads
           n == Len(p)
<1>1. /\ p \in Seq(Packets) /\ n \in Nat /\ bin.size \in Int
      /\ FileSize(n) \in Nat \ {0} /\ DH_FILE_HEADER_SIZE \in Nat \ {0}
  <2>1. p \in Seq(Packets) /\ n \in Nat /\ bin.size \in Int
    BY DEF RadioInv, BinOK
  <2> HIDE DEF n, p
  <2> QED BY <2>1, Sizes
<1>2. Bytes(p) = Original /\ (p \in Seq(TilePackets) \/ p \in Seq(TextPackets))
  <2>1. CASE bin.image # None
    <3>1. bin.image \in Images /\ p = packetize_tiles(bin.image)
      BY <2>1 DEF RadioInv, BinOK
    <3>2. Original = OfImage(bin.image)
      BY <2>1 DEF Original, OfImage
    <3> QED BY <3>1, <3>2, OneImage
  <2>2. CASE bin.image = None
    <3>1. bin.text \in Texts /\ p = OfText(bin.text)
      BY <2>2 DEF RadioInv, BinOK, OutOK
    <3>2. Original = [b \in 1..TextSize(bin.text) |-> <<0, b>>]
      BY <2>2 DEF Original, TextSize
    <3> QED BY <3>1, <3>2, OneText
  <2> QED BY <2>1, <2>2
<1>3. CASE bin.size >= DH_FILE_HEADER_SIZE
  <2>1. PICK m \in 0..n : /\ out.payloads = SubSeq(p, 1, m)
                          /\ bin.size = FileSize(n) => m = n
    BY <1>3, FirstRecords DEF RadioInv, OutOK
  <2>2. IsPrefix(Bytes(out.payloads), Original)
    BY <1>1, <1>2, <2>1, BytesOfFirst
  <2>3. SubSeq(p, 1, n) = p
    BY <1>1
  <2>4. ASSUME NEW k \in DOMAIN out.payloads, out.payloads[k].tile > 0
        PROVE  out.payloads[k].first = out.payloads[k].frag * MAX_PAYLOAD_PER_PACKET
    <3>1. k \in 1..n /\ out.payloads[k] = p[k]
      BY <1>1, <2>1
    <3>2. CASE p \in Seq(TilePackets)
      <4>1. p[k] \in TilePackets
        BY <3>1, <3>2
      <4> QED BY <3>1, <4>1 DEF TilePackets
    <3>3. CASE p \in Seq(TextPackets)
      <4>1. p[k] \in TextPackets
        BY <3>1, <3>3
      <4> QED BY <2>4, <3>1, <4>1 DEF TextPackets
    <3> QED BY <1>2, <3>2, <3>3
  <2> QED BY <1>2, <2>1, <2>2, <2>3, <2>4
<1>4. CASE ~(bin.size >= DH_FILE_HEADER_SIZE)
  <2>1. bin.image # None /\ bin.size < DH_FILE_HEADER_SIZE
    BY <1>1, <1>4 DEF RadioInv, BinOK, OutOK
  <2>2. /\ ReadFixedPacketFile(bin).ok = (bin.size >= 0)
        /\ out.payloads = IF bin.size > 0 THEN <<Magic(bin.size)>> ELSE <<>>
    BY <2>1 DEF ReadFixedPacketFile, RadioInv, OutOK
  <2>3. ASSUME bin.size > 0 PROVE FALSE
    <3>1. out.payloads = <<Magic(bin.size)>>
      BY <2>2, <2>3
    <3>2. Length(out.payloads[1]) >= PACKET_HEADER_SIZE
      BY <2>1, <3>1 DEF RadioInv, OutOK
    <3>3. Length(out.payloads[1]) = bin.size
      BY <1>1, <3>1 DEF Length, Magic
    <3>4. DH_FILE_HEADER_SIZE <= PACKET_HEADER_SIZE
      BY DEF RadioFileAssumption
    <3> DEFINE z == bin.size
    <3>5. PACKET_HEADER_SIZE <= z /\ z < DH_FILE_HEADER_SIZE /\ z \in Int
      BY <1>1, <2>1, <3>2, <3>3
    <3>6. PACKET_HEADER_SIZE \in Int /\ DH_FILE_HEADER_SIZE \in Int
      BY Sizes
    <3> HIDE DEF z
    <3> QED BY <3>4, <3>5, <3>6
  <2>4. out.payloads = <<>>
    BY <2>2, <2>3
  <2>5. bin.size # FileSize(n)
    <3>1. FileSize(n) >= DH_FILE_HEADER_SIZE
      <4> DEFINE z == n * DH_FIXED_PACKET_SIZE
      <4>1. z \in Nat
        <5>1. DH_FIXED_PACKET_SIZE \in Nat /\ n \in Nat
          BY <1>1, Sizes
        <5> HIDE DEF n
        <5> QED BY <5>1, Product
      <4>2. FileSize(n) = DH_FILE_HEADER_SIZE + z
        BY DEF FileSize
      <4> HIDE DEF z
      <4> QED BY <1>1, <4>1, <4>2
    <3> QED BY <1>1, <2>1, <3>1
  <2>6. IsPrefix(Bytes(<<>>), Original)
    <3>1. SubSeq(p, 1, 0) = <<>> /\ 0 \in 0..n
      BY <1>1
    <3> QED BY <1>1, <1>2, <3>1, BytesOfFirst
  <2> QED BY <2>4, <2>5, <2>6
<1> QED BY <1>3, <1>4

LEMMA RadioInvariance == ASSUME RadioFileAssumption PROVE Spec => []RadioInv
<1>1. Init => RadioInv
  BY RadioInitInv
<1>2. RadioInv /\ [Next]_vars => RadioInv'
  BY RadioInvNext
<1> QED BY <1>1, <1>2, PTL DEF Spec

-----------------------------------------------------------------------------
\* What the encoder holds, the records of a packet file and what is read of them keep
\* their types, whatever the files and wherever a write ends.
THEOREM RadioTypeCorrect == ASSUME RadioFileAssumption PROVE Spec => []TypeOK
<1>1. RadioInv => TypeOK
  BY TypesImplied
<1> QED BY <1>1, RadioInvariance, PTL

\* What is read without an error, of an image's file or of a text's that has its whole
\* magic number, is the beginning of the original, and all of it if nothing was lost;
\* every fragment tells its place in its tile (packetize_tile, WriteFixedPacketFile,
\* ReadFixedPacketFile, PacketizeJsonFile).
THEOREM ReadBackIsOriginalHolds == ASSUME RadioFileAssumption PROVE Spec => []ReadBackIsOriginal
<1>1. RadioInv => ReadBackIsOriginal
  BY ReadBackImplied
<1> QED BY <1>1, RadioInvariance, PTL

-----------------------------------------------------------------------------
(***************************************************************************)
(* DatasetFiles                                                            *)
(***************************************************************************)

-----------------------------------------------------------------------------
(* The invariant *)

\* Datasets that are in memory, and that files are written for.
Datasets ==
  {d \in [there : {TRUE}, folder : 0..Word - 1, parameters : [DF!Parameters -> Int],
          cameras : DF!OnOff, ids : Seq(Frames)] :
     /\ DF!isValidConfiguration(d.parameters)
     /\ d.parameters["target_frame_nb"] \in 0..MAX_SAMPLES
     /\ d.parameters["capture_start_time"] \in 0..Word - 1}
Tomls ==
  {DF!None} \cup Uploads
    \cup {DF!CreateConfigurationFile(x[1], x[2]) : x \in Datasets \X (0..Len(DF!Lines))}
Jsons == {DF!None} \cup Edited \cup {DF!toJson(d) : d \in Datasets}

OnDisk ==
  /\ disk \in [Times -> [made : BOOLEAN, toml : Tomls, json : Jsons]]
  /\ \A f \in Times : disk[f].toml.there \/ disk[f].json.there => disk[f].made

\* What was read from a file is still what the file was written for, but for later frames.
Faithful ==
  origin.there =>
    /\ dataset.there /\ origin.by \in {"toml", "json"}
    /\ origin.by = "toml" /\ origin.of.there /\ origin.of.whole =>
         dataset.parameters = origin.of.parameters /\ dataset.cameras = origin.of.cameras
    /\ origin.by = "json" /\ origin.of.there =>
         /\ dataset.parameters = origin.of.parameters
         /\ dataset.folder = origin.of.folder
         /\ origin.of.ids \in Seq(Frames) /\ Len(origin.of.ids) <= Len(dataset.ids)
         /\ \A n \in 1..Len(origin.of.ids) : dataset.ids[n] = origin.of.ids[n]

DatasetInv == dataset \in Datasets \cup {DF!None} /\ OnDisk /\ Faithful

-----------------------------------------------------------------------------
(* Parameters and their conversions *)

\* A start time survives the way through int64_t.
LEMMA Reduced ==
  ASSUME NEW w \in Nat \ {0}, NEW t \in 0..w - 1
  PROVE  t % w = t /\ (t - w) % w = t
OBVIOUS

LEMMA Remainder ==
  ASSUME NEW w \in Nat \ {0}, NEW t \in Int
  PROVE  t % w \in 0..w - 1
OBVIOUS

LEMMA ParameterNames ==
  DF!Parameters = {"capture_start_time", "dataset_capture_mode", "maximum_period",
    "target_frame_nb"}
<1>1. Len(DF!Lines) = 5 /\ 2..5 = {2, 3, 4, 5}
  BY DEF DF!Lines
<1> QED BY <1>1 DEF DF!Parameters, DF!Lines

\* A start time survives its conversion to an int64_t and back.
LEMMA SignedIsReduced ==
  ASSUME DF!DatasetFilesAssumption, NEW t \in 0..Word - 1
  PROVE  DF!Signed(t) \in Int /\ DF!Signed(t) % Word = t
<1>1. Word \in Nat \ {0}
  BY DEF DF!DatasetFilesAssumption
<1>2. t % Word = t /\ (t - Word) % Word = t
  BY <1>1, Reduced
<1>3. DF!Signed(t) = t \/ DF!Signed(t) = t - Word
  BY DEF DF!Signed
<1> QED BY <1>1, <1>2, <1>3

\* Valid values are not changed by the conversions to the types of the members.
LEMMA CastIsValid ==
  ASSUME DF!DatasetFilesAssumption, NEW p \in [DF!Parameters -> Int], DF!validateRawParams(p)
  PROVE  /\ DF!Cast(p) \in [DF!Parameters -> Int] /\ DF!isValidConfiguration(DF!Cast(p))
         /\ DF!Cast(p)["target_frame_nb"] \in 0..MAX_SAMPLES
         /\ DF!Cast(p)["capture_start_time"] \in 0..Word - 1
         /\ DF!Cast(p)["capture_start_time"] = p["capture_start_time"] % Word
         /\ \A k \in DF!Parameters \ {"capture_start_time"} : DF!Cast(p)[k] = p[k]
<1>1. /\ Word \in Nat \ {0} /\ MAX_SAMPLES \in Nat \ {0}
      /\ p["capture_start_time"] \in Int /\ p["target_frame_nb"] \in 1..MAX_SAMPLES
  BY ParameterNames DEF DF!DatasetFilesAssumption, DF!validateRawParams
<1>2. p["capture_start_time"] % Word \in 0..Word - 1
  BY <1>1, Remainder
<1>3. p["target_frame_nb"] % (MAX_SAMPLES + 1) = p["target_frame_nb"]
  <2>1. MAX_SAMPLES + 1 \in Nat \ {0} /\ p["target_frame_nb"] \in 0..(MAX_SAMPLES + 1) - 1
    BY <1>1
  <2> QED BY <2>1, Reduced
<1> DEFINE s == p["capture_start_time"] % Word
<1>4. DF!Cast(p) = [p EXCEPT !["capture_start_time"] = s]
  <2>1. DF!Cast(p) = [[p EXCEPT !["capture_start_time"] = s] EXCEPT !["target_frame_nb"] =
                     p["target_frame_nb"] % (MAX_SAMPLES + 1)]
    BY ParameterNames DEF DF!Cast
  <2> QED BY <1>3, <2>1, ParameterNames
<1> HIDE DEF s
<1>5. s \in Int /\ s \in 0..Word - 1
  BY <1>1, <1>2 DEF s
<1>6. /\ DF!Cast(p) \in [DF!Parameters -> Int] /\ DF!Cast(p)["capture_start_time"] = s
      /\ \A k \in DF!Parameters \ {"capture_start_time"} : DF!Cast(p)[k] = p[k]
  BY <1>4, <1>5, ParameterNames
<1>7. DF!isValidConfiguration(DF!Cast(p))
  BY <1>1, <1>6, ParameterNames DEF DF!isValidConfiguration, DF!validateRawParams
<1> QED BY <1>1, <1>5, <1>6, <1>7, ParameterNames DEF s

-----------------------------------------------------------------------------
(* Files *)

LEMMA SameFunction ==
  ASSUME NEW S, NEW T, NEW a \in [S -> T], NEW b \in [S -> T], \A k \in S : a[k] = b[k]
  PROVE  a = b
OBVIOUS

LEMMA NotEmpty ==
  ASSUME NEW T, NEW k \in Nat \ {0}, NEW a \in [1..k -> T]
  PROVE  a # <<>>
BY IsSeq

\* What is read of a file is a parameter's value, or what DatasetConfig has.
LEMMA TomlTypes ==
  ASSUME DF!DatasetFilesAssumption, NEW toml \in Tomls, toml.there
  PROVE  /\ \A k \in DOMAIN toml.values : toml.values[k].num => toml.values[k].v \in Int
         /\ toml.cameras \in Seq({"on", "off", "other"})
<1>1. CASE toml \in Uploads
  BY <1>1 DEF DF!DatasetFilesAssumption
<1>2. ASSUME NEW d \in Datasets, NEW n \in 0..Len(DF!Lines),
               toml = DF!CreateConfigurationFile(d, n)
      PROVE  /\ \A k \in DOMAIN toml.values : toml.values[k].num => toml.values[k].v \in Int
             /\ toml.cameras \in Seq({"on", "off", "other"})
  <2> DEFINE signed == [d.parameters EXCEPT !["capture_start_time"] = DF!Signed(@)]
             written == {DF!Lines[k] : k \in 1..n}
  <2>1. /\ d.parameters \in [DF!Parameters -> Int] /\ d.cameras \in DF!OnOff
        /\ d.parameters["capture_start_time"] \in 0..Word - 1
    BY DEF Datasets
  <2>2. signed \in [DF!Parameters -> Int]
    BY <2>1, SignedIsReduced, ParameterNames
  <2>3. /\ toml.values = DF!Numbers([k \in DF!Parameters \cap written |-> signed[k]])
        /\ toml.cameras \in {d.cameras, <<>>}
    BY <1>2 DEF DF!CreateConfigurationFile
  <2> HIDE DEF signed, written
  <2>4. \A k \in DOMAIN toml.values : toml.values[k].v \in Int
    BY <2>2, <2>3 DEF DF!Numbers
  <2>5. d.cameras \in Seq({"on", "off", "other"})
    <3>1. d.cameras \in [1..2 -> {"on", "off", "other"}]
      BY <2>1 DEF DF!OnOff, DF!NUM_CAMERAS
    <3> QED BY <3>1, IsSeq
  <2>6. <<>> \in Seq({"on", "off", "other"})
    OBVIOUS
  <2> QED BY <2>3, <2>4, <2>5, <2>6
<1>3. toml # DF!None
  BY DEF DF!None
<1> QED BY <1>1, <1>2, <1>3 DEF Tomls

\* A file that was written to its last line says all there is to say.
LEMMA WholeToml ==
  ASSUME DF!DatasetFilesAssumption, NEW toml \in Tomls, toml.there, toml.of.there, toml.of.whole
  PROVE  /\ toml.of.parameters \in [DF!Parameters -> Int] /\ toml.of.cameras \in DF!OnOff
         /\ toml.of.parameters["capture_start_time"] \in 0..Word - 1
         /\ toml.cameras = toml.of.cameras
         /\ DOMAIN toml.values = DF!Parameters
         /\ toml.values["capture_start_time"].v = DF!Signed(toml.of.parameters["capture_start_time"])
         /\ \A k \in DF!Parameters \ {"capture_start_time"} : toml.values[k].v = toml.of.parameters[k]
<1>1. toml # DF!None /\ toml \notin Uploads
  BY DEF DF!None, DF!DatasetFilesAssumption
<1>2. PICK x \in Datasets \X (0..Len(DF!Lines)) : toml = DF!CreateConfigurationFile(x[1], x[2])
  BY <1>1 DEF Tomls
<1> DEFINE d == x[1]
           n == x[2]
           signed == [d.parameters EXCEPT !["capture_start_time"] = DF!Signed(@)]
           written == {DF!Lines[k] : k \in 1..n}
           whole == n = Len(DF!Lines)
<1>3. d \in Datasets /\ n \in 0..Len(DF!Lines) /\ toml = DF!CreateConfigurationFile(d, n)
  BY <1>2
<1> HIDE DEF d, n
<1>4. /\ toml.of = [there |-> TRUE, whole |-> whole,
                    parameters |-> d.parameters, cameras |-> d.cameras]
      /\ toml.values = DF!Numbers([k \in DF!Parameters \cap written |-> signed[k]])
      /\ toml.cameras = IF "active_cameras" \in written THEN d.cameras ELSE <<>>
  BY <1>3 DEF DF!CreateConfigurationFile
<1>5. n = Len(DF!Lines) /\ toml.of.parameters = d.parameters /\ toml.of.cameras = d.cameras
  <2> HIDE DEF whole
  <2>1. toml.of.whole = whole
    BY <1>4
  <2>2. whole
    BY <2>1, Zenon
  <2> QED BY <1>4, <2>2 DEF whole
<1>6. DF!Parameters \subseteq written /\ "active_cameras" \in written
  <2>1. Len(DF!Lines) = 5 /\ DF!Lines[1] = "active_cameras"
    BY DEF DF!Lines
  <2> QED BY <1>5, <2>1 DEF DF!Parameters
<1>7. /\ d.parameters \in [DF!Parameters -> Int] /\ d.cameras \in DF!OnOff
      /\ d.parameters["capture_start_time"] \in 0..Word - 1
  BY <1>3 DEF Datasets
<1>8. /\ signed["capture_start_time"] = DF!Signed(d.parameters["capture_start_time"])
      /\ \A k \in DF!Parameters \ {"capture_start_time"} : signed[k] = d.parameters[k]
  BY <1>7, ParameterNames
<1> HIDE DEF signed, written
<1>9. toml.values = DF!Numbers([k \in DF!Parameters |-> signed[k]])
  <2>1. DF!Parameters \cap written = DF!Parameters
    BY <1>6
  <2> QED BY <1>4, <2>1
<1>10. DOMAIN toml.values = DF!Parameters
         /\ \A k \in DF!Parameters : toml.values[k].v = signed[k]
  BY <1>9 DEF DF!Numbers
<1> QED BY <1>4, <1>5, <1>6, <1>7, <1>8, <1>10, ParameterNames

LEMMA JsonTypes ==
  ASSUME DF!DatasetFilesAssumption, NEW json \in Jsons, json.there
  PROVE  /\ json.folder \in 0..Word - 1 /\ json.ids \in Seq(Frames) /\ json.proper \in BOOLEAN
         /\ \A k \in DOMAIN json.values : json.values[k].num => json.values[k].v \in Int
         /\ json.of.there =>
              /\ json.proper /\ json.of.parameters \in [DF!Parameters -> Int]
              /\ json.of.parameters["capture_start_time"] \in 0..Word - 1
              /\ json.folder = json.of.folder /\ json.ids = json.of.ids
              /\ \A k \in DF!Parameters : json.values[k].v = json.of.parameters[k]
<1>1. CASE json \in Edited
  BY <1>1 DEF DF!DatasetFilesAssumption
<1>2. ASSUME NEW d \in Datasets, json = DF!toJson(d)
      PROVE  /\ json.folder \in 0..Word - 1 /\ json.ids \in Seq(Frames) /\ json.proper
             /\ \A k \in DOMAIN json.values : json.values[k].v \in Int
             /\ json.of.parameters \in [DF!Parameters -> Int]
             /\ json.of.parameters["capture_start_time"] \in 0..Word - 1
             /\ json.folder = json.of.folder /\ json.ids = json.of.ids
             /\ \A k \in DF!Parameters : json.values[k].v = json.of.parameters[k]
  <2>1. /\ d.parameters \in [DF!Parameters -> Int] /\ d.folder \in 0..Word - 1
        /\ d.ids \in Seq(Frames) /\ d.parameters["capture_start_time"] \in 0..Word - 1
    BY DEF Datasets
  <2>2. /\ json.folder = d.folder /\ json.ids = d.ids /\ json.proper
        /\ json.of.parameters = d.parameters /\ json.of.folder = d.folder /\ json.of.ids = d.ids
        /\ json.values = DF!Numbers(d.parameters)
    BY <1>2 DEF DF!toJson
  <2>3. DOMAIN json.values = DF!Parameters
          /\ \A k \in DF!Parameters : json.values[k].v = d.parameters[k]
    BY <2>1, <2>2 DEF DF!Numbers
  <2> QED BY <2>1, <2>2, <2>3
<1>3. json # DF!None
  BY DEF DF!None
<1> QED BY <1>1, <1>2, <1>3 DEF Jsons

-----------------------------------------------------------------------------
(* The steps *)

LEMMA DatasetInitInv == ASSUME DF!DatasetFilesAssumption, DF!Init PROVE DatasetInv
<1>1. PICK f \in Times, toml \in Uploads \cup {DF!None}, json \in Edited \cup {DF!None} :
        disk = [t \in Times |->
                  IF t = f /\ toml # DF!None THEN [made |-> TRUE, toml |-> toml, json |-> json]
                  ELSE [made |-> FALSE, toml |-> DF!None, json |-> DF!None]]
  BY DEF DF!Init
<1>2. toml \in Tomls /\ DF!None \in Tomls /\ json \in Jsons /\ DF!None \in Jsons
  BY DEF Tomls, Jsons
<1>3. ~DF!None.there
  BY DEF DF!None
<1>4. OnDisk
  <2>1. ASSUME NEW t \in Times
        PROVE  /\ disk[t] \in [made : BOOLEAN, toml : Tomls, json : Jsons]
               /\ disk[t].toml.there \/ disk[t].json.there => disk[t].made
    BY <1>1, <1>2, <1>3
  <2>2. disk \in [Times -> [made : BOOLEAN, toml : Tomls, json : Jsons]]
    BY <1>1, <2>1
  <2> QED BY <2>1, <2>2 DEF OnDisk
<1> QED BY <1>3, <1>4 DEF DF!Init, DatasetInv, Faithful

LEMMA CreateInv ==
  ASSUME DF!DatasetFilesAssumption, DatasetInv, NEW c \in Configs, DF!Create(c)
  PROVE  DatasetInv'
<1>1. dataset' = [there |-> TRUE, folder |-> c.parameters["capture_start_time"],
                  parameters |-> c.parameters, cameras |-> c.cameras, ids |-> <<>>]
      /\ DF!isValidConfiguration(c.parameters) /\ origin' = DF!None /\ disk' = disk
  BY DEF DF!Create
<1>2. dataset' \in Datasets
  <2>1. /\ c.parameters \in [DF!Parameters -> Int] /\ c.cameras \in DF!OnOff
        /\ c.parameters["capture_start_time"] \in 0..Word - 1
        /\ c.parameters["target_frame_nb"] \in 0..MAX_SAMPLES
    BY DEF DF!DatasetFilesAssumption
  <2>2. <<>> \in Seq(Frames)
    OBVIOUS
  <2> QED BY <1>1, <2>1, <2>2 DEF Datasets
<1>3. ~DF!None.there
  BY DEF DF!None
<1> QED BY <1>1, <1>2, <1>3 DEF DatasetInv, OnDisk, Faithful

LEMMA AddStoredFrameIDInv ==
  ASSUME DF!DatasetFilesAssumption, DatasetInv, NEW f \in Frames, DF!AddStoredFrameID(f)
  PROVE  DatasetInv'
<1>1. /\ dataset' = [dataset EXCEPT !.ids = Append(dataset.ids, f)]
      /\ dataset.there /\ origin' = origin /\ disk' = disk
  BY DEF DF!AddStoredFrameID
<1>2. dataset \in Datasets
  BY <1>1 DEF DatasetInv, DF!None
<1>3. /\ dataset.ids \in Seq(Frames) /\ Append(dataset.ids, f) \in Seq(Frames)
      /\ Len(Append(dataset.ids, f)) = Len(dataset.ids) + 1 /\ Len(dataset.ids) \in Nat
      /\ \A n \in 1..Len(dataset.ids) : Append(dataset.ids, f)[n] = dataset.ids[n]
  <2>1. dataset.ids \in Seq(Frames)
    BY <1>2 DEF Datasets
  <2> QED BY <2>1
<1>4. /\ dataset'.there = dataset.there /\ dataset'.folder = dataset.folder
      /\ dataset'.parameters = dataset.parameters /\ dataset'.cameras = dataset.cameras
      /\ dataset'.ids = Append(dataset.ids, f)
  BY <1>1, <1>2 DEF Datasets
<1>5. dataset' \in Datasets
  <2>1. dataset' \in [there : {TRUE}, folder : 0..Word - 1, parameters : [DF!Parameters -> Int],
                      cameras : DF!OnOff, ids : Seq(Frames)]
    BY <1>1, <1>2, <1>3 DEF Datasets
  <2> QED BY <1>2, <1>4, <2>1 DEF Datasets
<1>6. Faithful'
  <2> SUFFICES ASSUME origin.there, origin.by = "json", origin.of.there
               PROVE  /\ origin.of.ids \in Seq(Frames)
                      /\ Len(origin.of.ids) <= Len(dataset'.ids)
                      /\ \A n \in 1..Len(origin.of.ids) : dataset'.ids[n] = origin.of.ids[n]
    BY <1>1, <1>4 DEF DatasetInv, Faithful
  <2>1. /\ origin.of.ids \in Seq(Frames) /\ Len(origin.of.ids) <= Len(dataset.ids)
        /\ \A n \in 1..Len(origin.of.ids) : dataset.ids[n] = origin.of.ids[n]
    BY DEF DatasetInv, Faithful
  <2>2. Len(origin.of.ids) \in Nat
    BY <2>1
  <2> QED BY <1>3, <1>4, <2>1, <2>2
<1> QED BY <1>1, <1>5, <1>6 DEF DatasetInv, OnDisk

LEMMA CrashInv == ASSUME DatasetInv, DF!Crash PROVE DatasetInv'
<1>1. ~DF!None.there
  BY DEF DF!None
<1> QED BY <1>1 DEF DF!Crash, DatasetInv, OnDisk, Faithful

\* A file of one folder changes, in a folder that is there.
LEMMA FileWritten ==
  ASSUME OnDisk, NEW f \in Times, NEW toml \in Tomls, NEW json \in Jsons,
         disk' = [t \in Times |-> IF t = f THEN [made |-> TRUE, toml |-> toml, json |-> json]
                                  ELSE disk[t]]
  PROVE  OnDisk'
<1>1. disk' \in [Times -> [made : BOOLEAN, toml : Tomls, json : Jsons]]
  BY DEF OnDisk
<1>2. ASSUME NEW t \in Times, disk'[t].toml.there \/ disk'[t].json.there PROVE disk'[t].made
  BY <1>2 DEF OnDisk
<1>3. Tomls' = Tomls /\ Jsons' = Jsons
  OBVIOUS
<1> QED BY <1>1, <1>2, <1>3 DEF OnDisk

LEMMA InitializeOnDiskInv ==
  ASSUME DF!DatasetFilesAssumption, DatasetInv, DF!InitializeOnDisk
  PROVE  DatasetInv'
<1> DEFINE f == dataset.folder
<1>1. f \in Times /\ dataset.there /\ dataset' = dataset /\ origin' = origin
  BY DEF DF!InitializeOnDisk
<1>2. PICK n \in 0..Len(DF!Lines) :
        disk' = [disk EXCEPT ![f].made = TRUE,
          ![f].toml = DF!CreateConfigurationFile(dataset, n)]
  BY DEF DF!InitializeOnDisk
<1>3. dataset \in Datasets
  BY <1>1 DEF DatasetInv, DF!None
<1> DEFINE toml == DF!CreateConfigurationFile(dataset, n)
<1>4. toml \in Tomls
  <2> DEFINE x == <<dataset, n>>
  <2>1. x \in Datasets \X (0..Len(DF!Lines)) /\ toml = DF!CreateConfigurationFile(x[1], x[2])
    BY <1>3
  <2> HIDE DEF x, toml
  <2> QED BY <2>1 DEF Tomls
<1>5. disk[f].json \in Jsons /\ disk[f] \in [made : BOOLEAN, toml : Tomls, json : Jsons]
  BY <1>1 DEF DatasetInv, OnDisk
<1> HIDE DEF toml, f
<1>6. disk' = [t \in Times |-> IF t = f THEN [made |-> TRUE, toml |-> toml,
        json |-> disk[f].json]
                               ELSE disk[t]]
  <2>1. disk = [t \in Times |-> disk[t]]
    BY DEF DatasetInv, OnDisk
  <2>2. disk' = [disk EXCEPT ![f].made = TRUE, ![f].toml = toml]
    BY <1>2 DEF toml
  <2>3. disk' = [t \in Times |-> disk'[t]]
    BY <2>1, <2>2
  <2>4. \A t \in Times : t # f => disk'[t] = disk[t]
    BY <2>1, <2>2
  <2>5. disk'[f] = [[disk[f] EXCEPT !.made = TRUE] EXCEPT !.toml = toml]
    BY <1>1, <2>1, <2>2
  <2>6. disk'[f] = [made |-> TRUE, toml |-> toml, json |-> disk[f].json]
    BY <1>5, <2>5
  <2> QED BY <2>3, <2>4, <2>6
<1> QED BY <1>1, <1>4, <1>5, <1>6, FileWritten DEF DatasetInv, Faithful

LEMMA StoreDatasetToDiskInv ==
  ASSUME DF!DatasetFilesAssumption, DatasetInv, DF!StoreDatasetToDisk
  PROVE  DatasetInv'
<1> DEFINE f == dataset.parameters["capture_start_time"]
<1>1. f \in Times /\ dataset.there /\ dataset' = dataset /\ origin' = origin /\ disk[f].made
  BY DEF DF!StoreDatasetToDisk
<1>2. dataset \in Datasets
  BY <1>1 DEF DatasetInv, DF!None
<1>3. PICK json \in Jsons : disk' = [disk EXCEPT ![f].json = json]
  <2>1. DF!toJson(dataset) \in Jsons /\ DF!None \in Jsons
    BY <1>2 DEF Jsons
  <2> QED BY <2>1 DEF DF!StoreDatasetToDisk
<1> HIDE DEF f
<1>4. disk[f].toml \in Tomls /\ disk[f] \in [made : BOOLEAN, toml : Tomls, json : Jsons]
  BY <1>1 DEF DatasetInv, OnDisk
<1>5. disk' = [t \in Times |-> IF t = f THEN [made |-> TRUE, toml |-> disk[f].toml,
        json |-> json]
                               ELSE disk[t]]
  <2>1. disk = [t \in Times |-> disk[t]]
    BY DEF DatasetInv, OnDisk
  <2>2. disk' = [t \in Times |-> disk'[t]]
    BY <1>3, <2>1
  <2>3. \A t \in Times : t # f => disk'[t] = disk[t]
    BY <1>3, <2>1
  <2>4. disk'[f] = [disk[f] EXCEPT !.json = json]
    BY <1>1, <1>3, <2>1
  <2>5. disk'[f] = [made |-> TRUE, toml |-> disk[f].toml, json |-> json]
    BY <1>1, <1>4, <2>4
  <2> QED BY <2>2, <2>3, <2>5
<1> QED BY <1>1, <1>4, <1>5, FileWritten DEF DatasetInv, Faithful

\* What a configuration file and the time say, if they are valid, is a configuration.
LEMMA ReadFolderInv ==
  ASSUME DF!DatasetFilesAssumption, DatasetInv, NEW f \in Times, NEW now \in Times,
         DF!ReadFolder(f, now)
  PROVE  DatasetInv'
<1> DEFINE toml == disk[f].toml
           p == IF "capture_start_time" \in DOMAIN toml.values THEN DF!WithDefaults(toml)
                ELSE [DF!WithDefaults(toml) EXCEPT !["capture_start_time"] = now]
           cameras == [k \in 1..DF!NUM_CAMERAS |->
                         IF toml.cameras = <<>> \/ toml.cameras[k] = "other"
                         THEN "on" ELSE toml.cameras[k]]
<1>1. /\ toml.there /\ DF!isValidConfigurationFile(toml)
      /\ dataset' = [there |-> TRUE, folder |-> f, parameters |-> DF!Cast(p), ids |-> <<>>,
                     cameras |-> cameras]
      /\ origin' = [there |-> TRUE, of |-> toml.of, by |-> "toml"]
      /\ disk' = disk
  BY DEF DF!ReadFolder
<1>2. toml \in Tomls
  BY DEF DatasetInv, OnDisk
<1>3. p = [k \in DF!Parameters |->
             IF k \in DOMAIN toml.values THEN toml.values[k].v
             ELSE IF k = "capture_start_time" THEN now ELSE Defaults[k]]
  BY ParameterNames DEF DF!WithDefaults
<1> HIDE DEF toml, p, cameras
<1>4. /\ \A k \in DOMAIN toml.values : toml.values[k].num /\ toml.values[k].v \in Int
      /\ toml.cameras \in Seq({"on", "off", "other"})
      /\ toml.cameras # <<>> => Len(toml.cameras) = DF!NUM_CAMERAS
      /\ DF!validateRawParams(DF!WithDefaults(toml))
  BY <1>1, <1>2, TomlTypes DEF DF!isValidConfigurationFile, DF!Reads
<1>5. now \in Int /\ now \in 0..Word - 1 /\ f \in 0..Word - 1 /\ Word \in Nat \ {0}
  BY DEF DF!DatasetFilesAssumption
<1>6. p \in [DF!Parameters -> Int]
  <2>1. \A k \in DF!Parameters \ {"capture_start_time"} : Defaults[k] \in Int
    BY ParameterNames DEF DF!DatasetFilesAssumption
  <2> QED BY <1>3, <1>4, <1>5, <2>1
<1>7. DF!validateRawParams(p)
  BY <1>3, <1>4, ParameterNames DEF DF!validateRawParams, DF!WithDefaults
<1>8. cameras \in DF!OnOff
  <2>1. ASSUME NEW k \in 1..DF!NUM_CAMERAS PROVE cameras[k] \in {"on", "off"}
    <3>1. CASE toml.cameras = <<>>
      BY <3>1 DEF cameras
    <3>2. CASE toml.cameras # <<>>
      <4>1. toml.cameras[k] \in {"on", "off", "other"}
        BY <1>4, <3>2
      <4> QED BY <3>2, <4>1 DEF cameras
    <3> QED BY <3>1, <3>2
  <2> QED BY <2>1 DEF cameras, DF!OnOff
<1>9. dataset' \in Datasets
  <2>1. <<>> \in Seq(Frames)
    OBVIOUS
  <2> QED BY <1>1, <1>5, <1>6, <1>7, <1>8, <2>1, CastIsValid DEF Datasets
<1>10. ASSUME toml.of.there, toml.of.whole
       PROVE  DF!Cast(p) = toml.of.parameters /\ cameras = toml.of.cameras
  <2> DEFINE q == toml.of.parameters
  <2>1. /\ q \in [DF!Parameters -> Int] /\ toml.of.cameras \in DF!OnOff
        /\ q["capture_start_time"] \in 0..Word - 1
        /\ toml.cameras = toml.of.cameras
        /\ DOMAIN toml.values = DF!Parameters
        /\ toml.values["capture_start_time"].v = DF!Signed(q["capture_start_time"])
        /\ \A k \in DF!Parameters \ {"capture_start_time"} : toml.values[k].v = q[k]
    BY <1>1, <1>2, <1>10, WholeToml
  <2> HIDE DEF q
  <2>2. /\ p["capture_start_time"] = DF!Signed(q["capture_start_time"])
        /\ \A k \in DF!Parameters \ {"capture_start_time"} : p[k] = q[k]
    BY <1>3, <2>1, ParameterNames
  <2>3. \A k \in DF!Parameters : DF!Cast(p)[k] = q[k]
    BY <1>6, <1>7, <2>1, <2>2, CastIsValid, SignedIsReduced
  <2>4. DF!Cast(p) = q
    BY <1>6, <1>7, <2>1, <2>3, CastIsValid
  <2>5. cameras = toml.of.cameras
    <3>1. toml.of.cameras \in [1..DF!NUM_CAMERAS -> {"on", "off"}] /\ 1 \in 1..DF!NUM_CAMERAS
      BY <2>1 DEF DF!OnOff, DF!NUM_CAMERAS
    <3>2. toml.cameras # <<>>
      <4>1. toml.cameras \in [1..2 -> {"on", "off"}]
        BY <2>1, <3>1 DEF DF!NUM_CAMERAS
      <4>2. 2 \in Nat \ {0}
        OBVIOUS
      <4> QED BY <4>1, <4>2, NotEmpty, Zenon
    <3>3. \A k \in 1..DF!NUM_CAMERAS : cameras[k] = toml.of.cameras[k]
      BY <2>1, <3>1, <3>2 DEF cameras
    <3> HIDE DEF cameras
    <3>4. cameras \in [1..DF!NUM_CAMERAS -> {"on", "off"}]
      BY <1>8 DEF DF!OnOff
    <3>5. \A a, b \in [1..DF!NUM_CAMERAS -> {"on", "off"}] :
            (\A k \in 1..DF!NUM_CAMERAS : a[k] = b[k]) => a = b
      BY SameFunction
    <3> QED BY <3>1, <3>3, <3>4, <3>5, Zenon
  <2> QED BY <2>4, <2>5 DEF q
<1>11. Faithful'
  BY <1>1, <1>10 DEF Faithful
<1> QED BY <1>1, <1>9, <1>11 DEF DatasetInv, OnDisk

\* Frame IDs are read last: a list with others leaves those the dataset had.
LEMMA readDatasetFromDiskInv ==
  ASSUME DF!DatasetFilesAssumption, DatasetInv, NEW f \in Times, DF!readDatasetFromDisk(f)
  PROVE  DatasetInv'
<1> DEFINE json == disk[f].json
           p == [k \in DF!Parameters |-> json.values[k].v]
           ids == IF json.proper THEN json.ids ELSE dataset.ids
<1>1. /\ dataset.there /\ json.there /\ DF!Parameters \subseteq DOMAIN json.values
      /\ \A k \in DF!Parameters : DF!Reads(json.values[k], k = "maximum_period")
      /\ DF!validateRawParams(p)
      /\ dataset' = [dataset EXCEPT !.folder = json.folder, !.parameters = DF!Cast(p),
           !.ids = ids]
      /\ origin' = [there |-> TRUE, of |-> json.of, by |-> "json"]
      /\ disk' = disk
  BY DEF DF!readDatasetFromDisk
<1>2. json \in Jsons
  BY DEF DatasetInv, OnDisk
<1>3. dataset \in Datasets
  BY <1>1 DEF DatasetInv, DF!None
<1>4. \A k \in DF!Parameters : p[k] = json.values[k].v
  OBVIOUS
<1> HIDE DEF json, p, ids
<1>5. /\ json.folder \in 0..Word - 1 /\ json.ids \in Seq(Frames) /\ json.proper \in BOOLEAN
      /\ \A k \in DOMAIN json.values : json.values[k].num => json.values[k].v \in Int
      /\ json.of.there =>
           /\ json.proper /\ json.of.parameters \in [DF!Parameters -> Int]
           /\ json.of.parameters["capture_start_time"] \in 0..Word - 1
           /\ json.folder = json.of.folder /\ json.ids = json.of.ids
           /\ \A k \in DF!Parameters : json.values[k].v = json.of.parameters[k]
  BY <1>1, <1>2, JsonTypes
<1>6. p \in [DF!Parameters -> Int]
  <2>1. \A k \in DF!Parameters : json.values[k].v \in Int
    BY <1>1, <1>5 DEF DF!Reads
  <2> QED BY <2>1 DEF p
<1>7. /\ DF!Cast(p) \in [DF!Parameters -> Int] /\ DF!isValidConfiguration(DF!Cast(p))
      /\ DF!Cast(p)["target_frame_nb"] \in 0..MAX_SAMPLES
      /\ DF!Cast(p)["capture_start_time"] \in 0..Word - 1
      /\ DF!Cast(p)["capture_start_time"] = p["capture_start_time"] % Word
      /\ \A k \in DF!Parameters \ {"capture_start_time"} : DF!Cast(p)[k] = p[k]
  BY <1>1, <1>6, CastIsValid
<1>8. ids \in Seq(Frames) /\ (json.proper => ids = json.ids)
  BY <1>3, <1>5 DEF ids, Datasets
<1>9. /\ dataset'.there /\ dataset'.folder = json.folder /\ dataset'.parameters = DF!Cast(p)
      /\ dataset'.ids = ids /\ dataset'.cameras = dataset.cameras
      /\ dataset' \in [there : {TRUE}, folder : 0..Word - 1,
           parameters : [DF!Parameters -> Int],
                       cameras : DF!OnOff, ids : Seq(Frames)]
  BY <1>1, <1>3, <1>5, <1>7, <1>8 DEF Datasets
<1>10. dataset' \in Datasets
  BY <1>7, <1>9 DEF Datasets
<1>11. ASSUME json.of.there
       PROVE  /\ DF!Cast(p) = json.of.parameters /\ json.folder = json.of.folder
              /\ ids = json.of.ids /\ ids \in Seq(Frames)
  <2> DEFINE q == json.of.parameters
  <2>1. /\ q \in [DF!Parameters -> Int] /\ q["capture_start_time"] \in 0..Word - 1
        /\ \A k \in DF!Parameters : p[k] = q[k]
    BY <1>4, <1>5, <1>11
  <2> HIDE DEF q
  <2>2. q["capture_start_time"] % Word = q["capture_start_time"]
    BY <2>1, Reduced DEF DF!DatasetFilesAssumption
  <2>3. \A k \in DF!Parameters : DF!Cast(p)[k] = q[k]
    BY <1>7, <2>1, <2>2, ParameterNames
  <2>4. DF!Cast(p) = q
    BY <1>7, <2>1, <2>3
  <2> QED BY <1>5, <1>8, <1>11, <2>4 DEF q
<1>12. Faithful'
  <2>1. origin'.there /\ origin'.by = "json" /\ origin'.of = json.of
    BY <1>1
  <2> SUFFICES ASSUME json.of.there
               PROVE  /\ dataset'.parameters = json.of.parameters
                      /\ dataset'.folder = json.of.folder
                      /\ json.of.ids \in Seq(Frames) /\ Len(json.of.ids) <= Len(dataset'.ids)
                      /\ \A n \in 1..Len(json.of.ids) : dataset'.ids[n] = json.of.ids[n]
    BY <1>9, <2>1 DEF Faithful
  <2>2. Len(ids) \in Nat
    BY <1>8
  <2> QED BY <1>9, <1>11, <2>2
<1> QED BY <1>1, <1>10, <1>12 DEF DatasetInv, OnDisk

\* Every step of the dataset, and a crash, keeps the invariant.
LEMMA DatasetInvNext ==
  ASSUME DF!DatasetFilesAssumption, DatasetInv, [DF!Next]_(DF!vars)
  PROVE  DatasetInv'
<1>1. CASE UNCHANGED DF!vars
  BY <1>1 DEF DF!vars, DatasetInv, OnDisk, Faithful
<1> QED BY <1>1, CreateInv, AddStoredFrameIDInv, CrashInv, InitializeOnDiskInv,
           StoreDatasetToDiskInv, ReadFolderInv, readDatasetFromDiskInv DEF DF!Next

LEMMA DatasetInvImplies ==
  ASSUME DF!DatasetFilesAssumption, DatasetInv
  PROVE  DF!TypeOK /\ DF!ReadBackIsStored
<1>1. ASSUME dataset.there
      PROVE  /\ dataset.folder \in 0..Word - 1 /\ DF!ValidDataset /\ dataset.ids \in Seq(Frames)
  <2>1. dataset \in Datasets
    BY <1>1 DEF DatasetInv, DF!None
  <2> QED BY <2>1 DEF Datasets, DF!ValidDataset
<1>2. DF!TypeOK
  BY <1>1 DEF DatasetInv, OnDisk, Faithful, DF!TypeOK
<1>3. ASSUME dataset.there, origin.there, origin.of.there, origin.by = "json"
      PROVE  SubSeq(dataset.ids, 1, Len(origin.of.ids)) = origin.of.ids
  <2>1. /\ origin.of.ids \in Seq(Frames) /\ Len(origin.of.ids) <= Len(dataset.ids)
        /\ \A n \in 1..Len(origin.of.ids) : dataset.ids[n] = origin.of.ids[n]
    BY <1>3 DEF DatasetInv, Faithful
  <2>2. dataset.ids \in Seq(Frames)
    BY <1>1, <1>3
  <2> QED BY <2>1, <2>2
<1>4. DF!ReadBackIsStored
  BY <1>1, <1>3 DEF DatasetInv, Faithful, DF!ReadBackIsStored
<1> QED BY <1>2, <1>4

LEMMA DatasetInvariance == ASSUME DF!DatasetFilesAssumption PROVE DF!Spec => []DatasetInv
<1>1. DF!Init => DatasetInv
  BY DatasetInitInv
<1>2. DatasetInv /\ [DF!Next]_(DF!vars) => DatasetInv'
  BY DatasetInvNext
<1> QED BY <1>1, <1>2, PTL DEF DF!Spec

-----------------------------------------------------------------------------
\* The dataset in memory and the files of each folder keep their types, whatever was
\* uploaded, edited or cut.
THEOREM DatasetTypeCorrect == ASSUME DF!DatasetFilesAssumption PROVE DF!Spec => []DF!TypeOK
<1>1. DatasetInv => DF!TypeOK
  BY DatasetInvImplies
<1> QED BY <1>1, DatasetInvariance, PTL

\* A dataset in memory is valid; and one that was read from a file that the payload has
\* written whole has what the file was written for, with any crashes, uploads and edits
\* between (isValidConfigurationFile, CreateConfigurationFile, StoreDatasetToDisk,
\* fromJson).
THEOREM ReadBackIsStoredHolds == ASSUME DF!DatasetFilesAssumption PROVE DF!Spec
  => []DF!ReadBackIsStored
<1>1. DatasetInv => DF!ReadBackIsStored
  BY DatasetInvImplies
<1> QED BY <1>1, DatasetInvariance, PTL

=============================================================================
