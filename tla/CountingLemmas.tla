--------------------------- MODULE CountingLemmas ---------------------------
(***************************************************************************)
(* What several proof modules use: induction over the naturals for a set   *)
(* instead of a predicate, and sums as the number of cells of a table.     *)
(***************************************************************************)
EXTENDS Integers, Sequences, FiniteSetTheorems, FunctionTheorems, TLAPS

\* A set of naturals that is not empty has a least element.
LEMMA LeastNatural ==
  ASSUME NEW T, T \subseteq Nat, T # {}
  PROVE  \E m \in T : \A k \in T : m <= k
<1> DEFINE R == OpToRel(<, Nat)
<1>1. IsWellFoundedOn(R, Nat)
  BY NatLessThanWellFounded
<1>2. \A x, y \in Nat : x < y => <<x, y>> \in R
  BY DEF OpToRel
<1> HIDE DEF R
<1>3. PICK m \in T : \A k \in T : ~(<<k, m>> \in R)
  BY <1>1, WFMin
<1>4. ASSUME NEW k \in T PROVE m <= k
  <2>1. m \in Nat /\ k \in Nat
    OBVIOUS
  <2>2. ~(k < m)
    BY <1>2, <1>3, <2>1
  <2> QED BY <2>1, <2>2
<1> QED BY <1>4

\* A set that holds 0 and the successor of each of its members below n holds
\* all numbers up to n.
LEMMA IntervalInduction ==
  ASSUME NEW n \in Nat, NEW S, 0 \in S, \A i \in 0 .. n - 1 : i \in S => i + 1 \in S
  PROVE  0 .. n \subseteq S
<1> DEFINE T == (0 .. n) \ S
<1> SUFFICES ASSUME T # {} PROVE FALSE
  OBVIOUS
<1>0. T \subseteq Nat
  OBVIOUS
<1> HIDE DEF T
<1>1. PICK m \in T : \A k \in T : m <= k
  BY <1>0, LeastNatural
<1> USE DEF T
<1>2. m \in 0 .. n /\ m \notin S /\ m # 0
  BY <1>1
<1>3. m - 1 \in 0 .. n - 1
  BY <1>2
<1>4. m - 1 \in S
  BY <1>1, <1>3
<1>5. (m - 1) + 1 = m
  BY <1>2
<1> QED BY <1>2, <1>3, <1>4, <1>5

\* A set that holds a number as soon as it holds the ones from it up to n.
LEMMA BackwardInduction ==
  ASSUME NEW n \in Nat, NEW S, \A i \in 1 .. n : (\A j \in i + 1 .. n : j \in S) => i \in S
  PROVE  1 .. n \subseteq S
<1> DEFINE T == {n - i : i \in (1 .. n) \ S}
<1> SUFFICES ASSUME T # {} PROVE FALSE
  OBVIOUS
<1>0. T \subseteq Nat
  OBVIOUS
<1>1. PICK m \in T : \A k \in T : m <= k
  <2> HIDE DEF T
  <2> QED BY <1>0, LeastNatural
<1>2. PICK i \in (1 .. n) \ S : m = n - i
  BY <1>1
<1>3. ASSUME NEW j \in i + 1 .. n PROVE j \in S
  <2>1. j \in 1 .. n /\ n - j < n - i
    BY <1>2
  <2>2. ~(n - i <= n - j)
    BY <1>2, <2>1
  <2> QED BY <1>1, <1>2, <2>1, <2>2
<1> QED BY <1>2, <1>3

\* The cells of a table with h[i] cells in row i.
Cells(h) == {c \in (DOMAIN h) \X Nat : c[2] \in 1 .. h[c[1]]}

\* A row of k cells is finite and has k of them.
LEMMA RowCount ==
  ASSUME NEW i, NEW k \in Nat
  PROVE  IsFiniteSet({i} \X (1 .. k)) /\ Cardinality({i} \X (1 .. k)) = k
<1>1. IsFiniteSet({i}) /\ Cardinality({i}) = 1
  BY FS_Singleton
<1>2. IsFiniteSet(1 .. k) /\ Cardinality(1 .. k) = k
  BY FS_Interval
<1>3. IsFiniteSet({i} \X (1 .. k)) /\ Cardinality({i} \X (1 .. k)) = Cardinality({i}) * Cardinality(1 .. k)
  BY <1>1, <1>2, FS_Product
<1> QED BY <1>1, <1>2, <1>3

\* A table with finitely many rows is finite.
LEMMA CellsFinite ==
  ASSUME NEW D, IsFiniteSet(D), NEW h \in [D -> Nat]
  PROVE  IsFiniteSet(Cells(h)) /\ Cardinality(Cells(h)) \in Nat
<1> DEFINE Rows == {{i} \X (1 .. h[i]) : i \in D}
           f == [i \in D |-> {i} \X (1 .. h[i])]
<1>1. Cells(h) \subseteq UNION Rows
  BY DEF Cells
<1>2. IsFiniteSet(Rows)
  <2>1. f \in Surjection(D, Rows)
    BY DEF Surjection
  <2> HIDE DEF f, Rows
  <2> QED BY <2>1, FS_Surjection DEF ExistsSurjection
<1>3. \A T \in Rows : IsFiniteSet(T)
  <2> SUFFICES ASSUME NEW i \in D PROVE IsFiniteSet({i} \X (1 .. h[i]))
    OBVIOUS
  <2>1. h[i] \in Nat
    OBVIOUS
  <2> QED BY <2>1, RowCount
<1> HIDE DEF Rows
<1>4. IsFiniteSet(UNION Rows)
  BY <1>2, <1>3, FS_UNION
<1> QED BY <1>1, <1>4, FS_Subset, FS_CardinalityType

\* A table without one of its rows.
LEMMA CellsRest ==
  ASSUME NEW D, IsFiniteSet(D), NEW h \in [D -> Nat], NEW w \in D
  PROVE  LET R == {c \in Cells(h) : c[1] # w}
         IN  IsFiniteSet(R) /\ Cardinality(R) = Cardinality(Cells(h)) - h[w]
<1> DEFINE R == {c \in Cells(h) : c[1] # w}
           W == {w} \X (1 .. h[w])
<1>1. IsFiniteSet(Cells(h)) /\ Cardinality(Cells(h)) \in Nat
  BY CellsFinite
<1>2. IsFiniteSet(R) /\ Cardinality(R) \in Nat
  BY <1>1, FS_Subset, FS_CardinalityType
<1>3. IsFiniteSet(W) /\ Cardinality(W) = h[w]
  BY RowCount
<1>4. Cells(h) = R \cup W /\ R \cap W = {} /\ h[w] \in Nat
  BY DEF Cells
<1>5. Cardinality(R \cup W) = Cardinality(R) + Cardinality(W) - Cardinality(R \cap W)
  <2> HIDE DEF R, W
  <2> QED BY <1>2, <1>3, FS_Union
<1> HIDE DEF R, W
<1>6. Cardinality(Cells(h)) = Cardinality(R) + h[w] - 0
  BY <1>3, <1>4, <1>5, FS_EmptySet
<1> QED BY <1>2, <1>4, <1>6 DEF R

\* A row of another length.
LEMMA CellsSet ==
  ASSUME NEW D, IsFiniteSet(D), NEW h \in [D -> Nat], NEW w \in D, NEW k \in Nat
  PROVE  Cardinality(Cells([h EXCEPT ![w] = k])) = Cardinality(Cells(h)) - h[w] + k
<1> DEFINE g == [h EXCEPT ![w] = k]
<1>1. g \in [D -> Nat] /\ g[w] = k
  OBVIOUS
<1>2. {c \in Cells(h) : c[1] # w} = {c \in Cells(g) : c[1] # w}
  BY DEF Cells
<1> HIDE DEF g
<1>3. /\ Cardinality({c \in Cells(h) : c[1] # w}) = Cardinality(Cells(h)) - h[w]
      /\ Cardinality({c \in Cells(g) : c[1] # w}) = Cardinality(Cells(g)) - g[w]
      /\ Cardinality(Cells(h)) \in Nat /\ Cardinality(Cells(g)) \in Nat
  BY <1>1, CellsRest, CellsFinite
<1>4. h[w] \in Nat
  OBVIOUS
<1>5. Cardinality(Cells(h)) - h[w] = Cardinality(Cells(g)) - g[w]
  BY <1>2, <1>3
<1>6. Cardinality(Cells(g)) = Cardinality(Cells(h)) - h[w] + k
  BY <1>1, <1>3, <1>4, <1>5
<1> QED BY <1>6 DEF g

\* One row more at the end.
LEMMA CellsAppend ==
  ASSUME NEW m \in Nat, NEW h \in [1 .. m -> Nat], NEW g \in [1 .. m + 1 -> Nat], \A i \in 1 .. m : g[i] = h[i]
  PROVE  Cardinality(Cells(g)) = Cardinality(Cells(h)) + g[m + 1]
<1>1. {c \in Cells(g) : c[1] # m + 1} = Cells(h)
  BY DEF Cells
<1>2. m + 1 \in Nat /\ m + 1 \in 1 .. m + 1 /\ g[m + 1] \in Nat /\ IsFiniteSet(1 .. m + 1)
  BY FS_Interval
<1>3. /\ Cardinality({c \in Cells(g) : c[1] # m + 1}) = Cardinality(Cells(g)) - g[m + 1]
      /\ Cardinality(Cells(g)) \in Nat
  BY <1>2, CellsRest, CellsFinite
<1>4. Cardinality(Cells(h)) = Cardinality(Cells(g)) - g[m + 1]
  BY <1>1, <1>3
<1> QED BY <1>2, <1>3, <1>4

\* One row less at the front.
LEMMA CellsTail ==
  ASSUME NEW m \in Nat, NEW h \in [1 .. m + 1 -> Nat], NEW g \in [1 .. m -> Nat], \A i \in 1 .. m : g[i] = h[i + 1]
  PROVE  Cardinality(Cells(g)) = Cardinality(Cells(h)) - h[1]
<1> DEFINE R == {c \in Cells(h) : c[1] # 1}
           f == [c \in R |-> <<c[1] - 1, c[2]>>]
<1>1. IsFiniteSet(R) /\ Cardinality(R) = Cardinality(Cells(h)) - h[1]
  <2>1. 1 \in 1 .. m + 1 /\ IsFiniteSet(1 .. m + 1)
    BY FS_Interval
  <2> QED BY <2>1, CellsRest
<1>2. f \in Bijection(R, Cells(g))
  <2>0. \A c \in R : c = <<c[1], c[2]>> /\ c[1] \in 2 .. m + 1 /\ c[2] \in 1 .. h[c[1]] /\ c[2] \in Nat
    BY DEF Cells
  <2>1. f \in [R -> Cells(g)]
    <3> SUFFICES ASSUME NEW c \in R PROVE <<c[1] - 1, c[2]>> \in Cells(g)
      OBVIOUS
    <3>1. c[1] - 1 \in 1 .. m /\ g[c[1] - 1] = h[c[1]]
      BY <2>0
    <3> QED BY <2>0, <3>1 DEF Cells
  <2>2. \A c, d \in R : f[c] = f[d] => c = d
    <3> SUFFICES ASSUME NEW c \in R, NEW d \in R, c[1] - 1 = d[1] - 1, c[2] = d[2] PROVE c = d
      OBVIOUS
    <3>1. c[1] = d[1]
      BY <2>0
    <3> QED BY <2>0, <3>1
  <2>3. \A x \in Cells(g) : \E c \in R : f[c] = x
    <3> SUFFICES ASSUME NEW x \in Cells(g) PROVE \E c \in R : f[c] = x
      OBVIOUS
    <3>1. x = <<x[1], x[2]>> /\ x[1] \in 1 .. m /\ x[2] \in 1 .. g[x[1]] /\ x[2] \in Nat
      BY DEF Cells
    <3>2. <<x[1] + 1, x[2]>> \in R
      BY <3>1 DEF Cells
    <3>3. f[<<x[1] + 1, x[2]>>] = x
      BY <3>1, <3>2
    <3> QED BY <3>2, <3>3
  <2> HIDE DEF R, f
  <2> QED BY <2>1, <2>2, <2>3, Fun_IsBij
<1> HIDE DEF R, f
<1> QED BY <1>1, <1>2, FS_Bijection DEF ExistsBijection

\* A channel of numbers is a table; a send adds its number, a receive takes it.
LEMMA ChannelCells ==
  ASSUME NEW q \in Seq(Nat)
  PROVE  /\ Cardinality(Cells(q)) \in Nat
         /\ q = <<>> => Cardinality(Cells(q)) = 0
         /\ \A k \in Nat : Cardinality(Cells(Append(q, k))) = Cardinality(Cells(q)) + k
         /\ q # <<>> => Cardinality(Cells(Tail(q))) = Cardinality(Cells(q)) - Head(q)
<1>0. Len(q) \in Nat /\ q \in [1 .. Len(q) -> Nat] /\ IsFiniteSet(1 .. Len(q))
  BY FS_Interval
<1>1. Cardinality(Cells(q)) \in Nat
  BY <1>0, CellsFinite
<1>2. ASSUME q = <<>> PROVE Cardinality(Cells(q)) = 0
  <2>1. Cells(q) = {}
    BY <1>2 DEF Cells
  <2> QED BY <2>1, FS_EmptySet
<1>3. ASSUME NEW k \in Nat PROVE Cardinality(Cells(Append(q, k))) = Cardinality(Cells(q)) + k
  <2> DEFINE g == Append(q, k)
             m == Len(q)
  <2>1. g \in [1 .. m + 1 -> Nat] /\ g[m + 1] = k /\ \A i \in 1 .. m : g[i] = q[i]
    <3>1. g \in Seq(Nat) /\ Len(g) = m + 1
      OBVIOUS
    <3>2. g \in [1 .. m + 1 -> Nat]
      <4> HIDE DEF g, m
      <4> QED BY <3>1
    <3> QED BY <1>0, <3>2
  <2> HIDE DEF g, m
  <2>2. Cardinality(Cells(g)) = Cardinality(Cells(q)) + g[m + 1]
    BY <1>0, <2>1, CellsAppend DEF m
  <2> QED BY <2>1, <2>2 DEF g
<1>4. ASSUME q # <<>> PROVE Cardinality(Cells(Tail(q))) = Cardinality(Cells(q)) - Head(q)
  <2> DEFINE g == Tail(q)
             m == Len(q) - 1
  <2>1. /\ m \in Nat /\ q \in [1 .. m + 1 -> Nat] /\ Head(q) = q[1]
        /\ g \in [1 .. m -> Nat] /\ \A i \in 1 .. m : g[i] = q[i + 1]
    <3>1. g \in Seq(Nat) /\ Len(g) = m /\ m \in Nat
      BY <1>4
    <3>2. g \in [1 .. m -> Nat]
      <4> HIDE DEF g, m
      <4> QED BY <3>1
    <3>3. q \in [1 .. m + 1 -> Nat]
      BY <1>0
    <3> QED BY <1>0, <1>4, <3>1, <3>2, <3>3
  <2> HIDE DEF g, m
  <2>2. Cardinality(Cells(g)) = Cardinality(Cells(q)) - q[1]
    BY <2>1, CellsTail
  <2> QED BY <2>1, <2>2 DEF g
<1> QED BY <1>1, <1>2, <1>3, <1>4

\* The sum of a function over a finite set, as the library folds it, is the
\* number of cells of its table: the function by which the fold is defined
\* exists, and it has the number of cells in the rows of s at s.
LEMMA SumCounts ==
  ASSUME NEW S, IsFiniteSet(S), NEW h \in [S -> Nat]
  PROVE  LET iter[s \in SUBSET S] ==
               IF s = {} THEN 0
               ELSE LET x == CHOOSE x \in s : TRUE
                    IN  h[x] + iter[s \ {x}]
         IN  iter[S] = Cardinality(Cells(h))
<1> DEFINE Any(s) == CHOOSE x \in s : TRUE
           In(s) == {c \in Cells(h) : c[1] \in s}
           Is(f) == f = [s \in SUBSET S |-> IF s = {} THEN 0 ELSE h[Any(s)] + f[s \ {Any(s)}]]
           iter == CHOOSE f : Is(f)
           N == Cardinality(S)
<1>1. N \in Nat
  BY FS_CardinalityType
<1>2. ASSUME NEW s \in SUBSET S
      PROVE  /\ IsFiniteSet(In(s)) /\ Cardinality(In(s)) \in Nat
             /\ s = {} => Cardinality(In(s)) = 0
             /\ s # {} => /\ Any(s) \in s /\ s \ {Any(s)} \in SUBSET S
                          /\ Cardinality(In(s)) = h[Any(s)] + Cardinality(In(s \ {Any(s)}))
  <2>1. IsFiniteSet(In(s)) /\ Cardinality(In(s)) \in Nat
    BY CellsFinite, FS_Subset, FS_CardinalityType
  <2>2. ASSUME s = {} PROVE Cardinality(In(s)) = 0
    <3>1. In(s) = {}
      BY <2>2
    <3> QED BY <3>1, FS_EmptySet
  <2>3. ASSUME s # {}
        PROVE  /\ Any(s) \in s /\ s \ {Any(s)} \in SUBSET S
               /\ Cardinality(In(s)) = h[Any(s)] + Cardinality(In(s \ {Any(s)}))
    <3>1. Any(s) \in s
      BY <2>3
    <3> HIDE DEF Any
    <3> DEFINE g == [i \in s |-> h[i]]
               R == {c \in Cells(g) : c[1] # Any(s)}
    <3>2. g \in [s -> Nat] /\ IsFiniteSet(s) /\ g[Any(s)] = h[Any(s)] /\ h[Any(s)] \in Nat
      BY <3>1, FS_Subset
    <3>3. In(s) = Cells(g) /\ In(s \ {Any(s)}) = R
      BY DEF Cells
    <3>4. Cardinality(R) = Cardinality(Cells(g)) - g[Any(s)] /\ Cardinality(Cells(g)) \in Nat
      <4> HIDE DEF g
      <4> QED BY <3>1, <3>2, CellsRest, CellsFinite
    <3> HIDE DEF g, R, In
    <3>5. Cardinality(In(s)) = h[Any(s)] + Cardinality(In(s \ {Any(s)}))
      BY <3>2, <3>3, <3>4
    <3> QED BY <3>1, <3>5
  <2> HIDE DEF In, Any
  <2> QED BY <2>1, <2>2, <2>3
<1> HIDE DEF In, Any
<1>3. Is(iter)
  <2> DEFINE f == [s \in SUBSET S |-> Cardinality(In(s))]
  <2>1. ASSUME NEW s \in SUBSET S PROVE f[s] = IF s = {} THEN 0 ELSE h[Any(s)] + f[s \ {Any(s)}]
    BY <1>2
  <2>2. Is(f)
    BY <2>1
  <2> HIDE DEF f, Is
  <2> QED BY <2>2
<1>4. iter[S] = Cardinality(In(S))
  <2> DEFINE D == {k \in 0 .. N : \A s \in SUBSET S : Cardinality(s) = k => iter[s] = Cardinality(In(s))}
  <2> HIDE DEF iter, N
  <2>0. \A s \in SUBSET S : IsFiniteSet(s) /\ Cardinality(s) \in Nat
    BY FS_Subset, FS_CardinalityType
  <2>1. 0 \in D
    <3>1. ASSUME NEW s \in SUBSET S, Cardinality(s) = 0 PROVE iter[s] = Cardinality(In(s))
      <4>1. s = {}
        BY <2>0, <3>1, FS_EmptySet
      <4>2. iter[s] = 0
        BY <1>3, <4>1
      <4> QED BY <1>2, <4>1, <4>2
    <3> QED BY <1>1, <3>1
  <2>2. ASSUME NEW k \in 0 .. N - 1, k \in D PROVE k + 1 \in D
    <3>1. ASSUME NEW s \in SUBSET S, Cardinality(s) = k + 1 PROVE iter[s] = Cardinality(In(s))
      <4>1. s # {}
        BY <3>1, FS_EmptySet
      <4>2. Any(s) \in s /\ s \ {Any(s)} \in SUBSET S
        BY <1>2, <4>1
      <4>3. Cardinality(s \ {Any(s)}) = k
        BY <2>0, <3>1, <4>2, FS_RemoveElement
      <4>4. iter[s] = h[Any(s)] + iter[s \ {Any(s)}]
        BY <1>3, <4>1
      <4>5. iter[s \ {Any(s)}] = Cardinality(In(s \ {Any(s)}))
        BY <2>2, <4>2, <4>3
      <4> QED BY <1>2, <4>1, <4>4, <4>5
    <3> QED BY <1>1, <3>1
  <2> HIDE DEF D
  <2>3. 0 .. N \subseteq D
    BY <1>1, <2>1, <2>2, IntervalInduction
  <2>4. N \in D
    BY <1>1, <2>3
  <2> QED BY <2>4 DEF D, N
<1>5. In(S) = Cells(h)
  BY DEF In, Cells
<1> QED BY <1>4, <1>5 DEF Any

\* A function whose value at i is given, or is its value at a place behind i,
\* exists.
LEMMA ForwardRecursion ==
  ASSUME NEW n \in Nat, NEW v \in [1 .. n -> Nat], NEW nx \in [1 .. n -> Nat],
         \A i \in 1 .. n : nx[i] = 0 \/ nx[i] \in i + 1 .. n
  PROVE  \E f \in [1 .. n -> Nat] : \A i \in 1 .. n : f[i] = IF nx[i] = 0 THEN v[i] ELSE f[nx[i]]
<1> DEFINE Is(f, d) == \A i \in n + 1 - d .. n : f[i] = IF nx[i] = 0 THEN v[i] ELSE f[nx[i]]
           D == {d \in 0 .. n : \E f \in [n + 1 - d .. n -> Nat] : Is(f, d)}
<1>1. 0 \in D
  <2> DEFINE f == [i \in n + 1 .. n |-> 0]
  <2>1. n + 1 - 0 = n + 1 /\ \A i : i \notin n + 1 .. n
    OBVIOUS
  <2>2. Is(f, 0) /\ f \in [n + 1 - 0 .. n -> Nat]
    BY <2>1
  <2> HIDE DEF f, Is
  <2> QED BY <2>2
<1>2. ASSUME NEW d \in 0 .. n - 1, d \in D PROVE d + 1 \in D
  <2>1. PICK f \in [n + 1 - d .. n -> Nat] : Is(f, d)
    BY <1>2
  <2> DEFINE k == n - d
             g == [i \in k .. n |-> IF i = k THEN (IF nx[k] = 0 THEN v[k] ELSE f[nx[k]]) ELSE f[i]]
  <2>2. k \in 1 .. n /\ n + 1 - (d + 1) = k /\ n + 1 - d = k + 1 /\ d + 1 \in 0 .. n
    OBVIOUS
  <2> HIDE DEF k
  <2>3. f \in [k + 1 .. n -> Nat] /\ \A i \in k + 1 .. n : f[i] = IF nx[i] = 0 THEN v[i] ELSE f[nx[i]]
    BY <2>1, <2>2
  <2>4. ASSUME NEW i \in k .. n PROVE g[i] = (IF nx[i] = 0 THEN v[i] ELSE g[nx[i]]) /\ g[i] \in Nat
    <3>1. i \in 1 .. n /\ (nx[i] = 0 \/ nx[i] \in i + 1 .. n)
      BY <2>2
    <3>2. nx[i] # 0 => nx[i] \in k + 1 .. n /\ nx[i] \in k .. n /\ nx[i] # k
      <4>1. ASSUME NEW e \in i + 1 .. n PROVE e \in k + 1 .. n /\ e \in k .. n /\ e # k
        <5>1. k \in Int /\ i \in Int /\ i >= k /\ e \in Int /\ e >= i + 1 /\ e <= n
          BY <2>2
        <5> QED BY <5>1
      <4> QED BY <3>1, <4>1
    <3>3. nx[i] # 0 => g[nx[i]] = f[nx[i]] /\ f[nx[i]] \in Nat
      BY <2>3, <3>2
    <3>4. CASE i = k
      BY <2>2, <3>1, <3>3, <3>4
    <3>5. CASE i # k
      <4>1. i \in k + 1 .. n
        BY <2>2, <3>5
      <4>2. f[i] = (IF nx[i] = 0 THEN v[i] ELSE f[nx[i]]) /\ f[i] \in Nat
        BY <2>3, <4>1
      <4> QED BY <3>3, <3>5, <4>2
    <3> QED BY <3>4, <3>5
  <2>5. g \in [k .. n -> Nat] /\ \A i \in k .. n : g[i] = IF nx[i] = 0 THEN v[i] ELSE g[nx[i]]
    BY <2>4
  <2> HIDE DEF g
  <2>6. g \in [n + 1 - (d + 1) .. n -> Nat] /\ Is(g, d + 1)
    BY <2>2, <2>5
  <2> HIDE DEF Is
  <2> QED BY <2>2, <2>6
<1> HIDE DEF D
<1>3. 0 .. n \subseteq D
  BY <1>1, <1>2, IntervalInduction
<1>4. n \in D
  BY <1>3
<1>5. PICK f \in [n + 1 - n .. n -> Nat] : Is(f, n)
  BY <1>4 DEF D
<1>6. n + 1 - n = 1
  OBVIOUS
<1> QED BY <1>5, <1>6

\* A loop that starts with x0 and makes a step for each number up to n has a
\* value after each of them.
LoopBody(n, X) == [1 .. n -> [X -> X]]
IsLoop(f, n, X, x0, step) == f \in [0 .. n -> X] /\ f[0] = x0 /\ \A i \in 1 .. n : f[i] = step[i][f[i - 1]]

LEMMA LoopRecursion ==
  ASSUME NEW n \in Nat, NEW X, NEW x0 \in X, NEW step \in LoopBody(n, X)
  PROVE  \E f : IsLoop(f, n, X, x0, step)
<1> USE DEF LoopBody
<1> DEFINE Is(f, m) == f[0] = x0 /\ \A i \in 1 .. m : f[i] = step[i][f[i - 1]]
           D == {m \in 0 .. n : \E f \in [0 .. m -> X] : Is(f, m)}
<1>1. 0 \in D
  <2> DEFINE f == [i \in 0 .. 0 |-> x0]
  <2>1. f \in [0 .. 0 -> X] /\ Is(f, 0)
    OBVIOUS
  <2> HIDE DEF f, Is
  <2> QED BY <2>1
<1>2. ASSUME NEW m \in 0 .. n - 1, m \in D PROVE m + 1 \in D
  <2>1. PICK f \in [0 .. m -> X] : Is(f, m)
    BY <1>2
  <2> DEFINE g == [i \in 0 .. m + 1 |-> IF i = m + 1 THEN step[m + 1][f[m]] ELSE f[i]]
  <2>2. m + 1 \in 1 .. n /\ m \in 0 .. m /\ step[m + 1][f[m]] \in X
    <3>1. m + 1 \in 1 .. n /\ f[m] \in X
      OBVIOUS
    <3>2. step[m + 1] \in [X -> X]
      BY <3>1
    <3> QED BY <3>1, <3>2
  <2>3. g \in [0 .. m + 1 -> X]
    <3> SUFFICES ASSUME NEW i \in 0 .. m + 1 PROVE g[i] \in X
      OBVIOUS
    <3>1. i # m + 1 => i \in 0 .. m
      OBVIOUS
    <3> QED BY <2>2, <3>1
  <2>4. Is(g, m + 1)
    <3>1. g[0] = x0
      BY <2>1
    <3>2. ASSUME NEW i \in 1 .. m + 1 PROVE g[i] = step[i][g[i - 1]]
      <4>1. i - 1 \in 0 .. m + 1 /\ i - 1 # m + 1 /\ g[i - 1] = f[i - 1]
        OBVIOUS
      <4>2. CASE i = m + 1
        <5>1. i - 1 = m /\ g[i] = step[m + 1][f[m]]
          BY <4>2
        <5> QED BY <4>1, <4>2, <5>1
      <4>3. CASE i # m + 1
        <5>1. i \in 1 .. m /\ g[i] = f[i]
          BY <4>3
        <5> QED BY <2>1, <4>1, <5>1
      <4> QED BY <4>2, <4>3
    <3> HIDE DEF g
    <3> QED BY <3>1, <3>2
  <2> HIDE DEF g, Is
  <2>5. m + 1 \in 0 .. n
    OBVIOUS
  <2> QED BY <2>3, <2>4, <2>5
<1>3. n \in D
  <2> HIDE DEF D
  <2>1. 0 .. n \subseteq D
    BY <1>1, <1>2, IntervalInduction
  <2> QED BY <2>1
<1> QED BY <1>3 DEF IsLoop
=============================================================================
