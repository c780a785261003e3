---------------------------- MODULE TotalsProofs ----------------------------
(***************************************************************************)
(* Facts about totals: what one changed value does to a total, and what    *)
(* bounds it.                                                              *)
(***************************************************************************)
EXTENDS Totals, Integers, FiniteSetTheorems, FunctionTheorems, TLAPS

\* The tokens of a function: one for each unit of each value.
LEMMA TokenIs ==
    ASSUME NEW S, NEW f \in [S -> Nat]
    PROVE  \A t : t \in Tokens(f) <=> \E x \in S, i \in Nat : t = <<x, i>> /\ 1 <= i /\ i <= f[x]
  BY DEF Tokens

\* The tokens of one element.
LEMMA TokensOfOne ==
    ASSUME NEW x, NEW n \in Nat
    PROVE  IsFiniteSet({x} \X (1..n)) /\ Cardinality({x} \X (1..n)) = n
  <1>1. IsFiniteSet({x}) /\ Cardinality({x}) = 1
    BY FS_Singleton
  <1>2. IsFiniteSet(1..n) /\ Cardinality(1..n) = n
    BY FS_Interval
  <1>3. IsFiniteSet({x} \X (1..n)) /\ Cardinality({x} \X (1..n)) = Cardinality({x}) * Cardinality(1..n)
    BY <1>1, <1>2, FS_Product
  <1> QED
    BY <1>1, <1>2, <1>3

\* A function with finite domain and natural values has a total.
LEMMA TotalType ==
    ASSUME NEW S, IsFiniteSet(S), NEW f \in [S -> Nat]
    PROVE  IsFiniteSet(Tokens(f)) /\ Total(f) \in Nat
  <1> DEFINE part == [x \in S |-> {x} \X (1..f[x])]
             parts == {part[x] : x \in S}
  <1>1. Tokens(f) = UNION parts
    BY DEF Tokens
  <1>2. IsFiniteSet(parts)
    <2>1. part \in Surjection(S, parts)
      BY DEF Surjection
    <2> HIDE DEF parts, part
    <2> QED
      BY <2>1, FS_Surjection
  <1>3. \A T \in parts : IsFiniteSet(T)
    <2> SUFFICES ASSUME NEW x \in S
                 PROVE  IsFiniteSet(part[x])
      OBVIOUS
    <2>1. f[x] \in Nat /\ part[x] = {x} \X (1..f[x])
      OBVIOUS
    <2> QED
      BY <2>1, TokensOfOne
  <1>4. IsFiniteSet(UNION parts)
    <2> HIDE DEF parts
    <2> QED
      BY <1>2, <1>3, FS_UNION
  <1>5. IsFiniteSet(Tokens(f))
    BY <1>1, <1>4
  <1> QED
    BY <1>5, FS_CardinalityType DEF Total

\* What one element contributes, and the rest.
LEMMA TotalSplit ==
    ASSUME NEW S, IsFiniteSet(S), NEW f \in [S -> Nat], NEW x \in S
    PROVE  LET rest == Tokens(f) \ ({x} \X (1..f[x]))
           IN  /\ IsFiniteSet(rest)
               /\ Cardinality(rest) \in Nat
               /\ Total(f) = Cardinality(rest) + f[x]
  <1> DEFINE own == {x} \X (1..f[x])
             rest == Tokens(f) \ own
  <1>1. f[x] \in Nat /\ IsFiniteSet(own) /\ Cardinality(own) = f[x]
    BY TokensOfOne
  <1>2. IsFiniteSet(Tokens(f)) /\ Total(f) \in Nat
    BY TotalType
  <1>3. own \subseteq Tokens(f)
    BY DEF Tokens
  <1>4. Tokens(f) \cap own = own
    BY <1>3
  <1> HIDE DEF own
  <1>5. IsFiniteSet(rest) /\ Cardinality(rest) = Cardinality(Tokens(f)) - Cardinality(Tokens(f) \cap own)
    BY <1>2, FS_Difference
  <1>6. Cardinality(rest) \in Nat
    BY <1>5, FS_CardinalityType
  <1>7. Cardinality(rest) = Total(f) - f[x]
    BY <1>1, <1>4, <1>5 DEF Total
  <1>8. Total(f) = Cardinality(rest) + f[x]
    BY <1>1, <1>2, <1>6, <1>7
  <1> QED
    BY <1>5, <1>6, <1>8 DEF own

\* One value changes: the total changes by the difference.
LEMMA TotalChange ==
    ASSUME NEW S, IsFiniteSet(S), NEW f \in [S -> Nat], NEW g \in [S -> Nat], NEW x \in S,
           \A y \in S \ {x} : g[y] = f[y]
    PROVE  Total(g) + f[x] = Total(f) + g[x]
  <1> DEFINE restF == Tokens(f) \ ({x} \X (1..f[x]))
             restG == Tokens(g) \ ({x} \X (1..g[x]))
  <1>1. restF = {t \in Tokens(f) : t[1] # x}
    BY DEF Tokens
  <1>2. restG = {t \in Tokens(g) : t[1] # x}
    BY DEF Tokens
  <1>3. {t \in Tokens(f) : t[1] # x} = {t \in Tokens(g) : t[1] # x}
    BY DEF Tokens
  <1>4. restF = restG
    BY <1>1, <1>2, <1>3
  <1>5. Cardinality(restF) \in Nat /\ Total(f) = Cardinality(restF) + f[x]
    BY TotalSplit
  <1>6. Cardinality(restG) \in Nat /\ Total(g) = Cardinality(restG) + g[x]
    BY TotalSplit
  <1> HIDE DEF restF, restG
  <1>7. f[x] \in Nat /\ g[x] \in Nat
    OBVIOUS
  <1> QED
    BY <1>4, <1>5, <1>6, <1>7

\* Two values change and their sum does not: neither does the total.
LEMMA TotalMove ==
    ASSUME NEW S, IsFiniteSet(S), NEW f \in [S -> Nat], NEW g \in [S -> Nat],
           NEW x \in S, NEW y \in S, x # y,
           \A z \in S \ {x, y} : g[z] = f[z],
           g[x] + g[y] = f[x] + f[y]
    PROVE  Total(g) = Total(f)
  <1> DEFINE h == [f EXCEPT ![x] = g[x]]
  <1>0. f[x] \in Nat /\ f[y] \in Nat /\ g[x] \in Nat /\ g[y] \in Nat
    OBVIOUS
  <1>1. h \in [S -> Nat] /\ h[x] = g[x] /\ h[y] = f[y] /\ \A z \in S \ {x} : h[z] = f[z]
    OBVIOUS
  <1>2. \A z \in S \ {y} : g[z] = h[z]
    BY <1>1
  <1> HIDE DEF h
  <1>3. Total(h) + f[x] = Total(f) + h[x]
    BY <1>1, TotalChange
  <1>4. Total(g) + h[y] = Total(h) + g[y]
    BY <1>1, <1>2, TotalChange
  <1>5. Total(f) \in Nat /\ Total(g) \in Nat /\ Total(h) \in Nat
    BY <1>1, TotalType
  <1> QED
    BY <1>0, <1>1, <1>3, <1>4, <1>5

\* The total of a function that is nowhere less is no less.
LEMMA TotalMonotone ==
    ASSUME NEW S, IsFiniteSet(S), NEW f \in [S -> Nat], NEW g \in [S -> Nat],
           \A x \in S : f[x] <= g[x]
    PROVE  Total(f) <= Total(g)
  <1>1. Tokens(f) \subseteq Tokens(g)
    <2> SUFFICES ASSUME NEW t \in Tokens(f)
                 PROVE  t \in Tokens(g)
      OBVIOUS
    <2>1. PICK x \in S, i \in Nat : t = <<x, i>> /\ 1 <= i /\ i <= f[x]
      BY TokenIs
    <2>2. f[x] \in Nat /\ g[x] \in Nat /\ f[x] <= g[x]
      OBVIOUS
    <2>3. i <= g[x]
      BY <2>1, <2>2
    <2> QED
      BY <2>1, <2>3, TokenIs
  <1>2. IsFiniteSet(Tokens(g))
    BY TotalType
  <1> QED
    BY <1>1, <1>2, FS_Subset DEF Total

\* Values of at most m, and none but zero outside T: at most m for each
\* element of T.
LEMMA TotalBound ==
    ASSUME NEW S, IsFiniteSet(S), NEW f \in [S -> Nat], NEW m \in Nat, NEW T \in SUBSET S,
           \A x \in S : f[x] <= m,
           \A x \in S \ T : f[x] = 0
    PROVE  Total(f) <= Cardinality(T) * m
  <1>1. Tokens(f) \subseteq T \X (1..m)
    <2> SUFFICES ASSUME NEW t \in Tokens(f)
                 PROVE  t \in T \X (1..m)
      OBVIOUS
    <2>1. PICK x \in S, i \in Nat : t = <<x, i>> /\ 1 <= i /\ i <= f[x]
      BY TokenIs
    <2>2. f[x] \in Nat /\ f[x] <= m
      OBVIOUS
    <2>3. x \in T
      BY <2>1, <2>2
    <2>4. i \in 1..m
      BY <2>1, <2>2
    <2> QED
      BY <2>1, <2>3, <2>4
  <1>2. IsFiniteSet(T) /\ IsFiniteSet(1..m) /\ Cardinality(1..m) = m
    BY FS_Subset, FS_Interval
  <1>3. IsFiniteSet(T \X (1..m)) /\ Cardinality(T \X (1..m)) = Cardinality(T) * Cardinality(1..m)
    BY <1>2, FS_Product
  <1> QED
    BY <1>1, <1>2, <1>3, FS_Subset DEF Total

\* A function that is zero everywhere has the total zero.
LEMMA TotalZero ==
    ASSUME NEW S, NEW f \in [S -> Nat], \A x \in S : f[x] = 0
    PROVE  Total(f) = 0
  <1>1. Tokens(f) = {}
    BY TokenIs
  <1> QED
    BY <1>1, FS_EmptySet DEF Total

\* One value is a part of the total, and all of it if the others are zero.
LEMMA TotalOfOne ==
    ASSUME NEW S, IsFiniteSet(S), NEW f \in [S -> Nat], NEW x \in S
    PROVE  /\ f[x] <= Total(f)
           /\ (\A y \in S \ {x} : f[y] = 0) => Total(f) = f[x]
  <1>1. f[x] <= Total(f)
    <2> DEFINE rest == Tokens(f) \ ({x} \X (1..f[x]))
    <2>1. Cardinality(rest) \in Nat /\ Total(f) = Cardinality(rest) + f[x] /\ f[x] \in Nat
      BY TotalSplit
    <2> HIDE DEF rest
    <2> QED
      BY <2>1
  <1>2. ASSUME \A y \in S \ {x} : f[y] = 0
        PROVE  Total(f) = f[x]
    <2> DEFINE z == [y \in S |-> 0]
    <2>1. z \in [S -> Nat] /\ z[x] = 0 /\ (\A y \in S : z[y] = 0) /\ \A y \in S \ {x} : f[y] = z[y]
      BY <1>2
    <2> HIDE DEF z
    <2>2. Total(z) = 0
      BY <2>1, TotalZero
    <2>3. Total(f) + z[x] = Total(z) + f[x]
      BY <2>1, TotalChange
    <2>4. Total(f) \in Nat /\ f[x] \in Nat
      BY TotalType
    <2> QED
      BY <2>1, <2>2, <2>3, <2>4
  <1> QED
    BY <1>1, <1>2

\* Values moved to other places, none to the same one, and not raised: the
\* total is not raised.
LEMMA TotalShift ==
    ASSUME NEW S, IsFiniteSet(S), NEW f \in [S -> Nat], NEW g \in [S -> Nat],
           NEW T \in SUBSET S, NEW h \in [T -> S],
           \A x, y \in T : h[x] = h[y] => x = y,
           \A x \in S \ T : g[x] = 0,
           \A x \in T : g[x] <= f[h[x]]
    PROVE  Total(g) <= Total(f)
  <1> DEFINE m == [t \in Tokens(g) |-> <<h[t[1]], t[2]>>]
  <1>1. ASSUME NEW t \in Tokens(g)
        PROVE  \E x \in T, i \in Nat : t = <<x, i>> /\ 1 <= i /\ i <= g[x]
    <2>1. PICK x \in S, i \in Nat : t = <<x, i>> /\ 1 <= i /\ i <= g[x]
      BY TokenIs
    <2>2. x \in T
      BY <2>1
    <2> QED
      BY <2>1, <2>2
  <1>2. ASSUME NEW t \in Tokens(g)
        PROVE  <<h[t[1]], t[2]>> \in Tokens(f)
    <2>1. PICK x \in T, i \in Nat : t = <<x, i>> /\ 1 <= i /\ i <= g[x]
      BY <1>1
    <2>2. h[x] \in S /\ g[x] <= f[h[x]] /\ g[x] \in Nat /\ f[h[x]] \in Nat
      OBVIOUS
    <2>3. 1 <= i /\ i <= f[h[x]]
      BY <2>1, <2>2
    <2> QED
      BY <2>1, <2>2, <2>3, TokenIs
  <1>3. m \in [Tokens(g) -> Tokens(f)]
    BY <1>2
  <1>4. ASSUME NEW s \in Tokens(g), NEW t \in Tokens(g), m[s] = m[t]
        PROVE  s = t
    <2>1. PICK x \in T, i \in Nat : s = <<x, i>>
      BY <1>1
    <2>2. PICK y \in T, j \in Nat : t = <<y, j>>
      BY <1>1
    <2>3. h[x] = h[y] /\ i = j
      BY <1>4, <2>1, <2>2
    <2> QED
      BY <2>1, <2>2, <2>3
  <1> HIDE DEF m
  <1>5. m \in Injection(Tokens(g), Tokens(f))
    BY <1>3, <1>4, Fun_IsInj
  <1>6. IsFiniteSet(Tokens(f))
    BY TotalType
  <1> QED
    BY <1>5, <1>6, FS_Injection DEF Total
\* A set with one more element.
LEMMA OneElement ==
    ASSUME NEW S, NEW x, IsFiniteSet(S)
    PROVE  /\ IsFiniteSet(S \cup {x}) /\ Cardinality(S \cup {x}) \in Nat /\ Cardinality(S) \in Nat
           /\ Cardinality(S \cup {x}) <= Cardinality(S) + 1
           /\ x \notin S => Cardinality(S \cup {x}) = Cardinality(S) + 1
  <1>1. IsFiniteSet(S \cup {x}) /\ (x \notin S => Cardinality(S \cup {x}) = Cardinality(S) + 1)
    BY FS_AddElement
  <1>2. x \in S => Cardinality(S \cup {x}) = Cardinality(S)
    BY FS_AddElement
  <1>3. Cardinality(S) \in Nat /\ Cardinality(S \cup {x}) \in Nat
    BY <1>1, FS_CardinalityType
  <1> QED
    BY <1>1, <1>2, <1>3

=============================================================================
