----------------------------- MODULE PageLemmas -----------------------------
(***************************************************************************)
(* Facts about rounding to pages, for any page size P, and about adding up *)
(* the pages that several processes hold.                                  *)
(***************************************************************************)
EXTENDS Integers, FiniteSets, Functions, TLAPS, FiniteSetTheorems,
        FunctionTheorems, WellFoundedInduction

\* Division by P leaves a remainder below P.
LEMMA DivMod ==
    ASSUME NEW P \in Nat \ {0}, NEW x \in Nat
    PROVE  /\ x \div P \in Nat
           /\ x % P \in 0..(P - 1)
           /\ x = P * (x \div P) + (x % P)
  BY SMT

\* The bytes below P are on the first page.
LEMMA DivZero ==
    ASSUME NEW P \in Nat \ {0}, NEW x \in 0..(P - 1)
    PROVE  x \div P = 0
  BY SMT

\* A whole number of pages is that number of pages.
LEMMA DivTimes ==
    ASSUME NEW P \in Nat \ {0}, NEW k \in Nat
    PROVE  (P * k) \div P = k
<1> DEFINE a == (P * k) \div P
           r == (P * k) % P
<1>1. P * k \in Nat
  BY SMT
<1>2. a \in Nat /\ r \in 0..(P - 1) /\ P * k = P * a + r
  BY <1>1, DivMod
<1> HIDE DEF a, r
<1>3. CASE a + 1 <= k
  <2>1. P * (a + 1) <= P * k /\ P * (a + 1) = P * a + P
    BY <1>2, <1>3, SMT
  <2> QED BY <1>1, <1>2, <2>1, SMT
<1>4. CASE k + 1 <= a
  <2>1. P * (k + 1) <= P * a /\ P * (k + 1) = P * k + P
    BY <1>2, <1>4, SMT
  <2> QED BY <1>1, <1>2, <2>1, SMT
<1> QED BY <1>2, <1>3, <1>4 DEF a

\* A later byte is not on an earlier page.
LEMMA DivMonotone ==
    ASSUME NEW P \in Nat \ {0}, NEW x \in Nat, NEW y \in Nat, x <= y
    PROVE  x \div P <= y \div P
<1> DEFINE a == x \div P
           b == y \div P
           r == x % P
           s == y % P
<1>1. /\ a \in Nat /\ b \in Nat /\ r \in 0..(P - 1) /\ s \in 0..(P - 1)
      /\ x = P * a + r
      /\ y = P * b + s
  BY DivMod
<1> HIDE DEF a, b, r, s
<1>2. SUFFICES ASSUME b + 1 <= a PROVE FALSE
  BY <1>1 DEF a, b
<1>3. P * (b + 1) <= P * a
  BY <1>1, <1>2, SMT
<1>4. P * (b + 1) = P * b + P
  BY <1>1, SMT
<1> QED BY <1>1, <1>3, <1>4, SMT

\* A byte at least P further on is on a later page.
LEMMA DivStrict ==
    ASSUME NEW P \in Nat \ {0}, NEW x \in Nat, NEW y \in Nat, x + P <= y
    PROVE  x \div P < y \div P
<1> DEFINE a == x \div P
           b == y \div P
           r == x % P
           s == y % P
<1>1. /\ a \in Nat /\ b \in Nat /\ r \in 0..(P - 1) /\ s \in 0..(P - 1)
      /\ x = P * a + r
      /\ y = P * b + s
  BY DivMod
<1> HIDE DEF a, b, r, s
<1>2. SUFFICES ASSUME b <= a PROVE FALSE
  BY <1>1 DEF a, b
<1>3. P * b <= P * a
  BY <1>1, <1>2, SMT
<1> QED BY <1>1, <1>3, SMT

\* Rounding down to a multiple of P goes down, by less than P, not below zero.
LEMMA RoundDown ==
    ASSUME NEW P \in Nat \ {0}, NEW x \in Nat
    PROVE  x - (x % P) \in 0..x /\ x < (x - (x % P)) + P
<1>1. /\ x \div P \in Nat
      /\ x % P \in 0..(P - 1)
      /\ x = P * (x \div P) + (x % P)
  BY DivMod
<1>2. P * (x \div P) \in Nat
  BY <1>1, SMT
<1> QED BY <1>1, <1>2, SMT

\* The next byte is on the same page or on the next one.
LEMMA DivNext ==
    ASSUME NEW P \in Nat \ {0}, NEW x \in Nat
    PROVE  (x + 1) \div P <= (x \div P) + 1
<1> DEFINE a == x \div P
           b == (x + 1) \div P
           r == x % P
           s == (x + 1) % P
<1>1. /\ a \in Nat /\ b \in Nat /\ r \in 0..(P - 1) /\ s \in 0..(P - 1)
      /\ x = P * a + r
      /\ x + 1 = P * b + s
  <2>1. x + 1 \in Nat
    OBVIOUS
  <2> QED BY <2>1, DivMod
<1> HIDE DEF a, b, r, s
<1>2. SUFFICES ASSUME a + 2 <= b PROVE FALSE
  BY <1>1 DEF a, b
<1>3. P * (a + 2) <= P * b
  BY <1>1, <1>2, SMT
<1>4. P * (a + 2) = P * a + 2 * P
  BY <1>1, SMT
<1> QED BY <1>1, <1>3, <1>4, SMT

\* The pages up to a byte, and those between two bytes, in bytes.
LEMMA PagesInBytes ==
    ASSUME NEW P \in Nat \ {0}, NEW x \in Nat, NEW y \in Nat
    PROVE  /\ P * ((y \div P) + 1) <= y + P
           /\ P * ((y \div P) - (x \div P)) <= y - x + (P - 1)
<1> DEFINE a == x \div P
           b == y \div P
           r == x % P
           s == y % P
<1>1. /\ a \in Nat /\ b \in Nat /\ r \in 0..(P - 1) /\ s \in 0..(P - 1)
      /\ x = P * a + r
      /\ y = P * b + s
  BY DivMod
<1> HIDE DEF a, b, r, s
<1>2. P * (b + 1) = P * b + P /\ P * (b - a) = P * b - P * a
  BY <1>1, SMT
<1>3. P * b \in Nat /\ P * a \in Nat
  BY <1>1, SMT
<1>4. P * (b + 1) <= y + P /\ P * (b - a) <= y - x + (P - 1)
  BY <1>1, <1>2, <1>3, SMT
<1> QED BY <1>4 DEF a, b

\* The sum of two whole numbers of pages is one.
LEMMA AlignedSum ==
    ASSUME NEW P \in Nat \ {0}, NEW x \in Nat, NEW y \in Nat,
           x % P = 0, y % P = 0
    PROVE  (x + y) % P = 0
<1> DEFINE a == x \div P
           b == y \div P
           c == (x + y) \div P
           r == (x + y) % P
<1>1. a \in Nat /\ b \in Nat /\ x = P * a /\ y = P * b
  BY DivMod
<1>2. c \in Nat /\ r \in 0..(P - 1) /\ x + y = P * c + r
  <2>1. x + y \in Nat
    OBVIOUS
  <2> QED BY <2>1, DivMod
<1> HIDE DEF a, b, c, r
<1>3. P * (a + b) = P * a + P * b
  BY <1>1, SMT
<1>4. SUFFICES r = 0
  BY DEF r
<1>5. CASE c = a + b
  BY <1>1, <1>2, <1>3, <1>5, SMT
<1>6. CASE c + 1 <= a + b
  <2>1. P * (c + 1) <= P * (a + b) /\ P * (c + 1) = P * c + P
    BY <1>1, <1>2, <1>6, SMT
  <2> QED BY <1>1, <1>2, <1>3, <2>1, SMT
<1>7. CASE a + b + 1 <= c
  <2>1. P * (a + b + 1) <= P * c /\ P * (a + b + 1) = P * (a + b) + P
    BY <1>1, <1>2, <1>7, SMT
  <2> QED BY <1>1, <1>2, <1>3, <2>1, SMT
<1> QED BY <1>1, <1>2, <1>5, <1>6, <1>7

\* A whole number of pages that is less than a page above another is no more.
LEMMA WholePages ==
    ASSUME NEW P \in Nat \ {0}, NEW n \in Nat, NEW c \in Nat,
           n * P <= P * c + (P - 1)
    PROVE  n * P <= P * c
<1>1. P * c \in Nat /\ n * P = P * n /\ P * n \in Nat
  BY SMT
<1>2. CASE n <= c
  <2>1. P * n <= P * c
    BY <1>2, SMT
  <2> QED BY <1>1, <2>1
<1>3. CASE c + 1 <= n
  <2>1. P * (c + 1) <= P * n /\ P * (c + 1) = P * c + P
    BY <1>3, SMT
  <2> QED BY <1>1, <2>1
<1> QED BY <1>2, <1>3

\* A set of pages within a range is no larger than the range.
LEMMA PagesCounted ==
    ASSUME NEW a \in Int, NEW b \in Int, NEW S \in SUBSET (a..b)
    PROVE  /\ Cardinality(S) \in Nat
           /\ a <= b + 1 => Cardinality(S) <= b - a + 1
<1>1. IsFiniteSet(a..b)
  BY FS_Interval
<1>2. /\ IsFiniteSet(S) /\ Cardinality(S) <= Cardinality(a..b)
  BY <1>1, FS_Subset
<1>3. Cardinality(S) \in Nat
  BY <1>2, FS_CardinalityType
<1>4. a <= b + 1 => Cardinality(a..b) = b - a + 1
  <2>1. CASE a > b
    <3>1. a..b = {} /\ Cardinality({}) = 0
      BY <2>1, FS_EmptySet
    <3> QED BY <2>1, <3>1
  <2>2. CASE a <= b
    BY <2>2, FS_Interval
  <2> QED BY <2>1, <2>2
<1>5. Cardinality(a..b) \in Nat
  BY <1>1, FS_CardinalityType
<1> QED BY <1>2, <1>3, <1>4, <1>5

\* A whole number of pages and less than one more is that number of pages.
LEMMA DivUnique ==
    ASSUME NEW P \in Nat \ {0}, NEW k \in Nat, NEW r \in 0..(P - 1)
    PROVE  (P * k + r) \div P = k
<1> DEFINE a == (P * k + r) \div P
           s == (P * k + r) % P
<1>1. P * k + r \in Nat /\ P * k \in Nat
  BY SMT
<1>2. a \in Nat /\ s \in 0..(P - 1) /\ P * k + r = P * a + s
  BY <1>1, DivMod
<1> HIDE DEF a, s
<1>3. P * a \in Nat
  BY <1>2, SMT
<1>4. CASE a + 1 <= k
  <2>1. P * (a + 1) <= P * k /\ P * (a + 1) = P * a + P
    BY <1>2, <1>4, SMT
  <2> QED BY <1>1, <1>2, <1>3, <2>1
<1>5. CASE k + 1 <= a
  <2>1. P * (k + 1) <= P * a /\ P * (k + 1) = P * k + P
    BY <1>2, <1>5, SMT
  <2> QED BY <1>1, <1>2, <1>3, <2>1
<1> QED BY <1>2, <1>4, <1>5 DEF a

-----------------------------------------------------------------------------
\* A set of subsets of a finite set has a smallest member: one that no other
\* member is a part of.
LEMMA Smallest ==
    ASSUME NEW S, IsFiniteSet(S), NEW B \in SUBSET SUBSET S, B # {}
    PROVE  \E T \in B : \A U \in SUBSET T : U # T => U \notin B
<1>1. B \subseteq FiniteSubsetsOf(S)
  BY FS_FiniteSubsetsOfFinite
<1>2. PICK T \in B : \A U \in B : <<U, T>> \notin StrictSubsetOrdering(S)
  BY <1>1, FS_StrictSubsetOrderingWellFounded, WFMin
<1>3. ASSUME NEW U \in SUBSET T, U # T, U \in B PROVE FALSE
  <2>1. <<U, T>> \in (SUBSET S) \X (SUBSET S)
    BY <1>3
  <2> QED BY <1>2, <1>3, <2>1 DEF StrictSubsetOrdering
<1> QED BY <1>2, <1>3

\* For each member of s, as many pairs as f gives it.
Stack(f, s) == {p \in s \X Nat : p[2] < f[p[1]]}

\* One more member adds its own pairs.
LEMMA StackStep ==
    ASSUME NEW S, IsFiniteSet(S), NEW f, \A x \in S : f[x] \in Nat,
           NEW x \in S, IsFiniteSet(Stack(f, S \ {x}))
    PROVE  /\ IsFiniteSet(Stack(f, S))
           /\ Cardinality(Stack(f, S)) = f[x] + Cardinality(Stack(f, S \ {x}))
<1> DEFINE I == 0..(f[x] - 1)
           C == Stack(f, {x})
           R == Stack(f, S \ {x})
<1>1. IsFiniteSet(I) /\ Cardinality(I) = f[x]
  BY FS_Interval
<1>2. IsFiniteSet(C) /\ Cardinality(C) = f[x]
  <2> DEFINE b == [i \in I |-> <<x, i>>]
  <2>1. b \in [I -> C]
    BY DEF Stack
  <2>2. \A i, j \in I : b[i] = b[j] => i = j
    OBVIOUS
  <2>3. \A p \in C : \E i \in I : b[i] = p
    <3> SUFFICES ASSUME NEW p \in C PROVE \E i \in I : b[i] = p
      OBVIOUS
    <3>1. p = <<x, p[2]>> /\ p[2] \in I
      BY DEF Stack
    <3> QED BY <3>1
  <2> HIDE DEF b, C, I
  <2>4. b \in Bijection(I, C)
    BY <2>1, <2>2, <2>3, Fun_IsBij
  <2>5. ExistsBijection(I, C)
    BY <2>4, Fun_ExistsBij
  <2> QED BY <1>1, <2>5, FS_Bijection
<1>3. Stack(f, S) = C \cup R /\ C \cap R = {}
  BY DEF Stack
<1>4. Cardinality(C \cap R) = 0
  BY <1>3, FS_EmptySet
<1>5. Cardinality(R) \in Nat
  BY FS_CardinalityType
<1>6. f[x] \in Nat
  OBVIOUS
<1>7. IsFiniteSet(R)
  OBVIOUS
<1> HIDE DEF C, R
<1>8. /\ IsFiniteSet(C \cup R)
      /\ Cardinality(C \cup R) =
            Cardinality(C) + Cardinality(R) - Cardinality(C \cap R)
  BY <1>2, <1>7, FS_Union
<1> QED BY <1>2, <1>3, <1>4, <1>5, <1>6, <1>8 DEF R

\* Finitely many counts are finitely many pairs: take a smallest set whose
\* pairs are not, and a member off it.
LEMMA StackFinite ==
    ASSUME NEW S, IsFiniteSet(S), NEW f, \A x \in S : f[x] \in Nat
    PROVE  IsFiniteSet(Stack(f, S)) /\ Cardinality(Stack(f, S)) \in Nat
<1> DEFINE B == {T \in SUBSET S : ~IsFiniteSet(Stack(f, T))}
<1>1. ASSUME B # {} PROVE FALSE
  <2>1. PICK T \in B : \A U \in SUBSET T : U # T => U \notin B
    <3> HIDE DEF B
    <3>1. B \in SUBSET SUBSET S
      BY DEF B
    <3> QED BY <1>1, <3>1, Smallest
  <2>2. IsFiniteSet(T)
    BY FS_Subset
  <2>3. CASE T = {}
    <3>1. Stack(f, T) = {}
      BY <2>3 DEF Stack
    <3> QED BY <3>1, FS_EmptySet
  <2>4. ASSUME NEW x \in T PROVE FALSE
    <3>1. IsFiniteSet(Stack(f, T \ {x}))
      BY <2>1
    <3>2. IsFiniteSet(Stack(f, T))
      BY <2>2, <3>1, StackStep
    <3> QED BY <3>2
  <2> QED BY <2>3, <2>4
<1>2. IsFiniteSet(Stack(f, S))
  BY <1>1
<1> QED BY <1>2, FS_CardinalityType

\* The sum of the community modules is the number of pairs: a smallest set
\* where they differ would have a member, and differ without it as well.
LEMMA SumIsCount ==
    ASSUME NEW S, IsFiniteSet(S), NEW f, \A x \in S : f[x] \in Nat
    PROVE  SumFunctionOnSet(f, S) = Cardinality(Stack(f, S))
<1> DEFINE Of(g) == [s \in SUBSET S |->
                        IF s = {} THEN 0
                        ELSE LET x == CHOOSE x \in s : TRUE
                             IN  f[x] + g[s \ {x}]]
           c == [s \in SUBSET S |-> Cardinality(Stack(f, s))]
           h == CHOOSE g : g = Of(g)
<1>1. ASSUME NEW s \in SUBSET S, s # {}
      PROVE  LET x == CHOOSE x \in s : TRUE
             IN  x \in s /\ c[s] = f[x] + c[s \ {x}]
  <2> DEFINE x == CHOOSE x \in s : TRUE
  <2>1. x \in s
    BY <1>1
  <2> HIDE DEF x
  <2>2. IsFiniteSet(s) /\ IsFiniteSet(s \ {x})
    BY FS_Subset
  <2>3. IsFiniteSet(Stack(f, s \ {x}))
    BY <2>2, StackFinite
  <2>4. Cardinality(Stack(f, s)) = f[x] + Cardinality(Stack(f, s \ {x}))
    BY <2>1, <2>2, <2>3, StackStep
  <2>5. c[s] = f[x] + c[s \ {x}]
    BY <2>4
  <2> QED BY <2>1, <2>5 DEF x
<1>2. c[{}] = 0
  <2>1. Stack(f, {}) = {}
    BY DEF Stack
  <2> QED BY <2>1, FS_EmptySet
<1>3. DOMAIN c = SUBSET S /\ c = [s \in SUBSET S |-> c[s]]
  OBVIOUS
<1> HIDE DEF c
<1>4. c = Of(c)
  <2>1. \A s \in SUBSET S : c[s] = Of(c)[s]
    BY <1>1, <1>2
  <2> QED BY <1>3, <2>1
<1>5. h = Of(h)
  BY <1>4
<1>6. SumFunctionOnSet(f, S) = h[S]
  BY DEF SumFunctionOnSet, FoldFunctionOnSet, MapThenFoldSet
<1>7. \A s \in SUBSET S : h[s] = c[s]
  <2> DEFINE B == {s \in SUBSET S : h[s] # c[s]}
  <2>1. h[{}] = 0 /\ \A s \in SUBSET S : s # {} =>
             h[s] = LET x == CHOOSE x \in s : TRUE IN f[x] + h[s \ {x}]
    <3> HIDE DEF h
    <3>1. \A s \in SUBSET S : h[s] = Of(h)[s]
      BY <1>5
    <3> QED BY <3>1
  <2> HIDE DEF h
  <2>2. ASSUME B # {} PROVE FALSE
    <3>1. PICK T \in B : \A U \in SUBSET T : U # T => U \notin B
      <4>1. B \in SUBSET SUBSET S
        OBVIOUS
      <4> HIDE DEF B
      <4> QED BY <2>2, <4>1, Smallest
    <3>2. T # {}
      BY <1>2, <2>1
    <3> DEFINE x == CHOOSE x \in T : TRUE
    <3>3. x \in T /\ c[T] = f[x] + c[T \ {x}]
      BY <1>1, <3>2
    <3>4. h[T] = f[x] + h[T \ {x}]
      BY <2>1, <3>2
    <3>5. T \ {x} \in SUBSET T /\ T \ {x} # T /\ T \ {x} \in SUBSET S
      BY <3>3
    <3>6. h[T \ {x}] = c[T \ {x}]
      BY <3>1, <3>5
    <3> QED BY <3>3, <3>4, <3>6
  <2> QED BY <2>2
<1> QED BY <1>6, <1>7 DEF c

\* A sum of counts is a count.
LEMMA SumNat ==
    ASSUME NEW S, IsFiniteSet(S), NEW f, \A x \in S : f[x] \in Nat
    PROVE  SumFunctionOnSet(f, S) \in Nat
  BY SumIsCount, StackFinite

\* One member of the set apart from the others.
LEMMA SumStep ==
    ASSUME NEW S, IsFiniteSet(S), NEW f, \A x \in S : f[x] \in Nat, NEW x \in S
    PROVE  SumFunctionOnSet(f, S) = f[x] + SumFunctionOnSet(f, S \ {x})
<1>1. IsFiniteSet(S \ {x})
  BY FS_Subset
<1>2. IsFiniteSet(Stack(f, S \ {x}))
  BY <1>1, StackFinite
<1> QED BY <1>1, <1>2, StackStep, SumIsCount

\* Only what the set's members are given counts.
LEMMA SumSame ==
    ASSUME NEW S, IsFiniteSet(S), NEW f, NEW g,
           \A x \in S : f[x] \in Nat /\ g[x] = f[x]
    PROVE  SumFunctionOnSet(g, S) = SumFunctionOnSet(f, S)
<1>1. Stack(g, S) = Stack(f, S)
  BY DEF Stack
<1> QED BY <1>1, SumIsCount

\* A sum follows the one member whose count changes.
LEMMA SumChange ==
    ASSUME NEW S, IsFiniteSet(S), NEW f, NEW g, NEW x \in S,
           \A y \in S : f[y] \in Nat /\ g[y] \in Nat,
           \A y \in S : y # x => g[y] = f[y]
    PROVE  SumFunctionOnSet(g, S) + f[x] = SumFunctionOnSet(f, S) + g[x]
<1> DEFINE R == S \ {x}
<1>1. IsFiniteSet(R)
  BY FS_Subset
<1>2. SumFunctionOnSet(f, S) = f[x] + SumFunctionOnSet(f, R)
  BY SumStep
<1>3. SumFunctionOnSet(g, S) = g[x] + SumFunctionOnSet(g, R)
  BY SumStep
<1>4. SumFunctionOnSet(g, R) = SumFunctionOnSet(f, R)
  BY <1>1, SumSame
<1>5. SumFunctionOnSet(f, R) \in Nat
  BY <1>1, SumNat
<1> QED BY <1>2, <1>3, <1>4, <1>5

\* No sum shrinks when no count does.
LEMMA SumAtMost ==
    ASSUME NEW S, IsFiniteSet(S), NEW f, NEW g,
           \A x \in S : f[x] \in Nat /\ g[x] \in Nat /\ f[x] <= g[x]
    PROVE  SumFunctionOnSet(f, S) <= SumFunctionOnSet(g, S)
<1>1. Stack(f, S) \subseteq Stack(g, S)
  BY DEF Stack
<1>2. IsFiniteSet(Stack(g, S))
  BY StackFinite
<1>3. Cardinality(Stack(f, S)) <= Cardinality(Stack(g, S))
  BY <1>1, <1>2, FS_Subset
<1> QED BY <1>3, SumIsCount

\* Nothing adds up to nothing.
LEMMA SumZero ==
    ASSUME NEW S, IsFiniteSet(S), NEW f, \A x \in S : f[x] = 0
    PROVE  SumFunctionOnSet(f, S) = 0
<1>1. Stack(f, S) = {}
  BY DEF Stack
<1> QED BY <1>1, FS_EmptySet, SumIsCount
=============================================================================
