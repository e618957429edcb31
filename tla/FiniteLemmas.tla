---------------------------- MODULE FiniteLemmas ----------------------------
(***************************************************************************)
(* Facts about finite sets that the proofs need: least and largest         *)
(* members, ascending orderings, and what SumFunctionOnSet of the community*)
(* modules computes.  It adds the values of a function in an order fixed   *)
(* by CHOOSE; the lemmas say that the order does not matter.  Induction is *)
(* by a least counterexample (NatLeast): the library's induction theorems  *)
(* take an operator as a parameter.                                        *)
(***************************************************************************)
EXTENDS Integers, FiniteSets, Functions, FiniteSetTheorems, WellFoundedInduction, TLAPS

\* Every set of natural numbers that is not empty has a least element.
LEMMA NatLeast ==
    ASSUME NEW T, T \subseteq Nat, T # {}
    PROVE  \E m \in T : \A n \in T : m <= n
<1> DEFINE R == {ss \in Nat \X Nat : ss[1] < ss[2]}
<1>1. IsWellFoundedOn(R, Nat)
  BY NatLessThanWellFounded DEF OpToRel
<1> HIDE DEF R
<1>2. PICK x \in T : \A y \in T : ~ (<<y, x>> \in R)
  BY <1>1, WFMin
<1>3. \A y \in T : ~ (y < x)
  BY <1>2 DEF R
<1> QED BY <1>3

\* Among finite sets with some property one is smallest.
LEMMA LeastSet ==
    ASSUME NEW C, C # {}, \A s \in C : IsFiniteSet(s)
    PROVE  \E m \in C : \A s \in C : Cardinality(m) <= Cardinality(s)
<1> DEFINE T == {Cardinality(s) : s \in C}
<1>1. \A s \in C : Cardinality(s) \in Nat
  BY FS_CardinalityType
<1>2. T \subseteq Nat /\ T # {}
  BY <1>1
<1>3. PICK n \in T : \A k \in T : n <= k
  BY <1>2, NatLeast
<1> QED BY <1>3

-----------------------------------------------------------------------------
Chosen(s) == CHOOSE x \in s : TRUE

\* The recursion of MapThenFoldSet, for a sum.
Adds(h, f, S) ==
    h = [s \in SUBSET S |-> IF s = {} THEN 0 ELSE f[Chosen(s)] + h[s \ {Chosen(s)}]]

LEMMA SumIsFold ==
    ASSUME NEW f, NEW S
    PROVE  SumFunctionOnSet(f, S) = (CHOOSE h : Adds(h, f, S))[S]
BY DEF SumFunctionOnSet, FoldFunctionOnSet, MapThenFoldSet, Adds, Chosen

LEMMA PickIn == ASSUME NEW s, s # {} PROVE Chosen(s) \in s
BY DEF Chosen

\* Removing an element of a finite set makes it smaller.
LEMMA Smaller ==
    ASSUME NEW s, IsFiniteSet(s), NEW x \in s
    PROVE  /\ IsFiniteSet(s \ {x}) /\ Cardinality(s \ {x}) \in Nat
           /\ Cardinality(s) \in Nat /\ Cardinality(s \ {x}) < Cardinality(s)
<1>1. IsFiniteSet(s \ {x}) /\ Cardinality(s \ {x}) = Cardinality(s) - 1
  BY FS_RemoveElement
<1>2. Cardinality(s) \in Nat /\ Cardinality(s \ {x}) \in Nat
  BY <1>1, FS_CardinalityType
<1> QED BY <1>1, <1>2

\* A function that adds up exists: the sets of at most n elements first.
LEMMA SumExists ==
    ASSUME NEW f, NEW S, IsFiniteSet(S)
    PROVE  \E h : Adds(h, f, S)
<1> DEFINE Small(n) == {s \in SUBSET S : Cardinality(s) <= n}
           Part(n, h) == h = [s \in Small(n) |-> IF s = {} THEN 0 ELSE f[Chosen(s)] + h[s \ {Chosen(s)}]]
           Bad == {n \in Nat : ~\E h : Part(n, h)}
<1>1. \A s \in SUBSET S : IsFiniteSet(s) /\ Cardinality(s) \in Nat
  BY FS_Subset, FS_CardinalityType
<1>2. ASSUME NEW n \in Nat, n = 0 \/ n - 1 \notin Bad PROVE n \notin Bad
  <2>1. CASE n = 0
    <3> DEFINE h == [s \in Small(0) |-> 0]
    <3>1. \A s \in Small(0) : s = {}
      BY <1>1, FS_EmptySet
    <3>2. Part(0, h)
      BY <3>1
    <3> HIDE DEF Part
    <3> QED BY <3>2, <2>1
  <2>2. CASE n # 0
    <3>1. n - 1 \in Nat
      BY <2>2
    <3>2. PICK g : Part(n - 1, g)
      BY <1>2, <2>2, <3>1
    <3> DEFINE h == [s \in Small(n) |-> IF s = {} THEN 0 ELSE f[Chosen(s)] + g[s \ {Chosen(s)}]]
    <3>3. ASSUME NEW s \in Small(n), s # {} PROVE s \ {Chosen(s)} \in Small(n - 1)
      BY <3>3, PickIn, Smaller, <1>1
    <3>4. ASSUME NEW s \in Small(n - 1) PROVE h[s] = g[s]
      <4>1. s \in Small(n)
        BY <1>1
      <4>2. g[s] = IF s = {} THEN 0 ELSE f[Chosen(s)] + g[s \ {Chosen(s)}]
        BY <3>2
      <4> QED BY <4>1, <4>2
    <3>5. Part(n, h)
      BY <3>3, <3>4
    <3> HIDE DEF Part
    <3> QED BY <3>5
  <2> QED BY <2>1, <2>2
<1>3. Bad = {}
  <2> SUFFICES ASSUME Bad # {} PROVE FALSE
    OBVIOUS
  <2> HIDE DEF Part
  <2>1. PICK m \in Bad : \A n \in Bad : m <= n
    BY NatLeast
  <2>2. m \in Nat
    OBVIOUS
  <2>3. m = 0 \/ m - 1 \notin Bad
    <3> HIDE DEF Bad
    <3> QED BY <2>1, <2>2
  <2> QED BY <1>2, <2>1, <2>2, <2>3
<1>4. PICK h : Part(Cardinality(S), h)
  <2> HIDE DEF Part
  <2> QED BY <1>3, <1>1
<1>5. Small(Cardinality(S)) = SUBSET S
  BY FS_Subset, <1>1
<1> QED BY <1>4, <1>5 DEF Adds

\* It is determined by f, also between a set and its subsets.
LEMMA SumUnique ==
    ASSUME NEW f, NEW S, IsFiniteSet(S), NEW T \in SUBSET S,
           NEW g, Adds(g, f, S), NEW h, Adds(h, f, T)
    PROVE  \A s \in SUBSET T : g[s] = h[s]
<1> DEFINE Bad == {s \in SUBSET T : g[s] # h[s]}
<1> SUFFICES ASSUME Bad # {} PROVE FALSE
    OBVIOUS
<1>1. \A s \in Bad : IsFiniteSet(s)
  BY FS_Subset
<1>2. PICK m \in Bad : \A s \in Bad : Cardinality(m) <= Cardinality(s)
  <2> HIDE DEF Bad
  <2> QED BY <1>1, LeastSet
<1>3. m # {}
  BY DEF Adds
<1> DEFINE r == m \ {Chosen(m)}
<1>4. r \in SUBSET T /\ r \notin Bad
  BY <1>1, <1>2, <1>3, PickIn, Smaller
<1>5. g[m] = f[Chosen(m)] + g[r] /\ h[m] = f[Chosen(m)] + h[r]
  BY <1>3 DEF Adds
<1> QED BY <1>4, <1>5

\* The sum over a set, one element of it at a time.
LEMMA SumStep ==
    ASSUME NEW f, NEW S, IsFiniteSet(S)
    PROVE  /\ SumFunctionOnSet(f, {}) = 0
           /\ S # {} => SumFunctionOnSet(f, S) = f[Chosen(S)] + SumFunctionOnSet(f, S \ {Chosen(S)})
<1>1. ASSUME NEW T \in SUBSET S, NEW g, Adds(g, f, S)
      PROVE  SumFunctionOnSet(f, T) = g[T]
  <2> DEFINE h == CHOOSE k : Adds(k, f, T)
  <2>1. Adds(h, f, T)
    BY SumExists, FS_Subset
  <2>2. SumFunctionOnSet(f, T) = h[T]
    BY SumIsFold
  <2> HIDE DEF h
  <2>3. g[T] = h[T]
    BY <1>1, <2>1, SumUnique
  <2> QED BY <2>2, <2>3
<1>2. PICK g : Adds(g, f, S)
  BY SumExists
<1>3. g[{}] = 0 /\ (S # {} => g[S] = f[Chosen(S)] + g[S \ {Chosen(S)}])
  BY <1>2 DEF Adds
<1> QED BY <1>1, <1>2, <1>3

LEMMA SumInt ==
    ASSUME NEW S, IsFiniteSet(S), NEW f, \A x \in S : f[x] \in Int
    PROVE  SumFunctionOnSet(f, S) \in Int
<1> DEFINE Bad == {s \in SUBSET S : SumFunctionOnSet(f, s) \notin Int}
<1> SUFFICES ASSUME Bad # {} PROVE FALSE
    OBVIOUS
<1>1. \A s \in Bad : IsFiniteSet(s)
  BY FS_Subset
<1>2. PICK m \in Bad : \A s \in Bad : Cardinality(m) <= Cardinality(s)
  <2> HIDE DEF Bad
  <2> QED BY <1>1, LeastSet
<1>3. m # {}
  <2>1. SumFunctionOnSet(f, {}) = 0
    BY SumStep
  <2> QED BY <2>1
<1>4. m \ {Chosen(m)} \notin Bad
  BY <1>1, <1>2, <1>3, PickIn, Smaller
<1>5. Chosen(m) \in S
  BY <1>3, PickIn
<1> QED BY <1>1, <1>3, <1>4, <1>5, SumStep

\* Any element may be taken out first.
LEMMA SumTakes ==
    ASSUME NEW S, IsFiniteSet(S), NEW f, \A x \in S : f[x] \in Int, NEW x \in S
    PROVE  SumFunctionOnSet(f, S) = f[x] + SumFunctionOnSet(f, S \ {x})
<1> DEFINE sum(s) == SumFunctionOnSet(f, s)
           Bad == {s \in SUBSET S : \E y \in s : sum(s) # f[y] + sum(s \ {y})}
<1> SUFFICES ASSUME Bad # {} PROVE FALSE
    OBVIOUS
<1>1. \A s \in SUBSET S : IsFiniteSet(s)
  BY FS_Subset
<1>2. PICK m \in Bad : \A s \in Bad : Cardinality(m) <= Cardinality(s)
  <2> HIDE DEF Bad
  <2>1. Bad \subseteq SUBSET S
    BY DEF Bad
  <2> QED BY <1>1, <2>1, LeastSet
<1>3. PICK y \in m : sum(m) # f[y] + sum(m \ {y})
  OBVIOUS
<1> DEFINE z == Chosen(m)
<1>4. z \in m /\ sum(m) = f[z] + sum(m \ {z})
  BY <1>1, <1>3, SumStep, PickIn
<1> HIDE DEF z
<1>5. y # z
  BY <1>3, <1>4
<1>6. m \ {z} \notin Bad /\ m \ {y} \notin Bad /\ m \ {z} \in SUBSET S /\ m \ {y} \in SUBSET S
  <2>1. ASSUME NEW w \in m PROVE m \ {w} \notin Bad /\ m \ {w} \in SUBSET S
    <3>1. m \in SUBSET S
      OBVIOUS
    <3>2. IsFiniteSet(m)
      BY <1>1, <3>1
    <3>3. Cardinality(m \ {w}) < Cardinality(m) /\ Cardinality(m) \in Nat /\ Cardinality(m \ {w}) \in Nat
      BY <3>2, Smaller
    <3> HIDE DEF Bad
    <3> QED BY <1>2, <3>1, <3>3
  <2> QED BY <1>3, <1>4, <2>1
<1>7. /\ sum(m \ {z}) = f[y] + sum((m \ {z}) \ {y})
      /\ sum(m \ {y}) = f[z] + sum((m \ {y}) \ {z})
  BY <1>3, <1>4, <1>5, <1>6
<1>8. (m \ {z}) \ {y} = (m \ {y}) \ {z}
  OBVIOUS
<1>9. /\ f[y] \in Int /\ f[z] \in Int
      /\ sum((m \ {z}) \ {y}) \in Int
  <2>1. (m \ {z}) \ {y} \in SUBSET S
    OBVIOUS
  <2> QED BY <1>1, <1>3, <1>4, <2>1, SumInt
<1> DEFINE rest == sum((m \ {z}) \ {y})
           all == sum(m)
           less == sum(m \ {y})
<1>10. all = f[z] + (f[y] + rest) /\ less = f[z] + rest /\ all # f[y] + less
  BY <1>3, <1>4, <1>7, <1>8
<1>11. f[y] \in Int /\ f[z] \in Int /\ rest \in Int
  BY <1>9
<1> HIDE DEF all, less, rest, Bad
<1> QED BY <1>10, <1>11

\* What the proofs cite: the sum over the empty set, over a set with one more
\* element, and of functions that agree.
LEMMA SumEmpty == ASSUME NEW f PROVE SumFunctionOnSet(f, {}) = 0
BY SumStep, FS_EmptySet

LEMMA SumAdd ==
    ASSUME NEW S, IsFiniteSet(S), NEW x, x \notin S,
           NEW f, f[x] \in Int, \A y \in S : f[y] \in Int
    PROVE  SumFunctionOnSet(f, S \cup {x}) = f[x] + SumFunctionOnSet(f, S)
<1>1. IsFiniteSet(S \cup {x}) /\ (S \cup {x}) \ {x} = S
  BY FS_AddElement
<1> QED BY <1>1, SumTakes

LEMMA SumSame ==
    ASSUME NEW S, IsFiniteSet(S), NEW f, NEW g, \A x \in S : f[x] = g[x]
    PROVE  SumFunctionOnSet(f, S) = SumFunctionOnSet(g, S)
<1> DEFINE Bad == {s \in SUBSET S : SumFunctionOnSet(f, s) # SumFunctionOnSet(g, s)}
<1> SUFFICES ASSUME Bad # {} PROVE FALSE
    OBVIOUS
<1>1. \A s \in Bad : IsFiniteSet(s)
  BY FS_Subset
<1>2. PICK m \in Bad : \A s \in Bad : Cardinality(m) <= Cardinality(s)
  <2> HIDE DEF Bad
  <2> QED BY <1>1, LeastSet
<1>3. m # {}
  <2>1. SumFunctionOnSet(f, {}) = 0 /\ SumFunctionOnSet(g, {}) = 0
    BY SumEmpty
  <2> QED BY <2>1
<1>4. m \ {Chosen(m)} \notin Bad
  BY <1>1, <1>2, <1>3, PickIn, Smaller
<1>5. Chosen(m) \in S
  BY <1>3, PickIn
<1> QED BY <1>1, <1>3, <1>4, <1>5, SumStep

\* Changing one term changes the sum by the difference.
LEMMA SumChange ==
    ASSUME NEW S, IsFiniteSet(S), NEW x \in S,
           NEW f, NEW g, \A y \in S : f[y] \in Int /\ g[y] \in Int,
           \A y \in S \ {x} : g[y] = f[y]
    PROVE  SumFunctionOnSet(g, S) = SumFunctionOnSet(f, S) + g[x] - f[x]
<1> DEFINE rest == SumFunctionOnSet(f, S \ {x})
<1>1. IsFiniteSet(S \ {x})
  BY FS_RemoveElement
<1>2. SumFunctionOnSet(f, S) = f[x] + rest /\ SumFunctionOnSet(g, S) = g[x] + SumFunctionOnSet(g, S \ {x})
  BY SumTakes
<1>3. SumFunctionOnSet(g, S \ {x}) = rest
  BY <1>1, SumSame
<1>4. rest \in Int
  BY <1>1, SumInt
<1> HIDE DEF rest
<1> QED BY <1>2, <1>3, <1>4

\* A sum of natural numbers is one.
LEMMA SumNat ==
    ASSUME NEW S, IsFiniteSet(S), NEW f, \A x \in S : f[x] \in Nat
    PROVE  SumFunctionOnSet(f, S) \in Nat
<1> DEFINE Bad == {s \in SUBSET S : SumFunctionOnSet(f, s) \notin Nat}
<1> SUFFICES ASSUME Bad # {} PROVE FALSE
    OBVIOUS
<1>1. \A s \in Bad : IsFiniteSet(s)
  BY FS_Subset
<1>2. PICK m \in Bad : \A s \in Bad : Cardinality(m) <= Cardinality(s)
  <2> HIDE DEF Bad
  <2> QED BY <1>1, LeastSet
<1>3. m # {}
  <2>1. SumFunctionOnSet(f, {}) = 0
    BY SumEmpty
  <2> QED BY <2>1
<1>4. m \ {Chosen(m)} \notin Bad
  BY <1>1, <1>2, <1>3, PickIn, Smaller
<1>5. Chosen(m) \in S
  BY <1>3, PickIn
<1> QED BY <1>1, <1>3, <1>4, <1>5, SumStep

\* A sum of zeros is zero.
LEMMA SumZero ==
    ASSUME NEW S, IsFiniteSet(S), NEW f, \A x \in S : f[x] = 0
    PROVE  SumFunctionOnSet(f, S) = 0
<1> DEFINE Bad == {s \in SUBSET S : SumFunctionOnSet(f, s) # 0}
<1> SUFFICES ASSUME Bad # {} PROVE FALSE
    OBVIOUS
<1>1. \A s \in Bad : IsFiniteSet(s)
  BY FS_Subset
<1>2. PICK m \in Bad : \A s \in Bad : Cardinality(m) <= Cardinality(s)
  <2> HIDE DEF Bad
  <2> QED BY <1>1, LeastSet
<1>3. m # {}
  <2>1. SumFunctionOnSet(f, {}) = 0
    BY SumEmpty
  <2> QED BY <2>1
<1>4. m \ {Chosen(m)} \notin Bad
  BY <1>1, <1>2, <1>3, PickIn, Smaller
<1>5. Chosen(m) \in S
  BY <1>3, PickIn
<1> QED BY <1>1, <1>3, <1>4, <1>5, SumStep

\* The largest of finitely many naturals, by a measure.
LEMMA FiniteMax ==
    ASSUME NEW S, S # {}, NEW n \in Nat, NEW f, \A x \in S : f[x] \in 0..n
    PROVE  \E m \in S : \A x \in S : f[x] <= f[m]
<1> DEFINE T == {n - f[x] : x \in S}
<1>1. T \subseteq Nat /\ T # {}
  OBVIOUS
<1>2. PICK k \in T : \A j \in T : k <= j
  <2> HIDE DEF T
  <2> QED BY <1>1, NatLeast
<1>3. PICK m \in S : k = n - f[m]
  OBVIOUS
<1>4. ASSUME NEW x \in S PROVE f[x] <= f[m]
  <2>1. n - f[m] <= n - f[x]
    BY <1>2, <1>3
  <2> QED BY <2>1
<1> QED BY <1>4

\* The largest element of a finite set of naturals.
LEMMA SetMax ==
    ASSUME NEW S, IsFiniteSet(S), S # {}, S \subseteq Nat
    PROVE  \E m \in S : \A x \in S : x <= m
<1> DEFINE HasMax(s) == \E m \in s : \A x \in s : x <= m
           C == {s \in SUBSET S : s # {} /\ ~HasMax(s)}
<1> SUFFICES ASSUME C # {} PROVE FALSE
    OBVIOUS
<1>1. \A s \in C : IsFiniteSet(s)
  BY FS_Subset
<1>2. PICK s \in C : \A t \in C : Cardinality(s) <= Cardinality(t)
  <2> HIDE DEF C
  <2> QED BY <1>1, LeastSet
<1>3. PICK x \in s : TRUE
  OBVIOUS
<1>4. s \ {x} \notin C
  <2>1. /\ Cardinality(s) \in Nat /\ Cardinality(s \ {x}) \in Nat
        /\ Cardinality(s \ {x}) < Cardinality(s)
    BY <1>1, Smaller
  <2> HIDE DEF C
  <2>2. ASSUME s \ {x} \in C PROVE FALSE
    <3>1. Cardinality(s) <= Cardinality(s \ {x})
      BY <1>2, <2>2
    <3> QED BY <2>1, <3>1
  <2> QED BY <2>2
<1>5. CASE s \ {x} = {}
  <2>1. s = {x} /\ x <= x
    BY <1>5
  <2> QED BY <2>1
<1>6. CASE s \ {x} # {}
  <2>1. PICK y \in s \ {x} : \A z \in s \ {x} : z <= y
    BY <1>4, <1>6
  <2>2. x \in Nat /\ y \in Nat /\ \A z \in s : z \in Nat
    OBVIOUS
  <2>3. CASE x <= y
    BY <2>1, <2>3
  <2>4. CASE y <= x
    BY <2>1, <2>2, <2>4
  <2> QED BY <2>2, <2>3, <2>4
<1> QED BY <1>5, <1>6

\* A finite set of naturals has an ascending ordering.
LEMMA Ascending ==
    ASSUME NEW S, IsFiniteSet(S), S \subseteq Nat
    PROVE  \E s \in [1..Cardinality(S) -> S] :
               /\ \A i, j \in DOMAIN s : i < j => s[i] < s[j]
               /\ \A x \in S : \E i \in DOMAIN s : s[i] = x
<1> DEFINE Orders(s, T) == /\ \A i, j \in DOMAIN s : i < j => s[i] < s[j]
                           /\ \A x \in T : \E i \in DOMAIN s : s[i] = x
           Good(T) == \E s \in [1..Cardinality(T) -> T] : Orders(s, T)
           C == {T \in SUBSET S : ~Good(T)}
<1> SUFFICES ASSUME C # {} PROVE FALSE
    OBVIOUS
<1>1. \A T \in C : IsFiniteSet(T)
  BY FS_Subset
<1>2. PICK T \in C : \A U \in C : Cardinality(T) <= Cardinality(U)
  <2> HIDE DEF C
  <2> QED BY <1>1, LeastSet
<1>3. T \subseteq Nat /\ IsFiniteSet(T) /\ ~Good(T) /\ T \in SUBSET S
  BY <1>1, <1>2
<1>4. T # {}
  <2> SUFFICES ASSUME T = {} PROVE FALSE
    OBVIOUS
  <2>1. Cardinality(T) = 0
    BY FS_EmptySet
  <2>2. 1..Cardinality(T) = {}
    BY <2>1
  <2>3. [i \in {} |-> 0] \in [1..Cardinality(T) -> T] /\ Orders([i \in {} |-> 0], T)
    BY <2>2
  <2> QED BY <1>3, <2>3
<1>5. PICK m \in T : \A x \in T : x <= m
  BY <1>3, <1>4, SetMax
<1> DEFINE U == T \ {m}
<1>6. /\ Cardinality(T) \in Nat /\ Cardinality(U) \in Nat /\ Cardinality(U) < Cardinality(T)
      /\ Cardinality(T) = Cardinality(U) + 1
  <2>1. Cardinality(U) = Cardinality(T) - 1
    BY <1>3, FS_RemoveElement
  <2> QED BY <2>1, <1>3, Smaller
<1>7. Good(U)
  <2>1. U \notin C
    <3> HIDE DEF C
    <3>1. ASSUME U \in C PROVE FALSE
      <4>1. Cardinality(T) <= Cardinality(U)
        BY <1>2, <3>1
      <4> HIDE DEF U
      <4> QED BY <1>6, <4>1
    <3> QED BY <3>1
  <2> QED BY <1>3, <2>1
<1>8. PICK n \in Nat : n = Cardinality(U)
  BY <1>6
<1>9. PICK f \in [1..n -> U] : Orders(f, U)
  BY <1>7, <1>8
<1> DEFINE g == [i \in 1..(n + 1) |-> IF i <= n THEN f[i] ELSE m]
<1>10. g \in [1..(n + 1) -> T]
  BY <1>9
<1>11. \A i, j \in 1..(n + 1) : i < j => g[i] < g[j]
  <2> SUFFICES ASSUME NEW i \in 1..(n + 1), NEW j \in 1..(n + 1), i < j PROVE g[i] < g[j]
    OBVIOUS
  <2>1. i \in 1..n /\ g[i] = f[i]
    OBVIOUS
  <2>2. CASE j <= n
    <3>1. j \in 1..n /\ g[j] = f[j]
      BY <2>2
    <3> QED BY <1>9, <2>1, <3>1
  <2>3. CASE ~(j <= n)
    <3>1. g[j] = m /\ f[i] \in U
      BY <1>9, <2>1, <2>3
    <3>2. f[i] \in Nat /\ m \in Nat /\ f[i] <= m /\ f[i] # m
      BY <1>3, <1>5, <3>1
    <3> HIDE DEF g
    <3> QED BY <2>1, <3>1, <3>2
  <2> QED BY <2>2, <2>3
<1>12. \A x \in T : \E i \in 1..(n + 1) : g[i] = x
  <2> SUFFICES ASSUME NEW x \in T PROVE \E i \in 1..(n + 1) : g[i] = x
    OBVIOUS
  <2>1. CASE x = m
    <3>1. n + 1 \in 1..(n + 1) /\ g[n + 1] = m
      OBVIOUS
    <3> QED BY <2>1, <3>1
  <2>2. CASE x # m
    <3>1. PICK i \in 1..n : f[i] = x
      BY <1>9, <2>2
    <3>2. i \in 1..(n + 1) /\ g[i] = f[i]
      OBVIOUS
    <3> QED BY <3>1, <3>2
  <2> QED BY <2>1, <2>2
<1>13. Cardinality(T) = n + 1 /\ DOMAIN g = 1..(n + 1)
  BY <1>6, <1>8
<1> HIDE DEF g
<1>14. Orders(g, T)
  BY <1>11, <1>12, <1>13
<1>15. Good(T)
  BY <1>10, <1>13, <1>14
<1> QED BY <1>3, <1>15

-----------------------------------------------------------------------------
(* Sums by parts, and under other names.                                   *)

LEMMA ImageFinite ==
    ASSUME NEW S, IsFiniteSet(S), NEW f
    PROVE  IsFiniteSet({f[x] : x \in S})
<1> DEFINE T == {f[x] : x \in S}
           g == [x \in S |-> f[x]]
<1>1. g \in Surjection(S, T)
  BY DEF Surjection
<1> HIDE DEF g, T
<1>2. IsFiniteSet(T)
  BY <1>1, FS_Surjection
<1> QED BY <1>2 DEF T

LEMMA SumSingle ==
    ASSUME NEW x, NEW f, f[x] \in Int
    PROVE  SumFunctionOnSet(f, {x}) = f[x]
<1>1. IsFiniteSet({x}) /\ {x} \ {x} = {} /\ x \in {x} /\ \A y \in {x} : f[y] \in Int
  BY FS_Singleton
<1>2. SumFunctionOnSet(f, {x}) = f[x] + SumFunctionOnSet(f, {x} \ {x})
  BY <1>1, SumTakes
<1>3. SumFunctionOnSet(f, {}) = 0
  BY SumEmpty
<1> QED BY <1>1, <1>2, <1>3

\* The sum is the sum of the sums over the fibres of a function on the set.
LEMMA SumFibres ==
    ASSUME NEW S, IsFiniteSet(S), NEW f, \A x \in S : f[x] \in Int,
           NEW K, IsFiniteSet(K), NEW k, \A x \in S : k[x] \in K,
           NEW fibre, \A y \in K : fibre[y] = {x \in S : k[x] = y},
           NEW g, \A y \in K : g[y] = SumFunctionOnSet(f, fibre[y])
    PROVE  SumFunctionOnSet(g, K) = SumFunctionOnSet(f, S)
<1> DEFINE Fibre(T, y) == {x \in T : k[x] = y}
           by(T) == [y \in K |-> SumFunctionOnSet(f, Fibre(T, y))]
           C == {T \in SUBSET S : SumFunctionOnSet(by(T), K) # SumFunctionOnSet(f, T)}
<1>1. C = {}
  <2> SUFFICES ASSUME C # {} PROVE FALSE
    OBVIOUS
  <2>1. \A T \in C : IsFiniteSet(T)
    BY FS_Subset
  <2>2. PICK T \in C : \A U \in C : Cardinality(T) <= Cardinality(U)
    <3> HIDE DEF C
    <3> QED BY <2>1, LeastSet
  <2>3. T \subseteq S /\ IsFiniteSet(T) /\ SumFunctionOnSet(by(T), K) # SumFunctionOnSet(f, T)
    BY <2>1, <2>2
  <2>4. T # {}
    <3> SUFFICES ASSUME T = {} PROVE FALSE
      OBVIOUS
    <3>1. \A y \in K : Fibre(T, y) = {} /\ by(T)[y] = SumFunctionOnSet(f, {})
      OBVIOUS
    <3> HIDE DEF by, Fibre
    <3>2. \A y \in K : by(T)[y] = 0
      BY <3>1, SumEmpty
    <3>3. SumFunctionOnSet(by(T), K) = 0
      BY <3>2, SumZero
    <3> QED BY <2>3, <3>3, SumEmpty
  <2>5. PICK z \in T : TRUE
    BY <2>4
  <2> DEFINE U == T \ {z}
  <2>6. /\ IsFiniteSet(U) /\ U \subseteq S
        /\ SumFunctionOnSet(by(U), K) = SumFunctionOnSet(f, U)
    <3>1. /\ IsFiniteSet(U) /\ Cardinality(U) < Cardinality(T) /\ U \subseteq S
          /\ Cardinality(U) \in Nat /\ Cardinality(T) \in Nat
      BY <2>3, <2>5, Smaller
    <3>2. U \notin C
      <4> SUFFICES ASSUME U \in C PROVE FALSE
        OBVIOUS
      <4>1. Cardinality(T) <= Cardinality(U)
        BY <2>2
      <4> HIDE DEF U
      <4> QED BY <3>1, <4>1
    <3> HIDE DEF U, by
    <3> QED BY <3>1, <3>2
  <2>7. SumFunctionOnSet(f, T) = f[z] + SumFunctionOnSet(f, U)
    <3>1. \A x \in T : f[x] \in Int
      BY <2>3
    <3> QED BY <2>3, <2>5, <3>1, SumTakes
  <2>8. ASSUME NEW V \in SUBSET S, NEW y \in K PROVE by(V)[y] \in Int
    <3>1. IsFiniteSet(Fibre(V, y)) /\ \A x \in Fibre(V, y) : f[x] \in Int
      <4>1. Fibre(V, y) \in SUBSET S
        OBVIOUS
      <4> QED BY <4>1, FS_Subset
    <3> HIDE DEF Fibre
    <3> QED BY <3>1, SumInt
  <2>9. k[z] \in K /\ by(T)[k[z]] = f[z] + by(U)[k[z]]
    <3> DEFINE F == Fibre(T, k[z])
    <3>1. z \in F /\ F \ {z} = Fibre(U, k[z]) /\ F \in SUBSET S
      BY <2>3, <2>5
    <3>2. IsFiniteSet(F) /\ \A x \in F : f[x] \in Int
      BY <3>1, FS_Subset
    <3> HIDE DEF F
    <3>3. SumFunctionOnSet(f, F) = f[z] + SumFunctionOnSet(f, F \ {z})
      BY <3>1, <3>2, SumTakes
    <3>4. k[z] \in K
      BY <2>3, <2>5
    <3> QED BY <3>1, <3>3, <3>4 DEF F
  <2>10. ASSUME NEW y \in K \ {k[z]} PROVE by(T)[y] = by(U)[y]
    <3>1. Fibre(T, y) = Fibre(U, y)
      BY <2>10
    <3> QED BY <3>1
  <2>11. f[z] \in Int /\ by(U)[k[z]] \in Int /\ by(T)[k[z]] \in Int
    BY <2>3, <2>5, <2>6, <2>8, <2>9
  <2>12. \A y \in K : by(T)[y] \in Int /\ by(U)[y] \in Int
    BY <2>3, <2>6, <2>8
  <2>13. SumFunctionOnSet(f, U) \in Int
    BY <2>6, SumInt
  <2> HIDE DEF by, U, C
  <2>14. SumFunctionOnSet(by(T), K) = SumFunctionOnSet(by(U), K) + by(T)[k[z]] - by(U)[k[z]]
    BY <2>9, <2>10, <2>12, SumChange
  <2> QED BY <2>3, <2>6, <2>7, <2>9, <2>11, <2>13, <2>14
<1>2. SumFunctionOnSet(by(S), K) = SumFunctionOnSet(f, S)
  BY <1>1
<1>3. \A y \in K : by(S)[y] = g[y]
  OBVIOUS
<1> HIDE DEF by, C
<1>4. SumFunctionOnSet(by(S), K) = SumFunctionOnSet(g, K)
  BY <1>3, SumSame
<1> QED BY <1>2, <1>4

\* A sum is the same over other names of the elements.
LEMMA SumRenamed ==
    ASSUME NEW S, IsFiniteSet(S), NEW f, \A x \in S : f[x] \in Int,
           NEW K, NEW k, k \in Bijection(S, K), NEW g, \A x \in S : g[k[x]] = f[x]
    PROVE  SumFunctionOnSet(g, K) = SumFunctionOnSet(f, S)
<1>1. /\ \A x \in S : k[x] \in K /\ \A y \in S : k[x] = k[y] => x = y
      /\ \A y \in K : \E x \in S : k[x] = y
  BY DEF Bijection, Injection, Surjection, IsInjective
<1>2. IsFiniteSet(K)
  BY FS_Surjection DEF Bijection
<1>3. ASSUME NEW y \in K PROVE g[y] = SumFunctionOnSet(f, {x \in S : k[x] = y})
  <2>1. PICK x \in S : k[x] = y
    BY <1>1
  <2>2. {w \in S : k[w] = y} = {x}
    BY <1>1, <2>1
  <2>3. SumFunctionOnSet(f, {x}) = f[x]
    BY SumSingle
  <2> QED BY <2>1, <2>2, <2>3
<1>4. \A x \in S : k[x] \in K
  BY <1>1
<1> DEFINE fibre == [y \in K |-> {x \in S : k[x] = y}]
<1>5. \A y \in K : fibre[y] = {x \in S : k[x] = y} /\ g[y] = SumFunctionOnSet(f, fibre[y])
  BY <1>3
<1> HIDE DEF fibre
<1> QED BY <1>2, <1>4, <1>5, SumFibres

LEMMA SumPlus ==
    ASSUME NEW S, IsFiniteSet(S), NEW f, NEW g, NEW h,
           \A x \in S : f[x] \in Int /\ g[x] \in Int /\ h[x] = f[x] + g[x]
    PROVE  SumFunctionOnSet(h, S) = SumFunctionOnSet(f, S) + SumFunctionOnSet(g, S)
<1> DEFINE C == {T \in SUBSET S : SumFunctionOnSet(h, T) # SumFunctionOnSet(f, T) + SumFunctionOnSet(g, T)}
<1> SUFFICES ASSUME C # {} PROVE FALSE
    OBVIOUS
<1>1. \A T \in C : IsFiniteSet(T)
  BY FS_Subset
<1>2. PICK T \in C : \A U \in C : Cardinality(T) <= Cardinality(U)
  <2> HIDE DEF C
  <2> QED BY <1>1, LeastSet
<1>3. T # {}
  <2> SUFFICES ASSUME T = {} PROVE FALSE
    OBVIOUS
  <2>1. SumFunctionOnSet(h, {}) = 0 /\ SumFunctionOnSet(f, {}) = 0 /\ SumFunctionOnSet(g, {}) = 0
    BY SumEmpty
  <2> QED BY <1>2, <2>1
<1>4. PICK z \in T : TRUE
  BY <1>3
<1> DEFINE U == T \ {z}
<1>5. /\ IsFiniteSet(T) /\ T \subseteq S
      /\ \A x \in T : f[x] \in Int /\ g[x] \in Int /\ h[x] \in Int
  BY <1>1, <1>2
<1>6. /\ SumFunctionOnSet(f, T) = f[z] + SumFunctionOnSet(f, U)
      /\ SumFunctionOnSet(g, T) = g[z] + SumFunctionOnSet(g, U)
      /\ SumFunctionOnSet(h, T) = h[z] + SumFunctionOnSet(h, U)
  BY <1>4, <1>5, SumTakes
<1>7. IsFiniteSet(U) /\ SumFunctionOnSet(f, U) \in Int /\ SumFunctionOnSet(g, U) \in Int
  <2>1. IsFiniteSet(U) /\ \A x \in U : f[x] \in Int /\ g[x] \in Int
    BY <1>5, FS_Subset
  <2> HIDE DEF U
  <2> QED BY <2>1, SumInt
<1>8. SumFunctionOnSet(h, U) = SumFunctionOnSet(f, U) + SumFunctionOnSet(g, U)
  <2>1. Cardinality(U) < Cardinality(T) /\ U \subseteq S /\ Cardinality(U) \in Nat /\ Cardinality(T) \in Nat
    BY <1>4, <1>5, Smaller
  <2>2. U \notin C
    <3> SUFFICES ASSUME U \in C PROVE FALSE
      OBVIOUS
    <3>1. Cardinality(T) <= Cardinality(U)
      BY <1>2
    <3> HIDE DEF U
    <3> QED BY <2>1, <3>1
  <2> QED BY <2>1, <2>2
<1> QED BY <1>2, <1>4, <1>5, <1>6, <1>7, <1>8

LEMMA SumCount ==
    ASSUME NEW S, IsFiniteSet(S), NEW f, \A x \in S : f[x] = 1
    PROVE  SumFunctionOnSet(f, S) = Cardinality(S)
<1> DEFINE C == {T \in SUBSET S : SumFunctionOnSet(f, T) # Cardinality(T)}
<1> SUFFICES ASSUME C # {} PROVE FALSE
    OBVIOUS
<1>1. \A T \in C : IsFiniteSet(T)
  BY FS_Subset
<1>2. PICK T \in C : \A U \in C : Cardinality(T) <= Cardinality(U)
  <2> HIDE DEF C
  <2> QED BY <1>1, LeastSet
<1>3. T # {}
  BY <1>2, SumEmpty, FS_EmptySet
<1>4. PICK z \in T : TRUE
  BY <1>3
<1> DEFINE U == T \ {z}
<1>5. /\ IsFiniteSet(T) /\ T \subseteq S /\ \A x \in T : f[x] \in Int
  BY <1>1, <1>2
<1>6. SumFunctionOnSet(f, T) = f[z] + SumFunctionOnSet(f, U)
  BY <1>4, <1>5, SumTakes
<1>7. /\ Cardinality(U) < Cardinality(T) /\ U \subseteq S
      /\ Cardinality(U) \in Nat /\ Cardinality(T) \in Nat /\ Cardinality(U) = Cardinality(T) - 1
  BY <1>4, <1>5, Smaller, FS_RemoveElement
<1>8. SumFunctionOnSet(f, U) = Cardinality(U)
  <2>1. U \notin C
    <3> SUFFICES ASSUME U \in C PROVE FALSE
      OBVIOUS
    <3>1. Cardinality(T) <= Cardinality(U)
      BY <1>2
    <3> HIDE DEF U
    <3> QED BY <1>7, <3>1
  <2> QED BY <1>7, <2>1
<1>9. f[z] = 1 /\ SumFunctionOnSet(f, T) # Cardinality(T)
  BY <1>2, <1>4, <1>5
<1> HIDE DEF U
<1> QED BY <1>6, <1>7, <1>8, <1>9

\* Numbers below n that are all different are all the numbers below n.
LEMMA AllRanks ==
    ASSUME NEW n \in Nat, NEW r \in [1..n -> 0..(n - 1)],
           \A i, j \in 1..n : r[i] = r[j] => i = j
    PROVE  \A m \in 0..(n - 1) : \E i \in 1..n : r[i] = m
<1>1. /\ IsFiniteSet(0..(n - 1)) /\ IsFiniteSet(1..n)
      /\ Cardinality(0..(n - 1)) = n /\ Cardinality(1..n) = n
  <2>1. IsFiniteSet(0..(n - 1)) /\ Cardinality(0..(n - 1)) = IF 0 > n - 1 THEN 0 ELSE (n - 1) - 0 + 1
    BY FS_Interval
  <2>2. IsFiniteSet(1..n) /\ Cardinality(1..n) = IF 1 > n THEN 0 ELSE n - 1 + 1
    BY FS_Interval
  <2> QED BY <2>1, <2>2
<1>2. r \in Injection(1..n, 0..(n - 1))
  BY DEF Injection, IsInjective
<1>3. r \in Surjection(1..n, 0..(n - 1))
  BY <1>1, <1>2, FS_Injection
<1> QED BY <1>3 DEF Surjection
=============================================================================
