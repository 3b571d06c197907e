------------------------------- MODULE Sums -------------------------------
EXTENDS Integers, FiniteSets, Functions, FiniteSetTheorems, WellFoundedInduction, TLAPS

\* A set of numbers has a least one.
LEMMA LeastNumber ==
  ASSUME NEW T, T \subseteq Nat, T # {}
  PROVE  \E n \in T : \A m \in T : ~(m < n)
  <1>1. PICK n \in T : \A m \in T : ~(<<m, n>> \in OpToRel(<, Nat))
    BY NatLessThanWellFounded, WFMin
  <1>2. \A m \in T : m < n => <<m, n>> \in OpToRel(<, Nat)
    BY DEF OpToRel
  <1> QED
    BY <1>1, <1>2

\* Among sets, one with the fewest members.
LEMMA SmallestSet ==
  ASSUME NEW S, IsFiniteSet(S), NEW Bad \in SUBSET SUBSET S, Bad # {}
  PROVE  \E s \in Bad : \A t \in SUBSET s : t # s => t \notin Bad
  <1>1. \A s \in SUBSET S : IsFiniteSet(s) /\ Cardinality(s) \in Nat
    BY FS_Subset, FS_CardinalityType
  <1> DEFINE T == {Cardinality(s) : s \in Bad}
  <1>2. PICK n \in T : \A m \in T : ~(m < n)
    <2>1. T \subseteq Nat /\ T # {}
      BY <1>1
    <2> HIDE DEF T
    <2> QED
      BY <2>1, LeastNumber
  <1>3. PICK s \in Bad : n = Cardinality(s)
    OBVIOUS
  <1>4. ASSUME NEW t \in SUBSET s, t # s, t \in Bad
        PROVE  FALSE
    <2>1. Cardinality(t) <= Cardinality(s) /\ Cardinality(t) # Cardinality(s)
      BY <1>1, <1>4, FS_Subset
    <2>2. Cardinality(t) \in Nat /\ Cardinality(s) \in Nat
      BY <1>1
    <2>3. ~(Cardinality(t) < n)
      BY <1>2, <1>4
    <2> QED
      BY <2>1, <2>2, <2>3, <1>3
  <1> QED
    BY <1>3, <1>4

\* One step of a sum, which takes some member first.
Adding(h, g, S) ==
    [s \in SUBSET S |-> IF s = {} THEN 0
                        ELSE h[CHOOSE x \in s : TRUE] + g[s \ {CHOOSE x \in s : TRUE}]]

\* A sum over the subsets of S takes its members in any order.
IsSum(g, h, S) ==
    /\ g \in [SUBSET S -> Int]
    /\ g[{}] = 0
    /\ \A s \in SUBSET S : \A x \in s : g[s] = h[x] + g[s \ {x}]

\* g sums the subsets of at most k members, in the order in which CHOOSE takes them.
SumsSmall(g, h, S, k) ==
    \A s \in SUBSET S : Cardinality(s) <= k =>
        /\ g[s] \in Int
        /\ g[s] = IF s = {} THEN 0
                  ELSE h[CHOOSE x \in s : TRUE] + g[s \ {CHOOSE x \in s : TRUE}]

LEMMA SumOfSmall ==
  ASSUME NEW S, IsFiniteSet(S), NEW h, \A x \in S : h[x] \in Int, NEW n \in Nat
  PROVE  \E g : SumsSmall(g, h, S, n)
  <1> DEFINE T == {k \in Nat : ~\E g : SumsSmall(g, h, S, k)}
  <1>0. SUFFICES ASSUME T # {} PROVE FALSE
    BY Zenon
  <1>1. PICK k \in T : \A m \in T : ~(m < k)
    <2>1. T \subseteq Nat
      OBVIOUS
    <2> HIDE DEF T
    <2> QED
      BY <1>0, <2>1, LeastNumber
  <1>2. \A s \in SUBSET S : /\ IsFiniteSet(s) /\ Cardinality(s) \in Nat
                            /\ Cardinality(s) = 0 <=> s = {}
    BY FS_Subset, FS_CardinalityType, FS_EmptySet
  <1>3. CASE k = 0
    <2> DEFINE g == [s \in SUBSET S |-> 0]
    <2>1. SumsSmall(g, h, S, 0)
      BY <1>2 DEF SumsSmall
    <2> HIDE DEF g
    <2> QED
      BY <1>1, <1>3, <2>1
  <1>4. CASE k # 0
    <2>1. k - 1 \in Nat /\ k - 1 < k
      BY <1>4
    <2>2. PICK f : SumsSmall(f, h, S, k - 1)
      BY <1>1, <2>1
    <2> DEFINE First(s) == CHOOSE x \in s : TRUE
               g == [s \in SUBSET S |-> IF s = {} THEN 0 ELSE h[First(s)] + f[s \ {First(s)}]]
    <2>3. \A s \in SUBSET S : s # {} => First(s) \in s
      OBVIOUS
    <2>4. ASSUME NEW s \in SUBSET S, s # {}, Cardinality(s) <= k
          PROVE  /\ s \ {First(s)} \in SUBSET S
                 /\ Cardinality(s \ {First(s)}) <= k - 1
      <3>1. Cardinality(s \ {First(s)}) = Cardinality(s) - 1
        BY <1>2, <2>3, <2>4, FS_RemoveElement
      <3> QED
        BY <3>1, <1>2, <2>4
    <2>5. ASSUME NEW s \in SUBSET S, Cardinality(s) <= k - 1
          PROVE  g[s] = f[s] /\ f[s] \in Int
      BY <2>2, <2>5 DEF SumsSmall
    <2>6. ASSUME NEW s \in SUBSET S, Cardinality(s) <= k
          PROVE  /\ g[s] \in Int
                 /\ g[s] = IF s = {} THEN 0 ELSE h[First(s)] + g[s \ {First(s)}]
      <3>1. CASE s = {}
        BY <3>1
      <3>2. CASE s # {}
        <4> DEFINE r == s \ {First(s)}
        <4>1. r \in SUBSET S /\ g[r] = f[r] /\ f[r] \in Int
          BY <2>4, <2>5, <2>6, <3>2
        <4>2. g[s] = h[First(s)] + f[r] /\ h[First(s)] \in Int
          BY <2>3, <3>2
        <4> HIDE DEF g, First, r
        <4>3. g[s] = h[First(s)] + g[r] /\ g[s] \in Int
          BY <4>1, <4>2
        <4> QED
          BY <4>3, <3>2 DEF r
      <3> QED
        BY <3>1, <3>2
    <2>7. SumsSmall(g, h, S, k)
      BY <2>6 DEF SumsSmall
    <2> HIDE DEF g
    <2> QED
      BY <1>1, <2>7
  <1> QED
    BY <1>3, <1>4

\* The order does not matter: what CHOOSE takes first, or any other member.
LEMMA AnyOrder ==
  ASSUME NEW S, IsFiniteSet(S), NEW h, \A x \in S : h[x] \in Int,
         NEW g, SumsSmall(g, h, S, Cardinality(S))
  PROVE  IsSum([s \in SUBSET S |-> g[s]], h, S)
  <1>1. \A s \in SUBSET S : Cardinality(s) <= Cardinality(S)
    BY FS_Subset
  <1>2. \A s \in SUBSET S : g[s] \in Int
    BY <1>1 DEF SumsSmall
  <1>3. g[{}] = 0
    BY <1>1 DEF SumsSmall
  <1> DEFINE First(s) == CHOOSE x \in s : TRUE
  <1>4. \A s \in SUBSET S : s # {} => First(s) \in s /\ g[s] = h[First(s)] + g[s \ {First(s)}]
    BY <1>1 DEF SumsSmall
  <1> DEFINE Bad == {s \in SUBSET S : \E x \in s : g[s] # h[x] + g[s \ {x}]}
  <1> HIDE DEF First
  <1>5. Bad = {}
    <2> SUFFICES ASSUME Bad # {} PROVE FALSE
      OBVIOUS
    <2>1. PICK s \in Bad : \A t \in SUBSET s : t # s => t \notin Bad
      <3>1. Bad \in SUBSET SUBSET S
        OBVIOUS
      <3> HIDE DEF Bad
      <3> QED
        BY <3>1, SmallestSet
    <2>2. PICK x \in s : g[s] # h[x] + g[s \ {x}]
      OBVIOUS
    <2>3. PICK y \in s : y = First(s)
      BY <1>4, <2>2
    <2>4. g[s] = h[y] + g[s \ {y}] /\ x # y
      BY <1>4, <2>2, <2>3
    <2> DEFINE rest == (s \ {x}) \ {y}
    <2>5. ASSUME NEW t \in SUBSET s, t # s, NEW z \in t
          PROVE  g[t] = h[z] + g[t \ {z}]
      BY <2>1, <2>5
    <2>6. g[s \ {y}] = h[x] + g[rest]
      <3>1. s \ {y} \in SUBSET s /\ s \ {y} # s /\ x \in s \ {y}
        BY <2>4
      <3>2. (s \ {y}) \ {x} = rest
        OBVIOUS
      <3>3. g[s \ {y}] = h[x] + g[(s \ {y}) \ {x}]
        BY <3>1, <2>5
      <3> QED
        BY <3>2, <3>3, Zenon
    <2>8. g[s \ {x}] = h[y] + g[rest]
      <3>1. s \ {x} \in SUBSET s /\ s \ {x} # s /\ y \in s \ {x}
        BY <2>4
      <3>2. g[s \ {x}] = h[y] + g[(s \ {x}) \ {y}]
        BY <3>1, <2>5
      <3> QED
        BY <3>2, Zenon
    <2>7. h[x] \in Int /\ h[y] \in Int /\ g[rest] \in Int
      BY <1>2
    <2> HIDE DEF rest, Bad
    <2> QED
      BY <2>2, <2>4, <2>6, <2>8, <2>7
  <1>6. \A s \in SUBSET S : \A x \in s : s \ {x} \in SUBSET S
    OBVIOUS
  <1> QED
    BY <1>2, <1>3, <1>5, <1>6 DEF IsSum

\* Sums of the same numbers are the same.
LEMMA SameSum ==
  ASSUME NEW S, IsFiniteSet(S), NEW h, NEW g, IsSum(g, h, S),
         NEW R, NEW f, NEW e, IsSum(f, e, R),
         NEW U \in SUBSET S, U \subseteq R, \A x \in U : e[x] = h[x]
  PROVE  f[U] = g[U]
  <1> DEFINE Bad == {s \in SUBSET U : f[s] # g[s]}
  <1> SUFFICES ASSUME Bad # {} PROVE FALSE
    OBVIOUS
  <1>1. PICK s \in Bad : \A t \in SUBSET s : t # s => t \notin Bad
    <2>1. Bad \in SUBSET SUBSET S
      OBVIOUS
    <2> HIDE DEF Bad
    <2> QED
      BY <2>1, SmallestSet
  <1>2. s # {}
    BY DEF IsSum
  <1>3. PICK x \in s : TRUE
    BY <1>2
  <1>4. f[s \ {x}] = g[s \ {x}]
    BY <1>1
  <1>5. g[s] = h[x] + g[s \ {x}] /\ f[s] = e[x] + f[s \ {x}] /\ e[x] = h[x]
    BY DEF IsSum
  <1> QED
    BY <1>4, <1>5

\* Whatever adds up as MapThenSumSet does is the sum.
LEMMA OneSum ==
  ASSUME NEW S, IsFiniteSet(S), NEW h, \A x \in S : h[x] \in Int
  PROVE  \E g : IsSum(g, h, S) /\ \A f : f = Adding(h, f, S) <=> f = g
  <1>1. Cardinality(S) \in Nat /\ \A s \in SUBSET S : Cardinality(s) <= Cardinality(S)
    BY FS_CardinalityType, FS_Subset
  <1>2. PICK e : SumsSmall(e, h, S, Cardinality(S))
    BY <1>1, SumOfSmall
  <1>3. PICK g : g = [s \in SUBSET S |-> e[s]]
    OBVIOUS
  <1>4. IsSum(g, h, S)
    BY <1>2, <1>3, AnyOrder
  <1>5. g = Adding(h, g, S)
    <2>1. \A s \in SUBSET S : s # {} => s \ {CHOOSE x \in s : TRUE} \in SUBSET S
      OBVIOUS
    <2>2. \A s \in SUBSET S : g[s] = IF s = {} THEN 0 ELSE h[CHOOSE x \in s : TRUE] + g[s \ {CHOOSE x \in s : TRUE}]
      BY <1>1, <1>2, <1>3, <2>1 DEF SumsSmall
    <2> QED
      BY <1>3, <2>2 DEF Adding
  <1>6. ASSUME NEW f, f = Adding(h, f, S)
        PROVE  f = g
    <2>1. f = [s \in SUBSET S |-> f[s]]
      BY <1>6 DEF Adding
    <2> DEFINE Bad == {s \in SUBSET S : f[s] # g[s]}
    <2>2. Bad = {}
      <3> SUFFICES ASSUME Bad # {} PROVE FALSE
        OBVIOUS
      <3>1. PICK s \in Bad : \A t \in SUBSET s : t # s => t \notin Bad
        <4>1. Bad \in SUBSET SUBSET S
          OBVIOUS
        <4> HIDE DEF Bad
        <4> QED
          BY <4>1, SmallestSet
      <3>2. f[s] = Adding(h, f, S)[s] /\ g[s] = Adding(h, g, S)[s]
        BY <1>5, <1>6
      <3>3. s # {}
        BY <3>2 DEF Adding
      <3>4. PICK x \in s : x = CHOOSE y \in s : TRUE
        BY <3>3
      <3>5. f[s] = h[x] + f[s \ {x}] /\ g[s] = h[x] + g[s \ {x}]
        BY <3>2, <3>3, <3>4 DEF Adding
      <3>6. f[s \ {x}] = g[s \ {x}]
        BY <3>1
      <3> QED
        BY <3>5, <3>6
    <2> QED
      BY <1>3, <2>1, <2>2
  <1> QED
    BY <1>4, <1>5, <1>6

\* SumOf is the sum.
LEMMA SumOfIs ==
  ASSUME NEW S, IsFiniteSet(S), NEW h, \A x \in S : h[x] \in Int
  PROVE  \E g : IsSum(g, h, S) /\ SumFunctionOnSet(h, S) = g[S]
  <1>1. PICK g : IsSum(g, h, S) /\ \A f : f = Adding(h, f, S) <=> f = g
    BY OneSum
  <1> DEFINE it == CHOOSE f : f = Adding(h, f, S)
  <1>2. it = g
    <2>1. it = Adding(h, it, S)
      <3>1. \E f : f = Adding(h, f, S)
        BY <1>1
      <3> QED
        BY <3>1, Zenon
    <2> HIDE DEF it
    <2> QED
      BY <1>1, <2>1
  <1>3. SumFunctionOnSet(h, S) = it[S]
    BY DEF SumFunctionOnSet, FoldFunctionOnSet, MapThenFoldSet, Adding
  <1> QED
    BY <1>1, <1>2, <1>3

-----------------------------------------------------------------------------
(* What the proofs about amounts cite.                                     *)

\* A sum is a number, of nothing zero, and of more what one adds to the rest.
LEMMA SumTakes ==
  ASSUME NEW S, IsFiniteSet(S), NEW h, \A x \in S : h[x] \in Int
  PROVE  /\ SumFunctionOnSet(h, S) \in Int
         /\ S = {} => SumFunctionOnSet(h, S) = 0
         /\ \A x \in S : SumFunctionOnSet(h, S) = h[x] + SumFunctionOnSet(h, S \ {x})
  <1>1. PICK g : IsSum(g, h, S) /\ SumFunctionOnSet(h, S) = g[S]
    BY SumOfIs
  <1>2. ASSUME NEW x \in S
        PROVE  SumFunctionOnSet(h, S) = h[x] + SumFunctionOnSet(h, S \ {x})
    <2>1. PICK R : R = S \ {x}
      OBVIOUS
    <2>2. R \in SUBSET S /\ IsFiniteSet(R) /\ \A y \in R : h[y] \in Int
      BY <2>1, FS_Subset
    <2>3. PICK f : IsSum(f, h, R) /\ SumFunctionOnSet(h, R) = f[R]
      BY <2>2, SumOfIs
    <2>4. f[R] = g[R]
      BY <1>1, <2>2, <2>3, SameSum
    <2>5. g[S] = h[x] + g[R]
      BY <1>1, <2>1 DEF IsSum
    <2> QED
      BY <1>1, <2>1, <2>3, <2>4, <2>5
  <1>3. g[S] \in Int /\ (S = {} => g[S] = 0)
    BY <1>1 DEF IsSum
  <1> QED
    BY <1>1, <1>2, <1>3

\* It rests on what the function gives for the members, and on nothing else.
LEMMA SumSame ==
  ASSUME NEW S, IsFiniteSet(S), NEW h, \A x \in S : h[x] \in Int,
         NEW e, \A x \in S : e[x] = h[x]
  PROVE  SumFunctionOnSet(e, S) = SumFunctionOnSet(h, S)
  <1>1. PICK g : IsSum(g, h, S) /\ SumFunctionOnSet(h, S) = g[S]
    BY SumOfIs
  <1>2. PICK f : IsSum(f, e, S) /\ SumFunctionOnSet(e, S) = f[S]
    BY SumOfIs
  <1>3. f[S] = g[S]
    BY <1>1, <1>2, SameSum
  <1> QED
    BY <1>1, <1>2, <1>3

\* A sum of numbers none of which is below zero is not, and is one of its numbers at least.
LEMMA SumNotNegative ==
  ASSUME NEW S, IsFiniteSet(S), NEW h, \A x \in S : h[x] \in Nat
  PROVE  /\ SumFunctionOnSet(h, S) \in Nat
         /\ \A x \in S : SumFunctionOnSet(h, S) >= h[x]
  <1>1. \A s \in SUBSET S : IsFiniteSet(s) /\ \A x \in s : h[x] \in Int
    BY FS_Subset
  <1> DEFINE Bad == {s \in SUBSET S : SumFunctionOnSet(h, s) \notin Nat}
  <1>2. Bad = {}
    <2> SUFFICES ASSUME Bad # {} PROVE FALSE
      OBVIOUS
    <2>1. PICK s \in Bad : \A t \in SUBSET s : t # s => t \notin Bad
      <3>1. Bad \in SUBSET SUBSET S
        OBVIOUS
      <3> HIDE DEF Bad
      <3> QED
        BY <3>1, SmallestSet
    <2>2. s \in SUBSET S /\ SumFunctionOnSet(h, s) \notin Nat
      OBVIOUS
    <2>3. PICK x \in s : TRUE
      <3> HIDE DEF Bad
      <3>1. s = {} => SumFunctionOnSet(h, s) = 0
        BY <1>1, <2>2, SumTakes
      <3>2. s # {}
        BY <2>2, <3>1
      <3> QED
        BY <3>2
    <2>4. SumFunctionOnSet(h, s) = h[x] + SumFunctionOnSet(h, s \ {x})
      <3> HIDE DEF Bad
      <3> QED
        BY <1>1, <2>2, SumTakes
    <2>5. s \ {x} \in SUBSET S /\ SumFunctionOnSet(h, s \ {x}) \in Nat
      BY <2>1
    <2>6. h[x] \in Nat
      BY <2>2
    <2> HIDE DEF Bad
    <2> QED
      BY <2>2, <2>4, <2>5, <2>6
  <1>3. \A s \in SUBSET S : SumFunctionOnSet(h, s) \in Nat
    BY <1>2
  <1>4. ASSUME NEW x \in S
        PROVE  SumFunctionOnSet(h, S) >= h[x]
    <2>1. SumFunctionOnSet(h, S) = h[x] + SumFunctionOnSet(h, S \ {x})
      BY <1>1, SumTakes
    <2>2. SumFunctionOnSet(h, S \ {x}) \in Nat /\ h[x] \in Nat
      BY <1>3
    <2> QED
      BY <2>1, <2>2
  <1> QED
    BY <1>3, <1>4

\* Two sets that share nothing add up apart.
LEMMA SumUnion ==
  ASSUME NEW S, IsFiniteSet(S), NEW T, IsFiniteSet(T), S \cap T = {},
         NEW h, \A x \in S \cup T : h[x] \in Int
  PROVE  SumFunctionOnSet(h, S \cup T) = SumFunctionOnSet(h, S) + SumFunctionOnSet(h, T)
  <1>1. /\ \A t \in SUBSET T : IsFiniteSet(t) /\ IsFiniteSet(S \cup t)
        /\ \A x \in S \cup T : h[x] \in Int
    BY FS_Subset, FS_Union
  <1>2. SumFunctionOnSet(h, S) \in Int
    BY SumTakes
  <1> DEFINE Bad == {t \in SUBSET T : SumFunctionOnSet(h, S \cup t)
                                        # SumFunctionOnSet(h, S) + SumFunctionOnSet(h, t)}
  <1>3. Bad = {}
    <2> SUFFICES ASSUME Bad # {} PROVE FALSE
      OBVIOUS
    <2>1. PICK t \in Bad : \A r \in SUBSET t : r # t => r \notin Bad
      <3>1. Bad \in SUBSET SUBSET T
        OBVIOUS
      <3> HIDE DEF Bad
      <3> QED
        BY <3>1, SmallestSet
    <2>2. /\ t \in SUBSET T /\ \A x \in t : h[x] \in Int
          /\ SumFunctionOnSet(h, S \cup t) # SumFunctionOnSet(h, S) + SumFunctionOnSet(h, t)
      OBVIOUS
    <2>3. ASSUME NEW x \in t PROVE FALSE
      <3>1. t \ {x} \in SUBSET T /\ t \ {x} \notin Bad
        BY <2>1
      <3>2. SumFunctionOnSet(h, S \cup (t \ {x}))
              = SumFunctionOnSet(h, S) + SumFunctionOnSet(h, t \ {x})
        BY <3>1
      <3> HIDE DEF Bad
      <3>3. SumFunctionOnSet(h, t) = h[x] + SumFunctionOnSet(h, t \ {x})
        BY <1>1, <2>2, SumTakes
      <3>4. PICK R : R = S \cup t
        OBVIOUS
      <3>5. SumFunctionOnSet(h, R) = h[x] + SumFunctionOnSet(h, R \ {x})
        <4>1. IsFiniteSet(R) /\ x \in R /\ \A y \in R : h[y] \in Int
          BY <1>1, <2>2, <3>4
        <4> QED
          BY <4>1, SumTakes
      <3>6. R \ {x} = S \cup (t \ {x})
        BY <2>2, <3>4
      <3>7. SumFunctionOnSet(h, t \ {x}) \in Int /\ h[x] \in Int
        BY <1>1, <2>2, <3>1, SumTakes
      <3>8. SumFunctionOnSet(h, R)
              = h[x] + (SumFunctionOnSet(h, S) + SumFunctionOnSet(h, t \ {x}))
        BY <3>2, <3>5, <3>6, Zenon
      <3>9. SumFunctionOnSet(h, R) = SumFunctionOnSet(h, S) + SumFunctionOnSet(h, t)
        BY <1>2, <3>3, <3>7, <3>8
      <3> QED
        BY <2>2, <3>4, <3>9, Zenon
    <2>4. t = {}
      BY <2>3
    <2>5. SumFunctionOnSet(h, t) = 0
      <3> HIDE DEF Bad
      <3> QED
        BY <1>1, <2>2, <2>4, SumTakes
    <2>6. S \cup t = S
      BY <2>4
    <2> HIDE DEF Bad
    <2>7. SumFunctionOnSet(h, S) + SumFunctionOnSet(h, t) = SumFunctionOnSet(h, S)
      BY <1>2, <2>5
    <2> QED
      BY <2>2, <2>6, <2>7, Zenon
  <1> QED
    BY <1>3

\* A sum of zeros is zero.
LEMMA SumOfZeros ==
  ASSUME NEW S, IsFiniteSet(S), NEW h, \A x \in S : h[x] = 0
  PROVE  SumFunctionOnSet(h, S) = 0
  <1>1. \A s \in SUBSET S : IsFiniteSet(s) /\ \A x \in s : h[x] \in Int /\ h[x] = 0
    BY FS_Subset
  <1> DEFINE Bad == {s \in SUBSET S : SumFunctionOnSet(h, s) # 0}
  <1> SUFFICES ASSUME Bad # {} PROVE FALSE
    OBVIOUS
  <1>2. PICK s \in Bad : \A t \in SUBSET s : t # s => t \notin Bad
    <2>1. Bad \in SUBSET SUBSET S
      OBVIOUS
    <2> HIDE DEF Bad
    <2> QED
      BY <2>1, SmallestSet
  <1>3. s \in SUBSET S /\ SumFunctionOnSet(h, s) # 0
    OBVIOUS
  <1>4. ASSUME NEW x \in s PROVE FALSE
    <2>1. SumFunctionOnSet(h, s \ {x}) = 0
      BY <1>2
    <2> HIDE DEF Bad
    <2>2. SumFunctionOnSet(h, s) = h[x] + SumFunctionOnSet(h, s \ {x}) /\ h[x] = 0
      BY <1>1, <1>3, SumTakes
    <2> QED
      BY <1>3, <2>1, <2>2
  <1>5. s = {}
    BY <1>4
  <1> HIDE DEF Bad
  <1> QED
    BY <1>1, <1>3, <1>5, SumTakes

\* Groups that share nothing add up to the sum of all their members.
LEMMA SumOfGroups ==
  ASSUME NEW K, IsFiniteSet(K), NEW U, IsFiniteSet(U), NEW h, \A x \in U : h[x] \in Int,
         NEW G, \A k \in K : G[k] \subseteq U,
         \A j, k \in K : j # k => G[j] \cap G[k] = {},
         NEW t, \A k \in K : t[k] = SumFunctionOnSet(h, G[k])
  PROVE  SumFunctionOnSet(t, K) = SumFunctionOnSet(h, UNION {G[k] : k \in K})
  <1>1. \A S \in SUBSET U : IsFiniteSet(S) /\ SumFunctionOnSet(h, S) \in Int
    <2> SUFFICES ASSUME NEW S \in SUBSET U
                 PROVE  IsFiniteSet(S) /\ SumFunctionOnSet(h, S) \in Int
      OBVIOUS
    <2>1. IsFiniteSet(S) /\ \A x \in S : h[x] \in Int
      BY FS_Subset
    <2> QED
      BY <2>1, SumTakes
  <1>2. \A J \in SUBSET K : IsFiniteSet(J) /\ \A k \in J : t[k] \in Int
    BY <1>1, FS_Subset
  <1> DEFINE All(J) == UNION {G[k] : k \in J}
             Bad == {J \in SUBSET K : SumFunctionOnSet(t, J) # SumFunctionOnSet(h, All(J))}
  <1>3. Bad = {}
    <2> SUFFICES ASSUME Bad # {} PROVE FALSE
      OBVIOUS
    <2>1. PICK J \in Bad : \A L \in SUBSET J : L # J => L \notin Bad
      <3>1. Bad \in SUBSET SUBSET K
        OBVIOUS
      <3> HIDE DEF Bad
      <3> QED
        BY <3>1, SmallestSet
    <2>2. J \in SUBSET K /\ SumFunctionOnSet(t, J) # SumFunctionOnSet(h, All(J))
      OBVIOUS
    <2>3. ASSUME NEW k \in J PROVE FALSE
      <3>1. PICK L : L = J \ {k}
        OBVIOUS
      <3>2. SumFunctionOnSet(t, L) = SumFunctionOnSet(h, All(L))
        BY <2>1, <2>2, <3>1
      <3> HIDE DEF Bad
      <3>3. SumFunctionOnSet(t, J) = t[k] + SumFunctionOnSet(t, L)
        BY <1>2, <2>2, <3>1, SumTakes
      <3>4. PICK S, T : S = All(L) /\ T = G[k]
        OBVIOUS
      <3>5. /\ S \in SUBSET U /\ T \in SUBSET U /\ S \cap T = {} /\ All(J) = S \cup T
        <4>1. All(J) = All(L) \cup G[k]
          BY <3>1
        <4>2. \A x \in All(L) : x \in U /\ x \notin G[k]
          BY <2>2, <3>1
        <4>3. G[k] \subseteq U
          BY <2>2
        <4> HIDE DEF All
        <4> QED
          BY <3>4, <4>1, <4>2, <4>3
      <3> HIDE DEF All
      <3>6. SumFunctionOnSet(h, S \cup T) = SumFunctionOnSet(h, S) + SumFunctionOnSet(h, T)
        <4>1. IsFiniteSet(S) /\ IsFiniteSet(T) /\ \A x \in S \cup T : h[x] \in Int
          BY <1>1, <3>5
        <4> QED
          BY <3>5, <4>1, SumUnion
      <3>7. /\ SumFunctionOnSet(h, S) \in Int /\ SumFunctionOnSet(h, T) \in Int
            /\ t[k] = SumFunctionOnSet(h, T)
        BY <1>1, <2>2, <3>4, <3>5
      <3>8. SumFunctionOnSet(t, J) = SumFunctionOnSet(h, T) + SumFunctionOnSet(h, S)
        BY <3>2, <3>3, <3>4, <3>7, Zenon
      <3>9. SumFunctionOnSet(h, T) + SumFunctionOnSet(h, S) = SumFunctionOnSet(h, All(J))
        <4>1. SumFunctionOnSet(h, All(J)) = SumFunctionOnSet(h, S) + SumFunctionOnSet(h, T)
          BY <3>5, <3>6, Zenon
        <4> QED
          BY <3>7, <4>1
      <3> QED
        BY <2>2, <3>8, <3>9
    <2>4. J = {}
      BY <2>3
    <2>5. All(J) = {}
      BY <2>4
    <2>6. SumFunctionOnSet(t, {}) = 0 /\ SumFunctionOnSet(h, {}) = 0
      BY FS_EmptySet, SumTakes
    <2> HIDE DEF Bad, All
    <2> QED
      BY <2>2, <2>4, <2>5, <2>6
  <1> QED
    BY <1>3
=============================================================================
