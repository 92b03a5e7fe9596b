------------------------------- MODULE Sums -------------------------------
(***************************************************************************)
(* What SumFunction of the community modules does, for functions with a    *)
(* finite domain: the lemmas that the proofs about byte counters need.     *)
(* SumFunction is a fold, that is a recursive function that takes the      *)
(* elements in an order CHOOSE gives it.  The induction it takes to show   *)
(* that it exists, and that the order is of no account, is done by looking *)
(* at a smallest counterexample: there is one, as the natural numbers are  *)
(* well-founded (WFMin, NatLessThanWellFounded).                           *)
(***************************************************************************)
EXTENDS Integers, FiniteSets, Functions, FiniteSetTheorems, WellFoundedInduction, TLAPS

-----------------------------------------------------------------------------
(* Smallest counterexamples.                                                 *)

LEMMA LeastNumber ==
    ASSUME NEW T \in SUBSET Nat, T # {}
    PROVE  \E n \in T : \A m \in T : n <= m
<1>1. IsWellFoundedOn(OpToRel(<, Nat), Nat)
  BY NatLessThanWellFounded
<1>2. PICK n \in T : \A m \in T : ~(<<m, n>> \in OpToRel(<, Nat))
  BY <1>1, WFMin
<1>3. \A m \in T : ~(m < n)
  BY <1>2 DEF OpToRel
<1> QED BY <1>3

LEMMA LeastSet ==
    ASSUME NEW S, IsFiniteSet(S), NEW Bad \in SUBSET (SUBSET S), Bad # {}
    PROVE  \E s \in Bad : \A x \in s : s \ {x} \notin Bad
<1> DEFINE Sizes == {Cardinality(s) : s \in Bad}
<1>1. \A s \in SUBSET S : /\ IsFiniteSet(s) /\ Cardinality(s) \in Nat
                          /\ \A x \in s : Cardinality(s \ {x}) = Cardinality(s) - 1
  BY FS_Subset, FS_CardinalityType, FS_RemoveElement
<1>2. Sizes \in SUBSET Nat /\ Sizes # {}
  BY <1>1
<1> HIDE DEF Sizes
<1>3. PICK n \in Sizes : \A m \in Sizes : n <= m
  BY <1>2, LeastNumber
<1>4. PICK s \in Bad : n = Cardinality(s)
  BY <1>3 DEF Sizes
<1>5. ASSUME NEW x \in s, s \ {x} \in Bad PROVE FALSE
  <2>1. Cardinality(s \ {x}) \in Sizes
    BY <1>5 DEF Sizes
  <2>2. n <= Cardinality(s \ {x})
    BY <1>3, <2>1
  <2>3. Cardinality(s \ {x}) = n - 1 /\ n \in Nat
    BY <1>1, <1>4
  <2> QED BY <2>2, <2>3
<1> QED BY <1>5

-----------------------------------------------------------------------------
(* The recursive function.                                                   *)

Pick(s) == CHOOSE x \in s : TRUE

\* The sum of g over s, given that of the rest.
Body(g, it, s) == IF s = {} THEN 0 ELSE g[Pick(s)] + it[s \ {Pick(s)}]

Iterate(g, S) == CHOOSE it : it = [s \in SUBSET S |-> Body(g, it, s)]

LEMMA SumIsIterate ==
    ASSUME NEW f
    PROVE  SumFunction(f) = Iterate(f, DOMAIN f)[DOMAIN f]
BY DEF SumFunction, SumFunctionOnSet, FoldFunctionOnSet, MapThenFoldSet, Iterate, Body, Pick

LEMMA PickIn == ASSUME NEW s, s # {} PROVE Pick(s) \in s
BY DEF Pick

LEMMA Exists ==
    ASSUME NEW S, IsFiniteSet(S), NEW g \in [S -> Int]
    PROVE  \E it : it = [s \in SUBSET S |-> Body(g, it, s)]
<1> DEFINE Layer(n) == {s \in SUBSET S : Cardinality(s) <= n}
           Good(n) == \E it \in [SUBSET S -> Int] : \A s \in Layer(n) : it[s] = Body(g, it, s)
           Bad == {n \in Nat : ~Good(n)}
<1>1. \A s \in SUBSET S : /\ Cardinality(s) \in Nat /\ Cardinality(s) <= Cardinality(S)
                          /\ \A x \in s : Cardinality(s \ {x}) = Cardinality(s) - 1
                          /\ Cardinality(s) = 0 => s = {}
  BY FS_Subset, FS_CardinalityType, FS_RemoveElement, FS_EmptySet
<1>2. Good(0)
  <2> DEFINE it == [s \in SUBSET S |-> 0]
  <2>1. it \in [SUBSET S -> Int] /\ \A s \in Layer(0) : it[s] = 0
    OBVIOUS
  <2>2. \A s \in Layer(0) : s = {}
    BY <1>1
  <2>3. \A s \in Layer(0) : it[s] = Body(g, it, s)
    BY <2>1, <2>2 DEF Body
  <2> QED BY <2>1, <2>3
<1>3. ASSUME NEW n \in Nat, n > 0, Good(n - 1) PROVE Good(n)
  <2>1. PICK f \in [SUBSET S -> Int] : \A s \in Layer(n - 1) : f[s] = Body(g, f, s)
    BY <1>3
  <2> DEFINE h == [s \in SUBSET S |-> Body(g, f, s)]
  <2>2. \A s \in SUBSET S : Body(g, f, s) \in Int
    <3>1. \A s \in SUBSET S : s # {} => Pick(s) \in S /\ s \ {Pick(s)} \in SUBSET S
      BY PickIn
    <3> QED BY <3>1 DEF Body
  <2>3. h \in [SUBSET S -> Int]
    BY <2>2
  <2>4. ASSUME NEW s \in Layer(n) PROVE h[s] = Body(g, h, s)
    <3>1. CASE s = {}
      BY <2>4, <3>1 DEF Body
    <3>2. CASE s # {}
      <4> DEFINE t == s \ {Pick(s)}
      <4>1. t \in Layer(n - 1)
        <5>1. Pick(s) \in s /\ s \in SUBSET S /\ Cardinality(s) <= n
          BY <3>2, PickIn
        <5>2. Cardinality(t) = Cardinality(s) - 1 /\ Cardinality(s) \in Nat
          BY <1>1, <5>1
        <5> QED BY <5>1, <5>2
      <4>2. h[t] = f[t]
        BY <2>1, <4>1
      <4> QED BY <3>2, <4>2 DEF Body
    <3> QED BY <3>1, <3>2
  <2> HIDE DEF h
  <2> QED BY <2>3, <2>4
<1>4. Bad = {}
  <2> SUFFICES ASSUME Bad # {} PROVE FALSE
    OBVIOUS
  <2> HIDE DEF Good
  <2>1. PICK n \in Bad : \A m \in Bad : n <= m
    BY LeastNumber
  <2>2. n \in Nat /\ n # 0 /\ ~Good(n)
    BY <1>2
  <2>3. n - 1 \in Nat /\ ~(n <= n - 1) /\ n > 0
    BY <2>2
  <2>4. Good(n - 1)
    BY <2>1, <2>3
  <2> QED BY <1>3, <2>2, <2>3, <2>4
<1>5. Good(Cardinality(S))
  <2>1. Cardinality(S) \in Nat
    BY FS_CardinalityType
  <2> HIDE DEF Good
  <2> QED BY <1>4, <2>1
<1>6. PICK it \in [SUBSET S -> Int] : \A s \in Layer(Cardinality(S)) : it[s] = Body(g, it, s)
  BY <1>5
<1>7. \A s \in SUBSET S : it[s] = Body(g, it, s)
  BY <1>1, <1>6
<1> QED BY <1>6, <1>7

LEMMA IterateDef ==
    ASSUME NEW S, IsFiniteSet(S), NEW g \in [S -> Int]
    PROVE  /\ Iterate(g, S)[{}] = 0
           /\ \A s \in SUBSET S : s # {} =>
                 /\ Pick(s) \in s /\ s \ {Pick(s)} \in SUBSET S
                 /\ Iterate(g, S)[s] = g[Pick(s)] + Iterate(g, S)[s \ {Pick(s)}]
<1> DEFINE it == Iterate(g, S)
<1>1. it = [s \in SUBSET S |-> Body(g, it, s)]
  BY Exists DEF Iterate
<1>2. \A s \in SUBSET S : s # {} => Pick(s) \in s /\ s \ {Pick(s)} \in SUBSET S
  BY PickIn
<1> HIDE DEF it
<1>3. \A s \in SUBSET S : it[s] = Body(g, it, s)
  BY <1>1
<1>4. it[{}] = 0
  BY <1>3 DEF Body
<1>5. \A s \in SUBSET S : s # {} => it[s] = g[Pick(s)] + it[s \ {Pick(s)}]
  BY <1>3 DEF Body
<1> QED BY <1>2, <1>4, <1>5 DEF it

LEMMA IterateType ==
    ASSUME NEW S, IsFiniteSet(S), NEW g \in [S -> Int]
    PROVE  \A s \in SUBSET S : Iterate(g, S)[s] \in Int
<1> DEFINE Bad == {s \in SUBSET S : Iterate(g, S)[s] \notin Int}
<1> SUFFICES ASSUME Bad # {} PROVE FALSE
  OBVIOUS
<1>1. PICK s \in Bad : \A x \in s : s \ {x} \notin Bad
  <2>1. Bad \in SUBSET (SUBSET S)
    OBVIOUS
  <2> HIDE DEF Bad
  <2> QED BY <2>1, LeastSet
<1>2. s # {}
  <2>1. Iterate(g, S)[{}] = 0
    BY IterateDef
  <2> QED BY <2>1
<1>3. Iterate(g, S)[s] = g[Pick(s)] + Iterate(g, S)[s \ {Pick(s)}] /\ Pick(s) \in s
      /\ s \ {Pick(s)} \in SUBSET S
  BY <1>2, IterateDef
<1>4. Iterate(g, S)[s \ {Pick(s)}] \in Int
  BY <1>1, <1>3
<1>5. g[Pick(s)] \in Int
  BY <1>3
<1> QED BY <1>3, <1>4, <1>5

\* Only the values on the set itself matter.
LEMMA IterateAgree ==
    ASSUME NEW S, IsFiniteSet(S), NEW g \in [S -> Int],
           NEW T, IsFiniteSet(T), NEW h \in [T -> Int],
           NEW U, U \subseteq S, U \subseteq T, \A x \in U : g[x] = h[x]
    PROVE  Iterate(g, S)[U] = Iterate(h, T)[U]
<1> DEFINE Bad == {s \in SUBSET U : Iterate(g, S)[s] # Iterate(h, T)[s]}
<1> SUFFICES ASSUME Bad # {} PROVE FALSE
  OBVIOUS
<1>1. PICK s \in Bad : \A x \in s : s \ {x} \notin Bad
  <2>1. Bad \in SUBSET (SUBSET S)
    OBVIOUS
  <2> HIDE DEF Bad
  <2> QED BY <2>1, LeastSet
<1>2. s \in SUBSET S /\ s \in SUBSET T /\ s \in SUBSET U
  OBVIOUS
<1>3. s # {}
  <2>1. Iterate(g, S)[{}] = 0 /\ Iterate(h, T)[{}] = 0
    BY IterateDef
  <2> QED BY <2>1
<1>4. Iterate(g, S)[s] = g[Pick(s)] + Iterate(g, S)[s \ {Pick(s)}] /\ Pick(s) \in s
  BY <1>2, <1>3, IterateDef
<1>5. Iterate(h, T)[s] = h[Pick(s)] + Iterate(h, T)[s \ {Pick(s)}]
  <2>1. \A t \in SUBSET T : t # {} => Iterate(h, T)[t] = h[Pick(t)] + Iterate(h, T)[t \ {Pick(t)}]
    BY IterateDef
  <2> QED BY <1>2, <1>3, <2>1
<1>6. Iterate(g, S)[s \ {Pick(s)}] = Iterate(h, T)[s \ {Pick(s)}]
  BY <1>1, <1>2, <1>4
<1>7. g[Pick(s)] = h[Pick(s)]
  BY <1>2, <1>4
<1> QED BY <1>4, <1>5, <1>6, <1>7

\* Any element can be taken first.
LEMMA IterateAny ==
    ASSUME NEW S, IsFiniteSet(S), NEW g \in [S -> Int]
    PROVE  \A s \in SUBSET S : \A x \in s : Iterate(g, S)[s] = g[x] + Iterate(g, S)[s \ {x}]
<1> DEFINE it == Iterate(g, S)
           Bad == {s \in SUBSET S : \E x \in s : it[s] # g[x] + it[s \ {x}]}
<1> SUFFICES ASSUME Bad # {} PROVE FALSE
  OBVIOUS
<1>1. PICK s \in Bad : \A x \in s : s \ {x} \notin Bad
  <2>1. Bad \in SUBSET (SUBSET S)
    OBVIOUS
  <2> HIDE DEF Bad
  <2> QED BY <2>1, LeastSet
<1>2. PICK x \in s : it[s] # g[x] + it[s \ {x}]
  OBVIOUS
<1> DEFINE c == Pick(s)
<1>3. it[s] = g[c] + it[s \ {c}] /\ c \in s /\ s \ {c} \in SUBSET S /\ s \ {x} \in SUBSET S
  BY <1>2, IterateDef
<1>4. s \ {c} \notin Bad /\ s \ {x} \notin Bad
  BY <1>1, <1>2, <1>3
<1>5. x # c
  BY <1>2, <1>3
<1> HIDE DEF it, c
<1>6. it[s \ {c}] = g[x] + it[(s \ {c}) \ {x}]
  BY <1>2, <1>3, <1>4, <1>5
<1>7. it[s \ {x}] = g[c] + it[(s \ {x}) \ {c}]
  BY <1>2, <1>3, <1>4, <1>5
<1>8. (s \ {c}) \ {x} = (s \ {x}) \ {c} /\ (s \ {c}) \ {x} \in SUBSET S
  OBVIOUS
<1>9. g[x] \in Int /\ g[c] \in Int /\ it[(s \ {c}) \ {x}] \in Int
  <2>1. \A t \in SUBSET S : it[t] \in Int
    BY IterateType DEF it
  <2> QED BY <1>2, <1>3, <1>8, <2>1
<1> DEFINE rest == it[(s \ {c}) \ {x}]
           a == g[x]
           b == g[c]
<1>10. it[s] = b + (a + rest) /\ it[s \ {x}] = b + rest /\ a \in Int /\ b \in Int /\ rest \in Int
  BY <1>3, <1>6, <1>7, <1>8, <1>9
<1>11. \A i, j, k \in Int : i + (j + k) = j + (i + k)
  OBVIOUS
<1> HIDE DEF rest, a, b
<1>12. it[s] = a + it[s \ {x}]
  BY <1>10, <1>11
<1> QED BY <1>2, <1>12 DEF a

-----------------------------------------------------------------------------
(* The facts that are used.                                                  *)

LEMMA SumType ==
    ASSUME NEW S, IsFiniteSet(S), NEW f \in [S -> Int]
    PROVE  SumFunction(f) \in Int
<1>1. DOMAIN f = S /\ S \in SUBSET S
  OBVIOUS
<1> QED BY <1>1, SumIsIterate, IterateType

LEMMA SumOfNone ==
    ASSUME NEW f \in [{} -> Int]
    PROVE  SumFunction(f) = 0
<1>1. DOMAIN f = {} /\ IsFiniteSet({})
  BY FS_EmptySet
<1> QED BY <1>1, SumIsIterate, IterateDef

\* One term is split off.
LEMMA SumSplit ==
    ASSUME NEW S, IsFiniteSet(S), NEW f \in [S -> Int], NEW x \in S,
           NEW r \in [S \ {x} -> Int], \A y \in S \ {x} : r[y] = f[y]
    PROVE  SumFunction(f) = f[x] + SumFunction(r)
<1> DEFINE R == S \ {x}
<1>1. DOMAIN f = S /\ DOMAIN r = R /\ r \in [R -> Int] /\ R \in SUBSET S /\ S \in SUBSET S
  OBVIOUS
<1>2. IsFiniteSet(R)
  BY FS_RemoveElement
<1>3. SumFunction(f) = Iterate(f, S)[S] /\ SumFunction(r) = Iterate(r, R)[R]
  BY <1>1, SumIsIterate
<1>4. Iterate(f, S)[S] = f[x] + Iterate(f, S)[R]
  <2>1. \A s \in SUBSET S : \A y \in s : Iterate(f, S)[s] = f[y] + Iterate(f, S)[s \ {y}]
    BY IterateAny, ZenonT(30)
  <2> QED BY <1>1, <2>1
<1>5. Iterate(f, S)[R] = Iterate(r, R)[R]
  <2>1. \A y \in R : f[y] = r[y]
    OBVIOUS
  <2> HIDE DEF R
  <2> QED BY <1>1, <1>2, <2>1, IterateAgree
<1> QED BY <1>3, <1>4, <1>5

\* One term changes.
LEMMA SumChange ==
    ASSUME NEW S, IsFiniteSet(S), NEW f \in [S -> Int], NEW h \in [S -> Int], NEW x \in S,
           \A y \in S : y # x => h[y] = f[y]
    PROVE  SumFunction(h) = (SumFunction(f) - f[x]) + h[x]
<1> DEFINE r == [y \in S \ {x} |-> f[y]]
<1>1. r \in [S \ {x} -> Int] /\ \A y \in S \ {x} : r[y] = f[y] /\ r[y] = h[y]
  OBVIOUS
<1> HIDE DEF r
<1>2. SumFunction(f) = f[x] + SumFunction(r)
  BY <1>1, SumSplit
<1>3. SumFunction(h) = h[x] + SumFunction(r)
  BY <1>1, SumSplit
<1>4. SumFunction(r) \in Int
  <2>1. IsFiniteSet(S \ {x})
    BY FS_RemoveElement
  <2> QED BY <1>1, <2>1, SumType
<1>5. f[x] \in Int /\ h[x] \in Int
  OBVIOUS
<1> QED BY <1>2, <1>3, <1>4, <1>5

\* A sum of zeros.
LEMMA SumOfZeros ==
    ASSUME NEW S, IsFiniteSet(S), NEW f \in [S -> Int], \A x \in S : f[x] = 0
    PROVE  SumFunction(f) = 0
<1> DEFINE Bad == {s \in SUBSET S : Iterate(f, S)[s] # 0}
<1>1. Bad = {}
  <2> SUFFICES ASSUME Bad # {} PROVE FALSE
    OBVIOUS
  <2>1. PICK s \in Bad : \A x \in s : s \ {x} \notin Bad
    <3>1. Bad \in SUBSET (SUBSET S)
      OBVIOUS
    <3> HIDE DEF Bad
    <3> QED BY <3>1, LeastSet
  <2>2. s # {}
    <3>1. Iterate(f, S)[{}] = 0
      BY IterateDef
    <3> QED BY <3>1
  <2>3. Iterate(f, S)[s] = f[Pick(s)] + Iterate(f, S)[s \ {Pick(s)}] /\ Pick(s) \in s
        /\ s \ {Pick(s)} \in SUBSET S
    BY <2>2, IterateDef
  <2>4. Iterate(f, S)[s \ {Pick(s)}] = 0
    BY <2>1, <2>3
  <2> QED BY <2>3, <2>4
<1>2. S \in SUBSET S /\ DOMAIN f = S
  OBVIOUS
<1> QED BY <1>1, <1>2, SumIsIterate
============================================================================
