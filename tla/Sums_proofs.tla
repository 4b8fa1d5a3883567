----------------------------- MODULE Sums_proofs -----------------------------
(***************************************************************************)
(* Sums over finite sets, as the models write them: the folds of the       *)
(* community modules, which add the images of a set's elements in an order *)
(* nobody names.  What the proofs need is proved here once: a sum can be   *)
(* taken apart at any element and at any split in two, and depends on the  *)
(* summands only.                                                          *)
(*                                                                         *)
(* The fold is a recursive function on the subsets of its set.  The        *)
(* library's induction theorems take an operator as a parameter; these     *)
(* arguments use instead that a non-empty set of finite sets has a member  *)
(* none of whose parts, one element smaller, is in it (Smallest).          *)
(***************************************************************************)
EXTENDS Integers, FiniteSetsExt, Functions, FiniteSetTheorems, WellFoundedInduction, TLAPS

First(s) == CHOOSE x \in s : TRUE

(* g is the function the fold of f evaluates, on the sets of D.            *)
IsIter(g, f, D) ==
  g = [s \in D |-> IF s = {} THEN 0 ELSE f[First(s)] + g[s \ {First(s)}]]

(* The sum of f over S, as a fold.                                         *)
LEMMA Unfold ==
  ASSUME NEW f, NEW S
  PROVE  FoldFunctionOnSet(+, 0, f, S) = (CHOOSE g : IsIter(g, f, SUBSET S))[S]
BY DEF FoldFunctionOnSet, MapThenFoldSet, IsIter, First

Less == {ss \in Nat \X Nat : ss[1] < ss[2]}

(* The order of the natural numbers, as a set of pairs.                    *)
LEMMA LessIs == OpToRel(<, Nat) = Less
BY DEF OpToRel, Less

(* A non-empty set of natural numbers has a least one.                     *)
LEMMA Least ==
  ASSUME NEW T \in SUBSET Nat, T # {}
  PROVE  \E n \in T : \A m \in T : n <= m
<1>1. IsWellFoundedOn(Less, Nat)
  BY NatLessThanWellFounded, LessIs
<1>2. \E n \in T : \A m \in T : ~ (<<m, n>> \in Less)
  BY <1>1, WFMin
<1>3. PICK n \in T : \A m \in T : ~ (<<m, n>> \in Less)
  BY <1>2
<1>4. ASSUME NEW m \in T PROVE n <= m
  <2>1. m \in Nat /\ n \in Nat
    OBVIOUS
  <2>2. ~(m < n)
    <3>1. ASSUME m < n PROVE <<m, n>> \in Less
      BY <2>1, <3>1 DEF Less
    <3> QED
      BY <1>3, <3>1
  <2> QED
    BY <2>1, <2>2
<1> QED
  BY <1>4

(* A non-empty set of finite sets has a member that cannot shrink within it.*)
LEMMA Smallest ==
  ASSUME NEW S, IsFiniteSet(S), NEW Bad \in SUBSET SUBSET S, Bad # {}
  PROVE  \E s \in Bad : \A x \in s : s \ {x} \notin Bad
<1> DEFINE Sizes == {n \in Nat : \E s \in Bad : Cardinality(s) = n}
<1>1. \A s \in Bad : IsFiniteSet(s) /\ Cardinality(s) \in Nat
  BY FS_Subset, FS_CardinalityType
<1>2. Sizes \in SUBSET Nat /\ Sizes # {}
  BY <1>1
<1>3. PICK n \in Sizes : \A m \in Sizes : n <= m
  <2> HIDE DEF Sizes
  <2> QED
    BY <1>2, Least
<1>4. PICK s \in Bad : Cardinality(s) = n
  OBVIOUS
<1>5. ASSUME NEW x \in s, s \ {x} \in Bad PROVE FALSE
  <2>1. Cardinality(s \ {x}) = n - 1
    BY <1>1, <1>4, FS_RemoveElement
  <2>2. n - 1 \in Sizes
    BY <1>1, <1>5, <2>1
  <2>3. n \in Nat /\ n <= n - 1
    BY <1>3, <2>2
  <2> QED
    BY <2>3
<1> QED
  BY <1>5

(* What the fold takes first.                                              *)
LEMMA FirstIn ==
  ASSUME NEW s, s # {}
  PROVE  First(s) \in s
BY DEF First

(* Two folds agree where their summands do.                                *)
LEMMA Agree ==
  ASSUME NEW U, NEW V, NEW f, NEW e, NEW g, NEW h, NEW S,
         IsIter(g, f, SUBSET U), IsIter(h, e, SUBSET V),
         IsFiniteSet(S), S \subseteq U, S \subseteq V, \A x \in S : f[x] = e[x]
  PROVE  g[S] = h[S]
<1> DEFINE Bad == {s \in SUBSET S : g[s] # h[s]}
<1>1. SUFFICES ASSUME Bad # {} PROVE FALSE
  OBVIOUS
<1>2. PICK s \in Bad : \A x \in s : s \ {x} \notin Bad
  <2> Bad \in SUBSET SUBSET S
    OBVIOUS
  <2> HIDE DEF Bad
  <2> QED
    BY <1>1, Smallest
<1>3. s \in SUBSET U /\ s \in SUBSET V /\ s \in SUBSET S
  OBVIOUS
<1>4. g[s] = IF s = {} THEN 0 ELSE f[First(s)] + g[s \ {First(s)}]
  BY <1>3 DEF IsIter
<1>5. h[s] = IF s = {} THEN 0 ELSE e[First(s)] + h[s \ {First(s)}]
  BY <1>3 DEF IsIter
<1>6. s # {}
  BY <1>4, <1>5
<1>7. First(s) \in s
  BY <1>6, FirstIn
<1>8. s \ {First(s)} \in SUBSET S /\ f[First(s)] = e[First(s)]
  BY <1>3, <1>7
<1>9. g[s \ {First(s)}] = h[s \ {First(s)}]
  BY <1>2, <1>7, <1>8
<1> QED
  BY <1>4, <1>5, <1>6, <1>8, <1>9

(* The fold is defined by a recursive function; there is one.              *)
LEMMA IterExists ==
  ASSUME NEW f, NEW S, IsFiniteSet(S)
  PROVE  \E g : IsIter(g, f, SUBSET S)
<1> DEFINE Bad == {s \in SUBSET S : \A g : ~IsIter(g, f, SUBSET s)}
           G(u) == CHOOSE g : IsIter(g, f, SUBSET u)
<1>1. SUFFICES ASSUME Bad # {} PROVE FALSE
  <2>1. S \in SUBSET S
    OBVIOUS
  <2> QED
    BY <2>1
<1>2. PICK t \in Bad : \A x \in t : t \ {x} \notin Bad
  <2> Bad \in SUBSET SUBSET S
    OBVIOUS
  <2> HIDE DEF Bad
  <2> QED
    BY <1>1, Smallest
<1> DEFINE g == [s \in SUBSET t |-> IF s = {} THEN 0 ELSE f[First(s)] + G(s \ {First(s)})[s \ {First(s)}]]
<1>3. ASSUME NEW x \in t, NEW u \in SUBSET (t \ {x})
      PROVE  IsIter(G(u), f, SUBSET u)
  <2>1. t \ {x} \in SUBSET S
    OBVIOUS
  <2>2. PICK h : IsIter(h, f, SUBSET (t \ {x}))
    BY <1>2, <2>1
  <2> DEFINE k == [s \in SUBSET u |-> h[s]]
  <2>3. ASSUME NEW s \in SUBSET u
        PROVE  k[s] = IF s = {} THEN 0 ELSE f[First(s)] + k[s \ {First(s)}]
    <3>1. s \in SUBSET (t \ {x}) /\ s \ {First(s)} \in SUBSET u
      OBVIOUS
    <3>2. h[s] = IF s = {} THEN 0 ELSE f[First(s)] + h[s \ {First(s)}]
      BY <2>2, <3>1 DEF IsIter
    <3> QED
      BY <3>1, <3>2
  <2>4. IsIter(k, f, SUBSET u)
    <3>1. k = [s \in SUBSET u |-> k[s]]
      OBVIOUS
    <3> HIDE DEF k
    <3>2. k = [s \in SUBSET u |-> IF s = {} THEN 0 ELSE f[First(s)] + k[s \ {First(s)}]]
      BY <2>3, <3>1
    <3> QED
      BY <3>2 DEF IsIter
  <2> QED
    BY <2>4
<1>4. ASSUME NEW s \in SUBSET t, s # {}
      PROVE  g[s \ {First(s)}] = G(s \ {First(s)})[s \ {First(s)}]
  <2> DEFINE u == s \ {First(s)}
  <2>1. First(s) \in t /\ First(s) \in s
    BY <1>4, FirstIn
  <2>2. u \in SUBSET (t \ {First(s)}) /\ u \in SUBSET t
    OBVIOUS
  <2> HIDE DEF u
  <2>3. IsIter(G(u), f, SUBSET u)
    BY <1>3, <2>1, <2>2
  <2>4. G(u)[u] = IF u = {} THEN 0 ELSE f[First(u)] + G(u)[u \ {First(u)}]
    BY <2>3 DEF IsIter
  <2>5. g[u] = IF u = {} THEN 0 ELSE f[First(u)] + G(u \ {First(u)})[u \ {First(u)}]
    BY <2>2
  <2>6. ASSUME u # {} PROVE G(u)[u \ {First(u)}] = G(u \ {First(u)})[u \ {First(u)}]
    <3> DEFINE v == u \ {First(u)}
    <3>1. v \in SUBSET (t \ {First(s)}) /\ v \subseteq u
      BY <2>2
    <3>2. IsFiniteSet(v)
      BY <3>1, FS_Subset
    <3> HIDE DEF v
    <3>3. IsIter(G(v), f, SUBSET v)
      BY <1>3, <2>1, <3>1
    <3> HIDE DEF G
    <3>4. G(u)[v] = G(v)[v]
      BY <2>3, <3>1, <3>2, <3>3, Agree
    <3> QED
      BY <3>4 DEF v
  <2>7. g[u] = G(u)[u]
    <3> HIDE DEF g, G
    <3> QED
      BY <2>4, <2>5, <2>6
  <2> QED
    BY <2>7 DEF u
<1>5. IsIter(g, f, SUBSET t)
  <2>1. g = [s \in SUBSET t |-> g[s]]
    OBVIOUS
  <2>2. ASSUME NEW s \in SUBSET t
        PROVE  g[s] = IF s = {} THEN 0 ELSE f[First(s)] + g[s \ {First(s)}]
    <3>1. g[s] = IF s = {} THEN 0 ELSE f[First(s)] + G(s \ {First(s)})[s \ {First(s)}]
      OBVIOUS
    <3> HIDE DEF g, G
    <3> QED
      BY <1>4, <3>1
  <2> HIDE DEF g
  <2>3. g = [s \in SUBSET t |-> IF s = {} THEN 0 ELSE f[First(s)] + g[s \ {First(s)}]]
    BY <2>1, <2>2
  <2> QED
    BY <2>3 DEF IsIter
<1> QED
  BY <1>2, <1>5

(* So the sum is what such a function says of S.                           *)
LEMMA IterOf ==
  ASSUME NEW f, NEW S, IsFiniteSet(S)
  PROVE  \E g : IsIter(g, f, SUBSET S) /\ SumFunctionOnSet(f, S) = g[S]
<1> DEFINE g == CHOOSE h : IsIter(h, f, SUBSET S)
<1>1. IsIter(g, f, SUBSET S)
  BY IterExists
<1>2. SumFunctionOnSet(f, S) = g[S]
  BY Unfold DEF SumFunctionOnSet
<1> QED
  BY <1>1, <1>2

(* It stays in a set closed under addition,                                *)
LEMMA IterIn ==
  ASSUME NEW f, NEW S, IsFiniteSet(S), NEW g, IsIter(g, f, SUBSET S),
         NEW K, 0 \in K, \A a, b \in K : a + b \in K, \A x \in S : f[x] \in K
  PROVE  \A s \in SUBSET S : g[s] \in K
<1> DEFINE Bad == {s \in SUBSET S : g[s] \notin K}
<1>1. SUFFICES ASSUME Bad # {} PROVE FALSE
  OBVIOUS
<1>2. PICK s \in Bad : \A x \in s : s \ {x} \notin Bad
  <2> Bad \in SUBSET SUBSET S
    OBVIOUS
  <2> HIDE DEF Bad
  <2> QED
    BY <1>1, Smallest
<1>3. s \in SUBSET S
  OBVIOUS
<1>4. g[s] = IF s = {} THEN 0 ELSE f[First(s)] + g[s \ {First(s)}]
  BY <1>3 DEF IsIter
<1>5. CASE s = {}
  BY <1>4, <1>5
<1>6. CASE s # {}
  <2>1. First(s) \in s
    BY <1>6, FirstIn
  <2>2. g[s \ {First(s)}] \in K /\ f[First(s)] \in K
    BY <1>2, <1>3, <2>1
  <2> QED
    BY <1>4, <1>6, <2>2
<1> QED
  BY <1>5, <1>6

(* and any element may be taken first.                                     *)
LEMMA IterTake ==
  ASSUME NEW f, NEW S, IsFiniteSet(S), NEW g, IsIter(g, f, SUBSET S), \A x \in S : f[x] \in Int,
         NEW z \in S
  PROVE  g[S] = f[z] + g[S \ {z}]
<1> DEFINE Bad == {s \in SUBSET S : \E x \in s : g[s] # f[x] + g[s \ {x}]}
<1>1. SUFFICES ASSUME Bad # {} PROVE FALSE
  <2>1. S \in SUBSET S
    OBVIOUS
  <2> QED
    BY <2>1
<1>2. PICK s \in Bad : \A x \in s : s \ {x} \notin Bad
  <2> Bad \in SUBSET SUBSET S
    OBVIOUS
  <2> HIDE DEF Bad
  <2> QED
    BY <1>1, Smallest
<1>3. PICK x \in s : g[s] # f[x] + g[s \ {x}]
  OBVIOUS
<1> DEFINE y == First(s)
<1>4. s \in SUBSET S /\ s # {} /\ y \in s
  BY FirstIn
<1>5. g[s] = f[y] + g[s \ {y}]
  BY <1>4 DEF IsIter
<1> HIDE DEF y
<1>6. x # y
  BY <1>3, <1>5
<1>7. /\ s \ {y} \in SUBSET S /\ x \in s \ {y} 
      /\ s \ {x} \in SUBSET S /\ y \in s \ {x} 
      /\ (s \ {x}) \ {y} = (s \ {y}) \ {x} /\ (s \ {y}) \ {x} \in SUBSET S
  BY <1>4, <1>6
<1>8. g[s \ {y}] = f[x] + g[(s \ {y}) \ {x}]
  BY <1>2, <1>4, <1>7
<1>9. g[s \ {x}] = f[y] + g[(s \ {y}) \ {x}]
  BY <1>2, <1>4, <1>7
<1>10. f[x] \in Int /\ f[y] \in Int /\ g[(s \ {y}) \ {x}] \in Int
  <2>1. \A u \in SUBSET S : g[u] \in Int
    <3>1. 0 \in Int /\ \A a, b \in Int : a + b \in Int
      OBVIOUS
    <3> HIDE DEF Bad
    <3> QED
      BY <3>1, IterIn
  <2> HIDE DEF Bad
  <2>2. x \in S /\ y \in S
    BY <1>4
  <2> QED
    BY <1>7, <2>1, <2>2
<1>11. g[s] = f[x] + g[s \ {x}]
  BY <1>5, <1>8, <1>9, <1>10
<1> QED
  BY <1>3, <1>11

(* What the models' proofs use.                                            *)
LEMMA SumOnEmpty ==
  ASSUME NEW f
  PROVE  SumFunctionOnSet(f, {}) = 0
<1>1. PICK g : IsIter(g, f, SUBSET {}) /\ SumFunctionOnSet(f, {}) = g[{}]
  BY IterOf, FS_EmptySet
<1>2. g[{}] = 0
  BY <1>1 DEF IsIter
<1> QED
  BY <1>1, <1>2

(* A sum of members of K is in K, when K has 0 and is closed under addition.*)
LEMMA SumOnIn ==
  ASSUME NEW f, NEW S, IsFiniteSet(S),
         NEW K, 0 \in K, \A a, b \in K : a + b \in K, \A x \in S : f[x] \in K
  PROVE  SumFunctionOnSet(f, S) \in K
<1>1. PICK g : IsIter(g, f, SUBSET S) /\ SumFunctionOnSet(f, S) = g[S]
  BY IterOf
<1>2. S \in SUBSET S
  OBVIOUS
<1>3. g[S] \in K
  BY <1>1, <1>2, IterIn
<1> QED
  BY <1>1, <1>3

(* Any element may be taken out.                                           *)
LEMMA SumOnTake ==
  ASSUME NEW f, NEW S, IsFiniteSet(S), \A x \in S : f[x] \in Int, NEW x \in S
  PROVE  SumFunctionOnSet(f, S) = f[x] + SumFunctionOnSet(f, S \ {x})
<1>1. PICK g : IsIter(g, f, SUBSET S) /\ SumFunctionOnSet(f, S) = g[S]
  BY IterOf
<1>2. IsFiniteSet(S \ {x})
  BY FS_RemoveElement
<1>3. PICK h : IsIter(h, f, SUBSET (S \ {x})) /\ SumFunctionOnSet(f, S \ {x}) = h[S \ {x}]
  BY <1>2, IterOf
<1>5. g[S] = f[x] + g[S \ {x}]
  BY <1>1, IterTake
<1>6. g[S \ {x}] = h[S \ {x}]
  <2>1. S \ {x} \subseteq S /\ S \ {x} \subseteq S \ {x}
    OBVIOUS
  <2> DEFINE T == S \ {x}
  <2>2. T \subseteq S /\ T \subseteq T /\ \A y \in T : f[y] = f[y]
    OBVIOUS
  <2>3. IsIter(g, f, SUBSET S) /\ IsIter(h, f, SUBSET T) /\ IsFiniteSet(T)
    BY <1>1, <1>2, <1>3
  <2> HIDE DEF T
  <2>4. g[T] = h[T]
    BY <2>2, <2>3, Agree
  <2> QED
    BY <2>4 DEF T
<1> QED
  BY <1>1, <1>3, <1>5, <1>6

(* Only the summands matter.                                               *)
LEMMA SumOnSame ==
  ASSUME NEW f, NEW e, NEW S, IsFiniteSet(S), \A x \in S : f[x] = e[x]
  PROVE  SumFunctionOnSet(f, S) = SumFunctionOnSet(e, S)
<1>1. PICK g : IsIter(g, f, SUBSET S) /\ SumFunctionOnSet(f, S) = g[S]
  BY IterOf
<1>2. PICK h : IsIter(h, e, SUBSET S) /\ SumFunctionOnSet(e, S) = h[S]
  BY IterOf
<1> QED
  BY <1>1, <1>2, Agree

(* Two sets apart are added up apart.                                      *)
LEMMA SumOnDisjoint ==
  ASSUME NEW f, NEW A, NEW B, IsFiniteSet(A), IsFiniteSet(B), A \cap B = {},
         \A x \in A \cup B : f[x] \in Int
  PROVE  SumFunctionOnSet(f, A \cup B) = SumFunctionOnSet(f, A) + SumFunctionOnSet(f, B)
<1> DEFINE Bad == {s \in SUBSET B :
             SumFunctionOnSet(f, A \cup s) # SumFunctionOnSet(f, A) + SumFunctionOnSet(f, s)}
<1>1. SUFFICES ASSUME Bad # {} PROVE FALSE
  <2>1. B \in SUBSET B
    OBVIOUS
  <2> QED
    BY <2>1
<1>2. PICK s \in Bad : \A x \in s : s \ {x} \notin Bad
  <2> Bad \in SUBSET SUBSET B
    OBVIOUS
  <2> HIDE DEF Bad
  <2> QED
    BY <1>1, Smallest
<1>3. /\ s \in SUBSET B
      /\ SumFunctionOnSet(f, A \cup s) # SumFunctionOnSet(f, A) + SumFunctionOnSet(f, s)
  OBVIOUS
<1>4. /\ 0 \in Int /\ \A a, b \in Int : a + b \in Int
  OBVIOUS
<1>5. \A u \in SUBSET B : IsFiniteSet(u) /\ IsFiniteSet(A \cup u)
  BY FS_Subset, FS_Union
<1>6. SumFunctionOnSet(f, A) \in Int
  BY <1>4, SumOnIn
<1>7. SumFunctionOnSet(f, {}) = 0
  BY SumOnEmpty
<1>8. PICK x \in s : TRUE
  <2>1. ASSUME s = {} PROVE FALSE
    <3>1. A \cup s = A
      BY <2>1
    <3> QED
      BY <1>3, <1>6, <1>7, <2>1, <3>1
  <2> QED
    BY <2>1
<1> DEFINE t == s \ {x}
<1>9. t \in SUBSET B /\ A \cup t = (A \cup s) \ {x} /\ x \in A \cup s /\ f[x] \in Int
  BY <1>3
<1>10. SumFunctionOnSet(f, A \cup t) = SumFunctionOnSet(f, A) + SumFunctionOnSet(f, t)
  BY <1>2, <1>9
<1>11. SumFunctionOnSet(f, s) = f[x] + SumFunctionOnSet(f, t)
  <2>1. IsFiniteSet(s) /\ \A y \in s : f[y] \in Int
    BY <1>3, <1>5
  <2> QED
    BY <2>1, SumOnTake
<1>12. SumFunctionOnSet(f, A \cup s) = f[x] + SumFunctionOnSet(f, A \cup t)
  <2>1. IsFiniteSet(A \cup s) /\ \A y \in A \cup s : f[y] \in Int
    BY <1>3, <1>5
  <2>2. SumFunctionOnSet(f, A \cup s) = f[x] + SumFunctionOnSet(f, (A \cup s) \ {x})
    BY <1>9, <2>1, SumOnTake
  <2> QED
    BY <1>9, <2>2
<1>13. SumFunctionOnSet(f, t) \in Int
  <2>1. IsFiniteSet(t) /\ \A y \in t : f[y] \in Int
    BY <1>5, <1>9
  <2> HIDE DEF t
  <2> QED
    BY <1>4, <2>1, SumOnIn
<1> QED
  BY <1>3, <1>6, <1>9, <1>10, <1>11, <1>12, <1>13
=============================================================================
