----------------------------- MODULE SumLemmas -----------------------------
(***************************************************************************)
(* Sums over finite sets, for the proofs about byte counts and offsets,    *)
(* and functions defined step by step, for the proofs about loops.         *)
(* The models add with MapThenSumSet, a recursive function over the        *)
(* subsets of the set that removes one CHOOSEn element after the other.    *)
(* What it computes is established here by minimal counterexamples on the  *)
(* cardinality: the recursion has a solution, its values are integers, and *)
(* the order in which elements are removed does not matter.                *)
(***************************************************************************)
EXTENDS Integers, FiniteSetsExt, FiniteSetTheorems, WellFoundedInduction, TLAPS

\* The sum of f over S.
Total(f, S) == MapThenSumSet(LAMBDA x : f[x], S)

\* The element the fold removes first.
Pick(s) == CHOOSE x \in s : TRUE

\* it satisfies the fold's recursion over the subsets of D.
Solves(it, f, D) ==
    it = [s \in SUBSET D |->
            IF s = {} THEN 0 ELSE f[Pick(s)] + it[s \ {Pick(s)}]]

\* The fold is the solution it chooses, applied to the whole set.
LEMMA TotalDefinition ==
    ASSUME NEW f, NEW D
    PROVE  Total(f, D) = (CHOOSE it : Solves(it, f, D))[D]
  BY Zenon DEF Total, MapThenSumSet, MapThenFoldSet, Solves, Pick

\* A set of naturals that is not empty has a least element.
LEMMA LeastCount ==
    ASSUME NEW T, T \subseteq Nat, T # {}
    PROVE  \E n \in T : \A m \in T : n <= m
<1>1. PICK n \in T : \A m \in T : ~(<<m, n>> \in OpToRel(<, Nat))
  BY NatLessThanWellFounded, WFMin
<1>2. \A m \in T : ~(m < n)
  BY <1>1, Zenon DEF OpToRel
<1> QED
  BY <1>2

\* In a family of finite sets that is not empty some set has no member of the
\* family properly inside it (one fewer element is all that is needed).
LEMMA SmallestMember ==
    ASSUME NEW D, IsFiniteSet(D), NEW F, F \subseteq SUBSET D, F # {}
    PROVE  \E s \in F : \A x \in s : s \ {x} \notin F
<1> DEFINE T == {Cardinality(s) : s \in F}
<1>1. \A s \in F : IsFiniteSet(s) /\ Cardinality(s) \in Nat
  BY FS_Subset, FS_CardinalityType
<1>2. T \subseteq Nat /\ T # {}
  BY <1>1
<1>3. PICK n \in T : \A m \in T : n <= m
  BY <1>2, LeastCount
<1>4. PICK s \in F : n = Cardinality(s)
  OBVIOUS
<1>5. \A r \in F : Cardinality(r) \in T
  OBVIOUS
<1> HIDE DEF T
<1>6. ASSUME NEW x \in s PROVE s \ {x} \notin F
  <2>1. Cardinality(s \ {x}) = Cardinality(s) - 1
    BY <1>1, FS_RemoveElement
  <2>2. s \ {x} \in F => Cardinality(s) <= Cardinality(s \ {x})
    BY <1>3, <1>4, <1>5
  <2>3. Cardinality(s) \in Nat
    BY <1>1
  <2> QED
    BY <2>1, <2>2, <2>3
<1> QED
  BY <1>6

LEMMA PickMember == ASSUME NEW s, s # {} PROVE Pick(s) \in s
  BY Zenon DEF Pick

\* What a solution is at one set.
LEMMA SolutionAt ==
    ASSUME NEW it, NEW f, NEW D, Solves(it, f, D), NEW s \in SUBSET D
    PROVE  /\ s = {} => it[s] = 0
           /\ s # {} => /\ it[s] = f[Pick(s)] + it[s \ {Pick(s)}]
                        /\ Pick(s) \in s
                        /\ s \ {Pick(s)} \in SUBSET D
<1>1. it[s] = IF s = {} THEN 0 ELSE f[Pick(s)] + it[s \ {Pick(s)}]
  <2>1. it = [r \in SUBSET D |->
                IF r = {} THEN 0 ELSE f[Pick(r)] + it[r \ {Pick(r)}]]
    BY Zenon DEF Solves
  <2> QED
    BY <2>1, Zenon
<1>2. s # {} => Pick(s) \in s
  BY PickMember
<1> QED
  BY <1>1, <1>2

\* Two solutions agree wherever both are defined.
LEMMA SolutionsAgree ==
    ASSUME NEW f, NEW D, NEW E, IsFiniteSet(D),
           NEW a, NEW b, Solves(a, f, D), Solves(b, f, E)
    PROVE  \A s \in SUBSET (D \cap E) : a[s] = b[s]
<1> DEFINE F == {s \in SUBSET (D \cap E) : a[s] # b[s]}
<1>1. SUFFICES ASSUME F # {} PROVE FALSE
  OBVIOUS
<1>2. F \subseteq SUBSET D
  OBVIOUS
<1>3. PICK s \in F : \A x \in s : s \ {x} \notin F
  <2> HIDE DEF F
  <2> QED
    BY <1>1, <1>2, SmallestMember
<1>4. s \in SUBSET D /\ s \in SUBSET E /\ a[s] # b[s]
  OBVIOUS
<1>5. s # {}
  BY <1>4, SolutionAt
<1>6. Pick(s) \in s
  BY <1>5, PickMember
<1>7. a[s \ {Pick(s)}] = b[s \ {Pick(s)}]
  BY <1>3, <1>4, <1>6
<1> HIDE DEF F
<1>8. a[s] = f[Pick(s)] + a[s \ {Pick(s)}]
  BY <1>4, <1>5, SolutionAt
<1>9. b[s] = f[Pick(s)] + b[s \ {Pick(s)}]
  BY <1>4, <1>5, SolutionAt
<1> QED
  BY <1>4, <1>7, <1>8, <1>9

\* The recursion has a solution over every finite set.
LEMMA SolutionExists ==
    ASSUME NEW f, NEW D, IsFiniteSet(D)
    PROVE  \E it : Solves(it, f, D)
<1> DEFINE F == {E \in SUBSET D : ~\E it : Solves(it, f, E)}
<1>1. SUFFICES ASSUME F # {} PROVE FALSE
  OBVIOUS
<1>2. F \subseteq SUBSET D
  OBVIOUS
<1>3. PICK E \in F : \A x \in E : E \ {x} \notin F
  BY <1>1, <1>2, SmallestMember
<1>4. E \in SUBSET D /\ ~\E it : Solves(it, f, E)
  OBVIOUS
<1>5. \A x \in E : \E it : Solves(it, f, E \ {x})
  BY <1>3, <1>4
<1> HIDE DEF F
<1> DEFINE Sub(x) == CHOOSE it : Solves(it, f, E \ {x})
<1>6. \A x \in E : Solves(Sub(x), f, E \ {x})
  BY <1>5, Zenon
<1> HIDE DEF Sub
<1> DEFINE it == [s \in SUBSET E |->
                    IF s = {} THEN 0
                    ELSE f[Pick(s)] + Sub(Pick(s))[s \ {Pick(s)}]]
<1>7. ASSUME NEW s \in SUBSET E, s # {}
      PROVE  it[s \ {Pick(s)}] = Sub(Pick(s))[s \ {Pick(s)}]
  <2> DEFINE r == s \ {Pick(s)}
  <2>1. Pick(s) \in s
    BY <1>7, PickMember
  <2>2. r \in SUBSET (E \ {Pick(s)})
    BY <2>1
  <2>3. Solves(Sub(Pick(s)), f, E \ {Pick(s)})
    BY <1>6, <2>1
  <2>4. CASE r = {}
    <3>1. it[r] = 0
      BY <2>4, <2>2
    <3>2. Sub(Pick(s))[r] = 0
      BY <2>2, <2>3, <2>4, SolutionAt
    <3> QED
      BY <3>1, <3>2
  <2>5. CASE r # {}
    <3>1. it[r] = f[Pick(r)] + Sub(Pick(r))[r \ {Pick(r)}]
      BY <2>2, <2>5
    <3>2. Sub(Pick(s))[r] = f[Pick(r)] + Sub(Pick(s))[r \ {Pick(r)}]
      <4> HIDE DEF r, it
      <4> QED
        BY <2>2, <2>3, <2>5, SolutionAt
    <3>3. Pick(r) \in r
      BY <2>5, PickMember
    <3>4. Solves(Sub(Pick(r)), f, E \ {Pick(r)})
      BY <1>6, <2>2, <3>3
    <3>5. IsFiniteSet(E \ {Pick(s)})
      BY <1>4, FS_Subset, FS_RemoveElement
    <3>6. r \ {Pick(r)} \in SUBSET ((E \ {Pick(s)}) \cap (E \ {Pick(r)}))
      BY <2>2
    <3> HIDE DEF r, it
    <3>7. Sub(Pick(s))[r \ {Pick(r)}] = Sub(Pick(r))[r \ {Pick(r)}]
      BY <2>3, <3>4, <3>5, <3>6, SolutionsAgree
    <3>8. it[r] = Sub(Pick(s))[r]
      BY <3>1, <3>2, <3>7
    <3> QED
      BY <3>8 DEF r
  <2> QED
    BY <2>4, <2>5
<1>8. it = [s \in SUBSET E |->
              IF s = {} THEN 0 ELSE f[Pick(s)] + it[s \ {Pick(s)}]]
  BY <1>7
<1>9. Solves(it, f, E)
  BY <1>8, Zenon DEF Solves
<1> QED
  BY <1>4, <1>9, Zenon

\* The sum over S is the value at S of any solution that covers S.
LEMMA TotalAt ==
    ASSUME NEW f, NEW D, IsFiniteSet(D), NEW it, Solves(it, f, D),
           NEW S \in SUBSET D
    PROVE  Total(f, S) = it[S]
<1> DEFINE own == CHOOSE g : Solves(g, f, S)
<1>1. IsFiniteSet(S)
  BY FS_Subset
<1>2. \E g : Solves(g, f, S)
  BY <1>1, SolutionExists
<1>3. Solves(own, f, S)
  BY <1>2, Zenon
<1>4. Total(f, S) = own[S]
  BY TotalDefinition
<1> HIDE DEF own
<1>5. S \in SUBSET (S \cap D)
  OBVIOUS
<1>6. own[S] = it[S]
  BY <1>1, <1>3, <1>5, SolutionsAgree
<1> QED
  BY <1>4, <1>6

-----------------------------------------------------------------------------
\* Nothing sums to zero.
LEMMA TotalEmpty == ASSUME NEW f PROVE Total(f, {}) = 0
<1>1. PICK it : Solves(it, f, {})
  BY FS_EmptySet, SolutionExists
<1>2. it[{}] = 0
  BY <1>1, SolutionAt
<1>3. Total(f, {}) = it[{}]
  BY <1>1, FS_EmptySet, TotalAt
<1> QED
  BY <1>2, <1>3

\* A sum of integers is an integer; one of naturals is a natural.
LEMMA TotalInt ==
    ASSUME NEW D, IsFiniteSet(D), NEW f, \A x \in D : f[x] \in Int
    PROVE  /\ Total(f, D) \in Int
           /\ (\A x \in D : f[x] >= 0) => Total(f, D) >= 0
<1>1. PICK it : Solves(it, f, D)
  BY SolutionExists
<1> DEFINE Good(v) == v \in Int /\ ((\A x \in D : f[x] >= 0) => v >= 0)
           F == {s \in SUBSET D : ~Good(it[s])}
<1>2. F = {}
  <2>1. SUFFICES ASSUME F # {} PROVE FALSE
    OBVIOUS
  <2>2. F \subseteq SUBSET D
    OBVIOUS
  <2>3. PICK s \in F : \A x \in s : s \ {x} \notin F
    BY <2>1, <2>2, SmallestMember
  <2>4. s \in SUBSET D /\ ~Good(it[s])
    OBVIOUS
  <2>5. s # {}
    <3>1. s = {} => it[s] = 0
      BY <1>1, <2>4, SolutionAt, Zenon
    <3> QED
      BY <2>4, <3>1
  <2>6. /\ it[s] = f[Pick(s)] + it[s \ {Pick(s)}]
        /\ Pick(s) \in s
    BY <1>1, <2>4, <2>5, SolutionAt
  <2>7. Good(it[s \ {Pick(s)}])
    BY <2>3, <2>4, <2>6
  <2>8. Pick(s) \in D /\ f[Pick(s)] \in Int
    BY <2>4, <2>6
  <2> HIDE DEF F
  <2> QED
    BY <2>4, <2>6, <2>7, <2>8
<1>3. Good(it[D])
  BY <1>2
<1>4. Total(f, D) = it[D]
  BY <1>1, TotalAt
<1> QED
  BY <1>3, <1>4

\* Any element can be taken out of a sum.
LEMMA TotalRemove ==
    ASSUME NEW D, IsFiniteSet(D), NEW f, \A x \in D : f[x] \in Int, NEW e \in D
    PROVE  Total(f, D) = f[e] + Total(f, D \ {e})
<1>1. PICK it : Solves(it, f, D)
  BY SolutionExists
<1>2. \A s \in SUBSET D : it[s] \in Int
  <2>1. ASSUME NEW s \in SUBSET D PROVE it[s] \in Int
    <3>1. it[s] = Total(f, s)
      BY <1>1, TotalAt
    <3>2. IsFiniteSet(s) /\ \A x \in s : f[x] \in Int
      BY FS_Subset
    <3> QED
      BY <3>1, <3>2, TotalInt
  <2> QED
    BY <2>1
<1> DEFINE F == {s \in SUBSET D : \E x \in s : it[s] # f[x] + it[s \ {x}]}
<1>3. F = {}
  <2>1. SUFFICES ASSUME F # {} PROVE FALSE
    OBVIOUS
  <2>2. F \subseteq SUBSET D
    OBVIOUS
  <2>3. PICK s \in F : \A x \in s : s \ {x} \notin F
    BY <2>1, <2>2, SmallestMember
  <2>4. s \in SUBSET D
    OBVIOUS
  <2>5. PICK x \in s : it[s] # f[x] + it[s \ {x}]
    OBVIOUS
  <2>6. \A y \in s : \A z \in s \ {y} :
          it[s \ {y}] = f[z] + it[(s \ {y}) \ {z}]
    BY <2>3, <2>4
  <2> HIDE DEF F
  <2> DEFINE y == Pick(s)
  <2>7. y \in s /\ it[s] = f[y] + it[s \ {y}]
    BY <1>1, <2>4, <2>5, SolutionAt
  <2> HIDE DEF y
  <2>8. x # y
    BY <2>5, <2>7
  <2>9. it[s \ {y}] = f[x] + it[(s \ {y}) \ {x}]
    BY <2>5, <2>6, <2>7, <2>8
  <2>10. it[s \ {x}] = f[y] + it[(s \ {x}) \ {y}]
    BY <2>5, <2>6, <2>7, <2>8
  <2>11. (s \ {y}) \ {x} = (s \ {x}) \ {y}
    OBVIOUS
  <2>12. f[x] \in Int /\ f[y] \in Int /\ it[(s \ {x}) \ {y}] \in Int
    <3>1. (s \ {x}) \ {y} \in SUBSET D
      BY <2>4
    <3> QED
      BY <1>2, <2>4, <2>7, <3>1
  <2>13. f[y] + (f[x] + it[(s \ {x}) \ {y}]) = f[x] + (f[y] + it[(s \ {x}) \ {y}])
    BY <2>12
  <2> QED
    BY <2>5, <2>7, <2>9, <2>10, <2>11, <2>13
<1>4. it[D] = f[e] + it[D \ {e}]
  BY <1>3
<1>5. Total(f, D) = it[D] /\ Total(f, D \ {e}) = it[D \ {e}]
  <2>1. D \in SUBSET D /\ D \ {e} \in SUBSET D
    OBVIOUS
  <2> QED
    BY <1>1, <2>1, TotalAt
<1> QED
  BY <1>4, <1>5

\* A new element adds its own value.
LEMMA TotalAdd ==
    ASSUME NEW D, IsFiniteSet(D), NEW e, e \notin D,
           NEW f, \A x \in D \cup {e} : f[x] \in Int
    PROVE  Total(f, D \cup {e}) = f[e] + Total(f, D)
<1>1. IsFiniteSet(D \cup {e}) /\ e \in D \cup {e}
  BY FS_AddElement
<1>2. (D \cup {e}) \ {e} = D
  OBVIOUS
<1>3. Total(f, D \cup {e}) = f[e] + Total(f, (D \cup {e}) \ {e})
  BY <1>1, TotalRemove
<1> QED
  BY <1>2, <1>3

\* Only the values on the set matter.
LEMMA TotalSame ==
    ASSUME NEW D, IsFiniteSet(D), NEW f, NEW g, \A x \in D : f[x] = g[x]
    PROVE  Total(f, D) = Total(g, D)
<1>1. PICK a : Solves(a, f, D)
  BY SolutionExists
<1>2. PICK b : Solves(b, g, D)
  BY SolutionExists
<1> DEFINE F == {s \in SUBSET D : a[s] # b[s]}
<1>3. F = {}
  <2>1. SUFFICES ASSUME F # {} PROVE FALSE
    OBVIOUS
  <2>2. F \subseteq SUBSET D
    OBVIOUS
  <2>3. PICK s \in F : \A x \in s : s \ {x} \notin F
    BY <2>1, <2>2, SmallestMember
  <2>4. s \in SUBSET D /\ a[s] # b[s]
    OBVIOUS
  <2>5. s # {}
    BY <1>1, <1>2, <2>4, SolutionAt
  <2>6. Pick(s) \in s
    BY <2>5, PickMember
  <2>7. a[s \ {Pick(s)}] = b[s \ {Pick(s)}]
    BY <2>3, <2>4, <2>6
  <2> HIDE DEF F
  <2>8. a[s] = f[Pick(s)] + a[s \ {Pick(s)}]
    BY <1>1, <2>4, <2>5, SolutionAt
  <2>9. b[s] = g[Pick(s)] + b[s \ {Pick(s)}]
    BY <1>2, <2>4, <2>5, SolutionAt
  <2>10. f[Pick(s)] = g[Pick(s)]
    BY <2>4, <2>6
  <2> QED
    BY <2>4, <2>7, <2>8, <2>9, <2>10
<1>4. a[D] = b[D]
  BY <1>3
<1>5. Total(f, D) = a[D]
  BY <1>1, TotalAt
<1>6. Total(g, D) = b[D]
  BY <1>2, TotalAt
<1> QED
  BY <1>4, <1>5, <1>6

\* The sum over two disjoint sets is the sum of the two sums.
LEMMA TotalUnion ==
    ASSUME NEW A, NEW B, IsFiniteSet(A), IsFiniteSet(B), A \cap B = {},
           NEW f, \A x \in A \cup B : f[x] \in Int
    PROVE  Total(f, A \cup B) = Total(f, A) + Total(f, B)
<1> DEFINE F == {s \in SUBSET B : Total(f, A \cup s) # Total(f, A) + Total(f, s)}
<1>1. SUFFICES ASSUME F # {} PROVE FALSE
  OBVIOUS
<1>2. F \subseteq SUBSET B
  OBVIOUS
<1>3. PICK s \in F : \A x \in s : s \ {x} \notin F
  <2> HIDE DEF F
  <2> QED
    BY <1>1, <1>2, SmallestMember
<1>4. s \in SUBSET B /\ Total(f, A \cup s) # Total(f, A) + Total(f, s)
  OBVIOUS
<1>5. ASSUME NEW x \in s
      PROVE  Total(f, A \cup (s \ {x})) = Total(f, A) + Total(f, s \ {x})
  BY <1>3, <1>4
<1> HIDE DEF F
<1>6. Total(f, A) \in Int
  BY TotalInt
<1>7. CASE s = {}
  <2>1. Total(f, A \cup s) = Total(f, A)
    BY <1>7
  <2>2. Total(f, s) = 0
    BY <1>7, TotalEmpty
  <2>3. Total(f, A) + 0 = Total(f, A)
    BY <1>6
  <2> QED
    BY <1>4, <2>1, <2>2, <2>3
<1>8. CASE s # {}
  <2>1. PICK x \in s : TRUE
    BY <1>8
  <2>2. IsFiniteSet(s) /\ IsFiniteSet(A \cup s)
    BY <1>4, FS_Subset, FS_Union
  <2>3. Total(f, s) = f[x] + Total(f, s \ {x})
    BY <1>4, <2>2, TotalRemove
  <2>4. Total(f, A \cup s) = f[x] + Total(f, (A \cup s) \ {x})
    <3>1. \A y \in A \cup s : f[y] \in Int
      BY <1>4
    <3>2. x \in A \cup s
      OBVIOUS
    <3> QED
      BY <2>2, <3>1, <3>2, TotalRemove
  <2>5. (A \cup s) \ {x} = A \cup (s \ {x})
    BY <1>4
  <2>6. f[x] \in Int /\ Total(f, s \ {x}) \in Int
    <3>1. IsFiniteSet(s \ {x})
      BY <2>2, FS_RemoveElement
    <3>2. \A y \in s \ {x} : f[y] \in Int
      BY <1>4
    <3>3. f[x] \in Int
      BY <1>4
    <3> QED
      BY <3>1, <3>2, <3>3, TotalInt
  <2> QED
    BY <1>4, <1>5, <1>6, <2>3, <2>4, <2>5, <2>6
<1> QED
  BY <1>7, <1>8
-----------------------------------------------------------------------------
(***************************************************************************)
(* Recursive functions.  A set T of naturals with a first element and with *)
(* every next one is all of them; a function that is defined step by step  *)
(* exists, and stays where its steps stay.                                 *)
(***************************************************************************)

\* Counting up from 0 to n.
LEMMA CountUp ==
    ASSUME NEW n \in Nat, NEW T, 0 \in T,
           \A k \in 1..n : k - 1 \in T => k \in T
    PROVE  \A k \in 0..n : k \in T
<1> DEFINE F == {k \in 0..n : k \notin T}
<1>1. SUFFICES ASSUME F # {} PROVE FALSE
  OBVIOUS
<1>2. PICK k \in F : \A m \in F : k <= m
  <2>1. F \subseteq Nat
    OBVIOUS
  <2> HIDE DEF F
  <2> QED
    BY <1>1, <2>1, LeastCount
<1>3. k # 0
  OBVIOUS
<1>4. k - 1 \in 0..n /\ k \in 1..n
  BY <1>3
<1>5. k - 1 \in T
  BY <1>2, <1>4
<1> QED
  BY <1>4, <1>5

\* It is the function that starts with base and goes on with F.
Iterates(it, base, F, n) ==
    it = [k \in 0..n |-> IF k = 0 THEN base ELSE F[<<k, it[k - 1]>>]]

\* Each step k takes St[k - 1] to St[k].
StepsWithin(base, F, n, St) ==
    /\ base \in St[0]
    /\ \A k \in 1..n : \A x \in St[k - 1] : F[<<k, x>>] \in St[k]

LEMMA IterationExists ==
    ASSUME NEW n \in Nat, NEW base, NEW F
    PROVE  \E it : Iterates(it, base, F, n)
<1> DEFINE T == {k \in Nat : \E it : Iterates(it, base, F, k)}
<1>1. 0 \in T
  <2> DEFINE it == [k \in 0..0 |-> base]
  <2>1. Iterates(it, base, F, 0)
    BY DEF Iterates
  <2> QED
    BY <2>1
<1>2. ASSUME NEW k \in 1..n, k - 1 \in T PROVE k \in T
  <2>1. PICK old : Iterates(old, base, F, k - 1)
    BY <1>2
  <2> DEFINE new == [j \in 0..k |-> IF j = k THEN F[<<k, old[k - 1]>>] ELSE old[j]]
  <2>2. ASSUME NEW j \in 0..k
        PROVE  new[j] = IF j = 0 THEN base ELSE F[<<j, new[j - 1]>>]
    <3>1. CASE j = k
      BY <3>1
    <3>2. CASE j # k
      <4>1. j \in 0..(k - 1) /\ new[j] = old[j]
        BY <3>2
      <4>2. old[j] = IF j = 0 THEN base ELSE F[<<j, old[j - 1]>>]
        BY <2>1, <4>1 DEF Iterates
      <4>3. j # 0 => new[j - 1] = old[j - 1]
        BY <4>1
      <4> QED
        BY <4>1, <4>2, <4>3
    <3> QED
      BY <3>1, <3>2
  <2>3. Iterates(new, base, F, k)
    BY <2>2 DEF Iterates
  <2> QED
    BY <2>3
<1> HIDE DEF T
<1>3. n \in T
  BY <1>1, <1>2, CountUp
<1> QED
  BY <1>3 DEF T

LEMMA IterationStays ==
    ASSUME NEW n \in Nat, NEW base, NEW F, NEW St, StepsWithin(base, F, n, St),
           NEW it, it[0] = base,
           \A k \in 1..n : it[k - 1] \in St[k - 1] => it[k] = F[<<k, it[k - 1]>>]
    PROVE  \A k \in 0..n : it[k] \in St[k]
<1> DEFINE T == {k \in 0..n : it[k] \in St[k]}
<1>1. 0 \in T
  BY DEF StepsWithin
<1>2. ASSUME NEW k \in 1..n, k - 1 \in T PROVE k \in T
  <2>1. it[k - 1] \in St[k - 1]
    BY <1>2
  <2>2. it[k] = F[<<k, it[k - 1]>>]
    BY <2>1
  <2> QED
    BY <2>1, <2>2 DEF StepsWithin
<1> HIDE DEF T
<1>3. \A k \in 0..n : k \in T
  BY <1>1, <1>2, CountUp
<1> QED
  BY <1>3 DEF T

\* The greatest element of a bounded set.
LEMMA MaxOfBounded ==
    ASSUME NEW S, S # {}, NEW n \in Nat, S \subseteq 0..n
    PROVE  Max(S) \in S /\ \A x \in S : x <= Max(S)
<1> DEFINE U == {u \in 0..n : \A x \in S : x <= u}
<1>1. PICK u \in U : \A v \in U : u <= v
  <2>1. U \subseteq Nat /\ n \in U
    OBVIOUS
  <2> HIDE DEF U
  <2> QED
    BY <2>1, LeastCount
<1>2. u \in S
  <2> SUFFICES ASSUME u \notin S PROVE FALSE
    OBVIOUS
  <2>1. \A x \in S : x <= u - 1
    OBVIOUS
  <2>2. u - 1 \in 0..n
    <3>1. PICK x \in S : TRUE
      OBVIOUS
    <3>2. x \in Int /\ 0 <= x /\ u \in Int /\ u <= n
      OBVIOUS
    <3>3. x <= u - 1
      BY <2>1
    <3> HIDE DEF U
    <3> QED
      BY <3>2, <3>3
  <2>3. u - 1 \in U
    BY <2>1, <2>2
  <2>4. u \in Int
    OBVIOUS
  <2> HIDE DEF U
  <2> QED
    BY <1>1, <2>3, <2>4
<1>3. \E x \in S : \A y \in S : x >= y
  BY <1>2
<1>4. Max(S) \in S /\ \A y \in S : Max(S) >= y
  BY <1>3 DEF Max
<1> QED
  BY <1>4
=============================================================================
