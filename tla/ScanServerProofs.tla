-------------------------- MODULE ScanServerProofs --------------------------
(***************************************************************************)
(* Lemmas about the regular expressions, namely which keys the             *)
(* documentation says a command is about and which ones the code selects,  *)
(* and about sums, with which counts and totals are reasoned about.        *)
(***************************************************************************)
EXTENDS ScanServer, Functions, FiniteSetTheorems, WellFoundedInduction, TLAPS

\* Whether every expression compiles.
AllValid == \A e \in Filter \cup Reject : e.valid

\* The code takes no documented key for unwanted.
LEMMA SelectedAreKept == \A ks : \A k \in Selected(ks) : ~ShouldSkip(k)
<1> SUFFICES ASSUME NEW ks, NEW k \in Selected(ks) PROVE ~ShouldSkip(k)
  OBVIOUS
<1>1. (Filter # {} => Matches(Filter, k)) /\ ~Matches(Reject, k)
  BY DEF Selected
<1>2. ~Matches(Compiled(Reject), k)
  BY <1>1 DEF Matches, Compiled
<1>3. Compiled(Filter) # {} => Matches(Compiled(Filter), k)
  <2>1. CASE Filter = {}
    BY <2>1 DEF Compiled
  <2>2. CASE Filter # {}
    <3>1. PICK e \in Filter : k \in e.matches
      BY <1>1, <2>2 DEF Matches
    <3>2. e.valid \/ e.matches = {}
      BY Zenon, ScanServerAssumption
    <3>3. QED
      BY <3>1, <3>2 DEF Matches, Compiled
  <2>3. QED
    BY <2>1, <2>2
<1>4. QED
  BY <1>2, <1>3 DEF ShouldSkip

\* With expressions that compile it takes no other one for wanted.
LEMMA KeptAreSelected == AllValid => \A ks : {k \in ks : ~ShouldSkip(k)} = Selected(ks)
<1> SUFFICES ASSUME AllValid, NEW ks PROVE {k \in ks : ~ShouldSkip(k)} = Selected(ks)
  OBVIOUS
<1>1. Compiled(Filter) = Filter /\ Compiled(Reject) = Reject
  BY DEF AllValid, Compiled
<1>2. QED
  BY <1>1 DEF Selected, ShouldSkip
-----------------------------------------------------------------------------
\* The equation of the recursive function behind a sum, of which g is a solution.
Folded(g, f, D) == [s \in SUBSET D |-> IF s = {} THEN 0
                                       ELSE f[CHOOSE x \in s : TRUE] + g[s \ {CHOOSE x \in s : TRUE}]]

\* It can be solved by one that takes the elements in any order.
Additive(g, f, D) ==
  /\ g \in [SUBSET D -> Int] /\ g[{}] = 0
  /\ \A s \in SUBSET D : \A x \in s : g[s] = f[x] + g[s \ {x}]

LEMMA SumUnfold == ASSUME NEW f PROVE SumOver(f) = (CHOOSE g : g = Folded(g, f, DOMAIN f))[DOMAIN f]
BY DEF SumOver, MapThenSumSet, MapThenFoldSet, Folded

\* Of any subsets of a finite set one is minimal.
LEMMA MinimalSubset ==
  ASSUME NEW D, IsFiniteSet(D), NEW T \in SUBSET SUBSET D, T # {}
  PROVE  \E A \in T : \A x \in A : A \ {x} \notin T
<1>1. PICK A \in T : \A B \in T : <<B, A>> \notin StrictSubsetOrdering(D)
  <2>1. IsWellFoundedOn(StrictSubsetOrdering(D), FiniteSubsetsOf(D))
    BY FS_StrictSubsetOrderingWellFounded
  <2>2. T \subseteq FiniteSubsetsOf(D)
    BY FS_FiniteSubsetsOfFinite
  <2>3. QED
    BY <2>1, <2>2, WFMin
<1>2. ASSUME NEW x \in A, A \ {x} \in T PROVE FALSE
  <2> DEFINE B == A \ {x}
  <2>1. B \in SUBSET D /\ A \in SUBSET D /\ B \subseteq A /\ B # A
    OBVIOUS
  <2>2. <<B, A>> \in StrictSubsetOrdering(D)
    BY <2>1 DEF StrictSubsetOrdering
  <2> HIDE DEF B
  <2>3. QED
    BY <1>1, <1>2, <2>2 DEF B
<1>3. QED
  BY <1>2

\* Induction on finite sets, for the subsets in Good.
LEMMA SubsetInduction ==
  ASSUME NEW D, IsFiniteSet(D), NEW Good, {} \in Good,
         \A A \in SUBSET D : \A x \in D \ A : A \in Good => A \cup {x} \in Good
  PROVE  D \in Good
<1> DEFINE T == {A \in SUBSET D : A \notin Good}
<1>1. SUFFICES ASSUME D \in T PROVE FALSE
  OBVIOUS
<1>2. PICK A \in T : \A x \in A : A \ {x} \notin T
  <2>1. T \in SUBSET SUBSET D /\ T # {}
    BY <1>1
  <2> HIDE DEF T
  <2>2. QED
    BY <2>1, MinimalSubset
<1>3. PICK a \in A : TRUE
  OBVIOUS
<1>4. A \ {a} \in SUBSET D /\ a \in D \ (A \ {a}) /\ (A \ {a}) \cup {a} = A
  OBVIOUS
<1>5. QED
  BY <1>2, <1>4

\* A finite set has an additive function.
LEMMA AdditiveExists ==
  ASSUME NEW f, NEW D, IsFiniteSet(D), \A x \in D : f[x] \in Int
  PROVE  \E g : Additive(g, f, D)
<1> DEFINE Good == {A \in SUBSET D : \E g : Additive(g, f, A)}
<1>1. {} \in Good
  <2>1. Additive([s \in SUBSET {} |-> 0], f, {})
    BY DEF Additive
  <2>2. QED
    BY <2>1
<1>2. ASSUME NEW A \in SUBSET D, NEW a \in D \ A, A \in Good
      PROVE  A \cup {a} \in Good
  <2>1. PICK g : Additive(g, f, A)
    BY <1>2
  <2> DEFINE B == A \cup {a}
             h == [s \in SUBSET B |-> IF a \in s THEN f[a] + g[s \ {a}] ELSE g[s]]
  <2>2. \A s \in SUBSET B : s \ {a} \in SUBSET A /\ (a \notin s => s \in SUBSET A)
    OBVIOUS
  <2>3. h \in [SUBSET B -> Int] /\ h[{}] = 0
    BY <2>1, <2>2 DEF Additive
  <2>4. ASSUME NEW s \in SUBSET B, NEW x \in s PROVE h[s] = f[x] + h[s \ {x}]
    <3>1. CASE a \notin s
      BY <2>1, <2>2, <3>1 DEF Additive
    <3>2. CASE a = x
      BY <2>1, <2>2, <3>2 DEF Additive
    <3>3. CASE a \in s /\ a # x
      <4>1. g[s \ {a}] = f[x] + g[(s \ {a}) \ {x}]
        BY <2>1, <2>2, <3>3 DEF Additive
      <4>2. (s \ {a}) \ {x} = (s \ {x}) \ {a}
        OBVIOUS
      <4>3. h[s] = f[a] + g[s \ {a}] /\ h[s \ {x}] = f[a] + g[(s \ {x}) \ {a}]
        BY <3>3
      <4>4. f[a] \in Int /\ f[x] \in Int /\ g[(s \ {x}) \ {a}] \in Int
        <5>1. (s \ {x}) \ {a} \in SUBSET A
          BY <2>2
        <5>2. QED
          BY <2>1, <1>2, <3>3, <5>1 DEF Additive
      <4>5. \A p, q, r \in Int : p + (q + r) = q + (p + r)
        OBVIOUS
      <4>6. f[a] + (f[x] + g[(s \ {x}) \ {a}]) = f[x] + (f[a] + g[(s \ {x}) \ {a}])
        BY <4>4, <4>5
      <4> HIDE DEF h
      <4>7. QED
        BY <4>1, <4>2, <4>3, <4>6
    <3>4. QED
      BY <3>1, <3>2, <3>3
  <2>5. Additive(h, f, B)
    <3> HIDE DEF h, B
    <3>1. QED
      BY <2>3, <2>4 DEF Additive
  <2>6. QED
    BY <2>5
<1>3. D \in Good
  <2> HIDE DEF Good
  <2>1. QED
    BY <1>1, <1>2, SubsetInduction
<1>4. QED
  BY <1>3

\* Nothing else solves the equation.
LEMMA AdditiveUnique ==
  ASSUME NEW f, NEW D, IsFiniteSet(D), NEW g, Additive(g, f, D), NEW h, h = Folded(h, f, D)
  PROVE  h[D] = g[D]
<1> DEFINE T == {A \in SUBSET D : h[A] # g[A]}
<1>1. SUFFICES ASSUME T # {} PROVE FALSE
  OBVIOUS
<1>2. PICK A \in T : \A x \in A : A \ {x} \notin T
  <2>1. T \in SUBSET SUBSET D
    OBVIOUS
  <2> HIDE DEF T
  <2>2. QED
    BY <1>1, <2>1, MinimalSubset
<1>3. A # {}
  BY DEF Additive, Folded
<1> DEFINE x == CHOOSE x \in A : TRUE
<1>4. x \in A
  BY <1>3
<1>5. h[A] = f[x] + h[A \ {x}] /\ g[A] = f[x] + g[A \ {x}]
  BY <1>3, <1>4 DEF Folded, Additive
<1>6. h[A \ {x}] = g[A \ {x}]
  BY <1>2, <1>4
<1>7. QED
  BY <1>5, <1>6

\* The sum of f is what any additive function says.
LEMMA SumIs ==
  ASSUME NEW f, IsFiniteSet(DOMAIN f), NEW g, Additive(g, f, DOMAIN f)
  PROVE  SumOver(f) = g[DOMAIN f]
<1> DEFINE D == DOMAIN f
           h == CHOOSE h : h = Folded(h, f, D)
<1>1. g = Folded(g, f, D)
  <2>1. \A s \in SUBSET D : s # {} => (CHOOSE x \in s : TRUE) \in s
    OBVIOUS
  <2>2. g = [s \in SUBSET D |-> g[s]]
    BY DEF Additive
  <2>3. QED
    BY <2>1, <2>2 DEF Folded, Additive
<1>2. h = Folded(h, f, D)
  BY <1>1
<1>3. h[D] = g[D]
  <2> HIDE DEF h
  <2>1. QED
    BY <1>2, AdditiveUnique
<1>4. QED
  BY <1>3, SumUnfold

LEMMA SumEmpty == ASSUME NEW f, DOMAIN f = {} PROVE SumOver(f) = 0
<1>1. IsFiniteSet({})
  BY FS_EmptySet
<1>2. PICK g : Additive(g, f, {})
  BY <1>1, AdditiveExists
<1>3. QED
  BY <1>1, <1>2, SumIs DEF Additive

\* Any element can be taken out of a sum.
LEMMA SumTakes ==
  ASSUME NEW D, IsFiniteSet(D), NEW f \in [D -> Int], NEW a \in D
  PROVE  /\ SumOver(f) \in Int /\ SumOver(Restrict(f, D \ {a})) \in Int
         /\ SumOver(f) = f[a] + SumOver(Restrict(f, D \ {a}))
<1> DEFINE E == D \ {a}
           r == [x \in E |-> f[x]]
<1>1. PICK g : Additive(g, f, D)
  BY AdditiveExists
<1> DEFINE h == [s \in SUBSET E |-> g[s]]
<1>2. Additive(h, r, E)
  BY <1>1 DEF Additive
<1>3. IsFiniteSet(E)
  BY FS_Subset
<1>4. SumOver(f) = g[D]
  BY <1>1, SumIs
<1>5. SumOver(r) = h[E]
  <2>1. DOMAIN r = E
    OBVIOUS
  <2> HIDE DEF h, r
  <2>2. QED
    BY <1>2, <1>3, <2>1, SumIs
<1>6. g[D] = f[a] + g[E] /\ g[D] \in Int /\ g[E] \in Int
  BY <1>1 DEF Additive
<1>7. r = Restrict(f, D \ {a})
  BY DEF Restrict
<1>8. QED
  BY <1>4, <1>5, <1>6, <1>7

LEMMA SumType ==
  ASSUME NEW D, IsFiniteSet(D), NEW f \in [D -> Int]
  PROVE  SumOver(f) \in Int
<1>1. CASE D = {}
  BY <1>1, SumEmpty
<1>2. CASE D # {}
  BY <1>2, SumTakes
<1>3. QED
  BY <1>1, <1>2

\* Changing one value changes the sum by the difference.
LEMMA SumChanges ==
  ASSUME NEW D, IsFiniteSet(D), NEW f \in [D -> Int], NEW a \in D, NEW v \in Int
  PROVE  SumOver([f EXCEPT ![a] = v]) = (SumOver(f) - f[a]) + v
<1> DEFINE g == [f EXCEPT ![a] = v]
           r == Restrict(f, D \ {a})
<1>1. SumOver(f) \in Int /\ SumOver(r) \in Int /\ SumOver(f) = f[a] + SumOver(r)
  BY SumTakes
<1>2. g \in [D -> Int] /\ g[a] = v /\ Restrict(g, D \ {a}) = r
  BY DEF Restrict
<1>3. SumOver(g) = g[a] + SumOver(Restrict(g, D \ {a}))
  <2> HIDE DEF g
  <2>1. QED
    BY <1>2, SumTakes
<1> HIDE DEF g, r
<1>4. f[a] \in Int
  OBVIOUS
<1>5. QED
  BY <1>1, <1>2, <1>3, <1>4 DEF g

\* A new element adds its value.
LEMMA SumExtends ==
  ASSUME NEW D, IsFiniteSet(D), NEW f \in [D -> Int], NEW a, a \notin D, NEW v \in Int
  PROVE  SumOver([x \in D \cup {a} |-> IF x = a THEN v ELSE f[x]]) = SumOver(f) + v
<1> DEFINE E == D \cup {a}
           g == [x \in E |-> IF x = a THEN v ELSE f[x]]
<1>1. IsFiniteSet(E) /\ a \in E
  BY FS_AddElement
<1>2. g \in [E -> Int] /\ g[a] = v /\ Restrict(g, E \ {a}) = f
  BY DEF Restrict
<1> HIDE DEF g, E
<1>3. SumOver(f) \in Int /\ SumOver(g) = g[a] + SumOver(f)
  BY <1>1, <1>2, SumTakes
<1>4. QED
  BY <1>2, <1>3 DEF g, E

\* One more element, in a form for inductions.
LEMMA SumAdds ==
  ASSUME NEW D, IsFiniteSet(D), NEW f \in [D -> Int], NEW A \in SUBSET D, NEW a \in D \ A
  PROVE  /\ SumOver(Restrict(f, A)) \in Int
         /\ SumOver(Restrict(f, A \cup {a})) = f[a] + SumOver(Restrict(f, A))
<1> DEFINE B == A \cup {a}
           g == Restrict(f, B)
<1>1. IsFiniteSet(B)
  BY FS_Subset
<1>2. g \in [B -> Int] /\ g[a] = f[a] /\ Restrict(g, B \ {a}) = Restrict(f, A)
  BY DEF Restrict
<1>3. a \in B
  OBVIOUS
<1> HIDE DEF g, B
<1>4. /\ SumOver(Restrict(g, B \ {a})) \in Int
      /\ SumOver(g) = g[a] + SumOver(Restrict(g, B \ {a}))
  BY <1>1, <1>2, <1>3, SumTakes
<1>5. QED
  BY <1>2, <1>4 DEF g, B

LEMMA RestrictAll ==
  ASSUME NEW D, NEW f, DOMAIN f = D, f = [x \in D |-> f[x]]
  PROVE  Restrict(f, D) = f
BY DEF Restrict

LEMMA SumOfNone == ASSUME NEW f PROVE SumOver(Restrict(f, {})) = 0
<1>1. DOMAIN Restrict(f, {}) = {}
  BY DEF Restrict
<1>2. QED
  BY <1>1, SumEmpty

\* A sum is monotonic in its terms.
LEMMA SumMonotonic ==
  ASSUME NEW D, IsFiniteSet(D), NEW f \in [D -> Int], NEW g \in [D -> Int],
         \A x \in D : f[x] <= g[x]
  PROVE  SumOver(f) <= SumOver(g)
<1> DEFINE Good == {A \in SUBSET D : SumOver(Restrict(f, A)) <= SumOver(Restrict(g, A))}
<1>1. {} \in Good
  BY SumOfNone
<1>2. ASSUME NEW A \in SUBSET D, NEW a \in D \ A, A \in Good
      PROVE  A \cup {a} \in Good
  <2>1. /\ SumOver(Restrict(f, A)) \in Int /\ SumOver(Restrict(g, A)) \in Int
        /\ SumOver(Restrict(f, A \cup {a})) = f[a] + SumOver(Restrict(f, A))
        /\ SumOver(Restrict(g, A \cup {a})) = g[a] + SumOver(Restrict(g, A))
    BY SumAdds
  <2>2. f[a] \in Int /\ g[a] \in Int /\ f[a] <= g[a]
    OBVIOUS
  <2>3. SumOver(Restrict(f, A)) <= SumOver(Restrict(g, A))
    BY <1>2
  <2>4. SumOver(Restrict(f, A \cup {a})) <= SumOver(Restrict(g, A \cup {a}))
    BY <2>1, <2>2, <2>3
  <2>5. QED
    BY <2>4
<1>3. D \in Good
  <2> HIDE DEF Good
  <2>1. QED
    BY <1>1, <1>2, SubsetInduction
<1>4. QED
  BY <1>3, RestrictAll

\* The sum of sums.
LEMMA SumPlus ==
  ASSUME NEW D, IsFiniteSet(D), NEW f \in [D -> Int], NEW g \in [D -> Int]
  PROVE  SumOver([x \in D |-> f[x] + g[x]]) = SumOver(f) + SumOver(g)
<1> DEFINE h == [x \in D |-> f[x] + g[x]]
           Good == {A \in SUBSET D : SumOver(Restrict(h, A)) =
                                       SumOver(Restrict(f, A)) + SumOver(Restrict(g, A))}
<1>0. h \in [D -> Int] /\ \A x \in D : h[x] = f[x] + g[x]
  OBVIOUS
<1> HIDE DEF h
<1>1. {} \in Good
  BY SumOfNone
<1>2. ASSUME NEW A \in SUBSET D, NEW a \in D \ A, A \in Good
      PROVE  A \cup {a} \in Good
  <2>1. /\ SumOver(Restrict(f, A)) \in Int /\ SumOver(Restrict(g, A)) \in Int
        /\ SumOver(Restrict(f, A \cup {a})) = f[a] + SumOver(Restrict(f, A))
        /\ SumOver(Restrict(g, A \cup {a})) = g[a] + SumOver(Restrict(g, A))
        /\ SumOver(Restrict(h, A \cup {a})) = h[a] + SumOver(Restrict(h, A))
    BY <1>0, SumAdds
  <2>2. f[a] \in Int /\ g[a] \in Int /\ h[a] = f[a] + g[a]
    BY <1>0
  <2>3. SumOver(Restrict(h, A)) = SumOver(Restrict(f, A)) + SumOver(Restrict(g, A))
    BY <1>2
  <2>4. SumOver(Restrict(h, A \cup {a})) =
          SumOver(Restrict(f, A \cup {a})) + SumOver(Restrict(g, A \cup {a}))
    BY <2>1, <2>2, <2>3
  <2>5. QED
    BY <2>4
<1>3. D \in Good
  <2> HIDE DEF Good
  <2>1. QED
    BY <1>1, <1>2, SubsetInduction
<1>4. QED
  BY <1>0, <1>3, RestrictAll DEF h

LEMMA SumOfZeros ==
  ASSUME NEW D, IsFiniteSet(D), NEW f \in [D -> Int], \A x \in D : f[x] = 0
  PROVE  SumOver(f) = 0
<1>1. [x \in D |-> f[x] + f[x]] = f
  OBVIOUS
<1>2. SumOver(f) = SumOver(f) + SumOver(f) /\ SumOver(f) \in Int
  BY <1>1, SumPlus, SumType
<1>3. \A p \in Int : p = p + p => p = 0
  OBVIOUS
<1>4. QED
  BY <1>2, <1>3

\* A sum in two parts.
LEMMA SumSplits ==
  ASSUME NEW D, IsFiniteSet(D), NEW f \in [D -> Int], NEW A \in SUBSET D
  PROVE  SumOver(f) = SumOver(Restrict(f, A)) + SumOver(Restrict(f, D \ A))
<1> DEFINE Good == {B \in SUBSET A : SumOver(f) = SumOver(Restrict(f, B))
                                                    + SumOver(Restrict(f, D \ B))}
<1>1. {} \in Good
  <2>1. D \ {} = D
    OBVIOUS
  <2>2. SumOver(f) \in Int /\ Restrict(f, D) = f
    BY SumType, RestrictAll
  <2>3. QED
    BY <2>1, <2>2, SumOfNone
<1>2. ASSUME NEW B \in SUBSET A, NEW a \in A \ B, B \in Good
      PROVE  B \cup {a} \in Good
  <2> DEFINE C == D \ (B \cup {a})
  <2>1. /\ SumOver(Restrict(f, B)) \in Int
        /\ SumOver(Restrict(f, B \cup {a})) = f[a] + SumOver(Restrict(f, B))
    <3>1. B \in SUBSET D /\ a \in D \ B
      OBVIOUS
    <3>2. QED
      BY <3>1, SumAdds
  <2>2. /\ SumOver(Restrict(f, C)) \in Int
        /\ SumOver(Restrict(f, C \cup {a})) = f[a] + SumOver(Restrict(f, C))
    BY SumAdds
  <2>3. SumOver(Restrict(f, D \ B)) = f[a] + SumOver(Restrict(f, C))
    <3>1. C \cup {a} = D \ B
      OBVIOUS
    <3> HIDE DEF C
    <3>2. QED
      BY <2>2, <3>1
  <2>4. SumOver(f) = SumOver(Restrict(f, B)) + SumOver(Restrict(f, D \ B))
    BY <1>2
  <2>5. f[a] \in Int
    OBVIOUS
  <2> HIDE DEF C
  <2>6. SumOver(f) = SumOver(Restrict(f, B \cup {a})) + SumOver(Restrict(f, C))
    BY <2>1, <2>2, <2>3, <2>4, <2>5
  <2>7. QED
    BY <2>6 DEF C
<1>3. A \in Good
  <2>1. IsFiniteSet(A)
    BY FS_Subset
  <2> HIDE DEF Good
  <2>2. QED
    BY <1>1, <1>2, <2>1, SubsetInduction
<1>4. QED
  BY <1>3

\* Terms that are not negative have no negative sum, none greater than it, and the
\* part of them at different places is no greater either.
LEMMA SumNat ==
  ASSUME NEW D, IsFiniteSet(D), NEW f \in [D -> Nat]
  PROVE  SumOver(f) \in Nat
<1> DEFINE z == [x \in D |-> 0]
           Good == {A \in SUBSET D : SumOver(Restrict(f, A)) \in Nat}
<1>1. {} \in Good
  BY SumOfNone
<1>2. ASSUME NEW A \in SUBSET D, NEW a \in D \ A, A \in Good
      PROVE  A \cup {a} \in Good
  <2>1. SumOver(Restrict(f, A \cup {a})) = f[a] + SumOver(Restrict(f, A))
    <3>1. f \in [D -> Int]
      OBVIOUS
    <3>2. QED
      BY <3>1, SumAdds
  <2>2. QED
    BY <1>2, <2>1
<1>3. D \in Good
  <2> HIDE DEF Good
  <2>1. QED
    BY <1>1, <1>2, SubsetInduction
<1>4. QED
  BY <1>3, RestrictAll

LEMMA SumOfImage ==
  ASSUME NEW D, IsFiniteSet(D), NEW f \in [D -> Nat], NEW E, IsFiniteSet(E),
         NEW i \in [E -> D], \A x, y \in E : i[x] = i[y] => x = y
  PROVE  SumOver([x \in E |-> f[i[x]]]) <= SumOver(f)
<1> DEFINE g == [x \in E |-> f[i[x]]]
           Im(A) == {i[x] : x \in A}
           Good == {A \in SUBSET E : SumOver(Restrict(g, A)) = SumOver(Restrict(f, Im(A)))}
<1>0. g \in [E -> Int] /\ f \in [D -> Int] /\ \A x \in E : g[x] = f[i[x]] /\ i[x] \in D
  OBVIOUS
<1> HIDE DEF g
<1>1. {} \in Good
  <2>1. Im({}) = {}
    OBVIOUS
  <2>2. QED
    BY <2>1, SumOfNone
<1>2. ASSUME NEW A \in SUBSET E, NEW a \in E \ A, A \in Good
      PROVE  A \cup {a} \in Good
  <2>1. SumOver(Restrict(g, A \cup {a})) = g[a] + SumOver(Restrict(g, A))
    BY <1>0, SumAdds
  <2>2. Im(A) \in SUBSET D /\ i[a] \in D \ Im(A) /\ Im(A \cup {a}) = Im(A) \cup {i[a]}
    OBVIOUS
  <2>3. SumOver(Restrict(f, Im(A) \cup {i[a]})) = f[i[a]] + SumOver(Restrict(f, Im(A)))
    <3> HIDE DEF Im
    <3>1. QED
      BY <1>0, <2>2, SumAdds
  <2>4. SumOver(Restrict(g, A)) = SumOver(Restrict(f, Im(A)))
    BY <1>2
  <2> HIDE DEF Im
  <2>5. SumOver(Restrict(g, A \cup {a})) = SumOver(Restrict(f, Im(A \cup {a})))
    BY <1>0, <2>1, <2>2, <2>3, <2>4
  <2>6. QED
    BY <2>5
<1>3. E \in Good
  <2> HIDE DEF Good
  <2>1. QED
    BY <1>1, <1>2, SubsetInduction
<1>4. SumOver(g) = SumOver(Restrict(f, Im(E)))
  BY <1>0, <1>3, RestrictAll
<1>5. Im(E) \in SUBSET D
  OBVIOUS
<1> HIDE DEF Im
<1>6. SumOver(f) = SumOver(Restrict(f, Im(E))) + SumOver(Restrict(f, D \ Im(E)))
  BY <1>0, <1>5, SumSplits
<1>7. SumOver(Restrict(f, Im(E))) \in Nat /\ SumOver(Restrict(f, D \ Im(E))) \in Nat
  <2>1. ASSUME NEW A \in SUBSET D PROVE SumOver(Restrict(f, A)) \in Nat
    <3>1. IsFiniteSet(A)
      BY FS_Subset
    <3>2. Restrict(f, A) \in [A -> Nat]
      BY DEF Restrict
    <3>3. QED
      BY <3>1, <3>2, SumNat
  <2>2. QED
    BY <1>5, <2>1
<1>8. QED
  BY <1>4, <1>6, <1>7 DEF g

\* The sizes of sets without common elements add up.
LEMMA SumOfSizes ==
  ASSUME NEW P, IsFiniteSet(P), IsFiniteSet(UNION P),
         \A s, t \in P : s # t => s \cap t = {}
  PROVE  SumOver([s \in P |-> Cardinality(s)]) = Cardinality(UNION P)
<1> DEFINE f == [s \in P |-> Cardinality(s)]
           Good == {A \in SUBSET P : SumOver(Restrict(f, A)) = Cardinality(UNION A)}
<1>0. \A A \in SUBSET P : IsFiniteSet(UNION A)
  <2>1. \A A \in SUBSET P : UNION A \in SUBSET (UNION P)
    OBVIOUS
  <2>2. QED
    BY <2>1, FS_Subset
<1>1. \A s \in P : IsFiniteSet(s) /\ Cardinality(s) \in Nat
  <2>1. \A s \in P : s \in SUBSET (UNION P)
    OBVIOUS
  <2>2. QED
    BY <2>1, FS_Subset, FS_CardinalityType
<1>2. f \in [P -> Int] /\ \A s \in P : f[s] = Cardinality(s)
  BY <1>1
<1> HIDE DEF f
<1>3. {} \in Good
  <2>1. UNION {} = {} /\ Cardinality({}) = 0
    BY FS_EmptySet
  <2>2. QED
    BY <2>1, SumOfNone
<1>4. ASSUME NEW A \in SUBSET P, NEW a \in P \ A, A \in Good
      PROVE  A \cup {a} \in Good
  <2>1. SumOver(Restrict(f, A \cup {a})) = f[a] + SumOver(Restrict(f, A))
    BY <1>2, SumAdds
  <2>2. UNION (A \cup {a}) = (UNION A) \cup a /\ (UNION A) \cap a = {}
    OBVIOUS
  <2>3. Cardinality((UNION A) \cup a) = Cardinality(UNION A) + Cardinality(a)
    <3>1. Cardinality({}) = 0
      BY FS_EmptySet
    <3>2. Cardinality(UNION A) \in Nat /\ Cardinality(a) \in Nat
      BY <1>0, <1>1, FS_CardinalityType
    <3>3. IsFiniteSet(UNION A) /\ IsFiniteSet(a)
      BY <1>0, <1>1
    <3> DEFINE U == UNION A
    <3> HIDE DEF U
    <3>4. Cardinality(U \cup a) = Cardinality(U) + Cardinality(a) - Cardinality(U \cap a)
      BY <3>3, FS_Union, Zenon DEF U
    <3>5. U \cap a = {}
      BY <2>2 DEF U
    <3>6. Cardinality(U) \in Nat
      BY <3>2 DEF U
    <3>7. Cardinality(U \cup a) = Cardinality(U) + Cardinality(a)
      <4>1. Cardinality(U \cap a) = 0
        BY <3>1, <3>5
      <4>2. \A p, q \in Nat : p + q - 0 = p + q
        OBVIOUS
      <4>3. QED
        BY <3>2, <3>4, <3>6, <4>1, <4>2
    <3>8. QED
      BY <3>7 DEF U
  <2>4. SumOver(Restrict(f, A)) = Cardinality(UNION A)
    BY <1>4
  <2>5. Cardinality(UNION A) \in Nat /\ Cardinality(a) \in Nat
    BY <1>0, <1>1, FS_CardinalityType
  <2>6. SumOver(Restrict(f, A \cup {a})) = Cardinality(UNION (A \cup {a}))
    <3>1. f[a] = Cardinality(a) /\ UNION (A \cup {a}) = (UNION A) \cup a
      BY <1>2, <2>2
    <3>2. \A p, q \in Nat : p + q = q + p
      OBVIOUS
    <3>3. QED
      BY <2>1, <2>3, <2>4, <2>5, <3>1, <3>2
  <2>7. QED
    BY <2>6
<1>5. P \in Good
  <2> HIDE DEF Good
  <2>1. QED
    BY <1>3, <1>4, SubsetInduction
<1>6. QED
  BY <1>2, <1>5, RestrictAll DEF f
=============================================================================
