---------------------------- MODULE SumTheorems ----------------------------
(***************************************************************************)
(* What SumFunctionOnSet computes, for any finite set.                     *)
(*                                                                         *)
(* The library's induction over finite sets takes the induction formula as *)
(* an operator.  Here the induction is over a family of subsets instead:   *)
(* inclusion between the subsets of a finite set is well founded, so a     *)
(* family that is not empty has a smallest member (Minimal), and a fact    *)
(* that fails somewhere fails for a set none of whose subsets it fails for.*)
(***************************************************************************)
EXTENDS Functions, FiniteSetTheorems, TLAPS

\* The element that is added next.
Pick(s) == CHOOSE x \in s : TRUE

\* g sums f over the subsets of S, one element after the other.
Sums(f, S, g) ==
  g = [s \in SUBSET S |-> IF s = {} THEN 0 ELSE f[Pick(s)] + g[s \ {Pick(s)}]]

\* SumFunctionOnSet is one such g, if there is one.
LEMMA SumIsChosen ==
  ASSUME NEW f, NEW S
  PROVE  SumFunctionOnSet(f, S) = (CHOOSE g : Sums(f, S, g))[S]
BY DEF SumFunctionOnSet, FoldFunctionOnSet, MapThenFoldSet, Sums, Pick

\* A family of subsets of a finite set has a smallest member.
LEMMA Minimal ==
  ASSUME NEW S, IsFiniteSet(S), NEW F \in SUBSET (SUBSET S), F # {}
  PROVE  \E T \in F : \A U \in F : U \subseteq T => U = T
<1>1. IsWellFoundedOn(StrictSubsetOrdering(S), SUBSET S)
  BY FS_StrictSubsetOrderingWellFounded, FS_FiniteSubsetsOfFinite
<1>2. PICK T \in F : \A U \in F : ~(<<U, T>> \in StrictSubsetOrdering(S))
  BY <1>1, WFMin
<1>3. \A U \in F : U \subseteq T => U = T
  BY <1>2 DEF StrictSubsetOrdering
<1> QED
  BY <1>3

\* What is left after an element was picked is smaller.
LEMMA PickIn ==
  ASSUME NEW s, s # {}
  PROVE  Pick(s) \in s /\ s \ {Pick(s)} \subseteq s /\ s \ {Pick(s)} # s
BY DEF Pick

\* The equation of Sums, at one set.
LEMMA SumsAt ==
  ASSUME NEW f, NEW S, NEW g, Sums(f, S, g), NEW s \in SUBSET S
  PROVE  g[s] = IF s = {} THEN 0 ELSE f[Pick(s)] + g[s \ {Pick(s)}]
BY DEF Sums

\* Two ways to sum f agree on the sets that both cover.
LEMMA SumsUnique ==
  ASSUME NEW f, NEW S, IsFiniteSet(S), NEW T \in SUBSET S,
         NEW g, Sums(f, S, g), NEW h, Sums(f, T, h)
  PROVE  \A s \in SUBSET T : h[s] = g[s]
<1> DEFINE F == {s \in SUBSET T : h[s] # g[s]}
<1> SUFFICES ASSUME F # {} PROVE FALSE
  OBVIOUS
<1>1. IsFiniteSet(T)
  BY FS_Subset
<1>2. PICK s \in F : \A u \in F : u \subseteq s => u = s
  <2>1. F \in SUBSET (SUBSET T)
    OBVIOUS
  <2> HIDE DEF F
  <2> QED
    BY <1>1, <2>1, Minimal
<1>3. s \in SUBSET T /\ s \in SUBSET S
  OBVIOUS
<1>4. CASE s = {}
  BY <1>3, <1>4, SumsAt
<1>5. CASE s # {}
  <2> DEFINE w == s \ {Pick(s)}
  <2>1. w \subseteq s /\ w # s
    BY <1>5, PickIn
  <2>2. w \notin F
    BY <1>2, <2>1
  <2>3. h[w] = g[w]
    BY <1>3, <2>1, <2>2
  <2> QED
    BY <1>3, <1>5, <2>3, SumsAt
<1> QED
  BY <1>4, <1>5

\* Every finite set can be summed over.
LEMMA SumsExist ==
  ASSUME NEW f, NEW S, IsFiniteSet(S)
  PROVE  \E g : Sums(f, S, g)
<1> DEFINE G(T) == CHOOSE g : Sums(f, T, g)
           F == {T \in SUBSET S : ~Sums(f, T, G(T))}
<1> SUFFICES ASSUME F # {} PROVE FALSE
  OBVIOUS
<1>1. PICK T \in F : \A U \in F : U \subseteq T => U = T
  <2>1. F \in SUBSET (SUBSET S)
    OBVIOUS
  <2> HIDE DEF F
  <2> QED
    BY <2>1, Minimal
<1>2. \A U \in SUBSET T : U # T => Sums(f, U, G(U))
  BY <1>1
<1>3. T \in SUBSET S /\ IsFiniteSet(T) /\ ~Sums(f, T, G(T))
  BY FS_Subset
<1> DEFINE g == [s \in SUBSET T |-> IF s = {} THEN 0
                   ELSE f[Pick(s)] + G(s \ {Pick(s)})[s \ {Pick(s)}]]
<1> HIDE DEF G, F
<1>4. ASSUME NEW s \in SUBSET T, s # {}
      PROVE  g[s \ {Pick(s)}] = G(s \ {Pick(s)})[s \ {Pick(s)}]
  <2> DEFINE w == s \ {Pick(s)}
  <2>1. w \in SUBSET T /\ w # T
    BY <1>4, PickIn
  <2>2. Sums(f, w, G(w))
    BY <1>2, <2>1
  <2>3. w \in SUBSET w
    OBVIOUS
  <2> HIDE DEF w
  <2>4. CASE w = {}
    <3>1. G(w)[w] = 0
      BY <2>2, <2>3, <2>4, SumsAt
    <3>2. g[w] = 0
      BY <2>1, <2>4
    <3> QED
      BY <3>1, <3>2 DEF w
  <2>5. CASE w # {}
    <3> DEFINE v == w \ {Pick(w)}
    <3>1. v \in SUBSET w /\ v # T
      BY <2>1, <2>5, PickIn
    <3>2. Sums(f, v, G(v)) /\ IsFiniteSet(w)
      BY <1>2, <1>3, <2>1, <3>1, FS_Subset
    <3>3. v \in SUBSET v
      OBVIOUS
    <3>4. G(v)[v] = G(w)[v]
      BY <2>2, <3>1, <3>2, <3>3, SumsUnique
    <3>5. G(w)[w] = f[Pick(w)] + G(w)[v]
      BY <2>2, <2>3, <2>5, SumsAt
    <3>6. g[w] = f[Pick(w)] + G(v)[v]
      BY <2>1, <2>5
    <3> QED
      BY <3>4, <3>5, <3>6 DEF w
  <2> QED
    BY <2>4, <2>5
<1>5. g = [s \in SUBSET T |-> IF s = {} THEN 0 ELSE f[Pick(s)] + g[s \ {Pick(s)}]]
  BY <1>4
<1>6. Sums(f, T, g)
  BY <1>5 DEF Sums
<1> HIDE DEF g
<1>7. Sums(f, T, G(T))
  BY <1>6 DEF G
<1> QED
  BY <1>3, <1>7
-----------------------------------------------------------------------------
\* The sum over no element is 0.
THEOREM SumEmpty == \A f : SumFunctionOnSet(f, {}) = 0
<1> TAKE f
<1>1. PICK g : Sums(f, {}, g)
  BY FS_EmptySet, SumsExist
<1>2. Sums(f, {}, CHOOSE h : Sums(f, {}, h))
  BY <1>1
<1> QED
  BY <1>2, SumIsChosen, SumsAt

\* The sum over the other sets, one element first.
LEMMA SumStep ==
  ASSUME NEW f, NEW S, IsFiniteSet(S), S # {}
  PROVE  SumFunctionOnSet(f, S) = f[Pick(S)] + SumFunctionOnSet(f, S \ {Pick(S)})
<1> DEFINE W == S \ {Pick(S)}
           g == CHOOSE a : Sums(f, S, a)
           h == CHOOSE a : Sums(f, W, a)
<1>1. W \in SUBSET S /\ IsFiniteSet(W) /\ W \in SUBSET W /\ S \in SUBSET S
  BY FS_Subset
<1>2. Sums(f, S, g) /\ Sums(f, W, h)
  BY <1>1, SumsExist
<1>3. SumFunctionOnSet(f, S) = g[S] /\ SumFunctionOnSet(f, W) = h[W]
  BY SumIsChosen
<1> HIDE DEF g, h
<1>4. g[S] = f[Pick(S)] + g[W]
  BY <1>1, <1>2, SumsAt
<1> HIDE DEF W
<1>5. h[W] = g[W]
  <2>1. W \in SUBSET S
    BY <1>1
  <2>2. Sums(f, S, g)
    BY <1>2
  <2>3. Sums(f, W, h)
    BY <1>2
  <2>4. W \in SUBSET W
    BY <1>1
  <2> QED
    BY <2>1, <2>2, <2>3, <2>4, SumsUnique
<1> QED
  BY <1>3, <1>4, <1>5 DEF W

\* Any element may be the first one.
THEOREM SumRemove ==
  ASSUME NEW S, IsFiniteSet(S), NEW f, \A x \in S : f[x] \in Int, NEW x \in S
  PROVE  SumFunctionOnSet(f, S) = f[x] + SumFunctionOnSet(f, S \ {x})
<1> DEFINE Sum(T) == SumFunctionOnSet(f, T)
           Bad == {T \in SUBSET S : ~ (/\ Sum(T) \in Int
                                       /\ \A y \in T : Sum(T) = f[y] + Sum(T \ {y}))}
<1>1. Bad = {}
  <2> SUFFICES ASSUME Bad # {} PROVE FALSE
    OBVIOUS
  <2>1. Bad \in SUBSET (SUBSET S)
    OBVIOUS
  <2>2. PICK T \in Bad : \A U \in Bad : U \subseteq T => U = T
    <3> HIDE DEF Bad
    <3> QED
      BY <2>1, Minimal
  <2>3. \A U \in SUBSET T : U # T => Sum(U) \in Int /\ \A y \in U : Sum(U) = f[y] + Sum(U \ {y})
    BY <2>2
  <2>4. T \in SUBSET S /\ ~(Sum(T) \in Int /\ \A y \in T : Sum(T) = f[y] + Sum(T \ {y}))
    OBVIOUS
  <2>5. IsFiniteSet(T)
    BY <2>4, FS_Subset
  <2>6. T # {}
    BY <2>4, SumEmpty
  <2> DEFINE p == Pick(T)
  <2>7. p \in T /\ Sum(T) = f[p] + Sum(T \ {p})
    BY <2>5, <2>6, PickIn, SumStep
  <2> HIDE DEF Bad, p, Sum
  <2>8. /\ \A y \in T : T \ {y} \in SUBSET T /\ T \ {y} # T /\ f[y] \in Int
        /\ \A y \in T : Sum(T \ {y}) \in Int
    BY <2>3, <2>4
  <2>9. Sum(T) \in Int
    BY <2>7, <2>8
  <2>10. ASSUME NEW y \in T PROVE Sum(T) = f[y] + Sum(T \ {y})
    <3>1. CASE y = p
      BY <2>7, <3>1
    <3>2. CASE y # p
      <4>1. (T \ {p}) \ {y} = (T \ {y}) \ {p}
        OBVIOUS
      <4> DEFINE R == (T \ {p}) \ {y}
      <4>2. y \in T \ {p} /\ p \in T \ {y}
        BY <2>7, <3>2
      <4>3. Sum(T \ {p}) = f[y] + Sum(R)
        BY <2>3, <2>7, <2>8, <4>2
      <4>4. Sum(T \ {y}) = f[p] + Sum(R)
        BY <2>3, <2>8, <4>1, <4>2
      <4>5. Sum(R) \in Int
        <5>1. R \in SUBSET T /\ R # T
          BY <2>7
        <5> HIDE DEF R
        <5> QED
          BY <2>3, <5>1
      <4> HIDE DEF R
      <4> QED
        BY <2>7, <2>8, <4>3, <4>4, <4>5
    <3> QED
      BY <3>1, <3>2
  <2> QED
    BY <2>4, <2>9, <2>10
<1>2. S \notin Bad
  BY <1>1
<1> QED
  BY <1>2

\* A sum of integers is an integer.
THEOREM SumType ==
  ASSUME NEW S, IsFiniteSet(S), NEW f, \A x \in S : f[x] \in Int
  PROVE  SumFunctionOnSet(f, S) \in Int
<1> DEFINE Sum(T) == SumFunctionOnSet(f, T)
           Bad == {T \in SUBSET S : Sum(T) \notin Int}
<1> SUFFICES ASSUME Bad # {} PROVE FALSE
  OBVIOUS
<1>1. Bad \in SUBSET (SUBSET S)
  OBVIOUS
<1>2. PICK T \in Bad : \A U \in Bad : U \subseteq T => U = T
  <2> HIDE DEF Bad
  <2> QED
    BY <1>1, Minimal
<1>3. T # {} /\ IsFiniteSet(T)
  <2>1. T \in SUBSET S /\ SumFunctionOnSet(f, T) \notin Int
    OBVIOUS
  <2>2. T # {}
    BY <2>1, SumEmpty
  <2>3. IsFiniteSet(T)
    BY <2>1, FS_Subset
  <2> QED
    BY <2>2, <2>3
<1>4. Sum(T) = f[Pick(T)] + Sum(T \ {Pick(T)}) /\ Pick(T) \in T
  BY <1>3, SumStep, PickIn
<1>5. Sum(T \ {Pick(T)}) \in Int
  BY <1>2, <1>4
<1> QED
  BY <1>4, <1>5

\* Only the values in the set matter.
THEOREM SumSame ==
  ASSUME NEW S, IsFiniteSet(S), NEW f, NEW g, \A x \in S : f[x] = g[x]
  PROVE  SumFunctionOnSet(f, S) = SumFunctionOnSet(g, S)
<1> DEFINE Bad == {T \in SUBSET S : SumFunctionOnSet(f, T) # SumFunctionOnSet(g, T)}
<1> SUFFICES ASSUME Bad # {} PROVE FALSE
  OBVIOUS
<1>1. Bad \in SUBSET (SUBSET S)
  OBVIOUS
<1>2. PICK T \in Bad : \A U \in Bad : U \subseteq T => U = T
  <2> HIDE DEF Bad
  <2> QED
    BY <1>1, Minimal
<1>3. T \in SUBSET S /\ SumFunctionOnSet(f, T) # SumFunctionOnSet(g, T)
  OBVIOUS
<1>4. T # {}
  BY <1>3, SumEmpty
<1>5. IsFiniteSet(T)
  BY <1>3, FS_Subset
<1> DEFINE W == T \ {Pick(T)}
<1>6. Pick(T) \in T /\ W \subseteq T /\ W # T
  BY <1>4, PickIn
<1>7. SumFunctionOnSet(f, W) = SumFunctionOnSet(g, W)
  BY <1>2, <1>6
<1>8. /\ SumFunctionOnSet(f, T) = f[Pick(T)] + SumFunctionOnSet(f, W)
      /\ SumFunctionOnSet(g, T) = g[Pick(T)] + SumFunctionOnSet(g, W)
  BY <1>4, <1>5, SumStep
<1> QED
  BY <1>3, <1>6, <1>7, <1>8

\* One more element.
THEOREM SumAdd ==
  ASSUME NEW S, IsFiniteSet(S), NEW x, x \notin S, NEW f, NEW g,
         \A y \in S : f[y] \in Int /\ g[y] = f[y], g[x] \in Int
  PROVE  SumFunctionOnSet(g, S \cup {x}) = SumFunctionOnSet(f, S) + g[x]
<1> DEFINE T == S \cup {x}
<1>1. IsFiniteSet(T) /\ x \in T /\ T \ {x} = S
  BY FS_AddElement
<1>2. \A y \in T : g[y] \in Int
  OBVIOUS
<1> HIDE DEF T
<1>3. SumFunctionOnSet(g, T) = g[x] + SumFunctionOnSet(g, T \ {x})
  BY <1>1, <1>2, SumRemove
<1>4. SumFunctionOnSet(g, S) = SumFunctionOnSet(f, S)
  BY SumSame
<1>5. SumFunctionOnSet(f, S) \in Int
  BY SumType
<1>6. SumFunctionOnSet(g, T) = g[x] + SumFunctionOnSet(f, S)
  BY <1>1, <1>3, <1>4
<1> QED
  BY <1>5, <1>6 DEF T

\* Another value for one element.
THEOREM SumChange ==
  ASSUME NEW S, IsFiniteSet(S), NEW x \in S, NEW f, NEW g,
         \A y \in S : f[y] \in Int /\ g[y] \in Int,
         \A y \in S \ {x} : g[y] = f[y]
  PROVE  SumFunctionOnSet(g, S) = SumFunctionOnSet(f, S) + g[x] - f[x]
<1> DEFINE W == S \ {x}
<1>1. IsFiniteSet(W)
  BY FS_Subset
<1>2. /\ SumFunctionOnSet(f, S) = f[x] + SumFunctionOnSet(f, W)
      /\ SumFunctionOnSet(g, S) = g[x] + SumFunctionOnSet(g, W)
  BY SumRemove
<1> HIDE DEF W
<1>3. SumFunctionOnSet(f, W) = SumFunctionOnSet(g, W)
  BY <1>1, SumSame DEF W
<1>4. SumFunctionOnSet(f, W) \in Int
  BY <1>1, SumType DEF W
<1> QED
  BY <1>2, <1>3, <1>4

\* A sum is monotonic in its values.
THEOREM SumLeq ==
  ASSUME NEW S, IsFiniteSet(S), NEW f, NEW g,
         \A x \in S : f[x] \in Int /\ g[x] \in Int /\ f[x] <= g[x]
  PROVE  SumFunctionOnSet(f, S) <= SumFunctionOnSet(g, S)
<1> DEFINE F(T) == SumFunctionOnSet(f, T)
           G(T) == SumFunctionOnSet(g, T)
           Bad == {T \in SUBSET S : ~(F(T) \in Int /\ G(T) \in Int /\ F(T) <= G(T))}
<1>1. Bad = {}
  <2> SUFFICES ASSUME Bad # {} PROVE FALSE
    OBVIOUS
  <2>1. Bad \in SUBSET (SUBSET S)
    OBVIOUS
  <2>2. PICK T \in Bad : \A U \in Bad : U \subseteq T => U = T
    <3> HIDE DEF Bad
    <3> QED
      BY <2>1, Minimal
  <2>3. T \in SUBSET S /\ ~(F(T) \in Int /\ G(T) \in Int /\ F(T) <= G(T))
    OBVIOUS
  <2>4. T # {}
    <3>1. F({}) = 0 /\ G({}) = 0
      BY SumEmpty
    <3> HIDE DEF F, G
    <3> QED
      BY <2>3, <3>1
  <2>5. IsFiniteSet(T)
    BY <2>3, FS_Subset
  <2> DEFINE p == Pick(T)
             W == T \ {p}
  <2>6. p \in T /\ W \subseteq T /\ W # T
    BY <2>4, PickIn
  <2>7. F(W) \in Int /\ G(W) \in Int /\ F(W) <= G(W)
    BY <2>2, <2>6
  <2>8. F(T) = f[p] + F(W) /\ G(T) = g[p] + G(W)
    BY <2>4, <2>5, SumStep
  <2> HIDE DEF F, G, p, W
  <2> QED
    BY <2>3, <2>6, <2>7, <2>8
<1>2. S \notin Bad
  BY <1>1
<1> QED
  BY <1>2

\* Sums add up element by element.
THEOREM SumPlus ==
  ASSUME NEW S, IsFiniteSet(S), NEW f, NEW g, NEW h,
         \A x \in S : f[x] \in Int /\ g[x] \in Int /\ h[x] = f[x] + g[x]
  PROVE  SumFunctionOnSet(h, S) = SumFunctionOnSet(f, S) + SumFunctionOnSet(g, S)
<1> DEFINE F(T) == SumFunctionOnSet(f, T)
           G(T) == SumFunctionOnSet(g, T)
           H(T) == SumFunctionOnSet(h, T)
           Bad == {T \in SUBSET S : ~(F(T) \in Int /\ G(T) \in Int /\ H(T) = F(T) + G(T))}
<1>1. Bad = {}
  <2> SUFFICES ASSUME Bad # {} PROVE FALSE
    OBVIOUS
  <2>1. Bad \in SUBSET (SUBSET S)
    OBVIOUS
  <2>2. PICK T \in Bad : \A U \in Bad : U \subseteq T => U = T
    <3> HIDE DEF Bad
    <3> QED
      BY <2>1, Minimal
  <2>3. T \in SUBSET S /\ ~(F(T) \in Int /\ G(T) \in Int /\ H(T) = F(T) + G(T))
    OBVIOUS
  <2>4. T # {}
    <3>1. F({}) = 0 /\ G({}) = 0 /\ H({}) = 0
      BY SumEmpty
    <3> HIDE DEF F, G, H, Bad
    <3> SUFFICES ASSUME T = {} PROVE FALSE
      OBVIOUS
    <3>2. F(T) = 0 /\ G(T) = 0 /\ H(T) = 0
      BY <3>1
    <3> QED
      BY <2>3, <3>2
  <2>5. IsFiniteSet(T)
    BY <2>3, FS_Subset
  <2> DEFINE p == Pick(T)
             W == T \ {p}
  <2>6. p \in T /\ W \subseteq T /\ W # T
    BY <2>4, PickIn
  <2>7. F(W) \in Int /\ G(W) \in Int /\ H(W) = F(W) + G(W)
    BY <2>2, <2>6
  <2>8. F(T) = f[p] + F(W) /\ G(T) = g[p] + G(W) /\ H(T) = h[p] + H(W)
    BY <2>4, <2>5, SumStep
  <2> HIDE DEF F, G, H, p, W
  <2> QED
    BY <2>3, <2>6, <2>7, <2>8
<1>2. S \notin Bad
  BY <1>1
<1> QED
  BY <1>2

\* The sum over two sets without a common element.
THEOREM SumUnion ==
  ASSUME NEW S, IsFiniteSet(S), NEW R, IsFiniteSet(R), S \cap R = {},
         NEW f, \A x \in S \cup R : f[x] \in Int
  PROVE  SumFunctionOnSet(f, S \cup R) = SumFunctionOnSet(f, S) + SumFunctionOnSet(f, R)
<1> DEFINE Sum(T) == SumFunctionOnSet(f, T)
           Bad == {T \in SUBSET R : Sum(S \cup T) # Sum(S) + Sum(T)}
<1>1. Sum(S) \in Int
  BY SumType
<1> SUFFICES ASSUME Bad # {} PROVE FALSE
  OBVIOUS
<1>2. Bad \in SUBSET (SUBSET R)
  OBVIOUS
<1>3. PICK T \in Bad : \A U \in Bad : U \subseteq T => U = T
  <2> HIDE DEF Bad
  <2> QED
    BY <1>2, Minimal
<1>4. T \in SUBSET R /\ Sum(S \cup T) # Sum(S) + Sum(T)
  OBVIOUS
<1>5. T # {}
  <2>1. S \cup {} = S /\ Sum({}) = 0
    BY SumEmpty
  <2> HIDE DEF Sum
  <2>2. Sum(S) + 0 = Sum(S)
    BY <1>1
  <2> SUFFICES ASSUME T = {} PROVE FALSE
    OBVIOUS
  <2> QED
    BY <1>4, <2>1, <2>2
<1>6. IsFiniteSet(T)
  BY <1>4, FS_Subset
<1>7. IsFiniteSet(S \cup T)
  BY <1>6, FS_Union
<1> DEFINE p == Pick(T)
           W == T \ {p}
<1>8. p \in T /\ W \subseteq T /\ W # T /\ p \in S \cup T /\ (S \cup T) \ {p} = S \cup W
  BY <1>4, <1>5, PickIn
<1>9. Sum(S \cup W) = Sum(S) + Sum(W)
  BY <1>3, <1>8
<1>10. Sum(T) = f[p] + Sum(W)
  BY <1>5, <1>6, SumStep
<1>11. \A x \in S \cup T : f[x] \in Int
  BY <1>4
<1>12. IsFiniteSet(W)
  BY <1>6, FS_Subset, <1>8
<1>13. Sum(W) \in Int
  BY <1>8, <1>11, <1>12, SumType
<1> HIDE DEF p, W
<1>14. Sum(S \cup T) = f[p] + Sum((S \cup T) \ {p})
  BY <1>7, <1>8, <1>11, SumRemove
<1> HIDE DEF Sum
<1>15. Sum(S \cup T) = f[p] + (Sum(S) + Sum(W)) /\ f[p] \in Int
  BY <1>8, <1>9, <1>11, <1>14
<1> QED
  BY <1>1, <1>4, <1>10, <1>13, <1>15

\* A sum of numbers that are not negative is not negative.
THEOREM SumNat ==
  ASSUME NEW S, IsFiniteSet(S), NEW f, \A x \in S : f[x] \in Int /\ 0 <= f[x]
  PROVE  0 <= SumFunctionOnSet(f, S)
<1> DEFINE Bad == {T \in SUBSET S : ~(SumFunctionOnSet(f, T) \in Int /\ 0 <= SumFunctionOnSet(f, T))}
<1>1. Bad = {}
  <2> SUFFICES ASSUME Bad # {} PROVE FALSE
    OBVIOUS
  <2>1. Bad \in SUBSET (SUBSET S)
    OBVIOUS
  <2>2. PICK T \in Bad : \A U \in Bad : U \subseteq T => U = T
    <3> HIDE DEF Bad
    <3> QED
      BY <2>1, Minimal
  <2>3. T # {}
    BY SumEmpty
  <2>4. T \in SUBSET S /\ IsFiniteSet(T)
    BY FS_Subset
  <2>5. SumFunctionOnSet(f, T) = f[Pick(T)] + SumFunctionOnSet(f, T \ {Pick(T)}) /\ Pick(T) \in T
    BY <2>3, <2>4, SumStep, PickIn
  <2>6. T \ {Pick(T)} \notin Bad
    BY <2>2, <2>5
  <2> QED
    BY <2>4, <2>5, <2>6
<1> QED
  BY <1>1
-----------------------------------------------------------------------------
\* The amounts of one student's rows of a wallet.
AmountsIn(R, s) == [y \in {z \in R : z.student = s} |-> y.amount]

\* What one student's rows sum up to when a row is added to the wallet.
THEOREM RowAdded ==
  ASSUME NEW R, IsFiniteSet(R), NEW x, x \notin R, \A y \in R \cup {x} : y.amount \in Int,
         NEW s
  PROVE  SumFunction(AmountsIn(R \cup {x}, s)) =
           SumFunction(AmountsIn(R, s)) + IF s = x.student THEN x.amount ELSE 0
<1> DEFINE mine == {y \in R : y.student = s}
           f == AmountsIn(R, s)
           g == AmountsIn(R \cup {x}, s)
<1>0. f = [y \in mine |-> y.amount] /\ g = [y \in {z \in R \cup {x} : z.student = s} |-> y.amount]
  BY DEF AmountsIn
<1>1. IsFiniteSet(mine) /\ x \notin mine
  BY FS_Subset
<1>2. DOMAIN f = mine /\ \A y \in mine : f[y] = y.amount /\ f[y] \in Int
  BY <1>0
<1>3. SumFunctionOnSet(f, mine) \in Int
  BY <1>1, <1>2, SumType
<1>4. SumFunction(f) = SumFunctionOnSet(f, mine)
  BY <1>2 DEF SumFunction
<1>5. CASE s = x.student
  <2>1. g = [y \in mine \cup {x} |-> y.amount] /\ DOMAIN g = mine \cup {x}
    BY <1>0, <1>5
  <2>2. g[x] = x.amount /\ g[x] \in Int /\ \A y \in mine : g[y] = f[y]
    BY <1>2, <2>1
  <2>3. SumFunction(g) = SumFunctionOnSet(g, mine \cup {x})
    BY <2>1 DEF SumFunction
  <2> HIDE DEF mine, f, g
  <2>4. SumFunctionOnSet(g, mine \cup {x}) = SumFunctionOnSet(f, mine) + g[x]
    <3>1. IsFiniteSet(mine) /\ x \notin mine
      BY <1>1
    <3>2. (\A y \in mine : f[y] \in Int /\ g[y] = f[y]) /\ g[x] \in Int
      BY <1>2, <2>2
    <3> QED
      BY ONLY <3>1, <3>2, SumAdd, ZenonT(30)
  <2>5. SumFunction(g) = SumFunction(f) + x.amount
    BY <1>4, <2>2, <2>3, <2>4
  <2> QED
    BY <1>5, <2>5 DEF f, g, mine
<1>6. CASE s # x.student
  <2>1. g = f
    BY <1>0, <1>6
  <2>2. SumFunction(f) = SumFunction(f) + 0
    BY <1>3, <1>4
  <2> HIDE DEF f, g
  <2>3. SumFunction(g) = SumFunction(f) + 0
    BY <2>1, <2>2
  <2> QED
    BY <1>6, <2>3 DEF f, g, mine
<1> QED
  BY <1>5, <1>6
=============================================================================
