------------------------------ MODULE SumTheorems ------------------------------
(***************************************************************************)
(* Sums of the values of a function over a finite set of its arguments     *)
(* (SumFunctionOnSet), which is defined by recursion over the subsets of   *)
(* the set: that the recursion defines something, and what it then is.     *)
(*                                                                         *)
(* Induction over finite sets is made first-order: of the subsets that     *)
(* violate what is to be shown there would be one of which no proper       *)
(* subset does.                                                            *)
(***************************************************************************)
EXTENDS Functions, FiniteSetTheorems, WellFoundedInduction, TLAPS

\* Of some subsets of a finite set one has none of the others within it: what
\* induction over finite sets comes to, without an operator for what is shown.
LEMMA MinimalSubset ==
    ASSUME NEW S, IsFiniteSet(S), NEW T, T \subseteq SUBSET S, T # {}
    PROVE  \E x \in T : \A y \in T : y \subseteq x => y = x
  <1>1. FiniteSubsetsOf(S) = SUBSET S
    BY FS_FiniteSubsetsOfFinite
  <1>2. IsWellFoundedOn(StrictSubsetOrdering(S), SUBSET S)
    BY <1>1, FS_StrictSubsetOrderingWellFounded
  <1>3. PICK x \in T : \A y \in T : <<y, x>> \notin StrictSubsetOrdering(S)
    BY <1>2, WFMin
  <1>4. ASSUME NEW y \in T, y \subseteq x, y # x PROVE FALSE
    <2>1. <<y, x>> \in (SUBSET S) \X (SUBSET S)
      OBVIOUS
    <2>2. <<y, x>> \in StrictSubsetOrdering(S)
      BY <1>4, <2>1 DEF StrictSubsetOrdering
    <2> QED
      BY <1>3, <2>2
  <1> QED
    BY <1>4

\* The element that comes first, and what the recursion adds to it.
First(s) == CHOOSE x \in s : TRUE

Total(F, g, s) == IF s = {} THEN 0 ELSE F[First(s)] + g[s \ {First(s)}]

IsIteration(F, g, S) == g = [s \in SUBSET S |-> Total(F, g, s)]

\* A set that is not empty has a first element.
LEMMA FirstIsIn == \A s : s # {} => First(s) \in s
  BY DEF First

\* The recursion defines at most one value for a finite set, whatever else it is
\* carried out for.
LEMMA IterationsAgree ==
    ASSUME NEW F, NEW S, IsFiniteSet(S), NEW g, NEW h, NEW U, NEW V,
           IsIteration(F, g, U), IsIteration(F, h, V), S \subseteq U, S \subseteq V
    PROVE  g[S] = h[S]
  <1> DEFINE bad == {s \in SUBSET S : g[s] # h[s]}
  <1>1. SUFFICES ASSUME bad # {} PROVE FALSE
    OBVIOUS
  <1>2. PICK s \in bad : \A r \in bad : r \subseteq s => r = s
    <2>1. bad \subseteq SUBSET S
      OBVIOUS
    <2> HIDE DEF bad
    <2> QED
      BY <1>1, <2>1, MinimalSubset
  <1>3. g[s] = Total(F, g, s) /\ h[s] = Total(F, h, s)
    BY DEF IsIteration
  <1>4. s # {}
    BY <1>3 DEF Total
  <1>5. First(s) \in s
    BY <1>4, FirstIsIn
  <1>6. s \ {First(s)} \in SUBSET S /\ s \ {First(s)} # s
    BY <1>5
  <1>7. g[s \ {First(s)}] = h[s \ {First(s)}]
    BY <1>2, <1>6
  <1>8. g[s] = h[s]
    BY <1>3, <1>4, <1>7 DEF Total
  <1> QED
    BY <1>8

\* It defines one.
LEMMA IterationExists ==
    ASSUME NEW F, NEW S, IsFiniteSet(S)
    PROVE  \E g : IsIteration(F, g, S)
  <1> DEFINE bad == {s \in SUBSET S : ~\E g : IsIteration(F, g, s)}
  <1>1. SUFFICES ASSUME bad # {} PROVE FALSE
    OBVIOUS
  <1>2. PICK t \in bad : \A r \in bad : r \subseteq t => r = t
    <2>1. bad \subseteq SUBSET S
      OBVIOUS
    <2> HIDE DEF bad
    <2> QED
      BY <1>1, <2>1, MinimalSubset
  <1> DEFINE it(s) == CHOOSE g : IsIteration(F, g, s)
             below == [s \in SUBSET t |-> it(s)[s]]
             h == [s \in SUBSET t |-> Total(F, below, s)]
  <1>3. \A s \in SUBSET t : s # t => IsIteration(F, it(s), s)
    <2> SUFFICES ASSUME NEW s \in SUBSET t, s # t PROVE IsIteration(F, it(s), s)
      OBVIOUS
    <2>1. \E g : IsIteration(F, g, s)
      BY <1>2
    <2> QED
      BY <2>1
  <1>4. ASSUME NEW s \in SUBSET t, s # t PROVE h[s] = below[s]
    <2>1. IsIteration(F, it(s), s)
      BY <1>3, <1>4
    <2>2. h[s] = Total(F, below, s) /\ below[s] = it(s)[s]
      OBVIOUS
    <2>3. it(s)[s] = Total(F, it(s), s)
      BY <2>1 DEF IsIteration
    <2>4. CASE s = {}
      BY <2>2, <2>3, <2>4 DEF Total
    <2>5. CASE s # {}
      <3> DEFINE r == s \ {First(s)}
      <3>1. First(s) \in s
        BY <2>5, FirstIsIn
      <3>2. r \in SUBSET t /\ r # t /\ r \subseteq s /\ IsFiniteSet(r)
        <4>1. IsFiniteSet(s)
          BY FS_Subset
        <4> QED
          BY <1>4, <3>1, <4>1, FS_Subset
      <3>3. IsIteration(F, it(r), r)
        BY <1>3, <3>2
      <3> HIDE DEF it
      <3>4. it(r)[r] = it(s)[r]
        BY <2>1, <3>2, <3>3, IterationsAgree
      <3>5. below[r] = it(r)[r]
        BY <3>2
      <3> QED
        BY <2>2, <2>3, <2>5, <3>4, <3>5 DEF Total
    <2> QED
      BY <2>4, <2>5
  <1>5. \A s \in SUBSET t : Total(F, h, s) = Total(F, below, s)
    <2> SUFFICES ASSUME NEW s \in SUBSET t
                 PROVE  Total(F, h, s) = Total(F, below, s)
      OBVIOUS
    <2>1. ASSUME s # {} PROVE s \ {First(s)} \in SUBSET t /\ s \ {First(s)} # t
      BY <2>1, FirstIsIn
    <2> HIDE DEF h, below
    <2> QED
      BY <1>4, <2>1 DEF Total
  <1>6. IsIteration(F, h, t)
    BY <1>5 DEF IsIteration
  <1> QED
    BY <1>6

\* Which is the sum.
LEMMA SumIsIteration ==
    ASSUME NEW F, NEW S, IsFiniteSet(S)
    PROVE  \E g : IsIteration(F, g, S) /\ SumFunctionOnSet(F, S) = g[S]
  <1> DEFINE g == CHOOSE h : h = [s \in SUBSET S |-> Total(F, h, s)]
  <1>1. SumFunctionOnSet(F, S) = g[S]
    BY DEF SumFunctionOnSet, FoldFunctionOnSet, MapThenFoldSet, Total, First
  <1>2. IsIteration(F, g, S)
    BY IterationExists DEF IsIteration
  <1> QED
    BY <1>1, <1>2

\* What the recursion says, of the sum itself.
LEMMA SumFirst ==
    ASSUME NEW F, NEW S, IsFiniteSet(S)
    PROVE  SumFunctionOnSet(F, S) =
                IF S = {} THEN 0 ELSE F[First(S)] + SumFunctionOnSet(F, S \ {First(S)})
  <1>1. PICK g : IsIteration(F, g, S) /\ SumFunctionOnSet(F, S) = g[S]
    BY SumIsIteration
  <1>2. g[S] = Total(F, g, S)
    BY <1>1 DEF IsIteration
  <1>3. IsFiniteSet(S \ {First(S)})
    BY FS_Subset
  <1>4. PICK h : /\ IsIteration(F, h, S \ {First(S)})
                 /\ SumFunctionOnSet(F, S \ {First(S)}) = h[S \ {First(S)}]
    BY <1>3, SumIsIteration
  <1>5. g[S \ {First(S)}] = h[S \ {First(S)}]
    BY <1>1, <1>3, <1>4, IterationsAgree
  <1> QED
    BY <1>1, <1>2, <1>4, <1>5 DEF Total

\* The sum over no elements, where every sum that the models take starts.
LEMMA SumOfNone == \A F : SumFunctionOnSet(F, {}) = 0
  BY SumFirst, FS_EmptySet

\* Natural numbers add up to one: so amounts of orders and costs of leases do.
LEMMA SumIsNat ==
    ASSUME NEW F, NEW S, IsFiniteSet(S), \A x \in S : F[x] \in Nat
    PROVE  SumFunctionOnSet(F, S) \in Nat
  <1> DEFINE bad == {s \in SUBSET S : SumFunctionOnSet(F, s) \notin Nat}
  <1>1. SUFFICES ASSUME bad # {} PROVE FALSE
    OBVIOUS
  <1>2. PICK s \in bad : \A r \in bad : r \subseteq s => r = s
    <2>1. bad \subseteq SUBSET S
      OBVIOUS
    <2> HIDE DEF bad
    <2> QED
      BY <1>1, <2>1, MinimalSubset
  <1>3. IsFiniteSet(s)
    BY FS_Subset
  <1>4. s # {}
    BY SumOfNone
  <1>5. First(s) \in s
    BY <1>4, FirstIsIn
  <1>6. SumFunctionOnSet(F, s \ {First(s)}) \in Nat
    BY <1>2, <1>5
  <1> QED
    BY <1>3, <1>4, <1>5, <1>6, SumFirst

\* The elements may be taken in any order: a lease that is given back takes away what
\* it added, whatever was admitted since.
LEMMA SumWithout ==
    ASSUME NEW F, NEW S, IsFiniteSet(S), \A x \in S : F[x] \in Nat, NEW c \in S
    PROVE  SumFunctionOnSet(F, S) = F[c] + SumFunctionOnSet(F, S \ {c})
  <1> DEFINE bad == {s \in SUBSET S : \E x \in s :
                        SumFunctionOnSet(F, s) # F[x] + SumFunctionOnSet(F, s \ {x})}
  <1>1. SUFFICES ASSUME bad # {} PROVE FALSE
    OBVIOUS
  <1>2. PICK s \in bad : \A r \in bad : r \subseteq s => r = s
    <2>1. bad \subseteq SUBSET S
      OBVIOUS
    <2> HIDE DEF bad
    <2> QED
      BY <1>1, <2>1, MinimalSubset
  <1>3. PICK x \in s : SumFunctionOnSet(F, s) # F[x] + SumFunctionOnSet(F, s \ {x})
    OBVIOUS
  <1> DEFINE y == First(s)
  <1>4. \A r \in SUBSET S : IsFiniteSet(r) /\ SumFunctionOnSet(F, r) \in Nat
    BY FS_Subset, SumIsNat
  <1>5. y \in s /\ SumFunctionOnSet(F, s) = F[y] + SumFunctionOnSet(F, s \ {y})
    BY <1>4, FirstIsIn, SumFirst
  <1>6. x # y
    BY <1>3, <1>5
  <1>7. SumFunctionOnSet(F, s \ {y}) = F[x] + SumFunctionOnSet(F, (s \ {y}) \ {x})
    <2>1. s \ {y} \in SUBSET S /\ s \ {y} # s /\ x \in s \ {y}
      BY <1>5, <1>6
    <2> QED
      BY <1>2, <2>1
  <1>8. SumFunctionOnSet(F, s \ {x}) = F[y] + SumFunctionOnSet(F, (s \ {x}) \ {y})
    <2>1. s \ {x} \in SUBSET S /\ s \ {x} # s /\ y \in s \ {x}
      BY <1>5, <1>6
    <2> QED
      BY <1>2, <2>1
  <1>9. (s \ {x}) \ {y} = (s \ {y}) \ {x}
    OBVIOUS
  <1> HIDE DEF y
  <1>10. F[x] \in Nat /\ F[y] \in Nat /\ SumFunctionOnSet(F, (s \ {y}) \ {x}) \in Nat
    BY <1>4, <1>5
  <1> HIDE DEF bad
  <1> QED
    BY <1>3, <1>5, <1>7, <1>8, <1>9, <1>10

\* One element more adds its value: an order that is listed, a lease that is admitted.
LEMMA SumWith ==
    ASSUME NEW F, NEW S, IsFiniteSet(S), NEW c, c \notin S,
           \A x \in S \cup {c} : F[x] \in Nat
    PROVE  /\ IsFiniteSet(S \cup {c})
           /\ SumFunctionOnSet(F, S \cup {c}) = F[c] + SumFunctionOnSet(F, S)
  <1>1. IsFiniteSet(S \cup {c}) /\ (S \cup {c}) \ {c} = S
    BY FS_AddElement
  <1> QED
    BY <1>1, SumWithout

\* The sum of some, with less of each, is no more: what is left of the orders that
\* takers can fill is covered by what an inventory has counted.
LEMMA SumIsMonotone ==
    ASSUME NEW F, NEW G, NEW S, NEW T, IsFiniteSet(T), S \subseteq T,
           \A x \in S : F[x] \in Nat, \A x \in T : G[x] \in Nat,
           \A x \in S : F[x] <= G[x]
    PROVE  SumFunctionOnSet(F, S) <= SumFunctionOnSet(G, T)
  <1> DEFINE bad == {t \in SUBSET T :
                        ~(SumFunctionOnSet(F, S \cap t) <= SumFunctionOnSet(G, t))}
  <1>1. SUFFICES ASSUME bad # {} PROVE FALSE
    <2>1. S \cap T = S
      OBVIOUS
    <2> QED
      BY <2>1
  <1>2. PICK t \in bad : \A r \in bad : r \subseteq t => r = t
    <2>1. bad \subseteq SUBSET T
      OBVIOUS
    <2> HIDE DEF bad
    <2> QED
      BY <1>1, <2>1, MinimalSubset
  <1>3. \A r \in SUBSET T : IsFiniteSet(r) /\ IsFiniteSet(S \cap r)
            /\ SumFunctionOnSet(G, r) \in Nat /\ SumFunctionOnSet(F, S \cap r) \in Nat
    <2> SUFFICES ASSUME NEW r \in SUBSET T
                 PROVE  IsFiniteSet(r) /\ IsFiniteSet(S \cap r)
            /\ SumFunctionOnSet(G, r) \in Nat /\ SumFunctionOnSet(F, S \cap r) \in Nat
      OBVIOUS
    <2>1. IsFiniteSet(r) /\ IsFiniteSet(S \cap r)
      BY FS_Subset
    <2> QED
      BY <2>1, SumIsNat
  <1>4. t # {}
    <2>1. S \cap {} = {}
      OBVIOUS
    <2> QED
      BY <2>1, SumOfNone
  <1>5. PICK c \in t : TRUE
    BY <1>4
  <1> DEFINE r == t \ {c}
  <1>6. r \in SUBSET T /\ SumFunctionOnSet(F, S \cap r) <= SumFunctionOnSet(G, r)
    <2>1. r \in SUBSET T /\ r \subseteq t /\ r # t
      OBVIOUS
    <2> HIDE DEF r
    <2> QED
      BY <1>2, <2>1
  <1>7. SumFunctionOnSet(G, t) = G[c] + SumFunctionOnSet(G, r)
    <2>1. \A x \in t : G[x] \in Nat
      OBVIOUS
    <2> QED
      BY <1>3, <2>1, SumWithout
  <1>8. CASE c \in S
    <2>1. c \in S \cap t /\ (S \cap t) \ {c} = S \cap r
      BY <1>8
    <2>2. \A x \in S \cap t : F[x] \in Nat
      OBVIOUS
    <2>3. SumFunctionOnSet(F, S \cap t) = F[c] + SumFunctionOnSet(F, S \cap r)
      BY <1>3, <2>1, <2>2, SumWithout
    <2>4. F[c] \in Nat /\ G[c] \in Nat /\ F[c] <= G[c]
      BY <1>8
    <2> HIDE DEF r
    <2> QED
      BY <1>3, <1>6, <1>7, <2>3, <2>4
  <1>9. CASE c \notin S
    <2>1. S \cap t = S \cap r
      BY <1>9
    <2>2. G[c] \in Nat
      OBVIOUS
    <2> HIDE DEF r
    <2> QED
      BY <1>3, <1>6, <1>7, <2>1, <2>2
  <1> QED
    BY <1>8, <1>9

\* A sum depends only on the values at its elements, so that an order that is filled
\* changes no sum that it is not in.
LEMMA SumOfEqual ==
    ASSUME NEW F, NEW G, NEW S, IsFiniteSet(S),
           \A x \in S : F[x] \in Nat /\ F[x] = G[x]
    PROVE  SumFunctionOnSet(F, S) = SumFunctionOnSet(G, S)
  <1>1. /\ SumFunctionOnSet(F, S) <= SumFunctionOnSet(G, S)
        /\ SumFunctionOnSet(G, S) <= SumFunctionOnSet(F, S)
    BY SumIsMonotone
  <1>2. SumFunctionOnSet(F, S) \in Nat /\ SumFunctionOnSet(G, S) \in Nat
    BY SumIsNat
  <1> QED
    BY <1>1, <1>2
=============================================================================
