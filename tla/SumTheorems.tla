---------------------------- MODULE SumTheorems ----------------------------
(***************************************************************************)
(* Facts about sums over finite sets (SumFunctionOnSet of the community    *)
(* module Functions), which the ledgers of stock are stated with.  The     *)
(* library's induction theorems take a predicate as a parameter; here the  *)
(* induction goes over a set, by the least cardinality of a counterexample.*)
(***************************************************************************)
EXTENDS Integers, Functions, FiniteSetTheorems, WellFoundedInduction, TLAPS

\* A non-empty set of naturals has a first element: zero, or one whose predecessor is not in it.
LEMMA FirstOne ==
  ASSUME NEW T, T \subseteq Nat, T # {}
  PROVE  \E n \in T : n = 0 \/ (n - 1 \in Nat /\ n - 1 \notin T)
<1>1. PICK n \in T : \A m \in T : <<m, n>> \notin OpToRel(<, Nat)
  BY NatLessThanWellFounded, WFMin, Zenon
<1>2. \A m \in T : ~(m < n)
  BY <1>1 DEF OpToRel
<1>3. QED
  BY <1>2

\* Induction over the subsets of a finite set: a collection that holds the empty set, and
\* a set whenever it holds the set less any of its elements, holds all of them.
LEMMA SubsetInduction ==
  ASSUME NEW S, IsFiniteSet(S), NEW G, {} \in G,
         \A s \in SUBSET S : s # {} /\ (\A x \in s : s \ {x} \in G) => s \in G
  PROVE  SUBSET S \subseteq G
<1> DEFINE T == {Cardinality(s) : s \in (SUBSET S) \ G}
<1> SUFFICES ASSUME T # {} PROVE FALSE
  OBVIOUS
<1>1. \A s \in SUBSET S : IsFiniteSet(s) /\ Cardinality(s) \in Nat
  BY FS_Subset, FS_CardinalityType
<1>2. T \subseteq Nat
  BY <1>1
<1>3. PICK n \in T : n = 0 \/ (n - 1 \in Nat /\ n - 1 \notin T)
  <2> HIDE DEF T
  <2>1. QED
    BY <1>2, FirstOne
<1>4. PICK s \in (SUBSET S) \ G : n = Cardinality(s)
  OBVIOUS
<1> HIDE DEF T
<1>5. s # {} /\ n # 0 /\ s \notin G /\ s \in SUBSET S
  <2>1. s # {} /\ s \notin G /\ s \in SUBSET S
    BY <1>4
  <2>2. IsFiniteSet(s)
    BY <1>1, <2>1
  <2>3. Cardinality(s) # 0
    BY <2>1, <2>2, FS_EmptySet
  <2>4. QED
    BY <1>4, <2>1, <2>3
<1>6. ASSUME NEW x \in s PROVE s \ {x} \in G
  <2>1. Cardinality(s \ {x}) = n - 1
    BY <1>1, <1>4, FS_RemoveElement
  <2>2. QED
    BY <1>3, <1>5, <2>1 DEF T
<1>7. QED
  BY <1>5, <1>6

----------------------------------------------------------------------------
(* The recursion the community module sums by. *)

Chosen(s) == CHOOSE x \in s : TRUE
\* (The sum of two terms is named, since the provers type a bare + by what is around it.)
Plus(a, b) == a + b
Unfold(f, S, h) == [s \in SUBSET S |-> IF s = {} THEN 0 ELSE Plus(f[Chosen(s)], h[s \ {Chosen(s)}])]
Partial(f, S) == CHOOSE h : h = Unfold(f, S, h)

\* SumFunctionOnSet is the last of the partial sums.
LEMMA SumIsPartial == ASSUME NEW f, NEW S PROVE SumFunctionOnSet(f, S) = Partial(f, S)[S]
BY DEF SumFunctionOnSet, FoldFunctionOnSet, MapThenFoldSet, Partial, Unfold, Chosen, Plus

\* The recursion has a solution on a finite set.
LEMMA PartialExists == ASSUME NEW f, NEW S, IsFiniteSet(S) PROVE \E h : h = Unfold(f, S, h)
<1> DEFINE UpTo(n, h) == \A s \in SUBSET S : Cardinality(s) <= n => h[s] = Unfold(f, S, h)[s]
           T == {n \in Nat : \A h : ~UpTo(n, h)}
<1>1. \A s \in SUBSET S : IsFiniteSet(s) /\ Cardinality(s) \in Nat
  BY FS_Subset, FS_CardinalityType
<1>2. \A s \in SUBSET S : s # {} => Chosen(s) \in s /\ Cardinality(s \ {Chosen(s)}) = Cardinality(s) - 1
  BY <1>1, FS_RemoveElement DEF Chosen
<1>3. T = {}
  <2> SUFFICES ASSUME T # {} PROVE FALSE
    OBVIOUS
  <2>1. PICK n \in T : n = 0 \/ (n - 1 \in Nat /\ n - 1 \notin T)
    <3>1. T \subseteq Nat
      OBVIOUS
    <3> HIDE DEF T
    <3>2. QED
      BY <3>1, FirstOne
  <2>2. CASE n = 0
    <3> DEFINE h == [s \in SUBSET S |-> 0]
    <3>1. UpTo(0, h)
      <4>1. ASSUME NEW s \in SUBSET S, Cardinality(s) <= 0 PROVE s = {}
        BY <1>1, <4>1, FS_EmptySet
      <4>2. QED
        BY <4>1 DEF Unfold
    <3>2. QED
      BY <2>2, <3>1
  <2>3. CASE n - 1 \in Nat /\ n - 1 \notin T
    <3>1. PICK g : UpTo(n - 1, g)
      BY <2>3
    <3> DEFINE h == Unfold(f, S, g)
    <3>2. ASSUME NEW s \in SUBSET S, Cardinality(s) <= n PROVE h[s] = Unfold(f, S, h)[s]
      <4>1. CASE s = {}
        BY <4>1 DEF Unfold
      <4>2. CASE s # {}
        <5> DEFINE t == s \ {Chosen(s)}
        <5>1. t \in SUBSET S /\ Cardinality(t) <= n - 1
          BY <1>1, <1>2, <3>2, <4>2
        <5>2. g[t] = h[t]
          BY <3>1, <5>1
        <5>3. h[s] = Plus(f[Chosen(s)], g[t]) /\ Unfold(f, S, h)[s] = Plus(f[Chosen(s)], h[t])
          BY <4>2 DEF Unfold
        <5>4. QED
          BY <5>2, <5>3
      <4>3. QED
        BY <4>1, <4>2
    <3> HIDE DEF h
    <3>3. UpTo(n, h)
      BY <3>2
    <3>4. QED
      BY <3>3
  <2>4. QED
    BY <2>1, <2>2, <2>3
<1>4. PICK g : UpTo(Cardinality(S), g)
  BY <1>1, <1>3
<1> DEFINE h == [s \in SUBSET S |-> g[s]]
<1>5. \A s \in SUBSET S : Cardinality(s) <= Cardinality(S)
  BY FS_Subset
<1>6. \A s \in SUBSET S : g[s] = Unfold(f, S, g)[s]
  BY <1>4, <1>5
<1>7. Unfold(f, S, g) = Unfold(f, S, h)
  BY <1>2 DEF Unfold
<1>8. h = Unfold(f, S, h)
  BY <1>6, <1>7 DEF Unfold
<1>9. QED
  BY <1>8

\* The partial sums are one.
LEMMA PartialUnfolds ==
  ASSUME NEW f, NEW S, IsFiniteSet(S)
  PROVE  Partial(f, S) = Unfold(f, S, Partial(f, S))
BY PartialExists DEF Partial

\* ... so each is the empty sum or a chosen term and the rest.
LEMMA PartialStep ==
  ASSUME NEW f, NEW S, IsFiniteSet(S)
  PROVE  /\ Partial(f, S)[{}] = 0
         /\ \A s \in SUBSET S : s # {} =>
              /\ Chosen(s) \in s
              /\ Partial(f, S)[s] = Plus(f[Chosen(s)], Partial(f, S)[s \ {Chosen(s)}])
<1>1. \A s \in SUBSET S : Partial(f, S)[s] = Unfold(f, S, Partial(f, S))[s]
  BY PartialUnfolds
<1>2. \A s \in SUBSET S : s # {} => Chosen(s) \in s
  BY DEF Chosen
<1>3. QED
  BY <1>1, <1>2 DEF Unfold

\* Equal terms, equal partial sums, whatever set they are parts of.
LEMMA PartialsAgree ==
  ASSUME NEW f, NEW g, NEW S, IsFiniteSet(S), NEW R \in SUBSET S, \A x \in R : f[x] = g[x]
  PROVE  \A s \in SUBSET R : Partial(f, S)[s] = Partial(g, R)[s]
<1> DEFINE G == {s \in SUBSET R : Partial(f, S)[s] = Partial(g, R)[s]}
<1>0. IsFiniteSet(R)
  BY FS_Subset
<1>1. {} \in G
  BY <1>0, PartialStep
<1>2. ASSUME NEW s \in SUBSET R, s # {}, \A x \in s : s \ {x} \in G PROVE s \in G
  <2>1. Chosen(s) \in s /\ f[Chosen(s)] = g[Chosen(s)]
    BY <1>2, PartialStep
  <2>2. Partial(f, S)[s \ {Chosen(s)}] = Partial(g, R)[s \ {Chosen(s)}]
    BY <1>2, <2>1
  <2>3. QED
    BY <1>0, <1>2, <2>1, <2>2, PartialStep
<1> HIDE DEF G
<1>3. SUBSET R \subseteq G
  BY <1>0, <1>1, <1>2, SubsetInduction
<1>4. QED
  BY <1>3 DEF G

\* Sums of integers are integers, of naturals naturals.
LEMMA PartialType ==
  ASSUME NEW f, NEW S, IsFiniteSet(S), NEW N, 0 \in N, N \subseteq Int, \A m, n \in N : m + n \in N,
         \A x \in S : f[x] \in N
  PROVE  \A s \in SUBSET S : Partial(f, S)[s] \in N
<1> DEFINE G == {s \in SUBSET S : Partial(f, S)[s] \in N}
<1>1. {} \in G
  BY PartialStep
<1>2. ASSUME NEW s \in SUBSET S, s # {}, \A x \in s : s \ {x} \in G PROVE s \in G
  <2>0. s \in SUBSET S /\ s # {}
    BY <1>2
  <2>1. Chosen(s) \in s /\ Partial(f, S)[s] = Plus(f[Chosen(s)], Partial(f, S)[s \ {Chosen(s)}])
    BY <2>0, PartialStep
  <2>2. Partial(f, S)[s \ {Chosen(s)}] \in N /\ f[Chosen(s)] \in N
    BY <1>2, <2>1
  <2>3. Plus(f[Chosen(s)], Partial(f, S)[s \ {Chosen(s)}]) \in N
    BY <2>2 DEF Plus
  <2>4. QED
    BY <1>2, <2>1, <2>3
<1> HIDE DEF G
<1>3. SUBSET S \subseteq G
  BY <1>1, <1>2, SubsetInduction
<1>4. QED
  BY <1>3 DEF G

\* The order does not matter: any term may be taken out first.
LEMMA PartialAnyOrder ==
  ASSUME NEW f, NEW S, IsFiniteSet(S), \A x \in S : f[x] \in Int
  PROVE  \A s \in SUBSET S : \A x \in s : Partial(f, S)[s] = f[x] + Partial(f, S)[s \ {x}]
<1> DEFINE P(s) == Partial(f, S)[s]
           G == {s \in SUBSET S : \A x \in s : P(s) = f[x] + P(s \ {x})}
<1>0. \A s \in SUBSET S : P(s) \in Int
  BY PartialType
<1>1. {} \in G
  OBVIOUS
<1>2. ASSUME NEW s \in SUBSET S, s # {}, \A x \in s : s \ {x} \in G PROVE s \in G
  <2>0. s \in SUBSET S /\ s # {}
    BY <1>2
  <2>1. PICK c \in s : P(s) = f[c] + P(s \ {c})
    <3>1. Chosen(s) \in s /\ P(s) = Plus(f[Chosen(s)], P(s \ {Chosen(s)}))
      BY <2>0, PartialStep
    <3> HIDE DEF P
    <3>2. QED
      BY <3>1 DEF Plus
  <2>2. ASSUME NEW x \in s, x # c PROVE P(s) = f[x] + P(s \ {x})
    <3>1. P(s \ {c}) = f[x] + P((s \ {c}) \ {x})
      BY <1>2, <2>1, <2>2
    <3>2. P(s \ {x}) = f[c] + P((s \ {x}) \ {c})
      BY <1>2, <2>1, <2>2
    <3>3. (s \ {c}) \ {x} = (s \ {x}) \ {c}
      OBVIOUS
    <3>4. P((s \ {c}) \ {x}) \in Int /\ f[x] \in Int /\ f[c] \in Int
      BY <1>0, <2>1
    <3>6. P(s \ {c}) = f[x] + P((s \ {c}) \ {x}) /\ P(s \ {x}) = f[c] + P((s \ {c}) \ {x})
      BY <3>1, <3>2, <3>3
    <3> HIDE DEF P
    <3>7. f[c] + P(s \ {c}) = f[x] + P(s \ {x})
      BY <3>4, <3>6
    <3>8. QED
      BY <2>1, <3>7
  <2>3. QED
    BY <2>1, <2>2
<1> HIDE DEF G
<1>3. SUBSET S \subseteq G
  BY <1>1, <1>2, SubsetInduction
<1>4. QED
  BY <1>3 DEF G

\* Where one function is the sum of two, so are the partial sums.
LEMMA PartialsAdd ==
  ASSUME NEW f, NEW g, NEW h, NEW S, IsFiniteSet(S),
         \A x \in S : f[x] \in Int /\ g[x] \in Int /\ h[x] = f[x] + g[x]
  PROVE  \A s \in SUBSET S : Partial(h, S)[s] = Partial(f, S)[s] + Partial(g, S)[s]
<1> DEFINE P(s) == Partial(f, S)[s]
           Q(s) == Partial(g, S)[s]
           R(s) == Partial(h, S)[s]
           G == {s \in SUBSET S : R(s) = P(s) + Q(s)}
<1>0. \A x \in S : h[x] \in Int
  OBVIOUS
<1>1. \A s \in SUBSET S : P(s) \in Int /\ Q(s) \in Int
  <2>1. /\ 0 \in Int /\ Int \subseteq Int /\ \A m, n \in Int : m + n \in Int
        /\ \A x \in S : f[x] \in Int
        /\ \A x \in S : g[x] \in Int
    OBVIOUS
  <2>2. \A s \in SUBSET S : P(s) \in Int
    BY <2>1, PartialType
  <2>3. \A s \in SUBSET S : Q(s) \in Int
    BY <2>1, PartialType
  <2>4. QED
    BY <2>2, <2>3
<1>2. {} \in G
  BY PartialStep
<1>3. ASSUME NEW s \in SUBSET S, s # {}, \A x \in s : s \ {x} \in G PROVE s \in G
  <2>1. PICK x \in s : TRUE
    BY <1>3
  <2>2. P(s) = f[x] + P(s \ {x}) /\ Q(s) = g[x] + Q(s \ {x}) /\ R(s) = h[x] + R(s \ {x})
    BY <1>0, <2>1, PartialAnyOrder
  <2>3. R(s \ {x}) = P(s \ {x}) + Q(s \ {x}) /\ h[x] = f[x] + g[x]
    BY <1>3, <2>1
  <2>4. P(s \ {x}) \in Int /\ Q(s \ {x}) \in Int /\ f[x] \in Int /\ g[x] \in Int
    BY <1>1, <2>1
  <2> HIDE DEF P, Q, R
  <2>5. R(s) = P(s) + Q(s)
    BY <2>2, <2>3, <2>4
  <2>6. QED
    BY <2>5 DEF R
<1> HIDE DEF G
<1>4. SUBSET S \subseteq G
  BY <1>2, <1>3, SubsetInduction
<1>5. QED
  BY <1>4 DEF G

\* A factor of the terms is one of the partial sums.
LEMMA PartialsTimes ==
  ASSUME NEW f, NEW h, NEW S, IsFiniteSet(S), NEW c \in Int,
         \A x \in S : f[x] \in Int /\ h[x] = c * f[x]
  PROVE  \A s \in SUBSET S : Partial(h, S)[s] = c * Partial(f, S)[s]
<1> DEFINE P(s) == Partial(f, S)[s]
           R(s) == Partial(h, S)[s]
           G == {s \in SUBSET S : R(s) = c * P(s)}
<1>0. \A x \in S : f[x] \in Int /\ h[x] \in Int
  OBVIOUS
<1>1. \A s \in SUBSET S : P(s) \in Int
  <2>1. /\ 0 \in Int /\ Int \subseteq Int /\ \A m, n \in Int : m + n \in Int
        /\ \A x \in S : f[x] \in Int
    OBVIOUS
  <2>2. QED
    BY <2>1, PartialType
<1>2. {} \in G
  BY PartialStep
<1>3. ASSUME NEW s \in SUBSET S, s # {}, \A x \in s : s \ {x} \in G PROVE s \in G
  <2>1. PICK x \in s : TRUE
    BY <1>3
  <2>2. P(s) = f[x] + P(s \ {x}) /\ R(s) = h[x] + R(s \ {x})
    BY <1>0, <2>1, PartialAnyOrder
  <2>3. R(s \ {x}) = c * P(s \ {x}) /\ h[x] = c * f[x]
    BY <1>3, <2>1
  <2>4. P(s \ {x}) \in Int /\ f[x] \in Int
    BY <1>1, <2>1
  <2> HIDE DEF P, R
  <2>5. c * (f[x] + P(s \ {x})) = c * f[x] + c * P(s \ {x})
    BY <2>4
  <2>6. R(s) = c * P(s)
    BY <2>2, <2>3, <2>4, <2>5
  <2>7. QED
    BY <2>6 DEF R, P
<1> HIDE DEF G
<1>4. SUBSET S \subseteq G
  BY <1>2, <1>3, SubsetInduction
<1>5. QED
  BY <1>4 DEF G

\* Ones for the elements of a set, and zeros, add up to its cardinality.
LEMMA PartialsCount ==
  ASSUME NEW f, NEW S, IsFiniteSet(S), NEW T \in SUBSET S,
         \A x \in T : f[x] = 1, \A x \in S \ T : f[x] = 0
  PROVE  \A s \in SUBSET S : Partial(f, S)[s] = Cardinality(s \cap T)
<1> DEFINE P(s) == Partial(f, S)[s]
           G == {s \in SUBSET S : P(s) = Cardinality(s \cap T)}
<1>0. \A x \in S : f[x] \in Int
  OBVIOUS
<1>1. \A s \in SUBSET S : IsFiniteSet(s \cap T) /\ Cardinality(s \cap T) \in Nat
  BY FS_Subset, FS_CardinalityType
<1>2. {} \in G
  BY PartialStep, FS_EmptySet
<1>3. ASSUME NEW s \in SUBSET S, s # {}, \A x \in s : s \ {x} \in G PROVE s \in G
  <2>1. PICK x \in s : TRUE
    BY <1>3
  <2> DEFINE n == Cardinality(s \cap T)
             m == Cardinality((s \ {x}) \cap T)
             a == f[x]
  <2>2. P(s) = a + P(s \ {x})
    BY <1>0, <2>1, PartialAnyOrder
  <2>0. P(s \ {x}) = m /\ n \in Nat
    BY <1>1, <1>3, <2>1
  <2>3. CASE x \in T
    <3>1. (s \ {x}) \cap T = (s \cap T) \ {x} /\ x \in s \cap T
      BY <2>1, <2>3
    <3>2. Cardinality((s \cap T) \ {x}) = Cardinality(s \cap T) - 1
      BY <1>1, <3>1, FS_RemoveElement
    <3>3. a = 1 /\ m = n - 1
      BY <2>1, <2>3, <3>1, <3>2
    <3> HIDE DEF P, a, m, n
    <3>4. P(s) = n
      BY <2>0, <2>2, <3>3
    <3>5. QED
      BY <3>4 DEF P, n
  <2>4. CASE x \notin T
    <3>1. (s \ {x}) \cap T = s \cap T /\ a = 0
      BY <2>1, <2>4
    <3>2. m = n
      BY <3>1, Zenon
    <3> HIDE DEF P, a, m, n
    <3>3. P(s) = n
      BY <2>0, <2>2, <3>1, <3>2
    <3>4. QED
      BY <3>3 DEF P, n
  <2>5. QED
    BY <2>3, <2>4
<1> HIDE DEF G
<1>4. SUBSET S \subseteq G
  BY <1>2, <1>3, SubsetInduction
<1>5. QED
  BY <1>4 DEF G

----------------------------------------------------------------------------
(* What the proofs about ledgers cite. *)

\* The sum over no elements is zero.
THEOREM SumEmpty == ASSUME NEW f PROVE SumFunctionOnSet(f, {}) = 0
BY SumIsPartial, PartialStep, FS_EmptySet

\* A sum of integers is an integer.
THEOREM SumInt ==
  ASSUME NEW f, NEW S, IsFiniteSet(S), \A x \in S : f[x] \in Int
  PROVE  SumFunctionOnSet(f, S) \in Int
BY SumIsPartial, PartialType

\* A sum of naturals is a natural.
THEOREM SumNat ==
  ASSUME NEW f, NEW S, IsFiniteSet(S), \A x \in S : f[x] \in Nat
  PROVE  SumFunctionOnSet(f, S) \in Nat
<1>1. 0 \in Nat /\ Nat \subseteq Int /\ \A m, n \in Nat : m + n \in Nat
  OBVIOUS
<1>2. Partial(f, S)[S] \in Nat
  BY <1>1, PartialType
<1>3. QED
  BY <1>2, SumIsPartial

\* Only the terms count.
THEOREM SumSame ==
  ASSUME NEW f, NEW g, NEW S, IsFiniteSet(S), \A x \in S : f[x] = g[x]
  PROVE  SumFunctionOnSet(f, S) = SumFunctionOnSet(g, S)
BY SumIsPartial, PartialsAgree

\* A sum is any one of its terms and the sum of the others.
THEOREM SumSplit ==
  ASSUME NEW f, NEW S, IsFiniteSet(S), \A x \in S : f[x] \in Int, NEW x \in S
  PROVE  SumFunctionOnSet(f, S) = f[x] + SumFunctionOnSet(f, S \ {x})
<1>1. Partial(f, S)[S] = f[x] + Partial(f, S)[S \ {x}]
  BY PartialAnyOrder
<1>2. Partial(f, S)[S \ {x}] = Partial(f, S \ {x})[S \ {x}]
  BY PartialsAgree
<1>3. QED
  BY <1>1, <1>2, SumIsPartial

\* A sum in which one term changes, changes by as much.
THEOREM SumChange ==
  ASSUME NEW f, NEW g, NEW S, IsFiniteSet(S), \A x \in S : f[x] \in Int /\ g[x] \in Int,
         NEW x \in S, \A y \in S \ {x} : g[y] = f[y]
  PROVE  SumFunctionOnSet(g, S) = SumFunctionOnSet(f, S) + (g[x] - f[x])
<1>1. IsFiniteSet(S \ {x})
  BY FS_RemoveElement
<1>2. SumFunctionOnSet(g, S \ {x}) = SumFunctionOnSet(f, S \ {x})
  BY <1>1, SumSame
<1>3. SumFunctionOnSet(f, S \ {x}) \in Int
  BY <1>1, SumInt
<1>4. /\ SumFunctionOnSet(g, S) = g[x] + SumFunctionOnSet(g, S \ {x})
      /\ SumFunctionOnSet(f, S) = f[x] + SumFunctionOnSet(f, S \ {x})
  BY SumSplit
<1>5. QED
  BY <1>2, <1>3, <1>4

\* The sum of a sum of functions is the sum of their sums.
THEOREM SumPlus ==
  ASSUME NEW f, NEW g, NEW h, NEW S, IsFiniteSet(S),
         \A x \in S : f[x] \in Int /\ g[x] \in Int /\ h[x] = f[x] + g[x]
  PROVE  SumFunctionOnSet(h, S) = SumFunctionOnSet(f, S) + SumFunctionOnSet(g, S)
<1>1. Partial(h, S)[S] = Partial(f, S)[S] + Partial(g, S)[S]
  BY PartialsAdd
<1>2. QED
  BY <1>1, SumIsPartial

\* No smaller terms, no smaller sum.
THEOREM SumLess ==
  ASSUME NEW f, NEW g, NEW S, IsFiniteSet(S),
         \A x \in S : f[x] \in Int /\ g[x] \in Int /\ f[x] <= g[x]
  PROVE  SumFunctionOnSet(f, S) <= SumFunctionOnSet(g, S)
<1> DEFINE d == [x \in S |-> g[x] - f[x]]
<1>1. \A x \in S : d[x] \in Nat /\ g[x] = f[x] + d[x]
  OBVIOUS
<1>2. SumFunctionOnSet(d, S) \in Nat /\ SumFunctionOnSet(f, S) \in Int
  BY <1>1, SumNat, SumInt
<1>3. SumFunctionOnSet(g, S) = SumFunctionOnSet(f, S) + SumFunctionOnSet(d, S)
  <2>1. \A x \in S : f[x] \in Int /\ d[x] \in Int /\ g[x] = f[x] + d[x]
    BY <1>1
  <2> HIDE DEF d
  <2>2. QED
    BY <2>1, SumPlus
<1>4. QED
  BY <1>2, <1>3

\* A sum of nothing but zeros is zero.
THEOREM SumZero ==
  ASSUME NEW f, NEW S, IsFiniteSet(S), \A x \in S : f[x] = 0
  PROVE  SumFunctionOnSet(f, S) = 0
<1>1. \A x \in S : f[x] \in {0}
  OBVIOUS
<1>2. 0 \in {0} /\ {0} \subseteq Int /\ \A m, n \in {0} : m + n \in {0}
  OBVIOUS
<1>3. Partial(f, S)[S] \in {0}
  BY <1>1, <1>2, PartialType
<1>4. QED
  BY <1>3, SumIsPartial

\* A factor of all terms is one of the sum.
THEOREM SumTimes ==
  ASSUME NEW f, NEW h, NEW S, IsFiniteSet(S), NEW c \in Int,
         \A x \in S : f[x] \in Int /\ h[x] = c * f[x]
  PROVE  SumFunctionOnSet(h, S) = c * SumFunctionOnSet(f, S)
<1>1. Partial(h, S)[S] = c * Partial(f, S)[S]
  BY PartialsTimes
<1>2. QED
  BY <1>1, SumIsPartial

\* A sum of ones and zeros counts the ones.
THEOREM SumCount ==
  ASSUME NEW f, NEW S, IsFiniteSet(S), NEW T \in SUBSET S,
         \A x \in T : f[x] = 1, \A x \in S \ T : f[x] = 0
  PROVE  SumFunctionOnSet(f, S) = Cardinality(T)
<1>1. Partial(f, S)[S] = Cardinality(S \cap T)
  BY PartialsCount
<1>2. S \cap T = T
  OBVIOUS
<1>3. QED
  BY <1>1, <1>2, SumIsPartial

\* A sum of one number over and over is that number times how often.
THEOREM SumConst ==
  ASSUME NEW f, NEW S, IsFiniteSet(S), NEW c \in Int, \A x \in S : f[x] = c
  PROVE  SumFunctionOnSet(f, S) = c * Cardinality(S)
<1> DEFINE g == [x \in S |-> 1]
<1>1. /\ \A x \in S : g[x] = 1 /\ g[x] \in Int /\ f[x] = c * g[x]
      /\ S \in SUBSET S /\ \A x \in S \ S : g[x] = 0
  OBVIOUS
<1> HIDE DEF g
<1>2. SumFunctionOnSet(g, S) = Cardinality(S)
  BY <1>1, SumCount
<1>3. SumFunctionOnSet(f, S) = c * SumFunctionOnSet(g, S)
  BY <1>1, SumTimes
<1>4. QED
  BY <1>2, <1>3
=============================================================================
