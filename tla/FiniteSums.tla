----------------------------- MODULE FiniteSums -----------------------------
(***************************************************************************)
(* Lemmas about finite sets that the other proofs rest on: every nonempty  *)
(* family of subsets of a finite set has a smallest one, a finite set of   *)
(* integers has a greatest and a least element, and the sums of the        *)
(* community modules (SumFunction, SumFunctionOnSet) do what their name    *)
(* says.                                                                   *)
(*                                                                         *)
(* Induction over a finite set is written as a minimal counterexample:     *)
(* were some subset an exception, SmallestSubset gives one all of whose    *)
(* proper subsets are none.  That needs no induction theorem with an       *)
(* operator as parameter, only that the inclusion of finite sets is well   *)
(* founded.                                                                *)
(***************************************************************************)
EXTENDS Integers, FiniteSets, Functions, FiniteSetTheorems, WellFoundedInduction, TLAPS

\* The element the definition of a sum takes out of a set first.
Pick(s) == CHOOSE x \in s : TRUE

\* What the recursive function inside SumFunctionOnSet is.
PartialSums(f, D, sum) ==
    sum = [s \in SUBSET D |-> IF s = {} THEN 0 ELSE f[Pick(s)] + sum[s \ {Pick(s)}]]

\* The element taken out is one of the set.
LEMMA PickIn ==
    ASSUME NEW s, s # {}
    PROVE  Pick(s) \in s
  BY DEF Pick

\* A nonempty family of subsets of a finite set has a smallest member.
LEMMA SmallestSubset ==
    ASSUME NEW S, IsFiniteSet(S), NEW T, T \subseteq SUBSET S, T # {}
    PROVE  \E s \in T : \A u \in T : u \subseteq s => u = s
  <1>1. IsWellFoundedOn(StrictSubsetOrdering(S), FiniteSubsetsOf(S))
    BY FS_StrictSubsetOrderingWellFounded
  <1>2. T \subseteq FiniteSubsetsOf(S)
    BY FS_Subset DEF FiniteSubsetsOf
  <1>3. PICK s \in T : \A u \in T : ~ (<<u, s>> \in StrictSubsetOrdering(S))
    BY <1>1, <1>2, WFMin
  <1>4. QED
    BY <1>3 DEF StrictSubsetOrdering

\* With one element more, a set of integers still has a greatest and a least one.
LEMMA ExtremesOfOneMore ==
    ASSUME NEW u, u \subseteq Int, NEW x \in u,
           u \ {x} # {} => /\ \E m \in u \ {x} : \A y \in u \ {x} : m >= y
                          /\ \E m \in u \ {x} : \A y \in u \ {x} : m <= y
    PROVE  /\ \E m \in u : \A y \in u : m >= y
           /\ \E m \in u : \A y \in u : m <= y
  <1>1. CASE u \ {x} = {}
    <2>1. \A y \in u : y = x
      BY <1>1
    <2> QED
      BY <2>1
  <1>2. CASE u \ {x} # {}
    <2>1. PICK a \in u \ {x} : \A y \in u \ {x} : a >= y
      BY <1>2
    <2>2. PICK b \in u \ {x} : \A y \in u \ {x} : b <= y
      BY <1>2
    <2>3. /\ x \in Int /\ a \in u /\ a \in Int /\ b \in u /\ b \in Int
          /\ \A y \in u : y \in Int /\ (y = x \/ y \in u \ {x})
      BY <2>1, <2>2
    <2>4. CASE a >= x
      <3>1. \A y \in u : a >= y
        BY <2>1, <2>3, <2>4
      <3>2. CASE b <= x
        BY <2>2, <2>3, <3>1, <3>2
      <3>3. CASE ~(b <= x)
        <4>1. \A y \in u : x <= y
          BY <2>2, <2>3, <3>3
        <4> QED
          BY <2>3, <3>1, <4>1
      <3> QED
        BY <3>2, <3>3
    <2>5. CASE ~(a >= x)
      <3>1. \A y \in u : x >= y
        BY <2>1, <2>3, <2>5
      <3>2. CASE b <= x
        BY <2>2, <2>3, <3>1, <3>2
      <3>3. CASE ~(b <= x)
        <4>1. \A y \in u : x <= y
          BY <2>2, <2>3, <3>3
        <4> QED
          BY <2>3, <3>1, <4>1
      <3> QED
        BY <3>2, <3>3
    <2> QED
      BY <2>4, <2>5
  <1> QED
    BY <1>1, <1>2

\* A nonempty finite set of integers has a greatest and a least element.
LEMMA FiniteExtremes ==
    ASSUME NEW S, IsFiniteSet(S), S \subseteq Int, S # {}
    PROVE  /\ \E m \in S : \A y \in S : m >= y
           /\ \E m \in S : \A y \in S : m <= y
  <1> DEFINE Has(u) == /\ \E m \in u : \A y \in u : m >= y
                       /\ \E m \in u : \A y \in u : m <= y
             T == {u \in SUBSET S : u # {} /\ ~Has(u)}
  <1>1. SUFFICES ASSUME T # {} PROVE FALSE
    OBVIOUS
  <1>2. T \subseteq SUBSET S
    OBVIOUS
  <1>3. \E u \in T : \A v \in T : v \subseteq u => v = u
    <2> HIDE DEF T
    <2> QED
      BY ONLY <1>1, <1>2, SmallestSubset, IsFiniteSet(S)
  <1>4. PICK u \in T : \A v \in T : v \subseteq u => v = u
    BY <1>3
  <1>5. u \subseteq Int /\ u # {} /\ ~Has(u)
    BY <1>4
  <1>6. PICK x \in u : TRUE
    BY <1>5
  <1>7. u \ {x} # {} => Has(u \ {x})
    <2> SUFFICES ASSUME u \ {x} # {} PROVE Has(u \ {x})
      OBVIOUS
    <2>1. u \ {x} \notin T
      BY <1>4, <1>6
    <2>2. u \ {x} \in SUBSET S
      BY <1>4
    <2> QED
      BY <2>1, <2>2
  <1>8. Has(u)
    BY <1>5, <1>6, <1>7, ExtremesOfOneMore
  <1> QED
    BY <1>5, <1>8

\* Two such functions agree where their terms do.
LEMMA PartialSumsAgree ==
    ASSUME NEW f, NEW g, NEW C, NEW D, NEW sum, NEW tot, IsFiniteSet(C),
           PartialSums(f, C, sum), PartialSums(g, D, tot),
           NEW s \in SUBSET C, s \in SUBSET D, \A x \in s : f[x] = g[x]
    PROVE  sum[s] = tot[s]
  <1> DEFINE T == {u \in SUBSET s : sum[u] # tot[u]}
  <1>1. SUFFICES ASSUME T # {} PROVE FALSE
    OBVIOUS
  <1>2. T \subseteq SUBSET C
    OBVIOUS
  <1>3. \E u \in T : \A v \in T : v \subseteq u => v = u
    <2> HIDE DEF T
    <2>1. QED
      BY <1>1, <1>2, SmallestSubset
  <1>0. PICK u \in T : \A v \in T : v \subseteq u => v = u
    BY <1>3
  <1>4. u \in SUBSET C /\ u \in SUBSET D /\ sum[u] # tot[u] /\ u \subseteq s
    BY <1>0
  <1>5. u # {}
    BY <1>4 DEF PartialSums
  <1> DEFINE v == u \ {Pick(u)}
  <1>6. Pick(u) \in u
    BY <1>5, PickIn
  <1>7. v \notin T
    BY <1>0, <1>6
  <1>8. sum[v] = tot[v] /\ f[Pick(u)] = g[Pick(u)]
    BY <1>4, <1>6, <1>7
  <1>9. sum[u] = f[Pick(u)] + sum[v] /\ tot[u] = g[Pick(u)] + tot[v]
    BY <1>4, <1>5 DEF PartialSums
  <1>10. QED
    BY <1>4, <1>8, <1>9

\* There is such a function, so the definition of a sum denotes it.
LEMMA PartialSumsExist ==
    ASSUME NEW f, NEW S, IsFiniteSet(S)
    PROVE  \E sum : PartialSums(f, S, sum)
  <1> DEFINE T == {s \in SUBSET S : ~ \E sum : PartialSums(f, s, sum)}
  <1>1. SUFFICES ASSUME T # {} PROVE FALSE
    OBVIOUS
  <1>2. \E m \in T : \A v \in T : v \subseteq m => v = m
    <2>1. T \subseteq SUBSET S
      OBVIOUS
    <2> HIDE DEF T
    <2>2. QED
      BY <1>1, <2>1, SmallestSubset
  <1>3. PICK m \in T : \A v \in T : v \subseteq m => v = m
    BY <1>2
  <1> DEFINE G(v) == CHOOSE sum : PartialSums(f, v, sum)
  <1>4. ASSUME NEW v \in SUBSET m, v # m PROVE PartialSums(f, v, G(v)) /\ IsFiniteSet(v)
    <2>1. v \in SUBSET S /\ v \notin T
      BY <1>3, <1>4
    <2>2. \E sum : PartialSums(f, v, sum)
      BY <2>1
    <2>3. QED
      BY <2>1, <2>2, FS_Subset
  <1> HIDE DEF G
  <1> DEFINE Rest(u) == u \ {Pick(u)}
             h == [u \in SUBSET m |-> IF u = {} THEN 0 ELSE f[Pick(u)] + G(Rest(u))[Rest(u)]]
  <1>5. ASSUME NEW u \in SUBSET m, u # {} PROVE h[Rest(u)] = G(Rest(u))[Rest(u)]
    <2> DEFINE v == Rest(u)
               w == Rest(v)
    <2>1. v \in SUBSET m /\ v # m
      BY <1>5, PickIn
    <2>2. PartialSums(f, v, G(v)) /\ IsFiniteSet(v)
      BY <2>1, <1>4
    <2>3. CASE v = {}
      <3>1. h[v] = 0
        BY <2>1, <2>3
      <3>2. G(v)[v] = 0
        BY <2>2, <2>3 DEF PartialSums
      <3>3. QED
        BY <3>1, <3>2
    <2>4. CASE v # {}
      <3>1. w \in SUBSET m /\ w # m /\ w \in SUBSET v
        BY <2>1, <2>4, PickIn
      <3>2. PartialSums(f, w, G(w)) /\ IsFiniteSet(w)
        BY <3>1, <1>4
      <3> HIDE DEF w
      <3>3. G(w)[w] = G(v)[w]
        <4> HIDE DEF v
        <4>1. w \in SUBSET w /\ w \in SUBSET v /\ \A x \in w : f[x] = f[x]
          BY <3>1
        <4>2. QED
          BY <3>2, <2>2, <4>1, PartialSumsAgree
      <3>4. h[v] = f[Pick(v)] + G(w)[w]
        BY <2>1, <2>4 DEF w
      <3>5. G(v)[v] = f[Pick(v)] + G(v)[w]
        <4> HIDE DEF v
        <4>1. QED
          BY <2>2, <2>4 DEF PartialSums, w
      <3>6. QED
        BY <3>3, <3>4, <3>5
    <2>5. QED
      BY <2>3, <2>4
  <1>6. PartialSums(f, m, h)
    <2>1. ASSUME NEW u \in SUBSET m
          PROVE  h[u] = IF u = {} THEN 0 ELSE f[Pick(u)] + h[Rest(u)]
      <3>1. CASE u = {}
        BY <3>1
      <3>2. CASE u # {}
        <4>1. h[Rest(u)] = G(Rest(u))[Rest(u)]
          BY <1>5, <3>2
        <4>2. h[u] = f[Pick(u)] + G(Rest(u))[Rest(u)]
          BY <3>2
        <4>3. QED
          BY <3>2, <4>1, <4>2
      <3>3. QED
        BY <3>1, <3>2
    <2>2. h = [u \in SUBSET m |-> h[u]]
      OBVIOUS
    <2> HIDE DEF h
    <2>3. QED
      BY <2>1, <2>2 DEF PartialSums
  <1>7. QED
    BY <1>3, <1>6

\* A sum is the value of such a function.
LEMMA SumOnIsPartial ==
    ASSUME NEW f, NEW S, IsFiniteSet(S)
    PROVE  \E sum : PartialSums(f, S, sum) /\ SumFunctionOnSet(f, S) = sum[S]
  <1> DEFINE sum == CHOOSE sum : PartialSums(f, S, sum)
  <1>1. SumFunctionOnSet(f, S) = sum[S]
    BY DEF SumFunctionOnSet, FoldFunctionOnSet, MapThenFoldSet, PartialSums, Pick
  <1>2. PartialSums(f, S, sum)
    BY PartialSumsExist
  <1>3. QED
    BY <1>1, <1>2

\* A sum depends on the terms it is over only.
LEMMA SumOnAgrees ==
    ASSUME NEW f, NEW g, NEW S, IsFiniteSet(S), \A x \in S : f[x] = g[x]
    PROVE  SumFunctionOnSet(f, S) = SumFunctionOnSet(g, S)
  <1>1. PICK sum : PartialSums(f, S, sum) /\ SumFunctionOnSet(f, S) = sum[S]
    BY SumOnIsPartial
  <1>2. PICK tot : PartialSums(g, S, tot) /\ SumFunctionOnSet(g, S) = tot[S]
    BY SumOnIsPartial
  <1>3. S \in SUBSET S
    OBVIOUS
  <1>4. sum[S] = tot[S]
    BY <1>1, <1>2, <1>3, PartialSumsAgree
  <1>5. QED
    BY <1>1, <1>2, <1>4

\* The empty sum.
LEMMA SumOnEmpty ==
    ASSUME NEW f
    PROVE  SumFunctionOnSet(f, {}) = 0
  <1>1. PICK sum : PartialSums(f, {}, sum) /\ SumFunctionOnSet(f, {}) = sum[{}]
    BY SumOnIsPartial, FS_EmptySet
  <1>2. QED
    BY <1>1 DEF PartialSums

\* One term, the one the definition takes first, is taken out.
LEMMA SumOnPick ==
    ASSUME NEW f, NEW S, IsFiniteSet(S), S # {}
    PROVE  SumFunctionOnSet(f, S) = f[Pick(S)] + SumFunctionOnSet(f, S \ {Pick(S)})
  <1> DEFINE R == S \ {Pick(S)}
  <1>1. PICK sum : PartialSums(f, S, sum) /\ SumFunctionOnSet(f, S) = sum[S]
    BY SumOnIsPartial
  <1>2. IsFiniteSet(R) /\ R \in SUBSET S /\ R \in SUBSET R
    BY FS_Subset
  <1>3. sum[S] = f[Pick(S)] + sum[R]
    BY <1>1 DEF PartialSums
  <1> HIDE DEF R
  <1>4. PICK tot : PartialSums(f, R, tot) /\ SumFunctionOnSet(f, R) = tot[R]
    BY <1>2, SumOnIsPartial
  <1>5. \A x \in R : f[x] = f[x]
    OBVIOUS
  <1>6. tot[R] = sum[R]
    BY <1>1, <1>2, <1>4, <1>5, PartialSumsAgree
  <1>7. QED
    BY <1>1, <1>3, <1>4, <1>6 DEF R

\* A sum stays in any set that has 0 and is closed under addition.
LEMMA SumOnClosed ==
    ASSUME NEW V, 0 \in V, \A a, b \in V : a + b \in V,
           NEW f, NEW S, IsFiniteSet(S), \A x \in S : f[x] \in V
    PROVE  SumFunctionOnSet(f, S) \in V
  <1> DEFINE T == {u \in SUBSET S : SumFunctionOnSet(f, u) \notin V}
  <1>1. SUFFICES ASSUME T # {} PROVE FALSE
    OBVIOUS
  <1>2. \E u \in T : \A v \in T : v \subseteq u => v = u
    <2>1. T \subseteq SUBSET S
      OBVIOUS
    <2> HIDE DEF T
    <2>2. QED
      BY <1>1, <2>1, SmallestSubset
  <1>3. PICK u \in T : \A v \in T : v \subseteq u => v = u
    BY <1>2
  <1>4. u \subseteq S /\ SumFunctionOnSet(f, u) \notin V /\ IsFiniteSet(u)
    BY <1>3, FS_Subset
  <1>5. u # {}
    BY <1>4, SumOnEmpty
  <1> DEFINE v == u \ {Pick(u)}
  <1>6. Pick(u) \in u
    BY <1>5, PickIn
  <1>7. SumFunctionOnSet(f, v) \in V
    BY <1>3, <1>4, <1>6
  <1>8. SumFunctionOnSet(f, u) = f[Pick(u)] + SumFunctionOnSet(f, v)
    BY <1>4, <1>5, SumOnPick
  <1>9. f[Pick(u)] \in V
    BY <1>4, <1>6
  <1>10. QED
    BY <1>4, <1>7, <1>8, <1>9

\* A sum of integers is an integer.
LEMMA SumOnType ==
    ASSUME NEW f, NEW S, IsFiniteSet(S), \A x \in S : f[x] \in Int
    PROVE  SumFunctionOnSet(f, S) \in Int
  <1>1. 0 \in Int /\ \A a, b \in Int : a + b \in Int
    OBVIOUS
  <1>2. QED
    BY <1>1, SumOnClosed

\* Whichever term is taken out, the rest adds up to the same sum.
LEMMA SumOnRemove ==
    ASSUME NEW f, NEW S, IsFiniteSet(S), \A x \in S : f[x] \in Int, NEW x \in S
    PROVE  SumFunctionOnSet(f, S) = f[x] + SumFunctionOnSet(f, S \ {x})
  <1> DEFINE T == {u \in SUBSET S : \E y \in u :
                       SumFunctionOnSet(f, u) # f[y] + SumFunctionOnSet(f, u \ {y})}
  <1>1. SUFFICES ASSUME T # {} PROVE FALSE
    OBVIOUS
  <1>2. \E u \in T : \A v \in T : v \subseteq u => v = u
    <2>1. T \subseteq SUBSET S
      OBVIOUS
    <2> HIDE DEF T
    <2>2. QED
      BY <1>1, <2>1, SmallestSubset
  <1>3. PICK u \in T : \A v \in T : v \subseteq u => v = u
    BY <1>2
  <1>4. PICK y \in u : SumFunctionOnSet(f, u) # f[y] + SumFunctionOnSet(f, u \ {y})
    BY <1>3
  <1>5. u \subseteq S /\ IsFiniteSet(u) /\ u # {}
    BY <1>3, <1>4, FS_Subset
  <1> DEFINE p == Pick(u)
             rest == u \ {p, y}
  <1>6. p \in u
    BY <1>5, PickIn
  <1>7. SumFunctionOnSet(f, u) = f[p] + SumFunctionOnSet(f, u \ {p})
    BY <1>5, SumOnPick
  <1>8. p # y
    BY <1>4, <1>7
  <1>9. u \ {p} \notin T /\ u \ {y} \notin T
    BY <1>3, <1>4, <1>6
  <1>10. /\ SumFunctionOnSet(f, u \ {p}) = f[y] + SumFunctionOnSet(f, (u \ {p}) \ {y})
         /\ SumFunctionOnSet(f, u \ {y}) = f[p] + SumFunctionOnSet(f, (u \ {y}) \ {p})
    BY <1>4, <1>5, <1>6, <1>8, <1>9
  <1>11. (u \ {p}) \ {y} = rest /\ (u \ {y}) \ {p} = rest
    OBVIOUS
  <1>12. f[p] \in Int /\ f[y] \in Int /\ SumFunctionOnSet(f, rest) \in Int
    <2>1. rest \subseteq S /\ IsFiniteSet(rest)
      BY <1>5, FS_Subset
    <2>2. \A z \in rest : f[z] \in Int
      BY <2>1
    <2> HIDE DEF rest
    <2>3. SumFunctionOnSet(f, rest) \in Int
      BY <2>1, <2>2, SumOnType
    <2>4. QED
      BY <1>4, <1>5, <1>6, <2>3
  <1>13. /\ SumFunctionOnSet(f, u) = f[p] + (f[y] + SumFunctionOnSet(f, rest))
         /\ f[y] + SumFunctionOnSet(f, u \ {y}) = f[y] + (f[p] + SumFunctionOnSet(f, rest))
    BY <1>7, <1>10, <1>11
  <1> DEFINE total == SumFunctionOnSet(f, rest)
  <1> HIDE DEF rest, p, total
  <1>14. f[p] + (f[y] + total) = f[y] + (f[p] + total)
    BY <1>12 DEF total
  <1>15. QED
    BY <1>4, <1>13, <1>14 DEF total

-----------------------------------------------------------------------------

\* One term changes, and the sum changes by as much.
LEMMA SumUpdate ==
    ASSUME NEW S, IsFiniteSet(S), NEW f \in [S -> Int], NEW g \in [S -> Int],
           NEW x \in S, \A y \in S \ {x} : g[y] = f[y]
    PROVE  /\ SumFunction(f) \in Int
           /\ SumFunction(g) = SumFunction(f) - f[x] + g[x]
  <1> DEFINE R == S \ {x}
  <1>1. IsFiniteSet(R)
    BY FS_Subset
  <1>2. \A y \in R : g[y] = f[y] /\ f[y] \in Int
    OBVIOUS
  <1>3. SumFunctionOnSet(f, S) = f[x] + SumFunctionOnSet(f, R)
    BY SumOnRemove
  <1>4. SumFunctionOnSet(g, S) = g[x] + SumFunctionOnSet(g, R)
    BY SumOnRemove
  <1> HIDE DEF R
  <1>5. SumFunctionOnSet(g, R) = SumFunctionOnSet(f, R)
    BY <1>1, <1>2, SumOnAgrees
  <1>6. SumFunctionOnSet(f, R) \in Int
    BY <1>1, <1>2, SumOnType
  <1>7. SumFunction(f) = SumFunctionOnSet(f, S) /\ SumFunction(g) = SumFunctionOnSet(g, S)
    BY DEF SumFunction
  <1>8. f[x] \in Int /\ g[x] \in Int
    OBVIOUS
  <1>9. QED
    BY <1>3, <1>4, <1>5, <1>6, <1>7, <1>8

\* One term is appended, and the sum grows by it.
LEMMA SumAppend ==
    ASSUME NEW n \in Nat, NEW f \in [1..n -> Int], NEW g \in [1..(n + 1) -> Int],
           \A i \in 1..n : g[i] = f[i]
    PROVE  /\ SumFunction(f) \in Int
           /\ SumFunction(g) = SumFunction(f) + g[n + 1]
  <1>1. IsFiniteSet(1..n) /\ IsFiniteSet(1..(n + 1))
    BY FS_Interval
  <1>2. SumFunctionOnSet(g, 1..(n + 1)) = g[n + 1] + SumFunctionOnSet(g, (1..(n + 1)) \ {n + 1})
    <2>1. \A i \in 1..(n + 1) : g[i] \in Int
      OBVIOUS
    <2>2. n + 1 \in 1..(n + 1)
      OBVIOUS
    <2>3. QED
      BY <1>1, <2>1, <2>2, SumOnRemove
  <1>3. (1..(n + 1)) \ {n + 1} = 1..n
    OBVIOUS
  <1>4. SumFunctionOnSet(g, 1..n) = SumFunctionOnSet(f, 1..n)
    BY <1>1, SumOnAgrees
  <1> DEFINE m == n + 1
             total == SumFunctionOnSet(f, 1..n)
  <1>5. total \in Int /\ g[m] \in Int
    BY <1>1, SumOnType
  <1>6. SumFunction(f) = total /\ SumFunction(g) = SumFunctionOnSet(g, 1..m)
    BY DEF SumFunction
  <1>7. SumFunction(g) = g[m] + total
    BY <1>2, <1>3, <1>4, <1>6
  <1> HIDE DEF total, m
  <1>8. SumFunction(f) \in Int /\ SumFunction(g) = SumFunction(f) + g[m]
    BY <1>5, <1>6, <1>7
  <1>9. QED
    BY <1>8 DEF m

\* The sum of an integer function.
LEMMA SumType ==
    ASSUME NEW S, IsFiniteSet(S), NEW f \in [S -> Int]
    PROVE  SumFunction(f) \in Int
  <1>1. \A x \in S : f[x] \in Int
    OBVIOUS
  <1>2. SumFunctionOnSet(f, S) \in Int
    BY <1>1, SumOnType
  <1>3. QED
    BY <1>2 DEF SumFunction

\* The sum of a natural function.
LEMMA SumNotNegative ==
    ASSUME NEW S, IsFiniteSet(S), NEW f \in [S -> Nat]
    PROVE  SumFunction(f) \in Nat
  <1>1. 0 \in Nat /\ \A a, b \in Nat : a + b \in Nat
    OBVIOUS
  <1>2. \A x \in S : f[x] \in Nat
    OBVIOUS
  <1>3. SumFunctionOnSet(f, S) \in Nat
    BY <1>1, <1>2, SumOnClosed
  <1>4. QED
    BY <1>3 DEF SumFunction

\* Zeros add up to zero.
LEMMA SumOfZeros ==
    ASSUME NEW S, IsFiniteSet(S), NEW f, DOMAIN f = S, \A x \in S : f[x] = 0
    PROVE  SumFunction(f) = 0
  <1>1. 0 \in {0} /\ \A a, b \in {0} : a + b \in {0}
    OBVIOUS
  <1>2. \A x \in S : f[x] \in {0}
    OBVIOUS
  <1>3. SumFunctionOnSet(f, S) \in {0}
    BY <1>1, <1>2, SumOnClosed
  <1>4. QED
    BY <1>3 DEF SumFunction
=============================================================================
