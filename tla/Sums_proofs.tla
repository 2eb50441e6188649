------------------------------ MODULE Sums_proofs ------------------------------
(***************************************************************************)
(* Lemmas about numbers and finite sums that the models' bookkeeping rests *)
(* on: the least element of a set of numbers, and what SumFunction of the  *)
(* community modules, a recursive function chosen over the subsets of its  *)
(* domain, comes to when one of its terms, or all of them, change.  A      *)
(* cardinality is such a sum, of ones.                                     *)
(*                                                                         *)
(* Induction is here the least element of the set of counterexamples, for  *)
(* one formula at a time.                                                  *)
(***************************************************************************)
EXTENDS Integers, FiniteSetsExt, FiniteSetTheorems, WellFoundedInduction, TLAPS

-----------------------------------------------------------------------------
(* The least element of a set of numbers.                                  *)

\* < on the natural numbers is a well-founded relation.
LEMMA LessThanWellFounded ==
  \E R : /\ IsWellFoundedOn(R, Nat)
         /\ \A x, y \in Nat : <<x, y>> \in R <=> x < y
<1>1. \A x, y \in Nat : <<x, y>> \in OpToRel(<, Nat) <=> x < y
  BY DEF OpToRel
<1>2. IsWellFoundedOn(OpToRel(<, Nat), Nat)
  BY ONLY NatLessThanWellFounded
<1> QED
  BY ONLY <1>1, <1>2, Zenon

\* A set of natural numbers has a least element.
LEMMA LeastNumber ==
  ASSUME NEW S, S \subseteq Nat, S # {}
  PROVE  \E m \in S : \A n \in S : m <= n
<1>1. PICK R : /\ IsWellFoundedOn(R, Nat)
               /\ \A x, y \in Nat : <<x, y>> \in R <=> x < y
  BY LessThanWellFounded
<1>2. \E m \in S : \A n \in S : ~ (<<n, m>> \in R)
  <2>1. IsWellFoundedOn(R, Nat) /\ S \subseteq Nat /\ S # {}
    BY <1>1
  <2> QED
    BY ONLY <2>1, WFMin
<1>3. \A m, n \in S : ~ (<<n, m>> \in R) => m <= n
  <2>1. \A m, n \in Nat : ~ (<<n, m>> \in R) => ~ (n < m)
    BY ONLY <1>1
  <2>2. \A m, n \in Nat : ~ (n < m) => m <= n
    OBVIOUS
  <2> QED
    BY <2>1, <2>2
<1> QED
  BY <1>2, <1>3

\* The least of some numbers is one of them.
LEMMA MinMember ==
  ASSUME NEW S, S \subseteq Nat, S # {}
  PROVE  Min(S) \in S
BY LeastNumber DEF Min

\* Induction, for a set: what holds at 0 and passes from a number to the next
\* holds everywhere.
LEMMA Climb ==
  ASSUME NEW S, 0 \in S, \A n \in Nat : n \in S => n + 1 \in S
  PROVE  Nat \subseteq S
<1>. DEFINE T == {n \in Nat : n \notin S}
<1>1. SUFFICES ASSUME T # {}
               PROVE  FALSE
  OBVIOUS
<1>2. PICK m \in T : \A n \in T : m <= n
  BY <1>1, LeastNumber
<1>3. m \in Nat \ {0}
  BY <1>2
<1>4. m - 1 \in Nat /\ m - 1 \notin T
  BY <1>2, <1>3
<1>5. m - 1 \in S
  BY <1>4
<1>6. (m - 1) + 1 \in S /\ (m - 1) + 1 = m
  BY <1>3, <1>4, <1>5
<1> QED
  BY <1>2, <1>6

-----------------------------------------------------------------------------
(* The recursive function a sum is a value of.                             *)

\* The element MapThenFoldSet takes next.
Taken(s) == CHOOSE x \in s : TRUE

\* It is one of them.
LEMMA TakenMember == \A s : s # {} => Taken(s) \in s
BY DEF Taken

\* g is the function of the partial sums of f over the sets of D.
AddsUp(g, f, D) ==
  g = [s \in D |-> IF s = {} THEN 0 ELSE f[Taken(s)] + g[s \ {Taken(s)}]]

\* SumFunctionOnSet is the last of these sums.
LEMMA SumIsAddedUp ==
  ASSUME NEW f, NEW S
  PROVE  SumFunctionOnSet(f, S) = (CHOOSE g : AddsUp(g, f, SUBSET S))[S]
BY DEF SumFunctionOnSet, FoldFunctionOnSet, MapThenFoldSet, AddsUp, Taken

\* The subsets of S with at most n elements.
UpTo(S, n) == {s \in SUBSET S : Cardinality(s) <= n}

\* Such sets are finite, and without the element taken they are smaller.
LEMMA SmallSets ==
  ASSUME NEW S, IsFiniteSet(S)
  PROVE  /\ \A s \in SUBSET S : IsFiniteSet(s) /\ Cardinality(s) \in Nat
         /\ UpTo(S, Cardinality(S)) = SUBSET S
         /\ UpTo(S, 0) = {{}}
         /\ \A n \in Nat : UpTo(S, n) \subseteq UpTo(S, n + 1)
         /\ \A n \in Nat : \A s \in UpTo(S, n + 1) :
              s # {} => s \ {Taken(s)} \in UpTo(S, n)
<1>1. \A s \in SUBSET S : IsFiniteSet(s) /\ Cardinality(s) \in Nat
  BY FS_Subset, FS_CardinalityType
<1>2. UpTo(S, Cardinality(S)) = SUBSET S
  BY FS_Subset DEF UpTo
<1>3. UpTo(S, 0) = {{}}
  BY <1>1, FS_EmptySet DEF UpTo
<1>4. \A n \in Nat : UpTo(S, n) \subseteq UpTo(S, n + 1)
  BY <1>1 DEF UpTo
<1>5. ASSUME NEW n \in Nat, NEW s \in UpTo(S, n + 1), s # {}
      PROVE  s \ {Taken(s)} \in UpTo(S, n)
  <2>1. s \in SUBSET S /\ Cardinality(s) <= n + 1 /\ Taken(s) \in s
    BY <1>5, TakenMember DEF UpTo
  <2>2. IsFiniteSet(s) /\ Cardinality(s) \in Nat
    BY <1>1, <2>1
  <2>3. Cardinality(s \ {Taken(s)}) = Cardinality(s) - 1
    BY <2>1, <2>2, FS_RemoveElement
  <2> QED
    BY <2>1, <2>2, <2>3 DEF UpTo
<1> QED
  BY <1>1, <1>2, <1>3, <1>4, <1>5

\* The recursion has a solution on the subsets of a finite set.
LEMMA SumsExist ==
  ASSUME NEW S, IsFiniteSet(S), NEW f
  PROVE  \E g : AddsUp(g, f, SUBSET S)
<1>. DEFINE Good == {n \in Nat : \E g : AddsUp(g, f, UpTo(S, n))}
<1>1. 0 \in Good
  <2>1. AddsUp([s \in UpTo(S, 0) |-> 0], f, UpTo(S, 0))
    BY SmallSets DEF AddsUp
  <2> QED
    BY <2>1
<1>2. ASSUME NEW n \in Nat, n \in Good
      PROVE  n + 1 \in Good
  <2>1. PICK g : AddsUp(g, f, UpTo(S, n))
    BY <1>2
  <2>. DEFINE h == [s \in UpTo(S, n + 1) |->
                      IF s = {} THEN 0 ELSE f[Taken(s)] + g[s \ {Taken(s)}]]
  <2>2. \A s \in UpTo(S, n) : h[s] = g[s]
    BY <2>1, SmallSets DEF AddsUp
  <2>3. \A s \in UpTo(S, n + 1) :
          s # {} => g[s \ {Taken(s)}] = h[s \ {Taken(s)}]
    BY <2>2, SmallSets
  <2>4. AddsUp(h, f, UpTo(S, n + 1))
    BY <2>3 DEF AddsUp
  <2> QED
    BY <2>4
<1>3. Nat \subseteq Good
  <2>. HIDE DEF Good
  <2> QED
    BY <1>1, <1>2, Climb
<1>4. Cardinality(S) \in Good
  BY <1>3, FS_CardinalityType
<1>5. PICK g : AddsUp(g, f, UpTo(S, Cardinality(S)))
  BY <1>4
<1>6. UpTo(S, Cardinality(S)) = SUBSET S
  BY SmallSets
<1> QED
  BY <1>5, <1>6

\* Solutions agree wherever both are defined, so each of their values is a sum.
LEMMA SumIsValue ==
  \A S, f, g, T :
    IsFiniteSet(S) /\ AddsUp(g, f, SUBSET S) /\ T \subseteq S
      => g[T] = SumFunctionOnSet(f, T)
<1>. TAKE S, f, g, T
<1>. HAVE IsFiniteSet(S) /\ AddsUp(g, f, SUBSET S) /\ T \subseteq S
<1>. DEFINE h == CHOOSE k : AddsUp(k, f, SUBSET T)
            Good == {n \in Nat : \A s \in UpTo(T, n) : g[s] = h[s]}
<1>1. IsFiniteSet(T) /\ Cardinality(T) \in Nat /\ SUBSET T \subseteq SUBSET S
  BY SmallSets
<1>2. AddsUp(h, f, SUBSET T)
  <2>1. \E k : AddsUp(k, f, SUBSET T)
    BY <1>1, SumsExist
  <2> QED
    BY <2>1
<1>3. h[T] = SumFunctionOnSet(f, T)
  BY SumIsAddedUp
<1>. HIDE DEF h
<1>4. g[{}] = h[{}]
  BY <1>2 DEF AddsUp
<1>5. 0 \in Good
  BY <1>1, <1>4, SmallSets
<1>6. ASSUME NEW n \in Nat, n \in Good
      PROVE  n + 1 \in Good
  <2>1. SUFFICES ASSUME NEW s \in UpTo(T, n + 1), s # {}
                 PROVE  g[s] = h[s]
    <3>1. n + 1 \in Nat
      OBVIOUS
    <3>2. \A s \in UpTo(T, n + 1) : s = {} => g[s] = h[s]
      BY <1>4
    <3> QED
      BY <3>1, <3>2
  <2>2. s \in SUBSET T /\ s \ {Taken(s)} \in UpTo(T, n)
    BY <1>1, <2>1, SmallSets DEF UpTo
  <2>3. g[s \ {Taken(s)}] = h[s \ {Taken(s)}]
    BY <1>6, <2>2
  <2>4. g[s] = f[Taken(s)] + g[s \ {Taken(s)}]
    BY <1>1, <2>1, <2>2 DEF AddsUp
  <2>5. h[s] = f[Taken(s)] + h[s \ {Taken(s)}]
    BY <1>2, <2>1, <2>2 DEF AddsUp
  <2> QED
    BY <2>3, <2>4, <2>5
<1>7. Nat \subseteq Good
  <2>. HIDE DEF Good
  <2> QED
    BY <1>5, <1>6, Climb
<1>8. T \in UpTo(T, Cardinality(T)) /\ Cardinality(T) \in Good
  BY <1>1, <1>7, SmallSets
<1> QED
  BY <1>3, <1>8

-----------------------------------------------------------------------------
(* Sums.                                                                   *)

\* The sum of no terms.
LEMMA SumEmpty == ASSUME NEW f PROVE SumFunctionOnSet(f, {}) = 0
<1>1. IsFiniteSet({})
  BY FS_EmptySet
<1>2. PICK g : AddsUp(g, f, SUBSET {})
  BY <1>1, SumsExist
<1>3. g[{}] = 0
  BY <1>2 DEF AddsUp
<1>4. g[{}] = SumFunctionOnSet(f, {})
  <2>1. {} \subseteq {}
    OBVIOUS
  <2> QED
    BY ONLY <1>1, <1>2, <2>1, SumIsValue, Zenon
<1> QED
  BY <1>3, <1>4

\* The sum, by the element that is taken first.
LEMMA SumTaken ==
  ASSUME NEW S, IsFiniteSet(S), S # {}, NEW f
  PROVE  SumFunctionOnSet(f, S) =
           f[Taken(S)] + SumFunctionOnSet(f, S \ {Taken(S)})
<1>0. S \subseteq S /\ S \ {Taken(S)} \subseteq S
  OBVIOUS
<1>1. PICK g : AddsUp(g, f, SUBSET S)
  BY SumsExist
<1>2. g[S] = f[Taken(S)] + g[S \ {Taken(S)}]
  BY <1>1 DEF AddsUp
<1>3. g[S] = SumFunctionOnSet(f, S)
  BY ONLY <1>1, <1>0, IsFiniteSet(S), SumIsValue, Zenon
<1>4. g[S \ {Taken(S)}] = SumFunctionOnSet(f, S \ {Taken(S)})
  BY ONLY <1>1, <1>0, IsFiniteSet(S), SumIsValue, Zenon
<1> QED
  BY <1>2, <1>3, <1>4

\* What the elements of N are closed under, sums of them are.
LEMMA SumClosed ==
  ASSUME NEW S, IsFiniteSet(S), NEW f, NEW N, 0 \in N,
         \A a, b \in N : a + b \in N, \A x \in S : f[x] \in N
  PROVE  SumFunctionOnSet(f, S) \in N
<1>. DEFINE Good == {n \in Nat : \A s \in UpTo(S, n) :
                                   SumFunctionOnSet(f, s) \in N}
<1>1. 0 \in Good
  <2>1. SumFunctionOnSet(f, {}) \in N
    BY SumEmpty
  <2> QED
    BY <2>1, SmallSets
<1>2. ASSUME NEW n \in Nat, n \in Good
      PROVE  n + 1 \in Good
  <2>1. SUFFICES ASSUME NEW s \in UpTo(S, n + 1), s # {}
                 PROVE  SumFunctionOnSet(f, s) \in N
    <3>1. SumFunctionOnSet(f, {}) \in N
      BY SumEmpty
    <3> QED
      BY <3>1
  <2>2. s \in SUBSET S /\ IsFiniteSet(s) /\ s \ {Taken(s)} \in UpTo(S, n)
    BY <2>1, SmallSets DEF UpTo
  <2>3. SumFunctionOnSet(f, s \ {Taken(s)}) \in N
    BY <1>2, <2>2
  <2>4. f[Taken(s)] \in N
    BY <2>1, <2>2, TakenMember
  <2>5. SumFunctionOnSet(f, s) =
          f[Taken(s)] + SumFunctionOnSet(f, s \ {Taken(s)})
    BY <2>1, <2>2, SumTaken
  <2> QED
    BY <2>3, <2>4, <2>5
<1>3. Nat \subseteq Good
  <2>. HIDE DEF Good
  <2> QED
    BY <1>1, <1>2, Climb
<1>4. S \in UpTo(S, Cardinality(S)) /\ Cardinality(S) \in Good
  BY <1>3, SmallSets, FS_CardinalityType
<1> QED
  BY <1>4

\* The sum of numbers is a number.
LEMMA SumNat ==
  ASSUME NEW S, IsFiniteSet(S), NEW f, \A x \in S : f[x] \in Nat
  PROVE  SumFunctionOnSet(f, S) \in Nat
<1>1. 0 \in Nat /\ \A a, b \in Nat : a + b \in Nat
  OBVIOUS
<1> QED
  BY ONLY <1>1, IsFiniteSet(S), \A x \in S : f[x] \in Nat, SumClosed

\* So is a sum of integers.
LEMMA SumInt ==
  ASSUME NEW S, IsFiniteSet(S), NEW f, \A x \in S : f[x] \in Int
  PROVE  SumFunctionOnSet(f, S) \in Int
<1>1. 0 \in Int /\ \A a, b \in Int : a + b \in Int
  OBVIOUS
<1> QED
  BY ONLY <1>1, IsFiniteSet(S), \A x \in S : f[x] \in Int, SumClosed

\* Any term can be taken out first.
LEMMA SumWithout ==
  ASSUME NEW S, IsFiniteSet(S), NEW f, \A x \in S : f[x] \in Int, NEW y \in S
  PROVE  SumFunctionOnSet(f, S) = f[y] + SumFunctionOnSet(f, S \ {y})
<1>. DEFINE Good == {n \in Nat : \A s \in UpTo(S, n) : \A x \in s :
               SumFunctionOnSet(f, s) = f[x] + SumFunctionOnSet(f, s \ {x})}
<1>1. 0 \in Good
  BY SmallSets
<1>2. ASSUME NEW n \in Nat, n \in Good
      PROVE  n + 1 \in Good
  <2>1. SUFFICES ASSUME NEW s \in UpTo(S, n + 1), NEW x \in s
                 PROVE  SumFunctionOnSet(f, s) =
                          f[x] + SumFunctionOnSet(f, s \ {x})
    OBVIOUS
  <2>. DEFINE c == Taken(s)
  <2>2. s \in SUBSET S /\ IsFiniteSet(s) /\ c \in s /\ s \ {c} \in UpTo(S, n)
    BY <2>1, SmallSets, TakenMember DEF UpTo
  <2>3. SumFunctionOnSet(f, s) = f[c] + SumFunctionOnSet(f, s \ {c})
    BY <2>1, <2>2, SumTaken
  <2>4. CASE x = c
    BY <2>3, <2>4
  <2>5. CASE x # c
    <3>. HIDE DEF c
    <3>1. SumFunctionOnSet(f, s \ {c}) =
            f[x] + SumFunctionOnSet(f, (s \ {c}) \ {x})
      BY <1>2, <2>1, <2>2, <2>5
    <3>2. s \ {x} \in UpTo(S, n)
      <4>1. Cardinality(s) \in Nat /\ Cardinality(s) <= n + 1
        BY <2>2, SmallSets DEF UpTo
      <4>2. Cardinality(s \ {x}) = Cardinality(s) - 1
        BY <2>1, <2>2, FS_RemoveElement
      <4> QED
        BY <2>2, <4>1, <4>2 DEF UpTo
    <3>3. SumFunctionOnSet(f, s \ {x}) =
            f[c] + SumFunctionOnSet(f, (s \ {x}) \ {c})
      BY <1>2, <2>2, <2>5, <3>2
    <3>4. (s \ {x}) \ {c} = (s \ {c}) \ {x}
      OBVIOUS
    <3>5. f[x] \in Int /\ f[c] \in Int
      BY <2>1, <2>2
    <3>6. SumFunctionOnSet(f, (s \ {c}) \ {x}) \in Int
      <4>1. IsFiniteSet((s \ {c}) \ {x})
        BY <2>2, SmallSets
      <4>2. \A z \in (s \ {c}) \ {x} : f[z] \in Int
        BY <2>2
      <4> QED
        BY ONLY <4>1, <4>2, SumInt
    <3>7. SumFunctionOnSet(f, s \ {x}) = f[c] + SumFunctionOnSet(f, (s \ {c}) \ {x})
      BY ONLY <3>3, <3>4
    <3>8. f[c] + SumFunctionOnSet(f, s \ {c}) = f[x] + SumFunctionOnSet(f, s \ {x})
      BY ONLY <3>1, <3>5, <3>6, <3>7
    <3> QED
      BY ONLY <2>3, <3>8
  <2> QED
    BY <2>4, <2>5
<1>3. Nat \subseteq Good
  <2>. HIDE DEF Good
  <2> QED
    BY <1>1, <1>2, Climb
<1>4. S \in UpTo(S, Cardinality(S)) /\ Cardinality(S) \in Good
  BY <1>3, SmallSets, FS_CardinalityType
<1> QED
  BY <1>4

\* Sums of the same terms are the same.
LEMMA SumSame ==
  ASSUME NEW S, IsFiniteSet(S), NEW f, NEW g, \A x \in S : f[x] = g[x]
  PROVE  SumFunctionOnSet(f, S) = SumFunctionOnSet(g, S)
<1>. DEFINE Good == {n \in Nat : \A s \in UpTo(S, n) :
                       SumFunctionOnSet(f, s) = SumFunctionOnSet(g, s)}
<1>0. SumFunctionOnSet(f, {}) = SumFunctionOnSet(g, {})
  BY SumEmpty
<1>1. 0 \in Good
  BY <1>0, SmallSets
<1>2. ASSUME NEW n \in Nat, n \in Good
      PROVE  n + 1 \in Good
  <2>1. SUFFICES ASSUME NEW s \in UpTo(S, n + 1), s # {}
                 PROVE  SumFunctionOnSet(f, s) = SumFunctionOnSet(g, s)
    BY <1>0
  <2>2. s \in SUBSET S /\ IsFiniteSet(s) /\ s \ {Taken(s)} \in UpTo(S, n)
    BY <2>1, SmallSets DEF UpTo
  <2>3. SumFunctionOnSet(f, s \ {Taken(s)}) = SumFunctionOnSet(g, s \ {Taken(s)})
    BY <1>2, <2>2
  <2>4. f[Taken(s)] = g[Taken(s)]
    BY <2>1, <2>2, TakenMember
  <2>5. SumFunctionOnSet(f, s) =
          f[Taken(s)] + SumFunctionOnSet(f, s \ {Taken(s)})
    BY <2>1, <2>2, SumTaken
  <2>6. SumFunctionOnSet(g, s) =
          g[Taken(s)] + SumFunctionOnSet(g, s \ {Taken(s)})
    BY <2>1, <2>2, SumTaken
  <2> QED
    BY <2>3, <2>4, <2>5, <2>6
<1>3. Nat \subseteq Good
  <2>. HIDE DEF Good
  <2> QED
    BY <1>1, <1>2, Climb
<1>4. S \in UpTo(S, Cardinality(S)) /\ Cardinality(S) \in Good
  BY <1>3, SmallSets, FS_CardinalityType
<1> QED
  BY <1>4

\* When one term changes, the sum changes as much.
LEMMA SumChange ==
  ASSUME NEW S, IsFiniteSet(S), NEW f, NEW g, NEW y \in S,
         \A x \in S : f[x] \in Int, g[y] \in Int,
         \A x \in S \ {y} : g[x] = f[x]
  PROVE  SumFunctionOnSet(g, S) = SumFunctionOnSet(f, S) + g[y] - f[y]
<1>1. \A x \in S : g[x] \in Int
  OBVIOUS
<1>2. IsFiniteSet(S \ {y})
  BY SmallSets
<1>3. SumFunctionOnSet(f, S) = f[y] + SumFunctionOnSet(f, S \ {y})
  BY SumWithout
<1>4. SumFunctionOnSet(g, S) = g[y] + SumFunctionOnSet(g, S \ {y})
  BY <1>1, SumWithout
<1>5. SumFunctionOnSet(f, S \ {y}) = SumFunctionOnSet(g, S \ {y})
  BY <1>2, SumSame
<1>6. SumFunctionOnSet(f, S \ {y}) \in Int
  BY <1>2, SumInt
<1>7. f[y] \in Int
  OBVIOUS
<1> QED
  BY <1>3, <1>4, <1>5, <1>6, <1>7

\* Smaller terms have a smaller sum.
LEMMA SumMonotone ==
  ASSUME NEW S, IsFiniteSet(S), NEW f, NEW g,
         \A x \in S : f[x] \in Int /\ g[x] \in Int /\ f[x] <= g[x]
  PROVE  SumFunctionOnSet(f, S) <= SumFunctionOnSet(g, S)
<1>. DEFINE Good == {n \in Nat : \A s \in UpTo(S, n) :
                       SumFunctionOnSet(f, s) <= SumFunctionOnSet(g, s)}
<1>0. SumFunctionOnSet(f, {}) <= SumFunctionOnSet(g, {})
  BY SumEmpty
<1>1. 0 \in Good
  BY <1>0, SmallSets
<1>2. ASSUME NEW n \in Nat, n \in Good
      PROVE  n + 1 \in Good
  <2>1. SUFFICES ASSUME NEW s \in UpTo(S, n + 1), s # {}
                 PROVE  SumFunctionOnSet(f, s) <= SumFunctionOnSet(g, s)
    <3>1. n + 1 \in Nat
      OBVIOUS
    <3>2. \A s \in UpTo(S, n + 1) :
            s = {} => SumFunctionOnSet(f, s) <= SumFunctionOnSet(g, s)
      BY <1>0
    <3> QED
      BY <3>1, <3>2
  <2>. DEFINE y == Taken(s)
              p == SumFunctionOnSet(f, s \ {y})
              q == SumFunctionOnSet(g, s \ {y})
  <2>2. s \in SUBSET S /\ IsFiniteSet(s) /\ s \ {y} \in UpTo(S, n)
        /\ IsFiniteSet(s \ {y})
    BY <2>1, SmallSets DEF UpTo
  <2>3. p <= q
    BY <1>2, <2>2
  <2>4. f[y] \in Int /\ g[y] \in Int /\ f[y] <= g[y]
    BY <2>1, <2>2, TakenMember
  <2>5. SumFunctionOnSet(f, s) = f[y] + p
    BY <2>1, <2>2, SumTaken
  <2>6. SumFunctionOnSet(g, s) = g[y] + q
    BY <2>1, <2>2, SumTaken
  <2>7. p \in Int /\ q \in Int
    BY <2>2, SumInt
  <2>. HIDE DEF y, p, q
  <2> QED
    BY <2>3, <2>4, <2>5, <2>6, <2>7
<1>3. Nat \subseteq Good
  <2>. HIDE DEF Good
  <2> QED
    BY <1>1, <1>2, Climb
<1>4. S \in UpTo(S, Cardinality(S)) /\ Cardinality(S) \in Good
  BY <1>3, SmallSets, FS_CardinalityType
<1> QED
  BY <1>4

\* The sum of zeroes.
LEMMA SumZero ==
  ASSUME NEW S, IsFiniteSet(S), NEW f, \A x \in S : f[x] = 0
  PROVE  SumFunctionOnSet(f, S) = 0
<1>1. 0 \in {0} /\ \A a, b \in {0} : a + b \in {0}
  OBVIOUS
<1>2. \A x \in S : f[x] \in {0}
  OBVIOUS
<1>3. SumFunctionOnSet(f, S) \in {0}
  BY ONLY <1>1, <1>2, IsFiniteSet(S), SumClosed
<1> QED
  BY <1>3

\* The sum of sums.
LEMMA SumPlus ==
  ASSUME NEW S, IsFiniteSet(S), NEW f, NEW g, NEW h,
         \A x \in S : f[x] \in Int /\ g[x] \in Int /\ h[x] = f[x] + g[x]
  PROVE  SumFunctionOnSet(h, S) =
           SumFunctionOnSet(f, S) + SumFunctionOnSet(g, S)
<1>. DEFINE Good == {n \in Nat : \A s \in UpTo(S, n) :
                       SumFunctionOnSet(h, s) =
                         SumFunctionOnSet(f, s) + SumFunctionOnSet(g, s)}
<1>0. SumFunctionOnSet(h, {}) = SumFunctionOnSet(f, {}) + SumFunctionOnSet(g, {})
  BY SumEmpty
<1>1. 0 \in Good
  BY <1>0, SmallSets
<1>2. ASSUME NEW n \in Nat, n \in Good
      PROVE  n + 1 \in Good
  <2>1. SUFFICES ASSUME NEW s \in UpTo(S, n + 1), s # {}
                 PROVE  SumFunctionOnSet(h, s) =
                          SumFunctionOnSet(f, s) + SumFunctionOnSet(g, s)
    BY <1>0
  <2>. DEFINE y == Taken(s)
              p == SumFunctionOnSet(f, s \ {y})
              q == SumFunctionOnSet(g, s \ {y})
              r == SumFunctionOnSet(h, s \ {y})
  <2>2. s \in SUBSET S /\ IsFiniteSet(s) /\ s \ {y} \in UpTo(S, n)
        /\ IsFiniteSet(s \ {y})
    BY <2>1, SmallSets DEF UpTo
  <2>3. r = p + q
    BY <1>2, <2>2
  <2>4. f[y] \in Int /\ g[y] \in Int /\ h[y] = f[y] + g[y]
    BY <2>1, <2>2, TakenMember
  <2>5. SumFunctionOnSet(f, s) = f[y] + p
    BY <2>1, <2>2, SumTaken
  <2>6. SumFunctionOnSet(g, s) = g[y] + q
    BY <2>1, <2>2, SumTaken
  <2>7. SumFunctionOnSet(h, s) = h[y] + r
    BY <2>1, <2>2, SumTaken
  <2>8. p \in Int /\ q \in Int
    BY <2>2, SumInt
  <2>. HIDE DEF y, p, q, r
  <2> QED
    BY <2>3, <2>4, <2>5, <2>6, <2>7, <2>8
<1>3. Nat \subseteq Good
  <2>. HIDE DEF Good
  <2> QED
    BY <1>1, <1>2, Climb
<1>4. S \in UpTo(S, Cardinality(S)) /\ Cardinality(S) \in Good
  BY <1>3, SmallSets, FS_CardinalityType
<1> QED
  BY <1>4

\* A sum over S is one over a part of S and one over the rest: each is the sum
\* over S of the terms on its side.
LEMMA SumSides ==
  ASSUME NEW S, IsFiniteSet(S), NEW f, \A x \in S : f[x] \in Int,
         NEW T, T \subseteq S
  PROVE  SumFunctionOnSet(f, S) =
           SumFunctionOnSet([x \in S |-> IF x \in T THEN f[x] ELSE 0], S)
             + SumFunctionOnSet([x \in S |-> IF x \in T THEN 0 ELSE f[x]], S)
<1>. DEFINE p == [x \in S |-> IF x \in T THEN f[x] ELSE 0]
            q == [x \in S |-> IF x \in T THEN 0 ELSE f[x]]
<1>1. \A x \in S : p[x] \in Int /\ q[x] \in Int /\ f[x] = p[x] + q[x]
  OBVIOUS
<1>. HIDE DEF p, q
<1>2. SumFunctionOnSet(f, S) = SumFunctionOnSet(p, S) + SumFunctionOnSet(q, S)
  BY <1>1, SumPlus
<1> QED
  BY <1>2 DEF p, q

\* Terms outside a part of S that are zero do not count.
LEMMA SumOnPart ==
  ASSUME NEW S, IsFiniteSet(S), NEW f, \A x \in S : f[x] \in Int,
         NEW T, T \subseteq S, \A x \in S \ T : f[x] = 0
  PROVE  SumFunctionOnSet(f, S) = SumFunctionOnSet(f, T)
<1>. DEFINE Good == {n \in Nat : \A s \in UpTo(S, n) :
                       SumFunctionOnSet(f, s) = SumFunctionOnSet(f, s \cap T)}
<1>1. 0 \in Good
  <2>1. {} \cap T = {}
    OBVIOUS
  <2> QED
    BY <2>1, SmallSets
<1>2. ASSUME NEW n \in Nat, n \in Good
      PROVE  n + 1 \in Good
  <2>1. SUFFICES ASSUME NEW s \in UpTo(S, n + 1), s # {}
                 PROVE  SumFunctionOnSet(f, s) = SumFunctionOnSet(f, s \cap T)
    <3>1. n + 1 \in Nat
      OBVIOUS
    <3>2. \A s \in UpTo(S, n + 1) :
            s = {} => SumFunctionOnSet(f, s) = SumFunctionOnSet(f, s \cap T)
      <4>1. {} \cap T = {}
        OBVIOUS
      <4> QED
        BY <4>1
    <3> QED
      BY <3>1, <3>2
  <2>. DEFINE y == Taken(s)
              p == SumFunctionOnSet(f, s \ {y})
  <2>2. s \in SUBSET S /\ IsFiniteSet(s) /\ s \ {y} \in UpTo(S, n)
        /\ IsFiniteSet(s \ {y}) /\ y \in s
    BY <2>1, SmallSets, TakenMember DEF UpTo
  <2>3. p = SumFunctionOnSet(f, (s \ {y}) \cap T)
    BY <1>2, <2>2
  <2>4. SumFunctionOnSet(f, s) = f[y] + p
    BY <2>1, <2>2, SumTaken
  <2>5. p \in Int
    BY <2>2, SumInt
  <2>6. CASE y \in T
    <3>1. IsFiniteSet(s \cap T) /\ y \in s \cap T
      BY <2>2, <2>6, FS_Subset
    <3>2. \A x \in s \cap T : f[x] \in Int
      BY <2>2
    <3>3. SumFunctionOnSet(f, s \cap T)
            = f[y] + SumFunctionOnSet(f, (s \cap T) \ {y})
      BY ONLY <3>1, <3>2, SumWithout
    <3>4. (s \cap T) \ {y} = (s \ {y}) \cap T
      OBVIOUS
    <3>5. SumFunctionOnSet(f, s \cap T) = f[y] + p
      BY ONLY <2>3, <3>3, <3>4
    <3> QED
      BY ONLY <2>4, <3>5
  <2>7. CASE y \notin T
    <3>1. (s \ {y}) \cap T = s \cap T
      BY <2>7
    <3>2. SumFunctionOnSet(f, s \cap T) = p
      BY ONLY <2>3, <3>1
    <3>3. f[y] = 0
      BY <2>2, <2>7
    <3> QED
      BY ONLY <2>4, <2>5, <3>2, <3>3
  <2> QED
    BY <2>6, <2>7
<1>3. Nat \subseteq Good
  <2>. HIDE DEF Good
  <2> QED
    BY <1>1, <1>2, Climb
<1>4. S \in UpTo(S, Cardinality(S)) /\ Cardinality(S) \in Good /\ S \cap T = T
  BY <1>3, SmallSets, FS_CardinalityType
<1>5. SumFunctionOnSet(f, S) = SumFunctionOnSet(f, S \cap T)
  BY <1>4
<1> QED
  BY ONLY <1>4, <1>5

\* A term is no more than the sum of natural numbers it is in.
LEMMA TermBound ==
  ASSUME NEW S, IsFiniteSet(S), NEW f, \A x \in S : f[x] \in Nat, NEW y \in S
  PROVE  f[y] <= SumFunctionOnSet(f, S)
<1>1. IsFiniteSet(S \ {y}) /\ \A x \in S : f[x] \in Int
  BY SmallSets
<1>2. SumFunctionOnSet(f, S) = f[y] + SumFunctionOnSet(f, S \ {y})
  BY <1>1, SumWithout
<1>3. SumFunctionOnSet(f, S \ {y}) \in Nat
  BY <1>1, SumNat
<1>4. f[y] \in Nat
  OBVIOUS
<1> QED
  BY <1>2, <1>3, <1>4

-----------------------------------------------------------------------------
(* A sum by kinds.                                                         *)

\* The terms w[d] of the elements d whose kind k[d] is r.
OfKind(w, k, D, r) == [d \in D |-> IF k[d] = r THEN w[d] ELSE 0]

\* The sums over s of the terms of each kind of R.
ByKind(w, k, D, R, s) ==
  [r \in R |-> SumFunctionOnSet(OfKind(w, k, D, r), s)]

\* The sums by kind come to the whole sum, if what counts has a kind.
LEMMA SumByKind ==
  ASSUME NEW R, IsFiniteSet(R), NEW D, IsFiniteSet(D), NEW w, NEW k,
         \A d \in D : w[d] \in Int /\ (w[d] # 0 => k[d] \in R)
  PROVE  SumFunctionOnSet(ByKind(w, k, D, R, D), R) = SumFunctionOnSet(w, D)
<1>. DEFINE Whole(s) == SumFunctionOnSet(w, s)
            Sorted(s) == SumFunctionOnSet(ByKind(w, k, D, R, s), R)
            Good == {n \in Nat : \A s \in UpTo(D, n) : Sorted(s) = Whole(s)}
<1>1. ASSUME NEW s, s \subseteq D, NEW r \in R
      PROVE  ByKind(w, k, D, R, s)[r] \in Int
  <2>1. \A d \in s : OfKind(w, k, D, r)[d] \in Int
    BY <1>1 DEF OfKind
  <2>2. IsFiniteSet(s)
    BY <1>1, SmallSets
  <2>3. SumFunctionOnSet(OfKind(w, k, D, r), s) \in Int
    BY ONLY <2>1, <2>2, SumInt
  <2> QED
    BY <2>3 DEF ByKind
<1>2. Sorted({}) = Whole({})
  <2>1. \A r \in R : ByKind(w, k, D, R, {})[r] = 0
    BY SumEmpty DEF ByKind
  <2>2. Sorted({}) = 0
    BY ONLY <2>1, IsFiniteSet(R), SumZero
  <2> QED
    BY <2>2, SumEmpty
<1>3. 0 \in Good
  BY <1>2, SmallSets
<1>4. ASSUME NEW n \in Nat, n \in Good
      PROVE  n + 1 \in Good
  <2>1. SUFFICES ASSUME NEW s \in UpTo(D, n + 1), s # {}
                 PROVE  Sorted(s) = Whole(s)
    <3>1. n + 1 \in Nat
      OBVIOUS
    <3>2. \A s \in UpTo(D, n + 1) : s = {} => Sorted(s) = Whole(s)
      BY <1>2
    <3> QED
      BY <3>1, <3>2
  <2>. DEFINE y == Taken(s)
              rest == s \ {y}
              f == ByKind(w, k, D, R, rest)
              g == ByKind(w, k, D, R, s)
  <2>2. s \in SUBSET D /\ IsFiniteSet(s) /\ rest \in UpTo(D, n)
        /\ IsFiniteSet(rest) /\ y \in s /\ y \in D /\ rest \subseteq D
    BY <2>1, SmallSets, TakenMember DEF UpTo
  <2>3. Sorted(rest) = Whole(rest)
    BY <1>4, <2>2
  <2>4. Whole(s) = w[y] + Whole(rest)
    BY <2>1, <2>2, SumTaken
  <2>5. \A r \in R : f[r] \in Int /\ g[r] \in Int
    BY <1>1, <2>2
  <2>6. ASSUME NEW r \in R
        PROVE  g[r] = (IF k[y] = r THEN w[y] ELSE 0) + f[r]
    <3>1. SumFunctionOnSet(OfKind(w, k, D, r), s) =
            OfKind(w, k, D, r)[y] + SumFunctionOnSet(OfKind(w, k, D, r), rest)
      BY <2>1, <2>2, SumTaken
    <3>2. OfKind(w, k, D, r)[y] = IF k[y] = r THEN w[y] ELSE 0
      BY <2>2 DEF OfKind
    <3>3. g[r] = SumFunctionOnSet(OfKind(w, k, D, r), s)
      BY DEF ByKind
    <3>4. f[r] = SumFunctionOnSet(OfKind(w, k, D, r), rest)
      BY DEF ByKind
    <3> QED
      BY ONLY <3>1, <3>2, <3>3, <3>4
  <2>7. w[y] \in Int /\ (w[y] # 0 => k[y] \in R)
    BY <2>2
  <2>8. SumFunctionOnSet(f, R) \in Int
    BY <2>5, SumInt
  <2>9. SumFunctionOnSet(g, R) = w[y] + SumFunctionOnSet(f, R)
    <3>. HIDE DEF f, g, y
    <3>1. CASE k[y] \in R
      <4>1. g[k[y]] = w[y] + f[k[y]]
        BY <2>6, <3>1
      <4>2. \A r \in R \ {k[y]} : g[r] = f[r]
        <5>1. ASSUME NEW r \in R, r # k[y]
              PROVE  g[r] = f[r]
          <6>1. g[r] = 0 + f[r] /\ f[r] \in Int
            BY <2>5, <2>6, <5>1
          <6> QED
            BY <6>1
        <5> QED
          BY <5>1
      <4>3. SumFunctionOnSet(g, R) = SumFunctionOnSet(f, R) + g[k[y]] - f[k[y]]
        BY <2>5, <3>1, <4>2, SumChange
      <4>4. f[k[y]] \in Int
        BY <2>5, <3>1
      <4> QED
        BY <2>7, <2>8, <4>1, <4>3, <4>4
    <3>2. CASE k[y] \notin R
      <4>1. w[y] = 0
        BY <2>7, <3>2
      <4>2. \A r \in R : f[r] = g[r]
        <5>1. ASSUME NEW r \in R
              PROVE  f[r] = g[r]
          <6>1. g[r] = 0 + f[r] /\ f[r] \in Int
            BY <2>5, <2>6, <3>2
          <6> QED
            BY <6>1
        <5> QED
          BY <5>1
      <4>3. SumFunctionOnSet(f, R) = SumFunctionOnSet(g, R)
        BY <4>2, SumSame
      <4> QED
        BY <2>8, <4>1, <4>3
    <3> QED
      BY <3>1, <3>2
  <2> QED
    BY ONLY <2>3, <2>4, <2>9
<1>5. Nat \subseteq Good
  <2>. HIDE DEF Good
  <2> QED
    BY <1>3, <1>4, Climb
<1>6. D \in UpTo(D, Cardinality(D)) /\ Cardinality(D) \in Good
  BY <1>5, SmallSets, FS_CardinalityType
<1>7. Sorted(D) = Whole(D)
  BY <1>6
<1> QED
  BY <1>7

\* A sum of five, term by term.
LEMMA SumOfFive ==
  ASSUME NEW S, IsFiniteSet(S), NEW f1, NEW f2, NEW f3, NEW f4, NEW f5,
         \A x \in S : /\ f1[x] \in Int /\ f2[x] \in Int /\ f3[x] \in Int
                      /\ f4[x] \in Int /\ f5[x] \in Int
  PROVE  SumFunctionOnSet([x \in S |-> f1[x] + f2[x] + f3[x] + f4[x] + f5[x]], S)
           = SumFunctionOnSet(f1, S) + SumFunctionOnSet(f2, S)
               + SumFunctionOnSet(f3, S) + SumFunctionOnSet(f4, S)
               + SumFunctionOnSet(f5, S)
<1>. DEFINE g2 == [x \in S |-> f1[x] + f2[x]]
            g3 == [x \in S |-> f1[x] + f2[x] + f3[x]]
            g4 == [x \in S |-> f1[x] + f2[x] + f3[x] + f4[x]]
            g5 == [x \in S |-> f1[x] + f2[x] + f3[x] + f4[x] + f5[x]]
<1>2. \A x \in S : f1[x] \in Int /\ f2[x] \in Int /\ g2[x] = f1[x] + f2[x]
  OBVIOUS
<1>3. \A x \in S : g2[x] \in Int /\ f3[x] \in Int /\ g3[x] = g2[x] + f3[x]
  OBVIOUS
<1>4. \A x \in S : g3[x] \in Int /\ f4[x] \in Int /\ g4[x] = g3[x] + f4[x]
  OBVIOUS
<1>5. \A x \in S : g4[x] \in Int /\ f5[x] \in Int /\ g5[x] = g4[x] + f5[x]
  OBVIOUS
<1>. HIDE DEF g2, g3, g4, g5
<1>6. SumFunctionOnSet(g2, S) = SumFunctionOnSet(f1, S) + SumFunctionOnSet(f2, S)
  BY ONLY <1>2, IsFiniteSet(S), SumPlus
<1>7. SumFunctionOnSet(g3, S) = SumFunctionOnSet(g2, S) + SumFunctionOnSet(f3, S)
  BY ONLY <1>3, IsFiniteSet(S), SumPlus
<1>8. SumFunctionOnSet(g4, S) = SumFunctionOnSet(g3, S) + SumFunctionOnSet(f4, S)
  BY ONLY <1>4, IsFiniteSet(S), SumPlus
<1>9. SumFunctionOnSet(g5, S) = SumFunctionOnSet(g4, S) + SumFunctionOnSet(f5, S)
  BY ONLY <1>5, IsFiniteSet(S), SumPlus
<1> QED
  BY <1>6, <1>7, <1>8, <1>9 DEF g5

-----------------------------------------------------------------------------
(* Counting.                                                               *)

\* The elements of T, in S, as a sum.
Share(S, T) == [x \in S |-> IF x \in T THEN 1 ELSE 0]

\* Its terms are numbers.
LEMMA ShareType == \A S, T : \A x \in S : Share(S, T)[x] \in Int
BY DEF Share

\* A cardinality is a sum of ones.
LEMMA CountIsSum ==
  ASSUME NEW S, IsFiniteSet(S), NEW T, T \subseteq S
  PROVE  Cardinality(T) = SumFunctionOnSet(Share(S, T), S)
<1>. DEFINE Good == {n \in Nat : \A s \in UpTo(S, n) :
               Cardinality(s \cap T) = SumFunctionOnSet(Share(S, T), s)}
<1>1. 0 \in Good
  <2>1. {} \cap T = {} /\ Cardinality({}) = 0
    BY FS_EmptySet
  <2>2. Cardinality({} \cap T) = SumFunctionOnSet(Share(S, T), {})
    BY <2>1, SumEmpty
  <2> QED
    BY <2>2, SmallSets
<1>2. ASSUME NEW n \in Nat, n \in Good
      PROVE  n + 1 \in Good
  <2>1. SUFFICES ASSUME NEW s \in UpTo(S, n + 1), s # {}
                 PROVE  Cardinality(s \cap T) = SumFunctionOnSet(Share(S, T), s)
    <3>1. n + 1 \in Nat
      OBVIOUS
    <3>2. \A s \in UpTo(S, n + 1) : s = {} =>
            Cardinality(s \cap T) = SumFunctionOnSet(Share(S, T), s)
      BY <1>1, SmallSets
    <3> QED
      BY <3>1, <3>2
  <2>. DEFINE y == Taken(s)
              rest == s \ {y}
  <2>2. s \in SUBSET S /\ IsFiniteSet(s) /\ rest \in UpTo(S, n)
        /\ IsFiniteSet(rest) /\ y \in s /\ y \in S
    BY <2>1, SmallSets, TakenMember DEF UpTo
  <2>3. Cardinality(rest \cap T) = SumFunctionOnSet(Share(S, T), rest)
    BY <1>2, <2>2
  <2>4. SumFunctionOnSet(Share(S, T), s)
          = Share(S, T)[y] + SumFunctionOnSet(Share(S, T), rest)
    BY <2>1, <2>2, ShareType, SumTaken
  <2>5. Share(S, T)[y] = IF y \in T THEN 1 ELSE 0
    BY <2>2 DEF Share
  <2>6. IsFiniteSet(rest \cap T) /\ Cardinality(rest \cap T) \in Nat
    BY <2>2, FS_Subset, FS_CardinalityType
  <2>7. CASE y \in T
    <3>1. s \cap T = (rest \cap T) \cup {y} /\ y \notin rest \cap T
      BY <2>2, <2>7
    <3>2. Cardinality(s \cap T) = Cardinality(rest \cap T) + 1
      BY ONLY <2>6, <3>1, FS_AddElement
    <3>3. Share(S, T)[y] = 1
      BY ONLY <2>5, <2>7
    <3> QED
      BY ONLY <2>3, <2>4, <2>6, <3>2, <3>3
  <2>8. CASE y \notin T
    <3>1. s \cap T = rest \cap T
      BY <2>2, <2>8
    <3>2. Share(S, T)[y] = 0
      BY ONLY <2>5, <2>8
    <3> QED
      BY ONLY <2>3, <2>4, <2>6, <3>1, <3>2
  <2> QED
    BY <2>7, <2>8
<1>3. Nat \subseteq Good
  <2>. HIDE DEF Good
  <2> QED
    BY <1>1, <1>2, Climb
<1>4. S \in UpTo(S, Cardinality(S)) /\ Cardinality(S) \in Good /\ S \cap T = T
  BY <1>3, SmallSets, FS_CardinalityType
<1>5. Cardinality(S \cap T) = SumFunctionOnSet(Share(S, T), S)
  BY <1>4
<1> QED
  BY ONLY <1>4, <1>5

\* Disjoint sets are counted one by one.
LEMMA CountParts ==
  ASSUME NEW W, IsFiniteSet(W), NEW J, IsFiniteSet(J),
         NEW P \in [W -> SUBSET J],
         \A v, w \in W : \A j \in J : j \in P[v] /\ j \in P[w] => v = w
  PROVE  Cardinality({j \in J : \E w \in W : j \in P[w]})
           = SumFunctionOnSet([w \in W |-> Cardinality(P[w])], W)
<1>. DEFINE f == [w \in W |-> Cardinality(P[w])]
            All(s) == {j \in J : \E w \in s : j \in P[w]}
            Good == {n \in Nat : \A s \in UpTo(W, n) :
                       Cardinality(All(s)) = SumFunctionOnSet(f, s)}
<1>1. \A s : IsFiniteSet(All(s)) /\ Cardinality(All(s)) \in Nat
  BY FS_Subset, FS_CardinalityType
<1>2. \A w \in W : /\ f[w] = Cardinality(P[w]) /\ f[w] \in Int
                   /\ IsFiniteSet(P[w])
  <2>1. SUFFICES ASSUME NEW w \in W
                 PROVE  /\ f[w] = Cardinality(P[w]) /\ f[w] \in Int
                        /\ IsFiniteSet(P[w])
    OBVIOUS
  <2>2. P[w] \subseteq J
    OBVIOUS
  <2>3. IsFiniteSet(P[w]) /\ Cardinality(P[w]) \in Nat
    BY <2>2, FS_Subset, FS_CardinalityType
  <2> QED
    BY <2>3
<1>3. \A s \in UpTo(W, 0) : Cardinality(All(s)) = SumFunctionOnSet(f, s)
  <2>1. All({}) = {}
    OBVIOUS
  <2>2. Cardinality(All({})) = SumFunctionOnSet(f, {})
    BY <2>1, FS_EmptySet, SumEmpty
  <2> QED
    BY <2>2, SmallSets
<1>4. ASSUME NEW n \in Nat, n \in Good
      PROVE  n + 1 \in Good
  <2>1. SUFFICES ASSUME NEW s \in UpTo(W, n + 1), s # {}
                 PROVE  Cardinality(All(s)) = SumFunctionOnSet(f, s)
    <3>1. n + 1 \in Nat
      OBVIOUS
    <3>2. \A s \in UpTo(W, n + 1) : s = {} =>
            Cardinality(All(s)) = SumFunctionOnSet(f, s)
      BY <1>3, SmallSets
    <3> QED
      BY <3>1, <3>2
  <2>. DEFINE y == Taken(s)
              rest == s \ {y}
  <2>2. s \in SUBSET W /\ IsFiniteSet(s) /\ rest \in UpTo(W, n)
        /\ IsFiniteSet(rest) /\ y \in s /\ y \in W
    BY <2>1, SmallSets, TakenMember DEF UpTo
  <2>3. Cardinality(All(rest)) = SumFunctionOnSet(f, rest)
    BY <1>4, <2>2
  <2>. HIDE DEF f
  <2>4. SumFunctionOnSet(f, s) = f[y] + SumFunctionOnSet(f, rest)
    BY <2>1, <2>2, <1>2, SumTaken
  <2>5. All(s) = All(rest) \cup P[y] /\ All(rest) \cap P[y] = {}
    BY <2>2
  <2>. HIDE DEF All
  <2>6. /\ IsFiniteSet(All(rest)) /\ Cardinality(All(rest)) \in Nat
        /\ IsFiniteSet(P[y]) /\ f[y] = Cardinality(P[y]) /\ f[y] \in Int
    BY <1>1, <1>2, <2>2
  <2>7. Cardinality(All(s)) = Cardinality(All(rest)) + Cardinality(P[y])
    <3>. DEFINE p == All(rest)
                q == P[y]
    <3>1. IsFiniteSet(p) /\ IsFiniteSet(q) /\ p \cap q = {}
      BY ONLY <2>5, <2>6
    <3>2. Cardinality(p) \in Nat /\ Cardinality(q) \in Nat
      BY ONLY <3>1, FS_CardinalityType
    <3>. HIDE DEF p, q
    <3>3. Cardinality(p \cup q)
            = Cardinality(p) + Cardinality(q) - Cardinality(p \cap q)
      BY ONLY <3>1, FS_Union
    <3>4. Cardinality(p \cap q) = 0
      BY ONLY <3>1, FS_EmptySet
    <3>5. Cardinality(p \cup q) = Cardinality(p) + Cardinality(q)
      BY ONLY <3>2, <3>3, <3>4
    <3> QED
      BY <2>5, <3>5 DEF p, q
  <2> QED
    BY ONLY <2>3, <2>4, <2>6, <2>7
<1>5. 0 \in Good
  BY <1>3
<1>6. Nat \subseteq Good
  <2>. HIDE DEF Good
  <2> QED
    BY <1>4, <1>5, Climb
<1>7. W \in UpTo(W, Cardinality(W)) /\ Cardinality(W) \in Good
  BY <1>6, SmallSets, FS_CardinalityType
<1> QED
  BY <1>7

\* Membership as a number, in three sets and in twice three.
In(x, S) == IF x \in S THEN 1 ELSE 0

In3(x, A, B, C) == In(x, A) + In(x, B) + In(x, C)

In6(x, D, E, F, G, H, I) == In3(x, D, E, F) + In3(x, G, H, I)

Count3(A, B, C) == Cardinality(A) + Cardinality(B) + Cardinality(C)

Count6(D, E, F, G, H, I) == Count3(D, E, F) + Count3(G, H, I)

\* Three sets counted together.
LEMMA CountThree ==
  ASSUME NEW J, IsFiniteSet(J), NEW A, A \subseteq J, NEW B, B \subseteq J,
         NEW C, C \subseteq J
  PROVE  Count3(A, B, C) = SumFunctionOnSet([x \in J |-> In3(x, A, B, C)], J)
<1>. DEFINE two   == [x \in J |-> In(x, A) + In(x, B)]
            three == [x \in J |-> In3(x, A, B, C)]
<1>1. /\ Cardinality(A) = SumFunctionOnSet(Share(J, A), J)
      /\ Cardinality(B) = SumFunctionOnSet(Share(J, B), J)
      /\ Cardinality(C) = SumFunctionOnSet(Share(J, C), J)
  BY CountIsSum
<1>2. \A x \in J : /\ Share(J, A)[x] \in Int /\ Share(J, B)[x] \in Int
                   /\ two[x] = Share(J, A)[x] + Share(J, B)[x]
  BY DEF Share, In
<1>3. \A x \in J : /\ two[x] \in Int /\ Share(J, C)[x] \in Int
                   /\ three[x] = two[x] + Share(J, C)[x]
  BY DEF Share, In, In3
<1>. HIDE DEF two, three
<1>4. SumFunctionOnSet(two, J)
        = SumFunctionOnSet(Share(J, A), J) + SumFunctionOnSet(Share(J, B), J)
  BY ONLY <1>2, IsFiniteSet(J), SumPlus
<1>5. SumFunctionOnSet(three, J)
        = SumFunctionOnSet(two, J) + SumFunctionOnSet(Share(J, C), J)
  BY ONLY <1>3, IsFiniteSet(J), SumPlus
<1>6. Cardinality(A) + Cardinality(B) + Cardinality(C) = SumFunctionOnSet(three, J)
  BY ONLY <1>1, <1>4, <1>5
<1> QED
  BY <1>6 DEF three, Count3

\* So are six.
LEMMA CountSix ==
  ASSUME NEW J, IsFiniteSet(J), NEW D, D \subseteq J, NEW E, E \subseteq J,
         NEW F, F \subseteq J, NEW G, G \subseteq J, NEW H, H \subseteq J,
         NEW I, I \subseteq J
  PROVE  Count6(D, E, F, G, H, I)
           = SumFunctionOnSet([x \in J |-> In6(x, D, E, F, G, H, I)], J)
<1>. DEFINE def  == [x \in J |-> In3(x, D, E, F)]
            ghi  == [x \in J |-> In3(x, G, H, I)]
            all  == [x \in J |-> In6(x, D, E, F, G, H, I)]
<1>1. /\ Count3(D, E, F) = SumFunctionOnSet(def, J)
      /\ Count3(G, H, I) = SumFunctionOnSet(ghi, J)
  BY CountThree
<1>2. \A x \in J : def[x] \in Int /\ ghi[x] \in Int /\ all[x] = def[x] + ghi[x]
  BY DEF In, In3, In6
<1>. HIDE DEF def, ghi, all
<1>3. SumFunctionOnSet(all, J)
        = SumFunctionOnSet(def, J) + SumFunctionOnSet(ghi, J)
  BY ONLY <1>2, IsFiniteSet(J), SumPlus
<1> QED
  BY <1>1, <1>3 DEF all, Count6

\* Six sets count for no less than three if each element does.
LEMMA CountBound ==
  ASSUME NEW J, IsFiniteSet(J), NEW A, A \subseteq J, NEW B, B \subseteq J,
         NEW C, C \subseteq J, NEW D, D \subseteq J, NEW E, E \subseteq J,
         NEW F, F \subseteq J, NEW G, G \subseteq J, NEW H, H \subseteq J,
         NEW I, I \subseteq J,
         \A x \in J : In3(x, A, B, C) <= In6(x, D, E, F, G, H, I)
  PROVE  Count3(A, B, C) <= Count6(D, E, F, G, H, I)
<1>. DEFINE low  == [x \in J |-> In3(x, A, B, C)]
            high == [x \in J |-> In6(x, D, E, F, G, H, I)]
<1>1. Count3(A, B, C) = SumFunctionOnSet(low, J)
  BY CountThree
<1>2. Count6(D, E, F, G, H, I) = SumFunctionOnSet(high, J)
  BY CountSix
<1>3. \A x \in J : low[x] <= high[x]
  OBVIOUS
<1>4. \A x \in J : low[x] \in Int /\ high[x] \in Int
  BY DEF In, In3, In6
<1>. HIDE DEF low, high
<1>5. SumFunctionOnSet(low, J) <= SumFunctionOnSet(high, J)
  BY ONLY <1>3, <1>4, IsFiniteSet(J), SumMonotone
<1> QED
  BY ONLY <1>1, <1>2, <1>5

\* They count for the same if each element does.
LEMMA CountBalance ==
  ASSUME NEW J, IsFiniteSet(J), NEW A, A \subseteq J, NEW B, B \subseteq J,
         NEW C, C \subseteq J, NEW D, D \subseteq J, NEW E, E \subseteq J,
         NEW F, F \subseteq J, NEW G, G \subseteq J, NEW H, H \subseteq J,
         NEW I, I \subseteq J,
         \A x \in J : In3(x, A, B, C) = In6(x, D, E, F, G, H, I)
  PROVE  Count3(A, B, C) = Count6(D, E, F, G, H, I)
<1>. DEFINE low  == [x \in J |-> In3(x, A, B, C)]
            high == [x \in J |-> In6(x, D, E, F, G, H, I)]
<1>1. Count3(A, B, C) = SumFunctionOnSet(low, J)
  BY CountThree
<1>2. Count6(D, E, F, G, H, I) = SumFunctionOnSet(high, J)
  BY CountSix
<1>3. \A x \in J : low[x] = high[x]
  OBVIOUS
<1>. HIDE DEF low, high
<1>4. SumFunctionOnSet(low, J) = SumFunctionOnSet(high, J)
  BY ONLY <1>3, IsFiniteSet(J), SumSame
<1> QED
  BY ONLY <1>1, <1>2, <1>4

=============================================================================
