----------------------------- MODULE DataProofs -----------------------------
(***************************************************************************)
(* What the proofs of several components need of the data their models are *)
(* built from: least and greatest numbers, induction over numbers and      *)
(* finite sets, sums, and the lengths and elements of sequences.           *)
(*                                                                         *)
(* An induction is over a set, Good, of the things it holds of: no theorem *)
(* here takes an operator as a parameter.                                  *)
(***************************************************************************)
EXTENDS Integers, Sequences, SequencesExt, Filtering, FiniteSetsExt, FiniteSetTheorems, WellFoundedInduction,
        SequenceTheorems, TLAPS

(***************************************************************************)
(* Induction                                                               *)
(***************************************************************************)

\* A non-empty set of natural numbers has a least element.
LEMMA LeastNatural ==
    ASSUME NEW T, T \subseteq Nat, T # {}
    PROVE  \E x \in T : \A y \in T : x <= y
<1>1. PICK x \in T : \A y \in T : ~ (<<y, x>> \in OpToRel(<, Nat))
  BY WFMin, NatLessThanWellFounded
<1>2. ASSUME NEW y \in T
      PROVE  x <= y
  <2>1. x \in Nat /\ y \in Nat
    OBVIOUS
  <2>2. ~ (y < x)
    BY <1>1, <2>1 DEF OpToRel
  <2>3. QED
    BY <2>1, <2>2
<1>3. QED
  BY <1>2

\* What holds of 0, and of n + 1 where it holds of n, holds of every number.
LEMMA NumberInduction ==
    ASSUME NEW Good, 0 \in Good, \A n \in Nat : n \in Good => n + 1 \in Good
    PROVE  Nat \subseteq Good
<1> SUFFICES ASSUME Nat \ Good # {}
             PROVE  FALSE
  OBVIOUS
<1>1. PICK n \in Nat \ Good : \A m \in Nat \ Good : n <= m
  BY LeastNatural
<1>2. n # 0 /\ n - 1 \in Nat /\ n - 1 \notin Nat \ Good
  BY <1>1
<1>3. QED
  BY <1>1, <1>2

\* What holds of the empty set, and of a set with one element more than a set it holds of,
\* holds of every finite set.
LEMMA SetInduction ==
    ASSUME NEW S, IsFiniteSet(S), NEW Good, {} \in Good,
           \A T \in SUBSET S : \A x \in S \ T : T \in Good => T \cup {x} \in Good
    PROVE  S \in Good
<1> DEFINE Sized == {n \in Nat : \A T \in SUBSET S : Cardinality(T) = n => T \in Good}
<1>1. 0 \in Sized
  <2>1. \A T \in SUBSET S : Cardinality(T) = 0 => T = {}
    BY FS_Subset, FS_EmptySet
  <2>2. QED
    BY <2>1
<1>2. ASSUME NEW n \in Nat, n \in Sized
      PROVE  n + 1 \in Sized
  <2> SUFFICES ASSUME NEW T \in SUBSET S, Cardinality(T) = n + 1
               PROVE  T \in Good
    OBVIOUS
  <2>1. IsFiniteSet(T) /\ T # {}
    BY FS_Subset, FS_EmptySet
  <2>2. PICK x \in T : TRUE
    BY <2>1
  <2>3. Cardinality(T \ {x}) = n
    <3>1. Cardinality(T \ {x}) = Cardinality(T) - 1
      BY <2>1, <2>2, FS_RemoveElement
    <3>2. QED
      BY <3>1
  <2>4. T \ {x} \in Good
    BY <1>2, <2>3
  <2>5. (T \ {x}) \cup {x} = T
    OBVIOUS
  <2>6. QED
    BY <2>4, <2>5
<1> HIDE DEF Sized
<1>3. Nat \subseteq Sized
  BY <1>1, <1>2, NumberInduction
<1>4. Cardinality(S) \in Sized
  BY <1>3, FS_CardinalityType
<1>5. QED
  BY <1>4 DEF Sized

(***************************************************************************)
(* Sums                                                                    *)
(***************************************************************************)
\* The element SumFunctionOnSet takes next.
Taken(S) == CHOOSE x \in S : TRUE

\* g adds up the values of f over any subset of S.
AddsUp(g, f, S) ==
    g = [T \in SUBSET S |-> IF T = {} THEN 0 ELSE f[Taken(T)] + g[T \ {Taken(T)}]]

LEMMA SumFunctionIsChosen ==
    ASSUME NEW f, NEW S
    PROVE  SumFunctionOnSet(f, S) = (CHOOSE g : AddsUp(g, f, S))[S]
BY DEF SumFunctionOnSet, FoldFunctionOnSet, MapThenFoldSet, AddsUp, Taken

LEMMA TakenIsOne ==
    ASSUME NEW S, S # {}
    PROVE  Taken(S) \in S
BY DEF Taken

\* For a finite set there is such a function,
LEMMA SomethingAddsUp ==
    ASSUME NEW S, IsFiniteSet(S), NEW f
    PROVE  \E g : AddsUp(g, f, S)
<1> DEFINE Upto(n) == {T \in SUBSET S : Cardinality(T) <= n}
           Adds(g, n) == g = [T \in Upto(n) |->
                                IF T = {} THEN 0 ELSE f[Taken(T)] + g[T \ {Taken(T)}]]
           Good == {n \in Nat : \E g : Adds(g, n)}
<1>1. 0 \in Good
  <2> DEFINE g == [T \in Upto(0) |-> 0]
  <2>1. \A T \in Upto(0) : T = {}
    <3> SUFFICES ASSUME NEW T \in Upto(0)
                 PROVE  T = {}
      OBVIOUS
    <3>1. IsFiniteSet(T) /\ Cardinality(T) \in Nat
      BY FS_Subset, FS_CardinalityType
    <3>2. QED
      BY <3>1, FS_EmptySet
  <2>2. Adds(g, 0)
    BY <2>1
  <2> HIDE DEF g, Adds
  <2>3. QED
    BY <2>2
<1>2. ASSUME NEW n \in Nat, n \in Good
      PROVE  n + 1 \in Good
  <2>1. PICK g : Adds(g, n)
    BY <1>2
  <2> DEFINE h == [T \in Upto(n + 1) |->
                     IF T = {} THEN 0 ELSE f[Taken(T)] + g[T \ {Taken(T)}]]
  <2>2. ASSUME NEW T \in Upto(n)
        PROVE  h[T] = g[T]
    <3>1. IsFiniteSet(T) /\ Cardinality(T) \in Nat
      BY FS_Subset, FS_CardinalityType
    <3>2. T \in Upto(n + 1)
      BY <3>1
    <3> HIDE DEF Upto
    <3>3. g[T] = IF T = {} THEN 0 ELSE f[Taken(T)] + g[T \ {Taken(T)}]
      BY <2>1
    <3>4. QED
      BY <3>2, <3>3
  <2>3. ASSUME NEW T \in Upto(n + 1), T # {}
        PROVE  T \ {Taken(T)} \in Upto(n)
    <3>1. IsFiniteSet(T) /\ Cardinality(T) \in Nat
      BY FS_Subset, FS_CardinalityType
    <3>2. Cardinality(T \ {Taken(T)}) = Cardinality(T) - 1
      BY <2>3, <3>1, FS_RemoveElement, TakenIsOne
    <3>3. QED
      BY <3>1, <3>2
  <2>4. Adds(h, n + 1)
    <3> HIDE DEF Upto
    <3>1. \A T \in Upto(n + 1) :
             (IF T = {} THEN 0 ELSE f[Taken(T)] + g[T \ {Taken(T)}])
           = (IF T = {} THEN 0 ELSE f[Taken(T)] + h[T \ {Taken(T)}])
      BY <2>2, <2>3
    <3>2. QED
      BY <3>1
  <2> HIDE DEF h, Adds
  <2>5. QED
    BY <2>4
<1> HIDE DEF Good
<1>3. Cardinality(S) \in Good
  BY <1>1, <1>2, NumberInduction, FS_CardinalityType
<1>4. PICK g : Adds(g, Cardinality(S))
  BY <1>3 DEF Good
<1>5. Upto(Cardinality(S)) = SUBSET S
  BY FS_Subset
<1> HIDE DEF Upto
<1>6. AddsUp(g, f, S)
  BY <1>4, <1>5 DEF AddsUp
<1>7. QED
  BY <1>6

\* and no other agrees less: over a subset of both, two of them add up to the same.
LEMMA SumsAgree ==
    ASSUME NEW S, NEW U, IsFiniteSet(U), U \subseteq S, NEW f,
           NEW g, AddsUp(g, f, S), NEW h, AddsUp(h, f, U)
    PROVE  g[U] = h[U]
<1> DEFINE Good == {n \in Nat : \A T \in SUBSET U : Cardinality(T) = n => g[T] = h[T]}
<1>1. \A T \in SUBSET S : g[T] = IF T = {} THEN 0 ELSE f[Taken(T)] + g[T \ {Taken(T)}]
  BY DEF AddsUp
<1>2. \A T \in SUBSET U : h[T] = IF T = {} THEN 0 ELSE f[Taken(T)] + h[T \ {Taken(T)}]
  BY DEF AddsUp
<1>3. 0 \in Good
  <2>1. \A T \in SUBSET U : Cardinality(T) = 0 => T = {}
    BY FS_Subset, FS_EmptySet
  <2>2. QED
    BY <1>1, <1>2, <2>1
<1>4. ASSUME NEW n \in Nat, n \in Good
      PROVE  n + 1 \in Good
  <2> SUFFICES ASSUME NEW T \in SUBSET U, Cardinality(T) = n + 1
               PROVE  g[T] = h[T]
    OBVIOUS
  <2>1. IsFiniteSet(T) /\ T # {}
    BY FS_Subset, FS_EmptySet
  <2>2. Taken(T) \in T
    BY <2>1, TakenIsOne
  <2>3. Cardinality(T \ {Taken(T)}) = n
    <3>1. Cardinality(T \ {Taken(T)}) = Cardinality(T) - 1
      BY <2>1, <2>2, FS_RemoveElement
    <3>2. QED
      BY <3>1
  <2>4. g[T \ {Taken(T)}] = h[T \ {Taken(T)}]
    BY <1>4, <2>3
  <2>5. QED
    BY <1>1, <1>2, <2>1, <2>4
<1> HIDE DEF Good
<1>5. Cardinality(U) \in Good
  BY <1>3, <1>4, NumberInduction, FS_CardinalityType
<1>6. QED
  BY <1>5 DEF Good

\* The sum over no element is 0; over others, that of the one taken and of the rest.
LEMMA SumTakes ==
    ASSUME NEW S, IsFiniteSet(S), NEW f
    PROVE  /\ S = {} => SumFunctionOnSet(f, S) = 0
           /\ S # {} => SumFunctionOnSet(f, S)
                          = f[Taken(S)] + SumFunctionOnSet(f, S \ {Taken(S)})
<1> DEFINE g == CHOOSE a : AddsUp(a, f, S)
           rest == S \ {Taken(S)}
           h == CHOOSE a : AddsUp(a, f, rest)
<1>1. IsFiniteSet(rest)
  BY FS_Subset
<1>2. AddsUp(g, f, S) /\ AddsUp(h, f, rest)
  BY <1>1, SomethingAddsUp
<1>3. SumFunctionOnSet(f, S) = g[S] /\ SumFunctionOnSet(f, rest) = h[rest]
  BY SumFunctionIsChosen
<1> HIDE DEF g, h
<1>4. g[S] = IF S = {} THEN 0 ELSE f[Taken(S)] + g[rest]
  BY <1>2 DEF AddsUp
<1>5. g[rest] = h[rest]
  BY <1>1, <1>2, SumsAgree
<1>6. QED
  BY <1>3, <1>4, <1>5

\* A sum of integers is one,
LEMMA SumType ==
    ASSUME NEW S, IsFiniteSet(S), NEW f, \A x \in S : f[x] \in Int
    PROVE  SumFunctionOnSet(f, S) \in Int
<1> DEFINE Good == {n \in Nat : \A T \in SUBSET S :
                       Cardinality(T) = n => SumFunctionOnSet(f, T) \in Int}
<1>1. 0 \in Good
  <2>1. \A T \in SUBSET S : Cardinality(T) = 0 => T = {} /\ IsFiniteSet(T)
    BY FS_Subset, FS_EmptySet
  <2>2. QED
    BY <2>1, SumTakes
<1>2. ASSUME NEW n \in Nat, n \in Good
      PROVE  n + 1 \in Good
  <2> SUFFICES ASSUME NEW T \in SUBSET S, Cardinality(T) = n + 1
               PROVE  SumFunctionOnSet(f, T) \in Int
    OBVIOUS
  <2>1. IsFiniteSet(T) /\ T # {} /\ Taken(T) \in T
    BY FS_Subset, FS_EmptySet, TakenIsOne
  <2>2. Cardinality(T \ {Taken(T)}) = Cardinality(T) - 1
    BY <2>1, FS_RemoveElement
  <2>3. SumFunctionOnSet(f, T \ {Taken(T)}) \in Int
    BY <1>2, <2>2
  <2>4. SumFunctionOnSet(f, T) = f[Taken(T)] + SumFunctionOnSet(f, T \ {Taken(T)})
    BY <2>1, SumTakes
  <2>5. QED
    BY <2>1, <2>3, <2>4
<1> HIDE DEF Good
<1>3. Cardinality(S) \in Good
  BY <1>1, <1>2, NumberInduction, FS_CardinalityType
<1>4. QED
  BY <1>3 DEF Good

\* and any of the elements may be the first added.
LEMMA SumLess ==
    ASSUME NEW S, IsFiniteSet(S), NEW f, \A x \in S : f[x] \in Int, NEW x \in S
    PROVE  SumFunctionOnSet(f, S) = f[x] + SumFunctionOnSet(f, S \ {x})
<1> DEFINE Good == {n \in Nat : \A T \in SUBSET S : \A y \in T : Cardinality(T) = n =>
                       SumFunctionOnSet(f, T) = f[y] + SumFunctionOnSet(f, T \ {y})}
<1>1. 0 \in Good
  <2>1. \A T \in SUBSET S : Cardinality(T) = 0 => T = {}
    BY FS_Subset, FS_EmptySet
  <2>2. QED
    BY <2>1
<1>2. ASSUME NEW n \in Nat, n \in Good
      PROVE  n + 1 \in Good
  <2> SUFFICES ASSUME NEW T \in SUBSET S, NEW y \in T, Cardinality(T) = n + 1
               PROVE  SumFunctionOnSet(f, T) = f[y] + SumFunctionOnSet(f, T \ {y})
    OBVIOUS
  <2> DEFINE z == Taken(T)
  <2>1. IsFiniteSet(T) /\ z \in T
    BY FS_Subset, FS_EmptySet, TakenIsOne
  <2> HIDE DEF z
  <2>2. SumFunctionOnSet(f, T) = f[z] + SumFunctionOnSet(f, T \ {z})
    BY <2>1, SumTakes DEF z
  <2>3. CASE z = y
    BY <2>2, <2>3
  <2>4. CASE z # y
    <3>1. Cardinality(T \ {z}) = Cardinality(T) - 1 /\ Cardinality(T \ {y}) = Cardinality(T) - 1
      BY <2>1, FS_RemoveElement
    <3>2. Cardinality(T \ {z}) = n /\ Cardinality(T \ {y}) = n
      BY <3>1
    <3>3. y \in T \ {z} /\ z \in T \ {y}
      BY <2>1, <2>4
    <3>4. (T \ {z}) \ {y} = (T \ {y}) \ {z}
      OBVIOUS
    <3> DEFINE rest == SumFunctionOnSet(f, (T \ {z}) \ {y})
    <3>5. /\ SumFunctionOnSet(f, T \ {z}) = f[y] + rest
          /\ SumFunctionOnSet(f, T \ {y}) = f[z] + rest
      BY <1>2, <3>2, <3>3, <3>4
    <3>6. rest \in Int /\ f[y] \in Int /\ f[z] \in Int
      <4>1. IsFiniteSet((T \ {z}) \ {y}) /\ \A u \in (T \ {z}) \ {y} : f[u] \in Int
        BY <2>1, FS_Subset
      <4>2. QED
        BY <2>1, <4>1, SumType
    <3> HIDE DEF rest
    <3>7. QED
      BY <2>2, <3>5, <3>6
  <2>5. QED
    BY <2>3, <2>4
<1> HIDE DEF Good
<1>3. Cardinality(S) \in Good
  BY <1>1, <1>2, NumberInduction, FS_CardinalityType
<1>4. QED
  BY <1>3 DEF Good

\* One element more adds its value.
LEMMA SumMore ==
    ASSUME NEW S, IsFiniteSet(S), NEW x, x \notin S, NEW f,
           \A y \in S \cup {x} : f[y] \in Int
    PROVE  SumFunctionOnSet(f, S \cup {x}) = SumFunctionOnSet(f, S) + f[x]
<1>1. IsFiniteSet(S \cup {x})
  BY FS_AddElement
<1>2. (S \cup {x}) \ {x} = S
  OBVIOUS
<1>3. SumFunctionOnSet(f, S \cup {x}) = f[x] + SumFunctionOnSet(f, (S \cup {x}) \ {x})
  BY <1>1, SumLess
<1> DEFINE all == SumFunctionOnSet(f, S \cup {x})
           one == SumFunctionOnSet(f, S)
<1>4. one \in Int /\ f[x] \in Int
  BY SumType
<1>5. all = f[x] + one
  BY <1>2, <1>3
<1> HIDE DEF all, one
<1>6. all = one + f[x]
  BY <1>4, <1>5
<1>7. QED
  BY <1>6 DEF all, one

LEMMA SumOfNone == ASSUME NEW f PROVE SumFunctionOnSet(f, {}) = 0
BY SumTakes, FS_EmptySet

\* Smaller values, smaller sum.
LEMMA SumGrows ==
    ASSUME NEW S, IsFiniteSet(S), NEW f, NEW g,
           \A x \in S : f[x] \in Int /\ g[x] \in Int /\ f[x] <= g[x]
    PROVE  SumFunctionOnSet(f, S) <= SumFunctionOnSet(g, S)
<1> DEFINE Good == {T \in SUBSET S : SumFunctionOnSet(f, T) <= SumFunctionOnSet(g, T)}
<1>1. {} \in Good
  BY SumOfNone
<1>2. ASSUME NEW T \in SUBSET S, NEW x \in S \ T, T \in Good
      PROVE  T \cup {x} \in Good
  <2>1. IsFiniteSet(T)
    BY FS_Subset
  <2>2. /\ SumFunctionOnSet(f, T \cup {x}) = SumFunctionOnSet(f, T) + f[x]
        /\ SumFunctionOnSet(g, T \cup {x}) = SumFunctionOnSet(g, T) + g[x]
    BY <2>1, SumMore
  <2>3. SumFunctionOnSet(f, T) \in Int /\ SumFunctionOnSet(g, T) \in Int
    BY <2>1, SumType
  <2>4. QED
    BY <1>2, <2>2, <2>3
<1> HIDE DEF Good
<1>3. S \in Good
  BY <1>1, <1>2, SetInduction
<1>4. QED
  BY <1>3 DEF Good

\* Only the values at the elements count.
LEMMA SumSame ==
    ASSUME NEW S, IsFiniteSet(S), NEW f, NEW g,
           \A x \in S : f[x] \in Int /\ g[x] = f[x]
    PROVE  SumFunctionOnSet(g, S) = SumFunctionOnSet(f, S)
<1>1. \A x \in S : f[x] \in Int /\ g[x] \in Int /\ f[x] <= g[x] /\ g[x] <= f[x]
  OBVIOUS
<1>2. /\ SumFunctionOnSet(f, S) <= SumFunctionOnSet(g, S)
      /\ SumFunctionOnSet(g, S) <= SumFunctionOnSet(f, S)
  BY <1>1, SumGrows
<1>3. SumFunctionOnSet(f, S) \in Int /\ SumFunctionOnSet(g, S) \in Int
  BY <1>1, SumType
<1>4. QED
  BY <1>2, <1>3

\* One value changed changes the sum by as much.
LEMMA SumExcept ==
    ASSUME NEW S, IsFiniteSet(S), NEW f \in [S -> Int], NEW x \in S, NEW v \in Int
    PROVE  SumFunction([f EXCEPT ![x] = v]) = SumFunction(f) + (v - f[x])
<1> DEFINE g == [f EXCEPT ![x] = v]
           rest == SumFunctionOnSet(f, S \ {x})
<1>1. DOMAIN f = S /\ DOMAIN g = S /\ g \in [S -> Int] /\ g[x] = v
  OBVIOUS
<1>2. \A y \in S \ {x} : f[y] \in Int /\ g[y] = f[y]
  OBVIOUS
<1> HIDE DEF g
<1>3. IsFiniteSet(S \ {x})
  BY FS_Subset
<1>4. SumFunctionOnSet(g, S \ {x}) = rest /\ rest \in Int
  BY <1>2, <1>3, SumSame, SumType
<1>5. SumFunctionOnSet(f, S) = f[x] + rest /\ SumFunctionOnSet(g, S) = g[x] + rest
  BY <1>1, <1>4, SumLess
<1>6. SumFunction(f) = SumFunctionOnSet(f, S) /\ SumFunction(g) = SumFunctionOnSet(g, S)
  BY <1>1 DEF SumFunction
<1> HIDE DEF rest
<1>7. f[x] \in Int
  OBVIOUS
<1>8. SumFunction(g) = SumFunction(f) + (v - f[x])
  BY <1>1, <1>4, <1>5, <1>6, <1>7
<1>9. QED
  BY <1>8 DEF g

\* Equal values add up to their number times the value.
LEMMA SumOfEqual ==
    ASSUME NEW S, IsFiniteSet(S), NEW v \in Int, NEW f, \A x \in S : f[x] = v
    PROVE  SumFunctionOnSet(f, S) = Cardinality(S) * v
<1> DEFINE Good == {T \in SUBSET S : SumFunctionOnSet(f, T) = Cardinality(T) * v}
<1>1. {} \in Good
  BY SumOfNone, FS_EmptySet
<1>2. ASSUME NEW T \in SUBSET S, NEW x \in S \ T, T \in Good
      PROVE  T \cup {x} \in Good
  <2>1. IsFiniteSet(T) /\ Cardinality(T) \in Nat
    BY FS_Subset, FS_CardinalityType
  <2>2. SumFunctionOnSet(f, T \cup {x}) = SumFunctionOnSet(f, T) + v
    BY SMTT(30), <2>1, SumMore
  <2>3. Cardinality(T \cup {x}) = Cardinality(T) + 1
    BY <2>1, FS_AddElement
  <2>4. (Cardinality(T) + 1) * v = Cardinality(T) * v + v
    BY <2>1
  <2>5. QED
    BY <1>2, <2>2, <2>3, <2>4
<1> HIDE DEF Good
<1>3. S \in Good
  BY <1>1, <1>2, SetInduction
<1>4. QED
  BY <1>3 DEF Good

\* A sum over two sets apart is the two sums.
LEMMA SumOfBoth ==
    ASSUME NEW S, IsFiniteSet(S), NEW U, IsFiniteSet(U), S \cap U = {},
           NEW f, \A x \in S \cup U : f[x] \in Int
    PROVE  SumFunctionOnSet(f, S \cup U) = SumFunctionOnSet(f, S) + SumFunctionOnSet(f, U)
<1> DEFINE Good == {T \in SUBSET U :
              SumFunctionOnSet(f, S \cup T) = SumFunctionOnSet(f, S) + SumFunctionOnSet(f, T)}
<1>1. {} \in Good
  <2>1. S \cup {} = S
    OBVIOUS
  <2>2. SumFunctionOnSet(f, S) \in Int
    BY SumType
  <2>3. QED
    BY <2>1, <2>2, SumOfNone
<1>2. ASSUME NEW T \in SUBSET U, NEW x \in U \ T, T \in Good
      PROVE  T \cup {x} \in Good
  <2>1. IsFiniteSet(T) /\ IsFiniteSet(S \cup T)
    BY FS_Subset, FS_Union
  <2>2. SumFunctionOnSet(f, T \cup {x}) = SumFunctionOnSet(f, T) + f[x]
    BY <2>1, SumMore
  <2>3. S \cup (T \cup {x}) = (S \cup T) \cup {x} /\ x \notin S \cup T
    OBVIOUS
  <2>4. SumFunctionOnSet(f, (S \cup T) \cup {x}) = SumFunctionOnSet(f, S \cup T) + f[x]
    BY <2>1, <2>3, SumMore
  <2> DEFINE s == SumFunctionOnSet(f, S)
             t == SumFunctionOnSet(f, T)
             st == SumFunctionOnSet(f, S \cup T)
             tx == SumFunctionOnSet(f, T \cup {x})
             stx == SumFunctionOnSet(f, S \cup (T \cup {x}))
  <2>5. s \in Int /\ t \in Int /\ f[x] \in Int /\ st = s + t
    BY <1>2, <2>1, SumType
  <2>6. tx = t + f[x] /\ stx = st + f[x]
    BY <2>2, <2>3, <2>4
  <2> HIDE DEF s, t, st, tx, stx
  <2>7. stx = s + tx
    BY <2>5, <2>6
  <2>8. QED
    BY <2>7 DEF s, tx, stx
<1> HIDE DEF Good
<1>3. U \in Good
  BY <1>1, <1>2, SetInduction
<1>4. QED
  BY <1>3 DEF Good

\* The sizes of sets that have no element in common add up to the size of their union.
LEMMA SumOfSizes ==
    ASSUME NEW S, IsFiniteSet(S), NEW parts,
           \A x \in S : IsFiniteSet(parts[x]),
           \A x, y \in S : x # y => parts[x] \cap parts[y] = {},
           NEW size, \A x \in S : size[x] = Cardinality(parts[x]),
           NEW whole, \A z : z \in whole <=> \E x \in S : z \in parts[x]
    PROVE  IsFiniteSet(whole) /\ SumFunctionOnSet(size, S) = Cardinality(whole)
<1> DEFINE All_(T) == UNION {parts[x] : x \in T}
           Good == {T \in SUBSET S : /\ IsFiniteSet(All_(T))
                                     /\ SumFunctionOnSet(size, T) = Cardinality(All_(T))}
<1>1. {} \in Good
  <2>1. All_({}) = {}
    OBVIOUS
  <2>2. QED
    BY <2>1, SumOfNone, FS_EmptySet
<1>2. ASSUME NEW T \in SUBSET S, NEW x \in S \ T, T \in Good
      PROVE  T \cup {x} \in Good
  <2>1. All_(T \cup {x}) = All_(T) \cup parts[x]
    OBVIOUS
  <2>2. All_(T) \cap parts[x] = {}
    OBVIOUS
  <2>3. IsFiniteSet(All_(T)) /\ SumFunctionOnSet(size, T) = Cardinality(All_(T))
    BY <1>2
  <2>4. IsFiniteSet(parts[x])
    OBVIOUS
  <2>5. \A y \in T \cup {x} : size[y] \in Int
    BY FS_CardinalityType
  <2>6. IsFiniteSet(T)
    BY FS_Subset
  <2>7. SumFunctionOnSet(size, T \cup {x}) = SumFunctionOnSet(size, T) + Cardinality(parts[x])
    BY <2>5, <2>6, SumMore
  <2> HIDE DEF All_
  <2>8. /\ IsFiniteSet(All_(T) \cup parts[x])
        /\ Cardinality(All_(T) \cup parts[x]) = Cardinality(All_(T)) + Cardinality(parts[x])
    <3>1. Cardinality(All_(T)) \in Nat /\ Cardinality(parts[x]) \in Nat
      BY <2>3, <2>4, FS_CardinalityType
    <3>2. /\ IsFiniteSet(All_(T) \cup parts[x])
          /\ Cardinality(All_(T) \cup parts[x])
               = Cardinality(All_(T)) + Cardinality(parts[x]) - Cardinality(All_(T) \cap parts[x])
      BY <2>3, <2>4, FS_Union
    <3>3. Cardinality(All_(T) \cap parts[x]) = 0
      BY <2>2, FS_EmptySet
    <3>4. QED
      BY <3>1, <3>2, <3>3
  <2>9. QED
    BY <2>1, <2>3, <2>7, <2>8
<1> HIDE DEF Good
<1>3. S \in Good
  BY <1>1, <1>2, SetInduction
<1>4. whole = All_(S)
  OBVIOUS
<1> HIDE DEF All_
<1>5. QED
  BY <1>3, <1>4 DEF Good

NamesOf(name, S) == {name[x] : x \in S}

\* A sum does not depend on what its elements are called.
LEMMA SumOfImage ==
    ASSUME NEW S, IsFiniteSet(S), NEW name,
           \A x, y \in S : name[x] = name[y] => x = y,
           NEW f, NEW g, \A x \in S : g[x] \in Int /\ g[x] = f[name[x]]
    PROVE  /\ IsFiniteSet(NamesOf(name, S))
           /\ SumFunctionOnSet(g, S) = SumFunctionOnSet(f, NamesOf(name, S))
<1> DEFINE Names(T) == {name[x] : x \in T}
           Good == {T \in SUBSET S : /\ IsFiniteSet(Names(T))
                                     /\ SumFunctionOnSet(g, T) = SumFunctionOnSet(f, Names(T))}
<1>1. {} \in Good
  <2>1. Names({}) = {}
    OBVIOUS
  <2>2. QED
    BY <2>1, SumOfNone, FS_EmptySet
<1>2. ASSUME NEW T \in SUBSET S, NEW x \in S \ T, T \in Good
      PROVE  T \cup {x} \in Good
  <2>1. Names(T \cup {x}) = Names(T) \cup {name[x]} /\ name[x] \notin Names(T)
    OBVIOUS
  <2>2. IsFiniteSet(T) /\ IsFiniteSet(Names(T))
    BY <1>2, FS_Subset
  <2>3. \A y \in T \cup {x} : g[y] \in Int
    OBVIOUS
  <2>4. \A y \in Names(T) \cup {name[x]} : f[y] \in Int
    OBVIOUS
  <2>5. SumFunctionOnSet(g, T \cup {x}) = SumFunctionOnSet(g, T) + g[x]
    BY <2>2, <2>3, SumMore
  <2> DEFINE named == Names(T)
             nx == name[x]
  <2>6. IsFiniteSet(named) /\ nx \notin named /\ \A y \in named \cup {nx} : f[y] \in Int
    BY <2>1, <2>2, <2>4
  <2>7. g[x] = f[nx] /\ SumFunctionOnSet(g, T) = SumFunctionOnSet(f, named)
    BY <1>2
  <2>8. Names(T \cup {x}) = named \cup {nx}
    BY <2>1
  <2> HIDE DEF named, nx, Names
  <2>9. SumFunctionOnSet(f, named \cup {nx}) = SumFunctionOnSet(f, named) + f[nx]
    BY <2>6, SumMore
  <2>10. IsFiniteSet(named \cup {nx})
    BY <2>6, FS_AddElement
  <2>11. QED
    BY <2>5, <2>7, <2>8, <2>9, <2>10
<1> HIDE DEF Good
<1>3. S \in Good
  BY <1>1, <1>2, SetInduction
<1>4. QED
  BY <1>3 DEF Good, NamesOf

LEMMA SumRenamed ==
    ASSUME NEW S, IsFiniteSet(S), NEW name,
           \A x, y \in S : name[x] = name[y] => x = y,
           NEW f, NEW g, \A x \in S : g[x] \in Int /\ g[x] = f[name[x]],
           NEW names, \A y : y \in names <=> \E x \in S : y = name[x]
    PROVE  IsFiniteSet(names) /\ SumFunctionOnSet(g, S) = SumFunctionOnSet(f, names)
<1>1. names = NamesOf(name, S)
  BY DEF NamesOf
<1>2. QED
  BY <1>1, SumOfImage

\* One value more at the end adds to the sum of a sequence of numbers.
LEMMA SumAppended ==
    ASSUME NEW n \in Nat, NEW f \in [1 .. n -> Int], NEW g \in [1 .. n + 1 -> Int],
           \A i \in 1 .. n : g[i] = f[i]
    PROVE  SumFunction(g) = SumFunction(f) + g[n + 1]
<1>1. 1 .. n + 1 = (1 .. n) \cup {n + 1} /\ n + 1 \notin 1 .. n
  OBVIOUS
<1>2. IsFiniteSet(1 .. n)
  BY FS_Interval
<1>3. \A i \in (1 .. n) \cup {n + 1} : g[i] \in Int
  OBVIOUS
<1>4. SumFunctionOnSet(g, (1 .. n) \cup {n + 1}) = SumFunctionOnSet(g, 1 .. n) + g[n + 1]
  BY <1>1, <1>2, <1>3, SumMore
<1>5. SumFunctionOnSet(g, 1 .. n) = SumFunctionOnSet(f, 1 .. n)
  BY <1>2, SumSame
<1>6. DOMAIN f = 1 .. n /\ DOMAIN g = (1 .. n) \cup {n + 1}
  OBVIOUS
<1>7. QED
  BY <1>4, <1>5, <1>6 DEF SumFunction

(***************************************************************************)
(* Largest, smallest, and in order                                         *)
(***************************************************************************)

\* A non-empty set of natural numbers up to n has a greatest element.
LEMMA GreatestNatural ==
    ASSUME NEW n \in Nat, NEW T, T \subseteq 0 .. n, T # {}
    PROVE  \E x \in T : \A y \in T : y <= x
<1> DEFINE U == {n - t : t \in T}
<1>1. U \subseteq Nat /\ U # {}
  <2>1. \A t \in T : n - t \in Nat
    OBVIOUS
  <2>2. QED
    BY <2>1
<1> HIDE DEF U
<1>2. PICK u \in U : \A v \in U : u <= v
  BY <1>1, LeastNatural
<1>3. PICK x \in T : u = n - x
  BY DEF U
<1>4. ASSUME NEW y \in T
      PROVE  y <= x
  <2>1. n - y \in U /\ x \in Int /\ y \in Int
    BY DEF U
  <2>2. n - x <= n - y
    BY <1>2, <1>3, <2>1
  <2>3. QED
    BY <2>1, <2>2
<1>5. QED
  BY <1>4

LEMMA MaxOfNaturals ==
    ASSUME NEW n \in Nat, NEW T, T \subseteq 0 .. n, T # {}
    PROVE  Max(T) \in T /\ \A y \in T : y <= Max(T)
<1>1. PICK x \in T : \A y \in T : y <= x
  BY GreatestNatural
<1>2. \A y \in T : x >= y
  <2>1. \A y \in T : x \in Int /\ y \in Int
    OBVIOUS
  <2>2. QED
    BY <1>1, <2>1
<1> DEFINE greatest == CHOOSE z \in T : \A y \in T : z >= y
<1>3. Max(T) = greatest
  BY DEF Max
<1>4. greatest \in T /\ \A y \in T : greatest >= y
  BY <1>2
<1> HIDE DEF greatest
<1>5. greatest \in Int /\ \A y \in T : y \in Int
  BY <1>4
<1>6. QED
  BY <1>3, <1>4, <1>5

LEMMA MinOfNaturals ==
    ASSUME NEW T, T \subseteq Nat, T # {}
    PROVE  Min(T) \in T /\ \A y \in T : Min(T) <= y
<1>1. \E x \in T : \A y \in T : x =< y
  BY LeastNatural
<1>2. QED
  BY <1>1 DEF Min

\* A list of a set by a number each of its elements has: as many are below the one at i as
\* there are places before it.
Ranks(list, S, key) ==
    list = [i \in 1 .. Cardinality(S) |->
              CHOOSE s \in S : Cardinality({t \in S : key[t] < key[s]}) = i - 1]

\* It holds each of them, once, if no two have the same number.
LEMMA RankingLists ==
    ASSUME NEW S, IsFiniteSet(S), NEW key, \A s \in S : key[s] \in Int,
           \A s, t \in S : key[s] = key[t] => s = t,
           NEW list, Ranks(list, S, key)
    PROVE  /\ list \in Seq(S)
           /\ \A s \in S : \E i \in DOMAIN list : list[i] = s
           /\ \A i, j \in DOMAIN list : list[i] = list[j] => i = j
<1> DEFINE below(s) == {t \in S : key[t] < key[s]}
           place == [s \in S |-> Cardinality(below(s)) + 1]
           c == Cardinality(S)
<1>1. \A s \in S : key[s] \in Int
  OBVIOUS
<1>2. IsFiniteSet(S) /\ c \in Nat
  BY FS_CardinalityType
<1>3. ASSUME NEW s \in S
      PROVE  IsFiniteSet(below(s)) /\ Cardinality(below(s)) \in 0 .. c - 1
  <2>1. below(s) \in SUBSET S /\ below(s) # S
    BY <1>1
  <2> HIDE DEF below
  <2>2. IsFiniteSet(below(s)) /\ Cardinality(below(s)) <= c /\ Cardinality(below(s)) # c
    BY <1>2, <2>1, FS_Subset
  <2>3. Cardinality(below(s)) \in Nat
    BY <2>2, FS_CardinalityType
  <2> HIDE DEF c
  <2>4. QED
    BY <1>2, <2>2, <2>3
<1>4. ASSUME NEW s \in S, NEW t \in S, key[s] < key[t]
      PROVE  Cardinality(below(s)) < Cardinality(below(t))
  <2>1. below(s) \in SUBSET below(t) /\ s \in below(t) /\ s \notin below(s)
    BY <1>1, <1>4
  <2> HIDE DEF below
  <2>2. Cardinality(below(s)) <= Cardinality(below(t)) /\ Cardinality(below(s)) # Cardinality(below(t))
    BY <1>3, <2>1, FS_Subset
  <2>3. Cardinality(below(s)) \in Int /\ Cardinality(below(t)) \in Int
    BY <1>3
  <2>4. QED
    BY <2>2, <2>3
<1>5. \A s \in S : Cardinality(below(s)) \in Int /\ place[s] = Cardinality(below(s)) + 1
  <2>1. \A s \in S : Cardinality(below(s)) \in 0 .. c - 1
    BY <1>3
  <2> HIDE DEF below, c
  <2>2. QED
    BY <1>2, <2>1
<1>6. place \in Injection(S, 1 .. c)
  <2>1. \A s \in S : place[s] \in 1 .. c /\ place[s] = Cardinality(below(s)) + 1
    <3> SUFFICES ASSUME NEW s \in S
                 PROVE  place[s] \in 1 .. c /\ place[s] = Cardinality(below(s)) + 1
      OBVIOUS
    <3> DEFINE b == Cardinality(below(s))
    <3>1. place[s] = b + 1 /\ b \in 0 .. c - 1
      BY <1>3
    <3> HIDE DEF b, place, c
    <3>2. place[s] \in 1 .. c
      BY <1>2, <3>1
    <3>3. QED
      BY <3>1, <3>2 DEF b
  <2>2. ASSUME NEW s \in S, NEW t \in S, place[s] = place[t]
        PROVE  s = t
    <3> DEFINE b == Cardinality(below(s))
               d == Cardinality(below(t))
    <3> HIDE DEF below, place
    <3>1. b \in Int /\ d \in Int /\ b + 1 = d + 1
      BY <1>5, <2>2
    <3>2. ~(key[s] < key[t]) /\ ~(key[t] < key[s])
      <4>1. /\ key[s] < key[t] => b < d
            /\ key[t] < key[s] => d < b
        BY <1>4
      <4> HIDE DEF b, d
      <4>2. QED
        BY <3>1, <4>1
    <3>3. key[s] = key[t]
      BY <1>1, <3>2
    <3>4. QED
      BY <3>3
  <2> HIDE DEF place, c
  <2>3. place \in [S -> 1 .. c]
    <3>1. place = [s \in S |-> place[s]]
      BY DEF place
    <3>2. QED
      BY <2>1, <3>1
  <2>4. QED
    BY <2>2, <2>3 DEF Injection, IsInjective
<1>7. place \in Surjection(S, 1 .. c)
  <2> HIDE DEF place
  <2>1. IsFiniteSet(1 .. c) /\ Cardinality(1 .. c) = c
    BY <1>2, FS_Interval
  <2>2. QED
    BY <1>6, <2>1, FS_Injection
<1> DEFINE at(i) == CHOOSE s \in S : Cardinality(below(s)) = i - 1
<1>8. list = [i \in 1 .. c |-> at(i)]
  BY DEF Ranks
<1>9. ASSUME NEW s \in S, NEW i \in 1 .. c
      PROVE  Cardinality(below(s)) = i - 1 <=> place[s] = i
  <2> DEFINE b == Cardinality(below(s))
  <2> HIDE DEF below, place
  <2>1. place[s] = b + 1 /\ b \in Int
    BY <1>5
  <2> HIDE DEF b, c
  <2>2. b = i - 1 <=> place[s] = i
    BY <2>1
  <2>3. QED
    BY <2>2 DEF b
<1>10. ASSUME NEW i \in 1 .. c
      PROVE  at(i) \in S /\ place[at(i)] = i
  <2>1. PICK s \in S : place[s] = i
    BY <1>7 DEF Surjection
  <2>2. Cardinality(below(s)) = i - 1
    BY <1>9, <2>1
  <2>3. at(i) \in S /\ Cardinality(below(at(i))) = i - 1
    BY <2>2
  <2> HIDE DEF at, below, place
  <2>4. QED
    BY <1>9, <2>3
<1>11. \A s \in S : place[s] \in 1 .. c /\ at(place[s]) = s
  <2> SUFFICES ASSUME NEW s \in S
               PROVE  place[s] \in 1 .. c /\ at(place[s]) = s
    OBVIOUS
  <2> HIDE DEF at, below, place, c
  <2>1. place[s] \in 1 .. c
    BY <1>6 DEF Injection
  <2>2. at(place[s]) \in S /\ place[at(place[s])] = place[s]
    BY <1>10, <2>1
  <2>3. QED
    BY <1>6, <2>1, <2>2 DEF Injection, IsInjective
<1> HIDE DEF at, below, place, c
<1>12. list \in [1 .. c -> S]
  BY <1>8, <1>10
<1>13. list \in Seq(S) /\ DOMAIN list = 1 .. c
  BY <1>2, <1>12, IsASeq
<1>14. \A i, j \in 1 .. c : at(i) = at(j) => i = j
  BY <1>10
<1>15. QED
  BY <1>8, <1>11, <1>13, <1>14

(***************************************************************************)
(* Recursion and sequences                                                 *)
(***************************************************************************)

\* f starts as base, and each of its values is a step from the one before.
Recurs(f, n, V, base, step) ==
    /\ f \in [0 .. n -> V]
    /\ f[0] = base
    /\ \A i \in 1 .. n : f[i] = step[<<i, f[i - 1]>>]

\* Such a function there is.
LEMMA RecursionExists ==
    ASSUME NEW n \in Nat, NEW V, NEW base \in V, NEW step \in [(1 .. n) \X V -> V]
    PROVE  \E f : Recurs(f, n, V, base, step)
<1> DEFINE Runs(f, m) == /\ f \in [0 .. m -> V]
                         /\ f[0] = base
                         /\ \A i \in 1 .. m : f[i] = step[<<i, f[i - 1]>>]
           Good == {m \in Nat : m <= n => \E f : Runs(f, m)}
<1>1. 0 \in Good
  <2>1. Runs([i \in 0 .. 0 |-> base], 0)
    OBVIOUS
  <2> HIDE DEF Runs
  <2>2. QED
    BY <2>1
<1>2. ASSUME NEW m \in Nat, m \in Good
      PROVE  m + 1 \in Good
  <2> SUFFICES ASSUME m + 1 <= n
               PROVE  \E f : Runs(f, m + 1)
    OBVIOUS
  <2>1. PICK f : Runs(f, m)
    BY <1>2
  <2>2. m \in 0 .. m /\ m + 1 \in 1 .. n
    OBVIOUS
  <2>3. f[m] \in V
    BY <2>1, <2>2
  <2> DEFINE h == [i \in 0 .. m + 1 |-> IF i = m + 1 THEN step[<<m + 1, f[m]>>] ELSE f[i]]
  <2>4. step[<<m + 1, f[m]>>] \in V
    BY <2>2, <2>3
  <2>5. h \in [0 .. m + 1 -> V]
    <3>1. \A i \in 0 .. m + 1 : i # m + 1 => i \in 0 .. m
      OBVIOUS
    <3>2. QED
      BY <2>1, <2>4, <3>1
  <2>6. h[0] = base
    BY <2>1
  <2>7. ASSUME NEW i \in 1 .. m + 1
        PROVE  h[i] = step[<<i, h[i - 1]>>]
    <3>1. CASE i = m + 1
      <4>1. h[m + 1] = step[<<m + 1, f[m]>>] /\ h[m] = f[m]
        OBVIOUS
      <4>2. i - 1 = m
        BY <3>1
      <4> HIDE DEF h
      <4>3. QED
        BY <3>1, <4>1, <4>2
    <3>2. CASE i # m + 1
      <4>1. i \in 1 .. m
        BY <3>2
      <4>2. h[i] = f[i] /\ h[i - 1] = f[i - 1]
        BY <4>1
      <4> HIDE DEF h
      <4>3. QED
        BY <2>1, <4>1, <4>2
    <3>3. QED
      BY <3>1, <3>2
  <2> HIDE DEF h
  <2>8. Runs(h, m + 1)
    BY <2>5, <2>6, <2>7
  <2> HIDE DEF Runs
  <2>9. QED
    BY <2>8
<1> HIDE DEF Good
<1>3. n \in Good
  BY <1>1, <1>2, NumberInduction
<1>4. QED
  BY <1>3 DEF Good, Recurs

\* A sequence that repeats nothing has as many elements as it is long,
LEMMA DistinctSize ==
    ASSUME NEW s, NEW n \in Nat, DOMAIN s = 1 .. n, IsInjective(s)
    PROVE  IsFiniteSet(Range(s)) /\ Cardinality(Range(s)) = n
<1> DEFINE f == [i \in 1 .. n |-> s[i]]
<1>1. f \in Bijection(1 .. n, Range(s))
  <2>1. f \in [1 .. n -> Range(s)]
    BY DEF Range
  <2>2. IsInjective(f) /\ \A t \in Range(s) : \E i \in 1 .. n : f[i] = t
    BY DEF Range, IsInjective
  <2>3. QED
    BY <2>1, <2>2 DEF Bijection, Injection, Surjection
<1> HIDE DEF f
<1>2. ExistsBijection(1 .. n, Range(s))
  BY <1>1 DEF ExistsBijection
<1>3. IsFiniteSet(1 .. n) /\ Cardinality(1 .. n) = n
  BY FS_Interval
<1>4. QED
  BY <1>2, <1>3, FS_Bijection

\* and one that has as many repeats nothing.
LEMMA SizeDistinct ==
    ASSUME NEW s, NEW n \in Nat, DOMAIN s = 1 .. n, Cardinality(Range(s)) = n
    PROVE  IsInjective(s)
<1> DEFINE f == [i \in 1 .. n |-> s[i]]
<1>1. f \in Surjection(1 .. n, Range(s))
  BY DEF Surjection, Range
<1>2. IsFiniteSet(1 .. n) /\ Cardinality(1 .. n) = n
  BY FS_Interval
<1>3. \A i \in 1 .. n : f[i] = s[i]
  OBVIOUS
<1> HIDE DEF f
<1>4. f \in Injection(1 .. n, Range(s))
  BY <1>1, <1>2, FS_Surjection
<1>5. QED
  BY <1>3, <1>4 DEF Injection, IsInjective

\* The numbers of a finite set that is not empty have a largest.
LEMMA MaxOfFinite ==
    ASSUME NEW S, IsFiniteSet(S), S \subseteq Nat, S # {}
    PROVE  Max(S) \in S /\ \A x \in S : x <= Max(S)
<1> DEFINE Good == {T \in SUBSET S : \E n \in Nat : \A x \in T : x <= n}
<1>1. {} \in Good
  OBVIOUS
<1>2. ASSUME NEW T \in SUBSET S, NEW x \in S \ T, T \in Good
      PROVE  T \cup {x} \in Good
  <2>1. PICK n \in Nat : \A y \in T : y <= n
    BY <1>2
  <2>2. x \in Nat /\ \A y \in T : y \in Nat
    OBVIOUS
  <2>3. n + x \in Nat /\ \A y \in T \cup {x} : y <= n + x
    BY <2>1, <2>2
  <2>4. QED
    BY <2>3
<1> HIDE DEF Good
<1>3. S \in Good
  BY <1>1, <1>2, SetInduction
<1>4. PICK n \in Nat : \A x \in S : x <= n
  BY <1>3 DEF Good
<1>5. S \subseteq 0 .. n
  BY <1>4
<1>6. QED
  BY <1>5, MaxOfNaturals

\* Giving each element a name of its own changes nothing about how many there are.
LEMMA NamedSize ==
    ASSUME NEW S, IsFiniteSet(S), NEW name, \A x, y \in S : name[x] = name[y] => x = y,
           NEW names, \A y : y \in names <=> \E x \in S : y = name[x]
    PROVE  IsFiniteSet(names) /\ Cardinality(names) = Cardinality(S)
<1> DEFINE f == [x \in S |-> name[x]]
<1>1. f \in Bijection(S, names)
  BY DEF Bijection, Injection, Surjection, IsInjective
<1> HIDE DEF f
<1>2. ExistsBijection(S, names)
  BY <1>1 DEF ExistsBijection
<1>3. QED
  BY <1>2, FS_Bijection

(***************************************************************************)
(* Filtering and flattening                                                *)
(***************************************************************************)

LEMMA EmptyFacts == ToSet(<< >>) = {} /\ IsInjective(<< >>)
BY DEF ToSet, IsInjective

LEMMA AppendFacts ==
    ASSUME NEW A, NEW s \in Seq(A), NEW x \in A
    PROVE  /\ ToSet(Append(s, x)) = ToSet(s) \cup {x}
           /\ IsInjective(s) /\ x \notin ToSet(s) => IsInjective(Append(s, x))
<1> DEFINE n == Len(s)
           t == Append(s, x)
<1>1. n \in Nat /\ DOMAIN s = 1 .. n
  BY LenProperties
<1>2. DOMAIN t = 1 .. n + 1 /\ t[n + 1] = x /\ \A i \in 1 .. n : t[i] = s[i]
  BY <1>1
<1> HIDE DEF n, t
<1>3. ToSet(t) = ToSet(s) \cup {x}
  <2>1. \A y : y \in ToSet(t) <=> \E i \in 1 .. n + 1 : y = t[i]
    BY <1>2 DEF ToSet
  <2>2. \A y : y \in ToSet(s) <=> \E i \in 1 .. n : y = s[i]
    BY <1>1 DEF ToSet
  <2>3. \A i : i \in 1 .. n + 1 <=> i \in 1 .. n \/ i = n + 1
    BY <1>1
  <2>4. QED
    BY <1>2, <2>1, <2>2, <2>3
<1>4. ASSUME IsInjective(s), x \notin ToSet(s)
      PROVE  IsInjective(t)
  <2> SUFFICES ASSUME NEW i \in 1 .. n + 1, NEW j \in 1 .. n + 1, t[i] = t[j]
               PROVE  i = j
    BY <1>2 DEF IsInjective
  <2>1. i \in 1 .. n => s[i] \in ToSet(s)
    BY <1>1 DEF ToSet
  <2>2. j \in 1 .. n => s[j] \in ToSet(s)
    BY <1>1 DEF ToSet
  <2>3. CASE i \in 1 .. n /\ j \in 1 .. n
    BY <1>1, <1>2, <1>4, <2>3 DEF IsInjective
  <2>4. CASE ~ (i \in 1 .. n /\ j \in 1 .. n)
    <3>1. (i \in 1 .. n \/ i = n + 1) /\ (j \in 1 .. n \/ j = n + 1)
      BY <1>1
    <3>2. QED
      BY <1>2, <1>4, <2>1, <2>2, <2>4, <3>1
  <2>5. QED
    BY <2>3, <2>4
<1>5. QED
  BY <1>3, <1>4 DEF t

LEMMA ConcatFacts ==
    ASSUME NEW A, NEW s \in Seq(A), NEW u \in Seq(A)
    PROVE  /\ ToSet(s \o u) = ToSet(s) \cup ToSet(u)
           /\ IsInjective(s) /\ IsInjective(u) /\ ToSet(s) \cap ToSet(u) = {}
                => IsInjective(s \o u)
<1> DEFINE m == Len(s)
           n == Len(u)
           t == s \o u
<1>1. m \in Nat /\ n \in Nat /\ DOMAIN s = 1 .. m /\ DOMAIN u = 1 .. n
  BY LenProperties
<1>2. /\ DOMAIN t = 1 .. m + n
      /\ \A i \in 1 .. m : t[i] = s[i]
      /\ \A i \in m + 1 .. m + n : t[i] = u[i - m]
  BY <1>1, ConcatProperties, LenProperties
<1> HIDE DEF m, n, t
<1>3. /\ \A i \in 1 .. m + n : i \in 1 .. m \/ (i \in m + 1 .. m + n /\ i - m \in 1 .. n)
      /\ \A i \in 1 .. m : i \in 1 .. m + n
      /\ \A i \in 1 .. n : m + i \in 1 .. m + n /\ m + i \in m + 1 .. m + n /\ (m + i) - m = i
  BY <1>1
<1>4. \A y : y \in ToSet(t) <=> y \in ToSet(s) \/ y \in ToSet(u)
  <2>1. /\ \A y : y \in ToSet(t) <=> \E i \in 1 .. m + n : y = t[i]
        /\ \A y : y \in ToSet(s) <=> \E i \in 1 .. m : y = s[i]
        /\ \A y : y \in ToSet(u) <=> \E i \in 1 .. n : y = u[i]
    BY <1>1, <1>2 DEF ToSet
  <2>2. \A i \in 1 .. n : t[m + i] = u[i]
    BY <1>2, <1>3
  <2>3. QED
    BY <1>2, <1>3, <2>1, <2>2
<1>5. ASSUME IsInjective(s), IsInjective(u), ToSet(s) \cap ToSet(u) = {}
      PROVE  IsInjective(t)
  <2> SUFFICES ASSUME NEW i \in 1 .. m + n, NEW j \in 1 .. m + n, t[i] = t[j]
               PROVE  i = j
    BY <1>2 DEF IsInjective
  <2>1. \A k \in 1 .. m : s[k] \in ToSet(s)
    BY <1>1 DEF ToSet
  <2>2. \A k \in 1 .. n : u[k] \in ToSet(u)
    BY <1>1 DEF ToSet
  <2>3. CASE i \in 1 .. m /\ j \in 1 .. m
    BY <1>1, <1>2, <1>5, <2>3 DEF IsInjective
  <2>4. CASE i - m \in 1 .. n /\ j - m \in 1 .. n
    <3>1. i \in m + 1 .. m + n /\ j \in m + 1 .. m + n
      BY <1>1, <2>4
    <3>2. u[i - m] = u[j - m]
      BY <1>2, <3>1
    <3>3. i - m = j - m
      BY <1>1, <1>5, <2>4, <3>2 DEF IsInjective
    <3>4. QED
      BY <1>1, <3>3
  <2>5. CASE i \in 1 .. m /\ j - m \in 1 .. n
    <3>1. j \in m + 1 .. m + n
      BY <1>1, <2>5
    <3>2. t[i] \in ToSet(s) /\ t[j] \in ToSet(u)
      BY <1>2, <2>1, <2>2, <2>5, <3>1
    <3>3. QED
      BY <1>5, <3>2
  <2>6. CASE i - m \in 1 .. n /\ j \in 1 .. m
    <3>1. i \in m + 1 .. m + n
      BY <1>1, <2>6
    <3>2. t[j] \in ToSet(s) /\ t[i] \in ToSet(u)
      BY <1>2, <2>1, <2>2, <2>6, <3>1
    <3>3. QED
      BY <1>5, <3>2
  <2>7. QED
    BY <1>3, <2>3, <2>4, <2>5, <2>6
<1>6. QED
  BY <1>4, <1>5 DEF t

\* Keeping looks at one element after another.
KeepingRun(kept, A, seq, S) ==
    /\ kept \in [0 .. Len(seq) -> Seq(A)]
    /\ kept[0] = << >>
    /\ \A i \in 1 .. Len(seq) :
          kept[i] = IF seq[i] \in S THEN Append(kept[i - 1], seq[i]) ELSE kept[i - 1]
    /\ Keeping(seq, S) = kept[Len(seq)]

LEMMA KeepingRuns ==
    ASSUME NEW A, NEW seq \in Seq(A), NEW S
    PROVE  \E kept : KeepingRun(kept, A, seq, S)
<1> DEFINE n == Len(seq)
           step == [p \in (1 .. n) \X Seq(A) |->
                      IF seq[p[1]] \in S THEN Append(p[2], seq[p[1]]) ELSE p[2]]
           Runs(kept) == kept = [i \in 0 .. n |->
              IF i = 0 THEN << >>
              ELSE IF seq[i] \in S THEN Append(kept[i - 1], seq[i]) ELSE kept[i - 1]]
           chosen == CHOOSE kept : Runs(kept)
<1>1. n \in Nat /\ \A i \in 1 .. n : seq[i] \in A
  BY LenProperties, ElementOfSeq
<1>2. step \in [(1 .. n) \X Seq(A) -> Seq(A)] /\ << >> \in Seq(A)
  BY <1>1
<1>3. \A i \in 1 .. n, v \in Seq(A) :
         step[<<i, v>>] = IF seq[i] \in S THEN Append(v, seq[i]) ELSE v
  OBVIOUS
<1> HIDE DEF step, n
<1>4. PICK f \in [0 .. n -> Seq(A)] : /\ f[0] = << >>
                                      /\ \A i \in 1 .. n : f[i] = step[<<i, f[i - 1]>>]
  <2> DEFINE V == Seq(A)
             none == << >>
  <2>1. step \in [(1 .. n) \X V -> V] /\ none \in V
    BY <1>2
  <2> HIDE DEF V, none
  <2>2. PICK f : Recurs(f, n, V, none, step)
    BY <1>1, <2>1, RecursionExists
  <2>3. QED
    BY <2>2 DEF V, none, Recurs
<1>5. \A i \in 0 .. n : i # 0 => i \in 1 .. n /\ i - 1 \in 0 .. n
  BY <1>1
<1>6. \A i \in 1 .. n : f[i] = IF seq[i] \in S THEN Append(f[i - 1], seq[i]) ELSE f[i - 1]
  <2> SUFFICES ASSUME NEW i \in 1 .. n
               PROVE  f[i] = IF seq[i] \in S THEN Append(f[i - 1], seq[i]) ELSE f[i - 1]
    OBVIOUS
  <2>1. i - 1 \in 0 .. n
    BY <1>1
  <2>2. f[i - 1] \in Seq(A)
    BY <1>4, <2>1
  <2>3. QED
    BY <1>3, <1>4, <2>2
<1>7. Runs(f)
  BY <1>4, <1>5, <1>6
<1>8. Runs(chosen) /\ Keeping(seq, S) = chosen[n]
  BY <1>7 DEF Keeping, n
<1> HIDE DEF chosen
<1>9. chosen = f
  <2> DEFINE Same == {i \in Nat : i <= n => chosen[i] = f[i]}
  <2>1. /\ \A i \in 0 .. n : chosen[i] = IF i = 0 THEN << >>
              ELSE IF seq[i] \in S THEN Append(chosen[i - 1], seq[i]) ELSE chosen[i - 1]
        /\ DOMAIN chosen = 0 .. n
    BY <1>8
  <2>2. 0 \in Same
    BY <1>1, <1>4, <2>1
  <2>3. ASSUME NEW i \in Nat, i \in Same
        PROVE  i + 1 \in Same
    <3> SUFFICES ASSUME i + 1 <= n
                 PROVE  chosen[i + 1] = f[i + 1]
      OBVIOUS
    <3>1. i + 1 \in 1 .. n /\ i + 1 \in 0 .. n /\ (i + 1) - 1 = i /\ i + 1 # 0
      BY <1>1
    <3>2. chosen[i] = f[i]
      BY <1>1, <2>3
    <3>3. QED
      BY <1>6, <2>1, <3>1, <3>2
  <2> HIDE DEF Same
  <2>4. Nat \subseteq Same
    BY <2>2, <2>3, NumberInduction
  <2>5. \A i \in 0 .. n : chosen[i] = f[i]
    BY <1>1, <2>4 DEF Same
  <2>6. chosen = [i \in 0 .. n |-> chosen[i]] /\ f = [i \in 0 .. n |-> f[i]]
    BY <1>8
  <2>7. QED
    BY <2>5, <2>6
<1>10. Keeping(seq, S) = f[n]
  BY <1>8, <1>9
<1>11. n = Len(seq)
  BY DEF n
<1>12. KeepingRun(f, A, seq, S)
  BY <1>4, <1>6, <1>10, <1>11 DEF KeepingRun
<1>13. QED
  BY <1>12

\* Of a sequence that repeats nothing it keeps the elements asked for, each once.
LEMMA KeepingKeeps ==
    ASSUME NEW A, NEW seq \in Seq(A), IsInjective(seq), NEW S
    PROVE  /\ Keeping(seq, S) \in Seq(A)
           /\ IsInjective(Keeping(seq, S))
           /\ ToSet(Keeping(seq, S)) = ToSet(seq) \cap S
<1> DEFINE n == Len(seq)
           First(i) == {seq[j] : j \in 1 .. i}
<1>1. PICK kept \in [0 .. n -> Seq(A)] :
         /\ kept[0] = << >>
         /\ \A i \in 1 .. n :
               kept[i] = IF seq[i] \in S THEN Append(kept[i - 1], seq[i]) ELSE kept[i - 1]
         /\ Keeping(seq, S) = kept[n]
  <2>1. PICK kept : KeepingRun(kept, A, seq, S)
    BY KeepingRuns
  <2>2. QED
    BY <2>1 DEF KeepingRun
<1>2. n \in Nat /\ DOMAIN seq = 1 .. n /\ \A i \in 1 .. n : seq[i] \in A
  BY LenProperties, ElementOfSeq
<1> HIDE DEF n
<1> DEFINE Good == {i \in Nat : i <= n => /\ IsInjective(kept[i])
                                         /\ ToSet(kept[i]) = First(i) \cap S}
<1>3. 0 \in Good
  <2>1. First(0) = {}
    OBVIOUS
  <2>2. QED
    BY <1>1, <2>1, EmptyFacts
<1>4. ASSUME NEW i \in Nat, i \in Good
      PROVE  i + 1 \in Good
  <2> SUFFICES ASSUME i + 1 <= n
               PROVE  /\ IsInjective(kept[i + 1])
                      /\ ToSet(kept[i + 1]) = First(i + 1) \cap S
    OBVIOUS
  <2>1. i + 1 \in 1 .. n /\ i \in 0 .. n /\ (i + 1) - 1 = i /\ i <= n
    BY <1>2
  <2>2. IsInjective(kept[i]) /\ ToSet(kept[i]) = First(i) \cap S
    BY <1>4, <2>1
  <2>3. kept[i + 1] = IF seq[i + 1] \in S THEN Append(kept[i], seq[i + 1]) ELSE kept[i]
    BY <1>1, <2>1
  <2>4. kept[i] \in Seq(A) /\ seq[i + 1] \in A
    BY <1>2, <2>1
  <2>5. First(i + 1) = First(i) \cup {seq[i + 1]}
    <3>1. 1 .. i + 1 = (1 .. i) \cup {i + 1}
      OBVIOUS
    <3>2. QED
      BY <3>1
  <2>6. seq[i + 1] \notin First(i)
    <3>1. \A j \in 1 .. i : j \in 1 .. n /\ j # i + 1
      BY <1>2, <2>1
    <3>2. QED
      BY <1>2, <2>1, <3>1 DEF IsInjective
  <2> HIDE DEF First
  <2>7. CASE seq[i + 1] \in S
    BY <2>2, <2>3, <2>4, <2>5, <2>6, <2>7, AppendFacts
  <2>8. CASE seq[i + 1] \notin S
    BY <2>2, <2>3, <2>5, <2>8
  <2>9. QED
    BY <2>7, <2>8
<1>5. n \in Good
  <2> HIDE DEF Good
  <2>1. QED
    BY <1>2, <1>3, <1>4, NumberInduction
<1>6. First(n) = ToSet(seq)
  BY <1>2 DEF ToSet
<1>7. n \in 0 .. n
  BY <1>2
<1>8. QED
  BY <1>1, <1>2, <1>5, <1>6, <1>7

\* FlattenSeq puts one sequence after another.
FlattenRun(flat, A, ss) ==
    /\ flat \in [1 .. Len(ss) -> Seq(A)]
    /\ \A i \in 1 .. Len(ss) : flat[i] = IF i = 1 THEN ss[i] ELSE flat[i - 1] \o ss[i]
    /\ FlattenSeq(ss) = flat[Len(ss)]

LEMMA FlattenRuns ==
    ASSUME NEW A, NEW ss \in Seq(Seq(A)), Len(ss) # 0
    PROVE  \E flat : FlattenRun(flat, A, ss)
<1> DEFINE n == Len(ss)
           step == [p \in (1 .. n) \X Seq(A) |-> p[2] \o ss[p[1]]]
           Runs(flat) == flat = [i \in 1 .. n |-> IF i = 1 THEN ss[i] ELSE flat[i - 1] \o ss[i]]
           chosen == CHOOSE flat : Runs(flat)
<1>1. n \in Nat /\ n # 0 /\ \A i \in 1 .. n : ss[i] \in Seq(A)
  BY LenProperties, ElementOfSeq
<1>2. step \in [(1 .. n) \X Seq(A) -> Seq(A)] /\ << >> \in Seq(A)
  BY <1>1
<1>3. \A i \in 1 .. n, v \in Seq(A) : step[<<i, v>>] = v \o ss[i]
  OBVIOUS
<1>4. FlattenSeq(ss) = chosen[n]
  BY DEF FlattenSeq
<1>5. n = Len(ss)
  OBVIOUS
<1> HIDE DEF step, n
<1>6. PICK f \in [0 .. n -> Seq(A)] : /\ f[0] = << >>
                                      /\ \A i \in 1 .. n : f[i] = step[<<i, f[i - 1]>>]
  <2> DEFINE V == Seq(A)
             none == << >>
  <2>1. step \in [(1 .. n) \X V -> V] /\ none \in V
    BY <1>2
  <2> HIDE DEF V, none
  <2>2. PICK f : Recurs(f, n, V, none, step)
    BY <1>1, <2>1, RecursionExists
  <2>3. QED
    BY <2>2 DEF V, none, Recurs
<1> DEFINE flat == [i \in 1 .. n |-> f[i]]
<1>7. ASSUME NEW i \in 1 .. n
      PROVE  f[i] = IF i = 1 THEN ss[i] ELSE f[i - 1] \o ss[i]
  <2>1. i - 1 \in 0 .. n
    BY <1>1
  <2>2. f[i - 1] \in Seq(A)
    BY <1>6, <2>1
  <2>3. f[i] = f[i - 1] \o ss[i]
    BY <1>3, <1>6, <2>2
  <2>4. CASE i = 1
    <3>1. f[i - 1] = << >>
      BY <1>6, <2>4
    <3>2. ss[i] \in Seq(A)
      BY <1>1
    <3>3. << >> \o ss[i] = ss[i]
      BY <3>2, ConcatEmptySeq
    <3>4. QED
      BY <2>3, <2>4, <3>1, <3>3
  <2>5. QED
    BY <2>3, <2>4
<1>8. Runs(flat)
  <2>1. \A i \in 1 .. n : i # 1 => i - 1 \in 1 .. n
    BY <1>1
  <2>2. \A i \in 1 .. n : f[i] = IF i = 1 THEN ss[i] ELSE flat[i - 1] \o ss[i]
    BY <1>7, <2>1
  <2>3. QED
    BY <2>2
<1>9. Runs(chosen)
  <2> HIDE DEF flat
  <2>1. QED
    BY <1>8
<1> HIDE DEF chosen, flat
<1>10. /\ \A i \in 1 .. n : chosen[i] = IF i = 1 THEN ss[i] ELSE chosen[i - 1] \o ss[i]
       /\ chosen = [i \in 1 .. n |-> chosen[i]]
  BY <1>9
<1>11. \A i \in 1 .. n : chosen[i] \in Seq(A)
  <2> DEFINE Good == {i \in Nat : i \in 1 .. n => chosen[i] \in Seq(A)}
  <2>1. 0 \in Good
    OBVIOUS
  <2>2. ASSUME NEW i \in Nat, i \in Good
        PROVE  i + 1 \in Good
    <3> SUFFICES ASSUME i + 1 \in 1 .. n
                 PROVE  chosen[i + 1] \in Seq(A)
      OBVIOUS
    <3> DEFINE one == chosen[i]
               two == ss[i + 1]
    <3>1. two \in Seq(A)
      BY <1>1
    <3>2. CASE i = 0
      <4>1. i + 1 = 1 /\ 1 \in 1 .. n
        BY <1>1, <3>2
      <4>2. chosen[1] = ss[1]
        BY <1>10, <4>1
      <4>3. ss[1] \in Seq(A)
        BY <1>1, <4>1
      <4>4. QED
        BY <4>1, <4>2, <4>3
    <3>3. CASE i # 0
      <4>1. i \in 1 .. n /\ i + 1 # 1 /\ (i + 1) - 1 = i
        BY <1>1, <3>3
      <4>2. one \in Seq(A)
        BY <2>2, <4>1
      <4>3. chosen[i + 1] = one \o two
        BY <1>10, <4>1
      <4> HIDE DEF one, two
      <4>4. one \o two \in Seq(A)
        BY <3>1, <4>2, ConcatProperties
      <4>5. QED
        BY <4>3, <4>4
    <3>4. QED
      BY <3>2, <3>3
  <2> HIDE DEF Good
  <2>3. Nat \subseteq Good
    BY <2>1, <2>2, NumberInduction
  <2>4. \A i \in 1 .. n : i \in Good
    BY <1>1, <2>3
  <2>5. QED
    BY <2>4 DEF Good
<1>12. FlattenRun(chosen, A, ss)
  BY <1>4, <1>5, <1>10, <1>11 DEF FlattenRun
<1>13. QED
  BY <1>12

\* What is in the whole is in one of the parts, and the other way; parts that repeat nothing,
\* and share nothing, make a whole that repeats nothing.
LEMMA FlattenFacts ==
    ASSUME NEW A, NEW ss \in Seq(Seq(A))
    PROVE  /\ FlattenSeq(ss) \in Seq(A)
           /\ \A y : y \in ToSet(FlattenSeq(ss)) <=> \E i \in DOMAIN ss : y \in ToSet(ss[i])
           /\ /\ \A i \in DOMAIN ss : IsInjective(ss[i])
              /\ \A i, j \in DOMAIN ss : i # j => ToSet(ss[i]) \cap ToSet(ss[j]) = {}
              => IsInjective(FlattenSeq(ss))
<1> DEFINE n == Len(ss)
           Apart == /\ \A i \in 1 .. n : IsInjective(ss[i])
                    /\ \A i, j \in 1 .. n : i # j => ToSet(ss[i]) \cap ToSet(ss[j]) = {}
<1>1. n \in Nat /\ DOMAIN ss = 1 .. n /\ \A i \in 1 .. n : ss[i] \in Seq(A)
  BY LenProperties, ElementOfSeq
<1>2. CASE n = 0
  <2>1. ss = << >> /\ FlattenSeq(ss) = ss /\ DOMAIN ss = {}
    BY <1>1, <1>2, EmptySeq DEF FlattenSeq
  <2>2. << >> \in Seq(A)
    OBVIOUS
  <2> HIDE DEF n
  <2>3. FlattenSeq(ss) \in Seq(A) /\ ToSet(FlattenSeq(ss)) = {} /\ IsInjective(FlattenSeq(ss))
    BY <2>1, <2>2, EmptyFacts
  <2>4. QED
    BY <2>1, <2>3
<1>3. CASE n # 0
  <2>1. PICK flat : FlattenRun(flat, A, ss)
    BY <1>3, FlattenRuns
  <2>2. /\ flat \in [1 .. n -> Seq(A)]
        /\ \A i \in 1 .. n : flat[i] = IF i = 1 THEN ss[i] ELSE flat[i - 1] \o ss[i]
        /\ FlattenSeq(ss) = flat[n]
    BY <2>1 DEF FlattenRun
  <2> HIDE DEF n, Apart
  <2> DEFINE Parts(i) == {y \in UNION {ToSet(ss[j]) : j \in 1 .. n} :
                            \E j \in 1 .. i : y \in ToSet(ss[j])}
             Holds(i) == /\ ToSet(flat[i]) = Parts(i)
                         /\ Apart => IsInjective(flat[i])
             Good == {i \in Nat : i \in 1 .. n => Holds(i)}
  <2>3. 0 \in Good
    <3> HIDE DEF Holds
    <3>1. QED
      OBVIOUS
  <2>4. ASSUME NEW i \in Nat, i \in Good
        PROVE  i + 1 \in Good
    <3> DEFINE k == i + 1
    <3> SUFFICES ASSUME k \in 1 .. n
                 PROVE  Holds(k)
      <4> HIDE DEF Holds
      <4>1. QED
        OBVIOUS
    <3> DEFINE old == flat[i]
               new == ss[k]
    <3>1. new \in Seq(A) /\ (Apart => IsInjective(new))
      BY <1>1 DEF Apart
    <3>2. CASE i = 0
      <4>1. k = 1 /\ flat[1] = ss[1] /\ 1 \in 1 .. n
        BY <1>1, <2>2, <3>2
      <4>2. \A j : j \in 1 .. 1 <=> j = 1
        OBVIOUS
      <4>3. ToSet(ss[1]) = Parts(1)
        BY <4>1, <4>2
      <4> HIDE DEF Parts
      <4>4. QED
        BY <3>1, <4>1, <4>3
    <3>3. CASE i # 0
      <4>1. i \in 1 .. n /\ k # 1 /\ k - 1 = i
        BY <1>1, <3>3
      <4>2. flat[k] = old \o new /\ old \in Seq(A)
        BY <2>2, <4>1
      <4>3. Holds(i)
        <5> HIDE DEF Holds
        <5>1. QED
          BY <2>4, <4>1
      <4>4. ToSet(old) = Parts(i) /\ (Apart => IsInjective(old))
        <5> HIDE DEF Parts
        <5>1. QED
          BY <4>3
      <4>5. \A j : j \in 1 .. k <=> j \in 1 .. i \/ j = k
        OBVIOUS
      <4>6. \A j \in 1 .. i : j # k /\ j \in 1 .. n
        BY <1>1
      <4> HIDE DEF k
      <4>7. Parts(k) = Parts(i) \cup ToSet(new)
        BY <4>5
      <4>8. ASSUME Apart
            PROVE  ToSet(old) \cap ToSet(new) = {}
        <5>1. \A j \in 1 .. i : ToSet(ss[j]) \cap ToSet(ss[k]) = {}
          BY <4>6, <4>8 DEF Apart
        <5>2. QED
          BY <4>4, <5>1
      <4> HIDE DEF old, new, Parts
      <4>9. QED
        BY <3>1, <4>2, <4>4, <4>7, <4>8, ConcatFacts
    <3>4. QED
      BY <3>2, <3>3
  <2>5. n \in Good
    <3> HIDE DEF Good
    <3>1. QED
      BY <1>1, <2>3, <2>4, NumberInduction
  <2>6. n \in 1 .. n
    BY <1>1, <1>3
  <2>7. ToSet(flat[n]) = Parts(n) /\ (Apart => IsInjective(flat[n]))
    <3> HIDE DEF Parts
    <3>1. QED
      BY <1>1, <2>5, <2>6
  <2>8. FlattenSeq(ss) \in Seq(A)
    BY <2>2, <2>6
  <2>9. \A y : y \in Parts(n) <=> \E i \in 1 .. n : y \in ToSet(ss[i])
    OBVIOUS
  <2> HIDE DEF Parts
  <2>10. \A y : y \in ToSet(FlattenSeq(ss)) <=> \E i \in DOMAIN ss : y \in ToSet(ss[i])
    BY <1>1, <2>2, <2>7, <2>9
  <2>11. Apart => IsInjective(FlattenSeq(ss))
    BY <2>2, <2>7
  <2>12. QED
    BY <1>1, <2>8, <2>10, <2>11 DEF Apart
<1>4. QED
  BY <1>2, <1>3

\* What holds of the empty sequence, and of a sequence with one element more than one it
\* holds of, holds of every sequence.
LEMMA AppendInduction ==
    ASSUME NEW A, NEW Good, << >> \in Good,
           \A s \in Seq(A), x \in A : s \in Good => Append(s, x) \in Good
    PROVE  Seq(A) \subseteq Good
<1> DEFINE Sized == {n \in Nat : \A s \in Seq(A) : Len(s) = n => s \in Good}
<1>1. 0 \in Sized
  <2>1. \A s \in Seq(A) : Len(s) = 0 => s = << >>
    BY EmptySeq
  <2>2. QED
    BY <2>1
<1>2. ASSUME NEW n \in Nat, n \in Sized
      PROVE  n + 1 \in Sized
  <2> SUFFICES ASSUME NEW s \in Seq(A), Len(s) = n + 1
               PROVE  s \in Good
    OBVIOUS
  <2>1. s # << >>
    BY EmptySeq
  <2>2. PICK r \in Seq(A), x \in A : s = Append(r, x)
    BY <2>1, SequenceEmptyOrAppend
  <2>3. Len(s) = Len(r) + 1 /\ Len(r) \in Nat
    BY <2>2, AppendProperties, LenProperties
  <2>4. Len(r) = n
    BY <2>3
  <2>5. r \in Good
    BY <1>2, <2>4
  <2>6. QED
    BY <2>2, <2>5
<1> HIDE DEF Sized
<1>3. Nat \subseteq Sized
  BY <1>1, <1>2, NumberInduction
<1>4. ASSUME NEW s \in Seq(A)
      PROVE  s \in Good
  <2>1. Len(s) \in Sized
    BY <1>3, LenProperties
  <2>2. QED
    BY <2>1 DEF Sized
<1>5. QED
  BY <1>4

LEMMA RangeAppends ==
    ASSUME NEW A, NEW s \in Seq(A), NEW x \in A
    PROVE  Range(Append(s, x)) = Range(s) \cup {x}
BY AppendFacts DEF ToSet, Range

\* Keeping, one element at a time.
LEMMA KeepingType ==
    ASSUME NEW A, NEW s \in Seq(A), NEW S
    PROVE  Keeping(s, S) \in Seq(A)
<1>1. PICK k : KeepingRun(k, A, s, S)
  BY KeepingRuns
<1>2. Len(s) \in 0 .. Len(s)
  BY LenProperties
<1>3. QED
  BY <1>1, <1>2 DEF KeepingRun

LEMMA KeepingAppends ==
    ASSUME NEW A, NEW s \in Seq(A), NEW x \in A, NEW S
    PROVE  Keeping(Append(s, x), S) =
              IF x \in S THEN Append(Keeping(s, S), x) ELSE Keeping(s, S)
<1> DEFINE n == Len(s)
           t == Append(s, x)
<1>1. /\ n \in Nat /\ t \in Seq(A) /\ Len(t) = n + 1
      /\ \A i \in 1 .. n : t[i] = s[i]
      /\ t[n + 1] = x
  BY LenProperties, AppendProperties
<1>2. PICK k \in [0 .. n -> Seq(A)] :
         /\ k[0] = << >>
         /\ \A i \in 1 .. n : k[i] = IF s[i] \in S THEN Append(k[i - 1], s[i]) ELSE k[i - 1]
         /\ Keeping(s, S) = k[n]
  <2>1. PICK k : KeepingRun(k, A, s, S)
    BY KeepingRuns
  <2>2. QED
    BY <2>1 DEF KeepingRun
<1>3. PICK m \in [0 .. n + 1 -> Seq(A)] :
         /\ m[0] = << >>
         /\ \A i \in 1 .. n + 1 : m[i] = IF t[i] \in S THEN Append(m[i - 1], t[i]) ELSE m[i - 1]
         /\ Keeping(t, S) = m[n + 1]
  <2>1. PICK m : KeepingRun(m, A, t, S)
    BY <1>1, KeepingRuns
  <2> HIDE DEF n, t
  <2>2. QED
    BY <1>1, <2>1 DEF KeepingRun
<1> HIDE DEF n, t
<1> DEFINE Good == {i \in Nat : i <= n => m[i] = k[i]}
<1>4. 0 \in Good
  BY <1>2, <1>3
<1>5. ASSUME NEW i \in Nat, i \in Good
      PROVE  i + 1 \in Good
  <2> SUFFICES ASSUME i + 1 <= n
               PROVE  m[i + 1] = k[i + 1]
    OBVIOUS
  <2>1. i + 1 \in 1 .. n /\ i + 1 \in 1 .. n + 1 /\ (i + 1) - 1 = i /\ i <= n
    BY <1>1
  <2>2. m[i] = k[i]
    BY <1>5, <2>1
  <2>3. QED
    BY ZenonT(30), <1>1, <1>2, <1>3, <2>1, <2>2
<1> HIDE DEF Good
<1>6. n \in Good
  BY <1>1, <1>4, <1>5, NumberInduction
<1>7. m[n] = k[n]
  BY <1>1, <1>6 DEF Good
<1>8. n + 1 \in 1 .. n + 1 /\ (n + 1) - 1 = n /\ n \in 0 .. n
  BY <1>1
<1>9. m[n + 1] = IF x \in S THEN Append(k[n], x) ELSE k[n]
  BY <1>1, <1>3, <1>7, <1>8
<1>10. QED
  BY <1>2, <1>3, <1>8, <1>9 DEF t

LEMMA KeepingNone == ASSUME NEW S PROVE Keeping(<< >>, S) = << >>
<1>1. << >> \in Seq({})
  OBVIOUS
<1>2. PICK k : KeepingRun(k, {}, << >>, S)
  BY <1>1, KeepingRuns
<1>3. Len(<< >>) = 0
  OBVIOUS
<1>4. QED
  BY <1>2, <1>3 DEF KeepingRun

\* FlattenSeq, one sequence at a time.
LEMMA FlattenNone == FlattenSeq(<< >>) = << >>
BY DEF FlattenSeq

LEMMA FlattenAppends ==
    ASSUME NEW A, NEW ss \in Seq(Seq(A)), NEW s \in Seq(A)
    PROVE  FlattenSeq(Append(ss, s)) = FlattenSeq(ss) \o s
<1> DEFINE n == Len(ss)
           tt == Append(ss, s)
<1>1. /\ n \in Nat /\ tt \in Seq(Seq(A)) /\ Len(tt) = n + 1
      /\ \A i \in 1 .. n : tt[i] = ss[i]
      /\ tt[n + 1] = s
  BY LenProperties, AppendProperties
<1>2. FlattenSeq(ss) \in Seq(A)
  BY FlattenFacts
<1>3. PICK g \in [1 .. n + 1 -> Seq(A)] :
         /\ \A i \in 1 .. n + 1 : g[i] = IF i = 1 THEN tt[i] ELSE g[i - 1] \o tt[i]
         /\ FlattenSeq(tt) = g[n + 1]
  <2>1. Len(tt) # 0
    BY <1>1
  <2>2. PICK g : FlattenRun(g, A, tt)
    BY <1>1, <2>1, FlattenRuns
  <2> HIDE DEF n, tt
  <2>3. QED
    BY <1>1, <2>2 DEF FlattenRun
<1>4. CASE n = 0
  <2>1. ss = << >>
    BY <1>4, EmptySeq
  <2>2. FlattenSeq(ss) = << >>
    BY <2>1, FlattenNone
  <2> HIDE DEF n, tt
  <2>3. 1 \in 1 .. n + 1 /\ n + 1 = 1
    BY <1>4
  <2>4. g[1] = tt[1] /\ tt[1] = s
    BY <1>1, <1>3, <2>3
  <2>5. FlattenSeq(tt) = s
    BY <1>3, <2>3, <2>4
  <2>6. << >> \o s = s
    BY ConcatEmptySeq
  <2>7. QED
    BY <1>2, <2>2, <2>5, <2>6 DEF tt
<1>5. CASE n # 0
  <2>1. PICK f \in [1 .. n -> Seq(A)] :
           /\ \A i \in 1 .. n : f[i] = IF i = 1 THEN ss[i] ELSE f[i - 1] \o ss[i]
           /\ FlattenSeq(ss) = f[n]
    <3>1. PICK f : FlattenRun(f, A, ss)
      BY <1>5, FlattenRuns
    <3>2. QED
      BY <3>1 DEF FlattenRun
  <2> HIDE DEF n, tt
  <2> DEFINE Good == {i \in Nat : i \in 1 .. n => g[i] = f[i]}
  <2>2. 0 \in Good
    OBVIOUS
  <2>3. ASSUME NEW i \in Nat, i \in Good
        PROVE  i + 1 \in Good
    <3> DEFINE k == i + 1
    <3> SUFFICES ASSUME k \in 1 .. n
                 PROVE  g[k] = f[k]
      OBVIOUS
    <3>1. k \in 1 .. n + 1 /\ k - 1 = i /\ tt[k] = ss[k]
      BY <1>1
    <3>2. CASE i = 0
      <4>1. k = 1
        BY <3>2
      <4> HIDE DEF k
      <4>2. QED
        BY <1>3, <2>1, <3>1, <4>1
    <3>3. CASE i # 0
      <4>1. i \in 1 .. n /\ k # 1
        BY <1>1, <3>3
      <4>2. g[i] = f[i]
        BY <2>3, <4>1
      <4> HIDE DEF k
      <4>3. QED
        BY <1>3, <2>1, <3>1, <4>1, <4>2
    <3>4. QED
      BY <3>2, <3>3
  <2> HIDE DEF Good
  <2>4. n \in Good
    BY <1>1, <2>2, <2>3, NumberInduction
  <2>5. n \in 1 .. n /\ n + 1 \in 1 .. n + 1 /\ (n + 1) - 1 = n /\ n + 1 # 1
    BY <1>1, <1>5
  <2>6. g[n] = f[n]
    BY <1>1, <2>4, <2>5 DEF Good
  <2>7. g[n + 1] = f[n] \o s
    BY <1>1, <1>3, <2>5, <2>6
  <2>8. QED
    BY <1>2, <1>3, <2>1, <2>7 DEF tt
<1>6. QED
  BY <1>4, <1>5

\* What a function makes of each element of a sequence.
Each(f, s) == [i \in DOMAIN s |-> f[s[i]]]

LEMMA EachNone == ASSUME NEW f PROVE Each(f, << >>) = << >>
BY DEF Each

LEMMA EachType ==
    ASSUME NEW A, NEW B, NEW f, \A y \in A : f[y] \in B, NEW s \in Seq(A)
    PROVE  Each(f, s) \in Seq(B)
<1>1. Len(s) \in Nat /\ DOMAIN s = 1 .. Len(s) /\ \A i \in 1 .. Len(s) : s[i] \in A
  BY LenProperties, ElementOfSeq
<1>2. Each(f, s) \in [1 .. Len(s) -> B]
  BY <1>1 DEF Each
<1>3. QED
  BY <1>1, <1>2, SeqDef

LEMMA EachAppends ==
    ASSUME NEW A, NEW f, NEW s \in Seq(A), NEW x \in A
    PROVE  Each(f, Append(s, x)) = Append(Each(f, s), f[x])
<1> DEFINE n == Len(s)
           B == {f[y] : y \in A}
           t == Append(s, x)
           e == Each(f, s)
           u == Append(e, f[x])
<1>1. n \in Nat /\ DOMAIN s = 1 .. n /\ \A i \in 1 .. n : s[i] \in A
  BY LenProperties, ElementOfSeq
<1>2. (\A y \in A : f[y] \in B) /\ f[x] \in B
  OBVIOUS
<1>3. e \in Seq(B)
  <2> HIDE DEF B
  <2>1. QED
    BY <1>2, EachType
<1>4. /\ t \in Seq(A) /\ Len(t) = n + 1
      /\ \A i \in 1 .. n : t[i] = s[i]
      /\ t[n + 1] = x
  BY AppendProperties
<1>5. DOMAIN t = 1 .. n + 1
  BY <1>4, LenProperties
<1>6. DOMAIN e = 1 .. n /\ \A i \in 1 .. n : e[i] = f[s[i]]
  BY <1>1 DEF Each
<1> HIDE DEF B, e
<1>7. Len(e) = n
  BY <1>1, <1>3, <1>6, LenProperties
<1>8. /\ u \in Seq(B) /\ Len(u) = n + 1
      /\ \A i \in 1 .. n : u[i] = e[i]
      /\ u[n + 1] = f[x]
  BY <1>2, <1>3, <1>7, AppendProperties
<1>9. u = [i \in 1 .. n + 1 |-> u[i]]
  BY <1>8, LenProperties
<1> HIDE DEF n, t, u
<1>10. ASSUME NEW i \in 1 .. n + 1
       PROVE  f[t[i]] = u[i]
  <2>1. i \in 1 .. n \/ i = n + 1
    BY <1>1
  <2>2. QED
    BY <1>4, <1>6, <1>8, <2>1
<1>11. Each(f, t) = [i \in 1 .. n + 1 |-> f[t[i]]]
  BY <1>5 DEF Each
<1>12. Each(f, t) = u
  BY <1>9, <1>10, <1>11
<1>13. QED
  BY <1>12 DEF t, u, e

\* Filtering two sequences one after the other,
LEMMA KeepingConcat ==
    ASSUME NEW A, NEW s \in Seq(A), NEW t \in Seq(A), NEW S
    PROVE  Keeping(s \o t, S) = Keeping(s, S) \o Keeping(t, S)
<1> DEFINE Good == {u \in Seq(A) : Keeping(s \o u, S) = Keeping(s, S) \o Keeping(u, S)}
<1>1. << >> \in Good
  <2>1. s \o << >> = s /\ Keeping(s, S) \in Seq(A)
    BY KeepingType, ConcatEmptySeq
  <2>2. Keeping(s, S) \o << >> = Keeping(s, S)
    BY <2>1, ConcatEmptySeq
  <2>3. << >> \in Seq(A)
    OBVIOUS
  <2>4. QED
    BY <2>1, <2>2, <2>3, KeepingNone
<1>2. ASSUME NEW u \in Seq(A), NEW x \in A, u \in Good
      PROVE  Append(u, x) \in Good
  <2> DEFINE ks == Keeping(s, S)
             ku == Keeping(u, S)
  <2>1. ks \in Seq(A) /\ ku \in Seq(A) /\ Append(u, x) \in Seq(A) /\ s \o u \in Seq(A)
    BY KeepingType, AppendProperties, ConcatProperties
  <2>2. \A v \in Seq(A) : Append(v, x) = v \o << x >> /\ << x >> \in Seq(A)
    BY AppendIsConcat
  <2>3. s \o Append(u, x) = Append(s \o u, x) /\ ks \o Append(ku, x) = Append(ks \o ku, x)
    <3>1. << x >> \in Seq(A) /\ ks \o ku \in Seq(A)
      BY <2>1, ConcatProperties
    <3> HIDE DEF ks, ku
    <3>2. (s \o u) \o << x >> = s \o (u \o << x >>)
      BY SMTT(30), <3>1, ConcatAssociative
    <3>3. (ks \o ku) \o << x >> = ks \o (ku \o << x >>)
      BY SMTT(30), <2>1, <3>1, ConcatAssociative
    <3>4. QED
      BY <2>1, <2>2, <3>1, <3>2, <3>3
  <2>4. Keeping(s \o u, S) = ks \o ku
    BY <1>2
  <2>5. Keeping(Append(u, x), S) = IF x \in S THEN Append(ku, x) ELSE ku
    BY KeepingAppends
  <2>5a. Keeping(Append(s \o u, x), S) = IF x \in S THEN Append(Keeping(s \o u, S), x) ELSE Keeping(s \o u, S)
    <3>1. \A v \in Seq(A) :
             Keeping(Append(v, x), S) = IF x \in S THEN Append(Keeping(v, S), x) ELSE Keeping(v, S)
      BY KeepingAppends
    <3>2. QED
      BY <2>1, <3>1
  <2> HIDE DEF ks, ku
  <2>6. Keeping(s \o Append(u, x), S) = ks \o Keeping(Append(u, x), S)
    BY <2>3, <2>4, <2>5, <2>5a
  <2>7. QED
    BY <2>1, <2>6 DEF ks
<1> HIDE DEF Good
<1>3. Seq(A) \subseteq Good
  BY <1>1, <1>2, AppendInduction
<1>4. QED
  BY <1>3 DEF Good

\* and filtering what is put together of many.
LEMMA KeepingFlatten ==
    ASSUME NEW A, NEW ss \in Seq(Seq(A)), NEW S
    PROVE  Keeping(FlattenSeq(ss), S) = FlattenSeq([i \in DOMAIN ss |-> Keeping(ss[i], S)])
<1> DEFINE B == Seq(A)
           k == [s \in B |-> Keeping(s, S)]
           Good == {tt \in Seq(B) : Keeping(FlattenSeq(tt), S) = FlattenSeq(Each(k, tt))}
<1>1. \A s \in B : k[s] = Keeping(s, S) /\ k[s] \in B
  BY KeepingType
<1>2. << >> \in Good
  <2>1. << >> \in Seq(B)
    OBVIOUS
  <2> HIDE DEF B, k
  <2>2. QED
    BY <2>1, FlattenNone, KeepingNone, EachNone
<1>3. ASSUME NEW tt \in Seq(B), NEW s \in B, tt \in Good
      PROVE  Append(tt, s) \in Good
  <2>1. Append(tt, s) \in Seq(B)
    BY AppendProperties
  <2>2. FlattenSeq(tt) \in Seq(A)
    BY FlattenFacts
  <2>2a. FlattenSeq(Append(tt, s)) = FlattenSeq(tt) \o s
    BY FlattenAppends
  <2> HIDE DEF k
  <2>3. Each(k, tt) \in Seq(B)
    BY <1>1, EachType
  <2>3a. Each(k, Append(tt, s)) = Append(Each(k, tt), k[s])
    BY EachAppends
  <2>4. FlattenSeq(Append(Each(k, tt), k[s])) = FlattenSeq(Each(k, tt)) \o k[s]
    BY <1>1, <2>3, FlattenAppends
  <2>5. Keeping(FlattenSeq(tt) \o s, S) = Keeping(FlattenSeq(tt), S) \o Keeping(s, S)
    BY <2>2, KeepingConcat
  <2>6. Keeping(FlattenSeq(tt), S) = FlattenSeq(Each(k, tt))
    BY <1>3
  <2>7. QED
    BY <1>1, <2>1, <2>2a, <2>3a, <2>4, <2>5, <2>6
<1> HIDE DEF Good
<1>4. Seq(B) \subseteq Good
  <2> HIDE DEF B
  <2>1. QED
    BY <1>2, <1>3, AppendInduction
<1>5. Keeping(FlattenSeq(ss), S) = FlattenSeq(Each(k, ss))
  BY <1>4 DEF Good
<1>6. \A i \in DOMAIN ss : ss[i] \in B
  BY LenProperties, ElementOfSeq
<1>7. Each(k, ss) = [i \in DOMAIN ss |-> Keeping(ss[i], S)]
  BY <1>1, <1>6 DEF Each
<1>8. QED
  BY <1>5, <1>7

\* What is filtered out of a sequence, and gives nothing, is not missed in what the elements give.
LEMMA FlattenKept ==
    ASSUME NEW A, NEW B, NEW f, \A x \in A : f[x] \in Seq(B), NEW S,
           \A x \in A : x \notin S => f[x] = << >>, NEW s \in Seq(A)
    PROVE  FlattenSeq(Each(f, Keeping(s, S))) = FlattenSeq(Each(f, s))
<1> DEFINE C == Seq(B)
           Good == {t \in Seq(A) : FlattenSeq(Each(f, Keeping(t, S))) = FlattenSeq(Each(f, t))}
<1>1. << >> \in Good
  <2>1. << >> \in Seq(A)
    OBVIOUS
  <2>2. QED
    BY <2>1, KeepingNone
<1>2. ASSUME NEW t \in Seq(A), NEW x \in A, t \in Good
      PROVE  Append(t, x) \in Good
  <2> DEFINE kt == Keeping(t, S)
             whole == FlattenSeq(Each(f, t))
  <2>1. kt \in Seq(A)
    BY KeepingType
  <2>1a. Keeping(Append(t, x), S) = IF x \in S THEN Append(kt, x) ELSE kt
    BY KeepingAppends
  <2>2. FlattenSeq(Each(f, kt)) = whole
    BY <1>2
  <2>3. f[x] \in C /\ \A y \in A : f[y] \in C
    OBVIOUS
  <2> HIDE DEF kt, C
  <2>4. Each(f, t) \in Seq(C)
    BY <2>3, EachType
  <2>4a. Each(f, Append(t, x)) = Append(Each(f, t), f[x])
    BY EachAppends
  <2>5. Each(f, kt) \in Seq(C)
    BY <2>1, <2>3, EachType
  <2>5a. Each(f, Append(kt, x)) = Append(Each(f, kt), f[x])
    BY <2>1, EachAppends
  <2>6a. whole \in Seq(B)
    BY <2>4, FlattenFacts DEF C
  <2>6. FlattenSeq(Append(Each(f, t), f[x])) = whole \o f[x]
    BY <2>3, <2>4, FlattenAppends DEF C
  <2>7. FlattenSeq(Append(Each(f, kt), f[x])) = whole \o f[x]
    BY <2>2, <2>3, <2>5, FlattenAppends DEF C
  <2>8. Append(t, x) \in Seq(A)
    BY AppendProperties
  <2> HIDE DEF whole
  <2>9. CASE x \in S
    BY <2>1a, <2>4a, <2>5a, <2>6, <2>7, <2>8, <2>9
  <2>10. CASE x \notin S
    <3>1. whole \o f[x] = whole
      BY <2>6a, <2>10, ConcatEmptySeq
    <3>2. QED
      BY <2>1a, <2>2, <2>4a, <2>6, <2>8, <2>10, <3>1
  <2>11. QED
    BY <2>9, <2>10
<1> HIDE DEF Good
<1>3. Seq(A) \subseteq Good
  BY <1>1, <1>2, AppendInduction
<1>4. QED
  BY <1>3 DEF Good

\* Only what is in the sequence matters of the set it is filtered by.
LEMMA KeepingSame ==
    ASSUME NEW A, NEW S, NEW T, NEW s \in Seq(A), \A x \in Range(s) : x \in S <=> x \in T
    PROVE  Keeping(s, S) = Keeping(s, T)
<1> DEFINE Good == {t \in Seq(A) : Range(t) \subseteq Range(s) => Keeping(t, S) = Keeping(t, T)}
<1>1. << >> \in Good
  <2>1. << >> \in Seq(A)
    OBVIOUS
  <2>2. QED
    BY <2>1, KeepingNone
<1>2. ASSUME NEW t \in Seq(A), NEW x \in A, t \in Good
      PROVE  Append(t, x) \in Good
  <2> SUFFICES ASSUME Range(Append(t, x)) \subseteq Range(s)
               PROVE  Keeping(Append(t, x), S) = Keeping(Append(t, x), T)
    BY AppendProperties
  <2>1. Range(Append(t, x)) = Range(t) \cup {x}
    BY RangeAppends
  <2>2. Keeping(t, S) = Keeping(t, T)
    BY <1>2, <2>1
  <2>3. x \in S <=> x \in T
    BY <2>1
  <2>4. Keeping(Append(t, x), S) = IF x \in S THEN Append(Keeping(t, S), x) ELSE Keeping(t, S)
    BY KeepingAppends
  <2>5. Keeping(Append(t, x), T) = IF x \in T THEN Append(Keeping(t, T), x) ELSE Keeping(t, T)
    BY KeepingAppends
  <2>6. QED
    BY <2>2, <2>3, <2>4, <2>5
<1> HIDE DEF Good
<1>3. Seq(A) \subseteq Good
  BY <1>1, <1>2, AppendInduction
<1>4. QED
  BY <1>3 DEF Good

\* What is kept is what the sequence and the set share.
LEMMA KeepingRange ==
    ASSUME NEW A, NEW S, NEW s \in Seq(A)
    PROVE  Range(Keeping(s, S)) = Range(s) \cap S
<1> DEFINE Good == {t \in Seq(A) : Range(Keeping(t, S)) = Range(t) \cap S}
<1>1. << >> \in Good
  <2>1. << >> \in Seq(A) /\ Range(<< >>) = {}
    BY DEF Range
  <2>2. QED
    BY <2>1, KeepingNone
<1>2. ASSUME NEW t \in Seq(A), NEW x \in A, t \in Good
      PROVE  Append(t, x) \in Good
  <2>1. Append(t, x) \in Seq(A) /\ Range(Append(t, x)) = Range(t) \cup {x}
    BY RangeAppends, AppendProperties
  <2>2. Keeping(t, S) \in Seq(A)
    BY KeepingType
  <2>3. Range(Append(Keeping(t, S), x)) = Range(Keeping(t, S)) \cup {x}
    BY <2>2, RangeAppends
  <2>4. Keeping(Append(t, x), S) = IF x \in S THEN Append(Keeping(t, S), x) ELSE Keeping(t, S)
    BY KeepingAppends
  <2>5. Range(Keeping(t, S)) = Range(t) \cap S
    BY <1>2
  <2>6. QED
    BY <2>1, <2>3, <2>4, <2>5
<1> HIDE DEF Good
<1>3. Seq(A) \subseteq Good
  BY <1>1, <1>2, AppendInduction
<1>4. QED
  BY <1>3 DEF Good

\* A sequence is one of its own elements.
LEMMA OwnRange ==
    ASSUME NEW V, NEW s \in Seq(V)
    PROVE  s \in Seq(Range(s)) /\ \A i \in DOMAIN s : s[i] \in V
<1>1. Len(s) \in Nat /\ DOMAIN s = 1 .. Len(s) /\ s \in [1 .. Len(s) -> V]
  BY LenProperties
<1>2. s \in [1 .. Len(s) -> Range(s)]
  BY <1>1 DEF Range
<1>3. QED
  BY <1>1, <1>2, SeqDef

\* Of a sequence none of whose elements is in a set nothing is kept.
LEMMA KeepingNothing ==
    ASSUME NEW A, NEW s \in Seq(A), NEW S, Range(s) \cap S = {}
    PROVE  Keeping(s, S) = << >>
<1> DEFINE k == Keeping(s, S)
<1>1. k \in Seq(A) /\ Range(k) = {}
  BY KeepingType, KeepingRange
<1> HIDE DEF k
<1>2. DOMAIN k = {}
  BY <1>1 DEF Range
<1>3. Len(k) = 0
  <2>1. Len(k) \in Nat /\ DOMAIN k = 1 .. Len(k)
    BY <1>1, LenProperties
  <2>2. Len(k) # 0 => 1 \in 1 .. Len(k)
    BY <2>1
  <2>3. QED
    BY <1>2, <2>1, <2>2
<1>4. k = << >>
  BY <1>1, <1>3, EmptySeq
<1>5. QED
  BY <1>4 DEF k

\* Sequences of nothing make one of nothing.
LEMMA FlattenNothing ==
    ASSUME NEW A, NEW ss \in Seq(Seq(A)), \A i \in DOMAIN ss : ss[i] = << >>
    PROVE  FlattenSeq(ss) = << >>
<1> DEFINE k == FlattenSeq(ss)
<1>1. k \in Seq(A) /\ \A y : y \in ToSet(k) <=> \E i \in DOMAIN ss : y \in ToSet(ss[i])
  BY FlattenFacts
<1>2. \A y : y \notin ToSet(k)
  BY <1>1, EmptyFacts
<1> HIDE DEF k
<1>3. DOMAIN k = {}
  BY <1>2 DEF ToSet
<1>4. Len(k) = 0
  <2>1. Len(k) \in Nat /\ DOMAIN k = 1 .. Len(k)
    BY <1>1, LenProperties
  <2>2. Len(k) # 0 => 1 \in 1 .. Len(k)
    BY <2>1
  <2>3. QED
    BY <1>3, <2>1, <2>2
<1>5. k = << >>
  BY <1>1, <1>4, EmptySeq
<1>6. QED
  BY <1>5 DEF k

\* What is all kept is the same.
LEMMA KeepingAll ==
    ASSUME NEW A, NEW s \in Seq(A), NEW S, A \subseteq S
    PROVE  Keeping(s, S) = s
<1> DEFINE Good == {t \in Seq(A) : Keeping(t, S) = t}
<1>1. << >> \in Good
  BY KeepingNone
<1>2. ASSUME NEW t \in Seq(A), NEW x \in A, t \in Good
      PROVE  Append(t, x) \in Good
  BY <1>2, KeepingAppends, AppendProperties
<1> HIDE DEF Good
<1>3. Seq(A) \subseteq Good
  BY <1>1, <1>2, AppendInduction
<1>4. QED
  BY <1>3 DEF Good

(***************************************************************************)
(* Images of sequences                                                     *)
(***************************************************************************)
\* Each element's image, of two sequences one after the other,
LEMMA EachConcat ==
    ASSUME NEW A, NEW f, NEW s \in Seq(A), NEW t \in Seq(A)
    PROVE  Each(f, s \o t) = Each(f, s) \o Each(f, t)
<1> DEFINE n == Len(s)
           m == Len(t)
           B == {f[y] : y \in A}
           es == Each(f, s)
           et == Each(f, t)
           u == s \o t
           v == es \o et
<1>1. /\ n \in Nat /\ DOMAIN s = 1 .. n /\ \A i \in 1 .. n : s[i] \in A
      /\ m \in Nat /\ DOMAIN t = 1 .. m /\ \A i \in 1 .. m : t[i] \in A
  BY LenProperties, ElementOfSeq
<1>2. es \in Seq(B) /\ et \in Seq(B)
  <2>1. \A y \in A : f[y] \in B
    OBVIOUS
  <2> HIDE DEF B
  <2>2. QED
    BY <2>1, EachType
<1>3. /\ DOMAIN es = 1 .. n /\ \A i \in 1 .. n : es[i] = f[s[i]]
      /\ DOMAIN et = 1 .. m /\ \A i \in 1 .. m : et[i] = f[t[i]]
  BY <1>1 DEF Each
<1> HIDE DEF B, es, et
<1>4. Len(es) = n /\ Len(et) = m
  BY <1>1, <1>2, <1>3, LenProperties
<1> HIDE DEF n, m
<1>5. /\ u \in Seq(A) /\ Len(u) = n + m
      /\ \A i \in 1 .. n : u[i] = s[i]
      /\ \A i \in n + 1 .. n + m : u[i] = t[i - n]
  <2>1. /\ u \in Seq(A) /\ Len(u) = n + m
        /\ \A i \in 1 .. Len(u) : u[i] = IF i <= n THEN s[i] ELSE t[i - n]
    BY ConcatProperties DEF n, m
  <2> HIDE DEF u
  <2>2. QED
    BY <1>1, <2>1
<1>6. /\ v \in Seq(B) /\ Len(v) = n + m
      /\ \A i \in 1 .. n : v[i] = es[i]
      /\ \A i \in n + 1 .. n + m : v[i] = et[i - n]
  <2>1. /\ v \in Seq(B) /\ Len(v) = n + m
        /\ \A i \in 1 .. Len(v) : v[i] = IF i <= n THEN es[i] ELSE et[i - n]
    BY <1>2, <1>4, ConcatProperties
  <2> HIDE DEF v
  <2>2. QED
    BY <1>1, <2>1
<1> HIDE DEF u, v
<1>7. DOMAIN u = 1 .. n + m /\ DOMAIN v = 1 .. n + m /\ v = [i \in 1 .. n + m |-> v[i]]
  <2>1. DOMAIN u = 1 .. n + m
    BY <1>5, LenProperties
  <2>2. v \in [1 .. n + m -> B]
    BY <1>6, LenProperties
  <2>3. QED
    BY <2>1, <2>2
<1>8. ASSUME NEW i \in 1 .. n + m
      PROVE  f[u[i]] = v[i]
  <2>1. CASE i \in 1 .. n
    BY <1>3, <1>5, <1>6, <2>1
  <2>2. CASE i \in n + 1 .. n + m
    <3>1. i - n \in 1 .. m
      BY <1>1, <2>2
    <3>2. QED
      BY <1>3, <1>5, <1>6, <2>2, <3>1
  <2>3. i \in 1 .. n \/ i \in n + 1 .. n + m
    BY <1>1
  <2>4. QED
    BY <2>1, <2>2, <2>3
<1>9. Each(f, u) = [i \in 1 .. n + m |-> f[u[i]]]
  BY <1>7 DEF Each
<1>10. Each(f, u) = v
  BY <1>7, <1>8, <1>9
<1>11. QED
  BY <1>10 DEF u, v, es, et

\* of many,
LEMMA EachFlatten ==
    ASSUME NEW A, NEW ss \in Seq(Seq(A)), NEW f
    PROVE  Each(f, FlattenSeq(ss)) = FlattenSeq([i \in DOMAIN ss |-> Each(f, ss[i])])
<1> DEFINE B == {f[y] : y \in A}
           C == Seq(A)
           k == [s \in C |-> Each(f, s)]
           Good == {tt \in Seq(C) : Each(f, FlattenSeq(tt)) = FlattenSeq(Each(k, tt))}
<1>1. \A s \in C : k[s] = Each(f, s) /\ k[s] \in Seq(B)
  <2>1. \A y \in A : f[y] \in B
    OBVIOUS
  <2> HIDE DEF B
  <2>2. QED
    BY <2>1, EachType
<1>2. << >> \in Good
  <2>1. << >> \in Seq(C)
    OBVIOUS
  <2> HIDE DEF C, k
  <2>2. QED
    BY <2>1, FlattenNone, EachNone
<1>3. ASSUME NEW tt \in Seq(C), NEW s \in C, tt \in Good
      PROVE  Append(tt, s) \in Good
  <2>1. Append(tt, s) \in Seq(C)
    BY AppendProperties
  <2>2. FlattenSeq(tt) \in Seq(A)
    BY FlattenFacts
  <2>3. FlattenSeq(Append(tt, s)) = FlattenSeq(tt) \o s
    BY FlattenAppends
  <2>4. Each(f, FlattenSeq(tt) \o s) = Each(f, FlattenSeq(tt)) \o Each(f, s)
    BY <2>2, EachConcat
  <2> HIDE DEF k
  <2>5. Each(k, tt) \in Seq(Seq(B))
    <3> DEFINE D == Seq(B)
    <3>1. \A y \in C : k[y] \in D
      BY <1>1
    <3> HIDE DEF D, C
    <3>2. Each(k, tt) \in Seq(D)
      BY <3>1, EachType
    <3>3. QED
      BY <3>2 DEF D
  <2>6. Each(k, Append(tt, s)) = Append(Each(k, tt), k[s])
    <3> HIDE DEF C
    <3>1. QED
      BY EachAppends
  <2>7. FlattenSeq(Append(Each(k, tt), k[s])) = FlattenSeq(Each(k, tt)) \o k[s]
    BY <1>1, <2>5, FlattenAppends
  <2>8. Each(f, FlattenSeq(tt)) = FlattenSeq(Each(k, tt))
    BY <1>3
  <2>9. QED
    BY <1>1, <2>1, <2>3, <2>4, <2>6, <2>7, <2>8
<1> HIDE DEF Good
<1>4. Seq(C) \subseteq Good
  <2> HIDE DEF C
  <2>1. QED
    BY <1>2, <1>3, AppendInduction
<1>5. Each(f, FlattenSeq(ss)) = FlattenSeq(Each(k, ss))
  BY <1>4 DEF Good
<1>6. \A i \in DOMAIN ss : ss[i] \in C
  BY LenProperties, ElementOfSeq
<1>7. Each(k, ss) = [i \in DOMAIN ss |-> Each(f, ss[i])]
  <2> HIDE DEF C
  <2>1. QED
    BY <1>1, <1>6 DEF Each
<1>8. QED
  BY <1>5, <1>7

\* and of some of one.
LEMMA EachKeeping ==
    ASSUME NEW A, NEW f, NEW S, NEW s \in Seq(A), NEW T, \A y \in A : y \in T <=> f[y] \in S
    PROVE  Keeping(Each(f, s), S) = Each(f, Keeping(s, T))
<1> DEFINE B == {f[y] : y \in A}
           Good == {t \in Seq(A) : Keeping(Each(f, t), S) = Each(f, Keeping(t, T))}
<1>1. << >> \in Good
  <2>1. << >> \in Seq(A)
    OBVIOUS
  <2>2. Keeping(<< >>, S) = << >> /\ Keeping(<< >>, T) = << >>
    BY KeepingNone
  <2>3. Each(f, << >>) = << >>
    BY EachNone
  <2>4. QED
    BY <2>1, <2>2, <2>3
<1>2. ASSUME NEW t \in Seq(A), NEW x \in A, t \in Good
      PROVE  Append(t, x) \in Good
  <2> DEFINE kt == Keeping(t, T)
  <2>1. kt \in Seq(A) /\ Append(t, x) \in Seq(A)
    BY KeepingType, AppendProperties
  <2>2. Keeping(Append(t, x), T) = IF x \in T THEN Append(kt, x) ELSE kt
    BY KeepingAppends
  <2>3. x \in T <=> f[x] \in S
    OBVIOUS
  <2>4. Keeping(Each(f, t), S) = Each(f, kt)
    BY <1>2
  <2> HIDE DEF kt
  <2>5. Each(f, t) \in Seq(B) /\ f[x] \in B
    <3>1. \A y \in A : f[y] \in B
      OBVIOUS
    <3> HIDE DEF B
    <3>2. QED
      BY <3>1, EachType
  <2>6. Each(f, Append(t, x)) = Append(Each(f, t), f[x])
    BY EachAppends
  <2>7. Each(f, Append(kt, x)) = Append(Each(f, kt), f[x])
    BY <2>1, EachAppends
  <2>8. Keeping(Append(Each(f, t), f[x]), S) =
           IF f[x] \in S THEN Append(Keeping(Each(f, t), S), f[x]) ELSE Keeping(Each(f, t), S)
    <3> DEFINE y == f[x]
               e == Each(f, t)
    <3>1. e \in Seq(B) /\ y \in B
      BY <2>5
    <3> HIDE DEF y, e, B
    <3>2. Keeping(Append(e, y), S) = IF y \in S THEN Append(Keeping(e, S), y) ELSE Keeping(e, S)
      BY <3>1, KeepingAppends
    <3>3. QED
      BY <3>2 DEF y, e
  <2>9. QED
    BY <2>1, <2>2, <2>3, <2>4, <2>6, <2>7, <2>8
<1> HIDE DEF Good
<1>3. Seq(A) \subseteq Good
  BY <1>1, <1>2, AppendInduction
<1>4. QED
  BY <1>3 DEF Good

\* Sequences of one element each make the sequence of them.
LEMMA FlattenOnes ==
    ASSUME NEW A, NEW s \in Seq(A)
    PROVE  FlattenSeq([i \in DOMAIN s |-> << s[i] >>]) = s
<1> DEFINE B == Seq(A)
           one == [x \in A |-> << x >>]
           Good == {t \in Seq(A) : FlattenSeq(Each(one, t)) = t}
<1>1. \A x \in A : one[x] \in B /\ one[x] = << x >>
  OBVIOUS
<1>2. << >> \in Good
  <2>1. << >> \in Seq(A)
    OBVIOUS
  <2> HIDE DEF one
  <2>2. QED
    BY <2>1, FlattenNone, EachNone
<1>3. ASSUME NEW t \in Seq(A), NEW x \in A, t \in Good
      PROVE  Append(t, x) \in Good
  <2>1. Append(t, x) \in Seq(A) /\ Append(t, x) = t \o << x >>
    BY AppendProperties, AppendIsConcat
  <2> HIDE DEF one, B
  <2>2. Each(one, t) \in Seq(B)
    BY <1>1, EachType
  <2>3. Each(one, Append(t, x)) = Append(Each(one, t), one[x])
    BY EachAppends
  <2>4. FlattenSeq(Append(Each(one, t), one[x])) = FlattenSeq(Each(one, t)) \o one[x]
    BY <1>1, <2>2, FlattenAppends DEF B
  <2>5. QED
    BY <1>1, <1>3, <2>1, <2>3, <2>4
<1> HIDE DEF Good
<1>4. Seq(A) \subseteq Good
  BY <1>2, <1>3, AppendInduction
<1>5. \A i \in DOMAIN s : s[i] \in A
  BY LenProperties, ElementOfSeq
<1>6. [i \in DOMAIN s |-> << s[i] >>] = Each(one, s)
  BY <1>1, <1>5 DEF Each
<1>7. QED
  BY <1>4, <1>6 DEF Good

(***************************************************************************)
(* Orders                                                                  *)
(***************************************************************************)
\* By the first of n numbers in which two things differ.
Lower(f, g, n) == \E k \in 1 .. n : f[k] < g[k] /\ \A j \in 1 .. k - 1 : f[j] = g[j]

\* It is a strict order of the lists of n numbers, and a total one.
LEMMA LowerOrders ==
    ASSUME NEW n \in Nat, NEW f \in [1 .. n -> Int], NEW g \in [1 .. n -> Int], NEW h \in [1 .. n -> Int]
    PROVE  /\ ~Lower(f, f, n)
           /\ Lower(f, g, n) /\ Lower(g, h, n) => Lower(f, h, n)
           /\ Lower(f, g, n) \/ Lower(g, f, n) \/ f = g
<1>1. ~Lower(f, f, n)
  BY DEF Lower
<1>2. ASSUME Lower(f, g, n), Lower(g, h, n)
      PROVE  Lower(f, h, n)
  <2>1. PICK k \in 1 .. n : f[k] < g[k] /\ \A j \in 1 .. k - 1 : f[j] = g[j]
    BY <1>2 DEF Lower
  <2>2. PICK m \in 1 .. n : g[m] < h[m] /\ \A j \in 1 .. m - 1 : g[j] = h[j]
    BY <1>2 DEF Lower
  <2>3. CASE k <= m
    <3>1. f[k] < h[k]
      <4>1. CASE k = m
        BY <2>1, <2>2, <4>1
      <4>2. CASE k < m
        <5>1. g[k] = h[k]
          BY <2>2, <4>2
        <5>2. QED
          BY <2>1, <5>1
      <4>3. QED
        BY <2>3, <4>1, <4>2
    <3>2. ASSUME NEW j \in 1 .. k - 1
          PROVE  f[j] = h[j]
      <4>1. j \in 1 .. m - 1
        BY <2>3
      <4>2. QED
        BY <2>1, <2>2, <4>1
    <3>3. QED
      BY <3>1, <3>2 DEF Lower
  <2>4. CASE m < k
    <3>1. f[m] < h[m]
      <4>1. f[m] = g[m]
        BY <2>1, <2>4
      <4>2. QED
        BY <2>2, <4>1
    <3>2. ASSUME NEW j \in 1 .. m - 1
          PROVE  f[j] = h[j]
      <4>1. j \in 1 .. k - 1
        BY <2>4
      <4>2. QED
        BY <2>1, <2>2, <4>1
    <3>3. QED
      BY <3>1, <3>2 DEF Lower
  <2>5. QED
    BY <2>3, <2>4
<1>3. ASSUME f # g
      PROVE  Lower(f, g, n) \/ Lower(g, f, n)
  <2> DEFINE D == {k \in 1 .. n : f[k] # g[k]}
  <2>1. D \subseteq Nat /\ D # {}
    BY <1>3
  <2>2. PICK k \in D : \A j \in D : k <= j
    BY <2>1, LeastNatural
  <2>3. \A j \in 1 .. k - 1 : j \in 1 .. n /\ j \notin D
    BY <2>2
  <2>4. \A j \in 1 .. k - 1 : f[j] = g[j]
    BY <2>3
  <2>5. f[k] < g[k] \/ g[k] < f[k]
    BY <2>2
  <2>6. QED
    BY <2>2, <2>4, <2>5 DEF Lower
<1>4. QED
  BY <1>1, <1>2, <1>3

\* A relation that puts any two places one before the other,
Totally(R, n) ==
    /\ \A i \in 1 .. n : <<i, i>> \notin R
    /\ \A i, j, k \in 1 .. n : <<i, j>> \in R /\ <<j, k>> \in R => <<i, k>> \in R
    /\ \A i, j \in 1 .. n : <<i, j>> \in R \/ <<j, i>> \in R \/ i = j

\* the place each of them has by it, and what is at each place:
TakenBy(at, rank, earlier, R, n) ==
    /\ \A i \in 1 .. n : \A j : j \in earlier[i] <=> j \in 1 .. n /\ <<j, i>> \in R
    /\ \A i \in 1 .. n : rank[i] = Cardinality(earlier[i]) + 1
    /\ at = [m \in 1 .. n |-> at[m]]
    /\ \A m \in 1 .. n : (\E i \in 1 .. n : rank[i] = m) => at[m] \in 1 .. n /\ rank[at[m]] = m

\* Of n places there are n;
LEMMA UpToSize == ASSUME NEW n \in Nat PROVE IsFiniteSet(1 .. n) /\ Cardinality(1 .. n) = n
BY FS_Interval

\* every place is taken by one, in order.
LEMMA PlacesAreTaken ==
    ASSUME NEW n \in Nat, NEW R, Totally(R, n), NEW earlier, NEW rank, NEW at,
           TakenBy(at, rank, earlier, R, n)
    PROVE  /\ at \in [1 .. n -> 1 .. n] /\ IsInjective(at) /\ Range(at) = 1 .. n
           /\ \A m, p \in 1 .. n : m < p => <<at[p], at[m]>> \notin R
<1> DEFINE Earlier(i) == {j \in 1 .. n : <<j, i>> \in R}
           r == [i \in 1 .. n |-> rank[i]]
<1>1. IsFiniteSet(1 .. n) /\ Cardinality(1 .. n) = n
  BY UpToSize
<1>2. \A i \in 1 .. n : IsFiniteSet(Earlier(i)) /\ Cardinality(Earlier(i)) \in Nat
  BY <1>1, FS_Subset, FS_CardinalityType
<1>3. ASSUME NEW i \in 1 .. n
      PROVE  Cardinality(Earlier(i)) < n
  <2>1. Earlier(i) \subseteq (1 .. n) \ {i}
    BY DEF Totally
  <2>2. IsFiniteSet((1 .. n) \ {i}) /\ Cardinality((1 .. n) \ {i}) = n - 1
    BY <1>1, FS_RemoveElement
  <2> DEFINE e == Earlier(i)
             rest == (1 .. n) \ {i}
  <2> HIDE DEF e, rest
  <2>3. Cardinality(e) <= Cardinality(rest)
    BY <2>1, <2>2, FS_Subset DEF e, rest
  <2>4. Cardinality(e) \in Nat /\ Cardinality(rest) = n - 1
    BY <1>2, <2>2 DEF e, rest
  <2>5. Cardinality(e) < n
    BY <2>3, <2>4
  <2>6. QED
    BY <2>5 DEF e
<1>4. ASSUME NEW i \in 1 .. n, NEW k \in 1 .. n, <<i, k>> \in R
      PROVE  Cardinality(Earlier(i)) < Cardinality(Earlier(k))
  <2>1. Earlier(i) \subseteq Earlier(k)
    BY <1>4 DEF Totally
  <2>2. i \in Earlier(k) /\ i \notin Earlier(i)
    BY <1>4 DEF Totally
  <2> DEFINE e == Earlier(i)
             f == Earlier(k)
  <2>3. IsFiniteSet(e) /\ IsFiniteSet(f) /\ e \subseteq f /\ e # f
    BY <1>2, <2>1, <2>2
  <2>4. Cardinality(e) \in Nat /\ Cardinality(f) \in Nat
    BY <1>2
  <2> HIDE DEF e, f
  <2>5. Cardinality(e) <= Cardinality(f) /\ Cardinality(e) # Cardinality(f)
    BY <2>3, FS_Subset
  <2>6. Cardinality(e) < Cardinality(f)
    BY <2>4, <2>5
  <2>7. QED
    BY <2>6 DEF e, f
<1>5. \A i \in 1 .. n : r[i] = Cardinality(Earlier(i)) + 1 /\ rank[i] = r[i]
  <2> TAKE i \in 1 .. n
  <2>1. Earlier(i) = earlier[i]
    BY DEF TakenBy
  <2> HIDE DEF Earlier
  <2>2. QED
    BY <2>1 DEF TakenBy
<1> HIDE DEF Earlier, r
<1>6. \A i \in 1 .. n : r[i] \in 1 .. n
  BY <1>2, <1>3, <1>5
<1>7. \A i, k \in 1 .. n : <<i, k>> \in R => r[i] < r[k]
  BY <1>2, <1>4, <1>5
<1>8. DOMAIN r = 1 .. n /\ IsInjective(r)
  <2>1. DOMAIN r = 1 .. n
    BY DEF r
  <2>2. ASSUME NEW i \in 1 .. n, NEW k \in 1 .. n, r[i] = r[k]
        PROVE  i = k
    <3>1. ~(r[i] < r[k]) /\ ~(r[k] < r[i])
      BY <1>6, <2>2
    <3>2. <<i, k>> \notin R /\ <<k, i>> \notin R
      BY <1>7, <3>1
    <3>3. QED
      BY <3>2 DEF Totally
  <2>3. QED
    BY <2>1, <2>2 DEF IsInjective
<1>9. Range(r) = 1 .. n
  <2>1. IsFiniteSet(Range(r)) /\ Cardinality(Range(r)) = n
    BY <1>8, DistinctSize
  <2>2. Range(r) \subseteq 1 .. n
    BY <1>6, <1>8 DEF Range
  <2>3. QED
    BY <1>1, <2>1, <2>2, FS_Subset
<1>10. \A m \in 1 .. n : at[m] \in 1 .. n /\ r[at[m]] = m
  <2> TAKE m \in 1 .. n
  <2>1. \E i \in 1 .. n : rank[i] = m
    <3>1. m \in Range(r)
      BY <1>9
    <3>2. \E i \in 1 .. n : r[i] = m
      BY <1>8, <3>1 DEF Range
    <3>3. QED
      BY <1>5, <3>2
  <2>2. at[m] \in 1 .. n /\ rank[at[m]] = m
    BY <2>1 DEF TakenBy
  <2>3. QED
    BY <1>5, <2>2
<1>11. at \in [1 .. n -> 1 .. n] /\ IsInjective(at)
  <2>1. at \in [1 .. n -> 1 .. n]
    BY <1>10 DEF TakenBy
  <2>2. QED
    BY <1>10, <2>1 DEF IsInjective
<1>12. Range(at) = 1 .. n
  <2>1. IsFiniteSet(Range(at)) /\ Cardinality(Range(at)) = n
    BY <1>11, DistinctSize
  <2>2. Range(at) \subseteq 1 .. n
    BY <1>11 DEF Range
  <2>3. QED
    BY <1>1, <2>1, <2>2, FS_Subset
<1>13. ASSUME NEW m \in 1 .. n, NEW p \in 1 .. n, m < p
       PROVE  <<at[p], at[m]>> \notin R
  <2>1. at[m] \in 1 .. n /\ at[p] \in 1 .. n /\ r[at[m]] = m /\ r[at[p]] = p
    BY <1>10
  <2>2. ~(r[at[p]] < r[at[m]])
    BY <1>13, <2>1
  <2>3. QED
    BY <1>7, <2>1, <2>2
<1>14. QED
  BY <1>11, <1>12, <1>13
=============================================================================
