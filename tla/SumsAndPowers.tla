--------------------------- MODULE SumsAndPowers ---------------------------
(***************************************************************************)
(* Facts about sums of functions and about powers of two, for the proofs   *)
(* about histograms, shifts and tables.  Both need induction over data.    *)
(* The induction theorems of the library take a predicate, which none of   *)
(* the provers can supply; here induction is over sets, from the library's *)
(* fact that Nat is well founded.                                          *)
(***************************************************************************)
EXTENDS FiniteSetTheorems, FunctionTheorems, Functions, TLAPS

\* Every set of natural numbers that is not empty has a smallest element.
LEMMA NatMinimum ==
  ASSUME NEW T \in SUBSET Nat, T # {}
  PROVE  \E x \in T : \A y \in T : x <= y
<1>1. IsWellFoundedOn(OpToRel(<, Nat), Nat)
  BY NatLessThanWellFounded
<1>2. \E x \in T : \A y \in T : ~ (<<y, x>> \in OpToRel(<, Nat))
  BY <1>1, WFMin
<1>3. \E x \in T : \A y \in T : ~ (y < x)
  BY <1>2 DEF OpToRel
<1> QED
  BY <1>3

\* Induction over the natural numbers, with a set in the place of a predicate:
\* the smallest number outside of S would have no predecessor.
LEMMA NatSetInduction ==
  ASSUME NEW S, 0 \in S, \A n \in Nat : n \in S => n + 1 \in S
  PROVE  Nat \subseteq S
<1> SUFFICES ASSUME Nat \ S # {} PROVE FALSE
  OBVIOUS
<1>1. PICK m \in Nat \ S : \A y \in Nat \ S : m <= y
  BY NatMinimum
<1>2. m - 1 \in Nat /\ m - 1 \notin Nat \ S
  BY <1>1
<1> QED
  BY <1>1, <1>2

\* A set of n + 1 elements has one to take away, and n are left.
LEMMA OneFewer ==
  ASSUME NEW S, IsFiniteSet(S), NEW n \in Nat, Cardinality(S) = n + 1
  PROVE  S # {} /\ \A x \in S : Cardinality(S \ {x}) = n
<1>1. S # {}
  BY FS_EmptySet
<1>2. \A x \in S : Cardinality(S \ {x}) = Cardinality(S) - 1
  BY FS_RemoveElement
<1> QED
  BY <1>1, <1>2

\* Induction over the subsets of a finite set, again with a set of them in the
\* place of a predicate.
LEMMA SubsetInduction ==
  ASSUME NEW I, IsFiniteSet(I), NEW P, {} \in P,
         \A T \in SUBSET I : \A x \in I \ T : T \in P => T \cup {x} \in P
  PROVE  I \in P
<1> DEFINE N == {n \in Nat : \A T \in SUBSET I : Cardinality(T) = n => T \in P}
<1>1. \A T \in SUBSET I : IsFiniteSet(T) /\ Cardinality(T) \in Nat
  BY FS_Subset, FS_CardinalityType
<1>2. 0 \in N
  BY <1>1, FS_EmptySet
<1>3. ASSUME NEW n \in Nat, n \in N
      PROVE  n + 1 \in N
  <2> SUFFICES ASSUME NEW T \in SUBSET I, Cardinality(T) = n + 1
               PROVE  T \in P
    OBVIOUS
  <2>1. IsFiniteSet(T)
    BY <1>1
  <2>2. PICK x \in T : TRUE
    BY <2>1, OneFewer
  <2>3. Cardinality(T \ {x}) = n /\ T \ {x} \in SUBSET I
    BY <2>1, <2>2, OneFewer
  <2>4. T \ {x} \in P
    BY <1>3, <2>3
  <2>5. (T \ {x}) \cup {x} \in P /\ (T \ {x}) \cup {x} = T
    BY <2>2, <2>3, <2>4
  <2> QED
    BY <2>5
<1> HIDE DEF N
<1>4. Nat \subseteq N
  BY <1>2, <1>3, NatSetInduction
<1> QED
  BY <1>1, <1>4 DEF N

----------------------------------------------------------------------------
(* Sums                                                                    *)

\* The element that FoldFunctionOnSet takes out of s.
Chosen(s) == CHOOSE x \in s : TRUE

\* g gives each subset of I the sum of f over it, by the recursion of the fold.
SumsTo(g, f, I) ==
  g = [s \in SUBSET I |-> IF s = {} THEN 0 ELSE f[Chosen(s)] + g[s \ {Chosen(s)}]]

\* The element the fold takes first is one of the set.
LEMMA ChosenIn ==
  ASSUME NEW s, s # {}
  PROVE  Chosen(s) \in s
BY DEF Chosen

\* The recursion of the fold has a solution: one for the subsets of n elements
\* extends to those of n + 1.
LEMMA SumsToExists ==
  ASSUME NEW f, NEW I, IsFiniteSet(I)
  PROVE  \E g : SumsTo(g, f, I)
<1> DEFINE D(n) == {s \in SUBSET I : Cardinality(s) <= n}
           R(g, s) == IF s = {} THEN 0 ELSE f[Chosen(s)] + g[s \ {Chosen(s)}]
           N == {n \in Nat : \E g : g = [s \in D(n) |-> R(g, s)]}
<1>1. \A T \in SUBSET I : IsFiniteSet(T) /\ Cardinality(T) \in Nat
  BY FS_Subset, FS_CardinalityType
<1>2. 0 \in N
  <2>1. \A s \in D(0) : s = {}
    BY <1>1, FS_EmptySet
  <2> DEFINE g == [s \in D(0) |-> 0]
  <2>2. g = [s \in D(0) |-> R(g, s)]
    BY <2>1
  <2> QED
    BY <2>2
<1>3. ASSUME NEW n \in Nat, n \in N
      PROVE  n + 1 \in N
  <2>1. PICK g : g = [s \in D(n) |-> R(g, s)]
    BY <1>3
  <2> DEFINE h == [s \in D(n + 1) |-> IF s \in D(n) THEN g[s] ELSE R(g, s)]
  <2>2. \A s \in D(n + 1) : s # {} => s \ {Chosen(s)} \in D(n) /\ s \ {Chosen(s)} \in D(n + 1)
    <3> SUFFICES ASSUME NEW s \in D(n + 1), s # {}
                 PROVE  s \ {Chosen(s)} \in D(n) /\ s \ {Chosen(s)} \in D(n + 1)
      OBVIOUS
    <3>1. Cardinality(s \ {Chosen(s)}) = Cardinality(s) - 1 /\ s \ {Chosen(s)} \in SUBSET I
      BY <1>1, ChosenIn, FS_RemoveElement
    <3> QED
      BY <1>1, <3>1
  <2>3. ASSUME NEW s \in D(n + 1)
        PROVE  h[s] = R(h, s)
    <3>1. h[s] = R(g, s)
      BY <2>1
    <3>2. s # {} => h[s \ {Chosen(s)}] = g[s \ {Chosen(s)}]
      BY <2>2
    <3> QED
      BY <3>1, <3>2
  <2>4. h = [s \in D(n + 1) |-> R(h, s)]
    <3>1. h = [s \in D(n + 1) |-> h[s]]
      OBVIOUS
    <3> HIDE DEF h, D, R
    <3> QED
      BY <2>3, <3>1
  <2> HIDE DEF h, D, R
  <2> QED
    BY <2>4
<1> HIDE DEF N
<1>4. Nat \subseteq N
  BY <1>2, <1>3, NatSetInduction
<1>5. Cardinality(I) \in N
  BY <1>1, <1>4
<1>6. PICK g : g = [s \in D(Cardinality(I)) |-> R(g, s)]
  BY <1>5 DEF N
<1>7. D(Cardinality(I)) = SUBSET I
  BY FS_Subset
<1> QED
  BY <1>6, <1>7 DEF SumsTo

\* Two solutions, for whatever sets, agree on the subsets they share.
LEMMA SumsToUnique ==
  ASSUME NEW f, NEW I, NEW J, NEW g, NEW h, SumsTo(g, f, I), SumsTo(h, f, J),
         NEW T \in SUBSET (I \cap J), IsFiniteSet(T)
  PROVE  g[T] = h[T]
<1> DEFINE N == {n \in Nat : \A s \in SUBSET T : Cardinality(s) = n => g[s] = h[s]}
<1>1. \A s \in SUBSET T : IsFiniteSet(s) /\ Cardinality(s) \in Nat
  BY FS_Subset, FS_CardinalityType
<1>2. \A s \in SUBSET T : /\ g[s] = IF s = {} THEN 0 ELSE f[Chosen(s)] + g[s \ {Chosen(s)}]
                          /\ h[s] = IF s = {} THEN 0 ELSE f[Chosen(s)] + h[s \ {Chosen(s)}]
  <2> SUFFICES ASSUME NEW s \in SUBSET T
               PROVE  /\ g[s] = IF s = {} THEN 0 ELSE f[Chosen(s)] + g[s \ {Chosen(s)}]
                      /\ h[s] = IF s = {} THEN 0 ELSE f[Chosen(s)] + h[s \ {Chosen(s)}]
    OBVIOUS
  <2>1. s \in SUBSET I /\ s \in SUBSET J
    OBVIOUS
  <2> QED
    BY <2>1 DEF SumsTo
<1>3. 0 \in N
  BY <1>1, <1>2, FS_EmptySet
<1>4. ASSUME NEW n \in Nat, n \in N
      PROVE  n + 1 \in N
  <2> SUFFICES ASSUME NEW s \in SUBSET T, Cardinality(s) = n + 1
               PROVE  g[s] = h[s]
    OBVIOUS
  <2>1. s # {}
    BY <1>1, OneFewer
  <2>2. Cardinality(s \ {Chosen(s)}) = n /\ s \ {Chosen(s)} \in SUBSET T
    BY <1>1, <2>1, ChosenIn, OneFewer
  <2>3. g[s \ {Chosen(s)}] = h[s \ {Chosen(s)}]
    BY <1>4, <2>2
  <2> QED
    BY <1>2, <2>1, <2>3
<1> HIDE DEF N
<1>5. Nat \subseteq N
  BY <1>3, <1>4, NatSetInduction
<1> QED
  BY <1>1, <1>5 DEF N

\* SumFunctionOnSet is the solution of its recursion.
LEMMA SumUnfolds ==
  ASSUME NEW f, NEW I, IsFiniteSet(I)
  PROVE  \E g : SumsTo(g, f, I) /\ SumFunctionOnSet(f, I) = g[I]
<1> DEFINE g == CHOOSE iter : SumsTo(iter, f, I)
<1>1. SumsTo(g, f, I)
  BY SumsToExists
<1>2. SumFunctionOnSet(f, I) = g[I]
  BY DEF SumFunctionOnSet, FoldFunctionOnSet, MapThenFoldSet, SumsTo, Chosen
<1> HIDE DEF g
<1> QED
  BY <1>1, <1>2
\* Nothing sums to zero.
LEMMA SumEmpty ==
  ASSUME NEW f
  PROVE  SumFunctionOnSet(f, {}) = 0
<1>1. PICK g : SumsTo(g, f, {}) /\ SumFunctionOnSet(f, {}) = g[{}]
  BY SumUnfolds, FS_EmptySet
<1> QED
  BY <1>1 DEF SumsTo

\* The sum is that of the rest and the element the fold takes first.
LEMMA SumStep ==
  ASSUME NEW f, NEW I, IsFiniteSet(I), I # {}
  PROVE  SumFunctionOnSet(f, I) = f[Chosen(I)] + SumFunctionOnSet(f, I \ {Chosen(I)})
<1>1. PICK g : SumsTo(g, f, I) /\ SumFunctionOnSet(f, I) = g[I]
  BY SumUnfolds
<1> DEFINE J == I \ {Chosen(I)}
<1>2. IsFiniteSet(J) /\ J \in SUBSET I
  BY FS_Subset
<1>3. PICK h : SumsTo(h, f, J) /\ SumFunctionOnSet(f, J) = h[J]
  BY <1>2, SumUnfolds
<1>4. g[I] = f[Chosen(I)] + g[J]
  BY <1>1 DEF SumsTo
<1>5. J \in SUBSET (I \cap J)
  OBVIOUS
<1> HIDE DEF J
<1>6. g[J] = h[J]
  BY <1>1, <1>2, <1>3, <1>5, SumsToUnique
<1> QED
  BY <1>1, <1>3, <1>4, <1>6 DEF J

\* A sum of natural numbers is one.
LEMMA SumInNat ==
  ASSUME NEW f, NEW I, IsFiniteSet(I), \A i \in I : f[i] \in Nat
  PROVE  SumFunctionOnSet(f, I) \in Nat
<1> DEFINE N == {n \in Nat : \A T \in SUBSET I :
                   Cardinality(T) = n => SumFunctionOnSet(f, T) \in Nat}
<1>1. \A T \in SUBSET I : IsFiniteSet(T) /\ Cardinality(T) \in Nat
  BY FS_Subset, FS_CardinalityType
<1>2. 0 \in N
  BY <1>1, SumEmpty, FS_EmptySet
<1>3. ASSUME NEW n \in Nat, n \in N
      PROVE  n + 1 \in N
  <2> SUFFICES ASSUME NEW T \in SUBSET I, Cardinality(T) = n + 1
               PROVE  SumFunctionOnSet(f, T) \in Nat
    OBVIOUS
  <2> DEFINE c == Chosen(T)
  <2>1. IsFiniteSet(T) /\ T # {}
    BY <1>1, OneFewer
  <2>2. c \in T /\ SumFunctionOnSet(f, T) = f[c] + SumFunctionOnSet(f, T \ {c})
    BY <2>1, ChosenIn, SumStep
  <2>3. Cardinality(T \ {c}) = n /\ T \ {c} \in SUBSET I
    BY <2>1, <2>2, OneFewer
  <2>4. SumFunctionOnSet(f, T \ {c}) \in Nat
    BY <1>3, <2>3
  <2>5. f[c] \in Nat
    BY <2>2
  <2> QED
    BY <2>2, <2>4, <2>5
<1> HIDE DEF N
<1>4. Nat \subseteq N
  BY <1>2, <1>3, NatSetInduction
<1> QED
  BY <1>1, <1>4, FS_Subset DEF N

\* Any element may be taken first.
LEMMA SumRemove ==
  ASSUME NEW f, NEW I, IsFiniteSet(I), \A i \in I : f[i] \in Nat, NEW x \in I
  PROVE  SumFunctionOnSet(f, I) = f[x] + SumFunctionOnSet(f, I \ {x})
<1> DEFINE Good(T) == \A y \in T : SumFunctionOnSet(f, T) = f[y] + SumFunctionOnSet(f, T \ {y})
           N == {n \in Nat : \A T \in SUBSET I : Cardinality(T) = n => Good(T)}
<1>1. \A T \in SUBSET I : /\ IsFiniteSet(T) /\ Cardinality(T) \in Nat
                         /\ SumFunctionOnSet(f, T) \in Nat
  BY FS_Subset, FS_CardinalityType, SumInNat
<1>2. 0 \in N
  BY <1>1, FS_EmptySet
<1>3. ASSUME NEW n \in Nat, n \in N
      PROVE  n + 1 \in N
  <2> SUFFICES ASSUME NEW T \in SUBSET I, Cardinality(T) = n + 1, NEW y \in T
               PROVE  SumFunctionOnSet(f, T) = f[y] + SumFunctionOnSet(f, T \ {y})
    OBVIOUS
  <2> DEFINE c == Chosen(T)
  <2>1. IsFiniteSet(T) /\ T # {}
    BY <1>1, OneFewer
  <2>2. c \in T /\ SumFunctionOnSet(f, T) = f[c] + SumFunctionOnSet(f, T \ {c})
    BY <2>1, ChosenIn, SumStep
  <2> HIDE DEF c
  <2>3. CASE y = c
    BY <2>2, <2>3
  <2>4. CASE y # c
    <3>1. /\ T \ {c} \in SUBSET I /\ Cardinality(T \ {c}) = n /\ y \in T \ {c}
          /\ T \ {y} \in SUBSET I /\ Cardinality(T \ {y}) = n /\ c \in T \ {y}
      BY <2>1, <2>2, <2>4, OneFewer
    <3>2. /\ SumFunctionOnSet(f, T \ {c}) = f[y] + SumFunctionOnSet(f, (T \ {c}) \ {y})
          /\ SumFunctionOnSet(f, T \ {y}) = f[c] + SumFunctionOnSet(f, (T \ {y}) \ {c})
      BY <1>3, <3>1
    <3>3. (T \ {c}) \ {y} = (T \ {y}) \ {c} /\ (T \ {y}) \ {c} \in SUBSET I
      OBVIOUS
    <3>4. SumFunctionOnSet(f, (T \ {y}) \ {c}) \in Nat /\ f[c] \in Nat /\ f[y] \in Nat
      BY <1>1, <2>2, <3>3
    <3> QED
      BY <2>2, <3>2, <3>3, <3>4
  <2> QED
    BY <2>3, <2>4
<1> HIDE DEF N
<1>4. Nat \subseteq N
  BY <1>2, <1>3, NatSetInduction
<1>5. IsFiniteSet(I) /\ Cardinality(I) \in N
  BY <1>1, <1>4
<1> QED
  BY <1>5 DEF N

\* The sum does not shrink when no value does.
LEMMA SumMonotone ==
  ASSUME NEW f, NEW g, NEW I, IsFiniteSet(I),
         \A i \in I : f[i] \in Nat /\ g[i] \in Nat /\ f[i] <= g[i]
  PROVE  SumFunctionOnSet(f, I) <= SumFunctionOnSet(g, I)
<1> DEFINE P == {T \in SUBSET I : SumFunctionOnSet(f, T) <= SumFunctionOnSet(g, T)}
<1>1. {} \in P
  BY SumEmpty
<1>2. ASSUME NEW T \in SUBSET I, NEW x \in I \ T, T \in P
      PROVE  T \cup {x} \in P
  <2>1. IsFiniteSet(T) /\ IsFiniteSet(T \cup {x}) /\ (T \cup {x}) \ {x} = T
    BY FS_Subset
  <2>2. /\ SumFunctionOnSet(f, T \cup {x}) = f[x] + SumFunctionOnSet(f, T)
        /\ SumFunctionOnSet(g, T \cup {x}) = g[x] + SumFunctionOnSet(g, T)
    BY <2>1, SumRemove
  <2>3. SumFunctionOnSet(f, T) \in Nat /\ SumFunctionOnSet(g, T) \in Nat
    BY <2>1, SumInNat
  <2> QED
    BY <1>2, <2>2, <2>3
<1> HIDE DEF P
<1>3. I \in P
  BY <1>1, <1>2, SubsetInduction
<1> QED
  BY <1>3 DEF P

\* A sum of natural numbers is zero only when all of them are.
LEMMA SumZero ==
  ASSUME NEW f, NEW I, IsFiniteSet(I), \A i \in I : f[i] \in Nat
  PROVE  SumFunctionOnSet(f, I) = 0 <=> \A i \in I : f[i] = 0
<1>1. ASSUME SumFunctionOnSet(f, I) = 0, NEW x \in I
      PROVE  f[x] = 0
  <2>1. SumFunctionOnSet(f, I) = f[x] + SumFunctionOnSet(f, I \ {x})
    BY SumRemove
  <2>2. SumFunctionOnSet(f, I \ {x}) \in Nat
    BY FS_Subset, SumInNat
  <2> QED
    BY <1>1, <2>1, <2>2
<1>2. ASSUME \A i \in I : f[i] = 0
      PROVE  SumFunctionOnSet(f, I) = 0
  <2> DEFINE P == {T \in SUBSET I : SumFunctionOnSet(f, T) = 0}
  <2>1. {} \in P
    BY SumEmpty
  <2>2. ASSUME NEW T \in SUBSET I, NEW x \in I \ T, T \in P
        PROVE  T \cup {x} \in P
    <3>1. IsFiniteSet(T \cup {x}) /\ (T \cup {x}) \ {x} = T
      BY FS_Subset
    <3>2. SumFunctionOnSet(f, T \cup {x}) = f[x] + SumFunctionOnSet(f, T)
      BY <3>1, SumRemove
    <3> QED
      BY <1>2, <2>2, <3>2
  <2> HIDE DEF P
  <2>3. I \in P
    BY <2>1, <2>2, SubsetInduction
  <2> QED
    BY <2>3 DEF P
<1> QED
  BY <1>1, <1>2

\* The sum does not depend on what the values are indexed by.
LEMMA SumReindex ==
  ASSUME NEW f, NEW g, NEW I, NEW J, NEW p \in [I -> J], IsFiniteSet(I),
         \A i, j \in I : p[i] = p[j] => i = j,
         \A j \in J : \E i \in I : p[i] = j,
         \A i \in I : f[i] \in Nat /\ g[p[i]] = f[i]
  PROVE  SumFunctionOnSet(f, I) = SumFunctionOnSet(g, J)
<1> DEFINE Im(T) == {p[i] : i \in T}
           P == {T \in SUBSET I : SumFunctionOnSet(f, T) = SumFunctionOnSet(g, Im(T))}
<1>1. {} \in P
  <2>1. Im({}) = {}
    OBVIOUS
  <2> QED
    BY <2>1, SumEmpty
<1>2. IsFiniteSet(J)
  <2>1. p \in Surjection(I, J)
    BY Fun_IsSurj
  <2> QED
    BY <2>1, FS_Surjection
<1>3. ASSUME NEW T \in SUBSET I, NEW x \in I \ T, T \in P
      PROVE  T \cup {x} \in P
  <2>1. IsFiniteSet(T \cup {x}) /\ (T \cup {x}) \ {x} = T
    BY FS_Subset
  <2>2. SumFunctionOnSet(f, T \cup {x}) = f[x] + SumFunctionOnSet(f, T)
    BY <2>1, SumRemove
  <2> PICK U : U = Im(T \cup {x})
    OBVIOUS
  <2>3. U \in SUBSET J /\ p[x] \in U /\ U \ {p[x]} = Im(T)
    OBVIOUS
  <2>4. IsFiniteSet(U)
    BY <1>2, <2>3, FS_Subset
  <2>5. \A j \in U : g[j] \in Nat
    OBVIOUS
  <2>6. SumFunctionOnSet(g, U) = g[p[x]] + SumFunctionOnSet(g, U \ {p[x]})
    BY <2>3, <2>4, <2>5, SumRemove
  <2> QED
    BY <1>3, <2>2, <2>3, <2>6
<1> HIDE DEF P
<1>4. I \in P
  BY <1>1, <1>3, SubsetInduction
<1>5. Im(I) = J
  OBVIOUS
<1> QED
  BY <1>4, <1>5 DEF P

\* One value more by one makes the sum more by one.
LEMMA SumOneMore ==
  ASSUME NEW f, NEW g, NEW I, IsFiniteSet(I), NEW x \in I,
         \A i \in I : f[i] \in Nat, g[x] = f[x] + 1,
         \A i \in I : i # x => g[i] = f[i]
  PROVE  SumFunctionOnSet(g, I) = SumFunctionOnSet(f, I) + 1
<1> DEFINE R == I \ {x}
<1>1. IsFiniteSet(R) /\ \A i \in R : f[i] \in Nat /\ g[i] \in Nat /\ f[i] <= g[i] /\ g[i] <= f[i]
  BY FS_Subset
<1>2. \A i \in I : g[i] \in Nat
  OBVIOUS
<1>3. /\ SumFunctionOnSet(f, I) = f[x] + SumFunctionOnSet(f, R)
      /\ SumFunctionOnSet(g, I) = g[x] + SumFunctionOnSet(g, R)
  BY <1>2, SumRemove
<1>4. SumFunctionOnSet(f, R) \in Nat /\ SumFunctionOnSet(g, R) \in Nat
  BY <1>1, SumInNat
<1>5. /\ SumFunctionOnSet(f, R) <= SumFunctionOnSet(g, R)
      /\ SumFunctionOnSet(g, R) <= SumFunctionOnSet(f, R)
  BY <1>1, SumMonotone
<1> HIDE DEF R
<1> QED
  BY <1>3, <1>4, <1>5

\* The sum over two sets that share nothing is the sum of the sums.
LEMMA SumDisjoint ==
  ASSUME NEW f, NEW A, NEW B, IsFiniteSet(A), IsFiniteSet(B), A \cap B = {},
         \A i \in A \cup B : f[i] \in Nat
  PROVE  SumFunctionOnSet(f, A \cup B) = SumFunctionOnSet(f, A) + SumFunctionOnSet(f, B)
<1> DEFINE P == {T \in SUBSET B :
                   SumFunctionOnSet(f, A \cup T) = SumFunctionOnSet(f, A) + SumFunctionOnSet(f, T)}
<1>1. {} \in P
  <2>1. A \cup {} = A /\ SumFunctionOnSet(f, A) \in Nat
    BY SumInNat
  <2> QED
    BY <2>1, SumEmpty
<1>2. ASSUME NEW T \in SUBSET B, NEW x \in B \ T, T \in P
      PROVE  T \cup {x} \in P
  <2> PICK U : U = A \cup (T \cup {x})
    OBVIOUS
  <2>1. /\ IsFiniteSet(T) /\ IsFiniteSet(T \cup {x}) /\ (T \cup {x}) \ {x} = T
        /\ x \in T \cup {x}
    BY FS_Subset
  <2>2. IsFiniteSet(U) /\ x \in U /\ U \ {x} = A \cup T
    BY <2>1, FS_Union
  <2>3. \A i \in U : f[i] \in Nat
    OBVIOUS
  <2>4. SumFunctionOnSet(f, U) = f[x] + SumFunctionOnSet(f, A \cup T)
    BY <2>2, <2>3, SumRemove
  <2>5. SumFunctionOnSet(f, T \cup {x}) = f[x] + SumFunctionOnSet(f, T)
    <3>1. \A i \in T \cup {x} : f[i] \in Nat
      OBVIOUS
    <3> QED
      BY <2>1, <3>1, SumRemove
  <2>6. SumFunctionOnSet(f, A) \in Nat /\ SumFunctionOnSet(f, T) \in Nat /\ f[x] \in Nat
    BY <2>1, SumInNat
  <2> QED
    BY <1>2, <2>4, <2>5, <2>6
<1> HIDE DEF P
<1>3. B \in P
  BY <1>1, <1>2, SubsetInduction
<1> QED
  BY <1>3 DEF P

\* h is a table of natural numbers over I \X J, with these columns, and g gives
\* the sum of each.
ColumnSums(g, column, h, I, J) ==
  \A j \in J : /\ \A i \in I : h[<<i, j>>] \in Nat /\ column[j][i] = h[<<i, j>>]
               /\ g[j] = SumFunctionOnSet(column[j], I)

\* The sum over a table is the sum of the sums of its columns.
LEMMA SumOfColumns ==
  ASSUME NEW I, NEW J, IsFiniteSet(I), IsFiniteSet(J),
         NEW g, NEW column, NEW h, ColumnSums(g, column, h, I, J)
  PROVE  SumFunctionOnSet(h, I \X J) = SumFunctionOnSet(g, J)
<1> USE DEF ColumnSums
<1>1. ASSUME NEW j \in J PROVE SumFunctionOnSet(h, I \X {j}) = g[j]
  <2> PICK f : f = column[j]
    OBVIOUS
  <2> PICK p : p = [i \in I |-> <<i, j>>]
    OBVIOUS
  <2>1. /\ p \in [I -> I \X {j}]
        /\ \A i, k \in I : p[i] = p[k] => i = k
        /\ \A q \in I \X {j} : \E i \in I : p[i] = q
        /\ \A i \in I : f[i] \in Nat /\ h[p[i]] = f[i]
    OBVIOUS
  <2>2. SumFunctionOnSet(f, I) = SumFunctionOnSet(h, I \X {j})
    BY ONLY <2>1, IsFiniteSet(I), SumReindex
  <2> QED
    BY <2>2
<1>2. \A j \in J : g[j] \in Nat
  <2> SUFFICES ASSUME NEW j \in J PROVE g[j] \in Nat
    OBVIOUS
  <2> PICK f : f = column[j]
    OBVIOUS
  <2>1. SumFunctionOnSet(f, I) \in Nat
    BY SumInNat
  <2> QED
    BY <2>1
<1> DEFINE P == {T \in SUBSET J : SumFunctionOnSet(h, I \X T) = SumFunctionOnSet(g, T)}
<1>3. {} \in P
  <2>1. I \X {} = {}
    OBVIOUS
  <2> QED
    BY <2>1, SumEmpty
<1>4. ASSUME NEW T \in SUBSET J, NEW x \in J \ T, T \in P
      PROVE  T \cup {x} \in P
  <2>1. /\ IsFiniteSet(T) /\ IsFiniteSet(T \cup {x}) /\ (T \cup {x}) \ {x} = T
        /\ IsFiniteSet(I \X T) /\ IsFiniteSet(I \X {x})
    <3>1. /\ IsFiniteSet(T) /\ IsFiniteSet(T \cup {x}) /\ (T \cup {x}) \ {x} = T
          /\ IsFiniteSet({x})
      BY FS_Subset
    <3> QED
      BY <3>1, FS_Product
  <2>2. I \X (T \cup {x}) = (I \X T) \cup (I \X {x}) /\ (I \X T) \cap (I \X {x}) = {}
    OBVIOUS
  <2>3. \A q \in (I \X T) \cup (I \X {x}) : h[q] \in Nat
    OBVIOUS
  <2>4. SumFunctionOnSet(h, (I \X T) \cup (I \X {x}))
          = SumFunctionOnSet(h, I \X T) + SumFunctionOnSet(h, I \X {x})
    BY <2>1, <2>2, <2>3, SumDisjoint
  <2>5. SumFunctionOnSet(h, I \X {x}) = g[x]
    BY <1>1
  <2>6. SumFunctionOnSet(g, T \cup {x}) = g[x] + SumFunctionOnSet(g, T)
    <3> PICK U : U = T \cup {x}
      OBVIOUS
    <3>1. IsFiniteSet(U) /\ x \in U /\ U \ {x} = T /\ \A j \in U : g[j] \in Nat
      BY <1>2, <2>1
    <3>2. SumFunctionOnSet(g, U) = g[x] + SumFunctionOnSet(g, U \ {x})
      BY <3>1, SumRemove
    <3> QED
      BY <3>1, <3>2
  <2>7. SumFunctionOnSet(g, T) \in Nat /\ g[x] \in Nat
    BY <1>2, <2>1, SumInNat
  <2>8. SumFunctionOnSet(h, I \X T) = SumFunctionOnSet(g, T)
    BY <1>4
  <2>9. SumFunctionOnSet(h, I \X (T \cup {x})) = SumFunctionOnSet(g, T \cup {x})
    <3>1. SumFunctionOnSet(h, I \X (T \cup {x})) = SumFunctionOnSet(h, (I \X T) \cup (I \X {x}))
      BY <2>2
    <3>2. SumFunctionOnSet(h, (I \X T) \cup (I \X {x})) = SumFunctionOnSet(g, T) + g[x]
      BY <2>4, <2>5, <2>8
    <3> QED
      BY <2>6, <2>7, <3>1, <3>2
  <2> QED
    BY <2>9
<1> HIDE DEF P
<1>5. J \in P
  BY <1>3, <1>4, SubsetInduction
<1> QED
  BY <1>5 DEF P

----------------------------------------------------------------------------
(* Powers of two                                                           *)

\* The shift by zero.
LEMMA PowerZero == 2 ^ 0 = 1
  OBVIOUS

\* Exponentiation is repeated doubling.  The prover knows 2 ^ n only as a symbol,
\* so this counts: a set of n elements has 2 ^ n subsets, and each of them is
\* with and without one element more.
LEMMA PowerStep ==
  ASSUME NEW n \in Nat
  PROVE  /\ 2 ^ n \in Nat
         /\ 2 ^ (n + 1) = 2 * 2 ^ n
<1> DEFINE A == SUBSET (1 .. n)
           B == {X \cup {n + 1} : X \in A}
<1>1. /\ IsFiniteSet(1 .. n) /\ Cardinality(1 .. n) = n
      /\ IsFiniteSet(1 .. n + 1) /\ Cardinality(1 .. n + 1) = n + 1
  BY FS_Interval
<1>2. IsFiniteSet(A) /\ Cardinality(A) = 2 ^ n
  <2>1. IsFiniteSet(SUBSET (1 .. n)) /\ Cardinality(SUBSET (1 .. n)) = 2 ^ Cardinality(1 .. n)
    BY <1>1, FS_SUBSET
  <2> QED
    BY <1>1, <2>1
<1>3. Cardinality(SUBSET (1 .. n + 1)) = 2 ^ (n + 1)
  <2>1. Cardinality(SUBSET (1 .. n + 1)) = 2 ^ Cardinality(1 .. n + 1)
    BY <1>1, FS_SUBSET
  <2> QED
    BY <1>1, <2>1
<1>4. IsFiniteSet(B) /\ Cardinality(B) = Cardinality(A)
  <2> DEFINE F == [X \in A |-> X \cup {n + 1}]
  <2>1. F \in [A -> B] /\ \A y \in B : \E X \in A : F[X] = y
    OBVIOUS
  <2>2. ASSUME NEW X \in A, NEW Y \in A, F[X] = F[Y]
        PROVE  X = Y
    <3>1. n + 1 \notin X /\ n + 1 \notin Y
      OBVIOUS
    <3>2. X \cup {n + 1} = Y \cup {n + 1}
      BY <2>2
    <3> QED
      BY <3>1, <3>2
  <2> HIDE DEF F, B, A
  <2>3. F \in Bijection(A, B)
    BY <2>1, <2>2, Fun_IsBij
  <2>4. ExistsBijection(A, B)
    BY <2>3 DEF ExistsBijection
  <2> QED
    BY <1>2, <2>4, FS_Bijection
<1>5. A \cap B = {} /\ SUBSET (1 .. n + 1) = A \cup B
  <2>1. \A X \in A : n + 1 \notin X
    OBVIOUS
  <2>2. A \cap B = {}
    BY <2>1
  <2>3. ASSUME NEW X \in SUBSET (1 .. n + 1) PROVE X \in A \cup B
    <3>1. CASE n + 1 \in X
      <4>1. X \ {n + 1} \in A /\ X = (X \ {n + 1}) \cup {n + 1}
        BY <3>1
      <4> QED
        BY <4>1
    <3>2. CASE n + 1 \notin X
      BY <3>2
    <3> QED
      BY <3>1, <3>2
  <2>4. ASSUME NEW X \in A \cup B PROVE X \in SUBSET (1 .. n + 1)
    OBVIOUS
  <2> QED
    BY <2>2, <2>3, <2>4
<1> HIDE DEF A, B
<1>6. Cardinality(A \cup B) = Cardinality(A) + Cardinality(B)
  <2>1. Cardinality(A \cap B) = 0
    BY <1>5, FS_EmptySet
  <2>2. Cardinality(A \cup B) = Cardinality(A) + Cardinality(B) - 0
    BY <1>2, <1>4, <2>1, FS_Union
  <2>3. Cardinality(A) \in Nat /\ Cardinality(B) \in Nat
    BY <1>2, <1>4, FS_CardinalityType
  <2> QED
    BY <2>2, <2>3
<1>7. 2 ^ n \in Nat
  BY <1>2, FS_CardinalityType
<1>8. 2 ^ (n + 1) = 2 ^ n + 2 ^ n
  BY <1>2, <1>3, <1>4, <1>5, <1>6
<1> QED
  BY <1>7, <1>8

\* A power of two is a positive natural number.
LEMMA PowerPositive ==
  ASSUME NEW n \in Nat
  PROVE  2 ^ n \in Nat \ {0}
<1> DEFINE S == {k \in Nat : 2 ^ k > 0}
<1>1. 0 \in S
  BY PowerZero
<1>2. ASSUME NEW k \in Nat, k \in S PROVE k + 1 \in S
  BY <1>2, PowerStep
<1> HIDE DEF S
<1>3. Nat \subseteq S
  BY <1>1, <1>2, NatSetInduction
<1>4. 2 ^ n > 0
  BY <1>3 DEF S
<1> QED
  BY <1>4, PowerStep

\* Powers of two are in the order of their exponents.
LEMMA PowerMonotone ==
  ASSUME NEW m \in Nat, NEW n \in Nat
  PROVE  m < n <=> 2 ^ m < 2 ^ n
<1>1. ASSUME NEW i \in Nat, NEW k \in Nat PROVE 2 ^ i <= 2 ^ (i + k)
  <2> DEFINE S == {j \in Nat : 2 ^ i <= 2 ^ (i + j)}
  <2>1. 0 \in S
    BY PowerStep
  <2>2. ASSUME NEW j \in Nat, j \in S PROVE j + 1 \in S
    <3>1. i + j \in Nat /\ (i + j) + 1 = i + (j + 1)
      OBVIOUS
    <3>2. 2 ^ (i + (j + 1)) = 2 * 2 ^ (i + j) /\ 2 ^ (i + j) \in Nat /\ 2 ^ i \in Nat
      BY <3>1, PowerStep
    <3> QED
      BY <2>2, <3>2
  <2> HIDE DEF S
  <2>3. Nat \subseteq S
    BY <2>1, <2>2, NatSetInduction
  <2> QED
    BY <2>3 DEF S
<1>2. ASSUME NEW i \in Nat, NEW j \in Nat, i <= j PROVE 2 ^ i <= 2 ^ j
  <2>1. j - i \in Nat /\ i + (j - i) = j
    BY <1>2
  <2> QED
    BY <1>1, <2>1
<1>3. CASE m < n
  <2>1. 2 ^ (m + 1) <= 2 ^ n
    BY <1>2, <1>3
  <2> QED
    BY <1>3, <2>1, PowerStep, PowerPositive
<1>4. CASE ~(m < n)
  <2>1. 2 ^ n <= 2 ^ m
    BY <1>2, <1>4
  <2> QED
    BY <1>4, <2>1, PowerStep
<1> QED
  BY <1>3, <1>4

\* What integer division leaves.
LEMMA DivBounds ==
  ASSUME NEW v \in Nat, NEW a \in Nat \ {0}
  PROVE  /\ v \div a \in Nat
         /\ a * (v \div a) <= v
         /\ v < a * (v \div a) + a
OBVIOUS
============================================================================
