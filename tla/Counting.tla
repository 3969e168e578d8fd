------------------------------ MODULE Counting ------------------------------
(***************************************************************************)
(* How the size of a set changes when one element enters or leaves it: the   *)
(* lemma behind every proof that permits, places or files are conserved; the  *)
(* first element of a finite set in an order: the top of every queue; sums     *)
(* over finite sets, which no order of the summands changes; what a fold takes    *)
(* from a sequence, one element after the other; and sequences of distinct      *)
(* members, and of rows put one after the other.                              *)
(***************************************************************************)
EXTENDS Integers, FiniteSets, Sequences, FiniteSetTheorems, SequenceTheorems, TLAPS

\* The change of size from A to B, which differ at most in c.
Change(A, B, c) == IF c \in B /\ c \notin A THEN 1
                   ELSE IF c \in A /\ c \notin B THEN -1 ELSE 0

\* Two sets that agree but for one element differ in size by that element.
LEMMA OneElementChanges ==
  ASSUME NEW A, NEW B, NEW c, IsFiniteSet(A), A \ {c} = B \ {c}
  PROVE  /\ IsFiniteSet(B)
         /\ Cardinality(A) \in Nat /\ Cardinality(B) \in Nat
         /\ Cardinality(B) = Cardinality(A) + Change(A, B, c)
<1> DEFINE Common == A \ {c}
<1>1. IsFiniteSet(Common)
  BY FS_RemoveElement
<1>2. A = Common \/ A = Common \cup {c}
  OBVIOUS
<1>3. B = Common \/ B = Common \cup {c}
  OBVIOUS
<1>4. /\ IsFiniteSet(Common \cup {c})
      /\ Cardinality(Common \cup {c}) = Cardinality(Common) + 1
  BY <1>1, FS_AddElement
<1>5. IsFiniteSet(B)
  BY <1>1, <1>3, <1>4
<1>6. /\ Cardinality(Common) \in Nat
      /\ Cardinality(A) \in Nat /\ Cardinality(B) \in Nat
  BY <1>1, <1>5, FS_CardinalityType
<1>7. Cardinality(B) = Cardinality(A) + Change(A, B, c)
  <2>1. CASE c \in A /\ c \in B
    <3>1. A = B
      BY <2>1
    <3> QED BY <2>1, <3>1, <1>6 DEF Change
  <2>2. CASE c \notin A /\ c \notin B
    <3>1. A = B
      BY <2>2
    <3> QED BY <2>2, <3>1, <1>6 DEF Change
  <2>3. CASE c \in A /\ c \notin B
    <3>1. A = Common \cup {c} /\ B = Common
      BY <2>3
    <3> QED BY <2>3, <3>1, <1>4, <1>6 DEF Change
  <2>4. CASE c \notin A /\ c \in B
    <3>1. A = Common /\ B = Common \cup {c}
      BY <2>4
    <3> QED BY <2>4, <3>1, <1>4, <1>6 DEF Change
  <2> QED BY <2>1, <2>2, <2>3, <2>4
<1> QED BY <1>5, <1>6, <1>7

\* The size of four disjoint sets together.
LEMMA FourPlaces ==
  ASSUME NEW A, NEW B, NEW C, NEW D,
         IsFiniteSet(A), IsFiniteSet(B), IsFiniteSet(C), IsFiniteSet(D),
         A \cap B = {}, (A \cup B) \cap C = {}, (A \cup B \cup C) \cap D = {}
  PROVE  Cardinality(A \cup B \cup C \cup D)
           = Cardinality(A) + Cardinality(B) + Cardinality(C) + Cardinality(D)
<1>1. Cardinality({}) = 0
  BY FS_EmptySet
<1>2. /\ Cardinality(A) \in Nat /\ Cardinality(B) \in Nat
      /\ Cardinality(C) \in Nat /\ Cardinality(D) \in Nat
  BY FS_CardinalityType
<1>3. /\ IsFiniteSet(A \cup B)
      /\ Cardinality(A \cup B) = Cardinality(A) + Cardinality(B) - Cardinality({})
  BY FS_Union
<1>4. /\ IsFiniteSet(A \cup B \cup C)
      /\ Cardinality(A \cup B \cup C)
           = Cardinality(A \cup B) + Cardinality(C) - Cardinality({})
  BY <1>3, FS_Union
<1>5. Cardinality(A \cup B \cup C \cup D)
        = Cardinality(A \cup B \cup C) + Cardinality(D) - Cardinality({})
  BY <1>4, FS_Union
<1> QED BY <1>1, <1>2, <1>3, <1>4, <1>5

----------------------------------------------------------------------------
\* A finite set has a first element in any strict order R.  The elements before x
\* are a subset of it; a smallest such subset is empty.
LEMMA FirstOfFinite ==
  ASSUME NEW S, IsFiniteSet(S), S # {}, NEW R,
         \A x \in S : <<x, x>> \notin R,
         \A x, y, z \in S : <<x, y>> \in R /\ <<y, z>> \in R => <<x, z>> \in R
  PROVE  \E x \in S : \A y \in S : <<y, x>> \notin R
<1> DEFINE Earlier(x) == {y \in S : <<y, x>> \in R}
           T == {Earlier(x) : x \in S}
<1>1. IsWellFoundedOn(StrictSubsetOrdering(S), FiniteSubsetsOf(S))
  BY FS_StrictSubsetOrderingWellFounded
<1>2. T \subseteq FiniteSubsetsOf(S) /\ T # {}
  <2>1. \A A \in SUBSET S : IsFiniteSet(A)
    BY FS_Subset
  <2>2. SUBSET S \subseteq FiniteSubsetsOf(S)
    BY <2>1 DEF FiniteSubsetsOf
  <2>3. \A x \in S : Earlier(x) \in SUBSET S
    OBVIOUS
  <2>4. T \subseteq SUBSET S
    <3> HIDE DEF Earlier
    <3> SUFFICES ASSUME NEW A \in T PROVE A \in SUBSET S
      OBVIOUS
    <3>1. PICK x \in S : A = Earlier(x)
      OBVIOUS
    <3> QED BY <2>3, <3>1
  <2>5. T # {}
    <3>1. PICK x \in S : TRUE
      OBVIOUS
    <3>2. Earlier(x) \in T
      BY <3>1
    <3> QED BY <3>2
  <2> QED BY <2>2, <2>4, <2>5
<1>3. PICK A \in T : \A B \in T : <<B, A>> \notin StrictSubsetOrdering(S)
  <2> HIDE DEF T
  <2> QED BY <1>1, <1>2, WFMin
<1>4. PICK x \in S : A = Earlier(x)
  OBVIOUS
<1>5. ASSUME NEW y \in S, <<y, x>> \in R
      PROVE  FALSE
  <2>1. Earlier(y) \subseteq Earlier(x) /\ y \in Earlier(x) /\ y \notin Earlier(y)
    BY <1>5
  <2>2. Earlier(y) \in SUBSET S /\ Earlier(x) \in SUBSET S /\ Earlier(y) \in T
    OBVIOUS
  <2> HIDE DEF Earlier, T
  <2>3. <<Earlier(y), Earlier(x)>> \in StrictSubsetOrdering(S)
    BY <2>1, <2>2 DEF StrictSubsetOrdering
  <2> QED BY <1>3, <1>4, <2>2, <2>3
<1> QED BY <1>5

\* Numbers that all move up by one are as many as before.
LEMMA ShiftedNumbers ==
  ASSUME NEW S \in SUBSET Int, IsFiniteSet(S)
  PROVE  /\ IsFiniteSet({i + 1 : i \in S})
         /\ Cardinality({i + 1 : i \in S}) = Cardinality(S)
<1> DEFINE T == {i + 1 : i \in S}
           f == [i \in S |-> i + 1]
<1>1. f \in Bijection(S, T)
  <2>1. \A a, b \in S : f[a] = f[b] => a = b
    OBVIOUS
  <2>2. f \in [S -> T] /\ \A t \in T : \E i \in S : f[i] = t
    OBVIOUS
  <2> HIDE DEF f, T
  <2>3. f \in Injection(S, T)
    BY <2>1, <2>2 DEF Injection, IsInjective
  <2>4. f \in Surjection(S, T)
    BY <2>2 DEF Surjection
  <2> QED BY <2>3, <2>4 DEF Bijection
<1>2. ExistsBijection(S, T)
  BY <1>1 DEF ExistsBijection
<1> QED BY <1>2, FS_Bijection

----------------------------------------------------------------------------
\* The sum of f over a finite set: what the folds of the community modules compute,
\* which take one element after the other.
Taken(s) == CHOOSE x \in s : TRUE
IsSum(g, f, S) ==
  g = [s \in SUBSET S |-> IF s = {} THEN 0 ELSE f[Taken(s)] + g[s \ {Taken(s)}]]
Total(f, S) == (CHOOSE g : IsSum(g, f, S))[S]

\* Of some subsets of a finite set one has no other among its subsets: what fails
\* for a subset fails for a smallest one.
LEMMA SmallestSubset ==
  ASSUME NEW S, IsFiniteSet(S), NEW Bad \in SUBSET SUBSET S, Bad # {}
  PROVE  \E A \in Bad : \A B \in SUBSET A : B # A => B \notin Bad
<1>1. IsWellFoundedOn(StrictSubsetOrdering(S), FiniteSubsetsOf(S))
  BY FS_StrictSubsetOrderingWellFounded
<1>2. \A A \in SUBSET S : IsFiniteSet(A)
  BY FS_Subset
<1>3. Bad \subseteq FiniteSubsetsOf(S)
  BY <1>2 DEF FiniteSubsetsOf
<1>4. PICK A \in Bad : \A B \in Bad : <<B, A>> \notin StrictSubsetOrdering(S)
  BY <1>1, <1>3, WFMin
<1>5. ASSUME NEW B \in SUBSET A, B # A, B \in Bad
      PROVE  FALSE
  <2>1. <<B, A>> \in StrictSubsetOrdering(S)
    BY <1>5 DEF StrictSubsetOrdering
  <2> QED BY <1>4, <1>5, <2>1
<1> QED BY <1>5

\* The element that is taken is one of the set.
LEMMA TakenIsMember ==
  ASSUME NEW s, s # {}
  PROVE  Taken(s) \in s
BY DEF Taken

\* Two functions that add up f agree where both are defined,
LEMMA SumIsUnique ==
  ASSUME NEW f, NEW S, IsFiniteSet(S), NEW T, NEW g, NEW h, IsSum(g, f, S), IsSum(h, f, T)
  PROVE  \A s \in SUBSET S : s \in SUBSET T => g[s] = h[s]
<1> DEFINE Bad == {s \in SUBSET S : s \in SUBSET T /\ g[s] # h[s]}
<1> SUFFICES ASSUME Bad # {} PROVE FALSE
  OBVIOUS
<1>1. PICK A \in Bad : \A B \in SUBSET A : B # A => B \notin Bad
  <2> HIDE DEF Bad
  <2>1. Bad \in SUBSET SUBSET S
    BY DEF Bad
  <2> QED BY <2>1, SmallestSubset
<1>2. /\ g[A] = IF A = {} THEN 0 ELSE f[Taken(A)] + g[A \ {Taken(A)}]
      /\ h[A] = IF A = {} THEN 0 ELSE f[Taken(A)] + h[A \ {Taken(A)}]
  BY DEF IsSum
<1>3. A # {}
  BY <1>2
<1>4. Taken(A) \in A
  BY <1>3, TakenIsMember
<1>5. g[A \ {Taken(A)}] = h[A \ {Taken(A)}]
  BY <1>1, <1>4
<1> QED BY <1>2, <1>5

\* and over a finite set there is one.
LEMMA SumExists ==
  ASSUME NEW f, NEW S, IsFiniteSet(S)
  PROVE  \E g : IsSum(g, f, S)
<1> DEFINE Bad == {T \in SUBSET S : ~\E g : IsSum(g, f, T)}
<1> SUFFICES ASSUME Bad # {} PROVE FALSE
  OBVIOUS
<1>1. PICK A \in Bad : \A B \in SUBSET A : B # A => B \notin Bad
  <2> HIDE DEF Bad
  <2>1. Bad \in SUBSET SUBSET S
    BY DEF Bad
  <2> QED BY <2>1, SmallestSubset
<1>2. \A B \in SUBSET A : B # A => IsSum(CHOOSE g : IsSum(g, f, B), f, B)
  BY <1>1
<1>3. ASSUME NEW B \in SUBSET A, B # A
      PROVE  Total(f, B) = IF B = {} THEN 0
                           ELSE f[Taken(B)] + Total(f, B \ {Taken(B)})
  <2> DEFINE g == CHOOSE g : IsSum(g, f, B)
             C == B \ {Taken(B)}
             h == CHOOSE h : IsSum(h, f, C)
  <2>1. IsSum(g, f, B) /\ Total(f, B) = g[B]
    BY <1>2, <1>3 DEF Total
  <2>2. C \in SUBSET A /\ C # A
    BY <1>3
  <2>3. IsSum(h, f, C) /\ Total(f, C) = h[C]
    BY <1>2, <2>2 DEF Total
  <2>4. IsFiniteSet(B)
    BY FS_Subset
  <2> HIDE DEF g, h
  <2>5. g[B] = IF B = {} THEN 0 ELSE f[Taken(B)] + g[C]
    BY <2>1 DEF IsSum
  <2>6. g[C] = h[C]
    BY <2>1, <2>3, <2>4, SumIsUnique
  <2> QED BY <2>1, <2>3, <2>5, <2>6
<1> DEFINE k == [s \in SUBSET A |-> IF s = {} THEN 0
                                    ELSE f[Taken(s)] + Total(f, s \ {Taken(s)})]
<1>4. \A s \in SUBSET A : s # {} => k[s \ {Taken(s)}] = Total(f, s \ {Taken(s)})
  <2> SUFFICES ASSUME NEW s \in SUBSET A, s # {}
               PROVE  k[s \ {Taken(s)}] = Total(f, s \ {Taken(s)})
    OBVIOUS
  <2>1. Taken(s) \in s
    BY TakenIsMember
  <2>2. s \ {Taken(s)} \in SUBSET A /\ s \ {Taken(s)} # A
    BY <2>1
  <2> QED BY <1>3, <2>2
<1>5. IsSum(k, f, A)
  <2> HIDE DEF k
  <2>1. k = [s \in SUBSET A |-> IF s = {} THEN 0
                                ELSE f[Taken(s)] + Total(f, s \ {Taken(s)})]
    BY DEF k
  <2>2. k = [s \in SUBSET A |-> IF s = {} THEN 0 ELSE f[Taken(s)] + k[s \ {Taken(s)}]]
    BY <1>4, <2>1
  <2> QED BY <2>2 DEF IsSum
<1> QED BY <1>1, <1>5

\* The sum of nothing is 0; any other is one element and the rest.
LEMMA TotalTakes ==
  ASSUME NEW f, NEW S, IsFiniteSet(S)
  PROVE  Total(f, S) = IF S = {} THEN 0 ELSE f[Taken(S)] + Total(f, S \ {Taken(S)})
<1> DEFINE T == S \ {Taken(S)}
           g == CHOOSE g : IsSum(g, f, S)
           h == CHOOSE h : IsSum(h, f, T)
<1>1. IsFiniteSet(T)
  BY FS_Subset
<1>2. IsSum(g, f, S) /\ Total(f, S) = g[S]
  BY SumExists DEF Total
<1>3. IsSum(h, f, T) /\ Total(f, T) = h[T]
  BY <1>1, SumExists DEF Total
<1> HIDE DEF g, h
<1>4. g[S] = IF S = {} THEN 0 ELSE f[Taken(S)] + g[T]
  BY <1>2 DEF IsSum
<1>5. g[T] = h[T]
  BY <1>2, <1>3, SumIsUnique
<1> QED BY <1>2, <1>3, <1>4, <1>5

\* A sum of integers is an integer,
LEMMA TotalIsInt ==
  ASSUME NEW f, NEW S, IsFiniteSet(S), \A x \in S : f[x] \in Int
  PROVE  Total(f, S) \in Int
<1> DEFINE Bad == {T \in SUBSET S : Total(f, T) \notin Int}
<1> SUFFICES ASSUME Bad # {} PROVE FALSE
  OBVIOUS
<1>1. PICK A \in Bad : \A B \in SUBSET A : B # A => B \notin Bad
  <2> HIDE DEF Bad
  <2>1. Bad \in SUBSET SUBSET S
    BY DEF Bad
  <2> QED BY <2>1, SmallestSubset
<1>2. Total(f, A) = IF A = {} THEN 0 ELSE f[Taken(A)] + Total(f, A \ {Taken(A)})
  BY FS_Subset, TotalTakes
<1>3. CASE A = {}
  BY <1>1, <1>2, <1>3
<1>4. CASE A # {}
  <2>1. Taken(A) \in A
    BY <1>4, TakenIsMember
  <2>2. Total(f, A \ {Taken(A)}) \in Int
    BY <1>1, <2>1
  <2> QED BY <1>1, <1>2, <1>4, <2>1, <2>2
<1> QED BY <1>3, <1>4

\* of natural numbers a natural number,
LEMMA TotalIsNat ==
  ASSUME NEW f, NEW S, IsFiniteSet(S), \A x \in S : f[x] \in Nat
  PROVE  Total(f, S) \in Nat
<1> DEFINE Bad == {T \in SUBSET S : Total(f, T) \notin Nat}
<1> SUFFICES ASSUME Bad # {} PROVE FALSE
  OBVIOUS
<1>1. PICK A \in Bad : \A B \in SUBSET A : B # A => B \notin Bad
  <2> HIDE DEF Bad
  <2>1. Bad \in SUBSET SUBSET S
    BY DEF Bad
  <2> QED BY <2>1, SmallestSubset
<1>2. Total(f, A) = IF A = {} THEN 0 ELSE f[Taken(A)] + Total(f, A \ {Taken(A)})
  BY FS_Subset, TotalTakes
<1>3. CASE A = {}
  BY <1>1, <1>2, <1>3
<1>4. CASE A # {}
  <2>1. Taken(A) \in A
    BY <1>4, TakenIsMember
  <2>2. Total(f, A \ {Taken(A)}) \in Nat
    BY <1>1, <2>1
  <2> QED BY <1>1, <1>2, <1>4, <2>1, <2>2
<1> QED BY <1>3, <1>4

\* and depends on the summands only.
LEMMA TotalOfEquals ==
  ASSUME NEW f, NEW g, NEW S, IsFiniteSet(S), \A x \in S : f[x] = g[x]
  PROVE  Total(f, S) = Total(g, S)
<1> DEFINE Bad == {T \in SUBSET S : Total(f, T) # Total(g, T)}
<1> SUFFICES ASSUME Bad # {} PROVE FALSE
  OBVIOUS
<1>1. PICK A \in Bad : \A B \in SUBSET A : B # A => B \notin Bad
  <2> HIDE DEF Bad
  <2>1. Bad \in SUBSET SUBSET S
    BY DEF Bad
  <2> QED BY <2>1, SmallestSubset
<1>2. /\ Total(f, A) = IF A = {} THEN 0 ELSE f[Taken(A)] + Total(f, A \ {Taken(A)})
      /\ Total(g, A) = IF A = {} THEN 0 ELSE g[Taken(A)] + Total(g, A \ {Taken(A)})
  BY FS_Subset, TotalTakes
<1>3. CASE A = {}
  BY <1>1, <1>2, <1>3
<1>4. CASE A # {}
  <2>1. Taken(A) \in A
    BY <1>4, TakenIsMember
  <2>2. Total(f, A \ {Taken(A)}) = Total(g, A \ {Taken(A)})
    BY <1>1, <2>1
  <2> QED BY <1>1, <1>2, <1>4, <2>1, <2>2
<1> QED BY <1>3, <1>4

\* Any element may be the one that is taken.
LEMMA TotalAdds ==
  ASSUME NEW f, NEW S, IsFiniteSet(S), \A x \in S : f[x] \in Int, NEW c \in S
  PROVE  Total(f, S) = f[c] + Total(f, S \ {c})
<1> DEFINE Bad == {T \in SUBSET S : \E x \in T : Total(f, T) # f[x] + Total(f, T \ {x})}
<1> SUFFICES ASSUME Bad # {} PROVE FALSE
  OBVIOUS
<1>1. PICK A \in Bad : \A B \in SUBSET A : B # A => B \notin Bad
  <2> HIDE DEF Bad
  <2>1. Bad \in SUBSET SUBSET S
    BY DEF Bad
  <2> QED BY <2>1, SmallestSubset
<1>2. PICK x \in A : Total(f, A) # f[x] + Total(f, A \ {x})
  OBVIOUS
<1> DEFINE v == Taken(A)
           rest == (A \ {v}) \ {x}
<1>3. v \in A /\ A \in SUBSET S /\ x \in A
  BY TakenIsMember
<1>4. Total(f, A) = f[v] + Total(f, A \ {v})
  BY <1>3, FS_Subset, TotalTakes
<1>5. v # x
  BY <1>2, <1>4
<1>6. Total(f, A \ {v}) = f[x] + Total(f, rest)
  <2>1. A \ {v} \in SUBSET A /\ A \ {v} # A /\ x \in A \ {v}
    BY <1>3, <1>5
  <2> QED BY <1>1, <2>1
<1>7. Total(f, A \ {x}) = f[v] + Total(f, rest)
  <2>1. A \ {x} \in SUBSET A /\ A \ {x} # A /\ v \in A \ {x}
    BY <1>3, <1>5
  <2>2. Total(f, A \ {x}) = f[v] + Total(f, (A \ {x}) \ {v})
    BY <1>1, <2>1
  <2>3. (A \ {x}) \ {v} = rest
    OBVIOUS
  <2> QED BY <2>2, <2>3
<1>8. Total(f, rest) \in Int /\ f[v] \in Int /\ f[x] \in Int
  <2>1. IsFiniteSet(rest) /\ \A y \in rest : f[y] \in Int
    BY <1>3, FS_Subset
  <2> QED BY <1>3, <2>1, TotalIsInt
<1> HIDE DEF v, rest, Bad
<1>9. f[v] + (f[x] + Total(f, rest)) = f[x] + (f[v] + Total(f, rest))
  BY <1>8
<1> QED BY <1>2, <1>4, <1>6, <1>7, <1>9

\* One summand that changes changes the sum by as much.
LEMMA TotalChanges ==
  ASSUME NEW f, NEW g, NEW S, IsFiniteSet(S), NEW c \in S,
         \A x \in S : f[x] \in Int /\ g[x] \in Int,
         \A x \in S \ {c} : f[x] = g[x]
  PROVE  /\ Total(f, S) \in Int
         /\ Total(g, S) = Total(f, S) + g[c] - f[c]
<1> DEFINE rest == S \ {c}
<1>1. IsFiniteSet(rest)
  BY FS_Subset
<1>2. Total(f, rest) = Total(g, rest)
  BY <1>1, TotalOfEquals
<1>3. Total(f, S) = f[c] + Total(f, rest) /\ Total(g, S) = g[c] + Total(g, rest)
  BY TotalAdds
<1>4. Total(f, rest) \in Int
  BY <1>1, TotalIsInt
<1> QED BY <1>2, <1>3, <1>4

\* The sum over two disjoint sets is the sum of the sums.
LEMMA TotalOfUnion ==
  ASSUME NEW f, NEW S, NEW T, IsFiniteSet(S), IsFiniteSet(T), S \cap T = {},
         \A x \in S \cup T : f[x] \in Int
  PROVE  Total(f, S \cup T) = Total(f, S) + Total(f, T)
<1> DEFINE Bad == {R \in SUBSET T : Total(f, S \cup R) # Total(f, S) + Total(f, R)}
<1> SUFFICES ASSUME Bad # {} PROVE FALSE
  OBVIOUS
<1>1. PICK A \in Bad : \A B \in SUBSET A : B # A => B \notin Bad
  <2> HIDE DEF Bad
  <2>1. Bad \in SUBSET SUBSET T
    BY DEF Bad
  <2> QED BY <2>1, SmallestSubset
<1>2. IsFiniteSet(A) /\ IsFiniteSet(S \cup A)
  BY FS_Subset, FS_Union
<1>3. Total(f, S) \in Int
  BY TotalIsInt
<1>4. A # {}
  <2>1. Total(f, {}) = 0
    BY FS_EmptySet, TotalTakes
  <2>2. S \cup {} = S
    OBVIOUS
  <2>3. A \in Bad
    BY <1>1
  <2>4. A = {} => Total(f, S \cup A) = Total(f, S) + Total(f, A)
    BY <1>3, <2>1, <2>2
  <2> QED BY <2>3, <2>4
<1>5. PICK c \in A : TRUE
  BY <1>4
<1> DEFINE B == A \ {c}
<1>6. Total(f, A) = f[c] + Total(f, B)
  BY <1>2, TotalAdds
<1>7. Total(f, S \cup A) = f[c] + Total(f, (S \cup A) \ {c})
  BY <1>2, TotalAdds
<1>8. (S \cup A) \ {c} = S \cup B
  OBVIOUS
<1>9. Total(f, S \cup B) = Total(f, S) + Total(f, B)
  BY <1>1
<1>10. Total(f, B) \in Int /\ f[c] \in Int
  <2>1. IsFiniteSet(B)
    BY FS_Subset
  <2> QED BY <2>1, TotalIsInt
<1> HIDE DEF B
<1>11. f[c] + (Total(f, S) + Total(f, B)) = Total(f, S) + (f[c] + Total(f, B))
  BY <1>3, <1>10
<1>12. Total(f, S \cup A) = Total(f, S) + Total(f, A)
  <2> HIDE DEF Bad
  <2> QED BY <1>6, <1>7, <1>8, <1>9, <1>11
<1> QED BY <1>1, <1>12

\* The sum of differences is the difference of the sums.
LEMMA TotalOfDifferences ==
  ASSUME NEW f, NEW g, NEW h, NEW S, IsFiniteSet(S),
         \A x \in S : f[x] \in Int /\ g[x] \in Int /\ h[x] = f[x] - g[x]
  PROVE  Total(h, S) = Total(f, S) - Total(g, S)
<1> DEFINE Bad == {T \in SUBSET S : Total(h, T) # Total(f, T) - Total(g, T)}
<1> SUFFICES ASSUME Bad # {} PROVE FALSE
  OBVIOUS
<1>1. PICK A \in Bad : \A B \in SUBSET A : B # A => B \notin Bad
  <2> HIDE DEF Bad
  <2>1. Bad \in SUBSET SUBSET S
    BY DEF Bad
  <2> QED BY <2>1, SmallestSubset
<1> DEFINE rest == A \ {Taken(A)}
<1>2. /\ Total(f, A) = IF A = {} THEN 0 ELSE f[Taken(A)] + Total(f, rest)
      /\ Total(g, A) = IF A = {} THEN 0 ELSE g[Taken(A)] + Total(g, rest)
      /\ Total(h, A) = IF A = {} THEN 0 ELSE h[Taken(A)] + Total(h, rest)
  BY FS_Subset, TotalTakes
<1>3. A # {}
  BY <1>1, <1>2
<1>4. Taken(A) \in A /\ A \in SUBSET S
  BY <1>3, TakenIsMember
<1>5. Total(h, rest) = Total(f, rest) - Total(g, rest)
  BY <1>1, <1>4
<1>6. Total(f, rest) \in Int /\ Total(g, rest) \in Int
  <2>1. IsFiniteSet(rest) /\ rest \in SUBSET S
    BY <1>4, FS_Subset
  <2> QED BY <2>1, TotalIsInt
<1>7. Total(h, A) = Total(f, A) - Total(g, A)
  <2>1. f[Taken(A)] \in Int /\ g[Taken(A)] \in Int /\ h[Taken(A)] = f[Taken(A)] - g[Taken(A)]
    BY <1>4
  <2> HIDE DEF Bad, rest
  <2> QED BY <1>2, <1>3, <1>5, <1>6, <2>1
<1> QED BY <1>1, <1>7
\* The sum of n values, from the one after a on: one value after the other.
SumOf(f, a, n) == Total(f, (a + 1)..(a + n))

LEMMA TotalUpTo ==
  ASSUME NEW n \in Nat, NEW a \in Int, NEW f, \A i \in (a + 1)..(a + n) : f[i] \in Int
  PROVE  /\ SumOf(f, a, 0) = 0
         /\ \A k \in 0..n : SumOf(f, a, k) \in Int
         /\ \A k \in 1..n : SumOf(f, a, k) = SumOf(f, a, k - 1) + f[a + k]
<1>1. Total(f, (a + 1)..(a + 0)) = 0
  <2>1. (a + 1)..(a + 0) = {}
    OBVIOUS
  <2>2. Total(f, {}) = 0
    BY FS_EmptySet, TotalTakes
  <2> QED BY <2>1, <2>2
<1>2. ASSUME NEW k \in 0..n
      PROVE  Total(f, (a + 1)..(a + k)) \in Int
  <2> DEFINE S == (a + 1)..(a + k)
  <2>1. IsFiniteSet(S)
    BY FS_Interval
  <2>2. \A x \in S : f[x] \in Int
    OBVIOUS
  <2> HIDE DEF S
  <2>3. Total(f, S) \in Int
    BY <2>1, <2>2, TotalIsInt
  <2> QED BY <2>3 DEF S
<1>3. ASSUME NEW k \in 1..n
      PROVE  Total(f, (a + 1)..(a + k)) = Total(f, (a + 1)..(a + (k - 1))) + f[a + k]
  <2> DEFINE S == (a + 1)..(a + k)
             c == a + k
             rest == Total(f, (a + 1)..(a + (k - 1)))
  <2>1. IsFiniteSet(S)
    BY FS_Interval
  <2>2. \A x \in S : f[x] \in Int
    OBVIOUS
  <2>3. c \in S
    OBVIOUS
  <2>4. S \ {c} = (a + 1)..(a + (k - 1))
    OBVIOUS
  <2>5. rest \in Int /\ f[c] \in Int
    <3>1. k - 1 \in 0..n
      OBVIOUS
    <3> QED BY <1>2, <2>2, <2>3, <3>1
  <2> HIDE DEF S, c
  <2>6. Total(f, S) = f[c] + Total(f, S \ {c})
    BY <2>1, <2>2, <2>3, TotalAdds
  <2>7. Total(f, S) = f[c] + rest
    BY <2>4, <2>6
  <2> HIDE DEF rest
  <2>8. Total(f, S) = rest + f[c]
    BY <2>5, <2>7
  <2> QED BY <2>8 DEF S, c, rest
<1> QED BY <1>1, <1>2, <1>3 DEF SumOf

----------------------------------------------------------------------------
\* Quotient and remainder,
LEMMA Division ==
  ASSUME NEW a \in Int, NEW m \in Nat, m # 0
  PROVE  /\ a \div m \in Int /\ a % m \in 0..(m - 1) 
         /\ a = m * (a \div m) + (a % m)
OBVIOUS

\* of which there is one pair.
LEMMA OneRemainder ==
  ASSUME NEW m \in Nat, NEW q \in Int, NEW r \in 0..(m - 1), NEW p \in Int, NEW s \in 0..(m - 1),
         m * q + r = m * p + s
  PROVE  q = p /\ r = s
<1> DEFINE d == q - p
<1>1. d \in Int /\ m * d = s - r
  OBVIOUS
<1> HIDE DEF d
<1>2. d < 1
  <2> SUFFICES ASSUME d >= 1 PROVE FALSE
    BY <1>1
  <2>1. m * d >= m
    BY <1>1
  <2> QED BY <1>1, <2>1
<1>3. d > -1
  <2> SUFFICES ASSUME d <= -1 PROVE FALSE
    BY <1>1
  <2>1. m * d <= -m
    BY <1>1
  <2> QED BY <1>1, <2>1
<1>4. d = 0
  BY <1>1, <1>2, <1>3
<1> QED BY <1>1, <1>4 DEF d

LEMMA RemainderIs ==
  ASSUME NEW m \in Nat, NEW q \in Int, NEW r \in 0..(m - 1), NEW a \in Int, a = m * q + r
  PROVE  a % m = r
<1>1. m # 0
  OBVIOUS
<1> DEFINE p == a \div m
           s == a % m
<1>2. p \in Int /\ s \in 0..(m - 1) /\ a = m * p + s
  BY <1>1, Division
<1> HIDE DEF p, s
<1>3. m * q + r = m * p + s
  BY <1>2
<1>4. r = s
  BY <1>2, <1>3, OneRemainder
<1> QED BY <1>4 DEF s

\* Remainders may be taken before an addition.
LEMMA RemainderOfSum ==
  ASSUME NEW a \in Int, NEW b \in Int, NEW m \in Nat, m # 0
  PROVE  ((a % m) + b) % m = (a + b) % m
<1> DEFINE p == a \div m
           r == a % m
           q == (a + b) \div m
           s == (a + b) % m
<1>1. p \in Int /\ r \in Int /\ a = m * p + r
  BY Division
<1>2. q \in Int /\ s \in 0..(m - 1) /\ a + b = m * q + s
  BY Division
<1> HIDE DEF p, r, q, s
<1>3. r + b = m * (q - p) + s
  BY <1>1, <1>2
<1> DEFINE c == r + b
           d == q - p
<1>4. c \in Int /\ d \in Int /\ c = m * d + s
  BY <1>1, <1>2, <1>3
<1> HIDE DEF c, d
<1>5. c % m = s
  BY <1>2, <1>4, RemainderIs
<1> QED BY <1>5 DEF c, r, s
\* What FoldLeft computes: the elements of seq one after the other, by a function on
\* the sets of their indices that takes the largest index last.
Largest(s) == CHOOSE x \in s : \A y \in s : x >= y
IsFold(g, step, base, seq, S) ==
  g = [s \in SUBSET S |-> IF s = {} THEN base
                          ELSE step[<<g[s \ {Largest(s)}], seq[Largest(s)]>>]]
Fold(step, base, seq, S) == CHOOSE g : IsFold(g, step, base, seq, S)
Steps(step, V, E) == step \in [V \X E -> V]

\* A set of numbers up to n has a smallest one,
LEMMA SmallestNumber ==
  ASSUME NEW n \in Nat, NEW Bad \in SUBSET (0..n), Bad # {}
  PROVE  \E k \in Bad : \A j \in Bad : k <= j
<1> DEFINE R == {p \in Bad \X Bad : p[1] < p[2]}
<1>1. IsFiniteSet(Bad)
  <2>1. IsFiniteSet(0..n)
    BY FS_Interval
  <2> QED BY <2>1, FS_Subset
<1>2. \A x, y \in Bad : <<x, y>> \in R <=> x < y
  OBVIOUS
<1>3. \A x \in Bad : x \in Int
  OBVIOUS
<1> HIDE DEF R
<1>4. /\ \A x \in Bad : <<x, x>> \notin R
      /\ \A x, y, z \in Bad : <<x, y>> \in R /\ <<y, z>> \in R => <<x, z>> \in R
  BY <1>2, <1>3
<1>5. PICK x \in Bad : \A y \in Bad : <<y, x>> \notin R
  BY <1>1, <1>4, FirstOfFinite
<1>6. ASSUME NEW y \in Bad PROVE x <= y
  <2>1. ~(y < x)
    BY <1>2, <1>5
  <2> QED BY <1>3, <2>1
<1> QED BY <1>6

\* and a largest one.
LEMMA LargestIsMember ==
  ASSUME NEW S \in SUBSET Int, IsFiniteSet(S), S # {}
  PROVE  Largest(S) \in S /\ \A y \in S : Largest(S) >= y
<1> DEFINE R == {p \in S \X S : p[1] > p[2]}
<1>1. \A x, y \in S : <<x, y>> \in R <=> x > y
  OBVIOUS
<1>2. \A x \in S : x \in Int
  OBVIOUS
<1> HIDE DEF R
<1>3. /\ \A x \in S : <<x, x>> \notin R
      /\ \A x, y, z \in S : <<x, y>> \in R /\ <<y, z>> \in R => <<x, z>> \in R
  BY <1>1, <1>2
<1>4. PICK x \in S : \A y \in S : <<y, x>> \notin R
  BY <1>3, FirstOfFinite
<1>5. ASSUME NEW y \in S PROVE x >= y
  <2>1. ~(y > x)
    BY <1>1, <1>4
  <2> QED BY <1>2, <2>1
<1> QED BY <1>5 DEF Largest

\* What the largest number leaves of those up to k.
LEMMA LargestUpTo ==
  ASSUME NEW k \in Nat, k # 0
  PROVE  /\ Largest(1..k) = k /\ (1..k) \ {k} = 1..(k - 1) /\ 1..k # {}
<1>1. IsFiniteSet(1..k)
  BY FS_Interval
<1>0. 1..k # {} /\ 1..k \in SUBSET Int
  <2>1. 1 \in 1..k
    OBVIOUS
  <2> QED BY <2>1
<1>2. Largest(1..k) \in 1..k /\ \A y \in 1..k : Largest(1..k) >= y
  BY <1>0, <1>1, LargestIsMember
<1> QED BY <1>0, <1>2

\* Two functions that fold the same agree where both are defined,
LEMMA FoldIsUnique ==
  ASSUME NEW step, NEW base, NEW seq, NEW S \in SUBSET Int, IsFiniteSet(S), NEW T, NEW g, NEW h,
         IsFold(g, step, base, seq, S), IsFold(h, step, base, seq, T)
  PROVE  \A s \in SUBSET S : s \in SUBSET T => g[s] = h[s]
<1> DEFINE Bad == {s \in SUBSET S : s \in SUBSET T /\ g[s] # h[s]}
<1> SUFFICES ASSUME Bad # {} PROVE FALSE
  OBVIOUS
<1>1. PICK A \in Bad : \A B \in SUBSET A : B # A => B \notin Bad
  <2> HIDE DEF Bad
  <2>1. Bad \in SUBSET SUBSET S
    BY DEF Bad
  <2> QED BY <2>1, SmallestSubset
<1> DEFINE x == Largest(A)
<1>2. /\ g[A] = IF A = {} THEN base ELSE step[<<g[A \ {x}], seq[x]>>]
      /\ h[A] = IF A = {} THEN base ELSE step[<<h[A \ {x}], seq[x]>>]
  BY DEF IsFold
<1>3. A # {} /\ A \in SUBSET Int
  BY <1>2
<1>4. x \in A
  BY <1>3, FS_Subset, LargestIsMember
<1>5. g[A \ {x}] = h[A \ {x}]
  BY <1>1, <1>4
<1> QED BY <1>2, <1>5

\* and there is one.
LEMMA FoldExists ==
  ASSUME NEW step, NEW base, NEW seq, NEW S \in SUBSET Int, IsFiniteSet(S)
  PROVE  IsFold(Fold(step, base, seq, S), step, base, seq, S)
<1> DEFINE fold(T) == Fold(step, base, seq, T)
           Bad == {T \in SUBSET S : ~\E g : IsFold(g, step, base, seq, T)}
<1> SUFFICES ASSUME Bad # {} PROVE FALSE
  BY DEF Fold
<1>1. PICK A \in Bad : \A B \in SUBSET A : B # A => B \notin Bad
  <2> HIDE DEF Bad
  <2>1. Bad \in SUBSET SUBSET S
    BY DEF Bad
  <2> QED BY <2>1, SmallestSubset
<1>2. \A B \in SUBSET A : B # A => IsFold(fold(B), step, base, seq, B)
  BY <1>1 DEF Fold
<1>3. \A B \in SUBSET A : IsFiniteSet(B) /\ B \in SUBSET Int
  BY FS_Subset
<1>4. \A B \in SUBSET A : B # {} => Largest(B) \in B
  BY <1>3, LargestIsMember
<1> HIDE DEF fold, Bad
<1>5. ASSUME NEW B \in SUBSET A, B # A
      PROVE  fold(B)[B] = IF B = {} THEN base
                          ELSE step[<<fold(B \ {Largest(B)})[B \ {Largest(B)}], seq[Largest(B)]>>]
  <2> DEFINE C == B \ {Largest(B)}
             g == fold(B)
             h == fold(C)
  <2>1. IsFold(g, step, base, seq, B)
    BY <1>2, <1>5
  <2>2. C \in SUBSET A /\ C # A /\ C \in SUBSET B
    BY <1>5
  <2>3. IsFold(h, step, base, seq, C)
    BY <1>2, <2>2
  <2> HIDE DEF g, h
  <2>4. g[B] = IF B = {} THEN base ELSE step[<<g[C], seq[Largest(B)]>>]
    BY <2>1 DEF IsFold
  <2>5. g[C] = h[C]
    BY <1>3, <2>1, <2>2, <2>3, FoldIsUnique
  <2> QED BY <2>4, <2>5 DEF g, h
<1> DEFINE k == [s \in SUBSET A |-> IF s = {} THEN base
                                    ELSE step[<<fold(s \ {Largest(s)})[s \ {Largest(s)}],
                                                seq[Largest(s)]>>]]
<1>6. \A s \in SUBSET A : s # {} => k[s \ {Largest(s)}] = fold(s \ {Largest(s)})[s \ {Largest(s)}]
  <2> SUFFICES ASSUME NEW s \in SUBSET A, s # {}
               PROVE  k[s \ {Largest(s)}] = fold(s \ {Largest(s)})[s \ {Largest(s)}]
    OBVIOUS
  <2> DEFINE C == s \ {Largest(s)}
  <2>1. C \in SUBSET A /\ C # A
    BY <1>4
  <2>2. k[C] = IF C = {} THEN base
               ELSE step[<<fold(C \ {Largest(C)})[C \ {Largest(C)}], seq[Largest(C)]>>]
    BY <2>1
  <2> HIDE DEF C, k
  <2>3. k[C] = fold(C)[C]
    BY <1>5, <2>1, <2>2
  <2> QED BY <2>3 DEF C
<1> HIDE DEF k
<1>7. k = [s \in SUBSET A |-> IF s = {} THEN base
                              ELSE step[<<fold(s \ {Largest(s)})[s \ {Largest(s)}],
                                          seq[Largest(s)]>>]]
  BY DEF k
<1>8. k = [s \in SUBSET A |-> IF s = {} THEN base
                              ELSE step[<<k[s \ {Largest(s)}], seq[Largest(s)]>>]]
  BY <1>6, <1>7
<1>9. IsFold(k, step, base, seq, A)
  BY <1>8 DEF IsFold
<1> QED BY <1>1, <1>9 DEF Bad

\* A fold by a function on V stays in V.
LEMMA FoldTyped ==
  ASSUME NEW V, NEW E, NEW step, Steps(step, V, E), NEW base \in V,
         NEW S \in SUBSET Int, IsFiniteSet(S), NEW seq, \A i \in S : seq[i] \in E
  PROVE  \A s \in SUBSET S :
           /\ Fold(step, base, seq, S)[s] \in V
           /\ s # {} => /\ Largest(s) \in s /\ seq[Largest(s)] \in E
                        /\ Fold(step, base, seq, S)[s \ {Largest(s)}] \in V
<1> DEFINE g == Fold(step, base, seq, S)
<1>1. IsFold(g, step, base, seq, S)
  BY FoldExists
<1> HIDE DEF g
<1>2. \A s \in SUBSET S : s # {} => Largest(s) \in s
  <2>1. \A s \in SUBSET S : IsFiniteSet(s) /\ s \in SUBSET Int
    BY FS_Subset
  <2> QED BY <2>1, LargestIsMember
<1>3. \A s \in SUBSET S : g[s] \in V
  <2> DEFINE Bad == {s \in SUBSET S : g[s] \notin V}
  <2> SUFFICES ASSUME Bad # {} PROVE FALSE
    OBVIOUS
  <2>1. PICK A \in Bad : \A B \in SUBSET A : B # A => B \notin Bad
    <3> HIDE DEF Bad
    <3>1. Bad \in SUBSET SUBSET S
      BY DEF Bad
    <3> QED BY <3>1, SmallestSubset
  <2>2. g[A] = IF A = {} THEN base ELSE step[<<g[A \ {Largest(A)}], seq[Largest(A)]>>]
    BY <1>1 DEF IsFold
  <2>3. A # {} /\ A \in SUBSET S
    BY <2>1, <2>2
  <2>4. Largest(A) \in A
    BY <1>2, <2>3
  <2>5. g[A \ {Largest(A)}] \in V
    BY <2>1, <2>4
  <2>6. seq[Largest(A)] \in E
    BY <2>3, <2>4
  <2>7. g[A] \in V
    BY <2>2, <2>3, <2>5, <2>6 DEF Steps
  <2> QED BY <2>1, <2>7
<1>4. \A s \in SUBSET S : s # {} => /\ seq[Largest(s)] \in E
                                    /\ g[s \ {Largest(s)}] \in V
  BY <1>2, <1>3
<1> QED BY <1>2, <1>3, <1>4 DEF g

\* A sequence without repetitions has as many elements as members.
LEMMA SizeOfImage ==
  ASSUME NEW n \in Nat, NEW s, \A i, j \in 1..n : s[i] = s[j] => i = j
  PROVE  /\ IsFiniteSet({s[i] : i \in 1..n})
         /\ Cardinality({s[i] : i \in 1..n}) = n
<1> DEFINE S == 1..n
           T == {s[i] : i \in S}
           f == [i \in S |-> s[i]]
<1>1. IsFiniteSet(S) /\ Cardinality(S) = n
  BY FS_Interval
<1>2. \A i, j \in S : s[i] = s[j] => i = j
  OBVIOUS
<1> HIDE DEF S
<1>3. f \in Bijection(S, T)
  <2>1. \A a, b \in S : f[a] = f[b] => a = b
    BY <1>2
  <2>2. f \in [S -> T] /\ \A t \in T : \E i \in S : f[i] = t
    OBVIOUS
  <2> HIDE DEF f, T
  <2>3. f \in Injection(S, T)
    BY <2>1, <2>2 DEF Injection, IsInjective
  <2>4. f \in Surjection(S, T)
    BY <2>2 DEF Surjection
  <2> QED BY <2>3, <2>4 DEF Bijection
<1>4. ExistsBijection(S, T)
  BY <1>3 DEF ExistsBijection
<1>5. IsFiniteSet(T) /\ Cardinality(T) = n
  <2> HIDE DEF T
  <2> QED BY <1>1, <1>4, FS_Bijection
<1> QED BY <1>5 DEF S, T

----------------------------------------------------------------------------
\* A product has its factors as divisors,
LEMMA ProductDivides ==
  ASSUME NEW a \in Int, NEW m \in Nat, m # 0, NEW q \in Int, a = m * q
  PROVE  a % m = 0
<1>1. 0 \in 0..(m - 1) /\ a = m * q + 0
  <2> DEFINE p == m * q
  <2>1. p \in Int
    OBVIOUS
  <2> QED BY <2>1
<1> QED BY <1>1, RemainderIs

LEMMA OtherFactorDivides ==
  ASSUME NEW n \in Nat, NEW d \in Nat, NEW c \in Nat, c # 0, n = d * c
  PROVE  n % c = 0
<1>1. n = c * d /\ n \in Int /\ d \in Int
  OBVIOUS
<1> QED BY <1>1, ProductDivides

\* and the divisors of its divisors.
LEMMA DividesThrough ==
  ASSUME NEW n \in Nat, NEW d \in Nat, d # 0, NEW c \in Nat, c # 0, n % d = 0, d % c = 0
  PROVE  n % c = 0
<1> DEFINE p == n \div d
           q == d \div c
           r == q * p
<1>1. p \in Int /\ n = d * p
  <2>1. p \in Int /\ n = d * p + 0 /\ d * p \in Int
    BY Division
  <2> HIDE DEF p
  <2> DEFINE x == d * p
  <2>2. x \in Int /\ n = x + 0
    BY <2>1
  <2> HIDE DEF x
  <2>3. n = x
    BY <2>2
  <2> QED BY <2>1, <2>3 DEF x
<1>2. q \in Int /\ d = c * q
  <2>1. q \in Int /\ d = c * q + 0 /\ c * q \in Int
    BY Division
  <2> HIDE DEF q
  <2> DEFINE x == c * q
  <2>2. x \in Int /\ d = x + 0
    BY <2>1
  <2> HIDE DEF x
  <2>3. d = x
    BY <2>2
  <2> QED BY <2>1, <2>3 DEF x
<1> HIDE DEF p, q
<1>3. r \in Int /\ n = c * r
  BY <1>1, <1>2
<1> HIDE DEF r
<1> QED BY <1>3, ProductDivides

\* Beyond 3, what neither 2 nor 3 divides is next to a multiple of 6.
LEMMA NextToSix ==
  ASSUME NEW d \in Nat, d >= 2, d % 2 # 0, d % 3 # 0
  PROVE  \E k \in 0..d : d = 5 + 6 * k \/ d = 7 + 6 * k
<1> DEFINE q == d \div 6
           r == d % 6
<1>1. q \in Int /\ r \in 0..5 /\ d = 6 * q + r
  BY Division
<1> HIDE DEF q, r
<1>2. q >= 0
  BY <1>1
<1>3. r # 0 /\ r # 2 /\ r # 4
  <2>1. ASSUME NEW x \in Int, d = 2 * x PROVE FALSE
    BY <2>1, ProductDivides
  <2>2. (r = 0 => d = 2 * (3 * q)) /\ (r = 2 => d = 2 * (3 * q + 1))
        /\ (r = 4 => d = 2 * (3 * q + 2))
    BY <1>1
  <2>3. 3 * q \in Int /\ 3 * q + 1 \in Int /\ 3 * q + 2 \in Int
    BY <1>1
  <2> QED BY <2>1, <2>2, <2>3
<1>4. r # 3
  <2>1. ASSUME NEW x \in Int, d = 3 * x PROVE FALSE
    BY <2>1, ProductDivides
  <2>2. r = 3 => d = 3 * (2 * q + 1)
    BY <1>1
  <2>3. 2 * q + 1 \in Int
    BY <1>1
  <2> QED BY <2>1, <2>2, <2>3
<1>5. CASE r = 5
  <2>1. q \in 0..d /\ d = 5 + 6 * q
    BY <1>1, <1>2, <1>5
  <2> QED BY <2>1
<1>6. CASE r = 1
  <2>1. q - 1 \in 0..d /\ d = 7 + 6 * (q - 1)
    BY <1>1, <1>2, <1>6
  <2> QED BY <2>1
<1> QED BY <1>1, <1>3, <1>4, <1>5, <1>6
\* A fold over a sequence, one element after the other.
FoldUpTo(step, base, seq, n, k) == Fold(step, base, seq, 1..n)[1..k]

LEMMA FoldSteps ==
  ASSUME NEW V, NEW E, NEW step, Steps(step, V, E), NEW base \in V,
         NEW n \in Nat, NEW seq, \A i \in 1..n : seq[i] \in E
  PROVE  /\ FoldUpTo(step, base, seq, n, 0) = base
         /\ \A k \in 0..n : FoldUpTo(step, base, seq, n, k) \in V
         /\ \A k \in 1..n : FoldUpTo(step, base, seq, n, k)
                            = step[<<FoldUpTo(step, base, seq, n, k - 1), seq[k]>>]
<1> DEFINE S == 1..n
           g == Fold(step, base, seq, S)
<1>1. S \in SUBSET Int /\ IsFiniteSet(S)
  BY FS_Interval
<1>2. \A k \in 0..n : 1..k \in SUBSET S
  OBVIOUS
<1>3. 1..0 = {}
  OBVIOUS
<1>4. \A k \in 1..n : k \in Nat /\ k # 0 /\ k \in 0..n
  OBVIOUS
<1> HIDE DEF S
<1>5. IsFold(g, step, base, seq, S)
  BY <1>1, FoldExists
<1>6. \A i \in S : seq[i] \in E
  BY DEF S
<1>7. \A s \in SUBSET S : g[s] \in V
  BY <1>1, <1>6, FoldTyped
<1> HIDE DEF g
<1>8. g[{}] = base
  BY <1>5 DEF IsFold
<1>9. ASSUME NEW k \in 1..n
      PROVE  g[1..k] = step[<<g[1..(k - 1)], seq[k]>>]
  <2>1. Largest(1..k) = k /\ (1..k) \ {k} = 1..(k - 1) /\ 1..k # {}
    BY <1>4, LargestUpTo
  <2> QED BY <1>2, <1>4, <1>5, <2>1 DEF IsFold
<1>10. FoldUpTo(step, base, seq, n, 0) = base
  BY <1>3, <1>8 DEF FoldUpTo, g, S
<1>11. ASSUME NEW k \in 0..n
       PROVE  FoldUpTo(step, base, seq, n, k) \in V
  <2>1. g[1..k] \in V
    BY <1>2, <1>7
  <2> QED BY <2>1 DEF FoldUpTo, g, S
<1>12. ASSUME NEW k \in 1..n
       PROVE  FoldUpTo(step, base, seq, n, k)
              = step[<<FoldUpTo(step, base, seq, n, k - 1), seq[k]>>]
  <2>1. /\ FoldUpTo(step, base, seq, n, k) = g[1..k]
        /\ FoldUpTo(step, base, seq, n, k - 1) = g[1..(k - 1)]
    BY DEF FoldUpTo, g, S
  <2> QED BY <1>9, <2>1
<1> QED BY <1>10, <1>11, <1>12

\* Appending to a sequence f of those members of seq that are in K is a fold.
Members(seq, n, E) == \A i \in 1..n : seq[i] \in E
Chooses(h, seq, n, K, f) ==
  h = [r \in SUBSET (1..n) |-> IF r = {} THEN <<>>
         ELSE IF seq[Largest(r)] \in K THEN Append(h[r \ {Largest(r)}], f[seq[Largest(r)]])
              ELSE h[r \ {Largest(r)}]]

LEMMA ChoosingUp ==
  ASSUME NEW n \in Nat, NEW E, NEW seq, Members(seq, n, E), NEW K,
         NEW F, NEW f \in [E -> F]
  PROVE  \E h : Chooses(h, seq, n, K, f)
<1> DEFINE S == 1..n
           V == Seq(F)
           adder == [p \in V \X E |-> IF p[2] \in K THEN Append(p[1], f[p[2]]) ELSE p[1]]
           h == Fold(adder, <<>>, seq, S)
<1>1. Steps(adder, V, E)
  <2>1. ASSUME NEW p \in V \X E
        PROVE  (IF p[2] \in K THEN Append(p[1], f[p[2]]) ELSE p[1]) \in V
    <3>1. p[1] \in Seq(F) /\ f[p[2]] \in F
      OBVIOUS
    <3>2. Append(p[1], f[p[2]]) \in Seq(F)
      BY <3>1, AppendProperties
    <3> QED BY <3>1, <3>2
  <2> QED BY <2>1 DEF Steps
<1>2. S \in SUBSET Int /\ IsFiniteSet(S) /\ \A i \in S : seq[i] \in E
  BY FS_Interval DEF Members
<1>3. <<>> \in V
  OBVIOUS
<1>4. \A x \in V : \A y \in E : adder[<<x, y>>] = IF y \in K THEN Append(x, f[y]) ELSE x
  OBVIOUS
<1> HIDE DEF adder, S, V
<1>5. IsFold(h, adder, <<>>, seq, S)
  BY <1>2, FoldExists
<1>6. \A r \in SUBSET S : /\ h[r] \in V
                          /\ r # {} => /\ Largest(r) \in r /\ seq[Largest(r)] \in E
                                       /\ h[r \ {Largest(r)}] \in V
  BY <1>1, <1>2, <1>3, FoldTyped
<1> HIDE DEF h
<1>7. h = [r \in SUBSET S |-> IF r = {} THEN <<>>
                              ELSE IF seq[Largest(r)] \in K
                                   THEN Append(h[r \ {Largest(r)}], f[seq[Largest(r)]])
                                   ELSE h[r \ {Largest(r)}]]
  BY <1>4, <1>5, <1>6 DEF IsFold
<1> QED BY <1>7 DEF S, Chooses

\* Such a fold takes the members one by one,
LEMMA ChosenSteps ==
  ASSUME NEW n \in Nat, NEW seq, NEW K, NEW f, NEW h,
         Chooses(h, seq, n, K, f)
  PROVE  /\ h[1..0] = <<>>
         /\ \A k \in 1..n : h[1..k] = IF seq[k] \in K THEN Append(h[1..(k - 1)], f[seq[k]])
                                      ELSE h[1..(k - 1)]
<1>1. h[1..0] = <<>>
  BY DEF Chooses
<1>2. ASSUME NEW k \in 1..n
      PROVE  h[1..k] = IF seq[k] \in K THEN Append(h[1..(k - 1)], f[seq[k]]) ELSE h[1..(k - 1)]
  <2>1. k \in Nat /\ k # 0
    OBVIOUS
  <2>2. Largest(1..k) = k /\ (1..k) \ {k} = 1..(k - 1) /\ 1..k # {}
    BY <2>1, LargestUpTo
  <2>3. 1..k \in SUBSET (1..n)
    OBVIOUS
  <2> QED BY <2>2, <2>3 DEF Chooses
<1> QED BY <1>1, <1>2

\* The members of s are those of S, each once.
Owns(s, S) == /\ s \in Seq(Nat) /\ \A i, j \in 1..Len(s) : s[i] = s[j] => i = j
              /\ {s[i] : i \in 1..Len(s)} = S

\* One more member, which is new.
LEMMA OwnsMore ==
  ASSUME NEW s, NEW S, Owns(s, S), NEW a \in Nat, a \notin S
  PROVE  Owns(Append(s, a), S \cup {a})
<1> DEFINE u == Append(s, a)
           n == Len(s)
<1>1. s \in Seq(Nat) /\ n \in Nat /\ (\A i, j \in 1..n : s[i] = s[j] => i = j)
      /\ {s[i] : i \in 1..n} = S
  BY LenProperties DEF Owns
<1>2. u \in Seq(Nat) /\ Len(u) = n + 1 /\ (\A i \in 1..n : u[i] = s[i]) /\ u[n + 1] = a
  BY <1>1, AppendProperties
<1> HIDE DEF u, n
<1>3. \A i \in 1..(n + 1) : i \in 1..n \/ i = n + 1
  BY <1>1
<1>4. \A i \in 1..n : i \in 1..(n + 1) /\ s[i] # a /\ s[i] \in S
  BY <1>1
<1>5. n + 1 \in 1..(n + 1)
  BY <1>1
<1>6. \A i, j \in 1..(n + 1) : u[i] = u[j] => i = j
  BY <1>1, <1>2, <1>3, <1>4
<1>7. {u[i] : i \in 1..(n + 1)} = S \cup {a}
  BY <1>1, <1>2, <1>3, <1>4, <1>5
<1> QED BY <1>2, <1>6, <1>7 DEF Owns, u

\* A selection of the members, by an injection p of its positions.
OwnsPart(u, S) == Owns(u, {u[i] : i \in 1..Len(u)}) /\ {u[i] : i \in 1..Len(u)} \subseteq S
Selects(p, u, m, s) == /\ \A j \in 1..m : p[j] \in 1..Len(s) /\ u[j] = s[p[j]]
                       /\ \A i, j \in 1..m : p[i] = p[j] => i = j

LEMMA OwnsFewer ==
  ASSUME NEW s, NEW S, Owns(s, S), NEW m \in Nat, NEW u \in Seq(Nat), Len(u) = m, NEW p,
         Selects(p, u, m, s)
  PROVE  OwnsPart(u, S)
<1> DEFINE P == 1..Len(s)
<1>1. /\ \A j \in 1..m : p[j] \in P /\ u[j] = s[p[j]]
      /\ \A i, j \in 1..m : p[i] = p[j] => i = j
  BY DEF Selects
<1>2. (\A i, j \in P : s[i] = s[j] => i = j) /\ \A i \in P : s[i] \in S
  BY DEF Owns
<1> HIDE DEF P
<1>3. \A i, j \in 1..m : u[i] = u[j] => i = j
  BY <1>1, <1>2
<1>4. {u[i] : i \in 1..m} \subseteq S
  BY <1>1, <1>2
<1> QED BY <1>3, <1>4 DEF Owns, OwnsPart

\* Consecutive numbers after a.
LEMMA OwnsNumbered ==
  ASSUME NEW n \in Nat, NEW a \in Nat, NEW u, u = [i \in 1..n |-> a + i]
  PROVE  Owns(u, (a + 1)..(a + n)) /\ Len(u) = n
<1>1. u \in Seq(Nat) /\ Len(u) = n
  OBVIOUS
<1>2. \A i, j \in 1..n : u[i] = u[j] => i = j
  OBVIOUS
<1>3. {u[i] : i \in 1..n} = (a + 1)..(a + n)
  <2>1. ASSUME NEW x \in (a + 1)..(a + n) PROVE \E i \in 1..n : u[i] = x
    <3>1. x - a \in 1..n /\ a + (x - a) = x
      OBVIOUS
    <3> QED BY <3>1
  <2>2. \A i \in 1..n : u[i] \in (a + 1)..(a + n)
    OBVIOUS
  <2> QED BY <2>1, <2>2
<1> QED BY <1>1, <1>2, <1>3 DEF Owns

\* The first k rows of s, one after the other.
FlatUpTo(s, k) ==
  IF k = 0 THEN <<>>
  ELSE (CHOOSE f : f = [i \in 1..Len(s) |-> IF i = 1 THEN s[i] ELSE f[i - 1] \o s[i]])[k]

LEMMA FlatSteps ==
  ASSUME NEW s \in Seq(Seq(Int))
  PROVE  /\ FlatUpTo(s, 0) = <<>>
         /\ \A k \in 0..Len(s) : FlatUpTo(s, k) \in Seq(Int)
         /\ \A k \in 1..Len(s) : FlatUpTo(s, k) = FlatUpTo(s, k - 1) \o s[k]
<1> DEFINE n == Len(s)
           V == Seq(Int)
           step == [p \in V \X V |-> p[1] \o p[2]]
           Rule(f) == f = [i \in 1..n |-> IF i = 1 THEN s[i] ELSE f[i - 1] \o s[i]]
           F(k) == FoldUpTo(step, <<>>, s, n, k)
           f == [k \in 1..n |-> F(k)]
           g == CHOOSE h : Rule(h)
<1>0. FlatUpTo(s, 0) = <<>> /\ \A k : k # 0 => FlatUpTo(s, k) = g[k]
  BY DEF FlatUpTo
<1>1. n \in Nat /\ \A i \in 1..n : s[i] \in V
  BY LenProperties
<1>2. Steps(step, V, V) /\ <<>> \in V
  <2>1. \A p \in V \X V : p[1] \o p[2] \in V
    BY ConcatProperties
  <2> QED BY <2>1 DEF Steps
<1>3. \A x \in V : \A y \in V : step[<<x, y>>] = x \o y
  OBVIOUS
<1> HIDE DEF n, step, V
<1>4. /\ F(0) = <<>> /\ \A k \in 0..n : F(k) \in V
      /\ \A k \in 1..n : F(k) = step[<<F(k - 1), s[k]>>]
  BY <1>1, <1>2, FoldSteps
<1> HIDE DEF F
<1>5. \A k \in 1..n : k - 1 \in 0..n /\ k \in 0..n /\ (k # 1 => k - 1 \in 1..n)
  BY <1>1
<1>6. \A k \in 1..n : F(k) = F(k - 1) \o s[k]
  BY <1>1, <1>3, <1>4, <1>5
<1>7. \A k \in 1..n : F(k) = IF k = 1 THEN s[k] ELSE f[k - 1] \o s[k]
  <2> SUFFICES ASSUME NEW k \in 1..n
               PROVE  F(k) = IF k = 1 THEN s[k] ELSE f[k - 1] \o s[k]
    OBVIOUS
  <2>1. CASE k = 1
    <3>0. k - 1 = 0
      BY <2>1
    <3>1. F(k) = <<>> \o s[k]
      BY <1>4, <1>6, <3>0
    <3>2. s[k] \in V
      BY <1>1
    <3> QED BY <2>1, <3>1, <3>2, ConcatEmptySeq DEF V
  <2>2. CASE k # 1
    BY <1>5, <1>6, <2>2
  <2> QED BY <2>1, <2>2
<1>8. Rule(f)
  BY <1>7
<1>9. Rule(g)
  <2> HIDE DEF Rule, f
  <2> QED BY <1>8
<1> HIDE DEF g
<1>10. FlatUpTo(s, 0) = <<>> /\ \A k \in 1..n : FlatUpTo(s, k) = g[k]
  BY <1>0, <1>1
<1>11. \A k \in 0..n : FlatUpTo(s, k) = F(k)
  <2> DEFINE Bad == {k \in 0..n : FlatUpTo(s, k) # F(k)}
  <2> SUFFICES ASSUME Bad # {} PROVE FALSE
    OBVIOUS
  <2>1. PICK k \in Bad : \A j \in Bad : k <= j
    <3>1. Bad \in SUBSET (0..n)
      OBVIOUS
    <3> HIDE DEF Bad
    <3> QED BY <1>1, <3>1, SmallestNumber
  <2>2. k # 0
    BY <1>4, <1>10, <2>1
  <2>3. k \in 1..n /\ k - 1 \in 0..n /\ ~(k <= k - 1)
    BY <1>1, <2>2
  <2>4. FlatUpTo(s, k - 1) = F(k - 1)
    BY <2>1, <2>3
  <2>5. g[k] = IF k = 1 THEN s[k] ELSE g[k - 1] \o s[k]
    BY <1>9, <2>3
  <2>6. k # 1 => g[k - 1] = F(k - 1)
    BY <1>5, <1>10, <2>3, <2>4
  <2>7. F(k) = IF k = 1 THEN s[k] ELSE F(k - 1) \o s[k]
    BY <1>5, <1>7, <2>3
  <2> QED BY <1>10, <2>1, <2>3, <2>5, <2>6, <2>7
<1>12. /\ \A k \in 0..n : FlatUpTo(s, k) \in V
       /\ \A k \in 1..n : FlatUpTo(s, k) = FlatUpTo(s, k - 1) \o s[k]
  BY <1>4, <1>5, <1>6, <1>11
<1> QED BY <1>0, <1>12 DEF n, V

\* Products of numbers of rows and the length of one.
LEMMA RowEnds ==
  ASSUME NEW w \in Nat, NEW i \in Nat, NEW k \in Nat, i <= k
  PROVE  /\ i * w \in Nat /\ k * w \in Nat /\ i * w <= k * w
         /\ i # 0 => /\ (i - 1) * w \in Nat
                     /\ (i - 1) * w + w = i * w
OBVIOUS

\* Rows of the same length, and where a cell of a row stands.
Even(s, w) == \A i \in 1..Len(s) : Len(s[i]) = w
CellsPlaced(c, s, w, k) == /\ Len(c) = k * w
                      /\ \A i \in 1..k : \A j \in 1..w : c[(i - 1) * w + j] = s[i][j]

LEMMA FlatOfEven ==
  ASSUME NEW s \in Seq(Seq(Int)), NEW w \in Nat, Even(s, w)
  PROVE  \A k \in 0..Len(s) : CellsPlaced(FlatUpTo(s, k), s, w, k)
<1> DEFINE n == Len(s)
           Bad == {k \in 0..n : ~CellsPlaced(FlatUpTo(s, k), s, w, k)}
<1>1. n \in Nat /\ \A i \in 1..n : s[i] \in Seq(Int) /\ Len(s[i]) = w
  BY LenProperties DEF Even
<1>2. /\ FlatUpTo(s, 0) = <<>> /\ \A k \in 0..n : FlatUpTo(s, k) \in Seq(Int)
      /\ \A k \in 1..n : FlatUpTo(s, k) = FlatUpTo(s, k - 1) \o s[k]
  BY FlatSteps
<1> HIDE DEF n
<1> SUFFICES ASSUME Bad # {} PROVE FALSE
  BY DEF n
<1>3. PICK k \in Bad : \A j \in Bad : k <= j
  <2>1. Bad \in SUBSET (0..n)
    OBVIOUS
  <2> HIDE DEF Bad
  <2> QED BY <1>1, <2>1, SmallestNumber
<1>4. k # 0
  <2>1. CellsPlaced(<<>>, s, w, 0)
    BY DEF CellsPlaced
  <2> QED BY <1>2, <1>3, <2>1
<1>5. k \in 1..n /\ k - 1 \in 0..n /\ ~(k <= k - 1)
  BY <1>1, <1>4
<1> DEFINE c == FlatUpTo(s, k - 1)
           d == c \o s[k]
           e == (k - 1) * w
<1>6. CellsPlaced(c, s, w, k - 1) /\ c \in Seq(Int) /\ s[k] \in Seq(Int) /\ Len(s[k]) = w
  BY <1>1, <1>2, <1>3, <1>5
<1>7. FlatUpTo(s, k) = d
  BY <1>2, <1>5
<1>8. /\ Len(d) = Len(c) + w
      /\ \A i \in 1..(Len(c) + w) : d[i] = IF i <= Len(c) THEN c[i] ELSE s[k][i - Len(c)]
  <2> HIDE DEF c
  <2> QED BY <1>6, ConcatProperties
<1>9. Len(c) = e /\ e \in Nat /\ e + w = k * w
  BY <1>5, <1>6, RowEnds DEF CellsPlaced
<1> HIDE DEF c, d, e
<1>10. ASSUME NEW i \in 1..k, NEW j \in 1..w
       PROVE  d[(i - 1) * w + j] = s[i][j]
  <2>1. CASE i = k
    <3>1. /\ (i - 1) * w + j = e + j
          /\ e + j \in 1..(e + w) /\ ~(e + j <= e) /\ (e + j) - e = j
      <4>1. (i - 1) * w = e
        BY <2>1 DEF e
      <4> QED BY <1>9, <4>1
    <3> QED BY <1>8, <1>9, <2>1, <3>1
  <2>2. CASE i # k
    <3> DEFINE b == (i - 1) * w
    <3>1. i \in 1..(k - 1) /\ i \in Nat /\ i # 0 /\ k - 1 \in Nat /\ i <= k - 1
      BY <1>5, <2>2
    <3>2. b \in Nat /\ b + w = i * w /\ i * w <= e
      BY <3>1, RowEnds DEF e
    <3>3. c[b + j] = s[i][j]
      BY <1>6, <3>1 DEF CellsPlaced
    <3> HIDE DEF b
    <3>4. b + j \in 1..(e + w) /\ b + j <= e
      BY <1>9, <3>2
    <3>5. d[b + j] = s[i][j]
      BY <1>8, <1>9, <3>3, <3>4
    <3> QED BY <3>5 DEF b
  <2> QED BY <2>1, <2>2
<1>11. CellsPlaced(d, s, w, k)
  BY <1>8, <1>9, <1>10 DEF CellsPlaced
<1> QED BY <1>3, <1>7, <1>11

\* Rows that are cut out of c one after the other, put together again.
RowOf(c, w, i) == SubSeq(c, (i - 1) * w + 1, i * w)
RowsOf(s, c, w, m) == s = [i \in 1..m |-> RowOf(c, w, i)]

LEMMA FlatOfRows ==
  ASSUME NEW c \in Seq(Int), NEW w \in Nat, NEW m \in Nat, m * w <= Len(c),
         NEW s, RowsOf(s, c, w, m)
  PROVE  /\ s \in Seq(Seq(Int)) /\ Len(s) = m /\ Even(s, w)
         /\ FlatUpTo(s, m) = SubSeq(c, 1, m * w)
<1>0. s = [i \in 1..m |-> RowOf(c, w, i)]
  BY DEF RowsOf
<1> DEFINE L == Len(c)
           Bad == {k \in 0..m : FlatUpTo(s, k) # SubSeq(c, 1, k * w)}
<1>1. L \in Nat /\ \A i \in 1..L : c[i] \in Int
  BY LenProperties
<1> HIDE DEF L
<1>2. ASSUME NEW i \in 1..m
      PROVE  s[i] \in Seq(Int) /\ Len(s[i]) = w /\ s[i] = RowOf(c, w, i)
  <2> DEFINE a == (i - 1) * w + 1
             b == i * w
  <2>1. i \in Nat /\ i # 0 /\ i <= m
    OBVIOUS
  <2>2. a \in Int /\ b \in Int /\ a >= 1 /\ b <= L /\ b = a + w - 1
    <3> DEFINE x == (i - 1) * w
               z == m * w
    <3>1. x \in Nat /\ b \in Nat /\ z \in Nat /\ b <= z /\ x + w = b
      BY <2>1, RowEnds
    <3>2. z <= L /\ a = x + 1
      BY DEF L
    <3> HIDE DEF a, b, x, z
    <3> QED BY <1>1, <3>1, <3>2
  <2>3. s[i] = SubSeq(c, a, b)
    BY <1>0 DEF RowOf
  <2> HIDE DEF a, b
  <2>4. \A j \in a..b : c[j] \in Int
    BY <1>1, <2>2
  <2>5. /\ SubSeq(c, a, b) \in Seq(Int)
        /\ Len(SubSeq(c, a, b)) = IF a <= b THEN b - a + 1 ELSE 0
    BY <2>2, <2>4, SubSeqProperties
  <2>6. (IF a <= b THEN b - a + 1 ELSE 0) = w
    BY <2>2
  <2>7. s[i] = RowOf(c, w, i)
    BY <1>0
  <2> QED BY <2>3, <2>5, <2>6, <2>7
<1>3. s \in Seq(Seq(Int)) /\ Len(s) = m
  <2>1. s \in [1..m -> Seq(Int)]
    BY <1>0, <1>2
  <2> DEFINE R == Seq(Int)
  <2> HIDE DEF R
  <2>2. s \in Seq(R) /\ Len(s) = m
    BY <2>1 DEF R
  <2> QED BY <2>2 DEF R
<1>4. /\ FlatUpTo(s, 0) = <<>>
      /\ \A k \in 1..m : FlatUpTo(s, k) = FlatUpTo(s, k - 1) \o s[k]
  BY <1>3, FlatSteps
<1>5. Bad = {}
  <2> SUFFICES ASSUME Bad # {} PROVE FALSE
    OBVIOUS
  <2>1. PICK k \in Bad : \A j \in Bad : k <= j
    <3>1. Bad \in SUBSET (0..m)
      OBVIOUS
    <3> HIDE DEF Bad
    <3> QED BY <3>1, SmallestNumber
  <2>2. k # 0
    <3>1. SubSeq(c, 1, 0 * w) = <<>>
      BY SubSeqEmpty
    <3> QED BY <1>4, <2>1, <3>1
  <2>3. k \in 1..m /\ k - 1 \in 0..m /\ ~(k <= k - 1)
    BY <2>2
  <2> DEFINE p == (k - 1) * w
             q == k * w
  <2>4. FlatUpTo(s, k - 1) = SubSeq(c, 1, p)
    BY <2>1, <2>3
  <2>5. s[k] = SubSeq(c, p + 1, q)
    BY <1>2, <2>3 DEF RowOf
  <2>6. p \in Nat /\ q \in Nat /\ p <= q /\ q <= L
    <3>1. k \in Nat /\ k # 0 /\ k <= m
      BY <2>3
    <3> DEFINE z == m * w
    <3>2. p \in Nat /\ q \in Nat /\ z \in Nat /\ q <= z /\ p + w = q
      BY <3>1, RowEnds
    <3>3. z <= L
      BY DEF L
    <3> HIDE DEF p, q, z
    <3> QED BY <1>1, <3>2, <3>3
  <2>7. FlatUpTo(s, k) = SubSeq(c, 1, p) \o SubSeq(c, p + 1, q)
    BY <1>4, <2>3, <2>4, <2>5
  <2>8. FlatUpTo(s, k) # SubSeq(c, 1, q)
    BY <2>1
  <2> HIDE DEF p, q
  <2>9. 1 \in 1..(L + 1) /\ p \in (1 - 1)..L /\ q \in p..L
    BY <1>1, <2>6
  <2>10. SubSeq(c, 1, p) \o SubSeq(c, p + 1, q) = SubSeq(c, 1, q)
    BY <2>9, ConcatAdjacentSubSeq DEF L
  <2> QED BY <2>7, <2>8, <2>10
<1>6. FlatUpTo(s, m) = SubSeq(c, 1, m * w)
  <2>1. m \in 0..m
    OBVIOUS
  <2> QED BY <1>5, <2>1
<1> QED BY <1>2, <1>3, <1>6 DEF Even

\* The rows that are whole are the first m.
LEMMA FirstRows ==
  ASSUME NEW n \in Nat, NEW w \in Nat, NEW L \in Nat
  PROVE  \E m \in 0..n : /\ Cardinality({i \in 1..n : i * w <= L}) = m
                         /\ m * w <= L
                         /\ n * w <= L => m = n
<1> DEFINE Fits(i) == i * w <= L
           Bad == {k \in 0..n : ~Fits(k)}
<1>0. ASSUME NEW i \in Nat, NEW k \in Nat, i <= k, Fits(k)
      PROVE  Fits(i)
  <2>1. i * w \in Nat /\ k * w \in Nat /\ i * w <= k * w
    BY <1>0, RowEnds
  <2> QED BY <1>0, <2>1
<1>1. Fits(0)
  OBVIOUS
<1> HIDE DEF Fits
<1>2. \E m \in 0..n : /\ Fits(m) /\ \A i \in 1..n : Fits(i) <=> i <= m
  <2>1. CASE Bad = {}
    <3>1. n \in 0..n /\ \A i \in 1..n : i \in 0..n /\ i <= n
      OBVIOUS
    <3> QED BY <2>1, <3>1
  <2>2. CASE Bad # {}
    <3>1. PICK k \in Bad : \A j \in Bad : k <= j
      <4>1. Bad \in SUBSET (0..n)
        OBVIOUS
      <4> HIDE DEF Bad
      <4> QED BY <2>2, <4>1, SmallestNumber
    <3>2. k \in 1..n /\ k - 1 \in 0..n /\ k \in Nat /\ k - 1 \in Nat /\ ~(k <= k - 1)
      BY <1>1, <3>1
    <3>3. ~Fits(k) /\ Fits(k - 1)
      BY <3>1, <3>2
    <3>4. ASSUME NEW i \in 1..n
          PROVE  Fits(i) <=> i <= k - 1
      <4>1. i \in Nat /\ (i <= k - 1 \/ k <= i)
        BY <3>2
      <4>2. k <= i => ~(i <= k - 1)
        BY <3>2
      <4> QED BY <1>0, <3>2, <3>3, <4>1, <4>2
    <3> QED BY <3>2, <3>3, <3>4
  <2> QED BY <2>1, <2>2
<1>3. PICK m \in 0..n : Fits(m) /\ \A i \in 1..n : Fits(i) <=> i <= m
  BY <1>2
<1>4. {i \in 1..n : Fits(i)} = 1..m
  BY <1>3
<1>5. Cardinality(1..m) = m
  BY FS_Interval
<1>6. Fits(n) => m = n
  <2>1. n = 0 \/ n \in 1..n
    OBVIOUS
  <2>2. n <= m => m = n
    OBVIOUS
  <2> QED BY <1>3, <2>1, <2>2
<1> QED BY <1>3, <1>4, <1>5, <1>6 DEF Fits
=============================================================================
