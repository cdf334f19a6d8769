----------------------------- MODULE Sums_proofs -----------------------------
(***************************************************************************)
(* What proofs need of Total: it does not depend on the order in which the *)
(* members of a set are taken, and it follows each of them.                *)
(*                                                                         *)
(* The fold of the community modules is a function defined by recursion on *)
(* the subsets of a set. Each fact below is proved of a finite set from    *)
(* the same principle (Least): were it false of some subset, it would be   *)
(* false of a least one, and its own definition says it is not.            *)
(***************************************************************************)
EXTENDS Sums, FiniteSetTheorems, WellFoundedInduction, TLAPS

Chosen(T) == CHOOSE x \in T : TRUE
IsSum(g, f, S) ==
  g = [T \in SUBSET S |-> IF T = {} THEN 0 ELSE f[Chosen(T)] + g[T \ {Chosen(T)}]]

\* The fold's definition, by name.
LEMMA Unfold == ASSUME NEW f, NEW S PROVE Total(f, S) = (CHOOSE g : IsSum(g, f, S))[S]
BY DEF Total, MapThenSumSet, MapThenFoldSet, IsSum, Chosen

\* A set that is not empty has the member it chooses.
LEMMA ChosenIsIn == ASSUME NEW T, T # {} PROVE Chosen(T) \in T
BY DEF Chosen

\* A set of subsets of a finite set has a least one.
LEMMA Least ==
  ASSUME NEW S, IsFiniteSet(S), NEW Bad, Bad \subseteq SUBSET S, Bad # {}
  PROVE  \E T \in Bad : \A U \in Bad : U \subseteq T => U = T
<1>1. FiniteSubsetsOf(S) = SUBSET S
  BY FS_FiniteSubsetsOfFinite
<1>2. IsWellFoundedOn(StrictSubsetOrdering(S), SUBSET S)
  BY <1>1, FS_StrictSubsetOrderingWellFounded
<1>3. PICK T \in Bad : \A U \in Bad : ~ (<<U, T>> \in StrictSubsetOrdering(S))
  BY <1>2, WFMin
<1>4. ASSUME NEW U \in Bad, U \subseteq T PROVE U = T
  BY <1>3, <1>4 DEF StrictSubsetOrdering
<1> QED
  BY <1>4

-----------------------------------------------------------------------------
(* The recursion defines a function.                                       *)

\* What such a function gives.
LEMMA SumGives ==
  ASSUME NEW g, NEW f, NEW S, IsSum(g, f, S)
  PROVE  /\ g[{}] = 0
         /\ \A T \in SUBSET S : T # {} => g[T] = f[Chosen(T)] + g[T \ {Chosen(T)}]
<1>1. \A T \in SUBSET S : g[T] = IF T = {} THEN 0 ELSE f[Chosen(T)] + g[T \ {Chosen(T)}]
  BY DEF IsSum
<1> QED
  BY <1>1

\* Two of them agree wherever both are defined.
LEMMA SumsAgree ==
  ASSUME NEW f, NEW A, NEW B, NEW g, NEW h, IsSum(g, f, A), IsSum(h, f, B),
         NEW S, S \subseteq A, S \subseteq B, IsFiniteSet(S)
  PROVE  g[S] = h[S]
<1> DEFINE Bad == {T \in SUBSET S : g[T] # h[T]}
<1> SUFFICES ASSUME Bad # {} PROVE FALSE
  OBVIOUS
<1>0. Bad \subseteq SUBSET S
  OBVIOUS
<1> HIDE DEF Bad
<1>1. PICK T \in Bad : \A U \in Bad : U \subseteq T => U = T
  BY <1>0, Least
<1>2. T # {}
  <2>1. g[{}] = 0 /\ h[{}] = 0
    BY SumGives
  <2> QED
    BY <2>1 DEF Bad
<1>3. Chosen(T) \in T
  BY <1>2, ChosenIsIn
<1>4. g[T \ {Chosen(T)}] = h[T \ {Chosen(T)}]
  <2>1. T \ {Chosen(T)} \notin Bad
    BY <1>1, <1>3
  <2> QED
    BY <1>0, <2>1 DEF Bad
<1>5. T \in SUBSET A /\ T \in SUBSET B
  BY <1>0
<1>6. g[T] = f[Chosen(T)] + g[T \ {Chosen(T)}]
  BY <1>2, <1>5, SumGives
<1>7. h[T] = f[Chosen(T)] + h[T \ {Chosen(T)}]
  BY <1>2, <1>5, SumGives
<1> QED
  BY <1>1, <1>4, <1>6, <1>7 DEF Bad

\* There is one, on every finite set.
LEMMA SumExists ==
  ASSUME NEW f, NEW S, IsFiniteSet(S)
  PROVE  \E g : IsSum(g, f, S)
<1> DEFINE Bad == {T \in SUBSET S : ~ \E g : IsSum(g, f, T)}
           H(U) == CHOOSE g : IsSum(g, f, U)
<1> SUFFICES ASSUME Bad # {} PROVE FALSE
  OBVIOUS
<1>0. Bad \subseteq SUBSET S
  OBVIOUS
<1> HIDE DEF Bad, H
<1>1. PICK T \in Bad : \A U \in Bad : U \subseteq T => U = T
  BY <1>0, Least
<1>2. \A U \in SUBSET T : U # T => IsSum(H(U), f, U)
  <2> TAKE U \in SUBSET T
  <2> HAVE U # T
  <2>1. U \notin Bad
    BY <1>1, U \subseteq T
  <2>2. \E g : IsSum(g, f, U)
    BY <1>0, <2>1 DEF Bad
  <2> QED
    BY <2>2 DEF H
<1> DEFINE g == [U \in SUBSET T |->
                   IF U = {} THEN 0 ELSE f[Chosen(U)] + H(U \ {Chosen(U)})[U \ {Chosen(U)}]]
<1>3. ASSUME NEW U \in SUBSET T, U # T PROVE g[U] = H(U)[U]
  <2>1. CASE U = {}
    BY <1>2, <1>3, <2>1, SumGives
  <2>2. CASE U # {}
    <3> DEFINE V == U \ {Chosen(U)}
    <3>1. Chosen(U) \in U
      BY <2>2, ChosenIsIn
    <3>2. V \subseteq U /\ V \in SUBSET T /\ V # T /\ IsFiniteSet(V)
      <4>1. V \subseteq U /\ V \in SUBSET T /\ V # T /\ V \in SUBSET S
        BY <1>0, <1>1, <3>1
      <4>2. IsFiniteSet(V)
        BY <4>1, FS_Subset
      <4> QED
        BY <4>1, <4>2
    <3>3. IsSum(H(U), f, U) /\ IsSum(H(V), f, V)
      BY <1>2, <1>3, <3>2
    <3> HIDE DEF V
    <3>4. H(U)[V] = H(V)[V]
      BY <3>2, <3>3, SumsAgree
    <3>5. H(U)[U] = f[Chosen(U)] + H(U)[V]
      <4>1. \A W \in SUBSET U : W # {} => H(U)[W] = f[Chosen(W)] + H(U)[W \ {Chosen(W)}]
        BY <3>3, SumGives
      <4> QED
        BY <2>2, <4>1 DEF V
    <3> QED
      BY <2>2, <3>4, <3>5 DEF V
  <2> QED
    BY <2>1, <2>2
<1>4. ASSUME NEW U \in SUBSET T, U # {}
      PROVE  g[U] = f[Chosen(U)] + g[U \ {Chosen(U)}]
  <2>1. Chosen(U) \in U
    BY <1>4, ChosenIsIn
  <2>2. U \ {Chosen(U)} \in SUBSET T /\ U \ {Chosen(U)} # T
    BY <2>1
  <2>3. g[U \ {Chosen(U)}] = H(U \ {Chosen(U)})[U \ {Chosen(U)}]
    BY <1>3, <2>2
  <2> QED
    BY <1>4, <2>3
<1>5. IsSum(g, f, T)
  <2>1. \A U \in SUBSET T : g[U] = IF U = {} THEN 0 ELSE f[Chosen(U)] + g[U \ {Chosen(U)}]
    BY <1>4
  <2>2. g = [U \in SUBSET T |-> g[U]]
    OBVIOUS
  <2> HIDE DEF g
  <2> QED
    BY <2>1, <2>2 DEF IsSum
<1> QED
  BY <1>1, <1>5 DEF Bad

-----------------------------------------------------------------------------
(* Total.                                                                  *)

\* Nothing adds up to nothing.
LEMMA TotalEmpty == ASSUME NEW f PROVE Total(f, {}) = 0
<1>1. IsFiniteSet({})
  BY FS_EmptySet
<1>2. IsSum(CHOOSE g : IsSum(g, f, {}), f, {})
  BY <1>1, SumExists
<1> QED
  BY <1>2, Unfold, SumGives

\* One step of the fold.
LEMMA TotalChosen ==
  ASSUME NEW f, NEW S, IsFiniteSet(S), S # {}
  PROVE  Total(f, S) = f[Chosen(S)] + Total(f, S \ {Chosen(S)})
<1> DEFINE R == S \ {Chosen(S)}
           g == CHOOSE h : IsSum(h, f, S)
           r == CHOOSE h : IsSum(h, f, R)
<1>1. R \subseteq S /\ IsFiniteSet(R)
  BY FS_Subset
<1>2. IsSum(g, f, S) /\ Total(f, S) = g[S]
  BY SumExists, Unfold
<1>3. IsSum(r, f, R) /\ Total(f, R) = r[R]
  BY <1>1, SumExists, Unfold
<1> HIDE DEF g, r
<1>4. g[S] = f[Chosen(S)] + g[R]
  BY <1>2, SumGives
<1> HIDE DEF R
<1>5. g[R] = r[R]
  BY <1>1, <1>2, <1>3, SumsAgree
<1> QED
  BY <1>2, <1>3, <1>4, <1>5 DEF R

\* A sum of integers is an integer.
LEMMA TotalInt ==
  ASSUME NEW S, IsFiniteSet(S), NEW f, \A x \in S : f[x] \in Int
  PROVE  Total(f, S) \in Int
<1> DEFINE Bad == {T \in SUBSET S : Total(f, T) \notin Int}
<1> SUFFICES ASSUME Bad # {} PROVE FALSE
  OBVIOUS
<1>0. Bad \subseteq SUBSET S
  OBVIOUS
<1> HIDE DEF Bad
<1>1. PICK T \in Bad : \A U \in Bad : U \subseteq T => U = T
  BY <1>0, Least
<1>2. T \in SUBSET S /\ IsFiniteSet(T) /\ Total(f, T) \notin Int
  BY <1>0, <1>1, FS_Subset DEF Bad
<1>3. T # {} /\ Chosen(T) \in T
  BY <1>2, TotalEmpty, ChosenIsIn
<1>4. T \ {Chosen(T)} \notin Bad /\ T \ {Chosen(T)} \in SUBSET S
  BY <1>1, <1>2, <1>3
<1>5. Total(f, T \ {Chosen(T)}) \in Int
  BY <1>4 DEF Bad
<1> QED
  BY <1>2, <1>3, <1>5, TotalChosen

\* Any member can be taken out first.
LEMMA TotalTake ==
  ASSUME NEW S, IsFiniteSet(S), NEW f, \A y \in S : f[y] \in Int, NEW x \in S
  PROVE  Total(f, S) = f[x] + Total(f, S \ {x})
<1> DEFINE Bad == {T \in SUBSET S : \E y \in T : Total(f, T) # f[y] + Total(f, T \ {y})}
<1> SUFFICES ASSUME Bad # {} PROVE FALSE
  OBVIOUS
<1>0. Bad \subseteq SUBSET S
  OBVIOUS
<1> HIDE DEF Bad
<1>1. PICK T \in Bad : \A U \in Bad : U \subseteq T => U = T
  BY <1>0, Least
<1>2. T \in SUBSET S /\ IsFiniteSet(T)
  BY <1>0, <1>1, FS_Subset
<1>3. PICK y \in T : Total(f, T) # f[y] + Total(f, T \ {y})
  BY <1>1 DEF Bad
<1> DEFINE c == Chosen(T)
<1>4. c \in T /\ Total(f, T) = f[c] + Total(f, T \ {c})
  BY <1>2, ChosenIsIn, TotalChosen
<1> HIDE DEF c
<1>5. c # y
  BY <1>3, <1>4
<1>6. /\ T \ {c} \notin Bad /\ T \ {c} \in SUBSET S
      /\ T \ {y} \notin Bad /\ T \ {y} \in SUBSET S
  BY <1>1, <1>2, <1>4
<1> DEFINE R == (T \ {c}) \ {y}
<1>7. Total(f, T \ {c}) = f[y] + Total(f, R)
  BY <1>5, <1>6 DEF Bad
<1>8. Total(f, T \ {y}) = f[c] + Total(f, R)
  <2>1. Total(f, T \ {y}) = f[c] + Total(f, (T \ {y}) \ {c})
    BY <1>4, <1>5, <1>6 DEF Bad
  <2>2. R = (T \ {y}) \ {c}
    OBVIOUS
  <2> HIDE DEF R
  <2> QED
    BY <2>1, <2>2
<1>9. R \in SUBSET S
  BY <1>2
<1> HIDE DEF R
<1>10. Total(f, R) \in Int
  <2>1. IsFiniteSet(R)
    BY <1>9, FS_Subset
  <2> QED
    BY <1>9, <2>1, TotalInt
<1>11. f[c] \in Int /\ f[y] \in Int
  BY <1>2, <1>4
<1> QED
  BY <1>3, <1>4, <1>7, <1>8, <1>10, <1>11

\* What a sum gains with a new member.
LEMMA TotalAdd ==
  ASSUME NEW S, IsFiniteSet(S), NEW x, x \notin S, NEW f, f[x] \in Int,
         \A y \in S : f[y] \in Int
  PROVE  Total(f, S \cup {x}) = Total(f, S) + f[x]
<1> DEFINE R == S \cup {x}
<1>1. IsFiniteSet(R) /\ x \in R /\ R \ {x} = S /\ \A y \in R : f[y] \in Int
  BY FS_AddElement
<1> HIDE DEF R
<1>2. Total(f, R) = f[x] + Total(f, S)
  BY <1>1, TotalTake
<1>3. Total(f, S) \in Int
  BY TotalInt
<1> QED
  BY <1>2, <1>3 DEF R

\* Only what f gives to the members matters.
LEMMA TotalSame ==
  ASSUME NEW S, IsFiniteSet(S), NEW f, NEW g, \A x \in S : f[x] = g[x]
  PROVE  Total(f, S) = Total(g, S)
<1> DEFINE Bad == {T \in SUBSET S : Total(f, T) # Total(g, T)}
<1> SUFFICES ASSUME Bad # {} PROVE FALSE
  OBVIOUS
<1>0. Bad \subseteq SUBSET S
  OBVIOUS
<1> HIDE DEF Bad
<1>1. PICK T \in Bad : \A U \in Bad : U \subseteq T => U = T
  BY <1>0, Least
<1>2. T \in SUBSET S /\ IsFiniteSet(T) /\ Total(f, T) # Total(g, T)
  BY <1>0, <1>1, FS_Subset DEF Bad
<1>3. T # {} /\ Chosen(T) \in T
  BY <1>2, TotalEmpty, ChosenIsIn
<1>4. T \ {Chosen(T)} \notin Bad /\ T \ {Chosen(T)} \in SUBSET S
  BY <1>1, <1>2, <1>3
<1>5. Total(f, T \ {Chosen(T)}) = Total(g, T \ {Chosen(T)})
  BY <1>4 DEF Bad
<1>6. /\ Total(f, T) = f[Chosen(T)] + Total(f, T \ {Chosen(T)})
      /\ Total(g, T) = g[Chosen(T)] + Total(g, T \ {Chosen(T)})
  BY <1>2, <1>3, TotalChosen
<1>7. f[Chosen(T)] = g[Chosen(T)]
  BY <1>2, <1>3
<1> QED
  BY <1>2, <1>5, <1>6, <1>7

\* What a sum gains when one member's share changes.
LEMMA TotalChange ==
  ASSUME NEW S, IsFiniteSet(S), NEW x \in S, NEW f, NEW g,
         \A y \in S : f[y] \in Int /\ g[y] \in Int,
         \A y \in S \ {x} : g[y] = f[y]
  PROVE  Total(g, S) = Total(f, S) + g[x] - f[x]
<1>1. IsFiniteSet(S \ {x})
  BY FS_RemoveElement
<1>2. Total(f, S \ {x}) = Total(g, S \ {x})
  BY <1>1, TotalSame
<1>5. Total(f, S \ {x}) \in Int
  BY <1>1, TotalInt
<1>3. Total(f, S) = f[x] + Total(f, S \ {x}) /\ Total(g, S) = g[x] + Total(g, S \ {x})
  BY TotalTake
<1>4. f[x] \in Int /\ g[x] \in Int
  OBVIOUS
<1> QED
  BY <1>2, <1>3, <1>4, <1>5

\* Sums add up member by member.
LEMMA TotalPlus ==
  ASSUME NEW S, IsFiniteSet(S), NEW f, NEW g, NEW h,
         \A x \in S : f[x] \in Int /\ g[x] \in Int /\ h[x] = f[x] + g[x]
  PROVE  Total(h, S) = Total(f, S) + Total(g, S)
<1> DEFINE Bad == {T \in SUBSET S : Total(h, T) # Total(f, T) + Total(g, T)}
<1> SUFFICES ASSUME Bad # {} PROVE FALSE
  OBVIOUS
<1>0. Bad \subseteq SUBSET S
  OBVIOUS
<1> HIDE DEF Bad
<1>1. PICK T \in Bad : \A U \in Bad : U \subseteq T => U = T
  BY <1>0, Least
<1>2. T \in SUBSET S /\ IsFiniteSet(T) /\ Total(h, T) # Total(f, T) + Total(g, T)
  BY <1>0, <1>1, FS_Subset DEF Bad
<1>3. T # {} /\ Chosen(T) \in T
  <2>1. Total(f, {}) = 0 /\ Total(g, {}) = 0 /\ Total(h, {}) = 0
    BY TotalEmpty
  <2>2. Total(h, {}) = Total(f, {}) + Total(g, {})
    BY <2>1
  <2>3. T # {}
    BY <1>2, <2>2, Zenon
  <2> QED
    BY <2>3, ChosenIsIn
<1> DEFINE c == Chosen(T)
           R == T \ {c}
<1>4. R \notin Bad /\ R \in SUBSET S
  BY <1>1, <1>2, <1>3
<1>5. /\ Total(f, T) = f[c] + Total(f, R) /\ Total(g, T) = g[c] + Total(g, R)
      /\ Total(h, T) = h[c] + Total(h, R)
  BY <1>2, <1>3, TotalChosen
<1>6. f[c] \in Int /\ g[c] \in Int /\ h[c] = f[c] + g[c]
  BY <1>2, <1>3
<1> HIDE DEF c, R
<1>7. Total(h, R) = Total(f, R) + Total(g, R)
  BY <1>4 DEF Bad
<1>8. Total(f, R) \in Int /\ Total(g, R) \in Int
  <2>1. IsFiniteSet(R)
    BY <1>4, FS_Subset
  <2>2. (\A x \in R : f[x] \in Int) /\ (\A x \in R : g[x] \in Int)
    BY <1>4
  <2>3. Total(f, R) \in Int
    BY <2>1, <2>2, TotalInt
  <2>4. Total(g, R) \in Int
    BY <2>1, <2>2, TotalInt
  <2> QED
    BY <2>3, <2>4
<1> QED
  BY <1>2, <1>5, <1>6, <1>7, <1>8

\* A sum of shares none of which is negative is not.
LEMMA TotalNat ==
  ASSUME NEW S, IsFiniteSet(S), NEW f, \A x \in S : f[x] \in Nat
  PROVE  Total(f, S) \in Nat
<1> DEFINE Bad == {T \in SUBSET S : Total(f, T) \notin Nat}
<1> SUFFICES ASSUME Bad # {} PROVE FALSE
  OBVIOUS
<1>0. Bad \subseteq SUBSET S
  OBVIOUS
<1> HIDE DEF Bad
<1>1. PICK T \in Bad : \A U \in Bad : U \subseteq T => U = T
  BY <1>0, Least
<1>2. T \in SUBSET S /\ IsFiniteSet(T) /\ Total(f, T) \notin Nat
  BY <1>0, <1>1, FS_Subset DEF Bad
<1>3. T # {} /\ Chosen(T) \in T
  BY <1>2, TotalEmpty, ChosenIsIn
<1>4. T \ {Chosen(T)} \notin Bad /\ T \ {Chosen(T)} \in SUBSET S
  BY <1>1, <1>2, <1>3
<1>5. Total(f, T \ {Chosen(T)}) \in Nat
  BY <1>4 DEF Bad
<1> QED
  BY <1>2, <1>3, <1>5, TotalChosen

\* Nothing sums to nothing.
LEMMA TotalZero ==
  ASSUME NEW S, IsFiniteSet(S), NEW f, \A x \in S : f[x] = 0
  PROVE  Total(f, S) = 0
<1>1. \A x \in S : f[x] \in Int /\ f[x] = f[x] + f[x]
  OBVIOUS
<1>2. Total(f, S) = Total(f, S) + Total(f, S)
  BY <1>1, TotalPlus
<1>3. Total(f, S) \in Int
  BY <1>1, TotalInt
<1>4. ASSUME NEW n \in Int, n = n + n PROVE n = 0
  BY <1>4
<1> QED
  BY <1>2, <1>3, <1>4

\* Larger shares have a larger sum.
LEMMA TotalLeq ==
  ASSUME NEW S, IsFiniteSet(S), NEW f, NEW g,
         \A x \in S : f[x] \in Int /\ g[x] \in Int /\ f[x] <= g[x]
  PROVE  Total(f, S) <= Total(g, S)
<1> DEFINE d == [x \in S |-> g[x] - f[x]]
<1>1. \A x \in S : d[x] \in Nat /\ d[x] \in Int /\ g[x] = f[x] + d[x]
  OBVIOUS
<1> HIDE DEF d
<1>2. Total(g, S) = Total(f, S) + Total(d, S)
  BY <1>1, TotalPlus
<1>3. Total(d, S) \in Nat
  BY <1>1, TotalNat
<1>4. Total(f, S) \in Int
  BY TotalInt
<1> QED
  BY <1>2, <1>3, <1>4

-----------------------------------------------------------------------------
(* Sums over parts, other places, and the positions of a sequence.         *)

\* The next position adds what is there.
LEMMA TotalLast ==
  ASSUME NEW k \in Nat, k > 0, NEW f, \A i \in 1..k : f[i] \in Int
  PROVE  Total(f, 1..k) = Total(f, 1..(k - 1)) + f[k]
<1> DEFINE S == 1..(k - 1)
<1>1. IsFiniteSet(S)
  BY FS_Interval
<1>2. k \notin S /\ 1..k = S \cup {k}
  OBVIOUS
<1>3. f[k] \in Int /\ \A i \in S : f[i] \in Int
  OBVIOUS
<1> HIDE DEF S
<1>4. Total(f, S \cup {k}) = Total(f, S) + f[k]
  BY <1>1, <1>2, <1>3, TotalAdd
<1> QED
  BY <1>2, <1>4 DEF S

\* Two sets without a common member add up.
LEMMA TotalUnion ==
  ASSUME NEW A, NEW B, IsFiniteSet(A), IsFiniteSet(B), A \cap B = {}, NEW f,
         \A x \in A \cup B : f[x] \in Int
  PROVE  Total(f, A \cup B) = Total(f, A) + Total(f, B)
<1> DEFINE Bad == {T \in SUBSET B : Total(f, A \cup T) # Total(f, A) + Total(f, T)}
<1> SUFFICES ASSUME Bad # {} PROVE FALSE
  OBVIOUS
<1>0. Bad \subseteq SUBSET B
  OBVIOUS
<1> HIDE DEF Bad
<1>1. PICK T \in Bad : \A U \in Bad : U \subseteq T => U = T
  BY <1>0, Least
<1>2. T \in SUBSET B /\ IsFiniteSet(T) /\ Total(f, A \cup T) # Total(f, A) + Total(f, T)
  BY <1>0, <1>1, FS_Subset DEF Bad
<1>3. Total(f, A) \in Int
  BY TotalInt
<1>4. T # {}
  <2>1. A \cup {} = A
    OBVIOUS
  <2>2. Total(f, {}) = 0
    BY TotalEmpty
  <2> SUFFICES ASSUME T = {} PROVE FALSE
    OBVIOUS
  <2>3. Total(f, A) # Total(f, A) + 0
    BY <1>2, <2>1, <2>2
  <2> QED
    BY <1>3, <2>3
<1>5. PICK x \in T : TRUE
  BY <1>4
<1> DEFINE R == T \ {x}
           V == A \cup T
           W == A \cup R
<1>6. R \notin Bad /\ R \in SUBSET B /\ V \ {x} = W /\ x \in V
  BY <1>1, <1>2, <1>5
<1>7. Total(f, W) = Total(f, A) + Total(f, R)
  BY <1>6 DEF Bad
<1>8. IsFiniteSet(V) /\ IsFiniteSet(R)
  BY <1>2, FS_Union, FS_RemoveElement
<1>9. \A y \in V : f[y] \in Int
  BY <1>2
<1>10. Total(f, T) = f[x] + Total(f, R)
  BY <1>2, <1>5, <1>9, TotalTake
<1>11. Total(f, V) = f[x] + Total(f, V \ {x})
  BY <1>6, <1>8, <1>9, TotalTake
<1>12. Total(f, R) \in Int /\ f[x] \in Int
  BY <1>8, <1>9, <1>5, TotalInt
<1>13. Total(f, V) # Total(f, A) + Total(f, T)
  BY <1>2
<1>14. Total(f, V) = f[x] + (Total(f, A) + Total(f, R))
  BY <1>6, <1>7, <1>11
<1> HIDE DEF R, V, W
<1> QED
  BY <1>3, <1>10, <1>12, <1>13, <1>14

\* p takes each member of S to a place of its own in B, where f has what g has.
Carries(p, S, B, f, g) ==
  /\ \A x, y \in S : p[x] = p[y] => x = y
  /\ \A x \in S : p[x] \in B
  /\ \A y \in B : \E x \in S : y = p[x]
  /\ \A x \in S : g[x] \in Int /\ f[p[x]] = g[x]

\* A sum over S is a sum over the places p gives its members.
LEMMA TotalMoved ==
  ASSUME NEW S, IsFiniteSet(S), NEW p, NEW B, NEW f, NEW g, Carries(p, S, B, f, g)
  PROVE  IsFiniteSet(B) /\ Total(f, B) = Total(g, S)
<1> DEFINE At(T) == {p[x] : x \in T}
           Fine(T) == IsFiniteSet(At(T)) /\ Total(f, At(T)) = Total(g, T)
           Bad == {T \in SUBSET S : ~Fine(T)}
<1> SUFFICES ASSUME Bad # {} PROVE FALSE
  <2>1. At(S) = B
    BY DEF Carries
  <2>2. S \notin Bad => Fine(S)
    OBVIOUS
  <2> QED
    BY <2>1, <2>2
<1>0. Bad \subseteq SUBSET S
  OBVIOUS
<1> HIDE DEF Bad
<1>1. PICK T \in Bad : \A U \in Bad : U \subseteq T => U = T
  BY <1>0, Least
<1>2. T \in SUBSET S /\ IsFiniteSet(T) /\ ~Fine(T)
  BY <1>0, <1>1, FS_Subset DEF Bad
<1>3. T # {}
  <2>1. At({}) = {}
    OBVIOUS
  <2>2. Fine({})
    BY <2>1, TotalEmpty, FS_EmptySet
  <2> QED
    BY <1>2, <2>2
<1>4. PICK x \in T : TRUE
  BY <1>3
<1> DEFINE R == T \ {x}
           V == At(T)
<1>5. R \notin Bad /\ R \in SUBSET S
  BY <1>1, <1>2, <1>4
<1>6. Fine(R)
  BY <1>5 DEF Bad
<1>7. p[x] \in V /\ V \ {p[x]} = At(R)
  <2>1. \A y \in T : p[y] = p[x] => y = x
    BY <1>2, <1>4 DEF Carries
  <2> QED
    BY <1>4, <2>1
<1>8. IsFiniteSet(V)
  <2>1. V = At(R) \cup {p[x]}
    BY <1>7
  <2> QED
    BY <1>6, <2>1, FS_AddElement
<1>9. \A z \in V : f[z] \in Int
  BY <1>2 DEF Carries
<1> HIDE DEF V
<1>10. Total(f, V) = f[p[x]] + Total(f, V \ {p[x]})
  BY <1>7, <1>8, <1>9, TotalTake
<1>11. Total(g, T) = g[x] + Total(g, R)
  <2>1. \A y \in T : g[y] \in Int
    BY <1>2 DEF Carries
  <2> QED
    BY <1>2, <1>4, <2>1, TotalTake
<1>12. f[p[x]] = g[x]
  BY <1>2, <1>4 DEF Carries
<1> HIDE DEF R, At
<1> QED
  BY <1>2, <1>6, <1>7, <1>8, <1>10, <1>11, <1>12 DEF V
=============================================================================
