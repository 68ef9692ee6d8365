---------------------------- MODULE SumTheorems ----------------------------
(***************************************************************************)
(* Sums of a function over a finite set, SumFunctionOnSet of Functions:    *)
(* what the totals of the specifications are, and what adding, removing or *)
(* changing a term does to them.  The sum is a fold, a recursive function  *)
(* chosen to satisfy its equation.  That there is one, and that it does    *)
(* not depend on the order, is shown by looking at a smallest set for      *)
(* which it would not be so: the induction theorems of the library take a  *)
(* predicate, the theorem that there is a smallest one takes a set.        *)
(***************************************************************************)
EXTENDS Integers, Functions, FiniteSetTheorems, TLAPS

\* Of a collection of subsets of a finite set, one has no other within it.
LEMMA SmallestSubset ==
  ASSUME NEW S, IsFiniteSet(S), NEW B, B \subseteq SUBSET S, B # {}
  PROVE  \E T \in B : \A U \in B : U \subseteq T => U = T
<1>1. B \subseteq FiniteSubsetsOf(S)
  BY FS_FiniteSubsetsOfFinite
<1>2. \E T \in B : \A U \in B : ~(<<U, T>> \in StrictSubsetOrdering(S))
  BY <1>1, FS_StrictSubsetOrderingWellFounded, WFMin
<1> QED
  BY <1>2 DEF StrictSubsetOrdering

-----------------------------------------------------------------------------
(* The fold's recursive function.                                          *)

\* The element that a fold takes next.
Taken(s) == CHOOSE x \in s : TRUE

\* g is the partial sums of w over the subsets of S.
PartialSums(w, S, g) ==
    g = [s \in SUBSET S |-> IF s = {} THEN 0 ELSE w[Taken(s)] + g[s \ {Taken(s)}]]

\* A sum is the last of the partial sums.
LEMMA SumIsPartialSum ==
  ASSUME NEW w, NEW S
  PROVE  SumFunctionOnSet(w, S) = (CHOOSE g : PartialSums(w, S, g))[S]
  BY DEF SumFunctionOnSet, FoldFunctionOnSet, MapThenFoldSet, PartialSums, Taken

\* The fold takes an element of the set.
LEMMA TakenIsThere == ASSUME NEW s, s # {} PROVE Taken(s) \in s
  BY DEF Taken

\* What partial sums are, an equation at a time.
LEMMA PartialSum ==
  ASSUME NEW w, NEW S, NEW g, PartialSums(w, S, g), NEW s \in SUBSET S
  PROVE  /\ s = {} => g[s] = 0
         /\ s # {} => g[s] = w[Taken(s)] + g[s \ {Taken(s)}]
  BY DEF PartialSums

\* Partial sums of two sets agree on what is a subset of both.
LEMMA PartialSumsAgree ==
  ASSUME NEW w, NEW T, NEW U, NEW g, NEW h, PartialSums(w, T, g), PartialSums(w, U, h),
         IsFiniteSet(T), NEW r \in SUBSET T, r \in SUBSET U
  PROVE  g[r] = h[r]
<1> DEFINE B == {s \in SUBSET T : s \in SUBSET U /\ g[s] # h[s]}
<1> SUFFICES ASSUME B # {} PROVE FALSE
  OBVIOUS
<1>0. B \subseteq SUBSET T
  OBVIOUS
<1> HIDE DEF B
<1>1. PICK s \in B : \A q \in B : q \subseteq s => q = s
  BY <1>0, SmallestSubset
<1> USE DEF B
<1>2. s # {}
  BY <1>1, PartialSum
<1>3. Taken(s) \in s
  BY <1>2, TakenIsThere
<1>4. /\ s \ {Taken(s)} \in SUBSET T /\ s \ {Taken(s)} \in SUBSET U
      /\ s \ {Taken(s)} # s
  BY <1>3
<1>5. g[s \ {Taken(s)}] = h[s \ {Taken(s)}]
  BY <1>1, <1>4
<1>6. /\ g[s] = w[Taken(s)] + g[s \ {Taken(s)}]
      /\ h[s] = w[Taken(s)] + h[s \ {Taken(s)}]
  BY <1>2, PartialSum
<1> QED
  BY <1>1, <1>5, <1>6

\* Every finite set has partial sums.
LEMMA PartialSumsExist ==
  ASSUME NEW w, NEW S, IsFiniteSet(S)
  PROVE  \E g : PartialSums(w, S, g)
<1> DEFINE B == {T \in SUBSET S : ~\E g : PartialSums(w, T, g)}
<1> SUFFICES ASSUME B # {} PROVE FALSE
  OBVIOUS
<1>0. B \subseteq SUBSET S
  OBVIOUS
<1> HIDE DEF B
<1>1. PICK T \in B : \A U \in B : U \subseteq T => U = T
  BY <1>0, SmallestSubset
<1> USE DEF B
<1> DEFINE P(s) == CHOOSE g : PartialSums(w, s, g)
           h == [s \in SUBSET T |->
                    IF s = {} THEN 0 ELSE w[Taken(s)] + P(s \ {Taken(s)})[s \ {Taken(s)}]]
<1>2. ASSUME NEW s \in SUBSET T, s # T PROVE PartialSums(w, s, P(s))
  <2>1. \E g : PartialSums(w, s, g)
    BY <1>1, <1>2
  <2> QED
    BY <2>1
<1>3. ASSUME NEW s \in SUBSET T, s # T PROVE h[s] = P(s)[s]
  <2>1. PartialSums(w, s, P(s))
    BY <1>2, <1>3
  <2>2. CASE s = {}
    BY <2>1, <2>2, PartialSum
  <2>3. CASE s # {}
    <3> DEFINE q == s \ {Taken(s)}
    <3>1. q \in SUBSET s /\ q \in SUBSET T /\ q # T
      BY <2>3, TakenIsThere, <1>3
    <3>2. PartialSums(w, q, P(q))
      BY <1>2, <3>1
    <3>3. IsFiniteSet(s) /\ IsFiniteSet(q)
      BY <3>1, FS_Subset
    <3>4. P(q)[q] = P(s)[q]
      BY <2>1, <3>1, <3>2, <3>3, PartialSumsAgree
    <3>5. P(s)[s] = w[Taken(s)] + P(s)[q]
      BY <2>1, <2>3, PartialSum
    <3> QED
      BY <2>3, <3>4, <3>5
  <2> QED
    BY <2>2, <2>3
<1>4. ASSUME NEW s \in SUBSET T
      PROVE  h[s] = IF s = {} THEN 0 ELSE w[Taken(s)] + h[s \ {Taken(s)}]
  <2>1. CASE s = {}
    BY <2>1
  <2>2. CASE s # {}
    <3> DEFINE q == s \ {Taken(s)}
    <3>1. q \in SUBSET T /\ q # T
      BY <2>2, TakenIsThere
    <3> HIDE DEF q
    <3>2. h[q] = P(q)[q]
      BY <1>3, <3>1
    <3> QED
      BY <2>2, <3>2 DEF q
  <2> QED
    BY <2>1, <2>2
<1>5. PartialSums(w, T, h)
  <2> DEFINE k == [s \in SUBSET T |-> IF s = {} THEN 0 ELSE w[Taken(s)] + h[s \ {Taken(s)}]]
  <2>1. DOMAIN h = SUBSET T /\ DOMAIN k = SUBSET T /\ \A s \in SUBSET T : h[s] = k[s]
    BY <1>4, ZenonT(60)
  <2>2. h = k
    BY <2>1
  <2> QED
    BY <2>2 DEF PartialSums
<1> QED
  BY <1>1, <1>5

-----------------------------------------------------------------------------
(* Sums.                                                                   *)

\* Nothing comes to nothing.
THEOREM SumEmpty == ASSUME NEW w PROVE SumFunctionOnSet(w, {}) = 0
<1> DEFINE g == CHOOSE p : PartialSums(w, {}, p)
<1>1. PartialSums(w, {}, g)
  BY PartialSumsExist, FS_EmptySet
<1>2. g[{}] = 0
  BY <1>1, PartialSum
<1> QED
  BY <1>2, SumIsPartialSum

\* The equation of the fold.
LEMMA SumTakes ==
  ASSUME NEW w, NEW S, IsFiniteSet(S), S # {}
  PROVE  SumFunctionOnSet(w, S) = w[Taken(S)] + SumFunctionOnSet(w, S \ {Taken(S)})
<1> DEFINE T == S \ {Taken(S)}
           g == CHOOSE p : PartialSums(w, S, p)
           h == CHOOSE p : PartialSums(w, T, p)
<1>1. IsFiniteSet(T) /\ T \in SUBSET S
  BY FS_RemoveElement
<1>2. PartialSums(w, S, g) /\ PartialSums(w, T, h)
  BY <1>1, PartialSumsExist
<1>3. g[T] = h[T]
  BY <1>1, <1>2, PartialSumsAgree
<1>4. g[S] = w[Taken(S)] + g[T]
  BY <1>2, PartialSum
<1> QED
  BY <1>3, <1>4, SumIsPartialSum

\* A sum of integers is an integer.
THEOREM SumInt ==
  ASSUME NEW S, IsFiniteSet(S), NEW w, \A x \in S : w[x] \in Int
  PROVE  SumFunctionOnSet(w, S) \in Int
<1> DEFINE B == {T \in SUBSET S : SumFunctionOnSet(w, T) \notin Int}
<1> SUFFICES ASSUME B # {} PROVE FALSE
  OBVIOUS
<1>0. B \subseteq SUBSET S
  OBVIOUS
<1> HIDE DEF B
<1>1. PICK T \in B : \A U \in B : U \subseteq T => U = T
  BY <1>0, SmallestSubset
<1> USE DEF B
<1>2. T # {}
  <2>1. SumFunctionOnSet(w, {}) \in Int
    BY SumEmpty
  <2> QED
    BY <1>1, <2>1
<1>3. Taken(T) \in T /\ IsFiniteSet(T)
  BY <1>2, TakenIsThere, FS_Subset
<1>4. SumFunctionOnSet(w, T \ {Taken(T)}) \in Int
  BY <1>1, <1>3
<1>5. SumFunctionOnSet(w, T) = w[Taken(T)] + SumFunctionOnSet(w, T \ {Taken(T)})
  BY <1>2, <1>3, SumTakes
<1> QED
  BY <1>1, <1>3, <1>4, <1>5

\* Any of its terms may be taken out of a sum.
THEOREM SumRemove ==
  ASSUME NEW S, IsFiniteSet(S), NEW w, \A x \in S : w[x] \in Int, NEW a \in S
  PROVE  SumFunctionOnSet(w, S) = w[a] + SumFunctionOnSet(w, S \ {a})
<1> DEFINE Total(T) == SumFunctionOnSet(w, T)
           B == {T \in SUBSET S : \E b \in T : Total(T) # w[b] + Total(T \ {b})}
<1> SUFFICES ASSUME B # {} PROVE FALSE
  OBVIOUS
<1>0. B \subseteq SUBSET S
  OBVIOUS
<1> HIDE DEF B
<1>1. PICK T \in B : \A U \in B : U \subseteq T => U = T
  BY <1>0, SmallestSubset
<1> USE DEF B
<1>2. PICK b \in T : Total(T) # w[b] + Total(T \ {b})
  OBVIOUS
<1> DEFINE t == Taken(T)
<1>3. T \in SUBSET S /\ IsFiniteSet(T) /\ t \in T
  BY <1>2, TakenIsThere, FS_Subset
<1>4. Total(T) = w[t] + Total(T \ {t})
  BY <1>3, SumTakes
<1> HIDE DEF t
<1>5. t # b
  BY <1>2, <1>4
<1>6. T \ {t} \notin B /\ T \ {b} \notin B
  BY <1>1, <1>3
<1>7. Total(T \ {t}) = w[b] + Total((T \ {t}) \ {b})
  BY <1>3, <1>5, <1>6
<1>8. Total(T \ {b}) = w[t] + Total((T \ {b}) \ {t})
  BY <1>3, <1>5, <1>6
<1>9. (T \ {t}) \ {b} = (T \ {b}) \ {t}
  OBVIOUS
<1>10. Total((T \ {b}) \ {t}) \in Int /\ w[b] \in Int /\ w[t] \in Int
  <2>1. (T \ {b}) \ {t} \in SUBSET S
    BY <1>3
  <2>2. IsFiniteSet((T \ {b}) \ {t})
    BY <2>1, FS_Subset
  <2> QED
    BY <1>3, <2>1, <2>2, SumInt
<1> HIDE DEF Total
<1> QED
  BY <1>2, <1>4, <1>7, <1>8, <1>9, <1>10

\* A new term is added to a sum.
THEOREM SumAdd ==
  ASSUME NEW S, IsFiniteSet(S), NEW a, a \notin S,
         NEW w, \A x \in S \cup {a} : w[x] \in Int
  PROVE  SumFunctionOnSet(w, S \cup {a}) = w[a] + SumFunctionOnSet(w, S)
<1>1. IsFiniteSet(S \cup {a}) /\ (S \cup {a}) \ {a} = S
  BY FS_AddElement
<1> QED
  BY <1>1, SumRemove

\* A sum depends on its terms only.
THEOREM SumSame ==
  ASSUME NEW S, IsFiniteSet(S), NEW w, NEW v, \A x \in S : w[x] = v[x]
  PROVE  SumFunctionOnSet(w, S) = SumFunctionOnSet(v, S)
<1> DEFINE B == {T \in SUBSET S : SumFunctionOnSet(w, T) # SumFunctionOnSet(v, T)}
<1> SUFFICES ASSUME B # {} PROVE FALSE
  OBVIOUS
<1>0. B \subseteq SUBSET S
  OBVIOUS
<1> HIDE DEF B
<1>1. PICK T \in B : \A U \in B : U \subseteq T => U = T
  BY <1>0, SmallestSubset
<1> USE DEF B
<1>2. T # {}
  BY <1>1, SumEmpty
<1>3. Taken(T) \in T /\ IsFiniteSet(T)
  BY <1>2, TakenIsThere, FS_Subset
<1>4. SumFunctionOnSet(w, T \ {Taken(T)}) = SumFunctionOnSet(v, T \ {Taken(T)})
  BY <1>1, <1>3
<1> QED
  BY <1>1, <1>2, <1>3, <1>4, SumTakes

\* A sum of zeros is zero.
THEOREM SumZero ==
  ASSUME NEW S, IsFiniteSet(S), NEW w, \A x \in S : w[x] = 0
  PROVE  SumFunctionOnSet(w, S) = 0
<1> DEFINE B == {T \in SUBSET S : SumFunctionOnSet(w, T) # 0}
<1> SUFFICES ASSUME B # {} PROVE FALSE
  OBVIOUS
<1>0. B \subseteq SUBSET S
  OBVIOUS
<1> HIDE DEF B
<1>1. PICK T \in B : \A U \in B : U \subseteq T => U = T
  BY <1>0, SmallestSubset
<1> USE DEF B
<1>2. T # {}
  BY <1>1, SumEmpty
<1>3. Taken(T) \in T /\ IsFiniteSet(T)
  BY <1>2, TakenIsThere, FS_Subset
<1>4. SumFunctionOnSet(w, T \ {Taken(T)}) = 0
  BY <1>1, <1>3
<1>5. SumFunctionOnSet(w, T) = w[Taken(T)] + SumFunctionOnSet(w, T \ {Taken(T)})
  BY <1>2, <1>3, SumTakes
<1> QED
  BY <1>1, <1>3, <1>4, <1>5

\* The sum of sums.
THEOREM SumPlus ==
  ASSUME NEW S, IsFiniteSet(S), NEW w, NEW v, NEW u,
         \A x \in S : v[x] \in Int /\ w[x] \in Int /\ u[x] = v[x] + w[x]
  PROVE  SumFunctionOnSet(u, S) = SumFunctionOnSet(v, S) + SumFunctionOnSet(w, S)
<1> DEFINE B == {T \in SUBSET S : SumFunctionOnSet(u, T)
                                     # SumFunctionOnSet(v, T) + SumFunctionOnSet(w, T)}
<1> SUFFICES ASSUME B # {} PROVE FALSE
  OBVIOUS
<1>0. B \subseteq SUBSET S
  OBVIOUS
<1> HIDE DEF B
<1>1. PICK T \in B : \A U \in B : U \subseteq T => U = T
  BY <1>0, SmallestSubset
<1> USE DEF B
<1>2. T # {}
  <2>1. SumFunctionOnSet(u, {}) = SumFunctionOnSet(v, {}) + SumFunctionOnSet(w, {})
    BY SumEmpty
  <2> QED
    BY <1>1, <2>1
<1> DEFINE t == Taken(T)
           R == T \ {t}
<1>3. t \in T /\ t \in S /\ IsFiniteSet(T) /\ IsFiniteSet(R) /\ R \in SUBSET S
  BY <1>2, TakenIsThere, FS_Subset
<1>4. SumFunctionOnSet(u, R) = SumFunctionOnSet(v, R) + SumFunctionOnSet(w, R)
  BY <1>1, <1>3
<1>5. /\ SumFunctionOnSet(u, T) = u[t] + SumFunctionOnSet(u, R)
      /\ SumFunctionOnSet(v, T) = v[t] + SumFunctionOnSet(v, R)
      /\ SumFunctionOnSet(w, T) = w[t] + SumFunctionOnSet(w, R)
  BY <1>2, <1>3, SumTakes
<1>6. SumFunctionOnSet(v, R) \in Int /\ SumFunctionOnSet(w, R) \in Int
  BY <1>3, SumInt
<1> HIDE DEF t, R
<1> QED
  BY <1>1, <1>3, <1>4, <1>5, <1>6

\* One term is changed.
THEOREM SumChange ==
  ASSUME NEW S, IsFiniteSet(S), NEW a \in S, NEW w, NEW v,
         \A x \in S : w[x] \in Int /\ v[x] \in Int,
         \A x \in S \ {a} : w[x] = v[x]
  PROVE  SumFunctionOnSet(v, S) = SumFunctionOnSet(w, S) - w[a] + v[a]
<1>1. IsFiniteSet(S \ {a})
  BY FS_RemoveElement
<1>2. SumFunctionOnSet(w, S \ {a}) = SumFunctionOnSet(v, S \ {a})
  BY <1>1, SumSame
<1>3. SumFunctionOnSet(w, S \ {a}) \in Int
  BY <1>1, SumInt
<1>4. SumFunctionOnSet(w, S) = w[a] + SumFunctionOnSet(w, S \ {a})
  BY SumRemove
<1>5. SumFunctionOnSet(v, S) = v[a] + SumFunctionOnSet(v, S \ {a})
  BY SumRemove
<1> QED
  BY <1>2, <1>3, <1>4, <1>5

\* Sums of terms that are nowhere greater are not greater.
THEOREM SumAtMost ==
  ASSUME NEW S, IsFiniteSet(S), NEW w, NEW v,
         \A x \in S : w[x] \in Int /\ v[x] \in Int /\ w[x] <= v[x]
  PROVE  SumFunctionOnSet(w, S) <= SumFunctionOnSet(v, S)
<1> DEFINE B == {T \in SUBSET S : ~(SumFunctionOnSet(w, T) <= SumFunctionOnSet(v, T))}
<1> SUFFICES ASSUME B # {} PROVE FALSE
  OBVIOUS
<1>0. B \subseteq SUBSET S
  OBVIOUS
<1> HIDE DEF B
<1>1. PICK T \in B : \A U \in B : U \subseteq T => U = T
  BY <1>0, SmallestSubset
<1> USE DEF B
<1>2. T # {}
  <2>1. SumFunctionOnSet(w, {}) <= SumFunctionOnSet(v, {})
    BY SumEmpty
  <2> QED
    BY <1>1, <2>1
<1> DEFINE t == Taken(T)
<1>3. t \in T /\ t \in S /\ IsFiniteSet(T) /\ IsFiniteSet(T \ {t})
  BY <1>2, TakenIsThere, FS_Subset
<1>4. SumFunctionOnSet(w, T \ {t}) <= SumFunctionOnSet(v, T \ {t})
  BY <1>1, <1>3
<1>5. /\ SumFunctionOnSet(w, T) = w[t] + SumFunctionOnSet(w, T \ {t})
      /\ SumFunctionOnSet(v, T) = v[t] + SumFunctionOnSet(v, T \ {t})
  BY <1>2, <1>3, SumTakes
<1>6. SumFunctionOnSet(w, T \ {t}) \in Int /\ SumFunctionOnSet(v, T \ {t}) \in Int
  BY <1>3, SumInt
<1> HIDE DEF t
<1> QED
  BY <1>1, <1>3, <1>4, <1>5, <1>6

\* Naturals sum to a natural, and to no less than any of them.
THEOREM SumNat ==
  ASSUME NEW S, IsFiniteSet(S), NEW w, \A x \in S : w[x] \in Nat
  PROVE  /\ SumFunctionOnSet(w, S) \in Nat
         /\ \A a \in S : w[a] <= SumFunctionOnSet(w, S)
<1>1. ASSUME NEW T, IsFiniteSet(T), T \subseteq S PROVE SumFunctionOnSet(w, T) \in Nat
  <2> DEFINE B == {U \in SUBSET T : SumFunctionOnSet(w, U) \notin Nat}
  <2> SUFFICES ASSUME B # {} PROVE FALSE
    BY <1>1
  <2>0. B \subseteq SUBSET T /\ IsFiniteSet(T)
    BY <1>1
  <2> HIDE DEF B
  <2>1. PICK U \in B : \A V \in B : V \subseteq U => V = U
    BY <2>0, SmallestSubset
  <2> USE DEF B
  <2>2. U # {}
    <3>1. SumFunctionOnSet(w, {}) \in Nat
      BY SumEmpty
    <3> QED
      BY <2>1, <3>1
  <2>3. Taken(U) \in U /\ IsFiniteSet(U) /\ w[Taken(U)] \in Nat
    BY <1>1, <2>2, TakenIsThere, FS_Subset
  <2>4. SumFunctionOnSet(w, U \ {Taken(U)}) \in Nat
    BY <2>1, <2>3
  <2> QED
    BY <2>1, <2>2, <2>3, <2>4, SumTakes
<1>2. ASSUME NEW a \in S PROVE w[a] <= SumFunctionOnSet(w, S)
  <2>1. IsFiniteSet(S \ {a})
    BY FS_RemoveElement
  <2>2. SumFunctionOnSet(w, S \ {a}) \in Nat /\ w[a] \in Nat
    BY <1>1, <2>1
  <2>3. SumFunctionOnSet(w, S) = w[a] + SumFunctionOnSet(w, S \ {a})
    BY SumRemove
  <2> QED
    BY <2>2, <2>3
<1> QED
  BY <1>1, <1>2

\* A sum over two disjoint sets is the sums over each.
THEOREM SumUnion ==
  ASSUME NEW S, IsFiniteSet(S), NEW T, IsFiniteSet(T), S \cap T = {},
         NEW w, \A x \in S \cup T : w[x] \in Int
  PROVE  SumFunctionOnSet(w, S \cup T) = SumFunctionOnSet(w, S) + SumFunctionOnSet(w, T)
<1> DEFINE B == {U \in SUBSET T : SumFunctionOnSet(w, S \cup U)
                                     # SumFunctionOnSet(w, S) + SumFunctionOnSet(w, U)}
<1> SUFFICES ASSUME B # {} PROVE FALSE
  OBVIOUS
<1>0. B \subseteq SUBSET T
  OBVIOUS
<1> HIDE DEF B
<1>1. PICK U \in B : \A V \in B : V \subseteq U => V = U
  BY <1>0, SmallestSubset
<1> USE DEF B
<1>2. SumFunctionOnSet(w, S) \in Int
  BY SumInt
<1>3. U # {}
  <2> SUFFICES ASSUME U = {} PROVE FALSE
    OBVIOUS
  <2>1. S \cup U = S /\ SumFunctionOnSet(w, U) = 0
    BY SumEmpty
  <2> QED
    BY <1>1, <1>2, <2>1
<1>4. PICK a \in U : TRUE
  BY <1>3
<1> DEFINE V == U \ {a}
<1>5. /\ V \in SUBSET T /\ V \subseteq U /\ V # U /\ IsFiniteSet(U) /\ IsFiniteSet(V)
      /\ IsFiniteSet(S \cup V) /\ (S \cup V) \cup {a} = S \cup U /\ a \notin S \cup V
      /\ a \in T /\ V \cup {a} = U
  BY <1>4, FS_Subset, FS_Union
<1>6. SumFunctionOnSet(w, S \cup V) = SumFunctionOnSet(w, S) + SumFunctionOnSet(w, V)
  BY <1>1, <1>5
<1>7. SumFunctionOnSet(w, S \cup U) = w[a] + SumFunctionOnSet(w, S \cup V)
  BY <1>5, SumAdd
<1>8. SumFunctionOnSet(w, U) = w[a] + SumFunctionOnSet(w, V)
  BY <1>5, SumAdd
<1>9. SumFunctionOnSet(w, V) \in Int /\ w[a] \in Int
  BY <1>5, SumInt
<1> QED
  BY <1>1, <1>2, <1>6, <1>7, <1>8, <1>9

\* The part of a set that p puts at k.
Piece(S, p, k) == {x \in S : p[x] = k}

\* The sums of the parts of a set, each given by the index of its part, add up to the sum.
THEOREM SumParts ==
  ASSUME NEW S, IsFiniteSet(S), NEW K, IsFiniteSet(K), NEW p \in [S -> K],
         NEW w, \A x \in S : w[x] \in Int,
         NEW v, \A k \in K : v[k] = SumFunctionOnSet(w, Piece(S, p, k))
  PROVE  SumFunctionOnSet(v, K) = SumFunctionOnSet(w, S)
<1> USE DEF Piece
<1> DEFINE part(T) == [k \in K |-> SumFunctionOnSet(w, {x \in T : p[x] = k})]
           B == {T \in SUBSET S : SumFunctionOnSet(part(T), K) # SumFunctionOnSet(w, T)}
<1>a. SUFFICES SumFunctionOnSet(part(S), K) = SumFunctionOnSet(w, S)
  <2>1. \A k \in K : v[k] = part(S)[k]
    OBVIOUS
  <2> HIDE DEF part
  <2> QED
    BY <1>a, <2>1, SumSame
<1> SUFFICES ASSUME B # {} PROVE FALSE
  OBVIOUS
<1>0. B \subseteq SUBSET S
  OBVIOUS
<1> HIDE DEF B
<1>1. PICK T \in B : \A U \in B : U \subseteq T => U = T
  BY <1>0, SmallestSubset
<1> USE DEF B
<1>b. ASSUME NEW U \in SUBSET S PROVE \A k \in K : part(U)[k] \in Int
  <2> SUFFICES ASSUME NEW k \in K PROVE SumFunctionOnSet(w, {x \in U : p[x] = k}) \in Int
    OBVIOUS
  <2>1. IsFiniteSet({x \in U : p[x] = k}) /\ \A x \in {x \in U : p[x] = k} : w[x] \in Int
    BY FS_Subset
  <2> QED
    BY <2>1, SumInt
<1>2. T # {}
  <2> SUFFICES ASSUME T = {} PROVE FALSE
    OBVIOUS
  <2>1. \A k \in K : part(T)[k] = 0
    <3> SUFFICES ASSUME NEW k \in K PROVE SumFunctionOnSet(w, {x \in T : p[x] = k}) = 0
      OBVIOUS
    <3>1. {x \in T : p[x] = k} = {}
      OBVIOUS
    <3> QED
      BY <3>1, SumEmpty
  <2> HIDE DEF part
  <2>2. SumFunctionOnSet(part(T), K) = 0
    BY <2>1, SumZero
  <2>3. SumFunctionOnSet(w, T) = 0
    BY SumEmpty
  <2> QED
    BY <1>1, <2>2, <2>3
<1>3. PICK a \in T : TRUE
  BY <1>2
<1> DEFINE U == T \ {a}
<1>4. U \in SUBSET S /\ U \subseteq T /\ U # T /\ IsFiniteSet(T) /\ IsFiniteSet(U) /\ a \in S
  BY <1>3, FS_Subset
<1>5. SumFunctionOnSet(part(U), K) = SumFunctionOnSet(w, U)
  BY <1>1, <1>4
<1>6. SumFunctionOnSet(w, T) = w[a] + SumFunctionOnSet(w, U)
  BY <1>4, <1>3, SumRemove
<1>7. part(T)[p[a]] = w[a] + part(U)[p[a]]
  <2> DEFINE k == p[a]
             D == {x \in T : p[x] = k}
  <2>1. IsFiniteSet(D) /\ a \in D /\ D \ {a} = {x \in U : p[x] = k} /\ k \in K
        /\ \A x \in D : w[x] \in Int
    BY <1>3, <1>4, FS_Subset
  <2>2. SumFunctionOnSet(w, D) = w[a] + SumFunctionOnSet(w, D \ {a})
    BY <2>1, SumRemove
  <2> QED
    BY <2>1, <2>2
<1>8. \A k \in K \ {p[a]} : part(U)[k] = part(T)[k]
  <2> SUFFICES ASSUME NEW k \in K \ {p[a]}
               PROVE {x \in U : p[x] = k} = {x \in T : p[x] = k}
    OBVIOUS
  <2> QED
    BY <1>3
<1>9. \A k \in K : part(U)[k] \in Int /\ part(T)[k] \in Int
  BY <1>b, <1>4
<1> DEFINE e == part(U)
           d == part(T)
<1>10. /\ \A k \in K : e[k] \in Int /\ d[k] \in Int
       /\ \A k \in K \ {p[a]} : e[k] = d[k]
  BY <1>8, <1>9
<1>11. d[p[a]] = w[a] + e[p[a]] /\ SumFunctionOnSet(e, K) = SumFunctionOnSet(w, U)
       /\ SumFunctionOnSet(d, K) # SumFunctionOnSet(w, T)
  BY <1>7, <1>5, <1>1
<1> HIDE DEF d, e
<1>12. p[a] \in K
  BY <1>4
<1>13. SumFunctionOnSet(d, K) = SumFunctionOnSet(e, K) - e[p[a]] + d[p[a]]
  BY <1>10, <1>12, SumChange
<1>14. SumFunctionOnSet(w, U) \in Int /\ w[a] \in Int /\ e[p[a]] \in Int
  BY <1>4, <1>10, <1>12, SumInt
<1> QED
  BY <1>6, <1>11, <1>13, <1>14

\* Terms that are zero may be left out.
THEOREM SumOutside ==
  ASSUME NEW S, IsFiniteSet(S), NEW T, T \subseteq S, NEW w, \A x \in T : w[x] \in Int,
         \A x \in S \ T : w[x] = 0
  PROVE  SumFunctionOnSet(w, S) = SumFunctionOnSet(w, T)
<1>1. IsFiniteSet(T) /\ IsFiniteSet(S \ T) /\ T \cap (S \ T) = {} /\ T \cup (S \ T) = S
  BY FS_Subset
<1>2. \A x \in T \cup (S \ T) : w[x] \in Int
  OBVIOUS
<1>3. SumFunctionOnSet(w, S) = SumFunctionOnSet(w, T) + SumFunctionOnSet(w, S \ T)
  BY <1>1, <1>2, SumUnion
<1>4. SumFunctionOnSet(w, S \ T) = 0
  BY <1>1, SumZero
<1>5. SumFunctionOnSet(w, T) \in Int
  BY <1>1, SumInt
<1> QED
  BY <1>3, <1>4, <1>5

\* A sum of what is not negative is not less than the sum over a subset.
THEOREM SumSubset ==
  ASSUME NEW S, IsFiniteSet(S), NEW T, T \subseteq S, NEW w, \A x \in S : w[x] \in Nat
  PROVE  SumFunctionOnSet(w, T) <= SumFunctionOnSet(w, S)
<1>1. IsFiniteSet(T) /\ IsFiniteSet(S \ T) /\ T \cap (S \ T) = {} /\ T \cup (S \ T) = S
  BY FS_Subset
<1>2. SumFunctionOnSet(w, S) = SumFunctionOnSet(w, T) + SumFunctionOnSet(w, S \ T)
  BY <1>1, SumUnion
<1>3. SumFunctionOnSet(w, T) \in Nat /\ SumFunctionOnSet(w, S \ T) \in Nat
  BY <1>1, SumNat
<1> QED
  BY <1>2, <1>3

\* A set has as many members as ones in it.
THEOREM SumOnes ==
  ASSUME NEW S, IsFiniteSet(S), NEW w, \A x \in S : w[x] = 1
  PROVE  SumFunctionOnSet(w, S) = Cardinality(S)
<1> DEFINE B == {T \in SUBSET S : SumFunctionOnSet(w, T) # Cardinality(T)}
<1> SUFFICES ASSUME B # {} PROVE FALSE
  OBVIOUS
<1>0. B \subseteq SUBSET S
  OBVIOUS
<1> HIDE DEF B
<1>1. PICK T \in B : \A U \in B : U \subseteq T => U = T
  BY <1>0, SmallestSubset
<1> USE DEF B
<1>2. T # {}
  BY <1>1, SumEmpty, FS_EmptySet
<1>3. PICK a \in T : TRUE
  BY <1>2
<1> DEFINE U == T \ {a}
<1>4. U \in SUBSET S /\ U \subseteq T /\ U # T /\ IsFiniteSet(T) /\ IsFiniteSet(U) /\ a \in S
  BY <1>3, FS_Subset
<1>5. SumFunctionOnSet(w, U) = Cardinality(U)
  BY <1>1, <1>4
<1>6. SumFunctionOnSet(w, T) = w[a] + SumFunctionOnSet(w, U)
  BY <1>4, <1>3, SumRemove
<1>7. Cardinality(U) = Cardinality(T) - 1 /\ Cardinality(T) \in Nat
  BY <1>3, <1>4, FS_RemoveElement, FS_CardinalityType
<1> QED
  BY <1>1, <1>4, <1>5, <1>6, <1>7

-----------------------------------------------------------------------------
\* Of finitely many subsets, one for each member of a set, one has no other within it.
LEMMA SmallestOf ==
  ASSUME NEW S, IsFiniteSet(S), S # {}, NEW f \in [S -> SUBSET S]
  PROVE  \E r \in S : \A q \in S : f[q] \subseteq f[r] => f[q] = f[r]
<1> DEFINE B == {f[r] : r \in S}
<1>1. B # {} /\ B \subseteq SUBSET S
  OBVIOUS
<1>2. /\ \A r \in S : f[r] \in B
      /\ \A T \in B : \E r \in S : T = f[r]
  OBVIOUS
<1> HIDE DEF B
<1>3. PICK T \in B : \A U \in B : U \subseteq T => U = T
  BY <1>1, SmallestSubset
<1> QED
  BY <1>2, <1>3

\* A finite set of integers that is not empty has a greatest member.
LEMMA GreatestMember ==
  ASSUME NEW S, IsFiniteSet(S), S # {}, \A r \in S : r \in Int
  PROVE  \E r \in S : \A q \in S : q <= r
<1> DEFINE above == [r \in S |-> {q \in S : r <= q}]
<1>1. above \in [S -> SUBSET S]
  OBVIOUS
<1> HIDE DEF above
<1>2. PICK r \in S : \A q \in S : above[q] \subseteq above[r] => above[q] = above[r]
  BY <1>1, SmallestOf
<1> USE DEF above
<1>3. ASSUME NEW q \in S, ~(q <= r) PROVE FALSE
  <2>1. r \in Int /\ q \in Int /\ \A p \in S : p \in Int
    OBVIOUS
  <2>2. \A p \in S : q <= p => r <= p
    BY <1>3, <2>1
  <2>3. above[q] \subseteq above[r]
    BY <2>2
  <2>4. r \in above[r] /\ r \notin above[q]
    BY <1>3, <2>1
  <2> QED
    BY <1>2, <2>3, <2>4
<1> QED
  BY <1>3
=============================================================================
