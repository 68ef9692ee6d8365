------------------------- MODULE LenderFilesProofs -------------------------
(***************************************************************************)
(* Theorems about LeadFiling, for any number of users, leads, lenders,     *)
(* amounts, imported tranches and applications: the lender a lead shows is *)
(* that of its furthest file, a file's first tranche is booked of itself   *)
(* once, what is released stays within the sanction, a lead gets to        *)
(* disbursed with its money, and shows the furthest of its applications.   *)
(* And for any number of requests of the bot, messages and processes: a    *)
(* message is in its conversation once, the first share of a file stands,  *)
(* and no process keeps an outdated list of lenders for long.              *)
(***************************************************************************)
EXTENDS LeadFiling, SumTheorems

-----------------------------------------------------------------------------
(* The greatest of a set, orders, the primary lender.                      *)

\* An image of a finite set is finite.
LEMMA FiniteImage ==
    ASSUME NEW S, IsFiniteSet(S), NEW f
    PROVE  IsFiniteSet({f[x] : x \in S})
<1> DEFINE T == {f[x] : x \in S}
           g == [x \in S |-> f[x]]
<1>1. g \in [S -> T] /\ \A t \in T : \E x \in S : g[x] = t
  OBVIOUS
<1> HIDE DEF g, T
<1>2. g \in Surjection(S, T)
  BY <1>1 DEF Surjection
<1>3. IsFiniteSet(T)
  BY <1>2, FS_Surjection
<1> QED
  BY <1>3 DEF T

\* Max is what it says.
LEMMA GreatestIsThere ==
    ASSUME NEW S, IsFiniteSet(S), S # {}, \A x \in S : x \in Int
    PROVE  Max(S) \in S /\ \A x \in S : x <= Max(S)
<1>1. \E x \in S : \A y \in S : x >= y
  BY GreatestMember
<1>2. Max(S) \in S /\ \A y \in S : Max(S) >= y
  BY <1>1 DEF Max
<1> QED
  BY <1>2

\* A member that is not below another is the greatest.
LEMMA ItIsTheGreatest ==
    ASSUME NEW S, \A x \in S : x \in Int, NEW n \in S, \A x \in S : x <= n
    PROVE  Max(S) = n
<1>1. \E x \in S : \A y \in S : x >= y
  BY n \in Int
<1>2. Max(S) \in S /\ \A y \in S : Max(S) >= y
  BY <1>1 DEF Max
<1> QED
  BY <1>2

\* No lender twice.
Once(order) == \A i, j \in DOMAIN order : order[i] = order[j] => i = j

\* Taking a lender out of an order.
LEMMA TakenOut ==
    ASSUME NEW order \in Seq(Lenders), Once(order), NEW b
    PROVE  /\ Without(order, b) \in Seq(Lenders) /\ Once(Without(order, b))
           /\ ToSet(Without(order, b)) = ToSet(order) \ {b}
<1>1. CASE b \notin ToSet(order)
  BY <1>1 DEF Without
<1>2. CASE b \in ToSet(order)
  <2> DEFINE p == CHOOSE i \in DOMAIN order : order[i] = b
             n == Len(order)
             at1 == [i \in 1..(n - 1) |-> IF i < p THEN i ELSE i + 1]
             left == [i \in 1..(n - 1) |-> order[IF i < p THEN i ELSE i + 1]]
  <2>1. p \in DOMAIN order /\ order[p] = b
    BY <1>2 DEF ToSet
  <2>2. Without(order, b) = left
    BY <1>2 DEF Without
  <2>3. n \in Nat /\ DOMAIN order = 1..n /\ \A i \in 1..n : order[i] \in Lenders
    OBVIOUS
  <2> HIDE DEF p, n
  <2>4. /\ \A i \in 1..(n - 1) : at1[i] \in (1..n) \ {p}
        /\ \A i, j \in 1..(n - 1) : at1[i] = at1[j] => i = j
        /\ \A k \in (1..n) \ {p} : \E i \in 1..(n - 1) : at1[i] = k
    <3>1. p \in 1..n
      BY <2>1, <2>3
    <3>2. ASSUME NEW k \in (1..n) \ {p} PROVE \E i \in 1..(n - 1) : at1[i] = k
      <4>1. CASE k < p
        BY <2>3, <3>1, <4>1
      <4>2. CASE k > p
        <5>1. k - 1 \in 1..(n - 1) /\ ~(k - 1 < p) /\ (k - 1) + 1 = k
          BY <2>3, <3>1, <4>2
        <5> QED
          BY <5>1
      <4> QED
        BY <2>3, <3>1, <4>1, <4>2
    <3> QED
      BY <2>3, <3>1, <3>2
  <2>5. \A i \in 1..(n - 1) : left[i] = order[at1[i]]
    OBVIOUS
  <2>6. DOMAIN left = 1..(n - 1) /\ n - 1 \in Nat
    BY <2>1, <2>3
  <2> HIDE DEF at1
  <2>7. left \in Seq(Lenders)
    <3>1. \A i \in 1..(n - 1) : left[i] \in Lenders
      BY <2>3, <2>4, <2>5
    <3> QED
      BY <2>6, <3>1
  <2> HIDE DEF left
  <2>8. Once(left)
    BY <2>3, <2>4, <2>5, <2>6, SMTT(60) DEF Once
  <2>9. ToSet(left) = ToSet(order) \ {b}
    <3>1. ASSUME NEW x \in ToSet(left) PROVE x \in ToSet(order) \ {b}
      <4>1. PICK i \in 1..(n - 1) : left[i] = x
        BY <2>6 DEF ToSet
      <4>2. at1[i] \in 1..n /\ at1[i] # p /\ order[at1[i]] = x
        BY <2>4, <2>5, <4>1
      <4> QED
        BY <2>1, <2>3, <4>2 DEF ToSet, Once
    <3>2. ASSUME NEW x \in ToSet(order), x # b PROVE x \in ToSet(left)
      <4>1. PICK k \in 1..n : order[k] = x
        BY <2>3 DEF ToSet
      <4>2. k # p
        BY <2>1, <3>2, <4>1
      <4>3. PICK i \in 1..(n - 1) : at1[i] = k
        BY <2>4, <4>2
      <4> QED
        BY <2>5, <2>6, <4>1, <4>3 DEF ToSet
    <3> QED
      BY <3>1, <3>2
  <2> QED
    BY <2>2, <2>7, <2>8, <2>9
<1> QED
  BY <1>1, <1>2

\* Putting one last that is not in it.
LEMMA PutLast ==
    ASSUME NEW order \in Seq(Lenders), Once(order), NEW b \in Lenders, b \notin ToSet(order)
    PROVE  LET new == Append(order, b)
           IN  /\ new \in Seq(Lenders) /\ Once(new) /\ ToSet(new) = ToSet(order) \cup {b}
               /\ new # <<>> /\ new[Len(new)] = b
<1> DEFINE new == Append(order, b)
           n == Len(order)
<1>1. /\ new \in Seq(Lenders) /\ n \in Nat /\ Len(new) = n + 1
      /\ DOMAIN order = 1..n /\ DOMAIN new = 1..(n + 1)
      /\ \A i \in 1..n : new[i] = order[i] /\ new[n + 1] = b
      /\ new # <<>>
  OBVIOUS
<1>1a. new[n + 1] = b
  OBVIOUS
<1> HIDE DEF new, n
<1>2. ToSet(new) = ToSet(order) \cup {b}
  BY <1>1, <1>1a DEF ToSet
<1>3. Once(new)
  <2>1. ASSUME NEW i \in 1..(n + 1), NEW j \in 1..(n + 1), new[i] = new[j] PROVE i = j
    <3>1. \A k \in 1..n : new[k] # b
      BY <1>1 DEF ToSet
    <3> QED
      BY <1>1, <1>1a, <2>1, <3>1 DEF Once
  <2> QED
    BY <1>1, <2>1 DEF Once
<1>4. new[Len(new)] = b
  BY <1>1, <1>1a
<1> QED
  BY <1>1, <1>2, <1>3, <1>4 DEF new

FileStatus == Statuses \cup {NoFile}

\* The furthest there can be.
LEMMA DisbursedIsFurthest ==
    /\ \A s \in Statuses : Priority[s] \in Nat /\ Priority[s] <= 7
    /\ Priority["disbursed"] = 7
  BY DEF Statuses, Priority

\* The primary lender is one of the lenders, if there is a file.
LEMMA BestIsLender ==
    ASSUME NEW files \in [Lenders -> FileStatus], NEW order \in Seq(Lenders)
    PROVE  Best(files, order) \in Lenders \cup {NoLender}
<1> DEFINE there == {i \in DOMAIN order : files[order[i]] # NoFile}
           rank == [i \in there |-> Priority[files[order[i]]]]
           top == Max({Priority[files[order[i]]] : i \in there})
           tops == {i \in there : Priority[files[order[i]]] = top}
<1>1. CASE there = {}
  BY <1>1 DEF Best
<1>2. CASE there # {}
  <2>1. IsFiniteSet(there) /\ \A i \in there : i \in Int /\ i \in DOMAIN order
    <3>1. DOMAIN order = 1..Len(order) /\ Len(order) \in Int
      OBVIOUS
    <3>2. IsFiniteSet(1..Len(order))
      BY <3>1, FS_Interval
    <3>3. there \subseteq 1..Len(order)
      BY <3>1
    <3> QED
      BY <3>1, <3>2, <3>3, FS_Subset
  <2>2. \A i \in there : files[order[i]] \in Statuses
    BY DEF FileStatus
  <2>3. {Priority[files[order[i]]] : i \in there} = {rank[i] : i \in there}
    OBVIOUS
  <2>4. \A i \in there : rank[i] \in Int
    BY <2>2, DisbursedIsFurthest
  <2>5. IsFiniteSet({rank[i] : i \in there})
    <3> HIDE DEF rank, there
    <3> QED
      BY <2>1, FiniteImage
  <2>6. top \in {Priority[files[order[i]]] : i \in there}
    <3> HIDE DEF rank, there
    <3>1. {rank[i] : i \in there} # {} /\ \A x \in {rank[i] : i \in there} : x \in Int
      BY <1>2, <2>4
    <3>2. Max({rank[i] : i \in there}) \in {rank[i] : i \in there}
      BY <2>5, <3>1, GreatestIsThere
    <3> QED
      BY <2>3, <3>2
  <2>7. tops # {} /\ tops \subseteq there
    BY <2>6
  <2>8. IsFiniteSet(tops)
    BY <2>1, <2>7, FS_Subset
  <2>9. Max(tops) \in tops
    <3> HIDE DEF tops
    <3> QED
      BY <2>1, <2>7, <2>8, GreatestIsThere
  <2>10. order[Max(tops)] \in Lenders
    <3> HIDE DEF tops
    <3>1. Max(tops) \in DOMAIN order
      BY <2>1, <2>7, <2>9
    <3> QED
      BY <3>1
  <2>11. Best(files, order) = order[Max(tops)]
    BY <1>2 DEF Best
  <2> QED
    BY <2>10, <2>11
<1> QED
  BY <1>1, <1>2

\* A disbursed file that was touched last is the primary lender's.
LEMMA LastDisbursedIsBest ==
    ASSUME NEW files \in [Lenders -> FileStatus], NEW order \in Seq(Lenders), order # <<>>,
           files[order[Len(order)]] = "disbursed"
    PROVE  Best(files, order) = order[Len(order)]
<1> DEFINE n == Len(order)
           there == {i \in DOMAIN order : files[order[i]] # NoFile}
           ranks == {Priority[files[order[i]]] : i \in there}
           tops == {i \in there : Priority[files[order[i]]] = Max(ranks)}
<1>1. /\ n \in Nat /\ n \in DOMAIN order /\ DOMAIN order = 1..n
      /\ \A i \in DOMAIN order : order[i] \in Lenders
  OBVIOUS
<1>2. "disbursed" # NoFile
  BY ConstantsAssumption DEF ConstantsAssumption, Statuses
<1>3. n \in there /\ \A i \in there : i \in Int /\ i <= n
  BY <1>1, <1>2
<1>4. 7 \in ranks
  BY <1>3, DisbursedIsFurthest
<1>5. \A x \in ranks : x \in Int /\ x <= 7
  <2>1. \A i \in there : files[order[i]] \in Statuses
    BY <1>1 DEF FileStatus
  <2> QED
    BY <2>1, DisbursedIsFurthest
<1>6. Max(ranks) = 7
  <2> HIDE DEF ranks
  <2> QED
    BY <1>4, <1>5, ItIsTheGreatest
<1>7. n \in tops /\ \A i \in tops : i \in Int /\ i <= n
  BY <1>3, <1>6, DisbursedIsFurthest
<1>8. Max(tops) = n
  <2> HIDE DEF tops, n
  <2> QED
    BY <1>7, ItIsTheGreatest
<1>9. Best(files, order) = order[Max(tops)]
  BY <1>3 DEF Best
<1> QED
  BY <1>8, <1>9

-----------------------------------------------------------------------------
(* The tranches of a file and what they come to.                           *)

\* The tranches of f among T.
Of(T, f) == {t \in T : t.file = f}

\* One number is given to one tranche of a file.
Numbered(T) == \A t, q \in T : t.file = q.file /\ t.no = q.no => t = q

Book(T) == T \subseteq Tranches /\ IsFiniteSet(T) /\ Numbered(T)

\* What tranches come to is a number; one more or one less counts for its amount.
LEMMA TotalOf ==
    ASSUME NEW S, IsFiniteSet(S), S \subseteq Tranches
    PROVE  /\ Total(S) \in Nat
           /\ \A t \in S : Total(S) = t.amount + Total(S \ {t})
<1> DEFINE w == [t \in S |-> t.amount]
<1>1. \A t \in S : w[t] \in Nat /\ w[t] \in Int /\ w[t] = t.amount
  BY DEF Tranches
<1>2. Total(S) = SumFunctionOnSet(w, S)
  BY DEF Total
<1>3. Total(S) \in Nat
  <2> HIDE DEF w
  <2> QED
    BY <1>1, <1>2, SumNat
<1>4. ASSUME NEW t \in S PROVE Total(S) = t.amount + Total(S \ {t})
  <2> DEFINE v == [q \in S \ {t} |-> q.amount]
  <2>1. \A q \in S \ {t} : w[q] = v[q]
    OBVIOUS
  <2>2. IsFiniteSet(S \ {t})
    BY FS_RemoveElement
  <2>3. Total(S \ {t}) = SumFunctionOnSet(v, S \ {t})
    BY DEF Total
  <2> HIDE DEF w, v
  <2>4. SumFunctionOnSet(w, S \ {t}) = SumFunctionOnSet(v, S \ {t})
    BY <2>1, <2>2, SumSame
  <2>5. SumFunctionOnSet(w, S) = w[t] + SumFunctionOnSet(w, S \ {t})
    BY <1>1, SumRemove
  <2> QED
    BY <1>1, <1>2, <2>3, <2>4, <2>5
<1> QED
  BY <1>3, <1>4

LEMMA TotalWith ==
    ASSUME NEW S, IsFiniteSet(S), S \subseteq Tranches, NEW t \in Tranches, t \notin S
    PROVE  Total(S \cup {t}) = t.amount + Total(S)
<1>1. IsFiniteSet(S \cup {t})
  BY FS_AddElement
<1>2. (S \cup {t}) \ {t} = S /\ S \cup {t} \subseteq Tranches /\ t \in S \cup {t}
  OBVIOUS
<1> QED
  BY <1>1, <1>2, TotalOf

\* The number of the next tranche is new to the file.
LEMMA NextNoIsNew ==
    ASSUME NEW f, Book(tranches)
    PROVE  NextNo(f) \in Nat /\ \A t \in TranchesOf(f) : t.no < NextNo(f)
<1> DEFINE S == TranchesOf(f)
           no == [t \in S |-> t.no]
           N == {t.no : t \in S}
<1>1. IsFiniteSet(S) /\ S \subseteq Tranches
  <2>1. IsFiniteSet(tranches) /\ S \in SUBSET tranches
    BY DEF Book, TranchesOf
  <2> QED
    BY <2>1, FS_Subset DEF Book
<1>2. N = {no[t] : t \in S}
  OBVIOUS
<1>3. IsFiniteSet(N)
  <2> HIDE DEF no, S, N
  <2> QED
    BY <1>1, <1>2, FiniteImage
<1>4. \A n \in N : n \in Nat
  BY <1>1 DEF Tranches
<1>5. IsFiniteSet({0} \cup N)
  <2> HIDE DEF N
  <2>1. {0} \cup N = N \cup {0}
    OBVIOUS
  <2> QED
    BY <1>3, <2>1, FS_AddElement
<1>6. {0} \cup N # {} /\ \A n \in {0} \cup N : n \in Int
  BY <1>4
<1>7. Max({0} \cup N) \in {0} \cup N /\ \A n \in {0} \cup N : n <= Max({0} \cup N)
  <2> DEFINE M == {0} \cup N
  <2> HIDE DEF N, M
  <2>1. IsFiniteSet(M) /\ M # {} /\ \A n \in M : n \in Int
    BY <1>5, <1>6 DEF M
  <2>2. Max(M) \in M /\ \A n \in M : n <= Max(M)
    BY <2>1, GreatestIsThere
  <2> QED
    BY <2>2 DEF M
<1>8. NextNo(f) = Max({0} \cup N) + 1
  BY DEF NextNo
<1>9. \A t \in S : t.no \in N
  OBVIOUS
<1> HIDE DEF N
<1> QED
  BY <1>4, <1>7, <1>8, <1>9

\* What is rounded is within a half of what it was.
LEMMA RoundedNear ==
    ASSUME NEW n \in Nat, NEW unit \in Nat \ {0}
    PROVE  /\ HalfUp(n, unit) \in Nat
           /\ 2 * (unit * HalfUp(n, unit)) <= 2 * n + unit
           /\ 2 * n + unit < 2 * (unit * HalfUp(n, unit)) + 2 * unit
<1> DEFINE m == 2 * n + unit
           e == 2 * unit
           q == m \div e
<1>1. m \in Nat /\ e \in Nat /\ e > 0
  OBVIOUS
<1>2. HalfUp(n, unit) = q
  BY DEF HalfUp
<1> HIDE DEF m, e
<1>3. q \in Nat /\ e * q <= m /\ m < e * q + e
  BY <1>1
<1> HIDE DEF q
<1>4. e * q = 2 * (unit * q)
  BY <1>3 DEF e
<1> QED
  BY <1>2, <1>3, <1>4 DEF m, e

\* A commission is a number.
LEMMA EarnedIsNat ==
    ASSUME NEW amount \in Nat, NEW r \in Nat, NEW earns \in BOOLEAN
    PROVE  Earned(amount, r, earns) \in Nat
<1>1. amount * r \in Nat
  OBVIOUS
<1>2. RateUnit \in Nat \ {0}
  BY ConstantsAssumption DEF ConstantsAssumption
<1>3. HalfUp(amount * r, RateUnit) \in Nat
  BY <1>1, <1>2, RoundedNear
<1> QED
  BY <1>3 DEF Earned

-----------------------------------------------------------------------------
(* Steps on tranches.                                                      *)

\* A tranche is booked within a ceiling.
Adds(new, ceiling) ==
    /\ new \in Tranches /\ tranches' = tranches \cup {new}
    /\ \A t \in TranchesOf(new.file) : t.no # new.no
    /\ WithinSanction(ceiling, Total(TranchesOf(new.file)), new.amount)

\* A tranche is corrected: as much as before, or within the ceiling.
Corrects(t, new) ==
    /\ new \in Tranches /\ new.file = t.file /\ new.no = t.no /\ new.automatic = t.automatic
    /\ Becomes(t, new)
    /\ \/ new.amount = t.amount
       \/ WithinSanction(loan[t.file], Total(TranchesOf(t.file) \ {t}), new.amount)

LEMMA BooksAdds ==
    ASSUME NEW f \in Files, NEW amount \in Amounts, NEW day \in Days, NEW ceiling,
           NEW automatic \in BOOLEAN, Book(tranches), Books(f, amount, day, ceiling, automatic)
    PROVE  LET new == Booked(f, amount, day, automatic)
           IN  Adds(new, ceiling) /\ new.file = f /\ new.automatic = automatic
<1> DEFINE new == Booked(f, amount, day, automatic)
<1>1. Rate[f[2]] \in Nat /\ amount \in Nat /\ day \in Nat
  BY ConstantsAssumption DEF ConstantsAssumption, Books, Files
<1>2. NextNo(f) \in Nat /\ \A t \in TranchesOf(f) : t.no < NextNo(f)
  BY NextNoIsNew
<1>3. Earned(amount, Rate[f[2]], TRUE) \in Nat
  BY <1>1, EarnedIsNat
<1>4. /\ new \in Tranches /\ new.file = f /\ new.automatic = automatic /\ new.no = NextNo(f)
      /\ new.amount = amount
  BY <1>1, <1>2, <1>3 DEF Booked, Tranches
<1>5. \A t \in TranchesOf(f) : t.no # NextNo(f)
  <2>1. \A t \in TranchesOf(f) : t.no \in Nat
    BY DEF Book, TranchesOf, Tranches
  <2> QED
    BY <1>2, <2>1
<1>6. tranches' = tranches \cup {new}
  BY DEF Books
<1>7. WithinSanction(ceiling, Total(TranchesOf(f)), amount)
  BY DEF Books
<1> HIDE DEF new
<1>8. Adds(new, ceiling)
  BY <1>4, <1>5, <1>6, <1>7 DEF Adds
<1> QED
  BY <1>4, <1>8 DEF new

\* A file's tranches come to more only within its ceiling.
NoExcess(limit) ==
    \A f \in Files : Total(TranchesOf(f))' > Total(TranchesOf(f))
                         => limit[f] = Null \/ Total(TranchesOf(f))' <= limit[f]

LEMMA PrimedTotal ==
    ASSUME NEW f
    PROVE  /\ Total(TranchesOf(f)) = Total(Of(tranches, f))
           /\ Total(TranchesOf(f))' = Total(Of(tranches', f))
  BY DEF Total, TranchesOf, Of

LEMMA AddsKeepsBook ==
    ASSUME Book(tranches), NEW STATE new, NEW ceiling, Adds(new, ceiling)
    PROVE  Book(tranches')
<1>1. /\ IsFiniteSet(tranches) /\ tranches \subseteq Tranches /\ Numbered(tranches)
      /\ new \in Tranches /\ tranches' = tranches \cup {new}
      /\ \A t \in tranches : t.file = new.file => t.no # new.no
  BY DEF Book, Adds, TranchesOf
<1>2. IsFiniteSet(tranches')
  BY <1>1, FS_AddElement
<1>3. Numbered(tranches')
  BY <1>1 DEF Numbered
<1> QED
  BY <1>1, <1>2, <1>3 DEF Book

LEMMA AddsNoExcess ==
    ASSUME Book(tranches), NEW STATE new, NEW ceiling, NEW limit, Adds(new, ceiling),
           limit \in [Files -> Nat \cup {Null}], limit[new.file] = ceiling
    PROVE  NoExcess(limit)
<1> SUFFICES ASSUME NEW f \in Files, Total(Of(tranches', f)) > Total(Of(tranches, f))
             PROVE  limit[f] = Null \/ Total(Of(tranches', f)) <= limit[f]
  BY PrimedTotal DEF NoExcess
<1>1. /\ new \in Tranches /\ tranches' = tranches \cup {new}
      /\ \A t \in Of(tranches, new.file) : t.no # new.no
      /\ ceiling = Null \/ Total(Of(tranches, new.file)) + new.amount <= ceiling
  BY PrimedTotal DEF Adds, WithinSanction, TranchesOf, Of
<1>2. /\ Of(tranches, f) \in SUBSET tranches
      /\ Of(tranches', f) = IF f = new.file THEN Of(tranches, f) \cup {new} ELSE Of(tranches, f)
  BY <1>1 DEF Of
<1>3. IsFiniteSet(Of(tranches, f)) /\ Of(tranches, f) \subseteq Tranches
  BY <1>2, FS_Subset DEF Book
<1>4. Total(Of(tranches, f)) \in Nat
  BY <1>3, TotalOf
<1>5. CASE f = new.file
  <2>1. new \notin Of(tranches, f)
    BY <1>1, <1>5
  <2>2. Total(Of(tranches', f)) = new.amount + Total(Of(tranches, f))
    BY <1>1, <1>2, <1>3, <1>5, <2>1, TotalWith
  <2>3. new.amount \in Nat /\ limit[f] \in Nat \cup {Null}
    BY <1>1 DEF Tranches
  <2> QED
    BY <1>1, <1>4, <1>5, <2>2, <2>3
<1>6. CASE f # new.file
  BY <1>2, <1>4, <1>6
<1> QED
  BY <1>5, <1>6

LEMMA CorrectsKeepsBook ==
    ASSUME Book(tranches), NEW t \in tranches, NEW new, Corrects(t, new)
    PROVE  Book(tranches')
<1>1. /\ IsFiniteSet(tranches) /\ tranches \subseteq Tranches /\ Numbered(tranches)
      /\ new \in Tranches /\ tranches' = (tranches \ {t}) \cup {new}
      /\ new.file = t.file /\ new.no = t.no
  BY DEF Book, Corrects, Becomes
<1>2. IsFiniteSet(tranches \ {t})
  BY <1>1, FS_RemoveElement
<1>3. IsFiniteSet(tranches')
  BY <1>1, <1>2, FS_AddElement
<1>4. Numbered(tranches')
  BY <1>1 DEF Numbered
<1> QED
  BY <1>1, <1>3, <1>4 DEF Book

LEMMA CorrectsNoExcess ==
    ASSUME Book(tranches), NEW t \in tranches, NEW new, Corrects(t, new),
           loan \in [Files -> Nat \cup {Null}]
    PROVE  NoExcess(loan)
<1> SUFFICES ASSUME NEW f \in Files, Total(Of(tranches', f)) > Total(Of(tranches, f))
             PROVE  loan[f] = Null \/ Total(Of(tranches', f)) <= loan[f]
  BY PrimedTotal DEF NoExcess
<1> DEFINE S == Of(tranches, f)
           T == S \ {t}
<1>1. /\ new \in Tranches /\ new.file = t.file /\ new.no = t.no
      /\ tranches' = (tranches \ {t}) \cup {new} /\ t \in Tranches
  BY DEF Corrects, Becomes, Book
<1>2. \/ new.amount = t.amount
      \/ WithinSanction(loan[t.file], Total(Of(tranches, t.file) \ {t}), new.amount)
  BY DEF Corrects, TranchesOf, Of
<1>3. IsFiniteSet(S) /\ S \subseteq Tranches
  <2>1. S \in SUBSET tranches
    BY DEF Of
  <2> HIDE DEF S
  <2> QED
    BY <2>1, FS_Subset DEF Book
<1>4. IsFiniteSet(T) /\ T \subseteq Tranches
  <2> HIDE DEF S
  <2> QED
    BY <1>3, FS_RemoveElement
<1>5. Total(S) \in Nat /\ Total(T) \in Nat
  <2> HIDE DEF S, T
  <2> QED
    BY <1>3, <1>4, TotalOf
<1>6. CASE f = t.file
  <2>1. Of(tranches', f) = T \cup {new} /\ t \in S
    BY <1>1, <1>6 DEF Of
  <2>2. new \notin T
    BY <1>1, <1>6 DEF Of, Book, Numbered
  <2>3. Total(S) = t.amount + Total(T)
    <3> HIDE DEF S
    <3> QED
      BY <1>3, <2>1, TotalOf
  <2>4. Total(T \cup {new}) = new.amount + Total(T)
    <3> HIDE DEF T
    <3> QED
      BY <1>1, <1>4, <2>2, TotalWith
  <2>5. new.amount \in Nat /\ t.amount \in Nat /\ loan[f] \in Nat \cup {Null}
    BY <1>1 DEF Tranches
  <2>6. new.amount = t.amount \/ loan[f] = Null \/ Total(T) + new.amount <= loan[f]
    BY <1>2, <1>6 DEF WithinSanction
  <2> HIDE DEF S, T
  <2>7. Total(Of(tranches, f)) = Total(S)
    BY DEF S
  <2> QED
    BY <1>5, <2>1, <2>3, <2>4, <2>5, <2>6, <2>7
<1>7. CASE f # t.file
  <2>1. Of(tranches', f) = S
    BY <1>1, <1>7 DEF Of
  <2> QED
    BY <1>5, <2>1
<1> QED
  BY <1>6, <1>7

-----------------------------------------------------------------------------
(* The inductive invariant.                                                *)

\* What a request about lead l reads.
Read(l) == [files |-> FilesOf(l), primary |-> primary[l],
            paid |-> {b \in Lenders : HasTranche(<<l, b>>)}]

Readings == [files : [Lenders -> FileStatus], primary : Lenders \cup {NoLender},
             paid : SUBSET Lenders]

\* A lead's order holds the lenders it has files with, once each.
FilesTyped ==
    /\ status \in [Files -> FileStatus] /\ touched \in [Leads -> Seq(Lenders)]
    /\ \A l \in Leads : /\ Once(touched[l])
                        /\ ToSet(touched[l]) = {b \in Lenders : status[<<l, b>>] # NoFile}

RequestsTyped ==
    /\ at \in [Users -> Leads \cup {NoLender}] /\ seen \in [Users -> Readings]
    /\ raced \subseteq Leads /\ changes \in 0..MaxChanges

MoneyTyped ==
    /\ loan \in [Files -> Nat \cup {Null}] /\ rate \in [Files -> Nat \cup {Null}]
    /\ Book(tranches)

LeadsTyped ==
    /\ stage \in [Leads -> Stages] /\ deleted \subseteq Leads
    /\ primary \in [Leads -> Lenders \cup {NoLender}]

Typed == FilesTyped /\ RequestsTyped /\ MoneyTyped /\ LeadsTyped

\* A lead that is not set apart is in one hand at most, and what that hand has read is
\* how things are.
Current ==
    \A u \in Users : at[u] \in Leads \ raced =>
        /\ seen[u] = Read(at[u])
        /\ \A v \in Users : at[v] = at[u] => v = u

\* Of one file's tranches, one was booked of itself.
OneAutomatic ==
    \A t, q \in tranches :
        t.file = q.file /\ t.automatic /\ q.automatic /\ t.file[1] \notin raced => t = q

\* The step is about lead l: what the others show and hold stays.
Apart(l) ==
    \A m \in Leads \ {l} : /\ FilesOf(m)' = FilesOf(m) /\ touched'[m] = touched[m]
                           /\ primary'[m] = primary[m]
                           /\ \A b \in Lenders : HasTranche(<<m, b>>)' = HasTranche(<<m, b>>)

\* File b of lead l is left at s.
Writes(l, b, s) ==
    /\ status' = [status EXCEPT ![<<l, b>>] = s]
    /\ touched' = [touched EXCEPT ![l] = IF s = NoFile THEN Without(@, b) ELSE Touch(l, b)]

\* The files of a lead after one of them is written.
LEMMA FileWritten ==
    ASSUME FilesTyped, NEW l \in Leads, NEW b \in Lenders, NEW s \in FileStatus, Writes(l, b, s)
    PROVE  /\ FilesTyped'
           /\ FilesOf(l)' = [FilesOf(l) EXCEPT ![b] = s]
           /\ \A m \in Leads \ {l} : FilesOf(m)' = FilesOf(m) /\ touched'[m] = touched[m]
           /\ touched'[l] \in Seq(Lenders)
           /\ s # NoFile => touched'[l] # <<>> /\ touched'[l][Len(touched'[l])] = b
<1> DEFINE old == touched[l]
           without == Without(old, b)
           new == IF s = NoFile THEN without ELSE Append(without, b)
<1>1. /\ old \in Seq(Lenders) /\ Once(old)
      /\ ToSet(old) = {c \in Lenders : status[<<l, c>>] # NoFile}
  BY DEF FilesTyped
<1>2. without \in Seq(Lenders) /\ Once(without) /\ ToSet(without) = ToSet(old) \ {b}
  BY <1>1, TakenOut
<1>3. touched' = [touched EXCEPT ![l] = new] /\ touched'[l] = new
  BY DEF Writes, Touch, FilesTyped
<1> HIDE DEF without
<1>4. /\ new \in Seq(Lenders) /\ Once(new)
      /\ ToSet(new) = IF s = NoFile THEN ToSet(old) \ {b} ELSE ToSet(old) \cup {b}
      /\ s # NoFile => new # <<>> /\ new[Len(new)] = b
  <2>1. CASE s = NoFile
    BY <1>2, <2>1
  <2>2. CASE s # NoFile
    <3>1. b \notin ToSet(without) /\ ToSet(without) \cup {b} = ToSet(old) \cup {b}
      BY <1>2
    <3> QED
      BY <1>2, <2>2, <3>1, PutLast
  <2> QED
    BY <2>1, <2>2
<1> HIDE DEF new, old
<1>5. status' \in [Files -> FileStatus] /\ touched' \in [Leads -> Seq(Lenders)]
  BY <1>3, <1>4 DEF Writes, FilesTyped, Files
<1>6. \A m \in Leads, c \in Lenders :
         status'[<<m, c>>] = IF m = l /\ c = b THEN s ELSE status[<<m, c>>]
  BY DEF Writes, FilesTyped, Files
<1>7. ASSUME NEW m \in Leads
      PROVE  /\ Once(touched'[m])
             /\ ToSet(touched'[m]) = {c \in Lenders : status'[<<m, c>>] # NoFile}
  <2>1. CASE m = l
    <3>1. Once(touched'[m]) /\ touched'[m] = new
      BY <1>3, <1>4, <2>1
    <3>2. {c \in Lenders : status'[<<m, c>>] # NoFile}
             = IF s = NoFile THEN ToSet(old) \ {b} ELSE ToSet(old) \cup {b}
      BY <1>1, <1>6, <2>1
    <3> QED
      BY <1>4, <3>1, <3>2
  <2>2. CASE m # l
    <3>1. touched'[m] = touched[m]
      BY <1>3, <2>2 DEF FilesTyped
    <3>2. {c \in Lenders : status'[<<m, c>>] # NoFile} = {c \in Lenders : status[<<m, c>>] # NoFile}
      BY <1>6, <2>2
    <3>3. Once(touched[m]) /\ ToSet(touched[m]) = {c \in Lenders : status[<<m, c>>] # NoFile}
      BY DEF FilesTyped
    <3> QED
      BY <3>1, <3>2, <3>3
  <2> QED
    BY <2>1, <2>2
<1>8. FilesTyped'
  BY <1>5, <1>7 DEF FilesTyped, Once
<1>9. FilesOf(l)' = [FilesOf(l) EXCEPT ![b] = s]
  BY <1>6 DEF FilesOf
<1>10. \A m \in Leads \ {l} : FilesOf(m)' = FilesOf(m) /\ touched'[m] = touched[m]
  BY <1>3, <1>6 DEF FilesOf, FilesTyped
<1> QED
  BY <1>3, <1>4, <1>8, <1>9, <1>10

\* The lead shows the best of the files the request had, when it had read what is shown.
LEMMA Resynced ==
    ASSUME LeadsTyped, NEW l \in Leads, NEW files \in [Lenders -> FileStatus],
           NEW order \in Seq(Lenders), NEW was, Resync(l, files, order, was)
    PROVE  /\ primary' \in [Leads -> Lenders \cup {NoLender}]
           /\ \A m \in Leads \ {l} : primary'[m] = primary[m]
           /\ was = primary[l] => primary'[l] = Best(files, order)
<1> DEFINE best == Best(files, order)
<1>1. best \in Lenders \cup {NoLender}
  BY BestIsLender
<1>2. primary' = [primary EXCEPT ![l] = IF best = was THEN @ ELSE best]
  BY DEF Resync
<1> HIDE DEF best
<1>3. /\ primary' \in [Leads -> Lenders \cup {NoLender}]
      /\ \A m \in Leads \ {l} : primary'[m] = primary[m]
      /\ was = primary[l] => primary'[l] = best
  BY <1>1, <1>2 DEF LeadsTyped
<1> QED
  BY <1>3 DEF best

\* A change of the tranches of one file.
LEMMA OneFileChanged ==
    ASSUME NEW f \in Files,
           \A g \in Files \ {f} : \A t : t.file = g => (t \in tranches' <=> t \in tranches)
    PROVE  \A m \in Leads \ {f[1]}, b \in Lenders : HasTranche(<<m, b>>)' = HasTranche(<<m, b>>)
<1>1. ASSUME NEW m \in Leads \ {f[1]}, NEW b \in Lenders
      PROVE  HasTranche(<<m, b>>)' = HasTranche(<<m, b>>)
  <2>1. <<m, b>> \in Files \ {f}
    BY DEF Files
  <2>2. \A t : t.file = <<m, b>> => (t \in tranches' <=> t \in tranches)
    BY <2>1
  <2> QED
    BY <2>2 DEF HasTranche
<1> QED
  BY <1>1

\* While nobody has the lead in hand it is not set apart; otherwise it is.
LEMMA DisturbedStaysCurrent ==
    ASSUME Typed, Current, NEW l \in Leads, Disturbs(l), UNCHANGED requestVars, Apart(l)
    PROVE  Current' /\ raced \subseteq raced' /\ raced' \subseteq Leads
<1>1. raced' = (IF Holders(l) = {} THEN raced ELSE raced \cup {l}) /\ at' = at /\ seen' = seen
  BY DEF Disturbs, requestVars
<1>2. ASSUME NEW u \in Users, at[u] \in Leads \ raced'
      PROVE  Read(at[u])' = Read(at[u]) /\ at[u] \in Leads \ raced
  <2>1. at[u] # l
    <3>1. at[u] = l => u \in Holders(l)
      BY DEF Holders
    <3> QED
      BY <1>1, <1>2, <3>1
  <2>2. at[u] \in Leads \ {l}
    BY <1>2, <2>1
  <2>3. /\ FilesOf(at[u])' = FilesOf(at[u]) /\ primary'[at[u]] = primary[at[u]]
        /\ {b \in Lenders : HasTranche(<<at[u], b>>)'} = {b \in Lenders : HasTranche(<<at[u], b>>)}
    BY <1>1, <2>2, ZenonT(60) DEF Apart, FilesOf, HasTranche
  <2>4. Read(at[u])' = Read(at[u])
    BY <1>1, <2>3 DEF Read, FilesOf, HasTranche
  <2> QED
    BY <1>1, <1>2, <2>4
<1>3. Current'
  <2> SUFFICES ASSUME NEW u \in Users, at'[u] \in Leads \ raced'
               PROVE  seen'[u] = Read(at[u])' /\ \A v \in Users : at'[v] = at'[u] => v = u
    BY <1>1 DEF Current, Read, FilesOf, HasTranche
  <2> QED
    BY <1>1, <1>2 DEF Current
<1> QED
  BY <1>1, <1>3 DEF Typed, RequestsTyped

-----------------------------------------------------------------------------
(* The grid.                                                               *)

\* A lead somebody has in hand is a lead.
LEMMA InHand ==
    ASSUME Typed, NEW u \in Users, at[u] # NoLender
    PROVE  at[u] \in Leads /\ seen[u] \in Readings
  BY DEF Typed, RequestsTyped

\* A request that is done leaves the lead showing its best file, if it was alone with it.
LEMMA LeavesShape ==
    ASSUME Typed, Current, PrimaryIsBest, NEW u \in Users, at[u] # NoLender, NEW b \in Lenders,
           NEW s \in FileStatus, Leaves(u, b, s),
           \A m \in Leads \ {at[u]}, c \in Lenders : HasTranche(<<m, c>>)' = HasTranche(<<m, c>>)
    PROVE  /\ FilesTyped' /\ primary' \in [Leads -> Lenders \cup {NoLender}]
           /\ at' \in [Users -> Leads \cup {NoLender}] /\ seen' \in [Users -> Readings]
           /\ UNCHANGED <<stage, deleted, raced>>
           /\ Current' /\ PrimaryIsBest'
<1> DEFINE files == [seen[u].files EXCEPT ![b] = s]
<1>1. at[u] \in Leads /\ seen[u] \in Readings
  BY InHand
<1>0. PICK l \in Leads : l = at[u]
  BY <1>1
<1>2. /\ Writes(l, b, s)
      /\ Resync(l, files, touched'[l], seen[u].primary)
      /\ Ends(u)
      /\ UNCHANGED <<stage, deleted, raced>>
  BY <1>0 DEF Leaves, Writes
<1>3. /\ FilesTyped' /\ FilesOf(l)' = [FilesOf(l) EXCEPT ![b] = s]
      /\ \A m \in Leads \ {l} : FilesOf(m)' = FilesOf(m) /\ touched'[m] = touched[m]
      /\ touched'[l] \in Seq(Lenders)
  BY <1>1, <1>2, FileWritten DEF Typed
<1>4. files \in [Lenders -> FileStatus]
  BY <1>1 DEF Readings
<1> HIDE DEF files
<1>5. /\ primary' \in [Leads -> Lenders \cup {NoLender}]
      /\ \A m \in Leads \ {l} : primary'[m] = primary[m]
      /\ seen[u].primary = primary[l] => primary'[l] = Best(files, touched'[l])
  BY <1>1, <1>2, <1>3, <1>4, Resynced DEF Typed
<1>6. Unread \in Readings
  BY DEF Unread, Readings, FileStatus
<1>7. /\ at' = [at EXCEPT ![u] = NoLender] /\ seen' = [seen EXCEPT ![u] = Unread]
      /\ at' \in [Users -> Leads \cup {NoLender}] /\ seen' \in [Users -> Readings]
  BY <1>2, <1>6 DEF Ends, Typed, RequestsTyped
<1>8. l \notin raced => seen[u] = Read(l) /\ \A v \in Users : at[v] = l => v = u
  BY <1>0 DEF Current
<1>9. PrimaryIsBest'
  <2>1. ASSUME NEW m \in Leads \ raced' PROVE primary'[m] = Best(FilesOf(m)', touched'[m])
    <3>1. CASE m = l
      <4>1. seen[u].files = FilesOf(l) /\ seen[u].primary = primary[l]
        BY <1>2, <1>8, <2>1, <3>1 DEF Read
      <4>2. files = FilesOf(l)'
        BY <1>3, <4>1 DEF files
      <4> QED
        BY <1>5, <3>1, <4>1, <4>2
    <3>2. CASE m # l
      BY <1>2, <1>3, <1>5, <2>1, <3>2 DEF PrimaryIsBest
    <3> QED
      BY <3>1, <3>2
  <2>2. \A m : Best(FilesOf(m), touched[m])' = Best(FilesOf(m)', touched'[m])
    BY DEF Best
  <2> QED
    BY <2>1, <2>2 DEF PrimaryIsBest
<1>10. ASSUME NEW v \in Users, at'[v] \in Leads \ raced'
       PROVE  seen'[v] = Read(at[v])' /\ at'[v] = at[v] /\ at[v] \in Leads \ raced
  <2>1. v # u
    BY <1>7, <1>10, ConstantsAssumption DEF ConstantsAssumption, Typed, RequestsTyped
  <2>2. at'[v] = at[v] /\ seen'[v] = seen[v]
    BY <1>7, <2>1 DEF Typed, RequestsTyped
  <2>3. at[v] \in Leads \ raced /\ at[v] # l
    BY <1>0, <1>2, <1>8, <1>10, <2>1, <2>2
  <2>4. seen[v] = Read(at[v])
    BY <2>3 DEF Current
  <2>5. FilesOf(at[v])' = FilesOf(at[v]) /\ primary'[at[v]] = primary[at[v]]
    <3>1. \A m \in Leads \ {l} : FilesOf(m)' = FilesOf(m)
      BY <1>3
    <3>2. \A m \in Leads \ {l} : primary'[m] = primary[m]
      BY <1>5
    <3>3. \A m \in {at[v]} : [c \in Lenders |-> status'[<<m, c>>]] = [c \in Lenders |-> status[<<m, c>>]]
      BY <2>3, <3>1 DEF FilesOf
    <3> QED
      BY <2>2, <2>3, <3>2, <3>3 DEF FilesOf
  <2>6. {c \in Lenders : HasTranche(<<at[v], c>>)'} = {c \in Lenders : HasTranche(<<at[v], c>>)}
    BY <1>0, <2>2, <2>3, ZenonT(60) DEF HasTranche
  <2> QED
    BY <2>2, <2>3, <2>4, <2>5, <2>6 DEF Read, HasTranche
<1>11. Current'
  <2> SUFFICES ASSUME NEW v \in Users, at'[v] \in Leads \ raced'
               PROVE  seen'[v] = Read(at[v])' /\ \A w \in Users : at'[w] = at'[v] => w = v
    BY DEF Current, Read, FilesOf, HasTranche
  <2>1. \A w \in Users : at'[w] = at'[v] => at'[w] = at[w]
    BY <1>10
  <2> QED
    BY <1>10, <2>1 DEF Current
<1> QED
  BY <1>2, <1>3, <1>5, <1>7, <1>9, <1>11

-----------------------------------------------------------------------------
(* The steps.                                                              *)

Inv == Typed /\ Current /\ OneAutomatic /\ PrimaryIsBest

Right == ReleasedWithinSanction /\ MoneyWithStage

LEMMA AddsOneAutomatic ==
    ASSUME OneAutomatic, raced \subseteq raced', NEW STATE new, NEW ceiling, Adds(new, ceiling),
           new.automatic /\ new.file[1] \notin raced' => ~HasTranche(new.file)
    PROVE  OneAutomatic'
<1>1. tranches' = tranches \cup {new}
  BY DEF Adds
<1>2. ASSUME NEW t \in tranches', NEW q \in tranches', t.file = q.file, t.automatic,
             q.automatic, t.file[1] \notin raced'
      PROVE  t = q
  <2>1. CASE t \in tranches /\ q \in tranches
    BY <1>2, <2>1 DEF OneAutomatic
  <2>2. CASE t = new \/ q = new
    BY <1>1, <1>2, <2>2 DEF HasTranche
  <2> QED
    BY <1>1, <2>1, <2>2
<1> QED
  BY <1>2 DEF OneAutomatic

LEMMA CorrectsOneAutomatic ==
    ASSUME OneAutomatic, raced \subseteq raced', NEW t \in tranches, NEW new, Corrects(t, new)
    PROVE  OneAutomatic'
<1>1. /\ tranches' = (tranches \ {t}) \cup {new}
      /\ new.file = t.file /\ new.automatic = t.automatic
  BY DEF Corrects, Becomes
<1> QED
  BY <1>1 DEF OneAutomatic

LEMMA FewerOneAutomatic ==
    ASSUME OneAutomatic, raced \subseteq raced', tranches' \subseteq tranches
    PROVE  OneAutomatic'
  BY DEF OneAutomatic

\* Tranches that go are no excess.
LEMMA FewerNoExcess ==
    ASSUME Book(tranches), tranches' \subseteq tranches, NEW limit,
           \A t \in tranches, q \in tranches :
               t \notin tranches' /\ q \notin tranches' => t = q
    PROVE  NoExcess(limit) /\ Book(tranches')
<1>1. ASSUME NEW f \in Files, Total(Of(tranches', f)) > Total(Of(tranches, f)) PROVE FALSE
  <2> DEFINE S == Of(tranches, f)
             T == Of(tranches', f)
  <2>1. S \in SUBSET tranches /\ T \in SUBSET S
    BY DEF Of
  <2>2. IsFiniteSet(S) /\ S \subseteq Tranches
    <3> HIDE DEF S, T
    <3> QED
      BY <2>1, FS_Subset DEF Book
  <2>3. T = S \/ \E t \in S : T = S \ {t}
    BY DEF Of
  <2> HIDE DEF S, T
  <2>4. Total(S) \in Nat
    BY <2>2, TotalOf
  <2>5. ASSUME NEW t \in S, T = S \ {t} PROVE Total(T) <= Total(S)
    <3>1. IsFiniteSet(T) /\ T \subseteq Tranches
      BY <2>2, <2>5, FS_RemoveElement
    <3>2. Total(T) \in Nat /\ Total(S) = t.amount + Total(T)
      BY <2>2, <2>5, <3>1, TotalOf
    <3>3. t.amount \in Nat
      BY <2>2 DEF Tranches
    <3> QED
      BY <2>4, <3>2, <3>3
  <2>6. Total(T) > Total(S)
    BY <1>1 DEF S, T
  <2>7. CASE T = S
    BY <2>4, <2>6, <2>7
  <2>8. CASE \E t \in S : T = S \ {t}
    <3>1. PICK t \in S : T = S \ {t}
      BY <2>8
    <3>2. IsFiniteSet(T) /\ T \subseteq Tranches
      BY <2>2, <3>1, FS_RemoveElement
    <3>3. Total(T) \in Nat
      BY <3>2, TotalOf
    <3> QED
      BY <2>4, <2>5, <2>6, <3>1, <3>3
  <2> QED
    BY <2>3, <2>7, <2>8
<1>2. NoExcess(limit)
  BY <1>1, PrimedTotal DEF NoExcess
<1>3. IsFiniteSet(tranches')
  BY FS_Subset DEF Book
<1> QED
  BY <1>2, <1>3 DEF Book, Numbered

\* A step about the tranches of one file and nothing else.
LEMMA MoneyOnly ==
    ASSUME Inv, NEW f \in Files, Disturbs(f[1]), Changes,
           UNCHANGED <<leadVars, fileVars, requestVars>>,
           Book(tranches'), NoExcess(loan), raced \subseteq raced' => OneAutomatic',
           \A g \in Files \ {f} : \A t : t.file = g => (t \in tranches' <=> t \in tranches)
    PROVE  Inv' /\ Right
<1>1. /\ UNCHANGED <<stage, deleted, primary, status, loan, rate, touched, at, seen>>
      /\ UNCHANGED requestVars /\ f[1] \in Leads
  BY DEF leadVars, fileVars, requestVars, Files
<1>2. Apart(f[1])
  BY <1>1, OneFileChanged DEF Apart, FilesOf
<1>3. Current' /\ raced \subseteq raced' /\ raced' \subseteq Leads
  BY <1>1, <1>2, DisturbedStaysCurrent DEF Inv
<1>4. PrimaryIsBest'
  <2>1. \A l \in Leads \ raced' : primary'[l] = Best(FilesOf(l), touched[l])
    BY <1>1, <1>3 DEF Inv, PrimaryIsBest
  <2>2. \A l : Best(FilesOf(l), touched[l])' = Best(FilesOf(l), touched[l])
    BY <1>1 DEF Best, FilesOf
  <2> QED
    BY <2>1, <2>2 DEF PrimaryIsBest
<1>5. changes' \in 0..MaxChanges
  BY ConstantsAssumption DEF ConstantsAssumption, Changes, Inv, Typed, RequestsTyped
<1>6. Typed'
  BY <1>1, <1>3, <1>5 DEF Inv, Typed, FilesTyped, RequestsTyped, MoneyTyped, LeadsTyped
<1>7. Right
  BY <1>1 DEF Right, ReleasedWithinSanction, NoExcess, MoneyWithStage
<1> QED
  BY <1>3, <1>4, <1>6, <1>7 DEF Inv

LEMMA AddTrancheStep ==
    ASSUME Inv, NEW f \in Files, AddTranche(f)
    PROVE  Inv' /\ Right
<1>1. /\ Disturbs(f[1]) /\ Changes /\ UNCHANGED <<leadVars, fileVars, requestVars>>
      /\ \E amount \in Amounts, day \in Days : Books(f, amount, day, loan[f], FALSE)
  BY DEF AddTranche
<1>2. PICK amount \in Amounts, day \in Days : Books(f, amount, day, loan[f], FALSE)
  BY <1>1
<1>3. PICK new : Adds(new, loan[f]) /\ new.file = f /\ new.automatic = FALSE
  <2>1. Book(tranches)
    BY DEF Inv, Typed, MoneyTyped
  <2> QED
    BY <1>2, <2>1, BooksAdds
<1>4. Book(tranches) /\ loan \in [Files -> Nat \cup {Null}]
  BY DEF Inv, Typed, MoneyTyped
<1>5. Book(tranches')
  BY <1>3, <1>4, AddsKeepsBook
<1>6. NoExcess(loan)
  BY <1>3, <1>4, AddsNoExcess
<1>7. raced \subseteq raced' => OneAutomatic'
  BY <1>3, AddsOneAutomatic DEF Inv
<1>8. \A g \in Files \ {f} : \A t : t.file = g => (t \in tranches' <=> t \in tranches)
  BY <1>3 DEF Adds
<1> QED
  BY <1>1, <1>5, <1>6, <1>7, <1>8, MoneyOnly

\* Whatever is edited of a tranche, it stays the tranche it was.
LEMMA EditCorrects ==
    ASSUME Inv, NEW t \in tranches, EditTranche(t)
    PROVE  \E new : Corrects(t, new)
<1>1. t \in Tranches
  BY DEF Inv, Typed, MoneyTyped, Book
<1>2. /\ t.amount \in Nat /\ t.rate \in Nat /\ t.earns \in BOOLEAN /\ t.commission \in Nat
      /\ (~t.earns) \in BOOLEAN
  <2>1. t.amount \in Nat /\ t.rate \in Nat /\ t.commission \in Nat
    BY <1>1 DEF Tranches
  <2>2. t.earns \in BOOLEAN
    BY <1>1 DEF Tranches
  <2>3. (~t.earns) \in BOOLEAN
    OBVIOUS
  <2> QED
    BY <2>1, <2>2, <2>3
<1>3. CASE Retype(t)
  <2>1. PICK amount \in Amounts :
           /\ WithinSanction(loan[t.file], Total(TranchesOf(t.file) \ {t}), amount)
           /\ Becomes(t, [t EXCEPT !.amount = amount,
                                   !.commission = Earned(amount, t.rate, t.earns)])
    BY <1>3 DEF Retype
  <2>2. amount \in Nat
    BY ConstantsAssumption DEF ConstantsAssumption
  <2> DEFINE new == [t EXCEPT !.amount = amount, !.commission = Earned(amount, t.rate, t.earns)]
  <2>3. Earned(amount, t.rate, t.earns) \in Nat
    BY <1>2, <2>2, EarnedIsNat
  <2>4. /\ new \in Tranches /\ new.file = t.file /\ new.no = t.no
        /\ new.automatic = t.automatic /\ new.amount = amount
    BY <1>1, <2>2, <2>3 DEF Tranches
  <2> HIDE DEF new
  <2>5. Becomes(t, new)
    BY <2>1 DEF new
  <2> QED
    BY <2>1, <2>4, <2>5 DEF Corrects
<1>4. CASE Toggle(t)
  <2> DEFINE new == [t EXCEPT !.earns = ~t.earns,
                              !.commission = Earned(t.amount, t.rate, ~t.earns)]
  <2>1. Earned(t.amount, t.rate, ~t.earns) \in Nat
    BY <1>2, EarnedIsNat
  <2>2. /\ new \in Tranches /\ new.file = t.file /\ new.no = t.no
        /\ new.automatic = t.automatic /\ new.amount = t.amount
    BY <1>1, <1>2, <2>1 DEF Tranches
  <2>3. Becomes(t, new)
    BY <1>4 DEF Toggle
  <2> QED
    BY <2>2, <2>3 DEF Corrects
<1>5. CASE Negotiate(t)
  <2>1. PICK c \in Agreed : Becomes(t, [t EXCEPT !.commission = c])
    BY <1>5 DEF Negotiate
  <2>2. c \in Nat
    BY ConstantsAssumption DEF ConstantsAssumption
  <2> QED
    BY <1>1, <2>1, <2>2 DEF Corrects, Tranches
<1>6. CASE Settle(t)
  <2>1. PICK paid \in Payments, day \in Days \cup {0} :
           Becomes(t, [t EXCEPT !.received = paid, !.paidOn = day])
    BY <1>6 DEF Settle
  <2>2. paid \in Nat /\ day \in Nat
    BY ConstantsAssumption DEF ConstantsAssumption
  <2> DEFINE new == [t EXCEPT !.received = paid, !.paidOn = day]
  <2>3. /\ new \in Tranches /\ new.file = t.file /\ new.no = t.no
        /\ new.automatic = t.automatic /\ new.amount = t.amount
    BY <1>1, <2>2 DEF Tranches
  <2> HIDE DEF new
  <2>4. Becomes(t, new)
    BY <2>1 DEF new
  <2> QED
    BY <2>3, <2>4 DEF Corrects
<1>7. CASE Redate(t)
  <2>1. PICK day \in Days \cup {0} : Becomes(t, [t EXCEPT !.day = day])
    BY <1>7 DEF Redate
  <2>2. day \in Nat
    BY ConstantsAssumption DEF ConstantsAssumption
  <2> QED
    BY <1>1, <2>1, <2>2 DEF Corrects, Tranches
<1>8. CASE WriteOff(t)
  <2> DEFINE new == [t EXCEPT !.writtenOff = TRUE]
  <2>1. /\ new \in Tranches /\ new.file = t.file /\ new.no = t.no
        /\ new.automatic = t.automatic /\ new.amount = t.amount
    BY <1>1 DEF Tranches
  <2> HIDE DEF new
  <2>2. Becomes(t, new)
    BY <1>8 DEF WriteOff, new
  <2> QED
    BY <2>1, <2>2 DEF Corrects
<1>9. CASE Bill(t)
  <2>1. HalfUp(t.commission * TaxPercent, 100) \in Nat
    <3>1. t.commission * TaxPercent \in Nat
      BY <1>2, ConstantsAssumption DEF ConstantsAssumption
    <3>2. 100 \in Nat \ {0}
      OBVIOUS
    <3> QED
      BY <3>1, <3>2, RoundedNear
  <2> DEFINE tax == HalfUp(t.commission * TaxPercent, 100)
             new == [t EXCEPT !.billed = TRUE, !.gst = tax]
  <2>2. Becomes(t, new)
    BY <1>9 DEF Bill
  <2> HIDE DEF tax
  <2>3. tax \in Nat
    BY <2>1 DEF tax
  <2>4. /\ new \in Tranches /\ new.file = t.file /\ new.no = t.no
        /\ new.automatic = t.automatic /\ new.amount = t.amount
    BY <1>1, <2>3 DEF Tranches
  <2> HIDE DEF new
  <2> QED
    BY <2>2, <2>4 DEF Corrects
<1> QED
  BY <1>3, <1>4, <1>5, <1>6, <1>7, <1>8, <1>9 DEF EditTranche

LEMMA EditTrancheStep ==
    ASSUME Inv, NEW t \in tranches, EditTranche(t)
    PROVE  Inv' /\ Right
<1>1. /\ Disturbs(t.file[1]) /\ Changes /\ UNCHANGED <<leadVars, fileVars, requestVars>>
  BY DEF EditTranche
<1>2. PICK new : Corrects(t, new)
  BY EditCorrects
<1>3. Book(tranches) /\ loan \in [Files -> Nat \cup {Null}] /\ t.file \in Files
  BY DEF Inv, Typed, MoneyTyped, Book, Tranches
<1>4. Book(tranches')
  BY <1>2, <1>3, CorrectsKeepsBook
<1>5. NoExcess(loan)
  BY <1>2, <1>3, CorrectsNoExcess
<1>6. raced \subseteq raced' => OneAutomatic'
  BY <1>2, CorrectsOneAutomatic DEF Inv
<1>7. \A g \in Files \ {t.file} : \A q : q.file = g => (q \in tranches' <=> q \in tranches)
  BY <1>2 DEF Corrects, Becomes
<1> QED
  BY <1>1, <1>3, <1>4, <1>5, <1>6, <1>7, MoneyOnly

LEMMA DeleteTrancheStep ==
    ASSUME Inv, NEW t \in tranches, DeleteTranche(t)
    PROVE  Inv' /\ Right
<1>1. /\ Disturbs(t.file[1]) /\ Changes /\ UNCHANGED <<leadVars, fileVars, requestVars>>
      /\ tranches' = tranches \ {t}
  BY DEF DeleteTranche
<1>2. Book(tranches) /\ t.file \in Files
  BY DEF Inv, Typed, MoneyTyped, Book, Tranches
<1>3. Book(tranches') /\ NoExcess(loan)
  BY <1>1, <1>2, FewerNoExcess
<1>4. raced \subseteq raced' => OneAutomatic'
  BY <1>1, FewerOneAutomatic DEF Inv
<1>5. \A g \in Files \ {t.file} : \A q : q.file = g => (q \in tranches' <=> q \in tranches)
  BY <1>1
<1> QED
  BY <1>1, <1>2, <1>3, <1>4, <1>5, MoneyOnly

\* A step that leaves the tranches and the stages alone.
LEMMA QuietIsRight ==
    ASSUME Inv, UNCHANGED <<tranches, stage>>
    PROVE  Right
<1>1. Book(tranches)
  BY DEF Inv, Typed, MoneyTyped
<1>2. NoExcess(loan')
  BY <1>1, FewerNoExcess
<1> QED
  BY <1>2 DEF Right, ReleasedWithinSanction, MoneyWithStage, NoExcess

\* A step that leaves the files, what a lead shows and the tranches alone.
LEMMA SameToRead ==
    ASSUME UNCHANGED <<fileVars, primary, tranches>>
    PROVE  /\ UNCHANGED <<status, loan, rate, touched>>
           /\ \A l : Read(l)' = Read(l) /\ Best(FilesOf(l), touched[l])' = Best(FilesOf(l), touched[l])
<1>1. UNCHANGED <<status, loan, rate, touched, primary, tranches>>
  BY DEF fileVars
<1> QED
  BY <1>1 DEF Read, FilesOf, HasTranche, Best

LEMMA ReadsStep ==
    ASSUME Inv, NEW u \in Users, NEW l \in Leads, Reads(u, l)
    PROVE  Inv' /\ Right
<1>1. /\ at[u] = NoLender /\ at' = [at EXCEPT ![u] = l]
      /\ seen' = [seen EXCEPT ![u] = Read(l)]
      /\ raced' = (IF Holders(l) = {} THEN raced ELSE raced \cup {l})
      /\ UNCHANGED <<leadVars, fileVars, tranches, changes>>
  BY DEF Reads, Read, Disturbs
<1>2. UNCHANGED <<stage, deleted, primary>>
  BY <1>1 DEF leadVars
<1>3. UNCHANGED <<fileVars, primary, tranches>>
  BY <1>1, <1>2
<1>4. /\ UNCHANGED <<status, loan, rate, touched>>
      /\ \A m : Read(m)' = Read(m) /\ Best(FilesOf(m), touched[m])' = Best(FilesOf(m), touched[m])
  BY <1>3, SameToRead
<1>5. Read(l) \in Readings
  BY DEF Read, Readings, FilesOf, Inv, Typed, FilesTyped, LeadsTyped, Files
<1>6. /\ at' \in [Users -> Leads \cup {NoLender}] /\ seen' \in [Users -> Readings]
      /\ raced \subseteq raced' /\ raced' \subseteq Leads
  BY <1>1, <1>5 DEF Inv, Typed, RequestsTyped
<1>7. Typed'
  BY <1>1, <1>2, <1>4, <1>6
     DEF Inv, Typed, FilesTyped, RequestsTyped, MoneyTyped, LeadsTyped, Book
<1>8. PrimaryIsBest' /\ OneAutomatic'
  BY <1>1, <1>2, <1>4, <1>6 DEF Inv, PrimaryIsBest, OneAutomatic
<1>9. \A v \in Users : at[v] = l => l \in raced'
  BY <1>1 DEF Holders, Inv, Typed, RequestsTyped
<1>10. ASSUME NEW v \in Users, at'[v] \in Leads \ raced'
       PROVE  seen'[v] = Read(at'[v]) /\ \A w \in Users : at'[w] = at'[v] => w = v
  <2>1. CASE v = u
    BY <1>1, <1>9, <1>10, <2>1 DEF Inv, Typed, RequestsTyped
  <2>2. CASE v # u
    <3>1. at'[v] = at[v] /\ seen'[v] = seen[v] /\ at[v] \in Leads \ raced
      BY <1>1, <1>6, <1>10, <2>2 DEF Inv, Typed, RequestsTyped
    <3>2. at'[v] # l
      BY <1>9, <1>10, <3>1
    <3>3. \A w \in Users : at'[w] = at'[v] => w # u
      BY <1>1, <3>2 DEF Inv, Typed, RequestsTyped
    <3> QED
      BY <1>1, <3>1, <3>3 DEF Inv, Current, Typed, RequestsTyped
  <2> QED
    BY <2>1, <2>2
<1>11. Current'
  <2>1. \A v \in Users : Read(at[v])' = Read(at'[v])
    BY <1>2, <1>3, <1>4 DEF Read, FilesOf, HasTranche
  <2> QED
    BY <1>10, <2>1 DEF Current
<1> QED
  BY <1>3, <1>2, <1>7, <1>8, <1>11, QuietIsRight DEF Inv

LEMMA RefusedStep ==
    ASSUME Inv, NEW u \in Users, Refused(u)
    PROVE  Inv' /\ Right
<1>1. /\ at' = [at EXCEPT ![u] = NoLender] /\ seen' = [seen EXCEPT ![u] = Unread]
      /\ UNCHANGED <<stage, deleted, primary, fileVars, tranches, raced, changes>>
  BY DEF Refused, Ends, leadVars
<1>2. /\ UNCHANGED <<status, loan, rate, touched>>
      /\ \A m : Read(m)' = Read(m) /\ Best(FilesOf(m), touched[m])' = Best(FilesOf(m), touched[m])
  BY <1>1, SameToRead
<1>3. Unread \in Readings
  BY DEF Unread, Readings, FileStatus
<1>4. at' \in [Users -> Leads \cup {NoLender}] /\ seen' \in [Users -> Readings]
  BY <1>1, <1>3 DEF Inv, Typed, RequestsTyped
<1>5. Typed'
  BY <1>1, <1>2, <1>4
     DEF Inv, Typed, FilesTyped, RequestsTyped, MoneyTyped, LeadsTyped, Book
<1>6. PrimaryIsBest' /\ OneAutomatic'
  BY <1>1, <1>2 DEF Inv, PrimaryIsBest, OneAutomatic
<1>7. \A v \in Users : at'[v] \in Leads => v # u /\ at'[v] = at[v] /\ seen'[v] = seen[v]
  BY <1>1, ConstantsAssumption DEF ConstantsAssumption, Inv, Typed, RequestsTyped
<1>8. Current'
  <2>1. \A v \in Users : Read(at[v])' = Read(at'[v])
    BY <1>1, <1>2 DEF Read, FilesOf, HasTranche
  <2>2. \A v \in Users : at'[v] \in Leads \ raced' =>
            /\ seen'[v] = Read(at'[v])
            /\ \A w \in Users : at'[w] = at'[v] => w = v
    BY <1>1, <1>7 DEF Inv, Current
  <2> QED
    BY <2>1, <2>2 DEF Current
<1> QED
  BY <1>1, <1>5, <1>6, <1>8, QuietIsRight DEF Inv

\* A step about the stage of a lead, or about which leads there are.
LEMMA LeadOnly ==
    ASSUME Inv, UNCHANGED <<primary, fileVars, tranches, requestVars, raced>>, Changes,
           stage' \in [Leads -> Stages], deleted' \subseteq Leads
    PROVE  Inv'
<1>1. /\ UNCHANGED <<primary, tranches, at, seen, raced>> /\ UNCHANGED <<fileVars, primary, tranches>>
  BY DEF requestVars
<1>2. /\ UNCHANGED <<status, loan, rate, touched>>
      /\ \A m : Read(m)' = Read(m) /\ Best(FilesOf(m), touched[m])' = Best(FilesOf(m), touched[m])
  BY <1>1, SameToRead
<1>3. changes' \in 0..MaxChanges
  BY ConstantsAssumption DEF ConstantsAssumption, Changes, Inv, Typed, RequestsTyped
<1>4. Typed'
  BY <1>1, <1>2, <1>3
     DEF Inv, Typed, FilesTyped, RequestsTyped, MoneyTyped, LeadsTyped, Book
<1>5. PrimaryIsBest' /\ OneAutomatic'
  BY <1>1, <1>2 DEF Inv, PrimaryIsBest, OneAutomatic
<1>6. Current'
  <2>1. \A v \in Users : Read(at[v])' = Read(at[v])
    BY <1>1, <1>2 DEF Read, FilesOf, HasTranche
  <2> QED
    BY <1>1, <2>1 DEF Inv, Current
<1> QED
  BY <1>4, <1>5, <1>6 DEF Inv

LEMMA MoveToStep ==
    ASSUME Inv, NEW l \in Leads, NEW s \in Stages, MoveTo(l, s)
    PROVE  Inv' /\ Right
<1>1. /\ s # "disbursed" /\ stage' = [stage EXCEPT ![l] = s] /\ Changes
      /\ UNCHANGED <<deleted, primary, fileVars, tranches, requestVars, raced>>
  BY DEF MoveTo
<1>2. stage' \in [Leads -> Stages] /\ deleted' \subseteq Leads
  BY <1>1 DEF Inv, Typed, LeadsTyped
<1>3. Inv'
  BY <1>1, <1>2, LeadOnly
<1>4. NoExcess(loan')
  BY <1>1, FewerNoExcess DEF Inv, Typed, MoneyTyped
<1>5. MoneyWithStage
  BY <1>1 DEF MoneyWithStage, Inv, Typed, LeadsTyped
<1> QED
  BY <1>3, <1>4, <1>5 DEF Right, ReleasedWithinSanction, NoExcess

LEMMA DeleteLeadStep ==
    ASSUME Inv, NEW l \in Leads, DeleteLead(l)
    PROVE  Inv' /\ Right
<1>1. /\ deleted' = deleted \cup {l} /\ Changes
      /\ UNCHANGED <<stage, primary, fileVars, tranches, requestVars, raced>>
  BY DEF DeleteLead
<1>2. stage' \in [Leads -> Stages] /\ deleted' \subseteq Leads
  BY <1>1 DEF Inv, Typed, LeadsTyped
<1> QED
  BY <1>1, <1>2, LeadOnly, QuietIsRight

\* What a file that is saved does to the tranches: nothing, or its first is booked.
LEMMA FirstBooked ==
    ASSUME Book(tranches), OneAutomatic, raced \subseteq raced', NEW f \in Files,
           loan' \in [Files -> Nat \cup {Null}],
           \/ UNCHANGED tranches
           \/ /\ f[1] \notin raced' => ~HasTranche(f)
              /\ \E amount \in Amounts, day \in Days : Books(f, amount, day, loan'[f], TRUE)
    PROVE  /\ Book(tranches') /\ OneAutomatic' /\ NoExcess(loan')
           /\ \A m \in Leads \ {f[1]}, b \in Lenders : HasTranche(<<m, b>>)' = HasTranche(<<m, b>>)
           /\ UNCHANGED tranches \/ HasTranche(f)'
<1>1. CASE UNCHANGED tranches
  <2>1. tranches' \subseteq tranches
    BY <1>1
  <2>2. Book(tranches') /\ NoExcess(loan')
    BY <1>1, FewerNoExcess
  <2>3. OneAutomatic'
    BY <2>1, FewerOneAutomatic
  <2>4. \A m, b : HasTranche(<<m, b>>)' = HasTranche(<<m, b>>)
    BY <1>1 DEF HasTranche
  <2> QED
    BY <1>1, <2>2, <2>3, <2>4
<1>2. CASE /\ f[1] \notin raced' => ~HasTranche(f)
           /\ \E amount \in Amounts, day \in Days : Books(f, amount, day, loan'[f], TRUE)
  <2>1. PICK amount \in Amounts, day \in Days : Books(f, amount, day, loan'[f], TRUE)
    BY <1>2
  <2>2. PICK new : Adds(new, loan'[f]) /\ new.file = f /\ new.automatic = TRUE
    BY <2>1, BooksAdds
  <2>3. Book(tranches')
    BY <2>2, AddsKeepsBook
  <2>4. NoExcess(loan')
    BY <2>2, AddsNoExcess
  <2>5. OneAutomatic'
    BY <1>2, <2>2, AddsOneAutomatic
  <2>6. tranches' = tranches \cup {new}
    BY <2>2 DEF Adds
  <2>7. \A g \in Files \ {f} : \A t : t.file = g => (t \in tranches' <=> t \in tranches)
    BY <2>2, <2>6
  <2>8. HasTranche(f)'
    BY <2>2, <2>6 DEF HasTranche
  <2>9. \A m \in Leads \ {f[1]}, b \in Lenders : HasTranche(<<m, b>>)' = HasTranche(<<m, b>>)
    BY <2>7, OneFileChanged
  <2> QED
    BY <2>3, <2>4, <2>5, <2>8, <2>9
<1> QED
  BY <1>1, <1>2

\* A grid request that is done with its file.
LEMMA GridOnly ==
    ASSUME Inv, NEW u \in Users, at[u] # NoLender, NEW b \in Lenders, NEW s \in FileStatus,
           Leaves(u, b, s), Changes,
           loan' \in [Files -> Nat \cup {Null}], rate' \in [Files -> Nat \cup {Null}],
           Book(tranches'), OneAutomatic', NoExcess(loan'),
           \A m \in Leads \ {at[u]}, c \in Lenders : HasTranche(<<m, c>>)' = HasTranche(<<m, c>>)
    PROVE  Inv' /\ Right
<1>1. /\ FilesTyped' /\ primary' \in [Leads -> Lenders \cup {NoLender}]
      /\ at' \in [Users -> Leads \cup {NoLender}] /\ seen' \in [Users -> Readings]
      /\ UNCHANGED <<stage, deleted, raced>>
      /\ Current' /\ PrimaryIsBest'
  BY LeavesShape DEF Inv
<1>2. changes' \in 0..MaxChanges
  BY ConstantsAssumption DEF ConstantsAssumption, Changes, Inv, Typed, RequestsTyped
<1>3. RequestsTyped'
  BY <1>1, <1>2 DEF Inv, Typed, RequestsTyped
<1>4. LeadsTyped' /\ MoneyTyped'
  BY <1>1 DEF Inv, Typed, LeadsTyped, MoneyTyped, Book
<1>5. Right
  BY <1>1 DEF Right, ReleasedWithinSanction, MoneyWithStage, NoExcess
<1> QED
  BY <1>1, <1>3, <1>4, <1>5 DEF Inv, Typed

LEMMA AddFileStep ==
    ASSUME Inv, NEW u \in Users, NEW b \in Lenders, AddFile(u, b)
    PROVE  Inv' /\ Right
<1>1. at[u] # NoLender /\ Changes /\ UNCHANGED <<loan, rate, tranches>>
  BY DEF AddFile
<1>2. PICK s \in Offered : Leaves(u, b, s)
  BY DEF AddFile
<1>3. s \in FileStatus
  BY ConstantsAssumption DEF ConstantsAssumption, FileStatus
<1>4. NoExcess(loan') /\ Book(tranches')
  BY <1>1, FewerNoExcess DEF Inv, Typed, MoneyTyped
<1>5. OneAutomatic'
  BY <1>1, <1>2 DEF Leaves, OneAutomatic, Inv
<1>6. loan' \in [Files -> Nat \cup {Null}] /\ rate' \in [Files -> Nat \cup {Null}]
  BY <1>1 DEF Inv, Typed, MoneyTyped
<1>7. \A m, c : HasTranche(<<m, c>>)' = HasTranche(<<m, c>>)
  BY <1>1 DEF HasTranche
<1> QED
  BY <1>1, <1>2, <1>3, <1>4, <1>5, <1>6, <1>7, GridOnly

LEMMA SaveFileStep ==
    ASSUME Inv, NEW u \in Users, NEW b \in Lenders, NEW s \in Statuses, SaveFile(u, b, s)
    PROVE  Inv' /\ Right
<1>1. at[u] # NoLender /\ Changes /\ Leaves(u, b, s)
  BY DEF SaveFile
<1>2. at[u] \in Leads /\ s \in FileStatus
  BY <1>1, InHand DEF Inv, FileStatus
<1>3. PICK f \in Files : f = <<at[u], b>>
  BY <1>2 DEF Files
<1>4. PICK approved \in Sanctions \cup {Null} :
         loan' = [loan EXCEPT ![f] = IF approved = Null THEN @ ELSE approved]
  BY <1>3 DEF SaveFile
<1>5. loan' \in [Files -> Nat \cup {Null}]
  <2>1. approved \in Nat \cup {Null}
    BY ConstantsAssumption DEF ConstantsAssumption
  <2> QED
    BY <1>4, <2>1 DEF Inv, Typed, MoneyTyped
<1>6. rate' \in [Files -> Nat \cup {Null}]
  <2>1. rate' = [rate EXCEPT ![f] = IF s \in Live /\ @ = Null THEN Rate[b] ELSE @]
    BY <1>3 DEF SaveFile
  <2>2. Rate[b] \in Nat \cup {Null}
    BY ConstantsAssumption DEF ConstantsAssumption
  <2> QED
    BY <2>1, <2>2 DEF Inv, Typed, MoneyTyped
<1>7. raced' = raced
  BY <1>1 DEF Leaves
<1>8. \/ UNCHANGED tranches
      \/ /\ BooksFirst(u, b, s)
         /\ \E amount \in Amounts, day \in Days : Books(f, amount, day, loan'[f], TRUE)
  BY <1>3 DEF SaveFile
<1>9. BooksFirst(u, b, s) => (f[1] \notin raced' => ~HasTranche(f))
  <2>1. ASSUME BooksFirst(u, b, s), at[u] \notin raced PROVE ~HasTranche(<<at[u], b>>)
    <3>1. seen[u] = Read(at[u])
      BY <1>2, <2>1 DEF Inv, Current
    <3>2. b \notin seen[u].paid
      BY <2>1 DEF BooksFirst
    <3> QED
      BY <3>1, <3>2 DEF Read
  <2> QED
    BY <1>3, <1>7, <2>1
<1>10. /\ Book(tranches') /\ OneAutomatic' /\ NoExcess(loan')
       /\ \A m \in Leads \ {f[1]}, c \in Lenders : HasTranche(<<m, c>>)' = HasTranche(<<m, c>>)
  <2>1. Book(tranches) /\ OneAutomatic
    BY DEF Inv, Typed, MoneyTyped
  <2> QED
    BY <1>5, <1>7, <1>8, <1>9, <2>1, FirstBooked
<1>11. f[1] = at[u]
  BY <1>3
<1> QED
  BY <1>1, <1>2, <1>5, <1>6, <1>10, <1>11, GridOnly

LEMMA DeleteFileStep ==
    ASSUME Inv, NEW u \in Users, NEW b \in Lenders, DeleteFile(u, b)
    PROVE  Inv' /\ Right
<1>1. /\ at[u] # NoLender /\ Changes /\ Leaves(u, b, NoFile) /\ UNCHANGED tranches
      /\ loan' = [loan EXCEPT ![<<at[u], b>>] = Null]
      /\ rate' = [rate EXCEPT ![<<at[u], b>>] = Null]
  BY DEF DeleteFile
<1>2. NoExcess(loan') /\ Book(tranches')
  BY <1>1, FewerNoExcess DEF Inv, Typed, MoneyTyped
<1>3. OneAutomatic'
  BY <1>1 DEF Leaves, OneAutomatic, Inv
<1>4. loan' \in [Files -> Nat \cup {Null}] /\ rate' \in [Files -> Nat \cup {Null}]
  BY <1>1 DEF Inv, Typed, MoneyTyped
<1>5. \A m, c : HasTranche(<<m, c>>)' = HasTranche(<<m, c>>)
  BY <1>1 DEF HasTranche
<1>6. NoFile \in FileStatus
  BY DEF FileStatus
<1> QED
  BY <1>1, <1>2, <1>3, <1>4, <1>5, <1>6, GridOnly

LEMMA MoveWithStep ==
    ASSUME Inv, NEW l \in Leads, NEW b \in Lenders, NEW s \in Stages, MoveWith(l, b, s)
    PROVE  Inv' /\ Right
<1>1. PICK f \in Files : f = <<l, b>>
  BY DEF Files
<1>2. /\ s \in Live /\ Changes /\ Disturbs(l) /\ UNCHANGED <<deleted, requestVars>>
      /\ stage' = [stage EXCEPT ![l] = s]
      /\ status' = [status EXCEPT ![<<l, b>>] = s]
      /\ touched' = [touched EXCEPT ![l] = Touch(l, b)]
      /\ Resync(l, [FilesOf(l) EXCEPT ![b] = s], touched'[l], primary[l])
  BY DEF MoveWith
<1>3. s \in FileStatus /\ s # NoFile
  BY <1>2, ConstantsAssumption DEF ConstantsAssumption, Live, FileStatus, Statuses
<1>4. Writes(l, b, s)
  BY <1>2, <1>3 DEF Writes
<1>5. /\ FilesTyped'
      /\ FilesOf(l)' = [FilesOf(l) EXCEPT ![b] = s]
      /\ \A m \in Leads \ {l} : FilesOf(m)' = FilesOf(m) /\ touched'[m] = touched[m]
      /\ touched'[l] \in Seq(Lenders) /\ touched'[l] # <<>>
      /\ touched'[l][Len(touched'[l])] = b
  BY <1>3, <1>4, FileWritten DEF Inv, Typed
<1>6. FilesOf(l)' \in [Lenders -> FileStatus]
  BY <1>5 DEF FilesTyped, FilesOf, Files
<1>7. /\ primary' \in [Leads -> Lenders \cup {NoLender}]
      /\ \A m \in Leads \ {l} : primary'[m] = primary[m]
      /\ primary'[l] = Best(FilesOf(l)', touched'[l])
  <2> DEFINE files == [FilesOf(l) EXCEPT ![b] = s]
  <2>1. Resync(l, files, touched'[l], primary[l]) /\ files \in [Lenders -> FileStatus]
    BY <1>2, <1>5, <1>6
  <2>2. files = FilesOf(l)'
    BY <1>5
  <2> HIDE DEF files
  <2>3. /\ primary' \in [Leads -> Lenders \cup {NoLender}]
        /\ \A m \in Leads \ {l} : primary'[m] = primary[m]
        /\ primary'[l] = Best(files, touched'[l])
    BY <1>5, <2>1, Resynced DEF Inv, Typed
  <2> QED
    BY <2>2, <2>3
<1>8. raced \subseteq raced'
  BY <1>2 DEF Disturbs
<1>9. loan' \in [Files -> Nat \cup {Null}]
  <2>1. CASE s = "disbursed"
    BY <2>1 DEF MoveWith, Inv, Typed, MoneyTyped
  <2>2. CASE s # "disbursed"
    <3>1. PICK approved \in Sanctions : loan' = [loan EXCEPT ![<<l, b>>] = approved]
      BY <2>2 DEF MoveWith
    <3>2. approved \in Nat
      BY ConstantsAssumption DEF ConstantsAssumption
    <3> QED
      BY <3>1, <3>2 DEF Inv, Typed, MoneyTyped
  <2> QED
    BY <2>1, <2>2
<1>10. rate' \in [Files -> Nat \cup {Null}]
  <2>1. rate' = [rate EXCEPT ![f] = IF s # "pf_paid" /\ @ = Null THEN Rate[b] ELSE @]
    BY <1>1 DEF MoveWith
  <2>2. Rate[b] \in Nat \cup {Null}
    BY ConstantsAssumption DEF ConstantsAssumption
  <2> QED
    BY <2>1, <2>2 DEF Inv, Typed, MoneyTyped
<1>11. /\ \/ UNCHANGED tranches
          \/ /\ f[1] \notin raced' => ~HasTranche(f)
             /\ \E amount \in Amounts, day \in Days : Books(f, amount, day, loan'[f], TRUE)
       /\ s = "disbursed" => HasTranche(f) \/ ~UNCHANGED tranches
  <2>1. CASE s = "disbursed" /\ ~HasTranche(f)
    <3>1. loan' = loan
      BY <2>1 DEF MoveWith
    <3>2. PICK amount \in Amounts, day \in Days : Books(f, amount, day, loan[f], TRUE)
      BY <1>1, <2>1 DEF MoveWith
    <3>3. tranches' = tranches \cup {Booked(f, amount, day, TRUE)}
      BY <3>2 DEF Books
    <3>4. Booked(f, amount, day, TRUE).file = f
      BY DEF Booked
    <3>5. ~UNCHANGED tranches
      BY <2>1, <3>3, <3>4 DEF HasTranche
    <3> QED
      BY <2>1, <3>1, <3>2, <3>5
  <2>2. CASE ~(s = "disbursed" /\ ~HasTranche(f))
    BY <1>1, <2>2 DEF MoveWith
  <2> QED
    BY <2>1, <2>2
<1>12. /\ Book(tranches') /\ OneAutomatic' /\ NoExcess(loan')
       /\ \A m \in Leads \ {l}, c \in Lenders : HasTranche(<<m, c>>)' = HasTranche(<<m, c>>)
       /\ UNCHANGED tranches \/ HasTranche(f)'
  <2>1. Book(tranches) /\ OneAutomatic /\ f[1] = l
    BY <1>1 DEF Inv, Typed, MoneyTyped
  <2> QED
    BY <1>8, <1>9, <1>11, <2>1, FirstBooked
<1>13. Apart(l)
  BY <1>5, <1>7, <1>12 DEF Apart
<1>14. Current' /\ raced' \subseteq Leads
  BY <1>2, <1>13, DisturbedStaysCurrent DEF Inv
<1>15. PrimaryIsBest'
  <2>1. \A m \in Leads \ raced' : primary'[m] = Best(FilesOf(m)', touched'[m])
    BY <1>5, <1>7, <1>8 DEF Inv, PrimaryIsBest
  <2>2. \A m : Best(FilesOf(m), touched[m])' = Best(FilesOf(m)', touched'[m])
    BY DEF Best
  <2> QED
    BY <2>1, <2>2 DEF PrimaryIsBest
<1>16. Typed'
  <2>1. changes' \in 0..MaxChanges
    BY <1>2, ConstantsAssumption DEF ConstantsAssumption, Changes, Inv, Typed, RequestsTyped
  <2>2. RequestsTyped'
    BY <1>2, <1>14, <2>1 DEF Inv, Typed, RequestsTyped, requestVars
  <2>3. LeadsTyped'
    BY <1>2, <1>7 DEF Inv, Typed, LeadsTyped
  <2>4. MoneyTyped'
    BY <1>9, <1>10, <1>12 DEF MoneyTyped, Book
  <2> QED
    BY <1>5, <2>2, <2>3, <2>4 DEF Typed
<1>17. MoneyWithStage
  <2> SUFFICES ASSUME NEW m \in Leads, stage'[m] = "disbursed", stage[m] # "disbursed"
               PROVE  \E c \in Lenders : /\ status'[<<m, c>>] = "disbursed"
                                         /\ HasTranche(<<m, c>>)'
                                         /\ primary'[m] = c
    BY DEF MoneyWithStage
  <2>1. m = l /\ s = "disbursed"
    BY <1>2 DEF Inv, Typed, LeadsTyped
  <2>2. status'[<<l, b>>] = "disbursed"
    BY <1>2, <2>1 DEF Inv, Typed, FilesTyped, Files
  <2>3. HasTranche(f)'
    <3>1. CASE UNCHANGED tranches
      BY <1>11, <2>1, <3>1 DEF HasTranche
    <3>2. CASE ~UNCHANGED tranches
      BY <1>12, <3>2
    <3> QED
      BY <3>1, <3>2
  <2>4. FilesOf(l)'[b] = "disbursed"
    BY <2>2 DEF FilesOf
  <2>5. primary'[l] = b
    BY <1>5, <1>6, <1>7, <2>4, LastDisbursedIsBest
  <2> QED
    BY <1>1, <2>1, <2>2, <2>3, <2>5 DEF HasTranche
<1> QED
  BY <1>12, <1>14, <1>15, <1>16, <1>17 DEF Inv, Right, ReleasedWithinSanction, NoExcess

-----------------------------------------------------------------------------
(* How it begins.                                                          *)

\* A finite set of lenders can be listed.
LEMMA Listed ==
    ASSUME NEW S \in SUBSET Lenders
    PROVE  SetToSeq(S) \in Seq(Lenders) /\ Once(SetToSeq(S)) /\ ToSet(SetToSeq(S)) = S
<1> DEFINE n == Cardinality(S)
           order == SetToSeq(S)
<1>1. IsFiniteSet(S)
  BY FS_Subset, ConstantsAssumption DEF ConstantsAssumption
<1>2. n \in Nat /\ ExistsBijection(1..n, S)
  BY <1>1, FS_CardinalityType
<1>3. order \in [1..n -> S] /\ IsInjective(order)
  <2>1. \E g \in [1..n -> S] : IsInjective(g)
    BY <1>2 DEF ExistsBijection, Bijection, Injection, IsInjective
  <2> QED
    BY <2>1 DEF SetToSeq
<1> HIDE DEF order
<1>4. order \in Surjection(1..n, S)
  <2>1. order \in Injection(1..n, S)
    BY <1>3 DEF Injection
  <2>2. Cardinality(1..n) = Cardinality(S)
    <3>1. Cardinality(1..n) = IF 1 > n THEN 0 ELSE n - 1 + 1
      BY <1>2, FS_Interval
    <3> QED
      BY <1>2, <3>1
  <2> HIDE DEF n
  <2> QED
    BY <1>1, <2>1, <2>2, FS_Injection
<1> HIDE DEF n
<1>5. order \in Seq(Lenders) /\ DOMAIN order = 1..n
  BY <1>2, <1>3
<1>6. Once(order)
  BY <1>3 DEF Once, IsInjective
<1>7. ToSet(order) = S
  BY <1>3, <1>4 DEF Surjection, ToSet
<1> QED
  BY <1>5, <1>6, <1>7 DEF order

LEMMA InitInv ==
    ASSUME Init
    PROVE  Inv
<1>1. NoLender \notin Leads /\ NoFile \notin Statuses
  BY ConstantsAssumption DEF ConstantsAssumption
<1>2. tranches = Legacy
  BY DEF Init
<1>3. MoneyTyped
  <2>1. Book(tranches)
    BY <1>2, ConstantsAssumption DEF ConstantsAssumption, Book, Numbered
  <2>2. loan \in [Files -> Nat \cup {Null}]
    BY DEF Init
  <2>3. rate \in [Files -> Nat \cup {Null}]
    <3>1. \A f \in Files : Rate[f[2]] \in Nat \cup {Null}
      BY ConstantsAssumption DEF ConstantsAssumption, Files
    <3> QED
      BY <3>1 DEF Init
  <2> QED
    BY <2>1, <2>2, <2>3 DEF MoneyTyped
<1>4. /\ status \in [Files -> FileStatus]
      /\ \A f \in Files : /\ HasTranche(f) => status[f] = "disbursed"
                          /\ status[f] # NoFile <=> HasTranche(f)
  BY <1>1 DEF Init, FileStatus, Statuses
<1>5. ASSUME NEW l \in Leads
      PROVE  /\ touched[l] \in Seq(Lenders) /\ Once(touched[l])
             /\ ToSet(touched[l]) = {b \in Lenders : HasTranche(<<l, b>>)}
  <2> DEFINE S == {b \in Lenders : HasTranche(<<l, b>>)}
  <2>1. touched[l] = SetToSeq(S)
    BY DEF Init
  <2>2. S \in SUBSET Lenders
    OBVIOUS
  <2> HIDE DEF S
  <2>3. touched[l] \in Seq(Lenders) /\ Once(touched[l]) /\ ToSet(touched[l]) = S
    BY <2>1, <2>2, Listed
  <2> QED
    BY <2>3 DEF S
<1>6. FilesTyped
  <2>1. touched \in [Leads -> Seq(Lenders)]
    BY <1>5 DEF Init
  <2>2. \A l \in Leads : {b \in Lenders : HasTranche(<<l, b>>)}
                             = {b \in Lenders : status[<<l, b>>] # NoFile}
    BY <1>4 DEF Files
  <2> QED
    BY <1>4, <1>5, <2>1, <2>2 DEF FilesTyped
<1>7. ASSUME NEW l \in Leads
      PROVE  primary[l] = Best(FilesOf(l), touched[l]) /\ primary[l] \in Lenders \cup {NoLender}
  <2>1. primary[l] = IF touched[l] = <<>> THEN NoLender ELSE touched[l][Len(touched[l])]
    BY DEF Init, Last
  <2>2. FilesOf(l) \in [Lenders -> FileStatus]
    BY <1>4 DEF FilesOf, Files
  <2>3. CASE touched[l] = <<>>
    <3>1. DOMAIN touched[l] = {}
      BY <2>3
    <3>2. Best(FilesOf(l), touched[l]) = NoLender
      BY <3>1 DEF Best
    <3> QED
      BY <2>1, <2>3, <3>2
  <2>4. CASE touched[l] # <<>>
    <3> DEFINE order == touched[l]
    <3>1. order[Len(order)] \in Lenders /\ order[Len(order)] \in ToSet(order)
      BY <1>5, <2>4 DEF ToSet
    <3>2. FilesOf(l)[order[Len(order)]] = "disbursed"
      BY <1>4, <1>5, <3>1 DEF FilesOf, Files
    <3>3. Best(FilesOf(l), order) = order[Len(order)]
      BY <1>5, <2>2, <2>4, <3>2, LastDisbursedIsBest
    <3> QED
      BY <2>1, <2>4, <3>1, <3>3
  <2> QED
    BY <2>3, <2>4
<1>8. PrimaryIsBest
  BY <1>7 DEF PrimaryIsBest
<1>9. LeadsTyped
  BY <1>7 DEF LeadsTyped, Init, Stages
<1>10. RequestsTyped
  BY ConstantsAssumption
     DEF ConstantsAssumption, RequestsTyped, Init, Unread, Readings, FileStatus
<1>11. Current
  BY <1>1 DEF Current, Init
<1>12. OneAutomatic
  BY <1>2, ConstantsAssumption DEF ConstantsAssumption, OneAutomatic
<1> QED
  BY <1>3, <1>6, <1>8, <1>9, <1>10, <1>11, <1>12 DEF Inv, Typed

-----------------------------------------------------------------------------
(* Every step.                                                             *)

LEMMA NextKeeps ==
    ASSUME Inv, Next
    PROVE  Inv' /\ Right
<1>1. CASE TrancheStep
  BY <1>1, AddTrancheStep, EditTrancheStep, DeleteTrancheStep DEF TrancheStep
<1>2. CASE LeadStep
  BY <1>2, MoveToStep, MoveWithStep, DeleteLeadStep DEF LeadStep
<1>3. ASSUME NEW u \in Users, GridStep(u) PROVE Inv' /\ Right
  BY <1>3, ReadsStep, AddFileStep, SaveFileStep, DeleteFileStep, RefusedStep DEF GridStep
<1> QED
  BY <1>1, <1>2, <1>3 DEF Next

\* Nothing happens.
LEMMA StutterKeeps ==
    ASSUME Inv, UNCHANGED vars
    PROVE  Inv' /\ Right
<1>1. /\ UNCHANGED <<stage, deleted, primary, fileVars, tranches, at, seen, raced, changes>>
      /\ UNCHANGED <<fileVars, primary, tranches>> /\ UNCHANGED <<tranches, stage>>
  BY DEF vars, leadVars, requestVars
<1>2. /\ UNCHANGED <<status, loan, rate, touched>>
      /\ \A m : Read(m)' = Read(m) /\ Best(FilesOf(m), touched[m])' = Best(FilesOf(m), touched[m])
  BY <1>1, SameToRead
<1>3. Typed'
  BY <1>1, <1>2
     DEF Inv, Typed, FilesTyped, RequestsTyped, MoneyTyped, LeadsTyped, Book
<1>4. PrimaryIsBest' /\ OneAutomatic'
  BY <1>1, <1>2 DEF Inv, PrimaryIsBest, OneAutomatic
<1>5. Current'
  <2>1. \A v \in Users : Read(at[v])' = Read(at[v])
    BY <1>1, <1>2 DEF Read, FilesOf, HasTranche
  <2> QED
    BY <1>1, <2>1 DEF Inv, Current
<1> QED
  BY <1>1, <1>3, <1>4, <1>5, QuietIsRight DEF Inv

\* Where a lead's files are in one hand at a time, what that hand holds is current.
THEOREM Invariant == Spec => []Inv
<1>1. Inv /\ [Next]_vars => Inv'
  BY NextKeeps, StutterKeeps
<1> QED
  BY <1>1, InitInv, PTL DEF Spec

\* The types of the files, of the requests and of the money.
THEOREM TypeCorrect == Spec => []TypeOK
<1>1. Inv => TypeOK
  BY DEF Inv, Typed, FilesTyped, RequestsTyped, MoneyTyped, LeadsTyped, Book, Numbered,
         FileStatus, TypeOK
<1> QED
  BY <1>1, Invariant, PTL

\* The lender shown on the lead is the one whose file is furthest, whatever was added,
\* saved, moved or deleted.
THEOREM PrimaryAlwaysBest == Spec => []PrimaryIsBest
<1>1. Inv => PrimaryIsBest
  BY DEF Inv
<1> QED
  BY <1>1, Invariant, PTL

\* No file gets a second first tranche of itself.
THEOREM FirstTrancheOnlyOnce == Spec => []FirstTrancheOnce
<1>1. ASSUME Inv PROVE FirstTrancheOnce
  <2> SUFFICES ASSUME NEW f \in Files, f[1] \notin raced
               PROVE  Cardinality({t \in TranchesOf(f) : t.automatic}) <= 1
    BY DEF FirstTrancheOnce
  <2> DEFINE S == {t \in TranchesOf(f) : t.automatic}
  <2>1. \A t, q \in S : t = q
    BY <1>1 DEF Inv, OneAutomatic, TranchesOf
  <2> HIDE DEF S
  <2>2. CASE S = {}
    <3>1. Cardinality(S) = 0
      BY <2>2, FS_EmptySet
    <3> QED
      BY <3>1 DEF S
  <2>3. CASE S # {}
    <3>1. PICK t : S = {t}
      BY <2>1, <2>3
    <3>2. Cardinality(S) = 1
      BY <3>1, FS_Singleton
    <3> QED
      BY <3>2 DEF S
  <2> QED
    BY <2>2, <2>3
<1> QED
  BY <1>1, Invariant, PTL

\* What adds to a file's tranches stays within the sanction, and a lead that gets to
\* disbursed has its money and its lender with it.
THEOREM MoneyAlwaysMovesRight == Spec => MoneyMovesRight
<1>1. Inv /\ [Next]_vars => [Right]_vars
  BY NextKeeps
<1> QED
  BY <1>1, Invariant, PTL DEF Spec, MoneyMovesRight, Right

-----------------------------------------------------------------------------
(* The applications of a lead: what is shown of a set of rows.             *)

\* Where a function is greatest.
LEMMA GreatestAt ==
    ASSUME NEW S, IsFiniteSet(S), S # {}, NEW f, \A x \in S : f[x] \in Int
    PROVE  \E x \in S : \A y \in S : f[y] <= f[x]
<1> DEFINE T == {f[x] : x \in S}
<1>1. T # {} /\ \A t \in T : t \in Int
  OBVIOUS
<1>2. IsFiniteSet(T)
  BY FiniteImage
<1>3. \A t \in T : \E x \in S : t = f[x]
  OBVIOUS
<1>4. \A x \in S : f[x] \in T
  OBVIOUS
<1> HIDE DEF T
<1>5. PICK t \in T : \A q \in T : q <= t
  BY <1>1, <1>2, GreatestMember
<1> QED
  BY <1>3, <1>4, <1>5

\* The rows of the table.
Table == [1..MaxRows -> Apps!Rows \cup {Apps!Gone}]

LEMMA Priorities == \A s \in Apps!Statuses : Apps!Priority[s] \in 0..10
  BY DEF Apps!Statuses, Apps!Priority

LEMMA GoneIsNoRow == Apps!Gone \notin Apps!Rows /\ Apps!Nothing.status \notin Apps!Statuses
  BY DEF Apps!Gone, Apps!Rows, Apps!Nothing, Apps!Statuses, Apps!Priority

LEMMA ThereAreRows ==
    ASSUME NEW rows \in Table
    PROVE  /\ IsFiniteSet(Apps!There(rows)) /\ Apps!There(rows) \subseteq 1..MaxRows
           /\ \A i \in Apps!There(rows) : /\ rows[i] \in Apps!Rows /\ rows[i].updated \in Nat
                                          /\ rows[i].status \in Apps!Statuses
                                          /\ Apps!Priority[rows[i].status] \in Nat
<1>1. Apps!There(rows) \in SUBSET (1..MaxRows)
  BY DEF Apps!There, Table
<1>2. IsFiniteSet(Apps!There(rows))
  <2>1. IsFiniteSet(1..MaxRows)
    BY FS_Interval, AppsConstants DEF Apps!ConstantsAssumption
  <2> QED
    BY <1>1, <2>1, FS_Subset
<1>3. \A i \in Apps!There(rows) : rows[i] \in Apps!Rows
  BY DEF Apps!There, Table
<1> QED
  BY <1>1, <1>2, <1>3, Priorities DEF Apps!Rows

\* There is one nothing beats, and it is shown.
LEMMA BestIsFurthest ==
    ASSUME NEW rows \in Table, Apps!There(rows) # {}
    PROVE  \E i \in Apps!There(rows) :
               /\ Apps!Best(rows) = [university |-> rows[i].university, status |-> rows[i].status]
               /\ \A k \in Apps!There(rows) : Apps!Priority[rows[k].status] <= Apps!Priority[rows[i].status]
<1> DEFINE S == Apps!There(rows)
           p == [i \in S |-> Apps!Priority[rows[i].status]]
           t == [i \in S |-> rows[i].updated]
<1>1. IsFiniteSet(S) /\ S # {} /\ \A i \in S : p[i] \in Int /\ t[i] \in Int
  BY ThereAreRows
<1>2. PICK m \in S : \A y \in S : p[y] <= p[m]
  <2> HIDE DEF p, S
  <2> QED
    BY <1>1, GreatestAt
<1> DEFINE T == {i \in S : p[i] = p[m]}
<1>3. T \in SUBSET S /\ T # {}
  OBVIOUS
<1>4. IsFiniteSet(T)
  <2> HIDE DEF T, S
  <2> QED
    BY <1>1, <1>3, FS_Subset
<1>5. PICK j \in T : \A y \in T : t[y] <= t[j]
  <2>1. \A x \in T : t[x] \in Int
    BY <1>1
  <2> HIDE DEF T, t
  <2> QED
    BY <1>3, <1>4, <2>1, GreatestAt
<1>6. \A k \in S : p[k] < p[j] \/ (p[k] = p[j] /\ t[j] >= t[k])
  BY <1>1, <1>2, <1>5
<1>7. \A k \in S : Apps!Beats(rows[j], rows[k])
  <2> SUFFICES ASSUME NEW k \in S PROVE Apps!Beats(rows[j], rows[k])
    OBVIOUS
  <2>1. /\ p[k] = Apps!Priority[rows[k].status] /\ p[j] = Apps!Priority[rows[j].status]
        /\ t[k] = rows[k].updated /\ t[j] = rows[j].updated
    OBVIOUS
  <2>2. p[k] \in Int /\ p[j] \in Int /\ t[k] \in Int /\ t[j] \in Int
    BY <1>1
  <2> HIDE DEF p, t
  <2> QED
    BY <1>6, <2>1, <2>2 DEF Apps!Beats
<1> DEFINE R == {rows[i] : i \in S}
           best == CHOOSE r \in R : \A q \in R : Apps!Beats(r, q)
<1>8. \E r \in R : \A q \in R : Apps!Beats(r, q)
  BY <1>7
<1>9. best \in R /\ \A q \in R : Apps!Beats(best, q)
  <2> HIDE DEF R
  <2> QED
    BY <1>8
<1>10. Apps!Best(rows) = [university |-> best.university, status |-> best.status]
  BY DEF Apps!Best
<1>11. PICK i \in S : best = rows[i]
  BY <1>9
<1>12. \A k \in S : Apps!Beats(rows[i], rows[k])
  BY <1>9, <1>11
<1>13. \A k \in S : Apps!Priority[rows[k].status] <= Apps!Priority[rows[i].status]
  BY <1>12, ThereAreRows DEF Apps!Beats
<1> QED
  BY <1>10, <1>11, <1>13

LEMMA NothingIsBest ==
    ASSUME NEW rows, Apps!There(rows) = {}
    PROVE  Apps!Best(rows) = Apps!Nothing
  BY DEF Apps!Best

\* What is shown is a thing to show, and the first on the card is as far.
LEMMA BestIsShown ==
    ASSUME NEW rows \in Table
    PROVE  Apps!Best(rows) \in Apps!Shown
<1>1. CASE Apps!There(rows) = {}
  BY <1>1, NothingIsBest DEF Apps!Shown
<1>2. CASE Apps!There(rows) # {}
  <2>1. PICK i \in Apps!There(rows) :
           Apps!Best(rows) = [university |-> rows[i].university, status |-> rows[i].status]
    BY <1>2, BestIsFurthest
  <2>2. rows[i] \in Apps!Rows
    BY ThereAreRows
  <2> QED
    BY <2>1, <2>2 DEF Apps!Shown, Apps!Rows
<1> QED
  BY <1>1, <1>2

LEMMA FirstOnCard ==
    ASSUME NEW rows \in Table, Apps!There(rows) # {}
    PROVE  \E i \in Apps!OnCard(rows) :
               /\ \A k \in Apps!OnCard(rows) \ {i} : Apps!Ahead(rows, i, k)
               /\ Apps!Priority[rows[i].status] = Apps!Priority[Apps!Best(rows).status]
<1> DEFINE S == Apps!There(rows)
<1>1. PICK b \in S :
         /\ Apps!Best(rows) = [university |-> rows[b].university, status |-> rows[b].status]
         /\ \A k \in S : Apps!Priority[rows[k].status] <= Apps!Priority[rows[b].status]
  BY BestIsFurthest
<1> DEFINE T == {i \in S : Apps!Priority[rows[i].status] = Apps!Priority[rows[b].status]}
           less == [i \in T |-> 0 - i]
<1>2. T \in SUBSET S /\ T # {} /\ IsFiniteSet(S) /\ S \subseteq 1..MaxRows
  BY ThereAreRows
<1>3. \A i \in T : i \in Int /\ less[i] \in Int
  BY <1>2
<1>4. IsFiniteSet(T)
  <2> HIDE DEF T, S
  <2> QED
    BY <1>2, FS_Subset
<1>5. PICK i \in T : \A k \in T : less[k] <= less[i]
  <2> HIDE DEF T, less
  <2> QED
    BY <1>2, <1>3, <1>4, GreatestAt
<1>6. \A k \in T : i <= k
  BY <1>3, <1>5
<1>7. \A k \in S : /\ Apps!Priority[rows[k].status] \in Nat
                   /\ k \in Int
  BY <1>2, ThereAreRows
<1>8. \A k \in S \ {i} : Apps!Ahead(rows, i, k) /\ ~Apps!Ahead(rows, k, i)
  <2> SUFFICES ASSUME NEW k \in S \ {i} PROVE Apps!Ahead(rows, i, k) /\ ~Apps!Ahead(rows, k, i)
    OBVIOUS
  <2>1. Apps!Priority[rows[i].status] = Apps!Priority[rows[b].status]
    OBVIOUS
  <2>2. CASE k \in T
    <3>1. Apps!Priority[rows[k].status] = Apps!Priority[rows[i].status]
      BY <2>1, <2>2
    <3>2. i < k /\ ~(k < i)
      BY <1>3, <1>6, <2>2
    <3> QED
      BY <1>7, <3>1, <3>2 DEF Apps!Ahead
  <2>3. CASE k \notin T
    <3>1. Apps!Priority[rows[k].status] < Apps!Priority[rows[i].status]
      BY <1>1, <1>7, <2>1, <2>3
    <3> QED
      BY <1>7, <3>1 DEF Apps!Ahead
  <2> QED
    BY <2>2, <2>3
<1>9. ~Apps!Ahead(rows, i, i)
  BY <1>3, <1>7 DEF Apps!Ahead
<1>10. \A k \in S : ~Apps!Ahead(rows, k, i)
  BY <1>8, <1>9
<1>11. i \in Apps!OnCard(rows)
  BY <1>10 DEF Apps!OnCard
<1>12. Apps!OnCard(rows) \subseteq S
  BY DEF Apps!OnCard
<1>13. Apps!Priority[rows[i].status] = Apps!Priority[Apps!Best(rows).status]
  BY <1>1, <1>5
<1> QED
  BY <1>8, <1>11, <1>12, <1>13

-----------------------------------------------------------------------------
(* The steps.                                                              *)

Cells == Apps!Rows \cup {Apps!Gone}

\* A row that is merged into what is there.
LEMMA MergedRow ==
    ASSUME NEW q \in Apps!InFlight, NEW now \in Cells
    PROVE  /\ Apps!Merged(q, now) \in Cells
           /\ (q.was = Apps!Gone \/ q.to = Apps!Gone \/ now = Apps!Gone) => Apps!Merged(q, now) = q.to
           /\ (q.was # Apps!Gone /\ q.to # Apps!Gone /\ now # Apps!Gone) =>
                  /\ Apps!Merged(q, now) \in Apps!Rows /\ Apps!Merged(q, now) # Apps!Gone
                  /\ Apps!Merged(q, now).university = now.university
                  /\ Apps!Merged(q, now).late = now.late
                  /\ Apps!Merged(q, now).program =
                              IF q.to.program = q.was.program THEN now.program ELSE q.to.program
<1>1. CASE q.was = Apps!Gone \/ q.to = Apps!Gone \/ now = Apps!Gone
  BY <1>1 DEF Apps!Merged, Apps!InFlight, Cells
<1>2. CASE q.was # Apps!Gone /\ q.to # Apps!Gone /\ now # Apps!Gone
  <2>1. q.to \in Apps!Rows /\ now \in Apps!Rows
    BY <1>2 DEF Apps!InFlight, Cells
  <2>2. PICK s, p, o, t : /\ s = (IF q.to.status = q.was.status THEN now.status ELSE q.to.status)
                          /\ p = (IF q.to.program = q.was.program THEN now.program ELSE q.to.program)
                          /\ o = (IF q.to.offer = q.was.offer THEN now.offer ELSE q.to.offer)
                          /\ t = q.to.updated
    OBVIOUS
  <2>3. Apps!Merged(q, now) = [now EXCEPT !.status = s, !.program = p, !.offer = o, !.updated = t]
    BY <1>2, <2>2 DEF Apps!Merged
  <2>4. /\ s \in Apps!Statuses /\ p \in Programs \cup {NoProgram} /\ o \in BOOLEAN /\ t \in Nat
    BY <2>1, <2>2 DEF Apps!Rows
  <2>5. /\ Apps!Merged(q, now) \in Apps!Rows
        /\ Apps!Merged(q, now).university = now.university /\ Apps!Merged(q, now).late = now.late
        /\ Apps!Merged(q, now).program = p
    BY <2>1, <2>3, <2>4 DEF Apps!Rows
  <2> QED
    BY <1>2, <2>2, <2>5, GoneIsNoRow DEF Cells
<1> QED
  BY <1>1, <1>2

\* Into what was read, it is the row that was asked for.
LEMMA MergedIntoRead ==
    ASSUME NEW q \in Apps!InFlight,
           q.was # Apps!Gone /\ q.to # Apps!Gone =>
               q.to.university = q.was.university /\ q.to.late = q.was.late
    PROVE  Apps!Merged(q, q.was) = q.to
<1>1. CASE q.was = Apps!Gone \/ q.to = Apps!Gone
  BY <1>1 DEF Apps!Merged
<1>2. CASE q.was # Apps!Gone /\ q.to # Apps!Gone
  <2>1. q.to \in Apps!Rows /\ q.was \in Apps!Rows
    BY <1>2 DEF Apps!InFlight
  <2>2. Apps!Merged(q, q.was) = [q.was EXCEPT !.status = q.to.status, !.program = q.to.program,
                                              !.offer = q.to.offer, !.updated = q.to.updated]
    <3>1. PICK s, p, o : /\ s = (IF q.to.status = q.was.status THEN q.was.status ELSE q.to.status)
                         /\ p = (IF q.to.program = q.was.program THEN q.was.program ELSE q.to.program)
                         /\ o = (IF q.to.offer = q.was.offer THEN q.was.offer ELSE q.to.offer)
      OBVIOUS
    <3>2. s = q.to.status /\ p = q.to.program /\ o = q.to.offer
      BY <3>1
    <3>3. Apps!Merged(q, q.was) = [q.was EXCEPT !.status = s, !.program = p, !.offer = o,
                                                !.updated = q.to.updated]
      BY <1>2, <3>1 DEF Apps!Merged
    <3> QED
      BY <3>2, <3>3
  <2> QED
    BY <1>2, <2>1, <2>2, ZenonT(60) DEF Apps!Rows
<1> QED
  BY <1>1, <1>2

\* A request that is under way and one that has written.
Active(u) == req[u] # Apps!Idle
Flushed(u) == req[u] # Apps!Idle /\ req[u].at = "flushed"

\* What a request would commit.
RowOf(u) == Apps!Merged(req[u], apps[req[u].id])

LEMMA RequestFields ==
    ASSUME Apps!TypeOK, NEW u \in Users, Active(u)
    PROVE  /\ req[u] \in Apps!InFlight /\ req[u].id \in 1..MaxRows
           /\ req[u].at \in {"begun", "flushed"}
           /\ req[u].was \in Cells /\ req[u].to \in Cells
           /\ req[u].read \in Apps!Shown /\ req[u].write \in Apps!Shown /\ req[u].disturbed \in BOOLEAN
           /\ apps[req[u].id] \in Cells
<1>1. req[u] \in Apps!InFlight
  BY DEF Apps!TypeOK, Active
<1> QED
  BY <1>1 DEF Apps!TypeOK, Apps!InFlight, Cells

LEMMA InFlightIsActive == \A q \in Apps!InFlight : q # Apps!Idle
  BY DEF Apps!InFlight, Apps!Idle

\* What a request has read and wants, beside the rows.
Began(u) ==
    LET q == req[u]
    IN  /\ q.was = Apps!Gone =>
               /\ apps[q.id] = Apps!Gone /\ q.to # Apps!Gone /\ ~q.to.late
               /\ \A v \in Users \ {u} : Active(v) => req[v].id # q.id
               /\ ~q.disturbed => \A i \in 1..MaxRows : ~Apps!Same(apps[i], q.to.university, q.to.program)
        /\ q.was # Apps!Gone /\ apps[q.id] # Apps!Gone => apps[q.id].university = q.was.university
        /\ q.was # Apps!Gone /\ q.to # Apps!Gone =>
               /\ q.to.university = q.was.university /\ q.to.late = q.was.late
               /\ q.to.program \in Programs \cup {q.was.program}
               /\ q.at = "flushed" => apps[q.id] # Apps!Gone
        /\ ~q.disturbed => apps[q.id] = q.was /\ shown = q.read
        /\ ~q.disturbed /\ q.at = "flushed" => q.write = Apps!Best(Apps!Seen(q.id, q.to))

\* The unique index has found nothing like the row a request has written.
Free(u) ==
    LET r == RowOf(u) IN
    r # Apps!Gone /\ r.program # NoProgram =>
        /\ \A i \in 1..MaxRows \ {req[u].id} : ~Apps!Same(apps[i], r.university, r.program)
        /\ \A v \in Users \ {u} : Flushed(v) => ~Apps!Same(RowOf(v), r.university, r.program)

RequestsSound ==
    /\ \A u \in Users : Active(u) => Began(u)
    /\ \A u, v \in Users : u # v /\ Flushed(u) /\ Flushed(v) => req[u].id # req[v].id
    /\ \A u \in Users : Flushed(u) => Free(u)

AppsInv == Apps!TypeOK /\ RequestsSound /\ Apps!LeadShowsFurthest /\ Apps!TwinsAreNameless

\* A row that would be committed is what was asked for, or in university and program what
\* is there.
LEMMA RowIs ==
    ASSUME Apps!TypeOK, RequestsSound, NEW u \in Users, Flushed(u), NEW n, NEW p,
           Apps!Same(RowOf(u), n, p)
    PROVE  Apps!Same(req[u].to, n, p) \/ Apps!Same(apps[req[u].id], n, p)
<1>1. Active(u) /\ Began(u)
  BY DEF RequestsSound, Active, Flushed
<1> DEFINE q == req[u]
           now == apps[q.id]
<1>2. q \in Apps!InFlight /\ now \in Cells
  BY <1>1, RequestFields
<1>3. CASE q.was = Apps!Gone \/ q.to = Apps!Gone \/ now = Apps!Gone
  <2>1. RowOf(u) = q.to
    BY <1>2, <1>3, MergedRow DEF RowOf
  <2> QED
    BY <2>1
<1>4. CASE q.was # Apps!Gone /\ q.to # Apps!Gone /\ now # Apps!Gone
  <2>1. /\ RowOf(u).university = now.university
        /\ RowOf(u).program = IF q.to.program = q.was.program THEN now.program ELSE q.to.program
    BY <1>2, <1>4, MergedRow DEF RowOf
  <2>2. now.university = q.was.university /\ q.to.university = q.was.university
    BY <1>1, <1>4 DEF Began
  <2> QED
    BY <1>4, <2>1, <2>2 DEF Apps!Same
<1> QED
  BY <1>3, <1>4

\* While no row and nothing that is shown requests.
LEMMA ShownStays ==
    ASSUME Apps!LeadShowsFurthest, Apps!TwinsAreNameless, UNCHANGED <<apps, shown, overtaken>>
    PROVE  Apps!LeadShowsFurthest' /\ Apps!TwinsAreNameless'
  BY DEF Apps!LeadShowsFurthest, Apps!TwinsAreNameless

\* A request begins.
LEMMA BeginsSound ==
    ASSUME AppsInv, NEW u \in Users, NEW id \in 1..MaxRows, NEW to \in Cells, Apps!Begins(u, id, to),
           apps[id] = Apps!Gone =>
               /\ to # Apps!Gone /\ ~to.late
               /\ \A v \in Users : Active(v) => req[v].id # id
               /\ \A i \in 1..MaxRows : ~Apps!Same(apps[i], to.university, to.program),
           apps[id] # Apps!Gone /\ to # Apps!Gone =>
               /\ to.university = apps[id].university /\ to.late = apps[id].late
               /\ to.program \in Programs \cup {apps[id].program}
    PROVE  AppsInv'
<1> DEFINE r == [at |-> "begun", id |-> id, was |-> apps[id], to |-> to,
                 read |-> shown, write |-> shown, disturbed |-> FALSE]
<1>1. /\ Apps!TypeOK /\ req[u] = Apps!Idle /\ requests < MaxRequests /\ requests' = requests + 1
      /\ clock' = clock + 1 /\ req' = [req EXCEPT ![u] = r]
      /\ apps' = apps /\ shown' = shown /\ overtaken' = overtaken
  BY DEF AppsInv, Apps!Begins
<1>2. r \in Apps!InFlight
  BY <1>1 DEF Apps!TypeOK, Apps!InFlight, Cells
<1>3. /\ r.at = "begun" /\ r.id = id /\ r.was = apps[id] /\ r.to = to /\ r.read = shown
      /\ ~r.disturbed /\ r # Apps!Idle
  BY <1>2, InFlightIsActive
<1> HIDE DEF r
<1>4. req'[u] = r /\ \A v \in Users \ {u} : req'[v] = req[v]
  BY <1>1 DEF Apps!TypeOK
<1>5. Apps!TypeOK'
  <2>1. req' \in [Users -> Apps!InFlight \cup {Apps!Idle}]
    BY <1>1, <1>2 DEF Apps!TypeOK
  <2>2. requests' \in 0..MaxRequests /\ clock' \in Nat
    BY <1>1, AppsConstants DEF Apps!TypeOK, Apps!ConstantsAssumption
  <2> QED
    BY <1>1, <2>1, <2>2 DEF Apps!TypeOK
<1>6. /\ Active(u)' /\ ~Flushed(u)' /\ ~Flushed(u)
      /\ \A v \in Users \ {u} : /\ (Active(v)' <=> Active(v)) /\ (Flushed(v)' <=> Flushed(v))
                                /\ RowOf(v)' = RowOf(v)
  BY <1>1, <1>3, <1>4 DEF Active, Flushed, RowOf
<1>7. Began(u)'
  <2>1. apps[id] = Apps!Gone => \A v \in Users \ {u} : Active(v)' => req'[v].id # id
    BY <1>4, <1>6
  <2> QED
    BY <1>1, <1>3, <1>4, <2>1 DEF Began
<1>8. ASSUME NEW v \in Users \ {u}, Active(v) PROVE Began(v)'
  <2>1. Began(v)
    BY <1>8 DEF AppsInv, RequestsSound
  <2>2. req[v].was = Apps!Gone => /\ apps[req[v].id] = Apps!Gone
                                  /\ \A w \in Users \ {v} : Active(w) => req[w].id # req[v].id
    BY <2>1 DEF Began
  <2>3. req[v].was = Apps!Gone => id # req[v].id
    BY <1>8, <2>2
  <2>4. req[v].was = Apps!Gone => \A w \in Users \ {v} : Active(w)' => req'[w].id # req[v].id
    BY <1>3, <1>4, <1>6, <2>2, <2>3
  <2> QED
    BY <1>1, <1>4, <2>1, <2>4 DEF Began, Apps!Seen
<1>9. ASSUME NEW v \in Users, Flushed(v)' PROVE Free(v)'
  <2>1. v # u /\ Flushed(v)
    BY <1>6, <1>9
  <2>2. Free(v)
    BY <2>1 DEF AppsInv, RequestsSound
  <2>3. \A w \in Users \ {v} : Flushed(w)' => Flushed(w) /\ RowOf(w)' = RowOf(w)
    BY <1>6
  <2> QED
    BY <1>1, <1>4, <1>6, <2>1, <2>2, <2>3 DEF Free
<1>10. RequestsSound'
  <2>1. \A v, w \in Users : v # w /\ Flushed(v)' /\ Flushed(w)' => req'[v].id # req'[w].id
    BY <1>4, <1>6 DEF AppsInv, RequestsSound
  <2>2. \A v \in Users : Active(v)' => Began(v)'
    BY <1>6, <1>7, <1>8
  <2> QED
    BY <1>9, <2>1, <2>2 DEF RequestsSound
<1>11. Apps!LeadShowsFurthest' /\ Apps!TwinsAreNameless'
  BY <1>1, ShownStays DEF AppsInv
<1> QED
  BY <1>5, <1>10, <1>11 DEF AppsInv

\* The three kinds of request.
LEMMA AddSound ==
    ASSUME AppsInv, NEW u \in Users, Apps!AddApplication(u)
    PROVE  AppsInv'
<1>1. PICK id \in Apps!NextId, n \in Universities, p \in Programs \cup {NoProgram}, s \in Picked :
          /\ \A i \in 1..MaxRows : ~Apps!Same(apps[i], n, p)
          /\ Apps!Begins(u, id, [university |-> n, program |-> p, status |-> s, offer |-> FALSE,
                                 updated |-> clock + 1, late |-> FALSE])
  BY DEF Apps!AddApplication
<1>2. PICK to : to = [university |-> n, program |-> p, status |-> s, offer |-> FALSE,
                      updated |-> clock + 1, late |-> FALSE]
  OBVIOUS
<1>3. to \in Apps!Rows /\ ~to.late /\ to.university = n /\ to.program = p
  BY <1>2, AppsConstants DEF AppsInv, Apps!TypeOK, Apps!Rows, Apps!ConstantsAssumption
<1>4. id \in 1..MaxRows /\ apps[id] = Apps!Gone /\ \A v \in Users : Active(v) => req[v].id # id
  BY DEF Apps!NextId, Active
<1> QED
  BY <1>1, <1>2, <1>3, <1>4, BeginsSound, GoneIsNoRow DEF Cells

LEMMA UpdateSound ==
    ASSUME AppsInv, NEW u \in Users, Apps!UpdateApplication(u)
    PROVE  AppsInv'
<1>1. PICK id \in Apps!There(apps) :
          \E s \in Picked \cup {apps[id].status}, p \in Programs \cup {apps[id].program},
             offer \in {apps[id].offer, TRUE} :
              Apps!Begins(u, id, [apps[id] EXCEPT !.status = s, !.program = p, !.offer = offer])
  BY DEF Apps!UpdateApplication
<1>2. PICK s \in Picked \cup {apps[id].status}, p \in Programs \cup {apps[id].program},
           offer \in {apps[id].offer, TRUE} :
          Apps!Begins(u, id, [apps[id] EXCEPT !.status = s, !.program = p, !.offer = offer])
  BY <1>1
<1>3. id \in 1..MaxRows /\ apps[id] \in Apps!Rows /\ apps[id] # Apps!Gone
  BY DEF Apps!There, AppsInv, Apps!TypeOK
<1>4. PICK to : to = [apps[id] EXCEPT !.status = s, !.program = p, !.offer = offer]
  OBVIOUS
<1>5. s \in Apps!Statuses /\ p \in Programs \cup {NoProgram} /\ offer \in BOOLEAN
  BY <1>3, AppsConstants DEF Apps!Rows, Apps!ConstantsAssumption
<1>6. /\ to \in Apps!Rows /\ to.university = apps[id].university /\ to.late = apps[id].late
      /\ to.program = p
  BY <1>3, <1>4, <1>5 DEF Apps!Rows
<1> QED
  BY <1>2, <1>3, <1>4, <1>6, BeginsSound DEF Cells

LEMMA DeleteSound ==
    ASSUME AppsInv, NEW u \in Users, Apps!DeleteApplication(u)
    PROVE  AppsInv'
<1>1. PICK id \in Apps!There(apps) : Apps!Begins(u, id, Apps!Gone)
  BY DEF Apps!DeleteApplication
<1>2. id \in 1..MaxRows /\ apps[id] # Apps!Gone
  BY DEF Apps!There, AppsInv, Apps!TypeOK
<1> QED
  BY <1>1, <1>2, BeginsSound DEF Cells

\* A request flushes: its own row and the index are looked at with what others have
\* written and not committed.
LEMMA FlushSound ==
    ASSUME AppsInv, NEW u \in Users, Apps!Flush(u)
    PROVE  AppsInv'
<1>0. PICK q, to, r :
          /\ q = req[u]
          /\ to = IF q.was = Apps!Gone \/ q.to = Apps!Gone THEN q.to
                  ELSE [q.to EXCEPT !.updated = clock + 1]
          /\ r = [q EXCEPT !.at = "flushed", !.to = to, !.write = Apps!Best(Apps!Seen(q.id, to))]
  OBVIOUS
<1>1. /\ Apps!TypeOK /\ Active(u) /\ q.at = "begun" /\ ~Apps!Locked(u, q.id) /\ ~Apps!Taken(q.id, to)
      /\ q.was # Apps!Gone /\ q.to # Apps!Gone => apps[q.id] # Apps!Gone
      /\ req' = [req EXCEPT ![u] = r] /\ clock' = clock + 1
      /\ apps' = apps /\ shown' = shown /\ overtaken' = overtaken /\ requests' = requests
  BY <1>0 DEF AppsInv, Apps!Flush, Active
<1>2. /\ q \in Apps!InFlight /\ q.id \in 1..MaxRows /\ q.was \in Cells /\ q.to \in Cells
      /\ apps[q.id] \in Cells /\ Began(u)
  BY <1>0, <1>1, RequestFields DEF AppsInv, RequestsSound
<1>3. /\ to \in Cells /\ (to = Apps!Gone <=> q.to = Apps!Gone)
      /\ q.was = Apps!Gone \/ q.to = Apps!Gone => to = q.to
      /\ q.to # Apps!Gone => /\ to.university = q.to.university /\ to.program = q.to.program
                             /\ to.late = q.to.late
  <2>1. CASE q.was = Apps!Gone \/ q.to = Apps!Gone
    BY <1>0, <1>2, <2>1
  <2>2. CASE q.was # Apps!Gone /\ q.to # Apps!Gone
    <3>1. q.to \in Apps!Rows /\ clock + 1 \in Nat
      BY <1>1, <1>2, <2>2 DEF Cells, Apps!TypeOK
    <3>2. to = [q.to EXCEPT !.updated = clock + 1]
      BY <1>0, <2>2
    <3>3. /\ to \in Apps!Rows /\ to.university = q.to.university /\ to.program = q.to.program
          /\ to.late = q.to.late
      BY <3>1, <3>2 DEF Apps!Rows
    <3> QED
      BY <2>2, <3>3, GoneIsNoRow DEF Cells
  <2> QED
    BY <2>1, <2>2
<1>4. Apps!Seen(q.id, to) \in Table
  BY <1>1, <1>2, <1>3 DEF Apps!Seen, Table, Cells, Apps!TypeOK
<1>5. PICK b : b = Apps!Best(Apps!Seen(q.id, to)) /\ b \in Apps!Shown
  BY <1>4, BestIsShown
<1>6. /\ r \in Apps!InFlight /\ r # Apps!Idle /\ r.at = "flushed" /\ r.id = q.id /\ r.was = q.was
      /\ r.to = to /\ r.read = q.read /\ r.disturbed = q.disturbed
      /\ r.write = Apps!Best(Apps!Seen(q.id, to))
  <2>1. r = [q EXCEPT !.at = "flushed", !.to = to, !.write = b]
    BY <1>0, <1>5
  <2>2. /\ r \in Apps!InFlight /\ r.at = "flushed" /\ r.id = q.id /\ r.was = q.was /\ r.to = to
        /\ r.read = q.read /\ r.disturbed = q.disturbed /\ r.write = b
    BY <1>2, <1>3, <1>5, <2>1 DEF Apps!InFlight, Cells
  <2> QED
    BY <1>5, <2>2, InFlightIsActive
<1>7. /\ req'[u] = r /\ req[u] = q
      /\ \A v \in Users \ {u} : req'[v] = req[v]
  BY <1>0, <1>1 DEF Apps!TypeOK
<1>8. Apps!TypeOK'
  <2>1. req' \in [Users -> Apps!InFlight \cup {Apps!Idle}]
    BY <1>1, <1>6 DEF Apps!TypeOK
  <2> QED
    BY <1>1, <2>1 DEF Apps!TypeOK
<1>9. /\ Active(u)' /\ Flushed(u)'
      /\ \A v \in Users \ {u} : /\ (Active(v)' <=> Active(v)) /\ (Flushed(v)' <=> Flushed(v))
                                /\ RowOf(v)' = RowOf(v)
  BY <1>1, <1>6, <1>7 DEF Active, Flushed, RowOf
<1>10. \A v \in Users : Active(v)' => Active(v) /\ req'[v].id = req[v].id
  BY <1>1, <1>6, <1>7, <1>9
<1>11. Began(u)'
  <2>1. q.was = Apps!Gone => \A v \in Users \ {u} : Active(v)' => req'[v].id # q.id
    BY <1>2, <1>7, <1>10 DEF Began
  <2>2. q.was = Apps!Gone =>
            /\ apps[q.id] = Apps!Gone /\ to # Apps!Gone /\ ~to.late
            /\ ~q.disturbed => \A i \in 1..MaxRows : ~Apps!Same(apps[i], to.university, to.program)
    BY <1>2, <1>3, <1>7 DEF Began
  <2>3. q.was # Apps!Gone /\ to # Apps!Gone =>
            /\ to.university = q.was.university /\ to.late = q.was.late
            /\ to.program \in Programs \cup {q.was.program}
    BY <1>2, <1>3, <1>7 DEF Began
  <2>4. /\ q.was # Apps!Gone /\ apps[q.id] # Apps!Gone => apps[q.id].university = q.was.university
        /\ ~q.disturbed => apps[q.id] = q.was /\ shown = q.read
    BY <1>2, <1>7 DEF Began
  <2> QED
    BY <1>1, <1>3, <1>6, <1>7, <2>1, <2>2, <2>3, <2>4, ZenonT(60) DEF Began, Apps!Seen
<1>12. ASSUME NEW v \in Users \ {u}, Active(v) PROVE Began(v)'
  <2>1. Began(v)
    BY <1>12 DEF AppsInv, RequestsSound
  <2>2. req[v].was = Apps!Gone => \A w \in Users \ {v} : Active(w)' => req'[w].id # req[v].id
    BY <1>10, <2>1 DEF Began
  <2> QED
    BY <1>1, <1>7, <2>1, <2>2 DEF Began, Apps!Seen
<1> DEFINE row == Apps!Merged(r, apps[q.id])
<1>13. RowOf(u)' = row
  BY <1>1, <1>6, <1>7 DEF RowOf
<1>14. ASSUME NEW v \in Users \ {u}, Flushed(v)
       PROVE  req[v].id # q.id /\ req[v].id \in 1..MaxRows /\ Free(v)
  <2>1. Active(v)
    BY <1>14 DEF Flushed, Active
  <2> QED
    BY <1>1, <1>14, <2>1, RequestFields DEF Apps!Locked, Flushed, AppsInv, RequestsSound
<1>15. ASSUME row # Apps!Gone, row.program # NoProgram
       PROVE  /\ \A i \in 1..MaxRows \ {q.id} : ~Apps!Same(apps[i], row.university, row.program)
              /\ \A v \in Users \ {u} : Flushed(v) => ~Apps!Same(RowOf(v), row.university, row.program)
  <2>1. \/ to # Apps!Gone /\ Apps!Same(row, to.university, to.program)
        \/ apps[q.id] # Apps!Gone /\ Apps!Same(row, apps[q.id].university, apps[q.id].program)
    <3>1. CASE q.was = Apps!Gone \/ to = Apps!Gone \/ apps[q.id] = Apps!Gone
      <4>1. row = to
        BY <1>2, <1>6, <3>1, MergedRow
      <4> QED
        BY <1>15, <4>1 DEF Apps!Same
    <3>2. CASE q.was # Apps!Gone /\ to # Apps!Gone /\ apps[q.id] # Apps!Gone
      <4>1. /\ row.university = apps[q.id].university
            /\ row.program = IF to.program = q.was.program THEN apps[q.id].program ELSE to.program
        BY <1>2, <1>6, <3>2, MergedRow
      <4>2. apps[q.id].university = q.was.university /\ to.university = q.was.university
        BY <1>2, <1>3, <1>7, <3>2 DEF Began
      <4> QED
        BY <1>15, <3>2, <4>1, <4>2 DEF Apps!Same
    <3> QED
      BY <3>1, <3>2
  <2>2. CASE to # Apps!Gone /\ Apps!Same(row, to.university, to.program)
    <3>1. row.university = to.university /\ row.program = to.program /\ to.program # NoProgram
      BY <1>15, <2>2 DEF Apps!Same
    <3>2. /\ \A i \in 1..MaxRows \ {q.id} : ~Apps!Same(apps[i], to.university, to.program)
          /\ \A v \in Users : Flushed(v) /\ req[v].id # q.id =>
                                  ~Apps!Same(req[v].to, to.university, to.program)
      BY <1>1, <2>2, <3>1 DEF Apps!Taken, Flushed
    <3>3. ASSUME NEW v \in Users \ {u}, Flushed(v)
          PROVE  ~Apps!Same(RowOf(v), to.university, to.program)
      <4>1. req[v].id \in 1..MaxRows \ {q.id}
        BY <1>14, <3>3
      <4>2. /\ ~Apps!Same(req[v].to, to.university, to.program)
            /\ ~Apps!Same(apps[req[v].id], to.university, to.program)
        BY <3>2, <3>3, <4>1
      <4> QED
        BY <1>1, <3>3, <4>2, RowIs DEF AppsInv
    <3> QED
      BY <3>1, <3>2, <3>3
  <2>3. CASE apps[q.id] # Apps!Gone /\ Apps!Same(row, apps[q.id].university, apps[q.id].program)
    <3> DEFINE now == apps[q.id]
    <3>1. row.university = now.university /\ row.program = now.program /\ now.program # NoProgram
      BY <1>15, <2>3 DEF Apps!Same
    <3>2. ASSUME NEW i \in 1..MaxRows \ {q.id}, Apps!Same(apps[i], now.university, now.program)
          PROVE  FALSE
      <4>1. i \in Apps!There(apps) /\ q.id \in Apps!There(apps)
        BY <1>1, <1>2, <2>3, <3>2 DEF Apps!There, Apps!Same, Apps!TypeOK
      <4>2. apps[i].program = NoProgram
        BY <3>2, <4>1 DEF AppsInv, Apps!TwinsAreNameless
      <4> QED
        BY <3>1, <3>2, <4>2 DEF Apps!Same
    <3>3. ASSUME NEW v \in Users \ {u}, Flushed(v), Apps!Same(RowOf(v), now.university, now.program)
          PROVE  FALSE
      <4>1. /\ RowOf(v) # Apps!Gone /\ RowOf(v).program = now.program
            /\ RowOf(v).university = now.university
        BY <3>3 DEF Apps!Same
      <4>2. \A i \in 1..MaxRows \ {req[v].id} : ~Apps!Same(apps[i], now.university, now.program)
        BY <1>14, <3>1, <3>3, <4>1 DEF Free
      <4>3. ~Apps!Same(now, now.university, now.program)
        BY <1>2, <1>14, <3>3, <4>2
      <4> QED
        BY <2>3, <4>3 DEF Apps!Same
    <3> QED
      BY <3>1, <3>2, <3>3
  <2> QED
    BY <2>1, <2>2, <2>3
<1>16. Free(u)'
  <2> HIDE DEF row
  <2>1. \A v \in Users \ {u} : Flushed(v)' => Flushed(v) /\ RowOf(v)' = RowOf(v)
    BY <1>9
  <2> QED
    BY <1>1, <1>6, <1>7, <1>13, <1>15, <2>1 DEF Free
<1>17. ASSUME NEW v \in Users \ {u}, Flushed(v) PROVE Free(v)'
  <2> HIDE DEF row
  <2>1. Free(v) /\ RowOf(v)' = RowOf(v) /\ req'[v] = req[v]
    BY <1>7, <1>9, <1>14, <1>17
  <2>2. ASSUME RowOf(v) # Apps!Gone, RowOf(v).program # NoProgram,
               Apps!Same(row, RowOf(v).university, RowOf(v).program)
        PROVE  FALSE
    <3>1. row # Apps!Gone /\ row.program # NoProgram /\ Apps!Same(RowOf(v), row.university, row.program)
      BY <2>2 DEF Apps!Same
    <3> QED
      BY <1>15, <1>17, <3>1
  <2>3. \A w \in Users \ {u} : Flushed(w)' => Flushed(w) /\ RowOf(w)' = RowOf(w)
    BY <1>9
  <2> QED
    BY <1>1, <1>13, <1>17, <2>1, <2>2, <2>3 DEF Free
<1>18. RequestsSound'
  <2>1. \A v, w \in Users : v # w /\ Flushed(v)' /\ Flushed(w)' => req'[v].id # req'[w].id
    <3>1. \A v \in Users \ {u} : Flushed(v)' => req'[v].id # q.id
      BY <1>7, <1>9, <1>14
    <3> QED
      BY <1>6, <1>7, <1>9, <3>1 DEF AppsInv, RequestsSound
  <2>2. \A v \in Users : Active(v)' => Began(v)'
    BY <1>9, <1>11, <1>12
  <2>3. \A v \in Users : Flushed(v)' => Free(v)'
    BY <1>9, <1>16, <1>17
  <2> QED
    BY <2>1, <2>2, <2>3 DEF RequestsSound
<1>19. Apps!LeadShowsFurthest' /\ Apps!TwinsAreNameless'
  BY <1>1, ShownStays DEF AppsInv
<1> QED
  BY <1>8, <1>18, <1>19 DEF AppsInv

\* A request is refused or cut off.
LEMMA RollbackSound ==
    ASSUME AppsInv, NEW u \in Users, Apps!Rollback(u)
    PROVE  AppsInv'
<1>1. /\ Apps!TypeOK /\ req' = [req EXCEPT ![u] = Apps!Idle] /\ apps' = apps /\ shown' = shown
      /\ overtaken' = overtaken /\ clock' = clock /\ requests' = requests
  BY DEF AppsInv, Apps!Rollback
<1>2. req'[u] = Apps!Idle /\ \A v \in Users \ {u} : req'[v] = req[v]
  BY <1>1 DEF Apps!TypeOK
<1>3. Apps!TypeOK'
  BY <1>1 DEF Apps!TypeOK
<1>4. /\ ~Active(u)' /\ ~Flushed(u)'
      /\ \A v \in Users \ {u} : /\ (Active(v)' <=> Active(v)) /\ (Flushed(v)' <=> Flushed(v))
                                /\ RowOf(v)' = RowOf(v)
  BY <1>1, <1>2 DEF Active, Flushed, RowOf
<1>5. ASSUME NEW v \in Users, Active(v)' PROVE Began(v)'
  <2>1. v # u /\ Active(v)
    BY <1>4, <1>5
  <2>2. Began(v)
    BY <2>1 DEF AppsInv, RequestsSound
  <2>3. req[v].was = Apps!Gone => \A w \in Users \ {v} : Active(w)' => req'[w].id # req[v].id
    BY <1>2, <1>4, <2>2 DEF Began
  <2> QED
    BY <1>1, <1>2, <2>1, <2>2, <2>3 DEF Began, Apps!Seen
<1>6. ASSUME NEW v \in Users, Flushed(v)' PROVE Free(v)'
  <2>1. v # u /\ Flushed(v)
    BY <1>4, <1>6
  <2>2. Free(v)
    BY <2>1 DEF AppsInv, RequestsSound
  <2>3. \A w \in Users \ {v} : Flushed(w)' => Flushed(w) /\ RowOf(w)' = RowOf(w)
    BY <1>4
  <2> QED
    BY <1>1, <1>2, <1>4, <2>1, <2>2, <2>3 DEF Free
<1>7. RequestsSound'
  <2>1. \A v, w \in Users : v # w /\ Flushed(v)' /\ Flushed(w)' => req'[v].id # req'[w].id
    BY <1>2, <1>4 DEF AppsInv, RequestsSound
  <2> QED
    BY <1>5, <1>6, <2>1 DEF RequestsSound
<1>8. Apps!LeadShowsFurthest' /\ Apps!TwinsAreNameless'
  BY <1>1, ShownStays DEF AppsInv
<1> QED
  BY <1>3, <1>7, <1>8 DEF AppsInv

\* The row a commit leaves: late, if it was added while another request committed.
LEMMA CommitShape ==
    ASSUME AppsInv, NEW u \in Users, Apps!Commit(u)
    PROVE  \E r \in Cells :
               /\ apps' = [apps EXCEPT ![req[u].id] = r]
               /\ r = Apps!Gone <=> RowOf(u) = Apps!Gone
               /\ r # Apps!Gone => /\ r.university = RowOf(u).university
                                   /\ r.program = RowOf(u).program
                                   /\ req[u].was # Apps!Gone => r.late = RowOf(u).late
                                   /\ req[u].was = Apps!Gone => r.late = req[u].disturbed
               /\ ~req[u].disturbed => r = req[u].to
<1> PICK q, row : q = req[u] /\ row = Apps!Merged(q, apps[q.id])
  OBVIOUS
<1> PICK r : r = IF q.was = Apps!Gone /\ row # Apps!Gone THEN [row EXCEPT !.late = q.disturbed] ELSE row
  OBVIOUS
<1>1. /\ Apps!TypeOK /\ Active(u) /\ Began(u) /\ RowOf(u) = row
      /\ apps' = [apps EXCEPT ![q.id] = r]
  BY DEF AppsInv, RequestsSound, Apps!Commit, Active, RowOf
<1>2. /\ q \in Apps!InFlight /\ q.was \in Cells /\ q.to \in Cells /\ apps[q.id] \in Cells
      /\ q.disturbed \in BOOLEAN
  BY <1>1, RequestFields
<1>3. row \in Cells
  BY <1>2, MergedRow
<1>4. ~q.disturbed => row = q.to
  <2>1. q.was # Apps!Gone /\ q.to # Apps!Gone =>
            q.to.university = q.was.university /\ q.to.late = q.was.late
    BY <1>1 DEF Began
  <2>2. Apps!Merged(q, q.was) = q.to
    BY <1>2, <2>1, MergedIntoRead
  <2>3. ~q.disturbed => apps[q.id] = q.was
    BY <1>1 DEF Began
  <2> QED
    BY <2>2, <2>3
<1>5. CASE q.was = Apps!Gone /\ row # Apps!Gone
  <2>1. row \in Apps!Rows /\ r = [row EXCEPT !.late = q.disturbed]
    BY <1>3, <1>5 DEF Cells
  <2>2. /\ r \in Apps!Rows /\ r.university = row.university /\ r.program = row.program
        /\ r.late = q.disturbed
    BY <1>2, <2>1 DEF Apps!Rows
  <2>3. ~q.disturbed => r = row
    <3>1. q.to # Apps!Gone /\ ~q.to.late
      BY <1>1, <1>5 DEF Began
    <3>2. ~q.disturbed => q.disturbed = FALSE /\ row.late = FALSE
      BY <1>2, <1>4, <2>1, <3>1 DEF Apps!Rows
    <3> QED
      BY <2>1, <3>2, ZenonT(60) DEF Apps!Rows
  <2> QED
    BY <1>1, <1>4, <1>5, <2>2, <2>3, GoneIsNoRow DEF Cells
<1>6. CASE ~(q.was = Apps!Gone /\ row # Apps!Gone)
  <2>1. r = row
    BY <1>6
  <2> QED
    BY <1>1, <1>3, <1>4, <1>6, <2>1
<1> QED
  BY <1>5, <1>6

\* A request commits: what it leaves has no twin that the index forbids, and if nothing was
\* committed since it read, the lead shows what it worked out.
LEMMA CommitSound ==
    ASSUME AppsInv, NEW u \in Users, Apps!Commit(u)
    PROVE  AppsInv'
<1> PICK q : q = req[u]
  OBVIOUS
<1>1. /\ Apps!TypeOK /\ Active(u) /\ Flushed(u) /\ Began(u) /\ Free(u)
      /\ shown' = [university |-> IF q.write.university = q.read.university
                                  THEN shown.university ELSE q.write.university,
                   status |-> IF q.write.status = q.read.status
                              THEN shown.status ELSE q.write.status]
      /\ overtaken' = q.disturbed
      /\ req' = [v \in Users |-> IF v = u THEN Apps!Idle
                                 ELSE IF req[v] = Apps!Idle THEN Apps!Idle
                                 ELSE [req[v] EXCEPT !.disturbed = TRUE]]
      /\ clock' = clock /\ requests' = requests
  BY DEF AppsInv, RequestsSound, Apps!Commit, Active, Flushed
<1>2. /\ q \in Apps!InFlight /\ q.id \in 1..MaxRows /\ q.was \in Cells /\ q.to \in Cells
      /\ apps[q.id] \in Cells /\ q.disturbed \in BOOLEAN /\ q.read \in Apps!Shown /\ q.write \in Apps!Shown
      /\ q.at = "flushed"
  BY <1>1, RequestFields DEF Flushed
<1>3. PICK r \in Cells :
          /\ apps' = [apps EXCEPT ![q.id] = r]
          /\ r = Apps!Gone <=> RowOf(u) = Apps!Gone
          /\ r # Apps!Gone => /\ r.university = RowOf(u).university
                              /\ r.program = RowOf(u).program
                              /\ q.was # Apps!Gone => r.late = RowOf(u).late
                              /\ q.was = Apps!Gone => r.late = q.disturbed
          /\ ~q.disturbed => r = q.to
  BY CommitShape
<1>4. /\ apps'[q.id] = r /\ \A i \in 1..MaxRows \ {q.id} : apps'[i] = apps[i]
      /\ apps' \in [1..MaxRows -> Cells]
  BY <1>1, <1>2, <1>3 DEF Apps!TypeOK, Cells
<1>5. ~Active(u)' /\ ~Flushed(u)'
  BY <1>1 DEF Active, Flushed
<1>6. ASSUME NEW v \in Users \ {u}
      PROVE  /\ Active(v)' <=> Active(v)
             /\ Flushed(v)' <=> Flushed(v)
             /\ Active(v) => /\ req'[v] \in Apps!InFlight /\ req'[v].disturbed
                             /\ req'[v].at = req[v].at /\ req'[v].id = req[v].id
                             /\ req'[v].was = req[v].was /\ req'[v].to = req[v].to
             /\ req'[v] \in Apps!InFlight \cup {Apps!Idle}
  <2>1. CASE ~Active(v)
    BY <1>1, <2>1 DEF Active, Flushed
  <2>2. CASE Active(v)
    <3>1. req'[v] = [req[v] EXCEPT !.disturbed = TRUE] /\ req[v] \in Apps!InFlight
      BY <1>1, <2>2, RequestFields DEF Active
    <3>2. PICK x, y : x = req[v] /\ y = req'[v]
      OBVIOUS
    <3>3. /\ y \in Apps!InFlight /\ y.disturbed /\ y.at = x.at /\ y.id = x.id /\ y.was = x.was
          /\ y.to = x.to
      BY <3>1, <3>2 DEF Apps!InFlight
    <3> QED
      BY <2>2, <3>2, <3>3, InFlightIsActive DEF Active, Flushed
  <2> QED
    BY <2>1, <2>2
<1>7. Apps!TypeOK'
  <2>1. shown' \in Apps!Shown
    <3>1. /\ shown.university \in Universities \cup {"none"}
          /\ shown.status \in Apps!Statuses \cup {"none"}
          /\ q.write.university \in Universities \cup {"none"}
          /\ q.write.status \in Apps!Statuses \cup {"none"}
      BY <1>1, <1>2 DEF Apps!TypeOK, Apps!Shown, Apps!Nothing
    <3> QED
      BY <1>1, <3>1 DEF Apps!Shown
  <2>2. req' \in [Users -> Apps!InFlight \cup {Apps!Idle}]
    <3>1. \A v \in Users : req'[v] \in Apps!InFlight \cup {Apps!Idle}
      BY <1>1, <1>6
    <3> QED
      BY <1>1, <3>1
  <2> QED
    BY <1>1, <1>2, <1>4, <2>1, <2>2 DEF Apps!TypeOK, Cells
<1>8. ASSUME NEW v \in Users \ {u}, Flushed(v)
      PROVE  /\ req[v].id \in 1..MaxRows \ {q.id} /\ RowOf(v)' = RowOf(v)
             /\ Active(v) /\ Began(v) /\ Free(v)
  <2>1. Active(v) /\ Began(v) /\ Free(v)
    BY <1>8 DEF AppsInv, RequestsSound, Flushed, Active
  <2>2. req[v].id \in 1..MaxRows \ {q.id}
    BY <1>1, <1>8, <2>1, RequestFields DEF AppsInv, RequestsSound
  <2>3. apps'[req[v].id] = apps[req[v].id]
    BY <1>4, <2>2
  <2>4. Apps!Merged(req'[v], apps[req[v].id]) = Apps!Merged(req[v], apps[req[v].id])
    BY <1>6, <2>1 DEF Apps!Merged
  <2> QED
    BY <1>6, <2>1, <2>2, <2>3, <2>4 DEF RowOf
<1>9. ASSUME NEW v \in Users \ {u}, Active(v)
      PROVE  Began(v)'
  <2>1. Began(v) /\ req[v].id \in 1..MaxRows
    BY <1>1, <1>9, RequestFields DEF AppsInv, RequestsSound
  <2>2. CASE req[v].id # q.id
    <3>1. apps'[req[v].id] = apps[req[v].id]
      BY <1>4, <2>1, <2>2
    <3>2. req[v].was = Apps!Gone => \A w \in Users \ {v} : Active(w)' => req'[w].id # req[v].id
      BY <1>5, <1>6, <2>1 DEF Began
    <3> QED
      BY <1>6, <1>9, <2>1, <3>1, <3>2 DEF Began
  <2>3. CASE req[v].id = q.id
    <3>1. q.was # Apps!Gone /\ req[v].was # Apps!Gone /\ ~Flushed(v)
      BY <1>1, <1>8, <1>9, <2>1, <2>3 DEF Began
    <3>2. req[v].at # "flushed"
      BY <1>9, <3>1 DEF Flushed, Active
    <3>3. r # Apps!Gone => apps[q.id] # Apps!Gone /\ r.university = apps[q.id].university
      <4>1. r # Apps!Gone => q.to # Apps!Gone /\ apps[q.id] # Apps!Gone
        BY <1>1, <1>2, <1>3, <3>1, MergedRow DEF Began, RowOf
      <4> QED
        BY <1>2, <1>3, <3>1, <4>1, MergedRow DEF RowOf
    <3>4. r # Apps!Gone => r.university = req[v].was.university
      BY <2>1, <2>3, <3>1, <3>3 DEF Began
    <3> QED
      BY <1>4, <1>6, <1>9, <2>1, <2>3, <3>1, <3>2, <3>4 DEF Began
  <2> QED
    BY <2>2, <2>3
<1>10. ASSUME NEW v \in Users, Flushed(v)'
       PROVE  Free(v)'
  <2>1. v \in Users \ {u} /\ Flushed(v)
    BY <1>5, <1>6, <1>10
  <2>2. /\ req[v].id \in 1..MaxRows \ {q.id} /\ RowOf(v)' = RowOf(v) /\ Free(v)
        /\ req'[v].id = req[v].id
    BY <1>6, <1>8, <2>1
  <2> DEFINE n == RowOf(v).university
             p == RowOf(v).program
  <2>3. ASSUME RowOf(v) # Apps!Gone, p # NoProgram
        PROVE  /\ \A i \in 1..MaxRows \ {req[v].id} : ~Apps!Same(apps'[i], n, p)
               /\ \A w \in Users \ {v} : Flushed(w)' => ~Apps!Same(RowOf(w)', n, p)
    <3>1. /\ \A i \in 1..MaxRows \ {req[v].id} : ~Apps!Same(apps[i], n, p)
          /\ \A w \in Users \ {v} : Flushed(w) => ~Apps!Same(RowOf(w), n, p)
      BY <2>2, <2>3 DEF Free
    <3>2. ~Apps!Same(r, n, p)
      BY <1>1, <1>3, <2>1, <3>1 DEF Apps!Same
    <3>3. \A w \in Users : Flushed(w)' => Flushed(w) /\ RowOf(w)' = RowOf(w)
      BY <1>5, <1>6, <1>8
    <3> QED
      BY <1>4, <3>1, <3>2, <3>3
  <2> QED
    BY <2>2, <2>3 DEF Free
<1>11. RequestsSound'
  <2>1. \A v, w \in Users : v # w /\ Flushed(v)' /\ Flushed(w)' => req'[v].id # req'[w].id
    BY <1>5, <1>6, <1>8 DEF AppsInv, RequestsSound
  <2>2. \A v \in Users : Active(v)' => Began(v)'
    BY <1>5, <1>6, <1>9
  <2> QED
    BY <1>10, <2>1, <2>2 DEF RequestsSound
<1>12. Apps!LeadShowsFurthest'
  <2> SUFFICES ASSUME ~q.disturbed
               PROVE  /\ shown' = Apps!Best(apps')
                      /\ Apps!There(apps') # {} =>
                                  \E i \in Apps!OnCard(apps') :
                                      /\ \A k \in Apps!OnCard(apps') \ {i} : Apps!Ahead(apps', i, k)
                                      /\ Apps!Priority[apps'[i].status] = Apps!Priority[shown'.status]
    BY <1>1 DEF Apps!LeadShowsFurthest
  <2>1. apps' = Apps!Seen(q.id, q.to) /\ shown = q.read /\ q.write = Apps!Best(Apps!Seen(q.id, q.to))
    BY <1>1, <1>2, <1>3 DEF Apps!Seen, Began
  <2>2. shown' = q.write
    <3>1. shown'.university = q.write.university /\ shown'.status = q.write.status
      BY <1>1, <2>1
    <3> QED
      BY <1>1, <1>2, <3>1 DEF Apps!Shown, Apps!Nothing
  <2>3. PICK rows : rows = apps' /\ rows \in Table
    BY <1>4 DEF Table, Cells
  <2> QED
    BY <2>1, <2>2, <2>3, FirstOnCard
<1>13. ASSUME NEW k \in 1..MaxRows \ {q.id}, apps[k] # Apps!Gone, r # Apps!Gone,
              Apps!Same(r, apps[k].university, apps[k].program)
       PROVE  r.program = NoProgram /\ (r.late \/ apps[k].late)
  <2>1. RowOf(u) # Apps!Gone /\ RowOf(u).university = r.university /\ RowOf(u).program = r.program
    BY <1>3, <1>13
  <2>2. Apps!Same(apps[k], r.university, r.program)
    BY <1>13 DEF Apps!Same
  <2>3. r.program = NoProgram
    BY <1>1, <2>1, <2>2 DEF Free
  <2>4. CASE q.was = Apps!Gone
    <3>1. ~q.disturbed => r = q.to
      BY <1>3
    <3>2. ~q.disturbed => ~Apps!Same(apps[k], q.to.university, q.to.program)
      BY <1>1, <2>4 DEF Began
    <3>3. q.disturbed
      BY <2>2, <3>1, <3>2
    <3> QED
      BY <1>3, <1>13, <2>3, <2>4, <3>3
  <2>5. CASE q.was # Apps!Gone
    <3>1. q.to # Apps!Gone /\ apps[q.id] # Apps!Gone
      BY <1>1, <1>2, <2>1, <2>5, MergedRow DEF Began, RowOf
    <3>2. /\ r.university = apps[q.id].university /\ r.late = apps[q.id].late
          /\ r.program = IF q.to.program = q.was.program THEN apps[q.id].program ELSE q.to.program
      BY <1>2, <1>3, <1>13, <2>5, <3>1, MergedRow DEF RowOf
    <3>3. q.to.program \in Programs \cup {q.was.program}
      BY <1>1, <2>5, <3>1 DEF Began
    <3>4. r.program = apps[q.id].program
      BY <2>3, <3>2, <3>3, AppsConstants DEF Apps!ConstantsAssumption
    <3>5. /\ q.id \in Apps!There(apps) /\ k \in Apps!There(apps)
          /\ Apps!Same(apps[q.id], apps[k].university, apps[k].program)
      BY <1>1, <1>2, <1>13, <3>1, <3>2, <3>4 DEF Apps!There, Apps!TypeOK, Apps!Same
    <3>6. apps[q.id].late \/ apps[k].late
      BY <1>13, <3>5 DEF AppsInv, Apps!TwinsAreNameless
    <3> QED
      BY <2>3, <3>2, <3>6
  <2> QED
    BY <2>4, <2>5
<1>14. Apps!TwinsAreNameless'
  <2> SUFFICES ASSUME NEW i \in Apps!There(apps'), NEW k \in Apps!There(apps'), i # k,
                      Apps!Same(apps'[i], apps'[k].university, apps'[k].program)
               PROVE  apps'[i].program = NoProgram /\ (apps'[i].late \/ apps'[k].late)
    BY DEF Apps!TwinsAreNameless
  <2>1. i \in 1..MaxRows /\ k \in 1..MaxRows /\ apps'[i] # Apps!Gone /\ apps'[k] # Apps!Gone
    BY <1>4 DEF Apps!There
  <2>2. CASE i # q.id /\ k # q.id
    <3>1. apps'[i] = apps[i] /\ apps'[k] = apps[k]
      BY <1>4, <2>1, <2>2
    <3>2. i \in Apps!There(apps) /\ k \in Apps!There(apps)
      BY <1>1, <2>1, <3>1 DEF Apps!There, Apps!TypeOK
    <3> QED
      BY <3>1, <3>2 DEF AppsInv, Apps!TwinsAreNameless
  <2>3. CASE i = q.id
    BY <1>4, <1>13, <2>1, <2>3
  <2>4. CASE k = q.id
    <3>1. apps'[k] = r /\ apps'[i] = apps[i] /\ i \in 1..MaxRows \ {q.id}
      BY <1>4, <2>1, <2>4
    <3>2. Apps!Same(r, apps[i].university, apps[i].program) /\ r.program = apps[i].program
      BY <2>1, <3>1 DEF Apps!Same
    <3> QED
      BY <1>13, <2>1, <3>1, <3>2
  <2> QED
    BY <2>2, <2>3, <2>4
<1> QED
  BY <1>7, <1>11, <1>12, <1>14 DEF AppsInv

-----------------------------------------------------------------------------
LEMMA AppsBegin == Apps!Init => AppsInv
<1> SUFFICES ASSUME Apps!Init PROVE AppsInv
  OBVIOUS
<1>1. Apps!There(apps) = {} /\ \A u \in Users : ~Active(u) /\ ~Flushed(u)
  BY DEF Apps!Init, Apps!There, Active, Flushed
<1>2. Apps!TypeOK
  <2>1. /\ apps \in [1..MaxRows -> Apps!Rows \cup {Apps!Gone}]
        /\ req \in [Users -> Apps!InFlight \cup {Apps!Idle}]
    BY DEF Apps!Init
  <2>2. shown \in Apps!Shown /\ overtaken \in BOOLEAN
    BY DEF Apps!Init, Apps!Shown
  <2>3. clock \in Nat /\ requests \in 0..MaxRequests
    BY AppsConstants DEF Apps!Init, Apps!ConstantsAssumption
  <2> QED
    BY <2>1, <2>2, <2>3 DEF Apps!TypeOK
<1>3. shown = Apps!Best(apps)
  BY <1>1, NothingIsBest DEF Apps!Init
<1> QED
  BY <1>1, <1>2, <1>3 DEF AppsInv, RequestsSound, Apps!LeadShowsFurthest, Apps!TwinsAreNameless

LEMMA AppsStep == AppsInv /\ [Apps!Next]_(Apps!vars) => AppsInv'
<1> SUFFICES ASSUME AppsInv, [Apps!Next]_(Apps!vars) PROVE AppsInv'
  OBVIOUS
<1>1. CASE Apps!Next
  BY <1>1, AddSound, UpdateSound, DeleteSound, FlushSound, CommitSound, RollbackSound DEF Apps!Next
<1>2. CASE UNCHANGED Apps!vars
  <2>1. /\ apps' = apps /\ shown' = shown /\ req' = req /\ overtaken' = overtaken /\ clock' = clock
        /\ requests' = requests
    BY <1>2 DEF Apps!vars
  <2>2. Apps!LeadShowsFurthest' /\ Apps!TwinsAreNameless'
    BY <2>1, ShownStays DEF AppsInv
  <2>3. Apps!TypeOK'
    BY <2>1 DEF AppsInv, Apps!TypeOK
  <2>4. \A u \in Users : /\ (Active(u)' <=> Active(u)) /\ (Flushed(u)' <=> Flushed(u))
                         /\ RowOf(u)' = RowOf(u)
    BY <2>1 DEF Active, Flushed, RowOf
  <2>5. \A u \in Users : Began(u) => Began(u)'
    BY <2>1, <2>4 DEF Began, Apps!Seen
  <2>6. \A u \in Users : Free(u) => Free(u)'
    BY <2>1, <2>4 DEF Free
  <2>7. RequestsSound'
    BY <2>1, <2>4, <2>5, <2>6 DEF AppsInv, RequestsSound
  <2> QED
    BY <2>2, <2>3, <2>7 DEF AppsInv
<1> QED
  BY <1>1, <1>2

THEOREM AppsInvariant == Apps!Spec => []AppsInv
  BY AppsBegin, AppsStep, PTL DEF Apps!Spec

\* The university and the status a lead shows are those of its furthest application, unless
\* the last commit did not see the one before it.
THEOREM FurthestAlwaysShown == Apps!Spec => []Apps!LeadShowsFurthest
<1>1. AppsInv => Apps!LeadShowsFurthest
  BY DEF AppsInv
<1> QED
  BY <1>1, AppsInvariant, PTL

\* Only applications without a program are there twice, and only if two requests met.
THEOREM NamelessTwinsOnly == Apps!Spec => []Apps!TwinsAreNameless
<1>1. AppsInv => Apps!TwinsAreNameless
  BY DEF AppsInv
<1> QED
  BY <1>1, AppsInvariant, PTL

-----------------------------------------------------------------------------
(* The shares of a file, their conversations, the list of lenders.         *)

\* The types hold initially.
LEMMA SharesTypesInit == Shares!Init => Shares!TypeOK
<1> SUFFICES ASSUME Shares!Init PROVE Shares!TypeOK
  OBVIOUS
<1> USE DEF Shares!Init
<1>1. Shares!ThreadTypes
  BY DEF Shares!ThreadTypes, Shares!Row, Shares!Absent, Shares!NoTime
<1>2. Shares!ListTypes
  <2>1. Shares!NotCached \in Shares!Entry
    BY SharesConstants DEF Shares!ConstantsAssumption, Shares!NotCached, Shares!Entry
  <2>2. known \in [Processes -> [Shares!Kinds -> Shares!Entry]]
    BY <2>1
  <2> QED
    BY <2>2 DEF Shares!ListTypes
<1>3. Shares!BoundTypes
  BY SharesConstants DEF Shares!ConstantsAssumption, Shares!BoundTypes
<1> QED
  BY <1>1, <1>2, <1>3 DEF Shares!TypeOK

\* A step of the bot on the shares: the types of files, conversations and requests.
LEMMA ThreadTypesStep ==
    ASSUME Shares!TypeOK, Shares!Next
    PROVE  Shares!ThreadTypes'
<1> USE DEF Shares!threads, Shares!list, Shares!caches
<1>t. Shares!ThreadTypes /\ time \in Nat
  BY SharesConstants DEF Shares!TypeOK, Shares!BoundTypes, Shares!ConstantsAssumption
<1>s. Shares!Resting \in {Shares!Resting} /\ Shares!Resting.at = "rest"
  BY DEF Shares!Resting
<1>1. CASE UNCHANGED <<file, lines, stored, request>>
  BY <1>1, <1>t DEF Shares!ThreadTypes
<1>2. ASSUME NEW r \in Requests, NEW p \in Processes, NEW f \in Shares!Files,
             NEW when \in Times \cup {Shares!NoTime}, NEW by \in Users \cup {Nobody},
             Shares!ShareRead(r, p, f, when, by)
      PROVE  Shares!ThreadTypes'
  <2>1. when \in Nat
    BY <1>2, SharesConstants DEF Shares!ConstantsAssumption, Shares!NoTime
  <2>2. [at |-> "share", file |-> f, seen |-> file[f], shared |-> when, by |-> by] \in Shares!Share
    BY <2>1, <1>t DEF Shares!ThreadTypes, Shares!Share
  <2> QED
    BY <2>2, <1>2, <1>t DEF Shares!ShareRead, Shares!ThreadTypes
<1>3. ASSUME NEW r \in Requests, Shares!ShareWrite(r)
      PROVE  Shares!ThreadTypes'
  <2> DEFINE q == request[r]
             f == q.file
  <2>1. q \in Shares!Share
    BY <1>3, <1>t, <1>s DEF Shares!ShareWrite, Shares!ThreadTypes, Shares!Message
  <2>2. /\ f \in Shares!Files /\ q.seen \in Shares!Row /\ q.shared \in Nat
        /\ q.by \in Users \cup {Nobody}
    BY <2>1 DEF Shares!Share
  <2>3. file[f] \in Shares!Row
    BY <1>t, <2>2 DEF Shares!ThreadTypes
  <2> HIDE DEF q, f
  <2>4. Shares!Filled(file[f], q) \in Shares!Row
    BY <2>2, <2>3 DEF Shares!Filled, Shares!Row
  <2>5. [there |-> TRUE, by |-> q.by,
         at |-> IF q.shared # Shares!NoTime THEN q.shared ELSE time + 1] \in Shares!Row
    BY <1>t, <2>2 DEF Shares!Row
  <2>6. file' \in [Shares!Files -> Shares!Row]
    BY <1>3, <1>t, <2>2, <2>4, <2>5 DEF Shares!ShareWrite, Shares!ThreadTypes, q, f
  <2>7. request' \in [Requests -> Shares!Share \cup Shares!Message \cup {Shares!Resting}]
    BY <1>3, <1>t DEF Shares!ShareWrite, Shares!ThreadTypes
  <2> QED
    BY <1>3, <1>t, <2>6, <2>7 DEF Shares!ShareWrite, Shares!ThreadTypes
<1>4. ASSUME NEW p \in Processes, NEW f \in Shares!Files, Shares!AddFile(p, f)
      PROVE  Shares!ThreadTypes'
  <2>1. [Shares!Absent EXCEPT !.there = TRUE] \in Shares!Row
    BY DEF Shares!Absent, Shares!Row, Shares!NoTime
  <2> QED
    BY <1>4, <1>t, <2>1 DEF Shares!AddFile, Shares!ThreadTypes
<1>5. ASSUME NEW f \in Shares!Files, Shares!DeleteFile(f)
      PROVE  Shares!ThreadTypes'
  <2>1. Shares!Absent \in Shares!Row
    BY DEF Shares!Absent, Shares!Row, Shares!NoTime
  <2> QED
    BY <1>5, <1>t, <2>1 DEF Shares!DeleteFile, Shares!ThreadTypes
<1>6. ASSUME NEW r \in Requests, NEW f \in Shares!Files, NEW id \in MessageIds \cup {NoId},
             Shares!MessageRead(r, f, id)
      PROVE  Shares!ThreadTypes'
  <2>1. [at |-> "message", file |-> f, id |-> id] \in Shares!Message
    BY DEF Shares!Message
  <2>2. CASE Shares!Dupes(id) # {}
    <3>1. stored' \subseteq [id : MessageIds, file : Shares!Files]
      BY <1>6, <1>t, <2>2 DEF Shares!MessageRead, Shares!Answered, Shares!ThreadTypes
    <3> QED
      BY <1>6, <1>t, <2>2, <3>1 DEF Shares!MessageRead, Shares!ThreadTypes
  <2>3. CASE Shares!Dupes(id) = {}
    BY <1>6, <1>t, <2>1, <2>3 DEF Shares!MessageRead, Shares!ThreadTypes
  <2> QED
    BY <2>2, <2>3
<1>7. ASSUME NEW r \in Requests, Shares!MessageWrite(r)
      PROVE  Shares!ThreadTypes'
  <2> DEFINE q == request[r]
  <2>1. q \in Shares!Message
    BY <1>7, <1>t, <1>s DEF Shares!MessageWrite, Shares!ThreadTypes, Shares!Share
  <2>2. q.file \in Shares!Files /\ q.id \in MessageIds \cup {NoId}
    BY <2>1 DEF Shares!Message
  <2>3. stored' = stored \/ Shares!Answered(q.id, q.file)
    BY <1>7 DEF Shares!MessageWrite
  <2>4. \/ lines' = lines
        \/ lines' = lines \cup {[id |-> q.id, file |-> q.file, no |-> Shares!Cardinality(lines)]}
    BY <1>7 DEF Shares!MessageWrite
  <2>5. /\ file' = file
        /\ request' = [request EXCEPT ![r] = Shares!Resting]
    BY <1>7 DEF Shares!MessageWrite
  <2> HIDE DEF q
  <2>6. stored' \subseteq [id : MessageIds, file : Shares!Files]
    BY <1>t, <2>2, <2>3 DEF Shares!Answered, Shares!ThreadTypes
  <2>7. \A m \in lines' : m.id \in MessageIds \cup {NoId} /\ m.file \in Shares!Files
    BY <1>t, <2>2, <2>4 DEF Shares!ThreadTypes
  <2> QED
    BY <1>t, <2>5, <2>6, <2>7 DEF Shares!ThreadTypes
<1>8. ASSUME NEW p \in Processes, Shares!ListStep(p)
      PROVE  UNCHANGED <<file, lines, stored, request>>
  BY <1>8 DEF Shares!ListStep, Shares!LoadNames, Shares!StoreNames, Shares!AddName, Shares!SetActive,
      Shares!Rename, Shares!ListChanged
<1>9. ASSUME NEW id \in MessageIds PROVE About[id] \in Shares!Files
  BY <1>9, SharesConstants DEF Shares!ConstantsAssumption, Shares!Files
<1>10. ASSUME NEW r \in Requests, Shares!BotStep(r) PROVE Shares!ThreadTypes'
  BY <1>2, <1>3, <1>6, <1>7, <1>9, <1>10 DEF Shares!BotStep
<1>11. ASSUME Shares!Tick PROVE UNCHANGED <<file, lines, stored, request>>
  BY <1>11 DEF Shares!Tick
<1> QED
  BY <1>1, <1>4, <1>5, <1>8, <1>10, <1>11 DEF Shares!Next

\* A change of the list is one of its three operations, in some process.
LEMMA ListChanges ==
    ASSUME Shares!TypeOK, NEW p \in Processes, Shares!ListStep(p)
    PROVE  \/ \E kind \in Shares!Kinds : Shares!LoadNames(p, kind)
           \/ Shares!StoreNames(p)
           \/ \E new \in [Lenders -> {"none", "active", "inactive"}] : Shares!ListChanged(p, new)
<1>t. listed \in [Lenders -> {"none", "active", "inactive"}]
  BY DEF Shares!TypeOK, Shares!ListTypes
<1>1. ASSUME NEW n \in Lenders, Shares!AddName(p, n)
      PROVE  \E new \in [Lenders -> {"none", "active", "inactive"}] : Shares!ListChanged(p, new)
  <2>1. [listed EXCEPT ![n] = "active"] \in [Lenders -> {"none", "active", "inactive"}]
    BY <1>t
  <2> QED
    BY <1>1, <2>1 DEF Shares!AddName
<1>2. ASSUME NEW n \in Lenders, Shares!SetActive(p, n)
      PROVE  \E new \in [Lenders -> {"none", "active", "inactive"}] : Shares!ListChanged(p, new)
  <2>1. PICK state \in {"active", "inactive"} : Shares!ListChanged(p, [listed EXCEPT ![n] = state])
    BY <1>2 DEF Shares!SetActive
  <2>2. [listed EXCEPT ![n] = state] \in [Lenders -> {"none", "active", "inactive"}]
    BY <1>t
  <2> QED
    BY <2>1, <2>2
<1>3. ASSUME NEW n \in Lenders, NEW m \in Lenders, Shares!Rename(p, n, m)
      PROVE  \E new \in [Lenders -> {"none", "active", "inactive"}] : Shares!ListChanged(p, new)
  <2>1. [listed EXCEPT ![n] = "none", ![m] = listed[n]]
          \in [Lenders -> {"none", "active", "inactive"}]
    BY <1>t
  <2> QED
    BY <1>3, <2>1 DEF Shares!Rename
<1> QED
  BY <1>1, <1>2, <1>3 DEF Shares!ListStep

\* Only a step of the list touches it and its caches.
LEMMA ListsRest ==
    ASSUME Shares!Next, ~\E p \in Processes : Shares!ListStep(p)
    PROVE  /\ UNCHANGED <<listed, changed, known, loading>>
           /\ time' = time \/ (time < MaxTime /\ time' = time + 1)
<1> USE DEF Shares!threads, Shares!list, Shares!caches
<1>1. ASSUME NEW p \in Processes, NEW f \in Shares!Files, Shares!AddFile(p, f)
      PROVE  UNCHANGED <<listed, changed, known, loading, time>>
  BY <1>1 DEF Shares!AddFile
<1>2. ASSUME NEW f \in Shares!Files, Shares!DeleteFile(f)
      PROVE  UNCHANGED <<listed, changed, known, loading, time>>
  BY <1>2 DEF Shares!DeleteFile
<1>3. ASSUME NEW r \in Requests, Shares!BotStep(r)
      PROVE  UNCHANGED <<listed, changed, known, loading, time>>
  BY <1>3 DEF Shares!BotStep, Shares!ShareRead, Shares!ShareWrite, Shares!MessageRead,
      Shares!MessageWrite
<1> QED
  BY <1>1, <1>2, <1>3 DEF Shares!Next, Shares!Tick

\* A step on the list or its caches: their types.
LEMMA ListTypesStep ==
    ASSUME Shares!TypeOK, Shares!Next
    PROVE  Shares!ListTypes'
<1> USE DEF Shares!threads, Shares!list, Shares!caches
<1>t. Shares!ListTypes /\ time \in 0..MaxTime /\ MaxTime \in Nat /\ TTL \in Nat
  BY SharesConstants DEF Shares!TypeOK, Shares!BoundTypes, Shares!ConstantsAssumption
<1>n. Shares!NotCached \in Shares!Entry
  BY <1>t DEF Shares!NotCached, Shares!Entry
<1>1. CASE ~\E p \in Processes : Shares!ListStep(p)
  BY <1>1, <1>t, ListsRest DEF Shares!ListTypes
<1>2. ASSUME NEW p \in Processes, NEW kind \in Shares!Kinds, Shares!LoadNames(p, kind)
      PROVE  Shares!ListTypes'
  <2>1. [at |-> "loaded", kind |-> kind, names |-> Shares!Listed(kind), overtaken |-> FALSE]
          \in Shares!Loaded
    BY DEF Shares!Loaded, Shares!Listed
  <2> QED
    BY <1>2, <1>t, <2>1 DEF Shares!LoadNames, Shares!ListTypes
<1>3. ASSUME NEW p \in Processes, Shares!StoreNames(p)
      PROVE  Shares!ListTypes'
  <2> DEFINE l == loading[p]
             entry == [names |-> l.names, until |-> time + TTL, overtaken |-> l.overtaken]
  <2>1. l \in Shares!Loaded
    BY <1>3, <1>t DEF Shares!StoreNames, Shares!ListTypes
  <2>2. entry \in Shares!Entry
    BY <1>t, <2>1 DEF Shares!Loaded, Shares!Entry
  <2>3. l.kind \in Shares!Kinds
    BY <2>1 DEF Shares!Loaded
  <2>4. known' = known \/ known' = [known EXCEPT ![p][l.kind] = entry]
    BY <1>3 DEF Shares!StoreNames
  <2>5. /\ loading' = [loading EXCEPT ![p] = Shares!Resting]
        /\ UNCHANGED <<listed, changed>>
    BY <1>3 DEF Shares!StoreNames
  <2>6. known \in [Processes -> [Shares!Kinds -> Shares!Entry]]
    BY <1>t DEF Shares!ListTypes
  <2> HIDE DEF l, entry
  <2>7. [known[p] EXCEPT ![l.kind] = entry] \in [Shares!Kinds -> Shares!Entry]
    BY <2>2, <2>3, <2>6
  <2>8. known' \in [Processes -> [Shares!Kinds -> Shares!Entry]]
    BY <2>4, <2>6, <2>7
  <2> QED
    BY <1>t, <2>5, <2>8 DEF Shares!ListTypes
<1>4. ASSUME NEW p \in Processes, NEW new \in [Lenders -> {"none", "active", "inactive"}],
             Shares!ListChanged(p, new)
      PROVE  Shares!ListTypes'
  <2>1. listed' = new
    BY <1>4 DEF Shares!ListChanged
  <2>2. changed' \in [Lenders -> [at : Nat, by : Processes \cup {Nobody}]]
    BY <1>4, <1>t DEF Shares!ListChanged, Shares!ListTypes
  <2>3. [k \in Shares!Kinds |-> Shares!NotCached] \in [Shares!Kinds -> Shares!Entry]
    BY <1>n
  <2>4. known' \in [Processes -> [Shares!Kinds -> Shares!Entry]]
    BY <1>4, <1>t, <2>3 DEF Shares!ListChanged, Shares!Invalidated, Shares!ListTypes
  <2>5. ASSUME NEW q \in Processes, loading[q] # Shares!Resting
        PROVE  [loading[q] EXCEPT !.overtaken = TRUE] \in Shares!Loaded
    <3>1. loading[q] \in Shares!Loaded
      BY <1>t, <2>5 DEF Shares!ListTypes
    <3> QED
      BY <3>1 DEF Shares!Loaded
  <2>6. loading' \in [Processes -> Shares!Loaded \cup {Shares!Resting}]
    BY <1>4, <2>5 DEF Shares!ListChanged, Shares!Invalidated
  <2> QED
    BY <1>4, <2>1, <2>2, <2>4, <2>6 DEF Shares!ListTypes
<1> QED
  BY <1>1, <1>2, <1>3, <1>4, ListChanges

\* The types of a process's bounds.
LEMMA ShareBoundsStep ==
    ASSUME Shares!TypeOK, Shares!Next
    PROVE  Shares!BoundTypes'
<1> USE DEF Shares!threads, Shares!list, Shares!caches
<1>t. /\ Shares!BoundTypes
      /\ MaxTime \in Nat /\ MaxWrites \in Nat /\ MaxLoads \in Nat
  BY SharesConstants DEF Shares!TypeOK, Shares!ConstantsAssumption
<1>1. ASSUME NEW p \in Processes, Shares!ListStep(p)
      PROVE  Shares!BoundTypes'
  <2>1. ASSUME NEW kind \in Shares!Kinds, Shares!LoadNames(p, kind) PROVE Shares!BoundTypes'
    BY <1>t, <2>1 DEF Shares!LoadNames, Shares!BoundTypes
  <2>2. ASSUME Shares!StoreNames(p) PROVE Shares!BoundTypes'
    BY <1>t, <2>2 DEF Shares!StoreNames, Shares!BoundTypes
  <2>3. ASSUME NEW new, Shares!ListChanged(p, new) PROVE Shares!BoundTypes'
    BY <1>t, <2>3 DEF Shares!ListChanged, Shares!Write, Shares!BoundTypes
  <2> QED
    BY <1>1, <2>1, <2>2, <2>3, ListChanges
<1>2. ASSUME NEW p \in Processes, NEW f \in Shares!Files, Shares!AddFile(p, f)
      PROVE  Shares!BoundTypes'
  BY <1>2, <1>t DEF Shares!AddFile, Shares!Write, Shares!BoundTypes
<1>3. ASSUME NEW f \in Shares!Files, Shares!DeleteFile(f)
      PROVE  Shares!BoundTypes'
  BY <1>3, <1>t DEF Shares!DeleteFile, Shares!Write, Shares!BoundTypes
<1>4. ASSUME NEW r \in Requests, Shares!BotStep(r)
      PROVE  time' = time /\ loads' = loads
             /\ (writes' = writes \/ (writes < MaxWrites /\ writes' = writes + 1))
  BY <1>4 DEF Shares!BotStep, Shares!ShareRead, Shares!ShareWrite, Shares!MessageRead,
      Shares!MessageWrite, Shares!Write
<1>5. ASSUME NEW r \in Requests, Shares!BotStep(r) PROVE Shares!BoundTypes'
  BY <1>t, <1>4, <1>5 DEF Shares!BoundTypes
<1>6. ASSUME Shares!Tick PROVE Shares!BoundTypes'
  BY <1>6, <1>t DEF Shares!Tick, Shares!BoundTypes
<1> QED
  BY <1>1, <1>2, <1>3, <1>5, <1>6 DEF Shares!Next

\* Every step keeps the types.
LEMMA SharesTypesStep == Shares!TypeOK /\ [Shares!Next]_(Shares!vars) => Shares!TypeOK'
<1>1. CASE UNCHANGED Shares!vars
  BY <1>1 DEF Shares!vars, Shares!threads, Shares!list, Shares!caches, Shares!TypeOK,
      Shares!ThreadTypes, Shares!ListTypes, Shares!BoundTypes
<1>2. CASE Shares!Next
  BY <1>2, ThreadTypesStep, ListTypesStep, ShareBoundsStep DEF Shares!TypeOK
<1> QED
  BY <1>1, <1>2

\* A message with an id is in the conversation of the file it is about, wherever it is:
\* in the table, in a request's hands, or in an answer to the bot.
ThreadsInv ==
    /\ \A m, k \in lines : (m.id = k.id /\ m.id # NoId) => m = k
    /\ \A m \in lines : m.id # NoId => m.file = About[m.id]
    /\ \A r \in Requests :
          (request[r].at = "message" /\ request[r].id # NoId)
            => request[r].file = About[request[r].id]
    /\ \A s \in stored : \E m \in lines : m.id = s.id /\ m.file = s.file

\* What is answered for an id is the file of the line that has it.
LEMMA AnsweredRight ==
    ASSUME ThreadsInv, NEW id, NEW f, id # NoId => f = About[id],
           Shares!Dupes(id) # {}, Shares!Answered(id, f)
    PROVE  \A s \in stored' : \E m \in lines : m.id = s.id /\ m.file = s.file
<1>1. PICK m \in lines : m.id = id /\ id # NoId
  BY DEF Shares!Dupes
<1>2. m.file = f
  BY <1>1 DEF ThreadsInv
<1>3. \A s \in stored' : s \in stored \/ s = [id |-> id, file |-> f]
  BY DEF Shares!Answered
<1> QED
  BY <1>1, <1>2, <1>3 DEF ThreadsInv

\* Every step of the shares keeps it.
LEMMA ThreadsStep ==
    ASSUME Shares!TypeOK, ThreadsInv, [Shares!Next]_(Shares!vars)
    PROVE  ThreadsInv'
<1> USE DEF Shares!threads, Shares!list, Shares!caches
<1>t. Shares!ThreadTypes
  BY DEF Shares!TypeOK
<1>s. Shares!Resting.at = "rest"
  BY DEF Shares!Resting
<1>1. CASE UNCHANGED <<lines, stored, request>>
  BY <1>1 DEF ThreadsInv
<1>2. ASSUME NEW r \in Requests, NEW other, request' = [request EXCEPT ![r] = other],
             other.at = "message" /\ other.id # NoId => other.file = About[other.id]
      PROVE  \A q \in Requests :
                (request'[q].at = "message" /\ request'[q].id # NoId)
                  => request'[q].file = About[request'[q].id]
  <2>1. \A q \in Requests : request'[q] = IF q = r THEN other ELSE request[q]
    BY <1>2, <1>t DEF Shares!ThreadTypes
  <2> QED
    BY <1>2, <2>1 DEF ThreadsInv
<1>3. ASSUME NEW r \in Requests, NEW p \in Processes, NEW f \in Shares!Files, NEW when, NEW by,
             Shares!ShareRead(r, p, f, when, by)
      PROVE  ThreadsInv'
  <2> DEFINE other == [at |-> "share", file |-> f, seen |-> file[f], shared |-> when, by |-> by]
  <2>1. other.at # "message" /\ request' = [request EXCEPT ![r] = other]
    BY <1>3 DEF Shares!ShareRead
  <2>2. UNCHANGED <<lines, stored>>
    BY <1>3 DEF Shares!ShareRead
  <2> HIDE DEF other
  <2> QED
    BY <1>2, <2>1, <2>2 DEF ThreadsInv
<1>4. ASSUME NEW r \in Requests, Shares!ShareWrite(r)
      PROVE  ThreadsInv'
  <2>1. request' = [request EXCEPT ![r] = Shares!Resting] /\ UNCHANGED <<lines, stored>>
    BY <1>4 DEF Shares!ShareWrite
  <2> QED
    BY <1>2, <1>s, <2>1 DEF ThreadsInv
<1>5. ASSUME NEW f \in Shares!Files, Shares!DeleteFile(f)
      PROVE  ThreadsInv'
  BY <1>5 DEF Shares!DeleteFile, ThreadsInv
<1>6. ASSUME NEW r \in Requests, NEW f \in Shares!Files, NEW id, id # NoId => f = About[id],
             Shares!MessageRead(r, f, id)
      PROVE  ThreadsInv'
  <2>1. CASE Shares!Dupes(id) # {}
    <3>1. Shares!Answered(id, f) /\ UNCHANGED <<lines, request>>
      BY <1>6, <2>1 DEF Shares!MessageRead
    <3>2. \A s \in stored' : \E m \in lines : m.id = s.id /\ m.file = s.file
      BY <1>6, <2>1, <3>1, AnsweredRight
    <3> QED
      BY <3>1, <3>2 DEF ThreadsInv
  <2>2. CASE Shares!Dupes(id) = {}
    <3> DEFINE other == [at |-> "message", file |-> f, id |-> id]
    <3>1. request' = [request EXCEPT ![r] = other] /\ UNCHANGED <<lines, stored>>
      BY <1>6, <2>2 DEF Shares!MessageRead
    <3>2. other.id # NoId => other.file = About[other.id]
      BY <1>6
    <3> HIDE DEF other
    <3> QED
      BY <1>2, <3>1, <3>2 DEF ThreadsInv
  <2> QED
    BY <2>1, <2>2
<1>7. ASSUME NEW r \in Requests, Shares!MessageWrite(r)
      PROVE  ThreadsInv'
  <2> DEFINE q == request[r]
             new == [id |-> q.id, file |-> q.file, no |-> Shares!Cardinality(lines)]
  <2>1. q.id # NoId => q.file = About[q.id]
    BY <1>7 DEF Shares!MessageWrite, ThreadsInv
  <2>2. request' = [request EXCEPT ![r] = Shares!Resting]
    BY <1>7 DEF Shares!MessageWrite
  <2>3. \A k \in Requests :
          (request'[k].at = "message" /\ request'[k].id # NoId)
            => request'[k].file = About[request'[k].id]
    BY <1>2, <1>s, <2>2
  <2>4. CASE Shares!Inserts(q)
    <3>1. lines' = lines \cup {new} /\ Shares!Answered(q.id, q.file)
      BY <1>7, <2>4 DEF Shares!MessageWrite
    <3>2. new.id = q.id /\ new.file = q.file
      OBVIOUS
    <3>3. \A m \in lines : m.id = q.id => q.id = NoId
      BY <2>4 DEF Shares!Inserts, Shares!Dupes
    <3>4. \A s \in stored' : s \in stored \/ s = [id |-> q.id, file |-> q.file]
      BY <3>1 DEF Shares!Answered
    <3> HIDE DEF q, new
    <3>5. \A s \in stored' : \E m \in lines' : m.id = s.id /\ m.file = s.file
      BY <3>1, <3>2, <3>4 DEF ThreadsInv
    <3>6. \A m, k \in lines' : (m.id = k.id /\ m.id # NoId) => m = k
      BY <3>1, <3>2, <3>3 DEF ThreadsInv
    <3>7. \A m \in lines' : m.id # NoId => m.file = About[m.id]
      BY <2>1, <3>1, <3>2 DEF ThreadsInv
    <3> QED
      BY <2>3, <3>5, <3>6, <3>7 DEF ThreadsInv
  <2>5. CASE ~Shares!Inserts(q) /\ Shares!Dupes(q.id) # {}
    <3>1. Shares!Answered(q.id, q.file) /\ lines' = lines
      BY <1>7, <2>5 DEF Shares!MessageWrite
    <3> HIDE DEF q
    <3>2. \A s \in stored' : \E m \in lines : m.id = s.id /\ m.file = s.file
      BY <2>1, <2>5, <3>1, AnsweredRight
    <3> QED
      BY <2>3, <3>1, <3>2 DEF ThreadsInv
  <2>6. CASE ~Shares!Inserts(q) /\ Shares!Dupes(q.id) = {}
    <3>1. UNCHANGED <<lines, stored>>
      BY <1>7, <2>6 DEF Shares!MessageWrite
    <3> QED
      BY <2>3, <3>1 DEF ThreadsInv
  <2> QED
    BY <2>4, <2>5, <2>6
<1>8. ASSUME NEW p \in Processes, Shares!ListStep(p)
      PROVE  UNCHANGED <<lines, stored, request>>
  BY <1>8 DEF Shares!ListStep, Shares!LoadNames, Shares!StoreNames, Shares!AddName, Shares!SetActive,
      Shares!Rename, Shares!ListChanged
<1>9. ASSUME NEW p \in Processes, NEW f \in Shares!Files, Shares!AddFile(p, f)
      PROVE  UNCHANGED <<lines, stored, request>>
  BY <1>9 DEF Shares!AddFile
<1>10. CASE UNCHANGED Shares!vars
  BY <1>1, <1>10 DEF Shares!vars
<1>11. ASSUME Shares!Tick PROVE UNCHANGED <<lines, stored, request>>
  BY <1>11 DEF Shares!Tick
<1>12. ASSUME NEW id \in MessageIds PROVE About[id] \in Shares!Files
  BY <1>12, SharesConstants DEF Shares!ConstantsAssumption, Shares!Files
<1>13. ASSUME NEW r \in Requests, Shares!BotStep(r) PROVE ThreadsInv'
  <2>1. ASSUME NEW id \in MessageIds, Shares!MessageRead(r, About[id], id) PROVE ThreadsInv'
    BY <1>6, <1>12, <2>1
  <2>2. ASSUME NEW f \in Shares!Files, Shares!MessageRead(r, f, NoId) PROVE ThreadsInv'
    BY <1>6, <2>2
  <2> QED
    BY <1>3, <1>4, <1>7, <1>13, <2>1, <2>2 DEF Shares!BotStep
<1> QED
  BY <1>1, <1>5, <1>8, <1>9, <1>10, <1>11, <1>13 DEF Shares!Next

\* "Redelivery is a no-op": whatever the bot repeats and whoever deletes files meanwhile, a
\* message is in one conversation once, that of the file it is about.
THEOREM SharesRight == Shares!Spec => [](Shares!TypeOK /\ Shares!ThreadsRight)
<1>1. Shares!Init => ThreadsInv
  <2>1. Shares!Resting.at = "rest"
    BY DEF Shares!Resting
  <2> QED
    BY <2>1 DEF Shares!Init, ThreadsInv
<1>2. ThreadsInv => Shares!ThreadsRight
  BY DEF ThreadsInv, Shares!ThreadsRight
<1> QED
  BY <1>1, <1>2, SharesTypesInit, SharesTypesStep, ThreadsStep, PTL DEF Shares!Spec

-----------------------------------------------------------------------------
(* The caches of the list.                                                 *)

\* What a process has queried and nobody changed since is what the table gives.
LoadedRight ==
    \A p \in Processes :
        (loading[p] # Shares!Resting /\ ~loading[p].overtaken)
            => loading[p].names = Shares!Listed(loading[p].kind)

\* An entry of p's cache is right about a name, unless another process changed the name
\* after the entry was stored: it runs out a time to live after that change at most.
RightFor(p, kind, n) ==
    \/ n \in known[p][kind].names <=> n \in Shares!Listed(kind)
    \/ changed[n].by # p /\ known[p][kind].until <= changed[n].at + TTL

Cached(p, kind) == known[p][kind] # Shares!NotCached

CachesInv ==
    /\ LoadedRight
    /\ \A p \in Processes, kind \in Shares!Kinds :
          Cached(p, kind) =>
            /\ known[p][kind].until <= time + TTL
            /\ ~known[p][kind].overtaken => \A n \in Lenders : RightFor(p, kind, n)

\* It holds at first: nothing is cached.
LEMMA CachesInit == Shares!Init => CachesInv
  BY DEF Shares!Init, CachesInv, LoadedRight, Cached

\* A change of the list empties the cache of its process; the others are late by it.
LEMMA CachesChanged ==
    ASSUME Shares!TypeOK, CachesInv, NEW p \in Processes,
           NEW new \in [Lenders -> {"none", "active", "inactive"}], Shares!ListChanged(p, new)
    PROVE  CachesInv'
<1>t. /\ Shares!ListTypes /\ time \in Nat /\ TTL \in Nat
  BY SharesConstants DEF Shares!TypeOK, Shares!BoundTypes, Shares!ConstantsAssumption
<1>1. /\ listed' = new /\ time' = time
      /\ changed' = [n \in Lenders |->
                      IF new[n] = listed[n] THEN changed[n] ELSE [at |-> time, by |-> p]]
      /\ known' = [known EXCEPT ![p] = [k \in Shares!Kinds |-> Shares!NotCached]]
      /\ loading' = [q \in Processes |->
                      IF loading[q] = Shares!Resting THEN Shares!Resting
                      ELSE [loading[q] EXCEPT !.overtaken = TRUE]]
  BY DEF Shares!ListChanged, Shares!Invalidated
<1>2. LoadedRight'
  <2> SUFFICES ASSUME NEW q \in Processes, loading'[q] # Shares!Resting
               PROVE  loading'[q].overtaken
    BY DEF LoadedRight
  <2>1. loading[q] # Shares!Resting /\ loading'[q] = [loading[q] EXCEPT !.overtaken = TRUE]
    BY <1>1
  <2>2. loading[q] \in Shares!Loaded
    BY <1>t, <2>1 DEF Shares!ListTypes
  <2> QED
    BY <2>1, <2>2 DEF Shares!Loaded
<1>3. ASSUME NEW q \in Processes, NEW kind \in Shares!Kinds, Cached(q, kind)'
      PROVE  /\ known'[q][kind].until <= time' + TTL
             /\ ~known'[q][kind].overtaken => \A n \in Lenders : RightFor(q, kind, n)'
  <2>1. q # p /\ known'[q] = known[q]
    BY <1>1, <1>3, <1>t DEF Shares!ListTypes, Cached
  <2>2. Cached(q, kind)
    BY <1>3, <2>1 DEF Cached
  <2>3. known[q][kind].until <= time + TTL
    BY <2>2 DEF CachesInv
  <2>4. ASSUME NEW n \in Lenders, ~known[q][kind].overtaken
        PROVE  RightFor(q, kind, n)'
    <3>1. RightFor(q, kind, n)
      BY <2>2, <2>4 DEF CachesInv
    <3>2. CASE new[n] = listed[n]
      <4>1. changed'[n] = changed[n]
        BY <1>1, <3>2
      <4>2. (n \in Shares!Listed(kind))' <=> n \in Shares!Listed(kind)
        BY <1>1, <3>2 DEF Shares!Listed
      <4> QED
        BY <2>1, <3>1, <4>1, <4>2, Zenon DEF RightFor
    <3>3. CASE new[n] # listed[n]
      <4>1. changed'[n] = [at |-> time, by |-> p]
        BY <1>1, <3>3
      <4> QED
        BY <2>1, <2>3, <4>1 DEF RightFor
    <3> QED
      BY <3>2, <3>3
  <2> QED
    BY <1>1, <2>1, <2>3, <2>4
<1> QED
  BY <1>2, <1>3 DEF CachesInv

\* A list that nobody changed since it was queried is stored as it is now.
LEMMA CachesStored ==
    ASSUME Shares!TypeOK, CachesInv, NEW p \in Processes, Shares!StoreNames(p)
    PROVE  CachesInv'
<1> USE DEF Shares!threads, Shares!list, Shares!caches
<1>t. /\ Shares!ListTypes /\ time \in Nat /\ TTL \in Nat
  BY SharesConstants DEF Shares!TypeOK, Shares!BoundTypes, Shares!ConstantsAssumption
<1> DEFINE l == loading[p]
           entry == [names |-> l.names, until |-> time + TTL, overtaken |-> l.overtaken]
<1>1. /\ loading[p] # Shares!Resting
      /\ loading' = [loading EXCEPT ![p] = Shares!Resting]
      /\ listed' = listed /\ changed' = changed /\ time' = time
  BY DEF Shares!StoreNames
<1>2. l \in Shares!Loaded
  BY <1>1, <1>t DEF Shares!ListTypes
<1>3. known' = known \/ known' = [known EXCEPT ![p][l.kind] = entry]
  BY DEF Shares!StoreNames
<1>4. ~l.overtaken => l.names = Shares!Listed(l.kind)
  BY <1>1 DEF CachesInv, LoadedRight
<1>5. \A kind : Shares!Listed(kind)' = Shares!Listed(kind)
  BY <1>1 DEF Shares!Listed
<1>6. entry.names = l.names /\ entry.until = time + TTL /\ entry.overtaken = l.overtaken
  OBVIOUS
<1> HIDE DEF l, entry
<1>7. LoadedRight'
  BY <1>1, <1>5, <1>t DEF LoadedRight, CachesInv, Shares!ListTypes
<1>8. ASSUME NEW q \in Processes, NEW kind \in Shares!Kinds, Cached(q, kind)'
      PROVE  /\ known'[q][kind].until <= time' + TTL
             /\ ~known'[q][kind].overtaken => \A n \in Lenders : RightFor(q, kind, n)'
  <2>1. CASE known'[q][kind] = known[q][kind]
    <3>1. Cached(q, kind)
      BY <1>8, <2>1 DEF Cached
    <3>2. \A n \in Lenders : RightFor(q, kind, n) => RightFor(q, kind, n)'
      BY <1>1, <1>5, <2>1, Zenon DEF RightFor
    <3> QED
      BY <1>1, <2>1, <3>1, <3>2 DEF CachesInv
  <2>2. CASE known'[q][kind] # known[q][kind]
    <3>1. known'[q][kind] = entry /\ kind = l.kind
      BY <1>2, <1>3, <1>t, <2>2 DEF Shares!ListTypes, Shares!Loaded
    <3>2. ASSUME ~entry.overtaken, NEW n \in Lenders PROVE RightFor(q, kind, n)'
      <4>1. known'[q][kind].names = Shares!Listed(kind)'
        BY <1>4, <1>5, <1>6, <3>1, <3>2
      <4> QED
        BY <4>1, Zenon DEF RightFor
    <3> QED
      BY <1>1, <1>6, <1>t, <3>1, <3>2
  <2> QED
    BY <2>1, <2>2
<1> QED
  BY <1>7, <1>8 DEF CachesInv

\* Every step of the shares keeps it.
LEMMA CachesStep ==
    ASSUME Shares!TypeOK, CachesInv, [Shares!Next]_(Shares!vars)
    PROVE  CachesInv'
<1> USE DEF Shares!threads, Shares!list, Shares!caches
<1>t. /\ Shares!ListTypes /\ time \in Nat /\ TTL \in Nat
  BY SharesConstants DEF Shares!TypeOK, Shares!BoundTypes, Shares!ConstantsAssumption
<1>1. ASSUME UNCHANGED <<listed, changed, known, loading>>, time' \in Nat, time <= time'
      PROVE  CachesInv'
  <2>1. \A kind : Shares!Listed(kind)' = Shares!Listed(kind)
    BY <1>1 DEF Shares!Listed
  <2>2. LoadedRight'
    BY <1>1, <2>1 DEF CachesInv, LoadedRight
  <2>3. ASSUME NEW q \in Processes, NEW kind \in Shares!Kinds, Cached(q, kind)'
        PROVE  /\ known'[q][kind].until <= time' + TTL
               /\ ~known'[q][kind].overtaken => \A n \in Lenders : RightFor(q, kind, n)'
    <3>1. Cached(q, kind)
      BY <1>1, <2>3 DEF Cached
    <3>2. \A n \in Lenders : RightFor(q, kind, n) => RightFor(q, kind, n)'
      BY <1>1, <2>1, Zenon DEF RightFor
    <3>3. known[q][kind].until \in Int
      BY <1>t DEF Shares!ListTypes, Shares!Entry
    <3>4. known'[q][kind].until <= time' + TTL
      BY <1>1, <1>t, <3>1, <3>3 DEF CachesInv
    <3> QED
      BY <1>1, <3>1, <3>2, <3>4 DEF CachesInv
  <2> QED
    BY <2>2, <2>3 DEF CachesInv
<1>2. ASSUME NEW p \in Processes, NEW kind \in Shares!Kinds, Shares!LoadNames(p, kind)
      PROVE  CachesInv'
  <2> DEFINE l == [at |-> "loaded", kind |-> kind, names |-> Shares!Listed(kind), overtaken |-> FALSE]
  <2>1. /\ loading' = [loading EXCEPT ![p] = l]
        /\ UNCHANGED <<listed, changed, known, time>>
    BY <1>2 DEF Shares!LoadNames
  <2>2. l.names = Shares!Listed(l.kind)
    OBVIOUS
  <2> HIDE DEF l
  <2>3. \A k : Shares!Listed(k)' = Shares!Listed(k)
    BY <2>1 DEF Shares!Listed
  <2>4. \A q \in Processes : loading'[q] = IF q = p THEN l ELSE loading[q]
    BY <1>t, <2>1 DEF Shares!ListTypes
  <2>5. LoadedRight'
    BY <2>2, <2>3, <2>4 DEF CachesInv, LoadedRight
  <2>6. \A q \in Processes, k \in Shares!Kinds, n \in Lenders :
          RightFor(q, k, n) => RightFor(q, k, n)'
    BY <2>1, <2>3, Zenon DEF RightFor
  <2> QED
    BY <2>1, <2>5, <2>6 DEF CachesInv, Cached
<1>3. ASSUME NEW p \in Processes, Shares!ListStep(p) PROVE CachesInv'
  BY <1>2, <1>3, ListChanges, CachesStored, CachesChanged
<1>4. CASE Shares!Next /\ ~\E p \in Processes : Shares!ListStep(p)
  BY <1>1, <1>4, <1>t, ListsRest
<1>5. CASE UNCHANGED Shares!vars
  BY <1>1, <1>5, <1>t DEF Shares!vars
<1> QED
  BY <1>3, <1>4, <1>5

\* What a process answers is right about a name, or someone else changed it lately.
LEMMA NamesCurrent ==
    ASSUME Shares!TypeOK, CachesInv, NEW p \in Processes, NEW kind \in Shares!Kinds,
           Shares!Fresh(p, kind) => ~known[p][kind].overtaken, Shares!Listed(kind) # {},
           NEW n \in Lenders
    PROVE  \/ n \in Shares!NamesAt(p, kind) <=> n \in Shares!Listed(kind)
           \/ changed[n].by # p /\ time <= changed[n].at + TTL
<1>1. CASE Shares!Fresh(p, kind)
  <2>1. Cached(p, kind) /\ time < known[p][kind].until
    BY <1>1 DEF Shares!Fresh, Cached
  <2>2. RightFor(p, kind, n)
    BY <1>1, <2>1 DEF CachesInv
  <2>3. Shares!NamesAt(p, kind) = known[p][kind].names
    BY <1>1 DEF Shares!NamesAt
  <2>4. /\ time \in Int /\ known[p][kind].until \in Int /\ changed[n].at \in Int /\ TTL \in Int
    BY SharesConstants DEF Shares!TypeOK, Shares!BoundTypes, Shares!ConstantsAssumption,
        Shares!ListTypes, Shares!Entry
  <2>5. known[p][kind].until <= changed[n].at + TTL => time <= changed[n].at + TTL
    BY <2>1, <2>4
  <2> QED
    BY <2>2, <2>3, <2>5, Zenon DEF RightFor
<1>2. CASE ~Shares!Fresh(p, kind)
  <2>1. Shares!NamesAt(p, kind) = Shares!Listed(kind)
    BY <1>2 DEF Shares!NamesAt
  <2> QED
    BY <2>1
<1> QED
  BY <1>1, <1>2

\* A change of the list takes effect everywhere within a time to live, and at once where it
\* was made; a file has its column in the grid, unless its lender was renamed.
THEOREM SharesCurrent == Shares!Spec => []Shares!ListIsCurrent
<1>1. Shares!TypeOK /\ CachesInv => Shares!ListIsCurrent
  <2> SUFFICES ASSUME Shares!TypeOK, CachesInv, NEW p \in Processes, NEW kind \in Shares!Kinds,
                      Shares!Fresh(p, kind) => ~known[p][kind].overtaken,
                      Shares!Listed(kind) # {}
               PROVE  /\ \A n \in Lenders :
                            \/ n \in Shares!NamesAt(p, kind) <=> n \in Shares!Listed(kind)
                            \/ changed[n].by # p /\ time <= changed[n].at + TTL
                      /\ kind = "all" =>
                           \A l \in Shares!GridLeads(TRUE, {}) : \A n \in Shares!Cells(l) :
                              \/ n \in Shares!Columns(p) \/ listed[n] = "none"
                              \/ time <= changed[n].at + TTL
    BY DEF Shares!ListIsCurrent
  <2>1. \A n \in Lenders :
            \/ n \in Shares!NamesAt(p, kind) <=> n \in Shares!Listed(kind)
            \/ changed[n].by # p /\ time <= changed[n].at + TTL
    BY NamesCurrent
  <2>2. ASSUME kind = "all", NEW l \in Shares!GridLeads(TRUE, {}), NEW n \in Shares!Cells(l)
        PROVE  \/ n \in Shares!Columns(p) \/ listed[n] = "none"
               \/ time <= changed[n].at + TTL
    <3>1. n \in Lenders
      BY <2>2 DEF Shares!Cells
    <3>2. listed[n] = "none" \/ n \in Shares!Listed("all")
      BY <3>1 DEF Shares!Listed, Shares!TypeOK, Shares!ListTypes
    <3> QED
      BY <2>1, <2>2, <3>1, <3>2, Zenon DEF Shares!Columns
  <2> QED
    BY <2>1, <2>2, Zenon
<1> QED
  BY <1>1, CachesInit, CachesStep, SharesTypesInit, SharesTypesStep, PTL DEF Shares!Spec

-----------------------------------------------------------------------------
(* Lenders, applications and shares together.                              *)

LEMMA FilingIsAll == FilingSpec => Spec /\ Apps!Spec /\ Shares!Spec
<1>1. FilingInit => Init /\ Apps!Init /\ Shares!Init
  BY DEF FilingInit
<1>2. [FilingNext]_FilingVars => [Next]_vars /\ [Apps!Next]_(Apps!vars)
  BY DEF FilingNext, FilingVars, appsState, Apps!vars
<1>3. [FilingNext]_FilingVars => [Shares!Next]_(Shares!vars)
  BY DEF FilingNext, FilingVars, sharesState, Shares!vars, Shares!threads, Shares!list,
      Shares!caches
<1> QED
  BY <1>1, <1>2, <1>3, PTL DEF FilingSpec, Spec, Apps!Spec, Shares!Spec

\* A lead shows the furthest of its lender files and the furthest of its applications, and
\* has an application twice only as twins that name no program.
THEOREM FilesAlwaysShown == FilingSpec => []FilesShown
<1>1. AppsInv /\ PrimaryIsBest => FilesShown
  BY DEF AppsInv, FilesShown
<1> QED
  BY <1>1, FilingIsAll, PrimaryAlwaysBest, AppsInvariant, PTL

\* What is promised of the tranches holds of the three as they are checked together.
THEOREM FilingHolds == FilingSpec => []FirstTrancheOnce /\ MoneyMovesRight
  BY FilingIsAll, FirstTrancheOnlyOnce, MoneyAlwaysMovesRight, PTL

\* "Redelivery is a no-op" for the bot that records messages: each is in one conversation
\* once, that of the file it is about.
THEOREM ConversationsAlwaysRight == FilingSpec => []ConversationsRight
  BY FilingIsAll, SharesRight, PTL DEF ConversationsRight

\* "Takes effect within 60 seconds everywhere": a process is wrong about a lender for the
\* time to live at most.
THEOREM ListsAlwaysCurrent == FilingSpec => []ListsCurrent
  BY FilingIsAll, SharesCurrent, PTL DEF ListsCurrent
=============================================================================
