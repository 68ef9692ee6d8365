----------------------- MODULE CommissionLedgerProofs -----------------------
(***************************************************************************)
(* What CommissionLedger promises of the links between releases and        *)
(* invoices, and of the money received, for any number of users, releases, *)
(* invoices and steps; and what Numbering promises of the numbers that     *)
(* invoices and leads are given.                                           *)
(*                                                                         *)
(* The argument: a release that only one request holds (it is not in       *)
(* raced) is, until that request ends, exactly as it was read; and a       *)
(* number a counter gives out is above every row that was there when the   *)
(* statement began, and not below the counter.                             *)
(***************************************************************************)
EXTENDS CommissionLedger, Numbering, SumTheorems, FiniteSetTheorems, WellFoundedInduction,
        TLAPS

\* A release two requests hold is set apart.
Exclusive == \A u, v \in Users : u # v => rows[u] \cap rows[v] \subseteq raced

\* A release that is being billed or deleted is still there, and not billed.
Held ==
    \A u \in Users : at[u] \in {"raise", "link", "delete"} =>
        \A r \in rows[u] \cap Alone : r \in present /\ link[r] = NoBill

\* Between its two commits, a raise has an invoice of its own on what it read.
Issued ==
    \A u \in Users : at[u] = "link" =>
        bill[u] \in Bills /\ status[bill[u]] # "none" /\ lines[bill[u]] = rows[u]

\* Two raises are never on the same invoice.
OneRaiser ==
    \A u, v \in Users : at[u] = "link" /\ at[v] = "link" /\ bill[u] = bill[v] => u = v

\* An invoice that is not issued bills nothing.
Unissued == \A b \in Bills : status[b] = "none" => lines[b] = {}

\* The inductive invariant of the links.
LinkInv ==
    /\ LinkTypes /\ RequestTypes
    /\ Exclusive /\ Held /\ Issued /\ OneRaiser /\ Unissued
    /\ LinkedIsListed /\ ListedIsLinked

-----------------------------------------------------------------------------
(* The steps, by what they do to requests and links.                       *)

\* A request begins, on an invoice.
Opens(u) ==
    /\ at[u] = "idle" /\ \E place \in {"pay", "void", "paid"} : at' = [at EXCEPT ![u] = place]
    /\ \E b \in Bills : bill' = [bill EXCEPT ![u] = b]
    /\ UNCHANGED <<present, link, status, lines, rows, raced>>

\* A request reads the releases S.
Reads(u, S, place) ==
    /\ at[u] \in {"idle", "pay"} /\ place \in {"raise", "settle", "correct", "delete"}
    /\ at' = [at EXCEPT ![u] = place]
    /\ S \subseteq Releases
    /\ place \in {"raise", "delete"} => \A r \in S : r \in present /\ link[r] = NoBill
    /\ Takes(u, S)
    /\ UNCHANGED <<present, link, status, lines, bill>>

\* A request ends, and what it leaves half-way is set apart.
Closes(u) ==
    /\ Ends(u)
    /\ raced \subseteq raced' /\ raced' \subseteq raced \cup rows[u]
    /\ at[u] = "link" => rows[u] \subseteq raced'
    /\ status' \in [Bills -> {"none", "issued", "paid", "void"}]
    /\ \A b \in Bills : status[b] # "none" => status'[b] # "none"
    /\ \A b \in Bills : status'[b] = "none" => status[b] = "none"
    /\ UNCHANGED <<present, link, lines>>

\* Every step but three is one of these.
LEMMA StepShape ==
    ASSUME LinkTypes, RequestTypes, NEW u \in Users,
           BillingStep(u) \/ MoneyStep(u) \/ OtherStep(u)
    PROVE  \/ Opens(u) \/ Closes(u) \/ \E S, place : Reads(u, S, place)
           \/ RaiseIssues(u) \/ RaiseLinks(u) \/ DeleteWrites(u)
<1> USE DEF billVars, boundVars, Goto, Changes
<1>1. CASE RaiseReads(u)
  <2> PICK S \in SUBSET Releases : (\A r \in S : Billable(r)) /\ Takes(u, S)
    BY <1>1 DEF RaiseReads
  <2> Reads(u, S, "raise")
    BY <1>1 DEF RaiseReads, Reads, Billable
  <2> QED
    OBVIOUS
<1>2. CASE RaiseIssues(u) \/ RaiseLinks(u) \/ DeleteWrites(u)
  BY <1>2
<1>3. CASE RaiseLosesRow(u)
  BY <1>3 DEF RaiseLosesRow, Closes, LinkTypes
<1>4. CASE PayBegins(u)
  BY <1>4 DEF PayBegins, Opens
<1>5. CASE PayReads(u)
  <2> Reads(u, BilledBy(bill[u]), "settle")
    BY <1>5 DEF PayReads, Reads, BilledBy, LinkTypes
  <2> QED
    OBVIOUS
<1>6. CASE PayFindsNothing(u)
  BY <1>6 DEF PayFindsNothing, Closes, LinkTypes
<1>7. CASE PayWrites(u)
  <2> PICK a, t : Books(u, a, t)
    BY <1>7 DEF PayWrites, PayShared, PayItemised
  <2> QED
    BY DEF Books, Closes, LinkTypes
<1>8. CASE CorrectReads(u)
  <2> PICK r \in present : Takes(u, {r})
    BY <1>8 DEF CorrectReads
  <2> Reads(u, {r}, "correct")
    BY <1>8 DEF CorrectReads, Reads, LinkTypes
  <2> QED
    OBVIOUS
<1>9. CASE CorrectWrites(u)
  BY <1>9 DEF CorrectWrites, Closes, LinkTypes
<1>10. CASE VoidReads(u) \/ PaidReads(u)
  BY <1>10 DEF VoidReads, PaidReads, Opens
<1>11. CASE VoidWrites(u)
  BY <1>11 DEF VoidWrites, Closes, LinkTypes
<1>12. CASE PaidWrites(u)
  BY <1>12 DEF PaidWrites, Closes, LinkTypes
<1>13. CASE DeleteReads(u)
  <2> PICK r \in Releases : Deletable(r) /\ Takes(u, {r})
    BY <1>13 DEF DeleteReads
  <2> Reads(u, {r}, "delete")
    BY <1>13 DEF DeleteReads, Reads, Deletable
  <2> QED
    OBVIOUS
<1>14. CASE RequestFails(u)
  BY <1>14 DEF RequestFails, Closes, LinkTypes
<1> QED
  BY <1>1, <1>2, <1>3, <1>4, <1>5, <1>6, <1>7, <1>8, <1>9, <1>10, <1>11, <1>12, <1>13, <1>14
  DEF BillingStep, MoneyStep, OtherStep
-----------------------------------------------------------------------------
(* The links.                                                              *)

\* The links hold initially.
LEMMA LinkInit == Init => LinkInv
<1> SUFFICES ASSUME Init PROVE LinkInv
  OBVIOUS
<1>1. LinkTypes /\ RequestTypes
  BY DEF Init, LinkTypes, RequestTypes
<1>2. Exclusive /\ Held /\ Issued /\ OneRaiser /\ Unissued
  BY DEF Init, Exclusive, Held, Issued, OneRaiser, Unissued
<1>3. LinkedIsListed /\ ListedIsLinked
  BY DEF Init, LinkedIsListed, ListedIsLinked, NoBill, Releases
<1> QED
  BY <1>1, <1>2, <1>3 DEF LinkInv

\* A request that begins on an invoice disturbs no link.
LEMMA OpensKeeps == ASSUME LinkInv, NEW u \in Users, Opens(u) PROVE LinkInv'
<1> USE DEF LinkInv, Opens
<1>1. LinkTypes' /\ RequestTypes'
  BY DEF LinkTypes, RequestTypes
<1>2. Exclusive' /\ Unissued' /\ LinkedIsListed'
  BY DEF Exclusive, Unissued, LinkedIsListed
<1>3. Held'
  BY DEF Held, Alone, RequestTypes
<1>4. Issued' /\ OneRaiser'
  BY DEF Issued, OneRaiser, RequestTypes
<1>5. ListedIsLinked'
  BY DEF ListedIsLinked, Raising, Alone, RequestTypes
<1> QED
  BY <1>1, <1>2, <1>3, <1>4, <1>5

\* Reading releases sets apart those another request holds.
LEMMA ReadsKeeps ==
    ASSUME LinkInv, NEW u \in Users, NEW S, NEW place, Reads(u, S, place)
    PROVE  LinkInv'
<1> USE DEF LinkInv, Reads, Takes
<1>1. LinkTypes' /\ RequestTypes'
  BY DEF LinkTypes, RequestTypes
<1>2. Exclusive'
  <2> SUFFICES ASSUME NEW v \in Users, NEW w \in Users, v # w
               PROVE  rows'[v] \cap rows'[w] \subseteq raced'
    BY DEF Exclusive
  <2>1. CASE v # u /\ w # u
    BY <2>1 DEF Exclusive, RequestTypes
  <2>2. CASE v = u
    BY <2>2 DEF Others, RequestTypes
  <2>3. CASE w = u
    BY <2>3 DEF Others, RequestTypes
  <2> QED
    BY <2>1, <2>2, <2>3
<1>3. Unissued' /\ LinkedIsListed'
  BY DEF Unissued, LinkedIsListed
<1>4. Held'
  BY DEF Held, Alone, RequestTypes
<1>5. Issued' /\ OneRaiser'
  BY DEF Issued, OneRaiser, RequestTypes
<1>6. ListedIsLinked'
  BY DEF ListedIsLinked, Raising, Alone, RequestTypes
<1> QED
  BY <1>1, <1>2, <1>3, <1>4, <1>5, <1>6

\* A request that ends lets its releases go, or sets them apart.
LEMMA ClosesKeeps == ASSUME LinkInv, NEW u \in Users, Closes(u) PROVE LinkInv'
<1> USE DEF LinkInv, Closes, Ends
<1>1. LinkTypes' /\ RequestTypes'
  BY DEF LinkTypes, RequestTypes
<1>2. Exclusive'
  BY DEF Exclusive, RequestTypes
<1>3. Unissued' /\ LinkedIsListed'
  BY DEF Unissued, LinkedIsListed, LinkTypes, NoBill
<1>4. Held'
  BY DEF Held, Alone, RequestTypes
<1>5. Issued' /\ OneRaiser'
  BY DEF Issued, OneRaiser, RequestTypes
<1>6. ListedIsLinked'
  <2> SUFFICES ASSUME NEW b \in Bills, NEW r \in lines[b] \cap Alone', ~Raising(b)'
               PROVE  r \in present /\ link[r] = b
    BY DEF ListedIsLinked
  <2>1. r \in Alone
    BY DEF Alone
  <2>2. ~Raising(b)
    <3> SUFFICES ASSUME NEW v \in Users, at[v] = "link", bill[v] = b PROVE FALSE
      BY DEF Raising
    <3>1. v = u
      BY DEF Raising, RequestTypes
    <3> QED
      BY <3>1 DEF Issued, Alone
  <2> QED
    BY <2>1, <2>2 DEF ListedIsLinked
<1> QED
  BY <1>1, <1>2, <1>3, <1>4, <1>5, <1>6

\* The invoice issued is a new one, on releases that no other invoice has.
LEMMA RaiseIssuesKeeps == ASSUME LinkInv, NEW u \in Users, RaiseIssues(u) PROVE LinkInv'
<1> USE DEF LinkInv
<1> PICK b \in Bills :
        /\ status[b] = "none" /\ status' = [status EXCEPT ![b] = "issued"]
        /\ lines' = [lines EXCEPT ![b] = rows[u]]
        /\ bill' = [bill EXCEPT ![u] = b]
  BY DEF RaiseIssues
<1>a. /\ at[u] = "raise" /\ at' = [at EXCEPT ![u] = "link"]
      /\ UNCHANGED <<present, link, rows, raced>>
  BY DEF RaiseIssues
<1>1. LinkTypes' /\ RequestTypes'
  BY <1>a DEF LinkTypes, RequestTypes
<1>2. Exclusive' /\ Held'
  BY <1>a DEF Exclusive, Held, Alone, RequestTypes
<1>3. Issued'
  BY <1>a DEF Issued, LinkTypes, RequestTypes
<1>4. OneRaiser'
  BY <1>a DEF Issued, OneRaiser, LinkTypes, RequestTypes
<1>5. Unissued' /\ LinkedIsListed'
  BY <1>a DEF Unissued, LinkedIsListed, LinkTypes, RequestTypes
<1>6. ListedIsLinked'
  BY <1>a DEF ListedIsLinked, Raising, Alone, LinkTypes, RequestTypes
<1> QED
  BY <1>1, <1>2, <1>3, <1>4, <1>5, <1>6

\* Linking ends a raise: what its invoice bills is linked.
LEMMA RaiseLinksKeeps == ASSUME LinkInv, NEW u \in Users, RaiseLinks(u) PROVE LinkInv'
<1> USE DEF LinkInv, billVars, Ends
<1>a. /\ at[u] = "link" /\ UNCHANGED <<present, status, lines, raced>> /\ Ends(u)
      /\ link' = [r \in Releases |-> IF r \in LinkedBy(u) THEN bill[u] ELSE link[r]]
  BY DEF RaiseLinks
<1>b. bill[u] \in Bills /\ status[bill[u]] # "none" /\ lines[bill[u]] = rows[u]
  BY <1>a DEF Issued
<1>1. LinkTypes' /\ RequestTypes'
  BY <1>a DEF LinkTypes, RequestTypes
<1>2. Exclusive' /\ Unissued'
  BY <1>a DEF Exclusive, Unissued, RequestTypes
<1>3. Held'
  BY <1>a DEF Held, Alone, Exclusive, LinkedBy, RequestTypes, LinkTypes
<1>4. Issued' /\ OneRaiser'
  BY <1>a DEF Issued, OneRaiser, RequestTypes
<1>5. LinkedIsListed'
  BY <1>a, <1>b DEF LinkedIsListed, LinkedBy, LinkTypes
<1>6. ListedIsLinked'
  <2> SUFFICES ASSUME NEW b \in Bills, NEW r \in lines[b] \cap Alone, ~Raising(b)'
               PROVE  r \in present /\ link'[r] = b
    BY <1>a DEF ListedIsLinked, Alone
  <2>1. CASE b = bill[u]
    BY <1>a, <1>b, <2>1 DEF Held, LinkedBy, Alone
  <2>2. CASE b # bill[u]
    <3>1. ~Raising(b)
      BY <1>a, <2>2 DEF Raising, RequestTypes
    <3>2. r \in present /\ link[r] = b
      BY <3>1 DEF ListedIsLinked
    <3>3. r \notin rows[u]
      BY <1>a, <3>2 DEF Held, NoBill, Bills
    <3> QED
      BY <1>a, <3>2, <3>3 DEF LinkedBy, Alone
  <2> QED
    BY <2>1, <2>2
<1> QED
  BY <1>1, <1>2, <1>3, <1>4, <1>5, <1>6

\* A release that is deleted was on no invoice, or is set apart.
LEMMA DeleteWritesKeeps == ASSUME LinkInv, NEW u \in Users, DeleteWrites(u) PROVE LinkInv'
<1> USE DEF LinkInv, billVars
<1>a. /\ at[u] = "delete" /\ UNCHANGED <<status, lines, raced>> /\ Ends(u)
      /\ present' = present \ rows[u]
      /\ link' = [r \in Releases |-> IF r \in rows[u] THEN NoBill ELSE link[r]]
  BY DEF DeleteWrites
<1>1. LinkTypes' /\ RequestTypes'
  BY <1>a DEF LinkTypes, RequestTypes, Ends
<1>2. Exclusive' /\ Unissued'
  BY <1>a DEF Exclusive, Unissued, RequestTypes, Ends
<1>3. Held'
  BY <1>a DEF Held, Alone, Exclusive, RequestTypes, LinkTypes, Ends
<1>4. Issued' /\ OneRaiser'
  BY <1>a DEF Issued, OneRaiser, RequestTypes, Ends
<1>5. LinkedIsListed'
  BY <1>a DEF LinkedIsListed, LinkTypes
<1>6. ListedIsLinked'
  <2> SUFFICES ASSUME NEW b \in Bills, NEW r \in lines[b] \cap Alone, ~Raising(b)'
               PROVE  r \in present' /\ link'[r] = b
    BY <1>a DEF ListedIsLinked, Alone
  <2>1. ~Raising(b)
    BY <1>a DEF Raising, RequestTypes, Ends
  <2>2. r \in present /\ link[r] = b
    BY <2>1 DEF ListedIsLinked
  <2>3. r \notin rows[u]
    BY <1>a, <2>2 DEF Held, NoBill, Bills
  <2> QED
    BY <1>a, <2>2, <2>3 DEF Alone
<1> QED
  BY <1>1, <1>2, <1>3, <1>4, <1>5, <1>6

\* Every step keeps the links.
LEMMA LinkStep == LinkInv /\ [Next]_vars => LinkInv'
<1> SUFFICES ASSUME LinkInv, [Next]_vars PROVE LinkInv'
  OBVIOUS
<1>1. CASE Next
  <2> PICK u \in Users : BillingStep(u) \/ MoneyStep(u) \/ OtherStep(u)
    BY <1>1 DEF Next
  <2>1. LinkTypes /\ RequestTypes
    BY DEF LinkInv
  <2> QED
    BY <2>1, StepShape, OpensKeeps, ReadsKeeps, ClosesKeeps, RaiseIssuesKeeps,
       RaiseLinksKeeps, DeleteWritesKeeps
<1>2. CASE UNCHANGED vars
  BY <1>2 DEF vars, billVars, readVars, boundVars, LinkInv, LinkTypes, RequestTypes,
     Exclusive, Held, Issued, OneRaiser, Unissued, LinkedIsListed, ListedIsLinked, Raising, Alone
<1> QED
  BY <1>1, <1>2

\* The inductive invariant of the links.
LEMMA LinkInvariant == Spec => []LinkInv
  BY LinkInit, LinkStep, PTL DEF Spec

\* The releases linked to an invoice are on its lines, however raises, deletions and
\* failures overlap: what a payment is spread over was billed.
THEOREM LinkedAreListed == Spec => []LinkedIsListed
<1>1. LinkInv => LinkedIsListed
  BY DEF LinkInv
<1> QED
  BY <1>1, LinkInvariant, PTL

\* What an invoice bills is there and linked to it, once its raise is over, unless two
\* requests held a release at once or one left it half-way.
THEOREM ListedAreLinked == Spec => []ListedIsLinked
<1>1. LinkInv => ListedIsLinked
  BY DEF LinkInv
<1> QED
  BY <1>1, LinkInvariant, PTL

\* A release that no two requests held at once is on one invoice.
THEOREM BilledOnceOnly == Spec => []BilledOnce
<1>1. LinkInv => BilledOnce
  <2> SUFFICES ASSUME LinkInv, NEW b \in Bills, NEW c \in Bills,
                      NEW r \in lines[b] \cap lines[c] \cap Alone
               PROVE  b = c
    BY DEF BilledOnce
  <2> USE DEF LinkInv
  <2>1. ASSUME NEW d \in Bills, NEW e \in Bills, r \in lines[d] \cap lines[e],
               Raising(d), ~Raising(e)
        PROVE  FALSE
    <3>1. link[r] = e
      BY <2>1 DEF ListedIsLinked
    <3>2. link[r] = NoBill
      BY <2>1 DEF Raising, Issued, Held
    <3> QED
      BY <3>1, <3>2 DEF NoBill, Bills
  <2>2. CASE Raising(b) /\ Raising(c)
    BY <2>2 DEF Raising, Issued, Exclusive, Alone
  <2>3. CASE ~Raising(b) /\ ~Raising(c)
    BY <2>3 DEF ListedIsLinked
  <2> QED
    BY <2>1, <2>2, <2>3
<1> QED
  BY <1>1, LinkInvariant, PTL

\* The releases and the invoices say the same of each other, for any users, releases and
\* interleaving, unless two requests held a release at once or one left it half-way.
THEOREM LinksAlwaysAgree == Spec => []LinksAgree
<1>1. LinkedIsListed /\ ListedIsLinked /\ BilledOnce => LinksAgree
  BY DEF LinksAgree
<1> QED
  BY <1>1, LinkedAreListed, ListedAreLinked, BilledOnceOnly, PTL

-----------------------------------------------------------------------------
(* Rounding and apportioning.                                               *)

\* Rounding gives a whole number of paise.
LEMMA HalfUpInt ==
  ASSUME NEW n \in Int, NEW d \in Int, d # 0 PROVE HalfUp(n, d) \in Int
<1> DEFINE m == 2 * Abs(n) + Abs(d)
           e == 2 * Abs(d)
<1>1. m \in Int /\ e \in Int /\ e > 0
  BY DEF Abs
<1> HIDE DEF m, e
<1>2. m \div e \in Int
  BY <1>1
<1> QED
  BY <1>2 DEF HalfUp, m, e

\* What divides without remainder is not rounded.
LEMMA HalfUpExact ==
  ASSUME NEW n \in Nat, NEW d \in Nat \ {0} PROVE HalfUp(d * n, d) = n
<1>1. d * n \in Nat
  OBVIOUS
<1>2. (2 * (d * n) + d) \div (2 * d) = n
  <2>1. 2 * (d * n) + d = (2 * d) * n + d
    OBVIOUS
  <2> DEFINE e == 2 * d
  <2>2. e \in Nat \ {0} /\ 0 <= d /\ d < e
    OBVIOUS
  <2>3. e * n \in Nat
    OBVIOUS
  <2> HIDE DEF e
  <2>4. (e * n + d) \div e = n
    BY <2>2, <2>3
  <2> QED
    BY <2>1, <2>4 DEF e
<1> QED
  BY <1>1, <1>2 DEF HalfUp, Abs

\* What is rounded is within a half of what it was.
LEMMA HalfUpBounds ==
  ASSUME NEW n \in Nat, NEW d \in Nat \ {0}, NEW q, q = HalfUp(n, d)
  PROVE  /\ q \in Nat
         /\ 2 * (d * q) <= 2 * n + d
         /\ 2 * n + d < 2 * (d * q) + 2 * d
<1> DEFINE m == 2 * n + d
           e == 2 * d
<1>1. m \in Nat /\ e \in Nat /\ e > 0
  OBVIOUS
<1>2. q = m \div e
  BY DEF HalfUp, Abs
<1> HIDE DEF m, e
<1>3. q \in Nat /\ e * q <= m /\ m < e * q + e
  BY <1>1, <1>2
<1>4. e * q = 2 * (d * q)
  BY <1>3 DEF e
<1> QED
  BY <1>3, <1>4 DEF m, e

\* A factor that is positive cancels.
LEMMA Cancels ==
  ASSUME NEW x \in Int, NEW y \in Int, NEW d \in Nat \ {0}, d * x <= d * y
  PROVE  x <= y
<1> SUFFICES ASSUME y + 1 <= x PROVE FALSE
  OBVIOUS
<1>1. PICK k \in Nat : x = y + 1 + k
  <2>1. x - y - 1 \in Nat /\ x = y + 1 + (x - y - 1)
    OBVIOUS
  <2> QED
    BY <2>1
<1>2. d * x = d * y + d + d * k
  BY <1>1
<1>3. d * k \in Nat /\ d * y \in Int
  OBVIOUS
<1> QED
  BY <1>2, <1>3

\* What a release owes, paid in two parts that are rounded each on its own: all of it, and
\* perhaps a paisa more.
LEMMA SharedTwice ==
  ASSUME NEW amount \in Nat, NEW withheld \in Nat, NEW total \in Nat \ {0},
         total = amount + withheld, NEW w \in Nat,
         NEW a, a = HalfUp(amount * w, total), NEW t, t = HalfUp(withheld * w, total)
  PROVE  /\ a \in Nat /\ t \in Nat
         /\ w <= a + t /\ a + t <= w + 1
         /\ 0 \in {amount, withheld} => a + t = w
<1>1. amount * w \in Nat /\ withheld * w \in Nat
  OBVIOUS
<1>2. amount * w + withheld * w = total * w
  OBVIOUS
<1>3. /\ a \in Nat /\ 2 * (total * a) <= 2 * (amount * w) + total
      /\ 2 * (amount * w) + total < 2 * (total * a) + 2 * total
  BY <1>1, HalfUpBounds
<1>4. /\ t \in Nat /\ 2 * (total * t) <= 2 * (withheld * w) + total
      /\ 2 * (withheld * w) + total < 2 * (total * t) + 2 * total
  BY <1>1, HalfUpBounds
<1>5. total * (a + t) = total * a + total * t
  BY <1>3, <1>4
<1>6. total * (w + 1) = total * w + total /\ total * (a + t + 1) = total * (a + t) + total
  BY <1>3, <1>4
<1>7. total * a \in Nat /\ total * t \in Nat /\ total * w \in Nat
  BY <1>3, <1>4
<1> DEFINE x == total * a
           y == total * t
           z == total * w
           p == amount * w
           q == withheld * w
<1>8. x \in Nat /\ y \in Nat /\ z \in Nat /\ p \in Nat /\ q \in Nat
  BY <1>1, <1>7
<1>9. /\ p + q = z /\ 2 * x <= 2 * p + total /\ 2 * y <= 2 * q + total
      /\ 2 * p + total < 2 * x + 2 * total /\ 2 * q + total < 2 * y + 2 * total
  BY <1>2, <1>3, <1>4
<1>10. total * (a + t) = x + y /\ total * (w + 1) = z + total
  BY <1>5, <1>6
<1> HIDE DEF x, y, z, p, q
<1>11. x + y <= z + total /\ z < x + y + total
  BY <1>8, <1>9
<1>12. a + t <= w + 1
  BY <1>3, <1>4, <1>10, <1>11, Cancels
<1>13. w <= a + t
  <2>1. ~(a + t + 1 <= w)
    <3> SUFFICES ASSUME a + t + 1 <= w PROVE FALSE
      OBVIOUS
    <3>1. PICK k \in Nat : w = a + t + 1 + k
      <4>1. w - (a + t + 1) \in Nat /\ w = a + t + 1 + (w - (a + t + 1))
        BY <1>3, <1>4
      <4> QED
        BY <4>1
    <3>2. z = x + y + total + total * k
      BY <1>3, <1>4, <3>1 DEF x, y, z
    <3>3. total * k \in Nat
      OBVIOUS
    <3> QED
      BY <1>8, <1>11, <3>2, <3>3
  <2> QED
    BY <2>1, <1>3, <1>4
<1>14. ASSUME 0 \in {amount, withheld} PROVE a + t = w
  <2>1. HalfUp(total * w, total) = w /\ HalfUp(total * 0, total) = 0
    BY HalfUpExact
  <2>2. 0 * w = 0 /\ total * 0 = 0
    OBVIOUS
  <2>3. CASE amount = 0
    BY <2>1, <2>2, <2>3
  <2>4. CASE withheld = 0
    BY <2>1, <2>2, <2>4
  <2> QED
    BY <1>14, <2>3, <2>4
<1> QED
  BY <1>3, <1>4, <1>12, <1>13, <1>14

\* The parts of a total add up to it: the last takes what the others leave.
LEMMA PartsAddUp ==
  ASSUME NEW S, IsFiniteSet(S), NEW last \in S, NEW total \in Int,
         NEW w, \A r \in S : w[r] \in Int,
         NEW f, \A r \in S : f[r] = Part(total, w, S, last, r)
  PROVE  /\ \A r \in S : f[r] \in Int
         /\ Sum(f, S) = total
<1> DEFINE base == Sum(w, S)
           Q == S \ {last}
           share == [q \in Q |-> IF base = 0 THEN 0 ELSE HalfUp(total * w[q], base)]
<1>1. base \in Int
  BY SumInt DEF Sum
<1>2. \A q \in Q : share[q] \in Int
  <2> SUFFICES ASSUME NEW q \in Q, base # 0 PROVE HalfUp(total * w[q], base) \in Int
    OBVIOUS
  <2>1. total * w[q] \in Int
    OBVIOUS
  <2> QED
    BY <1>1, <2>1, HalfUpInt
<1>3. IsFiniteSet(Q) /\ last \notin Q /\ S = Q \cup {last}
  BY FS_RemoveElement
<1>4. Sum(share, Q) \in Int
  BY <1>2, <1>3, SumInt DEF Sum
<1>5. \A r \in Q : f[r] = share[r]
  BY DEF Part
<1>6. f[last] = total - Sum(share, Q)
  BY DEF Part
<1> HIDE DEF share, Q
<1>7. Sum(f, Q) = Sum(share, Q)
  BY <1>3, <1>5, SumSame DEF Sum
<1>8. \A r \in S : f[r] \in Int
  BY <1>2, <1>3, <1>4, <1>5, <1>6
<1>9. Sum(f, S) = f[last] + Sum(f, Q)
  BY <1>8, SumRemove DEF Sum, Q
<1> QED
  BY <1>4, <1>6, <1>7, <1>8, <1>9

\* A part is a whole number of paise.
LEMMA PartInt ==
  ASSUME NEW S, IsFiniteSet(S), NEW last \in S, NEW total \in Int,
         NEW w, \A r \in S : w[r] \in Int, NEW r \in S
  PROVE  Part(total, w, S, last, r) \in Int
<1> DEFINE f == [q \in S |-> Part(total, w, S, last, q)]
<1>1. \A q \in S : f[q] = Part(total, w, S, last, q)
  OBVIOUS
<1> HIDE DEF f
<1>2. f[r] \in Int
  BY <1>1, PartsAddUp
<1> QED
  BY <1>1, <1>2

\* There are finitely many releases.
LEMMA FiniteReleases == ASSUME NEW S, S \subseteq Releases PROVE IsFiniteSet(S)
<1>1. IsFiniteSet(Releases)
  BY FS_Interval, ConstantsAssumption DEF ConstantsAssumption, Releases
<1> QED
  BY <1>1, FS_Subset

\* The tax on a whole number is one.
LEMMA TaxInt == ASSUME NEW s \in Int PROVE Tax(s) \in Int
<1>1. s * TaxRate \in Int
  BY ConstantsAssumption DEF ConstantsAssumption
<1> QED
  BY <1>1, HalfUpInt DEF Tax

\* Weights that agree give the same parts.
LEMMA PartSame ==
  ASSUME NEW S, IsFiniteSet(S), NEW w, NEW v, \A q \in S : w[q] = v[q],
         NEW last, NEW total, NEW r \in S
  PROVE  Part(total, w, S, last, r) = Part(total, v, S, last, r)
<1> DEFINE Q == S \ {last}
           Share(f, q) == IF Sum(f, S) = 0 THEN 0 ELSE HalfUp(total * f[q], Sum(f, S))
<1>1. Sum(w, S) = Sum(v, S)
  BY SumSame DEF Sum
<1>2. \A q \in S : Share(w, q) = Share(v, q)
  BY <1>1
<1>3. Sum([q \in Q |-> Share(w, q)], Q) = Sum([q \in Q |-> Share(v, q)], Q)
  BY <1>2
<1>4. \A f : Part(total, f, S, last, r) =
                 IF r # last THEN Share(f, r) ELSE total - Sum([q \in Q |-> Share(f, q)], Q)
  BY DEF Part
<1> HIDE DEF Share
<1> QED
  BY <1>2, <1>3, <1>4

\* A payment of all that the releases S owe, w, is spread over them: a in money and t in
\* TDS, which leaves left.
Clearing(S, last, amount, withheld, w, a, t, left) ==
  /\ IsFiniteSet(S) /\ last \in S /\ amount \in Nat /\ withheld \in Nat
  /\ \A r \in S : w[r] \in Nat
  /\ Sum(w, S) = amount + withheld /\ amount + withheld > 0
  /\ \A r \in S : a[r] = Part(amount, w, S, last, r) /\ t[r] = Part(withheld, w, S, last, r)
  /\ \A r \in S : left[r] \in Nat /\ (left[r] = 0 \/ left[r] <= w[r] - a[r] - t[r])

\* It leaves the last of them at most a paisa for each of the others.
LEMMA SharesClear ==
  ASSUME NEW S, NEW last, NEW amount, NEW withheld, NEW w, NEW a, NEW t, NEW left,
         Clearing(S, last, amount, withheld, w, a, t, left)
  PROVE  Sum(left, S) <= IF 0 \in {amount, withheld} THEN 0 ELSE Cardinality(S) - 1
<1> USE DEF Clearing
<1> DEFINE Q == S \ {last}
           k == IF 0 \in {amount, withheld} THEN 0 ELSE 1
           paid == [r \in S |-> a[r] + t[r]]
           extra == [r \in S |-> k]
           most == [r \in S |-> w[r] + extra[r]]
           total == amount + withheld
<1>0. total = amount + withheld /\ total \in Nat \ {0} /\ Sum(w, S) = total
  OBVIOUS
<1>1. IsFiniteSet(Q) /\ Cardinality(Q) = Cardinality(S) - 1 /\ Q \subseteq S
  BY FS_RemoveElement
<1>2. (\A r \in S : a[r] \in Int) /\ Sum(a, S) = amount
  BY PartsAddUp
<1>3. (\A r \in S : t[r] \in Int) /\ Sum(t, S) = withheld
  BY PartsAddUp
<1>4. \A r \in S : paid[r] = a[r] + t[r] /\ paid[r] \in Int
  BY <1>2, <1>3
<1>5. \A r \in S : most[r] = w[r] + extra[r] /\ extra[r] = k /\ k \in {0, 1}
  OBVIOUS
<1>6. \A r \in Q : w[r] <= paid[r] /\ paid[r] <= most[r]
  <2> SUFFICES ASSUME NEW r \in Q PROVE w[r] <= paid[r] /\ paid[r] <= most[r]
    OBVIOUS
  <2>1. r \in S /\ r # last /\ w[r] \in Nat
    OBVIOUS
  <2>3. a[r] = HalfUp(amount * w[r], total) /\ t[r] = HalfUp(withheld * w[r], total)
    BY <2>1, <1>0 DEF Part
  <2> HIDE DEF total
  <2>4. PICK x, y, z : x = w[r] /\ y = a[r] /\ z = t[r]
    OBVIOUS
  <2>5. /\ a[r] \in Nat /\ t[r] \in Nat /\ w[r] <= a[r] + t[r] /\ a[r] + t[r] <= w[r] + 1
        /\ 0 \in {amount, withheld} => a[r] + t[r] = w[r]
    <3>1. /\ x \in Nat /\ y = HalfUp(amount * x, total) /\ z = HalfUp(withheld * x, total)
      BY <2>1, <2>3, <2>4
    <3>2. /\ y \in Nat /\ z \in Nat /\ x <= y + z /\ y + z <= x + 1
          /\ 0 \in {amount, withheld} => y + z = x
      BY <1>0, <3>1, SharedTwice
    <3> QED
      BY <2>4, <3>2
  <2>6. paid[r] = a[r] + t[r] /\ most[r] = w[r] + k
    BY <2>1
  <2>7. CASE 0 \in {amount, withheld}
    BY <2>1, <2>5, <2>6, <2>7
  <2>8. CASE 0 \notin {amount, withheld}
    BY <2>1, <2>5, <2>6, <2>8
  <2> QED
    BY <2>7, <2>8
<1> HIDE DEF paid, most, extra
<1>7. Sum(paid, S) = Sum(w, S)
  <2>1. Sum(paid, S) = Sum(a, S) + Sum(t, S)
    BY <1>2, <1>3, <1>4, SumPlus DEF Sum
  <2> QED
    BY <1>2, <1>3, <2>1
<1>8. \A r \in S : w[r] \in Int /\ paid[r] \in Int /\ most[r] \in Int /\ extra[r] \in Int
  BY <1>4, <1>5
<1>9. /\ Sum(paid, S) = paid[last] + Sum(paid, Q)
      /\ Sum(w, S) = w[last] + Sum(w, Q)
  BY <1>8, SumRemove DEF Sum
<1>10. Sum(paid, Q) <= Sum(most, Q)
  <2>1. \A r \in Q : paid[r] \in Int /\ most[r] \in Int /\ paid[r] <= most[r]
    BY <1>6, <1>8
  <2> QED
    BY <1>1, <2>1, SumAtMost DEF Sum
<1>11. Sum(most, Q) = Sum(w, Q) + Sum(extra, Q)
  <2>1. \A r \in Q : w[r] \in Int /\ extra[r] \in Int /\ most[r] = w[r] + extra[r]
    BY <1>5, <1>8
  <2> QED
    BY <1>1, <2>1, SumPlus DEF Sum
<1>12. Sum(extra, Q) = IF 0 \in {amount, withheld} THEN 0 ELSE Cardinality(S) - 1
  <2>1. CASE 0 \in {amount, withheld}
    <3>1. \A r \in Q : extra[r] = 0
      BY <1>5, <2>1
    <3> QED
      BY <1>1, <2>1, <3>1, SumZero DEF Sum
  <2>2. CASE 0 \notin {amount, withheld}
    <3>1. \A r \in Q : extra[r] = 1
      BY <1>5, <2>2
    <3> QED
      BY <1>1, <2>2, <3>1, SumOnes DEF Sum
  <2> QED
    BY <2>1, <2>2
<1>13. \A r \in Q : left[r] = 0
  BY <1>2, <1>3, <1>4, <1>6
<1>14. Sum(left, Q) = 0
  BY <1>1, <1>13, SumZero DEF Sum
<1>15. \A r \in S : left[r] \in Int
  OBVIOUS
<1>16. Sum(left, S) = left[last] + Sum(left, Q)
  BY <1>15, SumRemove DEF Sum
<1>17. /\ Sum(w, Q) \in Int /\ Sum(paid, Q) \in Int /\ Sum(most, Q) \in Int
       /\ Sum(extra, Q) \in Int
  <2>1. \A r \in Q : w[r] \in Int /\ paid[r] \in Int /\ most[r] \in Int /\ extra[r] \in Int
    BY <1>8
  <2> QED
    BY <1>1, <2>1, SumInt DEF Sum
<1>18. w[last] - paid[last] <= Sum(extra, Q)
  BY <1>7, <1>8, <1>9, <1>10, <1>11, <1>17
<1>19. 0 <= Sum(extra, Q)
  <2>1. Cardinality(Q) \in Nat
    BY <1>1, FS_CardinalityType
  <2> QED
    BY <1>1, <1>12, <2>1
<1>20. left[last] <= Sum(extra, Q)
  <2>1. left[last] = 0 \/ left[last] <= w[last] - paid[last]
    BY <1>2, <1>3, <1>4
  <2> QED
    BY <1>8, <1>15, <1>17, <1>18, <1>19, <2>1
<1> QED
  BY <1>12, <1>14, <1>15, <1>16, <1>20

-----------------------------------------------------------------------------
(* Types.  Shares are rounded, divided and taken from a total, and stay    *)
(* whole numbers of paise.                                                 *)

\* What a request sees of the ledger.
SeenTypes == [commission : [Releases -> Nat], gst : [Releases -> Int],
              received : [Releases -> Int], tds : [Releases -> Int]]

\* A view of the ledger is well typed.
LEMMA LedgerTyped == ASSUME MoneyTypes, NEW S PROVE Ledger(S) \in SeenTypes
  BY DEF MoneyTypes, Ledger, ColumnOf, SeenTypes

\* What is owed, and the weights a payment is spread by, are whole numbers of paise.
LEMMA WeightsInt ==
  ASSUME NEW m \in SeenTypes, NEW S, S \subseteq Releases
  PROVE  /\ \A r \in Releases : /\ TotalDue(m, r) \in Int /\ TotalSettled(m, r) \in Int
                                /\ Owed(m)[r] \in Nat /\ Owed(m)[r] = Shortfall(m, r)
         /\ \A r \in S : Weights(m, S)[r] \in Int
<1>1. ASSUME NEW r \in Releases
      PROVE  /\ TotalDue(m, r) \in Int /\ TotalSettled(m, r) \in Int
             /\ Owed(m)[r] \in Nat /\ Owed(m)[r] = Shortfall(m, r)
  <2>1. /\ m.commission[r] \in Int /\ m.gst[r] \in Int
        /\ m.received[r] \in Int /\ m.tds[r] \in Int
    BY <1>1 DEF SeenTypes
  <2>2. TotalDue(m, r) \in Int /\ TotalSettled(m, r) \in Int
    BY <2>1 DEF TotalDue, TotalSettled
  <2>3. Owed(m)[r] = Shortfall(m, r)
    BY <1>1 DEF Owed
  <2> QED
    BY <2>2, <2>3 DEF Shortfall
<1>2. ASSUME NEW r \in S PROVE Weights(m, S)[r] \in Int
  <2>1. Owed(m)[r] \in Int /\ TotalDue(m, r) \in Int
    BY <1>1, <1>2
  <2> QED
    BY <1>2, <2>1 DEF Weights
<1> QED
  BY <1>1, <1>2

\* A column keeps its type when a number is stored in it.
LEMMA StoredInt ==
  ASSUME NEW old, NEW new \in Int, NEW now \in Int PROVE Stored(old, new, now) \in Int
  BY DEF Stored

\* Well typed initially.
LEMMA TypeInit == Init => TypeOK
<1> SUFFICES ASSUME Init PROVE TypeOK
  OBVIOUS
<1>1. LinkTypes /\ RequestTypes
  BY LinkInit DEF LinkInv
<1>2. MoneyTypes
  BY ConstantsAssumption DEF ConstantsAssumption, Init, MoneyTypes, Nothing, NothingSeen
<1> QED
  BY <1>1, <1>2 DEF TypeOK

\* A payment that is booked in whole paise keeps the types.
LEMMA BooksTyped ==
  ASSUME TypeOK, NEW u \in Users, NEW a, NEW t, Books(u, a, t),
         \A r \in rows[u] : a[r] \in Int /\ t[r] \in Int
  PROVE  MoneyTypes'
<1> DEFINE paid == rows[u] \cap present
           add == [r \in Releases |-> IF r \in paid
                      THEN Stored(seen[u].received[r], PaidOnTop(seen[u].received[r], a[r]),
                                  received[r])
                      ELSE received[r]]
           addTds == [r \in Releases |-> IF r \in paid
                         THEN Stored(seen[u].tds[r], PaidOnTop(seen[u].tds[r], t[r]), tds[r])
                         ELSE tds[r]]
<1>1. /\ received' = add /\ tds' = addTds
      /\ booked' = [r \in Releases |-> IF r \in paid THEN booked[r] + a[r] ELSE booked[r]]
      /\ deducted' = [r \in Releases |-> IF r \in paid THEN deducted[r] + t[r] ELSE deducted[r]]
      /\ UNCHANGED <<commission, gst, retaxed, total_tax, changes, faults>> /\ Ends(u)
      /\ payments < MaxPayments /\ payments' = payments + 1
  BY DEF Books, billVars
<1>2. rows[u] \subseteq Releases /\ seen[u] \in SeenTypes
  BY DEF TypeOK, RequestTypes, MoneyTypes, SeenTypes
<1>3. \A r \in Releases : /\ received[r] \in Int /\ tds[r] \in Int
                          /\ booked[r] \in Int /\ deducted[r] \in Int
                          /\ seen[u].received[r] \in Int /\ seen[u].tds[r] \in Int
  BY <1>2 DEF TypeOK, MoneyTypes, SeenTypes
<1>4. add \in [Releases -> Int] /\ addTds \in [Releases -> Int]
  BY <1>2, <1>3, StoredInt DEF PaidOnTop
<1>5. booked' \in [Releases -> Int] /\ deducted' \in [Releases -> Int]
  BY <1>1, <1>2, <1>3
<1>6. seen' \in [Users -> SeenTypes]
  BY <1>1 DEF Ends, TypeOK, MoneyTypes, SeenTypes, Nothing, NothingSeen
<1>7. payments' \in 0..MaxPayments
  BY <1>1, ConstantsAssumption DEF ConstantsAssumption, TypeOK, MoneyTypes
<1> HIDE DEF add, addTds
<1> QED
  BY <1>1, <1>4, <1>5, <1>6, <1>7 DEF TypeOK, MoneyTypes, SeenTypes

\* A payment is spread in whole paise.
LEMMA PayWritesTyped ==
  ASSUME TypeOK, NEW u \in Users, PayWrites(u) PROVE MoneyTypes'
<1>1. PICK receipt \in Receipts :
         PayShared(u, receipt[1], receipt[2]) \/ PayItemised(u, receipt[1], receipt[2])
  BY DEF PayWrites
<1>2. receipt[1] \in Nat /\ receipt[2] \in Nat
  BY ConstantsAssumption DEF ConstantsAssumption
<1>3. rows[u] \subseteq Releases /\ IsFiniteSet(rows[u]) /\ seen[u] \in SeenTypes
  BY FiniteReleases DEF TypeOK, RequestTypes, MoneyTypes, SeenTypes
<1>4. CASE PayShared(u, receipt[1], receipt[2])
  <2>1. PICK last \in rows[u] :
           Books(u, Parts(u, receipt[1], last), Parts(u, receipt[2], last))
    BY <1>4 DEF PayShared
  <2>2. \A r \in rows[u] : Weights(seen[u], rows[u])[r] \in Int
    BY <1>3, WeightsInt
  <2>3. ASSUME NEW total \in Int, NEW r \in rows[u] PROVE Parts(u, total, last)[r] \in Int
    BY <1>3, <2>2, PartInt DEF Parts
  <2> QED
    BY <1>2, <2>1, <2>3, BooksTyped
<1>5. CASE PayItemised(u, receipt[1], receipt[2])
  <2> DEFINE share(split) == [r \in rows[u] |-> IF receipt[1] = 0 THEN 0
                                  ELSE HalfUp(receipt[2] * split[r], receipt[1])]
  <2>1. PICK split \in [rows[u] -> Itemised] : Books(u, split, share(split))
    BY <1>5 DEF PayItemised
  <2>2. \A r \in rows[u] : split[r] \in Int
    BY ConstantsAssumption DEF ConstantsAssumption
  <2>3. \A r \in rows[u] : share(split)[r] \in Int
    <3> SUFFICES ASSUME NEW r \in rows[u], receipt[1] # 0
                 PROVE  HalfUp(receipt[2] * split[r], receipt[1]) \in Int
      OBVIOUS
    <3>1. receipt[2] * split[r] \in Int /\ receipt[1] \in Int
      BY <1>2, <2>2
    <3> QED
      BY <3>1, HalfUpInt
  <2> HIDE DEF share
  <2> QED
    BY <2>1, <2>2, <2>3, BooksTyped
<1> QED
  BY <1>1, <1>4, <1>5

\* An edit types whole numbers of paise.
LEMMA CorrectWritesTyped ==
  ASSUME TypeOK, NEW u \in Users, CorrectWrites(u) PROVE MoneyTypes'
<1>1. PICK r \in rows[u] \cap present, e \in Edits :
          /\ commission' = [commission EXCEPT
                ![r] = Typed(e, "commission", seen[u].commission[r], commission[r])]
          /\ gst' = [gst EXCEPT ![r] = Typed(e, "gst", seen[u].gst[r], gst[r])]
          /\ received' = [received EXCEPT
                ![r] = Typed(e, "received", seen[u].received[r], received[r])]
          /\ tds' = [tds EXCEPT ![r] = Typed(e, "tds", seen[u].tds[r], tds[r])]
          /\ booked' = [booked EXCEPT ![r] = Value(e, "received", booked[r])]
          /\ deducted' = [deducted EXCEPT ![r] = Value(e, "tds", deducted[r])]
          /\ retaxed' = IF "gst" \in DOMAIN e THEN retaxed \cup {r} ELSE retaxed
  BY DEF CorrectWrites
<1>2. /\ UNCHANGED <<total_tax, changes, faults>> /\ Ends(u)
      /\ payments < MaxPayments /\ payments' = payments + 1
  BY DEF CorrectWrites, billVars
<1>3. r \in Releases
  BY DEF TypeOK, RequestTypes
<1>4. ASSUME NEW c, NEW old, NEW now \in Nat PROVE Typed(e, c, old, now) \in Nat
  BY EditsAssumption DEF EditsAssumption, Typed, Stored
<1>5. ASSUME NEW c, NEW old, NEW now \in Int
      PROVE  Typed(e, c, old, now) \in Int /\ Value(e, c, now) \in Int
  BY EditsAssumption DEF EditsAssumption, Typed, Stored, Value
<1>6. /\ commission[r] \in Nat /\ gst[r] \in Int /\ received[r] \in Int /\ tds[r] \in Int
      /\ booked[r] \in Int /\ deducted[r] \in Int
  BY <1>3 DEF TypeOK, MoneyTypes
<1>7. /\ Typed(e, "commission", seen[u].commission[r], commission[r]) \in Nat
      /\ Typed(e, "gst", seen[u].gst[r], gst[r]) \in Int
      /\ Typed(e, "received", seen[u].received[r], received[r]) \in Int
      /\ Typed(e, "tds", seen[u].tds[r], tds[r]) \in Int
      /\ Value(e, "received", booked[r]) \in Int
      /\ Value(e, "tds", deducted[r]) \in Int
  BY <1>4, <1>5, <1>6
<1>8. /\ commission' \in [Releases -> Nat] /\ gst' \in [Releases -> Int]
      /\ received' \in [Releases -> Int] /\ tds' \in [Releases -> Int]
  BY <1>1, <1>3, <1>7 DEF TypeOK, MoneyTypes
<1>9. booked' \in [Releases -> Int] /\ deducted' \in [Releases -> Int]
  BY <1>1, <1>3, <1>7 DEF TypeOK, MoneyTypes
<1>10. retaxed' \subseteq Releases
  BY <1>1, <1>3 DEF TypeOK, MoneyTypes
<1>11. seen' \in [Users -> SeenTypes]
  BY <1>2 DEF Ends, TypeOK, MoneyTypes, SeenTypes, Nothing, NothingSeen
<1>12. payments' \in 0..MaxPayments
  BY <1>2, ConstantsAssumption DEF ConstantsAssumption, TypeOK, MoneyTypes
<1> QED
  BY <1>2, <1>8, <1>9, <1>10, <1>11, <1>12 DEF TypeOK, MoneyTypes, SeenTypes

\* Billing issues and shares whole paise of tax.
LEMMA BillingTyped ==
  ASSUME TypeOK, Issued, NEW u \in Users, BillingStep(u) PROVE MoneyTypes'
<1> USE DEF billVars, boundVars
<1>t. MoneyTypes /\ NothingSeen \in SeenTypes
  BY DEF TypeOK, Nothing, NothingSeen, SeenTypes
<1>r. rows[u] \subseteq Releases /\ IsFiniteSet(rows[u])
  BY FiniteReleases DEF TypeOK, RequestTypes
<1>s. \A r \in rows[u] : seen[u].commission[r] \in Int /\ seen[u].gst[r] \in Int
  BY <1>t, <1>r DEF MoneyTypes
<1>1. CASE RaiseReads(u)
  <2>1. ASSUME NEW S PROVE Ledger(S) \in SeenTypes
    BY <1>t, LedgerTyped
  <2> QED
    BY <1>1, <1>t, <2>1 DEF RaiseReads, Takes, moneyVars, MoneyTypes, SeenTypes
<1>2. CASE RaiseIssues(u)
  <2>1. Tax(Sum(seen[u].commission, rows[u])) \in Int
    BY <1>r, <1>s, SumInt, TaxInt DEF Sum
  <2> QED
    BY <1>2, <1>t, <2>1 DEF RaiseIssues, moneyVars, MoneyTypes
<1>3. CASE RaiseLinks(u)
  <2>1. PICK last \in rows[u] :
           gst' = [r \in Releases |->
                     IF r \in LinkedBy(u)
                     THEN Stored(seen[u].gst[r], TaxShare(u, last, r), gst[r]) ELSE gst[r]]
    BY <1>3 DEF RaiseLinks
  <2>2. total_tax[bill[u]] \in Int
    BY <1>3, <1>t DEF RaiseLinks, Issued, MoneyTypes
  <2>3. \A r \in rows[u] : TaxShare(u, last, r) \in Int
    BY <1>r, <1>s, <2>2, PartInt DEF TaxShare
  <2>4. gst' \in [Releases -> Int]
    BY <2>1, <2>3, <1>t, StoredInt DEF LinkedBy, MoneyTypes
  <2> QED
    BY <1>3, <1>t, <2>4 DEF RaiseLinks, Ends, MoneyTypes, SeenTypes
<1>4. CASE RaiseLosesRow(u)
  BY <1>4, <1>t DEF RaiseLosesRow, Ends, moneyVars, MoneyTypes, SeenTypes
<1> QED
  BY <1>1, <1>2, <1>3, <1>4 DEF BillingStep

\* Every step of a request keeps the types.
LEMMA TypeStep ==
  ASSUME TypeOK, Issued, LinkTypes', RequestTypes', NEW u \in Users,
         BillingStep(u) \/ MoneyStep(u) \/ OtherStep(u)
  PROVE  TypeOK'
<1> SUFFICES MoneyTypes'
  BY DEF TypeOK
<1> USE DEF billVars, boundVars, moneyVars
<1>t. MoneyTypes /\ NothingSeen \in SeenTypes /\ \A S : Ledger(S) \in SeenTypes
  BY LedgerTyped DEF TypeOK, Nothing, NothingSeen, SeenTypes
<1>c. MaxChanges \in Nat /\ MaxFaults \in Nat
  BY ConstantsAssumption DEF ConstantsAssumption
<1>1. CASE BillingStep(u)
  BY <1>1, BillingTyped
<1>2. CASE PayBegins(u)
  BY <1>2, <1>t DEF PayBegins, MoneyTypes
<1>3. CASE PayReads(u)
  BY <1>3, <1>t DEF PayReads, Takes, MoneyTypes, SeenTypes
<1>4. CASE PayFindsNothing(u)
  BY <1>4, <1>t DEF PayFindsNothing, Ends, MoneyTypes, SeenTypes
<1>5. CASE PayWrites(u)
  BY <1>5, PayWritesTyped
<1>6. CASE CorrectReads(u)
  BY <1>6, <1>t DEF CorrectReads, Takes, MoneyTypes, SeenTypes
<1>7. CASE CorrectWrites(u)
  BY <1>7, CorrectWritesTyped
<1>8. CASE OtherStep(u)
  <2>1. CASE VoidReads(u) \/ PaidReads(u)
    BY <2>1, <1>t, <1>c DEF VoidReads, PaidReads, Changes, MoneyTypes
  <2>2. CASE DeleteReads(u)
    BY <2>2, <1>t, <1>c DEF DeleteReads, Takes, Changes, MoneyTypes, SeenTypes
  <2>3. CASE VoidWrites(u) \/ PaidWrites(u) \/ DeleteWrites(u)
    <3>1. Ends(u) /\ UNCHANGED <<moneyVars, total_tax, payments, changes, faults>>
      BY <2>3 DEF VoidWrites, PaidWrites, DeleteWrites
    <3> QED
      BY <3>1, <1>t DEF Ends, MoneyTypes, SeenTypes
  <2>4. CASE RequestFails(u)
    BY <2>4, <1>t, <1>c DEF RequestFails, Ends, MoneyTypes, SeenTypes
  <2> QED
    BY <1>8, <2>1, <2>2, <2>3, <2>4 DEF OtherStep
<1> QED
  BY <1>1, <1>2, <1>3, <1>4, <1>5, <1>6, <1>7, <1>8 DEF MoneyStep

\* Every step keeps the types.
LEMMA TypeKept == LinkInv /\ LinkInv' /\ TypeOK /\ [Next]_vars => TypeOK'
<1> SUFFICES ASSUME LinkInv, LinkInv', TypeOK, [Next]_vars PROVE TypeOK'
  OBVIOUS
<1>1. CASE Next
  BY <1>1, TypeStep DEF LinkInv, Next
<1>2. CASE UNCHANGED vars
  BY <1>2 DEF vars, moneyVars, billVars, readVars, boundVars, TypeOK, LinkTypes, RequestTypes,
              MoneyTypes
<1> QED
  BY <1>1, <1>2

\* Every state is well typed: amounts stay whole numbers of paise, however they are
\* shared, rounded and taken from one another.
THEOREM TypeCorrect == Spec => []TypeOK
<1>1. LinkInv /\ TypeOK /\ [Next]_vars => TypeOK' /\ LinkInv'
  BY LinkStep, TypeKept
<1> QED
  BY <1>1, LinkInit, TypeInit, PTL DEF Spec

-----------------------------------------------------------------------------
(* The money.  What a request has read of a release no other request       *)
(* holds is still what the release has when the request writes.            *)

\* What u has read of r is so.
Fresh(u, r) ==
    /\ seen[u].commission[r] = commission[r] /\ seen[u].gst[r] = gst[r]
    /\ seen[u].received[r] = received[r] /\ seen[u].tds[r] = tds[r]

ReadIsTrue == \A u \in Users : \A r \in rows[u] \cap Alone : Fresh(u, r)

\* The inductive invariant of the money, given that of the links.
MoneyInv == ReadIsTrue /\ NothingLost

\* What is written of a release.
SameMoney(r) ==
    /\ commission'[r] = commission[r] /\ gst'[r] = gst[r]
    /\ received'[r] = received[r] /\ tds'[r] = tds[r]
    /\ booked'[r] = booked[r] /\ deducted'[r] = deducted[r]

\* A request ends, having written to no release but those it read, and to those what it
\* was told.
Writes(u) ==
    /\ Ends(u)
    /\ \A r \in Releases \ rows[u] : SameMoney(r)
    /\ \A r \in rows[u] \cap present \cap Alone :
          received'[r] = booked'[r] /\ tds'[r] = deducted'[r]

\* The money holds initially.
LEMMA MoneyInit == Init => MoneyInv
  BY DEF Init, MoneyInv, ReadIsTrue, NothingLost, Nothing, Alone

\* A payment ends its request, on the releases it read.
LEMMA BooksWrite ==
    ASSUME TypeOK, MoneyInv, NEW u \in Users, NEW a, NEW t, Books(u, a, t)
    PROVE  Writes(u)
<1>1. Ends(u) /\ commission' = commission /\ gst' = gst
  BY DEF Books
<1>2. ASSUME NEW r \in Releases, r \notin rows[u] PROVE SameMoney(r)
  BY <1>1, <1>2 DEF Books, SameMoney
<1>3. ASSUME NEW r \in rows[u] \cap present \cap Alone
      PROVE  received'[r] = booked'[r] /\ tds'[r] = deducted'[r]
  <2>1. r \in Releases
    BY DEF TypeOK, RequestTypes
  <2>2. /\ seen[u].received[r] = received[r] /\ seen[u].tds[r] = tds[r]
        /\ received[r] = booked[r] /\ tds[r] = deducted[r]
    BY <1>3 DEF MoneyInv, ReadIsTrue, Fresh, NothingLost
  <2> QED
    BY <2>1, <2>2 DEF Books, PaidOnTop, Stored
<1> QED
  BY <1>1, <1>2, <1>3 DEF Writes

\* So does an edit.
LEMMA CorrectWritesWrite ==
    ASSUME TypeOK, MoneyInv, NEW u \in Users, CorrectWrites(u) PROVE Writes(u)
<1>1. PICK r \in rows[u] \cap present, e \in Edits :
          /\ commission' = [commission EXCEPT
                ![r] = Typed(e, "commission", seen[u].commission[r], commission[r])]
          /\ gst' = [gst EXCEPT ![r] = Typed(e, "gst", seen[u].gst[r], gst[r])]
          /\ received' = [received EXCEPT
                ![r] = Typed(e, "received", seen[u].received[r], received[r])]
          /\ tds' = [tds EXCEPT ![r] = Typed(e, "tds", seen[u].tds[r], tds[r])]
          /\ booked' = [booked EXCEPT ![r] = Value(e, "received", booked[r])]
          /\ deducted' = [deducted EXCEPT ![r] = Value(e, "tds", deducted[r])]
  BY DEF CorrectWrites
<1>2. Ends(u)
  BY DEF CorrectWrites
<1>3. ASSUME NEW q \in Releases, q \notin rows[u] PROVE SameMoney(q)
  BY <1>1, <1>3 DEF SameMoney, TypeOK, MoneyTypes
<1>4. ASSUME NEW q \in rows[u] \cap present \cap Alone
      PROVE  received'[q] = booked'[q] /\ tds'[q] = deducted'[q]
  <2>1. q \in Releases /\ r \in Releases
    BY DEF TypeOK, RequestTypes
  <2>2. /\ seen[u].received[q] = received[q] /\ seen[u].tds[q] = tds[q]
        /\ received[q] = booked[q] /\ tds[q] = deducted[q]
    BY <1>4 DEF MoneyInv, ReadIsTrue, Fresh, NothingLost
  <2>3. ASSUME NEW c, NEW n PROVE Typed(e, c, n, n) = Value(e, c, n)
    BY DEF Typed, Value, Stored
  <2>4. CASE q = r
    BY <1>1, <2>1, <2>2, <2>3, <2>4 DEF TypeOK, MoneyTypes
  <2>5. CASE q # r
    BY <1>1, <2>1, <2>2, <2>5 DEF TypeOK, MoneyTypes
  <2> QED
    BY <2>4, <2>5
<1> QED
  BY <1>2, <1>3, <1>4 DEF Writes

\* Every step reads, writes what was read, or leaves the money alone.
LEMMA MoneyShape ==
    ASSUME LinkInv, TypeOK, MoneyInv, NEW u \in Users,
           BillingStep(u) \/ MoneyStep(u) \/ OtherStep(u)
    PROVE  /\ present' \subseteq present /\ raced \subseteq raced'
           /\ \/ UNCHANGED <<moneyVars, rows, seen>>
              \/ UNCHANGED moneyVars /\ \E S \in SUBSET Releases : Takes(u, S)
              \/ Writes(u)
<1> USE DEF boundVars, Goto, Changes
<1>t. LinkTypes /\ RequestTypes /\ NothingLost
  BY DEF LinkInv, MoneyInv
<1>w. ASSUME Ends(u), UNCHANGED moneyVars PROVE Writes(u)
  <2>1. \A r \in Releases : SameMoney(r)
    BY <1>w DEF moneyVars, SameMoney
  <2>2. \A r \in present \cap Alone : received'[r] = booked'[r] /\ tds'[r] = deducted'[r]
    BY <1>w, <1>t DEF moneyVars, NothingLost
  <2> QED
    BY <1>w, <2>1, <2>2 DEF Writes
<1>1. CASE RaiseReads(u)
  BY <1>1 DEF RaiseReads, Takes
<1>2. CASE RaiseIssues(u)
  BY <1>2 DEF RaiseIssues
<1>3. CASE RaiseLinks(u)
  <2>1. /\ Ends(u) /\ UNCHANGED <<commission, received, tds, booked, deducted, present, raced>>
        /\ \A r \in Releases \ rows[u] : gst'[r] = gst[r]
    BY <1>3 DEF RaiseLinks, LinkedBy
  <2>2. \A r \in Releases \ rows[u] : SameMoney(r)
    BY <2>1 DEF SameMoney
  <2>3. \A r \in present \cap Alone : received'[r] = booked'[r] /\ tds'[r] = deducted'[r]
    BY <2>1, <1>t DEF NothingLost
  <2> QED
    BY <2>1, <2>2, <2>3 DEF Writes
<1>4. CASE RaiseLosesRow(u)
  BY <1>4, <1>w DEF RaiseLosesRow
<1>5. CASE PayBegins(u)
  BY <1>5 DEF PayBegins
<1>6. CASE PayReads(u)
  BY <1>6, <1>t DEF PayReads, Takes, BilledBy, LinkTypes
<1>7. CASE PayFindsNothing(u)
  BY <1>7, <1>w DEF PayFindsNothing
<1>8. CASE PayWrites(u)
  <2> PICK a, t : Books(u, a, t)
    BY <1>8 DEF PayWrites, PayShared, PayItemised
  <2>1. present' = present /\ raced' = raced
    BY DEF Books
  <2> QED
    BY <2>1, BooksWrite
<1>9. CASE CorrectReads(u)
  BY <1>9, <1>t DEF CorrectReads, Takes, LinkTypes
<1>10. CASE CorrectWrites(u)
  <2>1. present' = present /\ raced' = raced
    BY <1>10 DEF CorrectWrites
  <2> QED
    BY <1>10, <2>1, CorrectWritesWrite
<1>11. CASE VoidReads(u) \/ PaidReads(u)
  BY <1>11 DEF VoidReads, PaidReads
<1>12. CASE VoidWrites(u) \/ PaidWrites(u)
  BY <1>12, <1>w DEF VoidWrites, PaidWrites
<1>13. CASE DeleteReads(u)
  <2>1. PICK r \in Releases : Takes(u, {r})
    BY <1>13 DEF DeleteReads
  <2>2. present' = present /\ UNCHANGED moneyVars
    BY <1>13 DEF DeleteReads
  <2> QED
    BY <2>1, <2>2 DEF Takes
<1>14. CASE DeleteWrites(u)
  BY <1>14, <1>w DEF DeleteWrites
<1>15. CASE RequestFails(u)
  BY <1>15, <1>w DEF RequestFails
<1> QED
  BY <1>1, <1>2, <1>3, <1>4, <1>5, <1>6, <1>7, <1>8, <1>9, <1>10, <1>11, <1>12, <1>13, <1>14,
     <1>15
  DEF BillingStep, MoneyStep, OtherStep

\* Every step keeps the money.
LEMMA MoneyStepKeeps ==
    ASSUME LinkInv, TypeOK, MoneyInv, NEW u \in Users,
           BillingStep(u) \/ MoneyStep(u) \/ OtherStep(u)
    PROVE  MoneyInv'
<1>s. present' \subseteq present /\ raced \subseteq raced'
  BY MoneyShape
<1>t. /\ rows \in [Users -> SUBSET Releases] /\ DOMAIN seen = Users /\ present \subseteq Releases
  BY DEF TypeOK, LinkTypes, RequestTypes, MoneyTypes
<1>1. CASE UNCHANGED <<moneyVars, rows, seen>>
  BY <1>1, <1>s DEF moneyVars, MoneyInv, ReadIsTrue, Fresh, NothingLost, Alone
<1>2. ASSUME UNCHANGED moneyVars, NEW S \in SUBSET Releases, Takes(u, S) PROVE MoneyInv'
  <2>1. NothingLost'
    BY <1>2, <1>s DEF moneyVars, MoneyInv, NothingLost, Alone
  <2>2. ASSUME NEW v \in Users, NEW r \in rows'[v] \cap Alone' PROVE Fresh(v, r)'
    <3>1. r \in Alone /\ r \in Releases
      BY <1>s, <2>2 DEF Alone
    <3>2. CASE v = u
      <4>1. r \in S /\ seen'[u] = Ledger(S)
        BY <1>2, <1>t, <2>2, <3>2 DEF Takes
      <4> QED
        BY <1>2, <3>1, <3>2, <4>1 DEF moneyVars, Fresh, Ledger, ColumnOf
    <3>3. CASE v # u
      <4>1. rows'[v] = rows[v] /\ seen'[v] = seen[v]
        BY <1>2, <1>t, <3>3 DEF Takes
      <4>2. Fresh(v, r)
        BY <2>2, <3>1, <4>1 DEF MoneyInv, ReadIsTrue
      <4> QED
        BY <1>2, <4>1, <4>2 DEF moneyVars, Fresh
    <3> QED
      BY <3>2, <3>3
  <2> QED
    BY <2>1, <2>2 DEF MoneyInv, ReadIsTrue
<1>3. CASE Writes(u)
  <2>1. ASSUME NEW r \in present' \cap Alone'
        PROVE  received'[r] = booked'[r] /\ tds'[r] = deducted'[r]
    <3>1. r \in present \cap Alone /\ r \in Releases
      BY <1>s, <1>t, <2>1 DEF Alone
    <3>2. CASE r \in rows[u]
      BY <1>3, <3>1, <3>2 DEF Writes
    <3>3. CASE r \notin rows[u]
      BY <1>3, <3>1, <3>3 DEF Writes, SameMoney, MoneyInv, NothingLost
    <3> QED
      BY <3>2, <3>3
  <2>2. ASSUME NEW v \in Users, NEW r \in rows'[v] \cap Alone' PROVE Fresh(v, r)'
    <3>1. v # u /\ rows'[v] = rows[v] /\ seen'[v] = seen[v]
      BY <1>3, <1>t, <2>2 DEF Writes, Ends
    <3>2. r \in Alone /\ r \in Releases /\ r \in rows[v]
      BY <1>s, <2>2, <3>1 DEF Alone
    <3>3. r \notin rows[u]
      BY <3>1, <3>2 DEF LinkInv, Exclusive, Alone
    <3>4. Fresh(v, r) /\ SameMoney(r)
      BY <1>3, <3>2, <3>3 DEF MoneyInv, ReadIsTrue, Writes
    <3> QED
      BY <3>1, <3>4 DEF Fresh, SameMoney
  <2> QED
    BY <2>1, <2>2 DEF MoneyInv, ReadIsTrue, NothingLost
<1> QED
  BY <1>1, <1>2, <1>3, MoneyShape

\* Every step keeps the money.
LEMMA MoneyKept == LinkInv /\ TypeOK /\ MoneyInv /\ [Next]_vars => MoneyInv'
<1> SUFFICES ASSUME LinkInv, TypeOK, MoneyInv, [Next]_vars PROVE MoneyInv'
  OBVIOUS
<1>1. CASE Next
  BY <1>1, MoneyStepKeeps DEF Next
<1>2. CASE UNCHANGED vars
  BY <1>2 DEF vars, moneyVars, readVars, MoneyInv, ReadIsTrue, Fresh, NothingLost, Alone
<1> QED
  BY <1>1, <1>2

\* No payment and no correction is lost: a release that no two requests held at once has
\* received, and has had withheld, what was booked on it, for any amounts and any way of
\* spreading or itemising them.
THEOREM NothingIsLost == Spec => []NothingLost
<1>1. MoneyInv => NothingLost
  BY DEF MoneyInv
<1> QED
  BY <1>1, LinkInvariant, TypeCorrect, MoneyInit, MoneyKept, PTL DEF Spec

-----------------------------------------------------------------------------
(* The tax.  A raise shares the tax of the invoice it has issued among the  *)
(* releases it has read; on an invoice whose releases one request held, it  *)
(* stays so until an administrator types it.                                *)

\* Nothing is billed initially.
LEMMA TaxInit == Init => TaxAddsUp
  BY DEF Init, TaxAddsUp

\* Without a link, the tax changes where it is typed only, and that of an invoice does
\* when it is issued.
LEMMA TaxUntouched ==
  ASSUME LinkInv, TypeOK, NEW u \in Users, BillingStep(u) \/ MoneyStep(u) \/ OtherStep(u),
         ~RaiseLinks(u)
  PROVE  /\ retaxed \subseteq retaxed'
         /\ \A r \in Releases \ retaxed' : gst'[r] = gst[r]
         /\ \A b \in Bills : total_tax'[b] = total_tax[b] \/ status[b] = "none"
<1> USE DEF moneyVars, billVars
<1>1. CASE BillingStep(u)
  <2>1. CASE RaiseIssues(u)
    BY <2>1 DEF RaiseIssues, TypeOK, MoneyTypes
  <2>2. CASE RaiseReads(u) \/ RaiseLosesRow(u)
    BY <2>2 DEF RaiseReads, RaiseLosesRow
  <2> QED
    BY <1>1, <2>1, <2>2 DEF BillingStep
<1>2. CASE PayBegins(u) \/ PayReads(u) \/ PayFindsNothing(u) \/ CorrectReads(u)
  BY <1>2 DEF PayBegins, PayReads, PayFindsNothing, CorrectReads
<1>3. CASE PayWrites(u)
  <2> PICK a, t : Books(u, a, t)
    BY <1>3 DEF PayWrites, PayShared, PayItemised
  <2> QED
    BY DEF Books
<1>4. CASE CorrectWrites(u)
  <2>1. PICK r \in rows[u] \cap present, e \in Edits :
          /\ gst' = [gst EXCEPT ![r] = Typed(e, "gst", seen[u].gst[r], gst[r])]
          /\ retaxed' = IF "gst" \in DOMAIN e THEN retaxed \cup {r} ELSE retaxed
    BY <1>4 DEF CorrectWrites
  <2>2. total_tax' = total_tax
    BY <1>4 DEF CorrectWrites
  <2> QED
    BY <2>1, <2>2 DEF Typed, TypeOK, MoneyTypes
<1>5. CASE OtherStep(u)
  BY <1>5 DEF OtherStep, VoidReads, VoidWrites, PaidReads, PaidWrites, DeleteReads,
              DeleteWrites, RequestFails
<1> QED
  BY <1>1, <1>2, <1>3, <1>4, <1>5 DEF MoneyStep

\* A step after which an invoice counts, and that does not link it, finds it counting.
LEMMA StillCounts ==
  ASSUME LinkInv, NEW u \in Users,
         \/ Opens(u) \/ Closes(u) \/ \E S, place : Reads(u, S, place)
         \/ RaiseIssues(u) \/ DeleteWrites(u),
         NEW b \in Bills, lines'[b] # {}, lines'[b] \subseteq Alone', ~Raising(b)'
  PROVE  lines'[b] = lines[b] /\ lines[b] \subseteq Alone /\ ~Raising(b)
<1> USE DEF LinkInv, Raising
<1>1. CASE Opens(u)
  BY <1>1 DEF Opens, Alone, RequestTypes
<1>2. CASE Closes(u)
  <2>1. lines' = lines /\ Alone' \subseteq Alone
    BY <1>2 DEF Closes, Alone
  <2>2. ASSUME NEW v \in Users, at[v] = "link", bill[v] = b PROVE FALSE
    <3>1. v = u
      BY <1>2, <2>2 DEF Closes, Ends, RequestTypes
    <3> QED
      BY <1>2, <2>1, <2>2, <3>1 DEF Closes, Issued, Alone
  <2> QED
    BY <2>1, <2>2
<1>3. ASSUME NEW S, NEW place, Reads(u, S, place)
      PROVE  lines'[b] = lines[b] /\ lines[b] \subseteq Alone /\ ~Raising(b)
  BY <1>3 DEF Reads, Takes, Alone, RequestTypes
<1>4. CASE RaiseIssues(u)
  <2> PICK c \in Bills : lines' = [lines EXCEPT ![c] = rows[u]] /\ bill' = [bill EXCEPT ![u] = c]
    BY <1>4 DEF RaiseIssues
  <2>1. at' = [at EXCEPT ![u] = "link"] /\ raced' = raced /\ at[u] # "link"
    BY <1>4 DEF RaiseIssues
  <2>2. b # c
    BY <2>1 DEF RequestTypes
  <2> QED
    BY <2>1, <2>2 DEF Alone, RequestTypes
<1>5. CASE DeleteWrites(u)
  BY <1>5 DEF DeleteWrites, Ends, billVars, Alone, RequestTypes
<1> QED
  BY <1>1, <1>2, <1>3, <1>4, <1>5

\* The tax that is kept is not touched by other steps.
LEMMA TaxKept ==
  ASSUME LinkInv, TypeOK, TaxAddsUp, NEW u \in Users,
         BillingStep(u) \/ MoneyStep(u) \/ OtherStep(u), ~RaiseLinks(u)
  PROVE  TaxAddsUp'
<1> SUFFICES ASSUME NEW b \in Bills, lines'[b] # {}, lines'[b] \subseteq (Alone \ retaxed)',
                    ~Raising(b)'
             PROVE  Sum(gst, lines[b])' = total_tax'[b]
  BY DEF TaxAddsUp
<1>1. LinkTypes /\ RequestTypes /\ Unissued
  BY DEF LinkInv
<1>2. \/ Opens(u) \/ Closes(u) \/ \E S, place : Reads(u, S, place)
      \/ RaiseIssues(u) \/ DeleteWrites(u)
  BY <1>1, StepShape
<1>3. lines'[b] = lines[b] /\ lines[b] \subseteq Alone /\ ~Raising(b)
  BY <1>2, StillCounts
<1>4. /\ retaxed \subseteq retaxed'
      /\ \A r \in Releases \ retaxed' : gst'[r] = gst[r]
      /\ total_tax'[b] = total_tax[b] \/ status[b] = "none"
  BY TaxUntouched
<1>5. Sum(gst, lines[b]) = total_tax[b]
  BY <1>3, <1>4 DEF TaxAddsUp
<1>6. IsFiniteSet(lines[b]) /\ lines[b] \subseteq Releases
  BY <1>1, FiniteReleases DEF LinkTypes
<1>7. \A r \in lines[b] : gst'[r] = gst[r]
  BY <1>3, <1>4, <1>6
<1>8. Sum(gst', lines[b]) = Sum(gst, lines[b])
  BY <1>6, <1>7, SumSame DEF Sum
<1>9. total_tax'[b] = total_tax[b]
  BY <1>1, <1>3, <1>4 DEF Unissued
<1> QED
  BY <1>3, <1>5, <1>8, <1>9 DEF Sum

\* The link step writes the tax of its own invoice, and of no other that counts.
LEMMA TaxLinked ==
  ASSUME LinkInv, TypeOK, MoneyInv, TaxAddsUp, NEW u \in Users, RaiseLinks(u)
  PROVE  TaxAddsUp'
<1> USE DEF LinkInv
<1>0. UNCHANGED <<lines, raced, total_tax>> /\ retaxed' = retaxed \ LinkedBy(u)
  BY DEF RaiseLinks, billVars
<1> SUFFICES ASSUME NEW b \in Bills, lines[b] # {}, lines[b] \subseteq Alone \ retaxed',
                    ~Raising(b)'
             PROVE  Sum(gst', lines[b]) = total_tax[b]
  BY <1>0 DEF TaxAddsUp, Alone, Sum
<1>1. PICK last \in rows[u] :
         gst' = [r \in Releases |->
                     IF r \in LinkedBy(u)
                     THEN Stored(seen[u].gst[r], TaxShare(u, last, r), gst[r]) ELSE gst[r]]
  BY DEF RaiseLinks
<1>2. at[u] = "link" /\ Ends(u) /\ lines[bill[u]] = rows[u] /\ rows[u] \subseteq Releases
  BY DEF RaiseLinks, Issued, RequestTypes
<1>3. CASE b = bill[u]
  <2>1. \A r \in rows[u] : r \in LinkedBy(u) /\ seen[u].gst[r] = gst[r]
    BY <1>2, <1>3 DEF Held, LinkedBy, MoneyInv, ReadIsTrue, Fresh
  <2>2. \A r \in rows[u] : gst'[r] = TaxShare(u, last, r)
    BY <1>1, <1>2, <2>1 DEF Stored
  <2>3. IsFiniteSet(rows[u])
    BY <1>2, FiniteReleases
  <2>4. total_tax[bill[u]] \in Int /\ \A r \in rows[u] : seen[u].commission[r] \in Int
    BY <1>2, <1>3 DEF TypeOK, MoneyTypes
  <2>5. Sum(gst', rows[u]) = total_tax[bill[u]]
    <3>1. PICK S, w, f, total : S = rows[u] /\ w = seen[u].commission /\ f = gst'
                                /\ total = total_tax[bill[u]]
      OBVIOUS
    <3>2. \A r \in S : f[r] = Part(total, w, S, last, r)
      BY <2>2, <3>1 DEF TaxShare
    <3>3. IsFiniteSet(S) /\ last \in S /\ total \in Int /\ \A r \in S : w[r] \in Int
      BY <2>3, <2>4, <3>1
    <3>4. Sum(f, S) = total
      BY <3>2, <3>3, PartsAddUp
    <3> QED
      BY <3>1, <3>4
  <2> QED
    BY <1>2, <1>3, <2>5
<1>4. CASE b # bill[u]
  <2>1. ~Raising(b)
    BY <1>2, <1>4 DEF Raising, Ends, RequestTypes
  <2>2. \A r \in lines[b] : r \in Releases /\ link[r] = b
    BY <2>1 DEF ListedIsLinked, LinkTypes
  <2>3. \A r \in lines[b] : r \notin rows[u]
    BY <1>2, <2>2 DEF Held, NoBill, Bills
  <2>4. \A r \in lines[b] : gst'[r] = gst[r] /\ r \notin retaxed
    BY <1>0, <1>1, <2>2, <2>3 DEF LinkedBy
  <2>5. IsFiniteSet(lines[b])
    BY FiniteReleases DEF LinkTypes
  <2>6. Sum(gst', lines[b]) = Sum(gst, lines[b])
    BY <2>4, <2>5, SumSame DEF Sum
  <2>7. lines[b] \subseteq Alone \ retaxed
    BY <2>4
  <2> QED
    BY <2>1, <2>6, <2>7 DEF TaxAddsUp
<1> QED
  BY <1>3, <1>4

\* Every step keeps the tax.
LEMMA TaxStep == LinkInv /\ TypeOK /\ MoneyInv /\ TaxAddsUp /\ [Next]_vars => TaxAddsUp'
<1> SUFFICES ASSUME LinkInv, TypeOK, MoneyInv, TaxAddsUp, [Next]_vars PROVE TaxAddsUp'
  OBVIOUS
<1>1. CASE Next
  BY <1>1, TaxLinked, TaxKept DEF Next
<1>2. CASE UNCHANGED vars
  BY <1>2 DEF vars, moneyVars, billVars, readVars, TaxAddsUp, Raising, Alone
<1> QED
  BY <1>1, <1>2

\* The shares of an invoice's tax kept on its releases are all of it, for any number of
\* them, any commissions and any rate, whatever is raised, edited, deleted or cut off
\* beside it, until one of them is typed; it is told of the invoices whose releases no
\* two requests held at once.
THEOREM TaxAlwaysAddsUp == Spec => []TaxAddsUp
<1>1. LinkInv /\ TypeOK /\ MoneyInv /\ TaxAddsUp /\ [Next]_vars => (MoneyInv /\ TaxAddsUp)'
  BY MoneyKept, TaxStep
<1> QED
  BY <1>1, LinkInvariant, TypeCorrect, MoneyInit, TaxInit, PTL DEF Spec

-----------------------------------------------------------------------------
(* What a payment clears.  The weights it is spread by are of what was read *)
(* one step before, and still say what is owed when no other request held   *)
(* the releases meanwhile.                                                  *)

\* A payment spread over what an invoice owes leaves a paisa for each other release.
LEMMA PaymentOfAllClears ==
  ASSUME TypeOK, MoneyInv, NEW u \in Users, NEW receipt \in Receipts,
         PayShared(u, receipt[1], receipt[2]),
         NEW S, S = rows[u], S \subseteq present, S \subseteq Alone,
         receipt[1] + receipt[2] = Sum(Owed(Ledger(Releases)), S)
  PROVE  Sum(Owed(Ledger(Releases)'), S) <=
            IF 0 \in {receipt[1], receipt[2]} THEN 0 ELSE Cardinality(S) - 1
<1> DEFINE m == Ledger(Releases)
           w == Owed(m)
           left == Owed(m')
<1>1. PICK amount, withheld, last :
         /\ amount = receipt[1] /\ withheld = receipt[2] /\ last \in S
         /\ Books(u, Parts(u, amount, last), Parts(u, withheld, last))
  BY DEF PayShared
<1>2. amount \in Nat /\ withheld \in Nat /\ amount + withheld > 0
  BY <1>1, ConstantsAssumption DEF ConstantsAssumption
<1>3. S \subseteq Releases /\ IsFiniteSet(S) /\ m \in SeenTypes /\ seen[u] \in SeenTypes
  BY FiniteReleases, LedgerTyped DEF TypeOK, RequestTypes, MoneyTypes, SeenTypes
<1>4. \A r \in S : /\ seen[u].commission[r] = commission[r] /\ seen[u].gst[r] = gst[r]
                   /\ seen[u].received[r] = received[r] /\ seen[u].tds[r] = tds[r]
  BY DEF MoneyInv, ReadIsTrue, Fresh
<1>5. \A r \in Releases : /\ m.commission[r] = commission[r] /\ m.gst[r] = gst[r]
                          /\ m.received[r] = received[r] /\ m.tds[r] = tds[r]
  BY DEF Ledger, ColumnOf
<1>6. \A r \in Releases : /\ m'.commission[r] = commission[r] /\ m'.gst[r] = gst[r]
                          /\ m'.received[r] = received'[r] /\ m'.tds[r] = tds'[r]
  BY <1>1 DEF Ledger, ColumnOf, Books
<1> HIDE DEF m
<1>7. \A r \in S : Owed(seen[u])[r] = w[r]
  BY <1>3, <1>4, <1>5 DEF Owed, Shortfall, TotalDue, TotalSettled
<1>8. \A r \in S : w[r] \in Nat
  BY <1>3, WeightsInt
<1>9. Sum(Owed(seen[u]), S) = Sum(w, S) /\ Sum(w, S) = amount + withheld
  BY <1>1, <1>3, <1>7, SumSame DEF Sum, m
<1>10. \A r \in S : Weights(seen[u], S)[r] = w[r]
  BY <1>2, <1>3, <1>7, <1>9 DEF Weights
<1> DEFINE a == Parts(u, amount, last)
           t == Parts(u, withheld, last)
<1>11. ASSUME NEW total, NEW r \in S
       PROVE  Parts(u, total, last)[r] = Part(total, w, S, last, r)
  <2>1. Parts(u, total, last)[r] = Part(total, Weights(seen[u], S), S, last, r)
    BY DEF Parts
  <2>2. Part(total, Weights(seen[u], S), S, last, r) = Part(total, w, S, last, r)
    BY <1>3, <1>10, PartSame
  <2> QED
    BY <2>1, <2>2
<1>12. \A r \in S : /\ a[r] = Part(amount, w, S, last, r)
                    /\ t[r] = Part(withheld, w, S, last, r)
  BY <1>11
<1> HIDE DEF a, t, w
<1>13. \A r \in S : a[r] \in Int /\ t[r] \in Int
  <2>1. PICK v, x, y : v = w /\ x = a /\ y = t
    OBVIOUS
  <2>2. /\ \A r \in S : v[r] \in Int
        /\ \A r \in S : x[r] = Part(amount, v, S, last, r)
        /\ \A r \in S : y[r] = Part(withheld, v, S, last, r)
    BY <1>8, <1>12, <2>1
  <2>3. IsFiniteSet(S) /\ last \in S /\ amount \in Int /\ withheld \in Int
    BY <1>1, <1>2, <1>3
  <2>4. \A r \in S : x[r] \in Int
    BY <2>2, <2>3, PartInt
  <2>5. \A r \in S : y[r] \in Int
    BY <2>2, <2>3, PartInt
  <2> QED
    BY <2>1, <2>4, <2>5
<1>14. \A r \in S : received'[r] = received[r] + a[r] /\ tds'[r] = tds[r] + t[r]
  <2> SUFFICES ASSUME NEW r \in S
               PROVE  received'[r] = received[r] + a[r] /\ tds'[r] = tds[r] + t[r]
    OBVIOUS
  <2>1. r \in Releases /\ r \in rows[u] \cap present
    BY <1>3
  <2>2. /\ received'[r] = Stored(received[r], received[r] + a[r], received[r])
        /\ tds'[r] = Stored(tds[r], tds[r] + t[r], tds[r])
    BY <1>1, <1>4, <2>1 DEF Books, PaidOnTop, a, t
  <2> QED
    BY <2>2 DEF Stored
<1>15. \A r \in S : left[r] \in Nat /\ (left[r] = 0 \/ left[r] <= w[r] - a[r] - t[r])
  <2> SUFFICES ASSUME NEW r \in S
               PROVE  left[r] \in Nat /\ (left[r] = 0 \/ left[r] <= w[r] - a[r] - t[r])
    OBVIOUS
  <2>1. r \in Releases
    BY <1>3
  <2>2. /\ commission[r] \in Int /\ gst[r] \in Int /\ received[r] \in Int /\ tds[r] \in Int
        /\ a[r] \in Int /\ t[r] \in Int
    BY <1>13, <2>1 DEF TypeOK, MoneyTypes
  <2> DEFINE due == commission[r] + gst[r]
             settled == received[r] + tds[r]
             now == received'[r] + tds'[r]
  <2>3. due \in Int /\ settled \in Int /\ now = settled + (a[r] + t[r])
    BY <1>14, <2>2
  <2>4. w[r] = IF due > settled THEN due - settled ELSE 0
    BY <1>5, <2>1 DEF w, Owed, Shortfall, TotalDue, TotalSettled
  <2>5. left[r] = IF due > now THEN due - now ELSE 0
    BY <1>6, <2>1 DEF Owed, Shortfall, TotalDue, TotalSettled
  <2> HIDE DEF due, settled, now, left
  <2> QED
    BY <2>2, <2>3, <2>4, <2>5
<1> HIDE DEF left
<1>16. Sum(left, S) <= IF 0 \in {amount, withheld} THEN 0 ELSE Cardinality(S) - 1
  <2>1. Clearing(S, last, amount, withheld, w, a, t, left)
    BY <1>1, <1>2, <1>3, <1>8, <1>9, <1>12, <1>15 DEF Clearing
  <2> QED
    BY <2>1, SharesClear
<1> QED
  BY <1>1, <1>16 DEF left, m

\* A payment of the outstanding amount clears it, whatever amounts, taxes and earlier
\* payments it is spread over, provided its releases are the request's alone; of one that
\* is half TDS, up to a paisa for each release but one may be left.
THEOREM PaymentAlwaysClears == Spec => PaymentClears
<1> DEFINE Inv == LinkInv /\ TypeOK /\ MoneyInv
           Clears == \A u \in Users, b \in Bills, receipt \in Receipts :
              ( /\ at[u] = "settle" /\ bill[u] = b /\ payments' # payments
                /\ rows[u] = BilledBy(b) /\ rows[u] \subseteq Alone
                /\ receipt[1] + receipt[2] = Outstanding(b)
                /\ PayShared(u, receipt[1], receipt[2]) )
              => Outstanding(b)' <= IF 0 \in {receipt[1], receipt[2]} THEN 0
                                    ELSE Cardinality(rows[u]) - 1
<1>1. Init => Inv
  BY LinkInit, TypeInit, MoneyInit
<1>2. Inv /\ [Next]_vars => Inv'
  BY LinkStep, TypeKept, MoneyKept
<1>3. Inv => Clears
  <2> SUFFICES ASSUME Inv, NEW u \in Users, NEW b \in Bills, NEW receipt \in Receipts,
                      rows[u] = BilledBy(b), rows[u] \subseteq Alone,
                      receipt[1] + receipt[2] = Outstanding(b),
                      PayShared(u, receipt[1], receipt[2])
               PROVE  Outstanding(b)' <= IF 0 \in {receipt[1], receipt[2]} THEN 0
                                         ELSE Cardinality(rows[u]) - 1
    OBVIOUS
  <2>1. BilledBy(b)' = BilledBy(b)
    BY DEF PayShared, Books, BilledBy
  <2>2. rows[u] \subseteq present
    BY DEF BilledBy
  <2>3. Sum(Owed(Ledger(Releases)'), rows[u]) <=
            IF 0 \in {receipt[1], receipt[2]} THEN 0 ELSE Cardinality(rows[u]) - 1
    BY <2>2, PaymentOfAllClears DEF Outstanding
  <2>4. Outstanding(b)' = Sum(Owed(Ledger(Releases)'), BilledBy(b)')
    BY DEF Outstanding, Sum, Owed, Shortfall, TotalDue, TotalSettled
  <2> QED
    BY <2>1, <2>3, <2>4
<1>4. PaymentClears <=> [][Clears]_vars
  BY DEF PaymentClears
<1> QED
  BY <1>1, <1>2, <1>3, <1>4, PTL DEF Spec

-----------------------------------------------------------------------------
(***************************************************************************)
(* The numbers of leads and invoices, for any number of transactions, rows *)
(* and numbers: numbers are free when they are used, and the two series    *)
(* are implementations of NumberSeries.                                    *)
(*                                                                         *)
(* The argument: what a waiting statement did not see among the rows is    *)
(* below the counter, which only the holder of its lock raises.            *)
(***************************************************************************)

\* The highest of some numbers is there.
LEMMA HighestIsBound ==
    ASSUME NEW s, numbered[s] \subseteq Numbers
    PROVE  Highest(s) \in 0..MaxNumber /\ \A k \in numbered[s] : k <= Highest(s)
<1> USE NumberingAssumption DEF NumberingAssumption, Numbers
<1>1. CASE numbered[s] = {}
  BY <1>1 DEF Highest
<1>2. CASE numbered[s] # {}
  <2> DEFINE Bounds == {u \in Nat : \A k \in numbered[s] : k <= u}
  <2>1. Bounds \subseteq Nat /\ MaxNumber \in Bounds
    OBVIOUS
  <2>2. PICK u \in Bounds : \A v \in Bounds : ~ (<<v, u>> \in OpToRel(<, Nat))
    BY <2>1, NatLessThanWellFounded, WFMin
  <2>3. \A v \in Bounds : u <= v
    <3>1. SUFFICES ASSUME NEW v \in Bounds, v < u PROVE FALSE
      OBVIOUS
    <3>2. <<v, u>> \in OpToRel(<, Nat)
      BY <3>1 DEF OpToRel
    <3> QED
      BY <2>2, <3>2
  <2>4. u \in numbered[s]
    <3>1. SUFFICES ASSUME u \notin numbered[s] PROVE FALSE
      OBVIOUS
    <3>2. \A k \in numbered[s] : k <= u - 1 /\ 1 <= k
      BY <3>1
    <3>3. u - 1 \in Bounds
      BY <3>2, <1>2
    <3> QED
      BY <3>3, <2>3
  <2>5. Max(numbered[s]) \in numbered[s] /\ \A k \in numbered[s] : Max(numbered[s]) >= k
    BY <2>4 DEF Max
  <2> QED
    BY <1>2, <2>5 DEF Highest
<1> QED
  BY <1>1, <1>2

-----------------------------------------------------------------------------
\* What a statement has not seen is below the counter.
Seen ==
    \A w \in Writers : tx[w].at = "waiting" /\ ~tx[w].bypassed =>
        \A k \in numbered[tx[w].series] : k <= tx[w].seen \/ k < counter[tx[w].series]

\* A transaction's numbers are above the rows; an invoice's, once there is a counter.
Above ==
    \A w \in Writers :
        tx[w].at = "holding" /\ ~tx[w].bypassed
        /\ (tx[w].series = "leads" \/ counter["invoices"] # 0) =>
            \A k \in numbered[tx[w].series] : k < tx[w].first

\* They are never below the counter.
NotBehind ==
    \A w \in Writers : tx[w].at = "holding" => counter[tx[w].series] <= tx[w].first

NumberingInv == NumberingTypeOK /\ Seen /\ Above /\ NotBehind

\* A fresh tenant.
LEMMA NumberingStarts == NumberingInit => NumberingInv
  BY NumberingAssumption
  DEF NumberingInit, NumberingInv, NumberingTypeOK, Seen, Above, NotBehind, Closed, Transactions, Series, Numbers,
      Holds, NumberingAssumption

\* A statement takes its snapshot.
LEMMA ReserveKeeps ==
    ASSUME NumberingInv, NEW w \in Writers, NEW s \in Series, Reserve(w, s)
    PROVE  NumberingInv'
<1> USE NumberingAssumption DEF NumberingAssumption, NumberingInv, NumberingTypeOK, Transactions, Series
<1>1. Highest(s) \in 0..MaxNumber /\ \A k \in numbered[s] : k <= Highest(s)
  BY HighestIsBound
<1> Counts(s) \subseteq 1..MaxBlock
  BY DEF Counts
<1>2. PICK n \in 1..MaxBlock :
        tx' = [tx EXCEPT ![w] = [Closed EXCEPT !.at = "waiting", !.series = s,
                                              !.count = n, !.seen = Highest(s)]]
  BY DEF Reserve
<1>3. counter' = counter /\ numbered' = numbered
  BY DEF Reserve
<1>4. tx'[w] = [at |-> "waiting", series |-> s, count |-> n, seen |-> Highest(s),
                first |-> 1, bypassed |-> FALSE]
  BY <1>2 DEF Closed
<1>5. \A v \in Writers : v # w => tx'[v] = tx[v]
  BY <1>2
<1>6. tx' \in [Writers -> Transactions]
  <2>1. tx'[w] \in Transactions
    BY <1>1, <1>4 DEF Numbers
  <2> QED
    BY <1>2, <1>5, <2>1
<1>7. NumberingTypeOK'
  BY <1>3, <1>4, <1>5, <1>6 DEF Holds
<1>8. Seen' /\ Above' /\ NotBehind'
  BY <1>1, <1>3, <1>4, <1>5 DEF Seen, Above, NotBehind
<1> QED
  BY <1>7, <1>8

\* The lock is granted.
LEMMA GrantKeeps ==
    ASSUME NumberingInv, NEW w \in Writers, Grant(w)
    PROVE  NumberingInv'
<1> USE NumberingAssumption DEF NumberingAssumption, NumberingInv, Series
<1> DEFINE t == tx[w]
           n == Number(t.series, t.seen)
<1>1. t \in Transactions /\ t.at = "waiting" /\ counter[t.series] \in 0..MaxNumber + 1
  BY DEF Grant, NumberingTypeOK, Transactions
<1>2. n \in Nat \ {0} /\ counter[t.series] <= n /\ n + t.count - 1 <= MaxNumber
  BY <1>1 DEF Grant, Number, FirstOf, Transactions
<1>3. tx'[w] = [at |-> "holding", series |-> t.series, count |-> t.count, seen |-> 0,
                first |-> n, bypassed |-> t.bypassed]
  BY <1>1 DEF Grant, NumberingTypeOK, Transactions
<1>4. \A v \in Writers : v # w => tx'[v] = tx[v]
  BY DEF Grant, NumberingTypeOK
<1>5. counter' = counter /\ numbered' = numbered /\ \A v \in Writers : ~Holds(t.series, v)
  BY DEF Grant
<1>6. t.count >= 1 /\ n \in Numbers
  BY <1>1, <1>2 DEF Transactions, Numbers
<1>7. NumberingTypeOK'
  <2>1. tx'[w] \in Transactions
    BY <1>1, <1>3, <1>6 DEF Transactions
  <2>2. tx' \in [Writers -> Transactions]
    BY <1>4, <2>1 DEF NumberingTypeOK, Grant
  <2>3. \A v \in Writers : tx'[v].at = "holding" => tx'[v].first + tx'[v].count - 1 <= MaxNumber
    BY <1>2, <1>3, <1>4 DEF NumberingTypeOK
  <2>4. \A v \in Writers, s \in Series :
           Holds(s, v)' => (v = w /\ s = t.series) \/ (v # w /\ Holds(s, v))
    BY <1>3, <1>4 DEF Holds
  <2>5. \A v, z \in Writers, s \in Series : Holds(s, v)' /\ Holds(s, z)' => v = z
    BY <1>5, <2>4 DEF NumberingTypeOK
  <2> QED
    BY <1>5, <2>2, <2>3, <2>5 DEF NumberingTypeOK
<1> HIDE DEF n
<1>8. Seen' /\ NotBehind'
  BY <1>2, <1>3, <1>4, <1>5 DEF Seen, NotBehind
<1>9. ASSUME ~t.bypassed, t.series = "leads" \/ counter["invoices"] # 0,
             NEW k \in numbered[t.series]
      PROVE  k < n
  <2>1. k <= t.seen \/ k < counter[t.series]
    BY <1>1, <1>9 DEF Seen
  <2>2. k \in Nat \ {0} /\ t.seen \in Nat
    BY <1>1, <1>9 DEF NumberingTypeOK, Transactions, Numbers
  <2> QED
    BY <1>1, <1>9, <2>1, <2>2 DEF n, Number, FirstOf, Transactions
<1>10. Above'
  <2> SUFFICES ASSUME NEW v \in Writers, tx'[v].at = "holding", ~tx'[v].bypassed,
                      tx'[v].series = "leads" \/ counter'["invoices"] # 0,
                      NEW k \in numbered'[tx'[v].series]
               PROVE  k < tx'[v].first
    BY DEF Above
  <2>1. CASE v = w
    BY <1>3, <1>5, <1>9, <2>1
  <2>2. CASE v # w
    BY <1>4, <1>5, <2>2 DEF Above
  <2> QED
    BY <2>1, <2>2
<1> QED
  BY <1>7, <1>8, <1>10

\* The rows are committed: only those who wait for this counter are concerned.
LEMMA CommitKeeps ==
    ASSUME NumberingInv, NEW w \in Writers, Commit(w)
    PROVE  NumberingInv'
<1> USE NumberingAssumption DEF NumberingAssumption, NumberingInv, Series
<1> DEFINE t == tx[w]
<1>1. t \in Transactions /\ t.at = "holding" /\ t.first + t.count - 1 <= MaxNumber
      /\ counter[t.series] <= t.first
  BY DEF Commit, NumberingTypeOK, NotBehind
<1>2. t.series \in Series /\ t.first \in Nat \ {0} /\ t.count \in Nat \ {0}
  BY <1>1 DEF Transactions, Numbers
<1>3. tx'[w] = Closed /\ \A v \in Writers : v # w => tx'[v] = tx[v]
  BY DEF Commit, NumberingTypeOK
<1>4. /\ counter'[t.series] = t.first + t.count
      /\ numbered'[t.series] = numbered[t.series] \cup (t.first..(t.first + t.count - 1))
      /\ \A s \in Series : s # t.series => counter'[s] = counter[s] /\ numbered'[s] = numbered[s]
  BY <1>2 DEF Commit, NumberingTypeOK, Block
<1>5. NumberingTypeOK'
  <2>1. counter' \in [Series -> 0..MaxNumber + 1]
    BY <1>1, <1>2 DEF Commit, NumberingTypeOK
  <2>2. numbered' \in [Series -> SUBSET Numbers]
    BY <1>1, <1>2 DEF Commit, NumberingTypeOK, Numbers, Block
  <2>3. tx' \in [Writers -> Transactions]
    BY DEF Commit, NumberingTypeOK, Closed, Transactions, Numbers
  <2> QED
    BY <1>3, <2>1, <2>2, <2>3 DEF NumberingTypeOK, Holds, Closed
<1>6. ASSUME NEW v \in Writers, v # w PROVE ~(tx[v].at = "holding" /\ tx[v].series = t.series)
  BY <1>1, <1>2, <1>6 DEF NumberingTypeOK, Holds
<1>7. Above' /\ NotBehind'
  BY <1>2, <1>3, <1>4, <1>6 DEF Above, NotBehind, Closed, NumberingTypeOK, Transactions
<1>8. ASSUME NEW v \in Writers, tx'[v].at = "waiting", ~tx'[v].bypassed,
             NEW k \in numbered'[tx'[v].series]
      PROVE  k <= tx'[v].seen \/ k < counter'[tx'[v].series]
  <2>1. v # w /\ tx'[v] = tx[v] /\ tx[v] \in Transactions
    BY <1>3, <1>8 DEF Closed, NumberingTypeOK
  <2>2. CASE tx[v].series # t.series
    BY <1>4, <1>8, <2>1, <2>2 DEF Seen, Transactions
  <2>3. CASE tx[v].series = t.series /\ k \in numbered[t.series]
    <3>1. k <= tx[v].seen \/ k < counter[t.series]
      BY <1>8, <2>1, <2>3 DEF Seen
    <3>2. counter[t.series] \in Nat /\ k \in Nat
      BY <1>2, <2>3 DEF NumberingTypeOK, Numbers
    <3> QED
      BY <1>1, <1>2, <1>4, <2>1, <2>3, <3>1, <3>2
  <2>4. CASE tx[v].series = t.series /\ k \in t.first..(t.first + t.count - 1)
    BY <1>2, <1>4, <2>1, <2>4
  <2> QED
    BY <1>4, <1>8, <2>1, <2>2, <2>3, <2>4
<1>9. Seen'
  BY <1>8 DEF Seen
<1> QED
  BY <1>5, <1>7, <1>9

\* Everything is taken back.
LEMMA RollbackKeeps ==
    ASSUME NumberingInv, NEW w \in Writers, Rollback(w)
    PROVE  NumberingInv'
<1> USE NumberingAssumption DEF NumberingAssumption, NumberingInv
<1>1. tx'[w] = Closed /\ (\A v \in Writers : v # w => tx'[v] = tx[v])
      /\ counter' = counter /\ numbered' = numbered
  BY DEF Rollback, NumberingTypeOK
<1>2. tx' \in [Writers -> Transactions]
  BY DEF Rollback, NumberingTypeOK, Closed, Transactions, Numbers, Series
<1> QED
  BY <1>1, <1>2 DEF NumberingTypeOK, Seen, Above, NotBehind, Closed, Holds

\* A row past the function sets the open transactions of its series apart.
LEMMA BypassKeeps ==
    ASSUME NumberingInv, NEW s \in Series, Bypass(s)
    PROVE  NumberingInv'
<1> USE NumberingAssumption DEF NumberingAssumption, NumberingInv
<1>1. \A v \in Writers :
        tx'[v] = IF Of(s, v) THEN [tx[v] EXCEPT !.bypassed = TRUE] ELSE tx[v]
  BY DEF Bypass
<1>2. counter' = counter /\ numbered' \in [Series -> SUBSET Numbers]
      /\ \A z \in Series : z # s => numbered'[z] = numbered[z]
  BY DEF Bypass, NumberingTypeOK
<1>3. \A v \in Writers :
        /\ tx'[v] \in Transactions
        /\ tx'[v].at = tx[v].at /\ tx'[v].series = tx[v].series /\ tx'[v].seen = tx[v].seen
        /\ tx'[v].first = tx[v].first /\ tx'[v].count = tx[v].count
        /\ ~tx'[v].bypassed /\ tx'[v].at # "closed" => tx'[v] = tx[v] /\ tx[v].series # s
  <2> SUFFICES ASSUME NEW v \in Writers
               PROVE  /\ tx'[v] \in Transactions
                      /\ tx'[v].at = tx[v].at /\ tx'[v].series = tx[v].series
                      /\ tx'[v].seen = tx[v].seen
                      /\ tx'[v].first = tx[v].first /\ tx'[v].count = tx[v].count
                      /\ ~tx'[v].bypassed /\ tx'[v].at # "closed" =>
                             tx'[v] = tx[v] /\ tx[v].series # s
    OBVIOUS
  <2>1. tx[v] \in Transactions
    BY DEF NumberingTypeOK
  <2>2. CASE Of(s, v)
    <3>1. tx'[v] = [tx[v] EXCEPT !.bypassed = TRUE]
      BY <1>1, <2>2
    <3> QED
      BY <2>1, <3>1 DEF Transactions
  <2>3. CASE ~Of(s, v)
    BY <1>1, <2>1, <2>3 DEF Of
  <2> QED
    BY <2>2, <2>3
<1>4. tx' \in [Writers -> Transactions]
  BY <1>3 DEF Bypass
<1>5. NumberingTypeOK'
  BY <1>2, <1>3, <1>4 DEF NumberingTypeOK, Holds
<1>6. Seen' /\ Above' /\ NotBehind'
  BY <1>2, <1>3 DEF Seen, Above, NotBehind, NumberingTypeOK, Transactions
<1> QED
  BY <1>5, <1>6

\* Every step keeps the invariant.
LEMMA NumberingKeeps == NumberingInv /\ [NumberingNext]_numberingVars => NumberingInv'
<1> SUFFICES ASSUME NumberingInv, [NumberingNext]_numberingVars PROVE NumberingInv'
  OBVIOUS
<1>1. CASE UNCHANGED numberingVars
  BY <1>1 DEF numberingVars, NumberingInv, NumberingTypeOK, Seen, Above, NotBehind, Holds
<1>2. CASE NumberingNext
  BY <1>2, ReserveKeeps, GrantKeeps, CommitKeeps, RollbackKeeps, BypassKeeps DEF NumberingNext
<1> QED
  BY <1>1, <1>2

\* The invariant holds always.
LEMMA NumberingAlways == NumberingSpec => []NumberingInv
  BY NumberingStarts, NumberingKeeps, PTL DEF NumberingSpec

\* Types, and one holder of the counter's lock at a time.
THEOREM NumbersTypeCorrect == NumberingSpec => []NumberingTypeOK
<1>1. NumberingInv => NumberingTypeOK
  BY DEF NumberingInv
<1> QED
  BY <1>1, NumberingAlways, PTL

\* No reservation is doomed: whatever was inserted past the function before, the next
\* statement gives numbers that are free, and go on being free until it commits.
THEOREM NumbersAreFree == NumberingSpec => []FreshNumber
<1>1. NumberingInv => FreshNumber
  <2> SUFFICES ASSUME NumberingInv, NEW w \in Writers, tx[w].at = "holding", ~tx[w].bypassed,
                      tx[w].series = "leads" \/ counter["invoices"] # 0
               PROVE  Clear(w)
    BY DEF FreshNumber
  <2>1. tx[w] \in Transactions /\ \A k \in numbered[tx[w].series] : k < tx[w].first /\ k \in Nat
    BY NumberingAssumption DEF NumberingInv, Above, NumberingTypeOK, Transactions, Numbers, NumberingAssumption
  <2> QED
    BY <2>1, NumberingAssumption
    DEF Clear, Block, Transactions, Numbers, NumberingAssumption
<1> QED
  BY <1>1, NumberingAlways, PTL

-----------------------------------------------------------------------------
\* A commit is an issue of its series and leaves the other alone.
LEMMA CommitIssues ==
    ASSUME NumberingInv, NEW w \in Writers, Commit(w), NEW s \in Series, tx[w].series = s
    PROVE  /\ \E first, end \in Numbers :
                  /\ LastGiven(s) < first /\ first <= end
                  /\ (first..end) \cap numbered[s] = {}
                  /\ numbered'[s] = numbered[s] \cup (first..end)
                  /\ LastGiven(s)' = end
           /\ \A z \in Series : z # s => numbered'[z] = numbered[z] /\ counter'[z] = counter[z]
<1> USE NumberingAssumption DEF NumberingAssumption
<1> DEFINE first == tx[w].first
           end == tx[w].first + tx[w].count - 1
<1>1. tx[w] \in Transactions /\ tx[w].at = "holding" /\ end <= MaxNumber
      /\ counter[s] <= first /\ counter[s] \in Nat
  BY DEF Commit, NumberingInv, NumberingTypeOK, NotBehind
<1>2. first \in Numbers /\ end \in Numbers /\ first <= end
  BY <1>1 DEF Transactions, Numbers
<1>3. (first..end) \cap numbered[s] = {}
      /\ counter'[s] = end + 1 /\ numbered'[s] = numbered[s] \cup (first..end)
      /\ \A z \in Series : z # s => counter'[z] = counter[z] /\ numbered'[z] = numbered[z]
  <2>1. Block(tx[w]) = first..end /\ first + tx[w].count = end + 1
    BY <1>1, <1>2 DEF Block, Transactions, Numbers
  <2> QED
    BY <2>1 DEF Commit, NumberingInv, NumberingTypeOK
<1>4. LastGiven(s) < first
  BY <1>1, <1>2 DEF LastGiven, Numbers
<1>5. end \in Nat \ {0}
  BY <1>2 DEF Numbers
<1> HIDE DEF first, end
<1>6. LastGiven(s)' = end
  BY <1>3, <1>5 DEF LastGiven
<1> QED
  BY <1>2, <1>3, <1>4, <1>6

\* The counter protocol implements both series.
THEOREM SeriesImplemented == NumberingSpec => SeriesKept
<1>1. NumberingInit => LeadNumbers!Init /\ InvoiceNumbers!Init
  BY DEF NumberingInit, LeadNumbers!Init, InvoiceNumbers!Init, LastGiven, Series
<1>2. NumberingInv /\ [NumberingNext]_numberingVars =>
         /\ [LeadNumbers!Next]_<<numbered["leads"], LastGiven("leads")>>
         /\ [InvoiceNumbers!Next]_<<numbered["invoices"], LastGiven("invoices")>>
  <2> SUFFICES ASSUME NumberingInv, [NumberingNext]_numberingVars
               PROVE  /\ [LeadNumbers!Next]_<<numbered["leads"], LastGiven("leads")>>
                      /\ [InvoiceNumbers!Next]_<<numbered["invoices"], LastGiven("invoices")>>
    OBVIOUS
  <2>1. CASE \E w \in Writers : Commit(w)
    <3>1. PICK w \in Writers : Commit(w)
      BY <2>1
    <3>2. PICK s \in Series : tx[w].series = s
      BY DEF NumberingInv, NumberingTypeOK, Transactions
    <3>3. CASE s = "leads"
      BY <3>1, <3>2, <3>3, CommitIssues
      DEF LeadNumbers!Next, LeadNumbers!Issue, LastGiven, Series
    <3>4. CASE s = "invoices"
      BY <3>1, <3>2, <3>4, CommitIssues
      DEF InvoiceNumbers!Next, InvoiceNumbers!Issue, LastGiven, Series
    <3> QED
      BY <3>3, <3>4 DEF Series
  <2>2. CASE \E s \in Series : Bypass(s)
    <3>1. PICK s \in Series : Bypass(s)
      BY <2>2
    <3>2. PICK n \in Numbers \ numbered[s] :
             numbered' = [numbered EXCEPT ![s] = @ \cup {n}] /\ counter' = counter
      BY <3>1 DEF Bypass
    <3>3. CASE s = "leads"
      BY <3>2, <3>3 DEF LeadNumbers!Next, LeadNumbers!Insert, LastGiven, NumberingInv, NumberingTypeOK, Series
    <3>4. CASE s = "invoices"
      BY <3>2, <3>4
      DEF InvoiceNumbers!Next, InvoiceNumbers!Insert, LastGiven, NumberingInv, NumberingTypeOK, Series
    <3> QED
      BY <3>1, <3>3, <3>4 DEF Series
  <2>3. CASE UNCHANGED <<counter, numbered>>
    BY <2>3 DEF LastGiven
  <2> QED
    BY <2>1, <2>2, <2>3 DEF NumberingNext, numberingVars, Reserve, Grant, Rollback
<1> QED
  BY <1>1, <1>2, NumberingAlways, PTL DEF NumberingSpec, SeriesKept, LeadNumbers!Spec, InvoiceNumbers!Spec
=============================================================================
