---------------------------- MODULE NumberSeries ----------------------------
(***************************************************************************)
(* What a numbered series promises: a writer is given consecutive numbers, *)
(* all free, and all above every number the series gave before.  Rows may  *)
(* also be put in with a number of their own.                              *)
(***************************************************************************)
EXTENDS Naturals

CONSTANT Numbers

VARIABLES
    taken,  \* the numbers of the rows there are
    last    \* the highest number given

Init == taken = {} /\ last = 0

Issue ==
    \E first, end \in Numbers :
        /\ last < first /\ first <= end /\ (first..end) \cap taken = {}
        /\ taken' = taken \cup (first..end) /\ last' = end

Insert == \E n \in Numbers \ taken : taken' = taken \cup {n} /\ UNCHANGED last

Next == Issue \/ Insert

Spec == Init /\ [][Next]_<<taken, last>>
=============================================================================
