---------------------------- MODULE MCNumbering ----------------------------
(* Three transactions and a few numbers for TLC.                           *)
EXTENDS Numbering, TLC

CONSTANTS w1, w2, w3

WriterSymmetry == Permutations({w1, w2, w3})
=============================================================================
