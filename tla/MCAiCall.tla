------------------------------ MODULE MCAiCall ------------------------------
(* The end of a small call for TLC: only its lengths and bounds need        *)
(* values.                                                                  *)
EXTENDS AiCall
=============================================================================
