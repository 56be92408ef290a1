---------------------------- MODULE MCAcceptGate ----------------------------
(* AcceptGate on a window of two accepts; the .cfg files choose the        *)
(* threads and what may go wrong.                                          *)
EXTENDS AcceptGate, TLC
=============================================================================
