---------------------------- MODULE MCSendWindow -----------------------------
(* A file of four blocks and a window of two; blocks time out after one tick, *)
(* a silent peer after three.                                                 *)
EXTENDS SendWindow, TLC

MCResumes == {0, 1, Total}
=============================================================================
