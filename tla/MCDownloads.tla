---------------------------- MODULE MCDownloads -----------------------------
(***************************************************************************)
(* Downloads for TLC: a file of two or three bytes, so that a body arrives *)
(* in pieces and a range may begin inside it.                              *)
(***************************************************************************)
EXTENDS Downloads
=============================================================================
