------------------------------ MODULE MCLaunch ------------------------------
(* Small instances of Launch.                                              *)
EXTENDS Launch
=============================================================================
