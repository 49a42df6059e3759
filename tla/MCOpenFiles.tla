----------------------------- MODULE MCOpenFiles -----------------------------
(* Instances of OpenFiles for TLC: a plugin of the base game and an archive *)
(* of a mod.                                                                *)
EXTENDS OpenFiles, TLC

CONSTANTS esm, bsa, w1, w2, h1, h2

MCWorkers == {w1, w2}
MCHandles == {h1, h2}
MCFds == 0..2
Symmetry == Permutations(MCWorkers) \cup Permutations(MCHandles)
=============================================================================
