--------------------------- MODULE MCVirtualFiles ---------------------------
(* Instances of VirtualFiles for TLC: an archive list of the base game and  *)
(* a setting file of a mod that the overwrite directory has too.            *)
EXTENDS VirtualFiles, TLC

CONSTANTS txt, ini, h1, h2, w1, w2

MCInstalled   == {<<txt, "own">>, <<ini, "own">>, <<ini, "overwrite">>}
MCNoOverwrite == {<<txt, "own">>, <<ini, "own">>}
MCHandles     == {h1, h2}
MCWorkers     == {w1, w2}
Symmetry      == Permutations(MCHandles) \cup Permutations(MCWorkers)
=============================================================================
