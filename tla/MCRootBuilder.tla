---------------------------- MODULE MCRootBuilder ----------------------------
(* Instances of RootBuilder for TLC: an executable at the top of the game   *)
(* directory and a file in a sub-directory that may not exist.              *)
EXTENDS RootBuilder, TLC

CONSTANTS exe, ini, enb

MCPaths == {exe, ini}
MCDirOf == exe :> Root @@ ini :> enb
=============================================================================
