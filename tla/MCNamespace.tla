----------------------------- MODULE MCNamespace -----------------------------
(* Instances of Namespace for TLC: two directories that may hold a file each; *)
(* a mod provides the first directory with its file.                          *)
EXTENDS Namespace

MCDirs  == {<<"d">>, <<"e">>}
MCPaths == MCDirs \cup {<<"d", "f">>, <<"e", "f">>}
MCNames == {"d", "e", "f"}

MCMerged == <<[key |-> <<"d">>, sp |-> AnySpelling],
              [key |-> <<"d", "f">>, sp |-> AnySpelling]>>
=============================================================================
