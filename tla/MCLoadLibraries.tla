-------------------------- MODULE MCLoadLibraries --------------------------
(***************************************************************************)
(* Instances of LoadLibraries for TLC.                                     *)
(***************************************************************************)
EXTENDS LoadLibraries

CONSTANTS f1, f2   \* model values: two createHandler functions

MCFactory == {f1, f2}

Files(paths) ==
    [path : paths, opens : {FALSE}, noisy : {FALSE}, factory : {NoFactory}]
      \cup
    [path : paths, opens : {TRUE}, noisy : BOOLEAN,
     factory : MCFactory \cup {NoFactory}]

\* Libraries of every kind under a usual name, a file to be passed over, and one
\* that is taken for a library because of the directory that it is in.
MCLibrary ==
    Files({<<"*.so*">>})
      \cup [path : {<<"plain">>}, opens : {TRUE}, noisy : {FALSE}, factory : {f1}]
      \cup [path : {<<"*.so*", "plain">>}, opens : {FALSE}, noisy : {FALSE},
            factory : {NoFactory}]
=============================================================================
