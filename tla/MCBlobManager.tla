--------------------------- MODULE MCBlobManager ---------------------------
(***************************************************************************)
(* Instances of BlobManager for TLC.                                       *)
(***************************************************************************)
EXTENDS BlobManager, TLC

CONSTANTS h1, h2, p1, p2   \* model values: two plugins, two blob ids

MCHandler == {h1, h2}
MCPath    == {p1, p2}

\* Flag words: read only, write only, and one that must be refused.
MCFlagSets  == {{"read"}, {"write"}, {}}
MCReadFlags == {{"read"}}

\* Plugins whose answers to canHandleBlob may differ from call to call.
MCAnyClaims == [p \in MCPath |-> {{h1}, {h2}}]

\* Plugins that stick to their answers, with one blob that both claim.
MCFixedClaims == [p \in MCPath |-> IF p = p1 THEN {{h1, h2}} ELSE {{h2}}]

\* Each plugin has a blob of its own.
MCOwnClaims == [p \in MCPath |-> IF p = p1 THEN {{h1}} ELSE {{h2}}]

Symmetry == Permutations(MCHandler) \cup Permutations(MCPath)
=============================================================================
