------------------------- MODULE MCExampleOnManager -------------------------
(***************************************************************************)
(* Instances of ExampleOnManager for TLC.                                  *)
(***************************************************************************)
EXTENDS ExampleOnManager

CONSTANTS h1, p1, p2, b1   \* model values: another plugin, blob ids, a byte

MCHandler  == {example, h1}
MCPath     == {p1, p2}
MCFlagSets == {{"read", "write"}}
MCClaims   == [p \in MCPath |-> IF p = p1 THEN {{example, h1}} ELSE {{h1}}]

MCByte   == {b1}
MCOffset == {0, 1, 3}
MCSize   == {1, 2}
=============================================================================
