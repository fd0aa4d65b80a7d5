-------------------------- MODULE MCExampleHandler --------------------------
(***************************************************************************)
(* Instances of ExampleHandler for TLC.                                    *)
(***************************************************************************)
EXTENDS ExampleHandler

CONSTANTS p1, p2, b1   \* model values: two blob ids, a byte

MCSession == {0, 1}
MCBlobId  == {p1, p2}
MCByte    == {b1}

\* Every word, of a machine whose words count up to 7.
MCOffset == 0 .. 7
\* No bytes, a few, as many as the buffer holds, one more, and the largest.
MCSize   == {0, 1, 2, 3, 4, 7}
=============================================================================
