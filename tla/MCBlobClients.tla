--------------------------- MODULE MCBlobClients ---------------------------
(***************************************************************************)
(* Instances of BlobClients for TLC.                                       *)
(***************************************************************************)
EXTENDS BlobClients

CONSTANTS h1, p1, c1, c2   \* model values

MCHandler  == {h1}
MCPath     == {p1}
MCClient   == {c1, c2}
OneClient  == {c1}
MCFlagSets == {{"read"}}
MCClaims   == [p \in Path |-> {Handler}]

MCLoaded == {<<>>, <<h1>>}

MCRequest ==
    [cmd : {"open"}, len : {minimumLengths.open}, crcOk : {TRUE},
     path : Path, terminated : {TRUE}, flags : FlagSets]
      \cup
    [cmd : {"read"}, len : {minimumLengths.read}, crcOk : {TRUE}, session : SessionId]
      \cup
    [cmd : {"close"}, len : {minimumLengths.close}, crcOk : {TRUE}, session : SessionId]

MCMaxSizes  == {256}
MCReadSizes == {1}
MCMetaSizes == {0}
MCBlobLists == {<<>>}
MCIdLength  == [p \in Path |-> 1]
=============================================================================
