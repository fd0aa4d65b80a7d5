--------------------------- MODULE MCBlobService ---------------------------
(***************************************************************************)
(* Instances of BlobService for TLC.                                       *)
(***************************************************************************)
EXTENDS BlobService

CONSTANTS h1, h2, p1, p2   \* model values: two plugins, two blob ids

OneHandler  == {h1}
TwoHandlers == {h1, h2}
OnePath     == {p1}
TwoPaths    == {p1, p2}

MCFlagSets == {{"read"}, {"write"}, {}}
ReadFlagSets == {{"read"}}

\* No plugins at all, one, or two in either order.
MCLoaded == {list \in SeqOf(Handler, Cardinality(Handler)) : IsInjective(list)}

AllClaim == [p \in Path |-> {Handler}]

(***************************************************************************)
(* Requests: of the smallest length that the command allows, of one byte   *)
(* less, and damaged ones of the smallest length and of no or one byte.    *)
(***************************************************************************)
Around(n) == {n - 1, n}

DamagedOnlyIfLong(R) ==
    {r \in R : r.crcOk \/ r.len >= minimumLengths[r.cmd]}

\* Requests that the checks turn away name session 0, which is open in some
\* states and not in others.
BadOnSessionZero(R) ==
    {r \in DamagedOnlyIfLong(R) :
        (r.crcOk /\ r.len >= minimumLengths[r.cmd]) \/ r.session = 0}

MCSessionRequest ==
    UNION {[cmd : {c}, len : Around(minimumLengths[c]), crcOk : BOOLEAN,
            session : SessionId]
             : c \in {"read", "write", "writeMeta", "close", "sessionStat"}}

MCCommitRequest ==
    [cmd : {"commit"}, len : 4 .. 6, crcOk : BOOLEAN,
     session : SessionId, commitDataLen : {0, 1}]

MCBlobRequest ==
    UNION {[cmd : {c}, len : Around(minimumLengths[c]), crcOk : BOOLEAN,
            path : Path, terminated : BOOLEAN] : c \in {"delete", "stat"}}

MCOpenRequest ==
    [cmd : {"open"}, len : Around(minimumLengths.open), crcOk : BOOLEAN,
     path : Path, terminated : BOOLEAN, flags : FlagSets]

MCCountRequest == [cmd : {"getCount"}, len : 0 .. 3, crcOk : BOOLEAN]

\* Payloads without room for a CRC, whatever the bytes there are.
MCTinyRequest ==
    {[cmd |-> r.cmd, len |-> n, crcOk |-> FALSE, session |-> 0, path |-> p1,
      terminated |-> TRUE, flags |-> {"read"}, commitDataLen |-> 0, index |-> 0]
        : r \in [cmd : DOMAIN minimumLengths], n \in {0, CmdSize}}

MCUnknownRequest == [cmd : {"unknown"}, len : {1, 2, 3}, crcOk : BOOLEAN]

MCEnumerateRequest ==
    [cmd : {"enumerate"}, len : Around(minimumLengths.enumerate),
     crcOk : BOOLEAN, index : 0 .. 4]

\* Everything a client can do with sessions.
SessionsRequest ==
    BadOnSessionZero(MCSessionRequest \cup MCCommitRequest)
      \cup DamagedOnlyIfLong(MCBlobRequest \cup MCOpenRequest)
      \cup MCUnknownRequest \cup MCTinyRequest
      \cup {r \in MCEnumerateRequest : r.index = 0}

\* Enumeration, while others open, close, delete and stat.
ListingRequest ==
    MCCountRequest \cup MCEnumerateRequest
      \cup {r \in MCSessionRequest \cup MCBlobRequest \cup MCOpenRequest :
               /\ r.cmd \in {"open", "close", "delete", "stat"}
               /\ r.crcOk
               /\ r.len = minimumLengths[r.cmd]
               /\ r.cmd # "close" => r.terminated}

\* The smallest channel allowed, and the 256 bytes that the README gives as
\* the theoretical largest packet.
MCMaxSizes  == {6, 256}
MCReadSizes == {1, 255}

\* None, the largest that fits a packet of 256 bytes with the rest of the
\* reply, and the smallest whose length 8 bits cannot hold.
MCMetaSizes == {0, 247, 256}

NoLists == {<<>>}
MCLists == {<<>>, <<p1>>, <<p1, p2>>}

\* p2 is the empty string.
MCIdLength == [p \in Path |-> IF p = p1 THEN 1 ELSE 0]
=============================================================================
