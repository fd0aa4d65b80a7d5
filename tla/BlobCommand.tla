---------------------------- MODULE BlobCommand ----------------------------
(***************************************************************************)
(* The part of the IPMI command layer that does not look at the manager:   *)
(* which requests are well formed (process.cpp, validateBlobCommand, and   *)
(* the checks at the head of each handler in ipmi.cpp), and which replies  *)
(* fit the channel (process.cpp, processBlobCommand).                      *)
(*                                                                         *)
(* A request is what the layer can tell about its bytes: the command, the  *)
(* number of payload bytes, whether the CRC at their head matches the      *)
(* rest, and the fields at the places where the handlers look for them.    *)
(* Fields beyond `len' are not there: a handler that uses one has read     *)
(* past the end of the request.                                            *)
(***************************************************************************)
EXTENDS Integers

\* The table of handlers in process.cpp.
Command == {"getCount", "enumerate", "open", "read", "write", "commit",
            "close", "delete", "stat", "sessionStat", "writeMeta"}

\* Commands that begin their payload with a blob id after the fixed part.
NamesBlob == {"open", "delete", "stat"}

(***************************************************************************)
(* The sizes of the packed structures of ipmi.hpp.                         *)
(***************************************************************************)
TxSize == [getCount |-> 0, enumerate |-> 6, open |-> 4, read |-> 12,
           write |-> 8, commit |-> 5, close |-> 4, delete |-> 2, stat |-> 2,
           sessionStat |-> 4, writeMeta |-> 8]

RxSize == [getCount |-> 6, enumerate |-> 2, open |-> 4, read |-> 2, stat |-> 9]

CmdSize   == 1        \* sizeof(cmd)
BmcRxSize == 3        \* the CRC and at least one byte of data
CrcSize   == 2
MetaLenModulus == 256 \* BmcBlobStatRx::metadataLen is a uint8_t
SizeModulus == 2^30   \* stands for the 2^64 of size_t; no length comes near

(***************************************************************************)
(* validateRequestLength.                                                  *)
(***************************************************************************)
kMinStrLen == 2

minimumLengths ==
    [enumerate   |-> TxSize.enumerate,
     open        |-> TxSize.open + kMinStrLen,
     close       |-> TxSize.close,
     delete      |-> TxSize.delete + kMinStrLen,
     stat        |-> TxSize.stat + kMinStrLen,
     sessionStat |-> TxSize.sessionStat,
     commit      |-> TxSize.commit,
     read        |-> TxSize.read,
     write       |-> TxSize.write + 1,
     writeMeta   |-> TxSize.writeMeta + 1]

\* Slip: the table is consulted only for the commands that name a blob.
ValidateNamesOnly(cmd, len) ==
    cmd \in NamesBlob => len >= minimumLengths[cmd]

\* Slip: a payload too short for a CRC is taken for no payload.
ValidateIfPayload(cmd, len) ==
    cmd \in DOMAIN minimumLengths /\ len > CmdSize => len >= minimumLengths[cmd]

ValidateRequestLength(cmd, len) ==
    cmd \in DOMAIN minimumLengths => len >= minimumLengths[cmd]

(***************************************************************************)
(* validateBlobCommand: the completion code with which the request is      *)
(* turned away, or "success" when it is passed to its handler.             *)
(***************************************************************************)
Code == {"success", "reqDataLenInvalid", "unspecifiedError",
         "invalidFieldRequest", "responseError"}

ValidateBlobCommand(req) ==
    IF \/ ~ValidateRequestLength(req.cmd, req.len)
       \/ req.len > CmdSize /\ req.len < BmcRxSize
    THEN "reqDataLenInvalid"
    ELSE IF req.len > CmdSize /\ ~req.crcOk THEN "unspecifiedError"
    ELSE IF req.cmd \notin Command THEN "invalidFieldRequest"
    ELSE "success"

(***************************************************************************)
(* The handlers' own checks.                                               *)
(***************************************************************************)
\* stringFromBuffer gives the empty string.  The last byte is the terminator.
StringIsEmpty(req) ==
    LET size == req.len - TxSize[req.cmd]
    IN  size <= 0 \/ ~req.terminated \/ size - 1 = 0

\* commitBlob: the data that the request announces is there.
CommitDataFits(req) ==
    req.commitDataLen <= (req.len - TxSize.commit) % SizeModulus

\* Handlers that compare the size with the structure once more.
ChecksSize == {"close", "sessionStat", "read", "writeMeta"}

HandlerAccepts(req) ==
    /\ req.cmd \in NamesBlob => ~StringIsEmpty(req)
    /\ req.cmd = "commit" => CommitDataFits(req)
    /\ req.cmd \in ChecksSize => req.len >= TxSize[req.cmd]

\* The payload bytes a handler reads at fixed places, which it does before
\* or after its own checks according to the command.
BytesRead(req) ==
    IF req.cmd \in ChecksSize /\ req.len < TxSize[req.cmd] THEN 0
    ELSE IF req.cmd = "commit" /\ CommitDataFits(req)
         THEN TxSize.commit + req.commitDataLen
    ELSE TxSize[req.cmd]

(***************************************************************************)
(* processBlobCommand.  The CRC it puts into a reply is not modelled.      *)
(***************************************************************************)
Failed(cc) == [cc |-> cc]

\* Slip: room is kept for the three bytes of the OEM number.
ProcessWithHeader(result, maxSize) ==
    IF result.cc # "success" \/ result.len = 0 THEN result
    ELSE IF result.len < CrcSize THEN Failed("unspecifiedError")
    ELSE IF result.len + 3 > maxSize THEN Failed("responseError")
    ELSE result

\* Slip: the size is not looked at.
ProcessAnySize(result, maxSize) ==
    IF result.cc = "success" /\ result.len = 1 THEN Failed("unspecifiedError")
    ELSE result

ProcessBlobCommand(result, maxSize) ==
    IF result.cc # "success" \/ result.len = 0 THEN result
    ELSE IF result.len < CrcSize THEN Failed("unspecifiedError")
    ELSE IF result.len > maxSize THEN Failed("responseError")
    ELSE result
=============================================================================
