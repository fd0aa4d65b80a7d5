---------------------------- MODULE BlobService ----------------------------
(***************************************************************************)
(* The blob commands as an IPMI client meets them: handleBlobCommand of    *)
(* process.cpp, the handlers of ipmi.cpp, the manager behind them and the  *)
(* manager's list of blob ids for enumeration.  One request is one step.   *)
(*                                                                         *)
(* Requests come from any number of clients over channels of different     *)
(* sizes, in any order, well formed or not.  What is lost on the way to    *)
(* the BMC is no step; a reply that is lost on the way back is a reply     *)
(* after which the client asks again, which it may do here at any time.    *)
(***************************************************************************)
EXTENDS BlobManager, BlobCommand, SequencesExt

CONSTANTS
    Loaded,      \* the lists of plugins that the start may have registered
    Request,     \* the requests that may arrive
    MaxSizes,    \* the largest replies that the channels can carry
    ReadSizes,   \* how many bytes a plugin may return from read(), besides 0
    MetaSizes,   \* how many bytes of metadata a plugin's stat() may fill in
    BlobLists,   \* what a plugin may return from getBlobIds()
    IdLength     \* the number of characters of a blob id

\* No plugin is registered twice.
ASSUME LoadedAssumption ==
    \A list \in Loaded : list \in Seq(Handler) /\ IsInjective(list)

ASSUME RequestAssumption ==
    \A req \in Request :
        /\ req.len \in Nat
        /\ req.crcOk \in BOOLEAN
        /\ req.cmd \in {"read", "write", "writeMeta", "commit", "close",
                        "sessionStat"} => req.session \in SessionId
        /\ req.cmd \in NamesBlob => req.path \in Path /\ req.terminated \in BOOLEAN
        /\ req.cmd = "open" => req.flags \in FlagSets
        /\ req.cmd = "commit" => req.commitDataLen \in 0 .. 255
        /\ req.cmd = "enumerate" => req.index \in Nat

\* Every channel can carry the replies to commands that change something in
\* the manager; the longest of those is BmcBlobCountRx.
ASSUME MaxSizesAssumption ==
    MaxSizes \subseteq Nat /\ \A m \in MaxSizes : m >= RxSize.getCount

ASSUME SizesAssumption ==
    /\ ReadSizes \subseteq Nat \ {0}
    /\ MetaSizes \subseteq Nat
    /\ BlobLists \subseteq Seq(Path)
    /\ IdLength \in [Path -> Nat]

VARIABLES
    ids,       \* the blob ids that the last BmcBlobGetCount listed
    listed,    \* history: what each plugin answered to it
    request,   \* the request that the last step served
    reply,     \* and the reply that it was given
    known,     \* the sessions that clients were told of and did not close
    counted    \* the number of blobs in the last count that a client got

serviceVars == <<vars, ids, listed, request, reply, known, counted>>

NoRequest == [cmd |-> "none"]
NoReply   == [cc |-> "none"]
-----------------------------------------------------------------------------
(***************************************************************************)
(* buildBlobList and getBlobId.  An id of length 0 reads as "not found".   *)
(***************************************************************************)
\* Slip: the list of the count before is not cleared.
BuildBlobListAgain(lists) == ids' = ids \o FlattenSeq(lists)

BuildBlobList(lists) == ids' = FlattenSeq(lists)

GetBlobIdFinds(index) == index < Len(ids) /\ IdLength[ids[index + 1]] > 0

(***************************************************************************)
(* A request that no manager method is called for.                         *)
(***************************************************************************)
TurnAway(cc) ==
    /\ reply' = Failed(cc)
    /\ Refuse
    /\ UNCHANGED <<ids, listed>>

(***************************************************************************)
(* A manager method has returned true when the plugin that it called did.  *)
(***************************************************************************)
Granted(o) == \E c \in calls' : c.op = o /\ c.ok

Answer(o, result, maxSize) ==
    /\ reply' = IF Granted(o) THEN ProcessBlobCommand(result, maxSize)
                              ELSE Failed("unspecifiedError")
    /\ UNCHANGED <<ids, listed>>

Done == [cc |-> "success", len |-> 0]

(***************************************************************************)
(* The handlers of ipmi.cpp, for requests that passed the checks of        *)
(* BlobCommand.                                                            *)
(***************************************************************************)
GetBlobCount(req, maxSize) ==
    /\ req.cmd = "getCount"
    /\ \E lists \in [DOMAIN handlers -> BlobLists] :
          /\ BuildBlobList(lists)
          /\ listed' = lists
    /\ Refuse
    /\ reply' = ProcessBlobCommand([cc    |-> "success",
                                    len   |-> RxSize.getCount,
                                    count |-> Len(ids')], maxSize)

EnumerateBlob(req, maxSize) ==
    /\ req.cmd = "enumerate"
    /\ reply' =
         IF GetBlobIdFinds(req.index)
         THEN LET id == ids[req.index + 1]
              IN  ProcessBlobCommand([cc  |-> "success",
                                      len |-> RxSize.enumerate + IdLength[id] + 1,
                                      id  |-> id], maxSize)
         ELSE Failed("invalidFieldRequest")
    /\ Refuse
    /\ UNCHANGED <<ids, listed>>

OpenBlob(req, maxSize) ==
    /\ req.cmd = "open"
    /\ Open(req.flags, req.path)
    /\ Answer("open", [cc      |-> "success",
                       len     |-> RxSize.open,
                       session |-> Candidate(FirstFree)], maxSize)

CloseBlob(req, maxSize) ==
    /\ req.cmd = "close"
    /\ Close(req.session)
    /\ Answer("close", Done, maxSize)

DeleteBlobNamed(req, maxSize) ==
    /\ req.cmd = "delete"
    /\ DeleteBlob(req.path)
    /\ Answer("deleteBlob", Done, maxSize)

\* returnStatBlob.
StatResult(metaSize) ==
    [cc          |-> "success",
     len         |-> RxSize.stat + metaSize,
     metadataLen |-> metaSize % MetaLenModulus]

AnswerStat(o, maxSize) ==
    \E m \in IF Granted(o) THEN MetaSizes ELSE {0} :
        Answer(o, StatResult(m), maxSize)

StatBlob(req, maxSize) ==
    /\ req.cmd = "stat"
    /\ Stat(req.path)
    /\ AnswerStat("statPath", maxSize)

SessionStatBlob(req, maxSize) ==
    /\ req.cmd = "sessionStat"
    /\ SessionStat(req.session)
    /\ AnswerStat("stat", maxSize)

CommitBlob(req, maxSize) ==
    /\ req.cmd = "commit"
    /\ Commit(req.session)
    /\ Answer("commit", Done, maxSize)

\* A read that fails is answered like one that returns no bytes.
ReadResult(size) == [cc |-> "success", len |-> RxSize.read + size]

ReadBlob(req, maxSize) ==
    /\ req.cmd = "read"
    /\ Read(req.session)
    /\ \E n \in IF Granted("read") THEN ReadSizes ELSE {0} :
          reply' = ProcessBlobCommand(ReadResult(n), maxSize)
    /\ UNCHANGED <<ids, listed>>

WriteBlob(req, maxSize) ==
    /\ req.cmd = "write"
    /\ Write(req.session)
    /\ Answer("write", Done, maxSize)

WriteMetaBlob(req, maxSize) ==
    /\ req.cmd = "writeMeta"
    /\ WriteMeta(req.session)
    /\ Answer("writeMeta", Done, maxSize)

RunHandler(req, maxSize) ==
    \/ GetBlobCount(req, maxSize)
    \/ EnumerateBlob(req, maxSize)
    \/ OpenBlob(req, maxSize)
    \/ CloseBlob(req, maxSize)
    \/ DeleteBlobNamed(req, maxSize)
    \/ StatBlob(req, maxSize)
    \/ SessionStatBlob(req, maxSize)
    \/ CommitBlob(req, maxSize)
    \/ ReadBlob(req, maxSize)
    \/ WriteBlob(req, maxSize)
    \/ WriteMetaBlob(req, maxSize)

(***************************************************************************)
(* handleBlobCommand.                                                      *)
(***************************************************************************)
HandleBlobCommand(req, maxSize) ==
    \/ /\ ValidateBlobCommand(req) # "success"
       /\ TurnAway(ValidateBlobCommand(req))
    \/ /\ ValidateBlobCommand(req) = "success"
       /\ ~HandlerAccepts(req)
       /\ TurnAway("reqDataLenInvalid")
    \/ /\ ValidateBlobCommand(req) = "success"
       /\ HandlerAccepts(req)
       /\ RunHandler(req, maxSize)

(***************************************************************************)
(* What the clients have been told, from the replies alone.                *)
(***************************************************************************)
Replied(cmd) == request'.cmd = cmd /\ reply'.cc = "success"

Remember ==
    /\ known' = IF Replied("open") THEN known \cup {reply'.session}
                ELSE IF Replied("close") THEN known \ {request'.session}
                ELSE known
    /\ counted' = IF Replied("getCount") THEN reply'.count ELSE counted

Serve(req) ==
    /\ request' = req
    /\ \E maxSize \in MaxSizes : HandleBlobCommand(req, maxSize)
    /\ Remember

(***************************************************************************)
(* Time passes without a request.                                          *)
(***************************************************************************)
Background ==
    /\ Tick
    /\ request' = NoRequest
    /\ reply' = NoReply
    /\ UNCHANGED <<ids, listed, known, counted>>

(***************************************************************************)
(* setupBlobGlobalHandler has created the manager and loaded the plugins   *)
(* before the first request is served.                                     *)
(***************************************************************************)
ServiceInit ==
    /\ handlers \in Loaded
    /\ EmptyTable
    /\ ids = <<>>
    /\ listed = <<>>
    /\ request = NoRequest
    /\ reply = NoReply
    /\ known = {}
    /\ counted = 0

ServiceNext ==
    \/ \E req \in Request : Serve(req)
    \/ Background

ServiceSpec == ServiceInit /\ [][ServiceNext]_serviceVars
-----------------------------------------------------------------------------
ServiceTypeOK ==
    /\ TypeOK
    /\ ids \in Seq(Path)
    /\ listed \in Seq(BlobLists)
    /\ request \in Request \cup {NoRequest}
    /\ reply.cc \in Code \cup {"none"}
    /\ known \subseteq SessionId
    /\ counted \in Nat

\* No handler reads past the end of its request: the lengths in
\* validateRequestLength's table, and commitBlob's check of the length that
\* the client claims, cover every cast and copy in the handlers.
ReadsWithinPayload ==
    request # NoRequest /\ ValidateBlobCommand(request) = "success" =>
        BytesRead(request) <= request.len

\* A request whose bytes were damaged on the way never reaches a plugin or the
\* sessions, however short it is, although validateBlobCommand passes over the
\* CRC of a payload of at most one byte: the smallest lengths keep all those
\* away from the handlers.  Only BmcBlobGetCount, which takes nothing from its
\* payload, is served, and may renew the list of blob ids.
DamagedRequestsAreHarmless ==
    [][request' # NoRequest /\ ~request'.crcOk =>
          /\ UNCHANGED <<handlers, table>>
          /\ calls' = {}
          /\ request'.cmd # "getCount" =>
                reply'.cc # "success" /\ UNCHANGED ids]_serviceVars

\* Every session in the table is one that a client was told about and was
\* not told is closed: no open that succeeded in the manager is answered
\* with an error afterwards, and no close is confirmed that did not happen.
SessionsAreKnown == DOMAIN sessions \subseteq known

\* A client that was not told so does not lose its session, except to an
\* expiry that the plugin agreed to.
SessionsEndKnowingly ==
    [][\A s \in DOMAIN sessions \ DOMAIN sessions' :
          \/ Replied("close") /\ request'.session = s
          \/ \E c \in calls' : c.op = "expire" /\ c.session = s /\ c.ok]_serviceVars

\* A session begins exactly when a client hears of it, by the reply to an open
\* that asked for this blob with these flags, and its id was nobody's.  Whatever
\* way an open fails, for want of an id or a mode, at the plugin, after others
\* were expired for it, nothing of it remains.
SessionsBeginKnowingly ==
    [][LET begun == DOMAIN sessions' \ DOMAIN sessions
       IN  IF Replied("open")
           THEN /\ begun = {reply'.session}
                /\ sessions'[reply'.session].blobId = request'.path
                /\ sessions'[reply'.session].flags = request'.flags
           ELSE begun = {}]_serviceVars

\* README, BmcBlobStat: metadata_len is the number of bytes that follow the
\* structure, although the field has 8 bits and the plugin sets no limit.
MetadataLenIsExact ==
    request.cmd \in {"stat", "sessionStat"} /\ reply.cc = "success" =>
        reply.len = RxSize.stat + reply.metadataLen

\* README, BmcBlobGetCount and BmcBlobEnumerate: indexes below the count name
\* the blobs, in the order in which the plugins, in the order of registration,
\* listed them at that count.  Opens, closes and deletes since then change no
\* answer, which is more than the README promises, because the list is a copy.
\* It is the daemon's and not the client's: the last count that anybody asked
\* for decides, and a client has no way to tell that there was another one.
CountedBlobsAreListed ==
    [][LET all == FlattenSeq(listed)
       IN  /\ Replied("getCount") => reply'.count = Len(FlattenSeq(listed'))
           /\ Replied("enumerate") =>
                 /\ request'.index < Len(all)
                 /\ reply'.id = all[request'.index + 1]
           /\ request'.cmd = "enumerate" /\ reply'.cc = "invalidFieldRequest" =>
                 \/ request'.index >= counted
                 \/ IdLength[all[request'.index + 1]] = 0]_serviceVars
=============================================================================
