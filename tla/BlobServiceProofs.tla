------------------------- MODULE BlobServiceProofs -------------------------
(***************************************************************************)
(* Proofs about BlobService, for all requests, channel sizes, plugins and  *)
(* answers of plugins.                                                     *)
(***************************************************************************)
EXTENDS BlobService, BlobManagerProofs

(***************************************************************************)
(* Requests.                                                               *)
(***************************************************************************)
\* A request that validateBlobCommand lets through has a known command, the
\* length that its table asks for, and a CRC that matches if there is one.
LEMMA ValidatedRequest ==
    ASSUME NEW req, ValidateBlobCommand(req) = "success"
    PROVE  /\ req.cmd \in Command
           /\ ValidateRequestLength(req.cmd, req.len)
           /\ req.len > CmdSize => req.crcOk
BY DEF ValidateBlobCommand

\* Every structure is covered by the smallest length of its command.
LEMMA StructuresAreCovered ==
    ASSUME NEW req, req.len \in Nat, req.cmd \in Command,
           ValidateRequestLength(req.cmd, req.len)
    PROVE  TxSize[req.cmd] <= req.len
BY DEF Command, ValidateRequestLength, minimumLengths, TxSize, kMinStrLen

LEMMA ValidatedReadsWithin ==
    ASSUME NEW req \in Request, ValidateBlobCommand(req) = "success"
    PROVE  BytesRead(req) <= req.len
<1>1. /\ req.len \in Nat
      /\ req.cmd = "commit" => req.commitDataLen \in 0 .. 255
  BY RequestAssumption
<1>2. req.cmd \in Command /\ TxSize[req.cmd] <= req.len
  BY <1>1, ValidatedRequest, StructuresAreCovered
<1>3. CASE req.cmd = "commit" /\ CommitDataFits(req)
  <2>1. TxSize[req.cmd] = 5 /\ TxSize.commit = 5
    BY <1>3 DEF TxSize
  <2>2. req.len - 5 \in Nat
    BY <1>1, <1>2, <2>1
  <2>3. (req.len - 5) % SizeModulus <= req.len - 5
    <3>1. \A a, m \in Nat : m > 0 => a % m <= a
      OBVIOUS
    <3>. QED
      BY <2>2, <3>1 DEF SizeModulus
  <2>4. BytesRead(req) = 5 + req.commitDataLen
    BY <1>3, <2>1 DEF BytesRead, ChecksSize
  <2>. QED
    BY <1>1, <1>3, <2>1, <2>2, <2>3, <2>4 DEF CommitDataFits, SizeModulus
<1>4. CASE ~(req.cmd = "commit" /\ CommitDataFits(req))
  BY <1>1, <1>2, <1>4 DEF BytesRead
<1>. QED
  BY <1>3, <1>4

\* No request that arrives makes a handler read past its end: the table of
\* validateRequestLength covers every structure, and commitBlob's check the
\* data that the client announces.
THEOREM PayloadsAreCovered == ServiceSpec => []ReadsWithinPayload
<1> DEFINE Inv == request \in Request \cup {NoRequest}
<1>1. ServiceInit => Inv
  BY DEF ServiceInit
<1>2. Inv /\ [ServiceNext]_serviceVars => Inv'
  BY DEF ServiceNext, serviceVars, Serve, Background
<1>3. Inv => ReadsWithinPayload
  BY ValidatedReadsWithin DEF ReadsWithinPayload
<1>. QED
  BY <1>1, <1>2, <1>3, PTL DEF ServiceSpec

-----------------------------------------------------------------------------
(***************************************************************************)
(* What one request does to the manager.                                   *)
(***************************************************************************)
\* A request that passes both sets of checks runs the handler of its command.
LEMMA RunHandlerStep ==
    ASSUME NEW req \in Request, NEW maxSize \in MaxSizes,
           RunHandler(req, maxSize)
    PROVE  Next
<1>1. \A s \in SessionId :
        Read(s) \/ Write(s) \/ WriteMeta(s) \/ Commit(s) \/ SessionStat(s) \/ Close(s)
          => Next
  BY DEF Next
<1>2. \A p \in Path : DeleteBlob(p) \/ Stat(p) => Next
  BY DEF Next
<1>3. \A flags \in FlagSets, p \in Path : Open(flags, p) => Next
  BY DEF Next
<1>4. Refuse => Next
  BY DEF Next, RegisterNull
<1>5. CASE GetBlobCount(req, maxSize) \/ EnumerateBlob(req, maxSize)
  BY <1>4, <1>5 DEF GetBlobCount, EnumerateBlob
<1>6. CASE OpenBlob(req, maxSize)
  BY <1>3, <1>6, RequestAssumption DEF OpenBlob, NamesBlob
<1>7. CASE DeleteBlobNamed(req, maxSize) \/ StatBlob(req, maxSize)
  BY <1>2, <1>7, RequestAssumption DEF DeleteBlobNamed, StatBlob, NamesBlob
<1>8. CASE \/ CloseBlob(req, maxSize) \/ SessionStatBlob(req, maxSize)
           \/ CommitBlob(req, maxSize) \/ ReadBlob(req, maxSize)
           \/ WriteBlob(req, maxSize) \/ WriteMetaBlob(req, maxSize)
  BY <1>1, <1>8, RequestAssumption
     DEF CloseBlob, SessionStatBlob, CommitBlob, ReadBlob, WriteBlob, WriteMetaBlob
<1>. QED
  BY <1>5, <1>6, <1>7, <1>8 DEF RunHandler

LEMMA ServiceStepIsManagerStep == [ServiceNext]_serviceVars => [Next]_vars
<1> SUFFICES ASSUME [ServiceNext]_serviceVars
             PROVE  [Next]_vars
  OBVIOUS
<1>1. ASSUME NEW req \in Request, Serve(req)
      PROVE  Next
  <2>1. PICK maxSize \in MaxSizes : HandleBlobCommand(req, maxSize)
    BY <1>1 DEF Serve
  <2>2. CASE Refuse
    BY <2>2 DEF Next, RegisterNull
  <2>3. CASE RunHandler(req, maxSize)
    BY <2>3, RunHandlerStep
  <2>. QED
    BY <2>1, <2>2, <2>3 DEF HandleBlobCommand, TurnAway
<1>2. CASE Background
  BY <1>2 DEF Background, Next
<1>3. CASE UNCHANGED serviceVars
  BY <1>3 DEF serviceVars
<1>. QED
  BY <1>1, <1>2, <1>3 DEF ServiceNext

\* The smallest lengths leave only BmcBlobGetCount a payload of which no CRC is
\* checked.
LEMMA DamagedIsTurnedAway ==
    ASSUME NEW req \in Request, ~req.crcOk, req.cmd # "getCount"
    PROVE  ValidateBlobCommand(req) # "success"
<1> SUFFICES ASSUME ValidateBlobCommand(req) = "success" PROVE FALSE
  OBVIOUS
<1>1. /\ req.cmd \in Command
      /\ ValidateRequestLength(req.cmd, req.len)
      /\ ~(req.len > CmdSize)
  BY ValidatedRequest
<1>2. req.cmd \in DOMAIN minimumLengths /\ minimumLengths[req.cmd] > CmdSize
  BY <1>1 DEF Command, minimumLengths, TxSize, kMinStrLen, CmdSize
<1>3. req.len \in Nat
  BY RequestAssumption
<1>4. minimumLengths[req.cmd] \in Nat /\ req.len >= minimumLengths[req.cmd]
  BY <1>1, <1>2 DEF ValidateRequestLength, Command, minimumLengths, TxSize, kMinStrLen
<1>. QED
  BY <1>1, <1>2, <1>3, <1>4 DEF CmdSize

\* process.cpp, validateBlobCommand: a damaged request, however short, makes no
\* plugin call, leaves the sessions alone and is answered with an error; a count
\* is served and leaves the sessions alone.
THEOREM DamageIsHarmless == ServiceSpec => DamagedRequestsAreHarmless
<1>1. [ServiceNext]_serviceVars =>
        [request' # NoRequest /\ ~request'.crcOk =>
            /\ UNCHANGED <<handlers, table>>
            /\ calls' = {}
            /\ request'.cmd # "getCount" =>
                  reply'.cc # "success" /\ UNCHANGED ids]_serviceVars
  <2> SUFFICES ASSUME ServiceNext, request' # NoRequest, ~request'.crcOk
               PROVE  /\ UNCHANGED <<handlers, table>>
                      /\ calls' = {}
                      /\ request'.cmd # "getCount" =>
                            reply'.cc # "success" /\ UNCHANGED ids
    OBVIOUS
  <2>1. PICK req \in Request : Serve(req)
    BY DEF ServiceNext, Background
  <2>2. request' = req
    BY <2>1 DEF Serve
  <2>3. PICK maxSize \in MaxSizes : HandleBlobCommand(req, maxSize)
    BY <2>1 DEF Serve
  <2>4. ASSUME NEW cc, TurnAway(cc), cc # "success"
        PROVE  /\ UNCHANGED <<handlers, table>>
               /\ calls' = {}
               /\ reply'.cc # "success" /\ UNCHANGED ids
    BY <2>4 DEF TurnAway, Refuse, Failed
  <2>5. CASE req.cmd # "getCount"
    <3>1. TurnAway(ValidateBlobCommand(req)) /\ ValidateBlobCommand(req) # "success"
      BY <2>2, <2>3, <2>5, DamagedIsTurnedAway DEF HandleBlobCommand
    <3>. QED
      BY <2>4, <3>1
  <2>6. CASE req.cmd = "getCount"
    <3>1. CASE RunHandler(req, maxSize)
      <4>1. GetBlobCount(req, maxSize)
        BY <2>6, <3>1
           DEF RunHandler, EnumerateBlob, OpenBlob, CloseBlob, DeleteBlobNamed, StatBlob,
               SessionStatBlob, CommitBlob, ReadBlob, WriteBlob, WriteMetaBlob
      <4>. QED
        BY <2>2, <2>6, <4>1 DEF GetBlobCount, Refuse
    <3>2. CASE ~RunHandler(req, maxSize)
      BY <2>3, <2>4, <3>2 DEF HandleBlobCommand
    <3>. QED  BY <3>1, <3>2
  <2>. QED
    BY <2>5, <2>6
<1>. QED
  BY <1>1, PTL DEF ServiceSpec, DamagedRequestsAreHarmless

-----------------------------------------------------------------------------
(***************************************************************************)
(* Which sessions a request begins and ends, and what its client hears.    *)
(***************************************************************************)
Expired(s) == \E c \in calls' : c.op = "expire" /\ c.session = s /\ c.ok

\* An open adds at most the session whose id it returns, and only when the
\* plugin opened it; the sessions that it removes are expired ones.
LEMMA OpenDomain ==
    ASSUME NEW flags \in FlagSets, NEW p \in Path, Open(flags, p)
    PROVE  /\ DOMAIN sessions' \subseteq DOMAIN sessions \cup
                  (IF Granted("open") THEN {Candidate(FirstFree)} ELSE {})
           /\ \A s \in DOMAIN sessions \ DOMAIN sessions' : Expired(s)
<1>1. CASE sessions' = sessions
  BY <1>1
<1>2. ASSUME NEW h \in Handler, OpenWithSession(h, flags, p)
      PROVE  /\ DOMAIN sessions' \subseteq DOMAIN sessions \cup
                    (IF Granted("open") THEN {Candidate(FirstFree)} ELSE {})
             /\ \A s \in DOMAIN sessions \ DOMAIN sessions' : Expired(s)
  <2>1. PICK E \in SUBSET Stale(h), opened \in BOOLEAN :
            CleanUpAndOpen(h, flags, p, Candidate(FirstFree), E, opened)
    BY <1>2 DEF OpenWithSession
  <2>2. DOMAIN SessionsWithout(E) = DOMAIN sessions \ E
    BY SessionsLeft
  <2>3. DOMAIN sessions' = (DOMAIN sessions \ E) \cup
                              (IF opened THEN {Candidate(FirstFree)} ELSE {})
    BY <2>1, <2>2 DEF CleanUpAndOpen, Put
  <2>4. opened => Granted("open")
    <3>1. OpenCall(h, Candidate(FirstFree), p, opened) \in calls'
      BY <2>1 DEF CleanUpAndOpen
    <3>. QED
      BY <3>1 DEF Granted, OpenCall
  <2>5. \A s \in E : Expired(s)
    <3> SUFFICES ASSUME NEW s \in E PROVE Expired(s)
      OBVIOUS
    <3>1. SessionCall("expire", h, s, s \in E) \in calls'
      BY <2>1 DEF CleanUpAndOpen, ExpireCalls
    <3>2. /\ SessionCall("expire", h, s, s \in E).op = "expire"
          /\ SessionCall("expire", h, s, s \in E).session = s
          /\ SessionCall("expire", h, s, s \in E).ok
      BY DEF SessionCall
    <3>. QED
      BY <3>1, <3>2 DEF Expired
  <2>. QED
    BY <2>3, <2>4, <2>5
<1>. QED
  BY <1>1, <1>2 DEF Open, OpenOn, Refuse, table, OpenWithoutSession, OpenWithoutMode

\* A close removes its session exactly when the plugin closed it.
LEMMA CloseDomain ==
    ASSUME NEW s, Close(s)
    PROVE  DOMAIN sessions' = DOMAIN sessions \ (IF Granted("close") THEN {s} ELSE {})
<1>1. CASE Refuse
  BY <1>1 DEF Refuse, table, Granted
<1>2. CASE CloseRefused(s)
  BY <1>2 DEF CloseRefused, Touched, Granted, SessionCall
<1>3. CASE CloseDone(s)
  <2>1. Granted("close")
    BY <1>3 DEF CloseDone, Granted, SessionCall
  <2>2. DOMAIN sessions' = DOMAIN sessions \ {s}
    BY <1>3, SessionsLeft DEF CloseDone
  <2>. QED
    BY <2>1, <2>2
<1>. QED
  BY <1>1, <1>2, <1>3 DEF Close

LEMMA ForwardDomain ==
    ASSUME NEW o, NEW s, NEW m, Forward(o, s, m)
    PROVE  DOMAIN sessions' = DOMAIN sessions
BY DEF Forward, Refuse, table, Touched

\* What one request does to the set of sessions and to its client's view.
LEMMA ServeDomain ==
    ASSUME NEW req \in Request, Serve(req), SessionsAreKnown
    PROVE  /\ SessionsAreKnown'
           /\ \A s \in DOMAIN sessions \ DOMAIN sessions' :
                 (Replied("close") /\ request'.session = s) \/ Expired(s)
<1>1. PICK maxSize \in MaxSizes : HandleBlobCommand(req, maxSize)
  BY DEF Serve
<1>2. /\ request' = req
      /\ known' = IF Replied("open") THEN known \cup {reply'.session}
                  ELSE IF Replied("close") THEN known \ {request'.session}
                  ELSE known
  BY DEF Serve, Remember
<1>3. ASSUME DOMAIN sessions' = DOMAIN sessions, req.cmd # "close" \/ reply'.cc # "success"
      PROVE  /\ SessionsAreKnown'
             /\ \A s \in DOMAIN sessions \ DOMAIN sessions' :
                   (Replied("close") /\ request'.session = s) \/ Expired(s)
  BY <1>2, <1>3 DEF SessionsAreKnown, Replied
<1>4. CASE ValidateBlobCommand(req) # "success" \/ ~HandlerAccepts(req)
  BY <1>1, <1>3, <1>4 DEF HandleBlobCommand, TurnAway, Refuse, table, Failed
<1>5. CASE RunHandler(req, maxSize)
  <2>1. CASE OpenBlob(req, maxSize)
    <3>1. /\ DOMAIN sessions' \subseteq DOMAIN sessions \cup
                (IF Granted("open") THEN {Candidate(FirstFree)} ELSE {})
          /\ \A s \in DOMAIN sessions \ DOMAIN sessions' : Expired(s)
      BY <2>1, OpenDomain, RequestAssumption DEF OpenBlob, NamesBlob
    <3>2. CASE Granted("open")
      <4>1. maxSize \in Nat /\ maxSize >= 6
        BY MaxSizesAssumption DEF RxSize
      <4>2. reply' = [cc |-> "success", len |-> 4, session |-> Candidate(FirstFree)]
        BY <2>1, <3>2, <4>1 DEF OpenBlob, Answer, ProcessBlobCommand, RxSize, CrcSize
      <4>3. Replied("open") /\ reply'.session = Candidate(FirstFree)
        BY <1>2, <2>1, <4>2 DEF Replied, OpenBlob
      <4>. QED
        BY <1>2, <3>1, <4>3 DEF SessionsAreKnown
    <3>3. CASE ~Granted("open")
      <4>1. known' = known
        BY <1>2, <2>1, <3>3 DEF OpenBlob, Answer, Failed, Replied
      <4>. QED
        BY <3>1, <3>3, <4>1 DEF SessionsAreKnown
    <3>. QED  BY <3>2, <3>3
  <2>2. CASE CloseBlob(req, maxSize)
    <3>1. DOMAIN sessions' = DOMAIN sessions \
                                (IF Granted("close") THEN {req.session} ELSE {})
      BY <2>2, CloseDomain DEF CloseBlob
    <3>2. CASE Granted("close")
      <4>1. reply'.cc = "success"
        BY <2>2, <3>2 DEF CloseBlob, Answer, ProcessBlobCommand, Done
      <4>2. /\ Replied("close") /\ request'.session = req.session
            /\ known' = known \ {req.session}
        BY <1>2, <2>2, <4>1 DEF CloseBlob, Replied
      <4>. QED
        BY <3>1, <3>2, <4>2 DEF SessionsAreKnown
    <3>3. CASE ~Granted("close")
      <4>1. reply'.cc # "success"
        BY <2>2, <3>3 DEF CloseBlob, Answer, Failed
      <4>. QED
        BY <1>3, <3>1, <3>3, <4>1
    <3>. QED  BY <3>2, <3>3
  <2>3. CASE \/ SessionStatBlob(req, maxSize) \/ CommitBlob(req, maxSize)
             \/ ReadBlob(req, maxSize) \/ WriteBlob(req, maxSize)
             \/ WriteMetaBlob(req, maxSize)
    BY <1>3, <2>3, ForwardDomain
       DEF SessionStatBlob, CommitBlob, ReadBlob, WriteBlob, WriteMetaBlob,
           SessionStat, Commit, Read, Write, WriteMeta
  <2>4. CASE \/ GetBlobCount(req, maxSize) \/ EnumerateBlob(req, maxSize)
             \/ DeleteBlobNamed(req, maxSize) \/ StatBlob(req, maxSize)
    BY <1>3, <2>4
       DEF GetBlobCount, EnumerateBlob, DeleteBlobNamed, StatBlob, DeleteBlob,
           DeleteBlobOn, Stat, StatOn, Refuse, table
  <2>. QED
    BY <1>5, <2>1, <2>2, <2>3, <2>4 DEF RunHandler
<1>. QED
  BY <1>1, <1>4, <1>5 DEF HandleBlobCommand

\* Time begins and ends no sessions.
LEMMA BackgroundDomain ==
    ASSUME Background
    PROVE  DOMAIN sessions' = DOMAIN sessions /\ known' = known
BY DEF Background, Tick

LEMMA KnownStep == SessionsAreKnown /\ [ServiceNext]_serviceVars => SessionsAreKnown'
<1>1. ASSUME SessionsAreKnown, UNCHANGED serviceVars
      PROVE  SessionsAreKnown'
  BY <1>1 DEF SessionsAreKnown, serviceVars, vars
<1>2. ASSUME SessionsAreKnown, Background
      PROVE  SessionsAreKnown'
  BY <1>2, BackgroundDomain DEF SessionsAreKnown
<1>. QED
  BY <1>1, <1>2, ServeDomain DEF ServiceNext

\* The manager never holds a session that no client knows of: an open that
\* the manager carried out is always answered with its session id, and a
\* close is confirmed only when it happened.
THEOREM NoUnknownSessions == ServiceSpec => []SessionsAreKnown
<1>1. ServiceInit => SessionsAreKnown
  BY DEF ServiceInit, EmptyTable, SessionsAreKnown
<1>. QED
  BY <1>1, KnownStep, PTL DEF ServiceSpec

\* A session ends only by a close that its client saw confirmed or by an
\* expiry that the plugin agreed to.
THEOREM NoSessionLost == ServiceSpec => SessionsEndKnowingly
<1>1. ServiceInit => SessionsAreKnown
  BY DEF ServiceInit, EmptyTable, SessionsAreKnown
<1>2. SessionsAreKnown /\ [ServiceNext]_serviceVars =>
        [\A s \in DOMAIN sessions \ DOMAIN sessions' :
            \/ Replied("close") /\ request'.session = s
            \/ \E c \in calls' : c.op = "expire" /\ c.session = s /\ c.ok]_serviceVars
  BY ServeDomain, BackgroundDomain DEF ServiceNext, Expired
<1>. QED
  BY <1>1, <1>2, KnownStep, PTL DEF ServiceSpec, SessionsEndKnowingly
-----------------------------------------------------------------------------
(***************************************************************************)
(* The 8 bits of metadata_len.                                             *)
(***************************************************************************)
\* No channel carries a stat reply with more metadata than 8 bits can count.
SmallChannels == \A m \in MaxSizes : m < RxSize.stat + MetaLenModulus

\* What a stat is answered with: a failure, or the exact length.
LEMMA StatReplyIsExact ==
    ASSUME SmallChannels, NEW maxSize \in MaxSizes, NEW m \in Nat, NEW r,
           r = ProcessBlobCommand(StatResult(m), maxSize),
           r.cc = "success"
    PROVE  r.len = RxSize.stat + r.metadataLen
<1>1. StatResult(m).len = RxSize.stat + m /\ StatResult(m).cc = "success"
      /\ StatResult(m).metadataLen = m % MetaLenModulus
  BY DEF StatResult
<1>2. RxSize.stat = 9
  BY DEF RxSize
<1>3. Failed("unspecifiedError").cc # "success" /\ Failed("responseError").cc # "success"
  BY DEF Failed
<1>4. r = StatResult(m) /\ RxSize.stat + m <= maxSize
  BY <1>1, <1>2, <1>3, MaxSizesAssumption DEF ProcessBlobCommand, CrcSize
<1>5. m < MetaLenModulus
  BY <1>2, <1>4, MaxSizesAssumption DEF SmallChannels, MetaLenModulus
<1>6. m % MetaLenModulus = m
  BY <1>5 DEF MetaLenModulus
<1>. QED
  BY <1>1, <1>4, <1>6

LEMMA AnswerStatIsExact ==
    ASSUME SmallChannels, NEW maxSize \in MaxSizes, NEW o, AnswerStat(o, maxSize),
           reply'.cc = "success"
    PROVE  reply'.len = RxSize.stat + reply'.metadataLen
<1>1. PICK m \in IF Granted(o) THEN MetaSizes ELSE {0} : Answer(o, StatResult(m), maxSize)
  BY DEF AnswerStat
<1>2. m \in Nat
  BY SizesAssumption
<1>3. reply' = ProcessBlobCommand(StatResult(m), maxSize)
  BY <1>1 DEF Answer, Failed
<1>. QED
  BY <1>2, <1>3, StatReplyIsExact

LEMMA ExactStep ==
    (SmallChannels => MetadataLenIsExact) /\ [ServiceNext]_serviceVars =>
        (SmallChannels => MetadataLenIsExact)'
<1> SUFFICES ASSUME SmallChannels => MetadataLenIsExact, [ServiceNext]_serviceVars,
                    SmallChannels
             PROVE  MetadataLenIsExact'
  BY DEF SmallChannels
<1>1. CASE UNCHANGED serviceVars
  BY <1>1 DEF serviceVars, MetadataLenIsExact
<1>2. CASE Background
  BY <1>2 DEF Background, NoRequest, MetadataLenIsExact
<1>3. ASSUME NEW req \in Request, Serve(req),
             req.cmd \in {"stat", "sessionStat"}, reply'.cc = "success"
      PROVE  reply'.len = RxSize.stat + reply'.metadataLen
  <2>1. PICK maxSize \in MaxSizes : HandleBlobCommand(req, maxSize)
    BY <1>3 DEF Serve
  <2>2. RunHandler(req, maxSize)
    BY <1>3, <2>1 DEF HandleBlobCommand, TurnAway, Failed
  <2>3. StatBlob(req, maxSize) \/ SessionStatBlob(req, maxSize)
    BY <1>3, <2>2
       DEF RunHandler, GetBlobCount, EnumerateBlob, OpenBlob, CloseBlob, DeleteBlobNamed,
           CommitBlob, ReadBlob, WriteBlob, WriteMetaBlob
  <2>4. \E o : AnswerStat(o, maxSize)
    BY <2>3 DEF StatBlob, SessionStatBlob
  <2>. QED
    BY <1>3, <2>4, AnswerStatIsExact
<1>4. CASE \E req \in Request : Serve(req)
  BY <1>3, <1>4 DEF Serve, MetadataLenIsExact
<1>. QED
  BY <1>1, <1>2, <1>4 DEF ServiceNext

\* ipmi.cpp, returnStatBlob: the cut to 8 bits loses nothing as long as no
\* channel carries more than 264 bytes.
THEOREM MetadataLenFits == ServiceSpec => [](SmallChannels => MetadataLenIsExact)
<1>1. ServiceInit => (SmallChannels => MetadataLenIsExact)
  BY DEF ServiceInit, NoRequest, MetadataLenIsExact
<1>. QED
  BY <1>1, ExactStep, PTL DEF ServiceSpec
-----------------------------------------------------------------------------
(***************************************************************************)
(* Concatenation of any number of sequences.  The induction is over the    *)
(* set of numbers for which the fact holds: its complement would have a    *)
(* smallest member.                                                        *)
(***************************************************************************)
LEMMA NatSetInduction ==
    ASSUME NEW S, 0 \in S, \A n \in Nat : n \in S => n + 1 \in S
    PROVE  Nat \subseteq S
<1> SUFFICES ASSUME Nat \ S # {} PROVE FALSE
  OBVIOUS
<1>1. PICK x \in Nat \ S : \A y \in Nat \ S : x <= y
  BY SmallestExists
<1>2. x - 1 \in Nat /\ x - 1 \in S
  BY <1>1
<1>. QED  BY <1>1, <1>2

\* g holds the concatenations of the first 1, 2, ..., n members of s.
Joins(g, s, n) ==
    \A i \in 1 .. n : g[i] = IF i = 1 THEN s[i] ELSE g[i - 1] \o s[i]

\* The concatenation so far gets one member longer.
LEMMA JoinExtends ==
    ASSUME NEW T, NEW n \in Nat, NEW m \in Nat, m < n, NEW s \in [1 .. n -> Seq(T)],
           NEW g \in [1 .. m -> Seq(T)], Joins(g, s, m)
    PROVE  \E f \in [1 .. m + 1 -> Seq(T)] : Joins(f, s, m + 1)
<1> DEFINE last == IF m = 0 THEN s[1] ELSE g[m] \o s[m + 1]
           f    == [i \in 1 .. m + 1 |-> IF i = m + 1 THEN last ELSE g[i]]
<1>1. last \in Seq(T)
  <2>1. s[m + 1] \in Seq(T)
    OBVIOUS
  <2>2. CASE m = 0
    BY <2>1, <2>2
  <2>3. CASE m # 0
    <3>1. g[m] \in Seq(T)
      BY <2>3
    <3>. QED  BY <2>1, <2>3, <3>1
  <2>. QED  BY <2>2, <2>3
<1>2. f[m + 1] = last /\ \A i \in 1 .. m : f[i] = g[i]
  <2> HIDE DEF last
  <2>. QED  OBVIOUS
<1>3. f \in [1 .. m + 1 -> Seq(T)]
  <2> HIDE DEF last
  <2>. QED  BY <1>1
<1>4. ASSUME NEW i \in 1 .. m + 1
      PROVE  f[i] = IF i = 1 THEN s[i] ELSE f[i - 1] \o s[i]
  <2> HIDE DEF f
  <2>1. CASE i = m + 1
    BY <1>2, <2>1
  <2>2. CASE i \in 1 .. m
    <3> HIDE DEF last
    <3>1. i # 1 => i - 1 \in 1 .. m
      BY <2>2
    <3>2. f[i] = g[i] /\ (i # 1 => f[i - 1] = g[i - 1])
      BY <1>2, <2>2, <3>1
    <3>3. g[i] = IF i = 1 THEN s[i] ELSE g[i - 1] \o s[i]
      BY <2>2 DEF Joins
    <3>. QED  BY <3>2, <3>3
  <2>. QED  BY <2>1, <2>2
<1> HIDE DEF f
<1>. QED  BY <1>3, <1>4 DEF Joins

\* So the recursive function in FlattenSeq exists.
LEMMA JoinExists ==
    ASSUME NEW T, NEW n \in Nat, NEW s \in [1 .. n -> Seq(T)]
    PROVE  \E g \in [1 .. n -> Seq(T)] : Joins(g, s, n)
<1> DEFINE Good == {m \in Nat : m <= n => \E g \in [1 .. m -> Seq(T)] : Joins(g, s, m)}
<1>1. 0 \in Good
  <2>1. [i \in 1 .. 0 |-> <<>>] \in [1 .. 0 -> Seq(T)]
    OBVIOUS
  <2>2. Joins([i \in 1 .. 0 |-> <<>>], s, 0)
    BY DEF Joins
  <2>. QED  BY <2>1, <2>2
<1>2. \A m \in Nat : m \in Good => m + 1 \in Good
  <2> SUFFICES ASSUME NEW m \in Nat, m \in Good, m + 1 <= n
               PROVE  \E g \in [1 .. m + 1 -> Seq(T)] : Joins(g, s, m + 1)
    OBVIOUS
  <2>1. m < n /\ m <= n
    OBVIOUS
  <2>2. PICK g \in [1 .. m -> Seq(T)] : Joins(g, s, m)
    BY <2>1
  <2> HIDE DEF Good
  <2>. QED  BY <2>1, <2>2, JoinExtends
<1>3. Nat \subseteq Good
  <2> HIDE DEF Good
  <2>. QED  BY <1>1, <1>2, NatSetInduction
<1>. QED  BY <1>3

\* buildBlobList: the lists of all plugins together are a list of blob ids.
LEMMA FlattenType ==
    ASSUME NEW T, NEW n \in Nat, NEW s \in [1 .. n -> Seq(T)]
    PROVE  FlattenSeq(s) \in Seq(T)
<1>0. Len(s) = n
  OBVIOUS
<1>1. CASE n = 0
  <2>1. FlattenSeq(s) = s
    BY <1>0, <1>1 DEF FlattenSeq
  <2>. QED BY <1>1, <2>1
<1>2. CASE n # 0
  <2> DEFINE Def(g) == [i \in 1 .. Len(s) |-> IF i = 1 THEN s[i] ELSE g[i - 1] \o s[i]]
             F == CHOOSE g : g = Def(g)
  <2>1. FlattenSeq(s) = F[n]
    BY <1>0, <1>2 DEF FlattenSeq
  <2>2. \E g : g = Def(g)
    <3>1. PICK g \in [1 .. n -> Seq(T)] : Joins(g, s, n)
      BY JoinExists
    <3>2. g = Def(g)
      BY <1>0, <3>1 DEF Joins
    <3> HIDE DEF Def
    <3>. QED  BY <3>2
  <2>3. F = Def(F)
    <3> HIDE DEF Def
    <3>. QED  BY <2>2
  <2> HIDE DEF F
  <2>4. \A i \in 1 .. n : F[i] = IF i = 1 THEN s[i] ELSE F[i - 1] \o s[i]
    BY <1>0, <2>3
  <2> HIDE DEF Def
  <2> DEFINE Good == {m \in Nat : m < n => F[m + 1] \in Seq(T)}
  <2>5. 0 \in Good
    BY <1>2, <2>4
  <2>6. ASSUME NEW m \in Nat, m \in Good
        PROVE  m + 1 \in Good
    <3> SUFFICES ASSUME m + 1 < n PROVE F[(m + 1) + 1] \in Seq(T)
      OBVIOUS
    <3>1. F[m + 1] \in Seq(T) /\ s[(m + 1) + 1] \in Seq(T)
      BY <2>6
    <3>2. (m + 1) + 1 \in 1 .. n /\ (m + 1) + 1 # 1 /\ ((m + 1) + 1) - 1 = m + 1
      OBVIOUS
    <3>3. F[(m + 1) + 1] = F[m + 1] \o s[(m + 1) + 1]
      BY <2>4, <3>2
    <3>. QED  BY <3>1, <3>3
  <2>7. Nat \subseteq Good
    <3> HIDE DEF Good
    <3>. QED  BY <2>5, <2>6, NatSetInduction
  <2>8. n - 1 \in Nat /\ n - 1 < n /\ (n - 1) + 1 = n
    BY <1>2
  <2>9. F[(n - 1) + 1] \in Seq(T)
    BY <2>7, <2>8
  <2>. QED  BY <2>1, <2>8, <2>9
<1>. QED  BY <1>1, <1>2

-----------------------------------------------------------------------------
(***************************************************************************)
(* What the reply to a request is, and what becomes of the list of ids.    *)
(***************************************************************************)
LEMMA HandledOrTurnedAway ==
    ASSUME NEW req, NEW maxSize, HandleBlobCommand(req, maxSize)
    PROVE  \/ RunHandler(req, maxSize)
           \/ \E cc \in Code \ {"success"} : TurnAway(cc)
BY DEF HandleBlobCommand, ValidateBlobCommand, Code

\* processBlobCommand adds two codes of its own.
LEMMA ProcessedCode ==
    ASSUME NEW result, NEW maxSize, result.cc \in Code
    PROVE  ProcessBlobCommand(result, maxSize).cc \in Code
BY DEF ProcessBlobCommand, Failed, Code

LEMMA ReplyCode ==
    ASSUME NEW req \in Request, Serve(req)
    PROVE  reply'.cc \in Code
<1>1. PICK maxSize \in MaxSizes : HandleBlobCommand(req, maxSize)
  BY DEF Serve
<1>2. ASSUME NEW cc \in Code, reply' = Failed(cc)
      PROVE  reply'.cc \in Code
  BY <1>2 DEF Failed
<1>3. ASSUME NEW result, result.cc = "success",
             reply' = ProcessBlobCommand(result, maxSize)
      PROVE  reply'.cc \in Code
  BY <1>3, ProcessedCode DEF Code
<1>4. ASSUME NEW o, NEW result, result.cc = "success", Answer(o, result, maxSize)
      PROVE  reply'.cc \in Code
  BY <1>2, <1>3, <1>4 DEF Answer, Code
<1>5. ASSUME NEW o, AnswerStat(o, maxSize)
      PROVE  reply'.cc \in Code
  <2>1. \A m : StatResult(m).cc = "success"
    BY DEF StatResult
  <2>. QED
    BY <1>4, <1>5, <2>1 DEF AnswerStat
<1>6. CASE \E cc \in Code : TurnAway(cc)
  BY <1>2, <1>6 DEF TurnAway
<1>7. CASE RunHandler(req, maxSize)
  <2>1. Done.cc = "success"
    BY DEF Done
  <2>2. CASE GetBlobCount(req, maxSize)
    <3> DEFINE result == [cc |-> "success", len |-> RxSize.getCount, count |-> Len(ids')]
    <3>1. result.cc = "success" /\ reply' = ProcessBlobCommand(result, maxSize)
      BY <2>2 DEF GetBlobCount
    <3>. QED  BY <3>1, <1>3
  <2>3. CASE EnumerateBlob(req, maxSize)
    <3> DEFINE id     == ids[req.index + 1]
               result == [cc  |-> "success",
                          len |-> RxSize.enumerate + IdLength[id] + 1,
                          id  |-> id]
    <3>1. /\ result.cc = "success"
          /\ \/ reply' = ProcessBlobCommand(result, maxSize)
             \/ reply' = Failed("invalidFieldRequest")
      BY <2>3 DEF EnumerateBlob
    <3>. QED  BY <3>1, <1>2, <1>3 DEF Code
  <2>4. CASE OpenBlob(req, maxSize)
    <3> DEFINE result == [cc |-> "success", len |-> RxSize.open,
                          session |-> Candidate(FirstFree)]
    <3>1. result.cc = "success" /\ Answer("open", result, maxSize)
      BY <2>4 DEF OpenBlob
    <3>. QED  BY <3>1, <1>4
  <2>5. CASE ReadBlob(req, maxSize)
    <3>1. PICK n : reply' = ProcessBlobCommand(ReadResult(n), maxSize)
      BY <2>5 DEF ReadBlob
    <3>2. ReadResult(n).cc = "success"
      BY DEF ReadResult
    <3>. QED  BY <3>1, <3>2, <1>3
  <2>6. CASE StatBlob(req, maxSize) \/ SessionStatBlob(req, maxSize)
    BY <2>6, <1>5 DEF StatBlob, SessionStatBlob
  <2>7. CASE \/ CloseBlob(req, maxSize) \/ DeleteBlobNamed(req, maxSize)
             \/ CommitBlob(req, maxSize) \/ WriteBlob(req, maxSize)
             \/ WriteMetaBlob(req, maxSize)
    BY <2>1, <2>7, <1>4
       DEF CloseBlob, DeleteBlobNamed, CommitBlob, WriteBlob, WriteMetaBlob
  <2>. QED
    BY <1>7, <2>2, <2>3, <2>4, <2>5, <2>6, <2>7 DEF RunHandler
<1>. QED
  BY <1>1, <1>6, <1>7, HandledOrTurnedAway

\* Only a count replaces the list.
LEMMA ListKept ==
    ASSUME NEW req, NEW maxSize, RunHandler(req, maxSize), req.cmd # "getCount"
    PROVE  ids' = ids /\ listed' = listed
BY DEF RunHandler, GetBlobCount, EnumerateBlob, OpenBlob, CloseBlob, DeleteBlobNamed,
       StatBlob, SessionStatBlob, CommitBlob, ReadBlob, WriteBlob, WriteMetaBlob,
       AnswerStat, Answer

\* A count is always answered, with the length of the list that it leaves.
LEMMA CountReply ==
    ASSUME NEW req, NEW maxSize \in MaxSizes, RunHandler(req, maxSize),
           req.cmd = "getCount", handlers \in Seq(Handler)
    PROVE  /\ ids' \in Seq(Path)
           /\ listed' \in Seq(BlobLists)
           /\ ids' = FlattenSeq(listed')
           /\ reply'.cc = "success"
           /\ reply'.count = Len(ids')
<1>1. GetBlobCount(req, maxSize)
  BY DEF RunHandler, EnumerateBlob, OpenBlob, CloseBlob, DeleteBlobNamed, StatBlob,
         SessionStatBlob, CommitBlob, ReadBlob, WriteBlob, WriteMetaBlob
<1>2. ids' \in Seq(Path) /\ listed' \in Seq(BlobLists) /\ ids' = FlattenSeq(listed')
  <2>1. PICK lists \in [DOMAIN handlers -> BlobLists] :
            ids' = FlattenSeq(lists) /\ listed' = lists
    BY <1>1 DEF GetBlobCount, BuildBlobList
  <2>2. Len(handlers) \in Nat /\ DOMAIN handlers = 1 .. Len(handlers)
    OBVIOUS
  <2>3. lists \in [1 .. Len(handlers) -> Seq(Path)] /\ lists \in Seq(BlobLists)
    BY <2>2, SizesAssumption
  <2>. QED  BY <2>1, <2>2, <2>3, FlattenType
<1>3. RxSize.getCount = 6 /\ maxSize \in Nat /\ maxSize >= 6
  BY MaxSizesAssumption DEF RxSize
<1>4. reply' = [cc |-> "success", len |-> 6, count |-> Len(ids')]
  BY <1>1, <1>3 DEF GetBlobCount, ProcessBlobCommand, CrcSize
<1>. QED  BY <1>2, <1>4

\* The list is what the plugins answered, and what clients know as the count is
\* its length.
CountIsLength ==
    /\ ids \in Seq(Path)
    /\ listed \in Seq(BlobLists)
    /\ ids = FlattenSeq(listed)
    /\ counted = Len(ids)

LEMMA CountStep ==
    ASSUME CountIsLength, handlers \in Seq(Handler), [ServiceNext]_serviceVars
    PROVE  CountIsLength'
<1>1. CASE UNCHANGED <<ids, listed, counted>>
  BY <1>1 DEF CountIsLength
<1>2. ASSUME NEW req \in Request, Serve(req)
      PROVE  CountIsLength'
  <2>1. PICK maxSize \in MaxSizes : HandleBlobCommand(req, maxSize)
    BY <1>2 DEF Serve
  <2>2. /\ request' = req
        /\ counted' = IF Replied("getCount") THEN reply'.count ELSE counted
    BY <1>2 DEF Serve, Remember
  <2>3. CASE \E cc \in Code \ {"success"} : TurnAway(cc)
    BY <1>1, <2>2, <2>3 DEF TurnAway, Failed, Replied
  <2>4. CASE RunHandler(req, maxSize) /\ req.cmd = "getCount"
    BY <2>2, <2>4, CountReply DEF Replied, CountIsLength
  <2>5. CASE RunHandler(req, maxSize) /\ req.cmd # "getCount"
    BY <1>1, <2>2, <2>5, ListKept DEF Replied
  <2>. QED
    BY <2>1, <2>3, <2>4, <2>5, HandledOrTurnedAway
<1>. QED
  BY <1>1, <1>2 DEF ServiceNext, Background, serviceVars

-----------------------------------------------------------------------------
\* An open that is answered with success was carried out, and is answered with
\* the id that getSession found; and the other way round.
LEMMA OpenReply ==
    ASSUME NEW req \in Request, Serve(req), req.cmd = "open",
           reply'.cc = "success" \/ Granted("open")
    PROVE  /\ Granted("open")
           /\ reply'.cc = "success"
           /\ reply'.session = Candidate(FirstFree)
           /\ ~GetSessionFails
           /\ next' = NextAfter(FirstFree + 1)
<1>1. PICK maxSize \in MaxSizes : HandleBlobCommand(req, maxSize)
  BY DEF Serve
<1>2. RunHandler(req, maxSize)
  <2>1. ASSUME NEW cc \in Code \ {"success"}, TurnAway(cc)
        PROVE  FALSE
    BY <2>1 DEF TurnAway, Failed, Refuse, Granted
  <2>. QED  BY <1>1, <2>1, HandledOrTurnedAway
<1>3. OpenBlob(req, maxSize)
  BY <1>2
     DEF RunHandler, GetBlobCount, EnumerateBlob, CloseBlob, DeleteBlobNamed, StatBlob,
         SessionStatBlob, CommitBlob, ReadBlob, WriteBlob, WriteMetaBlob
<1>4. Granted("open")
  BY <1>3 DEF OpenBlob, Answer, Failed
<1>5. reply'.cc = "success" /\ reply'.session = Candidate(FirstFree)
  <2>1. RxSize.open = 4 /\ maxSize \in Nat /\ maxSize >= 6
    BY MaxSizesAssumption DEF RxSize
  <2>2. reply' = [cc |-> "success", len |-> 4, session |-> Candidate(FirstFree)]
    BY <1>3, <1>4, <2>1 DEF OpenBlob, Answer, ProcessBlobCommand, CrcSize
  <2>. QED  BY <2>2
<1>6. \E h : OpenWithSession(h, req.flags, req.path)
  <2>1. calls' # {}
    BY <1>4 DEF Granted
  <2>. QED
    BY <1>3, <2>1 DEF OpenBlob, Open, OpenOn, Refuse, OpenWithoutSession, OpenWithoutMode
<1>. QED
  BY <1>4, <1>5, <1>6 DEF OpenWithSession

LEMMA ServiceTypesStep ==
    ASSUME Consistent, ServiceTypeOK, CountIsLength, [ServiceNext]_serviceVars
    PROVE  ServiceTypeOK'
<1>1. TypeOK'
  BY ServiceStepIsManagerStep, NextConsistent DEF Consistent
<1>2. handlers \in Seq(Handler)
  BY DEF Consistent, TypeOK
<1>3. CountIsLength'
  BY <1>2, CountStep
<1>4. ids' \in Seq(Path) /\ listed' \in Seq(BlobLists) /\ counted' \in Nat
  BY <1>3 DEF CountIsLength
<1>5. CASE Background
  BY <1>1, <1>4, <1>5 DEF Background, ServiceTypeOK, NoReply
<1>6. ASSUME NEW req \in Request, Serve(req)
      PROVE  ServiceTypeOK'
  <2>1. request' = req /\ reply'.cc \in Code
    BY <1>6, ReplyCode DEF Serve
  <2>2. known' \subseteq SessionId
    <3>1. CASE Replied("open")
      <4>1. reply'.session = Candidate(FirstFree) /\ ~GetSessionFails
        BY <1>6, <2>1, <3>1, OpenReply DEF Replied
      <4>2. reply'.session \in SessionId
        BY <4>1, GetSessionFindsFree DEF Consistent
      <4>. QED
        BY <1>6, <3>1, <4>2 DEF Serve, Remember, ServiceTypeOK
    <3>2. CASE ~Replied("open")
      BY <1>6, <3>2 DEF Serve, Remember, ServiceTypeOK
    <3>. QED  BY <3>1, <3>2
  <2>. QED
    BY <1>1, <1>4, <2>1, <2>2 DEF ServiceTypeOK
<1>7. CASE UNCHANGED serviceVars
  BY <1>1, <1>7 DEF serviceVars, ServiceTypeOK
<1>. QED
  BY <1>5, <1>6, <1>7 DEF ServiceNext

ServiceInv == Consistent /\ ServiceTypeOK /\ CountIsLength

LEMMA ServiceInitInv == ServiceInit => ServiceInv
<1> SUFFICES ASSUME ServiceInit PROVE ServiceInv
  OBVIOUS
<1>1. Consistent
  BY LoadedAssumption, EmptyTableConsistent DEF ServiceInit
<1>2. FlattenSeq(<<>>) = <<>>
  BY DEF FlattenSeq
<1>3. CountIsLength
  <2>1. <<>> \in Seq(Path) /\ <<>> \in Seq(BlobLists) /\ Len(<<>>) = 0
    OBVIOUS
  <2>. QED  BY <1>2, <2>1 DEF ServiceInit, CountIsLength
<1>. QED
  BY <1>1, <1>3 DEF ServiceInit, ServiceInv, Consistent, ServiceTypeOK, CountIsLength,
                    NoReply

LEMMA ServiceStepInv == ServiceInv /\ [ServiceNext]_serviceVars => ServiceInv'
<1> SUFFICES ASSUME ServiceInv, [ServiceNext]_serviceVars
             PROVE  ServiceInv'
  OBVIOUS
<1>1. Consistent'
  BY ServiceStepIsManagerStep, NextConsistent DEF ServiceInv
<1>2. ServiceTypeOK' /\ CountIsLength'
  BY ServiceTypesStep, CountStep DEF ServiceInv, ServiceTypeOK, TypeOK
<1>. QED
  BY <1>1, <1>2 DEF ServiceInv

\* manager.cpp, buildBlobList, and the replies of ipmi.cpp: the list stays a
\* list of blob ids, whatever number of plugins it is put together from, and
\* what clients are told are session ids and counts.
THEOREM ServiceTypes == ServiceSpec => []ServiceTypeOK
<1>1. ServiceInv => ServiceTypeOK
  BY DEF ServiceInv
<1>. QED
  BY <1>1, ServiceInitInv, ServiceStepInv, PTL DEF ServiceSpec

\* ipmi.cpp, getBlobCount and enumerateBlob: the count is the number of ids that
\* the plugins listed, each index below it gives the id at that place of their
\* lists, and it is refused only when that id is empty, whatever happened since.
THEOREM CountsAreHonoured == ServiceSpec => CountedBlobsAreListed
<1> DEFINE all == FlattenSeq(listed)
           Told == Replied("getCount") => reply'.count = Len(FlattenSeq(listed'))
           Named == Replied("enumerate") =>
                       /\ request'.index < Len(all)
                       /\ reply'.id = all[request'.index + 1]
           Refused == request'.cmd = "enumerate" /\ reply'.cc = "invalidFieldRequest" =>
                         \/ request'.index >= counted
                         \/ IdLength[all[request'.index + 1]] = 0
<1>1. ASSUME ServiceInv, NEW req \in Request, Serve(req)
      PROVE  Told /\ Named /\ Refused
  <2>1. request' = req
    BY <1>1 DEF Serve
  <2>2. PICK maxSize \in MaxSizes : HandleBlobCommand(req, maxSize)
    BY <1>1 DEF Serve
  <2>3. /\ all = ids
        /\ ids \in Seq(Path)
        /\ counted = Len(ids)
        /\ handlers \in Seq(Handler)
    BY <1>1 DEF ServiceInv, CountIsLength, Consistent, TypeOK
  <2>4. CASE req.cmd = "getCount"
    <3>1. CASE RunHandler(req, maxSize)
      BY <2>1, <2>3, <2>4, <3>1, CountReply DEF Replied
    <3>2. CASE ~RunHandler(req, maxSize)
      BY <2>1, <2>2, <2>4, <3>2 DEF HandleBlobCommand, TurnAway, Failed, Replied
    <3>. QED  BY <3>1, <3>2
  <2>5. CASE req.cmd = "enumerate"
    <3>1. req.index \in Nat
      BY <2>5, RequestAssumption
    <3>2. \/ EnumerateBlob(req, maxSize)
          \/ \E cc \in {"reqDataLenInvalid", "unspecifiedError"} : TurnAway(cc)
      <4>1. RunHandler(req, maxSize) => EnumerateBlob(req, maxSize)
        BY <2>5
           DEF RunHandler, GetBlobCount, OpenBlob, CloseBlob, DeleteBlobNamed, StatBlob,
               SessionStatBlob, CommitBlob, ReadBlob, WriteBlob, WriteMetaBlob
      <4>2. ValidateBlobCommand(req) \in {"reqDataLenInvalid", "unspecifiedError", "success"}
        BY <2>5 DEF ValidateBlobCommand, Command
      <4>. QED
        BY <2>2, <4>1, <4>2 DEF HandleBlobCommand
    <3>3. CASE \E cc \in {"reqDataLenInvalid", "unspecifiedError"} : TurnAway(cc)
      BY <2>1, <2>5, <3>3 DEF TurnAway, Failed, Replied
    <3>4. CASE EnumerateBlob(req, maxSize) /\ GetBlobIdFinds(req.index)
      <4> DEFINE result == [cc  |-> "success",
                            len |-> RxSize.enumerate + IdLength[ids[req.index + 1]] + 1,
                            id  |-> ids[req.index + 1]]
      <4>1. reply' = ProcessBlobCommand(result, maxSize)
        BY <3>4 DEF EnumerateBlob
      <4>2. /\ reply'.cc # "invalidFieldRequest"
            /\ reply'.cc = "success" => reply' = result
        BY <4>1 DEF ProcessBlobCommand, Failed
      <4>3. req.index < Len(ids)
        BY <3>4 DEF GetBlobIdFinds
      <4>. QED
        BY <2>1, <2>3, <2>5, <4>2, <4>3 DEF Replied
    <3>5. CASE EnumerateBlob(req, maxSize) /\ ~GetBlobIdFinds(req.index)
      <4>1. reply' = Failed("invalidFieldRequest")
        BY <3>5 DEF EnumerateBlob
      <4>2. CASE req.index < Len(ids)
        <5>1. ids[req.index + 1] \in Path
          BY <2>3, <3>1, <4>2
        <5>2. IdLength[ids[req.index + 1]] \in Nat
          BY <5>1, SizesAssumption
        <5>3. ~(IdLength[ids[req.index + 1]] > 0)
          BY <3>5, <4>2 DEF GetBlobIdFinds
        <5>. QED
          BY <2>1, <2>3, <2>5, <4>1, <5>2, <5>3 DEF Replied, Failed
      <4>3. CASE ~(req.index < Len(ids))
        <5>1. req.index >= counted
          BY <2>3, <3>1, <4>3
        <5>. QED
          BY <2>1, <2>5, <4>1, <5>1 DEF Replied, Failed
      <4>. QED  BY <4>2, <4>3
    <3>. QED
      BY <3>2, <3>3, <3>4, <3>5
  <2>6. CASE req.cmd \notin {"getCount", "enumerate"}
    BY <2>1, <2>6 DEF Replied
  <2>. QED
    BY <2>4, <2>5, <2>6
<1>2. ServiceInv /\ [ServiceNext]_serviceVars => [Told /\ Named /\ Refused]_serviceVars
  <2> SUFFICES ASSUME ServiceInv, ServiceNext
               PROVE  Told /\ Named /\ Refused
    OBVIOUS
  <2>1. CASE Background
    BY <2>1 DEF Background, NoRequest, Replied
  <2>. QED
    BY <1>1, <2>1 DEF ServiceNext
<1>. QED
  BY <1>2, ServiceInitInv, ServiceStepInv, PTL DEF ServiceSpec, CountedBlobsAreListed

-----------------------------------------------------------------------------
(***************************************************************************)
(* How sessions begin.                                                     *)
(***************************************************************************)
\* An open that the plugin agreed to adds the session whose id it returns, with
\* the blob and the flags that were asked for, and nothing else.
LEMMA OpenBegins ==
    ASSUME TypeOK, NEW flags \in FlagSets, NEW p \in Path, Open(flags, p),
           Granted("open")
    PROVE  LET session == Candidate(FirstFree)
           IN  /\ DOMAIN sessions' \ DOMAIN sessions = {session}
               /\ sessions'[session].blobId = p
               /\ sessions'[session].flags = flags
<1>1. PICK h \in Handler : OpenWithSession(h, flags, p)
  <2>1. calls' # {}
    BY DEF Granted
  <2>. QED
    BY <2>1 DEF Open, OpenOn, Refuse, OpenWithoutSession, OpenWithoutMode
<1>2. PICK E \in SUBSET Stale(h), opened \in BOOLEAN :
          CleanUpAndOpen(h, flags, p, Candidate(FirstFree), E, opened)
  BY <1>1 DEF OpenWithSession
<1>3. opened
  <2>1. PICK c \in calls' : c.op = "open" /\ c.ok
    BY DEF Granted
  <2>2. c \notin ExpireCalls(h, E)
    BY <2>1 DEF ExpireCalls, SessionCall
  <2>3. c = OpenCall(h, Candidate(FirstFree), p, opened)
    BY <1>2, <2>1, <2>2 DEF CleanUpAndOpen
  <2>. QED
    BY <2>1, <2>3 DEF OpenCall
<1> DEFINE session == Candidate(FirstFree)
           new == [blobId |-> p, handler |-> h, flags |-> flags, idle |-> 0]
<1>4. sessions' = Put(SessionsWithout(E), session, new)
  BY <1>2, <1>3 DEF CleanUpAndOpen
<1>5. DOMAIN SessionsWithout(E) = DOMAIN sessions \ E
  BY SessionsLeft
<1>6. session \notin DOMAIN sessions
  BY <1>1, GetSessionFindsFree DEF OpenWithSession
<1> HIDE DEF session
<1>7. DOMAIN sessions' \ DOMAIN sessions = {session} /\ sessions'[session] = new
  <2> HIDE DEF new
  <2>. QED  BY <1>4, <1>5, <1>6 DEF Put
<1>. QED
  BY <1>7 DEF session

\* Only an open that was granted begins a session.
LEMMA ServeAdds ==
    ASSUME NEW req \in Request, Serve(req)
    PROVE  \A s \in DOMAIN sessions' \ DOMAIN sessions :
               req.cmd = "open" /\ Granted("open") /\ s = reply'.session
<1>1. PICK maxSize \in MaxSizes : HandleBlobCommand(req, maxSize)
  BY DEF Serve
<1>2. CASE \E cc : TurnAway(cc)
  BY <1>2 DEF TurnAway, Refuse, table
<1>3. CASE OpenBlob(req, maxSize)
  <2>1. req.cmd = "open" /\ req.flags \in FlagSets /\ req.path \in Path
    BY <1>3, RequestAssumption DEF OpenBlob, NamesBlob
  <2>2. DOMAIN sessions' \subseteq DOMAIN sessions \cup
            (IF Granted("open") THEN {Candidate(FirstFree)} ELSE {})
    BY <1>3, <2>1, OpenDomain DEF OpenBlob
  <2>. QED
    BY <2>1, <2>2, OpenReply
<1>4. CASE CloseBlob(req, maxSize)
  BY <1>4, CloseDomain DEF CloseBlob
<1>5. CASE \/ SessionStatBlob(req, maxSize) \/ CommitBlob(req, maxSize)
           \/ ReadBlob(req, maxSize) \/ WriteBlob(req, maxSize)
           \/ WriteMetaBlob(req, maxSize)
  BY <1>5, ForwardDomain
     DEF SessionStatBlob, CommitBlob, ReadBlob, WriteBlob, WriteMetaBlob,
         SessionStat, Commit, Read, Write, WriteMeta
<1>6. CASE \/ GetBlobCount(req, maxSize) \/ EnumerateBlob(req, maxSize)
           \/ DeleteBlobNamed(req, maxSize) \/ StatBlob(req, maxSize)
  BY <1>6
     DEF GetBlobCount, EnumerateBlob, DeleteBlobNamed, StatBlob, DeleteBlob,
         DeleteBlobOn, Stat, StatOn, Refuse, table
<1>. QED
  BY <1>1, <1>2, <1>3, <1>4, <1>5, <1>6, HandledOrTurnedAway DEF RunHandler

\* ipmi.cpp, openBlob, and manager.cpp, open: a session begins exactly when a
\* client is told of it, with an id that was free and with the blob and the flags
\* that it asked for; an open that fails in any other way leaves none behind.
THEOREM NoSessionUnasked == ServiceSpec => SessionsBeginKnowingly
<1> DEFINE begun == DOMAIN sessions' \ DOMAIN sessions
           Knowingly == IF Replied("open")
                        THEN /\ begun = {reply'.session}
                             /\ sessions'[reply'.session].blobId = request'.path
                             /\ sessions'[reply'.session].flags = request'.flags
                        ELSE begun = {}
<1>1. ASSUME ServiceInv, NEW req \in Request, Serve(req)
      PROVE  Knowingly
  <2>1. request' = req
    BY <1>1 DEF Serve
  <2>2. TypeOK
    BY <1>1 DEF ServiceInv, Consistent
  <2>3. PICK maxSize \in MaxSizes : HandleBlobCommand(req, maxSize)
    BY <1>1 DEF Serve
  <2>4. CASE Replied("open")
    <3>1. req.cmd = "open" /\ reply'.cc = "success"
      BY <2>1, <2>4 DEF Replied
    <3>2. Granted("open") /\ reply'.session = Candidate(FirstFree)
      BY <1>1, <3>1, OpenReply
    <3>3. Open(req.flags, req.path)
      <4>1. RunHandler(req, maxSize)
        BY <2>3, <3>1 DEF HandleBlobCommand, TurnAway, Failed
      <4>. QED
        BY <3>1, <4>1
           DEF RunHandler, GetBlobCount, EnumerateBlob, OpenBlob, CloseBlob,
               DeleteBlobNamed, StatBlob, SessionStatBlob, CommitBlob, ReadBlob,
               WriteBlob, WriteMetaBlob
    <3>4. req.flags \in FlagSets /\ req.path \in Path
      BY <3>1, RequestAssumption DEF NamesBlob
    <3>. QED
      BY <2>1, <2>2, <2>4, <3>2, <3>3, <3>4, OpenBegins
  <2>5. CASE ~Replied("open")
    <3>1. begun = {}
      BY <1>1, <2>1, <2>5, ServeAdds, OpenReply DEF Replied
    <3>. QED  BY <2>5, <3>1
  <2>. QED  BY <2>4, <2>5
<1>2. ServiceInv /\ [ServiceNext]_serviceVars => [Knowingly]_serviceVars
  <2> SUFFICES ASSUME ServiceInv, ServiceNext
               PROVE  Knowingly
    OBVIOUS
  <2>1. CASE Background
    BY <2>1, BackgroundDomain DEF Background, NoRequest, Replied
  <2>. QED
    BY <1>1, <2>1 DEF ServiceNext
<1>. QED
  BY <1>2, ServiceInitInv, ServiceStepInv, PTL DEF ServiceSpec, SessionsBeginKnowingly
=============================================================================
