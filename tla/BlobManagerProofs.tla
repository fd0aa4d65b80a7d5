-------------------------- MODULE BlobManagerProofs --------------------------
(***************************************************************************)
(* Proofs about BlobManager, for every number of session ids, every set of *)
(* plugins and blobs, every timeout and whatever the plugins answer.       *)
(***************************************************************************)
EXTENDS BlobManager, FiniteSetTheorems, TLAPS

(***************************************************************************)
(* The invariant that is inductive.  TypeOK alone is not: an erased        *)
(* session takes one off the count of its blob, and the result is a        *)
(* natural number only because the count was right before.  The count and  *)
(* the index in turn need each other: the sessions that an expiry erases   *)
(* come from the index, and must be sessions of the table to be counted.   *)
(***************************************************************************)
Consistent ==
    /\ TypeOK
    /\ OpenFilesCountSessions
    /\ OpenSessionsIndexSessions
    /\ OpenSessionsAreUsable

-----------------------------------------------------------------------------
(***************************************************************************)
(* getSession.                                                             *)
(***************************************************************************)
\* Counting on from a session id, modulo their number, gives a session id:
\* this is `next++' and `next + tries' on a uint16_t.
LEMMA WrapIsSessionId ==
    ASSUME NEW n \in Nat
    PROVE  n % SessionCount \in SessionId
BY SessionCountAssumption DEF SessionId

\* A nonempty set of natural numbers has a smallest element.
LEMMA SmallestExists ==
    ASSUME NEW T \in SUBSET Nat, T # {}
    PROVE  \E x \in T : \A y \in T : x <= y
<1>1. PICK x \in T : \A y \in T : ~(<<y, x>> \in OpToRel(<, Nat))
  BY NatLessThanWellFounded, WFMin
<1>2. \A y \in T : ~(y < x)
  BY <1>1 DEF OpToRel
<1>. QED  BY <1>2

\* When getSession succeeds, the id it returns is a session id that is free.
LEMMA GetSessionFindsFree ==
    ASSUME TypeOK, ~GetSessionFails
    PROVE  /\ FirstFree \in FreeTries
           /\ Candidate(FirstFree) \in SessionId
           /\ Candidate(FirstFree) \notin DOMAIN sessions
           /\ NextAfter(FirstFree + 1) \in SessionId
<1>1. FreeTries \in SUBSET Nat /\ FreeTries # {}
  BY SessionCountAssumption DEF FreeTries, Tries, GetSessionFails
<1>2. FirstFree \in FreeTries
  BY <1>1, SmallestExists DEF FirstFree
<1>3. next + FirstFree \in Nat /\ next + (FirstFree + 1) \in Nat
  BY <1>1, <1>2 DEF TypeOK, SessionId
<1>. QED
  BY <1>2, <1>3, WrapIsSessionId DEF FreeTries, Candidate, NextAfter

-----------------------------------------------------------------------------
(***************************************************************************)
(* The open counts.                                                        *)
(***************************************************************************)
CountIn(F, p) == IF p \in DOMAIN F THEN F[p] ELSE 0

On(S, p) == {s \in DOMAIN S : S[s].blobId = p}

\* F is a map of counts for the sessions S, the way openFiles is for sessions.
Counts(F, S) ==
    /\ DOMAIN F \subseteq Path
    /\ F \in [DOMAIN F -> Nat]
    /\ \A p \in Path : CountIn(F, p) = Cardinality(On(S, p))

\* Every set of open sessions is finite, whatever the number of ids.
LEMMA SessionSetsAreFinite ==
    ASSUME NEW D \in SUBSET SessionId
    PROVE  IsFiniteSet(D)
<1>1. IsFiniteSet(0 .. (SessionCount - 1))
  <2>1. 0 \in Int /\ SessionCount - 1 \in Int
    BY SessionCountAssumption
  <2>. QED  BY <2>1, FS_Interval
<1>. QED
  BY <1>1, FS_Subset DEF SessionId

\* Erasing a set of open sessions keeps the counts right.
LEMMA EraseKeepsCounts ==
    ASSUME TypeOK, OpenFilesCountSessions, NEW E \in SUBSET DOMAIN sessions
    PROVE  Counts(FilesWithout(E), SessionsWithout(E))
<1> DEFINE S == SessionsWithout(E)
           F == FilesWithout(E)
           Gone(p) == {s \in E : sessions[s].blobId = p}
           left(p) == OpenCount(p) - Cardinality(Gone(p))
<1>1. /\ DOMAIN S = DOMAIN sessions \ E
      /\ \A s \in DOMAIN S : S[s] = sessions[s]
  BY DEF SessionsWithout, Restrict
<1>2. BlobsOf(E) \subseteq Path
  BY DEF BlobsOf, TypeOK, SessionInfo
<1>3. /\ DOMAIN F = {p \in DOMAIN openFiles \cup BlobsOf(E) :
                        p \in BlobsOf(E) => left(p) # 0}
      /\ \A p \in DOMAIN F : F[p] = left(p)
  BY DEF FilesWithout
<1>4. \A p \in Path : Cardinality(On(S, p)) = left(p) /\ left(p) \in Nat
  <2> SUFFICES ASSUME NEW p \in Path
               PROVE  Cardinality(On(S, p)) = left(p) /\ left(p) \in Nat
    OBVIOUS
  <2>1. IsFiniteSet(SessionsOn(p))
    BY SessionSetsAreFinite DEF SessionsOn, TypeOK
  <2>2. On(S, p) = SessionsOn(p) \ E /\ SessionsOn(p) \cap E = Gone(p)
    BY <1>1 DEF On, SessionsOn
  <2>3. Cardinality(On(S, p)) = Cardinality(SessionsOn(p)) - Cardinality(Gone(p))
    BY <2>1, <2>2, FS_Difference
  <2>4. Cardinality(On(S, p)) \in Nat
    BY <2>1, <2>2, FS_Difference, FS_CardinalityType
  <2>. QED
    BY <2>3, <2>4 DEF OpenFilesCountSessions
<1>5. \A p \in Path : p \notin BlobsOf(E) => left(p) = OpenCount(p)
  <2> SUFFICES ASSUME NEW p \in Path, p \notin BlobsOf(E)
               PROVE  left(p) = OpenCount(p)
    OBVIOUS
  <2>1. Gone(p) = {}
    BY DEF BlobsOf
  <2>2. OpenCount(p) \in Nat
    BY DEF OpenCount, TypeOK
  <2>. QED
    BY <2>1, <2>2, FS_EmptySet
<1>6. DOMAIN F \subseteq Path
  BY <1>2, <1>3 DEF TypeOK
<1>7. F \in [DOMAIN F -> Nat]
  BY <1>3, <1>4, <1>6 DEF FilesWithout
<1>8. \A p \in Path : CountIn(F, p) = left(p)
  BY <1>3, <1>5 DEF CountIn, OpenCount
<1>. QED
  BY <1>4, <1>6, <1>7, <1>8 DEF Counts

\* Counting one more session of a blob up keeps the counts right.
LEMMA GrantKeepsCounts ==
    ASSUME NEW F, NEW S, Counts(F, S), DOMAIN S \subseteq SessionId,
           NEW s \in SessionId, s \notin DOMAIN S,
           NEW r, NEW q \in Path, r.blobId = q
    PROVE  Counts(CountUp(F, q), Put(S, s, r))
<1> DEFINE S2 == Put(S, s, r)
           F2 == CountUp(F, q)
<1>1. /\ DOMAIN S2 = DOMAIN S \cup {s}
      /\ S2[s] = r
      /\ \A t \in DOMAIN S : S2[t] = S[t]
  BY DEF Put
<1>2. /\ DOMAIN F2 = DOMAIN F \cup {q}
      /\ F2 = [p \in DOMAIN F \cup {q} |->
                 IF p = q THEN CountIn(F, q) + 1 ELSE F[p]]
  BY DEF CountUp, Put, CountIn
<1>3. \A p \in Path : CountIn(F, p) \in Nat
  BY DEF Counts, CountIn
<1>4. DOMAIN F2 \subseteq Path /\ F2 \in [DOMAIN F2 -> Nat]
  BY <1>2, <1>3 DEF Counts
<1>5. \A p \in Path : CountIn(F2, p) = Cardinality(On(S2, p))
  <2> SUFFICES ASSUME NEW p \in Path
               PROVE  CountIn(F2, p) = Cardinality(On(S2, p))
    OBVIOUS
  <2>1. IsFiniteSet(On(S, p))
    BY SessionSetsAreFinite DEF On
  <2>2. CASE p = q
    <3>1. On(S2, p) = On(S, p) \cup {s} /\ s \notin On(S, p)
      BY <1>1, <2>2 DEF On
    <3>2. Cardinality(On(S2, p)) = Cardinality(On(S, p)) + 1
      BY <2>1, <3>1, FS_AddElement
    <3>. QED
      BY <1>2, <2>2, <3>2 DEF CountIn, Counts
  <2>3. CASE p # q
    <3>1. On(S2, p) = On(S, p)
      BY <1>1, <2>3 DEF On
    <3>. QED
      BY <1>2, <2>3, <3>1 DEF CountIn, Counts
  <2>. QED  BY <2>2, <2>3
<1>. QED
  BY <1>4, <1>5 DEF Counts

-----------------------------------------------------------------------------
(***************************************************************************)
(* Every step keeps the tables consistent.                                 *)
(***************************************************************************)
\* The parts of Consistent that speak of sessions, openFiles and openSessions,
\* in the form in which the lemmas above deliver them.
LEMMA CountsIsInvariant ==
    Counts(openFiles, sessions) <=>
        /\ DOMAIN openFiles \subseteq Path
        /\ openFiles \in [DOMAIN openFiles -> Nat]
        /\ OpenFilesCountSessions
BY DEF Counts, CountIn, On, OpenFilesCountSessions, OpenCount, SessionsOn

\* The manager has no sessions yet, whatever plugins it has.
LEMMA EmptyTableConsistent ==
    ASSUME EmptyTable, handlers \in Seq(Handler)
    PROVE  Consistent
<1>1. TypeOK
  BY DEF EmptyTable, TypeOK
<1>2. OpenFilesCountSessions
  <2>1. \A p \in Path : SessionsOn(p) = {} /\ OpenCount(p) = 0
    BY DEF EmptyTable, SessionsOn, OpenCount
  <2>. QED
    BY <2>1, FS_EmptySet DEF OpenFilesCountSessions
<1>3. OpenSessionsIndexSessions
  BY DEF EmptyTable, OpenSessionsIndexSessions, SessionsOf
<1>4. OpenSessionsAreUsable
  BY DEF EmptyTable, OpenSessionsAreUsable
<1>. QED
  BY <1>1, <1>2, <1>3, <1>4 DEF Consistent

LEMMA InitConsistent == Init => Consistent
BY EmptyTableConsistent DEF Init

\* A step that opens and closes nothing, whatever it does to the timers, to
\* the registered plugins and to `next'.
LEMMA SameSessionsStep ==
    ASSUME Consistent,
           handlers' \in Seq(Handler), next' \in SessionId, calls' \subseteq Call,
           DOMAIN sessions' = DOMAIN sessions,
           sessions' \in [DOMAIN sessions -> SessionInfo],
           \A s \in DOMAIN sessions :
               /\ sessions'[s].blobId = sessions[s].blobId
               /\ sessions'[s].handler = sessions[s].handler
               /\ sessions'[s].flags = sessions[s].flags,
           UNCHANGED <<openFiles, openSessions>>
    PROVE  Consistent'
<1>1. TypeOK'
  BY DEF Consistent, TypeOK
<1>2. OpenFilesCountSessions'
  <2>1. \A p \in Path : SessionsOn(p)' = SessionsOn(p) /\ OpenCount(p)' = OpenCount(p)
    BY DEF SessionsOn, OpenCount
  <2>. QED
    BY <2>1 DEF Consistent, OpenFilesCountSessions
<1>3. OpenSessionsIndexSessions'
  BY DEF Consistent, OpenSessionsIndexSessions, SessionsOf
<1>4. OpenSessionsAreUsable'
  BY DEF Consistent, OpenSessionsAreUsable, HasActionHandler
<1>. QED
  BY <1>1, <1>2, <1>3, <1>4 DEF Consistent

\* A step that leaves the sessions alone altogether.
LEMMA UntouchedStep ==
    ASSUME Consistent,
           handlers' \in Seq(Handler), next' \in SessionId, calls' \subseteq Call,
           UNCHANGED <<sessions, openFiles, openSessions>>
    PROVE  Consistent'
<1>1. sessions' \in [DOMAIN sessions -> SessionInfo] /\ DOMAIN sessions' = DOMAIN sessions
  BY DEF Consistent, TypeOK
<1>. QED
  BY <1>1, SameSessionsStep

LEMMA RefuseStep ==
    ASSUME Consistent, Refuse
    PROVE  Consistent'
<1>1. handlers' \in Seq(Handler) /\ next' \in SessionId /\ calls' \subseteq Call
  BY DEF Refuse, table, Consistent, TypeOK
<1>. QED
  BY <1>1, UntouchedStep DEF Refuse, table

LEMMA RegisterStep ==
    ASSUME Consistent, NEW h \in Handler, RegisterHandler(h)
    PROVE  Consistent'
<1>1. handlers' \in Seq(Handler) /\ next' \in SessionId /\ calls' \subseteq Call
  BY DEF RegisterHandler, table, Consistent, TypeOK
<1>. QED
  BY <1>1, UntouchedStep DEF RegisterHandler, table

LEMMA TickStep ==
    ASSUME Consistent, Tick
    PROVE  Consistent'
<1>1. handlers' \in Seq(Handler) /\ next' \in SessionId /\ calls' \subseteq Call
  BY DEF Tick, Consistent, TypeOK
<1>2. DOMAIN sessions' = DOMAIN sessions
  BY DEF Tick
<1>3. \A s \in DOMAIN sessions :
        /\ sessions'[s] \in SessionInfo
        /\ sessions'[s].blobId = sessions[s].blobId
        /\ sessions'[s].handler = sessions[s].handler
        /\ sessions'[s].flags = sessions[s].flags
  <2> SUFFICES ASSUME NEW s \in DOMAIN sessions
               PROVE  /\ sessions'[s] \in SessionInfo
                      /\ sessions'[s].blobId = sessions[s].blobId
                      /\ sessions'[s].handler = sessions[s].handler
                      /\ sessions'[s].flags = sessions[s].flags
    OBVIOUS
  <2>1. sessions[s] \in SessionInfo
    BY DEF Consistent, TypeOK
  <2>2. sessions'[s] = [sessions[s] EXCEPT !.idle = Older(@)]
    BY DEF Tick
  <2>3. Older(sessions[s].idle) \in 0 .. sessionTimeout
    BY <2>1, TimeoutAssumption DEF SessionInfo, Older
  <2>. QED
    BY <2>1, <2>2, <2>3 DEF SessionInfo
<1>4. sessions' \in [DOMAIN sessions -> SessionInfo]
  BY <1>2, <1>3 DEF Tick
<1>. QED
  BY <1>1, <1>2, <1>3, <1>4, SameSessionsStep DEF Tick

\* The timer of session s restarts and a call about s is made.
LEMMA TouchStep ==
    ASSUME Consistent, NEW s \in DOMAIN sessions,
           NEW o \in SessionOp, NEW r \in BOOLEAN,
           sessions' = Touched(s),
           calls' = {SessionCall(o, sessions[s].handler, s, r)},
           UNCHANGED <<handlers, next, openFiles, openSessions>>
    PROVE  Consistent'
<1>1. sessions[s] \in SessionInfo /\ s \in SessionId
  BY DEF Consistent, TypeOK
<1>2. SessionCall(o, sessions[s].handler, s, r) \in Call
  BY <1>1 DEF SessionCall, Call, SessionInfo
<1>3. handlers' \in Seq(Handler) /\ next' \in SessionId /\ calls' \subseteq Call
  BY <1>2 DEF Consistent, TypeOK
<1>4. [sessions[s] EXCEPT !.idle = 0] \in SessionInfo
  BY <1>1, TimeoutAssumption DEF SessionInfo
<1>5. /\ DOMAIN sessions' = DOMAIN sessions
      /\ sessions' \in [DOMAIN sessions -> SessionInfo]
      /\ \A t \in DOMAIN sessions :
            /\ sessions'[t].blobId = sessions[t].blobId
            /\ sessions'[t].handler = sessions[t].handler
            /\ sessions'[t].flags = sessions[t].flags
  BY <1>1, <1>4 DEF Touched, Consistent, TypeOK, SessionInfo
<1>. QED
  BY <1>3, <1>5, SameSessionsStep
\* What a step that opens or closes sessions has to establish.
LEMMA TablesStep ==
    ASSUME handlers' \in Seq(Handler), next' \in SessionId, calls' \subseteq Call,
           DOMAIN sessions' \subseteq SessionId,
           sessions' \in [DOMAIN sessions' -> SessionInfo],
           Counts(openFiles', sessions'),
           openSessions' \in [Handler -> SUBSET SessionId],
           \A h \in Handler : openSessions'[h] =
               {s \in DOMAIN sessions' : sessions'[s].handler = h},
           \A s \in DOMAIN sessions' : sessions'[s].flags \cap AnyFlag # {}
    PROVE  Consistent'
<1>1. TypeOK'
  BY DEF TypeOK, Counts
<1>2. OpenFilesCountSessions'
  BY DEF OpenFilesCountSessions, OpenCount, SessionsOn, Counts, CountIn, On
<1>3. OpenSessionsIndexSessions'
  BY DEF OpenSessionsIndexSessions, SessionsOf
<1>4. OpenSessionsAreUsable'
  BY DEF OpenSessionsAreUsable, HasActionHandler
<1>. QED
  BY <1>1, <1>2, <1>3, <1>4 DEF Consistent

\* The sessions that are left when some are erased are what they were.
LEMMA SessionsLeft ==
    ASSUME NEW E
    PROVE  /\ DOMAIN SessionsWithout(E) = DOMAIN sessions \ E
           /\ SessionsWithout(E) = [s \in DOMAIN sessions \ E |-> sessions[s]]
BY DEF SessionsWithout, Restrict

LEMMA CloseStep ==
    ASSUME Consistent, NEW s \in SessionId, Close(s)
    PROVE  Consistent'
<1>1. CASE Refuse
  BY <1>1, RefuseStep
<1>2. CASE HasActionHandler(s, AnyFlag) /\ CloseRefused(s)
  BY <1>2, TouchStep DEF HasActionHandler, CloseRefused, SessionOp
<1>3. CASE HasActionHandler(s, AnyFlag) /\ CloseDone(s)
  <2>1. s \in DOMAIN sessions /\ sessions[s] \in SessionInfo
    BY <1>3 DEF HasActionHandler, Consistent, TypeOK
  <2>2. Counts(openFiles', sessions')
    BY <1>3, <2>1, EraseKeepsCounts DEF CloseDone, Consistent
  <2>3. /\ DOMAIN sessions' = DOMAIN sessions \ {s}
        /\ sessions' = [t \in DOMAIN sessions \ {s} |-> sessions[t]]
    BY <1>3, SessionsLeft DEF CloseDone
  <2>4. DOMAIN sessions' \subseteq SessionId /\ sessions' \in [DOMAIN sessions' -> SessionInfo]
    BY <2>3 DEF Consistent, TypeOK
  <2>5. SessionCall("close", sessions[s].handler, s, TRUE) \in Call
    BY <2>1 DEF SessionCall, Call, SessionOp, SessionInfo
  <2>6. handlers' \in Seq(Handler) /\ next' \in SessionId /\ calls' \subseteq Call
    BY <1>3, <2>5 DEF CloseDone, Consistent, TypeOK
  <2>7. openSessions' \in [Handler -> SUBSET SessionId]
    BY <1>3, <2>1 DEF CloseDone, Consistent, TypeOK, SessionInfo
  <2>8. \A h \in Handler : openSessions'[h] =
            {t \in DOMAIN sessions' : sessions'[t].handler = h}
    <3> SUFFICES ASSUME NEW h \in Handler
                 PROVE  openSessions'[h] =
                            {t \in DOMAIN sessions' : sessions'[t].handler = h}
      OBVIOUS
    <3>1. openSessions[h] = {t \in DOMAIN sessions : sessions[t].handler = h}
      BY DEF Consistent, OpenSessionsIndexSessions, SessionsOf
    <3>2. openSessions'[h] = IF h = sessions[s].handler THEN openSessions[h] \ {s}
                                                       ELSE openSessions[h]
      BY <1>3 DEF CloseDone, Consistent, TypeOK
    <3>. QED
      BY <2>1, <2>3, <3>1, <3>2
  <2>9. \A t \in DOMAIN sessions' : sessions'[t].flags \cap AnyFlag # {}
    BY <2>3 DEF Consistent, OpenSessionsAreUsable, HasActionHandler
  <2>. QED
    BY <2>2, <2>4, <2>6, <2>7, <2>8, <2>9, TablesStep
<1>. QED
  BY <1>1, <1>2, <1>3 DEF Close

LEMMA DeleteBlobStep ==
    ASSUME Consistent, NEW p \in Path, DeleteBlob(p)
    PROVE  Consistent'
<1>1. CASE Refuse
  BY <1>1, RefuseStep
<1>2. ASSUME NEW h \in Handler, DeleteBlobOn(h, p)
      PROVE  Consistent'
  <2>1. \A r \in BOOLEAN : PathCall("deleteBlob", h, p, r) \in Call
    BY DEF PathCall, Call, PathOp
  <2>2. handlers' \in Seq(Handler) /\ next' \in SessionId /\ calls' \subseteq Call
    BY <1>2, <2>1 DEF DeleteBlobOn, Consistent, TypeOK
  <2>3. Counts(openFiles, sessions)
    BY CountsIsInvariant DEF Consistent, TypeOK
  <2>4. /\ openFiles' = IF p \in DOMAIN openFiles THEN openFiles ELSE Put(openFiles, p, 0)
        /\ UNCHANGED <<sessions, openSessions>>
    BY <1>2 DEF DeleteBlobOn
  <2>5. /\ DOMAIN openFiles' \subseteq Path
        /\ openFiles' \in [DOMAIN openFiles' -> Nat]
        /\ \A q \in Path : CountIn(openFiles', q) = CountIn(openFiles, q)
    BY <2>3, <2>4 DEF Put, Counts, CountIn
  <2>6. Counts(openFiles', sessions')
    BY <2>3, <2>4, <2>5 DEF Counts, On
  <2>. QED
    BY <2>2, <2>4, <2>6, TablesStep
       DEF Consistent, TypeOK, OpenSessionsIndexSessions, SessionsOf,
           OpenSessionsAreUsable, HasActionHandler
<1>. QED
  BY <1>1, <1>2 DEF DeleteBlob

LEMMA StatStep ==
    ASSUME Consistent, NEW p \in Path, Stat(p)
    PROVE  Consistent'
<1>1. CASE Refuse
  BY <1>1, RefuseStep
<1>2. ASSUME NEW h \in Handler, StatOn(h, p)
      PROVE  Consistent'
  <2>1. \A r \in BOOLEAN : PathCall("statPath", h, p, r) \in Call
    BY DEF PathCall, Call, PathOp
  <2>2. handlers' \in Seq(Handler) /\ next' \in SessionId /\ calls' \subseteq Call
    BY <1>2, <2>1 DEF StatOn, table, Consistent, TypeOK
  <2>. QED
    BY <1>2, <2>2, UntouchedStep DEF StatOn, table
<1>. QED
  BY <1>1, <1>2 DEF Stat

\* read, write, writeMeta, commit and stat by session.
LEMMA ForwardStep ==
    ASSUME Consistent, NEW s \in SessionId, NEW o \in ForwardOp, NEW m,
           Forward(o, s, m)
    PROVE  Consistent'
<1>1. CASE Refuse
  BY <1>1, RefuseStep
<1>2. CASE ~Refuse
  <2>1. o \in SessionOp
    BY DEF SessionOp
  <2>2. /\ s \in DOMAIN sessions
        /\ sessions' = Touched(s)
        /\ UNCHANGED <<handlers, next, openFiles, openSessions>>
    BY <1>2 DEF Forward, HasActionHandler
  <2>3. PICK r \in BOOLEAN : calls' = {SessionCall(o, sessions[s].handler, s, r)}
    BY <1>2 DEF Forward
  <2>. QED
    BY <2>1, <2>2, <2>3, TouchStep
<1>. QED
  BY <1>1, <1>2

\* Stale sessions go, and the new one comes if the plugin opened it.
LEMMA CleanUpAndOpenStep ==
    ASSUME Consistent, NEW h \in Handler, NEW flags \in FlagSets, NEW p \in Path,
           flags \cap ReadWrite # {},
           NEW n \in SessionId, n \notin DOMAIN sessions,
           NEW E \in SUBSET Stale(h), NEW opened \in BOOLEAN,
           next' \in SessionId,
           CleanUpAndOpen(h, flags, p, n, E, opened)
    PROVE  Consistent'
<1> DEFINE info == [blobId |-> p, handler |-> h, flags |-> flags, idle |-> 0]
<1>1. /\ E \in SUBSET DOMAIN sessions
      /\ \A s \in E : sessions[s].handler = h
  BY DEF Stale, IsStale, Consistent, OpenSessionsIndexSessions, SessionsOf
<1>2. info \in SessionInfo /\ flags \cap AnyFlag # {}
  BY FlagSetsAssumption, TimeoutAssumption
     DEF SessionInfo, AnyFlag, ReadWrite, FlagBit
<1>3. Counts(FilesWithout(E), SessionsWithout(E))
  BY <1>1, EraseKeepsCounts DEF Consistent
<1>4. /\ DOMAIN SessionsWithout(E) = DOMAIN sessions \ E
      /\ \A s \in DOMAIN sessions \ E : SessionsWithout(E)[s] = sessions[s]
      /\ SessionsWithout(E) \in [DOMAIN sessions \ E -> SessionInfo]
      /\ DOMAIN sessions \subseteq SessionId
  <2>1. SessionsWithout(E) = [s \in DOMAIN sessions \ E |-> sessions[s]]
    BY SessionsLeft
  <2>. QED
    BY <2>1 DEF Consistent, TypeOK
<1>5. handlers' \in Seq(Handler) /\ next' \in SessionId /\ calls' \subseteq Call
  <2>1. \A s \in Stale(h) : SessionCall("expire", h, s, s \in E) \in Call
    BY <1>4 DEF SessionCall, Call, SessionOp, Stale, IsStale
  <2>2. OpenCall(h, n, p, opened) \in Call
    BY DEF OpenCall, Call
  <2>. QED
    BY <2>1, <2>2 DEF CleanUpAndOpen, ExpireCalls, Consistent, TypeOK
<1>6. \A k \in Handler : openSessions[k] = {s \in DOMAIN sessions : sessions[s].handler = k}
  BY DEF Consistent, OpenSessionsIndexSessions, SessionsOf
<1>7. \A s \in DOMAIN sessions : sessions[s].flags \cap AnyFlag # {}
  BY DEF Consistent, OpenSessionsAreUsable, HasActionHandler
<1>8. openSessions \in [Handler -> SUBSET SessionId]
  BY DEF Consistent, TypeOK
<1>9. CASE opened
  <2>1. /\ sessions' = Put(SessionsWithout(E), n, info)
        /\ openFiles' = CountUp(FilesWithout(E), p)
        /\ openSessions' = [openSessions EXCEPT ![h] = (@ \ E) \cup {n}]
    BY <1>9 DEF CleanUpAndOpen
  <2>2. Counts(openFiles', sessions')
    <3>1. n \notin DOMAIN SessionsWithout(E) /\ DOMAIN SessionsWithout(E) \subseteq SessionId
      BY <1>4
    <3>. QED
      BY <1>3, <2>1, <3>1, GrantKeepsCounts
  <2>3. /\ DOMAIN sessions' = (DOMAIN sessions \ E) \cup {n}
        /\ sessions'[n] = info
        /\ \A s \in DOMAIN sessions \ E : sessions'[s] = sessions[s]
        /\ sessions' \in [DOMAIN sessions' -> SessionInfo]
    BY <1>2, <1>4, <2>1 DEF Put
  <2>4. openSessions' \in [Handler -> SUBSET SessionId]
    BY <1>8, <2>1
  <2>5. \A k \in Handler : openSessions'[k] =
            {s \in DOMAIN sessions' : sessions'[s].handler = k}
    <3> SUFFICES ASSUME NEW k \in Handler
                 PROVE  openSessions'[k] =
                            {s \in DOMAIN sessions' : sessions'[s].handler = k}
      OBVIOUS
    <3>1. openSessions'[k] = IF k = h THEN (openSessions[h] \ E) \cup {n}
                                      ELSE openSessions[k]
      BY <1>8, <2>1
    <3>. QED
      BY <1>1, <1>6, <2>3, <3>1
  <2>6. \A s \in DOMAIN sessions' : sessions'[s].flags \cap AnyFlag # {}
    BY <1>2, <1>7, <2>3
  <2>. QED
    BY <1>4, <1>5, <2>2, <2>3, <2>4, <2>5, <2>6, TablesStep
<1>10. CASE ~opened
  <2>1. /\ sessions' = SessionsWithout(E)
        /\ openFiles' = FilesWithout(E)
        /\ openSessions' = [openSessions EXCEPT ![h] = @ \ E]
    BY <1>10 DEF CleanUpAndOpen
  <2>2. openSessions' \in [Handler -> SUBSET SessionId]
    BY <1>8, <2>1
  <2>3. \A k \in Handler : openSessions'[k] =
            {s \in DOMAIN sessions' : sessions'[s].handler = k}
    <3> SUFFICES ASSUME NEW k \in Handler
                 PROVE  openSessions'[k] =
                            {s \in DOMAIN sessions' : sessions'[s].handler = k}
      OBVIOUS
    <3>1. openSessions'[k] = IF k = h THEN openSessions[h] \ E ELSE openSessions[k]
      BY <1>8, <2>1
    <3>. QED
      BY <1>1, <1>4, <1>6, <2>1, <3>1
  <2>4. \A s \in DOMAIN sessions' : sessions'[s].flags \cap AnyFlag # {}
    BY <1>4, <1>7, <2>1
  <2>. QED
    BY <1>3, <1>4, <1>5, <2>1, <2>2, <2>3, <2>4, TablesStep
<1>. QED
  BY <1>9, <1>10

LEMMA OpenStep ==
    ASSUME Consistent, NEW flags \in FlagSets, NEW p \in Path, Open(flags, p)
    PROVE  Consistent'
<1>0. TypeOK
  BY DEF Consistent
<1>1. CASE Refuse
  BY <1>1, RefuseStep
<1>2. CASE OpenWithoutSession
  <2>1. next' \in SessionId
    <3>1. next + (SessionCount - 1) \in Nat
      BY <1>0, SessionCountAssumption DEF TypeOK, SessionId
    <3>. QED
      BY <1>2, <3>1, WrapIsSessionId DEF OpenWithoutSession, NextAfter
  <2>2. handlers' \in Seq(Handler) /\ calls' \subseteq Call
    BY <1>0, <1>2 DEF OpenWithoutSession, TypeOK
  <2>. QED
    BY <1>2, <2>1, <2>2, UntouchedStep DEF OpenWithoutSession
<1>3. CASE OpenWithoutMode(flags)
  <2>1. next' \in SessionId
    BY <1>0, <1>3, GetSessionFindsFree DEF OpenWithoutMode
  <2>2. handlers' \in Seq(Handler) /\ calls' \subseteq Call
    BY <1>0, <1>3 DEF OpenWithoutMode, TypeOK
  <2>. QED
    BY <1>3, <2>1, <2>2, UntouchedStep DEF OpenWithoutMode
<1>4. ASSUME NEW h \in Handler, OpenWithSession(h, flags, p)
      PROVE  Consistent'
  <2>1. /\ ~GetSessionFails
        /\ flags \cap ReadWrite # {}
        /\ next' = NextAfter(FirstFree + 1)
    BY <1>4 DEF OpenWithSession
  <2>2. PICK E \in SUBSET Stale(h), opened \in BOOLEAN :
            CleanUpAndOpen(h, flags, p, Candidate(FirstFree), E, opened)
    BY <1>4 DEF OpenWithSession
  <2>3. /\ Candidate(FirstFree) \in SessionId
        /\ Candidate(FirstFree) \notin DOMAIN sessions
        /\ next' \in SessionId
    BY <1>0, <2>1, GetSessionFindsFree
  <2>. QED
    BY <2>1, <2>2, <2>3, CleanUpAndOpenStep
<1>. QED
  BY <1>1, <1>2, <1>3, <1>4 DEF Open, OpenOn

LEMMA NextConsistent == Consistent /\ [Next]_vars => Consistent'
<1> SUFFICES ASSUME Consistent, [Next]_vars
             PROVE  Consistent'
  OBVIOUS
<1>1. CASE \E h \in Handler : RegisterHandler(h)
  BY <1>1, RegisterStep
<1>2. CASE \E flags \in FlagSets, p \in Path : Open(flags, p)
  BY <1>2, OpenStep
<1>3. CASE \E s \in SessionId : \/ Read(s) \/ Write(s) \/ WriteMeta(s)
                                \/ Commit(s) \/ SessionStat(s)
  <2>1. PICK s \in SessionId : \/ Read(s) \/ Write(s) \/ WriteMeta(s)
                               \/ Commit(s) \/ SessionStat(s)
    BY <1>3
  <2>2. PICK o \in ForwardOp, m \in SUBSET FlagBit : Forward(o, s, m)
    BY <2>1 DEF Read, Write, WriteMeta, Commit, SessionStat, ForwardOp, FlagBit, AnyFlag
  <2>. QED
    BY <2>2, ForwardStep
<1>4. CASE \E s \in SessionId : Close(s)
  BY <1>4, CloseStep
<1>5. CASE \E p \in Path : DeleteBlob(p)
  BY <1>5, DeleteBlobStep
<1>6. CASE \E p \in Path : Stat(p)
  BY <1>6, StatStep
<1>7. CASE Tick
  BY <1>7, TickStep
<1>8. CASE RegisterNull
  BY <1>8, RefuseStep DEF RegisterNull
<1>9. CASE UNCHANGED vars
  BY <1>9, UntouchedStep DEF vars, Consistent, TypeOK
<1>. QED
  BY <1>1, <1>2, <1>3, <1>4, <1>5, <1>6, <1>7, <1>8, <1>9 DEF Next

-----------------------------------------------------------------------------
\* The manager's four tables stay of their types, for any number of ids,
\* plugins and blobs: open counts never go below zero and `next' wraps.
THEOREM TypeCorrect == Spec => []TypeOK
<1>1. Consistent => TypeOK
  BY DEF Consistent
<1>. QED
  BY <1>1, InitConsistent, NextConsistent, PTL DEF Spec

\* deleteBlob's open count is the number of sessions on the blob after every
\* sequence of opens, closes, expiries and deletes, refused ones included.
THEOREM DeleteCountsSessions == Spec => []OpenFilesCountSessions
<1>1. Consistent => OpenFilesCountSessions
  BY DEF Consistent
<1>. QED
  BY <1>1, InitConsistent, NextConsistent, PTL DEF Spec

\* The index from which cleanUpStaleSessions takes a plugin's sessions holds
\* exactly the sessions that are routed to that plugin.
THEOREM IndexIsExact == Spec => []OpenSessionsIndexSessions
<1>1. Consistent => OpenSessionsIndexSessions
  BY DEF Consistent
<1>. QED
  BY <1>1, InitConsistent, NextConsistent, PTL DEF Spec

\* A session that open() granted passes getActionHandler's default mask for
\* as long as it exists, so its client can close it.
THEOREM SessionsStayUsable == Spec => []OpenSessionsAreUsable
<1>1. Consistent => OpenSessionsAreUsable
  BY DEF Consistent
<1>. QED
  BY <1>1, InitConsistent, NextConsistent, PTL DEF Spec

-----------------------------------------------------------------------------
(***************************************************************************)
(* A full table.                                                           *)
(***************************************************************************)
LEMMA FullHasNoneFree ==
    ASSUME TypeOK, TableFull
    PROVE  GetSessionFails
<1>1. \A i \in Tries : next + i \in Nat
  BY SessionCountAssumption DEF TypeOK, SessionId, Tries
<1>2. \A i \in Tries : Candidate(i) \in DOMAIN sessions
  BY <1>1, WrapIsSessionId DEF TableFull, Candidate
<1>. QED  BY <1>2 DEF GetSessionFails, FreeTries

\* manager.cpp, open: getSession fails before the stale sessions are cleaned up,
\* so once every id is in use only a close ends a session, for any number of
\* ids, however long the sessions have been idle and whatever the plugins would
\* agree to expire.
THEOREM OnlyCloseFreesAFullTable ==
    Spec => [][TableFull => TableFull' \/ \E s \in SessionId : CloseDone(s)]_vars
<1>1. Consistent /\ [Next]_vars =>
          [TableFull => TableFull' \/ \E s \in SessionId : CloseDone(s)]_vars
  <2> SUFFICES ASSUME Consistent, Next, TableFull, ~(\E s \in SessionId : CloseDone(s))
               PROVE  DOMAIN sessions' = DOMAIN sessions
    BY DEF TableFull, SessionId
  <2>1. GetSessionFails
    BY FullHasNoneFree DEF Consistent
  <2>2. CASE \E flags \in FlagSets, p \in Path : Open(flags, p)
    BY <2>1, <2>2 DEF Open, OpenOn, OpenWithoutSession, OpenWithoutMode,
                      OpenWithSession, Refuse, table
  <2>3. CASE \E s \in SessionId : Close(s)
    BY <2>3 DEF Close, CloseRefused, Touched, Refuse, table
  <2>4. CASE \E s \in SessionId : \/ Read(s) \/ Write(s) \/ WriteMeta(s)
                                  \/ Commit(s) \/ SessionStat(s)
    BY <2>4 DEF Read, Write, WriteMeta, Commit, SessionStat, Forward, Touched,
                Refuse, table
  <2>5. CASE \/ \E h \in Handler : RegisterHandler(h)
             \/ \E p \in Path : DeleteBlob(p) \/ Stat(p)
             \/ RegisterNull
    BY <2>5 DEF RegisterHandler, RegisterNull, DeleteBlob, DeleteBlobOn, Stat,
                StatOn, Refuse, table
  <2>6. CASE Tick
    BY <2>6 DEF Tick
  <2>. QED
    BY <2>2, <2>3, <2>4, <2>5, <2>6 DEF Next
<1>. QED
  BY <1>1, InitConsistent, NextConsistent, PTL DEF Spec

-----------------------------------------------------------------------------
(***************************************************************************)
(* The steps that StaleSessionsReclaimed is made of.                       *)
(***************************************************************************)
\* manager.cpp, cleanUpStaleSessions: an open that reaches a plugin which agrees
\* to expire what it is asked to leaves none of the sessions on that plugin that
\* were stale, whatever blob it opened and whether the plugin opened it.
THEOREM AgreedOpensReclaim ==
    Spec => [][\A h \in Handler : OpenReaching(h) =>
                   \A s \in SessionsOf(h) : IsStale(s) => s \notin DOMAIN sessions'
              ]_vars
<1>1. Consistent /\ [Next]_vars =>
          [\A h \in Handler : OpenReaching(h) =>
              \A s \in SessionsOf(h) : IsStale(s) => s \notin DOMAIN sessions']_vars
  <2> SUFFICES ASSUME Consistent, NEW h \in Handler, OpenReaching(h),
                      NEW s \in SessionsOf(h), IsStale(s)
               PROVE  s \notin DOMAIN sessions'
    OBVIOUS
  <2>1. calls' # {}
    BY DEF OpenReaching
  <2>2. PICK g \in Handler, flags \in FlagSets, p \in Path :
            OpenWithSession(g, flags, p)
    BY <2>1 DEF OpenReaching, Open, OpenOn, Refuse, OpenWithoutSession, OpenWithoutMode
  <2>3. PICK E \in SUBSET Stale(g), opened \in BOOLEAN :
            CleanUpAndOpen(g, flags, p, Candidate(FirstFree), E, opened)
    BY <2>2 DEF OpenWithSession
  <2>4. g = h
    BY <2>3 DEF OpenReaching, CleanUpAndOpen, ExpireCalls, SessionCall, OpenCall
  <2>5. s \in Stale(h) /\ s \in DOMAIN sessions
    BY DEF Stale, Consistent, OpenSessionsIndexSessions, SessionsOf
  <2>6. s \in E
    <3>1. SessionCall("expire", h, s, s \in E) \in calls'
      BY <2>3, <2>4, <2>5 DEF CleanUpAndOpen, ExpireCalls
    <3>2. /\ SessionCall("expire", h, s, s \in E).op = "expire"
          /\ SessionCall("expire", h, s, s \in E).ok = (s \in E)
      BY DEF SessionCall
    <3>. QED  BY <3>1, <3>2 DEF OpenReaching
  <2>7. Candidate(FirstFree) # s
    BY <2>2, <2>5, GetSessionFindsFree DEF OpenWithSession, Consistent
  <2>8. DOMAIN sessions' \subseteq (DOMAIN sessions \ E) \cup {Candidate(FirstFree)}
    BY <2>3, SessionsLeft DEF CleanUpAndOpen, Put
  <2>. QED  BY <2>6, <2>7, <2>8
<1>. QED
  BY <1>1, InitConsistent, NextConsistent, PTL DEF Spec

IsUsed(s) ==
    \E c \in calls' : c.op \in ForwardOp \cup {"close"} /\ c.session = s

\* manager.cpp: a stale session stays stale until it ends or its client uses it;
\* no other request, refused open or failed clean-up makes it look alive.
THEOREM OnlyUseRevives ==
    Spec => [][\A s \in SessionId :
                   IsStale(s) => IsStale(s)' \/ s \notin DOMAIN sessions' \/ IsUsed(s)]_vars
<1>1. Consistent /\ [Next]_vars =>
          [\A s \in SessionId :
              IsStale(s) => IsStale(s)' \/ s \notin DOMAIN sessions' \/ IsUsed(s)]_vars
  <2> SUFFICES ASSUME Consistent, Next, NEW s \in SessionId, IsStale(s),
                      s \in DOMAIN sessions', ~IsUsed(s)
               PROVE  sessions'[s].idle >= sessionTimeout
    BY DEF IsStale
  <2>1. s \in DOMAIN sessions /\ sessions[s].idle >= sessionTimeout
        /\ sessions[s].idle \in 0 .. sessionTimeout
        /\ sessions \in [DOMAIN sessions -> SessionInfo]
    BY DEF IsStale, Consistent, TypeOK, SessionInfo
  <2>2. CASE sessions'[s] = sessions[s]
    BY <2>1, <2>2
  <2>3. ASSUME NEW flags \in FlagSets, NEW p \in Path, Open(flags, p)
        PROVE  sessions'[s] = sessions[s]
    <3>1. CASE sessions' = sessions
      BY <3>1
    <3>2. ASSUME NEW h \in Handler, OpenWithSession(h, flags, p)
          PROVE  sessions'[s] = sessions[s]
      <4>1. PICK E \in SUBSET Stale(h), opened \in BOOLEAN :
                CleanUpAndOpen(h, flags, p, Candidate(FirstFree), E, opened)
        BY <3>2 DEF OpenWithSession
      <4>2. Candidate(FirstFree) # s
        BY <2>1, <3>2, GetSessionFindsFree DEF OpenWithSession, Consistent
      <4>3. /\ DOMAIN SessionsWithout(E) = DOMAIN sessions \ E
            /\ \A t \in DOMAIN sessions \ E : SessionsWithout(E)[t] = sessions[t]
        BY SessionsLeft
      <4>4. CASE sessions' = SessionsWithout(E)
        BY <4>3, <4>4
      <4>5. ASSUME NEW info, sessions' = Put(SessionsWithout(E), Candidate(FirstFree), info)
            PROVE  sessions'[s] = sessions[s]
        BY <4>2, <4>3, <4>5 DEF Put
      <4>. QED
        BY <4>1, <4>4, <4>5 DEF CleanUpAndOpen
    <3>. QED
      BY <2>3, <3>1, <3>2
         DEF Open, OpenOn, Refuse, table, OpenWithoutSession, OpenWithoutMode
  <2>4. ASSUME NEW o \in ForwardOp, NEW t \in SessionId, NEW m, Forward(o, t, m)
        PROVE  sessions'[s] = sessions[s]
    <3>1. CASE Refuse
      BY <3>1 DEF Refuse, table
    <3>2. CASE sessions' = Touched(t) /\ \E ok \in BOOLEAN :
                   calls' = {SessionCall(o, sessions[t].handler, t, ok)}
      <4>1. s # t
        BY <2>4, <3>2 DEF SessionCall, IsUsed
      <4>. QED
        BY <2>1, <3>2, <4>1 DEF Touched
    <3>. QED  BY <2>4, <3>1, <3>2 DEF Forward
  <2>5. ASSUME NEW t \in SessionId, Close(t)
        PROVE  sessions'[s] = sessions[s]
    <3>1. CASE Refuse
      BY <3>1 DEF Refuse, table
    <3>2. CASE CloseRefused(t)
      <4>1. s # t
        BY <3>2 DEF CloseRefused, SessionCall, IsUsed
      <4>. QED
        BY <2>1, <3>2, <4>1 DEF CloseRefused, Touched
    <3>3. CASE CloseDone(t)
      <4>1. /\ DOMAIN SessionsWithout({t}) = DOMAIN sessions \ {t}
            /\ \A u \in DOMAIN sessions \ {t} : SessionsWithout({t})[u] = sessions[u]
        BY SessionsLeft
      <4>. QED  BY <3>3, <4>1 DEF CloseDone
    <3>. QED  BY <2>5, <3>1, <3>2, <3>3 DEF Close
  <2>6. CASE \E t \in SessionId : \/ Read(t) \/ Write(t) \/ WriteMeta(t)
                                  \/ Commit(t) \/ SessionStat(t)
    <3>1. PICK t \in SessionId : \/ Read(t) \/ Write(t) \/ WriteMeta(t)
                                 \/ Commit(t) \/ SessionStat(t)
      BY <2>6
    <3>. QED
      BY <2>2, <2>4, <3>1
         DEF Read, Write, WriteMeta, Commit, SessionStat, ForwardOp
  <2>7. CASE \/ \E h \in Handler : RegisterHandler(h)
             \/ \E p \in Path : DeleteBlob(p) \/ Stat(p)
             \/ RegisterNull
    BY <2>2, <2>7 DEF RegisterHandler, RegisterNull, DeleteBlob, DeleteBlobOn, Stat,
                      StatOn, Refuse, table
  <2>8. CASE Tick
    <3>1. sessions'[s] = [sessions[s] EXCEPT !.idle = Older(sessions[s].idle)]
      BY <2>1, <2>8 DEF Tick
    <3>2. sessions'[s].idle = Older(sessions[s].idle)
      BY <2>1, <3>1 DEF SessionInfo
    <3>. QED  BY <2>1, <3>2, TimeoutAssumption DEF Older
  <2>. QED
    BY <2>2, <2>3, <2>5, <2>6, <2>7, <2>8 DEF Next
<1>. QED
  BY <1>1, InitConsistent, NextConsistent, PTL DEF Spec
-----------------------------------------------------------------------------
(***************************************************************************)
(* One plugin for each blob, when no plugin changes its mind about the     *)
(* blobs that it handles: every open session is with the plugin to which   *)
(* its blob would be routed now.                                           *)
(***************************************************************************)
FixedClaims == \A p \in Path : \E willing \in SUBSET Handler : Claims[p] = {willing}

Routed ==
    FixedClaims =>
        \A s \in DOMAIN sessions : \A willing \in Claims[sessions[s].blobId] :
            IsHandler(sessions[s].handler, willing)

\* Sessions that stay, with plugins that stay.
LEMMA RoutedKept ==
    ASSUME Routed, handlers' = handlers,
           \A s \in DOMAIN sessions' :
               /\ s \in DOMAIN sessions
               /\ sessions'[s].blobId = sessions[s].blobId
               /\ sessions'[s].handler = sessions[s].handler
    PROVE  Routed'
BY DEF Routed, FixedClaims, IsHandler

\* A plugin that is registered later is asked later.
LEMMA RoutedRegister ==
    ASSUME TypeOK, Routed, NEW h \in Handler, RegisterHandler(h)
    PROVE  Routed'
<1>1. /\ Len(handlers) \in Nat
      /\ DOMAIN handlers = 1 .. Len(handlers)
      /\ DOMAIN handlers' = 1 .. (Len(handlers) + 1)
      /\ \A i \in DOMAIN handlers : handlers'[i] = handlers[i]
      /\ sessions' = sessions
  BY DEF RegisterHandler, table, TypeOK
<1>2. ASSUME NEW g, NEW willing, IsHandler(g, willing)
      PROVE  IsHandler(g, willing)'
  <2>1. PICK i \in DOMAIN handlers :
            handlers[i] = g /\ g \in willing /\ \A j \in 1 .. (i - 1) : handlers[j] \notin willing
    BY <1>2 DEF IsHandler
  <2>2. i \in DOMAIN handlers' /\ \A j \in 1 .. (i - 1) : j \in DOMAIN handlers
    BY <1>1
  <2> QED BY <1>1, <2>1, <2>2 DEF IsHandler
<1> QED BY <1>1, <1>2 DEF Routed, FixedClaims

LEMMA RoutedOpen ==
    ASSUME TypeOK, Routed, NEW flags \in FlagSets, NEW p \in Path, Open(flags, p)
    PROVE  Routed'
<1>1. CASE handlers' = handlers /\ sessions' = sessions
  BY <1>1, RoutedKept
<1>2. ASSUME NEW willing \in Claims[p], NEW h \in Handler, IsHandler(h, willing),
             NEW session, NEW expired, NEW opened \in BOOLEAN,
             CleanUpAndOpen(h, flags, p, session, expired, opened)
      PROVE  Routed'
  <2>1. handlers' = handlers
    BY <1>2 DEF CleanUpAndOpen
  <2>2. CASE ~opened
    <3>1. sessions' = SessionsWithout(expired)
      BY <1>2, <2>2 DEF CleanUpAndOpen
    <3> QED BY <2>1, <3>1, RoutedKept DEF SessionsWithout, Restrict
  <2>3. CASE opened
    <3> DEFINE new == [blobId |-> p, handler |-> h, flags |-> flags, idle |-> 0]
    <3>1. sessions' = Put(SessionsWithout(expired), session, new)
      BY <1>2, <2>3 DEF CleanUpAndOpen
    <3>2. new.blobId = p /\ new.handler = h
      OBVIOUS
    <3> HIDE DEF new
    <3>3. \A s \in DOMAIN sessions' :
             \/ sessions'[s] = new
             \/ s \in DOMAIN sessions /\ sessions'[s] = sessions[s]
      BY <3>1 DEF Put, SessionsWithout, Restrict
    <3>4. FixedClaims => \A w \in Claims[p] : w = willing
      BY <1>2 DEF FixedClaims
    <3>5. ASSUME FixedClaims, NEW s \in DOMAIN sessions',
                 NEW w \in Claims[sessions'[s].blobId]
          PROVE  IsHandler(sessions'[s].handler, w)
      BY <1>2, <3>2, <3>3, <3>4, <3>5 DEF Routed
    <3> QED BY <2>1, <3>5 DEF Routed, FixedClaims, IsHandler
  <2> QED BY <2>2, <2>3
<1> QED
  BY <1>1, <1>2 DEF Open, OpenOn, Refuse, table, OpenWithoutSession, OpenWithoutMode,
                    OpenWithSession

LEMMA NextRouted == TypeOK /\ Routed /\ [Next]_vars => Routed'
<1> SUFFICES ASSUME TypeOK, Routed, [Next]_vars
             PROVE  Routed'
  OBVIOUS
<1>1. CASE \E h \in Handler : RegisterHandler(h)
  BY <1>1, RoutedRegister
<1>2. CASE \E flags \in FlagSets, p \in Path : Open(flags, p)
  BY <1>2, RoutedOpen
<1>3. ASSUME NEW s \in SessionId, NEW o, NEW m, Forward(o, s, m)
      PROVE  Routed'
  <2>1. handlers' = handlers /\ (sessions' = sessions \/ sessions' = Touched(s))
    BY <1>3 DEF Forward, Refuse, table
  <2> QED BY <2>1, RoutedKept DEF Touched, TypeOK, SessionInfo
<1>4. ASSUME NEW s \in SessionId, Close(s)
      PROVE  Routed'
  <2>1. /\ handlers' = handlers
        /\ \/ sessions' = sessions
           \/ sessions' = Touched(s)
           \/ sessions' = SessionsWithout({s})
    BY <1>4 DEF Close, CloseRefused, CloseDone, Refuse, table
  <2> QED BY <2>1, RoutedKept DEF Touched, SessionsWithout, Restrict, TypeOK, SessionInfo
<1>5. CASE Tick
  BY <1>5, RoutedKept DEF Tick, TypeOK, SessionInfo
<1>6. CASE \/ \E p \in Path : DeleteBlob(p) \/ Stat(p)
           \/ RegisterNull
           \/ UNCHANGED vars
  <2>1. handlers' = handlers /\ sessions' = sessions
    BY <1>6 DEF DeleteBlob, DeleteBlobOn, Stat, StatOn, RegisterNull, Refuse, table, vars
  <2> QED BY <2>1, RoutedKept
<1>. QED
  BY <1>1, <1>2, <1>3, <1>4, <1>5, <1>6 DEF Next, Read, Write, WriteMeta, Commit, SessionStat

\* A blob is routed to one plugin only.
LEMMA RoutedToOne == TypeOK /\ Routed => (FixedClaims => BlobHasOneHandler)
<1> SUFFICES ASSUME TypeOK, Routed, FixedClaims,
                    NEW s \in DOMAIN sessions, NEW t \in DOMAIN sessions,
                    sessions[s].blobId = sessions[t].blobId
             PROVE  sessions[s].handler = sessions[t].handler
  BY DEF BlobHasOneHandler
<1>1. sessions[s].blobId \in Path
  BY DEF TypeOK, SessionInfo
<1>2. PICK willing : willing \in Claims[sessions[s].blobId]
  BY <1>1 DEF FixedClaims
<1>3. IsHandler(sessions[s].handler, willing) /\ IsHandler(sessions[t].handler, willing)
  BY <1>2 DEF Routed
<1>4. PICK i \in DOMAIN handlers :
          /\ handlers[i] = sessions[s].handler
          /\ sessions[s].handler \in willing
          /\ \A j \in 1 .. (i - 1) : handlers[j] \notin willing
  BY <1>3 DEF IsHandler
<1>5. PICK k \in DOMAIN handlers :
          /\ handlers[k] = sessions[t].handler
          /\ sessions[t].handler \in willing
          /\ \A j \in 1 .. (k - 1) : handlers[j] \notin willing
  BY <1>3 DEF IsHandler
<1>6. DOMAIN handlers = 1 .. Len(handlers) /\ Len(handlers) \in Nat
  BY DEF TypeOK
<1>7. ~(i < k) /\ ~(k < i)
  BY <1>4, <1>5, <1>6
<1>. QED
  BY <1>4, <1>5, <1>6, <1>7

\* getHandler asks the plugins in the order of their registration, and while
\* they stick to their answers no blob is open on two plugins: a plugin that
\* is registered later never takes a blob over.
THEOREM OneHandlerForEachBlob == Spec => [](FixedClaims => BlobHasOneHandler)
<1>1. Init => Routed
  BY DEF Init, EmptyTable, Routed
<1>. QED
  BY <1>1, NextRouted, RoutedToOne, TypeCorrect, PTL DEF Spec
=============================================================================
