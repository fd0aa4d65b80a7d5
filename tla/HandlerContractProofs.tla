----------------------- MODULE HandlerContractProofs -----------------------
(***************************************************************************)
(* The manager implements its contract with the plugins: every step of     *)
(* BlobManager is a step of HandlerContract, when the plugins' view of     *)
(* their sessions is read off the manager's session table.                 *)
(***************************************************************************)
EXTENDS BlobManagerProofs

\* The plugins' view of their sessions, as in Contract.
View == [s \in DOMAIN sessions |->
            [handler |-> sessions[s].handler,
             path    |-> sessions[s].blobId,
             quiet   |-> sessions[s].idle]]

LEMMA InitView == Init => Contract!Init
BY DEF Init, EmptyTable, Contract!Init

\* A step that the plugins do not notice.
LEMMA QuietStep ==
    ASSUME calls' = {}, sessions' = sessions
    PROVE  Contract!Next
<1>1. Contract!Permitted(calls')
  BY DEF Contract!Permitted, Contract!FreshIds, Contract!OnlyLive,
         Contract!OnlyQuiet, Contract!OnlyUnused, Contract!OneRequest,
         Contract!Opens, Contract!Sessions
<1>2. /\ Contract!Begun(calls') = {}
      /\ Contract!Ended(calls') = {}
      /\ Contract!Used(calls') = {}
  BY DEF Contract!Begun, Contract!Ended, Contract!Used, Contract!Opens,
         Contract!Sessions
<1>3. View' = Contract!After(calls')
  BY <1>2 DEF View, Contract!After
<1>. QED
  BY <1>1, <1>3 DEF View, Contract!Next, Contract!Serve

LEMMA TickView ==
    ASSUME Consistent, Tick
    PROVE  Contract!Next
<1>1. DOMAIN sessions' = DOMAIN sessions /\ calls' = {}
  BY DEF Tick
<1>2. ASSUME NEW s \in DOMAIN sessions
      PROVE  /\ sessions'[s].handler = sessions[s].handler
             /\ sessions'[s].blobId = sessions[s].blobId
             /\ sessions'[s].idle = Older(sessions[s].idle)
  <2>1. sessions[s] \in SessionInfo
    BY DEF Consistent, TypeOK
  <2>2. sessions'[s] = [sessions[s] EXCEPT !.idle = Older(@)]
    BY DEF Tick
  <2>. QED
    BY <2>1, <2>2 DEF SessionInfo
<1>3. View' = [s \in DOMAIN View |->
                 [View[s] EXCEPT !.quiet = IF @ < sessionTimeout THEN @ + 1 ELSE @]]
  BY <1>1, <1>2 DEF View, Older
<1>. QED
  BY <1>1, <1>3 DEF View, Contract!Next, Contract!Elapse

\* A call about a blob: stat or deleteBlob.  The plugins' sessions stay.
LEMMA PathCallView ==
    ASSUME NEW o \in PathOp, NEW h, NEW p, NEW r,
           calls' = {PathCall(o, h, p, r)}, sessions' = sessions,
           o = "deleteBlob" => \A s \in DOMAIN sessions : sessions[s].blobId # p
    PROVE  Contract!Next
<1> DEFINE c == PathCall(o, h, p, r)
<1>1. c.op = o /\ c.path = p
  BY DEF PathCall
<1>2. Contract!Sessions(calls') = {} /\ Contract!Opens(calls') = {}
  BY <1>1 DEF Contract!Sessions, Contract!Opens, PathOp
<1>3. Contract!OnlyUnused(calls')
  BY <1>1 DEF Contract!OnlyUnused
<1>4. Contract!OnlyQuiet(calls') /\ Contract!OneRequest(calls')
  BY <1>1 DEF Contract!OnlyQuiet, Contract!OneRequest, PathOp
<1>5. Contract!Permitted(calls')
  BY <1>2, <1>3, <1>4 DEF Contract!Permitted, Contract!FreshIds, Contract!OnlyLive
<1>6. /\ Contract!Begun(calls') = {}
      /\ Contract!Ended(calls') = {}
      /\ Contract!Used(calls') = {}
  BY <1>1, <1>2 DEF Contract!Begun, Contract!Ended, Contract!Used, PathOp
<1>7. View' = Contract!After(calls')
  BY <1>6 DEF View, Contract!After
<1>. QED
  BY <1>5, <1>7 DEF View, Contract!Next, Contract!Serve

\* One call about one open session, other than expire.
LEMMA SessionCallView ==
    ASSUME Consistent, NEW s \in DOMAIN sessions,
           NEW o \in SessionOp \ {"expire"}, NEW r \in BOOLEAN,
           calls' = {SessionCall(o, sessions[s].handler, s, r)},
           sessions' = IF o = "close" /\ r THEN SessionsWithout({s}) ELSE Touched(s)
    PROVE  Contract!Next
<1> DEFINE c == SessionCall(o, sessions[s].handler, s, r)
<1>1. c.op = o /\ c.session = s /\ c.handler = sessions[s].handler /\ c.ok = r
  BY DEF SessionCall
<1>2. Contract!Sessions(calls') = {c} /\ Contract!Opens(calls') = {}
  BY <1>1 DEF Contract!Sessions, Contract!Opens, SessionOp, ForwardOp
<1>3. Contract!OnlyLive(calls')
  BY <1>1, <1>2 DEF Contract!OnlyLive
<1>4. /\ Contract!OnlyQuiet(calls')
      /\ Contract!OneRequest(calls')
      /\ Contract!OnlyUnused(calls')
  BY <1>1 DEF Contract!OnlyQuiet, Contract!OneRequest, Contract!OnlyUnused,
              SessionOp, ForwardOp
<1>5. Contract!Permitted(calls')
  BY <1>2, <1>3, <1>4 DEF Contract!Permitted, Contract!FreshIds
<1>6. /\ Contract!Begun(calls') = {}
      /\ Contract!Ended(calls') = IF o = "close" /\ r THEN {s} ELSE {}
      /\ Contract!Used(calls') = {s}
  <2>1. Contract!Begun(calls') = {}
    BY <1>2 DEF Contract!Begun
  <2>2. Contract!Ended(calls') = IF o = "close" /\ r THEN {s} ELSE {}
    BY <1>1 DEF Contract!Ended
  <2>3. Contract!Used(calls') = {s}
    BY <1>1, <1>2 DEF Contract!Used
  <2>. QED  BY <2>1, <2>2, <2>3
<1>7. sessions[s] \in SessionInfo /\ sessions \in [DOMAIN sessions -> SessionInfo]
  BY DEF Consistent, TypeOK
<1>8. View' = Contract!After(calls')
  <2>1. CASE o = "close" /\ r
    <3>1. sessions' = [t \in DOMAIN sessions \ {s} |-> sessions[t]]
      BY <2>1, SessionsLeft
    <3>. QED
      BY <1>6, <2>1, <3>1 DEF View, Contract!After
  <2>2. CASE ~(o = "close" /\ r)
    <3>1. /\ DOMAIN sessions' = DOMAIN sessions
          /\ sessions'[s] = [sessions[s] EXCEPT !.idle = 0]
          /\ \A t \in DOMAIN sessions \ {s} : sessions'[t] = sessions[t]
      BY <2>2 DEF Touched
    <3>2. /\ sessions'[s].handler = sessions[s].handler
          /\ sessions'[s].blobId = sessions[s].blobId
          /\ sessions'[s].idle = 0
      BY <1>7, <3>1 DEF SessionInfo
    <3>. QED
      BY <1>6, <2>2, <3>1, <3>2 DEF View, Contract!After
  <2>. QED  BY <2>1, <2>2
<1>. QED
  BY <1>5, <1>8 DEF View, Contract!Next, Contract!Serve

\* An open, with the calls of expire that go before it.
LEMMA CleanUpAndOpenView ==
    ASSUME Consistent, NEW h \in Handler, NEW flags, NEW p \in Path,
           NEW n \in SessionId, n \notin DOMAIN sessions,
           NEW E \in SUBSET Stale(h), NEW opened \in BOOLEAN,
           CleanUpAndOpen(h, flags, p, n, E, opened)
    PROVE  Contract!Next
<1> DEFINE C == calls'
           o == OpenCall(h, n, p, opened)
           x(s) == SessionCall("expire", h, s, s \in E)
<1>1. /\ Stale(h) \subseteq DOMAIN sessions
      /\ \A s \in Stale(h) : /\ sessions[s].handler = h
                             /\ sessions[s].idle >= sessionTimeout
  BY DEF Stale, IsStale, Consistent, OpenSessionsIndexSessions, SessionsOf
<1>2. C = {x(s) : s \in Stale(h)} \cup {o}
  BY DEF CleanUpAndOpen, ExpireCalls
<1>3. /\ o.op = "open" /\ o.session = n /\ o.handler = h /\ o.path = p
      /\ o.ok = opened
  BY DEF OpenCall
<1>4. \A s : /\ x(s).op = "expire" /\ x(s).session = s /\ x(s).handler = h
             /\ x(s).ok <=> s \in E
  BY DEF SessionCall
<1> HIDE DEF o, x
<1>5. Contract!Opens(C) = {o} /\ Contract!Sessions(C) = C
  BY <1>2, <1>3, <1>4 DEF Contract!Opens, Contract!Sessions
<1>6. Contract!FreshIds(C)
  BY <1>3, <1>5 DEF Contract!FreshIds
<1>7. Contract!OnlyLive(C)
  BY <1>1, <1>2, <1>4, <1>5 DEF Contract!OnlyLive
<1>8. Contract!OnlyQuiet(C)
  BY <1>1, <1>2, <1>3, <1>4 DEF Contract!OnlyQuiet
<1>9. Contract!OnlyUnused(C)
  BY <1>2, <1>3, <1>4 DEF Contract!OnlyUnused
<1>10. Contract!OneRequest(C)
  <2> SUFFICES ASSUME NEW c \in C, NEW d \in C, c # d
               PROVE  /\ {c.op, d.op} \subseteq {"open", "expire"}
                      /\ c.handler = d.handler
                      /\ c.session # d.session
    BY DEF Contract!OneRequest
  <2>1. c = o \/ \E s \in Stale(h) : c = x(s)
    BY <1>2
  <2>2. d = o \/ \E s \in Stale(h) : d = x(s)
    BY <1>2
  <2>3. \A s \in Stale(h) : s # n
    BY <1>1
  <2>4. /\ c.op \in {"open", "expire"} /\ c.handler = h
        /\ d.op \in {"open", "expire"} /\ d.handler = h
    BY <1>3, <1>4, <2>1, <2>2
  <2>5. c.session # d.session
    <3>1. CASE c = o
      BY <1>3, <1>4, <2>2, <2>3, <3>1
    <3>2. ASSUME NEW s \in Stale(h), c = x(s)
          PROVE  c.session # d.session
      BY <1>3, <1>4, <2>2, <2>3, <3>2
    <3>. QED
      BY <2>1, <3>1, <3>2
  <2>. QED
    BY <2>4, <2>5
<1>11. Contract!Permitted(C)
  BY <1>6, <1>7, <1>8, <1>9, <1>10 DEF Contract!Permitted
<1>12. Contract!Begun(C) = IF opened THEN {n} ELSE {}
  BY <1>3, <1>5 DEF Contract!Begun
<1>13. Contract!Ended(C) = E
  <2> DEFINE D == {d \in C : d.op \in {"close", "expire"} /\ d.ok}
  <2>1. \A s \in E : x(s) \in D
    BY <1>2, <1>4
  <2>2. ASSUME NEW d \in D PROVE d.session \in E
    <3>1. PICK s \in Stale(h) : d = x(s)
      BY <1>2, <1>3
    <3>. QED
      BY <1>4, <3>1
  <2>3. Contract!Ended(C) = {d.session : d \in D}
    BY DEF Contract!Ended
  <2> HIDE DEF D
  <2>4. \A s \in E : s \in {d.session : d \in D}
    BY <1>4, <2>1
  <2>. QED
    BY <2>2, <2>3, <2>4
<1>14. Contract!Used(C) = {n}
  <2>1. {d \in Contract!Sessions(C) : d.op # "expire"} = {o}
    BY <1>2, <1>3, <1>4, <1>5
  <2>. QED
    BY <1>3, <2>1 DEF Contract!Used
<1>15. Contract!Entry(C, n) = [handler |-> h, path |-> p, quiet |-> 0]
  BY <1>3, <1>5 DEF Contract!Entry
<1>16. /\ DOMAIN SessionsWithout(E) = DOMAIN sessions \ E
       /\ \A s \in DOMAIN sessions \ E : SessionsWithout(E)[s] = sessions[s]
  <2>1. SessionsWithout(E) = [s \in DOMAIN sessions \ E |-> sessions[s]]
    BY SessionsLeft
  <2>. QED  BY <2>1
<1>17. View' = Contract!After(C)
  <2>1. CASE opened
    <3>1. sessions' = Put(SessionsWithout(E), n,
                          [blobId |-> p, handler |-> h, flags |-> flags, idle |-> 0])
      BY <2>1 DEF CleanUpAndOpen
    <3>2. /\ DOMAIN sessions' = (DOMAIN sessions \ E) \cup {n}
          /\ sessions'[n] = [blobId |-> p, handler |-> h, flags |-> flags, idle |-> 0]
          /\ \A s \in DOMAIN sessions \ E : sessions'[s] = sessions[s]
      BY <1>16, <3>1 DEF Put
    <3>. QED
      BY <1>12, <1>13, <1>14, <1>15, <2>1, <3>2 DEF View, Contract!After
  <2>2. CASE ~opened
    <3>1. sessions' = SessionsWithout(E)
      BY <2>2 DEF CleanUpAndOpen
    <3>. QED
      BY <1>12, <1>13, <1>14, <1>16, <2>2, <3>1 DEF View, Contract!After
  <2>. QED  BY <2>1, <2>2
<1>. QED
  BY <1>11, <1>17 DEF View, Contract!Next, Contract!Serve

LEMMA OpenView ==
    ASSUME Consistent, NEW flags \in FlagSets, NEW p \in Path, Open(flags, p)
    PROVE  Contract!Next
<1>1. CASE calls' = {} /\ sessions' = sessions
  BY <1>1, QuietStep
<1>2. ASSUME NEW h \in Handler, OpenWithSession(h, flags, p)
      PROVE  Contract!Next
  <2>1. /\ Candidate(FirstFree) \in SessionId
        /\ Candidate(FirstFree) \notin DOMAIN sessions
    BY <1>2, GetSessionFindsFree DEF OpenWithSession, Consistent
  <2>. QED
    BY <1>2, <2>1, CleanUpAndOpenView DEF OpenWithSession
<1>. QED
  BY <1>1, <1>2 DEF Open, OpenOn, Refuse, table, OpenWithoutSession, OpenWithoutMode

LEMMA ForwardView ==
    ASSUME Consistent, NEW s, NEW o \in ForwardOp, NEW m, Forward(o, s, m)
    PROVE  Contract!Next
<1>1. CASE Refuse
  BY <1>1, QuietStep DEF Refuse, table
<1>2. CASE ~Refuse
  <2>1. s \in DOMAIN sessions /\ sessions' = Touched(s)
    BY <1>2 DEF Forward, HasActionHandler
  <2>2. PICK r \in BOOLEAN : calls' = {SessionCall(o, sessions[s].handler, s, r)}
    BY <1>2 DEF Forward
  <2>3. o \in SessionOp \ {"expire"} /\ o # "close"
    BY DEF SessionOp, ForwardOp
  <2>. QED
    BY <2>1, <2>2, <2>3, SessionCallView
<1>. QED  BY <1>1, <1>2

LEMMA CloseView ==
    ASSUME Consistent, NEW s, Close(s)
    PROVE  Contract!Next
<1>1. CASE Refuse
  BY <1>1, QuietStep DEF Refuse, table
<1>2. CASE HasActionHandler(s, AnyFlag) /\ CloseRefused(s)
  BY <1>2, SessionCallView DEF HasActionHandler, CloseRefused, SessionOp
<1>3. CASE HasActionHandler(s, AnyFlag) /\ CloseDone(s)
  BY <1>3, SessionCallView DEF HasActionHandler, CloseDone, SessionOp
<1>. QED
  BY <1>1, <1>2, <1>3 DEF Close

\* This is where the open counts matter: the manager calls deleteBlob on the
\* strength of a count, the contract speaks of the sessions themselves.
LEMMA DeleteBlobView ==
    ASSUME Consistent, NEW p \in Path, DeleteBlob(p)
    PROVE  Contract!Next
<1>1. CASE calls' = {} /\ sessions' = sessions
  BY <1>1, QuietStep
<1>2. ASSUME NEW h \in Handler, DeleteBlobOn(h, p), calls' # {}
      PROVE  Contract!Next
  <2>1. PICK r \in BOOLEAN : calls' = {PathCall("deleteBlob", h, p, r)}
    BY <1>2 DEF DeleteBlobOn
  <2>2. ~(OpenCount(p) > 0) /\ sessions' = sessions
    BY <1>2 DEF DeleteBlobOn
  <2>3. SessionsOn(p) = {}
    <3>1. IsFiniteSet(SessionsOn(p))
      BY SessionSetsAreFinite DEF SessionsOn, Consistent, TypeOK
    <3>2. OpenCount(p) = Cardinality(SessionsOn(p))
      BY DEF Consistent, OpenFilesCountSessions
    <3>3. Cardinality(SessionsOn(p)) \in Nat
      BY <3>1, FS_CardinalityType
    <3>4. Cardinality(SessionsOn(p)) = 0
      BY <2>2, <3>2, <3>3
    <3>. QED
      BY <3>1, <3>4, FS_EmptySet
  <2>. QED
    BY <2>1, <2>2, <2>3, PathCallView DEF PathOp, SessionsOn
<1>. QED
  BY <1>1, <1>2 DEF DeleteBlob, DeleteBlobOn, Refuse, table

LEMMA StatView ==
    ASSUME NEW p \in Path, Stat(p)
    PROVE  Contract!Next
<1>1. CASE Refuse
  BY <1>1, QuietStep DEF Refuse, table
<1>2. ASSUME NEW h \in Handler, StatOn(h, p)
      PROVE  Contract!Next
  BY <1>2, PathCallView DEF StatOn, PathOp, table
<1>. QED
  BY <1>1, <1>2 DEF Stat

LEMMA NextView == Consistent /\ [Next]_vars => Contract!Next \/ UNCHANGED <<View, calls>>
<1> SUFFICES ASSUME Consistent, [Next]_vars
             PROVE  Contract!Next \/ UNCHANGED <<View, calls>>
  OBVIOUS
<1>1. CASE \E h \in Handler : RegisterHandler(h)
  BY <1>1, QuietStep DEF RegisterHandler, table
<1>2. CASE RegisterNull
  BY <1>2, QuietStep DEF RegisterNull, Refuse, table
<1>3. CASE \E flags \in FlagSets, p \in Path : Open(flags, p)
  BY <1>3, OpenView
<1>4. CASE \E s \in SessionId : \/ Read(s) \/ Write(s) \/ WriteMeta(s)
                                \/ Commit(s) \/ SessionStat(s)
  <2>1. PICK s \in SessionId : \/ Read(s) \/ Write(s) \/ WriteMeta(s)
                               \/ Commit(s) \/ SessionStat(s)
    BY <1>4
  <2>2. PICK o \in ForwardOp, m \in SUBSET FlagBit : Forward(o, s, m)
    BY <2>1 DEF Read, Write, WriteMeta, Commit, SessionStat, ForwardOp, FlagBit, AnyFlag
  <2>. QED
    BY <2>2, ForwardView
<1>5. CASE \E s \in SessionId : Close(s)
  BY <1>5, CloseView
<1>6. CASE \E p \in Path : DeleteBlob(p)
  BY <1>6, DeleteBlobView
<1>7. CASE \E p \in Path : Stat(p)
  BY <1>7, StatView
<1>8. CASE Tick
  BY <1>8, TickView
<1>9. CASE UNCHANGED vars
  BY <1>9 DEF vars, View
<1>. QED
  BY <1>1, <1>2, <1>3, <1>4, <1>5, <1>6, <1>7, <1>8, <1>9 DEF Next

-----------------------------------------------------------------------------
\* The blob manager keeps its calling contract with every plugin, whatever
\* clients ask for and whatever plugins answer: session calls only to the
\* plugin on which the session is open, no id given out twice, expire only
\* after the whole timeout, deleteBlob only when nothing is open.
THEOREM ManagerHonoursContract == Spec => HonoursContract
<1>1. Consistent /\ [Next]_vars => [Contract!Next]_<<View, calls>>
  BY NextView
<1>2. Consistent /\ [Next]_vars => Consistent'
  BY NextConsistent
<1>. QED
  BY <1>1, <1>2, InitConsistent, InitView, PTL
     DEF Spec, HonoursContract, Contract!Spec, View
=============================================================================
