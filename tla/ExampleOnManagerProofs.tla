----------------------- MODULE ExampleOnManagerProofs -----------------------
(***************************************************************************)
(* The manager and the example plugin agree on the plugin's sessions, for  *)
(* every number of session ids, every size of the plugin's buffer, every   *)
(* timeout and whatever other plugins there are.                           *)
(***************************************************************************)
EXTENDS ExampleOnManager, BlobManagerProofs

(***************************************************************************)
(* A step of the composition is one of the manager, so the manager's       *)
(* invariant holds.                                                        *)
(***************************************************************************)
LEMMA ComposedConsistent == ComposedSpec => []Consistent
<1>1. ComposedInit => Consistent
  BY InitConsistent DEF ComposedInit
<1>2. Consistent /\ [ComposedNext]_composedVars => Consistent'
  BY NextConsistent DEF ComposedNext, composedVars
<1> QED BY <1>1, <1>2, PTL DEF ComposedSpec

(***************************************************************************)
(* What ExampleNeverRefuses says of one step.                              *)
(***************************************************************************)
NeverRefuses ==
    \A c \in calls' :
        c.handler = example /\ c.op \in {"open", "close", "stat"} => c.ok

-----------------------------------------------------------------------------
(***************************************************************************)
(* Which part the plugin has in a step.                                    *)
(***************************************************************************)
LEMMA NoPart ==
    ASSUME ExampleServes, \A c \in calls' : c.handler # example
    PROVE  blobs' = blobs /\ NeverRefuses
BY DEF ExampleServes, MyCalls, NeverRefuses

LEMMA OnePart ==
    ASSUME ExampleServes, NEW c, calls' = {c}, c.handler = example
    PROVE  Dispatch(c) /\ c.ok = answer'.ok
BY DEF ExampleServes, MyCalls

\* The calls that manager methods pass on to the plugin of an open session.
LEMMA ForwardKeeps ==
    ASSUME Consistent, SameSessions, ExampleServes,
           NEW o \in ForwardOp, NEW s \in SessionId, NEW mask, Forward(o, s, mask)
    PROVE  SameSessions' /\ NeverRefuses
<1>1. openSessions' = openSessions
  BY DEF Forward, Refuse, table
<1>2. CASE calls' = {}
  <2>1. blobs' = blobs /\ NeverRefuses
    BY <1>2, NoPart
  <2> QED BY <1>1, <2>1 DEF SameSessions
<1>3. ASSUME HasActionHandler(s, mask), NEW ok \in BOOLEAN,
             calls' = {SessionCall(o, sessions[s].handler, s, ok)}
      PROVE  SameSessions' /\ NeverRefuses
  <2>1. CASE sessions[s].handler # example
    <3>1. blobs' = blobs /\ NeverRefuses
      BY <1>3, <2>1, NoPart DEF SessionCall
    <3> QED BY <1>1, <3>1 DEF SameSessions
  <2>2. CASE sessions[s].handler = example
    <3> DEFINE c == SessionCall(o, sessions[s].handler, s, ok)
    <3>1. c.op = o /\ c.handler = example /\ c.session = s /\ c.ok = ok
      BY <2>2 DEF SessionCall
    <3>2. Dispatch(c) /\ c.ok = answer'.ok
      BY <1>3, <3>1, OnePart
    <3>3. s \in DOMAIN blobs
      BY <1>3, <2>2, ExampleAssumption DEF HasActionHandler, SameSessions, Consistent, OpenSessionsIndexSessions,
         SessionsOf, TypeOK, SessionInfo
    <3> HIDE DEF c
    <3>4. DOMAIN blobs' = DOMAIN blobs
      BY <3>1, <3>2
         DEF ForwardOp, Dispatch, Example!ReadBlob, Example!WriteBlob, Example!StatSession,
             Example!WriteMeta, Example!Commit, Example!Just
    <3>5. o = "stat" => c.ok
      BY <3>1, <3>2, <3>3
         DEF Dispatch, Example!StatSession, Example!GetSession, Example!Just, Example!Length
    <3>6. NeverRefuses
      BY <1>3, <3>1, <3>5 DEF NeverRefuses, ForwardOp, c
    <3> QED BY <1>1, <3>4, <3>6 DEF SameSessions
  <2> QED BY <2>1, <2>2
<1> QED BY <1>2, <1>3 DEF Forward, Refuse

\* deleteBlob and stat by path.
LEMMA PathCallKeeps ==
    ASSUME SameSessions, ExampleServes, openSessions' = openSessions,
           NEW o \in PathOp, NEW h, NEW p, NEW ok \in BOOLEAN,
           calls' = {} \/ calls' = {PathCall(o, h, p, ok)}
    PROVE  SameSessions' /\ NeverRefuses
<1>1. CASE calls' = {} \/ h # example
  <2>1. blobs' = blobs /\ NeverRefuses
    BY <1>1, NoPart DEF PathCall
  <2> QED BY <2>1 DEF SameSessions
<1>2. CASE calls' = {PathCall(o, h, p, ok)} /\ h = example
  <2> DEFINE c == PathCall(o, h, p, ok)
  <2>1. c.op = o /\ c.handler = example
    BY <1>2 DEF PathCall
  <2>2. Dispatch(c)
    BY <1>2, <2>1, OnePart
  <2> HIDE DEF c
  <2>3. blobs' = blobs
    BY <2>1, <2>2 DEF PathOp, Dispatch, Example!DeleteBlob, Example!StatPath, Example!Just
  <2>4. NeverRefuses
    BY <1>2, <2>1 DEF NeverRefuses, PathOp, c
  <2> QED BY <2>3, <2>4 DEF SameSessions
<1> QED BY <1>1, <1>2

-----------------------------------------------------------------------------
(***************************************************************************)
(* close.  The plugin knows the session, so it does not refuse; when it is *)
(* another plugin's, neither table of this one changes.                    *)
(***************************************************************************)
LEMMA CloseKeepsSame ==
    ASSUME Consistent, SameSessions, ExampleServes, NEW s \in SessionId, Close(s)
    PROVE  SameSessions' /\ NeverRefuses
<1>0. openSessions \in [Handler -> SUBSET SessionId]
  BY DEF Consistent, TypeOK
<1>1. CASE Refuse
  <2>1. blobs' = blobs /\ NeverRefuses
    BY <1>1, NoPart DEF Refuse
  <2> QED BY <1>1, <2>1 DEF Refuse, table, SameSessions
<1>2. ASSUME HasActionHandler(s, AnyFlag), NEW ok \in BOOLEAN,
             calls' = {SessionCall("close", sessions[s].handler, s, ok)},
             openSessions' = IF ok THEN [openSessions EXCEPT ![sessions[s].handler] = @ \ {s}]
                                   ELSE openSessions
      PROVE  SameSessions' /\ NeverRefuses
  <2>1. CASE sessions[s].handler # example
    <3>1. blobs' = blobs /\ NeverRefuses
      BY <1>2, <2>1, NoPart DEF SessionCall
    <3>2. openSessions'[example] = openSessions[example]
      BY <1>0, <1>2, <2>1, ExampleAssumption
    <3> QED BY <3>1, <3>2 DEF SameSessions
  <2>2. CASE sessions[s].handler = example
    <3> DEFINE c == SessionCall("close", sessions[s].handler, s, ok)
    <3>1. c.op = "close" /\ c.handler = example /\ c.session = s /\ c.ok = ok
      BY <2>2 DEF SessionCall
    <3>2. Dispatch(c) /\ c.ok = answer'.ok
      BY <1>2, <3>1, OnePart
    <3>3. s \in DOMAIN blobs
      BY <1>2, <2>2, ExampleAssumption DEF HasActionHandler, SameSessions, Consistent, OpenSessionsIndexSessions,
         SessionsOf, TypeOK, SessionInfo
    <3> HIDE DEF c
    <3>4. DOMAIN blobs' = DOMAIN blobs \ {s} /\ c.ok
      BY <3>1, <3>2, <3>3
         DEF Dispatch, Example!CloseBlob, Example!CloseFound, Example!GetSession, Example!Yes
    <3>5. openSessions'[example] = openSessions[example] \ {s}
      BY <1>0, <1>2, <2>2, <3>1, <3>4, ExampleAssumption
    <3>6. NeverRefuses
      BY <1>2, <3>4 DEF NeverRefuses, c
    <3> QED BY <3>4, <3>5, <3>6 DEF SameSessions
  <2> QED BY <2>1, <2>2
<1>3. CASE HasActionHandler(s, AnyFlag) /\ CloseRefused(s)
  BY <1>2, <1>3 DEF CloseRefused
<1>4. CASE HasActionHandler(s, AnyFlag) /\ CloseDone(s)
  BY <1>2, <1>4 DEF CloseDone
<1> QED BY <1>1, <1>3, <1>4 DEF Close

-----------------------------------------------------------------------------
(***************************************************************************)
(* open.  The plugin refuses every expiry, so its stale sessions stay in   *)
(* both tables, and the new id is in neither.                              *)
(***************************************************************************)
LEMMA OpenOnExample ==
    ASSUME Consistent, SameSessions, ExampleServes,
           NEW flags, NEW p \in Path, Example!CanHandleBlob(p),
           NEW session \in SessionId, session \notin DOMAIN sessions,
           NEW expired \in SUBSET Stale(example), NEW opened \in BOOLEAN,
           CleanUpAndOpen(example, flags, p, session, expired, opened)
    PROVE  SameSessions' /\ NeverRefuses
<1> DEFINE open == OpenCall(example, session, p, opened)
<1>1. open.op = "open" /\ open.handler = example /\ open.session = session
      /\ open.path = p /\ open.ok = opened
  BY DEF OpenCall
<1>2. calls' = ExpireCalls(example, expired) \cup {open}
  BY DEF CleanUpAndOpen
<1>3. \A d \in ExpireCalls(example, expired) : d.op = "expire" /\ d.handler = example
  BY DEF ExpireCalls, SessionCall
<1> HIDE DEF open
<1>4. MyCalls = calls' /\ \A c \in MyCalls : c.op # "expire" => c = open
  BY <1>1, <1>2, <1>3 DEF MyCalls
<1>5. /\ Dispatch(open)
      /\ opened = answer'.ok
      /\ \A d \in ExpireCalls(example, expired) : ~d.ok
  <2>1. MyCalls # {}
    BY <1>2, <1>4
  <2>2. PICK c \in MyCalls :
            /\ c.op # "expire"
            /\ Dispatch(c)
            /\ c.ok = answer'.ok
            /\ \A d \in MyCalls : d.op = "expire" => ~d.ok
    BY <2>1 DEF ExampleServes
  <2> QED BY <1>1, <1>2, <1>3, <1>4, <2>2
<1>6. expired = {}
  <2> SUFFICES ASSUME NEW s \in expired PROVE FALSE
    OBVIOUS
  <2>1. SessionCall("expire", example, s, s \in expired) \in ExpireCalls(example, expired)
    BY DEF ExpireCalls
  <2>2. SessionCall("expire", example, s, s \in expired).ok = (s \in expired)
    BY DEF SessionCall
  <2> QED BY <1>5, <2>1, <2>2
<1>7. session \notin DOMAIN blobs
  BY ExampleAssumption DEF SameSessions, Consistent, OpenSessionsIndexSessions, SessionsOf
<1>8. DOMAIN blobs' = DOMAIN blobs \cup {session} /\ opened
  BY <1>1, <1>5, <1>7 DEF Dispatch, Example!OpenBlob, Example!GetSession, Example!Yes
<1>9. openSessions'[example] = openSessions[example] \cup {session}
  BY <1>6, <1>8, ExampleAssumption DEF CleanUpAndOpen, Consistent, TypeOK
<1>10. NeverRefuses
  BY <1>1, <1>2, <1>3, <1>8 DEF NeverRefuses
<1> QED BY <1>8, <1>9, <1>10 DEF SameSessions

LEMMA OpenKeeps ==
    ASSUME Consistent, SameSessions, ExampleServes,
           NEW flags \in FlagSets, NEW p \in Path, Open(flags, p)
    PROVE  SameSessions' /\ NeverRefuses
<1>1. CASE calls' = {} /\ openSessions' = openSessions
  <2>1. blobs' = blobs /\ NeverRefuses
    BY <1>1, NoPart
  <2> QED BY <1>1, <2>1 DEF SameSessions
<1>2. ASSUME NEW willing \in Claims[p], NEW h \in Handler, IsHandler(h, willing),
             OpenWithSession(h, flags, p)
      PROVE  SameSessions' /\ NeverRefuses
  <2> DEFINE session == Candidate(FirstFree)
  <2>1. session \in SessionId /\ session \notin DOMAIN sessions
    BY <1>2, GetSessionFindsFree DEF OpenWithSession, Consistent
  <2>2. PICK expired \in SUBSET Stale(h), opened \in BOOLEAN :
            CleanUpAndOpen(h, flags, p, session, expired, opened)
    BY <1>2 DEF OpenWithSession
  <2> HIDE DEF session
  <2>3. CASE h = example
    <3>1. Example!CanHandleBlob(p)
      BY <1>2, <2>3, ExampleAssumption DEF IsHandler
    <3> QED BY <2>1, <2>2, <2>3, <3>1, OpenOnExample
  <2>4. CASE h # example
    <3>1. \A c \in calls' : c.handler # example
      BY <2>2, <2>4 DEF CleanUpAndOpen, ExpireCalls, SessionCall, OpenCall
    <3>2. blobs' = blobs /\ NeverRefuses
      BY <3>1, NoPart
    <3>3. openSessions'[example] = openSessions[example]
      BY <2>2, <2>4, ExampleAssumption DEF CleanUpAndOpen, Consistent, TypeOK
    <3> QED BY <3>2, <3>3 DEF SameSessions
  <2> QED BY <2>3, <2>4
<1>3. \/ calls' = {} /\ openSessions' = openSessions
      \/ \E willing \in Claims[p], h \in Handler :
            IsHandler(h, willing) /\ OpenWithSession(h, flags, p)
  BY DEF Open, OpenOn, Refuse, table, OpenWithoutSession, OpenWithoutMode
<1> QED BY <1>1, <1>2, <1>3

-----------------------------------------------------------------------------
LEMMA StepKeeps ==
    ASSUME Consistent, SameSessions, ComposedNext
    PROVE  SameSessions' /\ NeverRefuses
<1>0. Next /\ ExampleServes
  BY DEF ComposedNext
<1>1. CASE \/ \E h \in Handler : RegisterHandler(h)
           \/ RegisterNull
           \/ Tick
  <2>1. calls' = {} /\ openSessions' = openSessions
    BY <1>1 DEF RegisterHandler, RegisterNull, Refuse, Tick, table
  <2>2. blobs' = blobs /\ NeverRefuses
    BY <1>0, <2>1, NoPart
  <2> QED BY <2>1, <2>2 DEF SameSessions
<1>2. CASE \E flags \in FlagSets, p \in Path : Open(flags, p)
  BY <1>0, <1>2, OpenKeeps
<1>3. CASE \E s \in SessionId : \/ Read(s) \/ Write(s) \/ WriteMeta(s)
                                \/ Commit(s) \/ SessionStat(s)
  <2>1. PICK s \in SessionId : \/ Read(s) \/ Write(s) \/ WriteMeta(s)
                               \/ Commit(s) \/ SessionStat(s)
    BY <1>3
  <2>2. PICK o \in ForwardOp, m \in SUBSET FlagBit : Forward(o, s, m)
    BY <2>1 DEF Read, Write, WriteMeta, Commit, SessionStat, ForwardOp, FlagBit, AnyFlag
  <2> QED BY <1>0, <2>2, ForwardKeeps
<1>4. CASE \E s \in SessionId : Close(s)
  BY <1>0, <1>4, CloseKeepsSame
<1>5. CASE \E p \in Path : DeleteBlob(p)
  <2>1. openSessions' = openSessions
    BY <1>5 DEF DeleteBlob, DeleteBlobOn, Refuse, table
  <2>2. \E h \in Handler, p \in Path, ok \in BOOLEAN :
            calls' = {} \/ calls' = {PathCall("deleteBlob", h, p, ok)}
    BY <1>5, ExampleAssumption DEF DeleteBlob, DeleteBlobOn, Refuse
  <2> QED BY <1>0, <2>1, <2>2, PathCallKeeps DEF PathOp
<1>6. CASE \E p \in Path : Stat(p)
  <2>1. openSessions' = openSessions
    BY <1>6 DEF Stat, StatOn, Refuse, table
  <2>2. \E h \in Handler, p \in Path, ok \in BOOLEAN :
            calls' = {} \/ calls' = {PathCall("statPath", h, p, ok)}
    BY <1>6, ExampleAssumption DEF Stat, StatOn, Refuse
  <2> QED BY <1>0, <2>1, <2>2, PathCallKeeps DEF PathOp
<1> QED BY <1>0, <1>1, <1>2, <1>3, <1>4, <1>5, <1>6 DEF Next

LEMMA InitSame == ComposedInit => SameSessions
BY ExampleAssumption DEF ComposedInit, Init, EmptyTable, Example!ExampleInit, SameSessions

LEMMA NextSame ==
    Consistent /\ SameSessions /\ [ComposedNext]_composedVars => SameSessions'
<1>1. UNCHANGED composedVars /\ SameSessions => SameSessions'
  BY DEF composedVars, vars, SameSessions
<1> QED BY <1>1, StepKeeps

LEMMA NextNeverRefuses ==
    Consistent /\ SameSessions /\ [ComposedNext]_composedVars => [NeverRefuses]_composedVars
BY StepKeeps

\* manager.cpp and example.cpp, open and close: the two tables of sessions are
\* the same after any sequence of commands.
THEOREM TablesAgree == ComposedSpec => []SameSessions
BY ComposedConsistent, InitSame, NextSame, PTL DEF ComposedSpec

\* The plugin's own checks, for a session that it has already and for one that
\* it does not have, never turn the manager away.
THEOREM PluginServes == ComposedSpec => ExampleNeverRefuses
BY ComposedConsistent, TablesAgree, NextNeverRefuses, PTL
   DEF ComposedSpec, ExampleNeverRefuses, NeverRefuses
=============================================================================
