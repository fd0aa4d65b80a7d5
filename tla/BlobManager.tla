---------------------------- MODULE BlobManager ----------------------------
(***************************************************************************)
(* The blob manager of phosphor-ipmi-blobs (manager.hpp, manager.cpp): the *)
(* table of sessions that clients have open on blobs, and the routing of   *)
(* every command to the plugin ("handler") that owns the blob.             *)
(*                                                                         *)
(* The IPMI daemon runs commands one at a time, so each manager method is  *)
(* one atomic step.  Clients are not modelled as processes: at any moment  *)
(* any client may issue any method with any session id or blob id, which   *)
(* includes every interleaving of the command sequences of several clients.*)
(*                                                                         *)
(* Plugins are shared libraries behind GenericBlobInterface and are        *)
(* external.  Each virtual call they receive may answer true or false.     *)
(* The calls made by the last step, with the answers, are in `calls'.      *)
(***************************************************************************)
EXTENDS Integers, FiniteSets, Sequences, Functions

CONSTANTS
    Handler,        \* the plugins that may be registered
    Path,           \* the blob ids that clients may name
    SessionCount,   \* the number of session ids; 2^16 in the code (uint16_t)
    sessionTimeout, \* ticks without activity after which a session is stale
    FlagSets,       \* the open flags that clients may pass, each a set of bits
    Claims          \* Claims[p]: the sets of plugins that may be the ones whose
                    \* canHandleBlob(p) answers true when they are asked

(***************************************************************************)
(* A flag word is the set of its bits.  "other" stands for the reserved    *)
(* and blob-specific bits, which the manager stores but never tests alone. *)
(***************************************************************************)
FlagBit   == {"read", "write", "other"}
ReadWrite == {"read", "write"}
AnyFlag   == FlagBit       \* numeric_limits<uint16_t>::max(), the default mask

ASSUME SessionCountAssumption == SessionCount \in Nat /\ SessionCount > 1
ASSUME TimeoutAssumption      == sessionTimeout \in Nat
ASSUME FlagSetsAssumption     == FlagSets \subseteq SUBSET FlagBit
ASSUME ClaimsAssumption       == Claims \in [Path -> SUBSET (SUBSET Handler)]

VARIABLES
    handlers,      \* the registered plugins, in the order of registration
    next,          \* the next session id to try
    sessions,      \* the open sessions: a partial function from ids to records
    openFiles,     \* a partial function from blob ids to their open counts
    openSessions,  \* the sessions of each plugin (no entry reads as {})
    calls          \* the plugin calls that the last step made

vars == <<handlers, next, sessions, openFiles, openSessions, calls>>
table == <<next, sessions, openFiles, openSessions>>

SessionId == 0 .. (SessionCount - 1)

(***************************************************************************)
(* SessionInfo.  The code keeps lastActionTime and compares its distance   *)
(* to now with sessionTimeout; idle is that distance, cut off at the       *)
(* timeout because no longer distance is ever told apart.                  *)
(***************************************************************************)
SessionInfo == [blobId  : Path,
                handler : Handler,
                flags   : SUBSET FlagBit,
                idle    : 0 .. sessionTimeout]

(***************************************************************************)
(* GenericBlobInterface: the calls whose answers matter to the manager.    *)
(***************************************************************************)
ForwardOp == {"read", "write", "writeMeta", "commit", "stat"}
SessionOp == ForwardOp \cup {"close", "expire"}
PathOp    == {"deleteBlob", "statPath"}

Call ==
    [op : SessionOp, handler : Handler, session : SessionId, ok : BOOLEAN]
      \cup
    [op : PathOp, handler : Handler, path : Path, ok : BOOLEAN]
      \cup
    [op : {"open"}, handler : Handler, session : SessionId, path : Path,
     ok : BOOLEAN]

SessionCall(o, h, s, r) ==
    [op |-> o, handler |-> h, session |-> s, ok |-> r]

PathCall(o, h, p, r) ==
    [op |-> o, handler |-> h, path |-> p, ok |-> r]

OpenCall(h, s, p, r) ==
    [op |-> "open", handler |-> h, session |-> s, path |-> p, ok |-> r]
-----------------------------------------------------------------------------
(***************************************************************************)
(* getHandler: the first registered plugin that answers canHandleBlob with *)
(* true, when `willing' are the ones that would.                           *)
(***************************************************************************)
IsHandler(h, willing) ==
    \E i \in DOMAIN handlers :
        /\ handlers[i] = h
        /\ h \in willing
        /\ \A j \in 1 .. (i - 1) : handlers[j] \notin willing

NoHandler(willing) ==
    \A i \in DOMAIN handlers : handlers[i] \notin willing

(***************************************************************************)
(* getSession: ids are tried from `next' on, modulo 2^16, until one is not *)
(* in use; the loop ends after 0xffff tries, one fewer than there are ids. *)
(***************************************************************************)
Tries == 0 .. (SessionCount - 2)

Candidate(i) == (next + i) % SessionCount

FreeTries == {i \in Tries : Candidate(i) \notin DOMAIN sessions}

GetSessionFails == FreeTries = {}

FirstFree == CHOOSE i \in FreeTries : \A j \in FreeTries : i <= j

\* Slip: the counter is wider than the ids and does not wrap.
NextAfterUnwrapped(tries) == next + tries

\* Slip: the counter stays at the id that was given out.
NextAfterGiven(tries) == (next + tries - 1) % SessionCount

NextAfter(tries) == (next + tries) % SessionCount

(***************************************************************************)
(* getActionHandler: the session is open and has one of the flags wanted.  *)
(***************************************************************************)
HasActionHandler(s, requiredFlags) ==
    /\ s \in DOMAIN sessions
    /\ sessions[s].flags \cap requiredFlags # {}

Touched(s) == [sessions EXCEPT ![s].idle = 0]

(***************************************************************************)
(* cleanUpStaleSessions looks at the sessions of one plugin only.          *)
(***************************************************************************)
IsStale(s) == s \in DOMAIN sessions /\ sessions[s].idle >= sessionTimeout

Stale(h) == {s \in openSessions[h] : IsStale(s)}

\* Every stale session is tried; the plugin agrees to expire those in expired.
ExpireCalls(h, expired) ==
    {SessionCall("expire", h, s, s \in expired) : s \in Stale(h)}

(***************************************************************************)
(* eraseSession, for every session of E: the counts of their blobs are     *)
(* decremented and a count that reaches 0 is dropped from the map.         *)
(***************************************************************************)
OpenCount(p) == IF p \in DOMAIN openFiles THEN openFiles[p] ELSE 0

SessionsWithout(E) == Restrict(sessions, DOMAIN sessions \ E)

BlobsOf(E) == {sessions[s].blobId : s \in E}

\* Slip: the first session to go takes the blob's whole count with it.
FilesWithoutCount(E) == Restrict(openFiles, DOMAIN openFiles \ BlobsOf(E))

FilesWithout(E) ==
    LET left(p) == OpenCount(p) - Cardinality({s \in E : sessions[s].blobId = p})
        kept == {p \in DOMAIN openFiles \cup BlobsOf(E) :
                    p \in BlobsOf(E) => left(p) # 0}
    IN  [p \in kept |-> left(p)]

Put(f, x, v) == [y \in DOMAIN f \cup {x} |-> IF y = x THEN v ELSE f[y]]

CountUp(f, p) == Put(f, p, (IF p \in DOMAIN f THEN f[p] ELSE 0) + 1)
-----------------------------------------------------------------------------
(***************************************************************************)
(* The BlobManager constructor: `next' starts at the time of day.          *)
(***************************************************************************)
EmptyTable ==
    /\ next \in SessionId
    /\ sessions = [s \in {} |-> {}]
    /\ openFiles = [p \in {} |-> 0]
    /\ openSessions = [h \in Handler |-> {}]
    /\ calls = {}

Init == handlers = <<>> /\ EmptyTable

(***************************************************************************)
(* registerHandler.  The manager owns the pointer, so no plugin object can *)
(* be registered twice.  A null pointer is refused and changes nothing.    *)
(***************************************************************************)
\* Slip: the newest plugin is asked first.
RegisterHandlerInFront(h) ==
    /\ h \notin Range(handlers)
    /\ handlers' = <<h>> \o handlers
    /\ calls' = {}
    /\ UNCHANGED table

RegisterHandler(h) ==
    /\ h \notin Range(handlers)
    /\ handlers' = Append(handlers, h)
    /\ calls' = {}
    /\ UNCHANGED table

\* A method that returns false, or a value, and does nothing else.
Refuse ==
    /\ calls' = {}
    /\ UNCHANGED <<handlers, table>>

RegisterNull == Refuse

(***************************************************************************)
(* open.  The session id is taken, and `next' moved, before the flags are  *)
(* looked at and before the stale sessions of the plugin are cleaned up.   *)
(***************************************************************************)
OpenWithoutSession ==
    /\ GetSessionFails
    /\ next' = NextAfter(SessionCount - 1)
    /\ calls' = {}
    /\ UNCHANGED <<handlers, sessions, openFiles, openSessions>>

OpenWithoutMode(flags) ==
    /\ ~GetSessionFails
    /\ flags \cap ReadWrite = {}
    /\ next' = NextAfter(FirstFree + 1)
    /\ calls' = {}
    /\ UNCHANGED <<handlers, sessions, openFiles, openSessions>>

\* Slip: a stale session is erased although the plugin refused to expire it.
CleanUpRegardlessAndOpen(h, flags, p, session, expired, opened) ==
    /\ calls' = ExpireCalls(h, expired) \cup {OpenCall(h, session, p, opened)}
    /\ opened
    /\ sessions' = Put(SessionsWithout(Stale(h)), session,
                       [blobId |-> p, handler |-> h,
                        flags |-> flags, idle |-> 0])
    /\ openSessions' = [openSessions EXCEPT
                          ![h] = (@ \ Stale(h)) \cup {session}]
    /\ openFiles' = CountUp(FilesWithout(Stale(h)), p)
    /\ UNCHANGED handlers

\* Slip: the new session is not entered in the plugin's set.
OpenForgetsIndex(h, flags, p, session, expired, opened) ==
    /\ calls' = ExpireCalls(h, expired) \cup {OpenCall(h, session, p, opened)}
    /\ opened
    /\ sessions' = Put(SessionsWithout(expired), session,
                       [blobId |-> p, handler |-> h,
                        flags |-> flags, idle |-> 0])
    /\ openSessions' = [openSessions EXCEPT ![h] = @ \ expired]
    /\ openFiles' = CountUp(FilesWithout(expired), p)
    /\ UNCHANGED handlers

\* Slip: the session is entered before the plugin's answer is looked at.
OpenRefusedRemains(h, flags, p, session, expired, opened) ==
    /\ calls' = ExpireCalls(h, expired) \cup {OpenCall(h, session, p, opened)}
    /\ sessions' = Put(SessionsWithout(expired), session,
                       [blobId |-> p, handler |-> h,
                        flags |-> flags, idle |-> 0])
    /\ openSessions' = [openSessions EXCEPT
                          ![h] = (@ \ expired) \cup {session}]
    /\ openFiles' = CountUp(FilesWithout(expired), p)
    /\ UNCHANGED handlers

CleanUpAndOpen(h, flags, p, session, expired, opened) ==
    /\ calls' = ExpireCalls(h, expired) \cup {OpenCall(h, session, p, opened)}
    /\ IF opened
       THEN /\ sessions' = Put(SessionsWithout(expired), session,
                               [blobId |-> p, handler |-> h,
                                flags |-> flags, idle |-> 0])
            /\ openSessions' = [openSessions EXCEPT
                                  ![h] = (@ \ expired) \cup {session}]
            /\ openFiles' = CountUp(FilesWithout(expired), p)
       ELSE /\ sessions' = SessionsWithout(expired)
            /\ openSessions' = [openSessions EXCEPT ![h] = @ \ expired]
            /\ openFiles' = FilesWithout(expired)
    /\ UNCHANGED handlers

\* Slip: the flags are not verified.
OpenWithSessionAnyMode(h, flags, p) ==
    /\ ~GetSessionFails
    /\ next' = NextAfter(FirstFree + 1)
    /\ \E expired \in SUBSET Stale(h), opened \in BOOLEAN :
          CleanUpAndOpen(h, flags, p, Candidate(FirstFree), expired, opened)

OpenWithSession(h, flags, p) ==
    /\ ~GetSessionFails
    /\ flags \cap ReadWrite # {}
    /\ next' = NextAfter(FirstFree + 1)
    /\ \E expired \in SUBSET Stale(h), opened \in BOOLEAN :
          CleanUpAndOpen(h, flags, p, Candidate(FirstFree), expired, opened)

OpenOn(h, flags, p) ==
    \/ OpenWithoutSession
    \/ OpenWithoutMode(flags)
    \/ OpenWithSession(h, flags, p)

Open(flags, p) ==
    \E willing \in Claims[p] :
        \/ NoHandler(willing) /\ Refuse
        \/ \E h \in Handler : IsHandler(h, willing) /\ OpenOn(h, flags, p)

(***************************************************************************)
(* stat by session, commit, writeMeta, read and write: the session's       *)
(* timer restarts and the call is passed on.                               *)
(***************************************************************************)
Forward(o, s, requiredFlags) ==
    \/ /\ ~HasActionHandler(s, requiredFlags)
       /\ Refuse
    \/ /\ HasActionHandler(s, requiredFlags)
       /\ sessions' = Touched(s)
       /\ \E ok \in BOOLEAN :
             calls' = {SessionCall(o, sessions[s].handler, s, ok)}
       /\ UNCHANGED <<handlers, next, openFiles, openSessions>>

Read(s)        == Forward("read", s, {"read"})
Write(s)       == Forward("write", s, {"write"})
WriteMeta(s)   == Forward("writeMeta", s, AnyFlag)
Commit(s)      == Forward("commit", s, AnyFlag)
SessionStat(s) == Forward("stat", s, AnyFlag)

(***************************************************************************)
(* close.  When the plugin refuses, the session stays open, and its timer  *)
(* has restarted.                                                          *)
(***************************************************************************)
\* Slip: the session is erased before the plugin's answer is looked at.
CloseRefusedErases(s) ==
    /\ sessions' = SessionsWithout({s})
    /\ openFiles' = FilesWithout({s})
    /\ openSessions' = [openSessions EXCEPT ![sessions[s].handler] = @ \ {s}]
    /\ calls' = {SessionCall("close", sessions[s].handler, s, FALSE)}
    /\ UNCHANGED <<handlers, next>>

CloseRefused(s) ==
    /\ sessions' = Touched(s)
    /\ calls' = {SessionCall("close", sessions[s].handler, s, FALSE)}
    /\ UNCHANGED <<handlers, next, openFiles, openSessions>>

\* Slip: the session is left in the plugin's set.
CloseForgetsIndex(s) ==
    /\ sessions' = SessionsWithout({s})
    /\ openFiles' = FilesWithout({s})
    /\ calls' = {SessionCall("close", sessions[s].handler, s, TRUE)}
    /\ UNCHANGED <<handlers, next, openSessions>>

CloseDone(s) ==
    /\ sessions' = SessionsWithout({s})
    /\ openFiles' = FilesWithout({s})
    /\ openSessions' = [openSessions EXCEPT ![sessions[s].handler] = @ \ {s}]
    /\ calls' = {SessionCall("close", sessions[s].handler, s, TRUE)}
    /\ UNCHANGED <<handlers, next>>

Close(s) ==
    \/ ~HasActionHandler(s, AnyFlag) /\ Refuse
    \/ HasActionHandler(s, AnyFlag) /\ CloseRefused(s)
    \/ HasActionHandler(s, AnyFlag) /\ CloseDone(s)

(***************************************************************************)
(* deleteBlob.  Looking the count up with operator[] enters a zero count   *)
(* for a blob that has none.                                               *)
(***************************************************************************)
DeleteBlobOn(h, p) ==
    /\ openFiles' = IF p \in DOMAIN openFiles THEN openFiles
                                              ELSE Put(openFiles, p, 0)
    /\ \/ /\ OpenCount(p) > 0
          /\ calls' = {}
       \/ /\ ~(OpenCount(p) > 0)
          /\ \E ok \in BOOLEAN : calls' = {PathCall("deleteBlob", h, p, ok)}
    /\ UNCHANGED <<handlers, next, sessions, openSessions>>

DeleteBlob(p) ==
    \E willing \in Claims[p] :
        \/ NoHandler(willing) /\ Refuse
        \/ \E h \in Handler : IsHandler(h, willing) /\ DeleteBlobOn(h, p)

(***************************************************************************)
(* stat by path.                                                           *)
(***************************************************************************)
StatOn(h, p) ==
    /\ \E ok \in BOOLEAN : calls' = {PathCall("statPath", h, p, ok)}
    /\ UNCHANGED <<handlers, table>>

Stat(p) ==
    \E willing \in Claims[p] :
        \/ NoHandler(willing) /\ Refuse
        \/ \E h \in Handler : IsHandler(h, willing) /\ StatOn(h, p)

(***************************************************************************)
(* The steady clock advances.                                              *)
(***************************************************************************)
Older(i) == IF i < sessionTimeout THEN i + 1 ELSE i

Tick ==
    /\ sessions' = [s \in DOMAIN sessions |->
                       [sessions[s] EXCEPT !.idle = Older(@)]]
    /\ calls' = {}
    /\ UNCHANGED <<handlers, next, openFiles, openSessions>>

Next ==
    \/ \E h \in Handler : RegisterHandler(h)
    \/ RegisterNull
    \/ \E flags \in FlagSets, p \in Path : Open(flags, p)
    \/ \E s \in SessionId : Read(s)
    \/ \E s \in SessionId : Write(s)
    \/ \E s \in SessionId : WriteMeta(s)
    \/ \E s \in SessionId : Commit(s)
    \/ \E s \in SessionId : SessionStat(s)
    \/ \E s \in SessionId : Close(s)
    \/ \E p \in Path : DeleteBlob(p)
    \/ \E p \in Path : Stat(p)
    \/ Tick

Spec == Init /\ [][Next]_vars
-----------------------------------------------------------------------------
(***************************************************************************)
(* Fairness.  Clients send with retries: requests to open each blob keep   *)
(* coming, and as long as a plugin can be reached now and then, opens that *)
(* reach it do too, among them ones for which it agrees to expire what it  *)
(* is asked to.  An open that fails for another reason is sent again.      *)
(***************************************************************************)
OpenReaching(h) ==
    /\ \E flags \in FlagSets, p \in Path : Open(flags, p)
    /\ \E c \in calls' : c.op = "open" /\ c.handler = h
    /\ \A c \in calls' : c.op = "expire" => c.ok

Fairness ==
    /\ WF_vars(Tick)
    /\ \A p \in Path : WF_vars(\E flags \in FlagSets : Open(flags, p))
    /\ \A h \in Handler : SF_vars(OpenReaching(h))

FairSpec == Spec /\ Fairness
-----------------------------------------------------------------------------
TypeOK ==
    /\ handlers \in Seq(Handler)
    /\ next \in SessionId
    /\ DOMAIN sessions \subseteq SessionId
    /\ sessions \in [DOMAIN sessions -> SessionInfo]
    /\ DOMAIN openFiles \subseteq Path
    /\ openFiles \in [DOMAIN openFiles -> Nat]
    /\ openSessions \in [Handler -> SUBSET SessionId]
    /\ calls \subseteq Call

(***************************************************************************)
(* The three tables describe the same set of sessions.  openFiles decides  *)
(* whether a blob may be deleted and openSessions which sessions an open   *)
(* expires, yet open, close and expiry update them separately.             *)
(***************************************************************************)
SessionsOn(p) == {s \in DOMAIN sessions : sessions[s].blobId = p}

SessionsOf(h) == {s \in DOMAIN sessions : sessions[s].handler = h}

\* deleteBlob's open count of a blob is the number of sessions open on it,
\* through every failed open, refused close, failed expiry and delete.
OpenFilesCountSessions ==
    \A p \in Path : OpenCount(p) = Cardinality(SessionsOn(p))

\* The sessions that cleanUpStaleSessions looks at for a plugin are exactly
\* the ones routed to it, so sessions[sessionId] never invents an entry.
OpenSessionsIndexSessions ==
    \A h \in Handler : openSessions[h] = SessionsOf(h)

\* A session that open() let in can always be closed: getActionHandler's
\* default mask never turns its owner away.
OpenSessionsAreUsable ==
    \A s \in DOMAIN sessions : HasActionHandler(s, AnyFlag)

\* When plugins do not change their minds about the blobs they handle, all
\* the sessions on one blob belong to one plugin: a plugin registered later
\* never takes over a blob that an earlier one serves.
BlobHasOneHandler ==
    \A s, t \in DOMAIN sessions :
        sessions[s].blobId = sessions[t].blobId =>
            sessions[s].handler = sessions[t].handler

(***************************************************************************)
(* The manager implements the contract it has with its plugins: what the   *)
(* plugins can tell from the calls they receive is what sessions records.  *)
(***************************************************************************)
Contract == INSTANCE HandlerContract WITH
    live <- [s \in DOMAIN sessions |->
                [handler |-> sessions[s].handler,
                 path    |-> sessions[s].blobId,
                 quiet   |-> sessions[s].idle]]

\* Every call a plugin receives is one the Handler Calling Contract allows,
\* and the manager's sessions are always the ones its plugins hold open.
HonoursContract == Contract!Spec
-----------------------------------------------------------------------------
TableFull == DOMAIN sessions = SessionId

\* A session whose client went away does not stay for ever: it is freed, or
\* somebody uses it, unless every session id is in use before that.
StaleSessionsReclaimed ==
    \A s \in SessionId : IsStale(s) ~> (~IsStale(s) \/ TableFull)

(***************************************************************************)
(* Statements of the documentation and of comments in the code that the    *)
(* code does not live up to.                                               *)
(***************************************************************************)
\* README, "Stale Sessions": the ids of stale sessions are freed from the
\* open command, so a stale session does not stay stale for ever.
StaleSessionsFreed ==
    \A s \in SessionId : IsStale(s) ~> ~IsStale(s)

\* manager.cpp, open and getSession: getSession fails only when no session
\* id is available.
FailsOnlyWhenFull == GetSessionFails => TableFull
=============================================================================
