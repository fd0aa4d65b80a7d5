---------------------------- MODULE BlobClients ----------------------------
(***************************************************************************)
(* Clients of the blob service as processes, over a transport that loses   *)
(* requests and replies.  The repository's README tells clients to send    *)
(* with retries: a client that hears nothing sends its request again, and  *)
(* cannot know whether the first one was served.                           *)
(*                                                                         *)
(* The clients are external and do what the README asks of them: open a    *)
(* blob, use the session, close it.  A request that is lost on the way to  *)
(* the BMC is no step.  Besides the clients that are followed there are    *)
(* any number of strangers, which open sessions and are not heard of again.*)
(***************************************************************************)
EXTENDS BlobService

CONSTANT
    Client

None     == -1           \* the session of a client that has none
Stranger == "stranger"   \* whoever is not in Client

ASSUME ClientAssumption == Stranger \notin Client

VARIABLES
    asks,      \* asks[c]: the request that client c waits for a reply to
    holds,     \* holds[c]: the session that client c takes for its own
    first,     \* first[c]: the code of the reply to asks[c] that was lost first
    owner,     \* history: the client whose open began each open session
    tried      \* history: tried[c], the ids that getSession has tried since it
               \* gave a session to client c last

clientVars == <<serviceVars, asks, holds, first, owner, tried>>

ClientsInit ==
    /\ ServiceInit
    /\ asks = [c \in Client |-> NoRequest]
    /\ holds = [c \in Client |-> None]
    /\ first = [c \in Client |-> "none"]
    /\ owner = [s \in {} |-> {}]
    /\ tried = [c \in Client |-> {}]

(***************************************************************************)
(* A client has one request under way at a time, opens a blob when it has  *)
(* no session and sends the others to the session that it has.             *)
(***************************************************************************)
Suits(c, req) ==
    IF req.cmd = "open" THEN holds[c] = None
    ELSE holds[c] # None /\ req.session = holds[c]

Ask(c) ==
    /\ asks[c] = NoRequest
    /\ \E req \in Request :
          /\ Suits(c, req)
          /\ asks' = [asks EXCEPT ![c] = req]
    /\ UNCHANGED <<serviceVars, holds, first, owner, tried>>

(***************************************************************************)
(* The histories.  getSession tries the ids from `next' on and leaves      *)
(* `next' behind the last one.                                             *)
(***************************************************************************)
TriedNow ==
    {s \in SessionId :
        (s - next) % SessionCount < (next' - next) % SessionCount}

OpenGranted == request'.cmd = "open" /\ Granted("open")

Record(c) ==
    /\ owner' = [s \in DOMAIN sessions' |->
                    IF OpenGranted /\ reply'.session = s THEN c ELSE owner[s]]
    /\ tried' = [d \in Client |->
                    IF d = c /\ OpenGranted THEN {} ELSE tried[d] \cup TriedNow]

(***************************************************************************)
(* The request is served and the client hears the reply.  A client whose   *)
(* close is answered with an error has no way to tell why, and forgets the *)
(* session, too.                                                           *)
(***************************************************************************)
HeldAfter(c) ==
    IF asks[c].cmd = "open" /\ reply'.cc = "success" THEN reply'.session
    ELSE IF asks[c].cmd = "close" THEN None
    ELSE holds[c]

Hear(c) ==
    /\ asks[c] # NoRequest
    /\ Serve(asks[c])
    /\ asks' = [asks EXCEPT ![c] = NoRequest]
    /\ holds' = [holds EXCEPT ![c] = HeldAfter(c)]
    /\ first' = [first EXCEPT ![c] = "none"]
    /\ Record(c)

(***************************************************************************)
(* The request is served and the reply is lost.  The client will send it   *)
(* again.                                                                  *)
(***************************************************************************)
LoseReply(c) ==
    /\ asks[c] # NoRequest
    /\ Serve(asks[c])
    /\ first' = [first EXCEPT ![c] = IF @ = "none" THEN reply'.cc ELSE @]
    /\ Record(c)
    /\ UNCHANGED <<asks, holds>>

\* The client goes away, with or without a request under way.
GoAway(c) ==
    /\ asks' = [asks EXCEPT ![c] = NoRequest]
    /\ holds' = [holds EXCEPT ![c] = None]
    /\ first' = [first EXCEPT ![c] = "none"]
    /\ UNCHANGED <<serviceVars, owner, tried>>

StrangerOpens ==
    /\ \E req \in Request : req.cmd = "open" /\ Serve(req)
    /\ Record(Stranger)
    /\ UNCHANGED <<asks, holds, first>>

Elsewhere ==
    /\ Background
    /\ UNCHANGED <<asks, holds, first, owner, tried>>

ClientsNext ==
    \/ \E c \in Client : Ask(c)
    \/ \E c \in Client : Hear(c)
    \/ \E c \in Client : LoseReply(c)
    \/ \E c \in Client : GoAway(c)
    \/ StrangerOpens
    \/ Elsewhere

ClientsSpec == ClientsInit /\ [][ClientsNext]_clientVars

(***************************************************************************)
(* Fairness.  Time passes.  Clients always have something to ask and do    *)
(* not keep a session for ever; a client that goes on sending a command    *)
(* gets through with it now and then, also to a plugin that agrees to what *)
(* it is asked.                                                            *)
(***************************************************************************)
AskClose(c) == Ask(c) /\ asks'[c].cmd = "close"

HearAgreed(c, cmd) ==
    /\ asks[c].cmd = cmd
    /\ Hear(c)
    /\ \A call \in calls' : call.ok

ClientsFairness ==
    /\ WF_clientVars(Elsewhere)
    /\ \A c \in Client :
          /\ WF_clientVars(Ask(c))
          /\ SF_clientVars(AskClose(c))
          /\ \A cmd \in {"open", "read", "close"} :
                SF_clientVars(HearAgreed(c, cmd))

ClientsFairSpec == ClientsSpec /\ ClientsFairness
-----------------------------------------------------------------------------
ClientsTypeOK ==
    /\ ServiceTypeOK
    /\ asks \in [Client -> Request \cup {NoRequest}]
    /\ holds \in [Client -> SessionId \cup {None}]
    /\ first \in [Client -> Code \cup {"none"}]
    /\ owner \in [DOMAIN sessions -> Client \cup {Stranger}]
    /\ tried \in [Client -> SUBSET SessionId]

\* A client that lost its session, to an expiry or to a close of its own that
\* it did not hear of, may hold on to the id.  That id comes to be somebody
\* else's session only after getSession has tried every other id since.
ForeignIdsAreOld ==
    \A c \in Client :
        holds[c] \in DOMAIN sessions /\ owner[holds[c]] # c =>
            SessionId \ {holds[c]} \subseteq tried[c]

\* The reply to an open is lost and the client opens again, or the client goes
\* away: nobody knows the session that is left behind, and nobody uses it, yet
\* it does not stay for ever, unless open runs out of ids before that.
Unheld(s) == s \in DOMAIN sessions /\ \A c \in Client : holds[c] # s

LostSessionsReclaimed ==
    \A s \in SessionId : Unheld(s) ~> (~Unheld(s) \/ GetSessionFails)

\* README, "Idempotent Commands": "duplicate calls should return the same
\* value if repeated".  Here for a close whose first reply, a success, was lost.
RepeatedCloseAgrees ==
    [][\A c \in Client :
          asks[c].cmd = "close" /\ first[c] = "success" /\ Hear(c) =>
              reply'.cc = "success"]_clientVars
=============================================================================
