-------------------------- MODULE ExampleOnManager --------------------------
(***************************************************************************)
(* The blob manager with the example plugin behind it, beside plugins      *)
(* about which nothing is known.  Each manager method and the calls that   *)
(* it makes are one step, as in BlobManager; the answers that BlobManager  *)
(* leaves open are the ones that ExampleHandler gives.                     *)
(***************************************************************************)
EXTENDS BlobManager

CONSTANTS
    example,        \* the plugin that is an ExampleBlobHandler
    supportedPath, kBufferSize, WordModulus, Byte, Offset, Size

VARIABLES blobs, answer, copied

Example == INSTANCE ExampleHandler WITH Session <- SessionId, BlobId <- Path

ASSUME ExampleAssumption ==
    /\ example \in Handler
    /\ \A p \in Path : \A willing \in Claims[p] :
          example \in willing <=> Example!CanHandleBlob(p)

composedVars == <<vars, blobs, answer, copied>>

ComposedInit == Init /\ Example!ExampleInit

(***************************************************************************)
(* The plugin's part in a call.  The manager does not look at offsets,     *)
(* sizes or data.                                                          *)
(***************************************************************************)
Dispatch(c) ==
    \/ /\ c.op = "open"
       /\ Example!OpenBlob(c.session, c.path)
    \/ /\ c.op = "read"
       /\ \E o \in Offset, n \in Size : Example!ReadBlob(c.session, o, n)
    \/ /\ c.op = "write"
       /\ \E o \in Offset, d \in Example!Data : Example!WriteBlob(c.session, o, d)
    \/ /\ c.op = "close"
       /\ Example!CloseBlob(c.session)
    \/ /\ c.op = "stat"
       /\ Example!StatSession(c.session, TRUE)
    \/ c.op = "writeMeta" /\ Example!WriteMeta(c.session)
    \/ c.op = "commit" /\ Example!Commit(c.session)
    \/ c.op = "deleteBlob" /\ Example!DeleteBlob(c.path)
    \/ c.op = "statPath" /\ Example!StatPath(c.path)

(***************************************************************************)
(* The calls of expire that come before an open are refused and leave the  *)
(* plugin as it was.                                                       *)
(***************************************************************************)
MyCalls == {c \in calls' : c.handler = example}

ExampleServes ==
    \/ /\ MyCalls = {}
       /\ UNCHANGED <<blobs, answer, copied>>
    \/ \E c \in MyCalls :
          /\ c.op # "expire"
          /\ Dispatch(c)
          /\ c.ok = answer'.ok
          /\ \A d \in MyCalls : d.op = "expire" => ~d.ok

ComposedNext == Next /\ ExampleServes

ComposedSpec == ComposedInit /\ [][ComposedNext]_composedVars
-----------------------------------------------------------------------------
\* The plugin has exactly the sessions that the manager has for it.  Neither
\* looks at the other's map: they agree because of what each does when the
\* other's answer is false.
SameSessions == DOMAIN blobs = openSessions[example]

\* The plugin never refuses an open that reaches it ("This session is already
\* active") and never fails a close: the manager never passes it the id of a
\* session that it still has, nor one that it does not have.
ExampleNeverRefuses ==
    [][\A c \in calls' :
          c.handler = example /\ c.op \in {"open", "close", "stat"} => c.ok]_composedVars
=============================================================================
