-------------------------- MODULE HandlerContract --------------------------
(***************************************************************************)
(* What the blob manager promises a plugin, seen from the plugin: which    *)
(* virtual calls it may receive, given the calls it received before and    *)
(* the answers it gave.  This is the "Handler Calling Contract" of the     *)
(* repository's README, with the rule for expire() of blobs.hpp added.     *)
(*                                                                         *)
(* live is the plugins' own view of their sessions.  It is a function of   *)
(* the calls alone: a session begins when open() answers true and ends     *)
(* when close() or expire() answers true, whatever tables the manager      *)
(* keeps to arrange that.                                                  *)
(***************************************************************************)
EXTENDS Integers

CONSTANTS
    sessionTimeout   \* ticks without a call after which expire() may come

VARIABLES
    live,            \* the live sessions: id -> [handler, path, quiet]
    calls            \* the calls made by the last step

(***************************************************************************)
(* What a set C of calls and answers does to the live sessions.            *)
(***************************************************************************)
Sessions(C) == {c \in C : c.op \notin {"deleteBlob", "statPath"}}
Opens(C)    == {c \in C : c.op = "open"}

Begun(C) == {c.session : c \in {d \in Opens(C) : d.ok}}
Ended(C) == {c.session : c \in {d \in C : d.op \in {"close", "expire"} /\ d.ok}}
Used(C)  == {c.session : c \in {d \in Sessions(C) : d.op # "expire"}}

Entry(C, s) ==
    LET c == CHOOSE d \in Opens(C) : d.session = s
    IN  [handler |-> c.handler, path |-> c.path, quiet |-> 0]

After(C) ==
    [s \in (DOMAIN live \ Ended(C)) \cup Begun(C) |->
        IF s \in Begun(C) THEN Entry(C, s)
        ELSE IF s \in Used(C) THEN [live[s] EXCEPT !.quiet = 0]
        ELSE live[s]]

(***************************************************************************)
(* The clauses of the contract.                                            *)
(***************************************************************************)
\* open() never reuses the id of a session that is still live, on any plugin.
FreshIds(C) == \A c \in Opens(C) : c.session \notin DOMAIN live

\* Every other session call goes to the plugin on which that session is live.
OnlyLive(C) ==
    \A c \in Sessions(C) \ Opens(C) :
        /\ c.session \in DOMAIN live
        /\ c.handler = live[c.session].handler

\* expire() comes only to a session that nobody used for the whole timeout.
OnlyQuiet(C) ==
    \A c \in C : c.op = "expire" => live[c.session].quiet >= sessionTimeout

\* deleteBlob() comes only for a blob on which no plugin has a live session.
OnlyUnused(C) ==
    \A c \in C : c.op = "deleteBlob" =>
        \A s \in DOMAIN live : live[s].path # c.path

\* One request makes one call; only an open() has calls of expire() with it,
\* for other sessions of the same plugin.
OneRequest(C) ==
    \A c, d \in C : c # d =>
        /\ {c.op, d.op} \subseteq {"open", "expire"}
        /\ c.handler = d.handler
        /\ c.session # d.session

Permitted(C) ==
    /\ FreshIds(C)
    /\ OnlyLive(C)
    /\ OnlyQuiet(C)
    /\ OnlyUnused(C)
    /\ OneRequest(C)
-----------------------------------------------------------------------------
Init ==
    /\ live = [s \in {} |-> {}]
    /\ calls = {}

\* The plugins are called, or a request is refused without calling them.
Serve ==
    /\ Permitted(calls')
    /\ live' = After(calls')

\* Time passes.
Elapse ==
    /\ calls' = {}
    /\ live' = [s \in DOMAIN live |->
                  [live[s] EXCEPT !.quiet =
                      IF @ < sessionTimeout THEN @ + 1 ELSE @]]

Next == Serve \/ Elapse

Spec == Init /\ [][Next]_<<live, calls>>
=============================================================================
