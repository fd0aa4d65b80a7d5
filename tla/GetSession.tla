----------------------------- MODULE GetSession -----------------------------
(***************************************************************************)
(* BlobManager::getSession (manager.cpp), one turn of its loop at a time.  *)
(* BlobManager.tla gives getSession by what it returns; here the loop is   *)
(* shown to return that, with 16-bit arithmetic on both counters, and to   *)
(* come to an end.                                                         *)
(***************************************************************************)
EXTENDS Integers

CONSTANT
    SessionCount   \* the number of values of a uint16_t; 2^16 in the code

ASSUME CountAssumption == SessionCount \in Nat /\ SessionCount > 1

VARIABLES
    used,     \* the keys of the session map
    next,     \* the manager's counter
    tries,    \* the loop's counter
    sess,     \* what the caller's pointer receives
    pc,       \* where the call is
    start     \* history: `next' when the call began

vars == <<used, next, tries, sess, pc, start>>

SessionId == 0 .. (SessionCount - 1)

\* Slip: the counters are wider than 16 bits.
IncrementedWide(n) == n + 1

\* ++ on a uint16_t.
Incremented(n) == (n + 1) % SessionCount

\* 0xffff.
MaxTries == SessionCount - 1

Init ==
    /\ used = {}
    /\ next \in SessionId
    /\ tries = 0
    /\ sess = 0
    /\ pc = "idle"
    /\ start = next

\* getSession(nullptr) returns false before it looks at anything.
CallWithoutPointer ==
    /\ pc = "idle"
    /\ UNCHANGED vars

Call ==
    /\ pc = "idle"
    /\ pc' = "loop"
    /\ tries' = 0
    /\ start' = next
    /\ UNCHANGED <<used, next, sess>>

\* The value is not in use.
Take ==
    /\ pc = "loop"
    /\ next \notin used
    /\ sess' = next
    /\ next' = Incremented(next)
    /\ pc' = "found"
    /\ UNCHANGED <<used, tries, start>>

\* Slip: as many tries as there are ids, which a uint16_t cannot count.
TryAllIds ==
    /\ pc = "loop"
    /\ next \in used
    /\ next' = Incremented(next)
    /\ tries' = Incremented(tries)
    /\ pc' = IF Incremented(tries) < SessionCount THEN "loop" ELSE "failed"
    /\ UNCHANGED <<used, sess, start>>

\* Slip: the limit is one too low.
TryTooFew ==
    /\ pc = "loop"
    /\ next \in used
    /\ next' = Incremented(next)
    /\ tries' = Incremented(tries)
    /\ pc' = IF Incremented(tries) < MaxTries - 1 THEN "loop" ELSE "failed"
    /\ UNCHANGED <<used, sess, start>>

\* The value is in use: ++tries < 0xffff decides whether to go on.
TryAnother ==
    /\ pc = "loop"
    /\ next \in used
    /\ next' = Incremented(next)
    /\ tries' = Incremented(tries)
    /\ pc' = IF Incremented(tries) < MaxTries THEN "loop" ELSE "failed"
    /\ UNCHANGED <<used, sess, start>>

\* open() goes on and keeps the id, or fails for another reason.
Return ==
    /\ pc \in {"found", "failed"}
    /\ pc' = "idle"
    /\ used' \in IF pc = "found" THEN {used, used \cup {sess}} ELSE {used}
    /\ UNCHANGED <<next, tries, sess, start>>

\* Between two calls sessions are closed.
Release ==
    /\ pc = "idle"
    /\ \E s \in used : used' = used \ {s}
    /\ UNCHANGED <<next, tries, sess, pc, start>>

Next ==
    \/ CallWithoutPointer
    \/ Call
    \/ Take
    \/ TryAnother
    \/ Return
    \/ Release

\* The loop runs to its end without giving anything else a turn.
Spec == Init /\ [][Next]_vars /\ WF_vars(Take \/ TryAnother)
-----------------------------------------------------------------------------
TypeOK ==
    /\ used \subseteq SessionId
    /\ next \in SessionId
    /\ tries \in SessionId
    /\ sess \in SessionId
    /\ pc \in {"idle", "loop", "found", "failed"}
    /\ start \in SessionId

(***************************************************************************)
(* The manager as it was when the call began; only the ids in use and      *)
(* `next' matter to the operators used here.                               *)
(***************************************************************************)
Manager == INSTANCE BlobManager WITH
    Handler <- {}, Path <- {}, sessionTimeout <- 0, FlagSets <- {},
    Claims <- [p \in {} |-> {}],
    handlers <- <<>>, next <- start, sessions <- [s \in used |-> s],
    openFiles <- [p \in {} |-> 0], openSessions <- [h \in {} |-> {}],
    calls <- {}

\* The loop returns what BlobManager.tla says getSession returns: the first
\* free id from `next' on, with `next' behind it, and it fails exactly when
\* the 0xffff ids that it may try are all in use.
LoopFindsFirstFree ==
    /\ pc = "found" =>
          /\ ~Manager!GetSessionFails
          /\ sess = Manager!Candidate(Manager!FirstFree)
          /\ next = Manager!NextAfter(Manager!FirstFree + 1)
    /\ pc = "failed" =>
          /\ Manager!GetSessionFails
          /\ next = Manager!NextAfter(SessionCount - 1)

\* The loop ends, even when every id is in use: 0xffff is the largest limit
\* that a 16-bit `tries' can reach.
SearchEnds == pc = "loop" ~> pc # "loop"
=============================================================================
