-------------------------- MODULE GetSessionProofs --------------------------
(***************************************************************************)
(* The loop of getSession returns what BlobManager.tla says that it        *)
(* returns, for every number of session ids.                               *)
(***************************************************************************)
EXTENDS GetSession, TLAPS

-----------------------------------------------------------------------------
(***************************************************************************)
(* Arithmetic modulo the number of ids.                                    *)
(***************************************************************************)
LEMMA ModRange ==
    ASSUME NEW n \in Int
    PROVE  n % SessionCount \in SessionId
BY CountAssumption DEF SessionId

LEMMA ModBelow ==
    ASSUME NEW n \in 0 .. (SessionCount - 1)
    PROVE  n % SessionCount = n
BY CountAssumption

LEMMA ModAbove ==
    ASSUME NEW n \in SessionCount .. (2 * SessionCount - 1)
    PROVE  n % SessionCount = n - SessionCount
BY CountAssumption

\* The i-th id that a call looks at.
Id(i) == (start + i) % SessionCount

\* Incrementing with the wrap of a uint16_t leads from one to the next.
LEMMA IdSuccessor ==
    ASSUME TypeOK, NEW i \in 0 .. (SessionCount - 2)
    PROVE  Incremented(Id(i)) = Id(i + 1)
<1> USE CountAssumption
<1>1. start \in 0 .. (SessionCount - 1)
  BY DEF TypeOK, SessionId
<1>2. CASE start + i + 1 < SessionCount
  <2>1. Id(i) = start + i
    BY <1>1, <1>2, ModBelow DEF Id
  <2>2. Id(i) + 1 = start + (i + 1)
    BY <1>1, <2>1
  <2> QED BY <2>2 DEF Incremented, Id
<1>3. CASE start + i + 1 = SessionCount
  <2>1. Id(i) = SessionCount - 1
    BY <1>1, <1>3, ModBelow DEF Id
  <2>2. start + (i + 1) = SessionCount /\ Id(i) + 1 = SessionCount
    BY <1>1, <1>3, <2>1
  <2> QED BY <2>2 DEF Incremented, Id
<1>4. CASE start + i + 1 > SessionCount
  <2>1. Id(i) = start + i - SessionCount
    BY <1>1, <1>4, ModAbove DEF Id
  <2>2. Id(i + 1) = start + (i + 1) - SessionCount
    BY <1>1, <1>4, ModAbove DEF Id
  <2>3. start + (i + 1) - SessionCount \in 0 .. (SessionCount - 1)
    BY <1>1, <1>4
  <2>4. Id(i) + 1 = start + (i + 1) - SessionCount
    BY <1>1, <2>1
  <2> QED BY <2>2, <2>3, <2>4, ModBelow DEF Incremented
<1> QED BY <1>1, <1>2, <1>3, <1>4

-----------------------------------------------------------------------------
(***************************************************************************)
(* The inductive invariant.  In the loop, `tries' ids from `start' on have *)
(* been looked at and were in use, and `next' is the one after them; a     *)
(* call that ended found the next one free, or has looked at MaxTries.     *)
(***************************************************************************)
AllUsed(n) == \A i \in 0 .. (n - 1) : Id(i) \in used

LoopInv ==
    /\ pc = "loop" =>
          tries < MaxTries /\ next = Id(tries) /\ AllUsed(tries)
    /\ pc = "found" =>
          /\ tries < MaxTries
          /\ AllUsed(tries)
          /\ sess = Id(tries) /\ sess \notin used
          /\ next = Id(tries + 1)
    /\ pc = "failed" =>
          tries = MaxTries /\ AllUsed(tries) /\ next = Id(tries)

IInv == TypeOK /\ LoopInv

\* `tries' does not wrap before the loop looks at it.
LEMMA TriesCount ==
    ASSUME TypeOK, tries < MaxTries
    PROVE  Incremented(tries) = tries + 1
<1>1. tries + 1 \in 0 .. (SessionCount - 1)
  BY CountAssumption DEF TypeOK, SessionId, MaxTries
<1> QED BY <1>1, ModBelow DEF Incremented

LEMMA InitInv == Init => IInv
BY CountAssumption DEF Init, IInv, TypeOK, LoopInv, SessionId

LEMMA StepInv == IInv /\ [Next]_vars => IInv'
<1> SUFFICES ASSUME IInv, [Next]_vars PROVE IInv'
  OBVIOUS
<1> USE CountAssumption DEF IInv
<1>0. TypeOK
  OBVIOUS
<1>1. CASE CallWithoutPointer \/ UNCHANGED vars
  BY <1>1 DEF CallWithoutPointer, vars, TypeOK, LoopInv, AllUsed, Id
<1>2. CASE Call
  <2>1. next = start' + 0 /\ start' \in 0 .. (SessionCount - 1)
    BY <1>2 DEF Call, TypeOK, SessionId
  <2>2. next' = Id(0)'
    BY <1>2, <2>1, ModBelow DEF Call, Id
  <2>3. TypeOK'
    BY <1>2 DEF Call, TypeOK, SessionId
  <2> QED BY <1>2, <2>2, <2>3 DEF Call, LoopInv, AllUsed, MaxTries
<1>3. CASE Take
  <2>1. tries \in 0 .. (SessionCount - 2) /\ next = Id(tries)
    BY <1>3 DEF Take, LoopInv, MaxTries, TypeOK, SessionId
  <2>2. next' = Id(tries + 1)
    BY <1>0, <1>3, <2>1, IdSuccessor DEF Take
  <2>3. next' \in SessionId
    BY <1>3, ModRange DEF Take, Incremented, TypeOK, SessionId
  <2>4. TypeOK'
    BY <1>3, <2>3 DEF Take, TypeOK
  <2> QED BY <1>3, <2>1, <2>2, <2>4 DEF Take, LoopInv, AllUsed, Id
<1>4. CASE TryAnother
  <2>1. tries \in 0 .. (SessionCount - 2) /\ next = Id(tries)
    BY <1>4 DEF TryAnother, LoopInv, MaxTries, TypeOK, SessionId
  <2>2. next' = Id(tries + 1)
    BY <1>0, <1>4, <2>1, IdSuccessor DEF TryAnother
  <2>3. tries' = tries + 1
    BY <1>0, <1>4, TriesCount DEF TryAnother, LoopInv
  <2>4. next' \in SessionId
    BY <1>4, ModRange DEF TryAnother, Incremented, TypeOK, SessionId
  <2>5. TypeOK'
    BY <1>4, <2>1, <2>3, <2>4 DEF TryAnother, TypeOK, SessionId
  <2>6. AllUsed(tries + 1)
    BY <1>4, <2>1 DEF TryAnother, LoopInv, AllUsed
  <2>7. AllUsed(tries)'
    BY <1>4, <2>3, <2>6 DEF TryAnother, AllUsed, Id
  <2>8. (next = Id(tries))'
    BY <1>4, <2>2, <2>3 DEF TryAnother, Id
  <2>9. pc' = IF tries' < MaxTries THEN "loop" ELSE "failed"
    BY <1>4 DEF TryAnother
  <2>10. tries' <= MaxTries
    BY <2>1, <2>3 DEF MaxTries
  <2> QED BY <2>1, <2>3, <2>5, <2>7, <2>8, <2>9, <2>10 DEF LoopInv, MaxTries
<1>5. CASE Return
  BY <1>5 DEF Return, TypeOK, LoopInv
<1>6. CASE Release
  BY <1>6 DEF Release, TypeOK, LoopInv
<1> QED BY <1>1, <1>2, <1>3, <1>4, <1>5, <1>6 DEF Next

LEMMA LoopCorrect == Spec => []IInv
BY InitInv, StepInv, PTL DEF Spec

\* The variables keep their types.
THEOREM LoopTypes == Spec => []TypeOK
BY LoopCorrect, PTL DEF IInv

-----------------------------------------------------------------------------
(***************************************************************************)
(* What the invariant says in the terms of BlobManager.tla.                *)
(***************************************************************************)
LEMMA ManagersIds ==
    /\ Manager!Tries = 0 .. (SessionCount - 2)
    /\ \A i \in Int : Manager!Candidate(i) = Id(i)
    /\ \A i \in Int : Manager!NextAfter(i) = Id(i)
    /\ Manager!FreeTries = {i \in 0 .. (SessionCount - 2) : Id(i) \notin used}
BY DEF Manager!Tries, Manager!Candidate, Manager!NextAfter, Manager!FreeTries, Id

\* The loop ends with the first free id, and fails when there is none.
LEMMA InvImplies == IInv => LoopFindsFirstFree
<1> SUFFICES ASSUME IInv PROVE LoopFindsFirstFree
  OBVIOUS
<1> USE CountAssumption
<1> DEFINE Free == {i \in 0 .. (SessionCount - 2) : Id(i) \notin used}
<1>0. tries \in 0 .. (SessionCount - 1)
  BY DEF IInv, TypeOK, SessionId
<1>1. ASSUME pc = "found"
      PROVE  /\ ~Manager!GetSessionFails
             /\ sess = Manager!Candidate(Manager!FirstFree)
             /\ next = Manager!NextAfter(Manager!FirstFree + 1)
  <2>1. tries \in Free /\ \A i \in Free : tries <= i
    BY <1>0, <1>1 DEF IInv, LoopInv, AllUsed, MaxTries
  <2>2. \A i \in Free : (\A j \in Free : i <= j) => i = tries
    BY <1>0, <2>1
  <2>3. Manager!FirstFree = CHOOSE i \in Free : \A j \in Free : i <= j
    BY ManagersIds DEF Manager!FirstFree
  <2>4. Manager!FirstFree = tries
    BY <2>1, <2>2, <2>3
  <2> QED
    BY <1>0, <1>1, <2>1, <2>4, ManagersIds DEF IInv, LoopInv, Manager!GetSessionFails
<1>2. ASSUME pc = "failed"
      PROVE  /\ Manager!GetSessionFails
             /\ next = Manager!NextAfter(SessionCount - 1)
  <2>1. Free = {}
    BY <1>2 DEF IInv, LoopInv, AllUsed, MaxTries
  <2> QED
    BY <1>2, <2>1, ManagersIds DEF IInv, LoopInv, MaxTries, Manager!GetSessionFails
<1> QED BY <1>1, <1>2 DEF LoopFindsFirstFree

\* manager.cpp, getSession: when the loop is left, what it returns is what
\* BlobManager.tla says, in the arithmetic of 16 bits and in that of any other
\* number of ids.
THEOREM LoopIsGetSession == Spec => []LoopFindsFirstFree
BY LoopCorrect, InvImplies, PTL

-----------------------------------------------------------------------------
\* The safety half of SearchEnds.  manager.cpp, getSession: each turn of the loop
\* leaves it or uses up one of finitely many tries; the 16-bit counter of tries
\* does not wrap under the loop's limit.
THEOREM SearchGetsNearerItsEnd ==
    Spec => [][pc = "loop" /\ pc' = "loop" =>
                   tries < tries' /\ tries' < MaxTries]_vars
<1>1. IInv /\ IInv' /\ [Next]_vars =>
          [pc = "loop" /\ pc' = "loop" =>
               tries < tries' /\ tries' < MaxTries]_vars
  <2> SUFFICES ASSUME IInv, IInv', Next, pc = "loop", pc' = "loop"
               PROVE  tries < tries' /\ tries' < MaxTries
    OBVIOUS
  <2>1. TryAnother
    BY DEF Next, CallWithoutPointer, Call, Take, Return, Release
  <2>2. TypeOK /\ tries < MaxTries /\ tries' < MaxTries /\ tries \in Int
    BY DEF IInv, LoopInv, TypeOK, SessionId
  <2>. QED
    BY <2>1, <2>2, TriesCount DEF TryAnother
<1>. QED
  BY <1>1, LoopCorrect, PTL DEF Spec
=============================================================================
