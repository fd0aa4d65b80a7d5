------------------------ MODULE LoadLibrariesProofs ------------------------
(***************************************************************************)
(* Proofs about LoadLibraries, for any directory and any libraries in it:  *)
(* every library with a working createHandler is registered, once and in   *)
(* the order of the files, and no createHandler is called twice.           *)
(***************************************************************************)
EXTENDS LoadLibraries, FiniteSetTheorems, TLAPS

(***************************************************************************)
(* Selections.                                                             *)
(***************************************************************************)
LEMMA EmptySelection ==
    ASSUME NEW list
    PROVE  IsSelection(<<>>, {}, list)
BY FS_EmptySet DEF IsSelection

\* Looking at one more place and taking it.
LEMMA SelectionGrows ==
    ASSUME NEW T, NEW out \in Seq(T), NEW list, NEW n \in Nat, NEW places,
           places \subseteq 1 .. n, list[n + 1] \in T,
           IsSelection(out, places, list)
    PROVE  IsSelection(Append(out, list[n + 1]), places \cup {n + 1}, list)
<1> DEFINE more   == places \cup {n + 1}
           longer == Append(out, list[n + 1])
<1>1. IsFiniteSet(places) /\ n + 1 \notin places
  <2>1. IsFiniteSet(1 .. n)
    BY FS_Interval
  <2>2. IsFiniteSet(places)
    BY <2>1, FS_Subset
  <2>. QED  BY <2>2
<1>2. Cardinality(more) = Cardinality(places) + 1
  BY <1>1, FS_AddElement
<1>3. Len(longer) = Cardinality(more)
  BY <1>2 DEF IsSelection
<1>4. ASSUME NEW i \in places
      PROVE  longer[Rank(i, more)] = list[i]
  <2> DEFINE upto == {j \in places : j <= i}
  <2>1. {j \in more : j <= i} = upto
    OBVIOUS
  <2>2. upto # {} /\ upto \subseteq places
    OBVIOUS
  <2>3. Cardinality(upto) \in 1 .. Cardinality(places)
    BY <1>1, <2>2, FS_Subset, FS_CardinalityType, FS_EmptySet
  <2>4. Rank(i, more) = Rank(i, places) /\ Rank(i, places) \in 1 .. Len(out)
    BY <2>1, <2>3 DEF Rank, IsSelection
  <2> HIDE DEF more
  <2>. QED  BY <2>4 DEF IsSelection
<1>5. longer[Rank(n + 1, more)] = list[n + 1]
  <2>1. {j \in more : j <= n + 1} = more
    <3>1. \A j \in more : j <= n + 1
      OBVIOUS
    <3>. QED  BY <3>1
  <2>2. Rank(n + 1, more) = Len(out) + 1
    BY <1>2, <2>1 DEF Rank, IsSelection
  <2> HIDE DEF more
  <2>. QED  BY <2>2
<1>. QED
  BY <1>3, <1>4, <1>5 DEF IsSelection

\* Only the selected places of the list matter.
LEMMA SelectionKept ==
    ASSUME NEW out, NEW places, NEW list, NEW list2,
           IsSelection(out, places, list),
           \A i \in places : list2[i] = list[i]
    PROVE  IsSelection(out, places, list2)
BY DEF IsSelection

-----------------------------------------------------------------------------
(***************************************************************************)
(* The inductive invariant.  The directory and what is in it do not        *)
(* change; `seen' is what the libraries up to `pos' showed; only what was  *)
(* seen ran or is registered, each once.                                   *)
(***************************************************************************)
RigidOK ==
    /\ directory \in Seq(Library)
    /\ makes \in [Factory -> {"plugin", "null", "throws"}]

LoadableBefore(n) == {j \in 1 .. (n - 1) : Loadable(libs[j])}

FactoryAt == [i \in 1 .. Len(libs) |-> libs[i].factory]

SeenIsWhatWasThere ==
    seen = {libs[j].factory : j \in LoadableBefore(pos)}

OnlySeenRan == \A k \in 1 .. Len(ran) : ran[k] \in seen

OnlySeenRegistered == \A k \in 1 .. Len(handlers) : handlers[k] \in seen

NothingYet == pc = "list" => pos = 1

LoadInv ==
    /\ RigidOK
    /\ LoadTypeOK
    /\ NothingYet
    /\ SeenIsWhatWasThere
    /\ OnlySeenRan
    /\ OnlySeenRegistered
    /\ FactoriesRunOnce
    /\ GoodPluginsAreLoaded

LEMMA LoadInitInv == LoadInit => LoadInv
<1> SUFFICES ASSUME LoadInit PROVE LoadInv
  OBVIOUS
<1>1. RigidOK /\ LoadTypeOK
  <2>1. PICK n \in 0 .. MaxFiles : directory \in [1 .. n -> Library]
    BY DEF LoadInit
  <2>2. directory \in Seq(Library) /\ Len(directory) \in Nat
    BY <2>1, LibraryAssumption
  <2>. QED
    BY <2>2 DEF LoadInit, RigidOK, LoadTypeOK
<1>2. NothingYet /\ SeenIsWhatWasThere /\ OnlySeenRan /\ OnlySeenRegistered
  BY DEF LoadInit, NothingYet, SeenIsWhatWasThere, OnlySeenRan,
         OnlySeenRegistered, LoadableBefore
<1>3. FactoriesRunOnce
  BY DEF LoadInit, FactoriesRunOnce, IsInjective
<1>4. GoodPluginsAreLoaded
  <2>1. LibrariesAmong(looked) = {} /\ GoodBefore(pos) = {}
    BY DEF LoadInit, LibrariesAmong, GoodBefore
  <2>. QED
    BY <2>1, EmptySelection DEF LoadInit, GoodPluginsAreLoaded
<1>. QED
  BY <1>1, <1>2, <1>3, <1>4 DEF LoadInv

-----------------------------------------------------------------------------
(***************************************************************************)
(* The list.  Before the loop nothing is seen and nothing has run.         *)
(***************************************************************************)
LEMMA ListingInv ==
    ASSUME LoadInv, pc = "list",
           libs' \in Seq(Library), looked' \in 0 .. Len(directory),
           pc' \in {"list", "loop", "done"},
           UNCHANGED <<rigid, pos, pending, seen, ran, handlers>>,
           pc' # "done" => IsSelection(libs', LibrariesAmong(looked)', directory)
    PROVE  LoadInv'
<1> USE DEF LoadInv, rigid
<1>1. pos = 1 /\ LoadableBefore(pos) = {} /\ LoadableBefore(pos)' = {}
      /\ GoodBefore(pos) = {} /\ GoodBefore(pos)' = {}
  BY DEF NothingYet, LoadableBefore, GoodBefore
<1>2. RigidOK' /\ LoadTypeOK' /\ NothingYet'
  BY <1>1 DEF RigidOK, LoadTypeOK, NothingYet
<1>3. seen = {}
  BY <1>1 DEF SeenIsWhatWasThere
<1>4. SeenIsWhatWasThere'
  BY <1>1, <1>3 DEF SeenIsWhatWasThere
<1>5. OnlySeenRan' /\ OnlySeenRegistered' /\ FactoriesRunOnce'
  BY DEF OnlySeenRan, OnlySeenRegistered, FactoriesRunOnce
<1>6. GoodPluginsAreLoaded'
  <2>1. IsSelection(handlers, {}, FactoryAt)
    BY <1>1 DEF GoodPluginsAreLoaded, FactoryAt
  <2>2. IsSelection(handlers', {}, FactoryAt')
    BY <2>1, SelectionKept
  <2>. QED
    BY <1>1, <2>2 DEF GoodPluginsAreLoaded, FactoryAt
<1>. QED
  BY <1>2, <1>4, <1>5, <1>6

LEMMA ListStep ==
    ASSUME LoadInv, ListFails \/ ListFile \/ PassOver \/ ListEnds
    PROVE  LoadInv'
<1>1. /\ directory \in Seq(Library) /\ looked \in 0 .. Len(directory)
      /\ libs \in Seq(Library) /\ Len(directory) \in Nat
  BY DEF LoadInv, RigidOK, LoadTypeOK
<1>2. pc = "list" => IsSelection(libs, LibrariesAmong(looked), directory)
  BY DEF LoadInv, GoodPluginsAreLoaded
<1>3. CASE ListFails
  BY <1>1, <1>3, ListingInv DEF ListFails
<1>4. CASE ListFile
  <2>1. file \in Library /\ file = directory[looked + 1]
    BY <1>1, <1>4 DEF ListFile, LookAt, file
  <2>2. LibrariesAmong(looked)' = LibrariesAmong(looked) \cup {looked + 1}
    BY <1>1, <1>4 DEF ListFile, LookAt, LibrariesAmong, rigid, file
  <2>3. IsSelection(libs', LibrariesAmong(looked)', directory)
    <3>1. LibrariesAmong(looked) \subseteq 1 .. looked /\ looked \in Nat
      BY <1>1 DEF LibrariesAmong
    <3>2. IsSelection(libs, LibrariesAmong(looked), directory)
          /\ libs' = Append(libs, directory[looked + 1])
      BY <1>2, <1>4, <2>1 DEF ListFile, LookAt
    <3>3. IsSelection(Append(libs, directory[looked + 1]),
                      LibrariesAmong(looked) \cup {looked + 1}, directory)
      BY <1>1, <2>1, <3>1, <3>2, SelectionGrows
    <3>. QED  BY <2>2, <3>2, <3>3
  <2>4. libs' \in Seq(Library) /\ looked' \in 0 .. Len(directory)
    BY <1>1, <1>4, <2>1 DEF ListFile, LookAt
  <2>. QED
    BY <1>4, <2>3, <2>4, ListingInv DEF ListFile, LookAt
<1>5. CASE PassOver
  <2>1. LibrariesAmong(looked)' = LibrariesAmong(looked)
    BY <1>1, <1>5 DEF PassOver, LookAt, LibrariesAmong, rigid, file
  <2>2. looked' \in 0 .. Len(directory)
    BY <1>1, <1>5 DEF PassOver, LookAt
  <2>. QED
    BY <1>1, <1>2, <1>5, <2>1, <2>2, ListingInv DEF PassOver, LookAt
<1>6. CASE ListEnds
  <2>1. LibrariesAmong(looked)' = LibrariesAmong(looked)
    BY <1>6 DEF ListEnds, LibrariesAmong, rigid
  <2>. QED
    BY <1>1, <1>2, <1>6, <2>1, ListingInv DEF ListEnds
<1>. QED  BY <1>3, <1>4, <1>5, <1>6

-----------------------------------------------------------------------------
(***************************************************************************)
(* The loop.  What is there before a place does not depend on that place.  *)
(***************************************************************************)
LEMMA OneMoreSeen ==
    ASSUME NEW n \in Nat \ {0}
    PROVE  LoadableBefore(n + 1) =
               LoadableBefore(n) \cup (IF Loadable(libs[n]) THEN {n} ELSE {})
BY DEF LoadableBefore

LEMMA OneMoreGood ==
    ASSUME NEW n \in Nat \ {0}
    PROVE  GoodBefore(n + 1) =
               GoodBefore(n) \cup
               (IF /\ Loadable(libs[n])
                   /\ FirstOfItsKind(n)
                   /\ makes[libs[n].factory] = "plugin"
                THEN {n} ELSE {})
BY DEF GoodBefore

\* A turn of the loop, whatever it finds.
LEMMA TurnInv ==
    ASSUME LoadInv, Advance, pending' \in BOOLEAN,
           seen' = seen \cup (IF Loadable(lib) THEN {lib.factory} ELSE {}),
           \/ ran' = ran
           \/ Loadable(lib) /\ lib.factory \notin seen
              /\ ran' = Append(ran, lib.factory),
           IF /\ Loadable(lib)
              /\ lib.factory \notin seen
              /\ makes[lib.factory] = "plugin"
           THEN handlers' = Append(handlers, lib.factory)
           ELSE handlers' = handlers
    PROVE  LoadInv'
<1>1. /\ directory \in Seq(Library) /\ libs \in Seq(Library)
      /\ pos \in 1 .. Len(libs) /\ lib \in Library
      /\ seen \subseteq Factory /\ ran \in Seq(Factory)
      /\ handlers \in Seq(Factory) /\ pos' = pos + 1 /\ libs' = libs
      /\ directory' = directory /\ makes' = makes /\ looked' = looked
      /\ pc' = pc /\ pc = "loop"
  BY DEF LoadInv, RigidOK, LoadTypeOK, Advance, lib, rigid
<1>2. Loadable(lib) => lib.factory \in Factory
  BY <1>1, LibraryAssumption DEF Loadable
<1>3. RigidOK' /\ LoadTypeOK' /\ NothingYet'
  <2>1. /\ ran' \in Seq(Factory)
        /\ handlers' \in Seq(Factory)
    <3>1. Loadable(lib) => Append(ran, lib.factory) \in Seq(Factory)
                           /\ Append(handlers, lib.factory) \in Seq(Factory)
      BY <1>1, <1>2
    <3>. QED  BY <1>1, <3>1
  <2>2. seen' \subseteq Factory
    BY <1>1, <1>2
  <2>. QED
    BY <1>1, <2>1, <2>2 DEF LoadInv, RigidOK, LoadTypeOK, NothingYet
<1>4. SeenIsWhatWasThere'
  <2>1. LoadableBefore(pos)' = LoadableBefore(pos + 1)
    BY <1>1 DEF LoadableBefore
  <2>2. LoadableBefore(pos)' =
            LoadableBefore(pos) \cup (IF Loadable(lib) THEN {pos} ELSE {})
    BY <1>1, <2>1, OneMoreSeen DEF lib
  <2>3. seen = {libs[j].factory : j \in LoadableBefore(pos)}
    BY DEF LoadInv, SeenIsWhatWasThere
  <2>4. seen' = {libs[j].factory : j \in LoadableBefore(pos)'}
    BY <2>2, <2>3 DEF lib
  <2>. QED
    BY <1>1, <2>4 DEF SeenIsWhatWasThere
<1>5. OnlySeenRan' /\ OnlySeenRegistered'
  <2> DEFINE SeenOnly(q) == \A k \in 1 .. Len(q) : q[k] \in seen'
  <2>1. SeenOnly(ran) /\ SeenOnly(handlers)
    BY DEF LoadInv, OnlySeenRan, OnlySeenRegistered
  <2>2. Loadable(lib) => SeenOnly(Append(ran, lib.factory))
                         /\ SeenOnly(Append(handlers, lib.factory))
    <3> SUFFICES ASSUME Loadable(lib),
                        NEW q \in Seq(Factory), SeenOnly(q)
                 PROVE  SeenOnly(Append(q, lib.factory))
      BY <1>1, <2>1
    <3>1. lib.factory \in Factory /\ lib.factory \in seen'
      BY <1>2
    <3>2. \A k \in 1 .. Len(Append(q, lib.factory)) :
              \/ k \in 1 .. Len(q) /\ Append(q, lib.factory)[k] = q[k]
              \/ Append(q, lib.factory)[k] = lib.factory
      BY <3>1
    <3>. QED  BY <3>1, <3>2
  <2>3. SeenOnly(ran') /\ SeenOnly(handlers')
    <3> HIDE DEF SeenOnly
    <3>. QED  BY <2>1, <2>2
  <2>. QED
    BY <2>3 DEF OnlySeenRan, OnlySeenRegistered
<1>6. FactoriesRunOnce'
  <2>1. CASE ran' = ran
    BY <2>1 DEF LoadInv, FactoriesRunOnce
  <2>2. CASE lib.factory \notin seen /\ ran' = Append(ran, lib.factory)
    BY <1>1, <1>2, <2>2 DEF LoadInv, FactoriesRunOnce, IsInjective, OnlySeenRan
  <2>. QED  BY <2>1, <2>2
<1>7. FirstOfItsKind(pos) <=> lib.factory \notin seen
  <2>1. seen = {libs[j].factory : j \in LoadableBefore(pos)}
    BY DEF LoadInv, SeenIsWhatWasThere
  <2>. QED
    BY <2>1 DEF FirstOfItsKind, LoadableBefore, lib
<1>8. IsSelection(handlers', GoodBefore(pos)', FactoryAt)
  <2>1. GoodBefore(pos)' = GoodBefore(pos + 1)
    BY <1>1 DEF GoodBefore, FirstOfItsKind
  <2>2. GoodBefore(pos)' =
            GoodBefore(pos) \cup
            (IF /\ Loadable(lib)
                /\ lib.factory \notin seen
                /\ makes[lib.factory] = "plugin"
             THEN {pos} ELSE {})
    BY <1>1, <1>7, <2>1, OneMoreGood DEF lib
  <2>3. IsSelection(handlers, GoodBefore(pos), FactoryAt)
    BY DEF LoadInv, GoodPluginsAreLoaded, FactoryAt
  <2>4. CASE /\ Loadable(lib)
             /\ lib.factory \notin seen
             /\ makes[lib.factory] = "plugin"
    <3>1. FactoryAt[(pos - 1) + 1] = lib.factory /\ pos - 1 \in Nat
      BY <1>1 DEF FactoryAt, lib
    <3>2. GoodBefore(pos) \subseteq 1 .. (pos - 1)
      BY DEF GoodBefore
    <3>3. IsSelection(Append(handlers, FactoryAt[(pos - 1) + 1]),
                      GoodBefore(pos) \cup {(pos - 1) + 1}, FactoryAt)
      BY <1>1, <1>2, <2>3, <2>4, <3>1, <3>2, SelectionGrows
    <3>4. (pos - 1) + 1 = pos
      BY <1>1
    <3>. QED
      BY <2>2, <2>4, <3>1, <3>3, <3>4
  <2>5. CASE ~(/\ Loadable(lib)
               /\ lib.factory \notin seen
               /\ makes[lib.factory] = "plugin")
    BY <2>2, <2>3, <2>5
  <2>. QED  BY <2>4, <2>5
<1>9. GoodPluginsAreLoaded'
  <2>1. FactoryAt' = FactoryAt /\ LibrariesAmong(looked)' = LibrariesAmong(looked)
    BY <1>1 DEF FactoryAt, LibrariesAmong
  <2>. QED
    BY <1>1, <1>8, <2>1 DEF LoadInv, GoodPluginsAreLoaded, FactoryAt
<1>. QED
  BY <1>3, <1>4, <1>5, <1>6, <1>9 DEF LoadInv

LEMMA LoopStep ==
    ASSUME LoadInv,
           \/ OpenFails \/ SymbolFails \/ Duplicate
           \/ RunNull \/ RunThrows \/ RunRegisters
    PROVE  LoadInv'
<1>1. lib.opens => (ErrorAfterSym <=> ~Loadable(lib))
  BY DEF ErrorAfterSym, ClearError, Loadable
<1>2. CASE OpenFails
  BY <1>2, TurnInv DEF OpenFails, Loadable
<1>3. CASE SymbolFails
  BY <1>1, <1>3, TurnInv DEF SymbolFails
<1>4. CASE Duplicate
  BY <1>1, <1>4, TurnInv DEF Duplicate
<1>5. CASE RunNull
  BY <1>1, <1>5, TurnInv DEF RunNull, Run
<1>6. CASE RunThrows
  BY <1>1, <1>6, TurnInv DEF RunThrows, Run
<1>7. CASE RunRegisters
  BY <1>1, <1>7, TurnInv DEF RunRegisters, Run
<1>. QED  BY <1>2, <1>3, <1>4, <1>5, <1>6, <1>7

LEMMA LoadStepInv == LoadInv /\ [LoadNext]_loadVars => LoadInv'
<1> SUFFICES ASSUME LoadInv, [LoadNext]_loadVars
             PROVE  LoadInv'
  OBVIOUS
<1>1. CASE LoopEnds
  BY <1>1 DEF LoopEnds, rigid, LoadInv, RigidOK, LoadTypeOK, NothingYet,
     SeenIsWhatWasThere, LoadableBefore, OnlySeenRan, OnlySeenRegistered,
     FactoriesRunOnce, GoodPluginsAreLoaded, GoodBefore, FirstOfItsKind
<1>2. CASE UNCHANGED loadVars
  BY <1>2 DEF loadVars, LoadInv, RigidOK, LoadTypeOK, NothingYet,
     SeenIsWhatWasThere, LoadableBefore, OnlySeenRan, OnlySeenRegistered,
     FactoriesRunOnce, GoodPluginsAreLoaded, GoodBefore, FirstOfItsKind,
     LibrariesAmong
<1>. QED
  BY <1>1, <1>2, ListStep, LoopStep DEF LoadNext

-----------------------------------------------------------------------------
\* The lists and positions of the loader have their types: in particular the
\* loop of loadLibraries (utils.cpp) does not leave its list, and it registers
\* only what dlsym gave it.
THEOREM LoadTypes == LoadSpec => []LoadTypeOK
<1>1. LoadInv => LoadTypeOK
  BY DEF LoadInv
<1>. QED
  BY <1>1, LoadInitInv, LoadStepInv, PTL DEF LoadSpec

\* utils.cpp, loadLibraries: createHandler of a library is called once, under
\* however many names the library is there and whatever came of the call.
THEOREM NoFactoryRunsTwice == LoadSpec => []FactoriesRunOnce
<1>1. LoadInv => FactoriesRunOnce
  BY DEF LoadInv
<1>. QED
  BY <1>1, LoadInitInv, LoadStepInv, PTL DEF LoadSpec

\* fs.cpp and utils.cpp: each library that gives a plugin gets it registered,
\* once and in the order of the files, whatever the other libraries do and
\* whatever error the dynamic loader still holds.
THEOREM GoodOnesAreLoaded == LoadSpec => []GoodPluginsAreLoaded
<1>1. LoadInv => GoodPluginsAreLoaded
  BY DEF LoadInv
<1>. QED
  BY <1>1, LoadInitInv, LoadStepInv, PTL DEF LoadSpec

\* utils.cpp and manager.cpp, registerHandler: loading is a behaviour of the
\* manager of BlobManager.tla, in which no plugin is registered twice.
THEOREM LoadingIsRegistering == LoadSpec => RegistersWithManager
<1>1. LoadInit => Manager!Init
  BY DEF LoadInit, Manager!Init, Manager!EmptyTable, Manager!SessionId
<1>2. LoadInv /\ [LoadNext]_loadVars => [Manager!Next]_(Manager!vars)
  <2> SUFFICES ASSUME LoadInv, [LoadNext]_loadVars
               PROVE  Manager!Next \/ UNCHANGED handlers
    BY DEF Manager!vars
  <2>1. CASE RunRegisters
    <3>1. /\ lib.factory \notin seen
          /\ handlers' = Append(handlers, lib.factory)
          /\ lib \in Library /\ lib.factory # NoFactory
      BY <2>1 DEF RunRegisters, Run, Advance, lib, LoadInv, LoadTypeOK,
                  ErrorAfterSym
    <3>2. lib.factory \in Factory
      BY <3>1, LibraryAssumption
    <3>3. lib.factory \notin Range(handlers)
      BY <3>1 DEF LoadInv, LoadTypeOK, OnlySeenRegistered, Range
    <3>4. Manager!RegisterHandler(lib.factory)
      BY <3>1, <3>3 DEF Manager!RegisterHandler, Manager!Range, Range, Manager!table
    <3>. QED  BY <3>2, <3>4 DEF Manager!Next
  <2>2. CASE UNCHANGED handlers
    BY <2>2
  <2>. QED
    BY <2>1, <2>2
       DEF LoadNext, ListFails, ListFile, PassOver, LookAt, ListEnds, OpenFails,
           SymbolFails, Duplicate, RunNull, RunThrows, LoopEnds, loadVars
<1>. QED
  BY <1>1, <1>2, LoadInitInv, LoadStepInv, PTL
     DEF LoadSpec, RegistersWithManager, Manager!Spec

-----------------------------------------------------------------------------
(***************************************************************************)
(* Why loading ends: a count that every step lowers.  A file that is put   *)
(* on the list takes away one look and adds one library.                   *)
(***************************************************************************)
PhasesLeft == IF pc = "list" THEN 2 ELSE IF pc = "loop" THEN 1 ELSE 0

StepsLeft ==
    2 * (Len(directory) - looked) + (Len(libs) + 1 - pos) + PhasesLeft

Headway == StepsLeft \in Nat /\ StepsLeft' < StepsLeft

\* The safety half of LoadEnds, for any directory: each step of
\* setupBlobGlobalHandler (main.cpp) and what it calls, whatever fails in it,
\* brings the end nearer; no library is tried again and no file looked at twice.
THEOREM LoadingGetsNearerItsEnd ==
    LoadSpec => [][Headway]_loadVars
<1>1. LoadInv /\ [LoadNext]_loadVars => [Headway]_loadVars
  <2> SUFFICES ASSUME LoadInv, LoadNext
               PROVE  StepsLeft \in Nat /\ StepsLeft' < StepsLeft
    BY DEF Headway
  <2>1. /\ directory \in Seq(Library) /\ looked \in 0 .. Len(directory)
        /\ libs \in Seq(Library) /\ pos \in 1 .. (Len(libs) + 1)
        /\ Len(directory) \in Nat /\ Len(libs) \in Nat
        /\ (pc = "list" => pos = 1)
    BY DEF LoadInv, RigidOK, LoadTypeOK, NothingYet
  <2>2. PhasesLeft \in 0 .. 2
    BY DEF PhasesLeft
  <2>3. StepsLeft \in Nat
    BY <2>1, <2>2 DEF StepsLeft
  <2>4. CASE ListFails
    <3>1. Len(libs') = 0
      BY <2>4 DEF ListFails
    <3>. QED
      BY <2>1, <2>4, <3>1 DEF ListFails, StepsLeft, PhasesLeft, rigid
  <2>5. CASE ListFile
    <3>1. Len(libs') = Len(libs) + 1
      BY <2>1, <2>5 DEF ListFile
    <3>. QED
      BY <2>1, <2>2, <2>5, <3>1 DEF ListFile, LookAt, StepsLeft, PhasesLeft, rigid
  <2>6. CASE PassOver
    BY <2>1, <2>2, <2>6 DEF PassOver, LookAt, StepsLeft, PhasesLeft, rigid
  <2>7. CASE ListEnds \/ LoopEnds
    BY <2>1, <2>7 DEF ListEnds, LoopEnds, StepsLeft, PhasesLeft, rigid
  <2>8. CASE Advance
    BY <2>1, <2>2, <2>8 DEF Advance, StepsLeft, PhasesLeft, rigid
  <2>. QED
    BY <2>3, <2>4, <2>5, <2>6, <2>7, <2>8
       DEF LoadNext, OpenFails, SymbolFails, Duplicate, RunNull, RunThrows,
           RunRegisters, Run
<1>. QED
  BY <1>1, LoadInitInv, LoadStepInv, PTL DEF LoadSpec
=============================================================================
