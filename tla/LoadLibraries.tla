--------------------------- MODULE LoadLibraries ---------------------------
(***************************************************************************)
(* The start of the service: setupBlobGlobalHandler (main.cpp) runs        *)
(* loadLibraries (utils.cpp), which asks each shared library under a       *)
(* directory (fs.cpp) for a plugin and registers it with the manager.      *)
(*                                                                         *)
(* Libraries and the dynamic loader are external.  A library either cannot *)
(* be opened, or has no createHandler, or has one that returns a plugin,   *)
(* returns null or throws.  Two libraries have the same createHandler when *)
(* they are the same file under two names.  One turn of a loop, the one    *)
(* over the files and the one over the libraries, is one step.             *)
(***************************************************************************)
EXTENDS Integers, Sequences, FiniteSets, Functions

CONSTANTS
    Factory,       \* the createHandler functions, by address
    NoFactory,     \* what a library without createHandler has
    Library,       \* the files that may be there, each a record of
                   \*   path:    the names on the way to it, each a NameShape
                   \*   opens:   whether dlopen succeeds
                   \*   noisy:   whether dlopen leaves an error behind though
                   \*            it succeeds (a constructor failed to find
                   \*            something)
                   \*   factory: what dlsym finds
    MaxFiles       \* bound: how many files the directory may hold

(***************************************************************************)
(* How a name of a file or directory looks to the loader: ".so" occurs in  *)
(* it, as in the names of libraries, or does not.                          *)
(***************************************************************************)
NameShape == {"plain", "*.so*"}

ASSUME LibraryAssumption ==
    /\ NoFactory \notin Factory
    /\ MaxFiles \in Nat
    /\ \A l \in Library :
          /\ l.path \in Seq(NameShape) /\ l.path # <<>>
          /\ l.opens \in BOOLEAN
          /\ l.noisy \in BOOLEAN
          /\ l.factory \in Factory \cup {NoFactory}

VARIABLES
    directory,  \* the files, in the order in which they are iterated over
    makes,      \* what each createHandler does: "plugin", "null" or "throws"
    looked,     \* how many files getLibraryList has looked at
    libs,       \* the paths that getLibraryList has put on its list
    pos,        \* the number of the library that is next
    pending,    \* whether the dynamic loader has an error to report
    seen,       \* the createHandler functions met so far
    ran,        \* history: the createHandler functions called, in order
    handlers,   \* the plugins registered, each named by what created it
    pc          \* "list", "loop" or "done"

loadVars ==
    <<directory, makes, looked, libs, pos, pending, seen, ran, handlers, pc>>

rigid == <<directory, makes>>

LoadInit ==
    /\ directory \in UNION {[1 .. n -> Library] : n \in 0 .. MaxFiles}
    /\ makes \in [Factory -> {"plugin", "null", "throws"}]
    /\ looked = 0
    /\ libs = <<>>
    /\ pos = 1
    /\ pending \in BOOLEAN
    /\ seen = {}
    /\ ran = <<>>
    /\ handlers = <<>>
    /\ pc = "list"

(***************************************************************************)
(* matchBlobHandler looks for ".so" anywhere in the path of the file.      *)
(***************************************************************************)
MatchBlobHandler(path) == \E i \in DOMAIN path : path[i] # "plain"

\* getLibraryList throws when a directory cannot be read, and the list is lost;
\* the exception is caught in setupBlobGlobalHandler and no plugin is loaded.
ListFails ==
    /\ pc = "list"
    /\ pc' = "done"
    /\ libs' = <<>>
    /\ UNCHANGED <<rigid, looked, pos, pending, seen, ran, handlers>>

file == directory[looked + 1]

LookAt ==
    /\ pc = "list"
    /\ looked < Len(directory)
    /\ looked' = looked + 1
    /\ UNCHANGED <<rigid, pos, pending, seen, ran, handlers, pc>>

ListFile ==
    /\ LookAt
    /\ MatchBlobHandler(file.path)
    /\ libs' = Append(libs, file)

PassOver ==
    /\ LookAt
    /\ ~MatchBlobHandler(file.path)
    /\ UNCHANGED libs

ListEnds ==
    /\ pc = "list"
    /\ looked = Len(directory)
    /\ pc' = "loop"
    /\ UNCHANGED <<rigid, looked, libs, pos, pending, seen, ran, handlers>>

(***************************************************************************)
(* The loop.  dlerror reports the last error since it was last called.     *)
(***************************************************************************)
lib == libs[pos]

\* Slip: the loop steps over a library.
AdvanceTwice ==
    /\ pc = "loop"
    /\ pos <= Len(libs)
    /\ pos' = pos + 2
    /\ UNCHANGED <<rigid, looked, libs, pc>>

Advance ==
    /\ pc = "loop"
    /\ pos <= Len(libs)
    /\ pos' = pos + 1
    /\ UNCHANGED <<rigid, looked, libs, pc>>

\* Slip: the library is tried again.
OpenFailsAgain ==
    /\ pc = "loop"
    /\ pos <= Len(libs)
    /\ ~lib.opens
    /\ pending' = FALSE
    /\ UNCHANGED <<rigid, looked, libs, pos, seen, ran, handlers, pc>>

\* dlopen returns null; the message that reports it takes the error.
OpenFails ==
    /\ Advance
    /\ ~lib.opens
    /\ pending' = FALSE
    /\ UNCHANGED <<seen, ran, handlers>>

\* Slip: dlerror is not called before dlsym.
KeepError(error) == error

\* The first call of dlerror, which takes what is left of earlier errors.
ClearError(error) == FALSE

\* What the second one, after dlsym, reports.
ErrorAfterSym ==
    ClearError(pending \/ lib.noisy) \/ lib.factory = NoFactory

SymbolFails ==
    /\ Advance
    /\ lib.opens
    /\ ErrorAfterSym
    /\ pending' = FALSE
    /\ UNCHANGED <<seen, ran, handlers>>

\* The library is another name of one that was there before.
Duplicate ==
    /\ Advance
    /\ lib.opens
    /\ ~ErrorAfterSym
    /\ lib.factory \in seen
    /\ pending' = FALSE
    /\ UNCHANGED <<seen, ran, handlers>>

\* Slip: a function that fails is not remembered.
RunUnseen(outcome) ==
    /\ Advance
    /\ lib.opens
    /\ ~ErrorAfterSym
    /\ lib.factory \notin seen
    /\ makes[lib.factory] = outcome
    /\ seen' = IF outcome = "plugin" THEN seen \cup {lib.factory} ELSE seen
    /\ ran' = Append(ran, lib.factory)
    /\ pending' \in BOOLEAN

\* Slip: no function is remembered.
RunForgets(outcome) ==
    /\ Advance
    /\ lib.opens
    /\ ~ErrorAfterSym
    /\ lib.factory \notin seen
    /\ makes[lib.factory] = outcome
    /\ ran' = Append(ran, lib.factory)
    /\ pending' \in BOOLEAN
    /\ UNCHANGED seen

\* createHandler is remembered, then called; it may use the dynamic loader
\* itself.
Run(outcome) ==
    /\ Advance
    /\ lib.opens
    /\ ~ErrorAfterSym
    /\ lib.factory \notin seen
    /\ makes[lib.factory] = outcome
    /\ seen' = seen \cup {lib.factory}
    /\ ran' = Append(ran, lib.factory)
    /\ pending' \in BOOLEAN

RunNull ==
    /\ Run("null")
    /\ UNCHANGED handlers

RunThrows ==
    /\ Run("throws")
    /\ UNCHANGED handlers

\* registerHandler.
RunRegisters ==
    /\ Run("plugin")
    /\ handlers' = Append(handlers, lib.factory)

LoopEnds ==
    /\ pc = "loop"
    /\ pos > Len(libs)
    /\ pc' = "done"
    /\ UNCHANGED <<rigid, looked, libs, pos, pending, seen, ran, handlers>>

LoadNext ==
    \/ ListFails
    \/ ListFile
    \/ PassOver
    \/ ListEnds
    \/ OpenFails
    \/ SymbolFails
    \/ Duplicate
    \/ RunNull
    \/ RunThrows
    \/ RunRegisters
    \/ LoopEnds

\* The constructor runs before the daemon serves anything.
LoadSpec == LoadInit /\ [][LoadNext]_loadVars /\ WF_loadVars(LoadNext)
-----------------------------------------------------------------------------
LoadTypeOK ==
    /\ looked \in 0 .. Len(directory)
    /\ libs \in Seq(Library)
    /\ pos \in 1 .. (Len(libs) + 1)
    /\ pending \in BOOLEAN
    /\ seen \subseteq Factory
    /\ ran \in Seq(Factory)
    /\ handlers \in Seq(Factory)
    /\ pc \in {"list", "loop", "done"}

(***************************************************************************)
(* What should be on the list and what should be registered.  `out' is     *)
(* what `list' has at the places `places', in the same order.              *)
(***************************************************************************)
Rank(i, places) == Cardinality({j \in places : j <= i})

IsSelection(out, places, list) ==
    /\ Len(out) = Cardinality(places)
    /\ \A i \in places : out[Rank(i, places)] = list[i]

LibrariesAmong(n) == {i \in 1 .. n : MatchBlobHandler(directory[i].path)}

Loadable(l) == l.opens /\ l.factory # NoFactory

FirstOfItsKind(i) ==
    \A j \in 1 .. (i - 1) :
        Loadable(libs[j]) => libs[j].factory # libs[i].factory

GoodBefore(n) ==
    {i \in 1 .. (n - 1) : /\ Loadable(libs[i])
                          /\ FirstOfItsKind(i)
                          /\ makes[libs[i].factory] = "plugin"}

\* Each file that passes for a library, that can be opened and that has a
\* createHandler that gives a plugin gets it registered, once, in the order in
\* which the files were found: no failure of another library and no error that
\* the dynamic loader still holds makes it skip one.
GoodPluginsAreLoaded ==
    /\ pc # "done" => IsSelection(libs, LibrariesAmong(looked), directory)
    /\ IsSelection(handlers, GoodBefore(pos),
                   [i \in 1 .. Len(libs) |-> libs[i].factory])

\* createHandler of a library is called once, under however many names the
\* library is there and whatever came of the call.
FactoriesRunOnce == IsInjective(ran)

\* Whatever fails, the start of the service comes to an end.
LoadEnds == <>(pc = "done")

(***************************************************************************)
(* To the manager, the loader is a caller that registers plugins.          *)
(***************************************************************************)
Manager == INSTANCE BlobManager WITH
    Handler <- Factory, Path <- {}, SessionCount <- 2, sessionTimeout <- 0,
    FlagSets <- {}, Claims <- [p \in {} |-> {}],
    next <- 0, sessions <- [s \in {} |-> {}], openFiles <- [p \in {} |-> 0],
    openSessions <- [f \in Factory |-> {}], calls <- {}

\* Loading is a behaviour of the manager of BlobManager.tla, in which no
\* plugin is registered twice.
RegistersWithManager == Manager!Spec
=============================================================================
