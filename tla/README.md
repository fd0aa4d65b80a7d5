# TLA+ verification of phosphor-ipmi-blobs

phosphor-ipmi-blobs is a plugin host inside OpenBMC's IPMI daemon. Clients on the
host send blob commands; the daemon routes each to the plugin ("handler") that owns
the blob. This directory holds TLA+ models of that code, the TLC runs that check
them on small instances, and TLAPS proofs of the main results for all instances.

## Inventory

| component | state | operations | how it interacts |
|---|---|---|---|
| blob manager (`manager.cpp`) | `handlers`, `next`, `sessions`, `openFiles`, `openSessions`, `ids` | registerHandler, open, read, write, writeMeta, commit, stat (by session, by path), close, deleteBlob, buildBlobList, getBlobId | called by the command handlers, calls plugins, reads the steady clock |
| command handlers (`ipmi.cpp`) | none | one function per command | take a payload, call one manager method, build a reply |
| request processing (`process.cpp`) | none | validateBlobCommand, processBlobCommand, handleBlobCommand | length and CRC checks before a handler, size check after it |
| plugins (`blobs-ipmid/blobs.hpp`) | their own | canHandleBlob, getBlobIds, open, ..., expire | shared libraries, called by the manager only |
| example plugin (`example/`) | a map of its own from sessions to buffers with a length | the plugin interface | one particular plugin; its map mirrors the manager's |
| loader (`utils.cpp`, `fs.cpp`, `internal/sys.cpp`) | `seen` while it runs; the error that `dlerror` holds | loadLibraries, getLibraryList | registers plugins at startup |
| registration (`main.cpp`) | none | setupBlobGlobalHandler | gives the daemon the callback; passes the channel's size limit; starts the loader |
| clients and transport (external) | the request a client waits for, the session it holds | send, send again, go away | requests and replies get lost on the way |

The daemon is single threaded, so a command is atomic. What is hard is elsewhere:

* several clients interleave their command sequences on one table of sessions;
* any plugin call may fail, in the middle of a manager method that has already done
  part of its work;
* three tables describe the same sessions and are updated by hand;
* session ids are a 16-bit counter that wraps, and can run out;
* abandoned sessions are reclaimed only as a side effect of somebody else's open;
* the transport damages, loses and repeats requests, loses replies, and limits their
  size; a client that hears nothing cannot know what happened to its request;
* unsigned and 16-bit arithmetic decides where loops end and where copies stay;
* at startup any library may fail, in several ways, and leave an error behind.

What makes each component correct: the manager's tables agree with each other, plugins
are called only as the calling contract allows, abandoned sessions go away; the
command layer reads only what a request contains, ignores damaged requests, and tells
clients what really happened; a client that missed a reply does not soon end up in
somebody else's session, and the session it does not know of does not stay; a plugin's
sessions are the manager's, and it copies only within its buffers; every good library
is loaded once, whatever the others do. `PROJECT.json` lists the hazards line by line with the
properties that cover them.

## Modules

| module | models | 
|---|---|
| `BlobManager` | sessions and routing of the manager |
| `HandlerContract` | abstract: which calls a plugin may receive, given its own answers |
| `BlobCommand` | checks on requests and replies that do not involve the manager |
| `BlobService` | composition: command handlers on top of `BlobManager`, with the enumeration list |
| `BlobClients` | composition: retrying clients over a lossy transport, on top of `BlobService` |
| `GetSession` | the loop of `getSession`, one turn at a time, against the result that `BlobManager` gives |
| `ExampleHandler` | the example plugin, with any caller |
| `ExampleOnManager` | composition: `BlobManager` with the example plugin behind it |
| `LoadLibraries` | the loader at startup |
| `MCBlobManager`, `MCBlobService`, `MCBlobClients`, `MCExampleHandler`, `MCExampleOnManager`, `MCLoadLibraries` | instances for TLC (`GetSession` needs none) |
| `BlobManagerProofs`, `HandlerContractProofs`, `BlobServiceProofs`, `BlobClientsProofs`, `GetSessionProofs`, `ExampleHandlerProofs`, `ExampleOnManagerProofs`, `LoadLibrariesProofs` | theorems and proofs |

Operators marked `Slip` in a comment are not used by the specifications. Each is a
plausible mistake in the operator that follows it; replacing that operator by it makes TLC
report the property that guards against the mistake.

### BlobManager

The variables are the fields of `BlobManager` of the same names, except:

* `sessions[s].idle` stands for `now - lastActionTime`, in ticks, cut off at
  `sessionTimeout`, beyond which the code tells no difference;
* `openSessions[h] = {}` also stands for an absent entry (`cleanUpStaleSessions` does
  nothing in both cases);
* `calls` is not in the code: it holds the plugin calls of the last step with their
  answers, and is what the contract is about. For `read`, "ok" means that bytes came
  back.

Each manager method is one action and each of its early returns a disjunct:

| code | model |
|---|---|
| `registerHandler` | `RegisterHandler`, `RegisterNull` |
| `getHandler` | `IsHandler`, `NoHandler` |
| `getSession` | `GetSessionFails`, `FirstFree`, `Candidate`, `NextAfter` |
| `getActionHandler` | `HasActionHandler`, `Touched` |
| `open` | `Open`: `Refuse` (no plugin), `OpenWithoutSession`, `OpenWithoutMode`, `OpenWithSession` |
| `cleanUpStaleSessions` | `Stale`, `ExpireCalls`, and the set `expired` of those the plugin agrees to |
| `eraseSession` | `SessionsWithout`, `FilesWithout` |
| `read`, `write`, `writeMeta`, `commit`, `stat(session)` | `Read`, ..., all `Forward` |
| `close` | `Close`: `Refuse`, `CloseRefused`, `CloseDone` |
| `deleteBlob`, `stat(path)` | `DeleteBlob`, `Stat` |

The getSession loop is given by its result: the first free id among the `SessionCount - 1`
tried; `GetSession` shows that the loop gives it. `Tick` is the clock. Plugins are
external; `Claims[p]` gives the sets of plugins that may answer `canHandleBlob(p)` with
true, which may be one fixed set or change from call to call. Plugins may be registered at
any time, as the class allows; the daemon registers them only at startup, which is how
`BlobService` begins.

### HandlerContract

`live`, the plugins' view of their sessions, is a function of the calls they received
and the answers they gave. The clauses (`FreshIds`, `OnlyLive`, `OnlyQuiet`,
`OnlyUnused`, `OneRequest`) are the README's "Handler Calling Contract" and the
rule of `manager.hpp` that expire is called on stale sessions. `BlobManager`
implements it with the refinement mapping `Contract`, which reads `live` off
`sessions`. The contract's first clause (open only if the plugin can handle the path)
is in the guard `IsHandler` and not restated.

### BlobCommand and BlobService

A request is a record of the command, the number `len` of payload bytes after the
command byte, `crcOk`, and the fields the command has. Byte contents are abstracted
away; lengths are not, because the checks are about lengths. `ValidateBlobCommand` keeps
the order of the checks: length table, CRC, unknown command. A payload of one byte
is not checked against a CRC, as in the code. `HandlerAccepts` collects the checks at
the head of the handlers, all of which end in the same completion code before the
manager is called. `BytesRead` is what a handler takes from fixed places.

`BlobService` runs a whole command per step: checks, the manager action, the reply
and `processBlobCommand`. A manager method returned true exactly when the plugin call
with its name did (`Granted`). `known` and `counted` are history variables computed
from requests and replies only: what clients have been told. `listed` is one, too: what
each plugin answered to `getBlobIds` at the last count. `Loaded` gives the lists of
plugins that `setupBlobGlobalHandler` may have left registered before the first request;
none is added later. The only step without a request is the clock's (`Background`);
`NoRequest` and `NoReply` mark it.

Bounds in the modules: `SizeModulus` (2^30) stands for the 2^64 of `size_t`, because
TLC's integers have 32 bits; no length comes near either.

### GetSession

One action per turn of the loop: `Take` when `next` is free, `TryAnother` when it is in
use, with `++` on `next` and on `tries` modulo `SessionCount` (`Incremented`). `Call` and
`Return` are the call and what `open` makes of its result, `Release` stands for the
closes in between. `start` remembers where the search began; the module instantiates
`BlobManager` with it, so that `LoopFindsFirstFree` compares the loop with the very
operators (`FirstFree`, `Candidate`, `NextAfter`, `GetSessionFails`) that `Open` uses.

### BlobClients

A client has at most one request under way. `Hear` serves it and delivers the reply;
`LoseReply` serves it and delivers nothing, so that the client sends it again, as the
repository's README tells it to; a request lost on its way is no step. `GoAway` is a
client that gives up, at any moment. Strangers open sessions and are not heard of again.
The histories are `owner` (whose open began a session) and `tried` (the ids that
getSession has tried since it last gave the client one), and `first` is what the reply
said that was lost. A request is a whole step of `BlobService`.

### ExampleHandler and ExampleOnManager

Each virtual function of `example.cpp` is an action with one disjunct per return;
`canHandleBlob`, which only answers, is an operator.
Offsets and sizes are words modulo `WordModulus` (2^32 in the code) and `Remain`
subtracts in that arithmetic. A byte that was never written is `Indeterminate`, because
the constructor that `open` uses does not set the buffer, and a byte from behind the
buffer would be `Outside`. `copied` is not in the code: the places that the last memcpy
touched.

`ExampleOnManager` conjoins a step of `BlobManager` with what the plugin does: for each
call in `calls'` to the plugin `example`, `Dispatch` is the virtual function and `c.ok`
its answer. Other plugins keep answering anything. All calls of one step other than
`expire` are one call, and `expire` changes nothing in this plugin, so the order of the
calls within a step does not matter.

### LoadLibraries

One turn of the loop of `loadLibraries` is one step; each `continue` and the end of the
loop body is an action: `OpenFails`, `SymbolFails`, `Duplicate`, `RunNull`, `RunThrows`,
`RunRegisters`. Before it, one turn of the loop of `getLibraryList` is one step:
`ListFile` or `PassOver` for each file, then `ListEnds`; `ListFails` is its exception,
which may come at any file, loses the list and is caught in `setupBlobGlobalHandler`.
What should be on the list and what should be registered is stated by places
(`IsSelection`): the chosen places of a sequence, each with its rank among them.
`pending` is the error that the dynamic loader holds for
`dlerror`; a library's constructor or its factory may leave one. A name is reduced to
whether ".so" occurs in it. `Factory` are addresses: two files with one factory are one
library under two names. The module instantiates `BlobManager` with `handlers` as
loading fills it.

## Runs

| run | instance | checks | result |
|---|---|---|---|
| `manager` | 2 plugins that may change their minds, 2 blobs, 3 ids, timeout 1, flags r / w / none | `TypeOK`, `OpenFilesCountSessions`, `OpenSessionsIndexSessions`, `OpenSessionsAreUsable`, `HonoursContract` | hold |
| `manager_live` | 2 plugins with fixed claims, one blob claimed by both, 3 ids, fair | `StaleSessionsReclaimed`, `BlobHasOneHandler` | hold |
| `get_session` | 4 ids, every set of used ids | `TypeOK`, `LoopFindsFirstFree`, `SearchEnds` | hold |
| `service` | 1 plugin or none, 1 blob, 3 ids; every session command and one enumeration, well formed, one byte short, damaged, unterminated, with no or one byte of payload | `ServiceTypeOK`, `ReadsWithinPayload`, `SessionsAreKnown`, `MetadataLenIsExact`, `DamagedRequestsAreHarmless`, `SessionsBeginKnowingly`, `SessionsEndKnowingly` | hold |
| `listing` | up to 2 plugins with changing lists, one listed id empty, indexes 0..4, with opens, closes and deletes in between | `CountedBlobsAreListed` | holds |
| `clients` | 1 client among strangers, 1 plugin, 3 ids, timeout 1; open, read, close; fair | `ClientsTypeOK`, `ForeignIdsAreOld`, `LostSessionsReclaimed` | hold |
| `example` | buffer of 3 bytes, words 0..7, every offset, 2 sessions | `ExampleTypeOK`, `StaysInBuffer`, `LengthIsHighWater` | hold |
| `example_on_manager` | the example plugin and another one that claims its blob too, 3 ids | `SameSessions`, `ExampleNeverRefuses` | hold |
| `load` | directories of up to 3 files of every kind, 2 factories | `LoadTypeOK`, `GoodPluginsAreLoaded`, `FactoriesRunOnce`, `LoadEnds`, `RegistersWithManager` | hold |

Three more runs check statements of the documentation or of comments that the code does
not live up to; TLC refutes each (details under "findings" in `PROJECT.json`):

| run | statement | what happens |
|---|---|---|
| `stale_freed` | stale sessions are freed by the open command | once every id is in use, open fails before it cleans up, and nothing but a close by a client changes that |
| `fails_only_when_full` | getSession fails only when no id is available | it tries one id fewer than there are |
| `retries` | a repeated command returns the same value | a close that succeeded unheard is answered with an error when it is repeated |

Other places where code and documentation differ are visible in one definition each and
have no run:

* collecting ids one by one is subject to concurrent modification by opens and deletes
  (repository README, lines 94-96); `EnumerateBlob` reads a copy that was made at the
  last count, so they change no answer (`CountedBlobsAreListed`). What does change the
  answers is another client's count at which plugins list something else
  (`GetBlobCount`): there is one copy for all clients, and the one that is halfway through
  has no way to notice. An id may also be gone by the time it is used, as everywhere;
* the scan for stale sessions goes over each open session, at most once every minute
  (repository README, lines 365-370); `ExpireCalls` covers the sessions of the one plugin
  that the open reached, at every open;
* a stat closes a blob that has been inactive (repository README, lines 298-300); `Stat`
  closes nothing;
* `openFiles` is the "mapping of open blobIds" (`manager.hpp`, line 278); `DeleteBlob`
  leaves a zero entry for any name that a client tries to delete;
* a read at the end of the blob returns no bytes (repository README, lines 168-170);
  the example plugin's `ReadBlob` goes on to the end of its buffer, and hands out bytes
  that were never written;
* each blob type defines a cleansing routine (repository README, line 364); that of the
  example plugin, `Expire`, always refuses (a TODO in the code), so its abandoned
  sessions are never reclaimed;
* only `lib*.so.?` is cared for (`utils.hpp`, line 17); `MatchBlobHandler` takes any path
  with ".so" anywhere in it, directories included.

### Bounds, and why they are enough

Three ids are the smallest number with a wrapping search that both skips a used id and
misses the last one; two sessions on one blob and one on another exist at the same time.
Timeout 1 gives fresh and stale sessions, timeout 0 makes every session stale. Two plugins
and two blobs are the fewest on which routing, the counts and the index can be confused.
`get_session` starts from every set of used ids and every `next` that can be reached, so
that a search wraps, skips, finds and fails. In `manager` plugins and blobs are
interchangeable, so symmetry is used there (it has no liveness property). In `service` the
channel sizes are 6 (the smallest assumed) and 256 (the largest packet the repository's
README mentions), and the metadata sizes 0, 247 (just fits) and 256 (wraps 8 bits). Above
a limit of 264 bytes the property `MetadataLenIsExact` would fail, since a length of 256
would be sent as 0.

In `clients` one client is enough: whoever else matters to it is a stranger, and an id
that is somebody else's is a stranger's. Three ids let one come round to the client that
lost it while another is in use. Timeout 1 and requests that are repeated at any time
cover an expiry between a request and its repetition. In `example` the buffer is
smaller than half the words, so that offsets and sizes beyond it, and differences that
would wrap, all occur; the sizes are 0, up to the buffer's 3, 4, and the largest word. In
`example_on_manager` the buffer has one byte, since only the two session tables are
compared. Three files are the fewest with a good library after a duplicate, a failure
after either, or a leftover error in between.

`CHECK_DEADLOCK` is off in `load` only: loading ends. Everything else never stops.

### Fairness

`Fairness` of the manager says that time passes (WF), that requests to open each blob
keep coming (WF; the repository's README tells clients to send with retries), and that, as
long as a plugin can be reached now and then, opens that reach it occur for which it
agrees to expire what it is asked (SF). That it agrees is an assumption on plugins. That
fairness is strong here is one on clients: an open whose search for an id failed just
then, because the last id it tried is not the free one, is sent again, and the next
search begins elsewhere. Under it `StaleSessionsReclaimed` holds unless every id
comes to be in use (`TableFull`). `stale_freed` shows that this escape is needed, and
that the full table is what it takes: with strong fairness neither a plugin that refuses
nor the id that a search misses can keep a session for ever.

`ClientsFairness` puts the same on clients: time passes, a client has something to ask
again and again and asks to close now and then (SF, since it need not be at the moment
when it has the chance), and a command that it keeps sending gets through and is
answered in the end, also by a plugin that agrees. An open that fails in getSession is
such an answer, so the escape of `LostSessionsReclaimed` is wider: that getSession may
fail.

`GetSession` and `LoadLibraries` have weak fairness of their loop: each runs in the
daemon's single thread without giving way.

## Proofs

All theorems are for every number of session ids greater than one, every set of
plugins and blobs, every timeout, every set of requests, every size of buffer and
whatever plugins answer, from the named assumptions in the modules. Three are about the
environment: `MaxSizesAssumption`, that every channel can carry 6 bytes,
`ExampleAssumption`, that the example plugin claims its own blob and no other, and
`LibraryAssumption`, what a library can be. `ClientAssumption` says that strangers are
none of the clients that are followed. Every safety property that a passing run checks
is the subject of a theorem.

* `BlobManagerProofs`: `TypeCorrect`, `DeleteCountsSessions`, `IndexIsExact`,
  `SessionsStayUsable`. The inductive invariant is `Consistent`, the conjunction of
  the four. None of `TypeOK` and the counts is inductive alone: a count stays a natural
  number because it was the number of sessions, and erasing expired sessions keeps it
  right because the index lists only sessions of the table. `EraseKeepsCounts` and
  `GrantKeepsCounts` carry the arithmetic, from cardinalities of finite sets;
  `GetSessionFindsFree` gives that a granted id was free.
  `OneHandlerForEachBlob` assumes `FixedClaims` (plugins stick to their answers); its
  invariant `Routed` says that each session is with the first registered plugin that
  claims its blob, which a later registration, being last in the list, cannot change.
  `OnlyCloseFreesAFullTable` is what `stale_freed` shows on three ids, for any number:
  when the table is full, `FullHasNoneFree` makes every open stop before the clean-up.
  `AgreedOpensReclaim` and `OnlyUseRevives` are the steps behind `StaleSessionsReclaimed`:
  a stale session only ends or is used, and an open that reaches its plugin ends it if the
  plugin agrees, because the index misses no session of the plugin.
* `HandlerContractProofs`: `ManagerHonoursContract`, the refinement. Each action maps to
  `Serve` or `Elapse` of the contract. `DeleteBlobView` needs the counts, and
  `CleanUpAndOpenView` the index.
* `BlobServiceProofs`: each request is one step of the manager
  (`ServiceStepIsManagerStep`), so its invariant `Consistent` holds behind the command
  layer, from whatever plugins were loaded. `PayloadsAreCovered` and `DamageIsHarmless`
  rest on the table of smallest lengths: it covers every structure, and, by
  `DamagedIsTurnedAway`, leaves only `BmcBlobGetCount` a payload too short for a CRC.
  `NoUnknownSessions`, `NoSessionUnasked` and `NoSessionLost` say which sessions there
  are, how they begin and how they end. `MetadataLenFits` assumes `SmallChannels` (at most
  264 bytes): a reply that got through the size check then has at most 255 bytes of
  metadata. `ServiceTypes` and `CountsAreHonoured` are about the enumeration list. Their
  invariant is `ServiceInv`: `Consistent`, the types, and `CountIsLength`, that the list
  is what the plugins answered and the last count told its length; only a count replaces
  the list. That the concatenation of what the plugins list is again a sequence of ids
  (`FlattenType`) is a fact about a recursive function. It is proved by `NatSetInduction`,
  induction over a set of natural numbers (a smallest number outside it would be the
  successor of one inside), which also gives that the function exists (`JoinExists`).
* `BlobClientsProofs`: `ClientsImplementService`, `ClientsTypes` and `LostIdsAreOld`. The
  ids lie on a circle, on which `Ahead` counts the distance; one search covers the arc
  from `next` to the new `next` (`TriedIsArc`) and grants the last id in it
  (`GrantedIsLast`). The invariant `Aged` says of the id that a client holds: everything
  from behind it up to `next` has been tried since it was given out, and if the id is
  somebody else's by now, so has everything else. `ForeignIdsAreOld` alone is not
  inductive: at the moment when the id is given to somebody else, only the arc says what
  was tried before (`ArcGrows`). `Aged` also needs that a client that holds a session does
  not ask to open one.
* `GetSessionProofs`: `LoopTypes` and `LoopIsGetSession`. The invariant `LoopInv` says that
  the ids from `start` to just before `next` are as many as `tries` and all in use.
  `SearchGetsNearerItsEnd` is the safety half of `SearchEnds`: `tries` grows below its
  limit.
* `ExampleHandlerProofs`: `ExampleTypes`, `NoCopyOutside`, `LengthCovers`, with the
  invariant `Sound`. Offsets below the size of the buffer make the unsigned subtractions
  plain ones, and both copies then end where the buffer does at the latest.
* `ExampleOnManagerProofs`: `TablesAgree` and `PluginServes`, from `Consistent` and
  `SameSessions` together: that a new id is free in the manager's table gives that it is
  free in the plugin's, and the index gives that a close names a session it has.
* `LoadLibrariesProofs`: `LoadTypes`, `GoodOnesAreLoaded`, `NoFactoryRunsTwice` and the
  refinement `LoadingIsRegistering`. In the invariant `LoadInv`, `seen` is exactly what
  the loadable libraries before `pos` have (`SeenIsWhatWasThere`), so that a library is
  the first of its kind exactly when its function is not in `seen`; what ran and what is
  registered is in `seen`. `SelectionGrows` is the lemma about both lists: looking at one
  more place and taking it keeps the order of the others. `LoadingGetsNearerItsEnd` is the
  safety half of `LoadEnds`: `StepsLeft` is a natural number that every step lowers.

Only model-checked are the liveness properties `StaleSessionsReclaimed`,
`LostSessionsReclaimed`, `SearchEnds` and `LoadEnds`, since liveness under fairness, and
with it that a step is enabled, is out of the prover's reach, and the three runs that end
in a violation. Nothing is proved about `SelectSeq`, which the prover cannot expand; the
lists of the loader are therefore stated by places.

## Not modelled

* The CRC algorithm and the CRC of replies; contents of blobs other than the example
  plugin's, of metadata and commit data; logging.
* How the directory tree is walked (the files come in any order), the `dl`
  wrappers, which pass calls through, and the daemon's own dispatch.
* Exceptions thrown by plugins during a command, plugins that call back into the
  manager, factories that throw something other than a `std::exception`, and a `dlsym`
  that returns null without an error: the code handles none of these.
* The fields `sessionId` and `flags` of the example plugin's sessions, which nothing
  reads, and `state`, which nothing changes.
* Clients that do other things than open, read and close, as processes: their
  requests are in `BlobService`, where any request may come at any time.

## Plan

Done: the manager with its contract, the command layer, the loop of getSession, clients
over a lossy transport, the example plugin alone and behind the manager, the loader.
What is left:

1. Deletes, commits and enumeration by clients as processes in `BlobClients`, where
   the state space allows it.
2. For all constants: the same two steps for `LostSessionsReclaimed`, through the
   command layer and the transport.
