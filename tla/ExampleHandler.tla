--------------------------- MODULE ExampleHandler ---------------------------
(***************************************************************************)
(* The example plugin (example/example.cpp): one blob, a staging buffer of *)
(* fixed size for each session, and a length up to which it was written.   *)
(*                                                                         *)
(* Each virtual call is one step.  Any session id may be passed, open or   *)
(* not; what the manager really passes is in ExampleOnManager.  The fields *)
(* sessionId, flags and state of ExampleBlob are left out: the first two   *)
(* are never read and the third never changes.                             *)
(***************************************************************************)
EXTENDS Integers, Sequences

CONSTANTS
    Session,        \* the session ids that callers may pass
    BlobId,         \* the blob ids that callers may pass
    supportedPath,  \* "/dev/fake/command"
    kBufferSize,    \* the size of a session's buffer; 1024 in the code
    WordModulus,    \* one more than the largest uint32_t; 2^32 in the code
    Byte,           \* the bytes that callers may write
    Offset,         \* the offsets that callers may pass, and
    Size            \* the sizes: of the data for write, requested for read

ASSUME BufferAssumption ==
    /\ kBufferSize \in Nat
    /\ WordModulus \in Nat
    /\ 0 < kBufferSize
    /\ kBufferSize < WordModulus

ASSUME InputAssumption ==
    /\ Offset \subseteq 0 .. (WordModulus - 1)
    /\ Size \subseteq 0 .. (WordModulus - 1)
    /\ supportedPath \in BlobId

(***************************************************************************)
(* A byte of a buffer that was never written is whatever the memory held:  *)
(* the constructor that open() uses leaves the buffer alone.  Outside      *)
(* stands for what lies behind the buffer.                                 *)
(***************************************************************************)
Indeterminate == "indeterminate"
Outside       == "outside"

ASSUME ByteAssumption == {Indeterminate, Outside} \cap Byte = {}

VARIABLES
    blobs,     \* the sessions: a partial function from ids to ExampleBlobs
    answer,    \* what the last call returned: true or false, bytes, a size, ids
    copied     \* the places in a buffer that its memcpy copied to or from

exampleVars == <<blobs, answer, copied>>

Cell == 0 .. (kBufferSize - 1)

ExampleBlob == [length : 0 .. kBufferSize,
                buffer : [Cell -> Byte \cup {Indeterminate}]]

NewBlob == [length |-> 0, buffer |-> [i \in Cell |-> Indeterminate]]

(***************************************************************************)
(* What calls return.  A read counts as successful when it returns bytes,  *)
(* as it does for the manager.                                             *)
(***************************************************************************)
Answer == [ok    : BOOLEAN,
           bytes : Seq(Byte \cup {Indeterminate, Outside}),
           size  : Nat] \cup [ids : Seq(BlobId)]

No          == [ok |-> FALSE, bytes |-> <<>>, size |-> 0]
Yes         == [ok |-> TRUE, bytes |-> <<>>, size |-> 0]
Bytes(data) == [ok |-> data # <<>>, bytes |-> data, size |-> 0]
Length(n)   == [ok |-> TRUE, bytes |-> <<>>, size |-> n]
Ids(list)   == [ids |-> list]

ExampleInit ==
    /\ blobs = [s \in {} |-> NewBlob]
    /\ answer = No
    /\ copied = {}

(***************************************************************************)
(* getSession, with its result not null.                                   *)
(***************************************************************************)
GetSession(s) == s \in DOMAIN blobs

CanHandleBlob(p) == p = supportedPath

\* A call that returns a value and does nothing else.
Just(value) ==
    /\ answer' = value
    /\ copied' = {}
    /\ UNCHANGED blobs

GetBlobIds == Just(Ids(<<supportedPath>>))

OpenBlob(s, p) ==
    \/ /\ ~CanHandleBlob(p) \/ GetSession(s)
       /\ Just(No)
    \/ /\ CanHandleBlob(p)
       /\ ~GetSession(s)
       /\ blobs' = [t \in DOMAIN blobs \cup {s} |->
                       IF t = s THEN NewBlob ELSE blobs[t]]
       /\ answer' = Yes
       /\ copied' = {}

(***************************************************************************)
(* Subtraction of unsigned words, and the places that memcpy touches.      *)
(***************************************************************************)
\* Slip: the offset is not taken off.
RemainWhole(offset) == kBufferSize

Remain(offset) == (kBufferSize - offset) % WordModulus

Span(offset, count) == offset .. (offset + count - 1)

NumBytes(offset, requestedSize) ==
    IF Remain(offset) < requestedSize THEN Remain(offset) ELSE requestedSize

\* Slip: an offset beyond the array is not turned away.
NeverBeyondArray(offset) == FALSE

BeyondArray(offset) == offset >= kBufferSize

ReadBlob(s, offset, requestedSize) ==
    \/ /\ ~GetSession(s) \/ BeyondArray(offset)
       /\ Just(No)
    \/ /\ GetSession(s)
       /\ ~BeyondArray(offset)
       /\ LET count == NumBytes(offset, requestedSize)
              at(i) == IF i \in Cell THEN blobs[s].buffer[i] ELSE Outside
          IN  /\ answer' = Bytes([i \in 1 .. count |-> at(offset + i - 1)])
              /\ copied' = Span(offset, count)
       /\ UNCHANGED blobs

\* Slip: the length is set to the end of the last write.
LengthAfterLastWrite(s, offset, size) == offset + size

LengthAfter(s, offset, size) ==
    IF blobs[s].length < offset + size THEN offset + size ELSE blobs[s].length

\* data is a sequence of bytes.
WriteBlob(s, offset, data) ==
    \/ /\ \/ ~GetSession(s)
          \/ BeyondArray(offset)
          \/ Len(data) > Remain(offset)
       /\ Just(No)
    \/ /\ GetSession(s)
       /\ ~BeyondArray(offset)
       /\ Len(data) <= Remain(offset)
       /\ blobs' = [blobs EXCEPT
             ![s] = [length |-> LengthAfter(s, offset, Len(data)),
                     buffer |-> [i \in Cell |->
                                    IF i \in Span(offset, Len(data))
                                    THEN data[i - offset + 1]
                                    ELSE @.buffer[i]]]]
       /\ answer' = Yes
       /\ copied' = Span(offset, Len(data))

\* Slip: the session stays in the map.
CloseKeeps(s) ==
    /\ GetSession(s)
    /\ Just(Yes)

CloseFound(s) ==
    /\ GetSession(s)
    /\ blobs' = [t \in DOMAIN blobs \ {s} |-> blobs[t]]
    /\ answer' = Yes
    /\ copied' = {}

CloseBlob(s) ==
    \/ ~GetSession(s) /\ Just(No)
    \/ CloseFound(s)

\* meta: whether the caller passes a place for the answer, the length.
StatSession(s, meta) ==
    \/ ~(GetSession(s) /\ meta) /\ Just(No)
    \/ GetSession(s) /\ meta /\ Just(Length(blobs[s].length))

(***************************************************************************)
(* Calls that the plugin does not support; commit and expire look the      *)
(* session up and answer false with it and without it.                     *)
(***************************************************************************)
DeleteBlob(p) == Just(No)
StatPath(p)   == Just(No)
WriteMeta(s)  == Just(No)
Commit(s)     == Just(No)
Expire(s)     == Just(No)

\* The data that callers may write.
Data == UNION {[1 .. n -> Byte] : n \in Size}

ExampleNext ==
    \/ GetBlobIds
    \/ \E s \in Session, p \in BlobId : OpenBlob(s, p)
    \/ \E s \in Session, o \in Offset, n \in Size : ReadBlob(s, o, n)
    \/ \E s \in Session, o \in Offset, d \in Data : WriteBlob(s, o, d)
    \/ \E s \in Session : CloseBlob(s)
    \/ \E s \in Session, meta \in BOOLEAN : StatSession(s, meta)
    \/ \E p \in BlobId : DeleteBlob(p) \/ StatPath(p)
    \/ \E s \in Session : WriteMeta(s) \/ Commit(s) \/ Expire(s)

ExampleSpec == ExampleInit /\ [][ExampleNext]_exampleVars
-----------------------------------------------------------------------------
ExampleTypeOK ==
    /\ DOMAIN blobs \subseteq Session
    /\ blobs \in [DOMAIN blobs -> ExampleBlob]
    /\ answer \in Answer
    /\ copied \subseteq Nat

\* No offset and no size, the largest words included, makes a memcpy leave
\* the buffer: the unsigned subtractions in read and write never wrap.
StaysInBuffer == copied \subseteq Cell

\* What stat reports as the size covers every byte that was written, whatever
\* the order of the writes: a write to an earlier place or in another session
\* takes nothing away from it.
LengthIsHighWater ==
    \A s \in DOMAIN blobs, i \in Cell :
        blobs[s].buffer[i] # Indeterminate => i < blobs[s].length
=============================================================================
