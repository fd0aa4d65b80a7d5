------------------------ MODULE ExampleHandlerProofs ------------------------
(***************************************************************************)
(* The example plugin keeps to its buffer and its length is right, for     *)
(* every size of the buffer and of the machine's words, and for whatever   *)
(* sessions, offsets, sizes and data its callers pass.                     *)
(***************************************************************************)
EXTENDS ExampleHandler, TLAPS

\* The unsigned subtraction does not wrap behind the check of the offset.
LEMMA RemainIsExact ==
    ASSUME NEW o \in Offset, ~BeyondArray(o)
    PROVE  o \in Cell /\ Remain(o) = kBufferSize - o
<1>1. o \in Nat /\ o < kBufferSize
  BY BufferAssumption, InputAssumption DEF BeyondArray
<1>2. kBufferSize - o \in 0 .. (WordModulus - 1)
  BY <1>1, BufferAssumption
<1>3. \A n \in 0 .. (WordModulus - 1) : n % WordModulus = n
  BY BufferAssumption
<1> QED BY <1>1, <1>2, <1>3, BufferAssumption DEF Remain, Cell

\* A copy of as many bytes as remain ends inside the buffer.
LEMMA SpanInBuffer ==
    ASSUME NEW o \in Cell, NEW n \in Nat, n <= kBufferSize - o
    PROVE  Span(o, n) \subseteq Cell
BY BufferAssumption DEF Span, Cell

LEMMA ReadCount ==
    ASSUME NEW o \in Offset, NEW n \in Size, ~BeyondArray(o)
    PROVE  NumBytes(o, n) \in Nat /\ NumBytes(o, n) <= kBufferSize - o
BY RemainIsExact, BufferAssumption, InputAssumption DEF NumBytes, Cell

LEMMA DataBytes ==
    ASSUME NEW d \in Data
    PROVE  d \in Seq(Byte) /\ Len(d) \in Nat /\ \A i \in 1 .. Len(d) : d[i] \in Byte
<1>1. PICK n \in Size : d \in [1 .. n -> Byte]
  BY DEF Data
<1>2. n \in Nat
  BY InputAssumption
<1>3. d \in Seq(Byte)
  BY <1>1, <1>2
<1> QED BY <1>3

-----------------------------------------------------------------------------
(***************************************************************************)
(* The three invariants hold each other up: a length that a write computes *)
(* is at most the size of the buffer because the copy was in the buffer.   *)
(***************************************************************************)
Sound == ExampleTypeOK /\ StaysInBuffer /\ LengthIsHighWater

LEMMA InitSound == ExampleInit => Sound
<1> SUFFICES ASSUME ExampleInit PROVE Sound
  OBVIOUS
<1>1. answer \in Answer
  <2>1. <<>> \in Seq(Byte \cup {Indeterminate, Outside})
    OBVIOUS
  <2> QED BY <2>1 DEF ExampleInit, No, Answer
<1>2. DOMAIN blobs = {}
  BY DEF ExampleInit
<1> QED
  BY <1>1, <1>2 DEF ExampleInit, Sound, ExampleTypeOK, StaysInBuffer, LengthIsHighWater

\* Calls that leave the sessions as they are.
LEMMA JustSound ==
    ASSUME Sound, NEW v \in Answer, Just(v)
    PROVE  Sound'
BY DEF Just, Sound, ExampleTypeOK, StaysInBuffer, LengthIsHighWater

LEMMA NoAndYes == No \in Answer /\ Yes \in Answer
<1>1. <<>> \in Seq(Byte \cup {Indeterminate, Outside})
  OBVIOUS
<1> QED BY <1>1 DEF No, Yes, Answer

LEMMA OpenSound ==
    ASSUME Sound, NEW s \in Session, NEW p \in BlobId, OpenBlob(s, p)
    PROVE  Sound'
<1>1. CASE Just(No)
  BY <1>1, JustSound, NoAndYes
<1>2. CASE /\ ~GetSession(s)
           /\ blobs' = [t \in DOMAIN blobs \cup {s} |->
                           IF t = s THEN NewBlob ELSE blobs[t]]
           /\ answer' = Yes
           /\ copied' = {}
  <2>1. NewBlob \in ExampleBlob
    BY BufferAssumption DEF NewBlob, ExampleBlob
  <2>2. ExampleTypeOK'
    BY <1>2, <2>1, NoAndYes DEF Sound, ExampleTypeOK
  <2>3. LengthIsHighWater'
    BY <1>2 DEF Sound, LengthIsHighWater, NewBlob
  <2> QED BY <1>2, <2>2, <2>3 DEF Sound, StaysInBuffer
<1> QED BY <1>1, <1>2 DEF OpenBlob

LEMMA ReadSound ==
    ASSUME Sound, NEW s \in Session, NEW o \in Offset, NEW n \in Size,
           ReadBlob(s, o, n)
    PROVE  Sound'
<1>1. CASE Just(No)
  BY <1>1, JustSound, NoAndYes
<1>2. CASE GetSession(s) /\ ~BeyondArray(o) /\ ~Just(No)
  <2> DEFINE at(i) == IF i \in Cell THEN blobs[s].buffer[i] ELSE Outside
             data == [i \in 1 .. NumBytes(o, n) |-> at(o + i - 1)]
  <2>1. /\ answer' = Bytes(data)
        /\ copied' = Span(o, NumBytes(o, n))
        /\ UNCHANGED blobs
    BY <1>2 DEF ReadBlob
  <2>2. NumBytes(o, n) \in Nat /\ copied' \subseteq Cell
    BY <1>2, <2>1, ReadCount, RemainIsExact, SpanInBuffer
  <2>3. blobs[s] \in ExampleBlob
    BY <1>2 DEF GetSession, Sound, ExampleTypeOK
  <2>4. \A i \in Int : at(i) \in Byte \cup {Indeterminate, Outside}
    BY <2>3 DEF ExampleBlob
  <2>5. data \in Seq(Byte \cup {Indeterminate, Outside})
    <3>1. o \in Int
      BY InputAssumption, BufferAssumption
    <3>2. data \in [1 .. NumBytes(o, n) -> Byte \cup {Indeterminate, Outside}]
      BY <2>2, <2>4, <3>1
    <3> HIDE DEF data
    <3> QED BY <2>2, <3>2
  <2>6. answer' \in Answer
    <3> HIDE DEF data
    <3> QED BY <2>1, <2>5 DEF Bytes, Answer
  <2>7. copied' \subseteq Nat
    BY <2>2, BufferAssumption DEF Cell
  <2> QED
    BY <2>1, <2>2, <2>6, <2>7
       DEF Sound, ExampleTypeOK, StaysInBuffer, LengthIsHighWater
<1> QED BY <1>1, <1>2 DEF ReadBlob

LEMMA WriteSound ==
    ASSUME Sound, NEW s \in Session, NEW o \in Offset, NEW d \in Data,
           WriteBlob(s, o, d)
    PROVE  Sound'
<1>1. CASE Just(No)
  BY <1>1, JustSound, NoAndYes
<1>2. CASE ~Just(No)
  <2> DEFINE buf == [i \in Cell |-> IF i \in Span(o, Len(d))
                                    THEN d[i - o + 1]
                                    ELSE blobs[s].buffer[i]]
             len == LengthAfter(s, o, Len(d))
             new == [length |-> len, buffer |-> buf]
  <2>1. /\ GetSession(s) /\ ~BeyondArray(o) /\ Len(d) <= Remain(o)
        /\ blobs' = [blobs EXCEPT ![s] = new]
        /\ answer' = Yes
        /\ copied' = Span(o, Len(d))
    BY <1>2 DEF WriteBlob
  <2>2. o \in Cell /\ Len(d) \in Nat /\ Len(d) <= kBufferSize - o
    BY <2>1, RemainIsExact, DataBytes
  <2>3. copied' \subseteq Cell
    BY <2>1, <2>2, SpanInBuffer
  <2>4. s \in DOMAIN blobs /\ blobs[s] \in ExampleBlob
    BY <2>1 DEF GetSession, Sound, ExampleTypeOK
  <2>5. /\ blobs[s].length \in 0 .. kBufferSize
        /\ blobs[s].buffer \in [Cell -> Byte \cup {Indeterminate}]
    BY <2>4 DEF ExampleBlob
  <2>6. len \in 0 .. kBufferSize /\ blobs[s].length <= len /\ o + Len(d) <= len
    BY <2>2, <2>5, BufferAssumption DEF LengthAfter, Cell
  <2>7. \A i \in Cell : i \in Span(o, Len(d)) => d[i - o + 1] \in Byte /\ i < len
    <3> SUFFICES ASSUME NEW i \in Cell, i \in Span(o, Len(d))
                 PROVE  d[i - o + 1] \in Byte /\ i < len
      OBVIOUS
    <3>1. i - o + 1 \in 1 .. Len(d) /\ i < o + Len(d)
      BY <2>2 DEF Span, Cell
    <3>2. i < len
      BY <2>2, <2>6, <3>1, BufferAssumption DEF Cell
    <3> QED BY <3>1, <3>2, DataBytes
  <2>8. buf \in [Cell -> Byte \cup {Indeterminate}]
    BY <2>5, <2>7
  <2>9. new \in ExampleBlob
    BY <2>6, <2>8 DEF ExampleBlob
  <2>10. ExampleTypeOK'
    <3>1. copied' \subseteq Nat
      BY <2>3, BufferAssumption DEF Cell
    <3> HIDE DEF new
    <3> QED BY <2>1, <2>4, <2>9, <3>1, NoAndYes DEF Sound, ExampleTypeOK
  <2>11. LengthIsHighWater'
    <3> SUFFICES ASSUME NEW t \in DOMAIN blobs, NEW i \in Cell,
                        blobs'[t].buffer[i] # Indeterminate
                 PROVE  i < blobs'[t].length
      BY <2>1 DEF LengthIsHighWater
    <3>1. CASE t # s
      BY <2>1, <3>1 DEF Sound, LengthIsHighWater
    <3>2. CASE t = s
      <4>1. blobs'[t] = new
        BY <2>1, <2>4, <3>2
      <4>2. CASE i \in Span(o, Len(d))
        BY <2>7, <4>1, <4>2
      <4>3. CASE i \notin Span(o, Len(d))
        <5>1. blobs[s].buffer[i] # Indeterminate
          BY <4>1, <4>3
        <5>2. i < blobs[s].length
          BY <2>4, <5>1 DEF Sound, LengthIsHighWater
        <5>3. i \in Nat /\ blobs[s].length \in Nat /\ len \in Nat
          BY <2>5, <2>6, BufferAssumption DEF Cell
        <5>4. i < len
          <6> HIDE DEF len
          <6> QED BY <2>6, <5>2, <5>3
        <5> QED BY <4>1, <5>4
      <4> QED BY <4>2, <4>3
    <3> QED BY <3>1, <3>2
  <2> QED BY <2>3, <2>10, <2>11 DEF Sound, StaysInBuffer
<1> QED BY <1>1, <1>2

LEMMA CloseSound ==
    ASSUME Sound, NEW s \in Session, CloseBlob(s)
    PROVE  Sound'
<1>1. CASE Just(No)
  BY <1>1, JustSound, NoAndYes
<1>2. CASE CloseFound(s)
  BY <1>2, NoAndYes
     DEF CloseFound, Sound, ExampleTypeOK, StaysInBuffer, LengthIsHighWater
<1> QED BY <1>1, <1>2 DEF CloseBlob

LEMMA StatSound ==
    ASSUME Sound, NEW s \in Session, NEW meta \in BOOLEAN, StatSession(s, meta)
    PROVE  Sound'
<1>1. CASE Just(No)
  BY <1>1, JustSound, NoAndYes
<1>2. CASE GetSession(s) /\ Just(Length(blobs[s].length))
  <2>1. blobs[s].length \in Nat
    BY <1>2, BufferAssumption DEF GetSession, Sound, ExampleTypeOK, ExampleBlob
  <2>2. <<>> \in Seq(Byte \cup {Indeterminate, Outside})
    OBVIOUS
  <2>3. Length(blobs[s].length) \in Answer
    BY <2>1, <2>2 DEF Length, Answer
  <2> QED BY <1>2, <2>3, JustSound
<1> QED BY <1>1, <1>2 DEF StatSession

LEMMA StepSound == Sound /\ [ExampleNext]_exampleVars => Sound'
<1> SUFFICES ASSUME Sound, [ExampleNext]_exampleVars PROVE Sound'
  OBVIOUS
<1>1. CASE \E s \in Session, p \in BlobId : OpenBlob(s, p)
  BY <1>1, OpenSound
<1>2. CASE \E s \in Session, o \in Offset, n \in Size : ReadBlob(s, o, n)
  BY <1>2, ReadSound
<1>3. CASE \E s \in Session, o \in Offset, d \in Data : WriteBlob(s, o, d)
  BY <1>3, WriteSound
<1>4. CASE \E s \in Session : CloseBlob(s)
  BY <1>4, CloseSound
<1>5. CASE \E s \in Session, meta \in BOOLEAN : StatSession(s, meta)
  BY <1>5, StatSound
<1>6. CASE \/ \E p \in BlobId : DeleteBlob(p) \/ StatPath(p)
           \/ \E s \in Session : WriteMeta(s) \/ Commit(s) \/ Expire(s)
  <2>1. Just(No)
    BY <1>6 DEF DeleteBlob, StatPath, WriteMeta, Commit, Expire
  <2> QED BY <2>1, JustSound, NoAndYes
<1>7. CASE GetBlobIds
  <2>1. Ids(<<supportedPath>>) \in Answer
    <3>1. <<supportedPath>> \in Seq(BlobId)
      BY InputAssumption
    <3> QED BY <3>1 DEF Ids, Answer
  <2> QED BY <1>7, <2>1, JustSound DEF GetBlobIds
<1>8. CASE UNCHANGED exampleVars
  BY <1>8 DEF exampleVars, Sound, ExampleTypeOK, StaysInBuffer, LengthIsHighWater
<1> QED BY <1>1, <1>2, <1>3, <1>4, <1>5, <1>6, <1>7, <1>8 DEF ExampleNext

LEMMA AlwaysSound == ExampleSpec => []Sound
BY InitSound, StepSound, PTL DEF ExampleSpec

\* Lengths stay within the buffer and answers are what the interface returns.
THEOREM ExampleTypes == ExampleSpec => []ExampleTypeOK
BY AlwaysSound, PTL DEF Sound

\* example.cpp, read and write: no memcpy leaves the buffer of a session.
THEOREM NoCopyOutside == ExampleSpec => []StaysInBuffer
BY AlwaysSound, PTL DEF Sound

\* example.cpp, write and stat: the length covers all that was written.
THEOREM LengthCovers == ExampleSpec => []LengthIsHighWater
BY AlwaysSound, PTL DEF Sound
=============================================================================
