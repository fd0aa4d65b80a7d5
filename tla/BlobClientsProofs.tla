------------------------- MODULE BlobClientsProofs -------------------------
(***************************************************************************)
(* Proofs about BlobClients, for any number of clients and session ids and *)
(* any sequence of losses: what the histories say is right, and an id that *)
(* a client wrongly holds on to is not soon somebody else's.               *)
(***************************************************************************)
EXTENDS BlobClients, BlobServiceProofs

(***************************************************************************)
(* The ids lie on a circle.  Ahead(a, b) is how far b is ahead of a.       *)
(***************************************************************************)
Ahead(a, b) == IF a <= b THEN b - a ELSE b - a + SessionCount

Successor(a) == IF a + 1 = SessionCount THEN 0 ELSE a + 1

LEMMA AheadIsMod ==
    ASSUME NEW a \in SessionId, NEW b \in SessionId
    PROVE  (b - a) % SessionCount = Ahead(a, b)
<1>1. \A d \in 0 .. (SessionCount - 1) : d % SessionCount = d
  BY SessionCountAssumption
<1>2. CASE a <= b
  BY <1>1, <1>2, SessionCountAssumption DEF Ahead, SessionId
<1>3. CASE ~(a <= b)
  <2>1. b - a + SessionCount \in 0 .. (SessionCount - 1)
    BY <1>3, SessionCountAssumption DEF SessionId
  <2>2. (b - a) % SessionCount = (b - a + SessionCount) % SessionCount
    BY SessionCountAssumption DEF SessionId
  <2>. QED
    BY <1>1, <1>3, <2>1, <2>2 DEF Ahead
<1>. QED  BY <1>2, <1>3

LEMMA SuccessorIsMod ==
    ASSUME NEW a \in SessionId
    PROVE  (a + 1) % SessionCount = Successor(a) /\ Successor(a) \in SessionId
<1>1. CASE a + 1 = SessionCount
  <2>1. SessionCount % SessionCount = 0
    BY SessionCountAssumption
  <2>. QED
    BY <1>1, <2>1, SessionCountAssumption DEF Successor, SessionId
<1>2. CASE a + 1 # SessionCount
  <2>1. a + 1 \in 0 .. (SessionCount - 1)
    BY <1>2, SessionCountAssumption DEF SessionId
  <2>. QED
    BY <1>2, <2>1, SessionCountAssumption DEF Successor, SessionId
<1>. QED  BY <1>1, <1>2

\* The search goes from n to m.  When it passes h, everything but h has been
\* tried since h was given out; otherwise what has been tried since reaches up
\* to m.
LEMMA ArcGrows ==
    ASSUME NEW h \in SessionId, NEW n \in SessionId, NEW m \in SessionId,
           NEW s \in SessionId
    PROVE  /\ Ahead(n, h) < Ahead(n, m) /\ s # h =>
                 \/ Ahead(Successor(h), s) < Ahead(Successor(h), n)
                 \/ Ahead(n, s) < Ahead(n, m)
           /\ ~(Ahead(n, h) < Ahead(n, m))
              /\ Ahead(Successor(h), s) < Ahead(Successor(h), m) =>
                 \/ Ahead(Successor(h), s) < Ahead(Successor(h), n)
                 \/ Ahead(n, s) < Ahead(n, m)
BY SessionCountAssumption DEF Ahead, Successor, SessionId

\* h itself is the last that a search from behind it comes to.
LEMMA ArcStopsBefore ==
    ASSUME NEW h \in SessionId, NEW n \in SessionId, NEW s \in SessionId,
           Ahead(Successor(h), s) < Ahead(Successor(h), n)
    PROVE  s # h
BY SessionCountAssumption DEF Ahead, Successor, SessionId

-----------------------------------------------------------------------------
(***************************************************************************)
(* What a served request does to the ids.                                  *)
(***************************************************************************)
LEMMA TriedIsArc ==
    ASSUME next \in SessionId, next' \in SessionId
    PROVE  TriedNow = {s \in SessionId : Ahead(next, s) < Ahead(next, next')}
BY AheadIsMod DEF TriedNow

\* The id that an open grants was free, is among those tried, and is the last
\* one before `next'.
LEMMA GrantedIsLast ==
    ASSUME TypeOK, NEW req \in Request, Serve(req), req.cmd = "open",
           reply'.cc = "success" \/ Granted("open")
    PROVE  /\ reply'.session \in SessionId
           /\ reply'.session \notin DOMAIN sessions
           /\ next' = Successor(reply'.session)
           /\ reply'.session \in TriedNow
<1>1. /\ reply'.session = Candidate(FirstFree)
      /\ ~GetSessionFails
      /\ next' = NextAfter(FirstFree + 1)
  BY OpenReply
<1>2. /\ FirstFree \in Tries
      /\ Candidate(FirstFree) \in SessionId
      /\ Candidate(FirstFree) \notin DOMAIN sessions
      /\ next \in SessionId
  BY <1>1, GetSessionFindsFree DEF FreeTries, TypeOK
<1> DEFINE k  == FirstFree
           it == Candidate(FirstFree)
<1>3. k \in 0 .. (SessionCount - 2) /\ next \in 0 .. (SessionCount - 1)
  BY <1>2 DEF Tries, SessionId
<1>4. \A n \in 0 .. (2 * SessionCount - 1) :
          n % SessionCount = IF n < SessionCount THEN n ELSE n - SessionCount
  <2> SUFFICES ASSUME NEW n \in 0 .. (2 * SessionCount - 1)
               PROVE  n % SessionCount = IF n < SessionCount THEN n ELSE n - SessionCount
    OBVIOUS
  <2>1. CASE n < SessionCount
    BY <2>1, SessionCountAssumption
  <2>2. CASE ~(n < SessionCount)
    <3>1. n - SessionCount \in SessionId /\ 0 \in SessionId
      BY <2>2, SessionCountAssumption DEF SessionId
    <3>2. (n - SessionCount) % SessionCount = n - SessionCount
      BY <3>1, SessionCountAssumption DEF SessionId
    <3>3. n % SessionCount = (n - SessionCount) % SessionCount
      BY <2>2, SessionCountAssumption
    <3>. QED  BY <2>2, <3>2, <3>3
  <2>. QED  BY <2>1, <2>2
<1>5. /\ it = IF next + k < SessionCount THEN next + k ELSE next + k - SessionCount
      /\ next' = IF next + k + 1 < SessionCount THEN next + k + 1
                 ELSE next + k + 1 - SessionCount
  <2>1. next + k \in 0 .. (2 * SessionCount - 1)
        /\ next + (k + 1) \in 0 .. (2 * SessionCount - 1)
    BY <1>3, SessionCountAssumption
  <2>2. it = (next + k) % SessionCount /\ next' = (next + (k + 1)) % SessionCount
    BY <1>1 DEF Candidate, NextAfter
  <2> HIDE DEF k, it
  <2>. QED  BY <1>3, <1>4, <2>1, <2>2, SessionCountAssumption
<1>6. next' = Successor(it)
  <2> HIDE DEF k, it
  <2>. QED  BY <1>3, <1>5, SessionCountAssumption DEF Successor
<1>7. next' \in SessionId /\ Ahead(next, it) < Ahead(next, next')
  <2> HIDE DEF k, it
  <2>. QED  BY <1>3, <1>5, SessionCountAssumption DEF SessionId, Ahead
<1>. QED
  BY <1>1, <1>2, <1>6, <1>7, TriedIsArc

-----------------------------------------------------------------------------
(***************************************************************************)
(* Each step of the clients is a step of the service.                      *)
(***************************************************************************)
LEMMA ClientStepIsServiceStep ==
    ASSUME ClientsTypeOK, [ClientsNext]_clientVars
    PROVE  [ServiceNext]_serviceVars
<1>1. ASSUME NEW c \in Client, asks[c] # NoRequest, Serve(asks[c])
      PROVE  ServiceNext
  BY <1>1 DEF ServiceNext, ClientsTypeOK
<1>2. CASE \E c \in Client : Ask(c) \/ GoAway(c)
  BY <1>2 DEF Ask, GoAway, serviceVars
<1>3. CASE \E c \in Client : Hear(c) \/ LoseReply(c)
  BY <1>1, <1>3 DEF Hear, LoseReply
<1>4. CASE StrangerOpens
  BY <1>4 DEF StrangerOpens, ServiceNext
<1>5. CASE Elsewhere
  BY <1>5 DEF Elsewhere, ServiceNext
<1>6. CASE UNCHANGED clientVars
  BY <1>6 DEF clientVars
<1>. QED
  BY <1>2, <1>3, <1>4, <1>5, <1>6 DEF ClientsNext

(***************************************************************************)
(* Types.                                                                  *)
(***************************************************************************)
LEMMA RecordTypes ==
    ASSUME ClientsTypeOK, NEW req \in Request, Serve(req),
           NEW c \in Client \cup {Stranger}, Record(c)
    PROVE  /\ owner' \in [DOMAIN sessions' -> Client \cup {Stranger}]
           /\ tried' \in [Client -> SUBSET SessionId]
<1>1. request' = req
  BY DEF Serve
<1>2. \A s \in DOMAIN sessions' :
          (OpenGranted /\ reply'.session = s) \/ s \in DOMAIN sessions
  BY <1>1, ServeAdds DEF OpenGranted
<1>3. TriedNow \subseteq SessionId
  BY DEF TriedNow
<1>. QED
  BY <1>2, <1>3 DEF Record, ClientsTypeOK

LEMMA HeardTypes ==
    ASSUME ClientsTypeOK, NEW c \in Client, asks[c] # NoRequest, Serve(asks[c])
    PROVE  HeldAfter(c) \in SessionId \cup {None} /\ reply'.cc \in Code
<1>1. asks[c] \in Request /\ TypeOK /\ holds[c] \in SessionId \cup {None}
  BY DEF ClientsTypeOK, ServiceTypeOK
<1>. QED
  BY <1>1, ReplyCode, GrantedIsLast DEF HeldAfter

LEMMA ClientsTypesStep ==
    ASSUME ClientsTypeOK, ServiceTypeOK', [ClientsNext]_clientVars
    PROVE  ClientsTypeOK'
<1>1. ASSUME NEW c \in Client, Ask(c)
      PROVE  ClientsTypeOK'
  BY <1>1 DEF Ask, ClientsTypeOK, serviceVars, vars
<1>2. ASSUME NEW c \in Client, GoAway(c)
      PROVE  ClientsTypeOK'
  BY <1>2 DEF GoAway, ClientsTypeOK, serviceVars, vars
<1>3. ASSUME NEW c \in Client, Hear(c)
      PROVE  ClientsTypeOK'
  <2>1. asks[c] \in Request
    BY <1>3 DEF Hear, ClientsTypeOK
  <2>2. HeldAfter(c) \in SessionId \cup {None}
    BY <1>3, HeardTypes DEF Hear
  <2>3. /\ owner' \in [DOMAIN sessions' -> Client \cup {Stranger}]
        /\ tried' \in [Client -> SUBSET SessionId]
    BY <1>3, <2>1, RecordTypes DEF Hear
  <2>4. /\ asks' \in [Client -> Request \cup {NoRequest}]
        /\ holds' \in [Client -> SessionId \cup {None}]
        /\ first' \in [Client -> Code \cup {"none"}]
    BY <1>3, <2>2 DEF Hear, ClientsTypeOK
  <2>. QED
    BY <2>3, <2>4 DEF ClientsTypeOK
<1>4. ASSUME NEW c \in Client, LoseReply(c)
      PROVE  ClientsTypeOK'
  <2>1. asks[c] \in Request
    BY <1>4 DEF LoseReply, ClientsTypeOK
  <2>2. reply'.cc \in Code
    BY <1>4, HeardTypes DEF LoseReply
  <2>3. /\ owner' \in [DOMAIN sessions' -> Client \cup {Stranger}]
        /\ tried' \in [Client -> SUBSET SessionId]
    BY <1>4, <2>1, RecordTypes DEF LoseReply
  <2>4. /\ asks' \in [Client -> Request \cup {NoRequest}]
        /\ holds' \in [Client -> SessionId \cup {None}]
        /\ first' \in [Client -> Code \cup {"none"}]
    BY <1>4, <2>2 DEF LoseReply, ClientsTypeOK
  <2>. QED
    BY <2>3, <2>4 DEF ClientsTypeOK
<1>5. CASE StrangerOpens
  <2>1. /\ owner' \in [DOMAIN sessions' -> Client \cup {Stranger}]
        /\ tried' \in [Client -> SUBSET SessionId]
    BY <1>5, RecordTypes DEF StrangerOpens
  <2>. QED
    BY <1>5, <2>1 DEF StrangerOpens, ClientsTypeOK
<1>6. CASE Elsewhere
  <2>1. DOMAIN sessions' = DOMAIN sessions
    BY <1>6, BackgroundDomain DEF Elsewhere
  <2>. QED
    BY <1>6, <2>1 DEF Elsewhere, ClientsTypeOK
<1>7. CASE UNCHANGED clientVars
  BY <1>7 DEF clientVars, ClientsTypeOK, serviceVars, vars
<1>. QED
  BY <1>1, <1>2, <1>3, <1>4, <1>5, <1>6, <1>7 DEF ClientsNext

-----------------------------------------------------------------------------
(***************************************************************************)
(* How old the id is that a client holds: everything from behind it up to  *)
(* `next' has been tried since, and if somebody else has the id by now, so *)
(* has everything else.                                                    *)
(***************************************************************************)
Behind(h) ==
    {s \in SessionId : Ahead(Successor(h), s) < Ahead(Successor(h), next)}

Foreign(c) == holds[c] \in DOMAIN sessions /\ owner[holds[c]] # c

Aged(c) ==
    holds[c] # None =>
        /\ asks[c].cmd # "open"
        /\ Behind(holds[c]) \subseteq tried[c]
        /\ Foreign(c) => SessionId \ {holds[c]} \subseteq tried[c]

\* What a step may do to the id that client d holds.
LEMMA AgedKept ==
    ASSUME next \in SessionId, next' \in SessionId,
           NEW d \in Client, Aged(d), holds[d] \in SessionId \cup {None},
           holds'[d] = holds[d], asks'[d].cmd # "open" \/ holds[d] = None,
           tried[d] \cup TriedNow \subseteq tried'[d],
           Foreign(d)' => Foreign(d) \/ holds[d] \in TriedNow
    PROVE  Aged(d)'
<1> SUFFICES ASSUME holds[d] # None
             PROVE  /\ Behind(holds[d])' \subseteq tried'[d]
                    /\ Foreign(d)' => SessionId \ {holds[d]} \subseteq tried'[d]
  BY DEF Aged, Behind
<1> DEFINE h == holds[d]
<1>1. h \in SessionId /\ asks[d].cmd # "open" /\ Behind(h) \subseteq tried[d]
      /\ (Foreign(d) => SessionId \ {h} \subseteq tried[d])
  BY DEF Aged
<1>2. TriedNow = {s \in SessionId : Ahead(next, s) < Ahead(next, next')}
  BY TriedIsArc
<1>3. Behind(h)' = {s \in SessionId : Ahead(Successor(h), s) < Ahead(Successor(h), next')}
  BY DEF Behind
<1>4. CASE h \in TriedNow
  <2>1. SessionId \ {h} \subseteq tried'[d]
    <3> SUFFICES ASSUME NEW s \in SessionId, s # h PROVE s \in Behind(h) \cup TriedNow
      BY <1>1
    <3>. QED
      BY <1>1, <1>2, <1>4, ArcGrows DEF Behind
  <2>2. h \notin Behind(h)'
    BY <1>1, <1>3, ArcStopsBefore
  <2>. QED
    BY <1>3, <2>1, <2>2
<1>5. CASE h \notin TriedNow
  <2>1. Behind(h)' \subseteq Behind(h) \cup TriedNow
    <3> SUFFICES ASSUME NEW s \in Behind(h)' PROVE s \in Behind(h) \cup TriedNow
      OBVIOUS
    <3>. QED
      BY <1>1, <1>2, <1>3, <1>5, ArcGrows DEF Behind
  <2>. QED
    BY <1>1, <1>5, <2>1
<1>. QED  BY <1>4, <1>5

\* A step in which no request is served.
LEMMA AgedIdle ==
    ASSUME ClientsTypeOK, NEW d \in Client, Aged(d),
           next' = next, DOMAIN sessions' = DOMAIN sessions, tried' = tried,
           \A s \in DOMAIN sessions : owner'[s] = owner[s],
           \/ holds'[d] = None
           \/ holds'[d] = holds[d] /\ (asks'[d].cmd # "open" \/ holds[d] = None)
    PROVE  Aged(d)'
<1>1. next \in SessionId /\ holds[d] \in SessionId \cup {None}
  BY DEF ClientsTypeOK, ServiceTypeOK, TypeOK
<1>2. TriedNow = {}
  BY <1>1, TriedIsArc, SessionCountAssumption DEF Ahead, SessionId
<1>3. CASE holds'[d] = None
  BY <1>3 DEF Aged
<1>4. CASE holds'[d] = holds[d]
  <2>1. Foreign(d)' => Foreign(d)
    BY <1>4 DEF Foreign
  <2>. QED
    BY <1>1, <1>2, <1>4, <2>1, AgedKept DEF Aged
<1>. QED  BY <1>3, <1>4

\* A step in which a request of c is served, and what client d holds stays.
LEMMA AgedServed ==
    ASSUME ClientsTypeOK, next' \in SessionId,
           NEW c, NEW req \in Request, Serve(req), Record(c),
           NEW d \in Client, Aged(d), d # c \/ ~OpenGranted,
           holds'[d] = holds[d], asks'[d].cmd # "open" \/ holds[d] = None
    PROVE  Aged(d)'
<1>1. /\ TypeOK /\ next \in SessionId
      /\ holds[d] \in SessionId \cup {None}
      /\ request' = req
  BY DEF Serve, ClientsTypeOK, ServiceTypeOK, TypeOK
<1>2. tried[d] \cup TriedNow \subseteq tried'[d]
  BY DEF Record
<1>3. ASSUME Foreign(d)', ~Foreign(d)
      PROVE  holds[d] \in TriedNow
  <2> DEFINE h == holds[d]
  <2>1. h \in DOMAIN sessions' /\ owner'[h] # d
    BY <1>3 DEF Foreign
  <2>2. CASE h \in DOMAIN sessions
    <3>1. owner[h] = d /\ owner'[h] # owner[h]
      BY <1>3, <2>1, <2>2 DEF Foreign
    <3>2. OpenGranted /\ reply'.session = h
      BY <2>1, <3>1 DEF Record
    <3>3. h \notin DOMAIN sessions
      BY <1>1, <3>2, GrantedIsLast DEF OpenGranted
    <3>. QED  BY <2>2, <3>3
  <2>3. CASE h \notin DOMAIN sessions
    <3>1. req.cmd = "open" /\ Granted("open") /\ h = reply'.session
      BY <2>1, <2>3, ServeAdds
    <3>. QED
      BY <1>1, <3>1, GrantedIsLast
  <2>. QED  BY <2>2, <2>3
<1>. QED
  BY <1>1, <1>2, <1>3, AgedKept

\* The client hears the reply to an open that was granted.
LEMMA AgedGranted ==
    ASSUME ClientsTypeOK, next' \in SessionId,
           NEW c \in Client, Hear(c), OpenGranted
    PROVE  Aged(c)'
<1>1. asks[c] \in Request /\ Serve(asks[c]) /\ Record(c) /\ TypeOK
      /\ asks'[c] = NoRequest /\ holds'[c] = HeldAfter(c)
  BY DEF Hear, ClientsTypeOK, ServiceTypeOK
<1>2. request' = asks[c]
  BY <1>1 DEF Serve
<1>3. /\ reply'.cc = "success"
      /\ reply'.session \in SessionId
      /\ next' = Successor(reply'.session)
  BY <1>1, <1>2, OpenReply, GrantedIsLast DEF OpenGranted
<1>4. holds'[c] = reply'.session
  BY <1>1, <1>2, <1>3 DEF HeldAfter, OpenGranted
<1>5. asks'[c].cmd # "open"
  BY <1>1 DEF NoRequest
<1>6. Behind(holds[c])' = {}
  <2>1. Behind(holds[c])' = {s \in SessionId : Ahead(next', s) < Ahead(next', next')}
    BY <1>3, <1>4 DEF Behind
  <2>2. \A n, s \in SessionId : ~(Ahead(n, s) < Ahead(n, n))
    BY SessionCountAssumption DEF Ahead, SessionId
  <2>. QED  BY <2>1, <2>2
<1>7. ~Foreign(c)'
  BY <1>1, <1>4 DEF Record, Foreign, OpenGranted
<1>. QED
  BY <1>5, <1>6, <1>7 DEF Aged
-----------------------------------------------------------------------------
(***************************************************************************)
(* The inductive invariant.                                                *)
(***************************************************************************)
ClientsInv == ServiceInv /\ ClientsTypeOK /\ \A d \in Client : Aged(d)

LEMMA ClientsInitInv == ClientsInit => ClientsInv
<1> SUFFICES ASSUME ClientsInit PROVE ClientsInv
  OBVIOUS
<1>1. ServiceInv
  BY ServiceInitInv DEF ClientsInit
<1>2. ClientsTypeOK
  BY <1>1 DEF ClientsInit, ClientsTypeOK, ServiceInv, ServiceInit, EmptyTable
<1>3. \A d \in Client : Aged(d)
  BY DEF ClientsInit, Aged
<1>. QED  BY <1>1, <1>2, <1>3 DEF ClientsInv

LEMMA AgedStep ==
    ASSUME ClientsInv, next' \in SessionId, [ClientsNext]_clientVars,
           NEW d \in Client
    PROVE  Aged(d)'
<1>1. ClientsTypeOK /\ Aged(d) /\ holds[d] \in SessionId \cup {None}
      /\ (holds[d] = None \/ asks[d].cmd # "open")
  BY DEF ClientsInv, ClientsTypeOK, Aged
<1>2. ASSUME NEW c \in Client, Ask(c)
      PROVE  Aged(d)'
  <2>1. asks'[d].cmd # "open" \/ holds[d] = None
    BY <1>1, <1>2 DEF Ask, Suits, ClientsTypeOK
  <2>. QED
    BY <1>1, <1>2, <2>1, AgedIdle DEF Ask, serviceVars, vars
<1>3. ASSUME NEW c \in Client, GoAway(c)
      PROVE  Aged(d)'
  <2>1. holds'[d] = None \/ (holds'[d] = holds[d] /\ asks'[d] = asks[d])
    BY <1>1, <1>3 DEF GoAway, ClientsTypeOK
  <2>. QED
    BY <1>1, <1>3, <2>1, AgedIdle DEF GoAway, serviceVars, vars
<1>4. ASSUME NEW c \in Client, Hear(c)
      PROVE  Aged(d)'
  <2>1. asks[c] \in Request /\ Serve(asks[c]) /\ Record(c)
        /\ request' = asks[c]
    BY <1>4 DEF Hear, Serve, ClientsInv, ClientsTypeOK
  <2>2. CASE d = c /\ OpenGranted
    BY <1>1, <1>4, <2>2, AgedGranted
  <2>3. CASE d = c /\ ~OpenGranted
    <3>1. asks'[d] = NoRequest /\ holds'[d] = HeldAfter(d)
      BY <1>1, <1>4, <2>3 DEF Hear, ClientsTypeOK
    <3>2. ~(asks[d].cmd = "open" /\ reply'.cc = "success")
      BY <2>1, <2>3, OpenReply DEF OpenGranted, ClientsInv, ClientsTypeOK, ServiceTypeOK
    <3>3. CASE holds'[d] = None
      BY <3>3 DEF Aged
    <3>4. CASE holds'[d] = holds[d]
      <4>1. asks'[d].cmd # "open"
        BY <3>1 DEF NoRequest
      <4>. QED
        BY <1>1, <2>1, <2>3, <3>4, <4>1, AgedServed
    <3>. QED  BY <3>1, <3>2, <3>3, <3>4 DEF HeldAfter
  <2>4. CASE d # c
    <3>1. asks'[d] = asks[d] /\ holds'[d] = holds[d]
      BY <1>1, <1>4, <2>4 DEF Hear, ClientsTypeOK
    <3>. QED
      BY <1>1, <2>1, <2>4, <3>1, AgedServed
  <2>. QED  BY <2>2, <2>3, <2>4
<1>5. ASSUME NEW c \in Client, LoseReply(c)
      PROVE  Aged(d)'
  <2>1. asks[c] \in Request /\ Serve(asks[c]) /\ Record(c)
        /\ request' = asks[c] /\ asks' = asks /\ holds' = holds
    BY <1>5 DEF LoseReply, Serve, ClientsInv, ClientsTypeOK
  <2>2. CASE d = c /\ OpenGranted
    BY <1>1, <2>1, <2>2 DEF OpenGranted, Aged
  <2>3. CASE d # c \/ ~OpenGranted
    BY <1>1, <2>1, <2>3, AgedServed
  <2>. QED  BY <2>2, <2>3
<1>6. CASE StrangerOpens
  <2>1. PICK req \in Request : Serve(req)
    BY <1>6 DEF StrangerOpens
  <2>2. d # Stranger
    BY ClientAssumption
  <2>. QED
    BY <1>1, <1>6, <2>1, <2>2, AgedServed DEF StrangerOpens
<1>7. CASE Elsewhere
  <2>1. next' = next /\ DOMAIN sessions' = DOMAIN sessions
    BY <1>7, BackgroundDomain DEF Elsewhere, Background, Tick
  <2>. QED
    BY <1>1, <1>7, <2>1, AgedIdle DEF Elsewhere
<1>8. CASE UNCHANGED clientVars
  BY <1>1, <1>8, AgedIdle DEF clientVars, serviceVars, vars
<1>. QED
  BY <1>2, <1>3, <1>4, <1>5, <1>6, <1>7, <1>8 DEF ClientsNext

LEMMA ClientsStepInv == ClientsInv /\ [ClientsNext]_clientVars => ClientsInv'
<1> SUFFICES ASSUME ClientsInv, [ClientsNext]_clientVars
             PROVE  ClientsInv'
  OBVIOUS
<1>1. ServiceInv'
  BY ClientStepIsServiceStep, ServiceStepInv DEF ClientsInv
<1>2. ServiceTypeOK' /\ next' \in SessionId
  BY <1>1 DEF ServiceInv, ServiceTypeOK, TypeOK
<1>3. ClientsTypeOK'
  BY <1>2, ClientsTypesStep DEF ClientsInv
<1>4. \A d \in Client : Aged(d)'
  BY <1>2, AgedStep
<1>. QED  BY <1>1, <1>3, <1>4 DEF ClientsInv

\* The requests, the sessions held and the histories of BlobClients have the
\* types that the module gives them: in particular the history of the owners
\* speaks of the open sessions and of no others (manager.cpp, open and close).
THEOREM ClientsTypes == ClientsSpec => []ClientsTypeOK
<1>1. ClientsInv => ClientsTypeOK
  BY DEF ClientsInv
<1>. QED
  BY <1>1, ClientsInitInv, ClientsStepInv, PTL DEF ClientsSpec

\* manager.cpp, getSession: an id that a client lost without noticing becomes
\* somebody else's session only after every other id has been tried since the
\* client got it, whatever requests and replies were lost.
THEOREM LostIdsAreOld == ClientsSpec => []ForeignIdsAreOld
<1>1. ClientsInv => ForeignIdsAreOld
  <2> SUFFICES ASSUME ClientsInv, NEW c \in Client,
                      holds[c] \in DOMAIN sessions, owner[holds[c]] # c
               PROVE  SessionId \ {holds[c]} \subseteq tried[c]
    BY DEF ForeignIdsAreOld
  <2>1. DOMAIN sessions \subseteq SessionId
    BY DEF ClientsInv, ServiceInv, ServiceTypeOK, TypeOK
  <2>2. holds[c] # None
    BY <2>1, SessionCountAssumption DEF SessionId, None
  <2>. QED
    BY <2>2 DEF ClientsInv, Aged, Foreign
<1>. QED
  BY <1>1, ClientsInitInv, ClientsStepInv, PTL DEF ClientsSpec

\* Whatever clients and the transport do is something that BlobService.tla lets
\* requests do, so what is proved of the service and of the manager (ipmi.cpp,
\* manager.cpp) holds for them.
THEOREM ClientsImplementService == ClientsSpec => ServiceSpec
<1>1. ClientsInit => ServiceInit
  BY DEF ClientsInit
<1>2. ClientsInv /\ [ClientsNext]_clientVars => [ServiceNext]_serviceVars
  BY ClientStepIsServiceStep DEF ClientsInv
<1>. QED
  BY <1>1, <1>2, ClientsInitInv, ClientsStepInv, PTL DEF ClientsSpec, ServiceSpec
=============================================================================
