----------------------------- MODULE IpcProofs -----------------------------
(***************************************************************************)
(* Proofs about module Ipc: IpcInv is inductive, and one connection at a   *)
(* time, true answers and a client in step while requests do not overlap   *)
(* follow, for every number of requests, of writes of others and of stops, *)
(* and every size of the channels of events.                               *)
(*                                                                         *)
(* The argument: ids grow over all connections of a client, so a late      *)
(* answer meets no other request; a request that waits is in one place and *)
(* its number has not been executed, so none is executed twice.  While     *)
(* requests do not overlap, the last event in a connection carries the     *)
(* settings, and so does every response that somebody still waits for.     *)
(***************************************************************************)
EXTENDS Ipc, SequenceTheorems, FiniteSetTheorems, TLAPS

-----------------------------------------------------------------------------
(* What the steps do to the connections *)

\* Only connection k changes, and it becomes c.
Becomes(k, c) == link' = [link EXCEPT ![k] = c]

\* The record of a connection that is closed has the type of a connection.
LEMMA NoLinkIsConnection == NoLink \in Connections
  BY DEF NoLink, Connections, NoRequest, RequestLines

\* A connection that is replaced by another one.
LEMMA Replaced ==
    ASSUME link \in [Links -> Connections], NEW k \in Links, NEW c \in Connections, Becomes(k, c)
    PROVE  /\ link' \in [Links -> Connections]
           /\ link'[k] = c /\ \A m \in Links : m # k => link'[m] = link[m]
  BY DEF Becomes

\* The session of k goes on to s.
LEMMA SessionGoes ==
    ASSUME NEW c \in Connections, NEW s \in {"accepted", "read", "handle", "publish", "write"}, NEW d, d = [c EXCEPT !.sess = s]
    PROVE  /\ d \in Connections /\ d.sess = s /\ d.open = c.open /\ d.cur = c.cur /\ d.answer = c.answer
           /\ d.up = c.up /\ d.down = c.down /\ d.events = c.events
  BY DEF Connections

\* Serve subscribes: only the state of the session changes.
LEMMA SubscribeFacts ==
    ASSUME TypeOK, NEW k \in Links, Subscribe(k)
    PROVE  LET c == link[k]  d == link'[k]
           IN /\ link' \in [Links -> Connections] /\ \A m \in Links : m # k => link'[m] = link[m]
              /\ c.sess = "accepted" /\ d.sess = "read"
              /\ d.open = c.open /\ d.up = c.up /\ d.down = c.down /\ d.events = c.events
  <1> DEFINE d == [link[k] EXCEPT !.sess = "read"]
  <1>1. link[k] \in Connections /\ link[k].sess = "accepted" /\ Becomes(k, d)
    BY DEF Subscribe, TypeOK, Becomes
  <1>2. /\ d \in Connections /\ d.sess = "read" /\ d.open = link[k].open
        /\ d.up = link[k].up /\ d.down = link[k].down /\ d.events = link[k].events
    BY <1>1, SessionGoes
  <1> HIDE DEF d
  <1> QED BY <1>1, <1>2, Replaced DEF TypeOK

\* ReadEnvelope: the first line becomes the request that is handled.
LEMMA ReadRequestFacts ==
    ASSUME TypeOK, NEW k \in Links, ReadRequest(k)
    PROVE  LET c == link[k]  d == link'[k]
           IN /\ link' \in [Links -> Connections] /\ \A m \in Links : m # k => link'[m] = link[m]
              /\ c.sess = "read" /\ c.up # <<>> /\ d.sess = "handle" /\ d.cur = Head(c.up) /\ d.up = Tail(c.up)
              /\ d.open = c.open /\ d.down = c.down /\ d.events = c.events
  <1> DEFINE c == link[k]
             d == [c EXCEPT !.sess = "handle", !.cur = Head(c.up), !.up = Tail(c.up)]
  <1>1. c \in Connections /\ c.sess = "read" /\ c.up # <<>> /\ Becomes(k, d)
    BY DEF ReadRequest, TypeOK, Becomes
  <1>2. c.up \in Seq(RequestLines)
    BY <1>1 DEF Connections
  <1>3. Head(c.up) \in RequestLines /\ Tail(c.up) \in Seq(RequestLines)
    BY <1>1, <1>2, HeadTailProperties
  <1>4. /\ d \in Connections /\ d.sess = "handle" /\ d.cur = Head(c.up) /\ d.up = Tail(c.up)
        /\ d.open = c.open /\ d.down = c.down /\ d.events = c.events
    BY <1>1, <1>3 DEF Connections
  <1> HIDE DEF d, c
  <1>5. link' \in [Links -> Connections] /\ link'[k] = d /\ \A m \in Links : m # k => link'[m] = link[m]
    BY <1>1, <1>4, Replaced DEF TypeOK
  <1> QED BY <1>1, <1>4, <1>5 DEF c

\* Both handlers: the request is executed and answered.
LEMMA HandlerFacts ==
    ASSUME TypeOK, NEW k \in Links, handleSettingsGet(k) \/ handleSettingsSet(k)
    PROVE  LET c == link[k]  d == link'[k]
           IN /\ link' \in [Links -> Connections] /\ \A m \in Links : m # k => link'[m] = link[m]
              /\ c.sess = "handle" /\ executed' = [executed EXCEPT ![c.cur.number] = @ + 1]
              /\ d.open = c.open /\ d.cur = c.cur /\ d.up = c.up /\ d.down = c.down /\ d.events = c.events
              /\ d.answer \in Messages
              /\ d.answer.type = "response" /\ d.answer.id = c.cur.id /\ d.answer.number = c.cur.number
              /\ settings' \in Nat
              /\ \/ d.sess = "write" /\ settings' = settings /\ (d.answer.ok => d.answer.val = settings)
                 \/ d.sess = "publish" /\ settings' = c.cur.number /\ d.answer.val = settings'
  <1> DEFINE c == link[k]
             Goal(s, a) == /\ Becomes(k, [c EXCEPT !.sess = s, !.answer = a]) /\ a \in Messages
                           /\ a.type = "response" /\ a.id = c.cur.id /\ a.number = c.cur.number
                           /\ \/ s = "write" /\ settings' = settings /\ (a.ok => a.val = settings)
                              \/ s = "publish" /\ settings' = c.cur.number /\ a.val = settings'
  <1>1. c \in Connections /\ c.sess = "handle" /\ executed' = [executed EXCEPT ![c.cur.number] = @ + 1]
        /\ c.cur \in RequestLines /\ settings \in Nat
    BY DEF handleSettingsGet, handleSettingsSet, Executed, TypeOK, Connections
  <1>2. ASSUME NEW ok \in BOOLEAN, NEW val \in Nat
        PROVE  LET a == Response(c.cur, ok, val)
               IN /\ a \in Messages /\ a.type = "response" /\ a.id = c.cur.id /\ a.number = c.cur.number
                  /\ a.ok = ok /\ a.val = val
    BY <1>1 DEF Response, Messages, RequestLines
  <1>3. ASSUME NEW next, NEW ok, NEW val, Answer(k, next, ok, val)
        PROVE  Becomes(k, [c EXCEPT !.sess = next, !.answer = Response(c.cur, ok, val)])
    BY <1>1, <1>3 DEF Answer, Becomes, TypeOK, Connections
  <1>4. c.cur.number \in Nat
    BY <1>1 DEF RequestLines
  <1> HIDE DEF c
  <1>5. \E s \in {"write", "publish"} : \E a \in Messages : Goal(s, a)
    <2>1. CASE handleSettingsGet(k)
      <3>1. settings' = settings /\ (Answer(k, "write", TRUE, settings) \/ Answer(k, "write", FALSE, 0))
        BY <2>1 DEF handleSettingsGet
      <3> QED BY <1>1, <1>2, <1>3, <3>1
    <2>2. CASE handleSettingsSet(k)
      <3>1. \/ settings' = c.cur.number /\ Answer(k, "publish", TRUE, c.cur.number)
            \/ settings' = settings /\ Answer(k, "write", FALSE, 0)
        BY <2>2 DEF handleSettingsSet, c
      <3>2. CASE settings' = c.cur.number /\ Answer(k, "publish", TRUE, c.cur.number)
        <4>1. Goal("publish", Response(c.cur, TRUE, c.cur.number))
          BY <1>2, <1>3, <1>4, <3>2
        <4> QED BY <1>2, <1>4, <4>1
      <3>3. CASE settings' = settings /\ Answer(k, "write", FALSE, 0)
        <4>1. Goal("write", Response(c.cur, FALSE, 0))
          BY <1>2, <1>3, <3>3
        <4> QED BY <1>2, <4>1
      <3> QED BY <3>1, <3>2, <3>3
    <2> QED BY <2>1, <2>2
  <1>6. PICK s \in {"write", "publish"}, a \in Messages : Goal(s, a)
    BY <1>5
  <1> DEFINE d == [c EXCEPT !.sess = s, !.answer = a]
  <1>7. /\ d \in Connections /\ d.sess = s /\ d.answer = a
        /\ d.open = c.open /\ d.cur = c.cur /\ d.up = c.up /\ d.down = c.down /\ d.events = c.events
    BY <1>1, <1>6 DEF Connections
  <1>8. Becomes(k, d)
    BY <1>6
  <1> HIDE DEF d
  <1>9. link' \in [Links -> Connections] /\ link'[k] = d /\ \A m \in Links : m # k => link'[m] = link[m]
    BY <1>7, <1>8, Replaced DEF TypeOK
  <1> QED BY <1>1, <1>4, <1>6, <1>7, <1>9 DEF c

\* Publication: the event goes to the channels that are not full.
LEMMA DeliveredFacts ==
    ASSUME TypeOK, NEW val \in Nat, NEW m \in Links
    PROVE  LET c == link[m]  d == Delivered(val)[m]
           IN /\ d \in Connections /\ Delivered(val) \in [Links -> Connections]
              /\ d.open = c.open /\ d.sess = c.sess /\ d.cur = c.cur /\ d.answer = c.answer
              /\ d.up = c.up /\ d.down = c.down
              /\ d.events = c.events \/ d.events = Append(c.events, Event(val))
              /\ Subscribed(m) /\ ~Full(m) => d.events = Append(c.events, Event(val))
              /\ ~Subscribed(m) => d = c
  <1>1. Event(val) \in Messages
    BY DEF Event, Messages
  <1>2. ASSUME NEW n \in Links
        PROVE  /\ [link[n] EXCEPT !.events = Append(link[n].events, Event(val))] \in Connections
               /\ link[n] \in Connections
    <2>1. link[n] \in Connections /\ link[n].events \in Seq(Messages)
      BY DEF TypeOK, Connections
    <2>2. Append(link[n].events, Event(val)) \in Seq(Messages)
      BY <1>1, <2>1
    <2> QED BY <2>1, <2>2 DEF Connections
  <1>3. Delivered(val) \in [Links -> Connections]
    BY <1>2 DEF Delivered
  <1>4. Delivered(val)[m] = IF Subscribed(m) /\ ~Full(m)
                            THEN [link[m] EXCEPT !.events = Append(link[m].events, Event(val))] ELSE link[m]
    BY DEF Delivered
  <1>5. LET d == [link[m] EXCEPT !.events = Append(link[m].events, Event(val))]  c == link[m]
        IN /\ d.open = c.open /\ d.sess = c.sess /\ d.cur = c.cur /\ d.answer = c.answer
           /\ d.up = c.up /\ d.down = c.down /\ d.events = Append(c.events, Event(val))
    BY <1>2 DEF Connections
  <1> QED BY <1>2, <1>3, <1>4, <1>5

\* The two publications.
LEMMA PublishFacts ==
    ASSUME TypeOK, NEW k \in Links, Publish(k)
    PROVE  /\ link[k].sess = "publish" /\ link' \in [Links -> Connections]
           /\ \A m \in Links : LET c == link[m]  d == link'[m]  e == Event(link[k].cur.number)
                IN /\ d.open = c.open /\ d.cur = c.cur /\ d.answer = c.answer /\ d.up = c.up /\ d.down = c.down
                   /\ d.sess = IF m = k THEN "write" ELSE c.sess
                   /\ d.events = c.events \/ d.events = Append(c.events, e)
                   /\ Subscribed(m) /\ ~Full(m) => d.events = Append(c.events, e)
                   /\ ~Subscribed(m) => d = c
  <1> DEFINE val == link[k].cur.number
             D == Delivered(val)
             e == [D[k] EXCEPT !.sess = "write"]
  <1>1. link[k].sess = "publish" /\ val \in Nat
    BY DEF Publish, TypeOK, Connections, RequestLines
  <1> HIDE DEF val
  <1>2. \A m \in Links :
          LET c == link[m]  d == D[m]
           IN /\ d \in Connections /\ D \in [Links -> Connections]
              /\ d.open = c.open /\ d.sess = c.sess /\ d.cur = c.cur /\ d.answer = c.answer
              /\ d.up = c.up /\ d.down = c.down
              /\ d.events = c.events \/ d.events = Append(c.events, Event(val))
              /\ Subscribed(m) /\ ~Full(m) => d.events = Append(c.events, Event(val))
              /\ ~Subscribed(m) => d = c
    BY <1>1, DeliveredFacts
  <1>3. link' = [D EXCEPT ![k] = e]
    BY DEF Publish, val
  <1> HIDE DEF D
  <1>4. /\ e \in Connections /\ e.sess = "write" /\ e.open = D[k].open /\ e.cur = D[k].cur /\ e.answer = D[k].answer
        /\ e.up = D[k].up /\ e.down = D[k].down /\ e.events = D[k].events
    BY <1>2, SessionGoes
  <1> HIDE DEF e
  <1>5. link' \in [Links -> Connections] /\ link'[k] = e /\ \A m \in Links : m # k => link'[m] = D[m]
    BY <1>2, <1>3, <1>4
  <1>6. Subscribed(k)
    BY <1>1 DEF Subscribed, Served
  <1> QED BY <1>1, <1>2, <1>4, <1>5, <1>6 DEF val

\* The same for the event of another session.
LEMMA OtherPublishFacts ==
    ASSUME TypeOK, OtherPublish
    PROVE  \E val \in others :
             /\ link' \in [Links -> Connections] /\ others' = others \ {val}
             /\ \A m \in Links : LET c == link[m]  d == link'[m]
                  IN /\ d.open = c.open /\ d.sess = c.sess /\ d.cur = c.cur /\ d.answer = c.answer
                     /\ d.up = c.up /\ d.down = c.down
                     /\ d.events = c.events \/ d.events = Append(c.events, Event(val))
                     /\ Subscribed(m) /\ ~Full(m) => d.events = Append(c.events, Event(val))
                     /\ ~Subscribed(m) => d = c
  <1>1. PICK val \in others : link' = Delivered(val) /\ others' = others \ {val}
    BY DEF OtherPublish
  <1>2. val \in Nat /\ 1 \in Links
    BY DEF TypeOK, Links
  <1> QED BY <1>1, <1>2, DeliveredFacts

\* The response goes into the pipe, or the session ends with it.
LEMMA WriteResponseFacts ==
    ASSUME TypeOK, NEW k \in Links, WriteResponse(k), link[k].answer \in Messages
    PROVE  LET c == link[k]  d == link'[k]
           IN /\ link' \in [Links -> Connections] /\ \A m \in Links : m # k => link'[m] = link[m]
              /\ c.sess = "write"
              /\ ~c.open => d = NoLink
              /\ c.open => /\ d.open /\ d.sess = "read" /\ d.up = c.up /\ d.events = c.events
                           /\ d.down = Append(c.down, c.answer)
  <1> DEFINE c == link[k]
             d == [c EXCEPT !.sess = "read", !.down = Append(c.down, c.answer), !.answer = None, !.cur = NoRequest]
  <1>1. c \in Connections /\ c.sess = "write" /\ Becomes(k, IF c.open THEN d ELSE NoLink) /\ c.down \in Seq(Messages)
    BY DEF WriteResponse, TypeOK, Becomes, Connections
  <1>2. Append(c.down, c.answer) \in Seq(Messages) /\ NoRequest \in RequestLines
    BY <1>1 DEF NoRequest, RequestLines
  <1>3. /\ d \in Connections /\ d.sess = "read" /\ d.up = c.up /\ d.open = c.open /\ d.events = c.events
        /\ d.down = Append(c.down, c.answer)
    BY <1>1, <1>2 DEF Connections
  <1> HIDE DEF c, d
  <1>4. link' \in [Links -> Connections] /\ link'[k] = (IF c.open THEN d ELSE NoLink) /\ \A m \in Links : m # k => link'[m] = link[m]
    BY <1>1, <1>3, NoLinkIsConnection, Replaced DEF TypeOK
  <1> QED BY <1>1, <1>3, <1>4 DEF c

\* pushEvents moves an event from the channel to the pipe.
LEMMA PushEventFacts ==
    ASSUME TypeOK, NEW k \in Links, PushEvent(k)
    PROVE  LET c == link[k]  d == link'[k]
           IN /\ link' \in [Links -> Connections] /\ \A m \in Links : m # k => link'[m] = link[m]
              /\ Subscribed(k) /\ c.events # <<>> /\ d.events = Tail(c.events)
              /\ d.open = c.open /\ d.sess = c.sess /\ d.cur = c.cur /\ d.answer = c.answer /\ d.up = c.up
              /\ d.down = IF c.open THEN Append(c.down, Head(c.events)) ELSE c.down
  <1> DEFINE c == link[k]
             w == IF c.open THEN Append(c.down, Head(c.events)) ELSE c.down
             d == [c EXCEPT !.events = Tail(c.events), !.down = w]
  <1>1. c \in Connections /\ Subscribed(k) /\ c.events # <<>> /\ c.events \in Seq(Messages) /\ c.down \in Seq(Messages)
    BY DEF PushEvent, TypeOK, Connections
  <1>2. Becomes(k, d)
    BY <1>1 DEF PushEvent, TypeOK, Becomes, Connections
  <1>3. Tail(c.events) \in Seq(Messages) /\ w \in Seq(Messages)
    BY <1>1, HeadTailProperties
  <1> HIDE DEF w
  <1>4. /\ d \in Connections /\ d.events = Tail(c.events) /\ d.open = c.open /\ d.sess = c.sess /\ d.cur = c.cur
        /\ d.answer = c.answer /\ d.up = c.up /\ d.down = w
    BY <1>1, <1>3 DEF Connections
  <1> HIDE DEF c, d
  <1>5. link' \in [Links -> Connections] /\ link'[k] = d /\ \A m \in Links : m # k => link'[m] = link[m]
    BY <1>2, <1>4, Replaced DEF TypeOK
  <1> QED BY <1>1, <1>4, <1>5 DEF c, w

\* The connection is over for both sides.
LEMMA ClosedFacts ==
    ASSUME TypeOK, NEW k \in Links, EndSession(k) \/ ConnectionLost(k)
    PROVE  /\ link' \in [Links -> Connections] /\ \A m \in Links : m # k => link'[m] = link[m]
           /\ link'[k] = NoLink
  BY NoLinkIsConnection, Replaced DEF EndSession, ConnectionLost, Becomes, TypeOK

\* A connection begins with nothing in it.
LEMMA ConnectOkFacts ==
    ASSUME TypeOK, Transport, NEW k \in Links, ConnectOk(k)
    PROVE  LET d == link'[k]
           IN /\ link' \in [Links -> Connections] /\ \A m \in Links : m # k => link'[m] = link[m]
              /\ link[k] = NoLink /\ d.open /\ d.sess = "accepted"
              /\ d.up = <<>> /\ d.down = <<>> /\ d.events = <<>>
  <1> DEFINE d == [NoLink EXCEPT !.open = TRUE, !.sess = "accepted"]
  <1>1. link[k] = NoLink
    BY DEF ConnectOk, Unused, Transport
  <1>2. Becomes(k, d)
    BY <1>1 DEF ConnectOk, Becomes, TypeOK
  <1>3. d \in Connections /\ d.open /\ d.sess = "accepted" /\ d.up = <<>> /\ d.down = <<>> /\ d.events = <<>>
    BY NoLinkIsConnection DEF NoLink, Connections
  <1> HIDE DEF d
  <1>4. link' \in [Links -> Connections] /\ link'[k] = d /\ \A m \in Links : m # k => link'[m] = link[m]
    BY <1>2, <1>3, Replaced DEF TypeOK
  <1> QED BY <1>1, <1>3, <1>4

\* dispose closes its end of the current connection, and no other.
LEMMA DisposeFacts ==
    ASSUME TypeOK, Dispose
    PROVE  /\ link' \in [Links -> Connections] /\ \A m \in Links : m # current => link'[m] = link[m]
           /\ current # 0 =>
                LET c == link[current]  d == link'[current]
                IN \/ d = NoLink
                   \/ /\ ~d.open /\ d.sess = c.sess /\ d.cur = c.cur /\ d.answer = c.answer /\ d.up = c.up
                      /\ d.down = <<>> /\ d.events = c.events /\ Served(current)
  <1>1. CASE current = 0
    BY <1>1 DEF Dispose, TypeOK
  <1>2. CASE current # 0
    <2> DEFINE c == link[current]
               d == [c EXCEPT !.open = FALSE, !.down = <<>>]
    <2>1. current \in Links /\ c \in Connections
      BY <1>2 DEF TypeOK
    <2>2. Becomes(current, IF Served(current) THEN d ELSE NoLink)
      BY <1>2 DEF Dispose, Becomes
    <2>3. <<>> \in Seq(Messages)
      OBVIOUS
    <2>4. /\ d \in Connections /\ ~d.open /\ d.sess = c.sess /\ d.cur = c.cur /\ d.answer = c.answer /\ d.up = c.up
          /\ d.down = <<>> /\ d.events = c.events
      BY <2>1, <2>3 DEF Connections
    <2> HIDE DEF c, d
    <2>5. /\ link' \in [Links -> Connections] /\ link'[current] = (IF Served(current) THEN d ELSE NoLink)
          /\ \A m \in Links : m # current => link'[m] = link[m]
      BY <2>1, <2>2, <2>4, NoLinkIsConnection, Replaced DEF TypeOK
    <2> QED BY <2>4, <2>5 DEF c
  <1> QED BY <1>1, <1>2

\* The end of the process: what a client has not received is all that stays.
LEMMA StopServiceFacts ==
    ASSUME TypeOK, StopService
    PROVE  /\ link' \in [Links -> Connections]
           /\ \A k \in Links : LET c == link[k]  d == link'[k]
                IN /\ d = c \/ (d.up = <<>> /\ d.sess \in {"none", "ended"} /\ d.down \in {<<>>, c.down} /\ d.events = <<>>)
                   /\ d.open = c.open /\ (d.sess = "none" => d = NoLink \/ d = c)
  <1> DEFINE e(k) == [NoLink EXCEPT !.open = TRUE, !.sess = "ended", !.down = link[k].down]
  <1>1. ASSUME NEW k \in Links
        PROVE  /\ e(k) \in Connections /\ e(k).open = TRUE /\ e(k).sess = "ended" /\ e(k).up = <<>>
               /\ e(k).down = link[k].down /\ e(k).events = <<>> /\ link[k] \in Connections
    <2>1. link[k] \in Connections /\ link[k].down \in Seq(Messages)
      BY DEF TypeOK, Connections
    <2> QED BY <2>1, NoLinkIsConnection DEF NoLink, Connections
  <1>2. link' = [k \in Links |->
          IF Served(k) /\ link[k].open THEN e(k) ELSE IF Served(k) THEN NoLink ELSE link[k]]
    BY DEF StopService
  <1> HIDE DEF e
  <1>3. \A k \in Links : link'[k] = IF Served(k) /\ link[k].open THEN e(k) ELSE IF Served(k) THEN NoLink ELSE link[k]
    BY <1>2
  <1>4. link' \in [Links -> Connections]
    BY <1>1, <1>2, NoLinkIsConnection
  <1>5. \A k \in Links : link[k].open \in BOOLEAN
    BY <1>1 DEF Connections
  <1>6. NoLink.open = FALSE /\ NoLink.up = <<>> /\ NoLink.sess = "none" /\ NoLink.down = <<>> /\ NoLink.events = <<>>
    BY DEF NoLink
  <1> QED BY <1>1, <1>3, <1>4, <1>5, <1>6

\* A request goes out on the current connection.
LEMMA RequestFacts ==
    ASSUME TypeOK, Transport, NEW kind \in {"get", "set"}, Request(kind)
    PROVE  LET c == link[current]  d == link'[current]  r == [id |-> nextId, kind |-> kind, number |-> asked + 1]
           IN /\ current \in Links /\ link' \in [Links -> Connections] /\ \A m \in Links : m # current => link'[m] = link[m]
              /\ d.open = c.open /\ d.sess = c.sess /\ d.cur = c.cur /\ d.answer = c.answer
              /\ d.down = c.down /\ d.events = c.events /\ d.up = Append(c.up, r)
              /\ r \in RequestLines /\ pending' = pending \cup {r} /\ asked' = asked + 1 /\ nextId' = asked'
              /\ asked' \in 0..MaxRequests /\ asked + 1 \in Numbers
              /\ outcome' = [outcome EXCEPT ![asked + 1] = "pending"]
              /\ r.number = asked + 1 /\ r.id = asked /\ state = "connected" /\ ~disposed
  <1> DEFINE c == link[current]
             r == [id |-> nextId, kind |-> kind, number |-> asked + 1]
             d == [c EXCEPT !.up = c.up \o <<r>>]
  <1>1. /\ asked < MaxRequests /\ asked' = asked + 1 /\ state = "connected" /\ ~disposed /\ pending' = pending \cup {r}
        /\ outcome' = [outcome EXCEPT ![asked + 1] = "pending"] /\ nextId' = nextId + 1
    BY DEF Request, WireId
  <1>2. asked \in Nat /\ nextId = asked /\ MaxRequests \in Nat
    BY IpcAssumption DEF TypeOK
  <1>3. r \in RequestLines /\ r.number = asked + 1 /\ r.id = asked /\ asked' \in 0..MaxRequests /\ asked + 1 \in Numbers
        /\ nextId' = asked'
    BY <1>1, <1>2 DEF RequestLines, Numbers
  <1>4. current \in Links /\ c \in Connections /\ c.up \in Seq(RequestLines)
    BY <1>1 DEF TypeOK, Transport, Connections
  <1>5. link' = [link EXCEPT ![current].up = link[current].up \o Lines(r)]
    BY DEF Request, WireId
  <1>6. Becomes(current, d)
    BY <1>4, <1>5 DEF Becomes, Lines, TypeOK
  <1> HIDE DEF r
  <1>7. c.up \o <<r>> = Append(c.up, r) /\ Append(c.up, r) \in Seq(RequestLines)
    BY <1>3, <1>4
  <1>8. /\ d \in Connections /\ d.open = c.open /\ d.sess = c.sess /\ d.cur = c.cur /\ d.answer = c.answer
        /\ d.down = c.down /\ d.events = c.events /\ d.up = Append(c.up, r)
    BY <1>4, <1>7 DEF Connections
  <1> HIDE DEF c, d
  <1>9. link' \in [Links -> Connections] /\ link'[current] = d /\ \A m \in Links : m # current => link'[m] = link[m]
    BY <1>4, <1>6, <1>8, Replaced DEF TypeOK
  <1> QED BY <1>1, <1>3, <1>4, <1>8, <1>9 DEF c, r

\* The client takes the first line of a pipe.
LEMMA TakenFacts ==
    ASSUME TypeOK, NEW k \in Links, Listening(k), Taken(k)
    PROVE  LET c == link[k]  d == link'[k]
           IN /\ link' \in [Links -> Connections] /\ \A m \in Links : m # k => link'[m] = link[m]
              /\ c.open /\ c.down # <<>> /\ d.down = Tail(c.down) /\ Head(c.down) \in Messages
              /\ d.open = c.open /\ d.sess = c.sess /\ d.cur = c.cur /\ d.answer = c.answer /\ d.up = c.up
              /\ d.events = c.events
  <1> DEFINE c == link[k]
             d == [c EXCEPT !.down = Tail(c.down)]
  <1>1. c \in Connections /\ c.open /\ c.down # <<>> /\ c.down \in Seq(Messages) /\ Becomes(k, d)
    BY DEF Listening, Taken, TypeOK, Becomes, Connections
  <1>2. Tail(c.down) \in Seq(Messages) /\ Head(c.down) \in Messages
    BY <1>1, HeadTailProperties
  <1>3. /\ d \in Connections /\ d.down = Tail(c.down) /\ d.open = c.open /\ d.sess = c.sess /\ d.cur = c.cur
        /\ d.answer = c.answer /\ d.up = c.up /\ d.events = c.events
    BY <1>1, <1>2 DEF Connections
  <1> HIDE DEF c, d
  <1>4. link' \in [Links -> Connections] /\ link'[k] = d /\ \A m \in Links : m # k => link'[m] = link[m]
    BY <1>1, <1>3, Replaced DEF TypeOK
  <1> QED BY <1>1, <1>2, <1>3, <1>4 DEF c

-----------------------------------------------------------------------------
(* Types *)

\* The answer of a session that is about to give it.
LEMMA AnswerIsMessage ==
    ASSUME Answers, NEW k \in Links, link[k].sess \in {"publish", "write"}
    PROVE  Truthful(link[k].answer, asked, executed) /\ link[k].answer.id = link[k].cur.id /\ link[k].answer \in Messages
  BY DEF Answers, Truthful

\* The connections keep their type.
LEMMA LinksTyped ==
    ASSUME TypeOK, Transport, Answers, Next
    PROVE  link' \in [Links -> Connections]
  <1> DEFINE G == link' \in [Links -> Connections]
  <1>1. ASSUME NEW k \in Links, SessionStep(k) PROVE G
    <2>1. CASE Subscribe(k)
      BY <2>1, SubscribeFacts
    <2>2. CASE ReadRequest(k)
      BY <2>2, ReadRequestFacts
    <2>3. CASE handleSettingsGet(k) \/ handleSettingsSet(k)
      BY <2>3, HandlerFacts
    <2>4. CASE Publish(k)
      BY <2>4, PublishFacts
    <2>5. CASE WriteResponse(k)
      <3>1. link[k].answer \in Messages
        BY <2>5, AnswerIsMessage DEF WriteResponse
      <3> QED BY <2>5, <3>1, WriteResponseFacts
    <2>6. CASE EndSession(k)
      BY <2>6, ClosedFacts
    <2> QED BY <1>1, <2>1, <2>2, <2>3, <2>4, <2>5, <2>6 DEF SessionStep
  <1>2. ASSUME NEW k \in Links, PushEvent(k) PROVE G
    BY <1>2, PushEventFacts
  <1>3. ASSUME NEW k \in Links, ConnectOk(k) PROVE G
    BY <1>3, ConnectOkFacts
  <1>4. ASSUME NEW k \in Links, ConnectionLost(k) PROVE G
    BY <1>4, ClosedFacts
  <1>5. ASSUME NEW k \in Links, OnResponse(k) \/ OnEvent(k) PROVE G
    BY <1>5, TakenFacts DEF OnResponse, OnEvent
  <1>6. ASSUME NEW kind \in {"get", "set"}, Request(kind) PROVE G
    BY <1>6, RequestFacts
  <1>7. ASSUME Dispose PROVE G
    BY <1>7, DisposeFacts
  <1>8. ASSUME StopService PROVE G
    BY <1>8, StopServiceFacts
  <1>9. ASSUME OtherPublish PROVE G
    BY <1>9, OtherPublishFacts
  <1>10. ASSUME StartService \/ OtherUpdate \/ ConnectFails \/ TimerFires \/ RetryNow \/ DisposeEnds
                \/ \E r \in pending : Timeout(r)
         PROVE  G
    BY <1>10 DEF StartService, OtherUpdate, ConnectFails, TimerFires, RetryNow, DisposeEnds, Timeout, TypeOK
  <1> QED BY <1>1, <1>2, <1>3, <1>4, <1>5, <1>6, <1>7, <1>8, <1>9, <1>10 DEF Next, ClientStep, UserStep

\* What is pending fails with its connection.
LEMMA FailAllFacts ==
    ASSUME TypeOK, FailAllPending
    PROVE  /\ pending' = {}
           /\ outcome' \in [Numbers -> {"none", "pending", "ok", "error", "wrong", "lost", "timeout"}]
           /\ \A n \in Numbers : outcome'[n] = outcome[n] \/ outcome'[n] = "lost"
  BY DEF FailAllPending, TypeOK

\* A response completes what is pending under its id.
LEMMA OnResponseFacts ==
    ASSUME TypeOK, NEW k \in Links, OnResponse(k)
    PROVE  LET m == Head(link[k].down)
               mine == {r \in pending : r.id = m.id}
           IN /\ m.type = "response" /\ m \in Messages /\ Taken(k) /\ Listening(k)
              /\ pending' = pending \ mine
              /\ outcome' \in [Numbers -> {"none", "pending", "ok", "error", "wrong", "lost", "timeout"}]
              /\ \A n \in Numbers :
                   \/ outcome'[n] = outcome[n]
                   \/ /\ \E r \in mine : r.number = n
                      /\ n # m.number \/ (n = m.number /\ outcome'[n] \in {"ok", "error"})
              /\ view' = IF Effective(m, pending) THEN m.val ELSE view
  <1> DEFINE m == Head(link[k].down)
             mine == {r \in pending : r.id = m.id}
  <1>1. /\ m.type = "response" /\ Taken(k) /\ Listening(k) /\ pending' = pending \ mine
        /\ outcome' = [n \in Numbers |->
                IF \E r \in mine : r.number = n
                THEN IF n # m.number THEN "wrong" ELSE IF m.ok THEN "ok" ELSE "error"
                ELSE outcome[n]]
        /\ view' = IF mine # {} /\ m.ok THEN m.val ELSE view
    BY DEF OnResponse
  <1>2. m \in Messages
    BY <1>1, TakenFacts
  <1>3. Effective(m, pending) <=> (mine # {} /\ m.ok)
    BY <1>2 DEF Effective, Messages
  <1> HIDE DEF m, mine
  <1>4. /\ outcome' \in [Numbers -> {"none", "pending", "ok", "error", "wrong", "lost", "timeout"}]
        /\ \A n \in Numbers :
             \/ outcome'[n] = outcome[n]
             \/ /\ \E r \in mine : r.number = n
                /\ n # m.number \/ (n = m.number /\ outcome'[n] \in {"ok", "error"})
    BY <1>1 DEF TypeOK
  <1>5. view' = IF Effective(m, pending) THEN m.val ELSE view
    BY <1>1, <1>3
  <1> QED BY <1>1, <1>2, <1>4, <1>5 DEF m, mine

\* Every step keeps the types.
LEMMA StepTyped ==
    ASSUME TypeOK, Transport, Answers, Next
    PROVE  TypeOK'
<1>0. link' \in [Links -> Connections]
  BY LinksTyped
<1>1. ASSUME NEW k \in Links, SessionStep(k) PROVE TypeOK'
  <2>1. CASE Subscribe(k) \/ ReadRequest(k) \/ WriteResponse(k) \/ EndSession(k)
    BY <1>0, <2>1 DEF Subscribe, ReadRequest, WriteResponse, EndSession, serviceVars, connectVars, callVars, historyVars, TypeOK
  <2>2. CASE handleSettingsGet(k) \/ handleSettingsSet(k)
    <3>1. executed' = [executed EXCEPT ![link[k].cur.number] = @ + 1] /\ settings' \in Nat
      BY <2>2, HandlerFacts
    <3>2. executed' \in [Numbers -> Nat]
      <4>1. CASE link[k].cur.number \in Numbers
        <5>1. executed[link[k].cur.number] + 1 \in Nat
          BY <4>1 DEF TypeOK
        <5> QED BY <3>1, <5>1 DEF TypeOK
      <4>2. CASE link[k].cur.number \notin Numbers
        <5>1. \A n \in Numbers : executed'[n] = executed[n]
          BY <3>1, <4>2 DEF TypeOK
        <5>2. executed' = [n \in Numbers |-> executed'[n]]
          BY <3>1 DEF TypeOK
        <5>3. executed' = [n \in Numbers |-> executed[n]]
          BY <5>1, <5>2
        <5> QED BY <5>3 DEF TypeOK
      <4> QED BY <4>1, <4>2
    <3> QED BY <1>0, <2>2, <3>1, <3>2
            DEF handleSettingsGet, handleSettingsSet, connectVars, callVars, historyVars, TypeOK
  <2>3. CASE Publish(k)
    <3>1. whole' \in BOOLEAN
      BY <2>3 DEF Publish, Unbroken
    <3> QED BY <1>0, <2>3, <3>1 DEF Publish, connectVars, callVars, TypeOK
  <2> QED BY <1>1, <2>1, <2>2, <2>3 DEF SessionStep
<1>2. ASSUME NEW k \in Links, PushEvent(k) PROVE TypeOK'
  BY <1>0, <1>2 DEF PushEvent, serviceVars, connectVars, callVars, historyVars, TypeOK
<1>3. ASSUME NEW k \in Links, ConnectOk(k) PROVE TypeOK'
  BY <1>0, <1>3 DEF ConnectOk, SetState, serviceVars, connectVars, callVars, historyVars, TypeOK
<1>4. ASSUME NEW k \in Links, ConnectionLost(k) PROVE TypeOK'
  <2>1. timer' \in BOOLEAN
    BY <1>4 DEF ConnectionLost, ScheduleReconnect
  <2>2. /\ pending' = {}
        /\ outcome' \in [Numbers -> {"none", "pending", "ok", "error", "wrong", "lost", "timeout"}]
    BY <1>4, FailAllFacts DEF ConnectionLost
  <2> QED BY <1>0, <1>4, <2>1, <2>2 DEF ConnectionLost, SetState, serviceVars, historyVars, TypeOK
<1>5. ASSUME NEW k \in Links, OnResponse(k) PROVE TypeOK'
  <2> DEFINE m == Head(link[k].down)
  <2>1. /\ m \in Messages /\ pending' \subseteq pending
        /\ outcome' \in [Numbers -> {"none", "pending", "ok", "error", "wrong", "lost", "timeout"}]
        /\ view' = m.val \/ view' = view
    BY <1>5, OnResponseFacts
  <2>2. m.val \in Nat
    BY <2>1 DEF Messages
  <2> HIDE DEF m
  <2> QED BY <1>0, <1>5, <2>1, <2>2 DEF OnResponse, serviceVars, connectVars, historyVars, TypeOK
<1>6. ASSUME NEW k \in Links, OnEvent(k) PROVE TypeOK'
  <2>1. Head(link[k].down) \in Messages
    BY <1>6, TakenFacts DEF OnEvent
  <2>2. view' \in Nat \cup {None}
    BY <1>6, <2>1 DEF OnEvent, Messages, TypeOK
  <2> QED BY <1>0, <1>6, <2>2 DEF OnEvent, serviceVars, connectVars, callVars, historyVars, TypeOK
<1>7. ASSUME NEW kind \in {"get", "set"}, Request(kind) PROVE TypeOK'
  <2> DEFINE r == [id |-> nextId, kind |-> kind, number |-> asked + 1]
  <2>1. /\ r \in RequestLines /\ pending' = pending \cup {r} /\ asked' = asked + 1 /\ nextId' = asked'
        /\ asked' \in 0..MaxRequests /\ asked + 1 \in Numbers
        /\ outcome' = [outcome EXCEPT ![asked + 1] = "pending"]
    BY <1>7, RequestFacts
  <2>2. calm' \in BOOLEAN
    BY <1>7 DEF Request
  <2> HIDE DEF r
  <2>3. pending' \subseteq RequestLines
    BY <2>1 DEF TypeOK
  <2>4. outcome' \in [Numbers -> {"none", "pending", "ok", "error", "wrong", "lost", "timeout"}]
    BY <2>1 DEF TypeOK
  <2> QED BY <1>0, <1>7, <2>1, <2>2, <2>3, <2>4 DEF Request, serviceVars, connectVars, TypeOK
<1>8. ASSUME Dispose PROVE TypeOK'
  BY <1>0, <1>8 DEF Dispose, serviceVars, callVars, historyVars, TypeOK
<1>9. ASSUME StopService PROVE TypeOK'
  BY <1>0, <1>9 DEF StopService, connectVars, callVars, TypeOK
<1>10. ASSUME OtherPublish PROVE TypeOK'
  <2>1. whole' \in BOOLEAN
    BY <1>10 DEF OtherPublish, Unbroken
  <2>2. others' \subseteq others
    BY <1>10 DEF OtherPublish
  <2> QED BY <1>0, <1>10, <2>1, <2>2 DEF OtherPublish, connectVars, callVars, TypeOK
<1>11. ASSUME OtherUpdate PROVE TypeOK'
  <2>1. calm' \in BOOLEAN
    BY <1>11 DEF OtherUpdate
  <2>2. foreign' \in Nat /\ settings' \in Nat /\ others' \subseteq Nat
    BY <1>11, IpcAssumption DEF OtherUpdate, TypeOK
  <2> QED BY <1>0, <1>11, <2>1, <2>2 DEF OtherUpdate, connectVars, callVars, TypeOK
<1>12. ASSUME StartService PROVE TypeOK'
  BY <1>0, <1>12 DEF StartService, connectVars, callVars, historyVars, TypeOK
<1>13. ASSUME ConnectFails PROVE TypeOK'
  <2>1. timer' \in BOOLEAN
    BY <1>13 DEF ConnectFails, ScheduleReconnect
  <2> QED BY <1>0, <1>13, <2>1 DEF ConnectFails, SetState, serviceVars, callVars, historyVars, TypeOK
<1>14. ASSUME TimerFires \/ RetryNow PROVE TypeOK'
  <2>1. timer' = FALSE /\ Connect /\ UNCHANGED <<serviceVars, disposed, current, callVars, view, historyVars>>
    BY <1>14 DEF TimerFires, RetryNow
  <2>2. attempts' \in Nat /\ state' \in {"connecting", "connected", "disconnected"}
    <3>1. attempts \in Nat /\ state \in {"connecting", "connected", "disconnected"}
      BY DEF TypeOK
    <3> QED BY <2>1, <3>1 DEF Connect, SetState
  <2> QED BY <1>0, <2>1, <2>2 DEF serviceVars, callVars, historyVars, TypeOK
<1>15. ASSUME DisposeEnds PROVE TypeOK'
  <2>1. /\ pending' = {}
        /\ outcome' \in [Numbers -> {"none", "pending", "ok", "error", "wrong", "lost", "timeout"}]
    BY <1>15, FailAllFacts DEF DisposeEnds
  <2> QED BY <1>0, <1>15, <2>1 DEF DisposeEnds, serviceVars, connectVars, historyVars, TypeOK
<1>16. ASSUME NEW r \in pending, Timeout(r) PROVE TypeOK'
  <2>1. pending' \subseteq pending /\ outcome' = [outcome EXCEPT ![r.number] = "timeout"]
    BY <1>16 DEF Timeout
  <2>2. outcome' \in [Numbers -> {"none", "pending", "ok", "error", "wrong", "lost", "timeout"}]
    BY <2>1 DEF TypeOK
  <2> QED BY <1>0, <1>16, <2>1, <2>2 DEF Timeout, serviceVars, connectVars, historyVars, TypeOK
<1> QED BY <1>1, <1>2, <1>3, <1>4, <1>5, <1>6, <1>7, <1>8, <1>9, <1>10, <1>11, <1>12, <1>13, <1>14, <1>15, <1>16
        DEF Next, ClientStep, UserStep

-----------------------------------------------------------------------------
(* The transport *)

\* Steps of the service do not touch what the client knows of its transport.
LEMMA TransportKept ==
    ASSUME TypeOK, Transport, UNCHANGED connectVars, pending' \subseteq pending,
           \A k \in Links : /\ link'[k].open = link[k].open
                            /\ link'[k].sess = "none" => link'[k] = NoLink
    PROVE  Transport'
  BY DEF Transport, connectVars

\* Every step keeps one transport at most.
LEMMA StepTransport ==
    ASSUME TypeOK, Transport, Answers, Next
    PROVE  Transport'
<1>0. NoLink.open = FALSE /\ NoLink.sess = "none"
  BY DEF NoLink
<1>1. ASSUME NEW k \in Links, SessionStep(k) PROVE Transport'
  <2>0. UNCHANGED connectVars /\ pending' = pending
    BY <1>1 DEF SessionStep, Subscribe, ReadRequest, handleSettingsGet, handleSettingsSet, Publish, WriteResponse,
                EndSession, callVars
  <2>1. CASE Subscribe(k)
    BY <2>0, <2>1, SubscribeFacts, TransportKept DEF Transport
  <2>2. CASE ReadRequest(k)
    BY <2>0, <2>2, ReadRequestFacts, TransportKept DEF Transport
  <2>3. CASE handleSettingsGet(k) \/ handleSettingsSet(k)
    BY <2>0, <2>3, HandlerFacts, TransportKept DEF Transport
  <2>4. CASE Publish(k)
    <3>1. \A m \in Links : /\ link'[m].open = link[m].open
                           /\ link'[m].sess = "none" => link'[m] = NoLink
      BY <2>4, PublishFacts DEF Transport, Subscribed, Served
    <3> QED BY <2>0, <3>1, TransportKept
  <2>5. CASE WriteResponse(k)
    <3>1. link[k].answer \in Messages
      BY <2>5, AnswerIsMessage DEF WriteResponse
    <3>2. \A m \in Links : /\ link'[m].open = link[m].open
                           /\ link'[m].sess = "none" => link'[m] = NoLink
      <4>1. link[k].open \in BOOLEAN /\ link'[k].open \in BOOLEAN
        BY LinksTyped DEF TypeOK, Connections
      <4> QED BY <1>0, <2>5, <3>1, <4>1, WriteResponseFacts DEF Transport
    <3> QED BY <2>0, <3>2, TransportKept
  <2>6. CASE EndSession(k)
    <3>1. link[k].open = FALSE
      BY <2>6 DEF EndSession, TypeOK, Connections
    <3>2. \A m \in Links : /\ link'[m].open = link[m].open
                           /\ link'[m].sess = "none" => link'[m] = NoLink
      BY <1>0, <2>6, <3>1, ClosedFacts DEF Transport
    <3> QED BY <2>0, <3>2, TransportKept
  <2> QED BY <1>1, <2>1, <2>2, <2>3, <2>4, <2>5, <2>6 DEF SessionStep
<1>2. ASSUME NEW k \in Links, PushEvent(k) PROVE Transport'
  <2>1. \A m \in Links : /\ link'[m].open = link[m].open
                         /\ link'[m].sess = "none" => link'[m] = NoLink
    BY <1>2, PushEventFacts DEF Transport, Subscribed, Served
  <2>2. UNCHANGED connectVars /\ pending' = pending
    BY <1>2 DEF PushEvent, callVars
  <2> QED BY <2>1, <2>2, TransportKept
<1>3. ASSUME NEW k \in Links, ConnectOk(k) PROVE Transport'
  <2>1. attempts = 1 /\ current = 0 /\ ~timer
    BY <1>3 DEF ConnectOk, Transport
  <2>2. /\ link'[k].open /\ link'[k].sess = "accepted" /\ \A m \in Links : m # k => link'[m] = link[m]
    BY <1>3, ConnectOkFacts
  <2>3. current' = k /\ attempts' = 0 /\ timer' = timer /\ disposed' = disposed /\ pending' = pending
        /\ (~disposed => state' = "connected")
    BY <1>3, <2>1 DEF ConnectOk, SetState, callVars
  <2>4. k # 0 /\ 0 \notin Links
    BY DEF Links
  <2> QED BY <2>1, <2>2, <2>3, <2>4 DEF Transport, TypeOK
<1>4. ASSUME NEW k \in Links, ConnectionLost(k) PROVE Transport'
  <2>1. link[k].open /\ current = k /\ attempts = 0 /\ ~timer
    BY <1>4 DEF ConnectionLost, Transport, Links
  <2>2. link'[k] = NoLink /\ \A m \in Links : m # k => link'[m] = link[m]
    BY <1>4, ClosedFacts
  <2>3. current' = 0 /\ attempts' = 0 /\ timer' = ~disposed /\ disposed' = disposed /\ pending' = {}
        /\ (~disposed => state' = "disconnected")
    BY <1>4, <2>1, FailAllFacts DEF ConnectionLost, SetState, ScheduleReconnect, TypeOK
  <2>4. 0 \notin Links
    BY DEF Links
  <2> QED BY <1>0, <2>1, <2>2, <2>3, <2>4 DEF Transport, TypeOK
<1>5. ASSUME NEW k \in Links, OnResponse(k) \/ OnEvent(k) PROVE Transport'
  <2>1. Listening(k) /\ Taken(k) /\ UNCHANGED connectVars
    BY <1>5 DEF OnResponse, OnEvent
  <2>2. pending' \subseteq pending
    BY <1>5 DEF OnResponse, OnEvent, callVars
  <2>3. \A m \in Links : /\ link'[m].open = link[m].open
                         /\ link'[m].sess = "none" => link'[m] = NoLink
    <3>1. link[k].open /\ link[k].sess # "none"
      BY <1>0, <2>1 DEF Listening, Transport
    <3> QED BY <2>1, <3>1, TakenFacts DEF Transport
  <2> QED BY <2>1, <2>2, <2>3, TransportKept
<1>6. ASSUME NEW kind \in {"get", "set"}, Request(kind) PROVE Transport'
  <2>1. /\ current \in Links /\ \A m \in Links : m # current => link'[m] = link[m]
        /\ link'[current].open = link[current].open /\ link'[current].sess = link[current].sess
        /\ state = "connected" /\ ~disposed
    BY <1>6, RequestFacts
  <2>2. link[current].open /\ link[current].sess # "none"
    BY <1>0, <2>1 DEF Transport
  <2>3. UNCHANGED connectVars
    BY <1>6 DEF Request
  <2> QED BY <2>1, <2>2, <2>3 DEF Transport, connectVars
<1>7. ASSUME Dispose PROVE Transport'
  <2>1. /\ \A m \in Links : m # current => link'[m] = link[m]
        /\ current # 0 => /\ link'[current].open = FALSE
                          /\ link'[current].sess = "none" => link'[current] = NoLink
    <3>1. current # 0 => \/ link'[current] = NoLink
                         \/ ~link'[current].open /\ link'[current].sess = link[current].sess /\ Served(current)
      BY <1>7, DisposeFacts
    <3>2. current # 0 => link'[current].open \in BOOLEAN
      BY LinksTyped DEF TypeOK, Connections
    <3> QED BY <1>0, <1>7, <3>1, <3>2, DisposeFacts DEF Served
  <2>2. disposed' = TRUE /\ timer' = FALSE /\ current' = 0 /\ attempts' = attempts
    BY <1>7 DEF Dispose
  <2>3. 0 \notin Links
    BY DEF Links
  <2> QED BY <2>1, <2>2, <2>3 DEF Transport
<1>8. ASSUME StopService PROVE Transport'
  <2>1. \A k \in Links : link'[k].open = link[k].open /\ (link'[k].sess = "none" => link'[k] = NoLink \/ link'[k] = link[k])
    BY <1>8, StopServiceFacts
  <2>2. UNCHANGED connectVars /\ pending' = pending
    BY <1>8 DEF StopService, callVars
  <2>3. \A m \in Links : /\ link'[m].open = link[m].open
                         /\ link'[m].sess = "none" => link'[m] = NoLink
    BY <2>1 DEF Transport
  <2> QED BY <2>2, <2>3, TransportKept
<1>9. ASSUME OtherPublish PROVE Transport'
  <2>1. \A m \in Links : /\ link'[m].open = link[m].open
                         /\ link'[m].sess = "none" => link'[m] = NoLink
    BY <1>9, OtherPublishFacts DEF Transport, Subscribed, Served
  <2>2. UNCHANGED connectVars /\ pending' = pending
    BY <1>9 DEF OtherPublish, callVars
  <2> QED BY <2>1, <2>2, TransportKept
<1>10. ASSUME StartService \/ OtherUpdate \/ DisposeEnds \/ \E r \in pending : Timeout(r) PROVE Transport'
  <2>1. link' = link /\ UNCHANGED connectVars /\ pending' \subseteq pending
    BY <1>10 DEF StartService, OtherUpdate, DisposeEnds, FailAllPending, Timeout, callVars
  <2> QED BY <2>1, TransportKept DEF Transport
<1>11. ASSUME ConnectFails PROVE Transport'
  <2>1. attempts = 1 /\ current = 0 /\ ~timer
    BY <1>11 DEF ConnectFails, Transport
  <2>2. attempts' = 0 /\ timer' = ~disposed /\ disposed' = disposed /\ pending' = pending /\ current' = current
        /\ link' = link /\ (~disposed => state' = "disconnected")
    BY <1>11, <2>1 DEF ConnectFails, SetState, ScheduleReconnect, TypeOK, callVars
  <2>3. CASE disposed
    BY <2>1, <2>2, <2>3 DEF Transport
  <2>4. CASE ~disposed
    <3>1. pending = {}
      BY <2>1, <2>4 DEF Transport
    <3>2. timer' = TRUE
      BY <2>2, <2>4
    <3> QED BY <2>1, <2>2, <2>4, <3>1, <3>2 DEF Transport
  <2> QED BY <2>3, <2>4
<1>12. ASSUME TimerFires \/ RetryNow PROVE Transport'
  <2>1. ~disposed /\ state = "disconnected" /\ timer /\ current = 0 /\ attempts = 0
    BY <1>12 DEF TimerFires, RetryNow, Transport, TypeOK
  <2>2. attempts' = 1 /\ timer' = FALSE /\ disposed' = disposed /\ pending' = pending /\ current' = current
        /\ link' = link /\ state' = "connecting"
    BY <1>12, <2>1 DEF TimerFires, RetryNow, Connect, SetState, callVars
  <2> QED BY <2>1, <2>2 DEF Transport
<1> QED BY <1>1, <1>2, <1>3, <1>4, <1>5, <1>6, <1>7, <1>8, <1>9, <1>10, <1>11, <1>12
        DEF Next, ClientStep, UserStep

-----------------------------------------------------------------------------
(* Requests that wait for their execution *)

\* The requests that wait in connection d are those that waited in c, s places
\* further back.
Carries(c, d, s) ==
    \A i \in 0..Len(d.up) : Live(d, i) =>
      i + s \in 0..Len(c.up) /\ Live(c, i + s) /\ Place(d, i) = Place(c, i + s)

\* The length of what a connection has on its way to the service.
LEMMA LinesCounted ==
    ASSUME NEW c \in Connections
    PROVE  c.up \in Seq(RequestLines) /\ Len(c.up) \in Nat /\ (c.up = <<>> <=> Len(c.up) = 0)
  <1>1. c.up \in Seq(RequestLines)
    BY DEF Connections
  <1> QED BY <1>1, EmptySeq, LenProperties

\* Nothing is added to what waits.
LEMMA CarriesSame ==
    ASSUME NEW c \in Connections, NEW d \in Connections, d.up = c.up,
           d.sess = "handle" => c.sess = "handle" /\ d.cur = c.cur
    PROVE  Carries(c, d, 0)
  <1>1. Len(c.up) \in Nat
    BY LinesCounted
  <1>2. SUFFICES ASSUME NEW i \in 0..Len(d.up), Live(d, i)
                 PROVE  i + 0 \in 0..Len(c.up) /\ Live(c, i + 0) /\ Place(d, i) = Place(c, i + 0)
    BY DEF Carries
  <1>3. i + 0 = i
    BY <1>1
  <1> QED BY <1>1, <1>2, <1>3 DEF Live, Place

\* Nothing waits.
LEMMA CarriesNothing ==
    ASSUME NEW c, NEW d \in Connections, d.up = <<>>, d.sess # "handle"
    PROVE  Carries(c, d, 0)
  <1>1. Len(d.up) = 0
    BY LinesCounted
  <1> QED BY <1>1 DEF Carries, Live

\* The first line is read.
LEMMA CarriesRead ==
    ASSUME NEW c \in Connections, NEW d \in Connections,
           c.up # <<>>, d.cur = Head(c.up), d.up = Tail(c.up)
    PROVE  Carries(c, d, 1)
  <1>1. c.up \in Seq(RequestLines) /\ Len(c.up) \in Nat /\ Len(c.up) > 0
    BY LinesCounted
  <1>2. /\ Len(d.up) = Len(c.up) - 1 /\ d.cur = c.up[1]
        /\ \A i \in 1..(Len(c.up) - 1) : d.up[i] = c.up[i + 1]
    BY <1>1, HeadTailProperties
  <1>3. SUFFICES ASSUME NEW i \in 0..Len(d.up), Live(d, i)
                 PROVE  i + 1 \in 0..Len(c.up) /\ Live(c, i + 1) /\ Place(d, i) = Place(c, i + 1)
    BY DEF Carries
  <1>4. i \in Int /\ i + 1 \in 1..Len(c.up) /\ i + 1 # 0
    BY <1>1, <1>2
  <1>5. Place(d, i) = c.up[i + 1]
    BY <1>1, <1>2, <1>4 DEF Place
  <1> QED BY <1>1, <1>4, <1>5 DEF Live, Place

\* A step that brings no request, moves those that wait and executes none of
\* them.
LEMMA WaitingKept ==
    ASSUME TypeOK, link' \in [Links -> Connections], Waiting, asked' = asked,
           NEW s \in [Links -> {0, 1}],
           \A n \in Numbers : n > asked => executed'[n] = executed[n],
           \A k \in Links : Carries(link[k], link'[k], s[k]),
           \A k \in Links : \A i \in 0..Len(link'[k].up) : Live(link'[k], i) =>
             executed'[Place(link'[k], i).number] = executed[Place(link'[k], i).number]
    PROVE  Waiting'
  <1>0. \A k \in Links : Len(link[k].up) \in Nat /\ Len(link'[k].up) \in Nat
    BY LinesCounted DEF TypeOK
  <1>1. ASSUME NEW k \in Links, NEW i \in 0..Len(link'[k].up), Live(link'[k], i)
        PROVE  /\ i + s[k] \in 0..Len(link[k].up) /\ Live(link[k], i + s[k])
               /\ Place(link'[k], i) = Place(link[k], i + s[k])
    BY <1>1 DEF Carries
  <1>2. ASSUME NEW k \in Links, NEW i \in 0..Len(link'[k].up), Live(link'[k], i)
        PROVE  Numbered(Place(link'[k], i), asked) /\ executed'[Place(link'[k], i).number] = 0
    BY <1>1, <1>2 DEF Waiting
  <1>3. ASSUME NEW k \in Links, NEW i \in 0..Len(link'[k].up), Live(link'[k], i),
               NEW m \in Links, NEW j \in 0..Len(link'[m].up), Live(link'[m], j),
               Place(link'[m], j).number = Place(link'[k], i).number
        PROVE  k = m /\ i = j
    <2>1. /\ i + s[k] \in 0..Len(link[k].up) /\ Live(link[k], i + s[k])
          /\ Place(link'[k], i) = Place(link[k], i + s[k])
      BY <1>1, <1>3
    <2>2. /\ j + s[m] \in 0..Len(link[m].up) /\ Live(link[m], j + s[m])
          /\ Place(link'[m], j) = Place(link[m], j + s[m])
      BY <1>1, <1>3
    <2>3. k = m /\ i + s[k] = j + s[m]
      BY <1>3, <2>1, <2>2 DEF Waiting
    <2>4. i \in Int /\ j \in Int /\ s[k] \in Int
      BY <1>0
    <2> QED BY <2>3, <2>4
  <1>4. \A n \in Numbers : n > asked' => executed'[n] = 0
    BY DEF Waiting
  <1> QED BY <1>2, <1>3, <1>4 DEF Waiting

\* The same without any shift or execution.
LEMMA WaitingCarried ==
    ASSUME TypeOK, link' \in [Links -> Connections], Waiting, asked' = asked, executed' = executed,
           \A k \in Links : Carries(link[k], link'[k], 0)
    PROVE  Waiting'
  <1> DEFINE s == [k \in Links |-> 0]
  <1>1. s \in [Links -> {0, 1}] /\ \A k \in Links : Carries(link[k], link'[k], s[k])
    OBVIOUS
  <1> HIDE DEF s
  <1> QED BY <1>1, WaitingKept

\* The same where no connection has more to read.
LEMMA WaitingSame ==
    ASSUME TypeOK, link' \in [Links -> Connections], Waiting, asked' = asked, executed' = executed,
           \A k \in Links :
             \/ link'[k].up = link[k].up
                /\ (link'[k].sess = "handle" => link[k].sess = "handle" /\ link'[k].cur = link[k].cur)
             \/ link'[k].up = <<>> /\ link'[k].sess # "handle"
    PROVE  Waiting'
  <1>1. \A k \in Links : link[k] \in Connections /\ link'[k] \in Connections
    BY DEF TypeOK
  <1>2. \A k \in Links : Carries(link[k], link'[k], 0)
    BY <1>1, CarriesSame, CarriesNothing
  <1> QED BY <1>2, WaitingCarried

\* Every step keeps apart what waits and what was executed.
LEMMA StepWaiting ==
    ASSUME TypeOK, Transport, Answers, Waiting, Next
    PROVE  Waiting'
<1>0. link' \in [Links -> Connections]
  BY LinksTyped
<1>a. NoLink.up = <<>> /\ NoLink.sess # "handle"
  BY DEF NoLink
<1>1. ASSUME NEW k \in Links, SessionStep(k) PROVE Waiting'
  <2>0. asked' = asked
    BY <1>1 DEF SessionStep, Subscribe, ReadRequest, handleSettingsGet, handleSettingsSet, Publish, WriteResponse,
                EndSession, callVars
  <2>1. CASE Subscribe(k)
    <3>1. executed' = executed
      BY <2>1 DEF Subscribe, serviceVars
    <3> QED BY <1>0, <2>0, <2>1, <3>1, SubscribeFacts, WaitingSame
  <2>2. CASE ReadRequest(k)
    <3> DEFINE s == [m \in Links |-> IF m = k THEN 1 ELSE 0]
    <3>1. executed' = executed
      BY <2>2 DEF ReadRequest, serviceVars
    <3>2. link[k].up # <<>> /\ link'[k].cur = Head(link[k].up) /\ link'[k].up = Tail(link[k].up)
          /\ \A m \in Links : m # k => link'[m] = link[m]
      BY <2>2, ReadRequestFacts
    <3>3. \A m \in Links : link[m] \in Connections /\ link'[m] \in Connections
      BY <1>0 DEF TypeOK
    <3>4. Carries(link[k], link'[k], 1)
      BY <3>2, <3>3, CarriesRead
    <3>5. \A m \in Links : m # k => Carries(link[m], link'[m], 0)
      BY <3>2, <3>3, CarriesSame
    <3>6. s \in [Links -> {0, 1}] /\ \A m \in Links : Carries(link[m], link'[m], s[m])
      BY <3>4, <3>5
    <3> HIDE DEF s
    <3> QED BY <1>0, <2>0, <3>1, <3>6, WaitingKept
  <2>3. CASE handleSettingsGet(k) \/ handleSettingsSet(k)
    <3> DEFINE n == link[k].cur.number
               s == [m \in Links |-> 0]
    <3>1. /\ link[k].sess = "handle" /\ executed' = [executed EXCEPT ![n] = @ + 1]
          /\ link'[k].up = link[k].up /\ link'[k].sess # "handle"
          /\ \A m \in Links : m # k => link'[m] = link[m]
      BY <2>3, HandlerFacts
    <3>2. \A m \in Links : link[m] \in Connections /\ link'[m] \in Connections
      BY <1>0 DEF TypeOK
    <3>3. \A m \in Links : Carries(link[m], link'[m], 0)
      BY <3>1, <3>2, CarriesSame
    <3>4. 0 \in 0..Len(link[k].up) /\ Live(link[k], 0) /\ Place(link[k], 0).number = n
      BY <3>1, <3>2, LinesCounted DEF Live, Place
    <3>5. n \in 1..asked /\ asked \in Nat /\ n \in Numbers
      BY <3>4, IpcAssumption DEF Waiting, Numbered, TypeOK, Numbers
    <3> HIDE DEF n
    <3>6. \A q \in Numbers : q # n => executed'[q] = executed[q]
      BY <3>1 DEF TypeOK
    <3>7. ASSUME NEW m \in Links, NEW i \in 0..Len(link'[m].up), Live(link'[m], i)
          PROVE  executed'[Place(link'[m], i).number] = executed[Place(link'[m], i).number]
      <4>1. i + 0 = i
        BY <3>2, LinesCounted
      <4>2. i \in 0..Len(link[m].up) /\ Live(link[m], i) /\ Place(link'[m], i) = Place(link[m], i)
        BY <3>3, <3>7, <4>1 DEF Carries
      <4>3. ~(m = k /\ i = 0)
        BY <3>1, <3>2, <3>7, LinesCounted DEF Live
      <4>4. Place(link[m], i).number # n
        BY <3>4, <4>2, <4>3 DEF Waiting
      <4>5. Place(link[m], i).number \in Numbers
        BY <4>2, <3>5, IpcAssumption DEF Waiting, Numbered, TypeOK, Numbers
      <4> QED BY <3>6, <4>2, <4>4, <4>5
    <3>8. \A q \in Numbers : q > asked => executed'[q] = executed[q]
      BY <3>5, <3>6 DEF Numbers
    <3>9. s \in [Links -> {0, 1}] /\ \A m \in Links : Carries(link[m], link'[m], s[m])
      BY <3>3
    <3> HIDE DEF s
    <3> QED BY <1>0, <2>0, <3>7, <3>8, <3>9, WaitingKept
  <2>4. CASE Publish(k)
    <3>1. executed' = executed
      BY <2>4 DEF Publish
    <3>2. \A m \in Links : /\ link'[m].up = link[m].up
                           /\ link'[m].sess = "handle" => link[m].sess = "handle" /\ link'[m].cur = link[m].cur
      BY <2>4, PublishFacts
    <3> QED BY <1>0, <2>0, <3>1, <3>2, WaitingSame
  <2>5. CASE WriteResponse(k)
    <3>1. link[k].answer \in Messages /\ executed' = executed
      BY <2>5, AnswerIsMessage DEF WriteResponse, serviceVars
    <3>2. /\ \A m \in Links : m # k => link'[m] = link[m]
          /\ \/ link'[k] = NoLink
             \/ link'[k].sess = "read" /\ link'[k].up = link[k].up
      BY <2>5, <3>1, WriteResponseFacts
    <3> QED BY <1>0, <1>a, <2>0, <3>1, <3>2, WaitingSame
  <2>6. CASE EndSession(k)
    <3>1. executed' = executed
      BY <2>6 DEF EndSession, serviceVars
    <3> QED BY <1>0, <1>a, <2>0, <2>6, <3>1, ClosedFacts, WaitingSame
  <2> QED BY <1>1, <2>1, <2>2, <2>3, <2>4, <2>5, <2>6 DEF SessionStep
<1>2. ASSUME NEW k \in Links, PushEvent(k) PROVE Waiting'
  <2>1. asked' = asked /\ executed' = executed
    BY <1>2 DEF PushEvent, serviceVars, callVars
  <2> QED BY <1>0, <1>2, <2>1, PushEventFacts, WaitingSame
<1>3. ASSUME NEW k \in Links, ConnectOk(k) PROVE Waiting'
  <2>1. asked' = asked /\ executed' = executed
    BY <1>3 DEF ConnectOk, serviceVars, callVars
  <2>2. link'[k].up = <<>> /\ link'[k].sess # "handle" /\ \A m \in Links : m # k => link'[m] = link[m]
    BY <1>3, ConnectOkFacts
  <2> QED BY <1>0, <2>1, <2>2, WaitingSame
<1>4. ASSUME NEW k \in Links, ConnectionLost(k) PROVE Waiting'
  <2>1. asked' = asked /\ executed' = executed
    BY <1>4 DEF ConnectionLost, serviceVars
  <2> QED BY <1>0, <1>a, <1>4, <2>1, ClosedFacts, WaitingSame
<1>5. ASSUME NEW k \in Links, OnResponse(k) \/ OnEvent(k) PROVE Waiting'
  <2>1. asked' = asked /\ executed' = executed /\ Listening(k) /\ Taken(k)
    BY <1>5 DEF OnResponse, OnEvent, serviceVars, callVars
  <2> QED BY <1>0, <2>1, TakenFacts, WaitingSame
<1>6. ASSUME NEW kind \in {"get", "set"}, Request(kind) PROVE Waiting'
  <2> DEFINE r == [id |-> nextId, kind |-> kind, number |-> asked + 1]
             n == Len(link[current].up)
  <2>1. /\ current \in Links /\ \A m \in Links : m # current => link'[m] = link[m]
        /\ link'[current].sess = link[current].sess /\ link'[current].cur = link[current].cur
        /\ link'[current].up = Append(link[current].up, r)
        /\ r \in RequestLines /\ asked' = asked + 1 /\ asked + 1 \in Numbers
        /\ r.number = asked + 1 /\ r.id = asked
    BY <1>6, RequestFacts
  <2>2. executed' = executed
    BY <1>6 DEF Request, serviceVars
  <2>3. asked \in Nat
    BY DEF TypeOK
  <2> HIDE DEF r
  <2>4. \A m \in Links : Len(link[m].up) \in Nat /\ Len(link'[m].up) \in Nat
    BY <1>0, LinesCounted DEF TypeOK
  <2>5. /\ Len(link'[current].up) = n + 1 /\ link'[current].up[n + 1] = r
        /\ \A i \in 1..n : link'[current].up[i] = link[current].up[i]
    <3>1. link[current].up \in Seq(RequestLines)
      BY <2>1 DEF TypeOK, Connections
    <3> QED BY <2>1, <3>1, AppendProperties
  <2> DEFINE New(k, i) == k = current /\ i = n + 1
  <2>6. ASSUME NEW k \in Links, NEW i \in 0..Len(link'[k].up), Live(link'[k], i), ~New(k, i)
        PROVE  /\ i \in 0..Len(link[k].up) /\ Live(link[k], i) /\ Place(link'[k], i) = Place(link[k], i)
               /\ Numbered(Place(link'[k], i), asked) /\ executed[Place(link'[k], i).number] = 0
    <3>1. i \in 0..Len(link[k].up) /\ Live(link[k], i) /\ Place(link'[k], i) = Place(link[k], i)
      <4>1. CASE k # current
        BY <2>1, <2>6, <4>1
      <4>2. CASE k = current
        <5>1. n \in Nat /\ i \in 0..n /\ n = Len(link[k].up)
          BY <2>1, <2>4, <2>5, <2>6, <4>2
        <5>2. Live(link[k], i)
          BY <2>1, <2>6, <4>2, <5>1 DEF Live
        <5>3. Place(link'[k], i) = Place(link[k], i)
          BY <2>1, <2>5, <4>2, <5>1 DEF Place
        <5> QED BY <5>1, <5>2, <5>3
      <4> QED BY <4>1, <4>2
    <3> QED BY <3>1 DEF Waiting
  <2>7. ASSUME NEW k \in Links, NEW i \in 0..Len(link'[k].up), New(k, i)
        PROVE  Place(link'[k], i) = r
    BY <2>1, <2>4, <2>5, <2>7 DEF Place
  <2>8. Numbered(r, asked') /\ executed[r.number] = 0
    BY <2>1, <2>3 DEF Numbered, Waiting
  <2>9. \A q \in RequestLines : Numbered(q, asked) => Numbered(q, asked') /\ q.number # r.number
    BY <2>1, <2>3 DEF Numbered
  <2>10. \A k \in Links : \A i \in 0..Len(link[k].up) : Live(link[k], i) => Place(link[k], i) \in RequestLines
    <3>1. SUFFICES ASSUME NEW k \in Links, NEW i \in 0..Len(link[k].up), Live(link[k], i)
                   PROVE  Place(link[k], i) \in RequestLines
      OBVIOUS
    <3>2. link[k].up \in Seq(RequestLines) /\ link[k].cur \in RequestLines
      BY DEF TypeOK, Connections
    <3> QED BY <2>4, <3>1, <3>2 DEF Live, Place
  <2> HIDE DEF New, n
  <2>11. ASSUME NEW k \in Links, NEW i \in 0..Len(link'[k].up), Live(link'[k], i)
         PROVE  Numbered(Place(link'[k], i), asked') /\ executed'[Place(link'[k], i).number] = 0
    BY <2>2, <2>6, <2>7, <2>8, <2>9, <2>10, <2>11
  <2>12. ASSUME NEW k \in Links, NEW i \in 0..Len(link'[k].up), Live(link'[k], i),
                NEW m \in Links, NEW j \in 0..Len(link'[m].up), Live(link'[m], j),
                Place(link'[m], j).number = Place(link'[k], i).number
         PROVE  k = m /\ i = j
    <3>1. CASE New(k, i) /\ New(m, j)
      BY <3>1 DEF New
    <3>2. CASE New(k, i) /\ ~New(m, j)
      BY <2>6, <2>7, <2>9, <2>10, <2>12, <3>2
    <3>3. CASE ~New(k, i) /\ New(m, j)
      BY <2>6, <2>7, <2>9, <2>10, <2>12, <3>3
    <3>4. CASE ~New(k, i) /\ ~New(m, j)
      <4>1. i \in 0..Len(link[k].up) /\ Live(link[k], i) /\ Place(link'[k], i) = Place(link[k], i)
        BY <2>6, <2>12, <3>4
      <4>2. j \in 0..Len(link[m].up) /\ Live(link[m], j) /\ Place(link'[m], j) = Place(link[m], j)
        BY <2>6, <2>12, <3>4
      <4> QED BY <2>12, <4>1, <4>2 DEF Waiting
    <3> QED BY <3>1, <3>2, <3>3, <3>4
  <2>13. \A q \in Numbers : q > asked' => executed'[q] = 0
    BY <2>1, <2>2, <2>3 DEF Waiting, Numbers
  <2> QED BY <2>11, <2>12, <2>13 DEF Waiting
<1>7. ASSUME Dispose PROVE Waiting'
  <2>1. asked' = asked /\ executed' = executed
    BY <1>7 DEF Dispose, serviceVars, callVars
  <2>2. 0 \notin Links
    BY DEF Links
  <2>3. \A m \in Links : m # current => link'[m] = link[m]
    BY <1>7, DisposeFacts
  <2>4. current # 0 => \/ link'[current] = NoLink
                       \/ /\ link'[current].up = link[current].up /\ link'[current].sess = link[current].sess
                          /\ link'[current].cur = link[current].cur
    BY <1>7, DisposeFacts
  <2> QED BY <1>0, <1>a, <2>1, <2>2, <2>3, <2>4, WaitingSame
<1>8. ASSUME StopService PROVE Waiting'
  <2>1. asked' = asked /\ executed' = executed
    BY <1>8 DEF StopService, callVars
  <2>2. \A k \in Links : link'[k] = link[k] \/ (link'[k].up = <<>> /\ link'[k].sess \in {"none", "ended"})
    BY <1>8, StopServiceFacts
  <2> QED BY <1>0, <2>1, <2>2, WaitingSame
<1>9. ASSUME OtherPublish PROVE Waiting'
  <2>1. asked' = asked /\ executed' = executed
    BY <1>9 DEF OtherPublish, callVars
  <2>2. \A m \in Links : link'[m].up = link[m].up /\ link'[m].sess = link[m].sess /\ link'[m].cur = link[m].cur
    BY <1>9, OtherPublishFacts
  <2> QED BY <1>0, <2>1, <2>2, WaitingSame
<1>10. ASSUME StartService \/ OtherUpdate \/ ConnectFails \/ TimerFires \/ RetryNow \/ DisposeEnds
              \/ \E r \in pending : Timeout(r)
       PROVE  Waiting'
  <2>1. link' = link /\ asked' = asked /\ executed' = executed
    BY <1>10 DEF StartService, OtherUpdate, ConnectFails, TimerFires, RetryNow, DisposeEnds, Timeout, serviceVars, callVars
  <2> QED BY <1>0, <2>1, WaitingSame
<1> QED BY <1>1, <1>2, <1>3, <1>4, <1>5, <1>6, <1>7, <1>8, <1>9, <1>10 DEF Next, ClientStep, UserStep

-----------------------------------------------------------------------------
(* What the caller of a request is told *)

\* The responses in a sequence of lines are true, and all of its lines are events.
AllTruthful(q, n, runs) == \A i \in 1..Len(q) : q[i].type = "response" => Truthful(q[i], n, runs)
AllEvents(q) == \A i \in 1..Len(q) : q[i].type = "event"

\* What a connection holds of responses and events.
Honest(c, n, runs) ==
    /\ c.sess \in {"publish", "write"} => Truthful(c.answer, n, runs) /\ c.answer.id = c.cur.id
    /\ AllTruthful(c.down, n, runs) /\ AllEvents(c.events)

\* Answers, in these terms.
LEMMA AnswersAreHonest ==
    Answers <=> /\ \A r \in pending : Numbered(r, asked)
                /\ \A k \in Links : Honest(link[k], asked, executed)
                /\ \A n \in Numbers : /\ executed[n] \in {0, 1} /\ outcome[n] # "wrong"
                                      /\ outcome[n] \in {"ok", "error"} => executed[n] = 1
  BY DEF Answers, Honest, AllTruthful, AllEvents

\* A line is added to what a connection holds, and one is taken.
LEMMA LineAdded ==
    ASSUME NEW q \in Seq(Messages), NEW m \in Messages, NEW n, NEW runs
    PROVE  /\ AllTruthful(q, n, runs) /\ (m.type = "response" => Truthful(m, n, runs)) => AllTruthful(Append(q, m), n, runs)
           /\ AllEvents(q) /\ m.type = "event" => AllEvents(Append(q, m))
  <1>1. /\ Len(q) \in Nat /\ Len(Append(q, m)) = Len(q) + 1 /\ Append(q, m)[Len(q) + 1] = m
        /\ \A i \in 1..Len(q) : Append(q, m)[i] = q[i]
    BY AppendProperties, LenProperties
  <1>2. \A i \in 1..(Len(q) + 1) : i = Len(q) + 1 \/ i \in 1..Len(q)
    BY <1>1
  <1>3. AllTruthful(q, n, runs) /\ (m.type = "response" => Truthful(m, n, runs)) => AllTruthful(Append(q, m), n, runs)
    BY <1>1, <1>2 DEF AllTruthful
  <1>4. AllEvents(q) /\ m.type = "event" => AllEvents(Append(q, m))
    BY <1>1, <1>2 DEF AllEvents
  <1> QED BY <1>3, <1>4

\* What holds of all lines holds of the first and of the rest.
LEMMA LineTaken ==
    ASSUME NEW q \in Seq(Messages), q # <<>>, NEW n, NEW runs
    PROVE  /\ AllTruthful(q, n, runs) => AllTruthful(Tail(q), n, runs)
                                         /\ (Head(q).type = "response" => Truthful(Head(q), n, runs))
           /\ AllEvents(q) => AllEvents(Tail(q)) /\ Head(q).type = "event"
  <1>1. /\ Len(q) \in Nat \ {0} /\ Len(Tail(q)) = Len(q) - 1 /\ Head(q) = q[1]
        /\ \A i \in 1..Len(Tail(q)) : Tail(q)[i] = q[i + 1]
    BY HeadTailProperties, LenProperties, EmptySeq
  <1>2. 1 \in 1..Len(q) /\ \A i \in 1..Len(Tail(q)) : i + 1 \in 1..Len(q)
    BY <1>1
  <1> QED BY <1>1, <1>2 DEF AllTruthful, AllEvents

\* ... and of no line.
LEMMA NoLines ==
    ASSUME NEW n, NEW runs
    PROVE  AllTruthful(<<>>, n, runs) /\ AllEvents(<<>>)
  BY DEF AllTruthful, AllEvents

\* A connection that answers nothing new and has lines that are true.
LEMMA HonestKept ==
    ASSUME NEW c \in Connections, NEW d \in Connections, NEW n, NEW runs, Honest(c, n, runs),
           \/ d.sess \notin {"publish", "write"}
           \/ c.sess \in {"publish", "write"} /\ d.answer = c.answer /\ d.cur = c.cur,
           d.down = c.down \/ d.down = <<>> \/ AllTruthful(d.down, n, runs),
           d.events = c.events \/ d.events = <<>> \/ AllEvents(d.events)
    PROVE  Honest(d, n, runs)
  <1>1. AllTruthful(d.down, n, runs) /\ AllEvents(d.events)
    BY NoLines DEF Honest
  <1> QED BY <1>1 DEF Honest

\* Truth lasts: requests are added and executed, and none is undone.
LEMMA HonestLasts ==
    ASSUME NEW c \in Connections, NEW n \in Nat, NEW m \in Nat, n <= m, NEW runs, NEW after, Honest(c, n, runs),
           \A q \in 1..n : runs[q] = 1 => after[q] = 1
    PROVE  Honest(c, m, after)
  <1>1. \A x : Truthful(x, n, runs) => Truthful(x, m, after)
    BY DEF Truthful, Numbered, Messages
  <1> QED BY <1>1 DEF Honest, AllTruthful

\* Steps that execute nothing and tell no caller of a result.
LEMMA AnswersKept ==
    ASSUME TypeOK, Answers, asked' = asked, executed' = executed, pending' \subseteq pending,
           \A k \in Links : Honest(link'[k], asked, executed),
           \A n \in Numbers : outcome'[n] = outcome[n] \/ outcome'[n] \notin {"ok", "error", "wrong"}
    PROVE  Answers'
  <1>1. /\ \A r \in pending : Numbered(r, asked)
        /\ \A n \in Numbers : /\ executed[n] \in {0, 1} /\ outcome[n] # "wrong"
                              /\ outcome[n] \in {"ok", "error"} => executed[n] = 1
    BY AnswersAreHonest
  <1>2. \A r \in pending' : Numbered(r, asked')
    BY <1>1
  <1>3. \A k \in Links : Honest(link'[k], asked', executed')
    OBVIOUS
  <1>4. \A n \in Numbers : /\ executed'[n] \in {0, 1} /\ outcome'[n] # "wrong"
                           /\ outcome'[n] \in {"ok", "error"} => executed'[n] = 1
    BY <1>1
  <1> QED BY <1>2, <1>3, <1>4 DEF Answers, Honest, AllTruthful, AllEvents

\* Every step tells the truth.
LEMMA StepAnswers ==
    ASSUME TypeOK, Transport, Waiting, Answers, Next
    PROVE  Answers'
<1>0. \A k \in Links : /\ link[k] \in Connections /\ link'[k] \in Connections
                       /\ link[k].down \in Seq(Messages) /\ link[k].events \in Seq(Messages)
  BY LinksTyped DEF TypeOK, Connections
<1>a. /\ NoLink.sess = "none" /\ NoLink.down = <<>> /\ NoLink.events = <<>>
  BY DEF NoLink
<1>b. \A k \in Links : Honest(link[k], asked, executed)
  BY AnswersAreHonest
<1>1. ASSUME NEW k \in Links, SessionStep(k) PROVE Answers'
  <2>0. asked' = asked /\ pending' = pending /\ outcome' = outcome
    BY <1>1 DEF SessionStep, Subscribe, ReadRequest, handleSettingsGet, handleSettingsSet, Publish, WriteResponse,
                EndSession, callVars
  <2>1. CASE Subscribe(k)
    <3>1. executed' = executed
      BY <2>1 DEF Subscribe, serviceVars
    <3>2. \A m \in Links : Honest(link'[m], asked, executed)
      BY <1>0, <1>b, <2>1, SubscribeFacts, HonestKept
    <3> QED BY <2>0, <3>1, <3>2, AnswersKept
  <2>2. CASE ReadRequest(k)
    <3>1. executed' = executed
      BY <2>2 DEF ReadRequest, serviceVars
    <3>2. \A m \in Links : Honest(link'[m], asked, executed)
      BY <1>0, <1>b, <2>2, ReadRequestFacts, HonestKept
    <3> QED BY <2>0, <3>1, <3>2, AnswersKept
  <2>3. CASE handleSettingsGet(k) \/ handleSettingsSet(k)
    <3> DEFINE n == link[k].cur.number
    <3>1. /\ link[k].sess = "handle" /\ executed' = [executed EXCEPT ![n] = @ + 1]
          /\ link'[k].cur = link[k].cur /\ link'[k].down = link[k].down /\ link'[k].events = link[k].events
          /\ link'[k].answer \in Messages /\ link'[k].answer.type = "response"
          /\ link'[k].answer.id = link[k].cur.id /\ link'[k].answer.number = n
          /\ \A m \in Links : m # k => link'[m] = link[m]
      BY <2>3, HandlerFacts
    <3>2. 0 \in 0..Len(link[k].up) /\ Live(link[k], 0) /\ Place(link[k], 0) = link[k].cur
      BY <1>0, <3>1, LinesCounted DEF Live, Place
    <3>3. Numbered(link[k].cur, asked) /\ executed[n] = 0
      BY <3>2 DEF Waiting
    <3>4. asked \in Nat /\ n \in Numbers /\ \A q \in 1..asked : q \in Numbers
      BY <3>3, IpcAssumption DEF Numbered, TypeOK, Numbers
    <3>5. Numbered(link'[k].answer, asked)
      BY <3>1, <3>3 DEF Numbered
    <3> HIDE DEF n
    <3>6. executed'[n] = 1 /\ \A q \in Numbers : q # n => executed'[q] = executed[q]
      BY <3>1, <3>3, <3>4 DEF TypeOK
    <3>7. \A q \in Numbers : executed[q] = 1 => executed'[q] = 1
      BY <3>3, <3>6
    <3>8. \A m \in Links : Honest(link[m], asked, executed')
      <4>1. asked <= asked /\ \A q \in 1..asked : executed[q] = 1 => executed'[q] = 1
        BY <3>4, <3>7
      <4> QED BY <1>0, <1>b, <3>4, <4>1, HonestLasts
    <3>9. Truthful(link'[k].answer, asked, executed')
      BY <3>1, <3>5, <3>6 DEF Truthful
    <3>10. Honest(link'[k], asked, executed')
      BY <3>1, <3>8, <3>9 DEF Honest
    <3>11. \A m \in Links : Honest(link'[m], asked', executed')
      BY <2>0, <3>1, <3>8, <3>10
    <3>12. \A q \in Numbers : /\ executed'[q] \in {0, 1} /\ outcome'[q] # "wrong"
                              /\ outcome'[q] \in {"ok", "error"} => executed'[q] = 1
      BY <2>0, <3>6, <3>7, AnswersAreHonest
    <3>13. \A r \in pending' : Numbered(r, asked')
      BY <2>0, AnswersAreHonest
    <3> QED BY <3>11, <3>12, <3>13 DEF Answers, Honest, AllTruthful, AllEvents
  <2>4. CASE Publish(k)
    <3>1. executed' = executed
      BY <2>4 DEF Publish
    <3>2. ASSUME NEW m \in Links PROVE Honest(link'[m], asked, executed)
      <4> DEFINE e == Event(link[k].cur.number)
      <4>1. /\ link'[m].cur = link[m].cur /\ link'[m].answer = link[m].answer /\ link'[m].down = link[m].down
            /\ link[k].sess = "publish" /\ link'[m].sess = IF m = k THEN "write" ELSE link[m].sess
            /\ link'[m].events = link[m].events \/ link'[m].events = Append(link[m].events, e)
        BY <2>4, PublishFacts
      <4>2. e \in Messages /\ e.type = "event"
        BY <1>0 DEF Event, Messages, Connections, RequestLines
      <4> HIDE DEF e
      <4>3. AllEvents(link[m].events)
        BY <1>b DEF Honest
      <4>4. link'[m].events = link[m].events \/ AllEvents(link'[m].events)
        BY <1>0, <4>1, <4>2, <4>3, LineAdded
      <4>5. \/ link'[m].sess \notin {"publish", "write"}
            \/ link[m].sess \in {"publish", "write"} /\ link'[m].answer = link[m].answer /\ link'[m].cur = link[m].cur
        BY <4>1
      <4> QED BY <1>0, <1>b, <4>1, <4>4, <4>5, HonestKept
    <3> QED BY <2>0, <3>1, <3>2, AnswersKept
  <2>5. CASE WriteResponse(k)
    <3>1. link[k].answer \in Messages /\ executed' = executed /\ Truthful(link[k].answer, asked, executed)
      BY <2>5, AnswerIsMessage DEF WriteResponse, serviceVars
    <3>2. /\ \A m \in Links : m # k => link'[m] = link[m]
          /\ \/ link'[k] = NoLink
             \/ /\ link'[k].sess = "read" /\ link'[k].events = link[k].events
                /\ link'[k].down = Append(link[k].down, link[k].answer)
      BY <2>5, <3>1, WriteResponseFacts
    <3>3. AllTruthful(Append(link[k].down, link[k].answer), asked, executed)
      BY <1>0, <1>b, <3>1, LineAdded DEF Honest
    <3>4. Honest(link'[k], asked, executed)
      BY <1>0, <1>a, <1>b, <3>2, <3>3, HonestKept
    <3>5. \A m \in Links : Honest(link'[m], asked, executed)
      BY <1>b, <3>2, <3>4
    <3> QED BY <2>0, <3>1, <3>5, AnswersKept
  <2>6. CASE EndSession(k)
    <3>1. executed' = executed
      BY <2>6 DEF EndSession, serviceVars
    <3>2. \A m \in Links : Honest(link'[m], asked, executed)
      BY <1>0, <1>a, <1>b, <2>6, ClosedFacts, HonestKept
    <3> QED BY <2>0, <3>1, <3>2, AnswersKept
  <2> QED BY <1>1, <2>1, <2>2, <2>3, <2>4, <2>5, <2>6 DEF SessionStep
<1>2. ASSUME NEW k \in Links, PushEvent(k) PROVE Answers'
  <2>1. asked' = asked /\ executed' = executed /\ pending' = pending /\ outcome' = outcome
    BY <1>2 DEF PushEvent, serviceVars, callVars
  <2>2. /\ \A m \in Links : m # k => link'[m] = link[m]
        /\ link[k].events # <<>> /\ link'[k].events = Tail(link[k].events)
        /\ link'[k].sess = link[k].sess /\ link'[k].cur = link[k].cur /\ link'[k].answer = link[k].answer
        /\ link'[k].down = link[k].down \/ link'[k].down = Append(link[k].down, Head(link[k].events))
    BY <1>2, PushEventFacts
  <2>3. Head(link[k].events) \in Messages
    BY <1>0, <2>2, HeadTailProperties
  <2>4. AllEvents(link'[k].events) /\ Head(link[k].events).type = "event"
    BY <1>0, <1>b, <2>2, LineTaken DEF Honest
  <2>5. link'[k].down = link[k].down \/ AllTruthful(link'[k].down, asked, executed)
    BY <1>0, <1>b, <2>2, <2>3, <2>4, LineAdded DEF Honest
  <2>6. Honest(link'[k], asked, executed)
    BY <1>0, <1>b, <2>2, <2>4, <2>5, HonestKept
  <2>7. \A m \in Links : Honest(link'[m], asked, executed)
    BY <1>b, <2>2, <2>6
  <2> QED BY <2>1, <2>7, AnswersKept
<1>3. ASSUME NEW k \in Links, ConnectOk(k) PROVE Answers'
  <2>1. asked' = asked /\ executed' = executed /\ pending' = pending /\ outcome' = outcome
    BY <1>3 DEF ConnectOk, serviceVars, callVars
  <2>2. /\ link'[k].sess = "accepted" /\ link'[k].down = <<>> /\ link'[k].events = <<>>
        /\ \A m \in Links : m # k => link'[m] = link[m]
    BY <1>3, ConnectOkFacts
  <2>3. \A m \in Links : Honest(link'[m], asked, executed)
    BY <1>0, <1>b, <2>2, HonestKept
  <2> QED BY <2>1, <2>3, AnswersKept
<1>4. ASSUME NEW k \in Links, ConnectionLost(k) PROVE Answers'
  <2>1. asked' = asked /\ executed' = executed
    BY <1>4 DEF ConnectionLost, serviceVars
  <2>2. pending' = {} /\ \A n \in Numbers : outcome'[n] = outcome[n] \/ outcome'[n] = "lost"
    BY <1>4, FailAllFacts DEF ConnectionLost
  <2>3. \A m \in Links : Honest(link'[m], asked, executed)
    BY <1>0, <1>a, <1>b, <1>4, ClosedFacts, HonestKept
  <2> QED BY <2>1, <2>2, <2>3, AnswersKept
<1>5. ASSUME NEW k \in Links, Listening(k), Taken(k) PROVE \A m \in Links : Honest(link'[m], asked, executed)
  <2>1. /\ \A m \in Links : m # k => link'[m] = link[m]
        /\ link[k].down # <<>> /\ link'[k].down = Tail(link[k].down) /\ link'[k].events = link[k].events
        /\ link'[k].sess = link[k].sess /\ link'[k].cur = link[k].cur /\ link'[k].answer = link[k].answer
    BY <1>5, TakenFacts
  <2>2. AllTruthful(link'[k].down, asked, executed)
    BY <1>0, <1>b, <2>1, LineTaken DEF Honest
  <2>3. Honest(link'[k], asked, executed)
    BY <1>0, <1>b, <2>1, <2>2, HonestKept
  <2> QED BY <1>b, <2>1, <2>3
<1>6. ASSUME NEW k \in Links, OnEvent(k) PROVE Answers'
  <2>1. Listening(k) /\ Taken(k) /\ asked' = asked /\ executed' = executed /\ pending' = pending /\ outcome' = outcome
    BY <1>6 DEF OnEvent, serviceVars, callVars
  <2> QED BY <1>5, <2>1, AnswersKept
<1>7. ASSUME NEW k \in Links, OnResponse(k) PROVE Answers'
  <2> DEFINE m == Head(link[k].down)
             mine == {r \in pending : r.id = m.id}
  <2>1. /\ m.type = "response" /\ m \in Messages /\ Taken(k) /\ Listening(k) /\ pending' = pending \ mine
        /\ outcome' \in [Numbers -> {"none", "pending", "ok", "error", "wrong", "lost", "timeout"}]
        /\ \A n \in Numbers :
             \/ outcome'[n] = outcome[n]
             \/ /\ \E r \in mine : r.number = n
                /\ n # m.number \/ (n = m.number /\ outcome'[n] \in {"ok", "error"})
    BY <1>7, OnResponseFacts
  <2>2. asked' = asked /\ executed' = executed
    BY <1>7 DEF OnResponse, serviceVars
  <2>3. link[k].down # <<>>
    BY <2>1 DEF Listening
  <2>4. Truthful(m, asked, executed)
    BY <1>0, <1>b, <2>1, <2>3, LineTaken DEF Honest
  <2>5. \A r \in pending : Numbered(r, asked) /\ r \in RequestLines
    BY AnswersAreHonest DEF TypeOK
  <2>6. \A r \in mine : r.number = m.number
    BY <2>1, <2>4, <2>5 DEF Truthful, Numbered, RequestLines, Messages
  <2>7. executed[m.number] = 1
    BY <2>4 DEF Truthful
  <2> HIDE DEF m, mine
  <2>8. \A n \in Numbers : \/ outcome'[n] = outcome[n]
                           \/ executed[n] = 1 /\ outcome'[n] \in {"ok", "error"}
    BY <2>1, <2>6, <2>7
  <2>9. \A n \in Numbers : /\ executed'[n] \in {0, 1} /\ outcome'[n] # "wrong"
                           /\ outcome'[n] \in {"ok", "error"} => executed'[n] = 1
    BY <2>2, <2>8, AnswersAreHonest
  <2>10. \A r \in pending' : Numbered(r, asked')
    BY <2>1, <2>2, <2>5
  <2>11. \A n \in Links : Honest(link'[n], asked', executed')
    BY <1>5, <2>1, <2>2
  <2> QED BY <2>9, <2>10, <2>11 DEF Answers, Honest, AllTruthful, AllEvents
<1>8. ASSUME NEW kind \in {"get", "set"}, Request(kind) PROVE Answers'
  <2> DEFINE r == [id |-> nextId, kind |-> kind, number |-> asked + 1]
  <2>1. /\ current \in Links /\ \A m \in Links : m # current => link'[m] = link[m]
        /\ link'[current].sess = link[current].sess /\ link'[current].cur = link[current].cur
        /\ link'[current].answer = link[current].answer
        /\ link'[current].down = link[current].down /\ link'[current].events = link[current].events
        /\ r \in RequestLines /\ pending' = pending \cup {r} /\ asked' = asked + 1 /\ asked + 1 \in Numbers
        /\ outcome' = [outcome EXCEPT ![asked + 1] = "pending"] /\ r.number = asked + 1 /\ r.id = asked
    BY <1>8, RequestFacts
  <2>2. executed' = executed
    BY <1>8 DEF Request, serviceVars
  <2>3. asked \in Nat /\ asked' \in Nat /\ asked <= asked'
    BY <2>1 DEF TypeOK
  <2> HIDE DEF r
  <2>4. \A m \in Links : Honest(link'[m], asked, executed)
    BY <1>0, <1>b, <2>1, HonestKept
  <2>5. \A m \in Links : Honest(link'[m], asked', executed')
    BY <1>0, <2>2, <2>3, <2>4, HonestLasts
  <2>6. \A q \in pending' : Numbered(q, asked')
    <3>1. Numbered(r, asked')
      BY <2>1, <2>3 DEF Numbered
    <3>2. \A q \in pending : Numbered(q, asked')
      BY <2>1, <2>3, AnswersAreHonest DEF Numbered
    <3> QED BY <2>1, <3>1, <3>2
  <2>7. \A n \in Numbers : outcome'[n] \in {outcome[n], "pending"}
    BY <2>1 DEF TypeOK
  <2>8. \A n \in Numbers : /\ executed'[n] \in {0, 1} /\ outcome'[n] # "wrong"
                           /\ outcome'[n] \in {"ok", "error"} => executed'[n] = 1
    BY <2>2, <2>7, AnswersAreHonest
  <2> QED BY <2>5, <2>6, <2>8 DEF Answers, Honest, AllTruthful, AllEvents
<1>9. ASSUME Dispose PROVE Answers'
  <2>1. asked' = asked /\ executed' = executed /\ pending' = pending /\ outcome' = outcome
    BY <1>9 DEF Dispose, serviceVars, callVars
  <2>2. 0 \notin Links
    BY DEF Links
  <2>3. \A m \in Links : m # current => link'[m] = link[m]
    BY <1>9, DisposeFacts
  <2>4. current # 0 => \/ link'[current] = NoLink
                       \/ /\ link'[current].sess = link[current].sess /\ link'[current].answer = link[current].answer
                          /\ link'[current].cur = link[current].cur /\ link'[current].down = <<>>
                          /\ link'[current].events = link[current].events
    BY <1>9, DisposeFacts
  <2>5. ASSUME NEW m \in Links PROVE Honest(link'[m], asked, executed)
    BY <1>0, <1>a, <1>b, <2>2, <2>3, <2>4, HonestKept
  <2> QED BY <2>1, <2>5, AnswersKept
<1>10. ASSUME StopService PROVE Answers'
  <2>1. asked' = asked /\ executed' = executed /\ pending' = pending /\ outcome' = outcome
    BY <1>10 DEF StopService, callVars
  <2>2. \A k \in Links : \/ link'[k] = link[k]
                         \/ /\ link'[k].sess \in {"none", "ended"} /\ link'[k].down \in {<<>>, link[k].down}
                            /\ link'[k].events = <<>>
    BY <1>10, StopServiceFacts
  <2>3. \A m \in Links : Honest(link'[m], asked, executed)
    BY <1>0, <1>b, <2>2, HonestKept
  <2> QED BY <2>1, <2>3, AnswersKept
<1>11. ASSUME OtherPublish PROVE Answers'
  <2>1. asked' = asked /\ executed' = executed /\ pending' = pending /\ outcome' = outcome
    BY <1>11 DEF OtherPublish, callVars
  <2>2. PICK val \in others : \A m \in Links :
          /\ link'[m].sess = link[m].sess /\ link'[m].cur = link[m].cur /\ link'[m].answer = link[m].answer
          /\ link'[m].down = link[m].down
          /\ link'[m].events = link[m].events \/ link'[m].events = Append(link[m].events, Event(val))
    BY <1>11, OtherPublishFacts
  <2>3. Event(val) \in Messages /\ Event(val).type = "event"
    BY DEF TypeOK, Event, Messages
  <2>4. ASSUME NEW m \in Links PROVE Honest(link'[m], asked, executed)
    <3>1. AllEvents(link[m].events)
      BY <1>b DEF Honest
    <3>2. link'[m].events = link[m].events \/ AllEvents(link'[m].events)
      BY <1>0, <2>2, <2>3, <3>1, LineAdded
    <3> QED BY <1>0, <1>b, <2>2, <3>2, HonestKept
  <2> QED BY <2>1, <2>4, AnswersKept
<1>12. ASSUME StartService \/ OtherUpdate \/ ConnectFails \/ TimerFires \/ RetryNow PROVE Answers'
  <2>1. link' = link /\ asked' = asked /\ executed' = executed /\ pending' = pending /\ outcome' = outcome
    BY <1>12 DEF StartService, OtherUpdate, ConnectFails, TimerFires, RetryNow, serviceVars, callVars
  <2> QED BY <1>b, <2>1, AnswersKept
<1>13. ASSUME DisposeEnds \/ \E r \in pending : Timeout(r) PROVE Answers'
  <2>1. link' = link /\ asked' = asked /\ executed' = executed
    BY <1>13 DEF DisposeEnds, Timeout, serviceVars
  <2>2. CASE DisposeEnds
    <3>1. pending' = {} /\ \A n \in Numbers : outcome'[n] = outcome[n] \/ outcome'[n] = "lost"
      BY <2>2, FailAllFacts DEF DisposeEnds
    <3> QED BY <1>b, <2>1, <3>1, AnswersKept
  <2>3. CASE \E r \in pending : Timeout(r)
    <3>1. PICK r \in pending : Timeout(r)
      BY <2>3
    <3>2. pending' \subseteq pending /\ \A n \in Numbers : outcome'[n] = outcome[n] \/ outcome'[n] = "timeout"
      BY <3>1 DEF Timeout, TypeOK
    <3> QED BY <1>b, <2>1, <3>2, AnswersKept
  <2> QED BY <1>13, <2>2, <2>3
<1> QED BY <1>1, <1>2, <1>3, <1>4, <1>6, <1>7, <1>8, <1>9, <1>10, <1>11, <1>12, <1>13 DEF Next, ClientStep, UserStep

-----------------------------------------------------------------------------
(* The last event that a connection carries *)

\* An event with value s is published to connection c.
LEMMA LastPublished ==
    ASSUME NEW c, NEW d, NEW s, c.events \in Seq(Messages),
           NEW e \in Messages, e.val = s, d.events = Append(c.events, e)
    PROVE  LastEvent(d, s) /\ ~NoEvents(d)
  <1>1. Len(d.events) = Len(c.events) + 1 /\ d.events[Len(c.events) + 1] = e /\ d.events # <<>>
    BY AppendProperties
  <1> QED BY <1>1 DEF LastEvent, NoEvents

\* A response is written after the lines of connection c.
LEMMA LastWritten ==
    ASSUME NEW c, NEW d, NEW s, c.down \in Seq(Messages), d.events = c.events,
           NEW m \in Messages, m.type = "response", d.down = Append(c.down, m)
    PROVE  (LastEvent(c, s) => LastEvent(d, s)) /\ (NoEvents(d) => NoEvents(c))
  <1> DEFINE n == Len(c.down)
  <1>1. n \in Nat /\ Len(d.down) = n + 1 /\ d.down[n + 1] = m /\ \A i \in 1..n : d.down[i] = c.down[i]
    BY AppendProperties, LenProperties
  <1> HIDE DEF n
  <1>2. ASSUME LastEvent(c, s), c.events = <<>>, NEW i \in 1..(n + 1), d.down[i].type = "event",
               \A j \in 1..(n + 1) : j > i => d.down[j].type = "response"
        PROVE  d.down[i].val = s
    <2>1. i \in 1..n
      BY <1>1, <1>2
    <2>2. \A j \in 1..n : j > i => c.down[j].type = "response"
      BY <1>1, <1>2
    <2> QED BY <1>1, <1>2, <2>1, <2>2 DEF LastEvent, n
  <1>3. LastEvent(c, s) => LastEvent(d, s)
    BY <1>1, <1>2 DEF LastEvent
  <1>4. NoEvents(d) => NoEvents(c)
    BY <1>1 DEF NoEvents, n
  <1> QED BY <1>3, <1>4

\* The first event of the channel is written after the lines of connection c.
LEMMA LastPushed ==
    ASSUME NEW c, NEW d, NEW s, c.down \in Seq(Messages), c.events \in Seq(Messages), c.events # <<>>,
           Head(c.events).type = "event", d.events = Tail(c.events), d.down = Append(c.down, Head(c.events))
    PROVE  (LastEvent(c, s) => LastEvent(d, s)) /\ ~NoEvents(d)
  <1> DEFINE n == Len(c.down)
             e == Head(c.events)
             l == Len(c.events)
  <1>1. e \in Messages /\ l \in Nat \ {0} /\ e = c.events[1] /\ Len(d.events) = l - 1 /\ d.events \in Seq(Messages)
        /\ \A i \in 1..(l - 1) : d.events[i] = c.events[i + 1]
    BY HeadTailProperties, LenProperties, EmptySeq
  <1>2. n \in Nat /\ Len(d.down) = n + 1 /\ d.down[n + 1] = e
    BY <1>1, AppendProperties, LenProperties
  <1>3. d.events = <<>> <=> l = 1
    <2>1. d.events = <<>> <=> Len(d.events) = 0
      BY <1>1, EmptySeq
    <2>2. Len(d.events) = l - 1 /\ l \in Nat
      BY <1>1
    <2>3. \A x : \A y \in Nat : x = y - 1 => (x = 0 <=> y = 1)
      OBVIOUS
    <2> QED BY <2>1, <2>2, <2>3
  <1>4. e.type = "event"
    OBVIOUS
  <1> HIDE DEF n, e, l
  <1>5. ASSUME LastEvent(c, s) PROVE LastEvent(d, s)
    <2>1. c.events[l].val = s
      BY <1>5 DEF LastEvent, l
    <2>2. d.events # <<>> => d.events[Len(d.events)].val = s
      <3>1. SUFFICES ASSUME d.events # <<>> PROVE d.events[Len(d.events)].val = s
        OBVIOUS
      <3>2. l - 1 \in 1..(l - 1) /\ (l - 1) + 1 = l
        BY <1>1, <1>3, <3>1
      <3> QED BY <1>1, <2>1, <3>2
    <2>3. ASSUME d.events = <<>>, NEW i \in 1..(n + 1), d.down[i].type = "event",
                 \A j \in 1..(n + 1) : j > i => d.down[j].type = "response"
          PROVE  d.down[i].val = s
      <3>1. n + 1 \in 1..(n + 1) /\ i \in Int
        BY <1>2
      <3>2. i = n + 1
        BY <1>2, <1>4, <2>3, <3>1
      <3> QED BY <1>1, <1>2, <1>3, <2>1, <2>3, <3>2
    <2> QED BY <1>2, <2>2, <2>3 DEF LastEvent
  <1>6. ~NoEvents(d)
    <2>1. n + 1 \in 1..Len(d.down) /\ d.down[n + 1].type # "response"
      BY <1>2, <1>4
    <2> QED BY <2>1 DEF NoEvents
  <1> QED BY <1>5, <1>6

\* The client takes the first line.
LEMMA LastTaken ==
    ASSUME NEW c, NEW d, NEW s, c.down \in Seq(Messages), c.down # <<>>, d.events = c.events, d.down = Tail(c.down)
    PROVE  /\ LastEvent(c, s) => LastEvent(d, s)
           /\ NoEvents(d) /\ Head(c.down).type = "response" => NoEvents(c)
           /\ NoEvents(d) /\ Head(c.down).type = "event" /\ LastEvent(c, s) => Head(c.down).val = s
  <1> DEFINE n == Len(c.down)
             m == Head(c.down)
  <1>1. n \in Nat \ {0} /\ Len(d.down) = n - 1 /\ m = c.down[1] /\ \A i \in 1..(n - 1) : d.down[i] = c.down[i + 1]
    BY HeadTailProperties, LenProperties, EmptySeq
  <1> HIDE DEF n, m
  <1>2. \A j \in 2..n : j - 1 \in 1..(n - 1) /\ c.down[j] = d.down[j - 1]
    <2>1. SUFFICES ASSUME NEW j \in 2..n PROVE j - 1 \in 1..(n - 1) /\ c.down[j] = d.down[j - 1]
      OBVIOUS
    <2>2. j - 1 \in 1..(n - 1) /\ (j - 1) + 1 = j
      BY <1>1
    <2> QED BY <1>1, <2>2
  <1>3. ASSUME LastEvent(c, s) PROVE LastEvent(d, s)
    <2>1. ASSUME c.events = <<>>, NEW i \in 1..(n - 1), d.down[i].type = "event",
                 \A j \in 1..(n - 1) : j > i => d.down[j].type = "response"
          PROVE  d.down[i].val = s
      <3>1. i + 1 \in 1..n /\ d.down[i] = c.down[i + 1]
        BY <1>1
      <3>2. \A j \in 1..n : j > i + 1 => c.down[j].type = "response"
        <4>1. SUFFICES ASSUME NEW j \in 1..n, j > i + 1 PROVE c.down[j].type = "response"
          OBVIOUS
        <4>2. j \in 2..n /\ j - 1 > i
          BY <1>1, <4>1
        <4> QED BY <1>2, <2>1, <4>2
      <3> QED BY <1>3, <2>1, <3>1, <3>2 DEF LastEvent, n
    <2> QED BY <1>1, <1>3, <2>1 DEF LastEvent
  <1>4. ASSUME NoEvents(d) PROVE c.events = <<>> /\ \A j \in 2..n : c.down[j].type = "response"
    BY <1>1, <1>2, <1>4 DEF NoEvents
  <1>5. NoEvents(d) /\ m.type = "response" => NoEvents(c)
    <2>1. \A i \in 1..n : i = 1 \/ i \in 2..n
      BY <1>1
    <2> QED BY <1>1, <1>4, <2>1 DEF NoEvents, n
  <1>6. ASSUME NoEvents(d), m.type = "event", LastEvent(c, s) PROVE m.val = s
    <2>1. 1 \in 1..n /\ \A j \in 1..n : j > 1 => c.down[j].type = "response"
      BY <1>1, <1>4, <1>6
    <2> QED BY <1>1, <1>4, <1>6, <2>1 DEF LastEvent, n
  <1> QED BY <1>3, <1>5, <1>6 DEF m

-----------------------------------------------------------------------------
(* A client in step with the service *)

\* The sequences of a connection.
LEMMA ConnectionParts ==
    ASSUME NEW c \in Connections
    PROVE  /\ c.up \in Seq(RequestLines) /\ c.down \in Seq(Messages) /\ c.events \in Seq(Messages)
           /\ Len(c.up) \in Nat /\ Len(c.down) \in Nat /\ Len(c.events) \in Nat
           /\ c.sess \in {"none", "accepted", "read", "handle", "publish", "write", "ended"}
           /\ c.cur \in RequestLines
  <1>1. /\ c.up \in Seq(RequestLines) /\ c.down \in Seq(Messages) /\ c.events \in Seq(Messages)
        /\ c.sess \in {"none", "accepted", "read", "handle", "publish", "write", "ended"} /\ c.cur \in RequestLines
    BY DEF Connections
  <1> QED BY <1>1, LenProperties

\* Fewer are waiting.
LEMMA FewerWait ==
    ASSUME NEW c, NEW p, NEW q \in SUBSET p, NEW o, NEW s
    PROVE  (Stage(c, p, o) => Stage(c, q, o)) /\ (Told(c, p, s) => Told(c, q, s))
  <1>1. \A m : Effective(m, q) => Effective(m, p)
    BY DEF Effective
  <1> QED BY <1>1 DEF Stage, Told

\* Two connections with the same lines and events.
LEMMA SameLines ==
    ASSUME NEW c, NEW d, NEW s, d.down = c.down, d.events = c.events
    PROVE  (LastEvent(c, s) <=> LastEvent(d, s)) /\ (NoEvents(c) <=> NoEvents(d))
  BY DEF LastEvent, NoEvents

\* The session subscribes, or reads the only request.
LEMMA InStepRead ==
    ASSUME NEW c \in Connections, NEW d \in Connections, NEW v, NEW p, NEW o, NEW s,
           Stage(c, p, o), Told(c, p, s), Shown(c, v, o, s), d.down = c.down, d.events = c.events,
           \/ c.sess = "accepted" /\ d.sess = "read" /\ d.up = c.up
           \/ c.sess = "read" /\ c.up # <<>> /\ d.sess = "handle" /\ d.cur = Head(c.up) /\ d.up = Tail(c.up)
    PROVE  Stage(d, p, o) /\ Told(d, p, s) /\ Shown(d, v, o, s)
  <1>1. Stage(d, p, o)
    <2>1. CASE c.sess = "accepted" /\ d.sess = "read" /\ d.up = c.up
      BY <2>1 DEF Stage, Under
    <2>2. CASE c.sess = "read" /\ c.up # <<>> /\ d.sess = "handle" /\ d.cur = Head(c.up) /\ d.up = Tail(c.up)
      <3>1. c.up \in Seq(RequestLines) /\ Len(c.up) \in Nat /\ Len(c.up) <= 1
        BY ConnectionParts DEF Stage
      <3>a. Len(c.up) # 0
        BY <2>2, LinesCounted
      <3>b. \A x \in Nat : x <= 1 /\ x # 0 => x = 1
        OBVIOUS
      <3>2. Len(c.up) = 1
        BY <3>1, <3>a, <3>b
      <3>3. d.cur = c.up[1] /\ Len(d.up) = 0
        BY <2>2, <3>1, <3>2, HeadTailProperties
      <3>4. d.up = <<>>
        BY <3>3, LinesCounted
      <3> QED BY <2>2, <3>3, <3>4 DEF Stage, Under
    <2> QED BY <2>1, <2>2
  <1>2. Told(d, p, s)
    BY DEF Told
  <1>3. Shown(d, v, o, s)
    BY SameLines DEF Shown
  <1> QED BY <1>1, <1>2, <1>3

\* A handler has run: its answer is a, the settings are t.
LEMMA InStepHandled ==
    ASSUME NEW c \in Connections, NEW d \in Connections, NEW v, NEW p, NEW o, NEW s, NEW t,
           Stage(c, p, o), Told(c, p, s), Shown(c, v, o, s),
           c.sess = "handle", d.up = c.up, d.down = c.down, d.events = c.events, d.cur = c.cur,
           \A i \in 1..Len(c.down) : c.down[i].type = "response" => c.down[i].id # c.cur.id,
           \/ d.sess = "write" /\ t = s /\ (d.answer.ok => d.answer.val = t)
           \/ d.sess = "publish" /\ t = c.cur.number /\ d.answer.val = t
    PROVE  o = {} /\ Stage(d, p, o) /\ Told(d, p, t) /\ Shown(d, v, o, t)
  <1>1. p \subseteq {c.cur} /\ o = {}
    BY DEF Stage, Under
  <1>2. Stage(d, p, o)
    BY <1>1 DEF Stage, Under
  <1>3. \A i \in 1..Len(c.down) : c.down[i].type = "response" => ~Effective(c.down[i], p)
    BY <1>1 DEF Effective
  <1>4. Told(d, p, t)
    BY <1>3 DEF Told, Effective
  <1>5. Shown(d, v, o, t)
    BY SameLines DEF Shown
  <1> QED BY <1>1, <1>2, <1>4, <1>5

\* The session publishes its own write.
LEMMA InStepPublished ==
    ASSUME NEW c \in Connections, NEW d \in Connections, NEW v, NEW p, NEW o, NEW s,
           Stage(c, p, o), Told(c, p, s), Shown(c, v, o, s),
           c.sess = "publish", d.sess = "write", d.up = c.up, d.down = c.down, d.cur = c.cur, d.answer = c.answer,
           Event(s) \in Messages, d.events = Append(c.events, Event(s))
    PROVE  Stage(d, p, o) /\ Told(d, p, s) /\ Shown(d, v, o, s)
  <1>1. Stage(d, p, o)
    BY DEF Stage, Under
  <1>2. Told(d, p, s)
    BY DEF Told
  <1>3. Event(s).val = s /\ c.events \in Seq(Messages)
    BY ConnectionParts DEF Event
  <1>4. LastEvent(d, s) /\ ~NoEvents(d)
    BY <1>3, LastPublished
  <1>5. Shown(d, v, o, s)
    BY <1>4 DEF Shown
  <1> QED BY <1>1, <1>2, <1>5

\* The event of another session is published.
LEMMA InStepOther ==
    ASSUME NEW c \in Connections, NEW d \in Connections, NEW v, NEW p, NEW o, NEW s, o # {},
           Stage(c, p, o), Told(c, p, s), Shown(c, v, o, s),
           Event(s) \in Messages,
           \/ c.sess = "accepted" /\ d = c
           \/ /\ c.sess # "accepted" /\ d.sess = c.sess /\ d.up = c.up /\ d.down = c.down /\ d.cur = c.cur
              /\ d.answer = c.answer /\ d.events = Append(c.events, Event(s))
    PROVE  Stage(d, p, {}) /\ Told(d, p, s) /\ Shown(d, v, {}, s)
  <1>1. Stage(d, p, {})
    BY DEF Stage, Under
  <1>2. Told(d, p, s)
    BY DEF Told
  <1>3. CASE c.sess = "accepted" /\ d = c
    <2>1. v = None /\ c.events = <<>> /\ c.down = <<>>
      BY <1>3 DEF Shown
    <2>2. LastEvent(c, s)
      BY <2>1 DEF LastEvent
    <2> QED BY <1>1, <1>2, <1>3, <2>1, <2>2 DEF Shown
  <1>4. CASE c.sess # "accepted" /\ d.sess = c.sess /\ d.events = Append(c.events, Event(s))
    <2>1. Event(s).val = s /\ c.events \in Seq(Messages)
      BY ConnectionParts DEF Event
    <2>2. LastEvent(d, s) /\ ~NoEvents(d)
      BY <1>4, <2>1, LastPublished
    <2> QED BY <1>1, <1>2, <1>4, <2>2 DEF Shown
  <1> QED BY <1>3, <1>4

\* The response is written.
LEMMA InStepWritten ==
    ASSUME NEW c \in Connections, NEW d \in Connections, NEW v, NEW p, NEW o, NEW s,
           Stage(c, p, o), Told(c, p, s), Shown(c, v, o, s),
           c.sess = "write", d.sess = "read", d.up = c.up, d.events = c.events,
           c.answer \in Messages, c.answer.type = "response", d.down = Append(c.down, c.answer)
    PROVE  Stage(d, p, o) /\ Told(d, p, s) /\ Shown(d, v, o, s)
  <1>1. Stage(d, p, o)
    BY DEF Stage, Under
  <1>2. c.down \in Seq(Messages) /\ Len(c.down) \in Nat
    BY ConnectionParts
  <1>3. Told(d, p, s)
    <2> DEFINE n == Len(c.down)
    <2>1. Len(d.down) = n + 1 /\ d.down[n + 1] = c.answer /\ \A i \in 1..n : d.down[i] = c.down[i]
      BY <1>2, AppendProperties
    <2>2. \A i \in 1..(n + 1) : i = n + 1 \/ i \in 1..n
      BY <1>2
    <2>3. Effective(c.answer, p) => c.answer.val = s
      BY DEF Told
    <2>4. \A i \in 1..n : c.down[i].type = "response" /\ Effective(c.down[i], p) => c.down[i].val = s
      BY DEF Told
    <2> HIDE DEF n
    <2> QED BY <2>1, <2>2, <2>3, <2>4 DEF Told
  <1>4. (LastEvent(c, s) => LastEvent(d, s)) /\ (NoEvents(d) => NoEvents(c))
    BY <1>2, LastWritten
  <1>5. Shown(d, v, o, s)
    BY <1>4 DEF Shown
  <1> QED BY <1>1, <1>3, <1>5

\* An event is written.
LEMMA InStepPushed ==
    ASSUME NEW c \in Connections, NEW d \in Connections, NEW v, NEW p, NEW o, NEW s,
           Stage(c, p, o), Told(c, p, s), Shown(c, v, o, s),
           d.sess = c.sess, d.up = c.up, d.cur = c.cur, d.answer = c.answer, c.events # <<>>,
           Head(c.events).type = "event", d.events = Tail(c.events), d.down = Append(c.down, Head(c.events))
    PROVE  Stage(d, p, o) /\ Told(d, p, s) /\ Shown(d, v, o, s)
  <1>1. Stage(d, p, o)
    BY DEF Stage, Under
  <1>2. c.down \in Seq(Messages) /\ Len(c.down) \in Nat /\ c.events \in Seq(Messages) /\ Head(c.events) \in Messages
    BY ConnectionParts, HeadTailProperties
  <1>3. Told(d, p, s)
    <2> DEFINE n == Len(c.down)
    <2>1. Len(d.down) = n + 1 /\ d.down[n + 1] = Head(c.events) /\ \A i \in 1..n : d.down[i] = c.down[i]
      BY <1>2, AppendProperties
    <2>2. \A i \in 1..(n + 1) : i = n + 1 \/ i \in 1..n
      BY <1>2
    <2>3. \A i \in 1..n : c.down[i].type = "response" /\ Effective(c.down[i], p) => c.down[i].val = s
      BY DEF Told
    <2> HIDE DEF n
    <2>4. \A i \in 1..Len(d.down) : d.down[i].type = "response" /\ Effective(d.down[i], p) => d.down[i].val = s
      BY <2>1, <2>2, <2>3
    <2> QED BY <2>4 DEF Told
  <1>4. (LastEvent(c, s) => LastEvent(d, s)) /\ ~NoEvents(d)
    BY <1>2, LastPushed
  <1>5. Shown(d, v, o, s)
    BY <1>4 DEF Shown
  <1> QED BY <1>1, <1>3, <1>5

\* The client takes a line, m; it shows w and fewer are waiting.
LEMMA InStepTaken ==
    ASSUME NEW c \in Connections, NEW d \in Connections, NEW v, NEW w, NEW p, NEW q \in SUBSET p, NEW o, NEW s,
           Stage(c, p, o), Told(c, p, s), Shown(c, v, o, s),
           d.sess = c.sess, d.up = c.up, d.cur = c.cur, d.answer = c.answer, d.events = c.events,
           c.down # <<>>, d.down = Tail(c.down),
           LET m == Head(c.down)
           IN \/ m.type = "response" /\ w = IF Effective(m, p) THEN m.val ELSE v
              \/ m.type = "event" /\ w = m.val
    PROVE  Stage(d, q, o) /\ Told(d, q, s) /\ Shown(d, w, o, s)
  <1> DEFINE m == Head(c.down)
             n == Len(c.down)
  <1>0. c.down \in Seq(Messages)
    BY ConnectionParts
  <1>1. n \in Nat \ {0} /\ Len(d.down) = n - 1 /\ m = c.down[1] /\ \A i \in 1..(n - 1) : d.down[i] = c.down[i + 1]
    BY <1>0, HeadTailProperties, LenProperties, EmptySeq
  <1>2. 1 \in 1..n /\ \A i \in 1..(n - 1) : i + 1 \in 1..n
    BY <1>1
  <1>3. \A i \in 1..n : c.down[i].type = "response" /\ Effective(c.down[i], p) => c.down[i].val = s
    BY DEF Told
  <1>4. Stage(d, p, o)
    BY DEF Stage, Under
  <1>5. Told(d, p, s)
    <2> HIDE DEF n, m
    <2>1. SUFFICES ASSUME NEW i \in 1..Len(d.down), d.down[i].type = "response", Effective(d.down[i], p)
                   PROVE  d.down[i].val = s
      BY DEF Told
    <2>2. i + 1 \in 1..n /\ d.down[i] = c.down[i + 1]
      BY <1>1, <1>2
    <2> QED BY <1>3, <2>1, <2>2
  <1>6. Stage(d, q, o) /\ Told(d, q, s)
    BY <1>4, <1>5, FewerWait
  <1>7. /\ LastEvent(c, s) => LastEvent(d, s)
        /\ NoEvents(d) /\ m.type = "response" => NoEvents(c)
        /\ NoEvents(d) /\ m.type = "event" /\ LastEvent(c, s) => m.val = s
    BY <1>0, LastTaken
  <1>8. c.sess # "accepted"
    BY DEF Shown
  <1>9. m.type = "response" /\ Effective(m, p) => m.val = s
    BY <1>1, <1>2, <1>3
  <1>10. \/ m.type = "response" /\ w = IF Effective(m, p) THEN m.val ELSE v
         \/ m.type = "event" /\ w = m.val
    OBVIOUS
  <1> HIDE DEF m, n
  <1>11. Shown(d, w, o, s)
    <2>1. SUFFICES ASSUME o = {}, c.sess # "publish" PROVE LastEvent(d, s) /\ (NoEvents(d) => w \in {None, s})
      BY <1>8 DEF Shown
    <2>2. LastEvent(c, s) /\ (NoEvents(c) => v \in {None, s})
      BY <2>1 DEF Shown
    <2> QED BY <1>7, <1>9, <1>10, <2>2
  <1> QED BY <1>6, <1>11

\* What Sync says when there is something to say.
LEMMA SyncOpened ==
    ASSUME Sync, calm, whole, ~disposed
    PROVE  /\ \A k \in Links : k # current => link[k] = NoLink
           /\ others \subseteq {settings} /\ \A r, s \in pending : r = s
           /\ current = 0 => view = None
           /\ current # 0 => /\ Stage(link[current], pending, others) /\ Told(link[current], pending, settings)
                             /\ Shown(link[current], view, others, settings)
  BY DEF Sync, InStep

\* What there is to show for Sync after a step.
LEMMA SyncClosed ==
    ASSUME \A k \in Links : k # current' => link'[k] = NoLink,
           others' \subseteq {settings'}, \A r, s \in pending' : r = s,
           current' = 0 => view' = None,
           current' # 0 => /\ Stage(link'[current'], pending', others') /\ Told(link'[current'], pending', settings')
                           /\ Shown(link'[current'], view', others', settings')
    PROVE  Sync'
  BY DEF Sync, InStep

\* A step that leaves all this alone, except that fewer may wait.
LEMMA SyncKept ==
    ASSUME Sync, calm, whole, ~disposed, link' = link, current' = current, view' = view, others' = others,
           settings' = settings, pending' \subseteq pending
    PROVE  Sync'
  <1>1. /\ \A k \in Links : k # current => link[k] = NoLink
        /\ others \subseteq {settings} /\ \A r, s \in pending : r = s
        /\ current = 0 => view = None
        /\ current # 0 => /\ Stage(link[current], pending, others) /\ Told(link[current], pending, settings)
                          /\ Shown(link[current], view, others, settings)
    BY SyncOpened
  <1>2. current # 0 => Stage(link[current], pending', others) /\ Told(link[current], pending', settings)
    BY <1>1, FewerWait
  <1> QED BY <1>1, <1>2, SyncClosed

\* A client that was disposed, an overlap and a lost event are never forgotten.
LEMMA HistoryLasts ==
    ASSUME Next, calm', whole', ~disposed'
    PROVE  calm /\ whole /\ ~disposed
  <1>1. ASSUME UNCHANGED historyVars, disposed' = disposed PROVE calm /\ whole /\ ~disposed
    BY <1>1 DEF historyVars
  <1>2. ASSUME calm' = calm, Unbroken, disposed' = disposed PROVE calm /\ whole /\ ~disposed
    BY <1>2 DEF Unbroken
  <1>3. ASSUME calm' = (calm /\ ~Busy /\ others = {}), whole' = whole, disposed' = disposed
        PROVE  calm /\ whole /\ ~disposed
    BY <1>3
  <1>4. ASSUME NEW k \in Links, SessionStep(k) PROVE calm /\ whole /\ ~disposed
    <2>1. CASE Publish(k)
      BY <1>2, <2>1 DEF Publish, connectVars
    <2>2. CASE Subscribe(k) \/ ReadRequest(k) \/ handleSettingsGet(k) \/ handleSettingsSet(k)
      BY <1>1, <2>2 DEF Subscribe, ReadRequest, handleSettingsGet, handleSettingsSet, connectVars
    <2>3. CASE WriteResponse(k) \/ EndSession(k)
      BY <1>1, <2>3 DEF WriteResponse, EndSession, connectVars
    <2> QED BY <1>4, <2>1, <2>2, <2>3 DEF SessionStep
  <1>5. ASSUME NEW k \in Links, PushEvent(k) PROVE calm /\ whole /\ ~disposed
    BY <1>1, <1>5 DEF PushEvent, connectVars
  <1>6. ASSUME StartService \/ StopService PROVE calm /\ whole /\ ~disposed
    <2>1. ~StopService
      BY DEF StopService
    <2> QED BY <1>1, <1>6, <2>1 DEF StartService, connectVars
  <1>7. ASSUME OtherUpdate PROVE calm /\ whole /\ ~disposed
    BY <1>3, <1>7 DEF OtherUpdate, connectVars
  <1>8. ASSUME OtherPublish PROVE calm /\ whole /\ ~disposed
    BY <1>2, <1>8 DEF OtherPublish, connectVars
  <1>9. ASSUME ClientStep PROVE calm /\ whole /\ ~disposed
    <2>1. CASE ConnectFails \/ TimerFires \/ DisposeEnds
      BY <1>1, <2>1 DEF ConnectFails, TimerFires, DisposeEnds, connectVars
    <2>2. ASSUME NEW k \in Links, ConnectOk(k) \/ ConnectionLost(k) \/ OnResponse(k) \/ OnEvent(k)
          PROVE  calm /\ whole /\ ~disposed
      BY <1>1, <2>2 DEF ConnectOk, ConnectionLost, OnResponse, OnEvent, connectVars
    <2> QED BY <1>9, <2>1, <2>2 DEF ClientStep
  <1>10. ASSUME RetryNow \/ Dispose PROVE calm /\ whole /\ ~disposed
    <2>1. ~Dispose
      BY DEF Dispose
    <2> QED BY <1>1, <1>10, <2>1 DEF RetryNow
  <1>11. ASSUME NEW kind \in {"get", "set"}, Request(kind) PROVE calm /\ whole /\ ~disposed
    BY <1>3, <1>11 DEF Request, connectVars
  <1>12. ASSUME NEW r \in pending, Timeout(r) PROVE calm /\ whole /\ ~disposed
    BY <1>1, <1>12 DEF Timeout, connectVars
  <1> QED BY <1>4, <1>5, <1>6, <1>7, <1>8, <1>9, <1>10, <1>11, <1>12 DEF Next, UserStep

\* Every step keeps a calm client in step.
LEMMA StepSync ==
    ASSUME TypeOK, Transport, Waiting, Answers, Sync, Next
    PROVE  Sync'
<1>h. SUFFICES ASSUME calm', whole', ~disposed' PROVE Sync'
  BY DEF Sync
<1>i. calm /\ whole /\ ~disposed
  BY <1>h, HistoryLasts
<1>j. /\ \A k \in Links : k # current => link[k] = NoLink
      /\ others \subseteq {settings} /\ \A r, s \in pending : r = s
      /\ current = 0 => view = None
      /\ current # 0 => /\ Stage(link[current], pending, others) /\ Told(link[current], pending, settings)
                        /\ Shown(link[current], view, others, settings)
  BY <1>i, SyncOpened
<1>0. \A k \in Links : /\ link[k] \in Connections /\ link'[k] \in Connections
                       /\ link[k].down \in Seq(Messages) /\ link[k].events \in Seq(Messages)
  BY LinksTyped DEF TypeOK, Connections
<1>a. NoLink.sess = "none" /\ NoLink.open = FALSE /\ 0 \notin Links
  BY DEF NoLink, Links
<1>b. \A k \in Links : Honest(link[k], asked, executed)
  BY AnswersAreHonest
<1>c. \A k \in Links : link[k].sess # "none" => k = current /\ current # 0
  BY <1>a, <1>j
<1>d. \A k \in Links : Served(k) => k = current /\ current # 0
  BY <1>c DEF Served
<1>e. current # 0 => current \in Links /\ link[current].open
  BY DEF TypeOK, Transport
<1>f. ASSUME NEW k \in Links, k = current, current' = current,
             \A m \in Links : m # k => link'[m] = link[m],
             others' \subseteq {settings'}, pending' \subseteq pending,
             /\ Stage(link'[k], pending', others') /\ Told(link'[k], pending', settings')
             /\ Shown(link'[k], view', others', settings')
      PROVE  Sync'
  <2>1. \A m \in Links : m # current' => link'[m] = NoLink
    BY <1>f, <1>j
  <2>2. current' # 0
    BY <1>a, <1>f
  <2>3. \A r, s \in pending' : r = s
    BY <1>f, <1>j
  <2> QED BY <1>f, <2>1, <2>2, <2>3, SyncClosed
<1>1. ASSUME NEW k \in Links, SessionStep(k) PROVE Sync'
  <2>0. current' = current /\ pending' = pending /\ view' = view
    BY <1>1 DEF SessionStep, Subscribe, ReadRequest, handleSettingsGet, handleSettingsSet, Publish, WriteResponse,
                EndSession, callVars, connectVars
  <2>a. k = current /\ current # 0
    <3>1. link[k].sess # "none"
      BY <1>1 DEF SessionStep, Subscribe, ReadRequest, handleSettingsGet, handleSettingsSet, Publish, WriteResponse,
                  EndSession
    <3> QED BY <1>c, <3>1
  <2>b. /\ Stage(link[k], pending, others) /\ Told(link[k], pending, settings)
        /\ Shown(link[k], view, others, settings)
    BY <1>j, <2>a
  <2>1. CASE Subscribe(k) \/ ReadRequest(k)
    <3>1. others' = others /\ settings' = settings
      BY <2>1 DEF Subscribe, ReadRequest, serviceVars
    <3>2. /\ \A m \in Links : m # k => link'[m] = link[m]
          /\ link'[k].down = link[k].down /\ link'[k].events = link[k].events
          /\ \/ link[k].sess = "accepted" /\ link'[k].sess = "read" /\ link'[k].up = link[k].up
             \/ /\ link[k].sess = "read" /\ link[k].up # <<>> /\ link'[k].sess = "handle"
                /\ link'[k].cur = Head(link[k].up) /\ link'[k].up = Tail(link[k].up)
      BY <2>1, SubscribeFacts, ReadRequestFacts
    <3>3. /\ Stage(link'[k], pending, others) /\ Told(link'[k], pending, settings)
          /\ Shown(link'[k], view, others, settings)
      BY <1>0, <2>b, <3>2, InStepRead
    <3> QED BY <1>f, <1>j, <2>0, <2>a, <3>1, <3>2, <3>3
  <2>2. CASE handleSettingsGet(k) \/ handleSettingsSet(k)
    <3>1. others' = others
      BY <2>2 DEF handleSettingsGet, handleSettingsSet
    <3>2. /\ \A m \in Links : m # k => link'[m] = link[m]
          /\ link[k].sess = "handle" /\ link'[k].up = link[k].up /\ link'[k].cur = link[k].cur
          /\ link'[k].down = link[k].down /\ link'[k].events = link[k].events
          /\ \/ link'[k].sess = "write" /\ settings' = settings /\ (link'[k].answer.ok => link'[k].answer.val = settings')
             \/ link'[k].sess = "publish" /\ settings' = link[k].cur.number /\ link'[k].answer.val = settings'
      BY <2>2, HandlerFacts
    <3>3. 0 \in 0..Len(link[k].up) /\ Live(link[k], 0) /\ Place(link[k], 0) = link[k].cur
      BY <1>0, <3>2, LinesCounted DEF Live, Place
    <3>4. Numbered(link[k].cur, asked) /\ executed[link[k].cur.number] = 0
      BY <3>3 DEF Waiting
    <3>5. ASSUME NEW i \in 1..Len(link[k].down), link[k].down[i].type = "response"
          PROVE  link[k].down[i].id # link[k].cur.id
      <4>1. Truthful(link[k].down[i], asked, executed)
        BY <1>b, <3>5 DEF Honest, AllTruthful
      <4>2. link[k].down[i].number # link[k].cur.number
        BY <3>4, <4>1 DEF Truthful
      <4> QED BY <3>4, <4>1, <4>2 DEF Truthful, Numbered
    <3>6. /\ others = {} /\ Stage(link'[k], pending, others) /\ Told(link'[k], pending, settings')
          /\ Shown(link'[k], view, others, settings')
      BY <1>0, <2>b, <3>2, <3>5, InStepHandled
    <3> QED BY <1>f, <2>0, <2>a, <3>1, <3>2, <3>6
  <2>3. CASE Publish(k)
    <3>1. others' = others /\ settings' = settings /\ Unbroken
      BY <2>3 DEF Publish
    <3>2. link[k].sess = "publish"
      BY <2>3, PublishFacts
    <3>3. link[k].cur.number = settings /\ settings \in Nat
      BY <2>b, <3>2 DEF Told, TypeOK
    <3>4. Subscribed(k) /\ ~Full(k)
      BY <1>h, <3>1, <3>2 DEF Unbroken, Subscribed, Served
    <3>5. /\ link'[k].up = link[k].up /\ link'[k].down = link[k].down /\ link'[k].cur = link[k].cur
          /\ link'[k].answer = link[k].answer /\ link'[k].sess = "write"
          /\ link'[k].events = Append(link[k].events, Event(settings))
      BY <2>3, <3>3, <3>4, PublishFacts
    <3>6. \A m \in Links : m # k => link'[m] = link[m]
      <4>1. ASSUME NEW m \in Links, m # k PROVE ~Subscribed(m)
        BY <1>d, <2>a, <4>1 DEF Subscribed
      <4> QED BY <2>3, <4>1, PublishFacts
    <3>7. Event(settings) \in Messages
      BY <3>3 DEF Event, Messages
    <3>8. /\ Stage(link'[k], pending, others) /\ Told(link'[k], pending, settings)
          /\ Shown(link'[k], view, others, settings)
      BY <1>0, <2>b, <3>2, <3>5, <3>7, InStepPublished
    <3> QED BY <1>f, <1>j, <2>0, <2>a, <3>1, <3>6, <3>8
  <2>4. CASE WriteResponse(k)
    <3>1. others' = others /\ settings' = settings /\ link[k].sess = "write"
      BY <2>4 DEF WriteResponse, serviceVars
    <3>2. link[k].answer \in Messages /\ link[k].answer.type = "response"
      BY <3>1, AnswerIsMessage DEF Truthful
    <3>3. /\ \A m \in Links : m # k => link'[m] = link[m]
          /\ link'[k].sess = "read" /\ link'[k].up = link[k].up /\ link'[k].events = link[k].events
          /\ link'[k].down = Append(link[k].down, link[k].answer)
      BY <1>e, <2>4, <2>a, <3>2, WriteResponseFacts
    <3>4. /\ Stage(link'[k], pending, others) /\ Told(link'[k], pending, settings)
          /\ Shown(link'[k], view, others, settings)
      BY <1>0, <2>b, <3>1, <3>2, <3>3, InStepWritten
    <3> QED BY <1>f, <1>j, <2>0, <2>a, <3>1, <3>3, <3>4
  <2>5. CASE EndSession(k)
    BY <1>e, <2>5, <2>a DEF EndSession
  <2> QED BY <1>1, <2>1, <2>2, <2>3, <2>4, <2>5 DEF SessionStep
<1>2. ASSUME NEW k \in Links, PushEvent(k) PROVE Sync'
  <2>1. current' = current /\ pending' = pending /\ view' = view /\ others' = others /\ settings' = settings
    BY <1>2 DEF PushEvent, callVars, connectVars, serviceVars
  <2>2. k = current /\ current # 0
    BY <1>2, <1>d DEF PushEvent, Subscribed
  <2>3. /\ \A m \in Links : m # k => link'[m] = link[m]
        /\ link[k].events # <<>> /\ link'[k].events = Tail(link[k].events)
        /\ link'[k].sess = link[k].sess /\ link'[k].cur = link[k].cur /\ link'[k].answer = link[k].answer
        /\ link'[k].up = link[k].up /\ link'[k].down = Append(link[k].down, Head(link[k].events))
    BY <1>2, <1>e, <2>2, PushEventFacts
  <2>4. Head(link[k].events).type = "event"
    BY <1>0, <1>b, <2>3, LineTaken DEF Honest
  <2>5. /\ Stage(link[k], pending, others) /\ Told(link[k], pending, settings)
        /\ Shown(link[k], view, others, settings)
    BY <1>j, <2>2
  <2>6. /\ Stage(link'[k], pending, others) /\ Told(link'[k], pending, settings)
        /\ Shown(link'[k], view, others, settings)
    BY <1>0, <2>3, <2>4, <2>5, InStepPushed
  <2> QED BY <1>f, <1>j, <2>1, <2>2, <2>3, <2>6
<1>3. ASSUME NEW k \in Links, ConnectOk(k) PROVE Sync'
  <2>1. current = 0 /\ current' = k /\ pending' = pending /\ view' = view /\ others' = others /\ settings' = settings
    BY <1>3 DEF ConnectOk, Transport, callVars, serviceVars, TypeOK
  <2>2. pending = {} /\ view = None
    BY <1>i, <1>j, <2>1 DEF Transport
  <2>3. /\ \A m \in Links : m # k => link'[m] = link[m]
        /\ link'[k].sess = "accepted" /\ link'[k].up = <<>> /\ link'[k].down = <<>> /\ link'[k].events = <<>>
    BY <1>3, ConnectOkFacts
  <2>4. Stage(link'[k], {}, others)
    BY <2>3 DEF Stage, Under
  <2>5. Told(link'[k], {}, settings)
    BY <2>3 DEF Told
  <2>6. Shown(link'[k], None, others, settings)
    BY <2>3 DEF Shown, LastEvent
  <2>7. \A m \in Links : m # current' => link'[m] = NoLink
    BY <1>a, <1>j, <2>1, <2>3
  <2>8. current' # 0 /\ \A r, s \in pending' : r = s
    BY <1>a, <2>1, <2>2
  <2> QED BY <1>j, <2>1, <2>2, <2>4, <2>5, <2>6, <2>7, <2>8, SyncClosed
<1>4. ASSUME NEW k \in Links, ConnectionLost(k) PROVE Sync'
  <2>1. link[k].sess = "ended"
    BY <1>4 DEF ConnectionLost
  <2>2. k = current /\ current # 0
    BY <1>c, <2>1
  <2> QED BY <1>j, <2>1, <2>2 DEF Stage
<1>5. ASSUME NEW k \in Links, OnResponse(k) \/ OnEvent(k) PROVE Sync'
  <2> DEFINE m == Head(link[k].down)
  <2>1. Listening(k) /\ Taken(k) /\ current' = current /\ others' = others /\ settings' = settings
    BY <1>5 DEF OnResponse, OnEvent, connectVars, serviceVars
  <2>2. pending' \subseteq pending
    BY <1>5 DEF OnResponse, OnEvent, callVars
  <2>3. /\ \A n \in Links : n # k => link'[n] = link[n]
        /\ link[k].open /\ link[k].down # <<>> /\ link'[k].down = Tail(link[k].down)
        /\ link'[k].sess = link[k].sess /\ link'[k].cur = link[k].cur /\ link'[k].answer = link[k].answer
        /\ link'[k].up = link[k].up /\ link'[k].events = link[k].events
    BY <2>1, TakenFacts
  <2>4. k = current /\ current # 0
    BY <1>a, <2>3 DEF Transport
  <2>5. \/ m.type = "response" /\ view' = IF Effective(m, pending) THEN m.val ELSE view
        \/ m.type = "event" /\ view' = m.val
    <3>1. CASE OnResponse(k)
      BY <3>1, OnResponseFacts
    <3>2. CASE OnEvent(k)
      BY <1>i, <3>2 DEF OnEvent
    <3> QED BY <1>5, <3>1, <3>2
  <2>6. /\ Stage(link[k], pending, others) /\ Told(link[k], pending, settings)
        /\ Shown(link[k], view, others, settings)
    BY <1>j, <2>4
  <2>7. /\ Stage(link'[k], pending', others) /\ Told(link'[k], pending', settings)
        /\ Shown(link'[k], view', others, settings)
    BY <1>0, <2>2, <2>3, <2>5, <2>6, InStepTaken
  <2> HIDE DEF m
  <2> QED BY <1>f, <1>j, <2>1, <2>2, <2>3, <2>4, <2>7
<1>6. ASSUME NEW kind \in {"get", "set"}, Request(kind) PROVE Sync'
  <2> DEFINE r == [id |-> nextId, kind |-> kind, number |-> asked + 1]
             c == link[current]
             d == link'[current]
  <2>1. /\ current \in Links /\ \A m \in Links : m # current => link'[m] = link[m]
        /\ d.sess = c.sess /\ d.down = c.down /\ d.events = c.events /\ d.up = Append(c.up, r)
        /\ r \in RequestLines /\ pending' = pending \cup {r} /\ r.id = asked
    BY <1>6, RequestFacts
  <2>2. current' = current /\ view' = view /\ others' = others /\ settings' = settings
    BY <1>6 DEF Request, connectVars, serviceVars
  <2>3. ~Busy /\ others = {} /\ current # 0
    BY <1>a, <1>h, <1>6, <2>1 DEF Request
  <2>4. pending = {} /\ pending' = {r}
    BY <2>1, <2>3 DEF Busy
  <2>5. Stage(c, pending, others) /\ Told(c, pending, settings) /\ Shown(c, view, others, settings)
    BY <1>j, <2>3
  <2>6. c.up = <<>> /\ c.sess \in {"accepted", "read"}
    <3>1. Served(current) /\ c.sess \notin {"handle", "publish", "write"} /\ c.up = <<>>
      BY <2>1, <2>3, <2>5 DEF Busy, Stage, Served
    <3> QED BY <1>0, <2>1, <2>5, <3>1, ConnectionParts DEF Stage
  <2>7. ASSUME NEW i \in 1..Len(c.down), c.down[i].type = "response"
        PROVE  ~Effective(c.down[i], {r})
    <3>1. Truthful(c.down[i], asked, executed)
      BY <1>b, <2>1, <2>7 DEF Honest, AllTruthful
    <3>2. asked \in Nat
      BY DEF TypeOK
    <3>3. c.down[i].id # asked
      BY <3>1, <3>2 DEF Truthful, Numbered
    <3> QED BY <2>1, <3>3 DEF Effective
  <2> HIDE DEF r
  <2>8. d.up = <<r>>
    BY <2>1, <2>6
  <2>9. Len(d.up) = 1 /\ d.up[1] = r
    BY <2>8
  <2> HIDE DEF c, d
  <2>10. Stage(d, {r}, {})
    BY <2>1, <2>6, <2>9 DEF Stage
  <2>11. Told(d, {r}, settings)
    BY <2>1, <2>6, <2>7 DEF Told
  <2>12. Shown(d, view, {}, settings)
    BY <2>1, <2>3, <2>5, SameLines DEF Shown
  <2>13. \A m \in Links : m # current' => link'[m] = NoLink
    BY <1>j, <2>1, <2>2
  <2>14. \A x, y \in pending' : x = y
    BY <2>4
  <2> QED BY <1>j, <2>2, <2>3, <2>4, <2>10, <2>11, <2>12, <2>13, <2>14, SyncClosed DEF d
<1>7. ASSUME OtherUpdate PROVE Sync'
  <2>1. link' = link /\ current' = current /\ view' = view /\ pending' = pending
        /\ ~Busy /\ others = {} /\ others' = {settings'}
    BY <1>h, <1>7 DEF OtherUpdate, connectVars, callVars
  <2>2. pending = {}
    BY <2>1 DEF Busy
  <2>3. ASSUME current # 0
        PROVE  /\ Stage(link[current], {}, others') /\ Told(link[current], {}, settings')
               /\ Shown(link[current], view, others', settings')
    <3> DEFINE c == link[current]
    <3>1. current \in Links /\ Stage(c, pending, others) /\ Shown(c, view, others, settings)
      BY <1>e, <1>j, <2>3
    <3>2. c.up = <<>> /\ c.sess \notin {"handle", "publish", "write"}
      BY <2>1, <3>1 DEF Busy, Stage, Served
    <3>3. Stage(c, {}, others')
      BY <3>1, <3>2 DEF Stage, Under
    <3>4. Told(c, {}, settings')
      BY <3>2 DEF Told, Effective
    <3>5. Shown(c, view, others', settings')
      BY <2>1, <3>1 DEF Shown
    <3> QED BY <3>3, <3>4, <3>5
  <2> QED BY <1>j, <2>1, <2>2, <2>3, SyncClosed
<1>8. ASSUME OtherPublish PROVE Sync'
  <2>1. current' = current /\ view' = view /\ pending' = pending /\ settings' = settings /\ Unbroken
    BY <1>8 DEF OtherPublish, connectVars, callVars
  <2>2. PICK val \in others :
          /\ others' = others \ {val}
          /\ \A m \in Links :
               /\ link'[m].sess = link[m].sess /\ link'[m].cur = link[m].cur /\ link'[m].answer = link[m].answer
               /\ link'[m].up = link[m].up /\ link'[m].down = link[m].down
               /\ Subscribed(m) /\ ~Full(m) => link'[m].events = Append(link[m].events, Event(val))
               /\ ~Subscribed(m) => link'[m] = link[m]
    BY <1>8, OtherPublishFacts
  <2>3. val = settings /\ others' = {} /\ others # {}
    BY <1>j, <2>2
  <2>4. \A m \in Links : m # current => link'[m] = NoLink
    BY <1>d, <1>j, <2>2 DEF Subscribed
  <2>5. Event(settings) \in Messages
    BY DEF TypeOK, Event, Messages
  <2>6. ASSUME current # 0
        PROVE  /\ Stage(link'[current], pending, {}) /\ Told(link'[current], pending, settings)
               /\ Shown(link'[current], view, {}, settings)
    <3> DEFINE c == link[current]
               d == link'[current]
    <3>1. current \in Links
      BY <1>e, <2>6
    <3>2. Stage(c, pending, others) /\ Told(c, pending, settings) /\ Shown(c, view, others, settings)
      BY <1>j, <2>6
    <3>3. Subscribed(current) <=> c.sess # "accepted"
      BY <3>2 DEF Subscribed, Served, Stage
    <3>4. Subscribed(current) => ~Full(current)
      BY <1>h, <2>1, <3>1 DEF Unbroken
    <3>5. \/ c.sess = "accepted" /\ d = c
          \/ /\ c.sess # "accepted" /\ d.sess = c.sess /\ d.up = c.up /\ d.down = c.down /\ d.cur = c.cur
             /\ d.answer = c.answer /\ d.events = Append(c.events, Event(settings))
      BY <2>2, <2>3, <3>1, <3>3, <3>4
    <3>6. c \in Connections /\ d \in Connections
      BY <1>0, <3>1
    <3> HIDE DEF c, d
    <3>7. Stage(d, pending, {}) /\ Told(d, pending, settings) /\ Shown(d, view, {}, settings)
      BY <2>3, <2>5, <3>2, <3>5, <3>6, InStepOther
    <3> QED BY <3>7 DEF d
  <2> QED BY <1>j, <2>1, <2>3, <2>4, <2>6, SyncClosed
<1>9. ASSUME StartService \/ ConnectFails \/ TimerFires \/ RetryNow PROVE Sync'
  <2>1. /\ link' = link /\ current' = current /\ view' = view /\ others' = others /\ settings' = settings
        /\ pending' = pending
    BY <1>9 DEF StartService, ConnectFails, TimerFires, RetryNow, connectVars, callVars, serviceVars
  <2> QED BY <1>i, <2>1, SyncKept
<1>10. ASSUME NEW r \in pending, Timeout(r) PROVE Sync'
  <2>1. /\ link' = link /\ current' = current /\ view' = view /\ others' = others /\ settings' = settings
        /\ pending' \subseteq pending
    BY <1>10 DEF Timeout, connectVars, serviceVars
  <2> QED BY <1>i, <2>1, SyncKept
<1>11. ASSUME StopService \/ Dispose \/ DisposeEnds PROVE Sync'
  BY <1>h, <1>i, <1>11 DEF StopService, Dispose, DisposeEnds
<1> QED BY <1>1, <1>2, <1>3, <1>4, <1>5, <1>6, <1>7, <1>8, <1>9, <1>10, <1>11 DEF Next, ClientStep, UserStep

-----------------------------------------------------------------------------
(* The theorems *)

\* The inductive invariant holds initially: nothing is connected or asked.
LEMMA InitIpc ==
    ASSUME Init
    PROVE  IpcInv
  <1>1. TypeOK
    <2>1. link \in [Links -> Connections]
      BY NoLinkIsConnection DEF Init
    <2>2. asked \in 0..MaxRequests
      BY IpcAssumption DEF Init
    <2>3. executed \in [Numbers -> Nat]
          /\ outcome \in [Numbers -> {"none", "pending", "ok", "error", "wrong", "lost", "timeout"}]
      BY DEF Init
    <2> QED BY <2>1, <2>2, <2>3 DEF Init, TypeOK
  <1>2. \A k \in Links : link[k] = NoLink
    BY DEF Init
  <1>3. /\ NoLink.open = FALSE /\ NoLink.up = <<>> /\ NoLink.sess = "none" /\ NoLink.down = <<>> /\ NoLink.events = <<>>
    BY DEF NoLink
  <1>4. Transport
    BY <1>2, <1>3 DEF Init, Transport, Links
  <1>5. Waiting
    <2>1. \A k \in Links : \A i \in 0..Len(link[k].up) : ~Live(link[k], i)
      <3>1. Len(<<>>) = 0
        BY EmptySeq
      <3> QED BY <1>2, <1>3, <3>1 DEF Live
    <2>2. \A n \in Numbers : executed[n] = 0
      BY DEF Init
    <2> QED BY <2>1, <2>2 DEF Waiting
  <1>6. Answers
    <2>1. \A k \in Links : Honest(link[k], asked, executed)
      BY <1>2, <1>3, NoLines DEF Honest
    <2>2. \A n \in Numbers : executed[n] = 0 /\ outcome[n] = "none"
      BY DEF Init
    <2>3. pending = {}
      BY DEF Init
    <2> QED BY <2>1, <2>2, <2>3, AnswersAreHonest
  <1>7. Sync
    BY <1>2 DEF Init, Sync
  <1> QED BY <1>1, <1>4, <1>5, <1>6, <1>7 DEF IpcInv

\* Every step keeps it.
LEMMA NextIpc ==
    ASSUME IpcInv, [Next]_vars
    PROVE  IpcInv'
  <1>1. CASE Next
    <2>1. TypeOK' /\ Transport'
      BY <1>1, StepTyped, StepTransport DEF IpcInv
    <2>2. Waiting' /\ Answers'
      BY <1>1, StepWaiting, StepAnswers DEF IpcInv
    <2>3. Sync'
      BY <1>1, StepSync DEF IpcInv
    <2> QED BY <2>1, <2>2, <2>3 DEF IpcInv
  <1>2. CASE UNCHANGED vars
    <2>1. UNCHANGED <<up, settings, foreign, others, executed, link, state, attempts, timer, disposed, current,
                      pending, nextId, asked, outcome, view, calm, whole>>
      BY <1>2 DEF vars, serviceVars, connectVars, callVars, historyVars
    <2>2. TypeOK' /\ Transport'
      BY <2>1 DEF IpcInv, TypeOK, Transport
    <2>3. Waiting' /\ Answers'
      BY <2>1 DEF IpcInv, Waiting, Answers
    <2>4. Sync'
      BY <2>1 DEF IpcInv, Sync, InStep
    <2> QED BY <2>2, <2>3, <2>4 DEF IpcInv
  <1> QED BY <1>1, <1>2

\* The inductive invariant of the connection (IpcClient, Session): types, the
\* one transport, requests that wait in one place, answers that are true, and
\* a client that is in step while requests do not overlap.
THEOREM IpcInvariant == Spec => []IpcInv
  <1>1. Init => IpcInv
    BY InitIpc
  <1>2. IpcInv /\ [Next]_vars => IpcInv'
    BY NextIpc
  <1> QED BY <1>1, <1>2, PTL DEF Spec

\* For any number of requests, other writes, restarts and any size of the
\* channel: the client has one connection, attempt or timer at a time
\* (_connect, _scheduleReconnect, retryNow, dispose).
THEOREM ConnectionsAreSingle == Spec => []OneConnection
  <1>1. IpcInv => OneConnection
    <2>1. SUFFICES ASSUME IpcInv PROVE OneConnection
      OBVIOUS
    <2> DEFINE S == {k \in Links : link[k].open}
    <2>2. \A k \in Links : link[k].open <=> current = k
      BY <2>1 DEF IpcInv, Transport
    <2>3. attempts \in {0, 1} /\ (attempts = 1 => current = 0 /\ ~timer) /\ (timer => current = 0)
      BY <2>1 DEF IpcInv, Transport
    <2>4. CASE current = 0
      <3>1. S = {}
        BY <2>2, <2>4 DEF Links
      <3>2. Cardinality(S) = 0
        BY <3>1, FS_EmptySet
      <3> HIDE DEF S
      <3>3. attempts + 0 + (IF timer THEN 1 ELSE 0) <= 1
        BY <2>3
      <3>4. attempts + Cardinality(S) + (IF timer THEN 1 ELSE 0) <= 1
        BY <3>2, <3>3
      <3> QED BY <3>4 DEF OneConnection, S
    <2>5. CASE current # 0
      <3>1. current \in Links
        BY <2>1, <2>5 DEF IpcInv, TypeOK
      <3>2. S = {current}
        BY <2>2, <3>1
      <3>3. Cardinality(S) = 1
        BY <3>2, FS_Singleton
      <3> HIDE DEF S
      <3>4. attempts + Cardinality(S) + (IF timer THEN 1 ELSE 0) <= 1
        BY <2>3, <2>5, <3>3
      <3> QED BY <3>4 DEF OneConnection, S
    <2> QED BY <2>4, <2>5
  <1> QED BY <1>1, IpcInvariant, PTL

\* The caller of a request is told the truth: a response completes the request
\* it answers, none is executed twice, an answered one was executed, and what
\* is pending was sent on a connection that is still there (request, _onLine,
\* _failAllPending).
THEOREM AnswersAreTrue == Spec => []RequestsAnswered
  <1>1. IpcInv => RequestsAnswered
    <2>1. SUFFICES ASSUME IpcInv PROVE RequestsAnswered
      OBVIOUS
    <2>2. \A n \in Numbers : /\ executed[n] \in {0, 1} /\ outcome[n] # "wrong"
                             /\ outcome[n] \in {"ok", "error"} => executed[n] = 1
      BY <2>1 DEF IpcInv, Answers
    <2>3. \A n \in Numbers : executed[n] <= 1
      BY <2>2
    <2>4. pending # {} /\ ~disposed => state = "connected" /\ current # 0 /\ link[current].open
      BY <2>1 DEF IpcInv, Transport, TypeOK
    <2> QED BY <2>2, <2>3, <2>4 DEF RequestsAnswered
  <1> QED BY <1>1, IpcInvariant, PTL

\* With one request at a time and no event lost, a client that has received
\* everything shows the settings of the service (handleSettingsSet,
\* EventHub.Publish, SettingsNotifier).
THEOREM CalmClientsAreInSync == Spec => []InSyncWhenCalm
  <1>1. IpcInv => InSyncWhenCalm
    <2>1. SUFFICES ASSUME IpcInv, calm, whole, Settled PROVE ShowsSettings
      BY DEF InSyncWhenCalm
    <2> DEFINE c == link[current]
    <2>2. /\ state = "connected" /\ ~disposed /\ ~Busy /\ others = {} /\ c.down = <<>> /\ c.events = <<>>
      BY <2>1 DEF Settled
    <2>3. current # 0 /\ current \in Links
      BY <2>1, <2>2 DEF IpcInv, Transport, TypeOK
    <2>4. Shown(c, view, others, settings)
      BY <2>1, <2>2, <2>3, SyncOpened DEF IpcInv
    <2>5. c.sess # "publish"
      BY <2>2, <2>3 DEF Busy
    <2>6. NoEvents(c)
      <3>1. Len(c.down) = 0
        BY <2>2, EmptySeq
      <3> QED BY <2>2, <3>1 DEF NoEvents
    <2> QED BY <2>2, <2>4, <2>5, <2>6 DEF Shown, ShowsSettings
  <1> QED BY <1>1, IpcInvariant, PTL
=============================================================================
