-------------------------------- MODULE Ipc --------------------------------
(***************************************************************************)
(* The named-pipe connection between the desktop client and the service:   *)
(* ipc/pipeserver.go, session.go, router.go, eventhub.go, codec.go and     *)
(* handlers_settings.go on one side, core/ipc/ipc_client.dart,             *)
(* pipe_transport.dart and the settings provider of the client on the      *)
(* other.                                                                  *)
(*                                                                         *)
(* One client is modelled in full.  Each of its connections has a session  *)
(* of the service, a channel of events that were published and not yet     *)
(* written, and a pipe in either direction.  Of the sessions of other      *)
(* clients only what this one can notice is kept: their writes of the      *)
(* settings and the events they publish.  The requests are settings.get    *)
(* and settings.set; every other command takes the same way.  A value of   *)
(* the settings is a number, a different one for every write.              *)
(***************************************************************************)
EXTENDS Integers, Sequences, FiniteSets

CONSTANTS
    None,         \* nothing loaded, no answer
    BufferSize,   \* eventBufferSize
    MaxRequests,  \* bound on the requests of the client
    MaxOthers,    \* bound on the writes of other clients
    MaxStops      \* bound on ends of the service process and of the client

ASSUME IpcAssumption ==
    /\ BufferSize \in Nat \ {0}
    /\ MaxRequests \in Nat /\ MaxOthers \in Nat /\ MaxStops \in Nat
    /\ None \notin Nat

Numbers == 1..MaxRequests

\* A connection is reused once both ends are closed: there are never more
\* than that of dispose and one that was opened behind its back.
Links == 1..2

VARIABLES
    up,         \* the service process runs and listens
    settings,   \* row of table settings
    foreign,    \* number of writes of other sessions
    others,     \* written by other sessions, event not yet published
    link,       \* the connections
    executed,   \* history: how often a handler ran for each request
    state,      \* IpcClient._state
    attempts,   \* calls of _connect that wait for PipeTransport.connect
    timer,      \* IpcClient._reconnectTimer is set
    disposed,   \* IpcClient._disposed
    current,    \* connection of IpcClient._transport, 0 if none
    pending,    \* IpcClient._pending
    nextId,     \* IpcClient._nextId
    asked,      \* number of requests made
    outcome,    \* what became of each request for its caller
    view,       \* state of settingsProvider
    calm,       \* history: no two requests, own or of others, overlapped
    whole,      \* history: no event was dropped and the service never stopped
    stops

serviceVars == <<up, settings, foreign, others, executed>>
connectVars == <<state, attempts, timer, disposed, current>>
callVars == <<pending, nextId, asked, outcome>>
historyVars == <<calm, whole>>
vars == <<serviceVars, link, connectVars, callVars, view, historyVars, stops>>

-----------------------------------------------------------------------------
(* Types *)

\* A request has its id on the wire, its command and, for the properties, the
\* number of the request in the order they were made.
NoRequest == [id |-> 0, kind |-> "get", number |-> 0]

\* An event has no id, a response that of its request; both carry settings.
Event(val) == [type |-> "event", id |-> 0, number |-> 0, ok |-> TRUE, val |-> val]
Response(r, ok, val) ==
    [type |-> "response", id |-> r.id, number |-> r.number, ok |-> ok, val |-> val]

\* No connection.  A session is "accepted", "read"s, is in a handler
\* ("handle"), between the update and the publication ("publish"), about to
\* "write" its response, or "ended" with the process.
NoLink ==
    [open |-> FALSE, sess |-> "none", cur |-> NoRequest, answer |-> None,
     up |-> <<>>, down |-> <<>>, events |-> <<>>]

\* The provider of the client calls start(); _connect waits for the pipe.
Init ==
    /\ up = FALSE /\ settings = 0 /\ foreign = 0 /\ others = {}
    /\ link = [k \in Links |-> NoLink]
    /\ state = "connecting" /\ attempts = 1 /\ timer = FALSE /\ disposed = FALSE /\ current = 0
    /\ pending = {} /\ nextId = 0 /\ asked = 0 /\ stops = 0
    /\ view = None
    /\ outcome = [n \in Numbers |-> "none"] /\ executed = [n \in Numbers |-> 0]
    /\ calm = TRUE /\ whole = TRUE

-----------------------------------------------------------------------------
(* The service: one session per connection *)

Served(k) == link[k].sess \notin {"none", "ended"}
Subscribed(k) == Served(k) /\ link[k].sess # "accepted"

\* Both ends of the connection are closed.
Unused(k) == link[k].sess = "none" /\ ~link[k].open

StartService ==
    /\ ~up /\ up' = TRUE
    /\ UNCHANGED <<settings, foreign, others, executed, link, connectVars, callVars, view, historyVars, stops>>

\* The process ends, and with it every session, its channel and its end of
\* the pipe; the client, if it is still there, has yet to notice.
StopService ==
    /\ up /\ stops < MaxStops
    /\ up' = FALSE /\ stops' = stops + 1
    /\ others' = {}
    /\ link' = [k \in Links |->
          IF Served(k) /\ link[k].open
          THEN [NoLink EXCEPT !.open = TRUE, !.sess = "ended", !.down = link[k].down]
          ELSE IF Served(k) THEN NoLink ELSE link[k]]
    /\ whole' = FALSE
    /\ UNCHANGED <<settings, foreign, executed, connectVars, callVars, view, calm>>

\* Serve: the goroutine of the connection subscribes before it reads.
Subscribe(k) ==
    /\ link[k].sess = "accepted"
    /\ link' = [link EXCEPT ![k].sess = "read"]
    /\ UNCHANGED <<serviceVars, connectVars, callVars, view, historyVars, stops>>

\* ReadEnvelope takes the next line; Dispatch finds its handler.
ReadRequest(k) ==
    /\ link[k].sess = "read" /\ link[k].up # <<>>
    /\ link' = [link EXCEPT ![k] =
          [link[k] EXCEPT !.sess = "handle", !.cur = Head(link[k].up), !.up = Tail(link[k].up)]]
    /\ UNCHANGED <<serviceVars, connectVars, callVars, view, historyVars, stops>>

Executed(k) == executed' = [executed EXCEPT ![link[k].cur.number] = @ + 1]

Answer(k, next, ok, val) ==
    link' = [link EXCEPT ![k].sess = next, ![k].answer = Response(link[k].cur, ok, val)]

\* The row is read, or the statement fails.
handleSettingsGet(k) ==
    /\ link[k].sess = "handle" /\ link[k].cur.kind = "get"
    /\ Executed(k)
    /\ Answer(k, "write", TRUE, settings) \/ Answer(k, "write", FALSE, 0)
    /\ UNCHANGED <<up, settings, foreign, others, connectVars, callVars, view, historyVars, stops>>

\* Mutant: the event is published even if the update failed.
handleSettingsSet_publishesAnyway(k) ==
    /\ link[k].sess = "handle" /\ link[k].cur.kind = "set"
    /\ Executed(k)
    /\ \/ settings' = link[k].cur.number /\ Answer(k, "publish", TRUE, link[k].cur.number)
       \/ UNCHANGED settings /\ Answer(k, "publish", FALSE, 0)
    /\ UNCHANGED <<up, foreign, others, connectVars, callVars, view, historyVars, stops>>

\* The row is replaced, or the statement fails and the error is the answer.
handleSettingsSet(k) ==
    /\ link[k].sess = "handle" /\ link[k].cur.kind = "set"
    /\ Executed(k)
    /\ \/ settings' = link[k].cur.number /\ Answer(k, "publish", TRUE, link[k].cur.number)
       \/ UNCHANGED settings /\ Answer(k, "write", FALSE, 0)
    /\ UNCHANGED <<up, foreign, others, connectVars, callVars, view, historyVars, stops>>

Full(k) == Len(link[k].events) >= BufferSize

\* EventHub.Publish under its lock: each subscriber gets the event, except one
\* whose channel is full.
Delivered(val) ==
    [k \in Links |->
        IF Subscribed(k) /\ ~Full(k)
        THEN [link[k] EXCEPT !.events = Append(@, Event(val))]
        ELSE link[k]]

Unbroken == whole' = (whole /\ \A k \in Links : Subscribed(k) => ~Full(k))

Publish(k) ==
    /\ link[k].sess = "publish"
    /\ link' = [Delivered(link[k].cur.number) EXCEPT ![k].sess = "write"]
    /\ Unbroken
    /\ UNCHANGED <<up, settings, foreign, others, executed, connectVars, callVars, view, calm, stops>>

\* WriteEnvelope of the response; after the client has closed its end the
\* write fails and the session is over.
WriteResponse(k) ==
    /\ link[k].sess = "write"
    /\ link' = [link EXCEPT ![k] =
          IF link[k].open
          THEN [link[k] EXCEPT !.sess = "read", !.down = Append(link[k].down, link[k].answer),
                               !.answer = None, !.cur = NoRequest]
          ELSE NoLink]
    /\ UNCHANGED <<serviceVars, connectVars, callVars, view, historyVars, stops>>

\* pushEvents writes the next event, between two writes of the session or
\* before or after them.  The event it has taken and not yet written is left
\* in the channel: BufferSize counts it.  After a write error, when the client
\* is gone, nobody reads what is left.
PushEvent(k) ==
    /\ Subscribed(k) /\ link[k].events # <<>>
    /\ link' = [link EXCEPT ![k].events = Tail(@),
                            ![k].down = IF link[k].open THEN Append(@, Head(link[k].events)) ELSE @]
    /\ UNCHANGED <<serviceVars, connectVars, callVars, view, historyVars, stops>>

\* Mutant: a session notices the end of its client only when it writes.
EndSession_onWrite(k) ==
    /\ link[k].sess = "write" /\ ~link[k].open
    /\ link' = [link EXCEPT ![k] = NoLink]
    /\ UNCHANGED <<serviceVars, connectVars, callVars, view, historyVars, stops>>

\* ReadEnvelope meets the end of the pipe; Serve returns and unsubscribes.
EndSession(k) ==
    /\ link[k].sess = "read" /\ ~link[k].open /\ link[k].up = <<>>
    /\ link' = [link EXCEPT ![k] = NoLink]
    /\ UNCHANGED <<serviceVars, connectVars, callVars, view, historyVars, stops>>

-----------------------------------------------------------------------------
(* Other sessions: the two steps of their handleSettingsSet *)

\* Requests of the client under way, for it or still for the service.
Busy ==
    \/ pending # {}
    \/ \E k \in Links :
          link[k].sess \in {"handle", "publish", "write"} \/ (Served(k) /\ link[k].up # <<>>)

\* Another client's write takes effect ...
OtherUpdate ==
    /\ up /\ foreign < MaxOthers
    /\ foreign' = foreign + 1
    /\ settings' = MaxRequests + foreign'
    /\ others' = others \cup {settings'}
    /\ calm' = (calm /\ ~Busy /\ others = {})
    /\ UNCHANGED <<up, executed, link, connectVars, callVars, view, whole, stops>>

\* ... and is published, perhaps after a later one.
OtherPublish ==
    /\ \E val \in others : link' = Delivered(val) /\ others' = others \ {val}
    /\ Unbroken
    /\ UNCHANGED <<up, settings, foreign, executed, connectVars, callVars, view, calm, stops>>

-----------------------------------------------------------------------------
(* The client: connecting *)

\* _setState is ignored after dispose.
SetState(s) == state' = IF disposed THEN state ELSE s

ScheduleReconnect == timer' = (timer \/ ~disposed)

\* The pipe opens and the service accepts; the client listens to the new
\* transport, even if it was disposed meanwhile.
ConnectOk(k) ==
    /\ attempts > 0 /\ up
    /\ Unused(k) /\ \A m \in Links : m < k => ~Unused(m)
    /\ link' = [link EXCEPT ![k].open = TRUE, ![k].sess = "accepted"]
    /\ attempts' = attempts - 1
    /\ current' = k
    /\ SetState("connected")
    /\ UNCHANGED <<serviceVars, timer, disposed, callVars, view, historyVars, stops>>

\* Nobody listens: the next attempt is left to the timer.
ConnectFails ==
    /\ attempts > 0 /\ ~up
    /\ attempts' = attempts - 1
    /\ SetState("disconnected") /\ ScheduleReconnect
    /\ UNCHANGED <<serviceVars, link, disposed, current, callVars, view, historyVars, stops>>

\* _connect does nothing after dispose.
Connect ==
    /\ attempts' = IF disposed THEN attempts ELSE attempts + 1
    /\ SetState("connecting")

TimerFires ==
    /\ timer
    /\ timer' = FALSE
    /\ Connect
    /\ UNCHANGED <<serviceVars, link, disposed, current, callVars, view, historyVars, stops>>

\* Mutant: Retry leaves the timer running.
RetryNow_keepsTimer ==
    /\ state = "disconnected" /\ ~disposed
    /\ Connect
    /\ UNCHANGED <<serviceVars, link, timer, disposed, current, callVars, view, historyVars, stops>>

\* The user's Retry, offered while disconnected.
RetryNow ==
    /\ state = "disconnected" /\ ~disposed
    /\ timer' = FALSE
    /\ Connect
    /\ UNCHANGED <<serviceVars, link, disposed, current, callVars, view, historyVars, stops>>

FailAllPending ==
    /\ pending' = {}
    /\ outcome' = [n \in Numbers |-> IF \E r \in pending : r.number = n THEN "lost" ELSE outcome[n]]

\* Mutant: the end of the stream does not arm the timer.
ConnectionLost_noTimer(k) ==
    /\ link[k].open /\ link[k].sess = "ended"
    /\ link' = [link EXCEPT ![k] = NoLink]
    /\ current' = IF current = k THEN 0 ELSE current
    /\ FailAllPending /\ SetState("disconnected")
    /\ UNCHANGED <<serviceVars, attempts, timer, disposed, nextId, asked, view, historyVars, stops>>

\* The worker finds the pipe broken and reports an error and the end of the
\* stream, which _onTransportError and _onTransportDone handle one after the
\* other in the same turn of the event loop.  Lines it has not read are gone,
\* and the transport is not used again.
ConnectionLost(k) ==
    /\ link[k].open /\ link[k].sess = "ended"
    /\ link' = [link EXCEPT ![k] = NoLink]
    /\ current' = IF current = k THEN 0 ELSE current
    /\ FailAllPending /\ SetState("disconnected") /\ ScheduleReconnect
    /\ UNCHANGED <<serviceVars, attempts, disposed, nextId, asked, view, historyVars, stops>>

\* dispose stops listening and closes the transport it knows of ...
Dispose ==
    /\ ~disposed /\ stops < MaxStops /\ stops' = stops + 1
    /\ disposed' = TRUE /\ timer' = FALSE
    /\ link' = IF current = 0 THEN link
               ELSE [link EXCEPT ![current] =
                        IF Served(current) THEN [link[current] EXCEPT !.open = FALSE, !.down = <<>>] ELSE NoLink]
    /\ current' = 0
    /\ UNCHANGED <<serviceVars, state, attempts, callVars, view, historyVars>>

\* ... and, when the worker has been given its time, fails what is pending.
DisposeEnds ==
    /\ disposed /\ pending # {}
    /\ FailAllPending
    /\ UNCHANGED <<serviceVars, link, connectVars, nextId, asked, view, historyVars, stops>>

-----------------------------------------------------------------------------
(* The client: requests, responses and events *)

\* Mutant: the id is the number of requests under way.
WireId_reused == Cardinality(pending)

\* Ids count up for the life of the client, over all its connections.
WireId == nextId

\* writeLine hands the line to the worker, which writes it once.
Lines(r) == <<r>>

\* IpcClient.request, refused unless connected.  The provider loads the
\* settings, again after a failure; the user changes the ones that are shown.
Request(kind) ==
    /\ asked < MaxRequests /\ asked' = asked + 1
    /\ state = "connected" /\ ~disposed
    /\ IF kind = "get" THEN view = None /\ \A r \in pending : r.kind # "get" ELSE view # None
    /\ LET r == [id |-> WireId, kind |-> kind, number |-> asked + 1]
       IN /\ pending' = pending \cup {r}
          /\ link' = [link EXCEPT ![current].up = @ \o Lines(r)]
    /\ nextId' = nextId + 1
    /\ outcome' = [outcome EXCEPT ![asked + 1] = "pending"]
    /\ calm' = (calm /\ ~Busy /\ others = {})
    /\ UNCHANGED <<serviceVars, connectVars, view, whole, stops>>

Listening(k) == link[k].open /\ link[k].down # <<>>

Taken(k) == link' = [link EXCEPT ![k].down = Tail(@)]

\* _onLine, a response: it completes the request that is pending under its
\* id, if there is one still, and the caller shows what it brings.
OnResponse(k) ==
    /\ Listening(k) /\ Head(link[k].down).type = "response"
    /\ Taken(k)
    /\ LET m == Head(link[k].down)
           mine == {r \in pending : r.id = m.id}
       IN /\ pending' = pending \ mine
          /\ outcome' = [n \in Numbers |->
                IF \E r \in mine : r.number = n
                THEN IF n # m.number THEN "wrong" ELSE IF m.ok THEN "ok" ELSE "error"
                ELSE outcome[n]]
          /\ view' = IF mine # {} /\ m.ok THEN m.val ELSE view
    /\ UNCHANGED <<serviceVars, connectVars, nextId, asked, historyVars, stops>>

\* _onLine, an event: settingsProvider shows what it carries.  After dispose
\* the stream of events is closed.
OnEvent(k) ==
    /\ Listening(k) /\ Head(link[k].down).type = "event"
    /\ Taken(k)
    /\ view' = IF disposed THEN view ELSE Head(link[k].down).val
    /\ UNCHANGED <<serviceVars, connectVars, callVars, historyVars, stops>>

\* 30 seconds without an answer: the request is forgotten, not withdrawn.
Timeout(r) ==
    /\ r \in pending
    /\ pending' = pending \ {r}
    /\ outcome' = [outcome EXCEPT ![r.number] = "timeout"]
    /\ UNCHANGED <<serviceVars, link, connectVars, nextId, asked, view, historyVars, stops>>

-----------------------------------------------------------------------------

SessionStep(k) ==
    \/ Subscribe(k) \/ ReadRequest(k) \/ handleSettingsGet(k) \/ handleSettingsSet(k)
    \/ Publish(k) \/ WriteResponse(k) \/ EndSession(k)

ClientStep ==
    \/ ConnectFails \/ TimerFires \/ DisposeEnds
    \/ \E k \in Links : ConnectOk(k) \/ ConnectionLost(k) \/ OnResponse(k) \/ OnEvent(k)

UserStep ==
    \/ RetryNow \/ Dispose
    \/ \E kind \in {"get", "set"} : Request(kind)
    \/ \E r \in pending : Timeout(r)

Next ==
    \/ StartService \/ StopService \/ OtherUpdate \/ OtherPublish
    \/ \E k \in Links : SessionStep(k) \/ PushEvent(k)
    \/ ClientStep \/ UserStep

Spec == Init /\ [][Next]_vars

\* The goroutines of the service and the event loop of the client go on; the
\* user, the service manager and a time-out owe nothing.
Fairness ==
    /\ \A k \in Links : WF_vars(SessionStep(k)) /\ WF_vars(PushEvent(k))
    /\ WF_vars(ClientStep) /\ WF_vars(OtherPublish)

FairSpec == Spec /\ Fairness

-----------------------------------------------------------------------------
(* Properties *)

\* What the caller of a request is told is true.  A response completes the
\* request it answers and no other, also after time-outs and reconnections with
\* late answers under way; no request is executed twice, and one that was
\* answered was executed; and until dispose what is pending was sent on the
\* connection the client still has, so that nobody waits for an answer of one that
\* is gone (request, _onLine, _failAllPending).
RequestsAnswered ==
    /\ \A n \in Numbers :
          /\ outcome[n] # "wrong"
          /\ executed[n] <= 1 /\ (outcome[n] \in {"ok", "error"} => executed[n] = 1)
    /\ pending # {} /\ ~disposed => state = "connected" /\ current # 0 /\ link[current].open

\* The client has one connection or attempt at a time, and a timer only when
\* it has neither, whatever the timer, the Retry button, dispose and the loss
\* of connections do (_connect, _scheduleReconnect).
OneConnection ==
    attempts + Cardinality({k \in Links : link[k].open}) + (IF timer THEN 1 ELSE 0) <= 1

\* Everything that was written and answered has reached the client.
Settled ==
    /\ state = "connected" /\ ~disposed /\ ~Busy /\ others = {}
    /\ Subscribed(current) /\ link[current].down = <<>> /\ link[current].events = <<>>

ShowsSettings == view # None => view = settings

\* With one request at a time, and no event lost, a client that has loaded the
\* settings shows those of the service once it has received everything
\* (handleSettingsSet, SettingsNotifier).
InSyncWhenCalm == calm /\ whole /\ Settled => ShowsSettings

\* Once the service stays up, a client that is not disposed is connected again
\* and again, after whatever losses (_scheduleReconnect).
Reconnects == <>[]up => []<>(state = "connected" \/ disposed)

\* The session of a client that has gone ends, and its subscription with it
\* (Session.Serve).
SessionsEnd ==
    \A k \in Links : (Served(k) /\ ~link[k].open) ~> (link[k].open \/ ~Served(k))

-----------------------------------------------------------------------------
(* The inductive invariant behind the safety properties (IpcProofs) *)

RequestLines == [id: Nat, kind: {"get", "set"}, number: Nat]
Messages == [type: {"event", "response"}, id: Nat, number: Nat, ok: BOOLEAN, val: Nat]
Connections ==
    [open: BOOLEAN, sess: {"none", "accepted", "read", "handle", "publish", "write", "ended"},
     cur: RequestLines, answer: Messages \cup {None},
     up: Seq(RequestLines), down: Seq(Messages), events: Seq(Messages)]

TypeOK ==
    /\ up \in BOOLEAN /\ settings \in Nat /\ foreign \in Nat /\ others \subseteq Nat
    /\ link \in [Links -> Connections]
    /\ executed \in [Numbers -> Nat]
    /\ outcome \in [Numbers -> {"none", "pending", "ok", "error", "wrong", "lost", "timeout"}]
    /\ state \in {"connecting", "connected", "disconnected"} /\ attempts \in Nat
    /\ timer \in BOOLEAN /\ disposed \in BOOLEAN /\ current \in {0} \cup Links
    /\ pending \subseteq RequestLines /\ nextId = asked /\ asked \in 0..MaxRequests
    /\ view \in Nat \cup {None} /\ calm \in BOOLEAN /\ whole \in BOOLEAN

\* The client knows the only transport that is open; while it is not disposed,
\* its state tells whether it has that, an attempt or a timer.
Transport ==
    /\ \A k \in Links : /\ link[k].open <=> current = k
                        /\ link[k].sess = "none" => link[k] = NoLink
    /\ attempts \in {0, 1} /\ (attempts = 1 => current = 0 /\ ~timer)
    /\ timer => current = 0 /\ ~disposed
    /\ ~disposed => /\ state = "connecting" <=> attempts = 1
                    /\ state = "connected" <=> current # 0
                    /\ state = "disconnected" <=> timer
                    /\ pending # {} => state = "connected"

\* Requests that no handler has run for: those on their way in a connection,
\* and the one it has just read (place 0).
Place(c, i) == IF i = 0 THEN c.cur ELSE c.up[i]
Live(c, i) == i \in 1..Len(c.up) \/ (i = 0 /\ c.sess = "handle")

\* One of the first n numbers, with the id that goes with it.
Numbered(r, n) == r.number \in 1..n /\ r.id = r.number - 1

\* No request is in two places, and none of them has been executed.
Waiting ==
    /\ \A n \in Numbers : n > asked => executed[n] = 0
    /\ \A k \in Links : \A i \in 0..Len(link[k].up) : Live(link[k], i) =>
         /\ Numbered(Place(link[k], i), asked) /\ executed[Place(link[k], i).number] = 0
         /\ \A m \in Links : \A j \in 0..Len(link[m].up) :
              Live(link[m], j) /\ Place(link[m], j).number = Place(link[k], i).number => k = m /\ i = j

\* A response to one of the first n requests, after its execution.
Truthful(m, n, runs) == m \in Messages /\ m.type = "response" /\ Numbered(m, n) /\ runs[m.number] = 1

Answers ==
    /\ \A r \in pending : Numbered(r, asked)
    /\ \A k \in Links :
         /\ link[k].sess \in {"publish", "write"} =>
              Truthful(link[k].answer, asked, executed) /\ link[k].answer.id = link[k].cur.id
         /\ \A i \in 1..Len(link[k].down) : link[k].down[i].type = "response" =>
              Truthful(link[k].down[i], asked, executed)
         /\ \A i \in 1..Len(link[k].events) : link[k].events[i].type = "event"
    /\ \A n \in Numbers :
         /\ executed[n] \in {0, 1} /\ outcome[n] # "wrong"
         /\ outcome[n] \in {"ok", "error"} => executed[n] = 1

\* The request that is under way in a connection, at most one.
Under(c) == c.up # <<>> \/ c.sess \in {"handle", "publish", "write"}

\* The caller of the request that m answers is among the waiting, and will show it.
Effective(m, waiting) == m.ok /\ \E r \in waiting : r.id = m.id

\* The last event that a connection carries.
LastEvent(c, val) ==
    /\ c.events # <<>> => c.events[Len(c.events)].val = val
    /\ c.events = <<>> => \A i \in 1..Len(c.down) :
         c.down[i].type = "event" /\ (\A j \in 1..Len(c.down) : j > i => c.down[j].type = "response")
           => c.down[i].val = val
NoEvents(c) == c.events = <<>> /\ \A i \in 1..Len(c.down) : c.down[i].type = "response"

\* While requests do not overlap the only connection has one under way at most,
\* the one that is waited for, and then nothing of others is left to publish.
Stage(c, waiting, unpublished) ==
    /\ c.sess \notin {"none", "ended"}
    /\ Len(c.up) <= 1 /\ (c.up # <<>> => c.sess \in {"accepted", "read"} /\ waiting \subseteq {c.up[1]})
    /\ c.sess \in {"handle", "publish", "write"} => waiting \subseteq {c.cur}
    /\ Under(c) \/ waiting # {} => unpublished = {}

\* What it will tell of the settings, val, is up to date ...
Told(c, waiting, val) ==
    /\ c.sess = "publish" => c.cur.number = val
    /\ c.sess \in {"publish", "write"} /\ Effective(c.answer, waiting) => c.answer.val = val
    /\ \A i \in 1..Len(c.down) :
         c.down[i].type = "response" /\ Effective(c.down[i], waiting) => c.down[i].val = val

\* ... and so is what is shown, once there is nothing left to publish or to receive.
Shown(c, shown, unpublished, val) ==
    /\ c.sess = "accepted" => shown = None /\ c.events = <<>> /\ c.down = <<>>
    /\ unpublished = {} /\ c.sess # "publish" =>
         LastEvent(c, val) /\ (NoEvents(c) => shown \in {None, val})

InStep(c) == Stage(c, pending, others) /\ Told(c, pending, settings) /\ Shown(c, view, others, settings)

Sync ==
    calm /\ whole /\ ~disposed =>
      /\ \A k \in Links : k # current => link[k] = NoLink
      /\ others \subseteq {settings} /\ \A r, s \in pending : r = s
      /\ IF current = 0 THEN view = None ELSE InStep(link[current])

IpcInv == TypeOK /\ Transport /\ Waiting /\ Answers /\ Sync
=============================================================================
