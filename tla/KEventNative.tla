---------------------------- MODULE KEventNative ----------------------------
(***************************************************************************)
(* A native event reader (NativeKEventReader of src/src/kevent_client.ts)  *)
(* over its framed TCP protocol (NativeKEventProtocolClient): calls are    *)
(* serialised by a promise chain, each connects if there is no socket,     *)
(* writes its request and waits in `pending` for the next response frame.  *)
(* The daemon and the network are external: a connection may break at any  *)
(* time, also in the middle of a frame.                                    *)
(*                                                                         *)
(* A destroyed socket reports its last 'error' and 'close' in the next     *)
(* tick, before another connection can be up, so that a break is one step. *)
(***************************************************************************)
EXTENDS Naturals, Sequences

CONSTANTS
  Pullers,     \* concurrent pullEvent calls of the application
  MaxEvents,   \* bound: events the daemon has for this reader
  MaxBreaks,   \* bound: connections that break
  MidFrame     \* connections may break in the middle of a response frame

\* No puller is called "register" or "unregister".

Ids == Pullers \cup {"register", "unregister"}

VARIABLES
  call,      \* what each call is doing
  serial,    \* this.serial: calls in the order they were made, the running
             \* one first
  pending,   \* this.pending: calls that wait for a response frame
  socket,    \* this.socket is set
  buffer,    \* this.readBuffer: "empty", a "part" of a frame, or the part
             \* left by an earlier connection ("stale")
  closed,    \* this.closed of the protocol client
  reader,    \* the reader: "none" yet, "opening", "open", "closing",
             \* "closed" or "failed"
  request,   \* requests on this connection the daemon has not answered
  response,  \* response frames on their way to the client
  daemon,    \* events the daemon holds for the reader
  made,      \* events made so far: event n is the n-th
  breaks,    \* connections broken so far
  got        \* the events pullEvent returned, in the order it did

nativeVars == <<call, serial, pending, socket, buffer, closed, reader, request,
                response, daemon, made, breaks, got>>

-----------------------------------------------------------------------------
Outstanding(id) == call[id] \in {"queued", "connecting", "sent"}

\* No reader yet, and so no connection.
NativeInit ==
  /\ call = [id \in Ids |-> "idle"]
  /\ serial = <<>> /\ pending = <<>> /\ request = <<>> /\ response = <<>>
  /\ socket = FALSE /\ buffer = "empty" /\ closed = TRUE /\ reader = "none"
  /\ daemon = <<>> /\ got = <<>> /\ made = 0 /\ breaks = 0

\* NativeKEventReader.create: a new client, and its register_reader call.
CreateReader ==
  /\ call' = [id \in Ids |-> IF id = "register" THEN "queued" ELSE "idle"]
  /\ serial' = <<"register">>
  /\ pending' = <<>> /\ request' = <<>> /\ response' = <<>>
  /\ socket' = FALSE /\ buffer' = "empty" /\ closed' = FALSE
  /\ reader' = "opening"
  /\ daemon' = <<>> /\ got' = <<>>
  /\ UNCHANGED <<made, breaks>>

Running(id) == serial # <<>> /\ Head(serial) = id

\* rejectAllPending leaves no call waiting.
StillWaiting == <<>>

\* The task of the running call settles, and the chain goes on.
Ends(id, how) ==
  /\ call' = [call EXCEPT ![id] = how]
  /\ serial' = Tail(serial)

\* this.pending.push and socket.write.
Sends(id) ==
  /\ call' = [call EXCEPT ![id] = "sent"]
  /\ pending' = Append(pending, id)
  /\ request' = Append(request, id)

-----------------------------------------------------------------------------
(* The calls.                                                              *)

\* call() puts the request behind the earlier ones.
Enqueues(id) ==
  /\ call' = [call EXCEPT ![id] = "queued"]
  /\ serial' = Append(serial, id)

PullEvent(c) ==
  /\ reader = "open"
  /\ ~Outstanding(c)
  /\ Enqueues(c)
  /\ UNCHANGED <<pending, socket, buffer, closed, reader, request, response,
                 daemon, made, breaks, got>>

\* close(): no pull starts any more, and unregister_reader waits its turn.
CloseReader ==
  /\ reader = "open"
  /\ reader' = "closing"
  /\ Enqueues("unregister")
  /\ UNCHANGED <<pending, socket, buffer, closed, request, response, daemon,
                 made, breaks, got>>

\* callInternal with a socket, or after ensureConnected.
CallSends(id) ==
  /\ Running(id)
  /\ call[id] = "queued"
  /\ ~closed /\ socket
  /\ Sends(id)
  /\ UNCHANGED <<serial, socket, buffer, closed, reader, response, daemon,
                 made, breaks, got>>

CallConnects(id) ==
  /\ Running(id)
  /\ call[id] = "queued"
  /\ ~closed /\ ~socket
  /\ call' = [call EXCEPT ![id] = "connecting"]
  /\ UNCHANGED <<serial, pending, socket, buffer, closed, reader, request,
                 response, daemon, made, breaks, got>>

\* connect() leaves the read buffer as it is.
Connected(id) ==
  /\ call[id] = "connecting"
  /\ socket' = TRUE
  /\ Sends(id)
  /\ UNCHANGED <<serial, buffer, closed, reader, response, daemon, made, breaks, got>>

ConnectFails(id) ==
  /\ call[id] = "connecting"
  /\ breaks < MaxBreaks
  /\ breaks' = breaks + 1
  /\ Ends(id, "failed")
  /\ UNCHANGED <<pending, socket, buffer, closed, reader, request, response,
                 daemon, made, got>>

-----------------------------------------------------------------------------
(* The data of the socket.                                                 *)

FrameAndRest == response

HasEvent(r, id) == r.event # 0 /\ id \in Pullers

\* The frames that follow the one being read.
Rest == Tail(response)

\* pending.shift().resolve(response): pullEvent returns the event, if any.
Resolves(r) ==
  IF pending = <<>> THEN UNCHANGED <<pending, call, serial, got>>
  ELSE LET id == Head(pending) IN
         /\ pending' = Tail(pending)
         /\ Ends(id, IF HasEvent(r, id) THEN "event" ELSE "answered")
         /\ got' = IF HasEvent(r, id)
                   THEN Append(got, [event |-> r.event, by |-> id, for |-> r.to])
                   ELSE got

\* A whole frame, or the rest of one.
FrameArrives ==
  /\ socket /\ response # <<>>
  /\ buffer \in {"empty", "part"}
  /\ response' = Rest
  /\ buffer' = "empty"
  /\ Resolves(Head(response))
  /\ UNCHANGED <<socket, closed, reader, request, daemon, made, breaks>>

PartArrives ==
  /\ socket /\ response # <<>>
  /\ buffer = "empty" /\ MidFrame
  /\ buffer' = "part"
  /\ UNCHANGED <<call, serial, pending, socket, closed, reader, request,
                 response, daemon, made, breaks, got>>

\* The bytes are taken for the rest of the frame an earlier connection left
\* unfinished, and do not complete it.
FrameSwallowed ==
  /\ socket /\ response # <<>>
  /\ buffer = "stale"
  /\ response' = Tail(response)
  /\ UNCHANGED <<call, serial, pending, socket, buffer, closed, reader,
                 request, daemon, made, breaks, got>>

\* What is still unread when a connection ends.
LeftOver == IF buffer = "empty" THEN "empty" ELSE "stale"

\* Seeded: a broken connection is not reported to the calls that wait on it.
NobodyRejected(id) == FALSE

Rejected(id) == call[id] = "sent"

\* Only the running call was sent: when it rejects, the chain goes on.
ChainGoesOn ==
  IF serial # <<>> /\ Rejected(Head(serial)) THEN Tail(serial) ELSE serial

\* handleSocketFailure: the socket is dropped, every waiting call rejects.
Fails ==
  /\ socket' = FALSE
  /\ pending' = StillWaiting
  /\ call' = [id \in Ids |-> IF Rejected(id) THEN "failed" ELSE call[id]]
  /\ serial' = ChainGoesOn
  /\ request' = <<>> /\ response' = <<>>

SocketFails ==
  /\ socket
  /\ breaks < MaxBreaks
  /\ breaks' = breaks + 1
  /\ buffer' = LeftOver
  /\ Fails
  /\ UNCHANGED <<closed, reader, daemon, made, got>>

\* The bytes complete the unfinished frame to one that does not parse.
FrameMisread ==
  /\ socket /\ response # <<>>
  /\ buffer = "stale"
  /\ buffer' \in {"empty", "stale"}
  /\ Fails
  /\ UNCHANGED <<closed, reader, daemon, made, breaks, got>>

-----------------------------------------------------------------------------
(* What the reader makes of it.                                            *)

\* client.close(): pending calls reject and the socket ends.
ClientCloses ==
  /\ closed' = TRUE
  /\ socket' = FALSE
  /\ pending' = StillWaiting
  /\ call' = [id \in Ids |-> IF Rejected(id) THEN "failed" ELSE call[id]]
  /\ serial' = ChainGoesOn
  /\ request' = <<>> /\ response' = <<>>

Registered ==
  /\ reader = "opening"
  /\ call["register"] = "answered"
  /\ reader' = "open"
  /\ UNCHANGED <<call, serial, pending, socket, buffer, closed, request,
                 response, daemon, made, breaks, got>>

RegisterFailed ==
  /\ reader = "opening"
  /\ call["register"] = "failed"
  /\ reader' = "failed"
  /\ ClientCloses
  /\ UNCHANGED <<buffer, daemon, made, breaks, got>>

Unregistered == call["unregister"] = "answered"

\* closeTransport goes on when unregister_reader was answered or failed.
UnregisterOver == call["unregister"] \in {"answered", "failed"}

ReaderClosed ==
  /\ reader = "closing"
  /\ UnregisterOver
  /\ reader' = "closed"
  /\ ClientCloses
  /\ UNCHANGED <<buffer, daemon, made, breaks, got>>

-----------------------------------------------------------------------------
(* The daemon.                                                             *)

Event ==
  /\ made < MaxEvents
  /\ reader \in {"open", "closing"}
  /\ made' = made + 1
  /\ daemon' = Append(daemon, made + 1)
  /\ UNCHANGED <<call, serial, pending, socket, buffer, closed, reader,
                 request, response, breaks, got>>

\* Requests of a connection are answered in order; a pull is answered with
\* the oldest event, or without one, as when its timeout is over.
DaemonAnswers ==
  /\ request # <<>>
  /\ request' = Tail(request)
  /\ LET id == Head(request) IN
       \/ /\ id \in Pullers /\ daemon # <<>>
          /\ daemon' = Tail(daemon)
          /\ response' = Append(response, [to |-> id, event |-> Head(daemon)])
       \/ /\ id \in Pullers => daemon = <<>>
          /\ daemon' = daemon
          /\ response' = Append(response, [to |-> id, event |-> 0])
  /\ UNCHANGED <<call, serial, pending, socket, buffer, closed, reader, made,
                 breaks, got>>

\* A pull waits at a daemon without events.  One that carries no timeout, as
\* those of a subscription, the daemon need never answer, nor what is queued
\* behind it.
Quiet == request # <<>> /\ Head(request) \in Pullers /\ daemon = <<>>

-----------------------------------------------------------------------------
CallStep(id) ==
  CallSends(id) \/ CallConnects(id) \/ Connected(id) \/ ConnectFails(id)

SocketStep ==
  FrameArrives \/ PartArrives \/ FrameSwallowed \/ FrameMisread \/ SocketFails

ReaderStep == Registered \/ RegisterFailed \/ ReaderClosed

NativeNext ==
  \/ reader \in {"none", "closed", "failed"} /\ CreateReader
  \/ \E c \in Pullers : PullEvent(c)
  \/ CloseReader
  \/ \E id \in Ids : CallStep(id)
  \/ SocketStep
  \/ ReaderStep
  \/ Event
  \/ DaemonAnswers

NativeSpec == NativeInit /\ [][NativeNext]_nativeVars

-----------------------------------------------------------------------------
(* Properties.                                                             *)

\* Responses carry no id: the n-th frame answers the n-th waiting call.  That
\* is only right as long as no call is sent before the last one was answered
\* or the connection was given up (the serial chain, l.590-594).
ResponsesMatch ==
  \A i \in DOMAIN got : got[i].by = got[i].for

\* The events pullEvent returns come in the order they were made and none
\* comes twice, with any number of concurrent pulls and broken connections.
EventsInOrder ==
  \A i, j \in DOMAIN got : i < j => got[i].event < got[j].event

\* A closed reader has closed its connection, and no call of it is left that
\* could open another (connect() does not look at this.closed).
ClosedMeansDisconnected ==
  reader \in {"closed", "failed"} =>
    /\ ~socket
    /\ \A id \in Ids : call[id] \notin {"connecting", "sent"}

-----------------------------------------------------------------------------
(* What every step keeps.                                                  *)

NativeTypeOK ==
  /\ call \in [Ids -> {"idle", "queued", "connecting", "sent", "answered", "event", "failed"}]
  /\ serial \in Seq(Ids)
  /\ socket \in BOOLEAN /\ closed \in BOOLEAN
  /\ buffer \in {"empty", "part", "stale"}
  /\ reader \in {"none", "opening", "open", "closing", "closed", "failed"}
  /\ daemon \in Seq(Nat)
  /\ made \in Nat /\ breaks \in Nat
  /\ got \in Seq([event : Nat, by : Ids, for : Ids])

\* The chain holds each outstanding call once, and only the first was begun.
Chained ==
  /\ \A i, j \in DOMAIN serial : i # j => serial[i] # serial[j]
  /\ \A id \in Ids : Outstanding(id) <=> \E i \in DOMAIN serial : serial[i] = id
  /\ \A id \in Ids : call[id] \in {"connecting", "sent"} => Running(id)

\* An event is newer than those the pulls returned, and older than those the
\* daemon still holds.
Between(n) ==
  /\ \A i \in DOMAIN got : got[i].event < n
  /\ \A i \in DOMAIN daemon : n < daemon[i]

\* What is on the wire belongs to the one call that was sent.
NothingSent ==
  /\ pending = <<>> /\ request = <<>> /\ response = <<>>
  /\ \A id \in Ids : call[id] # "sent"

OneSent(id) ==
  /\ call[id] = "sent" /\ pending = <<id>> /\ socket
  /\ \/ request = <<id>> /\ response = <<>>
     \/ request = <<>> /\ response = <<>>
     \/ /\ request = <<>>
        /\ \E n \in 0 .. made : response = <<[to |-> id, event |-> n]>> /\ (n = 0 \/ Between(n))

OnTheWire == NothingSent \/ \E id \in Ids : OneSent(id)

\* The events returned and those the daemon holds are in order.
Ordered ==
  /\ ResponsesMatch /\ EventsInOrder
  /\ \A i \in DOMAIN got : got[i].event <= made
  /\ \A i, j \in DOMAIN daemon : i < j => daemon[i] < daemon[j]
  /\ \A i \in DOMAIN daemon : daemon[i] \in 1 .. made
  /\ \A i \in DOMAIN got, j \in DOMAIN daemon : got[i].event < daemon[j]

\* register_reader is the first call of a reader, unregister_reader the last.
Registers ==
  /\ reader \in {"none", "closed", "failed"} => closed /\ ~socket /\ serial = <<>>
  /\ reader = "opening" => \A id \in Ids : Outstanding(id) => id = "register"
  /\ Outstanding("register") => reader = "opening"
  /\ Outstanding("unregister") => reader = "closing" /\ serial[Len(serial)] = "unregister"
  /\ reader = "closing" /\ ~Outstanding("unregister") => serial = <<>>

NativeInv == NativeTypeOK /\ Chained /\ OnTheWire /\ Ordered /\ Registers
=============================================================================
