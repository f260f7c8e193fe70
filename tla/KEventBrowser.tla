--------------------------- MODULE KEventBrowser ---------------------------
(* The reader of a browser page (kevent_client.ts): one POST whose response   *)
(* streams frames, one per line. createEventReader waits for the ack; the      *)
(* stream fills a queue that the application's pulls empty, with or without a  *)
(* time limit; the application may close the reader or abort it at any time,   *)
(* and the gateway may end or break the stream after any frame.                *)
EXTENDS Naturals, Sequences, SequencesExt

CONSTANTS Pullers,    \* concurrent pullEvent calls of the application
          MaxFrames   \* frames the gateway sends

VARIABLES creating,  \* createEventReader: "token", "fetch", "ack", "closing", "ready", "failed"
          stream,    \* streamTask: "none", "open", "cancelling", "over"
          refused,   \* rejectAck was called
          acked,     \* the ack frame was handled
          aborted,   \* controller.signal
          items,     \* AsyncEventQueue: the events nobody pulled yet
          waiters,   \* and the pulls nobody answered yet
          closed,    \* and whether it is closed
          closing,   \* the application's close(): "none", "waits", "returned"
          pulls,     \* each puller: "idle", "waits", "event", "nothing"
          given,     \* the events the pulls returned, in order
          frames     \* how many frames came, and the events among them
vars == <<creating, stream, refused, acked, aborted, items, waiters, closed,
          closing, pulls, given, frames>>
queue == <<items, waiters, pulls, given>>

Init == /\ creating = "token" /\ stream = "none" /\ refused = FALSE /\ acked = FALSE
        /\ aborted \in BOOLEAN  \* options.signal may be aborted before
        /\ items = <<>> /\ waiters = <<>> /\ closed = FALSE /\ closing = "none"
        /\ pulls = [p \in Pullers |-> "idle"] /\ given = <<>>
        /\ frames = [count |-> 0, events |-> <<>>]

-----------------------------------------------------------------------------
(* AsyncEventQueue                                                            *)
Push(e) ==
    IF closed THEN UNCHANGED queue
    ELSE IF waiters # <<>>
    THEN /\ pulls' = [pulls EXCEPT ![Head(waiters)] = "event"] /\ waiters' = Tail(waiters)
         /\ given' = Append(given, e) /\ UNCHANGED items
    ELSE items' = Append(items, e) /\ UNCHANGED <<waiters, pulls, given>>

\* markClosed: who waits is told that there is nothing more.
MarkClosed == /\ closed' = TRUE /\ waiters' = <<>>
              /\ pulls' = [p \in Pullers |-> IF pulls[p] = "waits" THEN "nothing" ELSE pulls[p]]
              /\ UNCHANGED <<items, given>>

\* A pull that may not wait (now) finds an event or nothing.
PullEvent(p, now) ==
    /\ creating = "ready" /\ pulls[p] # "waits"
    /\ IF items # <<>>
       THEN /\ given' = Append(given, Head(items)) /\ items' = Tail(items)
            /\ pulls' = [pulls EXCEPT ![p] = "event"] /\ UNCHANGED waiters
       ELSE IF closed \/ now THEN pulls' = [pulls EXCEPT ![p] = "nothing"] /\ UNCHANGED <<items, waiters, given>>
       ELSE /\ pulls' = [pulls EXCEPT ![p] = "waits"] /\ waiters' = Append(waiters, p)
            /\ UNCHANGED <<items, given>>
    /\ UNCHANGED <<creating, stream, refused, acked, aborted, closed, closing, frames>>
\* Seeded: a pull that timed out stays in the queue and swallows an event.
StaysInQueue(p) == waiters
\* The waiter leaves the queue before its pull returns.
LeavesQueue(p) ==
    LET index == CHOOSE i \in DOMAIN waiters : waiters[i] = p
    IN SubSeq(waiters, 1, index - 1) \o SubSeq(waiters, index + 1, Len(waiters))
PullTimesOut(p) ==
    /\ pulls[p] = "waits" /\ pulls' = [pulls EXCEPT ![p] = "nothing"]
    /\ waiters' = LeavesQueue(p)
    /\ UNCHANGED <<creating, stream, refused, acked, aborted, items, closed, closing, given, frames>>

-----------------------------------------------------------------------------
(* start() and createEventReader                                              *)
Rest == <<acked, closed, closing, queue, frames>>
\* A failed creation closes the reader, and only then throws.
CreationFails == creating' = "closing" /\ aborted' = TRUE /\ MarkClosed
TokenRead == /\ creating = "token"
             /\ creating' = "fetch" /\ UNCHANGED <<stream, refused, aborted, Rest>>
TokenFails == /\ creating = "token" /\ CreationFails
              /\ UNCHANGED <<stream, refused, acked, closing, frames>>
Responds == /\ creating = "fetch" /\ ~aborted
            /\ creating' = "ack" /\ stream' = "open" /\ UNCHANGED <<refused, aborted, Rest>>
\* Aborted, not reachable, an HTTP error, or a response without a body.
FetchFails == /\ creating = "fetch" /\ CreationFails
              /\ UNCHANGED <<stream, refused, acked, closing, frames>>
Acknowledged == /\ creating = "ack" /\ acked /\ ~refused
                /\ creating' = "ready" /\ UNCHANGED <<stream, refused, aborted, Rest>>
AckRefused == /\ creating = "ack" /\ refused /\ CreationFails
              /\ UNCHANGED <<stream, refused, acked, closing, frames>>
StreamGone == stream \in {"none", "over"}
CreationThrows == /\ creating = "closing" /\ StreamGone
                  /\ creating' = "failed" /\ UNCHANGED <<stream, refused, aborted, Rest>>

-----------------------------------------------------------------------------
(* consumeStream and what becomes of its frames                               *)
Counted(es) == frames' = [count |-> frames.count + 1, events |-> frames.events \o es]
\* The stream's end, an abort, a read error or a frame that does not parse.
Ends == stream' = "cancelling" /\ refused' = (refused \/ ~acked)
FrameArrives(kind) ==
    /\ stream = "open" /\ ~aborted /\ frames.count < MaxFrames
    /\ CASE kind = "ack" -> /\ acked' = TRUE /\ Counted(<<>>)
                            /\ UNCHANGED <<queue, stream, refused>>
         [] kind = "event" -> /\ LET e == Len(frames.events) + 1 IN Push(e) /\ Counted(<<e>>)
                              /\ UNCHANGED <<acked, stream, refused>>
         [] kind = "error" -> /\ refused' = (refused \/ ~acked) /\ Counted(<<>>)
                              /\ UNCHANGED <<queue, acked, stream>>
         [] OTHER -> Ends /\ Counted(<<>>) /\ UNCHANGED <<queue, acked>>
    /\ UNCHANGED <<creating, aborted, closed, closing>>
StreamEnds == /\ stream = "open" /\ Ends
              /\ UNCHANGED <<creating, acked, aborted, closed, closing, queue, frames>>
StreamOver == /\ stream = "cancelling" /\ stream' = "over" /\ MarkClosed
              /\ UNCHANGED <<creating, refused, acked, aborted, closing, frames>>

-----------------------------------------------------------------------------
Aborts == /\ ~aborted /\ aborted' = TRUE
          /\ UNCHANGED <<creating, stream, refused, Rest>>
Close == /\ creating = "ready" /\ closing = "none"
         /\ closing' = "waits" /\ aborted' = TRUE /\ MarkClosed
         /\ UNCHANGED <<creating, stream, refused, acked, frames>>
CloseReturns == /\ closing = "waits" /\ StreamGone /\ closing' = "returned"
                /\ UNCHANGED <<creating, stream, refused, acked, aborted, closed, queue, frames>>

ReaderGoesOn == \/ TokenRead \/ TokenFails \/ Acknowledged \/ AckRefused \/ CreationThrows
                \/ StreamOver \/ CloseReturns
Fetched == Responds \/ FetchFails
AbortEndsStream == aborted /\ StreamEnds
Gateway == \E kind \in {"ack", "event", "error", "odd"} : FrameArrives(kind)
Next == \/ ReaderGoesOn \/ Fetched \/ Gateway \/ StreamEnds \/ Aborts \/ Close
        \/ \E p \in Pullers : (\E now \in BOOLEAN : PullEvent(p, now)) \/ PullTimesOut(p)
Spec == Init /\ [][Next]_vars
\* Promises settle, a fetch is answered or fails, an abort ends a stream.
FairSpec == Spec /\ WF_vars(ReaderGoesOn) /\ WF_vars(Fetched) /\ WF_vars(AbortEndsStream)

-----------------------------------------------------------------------------
\* What the pulls return is what the stream brought, in its order, nothing
\* twice; an event the reader took is never dropped while somebody waits for it
\* or may still pull it, and nobody waits for a stream that is over.
PullsFollowStream ==
    /\ IsPrefix(given \o items, frames.events)
    /\ ~closed => given \o items = frames.events
    /\ waiters # <<>> => items = <<>>
    /\ closed => \A p \in Pullers : pulls[p] # "waits"
    /\ ToSet(waiters) = {p \in Pullers : pulls[p] = "waits"}

\* Neither a reader that could not be created nor one that was closed leaves a
\* stream behind: its connection would stay open for good.
NoStreamLeft == creating = "failed" \/ closing = "returned" => StreamGone /\ closed

\* Aborting or closing a reader comes to an end: whoever creates it, closes it
\* or waits in a pull is told.
Told == /\ creating \in {"ready", "failed"} /\ closing # "waits"
        /\ \A p \in Pullers : pulls[p] # "waits"
Aborted == aborted
AbortIsHeard == Aborted ~> Told

-----------------------------------------------------------------------------
(* What every step keeps.                                                     *)
TypeOK == /\ creating \in {"token", "fetch", "ack", "closing", "ready", "failed"}
          /\ stream \in {"none", "open", "cancelling", "over"}
          /\ refused \in BOOLEAN /\ acked \in BOOLEAN /\ aborted \in BOOLEAN /\ closed \in BOOLEAN
          /\ items \in Seq(Nat) /\ given \in Seq(Nat) /\ waiters \in Seq(Pullers)
          /\ closing \in {"none", "waits", "returned"}
          /\ pulls \in [Pullers -> {"idle", "waits", "event", "nothing"}]
          /\ frames \in [count : Nat, events : Seq(Nat)]

\* A pull waits once.
WaitsOnce == \A i, j \in DOMAIN waiters : i # j => waiters[i] # waiters[j]

\* The stream is made after the token was read; who fails to create the reader,
\* or closes it, closes the queue first.
StreamFollows ==
    /\ creating \in {"token", "fetch"} => stream = "none"
    /\ creating \in {"closing", "failed"} => closed
    /\ creating = "failed" => StreamGone
    /\ closing # "none" => creating = "ready" /\ closed
    /\ closing = "returned" => StreamGone

IInv == TypeOK /\ PullsFollowStream /\ WaitsOnce /\ StreamFollows
=============================================================================
