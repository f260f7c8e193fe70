--------------------------- MODULE ExecutorStream ---------------------------
(***************************************************************************)
(* The command stream to an executor (src/src/executor_client.ts) and the  *)
(* tool's commands over it (src/cli/modules/executor.ts): requests with    *)
(* numbers of their own over one socket, answered in any order, late, in   *)
(* pieces or never; a locator that is on disk before an operation goes out *)
(* and that a later process asks for its outcome.  The executor keeps a    *)
(* ledger of operations and may die at any time; so may the process.       *)
(***************************************************************************)
EXTENDS Naturals, Sequences, FiniteSets

CONSTANTS
  Operations, \* that processes start (exec, write, edit)
  MaxRequests,\* bound: requests of one stream
  MaxStreams  \* bound: streams opened

VARIABLES
  files,   \* operations whose locator is on disk
  stream,  \* ExecutorCommandStream of the process
  opened,  \* streams opened so far
  socket,  \* parts of frames on the way, each way
  ledger,  \* the operations that the executor executed
  heard    \* what the requests of this stream came to

vars == <<files, stream, opened, socket, ledger, heard>>

-----------------------------------------------------------------------------
NoStream == [stage |-> "none", sequence |-> 0, pending |-> <<>>, buffer |-> <<>>]
Quiet == [out |-> <<>>, in |-> <<>>]
Init ==
  /\ files = {} /\ stream = NoStream /\ opened = 0
  /\ socket = Quiet /\ ledger = {} /\ heard = {}

Goes(stage) == stream' = [stream EXCEPT !.stage = stage]
Ids == DOMAIN stream.pending
Without(f, i) == [j \in DOMAIN f \ {i} |-> f[j]]

\* What the request r with number id came to: the reply or the error that
\* names it, or none.  Without one, "unknown" stands for an ExecutorStreamError
\* with effectUnknown; "closing" and "invalid" come without it, although the
\* executor may have executed the operation then, too.
Outcome(r, id, said, of) == [id |-> id, verb |-> r.verb, op |-> r.op, said |-> said, of |-> of]

\* Control frames cross in two parts, and several in one message.
Frame(f) == <<[of |-> f, half |-> 1], [of |-> f, half |-> 2]>>

-----------------------------------------------------------------------------
(* Up to the login.                                                        *)

\* The locator file is made, and must be new.
SaveLocator(op) ==
  /\ op \notin files /\ files' = files \cup {op}
  /\ UNCHANGED <<stream, opened, socket, ledger, heard>>

\* connect: the route must be of the target, generation and all, and live.
Connect(matches) ==
  /\ stream.stage = "none" /\ opened < MaxStreams
  /\ opened' = opened + 1
  /\ stream' = IF matches THEN [NoStream EXCEPT !.stage = "opening"] ELSE NoStream
  /\ socket' = Quiet /\ heard' = {}
  /\ UNCHANGED <<files, ledger>>
\* The ticket is taken, or refused, or nothing is heard for ten seconds.
Ready(ok) ==
  /\ stream.stage = "opening"
  /\ Goes(IF ok THEN "login" ELSE "none") /\ UNCHANGED <<files, opened, socket, ledger, heard>>

NextNumber == stream.sequence + 1

\* request: registered, then sent.
Requested(r) ==
  LET id == NextNumber IN
    /\ stream' = [stream EXCEPT !.sequence = @ + 1,
                                !.pending = [j \in Ids \cup {id} |-> IF j = id THEN r ELSE stream.pending[j]],
                                !.stage = IF r.verb = "login" THEN "loggingIn" ELSE @]
    /\ socket' = [socket EXCEPT !.out = Append(@, [id |-> id, verb |-> r.verb, op |-> r.op])]
Login ==
  /\ stream.stage = "login" /\ Requested([verb |-> "login", op |-> "none"])
  /\ UNCHANGED <<files, opened, ledger, heard>>

-----------------------------------------------------------------------------
(* Requests.                                                               *)

\* exec, write (its header, all its chunks and the end in one go), edit: with
\* the target's own generation and the locator that was saved.
Dispatch(op) ==
  /\ stream.stage = "open" /\ stream.sequence < MaxRequests
  /\ op \in files /\ ~\E h \in heard : h.op = op /\ h.verb = "exec"
  /\ ~\E i \in Ids : stream.pending[i].op = op /\ stream.pending[i].verb = "exec"
  /\ Requested([verb |-> "exec", op |-> op]) /\ UNCHANGED <<files, opened, ledger, heard>>
\* query and cancel: of any generation, by a locator that was read.
Query(op) ==
  /\ stream.stage = "open" /\ stream.sequence < MaxRequests
  /\ op \in files
  /\ Requested([verb |-> "query", op |-> op]) /\ UNCHANGED <<files, opened, ledger, heard>>

Timeout(id) ==
  /\ stream' = [stream EXCEPT !.pending = Without(@, id),
                              !.stage = IF @ = "loggingIn" THEN "none" ELSE @]   \* connect closes it
  /\ heard' = heard \cup {Outcome(stream.pending[id], id, "unknown", "none")}
  /\ UNCHANGED <<files, opened, socket, ledger>>

\* fail: once; everything that waits is told, and the socket closed.
Fails(says, s) ==
  /\ stream' = [s EXCEPT !.stage = "closed", !.pending = <<>>]
  /\ heard' = heard \cup {Outcome(s.pending[i], i, says, "none") : i \in DOMAIN s.pending}
\* The socket closes or fails, or close is called (as when the command aborts).
SocketCloses ==
  /\ stream.stage \in {"loggingIn", "open"} /\ Fails("unknown", stream)
  /\ socket' = Quiet /\ UNCHANGED <<files, opened, ledger>>
\* Not a frame: neither kind, too long, or no JSON.
InvalidFrame ==
  /\ stream.stage \in {"loggingIn", "open"} /\ Fails("invalid", stream)
  /\ socket' = Quiet /\ UNCHANGED <<files, opened, ledger>>

\* receive: the message joins what was left of the one before, and every
\* whole frame is taken; one that answers nothing that waits is dropped.
Take(s, frame, heardSoFar) ==
  IF frame.id \notin DOMAIN s.pending THEN [stream |-> s, heard |-> heardSoFar]
  ELSE LET r == s.pending[frame.id] IN
    [stream |-> [s EXCEPT !.pending = Without(@, frame.id),
                          !.stage = IF r.verb # "login" THEN @ ELSE IF frame.ok THEN "open" ELSE "closed"],
     heard |-> heardSoFar \cup {Outcome(r, frame.id, IF frame.ok THEN "reply" ELSE "error", frame.op)}]
\* (Message by message a whole frame at most: two are two steps.)
Receive(n) ==
  /\ stream.stage \in {"loggingIn", "open"} /\ n \in 1..Len(socket.in)
  /\ LET b == stream.buffer \o SubSeq(socket.in, 1, n)
         s == [stream EXCEPT !.buffer = IF Len(b) < 2 THEN b ELSE SubSeq(b, 3, Len(b))] IN
       /\ Len(b) <= 3
       /\ IF Len(b) < 2 THEN stream' = s /\ UNCHANGED heard
          ELSE IF b[1].of.id = 0 THEN Fails("closing", s)
          ELSE LET t == Take(s, b[1].of, heard) IN stream' = t.stream /\ heard' = t.heard
  /\ socket' = [socket EXCEPT !.in = SubSeq(@, n + 1, Len(@))]
  /\ UNCHANGED <<files, opened, ledger>>

\* The process ends, and with it the stream: nobody is there to be told.
Ends ==
  /\ stream.stage # "none"
  /\ stream' = NoStream /\ socket' = Quiet /\ heard' = {}
  /\ UNCHANGED <<files, opened, ledger>>

-----------------------------------------------------------------------------
(* The executor: external.                                                 *)

Answered(k, ok) ==
  LET q == socket.out[k] IN
  socket' = [out |-> SubSeq(socket.out, 1, k - 1) \o SubSeq(socket.out, k + 1, Len(socket.out)),
             in |-> socket.in \o Frame([id |-> q.id, op |-> q.op, ok |-> ok])]
Serve(k, ok) ==
  /\ LET q == socket.out[k] IN ledger' = IF q.verb = "exec" /\ ok THEN ledger \cup {q.op} ELSE ledger
  /\ Answered(k, ok)
  /\ UNCHANGED <<files, stream, opened, heard>>
\* Executed, and dead before it answers.
Dies ==
  /\ socket.out # <<>> /\ ledger' = IF socket.out[1].verb = "exec" THEN ledger \cup {socket.out[1].op} ELSE ledger
  /\ socket' = [socket EXCEPT !.out = Tail(@)]
  /\ UNCHANGED <<files, stream, opened, heard>>
Closing ==
  /\ stream.stage = "open" /\ Len(socket.in) < 4
  /\ socket' = [socket EXCEPT !.in = @ \o Frame([id |-> 0, op |-> "none", ok |-> FALSE])]
  /\ UNCHANGED <<files, stream, opened, ledger, heard>>

Next ==
  \/ \E op \in Operations : SaveLocator(op) \/ Dispatch(op) \/ Query(op)
  \/ \E ok \in BOOLEAN : Connect(ok) \/ Ready(ok) \/ \E k \in 1..Len(socket.out) : Serve(k, ok)
  \/ Login \/ SocketCloses \/ InvalidFrame \/ Ends \/ Dies \/ Closing
  \/ \E id \in Ids : Timeout(id)
  \/ \E n \in 1..Len(socket.in) : Receive(n)

Spec == Init /\ [][Next]_vars

-----------------------------------------------------------------------------
(* Requests overlap, time out, are answered late and in pieces, or end     *)
(* with their stream.  Each request of a stream is settled once: it waits, *)
(* or its caller has heard one thing of it, and nobody waits on a stream   *)
(* that has closed.  What is heard as an answer is the answer to that      *)
(* request, and the locator of every operation that was executed was on    *)
(* disk before, so that the ledger can be asked whatever was heard.        *)
OutcomesAreHonest ==
  /\ Ids \cup {h.id : h \in heard} = 1..stream.sequence
  /\ \A h \in heard : h.id \notin Ids /\ \A g \in heard : g.id = h.id => g = h
  /\ stream.stage = "closed" => Ids = {}
  /\ \A h \in heard : h.said \in {"reply", "error"} => h.of = h.op
  /\ ledger \subseteq files
=============================================================================
