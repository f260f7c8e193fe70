------------------------ MODULE ImportSession_proofs ------------------------
(***************************************************************************)
(* Theorems about ImportSession, for every import, number of workers,      *)
(* callers and attempts.  The argument: while the workers run, every file  *)
(* behind `index` is complete, or in some worker's hands, or a failure has *)
(* been recorded (Claimed); an entry marked uploaded is stored (Backed);   *)
(* and nothing outlives its phase (Quiet).                                 *)
(***************************************************************************)
EXTENDS ImportSession, TLAPS

InHand(w) == pc[w] \in {"chunk", "await"}

\* Control: the promise runs exactly while doUpload is in some phase, workers
\* act only in theirs, and a pending task always has a worker awaiting it.
Quiet ==
  /\ promise = "running" <=> phase /= "off"
  /\ phase /= "workers" => \A w \in Workers : pc[w] = "done"
  /\ \A c \in Chunks : Pending(tasks[c]) =>
       \E w \in Workers : /\ pc[w] = "await" /\ at[w] \in Entries
                          /\ Content[at[w][1]][at[w][2]] = c

\* A worker's position is inside the import, behind `index`, and every chunk of
\* its file before the position has been uploaded.
Placed(w) ==
  /\ at[w][1] \in Files /\ at[w][1] < index
  /\ at[w][2] \in 1..(Len(Content[at[w][1]]) + 1)
  /\ pc[w] = "await" => at[w] \in Entries
  /\ \A k \in 1..(at[w][2] - 1) : <<at[w][1], k>> \in uploaded

Positions ==
  \A w \in Workers : InHand(w) => Placed(w)

\* No file is overlooked: what follows from a worker that ends.
Claimed ==
  /\ phase = "workers" =>
       /\ \A f \in Files : f < index =>
            \/ fileState[f] = "completed"
            \/ failure
            \/ \E w \in Workers : InHand(w) /\ at[w][1] = f
       /\ \A w \in Workers : pc[w] = "done" => failure \/ index > Len(Content)
  /\ phase \in {"token", "finalize"} => \A f \in Files : fileState[f] = "completed"

\* The client's marks are backed by the server.
Backed ==
  /\ \A e \in uploaded : Content[e[1]][e[2]] \in stored
  /\ \A f \in Files : fileState[f] = "completed" =>
       \A k \in 1..Len(Content[f]) : <<f, k>> \in uploaded
  /\ \A c \in Chunks : tasks[c] = "ok" => c \in stored
  /\ finalized => \A e \in Entries : Content[e[1]][e[2]] \in stored
  /\ objectStatus = "ready" => finalized /\ (bind => binding)

IInv == TypeOK /\ Quiet /\ Positions /\ Claimed /\ Backed

-----------------------------------------------------------------------------
(* Facts about the import's shape.                                          *)

\* The files are numbered from 1, and each is a sequence of chunk ids.
LEMMA Shape ==
  /\ Files = 1..Len(Content) /\ Len(Content) \in Nat
  /\ \A f \in Files : /\ Content[f] \in Seq(Chunks)
                      /\ DOMAIN Content[f] = 1..Len(Content[f])
                      /\ Len(Content[f]) \in Nat
                      /\ \A k \in 1..Len(Content[f]) : Content[f][k] \in Chunks
  BY ImportAssumption DEF Files

\* An entry is a file and the index of one of its chunks.
LEMMA EntryShape ==
  ASSUME NEW f, NEW k
  PROVE  <<f, k>> \in Entries <=> f \in Files /\ k \in 1..Len(Content[f])
  BY Shape DEF Entries

\* An entry is a file with the position of one of its chunks.
LEMMA EntryParts ==
  ASSUME NEW e \in Entries
  PROVE  /\ e[1] \in Files /\ e[2] \in 1..Len(Content[e[1]])
         /\ e = <<e[1], e[2]>> /\ Content[e[1]][e[2]] \in Chunks
  BY Shape DEF Entries

\* The initial state of an import satisfies every part of the invariant.
LEMMA InitIInv == Init => IInv
  <1> SUFFICES ASSUME Init PROVE IInv OBVIOUS
  <1>1. TypeOK
    <2>1. index \in 1..(Len(Content) + 1) /\ attempt \in 0..MaxAttempts
      BY Shape, ImportAssumption DEF Init
    <2>2. sentIn \in [Chunks -> [Attempts -> Nat]] BY DEF Init
    <2>3. /\ fileState \in [Files -> {"pending", "uploading", "completed", "failed"}]
          /\ tasks \in [Chunks -> TaskStates] BY DEF Init, TaskStates
    <2>4. at \in [Workers -> Nat \X Nat] BY DEF Init
    <2> QED BY <2>1, <2>2, <2>3, <2>4 DEF Init, TypeOK
  <1>2. Quiet BY DEF Init, Quiet, Pending
  <1>3. Positions BY DEF Init, Positions, Placed, InHand
  <1>4. Claimed BY DEF Init, Claimed
  <1>5. Backed BY Shape, ImportAssumption DEF Init, Backed
  <1> QED BY <1>1, <1>2, <1>3, <1>4, <1>5 DEF IInv


-----------------------------------------------------------------------------
(* The session's public operations.                                         *)

\* A stuttering step preserves the invariant.
LEMMA StutterIInv == ASSUME IInv, UNCHANGED vars PROVE IInv'
  <1> USE DEF vars, session, engine, server
  <1>1. TypeOK' BY DEF IInv, TypeOK
  <1>2. Quiet' BY DEF IInv, Quiet
  <1>3. Positions' BY DEF IInv, Positions, Placed, InHand
  <1>4. Claimed' BY DEF IInv, Claimed, InHand
  <1>5. Backed' BY DEF IInv, Backed
  <1> QED BY <1>1, <1>2, <1>3, <1>4, <1>5 DEF IInv

\* Starting an attempt preserves the invariant: chunk.uploaded survives.
LEMMA BeginIInv ==
  ASSUME IInv, MayStart, NEW b \in BOOLEAN, BeginAttempt(b),
         call' \in [Callers -> {"none", "waiting", "woken", "resolved", "rejected"}]
  PROVE  IInv'
  <1> USE DEF BeginAttempt, MayStart, server, ChunksKept
  <1>1. TypeOK'
    <2>1. /\ index' \in 1..(Len(Content) + 1) /\ attempt' \in 0..MaxAttempts
          /\ bind' \in BOOLEAN
      BY Shape, ImportAssumption DEF IInv, TypeOK
    <2>2. /\ tasks' \in [Chunks -> TaskStates]
          /\ pc' \in [Workers -> {"top", "chunk", "await", "done"}]
      BY DEF TaskStates
    <2> QED BY <2>1, <2>2 DEF IInv, TypeOK
  <1>2. Quiet' BY DEF IInv, Quiet, Pending
  <1>3. Positions' BY DEF IInv, Positions, Placed, InHand
  <1>4. Claimed' BY Shape DEF IInv, Claimed, InHand
  <1>5. Backed' BY DEF IInv, Backed, TypeOK
  <1> QED BY <1>1, <1>2, <1>3, <1>4, <1>5 DEF IInv

\* A start rejected for its bind option preserves the invariant.
LEMMA BindRejectedIInv == ASSUME IInv, StartBindRejected PROVE IInv'
  <1> USE DEF StartBindRejected, MayStart, engine, server
  <1>1. TypeOK'
    <2>1. attempt' \in 0..MaxAttempts BY ImportAssumption DEF IInv, TypeOK
    <2> QED BY <2>1 DEF IInv, TypeOK
  <1>2. Quiet' BY DEF IInv, Quiet
  <1>3. Positions' BY DEF IInv, Positions, Placed, InHand
  <1>4. Claimed' BY DEF IInv, Claimed, InHand
  <1>5. Backed' BY DEF IInv, Backed
  <1> QED BY <1>1, <1>2, <1>3, <1>4, <1>5 DEF IInv

\* Steps that change ensureUploaded calls and nothing the engine reads.
LEMMA CallsIInv ==
  ASSUME IInv, UNCHANGED <<session, engine, sentIn, server>>,
         call' \in [Callers -> {"none", "waiting", "woken", "resolved", "rejected"}]
  PROVE  IInv'
  <1> USE DEF session, engine, server
  <1>1. TypeOK' BY DEF IInv, TypeOK
  <1>2. Quiet' BY DEF IInv, Quiet
  <1>3. Positions' BY DEF IInv, Positions, Placed, InHand
  <1>4. Claimed' BY DEF IInv, Claimed, InHand
  <1>5. Backed' BY DEF IInv, Backed
  <1> QED BY <1>1, <1>2, <1>3, <1>4, <1>5 DEF IInv

\* An abort, with or without the statuses of a cancellation, preserves it: a
\* TUS upload that is torn down is no longer pending and was never "ok".
LEMMA AbortIInv ==
  ASSUME IInv, Abort \/ UNCHANGED <<aborted, tasks>>,
         registry' \in {"none", "single", "several"},
         \/ objectStatus' = "cancelled" /\ uploadStatus' = "cancelled"
         \/ UNCHANGED <<objectStatus, uploadStatus>>,
         UNCHANGED <<promise, bind, binding, uploaded, fileState, phase, index,
                     failure, pc, at, call, attempt, sentIn, server>>
  PROVE  IInv'
  <1> USE DEF server
  <1>0. /\ tasks' \in [Chunks -> TaskStates] /\ aborted' \in BOOLEAN
        /\ \A c \in Chunks : tasks'[c] = tasks[c] \/ tasks'[c] = "err"
    <2>0. tasks \in [Chunks -> TaskStates] /\ aborted \in BOOLEAN BY DEF IInv, TypeOK
    <2>1. CASE Abort BY <2>0, <2>1 DEF Abort, TasksAborted, TaskStates
    <2>2. CASE UNCHANGED <<aborted, tasks>> BY <2>0, <2>2
    <2> QED BY <2>1, <2>2
  <1>1. TypeOK' BY <1>0 DEF IInv, TypeOK
  <1>2. Quiet' BY <1>0 DEF IInv, Quiet, Pending
  <1>3. Positions' BY DEF IInv, Positions, Placed, InHand
  <1>4. Claimed' BY DEF IInv, Claimed, InHand
  <1>5. Backed' BY <1>0 DEF IInv, Backed
  <1> QED BY <1>1, <1>2, <1>3, <1>4, <1>5 DEF IInv


-----------------------------------------------------------------------------
(* The workers.  A step of one worker leaves the others' control alone; the *)
(* three frame lemmas say what its own step must then satisfy.              *)

\* A step of one worker keeps Quiet when it leaves no task without a worker.
LEMMA QuietFrame ==
  ASSUME Quiet, NEW w \in Workers, phase = "workers", UNCHANGED <<phase, promise>>,
         \A v \in Workers \ {w} : pc'[v] = pc[v] /\ at'[v] = at[v],
         \A c \in Chunks : Pending(tasks'[c]) =>
           \/ /\ Pending(tasks[c])
              /\ pc[w] = "await" => Content[at[w][1]][at[w][2]] /= c
           \/ /\ pc'[w] = "await" /\ at'[w] \in Entries
              /\ Content[at'[w][1]][at'[w][2]] = c
  PROVE  Quiet'
  <1>1. ASSUME NEW c \in Chunks, Pending(tasks'[c])
        PROVE  \E v \in Workers : /\ pc'[v] = "await" /\ at'[v] \in Entries
                                  /\ Content[at'[v][1]][at'[v][2]] = c
    <2>1. CASE /\ pc'[w] = "await" /\ at'[w] \in Entries
               /\ Content[at'[w][1]][at'[w][2]] = c
      BY <2>1
    <2>2. CASE /\ Pending(tasks[c])
               /\ pc[w] = "await" => Content[at[w][1]][at[w][2]] /= c
      <3>1. PICK v \in Workers : /\ pc[v] = "await" /\ at[v] \in Entries
                                 /\ Content[at[v][1]][at[v][2]] = c
        BY <2>2 DEF Quiet
      <3> QED BY <3>1, <2>2
    <2> QED BY <2>1, <2>2, <1>1
  <1> QED BY <1>1 DEF Quiet, Pending

\* A step of one worker keeps Positions when its own file is placed.
LEMMA PositionsFrame ==
  ASSUME Positions, NEW w \in Workers, index \in Nat, index' \in Nat, index <= index',
         uploaded \subseteq uploaded',
         \A f \in Files : f \in Nat,
         \A v \in Workers \ {w} : pc'[v] = pc[v] /\ at'[v] = at[v],
         InHand(w)' => Placed(w)'
  PROVE  Positions'
  <1>1. ASSUME NEW v \in Workers \ {w}, InHand(v)' PROVE Placed(v)'
    BY <1>1, SMTT(20) DEF Positions, Placed, InHand
  <1> QED BY <1>1 DEF Positions

\* A step of one worker keeps Claimed when each file it takes or leaves is.
LEMMA ClaimedFrame ==
  ASSUME Claimed, NEW w \in Workers, phase = "workers", phase' = phase,
         index \in Nat, index' \in Nat, index <= index', Len(Content) \in Nat,
         failure => failure',
         \A v \in Workers \ {w} : pc'[v] = pc[v] /\ at'[v] = at[v],
         \A f \in Files : f < index' =>
           \/ f < index /\ ~(InHand(w) /\ at[w][1] = f)
           \/ fileState'[f] = "completed" \/ failure' \/ (InHand(w)' /\ at'[w][1] = f),
         \A f \in Files : fileState[f] = "completed" =>
           fileState'[f] = "completed" \/ failure' \/ (InHand(w)' /\ at'[w][1] = f),
         pc'[w] = "done" => failure' \/ index' > Len(Content)
  PROVE  Claimed'
  <1>1. ASSUME NEW f \in Files, f < index'
        PROVE  \/ fileState'[f] = "completed" \/ failure'
               \/ \E v \in Workers : InHand(v)' /\ at'[v][1] = f
    <2>1. CASE f < index /\ ~(InHand(w) /\ at[w][1] = f)
      <3>1. \/ fileState[f] = "completed" \/ failure
            \/ \E v \in Workers \ {w} : InHand(v) /\ at[v][1] = f
        BY <2>1 DEF Claimed
      <3>2. ASSUME NEW v \in Workers \ {w}, InHand(v), at[v][1] = f
            PROVE  InHand(v)' /\ at'[v][1] = f
        BY <3>2 DEF InHand
      <3> QED BY <3>1, <3>2
    <2> QED BY <2>1, <1>1
  <1>2. ASSUME NEW v \in Workers, pc'[v] = "done" PROVE failure' \/ index' > Len(Content)
    BY <1>2 DEF Claimed
  <1> QED BY <1>1, <1>2 DEF Claimed

\* What a worker's step may rely on.
LEMMA InLoop ==
  ASSUME IInv, NEW w \in Workers, pc[w] /= "done"
  PROVE  phase = "workers" /\ index \in Nat /\ \A f \in Files : f \in Nat
  BY Shape DEF IInv, Quiet, TypeOK

\* Where a worker stands in the file in its hand.
LEMMA InFile ==
  ASSUME IInv, NEW w \in Workers, InHand(w), NEW f, NEW k, f = at[w][1], k = at[w][2]
  PROVE  /\ f \in Files /\ f \in Nat /\ f < index /\ at[w] = <<f, k>>
         /\ k \in 1..(Len(Content[f]) + 1) /\ k \in Nat
         /\ k <= Len(Content[f]) => /\ at[w] \in Entries /\ Content[f][k] \in Chunks
                                    /\ k \in 1..Len(Content[f])
         /\ pc[w] = "await" => k <= Len(Content[f])
         /\ \A j \in 1..(k - 1) : <<f, j>> \in uploaded
  <1>1. Placed(w) /\ at[w] = <<f, k>> BY DEF IInv, Positions, TypeOK
  <1>2. f \in Files /\ f \in Nat /\ Len(Content[f]) \in Nat BY <1>1, Shape DEF Placed
  <1> QED BY <1>1, <1>2, Shape, EntryShape DEF Placed

\* A worker leaves its loop only on a failure or with no file left.
LEMMA WorkerEndsIInv == ASSUME IInv, NEW w \in Workers, WorkerEnds(w) PROVE IInv'
  <1> USE DEF WorkerEnds, session, server
  <1>1. TypeOK' BY DEF IInv, TypeOK
  <1>2. Quiet' BY DEF IInv, Quiet, TypeOK
  <1>3. Positions' BY DEF IInv, Positions, Placed, InHand, TypeOK
  <1>4. Claimed' BY DEF IInv, Claimed, InHand, TypeOK
  <1>5. Backed' BY DEF IInv, Backed
  <1> QED BY <1>1, <1>2, <1>3, <1>4, <1>5 DEF IInv

\* The typing of the variables a worker writes.
LEMMA WorkerTypes ==
  ASSUME TypeOK,
         UNCHANGED <<registry, objectStatus, uploadStatus, promise, aborted, bind,
                     binding, attempt, phase, call, sentIn, server>>,
         index' \in 1..(Len(Content) + 1), failure' \in BOOLEAN,
         uploaded' \in SUBSET Entries, tasks' \in [Chunks -> TaskStates],
         fileState' \in [Files -> {"pending", "uploading", "completed", "failed"}],
         pc' \in [Workers -> {"top", "chunk", "await", "done"}],
         at' \in [Workers -> Nat \X Nat]
  PROVE  TypeOK'
  BY DEF TypeOK, server

\* Taking a file: it is completed already, in the worker's hands, or failed.
LEMMA TakeFileIInv == ASSUME IInv, NEW w \in Workers, TakeFile(w) PROVE IInv'
  <1>0. /\ index \in Files /\ index' = index + 1 /\ index \in Nat /\ index' \in Nat
        /\ index' \in 1..(Len(Content) + 1) /\ Len(Content) \in Nat
        /\ phase = "workers" /\ pc[w] = "top" /\ ~InHand(w) /\ ~failure
    BY Shape DEF TakeFile, IInv, TypeOK, Quiet, InHand
  <1>u. UNCHANGED <<registry, objectStatus, uploadStatus, promise, aborted, bind,
                    binding, uploaded, attempt, phase, tasks, call, sentIn, server>>
    BY DEF TakeFile
  <1>t. TypeOK /\ Quiet /\ Positions /\ Claimed /\ Backed /\ \A f \in Files : f \in Nat
    BY Shape DEF IInv
  <1>1. CASE aborted /\ FileFails(w, index) /\ UNCHANGED at
    <2>0. /\ fileState' = [fileState EXCEPT ![index] = "failed"] /\ failure' = TRUE
          /\ pc' = [pc EXCEPT ![w] = "top"] /\ at' = at
      BY <1>1 DEF FileFails
    <2>f. /\ \A v \in Workers \ {w} : pc'[v] = pc[v] /\ at'[v] = at[v]
          /\ pc'[w] = "top" /\ ~InHand(w)'
      BY <2>0, <1>t DEF TypeOK, InHand
    <2>1. TypeOK' BY <2>0, <1>0, <1>u, <1>t, WorkerTypes DEF TypeOK
    <2>2. Quiet' BY <2>f, <1>0, <1>u, <1>t, QuietFrame
    <2>3. Positions' BY <2>f, <1>0, <1>u, <1>t, PositionsFrame
    <2>4. Claimed'
      <3>1. \A v \in Workers : pc'[v] = "done" => failure' BY <2>0
      <3> QED BY <3>1, <2>0, <1>0, <1>u DEF Claimed
    <2>5. Backed' BY <2>0, <1>0, <1>u, <1>t DEF Backed, TypeOK, server
    <2> QED BY <2>1, <2>2, <2>3, <2>4, <2>5 DEF IInv
  <1>2. CASE fileState[index] = "completed" /\ UNCHANGED <<fileState, failure, pc, at>>
    <2>1. TypeOK' BY <1>2, <1>0, <1>u, <1>t, WorkerTypes DEF TypeOK
    <2>2. Quiet' BY <1>2, <1>u, <1>t DEF Quiet
    <2>3. Positions' BY <1>2, <1>0, <1>u, <1>t, PositionsFrame DEF InHand
    <2>4. Claimed'
      <3>1. \A f \in Files : f < index' => f < index \/ f = index BY <1>0, <1>t
      <3>2. \A f \in Files : f < index' =>
             \/ f < index /\ ~(InHand(w) /\ at[w][1] = f)
             \/ fileState'[f] = "completed" \/ failure' \/ (InHand(w)' /\ at'[w][1] = f)
        BY <3>1, <1>2, <1>0
      <3>3. \A f \in Files : fileState[f] = "completed" =>
             fileState'[f] = "completed" \/ failure' \/ (InHand(w)' /\ at'[w][1] = f)
        BY <1>2
      <3>4. /\ \A v \in Workers \ {w} : pc'[v] = pc[v] /\ at'[v] = at[v]
            /\ failure => failure'
            /\ phase' = phase /\ pc'[w] /= "done" /\ index <= index'
        BY <1>2, <1>0, <1>u
      <3> QED BY <3>2, <3>3, <3>4, <1>0, <1>t, ClaimedFrame
    <2>5. Backed' BY <1>2, <1>u, <1>t DEF Backed, server
    <2> QED BY <2>1, <2>2, <2>3, <2>4, <2>5 DEF IInv
  <1>3. CASE /\ fileState' = [fileState EXCEPT ![index] = "uploading"]
             /\ fileState[index] /= "completed"
             /\ pc' = [pc EXCEPT ![w] = "chunk"]
             /\ at' = [at EXCEPT ![w] = <<index, 1>>]
             /\ UNCHANGED failure
    <2>f. /\ \A v \in Workers \ {w} : pc'[v] = pc[v] /\ at'[v] = at[v]
          /\ pc'[w] = "chunk" /\ InHand(w)' /\ at'[w] = <<index, 1>>
      BY <1>3, <1>t DEF TypeOK, InHand
    <2>1. TypeOK'
      <3>1. at' \in [Workers -> Nat \X Nat] BY <1>3, <1>0, <1>t DEF TypeOK
      <3>2. /\ pc' \in [Workers -> {"top", "chunk", "await", "done"}]
            /\ fileState' \in [Files -> {"pending", "uploading", "completed", "failed"}]
        BY <1>3, <1>t DEF TypeOK
      <3> QED BY <3>1, <3>2, <1>3, <1>0, <1>u, <1>t, WorkerTypes DEF TypeOK
    <2>2. Quiet' BY <2>f, <1>0, <1>u, <1>t, QuietFrame
    <2>3. Positions'
      <3>1. Placed(w)' BY <2>f, <1>0, Shape DEF Placed
      <3> QED BY <3>1, <2>f, <1>0, <1>u, <1>t, PositionsFrame
    <2>4. Claimed'
      <3>1. \A f \in Files : f < index' => f < index \/ f = index BY <1>0, <1>t
      <3>2. \A f \in Files : f /= index => fileState'[f] = fileState[f]
        BY <1>3, <1>t DEF TypeOK
      <3>3. \A f \in Files : f < index' =>
             \/ f < index /\ ~(InHand(w) /\ at[w][1] = f)
             \/ fileState'[f] = "completed" \/ failure' \/ (InHand(w)' /\ at'[w][1] = f)
        <4>1. at'[w][1] = index BY <2>f, <1>0
        <4> QED BY <3>1, <2>f, <1>0, <4>1
      <3>4. \A f \in Files : fileState[f] = "completed" =>
             fileState'[f] = "completed" \/ failure' \/ (InHand(w)' /\ at'[w][1] = f)
        BY <3>2, <1>3
      <3> QED BY <3>3, <3>4, <2>f, <1>3, <1>0, <1>u, <1>t, ClaimedFrame
    <2>5. Backed' BY <1>3, <1>u, <1>t DEF Backed, TypeOK, server
    <2> QED BY <2>1, <2>2, <2>3, <2>4, <2>5 DEF IInv
  <1> QED BY <1>1, <1>2, <1>3 DEF TakeFile

\* A turn of the chunk loop: skipped, handed to a task, or abandoned.
LEMMA NextChunkIInv == ASSUME IInv, NEW w \in Workers, NextChunk(w) PROVE IInv'
  <1> DEFINE f == at[w][1]
             k == at[w][2]
             c == Content[f][k]
  <1>0. /\ f \in Files /\ f \in Nat /\ f < index /\ k \in 1..Len(Content[f]) /\ k \in Nat
        /\ c \in Chunks /\ at[w] = <<f, k>> /\ at[w] \in Entries
        /\ \A j \in 1..(k - 1) : <<f, j>> \in uploaded
        /\ pc[w] = "chunk" /\ InHand(w) /\ Len(Content[f]) \in Nat
    BY InFile, Shape DEF NextChunk, InHand
  <1>1. phase = "workers" /\ index \in Nat /\ \A g \in Files : g \in Nat
    BY <1>0, InLoop
  <1>u. UNCHANGED <<registry, objectStatus, uploadStatus, promise, aborted, bind,
                    binding, uploaded, attempt, phase, index, call, sentIn, server>>
    BY DEF NextChunk
  <1>t. /\ TypeOK /\ Quiet /\ Positions /\ Claimed /\ Backed
        /\ index \in 1..(Len(Content) + 1) /\ Len(Content) \in Nat
    BY Shape DEF IInv, TypeOK
  <1>2. CASE FileFails(w, f) /\ UNCHANGED <<tasks, at>>
    <2>0. /\ fileState' = [fileState EXCEPT ![f] = "failed"] /\ failure' = TRUE
          /\ pc' = [pc EXCEPT ![w] = "top"] /\ at' = at /\ tasks' = tasks
      BY <1>2 DEF FileFails
    <2>f. /\ \A v \in Workers \ {w} : pc'[v] = pc[v] /\ at'[v] = at[v]
          /\ pc'[w] = "top" /\ ~InHand(w)'
      BY <2>0, <1>t DEF TypeOK, InHand
    <2>1. TypeOK' BY <2>0, <1>u, <1>t, WorkerTypes DEF TypeOK
    <2>2. Quiet' BY <2>0, <2>f, <1>0, <1>1, <1>u, <1>t, QuietFrame
    <2>3. Positions' BY <2>f, <1>1, <1>u, <1>t, PositionsFrame
    <2>4. Claimed'
      <3>1. \A v \in Workers : pc'[v] = "done" => failure' BY <2>0
      <3> QED BY <3>1, <2>0, <1>1, <1>u DEF Claimed
    <2>5. Backed' BY <2>0, <1>u, <1>t DEF Backed, TypeOK, server
    <2> QED BY <2>1, <2>2, <2>3, <2>4, <2>5 DEF IInv
  <1>3. CASE /\ at[w] \in uploaded
             /\ at' = [at EXCEPT ![w] = <<f, k + 1>>]
             /\ UNCHANGED <<fileState, failure, tasks, pc>>
    <2>f. /\ \A v \in Workers \ {w} : pc'[v] = pc[v] /\ at'[v] = at[v]
          /\ pc'[w] = "chunk" /\ InHand(w)' /\ at'[w] = <<f, k + 1>> /\ at'[w][1] = f
      BY <1>3, <1>0, <1>t DEF TypeOK, InHand
    <2>1. TypeOK'
      <3>1. at' \in [Workers -> Nat \X Nat] BY <1>3, <1>0, <1>t DEF TypeOK
      <3> QED BY <3>1, <1>3, <1>0, <1>u, <1>t, WorkerTypes DEF TypeOK
    <2>2. Quiet' BY <2>f, <1>3, <1>0, <1>1, <1>u, <1>t, QuietFrame
    <2>3. Positions'
      <3>1. k + 1 \in 1..(Len(Content[f]) + 1) BY <1>0
      <3>2. \A j \in 1..((k + 1) - 1) : <<f, j>> \in uploaded'
        <4>1. \A j \in 1..((k + 1) - 1) : j \in 1..(k - 1) \/ j = k BY <1>0
        <4> QED BY <4>1, <1>0, <1>3, <1>u
      <3>3. at'[w][2] = k + 1 BY <2>f
      <3>4. Placed(w)' BY <3>1, <3>2, <3>3, <2>f, <1>0, <1>u DEF Placed
      <3> QED BY <3>4, <2>f, <1>1, <1>u, <1>t, PositionsFrame
    <2>4. Claimed'
      <3>1. \A g \in Files : g < index' =>
             \/ g < index /\ ~(InHand(w) /\ at[w][1] = g)
             \/ fileState'[g] = "completed" \/ failure' \/ (InHand(w)' /\ at'[w][1] = g)
        BY <2>f, <1>u
      <3>2. \A g \in Files : fileState[g] = "completed" => fileState'[g] = "completed"
        BY <1>3
      <3> QED BY <3>1, <3>2, <2>f, <1>3, <1>1, <1>u, <1>t, ClaimedFrame
    <2>5. Backed' BY <1>3, <1>u, <1>t DEF Backed, server
    <2> QED BY <2>1, <2>2, <2>3, <2>4, <2>5 DEF IInv
  <1>4. CASE /\ tasks' = [tasks EXCEPT ![c] = IF NeedsTask(c) THEN "lookup" ELSE @]
             /\ pc' = [pc EXCEPT ![w] = "await"]
             /\ UNCHANGED <<fileState, failure, at>>
    <2>f. /\ \A v \in Workers \ {w} : pc'[v] = pc[v] /\ at'[v] = at[v]
          /\ pc'[w] = "await" /\ InHand(w)' /\ at'[w] = at[w]
      BY <1>4, <1>t DEF TypeOK, InHand
    <2>t. \A d \in Chunks : tasks'[d] = tasks[d] \/ (d = c /\ tasks'[d] = "lookup")
      BY <1>4, <1>t DEF TypeOK
    <2>1. TypeOK'
      <3>1. /\ tasks' \in [Chunks -> TaskStates]
            /\ pc' \in [Workers -> {"top", "chunk", "await", "done"}]
        BY <1>4, <1>t DEF TypeOK, TaskStates
      <3> QED BY <3>1, <1>4, <1>u, <1>t, WorkerTypes DEF TypeOK
    <2>2. Quiet'
      <3>1. \A d \in Chunks : Pending(tasks'[d]) =>
              \/ Pending(tasks[d]) /\ (pc[w] = "await" => Content[at[w][1]][at[w][2]] /= d)
              \/ (pc'[w] = "await" /\ at'[w] \in Entries
                  /\ Content[at'[w][1]][at'[w][2]] = d)
        BY <2>t, <2>f, <1>0
      <3> QED BY <3>1, <2>f, <1>1, <1>u, <1>t, QuietFrame
    <2>3. Positions'
      <3>1. Placed(w)' BY <2>f, <1>0, <1>u DEF Placed
      <3> QED BY <3>1, <2>f, <1>1, <1>u, <1>t, PositionsFrame
    <2>4. Claimed'
      <3>1. \A g \in Files : g < index' =>
             \/ g < index /\ ~(InHand(w) /\ at[w][1] = g)
             \/ fileState'[g] = "completed" \/ failure' \/ (InHand(w)' /\ at'[w][1] = g)
        BY <2>f, <1>u
      <3>2. \A g \in Files : fileState[g] = "completed" => fileState'[g] = "completed"
        BY <1>4
      <3> QED BY <3>1, <3>2, <2>f, <1>4, <1>1, <1>u, <1>t, ClaimedFrame
    <2>5. Backed'
      <3>1. \A d \in Chunks : tasks'[d] = "ok" => tasks[d] = "ok" BY <2>t
      <3> QED BY <3>1, <1>4, <1>u, <1>t DEF Backed, server
    <2> QED BY <2>1, <2>2, <2>3, <2>4, <2>5 DEF IInv
  <1> QED BY <1>2, <1>3, <1>4 DEF NextChunk

\* A file is completed only with every chunk of it uploaded.
LEMMA FileDoneIInv == ASSUME IInv, NEW w \in Workers, FileDone(w) PROVE IInv'
  <1> DEFINE f == at[w][1]
             k == at[w][2]
  <1>0. /\ f \in Files /\ f \in Nat /\ f < index /\ k \in Nat /\ k = Len(Content[f]) + 1
        /\ \A j \in 1..Len(Content[f]) : <<f, j>> \in uploaded
        /\ pc[w] = "chunk" /\ InHand(w)
    BY InFile, Shape DEF FileDone, InHand
  <1>1. phase = "workers" /\ index \in Nat /\ \A g \in Files : g \in Nat
    BY <1>0, InLoop
  <1>u. /\ UNCHANGED <<registry, objectStatus, uploadStatus, promise, aborted, bind,
                       binding, uploaded, attempt, phase, index, call, sentIn, server>>
        /\ UNCHANGED <<failure, tasks, at>>
        /\ fileState' = [fileState EXCEPT ![f] = "completed"]
        /\ pc' = [pc EXCEPT ![w] = "top"]
    BY DEF FileDone
  <1>t. /\ TypeOK /\ Quiet /\ Positions /\ Claimed /\ Backed
        /\ index \in 1..(Len(Content) + 1) /\ Len(Content) \in Nat
    BY Shape DEF IInv, TypeOK
  <1>f. /\ \A v \in Workers \ {w} : pc'[v] = pc[v] /\ at'[v] = at[v]
        /\ pc'[w] = "top" /\ ~InHand(w)'
    BY <1>u, <1>t DEF TypeOK, InHand
  <1>2. TypeOK' BY <1>u, <1>t, WorkerTypes DEF TypeOK
  <1>3. Quiet' BY <1>u, <1>f, <1>0, <1>1, <1>t, QuietFrame
  <1>4. Positions' BY <1>f, <1>1, <1>u, <1>t, PositionsFrame
  <1>5. Claimed'
    <2>0. fileState'[f] = "completed" BY <1>0, <1>u, <1>t DEF TypeOK
    <2>1. \A g \in Files : g < index' =>
            \/ g < index /\ ~(InHand(w) /\ at[w][1] = g)
            \/ fileState'[g] = "completed" \/ failure' \/ (InHand(w)' /\ at'[w][1] = g)
      BY <2>0, <1>u
    <2>2. \A g \in Files : fileState[g] = "completed" => fileState'[g] = "completed"
      BY <1>u, <1>t DEF TypeOK
    <2> QED BY <2>1, <2>2, <1>f, <1>1, <1>u, <1>t, ClaimedFrame
  <1>6. Backed'
    <2>1. \A g \in Files : fileState'[g] = "completed" =>
            \A j \in 1..Len(Content[g]) : <<g, j>> \in uploaded
      BY <1>0, <1>u, <1>t DEF Backed, TypeOK
    <2> QED BY <2>1, <1>u, <1>t DEF Backed, server
  <1> QED BY <1>2, <1>3, <1>4, <1>5, <1>6 DEF IInv

\* A finished task: its chunk is stored, so the mark is backed.
LEMMA WorkerResumesIInv == ASSUME IInv, NEW w \in Workers, WorkerResumes(w) PROVE IInv'
  <1> DEFINE f == at[w][1]
             k == at[w][2]
             c == Content[f][k]
  <1>0. /\ f \in Files /\ f \in Nat /\ f < index /\ k \in 1..Len(Content[f]) /\ k \in Nat
        /\ c \in Chunks /\ at[w] = <<f, k>> /\ at[w] \in Entries
        /\ \A j \in 1..(k - 1) : <<f, j>> \in uploaded
        /\ pc[w] = "await" /\ InHand(w) /\ Len(Content[f]) \in Nat
    BY InFile, Shape DEF WorkerResumes, InHand
  <1>1. phase = "workers" /\ index \in Nat /\ \A g \in Files : g \in Nat
    BY <1>0, InLoop
  <1>u. UNCHANGED <<registry, objectStatus, uploadStatus, promise, aborted, bind,
                    binding, attempt, phase, index, tasks, call, sentIn, server>>
    BY DEF WorkerResumes
  <1>t. /\ TypeOK /\ Quiet /\ Positions /\ Claimed /\ Backed
        /\ index \in 1..(Len(Content) + 1) /\ Len(Content) \in Nat
    BY Shape DEF IInv, TypeOK
  <1>p. ~Pending(tasks[c]) BY DEF WorkerResumes, Pending
  <1>2. CASE tasks[c] = "err" /\ FileFails(w, f) /\ UNCHANGED <<uploaded, at>>
    <2>0. /\ fileState' = [fileState EXCEPT ![f] = "failed"] /\ failure' = TRUE
          /\ pc' = [pc EXCEPT ![w] = "top"] /\ at' = at /\ uploaded' = uploaded
      BY <1>2 DEF FileFails
    <2>f. /\ \A v \in Workers \ {w} : pc'[v] = pc[v] /\ at'[v] = at[v]
          /\ pc'[w] = "top" /\ ~InHand(w)'
      BY <2>0, <1>t DEF TypeOK, InHand
    <2>1. TypeOK' BY <2>0, <1>u, <1>t, WorkerTypes DEF TypeOK
    <2>2. Quiet'
      <3>1. \A d \in Chunks : Pending(tasks'[d]) =>
              Pending(tasks[d]) /\ (pc[w] = "await" => Content[at[w][1]][at[w][2]] /= d)
        BY <1>p, <1>u
      <3> QED BY <3>1, <2>f, <1>1, <1>u, <1>t, QuietFrame
    <2>3. Positions' BY <2>0, <2>f, <1>1, <1>u, <1>t, PositionsFrame
    <2>4. Claimed'
      <3>1. \A v \in Workers : pc'[v] = "done" => failure' BY <2>0
      <3> QED BY <3>1, <2>0, <1>1, <1>u DEF Claimed
    <2>5. Backed' BY <2>0, <1>u, <1>t DEF Backed, TypeOK, server
    <2> QED BY <2>1, <2>2, <2>3, <2>4, <2>5 DEF IInv
  <1>3. CASE /\ tasks[c] = "ok"
             /\ uploaded' = uploaded \cup {at[w]}
             /\ at' = [at EXCEPT ![w] = <<f, k + 1>>]
             /\ pc' = [pc EXCEPT ![w] = "chunk"]
             /\ UNCHANGED <<fileState, failure>>
    <2>f. /\ \A v \in Workers \ {w} : pc'[v] = pc[v] /\ at'[v] = at[v]
          /\ pc'[w] = "chunk" /\ InHand(w)' /\ at'[w] = <<f, k + 1>>
          /\ at'[w][1] = f /\ at'[w][2] = k + 1
      BY <1>3, <1>0, <1>t DEF TypeOK, InHand
    <2>1. TypeOK'
      <3>1. at' \in [Workers -> Nat \X Nat] BY <1>3, <1>0, <1>t DEF TypeOK
      <3>2. uploaded' \in SUBSET Entries BY <1>3, <1>0, <1>t DEF TypeOK
      <3>3. pc' \in [Workers -> {"top", "chunk", "await", "done"}] BY <1>3, <1>t DEF TypeOK
      <3> QED BY <3>1, <3>2, <3>3, <1>3, <1>u, <1>t, WorkerTypes DEF TypeOK
    <2>2. Quiet'
      <3>1. \A d \in Chunks : Pending(tasks'[d]) =>
              Pending(tasks[d]) /\ (pc[w] = "await" => Content[at[w][1]][at[w][2]] /= d)
        BY <1>p, <1>u
      <3> QED BY <3>1, <2>f, <1>1, <1>u, <1>t, QuietFrame
    <2>3. Positions'
      <3>1. k + 1 \in 1..(Len(Content[f]) + 1) BY <1>0
      <3>2. \A j \in 1..((k + 1) - 1) : <<f, j>> \in uploaded'
        <4>1. \A j \in 1..((k + 1) - 1) : j \in 1..(k - 1) \/ j = k BY <1>0
        <4> QED BY <4>1, <1>0, <1>3
      <3>3. Placed(w)' BY <3>1, <3>2, <2>f, <1>0, <1>u DEF Placed
      <3> QED BY <3>3, <2>f, <1>1, <1>3, <1>u, <1>t, PositionsFrame
    <2>4. Claimed'
      <3>1. \A g \in Files : g < index' =>
             \/ g < index /\ ~(InHand(w) /\ at[w][1] = g)
             \/ fileState'[g] = "completed" \/ failure' \/ (InHand(w)' /\ at'[w][1] = g)
        BY <2>f, <1>u
      <3>2. \A g \in Files : fileState[g] = "completed" => fileState'[g] = "completed"
        BY <1>3
      <3> QED BY <3>1, <3>2, <2>f, <1>3, <1>1, <1>u, <1>t, ClaimedFrame
    <2>5. Backed'
      <3>1. c \in stored BY <1>0, <1>3, <1>t DEF Backed
      <3>2. \A e \in uploaded' : Content[e[1]][e[2]] \in stored
        BY <3>1, <1>3, <1>t DEF Backed
      <3> QED BY <3>2, <1>3, <1>u, <1>t DEF Backed, server
    <2> QED BY <2>1, <2>2, <2>3, <2>4, <2>5 DEF IInv
  <1> QED BY <1>2, <1>3 DEF WorkerResumes, Marked

-----------------------------------------------------------------------------
(* The chunk tasks and the server.                                          *)

\* A pending task moves on; it is "ok" only over a stored chunk.
LEMMA TaskIInv ==
  ASSUME IInv, NEW c \in Chunks, NEW from, NEW to \in TaskStates,
         TaskSteps(c, from, to), Pending(from), to = "ok" => c \in stored,
         UNCHANGED server, sentIn' \in [Chunks -> [Attempts -> Nat]]
  PROVE  IInv'
  <1> USE DEF TaskSteps, session, server
  <1>0. \A d \in Chunks : tasks'[d] = IF d = c THEN to ELSE tasks[d]
    BY DEF IInv, TypeOK
  <1>1. TypeOK'
    <2>1. tasks' \in [Chunks -> TaskStates] BY DEF IInv, TypeOK
    <2> QED BY <2>1 DEF IInv, TypeOK
  <1>2. Quiet'
    <2>1. \A d \in Chunks : Pending(tasks'[d]) => Pending(tasks[d])
      BY <1>0
    <2>2. Pending(tasks[c]) OBVIOUS
    <2> QED BY <2>1, <2>2 DEF IInv, Quiet
  <1>3. Positions' BY DEF IInv, Positions, Placed, InHand
  <1>4. Claimed' BY DEF IInv, Claimed, InHand
  <1>5. Backed' BY <1>0 DEF IInv, Backed
  <1> QED BY <1>1, <1>2, <1>3, <1>4, <1>5 DEF IInv

\* Every step of a chunk's task.
LEMMA TaskStepIInv == ASSUME IInv, NEW c \in Chunks, TaskStep(c) PROVE IInv'
  <1>0. /\ {"lookup", "prepare", "send", "ok", "err"} \subseteq TaskStates
        /\ Pending("lookup") /\ Pending("prepare") /\ Pending("send")
        /\ sentIn \in [Chunks -> [Attempts -> Nat]]
    BY DEF TaskStates, Pending, IInv, TypeOK
  <1>1. CASE LookupFinds(c) BY <1>0, <1>1, TaskIInv DEF LookupFinds
  <1>2. CASE LookupMisses(c) BY <1>0, <1>2, TaskIInv DEF LookupMisses
  <1>3. CASE LookupAborted(c) BY <1>0, <1>3, TaskIInv DEF LookupAborted
  <1>4. CASE Prepared(c) BY <1>0, <1>4, TaskIInv DEF Prepared
  <1>5. CASE PrepareFails(c) BY <1>0, <1>5, TaskIInv DEF PrepareFails
  <1>6. CASE ServerStores(c)
    <2> USE <1>6 DEF ServerStores, session, engine, server
    <2>1. TypeOK' BY DEF IInv, TypeOK
    <2>2. Quiet' BY DEF IInv, Quiet
    <2>3. Positions' BY DEF IInv, Positions, Placed, InHand
    <2>4. Claimed' BY DEF IInv, Claimed, InHand
    <2>5. Backed' BY DEF IInv, Backed
    <2> QED BY <2>1, <2>2, <2>3, <2>4, <2>5 DEF IInv
  <1>7. CASE TusSucceeds(c)
    <2>1. sentIn' \in [Chunks -> [Attempts -> Nat]]
      <3>1. sentIn' = [sentIn EXCEPT ![c][attempt] = @ + 1] BY <1>7 DEF TusSucceeds
      <3>2. sentIn[c] \in [Attempts -> Nat] BY <1>0
      <3>3. \A n \in Nat : n + 1 \in Nat OBVIOUS
      <3>4. [sentIn[c] EXCEPT ![attempt] = sentIn[c][attempt] + 1] \in [Attempts -> Nat]
        BY <3>2, <3>3
      <3> QED BY <3>1, <3>4, <1>0
    <2> QED BY <2>1, <1>0, <1>7, TaskIInv DEF TusSucceeds
  <1>8. CASE TusFails(c) BY <1>0, <1>8, TaskIInv DEF TusFails
  <1> QED BY <1>1, <1>2, <1>3, <1>4, <1>5, <1>6, <1>7, <1>8 DEF TaskStep

-----------------------------------------------------------------------------
(* The tail of an attempt.                                                  *)

\* A throw out of doUpload ends the attempt with nothing left running.
LEMMA RejectsIInv ==
  ASSUME IInv, phase /= "off", Rejects, \A w \in Workers : pc[w] = "done",
         UNCHANGED <<registry, aborted, bind, uploaded, fileState, attempt, index,
                     failure, tasks, pc, at, call, sentIn, server>>
  PROVE  IInv'
  <1> USE DEF Rejects, server
  <1>1. TypeOK' BY DEF IInv, TypeOK
  <1>2. Quiet' BY DEF IInv, Quiet, Pending
  <1>3. Positions' BY DEF IInv, Positions, Placed, InHand
  <1>4. Claimed' BY DEF IInv, Claimed, InHand
  <1>5. Backed' BY DEF IInv, Backed
  <1> QED BY <1>1, <1>2, <1>3, <1>4, <1>5 DEF IInv

\* Past Promise.all without a failure, every file is completed.
LEMMA JoinedIInv == ASSUME IInv, WorkersJoined PROVE IInv'
  <1>0. /\ phase = "workers" /\ \A w \in Workers : pc[w] = "done"
        /\ UNCHANGED <<registry, aborted, bind, uploaded, fileState, attempt, index,
                       failure, tasks, pc, at, call, sentIn, server>>
    BY DEF WorkersJoined, Joined
  <1>1. CASE Rejects BY <1>0, <1>1, RejectsIInv
  <1>2. CASE /\ WorkersFine /\ objectStatus' = "finalizing" /\ phase' = "token"
             /\ UNCHANGED <<promise, uploadStatus, binding>>
    <2>0. \A f \in Files : fileState[f] = "completed"
      <3>1. index > Len(Content)
        BY <1>0, <1>2, Shape, ImportAssumption
           DEF IInv, Claimed, WorkersFine, TypeOK
      <3>2. \A f \in Files : f < index BY <3>1, Shape DEF IInv, TypeOK
      <3> QED BY <3>2, <1>0, <1>2 DEF IInv, Claimed, InHand, WorkersFine
    <2>1. TypeOK' BY <1>0, <1>2 DEF IInv, TypeOK, server
    <2>2. Quiet' BY <1>0, <1>2 DEF IInv, Quiet, Pending
    <2>3. Positions' BY <1>0, <1>2 DEF IInv, Positions, Placed, InHand
    <2>4. Claimed' BY <2>0, <1>0, <1>2 DEF Claimed
    <2>5. Backed' BY <1>0, <1>2 DEF IInv, Backed, server
    <2> QED BY <2>1, <2>2, <2>3, <2>4, <2>5 DEF IInv
  <1> QED BY <1>1, <1>2 DEF WorkersJoined

\* The finalize request, its answers, and the end of the promise.
LEMMA TailIInv == ASSUME IInv, TailStep PROVE IInv'
  <1>0. phase \in {"token", "finalize"} =>
          phase /= "off" /\ \A w \in Workers : pc[w] = "done"
    BY DEF IInv, Quiet
  <1>1. CASE WorkersJoined BY <1>1, JoinedIInv
  <1>2. CASE TokenReady
    <2> USE <1>2 DEF TokenReady, UnchangedByTail, server
    <2>1. TypeOK' BY DEF IInv, TypeOK
    <2>2. Quiet' BY DEF IInv, Quiet
    <2>3. Positions' BY DEF IInv, Positions, Placed, InHand
    <2>4. Claimed' BY DEF IInv, Claimed
    <2>5. Backed' BY DEF IInv, Backed
    <2> QED BY <2>1, <2>2, <2>3, <2>4, <2>5 DEF IInv
  <1>3. CASE TokenFails BY <1>0, <1>3, RejectsIInv DEF TokenFails, UnchangedByTail
  <1>4. CASE ServerFinalizes
    <2> USE <1>4 DEF ServerFinalizes, session, engine
    <2>1. TypeOK' BY DEF IInv, TypeOK
    <2>2. Quiet' BY DEF IInv, Quiet
    <2>3. Positions' BY DEF IInv, Positions, Placed, InHand
    <2>4. Claimed' BY DEF IInv, Claimed
    <2>5. Backed' BY DEF IInv, Backed
    <2> QED BY <2>1, <2>2, <2>3, <2>4, <2>5 DEF IInv
  <1>5. ASSUME NEW b \in BOOLEAN, FinalizeConfirms(b) PROVE IInv'
    <2>1. CASE Rejects
      BY <1>0, <1>5, <2>1, RejectsIInv DEF FinalizeConfirms, UnchangedByTail
    <2>2. CASE ~Rejects
      <3> USE <1>5, <2>2 DEF FinalizeConfirms, UnchangedByTail, server
      <3>1. TypeOK' BY DEF IInv, TypeOK
      <3>2. Quiet' BY <1>0 DEF IInv, Quiet
      <3>3. Positions' BY DEF IInv, Positions, Placed, InHand
      <3>4. Claimed' BY DEF IInv, Claimed
      <3>5. Backed' BY DEF IInv, Backed, ResponseDropped, RootsConfirmed, TypeOK
      <3> QED BY <3>1, <3>2, <3>3, <3>4, <3>5 DEF IInv
    <2> QED BY <2>1, <2>2
  <1>6. CASE FinalizeFails BY <1>0, <1>6, RejectsIInv DEF FinalizeFails, UnchangedByTail
  <1>7. CASE FinalizeAborted BY <1>0, <1>7, RejectsIInv DEF FinalizeAborted, UnchangedByTail
  <1>8. CASE PromiseCleared
    <2> USE <1>8 DEF PromiseCleared, engine, server
    <2>1. TypeOK'
      <3>1. call' \in [Callers -> {"none", "waiting", "woken", "resolved", "rejected"}]
        BY DEF IInv, TypeOK, Woken
      <3> QED BY <3>1 DEF IInv, TypeOK
    <2>2. Quiet' BY DEF IInv, Quiet
    <2>3. Positions' BY DEF IInv, Positions, Placed, InHand
    <2>4. Claimed' BY DEF IInv, Claimed, InHand
    <2>5. Backed' BY DEF IInv, Backed
    <2> QED BY <2>1, <2>2, <2>3, <2>4, <2>5 DEF IInv
  <1> QED BY <1>1, <1>2, <1>3, <1>4, <1>5, <1>6, <1>7, <1>8 DEF TailStep

\* The public operations.
LEMMA PublicIInv == ASSUME IInv, PublicOperation PROVE IInv'
  <1>0. call \in [Callers -> {"none", "waiting", "woken", "resolved", "rejected"}]
    BY DEF IInv, TypeOK
  <1>1. ASSUME NEW b \in BOOLEAN, StartUpload(b) PROVE IInv'
    BY <1>0, <1>1, BeginIInv DEF StartUpload
  <1>2. CASE StartBindRejected BY <1>2, BindRejectedIInv
  <1>3. ASSUME NEW e \in Callers, EnsureUploaded(e) PROVE IInv'
    <2>1. call' \in [Callers -> {"none", "waiting", "woken", "resolved", "rejected"}]
      BY <1>0, <1>3 DEF EnsureUploaded
    <2>2. CASE MayStart /\ BeginAttempt(FALSE) BY <2>1, <2>2, BeginIInv
    <2>3. CASE UNCHANGED <<session, engine, sentIn, server>> BY <2>1, <2>3, CallsIInv
    <2> QED BY <2>2, <2>3, <1>3 DEF EnsureUploaded
  <1>4. ASSUME NEW r \in BOOLEAN, Cancel(r) PROVE IInv'
    <2>1. registry' \in {"none", "single", "several"} BY <1>4 DEF Cancel, IInv, TypeOK
    <2> QED BY <1>4, <2>1, AbortIInv DEF Cancel
  <1>5. CASE SignalAborts
    <2>1. registry' \in {"none", "single", "several"} BY <1>5 DEF SignalAborts, IInv, TypeOK
    <2> QED BY <1>5, <2>1, AbortIInv DEF SignalAborts
  <1> QED BY <1>1, <1>2, <1>3, <1>4, <1>5
          DEF PublicOperation, CancelImportSession, ReleaseImportSession

\* Every step of the specification preserves the invariant.
LEMMA NextIInv == IInv /\ [Next]_vars => IInv'
  <1> SUFFICES ASSUME IInv, [Next]_vars PROVE IInv' OBVIOUS
  <1>1. CASE PublicOperation BY <1>1, PublicIInv
  <1>2. ASSUME NEW w \in Workers, WorkerStep(w) PROVE IInv'
    BY <1>2, WorkerEndsIInv, TakeFileIInv, NextChunkIInv, FileDoneIInv, WorkerResumesIInv
       DEF WorkerStep
  <1>3. ASSUME NEW c \in Chunks, TaskStep(c) PROVE IInv' BY <1>3, TaskStepIInv
  <1>4. CASE TailStep BY <1>4, TailIInv
  <1>5. ASSUME NEW e \in Callers, EnsureReturns(e) PROVE IInv'
    <2>1. call' \in [Callers -> {"none", "waiting", "woken", "resolved", "rejected"}]
      BY <1>5 DEF EnsureReturns, IInv, TypeOK
    <2> QED BY <2>1, <1>5, CallsIInv DEF EnsureReturns
  <1>6. CASE UNCHANGED vars BY <1>6, StutterIInv
  <1> QED BY <1>1, <1>2, <1>3, <1>4, <1>5, <1>6 DEF Next

\* The invariant of the session, its workers and the server.
THEOREM InductiveInvariant == Spec => []IInv
  BY InitIInv, NextIInv, PTL DEF Spec

-----------------------------------------------------------------------------
(* What follows for the properties the runs check.                          *)

\* Every variable keeps its type: all statuses are those of the public types.
THEOREM TypeCorrect == Spec => []TypeOK
  <1>1. IInv => TypeOK BY DEF IInv
  <1> QED BY <1>1, InductiveInvariant, PTL

\* finalize is only requested over complete files, each chunk of which is
\* uploaded and stored, for every import and any number of workers.
THEOREM FinalizeIsSafe == Spec => []FinalizeAfterChunks
  <1>1. ASSUME IInv PROVE FinalizeAfterChunks
    <2> SUFFICES ASSUME phase \in {"token", "finalize"}
                 PROVE  /\ \A f \in Files : fileState[f] = "completed"
                        /\ uploaded = Entries
                        /\ \A e \in Entries : Content[e[1]][e[2]] \in stored
      BY DEF FinalizeAfterChunks
    <2>1. \A f \in Files : fileState[f] = "completed" BY <1>1 DEF IInv, Claimed
    <2>2. \A e \in Entries : e \in uploaded
      <3> TAKE e \in Entries
      <3>1. e[1] \in Files /\ e[2] \in 1..Len(Content[e[1]]) /\ e = <<e[1], e[2]>>
        BY EntryParts
      <3> QED BY <3>1, <2>1, <1>1 DEF IInv, Backed
    <2>3. uploaded = Entries BY <2>2, <1>1 DEF IInv, TypeOK
    <2> QED BY <2>1, <2>3, <1>1 DEF IInv, Backed
  <1> QED BY <1>1, InductiveInvariant, PTL

\* A ready session was registered by the server, over stored chunks, and bound
\* if that was asked.
THEOREM ReadyIsBacked == Spec => []ReadyMeansRegistered
  <1>1. IInv => ReadyMeansRegistered BY DEF IInv, Backed, ReadyMeansRegistered
  <1> QED BY <1>1, InductiveInvariant, PTL

\* An attempt whose promise is settled has left nothing running.
THEOREM SettledIsQuiet == Spec => []SettledMeansQuiet
  <1>1. ASSUME IInv PROVE SettledMeansQuiet
    <2> SUFFICES ASSUME promise /= "running"
                 PROVE  /\ phase = "off" /\ \A w \in Workers : pc[w] = "done"
                        /\ \A c \in Chunks : ~Pending(tasks[c])
      BY DEF SettledMeansQuiet
    <2>1. phase = "off" /\ \A w \in Workers : pc[w] = "done" BY <1>1 DEF IInv, Quiet
    <2>2. \A c \in Chunks : ~Pending(tasks[c]) BY <2>1, <1>1 DEF IInv, Quiet
    <2> QED BY <2>1, <2>2
  <1> QED BY <1>1, InductiveInvariant, PTL

-----------------------------------------------------------------------------
(* A chunk is sent at most once in an attempt: sending ends its one task,   *)
(* and no attempt that has not begun has sent anything.                     *)

Unsent(t) == t \in {"none", "lookup", "prepare", "send"}

SentOnce ==
  \A c \in Chunks :
    /\ \A a \in Attempts : sentIn[c][a] <= 1 /\ (a > attempt => sentIn[c][a] = 0)
    /\ Unsent(tasks[c]) => \A a \in Attempts : a = attempt => sentIn[c][a] = 0

\* No task that has ended goes back to one that may send.
LEMMA SameAttempt ==
  ASSUME SentOnce, UNCHANGED <<attempt, sentIn>>,
         \A c \in Chunks : Unsent(tasks'[c]) => Unsent(tasks[c])
  PROVE  SentOnce'
  BY DEF SentOnce

\* A new attempt has sent nothing, whatever the tasks of the last one left.
LEMMA NewAttempt ==
  ASSUME TypeOK, SentOnce, attempt' = attempt + 1, UNCHANGED sentIn
  PROVE  SentOnce'
  <1>1. attempt \in Nat /\ \A a \in Attempts : a \in Nat
    BY ImportAssumption DEF TypeOK, Attempts
  <1> QED BY <1>1 DEF SentOnce

\* The steps of a chunk's task: only TUS's success sends, once.
LEMMA TaskSentOnce ==
  ASSUME TypeOK, SentOnce, NEW c \in Chunks, TaskStep(c)
  PROVE  SentOnce'
  <1>0. tasks \in [Chunks -> TaskStates] /\ attempt \in 0..MaxAttempts
        /\ sentIn \in [Chunks -> [Attempts -> Nat]]
    BY DEF TypeOK
  <1>1. CASE ServerStores(c) BY <1>1, SameAttempt DEF ServerStores, session, engine
  <1>2. CASE TusSucceeds(c)
    <2>1. /\ tasks[c] = "send" /\ tasks' = [tasks EXCEPT ![c] = "ok"]
          /\ attempt' = attempt
          /\ sentIn' = [sentIn EXCEPT ![c][attempt] = @ + 1]
      BY <1>2 DEF TusSucceeds, TaskSteps, session
    <2>2. ~Unsent(tasks'[c]) BY <1>0, <2>1 DEF Unsent
    <2>3. ASSUME NEW a \in Attempts
          PROVE  sentIn'[c][a] <= 1 /\ (a > attempt' => sentIn'[c][a] = 0)
      <3>1. CASE a = attempt
        <4>1. sentIn[c][a] = 0 BY <2>1, <3>1 DEF SentOnce, Unsent
        <4>2. sentIn'[c][a] = 1 BY <1>0, <2>1, <3>1, <4>1
        <4>3. ~(a > attempt') BY <3>1, <2>1, <1>0, ImportAssumption
        <4> QED BY <4>2, <4>3
      <3>2. CASE a /= attempt
        <4>1. sentIn'[c][a] = sentIn[c][a] BY <1>0, <2>1, <3>2
        <4> QED BY <4>1, <2>1 DEF SentOnce
      <3> QED BY <3>1, <3>2
    <2>4. ASSUME NEW d \in Chunks, d /= c
          PROVE  sentIn'[d] = sentIn[d] /\ tasks'[d] = tasks[d]
      BY <1>0, <2>1, <2>4
    <2> QED BY <2>1, <2>2, <2>3, <2>4 DEF SentOnce
  <1>3. ASSUME NEW from \in {"lookup", "prepare", "send"},
               NEW to \in {"ok", "err", "prepare", "send"},
               TaskSteps(c, from, to), UNCHANGED sentIn
        PROVE  SentOnce'
    <2>1. \A d \in Chunks : Unsent(tasks'[d]) => Unsent(tasks[d])
      BY <1>0, <1>3 DEF TaskSteps, Unsent
    <2> QED BY <1>3, <2>1, SameAttempt DEF TaskSteps, session
  <1> QED
    BY <1>1, <1>2, <1>3
       DEF TaskStep, LookupFinds, LookupMisses, LookupAborted, Prepared,
           PrepareFails, TusFails

\* Every step keeps it, given the types.
LEMMA StepSentOnce ==
  ASSUME TypeOK, SentOnce, [Next]_vars
  PROVE  SentOnce'
  <1>0. tasks \in [Chunks -> TaskStates] BY DEF TypeOK
  <1>1. CASE PublicOperation
    <2>1. ASSUME NEW b \in BOOLEAN, StartUpload(b) PROVE SentOnce'
      BY <2>1, NewAttempt DEF StartUpload, BeginAttempt
    <2>2. CASE StartBindRejected BY <2>2, NewAttempt DEF StartBindRejected
    <2>3. ASSUME NEW e \in Callers, EnsureUploaded(e) PROVE SentOnce'
      <3>1. CASE BeginAttempt(FALSE) BY <3>1, NewAttempt DEF BeginAttempt
      <3>2. CASE UNCHANGED <<session, engine, sentIn, server>>
        BY <3>2, SameAttempt DEF session, engine
      <3> QED BY <2>3, <3>1, <3>2 DEF EnsureUploaded
    <2>4. ASSUME \A c \in Chunks : Unsent(tasks'[c]) => Unsent(tasks[c]),
                 UNCHANGED <<attempt, sentIn>>
          PROVE  SentOnce'
      BY <2>4, SameAttempt
    <2>5. Abort => \A c \in Chunks : Unsent(tasks'[c]) => Unsent(tasks[c])
      BY <1>0 DEF Abort, TasksAborted, Unsent
    <2>6. CASE CancelImportSession \/ ReleaseImportSession
      <3>1. UNCHANGED <<attempt, sentIn>> /\ (Abort \/ UNCHANGED tasks)
        BY <2>6 DEF CancelImportSession, ReleaseImportSession, Cancel
      <3> QED BY <3>1, <2>4, <2>5
    <2>7. CASE SignalAborts BY <2>7, <2>4, <2>5 DEF SignalAborts
    <2> QED BY <1>1, <2>1, <2>2, <2>3, <2>6, <2>7 DEF PublicOperation
  <1>2. ASSUME NEW w \in Workers, WorkerStep(w) PROVE SentOnce'
    <2>1. CASE NextChunk(w)
      <3>1. UNCHANGED <<attempt, sentIn>> BY <2>1 DEF NextChunk
      <3>2. \A c \in Chunks : Unsent(tasks'[c]) => Unsent(tasks[c])
        BY <1>0, <2>1 DEF NextChunk, NeedsTask, Unsent
      <3> QED BY <3>1, <3>2, SameAttempt
    <2>2. CASE ~NextChunk(w)
      <3>1. UNCHANGED <<attempt, sentIn, tasks>>
        BY <1>2, <2>2 DEF WorkerStep, WorkerEnds, TakeFile, FileDone, WorkerResumes, session
      <3> QED BY <3>1, SameAttempt
    <2> QED BY <2>1, <2>2
  <1>3. ASSUME NEW c \in Chunks, TaskStep(c) PROVE SentOnce' BY <1>3, TaskSentOnce
  <1>4. CASE TailStep
    <2>1. UNCHANGED <<attempt, sentIn, tasks>>
      BY <1>4 DEF TailStep, WorkersJoined, TokenReady, TokenFails, ServerFinalizes,
           FinalizeConfirms, FinalizeFails, FinalizeAborted, PromiseCleared,
           UnchangedByTail, session, engine
    <2> QED BY <2>1, SameAttempt
  <1>5. ASSUME NEW e \in Callers, EnsureReturns(e) PROVE SentOnce'
    BY <1>5, SameAttempt DEF EnsureReturns, session, engine
  <1>6. CASE UNCHANGED vars BY <1>6, SameAttempt DEF vars, session, engine
  <1> QED BY <1>1, <1>2, <1>3, <1>4, <1>5, <1>6 DEF Next

\* Within one attempt a chunk is transmitted at most once, however many files
\* and workers share it.
THEOREM SentOnceInAttempt == Spec => []OnceInAttempt
  <1>1. Init => SentOnce
    BY DEF Init, SentOnce
  <1>2. SentOnce => OnceInAttempt BY DEF SentOnce, OnceInAttempt
  <1> QED BY <1>1, <1>2, StepSentOnce, TypeCorrect, PTL DEF Spec

-----------------------------------------------------------------------------
(* A retry reuses what was uploaded.  `index` hands each file to one worker  *)
(* only, so the entry a worker awaits is marked by that worker alone: as     *)
(* long as a chunk has a task that may send, one of its entries is unmarked. *)

OwnFiles ==
  /\ \A v, w \in Workers : InHand(v) /\ InHand(w) /\ at[v][1] = at[w][1] => v = w
  /\ \A w \in Workers : pc[w] = "await" => at[w] \notin uploaded

\* A step that moves no worker and marks nothing.
LEMMA SameFiles ==
  ASSUME OwnFiles, UNCHANGED <<pc, at, uploaded>>
  PROVE  OwnFiles'
  BY DEF OwnFiles, InHand

\* A new attempt starts with no file in any worker's hands.
LEMMA NewFiles ==
  ASSUME NEW b \in BOOLEAN, BeginAttempt(b)
  PROVE  OwnFiles'
  BY DEF OwnFiles, InHand, BeginAttempt

\* A step of one worker: its file stays its own, its mark is nobody else's.
LEMMA OwnFilesFrame ==
  ASSUME OwnFiles, NEW w \in Workers,
         \A v \in Workers \ {w} : pc'[v] = pc[v] /\ at'[v] = at[v],
         InHand(w)' =>
           \A v \in Workers \ {w} : InHand(v) => at[v][1] /= at'[w][1],
         pc'[w] = "await" => at'[w] \notin uploaded',
         \A v \in Workers \ {w} : pc[v] = "await" /\ at[v] \in uploaded' => at[v] \in uploaded
  PROVE  OwnFiles'
  <1>1. ASSUME NEW v \in Workers, NEW x \in Workers,
               InHand(v)', InHand(x)', at'[v][1] = at'[x][1]
        PROVE  v = x
    <2>1. \A y \in Workers \ {w} : InHand(y)' <=> InHand(y) BY DEF InHand
    <2>2. CASE v = w BY <2>1, <2>2, <1>1
    <2>3. CASE x = w BY <2>1, <2>3, <1>1
    <2>4. CASE v /= w /\ x /= w BY <2>1, <2>4, <1>1 DEF OwnFiles
    <2> QED BY <2>2, <2>3, <2>4
  <1>2. ASSUME NEW v \in Workers, pc'[v] = "await" PROVE at'[v] \notin uploaded'
    <2>1. CASE v = w BY <2>1, <1>2
    <2>2. CASE v /= w BY <2>2, <1>2 DEF OwnFiles
    <2> QED BY <2>1, <2>2
  <1> QED BY <1>1, <1>2 DEF OwnFiles

\* The workers' steps: a file is taken from `index`, past every one in hand.
LEMMA WorkerOwnFiles ==
  ASSUME IInv, OwnFiles, NEW w \in Workers, WorkerStep(w)
  PROVE  OwnFiles'
  <1>0. pc \in [Workers -> {"top", "chunk", "await", "done"}]
        /\ at \in [Workers -> Nat \X Nat]
    BY DEF IInv, TypeOK
  <1>1. CASE WorkerEnds(w)
    <2>1. /\ \A v \in Workers \ {w} : pc'[v] = pc[v] /\ at'[v] = at[v]
          /\ pc'[w] = "done" /\ ~InHand(w)' /\ uploaded' = uploaded
      BY <1>0, <1>1 DEF WorkerEnds, session, InHand
    <2> QED BY <2>1, OwnFilesFrame
  <1>2. CASE TakeFile(w)
    <2>0. uploaded' = uploaded /\ pc[w] = "top" BY <1>2 DEF TakeFile
    <2>1. CASE FileFails(w, index) /\ UNCHANGED at
      <3>1. /\ \A v \in Workers \ {w} : pc'[v] = pc[v] /\ at'[v] = at[v]
            /\ pc'[w] = "top" /\ ~InHand(w)'
        BY <1>0, <2>1 DEF FileFails, InHand
      <3> QED BY <3>1, <2>0, OwnFilesFrame
    <2>2. CASE UNCHANGED <<fileState, failure, pc, at>> BY <2>0, <2>2, SameFiles
    <2>3. CASE pc' = [pc EXCEPT ![w] = "chunk"] /\ at' = [at EXCEPT ![w] = <<index, 1>>]
      <3>1. /\ \A v \in Workers \ {w} : pc'[v] = pc[v] /\ at'[v] = at[v]
            /\ pc'[w] = "chunk" /\ at'[w][1] = index
        BY <1>0, <2>3
      <3>2. index \in Nat /\ \A f \in Files : f \in Nat BY Shape DEF IInv, TypeOK
      <3>3. \A v \in Workers : InHand(v) => at[v][1] \in Files /\ at[v][1] < index
        BY DEF IInv, Positions, Placed
      <3>4. \A v \in Workers : InHand(v) => at[v][1] /= index BY <3>2, <3>3
      <3> QED BY <3>1, <3>4, <2>0, OwnFilesFrame
    <2> QED BY <1>2, <2>1, <2>2, <2>3 DEF TakeFile
  <1>3. CASE NextChunk(w)
    <2>0. uploaded' = uploaded /\ pc[w] = "chunk" /\ InHand(w) BY <1>3 DEF NextChunk, InHand
    <2>1. CASE FileFails(w, at[w][1]) /\ UNCHANGED at
      <3>1. /\ \A v \in Workers \ {w} : pc'[v] = pc[v] /\ at'[v] = at[v]
            /\ pc'[w] = "top" /\ ~InHand(w)'
        BY <1>0, <2>1 DEF FileFails, InHand
      <3> QED BY <3>1, <2>0, OwnFilesFrame
    <2>2. CASE at' = [at EXCEPT ![w] = <<at[w][1], at[w][2] + 1>>] /\ UNCHANGED pc
      <3>1. /\ \A v \in Workers \ {w} : pc'[v] = pc[v] /\ at'[v] = at[v]
            /\ pc'[w] = "chunk" /\ at'[w][1] = at[w][1]
        BY <1>0, <2>0, <2>2
      <3> QED BY <3>1, <2>0, OwnFilesFrame DEF OwnFiles
    <2>3. CASE pc' = [pc EXCEPT ![w] = "await"] /\ at[w] \notin uploaded /\ UNCHANGED at
      <3>1. /\ \A v \in Workers \ {w} : pc'[v] = pc[v] /\ at'[v] = at[v]
            /\ at'[w] = at[w]
        BY <1>0, <2>3
      <3> QED BY <3>1, <2>0, <2>3, OwnFilesFrame DEF OwnFiles
    <2> QED BY <1>3, <2>1, <2>2, <2>3 DEF NextChunk
  <1>4. CASE FileDone(w)
    <2>1. /\ \A v \in Workers \ {w} : pc'[v] = pc[v] /\ at'[v] = at[v]
          /\ pc'[w] = "top" /\ ~InHand(w)' /\ uploaded' = uploaded
      BY <1>0, <1>4 DEF FileDone, InHand
    <2> QED BY <2>1, OwnFilesFrame
  <1>5. CASE WorkerResumes(w)
    <2>0. pc[w] = "await" /\ InHand(w) BY <1>5 DEF WorkerResumes, InHand
    <2>1. CASE FileFails(w, at[w][1]) /\ UNCHANGED <<uploaded, at>>
      <3>1. /\ \A v \in Workers \ {w} : pc'[v] = pc[v] /\ at'[v] = at[v]
            /\ pc'[w] = "top" /\ ~InHand(w)' /\ uploaded' = uploaded
        BY <1>0, <2>1 DEF FileFails, InHand
      <3> QED BY <3>1, OwnFilesFrame
    <2>2. CASE /\ uploaded' = uploaded \cup {at[w]}
               /\ at' = [at EXCEPT ![w] = <<at[w][1], at[w][2] + 1>>]
               /\ pc' = [pc EXCEPT ![w] = "chunk"]
      <3>1. /\ \A v \in Workers \ {w} : pc'[v] = pc[v] /\ at'[v] = at[v]
            /\ pc'[w] = "chunk" /\ at'[w][1] = at[w][1]
        BY <1>0, <2>2
      <3>2. \A v \in Workers \ {w} : InHand(v) => at[v][1] /= at[w][1]
        BY <2>0 DEF OwnFiles
      <3>3. \A v \in Workers \ {w} :
              pc[v] = "await" /\ at[v] \in uploaded' => at[v] \in uploaded
        BY <2>2, <3>2 DEF InHand
      <3> QED BY <3>1, <3>2, <3>3, OwnFilesFrame
    <2> QED BY <1>5, <2>1, <2>2 DEF WorkerResumes, Marked
  <1> QED BY <1>1, <1>2, <1>3, <1>4, <1>5 DEF WorkerStep

\* Every other step leaves the workers and the marks alone, or starts afresh.
LEMMA StepOwnFiles ==
  ASSUME IInv, OwnFiles, [Next]_vars
  PROVE  OwnFiles'
  <1>1. CASE PublicOperation
    <2>1. ASSUME NEW b \in BOOLEAN, BeginAttempt(b) PROVE OwnFiles' BY <2>1, NewFiles
    <2>2. (\E b \in BOOLEAN : BeginAttempt(b)) \/ UNCHANGED <<pc, at, uploaded>>
      BY <1>1 DEF PublicOperation, StartUpload, StartBindRejected, EnsureUploaded,
           CancelImportSession, ReleaseImportSession, Cancel, SignalAborts, session, engine
    <2> QED BY <2>1, <2>2, SameFiles
  <1>2. ASSUME NEW w \in Workers, WorkerStep(w) PROVE OwnFiles' BY <1>2, WorkerOwnFiles
  <1>3. ASSUME NEW c \in Chunks, TaskStep(c) PROVE UNCHANGED <<pc, at, uploaded>>
    BY <1>3 DEF TaskStep, TaskSteps, LookupFinds, LookupMisses, LookupAborted, Prepared,
         PrepareFails, ServerStores, TusSucceeds, TusFails, session, engine
  <1>4. CASE TailStep
    <2>1. UNCHANGED <<pc, at, uploaded>>
      BY <1>4 DEF TailStep, WorkersJoined, TokenReady, TokenFails, ServerFinalizes,
           FinalizeConfirms, FinalizeFails, FinalizeAborted, PromiseCleared,
           UnchangedByTail, session, engine
    <2> QED BY <2>1, SameFiles
  <1>5. ASSUME NEW e \in Callers, EnsureReturns(e) PROVE UNCHANGED <<pc, at, uploaded>>
    BY <1>5 DEF EnsureReturns, session, engine
  <1>6. CASE UNCHANGED vars BY <1>6, SameFiles DEF vars, session, engine
  <1> QED BY <1>1, <1>2, <1>3, <1>4, <1>5, <1>6, SameFiles DEF Next

\* Only TUS's success for a chunk changes what was sent, and only of that chunk.
LEMMA OnlyTusSends ==
  ASSUME TypeOK, [Next]_vars, NEW c \in Chunks
  PROVE  tasks[c] = "send" \/ UNCHANGED sentIn[c]
  <1>1. CASE PublicOperation
    BY <1>1 DEF PublicOperation, StartUpload, StartBindRejected, EnsureUploaded,
         BeginAttempt, CancelImportSession, ReleaseImportSession, Cancel, SignalAborts
  <1>2. ASSUME NEW w \in Workers, WorkerStep(w) PROVE UNCHANGED sentIn
    BY <1>2 DEF WorkerStep, WorkerEnds, TakeFile, NextChunk, FileDone, WorkerResumes
  <1>3. ASSUME NEW d \in Chunks, TaskStep(d)
        PROVE  tasks[c] = "send" \/ UNCHANGED sentIn[c]
    <2>1. CASE TusSucceeds(d)
      <3>1. sentIn \in [Chunks -> [Attempts -> Nat]] BY DEF TypeOK
      <3> QED BY <2>1, <3>1 DEF TusSucceeds, TaskSteps
    <2>2. CASE ~TusSucceeds(d)
      BY <1>3, <2>2 DEF TaskStep, LookupFinds, LookupMisses, LookupAborted, Prepared,
           PrepareFails, ServerStores, TusFails
    <2> QED BY <2>1, <2>2
  <1>4. CASE TailStep
    BY <1>4 DEF TailStep, WorkersJoined, TokenReady, TokenFails, ServerFinalizes,
         FinalizeConfirms, FinalizeFails, FinalizeAborted, PromiseCleared, UnchangedByTail
  <1>5. ASSUME NEW e \in Callers, EnsureReturns(e) PROVE UNCHANGED sentIn
    BY <1>5 DEF EnsureReturns
  <1>6. CASE UNCHANGED vars BY <1>6 DEF vars
  <1> QED BY <1>1, <1>2, <1>3, <1>4, <1>5, <1>6 DEF Next

\* No step takes a mark away.
LEMMA MarksStay == ASSUME [Next]_vars PROVE uploaded \subseteq uploaded'
  BY DEF Next, PublicOperation, StartUpload, StartBindRejected, EnsureUploaded,
       BeginAttempt, ChunksKept, CancelImportSession, ReleaseImportSession, Cancel,
       SignalAborts, WorkerStep, WorkerEnds, TakeFile, NextChunk, FileDone, WorkerResumes,
       TaskStep, TaskSteps, LookupFinds, LookupMisses, LookupAborted, Prepared,
       PrepareFails, ServerStores, TusSucceeds, TusFails, TailStep, WorkersJoined,
       TokenReady, TokenFails, ServerFinalizes, FinalizeConfirms, FinalizeFails,
       FinalizeAborted, PromiseCleared, UnchangedByTail, EnsureReturns, vars, session, engine

\* No failure, cancellation or retry forgets an uploaded entry, and a chunk
\* whose entries are all uploaded is never transmitted again.
THEOREM RetriesReuse == Spec => RetryReusesChunks
  <1>1. Init => OwnFiles BY DEF Init, OwnFiles, InHand
  <1>2. Spec => []OwnFiles BY <1>1, StepOwnFiles, InductiveInvariant, PTL DEF Spec
  <1>3. ASSUME IInv, OwnFiles, [Next]_vars
        PROVE  /\ uploaded \subseteq uploaded'
               /\ \A c \in Chunks :
                    (\A e \in Entries : Content[e[1]][e[2]] = c => e \in uploaded)
                      => UNCHANGED sentIn[c]
    <2>1. ASSUME NEW c \in Chunks, tasks[c] = "send",
                 \A e \in Entries : Content[e[1]][e[2]] = c => e \in uploaded
          PROVE  FALSE
      <3>1. PICK w \in Workers : /\ pc[w] = "await" /\ at[w] \in Entries
                                 /\ Content[at[w][1]][at[w][2]] = c
        BY <1>3, <2>1 DEF IInv, Quiet, Pending
      <3> QED BY <3>1, <2>1, <1>3 DEF OwnFiles
    <2> QED BY <2>1, <1>3, OnlyTusSends, MarksStay DEF IInv
  <1> QED BY <1>2, <1>3, InductiveInvariant, PTL DEF Spec, RetryReusesChunks

-----------------------------------------------------------------------------
(* The session implements its contract.  What the mapping needs of a state:  *)
(* how far the published status can be from the attempt that is running, and *)
(* that a call whose wait ended well finds the session still ready.          *)

Outcomes ==
  /\ promise = "running" => objectStatus \in {"pending", "finalizing", "cancelled"}
  /\ promise = "running" /\ objectStatus = "cancelled" => aborted
  /\ promise = "settled" => objectStatus \in {"ready", "failed", "cancelled"}
  /\ promise /= "none" => attempt > 0
  /\ \A e \in Callers : call[e] = "woken" => objectStatus = "ready" /\ promise = "none"

\* The mapping, variable by variable.
Outcome == IF objectStatus = "finalizing" THEN "pending" ELSE objectStatus
Running == promise /= "none"
AnswerTo(e) ==
  CASE call[e] = "none" -> "none"
    [] call[e] \in {"waiting", "woken"} -> "open"
    [] call[e] = "resolved" -> "ok"
    [] call[e] = "rejected" -> "error"
Answers == [e \in Callers |-> AnswerTo(e)]

\* Nothing the contract or Outcomes speaks of changes.
Unseen == UNCHANGED <<promise, objectStatus, call, finalized, attempt>>
            /\ (aborted => aborted')

\* Steps the contract does not see.
LEMMA UnseenSteps ==
  ASSUME TypeOK
  PROVE  /\ \A w \in Workers : WorkerStep(w) => Unseen
         /\ \A c \in Chunks : TaskStep(c) => Unseen
         /\ SignalAborts \/ TokenReady => Unseen
         /\ UNCHANGED vars => Unseen
  <1>1. ASSUME NEW w \in Workers, WorkerStep(w) PROVE Unseen
    BY <1>1 DEF WorkerStep, WorkerEnds, TakeFile, NextChunk, FileDone, WorkerResumes,
         Unseen, session, server
  <1>2. ASSUME NEW c \in Chunks, TaskStep(c) PROVE Unseen
    BY <1>2 DEF TaskStep, TaskSteps, LookupFinds, LookupMisses, LookupAborted, Prepared,
         PrepareFails, ServerStores, TusSucceeds, TusFails, Unseen, session, engine, server
  <1>3. ASSUME SignalAborts \/ TokenReady PROVE Unseen
    BY <1>3 DEF SignalAborts, TokenReady, Abort, UnchangedByTail, Unseen, server
  <1>4. ASSUME UNCHANGED vars PROVE Unseen BY <1>4 DEF vars, session, server, Unseen
  <1> QED BY <1>1, <1>2, <1>3, <1>4

\* What starting an attempt does to what the contract sees.
LEMMA BeginSeen ==
  ASSUME TypeOK, Outcomes, NEW b \in BOOLEAN, MayStart, BeginAttempt(b)
  PROVE  /\ promise = "none" /\ promise' = "running"
         /\ objectStatus /= "ready" /\ objectStatus' = "pending"
         /\ aborted' = FALSE /\ attempt' > 0 /\ finalized' = finalized
         /\ \A e \in Callers : call[e] /= "woken"
  <1>1. attempt \in Nat BY ImportAssumption DEF TypeOK
  <1> QED BY <1>1 DEF BeginAttempt, MayStart, Outcomes, server

\* What a failing doUpload and the .catch publish.
LEMMA RejectsSeen ==
  ASSUME Outcomes, Rejects, promise = "running", UNCHANGED <<aborted, attempt, call>>
  PROVE  /\ Outcomes' /\ promise' = "settled"
         /\ \/ Outcome = "pending" /\ Outcome' \in {"failed", "cancelled"}
            \/ Outcome = "cancelled" /\ Outcome' = Outcome
  BY DEF Outcomes, Rejects, Outcome

\* Every step keeps the published status in step with the attempt.
LEMMA StepOutcomes ==
  ASSUME IInv, Outcomes, [Next]_vars
  PROVE  Outcomes'
  <1>0. /\ TypeOK
        /\ phase /= "off" => promise = "running"
        /\ promise = "running" => promise /= "none"
    BY DEF IInv, Quiet
  <1>1. ASSUME Unseen PROVE Outcomes' BY <1>1 DEF Unseen, Outcomes
  <1>2. CASE PublicOperation
    <2>1. ASSUME NEW b \in BOOLEAN, StartUpload(b) PROVE Outcomes'
      BY <2>1, <1>0, BeginSeen DEF StartUpload, Outcomes
    <2>2. CASE StartBindRejected
      BY <2>2, <1>0 DEF StartBindRejected, MayStart, Outcomes
    <2>3. ASSUME NEW e \in Callers, EnsureUploaded(e) PROVE Outcomes'
      <3>1. /\ call \in [Callers -> {"none", "waiting", "woken", "resolved", "rejected"}]
            /\ call' = [call EXCEPT ![e] = IF promise' = "none" THEN "woken" ELSE "waiting"]
        BY <2>3, <1>0 DEF EnsureUploaded, TypeOK
      <3>2. CASE MayStart /\ BeginAttempt(FALSE)
        <4>1. \A d \in Callers : call'[d] /= "woken" BY <3>1, <3>2, <1>0, BeginSeen
        <4> QED BY <4>1, <3>2, <1>0, BeginSeen DEF Outcomes
      <3>3. CASE ~MayStart /\ UNCHANGED <<session, engine, sentIn, server>>
        <4>1. /\ UNCHANGED <<promise, objectStatus, attempt, aborted>>
              /\ promise = "none" => objectStatus = "ready"
          BY <3>3 DEF session, MayStart
        <4>2. \A d \in Callers : call'[d] = "woken" => call[d] = "woken" \/ promise = "none"
          BY <3>1, <4>1
        <4> QED BY <4>1, <4>2 DEF Outcomes
      <3> QED BY <3>2, <3>3, <2>3 DEF EnsureUploaded
    <2>4. ASSUME NEW r \in BOOLEAN, Cancel(r) PROVE Outcomes'
      <3>1. attempt \in Nat BY <1>0, ImportAssumption DEF TypeOK
      <3>2. UNCHANGED <<promise, call, attempt>> BY <2>4 DEF Cancel
      <3>3. CASE objectStatus = "ready" BY <3>2, <3>3, <2>4 DEF Cancel, Outcomes
      <3>4. CASE objectStatus /= "ready"
        <4>1. objectStatus' = "cancelled" /\ (attempt > 0 => aborted')
          BY <3>4, <2>4 DEF Cancel, Abort
        <4> QED BY <4>1, <3>2, <3>4 DEF Outcomes
      <3> QED BY <3>3, <3>4
    <2>5. CASE SignalAborts BY <2>5, <1>0, <1>1, UnseenSteps
    <2> QED BY <1>2, <2>1, <2>2, <2>3, <2>4, <2>5
            DEF PublicOperation, CancelImportSession, ReleaseImportSession
  <1>3. CASE TailStep
    <2>1. CASE WorkersJoined
      <3>1. UNCHANGED <<aborted, attempt, call>> /\ promise = "running"
        BY <2>1, <1>0 DEF WorkersJoined
      <3>2. CASE Rejects BY <3>1, <3>2, RejectsSeen
      <3>3. CASE objectStatus' = "finalizing" /\ UNCHANGED promise
        BY <3>1, <3>3 DEF Outcomes
      <3> QED BY <2>1, <3>2, <3>3 DEF WorkersJoined
    <2>2. CASE TokenReady BY <2>2, <1>0, <1>1, UnseenSteps
    <2>3. CASE TokenFails \/ FinalizeFails \/ FinalizeAborted
      BY <2>3, <1>0, RejectsSeen DEF TokenFails, FinalizeFails, FinalizeAborted, UnchangedByTail
    <2>4. CASE ServerFinalizes BY <2>4 DEF ServerFinalizes, session, Outcomes
    <2>5. ASSUME NEW b \in BOOLEAN, FinalizeConfirms(b) PROVE Outcomes'
      <3>1. UNCHANGED <<aborted, attempt, call>> /\ promise = "running"
        BY <2>5, <1>0 DEF FinalizeConfirms, UnchangedByTail
      <3>2. CASE Rejects BY <3>1, <3>2, RejectsSeen
      <3>3. CASE objectStatus' = "ready" /\ promise' = "settled"
        BY <3>1, <3>3 DEF Outcomes
      <3> QED BY <2>5, <3>2, <3>3 DEF FinalizeConfirms
    <2>6. CASE PromiseCleared
      BY <2>6, <1>0 DEF PromiseCleared, Woken, Outcomes, TypeOK
    <2> QED BY <1>3, <2>1, <2>2, <2>3, <2>4, <2>5, <2>6 DEF TailStep
  <1>4. ASSUME NEW e \in Callers, EnsureReturns(e) PROVE Outcomes'
    BY <1>4, <1>0 DEF EnsureReturns, Outcomes, TypeOK, session
  <1> QED BY <1>1, <1>0, <1>2, <1>3, <1>4, UnseenSteps DEF Next

\* The mapping is the one the specification states.
LEMMA Mapping ==
  /\ Contract!Begin <=>
       /\ ~Running /\ Outcome /= "ready" /\ Outcome' = "pending" /\ Running'
       /\ \/ Answers' = Answers
          \/ \E e \in Callers : /\ Answers[e] = "none"
                                /\ Answers' = [Answers EXCEPT ![e] = "open"]
       /\ finalized' = finalized
  /\ Contract!Ask <=>
       /\ \/ Answers' = Answers
          \/ \E e \in Callers : /\ Answers[e] = "none"
                                /\ Answers' = [Answers EXCEPT ![e] = "open"]
       /\ Outcome' = Outcome /\ (Running' <=> Running) /\ finalized' = finalized
  /\ Contract!Forget <=>
       /\ ~Running /\ Outcome /= "ready" /\ Outcome' = "pending"
       /\ (Running' <=> Running) /\ finalized' = finalized /\ Answers' = Answers
  /\ Contract!Cancel <=>
       /\ Outcome /= "ready" /\ Outcome' = "cancelled"
       /\ (Running' <=> Running) /\ finalized' = finalized /\ Answers' = Answers
  /\ Contract!Register <=>
       /\ Running /\ finalized' = TRUE
       /\ Outcome' = Outcome /\ (Running' <=> Running) /\ Answers' = Answers
  /\ Contract!Publish <=>
       /\ Running /\ finalized /\ Outcome = "pending" /\ Outcome' = "ready"
       /\ (Running' <=> Running) /\ finalized' = finalized /\ Answers' = Answers
  /\ Contract!GiveUp <=>
       /\ Running
       /\ \/ Outcome = "pending" /\ Outcome' \in {"failed", "cancelled"}
          \/ Outcome = "cancelled" /\ Outcome' = Outcome
       /\ (Running' <=> Running) /\ finalized' = finalized /\ Answers' = Answers
  /\ Contract!End <=>
       /\ Running /\ Outcome /= "pending" /\ ~Running'
       /\ Answers' = [e \in Callers |->
            IF Answers[e] = "open" /\ Outcome /= "ready" THEN "error" ELSE Answers[e]]
       /\ Outcome' = Outcome /\ finalized' = finalized
  /\ \A e \in Callers : Contract!Answer(e) <=>
       /\ Answers[e] = "open" /\ ~Running
       /\ \/ Outcome = "ready" /\ Answers' = [Answers EXCEPT ![e] = "ok"]
          \/ Answers' = [Answers EXCEPT ![e] = "error"]
       /\ Outcome' = Outcome /\ (Running' <=> Running) /\ finalized' = finalized
  /\ UNCHANGED Contract!cvars <=>
       /\ Outcome' = Outcome /\ (Running' <=> Running) /\ finalized' = finalized
       /\ Answers' = Answers
  BY DEF Outcome, Running, Answers, AnswerTo, Contract!Begin, Contract!Asks, Contract!Ask,
         Contract!Forget, Contract!Cancel, Contract!Register, Contract!Publish,
         Contract!GiveUp, Contract!End, Contract!Answer, Contract!cvars

\* What the contract sees of a call that changes, and of one that does not.
LEMMA OneAnswer ==
  ASSUME call \in [Callers -> {"none", "waiting", "woken", "resolved", "rejected"}],
         NEW e \in Callers, NEW new, call' = [call EXCEPT ![e] = new]
  PROVE  /\ new \in {"waiting", "woken"} => Answers' = [Answers EXCEPT ![e] = "open"]
         /\ new = "resolved" => Answers' = [Answers EXCEPT ![e] = "ok"]
         /\ new = "rejected" => Answers' = [Answers EXCEPT ![e] = "error"]
  <1>1. \A d \in Callers : d /= e => AnswerTo(d)' = AnswerTo(d) BY DEF AnswerTo
  <1>2. Answers' = [d \in Callers |-> AnswerTo(d)'] BY DEF Answers
  <1>3. /\ new \in {"waiting", "woken"} => AnswerTo(e)' = "open"
        /\ new = "resolved" => AnswerTo(e)' = "ok"
        /\ new = "rejected" => AnswerTo(e)' = "error"
    BY DEF AnswerTo
  <1>4. \A x : AnswerTo(e)' = x => Answers' = [Answers EXCEPT ![e] = x]
    BY <1>1, <1>2 DEF Answers
  <1> QED BY <1>3, <1>4

\* A step the contract does not see is a stutter of it.
LEMMA UnseenMaps == ASSUME Unseen PROVE UNCHANGED Contract!cvars
  <1>1. Outcome' = Outcome /\ (Running' <=> Running) /\ finalized' = finalized
    BY DEF Unseen, Outcome, Running
  <1>2. Answers' = Answers BY DEF Unseen, Answers, AnswerTo
  <1> QED BY <1>1, <1>2, Mapping

\* A doUpload that throws gives the attempt up.
LEMMA RejectsMaps ==
  ASSUME Outcomes, Rejects, promise = "running",
         UNCHANGED <<aborted, attempt, call, finalized>>
  PROVE  Contract!Next
  <1>1. /\ Running /\ Running' /\ finalized' = finalized
        /\ \/ Outcome = "pending" /\ Outcome' \in {"failed", "cancelled"}
           \/ Outcome = "cancelled" /\ Outcome' = Outcome
    BY RejectsSeen DEF Running
  <1>2. Answers' = Answers BY DEF Answers, AnswerTo
  <1> QED BY <1>1, <1>2, Mapping DEF Contract!Next

\* The public operations are steps of the contract.
LEMMA PublicMaps ==
  ASSUME IInv, Outcomes, PublicOperation
  PROVE  Contract!Next \/ UNCHANGED Contract!cvars
  <1>0. /\ TypeOK
        /\ call \in [Callers -> {"none", "waiting", "woken", "resolved", "rejected"}]
    BY DEF IInv, TypeOK
  <1>a. call' = call => Answers' = Answers BY DEF Answers, AnswerTo
  <1>b. ASSUME NEW b \in BOOLEAN, MayStart, BeginAttempt(b)
        PROVE  /\ ~Running /\ Outcome /= "ready" /\ Outcome' = "pending" /\ Running'
               /\ finalized' = finalized
    BY <1>0, <1>b, BeginSeen DEF Running, Outcome
  <1>1. ASSUME NEW b \in BOOLEAN, StartUpload(b) PROVE Contract!Next
    <2>1. Contract!Begin BY <1>1, <1>a, <1>b, Mapping DEF StartUpload
    <2> QED BY <2>1 DEF Contract!Next
  <1>2. CASE StartBindRejected
    <2>1. /\ ~Running /\ Outcome /= "ready" /\ Outcome' = "pending"
          /\ (Running' <=> Running) /\ finalized' = finalized /\ call' = call
      BY <1>2 DEF StartBindRejected, MayStart, Running, Outcome, server
    <2>2. Contract!Forget BY <2>1, <1>a, Mapping
    <2> QED BY <2>2 DEF Contract!Next
  <1>3. ASSUME NEW e \in Callers, EnsureUploaded(e) PROVE Contract!Next
    <2>1. call' = [call EXCEPT ![e] = IF promise' = "none" THEN "woken" ELSE "waiting"]
      BY <1>3 DEF EnsureUploaded
    <2>2. Answers' = [Answers EXCEPT ![e] = "open"] BY <2>1, <1>0, OneAnswer
    <2>3. Answers[e] = "none" BY <1>3 DEF EnsureUploaded, Answers, AnswerTo
    <2>4. CASE MayStart /\ BeginAttempt(FALSE)
      <3>1. Contract!Begin BY <2>2, <2>3, <2>4, <1>b, Mapping
      <3> QED BY <3>1 DEF Contract!Next
    <2>5. CASE UNCHANGED <<session, engine, sentIn, server>>
      <3>1. Outcome' = Outcome /\ (Running' <=> Running) /\ finalized' = finalized
        BY <2>5 DEF session, server, Outcome, Running
      <3>2. Contract!Ask BY <2>2, <2>3, <3>1, Mapping
      <3> QED BY <3>2 DEF Contract!Next
    <2> QED BY <1>3, <2>4, <2>5 DEF EnsureUploaded
  <1>4. ASSUME NEW r \in BOOLEAN, Cancel(r)
        PROVE  Contract!Next \/ UNCHANGED Contract!cvars
    <2>0. /\ (Running' <=> Running) /\ finalized' = finalized /\ call' = call
      BY <1>4 DEF Cancel, Running, server
    <2>1. CASE objectStatus = "ready"
      <3>1. Outcome' = Outcome BY <1>4, <2>1 DEF Cancel, Outcome
      <3> QED BY <3>1, <2>0, <1>a, Mapping
    <2>2. CASE objectStatus /= "ready"
      <3>1. Outcome /= "ready" /\ Outcome' = "cancelled"
        BY <1>4, <2>2 DEF Cancel, Outcome
      <3>2. Contract!Cancel BY <3>1, <2>0, <1>a, Mapping
      <3> QED BY <3>2 DEF Contract!Next
    <2> QED BY <2>1, <2>2
  <1>5. CASE SignalAborts BY <1>5, <1>0, UnseenSteps, UnseenMaps
  <1> QED BY <1>1, <1>2, <1>3, <1>4, <1>5
          DEF PublicOperation, CancelImportSession, ReleaseImportSession

\* The tail of doUpload registers, publishes, gives up and ends.
LEMMA TailMaps ==
  ASSUME IInv, Outcomes, TailStep
  PROVE  Contract!Next \/ UNCHANGED Contract!cvars
  <1>0. /\ TypeOK
        /\ phase /= "off" => promise = "running"
    BY DEF IInv, Quiet
  <1>a. call' = call => Answers' = Answers BY DEF Answers, AnswerTo
  <1>1. CASE WorkersJoined
    <2>1. UNCHANGED <<aborted, attempt, call, finalized>> /\ promise = "running"
      BY <1>1, <1>0 DEF WorkersJoined, server
    <2>2. CASE Rejects BY <2>1, <2>2, RejectsMaps
    <2>3. CASE WorkersFine /\ objectStatus' = "finalizing" /\ UNCHANGED promise
      <3>1. Outcome = "pending" /\ Outcome' = "pending"
        BY <2>1, <2>3 DEF Outcomes, WorkersFine, Outcome
      <3>2. Running' <=> Running BY <2>3 DEF Running
      <3> QED BY <3>1, <3>2, <2>1, <1>a, Mapping
    <2> QED BY <1>1, <2>2, <2>3 DEF WorkersJoined
  <1>2. CASE TokenReady BY <1>2, <1>0, UnseenSteps, UnseenMaps
  <1>3. CASE TokenFails \/ FinalizeFails \/ FinalizeAborted
    BY <1>3, <1>0, RejectsMaps
       DEF TokenFails, FinalizeFails, FinalizeAborted, UnchangedByTail, server
  <1>4. CASE ServerFinalizes
    <2>1. /\ Running /\ finalized' = TRUE /\ Outcome' = Outcome
          /\ (Running' <=> Running) /\ call' = call
      BY <1>4, <1>0 DEF ServerFinalizes, session, Running, Outcome
    <2>2. Contract!Register BY <2>1, <1>a, Mapping
    <2> QED BY <2>2 DEF Contract!Next
  <1>5. ASSUME NEW b \in BOOLEAN, FinalizeConfirms(b) PROVE Contract!Next
    <2>1. UNCHANGED <<aborted, attempt, call, finalized>> /\ promise = "running" /\ finalized
      BY <1>5, <1>0 DEF FinalizeConfirms, RootsConfirmed, UnchangedByTail, server
    <2>2. CASE Rejects BY <2>1, <2>2, RejectsMaps
    <2>3. CASE ~aborted /\ objectStatus' = "ready" /\ promise' = "settled"
      <3>1. Outcome = "pending" /\ Outcome' = "ready"
        BY <2>1, <2>3 DEF Outcomes, Outcome
      <3>2. Running /\ Running' BY <2>1, <2>3 DEF Running
      <3>3. Contract!Publish BY <3>1, <3>2, <2>1, <1>a, Mapping
      <3> QED BY <3>3 DEF Contract!Next
    <2> QED BY <1>5, <2>2, <2>3 DEF FinalizeConfirms, ResponseDropped
  <1>6. CASE PromiseCleared
    <2>1. /\ Running /\ Outcome /= "pending" /\ ~Running'
          /\ Outcome' = Outcome /\ finalized' = finalized
          /\ Outcome = objectStatus
      BY <1>6 DEF PromiseCleared, Outcomes, Outcome, Running, server
    <2>2. ASSUME NEW e \in Callers
          PROVE  AnswerTo(e)' = IF Answers[e] = "open" /\ Outcome /= "ready"
                                THEN "error" ELSE Answers[e]
      <3>1. call'[e] = Woken(e) /\ call[e] /= "woken"
            /\ call[e] \in {"none", "waiting", "woken", "resolved", "rejected"}
        BY <1>6, <1>0 DEF PromiseCleared, Outcomes, TypeOK
      <3>2. Answers[e] = AnswerTo(e) BY DEF Answers
      <3>3. CASE call[e] = "waiting"
        BY <3>1, <3>2, <3>3, <2>1 DEF Woken, AnswerTo
      <3>4. CASE call[e] \in {"none", "resolved", "rejected"}
        BY <3>1, <3>2, <3>4 DEF Woken, AnswerTo
      <3> QED BY <3>1, <3>3, <3>4
    <2>3. Answers' = [e \in Callers |->
            IF Answers[e] = "open" /\ Outcome /= "ready" THEN "error" ELSE Answers[e]]
      BY <2>2 DEF Answers
    <2>4. Contract!End BY <2>1, <2>3, Mapping
    <2> QED BY <2>4 DEF Contract!Next
  <1> QED BY <1>1, <1>2, <1>3, <1>4, <1>5, <1>6 DEF TailStep

\* Every session is one the contract allows: one attempt at a time, `ready`
\* only from a running attempt over registered roots and for good, nothing
\* published once cancelled, and no call resolved without ready objects.
THEOREM ContractImplemented == Spec => ImplementsContract
  <1>1. Init => Outcomes BY DEF Init, Outcomes
  <1>2. Spec => []Outcomes BY <1>1, StepOutcomes, InductiveInvariant, PTL DEF Spec
  <1>3. Init => Contract!Init
    BY DEF Init, Contract!Init
  <1>4. ASSUME IInv, Outcomes, [Next]_vars
        PROVE  Contract!Next \/ UNCHANGED Contract!cvars
    <2>1. ASSUME NEW e \in Callers, EnsureReturns(e) PROVE Contract!Next
      <3>1. /\ call[e] = "woken" /\ objectStatus = "ready" /\ promise = "none"
            /\ call' = [call EXCEPT ![e] = IF Registered THEN "resolved" ELSE "rejected"]
            /\ UNCHANGED <<objectStatus, promise, finalized>>
        BY <2>1, <1>4 DEF EnsureReturns, Outcomes, session, server
      <3>2. /\ Answers[e] = "open" /\ ~Running /\ Outcome = "ready"
            /\ Outcome' = Outcome /\ (Running' <=> Running) /\ finalized' = finalized
        BY <3>1 DEF Answers, AnswerTo, Running, Outcome
      <3>3. \/ Answers' = [Answers EXCEPT ![e] = "ok"]
            \/ Answers' = [Answers EXCEPT ![e] = "error"]
        BY <3>1, <1>4, OneAnswer DEF IInv, TypeOK
      <3>4. Contract!Answer(e) BY <3>2, <3>3, Mapping
      <3> QED BY <3>4 DEF Contract!Next
    <2>2. TypeOK BY <1>4 DEF IInv
    <2>3. Unseen => UNCHANGED Contract!cvars BY UnseenMaps
    <2> QED BY <1>4, <2>1, <2>2, <2>3, PublicMaps, TailMaps, UnseenSteps DEF Next
  <1> QED BY <1>2, <1>3, <1>4, InductiveInvariant, PTL
          DEF Spec, ImplementsContract, Contract!ContractSpec

=============================================================================
