----------------------------- MODULE NfspUpload -----------------------------
(***************************************************************************)
(* NfspClient.uploadFile (src/src/nfsp.ts): open_write, the content in     *)
(* PATCHes from the offset the service tells, commit_file.  A caller whose *)
(* uploadContent failed may call it again; chunks whose sender gave up may *)
(* still arrive.  External: the service takes a chunk, or the beginning of *)
(* one, only where its content ends, and tells where it ends then.         *)
(***************************************************************************)
EXTENDS Naturals

CONSTANTS
  Content,    \* bytes to upload, in pieces the service may take alone
  ChunkSize,  \* pieces in a PATCH
  MaxTries    \* bound: calls of uploadContent

VARIABLE upload  \* control point, offset, PATCHes under way; stored at the service

Init == upload = [at |-> "idle", offset |-> 0, stored |-> 0, patches |-> {}, tries |-> 0,
                  committed |-> 0]

StartUpload ==
  /\ upload.at \in {"idle", "failed"} /\ upload.tries < MaxTries
  /\ upload' = [upload EXCEPT !.at = "head", !.tries = @ + 1]

HeadReturns ==
  /\ upload.at = "head"
  /\ upload' = [upload EXCEPT !.at = "loop", !.offset = upload.stored]

Least(a, b) == IF a <= b THEN a ELSE b

AllSent == upload.offset >= Content

SendChunk ==
  /\ upload.at = "loop" /\ ~AllSent
  /\ upload' = [upload EXCEPT !.at = "patch",
       !.patches = @ \cup {[from |-> upload.offset,
                            to |-> Least(upload.offset + ChunkSize, Content),
                            try |-> upload.tries]}]

Current(p) == upload.at = "patch" /\ p.try = upload.tries /\ p.from = upload.offset

\* The service takes some of a chunk that starts where its content ends.
TakeChunk(p, end, heard) ==
  /\ p \in upload.patches /\ p.from = upload.stored /\ end \in p.from + 1 .. p.to
  /\ heard => Current(p)
  /\ upload' = [upload EXCEPT !.stored = end, !.patches = @ \ {p},
       !.at = IF heard THEN "loop" ELSE @, !.offset = IF heard THEN end ELSE @]

\* A chunk for another offset is refused.
RefuseChunk(p) ==
  /\ p \in upload.patches /\ p.from # upload.stored
  /\ upload' = [upload EXCEPT !.patches = @ \ {p}, !.at = IF Current(p) THEN "failed" ELSE @]

\* No answer: the chunk may still be under way.
UploadThrows ==
  /\ upload.at \in {"head", "patch"}
  /\ upload' = [upload EXCEPT !.at = "failed"]

Commit ==
  /\ upload.at = "loop" /\ AllSent
  /\ upload' = [upload EXCEPT !.at = "committed", !.committed = upload.stored]

-----------------------------------------------------------------------------
Next ==
  \/ StartUpload \/ HeadReturns \/ SendChunk \/ UploadThrows \/ Commit
  \/ \E p \in upload.patches :
       \/ RefuseChunk(p)
       \/ \E end \in 1..Content, heard \in BOOLEAN : TakeChunk(p, end, heard)

Spec == Init /\ [][Next]_upload

\* What is committed is the whole content, also when chunks of an earlier
\* attempt arrive between those of a later one.
CommittedIsWhole == upload.at = "committed" => upload.committed = Content
=============================================================================
