----------------------------- MODULE AiwsBuild -----------------------------
(***************************************************************************)
(* A control's source folder and the Workspaces it is built into and       *)
(* pulled from (src/src/aiws_ext.ts for a folder of the Zone,              *)
(* src/cli/modules/aiws.ts for a local one).  .aiws-build.json in the      *)
(* folder records which revision of which Workspace the folder is based    *)
(* on.  Others change the Workspaces, the user edits the folder, and a     *)
(* tool may end between any two steps: it is killed, a call fails, or an   *)
(* answer is lost.                                                         *)
(***************************************************************************)
EXTENDS Naturals, Sequences, FiniteSets, FiniteSetsExt

CONSTANTS
  Tools,       \* commands working in the folder
  Names,       \* its file names, in the order they are read and written
  SizeOf,      \* the size of what a file holds
  Objects,     \* files the Zone holds as objects: a listing already says what is in them
  Limit,       \* of what a build carries inline
  Workspaces,
  MaxRevision, \* bound: revisions of the Workspaces, together
  MaxEdits     \* bound: edits of the folder

VARIABLES
  folder,    \* what its files hold; "" when a file is missing
  recorded,  \* .aiws-build.json: a Workspace's revision, or NoBase (none, or unreadable)
  spaces,    \* a Workspace's definition: its revision, its files, and the revision that last changed each
  tool,      \* what each tool is at
  edits,
  had,       \* (history) the newest revision of a Workspace's file that was in the folder
  lost,      \* (history) Workspace files a build replaced although the folder had not had them when it was read
  inline     \* what the last build carried inline

vars == <<folder, recorded, spaces, tool, edits, had, lost, inline>>

-----------------------------------------------------------------------------
All == {Names[i] : i \in DOMAIN Names}
NoBase == [ws |-> "", rev |-> 0]
Idle == [stage |-> "idle"]
Nothing == [n \in All |-> ""]
Present(files) == {n \in All : files[n] # ""}

Init ==
  /\ folder = [n \in All |-> "mine"] /\ recorded = NoBase
  /\ spaces = [w \in Workspaces |-> [rev |-> 0, files |-> Nothing, since |-> [n \in All |-> 0]]]
  /\ tool = [t \in Tools |-> Idle] /\ edits = 0
  /\ had = [w \in Workspaces |-> [n \in All |-> 0]]
  /\ lost = {} /\ inline = 0

Revisions(defs) == MapThenSumSet(LAMBDA w : defs[w].rev, Workspaces)

\* The user changes or removes a file of the folder.
Edit(n) ==
  /\ edits < MaxEdits /\ edits' = edits + 1
  /\ \E content \in {"", "mine", "large"} \ {folder[n]} : folder' = [folder EXCEPT ![n] = content]
  /\ UNCHANGED <<recorded, spaces, tool, had, lost, inline>>

\* A Workspace's definition becomes `files`: every file that differs is of the new revision.
Changed(w, files) ==
  LET next == spaces[w].rev + 1
  IN [spaces EXCEPT ![w] = [rev |-> next, files |-> files,
        since |-> [n \in All |-> IF files[n] # @.files[n] THEN next ELSE @.since[n]]]]

\* Somebody else changes a file of the Workspace's definition.
Foreign(w) ==
  /\ Revisions(spaces) < MaxRevision
  /\ \E n \in All : spaces' = Changed(w, [spaces[w].files EXCEPT ![n] = "theirs"]) /\ spaces[w].files[n] # "theirs"
  /\ UNCHANGED <<folder, recorded, tool, edits, had, lost, inline>>

-----------------------------------------------------------------------------
\* (mutant) Whichever Workspace it is of.
AnyWorkspace(record, w) == record

\* The recorded base, if it is of this Workspace.
BaseOf(record, w) == IF record.ws = w THEN record ELSE NoBase

\* buildControl, buildLocal: what is built, where, and how.
BuildStarts(t) ==
  /\ tool[t].stage = "idle"
  /\ \E w \in Workspaces, zone, force \in BOOLEAN :
       tool' = [tool EXCEPT ![t] = [stage |-> IF zone THEN "list" ELSE "record", ws |-> w, zone |-> zone, force |-> force,
                                    next |-> 1, files |-> Nothing, base |-> NoBase, knows |-> had[w]]]
  /\ UNCHANGED <<folder, recorded, spaces, edits, had, lost, inline>>

\* readBuildState, localState: before the folder is listed when it is local, after that when it is in the Zone.
ReadRecord(t) ==
  /\ tool[t].stage = "record"
  /\ tool' = [tool EXCEPT ![t].base = BaseOf(recorded, tool[t].ws),
                          ![t].stage = IF tool[t].zone THEN "read" ELSE "list"]
  /\ UNCHANGED <<folder, recorded, spaces, edits, had, lost, inline>>

\* collectSources, localFiles: the listing.  A folder with no files is refused; a file the Zone holds as an object is
\* taken as it is now.
List(t) ==
  /\ tool[t].stage = "list"
  /\ IF Present(folder) = {} THEN tool' = [tool EXCEPT ![t] = Idle]
     ELSE tool' = [tool EXCEPT ![t].stage = IF tool[t].zone THEN "record" ELSE "read", ![t].knows = had[tool[t].ws],
                               ![t].files = [n \in All |-> IF folder[n] = "" THEN ""
                                                           ELSE IF tool[t].zone /\ n \in Objects THEN folder[n]
                                                           ELSE "listed"]]
  /\ UNCHANGED <<folder, recorded, spaces, edits, had, lost, inline>>

\* The listed files are read one by one; one that is gone by now fails the command.
Read(t) ==
  /\ tool[t].stage = "read"
  /\ LET i == tool[t].next
     IN tool' =
          IF i > Len(Names) THEN [tool EXCEPT ![t].stage = "send"]
          ELSE IF tool[t].files[Names[i]] # "listed" THEN [tool EXCEPT ![t].next = i + 1]
          ELSE IF folder[Names[i]] = "" THEN [tool EXCEPT ![t] = Idle]
          ELSE [tool EXCEPT ![t] = [@ EXCEPT !.next = i + 1, !.files[Names[i]] = folder[Names[i]],
                                             !.knows[Names[i]] = had[tool[t].ws][Names[i]]]]
  /\ UNCHANGED <<folder, recorded, spaces, edits, had, lost, inline>>

\* packBuildFiles: the largest files are uploaded, until what is left may go inline.
Size(files, some) == MapThenSumSet(LAMBDA n : SizeOf[files[n]], some)
NotBefore(files, n) ==
  {m \in Present(files) : \/ SizeOf[files[m]] < SizeOf[files[n]]
                          \/ /\ SizeOf[files[m]] = SizeOf[files[n]]
                             /\ \E i, j \in DOMAIN Names : Names[i] = n /\ Names[j] = m /\ i <= j}
Uploaded(files) == {n \in Present(files) : Size(files, NotBefore(files, n)) > Limit}

\* ext.build: refused when the base is not the Workspace's revision; what becomes of a build with no base over an
\* existing definition is the service's to decide.  A dry run changes nothing and ends here.
Accepts(t) ==
  LET r == tool[t]
  IN r.force \/ r.base = NoBase \/ r.base.rev = spaces[r.ws].rev
Send(t) ==
  /\ tool[t].stage = "send"
  /\ inline' = Size(tool[t].files, Present(tool[t].files) \ Uploaded(tool[t].files))
  /\ \/ /\ Accepts(t)
        /\ LET r    == tool[t]
               next == IF r.files = spaces[r.ws].files THEN spaces ELSE Changed(r.ws, r.files)
           IN /\ Revisions(next) <= MaxRevision /\ spaces' = next
              /\ lost' = IF r.force \/ r.base = NoBase THEN lost
                         ELSE lost \cup {n \in All : spaces[r.ws].since[n] > r.knows[n]}
              /\ had' = [had EXCEPT ![r.ws] = [n \in All |-> next[r.ws].rev]]
              /\ tool' = [tool EXCEPT ![t] = [stage |-> "built", base |-> [ws |-> r.ws, rev |-> next[r.ws].rev]]]
     \/ /\ tool' = [tool EXCEPT ![t] = Idle] \* refused, or a dry run
        /\ UNCHANGED <<spaces, lost, had>>
  /\ UNCHANGED <<folder, recorded, edits>>

\* writeBuildState: the new base.
Record(t) ==
  /\ tool[t].stage = "built"
  /\ recorded' = tool[t].base /\ tool' = [tool EXCEPT ![t] = Idle]
  /\ UNCHANGED <<folder, spaces, edits, had, lost, inline>>

-----------------------------------------------------------------------------
\* pullControl, `aiws pull --local`: the Workspace's snapshot, with its revision.
PullStarts(t) ==
  /\ tool[t].stage = "idle"
  /\ \E w \in Workspaces :
       /\ spaces[w].rev > 0
       /\ tool' = [tool EXCEPT ![t] = [stage |-> "write", ws |-> w, next |-> 1, files |-> spaces[w].files,
                                       base |-> [ws |-> w, rev |-> spaces[w].rev]]]
  /\ UNCHANGED <<folder, recorded, spaces, edits, had, lost, inline>>

\* The snapshot's files are written over the folder's, one by one, and the base is recorded when all are there.
\* A file the snapshot does not have stays in the folder.
WriteFile(t) ==
  /\ tool[t].stage = "write"
  /\ LET r == tool[t]
         n == Names[r.next]
     IN /\ folder' = IF r.files[n] = "" THEN folder ELSE [folder EXCEPT ![n] = r.files[n]]
        /\ had' = [had EXCEPT ![r.ws][n] = IF r.base.rev > @ THEN r.base.rev ELSE @]
        /\ tool' = [tool EXCEPT ![t] = IF r.next = Len(Names) THEN [stage |-> "built", base |-> r.base]
                                       ELSE [r EXCEPT !.next = @ + 1]]
  /\ UNCHANGED <<recorded, spaces, edits, lost, inline>>

\* The tool ends before it is done; a record it was writing to a local disk may be torn, which reads as none.
Ends(t) ==
  /\ tool[t].stage # "idle"
  /\ tool' = [tool EXCEPT ![t] = Idle]
  /\ \/ UNCHANGED recorded
     \/ tool[t].stage = "built" /\ recorded' = NoBase
  /\ UNCHANGED <<folder, spaces, edits, had, lost, inline>>

Next ==
  \/ \E n \in All : Edit(n)
  \/ \E w \in Workspaces : Foreign(w)
  \/ \E t \in Tools :
       \/ BuildStarts(t) \/ ReadRecord(t) \/ List(t) \/ Read(t) \/ Send(t) \/ Record(t)
       \/ PullStarts(t) \/ WriteFile(t) \/ Ends(t)

Spec == Init /\ [][Next]_vars

-----------------------------------------------------------------------------
(***************************************************************************)
(* A build that carries a base and is not forced replaces no version of a  *)
(* file of the Workspace that the folder had not had when it was read:     *)
(* what others changed since is refused, wherever an earlier build or pull *)
(* was interrupted and whichever Workspace it was for.                     *)
(***************************************************************************)
NothingUnseenIsReplaced == lost = {}

(***************************************************************************)
(* What a build carries inline is within the service's limit.              *)
(***************************************************************************)
InlineFits == inline <= Limit
=============================================================================
