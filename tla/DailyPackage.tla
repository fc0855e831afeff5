----------------------------- MODULE DailyPackage -----------------------------
(***************************************************************************)
(* The packages of a daily build: download, extraction, and what a call of *)
(* the program then uses (daily_prebuilt.py, progress.py, and the first    *)
(* part of main() in cli.py).                                              *)
(*                                                                         *)
(* A package is served in Size blocks.  It is collected in a .part file,   *)
(* which is renamed to the archive, which is extracted into a directory of *)
(* the cache.  A call without artifacts of its own copies the directory to *)
(* the local tree and removes it from the cache.  Calls follow one         *)
(* another; each can die between any two steps, and the next one finds the *)
(* files as they are.  Blocks, members and copies stand for system calls.  *)
(***************************************************************************)
EXTENDS Integers, SequencesExt

CONSTANTS
  Builds,    \* the builds of the server, by their tags
  Size,      \* the number of blocks of a package
  Names,     \* the names of files in packages
  Members,   \* the files in a package, by what it contains
  Kinds,     \* what the builds can contain: "tests", "sdk", "firmware" or "none"
  Marker,    \* the member by which an unpacked package is recognized
  Configs,   \* the members that make a local tree look complete, like Marker
  NoFile,    \* stands for a file that does not exist
  NoDir      \* stands for a directory that does not exist

ASSUME PackageAssumption ==
  /\ Size \in Nat \ {0}           \* the server has no empty packages
  /\ Members \in [{"tests", "sdk", "firmware", "none"} -> SUBSET Names]
  /\ \A k \in DOMAIN Members : k # "none" => Marker \in Members[k]  \* and all have the marker
  /\ Configs \subseteq Names
  /\ Builds # {} /\ "local" \notin Builds
  /\ \A files \in (SUBSET Names) \cup SUBSET (Builds \X Names) : files # NoDir
  /\ Kinds \subseteq [Builds -> {"tests", "sdk", "firmware", "none"}]

VARIABLES
  kind,       \* what a build contains, "none" if the server does not have it
  part,       \* the .part file of a build: the blocks in it
  archive,    \* its archive
  extracted,  \* the directory it is extracted to: the members in it
  local,      \* the local tree of test artifacts: the files, by build
  pc,         \* the next step of the present call
  call,       \* the mode of the present call and the build it is for
  next,       \* the block that the server sends next
  left,       \* the members still to be extracted, copied or removed
  tree,       \* the files that the call works with
  cut,        \* the builds of which a transfer ended early
  torn        \* the directories in which a call stopped halfway

fileVars == <<part, archive, extracted, local>>
callVars == <<pc, call, next, left, tree>>
packageVars == <<kind, fileVars, callVars, cut, torn>>

Modes == {"quick", "explicit", "auto", "download", "flash", "none"}
NoCall == [mode |-> "none", build |-> CHOOSE b \in Builds : TRUE]
Steps == {"idle", "archive", "request", "read", "rename", "extract", "member", "found",
          "remove", "copy", "clean", "use", "flash"}

Whole == [i \in 1..Size |-> i]
Contents == {NoFile} \cup UNION {[1..n -> 1..Size] : n \in 0..(2 * Size)}
Files(b) == {b} \X Members[kind[b]]

PackageTypeOK ==
  /\ kind \in Kinds
  /\ part \in [Builds -> Contents] /\ archive \in [Builds -> Contents]
  /\ extracted \in [Builds -> {NoDir} \cup SUBSET Names]
  /\ local \in {NoDir} \cup SUBSET (Builds \X Names)
  /\ pc \in Steps
  /\ call \in [mode : Modes, build : Builds]
  /\ next \in 0..(Size + 1)
  /\ left \subseteq Names
  /\ tree \subseteq Builds \X Names
  /\ cut \subseteq Builds
  /\ torn \subseteq Builds \cup {"local"}

PackageInit ==
  /\ kind \in Kinds
  /\ part = [b \in Builds |-> NoFile] /\ archive = [b \in Builds |-> NoFile]
  /\ extracted = [b \in Builds |-> NoDir]
  /\ local = NoDir
  /\ pc = "idle" /\ call = NoCall
  /\ next = 0 /\ left = {} /\ tree = {}
  /\ cut = {} /\ torn = {}

-----------------------------------------------------------------------------
(* A call begins and ends. *)

LocalFiles == IF local = NoDir THEN {} ELSE local
HasLocal == LocalFiles \cap (Builds \X (Configs \cup {Marker})) # {}

\* What main() and the utility mode offer for a package of each kind.
ModesOf(b) ==
  CASE kind[b] = "tests" -> {"quick", "explicit", "auto", "download"}
    [] kind[b] = "sdk" -> {"auto", "download"}
    [] kind[b] = "firmware" -> {"download", "flash"}
    [] kind[b] = "none" -> {}

\* Does the call use the local tree as it is?
UsesLocal(m, b) == m = "quick" \/ (m = "auto" /\ kind[b] = "tests" /\ HasLocal)

Invoke(m, b) ==
  /\ pc = "idle" /\ m \in ModesOf(b)
  /\ call' = [mode |-> m, build |-> b]
  /\ IF UsesLocal(m, b) THEN pc' = "use" /\ tree' = LocalFiles
                        ELSE pc' = "archive" /\ tree' = {}
  /\ UNCHANGED <<kind, fileVars, next, left, cut, torn>>

Return ==
  /\ pc' = "idle" /\ next' = 0 /\ left' = {} /\ tree' = {}
  /\ call' = NoCall

EndOfUse == pc = "use" /\ Return /\ UNCHANGED <<kind, fileVars, cut, torn>>

\* What a call holds in an unfinished state when it stops at its present step.
HalfDone ==
  CASE pc \in {"member", "clean"} -> {call.build}
    [] pc \in {"remove", "copy"} -> {"local"}
    [] OTHER -> {}

\* The selection goes on without artifacts when no run of tests depends on them.
GoesOnWithout == call.mode = "auto"

\* An error that the callers of the preparation catch; whether the run is
\* given up depends on the mode and on --run-now.
Fail ==
  \/ Return
  \/ /\ GoesOnWithout
     /\ pc' = "use" /\ tree' = IF kind[call.build] = "tests" THEN LocalFiles ELSE {}
     /\ next' = 0 /\ left' = {} /\ UNCHANGED call

\* The process is killed, or the machine goes down.
Die ==
  /\ pc # "idle" /\ Return
  /\ torn' = torn \cup HalfDone
  /\ UNCHANGED <<kind, fileVars, cut>>

-----------------------------------------------------------------------------
(* The download. *)

\* The build is not on the server any more, or the server is not reached.
NotResolved ==
  /\ pc = "archive" /\ Fail
  /\ UNCHANGED <<kind, fileVars, cut, torn>>

\* An archive without bytes is removed, any other is taken as it is.
CheckArchive ==
  LET b == call.build
      present == archive[b] \notin {NoFile, <<>>} IN
  /\ pc = "archive"
  /\ archive' = [archive EXCEPT ![b] = IF present THEN @ ELSE NoFile]
  /\ pc' = IF present THEN "extract" ELSE "request"
  /\ UNCHANGED <<kind, part, extracted, local, call, next, left, tree, cut, torn>>

Offset(b) == IF part[b] = NoFile THEN 0 ELSE Len(part[b])

(* Variant: the rest is appended whatever the server sends.                *)
PartAfterAnyReply(b, status) == IF Offset(b) > 0 THEN part[b] ELSE <<>>

\* The .part file after the reply to the request: kept after status 206,
\* begun anew otherwise.
PartAfterReply(b, status) ==
  IF Offset(b) > 0 /\ status = 206 THEN part[b] ELSE <<>>

\* The server sends the rest, if it honours the range, or everything.
Reply(status) ==
  LET b == call.build IN
  /\ pc = "request"
  /\ status = 206 => Offset(b) \in 1..(Size - 1)
  /\ part' = [part EXCEPT ![b] = PartAfterReply(b, status)]
  /\ next' = IF status = 206 THEN Offset(b) + 1 ELSE 1
  /\ pc' = "read"
  /\ UNCHANGED <<kind, archive, extracted, local, call, left, tree, cut, torn>>

\* No connection, an error status, or 416 for a range that begins at the end.
NoReply ==
  /\ pc = "request" /\ Fail
  /\ UNCHANGED <<kind, fileVars, cut, torn>>

Read ==
  /\ pc = "read" /\ next <= Size
  /\ part' = [part EXCEPT ![call.build] = Append(@, next)]
  /\ next' = next + 1
  /\ UNCHANGED <<kind, archive, extracted, local, pc, call, left, tree, cut, torn>>

\* An empty read ends the loop, whether or not the package is complete.
EndOfRead ==
  /\ pc = "read"
  /\ cut' = IF next <= Size THEN cut \cup {call.build} ELSE cut
  /\ pc' = "rename"
  /\ UNCHANGED <<kind, fileVars, call, next, left, tree, torn>>

\* A timeout or a reset connection; the .part file stays.
ReadFails ==
  /\ pc = "read" /\ Fail
  /\ UNCHANGED <<kind, fileVars, cut, torn>>

Rename ==
  /\ pc = "rename"
  /\ archive' = [archive EXCEPT ![call.build] = part[call.build]]
  /\ part' = [part EXCEPT ![call.build] = NoFile]
  /\ pc' = "extract" /\ next' = 0
  /\ UNCHANGED <<kind, extracted, local, call, left, tree, cut, torn>>

-----------------------------------------------------------------------------
(* The extraction. *)

\* A directory that exists is taken for a complete one.
SkipExtraction ==
  /\ pc = "extract" /\ extracted[call.build] # NoDir
  /\ pc' = "found"
  /\ UNCHANGED <<kind, fileVars, call, next, left, tree, cut, torn>>

\* The directory is made first; a damaged archive then raises an error that
\* nobody catches.
BeginExtraction ==
  LET b == call.build IN
  /\ pc = "extract" /\ extracted[b] = NoDir
  /\ extracted' = [extracted EXCEPT ![b] = {}]
  /\ IF archive[b] = Whole
       THEN pc' = "member" /\ left' = Members[kind[b]]
            /\ UNCHANGED <<call, next, tree, torn>>
       ELSE Return /\ torn' = torn \cup {b}
  /\ UNCHANGED <<kind, part, archive, local, cut>>

ExtractMember(m) ==
  /\ pc = "member" /\ m \in left
  /\ extracted' = [extracted EXCEPT ![call.build] = @ \cup {m}]
  /\ left' = left \ {m}
  /\ UNCHANGED <<kind, part, archive, local, pc, call, next, tree, cut, torn>>

\* The disk is full.
ExtractionFails ==
  /\ pc = "member" /\ left # {} /\ Fail
  /\ torn' = torn \cup {call.build}
  /\ UNCHANGED <<kind, fileVars, cut>>

EndOfExtraction ==
  /\ pc = "member" /\ left = {}
  /\ pc' = "found"
  /\ UNCHANGED <<kind, fileVars, call, next, left, tree, cut, torn>>

-----------------------------------------------------------------------------
(* What is done with it. *)

\* Does the extracted directory contain a usable root?
Found(b) == extracted[b] # NoDir /\ Marker \in extracted[b]

\* The files of the extracted root, or what there is without one.
Discovered(b) ==
  IF Found(b) THEN {b} \X extracted[b]
  ELSE IF call.mode \in {"explicit", "auto"} /\ kind[b] = "tests" THEN LocalFiles ELSE {}

Syncs(b) == call.mode = "auto" /\ kind[b] = "tests" /\ Found(b)

UseExtracted ==
  LET b == call.build IN
  /\ pc = "found" /\ ~Syncs(b)
  /\ IF call.mode = "flash" /\ Found(b) THEN pc' = "flash" ELSE pc' = "use"
  /\ tree' = Discovered(b)
  /\ UNCHANGED <<kind, fileVars, call, next, left, cut, torn>>

\* The local tree is removed, file by file, before the copy is made.
BeginSync ==
  /\ pc = "found" /\ Syncs(call.build)
  /\ pc' = "remove"
  /\ UNCHANGED <<kind, fileVars, call, next, left, tree, cut, torn>>

RemoveLocalFile(f) ==
  /\ pc = "remove" /\ f \in LocalFiles
  /\ local' = local \ {f}
  /\ UNCHANGED <<kind, part, archive, extracted, callVars, cut, torn>>

(* Variant: the copy is made into the tree that is there.                  *)
BeginCopyIntoTree ==
  /\ pc = "remove"
  /\ local' = LocalFiles /\ left' = extracted[call.build]
  /\ pc' = "copy"
  /\ UNCHANGED <<kind, part, archive, extracted, call, next, tree, cut, torn>>

BeginCopy ==
  /\ pc = "remove" /\ LocalFiles = {}
  /\ local' = {} /\ left' = extracted[call.build]
  /\ pc' = "copy"
  /\ UNCHANGED <<kind, part, archive, extracted, call, next, tree, cut, torn>>

CopyFile(m) ==
  /\ pc = "copy" /\ m \in left
  /\ local' = local \cup {<<call.build, m>>} /\ left' = left \ {m}
  /\ UNCHANGED <<kind, part, archive, extracted, pc, call, next, tree, cut, torn>>

\* A file cannot be removed or copied.  The call works with what the extracted
\* directory contains, also if it has already begun to remove it.
SyncFails ==
  LET b == call.build IN
  /\ pc \in {"remove", "copy", "clean"}
  /\ torn' = torn \cup HalfDone
  /\ \/ Return
     \/ /\ pc' = "use" /\ tree' = {b} \X extracted[b]
        /\ next' = 0 /\ left' = {} /\ UNCHANGED call
  /\ UNCHANGED <<kind, fileVars, cut>>

(* Variant: the cache is cleaned whether the copy is complete or not.      *)
CopyWasTried == TRUE

\* The copy was made without an error, so that the cache can be cleaned.
CopyIsDone == left = {}

EndOfCopy ==
  /\ pc = "copy" /\ CopyIsDone
  /\ left' = extracted[call.build]
  /\ torn' = (torn \ {"local"}) \cup {"local" : b \in torn \cap {call.build}}
  /\ pc' = "clean"
  /\ UNCHANGED <<kind, fileVars, call, next, tree, cut>>

CleanFile(m) ==
  /\ pc = "clean" /\ m \in left
  /\ extracted' = [extracted EXCEPT ![call.build] = @ \ {m}] /\ left' = left \ {m}
  /\ UNCHANGED <<kind, part, archive, local, pc, call, next, tree, cut, torn>>

EndOfSync ==
  /\ pc = "clean" /\ left = {}
  /\ extracted' = [extracted EXCEPT ![call.build] = NoDir]
  /\ torn' = torn \ {call.build}
  /\ pc' = "use" /\ tree' = LocalFiles
  /\ UNCHANGED <<kind, part, archive, local, call, next, left, cut>>

-----------------------------------------------------------------------------
Download ==
  \/ NotResolved \/ CheckArchive \/ NoReply
  \/ \E status \in {200, 206} : Reply(status)
  \/ Read \/ EndOfRead \/ ReadFails \/ Rename

Extraction ==
  \/ SkipExtraction \/ BeginExtraction \/ ExtractionFails \/ EndOfExtraction
  \/ \E m \in Names : ExtractMember(m)

Sync ==
  \/ BeginSync \/ BeginCopy \/ SyncFails \/ EndOfCopy \/ EndOfSync
  \/ \E f \in Builds \X Names : RemoveLocalFile(f)
  \/ \E m \in Names : CopyFile(m) \/ CleanFile(m)

Prepare == Download \/ Extraction \/ UseExtracted \/ Sync

PackageNext ==
  \/ \E m \in Modes, b \in Builds : Invoke(m, b)
  \/ Prepare \/ EndOfUse

-----------------------------------------------------------------------------
(* Properties *)

\* Whatever the order of interrupted, resumed and restarted downloads, a .part
\* file is a beginning of the package, and an archive is the package unless the
\* server closed a transfer early.
DownloadsAreFaithful ==
  \A b \in Builds :
    /\ part[b] # NoFile => IsPrefix(part[b], Whole)
    /\ archive[b] # NoFile => /\ IsPrefix(archive[b], Whole)
                              /\ archive[b] # Whole => b \in cut

\* The files a call works with are those of one whole build, and of the build
\* it was asked for, unless a call was stopped or failed in the directory
\* they are from and the directory was taken for a complete one.
UsedIsWhole ==
  pc \in {"use", "flash"} /\ tree # {} =>
    \E b \in Builds :
      /\ tree = Files(b) \/ (tree \subseteq Files(b) /\ torn \cap {b, "local"} # {})
      /\ call.mode \in {"explicit", "download", "flash"} =>
           b = call.build \/ call.build \in torn

\* The extracted files leave the cache only when the local tree has them all.
CacheOutlivesCopy ==
  [][\A b \in Builds :
       extracted[b] # NoDir /\ extracted[b] # extracted'[b] /\ pc = "clean"
       => {b} \X extracted[b] \subseteq LocalFiles]_packageVars
=============================================================================
