------------------------- MODULE FirmwareUpdateProofs -------------------------
(***************************************************************************)
(* Proofs about FirmwareUpdate, for every number of builds, blocks, files  *)
(* and devices.                                                            *)
(***************************************************************************)
EXTENDS FirmwareUpdate, TLAPS

(* The first blocks of a package.                                          *)
Blocks(n) == [i \in 1..n |-> i]

(* What a .part file and an archive hold.                                  *)
DownloadInv ==
    /\ \A b \in Builds :
          /\ part[b] # NoFile => \E n \in 0..Size : part[b] = Blocks(n)
          /\ archive[b] # NoFile =>
                \E n \in 0..Size : archive[b] = Blocks(n) /\ (n < Size => b \in cut)
    /\ pc \in {"read", "rename"} =>
          /\ next \in 1..(Size + 1)
          /\ part[call.build] = Blocks(next - 1)
    /\ pc = "rename" /\ next <= Size => call.build \in cut

(* A directory of the cache has all files of its package, unless it is     *)
(* being filled or cleaned, or a call has stopped in the middle of that.   *)
CacheInv ==
    /\ \A b \in Builds : extracted[b] # NoDir =>
          /\ extracted[b] \subseteq Members[kind[b]]
          /\ extracted[b] # Members[kind[b]] =>
                b \in torn \/ (b = call.build /\ pc \in {"member", "clean"})
    /\ pc # "idle" => kind[call.build] # "none"
    /\ call.mode = "flash" => kind[call.build] = "firmware"
    /\ pc \in {"member", "found", "remove", "copy", "clean", "flash"} =>
          extracted[call.build] # NoDir
    /\ pc = "member" => extracted[call.build] \cup left = Members[kind[call.build]]
    /\ pc = "clean" => left = extracted[call.build]

(* The local tree has the files of one build, all of them unless it is     *)
(* being replaced or was not replaced as a whole.                          *)
LocalInv ==
    /\ LocalFiles # {} =>
          \E b \in Builds :
             \/ LocalFiles = Files(b)
             \/ /\ LocalFiles \subseteq Files(b)
                /\ "local" \in torn \/ pc \in {"remove", "copy"}
    /\ pc = "copy" =>
          /\ local = {call.build} \X (extracted[call.build] \ left)
          /\ left \subseteq extracted[call.build]
    /\ pc = "clean" =>
          /\ {call.build} \X extracted[call.build] \subseteq local
          /\ local = Files(call.build) \/
             (local \subseteq Files(call.build) /\ "local" \in torn)

(* What is flashed is what the cache has of the build that was asked for.  *)
ImageInv ==
    /\ pc = "flash" =>
          call.mode = "flash" /\ tree = {call.build} \X extracted[call.build]
    /\ step # "none" => pc = "flash" /\ root = tree

(* One upgrade tool at most is of the present call, and it runs between    *)
(* the start of flash.py and the report.                                   *)
ToolInv ==
    /\ \A t, u \in tools : t.own /\ u.own => t = u
    /\ step \notin {"stream", "drain"} => OwnTools = {}
    /\ step \in {"none", "look", "targets", "boot", "wait", "start"} => ~ok
    /\ ok => OwnTools = {}
    /\ status = "completed" => ok
    /\ step \notin {"none", "report"} =>
          \A t \in tools : t.own \/ t.device \in mixed \cup {NoDevice}

(* What the tool of the present call has written, unless another tool      *)
(* writes to the same device.                                              *)
Written(d, files) == d \in mixed \/ \A f \in files : flash[d][f[2]] = f[1]

WriteInv ==
    /\ \A t \in tools : t.own =>
          /\ t.left \subseteq root
          /\ t.device = NoDevice => t.left = root
          /\ t.device # NoDevice => Written(t.device, root \ t.left)
    /\ ok => \E d \in Devices : Written(d, root)

(* A device that is not on hdc was switched by hand or for this call, and  *)
(* so is the one that the tool of this call has taken.                     *)
DeviceInv ==
    /\ \A d \in Devices : usb[d] # "hdc" =>
          d \in strays \/ (step # "none" /\ want \in {d, NoDevice})
    /\ \A t \in tools : t.own /\ t.device # NoDevice =>
          \/ t.device \in mixed
          \/ want \in {t.device, NoDevice}
          \/ t.device \in strays /\ usb[t.device] = "loader"

IInv ==
    /\ PackageTypeOK /\ FlashTypeOK
    /\ DownloadInv /\ CacheInv /\ LocalInv /\ UsedIsWhole
    /\ ImageInv /\ ToolInv /\ WriteInv /\ DeviceInv
-------------------------------------------------------------------------------
(* Facts about constants and blocks. *)

LEMMA BlocksAreContents ==
    \A n \in 0..Size : /\ Blocks(n) \in Contents
                       /\ Blocks(n) \in Seq(1..Size)
                       /\ Len(Blocks(n)) = n
                       /\ IsPrefix(Blocks(n), Whole)
<1> SUFFICES ASSUME NEW n \in 0..Size
             PROVE  /\ Blocks(n) \in Contents
                    /\ Blocks(n) \in Seq(1..Size)
                    /\ Len(Blocks(n)) = n
                    /\ IsPrefix(Blocks(n), Whole)
  OBVIOUS
<1>1. Size \in Nat /\ n \in Nat /\ n <= Size /\ n \in 0..(2 * Size)
  BY PackageAssumption
<1>2. Blocks(n) \in [1..n -> 1..Size]
  BY <1>1 DEF Blocks
<1>3. Blocks(n) \in Contents
  BY <1>1, <1>2 DEF Contents
<1>4. Blocks(n) \in Seq(1..Size) /\ Len(Blocks(n)) = n
  BY <1>1, <1>2
<1>5. Whole \in Seq(1..Size) /\ Len(Whole) = Size
  BY <1>1 DEF Whole
<1>6. SubSeq(Blocks(n), 1, n) = SubSeq(Whole, 1, n)
  <2>1. SubSeq(Blocks(n), 1, n) = [i \in 1..n |-> Blocks(n)[i]]
    BY <1>1, <1>4
  <2>2. SubSeq(Whole, 1, n) = [i \in 1..n |-> Whole[i]]
    BY <1>1, <1>5
  <2>3. \A i \in 1..n : Blocks(n)[i] = Whole[i]
    BY <1>1 DEF Blocks, Whole
  <2> QED
    BY <2>1, <2>2, <2>3
<1>7. IsPrefix(Blocks(n), Whole)
  BY <1>1, <1>4, <1>5, <1>6 DEF IsPrefix
<1> QED
  BY <1>3, <1>4, <1>7

LEMMA AppendBlock ==
    \A n \in 1..Size : Append(Blocks(n - 1), n) = Blocks(n)
<1> SUFFICES ASSUME NEW n \in 1..Size
             PROVE  Append(Blocks(n - 1), n) = Blocks(n)
  OBVIOUS
<1>1. Size \in Nat /\ n \in Nat /\ n - 1 \in 0..Size
  BY PackageAssumption
<1>2. Blocks(n - 1) \in Seq(1..Size) /\ Len(Blocks(n - 1)) = n - 1
  BY <1>1, BlocksAreContents
<1> DEFINE longer == Append(Blocks(n - 1), n)
<1>3. longer \in Seq(1..Size) /\ Len(longer) = n
  BY <1>1, <1>2
<1>4. \A i \in 1..n : longer[i] = i
  BY <1>1, <1>2 DEF Blocks
<1>5. longer = [i \in 1..n |-> longer[i]]
  BY <1>1, <1>3
<1> HIDE DEF longer
<1>6. longer = [i \in 1..n |-> i]
  BY <1>4, <1>5
<1> QED
  BY <1>6 DEF Blocks, longer

LEMMA NoBlocks == Blocks(0) = <<>> /\ Blocks(Size) = Whole
  BY PackageAssumption DEF Blocks, Whole

-------------------------------------------------------------------------------
(* Downloads. *)

(* Most steps of a call leave downloads alone.                             *)
DownloadStays ==
    /\ UNCHANGED <<part, archive>>
    /\ cut' = cut
    /\ pc' \notin {"read", "rename"}

LEMMA DownloadElsewhere ==
    ASSUME DownloadInv, DownloadStays
    PROVE  DownloadInv'
  BY DEF DownloadInv, DownloadStays

LEMMA DownloadStep ==
    ASSUME PackageTypeOK, DownloadInv, PackageNext
    PROVE  DownloadInv'
<1>0. Size \in Nat \ {0} /\ call.build \in Builds
  BY PackageAssumption DEF PackageTypeOK
<1>1. ASSUME NEW m \in Modes, NEW b \in Builds, Invoke(m, b)
      PROVE  DownloadStays
  BY <1>1 DEF Invoke, DownloadStays, fileVars
<1>2. ASSUME EndOfUse \/ NotResolved \/ NoReply \/ ReadFails
      PROVE  DownloadStays
  BY <1>2 DEF EndOfUse, NotResolved, NoReply, ReadFails, Fail, Return, DownloadStays, fileVars
<1>3. ASSUME Extraction
      PROVE  DownloadStays
  BY <1>3 DEF Extraction, SkipExtraction, BeginExtraction, ExtractionFails, EndOfExtraction,
     ExtractMember, Fail, Return, DownloadStays, fileVars
<1>4. ASSUME UseExtracted
      PROVE  DownloadStays
  BY <1>4 DEF UseExtracted, DownloadStays, fileVars
<1>5. ASSUME Sync
      PROVE  DownloadStays
  BY <1>5 DEF Sync, BeginSync, BeginCopy, SyncFails, EndOfCopy, EndOfSync, RemoveLocalFile,
     CopyFile, CleanFile, Return, DownloadStays, fileVars, callVars
<1>6. CASE CheckArchive
  BY <1>0, <1>6 DEF CheckArchive, DownloadInv, PackageTypeOK
<1>7. ASSUME NEW code \in {200, 206}, Reply(code)
      PROVE  DownloadInv'
  <2> DEFINE kept == Offset(call.build) > 0 /\ code = 206
  <2>1. CASE kept
    <3>1. part[call.build] # NoFile /\ Offset(call.build) = Len(part[call.build])
      BY <2>1 DEF Offset
    <3>2. PICK n \in 0..Size : part[call.build] = Blocks(n)
      BY <1>0, <3>1 DEF DownloadInv
    <3>3. n = Offset(call.build)
      BY <3>1, <3>2, BlocksAreContents
    <3>4. part' = part /\ next' = n + 1
      BY <1>7, <2>1, <3>3, <1>0 DEF Reply, PartAfterReply, PackageTypeOK
    <3> QED
      BY <1>0, <1>7, <3>2, <3>4 DEF Reply, DownloadInv
  <2>2. CASE ~kept
    <3>1. part' = [part EXCEPT ![call.build] = Blocks(0)]
      BY <1>7, <2>2, NoBlocks DEF Reply, PartAfterReply
    <3>2. code = 206 => Offset(call.build) > 0
      BY <1>0, <1>7 DEF Reply
    <3>3. next' = 1
      BY <1>7, <2>2, <3>2 DEF Reply
    <3> QED
      BY <1>0, <1>7, <3>1, <3>3 DEF Reply, DownloadInv, PackageTypeOK
  <2> QED
    BY <2>1, <2>2
<1>8. CASE Read
  <2>1. next \in 1..Size /\ part[call.build] = Blocks(next - 1)
    BY <1>0, <1>8 DEF Read, DownloadInv
  <2>2. part' = [part EXCEPT ![call.build] = Blocks(next)]
    BY <1>8, <2>1, AppendBlock DEF Read
  <2>3. next' \in 1..(Size + 1) /\ next' - 1 = next
    BY <1>0, <1>8, <2>1 DEF Read
  <2>4. part'[call'.build] = Blocks(next' - 1)
    BY <1>0, <1>8, <2>2, <2>3 DEF Read, PackageTypeOK
  <2> QED
    BY <1>0, <1>8, <2>1, <2>2, <2>3, <2>4 DEF Read, DownloadInv, PackageTypeOK
<1>9. CASE EndOfRead
  BY <1>0, <1>9 DEF EndOfRead, DownloadInv, fileVars
<1>10. CASE Rename
  BY <1>0, <1>10 DEF Rename, DownloadInv, PackageTypeOK
<1> QED
  BY <1>1, <1>2, <1>3, <1>4, <1>5, <1>6, <1>7, <1>8, <1>9, <1>10, DownloadElsewhere
     DEF PackageNext, Prepare, Download

-------------------------------------------------------------------------------
(* Types of the package variables. *)

LEMMA NoCallIsTyped == NoCall \in [mode : Modes, build : Builds]
<1>1. (CHOOSE b \in Builds : TRUE) \in Builds
  BY PackageAssumption
<1> QED
  BY <1>1 DEF NoCall, Modes

LEMMA PackageTypeStep ==
    ASSUME PackageTypeOK, DownloadInv, CacheInv, LocalInv, PackageNext
    PROVE  PackageTypeOK'
<1>0. /\ Size \in Nat \ {0} /\ call.build \in Builds
      /\ kind[call.build] \in DOMAIN Members /\ Members[kind[call.build]] \subseteq Names
  BY PackageAssumption DEF PackageTypeOK
<1>1. LocalFiles \subseteq Builds \X Names
  BY DEF LocalFiles, PackageTypeOK
<1>2. extracted[call.build] # NoDir => extracted[call.build] \subseteq Names
  BY <1>0 DEF PackageTypeOK
<1>3. ASSUME NEW m \in Modes, NEW b \in Builds, Invoke(m, b)
      PROVE  PackageTypeOK'
  BY <1>1, <1>3 DEF Invoke, PackageTypeOK, Steps, fileVars
<1>4. ASSUME EndOfUse \/ NotResolved \/ NoReply \/ ReadFails
      PROVE  PackageTypeOK'
  BY <1>0, <1>1, <1>4, NoCallIsTyped
     DEF EndOfUse, NotResolved, NoReply, ReadFails, Fail, Return, PackageTypeOK, Steps, fileVars
<1>5. CASE CheckArchive
  BY <1>0, <1>5 DEF CheckArchive, PackageTypeOK, Contents, Steps
<1>6. ASSUME NEW code \in {200, 206}, Reply(code)
      PROVE  PackageTypeOK'
  <2>1. next' \in 0..(Size + 1)
    BY <1>0, <1>6 DEF Reply
  <2>2. <<>> \in Contents /\ part[call.build] \in Contents
    <3>1. 0 \in 0..Size
      BY <1>0
    <3>2. Blocks(0) \in Contents
      BY <3>1, BlocksAreContents
    <3> QED
      BY <1>0, <3>2, NoBlocks DEF PackageTypeOK
  <2>3. part' \in [Builds -> Contents]
    BY <1>6, <2>2 DEF Reply, PartAfterReply, PackageTypeOK
  <2> QED
    BY <1>6, <2>1, <2>3 DEF Reply, PackageTypeOK, Steps
<1>7. CASE Read
  <2>1. next \in 1..Size /\ part[call.build] = Blocks(next - 1)
    BY <1>0, <1>7 DEF Read, DownloadInv
  <2>2. Append(part[call.build], next) \in Contents
    <3>1. Append(part[call.build], next) = Blocks(next)
      BY <2>1, AppendBlock
    <3>2. next \in 0..Size
      BY <1>0, <2>1
    <3> QED
      BY <3>1, <3>2, BlocksAreContents
  <2>3. part' \in [Builds -> Contents] /\ next' \in 0..(Size + 1)
    BY <1>0, <1>7, <2>1, <2>2 DEF Read, PackageTypeOK
  <2> QED
    BY <1>7, <2>3 DEF Read, PackageTypeOK
<1>8. CASE EndOfRead
  BY <1>0, <1>8 DEF EndOfRead, PackageTypeOK, Steps, fileVars
<1>9. CASE Rename
  <2>1. part[call.build] \in Contents /\ NoFile \in Contents
    BY <1>0 DEF PackageTypeOK, Contents
  <2> QED
    BY <1>0, <1>9, <2>1 DEF Rename, PackageTypeOK, Steps
<1>10. CASE SkipExtraction \/ EndOfExtraction \/ BeginSync
  BY <1>10 DEF SkipExtraction, EndOfExtraction, BeginSync, PackageTypeOK, Steps, fileVars
<1>11. CASE BeginExtraction
  BY <1>0, <1>11, NoCallIsTyped DEF BeginExtraction, Return, PackageTypeOK, Steps
<1>12. CASE ExtractionFails
  BY <1>0, <1>1, <1>12, NoCallIsTyped
     DEF ExtractionFails, Fail, Return, PackageTypeOK, Steps, fileVars
<1>13. ASSUME NEW m \in Names, ExtractMember(m)
       PROVE  PackageTypeOK'
  <2>1. extracted[call.build] \cup {m} \subseteq Names
    BY <1>2, <1>13 DEF ExtractMember, CacheInv
  <2> QED
    BY <1>0, <1>13, <2>1 DEF ExtractMember, PackageTypeOK
<1>14. CASE UseExtracted
  <2>1. Discovered(call.build) \subseteq Builds \X Names
    BY <1>0, <1>1, <1>2 DEF Discovered, Found
  <2> QED
    BY <1>14, <2>1 DEF UseExtracted, PackageTypeOK, Steps, fileVars
<1>15. ASSUME NEW f \in Builds \X Names, RemoveLocalFile(f)
       PROVE  PackageTypeOK'
  <2>1. local \ {f} \subseteq Builds \X Names
    BY <1>1, <1>15 DEF RemoveLocalFile, LocalFiles
  <2> QED
    BY <1>15, <2>1 DEF RemoveLocalFile, PackageTypeOK, callVars
<1>16. CASE BeginCopy
  BY <1>0, <1>2, <1>16 DEF BeginCopy, CacheInv, PackageTypeOK, Steps
<1>17. ASSUME NEW m \in Names, CopyFile(m)
       PROVE  PackageTypeOK'
  <2>1. local \subseteq Builds \X Names
    BY <1>0, <1>2, <1>17 DEF CopyFile, CacheInv, LocalInv
  <2> QED
    BY <1>0, <1>17, <2>1 DEF CopyFile, PackageTypeOK
<1>18. CASE SyncFails
  <2>1. {call.build} \X extracted[call.build] \subseteq Builds \X Names
    BY <1>0, <1>2, <1>18 DEF SyncFails, CacheInv
  <2>2. HalfDone \subseteq Builds \cup {"local"}
    BY <1>0 DEF HalfDone
  <2> QED
    BY <1>0, <1>18, <2>1, <2>2, NoCallIsTyped
       DEF SyncFails, Return, PackageTypeOK, Steps, fileVars
<1>19. CASE EndOfCopy
  BY <1>0, <1>2, <1>19 DEF EndOfCopy, CacheInv, PackageTypeOK, Steps, fileVars
<1>20. ASSUME NEW m \in Names, CleanFile(m)
       PROVE  PackageTypeOK'
  <2>1. extracted[call.build] \ {m} \subseteq Names
    BY <1>2, <1>20 DEF CleanFile, CacheInv
  <2> QED
    BY <1>0, <1>20, <2>1 DEF CleanFile, PackageTypeOK
<1>21. CASE EndOfSync
  BY <1>0, <1>1, <1>21 DEF EndOfSync, PackageTypeOK, Steps
<1> QED
  BY <1>3, <1>4, <1>5, <1>6, <1>7, <1>8, <1>9, <1>10, <1>11, <1>12, <1>13, <1>14, <1>15,
     <1>16, <1>17, <1>18, <1>19, <1>20, <1>21
     DEF PackageNext, Prepare, Download, Extraction, Sync

-------------------------------------------------------------------------------
(* The cache of extracted packages. *)

LEMMA CacheStep ==
    ASSUME PackageTypeOK, CacheInv, PackageNext
    PROVE  CacheInv'
<1>0. /\ call.build \in Builds /\ "local" \notin Builds
      /\ \A files \in SUBSET Names : files # NoDir
      /\ kind[call.build] \in DOMAIN Members /\ Members[kind[call.build]] \subseteq Names
      /\ call'.build \in Builds => kind[call'.build] \in DOMAIN Members
  BY PackageAssumption DEF PackageTypeOK
<1>1. extracted[call.build] # NoDir => extracted[call.build] \subseteq Names
  BY <1>0 DEF PackageTypeOK
<1>2. ASSUME NEW m \in Modes, NEW b \in Builds, Invoke(m, b)
      PROVE  CacheInv'
  <2>1. m \in ModesOf(b) /\ call' = [mode |-> m, build |-> b] /\ pc' \in {"use", "archive"}
    BY <1>2 DEF Invoke
  <2>2. kind[b] # "none" /\ (m = "flash" => kind[b] = "firmware")
    BY <2>1, <1>2, PackageAssumption DEF ModesOf, PackageTypeOK
  <2> QED
    BY <1>2, <2>1, <2>2 DEF Invoke, CacheInv, fileVars
<1>3. ASSUME EndOfUse \/ NotResolved \/ NoReply \/ ReadFails
      PROVE  CacheInv'
  BY <1>3 DEF EndOfUse, NotResolved, NoReply, ReadFails, Fail, Return, NoCall, CacheInv, fileVars
<1>4. CASE CheckArchive
  BY <1>4 DEF CheckArchive, CacheInv
<1>5. ASSUME NEW code \in {200, 206}, Reply(code)
      PROVE  CacheInv'
  BY <1>5 DEF Reply, CacheInv
<1>6. CASE Read
  BY <1>6 DEF Read, CacheInv
<1>7. CASE EndOfRead
  BY <1>7 DEF EndOfRead, CacheInv, fileVars
<1>8. CASE Rename
  BY <1>8 DEF Rename, CacheInv
<1>9. CASE SkipExtraction \/ EndOfExtraction
  BY <1>9 DEF SkipExtraction, EndOfExtraction, CacheInv, fileVars
<1>10. CASE BeginExtraction
  <2>1. /\ kind' = kind /\ extracted' = [extracted EXCEPT ![call.build] = {}]
        /\ {} # NoDir /\ {} \subseteq Members[kind[call.build]]
    BY <1>0, <1>10 DEF BeginExtraction
  <2>2. CASE archive[call.build] = Whole
    BY <1>0, <1>10, <2>1, <2>2 DEF BeginExtraction, CacheInv, PackageTypeOK
  <2>3. CASE archive[call.build] # Whole
    BY <1>0, <1>10, <2>1, <2>3 DEF BeginExtraction, Return, NoCall, CacheInv, PackageTypeOK
  <2> QED
    BY <2>2, <2>3
<1>11. CASE ExtractionFails
  BY <1>11 DEF ExtractionFails, Fail, Return, NoCall, CacheInv, fileVars
<1>12. ASSUME NEW m \in Names, ExtractMember(m)
       PROVE  CacheInv'
  <2>1. /\ extracted[call.build] \cup {m} \subseteq Members[kind[call.build]]
        /\ extracted[call.build] \cup {m} # NoDir
        /\ (extracted[call.build] \cup {m}) \cup (left \ {m}) = Members[kind[call.build]]
    BY <1>0, <1>12 DEF ExtractMember, CacheInv
  <2> QED
    BY <1>0, <1>12, <2>1 DEF ExtractMember, CacheInv, PackageTypeOK
<1>13. CASE UseExtracted
  BY <1>13 DEF UseExtracted, CacheInv, fileVars
<1>14. CASE BeginSync
  BY <1>14 DEF BeginSync, CacheInv, fileVars
<1>15. ASSUME NEW f \in Builds \X Names, RemoveLocalFile(f)
       PROVE  CacheInv'
  BY <1>15 DEF RemoveLocalFile, CacheInv, callVars
<1>16. CASE BeginCopy
  BY <1>16 DEF BeginCopy, CacheInv
<1>17. ASSUME NEW m \in Names, CopyFile(m)
       PROVE  CacheInv'
  BY <1>17 DEF CopyFile, CacheInv
<1>18. CASE SyncFails
  BY <1>18 DEF SyncFails, HalfDone, Return, NoCall, CacheInv, fileVars
<1>19. CASE EndOfCopy
  <2>1. \A b \in Builds : b \in torn => b \in torn'
    BY <1>0, <1>19 DEF EndOfCopy
  <2> QED
    BY <1>19, <2>1 DEF EndOfCopy, CacheInv, fileVars
<1>20. ASSUME NEW m \in Names, CleanFile(m)
       PROVE  CacheInv'
  <2>1. /\ extracted[call.build] \ {m} \subseteq Members[kind[call.build]]
        /\ extracted[call.build] \ {m} # NoDir
    BY <1>0, <1>20 DEF CleanFile, CacheInv
  <2> QED
    BY <1>0, <1>20, <2>1 DEF CleanFile, CacheInv, PackageTypeOK
<1>21. CASE EndOfSync
  BY <1>0, <1>21 DEF EndOfSync, CacheInv, PackageTypeOK
<1> QED
  BY <1>2, <1>3, <1>4, <1>5, <1>6, <1>7, <1>8, <1>9, <1>10, <1>11, <1>12, <1>13, <1>14, <1>15,
     <1>16, <1>17, <1>18, <1>19, <1>20, <1>21
     DEF PackageNext, Prepare, Download, Extraction, Sync

-------------------------------------------------------------------------------
(* The local tree. *)

(* Most steps leave the local tree alone, or stop a replacement of it.     *)
LocalStays ==
    /\ UNCHANGED <<local, kind>>
    /\ "local" \in torn \/ pc \in {"remove", "copy"} =>
          "local" \in torn' \/ pc' \in {"remove", "copy"}
    /\ pc' \notin {"copy", "clean"}

LEMMA LocalElsewhere ==
    ASSUME LocalInv, LocalStays
    PROVE  LocalInv'
<1>1. LocalFiles' = LocalFiles /\ \A b \in Builds : Files(b)' = Files(b)
  BY DEF LocalStays, LocalFiles, Files
<1> QED
  BY <1>1 DEF LocalInv, LocalStays

LEMMA LocalStep ==
    ASSUME PackageTypeOK, CacheInv, LocalInv, PackageNext
    PROVE  LocalInv'
<1>0. /\ call.build \in Builds /\ "local" \notin Builds
      /\ \A files \in SUBSET (Builds \X Names) : files # NoDir
      /\ kind[call.build] \in DOMAIN Members /\ Members[kind[call.build]] \subseteq Names
  BY PackageAssumption DEF PackageTypeOK
<1>1. LocalFiles \subseteq Builds \X Names
  BY DEF LocalFiles, PackageTypeOK
<1>2. ASSUME \/ \E m \in Modes, b \in Builds : Invoke(m, b)
             \/ EndOfUse \/ Download
      PROVE  LocalStays
  BY <1>2 DEF Invoke, EndOfUse, Download, NotResolved, NoReply, ReadFails, CheckArchive, Reply,
     Read, EndOfRead, Rename, Fail, Return, fileVars, LocalStays
<1>3. ASSUME Extraction \/ UseExtracted \/ BeginSync \/ SyncFails
      PROVE  LocalStays
  BY <1>3 DEF Extraction, SkipExtraction, BeginExtraction, ExtractionFails, EndOfExtraction,
     ExtractMember, UseExtracted, BeginSync, SyncFails, HalfDone, Fail, Return, fileVars,
     LocalStays
<1>4. CASE EndOfSync
  <2>1. LocalStays
    BY <1>0, <1>4 DEF EndOfSync, LocalStays
  <2> QED
    BY <2>1, LocalElsewhere
<1>5. ASSUME NEW f \in Builds \X Names, RemoveLocalFile(f)
      PROVE  LocalInv'
  <2>1. local = LocalFiles /\ pc = "remove" /\ UNCHANGED <<pc, kind, torn>>
    BY <1>5 DEF RemoveLocalFile, LocalFiles, callVars
  <2>2. LocalFiles' = LocalFiles \ {f}
    BY <1>0, <1>1, <1>5, <2>1 DEF RemoveLocalFile, LocalFiles
  <2> QED
    BY <2>1, <2>2 DEF LocalInv, Files
<1>6. CASE BeginCopy
  BY <1>6 DEF BeginCopy, LocalInv, LocalFiles
<1>7. ASSUME NEW m \in Names, CopyFile(m)
      PROVE  LocalInv'
  <2>1. /\ pc = "copy" /\ m \in left /\ UNCHANGED <<pc, kind, extracted, call, torn>>
        /\ local = {call.build} \X (extracted[call.build] \ left)
        /\ left \subseteq extracted[call.build]
        /\ extracted[call.build] \subseteq Members[kind[call.build]]
        /\ left' = left \ {m} /\ local' = local \cup {<<call.build, m>>}
    BY <1>0, <1>7 DEF CopyFile, LocalInv, CacheInv
  <2>2. local' = {call.build} \X (extracted[call.build] \ left')
    BY <2>1
  <2>3. local' \subseteq Files(call.build)'
    BY <2>1, <2>2 DEF Files
  <2>4. LocalFiles' \subseteq Files(call.build)'
    BY <2>3 DEF LocalFiles
  <2> QED
    BY <1>0, <2>1, <2>2, <2>4 DEF LocalInv
<1>8. CASE EndOfCopy
  <2>1. /\ pc = "copy" /\ pc' = "clean" /\ UNCHANGED <<kind, extracted, call, local>>
        /\ local = {call.build} \X extracted[call.build]
        /\ extracted[call.build] \subseteq Members[kind[call.build]]
    BY <1>0, <1>8 DEF EndOfCopy, CopyIsDone, LocalInv, CacheInv, fileVars
  <2>2. call.build \in torn => "local" \in torn'
    BY <1>8 DEF EndOfCopy
  <2>3. call.build \notin torn => extracted[call.build] = Members[kind[call.build]]
    BY <1>0, <2>1 DEF CacheInv
  <2>4. \/ local' = Files(call.build)'
        \/ local' \subseteq Files(call.build)' /\ "local" \in torn'
    BY <2>1, <2>2, <2>3 DEF Files
  <2>5. LocalFiles' = {} \/ LocalFiles' = local'
    BY DEF LocalFiles
  <2> QED
    BY <1>0, <2>1, <2>4, <2>5 DEF LocalInv
<1>9. ASSUME NEW m \in Names, CleanFile(m)
      PROVE  LocalInv'
  <2>1. /\ pc = "clean" /\ UNCHANGED <<pc, kind, call, local, torn>>
        /\ extracted'[call.build] \subseteq extracted[call.build]
    BY <1>0, <1>9 DEF CleanFile, PackageTypeOK
  <2>2. LocalFiles' = LocalFiles /\ \A b \in Builds : Files(b)' = Files(b)
    BY <2>1 DEF LocalFiles, Files
  <2> QED
    BY <1>0, <2>1, <2>2 DEF LocalInv
<1> QED
  BY <1>2, <1>3, <1>4, <1>5, <1>6, <1>7, <1>8, <1>9, LocalElsewhere
     DEF PackageNext, Prepare, Sync

-------------------------------------------------------------------------------
(* What a call works with. *)

(* The extracted directory that is used is whole, or a call has stopped in *)
(* the middle of it.                                                       *)
LEMMA ExtractedIsUsed ==
    ASSUME PackageTypeOK, CacheInv, extracted[call.build] # NoDir, pc \notin {"member", "clean"}
    PROVE  \/ {call.build} \X extracted[call.build] = Files(call.build)
           \/ /\ {call.build} \X extracted[call.build] \subseteq Files(call.build)
              /\ call.build \in torn
  BY DEF PackageTypeOK, CacheInv, Files

(* The local tree that is used is whole, or a call has stopped halfway.    *)
LEMMA LocalIsUsed ==
    ASSUME LocalInv, LocalFiles # {}, pc \notin {"remove", "copy"}
    PROVE  \E b \in Builds :
              \/ LocalFiles = Files(b)
              \/ LocalFiles \subseteq Files(b) /\ "local" \in torn
  BY DEF LocalInv

LEMMA UsedStep ==
    ASSUME PackageTypeOK, CacheInv, LocalInv, PackageNext
    PROVE  UsedIsWhole'
<1>0. /\ call.build \in Builds /\ "local" \notin Builds
      /\ kind[call.build] \in DOMAIN Members
  BY PackageAssumption DEF PackageTypeOK
<1>1. ASSUME NEW m \in Modes, NEW b \in Builds, Invoke(m, b)
      PROVE  UsedIsWhole'
  <2>1. CASE UsesLocal(m, b)
    <3>1. /\ m \in {"quick", "auto"} /\ call'.mode = m /\ tree' = LocalFiles /\ pc = "idle"
          /\ UNCHANGED <<kind, torn>>
      BY <1>1, <2>1 DEF Invoke, UsesLocal
    <3> QED
      BY <3>1, LocalIsUsed DEF UsedIsWhole, Files
  <2>2. CASE ~UsesLocal(m, b)
    BY <1>1, <2>2 DEF Invoke, UsedIsWhole
  <2> QED
    BY <2>1, <2>2
<1>2. ASSUME Fail, pc \in {"archive", "request", "read", "member"}, kind' = kind,
             torn \subseteq torn'
      PROVE  UsedIsWhole'
  <2>1. CASE Return
    BY <2>1 DEF Return, UsedIsWhole
  <2>2. CASE call.mode = "auto" /\ call' = call /\ tree' \in {LocalFiles, {}}
    BY <1>2, <2>2, LocalIsUsed DEF UsedIsWhole, Files
  <2> QED
    BY <1>2, <2>1, <2>2 DEF Fail, GoesOnWithout
<1>3. ASSUME NotResolved \/ NoReply \/ ReadFails \/ ExtractionFails
      PROVE  UsedIsWhole'
  BY <1>2, <1>3 DEF NotResolved, NoReply, ReadFails, ExtractionFails
<1>4. ASSUME \/ EndOfUse \/ CheckArchive \/ (\E code \in {200, 206} : Reply(code))
             \/ EndOfRead \/ Rename \/ SkipExtraction \/ BeginExtraction \/ EndOfExtraction
             \/ BeginSync \/ BeginCopy \/ EndOfCopy
      PROVE  pc' \notin {"use", "flash"}
  BY <1>4 DEF EndOfUse, CheckArchive, Reply, EndOfRead, Rename, SkipExtraction,
     BeginExtraction, EndOfExtraction, BeginSync, BeginCopy, EndOfCopy, Return
<1>5. ASSUME \/ Read \/ (\E m \in Names : ExtractMember(m) \/ CopyFile(m) \/ CleanFile(m))
             \/ \E f \in Builds \X Names : RemoveLocalFile(f)
      PROVE  pc' \notin {"use", "flash"}
  BY <1>5 DEF Read, ExtractMember, CopyFile, CleanFile, RemoveLocalFile, callVars
<1>6. CASE UseExtracted
  <2>1. /\ pc = "found" /\ extracted[call.build] # NoDir /\ UNCHANGED <<kind, call, torn>>
        /\ tree' = Discovered(call.build)
    BY <1>6 DEF UseExtracted, CacheInv
  <2>2. CASE Found(call.build)
    <3>1. tree' = {call.build} \X extracted[call.build]
      BY <2>1, <2>2 DEF Discovered
    <3> QED
      BY <1>0, <2>1, <3>1, ExtractedIsUsed DEF UsedIsWhole, Files
  <2>3. CASE ~Found(call.build) /\ tree' # {}
    <3>1. /\ tree' = LocalFiles /\ call.mode \in {"explicit", "auto"}
          /\ kind[call.build] = "tests"
      BY <2>1, <2>3 DEF Discovered
    <3>2. Marker \in Members[kind[call.build]] /\ Marker \notin extracted[call.build]
      BY <2>1, <2>3, <3>1, PackageAssumption DEF Found
    <3>3. call.build \in torn
      BY <1>0, <2>1, <3>2 DEF CacheInv
    <3> QED
      BY <2>1, <2>3, <3>1, <3>3, LocalIsUsed DEF UsedIsWhole, Files
  <2> QED
    BY <2>2, <2>3 DEF UsedIsWhole
<1>7. CASE SyncFails
  <2>1. CASE Return
    BY <2>1 DEF Return, UsedIsWhole
  <2>2. CASE tree' = {call.build} \X extracted[call.build] /\ call' = call
    <3>1. extracted[call.build] # NoDir /\ kind' = kind /\ torn' = torn \cup HalfDone
      BY <1>7 DEF SyncFails, CacheInv
    <3>2. CASE pc = "clean"
      <4>1. call.build \in torn'
        BY <3>1, <3>2 DEF HalfDone
      <4>2. tree' \subseteq Files(call.build)
        BY <1>0, <2>2, <3>1 DEF CacheInv, Files
      <4> QED
        BY <1>0, <2>2, <3>1, <4>1, <4>2 DEF UsedIsWhole, Files
    <3>3. CASE pc # "clean"
      <4>1. pc \notin {"member", "clean"}
        BY <1>7, <3>3 DEF SyncFails
      <4> QED
        BY <1>0, <2>2, <3>1, <4>1, ExtractedIsUsed DEF UsedIsWhole, Files
    <3> QED
      BY <3>2, <3>3
  <2> QED
    BY <1>7, <2>1, <2>2 DEF SyncFails
<1>8. CASE EndOfSync
  <2>1. /\ pc = "clean" /\ left = {} /\ tree' = LocalFiles /\ UNCHANGED <<kind, call>>
        /\ torn' = torn \ {call.build}
    BY <1>8 DEF EndOfSync
  <2>2. \/ local = Files(call.build)
        \/ local \subseteq Files(call.build) /\ "local" \in torn
    BY <2>1 DEF LocalInv
  <2>3. tree' # {} => tree' = local
    BY <2>1 DEF LocalFiles
  <2>4. "local" \in torn => "local" \in torn'
    BY <1>0, <2>1
  <2> QED
    BY <1>0, <2>1, <2>2, <2>3, <2>4 DEF UsedIsWhole, Files
<1> QED
  BY <1>1, <1>3, <1>4, <1>5, <1>6, <1>7, <1>8
     DEF PackageNext, Prepare, Download, Extraction, Sync, UsedIsWhole

-------------------------------------------------------------------------------
(* The ends of a call, and steps beside it. *)

PackageInv ==
    PackageTypeOK /\ DownloadInv /\ CacheInv /\ LocalInv /\ UsedIsWhole

LEMMA PackageStep ==
    ASSUME PackageInv, PackageNext
    PROVE  PackageInv'
  BY PackageTypeStep, DownloadStep, CacheStep, LocalStep, UsedStep DEF PackageInv

(* A call that ends, whatever it is doing, leaves its files as they are.   *)
LEMMA PackageReturns ==
    ASSUME PackageInv, Return, UNCHANGED <<kind, fileVars, cut>>, torn' = torn \cup HalfDone
    PROVE  PackageInv'
<1>0. call.build \in Builds /\ HalfDone \subseteq Builds \cup {"local"}
  BY DEF PackageInv, PackageTypeOK, HalfDone
<1>1. PackageTypeOK'
  BY <1>0, NoCallIsTyped, PackageAssumption
     DEF PackageInv, PackageTypeOK, Return, Steps, fileVars
<1>2. DownloadInv'
  <2>1. DownloadStays
    BY DEF DownloadStays, Return, fileVars
  <2> QED
    BY <2>1, DownloadElsewhere DEF PackageInv
<1>3. CacheInv'
  BY DEF PackageInv, CacheInv, Return, NoCall, HalfDone, fileVars
<1>4. LocalInv'
  <2>1. LocalStays
    BY DEF LocalStays, Return, HalfDone, fileVars
  <2> QED
    BY <2>1, LocalElsewhere DEF PackageInv
<1>5. UsedIsWhole'
  BY DEF UsedIsWhole, Return
<1> QED
  BY <1>1, <1>2, <1>3, <1>4, <1>5 DEF PackageInv

LEMMA PackageStays ==
    ASSUME PackageInv, UNCHANGED packageVars
    PROVE  PackageInv'
<1>1. /\ UNCHANGED <<kind, part, archive, extracted, local, pc, call, next, left, tree, cut, torn>>
  BY DEF packageVars, fileVars, callVars
<1>2. LocalFiles' = LocalFiles /\ \A b \in Builds : Files(b)' = Files(b)
  BY <1>1 DEF LocalFiles, Files
<1>3. PackageTypeOK' /\ DownloadInv' /\ CacheInv'
  BY <1>1 DEF PackageInv, PackageTypeOK, DownloadInv, CacheInv
<1>4. call.build \in Builds
  BY DEF PackageInv, PackageTypeOK
<1>5. LocalInv'
  BY <1>1, <1>2, <1>4 DEF PackageInv, LocalInv
<1>6. UsedIsWhole'
  BY <1>1 DEF PackageInv, UsedIsWhole, Files
<1> QED
  BY <1>3, <1>5, <1>6 DEF PackageInv

-------------------------------------------------------------------------------
(* The image that is flashed. *)

LEMMA ImageStep ==
    ASSUME PackageInv, ImageInv, Next
    PROVE  ImageInv'
<1>1. CASE PackageNext /\ UNCHANGED flashVars
  <2>1. pc # "flash"
    BY <1>1 DEF PackageNext, Invoke, EndOfUse, Prepare, Download, NotResolved, CheckArchive,
       NoReply, Reply, Read, EndOfRead, ReadFails, Rename, Extraction, SkipExtraction,
       BeginExtraction, ExtractionFails, EndOfExtraction, ExtractMember, UseExtracted, Sync,
       BeginSync, BeginCopy, SyncFails, EndOfCopy, EndOfSync, RemoveLocalFile, CopyFile,
       CleanFile
  <2>2. step' = "none"
    BY <1>1, <2>1 DEF ImageInv, flashVars, callState
  <2>3. pc' = "flash" => UseExtracted
    BY <1>1, <2>1 DEF PackageNext, Invoke, EndOfUse, Prepare, Download, NotResolved,
       CheckArchive, NoReply, Reply, Read, EndOfRead, ReadFails, Rename, Extraction,
       SkipExtraction, BeginExtraction, ExtractionFails, EndOfExtraction, ExtractMember, Sync,
       BeginSync, BeginCopy, SyncFails, EndOfCopy, EndOfSync, RemoveLocalFile, CopyFile,
       CleanFile, Fail, Return, callVars
  <2>4. ASSUME UseExtracted, pc' = "flash"
        PROVE  call'.mode = "flash" /\ tree' = {call'.build} \X extracted'[call'.build]
    BY <2>4 DEF UseExtracted, Discovered, fileVars
  <2> QED
    BY <2>2, <2>3, <2>4 DEF ImageInv
<1>2. ASSUME NEW d \in Devices \cup {NoDevice}, FlashPrepared(d)
      PROVE  ImageInv'
  BY <1>2 DEF FlashPrepared, BeginFlash, ImageInv, packageVars, fileVars, callVars
<1>3. CASE ReportFlash \/ Killed
  BY <1>3 DEF ReportFlash, Killed, Die, EndOfFlash, Return, ImageInv
<1>4. CASE pc = "flash" /\ (FlashStep \/ Environment) /\ UNCHANGED packageVars
  <2>1. UNCHANGED <<pc, call, tree, extracted>>
    BY <1>4 DEF packageVars, fileVars, callVars
  <2>2. root' = root /\ (step' # "none" => step # "none")
    <3>1. CASE FlashStep
      BY <3>1 DEF FlashStep, Look, LookTargets, BootFails, SeeLoader, NoLoader, Start, Timeout,
         SeeExit, EndOfDrain, Boot, ChildExits, GiveUp
    <3>2. CASE Environment
      BY <3>2 DEF Environment, SwitchByHand, Appear, ToolEnds, ToolFails, TakeDevice, WritePart,
         callState
    <3> QED
      BY <1>4, <3>1, <3>2
  <2> QED
    BY <2>1, <2>2 DEF ImageInv
<1> QED
  BY <1>1, <1>2, <1>3, <1>4 DEF Next

-------------------------------------------------------------------------------
(* Flashing: types. *)

Tool == [device : Devices \cup {NoDevice}, left : SUBSET (Images \X Parts), own : BOOLEAN]

(* One tool goes on as another: with a device, or with less to write.      *)
Retool(t, u) ==
    /\ t \in tools /\ u \in Tool /\ u.own = t.own
    /\ tools' = (tools \ {t}) \cup {u}

LEMMA TakesDevice ==
    ASSUME FlashTypeOK, NEW t \in tools, NEW d \in Devices, TakeDevice(t, d)
    PROVE  \E u : Retool(t, u) /\ u.device = d /\ u.left = t.left
<1>1. t \in Tool /\ [t EXCEPT !.device = d] \in Tool
  BY DEF FlashTypeOK, Tool
<1> QED
  BY <1>1 DEF TakeDevice, Retool, Tool

LEMMA WritesPart ==
    ASSUME FlashTypeOK, NEW t \in tools, NEW f \in t.left, WritePart(t, f)
    PROVE  /\ t.device \in Devices /\ f \in Images \X Parts
           /\ \E u : Retool(t, u) /\ u.device = t.device /\ u.left = t.left \ {f}
           /\ \A d \in Devices, p \in Parts :
                 flash'[d][p] = IF d = t.device /\ p = f[2] THEN f[1] ELSE flash[d][p]
<1>1. t \in Tool /\ f \in Images \X Parts /\ t.device \in Devices
  BY DEF FlashTypeOK, Tool, WritePart
<1> DEFINE u == [t EXCEPT !.left = @ \ {f}]
<1>2. u \in Tool /\ u.own = t.own /\ u.device = t.device /\ u.left = t.left \ {f}
  BY <1>1 DEF Tool
<1>3. \A d \in Devices, p \in Parts :
         flash'[d][p] = IF d = t.device /\ p = f[2] THEN f[1] ELSE flash[d][p]
  BY <1>1 DEF WritePart, FlashTypeOK
<1>4. Retool(t, u)
  BY <1>2 DEF WritePart, Retool
<1> HIDE DEF u
<1> QED
  BY <1>1, <1>2, <1>3, <1>4

LEMMA Disowned ==
    ASSUME FlashTypeOK, NEW t \in tools
    PROVE  LET u == [t EXCEPT !.own = FALSE] IN
              u \in Tool /\ ~u.own /\ u.device = t.device /\ u.left = t.left
  BY DEF FlashTypeOK, Tool

FlashNext ==
    \/ FlashStep \/ Environment \/ EndOfFlash
    \/ \E d \in Devices \cup {NoDevice} : BeginFlash(d, tree)

(* The image that a flash begins with.                                     *)
LEMMA PreparedImage ==
    ASSUME PackageInv, ImageInv, pc = "flash"
    PROVE  /\ tree \subseteq Images \X Parts
           /\ call.build \in Builds /\ Members[kind[call.build]] = Parts
           /\ tree = {call.build} \X extracted[call.build]
<1>1. call.build \in Builds /\ kind[call.build] = "firmware" /\ extracted[call.build] # NoDir
  BY DEF PackageInv, PackageTypeOK, CacheInv, ImageInv
<1>2. extracted[call.build] \subseteq Members["firmware"]
  BY <1>1 DEF PackageInv, CacheInv
<1> QED
  BY <1>1, <1>2, ImageAssumption DEF ImageInv

LEMMA FlashTypeStep ==
    ASSUME FlashTypeOK, tree \subseteq Images \X Parts, FlashNext
    PROVE  FlashTypeOK'
<1>0. tools \subseteq Tool /\ NoDevice \notin Devices
  BY FlashAssumption DEF FlashTypeOK, Tool
<1>1. CASE Look \/ LookTargets \/ BootFails \/ SeeLoader \/ NoLoader \/ SeeExit \/ EndOfDrain
  BY <1>1 DEF Look, LookTargets, BootFails, BootTargets, Targets, SeeLoader, NoLoader, SeeExit,
     EndOfDrain, GiveUp, FlashTypeOK
<1>2. CASE Start
  <2>1. [device |-> NoDevice, left |-> root, own |-> TRUE] \in Tool
    BY DEF FlashTypeOK, Tool
  <2> QED
    BY <1>2, <2>1 DEF Start, FlashTypeOK, Tool
<1>3. CASE Timeout
  <2>1. tools' \subseteq Tool
    BY <1>3, Disowned DEF Timeout
  <2> QED
    BY <1>3, <2>1 DEF Timeout, FlashTypeOK, Tool
<1>4. ASSUME NEW d \in Devices, Boot(d)
      PROVE  FlashTypeOK'
  BY <1>4 DEF Boot, FlashTypeOK
<1>5. ASSUME NEW how \in {"ok", "error"}, ChildExits(how)
      PROVE  FlashTypeOK'
  BY <1>5 DEF ChildExits, FlashTypeOK
<1>6. ASSUME NEW d \in Devices, SwitchByHand(d)
      PROVE  FlashTypeOK'
  BY <1>6 DEF SwitchByHand, callState, FlashTypeOK
<1>7. ASSUME NEW d \in Devices, NEW how \in {"loader", "hdc"}, Appear(d, how)
      PROVE  FlashTypeOK'
  BY <1>7 DEF Appear, callState, FlashTypeOK
<1>8. ASSUME NEW t \in tools, ToolEnds(t) \/ ToolFails(t)
      PROVE  FlashTypeOK'
  <2>1. t.own \in BOOLEAN
    BY <1>0 DEF Tool
  <2> QED
    BY <1>0, <1>8, <2>1 DEF ToolEnds, ToolFails, callState, FlashTypeOK
<1>9. ASSUME NEW t \in tools, NEW d \in Devices, TakeDevice(t, d)
      PROVE  FlashTypeOK'
  <2>1. PICK u : Retool(t, u)
    BY <1>9, TakesDevice
  <2>2. tools' \subseteq Tool
    BY <1>0, <2>1 DEF Retool
  <2> QED
    BY <1>9, <2>2 DEF TakeDevice, callState, FlashTypeOK, Tool
<1>10. ASSUME NEW t \in tools, NEW f \in t.left, WritePart(t, f)
       PROVE  FlashTypeOK'
  <2>1. PICK u : Retool(t, u)
    BY <1>10, WritesPart
  <2>2. tools' \subseteq Tool
    BY <1>0, <2>1 DEF Retool
  <2>3. t.device \in Devices /\ f[1] \in Images /\ f[2] \in Parts
    BY <1>10, WritesPart
  <2>4. flash' \in [Devices -> [Parts -> Images \cup {Older}]]
    BY <1>10, <2>3 DEF WritePart, FlashTypeOK
  <2> QED
    BY <1>10, <2>2, <2>3, <2>4 DEF WritePart, callState, FlashTypeOK, Tool
<1>11. CASE EndOfFlash
  <2>1. tools' \subseteq Tool
    BY <1>11, Disowned DEF EndOfFlash
  <2> QED
    BY <1>11, <2>1 DEF EndOfFlash, FlashTypeOK, Tool
<1>12. ASSUME NEW d \in Devices \cup {NoDevice}, BeginFlash(d, tree)
       PROVE  FlashTypeOK'
  <2>1. mixed' \subseteq Devices
    BY <1>0, <1>12 DEF BeginFlash, Tool
  <2> QED
    BY <1>12, <2>1 DEF BeginFlash, FlashTypeOK
<1> QED
  BY <1>1, <1>2, <1>3, <1>4, <1>5, <1>6, <1>7, <1>8, <1>9, <1>10, <1>11, <1>12
     DEF FlashNext, FlashStep, Environment

-------------------------------------------------------------------------------
(* Flashing: the tool of the present call. *)

LEMMA NobodysTools ==
    ASSUME FlashTypeOK, Timeout \/ EndOfFlash
    PROVE  \A u \in tools' : ~u.own
<1>1. \A t \in tools : ~[t EXCEPT !.own = FALSE].own
  BY Disowned
<1>2. \A u \in tools' : \E t \in tools : u = [t EXCEPT !.own = FALSE]
  BY DEF Timeout, EndOfFlash
<1> QED
  BY <1>1, <1>2

LEMMA ToolStep ==
    ASSUME FlashTypeOK, ToolInv, FlashNext
    PROVE  ToolInv'
<1>0. tools \subseteq Tool /\ NoDevice \notin Devices
  BY FlashAssumption DEF FlashTypeOK, Tool
<1>1. CASE Look \/ LookTargets \/ BootFails \/ SeeLoader \/ NoLoader \/ SeeExit \/ EndOfDrain
  BY <1>1 DEF Look, LookTargets, BootFails, SeeLoader, NoLoader, SeeExit, EndOfDrain,
     PipeIsClosed, GiveUp, ToolInv, OwnTools
<1>2. CASE Start
  <2> DEFINE new == [device |-> NoDevice, left |-> root, own |-> TRUE]
  <2>1. new.own /\ new.device = NoDevice /\ tools' = tools \cup {new}
    BY <1>2 DEF Start
  <2>2. \A t \in tools : ~t.own
    BY <1>2 DEF Start, ToolInv, OwnTools
  <2> HIDE DEF new
  <2> QED
    BY <1>2, <2>1, <2>2 DEF Start, ToolInv, OwnTools
<1>3. CASE Timeout
  BY <1>3, NobodysTools DEF Timeout, ToolInv, OwnTools
<1>4. ASSUME NEW d \in Devices, Boot(d)
      PROVE  ToolInv'
  BY <1>4 DEF Boot, ToolInv, OwnTools
<1>5. ASSUME NEW how \in {"ok", "error"}, ChildExits(how)
      PROVE  ToolInv'
  BY <1>5 DEF ChildExits, ToolInv, OwnTools
<1>6. ASSUME NEW d \in Devices,
             SwitchByHand(d) \/ \E how \in {"loader", "hdc"} : Appear(d, how)
      PROVE  ToolInv'
  BY <1>6 DEF SwitchByHand, Appear, callState, ToolInv, OwnTools
<1>7. ASSUME NEW t \in tools, ToolEnds(t)
      PROVE  ToolInv'
  BY <1>0, <1>7 DEF ToolEnds, ToolInv, OwnTools, Tool
<1>8. ASSUME NEW t \in tools, ToolFails(t)
      PROVE  ToolInv'
  BY <1>8 DEF ToolFails, callState, ToolInv, OwnTools
<1>9. ASSUME NEW t \in tools, NEW u, Retool(t, u), UNCHANGED callState, mixed \subseteq mixed',
             u.own \/ u.device \in mixed' \cup {NoDevice}
      PROVE  ToolInv'
  BY <1>0, <1>9 DEF Retool, callState, ToolInv, OwnTools
<1>10. ASSUME NEW t \in tools, NEW d \in Devices, TakeDevice(t, d)
       PROVE  ToolInv'
  <2>1. PICK u : Retool(t, u) /\ u.device = d
    BY <1>10, TakesDevice
  <2> QED
    BY <1>9, <1>10, <2>1 DEF TakeDevice, Retool
<1>11. ASSUME NEW t \in tools, NEW f \in t.left, WritePart(t, f)
       PROVE  ToolInv'
  <2>1. PICK u : Retool(t, u) /\ u.device = t.device
    BY <1>11, WritesPart
  <2> QED
    BY <1>9, <1>11, <2>1 DEF WritePart, Retool
<1>12. CASE EndOfFlash
  BY <1>12, NobodysTools DEF EndOfFlash, ToolInv, OwnTools
<1>13. ASSUME NEW d \in Devices \cup {NoDevice}, BeginFlash(d, tree)
       PROVE  ToolInv'
  BY <1>13 DEF BeginFlash, ToolInv, OwnTools
<1> QED
  BY <1>1, <1>2, <1>3, <1>4, <1>5, <1>6, <1>7, <1>8, <1>10, <1>11, <1>12, <1>13
     DEF FlashNext, FlashStep, Environment

(* An image has one content for each partition.                            *)
LEMMA WriteStep ==
    ASSUME FlashTypeOK, ToolInv, WriteInv, FlashNext,
           step # "none" => \A f, g \in root : f[2] = g[2] => f[1] = g[1]
    PROVE  WriteInv'
<1>0. tools \subseteq Tool /\ NoDevice \notin Devices /\ root \subseteq Images \X Parts
  BY FlashAssumption DEF FlashTypeOK, Tool
<1>1. ASSUME \/ Look \/ LookTargets \/ BootFails \/ SeeLoader \/ NoLoader \/ SeeExit
             \/ EndOfDrain \/ \E d \in Devices : Boot(d)
      PROVE  WriteInv'
  <2>1. UNCHANGED <<flash, root, ok, tools, mixed>>
    BY <1>1 DEF Look, LookTargets, BootFails, SeeLoader, NoLoader, SeeExit, EndOfDrain, Boot,
       GiveUp
  <2> QED
    BY <2>1 DEF WriteInv, Written
<1>2. CASE Start
  <2> DEFINE new == [device |-> NoDevice, left |-> root, own |-> TRUE]
  <2>1. new.left = root /\ new.device = NoDevice /\ tools' = tools \cup {new}
    BY <1>2 DEF Start
  <2> HIDE DEF new
  <2> QED
    BY <1>2, <2>1 DEF Start, WriteInv, Written
<1>3. CASE Timeout
  BY <1>3, NobodysTools DEF Timeout, WriteInv, Written
<1>4. ASSUME NEW how \in {"ok", "error"}, ChildExits(how)
      PROVE  WriteInv'
  BY <1>4 DEF ChildExits, WriteInv, Written
<1>5. ASSUME NEW d \in Devices,
             SwitchByHand(d) \/ \E how \in {"loader", "hdc"} : Appear(d, how)
      PROVE  WriteInv'
  BY <1>5 DEF SwitchByHand, Appear, callState, WriteInv, Written
<1>6. ASSUME NEW t \in tools, ToolEnds(t)
      PROVE  WriteInv'
  <2>1. /\ t.device \in Devices /\ t.left = {} /\ tools' = tools \ {t}
        /\ UNCHANGED <<flash, root, mixed>> /\ ok' = (ok \/ t.own)
    BY <1>0, <1>6 DEF ToolEnds, Tool
  <2>2. t.own => Written(t.device, root)
    BY <2>1, <1>0 DEF WriteInv, Written
  <2> QED
    BY <2>1, <2>2 DEF WriteInv, Written
<1>7. ASSUME NEW t \in tools, ToolFails(t)
      PROVE  WriteInv'
  BY <1>7 DEF ToolFails, callState, WriteInv, Written
<1>8. ASSUME NEW t \in tools, NEW d \in Devices, TakeDevice(t, d)
      PROVE  WriteInv'
  <2>1. PICK u : Retool(t, u) /\ u.device = d /\ u.left = t.left
    BY <1>8, TakesDevice
  <2>2. t.own => u.left = root
    BY <1>8, <2>1 DEF TakeDevice, WriteInv
  <2>3. UNCHANGED <<flash, root, ok>> /\ mixed \subseteq mixed'
    BY <1>8 DEF TakeDevice, callState
  <2> QED
    BY <1>0, <2>1, <2>2, <2>3 DEF Retool, WriteInv, Written
<1>9. ASSUME NEW t \in tools, NEW f \in t.left, WritePart(t, f)
      PROVE  WriteInv'
  <2>1. PICK u : Retool(t, u) /\ u.device = t.device /\ u.left = t.left \ {f}
    BY <1>9, WritesPart
  <2>2. /\ t.device \in Devices /\ UNCHANGED <<root, ok>>
        /\ mixed' = IF t.own THEN mixed ELSE mixed \cup {t.device}
    BY <1>9, WritesPart DEF WritePart, callState
  <2>3. \A d \in Devices, p \in Parts :
           flash'[d][p] = IF d = t.device /\ p = f[2] THEN f[1] ELSE flash[d][p]
    BY <1>9, WritesPart
  <2>4. \A files \in SUBSET (Images \X Parts), d \in Devices :
           ~t.own /\ Written(d, files) => Written(d, files)'
    BY <2>2, <2>3 DEF Written
  <2>5. ASSUME NEW v \in tools', v.own
        PROVE  /\ v.left \subseteq root'
               /\ v.device = NoDevice => v.left = root'
               /\ v.device # NoDevice => Written(v.device, root \ v.left)'
    <3>1. CASE t.own
      <4>1. v = u
        BY <2>1, <2>5, <3>1 DEF Retool, ToolInv
      <4>2. f \in root /\ \A g \in root : g[2] = f[2] => g[1] = f[1]
        BY <1>9, <3>1 DEF WriteInv, ToolInv, OwnTools
      <4>3. v.device = t.device /\ v.left = t.left \ {f} /\ t.left \subseteq root
        BY <2>1, <3>1, <4>1 DEF WriteInv
      <4>4. Written(t.device, root \ t.left)
        BY <2>2, <3>1, <1>0 DEF WriteInv
      <4>5. Written(v.device, root \ v.left)'
        BY <1>0, <2>2, <2>3, <4>2, <4>3, <4>4 DEF Written
      <4> QED
        BY <1>0, <2>2, <4>3, <4>5
    <3>2. CASE ~t.own
      <4>1. v \in tools /\ v.device \in Devices \cup {NoDevice}
        BY <1>0, <2>1, <2>5, <3>2 DEF Retool, Tool
      <4>2. /\ v.left \subseteq root
            /\ v.device = NoDevice => v.left = root
            /\ v.device # NoDevice => Written(v.device, root \ v.left)
        BY <2>5, <4>1 DEF WriteInv
      <4>3. root \ v.left \in SUBSET (Images \X Parts)
        BY <1>0
      <4>4. v.device # NoDevice => Written(v.device, root \ v.left)'
        BY <2>2, <2>4, <3>2, <4>1, <4>2, <4>3 DEF Written
      <4> QED
        BY <2>2, <4>2, <4>4
    <3> QED
      BY <3>1, <3>2
  <2>6. ASSUME ok
        PROVE  \E d \in Devices : Written(d, root)'
    <3>1. ~t.own
      BY <2>6 DEF ToolInv, OwnTools
    <3>2. PICK d \in Devices : Written(d, root)
      BY <2>6 DEF WriteInv
    <3>3. root \in SUBSET (Images \X Parts)
      BY <1>0
    <3> QED
      BY <2>2, <2>4, <3>1, <3>2, <3>3 DEF Written
  <2> QED
    BY <2>2, <2>5, <2>6 DEF WriteInv
<1>10. CASE EndOfFlash
  BY <1>10, NobodysTools DEF EndOfFlash, WriteInv
<1>11. ASSUME NEW d \in Devices \cup {NoDevice}, BeginFlash(d, tree)
       PROVE  WriteInv'
  BY <1>11 DEF BeginFlash, ToolInv, OwnTools, WriteInv
<1> QED
  BY <1>1, <1>2, <1>3, <1>4, <1>5, <1>6, <1>7, <1>8, <1>9, <1>10, <1>11
     DEF FlashNext, FlashStep, Environment

-------------------------------------------------------------------------------
(* Flashing: the device that is taken. *)

LEMMA DeviceStep ==
    ASSUME FlashTypeOK, ToolInv, DeviceInv, FlashNext
    PROVE  DeviceInv'
<1>0. tools \subseteq Tool /\ NoDevice \notin Devices
  BY FlashAssumption DEF FlashTypeOK, Tool
<1>1. CASE Look \/ LookTargets \/ SeeLoader \/ NoLoader \/ SeeExit \/ EndOfDrain
  BY <1>1 DEF Look, LookTargets, SeeLoader, NoLoader, SeeExit, EndOfDrain, GiveUp, DeviceInv
<1>2. CASE BootFails
  BY <1>2 DEF BootFails, BootTargets, Targets, GiveUp, FlashTypeOK, ToolInv, OwnTools, DeviceInv
<1>3. ASSUME NEW d \in Devices, Boot(d)
      PROVE  DeviceInv'
  BY <1>3 DEF Boot, BootTargets, Targets, FlashTypeOK, ToolInv, OwnTools, DeviceInv
<1>4. CASE Start
  <2> DEFINE new == [device |-> NoDevice, left |-> root, own |-> TRUE]
  <2>1. new.device = NoDevice /\ tools' = tools \cup {new}
    BY <1>4 DEF Start
  <2> HIDE DEF new
  <2> QED
    BY <1>4, <2>1 DEF Start, DeviceInv
<1>5. CASE Timeout
  BY <1>5, NobodysTools DEF Timeout, DeviceInv
<1>6. ASSUME NEW how \in {"ok", "error"}, ChildExits(how)
      PROVE  DeviceInv'
  BY <1>6 DEF ChildExits, DeviceInv
<1>7. ASSUME NEW d \in Devices, SwitchByHand(d)
      PROVE  DeviceInv'
  BY <1>0, <1>7 DEF SwitchByHand, callState, FlashTypeOK, DeviceInv, Tool
<1>8. ASSUME NEW d \in Devices, NEW how \in {"loader", "hdc"}, Appear(d, how)
      PROVE  DeviceInv'
  BY <1>0, <1>8 DEF Appear, callState, FlashTypeOK, DeviceInv, Tool
<1>9. ASSUME NEW t \in tools, ToolEnds(t)
      PROVE  DeviceInv'
  <2>1. /\ t.device \in Devices /\ tools' = tools \ {t} /\ UNCHANGED <<step, want, mixed>>
        /\ strays' = strays \ {t.device}
        /\ \A d \in Devices : usb'[d] = IF d = t.device THEN "hdc" ELSE usb[d]
    BY <1>0, <1>9 DEF ToolEnds, FlashTypeOK, Tool
  <2>2. ASSUME NEW u \in tools', u.own, u.device = t.device
        PROVE  u.device \in mixed
    <3>1. ~t.own /\ step \in {"stream", "drain"}
      BY <2>1, <2>2 DEF ToolInv, OwnTools
    <3> QED
      BY <1>0, <2>1, <2>2, <3>1 DEF ToolInv
  <2>3. \A u \in tools' : u.device \in Devices \cup {NoDevice}
    BY <1>0, <2>1 DEF Tool
  <2> QED
    BY <2>1, <2>2, <2>3 DEF DeviceInv
<1>10. ASSUME NEW t \in tools, ToolFails(t)
      PROVE  DeviceInv'
  BY <1>10 DEF ToolFails, callState, DeviceInv
<1>11. ASSUME NEW t \in tools, NEW d \in Devices, TakeDevice(t, d)
       PROVE  DeviceInv'
  <2>1. PICK u : Retool(t, u) /\ u.device = d
    BY <1>11, TakesDevice
  <2>2. usb[d] = "loader" /\ UNCHANGED <<usb, step, want, strays>> /\ mixed \subseteq mixed'
    BY <1>11 DEF TakeDevice, Loaders, callState
  <2> QED
    BY <2>1, <2>2 DEF Retool, DeviceInv
<1>12. ASSUME NEW t \in tools, NEW f \in t.left, WritePart(t, f)
       PROVE  DeviceInv'
  <2>1. PICK u : Retool(t, u) /\ u.device = t.device
    BY <1>12, WritesPart
  <2>2. UNCHANGED <<usb, step, want, strays>> /\ mixed \subseteq mixed'
    BY <1>12 DEF WritePart, callState
  <2> QED
    BY <2>1, <2>2 DEF Retool, DeviceInv
<1>13. CASE EndOfFlash
  BY <1>13, NobodysTools DEF EndOfFlash, DeviceInv
<1>14. ASSUME NEW d \in Devices \cup {NoDevice}, BeginFlash(d, tree)
       PROVE  DeviceInv'
  BY <1>14 DEF BeginFlash, ToolInv, OwnTools, DeviceInv
<1> QED
  BY <1>1, <1>2, <1>3, <1>4, <1>5, <1>6, <1>7, <1>8, <1>9, <1>10, <1>11, <1>12, <1>13, <1>14
     DEF FlashNext, FlashStep, Environment

-------------------------------------------------------------------------------
(* The inductive invariant. *)

LEMMA FlashStays ==
    ASSUME UNCHANGED flashVars, FlashTypeOK, ToolInv, WriteInv, DeviceInv
    PROVE  FlashTypeOK' /\ ToolInv' /\ WriteInv' /\ DeviceInv'
<1>1. UNCHANGED <<usb, flash, step, want, root, child, ok, status, tools, strays, mixed>>
  BY DEF flashVars, callState
<1>2. FlashTypeOK' /\ DeviceInv'
  BY <1>1 DEF FlashTypeOK, DeviceInv
<1>3. ToolInv' /\ WriteInv'
  BY <1>1 DEF ToolInv, OwnTools, WriteInv, Written
<1> QED
  BY <1>2, <1>3

LEMMA InitInv == Init => IInv
<1> SUFFICES ASSUME Init
             PROVE  IInv
  OBVIOUS
<1> USE DEF Init, PackageInit, FlashInit
<1>1. PackageTypeOK
  <2>1. NoFile \in Contents /\ Size \in Nat
    BY PackageAssumption DEF Contents
  <2> QED
    BY <2>1, NoCallIsTyped DEF PackageTypeOK, Steps
<1>2. FlashTypeOK
  BY DEF FlashTypeOK
<1>3. DownloadInv /\ CacheInv
  BY DEF DownloadInv, CacheInv, NoCall
<1>4. LocalInv /\ UsedIsWhole
  BY DEF LocalInv, LocalFiles, UsedIsWhole
<1>5. ImageInv /\ ToolInv /\ WriteInv /\ DeviceInv
  BY DEF ImageInv, ToolInv, OwnTools, WriteInv, DeviceInv
<1> QED
  BY <1>1, <1>2, <1>3, <1>4, <1>5 DEF IInv

(* The steps of the whole, as the preparation and the flash see them.      *)
LEMMA PackageMoves ==
    ASSUME PackageInv, ImageInv, Next
    PROVE  \/ PackageNext
           \/ Return /\ UNCHANGED <<kind, fileVars, cut>> /\ torn' = torn \cup HalfDone
           \/ UNCHANGED packageVars
<1>1. ReportFlash => torn = torn \cup HalfDone
  BY DEF ReportFlash, ImageInv, HalfDone
<1> QED
  BY <1>1 DEF Next, FlashPrepared, ReportFlash, Killed, Die

LEMMA FlashMoves ==
    ASSUME Next
    PROVE  (pc = "flash" /\ FlashNext) \/ EndOfFlash \/ UNCHANGED flashVars
  BY DEF Next, FlashPrepared, ReportFlash, Killed, FlashNext

LEMMA IInvStep == IInv /\ [Next]_vars => IInv'
<1>1. CASE UNCHANGED vars
  <2>1. UNCHANGED packageVars /\ UNCHANGED flashVars
    BY <1>1 DEF vars
  <2>2. IInv => PackageInv' /\ FlashTypeOK' /\ ToolInv' /\ WriteInv' /\ DeviceInv'
    BY <2>1, PackageStays, FlashStays DEF IInv, PackageInv
  <2>3. UNCHANGED <<pc, call, tree, extracted, step, root>>
    BY <2>1 DEF packageVars, fileVars, callVars, flashVars, callState
  <2>4. IInv => ImageInv'
    BY <2>3 DEF IInv, ImageInv
  <2> QED
    BY <2>2, <2>4 DEF IInv, PackageInv
<1>2. ASSUME IInv, Next
      PROVE  IInv'
  <2>0. PackageInv /\ ImageInv
    BY <1>2 DEF IInv, PackageInv
  <2>1. PackageInv'
    BY <1>2, <2>0, PackageMoves, PackageStep, PackageReturns, PackageStays
  <2>2. ImageInv'
    BY <1>2, <2>0, ImageStep
  <2>3. CASE UNCHANGED flashVars
    BY <1>2, <2>1, <2>2, <2>3, FlashStays DEF IInv, PackageInv
  <2>4. CASE FlashNext /\ tree \subseteq Images \X Parts
    <3>1. step # "none" => \A f, g \in root : f[2] = g[2] => f[1] = g[1]
      BY <2>0, PreparedImage DEF ImageInv
    <3> QED
      BY <1>2, <2>1, <2>2, <2>4, <3>1, FlashTypeStep, ToolStep, WriteStep, DeviceStep
         DEF IInv, PackageInv
  <2>5. CASE EndOfFlash
    <3>1. ~(\E u \in tools' : u.own) /\ step' = "none" /\ ok' = FALSE /\ status' = "none"
      BY <1>2, <2>5, NobodysTools DEF IInv, EndOfFlash
    <3>2. FlashTypeOK'
      <4>1. tools' \subseteq Tool
        BY <1>2, <2>5, Disowned DEF IInv, EndOfFlash
      <4> QED
        BY <1>2, <2>5, <4>1 DEF IInv, EndOfFlash, FlashTypeOK, Tool
    <3>3. ToolInv' /\ WriteInv'
      BY <3>1 DEF ToolInv, OwnTools, WriteInv
    <3>4. DeviceInv'
      BY <2>5, <3>1 DEF DeviceInv, EndOfFlash
    <3> QED
      BY <2>1, <2>2, <3>2, <3>3, <3>4 DEF IInv, PackageInv
  <2> QED
    BY <1>2, <2>0, <2>1, <2>2, <2>3, <2>4, <2>5, FlashMoves, PreparedImage DEF IInv, PackageInv
<1> QED
  BY <1>1, <1>2

(* The inductive invariant holds in every state of every sequence of calls. *)
THEOREM Invariance == Spec => []IInv
  BY InitInv, IInvStep, PTL DEF Spec

-------------------------------------------------------------------------------
(* However downloads are interrupted, resumed and restarted, no .part file *)
(* and no archive holds anything but the first blocks of its package, and  *)
(* a call uses the files of one whole build, unless an earlier call        *)
(* stopped in the directory they are from.                                 *)
THEOREM PackagesAreRight == Spec => []PackagesOK
<1>1. ASSUME IInv
      PROVE  DownloadsAreFaithful
  <2>1. \A n \in 0..Size : IsPrefix(Blocks(n), Whole) /\ (Blocks(n) # Whole => n < Size)
    BY BlocksAreContents, NoBlocks, PackageAssumption
  <2> QED
    BY <1>1, <2>1 DEF IInv, DownloadInv, DownloadsAreFaithful
<1>2. IInv => PackagesOK
  BY <1>1 DEF IInv, PackagesOK
<1> QED
  BY <1>2, Invariance, PTL

(* A flash that is reported as completed has written the whole image of    *)
(* the build to one device, up to the exceptions that the property names.  *)
THEOREM FlashIsWhole == Spec => []FlashedIsWhole
<1>1. ASSUME IInv, step = "report", status = "completed", call.build \notin torn
      PROVE  \E d \in Devices : (\A p \in Parts : flash[d][p] = call.build) \/ d \in mixed
  <2>1. pc = "flash" /\ root = tree /\ PackageInv /\ ImageInv
    BY <1>1 DEF IInv, ImageInv, PackageInv
  <2>2. root = {call.build} \X Parts
    BY <1>1, <2>1, PreparedImage DEF PackageInv, CacheInv
  <2>3. PICK d \in Devices : Written(d, root)
    BY <1>1 DEF IInv, ToolInv, WriteInv
  <2>4. ASSUME NEW p \in Parts, d \notin mixed
        PROVE  flash[d][p] = call.build
    <3>1. <<call.build, p>> \in root
      BY <2>2
    <3> QED
      BY <2>3, <2>4, <3>1 DEF Written
  <2> QED
    BY <2>4
<1>2. IInv => FlashedIsWhole
  BY <1>1 DEF IInv, ToolInv, FlashedIsWhole
<1> QED
  BY <1>2, Invariance, PTL

(* The extracted files leave the cache only when the local tree has them   *)
(* all.                                                                    *)
THEOREM CacheIsCleanedLast == Spec => CacheOutlivesCopy
<1>1. ASSUME IInv, [Next]_vars, NEW b \in Builds, extracted[b] # extracted'[b], pc = "clean"
      PROVE  {b} \X extracted[b] \subseteq LocalFiles
  <2>0. call.build \in Builds
    BY <1>1 DEF IInv, PackageTypeOK
  <2>1. PackageNext
    BY <1>1 DEF Next, FlashPrepared, ReportFlash, Killed, Die, IInv, ImageInv, vars,
       packageVars, fileVars
  <2>2. (\E m \in Names : CleanFile(m)) \/ EndOfSync
    BY <1>1, <2>1 DEF PackageNext, Invoke, EndOfUse, Prepare, Download, NotResolved,
       CheckArchive, NoReply, Reply, Read, EndOfRead, ReadFails, Rename, Extraction,
       SkipExtraction, BeginExtraction, ExtractionFails, EndOfExtraction, ExtractMember,
       UseExtracted, Sync, BeginSync, BeginCopy, SyncFails, EndOfCopy, RemoveLocalFile,
       CopyFile, fileVars
  <2>3. b = call.build
    BY <1>1, <2>0, <2>2 DEF CleanFile, EndOfSync, IInv, PackageTypeOK
  <2>4. {b} \X extracted[b] \subseteq local
    BY <1>1, <2>3 DEF IInv, LocalInv
  <2>5. local # NoDir
    <3>1. local \subseteq Files(call.build) /\ Members[kind[call.build]] \subseteq Names
      BY <1>1, <2>0, PackageAssumption DEF IInv, LocalInv, PackageTypeOK
    <3>2. local \in SUBSET (Builds \X Names)
      BY <2>0, <3>1 DEF Files
    <3> QED
      BY <3>2, PackageAssumption
  <2> QED
    BY <2>4, <2>5 DEF LocalFiles
<1>2. IInv /\ [Next]_vars =>
        [\A b \in Builds :
           extracted[b] # NoDir /\ extracted[b] # extracted'[b] /\ pc = "clean"
           => {b} \X extracted[b] \subseteq LocalFiles]_packageVars
  BY <1>1
<1> QED
  BY <1>2, Invariance, PTL DEF Spec, CacheOutlivesCopy

(* If a device was asked for, only it is written, and devices that were in *)
(* loader mode or booting before the call: left so by hand or by a call    *)
(* that ended earlier.                                                     *)
THEOREM AskedDeviceOnly == Spec => OnlyAskedDevice
<1>1. ASSUME IInv, [Next]_vars, NEW d \in Devices, NEW p \in Parts,
             flash'[d][p] \notin {flash[d][p], Older}
      PROVE  d \in strays \/ want \in {d, NoDevice} \/ d \in mixed'
  <2>0. PICK t \in tools : \E f \in t.left : WritePart(t, f)
    BY <1>1 DEF Next, FlashPrepared, BeginFlash, ReportFlash, Killed, EndOfFlash, FlashStep,
       Look, LookTargets, BootFails, SeeLoader, NoLoader, Start, Timeout, SeeExit, EndOfDrain,
       Boot, ChildExits, Environment, SwitchByHand, Appear, ToolEnds, ToolFails, TakeDevice,
       vars, flashVars
  <2>1. PICK f \in t.left : WritePart(t, f)
    BY <2>0
  <2>2. d = t.device
    BY <1>1, <2>1, WritesPart DEF IInv
  <2>3. CASE t.own
    <3>1. t.device # NoDevice
      BY <2>1 DEF WritePart
    <3> QED
      BY <1>1, <2>1, <2>2, <2>3, <3>1 DEF IInv, DeviceInv, WritePart
  <2>4. CASE ~t.own
    BY <2>1, <2>2, <2>4 DEF WritePart
  <2> QED
    BY <2>3, <2>4
<1>2. IInv /\ [Next]_vars =>
        [\A d \in Devices, p \in Parts :
           flash'[d][p] \notin {flash[d][p], Older}
           => d \in strays \/ want \in {d, NoDevice} \/ d \in mixed']_vars
  BY <1>1
<1> QED
  BY <1>2, Invariance, PTL DEF Spec, OnlyAskedDevice
===============================================================================
