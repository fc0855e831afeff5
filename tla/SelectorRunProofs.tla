--------------------------- MODULE SelectorRunProofs ---------------------------
(***************************************************************************)
(* Proofs about the two ends of the run store: about SelectorRun for any   *)
(* number of runs and directories, and about the comparison of what they   *)
(* have saved (ComparingRuns) for any number of paths, tests and manifests.*)
(***************************************************************************)
EXTENDS ComparingRuns, FiniteSetTheorems, SequenceTheorems, WellFoundedInduction, TLAPS

(* Labelled runs get directories of their own, their labels or their       *)
(* seconds differ, and a run that uses a directory again starts from the   *)
(* latest run that is listed.  The code does not see to it: two runs of one*)
(* label in one second write into one directory, and nothing here holds.   *)
OwnDirectories ==
    /\ \A p, q \in Run : p # q => Fresh[p] \cap Fresh[q] = {}
    /\ \A p \in Explicit : Fresh[p] # {}

(* No more than one run uses the directories of others again.              *)
OneReuser == \A p, q \in Run : Fresh[p] = {} /\ Fresh[q] = {} => p = q

(* Where a run is decides how much it has written and what it has done.    *)
PlaceInv ==
    \A p \in Run :
        /\ pc[p] \in {"start", "plan", "preflight", "execute", "history"} => written[p] = 0
        /\ pc[p] \in {"open", "fill"} => written[p] < 5
        /\ pc[p] \in {"exit", "exited"} => written[p] = 5
        /\ pc[p] \in {"start", "plan", "preflight", "execute"} => ~executed[p]
        /\ executed[p] /\ pc[p] \notin {"raised", "dead"} =>
              status[p] \in {"completed", "completed_with_failures", "interrupted"}
        /\ pc[p] = "exited" => code[p] = ExitCode(status[p])

(* A run has one directory from its start on, if it can, one of its own.   *)
DirInv ==
    \A p \in Run :
        /\ \A d, e \in dir[p] : d = e
        /\ pc[p] = "start" => dir[p] = {}
        /\ Fresh[p] # {} => dir[p] \subseteq Fresh[p]

Labelled(d) == {q \in Run : Fresh[q] # {} /\ d \in dir[q]}
Reusing(d)  == {p \in Run : Fresh[p] = {} /\ d \in dir[p]}

(* What the manifest of a directory says about the runs that write there.  *)
Manifest(d) == disk[d]["manifest"]
Listing(d, q) ==
    \/ written[q] = 5
    \/ written[q] = 4 /\ pc[q] \in {"fill", "dead"} /\ Manifest(d) = Partial

StoreAt(d) ==
    /\ Manifest(d) # Absent => Labelled(d) # {} /\ \A q \in Labelled(d) : Listing(d, q)
    /\ Reusing(d) # {} =>
          Manifest(d) # Absent /\ \A q \in Labelled(d) : written[q] = 5
    /\ Manifest(d) \in Document =>
          d \in dir[Manifest(d).run] /\ written[Manifest(d).run] = 5

StoreInv == \A d \in Dir : StoreAt(d)

(* The run that decides about the files of its directory, as every other   *)
(* run that writes there is a labelled one.                                *)
InCharge(p) == \A q \in Run : q # p /\ dir[q] \cap dir[p] # {} => Fresh[q] # {}

FilesAt(p, d) ==
    /\ written[p] >= 2 => disk[d]["selected"] = [run |-> p, status |-> status[p]]
    /\ written[p] >= 4 => disk[d]["report"] = [run |-> p, status |-> status[p]]
    /\ written[p] >= 5 => disk[d]["manifest"] = [run |-> p, status |-> status[p]]

FilesInv == \A p \in Run : InCharge(p) => \A d \in dir[p] : FilesAt(p, d)

IInv == TypeOK /\ PlaceInv /\ DirInv /\ StoreInv /\ FilesInv
-----------------------------------------------------------------------------
(* The sequence of files that a run writes.                                *)
LEMMA WritesAre ==
    /\ Len(Writes) = 5 /\ \A n \in 1..5 : Writes[n] \in File
    /\ Writes[1] = "report" /\ Writes[2] = "selected" /\ Writes[3] = "report"
    /\ Writes[4] = "report" /\ Writes[5] = "manifest"
  BY DEF Writes, File

(* What a step of a run does to the runs and to the store: it gets its     *)
(* directory, goes on, empties a file or fills one.                        *)
Gets(p, d) ==
    /\ pc[p] = "start" /\ pc' = [pc EXCEPT ![p] = "plan"]
    /\ d \in Dir /\ dir' = [dir EXCEPT ![p] = {d}]
    /\ Fresh[p] # {} => d \in Fresh[p]
    /\ Fresh[p] = {} => disk[d]["manifest"] \in Document
    /\ UNCHANGED <<status, executed, written, disk, code>>

Moves(p) ==
    /\ \A q \in Run \ {p} : pc'[q] = pc[q] /\ status'[q] = status[q]
    /\ pc'[p] \notin {"open", "fill"} \/ written[p] = 0
    /\ pc[p] \in {"fill", "dead"} => pc'[p] = "dead"
    /\ written[p] > 0 => status'[p] = status[p]
    /\ UNCHANGED <<dir, written, disk>>

Writing(p, d, f, content) ==
    /\ d \in dir[p] /\ f = Writes[written[p] + 1] /\ written[p] < 5
    /\ \A e \in Dir : \A g \in File :
          disk'[e][g] = IF e = d /\ g = f THEN content ELSE disk[e][g]
    /\ \A q \in Run \ {p} : pc'[q] = pc[q] /\ written'[q] = written[q]
    /\ UNCHANGED <<dir, status, executed, code>>

Empties(p, d, f) ==
    /\ pc[p] = "open" /\ pc'[p] = "fill" /\ written'[p] = written[p]
    /\ Writing(p, d, f, Partial)

Fills(p, d, f) ==
    /\ pc[p] = "fill" /\ pc'[p] \in {"open", "exit"} /\ written'[p] = written[p] + 1
    /\ Writing(p, d, f, [run |-> p, status |-> status[p]])

LEMMA PutShape ==
    ASSUME TypeOK, NEW p \in Run, NEW content, Put(p, content), written[p] < 5
    PROVE  \E d \in dir[p] : \A e \in Dir : \A g \in File :
              disk'[e][g] = IF e = d /\ g = Writes[written[p] + 1] THEN content ELSE disk[e][g]
<1>1. PICK d \in dir[p] : disk' = [disk EXCEPT ![d][Writes[written[p] + 1]] = content]
  BY DEF Put
<1>2. \A e \in Dir : \A g \in File :
        disk'[e][g] = IF e = d /\ g = Writes[written[p] + 1] THEN content ELSE disk[e][g]
  BY <1>1 DEF TypeOK
<1> QED
  BY <1>2

LEMMA Shapes ==
    ASSUME TypeOK, PlaceInv, OwnDirectories, NEW p \in Run, Step(p)
    PROVE  \/ \E d \in Dir : Gets(p, d)
           \/ Moves(p)
           \/ \E d \in Dir, f \in File : Empties(p, d, f) \/ Fills(p, d, f)
<1> USE DEF Goto
<1>1. CASE StartLabelled(p)
  <2>1. PICK d \in Fresh[p] : dir' = [dir EXCEPT ![p] = {d}]
    BY <1>1 DEF StartLabelled
  <2>2. Fresh[p] \subseteq Dir
    BY ConstantAssumption
  <2> QED
    BY <1>1, <2>1, <2>2 DEF StartLabelled, Gets
<1>2. CASE StartSaved(p)
  <2>1. PICK d \in Source(p) : \E e \in IF Fresh[p] = {} THEN {d} ELSE Fresh[p] :
                                  dir' = [dir EXCEPT ![p] = {e}]
    BY <1>2 DEF StartSaved
  <2>2. PICK e \in IF Fresh[p] = {} THEN {d} ELSE Fresh[p] : dir' = [dir EXCEPT ![p] = {e}]
    BY <2>1
  <2>3. CASE Fresh[p] = {}
    <3>1. p \notin Explicit
      BY <2>3 DEF OwnDirectories
    <3>2. d \in Listed /\ e = d
      BY <2>2, <2>3, <3>1 DEF Source, Latest
    <3> QED
      BY <1>2, <2>2, <2>3, <3>2 DEF StartSaved, Gets, Listed
  <2>4. CASE Fresh[p] # {}
    <3>1. Fresh[p] \subseteq Dir /\ e \in Fresh[p]
      BY <2>2, <2>4, ConstantAssumption
    <3> QED
      BY <1>2, <2>2, <2>4, <3>1 DEF StartSaved, Gets
  <2> QED
    BY <2>3, <2>4
<1>3. CASE StartFails(p) \/ PlanOnly(p) \/ PlanToRun(p) \/ Preflight(p) \/ Execute(p)
           \/ ExecuteRaises(p) \/ UpdateHistory(p) \/ UpdateHistoryRaises(p)
  BY <1>3 DEF StartFails, PlanOnly, PlanToRun, Preflight, Execute, ExecuteRaises,
              UpdateHistory, UpdateHistoryRaises, PlaceInv, Moves, TypeOK
<1>4. CASE OpenFile(p)
  <2>1. written[p] < 5 /\ written[p] + 1 \in 1..5
    BY <1>4, WritesAre DEF OpenFile, TypeOK
  <2>2. PICK d \in dir[p] : \A e \in Dir : \A g \in File :
          disk'[e][g] = IF e = d /\ g = Writes[written[p] + 1] THEN Partial ELSE disk[e][g]
    BY <1>4, <2>1, PutShape DEF OpenFile
  <2>3. d \in Dir /\ Writes[written[p] + 1] \in File
    BY <2>1, WritesAre DEF TypeOK
  <2>4. Empties(p, d, Writes[written[p] + 1])
    BY <1>4, <2>1, <2>2 DEF OpenFile, Empties, Writing, TypeOK
  <2> QED
    BY <2>3, <2>4
<1>5. CASE FillFile(p)
  <2> DEFINE document == [run |-> p, status |-> status[p]]
  <2>1. written[p] < 5 /\ written[p] + 1 \in 1..5
    BY <1>5 DEF FillFile, PlaceInv, TypeOK
  <2>2. PICK d \in dir[p] : \A e \in Dir : \A g \in File :
          disk'[e][g] = IF e = d /\ g = Writes[written[p] + 1] THEN document ELSE disk[e][g]
    BY <1>5, <2>1, PutShape DEF FillFile
  <2>3. d \in Dir /\ Writes[written[p] + 1] \in File
    BY <2>1, WritesAre DEF TypeOK
  <2>4. Fills(p, d, Writes[written[p] + 1])
    BY <1>5, <2>1, <2>2 DEF FillFile, Fills, Writing, TypeOK
  <2> QED
    BY <2>3, <2>4
<1>6. CASE Exit(p) \/ Die(p)
  BY <1>6 DEF Exit, Die, Over, Moves, TypeOK
<1> QED
  BY <1>1, <1>2, <1>3, <1>4, <1>5, <1>6 DEF Step

(* The types hold at the start and after every step.                       *)
LEMMA TypeInit == Init => TypeOK
  BY WritesAre DEF Init, TypeOK, Status

LEMMA TypeStep == TypeOK /\ PlaceInv /\ [Next]_vars => TypeOK'
<1> SUFFICES ASSUME TypeOK, PlaceInv, [Next]_vars PROVE TypeOK'
  OBVIOUS
<1>1. CASE UNCHANGED vars
  BY <1>1 DEF vars, TypeOK
<1> SUFFICES ASSUME NEW p \in Run, Step(p) PROVE TypeOK'
  BY <1>1 DEF Next
<1> USE DEF Goto, Status, Over
<1>2. CASE StartLabelled(p) \/ StartSaved(p)
  <2>1. \A d \in Source(p) : d \in Dir
    BY DEF Source, Latest, Listed
  <2>2. Fresh[p] \subseteq Dir
    BY ConstantAssumption
  <2>3. \E d \in Dir : dir' = [dir EXCEPT ![p] = {d}]
    BY <1>2, <2>1, <2>2 DEF StartLabelled, StartSaved
  <2>4. dir' \in [Run -> SUBSET Dir]
    BY <2>3 DEF TypeOK
  <2> QED
    BY <1>2, <2>4 DEF StartLabelled, StartSaved, TypeOK
<1>3. CASE StartFails(p) \/ PlanOnly(p) \/ PlanToRun(p) \/ Preflight(p) \/ Execute(p)
           \/ ExecuteRaises(p) \/ UpdateHistory(p) \/ UpdateHistoryRaises(p) \/ Die(p)
  BY <1>3 DEF StartFails, PlanOnly, PlanToRun, Preflight, Execute, ExecuteRaises,
              UpdateHistory, UpdateHistoryRaises, Die, TypeOK
<1>4. CASE Exit(p)
  <2>1. ExitCode(status[p]) \in {"0", "1", "2", "130"}
    BY DEF ExitCode
  <2> QED
    BY <1>4, <2>1 DEF Exit, TypeOK
<1>5. ASSUME NEW content \in Document \cup {Partial}, Put(p, content)
      PROVE  disk' \in [Dir -> [File -> Document \cup {Absent, Partial}]]
  <2>1. PICK d \in dir[p] : disk' = [disk EXCEPT ![d][Writes[written[p] + 1]] = content]
    BY <1>5 DEF Put
  <2>2. disk[d] \in [File -> Document \cup {Absent, Partial}]
    BY DEF TypeOK
  <2>3. [disk[d] EXCEPT ![Writes[written[p] + 1]] = content]
           \in [File -> Document \cup {Absent, Partial}]
    BY <2>2
  <2> QED
    BY <2>1, <2>3 DEF TypeOK
<1>6. CASE OpenFile(p)
  BY <1>5, <1>6 DEF OpenFile, TypeOK
<1>7. CASE FillFile(p)
  <2>1. [run |-> p, status |-> status[p]] \in Document
    BY DEF Document, TypeOK
  <2>2. written[p] + 1 \in 0..Len(Writes)
    BY <1>7, WritesAre DEF FillFile, PlaceInv, TypeOK
  <2> QED
    BY <1>5, <1>7, <2>1, <2>2 DEF FillFile, TypeOK
<1> QED
  BY <1>2, <1>3, <1>4, <1>6, <1>7 DEF Step

(* The place of a run, what it has written and what it has done.           *)
LEMMA PlaceStep == TypeOK /\ PlaceInv /\ [Next]_vars => PlaceInv'
<1> SUFFICES ASSUME TypeOK, PlaceInv, [Next]_vars PROVE PlaceInv'
  OBVIOUS
<1>1. CASE UNCHANGED vars
  BY <1>1 DEF vars, PlaceInv
<1> SUFFICES ASSUME NEW p \in Run, Step(p) PROVE PlaceInv'
  BY <1>1 DEF Next
<1> USE WritesAre DEF Goto, PlaceInv, TypeOK
<1>2. CASE StartLabelled(p) \/ StartSaved(p) \/ StartFails(p) \/ PlanOnly(p) \/ PlanToRun(p)
  BY <1>2 DEF StartLabelled, StartSaved, StartFails, PlanOnly, PlanToRun
<1>3. CASE Preflight(p) \/ Execute(p) \/ ExecuteRaises(p)
  BY <1>3 DEF Preflight, Execute, ExecuteRaises
<1>4. CASE UpdateHistory(p) \/ UpdateHistoryRaises(p) \/ Exit(p) \/ Die(p)
  BY <1>4 DEF UpdateHistory, UpdateHistoryRaises, Exit, Die, Over
<1>5. CASE OpenFile(p) \/ FillFile(p)
  BY <1>5 DEF OpenFile, FillFile
<1> QED
  BY <1>2, <1>3, <1>4, <1>5 DEF Step

(* A run keeps its directory.                                              *)
LEMMA DirStep ==
    ASSUME TypeOK, PlaceInv, DirInv, OwnDirectories, [Next]_vars PROVE DirInv'
<1>1. CASE UNCHANGED vars
  BY <1>1 DEF vars, DirInv
<1>2. ASSUME NEW p \in Run, Step(p) PROVE DirInv'
  <2>1. CASE \E d \in Dir : Gets(p, d)
    <3>1. PICK d \in Dir : Gets(p, d)
      BY <2>1
    <3>2. \A q \in Run : /\ dir'[q] = IF q = p THEN {d} ELSE dir[q]
                        /\ pc'[q] = IF q = p THEN "plan" ELSE pc[q]
      BY <3>1 DEF Gets, TypeOK
    <3>3. Fresh[p] # {} => d \in Fresh[p]
      BY <3>1 DEF Gets
    <3> QED
      BY <3>2, <3>3 DEF DirInv
  <2>2. CASE Moves(p) \/ \E d \in Dir, f \in File : Empties(p, d, f) \/ Fills(p, d, f)
    <3>1. dir' = dir /\ \A q \in Run : pc'[q] = "start" => pc[q] = "start" \/ q = p
      BY <2>2 DEF Moves, Empties, Fills, Writing
    <3>2. pc'[p] # "start"
      BY <1>2 DEF Step, StartLabelled, StartSaved, StartFails, PlanOnly, PlanToRun, Preflight,
         Execute, ExecuteRaises, UpdateHistory, UpdateHistoryRaises, OpenFile, FillFile,
         Exit, Die, Goto, TypeOK
    <3> QED
      BY <3>1, <3>2 DEF DirInv
  <2> QED
    BY <1>2, <2>1, <2>2, Shapes
<1> QED
  BY <1>1, <1>2 DEF Next
-----------------------------------------------------------------------------
(* No labelled run is at work in a directory with a manifest, unless at    *)
(* this manifest: it is its own, or of a run that came after it.           *)
LEMMA StoreStep ==
    ASSUME TypeOK, PlaceInv, DirInv, StoreInv, OwnDirectories, [Next]_vars PROVE StoreInv'
<1>0. /\ "manifest" \in File /\ Absent \notin Document /\ Partial \notin Document
      /\ Absent # Partial /\ \A c \in Document : c.run \in Run
  BY ContentAssumption DEF File, Document
<1>1. CASE UNCHANGED vars
  BY <1>1 DEF vars, StoreInv, StoreAt, Manifest, Listing, Labelled, Reusing
<1>2. ASSUME NEW p \in Run, NEW d \in Dir, Gets(p, d), NEW e \in Dir PROVE StoreAt(e)'
  <2>0. StoreAt(e) /\ StoreAt(d)
    BY DEF StoreInv
  <2>1. /\ \A q \in Run : dir'[q] = IF q = p THEN {d} ELSE dir[q]
        /\ \A q \in Run \ {p} : pc'[q] = pc[q]
        /\ dir[p] = {} /\ written[p] = 0 /\ written' = written
        /\ Manifest(e)' = Manifest(e)
    BY <1>2 DEF Gets, TypeOK, DirInv, PlaceInv, Manifest
  <2>2. Labelled(e)' = IF e = d /\ Fresh[p] # {} THEN Labelled(e) \cup {p} ELSE Labelled(e)
    BY <2>1 DEF Labelled
  <2>3. Reusing(e)' = IF e = d /\ Fresh[p] = {} THEN Reusing(e) \cup {p} ELSE Reusing(e)
    BY <2>1 DEF Reusing
  <2>4. \A q \in Labelled(e) : Listing(e, q) => Listing(e, q)'
    BY <2>1 DEF Labelled, Listing
  <2>5. Manifest(e) \in Document =>
          e \in dir'[Manifest(e).run] /\ written[Manifest(e).run] = 5
    BY <1>0, <2>0, <2>1 DEF StoreAt
  <2>6. CASE e = d /\ Fresh[p] # {}
    <3>1. d \in Fresh[p]
      BY <1>2, <2>6 DEF Gets
    <3>2. Labelled(d) = {}
      <4>1. ASSUME NEW q \in Labelled(d) PROVE FALSE
        <5>1. q \in Run /\ q # p /\ d \in Fresh[q]
          BY <2>1, <4>1 DEF Labelled, DirInv
        <5> QED
          BY <3>1, <5>1 DEF OwnDirectories
      <4> QED
        BY <4>1
    <3>3. Manifest(d) = Absent /\ Reusing(d) = {}
      BY <2>0, <3>2 DEF StoreAt
    <3> QED
      BY <1>0, <2>1, <2>3, <2>6, <3>3 DEF StoreAt
  <2>7. CASE e = d /\ Fresh[p] = {}
    <3>1. Manifest(d) \in Document
      BY <1>2, <2>7 DEF Gets, Manifest
    <3>2. \A q \in Labelled(d) : written[q] = 5
      BY <1>0, <2>0, <3>1 DEF StoreAt, Listing
    <3> QED
      BY <1>0, <2>0, <2>1, <2>2, <2>4, <2>5, <2>7, <3>1, <3>2 DEF StoreAt
  <2>8. CASE e # d
    BY <2>0, <2>1, <2>2, <2>3, <2>4, <2>5, <2>8 DEF StoreAt
  <2> QED
    BY <2>6, <2>7, <2>8
<1>3. ASSUME NEW p \in Run, Moves(p), NEW e \in Dir PROVE StoreAt(e)'
  <2>1. /\ written' = written /\ dir' = dir /\ Manifest(e)' = Manifest(e)
        /\ Labelled(e)' = Labelled(e) /\ Reusing(e)' = Reusing(e)
    BY <1>3 DEF Moves, Labelled, Reusing, Manifest
  <2>2. \A q \in Labelled(e) : Listing(e, q) => Listing(e, q)'
    BY <1>3, <2>1 DEF Moves, Listing, Labelled
  <2> QED
    BY <2>1, <2>2 DEF StoreInv, StoreAt
<1>4. ASSUME NEW p \in Run, NEW d \in Dir, NEW f \in File, Empties(p, d, f) \/ Fills(p, d, f),
             NEW e \in Dir
      PROVE  StoreAt(e)'
  <2>0. StoreAt(e) /\ StoreAt(d)
    BY DEF StoreInv
  <2>1. /\ d \in dir[p] /\ written[p] < 5 /\ f = Writes[written[p] + 1] /\ dir' = dir
        /\ Labelled(e)' = Labelled(e) /\ Reusing(e)' = Reusing(e)
        /\ \A q \in Run \ {p} : pc'[q] = pc[q] /\ written'[q] = written[q]
        /\ pc[p] \in {"open", "fill"}
    BY <1>4 DEF Empties, Fills, Writing, Labelled, Reusing
  <2>2. written[p] \in 0..4 /\ (f = "manifest" <=> written[p] = 4)
    BY <2>1, WritesAre DEF TypeOK
  <2>3. f # "manifest" \/ e # d => Manifest(e)' = Manifest(e)
    BY <1>0, <1>4 DEF Empties, Fills, Writing, Manifest
  <2>4. Manifest(e) \in Document => Manifest(e).run # p
    BY <2>0, <2>1 DEF StoreAt
  <2>5. p \in Labelled(e) => e = d
    BY <2>1 DEF Labelled, DirInv
  <2>6. p \in Labelled(e) => Reusing(e) = {}
    BY <2>0, <2>1 DEF StoreAt
  <2>7. p \in Labelled(e) /\ Manifest(e) # Absent => Listing(e, p)
    BY <2>0 DEF StoreAt
  <2>8. \A q \in Labelled(e) : q \in Run
    BY DEF Labelled
  <2>9. CASE f # "manifest" \/ e # d
    <3>1. p \in Labelled(e) => Manifest(e) = Absent
      BY <2>1, <2>2, <2>5, <2>7, <2>9 DEF Listing
    <3>2. \A q \in Labelled(e) : Manifest(e) # Absent /\ Listing(e, q) => Listing(e, q)'
      BY <2>1, <2>3, <2>8, <2>9, <3>1 DEF Listing
    <3>3. Manifest(e) \in Document => Manifest(e).run \in Run
      BY <1>0
    <3> QED
      BY <2>0, <2>1, <2>3, <2>4, <2>6, <2>8, <2>9, <3>2, <3>3 DEF StoreAt
  <2>10. CASE f = "manifest" /\ e = d
    <3>1. Labelled(e) # {} /\ \A q \in Labelled(e) : q = p \/ written[q] = 5
      <4>1. CASE Fresh[p] = {}
        <5>1. p \in Reusing(e)
          BY <2>1, <2>10, <4>1 DEF Reusing
        <5> QED
          BY <2>0, <5>1 DEF StoreAt
      <4>2. CASE Fresh[p] # {}
        <5>1. p \in Labelled(e)
          BY <2>1, <2>10, <4>2 DEF Labelled
        <5>2. ASSUME NEW q \in Labelled(e) PROVE q = p
          <6>1. q \in Run /\ e \in Fresh[q] /\ e \in Fresh[p]
            BY <5>1, <5>2 DEF Labelled, DirInv
          <6> QED
            BY <6>1 DEF OwnDirectories
        <5> QED
          BY <5>1, <5>2
      <4> QED
        BY <4>1, <4>2
    <3>2. CASE Empties(p, d, f)
      <4>1. Manifest(e)' = Partial /\ pc'[p] = "fill" /\ written'[p] = 4
        BY <1>0, <2>2, <2>10, <3>2 DEF Empties, Writing, Manifest
      <4>2. \A q \in Labelled(e) : Listing(e, q)'
        BY <2>1, <2>8, <3>1, <4>1 DEF Listing
      <4> QED
        BY <1>0, <2>0, <2>1, <2>6, <2>8, <3>1, <4>1, <4>2 DEF StoreAt
    <3>3. CASE Fills(p, d, f)
      <4>1. Manifest(e)' = [run |-> p, status |-> status[p]] /\ written'[p] = 5
        BY <1>0, <2>2, <2>10, <3>3 DEF Fills, Writing, Manifest
      <4>2. [run |-> p, status |-> status[p]] \in Document
        BY DEF Document, TypeOK
      <4>3. \A q \in Labelled(e) : Listing(e, q)' /\ written'[q] = 5
        BY <2>1, <2>8, <3>1, <4>1 DEF Listing
      <4> QED
        BY <1>0, <2>1, <2>10, <3>1, <4>1, <4>2, <4>3 DEF StoreAt
    <3> QED
      BY <1>4, <3>2, <3>3
  <2> QED
    BY <2>9, <2>10
<1> QED
  BY <1>1, <1>2, <1>3, <1>4, Shapes DEF Next, StoreInv

(* Where one run is in charge, what it has written stays.                  *)
LEMMA FilesStep ==
    ASSUME TypeOK, PlaceInv, DirInv, StoreInv, FilesInv, OwnDirectories, [Next]_vars
    PROVE  FilesInv'
<1>1. CASE UNCHANGED vars
  BY <1>1 DEF vars, FilesInv, FilesAt, InCharge
<1>2. ASSUME NEW p \in Run, NEW d \in Dir, Gets(p, d) PROVE FilesInv'
  <2> SUFFICES ASSUME NEW q \in Run, InCharge(q)', NEW e \in dir'[q], written[q] >= 2
               PROVE  FilesAt(q, e)'
    BY <1>2 DEF FilesInv, FilesAt, Gets, TypeOK
  <2>1. /\ \A o \in Run : dir'[o] = IF o = p THEN {d} ELSE dir[o]
        /\ written' = written /\ disk' = disk /\ status' = status /\ written[p] = 0
        /\ dir[p] = {}
    BY <1>2 DEF Gets, TypeOK, PlaceInv, DirInv
  <2>2. q # p /\ e \in dir[q]
    BY <2>1
  <2>3. InCharge(q)
    BY <2>1, <2>2 DEF InCharge
  <2> QED
    BY <2>1, <2>2, <2>3 DEF FilesInv, FilesAt
<1>3. ASSUME NEW p \in Run, Moves(p) PROVE FilesInv'
  <2>1. /\ written' = written /\ disk' = disk /\ dir' = dir
        /\ \A q \in Run : written[q] > 0 => status'[q] = status[q]
        /\ \A q \in Run : InCharge(q)' <=> InCharge(q)
    BY <1>3 DEF Moves, InCharge
  <2> SUFFICES ASSUME NEW q \in Run, InCharge(q), NEW e \in dir[q] PROVE FilesAt(q, e)'
    BY <2>1 DEF FilesInv
  <2>2. FilesAt(q, e)
    BY DEF FilesInv
  <2>3. written[q] \in Nat
    BY WritesAre DEF TypeOK
  <2> QED
    BY <2>1, <2>2, <2>3 DEF FilesAt
<1>4. ASSUME NEW p \in Run, NEW d \in Dir, NEW f \in File, Empties(p, d, f) \/ Fills(p, d, f)
      PROVE  FilesInv'
  <2>1. /\ d \in dir[p] /\ written[p] < 5 /\ f = Writes[written[p] + 1]
        /\ dir' = dir /\ status' = status
        /\ \A q \in Run \ {p} : written'[q] = written[q]
        /\ \A e \in Dir, g \in File : e # d \/ g # f => disk'[e][g] = disk[e][g]
        /\ \A q \in Run : InCharge(q)' <=> InCharge(q)
    BY <1>4 DEF Empties, Fills, Writing, InCharge
  <2>2. written[p] \in 0..4
    BY <2>1, WritesAre DEF TypeOK
  <2> SUFFICES ASSUME NEW q \in Run, InCharge(q), NEW e \in dir[q] PROVE FilesAt(q, e)'
    BY <2>1 DEF FilesInv
  <2>3. FilesAt(q, e) /\ e \in Dir
    BY DEF FilesInv, TypeOK
  <2>4. CASE e # d
    <3>1. q # p
      BY <2>1, <2>4 DEF DirInv
    <3>2. written'[q] = written[q] /\ \A g \in File : disk'[e][g] = disk[e][g]
      BY <2>1, <2>3, <2>4, <3>1
    <3> QED
      BY <2>1, <2>3, <3>2 DEF FilesAt, File
  <2>5. CASE e = d /\ q # p
    <3>1. Fresh[p] # {} /\ p \in Labelled(d)
      BY <2>1, <2>5 DEF InCharge, Labelled
    <3>2. Fresh[q] = {}
      BY <2>1, <2>5, <3>1 DEF OwnDirectories, DirInv
    <3>3. q \in Reusing(d)
      BY <2>5, <3>2 DEF Reusing
    <3>4. written[p] = 5
      BY <3>1, <3>3 DEF StoreInv, StoreAt
    <3> QED
      BY <2>1, <3>4
  <2>6. CASE e = d /\ q = p
    <3> DEFINE document == [run |-> p, status |-> status[p]]
    <3>1. \A g \in File : g # f => disk'[d][g] = disk[d][g]
      BY <2>1
    <3>2. CASE Empties(p, d, f)
      <4>1. written'[p] = written[p]
        BY <3>2 DEF Empties
      <4> QED
        BY <2>1, <2>2, <2>3, <2>6, <3>1, <4>1, WritesAre DEF FilesAt, File
    <3>3. CASE Fills(p, d, f)
      <4>1. written'[p] = written[p] + 1 /\ disk'[d][f] = document
        BY <3>3 DEF Fills, Writing
      <4>2. written[p] = 0 \/ written[p] = 1 \/ written[p] = 2 \/ written[p] = 3 \/ written[p] = 4
        BY <2>2
      <4> QED
        BY <2>1, <2>3, <2>6, <3>1, <4>1, <4>2, WritesAre DEF FilesAt, File
    <3> QED
      BY <1>4, <3>2, <3>3
  <2> QED
    BY <2>4, <2>5, <2>6
<1> QED
  BY <1>1, <1>2, <1>3, <1>4, Shapes DEF Next
-----------------------------------------------------------------------------
(* The inductive invariant holds as long as no two labelled runs share a   *)
(* directory.                                                              *)
THEOREM Invariance == OwnDirectories /\ Spec => []IInv
<1>1. ASSUME Init PROVE IInv
  <2>1. PlaceInv /\ DirInv
    BY <1>1 DEF Init, PlaceInv, DirInv
  <2>2. ContentAssumption
    BY ContentAssumption
  <2>3. \A d \in Dir : Manifest(d) = Absent /\ Reusing(d) = {}
    BY <1>1 DEF Init, Manifest, Reusing, File
  <2>4. StoreInv /\ FilesInv
    BY <1>1, <2>2, <2>3 DEF Init, StoreInv, StoreAt, FilesInv
  <2> QED
    BY <1>1, <2>1, <2>4, TypeInit DEF IInv
<1>2. ASSUME OwnDirectories, IInv, [Next]_vars PROVE IInv'
  BY <1>2, TypeStep, PlaceStep, DirStep, StoreStep, FilesStep DEF IInv
<1>3. OwnDirectories => OwnDirectories'
  BY DEF OwnDirectories
<1> QED
  BY <1>1, <1>2, <1>3, PTL DEF Spec

(* What the program says at its end, to the shell, in its files and in the *)
(* list of its runs, agrees, wherever other runs were killed.              *)
THEOREM RunsAgree == OwnDirectories /\ Spec => []RunOK
<1>1. ASSUME IInv, NEW d \in Listed PROVE disk[d]["report"] = Manifest(d) \/ Reused(d)
  <2> DEFINE p == Manifest(d).run
  <2>0. d \in Dir /\ Manifest(d) \in Document /\ p \in Run
    BY DEF Listed, Manifest, Document
  <2>1. d \in dir[p] /\ written[p] = 5
    BY <1>1, <2>0 DEF IInv, StoreInv, StoreAt
  <2>2. CASE InCharge(p)
    <3>1. FilesAt(p, d)
      BY <1>1, <2>0, <2>1, <2>2 DEF IInv, FilesInv
    <3> QED
      BY <2>1, <3>1 DEF FilesAt, Manifest
  <2>3. CASE ~InCharge(p)
    <3>1. PICK q \in Run : q # p /\ dir[q] \cap dir[p] # {} /\ Fresh[q] = {}
      BY <2>3 DEF InCharge
    <3>2. dir[q] = {d}
      BY <1>1, <2>0, <2>1, <3>1 DEF IInv, DirInv
    <3>3. q \in Saved
      BY <3>1, ConstantAssumption
    <3> QED
      BY <3>1, <3>2, <3>3 DEF Reused, Manifest
  <2> QED
    BY <2>2, <2>3
<1>2. ASSUME IInv, NEW p \in Run, pc[p] = "exited", Alone(p), NEW d \in dir[p]
      PROVE  /\ Manifest(d) = [run |-> p, status |-> status[p]]
             /\ code[p] = "0" <=> status[p] \in {"planned", "completed"}
             /\ executed[p] => status[p] \notin {"planned", "failed_preflight"}
  <2>1. \A q \in Run : q # p => dir[q] \cap dir[p] = {}
    BY <1>2 DEF Alone, IInv, DirInv
  <2>2. InCharge(p)
    BY <2>1 DEF InCharge
  <2>3. written[p] = 5 /\ code[p] = ExitCode(status[p])
        /\ (executed[p] => status[p] \in {"completed", "completed_with_failures", "interrupted"})
    BY <1>2 DEF IInv, PlaceInv
  <2>4. Manifest(d) = [run |-> p, status |-> status[p]]
    BY <1>2, <2>2, <2>3 DEF IInv, FilesInv, FilesAt, Manifest
  <2>5. status[p] \in Status
    BY <1>2 DEF IInv, TypeOK
  <2> QED
    BY <2>3, <2>4, <2>5 DEF ExitCode, Status
<1>3. ASSUME IInv PROVE RunOK
  <2>1. ListedHasReport
    BY <1>1, <1>3 DEF ListedHasReport, Manifest
  <2>2. ASSUME NEW p \in Run, pc[p] = "exited", Alone(p), NEW d \in dir[p]
        PROVE  /\ Manifest(d) \in Document /\ Manifest(d).run = p
               /\ code[p] = "0" <=> Manifest(d).status \in {"planned", "completed"}
               /\ executed[p] => Manifest(d).status \notin {"planned", "failed_preflight"}
    <3>1. [run |-> p, status |-> status[p]] \in Document
      BY <1>3 DEF IInv, TypeOK, Document
    <3> QED
      BY <1>2, <1>3, <2>2, <3>1
  <2> QED
    BY <1>3, <2>1, <2>2 DEF RunOK, IInv, ExitTellsManifest, Manifest
<1> QED
  BY <1>3, Invariance, PTL

(* A step that changes a file of a directory is a run's that writes there. *)
LEMMA Writers ==
    ASSUME TypeOK, PlaceInv, OwnDirectories, NEW p \in Run, Step(p), NEW d \in Dir,
           \E f \in File : disk'[d][f] # disk[d][f]
    PROVE  /\ d \in dir[p] /\ pc[p] \in {"open", "fill"} /\ written[p] < 5
           /\ \E f \in File : Empties(p, d, f) \/ Fills(p, d, f)
<1>1. ~(\E e \in Dir : Gets(p, e)) /\ ~Moves(p)
  BY DEF Gets, Moves
<1>2. PICK e \in Dir, f \in File : Empties(p, e, f) \/ Fills(p, e, f)
  BY <1>1, Shapes
<1>3. e = d
  BY <1>2 DEF Empties, Fills, Writing
<1> QED
  BY <1>2, <1>3 DEF Empties, Fills, Writing

(* A manifest never gets ahead of the report and the selected tests it     *)
(* stands for, also when one run uses the directory of another again.      *)
THEOREM ManifestIsLast == OwnDirectories /\ OneReuser /\ Spec => ManifestFollowsReport
<1>1. ASSUME OwnDirectories, OneReuser, IInv, IInv', [Next]_vars, NEW d \in Dir,
             Manifest(d)' \in Document, Manifest(d)' # Manifest(d)
      PROVE  disk'[d]["report"] = Manifest(d)' /\ disk'[d]["selected"] \in Document
  <2>0. "manifest" \in File /\ Partial \notin Document
    BY ContentAssumption DEF File
  <2>1. PICK p \in Run : Step(p)
    BY <1>1 DEF Next, vars, Manifest
  <2>2. d \in dir[p] /\ \E f \in File : Empties(p, d, f) \/ Fills(p, d, f)
    BY <1>1, <2>0, <2>1, Writers DEF IInv, Manifest
  <2>3. PICK f \in File : Empties(p, d, f) \/ Fills(p, d, f)
    BY <2>2
  <2>4. f = "manifest" /\ Fills(p, d, f)
    BY <1>1, <2>0, <2>3 DEF Empties, Fills, Writing, Manifest
  <2>5. written'[p] = 5 /\ dir' = dir /\ Manifest(d)' = [run |-> p, status |-> status'[p]]
    BY <1>1, <2>4, WritesAre DEF Fills, Writing, Manifest, IInv, TypeOK
  <2>6. InCharge(p)'
    <3> SUFFICES ASSUME NEW q \in Run, q # p, dir[q] \cap dir[p] # {}, Fresh[q] = {}
                 PROVE  FALSE
      BY <2>5 DEF InCharge
    <3>1. Fresh[p] # {}
      BY <1>1 DEF OneReuser
    <3>2. q \in Reusing(d) /\ p \in Labelled(d)
      BY <1>1, <2>2, <3>1 DEF IInv, DirInv, Reusing, Labelled
    <3>3. written[p] = 5
      BY <1>1, <3>2 DEF IInv, StoreInv, StoreAt
    <3> QED
      BY <2>4, <3>3 DEF Fills, Writing
  <2>7. FilesAt(p, d)'
    BY <1>1, <2>2, <2>5, <2>6 DEF IInv, FilesInv
  <2>8. /\ disk'[d]["report"] = [run |-> p, status |-> status'[p]]
        /\ disk'[d]["selected"] = [run |-> p, status |-> status'[p]]
    BY <2>5, <2>7 DEF FilesAt
  <2> QED
    BY <1>1, <2>5, <2>8
<1>2. ASSUME OwnDirectories, OneReuser, IInv, IInv', [Next]_vars
      PROVE  [\A d \in Dir :
                LET manifest == disk'[d]["manifest"] IN
                manifest \in Document /\ manifest # disk[d]["manifest"] =>
                    /\ disk'[d]["report"] = manifest
                    /\ disk'[d]["selected"] \in Document]_vars
  BY <1>1, <1>2 DEF Manifest
<1>3. OwnDirectories /\ OneReuser => [](OwnDirectories /\ OneReuser)
  <2>1. OwnDirectories /\ OneReuser => OwnDirectories' /\ OneReuser'
    BY DEF OwnDirectories, OneReuser
  <2> QED
    BY <2>1, PTL
<1> QED
  BY <1>2, <1>3, Invariance, PTL DEF Spec, ManifestFollowsReport
-------------------------------------------------------------------------------
\* The comparison of results (ComparingRuns).  What a run says of its tests.
IsResults(results) ==
  /\ DOMAIN results \subseteq Tests
  /\ \A t \in DOMAIN results : results[t].outcome \in Outcomes /\ results[t].message.size \in Nat

\* Which pairs of outcomes the lists of a comparison hold.
LEMMA TransitionFacts ==
  ASSUME NEW base, NEW target
  PROVE  /\ Transition(base, target) = "REGRESSION" <=> base = "PASS" /\ target \in Failing
         /\ Transition(base, target) = "IMPROVEMENT" <=> base \in Failing /\ target = "PASS"
         /\ Transition(base, target) = "NEW_FAIL" <=> base \in {"none", "BLOCKED"} /\ target = "FAIL"
         /\ Transition(base, target) = "PERSISTENT_FAIL" <=> base \in Failing /\ target = "FAIL"
         /\ Transition(base, target) = "DISAPPEARED" <=> base # "none" /\ target = "none"
BY SMTT(30) DEF Transition, Failing

\* Whether a run has a test.
LEMMA OutcomeFacts ==
  ASSUME NEW results, IsResults(results), NEW t
  PROVE  /\ OutcomeIn(results, t) \in Failing \cup {"PASS"} => t \in DOMAIN results
         /\ OutcomeIn(results, t) = "none" <=> t \notin DOMAIN results
         /\ t \in DOMAIN results => OutcomeIn(results, t) = results[t].outcome
BY DEF OutcomeIn, IsResults, Outcomes, Failing

KindOf(base, target, t) == Transition(OutcomeIn(base, t), OutcomeIn(target, t))
OfKind(base, target, kind) == {t \in DOMAIN base \cup DOMAIN target : KindOf(base, target, t) = kind}
SlowerIn(base, target) == {t \in DOMAIN base \cap DOMAIN target : Slower(base[t].ms, target[t].ms)}
FasterIn(base, target) == {t \in DOMAIN base \cap DOMAIN target : Slower(target[t].ms, base[t].ms)}
FailedIn(base, target) ==
  OfKind(base, target, "REGRESSION") \cup OfKind(base, target, "NEW_FAIL")
    \cup OfKind(base, target, "PERSISTENT_FAIL")

\* The parts of a comparison.
LEMMA ComparisonParts ==
  ASSUME NEW base, NEW target
  PROVE  LET c == Comparison(base, target) IN
         /\ c.kind = "comparison"
         /\ c.kinds = [t \in DOMAIN base \cup DOMAIN target |-> KindOf(base, target, t)]
         /\ c.regressions = OfKind(base, target, "REGRESSION")
         /\ c.improvements = OfKind(base, target, "IMPROVEMENT")
         /\ c.newFails = OfKind(base, target, "NEW_FAIL")
         /\ c.persistent = OfKind(base, target, "PERSISTENT_FAIL")
         /\ c.disappeared = OfKind(base, target, "DISAPPEARED")
         /\ c.causes = Clusters(FailedIn(base, target), target)
         /\ c.slowdowns = SlowerIn(base, target)
         /\ c.speedups = FasterIn(base, target)
<1> DEFINE kinds == [t \in DOMAIN base \cup DOMAIN target |-> KindOf(base, target, t)]
           Of(kind) == {t \in DOMAIN base \cup DOMAIN target : kinds[t] = kind}
<1>1. \A kind : Of(kind) = OfKind(base, target, kind)
  BY DEF OfKind
<1>2. Of("REGRESSION") \cup Of("NEW_FAIL") \cup Of("PERSISTENT_FAIL") = FailedIn(base, target)
  BY <1>1 DEF FailedIn
<1>3. Comparison(base, target) =
        [kind |-> "comparison", kinds |-> kinds,
         regressions |-> Of("REGRESSION"), improvements |-> Of("IMPROVEMENT"),
         newFails |-> Of("NEW_FAIL"), persistent |-> Of("PERSISTENT_FAIL"),
         disappeared |-> Of("DISAPPEARED"),
         causes |-> Clusters(Of("REGRESSION") \cup Of("NEW_FAIL") \cup Of("PERSISTENT_FAIL"), target),
         slowdowns |-> SlowerIn(base, target),
         speedups |-> FasterIn(base, target)]
  BY Zenon DEF Comparison, KindOf, SlowerIn, FasterIn
<1>4. \A causes : causes = Clusters(FailedIn(base, target), target)
        <=> causes = Clusters(Of("REGRESSION") \cup Of("NEW_FAIL") \cup Of("PERSISTENT_FAIL"), target)
  BY <1>2, Zenon
<1> HIDE DEF Of, kinds
<1>5. LET c == Comparison(base, target) IN
         /\ c.kind = "comparison" /\ c.kinds = kinds
         /\ c.regressions = Of("REGRESSION") /\ c.improvements = Of("IMPROVEMENT")
         /\ c.newFails = Of("NEW_FAIL") /\ c.persistent = Of("PERSISTENT_FAIL")
         /\ c.disappeared = Of("DISAPPEARED")
         /\ c.causes = Clusters(Of("REGRESSION") \cup Of("NEW_FAIL") \cup Of("PERSISTENT_FAIL"), target)
         /\ c.slowdowns = SlowerIn(base, target)
         /\ c.speedups = FasterIn(base, target)
  BY <1>3
<1> QED
  BY <1>1, <1>4, <1>5 DEF kinds

LEMMA OfKindFacts ==
  ASSUME NEW base, NEW target, IsResults(base), IsResults(target), NEW t
  PROVE  /\ t \in OfKind(base, target, "REGRESSION") <=>
              OutcomeIn(base, t) = "PASS" /\ OutcomeIn(target, t) \in Failing
         /\ t \in OfKind(base, target, "IMPROVEMENT") <=>
              OutcomeIn(base, t) \in Failing /\ OutcomeIn(target, t) = "PASS"
         /\ t \in OfKind(base, target, "NEW_FAIL") <=>
              OutcomeIn(base, t) \in {"none", "BLOCKED"} /\ OutcomeIn(target, t) = "FAIL"
         /\ t \in OfKind(base, target, "PERSISTENT_FAIL") <=>
              OutcomeIn(base, t) \in Failing /\ OutcomeIn(target, t) = "FAIL"
         /\ t \in OfKind(base, target, "DISAPPEARED") <=> t \in DOMAIN base \ DOMAIN target
<1>1. t \notin DOMAIN base \cup DOMAIN target =>
        OutcomeIn(base, t) \notin Failing \cup {"PASS"} /\ OutcomeIn(target, t) \notin Failing \cup {"PASS"}
  BY OutcomeFacts
<1>2. \A kind : t \in OfKind(base, target, kind) <=>
        t \in DOMAIN base \cup DOMAIN target /\ KindOf(base, target, t) = kind
  BY DEF OfKind
<1>3. "FAIL" \in Failing
  BY DEF Failing
<1>4. /\ KindOf(base, target, t) = "REGRESSION" <=> OutcomeIn(base, t) = "PASS" /\ OutcomeIn(target, t) \in Failing
      /\ KindOf(base, target, t) = "IMPROVEMENT" <=> OutcomeIn(base, t) \in Failing /\ OutcomeIn(target, t) = "PASS"
      /\ KindOf(base, target, t) = "NEW_FAIL" <=> OutcomeIn(base, t) \in {"none", "BLOCKED"} /\ OutcomeIn(target, t) = "FAIL"
      /\ KindOf(base, target, t) = "PERSISTENT_FAIL" <=> OutcomeIn(base, t) \in Failing /\ OutcomeIn(target, t) = "FAIL"
      /\ KindOf(base, target, t) = "DISAPPEARED" <=> OutcomeIn(base, t) # "none" /\ OutcomeIn(target, t) = "none"
  BY TransitionFacts DEF KindOf
<1>5. /\ OutcomeIn(base, t) = "none" <=> t \notin DOMAIN base
      /\ OutcomeIn(target, t) = "none" <=> t \notin DOMAIN target
  BY OutcomeFacts
<1> QED
  BY <1>1, <1>2, <1>3, <1>4, <1>5

\* A set of natural numbers has a least one.
LEMMA LeastNumber ==
  ASSUME NEW S \in SUBSET Nat, S # {}
  PROVE  Min(S) \in S /\ \A x \in S : Min(S) <= x
<1> DEFINE R == {pair \in Nat \X Nat : pair[1] < pair[2]}
<1>1. IsWellFoundedOn(R, Nat)
  BY NatLessThanWellFounded, Zenon DEF OpToRel
<1>2. PICK d \in S : \A e \in S : ~ (<<e, d>> \in R)
  <2> HIDE DEF R
  <2> QED BY <1>1, WFMin, Zenon
<1>3. \A e \in S : d <= e
  <2> TAKE e \in S
  <2>1. ~ (<<e, d>> \in R) /\ e \in Nat /\ d \in Nat
    <3> HIDE DEF R
    <3> QED BY <1>2
  <2> QED BY <2>1
<1> QED
  BY <1>3 DEF Min

\* The failures are in clusters, each in one.
PrintOf(results, t) == Shown(results[t].message).print
ClusterOf(failed, results, p) == {t \in failed : PrintOf(results, t) = p}
SizesOf(failed, results, p) == {results[t].message.size : t \in ClusterOf(failed, results, p)} \ {0}
Cause(failed, results, p) ==
  [print |-> p, tests |-> ClusterOf(failed, results, p),
   modules |-> {ModuleOf[t] : t \in ClusterOf(failed, results, p)},
   canonical |-> IF SizesOf(failed, results, p) = {} THEN 0 ELSE Min(SizesOf(failed, results, p))]

LEMMA ClustersAre ==
  ASSUME NEW failed, NEW results
  PROVE  Clusters(failed, results) =
           {Cause(failed, results, p) :
              p \in {PrintOf(results, t) : t \in {f \in failed : results[f].outcome \in Failing}}}
BY Zenon DEF Clusters, Cause, SizesOf, ClusterOf, PrintOf

LEMMA ClusterFacts ==
  ASSUME NEW results, NEW failed, IsResults(results), failed \subseteq DOMAIN results,
         \A t \in failed : results[t].outcome \in Failing
  PROVE  /\ UNION {x.tests : x \in Clusters(failed, results)} = failed
         /\ \A x, y \in Clusters(failed, results) : x # y => x.tests \cap y.tests = {}
         /\ \A x \in Clusters(failed, results) : \A t \in x.tests :
              results[t].message.size = 0 \/ x.canonical <= results[t].message.size
<1> DEFINE prints == {PrintOf(results, t) : t \in failed}
           C(p) == Cause(failed, results, p)
<1>1. Clusters(failed, results) = {C(p) : p \in prints}
  <2>1. {f \in failed : results[f].outcome \in Failing} = failed
    OBVIOUS
  <2> QED
    BY <2>1, ClustersAre
<1>2. \A p : C(p).tests = ClusterOf(failed, results, p) /\
        C(p).canonical = IF SizesOf(failed, results, p) = {} THEN 0 ELSE Min(SizesOf(failed, results, p))
  BY DEF Cause
<1> HIDE DEF C
<1>3. UNION {x.tests : x \in Clusters(failed, results)} = failed
  <2>1. ASSUME NEW t \in failed PROVE \E x \in Clusters(failed, results) : t \in x.tests
    <3>1. PrintOf(results, t) \in prints /\ t \in ClusterOf(failed, results, PrintOf(results, t))
      BY DEF ClusterOf
    <3> HIDE DEF prints
    <3> QED
      BY <3>1, <1>1, <1>2
  <2>2. ASSUME NEW x \in Clusters(failed, results) PROVE x.tests \subseteq failed
    <3> HIDE DEF prints
    <3> QED
      BY <1>1, <1>2 DEF ClusterOf
  <2> QED
    BY <2>1, <2>2
<1>4. ASSUME NEW x \in Clusters(failed, results), NEW y \in Clusters(failed, results), x # y
      PROVE  x.tests \cap y.tests = {}
  <2> HIDE DEF prints
  <2>1. PICK p, q : x = C(p) /\ y = C(q)
    BY <1>1
  <2>2. p # q
    BY <2>1, <1>4
  <2> QED
    BY <2>1, <2>2, <1>2 DEF ClusterOf
<1>5. ASSUME NEW x \in Clusters(failed, results), NEW t \in x.tests, results[t].message.size # 0
      PROVE  x.canonical <= results[t].message.size
  <2> HIDE DEF prints
  <2>1. PICK p : x = C(p)
    BY <1>1
  <2> DEFINE sizes == SizesOf(failed, results, p)
  <2>2. sizes \in SUBSET Nat /\ results[t].message.size \in sizes
    <3>1. t \in ClusterOf(failed, results, p) /\ ClusterOf(failed, results, p) \subseteq DOMAIN results
      BY <2>1, <1>2 DEF ClusterOf
    <3>2. \A f \in ClusterOf(failed, results, p) : results[f].message.size \in Nat
      BY <3>1 DEF IsResults
    <3> QED
      BY <3>1, <3>2, <1>5 DEF SizesOf
  <2> HIDE DEF sizes
  <2>3. Min(sizes) <= results[t].message.size
    BY <2>2, LeastNumber
  <2>4. x.canonical = Min(sizes)
    BY <2>1, <2>2, <1>2 DEF sizes
  <2> QED
    BY <2>3, <2>4
<1> QED
  BY <1>3, <1>4, <1>5

LEMMA FailuresListed ==
  ASSUME NEW base, NEW target, IsResults(base), IsResults(target)
  PROVE  FailuresAreListed(Comparison(base, target), base, target)
<1> DEFINE c == Comparison(base, target)
           failed == FailedIn(base, target)
<1>1. /\ c.regressions = OfKind(base, target, "REGRESSION") /\ c.newFails = OfKind(base, target, "NEW_FAIL")
      /\ c.persistent = OfKind(base, target, "PERSISTENT_FAIL") /\ c.causes = Clusters(failed, target)
  BY ComparisonParts
<1> HIDE DEF c
<1>2. c.regressions \cup c.newFails \cup c.persistent = failed
  BY <1>1 DEF FailedIn
<1>3. ASSUME NEW t \in failed PROVE t \in DOMAIN target /\ target[t].outcome \in Failing
  <2>1. OutcomeIn(target, t) \in Failing
    BY OfKindFacts DEF FailedIn, Failing
  <2> QED
    BY <2>1, OutcomeFacts
<1>4. ASSUME NEW t \in DOMAIN target, target[t].outcome = "FAIL", OutcomeIn(base, t) # "UNKNOWN"
      PROVE  t \in failed
  <2>1. OutcomeIn(target, t) = "FAIL"
    BY <1>4, OutcomeFacts
  <2>2. OutcomeIn(base, t) \in {"PASS", "FAIL", "BLOCKED", "ERROR", "none"}
    BY <1>4 DEF OutcomeIn, IsResults, Outcomes
  <2> QED
    BY <2>1, <2>2, OfKindFacts DEF FailedIn, Failing
<1> HIDE DEF failed
<1>5. /\ UNION {x.tests : x \in Clusters(failed, target)} = failed
      /\ \A x, y \in Clusters(failed, target) : x # y => x.tests \cap y.tests = {}
      /\ \A x \in Clusters(failed, target) : \A t \in x.tests :
           target[t].message.size = 0 \/ x.canonical <= target[t].message.size
  BY <1>3, ClusterFacts
<1>6. FailuresAreListed(c, base, target)
  BY <1>1, <1>2, <1>4, <1>5 DEF FailuresAreListed
<1> QED
  BY <1>6 DEF c

LEMMA ComparisonMirrors ==
  ASSUME NEW base, NEW target, IsResults(base), IsResults(target)
  PROVE  Mirrored(Comparison(base, target), base, target)
<1> DEFINE c == Comparison(base, target)
           back == Comparison(target, base)
<1>1. OfKind(target, base, "IMPROVEMENT") = OfKind(base, target, "REGRESSION")
  BY OfKindFacts
<1>2. OfKind(target, base, "REGRESSION") = OfKind(base, target, "IMPROVEMENT")
  BY OfKindFacts
<1>3. OfKind(target, base, "DISAPPEARED") = DOMAIN target \ DOMAIN base
  BY OfKindFacts
<1>4. /\ c.regressions = OfKind(base, target, "REGRESSION") /\ c.improvements = OfKind(base, target, "IMPROVEMENT")
      /\ c.slowdowns = SlowerIn(base, target) /\ c.speedups = FasterIn(base, target)
  BY ComparisonParts
<1>5. /\ back.regressions = OfKind(target, base, "REGRESSION") /\ back.improvements = OfKind(target, base, "IMPROVEMENT")
      /\ back.disappeared = OfKind(target, base, "DISAPPEARED")
      /\ back.slowdowns = SlowerIn(target, base) /\ back.speedups = FasterIn(target, base)
  BY ComparisonParts
<1>7. SlowerIn(target, base) = FasterIn(base, target) /\ FasterIn(target, base) = SlowerIn(base, target)
  BY DEF SlowerIn, FasterIn
<1> HIDE DEF c, back
<1>6. /\ back.improvements = c.regressions /\ back.regressions = c.improvements
      /\ back.slowdowns = c.speedups /\ back.speedups = c.slowdowns
      /\ back.disappeared = DOMAIN target \ DOMAIN base
  BY <1>1, <1>2, <1>3, <1>4, <1>5, <1>7
<1> QED
  BY <1>6 DEF Mirrored, c, back

\* What a report predicted is charged with what was found.
Charged(c, prediction, k) ==
  MatchedModules(prediction[k], {ModuleOf[t] : t \in DOMAIN c.kinds})
MovedIn(c, kind, modules) == {t \in DOMAIN c.kinds : c.kinds[t] = kind /\ ModuleOf[t] \in modules}

LEMMA CorrelatedParts ==
  ASSUME NEW c, NEW prediction
  PROVE  LET file == Correlated(c, prediction) IN
         /\ DOMAIN file.projects = DOMAIN prediction
         /\ \A k \in DOMAIN prediction :
              /\ file.projects[k].regressions = MovedIn(c, "REGRESSION", Charged(c, prediction, k))
              /\ file.projects[k].improvements = MovedIn(c, "IMPROVEMENT", Charged(c, prediction, k))
              /\ file.projects[k].unchanged =>
                   /\ MovedIn(c, "REGRESSION", Charged(c, prediction, k)) = {}
                   /\ MovedIn(c, "IMPROVEMENT", Charged(c, prediction, k)) = {}
         /\ file.missed = {t \in c.regressions :
                             \A k \in DOMAIN prediction : ModuleOf[t] \notin Charged(c, prediction, k)}
<1> DEFINE matched == [k \in DOMAIN prediction |-> Charged(c, prediction, k)]
           Project(k) == [modules |-> matched[k],
                          regressions |-> MovedIn(c, "REGRESSION", matched[k]),
                          improvements |-> MovedIn(c, "IMPROVEMENT", matched[k]),
                          unchanged |-> /\ matched[k] # {}
                                        /\ \A kind \in {"REGRESSION", "IMPROVEMENT", "UNBLOCKED"} :
                                             MovedIn(c, kind, matched[k]) = {}]
           missed == {t \in c.regressions : \A k \in DOMAIN prediction : ModuleOf[t] \notin matched[k]}
<1>1. Correlated(c, prediction) = [projects |-> [k \in DOMAIN prediction |-> Project(k)], missed |-> missed]
  BY Zenon DEF Correlated, MovedIn, Charged
<1>2. missed = {t \in c.regressions :
                  \A k \in DOMAIN prediction : ModuleOf[t] \notin Charged(c, prediction, k)}
  OBVIOUS
<1>3. ASSUME NEW k \in DOMAIN prediction
      PROVE  /\ Project(k).regressions = MovedIn(c, "REGRESSION", Charged(c, prediction, k))
             /\ Project(k).improvements = MovedIn(c, "IMPROVEMENT", Charged(c, prediction, k))
             /\ Project(k).unchanged =>
                  /\ MovedIn(c, "REGRESSION", Charged(c, prediction, k)) = {}
                  /\ MovedIn(c, "IMPROVEMENT", Charged(c, prediction, k)) = {}
  <2>1. matched[k] = Charged(c, prediction, k)
    OBVIOUS
  <2> HIDE DEF matched
  <2> QED
    BY <2>1
<1> HIDE DEF Project, missed
<1> QED
  BY <1>1, <1>2, <1>3

LEMMA PredictionsAccounted ==
  ASSUME NEW base, NEW target, NEW prediction
  PROVE  LET c == Comparison(base, target) IN PredictionsAccount(c, Correlated(c, prediction))
<1> DEFINE c == Comparison(base, target)
           file == Correlated(c, prediction)
           charged == UNION {file.projects[k].regressions : k \in DOMAIN file.projects}
<1>1. c.regressions = {t \in DOMAIN c.kinds : c.kinds[t] = "REGRESSION"}
  <2>1. /\ c.kinds = [t \in DOMAIN base \cup DOMAIN target |-> KindOf(base, target, t)]
        /\ c.regressions = OfKind(base, target, "REGRESSION")
    BY ComparisonParts
  <2> HIDE DEF c
  <2> QED
    BY <2>1 DEF OfKind
<1> HIDE DEF c
<1>2. /\ DOMAIN file.projects = DOMAIN prediction
      /\ \A k \in DOMAIN prediction :
           /\ file.projects[k].regressions = MovedIn(c, "REGRESSION", Charged(c, prediction, k))
           /\ file.projects[k].improvements = MovedIn(c, "IMPROVEMENT", Charged(c, prediction, k))
           /\ file.projects[k].unchanged =>
                /\ MovedIn(c, "REGRESSION", Charged(c, prediction, k)) = {}
                /\ MovedIn(c, "IMPROVEMENT", Charged(c, prediction, k)) = {}
      /\ file.missed = {t \in c.regressions :
                          \A k \in DOMAIN prediction : ModuleOf[t] \notin Charged(c, prediction, k)}
  BY CorrelatedParts
<1> HIDE DEF file
<1>3. \A t : t \in charged <=>
        t \in c.regressions /\ \E k \in DOMAIN prediction : ModuleOf[t] \in Charged(c, prediction, k)
  BY <1>1, <1>2 DEF MovedIn
<1>4. charged \cup file.missed = c.regressions /\ charged \cap file.missed = {}
  <2> HIDE DEF charged
  <2> QED BY <1>2, <1>3
<1>5. \A k \in DOMAIN file.projects :
        file.projects[k].unchanged => file.projects[k].regressions \cup file.projects[k].improvements = {}
  BY <1>2
<1>6. PredictionsAccount(c, file)
  BY <1>4, <1>5 DEF PredictionsAccount
<1> QED
  BY <1>6 DEF file, c

\* The rows of a timeline: a run before another one, one with a pass and one without.
Turns(row, first, then) ==
  \E j, k \in DOMAIN row : j < k /\ (row[j] = "PASS") = first /\ (row[k] = "PASS") = then

\* Three decided runs next to each other that alternate go both ways.
LEMMA AlternatingTurns ==
  ASSUME NEW n \in Nat, NEW row, DOMAIN row = 1..n, Alternates(row)
  PROVE  Turns(row, TRUE, FALSE) /\ Turns(row, FALSE, TRUE)
<1> DEFINE D == Decided(row)
<1>1. D \in SUBSET (1..n) /\ D \in SUBSET Nat /\ IsFiniteSet(D)
  BY FS_Interval, FS_Subset DEF Decided
<1>2. Cardinality(D) \in Nat /\ Cardinality(D) >= 3
  BY <1>1, FS_CardinalityType DEF Alternates
<1>3. \A S : S \subseteq D /\ IsFiniteSet(S) /\ Cardinality(S) \in Nat /\ Cardinality(S) > 0 => S # {}
  BY FS_EmptySet
<1> HIDE DEF D
<1>4. PICK a \in D : \A x \in D : a <= x
  <2>1. D # {}
    BY <1>1, <1>2, <1>3
  <2> QED BY <1>1, <2>1, LeastNumber
<1>5. IsFiniteSet(D \ {a}) /\ Cardinality(D \ {a}) = Cardinality(D) - 1
  BY <1>1, FS_RemoveElement
<1>6. PICK b \in D \ {a} : \A x \in D \ {a} : b <= x
  <2>1. D \ {a} # {} /\ D \ {a} \in SUBSET Nat
    BY <1>1, <1>2, <1>3, <1>5
  <2> QED BY <2>1, LeastNumber
<1>7. IsFiniteSet((D \ {a}) \ {b}) /\ Cardinality((D \ {a}) \ {b}) = Cardinality(D) - 2
  <2>1. IsFiniteSet((D \ {a}) \ {b}) /\ Cardinality((D \ {a}) \ {b}) = Cardinality(D \ {a}) - 1
    BY <1>5, <1>6, FS_RemoveElement
  <2> QED BY <2>1, <1>5, <1>2
<1>8. PICK e \in (D \ {a}) \ {b} : \A x \in (D \ {a}) \ {b} : e <= x
  <2>1. (D \ {a}) \ {b} # {} /\ (D \ {a}) \ {b} \in SUBSET Nat
    BY <1>1, <1>2, <1>3, <1>7
  <2> QED BY <2>1, LeastNumber
<1>9. a \in 1..n /\ b \in 1..n /\ e \in 1..n /\ a < b /\ b < e
  BY <1>1, <1>4, <1>6, <1>8
<1>10. NextTo(a, b, D) /\ NextTo(b, e, D)
  BY <1>1, <1>4, <1>6, <1>8, <1>9 DEF NextTo
<1>11. row[a] # row[b] /\ row[b] # row[e]
  BY <1>10, <1>4, <1>6, <1>8 DEF Alternates, Turning, D
<1>12. \A x \in D : row[x] = "PASS" \/ row[x] = "FAIL"
  BY DEF D, Decided
<1>13. (row[a] = "PASS" /\ row[b] # "PASS" /\ row[e] = "PASS") \/ (row[a] # "PASS" /\ row[b] = "PASS" /\ row[e] # "PASS")
  BY <1>11, <1>12, <1>4, <1>6, <1>8
<1> QED
  BY <1>9, <1>13 DEF Turns

\* More passes in one half than in the other.
LEMMA HalvesTurn ==
  ASSUME NEW n \in Nat, NEW row, DOMAIN row = 1..n, Len(row) = n, \E k \in 1..n : row[k] # "PASS"
  PROVE  /\ Passes(row, Halves(row)[2]) > Passes(row, Halves(row)[1]) => Turns(row, FALSE, TRUE)
         /\ Passes(row, Halves(row)[2]) < Passes(row, Halves(row)[1]) => Turns(row, TRUE, FALSE)
<1> DEFINE h == n \div 2
           A == 1..h
           B == (h + 1)..n
           PA == {k \in A : row[k] = "PASS"}
           PB == {k \in B : row[k] = "PASS"}
<1>1. h \in Nat /\ h <= n /\ n - h \in h..(h + 1)
  OBVIOUS
<1>2. Halves(row)[1] = A /\ Halves(row)[2] = B
  BY DEF Halves
<1>3. Passes(row, Halves(row)[1]) = Cardinality(PA) /\ Passes(row, Halves(row)[2]) = Cardinality(PB)
  BY <1>2 DEF Passes
<1> HIDE DEF h
<1>4. /\ IsFiniteSet(A) /\ Cardinality(A) = h /\ IsFiniteSet(B) /\ Cardinality(B) = n - h
  <2>1. IsFiniteSet(A) /\ Cardinality(A) = h
    BY <1>1, FS_Interval
  <2>2. IsFiniteSet(B) /\ Cardinality(B) = n - h
    BY <1>1, FS_Interval
  <2> QED BY <2>1, <2>2
<1> HIDE DEF A, B
<1>5. /\ IsFiniteSet(PA) /\ Cardinality(PA) <= h /\ (PA # A => Cardinality(PA) < h)
      /\ IsFiniteSet(PB) /\ Cardinality(PB) <= n - h /\ (PB # B => Cardinality(PB) < n - h)
  <2>1. PA \subseteq A /\ PB \subseteq B
    OBVIOUS
  <2> HIDE DEF PA, PB
  <2>2. IsFiniteSet(PA) /\ Cardinality(PA) <= h /\ (PA # A => Cardinality(PA) < h)
    BY <2>1, <1>1, <1>4, FS_Subset, FS_CardinalityType
  <2>3. IsFiniteSet(PB) /\ Cardinality(PB) <= n - h /\ (PB # B => Cardinality(PB) < n - h)
    BY <2>1, <1>1, <1>4, FS_Subset, FS_CardinalityType
  <2> QED BY <2>2, <2>3
<1>6. Cardinality(PA) \in Nat /\ Cardinality(PB) \in Nat /\ (Cardinality(PA) > 0 => PA # {}) /\ (Cardinality(PB) > 0 => PB # {})
  <2> HIDE DEF PA, PB
  <2> QED BY <1>5, FS_CardinalityType, FS_EmptySet
<1>7. ASSUME NEW j \in A, NEW k \in B PROVE j \in DOMAIN row /\ k \in DOMAIN row /\ j < k
  BY <1>1 DEF A, B
<1>8. ASSUME Cardinality(PB) > Cardinality(PA) PROVE Turns(row, FALSE, TRUE)
  <2>1. PICK k \in PB : TRUE
    BY <1>6, <1>8
  <2>2. PA # A
    <3>1. SUFFICES ASSUME PA = A PROVE FALSE
      OBVIOUS
    <3>2. Cardinality(PA) = h
      BY <3>1, <1>4
    <3>3. PB = B
      BY <3>2, <1>1, <1>5, <1>6, <1>8
    <3>4. \A i \in 1..n : i \in A \/ i \in B
      BY <1>1 DEF A, B
    <3> QED BY <3>1, <3>3, <3>4
  <2>3. PICK j \in A : row[j] # "PASS"
    BY <2>2
  <2> QED BY <2>1, <2>3, <1>7 DEF Turns
<1>9. ASSUME Cardinality(PB) < Cardinality(PA) PROVE Turns(row, TRUE, FALSE)
  <2>1. PICK j \in PA : TRUE
    BY <1>6, <1>9
  <2>2. PB # B
    <3>1. SUFFICES ASSUME PB = B PROVE FALSE
      OBVIOUS
    <3>2. Cardinality(PB) = n - h
      BY <3>1, <1>4
    <3> HIDE DEF PA, PB
    <3> QED BY <3>2, <1>1, <1>5, <1>6, <1>9
  <2>3. PICK k \in B : row[k] # "PASS"
    BY <2>2
  <2> QED BY <2>1, <2>3, <1>7 DEF Turns
<1> QED
  BY <1>3, <1>8, <1>9

LEMMA TrendFacts ==
  ASSUME NEW n \in Nat, NEW row, DOMAIN row = 1..n, Len(row) = n, Trend(row) # "stable"
  PROVE  /\ \E k \in DOMAIN row : row[k] # "PASS"
         /\ Trend(row) \in {"improving", "flaky"} => Turns(row, FALSE, TRUE)
         /\ Trend(row) \in {"regressing", "flaky"} => Turns(row, TRUE, FALSE)
<1>1. ~ \A k \in DOMAIN row : row[k] = row[1]
  BY DEF Trend
<1>2. n # 0 /\ 1 \in DOMAIN row /\ n \in DOMAIN row
  BY <1>1
<1>3. \E k \in 1..n : row[k] # "PASS"
  BY <1>1, <1>2
<1> DEFINE before == Passes(row, Halves(row)[1])
           after == Passes(row, Halves(row)[2])
<1>4. /\ after > before => Turns(row, FALSE, TRUE)
      /\ after < before => Turns(row, TRUE, FALSE)
  BY <1>3, HalvesTurn
<1>5. Alternates(row) => Turns(row, TRUE, FALSE) /\ Turns(row, FALSE, TRUE)
  BY AlternatingTurns
<1>6. /\ row[1] = "FAIL" /\ row[n] = "PASS" => Turns(row, FALSE, TRUE)
      /\ row[1] = "PASS" /\ row[n] = "FAIL" => Turns(row, TRUE, FALSE)
  BY <1>2 DEF Turns
<1>7. Trend(row) =
        IF Alternates(row) THEN "flaky"
        ELSE IF row[1] = "FAIL" /\ row[n] = "PASS" THEN "improving"
        ELSE IF row[1] = "PASS" /\ row[n] = "FAIL" THEN "regressing"
        ELSE IF after > before THEN "improving"
        ELSE IF after < before THEN "regressing" ELSE "unknown"
  <2>1. Trend(row) =
          IF \A k \in DOMAIN row : row[k] = row[1] THEN "stable"
          ELSE IF Alternates(row) THEN "flaky"
          ELSE IF row[1] = "FAIL" /\ row[Len(row)] = "PASS" THEN "improving"
          ELSE IF row[1] = "PASS" /\ row[Len(row)] = "FAIL" THEN "regressing"
          ELSE IF after > before THEN "improving"
          ELSE IF after < before THEN "regressing" ELSE "unknown"
    BY Zenon DEF Trend
  <2> HIDE DEF before, after
  <2> QED BY <2>1, <1>1
<1> HIDE DEF before, after
<1> QED
  BY <1>3, <1>4, <1>5, <1>6, <1>7

\* The runs of a timeline, each with the outcomes of its tests.
LEMMA TrendsWitnessed ==
  ASSUME NEW runs, NEW n \in Nat, DOMAIN runs = 1..n
  PROVE  TrendsAreWitnessed(Timeline(runs))
<1> DEFINE Outcomes1(k, t) == IF t \in DOMAIN runs[k].results THEN runs[k].results[t].outcome ELSE "UNKNOWN"
           rows == [t \in UNION {DOMAIN runs[k].results : k \in DOMAIN runs} |->
                      [k \in DOMAIN runs |-> Outcomes1(k, t)]]
           line == Timeline(runs)
<1>1. line = [kind |-> "timeline", rows |-> rows, trends |-> [t \in DOMAIN rows |-> Trend(rows[t])],
              interesting |-> {t \in DOMAIN rows : \E k \in DOMAIN runs : rows[t][k] # "PASS"}]
  BY Zenon DEF Timeline
<1>2. \A t \in DOMAIN rows : rows[t] = [k \in 1..n |-> Outcomes1(k, t)]
  OBVIOUS
<1> HIDE DEF Outcomes1, rows
<1>3. /\ line.rows = rows /\ line.trends = [t \in DOMAIN rows |-> Trend(rows[t])]
      /\ line.interesting = {t \in DOMAIN rows : \E k \in DOMAIN runs : rows[t][k] # "PASS"}
  BY <1>1
<1> HIDE DEF line
<1>4. ASSUME NEW t \in DOMAIN rows, Trend(rows[t]) # "stable"
      PROVE  /\ Trend(rows[t]) \in {"improving", "flaky"} => Turns(rows[t], FALSE, TRUE)
             /\ Trend(rows[t]) \in {"regressing", "flaky"} => Turns(rows[t], TRUE, FALSE)
             /\ t \in line.interesting
  <2>1. DOMAIN rows[t] = 1..n /\ Len(rows[t]) = n
    <3> DEFINE O(k) == Outcomes1(k, t)
    <3>1. rows[t] = [k \in 1..n |-> O(k)]
      BY <1>2
    <3> HIDE DEF O
    <3>2. Len([k \in 1..n |-> O(k)]) = n
      OBVIOUS
    <3> QED BY <3>1, <3>2
  <2>2. /\ \E k \in DOMAIN rows[t] : rows[t][k] # "PASS"
        /\ Trend(rows[t]) \in {"improving", "flaky"} => Turns(rows[t], FALSE, TRUE)
        /\ Trend(rows[t]) \in {"regressing", "flaky"} => Turns(rows[t], TRUE, FALSE)
    BY <2>1, <1>4, TrendFacts
  <2> QED
    BY <2>1, <2>2, <1>3
<1>5. \A t \in DOMAIN rows : Trend(rows[t]) = "stable" => Trend(rows[t]) \notin {"improving", "regressing", "flaky"}
  OBVIOUS
<1>6. TrendsAreWitnessed(line)
  <2> SUFFICES ASSUME NEW t \in DOMAIN rows
               PROVE  /\ Trend(rows[t]) \in {"improving", "flaky"} => Turns(rows[t], FALSE, TRUE)
                      /\ Trend(rows[t]) \in {"regressing", "flaky"} => Turns(rows[t], TRUE, FALSE)
                      /\ Trend(rows[t]) # "stable" => t \in line.interesting
    <3>1. \A t \in DOMAIN line.rows : line.trends[t] = Trend(rows[t]) /\ line.rows[t] = rows[t]
      BY <1>3
    <3>2. TrendsAreWitnessed(line) <=>
            \A t \in DOMAIN line.rows :
              /\ line.trends[t] \in {"improving", "flaky"} => Turns(line.rows[t], FALSE, TRUE)
              /\ line.trends[t] \in {"regressing", "flaky"} => Turns(line.rows[t], TRUE, FALSE)
              /\ line.trends[t] # "stable" => t \in line.interesting
      BY Zenon DEF TrendsAreWitnessed, Turns
    <3> QED
      BY <3>1, <3>2, <1>3
  <2> QED
    BY <1>4, <1>5
<1> QED
  BY <1>6 DEF line

\* Intervals of n numbers.
LEMMA Intervals ==
  ASSUME NEW n \in Nat
  PROVE  /\ IsFiniteSet(1..n) /\ Cardinality(1..n) = n
         /\ IsFiniteSet(0..n - 1) /\ Cardinality(0..n - 1) = n
<1>1. IsFiniteSet(1..n) /\ Cardinality(1..n) = IF 1 > n THEN 0 ELSE n - 1 + 1
  BY FS_Interval
<1>2. IsFiniteSet(0..n - 1) /\ Cardinality(0..n - 1) = IF 0 > n - 1 THEN 0 ELSE n - 1 - 0 + 1
  BY FS_Interval
<1> QED
  BY <1>1, <1>2

\* The order of paths is total, so that each has a place of its own.
LEMMA EarlierIsTotal ==
  ASSUME NEW ps \in Seq(Nat), NEW time, \A p \in Range(ps) : time[p] \in Nat
  PROVE  /\ \A i \in DOMAIN ps : ~ Earlier(i, i, ps, time)
         /\ \A i, j \in DOMAIN ps : i # j => Earlier(i, j, ps, time) \/ Earlier(j, i, ps, time)
         /\ \A i, j, k \in DOMAIN ps :
              Earlier(i, j, ps, time) /\ Earlier(j, k, ps, time) => Earlier(i, k, ps, time)
         /\ \A i, j \in DOMAIN ps : Earlier(i, j, ps, time) => time[ps[i]] <= time[ps[j]]
<1>1. \A i \in DOMAIN ps : i \in Nat /\ ps[i] \in Nat /\ time[ps[i]] \in Nat
  BY DEF Range
<1> QED
  BY <1>1 DEF Earlier

LEMMA PositionFacts ==
  ASSUME NEW ps \in Seq(Nat), NEW time, \A p \in Range(ps) : time[p] \in Nat
  PROVE  /\ \A i \in DOMAIN ps : Position(i, ps, time) \in 0..Len(ps) - 1
         /\ \A i, j \in DOMAIN ps : Earlier(i, j, ps, time) => Position(i, ps, time) < Position(j, ps, time)
<1> DEFINE D == DOMAIN ps
           Before(i) == {j \in D : Earlier(j, i, ps, time)}
<1>1. IsFiniteSet(D) /\ Cardinality(D) = Len(ps) /\ Len(ps) \in Nat
  <2>1. D = 1..Len(ps) /\ Len(ps) \in Nat
    OBVIOUS
  <2> HIDE DEF D
  <2>2. IsFiniteSet(1..Len(ps)) /\ Cardinality(1..Len(ps)) = Len(ps)
    BY <2>1, Intervals
  <2> QED BY <2>1, <2>2
<1>2. \A i \in D : Position(i, ps, time) = Cardinality(Before(i))
  BY DEF Position
<1> HIDE DEF D
<1>3. ASSUME NEW i \in D
      PROVE  IsFiniteSet(Before(i)) /\ Cardinality(Before(i)) \in Nat /\ Cardinality(Before(i)) < Len(ps)
  <2>1. Before(i) \subseteq D /\ i \notin Before(i)
    BY EarlierIsTotal DEF D
  <2> HIDE DEF Before
  <2> QED BY <2>1, <1>1, FS_Subset, FS_CardinalityType
<1>4. ASSUME NEW i \in D, NEW j \in D, Earlier(i, j, ps, time)
      PROVE  Cardinality(Before(i)) < Cardinality(Before(j))
  <2>1. Before(i) \subseteq Before(j) /\ i \in Before(j) /\ i \notin Before(i)
    BY <1>4, EarlierIsTotal DEF D
  <2>2. IsFiniteSet(Before(j)) /\ Cardinality(Before(i)) \in Nat /\ Cardinality(Before(j)) \in Nat
    BY <1>3
  <2> HIDE DEF Before
  <2> QED BY <2>1, <2>2, FS_Subset
<1> HIDE DEF Before
<1> QED
  BY <1>1, <1>2, <1>3, <1>4 DEF D

LEMMA SortedFacts ==
  ASSUME NEW ps \in Seq(Nat), NEW time, \A p \in Range(ps) : time[p] \in Nat
  PROVE  /\ Sorted(ps, time) \in [DOMAIN ps -> Range(ps)]
         /\ \A p \in Range(ps) : \E k \in DOMAIN ps : Sorted(ps, time)[k] = p
         /\ \A j, k \in DOMAIN ps : j < k => time[Sorted(ps, time)[j]] <= time[Sorted(ps, time)[k]]
<1> DEFINE D == DOMAIN ps
           place == [i \in D |-> Position(i, ps, time)]
           At(k) == CHOOSE i \in D : Position(i, ps, time) = k - 1
<1>0. D = 1..Len(ps) /\ Len(ps) \in Nat
  OBVIOUS
<1>1. IsFiniteSet(D) /\ Cardinality(D) = Len(ps)
  <2> HIDE DEF D
  <2> QED BY <1>0, Intervals
<1>2. place \in [D -> 0..Len(ps) - 1] /\ \A i, j \in D : place[i] = place[j] => i = j
  <2>1. \A i \in D : place[i] = Position(i, ps, time) /\ place[i] \in 0..Len(ps) - 1
    BY PositionFacts
  <2>2. ASSUME NEW i \in D, NEW j \in D, i # j PROVE place[i] # place[j]
    <3>1. Earlier(i, j, ps, time) \/ Earlier(j, i, ps, time)
      BY <2>2, EarlierIsTotal
    <3>2. Position(i, ps, time) < Position(j, ps, time) \/ Position(j, ps, time) < Position(i, ps, time)
      BY <3>1, PositionFacts
    <3> HIDE DEF place
    <3> QED BY <3>2, <2>1
  <2> QED BY <2>1, <2>2
<1>3. \A m \in 0..Len(ps) - 1 : \E i \in D : place[i] = m
  <2> DEFINE image == {place[i] : i \in D}
             N == 0..Len(ps) - 1
  <2>1. IsFiniteSet(N) /\ Cardinality(N) = Len(ps)
    BY <1>0, Intervals
  <2>2. image \subseteq N
    BY <1>2
  <2>3. place \in Bijection(D, image)
    <3> HIDE DEF D, place
    <3> QED BY <1>2 DEF Bijection, Injection, Surjection, IsInjective
  <2>4. Cardinality(image) = Len(ps)
    <3> HIDE DEF image, place, D
    <3> QED BY <2>3, <1>1, FS_Bijection DEF ExistsBijection
  <2>5. image = N
    <3> HIDE DEF image, N
    <3> QED BY <2>1, <2>2, <2>4, FS_Subset
  <2> QED BY <2>5
<1>4. ASSUME NEW k \in D PROVE At(k) \in D /\ Position(At(k), ps, time) = k - 1
  <2>1. k - 1 \in 0..Len(ps) - 1
    BY <1>0
  <2>2. \E i \in D : Position(i, ps, time) = k - 1
    BY <2>1, <1>3
  <2> HIDE DEF D
  <2> QED BY <2>2
<1>5. Sorted(ps, time) = [k \in D |-> ps[At(k)]]
  BY DEF Sorted
<1> HIDE DEF At, place
<1>6. Sorted(ps, time) \in [DOMAIN ps -> Range(ps)]
  BY <1>4, <1>5 DEF Range
<1>7. ASSUME NEW p \in Range(ps) PROVE \E k \in DOMAIN ps : Sorted(ps, time)[k] = p
  <2>1. PICK i \in D : ps[i] = p
    BY DEF Range
  <2> DEFINE k == place[i] + 1
  <2>2. k \in D
    BY <1>0, <1>2
  <2>3. At(k) \in D /\ place[At(k)] = place[i]
    <3>1. At(k) \in D /\ Position(At(k), ps, time) = k - 1
      BY <2>2, <1>4
    <3>2. place[At(k)] = Position(At(k), ps, time) /\ place[i] \in Nat
      BY <3>1, <1>2 DEF place
    <3> QED BY <3>1, <3>2
  <2>4. At(k) = i
    BY <2>3, <1>2
  <2> QED BY <2>1, <2>2, <2>4, <1>5
<1>8. ASSUME NEW j \in D, NEW k \in D, j < k PROVE time[Sorted(ps, time)[j]] <= time[Sorted(ps, time)[k]]
  <2>1. /\ At(j) \in D /\ Position(At(j), ps, time) = j - 1
        /\ At(k) \in D /\ Position(At(k), ps, time) = k - 1
    BY <1>4
  <2>2. ~ Earlier(At(k), At(j), ps, time)
    <3>1. SUFFICES ASSUME Earlier(At(k), At(j), ps, time) PROVE FALSE
      OBVIOUS
    <3>2. k - 1 < j - 1
      BY <2>1, <3>1, PositionFacts
    <3> QED BY <3>2, <1>0, <1>8
  <2>3. At(j) # At(k)
    BY <2>1, <1>0, <1>8
  <2>4. Earlier(At(j), At(k), ps, time)
    BY <2>1, <2>2, <2>3, EarlierIsTotal
  <2>5. time[ps[At(j)]] <= time[ps[At(k)]]
    BY <2>1, <2>4, EarlierIsTotal
  <2> QED BY <2>5, <1>5
<1> QED
  BY <1>6, <1>7, <1>8

\* So the runs are in the order of any time that the sort is by.
SortedBy(ps, time) ==
  \A j, k \in DOMAIN ps : j < k => time[SortRunPaths(ps)[j]] <= time[SortRunPaths(ps)[k]]

LEMMA SortRunFacts ==
  ASSUME NEW ps \in Seq(Paths), world \in Worlds
  PROVE  /\ SortRunPaths(ps) \in [DOMAIN ps -> Range(ps)]
         /\ \A p \in Range(ps) : \E k \in DOMAIN ps : SortRunPaths(ps)[k] = p
         /\ IF \A p \in Range(ps) : IniTime(p) > 0 THEN SortedBy(ps, IniTimes(ps))
            ELSE (\A p \in Range(ps) : NameTime(p) > 0) => SortedBy(ps, NameTimes(ps))
<1>1. ps \in Seq(Nat) /\ Range(ps) \subseteq Paths
  <2>1. Paths \subseteq Nat
    BY CompareAssumption
  <2>2. DOMAIN ps = 1..Len(ps) /\ Len(ps) \in Nat /\ \A k \in 1..Len(ps) : ps[k] \in Paths
    OBVIOUS
  <2>3. ps \in Seq(Nat)
    <3>1. ps = [k \in 1..Len(ps) |-> ps[k]]
      OBVIOUS
    <3>2. ps \in [1..Len(ps) -> Nat]
      BY <2>1, <2>2, <3>1
    <3> QED BY <2>2, <3>2
  <2> QED BY <2>2, <2>3 DEF Range
<1>2. \A p \in Range(ps) : IniTimes(ps)[p] \in Nat /\ NameTimes(ps)[p] \in Nat
  <2>1. \A p \in Paths : IniTime(p) \in Nat /\ NameTime(p) \in Nat
    BY CompareAssumption DEF IniTime, NameTime
  <2> QED BY <1>1, <2>1 DEF IniTimes, NameTimes
<1> DEFINE none == [p \in Range(ps) |-> 0]
<1>3. \A p \in Range(ps) : none[p] \in Nat
  OBVIOUS
<1> HIDE DEF none
<1>4. SortRunPaths(ps) = IF \A p \in Range(ps) : IniTime(p) > 0 THEN Sorted(ps, IniTimes(ps))
                         ELSE IF \A p \in Range(ps) : NameTime(p) > 0 THEN Sorted(ps, NameTimes(ps))
                         ELSE Sorted(ps, none)
  BY Zenon DEF SortRunPaths, none
<1>5. CASE \A p \in Range(ps) : IniTime(p) > 0
  <2>1. SortRunPaths(ps) = Sorted(ps, IniTimes(ps))
    BY <1>4, <1>5
  <2> QED BY <2>1, <1>1, <1>2, <1>5, SortedFacts DEF SortedBy
<1>6. CASE ~ (\A p \in Range(ps) : IniTime(p) > 0) /\ \A p \in Range(ps) : NameTime(p) > 0
  <2>1. SortRunPaths(ps) = Sorted(ps, NameTimes(ps))
    BY <1>4, <1>6
  <2> QED BY <2>1, <1>1, <1>2, <1>6, SortedFacts DEF SortedBy
<1>7. CASE ~ (\A p \in Range(ps) : IniTime(p) > 0) /\ ~ (\A p \in Range(ps) : NameTime(p) > 0)
  <2>1. SortRunPaths(ps) = Sorted(ps, none)
    BY <1>4, <1>7
  <2> QED BY <2>1, <1>1, <1>3, <1>7, SortedFacts
<1> QED
  BY <1>5, <1>6, <1>7

\* A set of natural numbers with a bound has a greatest one.
LEMMA GreatestNumber ==
  ASSUME NEW n \in Nat, NEW S \in SUBSET (0..n), S # {}
  PROVE  Max(S) \in S /\ \A x \in S : x <= Max(S)
<1> DEFINE T == {n - x : x \in S}
<1>1. \A x \in S : x \in Nat /\ x <= n /\ n - x \in Nat
  OBVIOUS
<1>2. T \in SUBSET Nat /\ T # {}
  BY <1>1
<1>3. PICK t \in T : \A u \in T : t <= u
  <2> HIDE DEF T
  <2> QED BY <1>2, LeastNumber
<1>4. PICK m \in S : t = n - m
  BY <1>3
<1>5. ASSUME NEW x \in S PROVE m >= x
  <2>1. n - x \in T
    OBVIOUS
  <2>2. t <= n - x
    BY <2>1, <1>3
  <2> QED BY <2>2, <1>1, <1>4
<1> QED
  BY <1>4, <1>5 DEF Max

\* What is loaded from a path, under any label.
Cases(p) == world.files[p].cases
ResultsAt(p) ==
  [t \in {Cases(p)[k].test : k \in DOMAIN Cases(p)} |->
     Result(LastOfTest(Cases(p), t), world.files[p].errors)]

LEMMA LoadRunIs ==
  ASSUME NEW p, NEW label, NEW strict
  PROVE  LoadRun(p, label, strict) # <<>> =>
           /\ LoadRun(p, label, strict) = <<LoadRun(p, label, strict)[1]>>
           /\ LoadRun(p, label, strict)[1].path = p /\ LoadRun(p, label, strict)[1].results = ResultsAt(p)
<1> DEFINE run == [label |-> label, path |-> p, devices |-> world.files[p].devices, results |-> ResultsAt(p)]
           bad == ~ Opens(world.files[p], strict) \/ world.files[p].xml # "whole"
<1>1. LoadRun(p, label, strict) = IF bad THEN <<>> ELSE <<run>>
  BY Zenon DEF LoadRun, ResultsAt, Cases
<1>2. run.path = p /\ run.results = ResultsAt(p)
  OBVIOUS
<1> HIDE DEF run, bad
<1> QED
  BY <1>1, <1>2

LEMMA ResultsAreTyped ==
  ASSUME world \in Worlds, NEW p \in Paths
  PROVE  IsResults(ResultsAt(p))
<1>1. /\ Cases(p) \in Seq(Range(Cases(p))) /\ \A case \in Range(Cases(p)) : IsCase(case)
  BY CompareAssumption DEF Cases
<1>2. DOMAIN Cases(p) = 1..Len(Cases(p)) /\ Len(Cases(p)) \in Nat
  BY <1>1
<1>3. \A k \in DOMAIN Cases(p) : IsCase(Cases(p)[k])
  BY <1>1 DEF Range
<1>4. ASSUME NEW t \in DOMAIN ResultsAt(p)
      PROVE  /\ t \in Tests /\ ResultsAt(p)[t].outcome \in Outcomes
             /\ ResultsAt(p)[t].message.size \in Nat
  <2> DEFINE S == {k \in DOMAIN Cases(p) : Cases(p)[k].test = t}
  <2>1. S \in SUBSET (0..Len(Cases(p))) /\ S # {}
    BY <1>2 DEF ResultsAt
  <2>2. Max(S) \in S
    <3> HIDE DEF S
    <3> QED BY <1>2, <2>1, GreatestNumber
  <2> DEFINE case == LastOfTest(Cases(p), t)
             result == Result(case, world.files[p].errors)
  <2>3. IsCase(case) /\ case.test = t
    BY <1>3, <2>2 DEF LastOfTest
  <2>4. ResultsAt(p)[t] = result
    BY DEF ResultsAt
  <2>5. result.outcome = Outcome(case.status, case.result) /\ result.message = case.message
    <3> HIDE DEF case
    <3>1. \A type : [outcome |-> Outcome(case.status, case.result), message |-> case.message, ms |-> case.ms,
                     type |-> type].outcome = Outcome(case.status, case.result)
      OBVIOUS
    <3>2. \A type : [outcome |-> Outcome(case.status, case.result), message |-> case.message, ms |-> case.ms,
                     type |-> type].message = case.message
      OBVIOUS
    <3> QED BY <3>1, <3>2 DEF Result
  <2> HIDE DEF result, case
  <2> QED BY <2>3, <2>4, <2>5 DEF IsCase, Outcome, Outcomes
<1> QED
  BY <1>4 DEF IsResults

\* The parts of a labelled run, of which it has every test.
LEMMA MergedIs ==
  ASSUME NEW shards, NEW label, \A p \in DOMAIN shards : IsResults(shards[p].results),
         Merged(shards, label) # <<>>
  PROVE  /\ Merged(shards, label) = <<Merged(shards, label)[1]>>
         /\ DOMAIN Merged(shards, label)[1].results = UNION {DOMAIN shards[p].results : p \in DOMAIN shards}
         /\ IsResults(Merged(shards, label)[1].results)
<1> DEFINE tests(p) == DOMAIN shards[p].results
           twice == \E p, q \in DOMAIN shards : p # q /\ tests(p) \cap tests(q) # {}
           all == UNION {tests(p) : p \in DOMAIN shards}
           Of(t) == CHOOSE p \in DOMAIN shards : t \in tests(p)
           results == [t \in all |-> shards[Of(t)].results[t]]
           run == [label |-> label, path |-> 0, devices |-> UNION {shards[p].devices : p \in DOMAIN shards},
                   results |-> results]
<1>1. Merged(shards, label) = IF twice THEN <<>> ELSE <<run>>
  BY Zenon DEF Merged
<1>2. run.results = results
  OBVIOUS
<1>3. IsResults(results) /\ DOMAIN results = all
  <2>1. \A t \in all : Of(t) \in DOMAIN shards /\ t \in tests(Of(t))
    OBVIOUS
  <2> HIDE DEF Of
  <2>2. DOMAIN results = all /\ \A t \in all : results[t] = shards[Of(t)].results[t]
    OBVIOUS
  <2> HIDE DEF results
  <2>3. all \subseteq Tests
    BY DEF IsResults
  <2> QED BY <2>1, <2>2, <2>3 DEF IsResults
<1> HIDE DEF run, twice, results
<1> QED
  BY <1>1, <1>2, <1>3

IsSource(source) == source.label # "" \/ source.path \in Paths

LEMMA PartsAre ==
  ASSUME world \in Worlds, NEW m \in world.store, NEW label, NEW strict,
         LoadParts(m, label, strict) # <<>>
  PROVE  /\ LoadParts(m, label, strict) = <<LoadParts(m, label, strict)[1]>>
         /\ IsResults(LoadParts(m, label, strict)[1].results)
         /\ DOMAIN LoadParts(m, label, strict)[1].results
              = UNION {DOMAIN ResultsAt(p) : p \in Comparable(m)}
         /\ \A p \in Comparable(m) : LoadRun(p, label, strict) # <<>>
<1> DEFINE paths == Comparable(m)
           shards == [p \in paths |-> LoadRun(p, label, strict)[1]]
<1>1. paths \subseteq Paths
  <2>1. m.paths \in Seq(Paths)
    BY CompareAssumption DEF IsPaths
  <2> QED BY <2>1 DEF Comparable, Range
<1>2. LoadParts(m, label, strict) =
        IF \E p \in paths : LoadRun(p, label, strict) = <<>> THEN <<>> ELSE Merged(shards, label)
  BY Zenon DEF LoadParts
<1> HIDE DEF paths
<1>3. /\ \A p \in paths : LoadRun(p, label, strict) # <<>>
      /\ LoadParts(m, label, strict) = Merged(shards, label)
  BY <1>2
<1>4. DOMAIN shards = paths /\ \A p \in paths : shards[p] = LoadRun(p, label, strict)[1]
  OBVIOUS
<1> HIDE DEF shards
<1>5. \A p \in paths : shards[p].results = ResultsAt(p) /\ IsResults(ResultsAt(p))
  BY <1>1, <1>3, <1>4, LoadRunIs, ResultsAreTyped
<1>6. /\ Merged(shards, label) = <<Merged(shards, label)[1]>>
      /\ DOMAIN Merged(shards, label)[1].results = UNION {DOMAIN shards[p].results : p \in DOMAIN shards}
      /\ IsResults(Merged(shards, label)[1].results)
  <2>1. \A p \in DOMAIN shards : IsResults(shards[p].results)
    BY <1>4, <1>5
  <2>2. Merged(shards, label) # <<>>
    BY <1>3
  <2> QED BY <2>1, <2>2, MergedIs
<1>7. UNION {DOMAIN shards[p].results : p \in DOMAIN shards} = UNION {DOMAIN ResultsAt(p) : p \in paths}
  BY <1>4, <1>5
<1>8. UNION {DOMAIN ResultsAt(p) : p \in paths} = UNION {DOMAIN ResultsAt(p) : p \in Comparable(m)}
  BY DEF paths
<1> QED
  BY <1>3, <1>6, <1>7, <1>8 DEF paths

\* A run that is taken by its label has completed if any has, and has all of its parts.
TakenOf(source, results) ==
  \E m \in world.store :
    /\ m.label = source.label
    /\ UNION {DOMAIN LoadRun(p, "", command.strict)[1].results : p \in Comparable(m)} = DOMAIN results
    /\ \A n \in world.store :
         n.label = m.label /\ n.completed /\ Comparable(n) # {} => m.completed

LEMMA RankOfTaken ==
  ASSUME NEW m, NEW n, Comparable(m) # {}, Comparable(n) # {}, n.completed, Better(m, n)
  PROVE  m.completed
BY DEF Better, ManifestRank

LEMMA ReadableUnlabelled ==
  ASSUME NEW p, NEW label, NEW strict, LoadRun(p, label, strict) # <<>>
  PROVE  LoadRun(p, "", strict)[1].results = ResultsAt(p)
<1>1. LoadRun(p, "", strict) # <<>>
  <2> DEFINE bad == ~ Opens(world.files[p], strict) \/ world.files[p].xml # "whole"
  <2>1. ~ bad
    BY DEF LoadRun
  <2> QED BY <2>1 DEF LoadRun
<1> QED
  BY <1>1, LoadRunIs

LEMMA LoadFacts ==
  ASSUME world \in Worlds, NEW source, IsSource(source), Load(source) # <<>>
  PROVE  /\ Load(source) = <<Load(source)[1]>>
         /\ IsResults(Load(source)[1].results)
         /\ source.label = "" => Load(source)[1].path = source.path
         /\ source.label # "" => TakenOf(source, Load(source)[1].results)
<1>1. CASE source.label = ""
  <2>1. Load(source) = LoadRun(source.path, source.path, command.strict) /\ source.path \in Paths
    BY <1>1 DEF Load, IsSource
  <2>2. IsResults(ResultsAt(source.path))
    BY <2>1, ResultsAreTyped
  <2>3. /\ Load(source) = <<Load(source)[1]>> /\ Load(source)[1].path = source.path
        /\ Load(source)[1].results = ResultsAt(source.path)
    BY <2>1, LoadRunIs
  <2> QED BY <1>1, <2>2, <2>3
<1>2. CASE source.label # ""
  <2> DEFINE found == {m \in LabelledRun(source.label) : Comparable(m) # {}}
             m == CHOOSE x \in found : TRUE
  <2>1. Load(source) = IF found = {} THEN <<>> ELSE LoadParts(m, source.label, command.strict)
    BY <1>2, Zenon DEF Load, LoadLabelled
  <2>2. found # {} /\ Load(source) = LoadParts(m, source.label, command.strict)
    BY <2>1
  <2>3. m \in LabelledRun(source.label) /\ Comparable(m) # {}
    BY <2>2
  <2> HIDE DEF m
  <2>4. /\ m \in world.store /\ m.label = source.label
        /\ \A n \in world.store : n.label = source.label /\ n # m => Better(m, n)
    BY <2>3 DEF LabelledRun
  <2>5. /\ Load(source) = <<Load(source)[1]>> /\ IsResults(Load(source)[1].results)
        /\ DOMAIN Load(source)[1].results = UNION {DOMAIN ResultsAt(p) : p \in Comparable(m)}
        /\ \A p \in Comparable(m) : LoadRun(p, source.label, command.strict) # <<>>
    BY <2>2, <2>4, PartsAre
  <2>6. \A p \in Comparable(m) : LoadRun(p, "", command.strict)[1].results = ResultsAt(p)
    BY <2>5, ReadableUnlabelled
  <2>7. UNION {DOMAIN LoadRun(p, "", command.strict)[1].results : p \in Comparable(m)}
          = UNION {DOMAIN ResultsAt(p) : p \in Comparable(m)}
    BY <2>6
  <2>8. ASSUME NEW n \in world.store, n.label = m.label, n.completed, Comparable(n) # {}
        PROVE  m.completed
    BY <2>3, <2>4, <2>8, RankOfTaken
  <2> QED BY <1>2, <2>4, <2>5, <2>7, <2>8 DEF TakenOf
<1> QED
  BY <1>1, <1>2

-------------------------------------------------------------------------------
\* The stages of a comparison: what is to be loaded, what was, and what is shown of it.
Showing == {"compare", "timeline", "single"}

StageInv ==
  /\ end = "save" => stage = "idle"
  /\ stage = "idle" \/ (world \in Worlds /\ command \in Commands)
  /\ stage \in {"idle", "arguments", "scan", "exited"} \cup Showing
  /\ verdict \in 0..3 /\ (stage = "exited" <=> verdict # 3)
  /\ shown = Silence <=> verdict \in {2, 3}

\* The paths to be put in order, all of which are those of the command or found.
InSearch == command.paths # <<>> /\ Mode = "scan"
IsAll(ps) == ps \in Seq(Paths) /\ Range(ps) = IF InSearch THEN Found ELSE Range(command.paths)
\* The runs are the last of them, in the order of sort_run_paths.
EndsOf(runs, ps, d) ==
  /\ Len(ps) = d + Len(runs)
  /\ \A k \in DOMAIN runs : runs[k] = FromPath(SortRunPaths(ps)[d + k])
Arranged(runs) == \E ps, d : d \in Nat /\ IsAll(ps) /\ EndsOf(runs, ps, d)

AreSources(runs) == runs \in Seq(Range(runs)) /\ \A k \in DOMAIN runs : IsSource(runs[k])

SourcesInv ==
  /\ AreSources(sources)
  /\ stage = "arguments" => sources = <<>>
  /\ stage = "scan" =>
       /\ InSearch /\ entries \in Seq(Paths)
       /\ \A k \in DOMAIN sources : sources[k] = FromPath(sources[k].path) /\ sources[k].path \in Paths
       /\ Found = {sources[k].path : k \in DOMAIN sources} \cup {p \in Range(entries) : IsArchive(p)}
  /\ stage = "compare" => Len(sources) = 2
  /\ command.paths # <<>> /\ (stage \in Showing \/ shown # Silence) => Arranged(sources)

LoadedInv ==
  /\ loaded \in Seq(Range(loaded)) /\ Len(loaded) <= Len(sources)
  /\ stage \in {"idle", "arguments", "scan"} => loaded = <<>>
  /\ \A k \in DOMAIN loaded : Load(sources[k]) # <<>> /\ loaded[k] = Load(sources[k])[1]
  /\ shown # Silence => Len(loaded) = Len(sources)

ShownInv ==
  shown # Silence =>
    \/ /\ shown.kind = "comparison" /\ Len(sources) = 2
       /\ shown.comparison = Comparison(loaded[1].results, loaded[2].results)
       /\ \A f \in DOMAIN shown.files :
            \E prediction : shown.files[f] = Correlated(shown.comparison, prediction)
       /\ verdict = IF shown.comparison.regressions # {} THEN 1 ELSE 0
    \/ shown.kind = "timeline" /\ shown = Timeline(loaded) /\ verdict = 0
    \/ shown.kind = "single" /\ verdict = 0

CompareInv == StageInv /\ SourcesInv /\ LoadedInv /\ ShownInv

\* The disk and the command stay as they are.
LEMMA Frozen ==
  ASSUME world' = world, command' = command
  PROVE  /\ \A s : Load(s)' = Load(s)
         /\ Found' = Found /\ InSearch' = InSearch /\ \A p : IsArchive(p)' = IsArchive(p)
         /\ \A ps : SortRunPaths(ps)' = SortRunPaths(ps)
<1>1. ASSUME NEW s PROVE Load(s)' = Load(s)
  BY SMT DEF Load, LoadLabelled, LoadParts, LoadRun, LabelledRun, Better, ManifestRank, Comparable
<1>2. ASSUME NEW ps PROVE SortRunPaths(ps)' = SortRunPaths(ps)
  BY SMT DEF SortRunPaths, Sorted, IniTimes, NameTimes, IniTime, NameTime
<1>3. ASSUME NEW p PROVE IsArchive(p)' = IsArchive(p)
  BY DEF IsArchive
<1>4. Found' = Found
  BY Zenon DEF Found, IsArchive
<1>5. InSearch' = InSearch
  BY SMT DEF InSearch, Mode
<1> QED
  BY <1>1, <1>2, <1>3, <1>4, <1>5

LEMMA FrozenSources ==
  ASSUME world' = world, command' = command
  PROVE  \A runs : Arranged(runs)' = Arranged(runs)
<1>1. ASSUME NEW runs, NEW ps, NEW d PROVE EndsOf(runs, ps, d)' = EndsOf(runs, ps, d)
  BY Frozen DEF EndsOf
<1>2. ASSUME NEW ps PROVE IsAll(ps)' = IsAll(ps)
  BY Frozen DEF IsAll
<1> QED
  BY <1>1, <1>2 DEF Arranged

\* The paths of a list, one after the other.
LEMMA FromPathsFacts ==
  ASSUME NEW n \in Nat, NEW ps, DOMAIN ps = 1..n, \A k \in 1..n : ps[k] \in Paths
  PROVE  /\ AreSources(FromPaths(ps)) /\ Len(FromPaths(ps)) = n /\ DOMAIN FromPaths(ps) = 1..n
         /\ \A k \in 1..n : FromPaths(ps)[k] = FromPath(ps[k])
<1> DEFINE list == FromPaths(ps)
<1>1. list = [k \in 1..n |-> FromPath(ps[k])]
  BY DEF FromPaths
<1>2. \A p : FromPath(p).path = p
  BY DEF FromPath
<1>3. DOMAIN list = 1..n /\ \A k \in 1..n : list[k] = FromPath(ps[k])
  BY <1>1
<1> HIDE DEF list
<1>4. list = [k \in 1..n |-> list[k]]
  BY <1>1
<1>5. \A k \in 1..n : list[k] \in Range(list)
  BY <1>3 DEF Range
<1>6. list \in Seq(Range(list)) /\ Len(list) = n
  BY <1>3, <1>4, <1>5
<1>7. \A k \in 1..n : IsSource(list[k])
  BY <1>2, <1>3 DEF IsSource
<1> QED
  BY <1>3, <1>6, <1>7 DEF list, AreSources

LEMMA SortedPaths ==
  ASSUME NEW ps \in Seq(Paths), world \in Worlds
  PROVE  /\ Len(ps) \in Nat /\ DOMAIN SortRunPaths(ps) = 1..Len(ps) /\ Len(SortRunPaths(ps)) = Len(ps)
         /\ \A k \in 1..Len(ps) : SortRunPaths(ps)[k] \in Paths
<1>1. SortRunPaths(ps) \in [DOMAIN ps -> Range(ps)]
  BY SortRunFacts
<1>2. DOMAIN ps = 1..Len(ps) /\ Len(ps) \in Nat /\ Range(ps) \subseteq Paths
  BY DEF Range
<1> QED
  BY <1>1, <1>2

LEMMA ModeFacts ==
  ASSUME command \in Commands, ValidArgs
  PROVE  /\ Mode \in {"scan"} \cup Showing
         /\ Given(command.base) => Mode = "compare" /\ command.paths = <<>> /\ command.timeline = <<>>
         /\ ~ Given(command.base) /\ command.timeline # <<>> => Mode = "timeline" /\ command.paths = <<>>
         /\ ~ Given(command.base) /\ command.timeline = <<>> =>
              /\ command.paths # <<>> /\ Len(command.paths) \in Nat
              /\ Mode = "single" => Len(command.paths) = 1
              /\ Mode = "compare" => Len(command.paths) = 2
<1>1. command.timeline \in Seq(Paths) /\ command.paths \in Seq(Paths)
  BY CompareAssumption DEF IsPaths
<1>2. Given(command.base) \/ command.timeline # <<>> \/ command.paths # <<>>
  BY DEF ValidArgs
<1>3. command.paths # <<>> => ~ Given(command.base) /\ command.timeline = <<>>
  BY DEF ValidArgs
<1>4. ~ (Given(command.base) /\ command.timeline # <<>>)
  BY DEF ValidArgs
<1>5. Mode = IF Given(command.base) THEN "compare"
             ELSE IF command.timeline # <<>> THEN "timeline"
             ELSE IF Len(command.paths) = 1
                  THEN IF world.files[command.paths[1]].kind = "folder" /\ world.files[command.paths[1]].xml = "none"
                       THEN "scan" ELSE "single"
             ELSE IF Len(command.paths) = 2 THEN "compare" ELSE "timeline"
  BY DEF Mode
<1>6. Len(command.paths) \in Nat
  BY <1>1
<1> QED
  BY <1>2, <1>3, <1>4, <1>5, <1>6 DEF Showing

LEMMA OrderedFacts ==
  ASSUME world \in Worlds, command \in Commands, ValidArgs, Mode # "scan"
  PROVE  /\ AreSources(Ordered(Mode)) /\ Len(Ordered(Mode)) \in Nat
         /\ Mode = "compare" => Len(Ordered(Mode)) = 2
         /\ command.paths # <<>> => Arranged(Ordered(Mode))
<1>1. command.timeline \in Seq(Paths) /\ command.paths \in Seq(Paths)
  BY CompareAssumption DEF IsPaths
<1>2. CASE Given(command.base)
  <2>1. Given(command.target) /\ command.base.path \in Paths \cup {0} /\ command.target.path \in Paths \cup {0}
    BY <1>2, CompareAssumption DEF ValidArgs
  <2>2. IsSource(command.base) /\ IsSource(command.target)
    BY <1>2, <2>1 DEF Given, IsSource
  <2>3. Ordered(Mode) = <<command.base, command.target>>
    BY <1>2 DEF Ordered
  <2>4. AreSources(<<command.base, command.target>>)
    BY <2>2 DEF AreSources, Range
  <2> QED BY <2>3, <2>4, <1>2, ModeFacts
<1>3. CASE ~ Given(command.base) /\ command.timeline # <<>>
  <2>1. Ordered(Mode) = FromPaths(command.timeline)
    BY <1>3 DEF Ordered
  <2>2. /\ DOMAIN command.timeline = 1..Len(command.timeline) /\ Len(command.timeline) \in Nat
        /\ \A k \in 1..Len(command.timeline) : command.timeline[k] \in Paths
    BY <1>1
  <2>3. AreSources(FromPaths(command.timeline)) /\ Len(FromPaths(command.timeline)) = Len(command.timeline)
    BY <2>2, FromPathsFacts
  <2> QED BY <2>1, <2>2, <2>3, <1>3, ModeFacts
<1>4. CASE ~ Given(command.base) /\ command.timeline = <<>>
  <2> DEFINE ps == command.paths
             S == SortRunPaths(ps)
  <2>1. ps \in Seq(Paths) /\ Len(ps) \in Nat /\ DOMAIN ps = 1..Len(ps) /\ \A k \in 1..Len(ps) : ps[k] \in Paths
    BY <1>1
  <2>2. IsAll(ps)
    BY <2>1 DEF IsAll, InSearch
  <2>3. DOMAIN S = 1..Len(ps) /\ \A k \in 1..Len(ps) : S[k] \in Paths
    BY <2>1, SortedPaths
  <2> HIDE DEF S
  <2>4. CASE Mode = "single"
    <3>1. Ordered(Mode) = FromPaths(ps) /\ Len(ps) = 1
      BY <1>4, <2>4, ModeFacts DEF Ordered
    <3>2. AreSources(FromPaths(ps)) /\ Len(FromPaths(ps)) = 1 /\ DOMAIN FromPaths(ps) = {1} /\ FromPaths(ps)[1] = FromPath(ps[1])
      BY <2>1, <3>1, FromPathsFacts
    <3>3. S[1] = ps[1]
      <4>1. S \in [DOMAIN ps -> Range(ps)]
        BY <2>1, SortRunFacts DEF S
      <4> QED BY <4>1, <2>1, <3>1 DEF Range
    <3>4. EndsOf(FromPaths(ps), ps, 0)
      BY <3>1, <3>2, <3>3 DEF EndsOf, S
    <3>5. Arranged(FromPaths(ps))
      BY <2>2, <3>4 DEF Arranged
    <3> QED BY <3>1, <3>2, <3>5, <2>4
  <2>5. CASE Mode # "single"
    <3>1. Ordered(Mode) = FromPaths(S)
      BY <1>4, <2>5 DEF Ordered, S
    <3>2. /\ AreSources(FromPaths(S)) /\ Len(FromPaths(S)) = Len(ps) /\ DOMAIN FromPaths(S) = 1..Len(ps)
          /\ \A k \in 1..Len(ps) : FromPaths(S)[k] = FromPath(S[k])
      BY <2>1, <2>3, FromPathsFacts
    <3>3. EndsOf(FromPaths(S), ps, 0)
      BY <2>1, <3>2 DEF EndsOf, S
    <3>4. Arranged(FromPaths(S))
      BY <2>2, <3>3 DEF Arranged
    <3>5. Mode = "compare" => Len(ps) = 2
      BY <1>4, ModeFacts
    <3> QED BY <3>1, <3>2, <3>4, <3>5, <2>1
  <2> QED BY <2>4, <2>5
<1> QED
  BY <1>2, <1>3, <1>4

\* Where the runs that were put in order begin to be loaded.
LEMMA LastFacts ==
  ASSUME NEW ps \in Seq(Paths), world \in Worlds, command \in Commands, IsAll(ps)
  PROVE  LET list == LastOf(SortRunPaths(ps)) IN
         /\ Len(list) \in Nat /\ AreSources(FromPaths(list)) /\ Len(FromPaths(list)) = Len(list)
         /\ Arranged(FromPaths(list))
<1> DEFINE S == SortRunPaths(ps)
           n == Len(ps)
           d == IF command.limit = 0 \/ n <= command.limit THEN 0 ELSE n - command.limit
           list == LastOf(S)
<1>1. n \in Nat /\ DOMAIN S = 1..n /\ Len(S) = n /\ \A k \in 1..n : S[k] \in Paths
  BY SortedPaths
<1>2. command.limit \in Nat
  BY CompareAssumption
<1>3. d \in 0..n
  BY <1>1, <1>2
<1> HIDE DEF S
<1>4. list = [k \in 1..n - d |-> S[d + k]]
  BY <1>1 DEF LastOf
<1> HIDE DEF d, n, list
<1>5. n - d \in Nat /\ DOMAIN list = 1..n - d /\ \A k \in 1..n - d : list[k] = S[d + k] /\ d + k \in 1..n
  BY <1>1, <1>3, <1>4
<1>6. \A k \in 1..n - d : list[k] \in Paths
  BY <1>1, <1>5
<1>7. Len(list) = n - d
  BY <1>4, <1>5
<1>8. /\ AreSources(FromPaths(list)) /\ Len(FromPaths(list)) = n - d /\ DOMAIN FromPaths(list) = 1..n - d
      /\ \A k \in 1..n - d : FromPaths(list)[k] = FromPath(list[k])
  BY <1>5, <1>6, FromPathsFacts
<1>9. EndsOf(FromPaths(list), ps, d)
  <2>1. n = d + (n - d)
    BY <1>3, <1>1
  <2> QED BY <1>5, <1>8, <2>1 DEF EndsOf, S, n
<1>10. Arranged(FromPaths(list))
  <2>1. d \in Nat
    BY <1>1, <1>3
  <2> QED BY <2>1, <1>9 DEF Arranged
<1> QED
  BY <1>5, <1>7, <1>8, <1>10 DEF list, S

LEMMA BeginFacts ==
  ASSUME StageInv, SourcesInv, LoadedInv, loaded = <<>>, shown = Silence, stage # "exited", stage # "idle",
         world' = world, command' = command, loaded' = loaded, shown' = shown,
         NEW mode \in Showing, NEW runs, Begin(mode, runs), AreSources(runs), Len(runs) \in Nat,
         mode = "compare" => Len(runs) = 2, end' = "compare",
         command.paths # <<>> => Arranged(runs)
  PROVE  StageInv' /\ SourcesInv' /\ LoadedInv'
<1>1. sources' = runs /\ ((stage' = "exited" /\ verdict' = 2) \/ (stage' = mode /\ verdict' = verdict))
  <2>1. sources' = runs
    BY Zenon DEF Begin
  <2>2. CASE Refused(mode)
    <3>1. End(2)
      BY <2>2, Zenon DEF Begin
    <3> QED BY <2>1, <3>1 DEF End
  <2>3. CASE ~ Refused(mode)
    BY <2>1, <2>3, Zenon DEF Begin
  <2> QED BY <2>1, <2>2, <2>3
<1>2. stage' \notin {"idle", "arguments", "scan"} /\ (stage' = "exited" <=> verdict' # 3) /\ verdict' \in {2, 3}
  BY <1>1 DEF StageInv, Showing
<1>3. StageInv'
  BY <1>1, <1>2 DEF StageInv, Showing
<1>4. AreSources(runs)'
  BY DEF AreSources, IsSource
<1>5. AreSources(sources)'
  BY <1>1, <1>4 DEF AreSources
<1>6. command.paths # <<>> => Arranged(runs)'
  BY FrozenSources
<1>7. SourcesInv'
  <2>1. stage' = "compare" => Len(sources') = 2
    BY <1>1, <1>2
  <2>2. command'.paths # <<>> => Arranged(sources)'
    BY <1>1, <1>6 DEF Arranged, EndsOf
  <2> QED BY <1>2, <1>5, <2>1, <2>2 DEF SourcesInv
<1>8. LoadedInv'
  <2>1. loaded' = <<>> /\ DOMAIN loaded' = {} /\ Len(loaded') = 0
    OBVIOUS
  <2>2. shown' = Silence
    OBVIOUS
  <2>3. Len(sources') >= 0
    BY <1>1
  <2>4. loaded' \in Seq(Range(loaded'))
    BY <2>1
  <2> QED BY <2>1, <2>2, <2>3, <2>4 DEF LoadedInv, Range
<1> QED
  BY <1>3, <1>7, <1>8

Reading == StageInv /\ SourcesInv /\ LoadedInv

LEMMA ReadArgumentsStep ==
  ASSUME Reading, ReadArguments, end' = "compare"
  PROVE  Reading'
<1>0. StageInv /\ SourcesInv /\ LoadedInv
  BY DEF Reading
<1>1. /\ stage = "arguments" /\ world' = world /\ command' = command /\ loaded' = loaded /\ shown' = shown
  BY DEF ReadArguments
<1>2. sources = <<>> /\ loaded = <<>> /\ shown = Silence /\ verdict = 3 /\ world \in Worlds /\ command \in Commands
  BY <1>0, <1>1 DEF StageInv, SourcesInv, LoadedInv
<1>3. ASSUME End(2), sources' = sources PROVE Reading'
  <2>1. stage' = "exited" /\ verdict' = 2
    BY <1>3 DEF End
  <2>2. StageInv'
    BY <1>1, <1>2, <2>1 DEF StageInv
  <2>3. AreSources(sources)'
    BY <1>0, <1>3 DEF SourcesInv, AreSources, IsSource
  <2>4. SourcesInv'
    BY <1>1, <1>2, <2>1, <2>3 DEF SourcesInv, Showing
  <2>5. LoadedInv'
    BY <1>0, <1>1, <1>2, <1>3, <2>1 DEF LoadedInv, Range
  <2> QED BY <2>2, <2>4, <2>5 DEF Reading
<1>4. ASSUME ValidArgs, Mode = "scan", stage' = "scan", entries' = world.folder, sources' = sources, verdict' = verdict
      PROVE  Reading'
  <2>1. StageInv'
    BY <1>0, <1>1, <1>2, <1>4 DEF StageInv
  <2>2. AreSources(sources)'
    BY <1>0, <1>4 DEF SourcesInv, AreSources, IsSource
  <2>3. InSearch'
    <3>1. command.paths # <<>>
      BY <1>2, <1>4, ModeFacts DEF Showing
    <3>2. InSearch
      BY <3>1, <1>4 DEF InSearch
    <3> QED BY <3>2, <1>1, Frozen
  <2>4. entries' \in Seq(Paths)
    BY <1>2, <1>4, CompareAssumption DEF IsPaths
  <2>5. DOMAIN sources' = {}
    BY <1>2, <1>4
  <2>6. Found' = {sources'[k].path : k \in DOMAIN sources'} \cup {p \in Range(entries') : IsArchive(p)'}
    <3>1. Found = {p \in Range(world.folder) : IsArchive(p)}
      BY DEF Found
    <3>2. \A p : IsArchive(p)' = IsArchive(p)
      BY <1>1, Frozen
    <3>3. Found' = Found
      BY <1>1, Frozen
    <3> QED BY <3>1, <3>2, <3>3, <2>5, <1>4
  <2>7. SourcesInv'
    BY <1>1, <1>2, <1>4, <2>2, <2>3, <2>4, <2>5, <2>6 DEF SourcesInv, Showing
  <2>8. LoadedInv'
    BY <1>0, <1>1, <1>2, <1>4 DEF LoadedInv, Range
  <2> QED BY <2>1, <2>7, <2>8 DEF Reading
<1>5. ASSUME ValidArgs, Mode # "scan", Begin(Mode, Ordered(Mode)) PROVE Reading'
  <2> DEFINE mode == Mode
             runs == Ordered(Mode)
  <2>1. mode \in Showing
    BY <1>2, <1>5, ModeFacts
  <2>2. AreSources(runs) /\ Len(runs) \in Nat /\ (mode = "compare" => Len(runs) = 2)
        /\ (command.paths # <<>> => Arranged(runs))
    BY <1>2, <1>5, OrderedFacts
  <2>3. Begin(mode, runs)
    BY <1>5
  <2> HIDE DEF mode, runs
  <2>4. StageInv' /\ SourcesInv' /\ LoadedInv'
    BY <1>0, <1>1, <1>2, <2>1, <2>2, <2>3, BeginFacts
  <2> QED BY <2>4 DEF Reading
<1>6. \/ End(2) /\ sources' = sources
      \/ /\ ValidArgs /\ Mode = "scan" /\ stage' = "scan" /\ entries' = world.folder
         /\ sources' = sources /\ verdict' = verdict
      \/ ValidArgs /\ Mode # "scan" /\ Begin(Mode, Ordered(Mode))
  BY DEF ReadArguments
<1> QED
  BY <1>3, <1>4, <1>5, <1>6

LEMMA ScanEntryStep ==
  ASSUME Reading, ScanEntry, end' = "compare"
  PROVE  Reading'
<1>0. StageInv /\ SourcesInv /\ LoadedInv
  BY DEF Reading
<1>1. /\ stage = "scan" /\ entries # <<>>
      /\ world' = world /\ command' = command /\ loaded' = loaded /\ shown' = shown
  BY DEF ScanEntry
<1>2. /\ loaded = <<>> /\ shown = Silence /\ verdict = 3 /\ world \in Worlds /\ command \in Commands
      /\ InSearch /\ entries \in Seq(Paths)
      /\ \A k \in DOMAIN sources : sources[k] = FromPath(sources[k].path) /\ sources[k].path \in Paths
      /\ Found = {sources[k].path : k \in DOMAIN sources} \cup {p \in Range(entries) : IsArchive(p)}
      /\ sources \in Seq(Range(sources)) /\ \A k \in DOMAIN sources : IsSource(sources[k])
  BY <1>0, <1>1 DEF StageInv, SourcesInv, LoadedInv, AreSources
<1> DEFINE p == Head(entries)
<1>3. ASSUME End(2), sources' = sources PROVE Reading'
  <2>1. stage' = "exited" /\ verdict' = 2
    BY <1>3 DEF End
  <2>2. StageInv'
    BY <1>1, <1>2, <2>1 DEF StageInv
  <2>3. AreSources(sources)'
    BY <1>0, <1>3 DEF SourcesInv, AreSources, IsSource
  <2>4. SourcesInv'
    BY <1>1, <1>2, <2>1, <2>3 DEF SourcesInv, Showing
  <2>5. LoadedInv'
    BY <1>0, <1>1, <1>2, <1>3, <2>1 DEF LoadedInv, Range
  <2> QED BY <2>2, <2>4, <2>5 DEF Reading
<1>4. ASSUME entries' = Tail(entries), stage' = stage, verdict' = verdict,
             sources' = IF IsArchive(p) THEN Append(sources, FromPath(p)) ELSE sources
      PROVE  Reading'
  <2>1. StageInv'
    BY <1>0, <1>1, <1>2, <1>4 DEF StageInv
  <2>2. /\ entries' \in Seq(Paths) /\ p \in Paths
        /\ \A x : x \in Range(entries) <=> x = p \/ x \in Range(entries')
    <3>1. /\ Len(entries) \in Nat \ {0} /\ DOMAIN entries = 1..Len(entries) /\ entries' \in Seq(Paths) /\ p = entries[1]
          /\ DOMAIN entries' = 1..(Len(entries) - 1) /\ \A k \in 1..(Len(entries) - 1) : entries'[k] = entries[k + 1]
      BY <1>1, <1>2, <1>4
    <3>2. \A k \in 1..Len(entries) : k = 1 \/ k - 1 \in 1..(Len(entries) - 1)
      BY <3>1
    <3>3. p \in Paths
      BY <1>2, <3>1
    <3>4. ASSUME NEW x \in Range(entries) PROVE x = p \/ x \in Range(entries')
      <4>1. PICK k \in 1..Len(entries) : x = entries[k]
        BY <3>1 DEF Range
      <4>2. CASE k = 1
        BY <4>1, <4>2, <3>1
      <4>3. CASE k # 1
        <5>1. k - 1 \in 1..(Len(entries) - 1) /\ (k - 1) + 1 = k
          BY <4>3, <3>1
        <5>2. entries'[k - 1] = entries[k]
          BY <5>1, <3>1
        <5>3. entries'[k - 1] \in Range(entries')
          BY <5>1, <3>1 DEF Range
        <5> QED BY <5>2, <5>3, <4>1
      <4> QED BY <4>2, <4>3
    <3>5. ASSUME NEW x \in Range(entries') PROVE x \in Range(entries)
      <4>1. PICK k \in 1..(Len(entries) - 1) : x = entries'[k]
        BY <3>1 DEF Range
      <4> QED BY <4>1, <3>1 DEF Range
    <3>6. p \in Range(entries)
      BY <3>1 DEF Range
    <3> QED BY <3>1, <3>3, <3>4, <3>5, <3>6
  <2> HIDE DEF p
  <2>3. /\ sources' \in Seq(Range(sources'))
        /\ \A k \in DOMAIN sources' : sources'[k] = FromPath(sources'[k].path) /\ sources'[k].path \in Paths
        /\ {sources'[k].path : k \in DOMAIN sources'} =
             {sources[k].path : k \in DOMAIN sources} \cup (IF IsArchive(p) THEN {p} ELSE {})
    <3>1. CASE ~ IsArchive(p)
      BY <3>1, <1>2, <1>4
    <3>2. CASE IsArchive(p)
      <4> DEFINE n == Len(sources)
      <4>1. n \in Nat /\ DOMAIN sources = 1..n
        BY <1>2
      <4>2. sources' = Append(sources, FromPath(p)) /\ FromPath(p).path = p
        BY <3>2, <1>4 DEF FromPath
      <4>3. /\ DOMAIN sources' = 1..(n + 1) /\ sources'[n + 1] = FromPath(p)
            /\ \A k \in 1..n : sources'[k] = sources[k]
            /\ sources' = [k \in 1..(n + 1) |-> sources'[k]]
        <5> DEFINE T == Range(sources) \cup {FromPath(p)}
        <5>1. sources \in Seq(T)
          BY <1>2, <4>1 DEF Range
        <5>2. FromPath(p) \in T
          OBVIOUS
        <5> HIDE DEF T
        <5>3. sources' \in Seq(T) /\ Len(sources') = n + 1
          BY <4>2, <5>1, <5>2
        <5>4. DOMAIN sources' = 1..(n + 1) /\ sources' = [k \in 1..(n + 1) |-> sources'[k]]
          BY <5>3
        <5>5. sources'[n + 1] = FromPath(p) /\ \A k \in 1..n : sources'[k] = sources[k]
          BY <4>2, <5>1, <5>2
        <5> QED BY <5>4, <5>5
      <4> HIDE DEF n
      <4>4. sources' \in Seq(Range(sources'))
        <5>1. \A k \in 1..(n + 1) : sources'[k] \in Range(sources')
          BY <4>3 DEF Range
        <5> QED BY <4>1, <4>3, <5>1
      <4>5. \A k \in 1..(n + 1) : k = n + 1 \/ k \in 1..n
        BY <4>1
      <4>6. \A k \in DOMAIN sources' : sources'[k] = FromPath(sources'[k].path) /\ sources'[k].path \in Paths
        BY <4>1, <4>2, <4>3, <4>5, <1>2, <2>2
      <4>7. {sources'[k].path : k \in DOMAIN sources'} = {sources[k].path : k \in DOMAIN sources} \cup {p}
        <5>1. \A k \in 1..n : k \in 1..(n + 1)
          BY <4>1
        <5>2. n + 1 \in 1..(n + 1)
          BY <4>1
        <5> QED BY <4>1, <4>2, <4>3, <4>5, <5>1, <5>2
      <4> QED BY <3>2, <4>4, <4>6, <4>7
    <3> QED BY <3>1, <3>2
  <2>4. AreSources(sources)'
    <3>1. \A k \in DOMAIN sources' : IsSource(sources'[k])
      BY <2>3 DEF IsSource
    <3> QED BY <2>3, <3>1 DEF AreSources
  <2>5. Found' = {sources'[k].path : k \in DOMAIN sources'} \cup {x \in Range(entries') : IsArchive(x)'}
    <3>1. \A x : IsArchive(x)' = IsArchive(x)
      BY <1>1, Frozen
    <3>2. Found' = Found
      BY <1>1, Frozen
    <3>3. {x \in Range(entries) : IsArchive(x)} =
            {x \in Range(entries') : IsArchive(x)'} \cup (IF IsArchive(p) THEN {p} ELSE {})
      BY <2>2, <3>1
    <3> QED BY <3>2, <3>3, <2>3, <1>2
  <2>6. SourcesInv'
    <3>1. InSearch'
      BY <1>1, <1>2, Frozen
    <3> QED BY <1>1, <1>2, <1>4, <2>2, <2>3, <2>4, <2>5, <3>1 DEF SourcesInv, Showing
  <2>7. LoadedInv'
    <3>1. Len(sources') \in Nat
      BY <2>3
    <3> QED BY <3>1, <1>0, <1>1, <1>2, <1>4 DEF LoadedInv, Range
  <2> QED BY <2>1, <2>6, <2>7 DEF Reading
<1>5. \/ End(2) /\ sources' = sources
      \/ /\ entries' = Tail(entries) /\ stage' = stage /\ verdict' = verdict
         /\ sources' = IF IsArchive(p) THEN Append(sources, FromPath(p)) ELSE sources
  BY DEF ScanEntry
<1> QED
  BY <1>3, <1>4, <1>5

LEMMA EndScanStep ==
  ASSUME Reading, EndScan, end' = "compare"
  PROVE  Reading'
<1>0. StageInv /\ SourcesInv /\ LoadedInv
  BY DEF Reading
<1> DEFINE ps == [k \in DOMAIN sources |-> sources[k].path]
           archives == LastOf(SortRunPaths(ps))
           n == Len(archives)
           mode == IF n = 1 THEN "single" ELSE IF n = 2 THEN "compare" ELSE "timeline"
<1>1. /\ stage = "scan" /\ entries = <<>>
      /\ world' = world /\ command' = command /\ entries' = entries /\ loaded' = loaded /\ shown' = shown
  BY DEF EndScan
<1>2. /\ loaded = <<>> /\ shown = Silence /\ verdict = 3 /\ world \in Worlds /\ command \in Commands
      /\ InSearch
      /\ \A k \in DOMAIN sources : sources[k] = FromPath(sources[k].path) /\ sources[k].path \in Paths
      /\ Found = {sources[k].path : k \in DOMAIN sources} \cup {p \in Range(entries) : IsArchive(p)}
      /\ sources \in Seq(Range(sources)) /\ \A k \in DOMAIN sources : IsSource(sources[k])
  BY <1>0, <1>1 DEF StageInv, SourcesInv, LoadedInv, AreSources
<1>3. ps \in Seq(Paths) /\ IsAll(ps)
  <2>1. DOMAIN sources = 1..Len(sources) /\ Len(sources) \in Nat
    BY <1>2
  <2>2. ps \in [1..Len(sources) -> Paths]
    BY <2>1, <1>2
  <2>3. ps \in Seq(Paths)
    BY <2>1, <2>2
  <2>4. Range(ps) = {sources[k].path : k \in DOMAIN sources}
    BY DEF Range
  <2>5. Found = {sources[k].path : k \in DOMAIN sources}
    BY <1>1, <1>2 DEF Range
  <2> HIDE DEF ps
  <2> QED BY <2>3, <2>4, <2>5, <1>2 DEF IsAll
<1>4. IF n = 0 THEN End(2) /\ sources' = sources ELSE Begin(mode, FromPaths(archives))
  BY Zenon DEF EndScan
<1> HIDE DEF ps
<1>5. /\ n \in Nat /\ AreSources(FromPaths(archives)) /\ Len(FromPaths(archives)) = n
      /\ Arranged(FromPaths(archives))
  BY <1>2, <1>3, LastFacts
<1> HIDE DEF archives
<1>6. CASE n = 0
  <2>1. stage' = "exited" /\ verdict' = 2 /\ sources' = sources
    BY <1>4, <1>6 DEF End
  <2>2. StageInv'
    BY <1>1, <1>2, <2>1 DEF StageInv
  <2>3. AreSources(sources)'
    BY <1>0, <2>1 DEF SourcesInv, AreSources, IsSource
  <2>4. SourcesInv'
    BY <1>1, <1>2, <2>1, <2>3 DEF SourcesInv, Showing
  <2>5. LoadedInv'
    BY <1>0, <1>1, <1>2, <2>1 DEF LoadedInv, Range
  <2> QED BY <2>2, <2>4, <2>5 DEF Reading
<1>7. CASE n # 0
  <2>1. mode \in Showing /\ (mode = "compare" => Len(FromPaths(archives)) = 2)
    BY <1>5 DEF Showing
  <2>2. Begin(mode, FromPaths(archives))
    BY <1>4, <1>7
  <2> DEFINE runs == FromPaths(archives)
  <2>3. Len(runs) \in Nat /\ AreSources(runs) /\ Arranged(runs)
    BY <1>5
  <2>4. Begin(mode, runs) /\ (mode = "compare" => Len(runs) = 2)
    BY <2>1, <2>2
  <2> HIDE DEF mode, runs
  <2>5. StageInv' /\ SourcesInv' /\ LoadedInv'
    BY <1>0, <1>1, <1>2, <2>1, <2>3, <2>4, BeginFacts
  <2> QED BY <2>5 DEF Reading
<1> QED
  BY <1>6, <1>7

LEMMA LoadSourceStep ==
  ASSUME Reading, LoadSource, end' = "compare"
  PROVE  Reading' /\ shown' = Silence
<1>0. StageInv /\ SourcesInv /\ LoadedInv
  BY DEF Reading
<1> DEFINE n == Len(loaded)
           run == Load(sources[n + 1])
<1>1. /\ stage \in Showing /\ n < Len(sources)
      /\ world' = world /\ command' = command /\ entries' = entries /\ sources' = sources /\ shown' = shown
  BY DEF LoadSource, Loading, Showing
<1>2. verdict = 3 /\ shown = Silence /\ world \in Worlds /\ command \in Commands
      /\ stage \notin {"idle", "arguments", "scan", "exited"}
  BY <1>0, <1>1 DEF StageInv, Showing
<1>3. /\ loaded \in Seq(Range(loaded)) /\ n \in Nat /\ DOMAIN loaded = 1..n
      /\ sources \in Seq(Range(sources)) /\ Len(sources) \in Nat
      /\ \A k \in 1..n : Load(sources[k]) # <<>> /\ loaded[k] = Load(sources[k])[1]
  BY <1>0 DEF LoadedInv, SourcesInv, AreSources
<1>4. (End(2) /\ loaded' = loaded) \/
        (run # <<>> /\ loaded' = Append(loaded, run[1]) /\ stage' = stage /\ verdict' = verdict)
  BY Zenon DEF LoadSource
<1>5. AreSources(sources)' /\ (Arranged(sources) => Arranged(sources)')
  <2>1. AreSources(sources)'
    BY <1>0, <1>1 DEF SourcesInv, AreSources, IsSource
  <2>2. Arranged(sources)' = Arranged(sources)
    <3>1. ASSUME NEW ps, NEW d PROVE EndsOf(sources, ps, d)' = EndsOf(sources, ps, d)
      BY <1>1, Frozen DEF EndsOf
    <3>2. ASSUME NEW ps PROVE IsAll(ps)' = IsAll(ps)
      BY <1>1, Frozen DEF IsAll
    <3> QED BY <3>1, <3>2 DEF Arranged
  <2> QED BY <2>1, <2>2
<1>6. \A s : Load(s)' = Load(s)
  BY <1>1, Frozen
<1>7. CASE End(2) /\ loaded' = loaded
  <2>1. stage' = "exited" /\ verdict' = 2
    BY <1>7 DEF End
  <2>2. StageInv'
    BY <1>1, <1>2, <2>1 DEF StageInv
  <2>3. SourcesInv'
    BY <1>1, <1>2, <1>5, <2>1 DEF SourcesInv, Showing
  <2>4. LoadedInv'
    BY <1>0, <1>1, <1>2, <1>6, <1>7, <2>1 DEF LoadedInv, Range
  <2> QED BY <1>1, <1>2, <2>2, <2>3, <2>4 DEF Reading
<1>8. CASE run # <<>> /\ loaded' = Append(loaded, run[1]) /\ stage' = stage /\ verdict' = verdict
  <2>1. StageInv'
    BY <1>0, <1>1, <1>2, <1>8 DEF StageInv
  <2>2. SourcesInv'
    <3>1. (stage = "compare" => Len(sources) = 2) /\ (command.paths # <<>> => Arranged(sources))
      BY <1>0, <1>1 DEF SourcesInv
    <3> QED BY <1>1, <1>2, <1>5, <1>8, <3>1 DEF SourcesInv, Showing
  <2>3. /\ loaded' \in Seq(Range(loaded')) /\ Len(loaded') = n + 1 /\ DOMAIN loaded' = 1..(n + 1)
        /\ loaded'[n + 1] = run[1] /\ \A k \in 1..n : loaded'[k] = loaded[k]
    <3> DEFINE T == Range(loaded) \cup {run[1]}
    <3>1. loaded \in Seq(T)
      BY <1>3 DEF Range
    <3>2. run[1] \in T
      OBVIOUS
    <3> HIDE DEF T, run
    <3>3. loaded' \in Seq(T) /\ Len(loaded') = n + 1
      BY <1>8, <3>1, <3>2
    <3>4. DOMAIN loaded' = 1..(n + 1) /\ loaded' = [k \in 1..(n + 1) |-> loaded'[k]]
      BY <3>3
    <3>5. loaded'[n + 1] = run[1] /\ \A k \in 1..n : loaded'[k] = loaded[k]
      BY <1>8, <3>1, <3>2
    <3>6. \A k \in 1..(n + 1) : loaded'[k] \in Range(loaded')
      BY <3>4 DEF Range
    <3>7. loaded' \in Seq(Range(loaded'))
      BY <1>3, <3>4, <3>6
    <3> QED BY <3>3, <3>4, <3>5, <3>7
  <2>4. \A k \in 1..(n + 1) : k = n + 1 \/ k \in 1..n
    BY <1>3
  <2>5. \A k \in DOMAIN loaded' : Load(sources[k]) # <<>> /\ loaded'[k] = Load(sources[k])[1]
    BY <1>3, <1>8, <2>3, <2>4
  <2>6. (\A k \in DOMAIN loaded : Load(sources[k]) # <<>> /\ loaded[k] = Load(sources[k])[1])'
    BY <1>1, <1>6, <2>5
  <2>7. Len(loaded') <= Len(sources')
    BY <1>1, <1>3, <2>3
  <2>8. stage' \notin {"idle", "arguments", "scan"} /\ shown' = Silence
    BY <1>1, <1>2, <1>8
  <2>9. LoadedInv'
    BY <2>3, <2>6, <2>7, <2>8 DEF LoadedInv
  <2> QED BY <2>1, <2>2, <2>8, <2>9 DEF Reading
<1> QED
  BY <1>4, <1>7, <1>8

\* What a step that only shows something leaves as it was.
Shows(mode) ==
  /\ stage = mode /\ mode \in Showing /\ ~ Loading /\ end' = "compare"
  /\ stage' = "exited" /\ verdict' \in {0, 1} /\ shown' # Silence
  /\ world' = world /\ command' = command /\ entries' = entries /\ sources' = sources /\ loaded' = loaded

LEMMA ShowsFacts ==
  ASSUME Reading, NEW mode, Shows(mode)
  PROVE  /\ Reading' /\ Len(loaded) = Len(sources) /\ (mode = "compare" => Len(sources) = 2)
<1>0. StageInv /\ SourcesInv /\ LoadedInv
  BY DEF Reading
<1>1. /\ stage \in Showing /\ stage' = "exited" /\ verdict' \in {0, 1} /\ shown' # Silence /\ end' = "compare"
      /\ world' = world /\ command' = command /\ entries' = entries /\ sources' = sources /\ loaded' = loaded
  BY DEF Shows
<1>2. stage # "idle" /\ world \in Worlds /\ command \in Commands
  BY <1>0, <1>1 DEF StageInv, Showing
<1>3. Len(loaded) = Len(sources)
  <2>1. Len(loaded) <= Len(sources) /\ Len(loaded) \in Nat /\ Len(sources) \in Nat
    BY <1>0 DEF LoadedInv, SourcesInv, AreSources
  <2>2. ~ (Len(loaded) < Len(sources))
    BY <1>1 DEF Shows, Loading, Showing
  <2> QED BY <2>1, <2>2
<1>4. StageInv'
  BY <1>1, <1>2 DEF StageInv
<1>5. SourcesInv'
  <2>1. AreSources(sources)'
    BY <1>0, <1>1 DEF SourcesInv, AreSources, IsSource
  <2>2. Arranged(sources)' = Arranged(sources)
    <3>1. ASSUME NEW ps, NEW d PROVE EndsOf(sources, ps, d)' = EndsOf(sources, ps, d)
      BY <1>1, Frozen DEF EndsOf
    <3>2. ASSUME NEW ps PROVE IsAll(ps)' = IsAll(ps)
      BY <1>1, Frozen DEF IsAll
    <3> QED BY <3>1, <3>2 DEF Arranged
  <2>3. command.paths # <<>> => Arranged(sources)
    BY <1>0, <1>1 DEF SourcesInv
  <2> QED BY <1>1, <2>1, <2>2, <2>3 DEF SourcesInv
<1>6. LoadedInv'
  <2>1. \A s : Load(s)' = Load(s)
    BY <1>1, Frozen
  <2> QED BY <1>0, <1>1, <1>3, <2>1 DEF LoadedInv, Range
<1>7. mode = "compare" => Len(sources) = 2
  BY <1>0 DEF SourcesInv, Shows
<1> QED
  BY <1>3, <1>4, <1>5, <1>6, <1>7 DEF Reading

LEMMA ShowComparisonStep ==
  ASSUME Reading, ShowComparison, end' = "compare"
  PROVE  Reading' /\ (shown' = Silence \/ ShownInv')
<1> DEFINE c == Comparison(loaded[1].results, loaded[2].results)
           file(f) == Correlated(c, command.predictions[f])
<1>0. StageInv /\ SourcesInv /\ LoadedInv
  BY DEF Reading
<1>1. /\ stage = "compare" /\ ~ Loading
      /\ world' = world /\ command' = command /\ entries' = entries /\ sources' = sources /\ loaded' = loaded
  BY DEF ShowComparison, Loaded
<1>2. stage \in Showing /\ stage # "idle" /\ world \in Worlds /\ command \in Commands /\ verdict = 3 /\ shown = Silence
  BY <1>0, <1>1 DEF StageInv, Showing
<1>3. CASE command.selector = "unreadable"
  <2>1. End(2) /\ shown' = shown
    BY <1>3, Zenon DEF ShowComparison
  <2>2. stage' = "exited" /\ verdict' = 2 /\ shown' = Silence
    BY <2>1, <1>2 DEF End
  <2>3. StageInv'
    BY <1>1, <1>2, <2>2 DEF StageInv
  <2>4. AreSources(sources)'
    BY <1>0, <1>1 DEF SourcesInv, AreSources, IsSource
  <2>5. SourcesInv'
    BY <1>1, <2>2, <2>4 DEF SourcesInv, Showing
  <2>6. LoadedInv'
    <3>1. \A s : Load(s)' = Load(s)
      BY <1>1, Frozen
    <3> QED BY <1>0, <1>1, <2>2, <3>1 DEF LoadedInv, Range
  <2> QED BY <2>2, <2>3, <2>5, <2>6 DEF Reading
<1>4. CASE command.selector # "unreadable"
  <2>1. /\ shown' = [comparison |-> c, kind |-> c.kind,
                     files |-> [f \in DOMAIN command.predictions |-> file(f)],
                     persistentToo |-> c.regressions = {} /\ c.persistent # {}]
        /\ End(IF c.regressions # {} THEN 1 ELSE 0)
    BY <1>4, Zenon DEF ShowComparison
  <2>2. c.kind = "comparison"
    <3>1. \A base, target : Comparison(base, target).kind = "comparison"
      BY ComparisonParts
    <3> QED BY <3>1
  <2> HIDE DEF c
  <2>3. /\ shown'.kind = "comparison" /\ shown'.comparison = c
        /\ shown'.files = [f \in DOMAIN command.predictions |-> file(f)]
    BY <2>1, <2>2
  <2>4. shown' # Silence
    BY <2>3 DEF Silence
  <2>5. stage' = "exited" /\ verdict' = IF c.regressions # {} THEN 1 ELSE 0
    BY <2>1 DEF End
  <2>6. Shows("compare")
    BY <1>1, <1>2, <2>4, <2>5 DEF Shows
  <2>7. Reading' /\ Len(sources) = 2
    BY <2>6, ShowsFacts
  <2>8. \A f \in DOMAIN shown'.files : shown'.files[f] = Correlated(c, command.predictions[f])
    BY <2>3
  <2>9. c' = c
    BY <1>1 DEF c
  <2>10. ShownInv'
    <3>1. shown'.comparison = Comparison(loaded'[1].results, loaded'[2].results)
      BY <1>1, <2>3 DEF c
    <3>2. \A f \in DOMAIN shown'.files : \E prediction : shown'.files[f] = Correlated(shown'.comparison, prediction)
      BY <2>3, <2>8
    <3>3. verdict' = IF shown'.comparison.regressions # {} THEN 1 ELSE 0
      BY <2>3, <2>5
    <3> QED BY <1>1, <2>3, <2>7, <3>1, <3>2, <3>3 DEF ShownInv
  <2> QED BY <2>7, <2>10
<1> QED
  BY <1>3, <1>4

LEMMA ShowTimelineStep ==
  ASSUME Reading, ShowTimeline, end' = "compare"
  PROVE  Reading' /\ ShownInv'
<1>1. /\ stage = "timeline" /\ ~ Loading /\ shown' = Timeline(loaded) /\ stage' = "exited" /\ verdict' = 0
      /\ world' = world /\ command' = command /\ entries' = entries /\ sources' = sources /\ loaded' = loaded
  BY DEF ShowTimeline, Loaded, End
<1>2. Timeline(loaded).kind = "timeline"
  BY DEF Timeline
<1>3. shown' # Silence /\ shown'.kind = "timeline"
  BY <1>1, <1>2 DEF Silence
<1>4. Shows("timeline")
  BY <1>1, <1>3 DEF Shows, Showing
<1>5. Reading'
  BY <1>4, ShowsFacts
<1>6. shown' = Timeline(loaded')
  BY <1>1
<1>7. ShownInv'
  BY <1>1, <1>3, <1>6 DEF ShownInv
<1> QED
  BY <1>5, <1>7

LEMMA ShowSingleStep ==
  ASSUME Reading, ShowSingle, end' = "compare"
  PROVE  Reading' /\ ShownInv'
<1>1. /\ stage = "single" /\ ~ Loading /\ shown' = [kind |-> "single", path |-> loaded[1].path]
      /\ stage' = "exited" /\ verdict' = 0
      /\ world' = world /\ command' = command /\ entries' = entries /\ sources' = sources /\ loaded' = loaded
  BY DEF ShowSingle, Loaded, End
<1>2. shown'.kind = "single"
  BY <1>1
<1>3. shown' # Silence
  BY <1>2 DEF Silence
<1>4. Shows("single")
  BY <1>1, <1>3 DEF Shows, Showing
<1>5. Reading'
  BY <1>4, ShowsFacts
<1>6. ShownInv'
  BY <1>1, <1>2 DEF ShownInv
<1> QED
  BY <1>5, <1>6

LEMMA CompareBegins == ComparingInit => CompareInv
<1> SUFFICES ASSUME ComparingInit PROVE CompareInv
  OBVIOUS
<1>1. sources = <<>> /\ loaded = <<>> /\ shown = Silence /\ verdict = 3 /\ entries = <<>>
  BY DEF ComparingInit, NoComparison, CompareInit
<1>2. \/ end = "save" /\ stage = "idle"
      \/ end = "compare" /\ stage = "arguments" /\ world \in Worlds /\ command \in Commands
  BY DEF ComparingInit, NoComparison, CompareInit
<1>3. StageInv
  BY <1>1, <1>2 DEF StageInv
<1>4. SourcesInv
  <2>1. AreSources(sources)
    BY <1>1 DEF AreSources, Range
  <2> QED BY <1>1, <1>2, <2>1 DEF SourcesInv, Showing
<1>5. LoadedInv
  BY <1>1 DEF LoadedInv, Range
<1>6. ShownInv
  BY <1>1 DEF ShownInv
<1> QED
  BY <1>3, <1>4, <1>5, <1>6 DEF CompareInv

\* While nothing of the comparison changes, what is known of it stays.
LEMMA CompareStays == CompareInv /\ compareVars' = compareVars /\ end' = end => CompareInv'
<1> SUFFICES ASSUME CompareInv, compareVars' = compareVars, end' = end PROVE CompareInv'
  OBVIOUS
<1>0. StageInv /\ SourcesInv /\ LoadedInv /\ ShownInv
  BY DEF CompareInv
<1>1. /\ world' = world /\ command' = command /\ stage' = stage /\ entries' = entries
      /\ sources' = sources /\ loaded' = loaded /\ shown' = shown /\ verdict' = verdict
  BY DEF compareVars
<1>2. StageInv'
  BY <1>0, <1>1 DEF StageInv
<1>3. SourcesInv'
  <2>1. AreSources(sources)' = AreSources(sources)
    BY <1>1 DEF AreSources, IsSource
  <2>2. Arranged(sources)' = Arranged(sources)
    <3>1. ASSUME NEW ps, NEW d PROVE EndsOf(sources, ps, d)' = EndsOf(sources, ps, d)
      BY <1>1, Frozen DEF EndsOf
    <3>2. ASSUME NEW ps PROVE IsAll(ps)' = IsAll(ps)
      BY <1>1, Frozen DEF IsAll
    <3> QED BY <3>1, <3>2 DEF Arranged
  <2>3. InSearch' = InSearch /\ Found' = Found /\ \A p : IsArchive(p)' = IsArchive(p)
    BY <1>1, Frozen
  <2>4. stage = "scan" => Found' = {sources[k].path : k \in DOMAIN sources} \cup {p \in Range(entries) : IsArchive(p)'}
    BY <1>0, <2>3 DEF SourcesInv
  <2> QED BY <1>0, <1>1, <2>1, <2>2, <2>3, <2>4 DEF SourcesInv
<1>4. LoadedInv'
  <2>1. \A s : Load(s)' = Load(s)
    BY <1>1, Frozen
  <2> QED BY <1>0, <1>1, <2>1 DEF LoadedInv
<1>5. ShownInv'
  BY <1>0, <1>1 DEF ShownInv
<1> QED
  BY <1>2, <1>3, <1>4, <1>5 DEF CompareInv

LEMMA CompareStep == CompareInv /\ [ComparingNext]_comparingVars => CompareInv'
<1> SUFFICES ASSUME CompareInv, [ComparingNext]_comparingVars PROVE CompareInv'
  OBVIOUS
<1>1. Reading /\ StageInv
  BY DEF CompareInv, Reading
<1>2. CASE UNCHANGED comparingVars
  BY <1>2, CompareStays DEF comparingVars
<1>3. CASE Saving
  BY <1>3, CompareStays DEF Saving
<1>4. CASE Comparing
  <2>1. CompareNext /\ end' = "compare"
    BY <1>4 DEF Comparing
  <2>2. ASSUME Reading', shown' = Silence PROVE CompareInv'
    BY <2>2 DEF Reading, ShownInv, CompareInv
  <2>3. ASSUME Reading', ShownInv' PROVE CompareInv'
    BY <2>3 DEF Reading, CompareInv
  <2>4. stage # "exited" => shown = Silence
    BY <1>1 DEF StageInv
  <2>5. CASE ReadArguments
    BY <1>1, <2>1, <2>2, <2>4, <2>5, ReadArgumentsStep DEF ReadArguments
  <2>6. CASE ScanEntry
    BY <1>1, <2>1, <2>2, <2>4, <2>6, ScanEntryStep DEF ScanEntry
  <2>7. CASE EndScan
    BY <1>1, <2>1, <2>2, <2>4, <2>7, EndScanStep DEF EndScan
  <2>8. CASE LoadSource
    BY <1>1, <2>1, <2>2, <2>8, LoadSourceStep
  <2>9. CASE ShowComparison
    BY <1>1, <2>1, <2>2, <2>3, <2>9, ShowComparisonStep
  <2>10. CASE ShowTimeline
    BY <1>1, <2>1, <2>3, <2>10, ShowTimelineStep
  <2>11. CASE ShowSingle
    BY <1>1, <2>1, <2>3, <2>11, ShowSingleStep
  <2> QED BY <2>1, <2>5, <2>6, <2>7, <2>8, <2>9, <2>10, <2>11 DEF CompareNext
<1> QED
  BY <1>2, <1>3, <1>4 DEF ComparingNext

\* What a comparison shows was computed from what lies at the paths that it has put in
\* order, read when nobody writes (xts_compare/cli.py).
THEOREM CompareInvariance == ComparingSpec => []CompareInv
<1>1. ComparingInit => CompareInv
  BY CompareBegins
<1>2. CompareInv /\ [ComparingNext]_comparingVars => CompareInv'
  BY CompareStep
<1> QED
  BY <1>1, <1>2, PTL DEF ComparingSpec

LEMMA Regresses ==
  ASSUME NEW base, NEW target, IsResults(base), IsResults(target)
  PROVE  Comparison(base, target).regressions # {} <=>
           \E t \in Tests : OutcomeIn(base, t) = "PASS" /\ OutcomeIn(target, t) \in Failing
<1>1. Comparison(base, target).regressions = OfKind(base, target, "REGRESSION")
  BY ComparisonParts
<1>2. \A t : t \in OfKind(base, target, "REGRESSION") <=>
               OutcomeIn(base, t) = "PASS" /\ OutcomeIn(target, t) \in Failing
  BY OfKindFacts
<1>3. \A t : OutcomeIn(base, t) = "PASS" => t \in Tests
  BY OutcomeFacts DEF IsResults
<1> QED
  BY <1>1, <1>2, <1>3

LEMMA Verdict == CompareInv => VerdictIsSound
<1> SUFFICES ASSUME CompareInv PROVE VerdictIsSound
  OBVIOUS
<1>0. StageInv /\ SourcesInv /\ LoadedInv /\ ShownInv
  BY DEF CompareInv
<1>1. CASE shown = Silence
  <2>1. verdict \in {2, 3} /\ shown.kind = "nothing"
    BY <1>0, <1>1 DEF StageInv, Silence
  <2> QED BY <1>1, <2>1 DEF VerdictIsSound, ExitTellsRegressions
<1>2. CASE shown # Silence
  <2> DEFINE base == loaded[1].results
             target == loaded[2].results
  <2>1. verdict \in {0, 1} /\ stage # "idle" /\ world \in Worlds
    BY <1>0, <1>2 DEF StageInv
  <2>2. /\ Len(loaded) = Len(sources) /\ DOMAIN loaded = 1..Len(loaded) /\ Len(loaded) \in Nat
        /\ DOMAIN sources = 1..Len(sources)
    BY <1>0, <1>2 DEF LoadedInv, SourcesInv, AreSources
  <2>3. ASSUME NEW k \in DOMAIN loaded PROVE IsResults(loaded[k].results)
    <3>1. IsSource(sources[k]) /\ Load(sources[k]) # <<>> /\ loaded[k] = Load(sources[k])[1]
      BY <1>0, <2>2 DEF LoadedInv, SourcesInv, AreSources
    <3> QED BY <2>1, <3>1, LoadFacts
  <2>4. CASE shown.kind = "comparison"
    <3>1. /\ Len(sources) = 2 /\ shown.comparison = Comparison(base, target)
          /\ \A f \in DOMAIN shown.files : \E prediction : shown.files[f] = Correlated(shown.comparison, prediction)
          /\ verdict = IF shown.comparison.regressions # {} THEN 1 ELSE 0
      BY <1>0, <1>2, <2>4 DEF ShownInv
    <3>2. IsResults(base) /\ IsResults(target)
      BY <2>2, <2>3, <3>1
    <3> HIDE DEF base, target
    <3>3. verdict = 1 <=> \E t \in Tests : OutcomeIn(base, t) = "PASS" /\ OutcomeIn(target, t) \in Failing
      BY <3>1, <3>2, Regresses
    <3>4. FailuresAreListed(shown.comparison, base, target) /\ Mirrored(shown.comparison, base, target)
      BY <3>1, <3>2, FailuresListed, ComparisonMirrors
    <3>5. ASSUME NEW f \in DOMAIN shown.files PROVE PredictionsAccount(shown.comparison, shown.files[f])
      <4>1. PICK prediction : shown.files[f] = Correlated(Comparison(base, target), prediction)
        BY <3>1
      <4>2. \A b, t, p : PredictionsAccount(Comparison(b, t), Correlated(Comparison(b, t), p))
        BY PredictionsAccounted
      <4> QED BY <3>1, <4>1, <4>2
    <3>6. ExitTellsRegressions
      BY <1>2, <2>1, <2>4, <3>3 DEF ExitTellsRegressions, base, target
    <3>7. shown.kind # "timeline"
      BY <2>4
    <3> QED BY <3>4, <3>5, <3>6, <3>7 DEF VerdictIsSound, base, target
  <2>5. CASE shown.kind # "comparison"
    <3>1. verdict = 0 /\ (shown.kind = "timeline" => shown = Timeline(loaded))
      BY <1>0, <1>2, <2>5 DEF ShownInv
    <3>2. TrendsAreWitnessed(Timeline(loaded))
      BY <2>2, TrendsWitnessed
    <3>3. ExitTellsRegressions
      BY <1>2, <2>5, <3>1 DEF ExitTellsRegressions
    <3> QED BY <2>5, <3>1, <3>2, <3>3 DEF VerdictIsSound
  <2> QED BY <2>4, <2>5
<1> QED
  BY <1>1, <1>2

\* The exit code, the lists of a comparison and the trends of a timeline are true of the
\* results that were loaded (compare_runs, build_timeline), for any number of runs, tests
\* and messages.
THEOREM VerdictsAreSound == ComparingSpec => []VerdictIsSound
<1>1. ComparingSpec => []CompareInv
  BY CompareInvariance
<1>2. CompareInv => VerdictIsSound
  BY Verdict
<1> QED
  BY <1>1, <1>2, PTL

\* In a list with the runs at the end of a sort, older runs come first.
LEMMA InTimeOrder ==
  ASSUME NEW ps \in Seq(Paths), NEW d \in Nat, NEW time, world \in Worlds,
         DOMAIN loaded = 1..Len(loaded), Len(loaded) \in Nat, Len(ps) = d + Len(loaded),
         \A k \in DOMAIN loaded : loaded[k].path = SortRunPaths(ps)[d + k],
         \A p \in Range(ps) : time[p] \in Nat, SortedBy(ps, time)
  PROVE  InOrder(Range(ps), time)
<1> DEFINE S == SortRunPaths(ps)
           n == Len(ps)
           m == Len(loaded)
<1>1. /\ n \in Nat /\ DOMAIN ps = 1..n /\ DOMAIN S = 1..n /\ \A k \in 1..n : S[k] \in Range(ps)
      /\ \A p \in Range(ps) : \E k \in 1..n : S[k] = p
      /\ \A j, k \in 1..n : j < k => time[S[j]] <= time[S[k]]
  <2>1. DOMAIN ps = 1..n /\ n \in Nat
    OBVIOUS
  <2>2. S \in [DOMAIN ps -> Range(ps)] /\ \A p \in Range(ps) : \E k \in DOMAIN ps : S[k] = p
    BY SortRunFacts
  <2> HIDE DEF n
  <2> QED BY <2>1, <2>2 DEF SortedBy
<1>2. n = d + m /\ m \in Nat /\ DOMAIN loaded = 1..m /\ \A k \in 1..m : loaded[k].path = S[d + k]
  OBVIOUS
<1> HIDE DEF S, n, m
<1>3. SUFFICES ASSUME NEW p \in Range(ps), NEW q \in Range(ps), time[p] < time[q], Places(p) # {}
               PROVE  Places(q) # {} /\ Max(Places(p)) < Min(Places(q))
  BY DEF InOrder
<1>4. \A x : Places(x) = {k \in 1..m : S[d + k] = x}
  BY <1>2 DEF Places
<1>5. ASSUME NEW j \in 1..n, NEW k \in 1..n, S[j] = p, S[k] = q PROVE j < k
  <2>1. ~ (k <= j)
    <3>1. SUFFICES ASSUME k <= j PROVE FALSE
      OBVIOUS
    <3>2. time[p] \in Nat /\ time[q] \in Nat
      OBVIOUS
    <3>3. k = j => time[q] = time[p]
      BY <1>5
    <3>4. k < j => time[q] <= time[p]
      BY <1>1, <1>5
    <3> QED BY <1>1, <1>3, <3>1, <3>2, <3>3, <3>4
  <2> QED BY <1>1, <2>1
<1>6. Places(q) # {}
  <2>1. PICK j \in Places(p) : TRUE
    BY <1>3
  <2>2. j \in 1..m /\ S[d + j] = p /\ d + j \in 1..n
    BY <1>2, <1>4, <2>1
  <2>3. PICK k \in 1..n : S[k] = q
    BY <1>1
  <2>4. d + j < k
    BY <1>5, <2>2, <2>3
  <2>5. k - d \in 1..m /\ d + (k - d) = k
    BY <1>1, <1>2, <2>2, <2>3, <2>4
  <2>6. k - d \in Places(q)
    BY <1>4, <2>3, <2>5
  <2> QED BY <2>6
<1>7. /\ Places(p) \in SUBSET (0..m) /\ Places(q) \in SUBSET Nat
  BY <1>2, <1>4
<1>8. Max(Places(p)) \in Places(p)
  BY <1>2, <1>3, <1>7, GreatestNumber
<1>9. Min(Places(q)) \in Places(q)
  <2>1. PICK x \in Places(q) : \A y \in Places(q) : x <= y
    BY <1>6, <1>7, LeastNumber
  <2>2. \E u \in Places(q) : \A v \in Places(q) : u <= v
    BY <2>1
  <2> QED BY <2>2 DEF Min
<1>10. ASSUME NEW j \in Places(p), NEW k \in Places(q) PROVE j < k
  <2>1. j \in 1..m /\ k \in 1..m /\ S[d + j] = p /\ S[d + k] = q
    BY <1>4
  <2>2. d + j \in 1..n /\ d + k \in 1..n
    BY <1>2, <2>1
  <2>3. d + j < d + k
    BY <1>5, <2>1, <2>2
  <2> QED BY <1>2, <2>1, <2>3
<1> QED
  BY <1>6, <1>8, <1>9, <1>10

LEMMA Newest == CompareInv => RunsAreTheNewest
<1> SUFFICES ASSUME CompareInv, shown # Silence PROVE RunsAreTheNewest
  BY DEF RunsAreTheNewest
<1>0. StageInv /\ SourcesInv /\ LoadedInv
  BY DEF CompareInv
<1> DEFINE all == IF InSearch THEN Found ELSE Range(command.paths)
<1>1. stage # "idle" /\ world \in Worlds /\ command \in Commands
  <2>1. verdict # 3
    BY <1>0 DEF StageInv
  <2> QED BY <1>0, <2>1 DEF StageInv
<1>2. /\ Len(loaded) = Len(sources) /\ DOMAIN loaded = 1..Len(loaded) /\ Len(loaded) \in Nat
      /\ DOMAIN sources = 1..Len(sources)
      /\ \A k \in DOMAIN loaded : IsSource(sources[k]) /\ Load(sources[k]) # <<>> /\ loaded[k] = Load(sources[k])[1]
  BY <1>0 DEF LoadedInv, SourcesInv, AreSources
<1>3. ASSUME command.paths # <<>>
      PROVE  IF \A p \in all : IniTime(p) > 0 THEN InOrder(all, [p \in all |-> IniTime(p)])
             ELSE (\A p \in all : NameTime(p) > 0) => InOrder(all, [p \in all |-> NameTime(p)])
  <2>1. Arranged(sources)
    BY <1>0, <1>3 DEF SourcesInv
  <2>2. PICK ps, d : d \in Nat /\ IsAll(ps) /\ EndsOf(sources, ps, d)
    BY <2>1 DEF Arranged
  <2>3. ps \in Seq(Paths) /\ Range(ps) = all /\ Len(ps) = d + Len(loaded)
    BY <1>2, <2>2 DEF IsAll, EndsOf
  <2>4. \A k \in DOMAIN loaded : loaded[k].path = SortRunPaths(ps)[d + k]
    <3>1. SUFFICES ASSUME NEW k \in DOMAIN loaded PROVE loaded[k].path = SortRunPaths(ps)[d + k]
      OBVIOUS
    <3>2. sources[k] = FromPath(SortRunPaths(ps)[d + k])
      BY <1>2, <2>2 DEF EndsOf
    <3>3. sources[k].label = "" /\ sources[k].path = SortRunPaths(ps)[d + k]
      <4>1. \A p : FromPath(p).label = "" /\ FromPath(p).path = p
        BY DEF FromPath
      <4> QED BY <3>2, <4>1
    <3> QED BY <1>1, <1>2, <3>3, LoadFacts
  <2>5. \A p \in Range(ps) : IniTimes(ps)[p] \in Nat /\ NameTimes(ps)[p] \in Nat
    <3>1. \A p \in Paths : IniTime(p) \in Nat /\ NameTime(p) \in Nat
      BY <1>1, CompareAssumption DEF IniTime, NameTime
    <3>2. Range(ps) \subseteq Paths
      BY <2>3 DEF Range
    <3> QED BY <3>1, <3>2 DEF IniTimes, NameTimes
  <2>6. [p \in all |-> IniTime(p)] = IniTimes(ps) /\ [p \in all |-> NameTime(p)] = NameTimes(ps)
    BY <2>3 DEF IniTimes, NameTimes
  <2>7. IF \A p \in Range(ps) : IniTime(p) > 0 THEN SortedBy(ps, IniTimes(ps))
        ELSE (\A p \in Range(ps) : NameTime(p) > 0) => SortedBy(ps, NameTimes(ps))
    BY <1>1, <2>3, SortRunFacts
  <2> HIDE DEF all
  <2>8. CASE \A p \in all : IniTime(p) > 0
    <3>1. SortedBy(ps, IniTimes(ps))
      BY <2>3, <2>7, <2>8
    <3>2. InOrder(Range(ps), IniTimes(ps))
      BY <1>1, <1>2, <2>2, <2>3, <2>4, <2>5, <3>1, InTimeOrder
    <3> QED BY <2>3, <2>6, <2>8, <3>2
  <2>9. CASE ~ (\A p \in all : IniTime(p) > 0) /\ \A p \in all : NameTime(p) > 0
    <3>1. SortedBy(ps, NameTimes(ps))
      BY <2>3, <2>7, <2>9
    <3>2. InOrder(Range(ps), NameTimes(ps))
      BY <1>1, <1>2, <2>2, <2>3, <2>4, <2>5, <3>1, InTimeOrder
    <3> QED BY <2>3, <2>6, <2>9, <3>2
  <2>10. CASE ~ (\A p \in all : IniTime(p) > 0) /\ ~ (\A p \in all : NameTime(p) > 0)
    BY <2>10
  <2> QED BY <2>8, <2>9, <2>10
<1>4. ASSUME NEW k \in DOMAIN sources, sources[k].label # ""
      PROVE  TakenOf(sources[k], loaded[k].results)
  BY <1>1, <1>2, <1>4, LoadFacts
<1> HIDE DEF all
<1>5. \A k \in DOMAIN sources : sources[k].label # "" =>
        \E m \in world.store :
          /\ m.label = sources[k].label
          /\ UNION {DOMAIN LoadRun(p, "", command.strict)[1].results : p \in Comparable(m)} = DOMAIN loaded[k].results
          /\ \A n \in world.store : n.label = m.label /\ n.completed /\ Comparable(n) # {} => m.completed
  BY <1>4 DEF TakenOf
<1>6. all = IF command.paths # <<>> /\ Mode = "scan" THEN Found ELSE Range(command.paths)
  BY DEF all, InSearch
<1> QED
  BY <1>3, <1>5, <1>6, Zenon DEF RunsAreTheNewest

\* The runs that the program orders itself are in the order of their times, a limited search
\* takes the newest, and a label stands for a completed run if there is one, with all
\* its parts (sort_run_paths, resolve_labeled_run), for any number of paths and
\* manifests.
THEOREM RunsStayNewest == ComparingSpec => []RunsAreTheNewest
<1>1. ComparingSpec => []CompareInv
  BY CompareInvariance
<1>2. CompareInv => RunsAreTheNewest
  BY Newest
<1> QED
  BY <1>1, <1>2, PTL
================================================================================
