--------------------------- MODULE RuntimeHistory ---------------------------
(***************************************************************************)
(* runtime_history.py: the durations that runs have observed, in one file  *)
(* that the runs of all users share.                                       *)
(*                                                                         *)
(* A run collects the observations of its report and, under the lock of    *)
(* the file, reads the file, adds them and replaces the file by a          *)
(* temporary one.  mkstemp makes that file readable for its owner alone,   *)
(* and a file that cannot be read counts as an empty history.  In a sticky *)
(* directory, as the default root below /tmp is one, the file of a user is *)
(* replaced by him and by the owner of the directory only: the user whose  *)
(* selector made the root.  The lock is the abstract one of ExclusiveLock. *)
(***************************************************************************)
EXTENDS Naturals, Sequences, FiniteSets

CONSTANTS
    Proc,           (* selector processes, one execution each               *)
    User,           (* the users that run them                              *)
    UserOf,         (* the user of a process                                *)
    Sticky,         (* the state root has the sticky bit                    *)
    RootOwner,      (* the user that made the root; Nobody: he runs nothing *)
    Reader,         (* a user, whose view of the history is looked at       *)
    Target,         (* pairs of a target key and a tool                     *)
    Report,         (* per process, the results in its report, once for     *)
                    (* every target dict that carries them                  *)
    MaxSamples,     (* max_samples                                          *)
    Nobody          (* no process, no user                                  *)

Result == [target : Target, selected : BOOLEAN, timed : BOOLEAN,
           status : {"passed", "failed", "timeout", "skipped", "blocked", "unavailable"}]

ASSUME ConstantAssumption ==
    /\ UserOf \in [Proc -> User]
    /\ Sticky \in BOOLEAN
    /\ RootOwner \in User \cup {Nobody}
    /\ Reader \in User
    /\ Report \in [Proc -> Seq(Result)]
    /\ MaxSamples \in Nat \ {0}
    /\ Nobody \notin Proc \cup User

Sample == [run : Proc, status : {"passed", "failed", "timeout", "skipped", "blocked", "unavailable"}]
-----------------------------------------------------------------------------
(* collect_runtime_observations.                                           *)
IsObservation(result) ==
    /\ result.selected
    /\ result.timed
    /\ result.status \notin {"unavailable", "blocked"}

Observations(p) == {i \in DOMAIN Report[p] : IsObservation(Report[p][i])}

(* The samples of a run for a target, in the order of its report.  A result*)
(* that several target dicts share is observed once for each of them.      *)
Batch(p, t) ==
    LET upto[n \in 0..Len(Report[p])] ==
          IF n = 0 THEN <<>>
          ELSE IF n \in Observations(p) /\ Report[p][n].target = t
          THEN Append(upto[n - 1], [run |-> p, status |-> Report[p][n].status])
          ELSE upto[n - 1]
    IN upto[Len(Report[p])]

(* Variant: the oldest samples are kept.                                   *)
OldestKept(s) == SubSeq(s, 1, IF Len(s) > MaxSamples THEN MaxSamples ELSE Len(s))

(* existing_samples[-max(1, max_samples):]                                 *)
Newest(s) == SubSeq(s, IF Len(s) > MaxSamples THEN Len(s) - MaxSamples + 1 ELSE 1, Len(s))

Learn(h, p) == [t \in Target |-> Newest(h[t] \o Batch(p, t))]

Empty == [t \in Target |-> <<>>]
-----------------------------------------------------------------------------
VARIABLES
    pc,             (* where a process is in update_runtime_history         *)
    owner,          (* the process that holds the lock of the history file  *)
    file,           (* the history file: the user it belongs to, its samples*)
    copy,           (* copy[p]: the payload that p has loaded and extended  *)
    tmp,            (* the processes whose temporary file exists            *)
    recorded        (* history: the processes that have replaced the file   *)

vars == <<pc, owner, file, copy, tmp, recorded>>

Inside == {"load", "write", "replace", "release"}
Ended  == {"done", "gave up", "raised", "dead"}

TypeOK ==
    /\ pc       \in [Proc -> {"collect", "acquire"} \cup Inside \cup Ended]
    /\ owner    \in Proc \cup {Nobody}
    /\ file     \in [user : User \cup {Nobody}, hist : [Target -> Seq(Sample)]]
    /\ copy     \in [Proc -> [Target -> Seq(Sample)]]
    /\ tmp      \subseteq Proc
    /\ recorded \subseteq Proc

Init ==
    /\ pc       = [p \in Proc |-> "collect"]
    /\ owner    = Nobody
    /\ file     = [user |-> Nobody, hist |-> Empty]
    /\ copy     = [p \in Proc |-> Empty]
    /\ tmp      = {}
    /\ recorded = {}

Goto(p, label) == pc' = [pc EXCEPT ![p] = label]
-----------------------------------------------------------------------------
(* Without observations the file is left alone.                            *)
Collect(p) ==
    /\ pc[p] = "collect"
    /\ Goto(p, IF Observations(p) = {} THEN "done" ELSE "acquire")
    /\ UNCHANGED <<owner, file, copy, tmp, recorded>>

Acquire(p) ==
    /\ pc[p] = "acquire"
    /\ owner = Nobody
    /\ owner' = p
    /\ Goto(p, "load")
    /\ UNCHANGED <<file, copy, tmp, recorded>>

(* Variant: a lock timeout is swallowed.                                   *)
GiveUpQuietly(p) ==
    /\ pc[p] = "acquire"
    /\ Goto(p, "done")
    /\ UNCHANGED <<owner, file, copy, tmp, recorded>>

(* InterprocessLockTimeout leaves update_runtime_history.                  *)
GiveUp(p) ==
    /\ pc[p] = "acquire"
    /\ Goto(p, "gave up")
    /\ UNCHANGED <<owner, file, copy, tmp, recorded>>

Readable(p) == file.user \in {Nobody, UserOf[p]}

(* _load_runtime_history_unlocked and the loop over the observations.      *)
Load(p) ==
    /\ pc[p] = "load"
    /\ copy' = [copy EXCEPT ![p] = Learn(IF Readable(p) THEN file.hist ELSE Empty, p)]
    /\ Goto(p, "write")
    /\ UNCHANGED <<owner, file, tmp, recorded>>

(* mkstemp and json.dump.                                                  *)
WriteTemporary(p) ==
    /\ pc[p] = "write"
    /\ tmp' = tmp \cup {p}
    /\ Goto(p, "replace")
    /\ UNCHANGED <<owner, file, copy, recorded>>

(* rename over a file of another user.                                     *)
MayReplace(p) == Sticky => Readable(p) \/ UserOf[p] = RootOwner

Replace(p) ==
    /\ pc[p] = "replace"
    /\ MayReplace(p)
    /\ file' = [user |-> UserOf[p], hist |-> copy[p]]
    /\ tmp' = tmp \ {p}
    /\ recorded' = recorded \cup {p}
    /\ Goto(p, "release")
    /\ UNCHANGED <<owner, copy>>

(* PermissionError: `finally` removes the temporary file, `with` unlocks.  *)
ReplaceFails(p) ==
    /\ pc[p] = "replace"
    /\ ~MayReplace(p)
    /\ tmp' = tmp \ {p}
    /\ owner' = Nobody
    /\ Goto(p, "raised")
    /\ UNCHANGED <<file, copy, recorded>>

Release(p) ==
    /\ pc[p] = "release"
    /\ owner' = Nobody
    /\ Goto(p, "done")
    /\ UNCHANGED <<file, copy, tmp, recorded>>

(* The process is killed; its lock goes, its temporary file stays.         *)
Die(p) ==
    /\ pc[p] \notin Ended
    /\ Goto(p, "dead")
    /\ owner' = IF owner = p THEN Nobody ELSE owner
    /\ UNCHANGED <<file, copy, tmp, recorded>>
-----------------------------------------------------------------------------
Step(p) ==
    \/ Collect(p)
    \/ Acquire(p)
    \/ GiveUp(p)
    \/ Load(p)
    \/ WriteTemporary(p)
    \/ Replace(p)
    \/ ReplaceFails(p)
    \/ Release(p)

Next == \E p \in Proc : Step(p) \/ Die(p)

Spec == Init /\ [][Next]_vars
-----------------------------------------------------------------------------
(* Properties.                                                             *)

(* README.md:25, a shared history: whatever processes do at the same time  *)
(* and wherever they are killed, each replaces the file by the samples of  *)
(* all recorded runs before it plus its own, all of them or none.  The     *)
(* code keeps it only where nobody can replace what he cannot read.        *)
Log == INSTANCE SampleLog WITH hist <- file.hist
ImplementsSampleLog == Log!Spec

(* The history that the runs of the reader find.                           *)
View == IF file.user \in {Reader, Nobody} THEN file.hist ELSE Empty

OwnRuns == {p \in Proc : UserOf[p] = Reader}

Own == INSTANCE SampleLog WITH
    Proc     <- OwnRuns,
    hist     <- View,
    recorded <- recorded \cap OwnRuns

(* What README.md:25 comes to for a user whose history no other user may   *)
(* replace, as the owner of a sticky root is one: the history that he finds*)
(* is the log of his own runs, with the newest samples of all of them,     *)
(* whoever else writes the file before, runs at the same time or is killed.*)
(* The others are promised nothing: his first run replaces their samples.  *)
ReaderKeepsLog == Own!Spec

(* update_runtime_history returns only when the samples are in the file,   *)
(* and when it raises nothing of the run is in the file.                   *)
ReturnMeansRecorded ==
    \A p \in Proc :
        /\ pc[p] = "done" => p \in recorded \/ Observations(p) = {}
        /\ pc[p] \in {"gave up", "raised"} =>
              \A t \in Target : \A i \in DOMAIN file.hist[t] : file.hist[t][i].run # p

(* A process that has left the update, in whatever way, keeps no lock, and *)
(* its temporary file stays only when it was killed.                       *)
CleanExit ==
    \A p \in Proc : pc[p] \in Ended =>
        /\ owner # p
        /\ p \in tmp => pc[p] = "dead"

(* An update that has ended, well or not, says truly whether the samples   *)
(* are in the file, and leaves no lock or temporary file of its own.       *)
UpdateOK == TypeOK /\ ReturnMeansRecorded /\ CleanExit
=============================================================================
