----------------------------- MODULE SelectorRun -----------------------------
(***************************************************************************)
(* The life of a labelled selector run: main() of cli.py from the session  *)
(* on (both the analysis path and the saved-report path), report_json.py   *)
(* and the run store of run_store.py.                                      *)
(*                                                                         *)
(* A run gets a directory from its label and the current second, or that   *)
(* of the saved report it starts from.  It plans, perhaps executes, updates*)
(* the runtime history and only then writes its report, the selected tests *)
(* and the manifest.  Files are written in place by write_text, so a crash *)
(* or a reader can meet a partial one.  Analysis and execution are choices *)
(* of their outcome here.                                                  *)
(***************************************************************************)
EXTENDS Naturals, Sequences, FiniteSets

CONSTANTS
    Run,        (* selector processes                                       *)
    Dir,        (* run directories, ordered as _manifest_rank_key does      *)
    Fresh,      (* per run, the directories its label and clock can name,   *)
                (* none for a saved run that is started without a label     *)
    Saved,      (* the runs started with --from-report or --last-report     *)
    Explicit,   (* those among them that name a report                      *)
    Absent, Partial     (* contents of a file that is no JSON document      *)

ASSUME ConstantAssumption ==
    /\ Dir \subseteq Nat
    /\ Fresh \in [Run -> SUBSET Dir]
    /\ \A p \in Run \ Saved : Fresh[p] # {}
    /\ Explicit \subseteq Saved /\ Saved \subseteq Run

Status == {"planned", "failed_preflight", "interrupted", "completed", "completed_with_failures"}
File   == {"report", "selected", "manifest"}
Document == [run : Run, status : Status]

ASSUME ContentAssumption ==
    Absent \notin Document /\ Partial \notin Document /\ Absent # Partial

(* Variant: the manifest before the report of the run directory.           *)
WritesManifestFirst == <<"report", "selected", "report", "manifest", "report">>

(* JSON report, selected tests, JSON report again with their path in it,   *)
(* and write_run_artifacts.                                                *)
Writes == <<"report", "selected", "report", "report", "manifest">>

VARIABLES
    pc,         (* where main() is                                          *)
    dir,        (* dir[p]: the set with the run directory, empty before     *)
    status,     (* status[p]: report["selector_run"]["status"]              *)
    executed,   (* executed[p]: items were run on devices                   *)
    written,    (* written[p]: how many of Writes are complete              *)
    disk,       (* disk[d][f]: the content of file f in directory d         *)
    code        (* code[p]: the exit code                                   *)

vars == <<pc, dir, status, executed, written, disk, code>>
-----------------------------------------------------------------------------
Over == {"exited", "raised", "dead"}

TypeOK ==
    /\ pc       \in [Run -> {"start", "plan", "preflight", "execute", "history",
                             "open", "fill", "exit"} \cup Over]
    /\ dir      \in [Run -> SUBSET Dir]
    /\ status   \in [Run -> Status]
    /\ executed \in [Run -> BOOLEAN]
    /\ written  \in [Run -> 0..Len(Writes)]
    /\ disk     \in [Dir -> [File -> Document \cup {Absent, Partial}]]
    /\ code     \in [Run -> {"none", "0", "1", "2", "130"}]

Init ==
    /\ pc       = [p \in Run |-> "start"]
    /\ dir      = [p \in Run |-> {}]
    /\ status   = [p \in Run |-> "planned"]
    /\ executed = [p \in Run |-> FALSE]
    /\ written  = [p \in Run |-> 0]
    /\ disk     = [d \in Dir |-> [f \in File |-> Absent]]
    /\ code     = [p \in Run |-> "none"]

Goto(p, label) == pc' = [pc EXCEPT ![p] = label]

(* list_run_manifests: a manifest that cannot be parsed is passed over.    *)
Listed == {d \in Dir : disk[d]["manifest"] \in Document}

(* resolve_latest_run.                                                     *)
Latest == {d \in Listed : \A e \in Listed : e <= d}

(* resolve_selector_report_input.                                          *)
Source(p) == IF p \in Explicit THEN Dir ELSE Latest
-----------------------------------------------------------------------------
(* create_run_session: mkdir(exist_ok=True).                               *)
StartLabelled(p) ==
    /\ pc[p] = "start"
    /\ p \notin Saved
    /\ \E d \in Fresh[p] : dir' = [dir EXCEPT ![p] = {d}]
    /\ Goto(p, "plan")
    /\ UNCHANGED <<status, executed, written, disk, code>>

(* run_session_from_report: without a label of its own the run uses the    *)
(* directory of the saved run again.                                       *)
StartSaved(p) ==
    /\ pc[p] = "start"
    /\ p \in Saved
    /\ \E d \in Source(p) :
        /\ disk[d]["report"] \in Document
        /\ \E e \in IF Fresh[p] = {} THEN {d} ELSE Fresh[p] :
              dir' = [dir EXCEPT ![p] = {e}]
    /\ Goto(p, "plan")
    /\ UNCHANGED <<status, executed, written, disk, code>>

(* No saved run at all, or load_selector_report finds no JSON object.      *)
StartFails(p) ==
    /\ pc[p] = "start"
    /\ p \in Saved
    /\ \/ Source(p) = {}
       \/ \E d \in Source(p) : disk[d]["report"] \notin Document
    /\ Goto(p, "raised")
    /\ UNCHANGED <<dir, status, executed, written, disk, code>>

(* attach_execution_plan, and the choice of --run-now.                     *)
PlanOnly(p) ==
    /\ pc[p] = "plan"
    /\ Goto(p, "open")
    /\ UNCHANGED <<dir, status, executed, written, disk, code>>

PlanToRun(p) ==
    /\ pc[p] = "plan"
    /\ Goto(p, "preflight")
    /\ UNCHANGED <<dir, status, executed, written, disk, code>>

Preflight(p) ==
    /\ pc[p] = "preflight"
    /\ \/ /\ Goto(p, "execute")
          /\ UNCHANGED status
       \/ /\ Goto(p, "open")
          /\ status' = [status EXCEPT ![p] = "failed_preflight"]
    /\ UNCHANGED <<dir, executed, written, disk, code>>

Execute(p) ==
    /\ pc[p] = "execute"
    /\ \E s \in {"completed", "completed_with_failures", "interrupted"} :
          status' = [status EXCEPT ![p] = s]
    /\ executed' = [executed EXCEPT ![p] = TRUE]
    /\ Goto(p, "history")
    /\ UNCHANGED <<dir, written, disk, code>>

ExecuteRaises(p) ==
    /\ pc[p] = "execute"
    /\ executed' = [executed EXCEPT ![p] = TRUE]
    /\ Goto(p, "raised")
    /\ UNCHANGED <<dir, status, written, disk, code>>

UpdateHistory(p) ==
    /\ pc[p] = "history"
    /\ Goto(p, "open")
    /\ UNCHANGED <<dir, status, executed, written, disk, code>>

(* RuntimeHistory gave up or raised.  An interrupted run has no results to *)
(* record and does not touch the history.                                  *)
UpdateHistoryRaises(p) ==
    /\ pc[p] = "history"
    /\ status[p] # "interrupted"
    /\ Goto(p, "raised")
    /\ UNCHANGED <<dir, status, executed, written, disk, code>>
-----------------------------------------------------------------------------
Put(p, content) ==
    \E d \in dir[p] : disk' = [disk EXCEPT ![d][Writes[written[p] + 1]] = content]

(* write_text truncates the file ...                                       *)
OpenFile(p) ==
    /\ pc[p] = "open"
    /\ written[p] < Len(Writes)
    /\ Put(p, Partial)
    /\ Goto(p, "fill")
    /\ UNCHANGED <<dir, status, executed, written, code>>

(* Variant: the document is written before the run has its status.         *)
FillFileEarly(p) ==
    /\ pc[p] = "fill"
    /\ Put(p, [run |-> p, status |->
          IF Writes[written[p] + 1] = "report" THEN "planned" ELSE status[p]])
    /\ written' = [written EXCEPT ![p] = @ + 1]
    /\ Goto(p, IF written[p] + 1 < Len(Writes) THEN "open" ELSE "exit")
    /\ UNCHANGED <<dir, status, executed, code>>

(* ... and fills it.                                                       *)
FillFile(p) ==
    /\ pc[p] = "fill"
    /\ Put(p, [run |-> p, status |-> status[p]])
    /\ written' = [written EXCEPT ![p] = @ + 1]
    /\ Goto(p, IF written[p] + 1 < Len(Writes) THEN "open" ELSE "exit")
    /\ UNCHANGED <<dir, status, executed, code>>

(* Variant: only failures of tests are told from success.                  *)
ExitCodeOfSummary(s) == IF s = "completed_with_failures" THEN "1" ELSE "0"

ExitCode(s) ==
    CASE s = "interrupted"             -> "130"
      [] s = "failed_preflight"        -> "2"
      [] s = "completed_with_failures" -> "1"
      [] OTHER                         -> "0"

Exit(p) ==
    /\ pc[p] = "exit"
    /\ code' = [code EXCEPT ![p] = ExitCode(status[p])]
    /\ Goto(p, "exited")
    /\ UNCHANGED <<dir, status, executed, written, disk>>

Die(p) ==
    /\ pc[p] \notin Over
    /\ Goto(p, "dead")
    /\ UNCHANGED <<dir, status, executed, written, disk, code>>
-----------------------------------------------------------------------------
Step(p) ==
    \/ StartLabelled(p) \/ StartSaved(p) \/ StartFails(p)
    \/ PlanOnly(p) \/ PlanToRun(p)
    \/ Preflight(p)
    \/ Execute(p) \/ ExecuteRaises(p)
    \/ UpdateHistory(p) \/ UpdateHistoryRaises(p)
    \/ OpenFile(p) \/ FillFile(p)
    \/ Exit(p)
    \/ Die(p)

Next == \E p \in Run : Step(p)

Spec == Init /\ [][Next]_vars
-----------------------------------------------------------------------------
(* Properties.                                                             *)

(* A run from a saved report at work, or killed, in a directory.           *)
Reused(d) == \E p \in Saved : dir[p] = {d} /\ disk[d]["manifest"].run # p

(* A run that the run store lists has a complete report, of the same run   *)
(* and with the same status, wherever other runs were killed, unless a run *)
(* from a saved report is just replacing it.                               *)
ListedHasReport ==
    \A d \in Listed : disk[d]["report"] = disk[d]["manifest"] \/ Reused(d)

(* Also when a directory is used again: a manifest never gets ahead of the *)
(* report and the selected tests that it stands for.                       *)
ManifestFollowsReport ==
    [][\A d \in Dir :
          LET manifest == disk'[d]["manifest"] IN
          manifest \in Document /\ manifest # disk[d]["manifest"] =>
              /\ disk'[d]["report"] = manifest
              /\ disk'[d]["selected"] \in Document]_vars

Alone(p) == \A q \in Run : q # p => dir[q] # dir[p]

(* The exit code and the manifest tell the same: a run that exits with 0   *)
(* has left a manifest of its own without failures, interrupt or failed    *)
(* preflight; every other exit has left the reason in it.                  *)
ExitTellsManifest ==
    \A p \in Run : pc[p] = "exited" /\ Alone(p) => \A d \in dir[p] :
        LET manifest == disk[d]["manifest"] IN
        /\ manifest \in Document /\ manifest.run = p
        /\ code[p] = "0" <=> manifest.status \in {"planned", "completed"}
        /\ executed[p] => manifest.status \notin {"planned", "failed_preflight"}

(* What the program says at its end, to the shell, in its files and in the *)
(* list of its runs, agrees.                                               *)
RunOK == TypeOK /\ ListedHasReport /\ ExitTellsManifest
=============================================================================
