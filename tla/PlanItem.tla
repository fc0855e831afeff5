------------------------------ MODULE PlanItem ------------------------------
(***************************************************************************)
(* _execute_plan_item of execution.py: one item of a plan on one device.   *)
(*                                                                         *)
(* An aa_test item installs an application (install_command), installs the *)
(* local test HAPs by two commands each, runs the test and uninstalls the  *)
(* bundle.  The commands from the HAPs on share one deadline.  A step of   *)
(* the model is one command: it takes some time and ends by itself, is     *)
(* killed at its timeout, or raises (text=True fails to decode its output).*)
(* Time is counted in ticks of the clock, so that the smallest budget      *)
(* max(0.05, ...) and the cut-off at 0.06 can be told apart.               *)
(***************************************************************************)
EXTENDS Naturals

CONSTANTS
    Timeouts,   (* ticks of --run-timeout to choose from, 0 for none        *)
    InstallCap, (* ticks of the fixed timeout of install_command            *)
    MinBudget,  (* ticks of the smallest timeout given to a command         *)
    TooLate,    (* with so few ticks left the test is not started           *)
    MaxHaps,    (* bound on the local test HAPs of an item                  *)
    MaxTicks    (* bound on the time a command takes without a timeout      *)

ASSUME ItemAssumption ==
    /\ Timeouts \subseteq Nat
    /\ {InstallCap, MinBudget, TooLate, MaxHaps, MaxTicks} \subseteq Nat
    /\ 0 < MinBudget /\ MinBudget <= TooLate

VARIABLES
    item,       (* what steers the execution: the fields of the plan item   *)
                (* and timeout_value                                        *)
    pc,         (* the command that comes next, "ended" or "raised"         *)
    now,        (* ticks since started_monotonic                            *)
    sent,       (* commands of the HAP installation that have succeeded     *)
    installed,  (* the device has something of the bundle installed         *)
    budget,     (* the timeout given to the test command                    *)
    ran,        (* how the test command ended, "no" before                  *)
    said,       (* what its output shows                                    *)
    xml,        (* the summary_report.xml under result_path                 *)
    cleanup,    (* what has become of `bm uninstall`                        *)
    status      (* the status of the outcome                                *)

itemVars == <<item, pc, now, sent, installed, budget, ran, said, xml, cleanup, status>>
-----------------------------------------------------------------------------
Tools == {"aa_test", "xdevice", "runtest"}

Item ==
    [tool    : Tools,
     install : BOOLEAN,         (* install_command set and not skip_install *)
     haps    : 0..MaxHaps,      (* test HAPs found under the ACTS tree      *)
     missing : BOOLEAN,         (* HAPs named, none found, though fetched   *)
     bundle  : BOOLEAN,         (* bundle_name known                        *)
     path    : BOOLEAN,         (* result_path set                          *)
     timeout : Timeouts]

Xml == {"none", "stale", "pass", "fail"}

ItemOK ==
    /\ item \in Item
    /\ pc \in {"begin", "install", "haps", "test", "judge", "cleanup", "ended", "raised"}
    /\ now \in Nat
    /\ sent \in 0..(2 * MaxHaps)
    /\ installed \in BOOLEAN
    /\ budget \in Nat
    /\ ran \in {"no", "zero", "nonzero", "killed"}
    /\ said \in {"nothing", "success", "failure"}
    /\ xml \in Xml
    /\ cleanup \in {"no", "done", "failed", "skipped"}
    /\ status \in {"none", "passed", "failed", "timeout", "skipped"}

ItemInit ==
    /\ item \in {i \in Item :
          /\ i.install => i.tool = "aa_test" /\ i.bundle
          /\ i.missing => i.haps = 0
          /\ i.tool # "aa_test" => i.haps = 0 /\ ~i.missing
          /\ i.tool = "runtest" => ~i.path}
    /\ pc = "begin"
    /\ now = 0
    /\ sent = 0
    /\ installed = FALSE
    /\ budget = 0
    /\ ran = "no"
    /\ said = "nothing"
    /\ xml \in IF item.path THEN {"none", "stale"} ELSE {"none"}
    /\ cleanup = "no"
    /\ status = "none"

(* deadline is None without a timeout; a command then ends when it ends.   *)
HasTimeout == item.timeout > 0
Expired == HasTimeout /\ now >= item.timeout
Left == IF now >= item.timeout THEN 0 ELSE item.timeout - now

(* Variant: every command has the whole timeout.                           *)
SubLimitWhole == IF HasTimeout THEN item.timeout ELSE MaxTicks

SubLimit == IF ~HasTimeout THEN MaxTicks
            ELSE IF Left < MinBudget THEN MinBudget ELSE Left

(* A command that ends by itself takes at most its limit, one that is      *)
(* killed takes exactly that long.                                         *)
Takes(limit)  == \E d \in 0..limit : now' = now + d
Killed(limit) == now' = now + limit

Ends(s) == pc' = "ended" /\ status' = s
-----------------------------------------------------------------------------
(* rmtree(result_path, ignore_errors=True) may leave an old summary behind.*)
Begin ==
    /\ pc = "begin"
    /\ xml' \in IF xml = "stale" THEN {"none", "stale"} ELSE {xml}
    /\ pc' = IF item.install THEN "install" ELSE "haps"
    /\ UNCHANGED <<item, now, sent, installed, budget, ran, said, cleanup, status>>

Install ==
    /\ pc = "install"
    /\ Takes(InstallCap)
    /\ installed' = TRUE
    /\ pc' = "haps"
    /\ UNCHANGED <<item, sent, budget, ran, said, xml, cleanup, status>>

InstallFails ==
    /\ pc = "install"
    /\ Takes(InstallCap) \/ Killed(InstallCap)
    /\ installed' \in BOOLEAN
    /\ Ends("failed")
    /\ UNCHANGED <<item, sent, budget, ran, said, xml, cleanup>>

(* No test HAP although the daily package has been fetched.                *)
SkipMissing ==
    /\ pc = "haps"
    /\ item.missing
    /\ Ends("skipped")
    /\ UNCHANGED <<item, now, sent, installed, budget, ran, said, xml, cleanup>>

HapsLeft == sent < 2 * item.haps

(* `file send` and `bm install` by turns.                                  *)
HapCommand ==
    /\ pc = "haps"
    /\ HapsLeft
    /\ ~Expired
    /\ Takes(SubLimit)
    /\ sent' = sent + 1
    /\ installed' = (installed \/ sent % 2 = 1)
    /\ UNCHANGED <<item, pc, budget, ran, said, xml, cleanup, status>>

HapCommandFails ==
    /\ pc = "haps"
    /\ HapsLeft
    /\ ~Expired
    /\ Takes(SubLimit)
    /\ Ends("failed")
    /\ UNCHANGED <<item, sent, installed, budget, ran, said, xml, cleanup>>

HapCommandKilled ==
    /\ pc = "haps"
    /\ HapsLeft
    /\ ~Expired
    /\ HasTimeout
    /\ Killed(SubLimit)
    /\ installed' \in {installed, installed \/ sent % 2 = 1}
    /\ Ends("timeout")
    /\ UNCHANGED <<item, sent, budget, ran, said, xml, cleanup>>

HapsOutOfTime ==
    /\ pc = "haps"
    /\ HapsLeft
    /\ Expired
    /\ Ends("timeout")
    /\ UNCHANGED <<item, now, sent, installed, budget, ran, said, xml, cleanup>>

(* "run timeout exhausted before aa_test".                                 *)
TestOutOfTime ==
    /\ pc = "haps"
    /\ ~item.missing /\ ~HapsLeft
    /\ HasTimeout /\ SubLimit <= TooLate
    /\ Ends("timeout")
    /\ UNCHANGED <<item, now, sent, installed, budget, ran, said, xml, cleanup>>

StartTest ==
    /\ pc = "haps"
    /\ ~item.missing /\ ~HapsLeft
    /\ ~(HasTimeout /\ SubLimit <= TooLate)
    /\ budget' = SubLimit
    /\ pc' = "test"
    /\ UNCHANGED <<item, now, sent, installed, ran, said, xml, cleanup, status>>

(* xdevice writes the summary itself, or ends without one.                 *)
TestEnds ==
    /\ pc = "test"
    /\ Takes(budget)
    /\ ran' \in {"zero", "nonzero"}
    /\ said' \in {"nothing", "success", "failure"}
    /\ xml' \in IF item.tool = "xdevice" /\ item.path THEN {xml, "pass", "fail"} ELSE {xml}
    /\ pc' = "judge"
    /\ UNCHANGED <<item, sent, installed, budget, cleanup, status>>

TestKilled ==
    /\ pc = "test"
    /\ HasTimeout
    /\ Killed(budget)
    /\ ran' = "killed"
    /\ status' = "timeout"
    /\ pc' = "cleanup"
    /\ UNCHANGED <<item, sent, installed, budget, said, xml, cleanup>>
-----------------------------------------------------------------------------
(* Variant: the exit status decides, whatever the output shows.            *)
ExitVerdict == IF ran = "nonzero" \/ xml = "fail" THEN "failed" ELSE "passed"

Verdict ==
    IF \/ ran = "nonzero"
       \/ item.tool = "xdevice" /\ xml = "fail"
       \/ item.tool = "aa_test" /\ said # "success"
    THEN "failed" ELSE "passed"

(* Variant: the summary of aa_test is written from the exit status.        *)
JudgeAfterwards ==
    /\ pc = "judge"
    /\ status' = Verdict
    /\ xml' = IF item.tool = "aa_test" /\ item.path
              THEN (IF ran = "zero" THEN "pass" ELSE "fail") ELSE xml
    /\ pc' = "cleanup"
    /\ UNCHANGED <<item, now, sent, installed, budget, ran, said, cleanup>>

(* The status of a test that ended; aa_test gets a summary of its own.  A  *)
(* summary left from an earlier run counts for xdevice like a fresh one.   *)
Judge ==
    /\ pc = "judge"
    /\ \/ status' = Verdict
       \/ xml = "stale" /\ item.tool = "xdevice" /\ status' = "failed"
    /\ xml' = IF item.tool = "aa_test" /\ item.path
              THEN (IF status' = "passed" THEN "pass" ELSE "fail") ELSE xml
    /\ pc' = "cleanup"
    /\ UNCHANGED <<item, now, sent, installed, budget, ran, said, cleanup>>

(* hap_installed_for_cleanup: the local HAPs, not the install_command.     *)
ToClean == item.tool = "aa_test" /\ item.haps > 0 /\ item.bundle

(* Variant: only a test that has passed is cleaned up.                     *)
NoCleanupUnlessPassed ==
    /\ pc = "cleanup"
    /\ ~ToClean \/ status # "passed"
    /\ pc' = "ended"
    /\ UNCHANGED <<item, now, sent, installed, budget, ran, said, xml, cleanup, status>>

NoCleanup ==
    /\ pc = "cleanup"
    /\ ~ToClean
    /\ pc' = "ended"
    /\ UNCHANGED <<item, now, sent, installed, budget, ran, said, xml, cleanup, status>>

CleanupSkipped ==
    /\ pc = "cleanup"
    /\ ToClean
    /\ Expired
    /\ cleanup' = "skipped"
    /\ pc' = "ended"
    /\ UNCHANGED <<item, now, sent, installed, budget, ran, said, xml, status>>

Uninstall ==
    /\ pc = "cleanup"
    /\ ToClean
    /\ ~Expired
    /\ Takes(SubLimit)
    /\ installed' = FALSE
    /\ cleanup' = "done"
    /\ pc' = "ended"
    /\ UNCHANGED <<item, sent, budget, ran, said, xml, status>>

UninstallFails ==
    /\ pc = "cleanup"
    /\ ToClean
    /\ ~Expired
    /\ Takes(SubLimit) \/ (HasTimeout /\ Killed(SubLimit))
    /\ cleanup' = "failed"
    /\ pc' = "ended"
    /\ UNCHANGED <<item, sent, installed, budget, ran, said, xml, status>>

(* A command's output cannot be decoded: the exception leaves the item.    *)
Raises ==
    /\ \/ pc \in {"install", "test"}
       \/ pc = "haps" /\ HapsLeft /\ ~Expired
       \/ pc = "cleanup" /\ ToClean /\ ~Expired
    /\ Takes(IF pc = "install" THEN InstallCap ELSE SubLimit)
    /\ installed' \in BOOLEAN
    /\ pc' = "raised"
    /\ UNCHANGED <<item, sent, budget, ran, said, xml, cleanup, status>>

ItemNext ==
    \/ Begin
    \/ Install \/ InstallFails \/ SkipMissing
    \/ HapCommand \/ HapCommandFails \/ HapCommandKilled \/ HapsOutOfTime
    \/ TestOutOfTime \/ StartTest \/ TestEnds \/ TestKilled \/ Judge
    \/ NoCleanup \/ CleanupSkipped \/ Uninstall \/ UninstallFails
    \/ Raises

ItemSpec == ItemInit /\ [][ItemNext]_itemVars
-----------------------------------------------------------------------------
(* Properties.                                                             *)

(* An item passes only when all its HAPs were installed and the test ended *)
(* by itself, successfully by every sign its tool gives.                   *)
PassedMeansTested ==
    status = "passed" =>
        /\ sent = 2 * item.haps
        /\ ran = "zero"
        /\ item.tool = "aa_test" => said = "success"
        /\ item.tool = "xdevice" => xml # "fail"

(* An item with a timeout overruns it by less than the smallest budget of  *)
(* one command, except for an install_command with its own timeout.        *)
WithinTimeout ==
    HasTimeout /\ pc \in {"ended", "raised"} =>
        now < item.timeout + MinBudget \/ now <= InstallCap

(* No item is given up as timed out while there is time for its test.      *)
TimeoutMeansExpired ==
    status = "timeout" => HasTimeout /\ Left <= TooLate

(* When a test has ended by itself, its HAPs do not stay on the device     *)
(* without a note in the outcome.                                          *)
CleanAfterTest ==
    pc = "ended" /\ ran \in {"zero", "nonzero"} /\ ToClean =>
        ~installed \/ cleanup \in {"failed", "skipped"}

(* The summary that comparison reads from result_path agrees with the      *)
(* outcome, and an aa_test item that was not run has no fresh summary.     *)
SummaryMatches ==
    pc = "ended" /\ item.tool = "aa_test" /\ item.path =>
        /\ xml = "pass" <=> status = "passed"
        /\ xml \in {"pass", "fail"} <=> ran \in {"zero", "nonzero"}

(* The outcome of an item and what it leaves for the comparison agree.     *)
OutcomeOK == ItemOK /\ TimeoutMeansExpired /\ SummaryMatches
=============================================================================
