--------------------------- MODULE ExecutionPlan ---------------------------
(***************************************************************************)
(* attach_execution_plan and preflight_execution of execution.py, after    *)
(* the planner: which targets the options select, the rows (one run of a   *)
(* target on a device) planned for each target, and the check of the       *)
(* selected rows against the environment before anything runs.             *)
(*                                                                         *)
(* Every target of the planner is taken to be shown by a section of the    *)
(* report, so that the groups are the ordered targets and then the others. *)
(***************************************************************************)
EXTENDS CoveragePlanner, SequencesExt

CONSTANTS
    Device,     (* serials                                                  *)
    Name,       (* names to ask for with --run-test-name                    *)
    NoDevice,   (* the device of a row when none is requested               *)
    Fragment,   (* the directory name _safe_fragment makes of a device      *)
    Aliases,    (* the names a target answers to                            *)
    Options     (* command lines to choose from                             *)

Option ==
    [priority : {"required", "recommended", "all"},
     top      : Nat,                (* 0 for no limit                       *)
     shard    : {"mirror", "split"},
     devices  : Seq(Device),
     names    : SUBSET Name,
     tool     : {"auto", "xdevice", "aa_test", "runtest"},
     endpoint : BOOLEAN]            (* --hdc-endpoint given                 *)

ASSUME PlanAssumption ==
    /\ NoDevice \notin Device /\ IsFiniteSet(Name)
    /\ DOMAIN Fragment = Device \cup {NoDevice}
    /\ Aliases \in [Target -> SUBSET Name]
    /\ Options \subseteq Option
    /\ \A o \in Options : IsInjective(o.devices)

VARIABLES
    options,    (* the command line, <<>> before                            *)
    selected,   (* selected_target_keys                                     *)
    rows,       (* execution_plan of all targets                            *)
    connected   (* what `hdc list targets` shows                            *)

planVars == <<options, selected, rows, connected>>

vars == <<plannerVars, planVars>>
-----------------------------------------------------------------------------
(* collect_unique_run_targets                                              *)
Groups == OrderedKeys \o Filter([t \in Target |-> t], Target \ ToSet(OrderedKeys))

(* Variant: the wider tier forgets the required targets.                   *)
OnlyAdditional(priority) ==
    CASE priority = "required" -> RequiredKeys
      [] priority = "recommended" -> AdditionalKeys
      [] priority = "all" -> OrderedKeys

(* select_target_keys_for_priority: a list that is empty is taken from the *)
(* others, which are empty then too.                                       *)
KeysFor(priority) ==
    CASE priority = "required" -> RequiredKeys
      [] priority = "recommended" -> RecommendedKeys
      [] priority = "all" -> OrderedKeys

(* With nothing known of the coverage, all targets are candidates.         *)
DefaultGroups(priority) ==
    LET keys == ToSet(KeysFor(priority))
    IN IF keys # {} THEN Filter(Groups, keys)
       ELSE IF AllUnits # {} THEN <<>>
       ELSE Groups

SelectedGroups(o, priority) ==
    LET named == Filter(DefaultGroups(priority),
                        {t \in Target : o.names = {} \/ Aliases[t] \cap o.names # {}})
    IN IF o.top = 0 THEN named
       ELSE SubSeq(named, 1, IF o.top < Len(named) THEN o.top ELSE Len(named))

PlanDevices(o, index) ==
    IF o.devices = <<>> THEN <<NoDevice>>
    ELSE IF o.shard = "split" THEN <<o.devices[((index - 1) % Len(o.devices)) + 1]>>
    ELSE o.devices

(* _select_tool: runtest has only a placeholder for a device not given.    *)
Tool(o, t, device) ==
    LET order == IF o.tool # "auto" THEN <<o.tool>>
                 ELSE IF o.endpoint THEN <<"aa_test", "xdevice", "runtest">>
                 ELSE <<"xdevice", "aa_test", "runtest">>
        usable == {i \in DOMAIN order :
                     /\ order[i] \in target[t].tools
                     /\ ~target[t].missing
                     /\ ~(order[i] = "runtest" /\ device = NoDevice)}
    IN IF usable = {} THEN "" ELSE order[Min(usable)]

(* One session for each requested name of the target.                      *)
Sessions(o, t) ==
    LET matching == Cardinality(Aliases[t] \cap o.names)
    IN IF matching <= 1 THEN 1 ELSE matching

(* Variant: the sessions of a target report to one place.                  *)
SharedPath(o, index, slot, session) ==
    LET devices == PlanDevices(o, index)
    IN <<Fragment[devices[slot]], index, slot>>

(* _planned_xdevice_result_path, and the prefix of a session.              *)
ResultPath(o, index, slot, session) ==
    LET devices == PlanDevices(o, index)
    IN <<Fragment[devices[slot]], index, slot,
         IF Sessions(o, Groups[index]) = 1 THEN 0
         ELSE (session - 1) * Len(devices) + slot>>

(* build_execution_plan and the expansion to sessions, for all groups.     *)
Rows(o) ==
    UNION {LET t == Groups[index]
               devices == PlanDevices(o, index)
           IN {LET device == devices[slot]
                   tool == Tool(o, t, device)
               IN [key     |-> t,
                   device  |-> device,
                   session |-> session,
                   tool    |-> tool,
                   path    |-> IF tool \in {"xdevice", "aa_test"}
                               THEN ResultPath(o, index, slot, session)
                               ELSE <<>>] :
               slot \in DOMAIN devices, session \in 1..Sessions(o, t)} :
           index \in DOMAIN Groups}

Attach ==
    /\ phase = "recommended"
    /\ \E o \in Options :
          /\ options' = o
          /\ selected' = SelectedGroups(o, o.priority)
          /\ rows' = Rows(o)
    /\ phase' = "planned"
    /\ UNCHANGED <<target, remaining, uncovered, ordered, status, connected>>
-----------------------------------------------------------------------------
(* collect_selected_execution_plans                                        *)
SelectedRows == {r \in rows : r.key \in ToSet(selected)}

UsesHdc(tools) == tools \cap {"xdevice", "aa_test"} # {}

Needs(tool) == CASE tool = "xdevice" -> {"hdc", "python"}
                 [] tool = "aa_test" -> {"hdc"}
                 [] tool = "runtest" -> {"runtest"}

SelectedTools == {r.tool : r \in SelectedRows} \ {""}

Queries == \/ SelectedTools \cap {"xdevice", "aa_test"} # {}
           \/ SelectedTools # {} /\ options.devices # <<>>

(* Variant: any connected device will do.                                  *)
FindsAnyDevice(present, listed) ==
    /\ \A r \in SelectedRows : r.tool # ""
    /\ \A tool \in SelectedTools : Needs(tool) \subseteq present
    /\ Queries => "hdc" \in present /\ listed # {}

(* The errors a preflight can find in the rows: present are the programs,  *)
(* listed the devices connected.  A failed query lists nothing.            *)
FindsNoError(present, listed) ==
    LET requested == {r.device : r \in SelectedRows} \ {NoDevice}
    IN /\ \A r \in SelectedRows : r.tool # ""
       /\ \A tool \in SelectedTools : Needs(tool) \subseteq present
       /\ Queries => /\ "hdc" \in present
                     /\ requested \subseteq listed
                     /\ requested = {} => listed # {}

(* fits: no device is known to run another release than the daily package, *)
(* and the test cases of the xdevice rows are a directory.                 *)
Preflight ==
    /\ phase = "planned"
    /\ \E present \in SUBSET {"hdc", "python", "runtest"},
          listed \in SUBSET Device, fits \in BOOLEAN :
          /\ phase' = IF FindsNoError(present, listed) /\ fits THEN "passed" ELSE "failed"
          /\ connected' = IF Queries /\ "hdc" \in present THEN listed ELSE {}
    /\ UNCHANGED <<target, remaining, uncovered, ordered, status, options, selected, rows>>

Init ==
    /\ PlannerInit
    /\ options = <<>>
    /\ selected = <<>>
    /\ rows = {}
    /\ connected = {}

Next ==
    \/ PlannerNext /\ UNCHANGED planVars
    \/ Attach
    \/ Preflight

Spec == Init /\ [][Next]_vars
-----------------------------------------------------------------------------
TypeOK ==
    /\ PlannerTypeOK
    /\ options \in Options \cup {<<>>}
    /\ selected \in Seq(Target)
    /\ \A r \in rows : /\ r.key \in Target
                       /\ r.device \in Device \cup {NoDevice}
                       /\ r.tool \in {"", "xdevice", "aa_test", "runtest"}
    /\ connected \subseteq Device

(* No two rows write their report to one place, whatever the sharding, the *)
(* sessions of a target and devices whose names give one directory.        *)
PathsDistinct ==
    \A r, s \in rows : r # s /\ r.path # <<>> => r.path # s.path

(* docs/CLI_REFERENCE.md:191: a wider tier runs what a narrower one runs,  *)
(* and when a limit makes it run less, of the targets of the narrower tier *)
(* it runs none that the narrower tier would leave out.                    *)
TiersAreNested ==
    phase = "planned" =>
        \A tiers \in {<<"required", "recommended">>, <<"recommended", "all">>} :
            LET narrow == ToSet(SelectedGroups(options, tiers[1]))
                wide   == ToSet(SelectedGroups(options, tiers[2]))
            IN /\ options.top = 0 => narrow \subseteq wide
               /\ wide \cap ToSet(KeysFor(tiers[1])) \subseteq narrow

(* After a preflight that passed every selected row has a tool, its target *)
(* is among the artifacts, a device it names is connected, and one is      *)
(* connected when it names none and needs one.                             *)
PassedMeansConnected ==
    phase = "passed" =>
        \A r \in SelectedRows :
            /\ r.tool # "" /\ ~target[r.key].missing
            /\ r.device # NoDevice => r.device \in connected
            /\ r.tool \in {"xdevice", "aa_test"} => connected # {}

(* The plan of a run, its rows and the choice of its targets.              *)
PlanOK == TypeOK /\ PathsDistinct /\ TiersAreNested
=============================================================================
