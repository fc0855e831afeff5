-------------------------- MODULE MCExecutionPlan --------------------------
(* A small instance of ExecutionPlan for TLC: two changed files, each in   *)
(* the directory of a component, a family unit of each, and a member both  *)
(* changed.                                                                *)
EXTENDS ExecutionPlan, TLC

CONSTANTS button, toast, buttonFamily, toastFamily, member, s1, s2, n1, n2

MCUnitsOf == [s \in Source |-> IF s = button THEN {buttonFamily, member}
                                             ELSE {toastFamily, member}]
MCFamilyOf == [u \in Unit |-> IF u = member THEN {} ELSE {u}]
MCComponent == [s \in Source |-> IF s = button THEN {buttonFamily} ELSE {toastFamily}]

AllTools == {"xdevice", "aa_test", "runtest"}

P(sources, b, t, m, bucket, direct, missing, tools) ==
    LET gain == (buttonFamily :> b) @@ (toastFamily :> t) @@ (member :> m)
    IN [sources |-> sources, gain |-> gain,
        score |-> [u \in Unit |-> IF u = member THEN Cardinality(direct) ELSE 3 - gain[u]],
        bucket |-> bucket, direct |-> direct, missing |-> missing, tools |-> tools]

must == "must-run"
high == "high-confidence related"
low  == "possible related"

MCProfiles ==
    {P({button}, 2, 0, 1, must, {member}, FALSE, AllTools),
     P({button}, 2, 0, 1, high, {}, FALSE, AllTools),
     P({button}, 1, 0, 0, must, {}, FALSE, {"aa_test"}),
     P({button}, 0, 0, 2, high, {member}, FALSE, {"aa_test"}),
     P({button}, 1, 0, 2, low, {}, FALSE, {}),
     P({button}, 0, 0, 1, must, {}, FALSE, AllTools),
     P({toast}, 0, 2, 0, must, {}, FALSE, {"runtest"}),
     P({toast}, 0, 1, 1, must, {member}, FALSE, AllTools),
     P({toast}, 0, 2, 1, low, {}, FALSE, AllTools),
     P({toast}, 0, 0, 0, high, {}, FALSE, AllTools),
     P({button, toast}, 1, 1, 1, must, {}, FALSE, AllTools),
     P({button, toast}, 2, 1, 0, high, {}, FALSE, AllTools),
     P({button, toast}, 2, 2, 1, must, {member}, TRUE, AllTools)}

MCAliases == [t \in Target |-> IF t = 1 THEN {n1, n2} ELSE {n2}]

(* Both serials give one directory name.                                   *)
MCFragment == [d \in Device \cup {NoDevice} |-> IF d = NoDevice THEN 0 ELSE 1]

O(priority, top, shard, devices, names, tool, endpoint) ==
    [priority |-> priority, top |-> top, shard |-> shard, devices |-> devices,
     names |-> names, tool |-> tool, endpoint |-> endpoint]

MCOptions ==
    {O(priority, top, "mirror", <<s1, s2>>, {}, "auto", FALSE) :
        priority \in {"required", "recommended", "all"}, top \in {0, 1}}
    \cup {O("recommended", 0, "split", <<s1, s2>>, names, "auto", FALSE) : names \in SUBSET {n1, n2}}
    \cup {O("recommended", 0, "mirror", <<s1, s2>>, {n1, n2}, "xdevice", FALSE),
          O("required", 2, "mirror", <<>>, {}, "auto", TRUE),
          O("all", 0, "mirror", <<>>, {}, "auto", FALSE),
          O("all", 2, "mirror", <<s1>>, {}, "runtest", FALSE),
          O("recommended", 0, "mirror", <<>>, {}, "runtest", FALSE)}
=============================================================================
