--------------------------- MODULE MCFirmwareUpdate ---------------------------
EXTENDS FirmwareUpdate
CONSTANTS b1, b2, d1, d2, info, json, hap
MCBuilds == {b1, b2}
MCNames == {info, json, hap}
MCMembers ==
  [k \in {"tests", "sdk", "firmware", "none"} |->
     IF k = "none" THEN {} ELSE IF k = "tests" THEN MCNames ELSE {info, hap}]
MCParts == MCMembers["firmware"]
MCConfigs == {json}
MCKinds ==
  {[b \in MCBuilds |-> "tests"]} \cup
  {[b \in MCBuilds |-> IF b = b1 THEN k ELSE "none"] : k \in {"sdk", "firmware"}}
=============================================================================
