------------------------------- MODULE Flashing -------------------------------
(***************************************************************************)
(* Flashing a package to a device (flashing.py).  A call takes the first   *)
(* device in loader mode, or switches one to it, and starts flash.py,      *)
(* which starts the vendor's upgrade tool.  The tool is not told which     *)
(* device to write: it takes one in loader mode.  When a call runs out of  *)
(* time it kills flash.py, and when it dies nothing is killed: the tool    *)
(* then goes on writing.                                                   *)
(*                                                                         *)
(* One call runs at a time; the devices and the tools of earlier calls     *)
(* move on their own.                                                      *)
(***************************************************************************)
EXTENDS Integers, FiniteSets

CONSTANTS
  Devices,    \* the serial numbers of the devices
  NoDevice,   \* stands for a call that names none, a tool that has none yet
  Older,      \* what a partition contains that is not written during a call
  Parts,      \* the files of an image, one for each partition
  Images,     \* the images there are
  MaxTools    \* bound: the tools of earlier calls that still run

ASSUME FlashAssumption == NoDevice \notin Devices

VARIABLES
  usb,      \* how a device is connected: "hdc", "booting" or "loader"
  flash,    \* what the partitions of a device contain since the call began
  step,     \* the next step of the present call
  want,     \* the device that the call is for
  root,     \* the image that the call writes: a set of pairs of image and part
  child,    \* flash.py: "none", "runs", "ok" or "error", its exit
  tools,    \* the upgrade tools that run: their device, what they still write,
            \* and whether they are of the present call
  ok,       \* the call has read "Reset Device OK"
  status,   \* the result that the call reports
  strays,   \* the devices in loader mode that this call has not switched to it
  mixed     \* the devices that a tool of another call writes during this one

callState == <<step, want, root, child, ok, status>>
flashVars == <<usb, flash, callState, tools, strays, mixed>>

FlashTypeOK ==
  /\ usb \in [Devices -> {"hdc", "booting", "loader"}]
  /\ flash \in [Devices -> [Parts -> Images \cup {Older}]]
  /\ step \in {"none", "look", "targets", "boot", "wait", "start", "stream", "drain", "report"}
  /\ want \in Devices \cup {NoDevice}
  /\ root \subseteq Images \X Parts
  /\ child \in {"none", "runs", "ok", "error"}
  /\ tools \subseteq [device : Devices \cup {NoDevice}, left : SUBSET (Images \X Parts),
                      own : BOOLEAN]
  /\ ok \in BOOLEAN
  /\ status \in {"none", "completed", "failed", "error"}
  /\ strays \subseteq Devices /\ mixed \subseteq Devices

FlashInit ==
  /\ usb = [d \in Devices |-> "hdc"]
  /\ flash = [d \in Devices |-> [p \in Parts |-> Older]]
  /\ step = "none" /\ want = NoDevice /\ root = {}
  /\ child = "none" /\ tools = {} /\ ok = FALSE /\ status = "none"
  /\ strays = {} /\ mixed = {}

Loaders == {d \in Devices : usb[d] = "loader"}
Targets == {d \in Devices : usb[d] = "hdc"}
OwnTools == {t \in tools : t.own}

-----------------------------------------------------------------------------
(* The devices and the tools. *)

\* A device that was switched comes back in loader mode, or does not.
Appear(d, how) ==
  /\ usb[d] = "booting" /\ how \in {"loader", "hdc"}
  /\ usb' = [usb EXCEPT ![d] = how]
  /\ strays' = IF how = "hdc" THEN strays \ {d} ELSE strays
  /\ UNCHANGED <<flash, callState, tools, mixed>>

\* Somebody puts a device into loader mode by hand.
SwitchByHand(d) ==
  /\ usb[d] = "hdc"
  /\ usb' = [usb EXCEPT ![d] = "loader"] /\ strays' = strays \cup {d}
  /\ UNCHANGED <<flash, callState, tools, mixed>>

\* flash.py starts the tool, which takes a device in loader mode.
TakeDevice(t, d) ==
  /\ t \in tools /\ t.device = NoDevice /\ d \in Loaders
  /\ tools' = (tools \ {t}) \cup {[t EXCEPT !.device = d]}
  /\ mixed' = IF t.own THEN mixed ELSE mixed \cup {d}
  /\ UNCHANGED <<usb, flash, callState, strays>>

WritePart(t, f) ==
  /\ t \in tools /\ t.device # NoDevice /\ f \in t.left
  /\ flash' = [flash EXCEPT ![t.device][f[2]] = f[1]]
  /\ tools' = (tools \ {t}) \cup {[t EXCEPT !.left = @ \ {f}]}
  /\ mixed' = IF t.own THEN mixed ELSE mixed \cup {t.device}
  /\ UNCHANGED <<usb, callState, strays>>

\* The tool has written the image, resets the device and says so.
ToolEnds(t) ==
  /\ t \in tools /\ t.device # NoDevice /\ t.left = {}
  /\ tools' = tools \ {t}
  /\ usb' = [usb EXCEPT ![t.device] = "hdc"] /\ strays' = strays \ {t.device}
  /\ ok' = (ok \/ t.own)
  /\ UNCHANGED <<flash, step, want, root, child, status, mixed>>

ToolFails(t) ==
  /\ t \in tools
  /\ tools' = tools \ {t}
  /\ UNCHANGED <<usb, flash, callState, strays, mixed>>

\* flash.py exits, most often after its tool.  Its exit status does not tell
\* whether the tool has succeeded.
ChildExits(how) ==
  /\ child = "runs" /\ how \in {"ok", "error"}
  /\ child' = how
  /\ tools' = {t \in tools : t.own => t.device # NoDevice}
  /\ UNCHANGED <<usb, flash, step, want, root, ok, status, strays, mixed>>

-----------------------------------------------------------------------------
(* The call. *)

BeginFlash(d, files) ==
  /\ step = "none" /\ Cardinality(tools) < MaxTools
  /\ step' = "look" /\ want' = d /\ root' = files
  /\ mixed' = {t.device : t \in tools} \ {NoDevice}
  /\ UNCHANGED <<usb, flash, child, tools, ok, status, strays>>

\* An error raised before flash.py is started, caught by the utility mode.
GiveUp ==
  /\ step' = "report" /\ status' = "error"
  /\ UNCHANGED <<want, root, child, ok>>

\* Any device in loader mode will do.
Look ==
  /\ step = "look"
  /\ step' = IF Loaders # {} THEN "start" ELSE "targets"
  /\ UNCHANGED <<usb, flash, want, root, child, ok, status, tools, strays, mixed>>

LookTargets ==
  /\ step = "targets"
  /\ IF (want # NoDevice => want \in Targets) /\ Targets # {}
       THEN step' = "boot" /\ UNCHANGED <<want, root, child, ok, status>>
       ELSE GiveUp
  /\ UNCHANGED <<usb, flash, tools, strays, mixed>>

(* Variant: hdc takes the device it is connected to.                       *)
AnyTarget == Targets

\* hdc is told the device, or takes the one it is connected to.
BootTargets == IF want = NoDevice THEN Targets ELSE Targets \cap {want}

Boot(d) ==
  /\ step = "boot" /\ d \in BootTargets
  /\ usb' = [usb EXCEPT ![d] = "booting"]
  /\ step' = "wait"
  /\ UNCHANGED <<flash, want, root, child, ok, status, tools, strays, mixed>>

\* hdc fails or does not answer in time, perhaps after it has told the device.
BootFails ==
  /\ step = "boot" /\ GiveUp
  /\ \/ UNCHANGED usb
     \/ \E d \in BootTargets : usb' = [usb EXCEPT ![d] = "booting"]
  /\ UNCHANGED <<flash, tools, strays, mixed>>

SeeLoader ==
  /\ step = "wait" /\ Loaders # {}
  /\ step' = "start"
  /\ UNCHANGED <<usb, flash, want, root, child, ok, status, tools, strays, mixed>>

\* The tool cannot list the devices, or none appears in time.
NoLoader ==
  /\ step = "look" \/ (step = "wait" /\ Loaders = {})
  /\ GiveUp
  /\ UNCHANGED <<usb, flash, tools, strays, mixed>>

Start ==
  /\ step = "start"
  /\ child' = "runs" /\ step' = "stream"
  /\ tools' = tools \cup {[device |-> NoDevice, left |-> root, own |-> TRUE]}
  /\ UNCHANGED <<usb, flash, want, root, ok, status, strays, mixed>>

\* The deadline is looked at while flash.py runs.  flash.py is killed, and its
\* tool is not.
Timeout ==
  /\ step = "stream"
  /\ child' = "none" /\ step' = "report" /\ status' = "error"
  /\ tools' = {[t EXCEPT !.own = FALSE] : t \in {u \in tools : u.own => u.device # NoDevice}}
  /\ UNCHANGED <<usb, flash, want, root, ok, strays, mixed>>

SeeExit ==
  /\ step = "stream" /\ child \in {"ok", "error"}
  /\ step' = "drain"
  /\ UNCHANGED <<usb, flash, want, root, child, ok, status, tools, strays, mixed>>

(* Variant: the output is not read to its end.                             *)
OutputSoFar == TRUE

\* The pipe has no writer left.
PipeIsClosed == OwnTools = {}

\* The output is read to its end, without a deadline.
EndOfDrain ==
  /\ step = "drain" /\ PipeIsClosed
  /\ status' = IF child = "ok" /\ ok THEN "completed" ELSE "failed"
  /\ step' = "report"
  /\ UNCHANGED <<usb, flash, want, root, child, ok, tools, strays, mixed>>

\* The call is over, or the process is killed; what it has started goes on.
EndOfFlash ==
  /\ step' = "none" /\ want' = NoDevice /\ root' = {}
  /\ child' = "none" /\ ok' = FALSE /\ status' = "none"
  /\ tools' = {[t EXCEPT !.own = FALSE] : t \in tools}
  /\ strays' = {d \in Devices : usb[d] # "hdc"} /\ mixed' = {}
  /\ flash' = [d \in Devices |-> [p \in Parts |-> Older]]
  /\ UNCHANGED usb

FlashStep ==
  \/ Look \/ LookTargets \/ BootFails \/ SeeLoader \/ NoLoader \/ Start
  \/ Timeout \/ SeeExit \/ EndOfDrain
  \/ \E d \in Devices : Boot(d)
  \/ \E how \in {"ok", "error"} : ChildExits(how)

Environment ==
  \/ \E d \in Devices : SwitchByHand(d) \/ (\E how \in {"loader", "hdc"} : Appear(d, how))
  \/ \E t \in tools : \/ ToolEnds(t) \/ ToolFails(t)
                      \/ \E d \in Devices : TakeDevice(t, d)
                      \/ \E f \in t.left : WritePart(t, f)
=============================================================================
