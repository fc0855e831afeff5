---------------------------- MODULE FirmwareUpdate ----------------------------
(***************************************************************************)
(* The utility mode that prepares a firmware package and flashes it        *)
(* (utility_modes.py): DailyPackage and Flashing, composed.  The image     *)
(* that is written is the directory that the preparation found; a call     *)
(* that is killed leaves its files as they are and its tool running.  What *)
(* devices and tools do between two flashes has no effect on the files, so *)
(* that it is left to the beginning of the next one.                       *)
(***************************************************************************)
EXTENDS DailyPackage, Flashing

\* The images are the builds, with a part for each file of firmware.
ASSUME ImageAssumption == Images = Builds /\ Parts = Members["firmware"]

vars == <<packageVars, flashVars>>

Init == PackageInit /\ FlashInit

\* The prepared image goes to flash_image_bundle.
FlashPrepared(d) ==
  /\ pc = "flash" /\ BeginFlash(d, tree)
  /\ UNCHANGED packageVars

\* The report of the utility mode.
ReportFlash ==
  /\ step = "report" /\ EndOfFlash
  /\ Return /\ UNCHANGED <<kind, fileVars, cut, torn>>

Killed == Die /\ EndOfFlash

Next ==
  \/ (PackageNext /\ UNCHANGED flashVars)
  \/ \E d \in Devices \cup {NoDevice} : FlashPrepared(d)
  \/ ReportFlash \/ Killed
  \/ pc = "flash" /\ (FlashStep \/ Environment) /\ UNCHANGED packageVars

Spec == Init /\ [][Next]_vars

-----------------------------------------------------------------------------
(* Properties *)

\* The variables have their types and, whatever the order of interrupted,
\* resumed and restarted downloads, a .part file is a beginning of the package,
\* and an archive is the package unless the server closed a transfer early; the
\* files that a call uses are those of one whole build.
PackagesOK == PackageTypeOK /\ FlashTypeOK /\ DownloadsAreFaithful /\ UsedIsWhole

\* A flash that is reported has ended: it holds what it said, unless it was
\* given up, and its tool writes no more.  "completed" means that one device
\* holds the whole image of the build that was asked for, unless a call was
\* stopped in the extraction of that build, or the tool of a call that was
\* killed or timed out wrote to the same device.
FlashedIsWhole ==
  step = "report" /\ status # "error" =>
    /\ OwnTools = {}
    /\ status = "completed" =>
         \/ call.build \in torn
         \/ \E d \in Devices : (\A p \in Parts : flash[d][p] = call.build) \/ d \in mixed

\* A call switches no device but its own, and writes no other one that was in
\* normal operation when the call began: a device is written only by a call
\* that is for it or for none in particular.  Exempt are, because the code
\* takes any device in loader mode, the strays (devices that an earlier call
\* has left in loader mode or booting into it, and those that somebody has put
\* there by hand) and the devices that a tool of an earlier call still writes.
OnlyAskedDevice ==
  [][\A d \in Devices, p \in Parts :
       flash'[d][p] \notin {flash[d][p], Older}
       => d \in strays \/ want \in {d, NoDevice} \/ d \in mixed']_vars
=============================================================================
