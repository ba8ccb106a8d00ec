----------------------------- MODULE Installation -----------------------------
(* Installing and uninstalling the driver: UsbDk_InstallDriver and
   UsbDk_UninstallDriver (UsbDkHelper.cpp) with UsbDkInstaller,
   ServiceManager, WdfCoinstaller and DeviceMgr, called by UsbDkController and
   by UsbDkInstHelper, the custom action of the MSI package.  An installation
   is spread over a file, a service, the list of upper filters of the USB host
   controller class and the running stacks of the controllers; every call may
   fail, the process may be killed and the machine restarted between any two
   of them, and other programs change the same list of filters.             *)
EXTENDS Naturals, SequencesExt

CONSTANTS Controllers,   \* the USB host controllers of the machine
          OtherFilters,  \* upper filters other programs register
          UsbDk          \* USBDK_DRIVER_NAME in the list of filters

ASSUME InstallationAssumption == IsFiniteSet(OtherFilters) /\ UsbDk \notin OtherFilters

VARIABLES
  driver,    \* the driver file is in System32\Drivers
  service,   \* the service object
  filters,   \* UpperFilters of the class; a missing value is an empty list
  stacks,    \* what each host controller runs with
  machine,   \* what the machine is: its build, its verdict on the driver
  testSigning, \* the boot option
  run,       \* the installing process
  disturbed, \* history: a call of this process failed
  leftListed, \* history: a failed removal of the filter was passed over
  overlooked \* history: the last reset passed over a controller not restarted

vars == <<driver, service, filters, stacks, machine, testSigning, run,
          disturbed, leftListed, overlooked>>
system == <<driver, service, filters, stacks, testSigning, leftListed, overlooked>>

InstallSteps == {"openInstaller", "sign", "copy", "preInstall", "create",
  "verify", "postInstall", "listSize", "listValue", "listWrite", "installReset"}
UninstallSteps == {"openUninstaller", "unlistSize", "unlistValue",
  "unlistWrite", "uninstallReset", "deleteDriver", "preRemove",
  "deleteService", "postRemove"}
Results == {"InstallSuccess", "InstallSuccessNeedReboot", "InstallFailure",
            "InstallAborted", "Uninstalled", "UninstallFailed"}

\* "after" says what an uninstallation is part of: a call of its own, the
\* cleaning of the MSI helper, or the rollback of a failed installation.
RunType ==
  [tool : {"none", "controller", "helper"},
   pc : InstallSteps \cup UninstallSteps \cup {"idle", "returned"},
   after : {"return", "install", "failure"},
   rollback : BOOLEAN, reboot : BOOLEAN,
   list : Seq(OtherFilters \cup {UsbDk}), result : Results \cup {"none"}]

Idle == [tool |-> "none", pc |-> "idle", after |-> "return", rollback |-> FALSE,
         reboot |-> FALSE, list |-> <<>>, result |-> "none"]

Machines == [build : {7601, 22000}, verdict : {"loads", "blocked", "refused"}]

\* The machine before UsbDk: other programs may have registered their filters.
Init == /\ driver = FALSE /\ service = "absent"
        /\ filters \in SetToSeqs(OtherFilters)
        /\ stacks = [h \in Controllers |-> "plain"]
        /\ machine \in Machines
        /\ testSigning \in BOOLEAN
        /\ run = Idle /\ disturbed = FALSE /\ leftListed = FALSE
        /\ overlooked = FALSE

--------------------------------------------------------------------------------
(* What Windows does.                                                         *)

Loaded(s) == \E h \in Controllers : s[h] = "filtered"

\* A controller starts with the filters of its class; one that cannot be
\* loaded keeps the controller from starting.
Started == CASE UsbDk \notin Range(filters) -> "plain"
             [] UsbDk \in Range(filters) /\ driver /\ service = "present"
                  /\ machine.verdict = "loads" -> "filtered"
             [] OTHER -> "broken"

\* The service of a loaded driver is only marked for deletion.
Restart(hs) ==
  /\ stacks' = [h \in Controllers |-> IF h \in hs THEN Started ELSE stacks[h]]
  /\ service' = IF service = "marked" /\ ~Loaded(stacks') THEN "absent"
                ELSE service

ServiceDeleted == IF Loaded(stacks) THEN "marked" ELSE "absent"

--------------------------------------------------------------------------------
(* The two calls of the library and their exception handlers.                 *)

Goto(pc) == [run EXCEPT !.pc = pc]

Returned(result) == [run EXCEPT !.pc = "returned", !.result = result,
                                !.list = <<>>]

InstallDriver(r) == [r EXCEPT !.pc = "openInstaller", !.after = "return",
                              !.rollback = FALSE, !.reboot = FALSE, !.list = <<>>]

UninstallDriver(r, after) == [r EXCEPT !.pc = "openUninstaller",
                                       !.after = after, !.list = <<>>]

\* Neither the MSI helper nor the rollback looks at the result of the
\* uninstallation it calls.
Uninstalled(ok) ==
  CASE run.after = "return" -> Returned(IF ok THEN "Uninstalled" ELSE "UninstallFailed")
    [] run.after = "install" -> InstallDriver(run)
    [] run.after = "failure" -> Returned("InstallFailure")

Thrown == CASE run.pc \in UninstallSteps -> Uninstalled(FALSE)
            [] run.pc \in InstallSteps /\ run.rollback -> UninstallDriver(run, "failure")
            [] OTHER -> Returned("InstallFailure")

At(pc) == run.pc = pc

\* A call into Windows fails and changes nothing.  The write of the filters by
\* an uninstallation and the start of the service have failures of their own.
CallFails ==
  /\ run.pc \in (InstallSteps \cup UninstallSteps) \ {"sign", "verify", "unlistWrite"}
  /\ run' = Thrown
  /\ disturbed' = TRUE
  /\ UNCHANGED <<system, machine>>

Opened == /\ \/ At("openInstaller") /\ run' = Goto("sign")
             \/ At("openUninstaller") /\ run' = Goto("unlistSize")
          /\ UNCHANGED <<system, machine, disturbed>>

--------------------------------------------------------------------------------
(* UsbDkInstaller::Install                                                    *)

ERROR_SUCCESS == 0

\* ReadString returns the number of elements it has read, 0 when it fails.
ReadString(readable) == IF readable THEN 6 ELSE 0

\* The test compares that number with ERROR_SUCCESS, so that the build is
\* looked at only when it could not be read and is 0.
AttemptsTestSigning(readable) ==
  LET buildNumber == IF readable THEN machine.build ELSE 0
  IN  /\ ReadString(readable) = ERROR_SUCCESS
      /\ buildNumber >= 14393
      /\ ~testSigning

CheckSigning ==
  /\ At("sign")
  /\ \E readable, bcdedit \in BOOLEAN :
       LET enabled == AttemptsTestSigning(readable) /\ bcdedit
       IN  /\ testSigning' = (testSigning \/ enabled)
           /\ run' = [run EXCEPT !.pc = "copy", !.reboot = enabled]
  /\ UNCHANGED <<driver, service, filters, stacks, leftListed, overlooked, machine, disturbed>>

\* An existing file is not overwritten.
CopyDriver ==
  /\ At("copy")
  /\ IF driver THEN run' = Thrown
     ELSE run' = [run EXCEPT !.pc = "preInstall", !.rollback = TRUE]
  /\ driver' = TRUE
  /\ UNCHANGED <<service, filters, stacks, testSigning, leftListed, overlooked, machine, disturbed>>

PreDeviceInstallEx ==
  /\ At("preInstall")
  /\ \E reboot \in BOOLEAN :
       run' = [run EXCEPT !.pc = "create", !.reboot = @ \/ reboot]
  /\ UNCHANGED <<system, machine, disturbed>>

\* A service that exists is deleted and created again.
CreateServiceObject ==
  /\ At("create")
  /\ \/ /\ \/ service = "absent"
           \/ service = "present" /\ ServiceDeleted = "absent"
        /\ service' = "present"
        /\ run' = Goto("verify")
        /\ UNCHANGED disturbed
     \/ /\ \/ service = "marked"
           \/ service = "present" /\ ServiceDeleted = "marked"
        /\ service' = "marked"
        /\ run' = Thrown
        /\ UNCHANGED disturbed
     \/ /\ service = "present"       \* deleted, and the creation fails
        /\ service' = ServiceDeleted
        /\ run' = Thrown
        /\ disturbed' = TRUE
  /\ UNCHANGED <<driver, filters, stacks, testSigning, leftListed, overlooked, machine>>

\* A driver that is refused aborts the installation, one that is blocked by a
\* policy does not.  The failure of the deletion is passed over.
VerifyDriverCanStart ==
  /\ At("verify")
  /\ \/ /\ machine.verdict # "refused"
        /\ run' = Goto("postInstall")
        /\ UNCHANGED <<service, disturbed>>
     \/ /\ service' \in {service, ServiceDeleted}
        /\ run' = Returned("InstallAborted")
        /\ disturbed' = (disturbed \/ machine.verdict # "refused")
  /\ UNCHANGED <<driver, filters, stacks, testSigning, leftListed, overlooked, machine>>

PostDeviceInstall == /\ At("postInstall")
                     /\ run' = Goto("listSize")
                     /\ UNCHANGED <<system, machine, disturbed>>

\* The list without an entry, string by string.
Without(list, entry) ==
  LET kept[i \in 0 .. Len(list)] ==
        IF i = 0 THEN <<>>
        ELSE IF list[i] = entry THEN kept[i - 1] ELSE Append(kept[i - 1], list[i])
  IN  kept[Len(list)]

\* Mutant: the loop over the multi-string stops at its last element.
WithoutUsbDk_StopsEarly(list) == Without(SubSeq(list, 1, Len(list) - 1), UsbDk)

WithoutUsbDk(list) == Without(list, UsbDk)

\* ReadMultiString is called for the size of the value and again for the
\* value; a value that grew in between does not fit the buffer any more.
MeasureFilters(pc, value, none) ==
  /\ At(pc)
  /\ run' = [run EXCEPT !.list = filters,
                        !.pc = IF filters = <<>> THEN none ELSE value]
  /\ UNCHANGED <<system, machine, disturbed>>

\* Mutant: the failure of the second read is taken for a missing value.
ReadFilters_IgnoresError(pc, write, none) ==
  /\ At(pc)
  /\ run' = [run EXCEPT !.list = filters,
                        !.pc = IF filters = <<>> \/ Len(filters) > Len(run.list)
                               THEN none ELSE write]
  /\ UNCHANGED <<system, machine, disturbed>>

ReadFilters(pc, write, none) ==
  /\ At(pc)
  /\ IF Len(filters) > Len(run.list)
     THEN run' = Thrown /\ disturbed' = TRUE
     ELSE /\ run' = [run EXCEPT !.list = filters,
                                !.pc = IF filters = <<>> THEN none ELSE write]
          /\ UNCHANGED disturbed
  /\ UNCHANGED <<system, machine>>

\* Mutant: the entry is appended without taking an old one out.
AddUsbDkToRegistry_Again ==
  \/ MeasureFilters("listSize", "listValue", "listWrite")
  \/ ReadFilters("listValue", "listWrite", "listWrite")
  \/ /\ At("listWrite")
     /\ filters' = Append(run.list, UsbDk)
     /\ leftListed' = FALSE
     /\ run' = [run EXCEPT !.pc = "installReset", !.list = <<>>]
     /\ UNCHANGED <<driver, service, stacks, testSigning, overlooked, machine, disturbed>>

AddUsbDkToRegistry ==
  \/ MeasureFilters("listSize", "listValue", "listWrite")
  \/ ReadFilters("listValue", "listWrite", "listWrite")
  \/ /\ At("listWrite")
     /\ filters' = Append(WithoutUsbDk(run.list), UsbDk)
     /\ leftListed' = FALSE
     /\ run' = [run EXCEPT !.pc = "installReset", !.list = <<>>]
     /\ UNCHANGED <<driver, service, stacks, testSigning, overlooked, machine, disturbed>>

\* Mutant: a controller that could not be reset is passed over.
ResetDeviceByClass_Continues(all, some) ==
  \E hs \in SUBSET Controllers :
    /\ Restart(hs)
    /\ run' = all
    /\ overlooked' = FALSE
    /\ disturbed' = (disturbed \/ hs # Controllers)

\* The loop ends with the first controller that is known to need a reboot.
\* One whose flags cannot be read counts as restarted, and when the
\* enumeration itself fails the loop ends as if all controllers were done.
ResetDeviceByClass(all, some) ==
  \E hs \in SUBSET Controllers, noticed \in BOOLEAN :
    /\ Restart(hs)
    /\ run' = IF hs # Controllers /\ noticed THEN some ELSE all
    /\ overlooked' = (hs # Controllers /\ ~noticed)
    /\ disturbed' = (disturbed \/ hs # Controllers)

ResetAfterInstall ==
  /\ At("installReset")
  /\ IF run.reboot
     THEN /\ run' = Returned("InstallSuccessNeedReboot")
          /\ UNCHANGED <<stacks, service, overlooked, disturbed>>
     ELSE ResetDeviceByClass(Returned("InstallSuccess"), Returned("InstallSuccessNeedReboot"))
  /\ UNCHANGED <<driver, filters, testSigning, leftListed, machine>>

--------------------------------------------------------------------------------
(* UsbDkInstaller::Uninstall                                                  *)

\* A list that cannot be written is left as it is and the removal goes on.
RemoveUsbDkFromRegistry ==
  \/ MeasureFilters("unlistSize", "unlistValue", "uninstallReset")
  \/ ReadFilters("unlistValue", "unlistWrite", "uninstallReset")
  \/ /\ At("unlistWrite")
     /\ \/ /\ filters' = WithoutUsbDk(run.list)
           /\ leftListed' = FALSE
           /\ UNCHANGED disturbed
        \/ /\ UNCHANGED filters
           /\ leftListed' = (UsbDk \in Range(filters))
           /\ disturbed' = TRUE
     /\ run' = [run EXCEPT !.pc = "uninstallReset", !.list = <<>>]
     /\ UNCHANGED <<driver, service, stacks, testSigning, overlooked, machine>>

\* Mutant: the controllers keep running with the filter.
ResetAfterRemoval_Skipped ==
  At("uninstallReset") /\ run' = Goto("deleteDriver") /\ UNCHANGED <<system, machine, disturbed>>

ResetAfterRemoval ==
  /\ At("uninstallReset")
  /\ ResetDeviceByClass(Goto("deleteDriver"), Goto("deleteDriver"))
  /\ UNCHANGED <<driver, filters, testSigning, leftListed, machine>>

\* A file that is missing is as good as one that was deleted.
DeleteDriver ==
  /\ At("deleteDriver")
  /\ driver' = FALSE
  /\ run' = Goto("preRemove")
  /\ UNCHANGED <<service, filters, stacks, testSigning, leftListed, overlooked, machine, disturbed>>

PreDeviceRemove == /\ At("preRemove")
                   /\ run' = Goto("deleteService")
                   /\ UNCHANGED <<system, machine, disturbed>>

DeleteServiceObject ==
  /\ At("deleteService")
  /\ IF service = "present"
     THEN service' = ServiceDeleted /\ run' = Goto("postRemove")
     ELSE run' = Thrown /\ UNCHANGED service
  /\ UNCHANGED <<driver, filters, stacks, testSigning, leftListed, overlooked, machine, disturbed>>

PostDeviceRemove == /\ At("postRemove")
                    /\ run' = Uninstalled(TRUE)
                    /\ UNCHANGED <<system, machine, disturbed>>

--------------------------------------------------------------------------------
(* The programs that install, and what happens around them.                   *)

\* UsbDkController calls the library once; UsbDkInstHelper uninstalls what is
\* there before it installs.
Begin(tool) ==
  /\ At("idle")
  /\ LET started == [Idle EXCEPT !.tool = tool]
     IN  \/ run' = UninstallDriver(started, "return")
         \/ tool = "controller" /\ run' = InstallDriver(started)
         \/ tool = "helper" /\ run' = UninstallDriver(started, "install")
  /\ disturbed' = FALSE
  /\ UNCHANGED <<system, machine>>

Exit == At("returned") /\ run' = Idle /\ UNCHANGED <<system, machine, disturbed>>

InstallerDies == ~At("idle") /\ run' = Idle /\ UNCHANGED <<system, machine, disturbed>>

\* A marked service is gone after a restart.
Reboot ==
  /\ run' = Idle
  /\ service' = IF service = "marked" THEN "absent" ELSE service
  /\ stacks' = [h \in Controllers |-> Started]
  /\ UNCHANGED <<driver, filters, testSigning, leftListed, overlooked, machine, disturbed>>

OtherProgram(f) ==
  /\ filters' = IF f \in Range(filters) THEN Without(filters, f)
                ELSE Append(filters, f)
  /\ UNCHANGED <<driver, service, stacks, testSigning, leftListed, overlooked, machine, run, disturbed>>

InstallStep == \/ CheckSigning \/ CopyDriver \/ PreDeviceInstallEx
               \/ CreateServiceObject \/ VerifyDriverCanStart
               \/ PostDeviceInstall \/ AddUsbDkToRegistry \/ ResetAfterInstall

UninstallStep == \/ RemoveUsbDkFromRegistry \/ ResetAfterRemoval \/ DeleteDriver
                 \/ PreDeviceRemove \/ DeleteServiceObject \/ PostDeviceRemove

Next == \/ \E tool \in {"controller", "helper"} : Begin(tool)
        \/ Opened \/ CallFails \/ InstallStep \/ UninstallStep \/ Exit
        \/ InstallerDies \/ Reboot
        \/ \E f \in OtherFilters : OtherProgram(f)

Spec == Init /\ [][Next]_vars

--------------------------------------------------------------------------------
(* Properties                                                                 *)

\* Every variable keeps its type; no filter is listed twice, however many
\* installations were broken off before.
TypeOK ==
  /\ driver \in BOOLEAN /\ testSigning \in BOOLEAN
  /\ disturbed \in BOOLEAN /\ leftListed \in BOOLEAN /\ overlooked \in BOOLEAN
  /\ service \in {"absent", "present", "marked"}
  /\ filters \in Seq(OtherFilters \cup {UsbDk}) /\ IsInjective(filters)
  /\ stacks \in [Controllers -> {"plain", "filtered", "broken"}]
  /\ machine \in Machines
  /\ run \in RunType

\* A filter that is listed and cannot be loaded takes every USB device away:
\* wherever an installation or a removal fails, is killed or is cut off by a
\* restart, UpperFilters names UsbDk only while the file and the service are
\* there (Installer.cpp adds the entry last and removes it first).  The one
\* exception is a removal whose write of the list failed: it goes on.
ListedDriverIsInstalled ==
  UsbDk \in Range(filters) /\ ~leftListed => driver /\ service = "present"

\* What the tools print is so: after a success without a reboot every
\* controller runs with the filter (unless a policy blocks the driver, which
\* verifyDriverCanStart lets through, or the need for the reboot was itself
\* overlooked: DeviceMgr.cpp takes flags it cannot read and an enumeration
\* that fails for a restart), and after a successful removal neither the file
\* nor the service nor, if it could be written, the entry is left.
ResultIsTrue ==
  /\ run.result = "InstallSuccess" /\ machine.verdict = "loads" /\ ~overlooked =>
       \A h \in Controllers : stacks[h] = "filtered"
  /\ run.result = "Uninstalled" =>
       /\ ~driver /\ service # "present"
       /\ leftListed \/ UsbDk \notin Range(filters)

\* Whatever killed installations, failed removals and restarts have left, an
\* installation by the MSI helper during which no call fails ends with an
\* installed driver: it uninstalls first and takes missing parts for removed.
CleanInstallSucceeds ==
  /\ run.tool = "helper" /\ ~disturbed /\ machine.verdict = "loads"
  => run.result \notin {"InstallFailure", "InstallAborted"}

\* The list is read and written back without a lock.  A write of the installer
\* never takes the filter of another program away that was there when it read.
OtherFiltersKept ==
  [][run' # run =>
       \A f \in OtherFilters \cap Range(filters) \cap Range(run.list) :
         f \in Range(filters')]_vars
================================================================================
